------------------------- MODULE ResultsFoldProofs --------------------------
(* Machine-checked proofs about ResultsFold and about the JUnit report and   *)
(* the fold of roles of ResultsViews, for every N, every set of names and    *)
(* every set of lockfiles and of other roles' results.                       *)
EXTENDS ResultsViews, FiniteSetTheorems, SequenceTheorems, WellFoundedInduction, TLAPS

TailLines == {<<>>, <<"end">>, <<"end", "header">>, <<"torn">>, <<"run-error", "end">>}
Line == [case : 1..N, status : Words]

-----------------------------------------------------------------------------
(* The producer's step, without the instance. *)

LEMMA StreamStep ==
  ASSUME TypeOK, Stream!Next
  PROVE  \/ /\ state = "silent" /\ state' = "open" /\ lines' = lines
         \/ /\ state = "open" /\ state' = "open" /\ Len(lines) < N
            /\ \E s \in Words :
                 lines' = Append(lines, [case |-> Len(lines) + 1, status |-> s])
         \/ /\ state = "open" /\ state' = "closed" /\ Len(lines) = N /\ lines' = lines
         \/ /\ state \in {"silent", "open"} /\ state' = "cut" /\ lines' = lines
<1>1. CASE Stream!Open
  BY <1>1 DEF Stream!Open
<1>2. CASE Stream!Report
  <2>1. state = "open" /\ Len(lines) < N /\ state' = state
    BY <1>2 DEF Stream!Report
  <2>2. Len(lines) + 1 \in 1..N
    BY <2>1, FoldAssumption DEF TypeOK
  <2>3. PICK s \in [i \in 1..N |-> Words][Len(lines) + 1] :
          lines' = Append(lines, [case |-> Len(lines) + 1, status |-> s])
    BY <1>2 DEF Stream!Report
  <2>4. s \in Words
    BY <2>2, <2>3
  <2> QED BY <2>1, <2>3, <2>4
<1>3. CASE Stream!Close
  BY <1>3 DEF Stream!Close
<1>4. CASE Stream!Cut
  BY <1>4 DEF Stream!Cut
<1> QED BY <1>1, <1>2, <1>3, <1>4 DEF Stream!Next

(* What the producer's step leaves of the file. *)
LEMMA WriteStep ==
  ASSUME TypeOK, Write
  PROVE  /\ state' \in {"silent", "open", "closed", "cut"}
         /\ lines' \in Seq(Line)
         /\ headers' \in {headers, headers + 1}
         /\ state # "silent" => headers' = headers
         /\ tail' \in TailLines
<1>1. lines \in Seq(Line)
  BY DEF TypeOK, Line
<1>2. lines' \in Seq(Line) /\ state' \in {"silent", "open", "closed", "cut"}
  <2>1. CASE lines' = lines
    BY <1>1, <2>1, StreamStep DEF Write
  <2>2. CASE Len(lines) < N /\ \E s \in Words :
                 lines' = Append(lines, [case |-> Len(lines) + 1, status |-> s])
    <3>1. PICK s \in Words : lines' = Append(lines, [case |-> Len(lines) + 1, status |-> s])
      BY <2>2
    <3>2. [case |-> Len(lines) + 1, status |-> s] \in Line
      BY <1>1, <2>2, FoldAssumption DEF Line
    <3> QED BY <1>1, <3>1, <3>2, StreamStep DEF Write
  <2> QED BY <2>1, <2>2, StreamStep DEF Write
<1>3. tail' \in TailLines
  BY DEF Write, Tails, TailLines
<1>4. headers' \in {headers, headers + 1} /\ (state # "silent" => headers' = headers)
  BY DEF Write
<1> QED BY <1>2, <1>3, <1>4

-----------------------------------------------------------------------------
(* The lockfile's exact cases are names. *)

LEMMA ExactNamed ==
  ASSUME lock \in Lockfiles \union {NoLock}
  PROVE  /\ ExactLen \in Nat
         /\ \A k \in 1..ExactLen : ExactAt(k) \in Names
         /\ Exact = {ExactAt(k) : k \in 1..ExactLen}
<1>1. CASE lock = NoLock
  BY <1>1 DEF ExactLen, Exact
<1>2. CASE lock # NoLock
  <2>1. lock.case \in Seq(CaseEntry)
    BY <1>2, FoldAssumption
  <2>2. ExactLen = Len(lock.case) /\ Len(lock.case) \in Nat /\ DOMAIN lock.case = 1..ExactLen
    BY <1>2, <2>1 DEF ExactLen
  <2>3. \A k \in 1..ExactLen : ExactAt(k) \in Names
    <3> SUFFICES ASSUME NEW k \in 1..ExactLen PROVE ExactAt(k) \in Names
      OBVIOUS
    <3>1. lock.case[k] \in CaseEntry
      BY <2>1, <2>2
    <3> QED BY <3>1 DEF ExactAt, CaseEntry
  <2>4. Exact = {ExactAt(k) : k \in 1..ExactLen}
    BY <1>2, <2>2 DEF Exact, ExactNames, ExactAt
  <2> QED BY <2>2, <2>3, <2>4
<1> QED BY <1>1, <1>2

(* The line the fold reads next is an event of the stream. *)
LEMMA EventRead ==
  ASSUME TypeOK, Reads("event")
  PROVE  /\ headers <= pos /\ pos + 1 - headers \in 1..Len(lines)
         /\ lines[pos + 1 - headers] \in Line
         /\ NameAt(pos + 1 - headers) \in Names
<1>1. /\ headers \in Nat /\ lines \in Seq(Line) /\ pos \in Nat /\ Len(lines) \in Nat
      /\ Len(tail) \in Nat
  BY DEF TypeOK, Line
<1>2. LineAt(pos + 1) = "event" /\ pos + 1 <= FileLen
  BY <1>1 DEF Reads, FileLen
<1>3. ~(pos + 1 <= headers)
  BY <1>1, <1>2 DEF LineAt
<1>4. ~(pos + 1 > headers + Len(lines))
  <2> SUFFICES ASSUME pos + 1 > headers + Len(lines) PROVE FALSE
    OBVIOUS
  <2>1. LineAt(pos + 1) = tail[pos + 1 - headers - Len(lines)]
    BY <1>1, <1>3 DEF LineAt
  <2>2. pos + 1 - headers - Len(lines) \in 1..Len(tail)
    BY <1>1, <1>2 DEF FileLen
  <2>3. \A k \in 1..Len(tail) : tail[k] # "event"
    BY DEF TypeOK
  <2> QED BY <1>2, <2>1, <2>2, <2>3
<1>5. pos + 1 - headers \in 1..Len(lines)
  BY <1>1, <1>3, <1>4
<1>6. lines[pos + 1 - headers] \in Line
  BY <1>1, <1>5
<1>7. NameAt(pos + 1 - headers) \in Names
  BY <1>6 DEF NameAt, Line, TypeOK
<1> QED BY <1>1, <1>3, <1>5, <1>6, <1>7

(* A not-reached result is well typed. *)
LEMMA NotReachedTyped ==
  ASSUME TypeOK, NEW name \in Names
  PROVE  NotReached(name) \in ResultRecord
<1>1. \A k \in 1..Len(results) : results[k].case \in Names
  <2>1. \A k \in 1..Len(results) : results[k] \in ResultRecord
    BY DEF TypeOK
  <2> QED BY <2>1 DEF ResultRecord
<1>2. Cause \in SUBSET Names
  BY <1>1 DEF Cause
<1> QED BY <1>2 DEF NotReached, ResultRecord

-----------------------------------------------------------------------------
(* TypeOK is an invariant. *)

LEMMA TypeInit == Init => TypeOK
<1> SUFFICES ASSUME Init PROVE TypeOK
  OBVIOUS
<1>1. lines \in Seq([case : 1..N, status : Words]) /\ results \in Seq(ResultRecord)
  BY DEF Init
<1>2. headers \in Nat /\ pos \in Nat /\ runErrors \in Nat /\ opened \in Nat
  BY DEF Init
<1>3. state \in {"silent", "open", "closed", "cut"}
  BY DEF Init
<1>4. mode \in {"waiting", "reading", "opening", "document", "refused", "green", "red"}
  BY DEF Init
<1> QED BY <1>1, <1>2, <1>3, <1>4 DEF Init, TypeOK

(* Every step keeps the types. *)
LEMMA TypeStep ==
  ASSUME TypeOK, [Next]_vars
  PROVE  TypeOK'
<1> USE DEF TypeOK
<1>0. results \in Seq(ResultRecord)
  OBVIOUS
<1>1. CASE Write
  <2> QED BY <1>1, WriteStep DEF Write, doc, TailLines, Line
<1>2. CASE Start
  BY <1>2 DEF Start, file, doc
<1>3. CASE ReadEvent
  <2> DEFINE k == pos + 1 - headers
             name == NameAt(k)
             r == [case |-> name, status |-> lines[k].status, cause |-> {}]
  <2>1. lines[k] \in Line /\ name \in Names
    BY <1>3, EventRead DEF ReadEvent
  <2>2. lines[k].status \in Known => r \in ResultRecord
    BY <2>1 DEF ResultRecord, Line
  <2>3. \/ lines[k].status \in Known /\ results' = Append(results, r) /\ unknown' = unknown
        \/ lines[k].status \notin Known /\ unknown' = unknown \union {name} /\ results' = results
    BY <1>3 DEF ReadEvent, NameAt
  <2>4. results' \in Seq(ResultRecord)
    <3> HIDE DEF r, k, name, TypeOK
    <3>1. CASE results' = results
      BY <1>0, <3>1
    <3>2. CASE r \in ResultRecord /\ results' = Append(results, r)
      BY <1>0, <3>2
    <3> QED BY <2>2, <2>3, <3>1, <3>2
  <2> QED BY <1>3, <2>1, <2>3, <2>4 DEF ReadEvent, Reads, file
<1>4. CASE ReadHeader
  BY <1>4 DEF ReadHeader, Reads, file
<1>5. CASE ReadRunError
  BY <1>5 DEF ReadRunError, Reads, file
<1>6. CASE ReadEnd
  BY <1>6 DEF ReadEnd, Reads, file
<1>7. CASE GiveUp
  BY <1>7 DEF GiveUp, file, doc
<1>8. CASE ReadAll
  BY <1>8 DEF ReadAll, file, doc
<1>9. CASE OpenCase
  <2>1. ExactAt(opened + 1) \in Names
    BY <1>9, ExactNamed DEF OpenCase
  <2>2. NotReached(ExactAt(opened + 1)) \in ResultRecord
    BY <2>1, NotReachedTyped
  <2>3. results' \in {results, Append(results, NotReached(ExactAt(opened + 1)))}
    BY <1>9 DEF OpenCase
  <2>4. results' \in Seq(ResultRecord)
    <3> HIDE DEF TypeOK
    <3>1. CASE results' = Append(results, NotReached(ExactAt(opened + 1)))
      BY <1>0, <2>2, <3>1
    <3> QED BY <1>0, <2>3, <3>1
  <2> QED BY <1>9, <2>4 DEF OpenCase, file
<1>10. CASE Opened
  BY <1>10 DEF Opened, file, doc
<1>11. CASE Judge
  BY <1>11 DEF Judge, file, doc
<1>12. CASE UNCHANGED vars
  BY <1>12 DEF vars
<1> QED BY <1>1, <1>2, <1>3, <1>4, <1>5, <1>6, <1>7, <1>8, <1>9, <1>10, <1>11, <1>12
        DEF Next, Exited

(* The fold's variables have their types in every state, whatever the stream. *)
THEOREM TypeCorrect == Spec => []TypeOK
<1> QED BY TypeInit, TypeStep, PTL DEF Spec

-----------------------------------------------------------------------------
(* FoldInv is inductive. *)

LEMMA InvInit == Init => FoldInv
<1> SUFFICES ASSUME Init PROVE FoldInv
  OBVIOUS
<1>1. Written
  BY FoldAssumption DEF Init, Written
<1>2. Started
  BY DEF Init, Started
<1>3. ReadIn /\ InOrder /\ Ended /\ Told /\ Judged /\ InventedAreOpen
  BY DEF Init, ReadIn, InOrder, Ended, Told, Judged, InventedAreOpen
<1>4. Opening
  BY ExactNamed DEF Init, Opening
<1> QED BY <1>1, <1>2, <1>3, <1>4 DEF FoldInv

(* The producer's step disturbs only the file, which nobody reads yet. *)
LEMMA WriteInv ==
  ASSUME TypeOK, FoldInv, Write
  PROVE  FoldInv'
<1>1. /\ headers \in Nat /\ lines \in Seq(Line) /\ Len(lines) \in Nat
      /\ mode = "waiting" /\ mode' = "waiting"
  BY DEF TypeOK, Line, Write
<1>2. /\ pos' = 0 /\ results' = <<>> /\ unknown' = {} /\ runErrors' = 0 /\ terminated' = FALSE
      /\ opened' = 0 /\ lock' = lock
  BY <1>1 DEF Write, FoldInv, Started, doc
<1>3. Written'
  <2>1. CASE lines' = lines
    BY <1>1, <2>1, StreamStep DEF Write, Tails, FoldInv, Written
  <2>2. CASE /\ state = "open" /\ state' = "open" /\ Len(lines) < N
             /\ \E s \in Words :
                  lines' = Append(lines, [case |-> Len(lines) + 1, status |-> s])
    <3>1. PICK s \in Words : lines' = Append(lines, [case |-> Len(lines) + 1, status |-> s])
      BY <2>2
    <3>2. /\ Len(lines') = Len(lines) + 1
          /\ \A k \in 1..Len(lines) : lines'[k] = lines[k]
          /\ lines'[Len(lines) + 1].case = Len(lines) + 1
      BY <1>1, <3>1
    <3>3. \A k \in 1..Len(lines') : lines'[k].case = k
      BY <1>1, <3>2 DEF FoldInv, Written
    <3>4. tail' = <<>> /\ headers' = headers
      BY <2>2 DEF Write, Tails
    <3> QED BY <1>1, <2>2, <3>2, <3>3, <3>4, FoldAssumption DEF FoldInv, Written
  <2> QED BY <2>1, <2>2, StreamStep DEF Write
<1>4. headers' \in Nat /\ Len(lines') \in Nat
  BY WriteStep, <1>1
<1>5. Started'
  BY <1>1, <1>2 DEF Started
<1>6. ReadIn' /\ InOrder' /\ Told' /\ Judged' /\ InventedAreOpen'
  <2>1. \A k \in 1..Len(lines') : ~WasRead(k)'
    <3> SUFFICES ASSUME NEW k \in 1..Len(lines') PROVE ~(k + headers' <= pos')
      BY DEF WasRead
    <3>1. \A h \in Nat : ~(k + h <= 0)
      <4>1. k \in Nat /\ k >= 1
        BY <1>4
      <4> QED BY <4>1
    <3> QED BY <1>2, <1>4, <3>1
  <2>2. 1..Len(results') = {}
    BY <1>2
  <2>3. ReadIn'
    BY <2>1 DEF ReadIn
  <2>4. InOrder'
    BY <2>1, <2>2 DEF InOrder
  <2>5. Told' /\ InventedAreOpen'
    BY <2>2 DEF Told, InventedAreOpen
  <2>6. Judged'
    BY <1>1 DEF Judged
  <2> QED BY <2>3, <2>4, <2>5, <2>6
<1>7. Ended'
  <2>1. ~(headers' + Len(lines') < pos') /\ ~terminated'
    BY <1>2, <1>4
  <2> QED BY <2>1 DEF Ended
<1>8. Opening'
  BY <1>1, <1>2, ExactNamed DEF Opening, ExactLen, TypeOK
<1> QED BY <1>3, <1>5, <1>6, <1>7, <1>8 DEF FoldInv

(* Once the fold starts the file stays as it is. *)
LEMMA FileStays ==
  ASSUME UNCHANGED file
  PROVE  /\ FileLen' = FileLen /\ Exact' = Exact /\ ExactLen' = ExactLen
         /\ \A k : ExactAt(k)' = ExactAt(k) /\ NameAt(k)' = NameAt(k) /\ LineAt(k)' = LineAt(k)
         /\ Written => Written'
BY DEF file, FileLen, Exact, ExactLen, ExactAt, NameAt, LineAt, Written

(* The fold starts on a finished file whose first line is an envelope. *)
LEMMA StartInv ==
  ASSUME TypeOK, FoldInv, Start
  PROVE  FoldInv'
<1>1. UNCHANGED file /\ Written' /\ FileLen \in Nat /\ headers \in Nat /\ Len(lines) \in Nat
  BY FileStays DEF Start, FoldInv, TypeOK, FileLen
<1>2. /\ pos' = 1 /\ results' = <<>> /\ unknown' = {} /\ runErrors' = 0 /\ terminated' = FALSE
      /\ opened' = 0 /\ mode' \in {"reading", "refused"}
  BY DEF Start, FoldInv, Started, doc
<1>3. mode' = "reading" => FileLen # 0 /\ headers # 0 /\ (lock # NoLock => Validates(lock))
  <2> SUFFICES ASSUME mode' = "reading" PROVE FileLen # 0 /\ headers # 0 /\ (lock # NoLock => Validates(lock))
    OBVIOUS
  <2>1. /\ FileLen # 0 /\ LineAt(1) = "header" /\ (lock # NoLock => Validates(lock))
        /\ state \in {"closed", "cut"}
    BY DEF Start
  <2>2. headers # 0
    <3> SUFFICES ASSUME headers = 0 PROVE FALSE
      OBVIOUS
    <3>1. Len(lines) = 0
      BY <1>1 DEF FoldInv, Written, TypeOK
    <3>2. LineAt(1) = tail[1] /\ Len(tail) # 0
      BY <2>1, <3>1 DEF LineAt, FileLen
    <3> QED BY <2>1, <3>2 DEF FoldInv, Written
  <2> QED BY <2>1, <2>2
<1>4. Started'
  BY <1>1, <1>2, <1>3, FileStays DEF Started, Start, file
<1>5. ReadIn' /\ InOrder' /\ Told' /\ Judged' /\ InventedAreOpen'
  BY <1>1, <1>2, <1>3 DEF ReadIn, InOrder, WasRead, Told, Judged, InventedAreOpen, file
<1>6. Ended'
  BY <1>1, <1>2, <1>3 DEF Ended, file
<1>7. Opening'
  BY <1>1, <1>2, FileStays, ExactNamed DEF Opening, TypeOK
<1> QED BY <1>1, <1>4, <1>5, <1>6, <1>7 DEF FoldInv

-----------------------------------------------------------------------------
(* The lines of a finished file, read one by one. *)

LEMMA ReadFacts ==
  ASSUME TypeOK, FoldInv, NEW kind, Reads(kind)
  PROVE  /\ mode = "reading" /\ ~terminated /\ pos' = pos + 1 /\ pos + 1 <= FileLen
         /\ LineAt(pos + 1) = kind /\ state \in {"closed", "cut"}
         /\ headers \in Nat \ {0} /\ pos \in Nat \ {0} /\ FileLen \in Nat
         /\ lines \in Seq(Line) /\ Len(lines) \in Nat
BY DEF TypeOK, FoldInv, Started, Reads, Line, FileLen

(* Below the events the tail is read, and its line is the tail's. *)
LEMMA TailRead ==
  ASSUME TypeOK, FoldInv, NEW kind, Reads(kind), kind \notin {"header", "event"}
  PROVE  /\ pos >= headers + Len(lines)
         /\ pos + 1 - headers - Len(lines) \in 1..Len(tail)
         /\ tail[pos + 1 - headers - Len(lines)] = kind
<1>1. /\ LineAt(pos + 1) = kind /\ pos + 1 <= FileLen
      /\ headers \in Nat /\ pos \in Nat /\ Len(lines) \in Nat
  BY ReadFacts
<1>2. ~(pos + 1 <= headers)
  BY <1>1 DEF LineAt
<1>3. pos + 1 > headers + Len(lines)
  BY <1>1, <1>2 DEF LineAt
<1>4. LineAt(pos + 1) = tail[pos + 1 - headers - Len(lines)]
  BY <1>1, <1>2, <1>3 DEF LineAt
<1>5. Len(tail) \in Nat
  BY DEF TypeOK
<1> QED BY <1>1, <1>3, <1>4, <1>5 DEF FileLen

(* Reading an event puts it into the document, in order. *)
LEMMA ReadEventInv ==
  ASSUME TypeOK, FoldInv, ReadEvent
  PROVE  FoldInv'
<1> DEFINE k == pos + 1 - headers
           r == [case |-> NameAt(k), status |-> lines[k].status, cause |-> {}]
<1>1. Reads("event") /\ UNCHANGED file /\ mode' = mode /\ runErrors' = runErrors
      /\ terminated' = terminated /\ opened' = opened
  BY DEF ReadEvent
<1>2. /\ mode = "reading" /\ ~terminated /\ pos' = pos + 1 /\ pos + 1 <= FileLen
      /\ state \in {"closed", "cut"} /\ headers \in Nat \ {0} /\ pos \in Nat \ {0}
      /\ FileLen \in Nat /\ Len(lines) \in Nat /\ results \in Seq(ResultRecord)
      /\ lines \in Seq(Line)
  BY <1>1, ReadFacts DEF TypeOK
<1>3. k \in 1..Len(lines) /\ headers <= pos
  BY <1>1, EventRead
<1>4. \/ /\ lines[k].status \in Known /\ results' = Append(results, r) /\ unknown' = unknown
      \/ /\ lines[k].status \notin Known /\ results' = results
         /\ unknown' = unknown \union {NameAt(k)}
  BY DEF ReadEvent, NameAt
<1>5. r.case = NameAt(k) /\ r.status = lines[k].status /\ r.status # "not-reached"
  <2>1. lines[k] \in Line
    BY <1>2, <1>3
  <2> QED BY <2>1 DEF Line, Words
<1>6. \A l \in 1..Len(lines) : WasRead(l)' <=> WasRead(l) \/ l = k
  BY <1>1, <1>2 DEF WasRead, file
<1>7. \A l : NameAt(l)' = NameAt(l)
  BY <1>1, FileStays
<1>8. lines' = lines /\ state' = state /\ headers' = headers
  BY <1>1 DEF file
<1> HIDE DEF k, r
<1>9. Written' /\ FileLen' = FileLen
  BY <1>1, FileStays DEF FoldInv
<1>10. Started'
  BY <1>1, <1>2, <1>9, FileStays DEF FoldInv, Started, file
<1>11. \/ /\ Len(results') = Len(results) + 1 /\ lines[k].status \in Known /\ unknown' = unknown
          /\ \A j \in 1..Len(results) : results'[j] = results[j]
          /\ results'[Len(results) + 1] = r
       \/ /\ results' = results /\ lines[k].status \notin Known
          /\ unknown' = unknown \union {NameAt(k)}
  BY <1>2, <1>4
<1>12. ReadIn'
  <2> SUFFICES ASSUME NEW l \in 1..Len(lines), WasRead(l)'
               PROVE IF lines[l].status \in Known
                     THEN \E j \in 1..Len(results') :
                            results'[j].case = NameAt(l) /\ results'[j].status = lines[l].status
                     ELSE NameAt(l) \in unknown'
    BY <1>7, <1>8 DEF ReadIn
  <2>1. CASE l = k
    BY <1>2, <1>5, <1>11, <2>1
  <2>2. CASE WasRead(l)
    <3>1. IF lines[l].status \in Known
          THEN \E j \in 1..Len(results) :
                 results[j].case = NameAt(l) /\ results[j].status = lines[l].status
          ELSE NameAt(l) \in unknown
      BY <1>2, <2>2 DEF FoldInv, ReadIn
    <3> QED BY <1>2, <1>11, <3>1
  <2> QED BY <1>6, <2>1, <2>2
<1>13. InOrder'
  <2> SUFFICES ASSUME unknown' = {}
               PROVE  /\ \A l \in 1..Len(lines) : WasRead(l)' => l <= Len(results')
                      /\ \A l \in 1..Len(results') :
                           /\ l <= Len(lines) /\ WasRead(l)'
                           /\ results'[l].case = NameAt(l)
                           /\ results'[l].status = lines[l].status
    BY <1>7, <1>8 DEF InOrder
  <2>1. /\ Len(results') = Len(results) + 1 /\ unknown = {}
        /\ \A j \in 1..Len(results) : results'[j] = results[j]
        /\ results'[Len(results) + 1] = r
    BY <1>11
  <2>2. /\ \A l \in 1..Len(lines) : WasRead(l) => l <= Len(results)
        /\ \A l \in 1..Len(results) :
             /\ l <= Len(lines) /\ WasRead(l)
             /\ results[l].case = NameAt(l) /\ results[l].status = lines[l].status
    BY <1>2, <2>1 DEF FoldInv, InOrder
  <2>3. Len(results) + 1 = k
    <3>1. \A l \in 1..Len(lines) : WasRead(l) <=> l < k
      BY <1>2 DEF WasRead, k
    <3>2. k \in Nat /\ Len(results) \in Nat
      BY <1>2, <1>3
    <3> QED BY <1>2, <1>3, <2>2, <3>1, <3>2
  <2>4. Len(results) \in Nat
    BY <1>2
  <2> QED BY <1>2, <1>3, <1>5, <1>6, <2>1, <2>2, <2>3, <2>4
<1>14. Ended'
  <2>1. ~(headers + Len(lines) < pos + 1)
    BY <1>2, <1>3 DEF k
  <2> QED BY <1>1, <1>2, <1>8, <2>1 DEF Ended
<1>15. Told' /\ InventedAreOpen'
  <2>1. \A j \in 1..Len(results') : results'[j].status # "not-reached"
    BY <1>2, <1>5, <1>11 DEF FoldInv, Told
  <2> QED BY <2>1 DEF Told, InventedAreOpen
<1>16. Opening' /\ Judged'
  BY <1>1, <1>2, FileStays DEF FoldInv, Opening, Judged
<1> QED BY <1>9, <1>10, <1>12, <1>13, <1>14, <1>15, <1>16 DEF FoldInv

(* Reading any other line reads no event. *)
LEMMA OtherRead ==
  ASSUME TypeOK, FoldInv, NEW kind, Reads(kind), kind # "event", UNCHANGED file
  PROVE  /\ pos + 1 <= headers \/ pos + 1 > headers + Len(lines)
         /\ \A l \in 1..Len(lines) : WasRead(l)' <=> WasRead(l)
<1>1. /\ pos' = pos + 1 /\ LineAt(pos + 1) = kind /\ headers \in Nat /\ pos \in Nat
      /\ Len(lines) \in Nat
  BY ReadFacts
<1>2. pos + 1 <= headers \/ pos + 1 > headers + Len(lines)
  BY <1>1 DEF LineAt
<1>3. \A l \in 1..Len(lines) : WasRead(l)' <=> WasRead(l)
  BY <1>1, <1>2 DEF WasRead, file
<1> QED BY <1>2, <1>3

(* Such a line leaves the results alone, and everything said about them. *)
LEMMA OtherReadInv ==
  ASSUME TypeOK, FoldInv, NEW kind, Reads(kind), kind # "event", UNCHANGED file,
         mode' = mode, results' = results, opened' = opened, unknown \subseteq unknown'
  PROVE  /\ Written' /\ Started' /\ ReadIn' /\ InOrder' /\ Told' /\ Judged'
         /\ InventedAreOpen'
         /\ terminated' = terminated => Opening'
<1>1. /\ mode = "reading" /\ ~terminated /\ pos' = pos + 1 /\ pos + 1 <= FileLen
      /\ state \in {"closed", "cut"} /\ headers \in Nat \ {0} /\ pos \in Nat \ {0}
      /\ FileLen \in Nat /\ Len(lines) \in Nat
  BY ReadFacts
<1>2. \A l \in 1..Len(lines) : WasRead(l)' <=> WasRead(l)
  BY OtherRead
<1>3. /\ lines' = lines /\ state' = state /\ headers' = headers /\ FileLen' = FileLen
      /\ Exact' = Exact /\ ExactLen' = ExactLen /\ (\A l : NameAt(l)' = NameAt(l)) /\ Written'
  BY FileStays DEF file, FoldInv
<1>4. Started'
  BY <1>1, <1>3 DEF FoldInv, Started, file
<1>5. ReadIn'
  <2>1. ReadIn
    BY DEF FoldInv
  <2> QED BY <1>1, <1>2, <1>3, <2>1 DEF ReadIn
<1>6. InOrder'
  <2>1. unknown' = {} => unknown = {}
    OBVIOUS
  <2>2. InOrder
    BY DEF FoldInv
  <2> SUFFICES ASSUME unknown' = {}
               PROVE  /\ \A l \in 1..Len(lines) : WasRead(l)' => l <= Len(results)
                      /\ \A l \in 1..Len(results) :
                           /\ l <= Len(lines) /\ WasRead(l)'
                           /\ results[l].case = NameAt(l)
                           /\ results[l].status = lines[l].status
    BY <1>3 DEF InOrder
  <2>3. /\ \A l \in 1..Len(lines) : WasRead(l) => l <= Len(results)
        /\ \A l \in 1..Len(results) :
             /\ l <= Len(lines) /\ WasRead(l)
             /\ results[l].case = NameAt(l) /\ results[l].status = lines[l].status
    BY <1>1, <2>1, <2>2 DEF InOrder
  <2>4. Len(results) \in Nat
    BY DEF TypeOK
  <2>5. \A l \in 1..Len(results) : l \in 1..Len(lines)
    BY <1>1, <2>3, <2>4
  <2> QED BY <1>2, <2>3, <2>5
<1>7. Told' /\ InventedAreOpen'
  <2>1. \A j \in 1..Len(results) : results[j].status # "not-reached"
    BY <1>1 DEF FoldInv, Told
  <2> QED BY <2>1 DEF Told, InventedAreOpen
<1>8. Judged' /\ (terminated' = terminated => Opening')
  BY <1>1, <1>3 DEF FoldInv, Judged, Opening
<1> QED BY <1>3, <1>4, <1>5, <1>6, <1>7, <1>8

(* Envelopes, run errors and the terminator are read off the right place. *)
LEMMA ReadOthersInv ==
  ASSUME TypeOK, FoldInv, ReadHeader \/ ReadRunError \/ ReadEnd
  PROVE  FoldInv'
<1>1. CASE ReadHeader
  <2>1. /\ Reads("header") /\ UNCHANGED file /\ mode' = mode /\ results' = results
        /\ opened' = opened /\ unknown \subseteq unknown' /\ terminated' = terminated
        /\ runErrors' = runErrors
    BY <1>1 DEF ReadHeader
  <2>2. Ended'
    <3>1. /\ mode = "reading" /\ ~terminated /\ pos' = pos + 1 /\ LineAt(pos + 1) = "header"
          /\ pos + 1 <= FileLen /\ headers \in Nat /\ pos \in Nat /\ Len(lines) \in Nat
      BY <2>1, ReadFacts
    <3>2. CASE pos + 1 <= headers
      BY <2>1, <3>1, <3>2 DEF Ended, file
    <3>3. CASE pos + 1 > headers + Len(lines)
      <4>1. ~(pos + 1 <= headers) /\ Len(tail) \in Nat
        BY <3>1, <3>3 DEF TypeOK
      <4>2. /\ tail[pos + 1 - headers - Len(lines)] = "header"
            /\ pos + 1 - headers - Len(lines) \in 1..Len(tail)
        BY <3>1, <3>3, <4>1 DEF LineAt, FileLen
      <4>3. state # "cut"
        <5>1. tail \in {<<>>, <<"torn">>, <<"run-error", "end">>} =>
                \A k \in 1..Len(tail) : tail[k] # "header"
          OBVIOUS
        <5> QED BY <4>2, <5>1 DEF FoldInv, Written
      <4> QED BY <2>1, <3>1, <4>3 DEF Ended, file
    <3> QED BY <2>1, <3>2, <3>3, OtherRead
  <2> QED BY <2>1, <2>2, OtherReadInv DEF FoldInv
<1>2. CASE ReadRunError
  <2>1. /\ Reads("run-error") /\ UNCHANGED file /\ mode' = mode /\ results' = results
        /\ opened' = opened /\ unknown' = unknown /\ terminated' = terminated
        /\ runErrors' = runErrors + 1
    BY <1>2 DEF ReadRunError
  <2>2. Ended'
    <3>1. mode = "reading" /\ ~terminated /\ runErrors + 1 # 0
      BY <2>1, ReadFacts DEF TypeOK
    <3> QED BY <2>1, <3>1 DEF Ended
  <2> QED BY <2>1, <2>2, OtherReadInv DEF FoldInv
<1>3. CASE ReadEnd
  <2>1. /\ Reads("end") /\ UNCHANGED file /\ mode' = mode /\ results' = results
        /\ opened' = opened /\ unknown' = unknown /\ terminated' = TRUE
        /\ runErrors' = runErrors
    BY <1>3 DEF ReadEnd
  <2>2. /\ mode = "reading" /\ pos' = pos + 1 /\ pos >= headers + Len(lines)
        /\ pos + 1 - headers - Len(lines) \in 1..Len(tail)
        /\ tail[pos + 1 - headers - Len(lines)] = "end"
        /\ headers \in Nat /\ pos \in Nat /\ Len(lines) \in Nat /\ ~terminated
    BY <2>1, ReadFacts, TailRead
  <2>3. state = "cut" => runErrors # 0
    <3> SUFFICES ASSUME state = "cut" PROVE headers + Len(lines) < pos
      BY <2>2 DEF FoldInv, Ended
    <3>1. tail \in {<<>>, <<"torn">>, <<"run-error", "end">>}
      BY DEF FoldInv, Written
    <3>2. pos + 1 - headers - Len(lines) # 1
      BY <2>2, <3>1
    <3> QED BY <2>2, <3>2
  <2>4. Ended'
    BY <2>1, <2>2, <2>3 DEF Ended, file
  <2>5. Opening'
    <3>1. opened = 0 /\ opened <= ExactLen
      BY <2>2 DEF FoldInv, Opening
    <3>2. ExactLen' = ExactLen
      BY <2>1, FileStays
    <3> QED BY <2>1, <2>2, <3>1, <3>2 DEF Opening
  <2> QED BY <2>1, <2>4, <2>5, OtherReadInv DEF FoldInv
<1> QED BY <1>1, <1>2, <1>3

(* An open case is added once, and only if nothing names it. *)
LEMMA OpenCaseInv ==
  ASSUME TypeOK, FoldInv, OpenCase
  PROVE  FoldInv'
<1> DEFINE name == ExactAt(opened + 1)
           r == NotReached(name)
<1>1. /\ mode = "opening" /\ mode' = "opening" /\ opened < ExactLen /\ opened' = opened + 1
      /\ UNCHANGED file /\ pos' = pos /\ unknown' = unknown /\ runErrors' = runErrors
      /\ terminated' = terminated
  BY DEF OpenCase
<1>2. /\ results \in Seq(ResultRecord) /\ Len(results) \in Nat /\ opened \in Nat
      /\ ExactLen \in Nat /\ name \in Exact /\ headers \in Nat /\ Len(lines) \in Nat
      /\ Len(tail) \in Nat
  BY <1>1, ExactNamed DEF TypeOK
<1>3. ~terminated /\ pos = FileLen
  BY <1>1 DEF FoldInv, Ended, Opening
<1>4. \/ name \in Reported /\ results' = results
      \/ name \notin Reported /\ results' = Append(results, r)
  BY DEF OpenCase
<1>5. r.case = name /\ r.status = "not-reached"
  BY DEF NotReached
<1> HIDE DEF r
<1>6. /\ lines' = lines /\ state' = state /\ headers' = headers /\ FileLen' = FileLen
      /\ Exact' = Exact /\ ExactLen' = ExactLen /\ Written'
      /\ \A l : NameAt(l)' = NameAt(l) /\ ExactAt(l)' = ExactAt(l)
  BY <1>1, FileStays DEF file, FoldInv
<1> HIDE DEF name
<1>7. /\ \A j \in 1..Len(results) : j \in 1..Len(results') /\ results'[j] = results[j]
      /\ \/ name \in Reported /\ Len(results') = Len(results)
         \/ /\ name \notin Reported
            /\ Len(results') = Len(results) + 1 /\ results'[Len(results) + 1] = r
  BY <1>2, <1>4
<1>8. Started'
  BY <1>1, <1>6 DEF FoldInv, Started, file
<1>9. ReadIn'
  <2>1. \A l \in 1..Len(lines) : WasRead(l)' <=> WasRead(l)
    BY <1>1, <1>6 DEF WasRead
  <2>2. ReadIn
    BY DEF FoldInv
  <2> QED BY <1>1, <1>6, <1>7, <2>1, <2>2 DEF ReadIn
<1>10. InOrder' /\ Told' /\ Judged' /\ Ended'
  BY <1>1, <1>3, <1>6 DEF InOrder, Told, Judged, Ended, FoldInv
<1>11. \A k \in 1..Len(lines) : NameAt(k) \in Reported
  <2> SUFFICES ASSUME NEW k \in 1..Len(lines) PROVE NameAt(k) \in Reported
    OBVIOUS
  <2>1. WasRead(k)
    BY <1>2, <1>3 DEF WasRead, FileLen
  <2>2. \/ \E j \in 1..Len(results) : results[j].case = NameAt(k)
        \/ NameAt(k) \in unknown
    BY <1>1, <2>1 DEF FoldInv, ReadIn
  <2> QED BY <2>2 DEF Reported
<1>12. InventedAreOpen'
  <2> SUFFICES ASSUME NEW j \in 1..Len(results'), results'[j].status = "not-reached"
               PROVE  /\ results'[j].case \in Exact
                      /\ \A k \in 1..Len(lines) : NameAt(k) # results'[j].case
                      /\ \A k \in 1..(j - 1) : results'[k].case # results'[j].case
    BY <1>1, <1>3, <1>6 DEF InventedAreOpen
  <2>1. CASE j \in 1..Len(results)
    <3>1. results'[j] = results[j] /\ \A k \in 1..(j - 1) : results'[k] = results[k]
      BY <1>2, <1>7, <2>1
    <3> QED BY <2>1, <3>1 DEF FoldInv, InventedAreOpen
  <2>2. CASE j \notin 1..Len(results)
    <3>1. j = Len(results) + 1 /\ results'[j] = r /\ name \notin Reported
      BY <1>2, <1>7, <2>2
    <3>2. \A k \in 1..Len(results) : results[k].case # name
      BY <3>1 DEF Reported
    <3> QED BY <1>2, <1>5, <1>7, <1>11, <3>1, <3>2
  <2> QED BY <2>1, <2>2
<1>13. Opening'
  <2>1. Reported \subseteq Reported'
    BY <1>1, <1>7 DEF Reported
  <2>2. name \in Reported'
    <3>1. CASE name \in Reported
      BY <2>1, <3>1
    <3>2. CASE name \notin Reported
      <4>1. Len(results) + 1 \in 1..Len(results') /\ results'[Len(results) + 1].case = name
        BY <1>2, <1>5, <1>7, <3>2
      <4> QED BY <4>1 DEF Reported
    <3> QED BY <3>1, <3>2
  <2>3. \A i \in 1..opened' : ExactAt(i)' \in Reported'
    <3>1. \A i \in 1..opened : ExactAt(i) \in Reported
      BY <1>1 DEF FoldInv, Opening
    <3>2. ExactAt(opened + 1) = name
      BY DEF name
    <3> QED BY <1>1, <1>2, <1>6, <2>1, <2>2, <3>1, <3>2
  <2> QED BY <1>1, <1>2, <1>3, <1>6, <2>3 DEF Opening
<1> QED BY <1>6, <1>8, <1>9, <1>10, <1>12, <1>13 DEF FoldInv

(* The remaining steps change the mode only. *)
LEMMA ModeInv ==
  ASSUME TypeOK, FoldInv, GiveUp \/ ReadAll \/ Opened \/ Judge \/ UNCHANGED vars
  PROVE  FoldInv'
<1>1. /\ UNCHANGED <<file, pos, results, unknown, runErrors, terminated, opened>>
      /\ \/ mode = "reading" /\ mode' = "refused"
         \/ mode = "reading" /\ pos = FileLen /\ terminated /\ mode' = "document"
         \/ mode = "reading" /\ pos = FileLen /\ ~terminated /\ mode' = "opening"
         \/ mode = "opening" /\ opened = ExactLen /\ mode' = "document"
         \/ mode = "document" /\ Passes /\ mode' = "green"
         \/ mode = "document" /\ mode' = "red"
         \/ mode' = mode
  BY DEF GiveUp, ReadAll, Opened, Judge, vars, file, doc
<1>2. /\ lines' = lines /\ state' = state /\ headers' = headers /\ FileLen' = FileLen
      /\ Exact' = Exact /\ ExactLen' = ExactLen /\ Written' /\ Reported' = Reported
      /\ \A l : NameAt(l)' = NameAt(l) /\ ExactAt(l)' = ExactAt(l) /\ WasRead(l)' = WasRead(l)
  BY <1>1, FileStays DEF file, FoldInv, Reported, WasRead
<1>3. Started'
  BY <1>1, <1>2 DEF FoldInv, Started, file
<1>4. ReadIn'
  BY <1>1, <1>2 DEF FoldInv, ReadIn, Started
<1>5. InOrder'
  BY <1>1, <1>2 DEF FoldInv, InOrder, Ended
<1>6. Ended' /\ Told' /\ InventedAreOpen'
  BY <1>1, <1>2 DEF FoldInv, Ended, Told, InventedAreOpen
<1>7. Judged'
  <2>1. Passes' = Passes
    BY <1>1 DEF Passes, Covered, file
  <2> QED BY <1>1, <2>1 DEF FoldInv, Judged
<1>8. Opening'
  <2>1. mode = "reading" /\ mode' = "document" => terminated
    BY <1>1
  <2>2. mode = "reading" => opened = 0
    BY DEF FoldInv, Opening
  <2> QED BY <1>1, <1>2, <2>1, <2>2, ExactNamed DEF FoldInv, Opening, TypeOK
<1> QED BY <1>2, <1>3, <1>4, <1>5, <1>6, <1>7, <1>8 DEF FoldInv

(* Every step keeps FoldInv. *)
LEMMA InvStep ==
  ASSUME TypeOK, FoldInv, [Next]_vars
  PROVE  FoldInv'
BY WriteInv, StartInv, ReadEventInv, ReadOthersInv, OpenCaseInv, ModeInv DEF Next, Exited

(* TypeOK and FoldInv hold together in every state. *)
LEMMA Invariant == Spec => [](TypeOK /\ FoldInv)
<1>1. Init => TypeOK /\ FoldInv
  BY TypeInit, InvInit
<1>2. TypeOK /\ FoldInv /\ [Next]_vars => TypeOK' /\ FoldInv'
  BY TypeStep, InvStep
<1> QED BY <1>1, <1>2, PTL DEF Spec

-----------------------------------------------------------------------------
(* What the fold's verdict and its document mean. *)

THEOREM InventedAreOpenCorrect == Spec => []InventedAreOpen
<1>1. FoldInv => InventedAreOpen
  BY DEF FoldInv
<1> QED BY <1>1, Invariant, PTL

(* fold_jsonl loses neither an event of the stream nor an exact case of a cut
   run. *)
THEOREM NothingLostCorrect == Spec => []NothingLost
<1>1. TypeOK /\ FoldInv => NothingLost
  <2> SUFFICES ASSUME TypeOK, FoldInv, mode \in {"document", "green", "red"}
               PROVE  /\ \A k \in 1..Len(lines) :
                           IF lines[k].status \in Known
                           THEN \E j \in 1..Len(results) :
                                  /\ results[j].case = NameAt(k)
                                  /\ results[j].status = lines[k].status
                           ELSE NameAt(k) \in unknown
                      /\ ~terminated => Exact \subseteq Reported
    BY DEF NothingLost
  <2>1. \A k \in 1..Len(lines) : WasRead(k)
    BY DEF FoldInv, Opening, WasRead, FileLen, TypeOK
  <2>2. ~terminated => Exact \subseteq Reported
    BY ExactNamed DEF FoldInv, Opening, TypeOK
  <2> QED BY <2>1, <2>2 DEF FoldInv, ReadIn
<1> QED BY <1>1, Invariant, PTL

(* A fold that exits 0 has read a whole run, each of whose cases came out well
   and is in the inventory, for any number of cases and any lockfile. *)
THEOREM GreenMeansCompleteCorrect == Spec => []GreenMeansComplete
<1>1. TypeOK /\ FoldInv => GreenMeansComplete
  <2> SUFFICES ASSUME TypeOK, FoldInv, mode = "green" PROVE GreenMeansComplete
    BY DEF GreenMeansComplete
  <2>1. /\ \A k \in 1..Len(results) : results[k].status \notin Failing
        /\ runErrors = 0 /\ unknown = {} /\ Covered /\ terminated
    BY DEF FoldInv, Judged, Passes
  <2>2. state = "closed" /\ Len(lines) = N /\ (lock # NoLock => Validates(lock))
    BY <2>1 DEF FoldInv, Started, Ended, Written
  <2>3. \A k \in 1..Len(lines) : WasRead(k)
    BY DEF FoldInv, Opening, WasRead, FileLen, TypeOK
  <2>4. /\ \A k \in 1..N : k <= Len(results)
        /\ \A k \in 1..Len(results) :
             k <= N /\ results[k].case = NameAt(k) /\ results[k].status = lines[k].status
    BY <2>1, <2>2, <2>3 DEF FoldInv, InOrder
  <2>5. N \in Nat /\ Len(results) \in Nat
    BY FoldAssumption DEF TypeOK
  <2>6. Len(results) = N
    BY <2>4, <2>5
  <2>7. \A k \in 1..N : results[k].case = census[k] /\ lines[k].status \notin Failing
    BY <2>1, <2>2, <2>4, <2>6 DEF FoldInv, Written, NameAt
  <2>8. \A k \in 1..N : lines[k].status \in {"pass", "skipped", "not-applicable", "deselected"}
    <3> SUFFICES ASSUME NEW k \in 1..N
                 PROVE  lines[k].status \in {"pass", "skipped", "not-applicable", "deselected"}
      OBVIOUS
    <3>1. lines[k] \in Line
      <4>1. lines \in Seq(Line) /\ k \in 1..Len(lines)
        BY <2>2 DEF TypeOK, Line
      <4> QED BY <4>1
    <3>2. lines[k].status # "renamed"
      <4>1. lines[k].status \in Known
        BY <2>1, <2>2, <2>3 DEF FoldInv, ReadIn
      <4> QED BY <4>1 DEF Known
    <3> QED BY <2>7, <3>1, <3>2 DEF Line, Words, Failing
  <2>9. lock # NoLock =>
          /\ Exact \subseteq {census[i] : i \in 1..N}
          /\ \A i \in 1..N : census[i] \in Exact \/ PrefixOf(lock, census[i]) # {}
          /\ \A i, j \in 1..N : census[i] = census[j] => i = j
    <3> SUFFICES ASSUME lock # NoLock
                 PROVE  /\ Exact \subseteq {census[i] : i \in 1..N}
                        /\ \A i \in 1..N : census[i] \in Exact \/ PrefixOf(lock, census[i]) # {}
                        /\ \A i, j \in 1..N : census[i] = census[j] => i = j
      OBVIOUS
    <3> DEFINE names == [k \in 1..Len(results) |-> results[k].case]
    <3>1. Covers(lock, names)
      BY <2>1 DEF Covered
    <3>2. DOMAIN names = 1..N /\ \A k \in 1..N : names[k] = census[k]
      BY <2>6, <2>7
    <3>3. Exact = ExactNames(lock)
      BY DEF Exact
    <3> HIDE DEF names
    <3>4. \A i, j \in 1..N : names[i] = names[j] => i = j
      BY <3>1, <3>2 DEF Covers
    <3>5. \A k \in 1..N : names[k] \in ExactNames(lock) \/ PrefixOf(lock, names[k]) # {}
      BY <3>1, <3>2 DEF Covers, LeafReports
    <3>6. ExactNames(lock) \subseteq {names[k] : k \in 1..N}
      BY <3>1, <3>2 DEF Covers
    <3> QED BY <3>2, <3>3, <3>4, <3>5, <3>6
  <2> QED BY <2>2, <2>8, <2>9 DEF GreenMeansComplete
<1> QED BY <1>1, Invariant, PTL

-----------------------------------------------------------------------------
(* The JUnit report. *)

(* The words a document has for the cases of a stream are finitely many. *)
FewWords == IsFiniteSet(unknown)

LEMMA FewUnknown == Spec => []FewWords
<1>1. Init => FewWords
  BY FS_EmptySet DEF Init, FewWords
<1>2. FewWords /\ [Next]_vars => FewWords'
  <2>1. [Next]_vars => unknown' = unknown \/ \E name : unknown' = unknown \union {name}
    <3>1. CASE ReadEvent
      BY <3>1, Zenon DEF ReadEvent
    <3>2. CASE ReadHeader
      BY <3>2 DEF ReadHeader
    <3>3. CASE Write \/ Start \/ ReadRunError \/ ReadEnd \/ GiveUp
      BY <3>3, Zenon DEF Write, Start, ReadRunError, ReadEnd, GiveUp, doc
    <3>4. CASE ReadAll \/ OpenCase \/ Opened \/ Judge
      BY <3>4, Zenon DEF ReadAll, OpenCase, Opened, Judge, doc
    <3>5. CASE Exited \/ UNCHANGED vars
      BY <3>5 DEF Exited, vars
    <3> QED BY <3>1, <3>2, <3>3, <3>4, <3>5 DEF Next
  <2> SUFFICES ASSUME IsFiniteSet(unknown), [Next]_vars
               PROVE  IsFiniteSet(unknown')
    BY DEF FewWords
  <2>2. CASE unknown' = unknown
    BY <2>2
  <2>3. CASE \E name : unknown' = unknown \union {name}
    <3>1. PICK name : unknown' = unknown \union {name}
      BY <2>3
    <3>2. IsFiniteSet(unknown \union {name})
      BY FS_AddElement
    <3> QED BY <3>1, <3>2
  <2> QED BY <2>1, <2>2, <2>3
<1> QED BY <1>1, <1>2, PTL DEF Spec

(* The elements of two sequences, one after the other. *)
LEMMA ConcatRange ==
  ASSUME NEW S, NEW a \in Seq(S), NEW b \in Seq(S)
  PROVE  /\ a \o b \in Seq(S)
         /\ ToSet(a \o b) = ToSet(a) \union ToSet(b)
<1> DEFINE c == a \o b
<1>1. PICK m \in Nat, n \in Nat : m = Len(a) /\ n = Len(b)
  OBVIOUS
<1>2. /\ c \in Seq(S) /\ DOMAIN c = 1..(m + n) /\ DOMAIN a = 1..m /\ DOMAIN b = 1..n
      /\ \A i \in 1..(m + n) : c[i] = IF i <= m THEN a[i] ELSE b[i - m]
  BY <1>1, ConcatProperties
<1>3. \A i \in 1..m : i \in 1..(m + n) /\ c[i] = a[i]
  BY <1>2
<1>4. \A i \in 1..n : m + i \in 1..(m + n) /\ c[m + i] = b[i]
  BY <1>2
<1>5. \A i \in 1..(m + n) : (i \in 1..m /\ c[i] = a[i]) \/ (i - m \in 1..n /\ c[i] = b[i - m])
  BY <1>2
<1> HIDE DEF c
<1>6. ToSet(a) = {a[i] : i \in 1..m} /\ ToSet(b) = {b[i] : i \in 1..n} /\ ToSet(c) = {c[i] : i \in 1..(m + n)}
  BY <1>2 DEF ToSet
<1>7. \A x \in ToSet(a) : x \in ToSet(c)
  BY <1>3, <1>6
<1>8. \A x \in ToSet(b) : x \in ToSet(c)
  BY <1>4, <1>6
<1>9. ASSUME NEW x \in ToSet(c) PROVE x \in ToSet(a) \union ToSet(b)
  <2>1. PICK i \in 1..(m + n) : x = c[i]
    BY <1>6
  <2>2. CASE i \in 1..m /\ c[i] = a[i]
    BY <1>6, <2>1, <2>2
  <2>3. CASE i - m \in 1..n /\ c[i] = b[i - m]
    <3>1. PICK j \in 1..n : c[i] = b[j]
      BY <2>3
    <3> QED BY <1>6, <2>1, <3>1
  <2> QED BY <1>5, <2>1, <2>2, <2>3
<1>10. ToSet(c) = ToSet(a) \union ToSet(b)
  BY <1>7, <1>8, <1>9
<1> QED BY <1>2, <1>10 DEF c

(* A finite set as a sequence. *)
LEMMA SeqOfSet ==
  ASSUME NEW S, IsFiniteSet(S)
  PROVE  /\ SetToSeq(S) \in Seq(S)
         /\ ToSet(SetToSeq(S)) = S
<1> DEFINE n == Cardinality(S)
           f == SetToSeq(S)
<1>1. n \in Nat /\ ExistsBijection(1..n, S)
  BY FS_CardinalityType
<1>2. \E g \in [1..n -> S] : IsInjective(g)
  BY <1>1 DEF ExistsBijection, Bijection, Injection
<1>3. f \in [1..n -> S] /\ IsInjective(f)
  BY <1>2 DEF SetToSeq
<1> DEFINE T == {f[i] : i \in 1..n}
<1>4. f \in Surjection(1..n, T) /\ f \in Injection(1..n, T)
  BY <1>3 DEF Surjection, Injection, IsInjective
<1>5. IsFiniteSet(1..n) /\ Cardinality(1..n) = n
  BY <1>1, FS_Interval
<1>6. Cardinality(T) = n
  BY <1>4, <1>5, FS_Surjection
<1>7. T \in SUBSET S
  BY <1>3
<1>8. T = S
  <2> HIDE DEF T
  <2> QED BY <1>6, <1>7, FS_Subset
<1>9. f \in Seq(S)
  BY <1>1, <1>3, SeqDef
<1>10. DOMAIN f = 1..n
  BY <1>3
<1> QED BY <1>8, <1>9, <1>10 DEF ToSet

(* The testcases a report can have, and those that a document's results and
   its transport problems become. *)
Outcomes == {"passed", "skipped", "failure", "error"}
Testcases == {Testcase(name, outcome) : name \in Names \union {Unnamed, RunError, Unterminated}, outcome \in Outcomes}
FromResults == {Testcase(results[k].case, Outcome(results[k].status)) : k \in DOMAIN results}
FromProblems ==
  {Testcase(RunError, "error") : k \in 1..runErrors}
    \union {Testcase(name, "error") : name \in unknown}
    \union {c \in {Testcase(Unterminated, "error")} : ~terminated}

(* The report has these testcases and no other. *)
LEMMA ReportHas ==
  ASSUME TypeOK, FewWords
  PROVE  /\ Testsuite \in Seq(Testcases)
         /\ ToSet(Testsuite) = FromResults \union FromProblems
<1> DEFINE A == [k \in DOMAIN results |-> Testcase(results[k].case, Outcome(results[k].status))]
           B == [k \in 1..runErrors |-> Testcase(RunError, "error")]
           U == {Testcase(name, "error") : name \in unknown}
           C == SetToSeq(U)
           D == IF terminated THEN <<>> ELSE <<Testcase(Unterminated, "error")>>
<1>1. A \in Seq(Testcases) /\ ToSet(A) = FromResults
  <2>1. results \in Seq(ResultRecord)
    BY DEF TypeOK
  <2>2. ASSUME NEW k \in DOMAIN results
        PROVE  Testcase(results[k].case, Outcome(results[k].status)) \in Testcases
    <3>1. results[k] \in ResultRecord
      BY <2>1, <2>2
    <3>2. results[k].case \in Names /\ Outcome(results[k].status) \in Outcomes
      BY <3>1 DEF ResultRecord, Outcome, Outcomes
    <3> QED BY <3>2 DEF Testcases
  <2>3. DOMAIN results = 1..Len(results) /\ Len(results) \in Nat
    BY <2>1
  <2>4. A \in Seq(Testcases)
    BY <2>2, <2>3, SeqDef
  <2> QED BY <2>4 DEF FromResults, ToSet
<1>2. B \in Seq(Testcases)
  <2>1. runErrors \in Nat
    BY DEF TypeOK
  <2>2. Testcase(RunError, "error") \in Testcases
    BY DEF Testcases, Outcomes
  <2> QED BY <2>1, <2>2, SeqDef
<1>3. C \in Seq(Testcases) /\ ToSet(C) = U
  <2>1. IsFiniteSet(U)
    <3> DEFINE g == [name \in unknown |-> Testcase(name, "error")]
    <3>1. g \in Surjection(unknown, U)
      BY DEF Surjection
    <3> QED BY <3>1, FS_Surjection DEF FewWords
  <2>2. U \subseteq Testcases
    BY DEF TypeOK, Testcases, Outcomes
  <2> HIDE DEF U
  <2>3. C \in Seq(U) /\ ToSet(C) = U
    BY <2>1, SeqOfSet
  <2>4. Seq(U) \subseteq Seq(Testcases)
    BY <2>2, SeqDef
  <2> QED BY <2>3, <2>4
<1>4. D \in Seq(Testcases) /\ ToSet(D) = {c \in {Testcase(Unterminated, "error")} : ~terminated}
  <2>1. Testcase(Unterminated, "error") \in Testcases
    BY DEF Testcases, Outcomes
  <2>2. terminated \in BOOLEAN
    BY DEF TypeOK
  <2> DEFINE x == Testcase(Unterminated, "error")
  <2> HIDE DEF x
  <2>3. CASE terminated
    <3>1. D = <<>>
      BY <2>3
    <3> QED BY <3>1, <2>3 DEF ToSet
  <2>4. CASE ~terminated
    <3>1. D = <<x>>
      BY <2>4 DEF x
    <3> QED BY <2>1, <2>4, <3>1 DEF x, ToSet
  <2> QED BY <2>2, <2>3, <2>4
<1>5. ToSet(B) = {Testcase(RunError, "error") : k \in 1..runErrors}
  BY DEF ToSet
<1>6. Testsuite = A \o (B \o C \o D)
  BY DEF Testsuite, Synthetic
<1> HIDE DEF A, B, C, D
<1> HIDE DEF U
<1>7. \A a, b \in Seq(Testcases) :
        /\ a \o b \in Seq(Testcases)
        /\ ToSet(a \o b) = ToSet(a) \union ToSet(b)
  BY ConcatRange
<1> DEFINE BC == B \o C
           BCD == BC \o D
           ABCD == A \o BCD
<1>8. /\ BC \in Seq(Testcases)
      /\ ToSet(BC) = ToSet(B) \union ToSet(C)
  BY <1>2, <1>3, <1>7
<1> HIDE DEF BC
<1>9. /\ BCD \in Seq(Testcases)
      /\ ToSet(BCD) = ToSet(BC) \union ToSet(D)
  BY <1>4, <1>7, <1>8
<1> HIDE DEF BCD
<1>10. /\ ABCD \in Seq(Testcases)
       /\ ToSet(ABCD) = ToSet(A) \union ToSet(BCD)
  BY <1>1, <1>7, <1>9
<1>11. Testsuite = ABCD
  BY <1>6 DEF BC, BCD
<1> HIDE DEF ABCD
<1>12. ToSet(Testsuite)
         = FromResults \union ((ToSet(B) \union ToSet(C)) \union ToSet(D))
  BY <1>1, <1>8, <1>9, <1>10, <1>11
<1>13. FromProblems = (ToSet(B) \union ToSet(C)) \union ToSet(D)
  BY <1>3, <1>4, <1>5 DEF FromProblems, U
<1> QED BY <1>10, <1>11, <1>12, <1>13

(* The report counts no failure and no error exactly when it has none. *)
LEMMA CountsNone ==
  ASSUME TypeOK, FewWords
  PROVE  Tally("failure") + Tally("error") = 0
           <=> \A c \in FromResults \union FromProblems : c.outcome \notin {"failure", "error"}
<1> DEFINE Of(o) == {k \in DOMAIN Testsuite : Testsuite[k].outcome = o}
<1>1. IsFiniteSet(DOMAIN Testsuite)
  <2>1. DOMAIN Testsuite = 1..Len(Testsuite) /\ Len(Testsuite) \in Nat
    BY ReportHas
  <2> QED BY <2>1, FS_Interval
<1>2. ASSUME NEW o
      PROVE  Cardinality(Of(o)) \in Nat /\ (Cardinality(Of(o)) = 0 <=> Of(o) = {})
  <2>1. IsFiniteSet(Of(o))
    BY <1>1, FS_Subset
  <2> HIDE DEF Of
  <2> QED BY <2>1, FS_CardinalityType, FS_EmptySet
<1>3. Tally("failure") = Cardinality(Of("failure")) /\ Tally("error") = Cardinality(Of("error"))
  BY DEF Tally
<1>4. Tally("failure") + Tally("error") = 0 <=> Of("failure") = {} /\ Of("error") = {}
  <2> HIDE DEF Of
  <2>1. \A i, j \in Nat : i + j = 0 <=> i = 0 /\ j = 0
    OBVIOUS
  <2> QED BY <1>2, <1>3, <2>1
<1>5. Of("failure") = {} /\ Of("error") = {}
        <=> \A c \in ToSet(Testsuite) : c.outcome \notin {"failure", "error"}
  BY DEF ToSet
<1> QED BY <1>4, <1>5, ReportHas

(* A document is made of every line of a finished file. *)
LEMMA WholeFileRead ==
  ASSUME TypeOK, FoldInv, Folded
  PROVE  /\ \A k \in 1..Len(lines) : WasRead(k)
         /\ pos = FileLen /\ state \in {"closed", "cut"}
<1>1. pos = FileLen /\ state \in {"closed", "cut"}
  BY DEF FoldInv, Opening, Started, Folded
<1>2. headers \in Nat /\ Len(lines) \in Nat /\ Len(tail) \in Nat
  BY DEF TypeOK
<1> QED BY <1>1, <1>2 DEF WasRead, FileLen

(* Every event that is not a good one is red under its case's name. *)
LEMMA RedUnderItsName ==
  ASSUME TypeOK, FoldInv, FewWords, Folded,
         NEW k \in 1..Len(lines), lines[k].status \in Failing \union {"renamed"}
  PROVE  \E t \in DOMAIN Testsuite : /\ Testsuite[t].name = NameAt(k)
                                     /\ Testsuite[t].outcome \in {"failure", "error"}
<1>1. WasRead(k) /\ mode # "refused"
  BY WholeFileRead DEF Folded
<1>2. \E c \in FromResults \union FromProblems :
        c.name = NameAt(k) /\ c.outcome \in {"failure", "error"}
  <2>1. CASE lines[k].status \in Known
    <3>1. PICK j \in 1..Len(results) :
            results[j].case = NameAt(k) /\ results[j].status = lines[k].status
      BY <1>1, <2>1 DEF FoldInv, ReadIn
    <3>2. Outcome(results[j].status) = "failure"
      BY <2>1, <3>1 DEF Outcome, Failing, Known, Words
    <3>3. j \in DOMAIN results
      BY DEF TypeOK
    <3>4. Testcase(results[j].case, Outcome(results[j].status)) \in FromResults
      BY <3>3 DEF FromResults
    <3>5. /\ Testcase(results[j].case, Outcome(results[j].status)).name = results[j].case
          /\ Testcase(results[j].case, Outcome(results[j].status)).outcome = Outcome(results[j].status)
      BY DEF Testcase
    <3> QED BY <3>1, <3>2, <3>4, <3>5
  <2>2. CASE lines[k].status \notin Known
    <3>1. NameAt(k) \in unknown
      BY <1>1, <2>2 DEF FoldInv, ReadIn
    <3>2. Testcase(NameAt(k), "error") \in FromProblems
      BY <3>1 DEF FromProblems
    <3>3. Testcase(NameAt(k), "error").name = NameAt(k) /\ Testcase(NameAt(k), "error").outcome = "error"
      BY DEF Testcase
    <3> QED BY <3>2, <3>3
  <2> QED BY <2>1, <2>2
<1>3. FromResults \union FromProblems = ToSet(Testsuite)
  BY ReportHas
<1> QED BY <1>2, <1>3 DEF ToSet

(* A report of a stream with neither failures nor errors is that of a whole
   run whose cases came out well. *)
LEMMA CleanReport ==
  ASSUME TypeOK, FoldInv, FewWords, Folded,
         \A c \in FromResults \union FromProblems : c.outcome \notin {"failure", "error"}
  PROVE  /\ state = "closed" /\ Len(lines) = N
         /\ \A k \in 1..N : lines[k].status \in {"pass", "skipped", "not-applicable", "deselected"}
<1>1. terminated
  <2> SUFFICES ASSUME ~terminated PROVE FALSE
    BY DEF TypeOK
  <2>1. Testcase(Unterminated, "error") \in FromProblems
    BY DEF FromProblems
  <2>2. Testcase(Unterminated, "error").outcome = "error"
    BY DEF Testcase
  <2> QED BY <2>1, <2>2
<1>2. runErrors = 0
  <2> SUFFICES ASSUME runErrors # 0 PROVE FALSE
    OBVIOUS
  <2>1. 1 \in 1..runErrors
    BY DEF TypeOK
  <2>2. Testcase(RunError, "error") \in FromProblems
    BY <2>1 DEF FromProblems
  <2>3. Testcase(RunError, "error").outcome = "error"
    BY DEF Testcase
  <2> QED BY <2>2, <2>3
<1>3. state = "closed" /\ Len(lines) = N
  BY <1>1, <1>2, WholeFileRead DEF FoldInv, Ended, Written
<1>4. ASSUME NEW k \in 1..N
      PROVE  lines[k].status \in {"pass", "skipped", "not-applicable", "deselected"}
  <2>1. lines[k].status \in Words
    <3>1. lines \in Seq(Line) /\ k \in 1..Len(lines)
      BY <1>3 DEF TypeOK, Line
    <3>2. lines[k] \in Line
      BY <3>1
    <3> QED BY <3>2 DEF Line
  <2>2. lines[k].status \notin Failing \union {"renamed"}
    <3> SUFFICES ASSUME lines[k].status \in Failing \union {"renamed"} PROVE FALSE
      OBVIOUS
    <3>1. \E t \in DOMAIN Testsuite : Testsuite[t].outcome \in {"failure", "error"}
      BY <1>3, RedUnderItsName
    <3>2. ToSet(Testsuite) = FromResults \union FromProblems
      BY ReportHas
    <3> QED BY <3>1, <3>2 DEF ToSet
  <2> QED BY <2>1, <2>2 DEF Words, Failing
<1> QED BY <1>3, <1>4

(* The report of a green fold has neither failures nor errors. *)
LEMMA GreenReport ==
  ASSUME TypeOK, FoldInv, mode = "green"
  PROVE  \A c \in FromResults \union FromProblems : c.outcome \notin {"failure", "error"}
<1>1. /\ \A k \in 1..Len(results) : results[k].status \notin Failing
      /\ runErrors = 0 /\ unknown = {} /\ terminated
  BY DEF FoldInv, Judged, Passes
<1>2. FromProblems = {}
  BY <1>1 DEF FromProblems
<1>3. ASSUME NEW k \in DOMAIN results
      PROVE  Testcase(results[k].case, Outcome(results[k].status)).outcome \notin {"failure", "error"}
  <2>1. results \in Seq(ResultRecord) /\ k \in 1..Len(results)
    BY DEF TypeOK
  <2>2. results[k].status \in Known \union {"not-reached"}
    <3>1. results[k] \in ResultRecord
      BY <2>1
    <3> QED BY <3>1 DEF ResultRecord
  <2>3. Outcome(results[k].status) \notin {"failure", "error"}
    BY <1>1, <2>1, <2>2 DEF Outcome, Known, Words, Failing
  <2> QED BY <2>3 DEF Testcase
<1> QED BY <1>2, <1>3 DEF FromResults

(* The rule is never greener than the stream: for any number of cases, any
   lockfile and any way the stream ends, what `emit --junit` writes counts no
   failure and no error only of a whole and good run, counts none of a green
   fold, and has every event that is not a good one red under its case. *)
THEOREM NeverGreenerCorrect == Spec => []NeverGreener
<1>1. TypeOK /\ FoldInv /\ FewWords => NeverGreener
  <2> SUFFICES ASSUME TypeOK, FoldInv, FewWords, Folded
               PROVE  NeverGreener
    BY DEF NeverGreener
  <2>1. Tally("failure") + Tally("error") = 0
          <=> \A c \in FromResults \union FromProblems : c.outcome \notin {"failure", "error"}
    BY CountsNone
  <2>2. Tally("failure") + Tally("error") = 0 =>
          /\ state = "closed" /\ Len(lines) = N
          /\ \A k \in 1..N : lines[k].status \in {"pass", "skipped", "not-applicable", "deselected"}
    BY <2>1, CleanReport
  <2>3. mode = "green" => Tally("failure") + Tally("error") = 0
    BY <2>1, GreenReport
  <2>4. \A k \in 1..Len(lines) :
          lines[k].status \in Failing \union {"renamed"} =>
            \E t \in DOMAIN Testsuite : /\ Testsuite[t].name = NameAt(k)
                                        /\ Testsuite[t].outcome \in {"failure", "error"}
    BY RedUnderItsName
  <2> QED BY <2>2, <2>3, <2>4 DEF NeverGreener
<1> QED BY <1>1, Invariant, FewUnknown, PTL

-----------------------------------------------------------------------------
(* The fold of the roles of a run. *)

(* A nonempty set of numbers has a least one. *)
LEMMA LeastNumber ==
  ASSUME NEW S, S \subseteq Nat, S # {}
  PROVE  \E n \in S : \A m \in S : ~(m < n)
<1> DEFINE Less == OpToRel(<, Nat)
<1>1. \A m, n \in Nat : m < n => <<m, n>> \in Less
  BY DEF OpToRel
<1>2. \E n \in S : \A m \in S : ~(<<m, n>> \in Less)
  BY NatLessThanWellFounded, WFMin DEF Less
<1> HIDE DEF Less
<1> QED BY <1>1, <1>2

(* A finite set of positions in order: each of them once. *)
LEMMA OrderOfSet ==
  ASSUME NEW K, K \subseteq Nat, IsFiniteSet(K)
  PROVE  /\ Cardinality(K) \in Nat
         /\ Ascending(K) \in [1..Cardinality(K) -> K]
         /\ \A i, j \in 1..Cardinality(K) : Ascending(K)[i] = Ascending(K)[j] => i = j
         /\ \A k \in K : \E i \in 1..Cardinality(K) : Ascending(K)[i] = k
<1> DEFINE n == Cardinality(K)
           UpTo(k) == {j \in K : j <= k}
           rank == [k \in K |-> Cardinality(UpTo(k))]
           o == Ascending(K)
<1>1. n \in Nat
  BY FS_CardinalityType
<1>2. ASSUME NEW k \in K
      PROVE  IsFiniteSet(UpTo(k)) /\ Cardinality(UpTo(k)) \in 1..n
  <2>1. UpTo(k) \in SUBSET K /\ k \in UpTo(k)
    OBVIOUS
  <2> HIDE DEF UpTo
  <2>2. IsFiniteSet(UpTo(k)) /\ Cardinality(UpTo(k)) <= n
    BY <2>1, FS_Subset
  <2>3. Cardinality(UpTo(k)) \in Nat /\ Cardinality(UpTo(k)) # 0
    BY <2>1, <2>2, FS_CardinalityType, FS_EmptySet
  <2> QED BY <1>1, <2>2, <2>3
<1>3. ASSUME NEW j \in K, NEW k \in K, j < k
      PROVE  Cardinality(UpTo(j)) # Cardinality(UpTo(k))
  <2>1. UpTo(j) \in SUBSET UpTo(k) /\ k \in UpTo(k) /\ k \notin UpTo(j)
    <3>1. \A i \in K : i <= j => i <= k
      BY <1>3
    <3>2. k <= k /\ ~(k <= j)
      BY <1>3
    <3> QED BY <3>1, <3>2
  <2> HIDE DEF UpTo
  <2> QED BY <1>2, <2>1, FS_Subset
<1>4. rank \in [K -> 1..n] /\ \A j, k \in K : rank[j] = rank[k] => j = k
  <2> HIDE DEF UpTo, n
  <2>1. \A j, k \in K : j < k \/ k < j \/ j = k
    OBVIOUS
  <2> QED BY <1>2, <1>3, <2>1
<1>5. ASSUME NEW m \in 1..n
      PROVE  \E k \in K : rank[k] = m
  <2> DEFINE T == {rank[k] : k \in K}
  <2> HIDE DEF rank, n
  <2>1. rank \in Surjection(K, T) /\ rank \in Injection(K, T)
    BY <1>4 DEF Surjection, Injection, IsInjective
  <2>2. Cardinality(T) = n
    BY <2>1, FS_Surjection DEF n
  <2>3. T \in SUBSET (1..n)
    BY <1>4
  <2>4. IsFiniteSet(1..n) /\ Cardinality(1..n) = n
    BY <1>1, FS_Interval
  <2>5. T = 1..n
    <3> HIDE DEF T
    <3> QED BY <2>2, <2>3, <2>4, FS_Subset
  <2> QED BY <2>5
<1> DEFINE pick(m) == CHOOSE k \in K : Cardinality(UpTo(k)) = m
<1>6. ASSUME NEW m \in 1..n
      PROVE  pick(m) \in K /\ rank[pick(m)] = m
  <2>1. \E k \in K : Cardinality(UpTo(k)) = m
    BY <1>5
  <2> HIDE DEF UpTo
  <2>2. pick(m) \in K /\ Cardinality(UpTo(pick(m))) = m
    BY <2>1
  <2> HIDE DEF pick
  <2> QED BY <2>2
<1>7. o = [m \in 1..n |-> pick(m)]
  BY DEF Ascending
<1> HIDE DEF pick, o, rank, n
<1>8. o \in [1..n -> K] /\ \A m \in 1..n : rank[o[m]] = m
  BY <1>6, <1>7
<1>9. \A i, j \in 1..n : o[i] = o[j] => i = j
  BY <1>8
<1>10. \A k \in K : rank[k] \in 1..n /\ o[rank[k]] = k
  BY <1>4, <1>8
<1> QED BY <1>1, <1>8, <1>9, <1>10 DEF o, n

(* What a sequence has at some positions is a sequence of that. *)
LEMMA OnlyThese ==
  ASSUME NEW S, NEW s \in Seq(S), NEW K, K \subseteq 1..Len(s)
  PROVE  /\ Only(s, K) \in Seq(S) /\ Len(Only(s, K)) = Cardinality(K)
         /\ ToSet(Only(s, K)) = {s[k] : k \in K}
<1> DEFINE n == Cardinality(K)
           o == Ascending(K)
<1>1. IsFiniteSet(K) /\ K \subseteq Nat
  <2>1. Len(s) \in Nat /\ IsFiniteSet(1..Len(s)) /\ K \in SUBSET (1..Len(s))
    BY FS_Interval
  <2>2. IsFiniteSet(K)
    BY <2>1, FS_Subset
  <2> QED BY <2>1, <2>2
<1>2. n \in Nat /\ o \in [1..n -> K] /\ \A k \in K : \E i \in 1..n : o[i] = k
  BY <1>1, OrderOfSet
<1> HIDE DEF n, o
<1>3. Only(s, K) = [i \in 1..n |-> s[o[i]]]
  BY DEF Only, n, o
<1>4. \A k \in K : s[k] \in S
  OBVIOUS
<1>5. Only(s, K) \in Seq(S) /\ Len(Only(s, K)) = n /\ DOMAIN Only(s, K) = 1..n
  <2>1. \A i \in 1..n : s[o[i]] \in S
    BY <1>2, <1>4
  <2> QED BY <1>2, <1>3, <2>1
<1>6. ToSet(Only(s, K)) = {s[o[i]] : i \in 1..n}
  BY <1>3, <1>5 DEF ToSet
<1>7. {s[o[i]] : i \in 1..n} = {s[k] : k \in K}
  BY <1>2
<1> QED BY <1>5, <1>6, <1>7 DEF n
ReportRecord == [role : Nat, result : ResultRecord]

(* Two or three sequences, one after the other. *)
LEMMA FewFlattened ==
  ASSUME NEW S, NEW n \in {2, 3}, NEW ss \in [1..n -> Seq(S)]
  PROVE  FlattenSeq(ss) \in Seq(S)
<1> DEFINE Step(F) == [i \in 1..n |-> IF i = 1 THEN ss[i] ELSE F[i - 1] \o ss[i]]
           two == ss[1] \o ss[2]
           three == two \o ss[3]
           f == [i \in 1..n |-> IF i = 1 THEN ss[1] ELSE IF i = 2 THEN two ELSE three]
           flatten == CHOOSE F : F = Step(F)
<1>1. Len(ss) = n /\ n # 0
  OBVIOUS
<1>2. FlattenSeq(ss) = flatten[n]
  BY <1>1 DEF FlattenSeq
<1>3. 1 \in 1..n /\ 2 \in 1..n /\ \A i \in 1..n : i = 1 \/ i = 2 \/ (i = 3 /\ n = 3)
  OBVIOUS
<1>4. f = Step(f)
  <2> HIDE DEF two, three
  <2>1. f[1] = ss[1] /\ f[2] = two /\ (n = 3 => f[3] = three)
    BY <1>3
  <2>2. f = [i \in 1..n |-> f[i]]
    OBVIOUS
  <2> HIDE DEF f
  <2>3. ASSUME NEW i \in 1..n
        PROVE  f[i] = IF i = 1 THEN ss[i] ELSE f[i - 1] \o ss[i]
    <3>1. CASE i = 1
      BY <2>1, <3>1
    <3>2. CASE i = 2
      <4>1. f[i - 1] = ss[1]
        BY <2>1, <3>2
      <4> QED BY <2>1, <3>2, <4>1 DEF two
    <3>3. CASE i = 3 /\ n = 3
      <4>1. f[i - 1] = two
        BY <2>1, <3>3
      <4> QED BY <2>1, <3>3, <4>1 DEF three
    <3> QED BY <1>3, <3>1, <3>2, <3>3
  <2> QED BY <2>2, <2>3
<1>5. flatten = Step(flatten)
  <2> HIDE DEF f, Step
  <2> QED BY <1>4
<1> HIDE DEF flatten
<1>6. /\ \A i \in 1..n : i = 1 => flatten[i] = ss[i]
      /\ \A i \in 1..n : i # 1 => flatten[i] = flatten[i - 1] \o ss[i]
  <2> DEFINE g == flatten
  <2>1. g = Step(g)
    BY <1>5
  <2> HIDE DEF g
  <2>2. /\ \A i \in 1..n : i = 1 => g[i] = ss[i]
        /\ \A i \in 1..n : i # 1 => g[i] = g[i - 1] \o ss[i]
    BY <2>1
  <2> QED BY <2>2 DEF g
<1>7. flatten[1] \in Seq(S) /\ flatten[2] \in Seq(S)
  <2>1. 1 \in 1..n /\ 2 \in 1..n /\ ss[1] \in Seq(S) /\ ss[2] \in Seq(S)
    OBVIOUS
  <2>2. flatten[1] = ss[1]
    BY <1>6, <2>1
  <2>3. flatten[2] = flatten[2 - 1] \o ss[2]
    <3>1. PICK i \in 1..n : i = 2
      BY <2>1
    <3>2. i # 1
      BY <3>1
    <3>3. flatten[i] = flatten[i - 1] \o ss[i]
      BY <1>6, <3>2
    <3> QED BY <3>1, <3>3
  <2>4. flatten[2 - 1] = flatten[1]
    OBVIOUS
  <2> QED BY <2>1, <2>2, <2>3, <2>4
<1>8. n = 3 => flatten[3] \in Seq(S)
  <2> SUFFICES ASSUME n = 3 PROVE flatten[3] \in Seq(S)
    OBVIOUS
  <2>1. 3 \in 1..n /\ ss[3] \in Seq(S)
    OBVIOUS
  <2>2. flatten[3] = flatten[2] \o ss[3]
    BY <1>6, <2>1
  <2> QED BY <1>7, <2>1, <2>2
<1> QED BY <1>2, <1>7, <1>8

(* The reports of two or three roles. *)
LEMMA ReportsTyped ==
  ASSUME NEW n \in {2, 3}, NEW roles \in [1..n -> Seq(ResultRecord)]
  PROVE  Reports(roles) \in Seq(ReportRecord)
<1> DEFINE ss == [i \in DOMAIN roles |-> [k \in DOMAIN roles[i] |-> [role |-> i, result |-> roles[i][k]]]]
<1>1. ASSUME NEW i \in 1..n
      PROVE  [k \in DOMAIN roles[i] |-> [role |-> i, result |-> roles[i][k]]] \in Seq(ReportRecord)
  <2>1. PICK r \in Seq(ResultRecord) : r = roles[i]
    OBVIOUS
  <2>2. \A k \in 1..Len(r) : [role |-> i, result |-> r[k]] \in ReportRecord
    BY DEF ReportRecord
  <2>3. DOMAIN r = 1..Len(r) /\ Len(r) \in Nat
    OBVIOUS
  <2> QED BY <2>1, <2>2, <2>3, SeqDef
<1>2. ss \in [1..n -> Seq(ReportRecord)]
  BY <1>1
<1>3. Reports(roles) = FlattenSeq(ss)
  BY DEF Reports
<1> HIDE DEF ss
<1> QED BY <1>2, <1>3, FewFlattened

(* The worst report of a case, the earliest of them. *)
LEMMA WinnerWorst ==
  ASSUME NEW of \in Seq(ReportRecord), Len(of) > 0
  PROVE  /\ Winner(of) \in 1..Len(of)
         /\ \A k \in 1..Len(of) : Rank(of[k].result.status) <= Rank(of[Winner(of)].result.status)
<1> DEFINE D == 1..Len(of)
           rank == [k \in D |-> Rank(of[k].result.status)]
           Wins(w) == \A k \in D : rank[k] < rank[w] \/ (rank[k] = rank[w] /\ w <= k)
<1>1. DOMAIN of = D /\ D \subseteq Nat /\ 1 \in D
  OBVIOUS
<1>2. rank \in [D -> 0..3]
  BY DEF Rank
<1>3. Winner(of) = CHOOSE w \in D : Wins(w)
  BY <1>1 DEF Winner
<1> HIDE DEF rank
<1>4. \E w \in D : Wins(w)
  <2> HIDE DEF D
  <2> DEFINE Gaps == {3 - rank[k] : k \in D}
  <2>1. \A k \in D : rank[k] \in 0..3 /\ 3 - rank[k] \in Nat
    BY <1>2
  <2>2. PICK g \in Gaps : \A h \in Gaps : ~(h < g)
    <3>1. Gaps \subseteq Nat /\ Gaps # {}
      BY <1>1, <2>1
    <3> HIDE DEF Gaps
    <3> QED BY <3>1, LeastNumber
  <2>3. PICK v \in D : g = 3 - rank[v]
    OBVIOUS
  <2>4. ASSUME NEW k \in D
        PROVE  rank[k] <= rank[v]
    <3>1. ~(3 - rank[k] < 3 - rank[v])
      BY <2>2, <2>3
    <3> QED BY <2>1, <3>1
  <2> DEFINE Worst == {k \in D : rank[k] = rank[v]}
  <2>5. PICK w \in Worst : \A k \in Worst : ~(k < w)
    <3>1. Worst \subseteq Nat /\ Worst # {}
      BY <1>1
    <3> HIDE DEF Worst
    <3> QED BY <3>1, LeastNumber
  <2>6. ASSUME NEW k \in D
        PROVE  rank[k] < rank[w] \/ (rank[k] = rank[w] /\ w <= k)
    <3>1. k \in Nat /\ w \in Nat /\ rank[k] \in 0..3 /\ rank[w] = rank[v] /\ rank[k] <= rank[v] /\ rank[v] \in 0..3
      BY <1>1, <2>1, <2>4
    <3>2. rank[k] = rank[v] => ~(k < w)
      BY <2>5
    <3> QED BY <3>1, <3>2
  <2> QED BY <2>6
<1> HIDE DEF Wins
<1>5. Winner(of) \in D /\ Wins(Winner(of))
  BY <1>3, <1>4
<1>6. \A k \in D : rank[k] <= rank[Winner(of)]
  BY <1>2, <1>5 DEF Wins
<1> QED BY <1>5, <1>6 DEF rank
(* What its rank says of a status. *)
LEMMA Ranks ==
  ASSUME NEW status
  PROVE  /\ Rank(status) \in 0..3
         /\ Rank(status) >= 2 <=> status \in Failing
         /\ Rank(status) > 0 <=> status \in Failing \union {"skipped"}
BY DEF Rank, Failing

(* A report put before the others. *)
LEMMA PutFirst ==
  ASSUME NEW S, NEW of \in Seq(S), NEW w \in 1..Len(of)
  PROVE  /\ <<of[w]>> \o RemoveAt(of, w) \in Seq(S)
         /\ Len(<<of[w]>> \o RemoveAt(of, w)) = Len(of)
         /\ ToSet(<<of[w]>> \o RemoveAt(of, w)) = ToSet(of)
<1> DEFINE x == SubSeq(of, 1, w - 1)
           y == SubSeq(of, w + 1, Len(of))
           h == <<of[w]>>
           xy == x \o y
<1>1. PICK n \in Nat : n = Len(of) /\ DOMAIN of = 1..n /\ w \in 1..n
  OBVIOUS
<1>2. x \in Seq(S) /\ Len(x) = w - 1 /\ \A i \in 1..(w - 1) : x[i] = of[i]
  BY <1>1
<1>3. y \in Seq(S) /\ Len(y) = n - w /\ \A i \in 1..(n - w) : y[i] = of[w + i]
  BY <1>1
<1>4. h \in Seq(S) /\ Len(h) = 1 /\ ToSet(h) = {of[w]}
  BY DEF ToSet
<1> HIDE DEF x, y, h
<1>5. xy \in Seq(S) /\ Len(xy) = n - 1 /\ ToSet(xy) = ToSet(x) \union ToSet(y)
  BY <1>1, <1>2, <1>3, ConcatRange
<1> HIDE DEF xy
<1>6. h \o xy \in Seq(S) /\ Len(h \o xy) = n /\ ToSet(h \o xy) = ToSet(h) \union ToSet(xy)
  <2>1. h \in Seq(S) /\ xy \in Seq(S) /\ Len(h) + Len(xy) = n
    BY <1>1, <1>4, <1>5
  <2>2. h \o xy \in Seq(S) /\ Len(h \o xy) = Len(h) + Len(xy)
    BY <2>1
  <2>3. ToSet(h \o xy) = ToSet(h) \union ToSet(xy)
    BY <2>1, ConcatRange
  <2> QED BY <2>1, <2>2, <2>3
<1>7. ToSet(x) = {of[i] : i \in 1..(w - 1)}
  BY <1>2 DEF ToSet
<1>8. ToSet(y) = {of[i] : i \in (w + 1)..n}
  <2>1. ToSet(y) = {of[w + i] : i \in 1..(n - w)}
    <3>1. DOMAIN y = 1..(n - w)
      BY <1>3
    <3>2. ToSet(y) = {y[i] : i \in 1..(n - w)}
      BY <3>1 DEF ToSet
    <3> QED BY <1>3, <3>2
  <2>2. \A i \in 1..(n - w) : w + i \in (w + 1)..n
    BY <1>1
  <2>3. \A j \in (w + 1)..n : j - w \in 1..(n - w) /\ w + (j - w) = j
    BY <1>1
  <2> QED BY <2>1, <2>2, <2>3
<1>9. 1..n = (1..(w - 1)) \union {w} \union ((w + 1)..n)
  BY <1>1
<1>10. ToSet(of) = {of[i] : i \in 1..n}
  BY <1>1 DEF ToSet
<1>11. ToSet(of) = ToSet(h) \union (ToSet(x) \union ToSet(y))
  BY <1>4, <1>7, <1>8, <1>9, <1>10
<1>12. <<of[w]>> \o RemoveAt(of, w) = h \o xy
  BY DEF RemoveAt, h, xy, x, y
<1> QED BY <1>1, <1>5, <1>6, <1>11, <1>12

(* The reports of a case become one result: as bad as the worst of them, with
   everyone's diagnostics, and the blame on those that did not pass. *)
LEMMA MergedReports ==
  ASSUME NEW of \in Seq(ReportRecord), Len(of) > 0, NEW c, \A k \in 1..Len(of) : of[k].result.case = c
  PROVE  /\ Merged(of).case = c
         /\ Merged(of).status \in Failing <=> \E k \in 1..Len(of) : of[k].result.status \in Failing
         /\ Len(of) > 1 =>
              /\ Len(Merged(of).diagnostics) = Len(of)
              /\ ToSet(Merged(of).blames)
                   = {r.role : r \in {s \in ToSet(of) : s.result.status \in Failing \union {"skipped"}}}
<1>1. PICK n \in Nat : n = Len(of) /\ DOMAIN of = 1..n /\ n > 0
  OBVIOUS
<1>2. CASE n = 1
  <2>1. /\ Merged(of).case = of[1].result.case
        /\ Merged(of).status = of[1].result.status
    BY <1>1, <1>2 DEF Merged
  <2>2. \A k \in 1..n : k = 1
    BY <1>2
  <2> QED BY <1>1, <1>2, <2>1, <2>2
<1>3. CASE n # 1
  <2> DEFINE w == Winner(of)
             first == <<of[w]>> \o RemoveAt(of, w)
             K == {k \in DOMAIN first : Rank(first[k].result.status) > 0}
             blamed == NotPassing(first)
  <2>1. w \in 1..n /\ \A k \in 1..n : Rank(of[k].result.status) <= Rank(of[w].result.status)
    BY <1>1, WinnerWorst
  <2>2. /\ Merged(of).case = of[w].result.case
        /\ Merged(of).status = of[w].result.status
        /\ Merged(of).blames = RolesOf(blamed)
        /\ Merged(of).diagnostics = RolesOf(first)
    BY <1>1, <1>3 DEF Merged
  <2> HIDE DEF w
  <2>3. first \in Seq(ReportRecord) /\ Len(first) = n /\ ToSet(first) = ToSet(of)
    BY <1>1, <2>1, PutFirst
  <2>4. blamed = Only(first, K)
    BY DEF NotPassing
  <2> HIDE DEF first
  <2>5. DOMAIN first = 1..n
    BY <2>3
  <2>6. K \subseteq 1..Len(first)
    BY <2>3, <2>5
  <2> HIDE DEF K, blamed
  <2>7. blamed \in Seq(ReportRecord) /\ ToSet(blamed) = {first[k] : k \in K}
    BY <2>3, <2>4, <2>6, OnlyThese
  <2>8. {first[k] : k \in K} = {s \in ToSet(of) : Rank(s.result.status) > 0}
    <3>1. ToSet(of) = {first[k] : k \in DOMAIN first}
      BY <2>3 DEF ToSet
    <3> QED BY <3>1 DEF K
  <2>9. ToSet(RolesOf(blamed)) = {r.role : r \in ToSet(blamed)}
    BY <2>7 DEF RolesOf, ToSet
  <2>10. Len(RolesOf(first)) = n
    BY <1>1, <2>5 DEF RolesOf
  <2>11. \A s : Rank(s.result.status) > 0 <=> s.result.status \in Failing \union {"skipped"}
    BY Ranks
  <2>12. of[w].result.status \in Failing <=> \E k \in 1..n : of[k].result.status \in Failing
    <3>1. \A k \in 1..n : /\ Rank(of[k].result.status) \in 0..3
                          /\ Rank(of[k].result.status) >= 2 <=> of[k].result.status \in Failing
      BY Ranks
    <3>2. ASSUME NEW k \in 1..n, of[k].result.status \in Failing
          PROVE  of[w].result.status \in Failing
      BY <2>1, <3>1, <3>2
    <3> QED BY <2>1, <3>2
  <2>13. {s \in ToSet(of) : Rank(s.result.status) > 0}
           = {s \in ToSet(of) : s.result.status \in Failing \union {"skipped"}}
    BY <2>11
  <2> QED BY <1>1, <2>1, <2>2, <2>7, <2>8, <2>9, <2>10, <2>12, <2>13
<1> QED BY <1>2, <1>3
ReportsOf(reports, c) == {k \in DOMAIN reports : reports[k].result.case = c}

\* What RolesAgree says of reports and what they are folded into.
Agreed(reports, folded) ==
  /\ {folded[j].case : j \in DOMAIN folded} = {reports[k].result.case : k \in DOMAIN reports}
  /\ Len(folded) = Cardinality({folded[j].case : j \in DOMAIN folded})
  /\ \A j \in DOMAIN folded :
       LET of == ReportsOf(reports, folded[j].case) IN
       /\ folded[j].status \in Failing <=> \E k \in of : reports[k].result.status \in Failing
       /\ Cardinality(of) > 1 =>
            /\ Len(folded[j].diagnostics) = Cardinality(of)
            /\ ToSet(folded[j].blames) =
                 {reports[k].role : k \in {r \in of : reports[r].result.status \in Failing \union {"skipped"}}}

(* Every case has one first report. *)
LEMMA FirstReports ==
  ASSUME NEW reports \in Seq(ReportRecord)
  PROVE  /\ Firsts(reports) \subseteq 1..Len(reports)
         /\ \A k \in 1..Len(reports) :
              \E f \in Firsts(reports) : reports[f].result.case = reports[k].result.case
         /\ \A e, f \in Firsts(reports) : reports[e].result.case = reports[f].result.case => e = f
<1>1. PICK n \in Nat : n = Len(reports) /\ DOMAIN reports = 1..n
  OBVIOUS
<1> DEFINE F == Firsts(reports)
           name == [k \in 1..n |-> reports[k].result.case]
<1>2. F = {k \in 1..n : \A j \in 1..(k - 1) : name[j] # name[k]}
  <2>1. \A k \in 1..n : \A j \in 1..(k - 1) : j \in 1..n
    BY <1>1
  <2> QED BY <1>1, <2>1 DEF Firsts
<1>3. \A k \in 1..n : name[k] = reports[k].result.case
  OBVIOUS
<1> HIDE DEF F, name
<1>4. ASSUME NEW k \in 1..n
      PROVE  \E f \in F : name[f] = name[k]
  <2> DEFINE S == {i \in 1..n : name[i] = name[k]}
  <2>1. S \subseteq Nat /\ S # {}
    BY <1>1
  <2>2. PICK f \in S : \A i \in S : ~(i < f)
    <3> HIDE DEF S
    <3> QED BY <2>1, LeastNumber
  <2>3. ASSUME NEW j \in 1..(f - 1), name[j] = name[f]
        PROVE  FALSE
    <3>1. j \in 1..n /\ j < f
      BY <1>1, <2>3
    <3> QED BY <2>2, <2>3, <3>1
  <2> QED BY <1>2, <2>3
<1>5. ASSUME NEW e \in F, NEW f \in F, name[e] = name[f]
      PROVE  e = f
  <2>1. e \in 1..n /\ f \in 1..n
    BY <1>2
  <2>2. ~(e < f)
    <3>1. e < f => e \in 1..(f - 1)
      BY <2>1
    <3> QED BY <1>2, <1>5, <3>1
  <2>3. ~(f < e)
    <3>1. f < e => f \in 1..(e - 1)
      BY <2>1
    <3> QED BY <1>2, <1>5, <3>1
  <2> QED BY <2>1, <2>2, <2>3
<1>6. F \subseteq 1..n
  BY <1>2
<1>7. \A f \in F : name[f] = reports[f].result.case
  BY <1>3, <1>6
<1> QED BY <1>1, <1>3, <1>4, <1>5, <1>6, <1>7 DEF F

(* The fold of any roles has a result for each case that was reported. *)
LEMMA RolesFolded ==
  ASSUME NEW roles, NEW reports \in Seq(ReportRecord), reports = Reports(roles),
         NEW folded, folded = FoldRoles(roles)
  PROVE  Agreed(reports, folded)
<1>1. PICK n \in Nat : n = Len(reports) /\ DOMAIN reports = 1..n
  OBVIOUS
<1> DEFINE F == Firsts(reports)
           m == Cardinality(F)
           o == Ascending(F)
           name(j) == reports[o[j]].result.case
<1>2. /\ F \subseteq 1..n
      /\ \A k \in 1..n : \E f \in F : reports[f].result.case = reports[k].result.case
      /\ \A e, f \in F : reports[e].result.case = reports[f].result.case => e = f
  BY <1>1, FirstReports
<1> HIDE DEF F
<1>3. /\ m \in Nat /\ o \in [1..m -> F]
      /\ \A i, j \in 1..m : o[i] = o[j] => i = j
      /\ \A f \in F : \E j \in 1..m : o[j] = f
  <2>1. IsFiniteSet(1..n) /\ F \in SUBSET (1..n)
    BY <1>1, <1>2, FS_Interval
  <2>2. IsFiniteSet(F)
    BY <2>1, FS_Subset
  <2>3. F \subseteq Nat
    BY <2>1
  <2> QED BY <2>2, <2>3, OrderOfSet
<1>4. folded = [j \in DOMAIN o |-> Merged(Only(reports, ReportsOf(reports, name(j))))]
  BY DEF FoldRoles, ReportsOf, F
<1> HIDE DEF m, o
<1>5. DOMAIN folded = 1..m /\ \A j \in 1..m : folded[j] = Merged(Only(reports, ReportsOf(reports, name(j))))
  BY <1>3, <1>4
<1>6. ASSUME NEW j \in 1..m
      PROVE  LET of == ReportsOf(reports, name(j)) IN
             /\ folded[j].case = name(j)
             /\ folded[j].status \in Failing <=> \E k \in of : reports[k].result.status \in Failing
             /\ Cardinality(of) > 1 =>
                  /\ Len(folded[j].diagnostics) = Cardinality(of)
                  /\ ToSet(folded[j].blames) =
                       {reports[k].role : k \in {r \in of : reports[r].result.status \in Failing \union {"skipped"}}}
  <2> DEFINE of == ReportsOf(reports, name(j))
             q == Only(reports, of)
  <2>1. o[j] \in of /\ of \subseteq 1..n /\ \A k \in of : reports[k].result.case = name(j)
    BY <1>1, <1>2, <1>3 DEF ReportsOf
  <2> HIDE DEF name, of
  <2>0. of \subseteq 1..Len(reports) /\ q = Only(reports, of)
    BY <1>1, <2>1
  <2> HIDE DEF q
  <2>2. q \in Seq(ReportRecord) /\ Len(q) = Cardinality(of) /\ ToSet(q) = {reports[k] : k \in of}
    <3>1. \A s \in Seq(ReportRecord) : \A K \in SUBSET (1..Len(s)) :
            /\ Only(s, K) \in Seq(ReportRecord) /\ Len(Only(s, K)) = Cardinality(K)
            /\ ToSet(Only(s, K)) = {s[k] : k \in K}
      BY OnlyThese
    <3>2. of \in SUBSET (1..Len(reports))
      BY <2>0
    <3> QED BY <2>0, <3>1, <3>2
  <2>3. ToSet(q) = {q[i] : i \in 1..Len(q)} /\ Len(q) \in Nat
    BY <2>2 DEF ToSet
  <2>4. Len(q) > 0
    <3>1. reports[o[j]] \in ToSet(q)
      BY <2>1, <2>2
    <3>2. PICK i \in 1..Len(q) : reports[o[j]] = q[i]
      BY <2>3, <3>1
    <3> QED BY <2>3, <3>2
  <2>5. \A i \in 1..Len(q) : \E k \in of : q[i] = reports[k]
    BY <2>2, <2>3
  <2>6. \A k \in of : \E i \in 1..Len(q) : q[i] = reports[k]
    BY <2>2, <2>3
  <2>7. \A i \in 1..Len(q) : q[i].result.case = name(j)
    BY <2>1, <2>5
  <2>8. /\ Merged(q).case = name(j)
        /\ Merged(q).status \in Failing <=> \E i \in 1..Len(q) : q[i].result.status \in Failing
        /\ Len(q) > 1 =>
             /\ Len(Merged(q).diagnostics) = Len(q)
             /\ ToSet(Merged(q).blames)
                  = {r.role : r \in {s \in ToSet(q) : s.result.status \in Failing \union {"skipped"}}}
    BY <2>2, <2>4, <2>7, MergedReports
  <2>9. folded[j] = Merged(q)
    BY <1>5 DEF q, of
  <2>10. (\E i \in 1..Len(q) : q[i].result.status \in Failing) <=> \E k \in of : reports[k].result.status \in Failing
    BY <2>5, <2>6
  <2>11. {r.role : r \in {s \in ToSet(q) : s.result.status \in Failing \union {"skipped"}}}
           = {reports[k].role : k \in {r \in of : reports[r].result.status \in Failing \union {"skipped"}}}
    BY <2>2
  <2>12. /\ folded[j].case = name(j)
         /\ folded[j].status \in Failing <=> \E k \in of : reports[k].result.status \in Failing
         /\ Cardinality(of) > 1 =>
              /\ Len(folded[j].diagnostics) = Cardinality(of)
              /\ ToSet(folded[j].blames) =
                   {reports[k].role : k \in {r \in of : reports[r].result.status \in Failing \union {"skipped"}}}
    BY <2>2, <2>8, <2>9, <2>10, <2>11
  <2> QED BY <2>12 DEF of
<1> DEFINE Cases == {folded[j].case : j \in DOMAIN folded}
<1>7. Cases = {name(j) : j \in 1..m}
  BY <1>5, <1>6
<1>8. Cases = {reports[k].result.case : k \in DOMAIN reports}
  <2>1. \A j \in 1..m : o[j] \in DOMAIN reports
    BY <1>1, <1>2, <1>3
  <2>2. ASSUME NEW k \in DOMAIN reports
        PROVE  \E j \in 1..m : name(j) = reports[k].result.case
    <3>1. PICK f \in F : reports[f].result.case = reports[k].result.case
      BY <1>1, <1>2
    <3>2. PICK j \in 1..m : o[j] = f
      BY <1>3
    <3> QED BY <3>1, <3>2
  <2> HIDE DEF Cases
  <2>3. \A j \in 1..m : \E k \in DOMAIN reports : name(j) = reports[k].result.case
    BY <2>1
  <2> HIDE DEF name
  <2> QED BY <1>7, <2>2, <2>3
<1>9. Len(folded) = m
  BY <1>3, <1>5, <1>4
<1>10. Cardinality(Cases) = m
  <2> DEFINE g == [j \in 1..m |-> name(j)]
  <2>1. \A i, j \in 1..m : name(i) = name(j) => i = j
    BY <1>2, <1>3
  <2>2. g \in Surjection(1..m, Cases) /\ g \in Injection(1..m, Cases)
    BY <1>7, <2>1 DEF Surjection, Injection, IsInjective
  <2>3. IsFiniteSet(1..m) /\ Cardinality(1..m) = m
    BY <1>3, FS_Interval
  <2> HIDE DEF g, Cases
  <2> QED BY <2>2, <2>3, FS_Surjection
<1>11. \A j \in DOMAIN folded : name(j) = folded[j].case
  BY <1>5, <1>6
<1> HIDE DEF name
<1> QED BY <1>5, <1>6, <1>8, <1>9, <1>10, <1>11 DEF Agreed

(* Whatever other roles report, before or after the document: the fold has one
   result of each case, failing if and only if some role's is, with everyone's
   diagnostics and the blame on those that did not pass. *)
THEOREM RolesAgreeCorrect == Spec => []RolesAgree
<1>1. TypeOK => RolesAgree
  <2> SUFFICES ASSUME TypeOK, NEW p \in Partners,
                      NEW roles \in {<<results, p>>, <<p, results>>, <<p, <<>>, results>>}
               PROVE  Agreed(Reports(roles), FoldRoles(roles))
    BY DEF RolesAgree, Agreed, ReportsOf
  <2> DEFINE V == Seq(ResultRecord)
  <2>1. results \in V /\ p \in V /\ <<>> \in V
    <3>1. results \in V
      BY DEF TypeOK
    <3>2. p \in V
      BY PartnersAssumption
    <3> QED BY <3>1, <3>2
  <2> HIDE DEF V
  <2>2. roles \in [1..2 -> V] \/ roles \in [1..3 -> V]
    <3>1. CASE roles = <<results, p>>
      BY <2>1, <3>1
    <3>2. CASE roles = <<p, results>>
      BY <2>1, <3>2
    <3>3. CASE roles = <<p, <<>>, results>>
      BY <2>1, <3>3
    <3> QED BY <3>1, <3>2, <3>3
  <2>3. Reports(roles) \in Seq(ReportRecord)
    <3>1. CASE roles \in [1..2 -> V]
      BY <3>1, ReportsTyped DEF V
    <3>2. CASE roles \in [1..3 -> V]
      BY <3>2, ReportsTyped DEF V
    <3> QED BY <2>2, <3>1, <3>2
  <2> QED BY <2>3, RolesFolded
<1> QED BY <1>1, TypeCorrect, PTL
=============================================================================
