-------------------------- MODULE AggregateProofs ---------------------------
(***************************************************************************)
(* Proofs about Aggregate and Matrix: types, what a green corpus means,    *)
(* runner parity, and that the page rendered of a corpus hides nothing.    *)
(***************************************************************************)
EXTENDS Matrix, FiniteSetTheorems, WellFoundedInduction, TLAPS

\* What the errors, the results and the excuses know of a document.
Accounted(k) ==
  LET t == given[k].target
      run == given[k].run IN
  IF \E j \in DOMAIN given : j < k /\ given[j].target = t
  THEN <<"multiple", t>> \in errors
  ELSE /\ \A e \in DocumentErrors(t, run) : <<e, t>> \in errors
       /\ \A r \in NormalReports(t, run) :
            [target |-> t, case |-> r.case, status |-> r.status] \in results

AllAccounted == \A k \in DOMAIN given : Accounted(k)

Excuses == \A e \in excused : e[2] \in ExpectedFail(e[1])

Judged == mode = "green" => errors = {} /\ FailingResults = {} /\ Silent = {} /\ Shed = {}

Checked == mode = "checking" => given = <<>>

Inv == AllAccounted /\ Excuses /\ Judged /\ Checked

-----------------------------------------------------------------------------
(* The documents. *)

(* What a run tells of a case is a status, or a word the consumer does not
   know. *)
LEMMA SaidTyped ==
  ASSUME NEW run \in Runs, NEW k \in DOMAIN run.words
  PROVE  /\ run.names[k] \in Names
         /\ Said(run, k) \in Words \union {"not-applicable"}
<1>1. run \in RunRecord
  BY AggregateAssumption
<1>2. run.words \in Seq(Words) /\ run.names \in Seq(Names) /\ Len(run.words) <= Len(run.names)
  BY <1>1, AggregateAssumption DEF RunRecord
<1>3. k \in 1..Len(run.words) /\ k \in 1..Len(run.names)
  BY <1>2
<1>4. run.words[k] \in Words /\ run.names[k] \in Names
  BY <1>2, <1>3
<1> QED BY <1>4 DEF Said

(* The results of a document are named and have a status. *)
LEMMA DocumentTyped ==
  ASSUME TypeOK, NEW run \in Runs, NEW k \in DOMAIN Document(run)
  PROVE  /\ Document(run)[k].case \in Names
         /\ Document(run)[k].status \in Statuses
         /\ run.whole => Document(run)[k].status # "not-reached"
<1>1. k \in Told(run) \union OpenAt(run)
  BY DEF Document
<1>2. CASE k \in DOMAIN run.words
  <2>1. Document(run)[k] = [case |-> run.names[k], status |-> Said(run, k)]
    BY <1>1, <1>2 DEF Document
  <2>2. k \in Told(run)
    <3>1. run.words \in Seq(Words)
      BY AggregateAssumption DEF RunRecord
    <3>2. k <= Len(run.words) /\ Len(run.words) \in Nat
      BY <1>2, <3>1
    <3>3. k \notin OpenAt(run)
      <4>1. SUFFICES ASSUME k \in OpenAt(run) PROVE FALSE
        OBVIOUS
      <4>2. PICK i \in DOMAIN lock.case : k = Len(run.words) + i
        BY <4>1 DEF OpenAt
      <4>3. lock.case \in Seq(CaseEntry)
        BY AggregateAssumption DEF TypeOK
      <4>4. i \in Nat /\ i >= 1
        BY <4>2, <4>3
      <4> QED BY <3>2, <4>2, <4>4
    <3> QED BY <1>1, <3>3
  <2>3. Said(run, k) \in Statuses \ {"not-reached"}
    BY <1>2, <2>2, SaidTyped DEF Told, Words, Statuses
  <2> QED BY <1>2, <2>1, <2>3, SaidTyped
<1>3. CASE k \notin DOMAIN run.words
  <2>1. k \in OpenAt(run)
    BY <1>1, <1>3 DEF Told
  <2>2. ~run.whole
    BY <2>1 DEF OpenAt
  <2>3. Document(run)[k] =
          [case |-> lock.case[k - Len(run.words)].name, status |-> "not-reached"]
    BY <1>1, <1>3 DEF Document
  <2>4. PICK i \in DOMAIN lock.case : k = Len(run.words) + i
    BY <2>1, <2>2 DEF OpenAt
  <2>5. lock.case \in Seq(CaseEntry) /\ run.words \in Seq(Words)
    BY AggregateAssumption DEF TypeOK, RunRecord
  <2>6. k - Len(run.words) = i
    BY <2>4, <2>5
  <2>7. lock.case[i] \in CaseEntry
    BY <2>4, <2>5
  <2> QED BY <2>2, <2>3, <2>6, <2>7 DEF CaseEntry, Statuses
<1> QED BY <1>2, <1>3

(* The reports a target's map keeps, as the corpus has them, are typed. *)
LEMMA NormalTyped ==
  ASSUME TypeOK, NEW t \in Targets, NEW run \in Runs, NEW r \in NormalReports(t, run)
  PROVE  r.case \in Names /\ r.status \in Statuses
<1>1. PICK l \in LastReports(Document(run)) : r = [case |-> l.case, status |-> Normal(t, run, l)]
  BY DEF NormalReports
<1>2. PICK k \in DOMAIN Document(run) : l = Document(run)[k]
  BY DEF LastReports
<1>3. l.case \in Names /\ l.status \in Statuses
  BY <1>2, DocumentTyped
<1> QED BY <1>1, <1>3 DEF Normal, Statuses

(* In a document that covers the lockfile every report is the last one. *)
LEMMA CoveredReportsStay ==
  ASSUME TypeOK, NEW run \in Runs, Covers(lock, CaseNames(Document(run))),
         NEW k \in DOMAIN Document(run)
  PROVE  Document(run)[k] \in LastReports(Document(run))
<1>1. \A i, j \in DOMAIN Document(run) : Document(run)[i].case = Document(run)[j].case => i = j
  BY DEF Covers, CaseNames
<1>2. k \in Nat
  <2>1. run.words \in Seq(Words) /\ lock.case \in Seq(CaseEntry)
    BY AggregateAssumption DEF TypeOK, RunRecord
  <2>2. \A i \in DOMAIN lock.case : Len(run.words) + i \in Nat
    BY <2>1
  <2>3. Told(run) \subseteq Nat
    BY <2>1 DEF Told
  <2>4. OpenAt(run) \subseteq Nat
    BY <2>2 DEF OpenAt
  <2> QED BY <2>3, <2>4 DEF Document
<1>3. \A j \in DOMAIN Document(run) : Document(run)[j].case = Document(run)[k].case => j <= k
  BY <1>1, <1>2
<1> QED BY <1>3 DEF LastReports

-----------------------------------------------------------------------------
(* Types. *)

(* The command starts well typed. *)
LEMMA TypeInit == Init => TypeOK
BY DEF Init, TypeOK

(* Every step keeps the types. *)
LEMMA TypeStep ==
  ASSUME TypeOK, [Next]_vars
  PROVE  TypeOK'
<1>1. CASE CheckDeclarations
  <2>1. DeclarationErrors \subseteq DeclarationKinds
    BY DEF DeclarationErrors
  <2>3. \A e \in DeclarationErrors : <<e, "">> \in Error
    BY <2>1 DEF Error
  <2>4. errors' = {<<e, "">> : e \in DeclarationErrors} \/ errors' = errors
    BY <1>1 DEF CheckDeclarations
  <2>2. errors' \subseteq Error
    BY <2>3, <2>4 DEF TypeOK
  <2> QED BY <1>1, <2>2 DEF CheckDeclarations, TypeOK
<1>2. CASE Join
  <2>1. PICK t \in Targets, run \in Runs :
          /\ given' = Append(given, [target |-> t, run |-> run])
          /\ IF t \in Seen
             THEN /\ errors' = errors \union {<<"multiple", t>>}
                  /\ UNCHANGED <<results, excused>>
             ELSE /\ errors' = errors \union {<<e, t>> : e \in DocumentErrors(t, run)}
                  /\ results' = results \union
                       {[target |-> t, case |-> r.case, status |-> r.status] : r \in NormalReports(t, run)}
                  /\ excused' = excused \union
                       {<<t, c>> : c \in ExpectedFail(t) \intersect Comes(t, run, "fail")}
    BY <1>2 DEF Join
  <2>2. given' \in Seq([target : Targets, run : Runs])
    <3>1. given \in Seq([target : Targets, run : Runs])
      BY DEF TypeOK
    <3>2. [target |-> t, run |-> run] \in [target : Targets, run : Runs]
      OBVIOUS
    <3> QED BY <2>1, <3>1, <3>2
  <2>3. DocumentErrors(t, run) \subseteq DocumentKinds
    BY DEF DocumentErrors
  <2>9. \A e \in DocumentErrors(t, run) \union {"multiple"} : <<e, t>> \in Error
    BY <2>3 DEF Error
  <2>4. errors' \subseteq Error
    BY <2>1, <2>9 DEF TypeOK
  <2>5. {[target |-> t, case |-> r.case, status |-> r.status] : r \in NormalReports(t, run)}
          \subseteq [target : Targets, case : Names, status : Statuses]
    BY NormalTyped
  <2>6. Comes(t, run, "fail") \subseteq Names
    BY NormalTyped DEF Comes
  <2>7. results' \subseteq [target : Targets, case : Names, status : Statuses]
    BY <2>1, <2>5 DEF TypeOK
  <2>10. \A c \in Comes(t, run, "fail") : <<t, c>> \in Targets \X Names
    BY <2>6
  <2>8. excused' \subseteq Targets \X Names
    BY <2>1, <2>10 DEF TypeOK
  <2> QED BY <1>2, <2>2, <2>4, <2>7, <2>8 DEF Join, TypeOK
<1>3. CASE Finish
  <2>1. Silent \subseteq Targets
    BY AggregateAssumption DEF Silent, Declared, TypeOK, IsManifest
  <2>2. \A g \in Shed : g.target \in Targets
    <3>3. given \in Seq([target : Targets, run : Runs])
      BY DEF TypeOK
    <3>4. \A S : given \in Seq(S) => \A k \in DOMAIN given : given[k] \in S
      OBVIOUS
    <3>1. \A k \in DOMAIN given : given[k] \in [target : Targets, run : Runs]
      BY <3>3, <3>4
    <3>2. Shed \subseteq {given[k] : k \in DOMAIN given}
      BY DEF Shed, Joined
    <3> QED BY <3>1, <3>2
  <2>4. /\ \A t \in Silent : <<"silent", t>> \in Error
        /\ \A g \in Shed : <<"shed", g.target>> \in Error
    BY <2>1, <2>2 DEF Error
  <2>3. errors' \subseteq Error
    BY <1>3, <2>4 DEF Finish, TypeOK
  <2> QED BY <1>3, <2>3 DEF Finish, TypeOK
<1>4. CASE Exited \/ UNCHANGED vars
  BY <1>4 DEF Exited, vars, TypeOK
<1> QED BY <1>1, <1>2, <1>3, <1>4 DEF Next

(* The aggregator's variables have their types, whatever is aggregated. *)
THEOREM TypeCorrect == Spec => []TypeOK
BY TypeInit, TypeStep, PTL DEF Spec

-----------------------------------------------------------------------------
(* Inv is inductive. *)

(* The declarations never change, so a run's document and what is made of it
   stay the same. *)
LEMMA DeclarationsStay ==
  ASSUME UNCHANGED <<lock, manifest>>
  PROVE  /\ \A run : Document(run)' = Document(run)
         /\ \A t, run : NormalReports(t, run)' = NormalReports(t, run)
         /\ \A t : ExpectedFail(t)' = ExpectedFail(t)
         /\ \A t, run : DocumentErrors(t, run)' = DocumentErrors(t, run)
         /\ \A run : Leaves(Document(run))' = Leaves(Document(run))
<1>1. \A name : TagsFor(name)' = TagsFor(name)
  BY DEF TagsFor
<1>2. \A name, missing : Excluded(name, missing)' = Excluded(name, missing)
  BY <1>1 DEF Excluded
<1>3. \A run, k : Said(run, k)' = Said(run, k)
  BY <1>2 DEF Said
<1>4. \A run : Told(run)' = Told(run) /\ OpenAt(run)' = OpenAt(run)
  BY <1>3 DEF Told, OpenAt
<1>5. \A run : Document(run)' = Document(run)
  BY <1>3, <1>4 DEF Document
<1>6. \A t, run, r : Normal(t, run, r)' = Normal(t, run, r) /\ Drifts(t, run, r)' = Drifts(t, run, r)
  BY <1>1, <1>2 DEF Normal, Drifts, Declared, Missing
<1>7. \A t, run : NormalReports(t, run)' = NormalReports(t, run)
  BY <1>5, <1>6 DEF NormalReports
<1>8. \A t : ExpectedFail(t)' = ExpectedFail(t)
  BY <1>1, <1>2 DEF ExpectedFail, Declared, Missing
<1>9. \A t, run, status : Comes(t, run, status)' = Comes(t, run, status)
  BY <1>7 DEF Comes
<1>10. \A t, run : DocumentErrors(t, run)' = DocumentErrors(t, run)
  <2>1. \A run : Covers(lock, CaseNames(Document(run)))' = Covers(lock, CaseNames(Document(run)))
    BY <1>5
  <2>2. \A t, run : (\E r \in LastReports(Document(run)) : Drifts(t, run, r))'
                      = \E r \in LastReports(Document(run)) : Drifts(t, run, r)
    BY <1>5, <1>6
  <2>3. Declared' = Declared
    BY DEF Declared
  <2>4. ASSUME NEW t, NEW run, NEW e
        PROVE  (e \in DocumentErrors(t, run))' <=> e \in DocumentErrors(t, run)
    <3>1. /\ Declared' = Declared /\ manifest' = manifest
          /\ Covers(lock, CaseNames(Document(run)))' = Covers(lock, CaseNames(Document(run)))
          /\ (\E r \in LastReports(Document(run)) : Drifts(t, run, r))'
               = \E r \in LastReports(Document(run)) : Drifts(t, run, r)
          /\ ExpectedFail(t)' = ExpectedFail(t)
          /\ Comes(t, run, "pass")' = Comes(t, run, "pass")
      BY <1>8, <1>9, <2>1, <2>2, <2>3
    <3> HIDE DEF DocumentKinds
    <3> QED BY ONLY <3>1, Zenon DEF DocumentErrors
  <2> QED BY <2>4
<1>11. \A run : Leaves(Document(run))' = Leaves(Document(run))
  BY <1>5 DEF Leaves
<1> QED BY <1>5, <1>7, <1>8, <1>10, <1>11

(* Nothing is accounted for, and nothing has to be, before a document is. *)
LEMMA InvInit == Init => Inv
BY DEF Init, Inv, AllAccounted, Excuses, Judged, Checked

(* The declarations are checked before the first document is joined. *)
LEMMA CheckInv ==
  ASSUME TypeOK, Inv, CheckDeclarations
  PROVE  Inv'
<1>1. given' = <<>> /\ excused' = excused /\ UNCHANGED <<lock, manifest>>
  BY DEF CheckDeclarations, Inv, Checked
<1>2. AllAccounted'
  BY <1>1 DEF AllAccounted
<1>3. Excuses'
  BY <1>1, DeclarationsStay DEF Inv, Excuses
<1>4. Judged' /\ Checked'
  BY <1>1 DEF CheckDeclarations, Judged, Checked
<1> QED BY <1>2, <1>3, <1>4 DEF Inv

(* A document that is joined is accounted for, and none before it is
   forgotten. *)
LEMMA JoinInv ==
  ASSUME TypeOK, Inv, Join
  PROVE  Inv'
<1>0. PICK n \in Nat : n = Len(given) + 1
  BY DEF TypeOK
<1>1. PICK t \in Targets, run \in Runs :
        /\ given' = Append(given, [target |-> t, run |-> run])
        /\ IF t \in Seen
           THEN /\ errors' = errors \union {<<"multiple", t>>}
                /\ UNCHANGED <<results, excused>>
           ELSE /\ errors' = errors \union {<<e, t>> : e \in DocumentErrors(t, run)}
                /\ results' = results \union
                     {[target |-> t, case |-> r.case, status |-> r.status] : r \in NormalReports(t, run)}
                /\ excused' = excused \union
                     {<<t, c>> : c \in ExpectedFail(t) \intersect Comes(t, run, "fail")}
  BY DEF Join
<1>2. UNCHANGED <<lock, manifest, mode>> /\ mode = "joining"
  BY DEF Join
<1>3. given \in Seq([target : Targets, run : Runs])
  BY DEF TypeOK
<1>4. /\ DOMAIN given = 1..Len(given) /\ Len(given) \in Nat
      /\ DOMAIN given' = 1..n
      /\ \A k \in DOMAIN given : given'[k] = given[k]
      /\ given'[n] = [target |-> t, run |-> run]
  BY <1>0, <1>1, <1>3
<1>5. errors \subseteq errors' /\ results \subseteq results'
  BY <1>1
<1>6. ASSUME NEW k \in DOMAIN given
      PROVE  Accounted(k)'
  <2>1. Accounted(k)
    BY DEF Inv, AllAccounted
  <2>2. given'[k] = given[k]
    BY <1>4
  <2>3. CASE \E j \in DOMAIN given : j < k /\ given[j].target = given[k].target
    <3>1. \E j \in DOMAIN given' : j < k /\ given'[j].target = given'[k].target
      BY <1>0, <1>4, <2>3
    <3>2. <<"multiple", given'[k].target>> \in errors'
      BY <1>5, <2>1, <2>2, <2>3 DEF Accounted
    <3> QED BY <3>1, <3>2 DEF Accounted
  <2>4. CASE ~\E j \in DOMAIN given : j < k /\ given[j].target = given[k].target
    <3>1. ~\E j \in DOMAIN given' : j < k /\ given'[j].target = given'[k].target
      BY <1>4, <2>4
    <3>2. /\ \A e \in DocumentErrors(given[k].target, given[k].run) : <<e, given[k].target>> \in errors'
          /\ \A r \in NormalReports(given[k].target, given[k].run) :
               [target |-> given[k].target, case |-> r.case, status |-> r.status] \in results'
      BY <1>5, <2>1, <2>4 DEF Accounted
    <3>3. /\ DocumentErrors(given[k].target, given[k].run)' = DocumentErrors(given[k].target, given[k].run)
          /\ NormalReports(given[k].target, given[k].run)' = NormalReports(given[k].target, given[k].run)
      <4>1. \A a, b : /\ DocumentErrors(a, b)' = DocumentErrors(a, b)
                      /\ NormalReports(a, b)' = NormalReports(a, b)
        BY <1>2, DeclarationsStay
      <4> QED BY <2>2, <4>1
    <3> QED BY <2>2, <3>1, <3>2, <3>3 DEF Accounted
  <2> QED BY <2>3, <2>4
<1>7. Accounted(n)'
  <2>1. t \in Seen <=> \E j \in DOMAIN given' : j < n /\ given'[j].target = t
    BY <1>0, <1>4 DEF Seen
  <2>2. CASE t \in Seen
    BY <1>1, <1>4, <2>1, <2>2 DEF Accounted
  <2>3. CASE t \notin Seen
    <3>1. /\ \A e \in DocumentErrors(t, run) : <<e, t>> \in errors'
          /\ \A r \in NormalReports(t, run) :
               [target |-> t, case |-> r.case, status |-> r.status] \in results'
      BY <1>1, <2>3
    <3>2. \A a, b : /\ DocumentErrors(a, b)' = DocumentErrors(a, b)
                    /\ NormalReports(a, b)' = NormalReports(a, b)
      BY <1>2, DeclarationsStay
    <3>3. given'[n].target = t /\ given'[n].run = run
      BY <1>4
    <3>4. ~\E j \in DOMAIN given' : j < n /\ given'[j].target = t
      BY <2>1, <2>3
    <3> QED BY <3>1, <3>2, <3>3, <3>4 DEF Accounted
  <2> QED BY <2>2, <2>3
<1>8. AllAccounted'
  <2>1. \A k \in DOMAIN given' : k \in DOMAIN given \/ k = n
    BY <1>0, <1>4
  <2> QED BY <1>6, <1>7, <2>1 DEF AllAccounted
<1>9. Excuses'
  <2>1. \A c \in ExpectedFail(t) : <<t, c>>[2] \in ExpectedFail(<<t, c>>[1])
    OBVIOUS
  <2>2. \A e \in excused' : e[2] \in ExpectedFail(e[1])
    BY <1>1, <2>1 DEF Inv, Excuses
  <2>3. \A a : ExpectedFail(a)' = ExpectedFail(a)
    BY <1>2, DeclarationsStay
  <2> QED BY <2>2, <2>3 DEF Excuses
<1>10. Judged' /\ Checked'
  BY <1>2 DEF Judged, Checked
<1> QED BY <1>8, <1>9, <1>10 DEF Inv

(* The verdict is what the errors and the results say. *)
LEMMA FinishInv ==
  ASSUME TypeOK, Inv, Finish
  PROVE  Inv'
<1>1. UNCHANGED <<lock, manifest, given, results, excused>> /\ errors \subseteq errors'
  BY DEF Finish
<1>2. AllAccounted'
  <2>1. ASSUME NEW k \in DOMAIN given
        PROVE  Accounted(k)'
    <3>1. Accounted(k)
      BY DEF Inv, AllAccounted
    <3>2. /\ DocumentErrors(given[k].target, given[k].run)' = DocumentErrors(given[k].target, given[k].run)
          /\ NormalReports(given[k].target, given[k].run)' = NormalReports(given[k].target, given[k].run)
      <4>1. \A a, b : /\ DocumentErrors(a, b)' = DocumentErrors(a, b)
                      /\ NormalReports(a, b)' = NormalReports(a, b)
        BY <1>1, DeclarationsStay
      <4> QED BY <1>1, <4>1
    <3> QED BY <1>1, <3>1, <3>2 DEF Accounted
  <2> QED BY <1>1, <2>1 DEF AllAccounted
<1>3. Excuses'
  BY <1>1, DeclarationsStay DEF Inv, Excuses
<1>4. Judged'
  <2>1. SUFFICES ASSUME mode' = "green"
                 PROVE  errors' = {} /\ FailingResults' = {} /\ Silent' = {} /\ Shed' = {}
    BY DEF Judged
  <2>2. errors' = {} /\ FailingResults = {}
    BY <2>1 DEF Finish
  <2>3. Silent = {}
    <3>1. \A t \in Silent : <<"silent", t>> \in errors'
      BY DEF Finish
    <3> QED BY <2>2, <3>1
  <2>4. Shed = {}
    <3>1. \A g \in Shed : <<"shed", g.target>> \in errors'
      BY DEF Finish
    <3> QED BY <2>2, <3>1
  <2>5. FailingResults' = FailingResults
    BY <1>1 DEF FailingResults
  <2>6. Silent' = Silent
    BY <1>1 DEF Silent, Declared, Seen
  <2>7. Shed' = Shed
    <3>1. Joined' = Joined
      BY <1>1 DEF Joined
    <3>2. \A run : Leaves(Document(run))' = Leaves(Document(run))
      BY <1>1, DeclarationsStay
    <3> QED BY <3>1, <3>2 DEF Shed
  <2> QED BY <2>2, <2>3, <2>4, <2>5, <2>6, <2>7
<1>5. Checked'
  BY DEF Finish, Checked
<1> QED BY <1>2, <1>3, <1>4, <1>5 DEF Inv

(* Inv holds in every state. *)
LEMMA Invariant == Spec => [](TypeOK /\ Inv)
<1>1. ASSUME TypeOK, Inv, Exited \/ UNCHANGED vars
      PROVE  Inv'
  <2>1. UNCHANGED vars
    BY <1>1 DEF Exited
  <2>2. \A k : Accounted(k)' = Accounted(k)
    <3>1. /\ \A t, run : DocumentErrors(t, run)' = DocumentErrors(t, run)
          /\ \A t, run : NormalReports(t, run)' = NormalReports(t, run)
      BY <2>1, DeclarationsStay DEF vars
    <3> QED BY <2>1, <3>1 DEF Accounted, vars
  <2>3. AllAccounted'
    BY <1>1, <2>1, <2>2 DEF Inv, AllAccounted, vars
  <2>4. Excuses' /\ Checked'
    BY <1>1, <2>1, DeclarationsStay DEF Inv, Excuses, Checked, vars
  <2>5. Judged'
    <3>1. \A run : Leaves(Document(run))' = Leaves(Document(run))
      BY <2>1, DeclarationsStay DEF vars
    <3>2. Joined' = Joined /\ Silent' = Silent /\ FailingResults' = FailingResults
      BY <2>1 DEF vars, Joined, Silent, FailingResults, Declared, Seen
    <3>3. Shed' = Shed
      BY <3>1, <3>2 DEF Shed
    <3> QED BY <1>1, <2>1, <3>2, <3>3 DEF Inv, Judged, vars
  <2> QED BY <2>3, <2>4, <2>5 DEF Inv
<1>2. TypeOK /\ Inv /\ [Next]_vars => Inv'
  BY <1>1, CheckInv, JoinInv, FinishInv DEF Next
<1> QED BY <1>2, TypeInit, TypeStep, InvInit, PTL DEF Spec

-----------------------------------------------------------------------------
(* What a green corpus means. *)

(* Without errors every document is the only one of its target, has no error,
   and its results are in the corpus. *)
LEMMA CleanDocuments ==
  ASSUME TypeOK, Inv, errors = {}, NEW k \in DOMAIN given
  PROVE  /\ given[k].target \in Targets /\ given[k].run \in Runs
         /\ \A j \in DOMAIN given : given[j].target = given[k].target => j = k
         /\ DocumentErrors(given[k].target, given[k].run) = {}
         /\ \A r \in NormalReports(given[k].target, given[k].run) :
              [target |-> given[k].target, case |-> r.case, status |-> r.status] \in results
<1>1. given \in Seq([target : Targets, run : Runs])
  BY DEF TypeOK
<1>2. given[k] \in [target : Targets, run : Runs]
  <2>1. \A S : given \in Seq(S) => \A j \in DOMAIN given : given[j] \in S
    OBVIOUS
  <2> QED BY <1>1, <2>1
<1>3. \A i, j \in DOMAIN given : i < j \/ j < i \/ i = j
  BY <1>1
<1>5. \A i, j \in DOMAIN given : given[i].target = given[j].target => ~(i < j)
  BY DEF Inv, AllAccounted, Accounted
<1>6. \A j \in DOMAIN given : given[j].target = given[k].target => j = k
  BY <1>3, <1>5
<1>7. Accounted(k)
  BY DEF Inv, AllAccounted
<1>8. ~\E j \in DOMAIN given : j < k /\ given[j].target = given[k].target
  BY <1>5
<1>9. /\ \A e \in DocumentErrors(given[k].target, given[k].run) : <<e, given[k].target>> \in errors
      /\ \A r \in NormalReports(given[k].target, given[k].run) :
           [target |-> given[k].target, case |-> r.case, status |-> r.status] \in results
  BY <1>7, <1>8 DEF Accounted
<1> QED BY <1>2, <1>6, <1>9

(* A document without an error. *)
LEMMA Faultless ==
  ASSUME NEW t, NEW run, run.runErrors \in BOOLEAN, run.whole \in BOOLEAN, DocumentErrors(t, run) = {}
  PROVE  /\ t \in Declared
         /\ run.whole /\ ~run.runErrors
         /\ Covers(lock, CaseNames(Document(run)))
         /\ \A r \in LastReports(Document(run)) : ~Drifts(t, run, r)
         /\ manifest.targets[t].expectedFail = ExpectedFail(t)
         /\ ExpectedFail(t) \intersect Comes(t, run, "pass") = {}
<1>1. "undeclared" \notin DocumentErrors(t, run) => t \in Declared
  BY DEF DocumentErrors, DocumentKinds
<1>2. "unterminated" \notin DocumentErrors(t, run) => run.whole
  BY DEF DocumentErrors, DocumentKinds
<1>3. "run error" \notin DocumentErrors(t, run) => ~run.runErrors
  BY DEF DocumentErrors, DocumentKinds
<1>4. "coverage" \notin DocumentErrors(t, run) => Covers(lock, CaseNames(Document(run)))
  BY DEF DocumentErrors, DocumentKinds
<1>5. "drift" \notin DocumentErrors(t, run) => \A r \in LastReports(Document(run)) : ~Drifts(t, run, r)
  BY DEF DocumentErrors, DocumentKinds
<1>6. "stale" \notin DocumentErrors(t, run) /\ t \in Declared =>
        manifest.targets[t].expectedFail = ExpectedFail(t)
  BY DEF DocumentErrors, DocumentKinds
<1>7. "unexpected pass" \notin DocumentErrors(t, run) =>
        ExpectedFail(t) \intersect Comes(t, run, "pass") = {}
  BY DEF DocumentErrors, DocumentKinds
<1> QED BY <1>1, <1>2, <1>3, <1>4, <1>5, <1>6, <1>7

(* Runs are typed. *)
LEMMA RunTyped ==
  ASSUME NEW run \in Runs
  PROVE  /\ run.runErrors \in BOOLEAN /\ run.whole \in BOOLEAN
         /\ run.words \in Seq(Words) /\ run.names \in Seq(Names)
BY AggregateAssumption DEF RunRecord

(* A document that covers the lockfile has a result for every case it lists,
   and every result that is not of an exact case is a row's leaf. *)
LEMMA CoversEveryCase ==
  ASSUME NEW run, Covers(lock, CaseNames(Document(run)))
  PROVE  /\ Listed \subseteq {Document(run)[i].case : i \in DOMAIN Document(run)}
         /\ \A i \in DOMAIN Document(run) :
              Document(run)[i].case \in ExactNames(lock) \/ Document(run)[i].case \in Leaves(Document(run))
<1> DEFINE doc == Document(run)
<1>1. DOMAIN CaseNames(doc) = DOMAIN doc /\ \A i \in DOMAIN doc : CaseNames(doc)[i] = doc[i].case
  BY DEF CaseNames
<1> HIDE DEF doc
<1>2. ExactNames(lock) \subseteq {CaseNames(doc)[i] : i \in DOMAIN CaseNames(doc)}
  BY DEF Covers, doc
<1>3. \A i \in LeafReports(lock, CaseNames(doc)) : PrefixOf(lock, CaseNames(doc)[i]) # {}
  BY DEF Covers, doc
<1>4. \A i \in DOMAIN doc : doc[i].case \in ExactNames(lock) \/ PrefixOf(lock, doc[i].case) # {}
  BY <1>1, <1>3 DEF LeafReports
<1>5. ExactNames(lock) \subseteq {doc[i].case : i \in DOMAIN doc}
  BY <1>1, <1>2
<1>7. ASSUME NEW g \in DOMAIN lock.generated, NEW leaf \in Enumerated(lock.generated[g])
      PROVE  leaf \in {doc[i].case : i \in DOMAIN doc}
  <2>1. lock.generated[g].cases # <<>>
    <3>1. PICK k \in DOMAIN lock.generated[g].cases : TRUE
      BY <1>7 DEF Enumerated
    <3>2. DOMAIN <<>> = {}
      OBVIOUS
    <3> QED BY <3>1, <3>2
  <2>2. leaf \in {CaseNames(doc)[k] : k \in {l \in LeafReports(lock, CaseNames(doc)) :
                                               g \in PrefixOf(lock, CaseNames(doc)[l])}}
    BY <1>7, <2>1 DEF Covers, doc
  <2> QED BY <1>1, <2>2 DEF LeafReports
<1>8. Listed \subseteq {doc[i].case : i \in DOMAIN doc}
  BY <1>5, <1>7 DEF Listed
<1>6. \A i \in DOMAIN doc : doc[i].case \in ExactNames(lock) \/ doc[i].case \in Leaves(doc)
  BY <1>4 DEF Leaves
<1> QED BY <1>6, <1>8 DEF doc

(* Every result of a green corpus is fine, and none is a declared failure
   that passed. *)
LEMMA GreenResults ==
  ASSUME TypeOK, Inv, mode = "green", NEW k \in DOMAIN given,
         NEW i \in DOMAIN Document(given[k].run)
  PROVE  LET t == given[k].target
             run == given[k].run
             r == Document(run)[i] IN
         /\ Fine(t, run, r)
         /\ r.case \in manifest.targets[t].expectedFail => r.status # "pass"
<1> DEFINE t == given[k].target
           run == given[k].run
           r == Document(run)[i]
<1>1. /\ t \in Targets /\ run \in Runs
      /\ DocumentErrors(t, run) = {}
      /\ \A n \in NormalReports(t, run) : [target |-> t, case |-> n.case, status |-> n.status] \in results
  BY CleanDocuments DEF Inv, Judged
<1>12. run.runErrors \in BOOLEAN /\ run.whole \in BOOLEAN
  BY <1>1, RunTyped
<1>2. /\ t \in Declared
      /\ run.whole /\ ~run.runErrors
      /\ Covers(lock, CaseNames(Document(run)))
      /\ manifest.targets[t].expectedFail = ExpectedFail(t)
      /\ ExpectedFail(t) \intersect Comes(t, run, "pass") = {}
  <2> HIDE DEF t, run, r
  <2> QED BY <1>1, <1>12, Faultless
<1>3. r \in LastReports(Document(run))
  BY <1>1, <1>2, CoveredReportsStay
<1>4. r.status \in Statuses \ {"not-reached"}
  BY <1>1, <1>2, DocumentTyped
<1> HIDE DEF r, t, run
<1>5. [case |-> r.case, status |-> Normal(t, run, r)] \in NormalReports(t, run)
  BY <1>3 DEF NormalReports
<1>6. [target |-> t, case |-> r.case, status |-> Normal(t, run, r)] \in results
  BY <1>1, <1>5
<1>7. Normal(t, run, r) = "fail" => r.case \in ExpectedFail(t)
  <2>1. FailingResults = {}
    BY DEF Inv, Judged
  <2>2. Normal(t, run, r) = "fail" => <<t, r.case>> \in excused
    BY <1>6, <2>1 DEF FailingResults
  <2>3. <<t, r.case>> \in excused => <<t, r.case>>[2] \in ExpectedFail(<<t, r.case>>[1])
    BY DEF Inv, Excuses
  <2> QED BY <2>2, <2>3
<1>8. Fine(t, run, r)
  BY <1>2, <1>4, <1>7 DEF Fine, Normal, Statuses
<1>9. ASSUME r.case \in manifest.targets[t].expectedFail, r.status = "pass"
      PROVE  FALSE
  <2>1. ~Excluded(r.case, Missing(t))
    BY <1>2, <1>9 DEF ExpectedFail
  <2>2. Normal(t, run, r) = "pass"
    BY <1>9, <2>1 DEF Normal
  <2>3. r.case \in Comes(t, run, "pass")
    BY <1>5, <2>2 DEF Comes
  <2> QED BY <1>2, <1>9, <2>3
<1> QED BY <1>8, <1>9 DEF r, t, run

(* A green aggregate has heard of every target it may not miss, from whole
   runs with a result for every case the lockfile lists, each of which came
   out well or failed as declared, whatever the lockfile, the manifest and the
   runs. *)
THEOREM GreenIsEarnedCorrect == Spec => []GreenIsEarned
<1>1. ASSUME TypeOK, Inv, mode = "green"
      PROVE  GreenIsEarned
  <2>1. \A t \in Declared : t \in Seen \/ manifest.targets[t].optional
    BY <1>1 DEF Inv, Judged, Silent
  <2>2. \A j, k \in DOMAIN given : given[j].target = given[k].target => j = k
    BY <1>1, CleanDocuments DEF Inv, Judged
  <2>3. ASSUME NEW k \in DOMAIN given
        PROVE  LET t == given[k].target
                   run == given[k].run
                   doc == Document(run) IN
               /\ t \in Declared
               /\ run.whole /\ ~run.runErrors
               /\ \A i \in DOMAIN doc : Fine(t, run, doc[i])
               /\ \A i \in DOMAIN doc :
                    doc[i].case \in manifest.targets[t].expectedFail => doc[i].status # "pass"
               /\ Listed \subseteq {doc[i].case : i \in DOMAIN doc}
    <3>1. /\ given[k].target \in Declared
          /\ given[k].run.whole /\ ~given[k].run.runErrors
          /\ Covers(lock, CaseNames(Document(given[k].run)))
      <4>1. /\ given[k].run \in Runs
            /\ DocumentErrors(given[k].target, given[k].run) = {}
        BY <1>1, CleanDocuments DEF Inv, Judged
      <4>2. given[k].run.runErrors \in BOOLEAN /\ given[k].run.whole \in BOOLEAN
        BY <4>1, RunTyped
      <4> QED BY <4>1, <4>2, Faultless
    <3>2. Listed \subseteq
            {Document(given[k].run)[i].case : i \in DOMAIN Document(given[k].run)}
      BY <3>1, CoversEveryCase
    <3>3. \A i \in DOMAIN Document(given[k].run) :
            /\ Fine(given[k].target, given[k].run, Document(given[k].run)[i])
            /\ Document(given[k].run)[i].case \in manifest.targets[given[k].target].expectedFail =>
                 Document(given[k].run)[i].status # "pass"
      BY <1>1, GreenResults
    <3> QED BY <3>1, <3>2, <3>3
  <2> QED BY <2>1, <2>2, <2>3 DEF GreenIsEarned
<1>2. TypeOK /\ Inv => GreenIsEarned
  BY <1>1 DEF GreenIsEarned
<1> QED BY <1>2, Invariant, PTL

(* When no row was shed and there are no errors, what one target reports every
   other one does. *)
LEMMA SameCases ==
  ASSUME TypeOK, Inv, errors = {}, Shed = {}, NEW j \in DOMAIN given, NEW k \in DOMAIN given,
         NEW r \in LastReports(Document(given[j].run))
  PROVE  \E l \in LastReports(Document(given[k].run)) : l.case = r.case
<1>1. /\ given[j].run \in Runs /\ given[k].run \in Runs
      /\ Covers(lock, CaseNames(Document(given[j].run)))
      /\ Covers(lock, CaseNames(Document(given[k].run)))
  <2>1. ASSUME NEW i \in DOMAIN given
        PROVE  given[i].run \in Runs /\ Covers(lock, CaseNames(Document(given[i].run)))
    <3>1. /\ given[i].run \in Runs
          /\ DocumentErrors(given[i].target, given[i].run) = {}
      BY CleanDocuments
    <3>2. given[i].run.runErrors \in BOOLEAN /\ given[i].run.whole \in BOOLEAN
      BY <3>1, RunTyped
    <3> QED BY <3>1, <3>2, Faultless
  <2> QED BY <2>1
<1>2. PICK i \in DOMAIN Document(given[j].run) : r = Document(given[j].run)[i]
  BY DEF LastReports
<1>3. given[j] \in Joined /\ given[k] \in Joined
  <2>1. given \in Seq([target : Targets, run : Runs])
    BY DEF TypeOK
  <2>2. \A m \in DOMAIN given : \A l \in 1..(m - 1) : l \in DOMAIN given /\ l # m
    BY <2>1
  <2>3. \A m, l \in DOMAIN given : given[m].target = given[l].target => m = l
    BY CleanDocuments
  <2> QED BY <2>2, <2>3 DEF Joined
<1>4. Leaves(Document(given[j].run)) \subseteq Leaves(Document(given[k].run))
  BY <1>3 DEF Shed
<1>5. r.case \in ExactNames(lock) \/ r.case \in Leaves(Document(given[j].run))
  BY <1>1, <1>2, CoversEveryCase
<1>6. r.case \in {Document(given[k].run)[m].case : m \in DOMAIN Document(given[k].run)}
  <2>1. Leaves(Document(given[k].run)) \subseteq
          {Document(given[k].run)[m].case : m \in DOMAIN Document(given[k].run)}
    BY DEF Leaves
  <2>2. ExactNames(lock) \subseteq
          {Document(given[k].run)[m].case : m \in DOMAIN Document(given[k].run)}
    BY <1>1, CoversEveryCase DEF Listed
  <2> QED BY <1>4, <1>5, <2>1, <2>2
<1>7. PICK m \in DOMAIN Document(given[k].run) : Document(given[k].run)[m].case = r.case
  BY <1>6
<1>8. Document(given[k].run)[m] \in LastReports(Document(given[k].run))
  BY <1>1, <1>7, CoveredReportsStay
<1> QED BY <1>7, <1>8

(* The targets of a green corpus report the very same cases: no target can
   shed rows of the suite unnoticed, for any number of targets. *)
THEOREM SameCensusCorrect == Spec => []SameCensus
<1>1. TypeOK /\ Inv => SameCensus
  <2>1. SUFFICES ASSUME TypeOK, Inv, mode = "green", NEW j \in DOMAIN given, NEW k \in DOMAIN given
                 PROVE  {r.case : r \in LastReports(Document(given[j].run))}
                          \subseteq {r.case : r \in LastReports(Document(given[k].run))}
    BY DEF SameCensus
  <2>2. errors = {} /\ Shed = {}
    BY <2>1 DEF Inv, Judged
  <2>3. \A r \in LastReports(Document(given[j].run)) :
          \E l \in LastReports(Document(given[k].run)) : l.case = r.case
    BY <2>1, <2>2, SameCases
  <2> QED BY <2>3
<1> QED BY <1>1, Invariant, PTL

-----------------------------------------------------------------------------
(* Runner parity. *)

(* What is known of the first document of a target. *)
LEMMA JoinedAccounted ==
  ASSUME TypeOK, Inv, NEW g \in Joined
  PROVE  /\ g.target \in Targets /\ g.run \in Runs
         /\ \A e \in DocumentErrors(g.target, g.run) : <<e, g.target>> \in errors
         /\ \A r \in NormalReports(g.target, g.run) :
              [target |-> g.target, case |-> r.case, status |-> r.status] \in results
<1>1. PICK k \in DOMAIN given :
        g = given[k] /\ \A j \in 1..(k - 1) : given[j].target # given[k].target
  BY DEF Joined
<1>2. given \in Seq([target : Targets, run : Runs])
  BY DEF TypeOK
<1>3. \A S : given \in Seq(S) => \A j \in DOMAIN given : given[j] \in S
  OBVIOUS
<1>4. g \in [target : Targets, run : Runs]
  BY <1>1, <1>2, <1>3
<1>5. ~\E j \in DOMAIN given : j < k /\ given[j].target = given[k].target
  <2>1. \A j \in DOMAIN given : j < k => j \in 1..(k - 1)
    BY <1>2
  <2> QED BY <1>1, <2>1
<1>6. Accounted(k)
  BY DEF Inv, AllAccounted
<1> QED BY <1>1, <1>4, <1>5, <1>6 DEF Accounted

(* A result the consumer reads, of a case that the run reports once, is the
   one its document keeps for the case. *)
LEMMA ToldReportStays ==
  ASSUME TypeOK, NEW run \in Runs, NEW k \in DOMAIN run.words, run.words[k] # "renamed",
         \A i, j \in DOMAIN run.words : run.names[i] = run.names[j] => i = j
  PROVE  [case |-> run.names[k], status |-> Said(run, k)] \in LastReports(Document(run))
<1>1. k \in Told(run)
  BY DEF Told, Said
<1>2. Document(run)[k] = [case |-> run.names[k], status |-> Said(run, k)]
  BY <1>1 DEF Document
<1>3. k \in DOMAIN Document(run)
  BY <1>1 DEF Document
<1>4. ASSUME NEW j \in DOMAIN Document(run), Document(run)[j].case = run.names[k]
      PROVE  j = k
  <2>1. j \in Told(run) \union OpenAt(run)
    BY <1>4 DEF Document
  <2>2. CASE j \in DOMAIN run.words
    <3>1. Document(run)[j].case = run.names[j]
      BY <2>1, <2>2 DEF Document
    <3> QED BY <1>4, <2>2, <3>1
  <2>3. CASE j \notin DOMAIN run.words
    <3>1. j \in OpenAt(run)
      BY <2>1, <2>3 DEF Told
    <3>2. PICK o \in DOMAIN lock.case :
            /\ j = Len(run.words) + o
            /\ \A i \in DOMAIN run.words : run.names[i] # lock.case[o].name
      BY <3>1 DEF OpenAt
    <3>3. run.words \in Seq(Words) /\ lock.case \in Seq(CaseEntry)
      BY AggregateAssumption, RunTyped DEF TypeOK
    <3>4. j - Len(run.words) = o
      BY <3>2, <3>3
    <3>5. Document(run)[j].case = lock.case[o].name
      BY <2>1, <2>3, <3>4 DEF Document
    <3> QED BY <1>4, <3>2, <3>5
  <2> QED BY <2>2, <2>3
<1>5. k \in Nat
  BY RunTyped
<1>6. \A j \in DOMAIN Document(run) : Document(run)[j].case = Document(run)[k].case => j <= k
  BY <1>2, <1>4, <1>5
<1> QED BY <1>2, <1>3, <1>6 DEF LastReports

(* What the corpus makes of a case does not depend on who leaves out what the
   target cannot run, unless the corpus says that they disagree. *)
LEMMA NormalIsParity ==
  ASSUME NEW t \in Declared, NEW run \in Runs, NEW k \in DOMAIN run.words,
         run.words[k] # "renamed",
         run.scheduled => ~Drifts(t, run, [case |-> run.names[k], status |-> Said(run, k)])
  PROVE  Normal(t, run, [case |-> run.names[k], status |-> Said(run, k)])
           = IF Excluded(run.names[k], Missing(t)) THEN "not-applicable" ELSE run.words[k]
<1> DEFINE name == run.names[k]
           r == [case |-> name, status |-> Said(run, k)]
<1>1. run.words[k] \in Words
  <2>1. run.words \in Seq(Words)
    BY RunTyped
  <2> QED BY <2>1
<1>2. run.words[k] \notin {"not-applicable", "not-reached"}
  BY <1>1 DEF Words
<1>3. CASE ~run.scheduled
  <2>1. Said(run, k) = run.words[k]
    BY <1>3 DEF Said
  <2> QED BY <1>2, <1>3, <2>1 DEF Normal
<1>4. CASE run.scheduled /\ Excluded(name, Missing(t))
  <2>1. r.status \in {"not-applicable", "not-reached"}
    BY <1>4 DEF Drifts
  <2>2. Said(run, k) = "not-applicable"
    BY <1>2, <2>1 DEF Said
  <2> QED BY <1>4, <2>2 DEF Normal
<1>5. CASE run.scheduled /\ ~Excluded(name, Missing(t))
  <2>1. TagsFor(name) = {} \/ r.status # "not-applicable"
    BY <1>5 DEF Drifts
  <2>2. Excluded(name, run.served) => TagsFor(name) # {}
    BY DEF Excluded
  <2>3. Said(run, k) = run.words[k]
    BY <2>1, <2>2 DEF Said
  <2> QED BY <1>5, <2>3 DEF Normal
<1> QED BY <1>3, <1>4, <1>5

(* "Downstream sees runner parity", for any number of documents. *)
THEOREM RunnerParityCorrect == Spec => []RunnerParity
<1>1. ASSUME TypeOK, Inv, NEW g \in Joined, NEW k \in DOMAIN g.run.words,
             g.target \in Declared,
             g.run.scheduled => mode = "green",
             g.run.words[k] # "renamed",
             \A i, j \in DOMAIN g.run.words : g.run.names[i] = g.run.names[j] => i = j
      PROVE  [target |-> g.target, case |-> g.run.names[k],
              status |-> IF Excluded(g.run.names[k], Missing(g.target))
                         THEN "not-applicable" ELSE g.run.words[k]] \in results
  <2> DEFINE t == g.target
             run == g.run
             r == [case |-> run.names[k], status |-> Said(run, k)]
  <2>1. /\ t \in Targets /\ run \in Runs
        /\ \A e \in DocumentErrors(t, run) : <<e, t>> \in errors
        /\ \A n \in NormalReports(t, run) : [target |-> t, case |-> n.case, status |-> n.status] \in results
    BY <1>1, JoinedAccounted
  <2>2. r \in LastReports(Document(run))
    BY <1>1, <2>1, ToldReportStays
  <2> HIDE DEF t, run
  <2>3. mode = "green" => ~Drifts(t, run, r)
    <3>1. mode = "green" => DocumentErrors(t, run) = {}
      BY <1>1, <2>1 DEF Inv, Judged
    <3>2. run.runErrors \in BOOLEAN /\ run.whole \in BOOLEAN
      BY <2>1, RunTyped
    <3> QED BY <2>2, <3>1, <3>2, Faultless
  <2>4. Normal(t, run, r)
          = IF Excluded(run.names[k], Missing(t)) THEN "not-applicable" ELSE run.words[k]
    BY <1>1, <2>1, <2>3, NormalIsParity DEF t, run
  <2>5. [case |-> r.case, status |-> Normal(t, run, r)] \in NormalReports(t, run)
    BY <2>2 DEF NormalReports
  <2>6. [target |-> t, case |-> r.case, status |-> Normal(t, run, r)] \in results
    BY <2>1, <2>5
  <2> QED BY <2>4, <2>6 DEF t, run
<1>2. TypeOK /\ Inv => RunnerParity
  BY <1>1 DEF RunnerParity
<1> QED BY <1>2, Invariant, PTL

-----------------------------------------------------------------------------
(* The page. *)

(* A set of numbers has a least one. *)
LEMMA LeastNumber ==
  ASSUME NEW S, S \subseteq Nat, S # {}
  PROVE  \E n \in S : \A m \in S : ~(m < n)
<1> DEFINE Less == OpToRel(<, Nat)
<1>1. \A m, n \in Nat : m < n => <<m, n>> \in Less
  BY DEF OpToRel
<1>2. \E n \in S : \A m \in S : ~(<<m, n>> \in Less)
  BY NatLessThanWellFounded, WFMin DEF Less
<1> HIDE DEF Less
<1> QED BY <1>1, <1>2

(* SumFunction by its definition: elements are taken off the domain one by
   one. *)
LEMMA SumUnfolds ==
  ASSUME NEW f
  PROVE  SumFunction(f) =
           (CHOOSE g : g = [s \in SUBSET (DOMAIN f) |->
              IF s = {} THEN 0
              ELSE f[CHOOSE x \in s : TRUE] + g[s \ {CHOOSE x \in s : TRUE}]])[DOMAIN f]
BY DEF SumFunction, SumFunctionOnSet, FoldFunctionOnSet, MapThenFoldSet

(* The numbers of a finite set's elements that a function maps to each of its
   values add up to the number of all elements. *)
LEMMA CountsAddUp ==
  ASSUME NEW R, IsFiniteSet(R), NEW V, NEW w \in [R -> V]
  PROVE  SumFunction([v \in {w[r] : r \in R} |-> Cardinality({r \in R : w[r] = v})]) = Cardinality(R)
<1> DEFINE W == {w[r] : r \in R}
           f == [v \in W |-> Cardinality({r \in R : w[r] = v})]
           Pick(s) == CHOOSE x \in s : TRUE
           Of(s) == {r \in R : w[r] \in s}
           Step(g) == [s \in SUBSET W |-> IF s = {} THEN 0 ELSE f[Pick(s)] + g[s \ {Pick(s)}]]
           c == [s \in SUBSET W |-> Cardinality(Of(s))]
           it == CHOOSE g : g = Step(g)
<1>0. IsFiniteSet(W)
  <2>1. w \in Surjection(R, W)
    BY DEF Surjection
  <2> QED BY <2>1, FS_Surjection
<1>1. SumFunction(f) = it[W]
  <2>1. DOMAIN f = W
    OBVIOUS
  <2> HIDE DEF f, W
  <2> QED BY <2>1, SumUnfolds
<1>2. \A s \in SUBSET W : IsFiniteSet(Of(s)) /\ Cardinality(Of(s)) \in Nat
  BY FS_Subset, FS_CardinalityType
<1>3. ASSUME NEW s \in SUBSET W, s # {}
      PROVE  /\ Pick(s) \in s
             /\ Cardinality(Of(s)) = f[Pick(s)] + Cardinality(Of(s \ {Pick(s)}))
  <2>1. Pick(s) \in s
    BY <1>3
  <2> DEFINE x == Pick(s)
  <2>2. /\ f[x] = Cardinality({r \in R : w[r] = x})
        /\ IsFiniteSet({r \in R : w[r] = x})
    BY <2>1, FS_Subset
  <2>3. /\ Of(s) = {r \in R : w[r] = x} \union Of(s \ {x})
        /\ {r \in R : w[r] = x} \intersect Of(s \ {x}) = {}
    BY <2>1
  <2>4. IsFiniteSet(Of(s \ {x})) /\ Cardinality({}) = 0 /\ Cardinality(Of(s \ {x})) \in Nat
    BY <1>2, FS_EmptySet
  <2>5. Cardinality({r \in R : w[r] = x}) \in Nat
    BY <2>2, FS_CardinalityType
  <2> DEFINE A == {r \in R : w[r] = x}
             B == Of(s \ {x})
  <2> HIDE DEF Of, f, x, A, B
  <2>6. Cardinality(Of(s)) = Cardinality({r \in R : w[r] = x}) + Cardinality(Of(s \ {x})) - Cardinality({})
    <3>1. IsFiniteSet(A) /\ IsFiniteSet(B) /\ A \intersect B = {} /\ Of(s) = A \union B
      BY <2>2, <2>3, <2>4 DEF A, B
    <3>2. Cardinality(A \union B) = Cardinality(A) + Cardinality(B) - Cardinality(A \intersect B)
      BY <3>1, FS_Union
    <3> QED BY <3>1, <3>2 DEF A, B
  <2>7. Cardinality(Of(s)) = f[x] + Cardinality(Of(s \ {x}))
    BY <2>2, <2>4, <2>5, <2>6
  <2> QED BY <2>1, <2>7 DEF x
<1>4. c = Step(c)
  <2>1. Of({}) = {} /\ Cardinality({}) = 0
    BY FS_EmptySet
  <2>2. ASSUME NEW s \in SUBSET W
        PROVE  c[s] = (IF s = {} THEN 0 ELSE f[Pick(s)] + c[s \ {Pick(s)}])
    <3>1. s \ {Pick(s)} \in SUBSET W /\ c[s] = Cardinality(Of(s))
      OBVIOUS
    <3>2. c[s \ {Pick(s)}] = Cardinality(Of(s \ {Pick(s)}))
      BY <3>1
    <3> HIDE DEF c, f, Pick, Of
    <3> QED BY <1>3, <2>1, <3>1, <3>2
  <2> HIDE DEF f, Pick, Of
  <2> QED BY <2>2
<1>5. it = Step(it)
  <2> HIDE DEF Step, c
  <2> QED BY <1>4
<1>6. ASSUME NEW n \in Nat, NEW s \in SUBSET W, Cardinality(s) = n, it[s] # c[s]
      PROVE  \E m \in Nat : m < n /\ \E z \in SUBSET W : Cardinality(z) = m /\ it[z] # c[z]
  <2> DEFINE z == s \ {Pick(s)}
  <2>1. s # {}
    BY <1>4, <1>5, <1>6
  <2>2. Pick(s) \in s
    BY <2>1
  <2>3. IsFiniteSet(s)
    BY <1>0, FS_Subset
  <2>4. Cardinality(z) = n - 1 /\ n \in Nat /\ Cardinality(z) \in Nat
    BY <1>6, <2>2, <2>3, FS_RemoveElement, FS_CardinalityType
  <2>5. it[z] # c[z]
    <3>1. it[s] = f[Pick(s)] + it[z]
      BY <1>5, <2>1
    <3>2. c[s] = f[Pick(s)] + c[z]
      BY <1>4, <2>1
    <3> HIDE DEF it, c, f, z
    <3> QED BY <1>6, <3>1, <3>2
  <2> HIDE DEF z
  <2>6. z \in SUBSET W
    BY DEF z
  <2> HIDE DEF z, it, c, W
  <2>7. Cardinality(z) < n
    BY <2>4
  <2> QED BY <2>4, <2>5, <2>6, <2>7
<1> DEFINE Bad == {n \in Nat : \E s \in SUBSET W : Cardinality(s) = n /\ it[s] # c[s]}
<1>7. Bad = {}
  <2>1. SUFFICES ASSUME Bad # {} PROVE FALSE
    OBVIOUS
  <2> HIDE DEF it, c, W
  <2>3. Bad \subseteq Nat
    OBVIOUS
  <2> HIDE DEF Bad
  <2>4. PICK n \in Bad : \A m \in Bad : ~(m < n)
    BY <2>1, <2>3, LeastNumber
  <2>5. \E m \in Nat : m < n /\ m \in Bad
    BY <1>6 DEF Bad
  <2> QED BY <2>3, <2>4, <2>5
<1>8. it[W] = c[W]
  <2>2. Cardinality(W) \in Nat
    BY <1>0, FS_CardinalityType
  <2> HIDE DEF it, c, W
  <2> QED BY <1>7, <2>2
<1>9. Of(W) = R
  OBVIOUS
<1> QED BY <1>1, <1>8, <1>9

(* Every result comes from a document. *)
Origins ==
  \A r \in results : \E k \in DOMAIN given :
    /\ given[k].target = r.target
    /\ [case |-> r.case, status |-> r.status] \in NormalReports(r.target, given[k].run)

(* A result that has no column is an error. *)
Strangers == \A r \in results : r.target \in Declared \/ <<"undeclared", r.target>> \in errors

(* The verdict is no more and no less than the errors and the failures. *)
Verdict ==
  mode \in {"green", "red"} =>
    /\ mode = "green" <=> (errors = {} /\ FailingResults = {})
    /\ errors = {} => Shed = {}

PageInv == Origins /\ Strangers /\ Verdict /\ IsFiniteSet(results)

(* A document has finitely many results. *)
LEMMA FewReports ==
  ASSUME TypeOK, NEW t, NEW run \in Runs
  PROVE  IsFiniteSet({[target |-> t, case |-> r.case, status |-> r.status] : r \in NormalReports(t, run)})
<1> DEFINE doc == Document(run)
           report(k) == [target |-> t, case |-> doc[k].case, status |-> Normal(t, run, doc[k])]
           places == DOMAIN doc
           told == [k \in places |-> report(k)]
           all == {told[k] : k \in places}
<1>1. IsFiniteSet(places)
  <2>1. run.words \in Seq(Words) /\ lock.case \in Seq(CaseEntry)
    BY RunTyped, AggregateAssumption DEF TypeOK
  <2>2. PICK m \in Nat, n \in Nat : m = Len(run.words) /\ n = Len(lock.case)
    BY <2>1
  <2>3. DOMAIN run.words = 1..m /\ DOMAIN lock.case = 1..n
    BY <2>1, <2>2
  <2>4. Told(run) \subseteq 1..(m + n)
    <3>1. 1..m \subseteq 1..(m + n)
      OBVIOUS
    <3> QED BY <2>3, <3>1 DEF Told
  <2>5. OpenAt(run) \subseteq 1..(m + n)
    <3>1. \A o \in 1..n : m + o \in 1..(m + n)
      OBVIOUS
    <3> QED BY <2>2, <2>3, <3>1 DEF OpenAt
  <2>6. IsFiniteSet(1..(m + n))
    BY FS_Interval
  <2>7. places \subseteq 1..(m + n)
    BY <2>4, <2>5 DEF Document
  <2> HIDE DEF places
  <2> QED BY <2>6, <2>7, FS_Subset
<1>2. told \in Surjection(places, all)
  BY DEF Surjection
<1>3. IsFiniteSet(all)
  BY <1>1, <1>2, FS_Surjection
<1>4. {[target |-> t, case |-> r.case, status |-> r.status] : r \in NormalReports(t, run)} \subseteq all
  <2>1. ASSUME NEW r \in NormalReports(t, run)
        PROVE  [target |-> t, case |-> r.case, status |-> r.status] \in all
    <3>1. PICK l \in LastReports(doc) : r = [case |-> l.case, status |-> Normal(t, run, l)]
      BY DEF NormalReports
    <3>2. PICK k \in places : l = doc[k]
      BY DEF LastReports
    <3>3. [target |-> t, case |-> r.case, status |-> r.status] = told[k]
      BY <3>1, <3>2
    <3> QED BY <3>3
  <2> HIDE DEF all
  <2> QED BY <2>1
<1> QED BY <1>3, <1>4, FS_Subset

(* A document that is joined brings results of its own target only. *)
LEMMA JoinPage ==
  ASSUME TypeOK, PageInv, Join
  PROVE  PageInv'
<1>1. PICK t \in Targets, run \in Runs :
        /\ given' = Append(given, [target |-> t, run |-> run])
        /\ IF t \in Seen
           THEN /\ errors' = errors \union {<<"multiple", t>>}
                /\ UNCHANGED <<results, excused>>
           ELSE /\ errors' = errors \union {<<e, t>> : e \in DocumentErrors(t, run)}
                /\ results' = results \union
                     {[target |-> t, case |-> r.case, status |-> r.status] : r \in NormalReports(t, run)}
                /\ excused' = excused \union
                     {<<t, c>> : c \in ExpectedFail(t) \intersect Comes(t, run, "fail")}
  BY DEF Join
<1> DEFINE new == {[target |-> t, case |-> r.case, status |-> r.status] : r \in NormalReports(t, run)}
<1>2. UNCHANGED <<lock, manifest, mode>> /\ mode = "joining"
  BY DEF Join
<1>3. /\ \A k \in DOMAIN given : k \in DOMAIN given' /\ given'[k] = given[k]
      /\ \E n \in DOMAIN given' : given'[n] = [target |-> t, run |-> run]
  <2>1. given \in Seq([target : Targets, run : Runs])
    BY DEF TypeOK
  <2>2. Len(given) + 1 \in DOMAIN given' /\ given'[Len(given) + 1] = [target |-> t, run |-> run]
    BY <1>1, <2>1
  <2> QED BY <1>1, <2>1, <2>2
<1>4. /\ errors \subseteq errors'
      /\ \A r \in results' : r \in results \/ (t \notin Seen /\ r \in new)
  BY <1>1
<1>5. \A a, b : NormalReports(a, b)' = NormalReports(a, b)
  BY <1>2, DeclarationsStay
<1>11. Declared' = Declared
  BY <1>2 DEF Declared
<1>6. \A r \in new : /\ r.target = t
                      /\ [case |-> r.case, status |-> r.status] \in NormalReports(t, run)
  <2>1. \A r \in NormalReports(t, run) : [case |-> r.case, status |-> r.status] = r
    BY DEF NormalReports
  <2> QED BY <2>1
<1>7. Origins'
  <2>1. ASSUME NEW r \in results'
        PROVE  \E k \in DOMAIN given' :
                 /\ given'[k].target = r.target
                 /\ [case |-> r.case, status |-> r.status] \in NormalReports(r.target, given'[k].run)
    <3>1. CASE r \in results
      <4>1. PICK k \in DOMAIN given :
              /\ given[k].target = r.target
              /\ [case |-> r.case, status |-> r.status] \in NormalReports(r.target, given[k].run)
        BY <3>1 DEF PageInv, Origins
      <4> QED BY <1>3, <4>1
    <3>2. CASE r \in new
      <4> HIDE DEF new
      <4> QED BY <1>3, <1>6, <3>2
    <3> QED BY <1>4, <2>1, <3>1, <3>2
  <2> QED BY <1>5, <2>1 DEF Origins
<1>8. Strangers'
  <2>1. ASSUME NEW r \in new, t \notin Seen
        PROVE  t \in Declared \/ <<"undeclared", t>> \in errors'
    <3>1. t \notin Declared => "undeclared" \in DocumentErrors(t, run)
      BY DEF DocumentErrors, DocumentKinds
    <3>2. errors' = errors \union {<<e, t>> : e \in DocumentErrors(t, run)}
      BY <1>1, <2>1
    <3> QED BY <3>1, <3>2
  <2> HIDE DEF new
  <2>2. ASSUME NEW r \in results'
        PROVE  r.target \in Declared \/ <<"undeclared", r.target>> \in errors'
    <3>1. CASE r \in results
      BY <1>4, <3>1 DEF PageInv, Strangers
    <3>2. CASE t \notin Seen /\ r \in new
      BY <1>6, <2>1, <3>2
    <3> QED BY <1>4, <3>1, <3>2
  <2> QED BY <1>11, <2>2 DEF Strangers
<1>9. Verdict'
  BY <1>2 DEF Verdict
<1>10. IsFiniteSet(results')
  <2>1. IsFiniteSet(new)
    BY FewReports
  <2>2. results' = results \/ results' = results \union new
    BY <1>1
  <2> HIDE DEF new
  <2> QED BY <2>1, <2>2, FS_Union DEF PageInv
<1> QED BY <1>7, <1>8, <1>9, <1>10 DEF PageInv

(* The verdict. *)
LEMMA FinishPage ==
  ASSUME TypeOK, PageInv, Finish
  PROVE  PageInv'
<1>1. UNCHANGED <<lock, manifest, given, results, excused>> /\ errors \subseteq errors'
  BY DEF Finish
<1>2. \A a, b : NormalReports(a, b)' = NormalReports(a, b)
  BY <1>1, DeclarationsStay
<1>3. Origins'
  <2>1. \A r \in results' : \E k \in DOMAIN given' :
          /\ given'[k].target = r.target
          /\ [case |-> r.case, status |-> r.status] \in NormalReports(r.target, given'[k].run)
    BY <1>1 DEF PageInv, Origins
  <2> QED BY <1>2, <2>1 DEF Origins
<1>4. Strangers'
  <2>1. Declared' = Declared
    BY <1>1 DEF Declared
  <2>2. \A r \in results' : r.target \in Declared \/ <<"undeclared", r.target>> \in errors'
    BY <1>1 DEF PageInv, Strangers
  <2> QED BY <2>1, <2>2 DEF Strangers
<1>5. Verdict'
  <2>1. FailingResults' = FailingResults
    BY <1>1 DEF FailingResults
  <2>2. mode' = "green" <=> (errors' = {} /\ FailingResults = {})
    BY DEF Finish
  <2>3. ASSUME errors' = {}
        PROVE  Shed' = {}
    <3>1. \A g \in Shed : <<"shed", g.target>> \in errors'
      BY DEF Finish
    <3>2. Shed' = Shed
      <4>1. Joined' = Joined
        BY <1>1 DEF Joined
      <4>2. \A run : Leaves(Document(run))' = Leaves(Document(run))
        BY <1>1, DeclarationsStay
      <4> QED BY <4>1, <4>2 DEF Shed
    <3> QED BY <2>3, <3>1, <3>2
  <2> QED BY <2>1, <2>2, <2>3 DEF Verdict
<1> QED BY <1>1, <1>3, <1>4, <1>5 DEF PageInv

(* PageInv holds in every state. *)
LEMMA PageInvariant == Spec => []PageInv
<1>1. Init => PageInv
  BY FS_EmptySet DEF Init, PageInv, Origins, Strangers, Verdict
<1>2. ASSUME TypeOK, Inv, PageInv, CheckDeclarations
      PROVE  PageInv'
  <2>1. /\ given' = <<>> /\ given = <<>> /\ UNCHANGED <<lock, manifest, results>>
        /\ mode' \in {"joining", "panicked"}
    <3>1. mode = "checking" /\ given = <<>> /\ UNCHANGED <<lock, manifest, given, results>>
      BY <1>2 DEF CheckDeclarations, Inv, Checked
    <3>2. mode' = "joining" \/ mode' = "panicked"
      BY <1>2 DEF CheckDeclarations
    <3> QED BY <3>1, <3>2
  <2>2. results = {}
    BY <1>2, <2>1 DEF PageInv, Origins
  <2> QED BY <1>2, <2>1, <2>2 DEF PageInv, Origins, Strangers, Verdict
<1>3. ASSUME PageInv, Exited \/ UNCHANGED vars
      PROVE  PageInv'
  <2>1. UNCHANGED vars
    BY <1>3 DEF Exited
  <2>2. /\ \A a, b : NormalReports(a, b)' = NormalReports(a, b)
        /\ \A run : Leaves(Document(run))' = Leaves(Document(run))
    BY <2>1, DeclarationsStay DEF vars
  <2>3. Joined' = Joined /\ FailingResults' = FailingResults /\ Declared' = Declared
    BY <2>1 DEF vars, Joined, FailingResults, Declared
  <2>4. Shed' = Shed
    BY <2>2, <2>3 DEF Shed
  <2>5. Origins'
    <3>1. \A r \in results' : \E k \in DOMAIN given' :
            /\ given'[k].target = r.target
            /\ [case |-> r.case, status |-> r.status] \in NormalReports(r.target, given'[k].run)
      BY <1>3, <2>1 DEF PageInv, Origins, vars
    <3> QED BY <2>2, <3>1 DEF Origins
  <2> QED BY <1>3, <2>1, <2>3, <2>4, <2>5 DEF PageInv, Strangers, Verdict, vars
<1>4. TypeOK /\ Inv /\ PageInv /\ [Next]_vars => PageInv'
  BY <1>2, <1>3, JoinPage, FinishPage DEF Next
<1> QED BY <1>1, <1>4, Invariant, PTL DEF Spec

(* What is written in a quiet word is no failure, and what is no failure and
   no unexpected pass is written in one. *)
LEMMA QuietWords ==
  ASSUME NEW r \in results, r.status \in Statuses
  PROVE  /\ CellWord(r) \in Quiet => r \notin FailingResults
         /\ (r \notin FailingResults /\ ~(r.status = "pass" /\ r.case \in ExpectedFail(r.target)))
              => CellWord(r) \in Quiet
<1>1. CASE <<r.target, r.case>> \in excused
  <2>1. CellWord(r) = "xfail"
    BY <1>1 DEF CellWord
  <2> QED BY <1>1, <2>1 DEF FailingResults, Quiet
<1>2. CASE <<r.target, r.case>> \notin excused /\ r.status = "pass" /\ r.case \in ExpectedFail(r.target)
  BY <1>2 DEF FailingResults
<1>3. CASE <<r.target, r.case>> \notin excused /\ ~(r.status = "pass" /\ r.case \in ExpectedFail(r.target))
  <2>1. CellWord(r) = Word(r.status)
    BY <1>3 DEF CellWord
  <2>2. CASE r.status \in {"fail", "not-reached"}
    <3>1. CellWord(r) \notin Quiet
      BY <2>1, <2>2 DEF Word, Quiet, Statuses
    <3>2. r \in FailingResults
      BY <1>3, <2>2 DEF FailingResults
    <3> QED BY <3>1, <3>2
  <2>3. CASE r.status \notin {"fail", "not-reached"}
    <3>1. CellWord(r) \in Quiet
      BY <2>1, <2>3 DEF Word, Quiet
    <3>2. r \notin FailingResults
      BY <2>3 DEF FailingResults
    <3> QED BY <3>1, <3>2
  <2> QED BY <2>2, <2>3
<1> QED BY <1>1, <1>2, <1>3

(* A cell with one word stands for every case of its row, if nothing is wrong
   with the documents. *)
LEMMA UniformSpeaksForAll ==
  ASSUME TypeOK, Inv, PageInv, errors = {}, Shed = {}, NEW t, NEW g, Uniform(t, g)
  PROVE  Members(g) = {r.case : r \in ResultsIn(t, g)}
<1>1. {r.case : r \in ResultsIn(t, g)} \subseteq Members(g)
  BY DEF ResultsIn, Members, Cases
<1>2. ASSUME NEW c \in Members(g)
      PROVE  c \in {r.case : r \in ResultsIn(t, g)}
  <2>1. PICK r \in results : r.case = c /\ TopGroup(c) = g
    BY DEF Members, Cases
  <2>2. PICK s \in results : s.target = t
    <3>1. ResultsIn(t, g) # {}
      <4>1. CellWords(t, g) # {}
        BY FS_EmptySet DEF Uniform
      <4> QED BY <4>1 DEF CellWords
    <3> QED BY <3>1 DEF ResultsIn
  <2>3. PICK j \in DOMAIN given : [case |-> r.case, status |-> r.status] \in NormalReports(r.target, given[j].run)
    BY DEF PageInv, Origins
  <2>4. PICK k \in DOMAIN given : given[k].target = t
    BY <2>2 DEF PageInv, Origins
  <2>5. PICK l \in LastReports(Document(given[j].run)) : l.case = c
    BY <2>1, <2>3 DEF NormalReports
  <2>6. PICK m \in LastReports(Document(given[k].run)) : m.case = c
    BY <2>5, SameCases
  <2>7. [case |-> c, status |-> Normal(t, given[k].run, m)] \in NormalReports(t, given[k].run)
    BY <2>6 DEF NormalReports
  <2>8. \A n \in NormalReports(given[k].target, given[k].run) :
          [target |-> given[k].target, case |-> n.case, status |-> n.status] \in results
    BY CleanDocuments
  <2>9. [target |-> t, case |-> c, status |-> Normal(t, given[k].run, m)] \in results
    BY <2>4, <2>7, <2>8
  <2> QED BY <2>1, <2>9 DEF ResultsIn
<1> QED BY <1>1, <1>2

(* No declared failure passes if nothing is wrong with the documents. *)
LEMMA NoneUnexpected ==
  ASSUME TypeOK, Inv, PageInv, errors = {}, NEW r \in results
  PROVE  ~(r.status = "pass" /\ r.case \in ExpectedFail(r.target))
<1>1. PICK k \in DOMAIN given :
        /\ given[k].target = r.target
        /\ [case |-> r.case, status |-> r.status] \in NormalReports(r.target, given[k].run)
  BY DEF PageInv, Origins
<1>2. given[k].run \in Runs /\ DocumentErrors(given[k].target, given[k].run) = {}
  BY CleanDocuments
<1>3. given[k].run.runErrors \in BOOLEAN /\ given[k].run.whole \in BOOLEAN
  BY <1>2, RunTyped
<1>4. ExpectedFail(r.target) \intersect Comes(r.target, given[k].run, "pass") = {}
  BY <1>1, <1>2, <1>3, Faultless
<1>5. r.status = "pass" => r.case \in Comes(r.target, given[k].run, "pass")
  BY <1>1 DEF Comes
<1> QED BY <1>4, <1>5

(* The rendered page hides nothing, whatever the documents, the lockfile and
   the manifest: no failure has a quiet word, no case of a row is missing
   behind its cell's one word or from its counts, every failure is listed, and
   the page shouts when the verdict is red. *)
THEOREM NothingHiddenCorrect == Spec => []NothingHidden
<1>1. ASSUME TypeOK, Inv, PageInv, mode \in {"green", "red"}
      PROVE  NothingHidden
  <2>1. \A r \in results : r.status \in Statuses
    BY <1>1 DEF TypeOK
  <2>2. \A r \in results : CellWord(r) \in Quiet => r \notin FailingResults
    BY <2>1, QuietWords
  <2>3. ASSUME NEW t \in Columns, NEW g \in Groups
        PROVE  SumFunction(Counts(t, g)) = Cardinality(ResultsIn(t, g))
    <3> DEFINE R == ResultsIn(t, g)
               word == [r \in R |-> CellWord(r)]
               V == {CellWord(r) : r \in R}
    <3>1. IsFiniteSet(R)
      BY <1>1, FS_Subset DEF PageInv, ResultsIn
    <3>2. word \in [R -> V]
      OBVIOUS
    <3>3. SumFunction([v \in {word[r] : r \in R} |-> Cardinality({r \in R : word[r] = v})]) = Cardinality(R)
      <4> HIDE DEF R, word, V
      <4> QED BY <3>1, <3>2, CountsAddUp
    <3>4. Counts(t, g) = [v \in {word[r] : r \in R} |-> Cardinality({r \in R : word[r] = v})]
      <4>1. {word[r] : r \in R} = CellWords(t, g)
        BY DEF CellWords
      <4>2. \A v : {r \in R : word[r] = v} = {r \in ResultsIn(t, g) : CellWord(r) = v}
        OBVIOUS
      <4> HIDE DEF word, R
      <4> QED BY <4>1, <4>2 DEF Counts
    <3> QED BY <3>3, <3>4
  <2>4. ASSUME NEW t \in Columns, NEW g \in Groups, Uniform(t, g), errors = {}
        PROVE  Members(g) = {r.case : r \in ResultsIn(t, g)}
    <3>1. Shed = {}
      BY <1>1, <2>4 DEF PageInv, Verdict
    <3> QED BY <1>1, <2>4, <3>1, UniformSpeaksForAll
  <2>5. \A r \in FailingResults : r \in Failures \/ <<"undeclared", r.target>> \in errors
    <3>1. \A r \in FailingResults : r \in results
      BY DEF FailingResults
    <3> QED BY <1>1, <3>1 DEF PageInv, Strangers, Failures, Columns
  <2>6. ASSUME mode = "green"
        PROVE  errors = {} /\ \A t \in Columns : DOMAIN Summary(t) \subseteq Quiet
    <3>1. errors = {} /\ FailingResults = {}
      BY <1>1, <2>6 DEF PageInv, Verdict
    <3>2. \A r \in results : CellWord(r) \in Quiet
      BY <1>1, <2>1, <3>1, QuietWords, NoneUnexpected
    <3> QED BY <3>1, <3>2 DEF Summary
  <2>7. ASSUME errors = {}, \A t \in Columns : DOMAIN Summary(t) \subseteq Quiet
        PROVE  mode = "green"
    <3>1. ASSUME NEW r \in FailingResults
          PROVE  FALSE
      <4>1. r \in results
        BY DEF FailingResults
      <4>2. r.target \in Columns
        BY <1>1, <2>7, <4>1 DEF PageInv, Strangers, Columns
      <4>3. CellWord(r) \in DOMAIN Summary(r.target)
        BY <4>1 DEF Summary
      <4> QED BY <2>2, <2>7, <3>1, <4>1, <4>2, <4>3
    <3> QED BY <1>1, <2>7, <3>1 DEF PageInv, Verdict
  <2> QED BY <2>2, <2>3, <2>4, <2>5, <2>6, <2>7 DEF NothingHidden
<1>2. TypeOK /\ Inv /\ PageInv => NothingHidden
  BY <1>1 DEF NothingHidden
<1> QED BY <1>2, Invariant, PageInvariant, PTL
=============================================================================
