---------------------------- MODULE ResultsFold -----------------------------
(***************************************************************************)
(* `component-test fold` (crates/component-test-cli/src/main.rs) over the  *)
(* result fold (crates/component-test-results/src/lib.rs): a producer      *)
(* writes a results stream, keeping to CensusStream; when it is done, or   *)
(* dead, its file is folded line by line into a document, and the document *)
(* is judged against the lockfile.                                         *)
(*                                                                         *)
(* What the file holds besides the producer's events is what is left of a  *)
(* run that goes wrong: an earlier run's envelope above it, a torn last    *)
(* line, a run error, or another run appended below.                       *)
(***************************************************************************)
EXTENDS Lockfile

CONSTANTS
  N,          \* the producer enumerates N cases
  Names,      \* the names they may have
  Lockfiles,  \* the lockfiles a stream may be folded against
  NoLock      \* folding without one

CaseEntry == [name : Names, tags : Seq(Tag)]

ASSUME FoldAssumption ==
  /\ N \in Nat
  /\ <<>> \notin Names
  /\ NoLock \notin Lockfiles
  /\ \A lf \in Lockfiles : lf.case \in Seq(CaseEntry)

\* The words of the stream: "trap" stands for a fail whose provenance is a
\* trap or an exceeded limit, "renamed" for a word this consumer does not know.
Words == {"pass", "fail", "trap", "skipped", "not-applicable", "deselected", "renamed"}

Known    == Words \ {"renamed"}
Abnormal == {"trap"}

\* Status::failing, on the words above.
Failing == {"fail", "trap", "not-reached"}

VARIABLES
  census,    \* the names of the producer's cases, in order; fixed
  lock,      \* the lockfile of the fold, or NoLock; fixed
  headers,   \* envelope lines at the top of the file
  lines,     \* the producer's events
  state,     \* the producer's stream: see CensusStream
  tail,      \* the lines below the last event
  mode,      \* where the fold is
  pos,       \* lines of the file read
  results, unknown, runErrors, terminated,   \* the document's fields
  opened     \* exact cases looked at by the not-reached loop

file  == <<census, lock, headers, lines, state, tail>>
doc   == <<results, unknown, runErrors, terminated>>
vars  == <<census, lock, headers, lines, state, tail, mode, pos, results, unknown,
           runErrors, terminated, opened>>

Stream == INSTANCE CensusStream WITH
            Statuses <- Words, allowed <- [i \in 1..N |-> Words]

-----------------------------------------------------------------------------
\* The file.

FileLen == headers + Len(lines) + Len(tail)

LineAt(p) == CASE p <= headers              -> "header"
               [] p > headers + Len(lines)  -> tail[p - headers - Len(lines)]
               [] OTHER                     -> "event"

NameAt(k) == census[lines[k].case]

\* What follows the last event: of a closed stream its terminator, perhaps
\* with another run's envelope appended; of a cut one nothing, a torn line,
\* or a harness's account of its breakage.
Tails ==
  CASE state' = "closed"             -> {<<"end">>, <<"end", "header">>}
    [] state' = "cut" /\ headers' # 0 -> {<<>>, <<"torn">>, <<"run-error", "end">>}
    [] state' = "cut" /\ headers' = 0 -> {<<>>, <<"torn">>}
    [] OTHER                          -> {<<>>}

Init ==
  /\ census \in [1..N -> Names]
  /\ lock \in Lockfiles \union {NoLock}
  /\ headers \in {0, 1}
  /\ lines = <<>>
  /\ state = "silent"
  /\ tail = <<>>
  /\ mode = "waiting"
  /\ pos = 0
  /\ results = <<>>
  /\ unknown = {}
  /\ runErrors = 0
  /\ terminated = FALSE
  /\ opened = 0

Write ==
  /\ mode = "waiting"
  /\ Stream!Next
  /\ headers' = IF state = "silent" /\ state' = "open" THEN headers + 1 ELSE headers
  /\ tail' \in Tails
  /\ UNCHANGED <<census, lock, mode, pos, doc, opened>>

-----------------------------------------------------------------------------
\* fold_jsonl.

Exact == IF lock = NoLock THEN {} ELSE ExactNames(lock)
ExactAt(k) == lock.case[k].name
ExactLen == IF lock = NoLock THEN 0 ELSE Len(lock.case)

\* selected_names: the exact cases, and every case the stream names.
Selected == Exact \union {NameAt(k) : k \in 1..Len(lines)}

\* The lockfile must validate, the first line must be an envelope of a
\* version the consumer knows, and something must be selected.
Start ==
  /\ mode = "waiting"
  /\ state \in {"closed", "cut"}
  /\ \E understood \in BOOLEAN :
       mode' = IF /\ lock # NoLock => Validates(lock)
                  /\ FileLen # 0 /\ LineAt(1) = "header"
                  /\ understood
                  /\ Selected # {}
               THEN "reading" ELSE "refused"
  /\ pos' = 1
  /\ UNCHANGED <<file, doc, opened>>

\* The next line is of this kind and no terminator was read before it.
Reads(kind) ==
  /\ mode = "reading"
  /\ pos < FileLen
  /\ ~terminated
  /\ LineAt(pos + 1) = kind
  /\ pos' = pos + 1

\* Mutant: every status word is taken for a known one.
ReadEventAny ==
  /\ Reads("event")
  /\ LET e == lines[pos + 1 - headers] IN
     results' = Append(results, [case |-> census[e.case], status |-> e.status, cause |-> {}])
  /\ UNCHANGED <<file, mode, unknown, runErrors, terminated, opened>>

ReadEvent ==
  /\ Reads("event")
  /\ LET e == lines[pos + 1 - headers]
         name == census[e.case] IN
     IF e.status \in Known
     THEN /\ results' = Append(results, [case |-> name, status |-> e.status, cause |-> {}])
          /\ UNCHANGED unknown
     ELSE unknown' = unknown \union {name} /\ UNCHANGED results
  /\ UNCHANGED <<file, mode, runErrors, terminated, opened>>

\* A second envelope is an event of unknown shape, filed under no case's name.
Unnamed == <<>>

ReadHeader ==
  /\ Reads("header")
  /\ unknown' = unknown \union {Unnamed}
  /\ UNCHANGED <<file, mode, results, runErrors, terminated, opened>>

ReadRunError ==
  /\ Reads("run-error")
  /\ runErrors' = runErrors + 1
  /\ UNCHANGED <<file, mode, results, unknown, terminated, opened>>

ReadEnd ==
  /\ Reads("end")
  /\ terminated' = TRUE
  /\ UNCHANGED <<file, mode, results, unknown, runErrors, opened>>

\* A torn line does not parse, and nothing may follow the terminator: the
\* fold gives up, whatever it has read.
GiveUp ==
  /\ mode = "reading"
  /\ pos < FileLen
  /\ LineAt(pos + 1) = "torn" \/ terminated
  /\ mode' = "refused"
  /\ UNCHANGED <<file, pos, doc, opened>>

\* Mutant: a cut segment is taken as it is.
ReadAllAsIs ==
  /\ mode = "reading"
  /\ pos = FileLen
  /\ mode' = "document"
  /\ UNCHANGED <<file, pos, doc, opened>>

ReadAll ==
  /\ mode = "reading"
  /\ pos = FileLen
  /\ mode' = IF terminated THEN "document" ELSE "opening"
  /\ UNCHANGED <<file, pos, doc, opened>>

\* The names with a report, valid or not.
Reported == {results[k].case : k \in 1..Len(results)} \union unknown

\* The case a cut segment's open cases are attributed to, if there is one: the
\* last result that failed abnormally.
Cause ==
  LET abnormal == {k \in 1..Len(results) : results[k].status \in Abnormal} IN
  {results[k].case : k \in {a \in abnormal : \A b \in abnormal : b <= a}}

NotReached(name) == [case |-> name, status |-> "not-reached", cause |-> Cause]

\* Mutant: a case with an unknown status is open, too.
OpenCaseUnknown ==
  /\ mode = "opening"
  /\ opened < ExactLen
  /\ opened' = opened + 1
  /\ IF ExactAt(opened + 1) \in {results[k].case : k \in 1..Len(results)}
     THEN UNCHANGED results
     ELSE results' = Append(results, NotReached(ExactAt(opened + 1)))
  /\ UNCHANGED <<file, mode, pos, unknown, runErrors, terminated>>

\* Of the selected names only exact cases can be open: the others are
\* selected because the stream names them.
OpenCase ==
  /\ mode = "opening"
  /\ opened < ExactLen
  /\ opened' = opened + 1
  /\ IF ExactAt(opened + 1) \in Reported
     THEN UNCHANGED results
     ELSE results' = Append(results, NotReached(ExactAt(opened + 1)))
  /\ UNCHANGED <<file, mode, pos, unknown, runErrors, terminated>>

Opened ==
  /\ mode = "opening"
  /\ opened = ExactLen
  /\ mode' = "document"
  /\ UNCHANGED <<file, pos, doc, opened>>

-----------------------------------------------------------------------------
\* fold: the verdict on the document, the process's exit code.

Covered == lock # NoLock => Covers(lock, [k \in 1..Len(results) |-> results[k].case])

\* Mutant: run errors and unknown statuses are only shown.
PassesVisibly ==
  /\ \A k \in 1..Len(results) : results[k].status \notin Failing
  /\ Covered
  /\ terminated

Passes ==
  /\ \A k \in 1..Len(results) : results[k].status \notin Failing
  /\ runErrors = 0
  /\ unknown = {}
  /\ Covered
  /\ terminated

Judge ==
  /\ mode = "document"
  /\ mode' = IF Passes THEN "green" ELSE "red"
  /\ UNCHANGED <<file, pos, doc, opened>>

\* The command has exited.
Exited == mode \in {"refused", "green", "red"} /\ UNCHANGED vars

Next == \/ Write \/ Start \/ ReadEvent \/ ReadHeader \/ ReadRunError \/ ReadEnd \/ GiveUp
        \/ ReadAll \/ OpenCase \/ Opened \/ Judge \/ Exited

Spec == Init /\ [][Next]_vars

-----------------------------------------------------------------------------
ResultRecord == [case : Names, status : Known \union {"not-reached"}, cause : SUBSET Names]

\* The fold's variables have their types.
TypeOK ==
  /\ census \in [1..N -> Names]
  /\ lock \in Lockfiles \union {NoLock}
  /\ headers \in Nat
  /\ lines \in Seq([case : 1..N, status : Words])
  /\ state \in {"silent", "open", "closed", "cut"}
  /\ tail \in {<<>>, <<"end">>, <<"end", "header">>, <<"torn">>, <<"run-error", "end">>}
  /\ mode \in {"waiting", "reading", "opening", "document", "refused", "green", "red"}
  /\ pos \in Nat
  /\ results \in Seq(ResultRecord)
  /\ unknown \subseteq Names \union {Unnamed}
  /\ runErrors \in Nat
  /\ terminated \in BOOLEAN
  /\ opened \in Nat

\* A green fold means a whole run: the producer closed its stream, every case
\* it enumerated came out well, and with a lockfile the inventory, and nothing
\* else, was enumerated, each case once.  No crash, torn line, restart into
\* the same file, run error or renamed status in between can look green.
GreenMeansComplete ==
  mode = "green" =>
    /\ state = "closed" /\ Len(lines) = N
    /\ \A k \in 1..N : lines[k].status \in {"pass", "skipped", "not-applicable", "deselected"}
    /\ lock # NoLock =>
         /\ Validates(lock)
         /\ Exact \subseteq {census[i] : i \in 1..N}
         /\ \A i \in 1..N : census[i] \in Exact \/ PrefixOf(lock, census[i]) # {}
         /\ \A i, j \in 1..N : census[i] = census[j] => i = j

\* The document has the stream's results in the stream's order, and after
\* them only cases it invents: exact cases of a cut run that no line names,
\* each once.
InventedAreOpen ==
  \A j \in 1..Len(results) :
    results[j].status = "not-reached" =>
      /\ ~terminated
      /\ results[j].case \in Exact
      /\ \A k \in 1..Len(lines) : NameAt(k) # results[j].case
      /\ \A k \in 1..(j - 1) : results[k].case # results[j].case

\* Nothing the stream or the inventory names is lost: when the document is
\* made, every event is a result or an unknown status, and of a cut run every
\* exact case is one of the two.
NothingLost ==
  mode \in {"document", "green", "red"} =>
    /\ \A k \in 1..Len(lines) :
         IF lines[k].status \in Known
         THEN \E j \in 1..Len(results) :
                results[j].case = NameAt(k) /\ results[j].status = lines[k].status
         ELSE NameAt(k) \in unknown
    /\ ~terminated => Exact \subseteq Reported

-----------------------------------------------------------------------------
(***************************************************************************)
(* The inductive invariant behind these properties, in named parts.        *)
(***************************************************************************)

\* What the producer leaves: its events in census order below an envelope,
\* and a tail only when it is done.
Written ==
  /\ \A k \in 1..Len(lines) : lines[k].case = k
  /\ Len(lines) <= N
  /\ state \in {"open", "closed"} \/ lines # <<>> => headers # 0
  /\ state = "closed" => Len(lines) = N /\ tail \in {<<"end">>, <<"end", "header">>}
  /\ state = "cut" => tail \in {<<>>, <<"torn">>, <<"run-error", "end">>}
  /\ state \in {"silent", "open"} => tail = <<>>

\* The fold starts on a finished file, with an envelope on top, and only if
\* its lockfile validates.
Started ==
  /\ mode = "waiting" => pos = 0 /\ results = <<>> /\ unknown = {} /\ runErrors = 0
                        /\ ~terminated /\ opened = 0
  /\ mode # "waiting" => state \in {"closed", "cut"}
  /\ mode \notin {"waiting", "refused"} =>
       /\ headers # 0 /\ pos \in 1..FileLen
       /\ lock # NoLock => Validates(lock)

\* Event k has been read.
WasRead(k) == k + headers <= pos

\* Every event read is in the document, and until the fold invents results
\* an unbroken sequence of known events is the results, in order.
ReadIn ==
  mode # "refused" =>
    \A k \in 1..Len(lines) : WasRead(k) =>
      IF lines[k].status \in Known
      THEN \E j \in 1..Len(results) :
             results[j].case = NameAt(k) /\ results[j].status = lines[k].status
      ELSE NameAt(k) \in unknown

InOrder ==
  unknown = {} /\ (mode = "reading" \/ (terminated /\ mode \in {"document", "green"})) =>
    /\ \A k \in 1..Len(lines) : WasRead(k) => k <= Len(results)
    /\ \A k \in 1..Len(results) :
         /\ k <= Len(lines) /\ WasRead(k)
         /\ results[k].case = NameAt(k) /\ results[k].status = lines[k].status

\* A terminator below a cut stream has a run error above it.
Ended ==
  /\ terminated => mode # "opening" /\ headers + Len(lines) < pos
  /\ terminated /\ state = "cut" => runErrors # 0
  /\ state = "cut" /\ headers + Len(lines) < pos /\ mode # "refused" => runErrors # 0

\* Nothing is invented while the stream is read.
Told ==
  mode = "reading" => \A j \in 1..Len(results) : results[j].status # "not-reached"

Opening ==
  /\ opened # 0 => mode \in {"opening", "document", "green", "red"} /\ ~terminated
  /\ opened <= ExactLen
  /\ mode \in {"opening", "document", "green", "red"} => pos = FileLen
  /\ mode = "opening" \/ (mode \in {"document", "green", "red"} /\ ~terminated) =>
       \A i \in 1..opened : ExactAt(i) \in Reported
  /\ mode \in {"document", "green", "red"} /\ ~terminated => opened = ExactLen

Judged == mode = "green" => Passes

FoldInv ==
  /\ Written /\ Started /\ ReadIn /\ InOrder /\ Ended /\ Told /\ Opening
  /\ Judged /\ InventedAreOpen
=============================================================================
