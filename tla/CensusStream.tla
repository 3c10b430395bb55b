---------------------------- MODULE CensusStream ----------------------------
(***************************************************************************)
(* What a runner promises whoever reads its results stream: after the      *)
(* envelope, one event per census case, in census order, closed by the     *)
(* terminator - or a prefix of that, cut off, when the run itself fails.   *)
(* Nothing is taken back, repeated or overtaken, and each event carries a  *)
(* status the schedule allows its case.                                    *)
(***************************************************************************)
EXTENDS Naturals, Sequences

CONSTANTS N,         \* the census is 1..N
          Statuses   \* the statuses of the results vocabulary

VARIABLES allowed,   \* per case: the statuses the schedule allows; fixed
          lines,     \* the case events printed so far: [case, status]
          state      \* "silent" -> "open" -> "closed", or "cut"

csvars == <<allowed, lines, state>>

Init ==
  /\ allowed \in [1..N -> SUBSET Statuses]
  /\ lines = <<>>
  /\ state = "silent"

\* The envelope line.
Open == state = "silent" /\ state' = "open" /\ UNCHANGED <<allowed, lines>>

\* The next census case is reported.
Report ==
  /\ state = "open"
  /\ Len(lines) < N
  /\ \E s \in allowed[Len(lines) + 1] :
       lines' = Append(lines, [case |-> Len(lines) + 1, status |-> s])
  /\ UNCHANGED <<allowed, state>>

\* The terminator line: only a full census is closed.
Close ==
  /\ state = "open"
  /\ Len(lines) = N
  /\ state' = "closed"
  /\ UNCHANGED <<allowed, lines>>

\* The run fails or is killed: what was printed stays.
Cut ==
  /\ state \in {"silent", "open"}
  /\ state' = "cut"
  /\ UNCHANGED <<allowed, lines>>

Next == Open \/ Report \/ Close \/ Cut

Spec == Init /\ [][Next]_csvars
=============================================================================
