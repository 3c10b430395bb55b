--------------------------- MODULE ComposedRunner ---------------------------
(***************************************************************************)
(* The composed runner core (components/runner-cli) over the reference     *)
(* provider: it executes every case of the suite it is plugged into, one   *)
(* after the other, reads each case's diagnostics while the case runs, and *)
(* reports over stdout.                                                    *)
(*                                                                         *)
(* Its JSONL output is modelled.  Suite, provider and runner core are one  *)
(* component: a trap in any of them ends them all.                         *)
(***************************************************************************)
EXTENDS ContextProvider, Sequences

CONSTANTS
  N,        \* number of cases the suite enumerates
  GivesUp   \* whether a case may give up a diagnostic call it waits for

Census == 1..N

ASSUME ComposedAssumption == N \in Nat /\ MaxDiags \in Nat /\ GivesUp \in BOOLEAN

VARIABLES
  phase,    \* where the run is
  at,       \* the case at hand
  case,     \* how far it is: "idle", "running", or its outcome
  diags,    \* its diagnostics, as the runner core has them
  events,   \* the case events printed so far
  told      \* per printed case: its outcome and what became of its messages

run  == <<phase, at, case, diags, events, told>>
vars == <<stream, history, run>>

Outcomes == {"ok", "failed", "skipped"}
Final    == {"passed", "failed", "trapped"}

Init ==
  /\ phase = "start"
  /\ at = 0
  /\ case = "idle"
  /\ diags = <<>>
  /\ events = <<>>
  /\ told = <<>>
  /\ NoPair

\* The envelope line.
PrintEnvelope ==
  /\ phase = "start"
  /\ phase' = "enumerating"
  /\ UNCHANGED <<stream, history, at, case, diags, events, told>>

Enumerate ==
  /\ phase = "enumerating"
  /\ phase' = "next" /\ at' = 1
  /\ UNCHANGED <<stream, history, case, diags, events, told>>

\* A fresh context for the next case.
BeginCase ==
  /\ phase = "next" /\ at \in Census
  /\ phase' = "racing"
  /\ diags' = <<>>
  /\ NewPair
  /\ UNCHANGED <<at, case, events, told>>

\* Mutant: the diagnostics are read once the case is over.
StartReadLate ==
  /\ phase \in {"racing", "draining"}
  /\ case # "running"
  /\ IF case = "idle" THEN UNCHANGED <<stream, history>> ELSE StartRead
  /\ case' = IF case = "idle" THEN "running" ELSE case
  /\ UNCHANGED <<phase, at, diags, events, told>>

\* The stream is polled first: a read starts.  When it is not ready the case
\* is polled, by the first poll called; it may report and return before the
\* runner core is told of anything.
ReadStream ==
  /\ phase \in {"racing", "draining"}
  /\ StartRead
  /\ case' = IF case = "idle" THEN "running" ELSE case
  /\ UNCHANGED <<phase, at, diags, events, told>>

TakeDiagnostic ==
  /\ phase \in {"racing", "draining"}
  /\ TakeMessage
  /\ diags' = Append(diags, buffer)
  /\ UNCHANGED <<phase, at, case, events, told>>

\* The stream is at its end: it is ready from now on, and never read again.
TakeStreamEnd ==
  /\ phase \in {"racing", "draining"}
  /\ TakeEnd
  /\ UNCHANGED run

\* The stream is not ready and the case is: the context is dropped.  For the
\* runner core the stream is not ready while a read is under way, though a
\* message may have met it since.  The race is biased: a stream that has ended
\* is ready each time it is polled, and the case never is polled again (the
\* race goes round, a stuttering step here).
TakeVerdict ==
  /\ phase = "racing"
  /\ reading
  /\ case \in Outcomes
  /\ phase' = "draining"
  /\ DropContext
  /\ UNCHANGED <<writing, copied, reading, buffer, history, at, case, diags, events, told>>

\* Mutant: the case is reported as it is, and nothing is drained.
DrainNothing ==
  /\ phase = "draining"
  /\ phase' = "reporting"
  /\ UNCHANGED <<stream, history, at, case, diags, events, told>>

\* What is left has been read, and the stream has ended.
DrainEnds ==
  /\ phase = "draining" /\ Ended /\ ~reading
  /\ phase' = "reporting"
  /\ UNCHANGED <<stream, history, at, case, diags, events, told>>

\* Mutant: the words of the contract are printed as they are.
StatusAsIs(outcome) == outcome

StatusOf(outcome) ==
  CASE outcome = "ok"      -> "pass"
    [] outcome = "failed"  -> "fail"
    [] outcome = "skipped" -> "skipped"

ReportCase ==
  /\ phase = "reporting"
  /\ events' = Append(events, [case |-> at, status |-> StatusOf(case), diags |-> diags])
  /\ told' = Append(told, [outcome |-> case, fate |-> fate])
  /\ phase' = "next" /\ at' = at + 1 /\ case' = "idle"
  /\ UNCHANGED <<stream, history, diags>>

\* Green only if there was a case and none failed.
Verdict == IF N > 0 /\ \A k \in DOMAIN events : events[k].status # "fail" THEN "passed" ELSE "failed"

\* Mutant: the loop ends one case early.
PrintTerminatorEarly ==
  /\ phase = "next" /\ at >= N
  /\ phase' = Verdict
  /\ UNCHANGED <<stream, history, at, case, diags, events, told>>

PrintTerminator ==
  /\ phase = "next" /\ at \notin Census
  /\ phase' = Verdict
  /\ UNCHANGED <<stream, history, at, case, diags, events, told>>

-----------------------------------------------------------------------------
\* The case and the provider's calls go on while the runner core waits.

Report == case = "running" /\ Diagnostic /\ UNCHANGED run

AbandonReport == GivesUp /\ case = "running" /\ GiveUp /\ UNCHANGED run

Return ==
  /\ case = "running"
  /\ \E outcome \in Outcomes : case' = outcome
  /\ UNCHANGED <<stream, history, phase, at, diags, events, told>>

ResumeReport == Resume /\ UNCHANGED run

\* Any component of the composition traps, or stdout hangs up.
Trap ==
  /\ phase \notin Final
  /\ phase' = "trapped"
  /\ UNCHANGED <<stream, history, at, case, diags, events, told>>

Over == phase \in Final /\ UNCHANGED vars

Runner ==
  \/ PrintEnvelope \/ Enumerate \/ BeginCase \/ ReadStream \/ TakeDiagnostic
  \/ TakeStreamEnd \/ TakeVerdict \/ DrainEnds \/ ReportCase \/ PrintTerminator

Case == phase \notin Final /\ (Report \/ AbandonReport \/ Return)

Provider == phase \notin Final /\ ResumeReport

Next == Runner \/ Case \/ Provider \/ Trap \/ Over

Spec == Init /\ [][Next]_vars

\* The embedding polls the runner core and the provider; nothing makes a case
\* return or report, and nothing makes anything trap.
FairSpec == Spec /\ WF_vars(Runner) /\ WF_vars(Provider)

-----------------------------------------------------------------------------
Event == [case : Census, status : {"pass", "fail", "skipped"}, diags : Seq(Messages)]
Told  == [outcome : Outcomes, fate : [Messages -> MessageFates]]

TypeOK ==
  /\ ProviderTypeOK
  /\ phase \in {"start", "enumerating", "next", "racing", "draining", "reporting"} \union Final
  /\ at \in 0..(N + 1)
  /\ case \in {"idle", "running"} \union Outcomes
  /\ diags \in Seq(Messages)
  /\ events \in Seq(Event)
  /\ told \in Seq(Told)

\* The messages of a sequence are those a case's history has as read, in the
\* order in which they were reported, and no call was left waiting.
Delivered(log, fates) ==
  /\ {log[k] : k \in DOMAIN log} = {m \in Messages : fates[m] = "read"}
  /\ \A j, k \in DOMAIN log : j < k => log[j] < log[k]
  /\ \A m \in Messages : fates[m] # "waiting"

\* A message whose call was told that it is delivered is in its own case's
\* event, once and in order, and no call the case left waiting goes unheard:
\* whether the runner core is told of a message before it takes the outcome, or
\* after it, because the case returned in the poll in which its message met the
\* pending read.
NothingReadIsLost ==
  \A k \in DOMAIN events : /\ k \in DOMAIN told
                           /\ Delivered(events[k].diags, told[k].fate)

\* The provider drops a message only when the case makes two calls at once,
\* unless cases give up calls they wait for: a call that goes on finds the
\* writer in its place.
OneAtATimeIsHeard ==
  (\E m \in Messages : fate[m] = "dropped") => overlapped \/ GivesUp

\* A call that waits for the runner core does not wait for ever: the runner
\* core reads while the case runs, and the case gets on.
WaitingEnds == writing # 0 ~> writing = 0 \/ phase = "trapped"

\* "A run always yields a verdict", and calls on the context never change it
\* (wit/tests.wit): a case that has returned is reported.
ReturnIsReported ==
  \A i \in Census : at = i /\ case \in Outcomes ~> Len(events) >= i \/ phase = "trapped"

\* The output implements what runners promise their readers.
CS == INSTANCE CensusStream WITH
        Statuses <- {"pass", "fail", "skipped"},
        allowed  <- [i \in Census |-> {"pass", "fail", "skipped"}],
        lines    <- [p \in 1..Len(events) |->
                       [case |-> events[p].case, status |-> events[p].status]],
        state    <- CASE phase = "trapped"            -> "cut"
                      [] phase \in {"passed", "failed"} -> "closed"
                      [] phase = "start"              -> "silent"
                      [] phase \notin Final \union {"start"} -> "open"

ImplementsCensusStream == CS!Spec
=============================================================================
