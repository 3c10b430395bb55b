---------------------------- MODULE BudgetMeter -----------------------------
(***************************************************************************)
(* The execution budget of the host runner                                 *)
(* (crates/component-test-runner/src/lib.rs): a ticker thread advances the *)
(* engine's epoch; WebAssembly code that runs past a store's deadline      *)
(* calls back, and the callback charges the phase (an enumeration, or one  *)
(* case) the CPU time its thread used since the last callback.             *)
(*                                                                         *)
(* One store is watched, polled by one thread at a time; time passes in    *)
(* units, of which a thread may use each for the store or not.             *)
(***************************************************************************)
EXTENDS Integers

CONSTANTS
  Threads,
  EPOCH_TICK,   \* the ticker's sleep
  Lateness,     \* bound: the ticker is scheduled no later than this
  Budgets,      \* what budget_max_secs may be, in units; 0 is no budget
  Clocks,       \* whether the platform has a per-thread CPU clock
  MaxWall,      \* bound: the wall clock goes no further
  MaxMoves      \* bound: the store's thread changes no more often in a phase

ASSUME MeterAssumption ==
  /\ EPOCH_TICK \in Nat \ {0} /\ Lateness \in Nat /\ MaxWall \in Nat /\ MaxMoves \in Nat
  /\ Budgets \subseteq Nat /\ Clocks \subseteq BOOLEAN

VARIABLES
  budget, hasClock,  \* fixed
  wall,              \* the wall clock
  ticked,            \* when the ticker last woke up
  epoch, deadline,
  cpu,               \* the CPU time of each thread
  thread,            \* the one that polls the store
  phase,             \* "running", "idle", or "limit": the budget ended it
  budget_used,
  budget_last,       \* a set of at most one [thread, cpu]
  own, hosted,       \* history: CPU time of the phase, and that in host code
  stray,             \* history: what the thread of the last sample has computed
                     \* for others in the phase
  moves              \* history: thread changes of the phase

fixed == <<budget, hasClock>>
time  == <<wall, ticked, epoch>>
meter == <<budget_used, budget_last>>
hist  == <<own, hosted, stray, moves>>
vars  == <<fixed, time, deadline, cpu, thread, phase, meter, hist>>

\* new_store and the enumeration that follows it.
Init ==
  /\ budget \in Budgets /\ hasClock \in Clocks
  /\ wall = 0 /\ ticked = 0 /\ epoch = 0 /\ deadline = 1
  /\ cpu = [t \in Threads |-> 0]
  /\ thread \in Threads
  /\ phase = "running"
  /\ budget_used = 0 /\ budget_last = {}
  /\ own = 0 /\ hosted = 0 /\ stray = 0 /\ moves = 0

-----------------------------------------------------------------------------
\* One unit of time; the ticker exists only under a budget.
Passes ==
  /\ wall < MaxWall
  /\ budget # 0 => wall < ticked + EPOCH_TICK + Lateness
  /\ wall' = wall + 1

Tick ==
  /\ budget # 0
  /\ wall >= ticked + EPOCH_TICK
  /\ ticked' = wall
  /\ epoch' = epoch + 1
  /\ UNCHANGED <<fixed, wall, deadline, cpu, thread, phase, meter, hist>>

\* WebAssembly code goes on while the deadline is not reached.
RunWasm ==
  /\ phase = "running" /\ epoch < deadline
  /\ Passes
  /\ cpu' = [cpu EXCEPT ![thread] = @ + 1]
  /\ own' = own + 1
  /\ UNCHANGED <<fixed, ticked, epoch, deadline, thread, phase, meter, hosted, stray, moves>>

\* Host code that the case calls has no checks.
RunHost ==
  /\ phase = "running"
  /\ Passes
  /\ cpu' = [cpu EXCEPT ![thread] = @ + 1]
  /\ own' = own + 1 /\ hosted' = hosted + 1
  /\ UNCHANGED <<fixed, ticked, epoch, deadline, thread, phase, meter, stray, moves>>

\* The store waits, or its thread does not get a processor, or uses it for
\* something else between two phases; other threads compute or do not.
RunOther ==
  /\ Passes
  /\ \E busy \in SUBSET Threads :
       /\ phase = "running" => thread \notin busy
       /\ cpu' = [t \in Threads |-> IF t \in busy THEN cpu[t] + 1 ELSE cpu[t]]
       /\ stray' = IF phase = "running" /\ \E s \in budget_last : s.thread \in busy
                   THEN stray + 1 ELSE stray
  /\ UNCHANGED <<fixed, ticked, epoch, deadline, thread, phase, meter, own, hosted, moves>>

\* The executor polls the store from another thread.
Move ==
  /\ phase = "running" /\ moves < MaxMoves
  /\ thread' \in Threads \ {thread}
  /\ moves' = moves + 1
  /\ UNCHANGED <<fixed, time, deadline, cpu, phase, meter, own, hosted, stray>>

-----------------------------------------------------------------------------
\* Mutant: a sample of another thread is as good.
ComparableAny == {s \in budget_last : cpu[thread] >= s.cpu}

\* Samples of this thread with a sane clock.
Comparable == {s \in budget_last : s.thread = thread /\ cpu[thread] >= s.cpu}

\* The epoch-deadline callback.
Callback ==
  /\ phase = "running" /\ epoch >= deadline
  /\ IF hasClock
     THEN /\ budget_last' = {[thread |-> thread, cpu |-> cpu[thread]]}
          /\ budget_used' \in IF Comparable = {} THEN {budget_used}
                              ELSE {budget_used + (cpu[thread] - s.cpu) : s \in Comparable}
     ELSE /\ budget_used' = budget_used + EPOCH_TICK
          /\ UNCHANGED budget_last
  /\ IF budget # 0 /\ budget_used' >= budget
     THEN phase' = "limit" /\ UNCHANGED deadline
     ELSE deadline' = epoch + 1 /\ UNCHANGED phase
  /\ UNCHANGED <<fixed, time, cpu, thread, hist>>

Finish ==
  /\ phase = "running"
  /\ phase' = "idle"
  /\ UNCHANGED <<fixed, time, deadline, cpu, thread, meter, hist>>

\* run_case in the session, or, the instance abandoned, a new store.
StartPhase ==
  /\ phase \in {"idle", "limit"}
  /\ phase' = "running"
  /\ budget_used' = 0 /\ budget_last' = {}
  /\ deadline' \in IF phase = "limit" THEN {epoch + 1} ELSE {deadline, epoch + 1}
  /\ own' = 0 /\ hosted' = 0 /\ stray' = 0 /\ moves' = 0
  /\ UNCHANGED <<fixed, time, cpu, thread>>

Next ==
  \/ Tick
  \/ RunWasm
  \/ RunHost
  \/ RunOther
  \/ Move
  \/ Callback
  \/ Finish
  \/ StartPhase

Spec == Init /\ [][Next]_vars

-----------------------------------------------------------------------------
\* The WebAssembly code of a store runs no longer than this between callbacks.
Slack == EPOCH_TICK + Lateness

\* The phase's own time, and once its store has come back to a thread what that
\* thread computed meanwhile: nobody polled the store there to sample again.
Chargeable == own + (IF moves < 2 THEN 0 ELSE stray)

\* With a CPU clock a phase is never charged more than it used on its own,
\* whatever other threads and other phases did, unless its store left a thread
\* and came back to it between two callbacks, and then no more than that
\* thread used besides; so it is ended only after that.  And it is ended in
\* time: what it used in WebAssembly exceeds the charge by no more than what
\* is unseen before the first sample, since the last one, and at each change
\* of thread.  Without such a clock a callback charges one tick, however much
\* of it was used.
BudgetIsCpu ==
  budget # 0 =>
    /\ hasClock =>
         /\ budget_used <= Chargeable
         /\ phase = "limit" => Chargeable >= budget
         /\ own - hosted <= budget_used + (moves + 2) * Slack
    /\ ~hasClock => own - hosted <= (budget_used \div EPOCH_TICK + 1) * Slack
    /\ phase = "running" => budget_used < budget

\* "The delta between consecutive samples on the same thread is the case's own
\* execution" (the comment on budget_used): a phase is never charged for what
\* it did not execute.
DeltaIsOwn == hasClock => budget_used <= own
=============================================================================
