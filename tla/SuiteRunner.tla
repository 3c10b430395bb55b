---------------------------- MODULE SuiteRunner -----------------------------
(***************************************************************************)
(* The host-embedding runner (crates/component-test-runner): one run of a  *)
(* suite, from the inventory check to the terminator line.                 *)
(*                                                                         *)
(* The census is 1..N, in suite order.  A worker serves cases through its  *)
(* session slot: an instance of the suite, recycled every perInstance      *)
(* cases and abandoned after a trap or a tripped guard.  With jobs = 1 the *)
(* emitting loop serves the cases itself; with jobs > 1 worker threads     *)
(* serve stripes of the runnable cases, send their results over a channel, *)
(* and the loop emits them in census order once every worker has finished. *)
(***************************************************************************)
EXTENDS Integers, Sequences, FiniteSets

CONSTANTS
  N,          \* number of cases the suite enumerates
  MaxJobs,    \* bound on the jobs option
  Pool,       \* instances the pooling allocator holds at a time
  Options,    \* the option records a run may be started with
  Suites,     \* the suites it may be started on
  Fates,      \* how a case's run export may end
  Births,     \* how creating a session may end
  MaxDiags    \* bound on the diagnostics a case reports

Census  == 1..N
Workers == 0..(MaxJobs - 1)

\* How a run ends: by itself, by a trap, by an outcome the runner does not
\* know, or not at all - burning CPU (spin) or awaiting forever (wedge).
AllFates  == {"pass", "failed", "skipped", "trap", "unknown", "spin", "wedge"}

\* Creating a session instantiates the suite and enumerates it again; "short"
\* is an instance that enumerates one case fewer than the census, "full" the
\* allocator's refusal of one more instance.
AllBirths == {"ok", "short", "trap", "spin", "wedge", "full"}

OptionRecord == [jobs : 1..MaxJobs, perInstance : Nat, missing : BOOLEAN,
                 filtered : BOOLEAN, budgeted : BOOLEAN, timed : BOOLEAN]

\* census: how the census enumeration ends, and whether it agrees with the
\* inventory ("drift", "unpaired").  applies, chosen: which cases the missing
\* features leave applicable, and which ones --only selects.
SuiteRecord == [artifact : {"tagged", "untagged", "malformed"},
                census   : {"ok", "empty", "drift", "unpaired", "trap", "spin", "wedge"},
                applies  : [Census -> BOOLEAN], chosen : [Census -> BOOLEAN]]

ASSUME RunnerAssumption ==
  /\ N \in Nat
  /\ MaxJobs \in Nat \ {0}
  /\ Pool \in Nat \ {0}
  /\ MaxDiags \in Nat
  /\ Options \subseteq OptionRecord
  /\ Suites \subseteq SuiteRecord
  /\ Fates \subseteq AllFates
  /\ Births \subseteq AllBirths \ {"full"}

VARIABLES
  opts, suite,  \* this run's options and suite: chosen once, never changed
  phase,        \* where run_suite_opts is
  header,       \* the envelope line is printed
  events,       \* the case events printed so far
  next,         \* the census index the emitting loop is at
  summary,      \* the counters it returns
  todo,         \* per worker: the cases of its stripe not yet taken
  at,           \* per worker: the case being served, 0 between cases
  step,         \* per worker: where serve_case is
  session,      \* per worker: the session slot
  sent,         \* results in the channel
  results,      \* results the emitting loop can take
  fate,         \* per case: how its serving ended or will end ("none": not served)
  runs,         \* per case: how often its run export was called
  said          \* per case: how many diagnostics it reported

control == <<opts, suite>>
output  == <<header, events, next, summary>>
serving == <<todo, at, step, session>>
truth   == <<fate, runs, said>>
vars    == <<opts, suite, phase, header, events, next, summary, todo, at, step,
             session, sent, results, fate, runs, said>>

-----------------------------------------------------------------------------
\* The schedule: capability first, selection second.

Action(i) ==
  IF suite.artifact = "tagged" /\ ~suite.applies[i] THEN "not-applicable"
  ELSE IF opts.filtered /\ ~suite.chosen[i] THEN "deselected"
  ELSE "run"

Runnable == {i \in Census : Action(i) = "run"}

\* The position of a runnable case among the runnable ones, from 0.
Rank(i) == Cardinality({j \in Runnable : j < i})

\* Mutant: the stripe filter is forgotten.
StripeAll(w) == IF w < opts.jobs THEN Runnable ELSE {}

Stripe(w) == {i \in Runnable : Rank(i) % opts.jobs = w}

-----------------------------------------------------------------------------
\* Sessions and verdicts.

Session == [live : BOOLEAN, served : Nat, size : Nat, wounded : BOOLEAN,
            log : Seq(Census)]

NoSession == [live |-> FALSE, served |-> 0, size |-> 0, wounded |-> FALSE,
              log |-> <<>>]

FreshSession(size) == [live |-> TRUE, served |-> 0, size |-> size, wounded |-> FALSE,
                       log |-> <<>>]

\* The instance has served as many cases as the granularity lets it.
Due(s) == s.live /\ opts.perInstance # 0 /\ s.served >= opts.perInstance

\* Mutant: an instance is given up when the next one takes its place.
RecycledLate(s) == s

\* serve_case empties the slot of an instance that is due, before it creates
\* the next one.
Recycled(s) == IF Due(s) THEN NoSession ELSE s

\* Mutant: no execution budget, the deadline callback never trips.
EndsUnmetered(how) == how # "spin" /\ (how = "wedge" => opts.timed)

\* A spin ends only if the execution budget is armed, a wedge only if the
\* wall timeout is.
Ends(how) == /\ how = "spin"  => opts.budgeted
             /\ how = "wedge" => opts.timed

Verdicts == {"pass", "failed", "skipped", "trap", "budget", "timeout"}

\* Mutant: an unknown outcome is taken for a skip.
VerdictOfLenient(how) ==
  CASE how \in {"pass", "failed", "skipped"}    -> how
    [] how = "spin"                             -> "budget"
    [] how = "wedge"                            -> "timeout"
    [] how = "unknown"                          -> "skipped"
    [] OTHER                                    -> "trap"

VerdictOf(how) ==
  CASE how \in {"pass", "failed", "skipped"}    -> how
    [] how = "spin"                             -> "budget"
    [] how = "wedge"                            -> "timeout"
    [] OTHER                                    -> "trap"

Returned(verdict) == verdict \in {"pass", "failed", "skipped"}

\* Mutant: only a trap abandons the instance.
KeptUnlessTrap(s, verdict) == IF verdict # "trap" THEN s ELSE NoSession

\* The slot after a case: poisoned or abandoned instances are never kept.
Kept(s, verdict) == IF Returned(verdict) THEN s ELSE NoSession

\* What a case's end does to its instance, whatever the runner makes of it.
Wounds(how) == how \in {"trap", "spin", "wedge"}

\* Mutant: the diagnostics are copied, not taken.
AfterRunCopied(s, how) == [s EXCEPT !.wounded = Wounds(how)]

\* The instance after a run: its diagnostics are taken out of the store, and
\* a trap or an abandoned call has left it wounded.
AfterRun(s, how) == [s EXCEPT !.log = <<>>, !.wounded = Wounds(how)]

Result == [case : Census, verdict : Verdicts, log : Seq(Census)]

Event == [case : Census, status : {"pass", "fail", "skipped", "not-applicable", "deselected"},
          provenance : {"none", "returned", "trap", "execution-budget", "case-timeout"},
          log : Seq(Census), complete : BOOLEAN]

\* Mutant: the failure class is printed as the status.
EventOfRaw(r) ==
  [case |-> r.case, status |-> r.verdict, provenance |-> "returned", log |-> r.log,
   complete |-> TRUE]

EventOf(r) ==
  [case       |-> r.case,
   status     |-> CASE r.verdict = "pass"    -> "pass"
                    [] r.verdict = "skipped" -> "skipped"
                    [] OTHER                 -> "fail",
   provenance |-> CASE Returned(r.verdict)    -> "returned"
                    [] r.verdict = "trap"    -> "trap"
                    [] r.verdict = "budget"  -> "execution-budget"
                    [] OTHER                 -> "case-timeout",
   log        |-> r.log,
   complete   |-> Returned(r.verdict)]

AbsentEvent(i) == [case |-> i, status |-> Action(i), provenance |-> "none",
                   log |-> <<>>, complete |-> TRUE]

\* The Summary counter a status moves; every failure class counts as failed.
Counted(s, status) == [s EXCEPT ![status] = @ + 1]
NoCounts == [s \in {"pass", "fail", "skipped", "not-applicable", "deselected"} |-> 0]

-----------------------------------------------------------------------------
Final == {"done", "error", "killed"}

Init ==
  /\ opts \in Options
  /\ suite \in Suites
  /\ phase = "inventory"
  /\ header = FALSE
  /\ events = <<>>
  /\ next = 1
  /\ summary = NoCounts
  /\ todo = [w \in Workers |-> {}]
  /\ at = [w \in Workers |-> 0]
  /\ step = [w \in Workers |-> "idle"]
  /\ session = [w \in Workers |-> NoSession]
  /\ sent = {}
  /\ results = {}
  /\ fate = [i \in Census |-> "none"]
  /\ runs = [i \in Census |-> 0]
  /\ said = [i \in Census |-> 0]

\* A malformed inventory, or missing features with no inventory to schedule
\* by, fails the run before anything is printed.
ReadInventory ==
  /\ phase = "inventory"
  /\ phase' = IF \/ suite.artifact = "malformed"
                 \/ suite.artifact = "untagged" /\ opts.missing
              THEN "error" ELSE "header"
  /\ UNCHANGED <<control, output, serving, sent, results, truth>>

PrintEnvelope ==
  /\ phase = "header"
  /\ phase' = "census"
  /\ header' = TRUE
  /\ UNCHANGED <<control, events, next, summary, serving, sent, results, truth>>

\* The guarded census enumeration and the checks on it: any of them failing
\* leaves an envelope and nothing else.  The empty-selection check is last.
CensusFails ==
  \/ suite.census \in {"trap", "spin", "wedge", "empty"}
  \/ suite.artifact = "tagged" /\ suite.census \in {"drift", "unpaired"}
  \/ opts.filtered /\ \A i \in Census : ~suite.chosen[i]

Enumerate ==
  /\ phase = "census"
  /\ Ends(suite.census)
  /\ IF CensusFails
     THEN phase' = "error" /\ UNCHANGED todo
     ELSE /\ phase' = IF opts.jobs > 1 THEN "serving" ELSE "emitting"
          /\ todo' = [w \in Workers |-> Stripe(w)]
  /\ UNCHANGED <<control, output, at, step, session, sent, results, truth>>

-----------------------------------------------------------------------------
\* serve_case, by worker w.

\* Mutant: the loop serves ahead of what it has printed.
MayServeAhead(i) == \/ phase = "serving"
                    \/ phase = "emitting" /\ opts.jobs = 1

\* With jobs = 1 the emitting loop serves the case it is about to emit.
MayServe(i) == \/ phase = "serving"
               \/ phase = "emitting" /\ opts.jobs = 1 /\ next = i

\* serve_case returns: to the loop itself, or through the channel.
Deliver(w, verdict, log) ==
  LET r == [case |-> at[w], verdict |-> verdict, log |-> log] IN
  /\ IF opts.jobs > 1
     THEN sent' = sent \union {r} /\ UNCHANGED results
     ELSE results' = results \union {r} /\ UNCHANGED sent
  /\ at' = [at EXCEPT ![w] = 0]
  /\ step' = [step EXCEPT ![w] = "idle"]

TakeCase(w) ==
  /\ step[w] = "idle"
  /\ \E i \in todo[w] :
       /\ \A j \in todo[w] : i <= j
       /\ MayServe(i)
       /\ todo' = [todo EXCEPT ![w] = @ \ {i}]
       /\ at' = [at EXCEPT ![w] = i]
  /\ session' = [session EXCEPT ![w] = Recycled(@)]
  /\ step' = [step EXCEPT ![w] =
                 IF session[w].live /\ ~Due(session[w]) THEN "call" ELSE "create"]
  /\ UNCHANGED <<control, phase, output, sent, results, truth>>

\* The workers that hold an instance, and those that are creating one.
Holding  == {v \in Workers : session[v].live}
Creating == {v \in Workers : step[v] = "create"}

\* The allocator refuses one more instance than Pool.  What w still holds
\* counts like what the others hold, and a worker that is creating an instance
\* may have it already.
BirthsAt(w) ==
  {b \in Births : Cardinality(Holding) < Pool}
  \union {b \in {"full"} : Cardinality(Holding) + Cardinality(Creating \ {w}) >= Pool}

\* new_session under the guards.  Failing is this case's verdict; the slot
\* stays empty and nothing was said.
CreateSession(w) ==
  /\ step[w] = "create"
  /\ \E birth \in BirthsAt(w) :
       IF birth \in {"ok", "short"}
       THEN /\ session' = [session EXCEPT
                             ![w] = FreshSession(IF birth = "ok" THEN N ELSE N - 1)]
            /\ step' = [step EXCEPT ![w] = "call"]
            /\ UNCHANGED <<at, sent, results, fate>>
       ELSE /\ Ends(birth)
            /\ fate' = [fate EXCEPT ![at[w]] = birth]
            /\ Deliver(w, VerdictOf(birth), <<>>)
            /\ UNCHANGED session
  /\ UNCHANGED <<control, phase, output, todo, runs, said>>

\* run_case up to the call: a case index past the instance's own enumeration
\* is an error, hence a trap verdict, and asking the instance for the case's
\* name may fail as any call into it may.
NameFailures(i, s) == IF i > s.size THEN {"missing"} ELSE Births \ {"ok", "short"}

CallCase(w) ==
  /\ step[w] = "call"
  /\ LET i == at[w]
         s == [session[w] EXCEPT !.served = @ + 1] IN
     \/ /\ i <= s.size
        /\ \E f \in Fates : fate' = [fate EXCEPT ![i] = f]
        /\ runs' = [runs EXCEPT ![i] = @ + 1]
        /\ session' = [session EXCEPT ![w] = s]
        /\ step' = [step EXCEPT ![w] = "running"]
        /\ UNCHANGED <<at, sent, results>>
     \/ \E failure \in NameFailures(i, s) :
          /\ Ends(failure)
          /\ fate' = [fate EXCEPT ![i] = failure]
          /\ session' = [session EXCEPT ![w] = Kept(s, VerdictOf(failure))]
          /\ Deliver(w, VerdictOf(failure), <<>>)
          /\ UNCHANGED runs
  /\ UNCHANGED <<control, phase, output, todo, said>>

\* The guest reports a diagnostic: it lands in the store of the instance.
Diagnose(w) ==
  /\ step[w] = "running"
  /\ said[at[w]] < MaxDiags
  /\ said' = [said EXCEPT ![at[w]] = @ + 1]
  /\ session' = [session EXCEPT ![w].log = Append(@, at[w])]
  /\ UNCHANGED <<control, phase, output, todo, at, step, sent, results, fate, runs>>

\* The run returns, traps, or a guard trips.  Its diagnostics are taken out
\* of the store in every case; an outcome the runner does not know is an
\* error raised after that, which drops them.
FinishCase(w) ==
  /\ step[w] = "running"
  /\ LET f       == fate[at[w]]
         verdict == VerdictOf(f) IN
     /\ Ends(f)
     /\ session' = [session EXCEPT ![w] = Kept(AfterRun(@, f), verdict)]
     /\ Deliver(w, verdict, IF f = "unknown" THEN <<>> ELSE session[w].log)
  /\ UNCHANGED <<control, phase, output, todo, truth>>

-----------------------------------------------------------------------------
\* The collecting and emitting thread.

Collect ==
  /\ phase = "serving"
  /\ \E r \in sent : sent' = sent \ {r} /\ results' = results \union {r}
  /\ UNCHANGED <<control, phase, output, serving, truth>>

\* Mutant: the loop does not wait for the cases in flight.
AllTaken == \A w \in Workers : todo[w] = {}

\* Every sender is gone and the channel is drained.
AllServed == \A w \in Workers : todo[w] = {} /\ step[w] = "idle"

StartEmitting ==
  /\ phase = "serving"
  /\ AllServed /\ sent = {}
  /\ phase' = "emitting"
  /\ UNCHANGED <<control, output, serving, sent, results, truth>>

EmitLine(e) ==
  /\ events' = Append(events, e)
  /\ next' = next + 1
  /\ summary' = Counted(summary, e.status)
  /\ UNCHANGED header

EmitAbsent ==
  /\ phase = "emitting"
  /\ next <= N
  /\ Action(next) # "run"
  /\ EmitLine(AbsentEvent(next))
  /\ UNCHANGED <<control, phase, serving, sent, results, truth>>

\* Mutant: results are emitted in the order they are found.
EmitAnyResult ==
  /\ phase = "emitting"
  /\ next <= N
  /\ \E r \in results : EmitLine(EventOf(r)) /\ results' = results \ {r}
  /\ UNCHANGED <<control, phase, serving, sent, truth>>

EmitResult ==
  /\ phase = "emitting"
  /\ next <= N
  /\ \E r \in results :
       /\ r.case = next
       /\ EmitLine(EventOf(r))
       /\ results' = results \ {r}
  /\ UNCHANGED <<control, phase, serving, sent, truth>>

EmitTerminator ==
  /\ phase = "emitting"
  /\ next = N + 1
  /\ phase' = "done"
  /\ UNCHANGED <<control, output, serving, sent, results, truth>>

\* The process is killed: what it printed is what there is.
Kill ==
  /\ phase \notin Final
  /\ phase' = "killed"
  /\ UNCHANGED <<control, output, serving, sent, results, truth>>

\* The run is over.
Over == phase \in Final /\ UNCHANGED vars

Serve(w) == TakeCase(w) \/ CreateSession(w) \/ CallCase(w) \/ FinishCase(w)

Main == \/ ReadInventory \/ PrintEnvelope \/ Enumerate \/ Collect
        \/ StartEmitting \/ EmitAbsent \/ EmitResult \/ EmitTerminator

Next ==
  \/ Main
  \/ \E w \in Workers : phase \notin Final /\ (Serve(w) \/ Diagnose(w))
  \/ Kill
  \/ Over

Spec == Init /\ [][Next]_vars

\* The main thread and the worker threads are scheduled; nothing makes a
\* case report, and nothing makes the process be killed.
Fairness == /\ WF_vars(Main)
            /\ \A w \in Workers : WF_vars(phase \notin Final /\ Serve(w))

FairSpec == Spec /\ Fairness

-----------------------------------------------------------------------------
TypeOK ==
  /\ opts \in Options
  /\ suite \in Suites
  /\ phase \in {"inventory", "header", "census", "serving", "emitting"} \union Final
  /\ header \in BOOLEAN
  /\ events \in Seq(Event)
  /\ next \in 1..(N + 1)
  /\ summary \in [DOMAIN NoCounts -> Nat]
  /\ todo \in [Workers -> SUBSET Census]
  /\ at \in [Workers -> 0..N]
  /\ step \in [Workers -> {"idle", "create", "call", "running"}]
  /\ session \in [Workers -> Session]
  /\ sent \subseteq Result
  /\ results \subseteq Result
  /\ fate \in [Census -> AllFates \union AllBirths \union {"none", "missing"}]
  /\ runs \in [Census -> Nat]
  /\ said \in [Census -> 0..MaxDiags]

\* A case runs only in an instance no earlier case has wounded, which has
\* served at most the granularity's number of cases and knows the case
\* (serve_case: "Poisoned or abandoned: never reuse the instance").
Isolation ==
  \A w \in Workers : step[w] = "running" =>
    /\ session[w].live /\ ~session[w].wounded
    /\ opts.perInstance # 0 => session[w].served \in 1..opts.perInstance
    /\ at[w] \in 1..session[w].size

\* No case is executed twice, by any number of workers and after any trap or
\* timeout (docs/runner-policy.md: "No execution path retries anything"), and
\* none is executed that the schedule or the selection excludes.
NoRetry ==
  \A i \in Census : runs[i] # 0 => runs[i] = 1 /\ Action(i) = "run"

\* Event e tells how case p ended, and nothing else.
Truthful(e, p) ==
  /\ e.case = p
  /\ \A k \in 1..Len(e.log) : e.log[k] = p
  /\ Action(p) # "run" => e.status = Action(p) /\ fate[p] = "none" /\ runs[p] = 0
  /\ Action(p) = "run" =>
       /\ fate[p] # "none"
       /\ e.status = "pass"    <=> fate[p] = "pass"
       /\ e.status = "skipped" <=> fate[p] = "skipped"
       /\ e.complete <=> fate[p] \in {"pass", "failed", "skipped"}
       /\ e.provenance = "execution-budget" <=> fate[p] = "spin"
       /\ e.provenance = "case-timeout"     <=> fate[p] = "wedge"
       /\ fate[p] # "unknown" => Len(e.log) = said[p]

\* Every event tells what happened to its case, and only to it: the p-th
\* event is the p-th census case's, its verdict and provenance follow from
\* how that case ended, and its diagnostics are the ones that case reported,
\* all of them unless the outcome was unknown.
TruthfulStream == \A p \in 1..Len(events) : Truthful(events[p], p)

\* When a parallel run starts emitting, the result of every runnable case
\* still to be emitted has been collected: the loop's
\* expect("every runnable index has a worker result") never fails.
EveryIndexHasResult ==
  phase = "emitting" /\ opts.jobs > 1 =>
    \A i \in Runnable : i >= next => \E r \in results : r.case = i

\* A run with no more workers than the pool has instances never fails a case
\* for want of one: a worker has given back the instance that is due, wounded
\* or abandoned before it creates the next, and never holds two.
PoolSuffices ==
  opts.jobs <= Pool => \A i \in Census : fate[i] # "full"

\* "Parallelism is invisible to everything downstream" (docs/runner-policy.md):
\* no case fails because of the number of workers.  The code does not bound
\* jobs by the pool, and a refusal is a trap verdict.
JobsInvisible == \A i \in Census : fate[i] # "full"

\* ct-runner exits green exactly when no runnable case failed, trapped or
\* was cut off, and the counters account for the whole census.
TruthfulSummary ==
  phase = "done" =>
    /\ summary["fail"] = 0 <=> \A i \in Runnable : fate[i] \in {"pass", "skipped"}
    /\ summary["pass"] + summary["skipped"] + summary["fail"] = Cardinality(Runnable)

\* A sequential run is written through: while a case is being served every
\* earlier census case is already printed, so a kill loses at most one.
WriteThrough ==
  opts.jobs = 1 /\ at[0] # 0 => Len(events) = at[0] - 1

\* With both guards armed a run ends, whatever its cases do.
GuardedRunEnds == opts.budgeted /\ opts.timed => <>(phase \in Final)

-----------------------------------------------------------------------------
\* The stream implements what runners promise their readers.
AllowedStatuses == [i \in Census |-> IF Action(i) = "run" THEN {"pass", "fail", "skipped"}
                                     ELSE {Action(i)}]

StreamState == CASE phase \in {"error", "killed"}    -> "cut"
                 [] phase = "done"                   -> "closed"
                 [] phase \notin Final /\ header     -> "open"
                 [] phase \notin Final /\ ~header    -> "silent"

CS == INSTANCE CensusStream WITH
        Statuses <- DOMAIN NoCounts,
        allowed  <- AllowedStatuses,
        lines    <- [p \in 1..Len(events) |->
                       [case |-> events[p].case, status |-> events[p].status]],
        state    <- StreamState

ImplementsCensusStream == CS!Spec

-----------------------------------------------------------------------------
(***************************************************************************)
(* The inductive invariant behind these properties, in named parts.        *)
(***************************************************************************)

\* A worker between cases serves none, and a busy one serves a census case.
Busy == \A w \in Workers : step[w] = "idle" <=> at[w] = 0

\* Nothing is served or printed before the census is known.
NotStarted ==
  phase \in {"inventory", "header", "census"} =>
    /\ next = 1 /\ sent = {} /\ results = {}
    /\ \A w \in Workers : todo[w] = {} /\ step[w] = "idle" /\ session[w] = NoSession
    /\ \A i \in Census : fate[i] = "none" /\ runs[i] = 0 /\ said[i] = 0

\* Each worker has cases of its own stripe only, and the one it serves is no
\* longer among those it will take.
Assigned ==
  \A w \in Workers : /\ todo[w] \subseteq Stripe(w)
                     /\ at[w] # 0 => at[w] \in Stripe(w) \ todo[w]

\* Case i is still to be served, or being served.
Pending(i) == \E w \in Workers : i \in todo[w] \/ at[w] = i

\* A printed case is not pending, and one result at most waits for a case
\* that is neither printed nor pending.
Printed == /\ Len(events) = next - 1
           /\ \A i \in Census : i < next => ~Pending(i)

Waiting ==
  \A r \in sent \union results :
    /\ r.case \in Runnable /\ r.case >= next /\ ~Pending(r.case)
    /\ \A q \in sent \union results : q.case = r.case => q = r

\* A case that has not been called has no history.
Untouched ==
  \A w \in Workers, i \in Census :
    i \in todo[w] \/ (at[w] = i /\ step[w] # "running") =>
      fate[i] = "none" /\ runs[i] = 0 /\ said[i] = 0

\* Workers beyond the run's jobs stay idle, and hold no instance.
Surplus ==
  \A w \in Workers : w >= opts.jobs => step[w] = "idle" /\ ~session[w].live

\* A case the schedule excludes is never served.
Excluded == \A i \in Census : Action(i) # "run" => fate[i] = "none"

\* The slots: never wounded, never above the granularity, and without
\* diagnostics between cases.
Slots ==
  \A w \in Workers :
    LET s == session[w] IN
    /\ ~s.wounded
    /\ step[w] # "running" => s.log = <<>>
    /\ opts.perInstance # 0 => s.served <= opts.perInstance
    /\ step[w] = "call" => s.live /\ (opts.perInstance # 0 => s.served < opts.perInstance)
    /\ step[w] = "running" => s.live /\ s.served # 0 /\ at[w] <= s.size

\* log holds diagnostics of case i alone; all of them unless they were dropped.
OwnLog(log, i)  == \A k \in 1..Len(log) : log[k] = i
FullLog(log, i) == OwnLog(log, i) /\ Len(log) = said[i]

Running ==
  \A w \in Workers : step[w] = "running" =>
    /\ fate[at[w]] \in AllFates
    /\ runs[at[w]] = 1
    /\ FullLog(session[w].log, at[w])

\* A waiting result tells how its case ended.
Told ==
  \A r \in sent \union results :
    /\ fate[r.case] \notin {"none", "ok", "short"}
    /\ r.verdict = VerdictOf(fate[r.case])
    /\ OwnLog(r.log, r.case)
    /\ fate[r.case] # "unknown" => FullLog(r.log, r.case)

\* Every runnable case is pending, waiting or printed; the loop emits with the
\* channel empty, and a parallel run's with no case pending.
Covered ==
  phase \in {"serving", "emitting"} =>
    \A i \in Runnable : Pending(i) \/ i < next \/ \E r \in sent \union results : r.case = i

Joined == phase = "emitting" => sent = {} /\ (opts.jobs > 1 => AllServed)

RunInv ==
  /\ NotStarted /\ Assigned /\ Printed /\ Waiting /\ Untouched /\ Excluded /\ Slots
  /\ Running /\ Told /\ Covered /\ Joined /\ NoRetry /\ TruthfulStream
=============================================================================
