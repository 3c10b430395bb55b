------------------------------ MODULE JsHarness ------------------------------
(***************************************************************************)
(* The case loop of the JS runners (src/js/viewer/harness.mjs, runCases)   *)
(* as the module workers of the browser run it                             *)
(* (src/js/viewer/browser-worker.mjs): each worker has an instance of the  *)
(* suite, runs its stripe of the census, and posts an event per case and   *)
(* then its counts, or an error.                                           *)
(*                                                                         *)
(* An attempt at a case that is given up at its timeout cannot be stopped. *)
(* What it does later can only be a rejection nobody awaits, which the     *)
(* worker posts as an error; its diagnostics go to a list nobody reads any *)
(* more, and they are left out, like the texts of events.                  *)
(***************************************************************************)
EXTENDS Integers, Sequences

CONSTANTS
  Keys,      \* the keys of suites in the report
  Configs    \* the jobs and the lists of suites a page may be given

\* A case: whether a tag record covers its name, whether it applies to the
\* target, and whether the page's `only` filter, if it has one, selects it.
CaseRecord == [tagged : BOOLEAN, applies : BOOLEAN, selected : BOOLEAN]
SuiteRecord == [key : Keys, cases : Seq(CaseRecord), only : BOOLEAN, timed : BOOLEAN]

ASSUME HarnessAssumption ==
  /\ Configs \subseteq [jobs : Nat \ {0}, suites : Seq(SuiteRecord)]
  /\ \A config \in Configs :
       /\ config.suites # <<>>
       /\ \A s, t \in DOMAIN config.suites :
            config.suites[s].key = config.suites[t].key => s = t
       /\ \A s \in DOMAIN config.suites : \A i \in DOMAIN config.suites[s].cases :
            config.suites[s].only \/ config.suites[s].cases[i].selected

Verdicts == {"pass", "fail", "skipped"}
Statuses == Verdicts \union {"not-applicable", "deselected"}
Counted  == Statuses \union {"selected", "total"}

VARIABLES
  config,     \* the page's jobs and suites; fixed
  now,        \* the suite that is run
  worker,     \* per worker: "new", "looping", "running", "over", "terminated"
  at,         \* per worker: the case it is at
  counts,     \* per worker: its counters
  abandoned,  \* per worker: the cases it gave up whose attempts go on
  channel,    \* per worker: the messages on their way to the page
  verdict     \* per suite: what came of the cases that were executed

hvars == <<config, now, worker, at, counts, abandoned, channel, verdict>>

\* A worker per shard.
Pool == config.jobs
Workers == 1..Pool

suites == config.suites
Suite == suites[now]
Census == DOMAIN Suite.cases

Zero == [c \in Counted |-> 0]

\* New workers for a suite: an instance each, and nothing done.
Hired(s) ==
  /\ now' = s
  /\ worker' = [w \in Workers |-> "new"]
  /\ at' = [w \in Workers |-> w]
  /\ counts' = [w \in Workers |-> Zero]
  /\ abandoned' = [w \in Workers |-> {}]
  /\ channel' = [w \in Workers |-> <<>>]

HarnessInit ==
  /\ config \in Configs
  /\ now = 0
  /\ worker = [w \in Workers |-> "terminated"]
  /\ at = [w \in Workers |-> w]
  /\ counts = [w \in Workers |-> Zero]
  /\ abandoned = [w \in Workers |-> {}]
  /\ channel = [w \in Workers |-> <<>>]
  /\ verdict = [s \in DOMAIN suites |-> [i \in {} |-> ""]]

-----------------------------------------------------------------------------
Event(i, status) == [kind |-> "event", index |-> i, status |-> status]

Post(w, message) == channel' = [channel EXCEPT ![w] = Append(@, message)]

\* The loop throws: the run is unsound, and the worker says so.
Break(w) ==
  /\ Post(w, [kind |-> "error"])
  /\ worker' = [worker EXCEPT ![w] = "over"]
  /\ UNCHANGED <<config, now, at, counts, abandoned, verdict>>

\* Cores are fetched and compiled, the suite is instantiated and enumerated.
Boot(w) ==
  /\ worker[w] = "new"
  /\ \/ /\ worker' = [worker EXCEPT ![w] = "looping"]
        /\ UNCHANGED <<config, now, at, counts, abandoned, channel, verdict>>
     \/ Break(w)

\* Mutant: a worker goes on with the next case of the census.
NextInCensus(i) == i + 1

\* The next case of the stripe: case i is for shard i % count.
NextInStripe(i) == i + Pool

AtCase(w) == worker[w] = "looping" /\ at[w] \in Census
Case(w) == Suite.cases[at[w]]

\* The counters with this case.
Bumped(w, status) ==
  [counts EXCEPT ![w] = [c \in Counted |->
     IF c \in {status, "total"} \/ (c = "selected" /\ Case(w).selected) THEN @[c] + 1 ELSE @[c]]]

\* The case's event is posted and the loop goes on.
Emit(w, status) ==
  /\ Post(w, Event(at[w], status))
  /\ counts' = Bumped(w, status)
  /\ at' = [at EXCEPT ![w] = NextInStripe(@)]
  /\ worker' = [worker EXCEPT ![w] = "looping"]

Drift(w) == AtCase(w) /\ ~Case(w).tagged /\ Break(w)

\* Capability wins over selection.
Exclude(w) ==
  /\ AtCase(w)
  /\ Case(w).tagged /\ ~Case(w).applies
  /\ Emit(w, "not-applicable")
  /\ UNCHANGED <<config, now, abandoned, verdict>>

Deselect(w) ==
  /\ AtCase(w)
  /\ Case(w).tagged /\ Case(w).applies /\ ~Case(w).selected
  /\ Emit(w, "deselected")
  /\ UNCHANGED <<config, now, abandoned, verdict>>

\* A fresh instance is enumerated for the case, without a time limit.  If it
\* cannot be, or has another case at the index, the loop throws.
Relocate(w) ==
  /\ AtCase(w)
  /\ Case(w).tagged /\ Case(w).applies /\ Case(w).selected
  /\ \/ /\ worker' = [worker EXCEPT ![w] = "running"]
        /\ UNCHANGED <<config, now, at, counts, abandoned, channel, verdict>>
     \/ Break(w)

Decide(w, status) ==
  /\ Emit(w, status)
  /\ verdict' = [verdict EXCEPT ![now] =
       [i \in DOMAIN @ \union {at[w]} |-> IF i = at[w] THEN status ELSE @[i]]]
  /\ UNCHANGED <<config, now>>

\* The attempt returns, reports a failure or a skip, or traps.
EndCase(w) ==
  /\ worker[w] = "running"
  /\ \E status \in Verdicts : Decide(w, status)
  /\ UNCHANGED abandoned

\* The timer wins the race, and the attempt goes on.
TimeOut(w) ==
  /\ worker[w] = "running"
  /\ Suite.timed
  /\ Decide(w, "fail")
  /\ abandoned' = [abandoned EXCEPT ![w] = @ \union {at[w]}]

\* Mutant: the end of an attempt that was given up is reported like another.
LateReported(w) ==
  /\ worker[w] # "terminated"
  /\ \E i \in abandoned[w] :
       /\ abandoned' = [abandoned EXCEPT ![w] = @ \ {i}]
       /\ Post(w, Event(i, "pass"))
  /\ UNCHANGED <<config, now, worker, at, counts, verdict>>

\* An attempt that was given up ends, and the race is over.
Late(w) ==
  /\ worker[w] # "terminated"
  /\ \E i \in abandoned[w] : abandoned' = [abandoned EXCEPT ![w] = @ \ {i}]
  /\ UNCHANGED <<config, now, worker, at, counts, channel, verdict>>

\* A rejection escapes what is awaited: it is posted as an error, once is
\* enough here, and the loop does not notice.
Escape(w) ==
  /\ worker[w] # "terminated"
  /\ worker[w] = "running" \/ abandoned[w] # {}
  /\ \A k \in DOMAIN channel[w] : channel[w][k].kind # "error"
  /\ Post(w, [kind |-> "error"])
  /\ UNCHANGED <<config, now, worker, at, counts, abandoned, verdict>>

\* Only a worker that has the whole census to itself can tell that the filter
\* selects nothing.
EndLoop(w) ==
  /\ worker[w] = "looping"
  /\ at[w] \notin Census
  /\ IF Suite.only /\ Pool = 1 /\ counts[w]["selected"] = 0
     THEN Break(w)
     ELSE /\ Post(w, [kind |-> "counts", counts |-> counts[w]])
          /\ worker' = [worker EXCEPT ![w] = "over"]
          /\ UNCHANGED <<config, now, at, counts, abandoned, verdict>>

HarnessNext(w) ==
  \/ Boot(w) \/ Drift(w) \/ Exclude(w) \/ Deselect(w) \/ Relocate(w) \/ EndCase(w)
  \/ TimeOut(w) \/ Late(w) \/ Escape(w) \/ EndLoop(w)
=============================================================================
