---------------------------- MODULE BrowserDriver ----------------------------
(***************************************************************************)
(* The driver of the harness page (src/js/browser-driver.mjs,              *)
(* runPageHarness), from where the browser has been launched: it prepares  *)
(* a promise of the page's report, which a crash, an uncaught page error   *)
(* or a stall rejects, opens the page (PagePool), and only then awaits the *)
(* report.  A rejection of a promise nobody awaits ends the Node process.  *)
(***************************************************************************)
EXTENDS PagePool

VARIABLES
  driver,    \* "loading", "awaiting", "returned", "thrown", or "aborted"
  report,    \* the promise: "pending", "resolved", or "rejected"
  watchdog   \* its interval timer is armed

dvars == <<driver, report, watchdog>>
vars  == <<config, now, worker, at, counts, abandoned, channel, verdict, page, rows,
           received, finished, out, payload, quiet, driver, report, watchdog>>

Settled == {"returned", "thrown", "aborted"}

Init ==
  /\ PoolInit
  /\ driver = "loading"
  /\ report = "pending"
  /\ watchdog = TRUE

-----------------------------------------------------------------------------
\* Mutant: the report is listened to from its first rows on.
AwaitedLate == driver = "awaiting" /\ rows # 0

Awaited == driver = "awaiting"

\* The page is closed with its browser, or by the end of the process.
Close == page' = "gone"

\* reject: nothing, if the promise is settled; the end of the process, and of
\* the page with it, if nobody awaits it.
Reject ==
  IF report # "pending"
  THEN UNCHANGED <<driver, report>>
  ELSE /\ report' = "rejected"
       /\ driver' = IF Awaited THEN driver ELSE "aborted"

PageEnds == IF driver' = "aborted" THEN Close ELSE UNCHANGED page

PageUp == page # "gone"

\* What happens to the page, with all it was doing, and to its report.
Crash ==
  /\ PageUp
  /\ Close
  /\ Reject
  /\ UNCHANGED <<hvars, rows, received, finished, out, payload, quiet, watchdog>>

\* An error nothing in the page catches.
PageError ==
  /\ PageUp
  /\ report = "pending"
  /\ Reject
  /\ PageEnds
  /\ UNCHANGED <<hvars, rows, received, finished, out, payload, quiet, watchdog>>

\* __report reaches the driver.
Hear ==
  /\ PageUp
  /\ payload # <<>>
  /\ report = "pending"
  /\ report' = "resolved"
  /\ UNCHANGED <<hvars, pvars, driver, watchdog>>

\* Time passes without a heartbeat.
Silence ==
  /\ watchdog /\ ~quiet
  /\ driver # "aborted"
  /\ quiet' = TRUE
  /\ UNCHANGED <<hvars, page, rows, received, finished, out, payload, dvars>>

\* Mutant: the watchdog waits for the first row.
StallAfterRow ==
  /\ watchdog /\ quiet
  /\ rows # 0
  /\ driver # "aborted"
  /\ watchdog' = FALSE
  /\ Reject
  /\ PageEnds
  /\ UNCHANGED <<hvars, rows, received, finished, out, payload, quiet>>

Stall ==
  /\ watchdog /\ quiet
  /\ driver # "aborted"
  /\ watchdog' = FALSE
  /\ Reject
  /\ PageEnds
  /\ UNCHANGED <<hvars, rows, received, finished, out, payload, quiet>>

\* page.goto returns; the page's script may have run already, to its end.
Loaded ==
  /\ driver = "loading"
  /\ PageUp
  /\ driver' = "awaiting"
  /\ UNCHANGED <<hvars, pvars, report, watchdog>>

\* page.goto fails or takes too long: the driver throws and closes the
\* browser.  The watchdog has not been told.
LoadFails ==
  /\ driver = "loading"
  /\ driver' = "thrown"
  /\ Close
  /\ UNCHANGED <<hvars, rows, received, finished, out, payload, quiet, report, watchdog>>

\* The awaited promise is settled: the watchdog is stopped, an error is
\* thrown, and the browser is closed either way.
Settle ==
  /\ driver = "awaiting"
  /\ report # "pending"
  /\ driver' = IF report = "resolved" /\ ~payload.error THEN "returned" ELSE "thrown"
  /\ watchdog' = FALSE
  /\ Close
  /\ UNCHANGED <<hvars, rows, received, finished, out, payload, quiet, report>>

\* The caller has its answer.
Answered == driver \in Settled /\ UNCHANGED vars

Next ==
  \/ PoolNext /\ UNCHANGED dvars
  \/ Crash \/ PageError \/ Hear \/ Silence \/ Stall \/ Loaded \/ LoadFails \/ Settle \/ Answered

Spec == Init /\ [][Next]_vars

\* The timers of Node and of Playwright fire, and what is awaited goes on once
\* it is there.  Nothing is assumed of the page, its workers and its cases.
FairSpec ==
  /\ Spec
  /\ WF_vars(Silence) /\ WF_vars(Stall)
  /\ WF_vars(Loaded \/ LoadFails) /\ WF_vars(Settle)

-----------------------------------------------------------------------------
EventRecord == [kind : {"event"}, index : Nat, status : Statuses]

\* The variables of the driver, the page and the workers have their types,
\* and each worker keeps to its stripe.
TypeOK ==
  /\ config \in Configs
  /\ now \in 0..Len(suites)
  /\ worker \in [Workers -> {"new", "looping", "running", "over", "terminated"}]
  /\ at \in [Workers -> Nat] /\ \A w \in Workers : at[w] % Pool = w % Pool
  /\ \A w \in Workers : DOMAIN counts[w] = Counted /\ \A c \in Counted : counts[w][c] \in Nat
  /\ \A w \in Workers : abandoned[w] \subseteq 1..at[w]
  /\ \A s \in DOMAIN suites : \A i \in DOMAIN verdict[s] : verdict[s][i] \in Verdicts
  /\ page \in {"blank", "running", "reported", "gone"}
  /\ rows \in Nat
  /\ received \in [Workers -> Seq(EventRecord)]
  /\ DOMAIN finished \subseteq Workers
  /\ DOMAIN out \subseteq Keys
  /\ quiet \in BOOLEAN /\ watchdog \in BOOLEAN
  /\ driver \in Settled \union {"loading", "awaiting"}
  /\ report \in {"pending", "resolved", "rejected"}

\* What a case's event must say.
Due(s, i) ==
  LET c == suites[s].cases[i] IN
  CASE ~c.applies              -> "not-applicable"
    [] c.applies /\ ~c.selected -> "deselected"
    [] OTHER                    -> verdict[s][i]

\* What the driver returns is whole: for every suite an event of each case, in
\* census order, with what first came of it in whichever worker had it, and
\* counts that agree; no case was without tags, and a filter selected
\* something.  No worker's error, escaped rejection, late attempt, crash or
\* stall is in between.
ReturnedIsWhole ==
  driver = "returned" =>
    \A s \in DOMAIN suites :
      LET cases == suites[s].cases
          done == payload.out[suites[s].key] IN
      /\ suites[s].key \in DOMAIN payload.out
      /\ \A i \in DOMAIN cases : cases[i].tagged
      /\ done.lines = [i \in DOMAIN cases |-> [case |-> i, status |-> Due(s, i)]]
      /\ \A c \in Statuses :
           done.counts[c] = Cardinality({i \in DOMAIN cases : Due(s, i) = c})
      /\ done.counts["total"] = Len(cases)
      /\ suites[s].only => \E i \in DOMAIN cases : cases[i].selected

\* Once the report is awaited every failure is thrown and every answer final:
\* the process is only ended under the driver while the page loads, or after
\* a failure to load it.
AwaitedIsThrown ==
  [][/\ driver = "awaiting" => driver' \in {"awaiting", "returned", "thrown"}
     /\ driver = "returned" => driver' = "returned"
     /\ driver = "thrown" /\ report # "pending" => driver' = "thrown"]_vars

\* A run comes to an end whatever the page does: hung workers, endless cases
\* and instances that never come up are quiet at last.
Settles == <>(driver \in Settled)
=============================================================================
