------------------------------ MODULE PagePool -------------------------------
(***************************************************************************)
(* The page's pool runner (src/js/viewer/page-runner.mjs): suite after     *)
(* suite, a worker per shard (JsHarness); when all have sent their counts  *)
(* the events are put in census order, and after the last suite everything *)
(* is reported, or an error as soon as there is one.                       *)
(***************************************************************************)
EXTENDS JsHarness, SequencesExt

CONSTANT BeatEvery   \* a heartbeat in so many rows (25 in the code)

ASSUME PoolAssumption == BeatEvery \in Nat \ {0}

VARIABLES
  page,      \* "blank", "running", "reported", or "gone"
  rows,      \* rows of all suites so far
  received,  \* per worker: the events the page has from it
  finished,  \* the workers whose counts have come, with them
  out,       \* the suites that are done: key -> [lines, counts]
  payload,   \* what was reported: <<>>, or an error, or out
  quiet      \* no heartbeat for the driver's stall timeout

pvars == <<page, rows, received, finished, out, payload, quiet>>

Alive == page \in {"running", "reported"}

PoolInit ==
  /\ HarnessInit
  /\ page = "blank"
  /\ rows = 0
  /\ received = [w \in Workers |-> <<>>]
  /\ finished = [w \in {} |-> Zero]
  /\ out = [k \in {} |-> <<>>]
  /\ payload = <<>>
  /\ quiet = FALSE

Beat == quiet' = FALSE

StartSuite(s) ==
  /\ Hired(s)
  /\ received' = [w \in Workers |-> <<>>]
  /\ finished' = [w \in {} |-> Zero]
  /\ Beat

\* The page's script has been loaded.
StartPage ==
  /\ page = "blank"
  /\ page' = "running"
  /\ StartSuite(1)
  /\ UNCHANGED <<config, verdict, rows, out, payload>>

\* The page's next message is this worker's, which was not terminated.
Receives(w, kind) ==
  /\ Alive
  /\ worker[w] # "terminated"
  /\ channel[w] # <<>> /\ Head(channel[w]).kind = kind

TakeEvent(w) ==
  /\ Receives(w, "event")
  /\ received' = [received EXCEPT ![w] = Append(@, Head(channel[w]))]
  /\ channel' = [channel EXCEPT ![w] = Tail(@)]
  /\ rows' = rows + 1
  /\ IF (rows + 1) % BeatEvery = 0 THEN Beat ELSE UNCHANGED quiet
  /\ UNCHANGED <<config, now, worker, at, counts, abandoned, verdict, page, finished, out, payload>>

Terminate(w) ==
  /\ worker' = [worker EXCEPT ![w] = "terminated"]
  /\ channel' = [channel EXCEPT ![w] = <<>>]
  /\ abandoned' = [abandoned EXCEPT ![w] = {}]
  /\ UNCHANGED <<config, now, at, counts, verdict>>

Report(what) == page' = "reported" /\ payload' = what
Error == [error |-> TRUE]
Whole == [error |-> FALSE, out |-> out']

\* The first error is reported; the other workers are not stopped.
TakeError(w) ==
  /\ Receives(w, "error")
  /\ Terminate(w)
  /\ IF page = "running" THEN Report(Error) ELSE UNCHANGED <<page, payload>>
  /\ UNCHANGED <<rows, received, finished, out, quiet>>

-----------------------------------------------------------------------------
\* Mutant: the shards' events stay one shard after the other.
UnsortedEvents == FlattenSeq(received)

\* How many events are before this one, or this one, when they are sorted.
Place(events, k) ==
  Cardinality({j \in DOMAIN events : \/ events[j].index < events[k].index
                                     \/ events[j].index = events[k].index /\ j <= k})

\* The events of all shards in census order.
SortedEvents ==
  LET events == FlattenSeq(received) IN
  [n \in DOMAIN events |-> events[CHOOSE k \in DOMAIN events : Place(events, k) = n]]

MergeCounts(parts) == [c \in Counted |-> SumFunction([w \in Workers |-> parts[w][c]])]

Lines == [k \in DOMAIN SortedEvents |-> [case |-> SortedEvents[k].index, status |-> SortedEvents[k].status]]

\* All counts are in.  A filter that selects nothing shows only here.
EndSuite(merged) ==
  IF Suite.only /\ merged["selected"] = 0
  THEN Report(Error) /\ UNCHANGED <<out>>
  ELSE /\ out' = [k \in DOMAIN out \union {Suite.key} |->
                    IF k = Suite.key THEN [lines |-> Lines, counts |-> merged] ELSE out[k]]
       /\ IF now = Len(suites) THEN Report(Whole) ELSE UNCHANGED <<page, payload>>

\* The counts of the last shard end the suite, and the next suite's workers
\* are hired, unless an error was reported before.
TakeCounts(w) ==
  /\ Receives(w, "counts")
  /\ LET parts == [v \in DOMAIN finished \union {w} |->
                     IF v = w THEN Head(channel[w]).counts ELSE finished[v]] IN
     IF page = "running" /\ DOMAIN parts = Workers
     THEN /\ EndSuite(MergeCounts(parts))
          /\ IF page' = "running"
             THEN StartSuite(now + 1) /\ UNCHANGED <<config, verdict>>
             ELSE Terminate(w) /\ finished' = parts /\ UNCHANGED <<received, quiet>>
     ELSE /\ Terminate(w)
          /\ finished' = parts
          /\ UNCHANGED <<page, received, out, payload, quiet>>
  /\ UNCHANGED rows

-----------------------------------------------------------------------------
Work(w) == Alive /\ HarnessNext(w) /\ UNCHANGED pvars

PoolNext ==
  \/ StartPage
  \/ \E w \in Workers : Work(w) \/ TakeEvent(w) \/ TakeError(w) \/ TakeCounts(w)
=============================================================================
