------------------------- MODULE SuiteRunnerProofs --------------------------
(***************************************************************************)
(* Theorems about SuiteRunner, for every census length, option set and     *)
(* suite.                                                                  *)
(***************************************************************************)
EXTENDS SuiteRunner, FiniteSetTheorems, TLAPS

-----------------------------------------------------------------------------
\* The definitions a result or an event is built from have their types.

LEMMA BirthType ==
  ASSUME NEW w \in Workers, NEW birth \in BirthsAt(w) PROVE birth \in AllBirths
BY RunnerAssumption DEF BirthsAt, AllBirths

LEMMA VerdictType ==
  ASSUME NEW how PROVE VerdictOf(how) \in Verdicts
BY DEF VerdictOf, Verdicts

LEMMA KeptType ==
  ASSUME NEW s \in Session, NEW verdict
  PROVE  Kept(s, verdict) \in Session
BY DEF Kept, NoSession, Session

LEMMA RecycledType ==
  ASSUME NEW s \in Session
  PROVE  /\ Recycled(s) \in Session
         /\ Recycled(s).live = (s.live /\ ~Due(s))
<1>1. CASE Due(s)
  <2>1. Recycled(s) = NoSession
    BY <1>1 DEF Recycled
  <2>2. NoSession \in Session /\ NoSession.live = FALSE
    BY DEF NoSession, Session
  <2>3. (s.live /\ ~Due(s)) = FALSE
    BY <1>1
  <2> QED
    BY <2>1, <2>2, <2>3
<1>2. CASE ~Due(s)
  <2>1. Recycled(s) = s /\ s.live \in BOOLEAN
    BY <1>2 DEF Recycled, Session
  <2> QED
    BY <1>2, <2>1
<1> QED
  BY <1>1, <1>2

LEMMA FreshType ==
  ASSUME NEW n \in Nat PROVE FreshSession(n) \in Session
BY DEF FreshSession, NoSession, Session

LEMMA AfterRunType ==
  ASSUME NEW s \in Session, NEW how PROVE AfterRun(s, how) \in Session
<1>1. Wounds(how) \in BOOLEAN
  BY DEF Wounds
<1>2. <<>> \in Seq(Census)
  OBVIOUS
<1> QED
  BY <1>1, <1>2 DEF AfterRun, Session

LEMMA EventType ==
  ASSUME NEW r \in Result PROVE EventOf(r) \in Event
BY DEF EventOf, Event, Result, Verdicts, Returned

LEMMA AbsentType ==
  ASSUME NEW i \in Census, Action(i) # "run"
  PROVE  AbsentEvent(i) \in Event
BY DEF AbsentEvent, Event, Action

\* The position of a runnable case among the runnable ones is a number, so
\* its stripe is that of one of the run's workers.
LEMMA RankType ==
  ASSUME TypeOK, NEW i \in Census
  PROVE  /\ Rank(i) \in Nat
         /\ Rank(i) % opts.jobs \in Workers
<1> DEFINE Before == {j \in Runnable : j < i}
<1>1. IsFiniteSet(Census)
  BY RunnerAssumption, FS_Interval DEF Census
<1>2. IsFiniteSet(Before)
  BY <1>1, FS_Subset DEF Runnable
<1>3. Cardinality(Before) \in Nat
  BY <1>2, FS_CardinalityType
<1>4. Rank(i) \in Nat
  BY <1>3 DEF Rank
<1>5. opts.jobs \in 1..MaxJobs
  BY RunnerAssumption DEF TypeOK, OptionRecord
<1>6. Rank(i) % opts.jobs \in 0..(opts.jobs - 1)
  BY <1>4, <1>5, RunnerAssumption
<1> QED
  BY <1>4, <1>5, <1>6, RunnerAssumption DEF Workers

-----------------------------------------------------------------------------
TypeInv == TypeOK /\ Busy

LEMMA BusyCase ==
  ASSUME TypeInv, NEW w \in Workers, step[w] # "idle"
  PROVE  at[w] \in Census
BY RunnerAssumption DEF TypeInv, TypeOK, Busy, Census

\* What Deliver does to the variables it writes.
LEMMA DeliverType ==
  ASSUME TypeInv, NEW w \in Workers, step[w] # "idle",
         NEW verdict \in Verdicts, NEW log \in Seq(Census),
         Deliver(w, verdict, log)
  PROVE  /\ sent' \subseteq Result
         /\ results' \subseteq Result
         /\ at' \in [Workers -> 0..N]
         /\ step' \in [Workers -> {"idle", "create", "call", "running"}]
         /\ Busy'
<1> DEFINE r == [case |-> at[w], verdict |-> verdict, log |-> log]
<1>1. at[w] \in Census
  BY BusyCase
<1>2. r \in Result
  BY <1>1 DEF Result
<1>3. sent' \subseteq Result /\ results' \subseteq Result
  BY <1>2 DEF Deliver, TypeInv, TypeOK
<1>4. /\ at' \in [Workers -> 0..N]
      /\ step' \in [Workers -> {"idle", "create", "call", "running"}]
      /\ Busy'
  BY RunnerAssumption DEF Deliver, TypeInv, TypeOK, Busy
<1> QED
  BY <1>3, <1>4

LEMMA TypeInit == Init => TypeInv
<1> SUFFICES ASSUME Init PROVE TypeInv
  OBVIOUS
<1>1. NoSession \in Session
  BY DEF NoSession, Session
<1>2. summary \in [DOMAIN NoCounts -> Nat]
  BY DEF NoCounts, Init
<1>3. next \in 1..(N + 1)
  BY RunnerAssumption DEF Init
<1>4. said \in [Census -> 0..MaxDiags]
  BY RunnerAssumption DEF Init
<1>5. at \in [Workers -> 0..N]
  BY RunnerAssumption DEF Init
<1>6. fate \in [Census -> AllFates \union AllBirths \union {"none", "missing"}]
  BY DEF Init
<1>7. Busy
  BY DEF Init, Busy
<1>8. events \in Seq(Event) /\ sent \subseteq Result /\ results \subseteq Result
  BY DEF Init
<1>9. /\ session \in [Workers -> Session]
      /\ todo \in [Workers -> SUBSET Census]
      /\ step \in [Workers -> {"idle", "create", "call", "running"}]
      /\ runs \in [Census -> Nat]
  BY <1>1 DEF Init
<1>10. /\ opts \in Options /\ suite \in Suites /\ header \in BOOLEAN
       /\ phase \in {"inventory", "header", "census", "serving", "emitting"} \union Final
  BY DEF Init
<1> QED
  BY <1>2, <1>3, <1>4, <1>5, <1>6, <1>7, <1>8, <1>9, <1>10 DEF TypeInv, TypeOK

LEMMA PrintType ==
  ASSUME TypeInv, next <= N, NEW e \in Event, EmitLine(e)
  PROVE  /\ events' \in Seq(Event)
         /\ next' \in 1..(N + 1)
         /\ summary' \in [DOMAIN NoCounts -> Nat]
<1>1. events' \in Seq(Event)
  BY DEF EmitLine, TypeInv, TypeOK
<1>2. next' \in 1..(N + 1)
  BY RunnerAssumption DEF EmitLine, TypeInv, TypeOK
<1>3. e.status \in DOMAIN NoCounts
  BY DEF Event, NoCounts
<1>4. summary' \in [DOMAIN NoCounts -> Nat]
  BY <1>3 DEF EmitLine, Counted, TypeInv, TypeOK
<1> QED
  BY <1>1, <1>2, <1>4

LEMMA TypeNext == TypeInv /\ [Next]_vars => TypeInv'
<1> SUFFICES ASSUME TypeInv, [Next]_vars PROVE TypeInv'
  OBVIOUS
<1> USE RunnerAssumption
<1>1. CASE ReadInventory
  BY <1>1 DEF ReadInventory, control, output, serving, truth, TypeInv, TypeOK, Busy, Final
<1>2. CASE PrintEnvelope
  BY <1>2 DEF PrintEnvelope, control, output, serving, truth, TypeInv, TypeOK, Busy, Final
<1>3. CASE Enumerate
  <2>1. \A w \in Workers : Stripe(w) \subseteq Census
    BY DEF Stripe, Runnable
  <2>2. todo' \in [Workers -> SUBSET Census]
    BY <1>3, <2>1 DEF Enumerate, TypeInv, TypeOK
  <2>3. phase' \in {"error", "serving", "emitting"}
    BY <1>3 DEF Enumerate
  <2> QED
    BY <1>3, <2>2, <2>3
    DEF Enumerate, control, output, truth, TypeInv, TypeOK, Busy, Final
<1>4. CASE Collect
  BY <1>4 DEF Collect, control, output, serving, truth, TypeInv, TypeOK, Busy
<1>5. CASE StartEmitting
  BY <1>5 DEF StartEmitting, control, output, serving, truth, TypeInv, TypeOK, Busy
<1>6. CASE EmitAbsent
  <2>1. next <= N /\ Action(next) # "run" /\ EmitLine(AbsentEvent(next))
    BY <1>6 DEF EmitAbsent
  <2>2. AbsentEvent(next) \in Event
    BY <2>1, AbsentType DEF TypeInv, TypeOK, Census
  <2>3. /\ events' \in Seq(Event)
        /\ next' \in 1..(N + 1)
        /\ summary' \in [DOMAIN NoCounts -> Nat]
        /\ header' = header
    BY <2>1, <2>2, PrintType DEF EmitLine
  <2> QED
    BY <1>6, <2>3 DEF EmitAbsent, control, serving, truth, TypeInv, TypeOK, Busy
<1>7. CASE EmitResult
  <2>1. PICK r \in results : EmitLine(EventOf(r)) /\ results' = results \ {r}
    BY <1>7 DEF EmitResult
  <2>2. EventOf(r) \in Event
    BY <2>1, EventType DEF TypeInv, TypeOK
  <2>3. next <= N
    BY <1>7 DEF EmitResult
  <2>4. /\ events' \in Seq(Event)
        /\ next' \in 1..(N + 1)
        /\ summary' \in [DOMAIN NoCounts -> Nat]
        /\ header' = header
    BY <2>1, <2>2, <2>3, PrintType DEF EmitLine
  <2> QED
    BY <1>7, <2>1, <2>4 DEF EmitResult, control, serving, truth, TypeInv, TypeOK, Busy
<1>8. CASE EmitTerminator
  BY <1>8 DEF EmitTerminator, control, output, serving, truth, TypeInv, TypeOK, Busy, Final
<1>9. CASE Kill
  BY <1>9 DEF Kill, control, output, serving, truth, TypeInv, TypeOK, Busy, Final
<1>10. CASE UNCHANGED vars
  BY <1>10 DEF vars, TypeInv, TypeOK, Busy
<1>11. ASSUME NEW w \in Workers, TakeCase(w) PROVE TypeInv'
  <2>1. PICK i \in todo[w] : todo' = [todo EXCEPT ![w] = @ \ {i}] /\ at' = [at EXCEPT ![w] = i]
    BY <1>11 DEF TakeCase
  <2>2. i \in Census /\ i # 0
    BY <2>1 DEF TypeInv, TypeOK, Census
  <2>3. Recycled(session[w]) \in Session
    BY RecycledType DEF TypeInv, TypeOK
  <2>4. /\ session' \in [Workers -> Session]
        /\ step' \in [Workers -> {"idle", "create", "call", "running"}]
        /\ \E live \in BOOLEAN :
              step' = [step EXCEPT ![w] = IF live THEN "call" ELSE "create"]
    <3>1. /\ session' = [session EXCEPT ![w] = Recycled(session[w])]
          /\ step' = [step EXCEPT ![w] =
                         IF Recycled(session[w]).live THEN "call" ELSE "create"]
      BY <1>11, RecycledType DEF TakeCase, TypeInv, TypeOK
    <3>2. Recycled(session[w]).live \in BOOLEAN
      BY <2>3 DEF Session
    <3> QED
      BY <2>3, <3>1, <3>2 DEF TypeInv, TypeOK
  <2>5. Busy'
    BY <2>1, <2>2, <2>4 DEF TypeInv, TypeOK, Busy
  <2>6. todo' \in [Workers -> SUBSET Census] /\ at' \in [Workers -> 0..N]
    BY <2>1, <2>2 DEF TypeInv, TypeOK, Census
  <2> QED
    BY <1>11, <2>4, <2>5, <2>6 DEF TakeCase, control, output, truth, TypeInv, TypeOK
<1>12. ASSUME NEW w \in Workers, CreateSession(w) PROVE TypeInv'
  <2>1. at[w] \in Census /\ step[w] # "idle"
    BY <1>12, BusyCase DEF CreateSession
  <2>2. PICK birth \in BirthsAt(w) :
          IF birth \in {"ok", "short"}
          THEN /\ session' = [session EXCEPT
                                ![w] = FreshSession(IF birth = "ok" THEN N ELSE N - 1)]
               /\ step' = [step EXCEPT ![w] = "call"]
               /\ UNCHANGED <<at, sent, results, fate>>
          ELSE /\ fate' = [fate EXCEPT ![at[w]] = birth]
               /\ Deliver(w, VerdictOf(birth), <<>>)
               /\ UNCHANGED session
    BY <1>12 DEF CreateSession
  <2>3. CASE birth \in {"ok", "short"}
    <3> DEFINE size == IF birth = "ok" THEN N ELSE N - 1
    <3>1. size \in Nat
      BY <2>1 DEF Census
    <3> HIDE DEF size
    <3>a. FreshSession(size) \in Session
      BY <3>1, FreshType
    <3> USE DEF size
    <3>2. session' \in [Workers -> Session]
      BY <2>2, <2>3, <3>a DEF TypeInv, TypeOK
    <3>3. step' \in [Workers -> {"idle", "create", "call", "running"}] /\ Busy'
      BY <2>1, <2>2, <2>3 DEF TypeInv, TypeOK, Busy
    <3> QED
      BY <1>12, <2>2, <2>3, <3>2, <3>3
      DEF CreateSession, control, output, TypeInv, TypeOK
  <2>4. CASE birth \notin {"ok", "short"}
    <3>1. /\ sent' \subseteq Result
          /\ results' \subseteq Result
          /\ at' \in [Workers -> 0..N]
          /\ step' \in [Workers -> {"idle", "create", "call", "running"}]
          /\ Busy'
      <4>1. <<>> \in Seq(Census)
        OBVIOUS
      <4> QED
        BY <2>1, <2>2, <2>4, <4>1, VerdictType, DeliverType
    <3>2. fate' \in [Census -> AllFates \union AllBirths \union {"none", "missing"}]
      BY <2>2, <2>4, BirthType DEF TypeInv, TypeOK
    <3> QED
      BY <1>12, <2>2, <2>4, <3>1, <3>2
      DEF CreateSession, control, output, TypeInv, TypeOK
  <2> QED
    BY <2>3, <2>4
<1>13. ASSUME NEW w \in Workers, CallCase(w) PROVE TypeInv'
  <2> DEFINE i == at[w]
             s == [session[w] EXCEPT !.served = @ + 1]
  <2>1. i \in Census /\ step[w] # "idle"
    BY <1>13, BusyCase DEF CallCase
  <2>2. s \in Session /\ \A v : Kept(s, v) \in Session
    <3>1. session[w] \in Session
      BY DEF TypeInv, TypeOK
    <3>2. s \in Session
      BY <3>1 DEF Session
    <3> HIDE DEF s
    <3> QED
      BY <3>2, KeptType
  <2>3. ASSUME NEW failure \in NameFailures(i, s),
               fate' = [fate EXCEPT ![i] = failure],
               session' = [session EXCEPT ![w] = Kept(s, VerdictOf(failure))],
               Deliver(w, VerdictOf(failure), <<>>),
               UNCHANGED runs
        PROVE  TypeInv'
    <3>1. failure \in AllBirths \union {"missing"}
      BY <2>3 DEF NameFailures
    <3>2. /\ sent' \subseteq Result
          /\ results' \subseteq Result
          /\ at' \in [Workers -> 0..N]
          /\ step' \in [Workers -> {"idle", "create", "call", "running"}]
          /\ Busy'
      <4>1. <<>> \in Seq(Census)
        OBVIOUS
      <4> QED
        BY <2>1, <2>3, <4>1, VerdictType, DeliverType
    <3>3. fate' \in [Census -> AllFates \union AllBirths \union {"none", "missing"}]
      BY <2>3, <3>1 DEF TypeInv, TypeOK
    <3>4. session' \in [Workers -> Session]
      BY <2>2, <2>3 DEF TypeInv, TypeOK
    <3> QED
      BY <1>13, <2>3, <3>2, <3>3, <3>4 DEF CallCase, control, output, TypeInv, TypeOK
  <2>4. CASE /\ \E f \in Fates : fate' = [fate EXCEPT ![i] = f]
             /\ runs' = [runs EXCEPT ![i] = @ + 1]
             /\ session' = [session EXCEPT ![w] = s]
             /\ step' = [step EXCEPT ![w] = "running"]
             /\ UNCHANGED <<at, sent, results>>
    <3>2. /\ fate' \in [Census -> AllFates \union AllBirths \union {"none", "missing"}]
          /\ runs' \in [Census -> Nat]
          /\ session' \in [Workers -> Session]
      BY <2>1, <2>2, <2>4 DEF TypeInv, TypeOK
    <3>3. step' \in [Workers -> {"idle", "create", "call", "running"}] /\ Busy'
      BY <2>1, <2>4 DEF TypeInv, TypeOK, Busy
    <3> QED
      BY <1>13, <2>4, <3>2, <3>3 DEF CallCase, control, output, TypeInv, TypeOK
  <2> QED
    BY <1>13, <2>3, <2>4 DEF CallCase
<1>14. ASSUME NEW w \in Workers, FinishCase(w) PROVE TypeInv'
  <2> DEFINE f   == fate[at[w]]
             log == IF f = "unknown" THEN <<>> ELSE session[w].log
  <2>1. at[w] \in Census /\ step[w] # "idle"
    BY <1>14, BusyCase DEF FinishCase
  <2>2. /\ session' = [session EXCEPT ![w] = Kept(AfterRun(@, f), VerdictOf(f))]
        /\ Deliver(w, VerdictOf(f), log)
    BY <1>14 DEF FinishCase
  <2>3. session[w] \in Session
    BY DEF TypeInv, TypeOK
  <2>4. session' \in [Workers -> Session]
    BY <2>2, <2>3, AfterRunType, KeptType DEF TypeInv, TypeOK
  <2>5. log \in Seq(Census)
    BY <2>3 DEF Session
  <2>6. /\ sent' \subseteq Result
        /\ results' \subseteq Result
        /\ at' \in [Workers -> 0..N]
        /\ step' \in [Workers -> {"idle", "create", "call", "running"}]
        /\ Busy'
    BY <2>1, <2>2, <2>5, VerdictType, DeliverType
  <2> QED
    BY <1>14, <2>4, <2>6 DEF FinishCase, control, output, truth, TypeInv, TypeOK
<1>15. ASSUME NEW w \in Workers, Diagnose(w) PROVE TypeInv'
  <2>1. at[w] \in Census /\ step[w] # "idle"
    BY <1>15, BusyCase DEF Diagnose
  <2>2. said' \in [Census -> 0..MaxDiags]
    BY <1>15, <2>1 DEF Diagnose, TypeInv, TypeOK
  <2>3. session[w] \in Session
    BY DEF TypeInv, TypeOK
  <2>4. [session[w] EXCEPT !.log = Append(@, at[w])] \in Session
    <3>1. Append(session[w].log, at[w]) \in Seq(Census)
      BY <2>1, <2>3 DEF Session
    <3> QED
      BY <2>3, <3>1 DEF Session
  <2>5. session' \in [Workers -> Session]
    BY <1>15, <2>4 DEF Diagnose, TypeInv, TypeOK
  <2> QED
    BY <1>15, <2>2, <2>5 DEF Diagnose, control, output, TypeInv, TypeOK, Busy
<1> QED
  BY <1>1, <1>2, <1>3, <1>4, <1>5, <1>6, <1>7, <1>8, <1>9, <1>10, <1>11, <1>12,
     <1>13, <1>14, <1>15
  DEF Next, Main, Serve, Over

\* Every state of every run is well typed.
THEOREM TypeCorrect == Spec => []TypeOK
<1>1. TypeInv => TypeOK
  BY DEF TypeInv
<1> QED
  BY TypeInit, TypeNext, <1>1, PTL DEF Spec

-----------------------------------------------------------------------------
(***************************************************************************)
(* The inductive invariant.  The schedule never changes; the steps of the  *)
(* run's own phases touch nothing else; each remaining action has a lemma. *)
(***************************************************************************)

LEMMA PlanStable ==
  ASSUME opts' = opts, suite' = suite
  PROVE  /\ \A i : Action(i)' = Action(i)
         /\ Runnable' = Runnable
         /\ \A w : Stripe(w)' = Stripe(w)
<1>1. \A i : Action(i)' = Action(i)
  BY DEF Action
<1>2. Runnable' = Runnable
  BY <1>1 DEF Runnable
<1>3. \A i : Rank(i)' = Rank(i)
  BY <1>2 DEF Rank
<1>4. \A w : Stripe(w)' = Stripe(w)
  BY <1>2, <1>3 DEF Stripe
<1> QED
  BY <1>1, <1>2, <1>4

\* An event stays truthful while its case's history stays.
LEMMA TruthfulStable ==
  ASSUME opts' = opts, suite' = suite, NEW e, NEW p,
         fate'[p] = fate[p], runs'[p] = runs[p], said'[p] = said[p],
         Truthful(e, p)
  PROVE  Truthful(e, p)'
BY PlanStable DEF Truthful

\* Two stripes share no case.
LEMMA StripesDisjoint ==
  ASSUME NEW v \in Workers, NEW w \in Workers, NEW i \in Stripe(v), i \in Stripe(w)
  PROVE  v = w
BY DEF Stripe

LEMMA InvInit == Init => RunInv
<1> SUFFICES ASSUME Init PROVE RunInv
  OBVIOUS
<1> USE RunnerAssumption DEF Init
<1>1. NotStarted /\ Assigned /\ Waiting /\ Untouched /\ Running /\ Told /\ NoRetry
  BY DEF NotStarted, Assigned, Waiting, Untouched, Running, Told, NoRetry
<1>2. Printed /\ TruthfulStream
  BY DEF Printed, Pending, TruthfulStream, Census
<1>3. Slots
  BY DEF Slots, NoSession, OptionRecord
<1>4. Covered /\ Joined /\ Excluded
  BY DEF Covered, Joined, Excluded
<1> QED
  BY <1>1, <1>2, <1>3, <1>4 DEF RunInv

\* Steps that only move the run to its next phase.
LEMMA PhaseStep ==
  ASSUME TypeInv, RunInv,
         UNCHANGED <<opts, suite, events, next, todo, at, step, session, sent, results,
                     fate, runs, said>>,
         phase' \in {"inventory", "header", "census"}
           => phase \in {"inventory", "header", "census"},
         phase' \in {"serving", "emitting"} => phase \in {"serving", "emitting"},
         Joined'
  PROVE  RunInv'
<1> USE DEF RunInv
<1>1. NotStarted'
  BY DEF NotStarted
<1>2. Assigned'
  BY PlanStable DEF Assigned
<1>3. Printed' /\ Waiting'
  BY PlanStable DEF Printed, Waiting, Pending
<1>4. Untouched' /\ Slots'
  BY DEF Untouched, Slots
<1>5. Running' /\ Told'
  BY DEF Running, Told, FullLog, OwnLog
<1>6. Covered'
  BY PlanStable DEF Covered, Pending
<1>7. NoRetry' /\ Excluded'
  BY PlanStable DEF NoRetry, Excluded
<1>8. TruthfulStream'
  BY TruthfulStable DEF TruthfulStream
<1> QED
  BY <1>1, <1>2, <1>3, <1>4, <1>5, <1>6, <1>7, <1>8

LEMMA EnumerateStep ==
  ASSUME TypeInv, RunInv, Enumerate
  PROVE  RunInv'
<1> USE DEF RunInv
<1>1. /\ UNCHANGED <<opts, suite, events, next, at, step, session, sent, results,
                     fate, runs, said>>
      /\ phase = "census"
  BY DEF Enumerate, control, output, truth
<1>2. /\ next = 1 /\ sent = {} /\ results = {} /\ Len(events) = 0
      /\ \A w \in Workers : todo[w] = {} /\ step[w] = "idle" /\ at[w] = 0
      /\ \A i \in Census : fate[i] = "none" /\ runs[i] = 0 /\ said[i] = 0
  BY <1>1 DEF NotStarted, Printed, TypeInv, Busy
<1>3. CASE CensusFails
  <2>1. todo' = todo /\ phase' = "error"
    BY <1>3 DEF Enumerate
  <2> QED
    BY <1>1, <2>1, PhaseStep DEF Joined
<1>4. CASE ~CensusFails
  <2>1. /\ todo' = [w \in Workers |-> Stripe(w)]
        /\ phase' = IF opts.jobs > 1 THEN "serving" ELSE "emitting"
    BY <1>4 DEF Enumerate
  <2>2. NotStarted' /\ Joined'
    BY <1>1, <1>2, <2>1 DEF NotStarted, Joined
  <2>3. Assigned'
    BY <1>1, <1>2, <2>1, PlanStable DEF Assigned
  <2>4. Printed' /\ Waiting'
    BY <1>1, <1>2 DEF Printed, Waiting, Census
  <2>5. Untouched' /\ Slots'
    BY <1>1, <1>2 DEF Untouched, Slots
  <2>6. Running' /\ Told'
    BY <1>1, <1>2 DEF Running, Told
  <2>7. Covered'
    <3>1. \A i \in Runnable : i \in Stripe(Rank(i) % opts.jobs)
      BY DEF Stripe
    <3>2. \A i \in Runnable : Rank(i) % opts.jobs \in Workers
      BY RankType DEF Runnable, TypeInv
    <3>3. \A i \in Runnable : \E w \in Workers : i \in todo'[w]
      BY <2>1, <3>1, <3>2
    <3> QED
      BY <1>1, <3>3, PlanStable DEF Covered, Pending
  <2>8. NoRetry' /\ Excluded' /\ TruthfulStream'
    BY <1>1, <1>2 DEF NoRetry, Excluded, TruthfulStream
  <2> QED
    BY <2>2, <2>3, <2>4, <2>5, <2>6, <2>7, <2>8
<1> QED
  BY <1>3, <1>4

\* Taking a case moves it from the worker's stripe to the worker.
LEMMA TakeCaseStep ==
  ASSUME TypeInv, RunInv, phase \notin Final, NEW w \in Workers, TakeCase(w)
  PROVE  RunInv'
<1> USE DEF RunInv
<1>1. PICK i \in todo[w] :
        /\ MayServe(i)
        /\ todo' = [todo EXCEPT ![w] = @ \ {i}]
        /\ at' = [at EXCEPT ![w] = i]
  BY DEF TakeCase
<1>2. /\ UNCHANGED <<opts, suite, phase, events, next, sent, results, fate, runs, said>>
      /\ step[w] = "idle" /\ at[w] = 0
      /\ session' = [session EXCEPT ![w] = Recycled(session[w])]
      /\ step' = [step EXCEPT ![w] =
                     IF Recycled(session[w]).live THEN "call" ELSE "create"]
  BY RecycledType DEF TakeCase, control, output, truth, TypeInv, TypeOK, Busy
<1>3. i \in Stripe(w) /\ i \in Census /\ i # 0 /\ i \in Nat
  BY <1>1, RunnerAssumption DEF Assigned, Stripe, Runnable, Census
<1>4. phase \in {"serving", "emitting"}
  BY <1>1 DEF MayServe
<1>5. \A j \in Census : Pending(j)' <=> Pending(j)
  BY <1>1, <1>2, <1>3, RunnerAssumption DEF Pending, TypeInv, TypeOK, Census
<1>6. NotStarted'
  BY <1>2, <1>4 DEF NotStarted
<1>7. Assigned'
  BY <1>1, <1>2, <1>3, PlanStable DEF Assigned, TypeInv, TypeOK
<1>8. Printed' /\ Waiting'
  BY <1>2, <1>5, PlanStable DEF Printed, Waiting, Runnable
<1>9. Untouched'
  BY <1>1, <1>2, <1>3 DEF Untouched, TypeInv, TypeOK
<1>10. Slots'
  <2>1. session[w] \in Session /\ opts.perInstance \in Nat
    BY RunnerAssumption DEF TypeInv, TypeOK, OptionRecord
  <2> DEFINE s == Recycled(session[w])
  <2>2. /\ ~s.wounded /\ s.log = <<>>
        /\ opts.perInstance # 0 => s.served <= opts.perInstance
        /\ s.live => (opts.perInstance # 0 => s.served < opts.perInstance)
    BY <1>2, <2>1 DEF Slots, Recycled, Due, NoSession, Session
  <2> HIDE DEF s
  <2> QED
    BY <1>1, <1>2, <2>2 DEF s, Slots, TypeInv, TypeOK
<1>11. Running'
  BY <1>1, <1>2 DEF Running, FullLog, OwnLog, TypeInv, TypeOK
<1>12. Told'
  BY <1>2 DEF Told, FullLog, OwnLog
<1>13. Covered'
  BY <1>2, <1>5, PlanStable DEF Covered, Runnable
<1>14. Joined'
  <2>1. phase = "emitting" => sent = {} /\ ~(opts.jobs > 1)
    BY <1>1 DEF Joined, AllServed
  <2> QED
    BY <1>2, <2>1 DEF Joined
<1>15. NoRetry' /\ Excluded'
  BY <1>2, PlanStable DEF NoRetry, Excluded
<1>16. TruthfulStream'
  BY <1>2, TruthfulStable DEF TruthfulStream
<1> QED
  BY <1>6, <1>7, <1>8, <1>9, <1>10, <1>11, <1>12, <1>13, <1>14, <1>15, <1>16

\* A worker hands case i over: it stops being pending, and its result, which
\* tells how it ended, starts waiting.  The parts of the invariant that every
\* delivery disturbs in the same way.
LEMMA DeliverStep ==
  ASSUME TypeInv, RunInv, phase \notin Final, NEW w \in Workers, step[w] # "idle",
         NEW verdict, NEW log, Deliver(w, verdict, log),
         UNCHANGED <<opts, suite, phase, events, next, todo, said>>,
         \A j \in Census : j # at[w] => fate'[j] = fate[j] /\ runs'[j] = runs[j],
         runs'[at[w]] = runs[at[w]],
         fate'[at[w]] \notin {"none", "ok", "short"},
         verdict = VerdictOf(fate'[at[w]]),
         OwnLog(log, at[w]),
         fate'[at[w]] # "unknown" => Len(log) = said[at[w]]
  PROVE  /\ NotStarted' /\ Assigned' /\ Printed' /\ Waiting' /\ Untouched'
         /\ Told' /\ Covered' /\ Joined' /\ NoRetry' /\ Excluded' /\ TruthfulStream'
<1> USE DEF RunInv
<1> DEFINE i == at[w]
           r == [case |-> i, verdict |-> verdict, log |-> log]
<1>1. /\ i \in Census /\ i # 0 /\ i \in Nat /\ i \in Stripe(w) /\ i \in Runnable
      /\ i \notin todo[w]
  BY BusyCase, RunnerAssumption DEF Census, Assigned, Stripe
<1>2. /\ sent' \union results' = (sent \union results) \union {r}
      /\ at' = [at EXCEPT ![w] = 0]
      /\ step' = [step EXCEPT ![w] = "idle"]
  BY DEF Deliver
<1>3. \A v \in Workers : v # w => i \notin todo[v] /\ at[v] # i
  BY <1>1, StripesDisjoint DEF Assigned
<1>4. \A j \in Census : Pending(j)' <=> Pending(j) /\ j # i
  BY <1>1, <1>2, <1>3, RunnerAssumption DEF Pending, TypeInv, TypeOK, Census
<1>5. phase \in {"serving", "emitting"} /\ (opts.jobs > 1 => phase = "serving")
  BY DEF NotStarted, Joined, AllServed, TypeInv, TypeOK
<1>6. ~(i < next)
  BY <1>1 DEF Printed, Pending
<1>7. \A q \in sent \union results : q.case \in Census /\ q.case # i
  BY <1>1 DEF Waiting, Pending, Runnable
<1>8. NotStarted'
  BY <1>5 DEF NotStarted
<1>9. Assigned'
  BY <1>2, PlanStable DEF Assigned, TypeInv, TypeOK
<1>10. Printed'
  BY <1>4 DEF Printed
<1>11. Waiting'
  <2>1. i >= next
    BY <1>1, <1>6 DEF TypeInv, TypeOK
  <2>2. \A j \in Census : j = i \/ ~Pending(j) => ~Pending(j)'
    BY <1>4
  <2>3. ASSUME NEW q \in sent' \union results'
        PROVE  /\ q.case \in Runnable /\ q.case >= next /\ ~Pending(q.case)'
               /\ \A p \in sent' \union results' : p.case = q.case => p = q
    <3>1. r.case = i
      OBVIOUS
    <3>2. \A p \in sent' \union results' : p = r \/ p \in sent \union results
      BY <1>2
    <3>3. \A p \in sent \union results :
            /\ p.case \in Runnable /\ p.case >= next /\ ~Pending(p.case)
            /\ \A o \in sent \union results : o.case = p.case => o = p
      BY DEF Waiting
    <3> HIDE DEF r, i
    <3>4. q.case \in Runnable /\ q.case >= next
      BY <1>1, <2>1, <3>1, <3>2, <3>3
    <3>5. q.case \in Census /\ (q.case = i \/ ~Pending(q.case))
      BY <1>1, <1>7, <3>1, <3>2, <3>3
    <3>6. ~Pending(q.case)'
      BY <2>2, <3>5
    <3>7. \A p \in sent' \union results' : p.case = q.case => p = q
      BY <1>7, <3>1, <3>2, <3>3
    <3> QED
      BY <3>4, <3>6, <3>7
  <2> QED
    BY <2>3, PlanStable DEF Waiting
<1>12. Untouched'
  <2> SUFFICES ASSUME NEW v \in Workers, NEW j \in Census,
                      j \in todo[v] \/ (at'[v] = j /\ step'[v] # "running")
               PROVE  fate'[j] = "none" /\ runs'[j] = 0 /\ said[j] = 0
    BY DEF Untouched
  <2>1. j # 0
    BY DEF Census
  <2>2. j # i
    BY <1>1, <1>2, <1>3, <2>1 DEF TypeInv, TypeOK
  <2>3. j \in todo[v] \/ (at[v] = j /\ step[v] # "running")
    BY <1>2, <2>1 DEF TypeInv, TypeOK
  <2>4. fate[j] = "none" /\ runs[j] = 0 /\ said[j] = 0
    BY <2>3 DEF Untouched
  <2> QED
    BY <2>2, <2>4
<1>13. Told'
  <2>1. \A q \in sent' \union results' : q = r \/ q \in sent \union results
    BY <1>2
  <2>2. \A q \in sent \union results : fate'[q.case] = fate[q.case]
    BY <1>7
  <2>3. r.case = i /\ r.verdict = verdict /\ r.log = log
    OBVIOUS
  <2> HIDE DEF r
  <2> QED
    BY <2>1, <2>2, <2>3 DEF Told, FullLog, OwnLog
<1>14. Covered'
  <2>1. r \in sent' \union results' /\ r.case = i
    BY <1>2
  <2>2. sent \union results \subseteq sent' \union results'
    BY <1>2
  <2> HIDE DEF r, i
  <2> QED
    BY <1>4, <1>5, <2>1, <2>2, PlanStable DEF Covered, Runnable
<1>15. Joined'
  BY <1>5 DEF Joined, Deliver
<1>16. NoRetry' /\ Excluded'
  <2>1. \A j \in Census : runs'[j] = runs[j]
    OBVIOUS
  <2>2. \A j \in Census : Action(j) # "run" => fate'[j] = fate[j]
    BY <1>1 DEF Runnable
  <2> QED
    BY <2>1, <2>2, PlanStable DEF NoRetry, Excluded
<1>17. TruthfulStream'
  <2>1. next \in 1..(N + 1) /\ Len(events) = next - 1
    BY DEF Printed, TypeInv, TypeOK
  <2>2. \A p \in 1..Len(events) : p \in Census /\ p < next
    BY <2>1, RunnerAssumption DEF Census
  <2>3. \A p \in 1..Len(events) :
          fate'[p] = fate[p] /\ runs'[p] = runs[p] /\ said'[p] = said[p]
    BY <1>6, <2>2
  <2> QED
    BY <2>3, TruthfulStable DEF TruthfulStream
<1> QED
  BY <1>8, <1>9, <1>10, <1>11, <1>12, <1>13, <1>14, <1>15, <1>16, <1>17

\* A new session is fresh; failing to create one is the case's verdict.
LEMMA CreateSessionStep ==
  ASSUME TypeInv, RunInv, phase \notin Final, NEW w \in Workers, CreateSession(w)
  PROVE  RunInv'
<1> USE DEF RunInv
<1>1. /\ UNCHANGED <<opts, suite, phase, events, next, todo, runs, said>>
      /\ step[w] = "create" /\ at[w] \in Census
  BY BusyCase DEF CreateSession, control, output
<1>2. PICK birth \in BirthsAt(w) :
        IF birth \in {"ok", "short"}
        THEN /\ session' = [session EXCEPT
                              ![w] = FreshSession(IF birth = "ok" THEN N ELSE N - 1)]
             /\ step' = [step EXCEPT ![w] = "call"]
             /\ UNCHANGED <<at, sent, results, fate>>
        ELSE /\ fate' = [fate EXCEPT ![at[w]] = birth]
             /\ Deliver(w, VerdictOf(birth), <<>>)
             /\ UNCHANGED session
  BY DEF CreateSession
<1>3. CASE birth \in {"ok", "short"}
  <2>1. PICK size : session' = [session EXCEPT ![w] = FreshSession(size)]
    BY <1>2, <1>3
  <2>2. step' = [step EXCEPT ![w] = "call"] /\ UNCHANGED <<at, sent, results, fate>>
    BY <1>2, <1>3
  <2>3. NotStarted' /\ Joined'
    BY <1>1, <2>2 DEF NotStarted, Joined, AllServed, TypeInv, TypeOK
  <2>4. Assigned' /\ NoRetry' /\ Excluded'
    BY <1>1, <2>2, PlanStable DEF Assigned, NoRetry, Excluded
  <2>5. Printed' /\ Waiting' /\ Covered'
    BY <1>1, <2>2, PlanStable DEF Printed, Waiting, Covered, Pending
  <2>6. Untouched'
    BY <1>1, <2>2 DEF Untouched, TypeInv, TypeOK
  <2>7. Slots'
    BY <1>1, <2>1, <2>2, RunnerAssumption
    DEF Slots, FreshSession, TypeInv, TypeOK, OptionRecord
  <2>8. Running' /\ Told'
    BY <1>1, <2>1, <2>2 DEF Running, Told, FullLog, OwnLog, TypeInv, TypeOK
  <2>9. TruthfulStream'
    BY <1>1, <2>2, TruthfulStable DEF TruthfulStream
  <2> QED
    BY <2>3, <2>4, <2>5, <2>6, <2>7, <2>8, <2>9
<1>4. CASE birth \notin {"ok", "short"}
  <2>1. /\ fate' = [fate EXCEPT ![at[w]] = birth]
        /\ Deliver(w, VerdictOf(birth), <<>>)
        /\ UNCHANGED session
    BY <1>2, <1>4
  <2>2. /\ fate'[at[w]] = birth /\ birth \notin {"none", "ok", "short", "unknown"}
        /\ \A j \in Census : j # at[w] => fate'[j] = fate[j] /\ runs'[j] = runs[j]
    BY <1>1, <1>4, <2>1, BirthType DEF AllBirths, TypeInv, TypeOK
  <2>3. said[at[w]] = 0 /\ OwnLog(<<>>, at[w])
    BY <1>1 DEF Untouched, OwnLog
  <2>4. /\ NotStarted' /\ Assigned' /\ Printed' /\ Waiting' /\ Untouched'
        /\ Told' /\ Covered' /\ Joined' /\ NoRetry' /\ Excluded' /\ TruthfulStream'
    BY <1>1, <2>1, <2>2, <2>3, DeliverStep
  <2>5. step' = [step EXCEPT ![w] = "idle"] /\ at' = [at EXCEPT ![w] = 0]
    BY <2>1 DEF Deliver
  <2>6. Slots'
    BY <1>1, <2>1, <2>5 DEF Slots, TypeInv, TypeOK
  <2>7. Running'
    <3> SUFFICES ASSUME NEW v \in Workers, step'[v] = "running"
                 PROVE  /\ fate'[at'[v]] \in AllFates
                        /\ runs'[at'[v]] = 1
                        /\ FullLog(session[v].log, at[v]) /\ at'[v] = at[v]
      BY <1>1, <2>1 DEF Running, FullLog, OwnLog
    <3>1. v # w /\ step[v] = "running" /\ at'[v] = at[v]
      BY <2>5 DEF TypeInv, TypeOK
    <3>2. at[v] \in Census /\ at[v] # at[w]
      BY <1>1, <3>1, StripesDisjoint, BusyCase, RunnerAssumption DEF Assigned, Census
    <3> QED
      BY <1>1, <2>2, <3>1, <3>2 DEF Running
  <2> QED
    BY <2>4, <2>6, <2>7
<1> QED
  BY <1>3, <1>4

\* A call either finds no such case in its instance, or starts the run.
LEMMA CallCaseStep ==
  ASSUME TypeInv, RunInv, phase \notin Final, NEW w \in Workers, CallCase(w)
  PROVE  RunInv'
<1> USE DEF RunInv
<1> DEFINE i == at[w]
           s == [session[w] EXCEPT !.served = @ + 1]
<1>1. /\ UNCHANGED <<opts, suite, phase, events, next, todo, said>>
      /\ step[w] = "call" /\ i \in Census /\ i # 0
  BY BusyCase DEF CallCase, control, output, Census
<1>2. fate[i] = "none" /\ runs[i] = 0 /\ said[i] = 0
  BY <1>1 DEF Untouched
<1>3. ASSUME NEW v \in Workers, v # w
      PROVE  i \notin todo[v] /\ at[v] # i
  BY <1>1, <1>3, StripesDisjoint DEF Assigned
<1>4. /\ s.live /\ ~s.wounded /\ s.log = <<>> /\ s.served # 0
      /\ s.size = session[w].size
      /\ opts.perInstance # 0 => s.served <= opts.perInstance
  <2>1. session[w] \in Session /\ opts.perInstance \in Nat
    BY RunnerAssumption DEF TypeInv, TypeOK, OptionRecord
  <2> QED
    BY <1>1, <2>1 DEF Slots, Session
<1>5. ASSUME NEW failure \in NameFailures(i, s),
             fate' = [fate EXCEPT ![i] = failure],
             session' = [session EXCEPT ![w] = Kept(s, VerdictOf(failure))],
             Deliver(w, VerdictOf(failure), <<>>),
             UNCHANGED runs
      PROVE  RunInv'
  <2>0. failure \in {"missing", "trap", "spin", "wedge"}
    BY <1>5, RunnerAssumption DEF NameFailures, AllBirths
  <2>1. session' = [session EXCEPT ![w] = NoSession]
    BY <1>5, <2>0 DEF Kept, Returned, VerdictOf
  <2>2. /\ fate'[i] = failure
        /\ failure \notin {"none", "ok", "short", "unknown"}
        /\ \A j \in Census : j # i => fate'[j] = fate[j] /\ runs'[j] = runs[j]
    BY <1>1, <1>5, <2>0 DEF TypeInv, TypeOK
  <2>3. OwnLog(<<>>, i) /\ Len(<<>>) = said[i]
    BY <1>2 DEF OwnLog
  <2>4. /\ NotStarted' /\ Assigned' /\ Printed' /\ Waiting' /\ Untouched'
        /\ Told' /\ Covered' /\ Joined' /\ NoRetry' /\ Excluded' /\ TruthfulStream'
    BY <1>1, <1>5, <2>2, <2>3, DeliverStep
  <2>5. step' = [step EXCEPT ![w] = "idle"] /\ at' = [at EXCEPT ![w] = 0]
    BY <1>5 DEF Deliver
  <2>6. Slots'
    BY <1>1, <2>1, <2>5, RunnerAssumption
    DEF Slots, NoSession, TypeInv, TypeOK, OptionRecord
  <2>7. Running'
    <3> SUFFICES ASSUME NEW v \in Workers, step'[v] = "running"
                 PROVE  /\ fate'[at'[v]] \in AllFates
                        /\ runs'[at'[v]] = 1
                        /\ session'[v] = session[v] /\ at'[v] = at[v]
                        /\ FullLog(session[v].log, at[v])
      BY <1>1 DEF Running, FullLog, OwnLog
    <3>1. v # w /\ step[v] = "running" /\ at'[v] = at[v] /\ session'[v] = session[v]
      BY <2>1, <2>5 DEF TypeInv, TypeOK
    <3>2. at[v] \in Census /\ at[v] # i
      BY <1>3, <3>1, BusyCase
    <3> QED
      BY <2>2, <3>1, <3>2 DEF Running
  <2> QED
    BY <2>4, <2>6, <2>7
<1>6. ASSUME i <= s.size,
             \E f \in Fates : fate' = [fate EXCEPT ![i] = f],
             runs' = [runs EXCEPT ![i] = @ + 1],
             session' = [session EXCEPT ![w] = s],
             step' = [step EXCEPT ![w] = "running"],
             UNCHANGED <<at, sent, results>>
      PROVE  RunInv'
  <2>2. /\ fate'[i] \in AllFates /\ runs'[i] = 1
        /\ \A j \in Census : j # i => fate'[j] = fate[j] /\ runs'[j] = runs[j]
    BY <1>1, <1>2, <1>6, RunnerAssumption DEF TypeInv, TypeOK
  <2>3. NotStarted' /\ Joined'
    BY <1>1, <1>6 DEF NotStarted, Joined, AllServed, TypeInv, TypeOK
  <2>4. Assigned' /\ Printed' /\ Waiting' /\ Covered'
    BY <1>1, <1>6, PlanStable DEF Assigned, Printed, Waiting, Covered, Pending
  <2>5. Untouched'
    <3> SUFFICES ASSUME NEW v \in Workers, NEW j \in Census,
                        j \in todo[v] \/ (at[v] = j /\ step'[v] # "running")
                 PROVE  fate'[j] = "none" /\ runs'[j] = 0 /\ said[j] = 0
      BY <1>1, <1>6 DEF Untouched
    <3>1. i \notin todo[w]
      BY <1>1 DEF Assigned
    <3>2. j # i
      BY <1>3, <1>6, <3>1 DEF TypeInv, TypeOK
    <3>3. j \in todo[v] \/ (at[v] = j /\ step[v] # "running")
      BY <1>6, <3>2 DEF TypeInv, TypeOK
    <3> QED
      BY <2>2, <3>2, <3>3 DEF Untouched
  <2>6. Slots'
    <3>1. session[w] \in Session /\ at[w] \in Nat
      BY <1>1 DEF TypeInv, TypeOK, Census
    <3>2. at[w] <= s.size
      BY <1>4, <1>6, <3>1 DEF Session
    <3> HIDE DEF s
    <3> QED
      BY <1>1, <1>4, <1>6, <3>2 DEF Slots, TypeInv, TypeOK
  <2>7. Running'
    <3> SUFFICES ASSUME NEW v \in Workers, step'[v] = "running"
                 PROVE  /\ fate'[at[v]] \in AllFates
                        /\ runs'[at[v]] = 1
                        /\ FullLog(session'[v].log, at[v])
      BY <1>1, <1>6 DEF Running, FullLog, OwnLog
    <3>1. CASE v = w
      <4>1. session'[w].log = <<>>
        BY <1>4, <1>6 DEF TypeInv, TypeOK
      <4> QED
        BY <1>2, <2>2, <3>1, <4>1 DEF FullLog, OwnLog
    <3>2. CASE v # w
      <4>1. step[v] = "running" /\ session'[v] = session[v]
        BY <1>6, <3>2 DEF TypeInv, TypeOK
      <4>2. at[v] \in Census /\ at[v] # i
        BY <1>3, <3>2, <4>1, BusyCase
      <4> QED
        BY <2>2, <4>1, <4>2 DEF Running
    <3> QED
      BY <3>1, <3>2
  <2>8. Told'
    <3>1. \A r \in sent \union results : r.case \in Census /\ r.case # i
      BY <1>1 DEF Waiting, Pending, Runnable
    <3> QED
      BY <1>1, <1>6, <2>2, <3>1 DEF Told, FullLog, OwnLog
  <2>9. NoRetry' /\ Excluded'
    <3>1. Action(i) = "run"
      BY <1>1 DEF Assigned, Stripe, Runnable
    <3> QED
      BY <1>1, <2>2, <3>1, PlanStable DEF NoRetry, Excluded
  <2>10. TruthfulStream'
    <3>1. ~(i < next)
      BY <1>1 DEF Printed, Pending
    <3>2. next \in 1..(N + 1) /\ Len(events) = next - 1
      BY DEF Printed, TypeInv, TypeOK
    <3>3. \A p \in 1..Len(events) : p \in Census /\ p # i
      BY <3>1, <3>2, RunnerAssumption DEF Census
    <3>4. \A p \in 1..Len(events) :
            fate'[p] = fate[p] /\ runs'[p] = runs[p] /\ said'[p] = said[p]
      BY <1>1, <2>2, <3>3
    <3> QED
      BY <1>1, <3>4, TruthfulStable DEF TruthfulStream
  <2> QED
    BY <2>3, <2>4, <2>5, <2>6, <2>7, <2>8, <2>9, <2>10
<1> QED
  BY <1>5, <1>6 DEF CallCase

\* A run that ends is handed over with its diagnostics; its instance stays in
\* the slot only if the run returned.
LEMMA FinishCaseStep ==
  ASSUME TypeInv, RunInv, phase \notin Final, NEW w \in Workers, FinishCase(w)
  PROVE  RunInv'
<1> USE DEF RunInv
<1> DEFINE i == at[w]
           f == fate[i]
           log == IF f = "unknown" THEN <<>> ELSE session[w].log
<1>1. /\ UNCHANGED <<opts, suite, phase, events, next, todo, fate, runs, said>>
      /\ step[w] = "running" /\ i \in Census
  BY BusyCase DEF FinishCase, control, output, truth
<1>2. /\ session' = [session EXCEPT ![w] = Kept(AfterRun(session[w], f), VerdictOf(f))]
      /\ Deliver(w, VerdictOf(f), log)
  BY DEF FinishCase
<1>3. f \in AllFates /\ FullLog(session[w].log, i)
  BY <1>1 DEF Running
<1>4. f \notin {"none", "ok", "short"}
  BY <1>3 DEF AllFates
<1>5. OwnLog(log, i) /\ (f # "unknown" => Len(log) = said[i])
  BY <1>3 DEF FullLog, OwnLog
<1>6. /\ NotStarted' /\ Assigned' /\ Printed' /\ Waiting' /\ Untouched'
      /\ Told' /\ Covered' /\ Joined' /\ NoRetry' /\ Excluded' /\ TruthfulStream'
  <2> HIDE DEF log
  <2> QED
    BY <1>1, <1>2, <1>4, <1>5, DeliverStep
<1>7. step' = [step EXCEPT ![w] = "idle"] /\ at' = [at EXCEPT ![w] = 0]
  BY <1>2 DEF Deliver
<1>8. Slots'
  <2> DEFINE s == Kept(AfterRun(session[w], f), VerdictOf(f))
  <2>1. session[w] \in Session /\ opts.perInstance \in Nat
    BY RunnerAssumption DEF TypeInv, TypeOK, OptionRecord
  <2>2. Returned(VerdictOf(f)) => ~Wounds(f)
    BY DEF Returned, VerdictOf, Wounds
  <2>3. Wounds(f) \in BOOLEAN
    BY DEF Wounds
  <2>4. /\ ~s.wounded /\ s.log = <<>>
        /\ opts.perInstance # 0 => s.served <= opts.perInstance
    <3>1. CASE Returned(VerdictOf(f))
      <4>1. s = [session[w] EXCEPT !.log = <<>>, !.wounded = Wounds(f)]
        BY <3>1 DEF Kept, AfterRun
      <4> QED
        BY <1>1, <2>1, <2>2, <2>3, <3>1, <4>1 DEF Slots, Session
    <3>2. CASE ~Returned(VerdictOf(f))
      <4>1. s = NoSession
        BY <3>2 DEF Kept
      <4> QED
        BY <2>1, <4>1 DEF NoSession
    <3> QED
      BY <3>1, <3>2
  <2> HIDE DEF s
  <2> QED
    BY <1>1, <1>2, <1>7, <2>4 DEF s, Slots, TypeInv, TypeOK
<1>9. Running'
  <2> SUFFICES ASSUME NEW v \in Workers, step'[v] = "running"
               PROVE  /\ fate[at'[v]] \in AllFates
                      /\ runs[at'[v]] = 1
                      /\ session'[v] = session[v] /\ at'[v] = at[v]
                      /\ FullLog(session[v].log, at[v])
    BY <1>1 DEF Running, FullLog, OwnLog
  <2>1. v # w /\ step[v] = "running" /\ at'[v] = at[v] /\ session'[v] = session[v]
    BY <1>2, <1>7 DEF TypeInv, TypeOK
  <2> QED
    BY <2>1 DEF Running
<1> QED
  BY <1>6, <1>8, <1>9

\* A diagnostic lands in the store of the instance its case runs in.
LEMMA DiagnoseStep ==
  ASSUME TypeInv, RunInv, phase \notin Final, NEW w \in Workers, Diagnose(w)
  PROVE  RunInv'
<1> USE DEF RunInv
<1> DEFINE i == at[w]
           log == Append(session[w].log, i)
<1>1. /\ UNCHANGED <<opts, suite, phase, events, next, todo, at, step, sent, results,
                     fate, runs>>
      /\ step[w] = "running" /\ i \in Census /\ i # 0
  BY BusyCase DEF Diagnose, control, output, Census
<1>2. /\ said' = [said EXCEPT ![i] = @ + 1]
      /\ session' = [session EXCEPT ![w].log = log]
  BY DEF Diagnose
<1>3. \A j \in Census : j # i => said'[j] = said[j]
  BY <1>1, <1>2 DEF TypeInv, TypeOK
<1>4. NotStarted' /\ Joined'
  BY <1>1 DEF NotStarted, Joined, AllServed
<1>5. Assigned' /\ Printed' /\ Waiting' /\ Covered' /\ NoRetry' /\ Excluded'
  BY <1>1, PlanStable DEF Assigned, Printed, Waiting, Covered, Pending, NoRetry, Excluded
<1>6. Untouched'
  <2>1. \A v \in Workers : i \notin todo[v] /\ (at[v] = i => step[v] = "running")
    BY <1>1, StripesDisjoint DEF Assigned
  <2> QED
    BY <1>1, <1>3, <2>1 DEF Untouched
<1>7. session[w] \in Session
  BY DEF TypeInv, TypeOK
<1>8. Slots'
  <2> HIDE DEF log
  <2>1. /\ session'[w] = [session[w] EXCEPT !.log = log]
        /\ \A v \in Workers : v # w => session'[v] = session[v]
    BY <1>2 DEF TypeInv, TypeOK
  <2>2. /\ session'[w].live = session[w].live
        /\ session'[w].served = session[w].served
        /\ session'[w].size = session[w].size
        /\ session'[w].wounded = session[w].wounded
    BY <1>7, <2>1 DEF Session
  <2> QED
    BY <1>1, <2>1, <2>2 DEF Slots
<1>9. Running'
  <2> SUFFICES ASSUME NEW v \in Workers, step[v] = "running"
               PROVE  /\ fate[at[v]] \in AllFates
                      /\ runs[at[v]] = 1
                      /\ OwnLog(session'[v].log, at[v])
                      /\ Len(session'[v].log) = said'[at[v]]
    BY <1>1 DEF Running, FullLog, OwnLog
  <2>1. CASE v = w
    <3>1. session'[w].log = log
      BY <1>2, <1>7 DEF TypeInv, TypeOK, Session
    <3>2. session[w].log \in Seq(Census)
      BY <1>7 DEF Session
    <3>3. FullLog(session[w].log, i) /\ fate[i] \in AllFates /\ runs[i] = 1
      BY <1>1 DEF Running
    <3>4. OwnLog(log, i) /\ Len(log) = Len(session[w].log) + 1
      BY <1>1, <3>2, <3>3 DEF FullLog, OwnLog
    <3>5. said'[i] = said[i] + 1
      BY <1>1, <1>2 DEF TypeInv, TypeOK
    <3> HIDE DEF log
    <3> QED
      BY <2>1, <3>1, <3>3, <3>4, <3>5 DEF FullLog
  <2>2. CASE v # w
    <3>1. session'[v] = session[v]
      BY <1>2, <2>2 DEF TypeInv, TypeOK
    <3>2. at[v] \in Census /\ at[v] # i
      BY <1>1, <2>2, StripesDisjoint, BusyCase DEF Assigned, Census
    <3> QED
      BY <1>3, <3>1, <3>2 DEF Running, FullLog
  <2> QED
    BY <2>1, <2>2
<1>10. Told'
  <2>1. \A r \in sent \union results : r.case \in Census /\ r.case # i
    BY <1>1 DEF Waiting, Pending, Runnable
  <2> QED
    BY <1>1, <1>3, <2>1 DEF Told, FullLog, OwnLog
<1>11. TruthfulStream'
  <2>1. ~(i < next)
    BY <1>1 DEF Printed, Pending
  <2>2. next \in 1..(N + 1) /\ Len(events) = next - 1
    BY DEF Printed, TypeInv, TypeOK
  <2>3. \A p \in 1..Len(events) : p \in Census /\ p # i
    BY <2>1, <2>2, RunnerAssumption DEF Census
  <2>4. \A p \in 1..Len(events) :
          fate'[p] = fate[p] /\ runs'[p] = runs[p] /\ said'[p] = said[p]
    BY <1>1, <1>3, <2>3
  <2> QED
    BY <1>1, <2>4, TruthfulStable DEF TruthfulStream
<1> QED
  BY <1>4, <1>5, <1>6, <1>8, <1>9, <1>10, <1>11

\* The collecting loop takes a result out of the channel.
LEMMA CollectStep ==
  ASSUME TypeInv, RunInv, Collect
  PROVE  RunInv'
<1> USE DEF RunInv
<1>1. /\ UNCHANGED <<opts, suite, phase, events, next, todo, at, step, session, fate,
                     runs, said>>
      /\ phase = "serving"
      /\ sent' \union results' = sent \union results
  BY DEF Collect, control, output, serving, truth
<1>2. NotStarted' /\ Joined'
  BY <1>1 DEF NotStarted, Joined
<1>3. Assigned' /\ Printed' /\ Waiting' /\ Covered' /\ NoRetry' /\ Excluded'
  BY <1>1, PlanStable DEF Assigned, Printed, Waiting, Covered, Pending, NoRetry, Excluded
<1>4. Untouched' /\ Slots' /\ Running' /\ Told'
  BY <1>1 DEF Untouched, Slots, Running, Told, FullLog, OwnLog
<1>5. TruthfulStream'
  BY <1>1, TruthfulStable DEF TruthfulStream
<1> QED
  BY <1>2, <1>3, <1>4, <1>5

\* Printing a truthful event of the next case, once that case is not pending
\* and none of its results stays behind.
LEMMA PrintStep ==
  ASSUME TypeInv, RunInv, phase = "emitting", next <= N, NEW e \in Event, EmitLine(e),
         UNCHANGED <<opts, suite, phase, todo, at, step, session, sent, fate, runs, said>>,
         ~Pending(next), Truthful(e, next),
         results' \subseteq results,
         \A r \in results : r.case = next <=> r \notin results'
  PROVE  RunInv'
<1> USE DEF RunInv
<1>1. /\ events' = Append(events, e) /\ next' = next + 1
      /\ events \in Seq(Event) /\ Len(events) = next - 1
      /\ next \in Nat /\ next \in Census
  BY RunnerAssumption DEF EmitLine, Printed, TypeInv, TypeOK, Census
<1>2. sent = {}
  BY DEF Joined
<1>3. NotStarted' /\ Joined'
  BY DEF NotStarted, Joined, AllServed
<1>4. Assigned' /\ NoRetry' /\ Excluded'
  BY PlanStable DEF Assigned, NoRetry, Excluded
<1>5. Untouched' /\ Slots' /\ Running'
  BY DEF Untouched, Slots, Running, FullLog, OwnLog
<1>6. Printed'
  <2>1. Len(events') = next' - 1
    BY <1>1
  <2>2. ASSUME NEW j \in Census, j < next' PROVE ~Pending(j)
    BY <1>1, <2>2 DEF Printed, Census
  <2> QED
    BY <2>1, <2>2 DEF Printed, Pending
<1>7. Waiting'
  <2>1. \A r \in results' : r.case \in Runnable /\ r.case >= next' /\ ~Pending(r.case)
    BY <1>1 DEF Waiting, Runnable, Census
  <2>2. \A r \in results' : ~Pending(r.case)'
    BY <2>1 DEF Pending
  <2> QED
    BY <1>2, <2>1, <2>2, PlanStable DEF Waiting
<1>8. Told'
  BY <1>2 DEF Told, FullLog, OwnLog
<1>9. Covered'
  <2>1. \A i \in Runnable :
          Pending(i) \/ i < next' \/ \E r \in sent' \union results' : r.case = i
    BY <1>1, <1>2 DEF Covered, Runnable, Census
  <2> QED
    BY <2>1, PlanStable DEF Covered, Pending
<1>10. TruthfulStream'
  <2>1. ASSUME NEW p, p = next PROVE Truthful(e, p)'
    BY <2>1, TruthfulStable
  <2>2. ASSUME NEW p \in 1..Len(events), NEW o, o = events[p]
        PROVE  Truthful(o, p)'
    BY <2>2, TruthfulStable DEF TruthfulStream
  <2>3. \A p \in 1..Len(events') :
          \/ p = next /\ events'[p] = e
          \/ p \in 1..Len(events) /\ events'[p] = events[p]
    BY <1>1
  <2> QED
    BY <2>1, <2>2, <2>3 DEF TruthfulStream, Truthful
<1> QED
  BY <1>3, <1>4, <1>5, <1>6, <1>7, <1>8, <1>9, <1>10

LEMMA EmitAbsentStep ==
  ASSUME TypeInv, RunInv, EmitAbsent
  PROVE  RunInv'
<1> USE DEF RunInv
<1>1. /\ UNCHANGED <<opts, suite, phase, todo, at, step, session, sent, results,
                     fate, runs, said>>
      /\ phase = "emitting" /\ next <= N /\ Action(next) # "run"
      /\ EmitLine(AbsentEvent(next))
  BY DEF EmitAbsent, control, serving, truth
<1>2. next \in Census /\ AbsentEvent(next) \in Event
  BY <1>1, AbsentType DEF TypeInv, TypeOK, Census
<1>3. next \notin Runnable /\ next # 0
  BY <1>1, <1>2 DEF Runnable, Census
<1>4. ~Pending(next)
  BY <1>3 DEF Pending, Assigned, Stripe
<1>5. Truthful(AbsentEvent(next), next)
  BY <1>1, <1>2 DEF Truthful, AbsentEvent, NoRetry, Excluded
<1>6. \A r \in results : r.case # next
  BY <1>3 DEF Waiting
<1> QED
  BY <1>1, <1>2, <1>4, <1>5, <1>6, PrintStep

LEMMA EmitResultStep ==
  ASSUME TypeInv, RunInv, EmitResult
  PROVE  RunInv'
<1> USE DEF RunInv
<1>1. /\ UNCHANGED <<opts, suite, phase, todo, at, step, session, sent, fate, runs, said>>
      /\ phase = "emitting" /\ next <= N
  BY DEF EmitResult, control, serving, truth
<1>2. PICK r \in results : /\ r.case = next
                           /\ EmitLine(EventOf(r))
                           /\ results' = results \ {r}
  BY DEF EmitResult
<1>3. r \in Result /\ EventOf(r) \in Event
  BY EventType DEF TypeInv, TypeOK
<1>4. /\ ~Pending(next) /\ next \in Runnable
      /\ \A q \in results : q.case = next <=> q \notin results'
  BY <1>2 DEF Waiting
<1>5. Truthful(EventOf(r), next)
  <2> DEFINE f == fate[next]
             e == EventOf(r)
  <2>1. /\ f \notin {"none", "ok", "short"} /\ r.verdict = VerdictOf(f)
        /\ \A k \in 1..Len(r.log) : r.log[k] = next
        /\ f # "unknown" => Len(r.log) = said[next]
    BY <1>2 DEF Told, OwnLog, FullLog
  <2>2. e.case = next /\ e.log = r.log /\ (e.complete <=> Returned(r.verdict))
    BY <1>2 DEF EventOf
  <2>3. /\ e.status = "pass"    <=> f = "pass"
        /\ e.status = "skipped" <=> f = "skipped"
    BY <2>1 DEF EventOf, VerdictOf
  <2>4. /\ e.provenance = "execution-budget" <=> f = "spin"
        /\ e.provenance = "case-timeout"     <=> f = "wedge"
    BY <2>1 DEF EventOf, VerdictOf, Returned
  <2>5. e.complete <=> f \in {"pass", "failed", "skipped"}
    BY <2>1, <2>2 DEF VerdictOf, Returned
  <2>6. Action(next) = "run"
    BY <1>4 DEF Runnable
  <2> HIDE DEF e
  <2> QED
    BY <2>1, <2>2, <2>3, <2>4, <2>5, <2>6 DEF Truthful, e
<1> QED
  BY <1>1, <1>2, <1>3, <1>4, <1>5, PrintStep

LEMMA InvNext == TypeInv /\ RunInv /\ [Next]_vars => RunInv'
<1> SUFFICES ASSUME TypeInv, RunInv, [Next]_vars PROVE RunInv'
  OBVIOUS
<1> DEFINE still == <<opts, suite, events, next, todo, at, step, session, sent, results,
                      fate, runs, said>>
<1>1. CASE ReadInventory \/ PrintEnvelope \/ EmitTerminator \/ Kill
  <2>1. /\ UNCHANGED still
        /\ phase' \in {"header", "census"} => phase \in {"inventory", "header"}
        /\ phase' \in {"header", "census"} \union Final
    BY <1>1 DEF ReadInventory, PrintEnvelope, EmitTerminator, Kill, control, output,
                serving, truth, Final
  <2> QED
    BY <2>1, PhaseStep DEF Joined, Final
<1>2. CASE StartEmitting
  <2>1. /\ UNCHANGED still
        /\ phase = "serving" /\ phase' = "emitting" /\ sent = {} /\ AllServed
    BY <1>2 DEF StartEmitting, control, output, serving, truth
  <2>2. Joined'
    BY <2>1 DEF Joined, AllServed
  <2> QED
    BY <2>1, <2>2, PhaseStep
<1>3. CASE UNCHANGED vars
  <2>1. UNCHANGED still /\ phase' = phase
    BY <1>3 DEF vars
  <2>2. Joined'
    BY <2>1 DEF Joined, AllServed, RunInv
  <2> QED
    BY <2>1, <2>2, PhaseStep
<1> QED
  BY <1>1, <1>2, <1>3, EnumerateStep, CollectStep, EmitAbsentStep, EmitResultStep,
     TakeCaseStep, CreateSessionStep, CallCaseStep, FinishCaseStep, DiagnoseStep
  DEF Next, Main, Serve, Over

LEMMA InvCorrect == Spec => [](TypeInv /\ RunInv)
<1>1. TypeInv /\ RunInv /\ [Next]_vars => TypeInv' /\ RunInv'
  BY TypeNext, InvNext
<1> QED
  BY TypeInit, InvInit, <1>1, PTL DEF Spec

\* A case only ever runs in an instance that no earlier case has wounded.
THEOREM IsolationCorrect == Spec => []Isolation
<1>1. TypeInv /\ RunInv => Isolation
  <2> SUFFICES ASSUME TypeInv, RunInv, NEW w \in Workers, step[w] = "running"
               PROVE  /\ session[w].live /\ ~session[w].wounded
                      /\ opts.perInstance # 0 => session[w].served \in 1..opts.perInstance
                      /\ at[w] \in 1..session[w].size
    BY DEF Isolation
  <2>1. /\ session[w] \in Session /\ at[w] \in Census
        /\ opts.perInstance \in Nat
    BY BusyCase, RunnerAssumption DEF TypeInv, TypeOK, OptionRecord
  <2> QED
    BY <2>1, RunnerAssumption DEF RunInv, Slots, Session, Census
<1> QED
  BY InvCorrect, <1>1, PTL

\* No case is executed twice or against the schedule.
THEOREM NoRetryCorrect == Spec => []NoRetry
<1>1. RunInv => NoRetry
  BY DEF RunInv
<1> QED
  BY InvCorrect, <1>1, PTL

\* Every event of every stream tells what happened to its case.
THEOREM TruthfulStreamCorrect == Spec => []TruthfulStream
<1>1. RunInv => TruthfulStream
  BY DEF RunInv
<1> QED
  BY InvCorrect, <1>1, PTL

\* The emitting loop of a parallel run finds every result it expects.
THEOREM EveryIndexHasResultCorrect == Spec => []EveryIndexHasResult
<1>1. TypeInv /\ RunInv => EveryIndexHasResult
  <2> SUFFICES ASSUME TypeInv, RunInv, phase = "emitting", opts.jobs > 1,
                      NEW i \in Runnable, i >= next
               PROVE  \E r \in results : r.case = i
    BY DEF EveryIndexHasResult
  <2>1. AllServed /\ sent = {}
    BY DEF RunInv, Joined
  <2>2. i \in Census /\ i # 0 /\ ~(i < next)
    BY RunnerAssumption DEF Runnable, Census, TypeInv, TypeOK
  <2>3. ~Pending(i)
    BY <2>1, <2>2 DEF Pending, AllServed, TypeInv, Busy
  <2> QED
    BY <2>1, <2>2, <2>3 DEF RunInv, Covered
<1> QED
  BY InvCorrect, <1>1, PTL

-----------------------------------------------------------------------------
(***************************************************************************)
(* The runner implements CensusStream: every step prints the envelope, the *)
(* next event or the terminator, cuts the stream off, or leaves it alone.  *)
(***************************************************************************)

\* The envelope is out exactly from the census enumeration on.
HeaderInv == /\ phase \in {"inventory", "header"} => ~header
             /\ phase \in {"census", "serving", "emitting"} => header

LineOf(e) == [case |-> e.case, status |-> e.status]
Lines == [p \in 1..Len(events) |->
            [case |-> events[p].case, status |-> events[p].status]]

LEMMA HeaderInit == Init => HeaderInv
BY DEF Init, HeaderInv

LEMMA HeaderNext == TypeInv /\ HeaderInv /\ [Next]_vars => HeaderInv'
<1> SUFFICES ASSUME TypeInv, HeaderInv, [Next]_vars PROVE HeaderInv'
  OBVIOUS
<1>1. CASE ReadInventory \/ PrintEnvelope \/ Enumerate \/ StartEmitting
  BY <1>1 DEF ReadInventory, PrintEnvelope, Enumerate, StartEmitting, output, HeaderInv
<1>2. CASE EmitTerminator \/ Kill
  BY <1>2 DEF EmitTerminator, Kill, output, HeaderInv
<1>3. CASE Collect \/ EmitAbsent \/ EmitResult
  BY <1>3 DEF Collect, EmitAbsent, EmitResult, EmitLine, output, HeaderInv
<1>4. ASSUME NEW w \in Workers, Serve(w) \/ Diagnose(w) PROVE HeaderInv'
  BY <1>4 DEF Serve, TakeCase, CreateSession, CallCase, FinishCase, Diagnose, output,
              HeaderInv
<1>5. CASE UNCHANGED vars
  BY <1>5 DEF vars, HeaderInv
<1> QED
  BY <1>1, <1>2, <1>3, <1>4, <1>5 DEF Next, Main, Over

\* Printing an event appends its line.
LEMMA LineAppended ==
  ASSUME TypeInv, Printed, next <= N, NEW e \in Event, EmitLine(e), e.case = next
  PROVE  /\ Len(Lines) = next - 1
         /\ Lines' = Append(Lines, [case |-> next, status |-> e.status])
<1>1. /\ events \in Seq(Event) /\ events' = Append(events, e)
      /\ Len(events) \in Nat /\ Len(events) = next - 1
  BY DEF EmitLine, TypeInv, TypeOK, Printed
<1>2. Lines \in Seq({LineOf(x) : x \in Event}) /\ Len(Lines) = Len(events)
  BY <1>1 DEF Lines, LineOf
<1>3. Len(events') = Len(events) + 1
  BY <1>1
<1>4. \A p \in 1..Len(events') :
        events'[p] = IF p = Len(events) + 1 THEN e ELSE events[p]
  BY <1>1
<1>5. Lines' = [p \in 1..(Len(events) + 1) |-> LineOf(events'[p])]
  BY <1>3 DEF Lines, LineOf
<1>6. Append(Lines, LineOf(e)) =
        [p \in 1..(Len(Lines) + 1) |-> IF p = Len(Lines) + 1 THEN LineOf(e) ELSE Lines[p]]
  BY <1>2 DEF LineOf
<1>7. \A p \in 1..(Len(events) + 1) :
        LineOf(events'[p]) = IF p = Len(Lines) + 1 THEN LineOf(e) ELSE Lines[p]
  BY <1>1, <1>2, <1>3, <1>4 DEF Lines, LineOf
<1>8. Lines' = Append(Lines, LineOf(e))
  BY <1>2, <1>5, <1>6, <1>7
<1> QED
  BY <1>1, <1>2, <1>8 DEF LineOf

LEMMA StreamInit == Init => CS!Init
<1> SUFFICES ASSUME Init PROVE CS!Init
  OBVIOUS
<1>1. AllowedStatuses \in [1..N -> SUBSET DOMAIN NoCounts]
  BY DEF AllowedStatuses, Action, NoCounts, Census
<1>2. StreamState = "silent" /\ events = <<>>
  BY DEF Init, StreamState, Final
<1>3. Lines = <<>>
  BY <1>2 DEF Lines
<1> QED
  BY <1>1, <1>2, <1>3 DEF CS!Init, Lines

LEMMA StreamNext ==
  TypeInv /\ RunInv /\ HeaderInv /\ HeaderInv' /\ [Next]_vars => [CS!Next]_(CS!csvars)
<1> SUFFICES ASSUME TypeInv, RunInv, HeaderInv, HeaderInv', [Next]_vars
             PROVE  CS!Next \/ UNCHANGED CS!csvars
  OBVIOUS
<1>0. header = TRUE \/ header = FALSE
  BY DEF TypeInv, TypeOK
<1>1. AllowedStatuses' = AllowedStatuses
  <2>1. opts' = opts /\ suite' = suite
    BY DEF Next, Main, Serve, Over, ReadInventory, PrintEnvelope, Enumerate, Collect,
           StartEmitting, EmitAbsent, EmitResult, EmitTerminator, TakeCase,
           CreateSession, CallCase, FinishCase, Diagnose, Kill, control, vars
  <2> QED
    BY <2>1, PlanStable DEF AllowedStatuses
<1>2. CASE events' = events
  <2>1. Lines' = Lines
    BY <1>2 DEF Lines
  <2>2. CASE StreamState' = StreamState
    BY <1>1, <2>1, <2>2 DEF CS!csvars, Lines
  <2>3. CASE PrintEnvelope
    <3>1. StreamState = "silent" /\ StreamState' = "open"
      BY <2>3 DEF PrintEnvelope, StreamState, HeaderInv, Final
    <3> QED
      BY <1>1, <2>1, <3>1 DEF CS!Next, CS!Open, Lines
  <2>4. CASE phase' \in {"error", "killed"} /\ phase \notin Final
    <3>1. StreamState \in {"silent", "open"}
      BY <2>4, <1>0 DEF StreamState, Final
    <3>2. StreamState' = "cut"
      BY <2>4 DEF StreamState, Final
    <3> QED
      BY <1>1, <2>1, <3>1, <3>2 DEF CS!Next, CS!Cut, Lines
  <2>5. CASE EmitTerminator
    <3>1. StreamState = "open" /\ StreamState' = "closed"
      <4>1. phase = "emitting" /\ phase' = "done" /\ header
        BY <2>5 DEF EmitTerminator, HeaderInv
      <4>2. StreamState = "open"
        BY <4>1 DEF StreamState, Final
      <4>3. StreamState' = "closed"
        BY <4>1 DEF StreamState, Final
      <4> QED
        BY <4>2, <4>3
    <3>2. Len(Lines) = N
      BY <2>5, RunnerAssumption DEF EmitTerminator, RunInv, Printed, TypeInv, TypeOK, Lines
    <3> QED
      BY <1>1, <2>1, <3>1, <3>2 DEF CS!Next, CS!Close, Lines
  <2>6. CASE phase' = phase /\ header' = header
    BY <2>2, <2>6 DEF StreamState, Final
  <2>7. CASE ReadInventory \/ Enumerate \/ StartEmitting \/ Kill
    <3>1. header' = header /\ phase \notin Final
      BY <2>7 DEF ReadInventory, Enumerate, StartEmitting, Kill, output, Final
    <3>2. phase' \in {"header", "serving", "emitting", "error", "killed"}
      BY <2>7 DEF ReadInventory, Enumerate, StartEmitting, Kill
    <3>3. StreamState' = StreamState \/ phase' \in {"error", "killed"}
      BY <3>1, <3>2 DEF StreamState, Final
    <3> QED
      BY <2>2, <2>4, <3>1, <3>3
  <2>8. CASE Collect \/ EmitAbsent \/ EmitResult \/ UNCHANGED vars
    BY <2>6, <2>8 DEF Collect, EmitAbsent, EmitResult, EmitLine, output, vars
  <2>9. ASSUME NEW w \in Workers, Serve(w) \/ Diagnose(w)
        PROVE  CS!Next \/ UNCHANGED CS!csvars
    BY <2>6, <2>9 DEF Serve, TakeCase, CreateSession, CallCase, FinishCase, Diagnose, output
  <2> QED
    BY <2>3, <2>5, <2>7, <2>8, <2>9 DEF Next, Main, Over
<1>3. CASE EmitAbsent \/ EmitResult
  <2>1. PICK e \in Event : /\ EmitLine(e) /\ e.case = next
                           /\ e.status \in AllowedStatuses[next]
    <3>1. next \in Census
      BY <1>3 DEF EmitAbsent, EmitResult, TypeInv, TypeOK, Census
    <3>2. CASE EmitAbsent
      <4>1. AbsentEvent(next) \in Event
        BY <3>1, <3>2, AbsentType DEF EmitAbsent
      <4>2. EmitLine(AbsentEvent(next)) /\ Action(next) # "run"
        BY <3>2 DEF EmitAbsent
      <4>3. AbsentEvent(next).case = next /\ AbsentEvent(next).status = Action(next)
        BY DEF AbsentEvent
      <4>4. Action(next) \in AllowedStatuses[next]
        BY <3>1, <4>2 DEF AllowedStatuses
      <4> QED
        BY <4>1, <4>2, <4>3, <4>4
    <3>3. CASE EmitResult
      <4>1. PICK r \in results : r.case = next /\ EmitLine(EventOf(r))
        BY <3>3 DEF EmitResult
      <4>2. EventOf(r) \in Event /\ EventOf(r).case = next
        BY <4>1, EventType DEF TypeInv, TypeOK, EventOf
      <4>3. EventOf(r).status \in {"pass", "fail", "skipped"}
        BY DEF EventOf
      <4>4. Action(next) = "run"
        BY <4>1 DEF RunInv, Waiting, Runnable
      <4>5. AllowedStatuses[next] = {"pass", "fail", "skipped"}
        BY <3>1, <4>4 DEF AllowedStatuses
      <4> QED
        BY <4>1, <4>2, <4>3, <4>5
    <3> QED
      BY <1>3, <3>2, <3>3
  <2>2. next <= N /\ phase = "emitting" /\ phase' = phase /\ header' = header
    BY <1>3, <2>1 DEF EmitAbsent, EmitResult, EmitLine
  <2>3. StreamState = "open" /\ StreamState' = "open"
    BY <2>2 DEF StreamState, HeaderInv, Final
  <2>4. /\ Len(Lines) = next - 1
        /\ Lines' = Append(Lines, [case |-> next, status |-> e.status])
    BY <2>1, <2>2, LineAppended DEF RunInv
  <2>5. Len(Lines) < N /\ Len(Lines) + 1 = next
    BY <2>2, <2>4, RunnerAssumption DEF TypeInv, TypeOK
  <2>6. CS!Report
    BY <1>1, <2>1, <2>3, <2>4, <2>5 DEF CS!Report, Lines
  <2> QED
    BY <2>6 DEF CS!Next
<1>4. events' = events \/ EmitAbsent \/ EmitResult
  BY DEF Next, Main, Serve, Over, ReadInventory, PrintEnvelope, Enumerate, Collect,
         StartEmitting, EmitTerminator, TakeCase,
         CreateSession, CallCase, FinishCase, Diagnose, Kill, output, vars
<1> QED
  BY <1>2, <1>3, <1>4

\* The stream of every run is one a reader of CensusStream expects.
THEOREM StreamCorrect == Spec => ImplementsCensusStream
<1>1. TypeInv /\ HeaderInv /\ [Next]_vars => HeaderInv'
  BY HeaderNext
<1> QED
  BY InvCorrect, HeaderInit, StreamInit, StreamNext, <1>1, PTL
  DEF Spec, ImplementsCensusStream, CS!Spec

-----------------------------------------------------------------------------
(***************************************************************************)
(* The pool: with no more workers than instances nobody is refused one.    *)
(***************************************************************************)

\* A worker that is creating an instance has given back the one it had.
GivenBack == \A w \in Workers : step[w] = "create" => ~session[w].live

PoolInv == Surplus /\ GivenBack /\ PoolSuffices

LEMMA PoolInit == Init => PoolInv
BY DEF Init, PoolInv, Surplus, GivenBack, PoolSuffices, NoSession

\* What is held while w is creating an instance is less than one instance for
\* each of the run's workers.
LEMMA HeldFewer ==
  ASSUME TypeInv, Surplus, GivenBack, NEW w \in Workers, step[w] = "create", w < opts.jobs
  PROVE  /\ Cardinality(Holding) + Cardinality(Creating \ {w}) < opts.jobs
         /\ Cardinality(Holding) + Cardinality(Creating \ {w}) \in Nat
<1> DEFINE Others == 0..(opts.jobs - 1) \ {w}
           Taken == Creating \ {w}
<1>1. opts.jobs \in 1..MaxJobs
  BY RunnerAssumption DEF TypeInv, TypeOK, OptionRecord
<1>2. w \in 0..(opts.jobs - 1)
  BY <1>1, RunnerAssumption DEF Workers
<1>3. IsFiniteSet(Others) /\ Cardinality(Others) = opts.jobs - 1
  <2>1. IsFiniteSet(0..(opts.jobs - 1)) /\ Cardinality(0..(opts.jobs - 1)) = opts.jobs
    BY <1>1, RunnerAssumption, FS_Interval
  <2> QED
    BY <1>2, <2>1, FS_RemoveElement
<1>4. Holding \subseteq Others
  BY <1>1, RunnerAssumption DEF Holding, Surplus, GivenBack, Workers
<1>5. Taken \subseteq Others
  BY <1>1, RunnerAssumption DEF Creating, Surplus, Workers
<1>6. Holding \intersect Taken = {}
  BY DEF Holding, Creating, GivenBack
<1>7. IsFiniteSet(Holding) /\ IsFiniteSet(Taken)
  BY <1>3, <1>4, <1>5, FS_Subset
<1>8. Cardinality(Holding \union Taken) = Cardinality(Holding) + Cardinality(Taken)
  <2>1. Cardinality(Holding \union Taken)
          = Cardinality(Holding) + Cardinality(Taken) - Cardinality(Holding \intersect Taken)
    BY <1>7, FS_Union
  <2>2. Cardinality(Holding \intersect Taken) = 0
    BY <1>6, FS_EmptySet
  <2>3. Cardinality(Holding) \in Nat /\ Cardinality(Taken) \in Nat
    BY <1>7, FS_CardinalityType
  <2> HIDE DEF Taken
  <2> QED
    BY <2>1, <2>2, <2>3
<1>9. /\ Holding \union Taken \subseteq Others
      /\ Cardinality(Holding \union Taken) <= Cardinality(Others)
      /\ Cardinality(Holding \union Taken) \in Nat
  BY <1>3, <1>4, <1>5, FS_Subset, FS_CardinalityType
<1> HIDE DEF Others, Taken
<1>10. Cardinality(Holding) + Cardinality(Taken) < opts.jobs
  BY <1>1, <1>3, <1>8, <1>9, RunnerAssumption
<1> QED
  BY <1>8, <1>9, <1>10 DEF Taken

\* A busy worker is one of the run's.
LEMMA StripeOwner ==
  ASSUME TypeInv, NEW w \in Workers, NEW i \in Stripe(w)
  PROVE  w < opts.jobs
<1>1. Rank(i) \in Nat /\ Rank(i) % opts.jobs = w
  BY RankType DEF Stripe, Runnable, TypeInv
<1>2. opts.jobs \in Nat \ {0}
  BY RunnerAssumption DEF TypeInv, TypeOK, OptionRecord
<1> QED
  BY <1>1, <1>2

LEMMA PoolNext == TypeInv /\ RunInv /\ PoolInv /\ [Next]_vars => PoolInv'
<1> SUFFICES ASSUME TypeInv, RunInv, PoolInv, [Next]_vars PROVE PoolInv'
  OBVIOUS
<1>1. CASE UNCHANGED <<opts, step, session, fate>>
  BY <1>1 DEF PoolInv, Surplus, GivenBack, PoolSuffices
<1>2. ASSUME NEW w \in Workers, UNCHANGED opts,
             \A v \in Workers : v # w => step'[v] = step[v] /\ session'[v] = session[v],
             w < opts.jobs, step'[w] = "create" => ~session'[w].live,
             \A i \in Census : fate'[i] = fate[i] \/ fate'[i] # "full" \/ opts.jobs > Pool
      PROVE  PoolInv'
  <2>1. opts.jobs \in Nat /\ Pool \in Nat
    BY RunnerAssumption DEF TypeInv, TypeOK, OptionRecord
  <2>2. \A v \in Workers : v >= opts.jobs => v # w
    BY <1>2, <2>1, RunnerAssumption DEF Workers
  <2> QED
    BY <1>2, <2>1, <2>2 DEF PoolInv, Surplus, GivenBack, PoolSuffices
<1>3. ASSUME NEW w \in Workers, TakeCase(w) PROVE PoolInv'
  <2>1. PICK i \in todo[w] : TRUE
    BY <1>3 DEF TakeCase
  <2>2. w < opts.jobs
    BY <2>1, StripeOwner DEF RunInv, Assigned
  <2>3. /\ UNCHANGED <<opts, fate>>
        /\ \A v \in Workers : v # w => step'[v] = step[v] /\ session'[v] = session[v]
    BY <1>3 DEF TakeCase, control, truth, TypeInv, TypeOK
  <2>4. step'[w] = "create" => ~session'[w].live
    <3>1. /\ session'[w] = Recycled(session[w])
          /\ step'[w] = IF session[w].live /\ ~Due(session[w]) THEN "call" ELSE "create"
      BY <1>3 DEF TakeCase, TypeInv, TypeOK
    <3> QED
      BY <3>1, RecycledType DEF TypeInv, TypeOK
  <2> QED
    BY <1>2, <2>2, <2>3, <2>4
<1>4. ASSUME NEW w \in Workers, CallCase(w) \/ FinishCase(w) \/ Diagnose(w)
      PROVE  PoolInv'
  <2>1. step[w] # "idle" /\ UNCHANGED opts
    BY <1>4 DEF CallCase, FinishCase, Diagnose, control
  <2>2. at[w] \in Census /\ at[w] # 0
    BY <2>1, BusyCase DEF Census
  <2>3. w < opts.jobs
    BY <2>2, StripeOwner DEF RunInv, Assigned
  <2>4. \A v \in Workers : v # w => step'[v] = step[v] /\ session'[v] = session[v]
    BY <1>4 DEF CallCase, FinishCase, Diagnose, Deliver, TypeInv, TypeOK
  <2>5. \A i \in Census : fate'[i] = fate[i] \/ fate'[i] # "full"
    <3>1. CASE CallCase(w)
      <4>1. \E f \in Fates \union NameFailures(at[w], [session[w] EXCEPT !.served = @ + 1]) :
              fate' = [fate EXCEPT ![at[w]] = f]
        BY <3>1 DEF CallCase
      <4>2. "full" \notin Fates \union NameFailures(at[w], [session[w] EXCEPT !.served = @ + 1])
        BY RunnerAssumption DEF NameFailures, AllFates
      <4> QED
        BY <4>1, <4>2 DEF TypeInv, TypeOK
    <3>2. CASE FinishCase(w) \/ Diagnose(w)
      BY <3>2 DEF FinishCase, Diagnose, truth
    <3> QED
      BY <1>4, <3>1, <3>2
  <2>6. step'[w] # "create"
    BY <1>4 DEF CallCase, FinishCase, Diagnose, Deliver, TypeInv, TypeOK
  <2> QED
    BY <1>2, <2>1, <2>3, <2>4, <2>5, <2>6
<1>5. ASSUME NEW w \in Workers, CreateSession(w) PROVE PoolInv'
  <2>1. step[w] # "idle" /\ UNCHANGED opts
    BY <1>5 DEF CreateSession, control
  <2>2. at[w] \in Census /\ at[w] # 0
    BY <2>1, BusyCase DEF Census
  <2>3. w < opts.jobs
    BY <2>2, StripeOwner DEF RunInv, Assigned
  <2>4. \A v \in Workers : v # w => step'[v] = step[v] /\ session'[v] = session[v]
    BY <1>5 DEF CreateSession, Deliver, TypeInv, TypeOK
  <2>5. step'[w] # "create"
    BY <1>5 DEF CreateSession, Deliver, TypeInv, TypeOK
  <2>6. CASE "full" \in BirthsAt(w)
    <3>1. Cardinality(Holding) + Cardinality(Creating \ {w}) >= Pool
      BY <2>6, RunnerAssumption DEF BirthsAt
    <3>2. /\ Cardinality(Holding) + Cardinality(Creating \ {w}) < opts.jobs
          /\ Cardinality(Holding) + Cardinality(Creating \ {w}) \in Nat
      BY <1>5, <2>3, HeldFewer DEF PoolInv, CreateSession
    <3>3. opts.jobs > Pool
      <4> DEFINE held == Cardinality(Holding) + Cardinality(Creating \ {w})
      <4>1. held >= Pool /\ held < opts.jobs /\ held \in Nat
        BY <3>1, <3>2
      <4> HIDE DEF held
      <4> QED
        BY <4>1, RunnerAssumption DEF TypeInv, TypeOK, OptionRecord
    <3> QED
      BY <1>2, <2>5, <2>1, <2>3, <2>4, <3>3
  <2>7. CASE "full" \notin BirthsAt(w)
    <3>1. \/ fate' = fate
          \/ \E birth \in BirthsAt(w) : fate' = [fate EXCEPT ![at[w]] = birth]
      BY <1>5 DEF CreateSession
    <3>2. \A i \in Census : fate'[i] = fate[i] \/ fate'[i] # "full"
      BY <2>7, <3>1 DEF TypeInv, TypeOK
    <3> QED
      BY <1>2, <2>5, <2>1, <2>3, <2>4, <3>2
  <2> QED
    BY <2>6, <2>7
<1>6. CASE Main \/ Kill \/ UNCHANGED vars
  BY <1>1, <1>6
  DEF Main, ReadInventory, PrintEnvelope, Enumerate, Collect, StartEmitting, EmitAbsent,
      EmitResult, EmitTerminator, Kill, control, serving, truth, vars
<1> QED
  BY <1>3, <1>4, <1>5, <1>6 DEF Next, Serve, Over

\* No case fails for want of an instance unless jobs exceeds the pool: each
\* worker gives back what it holds before it creates the next instance.
THEOREM PoolSufficesCorrect == Spec => []PoolSuffices
<1>1. PoolInv => PoolSuffices
  BY DEF PoolInv
<1>2. TypeInv /\ RunInv /\ PoolInv /\ [Next]_vars => PoolInv'
  BY PoolNext
<1> QED
  BY InvCorrect, PoolInit, <1>1, <1>2, PTL DEF Spec

-----------------------------------------------------------------------------
(***************************************************************************)
(* The sequential loop and the summary.                                    *)
(***************************************************************************)

\* A sequential loop serves the very case it is about to print.
Sequential == opts.jobs = 1 => /\ phase # "serving"
                               /\ at[0] # 0 => at[0] = next

With(status) == {p \in 1..Len(events) : events[p].status = status}

\* Each counter counts the printed events of its status, a runnable case's
\* event never has the status of an absent one, and the terminator comes after
\* the last case.
Tally == /\ \A status \in DOMAIN NoCounts : summary[status] = Cardinality(With(status))
         /\ \A p \in 1..Len(events) : Action(p) = "run" =>
              events[p].status \in {"pass", "fail", "skipped"}
         /\ phase = "done" => next = N + 1

LEMMA SequentialInit == Init => Sequential
BY RunnerAssumption DEF Init, Sequential, Workers

LEMMA SequentialNext == TypeInv /\ RunInv /\ Sequential /\ [Next]_vars => Sequential'
<1> SUFFICES ASSUME TypeInv, RunInv, Sequential, [Next]_vars, opts'.jobs = 1
             PROVE  phase' # "serving" /\ (at'[0] # 0 => at'[0] = next')
  BY DEF Sequential
<1>0. /\ opts' = opts /\ opts.jobs = 1 /\ 0 \in Workers /\ at \in [Workers -> 0..N]
      /\ next \in 1..(N + 1) /\ N \in Nat
      /\ phase # "serving" /\ (at[0] # 0 => at[0] = next)
  <2>1. opts' = opts
    BY DEF Next, Main, Serve, Over, vars, control, ReadInventory, PrintEnvelope, Enumerate,
           Collect, StartEmitting, EmitAbsent, EmitResult, EmitTerminator, Kill, TakeCase,
           CreateSession, CallCase, FinishCase, Diagnose
  <2>2. 0 \in Workers
    BY RunnerAssumption DEF Workers
  <2> QED
    BY <2>1, <2>2, RunnerAssumption DEF Sequential, TypeInv, TypeOK
<1>1. CASE ReadInventory \/ PrintEnvelope \/ Enumerate \/ EmitTerminator \/ Kill \/ UNCHANGED vars
  BY <1>0, <1>1 DEF ReadInventory, PrintEnvelope, Enumerate, EmitTerminator, Kill, vars,
                    output, serving, Final
<1>2. CASE Collect \/ StartEmitting
  BY <1>0, <1>2 DEF Collect, StartEmitting
\* What the loop prints is not being served.
<1>3. CASE EmitAbsent
  <2>1. phase' = phase /\ at' = at /\ Action(next) # "run"
    BY <1>3 DEF EmitAbsent, serving
  <2>2. at[0] # 0 => at[0] \in Runnable
    BY <1>0 DEF RunInv, Assigned, Stripe
  <2> QED
    BY <1>0, <2>1, <2>2 DEF Runnable
<1>4. CASE EmitResult
  <2>1. phase' = phase /\ at' = at /\ \E r \in results : r.case = next
    BY <1>4 DEF EmitResult, serving
  <2>2. ~Pending(next)
    BY <2>1 DEF RunInv, Waiting
  <2> QED
    BY <1>0, <2>1, <2>2 DEF Pending
<1>5. ASSUME NEW w \in Workers, TakeCase(w)
      PROVE  phase' # "serving" /\ (at'[0] # 0 => at'[0] = next')
  <2>1. PICK i \in todo[w] : MayServe(i) /\ at' = [at EXCEPT ![w] = i]
    BY <1>5 DEF TakeCase
  <2>2. next' = next /\ phase' = phase
    BY <1>5 DEF TakeCase, output
  <2> QED
    BY <1>0, <2>1, <2>2 DEF MayServe
<1>6. ASSUME NEW w \in Workers, CreateSession(w) \/ CallCase(w) \/ FinishCase(w) \/ Diagnose(w)
      PROVE  phase' # "serving" /\ (at'[0] # 0 => at'[0] = next')
  <2>1. /\ next' = next /\ phase' = phase
        /\ at' = at \/ at' = [at EXCEPT ![w] = 0]
    BY <1>6 DEF CreateSession, CallCase, FinishCase, Diagnose, Deliver, output
  <2> QED
    BY <1>0, <2>1
<1> QED
  BY <1>1, <1>2, <1>3, <1>4, <1>5, <1>6 DEF Next, Main, Serve, Over

\* A sequential run is written through: a kill loses the case being served at
\* most (run_suite_opts prints each case before it serves the next).
THEOREM WriteThroughCorrect == Spec => []WriteThrough
<1>1. TypeInv /\ RunInv /\ Sequential => WriteThrough
  BY RunnerAssumption DEF TypeInv, TypeOK, RunInv, Printed, Sequential, WriteThrough
<1>2. TypeInv /\ RunInv /\ Sequential /\ [Next]_vars => Sequential'
  BY SequentialNext
<1> QED
  BY InvCorrect, SequentialInit, <1>1, <1>2, PTL DEF Spec

\* Printing an event adds it to those of its status.
LEMMA WithAppended ==
  ASSUME TypeInv, NEW e \in Event, EmitLine(e), NEW status \in DOMAIN NoCounts
  PROVE  /\ IsFiniteSet(With(status))
         /\ With(status)' = IF e.status = status THEN With(status) \union {Len(events) + 1}
                            ELSE With(status)
         /\ Len(events) + 1 \notin With(status)
<1>1. /\ events \in Seq(Event) /\ events' = Append(events, e) /\ Len(events) \in Nat
  BY DEF EmitLine, TypeInv, TypeOK
<1>2. IsFiniteSet(1..Len(events))
  BY <1>1, FS_Interval
<1>3. IsFiniteSet(With(status))
  BY <1>2, FS_Subset DEF With
<1>4. /\ Len(events') = Len(events) + 1 /\ events'[Len(events) + 1] = e
      /\ \A p \in 1..Len(events) : events'[p] = events[p]
  BY <1>1
<1>5. \A p : p \in 1..Len(events') <=> p \in 1..Len(events) \/ p = Len(events) + 1
  BY <1>1, <1>4
<1>6. \A p : p \in With(status)' <=>
            p \in With(status) \/ (p = Len(events) + 1 /\ e.status = status)
  BY <1>4, <1>5 DEF With
<1>7. Len(events) + 1 \notin With(status)
  BY <1>1 DEF With
<1> QED
  BY <1>3, <1>6, <1>7

LEMMA TallyPrint ==
  ASSUME TypeInv, RunInv, Tally, next <= N, NEW e \in Event, EmitLine(e), phase = "emitting",
         opts' = opts, suite' = suite, phase' = phase,
         Action(next) = "run" => e.status \in {"pass", "fail", "skipped"}
  PROVE  Tally'
<1>1. /\ events \in Seq(Event) /\ events' = Append(events, e) /\ Len(events) \in Nat
      /\ Len(events) + 1 = next
  BY DEF EmitLine, TypeInv, TypeOK, RunInv, Printed
<1>2. ASSUME NEW status \in DOMAIN NoCounts
      PROVE  summary'[status] = Cardinality(With(status)')
  <2>1. e.status \in DOMAIN NoCounts
    BY DEF Event, NoCounts
  <2>2. summary'[status] = IF e.status = status THEN summary[status] + 1 ELSE summary[status]
    BY <2>1 DEF EmitLine, Counted, TypeInv, TypeOK
  <2>3. Cardinality(With(status)') = IF e.status = status THEN Cardinality(With(status)) + 1
                                     ELSE Cardinality(With(status))
    BY WithAppended, FS_AddElement
  <2> QED
    BY <2>2, <2>3 DEF Tally
<1>3. ASSUME NEW p \in 1..Len(events'), Action(p)' = "run"
      PROVE  events'[p].status \in {"pass", "fail", "skipped"}
  <2>1. Action(p) = "run"
    BY <1>3, PlanStable
  <2>2. CASE p = Len(events) + 1
    BY <1>1, <2>1, <2>2
  <2>3. CASE p \in 1..Len(events)
    BY <1>1, <2>1, <2>3 DEF Tally
  <2> QED
    BY <1>1, <2>2, <2>3
<1> QED
  BY <1>2, <1>3 DEF Tally, With, NoCounts

LEMMA DisjointUnion ==
  ASSUME NEW A, NEW B, IsFiniteSet(A), IsFiniteSet(B), A \cap B = {}
  PROVE  /\ IsFiniteSet(A \union B)
         /\ Cardinality(A \union B) = Cardinality(A) + Cardinality(B)
<1>1. Cardinality(A) \in Nat /\ Cardinality(B) \in Nat /\ Cardinality(A \cap B) = 0
  BY FS_CardinalityType, FS_EmptySet
<1>2. /\ IsFiniteSet(A \union B)
      /\ Cardinality(A \union B) = Cardinality(A) + Cardinality(B) - Cardinality(A \cap B)
  BY FS_Union
<1> QED
  BY <1>1, <1>2

LEMMA TallyInit == Init => Tally
BY FS_EmptySet DEF Init, Tally, With, NoCounts

LEMMA TallyNext == TypeInv /\ RunInv /\ Tally /\ [Next]_vars => Tally'
<1> SUFFICES ASSUME TypeInv, RunInv, Tally, [Next]_vars PROVE Tally'
  OBVIOUS
<1>1. ASSUME UNCHANGED <<opts, suite, events, next, summary>>, phase' = "done" => phase = "done"
      PROVE  Tally'
  BY <1>1, PlanStable DEF Tally, With
<1>2. CASE ReadInventory \/ PrintEnvelope \/ Enumerate \/ Collect \/ StartEmitting \/ Kill
           \/ UNCHANGED vars
  BY <1>1, <1>2 DEF ReadInventory, PrintEnvelope, Enumerate, Collect, StartEmitting, Kill, vars,
                    control, output
<1>3. ASSUME NEW w \in Workers, Serve(w) \/ Diagnose(w)
      PROVE  Tally'
  BY <1>1, <1>3 DEF Serve, TakeCase, CreateSession, CallCase, FinishCase, Diagnose, control, output
<1>4. CASE EmitTerminator
  <2>1. UNCHANGED <<opts, suite, events, next, summary>> /\ next = N + 1
    BY <1>4 DEF EmitTerminator, control, output
  <2> QED
    BY <2>1, PlanStable DEF Tally, With
<1>5. CASE EmitAbsent
  <2>1. AbsentEvent(next) \in Event
    BY <1>5, AbsentType DEF EmitAbsent, TypeInv, TypeOK, Census
  <2> QED
    BY <1>5, <2>1, TallyPrint DEF EmitAbsent, control
<1>6. CASE EmitResult
  <2>1. PICK r \in results : EmitLine(EventOf(r))
    BY <1>6 DEF EmitResult
  <2>2. EventOf(r) \in Event /\ EventOf(r).status \in {"pass", "fail", "skipped"}
    BY EventType DEF TypeInv, TypeOK, EventOf
  <2> QED
    BY <1>6, <2>1, <2>2, TallyPrint DEF EmitResult, control
<1> QED
  BY <1>2, <1>3, <1>4, <1>5, <1>6 DEF Next, Main, Over

\* The summary a run returns is green exactly when every runnable case passed or
\* skipped itself, and accounts for all of them (run_suite_opts, ct-runner's
\* exit code).
THEOREM TruthfulSummaryCorrect == Spec => []TruthfulSummary
<1>1. ASSUME TypeInv, RunInv, Tally, phase = "done"
      PROVE  /\ summary["fail"] = 0 <=> \A i \in Runnable : fate[i] \in {"pass", "skipped"}
             /\ summary["pass"] + summary["skipped"] + summary["fail"] = Cardinality(Runnable)
  <2>1. Len(events) = N /\ N \in Nat /\ 1..Len(events) = Census
    BY <1>1, RunnerAssumption DEF RunInv, Printed, Tally, TypeInv, TypeOK, Census
  <2>2. \A p \in Census : Truthful(events[p], p)
    BY <1>1, <2>1 DEF RunInv, TruthfulStream
  <2>3. \A p \in Census : p \in Runnable <=> events[p].status \in {"pass", "fail", "skipped"}
    BY <1>1, <2>1, <2>2 DEF Tally, Truthful, Runnable, Action
  <2> DEFINE P == With("pass")  S == With("skipped")  F == With("fail")
  <2>4. /\ P \subseteq Census /\ S \subseteq Census /\ F \subseteq Census
        /\ P \cap S = {} /\ (P \union S) \cap F = {}
        /\ (P \union S) \union F = Runnable
    BY <2>1, <2>3 DEF With, Runnable
  <2>5. IsFiniteSet(P) /\ IsFiniteSet(S) /\ IsFiniteSet(F)
    <3>1. IsFiniteSet(Census)
      BY RunnerAssumption, FS_Interval DEF Census
    <3> QED
      BY <2>4, <3>1, FS_Subset
  <2>6. /\ Cardinality(P) \in Nat /\ Cardinality(S) \in Nat /\ Cardinality(F) \in Nat
        /\ Cardinality(F) = 0 <=> F = {}
    BY <2>5, FS_CardinalityType, FS_EmptySet
  <2>7. /\ IsFiniteSet(P \union S)
        /\ Cardinality(P \union S) = Cardinality(P) + Cardinality(S)
    BY <2>4, <2>5, <2>6, DisjointUnion
  <2>8. Cardinality(Runnable) = Cardinality(P) + Cardinality(S) + Cardinality(F)
    <3>1. Cardinality((P \union S) \union F) = Cardinality(P \union S) + Cardinality(F)
      BY <2>4, <2>5, <2>7, DisjointUnion
    <3> QED
      BY <2>4, <2>7, <3>1
  <2>9. /\ summary["pass"] = Cardinality(P) /\ summary["skipped"] = Cardinality(S)
        /\ summary["fail"] = Cardinality(F)
    <3>1. \A status \in {"pass", "skipped", "fail"} : summary[status] = Cardinality(With(status))
      BY <1>1 DEF Tally, NoCounts
    <3> QED
      BY <3>1
  <2>10. F = {} <=> \A i \in Runnable : fate[i] \in {"pass", "skipped"}
    <3>1. \A i \in Runnable : i \in F <=> fate[i] \notin {"pass", "skipped"}
      BY <2>1, <2>2, <2>3 DEF With, Truthful, Runnable
    <3> QED
      BY <2>4, <3>1
  <2> HIDE DEF P, S, F
  <2> QED
    BY <2>6, <2>8, <2>9, <2>10
<1>2. TypeInv /\ RunInv /\ Tally => TruthfulSummary
  BY <1>1 DEF TruthfulSummary
<1>3. TypeInv /\ RunInv /\ Tally /\ [Next]_vars => Tally'
  BY TallyNext
<1> QED
  BY InvCorrect, TallyInit, <1>2, <1>3, PTL DEF Spec
=============================================================================
