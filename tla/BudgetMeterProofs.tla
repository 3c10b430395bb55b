------------------------- MODULE BudgetMeterProofs --------------------------
(***************************************************************************)
(* Theorems about BudgetMeter, for every number of threads, tick,          *)
(* lateness, budget and bound.                                             *)
(***************************************************************************)
EXTENDS BudgetMeter, TLAPS

Sample == [thread : Threads, cpu : Nat]

\* The variables have their types, there is one sample at most, and no sample
\* is of a later time than its thread's clock shows.
TypeInv ==
  /\ budget \in Budgets /\ hasClock \in BOOLEAN
  /\ wall \in Nat /\ ticked \in Nat /\ epoch \in Nat /\ deadline \in Nat
  /\ cpu \in [Threads -> Nat]
  /\ thread \in Threads
  /\ phase \in {"running", "idle", "limit"}
  /\ budget_used \in Nat
  /\ budget_last \subseteq Sample
  /\ \A s, r \in budget_last : s = r
  /\ \A s \in budget_last : s.cpu <= cpu[s.thread]
  /\ own \in Nat /\ hosted \in Nat /\ stray \in Nat /\ moves \in Nat

\* The ticker is never later than it may be, and the callback comes at the
\* next tick at the latest.
Timely ==
  budget # 0 => /\ ticked <= wall /\ wall <= ticked + Slack
                /\ deadline <= epoch + 1

\* What WebAssembly code can have used since the last callback: the time since
\* the last tick, or, once the deadline is reached, a slack.
Unseen == IF epoch < deadline THEN wall - ticked ELSE Slack

Wasm == own - hosted

\* The phase is charged no more than there is to charge: what a comparable
\* sample would add now is, with what was charged before, still its own.  Only
\* a store that left a thread can be charged what it did not use.
NotTooMuch ==
  /\ budget_used <= Chargeable /\ budget_used <= own + stray
  /\ phase = "running" => \A s \in budget_last :
       /\ budget_used + (cpu[s.thread] - s.cpu) <= own + stray
       /\ s.thread # thread => moves >= 1
       /\ s.thread = thread /\ moves < 2 => budget_used + (cpu[thread] - s.cpu) <= own

\* Multiples that the solver need not multiply out.
Slacks(n) == n * Slack
Ticks(n)  == n * EPOCH_TICK

\* And no less than what it used, but for a slack at each callback that has
\* no comparable sample: the first, and one for each change of threads.
NotTooLittle ==
  /\ budget_last = {} => Wasm <= budget_used + Unseen
  /\ \A s \in budget_last :
       /\ s.thread # thread => Wasm <= budget_used + Slacks(moves) + Unseen
       /\ s.thread = thread =>
            /\ Wasm <= budget_used + Slacks(moves + 1) + Unseen
            /\ Wasm <= budget_used + Slacks(moves + 1) + (cpu[thread] - s.cpu)

\* Without a clock the charge is a number of ticks, each of them a callback
\* that came after a slack of WebAssembly code at most.
ByTheTick ==
  \E k \in Nat : budget_used = Ticks(k) /\ Wasm <= Slacks(k) + Unseen

\* A phase is ended exactly when its charge reaches the budget.
Ended ==
  budget # 0 => /\ phase = "running" => budget_used < budget
                /\ phase = "limit" => budget_used >= budget

MeterInv ==
  /\ Timely /\ Ended
  /\ hasClock => NotTooMuch
  /\ budget # 0 /\ hasClock => NotTooLittle
  /\ budget # 0 /\ ~hasClock => ByTheTick

-----------------------------------------------------------------------------
\* Arithmetic the solver is better not asked twice.

LEMMA SlackType ==
  Slack \in Nat /\ Slack >= EPOCH_TICK /\ EPOCH_TICK \in Nat /\ Lateness \in Nat
BY MeterAssumption DEF Slack

LEMMA SlackTimes ==
  ASSUME NEW n \in Nat
  PROVE  /\ Slacks(n) \in Nat
         /\ Slacks(n + 1) = Slacks(n) + Slack
         /\ Slacks(n + 2) = Slacks(n) + Slack + Slack
<1>1. ASSUME NEW s \in Nat
      PROVE  /\ n * s \in Nat
             /\ (n + 1) * s = n * s + s /\ (n + 2) * s = n * s + s + s
  OBVIOUS
<1> QED
  BY <1>1, SlackType DEF Slacks

LEMMA TickTimes ==
  ASSUME NEW n \in Nat
  PROVE  /\ Ticks(n) \in Nat
         /\ Ticks(n + 1) = Ticks(n) + EPOCH_TICK
         /\ Ticks(n) \div EPOCH_TICK = n
<1>1. ASSUME NEW t \in Nat \ {0}
      PROVE  n * t \in Nat /\ (n + 1) * t = n * t + t /\ (n * t) \div t = n
  OBVIOUS
<1> QED
  BY <1>1, MeterAssumption DEF Ticks

LEMMA NoTimes == Slacks(0) = 0 /\ Ticks(0) = 0
BY SlackType, MeterAssumption DEF Slacks, Ticks

LEMMA UnseenType ==
  ASSUME TypeInv, Timely, budget # 0
  PROVE  Unseen \in 0..Slack
BY SlackType DEF TypeInv, Timely, Unseen

LEMMA Between ==
  ASSUME NEW w \in Nat, NEW t \in Nat, NEW e \in Nat, NEW d \in Nat, NEW s \in Nat,
         t <= w, w <= t + s
  PROVE  (IF e < d THEN w - t ELSE s) \in 0..s
OBVIOUS

LEMMA UnseenTypeNext ==
  ASSUME TypeInv', Timely', budget' # 0
  PROVE  Unseen' \in 0..Slack
<1>1. /\ wall' \in Nat /\ ticked' \in Nat /\ epoch' \in Nat /\ deadline' \in Nat
      /\ ticked' <= wall' /\ wall' <= ticked' + Slack
  BY DEF TypeInv, Timely, Slack
<1> QED
  BY <1>1, Between, SlackType DEF Unseen, Slack

\* How time passes for the code that is watched: not at all, at a tick, and
\* while WebAssembly code, host code or something else runs.
Elapses ==
  \/ /\ wall' = wall /\ ticked' = ticked /\ epoch' = epoch
     /\ own' = own /\ hosted' = hosted
  \/ /\ wall' = wall /\ ticked' = wall /\ epoch' = epoch + 1
     /\ own' = own /\ hosted' = hosted
  \/ /\ wall' = wall + 1 /\ ticked' = ticked /\ epoch' = epoch /\ epoch < deadline
     /\ own' = own + 1 /\ hosted' = hosted
  \/ /\ wall' = wall + 1 /\ ticked' = ticked /\ epoch' = epoch
     /\ own' = own + 1 /\ hosted' = hosted + 1
  \/ /\ wall' = wall + 1 /\ ticked' = ticked /\ epoch' = epoch
     /\ own' = own /\ hosted' = hosted

\* What WebAssembly code uses is unseen when it uses it.
LEMMA UnseenGrows ==
  ASSUME wall \in Nat, ticked \in Nat, epoch \in Nat, deadline \in Nat,
         own \in Nat, hosted \in Nat, own' \in Nat, hosted' \in Nat,
         wall' \in Nat, ticked' \in Nat, epoch' \in Nat, deadline' \in Nat,
         ticked <= wall, wall <= ticked + Slack, deadline <= epoch + 1,
         Slack \in Nat, deadline' = deadline, Elapses
  PROVE  Wasm' - Unseen' <= Wasm - Unseen
<1>1. (own' - hosted') - (IF epoch' < deadline' THEN wall' - ticked' ELSE Slack)
        <= (own - hosted) - (IF epoch < deadline THEN wall - ticked ELSE Slack)
  <2>1. CASE /\ wall' = wall /\ ticked' = ticked /\ epoch' = epoch
            /\ own' = own /\ hosted' = hosted
    BY <2>1
  <2>2. CASE /\ wall' = wall /\ ticked' = wall /\ epoch' = epoch + 1
            /\ own' = own /\ hosted' = hosted
    BY <2>2
  <2>3. CASE /\ wall' = wall + 1 /\ ticked' = ticked /\ epoch' = epoch /\ epoch < deadline
            /\ own' = own + 1 /\ hosted' = hosted
    BY <2>3
  <2>4. CASE /\ wall' = wall + 1 /\ ticked' = ticked /\ epoch' = epoch
            /\ own' = own + 1 /\ hosted' = hosted + 1
    BY <2>4
  <2>5. CASE /\ wall' = wall + 1 /\ ticked' = ticked /\ epoch' = epoch
            /\ own' = own /\ hosted' = hosted
    BY <2>5
  <2> QED
    BY <2>1, <2>2, <2>3, <2>4, <2>5 DEF Elapses
<1> QED
  BY <1>1 DEF Unseen, Wasm, Slack

LEMMA TimeElapses ==
  ASSUME TypeInv, Tick \/ RunWasm \/ RunHost \/ RunOther \/ Move \/ Finish \/ UNCHANGED vars
  PROVE  Elapses /\ UNCHANGED <<deadline, budget_used, budget_last>>
<1> USE DEF Elapses, Passes, fixed, time, meter, hist
<1>1. CASE Tick \/ Move \/ Finish \/ UNCHANGED vars
  BY <1>1 DEF Tick, Move, Finish, vars
<1>2. CASE RunWasm
  BY <1>2 DEF RunWasm
<1>3. CASE RunHost
  BY <1>3 DEF RunHost
<1>4. CASE RunOther
  BY <1>4 DEF RunOther
<1> QED
  BY <1>1, <1>2, <1>3, <1>4

-----------------------------------------------------------------------------
LEMMA TypeInit == Init => TypeInv
BY MeterAssumption DEF Init, TypeInv

LEMMA TypeNext == TypeInv /\ [Next]_vars => TypeInv'
<1> SUFFICES ASSUME TypeInv, [Next]_vars PROVE TypeInv'
  OBVIOUS
<1> USE MeterAssumption DEF TypeInv, fixed, time, meter, hist
<1>1. CASE Tick
  BY <1>1 DEF Tick
<1>2. CASE RunWasm
  BY <1>2 DEF RunWasm, Passes, Sample
<1>3. CASE RunHost
  BY <1>3 DEF RunHost, Passes, Sample
<1>4. CASE RunOther
  <2>1. PICK busy \in SUBSET Threads :
          /\ cpu' = [t \in Threads |-> IF t \in busy THEN cpu[t] + 1 ELSE cpu[t]]
          /\ stray' \in {stray, stray + 1}
    BY <1>4 DEF RunOther
  <2>2. cpu' \in [Threads -> Nat] /\ \A t \in Threads : cpu[t] <= cpu'[t]
    BY <2>1
  <2>3. \A s \in budget_last : s.cpu <= cpu'[s.thread]
    BY <2>2 DEF Sample
  <2> QED
    BY <1>4, <2>1, <2>2, <2>3 DEF RunOther, Passes
<1>5. CASE Move
  BY <1>5 DEF Move
<1>6. CASE Callback
  <2>1. \A s \in Comparable : s \in Sample /\ cpu[thread] >= s.cpu
    BY DEF Comparable
  <2>2. budget_used' \in Nat
    BY <1>6, <2>1 DEF Callback, Sample
  <2>3. budget_last' \in {budget_last, {[thread |-> thread, cpu |-> cpu[thread]]}}
    BY <1>6 DEF Callback
  <2>4. /\ budget_last' \subseteq Sample
        /\ \A s, r \in budget_last' : s = r
        /\ \A s \in budget_last' : s.cpu <= cpu[s.thread]
    BY <2>3 DEF Sample
  <2> QED
    BY <1>6, <2>2, <2>4 DEF Callback
<1>7. CASE Finish
  BY <1>7 DEF Finish
<1>8. CASE StartPhase
  BY <1>8 DEF StartPhase
<1>9. CASE UNCHANGED vars
  BY <1>9 DEF vars
<1> QED
  BY <1>1, <1>2, <1>3, <1>4, <1>5, <1>6, <1>7, <1>8, <1>9 DEF Next

-----------------------------------------------------------------------------
LEMMA TimelyNext == TypeInv /\ Timely /\ [Next]_vars => Timely'
<1> SUFFICES ASSUME TypeInv, Timely, [Next]_vars PROVE Timely'
  OBVIOUS
<1> USE MeterAssumption DEF TypeInv, Timely, Slack, fixed, time, meter, hist
<1>1. CASE Tick
  BY <1>1 DEF Tick
<1>2. CASE RunWasm \/ RunHost \/ RunOther
  BY <1>2 DEF RunWasm, RunHost, RunOther, Passes
<1>3. CASE Move \/ Finish \/ UNCHANGED vars
  BY <1>3 DEF Move, Finish, vars
<1>4. CASE Callback \/ StartPhase
  BY <1>4 DEF Callback, StartPhase
<1> QED
  BY <1>1, <1>2, <1>3, <1>4 DEF Next

\* What a callback makes of the charge and the sample under a clock.
LEMMA Charged ==
  ASSUME TypeInv, Callback, hasClock
  PROVE  /\ budget_last' = {[thread |-> thread, cpu |-> cpu[thread]]}
         /\ \/ /\ \A s \in budget_last : s.thread # thread
               /\ budget_used' = budget_used
            \/ \E s \in budget_last : /\ s.thread = thread
                                      /\ budget_used' = budget_used + (cpu[thread] - s.cpu)
<1>1. /\ budget_last' = {[thread |-> thread, cpu |-> cpu[thread]]}
      /\ budget_used' \in IF Comparable = {} THEN {budget_used}
                          ELSE {budget_used + (cpu[thread] - s.cpu) : s \in Comparable}
  BY DEF Callback
<1>2. Comparable = {s \in budget_last : s.thread = thread}
  BY DEF Comparable, TypeInv, Sample
<1> QED
  BY <1>1, <1>2

LEMMA StillBelow ==
  ASSUME NEW n \in Nat, NEW r \in Nat, NEW more \in Nat, NEW b \in Nat,
         b <= n + r, r <= more
  PROVE  b <= n + more
OBVIOUS

LEMMA NotTooMuchNext ==
  ASSUME TypeInv, TypeInv', hasClock, NotTooMuch, [Next]_vars
  PROVE  NotTooMuch'
<1> USE DEF NotTooMuch, Chargeable, fixed, time, meter, hist
<1>1. CASE Tick \/ Finish \/ UNCHANGED vars
  BY <1>1 DEF Tick, Finish, vars
<1>2. CASE RunWasm \/ RunHost
  <2>1. /\ own' = own + 1 /\ phase = "running"
        /\ cpu' = [cpu EXCEPT ![thread] = @ + 1]
        /\ UNCHANGED <<thread, phase, budget_used, budget_last, stray, moves>>
    BY <1>2 DEF RunWasm, RunHost
  <2>2. \A t \in Threads : cpu'[t] = IF t = thread THEN cpu[t] + 1 ELSE cpu[t]
    BY <2>1 DEF TypeInv
  <2> QED
    BY <2>1, <2>2 DEF TypeInv, Sample
<1>3. CASE RunOther
  <2>1. PICK busy \in SUBSET Threads :
          /\ phase = "running" => thread \notin busy
          /\ cpu' = [t \in Threads |-> IF t \in busy THEN cpu[t] + 1 ELSE cpu[t]]
          /\ stray' = IF phase = "running" /\ \E s \in budget_last : s.thread \in busy
                      THEN stray + 1 ELSE stray
    BY <1>3 DEF RunOther
  <2>2. UNCHANGED <<thread, phase, budget_used, budget_last, own, moves>>
    BY <1>3 DEF RunOther
  <2>3. stray' \in Nat /\ stray \in Nat /\ stray <= stray'
    BY <2>1 DEF TypeInv
  <2>4. CASE phase = "running"
    <3>1. ASSUME NEW s \in budget_last
          PROVE  /\ budget_used + (cpu'[s.thread] - s.cpu) <= own + stray'
                 /\ s.thread = thread => cpu'[thread] = cpu[thread]
      <4>1. s.thread \in Threads /\ s.cpu \in Nat
        BY DEF TypeInv, Sample
      <4>2. CASE s.thread \in busy
        BY <2>1, <2>4, <4>1, <4>2 DEF TypeInv
      <4>3. CASE s.thread \notin busy
        BY <2>1, <2>3, <2>4, <4>1, <4>3 DEF TypeInv
      <4> QED
        BY <4>2, <4>3
    <3>2. budget_used <= own + (IF moves < 2 THEN 0 ELSE stray') /\ budget_used <= own + stray'
      <4>1. own \in Nat /\ stray \in Nat /\ budget_used \in Nat /\ moves \in Nat
        BY DEF TypeInv
      <4>2. budget_used <= own + stray
        OBVIOUS
      <4>3. moves < 2 => budget_used <= own
        BY <4>1
      <4>4. budget_used <= own + stray'
        BY <4>1, <4>2, <2>3, StillBelow
      <4> QED
        BY <4>1, <4>3, <4>4
    <3> QED
      BY <2>2, <2>4, <3>1, <3>2 DEF TypeInv
  <2>5. CASE phase # "running"
    BY <2>1, <2>2, <2>5 DEF TypeInv
  <2> QED
    BY <2>4, <2>5
<1>4. CASE Move
  BY <1>4 DEF Move, TypeInv, Sample
<1>5. CASE Callback
  <2>1. /\ UNCHANGED <<cpu, thread, own, stray, moves>>
        /\ phase = "running" /\ phase' \in {"running", "limit"}
    BY <1>5 DEF Callback
  <2>2. budget_used' <= Chargeable /\ budget_used' <= own + stray
    BY <1>5, <2>1, Charged DEF TypeInv, Sample
  <2>3. budget_last' = {[thread |-> thread, cpu |-> cpu[thread]]}
    BY <1>5, Charged
  <2> QED
    BY <2>1, <2>2, <2>3 DEF TypeInv
<1>6. CASE StartPhase
  BY <1>6 DEF StartPhase, TypeInv
<1> QED
  BY <1>1, <1>2, <1>3, <1>4, <1>5, <1>6 DEF Next

LEMMA NotTooLittleNext ==
  ASSUME TypeInv, TypeInv', Timely, Timely', budget # 0, hasClock, NotTooLittle, [Next]_vars
  PROVE  NotTooLittle'
<1> USE DEF Wasm, Unseen
<1>0. /\ Slack \in Nat /\ Slacks(moves) \in Nat
      /\ Slacks(moves + 1) = Slacks(moves) + Slack /\ Slacks(moves + 2) = Slacks(moves) + Slack + Slack
      /\ Unseen \in 0..Slack /\ Unseen' \in 0..Slack
      /\ Wasm \in Int /\ Wasm' \in Int
      /\ own \in Nat /\ hosted \in Nat /\ moves \in Nat /\ budget_used \in Nat
      /\ thread \in Threads /\ cpu \in [Threads -> Nat]
  <2>1. budget' = budget /\ budget' # 0
    BY DEF Next, vars, fixed, Tick, RunWasm, RunHost, RunOther, Move, Callback, Finish, StartPhase
  <2>2. Unseen' \in 0..Slack
    BY <2>1, UnseenTypeNext
  <2> QED
    <3>1. /\ Wasm \in Int /\ Wasm' \in Int
          /\ own \in Nat /\ hosted \in Nat /\ moves \in Nat /\ budget_used \in Nat
          /\ thread \in Threads /\ cpu \in [Threads -> Nat]
      BY DEF TypeInv
    <3>2. Unseen \in 0..Slack
      BY UnseenType
    <3> HIDE DEF Unseen, Wasm
    <3> QED
      BY <2>2, <3>1, <3>2, SlackTimes, SlackType
<1>s. \A s \in budget_last : s.thread \in Threads /\ s.cpu \in Nat /\ s.cpu <= cpu[s.thread]
  BY DEF TypeInv, Sample
<1>i. /\ budget_last = {} => Wasm <= budget_used + Unseen
      /\ \A s \in budget_last :
           /\ s.thread # thread => Wasm <= budget_used + Slacks(moves) + Unseen
           /\ s.thread = thread =>
                /\ Wasm <= budget_used + Slacks(moves) + Slack + Unseen
                /\ Wasm <= budget_used + Slacks(moves) + Slack + (cpu[thread] - s.cpu)
  BY <1>0 DEF NotTooLittle
<1> USE DEF fixed, time, meter, hist
<1>1. ASSUME UNCHANGED <<thread, moves, budget_used, budget_last>>,
             Wasm' - Unseen' <= Wasm - Unseen,
             Wasm' - cpu'[thread] <= Wasm - cpu[thread]
      PROVE  NotTooLittle'
  <2>1. cpu'[thread] \in Nat
    BY <1>0, <1>1 DEF TypeInv
  <2>2. Slack' = Slack
    BY DEF Slack
  <2>3. budget_last = {} => Wasm' <= budget_used + Unseen'
    BY <1>0, <1>1, <1>i
  <2>4. ASSUME NEW s \in budget_last
        PROVE  /\ s.thread # thread => Wasm' <= budget_used + Slacks(moves) + Unseen'
               /\ s.thread = thread =>
                    /\ Wasm' <= budget_used + Slacks(moves) + Slack + Unseen'
                    /\ Wasm' <= budget_used + Slacks(moves) + Slack + (cpu'[thread] - s.cpu)
    <3>1. /\ s.cpu \in Nat /\ cpu[thread] \in Nat /\ cpu'[thread] \in Nat
          /\ Wasm \in Int /\ Wasm' \in Int /\ Unseen \in Int /\ Unseen' \in Int
          /\ Slack \in Int /\ Slacks(moves) \in Int /\ budget_used \in Int
      BY <1>0, <1>s, <2>1
    <3>2. CASE s.thread # thread
      <4>1. Wasm <= budget_used + Slacks(moves) + Unseen
        BY <1>i, <3>2
      <4> QED
        BY <1>1, <3>1, <3>2, <4>1
    <3>3. CASE s.thread = thread
      <4>1. /\ Wasm <= budget_used + Slacks(moves) + Slack + Unseen
            /\ Wasm <= budget_used + Slacks(moves) + Slack + (cpu[thread] - s.cpu)
        BY <1>i, <3>3
      <4> QED
        BY <1>1, <3>1, <3>3, <4>1
    <3> QED
      BY <3>2, <3>3
  <2> QED
    BY <1>0, <1>1, <2>2, <2>3, <2>4 DEF NotTooLittle
<1>2. CASE Tick \/ RunWasm \/ RunHost \/ RunOther \/ Finish \/ UNCHANGED vars
  <2>1. Elapses /\ UNCHANGED <<thread, moves, budget_used, budget_last, deadline>>
    BY <1>2, TimeElapses DEF Tick, RunWasm, RunHost, RunOther, Finish, vars
  <2>2. Wasm' - Unseen' <= Wasm - Unseen
    BY <2>1, UnseenGrows, SlackType DEF TypeInv, Timely
  <2>3. \/ own' = own /\ hosted' = hosted /\ cpu'[thread] >= cpu[thread]
        \/ own' = own + 1 /\ hosted' \in {hosted, hosted + 1} /\ cpu'[thread] = cpu[thread] + 1
    <3>1. CASE Tick \/ Finish \/ UNCHANGED vars
      <4>1. own' = own /\ hosted' = hosted /\ cpu' = cpu
        BY <3>1 DEF Tick, Finish, vars
      <4>2. cpu[thread] \in Nat
        BY <1>0
      <4> QED
        BY <4>1, <4>2
    <3>2. CASE RunWasm
      BY <3>2 DEF RunWasm, TypeInv
    <3>3. CASE RunHost
      BY <3>3 DEF RunHost, TypeInv
    <3>4. CASE RunOther
      BY <3>4 DEF RunOther, TypeInv
    <3> QED
      BY <1>2, <3>1, <3>2, <3>3, <3>4
  <2>4. Wasm' - cpu'[thread] <= Wasm - cpu[thread]
    <3>1. cpu[thread] \in Nat /\ cpu'[thread] \in Nat
      BY <1>0, <2>1 DEF TypeInv
    <3> QED
      BY <1>0, <2>3, <3>1
  <2> QED
    BY <1>1, <2>1, <2>2, <2>4
<1>3. CASE Move
  <2>1. /\ moves' = moves + 1 /\ thread' # thread
        /\ UNCHANGED <<own, hosted, budget_used, budget_last, cpu, wall, ticked, epoch, deadline>>
    BY <1>3 DEF Move
  <2>2. Wasm' = Wasm /\ Unseen' = Unseen /\ Slack' = Slack /\ \A n : Slacks(n)' = Slacks(n)
    BY <2>1 DEF Wasm, Unseen, Slack, Slacks
  <2>3. Slacks(moves') = Slacks(moves) + Slack /\ Slacks(moves' + 1) = Slacks(moves) + Slack + Slack
    BY <1>0, <2>1
  <2>4. ASSUME NEW s \in budget_last
        PROVE  /\ s.thread # thread' => Wasm <= budget_used + Slacks(moves') + Unseen
               /\ s.thread = thread' =>
                    /\ Wasm <= budget_used + Slacks(moves' + 1) + Unseen
                    /\ Wasm <= budget_used + Slacks(moves' + 1) + (cpu[thread'] - s.cpu)
    <3>1. Wasm <= budget_used + Slacks(moves) + Slack + Unseen
      BY <1>0, <1>i
    <3>2. s.thread = thread' => Wasm <= budget_used + Slacks(moves) + Unseen
      BY <1>i, <2>1
    <3>3. s.thread = thread' => cpu[thread'] - s.cpu \in Nat
      BY <1>s, <1>0
    <3> QED
      BY <3>1, <3>2, <3>3, <2>3, <1>0
  <2> QED
    BY <2>1, <2>2, <2>4, <1>i DEF NotTooLittle
<1>4. CASE Callback
  <2>1. /\ UNCHANGED <<own, hosted, moves, cpu, thread>>
        /\ budget_last' = {[thread |-> thread, cpu |-> cpu[thread]]}
    BY <1>4, Charged DEF Callback
  <2>2. Wasm' = Wasm /\ Slack' = Slack
    BY <2>1 DEF Wasm, Slack
  <2>3. Wasm <= budget_used' + Slacks(moves) + Slack
    <3>1. CASE /\ \A s \in budget_last : s.thread # thread
               /\ budget_used' = budget_used
      BY <1>0, <1>i, <3>1
    <3>2. CASE \E s \in budget_last : /\ s.thread = thread
                                      /\ budget_used' = budget_used + (cpu[thread] - s.cpu)
      BY <1>0, <1>i, <1>s, <3>2
    <3> QED
      BY <1>4, <3>1, <3>2, Charged
  <2>4. budget_used' \in Nat
    BY DEF TypeInv
  <2>5. moves' = moves /\ Unseen' \in Nat /\ cpu[thread] \in Nat
    BY <1>0, <2>1
  <2>6. ASSUME NEW s \in budget_last'
        PROVE  /\ s.thread = thread'
               /\ Wasm' <= budget_used' + Slacks(moves' + 1) + Unseen'
               /\ Wasm' <= budget_used' + Slacks(moves' + 1) + (cpu'[thread'] - s.cpu)
    <3>1. s = [thread |-> thread, cpu |-> cpu[thread]]
      BY <2>1
    <3>2. cpu'[thread'] - s.cpu = 0
      BY <2>1, <2>5, <3>1
    <3>3. Slacks(moves' + 1) = Slacks(moves) + Slack
      BY <1>0, <2>5
    <3> QED
      BY <1>0, <2>1, <2>2, <2>3, <2>4, <2>5, <3>1, <3>2, <3>3
  <2>7. budget_last' # {}
    BY <2>1
  <2> QED
    BY <2>6, <2>7 DEF NotTooLittle, Slacks, Slack
<1>5. CASE StartPhase
  <2>1. Wasm' = 0 /\ budget_used' = 0 /\ budget_last' = {}
    BY <1>5 DEF StartPhase, Wasm
  <2> QED
    BY <2>1, <1>0 DEF NotTooLittle
<1> QED
  BY <1>2, <1>3, <1>4, <1>5 DEF Next

LEMMA ByTheTickNext ==
  ASSUME TypeInv, TypeInv', Timely, Timely', budget # 0, ~hasClock, ByTheTick, [Next]_vars
  PROVE  ByTheTick'
<1> USE DEF fixed, time, meter, hist, Wasm, Unseen
<1>1. PICK k \in Nat : budget_used = Ticks(k) /\ Wasm <= Slacks(k) + Unseen
  BY DEF ByTheTick
<1>2. /\ Slacks(k) \in Nat /\ Slacks(k + 1) = Slacks(k) + Slack
      /\ Ticks(k + 1) = Ticks(k) + EPOCH_TICK
      /\ Slack \in Nat /\ Unseen \in 0..Slack /\ Unseen' \in Nat
      /\ Wasm \in Int /\ Wasm' \in Int
  <2>1. Unseen' \in 0..Slack
    <3>1. budget' = budget /\ budget' # 0
      BY DEF Next, vars, Tick, RunWasm, RunHost, RunOther, Move, Callback, Finish, StartPhase
    <3> QED
      BY <3>1, UnseenTypeNext
  <2>2. Wasm \in Int /\ Wasm' \in Int
    BY DEF TypeInv, Wasm
  <2> QED
    <3>1. Unseen \in 0..Slack /\ Unseen' \in Nat
      BY <2>1, UnseenType, SlackType
    <3> HIDE DEF Unseen, Wasm
    <3> QED
      BY <2>2, <3>1, SlackTimes, TickTimes, SlackType
<1>3. CASE Callback
  <2>1. budget_used' = Ticks(k + 1) /\ Wasm' = Wasm
    BY <1>1, <1>2, <1>3 DEF Callback, Wasm
  <2>2. Wasm' <= Slacks(k + 1) + Unseen'
    BY <1>1, <1>2, <2>1
  <2> QED
    BY <2>1, <2>2 DEF ByTheTick, Slack
<1>4. CASE StartPhase
  <2>1. budget_used' = Ticks(0) /\ Wasm' = 0 /\ Slacks(0) = 0
    BY <1>4, NoTimes DEF StartPhase, Wasm
  <2> QED
    BY <1>2, <2>1 DEF ByTheTick, Slack
<1>5. CASE Tick \/ RunWasm \/ RunHost \/ RunOther \/ Move \/ Finish \/ UNCHANGED vars
  <2>1. Elapses /\ UNCHANGED <<budget_used, deadline>>
    BY <1>5, TimeElapses
  <2>3. Wasm' - Unseen' <= Wasm - Unseen
    BY <2>1, UnseenGrows, SlackType DEF TypeInv, Timely
  <2>4. Wasm' <= Slacks(k) + Unseen'
    <3>1. Unseen' \in Int /\ Unseen \in Int /\ Wasm \in Int /\ Wasm' \in Int /\ Slacks(k) \in Int
      BY <1>2
    <3> QED
      BY <1>1, <2>3, <3>1
  <2> QED
    BY <1>1, <2>1, <2>4 DEF ByTheTick, Slack
<1> QED
  BY <1>3, <1>4, <1>5 DEF Next

LEMMA EndedNext == TypeInv /\ Ended /\ [Next]_vars => Ended'
<1> SUFFICES ASSUME TypeInv, Ended, [Next]_vars PROVE Ended'
  OBVIOUS
<1> USE DEF Ended, TypeInv, fixed, time, meter, hist
<1>1. CASE Callback
  <2>1. budget' = budget /\ budget_used' \in Nat /\ budget \in Nat
    BY <1>1, TypeNext, MeterAssumption DEF Callback
  <2>2. /\ phase = "running"
        /\ IF budget # 0 /\ budget_used' >= budget THEN phase' = "limit" ELSE phase' = phase
    BY <1>1 DEF Callback
  <2> QED
    BY <2>1, <2>2
<1>2. CASE StartPhase
  BY <1>2, MeterAssumption DEF StartPhase
<1>3. CASE Tick \/ RunWasm \/ RunHost \/ RunOther \/ Move \/ Finish \/ UNCHANGED vars
  BY <1>3 DEF Tick, RunWasm, RunHost, RunOther, Move, Finish, vars
<1> QED
  BY <1>1, <1>2, <1>3 DEF Next

LEMMA MeterInit == Init => MeterInv
<1> SUFFICES ASSUME Init PROVE MeterInv
  OBVIOUS
<1>1. /\ wall = 0 /\ ticked = 0 /\ epoch = 0 /\ deadline = 1 /\ phase = "running"
      /\ budget_used = 0 /\ budget_last = {} /\ own = 0 /\ hosted = 0 /\ stray = 0
      /\ moves = 0 /\ budget \in Nat
  BY MeterAssumption DEF Init
<1>2. Timely /\ Ended
  BY <1>1, SlackType DEF Timely, Ended
<1>3. NotTooMuch /\ NotTooLittle
  BY <1>1 DEF NotTooMuch, NotTooLittle, Chargeable, Wasm, Unseen
<1>4. ByTheTick
  BY <1>1, NoTimes, SlackType DEF ByTheTick, Wasm, Unseen
<1> QED
  BY <1>2, <1>3, <1>4 DEF MeterInv

\* Every phase of every store is charged as MeterInv says.
THEOREM MeterInvariant == Spec => [](TypeInv /\ MeterInv)
<1>1. Init => TypeInv /\ MeterInv
  BY TypeInit, MeterInit
<1>2. TypeInv /\ MeterInv /\ [Next]_vars => (TypeInv /\ MeterInv)'
  <2> SUFFICES ASSUME TypeInv, MeterInv, [Next]_vars PROVE TypeInv' /\ MeterInv'
    OBVIOUS
  <2>1. TypeInv' /\ Timely' /\ Ended'
    BY TypeNext, TimelyNext, EndedNext DEF MeterInv
  <2>2. budget' = budget /\ hasClock' = hasClock
    BY DEF Next, vars, fixed, Tick, RunWasm, RunHost, RunOther, Move, Callback, Finish, StartPhase
  <2>3. ASSUME hasClock PROVE NotTooMuch'
    BY <2>1, <2>3, NotTooMuchNext DEF MeterInv
  <2>4. ASSUME budget # 0, hasClock PROVE NotTooLittle'
    BY <2>1, <2>4, NotTooLittleNext DEF MeterInv
  <2>5. ASSUME budget # 0, ~hasClock PROVE ByTheTick'
    BY <2>1, <2>5, ByTheTickNext DEF MeterInv
  <2> QED
    BY <2>1, <2>2, <2>3, <2>4, <2>5 DEF MeterInv
<1> QED
  BY <1>1, <1>2, PTL DEF Spec

\* A phase is charged its own CPU time, no more (but for what the thread it
\* left and came back to computed besides) and, up to what callbacks cannot
\* see, no less, with any number of threads and changes of thread: the budget
\* ends what spins and never what merely waits (PhaseBudget, the
\* epoch_deadline_callback and the ticker).
THEOREM BudgetCorrect == Spec => []BudgetIsCpu
<1>1. ASSUME TypeInv, MeterInv, budget # 0, hasClock
      PROVE  /\ budget_used <= Chargeable
             /\ phase = "limit" => Chargeable >= budget
             /\ own - hosted <= budget_used + (moves + 2) * Slack
  <2>1. /\ Slack \in Nat /\ Unseen \in 0..Slack /\ Slacks(moves) \in Nat
        /\ Slacks(moves + 1) = Slacks(moves) + Slack
        /\ Slacks(moves + 2) = Slacks(moves) + Slack + Slack
    BY <1>1, SlackTimes, SlackType, UnseenType DEF TypeInv, MeterInv
  <2>2. Wasm \in Int /\ budget_used \in Nat /\ Chargeable \in Nat /\ budget \in Nat
    BY <1>1, MeterAssumption DEF TypeInv, Wasm, Chargeable
  <2>3. budget_used <= Chargeable
    BY <1>1 DEF MeterInv, NotTooMuch
  <2>4. phase = "limit" => Chargeable >= budget
    BY <1>1, <2>2, <2>3 DEF MeterInv, Ended
  <2>5. Wasm <= budget_used + Slacks(moves) + Slack + Slack
    BY <1>1, <2>1, <2>2 DEF MeterInv, NotTooLittle
  <2> QED
    BY <2>1, <2>2, <2>3, <2>4, <2>5 DEF Wasm, Slacks
<1>2. ASSUME TypeInv, MeterInv, budget # 0, ~hasClock
      PROVE  own - hosted <= (budget_used \div EPOCH_TICK + 1) * Slack
  <2>1. PICK k \in Nat : budget_used = Ticks(k) /\ Wasm <= Slacks(k) + Unseen
    BY <1>2 DEF MeterInv, ByTheTick
  <2>2. budget_used \div EPOCH_TICK = k
    BY <2>1, TickTimes
  <2>3. /\ Slacks(k) \in Nat /\ Slacks(k + 1) = Slacks(k) + Slack
        /\ Slack \in Nat /\ Unseen \in 0..Slack /\ Wasm \in Int
    BY <1>2, SlackTimes, SlackType, UnseenType DEF TypeInv, MeterInv, Wasm
  <2>4. Wasm <= Slacks(k + 1)
    BY <2>1, <2>3
  <2> QED
    BY <2>2, <2>4 DEF Wasm, Slacks
<1>3. TypeInv /\ MeterInv => BudgetIsCpu
  BY <1>1, <1>2 DEF BudgetIsCpu, MeterInv, Ended
<1> QED
  BY <1>3, MeterInvariant, PTL

\* The comment's "delta between consecutive samples on the same thread is the
\* case's own execution" holds while the store's thread changes at most once.
THEOREM DeltaIsOwnUnmigrated == Spec => [](moves < 2 => DeltaIsOwn)
<1>1. TypeInv /\ MeterInv => (moves < 2 => DeltaIsOwn)
  BY DEF TypeInv, MeterInv, NotTooMuch, Chargeable, DeltaIsOwn
<1> QED
  BY <1>1, MeterInvariant, PTL
=============================================================================
