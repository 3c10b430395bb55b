------------------------- MODULE BrowserDriverProofs -------------------------
(***************************************************************************)
(* Proofs about BrowserDriver: the types of the driver, the page and the   *)
(* workers; that an awaited report is thrown or returned for good; and,    *)
(* for any suites and number of workers, that what is returned is whole.   *)
(***************************************************************************)
EXTENDS BrowserDriver, FiniteSetTheorems, SequenceTheorems, WellFoundedInduction, TLAPS

-----------------------------------------------------------------------------
(* What the driver does with the report. *)

\* What has been returned was reported.
ReturnedSettled == driver = "returned" => report # "pending"

(* A step of the driver or of its page keeps the report settled that was
   returned. *)
LEMMA ReturnedSettledStep ==
  ASSUME ReturnedSettled, [Next]_vars
  PROVE  ReturnedSettled'
<1>1. CASE PoolNext /\ UNCHANGED dvars
  BY <1>1 DEF ReturnedSettled, dvars
<1>2. CASE Crash \/ PageError \/ Stall
  <2>1. Reject
    BY <1>2 DEF Crash, PageError, Stall
  <2> QED BY <2>1 DEF Reject, ReturnedSettled
<1>3. CASE Hear \/ Silence \/ Loaded \/ LoadFails
  BY <1>3 DEF Hear, Silence, Loaded, LoadFails, ReturnedSettled, dvars
<1>4. CASE Settle
  BY <1>4 DEF Settle, ReturnedSettled
<1>5. CASE Answered \/ UNCHANGED vars
  BY <1>5 DEF Answered, ReturnedSettled, vars
<1> QED BY <1>1, <1>2, <1>3, <1>4, <1>5 DEF Next

(* Whatever the page does: once its report is awaited the driver throws or
   returns, and neither is taken back. *)
THEOREM AwaitedIsThrownCorrect == Spec => AwaitedIsThrown
<1> DEFINE Final ==
      /\ driver = "awaiting" => driver' \in {"awaiting", "returned", "thrown"}
      /\ driver = "returned" => driver' = "returned"
      /\ driver = "thrown" /\ report # "pending" => driver' = "thrown"
<1>1. Init => ReturnedSettled
  BY DEF Init, ReturnedSettled
<1>2. ASSUME ReturnedSettled, Next
      PROVE  Final
  <2>1. CASE PoolNext /\ UNCHANGED dvars
    BY <2>1 DEF dvars
  <2>2. CASE Crash \/ PageError \/ Stall
    <3>1. Reject
      BY <2>2 DEF Crash, PageError, Stall
    <3>2. CASE report # "pending"
      BY <3>1, <3>2 DEF Reject
    <3>3. CASE report = "pending"
      BY <1>2, <3>1, <3>3 DEF Reject, Awaited, ReturnedSettled
    <3> QED BY <3>2, <3>3
  <2>3. CASE Hear \/ Silence \/ Loaded \/ LoadFails
    BY <2>3 DEF Hear, Silence, Loaded, LoadFails, dvars
  <2>4. CASE Settle
    BY <2>4 DEF Settle
  <2>5. CASE Answered
    BY <2>5 DEF Answered, vars
  <2> QED BY <1>2, <2>1, <2>2, <2>3, <2>4, <2>5 DEF Next
<1>3. ReturnedSettled /\ [Next]_vars => ReturnedSettled'
  BY ReturnedSettledStep
<1>4. ReturnedSettled /\ [Next]_vars => [Final]_vars
  BY <1>2
<1> HIDE DEF Final
<1>5. Spec => [][Final]_vars
  BY <1>1, <1>3, <1>4, PTL DEF Spec
<1> QED BY <1>5 DEF Final, AwaitedIsThrown

-----------------------------------------------------------------------------
(* The types. *)

\* The messages of a worker.
Message ==
  EventRecord \union [kind : {"error"}] \union [kind : {"counts"}, counts : [Counted -> Nat]]

\* The types that the harness of the workers keeps.
HarnessTyped ==
  /\ config \in Configs
  /\ now \in 0..Len(suites)
  /\ worker \in [Workers -> {"new", "looping", "running", "over", "terminated"}]
  /\ at \in [Workers -> Nat \ {0}]
  /\ \A w \in Workers : at[w] % Pool = w % Pool
  /\ counts \in [Workers -> [Counted -> Nat]]
  /\ abandoned \in [Workers -> SUBSET Nat]
  /\ \A w \in Workers : abandoned[w] \subseteq 1..at[w]
  /\ channel \in [Workers -> Seq(Message)]
  /\ DOMAIN verdict = DOMAIN suites
  /\ \A s \in DOMAIN suites : \A i \in DOMAIN verdict[s] : verdict[s][i] \in Verdicts

\* The types of the page and the driver; a page that works has a suite.
PageTyped ==
  /\ page \in {"blank", "running", "reported", "gone"}
  /\ Alive => now # 0
  /\ rows \in Nat
  /\ received \in [Workers -> Seq(EventRecord)]
  /\ DOMAIN finished \subseteq Workers
  /\ DOMAIN out \subseteq Keys
  /\ quiet \in BOOLEAN

DriverTyped ==
  /\ watchdog \in BOOLEAN
  /\ driver \in Settled \union {"loading", "awaiting"}
  /\ report \in {"pending", "resolved", "rejected"}

Typed == HarnessTyped /\ PageTyped /\ DriverTyped

(* The types that are kept are those the runs check. *)
LEMMA TypedIsTypeOK == Typed => TypeOK
BY DEF Typed, HarnessTyped, PageTyped, DriverTyped, TypeOK

(* A quotient of a number smaller than the divisor. *)
LEMMA SmallMultiple ==
  ASSUME NEW p \in Nat, p > 0, NEW q \in Int, NEW r \in 0..(p - 1), NEW s \in 0..(p - 1),
         p * q = r - s
  PROVE  q = 0
<1>1. q >= 1 => p * q >= p
  OBVIOUS
<1>2. q <= -1 => p * q <= -p
  OBVIOUS
<1> QED BY <1>1, <1>2

(* The next case of a stripe is in the stripe. *)
LEMMA SameStripe ==
  ASSUME NEW a \in Nat, NEW p \in Nat, p > 0
  PROVE  (a + p) % p = a % p
<1>1. PICK b \in Nat : b = a + p
  OBVIOUS
<1>2. /\ a % p \in 0..(p - 1) /\ a \div p \in Nat /\ a = p * (a \div p) + (a % p)
      /\ b % p \in 0..(p - 1) /\ b \div p \in Nat /\ b = p * (b \div p) + (b % p)
  OBVIOUS
<1>3. PICK q \in Nat, r \in 0..(p - 1), c \in Nat, s \in 0..(p - 1) :
        q = a \div p /\ r = a % p /\ c = b \div p /\ s = b % p
  BY <1>2
<1>4. a = p * q + r /\ b = p * c + s
  BY <1>2, <1>3
<1>5. p * (c - q - 1) = r - s
  <2>1. p * (c - q - 1) = p * c - p * q - p
    OBVIOUS
  <2> QED BY <1>1, <1>4, <2>1
<1>6. PICK d \in Int : d = c - q - 1
  OBVIOUS
<1>7. d = 0
  BY <1>5, <1>6, SmallMultiple
<1> QED BY <1>1, <1>3, <1>5, <1>6, <1>7

(* What a page may be given. *)
LEMMA ConfigTyped ==
  ASSUME config \in Configs
  PROVE  /\ Pool \in Nat /\ Pool > 0
         /\ suites \in Seq(SuiteRecord) /\ Len(suites) \in Nat /\ Len(suites) > 0
         /\ Workers \subseteq Nat \ {0}
         /\ \A s \in 1..Len(suites) : s \in DOMAIN suites /\ suites[s].key \in Keys
<1>1. config \in [jobs : Nat \ {0}, suites : Seq(SuiteRecord)] /\ suites # <<>>
  BY HarnessAssumption DEF suites
<1>2. suites \in Seq(SuiteRecord) /\ Pool \in Nat \ {0}
  BY <1>1 DEF suites, Pool
<1>3. \A s \in DOMAIN suites : suites[s] \in SuiteRecord
  BY <1>2
<1>4. \A s \in DOMAIN suites : suites[s].key \in Keys
  BY <1>3 DEF SuiteRecord
<1>5. Workers \subseteq Nat \ {0}
  BY <1>2 DEF Workers
<1> QED BY <1>1, <1>2, <1>4, <1>5

(* The first message of a channel is a message, and so are the others. *)
LEMMA MessagesTyped ==
  ASSUME NEW s \in Seq(Message), s # <<>>
  PROVE  /\ Tail(s) \in Seq(Message)
         /\ Head(s).kind = "event" => Head(s) \in EventRecord
<1>1. Head(s) \in Message /\ Tail(s) \in Seq(Message)
  OBVIOUS
<1> QED BY <1>1 DEF Message

(* A worker posts messages. *)
LEMMA PostTyped ==
  ASSUME HarnessTyped, NEW w \in Workers, NEW m \in Message, Post(w, m)
  PROVE  channel' \in [Workers -> Seq(Message)]
BY DEF HarnessTyped, Post

(* New workers for a suite are typed. *)
LEMMA HiredTyped ==
  ASSUME HarnessTyped, NEW s \in 1..Len(suites), Hired(s), UNCHANGED <<config, verdict>>
  PROVE  HarnessTyped' /\ now' # 0
<1>1. /\ Pool \in Nat /\ Pool > 0 /\ Len(suites) \in Nat
      /\ Workers \subseteq Nat \ {0}
  BY ConfigTyped DEF HarnessTyped
<1>2. Workers' = Workers /\ Pool' = Pool /\ suites' = suites
  BY DEF Workers, Pool, suites
<1>3. now' \in 0..Len(suites) /\ now' # 0
  BY <1>1 DEF Hired
<1>4. at' \in [Workers -> Nat \ {0}] /\ \A w \in Workers : at'[w] % Pool = w % Pool
  BY <1>1 DEF Hired
<1>5. counts' \in [Workers -> [Counted -> Nat]]
  BY DEF Hired, Zero
<1>6. /\ abandoned' \in [Workers -> SUBSET Nat]
      /\ \A w \in Workers : abandoned'[w] \subseteq 1..at'[w]
  BY DEF Hired
<1>7. channel' \in [Workers -> Seq(Message)]
  BY DEF Hired
<1>8. worker' \in [Workers -> {"new", "looping", "running", "over", "terminated"}]
  BY DEF Hired
<1> QED BY <1>2, <1>3, <1>4, <1>5, <1>6, <1>7, <1>8 DEF HarnessTyped

(* A worker that throws is over. *)
LEMMA BreakTyped ==
  ASSUME HarnessTyped, NEW w \in Workers, Break(w)
  PROVE  HarnessTyped'
<1>1. [kind |-> "error"] \in Message
  BY DEF Message
<1>2. channel' \in [Workers -> Seq(Message)]
  BY <1>1, PostTyped DEF Break
<1>3. Workers' = Workers /\ Pool' = Pool /\ suites' = suites
  BY DEF Workers, Pool, suites, Break
<1>4. worker' \in [Workers -> {"new", "looping", "running", "over", "terminated"}]
  BY DEF Break, HarnessTyped
<1> QED BY <1>2, <1>3, <1>4 DEF HarnessTyped, Break

(* A case's event leaves the worker typed, and further on in its stripe. *)
LEMMA EmitTyped ==
  ASSUME HarnessTyped, NEW w \in Workers, NEW status \in Statuses, Emit(w, status), UNCHANGED config
  PROVE  /\ worker' \in [Workers -> {"new", "looping", "running", "over", "terminated"}]
         /\ at' \in [Workers -> Nat \ {0}]
         /\ \A v \in Workers : at'[v] % Pool = v % Pool /\ at'[v] >= at[v]
         /\ counts' \in [Workers -> [Counted -> Nat]]
         /\ channel' \in [Workers -> Seq(Message)]
         /\ at[w] \in 1..at'[w]
<1>1. Pool \in Nat /\ Pool > 0 /\ at[w] \in Nat /\ at[w] # 0
  BY ConfigTyped DEF HarnessTyped
<1>2. at[w] + Pool \in Nat /\ (at[w] + Pool) % Pool = at[w] % Pool
  <2>1. \A a, p \in Nat : p > 0 => (a + p) % p = a % p
    BY SameStripe
  <2>2. PICK a \in Nat, p \in Nat : a = at[w] /\ p = Pool /\ p > 0
    BY <1>1
  <2>3. (a + p) % p = a % p
    BY <2>1, <2>2, Zenon
  <2> QED BY <1>1, <2>2, <2>3
<1>3. at' = [at EXCEPT ![w] = at[w] + Pool]
  BY DEF Emit, NextInStripe
<1>4. at' \in [Workers -> Nat \ {0}] /\ at'[w] = at[w] + Pool
  BY <1>1, <1>2, <1>3 DEF HarnessTyped
<1>5. ASSUME NEW v \in Workers
      PROVE  at'[v] % Pool = v % Pool /\ at'[v] >= at[v]
  <2>1. CASE v = w
    BY <1>1, <1>2, <1>4, <2>1 DEF HarnessTyped
  <2>2. CASE v # w
    BY <1>3, <2>2 DEF HarnessTyped
  <2> QED BY <2>1, <2>2
<1>6. counts' \in [Workers -> [Counted -> Nat]]
  BY DEF Emit, Bumped, HarnessTyped
<1>7. Event(at[w], status) \in Message
  BY <1>1 DEF Event, Message, EventRecord
<1>8. channel' \in [Workers -> Seq(Message)]
  BY <1>7, PostTyped DEF Emit
<1>9. worker' \in [Workers -> {"new", "looping", "running", "over", "terminated"}]
  BY DEF Emit, HarnessTyped
<1> QED BY <1>1, <1>4, <1>5, <1>6, <1>8, <1>9

(* A worker's step keeps the types. *)
LEMMA HarnessStep ==
  ASSUME HarnessTyped, NEW w \in Workers, HarnessNext(w)
  PROVE  HarnessTyped'
<1>1. CASE Break(w)
  BY <1>1, BreakTyped
<1>2. CASE (Boot(w) \/ Relocate(w)) /\ ~Break(w)
  <2>1. /\ UNCHANGED <<config, now, at, counts, abandoned, channel, verdict>>
        /\ worker' \in [Workers -> {"new", "looping", "running", "over", "terminated"}]
    BY <1>2 DEF Boot, Relocate, HarnessTyped
  <2>2. Workers' = Workers /\ Pool' = Pool /\ suites' = suites
    BY <2>1 DEF Workers, Pool, suites
  <2> QED BY <2>1, <2>2 DEF HarnessTyped
<1>3. CASE Exclude(w) \/ Deselect(w)
  <2>1. PICK status \in Statuses : Emit(w, status)
    BY <1>3 DEF Exclude, Deselect, Statuses
  <2>2. UNCHANGED <<config, now, abandoned, verdict>>
    BY <1>3 DEF Exclude, Deselect
  <2>3. Workers' = Workers /\ Pool' = Pool /\ suites' = suites
    BY <2>2 DEF Workers, Pool, suites
  <2>4. /\ worker' \in [Workers -> {"new", "looping", "running", "over", "terminated"}]
        /\ at' \in [Workers -> Nat \ {0}]
        /\ \A v \in Workers : at'[v] % Pool = v % Pool /\ at'[v] >= at[v]
        /\ counts' \in [Workers -> [Counted -> Nat]]
        /\ channel' \in [Workers -> Seq(Message)]
    BY <2>1, <2>2, EmitTyped
  <2>5. \A v \in Workers : abandoned'[v] \subseteq 1..at'[v]
    BY <2>2, <2>4 DEF HarnessTyped
  <2> QED BY <2>2, <2>3, <2>4, <2>5 DEF HarnessTyped
<1>4. CASE EndCase(w) \/ TimeOut(w)
  <2>1. PICK status \in Verdicts : Decide(w, status)
    BY <1>4 DEF EndCase, TimeOut, Verdicts
  <2>2. Emit(w, status) /\ status \in Statuses /\ UNCHANGED <<config, now>>
    BY <2>1 DEF Decide, Statuses
  <2>3. Workers' = Workers /\ Pool' = Pool /\ suites' = suites
    BY <2>2 DEF Workers, Pool, suites
  <2>4. /\ worker' \in [Workers -> {"new", "looping", "running", "over", "terminated"}]
        /\ at' \in [Workers -> Nat \ {0}]
        /\ \A v \in Workers : at'[v] % Pool = v % Pool /\ at'[v] >= at[v]
        /\ counts' \in [Workers -> [Counted -> Nat]]
        /\ channel' \in [Workers -> Seq(Message)]
        /\ at[w] \in 1..at'[w]
    BY <2>2, EmitTyped
  <2>5. \A v \in Workers : 1..at[v] \subseteq 1..at'[v]
    BY <2>4 DEF HarnessTyped
  <2>6. abandoned' = abandoned \/ abandoned' = [abandoned EXCEPT ![w] = @ \union {at[w]}]
    BY <1>4 DEF EndCase, TimeOut
  <2>7. abandoned' \in [Workers -> SUBSET Nat] /\ \A v \in Workers : abandoned'[v] \subseteq 1..at'[v]
    <3>1. CASE abandoned' = abandoned
      BY <2>5, <3>1 DEF HarnessTyped
    <3>2. CASE abandoned' = [abandoned EXCEPT ![w] = @ \union {at[w]}]
      <4>1. abandoned' \in [Workers -> SUBSET Nat]
        BY <3>2 DEF HarnessTyped
      <4>2. abandoned'[w] \subseteq 1..at'[w]
        BY <2>4, <2>5, <3>2 DEF HarnessTyped
      <4>3. \A v \in Workers \ {w} : abandoned'[v] \subseteq 1..at'[v]
        BY <2>5, <3>2 DEF HarnessTyped
      <4> QED BY <4>1, <4>2, <4>3
    <3> QED BY <2>6, <3>1, <3>2
  <2>8. /\ DOMAIN verdict' = DOMAIN suites
        /\ \A s \in DOMAIN suites : \A i \in DOMAIN verdict'[s] : verdict'[s][i] \in Verdicts
    <3>1. verdict' = [verdict EXCEPT ![now] =
            [i \in DOMAIN verdict[now] \union {at[w]} |-> IF i = at[w] THEN status ELSE verdict[now][i]]]
      BY <2>1 DEF Decide
    <3> QED BY <2>1, <3>1 DEF HarnessTyped
  <2> QED BY <2>2, <2>3, <2>4, <2>7, <2>8 DEF HarnessTyped
<1>5. CASE Late(w)
  <2>1. UNCHANGED <<config, now, worker, at, counts, channel, verdict>>
    BY <1>5 DEF Late
  <2>2. Workers' = Workers /\ Pool' = Pool /\ suites' = suites
    BY <2>1 DEF Workers, Pool, suites
  <2>3. abandoned' \in [Workers -> SUBSET Nat] /\ \A v \in Workers : abandoned'[v] \subseteq 1..at[v]
    BY <1>5 DEF Late, HarnessTyped
  <2> QED BY <2>1, <2>2, <2>3 DEF HarnessTyped
<1>6. CASE Escape(w) \/ (EndLoop(w) /\ ~Break(w))
  <2>1. PICK m \in Message : Post(w, m)
    BY <1>6 DEF Escape, EndLoop, Message, HarnessTyped
  <2>2. UNCHANGED <<config, now, at, counts, abandoned, verdict>>
    BY <1>6 DEF Escape, EndLoop
  <2>3. worker' \in [Workers -> {"new", "looping", "running", "over", "terminated"}]
    BY <1>6 DEF Escape, EndLoop, HarnessTyped
  <2>4. Workers' = Workers /\ Pool' = Pool /\ suites' = suites
    BY <2>2 DEF Workers, Pool, suites
  <2>5. channel' \in [Workers -> Seq(Message)]
    BY <2>1, PostTyped
  <2> QED BY <2>2, <2>3, <2>4, <2>5 DEF HarnessTyped
<1>7. CASE Drift(w)
  BY <1>1, <1>7 DEF Drift
<1> QED BY <1>1, <1>2, <1>3, <1>4, <1>5, <1>6, <1>7 DEF HarnessNext

(* A worker that has sent its last message is terminated. *)
LEMMA TerminateTyped ==
  ASSUME HarnessTyped, NEW w \in Workers, Terminate(w)
  PROVE  HarnessTyped'
<1>1. Workers' = Workers /\ Pool' = Pool /\ suites' = suites
  BY DEF Workers, Pool, suites, Terminate
<1> QED BY <1>1 DEF HarnessTyped, Terminate

(* A step of the page keeps the types. *)
LEMMA PoolStep ==
  ASSUME HarnessTyped, PageTyped, PoolNext
  PROVE  HarnessTyped' /\ PageTyped'
<1>0. Len(suites) \in Nat /\ Len(suites) > 0 /\ now \in 0..Len(suites)
  BY ConfigTyped DEF HarnessTyped
<1>1. CASE StartPage
  <2>1. HarnessTyped' /\ now' # 0
    BY <1>0, <1>1, HiredTyped DEF StartPage, StartSuite
  <2>2. Workers' = Workers
    BY <1>1 DEF StartPage, Workers, Pool
  <2>3. PageTyped'
    <3>1. /\ UNCHANGED <<rows, out>> /\ page' = "running"
          /\ received' = [w \in Workers |-> <<>>] /\ finished' = [w \in {} |-> Zero] /\ quiet' = FALSE
      BY <1>1 DEF StartPage, StartSuite, Beat
    <3>2. received' \in [Workers -> Seq(EventRecord)] /\ DOMAIN finished' = {}
      BY <3>1
    <3> QED BY <2>1, <2>2, <3>1, <3>2 DEF PageTyped
  <2> QED BY <2>1, <2>3
<1>2. ASSUME NEW w \in Workers, Work(w)
      PROVE  HarnessTyped' /\ PageTyped'
  <2>1. HarnessTyped'
    BY <1>2, HarnessStep DEF Work
  <2>2. config' = config /\ now' = now
    BY <1>2 DEF Work, HarnessNext, Boot, Drift, Exclude, Deselect, Relocate, EndCase, TimeOut, Decide,
                Late, Escape, EndLoop, Break
  <2>3. PageTyped'
    BY <1>2, <2>2 DEF Work, pvars, PageTyped, Alive, Workers, Pool
  <2> QED BY <2>1, <2>3
<1>3. ASSUME NEW w \in Workers, TakeEvent(w)
      PROVE  HarnessTyped' /\ PageTyped'
  <2>1. /\ channel[w] # <<>> /\ Head(channel[w]).kind = "event" /\ channel[w] \in Seq(Message)
        /\ UNCHANGED <<config, now, worker, at, counts, abandoned, verdict, page, finished, out>>
    BY <1>3 DEF TakeEvent, Receives, HarnessTyped
  <2>2. Head(channel[w]) \in EventRecord /\ Tail(channel[w]) \in Seq(Message)
    BY <2>1, MessagesTyped
  <2>3. Workers' = Workers /\ Pool' = Pool /\ suites' = suites
    BY <2>1 DEF Workers, Pool, suites
  <2>4. channel' \in [Workers -> Seq(Message)]
    BY <1>3, <2>2 DEF TakeEvent, HarnessTyped
  <2>5. received' \in [Workers -> Seq(EventRecord)]
    BY <1>3, <2>2 DEF TakeEvent, PageTyped
  <2>6. rows' \in Nat /\ quiet' \in BOOLEAN
    <3>1. rows' = rows + 1 /\ (quiet' = FALSE \/ quiet' = quiet)
      BY <1>3 DEF TakeEvent, Beat
    <3>2. rows' \in Nat
      BY <3>1 DEF PageTyped
    <3>3. quiet' \in BOOLEAN
      BY <3>1 DEF PageTyped
    <3> QED BY <3>2, <3>3
  <2> QED BY <2>1, <2>3, <2>4, <2>5, <2>6 DEF HarnessTyped, PageTyped, Alive
<1>4. ASSUME NEW w \in Workers, TakeError(w)
      PROVE  HarnessTyped' /\ PageTyped'
  <2>1. HarnessTyped'
    BY <1>4, TerminateTyped DEF TakeError
  <2>2. PageTyped'
    BY <1>4 DEF TakeError, Terminate, Report, PageTyped, Alive, Receives, Workers, Pool
  <2> QED BY <2>1, <2>2
<1>5. ASSUME NEW w \in Workers, TakeCounts(w)
      PROVE  HarnessTyped' /\ PageTyped'
  <2> DEFINE parts == [v \in DOMAIN finished \union {w} |->
                         IF v = w THEN Head(channel[w]).counts ELSE finished[v]]
  <2>1. DOMAIN parts \subseteq Workers /\ Alive /\ rows' = rows
    BY <1>5 DEF TakeCounts, Receives, PageTyped
  <2>2. now \in 1..Len(suites)
    BY <1>0, <2>1 DEF PageTyped
  <2>3. CASE page = "running" /\ DOMAIN parts = Workers
    <3>1. /\ EndSuite(MergeCounts(parts))
          /\ IF page' = "running"
             THEN StartSuite(now + 1) /\ UNCHANGED <<config, verdict>>
             ELSE Terminate(w) /\ finished' = parts /\ UNCHANGED <<received, quiet>>
      BY <1>5, <2>3 DEF TakeCounts
    <3> HIDE DEF parts
    <3>2. DOMAIN out' \subseteq Keys
      <4>1. Suite.key \in Keys
        BY <2>2, ConfigTyped DEF Suite, HarnessTyped
      <4> QED BY <3>1, <4>1 DEF EndSuite, PageTyped
    <3>3. /\ page' \in {"running", "reported"}
          /\ page' = "running" => now # Len(suites)
      BY <2>3, <3>1 DEF EndSuite, Report
    <3>4. CASE page' = "running"
      <4>1. now + 1 \in 1..Len(suites)
        BY <1>0, <2>2, <3>3, <3>4
      <4>2. StartSuite(now + 1) /\ UNCHANGED <<config, verdict>>
        BY <3>1, <3>4
      <4>3. HarnessTyped' /\ now' # 0
        BY <4>1, <4>2, HiredTyped DEF StartSuite
      <4>4. Workers' = Workers
        BY <4>2 DEF Workers, Pool
      <4>5. /\ received' = [v \in Workers |-> <<>>] /\ finished' = [v \in {} |-> Zero]
            /\ quiet' = FALSE
        BY <4>2 DEF StartSuite, Beat
      <4>6. received' \in [Workers -> Seq(EventRecord)] /\ DOMAIN finished' = {}
        BY <4>5
      <4> QED BY <2>1, <3>2, <3>3, <4>3, <4>4, <4>5, <4>6 DEF PageTyped
    <3>5. CASE page' # "running"
      <4>1. Terminate(w) /\ finished' = parts /\ UNCHANGED <<received, quiet>>
        BY <3>1, <3>5
      <4>2. HarnessTyped'
        BY <4>1, TerminateTyped
      <4>3. Workers' = Workers /\ now' = now
        BY <4>1 DEF Terminate, Workers, Pool
      <4> QED BY <2>1, <2>2, <3>2, <3>3, <4>1, <4>2, <4>3 DEF PageTyped
    <3> QED BY <3>4, <3>5
  <2>4. CASE ~(page = "running" /\ DOMAIN parts = Workers)
    <3>1. /\ Terminate(w) /\ finished' = parts
          /\ UNCHANGED <<page, received, out, payload, quiet>>
      BY <1>5, <2>4 DEF TakeCounts
    <3>2. HarnessTyped'
      BY <3>1, TerminateTyped
    <3>3. Workers' = Workers /\ now' = now
      BY <3>1 DEF Terminate, Workers, Pool
    <3> QED BY <2>1, <3>1, <3>2, <3>3 DEF PageTyped, Alive
  <2> QED BY <2>3, <2>4
<1> QED BY <1>1, <1>2, <1>3, <1>4, <1>5 DEF PoolNext

(* A page, its driver and its workers start typed. *)
LEMMA TypedInit == Init => Typed
<1> SUFFICES ASSUME Init PROVE Typed
  OBVIOUS
<1> USE DEF Init, PoolInit, HarnessInit
<1>1. config \in Configs
  OBVIOUS
<1>2. Pool \in Nat /\ Pool > 0 /\ Workers \subseteq Nat \ {0} /\ Len(suites) \in Nat
  BY <1>1, ConfigTyped
<1>3. counts \in [Workers -> [Counted -> Nat]]
  BY DEF Zero
<1>4. HarnessTyped
  <2>1. at \in [Workers -> Nat \ {0}] /\ \A w \in Workers : at[w] % Pool = w % Pool
    BY <1>2
  <2>2. now \in 0..Len(suites) /\ channel \in [Workers -> Seq(Message)]
    BY <1>2
  <2>3. /\ abandoned \in [Workers -> SUBSET Nat] /\ \A w \in Workers : abandoned[w] \subseteq 1..at[w]
        /\ worker \in [Workers -> {"new", "looping", "running", "over", "terminated"}]
    OBVIOUS
  <2>4. /\ DOMAIN verdict = DOMAIN suites
        /\ \A s \in DOMAIN suites : \A i \in DOMAIN verdict[s] : verdict[s][i] \in Verdicts
    OBVIOUS
  <2> USE DEF HarnessTyped
  <2> HIDE DEF Init, PoolInit, HarnessInit
  <2> QED BY <1>1, <1>3, <2>1, <2>2, <2>3, <2>4
<1>5. PageTyped
  <2>1. received \in [Workers -> Seq(EventRecord)]
    OBVIOUS
  <2>2. DOMAIN finished = {} /\ DOMAIN out = {}
    OBVIOUS
  <2> USE DEF PageTyped, Alive
  <2> QED BY <2>1, <2>2
<1>6. DriverTyped
  BY DEF DriverTyped
<1> QED BY <1>4, <1>5, <1>6 DEF Typed

(* Every step keeps the types. *)
LEMMA TypedStep ==
  ASSUME Typed, [Next]_vars
  PROVE  Typed'
<1>1. CASE PoolNext /\ UNCHANGED dvars
  BY <1>1, PoolStep DEF Typed, DriverTyped, dvars
<1>2. CASE UNCHANGED hvars /\ UNCHANGED <<rows, received, finished, out>>
           /\ page' \in {page, "gone"} /\ quiet' \in {quiet, TRUE} /\ watchdog' \in {watchdog, FALSE}
           /\ driver' \in Settled \union {driver, "awaiting"} /\ report' \in {report, "resolved", "rejected"}
  <2>1. HarnessTyped'
    BY <1>2 DEF Typed, HarnessTyped, hvars, Workers, Pool, suites
  <2>2. PageTyped'
    BY <1>2 DEF Typed, PageTyped, hvars, Workers, Pool, Alive
  <2>3. DriverTyped'
    BY <1>2 DEF Typed, DriverTyped, Settled
  <2> QED BY <2>1, <2>2, <2>3 DEF Typed
<1>3. CASE Crash \/ PageError \/ Hear \/ Silence \/ Stall
  BY <1>2, <1>3 DEF Crash, PageError, Hear, Silence, Stall, Reject, PageEnds, Close, dvars, pvars, Settled
<1>4. CASE Loaded \/ LoadFails \/ Settle \/ Answered \/ UNCHANGED vars
  BY <1>2, <1>4 DEF Loaded, LoadFails, Settle, Answered, Close, dvars, pvars, hvars, vars, Settled
<1> QED BY <1>1, <1>3, <1>4 DEF Next

(* The types hold in every state, of any page. *)
LEMMA TypedInvariant == Spec => []Typed
BY TypedInit, TypedStep, PTL DEF Spec

(* Workers keep to their stripes, give up no case they have not come to, and
   every variable has its type, for any number of workers and suites. *)
THEOREM TypeCorrect == Spec => []TypeOK
BY TypedInvariant, TypedIsTypeOK, PTL

-----------------------------------------------------------------------------
(* Recursion of the libraries.  Their induction theorems are about operators,
   which the provers cannot instantiate; these are about sets and functions. *)

(* A nonempty set of numbers has a least one. *)
LEMMA LeastNumber ==
  ASSUME NEW S, S \subseteq Nat, S # {}
  PROVE  \E n \in S : \A m \in S : ~(m < n)
<1> DEFINE Less == OpToRel(<, Nat)
<1>1. \A m, n \in Nat : m < n => <<m, n>> \in Less
  BY DEF OpToRel
<1>2. \E n \in S : \A m \in S : ~(<<m, n>> \in Less)
  BY NatLessThanWellFounded, WFMin DEF Less
<1> HIDE DEF Less
<1> QED BY <1>1, <1>2

(* A set that has 0, and with a number the next one up to n, has them all. *)
LEMMA UpTo ==
  ASSUME NEW n \in Nat, NEW P, 0 \in P, \A k \in 1..n : k - 1 \in P => k \in P
  PROVE  \A k \in 0..n : k \in P
<1> DEFINE Bad == {k \in 0..n : k \notin P}
<1>1. SUFFICES ASSUME Bad # {} PROVE FALSE
  OBVIOUS
<1>2. Bad \subseteq Nat
  OBVIOUS
<1>3. PICK k \in Bad : \A m \in Bad : ~(m < k)
  <2> HIDE DEF Bad
  <2> QED BY <1>1, <1>2, LeastNumber
<1>4. k \in 1..n /\ k - 1 \in 0..n /\ k - 1 < k
  OBVIOUS
<1>5. k - 1 \in P
  BY <1>3, <1>4
<1> QED BY <1>4, <1>5

(* A function may be defined by what its next value is made of. *)
Iterates(F, n, V, b, h) ==
  F \in [0..n -> V] /\ F[0] = b /\ \A k \in 1..n : F[k] = h[k][F[k - 1]]

LEMMA Recursion ==
  ASSUME NEW n \in Nat, NEW V, NEW b \in V, NEW h \in [1..n -> [V -> V]]
  PROVE  \E F : Iterates(F, n, V, b, h)
<1> DEFINE Is(F, m) == F[0] = b /\ \A k \in 1..m : F[k] = h[k][F[k - 1]]
           P == {m \in 0..n : \E F \in [0..m -> V] : Is(F, m)}
<1>1. 0 \in P
  <2> DEFINE F == [k \in 0..0 |-> b]
  <2>1. F \in [0..0 -> V] /\ F[0] = b
    OBVIOUS
  <2>2. \A k \in 1..0 : F[k] = h[k][F[k - 1]]
    OBVIOUS
  <2> HIDE DEF F
  <2> QED BY <2>1, <2>2
<1>2. ASSUME NEW m \in 1..n, m - 1 \in P
      PROVE  m \in P
  <2>1. PICK F \in [0..(m - 1) -> V] : Is(F, m - 1)
    BY <1>2
  <2> DEFINE G == [k \in 0..m |-> IF k = m THEN h[m][F[m - 1]] ELSE F[k]]
  <2>2. F[m - 1] \in V /\ h[m] \in [V -> V]
    OBVIOUS
  <2>3. h[m][F[m - 1]] \in V
    BY <2>2
  <2>4. \A k \in 0..(m - 1) : F[k] \in V /\ G[k] = F[k]
    OBVIOUS
  <2>5. G[m] = h[m][F[m - 1]]
    OBVIOUS
  <2>6. \A k \in 0..m : k = m \/ k \in 0..(m - 1)
    OBVIOUS
  <2>7. G \in [0..m -> V]
    BY <2>3, <2>4, <2>6
  <2> HIDE DEF G
  <2>8. ASSUME NEW k \in 1..m PROVE G[k] = h[k][G[k - 1]]
    <3>1. k - 1 \in 0..(m - 1)
      OBVIOUS
    <3>2. CASE k = m
      BY <2>4, <2>5, <3>1, <3>2
    <3>3. CASE k \in 1..(m - 1)
      BY <2>1, <2>4, <3>1, <3>3
    <3> QED BY <3>2, <3>3
  <2>9. G[0] = b
    <3>1. 0 \in 0..(m - 1)
      OBVIOUS
    <3> QED BY <2>1, <2>4, <3>1
  <2>10. Is(G, m)
    BY <2>8, <2>9
  <2>11. m \in 0..n
    OBVIOUS
  <2> HIDE DEF Is
  <2> QED BY <2>7, <2>10, <2>11
<1>3. n \in P
  <2> HIDE DEF P
  <2>1. \A k \in 0..n : k \in P
    BY <1>1, <1>2, UpTo
  <2> QED BY <2>1
<1> QED BY <1>3 DEF Iterates

\* The k-th element of a sequence is the g[k]-th of the f[k]-th of these, and
\* each of theirs is in it once.
Placed(flat, ss, f, g) ==
  /\ f \in [1..Len(flat) -> 1..Len(ss)] /\ g \in [1..Len(flat) -> Nat]
  /\ \A k \in 1..Len(flat) : g[k] \in 1..Len(ss[f[k]]) /\ flat[k] = ss[f[k]][g[k]]
  /\ \A j, k \in 1..Len(flat) : f[j] = f[k] /\ g[j] = g[k] => j = k
  /\ \A i \in 1..Len(ss) : \A j \in 1..Len(ss[i]) : \E k \in 1..Len(flat) : f[k] = i /\ g[k] = j

(* Sequences, one after the other. *)
LEMMA Flattened ==
  ASSUME NEW S, NEW ss \in Seq(Seq(S))
  PROVE  FlattenSeq(ss) \in Seq(S) /\ \E f, g : Placed(FlattenSeq(ss), ss, f, g)
<1> DEFINE n == Len(ss)
           V == Seq(S)
           Step(F) == [i \in 1..n |-> IF i = 1 THEN ss[i] ELSE F[i - 1] \o ss[i]]
           h == [k \in 1..n |-> [v \in V |-> v \o ss[k]]]
           it == CHOOSE F : F = Step(F)
           all == [k \in 0..n |-> IF k = 0 THEN <<>> ELSE it[k]]
<1>1. n \in Nat /\ DOMAIN ss = 1..n /\ \A k \in 1..n : ss[k] \in V
  OBVIOUS
<1>2. FlattenSeq(ss) = IF n = 0 THEN ss ELSE it[n]
  BY DEF FlattenSeq
<1>3. it = Step(it)
  <2> DEFINE e == <<>>
  <2>1. e \in V /\ h \in [1..n -> [V -> V]]
    BY <1>1
  <2>2. ASSUME NEW k \in 1..n, NEW v \in V
        PROVE  h[k][v] = v \o ss[k]
    <3>1. h[k] = [x \in V |-> x \o ss[k]]
      OBVIOUS
    <3> HIDE DEF h, V
    <3> QED BY <3>1
  <2>3. e \o ss[1] = ss[1] \/ n = 0
    BY <1>1
  <2> HIDE DEF n, V, h, e
  <2>4. PICK F : Iterates(F, n, V, e, h)
    BY <1>1, <2>1, Recursion
  <2>5. F \in [0..n -> V] /\ F[0] = e /\ \A k \in 1..n : F[k] = F[k - 1] \o ss[k]
    <3>1. F \in [0..n -> V] /\ F[0] = e /\ \A k \in 1..n : F[k] = h[k][F[k - 1]]
      BY <2>4 DEF Iterates
    <3>2. \A k \in 1..n : F[k - 1] \in V
      BY <1>1, <3>1
    <3> QED BY <2>2, <3>1, <3>2
  <2> DEFINE G == [i \in 1..n |-> F[i]]
  <2>6. \A i \in 1..n : G[i] = IF i = 1 THEN ss[i] ELSE G[i - 1] \o ss[i]
    <3>1. \A i \in 1..n : G[i] = F[i] /\ (i # 1 => i - 1 \in 1..n)
      BY <1>1
    <3>2. \A i \in 1..n : i # 1 => G[i - 1] = F[i - 1]
      BY <3>1
    <3>3. 1 \in 1..n => F[1] = ss[1]
      <4>1. 1 \in 1..n => F[1] = F[1 - 1] \o ss[1]
        BY <2>5
      <4>2. 1 - 1 = 0 /\ (1 \in 1..n => n # 0)
        BY <1>1
      <4> QED BY <2>3, <2>5, <4>1, <4>2
    <3> HIDE DEF G
    <3> QED BY <2>5, <3>1, <3>2, <3>3
  <2>7. G = Step(G)
    BY <2>6
  <2> HIDE DEF Step, G
  <2> QED BY <2>7
<1> HIDE DEF it
<1>4. all[0] = <<>> /\ \A k \in 1..n : all[k] = it[k]
  BY <1>1
<1>5. \A k \in 1..n : all[k] = all[k - 1] \o ss[k]
  <2> SUFFICES ASSUME NEW k \in 1..n PROVE all[k] = all[k - 1] \o ss[k]
    OBVIOUS
  <2>1. k \in 1..n /\ (k = 1 \/ k - 1 \in 1..n)
    BY <1>1
  <2>2. it[k] = IF k = 1 THEN ss[k] ELSE it[k - 1] \o ss[k]
    <3> HIDE DEF n
    <3> QED BY <1>3
  <2>3. <<>> \o ss[k] = ss[k]
    BY <1>1
  <2> HIDE DEF all, n
  <2>4. CASE k = 1
    <3>1. all[k - 1] = <<>>
      BY <1>4, <2>4
    <3> QED BY <1>4, <2>2, <2>3, <2>4, <3>1
  <2>5. CASE k # 1
    BY <1>4, <2>1, <2>2, <2>5
  <2> QED BY <2>4, <2>5
<1> HIDE DEF all
<1> DEFINE Is(r, f, g, m) == /\ r \in V
                             /\ f \in [1..Len(r) -> 1..m] /\ g \in [1..Len(r) -> Nat]
                             /\ \A p \in 1..Len(r) : g[p] \in 1..Len(ss[f[p]]) /\ r[p] = ss[f[p]][g[p]]
                             /\ \A p, q \in 1..Len(r) : f[p] = f[q] /\ g[p] = g[q] => p = q
                             /\ \A i \in 1..m : \A k \in 1..Len(ss[i]) :
                                  \E p \in 1..Len(r) : f[p] = i /\ g[p] = k
           P == {m \in 0..n : \E f, g : Is(all[m], f, g, m)}
<1>6. 0 \in P
  <2>1. all[0] = <<>> /\ Len(<<>>) = 0 /\ \A i \in 1..0 : FALSE
    BY <1>4
  <2> DEFINE e == [p \in 1..0 |-> 0]
  <2>2. e \in [1..0 -> 1..0] /\ e \in [1..0 -> Nat] /\ <<>> \in V
    OBVIOUS
  <2> HIDE DEF e, V
  <2>3. Is(all[0], e, e, 0)
    BY <2>1, <2>2
  <2> HIDE DEF Is
  <2> QED BY <1>1, <2>3
<1>7. ASSUME NEW m \in 1..n, m - 1 \in P
      PROVE  m \in P
  <2> DEFINE a == all[m - 1]
             b == ss[m]
             r == all[m]
  <2>1. PICK f, g : Is(a, f, g, m - 1)
    BY <1>7
  <2>2. m \in Nat /\ m - 1 \in Nat /\ m \in 0..n /\ r = a \o b /\ a \in Seq(S) /\ b \in Seq(S)
    <3>1. a \in Seq(S) /\ b \in Seq(S)
      BY <1>1, <2>1
    <3>2. r = a \o b
      BY <1>5
    <3> QED BY <1>1, <3>1, <3>2
  <2>3. PICK i \in Nat, j \in Nat : i = Len(a) /\ j = Len(b)
    BY <2>2
  <2> HIDE DEF a, b, r
  <2>4. /\ r \in Seq(S) /\ Len(r) = i + j
        /\ \A p \in 1..(i + j) : r[p] = IF p <= i THEN a[p] ELSE b[p - i]
    BY <2>2, <2>3, ConcatProperties
  <2> DEFINE F == [p \in 1..(i + j) |-> IF p <= i THEN f[p] ELSE m]
             G == [p \in 1..(i + j) |-> IF p <= i THEN g[p] ELSE p - i]
  <2>5. \A p \in 1..i : /\ f[p] \in 1..(m - 1) /\ g[p] \in Nat
                        /\ g[p] \in 1..Len(ss[f[p]]) /\ a[p] = ss[f[p]][g[p]]
    BY <2>1, <2>3
  <2>6. \A p \in 1..(i + j) : (p <= i /\ p \in 1..i) \/ (~(p <= i) /\ p - i \in 1..j)
    BY <2>3
  <2>7. F \in [1..(i + j) -> 1..m] /\ G \in [1..(i + j) -> Nat]
    <3>1. \A p \in 1..i : f[p] \in 1..m
      BY <2>2, <2>5
    <3>2. \A p \in 1..(i + j) : F[p] \in 1..m /\ G[p] \in Nat
      BY <2>2, <2>5, <2>6, <3>1
    <3> QED BY <3>2
  <2>8. \A p \in 1..(i + j) :
          /\ p <= i => F[p] = f[p] /\ G[p] = g[p]
          /\ ~(p <= i) => F[p] = m /\ G[p] = p - i
    OBVIOUS
  <2> HIDE DEF F, G
  <2>9. \A p \in 1..(i + j) : G[p] \in 1..Len(ss[F[p]]) /\ r[p] = ss[F[p]][G[p]]
    <3> SUFFICES ASSUME NEW p \in 1..(i + j)
                 PROVE  G[p] \in 1..Len(ss[F[p]]) /\ r[p] = ss[F[p]][G[p]]
      OBVIOUS
    <3>1. CASE p <= i /\ p \in 1..i
      BY <2>4, <2>5, <2>8, <3>1
    <3>2. CASE ~(p <= i) /\ p - i \in 1..j
      BY <2>3, <2>4, <2>8, <3>2 DEF b
    <3> QED BY <2>6, <3>1, <3>2
  <2>10. \A p, q \in 1..(i + j) : F[p] = F[q] /\ G[p] = G[q] => p = q
    <3>1. \A p \in 1..i : f[p] # m
      BY <2>2, <2>5
    <3>2. \A p, q \in 1..i : f[p] = f[q] /\ g[p] = g[q] => p = q
      BY <2>1, <2>3
    <3> SUFFICES ASSUME NEW p \in 1..(i + j), NEW q \in 1..(i + j), F[p] = F[q], G[p] = G[q]
                 PROVE  p = q
      OBVIOUS
    <3>3. CASE p <= i /\ q <= i
      BY <2>6, <2>8, <3>2, <3>3
    <3>4. CASE ~(p <= i) /\ ~(q <= i)
      <4>1. p - i = q - i
        BY <2>8, <3>4
      <4> QED BY <2>3, <4>1
    <3>5. (p <= i) <=> (q <= i)
      BY <2>6, <2>8, <3>1
    <3> QED BY <3>3, <3>4, <3>5
  <2>11. ASSUME NEW l \in 1..m, NEW k \in 1..Len(ss[l])
         PROVE  \E p \in 1..(i + j) : F[p] = l /\ G[p] = k
    <3>1. CASE l # m
      <4>1. l \in 1..(m - 1)
        BY <2>2, <3>1
      <4>2. PICK p \in 1..i : f[p] = l /\ g[p] = k
        BY <2>1, <2>3, <4>1
      <4>3. p \in 1..(i + j) /\ p <= i
        BY <2>3
      <4> QED BY <2>8, <4>2, <4>3
    <3>2. CASE l = m
      <4>1. k \in 1..j
        BY <2>3, <3>2 DEF b
      <4>2. i + k \in 1..(i + j) /\ ~(i + k <= i) /\ (i + k) - i = k
        BY <2>3, <4>1
      <4> QED BY <2>8, <3>2, <4>2
    <3> QED BY <3>1, <3>2
  <2>12. Is(r, F, G, m)
    <3>1. r \in V
      BY <2>4 DEF V
    <3>2. \A l \in 1..m : \A k \in 1..Len(ss[l]) : \E p \in 1..Len(r) : F[p] = l /\ G[p] = k
      <4>1. \A l \in 1..m : \A k \in 1..Len(ss[l]) : \E p \in 1..(i + j) : F[p] = l /\ G[p] = k
        BY <2>11
      <4>2. Len(r) = i + j
        BY <2>4
      <4> QED BY <4>1, <4>2
    <3>3. F \in [1..Len(r) -> 1..m] /\ G \in [1..Len(r) -> Nat]
      BY <2>4, <2>7
    <3>4. /\ \A p \in 1..Len(r) : G[p] \in 1..Len(ss[F[p]]) /\ r[p] = ss[F[p]][G[p]]
          /\ \A p, q \in 1..Len(r) : F[p] = F[q] /\ G[p] = G[q] => p = q
      BY <2>4, <2>9, <2>10
    <3> HIDE DEF V
    <3> QED BY <3>1, <3>2, <3>3, <3>4
  <2> HIDE DEF Is
  <2> QED BY <2>2, <2>12 DEF r
<1>8. n \in P
  <2> HIDE DEF P
  <2>1. \A k \in 0..n : k \in P
    BY <1>1, <1>6, <1>7, UpTo
  <2> QED BY <1>1, <2>1
<1>9. FlattenSeq(ss) = all[n]
  <2>1. CASE n = 0
    <3>1. ss = <<>>
      BY <2>1
    <3> QED BY <1>2, <1>4, <2>1, <3>1
  <2>2. CASE n # 0
    <3>1. n \in 1..n
      BY <1>1, <2>2
    <3> QED BY <1>2, <1>4, <2>2, <3>1
  <2> QED BY <2>1, <2>2
<1>10. PICK f, g : Is(all[n], f, g, n)
  BY <1>8
<1> DEFINE flat == FlattenSeq(ss)
<1>11. Is(flat, f, g, n)
  BY <1>9, <1>10
<1> HIDE DEF flat
<1>12. Placed(flat, ss, f, g) /\ flat \in Seq(S)
  BY <1>11 DEF Placed
<1> QED BY <1>12 DEF flat

(* SumFunction by its definition: elements are taken off the domain one by
   one. *)
LEMMA SumUnfolds ==
  ASSUME NEW f
  PROVE  SumFunction(f) =
           (CHOOSE g : g = [s \in SUBSET (DOMAIN f) |->
              IF s = {} THEN 0
              ELSE f[CHOOSE x \in s : TRUE] + g[s \ {CHOOSE x \in s : TRUE}]])[DOMAIN f]
BY DEF SumFunction, SumFunctionOnSet, FoldFunctionOnSet, MapThenFoldSet

(* The numbers of a finite set's elements that a function maps to each value
   add up to the number of all elements. *)
LEMMA CountsAddUp ==
  ASSUME NEW R, IsFiniteSet(R), NEW W, IsFiniteSet(W), NEW w \in [R -> W]
  PROVE  SumFunction([v \in W |-> Cardinality({r \in R : w[r] = v})]) = Cardinality(R)
<1> DEFINE f == [v \in W |-> Cardinality({r \in R : w[r] = v})]
           Pick(s) == CHOOSE x \in s : TRUE
           Of(s) == {r \in R : w[r] \in s}
           Step(g) == [s \in SUBSET W |-> IF s = {} THEN 0 ELSE f[Pick(s)] + g[s \ {Pick(s)}]]
           c == [s \in SUBSET W |-> Cardinality(Of(s))]
           it == CHOOSE g : g = Step(g)
<1>0. IsFiniteSet(W)
  OBVIOUS
<1>1. SumFunction(f) = it[W]
  <2>1. DOMAIN f = W
    OBVIOUS
  <2> HIDE DEF f
  <2> QED BY <2>1, SumUnfolds
<1>2. \A s \in SUBSET W : IsFiniteSet(Of(s)) /\ Cardinality(Of(s)) \in Nat
  BY FS_Subset, FS_CardinalityType
<1>3. ASSUME NEW s \in SUBSET W, s # {}
      PROVE  /\ Pick(s) \in s
             /\ Cardinality(Of(s)) = f[Pick(s)] + Cardinality(Of(s \ {Pick(s)}))
  <2>1. Pick(s) \in s
    BY <1>3
  <2> DEFINE x == Pick(s)
  <2>2. /\ f[x] = Cardinality({r \in R : w[r] = x})
        /\ IsFiniteSet({r \in R : w[r] = x})
    BY <2>1, FS_Subset
  <2>3. /\ Of(s) = {r \in R : w[r] = x} \union Of(s \ {x})
        /\ {r \in R : w[r] = x} \intersect Of(s \ {x}) = {}
    BY <2>1
  <2>4. IsFiniteSet(Of(s \ {x})) /\ Cardinality({}) = 0 /\ Cardinality(Of(s \ {x})) \in Nat
    BY <1>2, FS_EmptySet
  <2>5. Cardinality({r \in R : w[r] = x}) \in Nat
    BY <2>2, FS_CardinalityType
  <2> DEFINE A == {r \in R : w[r] = x}
             B == Of(s \ {x})
  <2> HIDE DEF Of, f, x, A, B
  <2>6. Cardinality(Of(s)) = Cardinality({r \in R : w[r] = x}) + Cardinality(Of(s \ {x})) - Cardinality({})
    <3>1. IsFiniteSet(A) /\ IsFiniteSet(B) /\ A \intersect B = {} /\ Of(s) = A \union B
      BY <2>2, <2>3, <2>4 DEF A, B
    <3>2. Cardinality(A \union B) = Cardinality(A) + Cardinality(B) - Cardinality(A \intersect B)
      BY <3>1, FS_Union
    <3> QED BY <3>1, <3>2 DEF A, B
  <2>7. Cardinality(Of(s)) = f[x] + Cardinality(Of(s \ {x}))
    BY <2>2, <2>4, <2>5, <2>6
  <2> QED BY <2>1, <2>7 DEF x
<1>4. c = Step(c)
  <2>1. Of({}) = {} /\ Cardinality({}) = 0
    BY FS_EmptySet
  <2>2. ASSUME NEW s \in SUBSET W
        PROVE  c[s] = (IF s = {} THEN 0 ELSE f[Pick(s)] + c[s \ {Pick(s)}])
    <3>1. s \ {Pick(s)} \in SUBSET W /\ c[s] = Cardinality(Of(s))
      OBVIOUS
    <3>2. c[s \ {Pick(s)}] = Cardinality(Of(s \ {Pick(s)}))
      BY <3>1
    <3> HIDE DEF c, f, Pick, Of
    <3> QED BY <1>3, <2>1, <3>1, <3>2
  <2> HIDE DEF f, Pick, Of
  <2> QED BY <2>2
<1>5. it = Step(it)
  <2> HIDE DEF Step, c
  <2> QED BY <1>4
<1>6. ASSUME NEW n \in Nat, NEW s \in SUBSET W, Cardinality(s) = n, it[s] # c[s]
      PROVE  \E m \in Nat : m < n /\ \E z \in SUBSET W : Cardinality(z) = m /\ it[z] # c[z]
  <2> DEFINE z == s \ {Pick(s)}
  <2>1. s # {}
    BY <1>4, <1>5, <1>6
  <2>2. Pick(s) \in s
    BY <2>1
  <2>3. IsFiniteSet(s)
    BY <1>0, FS_Subset
  <2>4. Cardinality(z) = n - 1 /\ n \in Nat /\ Cardinality(z) \in Nat
    BY <1>6, <2>2, <2>3, FS_RemoveElement, FS_CardinalityType
  <2>5. it[z] # c[z]
    <3>1. it[s] = f[Pick(s)] + it[z]
      BY <1>5, <2>1
    <3>2. c[s] = f[Pick(s)] + c[z]
      BY <1>4, <2>1
    <3> HIDE DEF it, c, f, z
    <3> QED BY <1>6, <3>1, <3>2
  <2> HIDE DEF z
  <2>6. z \in SUBSET W
    BY DEF z
  <2> HIDE DEF z, it, c
  <2>7. Cardinality(z) < n
    BY <2>4
  <2> QED BY <2>4, <2>5, <2>6, <2>7
<1> DEFINE Bad == {n \in Nat : \E s \in SUBSET W : Cardinality(s) = n /\ it[s] # c[s]}
<1>7. Bad = {}
  <2>1. SUFFICES ASSUME Bad # {} PROVE FALSE
    OBVIOUS
  <2> HIDE DEF it, c
  <2>3. Bad \subseteq Nat
    OBVIOUS
  <2> HIDE DEF Bad
  <2>4. PICK n \in Bad : \A m \in Bad : ~(m < n)
    BY <2>1, <2>3, LeastNumber
  <2>5. \E m \in Nat : m < n /\ m \in Bad
    BY <1>6 DEF Bad
  <2> QED BY <2>3, <2>4, <2>5
<1>8. it[W] = c[W]
  <2>2. Cardinality(W) \in Nat
    BY <1>0, FS_CardinalityType
  <2> HIDE DEF it, c
  <2> QED BY <1>7, <2>2
<1>9. Of(W) = R
  OBVIOUS
<1> QED BY <1>1, <1>8, <1>9
(* A set that is matched with the numbers up to n has n elements. *)
LEMMA Matched ==
  ASSUME NEW n \in Nat, NEW S, NEW f \in [S -> 1..n],
         \A x, y \in S : f[x] = f[y] => x = y,
         \A m \in 1..n : \E x \in S : f[x] = m
  PROVE  IsFiniteSet(S) /\ Cardinality(S) = n
<1>1. f \in Injection(S, 1..n) /\ f \in Surjection(S, 1..n)
  BY DEF Injection, IsInjective, Surjection
<1>2. IsFiniteSet(1..n) /\ Cardinality(1..n) = n
  BY FS_Interval
<1>3. IsFiniteSet(S) /\ Cardinality(S) = Cardinality(1..n)
  BY <1>1, <1>2, FS_Injection
<1> QED BY <1>2, <1>3

(* Events that have each index up to n once are sorted: the m-th is the one
   of index m. *)
LEMMA Sorted ==
  ASSUME NEW n \in Nat, NEW events \in Seq(EventRecord),
         \A k \in DOMAIN events : events[k].index \in 1..n,
         \A j, k \in DOMAIN events : events[j].index = events[k].index => j = k,
         \A m \in 1..n : \E k \in DOMAIN events : events[k].index = m
  PROVE  /\ DOMAIN events = 1..n
         /\ \A m \in 1..n :
              LET k == CHOOSE k \in DOMAIN events : Place(events, k) = m IN
              k \in DOMAIN events /\ events[k].index = m
<1> DEFINE D == DOMAIN events
           f == [k \in D |-> events[k].index]
<1>1. D = 1..Len(events) /\ Len(events) \in Nat
  OBVIOUS
<1>2. /\ f \in [D -> 1..n] /\ \A j, k \in D : f[j] = f[k] => j = k
      /\ \A m \in 1..n : \E k \in D : f[k] = m
  OBVIOUS
<1>3. D = 1..n
  <2>1. Cardinality(D) = n
    <3> HIDE DEF D, f
    <3> QED BY <1>2, Matched
  <2>2. Cardinality(1..Len(events)) = Len(events)
    BY <1>1, FS_Interval
  <2> QED BY <1>1, <2>1, <2>2
<1>4. ASSUME NEW k \in D
      PROVE  Place(events, k) = events[k].index
  <2> DEFINE Before == {j \in D : \/ events[j].index < events[k].index
                                  \/ events[j].index = events[k].index /\ j <= k}
             g == [j \in Before |-> f[j]]
             m == f[k]
  <2>1. Before = {j \in D : f[j] <= f[k]}
    <3>1. \A j \in D : /\ events[j].index = f[j] /\ f[j] \in Nat /\ j \in Nat
                       /\ f[j] = f[k] => j = k
      BY <1>1, <1>2
    <3> HIDE DEF f, D
    <3> QED BY <3>1
  <2>2. m \in Nat /\ m \in 1..n
    BY <1>2
  <2> HIDE DEF D, f
  <2>3. g \in [Before -> 1..m]
    BY <1>2, <2>1, <2>2
  <2>4. \A i, j \in Before : g[i] = g[j] => i = j
    BY <1>2, <2>1
  <2>5. \A l \in 1..m : \E j \in Before : g[j] = l
    <3> SUFFICES ASSUME NEW l \in 1..m PROVE \E j \in Before : g[j] = l
      OBVIOUS
    <3>1. l \in 1..n /\ l <= m
      BY <2>2
    <3>2. PICK j \in D : f[j] = l
      BY <1>2, <3>1
    <3>3. j \in Before
      BY <2>1, <3>1, <3>2
    <3>4. g[j] = l
      BY <3>2, <3>3
    <3> QED BY <3>3, <3>4
  <2>6. Cardinality(Before) = m
    <3> HIDE DEF Before, g, m
    <3> QED BY <2>2, <2>3, <2>4, <2>5, Matched
  <2>7. Place(events, k) = Cardinality(Before)
    BY DEF Place, D
  <2> QED BY <2>6, <2>7 DEF f
<1>5. ASSUME NEW m \in 1..n
      PROVE  LET k == CHOOSE k \in D : Place(events, k) = m IN k \in D /\ events[k].index = m
  <2>1. PICK j \in D : events[j].index = m
    OBVIOUS
  <2>2. \E k \in D : Place(events, k) = m
    BY <1>4, <2>1
  <2> DEFINE k == CHOOSE k \in D : Place(events, k) = m
  <2>3. k \in D /\ Place(events, k) = m
    BY <2>2
  <2> HIDE DEF k
  <2>4. k \in D /\ events[k].index = m
    BY <1>4, <2>3
  <2> QED BY <2>4 DEF k
<1> QED BY <1>3, <1>5

-----------------------------------------------------------------------------
(* Stripes. *)

(* A stripe's next case is the width of the stripes away. *)
LEMMA NextOfStripe ==
  ASSUME NEW p \in Nat, p > 0, NEW a \in Nat, NEW i \in Nat, i % p = a % p, a <= i, i < a + p
  PROVE  i = a
<1>1. /\ i % p \in 0..(p - 1) /\ i \div p \in Nat /\ i = p * (i \div p) + (i % p)
      /\ a % p \in 0..(p - 1) /\ a \div p \in Nat /\ a = p * (a \div p) + (a % p)
  OBVIOUS
<1>2. PICK q \in Nat, c \in Nat, r \in 0..(p - 1) : q = i \div p /\ c = a \div p /\ r = i % p
  BY <1>1
<1>3. i = p * q + r /\ a = p * c + r
  BY <1>1, <1>2
<1>4. PICK d \in Int : d = q - c
  OBVIOUS
<1>5. p * d = i - a
  <2>1. p * (q - c) = p * q - p * c
    OBVIOUS
  <2> QED BY <1>3, <1>4, <2>1
<1>6. PICK s \in 0..(p - 1) : s = i - a
  OBVIOUS
<1>7. p * d = s - 0 /\ 0 \in 0..(p - 1)
  BY <1>5, <1>6
<1>8. d = 0
  BY <1>7, SmallMultiple
<1> QED BY <1>5, <1>8

(* The first case of a stripe is the worker's number. *)
LEMMA FirstOfStripe ==
  ASSUME NEW p \in Nat, p > 0, NEW w \in 1..p, NEW i \in Nat, i # 0, i % p = w % p
  PROVE  ~(i < w)
<1>1. SUFFICES ASSUME i < w PROVE FALSE
  OBVIOUS
<1>2. w \in Nat /\ w < i + p /\ i <= w
  BY <1>1
<1>3. w = i
  BY <1>2, NextOfStripe
<1> QED BY <1>1, <1>3

(* Every case is in a worker's stripe. *)
LEMMA SomeStripe ==
  ASSUME NEW p \in Nat, p > 0, NEW i \in Nat
  PROVE  \E w \in 1..p : i % p = w % p
<1>1. i % p \in 0..(p - 1)
  OBVIOUS
<1>2. PICK r \in 0..(p - 1) : r = i % p
  BY <1>1
<1>3. r % p = r
  <2>1. /\ r % p \in 0..(p - 1) /\ r \div p \in Nat /\ r = p * (r \div p) + (r % p)
    OBVIOUS
  <2>2. PICK q \in Nat, s \in 0..(p - 1) : q = r \div p /\ s = r % p
    BY <2>1
  <2>3. p * q = r - s
    BY <2>1, <2>2
  <2>4. q = 0
    BY <2>3, SmallMultiple
  <2> QED BY <2>2, <2>3, <2>4
<1>4. CASE r # 0
  BY <1>2, <1>3, <1>4
<1>5. CASE r = 0
  <2>1. (0 + p) % p = 0 % p
    BY SameStripe
  <2>2. p % p = r
    BY <1>3, <1>5, <2>1
  <2> QED BY <1>2, <2>2
<1> QED BY <1>4, <1>5

(* And in one only. *)
LEMMA OneStripe ==
  ASSUME NEW p \in Nat, p > 0, NEW v \in 1..p, NEW w \in 1..p, v % p = w % p
  PROVE  v = w
<1>1. CASE v <= w
  BY <1>1, NextOfStripe
<1>2. CASE w <= v
  BY <1>2, NextOfStripe
<1> QED BY <1>1, <1>2
-----------------------------------------------------------------------------
(* What a worker has sent. *)

\* The events among the messages are of these cases, each once, and say what
\* is due.
Ledger(messages, cases, due) ==
  /\ \A k \in DOMAIN messages : messages[k].kind = "event" =>
       messages[k].index \in cases /\ messages[k].status = due[messages[k].index]
  /\ \A j, k \in DOMAIN messages :
       messages[j].kind = "event" /\ messages[k].kind = "event" /\ messages[j].index = messages[k].index
       => j = k
  /\ \A i \in cases : \E k \in DOMAIN messages :
       messages[k].kind = "event" /\ messages[k].index = i

(* A case's event is entered. *)
LEMMA LedgerEntered ==
  ASSUME NEW S, NEW q \in Seq(S), NEW cases, NEW due, NEW after, NEW i, NEW status,
         Ledger(q, cases, due), i \notin cases,
         \A j \in cases : after[j] = due[j], after[i] = status
  PROVE  Ledger(Append(q, Event(i, status)), cases \union {i}, after)
<1> DEFINE e == Event(i, status)
           r == Append(q, e)
<1>1. PICK n \in Nat : n = Len(q) /\ DOMAIN q = 1..n
  OBVIOUS
<1>2. e.kind = "event" /\ e.index = i /\ e.status = status
  BY DEF Event
<1>3. DOMAIN r = 1..(n + 1) /\ r[n + 1] = e /\ \A k \in 1..n : r[k] = q[k]
  BY <1>1
<1>4. \A k \in 1..(n + 1) : k \in 1..n \/ k = n + 1
  OBVIOUS
<1> HIDE DEF e, r
<1>5. ASSUME NEW k \in DOMAIN r, r[k].kind = "event"
      PROVE  r[k].index \in cases \union {i} /\ r[k].status = after[r[k].index]
  BY <1>1, <1>2, <1>3, <1>4, <1>5 DEF Ledger
<1>6. ASSUME NEW j \in DOMAIN r, NEW k \in DOMAIN r, r[j].kind = "event", r[k].kind = "event",
             r[j].index = r[k].index
      PROVE  j = k
  BY <1>1, <1>2, <1>3, <1>4, <1>6 DEF Ledger
<1>7. ASSUME NEW c \in cases \union {i}
      PROVE  \E k \in DOMAIN r : r[k].kind = "event" /\ r[k].index = c
  <2>1. CASE c = i
    BY <1>2, <1>3, <2>1
  <2>2. CASE c \in cases
    <3>1. PICK k \in 1..n : q[k].kind = "event" /\ q[k].index = c
      BY <1>1, <2>2 DEF Ledger
    <3> QED BY <1>3, <3>1
  <2> QED BY <2>1, <2>2
<1> QED BY <1>5, <1>6, <1>7 DEF Ledger, r, e

(* Another message is not. *)
LEMMA LedgerPassed ==
  ASSUME NEW S, NEW q \in Seq(S), NEW cases, NEW due, NEW m,
         Ledger(q, cases, due), m.kind # "event"
  PROVE  Ledger(Append(q, m), cases, due)
<1> DEFINE r == Append(q, m)
<1>1. PICK n \in Nat : n = Len(q) /\ DOMAIN q = 1..n
  OBVIOUS
<1>2. DOMAIN r = 1..(n + 1) /\ r[n + 1] = m /\ \A k \in 1..n : r[k] = q[k]
  BY <1>1
<1>3. \A k \in 1..(n + 1) : k \in 1..n \/ k = n + 1
  OBVIOUS
<1> HIDE DEF r
<1>4. \A k \in DOMAIN r : r[k].kind = "event" => k \in 1..n /\ r[k] = q[k]
  BY <1>2, <1>3
<1>5. ASSUME NEW k \in DOMAIN r, r[k].kind = "event"
      PROVE  r[k].index \in cases /\ r[k].status = due[r[k].index]
  BY <1>1, <1>4, <1>5 DEF Ledger
<1>6. ASSUME NEW j \in DOMAIN r, NEW k \in DOMAIN r, r[j].kind = "event", r[k].kind = "event",
             r[j].index = r[k].index
      PROVE  j = k
  BY <1>1, <1>4, <1>6 DEF Ledger
<1>7. ASSUME NEW c \in cases
      PROVE  \E k \in DOMAIN r : r[k].kind = "event" /\ r[k].index = c
  <2>1. PICK k \in 1..n : q[k].kind = "event" /\ q[k].index = c
    BY <1>1 DEF Ledger
  <2> QED BY <1>2, <2>1
<1> QED BY <1>5, <1>6, <1>7 DEF Ledger, r

(* What is due of other cases does not matter. *)
LEMMA LedgerSame ==
  ASSUME NEW q, NEW cases, NEW due, NEW after,
         Ledger(q, cases, due), \A j \in cases : after[j] = due[j]
  PROVE  Ledger(q, cases, after)
BY DEF Ledger

(* Messages after the last event may be left off. *)
LEMMA LedgerCut ==
  ASSUME NEW S, NEW q \in Seq(S), NEW t \in Seq(S), NEW cases, NEW due,
         Ledger(q \o t, cases, due), \A k \in DOMAIN t : t[k].kind # "event"
  PROVE  Ledger(q, cases, due)
<1> DEFINE r == q \o t
<1>1. PICK n \in Nat, l \in Nat : n = Len(q) /\ DOMAIN q = 1..n /\ l = Len(t) /\ DOMAIN t = 1..l
  OBVIOUS
<1>2. r \in Seq(S) /\ Len(r) = n + l /\ \A i \in 1..(n + l) : r[i] = IF i <= n THEN q[i] ELSE t[i - n]
  BY <1>1, ConcatProperties
<1>3. DOMAIN r = 1..(n + l)
  BY <1>2
<1> HIDE DEF r
<1>4. Ledger(r, cases, due)
  BY DEF r
<1>5. \A k \in 1..n : k \in DOMAIN r /\ r[k] = q[k]
  BY <1>2, <1>3
<1>6. ASSUME NEW k \in DOMAIN r, r[k].kind = "event"
      PROVE  k \in 1..n
  <2>1. CASE ~(k <= n)
    <3>1. k - n \in 1..l /\ r[k] = t[k - n]
      BY <1>2, <1>3, <2>1
    <3> QED BY <1>1, <1>6, <3>1
  <2> QED BY <1>3, <2>1
<1>7. ASSUME NEW c \in cases
      PROVE  \E k \in DOMAIN q : q[k].kind = "event" /\ q[k].index = c
  <2>1. PICK k \in DOMAIN r : r[k].kind = "event" /\ r[k].index = c
    BY <1>4 DEF Ledger
  <2> QED BY <1>1, <1>5, <1>6, <2>1
<1>8. ASSUME NEW k \in DOMAIN q, q[k].kind = "event"
      PROVE  q[k].index \in cases /\ q[k].status = due[q[k].index]
  BY <1>1, <1>4, <1>5, <1>8 DEF Ledger
<1>9. ASSUME NEW j \in DOMAIN q, NEW k \in DOMAIN q, q[j].kind = "event", q[k].kind = "event",
             q[j].index = q[k].index
      PROVE  j = k
  BY <1>1, <1>4, <1>5, <1>9 DEF Ledger
<1> QED BY <1>7, <1>8, <1>9 DEF Ledger

\* The counters are those of these cases.
Tally(number, cases, due, all) ==
  /\ \A c \in Statuses : number[c] = Cardinality({i \in cases : due[i] = c})
  /\ number["total"] = Cardinality(cases)
  /\ number["selected"] = Cardinality({i \in cases : all[i].selected})

(* A counter is one more with a case more that it counts. *)
LEMMA OneMore ==
  ASSUME NEW cases, IsFiniteSet(cases), NEW i, i \notin cases, NEW P
  PROVE  Cardinality({j \in cases \union {i} : j \in P}) =
           Cardinality({j \in cases : j \in P}) + (IF i \in P THEN 1 ELSE 0)
<1> DEFINE A == {j \in cases : j \in P}
           B == {j \in cases \union {i} : j \in P}
<1>1. IsFiniteSet(A) /\ i \notin A
  <2>1. A \in SUBSET cases
    OBVIOUS
  <2> HIDE DEF A
  <2> QED BY <2>1, FS_Subset
<1>2. Cardinality(A) \in Nat
  BY <1>1, FS_CardinalityType
<1>3. CASE i \in P
  <2>1. B = A \union {i}
    BY <1>3
  <2> HIDE DEF A, B
  <2> QED BY <1>1, <1>2, <1>3, <2>1, FS_AddElement DEF A, B
<1>4. CASE i \notin P
  <2>1. B = A
    BY <1>4
  <2> HIDE DEF A, B
  <2>2. Cardinality(B) = Cardinality(A) + (IF i \in P THEN 1 ELSE 0)
    BY <1>2, <1>4, <2>1
  <2> QED BY <2>2 DEF A, B
<1> QED BY <1>3, <1>4

(* The counters after a case. *)
LEMMA Tallied ==
  ASSUME NEW cases, IsFiniteSet(cases), NEW due, NEW after, NEW i, NEW all,
         NEW status \in Statuses, NEW number \in [Counted -> Nat], NEW next \in [Counted -> Nat],
         Tally(number, cases, due, all), i \notin cases,
         \A j \in cases : after[j] = due[j], after[i] = status,
         \A c \in Counted : next[c] =
           IF c \in {status, "total"} \/ (c = "selected" /\ all[i].selected)
           THEN number[c] + 1 ELSE number[c]
  PROVE  Tally(next, cases \union {i}, after, all)
<1>1. ASSUME NEW c \in Statuses
      PROVE  next[c] = Cardinality({j \in cases \union {i} : after[j] = c})
  <2> DEFINE P == {j \in cases \union {i} : after[j] = c}
  <2>1. /\ {j \in cases \union {i} : j \in P} = {j \in cases \union {i} : after[j] = c}
        /\ {j \in cases : j \in P} = {j \in cases : due[j] = c}
        /\ i \in P <=> status = c
    OBVIOUS
  <2>2. number[c] = Cardinality({j \in cases : due[j] = c}) /\ number[c] \in Nat /\ next[c] \in Nat
    BY DEF Tally, Counted
  <2>3. next[c] = IF c = status THEN number[c] + 1 ELSE number[c]
    BY DEF Counted, Statuses, Verdicts
  <2> HIDE DEF P
  <2>4. Cardinality({j \in cases \union {i} : j \in P}) =
           Cardinality({j \in cases : j \in P}) + (IF i \in P THEN 1 ELSE 0)
    BY OneMore
  <2>5. CASE status = c
    BY <2>1, <2>2, <2>3, <2>4, <2>5
  <2>6. CASE status # c
    BY <2>1, <2>2, <2>3, <2>4, <2>6
  <2> QED BY <2>5, <2>6
<1>2. next["total"] = Cardinality(cases \union {i})
  <2>1. next["total"] = number["total"] + 1 /\ number["total"] = Cardinality(cases)
    BY DEF Counted, Tally
  <2>2. Cardinality(cases \union {i}) = Cardinality(cases) + 1
    BY FS_AddElement
  <2> QED BY <2>1, <2>2
<1>3. next["selected"] = Cardinality({j \in cases \union {i} : all[j].selected})
  <2> DEFINE P == {j \in cases \union {i} : all[j].selected}
  <2>1. /\ {j \in cases \union {i} : j \in P} = {j \in cases \union {i} : all[j].selected}
        /\ {j \in cases : j \in P} = {j \in cases : all[j].selected}
        /\ i \in P <=> all[i].selected
    OBVIOUS
  <2>2. /\ number["selected"] = Cardinality({j \in cases : all[j].selected})
        /\ number["selected"] \in Nat /\ "selected" \in Counted
    BY DEF Tally, Counted
  <2>3. next["selected"] = IF all[i].selected THEN number["selected"] + 1 ELSE number["selected"]
    <3>1. "selected" \notin {status, "total"}
      BY DEF Statuses, Verdicts
    <3> QED BY <2>2, <3>1
  <2> HIDE DEF P
  <2>4. Cardinality({j \in cases \union {i} : j \in P}) =
           Cardinality({j \in cases : j \in P}) + (IF i \in P THEN 1 ELSE 0)
    BY OneMore
  <2>5. CASE all[i].selected
    BY <2>1, <2>2, <2>3, <2>4, <2>5
  <2>6. CASE ~all[i].selected
    BY <2>1, <2>2, <2>3, <2>4, <2>6
  <2> QED BY <2>5, <2>6
<1> QED BY <1>1, <1>2, <1>3 DEF Tally

(* What is due of other cases does not matter. *)
LEMMA TallySame ==
  ASSUME NEW number, NEW cases, NEW due, NEW after, NEW all,
         Tally(number, cases, due, all), \A j \in cases : after[j] = due[j]
  PROVE  Tally(number, cases, after, all)
<1>1. \A c : {i \in cases : after[i] = c} = {i \in cases : due[i] = c}
  OBVIOUS
<1> QED BY <1>1 DEF Tally
(* Two sequences, one after the other. *)
LEMMA Concatenated ==
  ASSUME NEW S, NEW s \in Seq(S), NEW t \in Seq(S),
         NEW m \in Nat, NEW n \in Nat, m = Len(s), n = Len(t)
  PROVE  /\ s \o t \in Seq(S) /\ Len(s \o t) = m + n
         /\ \A i \in 1..(m + n) : (s \o t)[i] = IF i <= m THEN s[i] ELSE t[i - m]
BY ConcatProperties

(* A sequence with one element more. *)
LEMMA Appended ==
  ASSUME NEW S, NEW s \in Seq(S), NEW e \in S, NEW n \in Nat, n = Len(s)
  PROVE  /\ Append(s, e) \in Seq(S) /\ Len(Append(s, e)) = n + 1 /\ Append(s, e)[n + 1] = e
         /\ \A k \in 1..n : Append(s, e)[k] = s[k]
OBVIOUS

(* A message posted is a message sent. *)
LEMMA SentPosts ==
  ASSUME NEW S, NEW q \in Seq(S), NEW t \in Seq(S), NEW m \in S
  PROVE  q \o Append(t, m) = Append(q \o t, m)
<1> DEFINE r == q \o t
           u == Append(t, m)
           a == q \o u
           b == Append(r, m)
<1>1. PICK n \in Nat, l \in Nat : n = Len(q) /\ l = Len(t)
  OBVIOUS
<1>2. r \in Seq(S) /\ Len(r) = n + l /\ \A i \in 1..(n + l) : r[i] = IF i <= n THEN q[i] ELSE t[i - n]
  BY <1>1, ConcatProperties
<1>3. u \in Seq(S) /\ Len(u) = l + 1 /\ u[l + 1] = m /\ \A i \in 1..l : u[i] = t[i]
  BY <1>1
<1> HIDE DEF u
<1>4. /\ a \in Seq(S) /\ Len(a) = n + (l + 1)
      /\ \A i \in 1..(n + (l + 1)) : a[i] = IF i <= n THEN q[i] ELSE u[i - n]
  <2>1. PICK k \in Nat : k = l + 1 /\ k = Len(u)
    BY <1>3
  <2>2. /\ a \in Seq(S) /\ Len(a) = n + k
        /\ \A i \in 1..(n + k) : a[i] = IF i <= n THEN q[i] ELSE u[i - n]
    <3>1. q \in Seq(S) /\ u \in Seq(S) /\ n = Len(q) /\ k = Len(u) /\ n \in Nat /\ k \in Nat
      BY <1>1, <1>3, <2>1
    <3> QED BY <3>1, Concatenated
  <2> HIDE DEF a
  <2> QED BY <2>1, <2>2
<1> HIDE DEF r, a
<1>5. b \in Seq(S) /\ Len(b) = n + l + 1 /\ b[n + l + 1] = m /\ \A i \in 1..(n + l) : b[i] = r[i]
  <2>1. PICK k \in Nat : k = n + l /\ k = Len(r)
    BY <1>2
  <2>2. b \in Seq(S) /\ Len(b) = k + 1 /\ b[k + 1] = m /\ \A i \in 1..k : b[i] = r[i]
    BY <1>2, <2>1, Appended
  <2> HIDE DEF b
  <2> QED BY <2>1, <2>2
<1> HIDE DEF b
<1>6. ASSUME NEW i \in 1..(n + l + 1)
      PROVE  a[i] = b[i]
  <2>1. CASE i <= n
    BY <1>1, <1>2, <1>4, <1>5, <2>1
  <2>2. CASE i > n /\ i <= n + l
    <3>1. i - n \in 1..l /\ i \in 1..(n + l) /\ ~(i <= n)
      BY <1>1, <2>2
    <3>2. r[i] = t[i - n] /\ u[i - n] = t[i - n]
      BY <1>2, <1>3, <3>1
    <3>3. a[i] = u[i - n]
      BY <1>4, <3>1
    <3>4. b[i] = r[i]
      BY <1>5, <3>1
    <3> QED BY <3>2, <3>3, <3>4
  <2>3. CASE i = n + l + 1
    <3>1. i - n = l + 1 /\ ~(i <= n) /\ i \in 1..(n + (l + 1))
      BY <1>1, <2>3
    <3>2. a[i] = u[l + 1]
      BY <1>4, <3>1
    <3> QED BY <1>3, <1>5, <2>3, <3>2
  <2> QED BY <1>1, <2>1, <2>2, <2>3
<1>7. a = b
  <2>1. PICK k \in Nat : k = n + l + 1
    BY <1>1
  <2>2. Len(a) = k /\ Len(b) = k
    BY <1>1, <1>4, <1>5, <2>1
  <2>3. \A i \in 1..Len(a) : a[i] = b[i]
    BY <1>6, <2>1, <2>2
  <2> QED BY <1>4, <1>5, <2>2, <2>3, SeqEqual
<1> QED BY <1>7 DEF a, b, r, u

(* A message taken has been sent. *)
LEMMA SentTaken ==
  ASSUME NEW S, NEW q \in Seq(S), NEW t \in Seq(S), t # <<>>
  PROVE  Append(q, Head(t)) \o Tail(t) = q \o t
<1>1. PICK n \in Nat, l \in Nat : n = Len(q) /\ l + 1 = Len(t)
  <2>1. Len(t) \in Nat /\ Len(t) # 0
    OBVIOUS
  <2>2. Len(t) - 1 \in Nat /\ (Len(t) - 1) + 1 = Len(t) /\ Len(q) \in Nat
    BY <2>1
  <2> QED BY <2>2
<1> DEFINE h == Append(q, Head(t))
           u == Tail(t)
           a == h \o u
           b == q \o t
<1>2. u \in Seq(S) /\ Len(u) = l /\ Head(t) \in S /\ Head(t) = t[1] /\ \A i \in 1..l : u[i] = t[i + 1]
  BY <1>1, HeadTailProperties
<1>3. h \in Seq(S) /\ Len(h) = n + 1 /\ h[n + 1] = t[1] /\ \A i \in 1..n : h[i] = q[i]
  BY <1>1, <1>2
<1>4. /\ b \in Seq(S) /\ Len(b) = n + (l + 1)
      /\ \A i \in 1..(n + (l + 1)) : b[i] = IF i <= n THEN q[i] ELSE t[i - n]
  <2>1. PICK k \in Nat : k = l + 1 /\ k = Len(t)
    BY <1>1
  <2>2. /\ b \in Seq(S) /\ Len(b) = n + k
        /\ \A i \in 1..(n + k) : b[i] = IF i <= n THEN q[i] ELSE t[i - n]
    <3>1. q \in Seq(S) /\ t \in Seq(S) /\ n = Len(q) /\ k = Len(t) /\ n \in Nat /\ k \in Nat
      BY <1>1, <2>1
    <3> QED BY <3>1, Concatenated DEF b
  <2> HIDE DEF b
  <2> QED BY <2>1, <2>2
<1> HIDE DEF h, u, b
<1>5. /\ a \in Seq(S) /\ Len(a) = (n + 1) + l
      /\ \A i \in 1..((n + 1) + l) : a[i] = IF i <= n + 1 THEN h[i] ELSE u[i - (n + 1)]
  <2>1. PICK k \in Nat : k = n + 1 /\ k = Len(h)
    BY <1>1, <1>3
  <2>2. /\ a \in Seq(S) /\ Len(a) = k + l
        /\ \A i \in 1..(k + l) : a[i] = IF i <= k THEN h[i] ELSE u[i - k]
    <3>1. h \in Seq(S) /\ u \in Seq(S) /\ k = Len(h) /\ l = Len(u) /\ k \in Nat /\ l \in Nat
      BY <1>1, <1>2, <1>3, <2>1
    <3> QED BY <3>1, Concatenated
  <2> HIDE DEF a
  <2> QED BY <2>1, <2>2
<1> HIDE DEF a
<1>6. ASSUME NEW i \in 1..(n + l + 1)
      PROVE  a[i] = b[i]
  <2>1. CASE i <= n
    BY <1>1, <1>3, <1>4, <1>5, <2>1
  <2>2. CASE i = n + 1
    <3>1. i - n = 1 /\ ~(i <= n) /\ i <= n + 1
      BY <1>1, <2>2
    <3>2. b[i] = t[1]
      BY <1>4, <3>1
    <3>3. a[i] = h[n + 1]
      BY <1>5, <2>2, <3>1
    <3> QED BY <1>3, <3>2, <3>3
  <2>3. CASE i > n + 1
    <3>1. i - (n + 1) \in 1..l /\ (i - (n + 1)) + 1 = i - n /\ ~(i <= n + 1) /\ ~(i <= n)
      BY <1>1, <2>3
    <3>2. a[i] = u[i - (n + 1)]
      BY <1>5, <3>1
    <3>3. b[i] = t[i - n]
      BY <1>4, <3>1
    <3> QED BY <1>2, <3>1, <3>2, <3>3
  <2> QED BY <1>1, <2>1, <2>2, <2>3
<1>7. a = b
  <2>1. PICK k \in Nat : k = n + l + 1
    BY <1>1
  <2>2. Len(a) = k /\ Len(b) = k
    BY <1>1, <1>4, <1>5, <2>1
  <2>3. \A i \in 1..Len(a) : a[i] = b[i]
    BY <1>6, <2>1, <2>2
  <2> QED BY <1>4, <1>5, <2>2, <2>3, SeqEqual
<1> QED BY <1>7 DEF a, b, h, u

-----------------------------------------------------------------------------
(* What a worker has done, and what the page keeps of it. *)

\* The cases of a worker, and those it is done with.
Stripe(w) == {i \in Census : i % Pool = w % Pool}
Done(w) == {i \in Stripe(w) : i < at[w]}

DueNow == [i \in Census |-> Due(now, i)]

\* The messages the page has from a worker and those on their way.
Sent(w) == received[w] \o channel[w]

\* The counts of a worker come after its events, at the end of its stripe.
Closing(w) ==
  \A j \in DOMAIN channel[w] : channel[w][j].kind = "counts" =>
    /\ channel[w][j].counts = counts[w] /\ worker[w] = "over" /\ at[w] \notin Census
    /\ \A k \in DOMAIN channel[w] : k > j => channel[w][k].kind # "event"

\* A worker that has a case to run has one that is to be run.
Runnable(w) ==
  worker[w] = "running" => at[w] \in Census /\ Case(w).tagged /\ Case(w).applies /\ Case(w).selected

\* Nothing of a worker is lost before the end of its suite.
Kept(w) ==
  /\ Ledger(Sent(w), Done(w), DueNow)
  /\ Tally(counts[w], Done(w), DueNow, Suite.cases)
  /\ \A i \in Done(w) :
       /\ Suite.cases[i].tagged
       /\ Suite.cases[i].applies /\ Suite.cases[i].selected => i \in DOMAIN verdict[now]
  /\ Runnable(w)
  /\ Closing(w)
  /\ worker[w] = "terminated" <=> w \in DOMAIN finished
  /\ w \in DOMAIN finished => finished[w] = counts[w] /\ at[w] \notin Census /\ channel[w] = <<>>

(* A suite and its census. *)
LEMMA SuiteTyped ==
  ASSUME config \in Configs, now \in 1..Len(suites)
  PROVE  /\ now \in DOMAIN suites /\ Suite.cases \in Seq(CaseRecord) /\ Suite.only \in BOOLEAN
         /\ Len(Suite.cases) \in Nat /\ Census = 1..Len(Suite.cases) /\ IsFiniteSet(Census)
         /\ \A i \in Census : Suite.cases[i] \in CaseRecord
<1>1. suites \in Seq(SuiteRecord)
  BY ConfigTyped
<1>2. now \in DOMAIN suites /\ Suite \in SuiteRecord
  BY <1>1 DEF Suite
<1>3. Suite.cases \in Seq(CaseRecord) /\ Suite.only \in BOOLEAN
  BY <1>2 DEF SuiteRecord
<1>4. Len(Suite.cases) \in Nat /\ Census = 1..Len(Suite.cases)
  BY <1>3 DEF Census
<1>5. IsFiniteSet(Census)
  BY <1>4, FS_Interval
<1> QED BY <1>2, <1>3, <1>4, <1>5

(* The case a worker is at is the next of its stripe. *)
LEMMA DoneNext ==
  ASSUME HarnessTyped, now \in 1..Len(suites), NEW w \in Workers, at[w] \in Census
  PROVE  /\ at[w] \in Stripe(w) /\ at[w] \notin Done(w)
         /\ {i \in Stripe(w) : i < at[w] + Pool} = Done(w) \union {at[w]}
<1>1. Pool \in Nat /\ Pool > 0 /\ config \in Configs
  BY ConfigTyped DEF HarnessTyped
<1>2. PICK a \in Nat, p \in Nat : a = at[w] /\ p = Pool /\ p > 0
  BY <1>1 DEF HarnessTyped
<1>3. Census \subseteq Nat
  BY <1>1, SuiteTyped
<1>4. a % p = w % p
  BY <1>2 DEF HarnessTyped
<1>5. ASSUME NEW i \in Stripe(w), i < a + p
      PROVE  i = a \/ i < a
  <2>1. i \in Nat /\ i % p = a % p
    BY <1>2, <1>3, <1>4 DEF Stripe
  <2>2. CASE a <= i
    BY <1>2, <1>5, <2>1, <2>2, NextOfStripe
  <2>3. CASE ~(a <= i)
    BY <1>2, <2>1, <2>3
  <2> QED BY <2>2, <2>3
<1>6. a \in Stripe(w)
  BY <1>2, <1>4 DEF Stripe
<1>7. \A i \in Stripe(w) : i \in Nat
  BY <1>3 DEF Stripe
<1>8. \A i \in Stripe(w) : i < a + p <=> i = a \/ i < a
  BY <1>2, <1>5, <1>7
<1>9. {i \in Stripe(w) : i < a + p} = {i \in Stripe(w) : i < a} \union {a}
  BY <1>6, <1>8
<1>10. a \notin {i \in Stripe(w) : i < a}
  BY <1>2
<1> QED BY <1>2, <1>6, <1>9, <1>10 DEF Done

(* At the end of its stripe it has done all. *)
LEMMA AllDone ==
  ASSUME HarnessTyped, now \in 1..Len(suites), NEW w \in Workers, at[w] \notin Census
  PROVE  Done(w) = Stripe(w)
<1>1. config \in Configs /\ at[w] \in Nat /\ at[w] # 0
  BY DEF HarnessTyped
<1>2. PICK n \in Nat : Census = 1..n
  BY <1>1, SuiteTyped
<1>3. \A i \in Census : i < at[w]
  BY <1>1, <1>2
<1> QED BY <1>3 DEF Done, Stripe
(* A worker that does nothing, or only goes on to a case, keeps its own. *)
LEMMA KeptStays ==
  ASSUME NEW v \in Workers, Kept(v), config' = config, now' = now, at'[v] = at[v], counts'[v] = counts[v],
         channel'[v] = channel[v], received'[v] = received[v],
         v \in DOMAIN finished' <=> v \in DOMAIN finished,
         v \in DOMAIN finished => finished'[v] = finished[v],
         \A i \in Done(v) : /\ DueNow'[i] = DueNow[i]
                            /\ i \in DOMAIN verdict[now] => i \in DOMAIN verdict'[now],
         \/ worker'[v] = worker[v]
         \/ worker[v] \notin {"over", "terminated"} /\ worker'[v] # "terminated" /\ Runnable(v)'
  PROVE  Kept(v)'
<1>1. Pool' = Pool /\ Suite' = Suite /\ Census' = Census
  BY DEF Pool, Suite, suites, Census
<1>2. Done(v)' = Done(v) /\ Sent(v)' = Sent(v)
  BY <1>1 DEF Done, Stripe, Sent
<1>3. Ledger(Sent(v), Done(v), DueNow)'
  <2>1. Ledger(Sent(v), Done(v), DueNow')
    BY LedgerSame DEF Kept
  <2> QED BY <1>2, <2>1
<1>4. Tally(counts[v], Done(v), DueNow, Suite.cases)'
  <2>1. Tally(counts[v], Done(v), DueNow', Suite.cases)
    BY TallySame DEF Kept
  <2> QED BY <1>1, <1>2, <2>1
<1>5. \A i \in Done(v)' :
        /\ Suite'.cases[i].tagged
        /\ Suite'.cases[i].applies /\ Suite'.cases[i].selected => i \in DOMAIN verdict'[now']
  BY <1>1, <1>2 DEF Kept
<1>6. Runnable(v)'
  BY <1>1 DEF Kept, Runnable, Case
<1>7. Closing(v)'
  BY <1>1 DEF Kept, Closing
<1>8. (worker'[v] = "terminated" <=> v \in DOMAIN finished')
  BY DEF Kept
<1>9. v \in DOMAIN finished' => finished'[v] = counts'[v] /\ at'[v] \notin Census' /\ channel'[v] = <<>>
  BY <1>1 DEF Kept
<1> QED BY <1>3, <1>4, <1>5, <1>6, <1>7, <1>8, <1>9 DEF Kept

(* A worker that posts an error, or its counts at the end, keeps its own. *)
LEMMA KeptPosts ==
  ASSUME HarnessTyped, PageTyped, NEW w \in Workers, Kept(w), NEW m \in Message, Post(w, m),
         UNCHANGED <<config, now, at, counts, verdict, received, finished>>,
         m.kind # "event",
         m.kind = "counts" => m.counts = counts[w] /\ worker'[w] = "over" /\ at[w] \notin Census,
         worker[w] # "terminated", worker'[w] \in {"over", worker[w]}
  PROVE  Kept(w)'
<1>1. Pool' = Pool /\ Suite' = Suite /\ Census' = Census /\ DueNow' = DueNow
  BY DEF Pool, Suite, suites, Census, DueNow, Due
<1>2. Done(w)' = Done(w)
  BY <1>1 DEF Done, Stripe
<1>3. channel[w] \in Seq(Message) /\ channel'[w] = Append(channel[w], m)
  BY DEF HarnessTyped, Post
<1>4. received[w] \in Seq(Message)
  <2>1. received[w] \in Seq(EventRecord) /\ EventRecord \subseteq Message
    BY DEF PageTyped, Message
  <2> QED BY <2>1, SeqMonotonic
<1>5. Sent(w)' = Append(Sent(w), m) /\ Sent(w) \in Seq(Message)
  <2> DEFINE q == received[w]
             t == channel[w]
  <2>0. q \in Seq(Message) /\ t \in Seq(Message)
    BY <1>3, <1>4
  <2>1. q \o Append(t, m) = Append(q \o t, m)
    <3> HIDE DEF q, t
    <3> QED BY <2>0, SentPosts
  <2>2. received[w] \o channel[w] \in Seq(Message)
    BY <1>3, <1>4, ConcatProperties
  <2> QED BY <1>3, <2>1, <2>2 DEF Sent
<1>6. Ledger(Sent(w), Done(w), DueNow)'
  <2>1. Ledger(Append(Sent(w), m), Done(w), DueNow)
    BY <1>5, LedgerPassed DEF Kept
  <2> QED BY <1>1, <1>2, <1>5, <2>1
<1>7. Tally(counts[w], Done(w), DueNow, Suite.cases)'
  BY <1>1, <1>2 DEF Kept
<1>8. \A i \in Done(w)' :
        /\ Suite'.cases[i].tagged
        /\ Suite'.cases[i].applies /\ Suite'.cases[i].selected => i \in DOMAIN verdict'[now']
  BY <1>1, <1>2 DEF Kept
<1>9. Runnable(w)'
  BY <1>1 DEF Kept, Runnable, Case
<1>10. Closing(w)'
  <2>1. PICK n \in Nat : n = Len(channel[w]) /\ DOMAIN channel[w] = 1..n
    BY <1>3
  <2>2. /\ DOMAIN channel'[w] = 1..(n + 1) /\ channel'[w][n + 1] = m
        /\ \A k \in 1..n : channel'[w][k] = channel[w][k]
    BY <1>3, <2>1
  <2>3. \A k \in 1..(n + 1) : k \in 1..n \/ k = n + 1
    BY <2>1
  <2>4. SUFFICES ASSUME NEW j \in 1..(n + 1), channel'[w][j].kind = "counts"
                 PROVE  /\ channel'[w][j].counts = counts[w] /\ worker'[w] = "over" /\ at[w] \notin Census
                        /\ \A k \in 1..(n + 1) : k > j => channel'[w][k].kind # "event"
    BY <1>1, <2>2 DEF Closing
  <2>5. CASE j \in 1..n
    <3>1. /\ channel[w][j].counts = counts[w] /\ worker[w] = "over" /\ at[w] \notin Census
          /\ \A k \in 1..n : k > j => channel[w][k].kind # "event"
      BY <2>1, <2>2, <2>4, <2>5 DEF Kept, Closing
    <3>2. ASSUME NEW k \in 1..(n + 1), k > j
          PROVE  channel'[w][k].kind # "event"
      BY <2>2, <2>3, <3>1, <3>2
    <3> QED BY <2>2, <2>5, <3>1, <3>2
  <2>6. CASE j = n + 1
    <3>1. \A k \in 1..(n + 1) : ~(k > j)
      BY <2>1, <2>6
    <3> QED BY <2>2, <2>4, <2>6, <3>1
  <2> QED BY <2>3, <2>5, <2>6
<1>11. (worker'[w] = "terminated" <=> w \in DOMAIN finished') /\ w \notin DOMAIN finished'
  BY DEF Kept
<1> QED BY <1>6, <1>7, <1>8, <1>9, <1>10, <1>11 DEF Kept

(* A worker that posts a case's event keeps its own. *)
LEMMA KeptEmits ==
  ASSUME HarnessTyped, PageTyped, now \in 1..Len(suites), NEW w \in Workers, Kept(w),
         NEW status \in Statuses, Emit(w, status),
         UNCHANGED <<config, now, received, finished>>,
         worker[w] \in {"looping", "running"}, at[w] \in Census, Case(w).tagged,
         DueNow'[at[w]] = status,
         Case(w).applies /\ Case(w).selected => at[w] \in DOMAIN verdict'[now],
         \A i \in Done(w) : /\ DueNow'[i] = DueNow[i]
                            /\ i \in DOMAIN verdict[now] => i \in DOMAIN verdict'[now]
  PROVE  Kept(w)'
<1>1. Pool' = Pool /\ Suite' = Suite /\ Census' = Census /\ Workers' = Workers
  BY DEF Pool, Suite, suites, Census, Workers
<1>2. config \in Configs /\ at[w] \in Nat /\ at'[w] = at[w] + Pool
  BY DEF HarnessTyped, Emit, NextInStripe
<1>3. /\ at[w] \notin Done(w)
      /\ Done(w)' = Done(w) \union {at[w]}
  <2>1. Stripe(w)' = Stripe(w)
    BY <1>1 DEF Stripe
  <2>2. Done(w)' = {i \in Stripe(w) : i < at[w] + Pool}
    BY <1>2, <2>1 DEF Done
  <2> QED BY <2>2, DoneNext
<1>4. Event(at[w], status) \in Message
  BY <1>2 DEF Event, Message, EventRecord
<1>5. channel[w] \in Seq(Message) /\ channel'[w] = Append(channel[w], Event(at[w], status))
  BY DEF HarnessTyped, Emit, Post
<1>6. received[w] \in Seq(Message)
  <2>1. received[w] \in Seq(EventRecord) /\ EventRecord \subseteq Message
    BY DEF PageTyped, Message
  <2> QED BY <2>1, SeqMonotonic
<1>7. Sent(w)' = Append(Sent(w), Event(at[w], status)) /\ Sent(w) \in Seq(Message)
  <2> DEFINE q == received[w]
             t == channel[w]
             m == Event(at[w], status)
  <2>0. q \in Seq(Message) /\ t \in Seq(Message) /\ m \in Message
    BY <1>4, <1>5, <1>6
  <2>1. q \o Append(t, m) = Append(q \o t, m)
    <3> HIDE DEF q, t, m
    <3> QED BY <2>0, SentPosts
  <2>2. received[w] \o channel[w] \in Seq(Message)
    BY <1>5, <1>6, ConcatProperties
  <2> QED BY <1>5, <2>1, <2>2 DEF Sent
<1>8. Ledger(Sent(w), Done(w), DueNow)'
  <2>1. Ledger(Append(Sent(w), Event(at[w], status)), Done(w) \union {at[w]}, DueNow')
    BY <1>3, <1>7, LedgerEntered DEF Kept
  <2> QED BY <1>3, <1>7, <2>1
<1>9. Tally(counts[w], Done(w), DueNow, Suite.cases)'
  <2>1. IsFiniteSet(Done(w))
    <3>1. IsFiniteSet(Census)
      BY <1>2, SuiteTyped
    <3>2. Done(w) \in SUBSET Census
      BY DEF Done, Stripe
    <3> QED BY <3>1, <3>2, FS_Subset
  <2>2. counts[w] \in [Counted -> Nat]
    BY DEF HarnessTyped
  <2>3. counts'[w] = [c \in Counted |->
          IF c \in {status, "total"} \/ (c = "selected" /\ Case(w).selected)
          THEN counts[w][c] + 1 ELSE counts[w][c]]
    BY DEF HarnessTyped, Emit, Bumped
  <2>4. counts'[w] \in [Counted -> Nat]
    BY <2>2, <2>3
  <2>5. \A c \in Counted : counts'[w][c] =
          IF c \in {status, "total"} \/ (c = "selected" /\ Suite.cases[at[w]].selected)
          THEN counts[w][c] + 1 ELSE counts[w][c]
    BY <2>3 DEF Case
  <2>6. Tally(counts[w], Done(w), DueNow, Suite.cases)
    BY DEF Kept
  <2> DEFINE due == DueNow
             after == DueNow'
             all == Suite.cases
             number == counts[w]
             next == counts'[w]
             cases == Done(w)
             i == at[w]
  <2>7. \A j \in cases : after[j] = due[j]
    OBVIOUS
  <2>8. after[i] = status /\ i \notin cases
    BY <1>3
  <2>9. Tally(next, cases \union {i}, after, all)
    <3>1. IsFiniteSet(cases) /\ number \in [Counted -> Nat] /\ next \in [Counted -> Nat]
      BY <2>1, <2>2, <2>4
    <3>2. Tally(number, cases, due, all)
      BY <2>6
    <3>3. \A c \in Counted : next[c] =
            IF c \in {status, "total"} \/ (c = "selected" /\ all[i].selected)
            THEN number[c] + 1 ELSE number[c]
      BY <2>5
    <3> HIDE DEF due, after, all, number, next, cases, i
    <3> QED BY <2>7, <2>8, <3>1, <3>2, <3>3, Tallied, Z3
  <2> QED BY <1>1, <1>3, <2>9
<1>10. \A i \in Done(w)' :
        /\ Suite'.cases[i].tagged
        /\ Suite'.cases[i].applies /\ Suite'.cases[i].selected => i \in DOMAIN verdict'[now']
  BY <1>1, <1>3 DEF Kept, Case
<1>11. worker'[w] = "looping"
  BY DEF Emit, HarnessTyped
<1>12. Closing(w)'
  <2>1. PICK n \in Nat : n = Len(channel[w]) /\ DOMAIN channel[w] = 1..n
    BY <1>5
  <2>2. /\ DOMAIN channel'[w] = 1..(n + 1) /\ channel'[w][n + 1].kind = "event"
        /\ \A k \in 1..n : channel'[w][k] = channel[w][k]
    BY <1>5, <2>1 DEF Event
  <2>3. \A k \in 1..(n + 1) : k \in 1..n \/ k = n + 1
    BY <2>1
  <2>4. \A k \in 1..n : channel[w][k].kind # "counts"
    BY <2>1 DEF Kept, Closing
  <2>5. \A k \in 1..(n + 1) : channel'[w][k].kind # "counts"
    BY <2>2, <2>3, <2>4
  <2> QED BY <2>2, <2>5 DEF Closing
<1>13. (worker'[w] = "terminated" <=> w \in DOMAIN finished') /\ w \notin DOMAIN finished'
  BY <1>11 DEF Kept
<1>14. Runnable(w)'
  BY <1>11 DEF Runnable
<1> QED BY <1>8, <1>9, <1>10, <1>12, <1>13, <1>14 DEF Kept
(* What is due does not change with a worker's step, but for a case that is
   decided. *)
LEMMA DueStays ==
  ASSUME UNCHANGED <<config, now, verdict>>
  PROVE  DueNow' = DueNow
BY DEF DueNow, Due, Census, Suite, suites

LEMMA DueDecided ==
  ASSUME HarnessTyped, now \in 1..Len(suites), NEW w \in Workers, NEW status, Decide(w, status),
         at[w] \in Census, Case(w).applies, Case(w).selected
  PROVE  /\ DueNow'[at[w]] = status /\ at[w] \in DOMAIN verdict'[now]
         /\ \A i \in Census :
              i # at[w] /\ (Suite.cases[i].applies /\ Suite.cases[i].selected => i \in DOMAIN verdict[now])
              => DueNow'[i] = DueNow[i]
         /\ DOMAIN verdict[now] \subseteq DOMAIN verdict'[now]
         /\ \A s \in DOMAIN suites : s # now => verdict'[s] = verdict[s]
<1>1. config \in Configs /\ now \in DOMAIN suites /\ DOMAIN verdict = DOMAIN suites
      /\ \A i \in Census : Suite.cases[i] \in CaseRecord
  BY SuiteTyped DEF HarnessTyped
<1>2. /\ UNCHANGED <<config, now>>
      /\ verdict' = [verdict EXCEPT ![now] =
           [i \in DOMAIN verdict[now] \union {at[w]} |-> IF i = at[w] THEN status ELSE verdict[now][i]]]
  BY DEF Decide
<1>3. /\ verdict'[now] = [i \in DOMAIN verdict[now] \union {at[w]} |->
                            IF i = at[w] THEN status ELSE verdict[now][i]]
      /\ \A s \in DOMAIN suites : s # now => verdict'[s] = verdict[s]
  BY <1>1, <1>2
<1>4. /\ DOMAIN verdict'[now] = DOMAIN verdict[now] \union {at[w]}
      /\ verdict'[now][at[w]] = status
      /\ \A i \in DOMAIN verdict[now] : i # at[w] => verdict'[now][i] = verdict[now][i]
  BY <1>3
<1>5. Census' = Census /\ Suite' = Suite /\ suites' = suites /\ suites[now] = Suite
  BY <1>2 DEF Census, Suite, suites
<1>6. \A i \in Census : /\ DueNow[i] = Due(now, i)
                        /\ DueNow'[i] = Due(now, i)'
  BY <1>2, <1>5 DEF DueNow
<1>7. \A i \in Census :
        /\ Suite.cases[i].applies \in BOOLEAN /\ Suite.cases[i].selected \in BOOLEAN
  BY <1>1 DEF CaseRecord
<1>8. \A i \in Census : i = at[w] => Due(now, i)' = status
  BY <1>2, <1>4, <1>5, <1>7 DEF Due, Case
<1>9. ASSUME NEW i \in Census, i # at[w],
             Suite.cases[i].applies /\ Suite.cases[i].selected => i \in DOMAIN verdict[now]
      PROVE  Due(now, i)' = Due(now, i)
  <2>1. CASE Suite.cases[i].applies /\ Suite.cases[i].selected
    <3>1. verdict'[now][i] = verdict[now][i]
      BY <1>4, <1>9, <2>1
    <3>2. Due(now, i) = verdict[now][i]
      BY <1>5, <2>1 DEF Due
    <3>3. Due(now, i)' = verdict'[now][i]
      BY <1>2, <1>5, <2>1 DEF Due
    <3> QED BY <3>1, <3>2, <3>3
  <2>2. CASE ~(Suite.cases[i].applies /\ Suite.cases[i].selected)
    BY <1>2, <1>5, <1>7, <2>2 DEF Due
  <2> QED BY <2>1, <2>2
<1> QED BY <1>3, <1>4, <1>6, <1>8, <1>9

(* A case of one worker is none that another is done with. *)
LEMMA OthersDone ==
  ASSUME HarnessTyped, now \in 1..Len(suites), NEW v \in Workers, NEW w \in Workers, NEW i \in Done(v)
  PROVE  i # at[w]
<1>1. Pool \in Nat /\ Pool > 0
  BY ConfigTyped DEF HarnessTyped
<1>2. i % Pool = v % Pool /\ at[w] % Pool = w % Pool /\ i < at[v]
  BY DEF HarnessTyped, Done, Stripe
<1>3. CASE i = at[w]
  <2>1. PICK p \in Nat : p = Pool /\ p > 0
    BY <1>1
  <2>2. v \in 1..p /\ w \in 1..p /\ v % p = w % p
    BY <1>2, <1>3, <2>1 DEF Workers
  <2>3. v = w
    BY <2>1, <2>2, OneStripe
  <2>4. at[w] \in Nat
    BY DEF HarnessTyped
  <2> QED BY <1>2, <1>3, <2>3, <2>4
<1> QED BY <1>3

(* A step of a worker loses nothing, its own or another's. *)
LEMMA WorkKept ==
  ASSUME HarnessTyped, PageTyped, now \in 1..Len(suites), \A v \in Workers : Kept(v),
         NEW w \in Workers, HarnessNext(w), UNCHANGED <<received, finished>>
  PROVE  /\ \A v \in Workers : Kept(v)'
         /\ \A s \in DOMAIN suites : s # now => verdict'[s] = verdict[s]
<1>0. Kept(w) /\ config \in Configs
  BY DEF HarnessTyped
<1>1. CASE Break(w) /\ worker[w] # "terminated"
  <2> DEFINE m == [kind |-> "error"]
  <2>1. m \in Message /\ m.kind = "error" /\ Post(w, m)
    BY <1>1 DEF Message, Break
  <2>2. UNCHANGED <<config, now, at, counts, verdict>> /\ worker'[w] = "over"
    BY <1>1 DEF Break, HarnessTyped
  <2>3. DueNow' = DueNow
    BY <2>2, DueStays
  <2>4. \A v \in Workers \ {w} : worker'[v] = worker[v] /\ channel'[v] = channel[v]
    BY <1>1, <2>1 DEF Break, Post, HarnessTyped
  <2> HIDE DEF m
  <2>5. Kept(w)'
    BY <1>0, <1>1, <2>1, <2>2, KeptPosts
  <2>6. \A v \in Workers \ {w} : Kept(v)'
    BY <2>2, <2>3, <2>4, KeptStays
  <2> QED BY <2>2, <2>5, <2>6
<1>2. CASE Escape(w) \/ (EndLoop(w) /\ ~Break(w))
  <2>1. /\ UNCHANGED <<config, now, at, counts, verdict>>
        /\ worker[w] # "terminated" /\ worker'[w] \in {"over", worker[w]}
    BY <1>2 DEF Escape, EndLoop, HarnessTyped
  <2>2. PICK m \in Message :
          /\ m.kind # "event" /\ Post(w, m)
          /\ m.kind = "counts" => m.counts = counts[w] /\ worker'[w] = "over" /\ at[w] \notin Census
    <3>1. CASE Escape(w)
      BY <3>1 DEF Escape, Message
    <3>2. CASE EndLoop(w) /\ ~Break(w)
      <4> DEFINE m == [kind |-> "counts", counts |-> counts[w]]
      <4>1. m \in Message
        BY DEF Message, HarnessTyped
      <4>2. Post(w, m) /\ worker'[w] = "over" /\ at[w] \notin Census
        BY <3>2 DEF EndLoop, HarnessTyped
      <4> QED BY <4>1, <4>2
    <3> QED BY <1>2, <3>1, <3>2
  <2>3. DueNow' = DueNow
    BY <2>1, DueStays
  <2>4. \A v \in Workers \ {w} : worker'[v] = worker[v] /\ channel'[v] = channel[v]
    BY <1>2, <2>2 DEF Escape, EndLoop, Post, HarnessTyped
  <2>5. Kept(w)'
    BY <1>0, <2>1, <2>2, KeptPosts
  <2>6. \A v \in Workers \ {w} : Kept(v)'
    BY <2>1, <2>3, <2>4, KeptStays
  <2> QED BY <2>1, <2>5, <2>6
<1>3. CASE (Boot(w) \/ Relocate(w)) /\ ~Break(w)
  <2>1. /\ UNCHANGED <<config, now, at, counts, channel, verdict>>
        /\ worker[w] \notin {"over", "terminated"} /\ worker'[w] # "terminated"
    BY <1>3 DEF Boot, Relocate, AtCase, HarnessTyped
  <2>2. DueNow' = DueNow
    BY <2>1, DueStays
  <2>3. \A v \in Workers \ {w} : worker'[v] = worker[v]
    BY <1>3 DEF Boot, Relocate, HarnessTyped
  <2>4. Runnable(w)'
    <3>1. Suite' = Suite /\ Census' = Census
      BY <2>1 DEF Suite, Census, suites
    <3> QED BY <1>3, <2>1, <3>1 DEF Boot, Relocate, AtCase, Runnable, Case, HarnessTyped
  <2>5. Kept(w)'
    BY <1>0, <2>1, <2>2, <2>4, KeptStays
  <2>6. \A v \in Workers \ {w} : Kept(v)'
    BY <2>1, <2>2, <2>3, KeptStays
  <2> QED BY <2>1, <2>5, <2>6
<1>4. CASE Exclude(w) \/ Deselect(w)
  <2>1. /\ worker[w] = "looping" /\ at[w] \in Census /\ Case(w).tagged
        /\ UNCHANGED <<config, now, verdict>>
    BY <1>4 DEF Exclude, Deselect, AtCase
  <2>2. DueNow' = DueNow
    BY <2>1, DueStays
  <2>3. PICK status \in Statuses : Emit(w, status) /\ DueNow[at[w]] = status
    <3>1. Case(w).applies \in BOOLEAN /\ Case(w).selected \in BOOLEAN
      BY <1>0, <2>1, SuiteTyped DEF Case, CaseRecord
    <3>2. DueNow[at[w]] = Due(now, at[w]) /\ suites[now].cases[at[w]] = Case(w)
      BY <2>1 DEF DueNow, Case, Suite
    <3>3. CASE Exclude(w)
      BY <3>1, <3>2, <3>3 DEF Exclude, Due, Statuses
    <3>4. CASE Deselect(w)
      BY <3>1, <3>2, <3>4 DEF Deselect, Due, Statuses
    <3> QED BY <1>4, <3>3, <3>4
  <2>4. ~(Case(w).applies /\ Case(w).selected)
    BY <1>4 DEF Exclude, Deselect
  <2>5. Kept(w)'
    BY <1>0, <2>1, <2>2, <2>3, <2>4, KeptEmits
  <2>6. \A v \in Workers \ {w} :
          /\ worker'[v] = worker[v] /\ channel'[v] = channel[v] /\ at'[v] = at[v] /\ counts'[v] = counts[v]
    BY <2>3 DEF Emit, Post, Bumped, HarnessTyped
  <2>7. \A v \in Workers \ {w} : Kept(v)'
    BY <2>1, <2>2, <2>6, KeptStays
  <2> QED BY <2>1, <2>5, <2>7
<1>5. CASE EndCase(w) \/ TimeOut(w)
  <2>1. PICK status \in Verdicts : Decide(w, status)
    BY <1>5 DEF EndCase, TimeOut, Verdicts
  <2>2. /\ worker[w] = "running" /\ Emit(w, status) /\ status \in Statuses /\ UNCHANGED <<config, now>>
    BY <1>5, <2>1 DEF EndCase, TimeOut, Decide, Statuses
  <2>3. at[w] \in Census /\ Case(w).tagged /\ Case(w).applies /\ Case(w).selected
    BY <1>0, <2>2 DEF Kept, Runnable
  <2>4. /\ DueNow'[at[w]] = status /\ at[w] \in DOMAIN verdict'[now]
        /\ \A i \in Census :
             i # at[w] /\ (Suite.cases[i].applies /\ Suite.cases[i].selected => i \in DOMAIN verdict[now])
             => DueNow'[i] = DueNow[i]
        /\ DOMAIN verdict[now] \subseteq DOMAIN verdict'[now]
        /\ \A s \in DOMAIN suites : s # now => verdict'[s] = verdict[s]
    BY <2>1, <2>3, DueDecided
  <2>5. ASSUME NEW v \in Workers, NEW i \in Done(v)
        PROVE  DueNow'[i] = DueNow[i] /\ (i \in DOMAIN verdict[now] => i \in DOMAIN verdict'[now])
    <3>1. i \in Census
      BY DEF Done, Stripe
    <3>2. i # at[w]
      BY OthersDone
    <3>3. Suite.cases[i].applies /\ Suite.cases[i].selected => i \in DOMAIN verdict[now]
      BY DEF Kept
    <3> QED BY <2>4, <3>1, <3>2, <3>3
  <2>6. Kept(w)'
    BY <1>0, <2>2, <2>3, <2>4, <2>5, KeptEmits
  <2>7. \A v \in Workers \ {w} :
          /\ worker'[v] = worker[v] /\ channel'[v] = channel[v] /\ at'[v] = at[v] /\ counts'[v] = counts[v]
    BY <2>2 DEF Emit, Post, Bumped, HarnessTyped
  <2>8. \A v \in Workers \ {w} : Kept(v)'
    BY <2>2, <2>5, <2>7, KeptStays
  <2> QED BY <2>4, <2>6, <2>8
<1>6. CASE Late(w)
  <2>1. UNCHANGED <<config, now, worker, at, counts, channel, verdict>>
    BY <1>6 DEF Late
  <2>2. DueNow' = DueNow
    BY <2>1, DueStays
  <2>3. \A v \in Workers : Kept(v)'
    BY <2>1, <2>2, KeptStays
  <2> QED BY <2>1, <2>3
<1>7. CASE Drift(w)
  BY <1>1, <1>7 DEF Drift, AtCase
<1>8. (Boot(w) \/ Relocate(w) \/ EndLoop(w)) => worker[w] # "terminated"
  BY DEF Boot, Relocate, EndLoop, AtCase
<1> QED BY <1>1, <1>2, <1>3, <1>4, <1>5, <1>6, <1>7, <1>8 DEF HarnessNext
(* An event that is taken is kept. *)
LEMMA TakeEventKept ==
  ASSUME HarnessTyped, PageTyped, \A v \in Workers : Kept(v), NEW w \in Workers, TakeEvent(w)
  PROVE  \A v \in Workers : Kept(v)'
<1>1. /\ channel[w] # <<>> /\ channel[w] \in Seq(Message) /\ Head(channel[w]).kind = "event"
      /\ UNCHANGED <<config, now, worker, at, counts, verdict, finished>>
      /\ received' = [received EXCEPT ![w] = Append(received[w], Head(channel[w]))]
      /\ channel' = [channel EXCEPT ![w] = Tail(channel[w])]
  BY DEF TakeEvent, Receives, HarnessTyped
<1>2. DueNow' = DueNow
  BY <1>1, DueStays
<1>3. \A v \in Workers \ {w} : received'[v] = received[v] /\ channel'[v] = channel[v]
  BY <1>1 DEF HarnessTyped, PageTyped
<1>4. \A v \in Workers \ {w} : Kept(v)'
  BY <1>1, <1>2, <1>3, KeptStays
<1>5. Pool' = Pool /\ Suite' = Suite /\ Census' = Census
  BY <1>1 DEF Pool, Suite, suites, Census
<1>6. received'[w] = Append(received[w], Head(channel[w])) /\ channel'[w] = Tail(channel[w])
  BY <1>1 DEF HarnessTyped, PageTyped
<1>7. received[w] \in Seq(Message)
  <2>1. received[w] \in Seq(EventRecord) /\ EventRecord \subseteq Message
    BY DEF PageTyped, Message
  <2> QED BY <2>1, SeqMonotonic
<1>8. Sent(w)' = Sent(w)
  <2> DEFINE q == received[w]
             t == channel[w]
  <2>1. q \in Seq(Message) /\ t \in Seq(Message) /\ t # <<>>
    BY <1>1, <1>7
  <2>2. Append(q, Head(t)) \o Tail(t) = q \o t
    <3> HIDE DEF q, t
    <3> QED BY <2>1, SentTaken
  <2> QED BY <1>6, <2>2 DEF Sent
<1>9. Done(w)' = Done(w)
  BY <1>1, <1>5 DEF Done, Stripe
<1>10. Closing(w)'
  <2>1. PICK n \in Nat : n + 1 = Len(channel[w]) /\ DOMAIN channel[w] = 1..(n + 1)
    <3>1. Len(channel[w]) \in Nat /\ Len(channel[w]) # 0 /\ DOMAIN channel[w] = 1..Len(channel[w])
      BY <1>1
    <3>2. Len(channel[w]) - 1 \in Nat /\ (Len(channel[w]) - 1) + 1 = Len(channel[w])
      BY <3>1
    <3> QED BY <3>1, <3>2
  <2>2. DOMAIN channel'[w] = 1..n /\ \A k \in 1..n : channel'[w][k] = channel[w][k + 1]
    <3>1. Tail(channel[w]) \in Seq(Message) /\ Len(Tail(channel[w])) = Len(channel[w]) - 1
          /\ \A k \in 1..Len(Tail(channel[w])) : Tail(channel[w])[k] = channel[w][k + 1]
      BY <1>1, HeadTailProperties
    <3>2. Len(Tail(channel[w])) = n
      BY <2>1, <3>1
    <3> QED BY <1>6, <3>1, <3>2
  <2>3. SUFFICES ASSUME NEW j \in 1..n, channel'[w][j].kind = "counts"
                 PROVE  /\ channel'[w][j].counts = counts[w] /\ worker[w] = "over" /\ at[w] \notin Census
                        /\ \A k \in 1..n : k > j => channel'[w][k].kind # "event"
    BY <1>1, <1>5, <2>2 DEF Closing
  <2>4. j + 1 \in 1..(n + 1) /\ channel[w][j + 1].kind = "counts"
    BY <2>1, <2>2, <2>3
  <2>5. /\ channel[w][j + 1].counts = counts[w] /\ worker[w] = "over" /\ at[w] \notin Census
        /\ \A k \in 1..(n + 1) : k > j + 1 => channel[w][k].kind # "event"
    BY <2>1, <2>4 DEF Kept, Closing
  <2>6. ASSUME NEW k \in 1..n, k > j
        PROVE  channel'[w][k].kind # "event"
    <3>1. k + 1 \in 1..(n + 1) /\ k + 1 > j + 1
      BY <2>1, <2>6
    <3> QED BY <2>2, <2>5, <3>1
  <2> QED BY <2>2, <2>5, <2>6
<1>11. (worker'[w] = "terminated" <=> w \in DOMAIN finished') /\ w \notin DOMAIN finished'
  BY <1>1 DEF TakeEvent, Receives, Kept
<1>12. Runnable(w)'
  BY <1>1, <1>5 DEF Kept, Runnable, Case
<1>13. /\ Ledger(Sent(w), Done(w), DueNow)'
       /\ Tally(counts[w], Done(w), DueNow, Suite.cases)'
       /\ \A i \in Done(w)' :
            /\ Suite'.cases[i].tagged
            /\ Suite'.cases[i].applies /\ Suite'.cases[i].selected => i \in DOMAIN verdict'[now']
  BY <1>1, <1>2, <1>5, <1>8, <1>9 DEF Kept
<1>14. Kept(w)'
  BY <1>10, <1>11, <1>12, <1>13 DEF Kept
<1> QED BY <1>4, <1>14

\* A worker is at the end of its stripe, and the page has all its events.
Complete(w, number) ==
  /\ Ledger(received[w], Stripe(w), DueNow)
  /\ Tally(number, Stripe(w), DueNow, Suite.cases)
  /\ \A i \in Stripe(w) : Suite.cases[i].tagged

(* A worker whose counts have come is at the end. *)
LEMMA FinishedComplete ==
  ASSUME HarnessTyped, PageTyped, now \in 1..Len(suites), NEW w \in Workers, Kept(w), w \in DOMAIN finished
  PROVE  Complete(w, finished[w])
<1>1. finished[w] = counts[w] /\ at[w] \notin Census /\ channel[w] = <<>>
  BY DEF Kept
<1>2. Done(w) = Stripe(w)
  BY <1>1, AllDone
<1>3. Sent(w) = received[w]
  <2>1. received[w] \in Seq(EventRecord)
    BY DEF PageTyped
  <2> QED BY <1>1, <2>1, ConcatEmptySeq DEF Sent
<1> QED BY <1>1, <1>2, <1>3 DEF Kept, Complete

(* So is one whose counts come now. *)
LEMMA CountsComplete ==
  ASSUME HarnessTyped, PageTyped, now \in 1..Len(suites), NEW w \in Workers, Kept(w),
         channel[w] # <<>>, Head(channel[w]).kind = "counts"
  PROVE  /\ Complete(w, counts[w]) /\ Head(channel[w]).counts = counts[w]
         /\ at[w] \notin Census /\ Ledger(received[w], Done(w), DueNow)
<1>1. channel[w] \in Seq(Message)
  BY DEF HarnessTyped
<1>2. 1 \in DOMAIN channel[w] /\ Head(channel[w]) = channel[w][1]
  BY <1>1
<1>3. /\ channel[w][1].counts = counts[w] /\ at[w] \notin Census
      /\ \A k \in DOMAIN channel[w] : k > 1 => channel[w][k].kind # "event"
  BY <1>2 DEF Kept, Closing
<1>4. \A k \in DOMAIN channel[w] : channel[w][k].kind # "event"
  <2>1. \A k \in DOMAIN channel[w] : k = 1 \/ k > 1
    BY <1>1
  <2> QED BY <1>2, <1>3, <2>1
<1>5. Done(w) = Stripe(w)
  BY <1>3, AllDone
<1>6. received[w] \in Seq(Message)
  <2>1. received[w] \in Seq(EventRecord) /\ EventRecord \subseteq Message
    BY DEF PageTyped, Message
  <2> QED BY <2>1, SeqMonotonic
<1>7. Ledger(received[w], Done(w), DueNow)
  BY <1>1, <1>4, <1>6, LedgerCut DEF Kept, Sent
<1> QED BY <1>2, <1>3, <1>5, <1>7 DEF Kept, Complete
-----------------------------------------------------------------------------
(* A suite that is done. *)

\* What is due of a suite's cases.
DueOf(s) == [i \in DOMAIN suites[s].cases |-> Due(s, i)]

\* What the page has of a suite is whole.
WholeSuite(done, suite, due) ==
  /\ \A i \in DOMAIN suite.cases : suite.cases[i].tagged
  /\ done.lines = [i \in DOMAIN suite.cases |-> [case |-> i, status |-> due[i]]]
  /\ \A c \in Statuses : done.counts[c] = Cardinality({i \in DOMAIN suite.cases : due[i] = c})
  /\ done.counts["total"] = Len(suite.cases)
  /\ suite.only => \E i \in DOMAIN suite.cases : suite.cases[i].selected

(* What the stripes have of a set of cases adds up to all of it. *)
LEMMA StripesAddUp ==
  ASSUME HarnessTyped, now \in 1..Len(suites), NEW P
  PROVE  SumFunction([w \in Workers |-> Cardinality({i \in Stripe(w) : i \in P})])
           = Cardinality({i \in Census : i \in P})
<1> DEFINE R == {i \in Census : i \in P}
           own == [i \in R |-> CHOOSE w \in Workers : i % Pool = w % Pool]
<1>1. config \in Configs
  BY DEF HarnessTyped
<1>2. PICK p \in Nat : p = Pool /\ p > 0
  BY <1>1, ConfigTyped
<1>3. Workers = 1..p /\ IsFiniteSet(Workers)
  BY <1>2, FS_Interval DEF Workers
<1>4. IsFiniteSet(R)
  <2>1. IsFiniteSet(Census)
    BY <1>1, SuiteTyped
  <2>2. R \in SUBSET Census
    OBVIOUS
  <2> HIDE DEF R
  <2> QED BY <2>1, <2>2, FS_Subset
<1>5. \A i \in R : i \in Nat
  <2>1. PICK n \in Nat : Census = 1..n
    BY <1>1, SuiteTyped
  <2> QED BY <2>1
<1>6. ASSUME NEW i \in R
      PROVE  own[i] \in Workers /\ i % Pool = own[i] % Pool
  <2>1. \E w \in 1..p : i % p = w % p
    BY <1>2, <1>5, SomeStripe
  <2>2. \E w \in Workers : i % Pool = w % Pool
    BY <1>2, <1>3, <2>1
  <2> QED BY <2>2
<1>7. own \in [R -> Workers]
  BY <1>6
<1>8. ASSUME NEW w \in Workers
      PROVE  {i \in Stripe(w) : i \in P} = {i \in R : own[i] = w}
  <2>1. ASSUME NEW i \in R
        PROVE  i % Pool = w % Pool <=> own[i] = w
    <3>1. own[i] \in 1..p /\ w \in 1..p /\ i % p = own[i] % p
      BY <1>2, <1>3, <1>6
    <3> HIDE DEF own
    <3>2. i % p = w % p => own[i] = w
      BY <1>2, <3>1, OneStripe
    <3> QED BY <1>2, <3>1, <3>2
  <2> HIDE DEF own
  <2>2. \A i : i \in Stripe(w) /\ i \in P <=> i \in R /\ i % Pool = w % Pool
    BY DEF Stripe
  <2> HIDE DEF R
  <2> QED BY <2>1, <2>2
<1> HIDE DEF own, R
<1>9. SumFunction([w \in Workers |-> Cardinality({i \in R : own[i] = w})]) = Cardinality(R)
  BY <1>3, <1>4, <1>7, CountsAddUp
<1>10. [w \in Workers |-> Cardinality({i \in Stripe(w) : i \in P})]
         = [w \in Workers |-> Cardinality({i \in R : own[i] = w})]
  BY <1>8
<1> QED BY <1>9, <1>10 DEF R

(* The counts of the stripes add up to those of the census. *)
LEMMA Merged ==
  ASSUME HarnessTyped, now \in 1..Len(suites), NEW parts,
         \A w \in Workers : Tally(parts[w], Stripe(w), DueNow, Suite.cases)
  PROVE  Tally(MergeCounts(parts), Census, DueNow, Suite.cases)
<1>1. ASSUME NEW c \in Counted, NEW P,
             \A w \in Workers : parts[w][c] = Cardinality({i \in Stripe(w) : i \in P})
      PROVE  MergeCounts(parts)[c] = Cardinality({i \in Census : i \in P})
  <2>1. [w \in Workers |-> parts[w][c]] = [w \in Workers |-> Cardinality({i \in Stripe(w) : i \in P})]
    BY <1>1
  <2>2. MergeCounts(parts)[c] = SumFunction([w \in Workers |-> parts[w][c]])
    BY DEF MergeCounts
  <2> QED BY <2>1, <2>2, StripesAddUp
<1>2. ASSUME NEW c \in Statuses
      PROVE  MergeCounts(parts)[c] = Cardinality({i \in Census : DueNow[i] = c})
  <2> DEFINE P == {i \in Census : DueNow[i] = c}
  <2>1. \A w \in Workers : {i \in Stripe(w) : i \in P} = {i \in Stripe(w) : DueNow[i] = c}
    BY DEF Stripe
  <2>2. {i \in Census : i \in P} = {i \in Census : DueNow[i] = c}
    OBVIOUS
  <2>3. c \in Counted /\ \A w \in Workers : parts[w][c] = Cardinality({i \in Stripe(w) : DueNow[i] = c})
    BY DEF Counted, Tally
  <2> HIDE DEF P
  <2>4. MergeCounts(parts)[c] = Cardinality({i \in Census : i \in P})
    BY <1>1, <2>1, <2>3
  <2> QED BY <2>2, <2>4
<1>3. MergeCounts(parts)["total"] = Cardinality(Census)
  <2>1. \A w \in Workers : {i \in Stripe(w) : i \in Census} = Stripe(w)
    BY DEF Stripe
  <2>2. {i \in Census : i \in Census} = Census
    OBVIOUS
  <2>3. "total" \in Counted /\ \A w \in Workers : parts[w]["total"] = Cardinality(Stripe(w))
    BY DEF Counted, Tally
  <2>4. MergeCounts(parts)["total"] = Cardinality({i \in Census : i \in Census})
    <3>1. \A w \in Workers : parts[w]["total"] = Cardinality({i \in Stripe(w) : i \in Census})
      BY <2>1, <2>3
    <3> QED BY <1>1, <2>3, <3>1
  <2> QED BY <2>2, <2>4
<1>4. MergeCounts(parts)["selected"] = Cardinality({i \in Census : Suite.cases[i].selected})
  <2> DEFINE P == {i \in Census : Suite.cases[i].selected}
  <2>1. \A w \in Workers : {i \in Stripe(w) : i \in P} = {i \in Stripe(w) : Suite.cases[i].selected}
    BY DEF Stripe
  <2>2. {i \in Census : i \in P} = {i \in Census : Suite.cases[i].selected}
    OBVIOUS
  <2>3. /\ "selected" \in Counted
        /\ \A w \in Workers : parts[w]["selected"] = Cardinality({i \in Stripe(w) : Suite.cases[i].selected})
    BY DEF Counted, Tally
  <2> HIDE DEF P
  <2>4. MergeCounts(parts)["selected"] = Cardinality({i \in Census : i \in P})
    <3>1. \A w \in Workers : parts[w]["selected"] = Cardinality({i \in Stripe(w) : i \in P})
      BY <2>1, <2>3
    <3> QED BY <1>1, <2>3, <3>1
  <2> QED BY <2>2, <2>4
<1> QED BY <1>2, <1>3, <1>4 DEF Tally

(* The events of complete stripes are, in census order, those of the census. *)
LEMMA LinesWhole ==
  ASSUME HarnessTyped, PageTyped, now \in 1..Len(suites),
         \A w \in Workers : Ledger(received[w], Stripe(w), DueNow)
  PROVE  Lines = [i \in Census |-> [case |-> i, status |-> DueNow[i]]]
<1>1. config \in Configs
  BY DEF HarnessTyped
<1>2. PICK p \in Nat : p = Pool /\ p > 0
  BY <1>1, ConfigTyped
<1>3. Workers = 1..p
  BY <1>2 DEF Workers
<1>4. PICK n \in Nat : Census = 1..n
  BY <1>1, SuiteTyped
<1>5. received \in [1..p -> Seq(EventRecord)]
  BY <1>3 DEF PageTyped
<1>6. received \in Seq(Seq(EventRecord)) /\ Len(received) = p
  BY <1>2, <1>5
<1> DEFINE flat == FlattenSeq(received)
<1>7. flat \in Seq(EventRecord)
  BY <1>6, Flattened
<1>8. PICK f, g : Placed(flat, received, f, g)
  BY <1>6, Flattened
<1>9. /\ f \in [1..Len(flat) -> 1..p] /\ g \in [1..Len(flat) -> Nat]
      /\ \A k \in 1..Len(flat) : g[k] \in 1..Len(received[f[k]]) /\ flat[k] = received[f[k]][g[k]]
      /\ \A j, k \in 1..Len(flat) : f[j] = f[k] /\ g[j] = g[k] => j = k
      /\ \A i \in 1..p : \A j \in 1..Len(received[i]) : \E k \in 1..Len(flat) : f[k] = i /\ g[k] = j
  <2> HIDE DEF flat
  <2> QED BY <1>6, <1>8 DEF Placed
<1> HIDE DEF flat
<1>10. DOMAIN flat = 1..Len(flat) /\ \A w \in Workers : DOMAIN received[w] = 1..Len(received[w])
  BY <1>3, <1>5, <1>7
<1>11. ASSUME NEW k \in DOMAIN flat
       PROVE  /\ f[k] \in Workers /\ g[k] \in DOMAIN received[f[k]] /\ flat[k] = received[f[k]][g[k]]
              /\ flat[k].kind = "event" /\ flat[k].index \in Stripe(f[k])
              /\ flat[k].status = DueNow[flat[k].index]
  <2>1. f[k] \in Workers /\ g[k] \in DOMAIN received[f[k]] /\ flat[k] = received[f[k]][g[k]]
    BY <1>3, <1>9, <1>10
  <2>2. flat[k].kind = "event"
    <3>1. flat[k] \in EventRecord
      BY <1>7
    <3> QED BY <3>1 DEF EventRecord
  <2>3. Ledger(received[f[k]], Stripe(f[k]), DueNow)
    BY <2>1
  <2> QED BY <2>1, <2>2, <2>3 DEF Ledger
<1>12. \A k \in DOMAIN flat : flat[k].index \in 1..n
  BY <1>4, <1>11 DEF Stripe
<1>13. ASSUME NEW j \in DOMAIN flat, NEW k \in DOMAIN flat, flat[j].index = flat[k].index
       PROVE  j = k
  <2>1. f[j] \in 1..p /\ f[k] \in 1..p /\ f[j] % p = f[k] % p
    BY <1>2, <1>3, <1>11, <1>13 DEF Stripe
  <2>2. f[j] = f[k]
    BY <1>2, <2>1, OneStripe
  <2>3. g[j] = g[k]
    <3>1. Ledger(received[f[j]], Stripe(f[j]), DueNow)
      BY <1>11
    <3>2. /\ g[j] \in DOMAIN received[f[j]] /\ g[k] \in DOMAIN received[f[j]]
          /\ flat[j] = received[f[j]][g[j]] /\ flat[k] = received[f[j]][g[k]]
          /\ flat[j].kind = "event" /\ flat[k].kind = "event"
      BY <1>11, <2>2
    <3> QED BY <1>13, <3>1, <3>2 DEF Ledger
  <2> QED BY <1>9, <1>10, <2>2, <2>3
<1>14. ASSUME NEW m \in 1..n
       PROVE  \E k \in DOMAIN flat : flat[k].index = m
  <2>1. \E w \in 1..p : m % p = w % p
    <3>1. m \in Nat
      BY <1>4
    <3> QED BY <1>2, <3>1, SomeStripe
  <2>2. PICK w \in Workers : m \in Stripe(w)
    BY <1>2, <1>3, <1>4, <2>1 DEF Stripe
  <2>3. PICK j \in DOMAIN received[w] : received[w][j].index = m
    BY <2>2 DEF Ledger
  <2>4. PICK k \in 1..Len(flat) : f[k] = w /\ g[k] = j
    <3>1. w \in 1..p /\ j \in 1..Len(received[w])
      BY <1>3, <1>10, <2>3
    <3> QED BY <1>9, <3>1
  <2> QED BY <1>9, <1>10, <2>3, <2>4
<1> DEFINE place(m) == CHOOSE k \in DOMAIN flat : Place(flat, k) = m
<1>15. DOMAIN flat = 1..n /\ \A m \in 1..n : place(m) \in DOMAIN flat /\ flat[place(m)].index = m
  BY <1>7, <1>12, <1>13, <1>14, Sorted
<1>16. SortedEvents = [m \in DOMAIN flat |-> flat[place(m)]]
  BY DEF SortedEvents, flat
<1> HIDE DEF place
<1>17. ASSUME NEW m \in 1..n
       PROVE  SortedEvents[m].index = m /\ SortedEvents[m].status = DueNow[m]
  <2>1. place(m) \in DOMAIN flat /\ flat[place(m)].index = m /\ SortedEvents[m] = flat[place(m)]
    BY <1>15, <1>16
  <2> QED BY <1>11, <2>1
<1>18. DOMAIN SortedEvents = 1..n
  BY <1>15, <1>16
<1>19. Lines = [m \in 1..n |-> [case |-> SortedEvents[m].index, status |-> SortedEvents[m].status]]
  BY <1>18 DEF Lines
<1> QED BY <1>4, <1>17, <1>19

(* When the counts of all workers have come, and a filter has selected
   something, the suite is whole. *)
LEMMA SuiteWhole ==
  ASSUME HarnessTyped, PageTyped, now \in 1..Len(suites), NEW parts,
         \A w \in Workers : Complete(w, parts[w]),
         ~(Suite.only /\ MergeCounts(parts)["selected"] = 0)
  PROVE  WholeSuite([lines |-> Lines, counts |-> MergeCounts(parts)], Suite, DueNow)
<1>1. /\ config \in Configs /\ IsFiniteSet(Census) /\ Len(Suite.cases) \in Nat
      /\ Census = 1..Len(Suite.cases)
  BY SuiteTyped DEF HarnessTyped
<1>2. Lines = [i \in Census |-> [case |-> i, status |-> DueNow[i]]]
  BY LinesWhole DEF Complete
<1>3. Tally(MergeCounts(parts), Census, DueNow, Suite.cases)
  BY Merged DEF Complete
<1>4. MergeCounts(parts)["total"] = Len(Suite.cases)
  <2>1. Cardinality(1..Len(Suite.cases)) = Len(Suite.cases)
    BY <1>1, FS_Interval
  <2> QED BY <1>1, <1>3, <2>1 DEF Tally
<1>5. ASSUME NEW i \in Census
      PROVE  Suite.cases[i].tagged
  <2>1. PICK p \in Nat : p = Pool /\ p > 0
    BY <1>1, ConfigTyped
  <2>2. \E w \in 1..p : i % p = w % p
    <3>1. i \in Nat
      BY <1>1
    <3> QED BY <2>1, <3>1, SomeStripe
  <2>3. \E w \in Workers : i \in Stripe(w)
    BY <2>1, <2>2 DEF Workers, Stripe
  <2> QED BY <2>3 DEF Complete
<1>6. Suite.only => \E i \in Census : Suite.cases[i].selected
  <2>1. SUFFICES ASSUME Suite.only, \A i \in Census : ~Suite.cases[i].selected PROVE FALSE
    OBVIOUS
  <2>2. {i \in Census : Suite.cases[i].selected} = {}
    BY <2>1
  <2>3. MergeCounts(parts)["selected"] = 0
    BY <1>3, <2>2, FS_EmptySet DEF Tally
  <2> QED BY <2>1, <2>3
<1>7. DOMAIN Suite.cases = Census
  BY DEF Census
<1> QED BY <1>2, <1>3, <1>4, <1>5, <1>6, <1>7 DEF WholeSuite, Tally
-----------------------------------------------------------------------------
(* The page. *)

\* A suite is among those that are done, and whole.
WholeIn(done, s) ==
  suites[s].key \in DOMAIN done /\ WholeSuite(done[suites[s].key], suites[s], DueOf(s))

\* While the page runs it keeps all that its workers have done, and the suites
\* it is done with are whole.  What it reports is an error or is whole, and
\* then no worker is left that could change what is due.
PageKept ==
  /\ page \in {"blank", "running"} => payload = <<>>
  /\ page = "running" => (\A w \in Workers : Kept(w)) /\ \A s \in 1..(now - 1) : WholeIn(out, s)
  /\ payload # <<>> => payload.error \in BOOLEAN
  /\ payload # <<>> /\ ~payload.error =>
       /\ \A s \in DOMAIN suites : WholeIn(payload.out, s)
       /\ Alive => \A w \in Workers : worker[w] = "terminated"

\* The driver returns what was reported.
DriverKept ==
  /\ report = "resolved" => payload # <<>>
  /\ driver = "returned" => payload # <<>> /\ ~payload.error

(* What is due of a suite is a matter of its verdicts. *)
LEMMA DueOfStays ==
  ASSUME config' = config, NEW s, verdict'[s] = verdict[s]
  PROVE  DueOf(s)' = DueOf(s) /\ suites' = suites
BY DEF DueOf, Due, suites

(* New workers have done nothing, and the page keeps it. *)
LEMMA HiredKept ==
  ASSUME HarnessTyped, NEW s \in 1..Len(suites), StartSuite(s), UNCHANGED <<config, verdict>>
  PROVE  \A w \in Workers : Kept(w)'
<1>1. config \in Configs
  BY DEF HarnessTyped
<1>2. PICK p \in Nat : p = Pool /\ p > 0
  BY <1>1, ConfigTyped
<1>3. Workers = 1..p /\ Pool' = Pool /\ suites' = suites /\ now' = s
  BY <1>2 DEF Workers, Pool, suites, StartSuite, Hired
<1>4. PICK n \in Nat : Census' = 1..n
  <2>1. suites \in Seq(SuiteRecord) /\ s \in 1..Len(suites)
    BY <1>1, ConfigTyped
  <2>2. suites[s] \in SuiteRecord
    BY <2>1
  <2>3. suites[s].cases \in Seq(CaseRecord)
    BY <2>2 DEF SuiteRecord
  <2>4. Census' = 1..Len(suites[s].cases) /\ Len(suites[s].cases) \in Nat
    BY <1>3, <2>3 DEF Census, Suite
  <2> QED BY <2>4
<1>5. SUFFICES ASSUME NEW w \in Workers PROVE Kept(w)'
  OBVIOUS
<1>6. /\ worker'[w] = "new" /\ at'[w] = w /\ counts'[w] = Zero /\ channel'[w] = <<>>
      /\ received'[w] = <<>> /\ DOMAIN finished' = {}
  BY DEF StartSuite, Hired
<1>7. Done(w)' = {}
  <2>1. ASSUME NEW i \in Census', i % Pool' = w % Pool', i < at'[w]
        PROVE  FALSE
    <3>1. w \in 1..p /\ i \in Nat /\ i # 0 /\ i % p = w % p /\ i < w
      BY <1>2, <1>3, <1>4, <1>6, <2>1
    <3> QED BY <1>2, <3>1, FirstOfStripe
  <2> QED BY <2>1 DEF Done, Stripe
<1>8. Sent(w)' = <<>>
  <2>1. <<>> \o <<>> = <<>>
    OBVIOUS
  <2> QED BY <1>6, <2>1 DEF Sent
<1>9. Ledger(Sent(w), Done(w), DueNow)'
  BY <1>7, <1>8 DEF Ledger
<1>10. Tally(counts[w], Done(w), DueNow, Suite.cases)'
  <2>1. \A c \in Counted : counts'[w][c] = 0
    BY <1>6 DEF Zero
  <2>2. Cardinality({}) = 0
    BY FS_EmptySet
  <2>3. /\ \A c : {i \in Done(w)' : DueNow'[i] = c} = {}
        /\ {i \in Done(w)' : Suite'.cases[i].selected} = {}
    BY <1>7
  <2> QED BY <1>7, <2>1, <2>2, <2>3 DEF Tally, Counted
<1>11. Runnable(w)' /\ Closing(w)'
  BY <1>6 DEF Runnable, Closing
<1> QED BY <1>6, <1>7, <1>9, <1>10, <1>11 DEF Kept

(* A worker that is terminated does nothing. *)
LEMMA NoWork ==
  ASSUME NEW w \in Workers, HarnessNext(w)
  PROVE  worker[w] # "terminated"
BY DEF HarnessNext, Boot, Drift, Exclude, Deselect, Relocate, EndCase, TimeOut, Late, Escape, EndLoop, AtCase

(* A report is not changed while no suite's verdicts are. *)
LEMMA ReportStays ==
  ASSUME PageKept, payload # <<>>, UNCHANGED <<config, payload>>,
         payload.error \/ (verdict' = verdict /\ (Alive' => Alive /\ worker' = worker)),
         page' \notin {"blank", "running"}
  PROVE  PageKept'
<1>1. CASE payload.error
  BY <1>1 DEF PageKept
<1>2. CASE ~payload.error /\ verdict' = verdict /\ (Alive' => Alive /\ worker' = worker)
  <2>1. suites' = suites /\ Workers' = Workers
    BY DEF suites, Workers, Pool
  <2>2. \A s \in DOMAIN suites : WholeIn(payload.out, s)'
    <3>1. \A s \in DOMAIN suites : DueOf(s)' = DueOf(s)
      BY <1>2, DueOfStays
    <3> QED BY <1>2, <2>1, <3>1 DEF PageKept, WholeIn
  <2>3. Alive' => \A w \in Workers : worker'[w] = "terminated"
    BY <1>2 DEF PageKept
  <2> QED BY <2>1, <2>2, <2>3 DEF PageKept
<1> QED BY <1>1, <1>2

(* The worker whose counts come, not the last one, is finished. *)
LEMMA TakeCountsKept ==
  ASSUME HarnessTyped, PageTyped, now \in 1..Len(suites), \A v \in Workers : Kept(v), NEW w \in Workers,
         channel[w] # <<>>, Head(channel[w]).kind = "counts", Terminate(w), UNCHANGED received,
         finished' = [v \in DOMAIN finished \union {w} |->
                        IF v = w THEN Head(channel[w]).counts ELSE finished[v]]
  PROVE  \A v \in Workers : Kept(v)'
<1>1. /\ UNCHANGED <<config, now, at, counts, verdict>>
      /\ worker' = [worker EXCEPT ![w] = "terminated"] /\ channel' = [channel EXCEPT ![w] = <<>>]
  BY DEF Terminate
<1>2. DueNow' = DueNow
  BY <1>1, DueStays
<1>3. \A v \in Workers \ {w} : /\ worker'[v] = worker[v] /\ channel'[v] = channel[v]
                               /\ v \in DOMAIN finished' <=> v \in DOMAIN finished
                               /\ v \in DOMAIN finished => finished'[v] = finished[v]
  BY <1>1 DEF HarnessTyped
<1>4. \A v \in Workers \ {w} : Kept(v)'
  BY <1>1, <1>2, <1>3, KeptStays
<1>5. /\ Complete(w, counts[w]) /\ Head(channel[w]).counts = counts[w]
      /\ at[w] \notin Census /\ Ledger(received[w], Done(w), DueNow)
  BY CountsComplete
<1>6. /\ worker'[w] = "terminated" /\ channel'[w] = <<>>
      /\ w \in DOMAIN finished' /\ finished'[w] = counts[w]
  BY <1>1, <1>5 DEF HarnessTyped
<1>7. Pool' = Pool /\ Suite' = Suite /\ Census' = Census
  BY <1>1 DEF Pool, Suite, suites, Census
<1>8. Done(w)' = Done(w)
  BY <1>1, <1>7 DEF Done, Stripe
<1>9. Sent(w)' = received[w]
  <2>1. received[w] \in Seq(EventRecord)
    BY DEF PageTyped
  <2> QED BY <1>6, <2>1, ConcatEmptySeq DEF Sent
<1>10. Ledger(Sent(w), Done(w), DueNow)'
  BY <1>2, <1>5, <1>8, <1>9
<1>11. /\ Tally(counts[w], Done(w), DueNow, Suite.cases)'
       /\ \A i \in Done(w)' :
            /\ Suite'.cases[i].tagged
            /\ Suite'.cases[i].applies /\ Suite'.cases[i].selected => i \in DOMAIN verdict'[now']
  BY <1>1, <1>2, <1>7, <1>8 DEF Kept
<1>12. Runnable(w)' /\ Closing(w)'
  BY <1>6 DEF Runnable, Closing
<1>13. Kept(w)'
  BY <1>1, <1>5, <1>6, <1>7, <1>10, <1>11, <1>12 DEF Kept
<1> QED BY <1>4, <1>13
(* A report is not empty. *)
LEMMA ReportNotEmpty ==
  /\ Error # <<>> /\ Error.error = TRUE
  /\ \A o : [error |-> FALSE, out |-> o] # <<>>
<1>1. "error" \in DOMAIN Error
  BY DEF Error
<1>2. \A o : "error" \in DOMAIN [error |-> FALSE, out |-> o]
  OBVIOUS
<1>3. DOMAIN <<>> = {}
  OBVIOUS
<1> HIDE DEF Error
<1>4. Error # <<>>
  BY <1>1, <1>3
<1>5. ASSUME NEW o
      PROVE  [error |-> FALSE, out |-> o] # <<>>
  <2> DEFINE r == [error |-> FALSE, out |-> o]
  <2>1. "error" \in DOMAIN r
    BY <1>2
  <2> HIDE DEF r
  <2>2. r # <<>>
    BY <1>3, <2>1
  <2> QED BY <2>2 DEF r
<1> QED BY <1>4, <1>5 DEF Error

(* A page that has reported only goes on with workers that are left when it
   reported an error. *)
LEMMA ReportedKept ==
  ASSUME PageKept, page = "reported", page' = "reported", UNCHANGED <<config, payload>>,
         NEW w \in Workers, worker[w] # "terminated"
  PROVE  PageKept'
<1>1. CASE payload = <<>>
  BY <1>1 DEF PageKept
<1>2. CASE payload # <<>>
  <2>1. payload.error
    BY <1>2 DEF PageKept, Alive
  <2> QED BY <1>2, <2>1, ReportStays
<1> QED BY <1>1, <1>2

(* A suite whose counts have all come joins those that are done, or the
   report is an error. *)
LEMMA EndSuiteWhole ==
  ASSUME HarnessTyped, PageTyped, now \in 1..Len(suites), PageKept, page = "running", NEW parts,
         \A v \in Workers : Complete(v, parts[v]), EndSuite(MergeCounts(parts))
  PROVE  /\ page' = "running" =>
              now # Len(suites) /\ payload' = <<>> /\ \A s \in 1..now : WholeIn(out', s)
         /\ page' # "running" =>
              /\ page' = "reported" /\ payload' # <<>> /\ payload'.error \in BOOLEAN
              /\ ~payload'.error => \A s \in DOMAIN suites : WholeIn(payload'.out, s)
<1>1. config \in Configs /\ Len(suites) \in Nat /\ DOMAIN suites = 1..Len(suites)
  BY ConfigTyped DEF HarnessTyped
<1>2. payload = <<>> /\ \A s \in 1..(now - 1) : WholeIn(out, s)
  BY DEF PageKept
<1>3. CASE Suite.only /\ MergeCounts(parts)["selected"] = 0
  <2>1. page' = "reported" /\ payload' = Error
    BY <1>3 DEF EndSuite, Report
  <2> QED BY <2>1, ReportNotEmpty
<1>4. CASE ~(Suite.only /\ MergeCounts(parts)["selected"] = 0)
  <2> DEFINE new == [lines |-> Lines, counts |-> MergeCounts(parts)]
  <2>1. WholeSuite(new, Suite, DueNow)
    BY <1>4, SuiteWhole
  <2> HIDE DEF new
  <2>2. /\ out' = [k \in DOMAIN out \union {Suite.key} |-> IF k = Suite.key THEN new ELSE out[k]]
        /\ IF now = Len(suites) THEN Report(Whole) ELSE UNCHANGED <<page, payload>>
    BY <1>4 DEF EndSuite, new
  <2>3. DueNow = DueOf(now) /\ Suite = suites[now]
    BY DEF DueNow, DueOf, Census, Suite
  <2>4. WholeIn(out', now)
    BY <2>1, <2>2, <2>3 DEF WholeIn
  <2>5. ASSUME NEW s \in 1..(now - 1)
        PROVE  WholeIn(out', s)
    <3>1. suites[s].key # Suite.key
      <4>1. s \in DOMAIN suites /\ now \in DOMAIN suites /\ s # now
        BY <1>1, <2>5
      <4> QED BY <1>1, <4>1, HarnessAssumption DEF suites, Suite
    <3> QED BY <1>2, <2>2, <3>1 DEF WholeIn
  <2>6. \A s \in 1..now : WholeIn(out', s)
    <3>1. \A s \in 1..now : s = now \/ s \in 1..(now - 1)
      OBVIOUS
    <3> QED BY <2>4, <2>5, <3>1
  <2>7. CASE now = Len(suites)
    <3>1. page' = "reported" /\ payload' = [error |-> FALSE, out |-> out']
      BY <2>2, <2>7 DEF Report, Whole
    <3>2. payload' # <<>> /\ payload'.error = FALSE /\ payload'.out = out'
      BY <3>1, ReportNotEmpty
    <3> QED BY <1>1, <2>6, <2>7, <3>1, <3>2
  <2>8. CASE now # Len(suites)
    BY <1>2, <2>2, <2>6, <2>8
  <2> QED BY <2>7, <2>8
<1> QED BY <1>3, <1>4
(* The last counts of a suite end it: the next one is started, or what is
   whole, or an error, is reported. *)
LEMMA LastCountsKept ==
  ASSUME HarnessTyped, PageTyped, now \in 1..Len(suites), PageKept, page = "running",
         NEW w \in Workers, NEW parts, DOMAIN finished \union {w} = Workers,
         \A v \in Workers : Complete(v, parts[v]), EndSuite(MergeCounts(parts)),
         IF page' = "running"
         THEN StartSuite(now + 1) /\ UNCHANGED <<config, verdict>>
         ELSE Terminate(w) /\ finished' = parts /\ UNCHANGED <<received, quiet>>
  PROVE  PageKept'
<1>1. /\ page' = "running" =>
           now # Len(suites) /\ payload' = <<>> /\ \A s \in 1..now : WholeIn(out', s)
      /\ page' # "running" =>
           /\ page' = "reported" /\ payload' # <<>> /\ payload'.error \in BOOLEAN
           /\ ~payload'.error => \A s \in DOMAIN suites : WholeIn(payload'.out, s)
  BY EndSuiteWhole
<1>2. UNCHANGED <<config, verdict>>
  BY DEF Terminate
<1>3. suites' = suites /\ Workers' = Workers /\ \A s : DueOf(s)' = DueOf(s)
  BY <1>2, DueOfStays DEF suites, Workers, Pool
<1>4. CASE page' = "running"
  <2>1. StartSuite(now + 1) /\ now + 1 \in 1..Len(suites)
    <3>1. Len(suites) \in Nat
      BY ConfigTyped DEF HarnessTyped
    <3> QED BY <1>1, <1>4, <3>1
  <2>2. \A v \in Workers : Kept(v)'
    BY <1>2, <2>1, HiredKept
  <2>3. \A s \in 1..(now' - 1) : WholeIn(out, s)'
    <3>1. now' - 1 = now
      BY <2>1 DEF StartSuite, Hired
    <3>2. \A s \in 1..now : WholeIn(out', s)
      BY <1>1, <1>4
    <3>3. \A s \in 1..(now' - 1) : WholeIn(out', s)
      BY <3>1, <3>2
    <3> QED BY <1>3, <3>3 DEF WholeIn
  <2> QED BY <1>1, <1>3, <1>4, <2>2, <2>3 DEF PageKept
<1>5. CASE page' # "running"
  <2>1. page' = "reported" /\ payload' # <<>> /\ payload'.error \in BOOLEAN
    BY <1>1, <1>5
  <2>2. ~payload'.error => \A s \in DOMAIN suites : WholeIn(payload.out, s)'
    <3>1. ~payload'.error => \A s \in DOMAIN suites : WholeIn(payload'.out, s)
      BY <1>1, <1>5
    <3> QED BY <1>3, <3>1 DEF WholeIn
  <2>3. \A v \in Workers : worker'[v] = "terminated"
    <3>1. \A v \in DOMAIN finished \intersect Workers : worker[v] = "terminated"
      BY DEF PageKept, Kept
    <3>2. worker' = [worker EXCEPT ![w] = "terminated"]
      BY <1>5 DEF Terminate
    <3> QED BY <3>1, <3>2 DEF HarnessTyped
  <2> QED BY <1>3, <2>1, <2>2, <2>3 DEF PageKept
<1> QED BY <1>4, <1>5

(* A step of the page keeps what it has and what it has reported. *)
LEMMA PoolKept ==
  ASSUME HarnessTyped, PageTyped, PageKept, PoolNext
  PROVE  PageKept'
<1>1. Len(suites) \in Nat /\ Len(suites) > 0 /\ now \in 0..Len(suites) /\ config \in Configs
  BY ConfigTyped DEF HarnessTyped
<1>2. CASE StartPage
  <2>1. 1 \in 1..Len(suites)
    BY <1>1
  <2>2. StartSuite(1) /\ UNCHANGED <<config, verdict, payload>> /\ page = "blank" /\ page' = "running"
    BY <1>2 DEF StartPage
  <2>3. \A w \in Workers : Kept(w)'
    BY <2>1, <2>2, HiredKept
  <2>4. Workers' = Workers /\ now' = 1 /\ payload' = <<>>
    BY <2>2 DEF Workers, Pool, StartSuite, Hired, PageKept
  <2>5. 1..(now' - 1) = {}
    BY <2>4
  <2> QED BY <2>2, <2>3, <2>4, <2>5 DEF PageKept
<1>3. ASSUME Alive
      PROVE  /\ now \in 1..Len(suites) /\ page \in {"running", "reported"}
             /\ page = "running" =>
                  payload = <<>> /\ (\A v \in Workers : Kept(v)) /\ \A s \in 1..(now - 1) : WholeIn(out, s)
  BY <1>1, <1>3 DEF Alive, PageTyped, PageKept
<1>4. ASSUME page = "running", UNCHANGED <<config, now, page, out, payload>>, \A v \in Workers : Kept(v)',
             \A s \in DOMAIN suites : s # now => verdict'[s] = verdict[s]
      PROVE  PageKept'
  <2>1. Workers' = Workers /\ suites' = suites
    BY <1>4 DEF Workers, Pool, suites
  <2>2. ASSUME NEW s \in 1..(now - 1)
        PROVE  WholeIn(out, s)'
    <3>1. s \in DOMAIN suites /\ s # now
      BY <1>1, ConfigTyped
    <3>2. DueOf(s)' = DueOf(s)
      BY <1>4, <3>1, DueOfStays
    <3>3. WholeIn(out, s)
      BY <1>4 DEF PageKept
    <3> QED BY <1>4, <2>1, <3>2, <3>3 DEF WholeIn
  <2> QED BY <1>4, <2>1, <2>2 DEF PageKept
<1>5. ASSUME NEW w \in Workers, Work(w)
      PROVE  PageKept'
  <2>1. Alive /\ HarnessNext(w) /\ UNCHANGED <<page, rows, received, finished, out, payload, quiet>>
    BY <1>5 DEF Work, pvars
  <2>2. config' = config /\ now' = now
    BY <2>1 DEF HarnessNext, Boot, Drift, Exclude, Deselect, Relocate, EndCase, TimeOut, Decide,
                Late, Escape, EndLoop, Break
  <2>3. CASE page = "running"
    <3>1. /\ \A v \in Workers : Kept(v)'
          /\ \A s \in DOMAIN suites : s # now => verdict'[s] = verdict[s]
      BY <1>3, <2>1, <2>3, WorkKept
    <3> QED BY <1>4, <2>1, <2>2, <2>3, <3>1
  <2>4. CASE page = "reported"
    BY <2>1, <2>2, <2>4, NoWork, ReportedKept
  <2> QED BY <1>3, <2>1, <2>3, <2>4
<1>6. ASSUME NEW w \in Workers, TakeEvent(w)
      PROVE  PageKept'
  <2>1. /\ Alive /\ worker[w] # "terminated"
        /\ UNCHANGED <<config, now, verdict, page, out, payload>>
    BY <1>6 DEF TakeEvent, Receives
  <2>2. CASE page = "running"
    <3>1. \A v \in Workers : Kept(v)'
      BY <1>3, <1>6, <2>1, <2>2, TakeEventKept
    <3> QED BY <1>4, <2>1, <2>2, <3>1
  <2>3. CASE page = "reported"
    BY <2>1, <2>3, ReportedKept
  <2> QED BY <1>3, <2>1, <2>2, <2>3
<1>7. ASSUME NEW w \in Workers, TakeError(w)
      PROVE  PageKept'
  <2>1. /\ Alive /\ worker[w] # "terminated" /\ config' = config
        /\ IF page = "running" THEN Report(Error) ELSE UNCHANGED <<page, payload>>
    BY <1>7 DEF TakeError, Receives, Terminate
  <2>2. CASE page = "running"
    BY <2>1, <2>2, ReportNotEmpty DEF Report, PageKept
  <2>3. CASE page = "reported"
    BY <2>1, <2>3, ReportedKept
  <2> QED BY <1>3, <2>1, <2>2, <2>3
<1>8. ASSUME NEW w \in Workers, TakeCounts(w)
      PROVE  PageKept'
  <2> DEFINE parts == [v \in DOMAIN finished \union {w} |->
                         IF v = w THEN Head(channel[w]).counts ELSE finished[v]]
  <2>1. /\ Alive /\ worker[w] # "terminated" /\ channel[w] # <<>> /\ Head(channel[w]).kind = "counts"
        /\ IF page = "running" /\ DOMAIN parts = Workers
           THEN /\ EndSuite(MergeCounts(parts))
                /\ IF page' = "running"
                   THEN StartSuite(now + 1) /\ UNCHANGED <<config, verdict>>
                   ELSE Terminate(w) /\ finished' = parts /\ UNCHANGED <<received, quiet>>
           ELSE Terminate(w) /\ finished' = parts /\ UNCHANGED <<page, received, out, payload, quiet>>
    BY <1>8 DEF TakeCounts, Receives
  <2>2. DOMAIN parts = DOMAIN finished \union {w}
    OBVIOUS
  <2>3. CASE page = "running" /\ DOMAIN parts = Workers
    <3>1. \A v \in Workers : Complete(v, parts[v])
      <4>1. ASSUME NEW v \in Workers
            PROVE  Complete(v, parts[v])
        <5>1. CASE v = w
          BY <1>3, <2>1, <2>3, <5>1, CountsComplete
        <5>2. CASE v # w
          <6>1. v \in DOMAIN finished /\ parts[v] = finished[v] /\ Kept(v)
            BY <1>3, <2>1, <2>3, <5>2
          <6> HIDE DEF parts
          <6> QED BY <1>3, <2>1, <6>1, FinishedComplete
        <5> QED BY <5>1, <5>2
      <4> QED BY <4>1
    <3> HIDE DEF parts
    <3> QED BY <1>3, <2>1, <2>2, <2>3, <3>1, LastCountsKept
  <2>4. CASE page = "running" /\ DOMAIN parts # Workers
    <3>1. /\ Terminate(w) /\ UNCHANGED <<config, now, verdict, page, received, out, payload>>
          /\ finished' = parts
      BY <2>1, <2>4 DEF Terminate
    <3>2. \A v \in Workers : Kept(v)'
      BY <1>3, <2>1, <2>4, <3>1, TakeCountsKept
    <3> QED BY <1>4, <2>4, <3>1, <3>2
  <2>5. CASE page = "reported"
    <3>1. config' = config /\ payload' = payload /\ page' = page
      BY <2>1, <2>5 DEF Terminate
    <3> QED BY <2>1, <2>5, <3>1, ReportedKept
  <2> QED BY <1>3, <2>1, <2>3, <2>4, <2>5
<1> QED BY <1>2, <1>5, <1>6, <1>7, <1>8 DEF PoolNext
-----------------------------------------------------------------------------
(* The driver and the page. *)

(* What the driver does leaves the page what it has, or closes it. *)
LEMMA PageLeft ==
  ASSUME PageKept, UNCHANGED hvars, UNCHANGED <<rows, received, finished, out, payload>>, page' \in {page, "gone"}
  PROVE  PageKept'
<1>1. /\ UNCHANGED <<config, now, worker, at, counts, channel, verdict, received, finished, out, payload>>
      /\ suites' = suites /\ Workers' = Workers
  BY DEF hvars, suites, Workers, Pool
<1>2. ASSUME page = "running"
      PROVE  \A w \in Workers : Kept(w)'
  <2>1. DueNow' = DueNow
    BY <1>1, DueStays
  <2>2. \A w \in Workers : Kept(w)
    BY <1>2 DEF PageKept
  <2> QED BY <1>1, <2>1, <2>2, KeptStays
<1>3. ASSUME NEW done, NEW s, WholeIn(done, s), done' = done
      PROVE  WholeIn(done, s)'
  BY <1>1, <1>3, DueOfStays DEF WholeIn
<1>4. ASSUME page = "running", NEW s \in 1..(now - 1)
      PROVE  WholeIn(out, s)'
  BY <1>1, <1>3, <1>4, DueOfStays DEF PageKept, WholeIn
<1>5. ASSUME payload # <<>>, ~payload.error, NEW s \in DOMAIN suites
      PROVE  WholeIn(payload.out, s)'
  BY <1>1, <1>5, DueOfStays DEF PageKept, WholeIn
<1> QED BY <1>1, <1>2, <1>4, <1>5 DEF PageKept, Alive

(* A step of the page leaves the driver what was reported: only a page that
   runs, and has reported nothing, reports. *)
LEMMA DriverLeft ==
  ASSUME PageKept, DriverKept, PoolNext, UNCHANGED dvars
  PROVE  DriverKept'
<1>1. payload # <<>> => payload' = payload
  <2>1. payload # <<>> => page # "running"
    BY DEF PageKept
  <2>2. page # "running" => payload' = payload
    BY DEF PoolNext, StartPage, Work, pvars, TakeEvent, TakeError, TakeCounts
  <2> QED BY <2>1, <2>2
<1> QED BY <1>1 DEF DriverKept, dvars

(* The driver returns only what it has heard. *)
LEMMA DriverStep ==
  ASSUME PageKept, DriverKept,
         \/ Crash \/ PageError \/ Hear \/ Silence \/ Stall \/ Loaded \/ LoadFails \/ Settle \/ Answered
         \/ UNCHANGED vars
  PROVE  PageKept' /\ DriverKept'
<1>1. /\ UNCHANGED hvars /\ UNCHANGED <<rows, received, finished, out, payload>>
      /\ page' \in {page, "gone"}
  BY DEF Crash, PageError, Hear, Silence, Stall, Loaded, LoadFails, Settle, Answered, Close, PageEnds,
         pvars, hvars, vars
<1>2. report' = "resolved" => report = "resolved" \/ payload # <<>>
  BY DEF Crash, PageError, Hear, Silence, Stall, Loaded, LoadFails, Settle, Answered, Reject, dvars, vars
<1>3. driver' = "returned" => driver = "returned" \/ (report = "resolved" /\ ~payload.error)
  BY DEF Crash, PageError, Hear, Silence, Stall, Loaded, LoadFails, Settle, Answered, Reject, dvars, vars
<1> QED BY <1>1, <1>2, <1>3, PageLeft DEF DriverKept

(* A page that has not begun keeps nothing. *)
LEMMA KeptInit == Init => PageKept /\ DriverKept
BY DEF Init, PoolInit, PageKept, DriverKept

(* What the driver has returned is whole. *)
LEMMA KeptIsWhole == PageKept /\ DriverKept => ReturnedIsWhole
<1>1. ASSUME NEW s \in DOMAIN suites, WholeIn(payload.out, s)
      PROVE  LET cases == suites[s].cases
                 done == payload.out[suites[s].key] IN
             /\ suites[s].key \in DOMAIN payload.out
             /\ \A i \in DOMAIN cases : cases[i].tagged
             /\ done.lines = [i \in DOMAIN cases |-> [case |-> i, status |-> Due(s, i)]]
             /\ \A c \in Statuses :
                  done.counts[c] = Cardinality({i \in DOMAIN cases : Due(s, i) = c})
             /\ done.counts["total"] = Len(cases)
             /\ suites[s].only => \E i \in DOMAIN cases : cases[i].selected
  <2>1. \A i \in DOMAIN suites[s].cases : DueOf(s)[i] = Due(s, i)
    BY DEF DueOf
  <2>2. \A c : {i \in DOMAIN suites[s].cases : DueOf(s)[i] = c}
                 = {i \in DOMAIN suites[s].cases : Due(s, i) = c}
    BY <2>1
  <2>3. [i \in DOMAIN suites[s].cases |-> [case |-> i, status |-> DueOf(s)[i]]]
          = [i \in DOMAIN suites[s].cases |-> [case |-> i, status |-> Due(s, i)]]
    BY <2>1
  <2> QED BY <1>1, <2>2, <2>3 DEF WholeIn, WholeSuite
<1>2. ASSUME PageKept, DriverKept, driver = "returned"
      PROVE  \A s \in DOMAIN suites : WholeIn(payload.out, s)
  BY <1>2 DEF PageKept, DriverKept
<1> QED BY <1>1, <1>2 DEF ReturnedIsWhole

(* Every step keeps what the page has and what was reported of it. *)
LEMMA KeptStep ==
  ASSUME Typed, PageKept, DriverKept, [Next]_vars
  PROVE  PageKept' /\ DriverKept'
<1>1. CASE PoolNext /\ UNCHANGED dvars
  BY <1>1, PoolKept, DriverLeft DEF Typed
<1>2. CASE Crash \/ PageError \/ Hear \/ Silence \/ Stall \/ Loaded \/ LoadFails \/ Settle \/ Answered
           \/ UNCHANGED vars
  BY <1>2, DriverStep
<1> QED BY <1>1, <1>2 DEF Next

(* Whatever crashes, stalls, is late or escapes, on any number of workers and
   for any suites: what the driver returns has for every suite an event of
   each case, in census order, with what first came of it, and counts that
   agree. *)
THEOREM ReturnedIsWholeCorrect == Spec => []ReturnedIsWhole
<1>1. Spec => [](Typed /\ PageKept /\ DriverKept)
  <2>1. Init => Typed /\ PageKept /\ DriverKept
    BY TypedInit, KeptInit
  <2>2. Typed /\ PageKept /\ DriverKept /\ [Next]_vars => (Typed /\ PageKept /\ DriverKept)'
    BY TypedStep, KeptStep
  <2> QED BY <2>1, <2>2, PTL DEF Spec
<1> QED BY <1>1, KeptIsWhole, PTL
=============================================================================
