------------------------ MODULE ComposedRunnerProofs ------------------------
(***************************************************************************)
(* Theorems about ComposedRunner, for every number of cases and messages.  *)
(***************************************************************************)
EXTENDS ComposedRunner, TLAPS

-----------------------------------------------------------------------------
(***************************************************************************)
(* The inductive invariant.                                                *)
(***************************************************************************)

Live == {"racing", "draining", "reporting"}

\* How far the run is, the case at hand and what is printed go together.
Progress ==
  /\ phase \in {"start", "enumerating"} => events = <<>>
  /\ phase \in Live \union {"next"} => at = Len(events) + 1
  /\ phase \in Live => at \in Census
  /\ Len(told) = Len(events)
  /\ \A k \in DOMAIN events : events[k].case = k
  /\ phase \in {"start", "enumerating", "next"} => case = "idle"
  /\ phase \in {"draining", "reporting"} => case \in Outcomes

\* A call that waits holds the writer, and its message is newer than all that
\* were read; no other call waits; messages are reported in order.
Channel ==
  /\ writing # 0 => ~slot
  /\ writing # 0 /\ ~copied =>
       /\ fate[writing] = "waiting"
       /\ \A m \in Messages : fate[m] = "read" => m < writing
  /\ copied => writing # 0
  /\ \A m \in Messages : fate[m] = "waiting" => m = writing /\ ~copied
  /\ \A j, k \in Messages : j < k /\ fate[k] # "unsaid" => fate[j] # "unsaid"

\* What was read is with the runner core, in order: in its list, or the one
\* message it has not taken yet.
Heard ==
  /\ \A m \in Messages : fate[m] = "read" <=> m = buffer \/ \E k \in DOMAIN diags : diags[k] = m
  /\ \A j, k \in DOMAIN diags : j < k => diags[j] < diags[k]
  /\ buffer # 0 => \A k \in DOMAIN diags : diags[k] < buffer

\* While the case runs, a writer is in its place or held by a call.
Writable == phase = "racing" => ~closed /\ (slot \/ writing # 0 \/ GivesUp)

Inv ==
  /\ TypeOK
  /\ Progress
  /\ Channel
  /\ phase \in Live => Heard
  /\ phase = "reporting" => buffer = 0 /\ writing = 0
  /\ Writable
  /\ NothingReadIsLost
  /\ OneAtATimeIsHeard

-----------------------------------------------------------------------------
\* An element appended to a sequence is its last, and the others stay.
LEMMA AppendFacts ==
  ASSUME NEW S, NEW s \in Seq(S), NEW e \in S
  PROVE  /\ Append(s, e) \in Seq(S)
         /\ Len(Append(s, e)) = Len(s) + 1
         /\ DOMAIN Append(s, e) = 1..(Len(s) + 1)
         /\ DOMAIN s = 1..Len(s)
         /\ Len(s) \in Nat
         /\ \A k \in 1..Len(s) : Append(s, e)[k] = s[k]
         /\ Append(s, e)[Len(s) + 1] = e
OBVIOUS

LEMMA InvInit == Init => Inv
<1> SUFFICES ASSUME Init PROVE Inv
  OBVIOUS
<1>1. TypeOK
  <2>1. ProviderTypeOK
    BY DEF Init, NoPair, ProviderTypeOK, MessageFates
  <2>2. \A S : <<>> \in Seq(S)
    OBVIOUS
  <2>3. diags \in Seq(Messages) /\ events \in Seq(Event) /\ told \in Seq(Told)
    BY <2>2 DEF Init
  <2> QED
    BY <2>1, <2>3, ComposedAssumption DEF Init, TypeOK
<1>2. Progress /\ Channel /\ Writable
  BY DEF Init, NoPair, Progress, Channel, Writable, Live
<1>3. NothingReadIsLost /\ OneAtATimeIsHeard
  BY DEF Init, NoPair, NothingReadIsLost, OneAtATimeIsHeard
<1> QED
  BY <1>1, <1>2, <1>3 DEF Inv, Init, Live
-----------------------------------------------------------------------------
(***************************************************************************)
(* Types.                                                                  *)
(***************************************************************************)

LEMMA EventType ==
  ASSUME TypeOK, at \in Census, case \in Outcomes
  PROVE  /\ [case |-> at, status |-> StatusOf(case), diags |-> diags] \in Event
         /\ [outcome |-> case, fate |-> fate] \in Told
BY DEF TypeOK, ProviderTypeOK, Event, Told, StatusOf, Outcomes

\* The provider's own steps keep its types.
LEMMA ProviderType ==
  ASSUME ProviderTypeOK,
         Diagnostic \/ Resume \/ GiveUp \/ StartRead \/ TakeMessage \/ TakeEnd \/ NewPair
  PROVE  ProviderTypeOK'
<1> USE DEF ProviderTypeOK, MessageFates
<1>1. CASE Diagnostic
  BY <1>1 DEF Diagnostic, DropMessage, MeetRead, AwaitRead, stream
<1>2. CASE Resume \/ GiveUp
  BY <1>2 DEF Resume, GiveUp, history
<1>3. CASE StartRead
  BY <1>3 DEF StartRead
<1>4. CASE TakeMessage \/ TakeEnd \/ NewPair
  BY <1>4 DEF TakeMessage, TakeEnd, NewPair, history
<1> QED
  BY <1>1, <1>2, <1>3, <1>4

LEMMA TypeNext == TypeOK /\ Progress /\ [Next]_vars => TypeOK'
<1> SUFFICES ASSUME TypeOK, Progress, [Next]_vars PROVE TypeOK'
  OBVIOUS
<1>1. CASE PrintEnvelope \/ Enumerate \/ DrainEnds \/ PrintTerminator \/ Trap
  BY <1>1, ComposedAssumption
  DEF PrintEnvelope, Enumerate, DrainEnds, PrintTerminator, Trap, Verdict, Final,
      TypeOK, ProviderTypeOK, stream, history
<1>2. CASE BeginCase
  <2>1. <<>> \in Seq(Messages)
    OBVIOUS
  <2> QED
    BY <1>2, <2>1, ProviderType DEF BeginCase, TypeOK
<1>3. CASE ReadStream \/ TakeStreamEnd
  BY <1>3, ProviderType DEF ReadStream, TakeStreamEnd, run, TypeOK
<1>4. CASE TakeDiagnostic
  <2>1. buffer \in Messages
    BY <1>4 DEF TakeDiagnostic, TakeMessage, TypeOK, ProviderTypeOK
  <2>2. Append(diags, buffer) \in Seq(Messages)
    BY <2>1, AppendFacts DEF TypeOK
  <2> QED
    BY <1>4, <2>2, ProviderType DEF TakeDiagnostic, TypeOK
<1>5. CASE TakeVerdict
  BY <1>5 DEF TakeVerdict, DropContext, TypeOK, ProviderTypeOK, history
<1>6. CASE ReportCase
  <2> DEFINE e == [case |-> at, status |-> StatusOf(case), diags |-> diags]
             t == [outcome |-> case, fate |-> fate]
  <2>1. at \in Census /\ case \in Outcomes
    BY <1>6 DEF ReportCase, Progress, Live
  <2>2. e \in Event /\ t \in Told
    BY <2>1, EventType
  <2>3. Append(events, e) \in Seq(Event) /\ Append(told, t) \in Seq(Told)
    BY <2>2, AppendFacts DEF TypeOK
  <2>4. events' = Append(events, e) /\ told' = Append(told, t)
    BY <1>6 DEF ReportCase
  <2>5. at + 1 \in 0..(N + 1)
    BY <2>1, ComposedAssumption DEF Census
  <2> HIDE DEF e, t
  <2>6. events' \in Seq(Event) /\ told' \in Seq(Told)
    BY <2>3, <2>4
  <2> QED
    BY <1>6, <2>5, <2>6 DEF ReportCase, TypeOK, ProviderTypeOK, stream, history
<1>7. CASE Report \/ AbandonReport \/ ResumeReport
  BY <1>7, ProviderType DEF Report, AbandonReport, ResumeReport, run, TypeOK
<1>8. CASE Return
  BY <1>8 DEF Return, TypeOK, ProviderTypeOK, stream, history
<1>9. CASE UNCHANGED vars
  BY <1>9 DEF vars, stream, history, run, TypeOK, ProviderTypeOK
<1> QED
  BY <1>1, <1>2, <1>3, <1>4, <1>5, <1>6, <1>7, <1>8, <1>9
  DEF Next, Runner, Case, Provider, Over

LEMMA ProgressNext == TypeOK /\ Progress /\ [Next]_vars => Progress'
<1> SUFFICES ASSUME TypeOK, Progress, [Next]_vars PROVE Progress'
  OBVIOUS
<1> USE DEF Progress, Live
<1>1. CASE PrintEnvelope \/ DrainEnds \/ Trap
  BY <1>1 DEF PrintEnvelope, DrainEnds, Trap
<1>2. CASE Enumerate \/ BeginCase
  BY <1>2 DEF Enumerate, BeginCase
<1>3. CASE PrintTerminator
  BY <1>3 DEF PrintTerminator, Verdict
<1>4. CASE ReadStream \/ TakeDiagnostic \/ TakeStreamEnd
  BY <1>4 DEF ReadStream, TakeDiagnostic, TakeStreamEnd, run, Outcomes
<1>5. CASE TakeVerdict
  BY <1>5 DEF TakeVerdict
<1>6. CASE ReportCase
  <2> DEFINE e == [case |-> at, status |-> StatusOf(case), diags |-> diags]
             t == [outcome |-> case, fate |-> fate]
  <2>1. e \in Event /\ t \in Told
    BY <1>6, EventType DEF ReportCase
  <2>2. events' = Append(events, e) /\ told' = Append(told, t) /\ e.case = at
    BY <1>6 DEF ReportCase
  <2> HIDE DEF e, t
  <2>3. /\ Len(events') = Len(events) + 1 /\ Len(told') = Len(told) + 1
        /\ Len(events) \in Nat
        /\ DOMAIN events' = 1..(Len(events) + 1) /\ DOMAIN events = 1..Len(events)
        /\ \A k \in 1..Len(events) : events'[k] = events[k]
        /\ events'[Len(events) + 1] = e
    BY <2>1, <2>2, AppendFacts DEF TypeOK
  <2>4. \A k \in DOMAIN events' : events'[k].case = k
    BY <1>6, <2>2, <2>3 DEF ReportCase
  <2> QED
    BY <1>6, <2>3, <2>4 DEF ReportCase
<1>7. CASE Report \/ AbandonReport \/ ResumeReport
  BY <1>7 DEF Report, AbandonReport, ResumeReport, run
<1>8. CASE Return
  BY <1>8 DEF Return, Outcomes
<1>9. CASE UNCHANGED vars
  BY <1>9 DEF vars, run
<1> QED
  BY <1>1, <1>2, <1>3, <1>4, <1>5, <1>6, <1>7, <1>8, <1>9
  DEF Next, Runner, Case, Provider, Over
-----------------------------------------------------------------------------
(***************************************************************************)
(* Channel, Heard and Writable.                                            *)
(***************************************************************************)

\* Each step of the run is one of the provider's or leaves the stream alone.
ProviderStep ==
  Diagnostic \/ Resume \/ GiveUp \/ StartRead \/ TakeMessage \/ TakeEnd \/ NewPair

LEMMA ChannelKept ==
  ASSUME ProviderTypeOK, Channel, ProviderStep
  PROVE  Channel'
<1> USE ComposedAssumption DEF ProviderTypeOK, Channel, Messages
<1>1. CASE Diagnostic
  <2>1. PICK m \in Messages :
          /\ fate[m] = "unsaid"
          /\ \A k \in 1..(m - 1) : fate[k] # "unsaid"
          /\ DropMessage(m) \/ MeetRead(m) \/ AwaitRead(m)
    BY <1>1 DEF Diagnostic
  <2>2. \A k \in Messages : fate[k] = "read" => k < m
    BY <2>1
  <2>3. CASE DropMessage(m)
    BY <2>1, <2>3 DEF DropMessage, stream
  <2>4. CASE MeetRead(m)
    BY <2>1, <2>4 DEF MeetRead
  <2>5. CASE AwaitRead(m)
    BY <2>1, <2>2, <2>5 DEF AwaitRead
  <2> QED
    BY <2>1, <2>3, <2>4, <2>5
<1>2. CASE Resume
  BY <1>2 DEF Resume, history
<1>3. CASE GiveUp
  BY <1>3 DEF GiveUp
<1>4. CASE StartRead
  BY <1>4 DEF StartRead
<1>5. CASE TakeMessage \/ TakeEnd \/ NewPair
  BY <1>5 DEF TakeMessage, TakeEnd, NewPair, history
<1> QED
  BY <1>1, <1>2, <1>3, <1>4, <1>5 DEF ProviderStep

\* Which step does what.
LEMMA Steps ==
  ASSUME Progress, [Next]_vars
  PROVE  \/ ProviderStep
         \/ TakeVerdict
         \/ UNCHANGED <<stream, history>>
BY DEF Next, Runner, Case, Provider, Over, vars, ProviderStep,
       PrintEnvelope, Enumerate, BeginCase, ReadStream, TakeDiagnostic, TakeStreamEnd, DrainEnds,
       ReportCase, PrintTerminator, Trap, Report, AbandonReport, ResumeReport, Return

LEMMA ChannelNext == TypeOK /\ Progress /\ Channel /\ [Next]_vars => Channel'
<1> SUFFICES ASSUME TypeOK, Progress, Channel, [Next]_vars PROVE Channel'
  OBVIOUS
<1>1. CASE ProviderStep
  BY <1>1, ChannelKept DEF TypeOK
<1>2. CASE TakeVerdict
  BY <1>2 DEF TakeVerdict, DropContext, history, Channel
<1>3. CASE UNCHANGED <<stream, history>>
  BY <1>3 DEF stream, history, Channel
<1> QED
  BY <1>1, <1>2, <1>3, Steps

\* What a case's messages have become is told by the steps that read one.
LEMMA HeardNext ==
  ASSUME TypeOK, Progress, Channel, phase \in Live => Heard,
         [Next]_vars
  PROVE  phase' \in Live => Heard'
<1> SUFFICES ASSUME phase' \in Live PROVE Heard'
  OBVIOUS
<1> USE DEF Live
<1>1. CASE PrintEnvelope \/ Enumerate \/ PrintTerminator \/ Trap \/ ReportCase
  BY <1>1 DEF PrintEnvelope, Enumerate, PrintTerminator, Trap, ReportCase, Verdict
<1>2. CASE BeginCase
  BY <1>2 DEF BeginCase, NewPair, Heard, Messages
<1>3. CASE ReadStream
  <2>1. Heard /\ StartRead /\ diags' = diags
    BY <1>3 DEF ReadStream
  <2>2. CASE writing # 0 /\ ~copied
    <3>1. writing \in Messages /\ buffer = 0 /\ buffer' = writing
          /\ fate' = [fate EXCEPT ![writing] = "read"] /\ fate[writing] = "waiting"
      BY <2>1, <2>2 DEF StartRead, TypeOK, ProviderTypeOK, Channel
    <3>2. \A k \in DOMAIN diags : diags[k] \in Messages
      BY DEF TypeOK
    <3>3. \A k \in DOMAIN diags : diags[k] < writing
      <4>1. \A k \in DOMAIN diags : fate[diags[k]] = "read"
        BY <2>1, <3>2 DEF Heard
      <4> QED
        BY <2>2, <3>2, <4>1 DEF Channel
    <3>4. \A m \in Messages :
            fate'[m] = "read" <=> m = buffer' \/ \E k \in DOMAIN diags' : diags'[k] = m
      BY <2>1, <3>1 DEF TypeOK, ProviderTypeOK, Heard, Messages
    <3> QED
      BY <2>1, <3>1, <3>3, <3>4 DEF Heard
  <2>3. CASE ~(writing # 0 /\ ~copied)
    BY <2>1, <2>3 DEF StartRead, Heard
  <2> QED
    BY <2>2, <2>3
<1>4. CASE TakeDiagnostic
  <2>1. /\ Heard /\ buffer \in Messages /\ buffer' = 0 /\ fate' = fate
        /\ diags' = Append(diags, buffer)
    BY <1>4 DEF TakeDiagnostic, TakeMessage, history, TypeOK, ProviderTypeOK
  <2>2. /\ DOMAIN diags' = 1..(Len(diags) + 1) /\ DOMAIN diags = 1..Len(diags)
        /\ Len(diags) \in Nat
        /\ \A k \in 1..Len(diags) : diags'[k] = diags[k]
        /\ diags'[Len(diags) + 1] = buffer
    BY <2>1, AppendFacts DEF TypeOK
  <2>3. \A m \in Messages :
          fate'[m] = "read" <=> m = buffer' \/ \E k \in DOMAIN diags' : diags'[k] = m
    BY <2>1, <2>2 DEF Heard, Messages
  <2>4. \A j, k \in DOMAIN diags' : j < k => diags'[j] < diags'[k]
    BY <2>1, <2>2 DEF Heard, Messages
  <2> QED
    BY <2>1, <2>3, <2>4 DEF Heard
<1>5. CASE TakeVerdict \/ DrainEnds \/ Return \/ TakeStreamEnd
  BY <1>5
  DEF TakeVerdict, DrainEnds, Return, TakeStreamEnd, TakeEnd, stream, history, run, Heard
<1>6. CASE Report
  <2>1. Heard /\ Diagnostic /\ UNCHANGED run
    BY <1>6 DEF Report, run
  <2>2. PICK m \in Messages :
          /\ fate[m] = "unsaid"
          /\ \A k \in 1..(m - 1) : fate[k] # "unsaid"
          /\ DropMessage(m) \/ MeetRead(m) \/ AwaitRead(m)
    BY <2>1 DEF Diagnostic
  <2>3. CASE DropMessage(m) \/ AwaitRead(m)
    BY <2>1, <2>2, <2>3
    DEF DropMessage, AwaitRead, stream, run, Heard, TypeOK, ProviderTypeOK
  <2>4. CASE MeetRead(m)
    <3>1. /\ buffer = 0 /\ buffer' = m /\ fate' = [fate EXCEPT ![m] = "read"]
          /\ diags' = diags
      BY <2>1, <2>4 DEF MeetRead, ReadWaits, run
    <3>2. \A k \in DOMAIN diags : diags[k] \in Messages
      BY DEF TypeOK
    <3>3. \A k \in DOMAIN diags : diags[k] < m
      <4>1. \A k \in DOMAIN diags : fate[diags[k]] = "read"
        BY <2>1, <3>2 DEF Heard
      <4> QED
        BY <2>2, <3>2, <4>1, ComposedAssumption DEF Channel, Messages
    <3>4. \A k \in Messages :
            fate'[k] = "read" <=> k = buffer' \/ \E j \in DOMAIN diags' : diags'[j] = k
      BY <2>1, <3>1 DEF TypeOK, ProviderTypeOK, Heard, Messages
    <3> QED
      BY <2>1, <3>1, <3>3, <3>4 DEF Heard
  <2> QED
    BY <2>2, <2>3, <2>4
<1>7. CASE AbandonReport
  <2>1. Heard /\ GiveUp /\ diags' = diags
    BY <1>7 DEF AbandonReport, run
  <2>2. \A m \in Messages : fate'[m] = "read" <=> fate[m] = "read"
    BY <2>1 DEF GiveUp, TypeOK, ProviderTypeOK, Channel
  <2> QED
    BY <2>1, <2>2 DEF GiveUp, Heard
<1>8. CASE ResumeReport
  BY <1>8 DEF ResumeReport, Resume, run, history, Heard
<1>9. CASE UNCHANGED vars
  BY <1>9 DEF vars, stream, history, run, Heard
<1> QED
  BY <1>1, <1>2, <1>3, <1>4, <1>5, <1>6, <1>7, <1>8, <1>9
  DEF Next, Runner, Case, Provider, Over

\* Nothing is read, nothing is left to take and no call waits once the stream
\* has ended.
LEMMA DrainedNext ==
  ASSUME TypeOK, Progress, phase = "reporting" => buffer = 0 /\ writing = 0, [Next]_vars
  PROVE  phase' = "reporting" => buffer' = 0 /\ writing' = 0
BY DEF Next, Runner, Case, Provider, Over, vars, stream, history, run, Progress, Outcomes,
       PrintEnvelope, Enumerate, BeginCase, ReadStream, TakeDiagnostic, TakeStreamEnd, TakeVerdict,
       DrainEnds, Ended, ReportCase, PrintTerminator, Verdict, Trap, Report, AbandonReport, ResumeReport,
       Resume, Return

LEMMA WritableNext ==
  ASSUME TypeOK, Progress, Channel, Writable, OneAtATimeIsHeard, [Next]_vars
  PROVE  Writable' /\ OneAtATimeIsHeard'
<1> USE DEF Live, Writable, OneAtATimeIsHeard
<1>1. CASE PrintEnvelope \/ Enumerate \/ PrintTerminator \/ Trap \/ ReportCase
  BY <1>1
  DEF PrintEnvelope, Enumerate, PrintTerminator, Trap, ReportCase, Verdict, history
<1>2. CASE BeginCase
  BY <1>2 DEF BeginCase, NewPair
<1>3. CASE ReadStream
  BY <1>3 DEF ReadStream, StartRead, TypeOK, ProviderTypeOK
<1>4. CASE TakeDiagnostic \/ TakeStreamEnd \/ DrainEnds \/ Return
  BY <1>4
  DEF TakeDiagnostic, TakeMessage, TakeStreamEnd, TakeEnd, DrainEnds, Return, stream, history, run
<1>5. CASE TakeVerdict
  BY <1>5 DEF TakeVerdict, history
<1>6. CASE phase \notin Final /\ Report
  <2>1. Diagnostic /\ phase' = phase /\ phase = "racing"
    BY <1>6 DEF Report, run, Progress, Outcomes, TypeOK
  <2>2. PICK m \in Messages : DropMessage(m) \/ MeetRead(m) \/ AwaitRead(m)
    BY <2>1 DEF Diagnostic
  <2>3. overlapped \in BOOLEAN /\ overlapped' = (overlapped \/ writing # 0)
    BY <2>1 DEF Diagnostic, TypeOK, ProviderTypeOK
  <2>4. CASE DropMessage(m)
    BY <2>1, <2>2, <2>3, <2>4 DEF DropMessage, stream, TypeOK, ProviderTypeOK
  <2>5. CASE MeetRead(m) \/ AwaitRead(m)
    BY <2>1, <2>2, <2>3, <2>5, ComposedAssumption
    DEF MeetRead, AwaitRead, TypeOK, ProviderTypeOK, Messages
  <2> QED
    BY <2>2, <2>4, <2>5
<1>7. CASE AbandonReport
  BY <1>7 DEF AbandonReport, GiveUp, run, TypeOK, ProviderTypeOK
<1>8. CASE ResumeReport
  BY <1>8 DEF ResumeReport, Resume, run, history
<1>9. CASE UNCHANGED vars
  BY <1>9 DEF vars, stream, history, run
<1> QED
  BY <1>1, <1>2, <1>3, <1>4, <1>5, <1>6, <1>7, <1>8, <1>9
  DEF Next, Runner, Case, Provider, Over
-----------------------------------------------------------------------------
(***************************************************************************)
(* What is printed.                                                        *)
(***************************************************************************)

\* A case is printed when all it has had read is in the runner core's list.
LEMMA PrintedNext ==
  ASSUME Inv, [Next]_vars
  PROVE  NothingReadIsLost'
<1> USE DEF NothingReadIsLost
<1>1. CASE ReportCase
  <2> DEFINE e == [case |-> at, status |-> StatusOf(case), diags |-> diags]
             t == [outcome |-> case, fate |-> fate]
  <2>1. /\ TypeOK /\ Progress /\ Channel /\ Heard
        /\ buffer = 0 /\ writing = 0 /\ phase = "reporting"
    BY <1>1 DEF ReportCase, Inv, Live
  <2>2. e \in Event /\ t \in Told
    BY <2>1, EventType DEF Progress, Live
  <2>3. events' = Append(events, e) /\ told' = Append(told, t)
    BY <1>1 DEF ReportCase
  <2>4. /\ e.diags = diags /\ t.fate = fate
    OBVIOUS
  <2> HIDE DEF e, t
  <2>5. /\ Len(events) \in Nat /\ Len(told) = Len(events)
        /\ DOMAIN events' = 1..(Len(events) + 1) /\ DOMAIN events = 1..Len(events)
        /\ DOMAIN told' = 1..(Len(events) + 1) /\ DOMAIN told = 1..Len(events)
        /\ \A k \in 1..Len(events) : events'[k] = events[k] /\ told'[k] = told[k]
        /\ events'[Len(events) + 1] = e /\ told'[Len(events) + 1] = t
    BY <2>1, <2>2, <2>3, AppendFacts DEF TypeOK, Progress
  <2>6. Delivered(diags, fate)
    <3>1. \A k \in DOMAIN diags : diags[k] \in Messages
      BY <2>1 DEF TypeOK
    <3>2. \A m \in Messages : fate[m] = "read" <=> \E k \in DOMAIN diags : diags[k] = m
      BY <2>1 DEF Heard, Messages
    <3>3. {diags[k] : k \in DOMAIN diags} = {m \in Messages : fate[m] = "read"}
      BY <3>1, <3>2
    <3>4. \A m \in Messages : fate[m] # "waiting"
      BY <2>1, ComposedAssumption DEF Channel, Messages
    <3> QED
      BY <2>1, <3>3, <3>4 DEF Delivered, Heard
  <2>7. NothingReadIsLost
    BY DEF Inv
  <2>8. ASSUME NEW k \in DOMAIN events'
        PROVE  k \in DOMAIN told' /\ Delivered(events'[k].diags, told'[k].fate)
    <3>1. CASE k = Len(events) + 1
      BY <2>4, <2>5, <2>6, <3>1
    <3>2. CASE k \in 1..Len(events)
      BY <2>5, <2>7, <3>2
    <3> QED
      BY <2>5, <3>1, <3>2
  <2> QED
    BY <2>8
<1>2. CASE UNCHANGED <<events, told>>
  BY <1>2 DEF Inv, Delivered
<1> QED
  BY <1>1, <1>2
  DEF Next, Runner, Case, Provider, Over, vars, run, PrintEnvelope, Enumerate, BeginCase,
      ReadStream, TakeDiagnostic, TakeStreamEnd, TakeVerdict, DrainEnds, PrintTerminator,
      Trap, Report, AbandonReport, ResumeReport, Return

LEMMA InvNext == Inv /\ [Next]_vars => Inv'
<1> SUFFICES ASSUME Inv, [Next]_vars PROVE Inv'
  OBVIOUS
<1>1. TypeOK' /\ Progress' /\ Channel'
  BY TypeNext, ProgressNext, ChannelNext DEF Inv
<1>2. phase' \in Live => Heard'
  BY HeardNext DEF Inv
<1>3. phase' = "reporting" => buffer' = 0 /\ writing' = 0
  BY DrainedNext DEF Inv
<1>4. Writable' /\ OneAtATimeIsHeard'
  BY WritableNext DEF Inv
<1>5. NothingReadIsLost'
  BY PrintedNext
<1> QED
  BY <1>1, <1>2, <1>3, <1>4, <1>5 DEF Inv, Live

LEMMA InvCorrect == Spec => []Inv
BY InvInit, InvNext, PTL DEF Spec

\* Every reachable state is well typed.
THEOREM TypeCorrect == Spec => []TypeOK
<1>1. Inv => TypeOK
  BY DEF Inv
<1> QED
  BY InvCorrect, <1>1, PTL

\* A message that was read is in its own case's event, once and in order, and
\* no call is left waiting, though the runner core learns of the case's outcome
\* before it is told of the message.
THEOREM NothingReadIsLostCorrect == Spec => []NothingReadIsLost
<1>1. Inv => NothingReadIsLost
  BY DEF Inv
<1> QED
  BY InvCorrect, <1>1, PTL

\* The provider drops no message of a case that makes one call at a time.
THEOREM OneAtATimeIsHeardCorrect == Spec => []OneAtATimeIsHeard
<1>1. Inv => OneAtATimeIsHeard
  BY DEF Inv
<1> QED
  BY InvCorrect, <1>1, PTL

-----------------------------------------------------------------------------
(***************************************************************************)
(* The runner implements CensusStream.                                     *)
(***************************************************************************)

Lines == [p \in 1..Len(events) |-> [case |-> events[p].case, status |-> events[p].status]]

Allowed == [i \in Census |-> {"pass", "fail", "skipped"}]

StateOf == CASE phase = "trapped"              -> "cut"
             [] phase \in {"passed", "failed"} -> "closed"
             [] phase = "start"                -> "silent"
             [] phase \notin Final \union {"start"} -> "open"

LEMMA StreamInit == Init => CS!Init
<1> SUFFICES ASSUME Init PROVE CS!Init
  OBVIOUS
<1>1. Allowed \in [1..N -> SUBSET {"pass", "fail", "skipped"}]
  BY DEF Allowed, Census
<1>2. StateOf = "silent"
  BY DEF Init, StateOf
<1>3. Lines = <<>>
  BY DEF Init, Lines
<1> QED
  BY <1>1, <1>2, <1>3 DEF CS!Init, Allowed, StateOf, Lines, Census

\* The new event is a line of the next case, with a status of the vocabulary.
LEMMA LineAppended ==
  ASSUME Inv, ReportCase
  PROVE  /\ Len(Lines) = Len(events) /\ Len(events) < N
         /\ Lines' = Append(Lines, [case |-> Len(events) + 1, status |-> StatusOf(case)])
         /\ StatusOf(case) \in {"pass", "fail", "skipped"}
<1> DEFINE e == [case |-> at, status |-> StatusOf(case), diags |-> diags]
<1>1. TypeOK /\ at = Len(events) + 1 /\ at \in Census /\ case \in Outcomes
  BY DEF Inv, Progress, Live, ReportCase
<1>2. e \in Event
  BY <1>1, EventType
<1>3. events' = Append(events, e) /\ e.case = at /\ e.status = StatusOf(case)
  BY DEF ReportCase
<1> HIDE DEF e
<1>4. /\ Len(events') = Len(events) + 1 /\ Len(events) \in Nat
      /\ \A k \in 1..Len(events) : events'[k] = events[k]
      /\ events'[Len(events) + 1] = e
  BY <1>1, <1>2, <1>3, AppendFacts DEF TypeOK
<1>5. Len(Lines) = Len(events)
  BY <1>4 DEF Lines
<1>6. Lines' = Append(Lines, [case |-> Len(events) + 1, status |-> StatusOf(case)])
  BY <1>1, <1>3, <1>4 DEF Lines
<1>7. StatusOf(case) \in {"pass", "fail", "skipped"}
  BY <1>1 DEF StatusOf, Outcomes
<1> QED
  BY <1>1, <1>4, <1>5, <1>6, <1>7, ComposedAssumption DEF Census

LEMMA StreamNext ==
  ASSUME Inv, [Next]_vars
  PROVE  CS!Next \/ UNCHANGED CS!csvars
<1> DEFINE Same == Lines' = Lines /\ Allowed' = Allowed
<1>1. UNCHANGED events => Same
  BY DEF Lines, Allowed
<1>2. CASE PrintEnvelope
  <2>1. StateOf = "silent" /\ StateOf' = "open" /\ Same
    BY <1>1, <1>2 DEF PrintEnvelope, StateOf, Final
  <2> QED
    BY <2>1 DEF CS!Next, CS!Open, StateOf, Lines, Allowed
<1>3. CASE ReportCase
  <2>1. StateOf = "open" /\ StateOf' = "open" /\ Allowed' = Allowed
    BY <1>3 DEF ReportCase, StateOf, Final, Allowed
  <2>2. Len(Lines) + 1 \in Census
    BY <1>3, LineAppended, ComposedAssumption DEF Census, Inv, TypeOK
  <2>3. StatusOf(case) \in Allowed[Len(Lines) + 1]
    BY <1>3, <2>2, LineAppended DEF Allowed
  <2>4. CS!Report
    BY <1>3, <2>1, <2>3, LineAppended DEF CS!Report, StateOf, Lines, Allowed
  <2> QED
    BY <2>4 DEF CS!Next
<1>4. CASE PrintTerminator
  <2>1. StateOf = "open" /\ StateOf' = "closed" /\ Same
    BY <1>1, <1>4 DEF PrintTerminator, Verdict, StateOf, Final
  <2>2. Len(events) = N
    BY <1>4, ComposedAssumption DEF PrintTerminator, Inv, TypeOK, Progress, Live, Census
  <2>3. Len(Lines) = N
    BY <2>2, ComposedAssumption DEF Lines
  <2> QED
    BY <2>1, <2>3 DEF CS!Next, CS!Close, StateOf, Lines, Allowed
<1>5. CASE Trap
  <2>1. StateOf \in {"silent", "open"} /\ StateOf' = "cut" /\ Same
    BY <1>1, <1>5 DEF Trap, StateOf, Final
  <2> QED
    BY <2>1 DEF CS!Next, CS!Cut, StateOf, Lines, Allowed
<1>6. ASSUME UNCHANGED events,
             phase' = phase \/ {phase, phase'} \subseteq
               {"enumerating", "next", "racing", "draining", "reporting"}
      PROVE  UNCHANGED CS!csvars
  <2>1. StateOf' = StateOf /\ Same
    BY <1>1, <1>6 DEF StateOf, Final
  <2> QED
    BY <2>1 DEF CS!csvars, StateOf, Lines, Allowed
<1>7. \/ PrintEnvelope \/ ReportCase \/ PrintTerminator \/ Trap
      \/ /\ UNCHANGED events
         /\ phase' = phase \/ {phase, phase'} \subseteq
              {"enumerating", "next", "racing", "draining", "reporting"}
  BY DEF Next, Runner, Case, Provider, Over, vars, run, Enumerate, BeginCase,
         ReadStream, TakeDiagnostic, TakeStreamEnd, TakeVerdict, DrainEnds, Report,
         AbandonReport, ResumeReport, Return
<1> QED
  BY <1>2, <1>3, <1>4, <1>5, <1>6, <1>7

\* The composed runner's output is one a reader of CensusStream expects.
THEOREM StreamCorrect == Spec => ImplementsCensusStream
BY InvCorrect, StreamInit, StreamNext, PTL DEF Spec, ImplementsCensusStream, CS!Spec
=============================================================================
