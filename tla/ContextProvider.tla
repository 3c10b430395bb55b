--------------------------- MODULE ContextProvider --------------------------
(***************************************************************************)
(* The reference context provider (components/provider): one linked pair   *)
(* of a context, lent to a running case, and an observer's stream, read by *)
(* the runner core.                                                        *)
(*                                                                         *)
(* The stream is a rendezvous without a buffer of its own.  A read that    *)
(* meets a waiting write is done at once.  A write that meets a waiting    *)
(* read copies its message and is done at once; the reader is told later,  *)
(* and has the read under way until then.  Messages are numbered in the    *)
(* order the case reports them.                                            *)
(***************************************************************************)
EXTENDS Naturals

CONSTANT MaxDiags   \* bound: a case reports no more messages than this

Messages == 1..MaxDiags

VARIABLES
  slot,       \* Shared.writer is Some
  closed,     \* Shared.closed
  writing,    \* the message of the call that holds the writer, 0 if none does
  copied,     \* that message is read, and its call has not gone on yet
  reading,    \* a read is under way, for all the reader knows
  buffer,     \* a message that was copied and not yet taken, 0 if none
  fate,       \* what became of each message
  overlapped  \* a call was made while another was under way

stream  == <<slot, closed, writing, copied, reading, buffer>>
history == <<fate, overlapped>>

\* A message: not reported yet, waiting for the reader, read, dropped by a
\* context without a writer, or given up by the case.
MessageFates == {"unsaid", "waiting", "read", "dropped", "given up"}

NoPair ==
  /\ slot = FALSE /\ closed = FALSE /\ writing = 0 /\ copied = FALSE
  /\ reading = FALSE /\ buffer = 0
  /\ fate = [m \in Messages |-> "unsaid"]
  /\ overlapped = FALSE

\* new-context, and the observer's diagnostics taken at once: from here on the
\* context has a writer.
NewPair ==
  /\ slot' = TRUE /\ closed' = FALSE /\ writing' = 0 /\ copied' = FALSE
  /\ reading' = FALSE /\ buffer' = 0
  /\ fate' = [m \in Messages |-> "unsaid"]
  /\ overlapped' = FALSE

-----------------------------------------------------------------------------
\* context.diagnostic

\* The call finds no writer: another call holds it, or it is gone.
DropMessage(m) ==
  /\ ~slot
  /\ fate' = [fate EXCEPT ![m] = "dropped"]
  /\ UNCHANGED stream

\* A read waits for a message: none was copied for it yet.
ReadWaits == reading /\ buffer = 0

\* The call meets a waiting read and is over; the writer is put back.  The
\* reader does not know yet.
MeetRead(m) ==
  /\ slot /\ ReadWaits
  /\ buffer' = m
  /\ fate' = [fate EXCEPT ![m] = "read"]
  /\ UNCHANGED <<slot, closed, writing, copied, reading>>

\* The call takes the writer and waits for a read.
AwaitRead(m) ==
  /\ slot /\ ~ReadWaits
  /\ slot' = FALSE /\ writing' = m
  /\ fate' = [fate EXCEPT ![m] = "waiting"]
  /\ UNCHANGED <<closed, copied, reading, buffer>>

\* The case reports its next message.
Diagnostic ==
  /\ \E m \in Messages :
       /\ fate[m] = "unsaid" /\ \A k \in 1..(m - 1) : fate[k] # "unsaid"
       /\ DropMessage(m) \/ MeetRead(m) \/ AwaitRead(m)
  /\ overlapped' = (overlapped \/ writing # 0)

\* Mutant: the writer is not put back.
ResumeEmpty ==
  /\ copied
  /\ copied' = FALSE /\ writing' = 0
  /\ UNCHANGED <<slot, closed, reading, buffer, history>>

\* Mutant: the writer is put back though the context is gone.
ResumeOpen ==
  /\ copied
  /\ copied' = FALSE /\ writing' = 0
  /\ slot' = TRUE
  /\ UNCHANGED <<closed, reading, buffer, history>>

\* A waiting call whose message was read goes on: it puts the writer back
\* unless the context was dropped meanwhile.
Resume ==
  /\ copied
  /\ copied' = FALSE /\ writing' = 0
  /\ slot' = ~closed
  /\ UNCHANGED <<closed, reading, buffer, history>>

\* The case gives up a call it waits for: the call's future is dropped, and
\* with it the writer it holds.
GiveUp ==
  /\ writing # 0
  /\ writing' = 0 /\ copied' = FALSE
  /\ fate' = IF copied THEN fate ELSE [fate EXCEPT ![writing] = "given up"]
  /\ UNCHANGED <<slot, closed, reading, buffer, overlapped>>

\* The runner core drops its context.
DropContext == slot' = FALSE /\ closed' = TRUE

-----------------------------------------------------------------------------
\* The observer's stream.

\* No writer is left, and nothing that was copied: the stream is at its end.
Ended == ~slot /\ writing = 0 /\ buffer = 0

\* A read starts: it meets a waiting write and is done, or waits itself.
StartRead ==
  /\ ~reading /\ buffer = 0 /\ ~Ended
  /\ IF writing # 0 /\ ~copied
     THEN /\ buffer' = writing /\ copied' = TRUE
          /\ fate' = [fate EXCEPT ![writing] = "read"]
          /\ UNCHANGED reading
     ELSE /\ reading' = TRUE
          /\ UNCHANGED <<buffer, copied, fate>>
  /\ UNCHANGED <<slot, closed, writing, overlapped>>

\* The read is done, and the reader has its message.
TakeMessage ==
  /\ buffer # 0
  /\ buffer' = 0 /\ reading' = FALSE
  /\ UNCHANGED <<slot, closed, writing, copied, history>>

\* The read is done for want of a writer.
TakeEnd ==
  /\ reading /\ Ended
  /\ reading' = FALSE
  /\ UNCHANGED <<slot, closed, writing, copied, buffer, history>>

ProviderTypeOK ==
  /\ slot \in BOOLEAN /\ closed \in BOOLEAN /\ copied \in BOOLEAN
  /\ reading \in BOOLEAN /\ overlapped \in BOOLEAN
  /\ writing \in Messages \union {0}
  /\ buffer \in Messages \union {0}
  /\ fate \in [Messages -> MessageFates]
=============================================================================
