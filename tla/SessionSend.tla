---------------------------- MODULE SessionSend -----------------------------
(***************************************************************************)
(* The outgoing half of one Session: Send, RegisterSend and ProcessSend    *)
(* (Session.cpp), their send queue, the one reusable SendEvent, and the    *)
(* kernel behind WSASend.                                                  *)
(*                                                                         *)
(* Any worker may call Send.  The one whose compare-and-swap turns         *)
(* _sendRegistered on gathers the queue into the event and hands it to the *)
(* kernel; the worker that gets the completion gathers again or turns the  *)
(* flag off.  The receiving half only matters as another cause of          *)
(* Disconnect.                                                             *)
(***************************************************************************)
EXTENDS Naturals, Sequences

CONSTANTS
  Workers,  \* threads that run room jobs and serve completions
  Msgs,     \* send buffers
  NoMsg

ASSUME NoMsgAssumption == NoMsg \notin Msgs

VARIABLES
  connected,    \* _connected
  registered,   \* _sendRegistered
  sendQueue,    \* _sendQueue
  ownerSet,     \* _sendEvent._owner is not null
  sendBuffers,  \* _sendEvent.sendBuffers
  pc,           \* worker -> the next step it takes
  msg,          \* worker -> the argument of the Send it is in, or NoMsg
  caller,       \* worker -> who called RegisterSend
  bytes,        \* worker -> what the completion it serves reports
  inKernel,     \* the kernel has the event
  completion,   \* what the port holds for it: "none", "sent" or "zero" bytes
  broken,       \* the network or the peer has dropped the connection
  wire,         \* the messages the kernel has transmitted
  pushed        \* history: the messages pushed, in order

vars == <<connected, registered, sendQueue, ownerSet, sendBuffers, pc, msg,
          caller, bytes, inKernel, completion, broken, wire, pushed>>

eventVars == <<ownerSet, sendBuffers>>
kernelVars == <<inKernel, completion, broken, wire>>

Steps == {"idle", "push", "claim", "register", "gather", "wsasend",
          "disconnect", "read", "complete", "check", "unregister", "crashed"}

TypeOK ==
  /\ connected \in BOOLEAN /\ registered \in BOOLEAN
  /\ sendQueue \in Seq(Msgs) /\ sendBuffers \in Seq(Msgs)
  /\ ownerSet \in BOOLEAN /\ inKernel \in BOOLEAN /\ broken \in BOOLEAN
  /\ completion \in {"none", "sent", "zero"}
  /\ pc \in [Workers -> Steps]
  /\ msg \in [Workers -> Msgs \cup {NoMsg}]
  /\ caller \in [Workers -> {"Send", "ProcessSend"}]
  /\ bytes \in [Workers -> {"none", "sent", "zero"}]
  /\ wire \in Seq(Msgs) /\ pushed \in Seq(Msgs)

Goto(t, step) == pc' = [pc EXCEPT ![t] = step]

Init ==
  /\ connected = TRUE
  /\ registered = FALSE
  /\ sendQueue = <<>>
  /\ ownerSet = FALSE
  /\ sendBuffers = <<>>
  /\ pc = [t \in Workers |-> "idle"]
  /\ msg = [t \in Workers |-> NoMsg]
  /\ caller = [t \in Workers |-> "Send"]
  /\ bytes = [t \in Workers |-> "none"]
  /\ inKernel = FALSE
  /\ completion = "none"
  /\ broken = FALSE
  /\ wire = <<>>
  /\ pushed = <<>>

-----------------------------------------------------------------------------
(* Send.                                                                   *)

InUse == {pushed[i] : i \in 1..Len(pushed)} \cup {msg[t] : t \in Workers}

\* Send tests the connection first; the push is a later step.
Send(t, m) ==
  /\ pc[t] = "idle"
  /\ connected
  /\ m \notin InUse
  /\ msg' = [msg EXCEPT ![t] = m]
  /\ Goto(t, "push")
  /\ UNCHANGED <<bytes, connected, registered, sendQueue, caller, pushed,
                 eventVars, kernelVars>>

PushBuffer(t) ==
  /\ pc[t] = "push"
  /\ sendQueue' = Append(sendQueue, msg[t])
  /\ pushed' = Append(pushed, msg[t])
  /\ msg' = [msg EXCEPT ![t] = NoMsg]
  /\ Goto(t, "claim")
  /\ UNCHANGED <<bytes, connected, registered, caller, eventVars, kernelVars>>

\* Mutant: the flag is not tested before the send is registered.
ClaimSend_NoTest(t) ==
  /\ pc[t] = "claim"
  /\ registered' = TRUE
  /\ caller' = [caller EXCEPT ![t] = "Send"]
  /\ Goto(t, "register")
  /\ UNCHANGED <<bytes, connected, sendQueue, msg, pushed, eventVars,
                 kernelVars>>

\* Mutant: the flag is compared with the wrong value.
ClaimSend_WrongExpected(t) ==
  /\ pc[t] = "claim"
  /\ \/ ~registered /\ Goto(t, "idle") /\ UNCHANGED caller
     \/ /\ registered
        /\ caller' = [caller EXCEPT ![t] = "Send"]
        /\ Goto(t, "register")
  /\ UNCHANGED <<bytes, connected, registered, sendQueue, msg, pushed,
                 eventVars, kernelVars>>

ClaimSend(t) ==
  /\ pc[t] = "claim"
  /\ \/ registered /\ Goto(t, "idle") /\ UNCHANGED <<registered, caller>>
     \/ /\ ~registered
        /\ registered' = TRUE
        /\ caller' = [caller EXCEPT ![t] = "Send"]
        /\ Goto(t, "register")
  /\ UNCHANGED <<bytes, connected, sendQueue, msg, pushed, eventVars,
                 kernelVars>>

-----------------------------------------------------------------------------
(* RegisterSend.                                                           *)

\* On a closed session RegisterSend returns with the flag still on.
RegisterSend(t) ==
  /\ pc[t] = "register"
  /\ \/ ~connected /\ Goto(t, "idle") /\ UNCHANGED ownerSet
     \/ connected /\ ownerSet' = TRUE /\ Goto(t, "gather")
  /\ UNCHANGED <<bytes, connected, registered, sendQueue, sendBuffers, msg,
                 caller, pushed, kernelVars>>

GatherOne(t) ==
  /\ pc[t] = "gather"
  /\ \/ /\ sendQueue # <<>>
        /\ sendBuffers' = Append(sendBuffers, Head(sendQueue))
        /\ sendQueue' = Tail(sendQueue)
        /\ UNCHANGED pc
     \/ /\ sendQueue = <<>>
        /\ Goto(t, "wsasend")
        /\ UNCHANGED <<sendBuffers, sendQueue>>
  /\ UNCHANGED <<bytes, connected, registered, ownerSet, msg, caller, pushed,
                 kernelVars>>

\* The kernel takes the event.
SendAccepted(t) ==
  /\ pc[t] = "wsasend"
  /\ inKernel' = TRUE
  /\ Goto(t, "idle")
  /\ UNCHANGED <<bytes, connected, registered, sendQueue, msg, caller, pushed,
                 eventVars, completion, broken, wire>>

\* WSASend fails at once: the connection is gone, the kernel is short of
\* memory for this request only, or there is no buffer to send.  The event is
\* cleared and the flag turned off before Disconnect.
SendRefused(t) ==
  /\ pc[t] = "wsasend"
  /\ ownerSet' = FALSE
  /\ sendBuffers' = <<>>
  /\ registered' = FALSE
  /\ Goto(t, "disconnect")
  /\ UNCHANGED <<bytes, connected, sendQueue, msg, caller, pushed,
                 kernelVars>>

Disconnect(t) ==
  /\ pc[t] = "disconnect"
  /\ connected' = FALSE
  /\ Goto(t, "idle")
  /\ UNCHANGED <<bytes, registered, sendQueue, msg, caller, pushed, eventVars,
                 kernelVars>>

-----------------------------------------------------------------------------
(* ProcessSend, on the worker that gets the completion.                    *)

GetCompletion(t) ==
  /\ pc[t] = "idle"
  /\ completion # "none"
  /\ bytes' = [bytes EXCEPT ![t] = completion]
  /\ completion' = "none"
  /\ Goto(t, "read")
  /\ UNCHANGED <<connected, registered, sendQueue, msg, caller, pushed,
                 eventVars, inKernel, broken, wire>>

\* A null owner would be a null dereference (IocpCore::Dispatch).
ReadOwner(t) ==
  /\ pc[t] = "read"
  /\ Goto(t, IF ownerSet THEN "complete" ELSE "crashed")
  /\ UNCHANGED <<connected, registered, sendQueue, msg, caller, bytes, pushed,
                 eventVars, kernelVars>>

\* Mutant: a completion of zero bytes counts as a send.
ProcessSend_IgnoresZero(t) ==
  /\ pc[t] = "complete"
  /\ ownerSet' = FALSE
  /\ sendBuffers' = <<>>
  /\ Goto(t, "check")
  /\ UNCHANGED <<bytes, connected, registered, sendQueue, msg, caller, pushed,
                 kernelVars>>

\* Zero bytes disconnect, and leave the flag on.
ProcessSend(t) ==
  /\ pc[t] = "complete"
  /\ ownerSet' = FALSE
  /\ sendBuffers' = <<>>
  /\ Goto(t, IF bytes[t] = "zero" THEN "disconnect" ELSE "check")
  /\ UNCHANGED <<connected, registered, sendQueue, msg, caller, bytes, pushed,
                 kernelVars>>

\* Mutant: the queue is not looked at again.
CheckEmpty_Never(t) ==
  /\ pc[t] = "check"
  /\ Goto(t, "unregister")
  /\ UNCHANGED <<bytes, connected, registered, sendQueue, msg, caller, pushed,
                 eventVars, kernelVars>>

CheckEmpty(t) ==
  /\ pc[t] = "check"
  /\ \/ sendQueue = <<>> /\ Goto(t, "unregister") /\ UNCHANGED caller
     \/ /\ sendQueue # <<>>
        /\ caller' = [caller EXCEPT ![t] = "ProcessSend"]
        /\ Goto(t, "register")
  /\ UNCHANGED <<bytes, connected, registered, sendQueue, msg, pushed,
                 eventVars, kernelVars>>

Unregister(t) ==
  /\ pc[t] = "unregister"
  /\ registered' = FALSE
  /\ Goto(t, "idle")
  /\ UNCHANGED <<bytes, connected, sendQueue, msg, caller, pushed, eventVars,
                 kernelVars>>

-----------------------------------------------------------------------------
(* The environment.                                                        *)

\* The kernel finishes the send.  It reports zero bytes when the connection
\* broke, and when it was given nothing.
KernelCompletes ==
  /\ inKernel
  /\ inKernel' = FALSE
  /\ IF broken \/ sendBuffers = <<>>
     THEN completion' = "zero" /\ UNCHANGED wire
     ELSE completion' = "sent" /\ wire' = wire \o sendBuffers
  /\ UNCHANGED <<bytes, connected, registered, sendQueue, pc, msg, caller,
                 pushed, eventVars, broken>>

NetworkBreaks ==
  /\ ~broken
  /\ broken' = TRUE
  /\ UNCHANGED <<bytes, connected, registered, sendQueue, pc, msg, caller,
                 pushed, eventVars, inKernel, completion, wire>>

\* The receiving half calls Disconnect: the peer closed or broke off, or the
\* receive buffer overflowed.
ReceiveDisconnects ==
  /\ connected
  /\ connected' = FALSE
  /\ UNCHANGED <<bytes, registered, sendQueue, pc, msg, caller, pushed,
                 eventVars, kernelVars>>

-----------------------------------------------------------------------------

Continue(t) ==
  \/ PushBuffer(t) \/ ClaimSend(t)
  \/ RegisterSend(t) \/ GatherOne(t) \/ SendAccepted(t) \/ SendRefused(t)
  \/ Disconnect(t)
  \/ ReadOwner(t) \/ ProcessSend(t) \/ CheckEmpty(t) \/ Unregister(t)

Next ==
  \/ \E t \in Workers, m \in Msgs : Send(t, m)
  \/ \E t \in Workers : GetCompletion(t) \/ Continue(t)
  \/ KernelCompletes \/ NetworkBreaks \/ ReceiveDisconnects

Spec == Init /\ [][Next]_vars

(***************************************************************************)
(* Every worker that can run runs; a send given to the kernel finishes     *)
(* (the peer reads, or TCP gives up) and its completion is dequeued, the   *)
(* port being FIFO.  Nobody is obliged to send.                            *)
(***************************************************************************)
Fairness ==
  /\ \A t \in Workers : WF_vars(Continue(t))
  /\ WF_vars(KernelCompletes)
  /\ SF_vars(\E t \in Workers : GetCompletion(t))

FairSpec == Spec /\ Fairness

-----------------------------------------------------------------------------
(* Properties *)

\* Holds(t): the worker is between turning _sendRegistered on and handing the
\* event to the kernel, or between its completion and the end of ProcessSend.
Holds(t) == pc[t] \in {"register", "gather", "wsasend", "read", "complete",
                       "check", "unregister"}

\* No worker dequeues a completion whose owner has been cleared.
NoNullOwner == \A t \in Workers : pc[t] # "crashed"

\* The one SendEvent belongs to one worker or to the kernel, never to two: no
\* buffer is released and no owner cleared under a send in progress, and no
\* worker calls through a cleared one (RegisterSend against ProcessSend).
EventExclusive ==
  /\ NoNullOwner
  /\ \A t \in Workers : Holds(t) =>
       /\ ~inKernel /\ completion = "none"
       /\ \A s \in Workers \ {t} : ~Holds(s)

\* The gathered buffers that are not on the wire yet.
Transmitted ==
  \/ completion = "sent"
  \/ \E t \in Workers : pc[t] \in {"read", "complete"} /\ bytes[t] = "sent"

Untransmitted == IF Transmitted THEN <<>> ELSE sendBuffers

\* While the session stays open every message pushed is on the wire, with the
\* event or in the queue, in the order of the pushes and once.  Only a send
\* that failed drops messages, and then a worker is about to disconnect.
NothingLostWhileOpen ==
  connected /\ (\A t \in Workers : pc[t] # "disconnect") =>
    pushed = wire \o Untransmitted \o sendQueue

\* What the session looks like to those who Send on it.
OutputState ==
  IF ~connected THEN "closed"
  ELSE IF \E t \in Workers : pc[t] = "disconnect" THEN "failing" ELSE "open"

Output == INSTANCE OutputStream
            WITH state <- OutputState, queue <- Untransmitted \o sendQueue

\* The session keeps the promise of OutputStream.
ImplementsOutputStream == Output!Spec

\* The peer gets the messages in the order of the pushes and each at most once,
\* even when sends fail and others succeed before the session is closed.
SentInOrder == Output!InOrder

\* A Stranded queue has messages of an open session and nobody who will
\* gather them.
Stranded ==
  /\ connected
  /\ sendQueue # <<>>
  /\ ~registered
  /\ \A t \in Workers : pc[t] \notin {"claim", "disconnect"}

\* The code does strand messages: one pushed between the emptiness test and
\* the release of the flag waits for the next Send.  No other step strands.
StrandedOnlyByUnregister ==
  [][~Stranded /\ Stranded' => \E t \in Workers : Unregister(t)]_vars

\* A message that is in the pipeline while the flag is on, outside that
\* window, reaches the wire without any further Send, or the session closes.
CaughtMessagesAreSent ==
  \A m \in Msgs :
    (/\ \E i \in 1..Len(sendQueue) : sendQueue[i] = m
     /\ registered
     /\ \A t \in Workers : pc[t] # "unregister")
    ~> (~connected \/ \E i \in 1..Len(wire) : wire[i] = m)

=============================================================================
