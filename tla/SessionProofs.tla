---------------------------- MODULE SessionProofs ----------------------------
(***************************************************************************)
(* Proofs about the two halves of a Session: SessionSend, for every set of *)
(* workers and of messages, and after it SessionRecv, for every buffer     *)
(* size, every set of packet sizes and every cut of the stream.            *)
(*                                                                         *)
(* The argument for sending: _sendRegistered is a token.  While a worker   *)
(* Holds it, or the kernel or the port has the event, nobody else does; so *)
(* the event's buffers are touched by one thread at a time.  What is in    *)
(* the event, unless transmitted, and what is in the queue are then one    *)
(* queue, that of OutputStream; each step refines it, and order and        *)
(* completeness are proved of OutputStream and carried over.               *)
(***************************************************************************)
EXTENDS SessionSend, SessionRecv, SequenceTheorems, WellFoundedInduction,
        TLAPS

\* The event is with the kernel or in the port.
Away == inKernel \/ completion # "none"

TokenInv ==
  /\ \A t \in Workers : Holds(t) => registered /\ ~Away
  /\ \A s, t \in Workers : Holds(s) /\ Holds(t) => s = t
  /\ Away => registered
  /\ inKernel => completion = "none"

\* The event has its owner from RegisterSend to ProcessSend.
Loaded == Away \/ \E t \in Workers : pc[t] \in {"gather", "wsasend", "read", "complete"}
OwnerInv == NoNullOwner /\ (Loaded => ownerSet)

\* Only then has it buffers.
BuffersInv == ~Loaded => sendBuffers = <<>>

\* A worker at "push" has something to push.
MsgInv == \A t \in Workers : pc[t] = "push" => msg[t] \in Msgs

\* The completion a worker serves reported something.
BytesInv == \A t \in Workers : pc[t] \in {"read", "complete"} => bytes[t] # "none"

IInv == TypeOK /\ MsgInv /\ BytesInv /\ TokenInv /\ OwnerInv /\ BuffersInv

-----------------------------------------------------------------------------

\* A message moved from the front of one sequence to the end of the one before it
\* leaves the two together as they were.
LEMMA MoveHead ==
  ASSUME NEW S, NEW b \in Seq(S), NEW c \in Seq(S), c # <<>>
  PROVE  Append(b, Head(c)) \o Tail(c) = b \o c
<1> DEFINE h == <<Head(c)>>
<1>1. h \in Seq(S) /\ Tail(c) \in Seq(S) /\ c = h \o Tail(c) /\ Append(b, Head(c)) = b \o h
  BY HeadTailProperties, AppendIsConcat
<1>2. (b \o h) \o Tail(c) = b \o (h \o Tail(c))
  BY <1>1, ConcatAssociative
<1> QED
  BY <1>1, <1>2

\* What is appended to the last of two sequences is appended to the whole.
LEMMA PushBack ==
  ASSUME NEW S, NEW a \in Seq(S), NEW b \in Seq(S), NEW m \in S
  PROVE  a \o Append(b, m) = Append(a \o b, m)
<1>1. a \o b \in Seq(S) /\ <<m>> \in Seq(S)
  BY ConcatProperties
<1>2. Append(b, m) = b \o <<m>> /\ Append(a \o b, m) = (a \o b) \o <<m>>
  BY <1>1, AppendIsConcat
<1> QED
  BY <1>1, <1>2, ConcatAssociative

-----------------------------------------------------------------------------

\* The session starts with nothing to send.
LEMMA InitIInv == Init => IInv
<1> SUFFICES ASSUME Init PROVE IInv
  OBVIOUS
<1> USE DEF Init
<1>1. TypeOK
  <2>1. connected \in BOOLEAN /\ registered \in BOOLEAN /\ ownerSet \in BOOLEAN
        /\ inKernel \in BOOLEAN /\ broken \in BOOLEAN
    BY Zenon
  <2>2. /\ sendQueue \in Seq(Msgs) /\ sendBuffers \in Seq(Msgs) /\ wire \in Seq(Msgs)
        /\ pushed \in Seq(Msgs)
    OBVIOUS
  <2>3. /\ pc \in [Workers -> Steps] /\ msg \in [Workers -> Msgs \cup {NoMsg}]
        /\ caller \in [Workers -> {"Send", "ProcessSend"}]
        /\ bytes \in [Workers -> {"none", "sent", "zero"}] /\ completion \in {"none", "sent", "zero"}
    BY DEF Steps
  <2> QED
    BY <2>1, <2>2, <2>3 DEF TypeOK
<1>2. \A t \in Workers : ~Holds(t)
  BY DEF Holds
<1>3. ~Away /\ ~Loaded
  BY DEF Away, Loaded
<1> QED
  BY <1>1, <1>2, <1>3 DEF IInv, MsgInv, BytesInv, Holds, TokenInv, OwnerInv, NoNullOwner, BuffersInv

\* Every step keeps the types.
LEMMA TypeStep == TypeOK /\ MsgInv /\ [Next]_vars => TypeOK' /\ MsgInv'
<1> SUFFICES ASSUME TypeOK, MsgInv, [Next]_vars PROVE TypeOK' /\ MsgInv'
  OBVIOUS
<1> USE DEF TypeOK, MsgInv, Goto, Steps, eventVars, kernelVars
<1>1. ASSUME NEW t \in Workers, NEW m \in Msgs, Send(t, m) PROVE TypeOK' /\ MsgInv'
  BY <1>1 DEF Send
<1>2. ASSUME NEW t \in Workers, PushBuffer(t) PROVE TypeOK' /\ MsgInv'
  BY <1>2 DEF PushBuffer
<1>3. ASSUME NEW t \in Workers, ClaimSend(t) PROVE TypeOK' /\ MsgInv'
  BY <1>3 DEF ClaimSend
<1>4. ASSUME NEW t \in Workers, RegisterSend(t) PROVE TypeOK' /\ MsgInv'
  BY <1>4 DEF RegisterSend
<1>5. ASSUME NEW t \in Workers, GatherOne(t) PROVE TypeOK' /\ MsgInv'
  <2>1. CASE /\ sendQueue # <<>> /\ UNCHANGED pc
             /\ sendBuffers' = Append(sendBuffers, Head(sendQueue)) /\ sendQueue' = Tail(sendQueue)
    <3>1. Head(sendQueue) \in Msgs /\ Tail(sendQueue) \in Seq(Msgs)
      BY <2>1, HeadTailProperties
    <3>2. sendQueue' \in Seq(Msgs) /\ sendBuffers' \in Seq(Msgs)
      BY <2>1, <3>1, AppendProperties
    <3> QED
      BY <1>5, <2>1, <3>2 DEF GatherOne
  <2>2. CASE pc' = [pc EXCEPT ![t] = "wsasend"] /\ UNCHANGED <<sendBuffers, sendQueue>>
    BY <1>5, <2>2 DEF GatherOne
  <2> QED
    BY <1>5, <2>1, <2>2 DEF GatherOne
<1>6. ASSUME NEW t \in Workers, SendAccepted(t) PROVE TypeOK' /\ MsgInv'
  BY <1>6 DEF SendAccepted
<1>6a. ASSUME NEW t \in Workers, SendRefused(t) PROVE TypeOK' /\ MsgInv'
  <2>1. sendBuffers' \in Seq(Msgs) /\ ownerSet' \in BOOLEAN
    BY <1>6a, EmptySeq DEF SendRefused
  <2> QED
    BY <1>6a, <2>1 DEF SendRefused
<1>6b. ASSUME NEW t \in Workers, Disconnect(t) PROVE TypeOK' /\ MsgInv'
  BY <1>6b DEF Disconnect
<1>7. ASSUME NEW t \in Workers, GetCompletion(t) PROVE TypeOK' /\ MsgInv'
  BY <1>7 DEF GetCompletion
<1>8. ASSUME NEW t \in Workers, ReadOwner(t) PROVE TypeOK' /\ MsgInv'
  <2>1. pc' = [pc EXCEPT ![t] = "complete"] \/ pc' = [pc EXCEPT ![t] = "crashed"]
    BY <1>8 DEF ReadOwner
  <2> QED
    BY <1>8, <2>1 DEF ReadOwner
<1>8a. ASSUME NEW t \in Workers, ProcessSend(t) PROVE TypeOK' /\ MsgInv'
  <2>1. pc' = [pc EXCEPT ![t] = "disconnect"] \/ pc' = [pc EXCEPT ![t] = "check"]
    BY <1>8a DEF ProcessSend
  <2>2. sendBuffers' \in Seq(Msgs) /\ ownerSet' \in BOOLEAN
    BY <1>8a, EmptySeq DEF ProcessSend
  <2> QED
    BY <1>8a, <2>1, <2>2 DEF ProcessSend
<1>8b. ASSUME NEW t \in Workers, CheckEmpty(t) PROVE TypeOK' /\ MsgInv'
  BY <1>8b DEF CheckEmpty
<1>8c. ASSUME NEW t \in Workers, Unregister(t) PROVE TypeOK' /\ MsgInv'
  BY <1>8c DEF Unregister
<1>9. CASE KernelCompletes
  <2>1. wire \o sendBuffers \in Seq(Msgs)
    BY ConcatProperties
  <2>2. wire' \in Seq(Msgs) /\ completion' \in {"none", "sent", "zero"}
    BY <1>9, <2>1 DEF KernelCompletes
  <2> QED
    BY <1>9, <2>2 DEF KernelCompletes
<1>10. CASE NetworkBreaks \/ ReceiveDisconnects
  BY <1>10 DEF NetworkBreaks, ReceiveDisconnects
<1>11. CASE UNCHANGED vars
  BY <1>11 DEF vars
<1> QED
  BY <1>1, <1>2, <1>3, <1>4, <1>5, <1>6, <1>6a, <1>6b, <1>7, <1>8, <1>8a, <1>8b, <1>8c, <1>9, <1>10,
     <1>11 DEF Next, Continue

\* Only GetCompletion brings a worker to "read".
LEMMA BytesStep == TypeOK /\ BytesInv /\ [Next]_vars => BytesInv'
<1> SUFFICES ASSUME TypeOK, BytesInv, [Next]_vars PROVE BytesInv'
  OBVIOUS
<1> USE DEF TypeOK, BytesInv, Goto, Steps
<1>1. ASSUME NEW t \in Workers, GetCompletion(t) PROVE BytesInv'
  BY <1>1 DEF GetCompletion
<1>2. ASSUME NEW t \in Workers, NEW m \in Msgs, Send(t, m) PROVE BytesInv'
  BY <1>2 DEF Send
<1>3. ASSUME NEW t \in Workers, Continue(t) PROVE BytesInv'
  <2>1. UNCHANGED bytes
    BY <1>3 DEF Continue, PushBuffer, ClaimSend, RegisterSend, GatherOne, SendAccepted, SendRefused,
                Disconnect, ReadOwner, ProcessSend, CheckEmpty, Unregister
  <2>2. \/ UNCHANGED pc
        \/ \E step \in Steps : /\ pc' = [pc EXCEPT ![t] = step]
                               /\ step \in {"read", "complete"} => pc[t] = "read"
    BY <1>3 DEF Continue, PushBuffer, ClaimSend, RegisterSend, GatherOne, SendAccepted, SendRefused,
                Disconnect, ReadOwner, ProcessSend, CheckEmpty, Unregister
  <2>3. CASE UNCHANGED pc
    BY <2>1, <2>3
  <2>4. CASE \E step \in Steps : /\ pc' = [pc EXCEPT ![t] = step]
                                 /\ step \in {"read", "complete"} => pc[t] = "read"
    <3>1. PICK step \in Steps : /\ pc' = [pc EXCEPT ![t] = step]
                                /\ step \in {"read", "complete"} => pc[t] = "read"
      BY <2>4
    <3> QED
      BY <2>1, <3>1
  <2> QED
    BY <2>2, <2>3, <2>4
<1>4. CASE KernelCompletes \/ NetworkBreaks \/ ReceiveDisconnects \/ UNCHANGED vars
  BY <1>4 DEF KernelCompletes, NetworkBreaks, ReceiveDisconnects, vars
<1> QED
  BY <1>1, <1>2, <1>3, <1>4 DEF Next

\* A worker that has not the token and does not take it: nothing changes hands.
LEMMA Bystander ==
  ASSUME IInv, NEW t \in Workers, NEW step \in Steps, Goto(t, step), ~Holds(t), ~Holds(t)',
         step # "crashed", UNCHANGED <<registered, ownerSet, sendBuffers, inKernel, completion>>
  PROVE  TokenInv' /\ OwnerInv' /\ BuffersInv'
<1> USE DEF IInv, TypeOK, Goto, Holds, Away, Loaded
<1>1. \A s \in Workers : Holds(s)' <=> Holds(s)
  OBVIOUS
<1>2. TokenInv'
  BY <1>1 DEF TokenInv
<1>3. Loaded' <=> Loaded
  OBVIOUS
<1>4. OwnerInv' /\ BuffersInv'
  BY <1>3 DEF OwnerInv, NoNullOwner, BuffersInv
<1> QED
  BY <1>2, <1>4

\* A step of the one worker that has the token: the others have not.
LEMMA Alone ==
  ASSUME IInv, NEW t \in Workers, Holds(t)
  PROVE  /\ registered /\ ~Away /\ ~inKernel /\ completion = "none"
         /\ \A s \in Workers \ {t} : ~Holds(s)
BY DEF IInv, TokenInv, Away

\* Every step keeps the token, the owner and the buffers in one place.
LEMMA TokenStep == IInv /\ [Next]_vars => TokenInv' /\ OwnerInv' /\ BuffersInv'
<1> SUFFICES ASSUME IInv, [Next]_vars PROVE TokenInv' /\ OwnerInv' /\ BuffersInv'
  OBVIOUS
<1> USE DEF Goto, eventVars, kernelVars
<1>0. TypeOK /\ TokenInv /\ OwnerInv /\ BuffersInv
  BY DEF IInv
<1>1. ASSUME NEW t \in Workers, NEW m \in Msgs, Send(t, m)
      PROVE  TokenInv' /\ OwnerInv' /\ BuffersInv'
  BY <1>0, <1>1, Bystander DEF Send, Holds, Steps, TypeOK
<1>2. ASSUME NEW t \in Workers, PushBuffer(t) PROVE TokenInv' /\ OwnerInv' /\ BuffersInv'
  BY <1>0, <1>2, Bystander DEF PushBuffer, Holds, Steps, TypeOK
<1>3. ASSUME NEW t \in Workers, Disconnect(t) PROVE TokenInv' /\ OwnerInv' /\ BuffersInv'
  BY <1>0, <1>3, Bystander DEF Disconnect, Holds, Steps, TypeOK
<1>4. ASSUME NEW t \in Workers, ClaimSend(t) PROVE TokenInv' /\ OwnerInv' /\ BuffersInv'
  <2>1. CASE registered /\ pc' = [pc EXCEPT ![t] = "idle"] /\ UNCHANGED registered
    BY <1>0, <1>4, <2>1, Bystander DEF ClaimSend, Holds, Steps, TypeOK
  <2>2. CASE ~registered /\ registered' = TRUE /\ pc' = [pc EXCEPT ![t] = "register"]
    <3>1. ~Away /\ \A s \in Workers : ~Holds(s)
      BY <1>0, <2>2 DEF TokenInv
    <3>2. ~Away' /\ UNCHANGED <<ownerSet, sendBuffers>>
      BY <1>4, <3>1 DEF ClaimSend, Away
    <3>3. ~Loaded /\ ~Loaded'
      BY <1>0, <2>2, <3>1, <3>2 DEF Loaded, Holds, TypeOK
    <3> QED
      BY <1>0, <1>4, <2>2, <3>1, <3>2, <3>3
         DEF TypeOK, Holds, TokenInv, OwnerInv, NoNullOwner, BuffersInv, Away
  <2> QED
    BY <1>4, <2>1, <2>2 DEF ClaimSend
<1>5. ASSUME NEW t \in Workers, RegisterSend(t) \/ GatherOne(t) \/ SendAccepted(t) \/ SendRefused(t)
      PROVE  TokenInv' /\ OwnerInv' /\ BuffersInv'
  <2>1. Holds(t)
    BY <1>5 DEF RegisterSend, GatherOne, SendAccepted, SendRefused, Holds
  <2>2. /\ registered /\ ~inKernel /\ completion = "none"
        /\ \A s \in Workers \ {t} : ~Holds(s)
    BY <2>1, Alone
  <2>3. CASE RegisterSend(t)
    BY <1>0, <2>2, <2>3, ZenonT(60) DEF RegisterSend, Holds, Loaded, Away, TypeOK, TokenInv, OwnerInv, NoNullOwner,
                            BuffersInv
  <2>4. CASE GatherOne(t)
    BY <1>0, <2>2, <2>4 DEF GatherOne, Holds, Loaded, Away, TypeOK, TokenInv, OwnerInv, NoNullOwner,
                            BuffersInv
  <2>5. CASE SendAccepted(t)
    BY <1>0, <2>2, <2>5 DEF SendAccepted, Holds, Loaded, Away, TypeOK, TokenInv, OwnerInv, NoNullOwner,
                            BuffersInv
  <2>6. CASE SendRefused(t)
    BY <1>0, <2>2, <2>6 DEF SendRefused, Holds, Loaded, Away, TypeOK, TokenInv, OwnerInv, NoNullOwner,
                            BuffersInv
  <2> QED
    BY <1>5, <2>3, <2>4, <2>5, <2>6
<1>6. ASSUME NEW t \in Workers, GetCompletion(t) PROVE TokenInv' /\ OwnerInv' /\ BuffersInv'
  <2>1. Away /\ Loaded /\ registered /\ ~inKernel /\ \A s \in Workers : ~Holds(s)
    BY <1>0, <1>6 DEF GetCompletion, Away, Loaded, TokenInv
  <2> QED
    BY <1>0, <1>6, <2>1 DEF GetCompletion, Holds, Loaded, Away, TypeOK, TokenInv, OwnerInv, NoNullOwner,
                            BuffersInv
<1>7. ASSUME NEW t \in Workers, ReadOwner(t) \/ ProcessSend(t) \/ CheckEmpty(t) \/ Unregister(t)
      PROVE  TokenInv' /\ OwnerInv' /\ BuffersInv'
  <2>1. Holds(t)
    BY <1>7 DEF ReadOwner, ProcessSend, CheckEmpty, Unregister, Holds
  <2>2. /\ registered /\ ~inKernel /\ completion = "none"
        /\ \A s \in Workers \ {t} : ~Holds(s)
    BY <2>1, Alone
  <2>3. CASE ReadOwner(t)
    <3>1. ownerSet /\ pc' = [pc EXCEPT ![t] = "complete"]
      BY <1>0, <2>3 DEF ReadOwner, OwnerInv, Loaded
    <3> QED
      BY <1>0, <2>2, <2>3, <3>1 DEF ReadOwner, Holds, Loaded, Away, TypeOK, TokenInv, OwnerInv,
                                    NoNullOwner, BuffersInv
  <2>4. CASE ProcessSend(t)
    <3>1. pc' = [pc EXCEPT ![t] = "disconnect"] \/ pc' = [pc EXCEPT ![t] = "check"]
      BY <2>4 DEF ProcessSend
    <3> QED
      BY <1>0, <2>2, <2>4, <3>1 DEF ProcessSend, Holds, Loaded, Away, TypeOK, TokenInv, OwnerInv,
                                    NoNullOwner, BuffersInv
  <2>5. CASE CheckEmpty(t)
    BY <1>0, <2>2, <2>5 DEF CheckEmpty, Holds, Loaded, Away, TypeOK, TokenInv, OwnerInv, NoNullOwner,
                            BuffersInv
  <2>6. CASE Unregister(t)
    BY <1>0, <2>2, <2>6 DEF Unregister, Holds, Loaded, Away, TypeOK, TokenInv, OwnerInv, NoNullOwner,
                            BuffersInv
  <2> QED
    BY <1>7, <2>3, <2>4, <2>5, <2>6
<1>8. CASE KernelCompletes
  <2>1. Away /\ Away' /\ completion' # "none" /\ ~inKernel'
    BY <1>8 DEF KernelCompletes, Away
  <2> QED
    BY <1>0, <1>8, <2>1 DEF KernelCompletes, Holds, Loaded, TokenInv, OwnerInv, NoNullOwner, BuffersInv
<1>9. CASE NetworkBreaks \/ ReceiveDisconnects \/ UNCHANGED vars
  BY <1>0, <1>9 DEF NetworkBreaks, ReceiveDisconnects, vars, Holds, Loaded, Away, TokenInv, OwnerInv,
                    NoNullOwner, BuffersInv
<1> QED
  BY <1>1, <1>2, <1>3, <1>4, <1>5, <1>6, <1>7, <1>8, <1>9 DEF Next, Continue

-----------------------------------------------------------------------------

\* A step of worker t that neither starts nor ends a completed send, and leaves the wire and the
\* event alone, keeps what is untransmitted.
LEMMA SameTransmitted ==
  ASSUME TypeOK, NEW t \in Workers, NEW step \in Steps, Goto(t, step),
         pc[t] \in {"read", "complete"} <=> step \in {"read", "complete"},
         UNCHANGED <<completion, bytes>>
  PROVE  Transmitted' <=> Transmitted
BY DEF TypeOK, Goto, Transmitted

\* The worker with the token that is not in ProcessSend's first half: nothing is transmitted yet.
LEMMA NotTransmitted ==
  ASSUME IInv, NEW t \in Workers, Holds(t), pc[t] \notin {"read", "complete"}
  PROVE  ~Transmitted
<1>1. completion = "none" /\ \A s \in Workers \ {t} : ~Holds(s)
  BY Alone
<1> QED
  BY <1>1 DEF Transmitted, Holds

-----------------------------------------------------------------------------
(* The abstract output. *)

\* What was joined comes apart again.
LEMMA SubSeqOfJoined ==
  ASSUME NEW S, NEW a \in Seq(S), NEW b \in Seq(S)
  PROVE  /\ SubSeq(a \o b, 1, Len(a)) = a
         /\ SubSeq(a \o b, Len(a) + 1, Len(a \o b)) = b
<1>1. /\ a \o b \in Seq(S) /\ Len(a \o b) = Len(a) + Len(b)
      /\ Len(a) \in Nat /\ Len(b) \in Nat
      /\ \A i \in 1..(Len(a) + Len(b)) : (a \o b)[i] = IF i <= Len(a) THEN a[i] ELSE b[i - Len(a)]
  BY ConcatProperties, LenProperties
<1>2. \A i \in 1..(Len(a) + Len(b)) : (a \o b)[i] \in S
  BY <1>1, ElementOfSeq
<1>3. SubSeq(a \o b, 1, Len(a)) = a
  <2> DEFINE u == SubSeq(a \o b, 1, Len(a))
  <2>1. \A i \in 1..Len(a) : (a \o b)[i] \in S
    BY <1>1, <1>2
  <2>2. /\ u \in Seq(S) /\ Len(u) = IF 1 <= Len(a) THEN Len(a) - 1 + 1 ELSE 0
        /\ \A i \in 1..(Len(a) - 1 + 1) : u[i] = (a \o b)[1 + i - 1]
    BY <1>1, <2>1, SubSeqProperties
  <2>3. Len(u) = Len(a) /\ \A i \in 1..Len(u) : u[i] = a[i]
    BY <1>1, <2>2
  <2> QED
    BY <2>2, <2>3, SeqEqual
<1>4. SubSeq(a \o b, Len(a) + 1, Len(a \o b)) = b
  <2> DEFINE ab == a \o b
             from == Len(a) + 1
             to == Len(a) + Len(b)
             u == SubSeq(ab, from, to)
  <2>1. from \in Int /\ to \in Int /\ \A i \in from..to : ab[i] \in S
    BY <1>1, <1>2
  <2>2. /\ u \in Seq(S) /\ Len(u) = IF from <= to THEN to - from + 1 ELSE 0
        /\ \A i \in 1..(to - from + 1) : u[i] = ab[from + i - 1]
    <3> HIDE DEF ab, from, to
    <3> QED
      BY <2>1, SubSeqProperties
  <2>3. Len(u) = Len(b) /\ \A i \in 1..Len(u) : u[i] = b[i]
    BY <1>1, <2>2
  <2>4. u = b
    BY <2>2, <2>3, SeqEqual
  <2> QED
    BY <1>1, <2>4
<1> QED
  BY <1>3, <1>4

\* The steps that neither move a message past the event nor open or close the session.
LEMMA Unseen ==
  ASSUME UNCHANGED <<connected, wire, pushed, sendQueue>>, Untransmitted' = Untransmitted,
         \A t \in Workers : pc'[t] = "disconnect" <=> pc[t] = "disconnect"
  PROVE  UNCHANGED Output!vars
BY DEF Output!vars, OutputState

\* A worker that holds the token and gives up a send fails it for good.
LEMMA FailedSend ==
  ASSUME TypeOK, NEW t \in Workers, Goto(t, "disconnect"), ~Transmitted,
         sendBuffers' = <<>>, UNCHANGED <<connected, sendQueue, wire, pushed>>
  PROVE  Output!Fail
<1>1. sendBuffers \in Seq(Msgs) /\ sendQueue \in Seq(Msgs)
  BY DEF TypeOK
<1>2. Untransmitted = sendBuffers /\ Untransmitted' = <<>>
  BY DEF Untransmitted
<1>3. (Untransmitted \o sendQueue)' = sendQueue
  BY <1>1, <1>2, ConcatEmptySeq
<1>4. SubSeq(Untransmitted \o sendQueue, Len(sendBuffers) + 1, Len(Untransmitted \o sendQueue)) = sendQueue
  BY <1>1, <1>2, SubSeqOfJoined
<1>5. Len(sendBuffers) \in 0..Len(Untransmitted \o sendQueue)
  BY <1>1, <1>2, ConcatProperties, LenProperties
<1>6. pc'[t] = "disconnect"
  BY DEF TypeOK, Goto
<1>7. /\ OutputState' \in {"failing", "closed"}
      /\ OutputState = "closed" <=> OutputState' = "closed"
  BY <1>6 DEF OutputState
<1> QED
  BY <1>3, <1>4, <1>5, <1>7 DEF Output!Fail, Output!AllBut

\* Each step of the sending half is a step of the abstract output, or none that it can tell.
LEMMA StepRefines == IInv /\ [Next]_vars => [Output!Next]_(Output!vars)
<1> SUFFICES ASSUME IInv, [Next]_vars PROVE [Output!Next]_(Output!vars)
  OBVIOUS
<1> USE DEF eventVars, kernelVars
<1>a. TypeOK /\ MsgInv /\ TokenInv
  BY DEF IInv
<1>b. Untransmitted \in Seq(Msgs)
  BY <1>a, EmptySeq DEF Untransmitted, TypeOK
<1>c. wire \in Seq(Msgs) /\ sendBuffers \in Seq(Msgs) /\ sendQueue \in Seq(Msgs)
  BY <1>a DEF TypeOK
<1>1. ASSUME NEW t \in Workers, NEW step \in Steps \ {"disconnect"}, Goto(t, step),
             pc[t] # "disconnect",
             pc[t] \in {"read", "complete"} <=> step \in {"read", "complete"},
             UNCHANGED <<completion, bytes, connected, wire, pushed, sendQueue, sendBuffers>>
      PROVE  UNCHANGED Output!vars
  <2>1. Transmitted' <=> Transmitted
    BY <1>a, <1>1, SameTransmitted
  <2>2. \A s \in Workers : pc'[s] = "disconnect" <=> pc[s] = "disconnect"
    BY <1>a, <1>1 DEF Goto, TypeOK
  <2> QED
    BY <1>1, <2>1, <2>2, Unseen DEF Untransmitted
<1>2. ASSUME NEW t \in Workers, NEW m \in Msgs, Send(t, m) PROVE UNCHANGED Output!vars
  BY <1>1, <1>2 DEF Send, Steps
<1>3. ASSUME NEW t \in Workers, PushBuffer(t) PROVE Output!Push(msg[t]) /\ msg[t] \in Msgs
  <2>1. msg[t] \in Msgs
    BY <1>a, <1>3 DEF PushBuffer, MsgInv
  <2>2. Transmitted' <=> Transmitted
    BY <1>a, <1>3, SameTransmitted DEF PushBuffer, Steps
  <2>3. Untransmitted' = Untransmitted
    BY <1>3, <2>2 DEF PushBuffer, Untransmitted
  <2>4. (Untransmitted \o sendQueue)' = Append(Untransmitted \o sendQueue, msg[t])
    BY <1>b, <1>c, <1>3, <2>1, <2>3, PushBack DEF PushBuffer
  <2>5. OutputState' = OutputState
    BY <1>a, <1>3 DEF PushBuffer, Goto, TypeOK, OutputState
  <2> QED
    BY <1>3, <2>1, <2>4, <2>5 DEF PushBuffer, Output!Push
<1>4. ASSUME NEW t \in Workers, ClaimSend(t) \/ RegisterSend(t) \/ SendAccepted(t)
      PROVE  UNCHANGED Output!vars
  <2>1. /\ pc[t] \in {"claim", "register", "wsasend"}
        /\ \E step \in {"idle", "register", "gather"} : Goto(t, step)
        /\ UNCHANGED <<completion, bytes, connected, wire, pushed, sendQueue, sendBuffers>>
    BY <1>4 DEF ClaimSend, RegisterSend, SendAccepted
  <2> QED
    BY <1>1, <2>1 DEF Steps
<1>5. ASSUME NEW t \in Workers, GatherOne(t) PROVE UNCHANGED Output!vars
  <2>1. ~Transmitted
    BY <1>5, NotTransmitted DEF GatherOne, Holds
  <2>2. CASE /\ sendQueue # <<>> /\ UNCHANGED pc
             /\ sendBuffers' = Append(sendBuffers, Head(sendQueue)) /\ sendQueue' = Tail(sendQueue)
    <3>1. ~Transmitted'
      BY <1>5, <2>1, <2>2 DEF GatherOne, Transmitted
    <3>2. Append(sendBuffers, Head(sendQueue)) \o Tail(sendQueue) = sendBuffers \o sendQueue
      <4>1. sendQueue # <<>>
        BY <2>2
      <4> HIDE <2>2
      <4> QED
        BY <1>c, <4>1, MoveHead
    <3>3. (Untransmitted \o sendQueue)' = Untransmitted \o sendQueue
      BY <2>1, <2>2, <3>1, <3>2 DEF Untransmitted
    <3>4. OutputState' = OutputState
      BY <1>5, <2>2 DEF GatherOne, OutputState
    <3> QED
      BY <1>5, <3>3, <3>4 DEF GatherOne, Output!vars
  <2>3. CASE Goto(t, "wsasend") /\ UNCHANGED <<sendBuffers, sendQueue>>
    BY <1>1, <1>5, <2>3 DEF GatherOne, Steps
  <2> QED
    BY <1>5, <2>2, <2>3 DEF GatherOne
<1>6. ASSUME NEW t \in Workers, SendRefused(t) PROVE Output!Fail
  <2>1. ~Transmitted
    BY <1>6, NotTransmitted DEF SendRefused, Holds
  <2> QED
    BY <1>a, <1>6, <2>1, FailedSend DEF SendRefused
<1>7. ASSUME NEW t \in Workers, Disconnect(t) PROVE [Output!Next]_(Output!vars)
  <2>1. Transmitted' <=> Transmitted
    BY <1>a, <1>7, SameTransmitted DEF Disconnect, Steps
  <2>2. OutputState' = "closed" /\ (Untransmitted \o sendQueue)' = Untransmitted \o sendQueue
    BY <1>7, <2>1 DEF Disconnect, OutputState, Untransmitted
  <2> QED
    BY <1>7, <2>2 DEF Disconnect, Output!Next, Output!Close, Output!vars
<1>8. ASSUME NEW t \in Workers, GetCompletion(t) PROVE UNCHANGED Output!vars
  <2>1. \A s \in Workers : ~Holds(s)
    BY <1>a, <1>8 DEF GetCompletion, TokenInv, Away
  <2>2. Transmitted <=> completion = "sent"
    BY <2>1 DEF Transmitted, Holds
  <2>3. Transmitted' <=> completion = "sent"
    BY <1>a, <1>8, <2>1 DEF GetCompletion, Transmitted, Holds, TypeOK, Goto
  <2>4. \A s \in Workers : pc'[s] = "disconnect" <=> pc[s] = "disconnect"
    BY <1>a, <1>8 DEF GetCompletion, TypeOK, Goto
  <2> QED
    BY <1>8, <2>2, <2>3, <2>4, Unseen DEF GetCompletion, Untransmitted
<1>9. ASSUME NEW t \in Workers, ReadOwner(t) PROVE UNCHANGED Output!vars
  <2>1. ownerSet
    BY <1>9 DEF IInv, ReadOwner, OwnerInv, Loaded
  <2> QED
    BY <1>1, <1>9, <2>1 DEF ReadOwner, Steps
<1>10. ASSUME NEW t \in Workers, ProcessSend(t) PROVE [Output!Next]_(Output!vars)
  <2>1. CASE bytes[t] = "zero"
    <3>1. completion = "none" /\ \A s \in Workers \ {t} : ~Holds(s)
      BY <1>10, Alone DEF ProcessSend, Holds
    <3>2. ~Transmitted
      BY <2>1, <3>1 DEF Transmitted, Holds
    <3> QED
      BY <1>a, <1>10, <2>1, <3>2, FailedSend DEF ProcessSend, Output!Next
  <2>2. CASE bytes[t] # "zero"
    <3>1. bytes[t] = "sent"
      BY <1>a, <1>10, <2>2 DEF IInv, BytesInv, ProcessSend, TypeOK
    <3>2. Untransmitted = <<>> /\ Untransmitted' = <<>>
      BY <1>10, <3>1 DEF ProcessSend, Untransmitted, Transmitted
    <3>3. \A s \in Workers : pc'[s] = "disconnect" <=> pc[s] = "disconnect"
      BY <1>a, <1>10, <2>2 DEF ProcessSend, Goto, TypeOK
    <3> QED
      BY <1>10, <3>2, <3>3, Unseen DEF ProcessSend
  <2> QED
    BY <2>1, <2>2
<1>11. ASSUME NEW t \in Workers, CheckEmpty(t) \/ Unregister(t) PROVE UNCHANGED Output!vars
  <2>1. /\ pc[t] \in {"check", "unregister"}
        /\ \E step \in {"idle", "register", "unregister"} : Goto(t, step)
        /\ UNCHANGED <<completion, bytes, connected, wire, pushed, sendQueue, sendBuffers>>
    BY <1>11 DEF CheckEmpty, Unregister
  <2> QED
    BY <1>1, <2>1 DEF Steps
<1>12. CASE KernelCompletes
  <2>1. ~Transmitted /\ \A s \in Workers : ~Holds(s)
    BY <1>a, <1>12 DEF KernelCompletes, TokenInv, Away, Transmitted, Holds
  <2>2. UNCHANGED <<connected, pc, sendQueue, sendBuffers, pushed>>
    BY <1>12 DEF KernelCompletes
  <2>3. CASE completion' = "zero" /\ UNCHANGED wire
    <3>1. ~Transmitted'
      BY <2>1, <2>2, <2>3 DEF Transmitted, Holds
    <3> QED
      BY <2>1, <2>2, <2>3, <3>1, Unseen DEF Untransmitted
  <2>4. CASE sendBuffers # <<>> /\ completion' = "sent" /\ wire' = wire \o sendBuffers
    <3>1. Untransmitted = sendBuffers /\ Untransmitted' = <<>>
      BY <2>1, <2>4 DEF Untransmitted, Transmitted
    <3>2. (Untransmitted \o sendQueue)' = sendQueue
      BY <1>c, <2>2, <3>1, ConcatEmptySeq
    <3>3. Len(sendBuffers) \in 1..Len(Untransmitted \o sendQueue)
      <4>1. Len(sendBuffers) \in Nat /\ Len(sendBuffers) # 0 /\ Len(sendQueue) \in Nat
        BY <1>c, <2>4, LenProperties, EmptySeq
      <4> QED
        BY <1>c, <3>1, <4>1, ConcatProperties
    <3>4. /\ SubSeq(Untransmitted \o sendQueue, 1, Len(sendBuffers)) = sendBuffers
          /\ SubSeq(Untransmitted \o sendQueue, Len(sendBuffers) + 1, Len(Untransmitted \o sendQueue))
               = sendQueue
      BY <1>c, <3>1, SubSeqOfJoined
    <3>5. OutputState' = OutputState
      BY <2>2 DEF OutputState
    <3>6. Output!Deliver
      BY <2>2, <2>4, <3>2, <3>3, <3>4, <3>5 DEF Output!Deliver, Output!Oldest, Output!AllBut
    <3> QED
      BY <3>6 DEF Output!Next
  <2> QED
    BY <1>12, <2>3, <2>4 DEF KernelCompletes
<1>13. CASE NetworkBreaks \/ UNCHANGED vars
  BY <1>13, Unseen DEF NetworkBreaks, vars, Untransmitted, Transmitted
<1>14. CASE ReceiveDisconnects
  <2>1. Untransmitted' = Untransmitted
    BY <1>14 DEF ReceiveDisconnects, Untransmitted, Transmitted
  <2>2. Output!Close
    BY <1>14, <2>1 DEF ReceiveDisconnects, Output!Close, OutputState
  <2> QED
    BY <2>2 DEF Output!Next
<1> QED
  BY <1>2, <1>3, <1>4, <1>5, <1>6, <1>7, <1>8, <1>9, <1>10, <1>11, <1>12, <1>13, <1>14
     DEF Next, Continue, Output!Next

-----------------------------------------------------------------------------
(* What follows from the abstract output. *)

\* A sequence still embeds with the same element at the end of both.
LEMMA EmbedAppended ==
  ASSUME NEW S, NEW s \in Seq(S), NEW t \in Seq(S), NEW m \in S, Output!Embeds(s, t)
  PROVE  Output!Embeds(Append(s, m), Append(t, m))
<1> DEFINE u == Append(s, m)
           v == Append(t, m)
<1>1. PICK at \in [1..Len(s) -> 1..Len(t)] :
        /\ \A i, j \in 1..Len(s) : i < j => at[i] < at[j]
        /\ \A i \in 1..Len(s) : s[i] = t[at[i]]
  BY DEF Output!Embeds
<1>2. /\ Len(s) \in Nat /\ Len(t) \in Nat /\ Len(u) = Len(s) + 1 /\ Len(v) = Len(t) + 1
      /\ \A i \in 1..Len(s) : u[i] = s[i]
      /\ \A i \in 1..Len(t) : v[i] = t[i]
      /\ u[Len(s) + 1] = m /\ v[Len(t) + 1] = m
  BY AppendProperties, LenProperties
<1> DEFINE to == [i \in 1..Len(u) |-> IF i = Len(u) THEN Len(v) ELSE at[i]]
<1> HIDE DEF u, v
<1>3. to \in [1..Len(u) -> 1..Len(v)]
  BY <1>2
<1>4. \A i \in 1..Len(s) : to[i] = at[i] /\ at[i] \in 1..Len(t)
  BY <1>2
<1>5. to[Len(s) + 1] = Len(v)
  BY <1>2
<1>6. \A i \in 1..Len(u) : i \in 1..Len(s) \/ i = Len(s) + 1
  BY <1>2
<1> HIDE DEF to
<1>7. ASSUME NEW i \in 1..Len(u), NEW j \in 1..Len(u), i < j PROVE to[i] < to[j]
  <2>1. i \in 1..Len(s)
    BY <1>2, <1>6, <1>7
  <2>2. CASE j \in 1..Len(s)
    BY <1>1, <1>4, <1>7, <2>1, <2>2
  <2>3. CASE j = Len(s) + 1
    BY <1>2, <1>4, <1>5, <2>1, <2>3
  <2> QED
    BY <1>6, <2>2, <2>3
<1>8. ASSUME NEW i \in 1..Len(u) PROVE u[i] = v[to[i]]
  <2>1. CASE i \in 1..Len(s)
    BY <1>1, <1>2, <1>4, <2>1
  <2>2. CASE i = Len(s) + 1
    BY <1>2, <1>5, <2>2
  <2> QED
    BY <1>6, <2>1, <2>2
<1> QED
  BY <1>3, <1>7, <1>8 DEF Output!Embeds, u, v

\* A sequence still embeds with a middle part left out.
LEMMA EmbedWithout ==
  ASSUME NEW S, NEW a \in Seq(S), NEW b \in Seq(S), NEW c \in Seq(S), NEW t \in Seq(S),
         Output!Embeds(a \o (b \o c), t)
  PROVE  Output!Embeds(a \o c, t)
<1> DEFINE s == a \o (b \o c)
           u == a \o c
           A == Len(a)
           B == Len(b)
           C == Len(c)
<1>1. PICK at \in [1..Len(s) -> 1..Len(t)] :
        /\ \A i, j \in 1..Len(s) : i < j => at[i] < at[j]
        /\ \A i \in 1..Len(s) : s[i] = t[at[i]]
  BY DEF Output!Embeds
<1>2. A \in Nat /\ B \in Nat /\ C \in Nat /\ Len(t) \in Nat
  BY LenProperties
<1>3. /\ Len(u) = A + C
      /\ \A i \in 1..(A + C) : u[i] = IF i <= A THEN a[i] ELSE c[i - A]
  BY ConcatProperties
<1>4. /\ b \o c \in Seq(S) /\ Len(b \o c) = B + C
      /\ \A i \in 1..(B + C) : (b \o c)[i] = IF i <= B THEN b[i] ELSE c[i - B]
  BY ConcatProperties
<1>5. /\ Len(s) = A + (B + C)
      /\ \A i \in 1..(A + (B + C)) : s[i] = IF i <= A THEN a[i] ELSE (b \o c)[i - A]
  BY <1>4, ConcatProperties
<1> DEFINE from == [i \in 1..(A + C) |-> IF i <= A THEN i ELSE i + B]
<1>6. /\ \A i \in 1..(A + C) : from[i] \in 1..Len(s)
      /\ \A i, j \in 1..(A + C) : i < j => from[i] < from[j]
  BY <1>2, <1>5
<1>7. ASSUME NEW i \in 1..(A + C) PROVE u[i] = s[from[i]]
  <2>1. CASE i <= A
    <3>1. from[i] = i /\ i \in 1..(A + (B + C)) /\ u[i] = a[i]
      BY <1>2, <1>3, <2>1
    <3> QED
      BY <1>5, <2>1, <3>1
  <2>2. CASE ~(i <= A)
    <3>1. from[i] = i + B /\ i + B \in 1..(A + (B + C)) /\ ~(i + B <= A) /\ u[i] = c[i - A]
      BY <1>2, <1>3, <2>2
    <3>2. s[i + B] = (b \o c)[i + B - A]
      BY <1>5, <3>1
    <3>3. i + B - A \in 1..(B + C) /\ ~(i + B - A <= B) /\ i + B - A - B = i - A
      BY <1>2, <2>2
    <3> QED
      BY <1>4, <3>1, <3>2, <3>3
  <2> QED
    BY <2>1, <2>2
<1> HIDE DEF from, s, u, A, B, C
<1> DEFINE kept == [i \in 1..Len(u) |-> at[from[i]]]
<1>8. kept \in [1..Len(u) -> 1..Len(t)]
  BY <1>1, <1>3, <1>6
<1>9. \A i, j \in 1..Len(u) : i < j => kept[i] < kept[j]
  BY <1>1, <1>3, <1>6
<1>10. \A i \in 1..Len(u) : u[i] = t[kept[i]]
  BY <1>1, <1>3, <1>6, <1>7
<1> HIDE DEF kept
<1> QED
  BY <1>8, <1>9, <1>10 DEF Output!Embeds, u

\* A sequence is its first n elements and the others.
LEMMA CutAt ==
  ASSUME NEW S, NEW q \in Seq(S), NEW n \in 0..Len(q)
  PROVE  /\ SubSeq(q, 1, n) \in Seq(S) /\ SubSeq(q, n + 1, Len(q)) \in Seq(S)
         /\ SubSeq(q, 1, n) \o SubSeq(q, n + 1, Len(q)) = q
<1>1. Len(q) \in Nat /\ n \in Nat /\ n <= Len(q) /\ \A i \in 1..Len(q) : q[i] \in S
  BY LenProperties, ElementOfSeq
<1>2. SubSeq(q, 1, n) \in Seq(S)
  <2>1. \A i \in 1..n : q[i] \in S
    BY <1>1
  <2> QED
    BY <1>1, <2>1, SubSeqProperties
<1>3. SubSeq(q, n + 1, Len(q)) \in Seq(S)
  <2>1. n + 1 \in Int /\ Len(q) \in Int /\ \A i \in (n + 1)..Len(q) : q[i] \in S
    BY <1>1
  <2> QED
    BY <2>1, SubSeqProperties
<1>4. SubSeq(q, 1, n) \o SubSeq(q, n + 1, Len(q)) = SubSeq(q, 1, Len(q))
  <2>1. 1 \in 1..(Len(q) + 1) /\ n \in (1 - 1)..Len(q) /\ Len(q) \in n..Len(q)
    BY <1>1
  <2> QED
    BY <2>1, ConcatAdjacentSubSeq
<1> QED
  BY <1>2, <1>3, <1>4, SubSeqFull

\* The state of the abstract output, its types, and what follows from it.
OutputInv == Output!TypeOK /\ Output!NoGapWhileOpen /\ Output!InOrder

\* Nothing has been pushed: nothing is out of order.
LEMMA OutputInit == Output!Init => OutputInv
<1> SUFFICES ASSUME Output!Init PROVE OutputInv
  OBVIOUS
<1> DEFINE q == Untransmitted \o sendQueue
<1>1. OutputState = "open" /\ q = <<>> /\ wire = <<>> /\ pushed = <<>>
  BY DEF Output!Init
<1> HIDE DEF q
<1>2. wire \o q = <<>> /\ q \in Seq(Msgs) /\ wire \in Seq(Msgs) /\ pushed \in Seq(Msgs)
  BY <1>1, ConcatEmptySeq, EmptySeq
<1>3. Output!Embeds(<<>>, <<>>)
  <2> DEFINE at == [i \in 1..0 |-> i]
  <2>1. at \in [1..Len(<<>>) -> 1..Len(<<>>)] /\ Len(<<>>) = 0
    OBVIOUS
  <2> QED
    BY <2>1 DEF Output!Embeds
<1> USE DEF q
<1> QED
  BY <1>1, <1>2, <1>3 DEF OutputInv, Output!TypeOK, Output!NoGapWhileOpen, Output!InOrder

\* Whatever the abstract output does keeps the order, and the whole while it is open.
LEMMA OutputStep == OutputInv /\ [Output!Next]_(Output!vars) => OutputInv'
<1> SUFFICES ASSUME OutputInv, [Output!Next]_(Output!vars) PROVE OutputInv'
  OBVIOUS
<1> DEFINE q == Untransmitted \o sendQueue
           Inv == /\ OutputState \in {"open", "failing", "closed"}
                  /\ q \in Seq(Msgs) /\ wire \in Seq(Msgs) /\ pushed \in Seq(Msgs)
                  /\ OutputState = "open" => pushed = wire \o q
                  /\ Output!Embeds(wire \o q, pushed)
<1>1. Inv
  BY DEF OutputInv, Output!TypeOK, Output!NoGapWhileOpen, Output!InOrder
<1> SUFFICES Inv'
  BY DEF OutputInv, Output!TypeOK, Output!NoGapWhileOpen, Output!InOrder
<1>2. ASSUME NEW m \in Msgs, Output!Push(m) PROVE Inv'
  <2>1. q' = Append(q, m) /\ pushed' = Append(pushed, m) /\ OutputState' = OutputState /\ wire' = wire
    BY <1>2 DEF Output!Push
  <2> HIDE DEF q
  <2>2. wire \o q \in Seq(Msgs) /\ wire \o Append(q, m) = Append(wire \o q, m)
    BY <1>1, PushBack, ConcatProperties
  <2>3. Output!Embeds(Append(wire \o q, m), Append(pushed, m))
    BY <1>1, <2>2, EmbedAppended
  <2>4. q' \in Seq(Msgs) /\ pushed' \in Seq(Msgs)
    BY <1>1, <2>1, AppendProperties
  <2> QED
    BY <1>1, <2>1, <2>2, <2>3, <2>4
<1>3. ASSUME Output!Deliver PROVE Inv'
  <2>1. PICK n \in 1..Len(q) : /\ wire' = wire \o SubSeq(q, 1, n) /\ q' = SubSeq(q, n + 1, Len(q))
                               /\ pushed' = pushed /\ OutputState' = OutputState
    BY <1>3 DEF Output!Deliver, Output!Oldest, Output!AllBut
  <2> HIDE DEF q
  <2>2. n \in 0..Len(q)
    BY <1>1, LenProperties
  <2> DEFINE a == SubSeq(q, 1, n)
             b == SubSeq(q, n + 1, Len(q))
  <2>3. a \in Seq(Msgs) /\ b \in Seq(Msgs) /\ a \o b = q
    BY <1>1, <2>2, CutAt
  <2> HIDE DEF a, b
  <2>4. (wire \o a) \o b = wire \o q /\ wire \o a \in Seq(Msgs)
    <3>1. wire \in Seq(Msgs) /\ a \in Seq(Msgs) /\ b \in Seq(Msgs)
      BY <1>1, <2>3
    <3>2. (wire \o a) \o b = wire \o (a \o b)
      BY <3>1, ConcatAssociative
    <3> QED
      BY <2>3, <3>1, <3>2, ConcatProperties
  <2>5. wire' = wire \o a /\ q' = b
    BY <2>1 DEF a, b
  <2> QED
    BY <1>1, <2>1, <2>3, <2>4, <2>5
<1>4. ASSUME Output!Fail PROVE Inv'
  <2>1. PICK n \in 0..Len(q) : /\ q' = SubSeq(q, n + 1, Len(q)) /\ OutputState' \in {"failing", "closed"}
                               /\ wire' = wire /\ pushed' = pushed
    BY <1>4 DEF Output!Fail, Output!AllBut
  <2> HIDE DEF q
  <2> DEFINE a == SubSeq(q, 1, n)
             b == SubSeq(q, n + 1, Len(q))
  <2>2. a \in Seq(Msgs) /\ b \in Seq(Msgs) /\ a \o b = q
    BY <1>1, CutAt
  <2> HIDE DEF a, b
  <2>3. Output!Embeds(wire \o b, pushed)
    BY <1>1, <2>2, EmbedWithout
  <2>4. q' = b
    BY <2>1 DEF b
  <2> QED
    BY <1>1, <2>1, <2>2, <2>3, <2>4
<1>5. CASE Output!Close
  <2>1. q' = q /\ wire' = wire /\ pushed' = pushed /\ OutputState' = "closed"
    BY <1>5 DEF Output!Close
  <2> HIDE DEF q
  <2> QED
    BY <1>1, <2>1
<1>6. CASE UNCHANGED Output!vars
  <2>1. q' = q /\ wire' = wire /\ pushed' = pushed /\ OutputState' = OutputState
    BY <1>6 DEF Output!vars
  <2> HIDE DEF q
  <2> QED
    BY <1>1, <2>1
<1> QED
  BY <1>2, <1>3, <1>4, <1>5, <1>6 DEF Output!Next

-----------------------------------------------------------------------------

\* The invariant holds in every reachable state.
LEMMA IInvHolds == Spec => []IInv
<1>1. IInv /\ [Next]_vars => IInv'
  BY TypeStep, TokenStep, BytesStep DEF IInv
<1> QED
  BY InitIInv, <1>1, PTL DEF Spec

\* Every variable keeps its type.
THEOREM TypeCorrectness == Spec => []TypeOK
<1>1. IInv => TypeOK
  BY DEF IInv
<1> QED
  BY IInvHolds, <1>1, PTL

\* The one SendEvent belongs to one worker or to the kernel, never to two, and no worker
\* dispatches a completion whose owner ProcessSend or RegisterSend has cleared.
THEOREM EventExclusiveHolds == Spec => []EventExclusive
<1>1. IInv => EventExclusive
  <2> SUFFICES ASSUME IInv PROVE EventExclusive
    OBVIOUS
  <2>1. NoNullOwner
    BY DEF IInv, OwnerInv
  <2>2. ASSUME NEW t \in Workers, Holds(t)
        PROVE  ~inKernel /\ completion = "none" /\ \A s \in Workers \ {t} : ~Holds(s)
    BY <2>2, Alone
  <2> QED
    BY <2>1, <2>2 DEF EventExclusive
<1> QED
  BY IInvHolds, <1>1, PTL

\* The sending half of a session keeps the promise of OutputStream: Send, RegisterSend and
\* ProcessSend on any number of threads look like one queue that is sent from the front.
THEOREM Refinement == Spec => ImplementsOutputStream
<1>1. Init => Output!Init
  BY DEF Init, Output!Init, OutputState, Untransmitted, Transmitted
<1> QED
  BY <1>1, IInvHolds, StepRefines, PTL DEF Spec, ImplementsOutputStream, Output!Spec

\* What is proved of the abstract output holds of the session.
LEMMA OutputInvHolds == Spec => []OutputInv
BY Refinement, OutputInit, OutputStep, PTL DEF ImplementsOutputStream, Output!Spec

\* The peer gets the messages in the order of the pushes and each at most once, also when a send
\* fails and a later one succeeds before the session is closed.
THEOREM SentInOrderHolds == Spec => []SentInOrder
<1>1. OutputInv => SentInOrder
  BY DEF OutputInv, SentInOrder
<1> QED
  BY OutputInvHolds, <1>1, PTL

\* While the session stays open every message pushed is on the wire, in the event or in the
\* queue, once and in the order of the pushes.
THEOREM NothingLostWhileOpenHolds == Spec => []NothingLostWhileOpen
<1>1. TypeOK /\ OutputInv => NothingLostWhileOpen
  <2> SUFFICES ASSUME TypeOK, OutputInv, connected, \A t \in Workers : pc[t] # "disconnect"
               PROVE  pushed = wire \o Untransmitted \o sendQueue
    BY DEF NothingLostWhileOpen
  <2>1. pushed = wire \o (Untransmitted \o sendQueue)
    BY DEF OutputInv, Output!NoGapWhileOpen, OutputState
  <2>2. wire \in Seq(Msgs) /\ Untransmitted \in Seq(Msgs) /\ sendQueue \in Seq(Msgs)
    BY EmptySeq DEF TypeOK, Untransmitted
  <2>3. (wire \o Untransmitted) \o sendQueue = wire \o (Untransmitted \o sendQueue)
    BY <2>2, ConcatAssociative
  <2> QED
    BY <2>1, <2>3
<1> QED
  BY TypeCorrectness, OutputInvHolds, <1>1, PTL

\* A message is stranded only by the release of _sendRegistered in ProcessSend, after its
\* emptiness test: every other step leaves somebody who will gather it.
THEOREM StrandedOnlyByUnregisterHolds == Spec => StrandedOnlyByUnregister
<1>1. IInv /\ [Next]_vars => [~Stranded /\ Stranded' => \E t \in Workers : Unregister(t)]_vars
  <2> SUFFICES ASSUME IInv, Next, Stranded', ~\E t \in Workers : Unregister(t)
               PROVE  Stranded
    OBVIOUS
  <2> USE DEF Goto, eventVars, kernelVars
  <2>a. TypeOK /\ TokenInv
    BY DEF IInv
  <2>b. /\ connected' /\ sendQueue' # <<>> /\ ~registered'
        /\ \A t \in Workers : pc'[t] \notin {"claim", "disconnect"}
    BY DEF Stranded
  <2>1. ASSUME NEW t \in Workers, NEW m \in Msgs, Send(t, m) PROVE Stranded
    BY <2>a, <2>b, <2>1 DEF Send, Stranded, TypeOK
  <2>2. ASSUME NEW t \in Workers, PushBuffer(t) \/ SendRefused(t) \/ Disconnect(t) PROVE FALSE
    BY <2>a, <2>b, <2>2 DEF PushBuffer, SendRefused, Disconnect, TypeOK
  <2>3. ASSUME NEW t \in Workers, ClaimSend(t) PROVE FALSE
    BY <2>a, <2>b, <2>3 DEF ClaimSend, TypeOK
  <2>4. ASSUME NEW t \in Workers,
               RegisterSend(t) \/ GatherOne(t) \/ SendAccepted(t) \/ ReadOwner(t)
                 \/ ProcessSend(t) \/ CheckEmpty(t)
        PROVE  FALSE
    <3>1. Holds(t) /\ registered' = registered
      BY <2>4 DEF RegisterSend, GatherOne, SendAccepted, ReadOwner, ProcessSend, CheckEmpty, Holds
    <3> QED
      BY <2>a, <2>b, <3>1 DEF TokenInv
  <2>5. ASSUME NEW t \in Workers, GetCompletion(t) PROVE FALSE
    BY <2>a, <2>b, <2>5 DEF GetCompletion, TokenInv, Away
  <2>6. CASE KernelCompletes \/ NetworkBreaks
    <3>1. UNCHANGED <<connected, sendQueue, registered, pc>>
      BY <2>6 DEF KernelCompletes, NetworkBreaks
    <3> QED
      BY <2>b, <3>1 DEF Stranded
  <2>7. CASE ReceiveDisconnects
    BY <2>b, <2>7 DEF ReceiveDisconnects
  <2> QED
    BY <2>1, <2>2, <2>3, <2>4, <2>5, <2>6, <2>7 DEF Next, Continue
<1> QED
  BY IInvHolds, <1>1, PTL DEF Spec, StrandedOnlyByUnregister

-----------------------------------------------------------------------------
(***************************************************************************)
(* Receiving.  The positions stay in the buffer whatever the bytes say.    *)
(* What is cut out of it is right until CleanCheck has put stale bytes     *)
(* behind a rest it moved: up to then the buffer holds the last bytes      *)
(* received, and the parser stands where the next packet begins.           *)
(***************************************************************************)

\* Induction over the natural numbers, for a set of them.
LEMMA SetInduction ==
  ASSUME NEW S, 0 \in S, \A n \in Nat : n \in S => n + 1 \in S
  PROVE  Nat \subseteq S
<1> DEFINE T == Nat \ S
           R == {p \in Nat \X Nat : p[1] < p[2]}
<1> SUFFICES ASSUME T # {} PROVE FALSE
  OBVIOUS
<1>1. IsWellFoundedOn(R, Nat)
  <2>1. OpToRel(<, Nat) = R
    BY Zenon DEF OpToRel
  <2> QED
    BY <2>1, NatLessThanWellFounded, Zenon
<1>2. PICK t \in T : \A y \in T : ~(<<y, t>> \in R)
  <2>1. T \subseteq Nat
    OBVIOUS
  <2> HIDE DEF R, T
  <2> QED
    BY <1>1, <2>1, WFMin
<1>3. t # 0 /\ t - 1 \in Nat
  OBVIOUS
<1>4. <<t - 1, t>> \in R
  BY <1>3
<1>5. t - 1 \in S
  BY <1>2, <1>3, <1>4
<1> QED
  BY <1>3, <1>5

\* Begin satisfies its recursion.
LEMMA BeginDef ==
  ASSUME sizes \in [Packets -> Nat]
  PROVE  Begin = [k \in 1..(Count + 1) |-> IF k = 1 THEN 1 ELSE Begin[k - 1] + sizes[k - 1]]
<1> DEFINE Step(g, k) == IF k = 1 THEN 1 ELSE g[k - 1] + sizes[k - 1]
           Upto(n, g) == g \in [1..(n + 1) -> Nat] /\ \A k \in 1..(n + 1) : g[k] = Step(g, k)
           S == {n \in Nat : n <= Count => \E g : Upto(n, g)}
<1> USE SizesAssumption
<1>1. 0 \in S
  <2>1. Upto(0, [k \in 1..1 |-> 1])
    OBVIOUS
  <2> QED
    BY <2>1
<1>2. ASSUME NEW n \in Nat, n \in S PROVE n + 1 \in S
  <2> SUFFICES ASSUME n + 1 <= Count PROVE \E g : Upto(n + 1, g)
    OBVIOUS
  <2>1. PICK g : Upto(n, g)
    <3> HIDE DEF Upto
    <3> QED
      BY <1>2
  <2> DEFINE h == [k \in 1..(n + 2) |-> IF k = n + 2 THEN g[n + 1] + sizes[n + 1] ELSE g[k]]
  <2>2. n + 1 \in Packets /\ sizes[n + 1] \in Nat /\ g[n + 1] \in Nat
    BY <2>1 DEF Packets
  <2>3. h \in [1..(n + 2) -> Nat]
    BY <2>1, <2>2
  <2>4. ASSUME NEW k \in 1..(n + 2) PROVE h[k] = Step(h, k)
    BY <2>1
  <2>5. Upto(n + 1, h)
    BY <2>3, <2>4
  <2> HIDE DEF Upto, h
  <2> QED
    BY <2>5
<1>3. Count \in S
  BY <1>1, <1>2, SetInduction
<1>4. PICK g : Upto(Count, g)
  BY <1>3
<1>5. g = [k \in 1..(Count + 1) |-> Step(g, k)]
  BY <1>4
<1> QED
  BY <1>5 DEF Begin

\* Every packet begins behind the one before it.
LEMMA BeginGrows ==
  ASSUME sizes \in [Packets -> PacketSizes]
  PROVE  /\ Begin \in [1..(Count + 1) -> Nat]
         /\ Begin[1] = 1
         /\ \A k \in Packets : Begin[k + 1] = Begin[k] + sizes[k]
         /\ \A j, k \in 1..(Count + 1) : j < k => Begin[j] + HeaderSize <= Begin[k]
<1> USE SizesAssumption DEF Packets
<1>1. \A k \in Packets : sizes[k] \in Nat /\ sizes[k] >= HeaderSize
  <2>1. PacketSizes \subseteq HeaderSize..BufferSize /\ HeaderSize \in Nat /\ BufferSize \in Nat
    OBVIOUS
  <2>2. \A size \in PacketSizes : size \in Nat /\ size >= HeaderSize
    BY <2>1
  <2> QED
    BY <2>2
<1>2. Begin = [k \in 1..(Count + 1) |-> IF k = 1 THEN 1 ELSE Begin[k - 1] + sizes[k - 1]]
  BY <1>1, BeginDef
<1>3. Begin[1] = 1
  BY <1>2
<1>4. ASSUME NEW k \in Packets PROVE Begin[k + 1] = Begin[k] + sizes[k]
  <2>1. k + 1 \in 1..(Count + 1) /\ k + 1 # 1 /\ (k + 1) - 1 = k
    OBVIOUS
  <2> QED
    BY <1>2, <2>1
<1> HIDE DEF Begin
<1> DEFINE S == {n \in Nat : n <= Count => /\ \A j \in 1..(n + 1) : Begin[j] \in Nat
                               /\ \A j \in 1..n : Begin[j] + HeaderSize <= Begin[n + 1]}
<1>5. Nat \subseteq S
  <2>1. 0 \in S
    BY <1>3
  <2>2. ASSUME NEW n \in Nat, n \in S PROVE n + 1 \in S
    <3> SUFFICES ASSUME n + 1 <= Count
                 PROVE  /\ \A j \in 1..(n + 2) : Begin[j] \in Nat
                        /\ \A j \in 1..(n + 1) : Begin[j] + HeaderSize <= Begin[n + 2]
      OBVIOUS
    <3>1. n + 1 \in Packets /\ Begin[n + 2] = Begin[n + 1] + sizes[n + 1]
      BY <1>4
    <3>2. /\ \A j \in 1..(n + 1) : Begin[j] \in Nat
          /\ \A j \in 1..n : Begin[j] + HeaderSize <= Begin[n + 1]
      BY <2>2
    <3>3. sizes[n + 1] \in Nat /\ sizes[n + 1] >= HeaderSize
      BY <1>1, <3>1
    <3>4. ASSUME NEW j \in 1..(n + 1) PROVE Begin[j] + HeaderSize <= Begin[n + 2]
      <4>1. CASE j = n + 1
        BY <3>1, <3>2, <3>3, <4>1
      <4>2. CASE j \in 1..n
        <5>1. Begin[j] + HeaderSize <= Begin[n + 1] /\ Begin[j] \in Nat
          BY <3>2, <4>2
        <5> QED
          BY <3>1, <3>2, <3>3, <5>1
      <4> QED
        BY <4>1, <4>2
    <3> QED
      BY <3>1, <3>2, <3>3, <3>4
  <2> HIDE DEF S
  <2> QED
    BY <2>1, <2>2, SetInduction
<1>6. ASSUME NEW k \in 1..(Count + 1)
      PROVE  /\ Begin[k] \in Nat
             /\ \A j \in 1..(k - 1) : Begin[j] + HeaderSize <= Begin[k]
  <2>1. k - 1 \in Nat /\ k - 1 <= Count /\ (k - 1) + 1 = k
    OBVIOUS
  <2>2. k - 1 \in S
    BY <1>5, <2>1
  <2>3. /\ \A j \in 1..k : Begin[j] \in Nat
        /\ \A j \in 1..(k - 1) : Begin[j] + HeaderSize <= Begin[k]
    BY <2>1, <2>2
  <2> QED
    BY <2>3
<1>7. Begin \in [1..(Count + 1) -> Nat]
  BY <1>2, <1>6
<1>8. ASSUME NEW j \in 1..(Count + 1), NEW k \in 1..(Count + 1), j < k
      PROVE  Begin[j] + HeaderSize <= Begin[k]
  BY <1>6, <1>8
<1> QED
  BY <1>3, <1>4, <1>7, <1>8

\* As long as nothing was shifted, the buffer holds the last bytes received and
\* the parser stands where the next packet begins.
Parsed == readPos + (IF stage = "parse" THEN processLen ELSE 0)
Framed ==
  /\ ~garbled
  /\ DataSize <= received /\ received <= StreamLen
  /\ \A p \in readPos..(writePos - 1) : buffer[p] = received - writePos + p + 1
  /\ Begin[assembled + 1] = received - writePos + Parsed + 1

FramingRightUntilShifted == ~shifted => Framed
FrontInv == stage \in {"recv", "register"} => readPos = 0

RecvIInv == RecvTypeOK /\ ParseSafe /\ FrontInv
RightInv == RecvIInv /\ FramingRightUntilShifted


\* A header reads as a size the clients use or as one of the junk sizes.
LEMMA HeaderReadsNat ==
  ASSUME RecvTypeOK, NEW p, NEW size \in HeaderReads(p)
  PROVE  size \in Nat
<1>1. PacketSizes \subseteq Nat /\ JunkSizes \subseteq Nat
  BY SizesAssumption
<1>2. \A k \in Packets : sizes[k] \in Nat
  BY <1>1 DEF RecvTypeOK
<1>3. CASE \E k \in Packets :
             \A i \in 0..(HeaderSize - 1) : buffer[p + i] = Begin[k] + i
  <2>1. size \in {sizes[k] : k \in {l \in Packets : buffer[p] = Begin[l]}}
    BY <1>3 DEF HeaderReads
  <2> QED
    BY <1>2, <2>1
<1>4. CASE ~\E k \in Packets :
             \A i \in 0..(HeaderSize - 1) : buffer[p + i] = Begin[k] + i
  BY <1>1, <1>4 DEF HeaderReads
<1> QED
  BY <1>3, <1>4

\* The empty buffer satisfies the invariant.
LEMMA RecvInitIInv == RecvInit => RecvIInv
<1> SUFFICES ASSUME RecvInit PROVE RecvIInv
  OBVIOUS
<1>1. garbled \in BOOLEAN /\ shifted \in BOOLEAN
  BY Zenon DEF RecvInit
<1>2. /\ sizes \in [Packets -> PacketSizes]
      /\ received \in Nat /\ buffer \in [Positions -> Nat]
      /\ readPos = 0 /\ writePos = 0 /\ processLen = 0 /\ stage = "recv"
      /\ assembled \in 0..Count
  BY SizesAssumption DEF RecvInit
<1> QED
  BY <1>1, <1>2, SizesAssumption DEF RecvIInv, RecvTypeOK, ParseSafe, FrontInv, DataSize

\* Every action keeps the types and the bounds.
LEMMA RecvStepIInv == RecvIInv /\ [RecvNext]_recvVars => RecvIInv'
<1> SUFFICES ASSUME RecvIInv, [RecvNext]_recvVars PROVE RecvIInv'
  OBVIOUS
<1> USE SizesAssumption
    DEF RecvIInv, RecvTypeOK, ParseSafe, FrontInv, DataSize, FreeSize, Positions
<1>1. ASSUME NEW n \in 1..BufferSize, RecvBytes(n) PROVE RecvIInv'
  <2>1. buffer' \in [Positions -> Nat]
    BY <1>1 DEF RecvBytes
  <2> QED
    BY <1>1, <2>1 DEF RecvBytes
<1>2. CASE RecvZero
  BY <1>2 DEF RecvZero
<1>3. CASE AssemblePacket
  <2>1. PICK size \in HeaderReads(readPos + processLen) :
          /\ DataSize - processLen >= size
          /\ processLen' = processLen + size
          /\ \/ assembled' = assembled + 1 /\ assembled < Count /\ garbled' = garbled
             \/ garbled' = TRUE /\ assembled' = assembled
    BY <1>3 DEF AssemblePacket, IsNextPacket
  <2>2. size \in Nat
    BY HeaderReadsNat
  <2>3. /\ stage = "parse" /\ stage' = stage
        /\ UNCHANGED <<sizes, received, buffer, readPos, writePos, shifted>>
    BY <1>3 DEF AssemblePacket
  <2>4. garbled' \in BOOLEAN
    BY <2>1, Zenon
  <2> QED
    BY <2>1, <2>2, <2>3, <2>4
<1>4. CASE EndParse
  BY <1>4 DEF EndParse
<1>5. CASE CleanCheck
  <2>1. stage' = "register" /\ readPos' = 0 /\ writePos' \in {0, writePos}
    BY <1>5 DEF CleanCheck
  <2>2. buffer' \in [Positions -> Nat]
    <3>1. CASE DataSize = 0
      BY <1>5, <3>1 DEF CleanCheck
    <3>2. CASE DataSize # 0
      <4>1. \A p \in Positions : p < DataSize => readPos + p \in Positions
        OBVIOUS
      <4> QED
        BY <1>5, <3>2, <4>1 DEF CleanCheck
    <3> QED
      BY <3>1, <3>2
  <2>3. shifted' \in BOOLEAN
    BY <1>5 DEF CleanCheck
  <2>4. UNCHANGED <<sizes, received, processLen, assembled, garbled>>
    BY <1>5 DEF CleanCheck
  <2> QED
    BY <2>1, <2>2, <2>3, <2>4
<1>6. CASE RegisterRecv
  BY <1>6 DEF RegisterRecv
<1>7. CASE UNCHANGED recvVars
  BY <1>7 DEF recvVars
<1> QED
  BY <1>1, <1>2, <1>3, <1>4, <1>5, <1>6, <1>7 DEF RecvNext

\* The receive buffer is never written, and packets are never read, outside
\* its bounds; the checks in OnWrite and OnRead never fire (RecvBuffer.cpp).
THEOREM ParseSafeHolds == RecvSpec => []ParseSafe
<1>1. RecvIInv => ParseSafe
  BY DEF RecvIInv
<1> QED
  BY RecvInitIInv, RecvStepIInv, <1>1, PTL DEF RecvSpec

\* _readPos and _writePos stay between 0 and _bufferSize.
THEOREM RecvTypeCorrectness == RecvSpec => []RecvTypeOK
<1>1. RecvIInv => RecvTypeOK
  BY DEF RecvIInv
<1> QED
  BY RecvInitIInv, RecvStepIInv, <1>1, PTL DEF RecvSpec

\* Nothing was received, and the first packet begins at the first byte.
LEMMA InitRight == RecvInit => RightInv
<1> SUFFICES ASSUME RecvInit PROVE RightInv
  OBVIOUS
<1>1. RecvIInv
  BY RecvInitIInv
<1>2. /\ Begin[1] = 1
      /\ StreamLen \in Nat
  <2>1. /\ Begin[1] = 1 /\ Begin[Count + 1] \in Nat
        /\ Count # 0 => Begin[1] + HeaderSize <= Begin[Count + 1]
    BY <1>1, BeginGrows, SizesAssumption DEF RecvIInv, RecvTypeOK
  <2> QED
    BY <2>1, SizesAssumption DEF StreamLen
<1>3. ~garbled /\ received = 0 /\ readPos = 0 /\ writePos = 0 /\ assembled = 0 /\ stage = "recv"
  BY Zenon DEF RecvInit
<1> QED
  BY <1>1, <1>2, <1>3 DEF RightInv, FramingRightUntilShifted, Framed, Parsed, DataSize

\* What lies at the parser's position is the next packet, its header first.
LEMMA NextPacketAhead ==
  ASSUME RecvIInv, Framed, stage = "parse", DataSize - processLen >= HeaderSize
  PROVE  /\ assembled + 1 \in Packets
         /\ HeaderReads(readPos + processLen) = {sizes[assembled + 1]}
         /\ DataSize - processLen >= sizes[assembled + 1] =>
              IsNextPacket(readPos + processLen, sizes[assembled + 1])
<1> DEFINE p == readPos + processLen
<1> USE SizesAssumption DEF DataSize
<1>1. /\ HeaderSize \in Nat \ {0} /\ processLen \in Nat /\ received \in Nat
      /\ readPos \in 0..BufferSize /\ writePos \in 0..BufferSize /\ assembled \in 0..Count
      /\ BufferSize \in Nat /\ Count \in Nat /\ sizes \in [Packets -> PacketSizes]
  BY DEF RecvIInv, RecvTypeOK
<1>2. /\ Begin \in [1..(Count + 1) -> Nat]
      /\ \A j, k \in 1..(Count + 1) : j < k => Begin[j] + HeaderSize <= Begin[k]
  BY <1>1, BeginGrows
<1>3. /\ received < Begin[Count + 1]
      /\ Begin[assembled + 1] = received - writePos + p + 1
      /\ p + HeaderSize <= writePos
  BY <1>1, <1>2 DEF Framed, Parsed, StreamLen
<1>4. assembled + 1 \in Packets
  BY <1>1, <1>3 DEF Packets
<1>5. \A i \in Nat : p + i < writePos => buffer[p + i] = Begin[assembled + 1] + i
  <2> SUFFICES ASSUME NEW i \in Nat, p + i < writePos
               PROVE  buffer[p + i] = Begin[assembled + 1] + i
    OBVIOUS
  <2>1. p + i \in readPos..(writePos - 1)
    BY <1>1
  <2> QED
    BY <1>1, <1>3, <2>1 DEF Framed
<1>6. /\ \A i \in 0..(HeaderSize - 1) : buffer[p + i] = Begin[assembled + 1] + i
      /\ buffer[p] = Begin[assembled + 1]
  BY <1>1, <1>3, <1>5
<1>7. {l \in Packets : buffer[p] = Begin[l]} = {assembled + 1}
  <2>1. ASSUME NEW l \in Packets, Begin[l] = Begin[assembled + 1] PROVE l = assembled + 1
    <3>1. l \in 1..(Count + 1) /\ assembled + 1 \in 1..(Count + 1)
      BY <1>1 DEF Packets
    <3> QED
      BY <1>1, <1>2, <2>1, <3>1
  <2> QED
    BY <1>4, <1>6, <2>1
<1>8. HeaderReads(p) = {sizes[assembled + 1]}
  <2>1. \E k \in Packets : \A i \in 0..(HeaderSize - 1) : buffer[p + i] = Begin[k] + i
    BY <1>4, <1>6
  <2>2. {sizes[k] : k \in {l \in Packets : buffer[p] = Begin[l]}} = {sizes[assembled + 1]}
    BY <1>7
  <2> HIDE DEF p
  <2> QED
    BY <2>1, <2>2, Zenon DEF HeaderReads
<1>9. ASSUME DataSize - processLen >= sizes[assembled + 1]
      PROVE  IsNextPacket(p, sizes[assembled + 1])
  <2>1. sizes[assembled + 1] \in Nat
    <3>1. PacketSizes \subseteq Nat
      BY <1>1
    <3> QED
      BY <1>1, <1>4, <3>1
  <2>2. p + sizes[assembled + 1] <= writePos
    BY <1>1, <1>9, <2>1
  <2>3. \A i \in 0..(sizes[assembled + 1] - 1) : buffer[p + i] = Begin[assembled + 1] + i
    BY <1>1, <1>5, <2>1, <2>2
  <2>4. assembled < Count
    BY <1>1, <1>4 DEF Packets
  <2> QED
    BY <1>1, <2>1, <2>2, <2>3, <2>4 DEF IsNextPacket
<1> QED
  BY <1>4, <1>8, <1>9

\* Receiving, cutting and cleaning keep it, up to the first shift.
LEMMA StepRight == RightInv /\ [RecvNext]_recvVars => RightInv'
<1> SUFFICES ASSUME RightInv, [RecvNext]_recvVars PROVE RightInv'
  OBVIOUS
<1>1. RecvIInv /\ RecvIInv'
  BY RecvStepIInv DEF RightInv
<1>2. /\ received \in Nat /\ processLen \in Nat /\ BufferSize \in Nat
      /\ readPos \in 0..BufferSize /\ writePos \in 0..BufferSize
      /\ buffer \in [Positions -> Nat] /\ sizes \in [Packets -> PacketSizes]
      /\ assembled \in 0..Count /\ Count \in Nat
      /\ readPos <= writePos
      /\ stage \in {"recv", "register"} => readPos = 0
  BY <1>1, SizesAssumption DEF RecvIInv, RecvTypeOK, ParseSafe, FrontInv
<1> SUFFICES ASSUME ~shifted' PROVE Framed'
  BY <1>1 DEF RightInv, FramingRightUntilShifted
<1>3. sizes' = sizes /\ Begin' = Begin /\ StreamLen' = StreamLen
  <2>1. sizes' = sizes
    BY DEF RecvNext, recvVars, RecvBytes, RecvZero, AssemblePacket, EndParse, CleanCheck,
           RegisterRecv
  <2> QED
    BY <2>1 DEF Begin, StreamLen
<1>4. ~shifted
  BY DEF RecvNext, recvVars, RecvBytes, RecvZero, AssemblePacket, EndParse, CleanCheck,
         RegisterRecv
<1>5. Framed
  BY <1>4 DEF RightInv, FramingRightUntilShifted
<1> USE DEF DataSize
<1>6. ASSUME NEW n \in 1..BufferSize, RecvBytes(n) PROVE Framed'
  <2>1. /\ stage = "recv" /\ readPos = 0 /\ n <= BufferSize - writePos
        /\ received + n <= StreamLen
        /\ buffer' = [p \in Positions |->
              IF p \in writePos..(writePos + n - 1)
              THEN received + 1 + p - writePos ELSE buffer[p]]
        /\ received' = received + n /\ writePos' = writePos + n
        /\ processLen' = 0 /\ stage' = "parse" /\ readPos' = readPos
        /\ assembled' = assembled /\ garbled' = garbled
    BY <1>2, <1>6 DEF RecvBytes, FreeSize
  <2>2. ASSUME NEW p \in 0..(writePos + n - 1) PROVE buffer'[p] = received - writePos + p + 1
    <3>1. p \in Positions
      BY <1>2, <2>1 DEF Positions
    <3>2. CASE p \in writePos..(writePos + n - 1)
      BY <1>2, <2>1, <3>1, <3>2
    <3>3. CASE p \in 0..(writePos - 1)
      BY <1>2, <1>5, <2>1, <3>1, <3>3 DEF Framed
    <3> QED
      BY <1>2, <3>2, <3>3
  <2> QED
    BY <1>2, <1>3, <1>5, <2>1, <2>2 DEF Framed, Parsed
<1>7. CASE RecvZero
  BY <1>3, <1>5, <1>7 DEF RecvZero, Framed, Parsed
<1>8. CASE AssemblePacket
  <2>1. PICK size \in HeaderReads(readPos + processLen) :
          /\ DataSize - processLen >= size
          /\ IF IsNextPacket(readPos + processLen, size)
             THEN assembled' = assembled + 1 /\ garbled' = garbled
             ELSE garbled' = TRUE /\ assembled' = assembled
          /\ processLen' = processLen + size
    BY <1>8 DEF AssemblePacket
  <2>2. /\ stage = "parse" /\ stage' = "parse"
        /\ DataSize - processLen >= HeaderSize
        /\ UNCHANGED <<received, buffer, readPos, writePos>>
    BY <1>8 DEF AssemblePacket
  <2>3. /\ assembled + 1 \in Packets /\ size = sizes[assembled + 1]
        /\ IsNextPacket(readPos + processLen, size)
    BY <1>1, <1>5, <2>1, <2>2, NextPacketAhead
  <2>4. /\ assembled' = assembled + 1 /\ garbled' = garbled
        /\ processLen' = processLen + sizes[assembled + 1]
    BY <2>1, <2>3
  <2>5. /\ Begin[assembled + 2] = Begin[assembled + 1] + sizes[assembled + 1]
        /\ assembled + 1 + 1 = assembled + 2
    BY <1>2, <2>3, BeginGrows
  <2>6. sizes[assembled + 1] \in Nat /\ Begin[assembled + 1] \in Nat
    <3>1. PacketSizes \subseteq Nat
      BY SizesAssumption
    <3>2. Begin \in [1..(Count + 1) -> Nat]
      BY <1>2, BeginGrows
    <3>3. assembled + 1 \in 1..(Count + 1)
      BY <1>2, <2>3 DEF Packets
    <3> QED
      BY <1>2, <2>3, <3>1, <3>2, <3>3
  <2> QED
    BY <1>2, <1>3, <1>5, <2>2, <2>4, <2>5, <2>6 DEF Framed, Parsed
<1>9. CASE EndParse
  <2>1. processLen <= DataSize /\ stage = "parse"
    BY <1>1, <1>9 DEF RecvIInv, ParseSafe, EndParse
  <2>2. /\ stage' = "clean" /\ readPos' = readPos + processLen
        /\ UNCHANGED <<received, buffer, writePos, processLen, assembled, garbled>>
    BY <1>2, <1>9, <2>1 DEF EndParse
  <2> QED
    BY <1>2, <1>3, <1>5, <2>1, <2>2 DEF Framed, Parsed
<1>10. CASE CleanCheck
  <2>1. /\ stage = "clean" /\ stage' = "register" /\ readPos' = 0
        /\ UNCHANGED <<received, processLen, assembled, garbled>>
    BY <1>10 DEF CleanCheck
  <2>2. CASE DataSize = 0
    <3>1. writePos' = 0 /\ buffer' = buffer
      BY <1>10, <2>2 DEF CleanCheck
    <3> QED
      BY <1>2, <1>3, <1>5, <2>1, <2>2, <3>1 DEF Framed, Parsed
  <2>3. CASE DataSize # 0
    <3>1. /\ writePos' = writePos - readPos'
          /\ shifted' = (shifted \/ readPos > 0)
          /\ buffer' = [p \in Positions |->
                IF p < DataSize THEN buffer[readPos + p] ELSE buffer[p]]
      BY <1>10, <2>3, Zenon DEF CleanCheck
    <3>2. ~(readPos > 0)
      BY <3>1, Zenon
    <3>3. readPos = 0 /\ writePos' = writePos
      BY <1>2, <2>1, <3>1, <3>2
    <3>4. buffer' = buffer
      BY <1>2, <3>1, <3>3 DEF Positions
    <3> QED
      BY <1>2, <1>3, <1>5, <2>1, <3>3, <3>4 DEF Framed, Parsed
  <2> QED
    BY <2>2, <2>3
<1>11. CASE RegisterRecv
  BY <1>3, <1>5, <1>11 DEF RegisterRecv, Framed, Parsed
<1>12. CASE UNCHANGED recvVars
  BY <1>3, <1>5, <1>12 DEF recvVars, Framed, Parsed
<1> QED
  BY <1>6, <1>7, <1>8, <1>9, <1>10, <1>11, <1>12 DEF RecvNext

\* What Session.cpp:102 promises holds until CleanCheck moves a rest to the
\* front: up to then ProcessData hands over the packets the client sent, whole
\* and in order, however the stream was cut.  The shift is the only way to the
\* counterexample of AssemblySucceeds.
THEOREM GarbledOnlyAfterShift == RecvSpec => [](garbled => shifted)
<1>1. RightInv => (garbled => shifted)
  BY DEF RightInv, FramingRightUntilShifted, Framed
<1> QED
  BY InitRight, StepRight, <1>1, PTL DEF RecvSpec

\* When a worker leaves ProcessData, nothing whole is left behind in the buffer: up to the
\* first shift, what has been received ends before the packet in turn does.
NothingWholeWaits ==
  ~shifted /\ stage \in {"clean", "register", "recv"} /\ assembled < Count =>
    received < Begin[assembled + 2] - 1

\* The packet in turn begins where the one before it ends.
LEMMA NextBegins ==
  ASSUME RecvTypeOK, assembled < Count
  PROVE  /\ sizes[assembled + 1] \in Nat /\ HeaderSize <= sizes[assembled + 1]
         /\ Begin[assembled + 1] \in Nat
         /\ Begin[assembled + 2] = Begin[assembled + 1] + sizes[assembled + 1]
<1>1. /\ sizes \in [Packets -> PacketSizes] /\ assembled \in 0..Count
      /\ Count \in Nat /\ HeaderSize \in Nat
      /\ \A size \in PacketSizes : size \in Nat /\ HeaderSize <= size
  BY SizesAssumption DEF RecvTypeOK
<1>2. assembled + 1 \in Packets /\ assembled + 1 \in 1..(Count + 1)
  BY <1>1 DEF Packets
<1>3. assembled + 1 + 1 = assembled + 2
  BY <1>1
<1> QED
  BY <1>1, <1>2, <1>3, BeginGrows

\* ProcessData takes every packet that is whole before it returns, so a packet never waits for
\* the next one's bytes (Session.cpp, the loop of ProcessData).
THEOREM NothingWholeWaitsHolds == RecvSpec => []NothingWholeWaits
<1>1. RecvInit => NothingWholeWaits
  <2> SUFFICES ASSUME RecvInit, assembled < Count PROVE received < Begin[assembled + 2] - 1
    BY DEF NothingWholeWaits
  <2>1. RecvTypeOK /\ assembled = 0 /\ received = 0
    <3>1. RecvIInv
      BY RecvInitIInv
    <3>2. assembled = 0 /\ received = 0
      BY Zenon DEF RecvInit
    <3> QED
      BY <3>1, <3>2 DEF RecvIInv
  <2>2. Begin[1] = 1
    BY <2>1, BeginGrows DEF RecvTypeOK
  <2>3. /\ sizes[1] \in Nat /\ HeaderSize <= sizes[1]
        /\ Begin[2] = Begin[1] + sizes[1]
    BY <2>1, NextBegins
  <2>4. HeaderSize \in Nat \ {0}
    BY SizesAssumption
  <2> QED
    BY <2>1, <2>2, <2>3, <2>4
<1>2. RightInv /\ NothingWholeWaits /\ [RecvNext]_recvVars => NothingWholeWaits'
  <2> SUFFICES ASSUME RightInv, NothingWholeWaits, [RecvNext]_recvVars,
                      ~shifted', stage' \in {"clean", "register", "recv"}, assembled' < Count
               PROVE  received' < Begin'[assembled' + 2] - 1
    BY DEF NothingWholeWaits
  <2>1. RecvTypeOK
    BY DEF RightInv, RecvIInv
  <2>2. sizes' = sizes /\ Begin' = Begin
    <3>1. sizes' = sizes
      BY DEF RecvNext, recvVars, RecvBytes, RecvZero, AssemblePacket, EndParse, CleanCheck,
             RegisterRecv
    <3> QED
      BY <3>1 DEF Begin
  <2>3. ~shifted
    BY DEF RecvNext, recvVars, RecvBytes, RecvZero, AssemblePacket, EndParse, CleanCheck,
           RegisterRecv
  <2>4. CASE EndParse
    <3>1. /\ stage = "parse" /\ UNCHANGED <<received, assembled>>
          /\ \/ DataSize - processLen < HeaderSize
             \/ /\ DataSize - processLen >= HeaderSize
                /\ \E size \in HeaderReads(readPos + processLen) :
                     DataSize - processLen < size
      BY <2>4 DEF EndParse
    <3>2. /\ received \in Nat /\ processLen \in Nat /\ HeaderSize \in Nat
          /\ readPos \in Nat /\ writePos \in Nat
      BY <2>1, SizesAssumption DEF RecvTypeOK
    <3>3. /\ sizes[assembled + 1] \in Nat /\ HeaderSize <= sizes[assembled + 1]
          /\ Begin[assembled + 1] \in Nat
          /\ Begin[assembled + 2] = Begin[assembled + 1] + sizes[assembled + 1]
      BY <2>1, <3>1, NextBegins
    <3>4. Framed /\ RecvIInv
      BY <2>3 DEF RightInv, FramingRightUntilShifted
    <3>5. Begin[assembled + 1] = received - writePos + readPos + processLen + 1
      BY <3>1, <3>2, <3>4 DEF Framed, Parsed
    <3>6. DataSize - processLen < sizes[assembled + 1]
      <4>1. DataSize \in Int
        BY <3>2 DEF DataSize
      <4>2. CASE DataSize - processLen < HeaderSize
        BY <3>2, <3>3, <4>1, <4>2
      <4>3. CASE DataSize - processLen >= HeaderSize
        <5>1. HeaderReads(readPos + processLen) = {sizes[assembled + 1]}
          BY <3>1, <3>4, <4>3, NextPacketAhead
        <5> QED
          BY <3>1, <3>2, <4>1, <4>3, <5>1
      <4> QED
        BY <3>1, <4>2, <4>3
    <3> QED
      BY <2>2, <3>1, <3>2, <3>3, <3>5, <3>6 DEF DataSize
  <2>5. CASE CleanCheck \/ RegisterRecv \/ UNCHANGED recvVars
    <3>1. /\ stage \in {"clean", "register", "recv"}
          /\ UNCHANGED <<received, assembled>>
      BY <2>5 DEF CleanCheck, RegisterRecv, recvVars
    <3> QED
      BY <2>2, <2>3, <3>1 DEF NothingWholeWaits
  <2>6. CASE (\E n \in 1..BufferSize : RecvBytes(n)) \/ RecvZero \/ AssemblePacket
    BY <2>6 DEF RecvBytes, RecvZero, AssemblePacket
  <2> QED
    BY <2>4, <2>5, <2>6 DEF RecvNext
<1> QED
  BY InitRight, StepRight, <1>1, <1>2, PTL DEF RecvSpec
=============================================================================
