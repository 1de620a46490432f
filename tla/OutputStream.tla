---------------------------- MODULE OutputStream ----------------------------
(***************************************************************************)
(* What a Session promises those who Send on it: the peer gets the         *)
(* messages in the order in which they were pushed, each at most once, and *)
(* without a gap unless a send has failed; and a session that has failed   *)
(* a send never counts as open again.  There is no promise that a message  *)
(* goes out: see SessionSend for the conditional one the code gives.       *)
(***************************************************************************)
EXTENDS Naturals, Sequences

CONSTANT Msgs

VARIABLES
  state,   \* "open"; "failing": a send has failed; "closed": by Disconnect
  queue,   \* the messages pushed and neither sent nor dropped, oldest first
  wire,    \* the messages the peer gets
  pushed   \* all messages pushed, in order

vars == <<state, queue, wire, pushed>>

TypeOK ==
  /\ state \in {"open", "failing", "closed"}
  /\ queue \in Seq(Msgs) /\ wire \in Seq(Msgs) /\ pushed \in Seq(Msgs)

Init == state = "open" /\ queue = <<>> /\ wire = <<>> /\ pushed = <<>>

\* A message may still be pushed when the session is no longer open.
Push(m) ==
  /\ queue' = Append(queue, m)
  /\ pushed' = Append(pushed, m)
  /\ UNCHANGED <<state, wire>>

Oldest(n) == SubSeq(queue, 1, n)
AllBut(n) == SubSeq(queue, n + 1, Len(queue))

\* The oldest messages go out together.  A send under way when the session is
\* closed may still succeed.
Deliver ==
  \E n \in 1..Len(queue) :
    /\ wire' = wire \o Oldest(n)
    /\ queue' = AllBut(n)
    /\ UNCHANGED <<state, pushed>>

\* A send fails and its messages, if any, are dropped.
Fail ==
  \E n \in 0..Len(queue) :
    /\ queue' = AllBut(n)
    /\ state' \in {"failing", "closed"} /\ (state = "closed" <=> state' = "closed")
    /\ UNCHANGED <<wire, pushed>>

Close ==
  /\ state # "closed"
  /\ state' = "closed"
  /\ UNCHANGED <<queue, wire, pushed>>

Next == (\E m \in Msgs : Push(m)) \/ Deliver \/ Fail \/ Close

Spec == Init /\ [][Next]_vars

-----------------------------------------------------------------------------
(* What follows from it, for every session that keeps the promise.         *)

\* Embeds(s, t): s is t with some of its elements, possibly none, left out.
Embeds(s, t) ==
  \E at \in [1..Len(s) -> 1..Len(t)] :
    /\ \A i, j \in 1..Len(s) : i < j => at[i] < at[j]
    /\ \A i \in 1..Len(s) : s[i] = t[at[i]]

\* Nothing is reordered or sent twice, whatever has failed.
InOrder == Embeds(wire \o queue, pushed)

\* Nothing is missing while the session is open.
NoGapWhileOpen == state = "open" => pushed = wire \o queue
=============================================================================
