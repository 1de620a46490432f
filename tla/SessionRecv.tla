---------------------------- MODULE SessionRecv -----------------------------
(***************************************************************************)
(* The incoming half of one Session: RegisterRecv, ProcessRecv and         *)
(* ProcessData (Session.cpp) on its RecvBuffer (RecvBuffer.cpp).  One      *)
(* receive is in flight at a time, so these run one after the other.       *)
(*                                                                         *)
(* The client sends Count packets back to back.  A byte is its position in *)
(* that stream; TCP delivers the stream cut anywhere.                      *)
(***************************************************************************)
EXTENDS Integers

CONSTANTS
  BufferSize,   \* _bufferSize
  HeaderSize,   \* sizeof(PacketHeader)
  PacketSizes,  \* the sizes of the packets clients send
  Count,        \* how many packets the client sends
  JunkSizes     \* what header.size can read as in bytes that are no header

ASSUME SizesAssumption ==
  /\ BufferSize \in Nat \ {0}
  /\ HeaderSize \in Nat \ {0}
  /\ PacketSizes \subseteq HeaderSize..BufferSize
  /\ Count \in Nat
  /\ JunkSizes \subseteq Nat

Packets == 1..Count
Positions == 0..(BufferSize - 1)

VARIABLES
  sizes,       \* packet -> its size (header.size)
  received,    \* how many bytes of the stream have been received
  buffer,      \* _buffer: position -> a byte of the stream, 0 if never written
  readPos,     \* _readPos
  writePos,    \* _writePos
  stage,       \* "recv", "parse", "clean", "register", "closed"
  processLen,  \* ProcessData's processLen
  assembled,   \* packets handed to PacketHandler as the client sent them
  garbled,     \* something else was handed to PacketHandler
  shifted      \* CleanCheck has moved a rest to the front of the buffer

recvVars == <<sizes, received, buffer, readPos, writePos, stage, processLen,
              assembled, garbled, shifted>>

\* Begin[k]: where packet k begins in the stream.
Begin[k \in 1..(Count + 1)] ==
  IF k = 1 THEN 1 ELSE Begin[k - 1] + sizes[k - 1]

StreamLen == Begin[Count + 1] - 1

DataSize == writePos - readPos
FreeSize == BufferSize - writePos

RecvTypeOK ==
  /\ sizes \in [Packets -> PacketSizes]
  /\ received \in Nat
  /\ buffer \in [Positions -> Nat]
  /\ readPos \in 0..BufferSize /\ writePos \in 0..BufferSize
  /\ processLen \in Nat
  /\ stage \in {"recv", "parse", "clean", "register", "closed"}
  /\ assembled \in 0..Count
  /\ garbled \in BOOLEAN /\ shifted \in BOOLEAN

RecvInit ==
  /\ sizes \in [Packets -> PacketSizes]
  /\ received = 0
  /\ buffer = [p \in Positions |-> 0]
  /\ readPos = 0
  /\ writePos = 0
  /\ stage = "recv"
  /\ processLen = 0
  /\ assembled = 0
  /\ garbled = FALSE
  /\ shifted = FALSE

-----------------------------------------------------------------------------

\* The kernel fills n bytes of the free space; ProcessRecv accounts for them
\* with OnWrite and starts ProcessData.
RecvBytes(n) ==
  /\ stage = "recv"
  /\ n <= FreeSize
  /\ received + n <= StreamLen
  /\ buffer' = [p \in Positions |->
                  IF p \in writePos..(writePos + n - 1)
                  THEN received + 1 + p - writePos ELSE buffer[p]]
  /\ received' = received + n
  /\ writePos' = writePos + n
  /\ processLen' = 0
  /\ stage' = "parse"
  /\ UNCHANGED <<sizes, readPos, assembled, garbled, shifted>>

\* Zero bytes: the peer closed, or the receive had no room.
RecvZero ==
  /\ stage = "recv"
  /\ stage' = "closed"
  /\ UNCHANGED <<sizes, received, buffer, readPos, writePos, processLen,
                 assembled, garbled, shifted>>

\* What header.size reads as at position p.
HeaderReads(p) ==
  IF \E k \in Packets : \A i \in 0..(HeaderSize - 1) : buffer[p + i] = Begin[k] + i
  THEN {sizes[k] : k \in {l \in Packets : buffer[p] = Begin[l]}}
  ELSE JunkSizes

\* The bytes at p are the packet the client sent next.
IsNextPacket(p, size) ==
  /\ assembled < Count
  /\ p + size <= BufferSize
  /\ size = sizes[assembled + 1]
  /\ \A i \in 0..(size - 1) : buffer[p + i] = Begin[assembled + 1] + i

\* Mutant: a packet is taken before all of it has arrived.
AssemblePacket_NoSizeTest ==
  /\ stage = "parse"
  /\ DataSize - processLen >= HeaderSize
  /\ \E size \in HeaderReads(readPos + processLen) :
       /\ IF IsNextPacket(readPos + processLen, size)
          THEN assembled' = assembled + 1 /\ UNCHANGED garbled
          ELSE garbled' = TRUE /\ UNCHANGED assembled
       /\ processLen' = processLen + size
  /\ UNCHANGED <<sizes, received, buffer, readPos, writePos, stage, shifted>>

\* One turn of the loop in ProcessData that finds a whole packet.
AssemblePacket ==
  /\ stage = "parse"
  /\ DataSize - processLen >= HeaderSize
  /\ \E size \in HeaderReads(readPos + processLen) :
       /\ DataSize - processLen >= size
       /\ IF IsNextPacket(readPos + processLen, size)
          THEN assembled' = assembled + 1 /\ UNCHANGED garbled
          ELSE garbled' = TRUE /\ UNCHANGED assembled
       /\ processLen' = processLen + size
  /\ UNCHANGED <<sizes, received, buffer, readPos, writePos, stage, shifted>>

EndParse_ReturnsOnPartial ==
  /\ stage = "parse"
  /\ \/ DataSize - processLen < HeaderSize
     \/ /\ DataSize - processLen >= HeaderSize
        /\ \E size \in HeaderReads(readPos + processLen) :
             DataSize - processLen < size
  /\ processLen > 0
  /\ stage' = "clean" /\ readPos' = readPos + processLen
  /\ UNCHANGED <<sizes, received, buffer, writePos, processLen, assembled,
                 garbled, shifted>>

\* The turn that does not; OnRead(processLen) follows.
EndParse ==
  /\ stage = "parse"
  /\ \/ DataSize - processLen < HeaderSize
     \/ /\ DataSize - processLen >= HeaderSize
        /\ \E size \in HeaderReads(readPos + processLen) :
             DataSize - processLen < size
  /\ IF processLen > DataSize
     THEN stage' = "closed" /\ UNCHANGED readPos
     ELSE stage' = "clean" /\ readPos' = readPos + processLen
  /\ UNCHANGED <<sizes, received, buffer, writePos, processLen, assembled,
                 garbled, shifted>>

\* CleanCheck.  The rest is copied to the front; _writePos is computed from
\* DataSize() after _readPos was zeroed, so it stays where it was and the
\* bytes after the copied rest count as received.
CleanCheck ==
  /\ stage = "clean"
  /\ readPos' = 0
  /\ IF DataSize = 0
     THEN writePos' = 0 /\ UNCHANGED <<buffer, shifted>>
     ELSE /\ buffer' = [p \in Positions |->
                          IF p < DataSize THEN buffer[readPos + p] ELSE buffer[p]]
          /\ writePos' = writePos - readPos'
          /\ shifted' = (shifted \/ readPos > 0)
  /\ stage' = "register"
  /\ UNCHANGED <<sizes, received, processLen, assembled, garbled>>

\* The next receive is posted for the free space, unless the session was
\* disconnected meanwhile or WSARecv fails; without free space it completes at
\* once with zero bytes.
RegisterRecv ==
  /\ stage = "register"
  /\ stage' \in IF FreeSize = 0 THEN {"closed"} ELSE {"recv", "closed"}
  /\ UNCHANGED <<sizes, received, buffer, readPos, writePos, processLen,
                 assembled, garbled, shifted>>

RecvNext ==
  \/ \E n \in 1..BufferSize : RecvBytes(n)
  \/ RecvZero \/ AssemblePacket \/ EndParse \/ CleanCheck \/ RegisterRecv

RecvSpec == RecvInit /\ [][RecvNext]_recvVars

\* The peer's bytes arrive and the worker runs; the peer need not close.
RecvFairness ==
  /\ WF_recvVars(\E n \in 1..BufferSize : RecvBytes(n))
  /\ WF_recvVars(AssemblePacket \/ EndParse \/ CleanCheck \/ RegisterRecv)

RecvFairSpec == RecvSpec /\ RecvFairness

-----------------------------------------------------------------------------
(* Properties *)

\* ProcessData and CleanCheck stay within what was received, whatever the
\* bytes say: no header or packet is read past _writePos, and OnRead never
\* refuses.
ParseSafe ==
  /\ readPos <= writePos
  /\ stage = "parse" => processLen <= DataSize

\* Session.cpp:102 takes what ProcessData cuts out of the buffer for a packet
\* put together ("packet assembly succeeded"): it should be one the client
\* sent, in its turn.
AssemblySucceeds == ~garbled

\* While the connection lasts and nothing has been shifted, every packet of
\* the stream gets through: no path through ProcessRecv forgets to post the
\* next receive.
StreamGetsThrough ==
  [](stage # "closed" /\ ~shifted) => <>(assembled = Count)
=============================================================================
