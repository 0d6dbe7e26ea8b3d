----------------------------- MODULE RecvStream -----------------------------
(***************************************************************************)
(* From the byte stream of a connection to PacketProcessing: the receive   *)
(* buffer of NetUnit, the loop of NetUnit::Recieved with its count of      *)
(* bytes, and Client::HeaderParsing, which finds the end of a packet.      *)
(*                                                                         *)
(* A byte is <<k, i>>: the i-th byte of the k-th packet of the connection. *)
(* The first byte of a packet stands for the integer at its beginning, the *)
(* size of its data.  One worker serves the unit: what overlapping workers *)
(* do to it is the business of NetUnit.                                    *)
(***************************************************************************)
EXTENDS StreamBuffer

CONSTANTS Capacity,     \* _recv_buffer's size when Init creates it
          HeaderSize,   \* MyPacket::HEADER_SIZE
          DataSizes,    \* sizes of the data of a packet
          MaxPackets    \* BOUND: packets sent on one connection

\* MyPacket::BUFFER_SIZE is 1024, and so is _recv_buffersize at the time of
\* _recv_buffer.Create (OnInit raises it afterwards).
ASSUME PacketsFit == /\ HeaderSize \in Nat \ {0}
                     /\ DataSizes \subseteq Nat
                     /\ \A d \in DataSizes : HeaderSize + d <= Capacity
ASSUME StreamBounds == Capacity \in Nat \ {0} /\ MaxPackets \in Nat

VARIABLES sent,              \* sizes of the packets sent on this connection
          wire,              \* bytes sent and not yet received
          buffer,            \* _recv_buffer
          processing_size,   \* _processing_size
          active,            \* _is_active
          pc,                \* where the unit is
          packetsize,        \* the local of Recieved
          delivered          \* what PacketProcessing was given so far

vars == <<sent, wire, buffer, processing_size, active, pc, packetsize, delivered>>

PacketBytes(k, datasize) == [i \in 1..(HeaderSize + datasize) |-> <<k, i>>]

Init == /\ sent = << >> /\ wire = << >>
        /\ buffer = NewBuffer(Capacity)
        /\ processing_size = 0
        /\ active = TRUE
        /\ pc = "waiting"
        /\ packetsize = 0
        /\ delivered = << >>

Goto(label) == pc' = label

\* The remote end sends a packet.
SendPacket(datasize) ==
  /\ active
  /\ Len(sent) < MaxPackets
  /\ sent' = Append(sent, datasize)
  /\ wire' = wire \o PacketBytes(Len(sent) + 1, datasize)
  /\ UNCHANGED <<buffer, processing_size, active, pc, packetsize, delivered>>

\* A receive completes with the n first bytes of the stream, written by the
\* kernel at the write position; Recieved counts them.
Recieve(n) ==
  /\ pc = "waiting"
  /\ active
  /\ n <= WritableSize(buffer)
  /\ buffer' = ShiftWritePos(PutAtWritePos(buffer, SubSeq(wire, 1, n)), n)
  /\ wire' = SubSeq(wire, n + 1, Len(wire))
  /\ processing_size' = processing_size + n
  /\ Goto("loop")
  /\ UNCHANGED <<sent, active, packetsize, delivered>>

\* The integer at the read position; anywhere but at the beginning of a
\* packet it is part of the data.
DataSizeRead == LET byte == buffer.mem[buffer.read_pos]
                IN  IF byte[2] = 1 /\ byte[1] \in DOMAIN sent THEN sent[byte[1]] ELSE 0

\* Mutant: the size of the packet is the size of its data.
HeaderParsingData(recvbytes) ==
  IF recvbytes < HeaderSize THEN 0
  ELSE IF recvbytes >= DataSizeRead THEN DataSizeRead ELSE 0

HeaderParsing(recvbytes) ==
  IF recvbytes < HeaderSize THEN 0
  ELSE IF recvbytes >= HeaderSize + DataSizeRead THEN HeaderSize + DataSizeRead ELSE 0

\* while (_processing_size > 0): the first check of _is_active, the header.
Loop ==
  /\ pc = "loop"
  /\ IF processing_size = 0 THEN Goto("rearm") /\ UNCHANGED packetsize
     ELSE IF ~active THEN Goto("idle") /\ UNCHANGED packetsize
     ELSE /\ packetsize' = HeaderParsing(processing_size)
          /\ Goto(IF packetsize' = 0 THEN "rearm" ELSE "processing")
  /\ UNCHANGED <<sent, wire, buffer, processing_size, active, delivered>>

PacketProcessing ==
  /\ pc = "processing"
  /\ delivered' = Append(delivered, BytesFrom(buffer, buffer.read_pos, packetsize))
  /\ Goto("processed")
  /\ UNCHANGED <<sent, wire, buffer, processing_size, active, packetsize>>

\* Mutant: one packet for each completion.
ProcessedOnce ==
  /\ pc = "processed"
  /\ IF active
     THEN /\ buffer' = ShiftReadPos(buffer, packetsize)
          /\ processing_size' = processing_size - packetsize
          /\ Goto("rearm")
     ELSE Goto("idle") /\ UNCHANGED <<buffer, processing_size>>
  /\ UNCHANGED <<sent, wire, active, packetsize, delivered>>

\* The second check, then the packet is taken off the buffer.
Processed ==
  /\ pc = "processed"
  /\ IF active
     THEN /\ buffer' = ShiftReadPos(buffer, packetsize)
          /\ processing_size' = processing_size - packetsize
          /\ Goto("loop")
     ELSE Goto("idle") /\ UNCHANGED <<buffer, processing_size>>
  /\ UNCHANGED <<sent, wire, active, packetsize, delivered>>

\* The third check, CarriageReturn, RecieveRequest.
Rearm ==
  /\ pc = "rearm"
  /\ IF active THEN buffer' = CarriageReturn(buffer) /\ Goto("waiting")
               ELSE Goto("idle") /\ UNCHANGED buffer
  /\ UNCHANGED <<sent, wire, processing_size, active, packetsize, delivered>>

\* DisconnectRequest, from any thread; an outstanding receive is aborted.
DisconnectRequest ==
  /\ active
  /\ active' = FALSE
  /\ pc' = IF pc = "waiting" THEN "idle" ELSE pc
  /\ UNCHANGED <<sent, wire, buffer, processing_size, packetsize, delivered>>

\* Mutant: the count survives the connection.
CleanupKeepsCount ==
  /\ pc = "idle"
  /\ buffer' = Clear(buffer)
  /\ sent' = << >> /\ wire' = << >> /\ delivered' = << >>
  /\ active' = TRUE
  /\ Goto("waiting")
  /\ UNCHANGED <<processing_size, packetsize>>

\* Disconnect cleans up; the next connection starts with IoStart.
Cleanup ==
  /\ pc = "idle"
  /\ buffer' = Clear(buffer)
  /\ processing_size' = 0
  /\ sent' = << >> /\ wire' = << >> /\ delivered' = << >>
  /\ active' = TRUE
  /\ Goto("waiting")
  /\ UNCHANGED packetsize

Handler == Loop \/ PacketProcessing \/ Processed \/ Rearm \/ Cleanup
Completion == \E n \in 1..Len(wire) : Recieve(n)

Next == \/ \E d \in DataSizes : SendPacket(d)
        \/ Completion
        \/ Handler
        \/ DisconnectRequest

Spec == Init /\ [][Next]_vars

(***************************************************************************)
(* The worker runs on, and bytes that are on their way arrive: TCP delivers*)
(* them as long as the connection lives.                                   *)
(***************************************************************************)
Fairness == WF_vars(Handler) /\ WF_vars(Completion)
FairSpec == Spec /\ Fairness

-----------------------------------------------------------------------------
\* The count of bytes, an unsigned integer in the code, never wraps.
TypeOK == /\ sent \in Seq(DataSizes)
          /\ processing_size \in 0..Capacity
          /\ active \in BOOLEAN
          /\ pc \in {"waiting", "loop", "processing", "processed", "rearm", "idle"}
          /\ packetsize \in 0..Capacity

\* A packet was given to PacketProcessing and is still in the buffer.
InHand == IF pc = "processed" THEN packetsize ELSE 0

\* The bytes still to be processed: those kept in the buffer, those on the
\* wire, and the i-th of them all.
Kept == ReadableSize(buffer) - InHand
Ahead == Kept + Len(wire)
Byte(i) == IF i <= Kept THEN buffer.mem[buffer.read_pos + InHand + i - 1] ELSE wire[i - Kept]

\* What follows a byte in the stream of the remote end.
Following(byte) == IF byte[2] < HeaderSize + sent[byte[1]] THEN <<byte[1], byte[2] + 1>>
                                                           ELSE <<byte[1] + 1, 1>>

(***************************************************************************)
(* What was delivered are the first packets that were sent, and what waits *)
(* in the buffer and on the wire is the rest of the stream, from the first *)
(* byte of the next packet to the last byte of the last one: no byte is    *)
(* lost, repeated or reordered by the shifts, the CarriageReturn or the    *)
(* end of an earlier connection, and _processing_size counts exactly the   *)
(* unread bytes (NetUnit.cpp:145-175, 266-281).                            *)
(***************************************************************************)
NoByteLost ==
  /\ Len(delivered) <= Len(sent)
  /\ \A k \in 1..Len(delivered) : delivered[k] = PacketBytes(k, sent[k])
  /\ pc # "idle" =>
       /\ processing_size = ReadableSize(buffer)
       /\ Ahead = 0 <=> Len(delivered) = Len(sent)
       /\ Ahead > 0 => /\ Byte(1) = <<Len(delivered) + 1, 1>>
                       /\ Byte(Ahead) = <<Len(sent), HeaderSize + sent[Len(sent)]>>
       /\ \A i \in 1..(Ahead - 1) : Byte(i + 1) = Following(Byte(i))

(***************************************************************************)
(* NetUnit.h:92: HeaderParsing always finds the read position at the       *)
(* beginning of a packet.                                                  *)
(***************************************************************************)
AtPacketStart ==
  pc = "loop" /\ processing_size > 0
    => buffer.mem[buffer.read_pos] = <<Len(delivered) + 1, 1>>

(***************************************************************************)
(* A receive is never issued without room: WSARecv with no room completes  *)
(* with 0 bytes, which WorkerThread takes for the end of the connection    *)
(* (NetUnit.cpp:139, WorkerThread.cpp:94).                                 *)
(***************************************************************************)
RoomToRecieve == pc = "waiting" => WritableSize(buffer) > 0

\* Every byte of the connection is where it belongs, every packet is found at
\* its beginning, and every receive has room.
RecieveIsInStep == NoByteLost /\ AtPacketStart /\ RoomToRecieve

(***************************************************************************)
(* A packet that was sent is processed, or the connection ends: no         *)
(* division of the stream into receives leaves a complete packet waiting   *)
(* (NetUnit.cpp:150-174).                                                  *)
(***************************************************************************)
EveryPacketArrives ==
  \A k \in 1..MaxPackets :
    Len(sent) >= k ~> (Len(delivered) >= k \/ ~active)

(***************************************************************************)
(* The receive path implements the channel of packets: PacketProcessing    *)
(* gets each packet whole, once and in order (NetUnit.cpp:145-175,         *)
(* Client.cpp:30-40).                                                      *)
(***************************************************************************)
Recognised(k) == IF k <= Len(sent) /\ delivered[k] = PacketBytes(k, sent[k])
                 THEN sent[k] ELSE -1
Channel == INSTANCE PacketChannel
             WITH Packets <- DataSizes,
                  delivered <- [k \in 1..Len(delivered) |-> Recognised(k)]
ImplementsPacketChannel == Channel!Spec
=============================================================================
