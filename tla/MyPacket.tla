------------------------------ MODULE MyPacket ------------------------------
(***************************************************************************)
(* TestProject/Packet.h and MyPacket: a StreamBuffer that begins with a    *)
(* header - the size of the data, the protocol - and takes and gives typed *)
(* values through << and >>.                                               *)
(*                                                                         *)
(* A cell of the buffer holds a small integer; an int is one cell and a    *)
(* string its characters and a zero.  The header is two ints.              *)
(***************************************************************************)
EXTENDS StreamBuffer, SequencesExt

CONSTANTS BUFFER_SIZE,
          Ints, Strings,   \* values written; strings have no zero in them
          Protocols

HEADER_SIZE == 2
Nothing == <<"none">>

IntItem(n) == <<"int", n>>
StringItem(s) == <<"string", s>>
Items == {IntItem(n) : n \in Ints} \cup {StringItem(s) : s \in Strings}

\* What << passes to Write.
Encoded(item) == IF item[1] = "int" THEN <<item[2]>> ELSE Append(item[2], 0)

VARIABLES stream_buffer,   \* _stream_buffer; _datasize and _protocol_id point into it
          items,           \* the values the packet carries
          taken,           \* how many of them >> has given back
          got              \* what the last >> gave

vars == <<stream_buffer, items, taken, got>>

Datasize(b) == b.mem[0]
ProtocolID(b) == b.mem[1]
SetCell(b, i, n) == [b EXCEPT !.mem[i] = n]

\* Mutant: the read position stays in front of the header.
InitAtHeader(b) == ShiftWritePos(Clear(b), HEADER_SIZE)

\* Init and Reset: Clear, and both positions behind the header.
Initialised(b) == ShiftReadPos(ShiftWritePos(Clear(b), HEADER_SIZE), HEADER_SIZE)

\* MyPacket::Write: what does not fit is left out, and << does not tell.
Written(b, data) ==
  IF CanWrite(b, data)
  THEN SetCell(Write(b, data), 0, Datasize(b) + Len(data)) ELSE b

\* Set(data, size): the bytes of a whole packet, its header among them.
SetTo(b, bytes) == Write(ShiftWritePos(Initialised(b), -HEADER_SIZE), bytes)

\* strlen from the read position on, and the integer there.
StringAt(b) == LET end == CHOOSE i \in b.read_pos..b.capacity - 1 :
                            b.mem[i] = 0 /\ \A j \in b.read_pos..i - 1 : b.mem[j] # 0
               IN  BytesFrom(b, b.read_pos, end - b.read_pos)

Init == \E p \in Protocols :
          /\ stream_buffer = SetCell(Initialised(NewBuffer(BUFFER_SIZE)), 1, p)
          /\ items = << >> /\ taken = 0
          /\ got = Nothing

\* packet << value
Put(item) ==
  /\ stream_buffer' = Written(stream_buffer, Encoded(item))
  /\ items' = IF CanWrite(stream_buffer, Encoded(item)) THEN Append(items, item) ELSE items
  /\ UNCHANGED <<taken, got>>

\* packet >> n and packet >> str, of the type of the value that is next: a
\* string is found by its zero and moves the read position unchecked.
Take ==
  /\ taken < Len(items)
  /\ taken' = taken + 1
  /\ IF items[taken + 1][1] = "int"
     THEN /\ got' = IntItem(Peek(stream_buffer, 1)[1])
          /\ stream_buffer' = ShiftReadPos(stream_buffer, 1)
     ELSE /\ got' = StringItem(StringAt(stream_buffer))
          /\ stream_buffer' = ShiftReadPos(stream_buffer, Len(StringAt(stream_buffer)) + 1)
  /\ UNCHANGED items

\* packet >> n with nothing left: Read fails and n keeps its value.
TakeNothing ==
  /\ ~CanPeek(stream_buffer, 1)
  /\ got' = Nothing
  /\ UNCHANGED <<stream_buffer, items, taken>>

Reset == /\ stream_buffer' = Initialised(stream_buffer)
         /\ items' = << >> /\ taken' = 0 /\ got' = Nothing

SetProtocol(id) == /\ stream_buffer' = SetCell(stream_buffer, 1, id)
                   /\ UNCHANGED <<items, taken, got>>

\* Client.cpp:44-76: the GetPacketSize() bytes of this packet arrive at the
\* other end, which builds a packet from them.
Arrive == /\ stream_buffer' = SetTo(NewBuffer(BUFFER_SIZE),
                                    BytesFrom(stream_buffer, 0, stream_buffer.filled))
          /\ taken' = 0 /\ got' = Nothing
          /\ UNCHANGED items

Next == \/ \E item \in Items : Put(item)
        \/ Take \/ TakeNothing \/ Reset \/ Arrive
        \/ \E p \in Protocols : SetProtocol(p)

Spec == Init /\ [][Next]_vars

-----------------------------------------------------------------------------
(***************************************************************************)
(* A packet gives back the values it was given, in order, on this side of  *)
(* the wire or on the other, and its header counts their bytes: what       *)
(* HeaderParsing cuts the stream by (packet_test.cpp:10-21,                *)
(* MyPacket.cpp:3-29).                                                     *)
(***************************************************************************)
PacketCarriesItems ==
  /\ Unread(stream_buffer) =
       FlattenSeq([k \in 1..Len(items) - taken |-> Encoded(items[taken + k])])
  /\ Datasize(stream_buffer) = stream_buffer.filled - HEADER_SIZE
  /\ got # Nothing => taken > 0 /\ got = items[taken]
=============================================================================
