---------------------------- MODULE StreamQueue ----------------------------
(***************************************************************************)
(* A StreamBuffer used through Write, Peek, Read, CarriageReturn, Clear    *)
(* and Resize, as the packets of TestProject/Packet.h use it.              *)
(***************************************************************************)
EXTENDS StreamBuffer

CONSTANTS Bytes,        \* values a byte can have
          Capacities,   \* sizes given to Create and to Resize
          MaxWrite      \* BOUND: size of one Write

VARIABLES buffer,   \* the StreamBuffer
          passed    \* what Write takes from its caller, or Peek and Read give it

vars == <<buffer, passed>>

Init == /\ buffer \in {NewBuffer(c) : c \in Capacities}
        /\ passed = << >>

WriteCall(data) ==
  /\ CanWrite(buffer, data)
  /\ buffer' = Write(buffer, data)
  /\ passed' = data

PeekCall(size) ==
  /\ CanPeek(buffer, size)
  /\ passed' = Peek(buffer, size)
  /\ UNCHANGED buffer

ReadCall(size) ==
  /\ CanPeek(buffer, size)
  /\ passed' = Peek(buffer, size)
  /\ buffer' = ShiftReadPos(buffer, size)

Tidying(b) == buffer' = b /\ passed' = << >>

Writes == UNION {[1..n -> Bytes] : n \in 0..MaxWrite}

Next == \/ \E data \in Writes : WriteCall(data)
        \/ \E size \in 0..ReadableSize(buffer) : PeekCall(size) \/ ReadCall(size)
        \/ Tidying(CarriageReturn(buffer))
        \/ Tidying(Clear(buffer))
        \/ \E c \in Capacities : Tidying(Resize(buffer, c))

Spec == Init /\ [][Next]_vars

-----------------------------------------------------------------------------
(***************************************************************************)
(* The positions stay in order inside the array, and _filled_size, which   *)
(* Clear relies on and MyPacket sends, is where the written bytes end      *)
(* (StreamBuffer.cpp:60-139).                                              *)
(***************************************************************************)
PositionsAgree == /\ 0 <= buffer.read_pos
                  /\ buffer.read_pos <= buffer.write_pos
                  /\ buffer.write_pos <= buffer.capacity
                  /\ buffer.filled = buffer.write_pos

(***************************************************************************)
(* The stream buffer is a queue of bytes: CarriageReturn keeps the unread  *)
(* bytes and their order although their places overlap                     *)
(* (StreamBuffer.cpp:74-128).                                              *)
(***************************************************************************)
Queue == INSTANCE ByteQueue WITH queue <- Unread(buffer), room <- buffer.capacity
ImplementsByteQueue == Queue!Spec
=============================================================================
