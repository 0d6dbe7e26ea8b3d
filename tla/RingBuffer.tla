----------------------------- MODULE RingBuffer -----------------------------
(***************************************************************************)
(* Base/src/RingBuffer.cpp: a queue of bytes in an array that wraps around.*)
(*                                                                         *)
(* Positions are those of the code and start at 0.  A call that returns    *)
(* false changes nothing and is no action.  `passed' is the contents of the *)
(* caller's buffer: what Write takes from it, or Peek and Read put there.  *)
(***************************************************************************)
EXTENDS Integers, Sequences

CONSTANTS Bytes,        \* values a byte can have
          Zero,         \* one of them: what memset writes
          Capacities,   \* sizes given to the constructor and to Resize, not 0
          MaxWrite      \* BOUND: size of one Write

VARIABLES mem,          \* _buffer: a function on 0 .. capacity - 1
          capacity,     \* _buffer._capacity
          head,         \* _head
          tail,         \* _tail
          data_size,    \* _data_size
          passed

vars == <<mem, capacity, head, tail, data_size, passed>>

Positions(c) == 0..(c - 1)

\* memcpy of `data' to position `at', and of `n' bytes from position `at'.
Put(m, at, data) ==
  [i \in DOMAIN m |-> IF i \in at..(at + Len(data) - 1) THEN data[i - at + 1]
                                                         ELSE m[i]]
Get(m, at, n) == [i \in 1..n |-> m[at + i - 1]]

\* RingBuffer(capacity).
Init == /\ capacity \in Capacities
        /\ mem = [i \in Positions(capacity) |-> Zero]
        /\ head = 0 /\ tail = 0 /\ data_size = 0
        /\ passed = << >>

WritableSize == capacity - data_size

\* What Peek copies: one piece, or the end of the array and its beginning.
Peeked(size) ==
  LET space == capacity - head
  IN  IF head < tail \/ space >= size
      THEN Get(mem, head, size)
      ELSE Get(mem, head, space) \o Get(mem, 0, size - space)

\* Mutant: an empty buffer is written in one piece wherever it starts.
WrittenInOnePiece(data) ==
  LET space == capacity - tail
  IN  IF head >= tail \/ space >= Len(data)
      THEN Put(mem, tail, data)
      ELSE Put(Put(mem, tail, SubSeq(data, 1, space)),
               0, SubSeq(data, space + 1, Len(data)))

\* What Write makes of the array: one piece, or two.
Written(data) ==
  LET space == capacity - tail
  IN  IF head > tail \/ space >= Len(data)
      THEN Put(mem, tail, data)
      ELSE Put(Put(mem, tail, SubSeq(data, 1, space)),
               0, SubSeq(data, space + 1, Len(data)))

Peek(size) ==
  /\ size <= data_size
  /\ passed' = Peeked(size)
  /\ UNCHANGED <<mem, capacity, head, tail, data_size>>

Read(size) ==
  /\ size <= data_size
  /\ passed' = Peeked(size)
  /\ head' = (head + size) % capacity
  /\ data_size' = data_size - size
  /\ UNCHANGED <<mem, capacity, tail>>

Write(data) ==
  /\ Len(data) <= WritableSize
  /\ mem' = Written(data)
  /\ tail' = (tail + Len(data)) % capacity
  /\ data_size' = data_size + Len(data)
  /\ passed' = data
  /\ UNCHANGED <<capacity, head>>

Cleared == head' = 0 /\ tail' = 0 /\ data_size' = 0 /\ passed' = << >>

\* Buffer::Clear clears _filled_size bytes, which a ring buffer leaves at 0.
Clear == Cleared /\ UNCHANGED <<mem, capacity>>

\* Buffer::ReSize never shrinks; then Clear.
Resize(c) ==
  /\ IF c > capacity
     THEN capacity' = c /\ mem' = [i \in Positions(c) |-> Zero]
     ELSE UNCHANGED <<mem, capacity>>
  /\ Cleared

Writes == UNION {[1..n -> Bytes] : n \in 0..MaxWrite}

Next == \/ \E data \in Writes : Write(data)
        \/ \E size \in 0..data_size : Peek(size) \/ Read(size)
        \/ Clear
        \/ \E c \in Capacities : Resize(c)

Spec == Init /\ [][Next]_vars

-----------------------------------------------------------------------------
\* The positions stay inside the array and the data inside the capacity.
TypeOK == /\ capacity \in Capacities
          /\ mem \in [Positions(capacity) -> Bytes]
          /\ head \in Positions(capacity)
          /\ tail \in Positions(capacity)
          /\ data_size \in 0..capacity
          /\ passed \in Seq(Bytes)

(***************************************************************************)
(* _tail is where _head and _data_size say the data ends: the three        *)
(* counters, each moved by its own statement, never drift apart, and a     *)
(* full buffer is not taken for an empty one (RingBuffer.cpp:50-96).       *)
(***************************************************************************)
TailFollows == tail = (head + data_size) % capacity

\* The bytes between the two positions, oldest first.
Contents == [i \in 1..data_size |-> mem[(head + i - 1) % capacity]]

(***************************************************************************)
(* The ring buffer is a queue of bytes: whatever the positions, a Write    *)
(* and a Peek that wrap keep every byte and their order                    *)
(* (RingBuffer.cpp:19-96).                                                 *)
(***************************************************************************)
Queue == INSTANCE ByteQueue WITH queue <- Contents, room <- capacity
ImplementsByteQueue == Queue!Spec
=============================================================================
