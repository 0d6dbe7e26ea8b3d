----------------------------- MODULE ByteQueue -----------------------------
(***************************************************************************)
(* What the buffers of Base promise to their users: a queue of bytes with  *)
(* a capacity.  A Write is taken whole or not at all, Peek and Read give   *)
(* the oldest bytes in the order they were written, and Read removes them. *)
(* RingBuffer and StreamQueue implement it.                                *)
(***************************************************************************)
EXTENDS Integers, Sequences

CONSTANTS Bytes,       \* what can be written
          Capacities   \* the sizes Resize may give the buffer

VARIABLES queue,     \* the bytes written and not yet read
          room,      \* the capacity
          passed    \* the bytes the latest call took from its caller or gave it

Init == /\ queue = << >>
        /\ room \in Capacities
        /\ passed = << >>

Write(data) ==
  /\ Len(queue) + Len(data) <= room
  /\ queue' = queue \o data
  /\ passed' = data
  /\ UNCHANGED room

Peek(n) ==
  /\ n <= Len(queue)
  /\ passed' = SubSeq(queue, 1, n)
  /\ UNCHANGED <<queue, room>>

Read(n) ==
  /\ n <= Len(queue)
  /\ passed' = SubSeq(queue, 1, n)
  /\ queue' = SubSeq(queue, n + 1, Len(queue))
  /\ UNCHANGED room

Clear ==
  /\ queue' = << >>
  /\ passed' = << >>
  /\ UNCHANGED room

\* A buffer never shrinks, and it forgets its bytes.
Resize(c) ==
  /\ queue' = << >>
  /\ room' = IF c > room THEN c ELSE room
  /\ passed' = << >>

\* A buffer may tidy itself up without any effect for its user.
Tidy == passed' = << >> /\ UNCHANGED <<queue, room>>

\* All the data there is room for.
Fitting == UNION {[1..n -> Bytes] : n \in 0..(room - Len(queue))}

Next == \/ \E data \in Fitting : Write(data)
        \/ \E n \in 0..Len(queue) : Peek(n) \/ Read(n)
        \/ Clear
        \/ \E c \in Capacities : Resize(c)
        \/ Tidy

Spec == Init /\ [][Next]_<<queue, room, passed>>
=============================================================================
