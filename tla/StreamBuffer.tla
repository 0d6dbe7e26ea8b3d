---------------------------- MODULE StreamBuffer ----------------------------
(***************************************************************************)
(* Base/src/StreamBuffer.cpp over Base/src/Buffer.cpp: an array with a     *)
(* read and a write position that only move forward until CarriageReturn   *)
(* moves the unread bytes back to the beginning.                           *)
(*                                                                         *)
(* A buffer is a record; a method that changes it is an operator from the  *)
(* buffer before to the buffer after.  Positions start at 0.               *)
(***************************************************************************)
EXTENDS Integers, Sequences

CONSTANT Zero   \* what memset writes

\* Create(c): the array and _filled_size of Buffer, the two positions.
NewBuffer(c) == [capacity |-> c, mem |-> [i \in 0..(c - 1) |-> Zero],
                 filled |-> 0, read_pos |-> 0, write_pos |-> 0]

ReadableSize(b) == b.write_pos - b.read_pos
WritableSize(b) == b.capacity - b.write_pos

\* memcpy of `data' to the write position, and of `n' bytes from `at'.
PutAtWritePos(b, data) ==
  [b EXCEPT !.mem =
     [i \in DOMAIN @ |-> IF i \in b.write_pos..(b.write_pos + Len(data) - 1)
                         THEN data[i - b.write_pos + 1] ELSE @[i]]]
BytesFrom(b, at, n) == [i \in 1..n |-> b.mem[at + i - 1]]

Unread(b) == BytesFrom(b, b.read_pos, ReadableSize(b))

ShiftReadPos(b, offset) == [b EXCEPT !.read_pos = @ + offset]

ShiftWritePos(b, offset) ==
  [b EXCEPT !.write_pos = @ + offset, !.filled = @ + offset]

Peek(b, size) == BytesFrom(b, b.read_pos, size)
CanPeek(b, size) == size <= ReadableSize(b)

Write(b, data) == ShiftWritePos(PutAtWritePos(b, data), Len(data))
CanWrite(b, data) == Len(data) <= WritableSize(b)

\* Clear: memset of the _filled_size first bytes.
Clear(b) ==
  [b EXCEPT !.mem = [i \in DOMAIN @ |-> IF i < b.filled THEN Zero ELSE @[i]],
            !.filled = 0, !.read_pos = 0, !.write_pos = 0]

\* Resize: Buffer::ReSize, which keeps the data and never shrinks; Clear.
Resize(b, c) == IF c > b.capacity THEN NewBuffer(c) ELSE Clear(b)

\* memmove of the unread bytes to the beginning; a negative size, which the
\* code calls an exception, moves nothing.
CarriageReturn(b) ==
  LET move_size == IF ReadableSize(b) > 0 THEN ReadableSize(b) ELSE 0
  IN  [b EXCEPT !.mem = [i \in DOMAIN @ |-> IF i < move_size THEN @[b.read_pos + i]
                                                            ELSE @[i]],
                !.read_pos = 0, !.write_pos = move_size, !.filled = move_size]
=============================================================================
