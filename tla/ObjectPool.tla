---------------------------- MODULE ObjectPool -----------------------------
(***************************************************************************)
(* Base/include/ObjectPool.hpp: a FIFO queue of objects, created in arrays *)
(* and numbered by a running index, that doubles itself when it runs dry.  *)
(*                                                                         *)
(* Every operation holds the pool's recursive mutex from its first to its  *)
(* last statement, so each one is a single action.  An object is named by  *)
(* the number SetIndex gives it.  `lent' is not in the code: it is the set *)
(* of objects the callers of Borrow have not passed to Return yet.         *)
(***************************************************************************)
EXTENDS Integers, Sequences

CONSTANTS Sizes,      \* sizes the application passes to Create
          MaxIndex    \* BOUND: objects created in all

ASSUME SizesAssumption == Sizes \subseteq Nat \ {0}
ASSUME MaxIndexAssumption == MaxIndex \in Nat

VARIABLES pool,        \* _pool, front first
          index,       \* _index: objects created so far
          expandsize,  \* _expandsize
          lent

vars == <<pool, index, expandsize, lent>>

Queued == {pool[i] : i \in 1..Len(pool)}

\* The objects of one more array, in the order they are pushed.
FreshArray(size) == [i \in 1..size |-> index + i]

Init == /\ pool = << >>
        /\ index = 0
        /\ expandsize = 0
        /\ lent = {}

\* Mutant: the last object of an array keeps the next array's first index.
CreateReusesIndex(size) ==
  /\ index + size <= MaxIndex
  /\ pool' = pool \o FreshArray(size)
  /\ index' = IF index = 0 THEN size ELSE index + size - 1
  /\ expandsize' = Len(pool') * 2
  /\ UNCHANGED lent

\* The application, and Borrow when the queue is empty, add `size' objects.
Create(size) ==
  /\ index + size <= MaxIndex
  /\ pool' = pool \o FreshArray(size)
  /\ index' = index + size
  /\ expandsize' = Len(pool') * 2
  /\ UNCHANGED lent

\* Mutant: Borrow reads the front and forgets to pop it.
BorrowWithoutPop ==
  /\ pool # << >>
  /\ lent' = lent \cup {Head(pool)}
  /\ UNCHANGED <<pool, index, expandsize>>

\* Borrow with objects in the queue: front() and pop().
BorrowQueued ==
  /\ pool # << >>
  /\ pool' = Tail(pool)
  /\ lent' = lent \cup {Head(pool)}
  /\ UNCHANGED <<index, expandsize>>

\* Borrow with an empty queue: Create(_expandsize), then front() and pop().
\* The callers borrow only after a first Create (IocpServer::Start), so
\* _expandsize is not 0 here; front() of an empty queue would be undefined.
BorrowExpanding ==
  /\ pool = << >>
  /\ index > 0
  /\ index + expandsize <= MaxIndex
  /\ pool' = Tail(FreshArray(expandsize))
  /\ lent' = lent \cup {Head(FreshArray(expandsize))}
  /\ index' = index + expandsize
  /\ expandsize' = Len(FreshArray(expandsize)) * 2

\* Return pushes without any check; a caller returns what it borrowed.
Return(o) ==
  /\ o \in lent
  /\ pool' = Append(pool, o)
  /\ lent' = lent \ {o}
  /\ UNCHANGED <<index, expandsize>>

Next == \/ \E size \in Sizes : Create(size)
        \/ BorrowQueued
        \/ BorrowExpanding
        \/ \E o \in lent : Return(o)

Spec == Init /\ [][Next]_vars

-----------------------------------------------------------------------------
\* Only objects that were created are in the queue or lent, and their number
\* is bounded.
TypeOK == /\ pool \in Seq(1..index)
          /\ index \in 0..MaxIndex
          /\ expandsize \in Nat
          /\ lent \in SUBSET (1..index)

(***************************************************************************)
(* No object is in the queue twice, none is both queued and lent, and none *)
(* is lost: the hazard is a Borrow that hands one object to two callers,   *)
(* or an index that Create gives to two objects (ObjectPool.hpp:99-152).   *)
(***************************************************************************)
NothingQueuedTwice == \A i, j \in 1..Len(pool) : pool[i] = pool[j] => i = j
QueuedOrLent == Queued \cap lent = {}
NothingLost == Queued \cup lent = 1..index

Partition == NothingQueuedTwice /\ QueuedOrLent /\ NothingLost

(***************************************************************************)
(* Once anything was created the pool can always grow: Borrow's front() is *)
(* never called on an empty queue (ObjectPool.hpp:104-109), because Create *)
(* leaves _expandsize at twice a queue that is not empty.                  *)
(***************************************************************************)
CanExpand == index > 0 => expandsize > 0

Inv == TypeOK /\ Partition /\ CanExpand

(***************************************************************************)
(* The queue implements the lending pool: what is queued is free.          *)
(***************************************************************************)
Lending == INSTANCE LendingPool WITH Objects <- 1..MaxIndex, free <- Queued
ImplementsLendingPool == Lending!Spec
=============================================================================
