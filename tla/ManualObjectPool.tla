------------------------- MODULE ManualObjectPool --------------------------
(***************************************************************************)
(* Base/include/ObjectPool.hpp: the pool of objects that the application   *)
(* creates.  It hands out what was added, oldest first, and never grows by *)
(* itself: Borrow of an empty pool returns null.  With ArrayAlloc the      *)
(* objects are elements of arrays, whose beginnings SetArrayStartPtr notes *)
(* so that the destructor can delete them; without it every object was     *)
(* allocated alone and the destructor deletes those in the queue.          *)
(*                                                                         *)
(* Every operation holds the mutex throughout.  As TestProject/pool_test   *)
(* does, the application notes an array once, before it adds its elements, *)
(* and adds each element once.                                             *)
(***************************************************************************)
EXTENDS Integers, Sequences, SequencesExt

CONSTANTS Arrays, Elements,   \* the application's arrays, the places in each
          ArrayAlloc          \* the template parameter, BOOLEAN

Objects == Arrays \X Elements

VARIABLES pool,        \* _pool, front first
          array_ptrs,  \* _array_ptrs
          given,       \* what the last Borrow returned, << >> for null
          lent,        \* borrowed and not returned
          deleted,     \* how often each object was deleted
          alive        \* the destructor has not run

vars == <<pool, array_ptrs, given, lent, deleted, alive>>

Null == << >>
Queued == ToSet(pool)

Init == /\ pool = << >> /\ array_ptrs = << >>
        /\ given = Null
        /\ lent = {}
        /\ deleted = [o \in Objects |-> 0]
        /\ alive = TRUE

SetArrayStartPtr(a) ==
  /\ ArrayAlloc
  /\ a \notin ToSet(array_ptrs)
  /\ array_ptrs' = Append(array_ptrs, a)
  /\ UNCHANGED <<pool, given, lent, deleted, alive>>

Add(o) ==
  /\ o \notin Queued \cup lent
  /\ ArrayAlloc => o[1] \in ToSet(array_ptrs)
  /\ pool' = Append(pool, o)
  /\ UNCHANGED <<array_ptrs, given, lent, deleted, alive>>

Borrow ==
  /\ IF pool = << >>
     THEN given' = Null /\ UNCHANGED <<pool, lent>>
     ELSE /\ given' = Head(pool)
          /\ pool' = Tail(pool)
          /\ lent' = lent \cup {Head(pool)}
  /\ UNCHANGED <<array_ptrs, deleted, alive>>

Return(o) ==
  /\ o \in lent
  /\ pool' = Append(pool, o)
  /\ lent' = lent \ {o}
  /\ UNCHANGED <<array_ptrs, given, deleted, alive>>

\* The destructor: every array that was noted, or every object in the queue.
Destroy ==
  /\ deleted' = [o \in Objects |->
                   IF IF ArrayAlloc THEN o[1] \in ToSet(array_ptrs) ELSE o \in Queued
                   THEN deleted[o] + 1 ELSE deleted[o]]
  /\ pool' = << >> /\ array_ptrs' = << >>
  /\ alive' = FALSE
  /\ UNCHANGED <<given, lent>>

Next == /\ alive
        /\ \/ \E a \in Arrays : SetArrayStartPtr(a)
           \/ \E o \in Objects : Add(o) \/ Return(o)
           \/ Borrow
           \/ Destroy

Spec == Init /\ [][Next]_vars

-----------------------------------------------------------------------------
(***************************************************************************)
(* Nothing is queued twice, or queued while somebody has it.  No object is *)
(* deleted twice, none that somebody can still borrow is deleted, and of a *)
(* dead pool only what was lent from a pool of single objects is left to   *)
(* its borrower (ObjectPool.hpp:203-276).                                  *)
(***************************************************************************)
DeletedOnce ==
  /\ IsInjective(pool) /\ Queued \cap lent = {}
  /\ \A o \in Objects : deleted[o] <= 1
  /\ \A o \in Queued : deleted[o] = 0
  /\ ~ArrayAlloc => \A o \in lent : deleted[o] = 0

(***************************************************************************)
(* While it lives, this pool keeps the promise of every pool: what is      *)
(* queued is free and nothing is lent twice (ObjectPool.hpp:248-276).      *)
(***************************************************************************)
Lending == INSTANCE LendingPool WITH free <- Queued
ImplementsLendingPool == Lending!Init /\ [][alive' => Lending!Next]_<<Queued, lent>>
=============================================================================
