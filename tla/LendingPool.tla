---------------------------- MODULE LendingPool ----------------------------
(***************************************************************************)
(* What a client may rely on when it uses an object pool: an object is     *)
(* either free or lent to exactly one borrower, a borrower is never handed *)
(* an object that somebody else still holds, and objects are only added.   *)
(* ObjectPool implements this promise with a FIFO queue that grows.        *)
(***************************************************************************)

CONSTANT Objects   \* every object a pool could ever create

VARIABLES free,    \* objects waiting in the pool
          lent     \* objects in the hands of a borrower

Created == free \cup lent

Init == free = {} /\ lent = {}

\* New objects join the pool.
Grow(fresh) ==
  /\ fresh \cap Created = {}
  /\ free' = free \cup fresh
  /\ UNCHANGED lent

\* A borrower gets one object; a pool that ran dry grows in the same step.
Lend(o, fresh) ==
  /\ fresh \cap Created = {}
  /\ o \in free \cup fresh
  /\ free' = (free \cup fresh) \ {o}
  /\ lent' = lent \cup {o}

\* A borrower gives its object back.
TakeBack(o) ==
  /\ o \in lent
  /\ lent' = lent \ {o}
  /\ free' = free \cup {o}

Next == \/ \E fresh \in SUBSET Objects : Grow(fresh)
        \/ \E o \in Objects, fresh \in SUBSET Objects : Lend(o, fresh)
        \/ \E o \in Objects : TakeBack(o)

Spec == Init /\ [][Next]_<<free, lent>>
=============================================================================
