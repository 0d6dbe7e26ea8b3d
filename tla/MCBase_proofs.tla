---------------------------- MODULE MCBase_proofs ----------------------------
(***************************************************************************)
(* The object pools, the buffers, the packets, the blocking sockets, the   *)
(* addresses and the reader of files, for every value of their constants.  *)
(*                                                                         *)
(* Each has an inductive invariant: the object pool's queue, lent objects  *)
(* and running index are one partition of the objects created; the ring's  *)
(* and the stream's positions agree with the bytes they hold; an array has *)
(* at most one Buffer and is as large as it says; a manual pool that lives *)
(* has deleted nothing; an open handle has exactly one owner; and a packet *)
(* is made of the pieces that its items were written as.                   *)
(***************************************************************************)
EXTENDS MCBase, SequenceTheorems, FiniteSetTheorems, TLAPS

(***************************************************************************)
(* The object pool.                                                        *)
(***************************************************************************)

\* The objects of one more array are new, and there are `size' of them.
LEMMA FreshArrayFacts ==
  ASSUME index \in Nat, NEW size \in Nat
  PROVE  /\ FreshArray(size) \in Seq(1..(index + size))
         /\ Len(FreshArray(size)) = size
         /\ \A i \in 1..size : FreshArray(size)[i] = index + i
  BY DEF FreshArray

\* Create keeps the partition: it adds the next `size' objects to the queue.
LEMMA CreateInv ==
  ASSUME Inv, NEW size \in Nat \ {0}, Create(size)
  PROVE  Inv' /\ Queued' = Queued \cup (index + 1)..(index + size)
<1> USE DEF Inv, TypeOK, Partition
<1>0. index' \in 0..MaxIndex /\ index \in Nat
  BY MaxIndexAssumption DEF Create
<1> DEFINE fresh == FreshArray(size)
<1>1. /\ fresh \in Seq(1..(index + size)) /\ Len(fresh) = size
      /\ \A i \in 1..size : fresh[i] = index + i
  BY FreshArrayFacts
<1>2. /\ pool' = pool \o fresh
      /\ index' = index + size
      /\ lent' = lent
      /\ expandsize' = Len(pool') * 2
  BY DEF Create
<1> HIDE DEF fresh
<1>3. /\ Len(pool') = Len(pool) + size
      /\ pool' \in Seq(1..index')
      /\ \A i \in 1..Len(pool) : pool'[i] = pool[i] /\ pool[i] \in 1..index
      /\ \A i \in (Len(pool) + 1)..Len(pool') : pool'[i] = index + (i - Len(pool))
  <2>1. pool \in Seq(1..(index + size)) /\ Len(pool) \in Nat
    BY SeqMonotonic, 1..index \subseteq 1..(index + size)
  <2>2. /\ pool' \in Seq(1..index') /\ Len(pool') = Len(pool) + size
        /\ \A i \in 1..(Len(pool) + size) :
             pool'[i] = IF i <= Len(pool) THEN pool[i] ELSE fresh[i - Len(pool)]
    <3>1. /\ pool \o fresh \in Seq(1..(index + size)) /\ Len(pool \o fresh) = Len(pool) + Len(fresh)
          /\ \A i \in 1..(Len(pool) + Len(fresh)) :
               (pool \o fresh)[i] = IF i <= Len(pool) THEN pool[i] ELSE fresh[i - Len(pool)]
      BY ONLY <2>1, <1>1, ConcatProperties
    <3> QED BY ONLY <1>1, <1>2, <3>1
  <2>3. \A i \in 1..Len(pool) : pool[i] \in 1..index
    BY ElementOfSeq
  <2>4. \A i \in 1..Len(pool) : i \in 1..(Len(pool) + size) /\ i <= Len(pool)
    BY <2>1
  <2>5. \A i \in (Len(pool) + 1)..(Len(pool) + size) :
          /\ i \in 1..(Len(pool) + size) /\ ~(i <= Len(pool))
          /\ i - Len(pool) \in 1..size
    BY <2>1
  <2> QED BY <2>2, <2>3, <2>4, <2>5, <1>1
<1>4. TypeOK'
  BY <1>0, <1>2, <1>3
<1>5. NothingQueuedTwice'
  <2> SUFFICES ASSUME NEW i \in 1..Len(pool'), NEW j \in 1..Len(pool'),
                      pool'[i] = pool'[j]
               PROVE  i = j
    BY DEF NothingQueuedTwice
  <2> DEFINE old == 1..Len(pool)
             new == (Len(pool) + 1)..Len(pool')
  <2>0. Len(pool) \in Nat /\ index \in Nat /\ Len(pool') = Len(pool) + size
    BY <1>3
  <2>1. (i \in old \/ i \in new) /\ (j \in old \/ j \in new)
    BY <2>0
  <2>2. CASE i \in old /\ j \in old
    BY <2>2, <1>3 DEF NothingQueuedTwice
  <2>3. CASE i \in new /\ j \in new
    <3>1. index + (i - Len(pool)) = index + (j - Len(pool))
      BY <2>3, <1>3
    <3> QED BY <3>1, <2>0
  <2>4. CASE i \in old /\ j \in new
    <3>1. pool'[i] \in 1..index /\ pool'[j] = index + (j - Len(pool))
      BY <2>4, <1>3
    <3> QED BY <3>1, <2>4, <2>0
  <2>5. CASE i \in new /\ j \in old
    <3>1. pool'[j] \in 1..index /\ pool'[i] = index + (i - Len(pool))
      BY <2>5, <1>3
    <3> QED BY <3>1, <2>5, <2>0
  <2> QED BY <2>1, <2>2, <2>3, <2>4, <2>5
<1>6. Queued' = Queued \cup (index + 1)..(index + size)
  <2>0. Len(pool) \in Nat /\ Len(pool') = Len(pool) + size
    BY <1>3
  <2>1. ASSUME NEW i \in 1..Len(pool')
        PROVE  pool'[i] \in Queued \cup (index + 1)..(index + size)
    <3>1. CASE i \in 1..Len(pool)
      BY <3>1, <1>3 DEF Queued
    <3>2. CASE i \in (Len(pool) + 1)..Len(pool')
      BY <3>2, <1>3, <2>0
    <3> QED BY <3>1, <3>2, <2>0
  <2>2. ASSUME NEW i \in 1..Len(pool) PROVE pool[i] \in Queued'
    <3>1. i \in 1..Len(pool') /\ pool'[i] = pool[i]
      BY <1>3, <2>0
    <3> QED BY <3>1 DEF Queued
  <2>3. ASSUME NEW x \in (index + 1)..(index + size) PROVE x \in Queued'
    <3> DEFINE k == Len(pool) + (x - index)
    <3>1. k \in (Len(pool) + 1)..Len(pool') /\ index + (k - Len(pool)) = x
      BY <2>0
    <3>2. k \in 1..Len(pool')
      BY <3>1, <2>0
    <3>3. pool'[k] = x
      BY <3>1, <1>3
    <3> QED BY <3>2, <3>3 DEF Queued
  <2> QED BY <2>1, <2>2, <2>3 DEF Queued
<1>7. QueuedOrLent' /\ NothingLost'
  BY <1>2, <1>6 DEF QueuedOrLent, NothingLost
<1>8. CanExpand'
  BY <1>2, <1>3 DEF CanExpand
<1> QED BY <1>4, <1>5, <1>6, <1>7, <1>8

\* Borrow takes the front of the queue, which is nobody's.
LEMMA BorrowQueuedInv ==
  ASSUME Inv, BorrowQueued
  PROVE  /\ Inv' /\ Head(pool) \in Queued
         /\ Queued' = Queued \ {Head(pool)}
<1> USE DEF Inv, TypeOK, Partition
<1>1. /\ pool' = Tail(pool) /\ pool # << >>
      /\ lent' = lent \cup {pool[1]}
      /\ index' = index /\ expandsize' = expandsize
  BY DEF BorrowQueued
<1>2. /\ Len(pool) > 0 /\ Len(pool') = Len(pool) - 1
      /\ pool' \in Seq(1..index)
      /\ \A i \in 1..Len(pool') : pool'[i] = pool[i + 1]
      /\ pool[1] \in 1..index
  BY <1>1, HeadTailProperties, EmptySeq, ElementOfSeq
<1>3. TypeOK' /\ CanExpand'
  BY <1>1, <1>2 DEF CanExpand
<1>4. NothingQueuedTwice'
  <2>1. \A i \in 1..Len(pool') : i \in Nat /\ i + 1 \in 1..Len(pool)
    BY <1>2
  <2>2. ASSUME NEW i \in 1..Len(pool'), NEW j \in 1..Len(pool'), pool'[i] = pool'[j]
        PROVE  i = j
    <3>1. pool[i + 1] = pool[j + 1]
      BY <2>2, <1>2
    <3>2. i + 1 = j + 1
      BY <3>1, <2>1 DEF NothingQueuedTwice
    <3> QED BY <3>2, <2>1
  <2> QED BY <2>2 DEF NothingQueuedTwice
<1>5. pool[1] \notin Queued'
  <2>1. \A i \in 1..Len(pool') : i + 1 \in 1..Len(pool) /\ i + 1 # 1 /\ pool'[i] = pool[i + 1]
    BY <1>2
  <2>2. 1 \in 1..Len(pool)
    BY <1>2
  <2>3. \A i \in 1..Len(pool') : pool'[i] # pool[1]
    BY <2>1, <2>2 DEF NothingQueuedTwice
  <2> QED BY <2>3 DEF Queued
<1>6. Queued = Queued' \cup {pool[1]}
  <2>1. ASSUME NEW i \in 1..Len(pool) PROVE pool[i] \in Queued' \cup {pool[1]}
    <3>1. CASE i = 1
      BY <3>1
    <3>2. CASE i # 1
      <4>1. i - 1 \in 1..Len(pool') /\ pool'[i - 1] = pool[i]
        BY <3>2, <1>2
      <4> QED BY <4>1 DEF Queued
    <3> QED BY <3>1, <3>2
  <2>2. Queued' \cup {pool[1]} \subseteq Queued
    <3>1. \A i \in 1..Len(pool') : i + 1 \in 1..Len(pool) /\ pool'[i] = pool[i + 1]
      BY <1>2
    <3>2. 1 \in 1..Len(pool)
      BY <1>2
    <3> QED BY <3>1, <3>2 DEF Queued
  <2> QED BY <2>1, <2>2 DEF Queued
<1>7. QueuedOrLent' /\ NothingLost'
  BY <1>1, <1>5, <1>6 DEF QueuedOrLent, NothingLost
<1>8. Head(pool) = pool[1]
  OBVIOUS
<1> QED BY <1>3, <1>4, <1>5, <1>6, <1>7, <1>8

\* A Borrow that expands lends the first of the new objects and queues the
\* rest; _expandsize is positive, so there is a first one.
LEMMA BorrowExpandingInv ==
  ASSUME Inv, BorrowExpanding
  PROVE  /\ Inv' /\ Queued = {} /\ expandsize > 0
         /\ index + expandsize <= MaxIndex
         /\ Queued' = (index + 2)..(index + expandsize)
         /\ lent' = lent \cup {index + 1}
<1> USE DEF Inv, TypeOK, Partition
<1> DEFINE fresh == FreshArray(expandsize)
<1>1. expandsize \in Nat \ {0} /\ pool = << >> /\ index \in Nat
  BY DEF BorrowExpanding, CanExpand
<1>2. /\ fresh \in Seq(1..(index + expandsize)) /\ Len(fresh) = expandsize
      /\ \A i \in 1..expandsize : fresh[i] = index + i
  BY <1>1, FreshArrayFacts
<1>3. /\ pool' = Tail(fresh)
      /\ lent' = lent \cup {fresh[1]}
      /\ index' = index + expandsize
      /\ expandsize' = Len(fresh) * 2
  BY <1>1, <1>2 DEF BorrowExpanding
<1> HIDE DEF fresh
<1>4. /\ pool' \in Seq(1..index')
      /\ Len(pool') = expandsize - 1
      /\ \A i \in 1..Len(pool') : pool'[i] = index + i + 1
      /\ fresh[1] = index + 1
  <2>1. fresh # << >>
    BY <1>1, <1>2
  <2>2. /\ pool' \in Seq(1..index') /\ Len(pool') = expandsize - 1
        /\ \A i \in 1..Len(pool') : pool'[i] = fresh[i + 1]
    BY <2>1, <1>2, <1>3, HeadTailProperties
  <2>3. \A i \in 1..(expandsize - 1) : i + 1 \in 1..expandsize
    BY <1>1
  <2> QED BY <2>2, <2>3, <1>1, <1>2
<1>5. TypeOK' /\ CanExpand' /\ NothingQueuedTwice'
  <2>1. index + expandsize <= MaxIndex
    BY DEF BorrowExpanding
  <2> QED BY <2>1, <1>1, <1>2, <1>3, <1>4, MaxIndexAssumption
          DEF CanExpand, NothingQueuedTwice
<1>6. Queued' = (index + 2)..(index + expandsize)
  <2>1. ASSUME NEW x \in (index + 2)..(index + expandsize) PROVE x \in Queued'
    <3>1. x - index - 1 \in 1..Len(pool') /\ pool'[x - index - 1] = x
      BY <1>1, <1>4
    <3> QED BY <3>1 DEF Queued
  <2>2. ASSUME NEW i \in 1..Len(pool') PROVE pool'[i] \in (index + 2)..(index + expandsize)
    BY <1>1, <1>4
  <2> QED BY <2>1, <2>2 DEF Queued
<1>7. Queued = {} /\ lent = 1..index
  <2>1. 1..Len(pool) = {}
    BY <1>1, EmptySeq
  <2> QED BY <2>1 DEF Queued, NothingLost
<1>8. QueuedOrLent' /\ NothingLost'
  BY <1>1, <1>3, <1>4, <1>6, <1>7 DEF QueuedOrLent, NothingLost
<1>9. index + expandsize <= MaxIndex
  BY DEF BorrowExpanding
<1> QED BY <1>1, <1>3, <1>4, <1>5, <1>6, <1>7, <1>8, <1>9

\* Return puts a lent object, which is not in the queue, at its end.
LEMMA ReturnInv ==
  ASSUME Inv, NEW o \in lent, Return(o)
  PROVE  Inv' /\ Queued' = Queued \cup {o}
<1> USE DEF Inv, TypeOK, Partition
<1>1. /\ pool' = Append(pool, o) /\ lent' = lent \ {o}
      /\ index' = index /\ expandsize' = expandsize
  BY DEF Return
<1>2. /\ o \in 1..index /\ o \notin Queued
  BY DEF QueuedOrLent
<1>3. /\ pool' \in Seq(1..index) /\ Len(pool') = Len(pool) + 1
      /\ \A i \in 1..Len(pool) : pool'[i] = pool[i]
      /\ pool'[Len(pool) + 1] = o
  BY <1>1, <1>2, AppendProperties
<1>4. TypeOK' /\ CanExpand'
  BY <1>1, <1>3 DEF CanExpand
<1>5. \A i \in 1..Len(pool) : pool[i] # o
  BY <1>2 DEF Queued
<1>6. NothingQueuedTwice'
  <2>1. \A i \in 1..Len(pool') : i \in 1..Len(pool) \/ i = Len(pool) + 1
    BY <1>3, LenProperties
  <2> QED BY <2>1, <1>3, <1>5 DEF NothingQueuedTwice
<1>7. Queued' = Queued \cup {o}
  <2>1. /\ Len(pool) \in Nat
        /\ 1..Len(pool') = 1..Len(pool) \cup {Len(pool) + 1}
    BY <1>3, LenProperties
  <2>2. \A i \in 1..Len(pool') : pool'[i] \in Queued \cup {o}
    BY <2>1, <1>3 DEF Queued
  <2>3. \A i \in 1..Len(pool) : pool[i] = pool'[i] /\ i \in 1..Len(pool')
    BY <2>1, <1>3
  <2>4. o = pool'[Len(pool) + 1] /\ Len(pool) + 1 \in 1..Len(pool')
    BY <2>1, <1>3
  <2> QED BY <2>2, <2>3, <2>4 DEF Queued
<1>8. QueuedOrLent' /\ NothingLost'
  BY <1>1, <1>2, <1>7 DEF QueuedOrLent, NothingLost
<1> QED BY <1>4, <1>6, <1>7, <1>8

\* The invariant does not depend on anything but the variables.
LEMMA StutterInv ==
  ASSUME Inv, UNCHANGED vars
  PROVE  Inv'
BY DEF Inv, TypeOK, Partition, NothingQueuedTwice, QueuedOrLent, NothingLost,
       CanExpand, Queued, vars

(***************************************************************************)
(* In every reachable state the pool's types hold, every object is queued  *)
(* once or lent, and Borrow never meets an empty queue it cannot refill.   *)
(***************************************************************************)
THEOREM PoolInvariant == Spec => []Inv
<1>1. Init => Inv
  BY MaxIndexAssumption
     DEF Init, Inv, TypeOK, Partition, NothingQueuedTwice, QueuedOrLent,
         NothingLost, CanExpand, Queued
<1>2. Inv /\ [Next]_vars => Inv'
  BY CreateInv, BorrowQueuedInv, BorrowExpandingInv, ReturnInv, StutterInv,
     SizesAssumption DEF Next
<1> QED BY <1>1, <1>2, PTL DEF Spec

\* The partition by itself, as the runs check it (ObjectPool.hpp:99-152).
THEOREM PoolPartition == Spec => []Partition
<1>1. Inv => Partition
  BY DEF Inv
<1> QED BY <1>1, PoolInvariant, PTL

(***************************************************************************)
(* The FIFO queue with its expansion implements the lending pool: a Borrow *)
(* hands out an object nobody holds, a Return takes back a lent one, and   *)
(* objects only ever enter as new ones.                                    *)
(***************************************************************************)
THEOREM PoolImplementsLending == Spec => ImplementsLendingPool
<1>1. Init => Lending!Init
  BY EmptySeq DEF Init, Lending!Init, Queued
<1>2. Inv /\ [Next]_vars => [Lending!Next]_<<Queued, lent>>
  <2> SUFFICES ASSUME Inv, [Next]_vars PROVE [Lending!Next]_<<Queued, lent>>
    OBVIOUS
  <2>0. /\ Queued \cup lent = 1..index /\ Queued \cap lent = {}
        /\ index \in 0..MaxIndex /\ MaxIndex \in Nat /\ expandsize \in Nat
    BY MaxIndexAssumption DEF Inv, TypeOK, Partition, NothingLost, QueuedOrLent
  <2>1. ASSUME NEW size \in Sizes, Create(size) PROVE Lending!Next
    <3> DEFINE fresh == (index + 1)..(index + size)
    <3>1. size \in Nat \ {0} /\ index + size <= MaxIndex /\ lent' = lent
      BY <2>1, SizesAssumption DEF Create
    <3>2. fresh \cap (Queued \cup lent) = {} /\ fresh \in SUBSET (1..MaxIndex)
      BY <3>1, <2>0
    <3>3. Queued' = Queued \cup fresh
      BY <2>1, <3>1, CreateInv
    <3> QED BY <3>1, <3>2, <3>3 DEF Lending!Next, Lending!Grow, Lending!Created
  <2>2. CASE BorrowQueued
    <3>1. /\ Head(pool) \in Queued /\ Queued' = Queued \ {Head(pool)}
          /\ lent' = lent \cup {Head(pool)}
      BY <2>2, BorrowQueuedInv DEF BorrowQueued
    <3>2. Lending!Lend(Head(pool), {}) /\ Head(pool) \in 1..MaxIndex
      BY <3>1, <2>0 DEF Lending!Lend, Lending!Created
    <3> QED BY <3>2 DEF Lending!Next
  <2>3. CASE BorrowExpanding
    <3> DEFINE fresh == (index + 1)..(index + expandsize)
    <3>1. /\ Queued = {} /\ expandsize > 0 /\ index + expandsize <= MaxIndex
          /\ Queued' = (index + 2)..(index + expandsize)
          /\ lent' = lent \cup {index + 1}
      BY <2>3, BorrowExpandingInv
    <3>2. /\ fresh \cap (Queued \cup lent) = {} /\ index + 1 \in fresh
          /\ fresh \in SUBSET (1..MaxIndex) /\ index + 1 \in 1..MaxIndex
          /\ Queued' = (Queued \cup fresh) \ {index + 1}
      BY <3>1, <2>0
    <3> QED BY <3>1, <3>2 DEF Lending!Next, Lending!Lend, Lending!Created
  <2>4. ASSUME NEW o \in lent, Return(o) PROVE Lending!Next
    <3>1. Queued' = Queued \cup {o} /\ lent' = lent \ {o} /\ o \in 1..MaxIndex
      BY <2>4, <2>0, ReturnInv DEF Return
    <3> QED BY <3>1 DEF Lending!Next, Lending!TakeBack
  <2>5. CASE UNCHANGED vars
    BY <2>5 DEF vars, Queued
  <2> QED BY <2>1, <2>2, <2>3, <2>4, <2>5 DEF Next
<1> QED BY <1>1, <1>2, PoolInvariant, PTL
        DEF Spec, ImplementsLendingPool, Lending!Spec

(***************************************************************************)
(* The ring buffer.                                                        *)
(***************************************************************************)

\* A position that went round once at most is back by one capacity.
LEMMA WrapsOnce ==
  ASSUME NEW c \in Nat \ {0}, NEW p \in Nat, p < 2 * c
  PROVE  p % c = IF p < c THEN p ELSE p - c
<1>1. CASE p < c BY <1>1
<1>2. CASE p >= c
  <2>1. p = 1 * c + (p - c) /\ p - c \in 0..(c - 1) BY <1>2
  <2> QED BY <2>1, <1>2
<1> QED BY <1>1, <1>2

RingInv == Ring!TypeOK /\ Ring!TailFollows

\* The arithmetic of the positions, without the wrap.
LEMMA RingFacts ==
  ASSUME RingInv
  PROVE  /\ capacity \in Nat \ {0} /\ data_size \in 0..capacity
         /\ head \in 0..(capacity - 1) /\ tail \in 0..(capacity - 1)
         /\ tail = IF head + data_size < capacity THEN head + data_size
                   ELSE head + data_size - capacity
         /\ \A i \in 1..data_size :
              (head + i - 1) % capacity = IF head + i - 1 < capacity THEN head + i - 1
                                          ELSE head + i - 1 - capacity
<1>1. /\ capacity \in Nat \ {0} /\ data_size \in 0..capacity
      /\ head \in 0..(capacity - 1) /\ tail \in 0..(capacity - 1)
  BY BuffersAssumption DEF RingInv, Ring!TypeOK, Ring!Positions
<1>2. ASSUME NEW p \in Nat, p < 2 * capacity
      PROVE  p % capacity = IF p < capacity THEN p ELSE p - capacity
  BY <1>1, <1>2, WrapsOnce
<1>3. tail = IF head + data_size < capacity THEN head + data_size
             ELSE head + data_size - capacity
  <2> DEFINE p == head + data_size
  <2>1. p \in Nat /\ p < 2 * capacity BY <1>1
  <2>2. tail = p % capacity BY DEF RingInv, Ring!TailFollows
  <2> HIDE DEF p
  <2>3. tail = IF p < capacity THEN p ELSE p - capacity BY <2>1, <2>2, <1>2
  <2> QED BY <1>1, <2>3 DEF p
<1>4. ASSUME NEW i \in 1..data_size
      PROVE  (head + i - 1) % capacity = IF head + i - 1 < capacity THEN head + i - 1
                                         ELSE head + i - 1 - capacity
  <2> DEFINE p == head + i - 1
  <2>1. p \in Nat /\ p < 2 * capacity BY <1>1
  <2> HIDE DEF p
  <2>2. p % capacity = IF p < capacity THEN p ELSE p - capacity BY <2>1, <1>2
  <2> QED BY <1>1, <2>2 DEF p
<1> QED BY <1>1, <1>3, <1>4

\* The contents are a sequence of as many bytes as _data_size says.
LEMMA ContentsAreBytes ==
  ASSUME RingInv
  PROVE  Ring!Contents \in Seq(Bytes) /\ Len(Ring!Contents) = data_size
<1>1. \A i \in 1..data_size : (head + i - 1) % capacity \in 0..(capacity - 1)
  BY RingFacts
<1>2. \A p \in 0..(capacity - 1) : mem[p] \in Bytes
  BY DEF RingInv, Ring!TypeOK, Ring!Positions
<1>3. Ring!Contents \in [1..data_size -> Bytes]
  BY <1>1, <1>2 DEF Ring!Contents
<1>4. data_size \in Nat BY RingFacts
<1> QED BY <1>3, <1>4

\* Peek copies the oldest bytes, in one piece or in two (RingBuffer.cpp:33-47).
LEMMA PeekedAreOldest ==
  ASSUME RingInv, NEW n \in 0..data_size
  PROVE  Ring!Peeked(n) = SubSeq(Ring!Contents, 1, n)
<1> DEFINE space == capacity - head
           at(i) == IF head + i - 1 < capacity THEN head + i - 1 ELSE head + i - 1 - capacity
<1>1. /\ capacity \in Nat \ {0} /\ data_size \in 0..capacity
      /\ head \in 0..(capacity - 1) /\ n \in Nat
  BY RingFacts
<1>2. SubSeq(Ring!Contents, 1, n) = [i \in 1..n |-> mem[at(i)]]
  <2>1. SubSeq(Ring!Contents, 1, n) = [i \in 1..n |-> Ring!Contents[i]]
    BY <1>1, ContentsAreBytes
  <2>2. \A i \in 1..n : i \in 1..data_size BY <1>1
  <2>3. \A i \in 1..n : Ring!Contents[i] = mem[at(i)]
    BY <2>2, RingFacts DEF Ring!Contents
  <2> QED BY <2>1, <2>3
<1>3. CASE head < tail \/ space >= n
  <2>1. Ring!Peeked(n) = [i \in 1..n |-> mem[head + i - 1]]
    BY <1>3 DEF Ring!Peeked, Ring!Get
  <2>2. n <= space BY <1>3, <1>1, RingFacts
  <2>3. \A i \in 1..n : at(i) = head + i - 1 BY <2>2, <1>1
  <2> QED BY <1>2, <2>1, <2>3
<1>4. CASE ~(head < tail \/ space >= n)
  <2> DEFINE first == [i \in 1..space |-> mem[head + i - 1]]
             second == [i \in 1..(n - space) |-> mem[0 + i - 1]]
  <2>1. Ring!Peeked(n) = first \o second
    BY <1>4 DEF Ring!Peeked, Ring!Get
  <2>2. space \in Nat /\ n - space \in Nat BY <1>4, <1>1
  <2>3. \A p \in 0..(capacity - 1) : mem[p] \in Bytes
    BY DEF RingInv, Ring!TypeOK, Ring!Positions
  <2>4. \A i \in 1..space : head + i - 1 \in 0..(capacity - 1) BY <1>1
  <2>5. \A i \in 1..(n - space) : 0 + i - 1 \in 0..(capacity - 1) BY <1>1
  <2>6. first \in Seq(Bytes) /\ Len(first) = space BY <2>2, <2>3, <2>4
  <2>7. second \in Seq(Bytes) /\ Len(second) = n - space BY <2>2, <2>3, <2>5
  <2>8. \A i \in 1..n : i <= space => at(i) = head + i - 1 BY <1>1
  <2>9. \A i \in 1..n : i > space => at(i) = i - space - 1 /\ i - space \in 1..(n - space)
    BY <1>1, <2>2
  <2> HIDE DEF at
  <2>10. \A i \in 1..n : i <= space => first[i] = mem[at(i)] BY <2>8, <2>2
  <2>11. \A i \in 1..n : i > space => second[i - space] = mem[at(i)] BY <2>9, <2>2, SMT
  <2> HIDE DEF first, second, space
  <2>12. first \o second \in Seq(Bytes) /\ Len(first \o second) = n
    <3>1. first \o second \in Seq(Bytes) /\ Len(first \o second) = Len(first) + Len(second)
      BY ONLY <2>6, <2>7, ConcatProperties
    <3>2. space + (n - space) = n BY <2>2, <1>1
    <3> QED BY ONLY <2>6, <2>7, <3>1, <3>2
  <2>13. ASSUME NEW i \in 1..n PROVE (first \o second)[i] = mem[at(i)]
    <3>1. i \in 1..(Len(first) + Len(second)) BY <2>2, <2>6, <2>7, <1>1
    <3>2. (first \o second)[i] = IF i <= Len(first) THEN first[i] ELSE second[i - Len(first)]
      BY <3>1, <2>6, <2>7, ConcatProperties
    <3>3. CASE i <= space BY <3>2, <3>3, <2>6, <2>10
    <3>4. CASE i > space
      <4>1. ~(i <= Len(first)) BY <3>4, <2>6, <2>2
      <4> QED BY <3>2, <4>1, <2>6, <2>11, <3>4
    <3>5. i <= space \/ i > space BY <1>1, <2>2
    <3> QED BY <3>3, <3>4, <3>5, Zenon
  <2>14. /\ SubSeq(Ring!Contents, 1, n) \in Seq(Bytes) /\ Len(SubSeq(Ring!Contents, 1, n)) = n
    BY ContentsAreBytes, <1>1
  <2>15. \A i \in 1..n : SubSeq(Ring!Contents, 1, n)[i] = mem[at(i)]
    BY <1>2
  <2> QED BY <2>1, <2>12, <2>13, <2>14, <2>15, SeqEqual
<1> QED BY <1>3, <1>4

\* Write puts the bytes behind the newest, in one piece or in two, and
\* touches no other position (RingBuffer.cpp:66-88).
LEMMA WrittenBehindNewest ==
  ASSUME RingInv, NEW data \in Seq(Bytes), Len(data) <= Ring!WritableSize
  PROVE  /\ Ring!Written(data) \in [0..(capacity - 1) -> Bytes]
         /\ \A p \in 0..(capacity - 1) :
              Ring!Written(data)[p] =
                IF p >= tail /\ p < tail + Len(data) THEN data[p - tail + 1]
                ELSE IF p < tail + Len(data) - capacity THEN data[p + capacity - tail + 1]
                ELSE mem[p]
<1> DEFINE space == capacity - tail
           n == Len(data)
<1>1. /\ capacity \in Nat \ {0} /\ data_size \in 0..capacity
      /\ head \in 0..(capacity - 1) /\ tail \in 0..(capacity - 1)
      /\ n \in Nat /\ n <= capacity - data_size /\ space \in Nat \ {0}
  BY RingFacts DEF Ring!WritableSize
<1>2. mem \in [0..(capacity - 1) -> Bytes]
  BY DEF RingInv, Ring!TypeOK, Ring!Positions
<1>3. \A i \in 1..n : data[i] \in Bytes OBVIOUS
<1>4. CASE head > tail \/ space >= n
  <2>1. n <= space
    <3>1. CASE head > tail BY <3>1, <1>1, RingFacts
    <3> QED BY <3>1, <1>4
  <2>2. Ring!Written(data) = [i \in 0..(capacity - 1) |->
                                IF i \in tail..(tail + n - 1) THEN data[i - tail + 1] ELSE mem[i]]
    BY <1>4, <1>2 DEF Ring!Written, Ring!Put
  <2>3. \A i \in tail..(tail + n - 1) : i - tail + 1 \in 1..n BY <1>1
  <2>4. Ring!Written(data) \in [0..(capacity - 1) -> Bytes]
    BY <2>2, <2>3, <1>2, <1>3
  <2>5. \A p \in 0..(capacity - 1) : ~(p < tail + n - capacity) BY <2>1, <1>1
  <2>6. \A p \in 0..(capacity - 1) : p \in tail..(tail + n - 1) <=> p >= tail /\ p < tail + n
    BY <1>1
  <2> QED BY <2>2, <2>4, <2>5, <2>6
<1>5. CASE ~(head > tail \/ space >= n)
  <2> DEFINE one == SubSeq(data, 1, space)
             two == SubSeq(data, space + 1, n)
             m1 == [i \in 0..(capacity - 1) |->
                      IF i \in tail..(tail + space - 1) THEN one[i - tail + 1] ELSE mem[i]]
  <2>1. space < n BY <1>5, <1>1
  <2>2. /\ one \in Seq(Bytes) /\ Len(one) = space
        /\ \A i \in 1..space : one[i] = data[i] /\ one[i] \in Bytes
    <3>1. one = [i \in 1..space |-> data[i]] BY <2>1, <1>1
    <3>2. \A i \in 1..space : data[i] \in Bytes BY <2>1, <1>1, <1>3
    <3> HIDE DEF one
    <3> QED BY <3>1, <3>2, <1>1
  <2>3. /\ two \in Seq(Bytes) /\ Len(two) = n - space
        /\ \A i \in 1..(n - space) : two[i] = data[space + i] /\ two[i] \in Bytes
    <3>1. two = [i \in 1..(n - space) |-> data[space + i]] BY <2>1, <1>1
    <3>2. \A i \in 1..(n - space) : data[space + i] \in Bytes
      <4>1. \A i \in 1..(n - space) : space + i \in 1..n BY <1>1
      <4> QED BY <4>1, <1>3
    <3>3. n - space \in Nat BY <2>1, <1>1
    <3> HIDE DEF two
    <3> QED BY <3>1, <3>2, <3>3
  <2>4. Ring!Put(mem, tail, one) = m1
    BY <2>2, <1>2 DEF Ring!Put
  <2>5. Ring!Written(data) = Ring!Put(Ring!Put(mem, tail, one), 0, two)
    BY <1>5 DEF Ring!Written
  <2>6. DOMAIN m1 = 0..(capacity - 1) OBVIOUS
  <2>7. Ring!Written(data) = [i \in 0..(capacity - 1) |->
                                IF i \in 0..(0 + (n - space) - 1) THEN two[i - 0 + 1] ELSE m1[i]]
    <3> HIDE DEF m1, one, two
    <3> QED BY <2>3, <2>4, <2>5, <2>6 DEF Ring!Put
  <2>8. ASSUME NEW p \in 0..(capacity - 1)
        PROVE  /\ Ring!Written(data)[p] =
                    IF p >= tail THEN data[p - tail + 1]
                    ELSE IF p < tail + n - capacity THEN data[p + capacity - tail + 1]
                    ELSE mem[p]
               /\ Ring!Written(data)[p] \in Bytes
    <3>1. n - space <= tail BY <1>1, <1>5, RingFacts
    <3>2. CASE p >= tail
      <4>1. p - tail + 1 \in 1..space /\ p \in tail..(tail + space - 1) BY <3>2, <1>1
      <4>2. ~(p \in 0..(0 + (n - space) - 1)) BY <3>1, <3>2, <1>1
      <4>3. Ring!Written(data)[p] = m1[p] BY <2>7, <4>2
      <4>4. m1[p] = one[p - tail + 1] BY <4>1
      <4> HIDE DEF m1, one
      <4> QED BY <4>1, <4>3, <4>4, <2>2, <3>2
    <3>3. CASE p < n - space
      <4>1. p + 1 \in 1..(n - space) /\ p - 0 + 1 = p + 1 /\ p \in 0..(0 + (n - space) - 1)
        BY <3>3, <1>1, <2>1
      <4>2. Ring!Written(data)[p] = two[p + 1] BY <2>7, <4>1
      <4>3. space + (p + 1) = p + capacity - tail + 1 BY <1>1
      <4>4. ~(p >= tail) /\ p < tail + n - capacity BY <3>1, <3>3, <1>1
      <4> HIDE DEF two
      <4>5. Ring!Written(data)[p] = data[p + capacity - tail + 1] BY <4>1, <4>2, <4>3, <2>3
      <4>6. Ring!Written(data)[p] \in Bytes BY <4>1, <4>2, <2>3
      <4> QED BY <4>4, <4>5, <4>6
    <3>4. CASE ~(p >= tail) /\ ~(p < n - space)
      <4>1. /\ ~(p \in 0..(0 + (n - space) - 1)) /\ ~(p \in tail..(tail + space - 1))
            /\ ~(p < tail + n - capacity)
        BY <3>4, <1>1
      <4>2. Ring!Written(data)[p] = m1[p] BY <2>7, <4>1
      <4>3. m1[p] = mem[p] BY <4>1
      <4>4. mem[p] \in Bytes BY <1>2
      <4> HIDE DEF m1
      <4> QED BY <3>4, <4>1, <4>2, <4>3, <4>4
    <3> QED BY <3>2, <3>3, <3>4
  <2>9. Ring!Written(data) \in [0..(capacity - 1) -> Bytes]
    BY <2>7, <2>8
  <2>10. \A p \in 0..(capacity - 1) : p >= tail => p < tail + n BY <2>1, <1>1
  <2> QED BY <2>8, <2>9, <2>10
<1> QED BY <1>4, <1>5

\* After a Write the contents are longer by what was written.
LEMMA WriteAppends ==
  ASSUME RingInv, NEW data \in Seq(Bytes), Ring!Write(data)
  PROVE  RingInv' /\ Ring!Contents' = Ring!Contents \o data
<1> DEFINE n == Len(data)
           at(i) == IF head + i - 1 < capacity THEN head + i - 1 ELSE head + i - 1 - capacity
<1>1. /\ capacity \in Nat \ {0} /\ data_size \in 0..capacity
      /\ head \in 0..(capacity - 1) /\ tail \in 0..(capacity - 1)
      /\ n \in Nat /\ n <= capacity - data_size
      /\ tail = IF head + data_size < capacity THEN head + data_size
                ELSE head + data_size - capacity
  BY RingFacts DEF Ring!Write, Ring!WritableSize
<1>2. /\ mem' = Ring!Written(data) /\ tail' = (tail + n) % capacity
      /\ data_size' = data_size + n /\ ring_passed' = data
      /\ capacity' = capacity /\ head' = head
      /\ Len(data) <= Ring!WritableSize
  BY DEF Ring!Write
<1>3. /\ mem' \in [0..(capacity - 1) -> Bytes]
      /\ \A p \in 0..(capacity - 1) :
           mem'[p] = IF p >= tail /\ p < tail + n THEN data[p - tail + 1]
                     ELSE IF p < tail + n - capacity THEN data[p + capacity - tail + 1]
                     ELSE mem[p]
  BY <1>2, WrittenBehindNewest
<1>4. tail' = (head + data_size + n) % capacity /\ tail' \in 0..(capacity - 1)
  <2>1. tail + n \in Nat /\ tail + n < 2 * capacity BY <1>1
  <2>2. tail' = IF tail + n < capacity THEN tail + n ELSE tail + n - capacity
    <3> DEFINE p == tail + n
    <3>1. p \in Nat /\ p < 2 * capacity BY <2>1
    <3>2. tail' = p % capacity BY <1>2
    <3> HIDE DEF p
    <3>3. p % capacity = IF p < capacity THEN p ELSE p - capacity BY <3>1, <1>1, WrapsOnce
    <3>4. tail' = IF p < capacity THEN p ELSE p - capacity BY <3>2, <3>3
    <3> QED BY <1>1, <3>4 DEF p
  <2>3. head + data_size + n \in Nat /\ head + data_size + n < 2 * capacity BY <1>1
  <2>4. (head + data_size + n) % capacity
          = IF head + data_size + n < capacity THEN head + data_size + n
            ELSE head + data_size + n - capacity
    <3> DEFINE p == head + data_size + n
    <3>1. p \in Nat /\ p < 2 * capacity BY <2>3
    <3> HIDE DEF p
    <3>2. p % capacity = IF p < capacity THEN p ELSE p - capacity BY <3>1, <1>1, WrapsOnce
    <3> QED BY <1>1, <3>2 DEF p
  <2>5. tail' \in 0..(capacity - 1) BY <1>1, <2>1, <2>2
  <2> QED BY <1>1, <2>2, <2>4, <2>5
<1>5. RingInv'
  <2>1. tail' = (head' + data_size') % capacity'
    <3>1. head + data_size + n = head' + data_size' BY <1>1, <1>2
    <3> QED BY <1>2, <1>4, <3>1
  <2>2. tail' \in 0..(capacity - 1) BY <1>4
  <2>3. data_size' \in 0..capacity BY <1>1, <1>2
  <2>4. capacity \in Capacities BY DEF RingInv, Ring!TypeOK
  <2> QED BY <1>1, <1>2, <1>3, <2>1, <2>2, <2>3, <2>4
          DEF RingInv, Ring!TypeOK, Ring!TailFollows, Ring!Positions
<1>6. /\ Ring!Contents' = [i \in 1..(data_size + n) |-> mem'[(head + i - 1) % capacity]]
  BY <1>2 DEF Ring!Contents
<1>7. ASSUME NEW i \in 1..(data_size + n)
      PROVE  (head + i - 1) % capacity = at(i) /\ at(i) \in 0..(capacity - 1)
  <2> DEFINE p == head + i - 1
  <2>1. p \in Nat /\ p < 2 * capacity BY <1>1
  <2> HIDE DEF p
  <2>2. p % capacity = IF p < capacity THEN p ELSE p - capacity BY <2>1, <1>1, WrapsOnce
  <2> QED BY <1>1, <2>1, <2>2 DEF p
<1>8. ASSUME NEW i \in 1..data_size
      PROVE  Ring!Contents'[i] = Ring!Contents[i]
  <2>1. i \in 1..(data_size + n) BY <1>1
  <2>2. /\ ~(at(i) >= tail /\ at(i) < tail + n) /\ ~(at(i) < tail + n - capacity)
    BY <1>1
  <2>3. mem'[at(i)] = mem[at(i)] BY <1>3, <1>7, <2>1, <2>2
  <2> HIDE DEF at
  <2>4. Ring!Contents[i] = mem[at(i)] BY <1>7, <2>1 DEF Ring!Contents
  <2> QED BY <1>6, <1>7, <2>1, <2>3, <2>4
<1>9. ASSUME NEW i \in 1..n
      PROVE  Ring!Contents'[data_size + i] = data[i]
  <2> DEFINE j == data_size + i
  <2>1. j \in 1..(data_size + n) BY <1>1
  <2>2. CASE at(j) >= tail
    <3>1. at(j) = tail + i - 1 BY <2>2, <1>1
    <3>2. at(j) - tail + 1 = i /\ at(j) < tail + n BY <3>1, <1>1
    <3>3. mem'[at(j)] = data[at(j) - tail + 1] BY <1>3, <1>7, <2>1, <2>2, <3>2
    <3> HIDE DEF at, j
    <3>4. mem'[at(j)] = data[i] BY <3>2, <3>3
    <3>5. Ring!Contents'[j] = data[i] BY <1>6, <1>7, <2>1, <3>4
    <3> QED BY <3>5 DEF j
  <2>3. CASE ~(at(j) >= tail)
    <3>1. at(j) = tail + i - 1 - capacity BY <2>3, <1>1
    <3>2. at(j) + capacity - tail + 1 = i /\ at(j) < tail + n - capacity BY <3>1, <1>1
    <3>3. mem'[at(j)] = data[at(j) + capacity - tail + 1] BY <1>3, <1>7, <2>1, <2>3, <3>2
    <3> HIDE DEF at, j
    <3>4. mem'[at(j)] = data[i] BY <3>2, <3>3
    <3>5. Ring!Contents'[j] = data[i] BY <1>6, <1>7, <2>1, <3>4
    <3> QED BY <3>5 DEF j
  <2> QED BY <2>2, <2>3
<1>10. Ring!Contents' \in Seq(Bytes) /\ Len(Ring!Contents') = data_size + n
  <2>1. \A i \in 1..(data_size + n) : mem'[(head + i - 1) % capacity] \in Bytes
    BY <1>3, <1>7
  <2>2. data_size + n \in Nat BY <1>1
  <2> QED BY <1>6, <2>1, <2>2
<1>11. Ring!Contents \in Seq(Bytes) /\ Len(Ring!Contents) = data_size
  BY ContentsAreBytes
<1>12. /\ Ring!Contents \o data \in Seq(Bytes) /\ Len(Ring!Contents \o data) = data_size + n
  BY <1>11, ConcatProperties
<1>13. ASSUME NEW i \in 1..(data_size + n)
       PROVE  Ring!Contents'[i] = (Ring!Contents \o data)[i]
  <2>1. (Ring!Contents \o data)[i] = IF i <= data_size THEN Ring!Contents[i] ELSE data[i - data_size]
    BY <1>11, ConcatProperties
  <2>2. CASE i <= data_size
    <3>1. i \in 1..data_size BY <2>2, <1>1
    <3> QED BY <2>1, <2>2, <3>1, <1>8
  <2>3. CASE i > data_size
    <3>1. i - data_size \in 1..n /\ data_size + (i - data_size) = i /\ ~(i <= data_size)
      BY <2>3, <1>1
    <3>2. Ring!Contents'[data_size + (i - data_size)] = data[i - data_size] BY <3>1, <1>9
    <3> QED BY <2>1, <3>1, <3>2
  <2>4. i <= data_size \/ i > data_size BY <1>1
  <2> QED BY <2>2, <2>3, <2>4
<1> QED BY <1>5, <1>10, <1>12, <1>13, SeqEqual

\* After a Read the contents are what was behind the bytes it took.
LEMMA ReadRemoves ==
  ASSUME RingInv, NEW n \in 0..data_size, Ring!Read(n)
  PROVE  RingInv' /\ Ring!Contents' = SubSeq(Ring!Contents, n + 1, data_size)
<1>1. /\ capacity \in Nat \ {0} /\ data_size \in 0..capacity
      /\ head \in 0..(capacity - 1) /\ tail \in 0..(capacity - 1)
      /\ n \in Nat
      /\ tail = IF head + data_size < capacity THEN head + data_size
                ELSE head + data_size - capacity
  BY RingFacts
<1>2. /\ mem' = mem /\ tail' = tail /\ data_size' = data_size - n
      /\ ring_passed' = Ring!Peeked(n)
      /\ capacity' = capacity /\ head' = (head + n) % capacity
  BY DEF Ring!Read
<1>3. head' = IF head + n < capacity THEN head + n ELSE head + n - capacity
  <2> DEFINE p == head + n
  <2>1. p \in Nat /\ p < 2 * capacity BY <1>1
  <2>2. head' = p % capacity BY <1>2
  <2> HIDE DEF p
  <2>3. p % capacity = IF p < capacity THEN p ELSE p - capacity BY <2>1, <1>1, WrapsOnce
  <2>4. head' = IF p < capacity THEN p ELSE p - capacity BY <2>2, <2>3
  <2> QED BY <1>1, <2>4 DEF p
<1>4. ASSUME NEW p \in Nat, p < 2 * capacity
      PROVE  p % capacity = IF p < capacity THEN p ELSE p - capacity
  BY <1>1, <1>4, WrapsOnce
<1>5. ASSUME NEW i \in 1..(data_size - n)
      PROVE  (head' + i - 1) % capacity = (head + (n + i) - 1) % capacity
  <2> DEFINE p == head' + i - 1
             q == head + (n + i) - 1
  <2>1. p \in Nat /\ p < 2 * capacity BY <1>1, <1>3
  <2>2. q \in Nat /\ q < 2 * capacity BY <1>1
  <2>3. (IF p < capacity THEN p ELSE p - capacity) = (IF q < capacity THEN q ELSE q - capacity)
    BY <1>1, <1>3
  <2> HIDE DEF p, q
  <2>4. p % capacity = q % capacity BY <2>1, <2>2, <2>3, <1>4
  <2> QED BY <2>4 DEF p, q
<1>6. tail' = (head' + data_size') % capacity'
  <2> DEFINE p == head' + data_size'
  <2>1. p \in Nat /\ p < 2 * capacity BY <1>1, <1>2, <1>3
  <2>2. tail' = IF p < capacity THEN p ELSE p - capacity BY <1>1, <1>2, <1>3
  <2> HIDE DEF p
  <2>3. tail' = p % capacity BY <2>1, <2>2, <1>4
  <2> QED BY <2>3, <1>2 DEF p
<1>7. RingInv'
  <2>1. head' \in 0..(capacity - 1) BY <1>1, <1>3
  <2>2. data_size' \in 0..capacity BY <1>1, <1>2
  <2>3. ring_passed' \in Seq(Bytes)
    <3>1. SubSeq(Ring!Contents, 1, n) \in Seq(Bytes) BY <1>1, ContentsAreBytes
    <3> QED BY <3>1, <1>2, PeekedAreOldest
  <2> QED BY <1>1, <1>2, <1>6, <2>1, <2>2, <2>3
          DEF RingInv, Ring!TypeOK, Ring!TailFollows, Ring!Positions
<1>8. Ring!Contents' = [i \in 1..(data_size - n) |-> mem[(head' + i - 1) % capacity]]
  BY <1>2 DEF Ring!Contents
<1>9. ASSUME NEW i \in 1..(data_size - n)
      PROVE  Ring!Contents'[i] = Ring!Contents[n + i]
  <2>1. n + i \in 1..data_size BY <1>1
  <2>2. Ring!Contents[n + i] = mem[(head + (n + i) - 1) % capacity]
    BY <2>1 DEF Ring!Contents
  <2> QED BY <1>5, <1>8, <2>2
<1>10. Ring!Contents' = [i \in 1..(data_size - n) |-> Ring!Contents[n + i]]
  BY <1>8, <1>9
<1>11. SubSeq(Ring!Contents, n + 1, data_size) = [i \in 1..(data_size - n) |-> Ring!Contents[n + i]]
  <2>1. SubSeq(Ring!Contents, n + 1, data_size)
          = [i \in 1..(data_size - (n + 1) + 1) |-> Ring!Contents[i + (n + 1) - 1]]
    BY <1>1, ContentsAreBytes
  <2>2. data_size - (n + 1) + 1 = data_size - n BY <1>1
  <2>3. \A i \in 1..(data_size - n) : i + (n + 1) - 1 = n + i BY <1>1
  <2> QED BY <2>1, <2>2, <2>3
<1> QED BY <1>7, <1>10, <1>11

\* An empty ring buffer has empty contents.
LEMMA ClearedIsEmpty ==
  ASSUME data_size = 0 PROVE Ring!Contents = << >>
  BY DEF Ring!Contents

\* The ring buffer begins as an empty queue.
LEMMA RingStarts ==
  ASSUME Ring!Init PROVE RingInv /\ Ring!Queue!Init
<1>1. capacity \in Nat \ {0} BY BuffersAssumption DEF Ring!Init
<1>2. (head + data_size) % capacity = 0
  <2>1. 0 % capacity = 0 BY <1>1
  <2> QED BY <2>1 DEF Ring!Init
<1> QED BY <1>1, <1>2, BuffersAssumption
        DEF RingInv, Ring!TypeOK, Ring!TailFollows, Ring!Init, Ring!Positions, Ring!Queue!Init,
            Ring!Contents

\* Clear and Resize leave an empty buffer that is no smaller.
LEMMA RingEmptied ==
  ASSUME RingInv, Ring!Clear \/ \E c \in Capacities : Ring!Resize(c)
  PROVE  RingInv' /\ Ring!Queue!Next
<1>1. capacity \in Nat \ {0} /\ capacity \in Capacities
  BY RingFacts DEF RingInv, Ring!TypeOK
<1>2. /\ head' = 0 /\ tail' = 0 /\ data_size' = 0 /\ ring_passed' = << >>
  BY DEF Ring!Clear, Ring!Resize, Ring!Cleared
<1>3. Ring!Contents' = << >> BY <1>2 DEF Ring!Contents
<1>4. ASSUME NEW c \in Nat \ {0} PROVE (0 + 0) % c = 0
  BY <1>4
<1>5. capacity' \in Capacities /\ mem' \in [0..(capacity' - 1) -> Bytes]
  <2>1. CASE Ring!Clear BY <2>1 DEF Ring!Clear, RingInv, Ring!TypeOK, Ring!Positions
  <2>2. ASSUME NEW c \in Capacities, Ring!Resize(c)
        PROVE  capacity' \in Capacities /\ mem' \in [0..(capacity' - 1) -> Bytes]
    BY <2>2, BuffersAssumption DEF Ring!Resize, RingInv, Ring!TypeOK, Ring!Positions
  <2> QED BY <2>1, <2>2
<1>6. capacity' \in Nat \ {0} BY <1>5, BuffersAssumption
<1>7. RingInv'
  <2>1. tail' = (head' + data_size') % capacity' BY <1>2, <1>4, <1>6
  <2>2. 0 \in 0..(capacity' - 1) /\ 0 \in 0..capacity'
    <3>1. ASSUME NEW c \in Nat \ {0} PROVE 0 \in 0..(c - 1) /\ 0 \in 0..c OBVIOUS
    <3> QED BY <1>6, <3>1, Zenon
  <2>3. Ring!TailFollows' BY <2>1 DEF Ring!TailFollows
  <2>4. << >> \in Seq(Bytes) OBVIOUS
  <2>5. Ring!TypeOK' BY <1>2, <1>5, <2>2, <2>4 DEF Ring!TypeOK, Ring!Positions
  <2> QED BY <2>3, <2>5 DEF RingInv
<1>8. ASSUME Ring!Clear PROVE Ring!Queue!Next
  <2>1. Ring!Queue!Clear BY <1>2, <1>3, <1>8 DEF Ring!Clear, Ring!Queue!Clear
  <2> QED BY <2>1 DEF Ring!Queue!Next
<1>9. ASSUME NEW c \in Capacities, Ring!Resize(c) PROVE Ring!Queue!Next
  <2>1. Ring!Queue!Resize(c) BY <1>2, <1>3, <1>9 DEF Ring!Resize, Ring!Queue!Resize
  <2> QED BY <2>1 DEF Ring!Queue!Next
<1> QED BY <1>7, <1>8, <1>9

\* Every step of the ring buffer is a step of the queue.
LEMMA RingSteps ==
  ASSUME RingInv, Ring!Next PROVE RingInv' /\ Ring!Queue!Next
<1>1. Ring!Contents \in Seq(Bytes) /\ Len(Ring!Contents) = data_size
  BY ContentsAreBytes
<1>2. ASSUME NEW data \in Ring!Writes, Ring!Write(data)
      PROVE  RingInv' /\ Ring!Queue!Next
  <2>1. data \in Seq(Bytes) /\ Len(data) \in Nat
    BY DEF Ring!Writes
  <2>2. RingInv' /\ Ring!Contents' = Ring!Contents \o data
    BY <1>2, <2>1, WriteAppends
  <2>3. Len(data) <= capacity - data_size /\ capacity' = capacity /\ ring_passed' = data
    BY <1>2 DEF Ring!Write, Ring!WritableSize
  <2>4. capacity \in Nat /\ data_size \in Nat BY RingFacts
  <2>5. Ring!Queue!Write(data)
    BY <1>1, <2>1, <2>2, <2>3, <2>4 DEF Ring!Queue!Write
  <2>6. data \in Ring!Queue!Fitting
    <3>1. Len(data) \in 0..(capacity - Len(Ring!Contents)) BY <1>1, <2>1, <2>3, <2>4
    <3>2. data \in [1..Len(data) -> Bytes] BY <2>1
    <3> QED BY <3>1, <3>2 DEF Ring!Queue!Fitting
  <2> QED BY <2>2, <2>5, <2>6 DEF Ring!Queue!Next
<1>3. ASSUME NEW n \in 0..data_size, Ring!Peek(n)
      PROVE  RingInv' /\ Ring!Queue!Next
  <2>1. /\ ring_passed' = SubSeq(Ring!Contents, 1, n)
        /\ UNCHANGED <<mem, capacity, head, tail, data_size>>
    BY <1>3, PeekedAreOldest DEF Ring!Peek
  <2>2. Ring!Contents' = Ring!Contents BY <2>1 DEF Ring!Contents
  <2>3. n \in 0..Len(Ring!Contents) /\ n <= Len(Ring!Contents) /\ data_size \in Nat
    BY <1>1, RingFacts
  <2>4. Ring!Queue!Peek(n) BY <2>1, <2>2, <2>3 DEF Ring!Queue!Peek
  <2>5. ring_passed' \in Seq(Bytes) BY <2>1, <2>3, <1>1
  <2>6. RingInv' BY <2>1, <2>5 DEF RingInv, Ring!TypeOK, Ring!TailFollows, Ring!Positions
  <2> QED BY <2>3, <2>4, <2>6 DEF Ring!Queue!Next
<1>4. ASSUME NEW n \in 0..data_size, Ring!Read(n)
      PROVE  RingInv' /\ Ring!Queue!Next
  <2>1. RingInv' /\ Ring!Contents' = SubSeq(Ring!Contents, n + 1, data_size)
    BY <1>4, ReadRemoves
  <2>2. ring_passed' = SubSeq(Ring!Contents, 1, n) /\ capacity' = capacity
    BY <1>4, PeekedAreOldest DEF Ring!Read
  <2>3. n \in 0..Len(Ring!Contents) /\ n <= Len(Ring!Contents) /\ data_size \in Nat
    BY <1>1, RingFacts
  <2>4. Ring!Queue!Read(n) BY <1>1, <2>1, <2>2, <2>3 DEF Ring!Queue!Read
  <2> QED BY <2>1, <2>3, <2>4 DEF Ring!Queue!Next
<1> QED BY <1>2, <1>3, <1>4, RingEmptied DEF Ring!Next

(***************************************************************************)
(* The stream buffer.                                                      *)
(***************************************************************************)

\* The positions are in order, the array holds bytes (StreamBuffer.cpp).
StreamInv == /\ buffer \in [capacity : Capacities, mem : [0..(buffer.capacity - 1) -> Bytes],
                            filled : Nat, read_pos : Nat, write_pos : Nat]
             /\ Stream!PositionsAgree

LEMMA StreamFacts ==
  ASSUME StreamInv
  PROVE  /\ buffer.capacity \in Nat \ {0} /\ buffer.read_pos \in 0..buffer.write_pos
         /\ buffer.write_pos \in 0..buffer.capacity
         /\ buffer.filled = buffer.write_pos
         /\ \A p \in 0..(buffer.capacity - 1) : buffer.mem[p] \in Bytes
         /\ DOMAIN buffer.mem = 0..(buffer.capacity - 1)
<1>1. /\ buffer.capacity \in Capacities /\ buffer.mem \in [0..(buffer.capacity - 1) -> Bytes]
      /\ buffer.read_pos \in Nat /\ buffer.write_pos \in Nat
  BY DEF StreamInv
<1>2. buffer.capacity \in Nat \ {0} BY <1>1, BuffersAssumption
<1>3. /\ buffer.read_pos <= buffer.write_pos /\ buffer.write_pos <= buffer.capacity
      /\ buffer.filled = buffer.write_pos
  BY DEF StreamInv, Stream!PositionsAgree
<1>4. buffer.read_pos \in 0..buffer.write_pos /\ buffer.write_pos \in 0..buffer.capacity
  BY <1>1, <1>2, <1>3
<1> QED BY <1>1, <1>2, <1>3, <1>4

\* What lies between the positions is a sequence of bytes.
LEMMA UnreadAreBytes ==
  ASSUME StreamInv
  PROVE  /\ Stream!Unread(buffer) \in Seq(Bytes)
         /\ Len(Stream!Unread(buffer)) = buffer.write_pos - buffer.read_pos
         /\ Stream!ReadableSize(buffer) = buffer.write_pos - buffer.read_pos
<1> DEFINE n == buffer.write_pos - buffer.read_pos
<1>1. n \in Nat BY StreamFacts
<1>2. \A i \in 1..n : buffer.read_pos + i - 1 \in 0..(buffer.capacity - 1) BY StreamFacts
<1>3. Stream!Unread(buffer) = [i \in 1..n |-> buffer.mem[buffer.read_pos + i - 1]]
  BY DEF Stream!Unread, Stream!BytesFrom, Stream!ReadableSize
<1>4. \A i \in 1..n : buffer.mem[buffer.read_pos + i - 1] \in Bytes BY <1>2, StreamFacts
<1> HIDE DEF n
<1>5. /\ Stream!Unread(buffer) \in Seq(Bytes) /\ Len(Stream!Unread(buffer)) = n
  BY <1>1, <1>3, <1>4
<1> QED BY <1>5 DEF n, Stream!ReadableSize

\* Peek copies the oldest bytes.
LEMMA StreamPeeksOldest ==
  ASSUME StreamInv, NEW n \in 0..Stream!ReadableSize(buffer)
  PROVE  /\ Stream!Peek(buffer, n) = SubSeq(Stream!Unread(buffer), 1, n)
         /\ n <= Len(Stream!Unread(buffer)) /\ n \in Nat
<1>1. n \in Nat /\ n <= Len(Stream!Unread(buffer)) BY UnreadAreBytes, StreamFacts
<1>2. SubSeq(Stream!Unread(buffer), 1, n) = [i \in 1..n |-> Stream!Unread(buffer)[i]]
  BY <1>1, UnreadAreBytes
<1>3. \A i \in 1..n : i \in 1..(buffer.write_pos - buffer.read_pos)
  BY <1>1, UnreadAreBytes, StreamFacts
<1>4. \A i \in 1..n : Stream!Unread(buffer)[i] = buffer.mem[buffer.read_pos + i - 1]
  BY <1>3 DEF Stream!Unread, Stream!BytesFrom, Stream!ReadableSize
<1>5. Stream!Peek(buffer, n) = [i \in 1..n |-> buffer.mem[buffer.read_pos + i - 1]]
  BY DEF Stream!Peek, Stream!BytesFrom
<1> QED BY <1>1, <1>2, <1>4, <1>5

\* A place of the queue is that of an old byte, or that of a new one.
LEMMA BetweenPositions ==
  ASSUME NEW c \in Nat, NEW w \in 0..c, NEW r \in 0..w, NEW n \in Nat, w + n <= c,
         NEW i \in 1..((w - r) + n)
  PROVE  /\ r + i - 1 \in 0..(c - 1)
         /\ i <= w - r => i \in 1..(w - r) /\ ~(r + i - 1 \in w..(w + n - 1))
         /\ i > w - r => /\ r + i - 1 \in w..(w + n - 1)
                        /\ (r + i - 1) - w + 1 = i - (w - r) /\ ~(i <= w - r)
OBVIOUS

\* Write puts the bytes behind the newest (StreamBuffer.cpp:102-116).
LEMMA StreamWriteAppends ==
  ASSUME StreamInv, NEW data \in Seq(Bytes), Stream!WriteCall(data)
  PROVE  /\ StreamInv'
         /\ Stream!Unread(buffer)' = Stream!Unread(buffer) \o data
         /\ buffer'.capacity = buffer.capacity
         /\ Len(Stream!Unread(buffer)) + Len(data) <= buffer.capacity
<1> DEFINE n == Len(data)
           w == buffer.write_pos
           r == buffer.read_pos
           c == buffer.capacity
<1>1. /\ c \in Nat \ {0} /\ r \in 0..w /\ w \in 0..c /\ n \in Nat /\ w + n <= c
  BY StreamFacts DEF Stream!WriteCall, Stream!CanWrite, Stream!WritableSize
<1>2. /\ buffer'.capacity = c /\ buffer'.read_pos = r
      /\ buffer'.write_pos = w + n /\ buffer'.filled = w + n
      /\ buffer'.mem = [i \in 0..(c - 1) |-> IF i \in w..(w + n - 1) THEN data[i - w + 1]
                                             ELSE buffer.mem[i]]
  BY StreamFacts
     DEF StreamInv, Stream!WriteCall, Stream!Write, Stream!ShiftWritePos, Stream!PutAtWritePos
<1>3. buffer' = [capacity |-> c, mem |-> buffer'.mem, filled |-> w + n, read_pos |-> r,
                 write_pos |-> w + n]
  BY StreamFacts
     DEF StreamInv, Stream!WriteCall, Stream!Write, Stream!ShiftWritePos, Stream!PutAtWritePos
<1>4. \A i \in 1..n : data[i] \in Bytes OBVIOUS
<1>5. \A p \in 0..(c - 1) : buffer.mem[p] \in Bytes BY StreamFacts
<1>6. \A i \in w..(w + n - 1) : i - w + 1 \in 1..n BY <1>1
<1>7. buffer'.mem \in [0..(c - 1) -> Bytes] BY <1>2, <1>4, <1>5, <1>6
<1>8. StreamInv'
  <2>1. c \in Capacities BY DEF StreamInv
  <2>2. buffer' \in [capacity : Capacities, mem : [0..(c - 1) -> Bytes],
                     filled : Nat, read_pos : Nat, write_pos : Nat]
    BY <1>1, <1>3, <1>7, <2>1
  <2>3. buffer' \in [capacity : Capacities, mem : [0..(buffer'.capacity - 1) -> Bytes],
                     filled : Nat, read_pos : Nat, write_pos : Nat]
    BY ONLY <1>2, <2>2
  <2>4. Stream!PositionsAgree' BY <1>1, <1>2 DEF Stream!PositionsAgree
  <2> QED BY <2>3, <2>4 DEF StreamInv
<1> DEFINE old == Stream!Unread(buffer)
           now == [i \in 1..(w + n - r) |-> buffer'.mem[r + i - 1]]
<1>9. Stream!Unread(buffer)' = now
  <2>1. Stream!Unread(buffer)' = [i \in 1..(buffer'.write_pos - buffer'.read_pos) |->
                                    buffer'.mem[buffer'.read_pos + i - 1]]
    BY DEF Stream!Unread, Stream!BytesFrom, Stream!ReadableSize
  <2>2. buffer'.write_pos - buffer'.read_pos = w + n - r BY <1>1, <1>2
  <2> QED BY <2>1, <2>2, <1>2
<1>10. old \in Seq(Bytes) /\ Len(old) = w - r /\ w - r \in Nat BY UnreadAreBytes, <1>1
<1>11. \A i \in 1..(w - r) : old[i] = buffer.mem[r + i - 1]
  BY DEF Stream!Unread, Stream!BytesFrom, Stream!ReadableSize
<1>12. now \in Seq(Bytes) /\ Len(now) = (w - r) + n
  <2>1. \A i \in 1..(w + n - r) : r + i - 1 \in 0..(c - 1)
    <3>1. r \in Nat /\ w \in Nat /\ n \in Nat /\ c \in Nat /\ r <= w /\ w + n <= c BY <1>1
    <3> HIDE DEF r, w, n, c
    <3> QED BY ONLY <3>1
  <2>2. \A i \in 1..(w + n - r) : buffer'.mem[r + i - 1] \in Bytes BY <2>1, <1>7
  <2>3. w + n - r \in Nat /\ w + n - r = (w - r) + n BY <1>1
  <2> QED BY <2>2, <2>3
<1>13. old \o data \in Seq(Bytes) /\ Len(old \o data) = (w - r) + n
  BY <1>10, ConcatProperties
<1>14. ASSUME NEW i \in 1..((w - r) + n) PROVE now[i] = (old \o data)[i]
  <2>1. (old \o data)[i] = IF i <= w - r THEN old[i] ELSE data[i - (w - r)]
    <3> HIDE DEF old
    <3> QED BY <1>10, ConcatProperties
  <2>2. now[i] = buffer'.mem[r + i - 1]
    <3>1. i \in 1..(w + n - r) BY <1>1
    <3> QED BY <3>1
  <2>6. /\ r + i - 1 \in 0..(c - 1)
        /\ i <= w - r => i \in 1..(w - r) /\ ~(r + i - 1 \in w..(w + n - 1))
        /\ i > w - r => /\ r + i - 1 \in w..(w + n - 1)
                       /\ (r + i - 1) - w + 1 = i - (w - r) /\ ~(i <= w - r)
    <3> HIDE DEF old, now, n, w, r, c
    <3> QED BY <1>1, BetweenPositions
  <2>3. CASE i <= w - r
    <3>1. i \in 1..(w - r) /\ r + i - 1 \in 0..(c - 1) /\ ~(r + i - 1 \in w..(w + n - 1))
      BY <2>3, <2>6
    <3>2. buffer'.mem[r + i - 1] = buffer.mem[r + i - 1] BY <3>1, <1>2
    <3> HIDE DEF old, now
    <3> QED BY <2>1, <2>2, <2>3, <3>1, <3>2, <1>11
  <2>4. CASE i > w - r
    <3>1. /\ r + i - 1 \in 0..(c - 1) /\ r + i - 1 \in w..(w + n - 1)
          /\ (r + i - 1) - w + 1 = i - (w - r) /\ ~(i <= w - r)
      BY <2>4, <2>6
    <3>2. buffer'.mem[r + i - 1] = data[(r + i - 1) - w + 1] BY <3>1, <1>2
    <3> HIDE DEF old, now
    <3> QED BY <2>1, <2>2, <3>1, <3>2
  <2>5. i <= w - r \/ i > w - r BY <1>1
  <2> QED BY <2>3, <2>4, <2>5
<1>15. now = old \o data
  <2> HIDE DEF now, old
  <2> QED BY <1>12, <1>13, <1>14, SeqEqual
<1>16. Stream!Unread(buffer)' = old \o data BY ONLY <1>9, <1>15, Zenon
<1>17. Len(old) + n <= c
  <2> HIDE DEF old, n
  <2> QED BY <1>1, <1>10
<1>18. buffer'.capacity = c BY <1>2
<1> QED BY <1>8, <1>16, <1>17, <1>18, Zenon

\* Reading moves the read position only (StreamBuffer.cpp:60-72).
LEMMA StreamReadRemoves ==
  ASSUME StreamInv, NEW n \in 0..Stream!ReadableSize(buffer), Stream!ReadCall(n)
  PROVE  /\ StreamInv'
         /\ Stream!Unread(buffer)' =
              SubSeq(Stream!Unread(buffer), n + 1, Len(Stream!Unread(buffer)))
         /\ buffer'.capacity = buffer.capacity
<1> DEFINE w == buffer.write_pos
           r == buffer.read_pos
           c == buffer.capacity
           old == Stream!Unread(buffer)
<1>1. /\ c \in Nat \ {0} /\ r \in 0..w /\ w \in 0..c /\ n \in Nat /\ r + n <= w
  BY StreamFacts, UnreadAreBytes
<1>2. buffer' = [capacity |-> c, mem |-> buffer.mem, filled |-> buffer.filled,
                 read_pos |-> r + n, write_pos |-> w]
  BY DEF StreamInv, Stream!ReadCall, Stream!ShiftReadPos
<1>3. StreamInv'
  <2>1. /\ c \in Capacities /\ buffer.mem \in [0..(c - 1) -> Bytes]
        /\ buffer.filled \in Nat /\ buffer.filled = w
    BY DEF StreamInv, Stream!PositionsAgree
  <2>2. buffer' \in [capacity : Capacities, mem : [0..(c - 1) -> Bytes],
                     filled : Nat, read_pos : Nat, write_pos : Nat]
    BY <1>1, <1>2, <2>1
  <2> QED BY <1>1, <1>2, <2>1, <2>2 DEF StreamInv, Stream!PositionsAgree
<1>4. Stream!Unread(buffer)' = [i \in 1..(w - (r + n)) |-> buffer.mem[(r + n) + i - 1]]
  <2>1. Stream!Unread(buffer)' = [i \in 1..(buffer'.write_pos - buffer'.read_pos) |->
                                    buffer'.mem[buffer'.read_pos + i - 1]]
    BY DEF Stream!Unread, Stream!BytesFrom, Stream!ReadableSize
  <2> QED BY <2>1, <1>2
<1>5. old \in Seq(Bytes) /\ Len(old) = w - r /\ w - r \in Nat BY UnreadAreBytes, <1>1
<1>6. \A i \in 1..(w - r) : old[i] = buffer.mem[r + i - 1]
  BY DEF Stream!Unread, Stream!BytesFrom, Stream!ReadableSize
<1>7. SubSeq(old, n + 1, Len(old)) = [i \in 1..(w - (r + n)) |-> buffer.mem[(r + n) + i - 1]]
  <2>1. SubSeq(old, n + 1, w - r) = [i \in 1..((w - r) - (n + 1) + 1) |-> old[i + (n + 1) - 1]]
    <3> HIDE DEF old
    <3> QED BY <1>1, <1>5
  <2>2. (w - r) - (n + 1) + 1 = w - (r + n) BY <1>1
  <2>3. ASSUME NEW i \in 1..(w - (r + n))
        PROVE  old[i + (n + 1) - 1] = buffer.mem[(r + n) + i - 1]
    <3>1. i + (n + 1) - 1 \in 1..(w - r) /\ r + (i + (n + 1) - 1) - 1 = (r + n) + i - 1
      BY <1>1
    <3> HIDE DEF old
    <3> QED BY <3>1, <1>6
  <2> HIDE DEF old
  <2> QED BY <2>1, <2>2, <2>3, <1>5
<1> QED BY <1>2, <1>3, <1>4, <1>7

\* A buffer with these fields is one that holds such bytes.
LEMMA StreamBecomes ==
  ASSUME NEW c \in Capacities, NEW m \in [0..(c - 1) -> Bytes], NEW w \in 0..c,
         buffer' = [capacity |-> c, mem |-> m, filled |-> w, read_pos |-> 0, write_pos |-> w]
  PROVE  /\ StreamInv'
         /\ Stream!Unread(buffer)' = [i \in 1..w |-> m[i - 1]]
<1>1. c \in Nat /\ w \in Nat BY BuffersAssumption
<1>2. StreamInv'
  <2>1. buffer' \in [capacity : Capacities, mem : [0..(c - 1) -> Bytes],
                     filled : Nat, read_pos : Nat, write_pos : Nat]
    BY <1>1
  <2> QED BY <1>1, <2>1 DEF StreamInv, Stream!PositionsAgree
<1>3. Stream!Unread(buffer)' = [i \in 1..w |-> m[i - 1]]
  <2>1. Stream!Unread(buffer)' = [i \in 1..(buffer'.write_pos - buffer'.read_pos) |->
                                    buffer'.mem[buffer'.read_pos + i - 1]]
    BY DEF Stream!Unread, Stream!BytesFrom, Stream!ReadableSize
  <2>2. w - 0 = w /\ \A i \in 1..w : 0 + i - 1 = i - 1 BY <1>1
  <2>3. Stream!Unread(buffer)' = [i \in 1..(w - 0) |-> m[0 + i - 1]] BY <2>1
  <2> QED BY <2>2, <2>3
<1> QED BY <1>2, <1>3

\* CarriageReturn keeps the unread bytes and their order (StreamBuffer.cpp:74-100).
LEMMA CarriageReturnKeeps ==
  ASSUME StreamInv, buffer' = Stream!CarriageReturn(buffer)
  PROVE  /\ StreamInv'
         /\ Stream!Unread(buffer)' = Stream!Unread(buffer)
         /\ buffer'.capacity = buffer.capacity
<1> DEFINE w == buffer.write_pos
           r == buffer.read_pos
           c == buffer.capacity
           n == w - r
           m == [i \in 0..(c - 1) |-> IF i < n THEN buffer.mem[r + i] ELSE buffer.mem[i]]
<1>1. /\ c \in Nat \ {0} /\ c \in Capacities /\ r \in 0..w /\ w \in 0..c /\ n \in 0..c
      /\ DOMAIN buffer.mem = 0..(c - 1)
  BY StreamFacts DEF StreamInv
<1>2. (IF Stream!ReadableSize(buffer) > 0 THEN Stream!ReadableSize(buffer) ELSE 0) = n
  BY <1>1 DEF Stream!ReadableSize
<1>3. buffer' = [capacity |-> c, mem |-> m, filled |-> n, read_pos |-> 0, write_pos |-> n]
  BY <1>1, <1>2 DEF StreamInv, Stream!CarriageReturn
<1>4. m \in [0..(c - 1) -> Bytes]
  <2>1. \A i \in 0..(c - 1) : i < n => r + i \in 0..(c - 1) BY <1>1
  <2>2. \A p \in 0..(c - 1) : buffer.mem[p] \in Bytes BY StreamFacts
  <2> QED BY <2>1, <2>2
<1>5. StreamInv' /\ Stream!Unread(buffer)' = [i \in 1..n |-> m[i - 1]]
  <2> HIDE DEF m, n, c
  <2> QED BY <1>1, <1>3, <1>4, StreamBecomes
<1>6. Stream!Unread(buffer) = [i \in 1..n |-> buffer.mem[r + i - 1]]
  BY DEF Stream!Unread, Stream!BytesFrom, Stream!ReadableSize
<1>7. \A i \in 1..n : m[i - 1] = buffer.mem[r + i - 1]
  <2>1. \A i \in 1..n : i - 1 \in 0..(c - 1) /\ i - 1 < n /\ r + (i - 1) = r + i - 1 BY <1>1
  <2> QED BY <2>1
<1>8. buffer'.capacity = c BY <1>3
<1> HIDE DEF m, n, r, c
<1>9. [i \in 1..n |-> m[i - 1]] = [i \in 1..n |-> buffer.mem[r + i - 1]] BY <1>7
<1>10. buffer'.capacity = buffer.capacity BY <1>8 DEF c
<1> QED BY <1>5, <1>6, <1>9, <1>10

\* Clear and Resize leave an empty buffer (StreamBuffer.cpp:118-139).
LEMMA StreamEmptied ==
  ASSUME StreamInv, NEW c \in Capacities,
         buffer' = Stream!Clear(buffer) \/ buffer' = Stream!Resize(buffer, c)
  PROVE  /\ StreamInv'
         /\ Stream!Unread(buffer)' = << >>
         /\ buffer' = Stream!Clear(buffer) => buffer'.capacity = buffer.capacity
         /\ buffer' = Stream!Resize(buffer, c)
              => buffer'.capacity = IF c > buffer.capacity THEN c ELSE buffer.capacity
<1> DEFINE none == [i \in 1..0 |-> buffer'.mem[i - 1]]
<1>1. none = << >> OBVIOUS
<1>2. buffer.capacity \in Capacities /\ buffer.capacity \in Nat /\ c \in Nat
  BY StreamFacts, BuffersAssumption DEF StreamInv
<1>3. ASSUME buffer' = Stream!Clear(buffer)
      PROVE  /\ StreamInv' /\ Stream!Unread(buffer)' = << >>
             /\ buffer'.capacity = buffer.capacity
  <2> DEFINE m == [i \in 0..(buffer.capacity - 1) |->
                     IF i < buffer.filled THEN Zero ELSE buffer.mem[i]]
  <2>1. buffer' = [capacity |-> buffer.capacity, mem |-> m, filled |-> 0, read_pos |-> 0,
                   write_pos |-> 0]
    BY <1>3, StreamFacts DEF StreamInv, Stream!Clear
  <2>2. m \in [0..(buffer.capacity - 1) -> Bytes]
    BY StreamFacts, BuffersAssumption
  <2>3. 0 \in 0..buffer.capacity BY <1>2
  <2>4. buffer'.mem = m BY <2>1
  <2> HIDE DEF m
  <2>5. StreamInv' /\ Stream!Unread(buffer)' = [i \in 1..0 |-> m[i - 1]]
    BY <1>2, <2>1, <2>2, <2>3, StreamBecomes
  <2> QED BY <1>1, <2>1, <2>4, <2>5
<1>4. ASSUME buffer' = Stream!NewBuffer(c)
      PROVE  StreamInv' /\ Stream!Unread(buffer)' = << >> /\ buffer'.capacity = c
  <2> DEFINE m == [i \in 0..(c - 1) |-> Zero]
  <2>1. buffer' = [capacity |-> c, mem |-> m, filled |-> 0, read_pos |-> 0, write_pos |-> 0]
    BY <1>4 DEF Stream!NewBuffer
  <2>2. m \in [0..(c - 1) -> Bytes] BY BuffersAssumption
  <2>3. 0 \in 0..c BY <1>2
  <2>4. buffer'.mem = m BY <2>1
  <2> HIDE DEF m
  <2>5. StreamInv' /\ Stream!Unread(buffer)' = [i \in 1..0 |-> m[i - 1]]
    BY <2>1, <2>2, <2>3, StreamBecomes
  <2> QED BY <1>1, <2>1, <2>4, <2>5
<1>5. ASSUME buffer' = Stream!Resize(buffer, c)
      PROVE  /\ StreamInv' /\ Stream!Unread(buffer)' = << >>
             /\ buffer'.capacity = IF c > buffer.capacity THEN c ELSE buffer.capacity
  <2>1. CASE c > buffer.capacity
    <3>1. buffer' = Stream!NewBuffer(c) BY <1>5, <2>1 DEF Stream!Resize
    <3> QED BY <1>4, <2>1, <3>1
  <2>2. CASE ~(c > buffer.capacity)
    <3>1. buffer' = Stream!Clear(buffer) BY <1>5, <2>2 DEF Stream!Resize
    <3> QED BY <1>3, <2>2, <3>1
  <2> QED BY <2>1, <2>2
<1> QED BY <1>3, <1>5

\* The stream buffer begins as an empty queue.
LEMMA StreamStarts ==
  ASSUME Stream!Init PROVE StreamInv /\ Stream!Queue!Init
<1>1. PICK c \in Capacities : buffer = Stream!NewBuffer(c) BY DEF Stream!Init
<1>2. c \in Nat \ {0} BY BuffersAssumption
<1>3. buffer = [capacity |-> c, mem |-> [i \in 0..(c - 1) |-> Zero], filled |-> 0,
                read_pos |-> 0, write_pos |-> 0]
  BY <1>1 DEF Stream!NewBuffer
<1>4. [i \in 0..(c - 1) |-> Zero] \in [0..(c - 1) -> Bytes] BY BuffersAssumption
<1>5. buffer \in [capacity : Capacities, mem : [0..(c - 1) -> Bytes],
                  filled : Nat, read_pos : Nat, write_pos : Nat]
  BY <1>3, <1>4
<1>6. StreamInv BY <1>2, <1>3, <1>5 DEF StreamInv, Stream!PositionsAgree
<1>7. Stream!Unread(buffer) = << >>
  <2>1. 0 - 0 = 0 OBVIOUS
  <2>2. Stream!ReadableSize(buffer) = 0 BY <1>3, <2>1 DEF Stream!ReadableSize
  <2> QED BY <2>2 DEF Stream!Unread, Stream!BytesFrom
<1> QED BY <1>3, <1>6, <1>7 DEF Stream!Init, Stream!Queue!Init

\* Every step of the stream buffer is a step of the queue.
LEMMA StreamSteps ==
  ASSUME StreamInv, Stream!Next PROVE StreamInv' /\ Stream!Queue!Next
<1> DEFINE old == Stream!Unread(buffer)
<1>1. /\ old \in Seq(Bytes) /\ Len(old) = Stream!ReadableSize(buffer) /\ Len(old) \in Nat
      /\ buffer.capacity \in Nat
  BY UnreadAreBytes, StreamFacts
<1>2. ASSUME NEW data \in Stream!Writes, Stream!WriteCall(data)
      PROVE  StreamInv' /\ Stream!Queue!Next
  <2>1. data \in Seq(Bytes) /\ Len(data) \in Nat BY DEF Stream!Writes
  <2>2. /\ StreamInv' /\ Stream!Unread(buffer)' = old \o data
        /\ buffer'.capacity = buffer.capacity /\ Len(old) + Len(data) <= buffer.capacity
    BY <1>2, <2>1, StreamWriteAppends
  <2>3. stream_passed' = data BY <1>2 DEF Stream!WriteCall
  <2> HIDE DEF old
  <2>4. Len(data) \in 0..(buffer.capacity - Len(old)) BY <1>1, <2>1, <2>2
  <2>5. data \in [1..Len(data) -> Bytes] BY <2>1
  <2> USE DEF old
  <2>6. Stream!Queue!Write(data) BY <2>2, <2>3 DEF Stream!Queue!Write
  <2>7. data \in Stream!Queue!Fitting BY <2>4, <2>5 DEF Stream!Queue!Fitting
  <2> QED BY <2>2, <2>6, <2>7 DEF Stream!Queue!Next
<1>3. ASSUME NEW n \in 0..Stream!ReadableSize(buffer), Stream!PeekCall(n)
      PROVE  StreamInv' /\ Stream!Queue!Next
  <2>1. n \in 0..Len(old) /\ n <= Len(old) BY <1>1
  <2>2. Stream!Queue!Peek(n)
    BY <1>3, <2>1, StreamPeeksOldest DEF Stream!PeekCall, Stream!Queue!Peek
  <2>3. StreamInv' BY <1>3 DEF Stream!PeekCall, StreamInv, Stream!PositionsAgree
  <2> QED BY <2>1, <2>2, <2>3 DEF Stream!Queue!Next
<1>4. ASSUME NEW n \in 0..Stream!ReadableSize(buffer), Stream!ReadCall(n)
      PROVE  StreamInv' /\ Stream!Queue!Next
  <2>1. n \in 0..Len(old) /\ n <= Len(old) BY <1>1
  <2>2. stream_passed' = SubSeq(old, 1, n) BY <1>4, StreamPeeksOldest DEF Stream!ReadCall
  <2>3. /\ StreamInv' /\ Stream!Unread(buffer)' = SubSeq(old, n + 1, Len(old))
        /\ buffer'.capacity = buffer.capacity
    BY <1>4, StreamReadRemoves
  <2>4. Stream!Queue!Read(n) BY <2>1, <2>2, <2>3 DEF Stream!Queue!Read
  <2> QED BY <2>1, <2>3, <2>4 DEF Stream!Queue!Next
<1>5. ASSUME Stream!Tidying(Stream!CarriageReturn(buffer))
      PROVE  StreamInv' /\ Stream!Queue!Next
  <2>1. buffer' = Stream!CarriageReturn(buffer) /\ stream_passed' = << >>
    BY <1>5 DEF Stream!Tidying
  <2>2. Stream!Queue!Tidy BY <2>1, CarriageReturnKeeps DEF Stream!Queue!Tidy
  <2> QED BY <2>1, <2>2, CarriageReturnKeeps DEF Stream!Queue!Next
<1>6. ASSUME Stream!Tidying(Stream!Clear(buffer))
      PROVE  StreamInv' /\ Stream!Queue!Next
  <2>1. buffer' = Stream!Clear(buffer) /\ stream_passed' = << >>
    BY <1>6 DEF Stream!Tidying
  <2>2. buffer.capacity \in Capacities BY DEF StreamInv
  <2>3. StreamInv' /\ Stream!Queue!Clear BY <2>1, <2>2, StreamEmptied DEF Stream!Queue!Clear
  <2> QED BY <2>3 DEF Stream!Queue!Next
<1>7. ASSUME NEW c \in Capacities, Stream!Tidying(Stream!Resize(buffer, c))
      PROVE  StreamInv' /\ Stream!Queue!Next
  <2>1. buffer' = Stream!Resize(buffer, c) /\ stream_passed' = << >>
    BY <1>7 DEF Stream!Tidying
  <2>2. StreamInv' /\ Stream!Queue!Resize(c)
    BY <2>1, StreamEmptied DEF Stream!Queue!Resize
  <2> QED BY <2>2 DEF Stream!Queue!Next
<1> QED BY <1>2, <1>3, <1>4, <1>5, <1>6, <1>7 DEF Stream!Next

\* A step of the program is one of the ring buffer and one of the stream
\* buffer, or changes nothing of theirs.
LEMMA BuffersStep ==
  ASSUME [BaseNext]_baseVars
  PROVE  /\ [Ring!Next]_ringVars
         /\ [Stream!Next]_streamVars
<1>1. CASE UseRing BY <1>1 DEF UseRing
<1>2. CASE UseStream BY <1>2 DEF UseStream
<1>3. CASE UNCHANGED baseVars BY <1>3 DEF baseVars
<1>4. CASE UsePool \/ UseDate \/ UseTimer \/ UseBuffer \/ UseSlots
  BY <1>4 DEF UsePool, UseDate, UseTimer, UseBuffer, UseSlots
<1> QED BY <1>1, <1>2, <1>3, <1>4 DEF BaseNext

(***************************************************************************)
(* The ring buffer and the stream buffer are queues of bytes, for any      *)
(* capacities and any bytes: wherever the data wraps and however it is     *)
(* moved, every byte comes out once and in order (RingBuffer.cpp:19-96,    *)
(* StreamBuffer.cpp:60-139).                                               *)
(***************************************************************************)
THEOREM QueuesOfBytes == BaseSpec => BuffersAreByteQueues
<1>1. BaseInit => /\ RingInv /\ Ring!Queue!Init
                  /\ StreamInv /\ Stream!Queue!Init
  BY RingStarts, StreamStarts DEF BaseInit
<1>2. RingInv /\ [BaseNext]_baseVars
        => RingInv' /\ [Ring!Queue!Next]_<<Ring!Contents, capacity, ring_passed>>
  <2> SUFFICES ASSUME RingInv, [BaseNext]_baseVars
               PROVE  RingInv' /\ [Ring!Queue!Next]_<<Ring!Contents, capacity, ring_passed>>
    OBVIOUS
  <2>1. CASE Ring!Next BY <2>1, RingSteps
  <2>2. CASE UNCHANGED ringVars
    BY <2>2 DEF ringVars, RingInv, Ring!TypeOK, Ring!TailFollows, Ring!Positions, Ring!Contents
  <2> QED BY <2>1, <2>2, BuffersStep
<1>3. StreamInv /\ [BaseNext]_baseVars
        => StreamInv' /\ [Stream!Queue!Next]_<<Stream!Unread(buffer), buffer.capacity, stream_passed>>
  <2> SUFFICES ASSUME StreamInv, [BaseNext]_baseVars
               PROVE  /\ StreamInv'
                      /\ [Stream!Queue!Next]_<<Stream!Unread(buffer), buffer.capacity, stream_passed>>
    OBVIOUS
  <2>1. CASE Stream!Next BY <2>1, StreamSteps
  <2>2. CASE UNCHANGED streamVars
    BY <2>2 DEF streamVars, StreamInv, Stream!PositionsAgree
  <2> QED BY <2>1, <2>2, BuffersStep
<1> QED BY <1>1, <1>2, <1>3, PTL
        DEF BaseSpec, BuffersAreByteQueues, Ring!ImplementsByteQueue, Stream!ImplementsByteQueue,
            Ring!Queue!Spec, Stream!Queue!Spec

(***************************************************************************)
(* The arrays of Buffers.                                                  *)
(***************************************************************************)

\* What an object points to holds bytes, and an object that does not exist
\* points to nothing (Buffer.cpp).
OwnedInv ==
  /\ begin \in [Buffers -> Arrays \cup {NoArray}]
  /\ b_capacity \in [Buffers -> Nat] /\ filled \in [Buffers -> Nat]
  /\ exists \subseteq Buffers
  /\ DOMAIN heap \subseteq Arrays
  /\ \A a \in DOMAIN heap : heap[a] \in Seq(ArrayBytes)
  /\ \A x \in Buffers \ exists : begin[x] = NoArray
  /\ Owned!ArraysHaveOneOwner

\* The array of an object is its own and as large as it says.
LEMMA OwnArray ==
  ASSUME OwnedInv, NEW x \in Buffers
  PROVE  /\ filled[x] \in Nat /\ b_capacity[x] \in Nat /\ filled[x] <= b_capacity[x]
         /\ begin[x] = NoArray => filled[x] = 0 /\ b_capacity[x] = 0
         /\ begin[x] # NoArray => /\ begin[x] \in DOMAIN heap /\ begin[x] \in Arrays
                                  /\ heap[begin[x]] \in Seq(ArrayBytes)
                                  /\ Len(heap[begin[x]]) = b_capacity[x]
                                  /\ \A y \in Buffers : begin[y] = begin[x] => y = x
<1>1. filled[x] \in Nat /\ b_capacity[x] \in Nat BY DEF OwnedInv
<1>2. CASE begin[x] = NoArray
  <2>1. b_capacity[x] = 0 /\ filled[x] = 0
    BY <1>2 DEF OwnedInv, Owned!ArraysHaveOneOwner
  <2> QED BY <1>1, <1>2, <2>1
<1>3. CASE begin[x] # NoArray
  <2>1. /\ begin[x] \in DOMAIN heap /\ Len(heap[begin[x]]) = b_capacity[x]
        /\ filled[x] <= b_capacity[x]
    BY <1>3 DEF OwnedInv, Owned!ArraysHaveOneOwner, Owned!Allocated
  <2>2. \A y \in Buffers : begin[y] = begin[x] => y = x
    BY <1>3 DEF OwnedInv, Owned!ArraysHaveOneOwner
  <2>3. begin[x] \in Arrays /\ heap[begin[x]] \in Seq(ArrayBytes)
    BY <2>1, <1>3 DEF OwnedInv
  <2> QED BY <1>1, <1>3, <2>1, <2>2, <2>3
<1> QED BY <1>2, <1>3

\* What an object holds is what its array begins with.
LEMMA HoldsBytes ==
  ASSUME OwnedInv, NEW x \in Buffers
  PROVE  /\ Owned!Holds(x) \in Seq(ArrayBytes) /\ Len(Owned!Holds(x)) = filled[x]
         /\ \A i \in 1..filled[x] : Owned!Holds(x)[i] = heap[begin[x]][i]
<1>1. CASE filled[x] = 0
  BY <1>1 DEF Owned!Holds
<1>2. CASE filled[x] # 0
  <2>1. /\ heap[begin[x]] \in Seq(ArrayBytes) /\ filled[x] \in 1..Len(heap[begin[x]])
    BY <1>2, OwnArray
  <2>2. Owned!Holds(x) = SubSeq(heap[begin[x]], 1, filled[x]) BY <1>2 DEF Owned!Holds
  <2> DEFINE s == heap[begin[x]]
             n == filled[x]
  <2>3. s \in Seq(ArrayBytes) /\ n \in 1..Len(s) BY <2>1
  <2> HIDE DEF s, n
  <2>4. /\ SubSeq(s, 1, n) \in Seq(ArrayBytes) /\ Len(SubSeq(s, 1, n)) = n
        /\ \A i \in 1..n : SubSeq(s, 1, n)[i] = s[i]
    BY <2>3
  <2> QED BY <2>2, <2>4 DEF s, n
<1> QED BY <1>1, <1>2

\* memcpy over an array, and an array of zeros.
LEMMA OverIs ==
  ASSUME NEW array \in Seq(ArrayBytes), NEW data \in Seq(ArrayBytes), NEW at \in Nat
  PROVE  /\ Owned!Over(array, at, data) \in Seq(ArrayBytes)
         /\ Len(Owned!Over(array, at, data)) = Len(array)
         /\ \A i \in 1..Len(array) :
              Owned!Over(array, at, data)[i] =
                IF i > at /\ i <= at + Len(data) THEN data[i - at] ELSE array[i]
<1>1. Len(array) \in Nat /\ Len(data) \in Nat /\ DOMAIN array = 1..Len(array) OBVIOUS
<1>2. \A i \in 1..Len(array) : i \in at + 1..at + Len(data) <=> i > at /\ i <= at + Len(data)
  BY <1>1
<1>3. Owned!Over(array, at, data) =
        [i \in 1..Len(array) |-> IF i > at /\ i <= at + Len(data) THEN data[i - at] ELSE array[i]]
  BY <1>1, <1>2 DEF Owned!Over
<1>4. \A i \in 1..Len(array) : i > at /\ i <= at + Len(data) => i - at \in 1..Len(data)
  BY <1>1
<1>5. \A i \in 1..Len(array) :
        (IF i > at /\ i <= at + Len(data) THEN data[i - at] ELSE array[i]) \in ArrayBytes
  BY <1>4
<1> QED BY <1>1, <1>3, <1>5

LEMMA ZerosAre ==
  ASSUME NEW n \in Nat
  PROVE  Owned!Zeros(n) \in Seq(ArrayBytes) /\ Len(Owned!Zeros(n)) = n
  BY ArraysAssumption DEF Owned!Zeros

(***************************************************************************)
(* An operation gives x the array a of c bytes, n of which it counts, or   *)
(* none, and leaves the arrays of the others alone.                        *)
(***************************************************************************)
Gives(x, a, c, n) ==
  /\ a \in Arrays \cup {NoArray} /\ c \in Nat /\ n \in 0..c
  /\ begin' = [begin EXCEPT ![x] = a]
  /\ b_capacity' = [b_capacity EXCEPT ![x] = c]
  /\ filled' = [filled EXCEPT ![x] = n]
  /\ exists' \subseteq Buffers /\ exists \ {x} \subseteq exists'
  /\ x \in exists' \/ a = NoArray
  /\ DOMAIN heap' \subseteq Arrays
  /\ \A b \in DOMAIN heap' : heap'[b] \in Seq(ArrayBytes)
  /\ \A z \in Buffers \ {x} : begin[z] # NoArray =>
       begin[z] # a /\ begin[z] \in DOMAIN heap' /\ heap'[begin[z]] = heap[begin[z]]
  /\ a = NoArray => c = 0
  /\ a # NoArray => a \in DOMAIN heap' /\ Len(heap'[a]) = c

LEMMA OneChanges ==
  ASSUME OwnedInv, NEW x \in Buffers, NEW a, NEW c, NEW n, Gives(x, a, c, n)
  PROVE  /\ OwnedInv'
         /\ Owned!Held' = [Owned!Held EXCEPT ![x] = IF n = 0 THEN << >> ELSE SubSeq(heap'[a], 1, n)]
<1>0. /\ a \in Arrays \cup {NoArray} /\ c \in Nat /\ n \in 0..c
      /\ exists' \subseteq Buffers /\ exists \ {x} \subseteq exists'
      /\ x \in exists' \/ a = NoArray
      /\ DOMAIN heap' \subseteq Arrays
      /\ \A b \in DOMAIN heap' : heap'[b] \in Seq(ArrayBytes)
      /\ \A z \in Buffers \ {x} : begin[z] # NoArray =>
           begin[z] # a /\ begin[z] \in DOMAIN heap' /\ heap'[begin[z]] = heap[begin[z]]
      /\ a = NoArray => c = 0
      /\ a # NoArray => a \in DOMAIN heap' /\ Len(heap'[a]) = c
  BY DEF Gives
<1>1. /\ begin' \in [Buffers -> Arrays \cup {NoArray}]
      /\ b_capacity' \in [Buffers -> Nat] /\ filled' \in [Buffers -> Nat]
      /\ begin'[x] = a /\ b_capacity'[x] = c /\ filled'[x] = n
      /\ \A z \in Buffers \ {x} : /\ begin'[z] = begin[z] /\ b_capacity'[z] = b_capacity[z]
                                  /\ filled'[z] = filled[z]
  BY <1>0 DEF OwnedInv, Gives
<1>2. \A z \in Buffers \ exists' : begin'[z] = NoArray
  BY <1>0, <1>1 DEF OwnedInv
<1>3. ASSUME NEW y \in Buffers, NEW z \in Buffers, begin'[y] = begin'[z], begin'[y] # NoArray
      PROVE  y = z
  <2>1. CASE y = x /\ z # x BY <1>0, <1>1, <1>3, <2>1
  <2>2. CASE y # x /\ z = x BY <1>0, <1>1, <1>3, <2>2
  <2>3. CASE y # x /\ z # x
    <3>1. begin[y] = begin[z] /\ begin[y] # NoArray BY <1>1, <1>3, <2>3
    <3> QED BY <3>1, OwnArray
  <2> QED BY <2>1, <2>2, <2>3
<1>4. ASSUME NEW y \in Buffers
      PROVE  IF begin'[y] = NoArray THEN b_capacity'[y] = 0 /\ filled'[y] = 0
             ELSE /\ begin'[y] \in DOMAIN heap' /\ Len(heap'[begin'[y]]) = b_capacity'[y]
                  /\ filled'[y] <= b_capacity'[y]
  <2>1. CASE y = x BY <1>0, <1>1, <2>1
  <2>2. CASE y # x BY <1>0, <1>1, <2>2, OwnArray
  <2> QED BY <2>1, <2>2
<1>5. OwnedInv'
  BY <1>0, <1>1, <1>2, <1>3, <1>4 DEF OwnedInv, Owned!ArraysHaveOneOwner, Owned!Allocated
<1>6. ASSUME NEW z \in Buffers \ {x} PROVE Owned!Holds(z)' = Owned!Holds(z)
  <2>1. begin'[z] = begin[z] /\ filled'[z] = filled[z] BY <1>1
  <2>2. filled[z] # 0 => heap'[begin[z]] = heap[begin[z]] BY <1>0, OwnArray
  <2> QED BY <2>1, <2>2 DEF Owned!Holds
<1>7. Owned!Holds(x)' = IF n = 0 THEN << >> ELSE SubSeq(heap'[a], 1, n)
  BY <1>1 DEF Owned!Holds
<1> QED BY <1>5, <1>6, <1>7 DEF Owned!Held

\* A fresh array takes the place of the one an object had.
LEMMA ArrayReplaced ==
  ASSUME OwnedInv, NEW x \in Buffers, NEW a \in Owned!Unused, NEW bytes \in Seq(ArrayBytes),
         heap' = Owned!With(Owned!Freed(x), a, bytes)
  PROVE  /\ a \in Arrays /\ a # NoArray /\ a \in DOMAIN heap' /\ heap'[a] = bytes
         /\ DOMAIN heap' \subseteq Arrays
         /\ \A b \in DOMAIN heap' : heap'[b] \in Seq(ArrayBytes)
         /\ \A z \in Buffers \ {x} : begin[z] # NoArray =>
              begin[z] # a /\ begin[z] \in DOMAIN heap' /\ heap'[begin[z]] = heap[begin[z]]
<1>1. a \in Arrays /\ a \notin DOMAIN heap /\ a # NoArray
  BY ArraysAssumption DEF Owned!Unused, Owned!Allocated
<1>2. heap' = [b \in (DOMAIN heap \ {begin[x]}) \cup {a} |-> IF b = a THEN bytes ELSE heap[b]]
  BY DEF Owned!With, Owned!Freed, Owned!Allocated
<1>3. ASSUME NEW z \in Buffers \ {x}, begin[z] # NoArray
      PROVE  begin[z] # a /\ begin[z] \in DOMAIN heap' /\ heap'[begin[z]] = heap[begin[z]]
  <2>1. begin[z] \in DOMAIN heap /\ begin[z] # begin[x] BY <1>3, OwnArray
  <2> QED BY <1>1, <1>2, <2>1
<1> QED BY <1>1, <1>2, <1>3 DEF OwnedInv

\* An object gets a fresh array and counts n of its bytes.
Refills(x, a, bytes, n) ==
  /\ a \in Owned!Unused /\ bytes \in Seq(ArrayBytes) /\ n \in 0..Len(bytes)
  /\ begin' = [begin EXCEPT ![x] = a]
  /\ b_capacity' = [b_capacity EXCEPT ![x] = Len(bytes)]
  /\ filled' = [filled EXCEPT ![x] = n]
  /\ exists' \subseteq Buffers /\ exists \ {x} \subseteq exists' /\ x \in exists'
  /\ heap' = Owned!With(Owned!Freed(x), a, bytes)

LEMMA FreshHolds ==
  ASSUME OwnedInv, NEW x \in Buffers, NEW a, NEW bytes, NEW n, Refills(x, a, bytes, n)
  PROVE  /\ OwnedInv'
         /\ Owned!Held' = [Owned!Held EXCEPT ![x] = IF n = 0 THEN << >> ELSE SubSeq(bytes, 1, n)]
<1>0. PICK c \in Nat : c = Len(bytes) BY DEF Refills
<1>1. /\ a \in Arrays \cup {NoArray} /\ a # NoArray /\ a \in DOMAIN heap' /\ heap'[a] = bytes
      /\ DOMAIN heap' \subseteq Arrays
      /\ \A b \in DOMAIN heap' : heap'[b] \in Seq(ArrayBytes)
      /\ \A z \in Buffers \ {x} : begin[z] # NoArray =>
           begin[z] # a /\ begin[z] \in DOMAIN heap' /\ heap'[begin[z]] = heap[begin[z]]
  BY ArrayReplaced DEF Refills
<1>2. n \in 0..c BY <1>0 DEF Refills
<1>3. Gives(x, a, c, n)
  BY <1>0, <1>1, <1>2 DEF Gives, Refills
<1>4. /\ OwnedInv'
      /\ Owned!Held' = [Owned!Held EXCEPT ![x] = IF n = 0 THEN << >> ELSE SubSeq(heap'[a], 1, n)]
  BY ONLY OwnedInv, <1>3, OneChanges
<1>5. heap'[a] = bytes BY <1>1
<1> QED BY ONLY <1>4, <1>5, Zenon

\* Create: a new array of zeros that counts no bytes (Buffer.cpp:68-79).
LEMMA CreateHolds ==
  ASSUME OwnedInv, NEW x \in Buffers, NEW c \in ArrayCapacities, Owned!Create(x, c)
  PROVE  OwnedInv' /\ Owned!Held' = [Owned!Held EXCEPT ![x] = << >>]
<1>1. PICK a \in Owned!Unused : /\ x \in exists /\ Owned!Become(x, a, c, 0)
                                /\ heap' = Owned!With(Owned!Freed(x), a, Owned!Zeros(c))
                                /\ UNCHANGED exists
  BY DEF Owned!Create
<1>2. c \in Nat /\ 0 \in 0..c BY ArraysAssumption
<1>3. /\ begin' = [begin EXCEPT ![x] = a] /\ b_capacity' = [b_capacity EXCEPT ![x] = c]
      /\ filled' = [filled EXCEPT ![x] = 0]
  BY <1>1 DEF Owned!Become
<1>4. exists' \subseteq Buffers /\ exists \ {x} \subseteq exists' /\ x \in exists'
  BY <1>1 DEF OwnedInv
<1>5. Owned!Zeros(c) \in Seq(ArrayBytes) /\ Len(Owned!Zeros(c)) = c BY <1>2, ZerosAre
<1>6. PICK q : q = Owned!Zeros(c) OBVIOUS
<1>7. Refills(x, a, q, 0)
  BY <1>1, <1>2, <1>3, <1>4, <1>5, <1>6 DEF Refills
<1>8. /\ OwnedInv'
      /\ Owned!Held' = [Owned!Held EXCEPT ![x] = IF 0 = 0 THEN << >> ELSE SubSeq(q, 1, 0)]
  BY ONLY OwnedInv, <1>7, FreshHolds
<1> QED BY ONLY <1>8

\* A copy has the capacity of its original and counts none of its bytes.
LEMMA CopyHolds ==
  ASSUME OwnedInv, NEW x \in Buffers, NEW y \in Buffers,
         Owned!CopyConstruct(x, y) \/ Owned!CopyAssign(x, y)
  PROVE  OwnedInv' /\ Owned!Held' = [Owned!Held EXCEPT ![x] = << >>]
<1> DEFINE c == b_capacity[y]
           bytes == Owned!Over(Owned!Zeros(c), 0, Owned!Holds(y))
<1>1. PICK a \in Owned!Unused : /\ Owned!Become(x, a, c, 0)
                                /\ heap' = Owned!With(Owned!Freed(x), a, bytes)
                                /\ exists' \subseteq Buffers /\ exists \ {x} \subseteq exists'
                                /\ x \in exists'
  <2>1. CASE Owned!CopyConstruct(x, y)
    <3>1. PICK a \in Owned!Unused : /\ x \notin exists /\ y \in exists /\ Owned!Become(x, a, c, 0)
                                    /\ heap' = Owned!With(heap, a, bytes)
                                    /\ exists' = exists \cup {x}
      BY <2>1 DEF Owned!CopyConstruct
    <3>2. begin[x] = NoArray /\ NoArray \notin DOMAIN heap
      BY <3>1, ArraysAssumption DEF OwnedInv
    <3>3. DOMAIN heap \ {begin[x]} = DOMAIN heap BY <3>2
    <3>4. Owned!With(heap, a, bytes) = Owned!With(Owned!Freed(x), a, bytes)
      <4> HIDE DEF bytes
      <4> QED BY <3>3 DEF Owned!With, Owned!Freed, Owned!Allocated
    <3> QED BY <3>1, <3>4 DEF OwnedInv
  <2>2. CASE Owned!CopyAssign(x, y)
    BY <2>2 DEF Owned!CopyAssign, OwnedInv
  <2> QED BY <2>1, <2>2
<1>2. c \in Nat /\ 0 \in 0..c BY OwnArray
<1>3. /\ begin' = [begin EXCEPT ![x] = a] /\ b_capacity' = [b_capacity EXCEPT ![x] = c]
      /\ filled' = [filled EXCEPT ![x] = 0]
  BY <1>1 DEF Owned!Become
<1>4. bytes \in Seq(ArrayBytes) /\ Len(bytes) = c
  <2>1. Owned!Zeros(c) \in Seq(ArrayBytes) /\ Len(Owned!Zeros(c)) = c BY <1>2, ZerosAre
  <2>2. Owned!Holds(y) \in Seq(ArrayBytes) BY HoldsBytes
  <2> QED BY <2>1, <2>2, OverIs
<1>5. PICK q : q = bytes OBVIOUS
<1> HIDE DEF bytes, c
<1>6. Refills(x, a, q, 0)
  BY <1>1, <1>2, <1>3, <1>4, <1>5 DEF Refills
<1>7. /\ OwnedInv'
      /\ Owned!Held' = [Owned!Held EXCEPT ![x] = IF 0 = 0 THEN << >> ELSE SubSeq(q, 1, 0)]
  BY ONLY OwnedInv, <1>6, FreshHolds
<1> QED BY ONLY <1>7

\* The destructor frees the array.
LEMMA DestroyHolds ==
  ASSUME OwnedInv, NEW x \in Buffers, Owned!Destroy(x)
  PROVE  OwnedInv' /\ Owned!Held' = [Owned!Held EXCEPT ![x] = << >>]
<1>1. /\ begin' = [begin EXCEPT ![x] = NoArray] /\ b_capacity' = [b_capacity EXCEPT ![x] = 0]
      /\ filled' = [filled EXCEPT ![x] = 0]
      /\ heap' = [b \in DOMAIN heap \ {begin[x]} |-> heap[b]]
      /\ exists' = exists \ {x}
  BY DEF Owned!Destroy, Owned!Become, Owned!Freed, Owned!Allocated
<1>2. /\ DOMAIN heap' \subseteq Arrays
      /\ \A b \in DOMAIN heap' : heap'[b] \in Seq(ArrayBytes)
      /\ exists' \subseteq Buffers /\ exists \ {x} \subseteq exists'
  BY <1>1 DEF OwnedInv
<1>3. ASSUME NEW z \in Buffers \ {x}, begin[z] # NoArray
      PROVE  begin[z] # NoArray /\ begin[z] \in DOMAIN heap' /\ heap'[begin[z]] = heap[begin[z]]
  <2>1. begin[z] \in DOMAIN heap /\ begin[z] # begin[x] BY <1>3, OwnArray
  <2> QED BY <1>1, <1>3, <2>1
<1>4. Gives(x, NoArray, 0, 0)
  <2>1. NoArray \in Arrays \cup {NoArray} /\ 0 \in Nat /\ 0 \in 0..0 OBVIOUS
  <2> QED BY <1>1, <1>2, <1>3, <2>1, Zenon DEF Gives
<1>5. /\ OwnedInv'
      /\ Owned!Held' = [Owned!Held EXCEPT ![x] = IF 0 = 0 THEN << >> ELSE SubSeq(heap'[NoArray], 1, 0)]
  BY <1>4, OneChanges
<1> QED BY <1>5

\* Without a larger array the object keeps the one it has, written in place.
Rewrites(x, bytes, n) ==
  /\ x \in exists /\ begin[x] # NoArray
  /\ bytes \in Seq(ArrayBytes) /\ Len(bytes) = b_capacity[x] /\ n \in 0..Len(bytes)
  /\ begin' = begin /\ b_capacity' = b_capacity /\ filled' = [filled EXCEPT ![x] = n]
  /\ exists' = exists /\ heap' = [heap EXCEPT ![begin[x]] = bytes]

LEMMA WrittenInPlace ==
  ASSUME OwnedInv, NEW x \in Buffers, NEW bytes, NEW n, Rewrites(x, bytes, n)
  PROVE  /\ OwnedInv'
         /\ Owned!Held' = [Owned!Held EXCEPT ![x] = IF n = 0 THEN << >> ELSE SubSeq(bytes, 1, n)]
<1>0. PICK a, c : a = begin[x] /\ c = b_capacity[x] OBVIOUS
<1>1. /\ x \in Buffers /\ a \in Arrays /\ a \in DOMAIN heap /\ c \in Nat /\ n \in 0..c
      /\ exists \subseteq Buffers /\ DOMAIN heap \subseteq Arrays
  BY <1>0, OwnArray DEF OwnedInv, Rewrites
<1>2. begin' = [begin EXCEPT ![x] = a] /\ b_capacity' = [b_capacity EXCEPT ![x] = c]
  BY <1>0, <1>1 DEF OwnedInv, Rewrites
<1>3. /\ DOMAIN heap' = DOMAIN heap /\ heap'[a] = bytes
      /\ \A b \in DOMAIN heap : b # a => heap'[b] = heap[b]
  BY <1>0, <1>1 DEF Rewrites
<1>4. \A b \in DOMAIN heap' : heap'[b] \in Seq(ArrayBytes)
  BY <1>3 DEF OwnedInv, Rewrites
<1>5. ASSUME NEW z \in Buffers \ {x}, begin[z] # NoArray
      PROVE  begin[z] # a /\ begin[z] \in DOMAIN heap' /\ heap'[begin[z]] = heap[begin[z]]
  <2>1. begin[z] \in DOMAIN heap /\ begin[z] # begin[x] BY <1>0, <1>1, <1>5, OwnArray
  <2> QED BY <1>0, <1>3, <2>1
<1>6. Len(heap'[a]) = c BY <1>0, <1>3 DEF Rewrites
<1>7. a # NoArray BY <1>0 DEF Rewrites
<1>8. Gives(x, a, c, n)
  BY <1>1, <1>2, <1>3, <1>4, <1>5, <1>6, <1>7 DEF Gives, Rewrites
<1>9. /\ OwnedInv'
      /\ Owned!Held' = [Owned!Held EXCEPT ![x] = IF n = 0 THEN << >> ELSE SubSeq(heap'[a], 1, n)]
  BY ONLY OwnedInv, <1>1, <1>8, OneChanges
<1>10. heap'[a] = bytes BY <1>3, Zenon
<1> QED BY ONLY <1>9, <1>10, Zenon

\* An object without an array that is given none stays as it is.
LEMMA WrittenNowhere ==
  ASSUME OwnedInv, NEW x \in exists, begin[x] = NoArray,
         begin' = begin, b_capacity' = b_capacity, filled' = [filled EXCEPT ![x] = 0],
         exists' = exists, heap' = heap
  PROVE  OwnedInv' /\ Owned!Held' = Owned!Held
<1>1. x \in Buffers /\ filled[x] = 0 BY OwnArray DEF OwnedInv
<1>2. filled' = filled BY <1>1 DEF OwnedInv
<1> QED BY <1>2 DEF OwnedInv, Owned!ArraysHaveOneOwner, Owned!Allocated, Owned!Held, Owned!Holds

\* ReSize keeps the bytes (Buffer.cpp:90-118).
LEMMA ReSizeHolds ==
  ASSUME OwnedInv, NEW x \in Buffers, NEW n \in Nat, Owned!ReSize(x, n)
  PROVE  OwnedInv' /\ Owned!Held' = Owned!Held
<1> DEFINE h == Owned!Holds(x)
           bytes == Owned!Over(Owned!Zeros(n), 0, h)
<1>0. PICK m : m = filled[x] OBVIOUS
<1>1. /\ x \in exists /\ filled' = filled /\ exists' = exists
      /\ exists' \subseteq Buffers /\ filled = [filled EXCEPT ![x] = m]
  BY <1>0 DEF Owned!ReSize, OwnedInv
<1>2. Owned!Held = [Owned!Held EXCEPT ![x] = h]
  BY DEF Owned!Held
<1>3. CASE n <= b_capacity[x]
  <2>1. begin' = begin /\ b_capacity' = b_capacity /\ heap' = IF begin[x] = NoArray THEN heap
          ELSE [heap EXCEPT ![begin[x]] = heap[begin[x]]]
    BY <1>3 DEF Owned!ReSize, Owned!Resized
  <2>2. CASE begin[x] = NoArray
    <3>1. m = 0 BY <1>0, <1>1, <2>2, OwnArray
    <3>2. filled' = [filled EXCEPT ![x] = 0] BY <1>1, <3>1
    <3> QED BY <1>1, <2>1, <2>2, <3>2, WrittenNowhere
  <2>3. CASE begin[x] # NoArray
    <3> DEFINE s == heap[begin[x]]
    <3>1. s \in Seq(ArrayBytes) /\ Len(s) = b_capacity[x] /\ m \in 0..b_capacity[x]
      BY <1>0, <1>1, <2>3, OwnArray
    <3>2. heap' = [heap EXCEPT ![begin[x]] = s] BY <2>1, <2>3
    <3>3. h = IF m = 0 THEN << >> ELSE SubSeq(s, 1, m) BY <1>0 DEF Owned!Holds
    <3>0. PICK r : r = s OBVIOUS
    <3> HIDE DEF s, h
    <3>4. filled' = [filled EXCEPT ![x] = m] BY <1>1
    <3>5. /\ OwnedInv'
          /\ Owned!Held' = [Owned!Held EXCEPT ![x] = IF m = 0 THEN << >>
                                                      ELSE SubSeq(r, 1, m)]
      <4>1. /\ r \in Seq(ArrayBytes) /\ Len(r) = b_capacity[x] /\ m \in 0..b_capacity[x]
            /\ heap' = [heap EXCEPT ![begin[x]] = r]
        BY <3>0, <3>1, <3>2
      <4>2. begin' = begin /\ b_capacity' = b_capacity /\ begin[x] # NoArray BY <2>1, <2>3
      <4>3. Rewrites(x, r, m) BY <1>1, <4>1, <4>2, <3>4 DEF Rewrites
      <4> QED BY ONLY OwnedInv, <4>3, WrittenInPlace
    <3> QED BY <1>2, <3>0, <3>3, <3>5, Zenon
  <2> QED BY <2>2, <2>3
<1>4. CASE ~(n <= b_capacity[x])
  <2>1. PICK a \in Owned!Unused : /\ begin' = [begin EXCEPT ![x] = a]
                                  /\ b_capacity' = [b_capacity EXCEPT ![x] = n]
                                  /\ heap' = Owned!With(Owned!Freed(x), a, bytes)
    BY <1>4 DEF Owned!ReSize, Owned!Resized
  <2>2. Owned!Zeros(n) \in Seq(ArrayBytes) /\ Len(Owned!Zeros(n)) = n BY ZerosAre
  <2>3. h \in Seq(ArrayBytes) /\ Len(h) = m /\ m \in Nat BY <1>0, HoldsBytes, OwnArray
  <2>4. m \in 0..n BY <1>0, <1>4, OwnArray
  <2>5. /\ bytes \in Seq(ArrayBytes) /\ Len(bytes) = n
        /\ \A i \in 1..n : i <= m => bytes[i] = h[i]
    <3> DEFINE zeros == Owned!Zeros(n)
    <3>1. zeros \in Seq(ArrayBytes) /\ Len(zeros) = n BY <2>2
    <3> HIDE DEF h, zeros
    <3>2. /\ Owned!Over(zeros, 0, h) \in Seq(ArrayBytes) /\ Len(Owned!Over(zeros, 0, h)) = n
          /\ \A i \in 1..n : Owned!Over(zeros, 0, h)[i] =
                               IF i > 0 /\ i <= 0 + Len(h) THEN h[i - 0] ELSE zeros[i]
      BY <2>3, <3>1, OverIs, 0 \in Nat
    <3>3. \A i \in 1..n : i <= m => i > 0 /\ i <= 0 + Len(h) /\ i - 0 = i BY <2>3
    <3> QED BY <3>2, <3>3 DEF zeros
  <2> HIDE DEF bytes, h
  <2>6. (IF m = 0 THEN << >> ELSE SubSeq(bytes, 1, m)) = h
    <3>1. CASE m = 0 BY <2>3, <3>1
    <3>2. CASE m # 0
      <4>1. /\ SubSeq(bytes, 1, m) \in Seq(ArrayBytes)
            /\ Len(SubSeq(bytes, 1, m)) = m
            /\ \A i \in 1..m : SubSeq(bytes, 1, m)[i] = bytes[i]
        BY <2>4, <2>5
      <4>2. \A i \in 1..m : bytes[i] = h[i] BY <2>4, <2>5
      <4>3. SubSeq(bytes, 1, m) = h BY <2>3, <4>1, <4>2, SeqEqual
      <4> QED BY <3>2, <4>3
    <3> QED BY <3>1, <3>2
  <2>7. filled' = [filled EXCEPT ![x] = m] BY <1>1
  <2>9. PICK q : q = bytes OBVIOUS
  <2>8. /\ OwnedInv'
        /\ Owned!Held' = [Owned!Held EXCEPT ![x] = IF m = 0 THEN << >>
                                                    ELSE SubSeq(q, 1, m)]
    <3>1. /\ q \in Seq(ArrayBytes) /\ n = Len(q) /\ m \in 0..n
          /\ heap' = Owned!With(Owned!Freed(x), a, q)
      BY <2>1, <2>4, <2>5, <2>9
    <3>2. exists' \subseteq Buffers /\ exists \ {x} \subseteq exists' /\ x \in exists' BY <1>1
    <3>3. begin' = [begin EXCEPT ![x] = a] /\ b_capacity' = [b_capacity EXCEPT ![x] = n] BY <2>1
    <3>4. x \in Buffers /\ a \in Owned!Unused OBVIOUS
    <3>5. Refills(x, a, q, m) BY <2>7, <3>1, <3>2, <3>3, <3>4 DEF Refills
    <3> QED BY ONLY OwnedInv, <3>5, FreshHolds
  <2> QED BY <1>2, <2>6, <2>8, <2>9, Zenon
<1> QED BY <1>3, <1>4

\* What is copied over the beginning of an array is there.
LEMMA OverBegins ==
  ASSUME NEW array \in Seq(ArrayBytes), NEW data \in Seq(ArrayBytes), Len(data) <= Len(array)
  PROVE  (IF Len(data) = 0 THEN << >> ELSE SubSeq(Owned!Over(array, 0, data), 1, Len(data))) = data
<1> DEFINE o == Owned!Over(array, 0, data)
           n == Len(data)
<1>1. /\ o \in Seq(ArrayBytes) /\ Len(o) = Len(array) /\ n \in Nat /\ n <= Len(o)
      /\ \A i \in 1..n : o[i] = data[i]
  <2>1. /\ o \in Seq(ArrayBytes) /\ Len(o) = Len(array)
        /\ \A i \in 1..Len(array) : o[i] = IF i > 0 /\ i <= 0 + n THEN data[i - 0] ELSE array[i]
    BY OverIs, 0 \in Nat
  <2>2. \A i \in 1..n : i \in 1..Len(array) /\ i > 0 /\ i <= 0 + n /\ i - 0 = i OBVIOUS
  <2> QED BY <2>1, <2>2
<1> HIDE DEF o
<1>2. CASE n = 0 BY <1>2
<1>3. CASE n # 0
  <2>1. /\ SubSeq(o, 1, n) \in Seq(ArrayBytes) /\ Len(SubSeq(o, 1, n)) = n
        /\ \A i \in 1..n : SubSeq(o, 1, n)[i] = o[i]
    BY <1>1
  <2>2. SubSeq(o, 1, n) = data BY <1>1, <2>1, SeqEqual
  <2> QED BY <1>3, <2>2 DEF o
<1> QED BY <1>2, <1>3

\* What is copied behind a beginning is appended to it.
LEMMA OverAppends ==
  ASSUME NEW array \in Seq(ArrayBytes), NEW old \in Seq(ArrayBytes), NEW data \in Seq(ArrayBytes),
         Len(old) + Len(data) <= Len(array), \A i \in 1..Len(old) : array[i] = old[i],
         Len(data) # 0
  PROVE  SubSeq(Owned!Over(array, Len(old), data), 1, Len(old) + Len(data)) = old \o data
<1> DEFINE o == Owned!Over(array, Len(old), data)
           k == Len(old)
           n == Len(data)
<1>1. k \in Nat /\ n \in Nat /\ k + n <= Len(array) /\ k + n \in Nat OBVIOUS
<1>2. /\ o \in Seq(ArrayBytes) /\ Len(o) = Len(array)
      /\ \A i \in 1..Len(array) : o[i] = IF i > k /\ i <= k + n THEN data[i - k] ELSE array[i]
  BY <1>1, OverIs
<1>3. old \o data \in Seq(ArrayBytes) /\ Len(old \o data) = k + n
  BY ConcatProperties
<1>4. \A i \in 1..(k + n) : (old \o data)[i] = IF i <= k THEN old[i] ELSE data[i - k]
  BY ConcatProperties
<1>5. ASSUME NEW i \in 1..(k + n) PROVE o[i] = (old \o data)[i]
  <2>1. i \in 1..Len(array) BY <1>1
  <2>2. o[i] = IF i > k /\ i <= k + n THEN data[i - k] ELSE array[i] BY <1>2, <2>1
  <2>3. CASE i <= k
    <3>1. ~(i > k) /\ i \in 1..k BY <1>1, <2>3
    <3>2. array[i] = old[i] BY <3>1
    <3> HIDE DEF o, k, n
    <3> QED BY <1>4, <2>2, <2>3, <3>1, <3>2
  <2>4. CASE i > k
    <3>1. ~(i <= k) /\ i <= k + n BY <1>1, <2>4
    <3> HIDE DEF o, k, n
    <3> QED BY <1>4, <2>2, <2>4, <3>1
  <2> QED BY <1>1, <2>3, <2>4
<1> HIDE DEF o, k, n
<1>6. /\ SubSeq(o, 1, k + n) \in Seq(ArrayBytes) /\ Len(SubSeq(o, 1, k + n)) = k + n
      /\ \A i \in 1..(k + n) : SubSeq(o, 1, k + n)[i] = o[i]
  BY <1>1, <1>2
<1>7. SubSeq(o, 1, k + n) = old \o data
  BY <1>3, <1>5, <1>6, SeqEqual
<1> QED BY <1>7 DEF o, k, n

\* Assign replaces the bytes (Buffer.cpp:15-43).
LEMMA AssignHolds ==
  ASSUME OwnedInv, NEW x \in Buffers, NEW data \in Seq(ArrayBytes), Len(data) # 0,
         Owned!Assign(x, data)
  PROVE  OwnedInv' /\ Owned!Held' = [Owned!Held EXCEPT ![x] = data]
<1>1. PICK n \in Nat : n = Len(data) /\ n # 0 OBVIOUS
<1>2. /\ x \in exists /\ filled' = [filled EXCEPT ![x] = n] /\ exists' = exists
      /\ exists' \subseteq Buffers
  BY <1>1 DEF Owned!Assign, OwnedInv
<1>3. ASSUME NEW q, NEW s \in Seq(ArrayBytes), n <= Len(s), q = Owned!Over(s, 0, data)
      PROVE  /\ q \in Seq(ArrayBytes) /\ Len(q) = Len(s)
             /\ (IF n = 0 THEN << >> ELSE SubSeq(q, 1, n)) = data
  BY <1>1, <1>3, OverIs, OverBegins, 0 \in Nat
<1>4. CASE n <= b_capacity[x]
  <2>1. begin[x] # NoArray BY <1>1, <1>4, OwnArray
  <2>2. PICK s : s = heap[begin[x]] OBVIOUS
  <2>3. PICK q : q = Owned!Over(s, 0, data) OBVIOUS
  <2>4. s \in Seq(ArrayBytes) /\ Len(s) = b_capacity[x] /\ n <= Len(s) BY <1>4, <2>1, <2>2, OwnArray
  <2>5. /\ q \in Seq(ArrayBytes) /\ Len(q) = b_capacity[x] /\ n \in 0..Len(q)
        /\ (IF n = 0 THEN << >> ELSE SubSeq(q, 1, n)) = data
    BY <1>1, <1>3, <2>3, <2>4
  <2>6. /\ begin' = begin /\ b_capacity' = b_capacity
        /\ heap' = [heap EXCEPT ![begin[x]] = Owned!Over(heap[begin[x]], 0, data)]
    BY <1>1, <1>4, <2>1 DEF Owned!Assign, Owned!Resized
  <2>7. heap' = [heap EXCEPT ![begin[x]] = q] BY <2>2, <2>3, <2>6
  <2>8. Rewrites(x, q, n) BY <1>2, <2>1, <2>5, <2>6, <2>7 DEF Rewrites
  <2>9. /\ OwnedInv'
        /\ Owned!Held' = [Owned!Held EXCEPT ![x] = IF n = 0 THEN << >> ELSE SubSeq(q, 1, n)]
    BY ONLY OwnedInv, <2>8, WrittenInPlace
  <2>10. (IF n = 0 THEN << >> ELSE SubSeq(q, 1, n)) = data BY <2>5
  <2> QED BY ONLY <2>9, <2>10, Zenon
<1>5. CASE ~(n <= b_capacity[x])
  <2>1. PICK q : q = Owned!Over(Owned!Zeros(n), 0, data) OBVIOUS
  <2>2. PICK a \in Owned!Unused : /\ begin' = [begin EXCEPT ![x] = a]
                                  /\ b_capacity' = [b_capacity EXCEPT ![x] = n]
                                  /\ heap' = Owned!With(Owned!Freed(x), a, q)
    BY <1>1, <1>5, <2>1 DEF Owned!Assign, Owned!Resized
  <2>3. PICK s \in Seq(ArrayBytes) : s = Owned!Zeros(n) /\ Len(s) = n BY ZerosAre
  <2>4. /\ q \in Seq(ArrayBytes) /\ Len(q) = n /\ n \in 0..Len(q)
        /\ (IF n = 0 THEN << >> ELSE SubSeq(q, 1, n)) = data
    BY <1>1, <1>3, <2>1, <2>3
  <2>5. exists' \subseteq Buffers /\ exists \ {x} \subseteq exists' /\ x \in exists' BY <1>2
  <2>6. b_capacity' = [b_capacity EXCEPT ![x] = Len(q)] BY <2>2, <2>4
  <2>7. Refills(x, a, q, n) BY <1>2, <2>2, <2>4, <2>5, <2>6 DEF Refills
  <2>8. /\ OwnedInv'
        /\ Owned!Held' = [Owned!Held EXCEPT ![x] = IF n = 0 THEN << >> ELSE SubSeq(q, 1, n)]
    BY ONLY OwnedInv, <2>7, FreshHolds
  <2>9. (IF n = 0 THEN << >> ELSE SubSeq(q, 1, n)) = data BY <2>4
  <2> QED BY ONLY <2>8, <2>9, Zenon
<1> QED BY <1>4, <1>5

\* Append keeps the bytes in front of the new ones (Buffer.cpp:45-66).
LEMMA AppendHolds ==
  ASSUME OwnedInv, NEW x \in Buffers, NEW data \in Seq(ArrayBytes), Len(data) # 0,
         Owned!AppendBytes(x, data)
  PROVE  OwnedInv' /\ Owned!Held' = [Owned!Held EXCEPT ![x] = @ \o data]
<1>1. PICK old : old = Owned!Holds(x) OBVIOUS
<1>2. PICK k : k = filled[x] OBVIOUS
<1>3. /\ old \in Seq(ArrayBytes) /\ Len(old) = k /\ k \in Nat /\ Len(data) \in Nat
      /\ \A i \in 1..k : old[i] = heap[begin[x]][i]
  BY <1>1, <1>2, HoldsBytes, OwnArray
<1>4. PICK n \in Nat : n = k + Len(data) /\ n # 0 BY <1>3
<1>5. /\ x \in exists /\ filled' = [filled EXCEPT ![x] = n] /\ exists' = exists
      /\ exists' \subseteq Buffers
  BY <1>2, <1>4 DEF Owned!AppendBytes, OwnedInv
<1>6. [Owned!Held EXCEPT ![x] = @ \o data] = [Owned!Held EXCEPT ![x] = old \o data]
  BY <1>1 DEF Owned!Held
<1>7. ASSUME NEW q, NEW s \in Seq(ArrayBytes), n <= Len(s), \A i \in 1..k : s[i] = old[i],
             q = Owned!Over(s, k, data)
      PROVE  /\ q \in Seq(ArrayBytes) /\ Len(q) = Len(s)
             /\ (IF n = 0 THEN << >> ELSE SubSeq(q, 1, n)) = old \o data
  <2>1. q \in Seq(ArrayBytes) /\ Len(q) = Len(s) BY <1>3, <1>7, OverIs
  <2>2. SubSeq(q, 1, n) = old \o data
    <3>1. Len(old) + Len(data) <= Len(s) /\ \A i \in 1..Len(old) : s[i] = old[i]
      BY <1>3, <1>4, <1>7
    <3>2. SubSeq(Owned!Over(s, Len(old), data), 1, Len(old) + Len(data)) = old \o data
      BY <1>3, <3>1, OverAppends
    <3> QED BY <1>3, <1>4, <1>7, <3>2
  <2> QED BY <1>4, <2>1, <2>2
<1>8. CASE n <= b_capacity[x]
  <2>1. begin[x] # NoArray
    <3>1. b_capacity[x] # 0 BY <1>4, <1>8, OwnArray
    <3> QED BY <3>1, OwnArray
  <2>2. PICK s : s = heap[begin[x]] OBVIOUS
  <2>3. PICK q : q = Owned!Over(s, k, data) OBVIOUS
  <2>4. s \in Seq(ArrayBytes) /\ Len(s) = b_capacity[x] /\ n <= Len(s) BY <1>8, <2>1, <2>2, OwnArray
  <2>5. /\ q \in Seq(ArrayBytes) /\ Len(q) = b_capacity[x] /\ n \in 0..Len(q)
        /\ (IF n = 0 THEN << >> ELSE SubSeq(q, 1, n)) = old \o data
    <3>1. \A i \in 1..k : s[i] = old[i] BY <1>3, <2>2
    <3> QED BY <1>7, <2>3, <2>4, <3>1
  <2>6. /\ begin' = begin /\ b_capacity' = b_capacity
        /\ heap' = [heap EXCEPT ![begin[x]] = Owned!Over(heap[begin[x]], k, data)]
    BY <1>2, <1>4, <1>8, <2>1 DEF Owned!AppendBytes, Owned!Resized
  <2>7. heap' = [heap EXCEPT ![begin[x]] = q] BY <2>2, <2>3, <2>6
  <2>8. Rewrites(x, q, n) BY <1>5, <2>1, <2>5, <2>6, <2>7 DEF Rewrites
  <2>9. /\ OwnedInv'
        /\ Owned!Held' = [Owned!Held EXCEPT ![x] = IF n = 0 THEN << >> ELSE SubSeq(q, 1, n)]
    BY ONLY OwnedInv, <2>8, WrittenInPlace
  <2>10. (IF n = 0 THEN << >> ELSE SubSeq(q, 1, n)) = old \o data BY <2>5
  <2> QED BY ONLY <1>6, <2>9, <2>10, Zenon
<1>9. CASE ~(n <= b_capacity[x])
  <2>1. PICK s : s = Owned!Over(Owned!Zeros(n), 0, old) OBVIOUS
  <2>2. PICK q : q = Owned!Over(s, k, data) OBVIOUS
  <2>3. PICK a \in Owned!Unused : /\ begin' = [begin EXCEPT ![x] = a]
                                  /\ b_capacity' = [b_capacity EXCEPT ![x] = n]
                                  /\ heap' = Owned!With(Owned!Freed(x), a, q)
    BY <1>1, <1>2, <1>4, <1>9, <2>1, <2>2 DEF Owned!AppendBytes, Owned!Resized
  <2>4. PICK zeros \in Seq(ArrayBytes) : zeros = Owned!Zeros(n) /\ Len(zeros) = n BY ZerosAre
  <2>5. s \in Seq(ArrayBytes) /\ Len(s) = n /\ \A i \in 1..k : s[i] = old[i]
    <3>1. s = Owned!Over(zeros, 0, old) BY <2>1, <2>4
    <3>2. /\ s \in Seq(ArrayBytes) /\ Len(s) = n
          /\ \A i \in 1..n : s[i] = IF i > 0 /\ i <= 0 + Len(old) THEN old[i - 0] ELSE zeros[i]
      BY <1>3, <2>4, <3>1, OverIs, 0 \in Nat
    <3>3. \A i \in 1..k : i \in 1..n /\ i > 0 /\ i <= 0 + Len(old) /\ i - 0 = i BY <1>3, <1>4
    <3> QED BY <3>2, <3>3
  <2>6. /\ q \in Seq(ArrayBytes) /\ Len(q) = n /\ n \in 0..Len(q)
        /\ (IF n = 0 THEN << >> ELSE SubSeq(q, 1, n)) = old \o data
    <3>1. s \in Seq(ArrayBytes) /\ n <= Len(s) /\ \A i \in 1..k : s[i] = old[i] BY <2>5
    <3>2. /\ q \in Seq(ArrayBytes) /\ Len(q) = Len(s)
          /\ (IF n = 0 THEN << >> ELSE SubSeq(q, 1, n)) = old \o data
      BY <1>7, <2>2, <3>1
    <3>3. Len(q) = n BY <2>5, <3>2
    <3>4. n \in 0..Len(q) BY <3>3
    <3> QED BY <3>2, <3>3, <3>4
  <2>7. exists' \subseteq Buffers /\ exists \ {x} \subseteq exists' /\ x \in exists' BY <1>5
  <2>8. b_capacity' = [b_capacity EXCEPT ![x] = Len(q)] BY <2>3, <2>6
  <2>9. Refills(x, a, q, n) BY <1>5, <2>3, <2>6, <2>7, <2>8 DEF Refills
  <2>10. /\ OwnedInv'
         /\ Owned!Held' = [Owned!Held EXCEPT ![x] = IF n = 0 THEN << >> ELSE SubSeq(q, 1, n)]
    BY ONLY OwnedInv, <2>9, FreshHolds
  <2>11. (IF n = 0 THEN << >> ELSE SubSeq(q, 1, n)) = old \o data BY <2>6
  <2> QED BY ONLY <1>6, <2>10, <2>11, Zenon
<1> QED BY <1>8, <1>9

\* Clear forgets the bytes.
LEMMA ClearHolds ==
  ASSUME OwnedInv, NEW x \in Buffers, Owned!Clear(x)
  PROVE  OwnedInv' /\ Owned!Held' = [Owned!Held EXCEPT ![x] = << >>]
<1>1. PICK s : s = heap[begin[x]] OBVIOUS
<1>2. PICK q : q = Owned!Over(s, 0, Owned!Zeros(filled[x])) OBVIOUS
<1>3. /\ x \in exists /\ begin[x] # NoArray /\ heap' = [heap EXCEPT ![begin[x]] = q]
      /\ filled' = [filled EXCEPT ![x] = 0]
      /\ begin' = begin /\ b_capacity' = b_capacity /\ exists' = exists
  BY <1>1, <1>2 DEF Owned!Clear
<1>4. s \in Seq(ArrayBytes) /\ Len(s) = b_capacity[x] /\ filled[x] \in Nat BY <1>1, <1>3, OwnArray
<1>5. PICK zeros \in Seq(ArrayBytes) : zeros = Owned!Zeros(filled[x]) BY <1>4, ZerosAre
<1>6. q = Owned!Over(s, 0, zeros) BY <1>2, <1>5
<1>7. q \in Seq(ArrayBytes) /\ Len(q) = b_capacity[x]
  BY <1>4, <1>5, <1>6, OverIs, 0 \in Nat
<1>8. 0 \in 0..Len(q) BY <1>7
<1>9. Rewrites(x, q, 0) BY <1>3, <1>7, <1>8 DEF Rewrites
<1>10. /\ OwnedInv'
       /\ Owned!Held' = [Owned!Held EXCEPT ![x] = IF 0 = 0 THEN << >> ELSE SubSeq(q, 1, 0)]
  BY ONLY OwnedInv, <1>9, WrittenInPlace
<1> QED BY ONLY <1>10

\* A move takes the array along and leaves the source with none.  What the
\* target of a move assignment had is lost, but nobody else's.
LEMMA TakeHolds ==
  ASSUME OwnedInv, NEW x \in Buffers, NEW y \in Buffers,
         Owned!MoveConstruct(x, y) \/ Owned!MoveAssign(x, y)
  PROVE  /\ OwnedInv'
         /\ Owned!Held' = [Owned!Held EXCEPT ![x] = Owned!Held[y], ![y] = << >>]
<1>1. /\ x # y /\ exists' \subseteq Buffers /\ exists \subseteq exists' /\ x \in exists'
      /\ y \in exists' /\ heap' = heap /\ Owned!Take(x, y)
  BY DEF Owned!MoveConstruct, Owned!MoveAssign, OwnedInv
<1>2. /\ begin' \in [Buffers -> Arrays \cup {NoArray}]
      /\ b_capacity' \in [Buffers -> Nat] /\ filled' \in [Buffers -> Nat]
  BY <1>1 DEF OwnedInv, Owned!Take
<1>3. /\ begin'[x] = begin[y] /\ b_capacity'[x] = b_capacity[y] /\ filled'[x] = filled[y]
      /\ begin'[y] = NoArray /\ b_capacity'[y] = 0 /\ filled'[y] = 0
      /\ \A z \in Buffers \ {x, y} : /\ begin'[z] = begin[z] /\ b_capacity'[z] = b_capacity[z]
                                     /\ filled'[z] = filled[z]
  BY <1>1 DEF OwnedInv, Owned!Take
<1>4. \A z \in Buffers \ exists' : begin'[z] = NoArray
  BY <1>1, <1>3 DEF OwnedInv
<1>5. ASSUME NEW w \in Buffers, NEW z \in Buffers, begin'[w] = begin'[z], begin'[w] # NoArray
      PROVE  w = z
  <2>1. w # y /\ z # y BY <1>3, <1>5
  <2>2. CASE w = x /\ z # x
    <3>1. begin[y] = begin[z] /\ begin[y] # NoArray BY <1>3, <1>5, <2>1, <2>2
    <3> QED BY <2>1, <3>1, OwnArray
  <2>3. CASE w # x /\ z = x
    <3>1. begin[w] = begin[y] /\ begin[w] # NoArray BY <1>3, <1>5, <2>1, <2>3
    <3> QED BY <2>1, <3>1, OwnArray
  <2>4. CASE w # x /\ z # x
    <3>1. begin[w] = begin[z] /\ begin[w] # NoArray BY <1>3, <1>5, <2>1, <2>4
    <3> QED BY <3>1, OwnArray
  <2> QED BY <2>2, <2>3, <2>4
<1>6. ASSUME NEW z \in Buffers
      PROVE  IF begin'[z] = NoArray THEN b_capacity'[z] = 0 /\ filled'[z] = 0
             ELSE /\ begin'[z] \in DOMAIN heap /\ Len(heap[begin'[z]]) = b_capacity'[z]
                  /\ filled'[z] <= b_capacity'[z]
  <2>1. CASE z = x BY <1>3, <2>1, OwnArray
  <2>2. CASE z = y BY <1>3, <2>2
  <2>3. CASE z # x /\ z # y BY <1>3, <2>3, OwnArray
  <2> QED BY <2>1, <2>2, <2>3
<1>7. OwnedInv'
  BY <1>1, <1>2, <1>4, <1>5, <1>6 DEF OwnedInv, Owned!ArraysHaveOneOwner, Owned!Allocated
<1>8. \A z \in Buffers \ {x, y} : Owned!Holds(z)' = Owned!Holds(z)
  BY <1>1, <1>3 DEF Owned!Holds
<1>9. Owned!Holds(x)' = Owned!Holds(y) /\ Owned!Holds(y)' = << >>
  BY <1>1, <1>3 DEF Owned!Holds
<1> QED BY <1>1, <1>7, <1>8, <1>9 DEF Owned!Held

\* What is assigned or appended is a sequence of bytes.
LEMMA DataIsBytes ==
  ASSUME NEW data \in Owned!Data
  PROVE  data \in Seq(ArrayBytes) /\ Len(data) # 0
<1>1. PICK n \in 1..2 : data \in [1..n -> ArrayBytes] BY DEF Owned!Data
<1>2. n \in Nat /\ n # 0 BY <1>1
<1> QED BY <1>1, <1>2

\* Every operation of a Buffer keeps the ownership.
LEMMA OwnedSteps ==
  ASSUME OwnedInv, Owned!Next PROVE OwnedInv'
<1>1. PICK x \in Buffers :
        \/ \E c \in ArrayCapacities : Owned!Create(x, c) \/ Owned!ReSize(x, c)
        \/ \E data \in Owned!Data : Owned!Assign(x, data) \/ Owned!AppendBytes(x, data)
        \/ Owned!Clear(x) \/ Owned!Destroy(x)
        \/ \E y \in Buffers : \/ Owned!CopyConstruct(x, y) \/ Owned!CopyAssign(x, y)
                              \/ Owned!MoveConstruct(x, y) \/ Owned!MoveAssign(x, y)
  BY DEF Owned!Next
<1>2. ASSUME NEW c \in ArrayCapacities, Owned!Create(x, c) \/ Owned!ReSize(x, c) PROVE OwnedInv'
  BY <1>2, CreateHolds, ReSizeHolds, ArraysAssumption
<1>3. ASSUME NEW data \in Owned!Data, Owned!Assign(x, data) \/ Owned!AppendBytes(x, data)
      PROVE  OwnedInv'
  BY <1>3, DataIsBytes, AssignHolds, AppendHolds
<1>4. CASE Owned!Clear(x) \/ Owned!Destroy(x)
  BY <1>4, ClearHolds, DestroyHolds
<1>5. ASSUME NEW y \in Buffers, Owned!CopyConstruct(x, y) \/ Owned!CopyAssign(x, y) PROVE OwnedInv'
  BY <1>5, CopyHolds
<1>6. ASSUME NEW y \in Buffers, Owned!MoveConstruct(x, y) \/ Owned!MoveAssign(x, y) PROVE OwnedInv'
  BY <1>6, TakeHolds
<1> QED BY <1>1, <1>2, <1>3, <1>4, <1>5, <1>6

\* Owned by the beginning, and untouched by the other subjects.
LEMMA OwnedInvariant == BaseSpec => []OwnedInv
<1>1. BaseInit => OwnedInv
  BY ArraysAssumption
  DEF BaseInit, Owned!Init, OwnedInv, Owned!ArraysHaveOneOwner, Owned!Allocated
<1>2. OwnedInv /\ [BaseNext]_baseVars => OwnedInv'
  <2> SUFFICES ASSUME OwnedInv, [BaseNext]_baseVars PROVE OwnedInv'
    OBVIOUS
  <2>1. CASE UNCHANGED bufferVars
    BY <2>1 DEF bufferVars, OwnedInv, Owned!ArraysHaveOneOwner, Owned!Allocated
  <2>2. CASE Owned!Next BY <2>2, OwnedSteps
  <2>3. UNCHANGED bufferVars \/ Owned!Next
    BY DEF BaseNext, UsePool, UseRing, UseStream, UseDate, UseTimer, UseBuffer, UseSlots, baseVars
  <2> QED BY <2>1, <2>2, <2>3
<1> QED BY <1>1, <1>2, PTL DEF BaseSpec

\* Every operation does to the bytes what it should and to no others
\* (Buffer.cpp:15-118).
LEMMA ValuesKept ==
  ASSUME OwnedInv PROVE Owned!ValueStep
<1> SUFFICES ASSUME NEW x \in Buffers
    PROVE /\ \A data \in Owned!Data :
               /\ Owned!Assign(x, data) => Owned!Held' = [Owned!Held EXCEPT ![x] = data]
               /\ Owned!AppendBytes(x, data) => Owned!Held' = [Owned!Held EXCEPT ![x] = @ \o data]
          /\ \A c \in ArrayCapacities :
               /\ Owned!ReSize(x, c) => Owned!Held' = Owned!Held
               /\ Owned!Create(x, c) => Owned!Held' = [Owned!Held EXCEPT ![x] = << >>]
          /\ Owned!Clear(x) \/ Owned!Destroy(x)
               => Owned!Held' = [Owned!Held EXCEPT ![x] = << >>]
          /\ \A y \in Buffers :
               /\ Owned!CopyConstruct(x, y) \/ Owned!CopyAssign(x, y)
                    => Owned!Held' = [Owned!Held EXCEPT ![x] = << >>]
               /\ Owned!MoveConstruct(x, y) \/ Owned!MoveAssign(x, y)
                    => Owned!Held' = [Owned!Held EXCEPT ![x] = Owned!Held[y], ![y] = << >>]
  BY Zenon DEF Owned!ValueStep
<1>1. ASSUME NEW data \in Owned!Data
      PROVE  /\ Owned!Assign(x, data) => Owned!Held' = [Owned!Held EXCEPT ![x] = data]
             /\ Owned!AppendBytes(x, data) => Owned!Held' = [Owned!Held EXCEPT ![x] = @ \o data]
  BY DataIsBytes, AssignHolds, AppendHolds
<1>2. ASSUME NEW c \in ArrayCapacities
      PROVE  /\ Owned!ReSize(x, c) => Owned!Held' = Owned!Held
             /\ Owned!Create(x, c) => Owned!Held' = [Owned!Held EXCEPT ![x] = << >>]
  BY ReSizeHolds, CreateHolds, ArraysAssumption
<1>3. Owned!Clear(x) \/ Owned!Destroy(x) => Owned!Held' = [Owned!Held EXCEPT ![x] = << >>]
  BY ClearHolds, DestroyHolds
<1>4. ASSUME NEW y \in Buffers
      PROVE  /\ Owned!CopyConstruct(x, y) \/ Owned!CopyAssign(x, y)
                  => Owned!Held' = [Owned!Held EXCEPT ![x] = << >>]
             /\ Owned!MoveConstruct(x, y) \/ Owned!MoveAssign(x, y)
                  => Owned!Held' = [Owned!Held EXCEPT ![x] = Owned!Held[y], ![y] = << >>]
  BY CopyHolds, TakeHolds
<1> QED BY <1>1, <1>2, <1>3, <1>4

(***************************************************************************)
(* Buffers are values for every number of objects, arrays, sizes and bytes *)
(* (Buffer.cpp:15-118).                                                    *)
(***************************************************************************)
THEOREM BuffersAreValues == BaseSpec => ObjectsAreValues
<1>1. OwnedInv /\ [BaseNext]_baseVars => [subject = "buffer" => Owned!ValueStep]_bufferVars
  BY ValuesKept
<1> QED BY <1>1, OwnedInvariant, PTL DEF BaseSpec, ObjectsAreValues

(***************************************************************************)
(* The manual pools.                                                       *)
(***************************************************************************)

ManualObjects == Groups \X Elements

\* While a manual pool lives nothing was deleted, what is queued is queued
\* once and nobody has it; a dead pool has nothing queued
\* (ObjectPool.hpp:203-276).
ManualInv ==
  /\ s1 \in Seq(ManualObjects)
  /\ s4 \subseteq ManualObjects
  /\ \A i, j \in 1..Len(s1) : s1[i] = s1[j] => i = j
  /\ \A i \in 1..Len(s1) : s1[i] \notin s4
  /\ s5 \in [ManualObjects -> 0..1]
  /\ IF s6 THEN \A o \in ManualObjects : s5[o] = 0 ELSE s1 = << >>
  /\ subject = "singles" => \A o \in s4 : s5[o] = 0

\* What a step of either kind of pool does: an object joins the queue, comes
\* back to it or leaves it in front, or the destructor deletes some of them,
\* of a pool of single objects those in the queue.
Joins(o) == /\ o \in ManualObjects /\ \A i \in 1..Len(s1) : s1[i] # o
            /\ s1' = Append(s1, o) /\ s4' = s4 \ {o}
            /\ s5' = s5 /\ s6' = s6
Leaves == /\ s1 # << >> /\ s1' = Tail(s1) /\ s4' = s4 \cup {Head(s1)}
          /\ s5' = s5 /\ s6' = s6
Dies(gone) == /\ subject = "singles" => gone = {s1[i] : i \in 1..Len(s1)}
              /\ s5' = [o \in ManualObjects |-> IF o \in gone THEN s5[o] + 1 ELSE s5[o]]
              /\ s1' = << >> /\ s4' = s4 /\ s6' = FALSE
ManualStep == /\ s6
              /\ \/ UNCHANGED <<s1, s4, s5, s6>>
                 \/ \E o : Joins(o)
                 \/ Leaves
                 \/ \E gone : Dies(gone)

LEMMA QueuedAre ==
  ASSUME ManualInv
  PROVE  /\ ManualArrays!Queued = {s1[i] : i \in 1..Len(s1)}
         /\ ManualSingles!Queued = {s1[i] : i \in 1..Len(s1)}
<1>1. DOMAIN s1 = 1..Len(s1) BY DEF ManualInv
<1> QED BY <1>1 DEF ManualArrays!Queued, ManualArrays!ToSet, ManualSingles!Queued, ManualSingles!ToSet

\* The pool of arrays takes such steps.
LEMMA ArraysStep ==
  ASSUME ManualInv, subject = "arrays", ManualArrays!Next PROVE ManualStep
<1>1. ManualArrays!Queued = {s1[i] : i \in 1..Len(s1)} BY QueuedAre
<1>2. ASSUME NEW a \in Groups, ManualArrays!SetArrayStartPtr(a)
      PROVE  UNCHANGED <<s1, s4, s5, s6>>
  BY <1>2 DEF ManualArrays!SetArrayStartPtr
<1>3. ASSUME NEW o \in ManualObjects, ManualArrays!Add(o) PROVE Joins(o)
  <2>1. /\ o \notin ManualArrays!Queued \cup s4 /\ s1' = Append(s1, o)
        /\ s4' = s4 /\ s5' = s5 /\ s6' = s6
    BY <1>3 DEF ManualArrays!Add
  <2>2. s4 = s4 \ {o} BY <2>1
  <2> QED BY <1>1, <2>1, <2>2 DEF Joins
<1>4. ASSUME NEW o \in ManualObjects, ManualArrays!Return(o) PROVE Joins(o)
  BY <1>4 DEF ManualArrays!Return, Joins, ManualInv
<1>5. ASSUME ManualArrays!Borrow PROVE Leaves \/ UNCHANGED <<s1, s4, s5, s6>>
  BY <1>5 DEF ManualArrays!Borrow, Leaves
<1>6. ASSUME ManualArrays!Destroy PROVE \E gone : Dies(gone)
  <2> DEFINE gone == {o \in ManualObjects : o[1] \in ManualArrays!ToSet(s2)}
  <2>1. Dies(gone)
    BY <1>6 DEF ManualArrays!Destroy, Dies, ManualArrays!Objects, ManualObjects
  <2> QED BY <2>1
<1> QED
  BY <1>2, <1>3, <1>4, <1>5, <1>6
  DEF ManualArrays!Next, ManualStep, ManualArrays!Objects, ManualObjects

\* So does the pool of single objects.
LEMMA SinglesStep ==
  ASSUME ManualInv, subject = "singles", ManualSingles!Next PROVE ManualStep
<1>1. ManualSingles!Queued = {s1[i] : i \in 1..Len(s1)} BY QueuedAre
<1>2. ASSUME NEW a \in Groups, ManualSingles!SetArrayStartPtr(a)
      PROVE  UNCHANGED <<s1, s4, s5, s6>>
  BY <1>2 DEF ManualSingles!SetArrayStartPtr
<1>3. ASSUME NEW o \in ManualObjects, ManualSingles!Add(o) PROVE Joins(o)
  <2>1. /\ o \notin ManualSingles!Queued \cup s4 /\ s1' = Append(s1, o)
        /\ s4' = s4 /\ s5' = s5 /\ s6' = s6
    BY <1>3 DEF ManualSingles!Add
  <2>2. s4 = s4 \ {o} BY <2>1
  <2> QED BY <1>1, <2>1, <2>2 DEF Joins
<1>4. ASSUME NEW o \in ManualObjects, ManualSingles!Return(o) PROVE Joins(o)
  BY <1>4 DEF ManualSingles!Return, Joins, ManualInv
<1>5. ASSUME ManualSingles!Borrow PROVE Leaves \/ UNCHANGED <<s1, s4, s5, s6>>
  BY <1>5 DEF ManualSingles!Borrow, Leaves
<1>6. ASSUME ManualSingles!Destroy PROVE \E gone : Dies(gone)
  <2> DEFINE gone == {s1[i] : i \in 1..Len(s1)}
  <2>1. Dies(gone)
    <3>1. /\ s5' = [o \in ManualObjects |-> IF o \in ManualSingles!Queued
                                            THEN s5[o] + 1 ELSE s5[o]]
          /\ s1' = << >> /\ s4' = s4 /\ s6' = FALSE
      BY <1>6 DEF ManualSingles!Destroy, ManualSingles!Objects, ManualObjects
    <3> QED BY <1>1, <3>1 DEF Dies
  <2> QED BY <2>1
<1> QED
  BY <1>2, <1>3, <1>4, <1>5, <1>6
  DEF ManualSingles!Next, ManualStep, ManualSingles!Objects, ManualObjects

\* And such a step keeps the invariant.
LEMMA ManualKept ==
  ASSUME ManualInv, ManualStep, UNCHANGED subject PROVE ManualInv'
<1> USE DEF ManualInv
<1>1. CASE UNCHANGED <<s1, s4, s5, s6>> BY <1>1
<1>2. ASSUME NEW o, Joins(o) PROVE ManualInv'
  <2>1. /\ o \in ManualObjects /\ \A i \in 1..Len(s1) : s1[i] # o
        /\ s1' = Append(s1, o) /\ s4' = s4 \ {o} /\ s5' = s5 /\ s6' = s6
    BY <1>2 DEF Joins
  <2>2. /\ s1' \in Seq(ManualObjects) /\ Len(s1) \in Nat /\ Len(s1') = Len(s1) + 1
        /\ \A i \in 1..Len(s1) : s1'[i] = s1[i]
        /\ s1'[Len(s1) + 1] = o
    BY <2>1
  <2>3. \A i \in 1..Len(s1') : i \in 1..Len(s1) \/ i = Len(s1) + 1 BY <2>2
  <2>4. \A i, j \in 1..Len(s1') : s1'[i] = s1'[j] => i = j BY <2>1, <2>2, <2>3
  <2>5. \A i \in 1..Len(s1') : s1'[i] \notin s4' BY <2>1, <2>2, <2>3
  <2>6. s6 BY DEF ManualStep
  <2> QED BY <2>1, <2>2, <2>4, <2>5, <2>6
<1>3. CASE Leaves
  <2>1. /\ s1 # << >> /\ s1' = Tail(s1) /\ s4' = s4 \cup {s1[1]} /\ s5' = s5 /\ s6' = s6
    BY <1>3 DEF Leaves
  <2>2. /\ s1' \in Seq(ManualObjects) /\ Len(s1) \in Nat /\ Len(s1) # 0 /\ Len(s1') = Len(s1) - 1
        /\ \A i \in 1..Len(s1') : i + 1 \in 1..Len(s1) /\ i + 1 # 1 /\ s1'[i] = s1[i + 1]
        /\ 1 \in 1..Len(s1) /\ s1[1] \in ManualObjects
    BY <2>1
  <2>3. \A i, j \in 1..Len(s1') : s1'[i] = s1'[j] => i = j
    <3>1. \A i, j \in 1..Len(s1') : s1'[i] = s1'[j] => i + 1 = j + 1 BY <2>2
    <3> QED BY <2>2, <3>1
  <2>4. \A i \in 1..Len(s1') : s1'[i] \notin s4' BY <2>1, <2>2
  <2>5. s6 BY DEF ManualStep
  <2> QED BY <2>1, <2>2, <2>3, <2>4, <2>5
<1>4. ASSUME NEW gone, Dies(gone) PROVE ManualInv'
  <2>1. /\ subject = "singles" => gone = {s1[i] : i \in 1..Len(s1)}
        /\ s5' = [o \in ManualObjects |-> IF o \in gone THEN s5[o] + 1 ELSE s5[o]]
        /\ s1' = << >> /\ s4' = s4 /\ s6' = FALSE
    BY <1>4 DEF Dies
  <2>2. \A o \in ManualObjects : s5[o] = 0 BY DEF ManualStep
  <2>3. s5' \in [ManualObjects -> 0..1] BY <2>1, <2>2
  <2>4. subject' = "singles" => \A o \in s4' : s5'[o] = 0
    <3>1. subject = "singles" => \A o \in s4 : o \notin gone BY <2>1
    <3> QED BY <2>1, <2>2, <3>1
  <2> QED BY <2>1, <2>3, <2>4
<1> QED BY <1>1, <1>2, <1>3, <1>4 DEF ManualStep

\* Nothing queued twice, nothing deleted twice.
LEMMA ManualHolds ==
  ASSUME ManualInv
  PROVE  /\ ManualArrays!DeletedOnce
         /\ subject = "singles" => ManualSingles!DeletedOnce
<1>1. DOMAIN s1 = 1..Len(s1) BY DEF ManualInv
<1>2. \A i, j \in DOMAIN s1 : s1[i] = s1[j] => i = j BY <1>1 DEF ManualInv
<1>3. /\ ManualArrays!Queued = {s1[i] : i \in 1..Len(s1)}
      /\ ManualSingles!Queued = {s1[i] : i \in 1..Len(s1)}
  BY QueuedAre
<1>4. {s1[i] : i \in 1..Len(s1)} \cap s4 = {} BY DEF ManualInv
<1>5. \A o \in ManualObjects : s5[o] <= 1 BY DEF ManualInv
<1>6. \A o \in {s1[i] : i \in 1..Len(s1)} : s5[o] = 0
  <2>1. \A i \in 1..Len(s1) : s1[i] \in ManualObjects BY DEF ManualInv
  <2>2. CASE s6 BY <2>1, <2>2 DEF ManualInv
  <2>3. CASE ~s6
    <3>1. 1..Len(s1) = {} BY <2>3 DEF ManualInv
    <3> QED BY <3>1
  <2> QED BY <2>2, <2>3
<1>7. subject = "singles" => \A o \in s4 : s5[o] = 0 BY DEF ManualInv
<1>8. ManualArrays!DeletedOnce
  BY <1>2, <1>3, <1>4, <1>5, <1>6
  DEF ManualArrays!DeletedOnce, ManualArrays!IsInjective, ManualArrays!Objects, ManualObjects
<1>9. subject = "singles" => ManualSingles!DeletedOnce
  BY <1>2, <1>3, <1>4, <1>5, <1>6, <1>7
  DEF ManualSingles!DeletedOnce, ManualSingles!IsInjective, ManualSingles!Objects, ManualObjects
<1> QED BY <1>8, <1>9

(***************************************************************************)
(* The blocking sockets.                                                   *)
(***************************************************************************)

SocketStates == {"closed", "open", "bound", "listening", "connected", "down"}

\* A handle that an object keeps is open, the object is there and nobody else
\* has it; one that Accept returned is open; and one that is open is had
\* (Socket.cpp:6-77).
SocketsInv ==
  /\ s1 \subseteq SocketObjects
  /\ s2 \in [SocketObjects -> Handles \cup {Invalid}]
  /\ s3 \in [Handles -> SocketStates]
  /\ s4 \subseteq Handles
  /\ \A o \in SocketObjects :
       s2[o] # Invalid => o \in s1 /\ s3[s2[o]] # "closed" /\ s2[o] \notin s4
  /\ \A o, p \in SocketObjects : s2[o] = s2[p] /\ s2[o] # Invalid => o = p
  /\ \A h \in s4 : s3[h] # "closed"
  /\ \A h \in Handles : s3[h] # "closed" => h \in s4 \/ \E o \in SocketObjects : s2[o] = h

\* One count of owners.
LEMMA SocketsHold ==
  ASSUME SocketsInv PROVE Blocking!HandlesHaveOneOwner
<1> SUFFICES ASSUME NEW h \in Handles
    PROVE Cardinality({o \in {q \in SocketObjects : s2[q] = h} : o \in s1})
            + (IF h \in s4 THEN 1 ELSE 0)
          = IF s3[h] = "closed" THEN 0 ELSE 1
  <2>1. ASSUME NEW S PROVE Blocking!Cardinality(S) = Cardinality(S)
    BY DEF Blocking!Cardinality, Cardinality
  <2> QED BY <2>1 DEF Blocking!HandlesHaveOneOwner, Blocking!Quantify
<1> DEFINE owners == {o \in {q \in SocketObjects : s2[q] = h} : o \in s1}
<1>1. h # Invalid BY SocketsAssumption
<1>2. CASE \E o \in SocketObjects : s2[o] = h
  <2>1. PICK o \in SocketObjects : s2[o] = h BY <1>2
  <2>2. owners = {o} BY <1>1, <2>1 DEF SocketsInv
  <2>3. Cardinality(owners) = 1 BY <2>2, FS_Singleton
  <2>4. h \notin s4 /\ s3[h] # "closed" BY <1>1, <2>1 DEF SocketsInv
  <2> QED BY <2>3, <2>4
<1>3. CASE ~\E o \in SocketObjects : s2[o] = h
  <2>1. owners = {} BY <1>3
  <2>2. Cardinality(owners) = 0 BY <2>1, FS_EmptySet
  <2>3. h \in s4 <=> s3[h] # "closed" BY <1>3 DEF SocketsInv
  <2> QED BY <2>2, <2>3
<1> QED BY <1>2, <1>3

\* An object gets a handle that was closed.
Opens(o, h, s) ==
  /\ o \in s1 /\ s2[o] = Invalid /\ h \in Handles /\ s3[h] = "closed"
  /\ s \in SocketStates /\ s # "closed"
  /\ s2' = [s2 EXCEPT ![o] = h] /\ s3' = [s3 EXCEPT ![h] = s] /\ s1' = s1 /\ s4' = s4

LEMMA OpensKeeps ==
  ASSUME SocketsInv, NEW o, NEW h, NEW s, Opens(o, h, s) PROVE SocketsInv'
<1>1. /\ o \in SocketObjects /\ o \in s1 /\ s2[o] = Invalid /\ h \in Handles /\ s3[h] = "closed"
      /\ s1' = s1 /\ s4' = s4 /\ h # Invalid
  BY SocketsAssumption DEF Opens, SocketsInv
<1>2. /\ s2' \in [SocketObjects -> Handles \cup {Invalid}] /\ s2'[o] = h
      /\ \A p \in SocketObjects \ {o} : s2'[p] = s2[p]
  BY <1>1 DEF Opens, SocketsInv
<1>3. /\ s3' \in [Handles -> SocketStates] /\ s3'[h] # "closed"
      /\ \A k \in Handles \ {h} : s3'[k] = s3[k]
  BY <1>1 DEF Opens, SocketsInv
<1>4. \A p \in SocketObjects : s2[p] # h BY <1>1 DEF SocketsInv
<1>5. \A p \in SocketObjects :
        s2'[p] # Invalid => p \in s1' /\ s3'[s2'[p]] # "closed" /\ s2'[p] \notin s4'
  BY <1>1, <1>2, <1>3 DEF SocketsInv
<1>6. \A p, q \in SocketObjects : s2'[p] = s2'[q] /\ s2'[p] # Invalid => p = q
  BY <1>2, <1>4 DEF SocketsInv
<1>7. \A k \in s4' : s3'[k] # "closed" BY <1>1, <1>3 DEF SocketsInv
<1>8. ASSUME NEW k \in Handles, s3'[k] # "closed"
      PROVE  k \in s4' \/ \E p \in SocketObjects : s2'[p] = k
  <2>1. CASE k = h BY <1>1, <1>2, <2>1
  <2>2. CASE k # h
    <3>1. s3[k] # "closed" BY <1>3, <1>8, <2>2
    <3>2. k # Invalid BY SocketsAssumption
    <3> QED BY <1>1, <1>2, <3>1, <3>2 DEF SocketsInv
  <2> QED BY <2>1, <2>2
<1> QED BY <1>1, <1>2, <1>3, <1>5, <1>6, <1>7, <1>8 DEF SocketsInv

\* An object gives up the handle it has, if it has one.
LEMMA ClosedKeeps ==
  ASSUME SocketsInv, NEW o \in SocketObjects, Blocking!Closed(o),
         s1' \subseteq s1, s1 \ {o} \subseteq s1', s4' = s4
  PROVE  SocketsInv'
<1>1. /\ s2' \in [SocketObjects -> Handles \cup {Invalid}] /\ s2'[o] = Invalid
      /\ \A p \in SocketObjects \ {o} : s2'[p] = s2[p]
  BY DEF Blocking!Closed, SocketsInv
<1>2. /\ s3' \in [Handles -> SocketStates]
      /\ s2[o] # Invalid => s3'[s2[o]] = "closed"
      /\ \A k \in Handles : k # s2[o] => s3'[k] = s3[k]
  <2>1. CASE s2[o] = Invalid
    BY <2>1, SocketsAssumption DEF Blocking!Closed, SocketsInv
  <2>2. CASE s2[o] # Invalid
    <3>1. s2[o] \in Handles /\ s3' = [s3 EXCEPT ![s2[o]] = "closed"]
      BY <2>2 DEF Blocking!Closed, Blocking!Becomes, SocketsInv
    <3>2. PICK h \in Handles, c \in SocketStates : h = s2[o] /\ c = "closed" BY <3>1 DEF SocketStates
    <3>3. s3 \in [Handles -> SocketStates] /\ s3' = [s3 EXCEPT ![h] = c] BY <3>1, <3>2 DEF SocketsInv
    <3>4. s3' \in [Handles -> SocketStates] /\ s3'[h] = c /\ \A k \in Handles : k # h => s3'[k] = s3[k]
      BY <3>3
    <3> QED BY <3>2, <3>4
  <2> QED BY <2>1, <2>2
<1>3. ASSUME NEW p \in SocketObjects, s2'[p] # Invalid
      PROVE  p \in s1' /\ s3'[s2'[p]] # "closed" /\ s2'[p] \notin s4'
  <2>1. p # o /\ s2'[p] = s2[p] BY <1>1, <1>3
  <2>2. s2[p] # Invalid /\ s2[p] # s2[o] /\ s2[p] \in Handles BY <1>3, <2>1 DEF SocketsInv
  <2> QED BY <1>2, <2>1, <2>2 DEF SocketsInv
<1>4. \A p, q \in SocketObjects : s2'[p] = s2'[q] /\ s2'[p] # Invalid => p = q
  BY <1>1 DEF SocketsInv
<1>5. \A k \in s4' : s3'[k] # "closed"
  <2>1. \A k \in s4 : k # s2[o] \/ k = Invalid BY DEF SocketsInv
  <2>2. \A k \in s4 : k # s2[o] BY <2>1, SocketsAssumption DEF SocketsInv
  <2> QED BY <1>2, <2>2 DEF SocketsInv
<1>6. ASSUME NEW k \in Handles, s3'[k] # "closed"
      PROVE  k \in s4' \/ \E p \in SocketObjects : s2'[p] = k
  <2>1. k # Invalid BY SocketsAssumption
  <2>2. k # s2[o] BY <1>2, <1>6, <2>1
  <2>3. k \in s4 \/ \E p \in SocketObjects : s2[p] = k BY <1>2, <1>6, <2>2 DEF SocketsInv
  <2> QED BY <1>1, <2>2, <2>3
<1> QED BY <1>1, <1>2, <1>3, <1>4, <1>5, <1>6 DEF SocketsInv

\* A handle that an object has changes its state without being closed.
LEMMA MovesKeeps ==
  ASSUME SocketsInv, NEW o \in SocketObjects, s2[o] # Invalid,
         NEW s \in SocketStates, s # "closed", Blocking!Becomes(o, s), UNCHANGED <<s1, s2, s4>>
  PROVE  SocketsInv'
<1>1. s2[o] \in Handles /\ s3[s2[o]] # "closed" BY DEF SocketsInv
<1>2. /\ s3' \in [Handles -> SocketStates]
      /\ \A k \in Handles : s3'[k] # "closed" <=> s3[k] # "closed"
  BY <1>1 DEF Blocking!Becomes, SocketsInv
<1>3. \A p \in SocketObjects : s2[p] # Invalid => s2[p] \in Handles BY DEF SocketsInv
<1> QED BY <1>2, <1>3 DEF SocketsInv

\* Nothing happens to who has what.
LEMMA QuietKeeps ==
  ASSUME SocketsInv, UNCHANGED <<s1, s2, s3, s4>> PROVE SocketsInv'
BY DEF SocketsInv

\* socket(), for an object that has no handle: a new one or none.
LEMMA NewHandleKeeps ==
  ASSUME SocketsInv, NEW o \in s1, s2[o] = Invalid, NEW s \in SocketStates, s # "closed",
         Blocking!NewHandle(o, s), UNCHANGED <<s1, s4>>
  PROVE  SocketsInv'
<1>1. ASSUME NEW h \in Handles, s3[h] = "closed", s2' = [s2 EXCEPT ![o] = h],
             s3' = [s3 EXCEPT ![h] = s]
      PROVE  SocketsInv'
  <2>1. Opens(o, h, s) BY <1>1 DEF Opens
  <2> QED BY <2>1, OpensKeeps
<1>2. CASE s2' = [s2 EXCEPT ![o] = Invalid] /\ s3' = s3
  <2>1. s2' = s2 BY <1>2 DEF SocketsInv
  <2> QED BY <1>2, <2>1, QuietKeeps
<1> QED BY <1>1, <1>2 DEF Blocking!NewHandle

\* Each operation of an object keeps who has what: those that may open a
\* handle,
LEMMA OpeningKeeps ==
  ASSUME SocketsInv, NEW o \in s1,
         Blocking!Create(o) \/ Blocking!Bind(o) \/ Blocking!Connect(o)
  PROVE  SocketsInv'
<1>1. ASSUME s2[o] # Invalid PROVE SocketsInv'
  <2>1. o \in SocketObjects BY DEF SocketsInv
  <2>2. CASE UNCHANGED <<s1, s2, s3, s4>> BY <2>2, QuietKeeps
  <2>3. CASE Blocking!Becomes(o, "connected") /\ UNCHANGED <<s1, s2, s4>>
    <3>1. "connected" \in SocketStates /\ "connected" # "closed" BY DEF SocketStates
    <3> QED BY <1>1, <2>1, <2>3, <3>1, MovesKeeps
  <2>4. \/ UNCHANGED <<s1, s2, s3, s4>>
        \/ Blocking!Becomes(o, "connected") /\ UNCHANGED <<s1, s2, s4>>
    BY <1>1 DEF Blocking!Create, Blocking!Bind, Blocking!Connect
  <2> QED BY <2>2, <2>3, <2>4
<1>2. ASSUME s2[o] = Invalid PROVE SocketsInv'
  <2>1. \E s \in {"open", "bound", "connected"} :
          Blocking!NewHandle(o, s) /\ UNCHANGED <<s1, s4>>
    BY <1>2 DEF Blocking!Create, Blocking!Bind, Blocking!Connect
  <2>2. PICK s \in SocketStates : s # "closed" /\ Blocking!NewHandle(o, s) /\ UNCHANGED <<s1, s4>>
    BY <2>1 DEF SocketStates
  <2> QED BY <1>2, <2>2, NewHandleKeeps
<1> QED BY <1>1, <1>2

\* those that close it,
LEMMA ClosingKeeps ==
  ASSUME SocketsInv, NEW o \in s1, Blocking!Close(o) \/ Blocking!Destroy(o)
  PROVE  SocketsInv'
<1>1. /\ o \in SocketObjects /\ Blocking!Closed(o)
      /\ s1' \subseteq s1 /\ s1 \ {o} \subseteq s1' /\ s4' = s4
  BY DEF Blocking!Close, Blocking!Destroy, SocketsInv
<1> QED BY <1>1, ClosedKeeps

\* those that change the state of the handle, or nothing,
LEMMA UsingKeeps ==
  ASSUME SocketsInv, NEW o \in s1, NEW size,
         \/ Blocking!ShutDown(o) \/ Blocking!Listen(o) \/ Blocking!Transfer(o)
         \/ Blocking!GetSendBufferSize(o) \/ Blocking!SetSendBufferSize(o, size)
  PROVE  SocketsInv'
<1>1. o \in SocketObjects BY DEF SocketsInv
<1>2. CASE UNCHANGED <<s1, s2, s3, s4>> BY <1>2, QuietKeeps
<1>3. ASSUME NEW s \in {"down", "listening"}, s2[o] # Invalid, Blocking!Becomes(o, s),
             UNCHANGED <<s1, s2, s4>>
      PROVE  SocketsInv'
  <2>1. s \in SocketStates /\ s # "closed" BY <1>3 DEF SocketStates
  <2> QED BY <1>1, <1>3, <2>1, MovesKeeps
<1>4. \/ UNCHANGED <<s1, s2, s3, s4>>
      \/ \E s \in {"down", "listening"} :
           s2[o] # Invalid /\ Blocking!Becomes(o, s) /\ UNCHANGED <<s1, s2, s4>>
  BY DEF Blocking!ShutDown, Blocking!Listen, Blocking!Transfer, Blocking!GetSendBufferSize,
         Blocking!SetSendBufferSize, Blocking!Own
<1> QED BY <1>2, <1>3, <1>4

\* and Accept, whose handle is the caller's.
LEMMA AcceptKeeps ==
  ASSUME SocketsInv, NEW o \in s1, Blocking!Accept(o) PROVE SocketsInv'
<1>1. CASE UNCHANGED <<s1, s2, s3, s4>> BY <1>1, QuietKeeps
<1>2. ASSUME NEW h \in Handles, s3[h] = "closed", s3' = [s3 EXCEPT ![h] = "connected"],
             s4' = s4 \cup {h}, UNCHANGED <<s1, s2>>
      PROVE  SocketsInv'
  <2>1. PICK c \in SocketStates : c = "connected" /\ c # "closed" BY DEF SocketStates
  <2>2. s3 \in [Handles -> SocketStates] /\ s3' = [s3 EXCEPT ![h] = c] BY <1>2, <2>1 DEF SocketsInv
  <2>3. /\ s3' \in [Handles -> SocketStates] /\ s3'[h] # "closed"
        /\ \A k \in Handles \ {h} : s3'[k] = s3[k]
    BY <2>1, <2>2
  <2>4. \A p \in SocketObjects : s2[p] # Invalid => s2[p] \in Handles \ {h} BY <1>2 DEF SocketsInv
  <2> QED BY <1>2, <2>3, <2>4 DEF SocketsInv
<1>3. \/ UNCHANGED <<s1, s2, s3, s4>>
      \/ \E h \in Handles : /\ s3[h] = "closed" /\ s3' = [s3 EXCEPT ![h] = "connected"]
                            /\ s4' = s4 \cup {h} /\ UNCHANGED <<s1, s2>>
  BY DEF Blocking!Accept
<1> QED BY <1>1, <1>2, <1>3

\* An object is constructed with no handle, or with one that Accept returned.
LEMMA ConstructKeeps ==
  ASSUME SocketsInv, NEW o \in SocketObjects,
         Blocking!Construct(o) \/ \E h \in Handles : Blocking!ConstructFrom(o, h)
  PROVE  SocketsInv'
<1>1. CASE Blocking!Construct(o)
  BY <1>1 DEF Blocking!Construct, SocketsInv
<1>2. ASSUME NEW h \in Handles, Blocking!ConstructFrom(o, h) PROVE SocketsInv'
  <2>1. /\ o \notin s1 /\ h \in s4 /\ s1' = s1 \cup {o} /\ s2' = [s2 EXCEPT ![o] = h]
        /\ s4' = s4 \ {h} /\ s3' = s3
    BY <1>2 DEF Blocking!ConstructFrom
  <2>2. /\ s2' \in [SocketObjects -> Handles \cup {Invalid}] /\ s2'[o] = h
        /\ \A p \in SocketObjects \ {o} : s2'[p] = s2[p]
    BY <2>1 DEF SocketsInv
  <2>3. s2[o] = Invalid /\ h # Invalid /\ s3[h] # "closed" /\ \A p \in SocketObjects : s2[p] # h
    BY <2>1, SocketsAssumption DEF SocketsInv
  <2>4. \A p \in SocketObjects :
          s2'[p] # Invalid => p \in s1' /\ s3'[s2'[p]] # "closed" /\ s2'[p] \notin s4'
    BY <2>1, <2>2, <2>3 DEF SocketsInv
  <2>5. \A p, q \in SocketObjects : s2'[p] = s2'[q] /\ s2'[p] # Invalid => p = q
    BY <2>2, <2>3 DEF SocketsInv
  <2>6. ASSUME NEW k \in Handles, s3'[k] # "closed"
        PROVE  k \in s4' \/ \E p \in SocketObjects : s2'[p] = k
    <3>1. CASE k = h BY <2>2, <3>1
    <3>2. CASE k # h
      <4>1. k # Invalid BY SocketsAssumption
      <4> QED BY <2>1, <2>2, <2>3, <2>6, <3>2, <4>1 DEF SocketsInv
    <3> QED BY <3>1, <3>2
  <2> QED BY <2>1, <2>2, <2>4, <2>5, <2>6 DEF SocketsInv
<1> QED BY <1>1, <1>2

LEMMA SocketsKept ==
  ASSUME SocketsInv, Blocking!Next PROVE SocketsInv'
<1>1. PICK o \in SocketObjects :
        \/ Blocking!Construct(o) \/ \E h \in Handles : Blocking!ConstructFrom(o, h)
        \/ /\ o \in s1
           /\ \/ Blocking!Create(o) \/ Blocking!Bind(o) \/ Blocking!Connect(o)
              \/ Blocking!Close(o) \/ Blocking!Destroy(o)
              \/ Blocking!ShutDown(o) \/ Blocking!Listen(o) \/ Blocking!Transfer(o)
              \/ Blocking!GetSendBufferSize(o) \/ \E size : Blocking!SetSendBufferSize(o, size)
              \/ Blocking!Accept(o)
  BY DEF Blocking!Next
<1> QED BY <1>1, ConstructKeeps, OpeningKeeps, ClosingKeeps, UsingKeeps, AcceptKeeps

(***************************************************************************)
(* Each subject keeps its own invariant while it is used; what the slots   *)
(* hold of the other subjects does not matter.                             *)
(***************************************************************************)
SlotsInv == /\ subject \in {"arrays", "singles"} => ManualInv
            /\ subject = "sockets" => SocketsInv

LEMMA SlotsInit == BaseInit => SlotsInv
<1> SUFFICES ASSUME BaseInit PROVE SlotsInv OBVIOUS
<1>1. ASSUME subject \in {"arrays", "singles"} PROVE ManualInv
  <2>1. /\ s1 = << >> /\ s4 = {} /\ s5 = [o \in ManualObjects |-> 0] /\ s6 = TRUE
    BY <1>1 DEF BaseInit, ManualArrays!Init, ManualSingles!Init, ManualArrays!Objects,
                ManualSingles!Objects, ManualObjects
  <2> QED BY <2>1 DEF ManualInv
<1>2. ASSUME subject = "sockets" PROVE SocketsInv
  <2>1. /\ s1 = {} /\ s2 = [o \in SocketObjects |-> Invalid]
        /\ s3 = [h \in Handles |-> "closed"] /\ s4 = {}
    BY <1>2 DEF BaseInit, Blocking!Init
  <2>2. s3 \in [Handles -> SocketStates] BY <2>1 DEF SocketStates
  <2> QED BY <2>1, <2>2 DEF SocketsInv
<1> QED BY <1>1, <1>2 DEF SlotsInv

LEMMA SlotsSteps ==
  ASSUME SlotsInv, [BaseNext]_baseVars PROVE SlotsInv'
<1>1. subject' = subject BY DEF BaseNext, baseVars
<1>2. CASE UNCHANGED slots
  BY <1>1, <1>2 DEF slots, SlotsInv, ManualInv, SocketsInv
<1>3. CASE UseSlots
  <2>1. CASE subject \in {"arrays", "singles"}
    <3>1. ManualInv BY <2>1 DEF SlotsInv
    <3>2. \/ subject = "arrays" /\ ManualArrays!Next
          \/ subject = "singles" /\ ManualSingles!Next
      BY <1>3, <2>1 DEF UseSlots
    <3>3. ManualInv' BY <1>1, <3>1, <3>2, ArraysStep, SinglesStep, ManualKept
    <3> QED BY <1>1, <2>1, <3>3 DEF SlotsInv
  <2>2. CASE subject = "sockets"
    <3>1. SocketsInv /\ Blocking!Next BY <1>3, <2>2 DEF SlotsInv, UseSlots
    <3>2. SocketsInv' BY <3>1, SocketsKept
    <3> QED BY <1>1, <2>2, <3>2 DEF SlotsInv
  <2>3. CASE subject \notin {"arrays", "singles", "sockets"}
    BY <1>1, <2>3 DEF SlotsInv
  <2> QED BY <2>1, <2>2, <2>3
<1>4. UNCHANGED slots \/ UseSlots
  BY DEF BaseNext, UsePool, UseRing, UseStream, UseDate, UseTimer, UseBuffer, baseVars
<1> QED BY <1>2, <1>3, <1>4

(***************************************************************************)
(* Whatever is created, lent, copied, moved, accepted and closed, of any   *)
(* number of objects: nothing is deleted twice, used after it was deleted  *)
(* or owned by two (ObjectPool.hpp:203-276, Buffer.cpp:15-138,             *)
(* Socket.cpp:6-77).                                                       *)
(***************************************************************************)
THEOREM EverythingOwnedOnce == BaseSpec => []OwnedOnce
<1>1. BaseInit => SlotsInv BY SlotsInit
<1>2. SlotsInv /\ [BaseNext]_baseVars => SlotsInv' BY SlotsSteps
<1>3. OwnedInv /\ SlotsInv => OwnedOnce
  BY ManualHolds, SocketsHold DEF OwnedOnce, OwnedInv, SlotsInv
<1> QED BY <1>1, <1>2, <1>3, OwnedInvariant, PTL DEF BaseSpec

-----------------------------------------------------------------------------
(***************************************************************************)
(* Addresses and files.                                                    *)
(***************************************************************************)

\* A sequence of bytes that is turned twice is as it was.
LEMMA TurnedTwice ==
  ASSUME NEW s \in Seq(Nat)
  PROVE  /\ Address!Reverse(s) \in Seq(Nat)
         /\ Address!Reverse(Address!Reverse(s)) = s
<1>1. /\ Address!Reverse(s) = [i \in 1..Len(s) |-> s[(Len(s) - i) + 1]]
      /\ Len(s) \in Nat /\ \A i \in 1..Len(s) : s[i] \in Nat
  BY ElementOfSeq DEF Address!Reverse
<1>2. Address!Reverse(s) \in Seq(Nat) /\ Len(Address!Reverse(s)) = Len(s)
  <2>1. \A i \in 1..Len(s) : (Len(s) - i) + 1 \in 1..Len(s) BY <1>1
  <2> QED BY <1>1, <2>1
<1>3. Address!Reverse(Address!Reverse(s)) =
        [i \in 1..Len(s) |-> Address!Reverse(s)[(Len(s) - i) + 1]]
  BY <1>2 DEF Address!Reverse
<1>4. \A i \in 1..Len(s) : Address!Reverse(s)[(Len(s) - i) + 1] = s[i]
  BY <1>1
<1>5. Address!Reverse(Address!Reverse(s)) = [i \in 1..Len(s) |-> s[i]]
  BY <1>3, <1>4
<1>6. s = [i \in 1..Len(s) |-> s[i]]
  OBVIOUS
<1> QED BY ONLY <1>2, <1>5, <1>6

\* Whoever sets an address sees what was meant.
LEMMA SeenAsMeant ==
  ASSUME NEW number \in Seq(Nat), NEW p \in Seq(Nat), s1' = number,
         s2' = p \/ s2' = Address!FromNumber(p),
         \/ s3' = <<number, p>> /\ s4' = Address!None
         \/ s3' = <<Address!Reverse(number), p>> /\ s4' # Address!None
  PROVE  Address!AddressIsAsGiven'
<1>1. /\ Address!ToNumeric(number) = number
      /\ Address!FromNumber(p) = p /\ Address!htonl(Address!Reverse(p)) = p
      /\ Address!Reverse(Address!Reverse(number)) = number
  BY TurnedTwice DEF Address!ToNumeric, Address!htonl, Address!FromNumber, Address!Stored
<1>2. s2' = p BY <1>1
<1>3. Address!GetPort' = p BY <1>1, <1>2 DEF Address!GetPort, Address!htonl
<1>4. (IF s4' = Address!None THEN s3'[1] ELSE Address!Reverse(s3'[1])) = number
  BY <1>1
<1>5. s3'[2] = p
  OBVIOUS
<1> QED BY <1>1, <1>3, <1>4, <1>5
        DEF Address!AddressIsAsGiven, Address!IsLoopBack, Address!IsPrivateIP

LEMMA AddressStep ==
  ASSUME Address!Next
  PROVE  Address!AddressIsAsGiven'
<1>1. /\ Numbers \subseteq Seq(Nat) /\ Ports \subseteq Seq(Nat)
      /\ Address!None \notin Names
      /\ \A name \in DOMAIN Hosts : Hosts[name] \in Seq(Seq(Nat)) \ {<< >>}
  BY AddressAssumption DEF Address!None
<1>2. /\ Address!AnyAddress \in Seq(Nat) /\ <<0, 0>> \in Seq(Nat)
      /\ Address!Reverse(Address!AnyAddress) = Address!AnyAddress
  BY DEF Address!AnyAddress, Address!Reverse
<1>3. ASSUME NEW number \in Numbers, NEW p \in Ports,
             \/ Address!SetNumber(number, p) \/ Address!SetIPAddress(number, p)
             \/ Address!SetText(number, p) \/ Address!SetSockaddr(number, p)
      PROVE  Address!AddressIsAsGiven'
  <2>1. number \in Seq(Nat) /\ p \in Seq(Nat) BY <1>1
  <2>2. Address!FromNumber(number) = number /\ Address!FromText(number) = number
    BY <2>1, TurnedTwice
       DEF Address!FromNumber, Address!Stored, Address!htonl, Address!FromText
  <2>3. /\ s1' = number
        /\ s2' = p \/ s2' = Address!FromNumber(p)
        /\ s3' = <<number, p>> /\ s4' = Address!None
    BY <1>3, <2>2
       DEF Address!SetNumber, Address!SetIPAddress, Address!SetText, Address!SetSockaddr,
           Address!Becomes, Address!Meant
  <2> QED BY <2>1, <2>3, SeenAsMeant
<1>4. ASSUME NEW name \in Names, NEW p \in Ports, Address!SetName(name, p)
      PROVE  Address!AddressIsAsGiven'
  <2>1. /\ p \in Seq(Nat) /\ name # Address!None /\ s4' = name
        /\ s1' = Address!FromName(name) /\ s2' = Address!FromNumber(p)
    BY <1>1, <1>4 DEF Address!SetName, Address!Becomes
  <2>2. CASE name \in DOMAIN Hosts
    <3>1. Hosts[name] # << >> /\ Hosts[name][1] \in Seq(Nat)
      <4>1. Hosts[name] \in Seq(Seq(Nat)) /\ Hosts[name] # << >> BY <1>1, <2>2
      <4>2. Len(Hosts[name]) \in Nat /\ Len(Hosts[name]) # 0 BY <4>1, EmptySeq
      <4> QED BY <4>1, <4>2, ElementOfSeq
    <3> DEFINE host == Hosts[name][1]
    <3>2. /\ Address!FromName(name) = Address!FromNumber(Address!Reverse(host))
          /\ s3' = <<host, p>>
      BY <1>4, <2>2, <3>1 DEF Address!FromName, Address!SetName, Address!GetIPAddresses
    <3> HIDE DEF host
    <3>3. host \in Seq(Nat) BY <3>1 DEF host
    <3>4. /\ Address!Reverse(host) \in Seq(Nat)
          /\ Address!FromNumber(Address!Reverse(host)) = Address!Reverse(host)
          /\ Address!Reverse(Address!Reverse(host)) = host
      BY <3>3, TurnedTwice DEF Address!FromNumber, Address!Stored, Address!htonl
    <3> QED BY ONLY <2>1, <3>2, <3>4, SeenAsMeant
  <2>3. CASE name \notin DOMAIN Hosts
    <3>1. /\ Address!FromName(name) = Address!AnyAddress
          /\ s3' = <<Address!AnyAddress, p>>
      BY <1>4, <2>3 DEF Address!FromName, Address!SetName, Address!GetIPAddresses
    <3>2. s3' = <<Address!Reverse(Address!AnyAddress), p>> BY <1>2, <3>1
    <3> QED BY ONLY <1>2, <2>1, <3>1, <3>2, SeenAsMeant
  <2> QED BY <2>2, <2>3
<1>5. ASSUME Address!Clear
      PROVE  Address!AddressIsAsGiven'
  <2>1. /\ s1' = Address!AnyAddress /\ s2' = <<0, 0>> /\ s4' = Address!None
        /\ s3' = <<Address!AnyAddress, <<0, 0>>>>
    BY <1>5 DEF Address!Clear, Address!Cleared
  <2> QED BY ONLY <1>2, <2>1, SeenAsMeant
<1> QED BY <1>3, <1>4, <1>5 DEF Address!Next

LEMMA FileStep ==
  ASSUME Reader!ReadIsWhole, Reader!Next
  PROVE  Reader!ReadIsWhole'
<1>1. ASSUME NEW f, Reader!OpenFile(f)
      PROVE  Reader!ReadIsWhole'
  BY <1>1 DEF Reader!OpenFile, Reader!Gave, Reader!ReadIsWhole
<1>2. ASSUME Reader!GetFileSize
      PROVE  Reader!ReadIsWhole'
  BY <1>2 DEF Reader!GetFileSize, Reader!Gave, Reader!ReadIsWhole
<1>3. ASSUME Reader!ReadChar
      PROVE  Reader!ReadIsWhole'
  BY <1>3 DEF Reader!ReadChar, Reader!Gave, Reader!ReadIsWhole
<1>4. ASSUME NEW size \in 0..MaxBuffer, Reader!Read(size)
      PROVE  Reader!ReadIsWhole'
  <2>1. s1' = s1 BY <1>4 DEF Reader!Read
  <2>2. \/ Reader!Gave("read", FALSE, << >>)
        \/ Reader!Gave("read", TRUE, << >>) /\ s4 = TRUE /\ UNCHANGED s4
        \/ Reader!Gave("read", TRUE, << >>) /\ s4 /\ UNCHANGED s4
        \/ Reader!Gave("read", TRUE, s1.text)
    BY <1>4 DEF Reader!Read
  <2> QED BY <2>1, <2>2 DEF Reader!Gave, Reader!ReadIsWhole
<1> QED BY <1>1, <1>2, <1>3, <1>4 DEF Reader!Next, Reader!Close

\* An address is the one that was meant, and a file is read whole or not at
\* all, for any numbers, ports, names, hosts, files and sizes of buffers
\* (SocketAddress.cpp:11-50, DNS.hpp:85-99, FileReader.cpp:44-84).
THEOREM GivenIsTaken == BaseSpec => []TakenAsGiven
<1>1. BaseInit => TakenAsGiven
  <2>1. ASSUME Address!Init
        PROVE  Address!AddressIsAsGiven
    <3>1. /\ s1 = <<0, 0, 0, 0>> /\ s2 = <<0, 0>> /\ s4 = Address!None
          /\ s3 = <<<<0, 0, 0, 0>>, <<0, 0>>>>
      BY <2>1 DEF Address!Init, Address!Cleared, Address!AnyAddress
    <3>2. <<0, 0, 0, 0>> \in Seq(Nat) /\ <<0, 0>> \in Seq(Nat)
      OBVIOUS
    <3>3. /\ Address!ToNumeric(<<0, 0, 0, 0>>) = <<0, 0, 0, 0>>
          /\ Address!htonl(Address!Reverse(<<0, 0>>)) = <<0, 0>>
      BY <3>2, TurnedTwice DEF Address!ToNumeric, Address!htonl
    <3> QED BY <3>1, <3>3
            DEF Address!AddressIsAsGiven, Address!GetPort, Address!IsLoopBack, Address!IsPrivateIP
  <2>2. Reader!Init => Reader!ReadIsWhole BY DEF Reader!Init, Reader!ReadIsWhole
  <2> QED BY <2>1, <2>2 DEF BaseInit, TakenAsGiven
<1>2. TakenAsGiven /\ [BaseNext]_baseVars => TakenAsGiven'
  <2> SUFFICES ASSUME TakenAsGiven, [BaseNext]_baseVars PROVE TakenAsGiven'
    OBVIOUS
  <2>1. subject' = subject BY DEF BaseNext, baseVars
  <2>2. CASE UNCHANGED slots
    BY <2>1, <2>2 DEF slots, TakenAsGiven, Address!AddressIsAsGiven, Address!GetPort,
       Reader!ReadIsWhole
  <2>3. CASE UseSlots
    <3>1. ASSUME subject = "address" PROVE Address!Next BY <2>3, <3>1 DEF UseSlots
    <3>2. ASSUME subject = "file" PROVE Reader!Next BY <2>3, <3>2 DEF UseSlots
    <3> QED BY <2>1, <3>1, <3>2, AddressStep, FileStep DEF TakenAsGiven
  <2> QED BY <2>2, <2>3
          DEF BaseNext, baseVars, UsePool, UseRing, UseStream, UseDate, UseTimer, UseBuffer
<1> QED BY <1>1, <1>2, PTL DEF BaseSpec

-----------------------------------------------------------------------------
(***************************************************************************)
(* Packets.                                                                *)
(***************************************************************************)

PacketBuffers == [capacity : {BUFFER_SIZE}, mem : [0..(BUFFER_SIZE - 1) -> Int],
                  filled : Int, read_pos : Int, write_pos : Int]

\* f is the function by which FlattenSeq puts sequences one after another,
\* and it ends in these bytes.
IsFlatten(f, seqs) ==
  f = [i \in 1..Len(seqs) |-> IF i = 1 THEN seqs[i] ELSE f[i - 1] \o seqs[i]]
Flattened(seqs, bytes) ==
  /\ \E f : IsFlatten(f, seqs)
  /\ \A f : IsFlatten(f, seqs) => f[Len(seqs)] = bytes

\* What is written of the items behind the first k.
Rest(items, k) == [j \in 1..Len(items) - k |-> Packet!Encoded(items[k + j])]

\* The items lie in the buffer one after another, item k + 1 from at[k] on.
PiecesAt(b, items, at) ==
  /\ at \in [0..Len(items) -> Int]
  /\ at[0] = 2 /\ at[Len(items)] = b.write_pos
  /\ \A k \in 0..(Len(items) - 1) :
       /\ 2 <= at[k] /\ at[k + 1] <= b.write_pos
       /\ at[k + 1] = at[k] + Len(Packet!Encoded(items[k + 1]))
       /\ Packet!BytesFrom(b, at[k], Len(Packet!Encoded(items[k + 1]))) =
            Packet!Encoded(items[k + 1])
       /\ Flattened(Rest(items, k), Packet!BytesFrom(b, at[k], b.write_pos - at[k]))

PacketTypes(b, items, taken) ==
  /\ b \in PacketBuffers
  /\ b.filled = b.write_pos /\ 2 <= b.write_pos /\ b.write_pos <= BUFFER_SIZE
  /\ b.mem[0] = b.filled - 2
  /\ items \in Seq(Packet!Items) /\ taken \in 0..Len(items)

PacketIn(b, items, taken, got) ==
  /\ PacketTypes(b, items, taken)
  /\ \E at : PiecesAt(b, items, at) /\ at[taken] = b.read_pos
  /\ got # Packet!Nothing => taken > 0 /\ got = items[taken]

PacketInv == subject = "packet" => PacketIn(s1, s2, s3, s4)

\* What << writes of an item: at least one cell, and of a string its
\* characters up to the zero.
LEMMA EncodedFacts ==
  ASSUME NEW item \in Packet!Items
  PROVE  /\ Packet!Encoded(item) \in Seq(Int)
         /\ Len(Packet!Encoded(item)) \in Nat \ {0}
         /\ item[1] = "int" => Packet!Encoded(item) = <<item[2]>> /\ item = Packet!IntItem(item[2])
         /\ item[1] # "int" =>
              /\ item[2] \in Seq(Int \ {0}) /\ item = Packet!StringItem(item[2])
              /\ Packet!Encoded(item) = Append(item[2], 0)
<1>1. /\ Ints \subseteq Int /\ Strings \subseteq Seq(Int \ {0})
  BY PacketAssumption
<1>2. CASE \E n \in Ints : item = Packet!IntItem(n)
  <2>1. PICK n \in Ints : item = <<"int", n>> BY <1>2 DEF Packet!IntItem
  <2>2. item[1] = "int" /\ item[2] = n BY <2>1
  <2>3. Packet!Encoded(item) = <<n>> BY <2>2 DEF Packet!Encoded
  <2>4. n \in Int BY <1>1
  <2>5. <<n>> \in Seq(Int) /\ Len(<<n>>) = 1 BY <2>4
  <2>6. item = Packet!IntItem(item[2]) BY <2>1, <2>2 DEF Packet!IntItem
  <2>7. Packet!Encoded(item) = <<item[2]>> BY <2>2, <2>3
  <2>8. Packet!Encoded(item) \in Seq(Int) /\ Len(Packet!Encoded(item)) = 1
    BY ONLY <2>3, <2>5
  <2> QED BY ONLY <2>2, <2>6, <2>7, <2>8
<1>3. CASE \E s \in Strings : item = Packet!StringItem(s)
  <2>1. PICK s \in Strings : item = <<"string", s>> BY <1>3 DEF Packet!StringItem
  <2>2. item[1] = "string" /\ item[2] = s BY <2>1
  <2>3. Packet!Encoded(item) = Append(s, 0) BY <2>2 DEF Packet!Encoded
  <2>4. s \in Seq(Int \ {0}) /\ Len(s) \in Nat BY <1>1
  <2>5. s \in Seq(Int)
    <3>1. \A i \in 1..Len(s) : s[i] \in Int BY <2>4
    <3> QED BY <2>4, <3>1
  <2>6. Append(s, 0) \in Seq(Int) /\ Len(Append(s, 0)) = Len(s) + 1 BY <2>5
  <2>7. item = Packet!StringItem(item[2]) BY <2>1, <2>2 DEF Packet!StringItem
  <2>8. Packet!Encoded(item) = Append(item[2], 0) BY <2>2, <2>3
  <2>9. Packet!Encoded(item) \in Seq(Int) /\ Len(Packet!Encoded(item)) \in Nat \ {0}
    BY ONLY <2>3, <2>4, <2>6
  <2>10. item[1] # "int" /\ item[2] \in Seq(Int \ {0}) BY <2>2, <2>4
  <2> QED BY ONLY <2>7, <2>8, <2>9, <2>10
<1> QED BY <1>2, <1>3 DEF Packet!Items

\* One sequence is flat.
LEMMA FlattenOne ==
  ASSUME NEW s
  PROVE  Flattened(<<s>>, s)
<1>1. Len(<<s>>) = 1 /\ <<s>>[1] = s
  OBVIOUS
<1>2. IsFlatten([i \in 1..1 |-> s], <<s>>) BY <1>1 DEF IsFlatten
<1>3. ASSUME NEW f, IsFlatten(f, <<s>>)
      PROVE  f[Len(<<s>>)] = s
  <2>1. f = [i \in 1..1 |-> IF i = 1 THEN <<s>>[i] ELSE f[i - 1] \o <<s>>[i]]
    BY <1>1, <1>3 DEF IsFlatten
  <2> QED BY <1>1, <2>1
<1> QED BY <1>2, <1>3 DEF Flattened

\* One more comes behind them.
LEMMA FlattenMore ==
  ASSUME NEW seqs \in Seq(Seq(Int)), NEW bytes, NEW s \in Seq(Int),
         Len(seqs) # 0, Flattened(seqs, bytes)
  PROVE  Flattened(Append(seqs, s), bytes \o s)
<1> DEFINE n == Len(seqs)
           more == Append(seqs, s)
<1>1. /\ n \in Nat \ {0} /\ Len(more) = n + 1 /\ more[n + 1] = s
      /\ \A i \in 1..n : more[i] = seqs[i]
  OBVIOUS
<1> HIDE DEF n, more
<1>2. \E f : IsFlatten(f, more)
  <2>1. PICK f : IsFlatten(f, seqs) BY DEF Flattened
  <2>2. f = [i \in 1..n |-> IF i = 1 THEN seqs[i] ELSE f[i - 1] \o seqs[i]]
    BY <2>1 DEF IsFlatten, n
  <2> DEFINE g == [i \in 1..(n + 1) |-> IF i = n + 1 THEN f[n] \o s ELSE f[i]]
  <2>3. ASSUME NEW i \in 1..(n + 1)
        PROVE  g[i] = IF i = 1 THEN more[i] ELSE g[i - 1] \o more[i]
    <3>1. CASE i = 1
      <4>1. i # n + 1 /\ i \in 1..n BY <1>1, <3>1
      <4>2. g[i] = f[i] BY <4>1
      <4>3. f[i] = seqs[i] BY <2>2, <3>1, <4>1
      <4> QED BY <1>1, <3>1, <4>1, <4>2, <4>3
    <3>2. CASE i # 1 /\ i # n + 1
      <4>1. i \in 1..n /\ i - 1 \in 1..n /\ i - 1 # n + 1 BY <1>1, <3>2
      <4>2. g[i] = f[i] /\ g[i - 1] = f[i - 1] BY <4>1, <3>2, <1>1
      <4>3. f[i] = f[i - 1] \o seqs[i] BY <2>2, <3>2, <4>1
      <4> QED BY <1>1, <3>2, <4>1, <4>2, <4>3
    <3>3. CASE i = n + 1
      <4>1. i # 1 /\ i - 1 = n /\ n \in 1..(n + 1) /\ n # n + 1 BY <1>1, <3>3
      <4>2. g[i] = f[n] \o s BY <3>3
      <4>3. g[n] = f[n] BY <4>1
      <4> QED BY ONLY <1>1, <3>3, <4>1, <4>2, <4>3
    <3> QED BY <3>1, <3>2, <3>3
  <2>4. g = [i \in 1..(n + 1) |-> g[i]]
    OBVIOUS
  <2> HIDE DEF g
  <2>5. g = [i \in 1..(n + 1) |-> IF i = 1 THEN more[i] ELSE g[i - 1] \o more[i]]
    BY <2>3, <2>4
  <2> QED BY <2>5, <1>1 DEF IsFlatten
<1>3. ASSUME NEW f, IsFlatten(f, more)
      PROVE  f[Len(more)] = bytes \o s
  <2>1. f = [i \in 1..(n + 1) |-> IF i = 1 THEN more[i] ELSE f[i - 1] \o more[i]]
    BY <1>1, <1>3 DEF IsFlatten
  <2> DEFINE g == [i \in 1..n |-> f[i]]
  <2>2. ASSUME NEW i \in 1..n
        PROVE  g[i] = IF i = 1 THEN seqs[i] ELSE g[i - 1] \o seqs[i]
    <3>1. i \in 1..(n + 1) /\ (i # 1 => i - 1 \in 1..n) BY <1>1
    <3>2. f[i] = IF i = 1 THEN more[i] ELSE f[i - 1] \o more[i] BY <2>1, <3>1
    <3>3. more[i] = seqs[i] BY <1>1
    <3>4. g[i] = f[i]
      OBVIOUS
    <3>5. i # 1 => g[i - 1] = f[i - 1] BY <3>1
    <3> HIDE DEF g
    <3> QED BY ONLY <3>2, <3>3, <3>4, <3>5
  <2>3. g = [i \in 1..n |-> IF i = 1 THEN seqs[i] ELSE g[i - 1] \o seqs[i]]
    BY <2>2
  <2>4. g[n] = f[n] BY <1>1
  <2> HIDE DEF g
  <2>5. IsFlatten(g, seqs) BY <2>3 DEF IsFlatten, n
  <2>6. g[n] = bytes BY <2>5 DEF Flattened, n
  <2>7. f[n + 1] = f[n] \o more[n + 1]
    <3>1. n + 1 \in 1..(n + 1) /\ n + 1 # 1 /\ (n + 1) - 1 = n BY <1>1
    <3>2. f[n + 1] = IF n + 1 = 1 THEN more[n + 1] ELSE f[(n + 1) - 1] \o more[n + 1]
      BY <2>1, <3>1
    <3> QED BY ONLY <3>1, <3>2
  <2> QED BY ONLY <1>1, <2>4, <2>6, <2>7
<1> QED BY <1>2, <1>3 DEF Flattened, more

\* FlattenSeq gives what the function ends in.
LEMMA FlattenIs ==
  ASSUME NEW seqs, NEW bytes, Len(seqs) # 0, Flattened(seqs, bytes)
  PROVE  Packet!FlattenSeq(seqs) = bytes
<1> DEFINE flatten == CHOOSE f : IsFlatten(f, seqs)
<1>1. IsFlatten(flatten, seqs) BY DEF Flattened
<1>2. flatten[Len(seqs)] = bytes BY <1>1 DEF Flattened
<1>3. Packet!FlattenSeq(seqs) = flatten[Len(seqs)]
  BY DEF Packet!FlattenSeq, IsFlatten
<1> QED BY <1>2, <1>3

\* c holds the bytes of b behind its header.
Matches(c, b) == /\ c.write_pos = b.write_pos
                 /\ \A i \in 2..(b.write_pos - 1) : c.mem[i] = b.mem[i]

\* The items lie where they lay.
LEMMA PiecesStay ==
  ASSUME NEW b, NEW c, NEW items \in Seq(Packet!Items), NEW at,
         PiecesAt(b, items, at), b.write_pos \in Int, Matches(c, b)
  PROVE  PiecesAt(c, items, at)
<1> USE DEF Matches
<1>1. ASSUME NEW k \in 0..(Len(items) - 1)
      PROVE  /\ Packet!BytesFrom(c, at[k], Len(Packet!Encoded(items[k + 1]))) =
                  Packet!Encoded(items[k + 1])
             /\ Flattened(Rest(items, k), Packet!BytesFrom(c, at[k], c.write_pos - at[k]))
  <2> DEFINE w == b.write_pos
             n == Len(Packet!Encoded(items[k + 1]))
             from == at[k]
  <2>1. k \in 0..Len(items) /\ k + 1 \in 0..Len(items) /\ k + 1 \in 1..Len(items)
    OBVIOUS
  <2>2. from \in Int /\ at[k + 1] \in Int BY <2>1 DEF PiecesAt
  <2>3. n \in Int
    <3>1. items[k + 1] \in Packet!Items BY <2>1, ElementOfSeq
    <3> QED BY <3>1, EncodedFacts
  <2>4. /\ 2 <= from /\ from + n <= w
        /\ Packet!BytesFrom(b, from, n) = Packet!Encoded(items[k + 1])
        /\ Flattened(Rest(items, k), Packet!BytesFrom(b, from, w - from))
    BY DEF PiecesAt
  <2>5. w \in Int /\ \A i \in 2..(w - 1) : c.mem[i] = b.mem[i]
    OBVIOUS
  <2> HIDE DEF w, n, from
  <2>6. ASSUME NEW m \in Int, from + m <= w
        PROVE  Packet!BytesFrom(c, from, m) = Packet!BytesFrom(b, from, m)
    <3>1. \A i \in 1..m : from + i - 1 \in 2..(w - 1) BY ONLY <2>2, <2>4, <2>5, <2>6
    <3>2. \A i \in 1..m : c.mem[from + i - 1] = b.mem[from + i - 1] BY ONLY <2>5, <3>1
    <3> QED BY ONLY <3>2 DEF Packet!BytesFrom
  <2>7. Packet!BytesFrom(c, from, n) = Packet!BytesFrom(b, from, n)
    BY ONLY <2>3, <2>4, <2>6
  <2>8. Packet!BytesFrom(c, from, w - from) = Packet!BytesFrom(b, from, w - from)
    <3>1. w - from \in Int /\ from + (w - from) <= w BY ONLY <2>2, <2>5
    <3> QED BY ONLY <2>6, <3>1
  <2>9. c.write_pos = w BY DEF w
  <2>10. /\ Packet!BytesFrom(c, from, n) = Packet!Encoded(items[k + 1])
         /\ Flattened(Rest(items, k), Packet!BytesFrom(c, from, c.write_pos - from))
    BY ONLY <2>4, <2>7, <2>8, <2>9
  <2> QED BY ONLY <2>10 DEF n, from
<1>2. /\ at \in [0..Len(items) -> Int]
      /\ at[0] = 2 /\ at[Len(items)] = c.write_pos
  BY DEF PiecesAt
<1>3. ASSUME NEW k \in 0..(Len(items) - 1)
      PROVE  /\ 2 <= at[k] /\ at[k + 1] <= c.write_pos
             /\ at[k + 1] = at[k] + Len(Packet!Encoded(items[k + 1]))
  BY DEF PiecesAt
<1> QED BY ONLY <1>1, <1>2, <1>3 DEF PiecesAt

\* What is left to read of the items when there is one more.
LEMMA RestMore ==
  ASSUME NEW items \in Seq(Packet!Items), NEW item \in Packet!Items, NEW k \in 0..Len(items)
  PROVE  /\ Rest(items, k) \in Seq(Seq(Int)) /\ Len(Rest(items, k)) = Len(items) - k
         /\ Rest(Append(items, item), k) = Append(Rest(items, k), Packet!Encoded(item))
         /\ k = Len(items) =>
              Rest(Append(items, item), k) = <<Packet!Encoded(item)>>
<1> DEFINE n == Len(items)
           more == Append(items, item)
           enc == Packet!Encoded(item)
           rest == Rest(items, k)
           both == Rest(more, k)
<1>1. /\ n \in Nat /\ k \in 0..n /\ Len(more) = n + 1 /\ more[n + 1] = item
      /\ \A i \in 1..n : more[i] = items[i] /\ items[i] \in Packet!Items
  BY ElementOfSeq
<1>2. /\ rest = [j \in 1..(n - k) |-> Packet!Encoded(items[k + j])]
      /\ both = [j \in 1..(Len(more) - k) |-> Packet!Encoded(more[k + j])]
  BY DEF Rest
<1>3. enc \in Seq(Int) BY EncodedFacts
<1>4. enc = Packet!Encoded(item)
  OBVIOUS
<1> HIDE DEF n, more, enc, rest, both
<1>5. \A j \in 1..(n - k) : Packet!Encoded(items[k + j]) \in Seq(Int)
  <2>1. \A j \in 1..(n - k) : k + j \in 1..n BY <1>1
  <2> QED BY <1>1, <2>1, EncodedFacts
<1>6. rest \in Seq(Seq(Int)) /\ Len(rest) = n - k /\ n - k \in Nat BY <1>1, <1>2, <1>5
<1>7. both = [j \in 1..((n - k) + 1) |-> Packet!Encoded(more[k + j])]
  <2>1. (n + 1) - k = (n - k) + 1 BY <1>1
  <2> QED BY ONLY <1>1, <1>2, <2>1
<1>8. /\ Append(rest, enc) \in Seq(Seq(Int)) /\ Len(Append(rest, enc)) = (n - k) + 1
      /\ Append(rest, enc)[(n - k) + 1] = enc
      /\ \A j \in 1..(n - k) : Append(rest, enc)[j] = rest[j]
  BY <1>3, <1>6, AppendProperties
<1>9. \A j \in 1..((n - k) + 1) : Append(rest, enc)[j] = Packet!Encoded(more[k + j])
  <2>1. ASSUME NEW j \in 1..((n - k) + 1), j # (n - k) + 1
        PROVE  Append(rest, enc)[j] = Packet!Encoded(more[k + j])
    <3>1. j \in 1..(n - k) /\ k + j \in 1..n BY <2>1, <1>1
    <3> QED BY <3>1, <1>1, <1>2, <1>8
  <2>2. k + ((n - k) + 1) = n + 1 BY <1>1
  <2> QED BY <2>1, <2>2, <1>1, <1>4, <1>8
<1>10. Append(rest, enc) = both
  <2>1. PICK s \in Seq(Seq(Int)) : s = Append(rest, enc) BY <1>8
  <2>2. s = [j \in 1..Len(s) |-> s[j]]
    OBVIOUS
  <2>3. Append(rest, enc) = [j \in 1..((n - k) + 1) |-> Append(rest, enc)[j]]
    BY ONLY <1>8, <2>1, <2>2
  <2> QED BY ONLY <1>7, <1>9, <2>3
<1>11. ASSUME k = n
       PROVE  both = <<enc>>
  <2>1. (n - k) + 1 = 1 BY <1>1, <1>11
  <2>2. Len(rest) = 0 BY <1>1, <1>6, <1>11
  <2>3. rest = << >> BY ONLY <1>6, <2>2, EmptySeq
  <2>4. Append(<< >>, enc) = <<enc>>
    OBVIOUS
  <2> QED BY ONLY <1>10, <2>3, <2>4
<1>12. /\ Rest(items, k) \in Seq(Seq(Int)) /\ Len(Rest(items, k)) = Len(items) - k
  BY ONLY <1>6 DEF rest, n
<1>13. Rest(Append(items, item), k) = Append(Rest(items, k), Packet!Encoded(item))
  BY ONLY <1>10 DEF rest, both, more, enc
<1>14. k = Len(items) => Rest(Append(items, item), k) = <<Packet!Encoded(item)>>
  BY ONLY <1>11 DEF both, more, enc, n
<1> QED BY ONLY <1>12, <1>13, <1>14

\* c holds data behind what is written in b.
Extends(c, b, data) ==
  /\ c.write_pos = b.write_pos + Len(data)
  /\ \A i \in 2..(b.write_pos - 1) : c.mem[i] = b.mem[i] /\ b.mem[i] \in Int
  /\ \A i \in 1..Len(data) : c.mem[b.write_pos + i - 1] = data[i]

Longer(c, items, item, at) ==
  \E more : /\ PiecesAt(c, Append(items, item), more)
            /\ \A k \in 0..Len(items) : more[k] = at[k]

\* One more item lies behind the others.
LEMMA PiecesMore ==
  ASSUME NEW b, NEW c, NEW items \in Seq(Packet!Items), NEW at, NEW item \in Packet!Items,
         PiecesAt(b, items, at), b.write_pos \in Int, 2 <= b.write_pos,
         Extends(c, b, Packet!Encoded(item))
  PROVE  Longer(c, items, item, at)
<1> DEFINE n == Len(items)
           w == b.write_pos
           all == Append(items, item)
           enc == Packet!Encoded(item)
           more == [k \in 0..(n + 1) |-> IF k = n + 1 THEN w + Len(enc) ELSE at[k]]
<1>1. /\ n \in Nat /\ Len(all) = n + 1 /\ all[n + 1] = item
      /\ \A i \in 1..n : all[i] = items[i] /\ items[i] \in Packet!Items
      /\ all \in Seq(Packet!Items)
  BY ElementOfSeq
<1>2. enc \in Seq(Int) /\ Len(enc) \in Nat \ {0} BY EncodedFacts
<1>3. /\ w \in Int /\ 2 <= w /\ c.write_pos = w + Len(enc)
      /\ \A i \in 2..(w - 1) : c.mem[i] = b.mem[i] /\ b.mem[i] \in Int
      /\ \A i \in 1..Len(enc) : c.mem[w + i - 1] = enc[i]
  BY DEF Extends
<1>4. /\ at \in [0..n -> Int] /\ at[0] = 2 /\ at[n] = w
      /\ \A k \in 0..(n - 1) :
           /\ 2 <= at[k] /\ at[k + 1] <= w
           /\ at[k + 1] = at[k] + Len(Packet!Encoded(items[k + 1]))
           /\ Packet!BytesFrom(b, at[k], Len(Packet!Encoded(items[k + 1]))) =
                Packet!Encoded(items[k + 1])
           /\ Flattened(Rest(items, k), Packet!BytesFrom(b, at[k], w - at[k]))
  BY DEF PiecesAt
<1>5. \A k \in 0..n :
        /\ Rest(items, k) \in Seq(Seq(Int)) /\ Len(Rest(items, k)) = n - k
        /\ Rest(all, k) = Append(Rest(items, k), enc)
        /\ k = n => Rest(all, k) = <<enc>>
  BY RestMore
<1>6. /\ more \in [0..(n + 1) -> Int]
      /\ more[n + 1] = w + Len(enc) /\ \A k \in 0..n : more[k] = at[k]
  <2>1. \A k \in 0..(n + 1) : k # n + 1 => k \in 0..n BY <1>1
  <2>2. \A k \in 0..(n + 1) : (IF k = n + 1 THEN w + Len(enc) ELSE at[k]) \in Int
    <3>1. \A k \in 0..n : at[k] \in Int BY ONLY <1>4
    <3>2. w + Len(enc) \in Int BY ONLY <1>2, <1>3
    <3> QED BY ONLY <2>1, <3>1, <3>2
  <2>3. n + 1 \in 0..(n + 1) /\ \A k \in 0..n : k \in 0..(n + 1) /\ k # n + 1 BY <1>1
  <2> QED BY <2>2, <2>3
<1>7. enc = Packet!Encoded(item)
  OBVIOUS
<1> HIDE DEF n, w, all, enc, more
\* The bytes of the new item, and those of an item before it.
<1>8. Packet!BytesFrom(c, w, Len(enc)) = enc
  <2>1. Packet!BytesFrom(c, w, Len(enc)) = [i \in 1..Len(enc) |-> enc[i]]
    BY ONLY <1>3 DEF Packet!BytesFrom
  <2>2. enc = [i \in 1..Len(enc) |-> enc[i]] BY ONLY <1>2
  <2> QED BY ONLY <2>1, <2>2
<1>9. ASSUME NEW from \in Int, 2 <= from, NEW m \in Int, from + m <= w
      PROVE  Packet!BytesFrom(c, from, m) = Packet!BytesFrom(b, from, m)
  <2>1. \A i \in 1..m : from + i - 1 \in 2..(w - 1) BY ONLY <1>3, <1>9
  <2>2. \A i \in 1..m : c.mem[from + i - 1] = b.mem[from + i - 1] BY ONLY <1>3, <2>1
  <2> QED BY ONLY <2>2 DEF Packet!BytesFrom
<1>10. ASSUME NEW from \in Int, 2 <= from, from <= w
       PROVE  Packet!BytesFrom(c, from, (w + Len(enc)) - from) =
                Packet!BytesFrom(b, from, w - from) \o enc
  <2> DEFINE old == Packet!BytesFrom(b, from, w - from)
             l == Len(enc)
  <2>1. /\ old = [i \in 1..(w - from) |-> b.mem[from + i - 1]]
        /\ old \in Seq(Int)
    <3>1. \A i \in 1..(w - from) : from + i - 1 \in 2..(w - 1) BY ONLY <1>3, <1>10
    <3>2. \A i \in 1..(w - from) : b.mem[from + i - 1] \in Int BY ONLY <1>3, <3>1
    <3>3. w - from \in Nat BY ONLY <1>3, <1>10
    <3> QED BY ONLY <3>2, <3>3 DEF Packet!BytesFrom
  <2>2. l \in Nat /\ w - from \in Nat BY ONLY <1>2, <1>3, <1>10 DEF l
  <2> HIDE DEF old, l
  <2>3. Len(old) = w - from BY ONLY <2>1, <2>2
  <2>4. /\ old \o enc \in Seq(Int) /\ Len(old \o enc) = (w - from) + l
        /\ \A i \in 1..((w - from) + l) :
             (old \o enc)[i] = IF i <= w - from THEN old[i] ELSE enc[i - (w - from)]
    <3>1. /\ old \o enc \in Seq(Int) /\ Len(old \o enc) = Len(old) + Len(enc)
          /\ \A i \in 1..(Len(old) + Len(enc)) :
               (old \o enc)[i] = IF i <= Len(old) THEN old[i] ELSE enc[i - Len(old)]
      BY ONLY <1>2, <2>1, ConcatProperties
    <3> QED BY ONLY <2>3, <3>1 DEF l
  <2>5. ASSUME NEW i \in 1..((w - from) + l)
        PROVE  c.mem[from + i - 1] = (old \o enc)[i]
    <3>1. CASE i <= w - from
      <4>1. i \in 1..(w - from) /\ from + i - 1 \in 2..(w - 1)
        BY ONLY <1>3, <1>10, <2>2, <2>5, <3>1
      <4>2. c.mem[from + i - 1] = b.mem[from + i - 1] BY ONLY <1>3, <4>1
      <4>3. old[i] = b.mem[from + i - 1] BY ONLY <2>1, <4>1
      <4> QED BY ONLY <2>4, <2>5, <3>1, <4>2, <4>3
    <3>2. CASE ~(i <= w - from)
      <4>1. /\ i - (w - from) \in 1..l /\ w + (i - (w - from)) - 1 = from + i - 1
        <5>1. w \in Int /\ from \in Int /\ i \in Int /\ l \in Nat
          BY ONLY <1>3, <1>10, <2>2, <2>5
        <5>2. w - from < i /\ i <= (w - from) + l BY ONLY <2>2, <2>5, <3>2, <5>1
        <5> QED BY ONLY <5>1, <5>2
      <4>2. c.mem[w + (i - (w - from)) - 1] = enc[i - (w - from)]
        BY ONLY <1>3, <4>1 DEF l
      <4> QED BY ONLY <2>4, <2>5, <3>2, <4>1, <4>2
    <3> QED BY ONLY <3>1, <3>2
  <2>6. old \o enc = [i \in 1..((w - from) + l) |-> (old \o enc)[i]]
    <3>1. PICK s \in Seq(Int) : s = old \o enc BY <2>4
    <3>2. s = [i \in 1..Len(s) |-> s[i]]
      OBVIOUS
    <3> QED BY ONLY <2>4, <3>1, <3>2
  <2>7. (w + l) - from = (w - from) + l BY ONLY <1>3, <1>10, <2>2
  <2>8. Packet!BytesFrom(c, from, (w - from) + l) = old \o enc
    BY ONLY <2>5, <2>6 DEF Packet!BytesFrom
  <2> QED BY ONLY <2>7, <2>8 DEF old, l
<1>11. ASSUME NEW k \in 0..((n + 1) - 1)
       PROVE  /\ 2 <= more[k] /\ more[k + 1] <= w + Len(enc)
              /\ more[k + 1] = more[k] + Len(Packet!Encoded(all[k + 1]))
              /\ Packet!BytesFrom(c, more[k], Len(Packet!Encoded(all[k + 1]))) =
                   Packet!Encoded(all[k + 1])
              /\ Flattened(Rest(all, k),
                           Packet!BytesFrom(c, more[k], (w + Len(enc)) - more[k]))
  <2>1. CASE k = n
    <3>1. more[k] = w /\ more[k + 1] = w + Len(enc) /\ all[k + 1] = item /\ k \in 0..n
      BY ONLY <1>1, <1>4, <1>6, <2>1
    <3>2. (w + Len(enc)) - w = Len(enc) BY ONLY <1>2, <1>3
    <3>3. Flattened(Rest(all, k), Packet!BytesFrom(c, w, (w + Len(enc)) - w))
      BY ONLY <1>5, <1>8, <2>1, <3>1, <3>2, FlattenOne
    <3>4. 2 <= w /\ w + Len(enc) <= w + Len(enc) BY ONLY <1>2, <1>3
    <3> QED BY ONLY <1>7, <1>8, <3>1, <3>3, <3>4
  <2>2. CASE k # n
    <3>1. /\ k \in 0..(n - 1) /\ k \in 0..n /\ k + 1 \in 0..n /\ k + 1 \in 1..n
          /\ n - k # 0
      BY ONLY <1>1, <1>11, <2>2
    <3>2. more[k] = at[k] /\ more[k + 1] = at[k + 1] /\ all[k + 1] = items[k + 1]
      BY ONLY <1>1, <1>6, <3>1
    <3> DEFINE from == at[k]
               m == Len(Packet!Encoded(items[k + 1]))
    <3>3. /\ from \in Int /\ 2 <= from /\ at[k + 1] <= w /\ at[k + 1] = from + m
          /\ Packet!BytesFrom(b, from, m) = Packet!Encoded(items[k + 1])
          /\ Flattened(Rest(items, k), Packet!BytesFrom(b, from, w - from))
      BY ONLY <1>4, <3>1
    <3>4. m \in Nat BY <1>1, <3>1, EncodedFacts
    <3> HIDE DEF from, m
    <3>5. from + m <= w /\ from <= w /\ at[k + 1] <= w + Len(enc)
      BY ONLY <1>2, <1>3, <3>3, <3>4
    <3>6. Packet!BytesFrom(c, from, m) = Packet!Encoded(items[k + 1])
      BY ONLY <1>9, <3>3, <3>4, <3>5
    <3>7. Flattened(Append(Rest(items, k), enc), Packet!BytesFrom(b, from, w - from) \o enc)
      BY ONLY <1>2, <1>5, <3>1, <3>3, FlattenMore
    <3>8. Flattened(Rest(all, k), Packet!BytesFrom(c, from, (w + Len(enc)) - from))
      BY ONLY <1>5, <1>10, <3>1, <3>3, <3>5, <3>7
    <3>9. /\ 2 <= from /\ at[k + 1] <= w + Len(enc) /\ at[k + 1] = from + m
          /\ Packet!BytesFrom(c, from, m) = Packet!Encoded(items[k + 1])
          /\ Flattened(Rest(all, k), Packet!BytesFrom(c, from, (w + Len(enc)) - from))
      BY ONLY <3>3, <3>5, <3>6, <3>8
    <3> QED BY ONLY <3>2, <3>9 DEF from, m
  <2> QED BY ONLY <2>1, <2>2
<1>12. more[0] = 2 /\ more[n + 1] = w + Len(enc) BY ONLY <1>1, <1>4, <1>6
<1>13. PiecesAt(c, all, more)
  BY ONLY <1>1, <1>3, <1>6, <1>11, <1>12 DEF PiecesAt
<1> QED BY ONLY <1>6, <1>13 DEF all, n, Longer

\* What the methods of a packet make of its buffer b: c.
CellSet(c, b, i, n) ==
  /\ c \in PacketBuffers
  /\ c.filled = b.filled /\ c.read_pos = b.read_pos /\ c.write_pos = b.write_pos
  /\ c.mem[i] = n
  /\ \A j \in 0..(BUFFER_SIZE - 1) : j # i => c.mem[j] = b.mem[j]
DataWritten(c, b, data) ==
  /\ c \in PacketBuffers
  /\ c.filled = b.filled + Len(data) /\ c.read_pos = b.read_pos
  /\ c.write_pos = b.write_pos + Len(data)
  /\ \A j \in 0..(BUFFER_SIZE - 1) :
       c.mem[j] = IF j \in b.write_pos..(b.write_pos + Len(data) - 1)
                  THEN data[j - b.write_pos + 1] ELSE b.mem[j]
ReadShifted(c, b, n) ==
  /\ c \in PacketBuffers /\ c.mem = b.mem
  /\ c.filled = b.filled /\ c.write_pos = b.write_pos /\ c.read_pos = b.read_pos + n
WriteShifted(c, b, n) ==
  /\ c \in PacketBuffers /\ c.mem = b.mem
  /\ c.filled = b.filled + n /\ c.write_pos = b.write_pos + n /\ c.read_pos = b.read_pos
MadeEmpty(c, b) ==
  /\ c \in PacketBuffers
  /\ c.filled = 2 /\ c.read_pos = 2 /\ c.write_pos = 2
  /\ \A j \in 0..(BUFFER_SIZE - 1) : c.mem[j] = IF j < b.filled THEN 0 ELSE b.mem[j]

LEMMA SetCellFacts ==
  ASSUME NEW b \in PacketBuffers, NEW i \in 0..1, NEW n \in Int
  PROVE  CellSet(Packet!SetCell(b, i, n), b, i, n)
<1>1. i \in 0..(BUFFER_SIZE - 1) BY PacketAssumption
<1>2. b.mem \in [0..(BUFFER_SIZE - 1) -> Int] BY DEF PacketBuffers
<1> DEFINE cells == [b.mem EXCEPT ![i] = n]
<1>3. /\ cells \in [0..(BUFFER_SIZE - 1) -> Int] /\ cells[i] = n
      /\ \A j \in 0..(BUFFER_SIZE - 1) : j # i => cells[j] = b.mem[j]
  BY <1>1, <1>2
<1>4. Packet!SetCell(b, i, n) = [b EXCEPT !.mem = cells]
  BY DEF Packet!SetCell
<1> HIDE DEF cells
<1> QED BY ONLY <1>3, <1>4, b \in PacketBuffers DEF PacketBuffers, CellSet

LEMMA PacketWriteFacts ==
  ASSUME NEW b \in PacketBuffers, NEW data \in Seq(Int)
  PROVE  DataWritten(Packet!Write(b, data), b, data)
<1> DEFINE w == b.write_pos
           n == Len(data)
           cells == [j \in 0..(BUFFER_SIZE - 1) |->
                     IF j \in w..(w + n - 1) THEN data[j - w + 1] ELSE b.mem[j]]
<1>1. /\ b.mem \in [0..(BUFFER_SIZE - 1) -> Int] /\ DOMAIN b.mem = 0..(BUFFER_SIZE - 1)
      /\ w \in Int /\ n \in Nat /\ \A i \in 1..n : data[i] \in Int
  BY ElementOfSeq DEF PacketBuffers
<1>2. cells \in [0..(BUFFER_SIZE - 1) -> Int]
  <2>1. ASSUME NEW j \in 0..(BUFFER_SIZE - 1), j \in w..(w + n - 1)
        PROVE  data[j - w + 1] \in Int
    <3>1. j - w + 1 \in 1..n BY <1>1, <2>1
    <3> QED BY <1>1, <3>1
  <2> QED BY <1>1, <2>1
<1>3. Packet!PutAtWritePos(b, data) = [b EXCEPT !.mem = cells]
  BY <1>1 DEF Packet!PutAtWritePos
<1>4. \A j \in 0..(BUFFER_SIZE - 1) :
        cells[j] = IF j \in w..(w + n - 1) THEN data[j - w + 1] ELSE b.mem[j]
  OBVIOUS
<1> HIDE DEF cells
<1>5. Packet!Write(b, data) =
        [b EXCEPT !.mem = cells, !.write_pos = w + n, !.filled = b.filled + n]
  BY <1>3 DEF Packet!Write, Packet!ShiftWritePos, PacketBuffers
<1>6. b.filled + n \in Int /\ w + n \in Int /\ b \in PacketBuffers
  BY <1>1 DEF PacketBuffers
<1> HIDE DEF w, n
<1>7. LET c == Packet!Write(b, data)
      IN  /\ c \in PacketBuffers
          /\ c.filled = b.filled + n /\ c.read_pos = b.read_pos
          /\ c.write_pos = w + n /\ c.mem = cells
  BY ONLY <1>2, <1>5, <1>6 DEF PacketBuffers
<1> QED BY ONLY <1>4, <1>7 DEF w, n, DataWritten

LEMMA PacketShiftFacts ==
  ASSUME NEW b \in PacketBuffers, NEW n \in Int
  PROVE  /\ ReadShifted(Packet!ShiftReadPos(b, n), b, n)
         /\ WriteShifted(Packet!ShiftWritePos(b, n), b, n)
<1>1. /\ b.read_pos + n \in Int /\ b.write_pos + n \in Int /\ b.filled + n \in Int
      /\ b \in PacketBuffers
  BY DEF PacketBuffers
<1>2. Packet!ShiftReadPos(b, n) = [b EXCEPT !.read_pos = b.read_pos + n]
  BY DEF Packet!ShiftReadPos
<1>3. Packet!ShiftWritePos(b, n) =
        [b EXCEPT !.write_pos = b.write_pos + n, !.filled = b.filled + n]
  BY DEF Packet!ShiftWritePos
<1>4. ReadShifted(Packet!ShiftReadPos(b, n), b, n)
  BY ONLY <1>1, <1>2 DEF PacketBuffers, ReadShifted
<1>5. WriteShifted(Packet!ShiftWritePos(b, n), b, n)
  BY ONLY <1>1, <1>3 DEF PacketBuffers, WriteShifted
<1> QED BY ONLY <1>4, <1>5

LEMMA InitialisedFacts ==
  ASSUME NEW b \in PacketBuffers
  PROVE  MadeEmpty(Packet!Initialised(b), b)
<1> DEFINE cells == [j \in 0..(BUFFER_SIZE - 1) |-> IF j < b.filled THEN 0 ELSE b.mem[j]]
           clear == Packet!Clear(b)
           back == Packet!ShiftWritePos(clear, 2)
<1>1. /\ b.mem \in [0..(BUFFER_SIZE - 1) -> Int] /\ DOMAIN b.mem = 0..(BUFFER_SIZE - 1)
  BY DEF PacketBuffers
<1>2. /\ cells \in [0..(BUFFER_SIZE - 1) -> Int]
      /\ \A j \in 0..(BUFFER_SIZE - 1) : cells[j] = IF j < b.filled THEN 0 ELSE b.mem[j]
  <2>1. ASSUME NEW j \in 0..(BUFFER_SIZE - 1)
        PROVE  (IF j < b.filled THEN 0 ELSE b.mem[j]) \in Int
    <3>1. b.mem[j] \in Int BY ONLY <1>1
    <3> QED BY ONLY <3>1
  <2> QED BY ONLY <2>1
<1>3. clear = [b EXCEPT !.mem = cells, !.filled = 0, !.read_pos = 0, !.write_pos = 0]
  BY <1>1 DEF Packet!Clear
<1>4. b \in PacketBuffers
  OBVIOUS
<1> HIDE DEF cells, clear
<1>5. /\ clear \in PacketBuffers /\ clear.mem = cells
      /\ clear.filled = 0 /\ clear.read_pos = 0 /\ clear.write_pos = 0
  <2> DEFINE step == [b EXCEPT !.mem = cells]
             next == [step EXCEPT !.filled = 0]
  <2>1. cells \in [0..(BUFFER_SIZE - 1) -> Int] BY ONLY <1>2
  <2>2. step \in PacketBuffers /\ step.mem = cells
    BY ONLY <1>4, <2>1 DEF PacketBuffers
  <2>3. clear = [step EXCEPT !.filled = 0, !.read_pos = 0, !.write_pos = 0]
    BY ONLY <1>3
  <2> HIDE DEF step
  <2>4. next \in PacketBuffers /\ next.mem = cells /\ next.filled = 0
    BY ONLY <2>2 DEF PacketBuffers
  <2>5. clear = [next EXCEPT !.read_pos = 0, !.write_pos = 0] BY ONLY <2>3
  <2> HIDE DEF next
  <2> QED BY ONLY <2>4, <2>5 DEF PacketBuffers
<1>6. /\ back \in PacketBuffers /\ back.mem = cells
      /\ back.filled = 2 /\ back.read_pos = 0 /\ back.write_pos = 2
  <2>1. WriteShifted(back, clear, 2) BY ONLY <1>5, PacketShiftFacts
  <2> HIDE DEF back
  <2> QED BY ONLY <1>5, <2>1 DEF WriteShifted
<1>7. Packet!Initialised(b) = Packet!ShiftReadPos(back, 2)
  BY DEF Packet!Initialised, Packet!HEADER_SIZE, clear
<1> HIDE DEF back
<1>8. ReadShifted(Packet!Initialised(b), back, 2)
  <2>1. ReadShifted(Packet!ShiftReadPos(back, 2), back, 2) BY ONLY <1>6, PacketShiftFacts
  <2> QED BY ONLY <1>7, <2>1
<1> QED BY ONLY <1>2, <1>6, <1>8 DEF ReadShifted, MadeEmpty

\* An empty packet.
LEMMA NoItems ==
  ASSUME NEW b \in PacketBuffers, NEW got,
         b.filled = 2 /\ b.read_pos = 2 /\ b.write_pos = 2 /\ b.mem[0] = 0,
         got = Packet!Nothing
  PROVE  PacketIn(b, << >>, 0, got)
<1>1. Len(<< >>) = 0 /\ << >> \in Seq(Packet!Items)
  OBVIOUS
<1>2. PacketTypes(b, << >>, 0)
  BY <1>1, PacketAssumption DEF PacketTypes
<1>3. PiecesAt(b, << >>, [k \in 0..0 |-> 2])
  BY <1>1 DEF PiecesAt
<1>4. [k \in 0..0 |-> 2][0] = b.read_pos
  OBVIOUS
<1>5. \E at : PiecesAt(b, << >>, at) /\ at[0] = b.read_pos BY ONLY <1>3, <1>4
<1> QED BY ONLY <1>2, <1>5, got = Packet!Nothing DEF PacketIn

LEMMA NewPacketBuffer ==
  /\ Packet!NewBuffer(BUFFER_SIZE) \in PacketBuffers
  /\ Packet!NewBuffer(BUFFER_SIZE).filled = 0
  /\ \A j \in 0..(BUFFER_SIZE - 1) : Packet!NewBuffer(BUFFER_SIZE).mem[j] = 0
<1>1. [j \in 0..(BUFFER_SIZE - 1) |-> 0] \in [0..(BUFFER_SIZE - 1) -> Int]
  OBVIOUS
<1> QED BY <1>1 DEF Packet!NewBuffer, PacketBuffers

LEMMA PacketInitInv ==
  ASSUME Packet!Init
  PROVE  PacketIn(s1, s2, s3, s4)
<1>1. PICK p \in Protocols :
        s1 = Packet!SetCell(Packet!Initialised(Packet!NewBuffer(BUFFER_SIZE)), 1, p)
  BY DEF Packet!Init
<1> DEFINE new == Packet!NewBuffer(BUFFER_SIZE)
           b == Packet!Initialised(new)
<1>2. p \in Int /\ 0 \in 0..(BUFFER_SIZE - 1) /\ 1 \in 0..1 BY PacketAssumption
<1>3. new \in PacketBuffers /\ new.filled = 0 /\ \A j \in 0..(BUFFER_SIZE - 1) : new.mem[j] = 0
  BY NewPacketBuffer
<1>4. /\ b \in PacketBuffers /\ b.filled = 2 /\ b.read_pos = 2 /\ b.write_pos = 2
      /\ b.mem[0] = 0
  <2>1. MadeEmpty(b, new) BY <1>3, InitialisedFacts
  <2> HIDE DEF b, new
  <2> QED BY ONLY <1>2, <1>3, <2>1 DEF MadeEmpty
<1> HIDE DEF new, b
<1>5. s1 = Packet!SetCell(b, 1, p) BY <1>1 DEF b, new
<1>6. /\ s1 \in PacketBuffers /\ s1.filled = 2 /\ s1.read_pos = 2 /\ s1.write_pos = 2
      /\ s1.mem[0] = 0
  <2>1. CellSet(s1, b, 1, p)
    <3>1. CellSet(Packet!SetCell(b, 1, p), b, 1, p) BY ONLY <1>2, <1>4, SetCellFacts
    <3> QED BY ONLY <1>5, <3>1
  <2> QED BY ONLY <1>2, <1>4, <2>1 DEF CellSet
<1>7. s2 = << >> /\ s3 = 0 /\ s4 = Packet!Nothing BY DEF Packet!Init
<1> QED BY ONLY <1>6, <1>7, NoItems

\* packet << value.
LEMMA PutKeeps ==
  ASSUME PacketIn(s1, s2, s3, s4), NEW item \in Packet!Items, Packet!Put(item)
  PROVE  PacketIn(s1', s2', s3', s4')
<1> DEFINE enc == Packet!Encoded(item)
           w == s1.write_pos
           n == Len(enc)
<1>1. enc \in Seq(Int) /\ n \in Nat \ {0} BY EncodedFacts
<1>2. /\ s1 \in PacketBuffers /\ s1.filled = w /\ 2 <= w /\ w <= BUFFER_SIZE /\ w \in Int
      /\ s1.mem[0] = w - 2 /\ s2 \in Seq(Packet!Items) /\ s3 \in 0..Len(s2)
      /\ s1.capacity = BUFFER_SIZE /\ s1.mem \in [0..(BUFFER_SIZE - 1) -> Int]
  BY DEF PacketIn, PacketTypes, PacketBuffers
<1>3. s3' = s3 /\ s4' = s4 BY DEF Packet!Put
<1>4. CASE ~Packet!CanWrite(s1, enc)
  <2>1. s1' = s1 /\ s2' = s2 BY <1>4 DEF Packet!Put, Packet!Written
  <2> QED BY ONLY <1>3, <2>1, PacketIn(s1, s2, s3, s4)
<1>5. CASE Packet!CanWrite(s1, enc)
  <2>1. w + n <= BUFFER_SIZE
    <3>1. n <= BUFFER_SIZE - w BY <1>2, <1>5 DEF Packet!CanWrite, Packet!WritableSize
    <3> QED BY ONLY <1>1, <1>2, <3>1, PacketAssumption
  <2> DEFINE b == Packet!Write(s1, enc)
  <2>2. /\ s1' = Packet!SetCell(b, 0, s1.mem[0] + n)
        /\ s2' = Append(s2, item)
    BY <1>5 DEF Packet!Put, Packet!Written, Packet!Datasize
  <2>3. DataWritten(b, s1, enc) BY ONLY <1>1, <1>2, PacketWriteFacts
  <2> HIDE DEF b
  <2>4. s1.mem[0] + n = w - 2 + n /\ w - 2 + n \in Int BY ONLY <1>1, <1>2
  <2>5. CellSet(s1', b, 0, w - 2 + n)
    <3>1. CellSet(Packet!SetCell(b, 0, w - 2 + n), b, 0, w - 2 + n)
      BY ONLY <2>3, <2>4, SetCellFacts, 0 \in 0..1 DEF DataWritten
    <3> QED BY ONLY <2>2, <2>4, <3>1
  <2>6. /\ s1' \in PacketBuffers /\ s1'.filled = w + n /\ s1'.write_pos = w + n
        /\ s1'.read_pos = s1.read_pos /\ s1'.mem[0] = w - 2 + n
        /\ \A j \in 0..(BUFFER_SIZE - 1) :
             j # 0 => s1'.mem[j] = IF j \in w..(w + n - 1) THEN enc[j - w + 1] ELSE s1.mem[j]
    <3> HIDE DEF w, n, enc
    <3>1. /\ s1' \in PacketBuffers /\ s1'.filled = b.filled /\ s1'.write_pos = b.write_pos
          /\ s1'.read_pos = b.read_pos /\ s1'.mem[0] = w - 2 + n
          /\ \A j \in 0..(BUFFER_SIZE - 1) : j # 0 => s1'.mem[j] = b.mem[j]
      BY ONLY <2>5 DEF CellSet
    <3>2. /\ b.filled = s1.filled + n /\ b.read_pos = s1.read_pos /\ b.write_pos = w + n
          /\ \A j \in 0..(BUFFER_SIZE - 1) :
               b.mem[j] = IF j \in w..(w + n - 1) THEN enc[j - w + 1] ELSE s1.mem[j]
      BY ONLY <2>3 DEF DataWritten, w, n
    <3> QED BY ONLY <1>2, <3>1, <3>2
  <2> DEFINE size == BUFFER_SIZE
  <2>0. w \in Int /\ 2 <= w /\ n \in Int /\ 0 < n /\ w + n <= size /\ size \in Int
    BY ONLY <1>1, <1>2, <2>1, PacketAssumption
  <2>7. ASSUME NEW i \in 2..(w - 1)
        PROVE  s1'.mem[i] = s1.mem[i] /\ s1.mem[i] \in Int
    <3>1. i \in 0..(BUFFER_SIZE - 1) /\ i # 0 /\ i \notin w..(w + n - 1)
      <4> HIDE DEF w, n, size
      <4>1. i \in 0..(size - 1) /\ i # 0 /\ i \notin w..(w + n - 1) BY ONLY <2>0, <2>7
      <4> QED BY ONLY <4>1 DEF size
    <3>2. s1'.mem[i] = s1.mem[i] BY ONLY <2>6, <3>1
    <3>3. s1.mem[i] \in Int BY ONLY <1>2, <3>1
    <3> QED BY ONLY <3>2, <3>3
  <2>8. ASSUME NEW i \in 1..n
        PROVE  s1'.mem[w + i - 1] = enc[i]
    <3>1. /\ w + i - 1 \in 0..(BUFFER_SIZE - 1) /\ w + i - 1 # 0
          /\ w + i - 1 \in w..(w + n - 1) /\ (w + i - 1) - w + 1 = i
      <4> HIDE DEF w, n, size
      <4>1. /\ w + i - 1 \in 0..(size - 1) /\ w + i - 1 # 0
            /\ w + i - 1 \in w..(w + n - 1) /\ (w + i - 1) - w + 1 = i
        BY ONLY <2>0, <2>8
      <4> QED BY ONLY <4>1 DEF size
    <3> QED BY ONLY <2>6, <3>1
  <2>9. PICK at : PiecesAt(s1, s2, at) /\ at[s3] = s1.read_pos BY DEF PacketIn
  <2>10. Longer(s1', s2, item, at)
    <3>1. Extends(s1', s1, enc) BY ONLY <2>6, <2>7, <2>8 DEF Extends
    <3>2. /\ s1.write_pos \in Int /\ 2 <= s1.write_pos /\ s2 \in Seq(Packet!Items)
          /\ item \in Packet!Items /\ PiecesAt(s1, s2, at)
      BY <1>2, <2>9
    <3> QED BY ONLY <3>1, <3>2, PiecesMore
  <2>11. PICK more : PiecesAt(s1', s2', more) /\ \A k \in 0..Len(s2) : more[k] = at[k]
    BY ONLY <2>2, <2>10 DEF Longer
  <2>12. more[s3] = s1'.read_pos BY ONLY <1>2, <2>6, <2>9, <2>11
  <2>13. /\ s2' \in Seq(Packet!Items) /\ Len(s2') = Len(s2) + 1
         /\ \A i \in 1..Len(s2) : s2'[i] = s2[i]
    BY ONLY <1>2, <2>2, AppendProperties, item \in Packet!Items
  <2>14. PacketTypes(s1', s2', s3)
    <3> HIDE DEF w, n
    <3>1. 2 <= w + n /\ w - 2 + n = (w + n) - 2 BY ONLY <1>1, <1>2
    <3>2. s3 \in 0..Len(s2')
      <4>1. Len(s2) \in Nat BY ONLY <1>2, LenProperties
      <4> QED BY ONLY <1>2, <2>13, <4>1
    <3> QED BY ONLY <2>1, <2>6, <2>13, <3>1, <3>2 DEF PacketTypes
  <2>15. s4 # Packet!Nothing => s3 > 0 /\ s4 = s2'[s3]
    <3>1. s4 # Packet!Nothing => s3 > 0 /\ s4 = s2[s3] BY DEF PacketIn
    <3>2. s3 > 0 => s3 \in 1..Len(s2) BY ONLY <1>2
    <3> QED BY ONLY <2>13, <3>1, <3>2
  <2>16. \E at1 : PiecesAt(s1', s2', at1) /\ at1[s3] = s1'.read_pos BY ONLY <2>11, <2>12
  <2> QED BY ONLY <1>3, <2>14, <2>15, <2>16 DEF PacketIn
<1> QED BY ONLY <1>4, <1>5

\* A buffer with the same bytes is as good, its read position where it was or
\* in front of another item.
LEMMA MatchKeeps ==
  ASSUME PacketIn(s1, s2, s3, s4), NEW c \in PacketBuffers, NEW taken \in 0..Len(s2), NEW got,
         NEW at, PiecesAt(s1, s2, at), Matches(c, s1), c.filled = s1.filled,
         c.mem[0] = s1.mem[0], c.read_pos = at[taken],
         got # Packet!Nothing => taken > 0 /\ got = s2[taken]
  PROVE  PacketIn(c, s2, taken, got)
<1>1. /\ s1.write_pos \in Int /\ s2 \in Seq(Packet!Items) /\ PacketTypes(s1, s2, s3)
  BY DEF PacketIn, PacketTypes, PacketBuffers
<1>2. PiecesAt(c, s2, at) BY <1>1, PiecesStay
<1>3. c.write_pos = s1.write_pos BY DEF Matches
<1>4. PacketTypes(c, s2, taken) BY <1>1, <1>3 DEF PacketTypes
<1> QED BY <1>2, <1>4 DEF PacketIn

\* The next string ends at the first zero.
LEMMA StringFound ==
  ASSUME NEW b \in PacketBuffers, NEW s \in Seq(Int \ {0}), 0 <= b.read_pos,
         b.read_pos + (Len(s) + 1) <= BUFFER_SIZE,
         Packet!BytesFrom(b, b.read_pos, Len(s) + 1) = Append(s, 0)
  PROVE  Packet!StringAt(b) = s
<1> DEFINE r == b.read_pos
           n == Len(s)
           last == BUFFER_SIZE - 1
           IsEnd(i) == b.mem[i] = 0 /\ \A j \in r..(i - 1) : b.mem[j] # 0
           end == CHOOSE i \in r..last : IsEnd(i)
<1>1. /\ r \in Int /\ 0 <= r /\ n \in Nat /\ r + (n + 1) <= BUFFER_SIZE /\ BUFFER_SIZE \in Int
      /\ b.capacity - 1 = last
  BY PacketAssumption DEF PacketBuffers
<1>2. /\ \A i \in 1..n : b.mem[r + i - 1] = s[i] /\ s[i] # 0
      /\ b.mem[r + (n + 1) - 1] = 0
  <2>1. Append(s, 0) = [i \in 1..(n + 1) |-> b.mem[r + i - 1]]
    BY DEF Packet!BytesFrom
  <2>2. \A i \in 1..n : Append(s, 0)[i] = s[i] /\ s[i] # 0
    OBVIOUS
  <2>3. Append(s, 0)[n + 1] = 0
    OBVIOUS
  <2> HIDE DEF n, r
  <2>4. n + 1 \in 1..(n + 1) /\ \A i \in 1..n : i \in 1..(n + 1) BY ONLY <1>1
  <2> QED BY ONLY <2>1, <2>2, <2>3, <2>4
<1>3. Packet!StringAt(b) = Packet!BytesFrom(b, r, end - r)
  BY <1>1 DEF Packet!StringAt
<1>4. s = [i \in 1..n |-> s[i]]
  OBVIOUS
<1> HIDE DEF r, n, last, end
<1>5. r + n \in r..last /\ IsEnd(r + n)
  <2>1. r + n \in r..last BY ONLY <1>1 DEF last
  <2>2. b.mem[r + n] = 0
    <3>1. r + (n + 1) - 1 = r + n BY ONLY <1>1
    <3> QED BY ONLY <1>2, <3>1
  <2>3. ASSUME NEW j \in r..((r + n) - 1)
        PROVE  b.mem[j] # 0
    <3>1. j - r + 1 \in 1..n /\ r + (j - r + 1) - 1 = j BY ONLY <1>1, <2>3
    <3> QED BY ONLY <1>2, <3>1
  <2> QED BY ONLY <2>1, <2>2, <2>3
<1>6. end \in r..last /\ IsEnd(end)
  <2> HIDE DEF IsEnd
  <2> QED BY ONLY <1>5 DEF end
<1>7. end = r + n
  <2>1. ASSUME end < r + n
        PROVE  FALSE
    <3>1. end \in r..((r + n) - 1) BY ONLY <1>1, <1>6, <2>1
    <3> QED BY ONLY <1>5, <1>6, <3>1
  <2>2. ASSUME r + n < end
        PROVE  FALSE
    <3>1. r + n \in r..(end - 1) BY ONLY <1>1, <1>6, <2>2
    <3> QED BY ONLY <1>5, <1>6, <3>1
  <2>3. end \in Int BY ONLY <1>1, <1>6 DEF last
  <2> QED BY ONLY <1>1, <2>1, <2>2, <2>3
<1>8. end - r = n BY ONLY <1>1, <1>7
<1>9. Packet!BytesFrom(b, r, n) = [i \in 1..n |-> s[i]]
  BY ONLY <1>2 DEF Packet!BytesFrom
<1> QED BY ONLY <1>3, <1>4, <1>8, <1>9

\* packet >> value: the item that is next.
LEMMA TakeKeeps ==
  ASSUME PacketIn(s1, s2, s3, s4), Packet!Take
  PROVE  PacketIn(s1', s2', s3', s4')
<1> DEFINE item == s2[s3 + 1]
           enc == Packet!Encoded(item)
           n == Len(enc)
<1>1. /\ s1 \in PacketBuffers /\ s1.write_pos <= BUFFER_SIZE
      /\ s2 \in Seq(Packet!Items) /\ s3 \in 0..Len(s2)
  BY DEF PacketIn, PacketTypes
<1>2. PICK at : PiecesAt(s1, s2, at) /\ at[s3] = s1.read_pos BY DEF PacketIn
<1>3. s3 + 1 \in 0..Len(s2) /\ s3 + 1 \in 1..Len(s2) /\ s3 \in 0..(Len(s2) - 1) /\ s3 + 1 > 0
  BY <1>1 DEF Packet!Take
<1>4. item \in Packet!Items BY <1>1, <1>3, ElementOfSeq
<1>5. enc \in Seq(Int) /\ n \in Nat \ {0} BY <1>4, EncodedFacts
<1>6. /\ 2 <= s1.read_pos /\ at[s3 + 1] <= s1.write_pos /\ at[s3 + 1] = s1.read_pos + n
      /\ Packet!BytesFrom(s1, s1.read_pos, n) = enc
  BY <1>2, <1>3 DEF PiecesAt
<1>7. s1.read_pos \in Int /\ s1.write_pos \in Int BY <1>1 DEF PacketBuffers
<1>8. s2' = s2 /\ s3' = s3 + 1 BY DEF Packet!Take
<1>9. s4' = item /\ s1' = Packet!ShiftReadPos(s1, n)
  <2>1. CASE item[1] = "int"
    <3>1. enc = <<item[2]>> /\ item = Packet!IntItem(item[2]) BY <1>4, <2>1, EncodedFacts
    <3>2. n = 1 /\ enc[1] = item[2] BY <3>1
    <3>3. Packet!Peek(s1, 1) = enc BY <1>6, <3>2 DEF Packet!Peek
    <3>4. s4' = Packet!IntItem(Packet!Peek(s1, 1)[1]) /\ s1' = Packet!ShiftReadPos(s1, 1)
      BY <2>1 DEF Packet!Take
    <3> QED BY ONLY <3>1, <3>2, <3>3, <3>4
  <2>2. CASE item[1] # "int"
    <3> DEFINE str == item[2]
    <3>1. /\ str \in Seq(Int \ {0}) /\ item = Packet!StringItem(str) /\ enc = Append(str, 0)
      BY <1>4, <2>2, EncodedFacts
    <3>2. n = Len(str) + 1 BY <3>1
    <3>3. s1.read_pos + (Len(str) + 1) <= BUFFER_SIZE /\ 0 <= s1.read_pos
      <4>1. s1.read_pos + n <= BUFFER_SIZE /\ 0 <= s1.read_pos
        <5>1. /\ s1.read_pos + n <= s1.write_pos /\ s1.write_pos <= BUFFER_SIZE
              /\ 2 <= s1.read_pos
          BY ONLY <1>1, <1>6
        <5>2. s1.read_pos \in Int /\ s1.write_pos \in Int /\ n \in Int /\ BUFFER_SIZE \in Int
          BY ONLY <1>5, <1>7, PacketAssumption
        <5> HIDE DEF n
        <5> QED BY ONLY <5>1, <5>2
      <4> QED BY ONLY <3>2, <4>1
    <3>4. Packet!BytesFrom(s1, s1.read_pos, Len(str) + 1) = Append(str, 0)
      BY ONLY <1>6, <3>1, <3>2
    <3> HIDE DEF str
    <3>5. Packet!StringAt(s1) = str BY ONLY <1>1, <3>1, <3>3, <3>4, StringFound
    <3>6. /\ s4' = Packet!StringItem(Packet!StringAt(s1))
          /\ s1' = Packet!ShiftReadPos(s1, Len(Packet!StringAt(s1)) + 1)
      BY <2>2 DEF Packet!Take
    <3> QED BY ONLY <3>1, <3>2, <3>5, <3>6
  <2> QED BY ONLY <2>1, <2>2
<1>10. ReadShifted(s1', s1, n)
  <2>1. ReadShifted(Packet!ShiftReadPos(s1, n), s1, n)
    BY ONLY <1>1, <1>5, PacketShiftFacts, n \in Int
  <2> QED BY ONLY <1>9, <2>1
<1>11. /\ s1' \in PacketBuffers /\ Matches(s1', s1) /\ s1'.filled = s1.filled
       /\ s1'.mem[0] = s1.mem[0] /\ s1'.read_pos = at[s3 + 1]
  BY ONLY <1>6, <1>10 DEF ReadShifted, Matches
<1>12. PacketIn(s1, s2, s3, s4)
  OBVIOUS
<1>13. PacketIn(s1', s2, s3 + 1, s4')
  BY ONLY <1>2, <1>3, <1>9, <1>11, <1>12, MatchKeeps
<1> QED BY ONLY <1>8, <1>13

\* A new protocol changes only the header.
LEMMA SetProtocolKeeps ==
  ASSUME PacketIn(s1, s2, s3, s4), NEW id \in Protocols, Packet!SetProtocol(id)
  PROVE  PacketIn(s1', s2', s3', s4')
<1>1. s2' = s2 /\ s3' = s3 /\ s4' = s4 /\ s1' = Packet!SetCell(s1, 1, id)
  BY DEF Packet!SetProtocol
<1>2. /\ s1 \in PacketBuffers /\ s1.write_pos <= BUFFER_SIZE /\ s1.write_pos \in Int
      /\ s3 \in 0..Len(s2)
      /\ s4 # Packet!Nothing => s3 > 0 /\ s4 = s2[s3]
  BY DEF PacketIn, PacketTypes, PacketBuffers
<1>3. id \in Int /\ 1 \in 0..1 /\ BUFFER_SIZE \in Int /\ 2 <= BUFFER_SIZE
  BY PacketAssumption
<1>4. CellSet(s1', s1, 1, id)
  <2>1. CellSet(Packet!SetCell(s1, 1, id), s1, 1, id) BY ONLY <1>2, <1>3, SetCellFacts
  <2> QED BY ONLY <1>1, <2>1
<1>5. PICK at : PiecesAt(s1, s2, at) /\ at[s3] = s1.read_pos BY DEF PacketIn
<1>6. /\ s1' \in PacketBuffers /\ s1'.filled = s1.filled /\ s1'.read_pos = at[s3]
      /\ s1'.write_pos = s1.write_pos
      /\ \A j \in 0..(BUFFER_SIZE - 1) : j # 1 => s1'.mem[j] = s1.mem[j]
  BY ONLY <1>4, <1>5 DEF CellSet
<1>7. s1'.mem[0] = s1.mem[0]
  <2>1. 0 \in 0..(BUFFER_SIZE - 1) /\ 0 # 1 BY ONLY <1>3
  <2> QED BY ONLY <1>6, <2>1
<1>8. Matches(s1', s1)
  <2>1. ASSUME NEW i \in 2..(s1.write_pos - 1)
        PROVE  s1'.mem[i] = s1.mem[i]
    <3>1. i \in 0..(BUFFER_SIZE - 1) /\ i # 1 BY ONLY <1>2, <1>3, <2>1
    <3> QED BY ONLY <1>6, <3>1
  <2> QED BY ONLY <1>6, <2>1 DEF Matches
<1>9. PacketIn(s1, s2, s3, s4)
  OBVIOUS
<1>10. PacketIn(s1', s2, s3, s4) BY ONLY <1>2, <1>5, <1>6, <1>7, <1>8, <1>9, MatchKeeps
<1> QED BY ONLY <1>1, <1>10

LEMMA ResetKeeps ==
  ASSUME PacketIn(s1, s2, s3, s4), Packet!Reset
  PROVE  PacketIn(s1', s2', s3', s4')
<1>1. /\ s1' = Packet!Initialised(s1) /\ s2' = << >> /\ s3' = 0 /\ s4' = Packet!Nothing
  BY DEF Packet!Reset
<1>2. s1 \in PacketBuffers /\ s1.filled = s1.write_pos /\ 2 <= s1.write_pos /\ s1.filled \in Int
  BY DEF PacketIn, PacketTypes, PacketBuffers
<1>3. MadeEmpty(s1', s1)
  <2>1. MadeEmpty(Packet!Initialised(s1), s1) BY ONLY <1>2, InitialisedFacts
  <2> QED BY ONLY <1>1, <2>1
<1>4. s1'.mem[0] = 0
  <2>1. 0 \in 0..(BUFFER_SIZE - 1) BY PacketAssumption
  <2>2. s1'.mem[0] = IF 0 < s1.filled THEN 0 ELSE s1.mem[0]
    BY ONLY <1>3, <2>1 DEF MadeEmpty
  <2>3. 0 < s1.filled BY ONLY <1>2
  <2> QED BY ONLY <2>2, <2>3
<1>5. /\ s1' \in PacketBuffers
      /\ s1'.filled = 2 /\ s1'.read_pos = 2 /\ s1'.write_pos = 2
  BY ONLY <1>3 DEF MadeEmpty
<1> QED BY ONLY <1>1, <1>4, <1>5, NoItems

\* The other end has the same bytes, and has read none of them.
LEMMA ArriveKeeps ==
  ASSUME PacketIn(s1, s2, s3, s4), Packet!Arrive
  PROVE  PacketIn(s1', s2', s3', s4')
<1> DEFINE new == Packet!NewBuffer(BUFFER_SIZE)
           w == s1.write_pos
           bytes == Packet!BytesFrom(s1, 0, w)
           empty == Packet!Initialised(new)
           back == Packet!ShiftWritePos(empty, -2)
           size == BUFFER_SIZE
<1>1. /\ s1 \in PacketBuffers /\ s1.filled = w /\ 2 <= w /\ w <= size /\ w \in Int
      /\ s1.mem \in [0..(size - 1) -> Int] /\ size \in Int /\ s2 \in Seq(Packet!Items)
  BY PacketAssumption DEF PacketIn, PacketTypes, PacketBuffers
<1>2. s2' = s2 /\ s3' = 0 /\ s4' = Packet!Nothing BY DEF Packet!Arrive
<1>3. s1' = Packet!Write(back, bytes)
  BY <1>1 DEF Packet!Arrive, Packet!SetTo, Packet!HEADER_SIZE
<1>4. MadeEmpty(empty, new)
  <2>1. new \in PacketBuffers BY NewPacketBuffer
  <2> QED BY ONLY <2>1, InitialisedFacts
<1>5. bytes = [i \in 1..w |-> s1.mem[0 + i - 1]]
  BY DEF Packet!BytesFrom
<1> HIDE DEF w, size, new, empty, bytes
<1>6. WriteShifted(back, empty, -2)
  <2>1. empty \in PacketBuffers /\ -2 \in Int BY ONLY <1>4 DEF MadeEmpty
  <2> QED BY ONLY <2>1, PacketShiftFacts
<1> HIDE DEF back
<1>7. /\ back \in PacketBuffers /\ back.filled = 0 /\ back.write_pos = 0 /\ back.read_pos = 2
  BY ONLY <1>4, <1>6 DEF MadeEmpty, WriteShifted
<1>8. bytes \in Seq(Int) /\ Len(bytes) = w /\ \A i \in 1..w : bytes[i] = s1.mem[0 + i - 1]
  <2>1. ASSUME NEW i \in 1..w
        PROVE  s1.mem[0 + i - 1] \in Int
    <3>1. 0 + i - 1 \in 0..(size - 1) BY ONLY <1>1, <2>1
    <3> QED BY ONLY <1>1, <3>1
  <2>2. w \in Nat BY ONLY <1>1
  <2> QED BY ONLY <1>5, <2>1, <2>2
<1>9. DataWritten(s1', back, bytes)
  <2>1. DataWritten(Packet!Write(back, bytes), back, bytes)
    BY ONLY <1>7, <1>8, PacketWriteFacts
  <2> QED BY ONLY <1>3, <2>1
<1>10. /\ s1' \in PacketBuffers /\ s1'.filled = w /\ s1'.read_pos = 2 /\ s1'.write_pos = w
       /\ \A j \in 0..(size - 1) :
            s1'.mem[j] = IF j \in 0..(0 + w - 1) THEN bytes[j - 0 + 1] ELSE back.mem[j]
  <2>1. 0 + w = w BY ONLY <1>1
  <2> QED BY ONLY <1>7, <1>8, <1>9, <2>1 DEF DataWritten, size
<1>11. ASSUME NEW j \in 0..(w - 1)
       PROVE  s1'.mem[j] = s1.mem[j]
  <2>1. /\ j \in 0..(size - 1) /\ j \in 0..(0 + w - 1) /\ j - 0 + 1 \in 1..w
        /\ 0 + (j - 0 + 1) - 1 = j
    BY ONLY <1>1, <1>11
  <2>2. s1'.mem[j] = bytes[j - 0 + 1] BY ONLY <1>10, <2>1
  <2> QED BY ONLY <1>8, <2>1, <2>2
<1>12. PICK at : PiecesAt(s1, s2, at) BY DEF PacketIn
<1>13. at[0] = s1'.read_pos BY ONLY <1>10, <1>12 DEF PiecesAt
<1>14. Matches(s1', s1)
  <2>1. ASSUME NEW i \in 2..(w - 1)
        PROVE  s1'.mem[i] = s1.mem[i]
    <3>1. i \in 0..(w - 1) BY ONLY <1>1, <2>1
    <3> QED BY ONLY <1>11, <3>1
  <2> QED BY ONLY <1>10, <2>1 DEF Matches, w
<1>15. s1'.mem[0] = s1.mem[0]
  <2>1. 0 \in 0..(w - 1) BY ONLY <1>1
  <2> QED BY ONLY <1>11, <2>1
<1>16. 0 \in 0..Len(s2)
  <2>1. Len(s2) \in Nat BY ONLY <1>1, LenProperties
  <2> QED BY ONLY <2>1
<1>17. PacketIn(s1, s2, s3, s4)
  OBVIOUS
<1>18. PacketIn(s1', s2, 0, Packet!Nothing)
  BY ONLY <1>1, <1>10, <1>12, <1>13, <1>14, <1>15, <1>16, <1>17, MatchKeeps
<1> QED BY ONLY <1>2, <1>18

LEMMA PacketStep ==
  ASSUME PacketIn(s1, s2, s3, s4), Packet!Next
  PROVE  PacketIn(s1', s2', s3', s4')
<1>1. ASSUME Packet!TakeNothing
      PROVE  PacketIn(s1', s2', s3', s4')
  <2>1. s1' = s1 /\ s2' = s2 /\ s3' = s3 /\ s4' = Packet!Nothing
    BY <1>1 DEF Packet!TakeNothing
  <2>2. PacketIn(s1, s2, s3, Packet!Nothing) BY DEF PacketIn
  <2> QED BY ONLY <2>1, <2>2
<1> QED BY <1>1, PutKeeps, TakeKeeps, SetProtocolKeeps, ResetKeeps, ArriveKeeps
    DEF Packet!Next

\* What is left to read is what was written of the items that are left.
LEMMA PacketGives ==
  ASSUME PacketIn(s1, s2, s3, s4)
  PROVE  Packet!PacketCarriesItems
<1>1. /\ s1 \in PacketBuffers /\ s1.mem[0] = s1.filled - 2
      /\ s2 \in Seq(Packet!Items) /\ s3 \in 0..Len(s2)
      /\ s4 # Packet!Nothing => s3 > 0 /\ s4 = s2[s3]
  BY DEF PacketIn, PacketTypes
<1>2. PICK at : PiecesAt(s1, s2, at) /\ at[s3] = s1.read_pos BY DEF PacketIn
<1>3. Packet!Unread(s1) = Packet!BytesFrom(s1, s1.read_pos, s1.write_pos - s1.read_pos)
  BY DEF Packet!Unread, Packet!ReadableSize
<1>4. Packet!Unread(s1) = Packet!FlattenSeq(Rest(s2, s3))
  <2>1. Len(Rest(s2, s3)) = Len(s2) - s3
    <3>1. Len(s2) - s3 \in Nat BY <1>1
    <3> QED BY <3>1 DEF Rest
  <2>2. CASE s3 = Len(s2)
    <3>1. s1.read_pos = s1.write_pos BY <1>2, <2>2 DEF PiecesAt
    <3>2. s1.write_pos - s1.read_pos = 0 BY <1>1, <3>1 DEF PacketBuffers
    <3>3. Packet!Unread(s1) = [i \in 1..0 |-> s1.mem[s1.read_pos + i - 1]]
      BY ONLY <1>3, <3>2 DEF Packet!BytesFrom
    <3>4. Len(s2) - s3 = 0 BY <1>1, <2>2
    <3>5. Packet!FlattenSeq(Rest(s2, s3)) = Rest(s2, s3)
      BY ONLY <2>1, <3>4 DEF Packet!FlattenSeq
    <3>6. Rest(s2, s3) = [j \in 1..0 |-> Packet!Encoded(s2[s3 + j])]
      BY ONLY <3>4 DEF Rest
    <3>7. 1..0 = {}
      OBVIOUS
    <3> QED BY ONLY <3>3, <3>5, <3>6, <3>7
  <2>3. CASE s3 # Len(s2)
    <3>1. s3 \in 0..(Len(s2) - 1) /\ Len(s2) - s3 # 0 BY <1>1, <2>3
    <3>2. Flattened(Rest(s2, s3),
                    Packet!BytesFrom(s1, at[s3], s1.write_pos - at[s3]))
      BY <1>2, <3>1 DEF PiecesAt
    <3>3. Flattened(Rest(s2, s3), Packet!Unread(s1)) BY ONLY <1>2, <1>3, <3>2
    <3>4. Len(Rest(s2, s3)) # 0 BY ONLY <2>1, <3>1
    <3> QED BY ONLY <3>3, <3>4, FlattenIs
  <2> QED BY ONLY <2>2, <2>3
<1>5. Rest(s2, s3) = [k \in 1..Len(s2) - s3 |-> Packet!Encoded(s2[s3 + k])]
  BY DEF Rest
<1>6. Packet!Datasize(s1) = s1.filled - Packet!HEADER_SIZE
  BY <1>1 DEF Packet!Datasize, Packet!HEADER_SIZE
<1> QED BY ONLY <1>1, <1>4, <1>5, <1>6 DEF Packet!PacketCarriesItems

\* A packet gives back what it was given, in order, on this side of the wire or
\* on the other, and its header counts it, for any values, strings, protocols
\* and size of a packet (MyPacket.cpp:3-29, packet_test.cpp:10-21).
THEOREM PacketsCarryItems == BaseSpec => []PacketCarriesItems
<1>1. BaseInit => PacketInv
  BY PacketInitInv DEF BaseInit, PacketInv
<1>2. PacketInv /\ [BaseNext]_baseVars => PacketInv'
  <2> SUFFICES ASSUME PacketInv, [BaseNext]_baseVars PROVE PacketInv'
    OBVIOUS
  <2>1. subject' = subject BY DEF BaseNext, baseVars
  <2>2. CASE UNCHANGED slots
    <3>1. s1' = s1 /\ s2' = s2 /\ s3' = s3 /\ s4' = s4 BY <2>2 DEF slots
    <3> QED BY ONLY <2>1, <3>1, PacketInv DEF PacketInv
  <2>3. CASE UseSlots
    <3>1. ASSUME subject = "packet" PROVE Packet!Next BY <2>3, <3>1 DEF UseSlots
    <3> QED BY <2>1, <3>1, PacketStep DEF PacketInv
  <2> QED BY <2>2, <2>3
          DEF BaseNext, baseVars, UsePool, UseRing, UseStream, UseDate, UseTimer, UseBuffer
<1>3. PacketInv => PacketCarriesItems
  BY PacketGives DEF PacketInv, PacketCarriesItems
<1> QED BY <1>1, <1>2, <1>3, PTL DEF BaseSpec

(***************************************************************************)
(* What packets, addresses and files were given, they give back            *)
(* (MyPacket.cpp:3-29, SocketAddress.cpp:5-59, FileReader.cpp:44-84).      *)
(***************************************************************************)
THEOREM GivenIsGivenBack == BaseSpec => []GivesWhatWasGiven
BY PacketsCarryItems, GivenIsTaken, PTL DEF GivesWhatWasGiven
=============================================================================
