------------------------------- MODULE Buffer -------------------------------
(***************************************************************************)
(* Base/src/Buffer.cpp: objects that own an array of bytes, how they are   *)
(* constructed, copied, moved and destroyed, and how they grow.            *)
(*                                                                         *)
(* An object points to an array of the heap or to none (NoArray).  What    *)
(* the arrays hold is kept, so that a copy can be told from its original.  *)
(***************************************************************************)
EXTENDS Integers, Sequences, FiniteSets, SequencesExt

CONSTANTS Objects,       \* variables of type Buffer
          Arrays,        \* BOUND: addresses new can give
          NoArray,       \* the null pointer
          Bytes,         \* values a byte can have
          Capacities,    \* sizes given to Create and ReSize
          MaxSize        \* BOUND: bytes in one buffer

VARIABLES begin, capacity, filled,   \* the members of each object
          exists,                    \* objects between construction and destruction
          heap                       \* contents of the arrays that are allocated

vars == <<begin, capacity, filled, exists, heap>>

Allocated == DOMAIN heap
Unused == Arrays \ Allocated

\* The bytes an object holds: GetSize() of them, from Begin().
Holds(x) == IF filled[x] = 0 THEN << >> ELSE SubSeq(heap[begin[x]], 1, filled[x])

Zeros(n) == [i \in 1..n |-> CHOOSE b \in Bytes : TRUE]

\* `data' over the beginning of `array', from place `at' + 1 on.
Over(array, at, data) ==
  [i \in DOMAIN array |-> IF i \in at + 1..at + Len(data) THEN data[i - at] ELSE array[i]]

\* heap with one array more, and heap without the array of x.
With(h, a, bytes) == [b \in DOMAIN h \cup {a} |-> IF b = a THEN bytes ELSE h[b]]
Freed(x) == [b \in Allocated \ {begin[x]} |-> heap[b]]

Become(x, a, c, n) == /\ begin' = [begin EXCEPT ![x] = a]
                      /\ capacity' = [capacity EXCEPT ![x] = c]
                      /\ filled' = [filled EXCEPT ![x] = n]

Init == /\ begin = [x \in Objects |-> NoArray]
        /\ capacity = [x \in Objects |-> 0]
        /\ filled = [x \in Objects |-> 0]
        /\ exists = Objects
        /\ heap = [a \in {} |-> << >>]

\* Create(c), also called by the constructor: Free, Alloc, memset.
Create(x, c) ==
  \E a \in Unused :
    /\ x \in exists
    /\ Become(x, a, c, 0)
    /\ heap' = With(Freed(x), a, Zeros(c))
    /\ UNCHANGED exists

\* ReSize(n, is_keepdata): a larger array replaces the one there is.
Resized(x, n, keep, after(_)) ==
  IF n <= capacity[x]
  THEN /\ UNCHANGED <<begin, capacity>>
       /\ heap' = IF begin[x] = NoArray THEN heap
                  ELSE [heap EXCEPT ![begin[x]] = after(@)]
  ELSE \E a \in Unused :
         /\ begin' = [begin EXCEPT ![x] = a]
         /\ capacity' = [capacity EXCEPT ![x] = n]
         /\ heap' = With(Freed(x), a,
                         after(IF keep THEN Over(Zeros(n), 0, Holds(x)) ELSE Zeros(n)))

ReSize(x, n) ==
  /\ x \in exists
  /\ Resized(x, n, TRUE, LAMBDA array : array)
  /\ UNCHANGED <<filled, exists>>

Assign(x, data) ==
  /\ x \in exists
  /\ Resized(x, Len(data), FALSE, LAMBDA array : Over(array, 0, data))
  /\ filled' = [filled EXCEPT ![x] = Len(data)]
  /\ UNCHANGED exists

\* Mutant: the array grows without the bytes it holds.
AppendDropsData(x, data) ==
  /\ x \in exists
  /\ filled[x] + Len(data) <= MaxSize
  /\ Resized(x, filled[x] + Len(data), FALSE, LAMBDA array : Over(array, filled[x], data))
  /\ filled' = [filled EXCEPT ![x] = @ + Len(data)]
  /\ UNCHANGED exists

AppendBytes(x, data) ==
  /\ x \in exists
  /\ filled[x] + Len(data) <= MaxSize
  /\ Resized(x, filled[x] + Len(data), TRUE, LAMBDA array : Over(array, filled[x], data))
  /\ filled' = [filled EXCEPT ![x] = @ + Len(data)]
  /\ UNCHANGED exists

\* memset of the bytes it holds; without an array there are none.
Clear(x) ==
  /\ x \in exists
  /\ begin[x] # NoArray
  /\ heap' = [heap EXCEPT ![begin[x]] = Over(@, 0, Zeros(filled[x]))]
  /\ filled' = [filled EXCEPT ![x] = 0]
  /\ UNCHANGED <<begin, capacity, exists>>

\* The copy constructor, of an object with an array (Alloc asserts that).  It sets the size before Create, whose Free sets it
\* to 0 again: the bytes are copied and the copy counts none of them.
CopyConstruct(x, y) ==
  \E a \in Unused :
    /\ x \notin exists /\ y \in exists /\ begin[y] # NoArray
    /\ Become(x, a, capacity[y], 0)
    /\ heap' = With(heap, a, Over(Zeros(capacity[y]), 0, Holds(y)))
    /\ exists' = exists \cup {x}

\* operator= by copy and Swap: the temporary's destructor frees what x had.
CopyAssign(x, y) ==
  \E a \in Unused :
    /\ x # y /\ {x, y} \subseteq exists /\ begin[y] # NoArray
    /\ Become(x, a, capacity[y], 0)
    /\ heap' = With(Freed(x), a, Over(Zeros(capacity[y]), 0, Holds(y)))
    /\ UNCHANGED exists

\* Mutant: the source of a move keeps its pointer.
TakeShares(x, y) ==
  /\ begin' = [begin EXCEPT ![x] = begin[y]]
  /\ capacity' = [capacity EXCEPT ![x] = capacity[y], ![y] = 0]
  /\ filled' = [filled EXCEPT ![x] = filled[y], ![y] = 0]

\* x takes the members of y, which is left with none.
Take(x, y) ==
  /\ begin' = [begin EXCEPT ![x] = begin[y], ![y] = NoArray]
  /\ capacity' = [capacity EXCEPT ![x] = capacity[y], ![y] = 0]
  /\ filled' = [filled EXCEPT ![x] = filled[y], ![y] = 0]

MoveConstruct(x, y) ==
  /\ x \notin exists /\ y \in exists
  /\ Take(x, y)
  /\ exists' = exists \cup {x}
  /\ UNCHANGED heap

\* operator=(Buffer&&) does not free what x had: that array is lost.
MoveAssign(x, y) ==
  /\ x # y /\ {x, y} \subseteq exists
  /\ Take(x, y)
  /\ UNCHANGED <<exists, heap>>

\* The destructor: Free.
Destroy(x) ==
  /\ x \in exists
  /\ Become(x, NoArray, 0, 0)
  /\ heap' = Freed(x)
  /\ exists' = exists \ {x}

Data == UNION {[1..n -> Bytes] : n \in 1..2}

Next == \E x \in Objects :
          \/ \E c \in Capacities : Create(x, c) \/ ReSize(x, c)
          \/ \E data \in Data : Assign(x, data) \/ AppendBytes(x, data)
          \/ Clear(x)
          \/ Destroy(x)
          \/ \E y \in Objects : \/ CopyConstruct(x, y) \/ CopyAssign(x, y)
                                \/ MoveConstruct(x, y) \/ MoveAssign(x, y)

Spec == Init /\ [][Next]_vars

-----------------------------------------------------------------------------
(***************************************************************************)
(* No array is deleted twice or used after it was deleted: an array has at *)
(* most one owner, an owner's array is allocated and as large as it says,  *)
(* and no object counts more bytes than it has (Buffer.cpp:15-138).        *)
(***************************************************************************)
ArraysHaveOneOwner ==
  /\ \A x, y \in Objects : begin[x] = begin[y] => x = y \/ begin[x] = NoArray
  /\ \A x \in Objects :
       IF begin[x] = NoArray THEN capacity[x] = 0 /\ filled[x] = 0
       ELSE /\ begin[x] \in Allocated
            /\ Len(heap[begin[x]]) = capacity[x]
            /\ filled[x] <= capacity[x]

(***************************************************************************)
(* The objects are values: an operation changes what its own object holds  *)
(* as it should and no other's, except that a move leaves its source       *)
(* empty; the one surprise is that a copy, too, starts out empty           *)
(* (Buffer.cpp:15-118).                                                    *)
(***************************************************************************)
Held == [x \in Objects |-> Holds(x)]
ValueStep ==
  \A x \in Objects :
    /\ \A data \in Data :
         /\ Assign(x, data) => Held' = [Held EXCEPT ![x] = data]
         /\ AppendBytes(x, data) => Held' = [Held EXCEPT ![x] = @ \o data]
    /\ \A c \in Capacities : /\ ReSize(x, c) => Held' = Held
                            /\ Create(x, c) => Held' = [Held EXCEPT ![x] = << >>]
    /\ Clear(x) \/ Destroy(x) => Held' = [Held EXCEPT ![x] = << >>]
    /\ \A y \in Objects :
         /\ CopyConstruct(x, y) \/ CopyAssign(x, y) => Held' = [Held EXCEPT ![x] = << >>]
         /\ MoveConstruct(x, y) \/ MoveAssign(x, y)
              => Held' = [Held EXCEPT ![x] = Held[y], ![y] = << >>]
ObjectsAreValues == [][ValueStep]_vars
=============================================================================
