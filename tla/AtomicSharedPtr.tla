-------------------------- MODULE AtomicSharedPtr --------------------------
(***************************************************************************)
(* Base: atomic_shared_ptr.hpp, a std::shared_ptr and the mutex around     *)
(* each of its operations, and atomic_weak_ptr.hpp, the same for a         *)
(* std::weak_ptr.  Copying a shared_ptr is more than one step: the pointer *)
(* is read, and then the count of owners goes up.  An operation is a list  *)
(* of such steps; what it still has to do is `todo'.                       *)
(*                                                                         *)
(* Left out are the members that no program can use: the weak pointer's    *)
(* compare-exchange (`lock_guard(m_lock)' does not name a type), both      *)
(* compare_exchange_weak and the weak pointer's assignment from a          *)
(* shared_ptr do not compile.                                              *)
(***************************************************************************)
EXTENDS Integers, Sequences, FiniteSets

CONSTANTS Threads, Objects, Null, Nobody

VARIABLES ptr,      \* m_ptr
          lock,     \* who has m_lock
          entry,    \* history: m_ptr, and the holder's `mine', when it took it
          count,    \* owners of each object
          used,     \* objects made so far
          weak,     \* m_ptr of the weak pointer
          mine,     \* a shared_ptr of each thread: results, and what it expects
          strong,   \* a shared_ptr that the weak pointer gave somebody
          sptr,     \* the parameter of its call
          copy,     \* the local t of its call
          seen,     \* the plain pointer it read
          todo      \* steps left of its call

locals == <<mine, strong, sptr, copy, seen, todo>>
ptrVars == <<ptr, lock, entry, count, used, weak, locals>>

None == [t \in Threads |-> Null]
Nothing == [ptr |-> Null, mine |-> Null]

Init == /\ ptr = Null /\ weak = Null
        /\ lock = Nobody
        /\ entry = Nothing
        /\ count = [o \in Objects |-> 0]
        /\ used = {}
        /\ mine = None /\ strong = Null /\ sptr = None /\ copy = None /\ seen = None
        /\ todo = [t \in Threads |-> << >>]

\* One owner more of o, one less of each of ps.
Counted(o, ps) ==
  [x \in Objects |-> count[x] + (IF x = o THEN 1 ELSE 0)
                              - Cardinality({i \in DOMAIN ps : ps[i] = x})]

-----------------------------------------------------------------------------
(* The operations.  What comes back with "result" replaces what the caller *)
(* had; CompareExchange assigns or not by what it finds.                   *)

StoreSteps == <<"lock", "assign", "unlock", "return">>
LoadSteps == <<"lock", "read", "share", "unlock", "result">>
\* Mutant: the old value is read after the new one was stored.
ExchangeReadsLast == <<"lock", "assign", "read", "share", "unlock", "result">>
ExchangeSteps == <<"lock", "read", "share", "assign", "unlock", "result">>
CompareSteps == <<"lock", "read", "share", "compare", "expect", "unlock", "return">>

\* An object that was not made yet; which one it is makes no difference.
Fresh == IF used = Objects THEN {} ELSE {CHOOSE o \in Objects : o \notin used}

\* A call with parameter o: null, a copy of what the thread has, or new.
Call(t, steps, o) ==
  /\ todo[t] = << >>
  /\ o \in {Null, mine[t]} \cup Fresh
  /\ todo' = [todo EXCEPT ![t] = steps]
  /\ sptr' = [sptr EXCEPT ![t] = o]
  /\ count' = Counted(o, << >>)
  /\ used' = used \cup ({o} \ {Null})
  /\ UNCHANGED <<ptr, lock, entry, weak, mine, strong, copy, seen>>

Store(t, o) == Call(t, StoreSteps, o)          \* o = Null is reset()
Load(t) == Call(t, LoadSteps, Null)
Exchange(t, o) == Call(t, ExchangeSteps, o)
CompareExchange(t, o) == Call(t, CompareSteps, o)

-----------------------------------------------------------------------------
(* The steps.                                                              *)

At(t, step) == todo[t] # << >> /\ Head(todo[t]) = step
Done(t) == todo' = [todo EXCEPT ![t] = Tail(@)]

Lock(t) ==
  /\ At(t, "lock") /\ Done(t)
  /\ lock = Nobody
  /\ lock' = t
  /\ entry' = [ptr |-> ptr, mine |-> mine[t]]
  /\ UNCHANGED <<ptr, count, used, weak, mine, strong, sptr, copy, seen>>

Unlock(t) ==
  /\ At(t, "unlock") /\ Done(t)
  /\ lock' = Nobody
  /\ entry' = Nothing
  /\ UNCHANGED <<ptr, count, used, weak, mine, strong, sptr, copy, seen>>

\* shared_ptr<T> t = m_ptr.
Read(t) ==
  /\ At(t, "read") /\ Done(t)
  /\ seen' = [seen EXCEPT ![t] = ptr]
  /\ UNCHANGED <<ptr, lock, entry, count, used, weak, mine, strong, sptr, copy>>

Share(t) ==
  /\ At(t, "share") /\ Done(t)
  /\ copy' = [copy EXCEPT ![t] = seen[t]]
  /\ seen' = [seen EXCEPT ![t] = Null]
  /\ count' = Counted(seen[t], << >>)
  /\ UNCHANGED <<ptr, lock, entry, used, weak, mine, strong, sptr>>

\* m_ptr = sptr: the old object may lose its last owner and be destroyed,
\* which happens under the mutex.
Assign(t) ==
  /\ At(t, "assign") /\ Done(t)
  /\ ptr' = sptr[t]
  /\ count' = Counted(sptr[t], <<ptr>>)
  /\ UNCHANGED <<lock, entry, used, weak, mine, strong, sptr, copy, seen>>

Compare(t) ==
  /\ At(t, "compare")
  /\ todo' = [todo EXCEPT ![t] = IF ptr = mine[t] THEN <<"assign">> \o Tail(@) ELSE Tail(@)]
  /\ UNCHANGED <<ptr, lock, entry, count, used, weak, mine, strong, sptr, copy, seen>>

\* expected_sptr = m_ptr, which is the new value if it was stored.
Expect(t) ==
  /\ At(t, "expect") /\ Done(t)
  /\ mine' = [mine EXCEPT ![t] = ptr]
  /\ count' = Counted(ptr, <<mine[t]>>)
  /\ UNCHANGED <<ptr, lock, entry, used, weak, strong, sptr, copy, seen>>

\* The parameter and the local go, or the local becomes the caller's.
Return(t) ==
  /\ At(t, "return") \/ At(t, "result")
  /\ Done(t)
  /\ IF At(t, "result")
     THEN /\ mine' = [mine EXCEPT ![t] = copy[t]]
          /\ count' = Counted(Null, <<mine[t], sptr[t]>>)
     ELSE /\ count' = Counted(Null, <<copy[t], sptr[t]>>)
          /\ UNCHANGED mine
  /\ copy' = [copy EXCEPT ![t] = Null]
  /\ sptr' = [sptr EXCEPT ![t] = Null]
  /\ UNCHANGED <<ptr, lock, entry, used, weak, strong, seen>>

-----------------------------------------------------------------------------
(* The weak pointer.  Nothing else happens under its mutex.                *)

WeakStore(t) ==
  /\ todo[t] = << >>
  /\ weak = Null             \* BOUND: it is set once
  /\ weak' = mine[t]
  /\ UNCHANGED <<ptr, lock, entry, count, used, locals>>

\* Mutant: the pointer is handed out whether its object lives or not.
WeakLockAlways ==
  /\ strong = Null /\ weak # Null
  /\ strong' = weak
  /\ count' = Counted(weak, << >>)
  /\ UNCHANGED <<ptr, lock, entry, used, weak, mine, sptr, copy, seen, todo>>

\* lock(): an owner more, if there is one.
WeakLock ==
  /\ strong = Null /\ weak # Null
  /\ count[weak] > 0
  /\ strong' = weak
  /\ count' = Counted(weak, << >>)
  /\ UNCHANGED <<ptr, lock, entry, used, weak, mine, sptr, copy, seen, todo>>

\* Whoever has it lets go of it.
LetGo ==
  /\ strong # Null
  /\ strong' = Null
  /\ count' = Counted(Null, <<strong>>)
  /\ UNCHANGED <<ptr, lock, entry, used, weak, mine, sptr, copy, seen, todo>>

-----------------------------------------------------------------------------
Step(t) == \/ Lock(t) \/ Unlock(t) \/ Read(t) \/ Share(t) \/ Assign(t)
           \/ Compare(t) \/ Expect(t) \/ Return(t)

Next == \/ \E t \in Threads :
             \/ \E o \in Objects \cup {Null} : Store(t, o) \/ Exchange(t, o) \/ CompareExchange(t, o)
             \/ Load(t) \/ Step(t) \/ WeakStore(t)
        \/ WeakLock \/ LetGo

Spec == Init /\ [][Next]_ptrVars

-----------------------------------------------------------------------------
Holding(slot, o) == Cardinality({t \in Threads : slot[t] = o})
Owners(o) == (IF ptr = o THEN 1 ELSE 0) + (IF strong = o THEN 1 ELSE 0)
             + Holding(mine, o) + Holding(sptr, o) + Holding(copy, o)

(***************************************************************************)
(* The count of every object is the number of its owners, after every step *)
(* of every operation, and no object that was destroyed gets an owner: the *)
(* mutex keeps the object alive between reading the pointer and counting   *)
(* the copy, and a weak pointer revives nothing                            *)
(* (atomic_shared_ptr.hpp:49-127, atomic_weak_ptr.hpp:75-81).              *)
(***************************************************************************)
OwnersAreCounted ==
  /\ [](\A o \in Objects : count[o] = Owners(o))
  /\ [][\A o \in used : count[o] = 0 => count'[o] = 0]_ptrVars

\* What the register holds, and what each thread has learnt: an operation
\* takes effect when it unlocks.
value == IF lock = Nobody THEN ptr ELSE entry.ptr
view == [t \in Threads |-> CASE lock = t        -> entry.mine
                             [] At(t, "result") -> copy[t]
                             [] OTHER           -> mine[t]]

Register == INSTANCE AtomicRegister WITH Values <- Objects

(***************************************************************************)
(* Store, load, reset, exchange and compare_exchange_strong behave like    *)
(* operations of one step on one value (atomic_shared_ptr.hpp:80-127).     *)
(***************************************************************************)
ImplementsRegister == Register!Spec

=============================================================================
