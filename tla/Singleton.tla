----------------------------- MODULE Singleton ------------------------------
(***************************************************************************)
(* Base/include/Singleton.hpp, DynamicSingleton: the object is created by  *)
(* the first GetInstance and deleted by a handler that runs when the       *)
(* program ends.                                                           *)
(*                                                                         *)
(* GetInstance reads _instance without a lock, and that is a data race:    *)
(* the build modelled is the one for x86, where the pointer is stored      *)
(* after the object was built and read whole.  _flag is std::call_once's:  *)
(* one thread runs the function, the others wait until it has returned.    *)
(***************************************************************************)
EXTENDS Integers, FiniteSets

CONSTANTS Users,      \* threads that call GetInstance
          MaxCalls    \* BOUND: calls that register with atexit

VARIABLES instance,   \* _instance: 0, or the number of the object
          made,       \* objects built so far
          deleted,    \* objects deleted so far
          flag,       \* _flag: "new", "running", "done"
          handlers,   \* how often Destroy is registered with atexit
          ending,     \* the end of the program: "no", "handlers", "deleting"
          pc          \* per user: where in GetInstance it is

singletonVars == <<instance, made, deleted, flag, handlers, ending, pc>>

SingletonTypeOK ==
  /\ instance \in Nat
  /\ made \in Nat
  /\ deleted \in SUBSET Nat
  /\ flag \in {"new", "running", "done"}
  /\ handlers \in Nat
  /\ ending \in {"no", "handlers", "deleting"}
  /\ pc \in [Users -> {"out", "once", "build", "publish", "atexit", "return"}]

Init == /\ instance = 0
        /\ made = 0
        /\ deleted = {}
        /\ flag = "new"
        /\ handlers = 0
        /\ ending = "no"
        /\ pc = [u \in Users |-> "out"]

Goes(u, label) == pc' = [pc EXCEPT ![u] = label]

-----------------------------------------------------------------------------
(* GetInstance.                                                            *)

\* Calls that will still register.
Coming == {u \in Users : pc[u] \in {"once", "build", "publish", "atexit"}}

\* if (_instance == nullptr).
Test(u) ==
  /\ pc[u] = "out"
  /\ IF instance # 0 THEN Goes(u, "return")
     ELSE handlers + Cardinality(Coming) < MaxCalls /\ Goes(u, "once")
  /\ UNCHANGED <<instance, made, deleted, flag, handlers, ending>>

\* Mutant: the flag is not looked at.
CallAlways(u) ==
  /\ pc[u] = "once"
  /\ flag' = "running"
  /\ Goes(u, "build")
  /\ UNCHANGED <<instance, made, deleted, handlers, ending>>

\* std::call_once.
CallOnce(u) ==
  /\ pc[u] = "once"
  /\ flag # "running"
  /\ IF flag = "new" THEN flag' = "running" /\ Goes(u, "build")
                     ELSE UNCHANGED flag /\ Goes(u, "atexit")
  /\ UNCHANGED <<instance, made, deleted, handlers, ending>>

\* _instance = new T(): the object, and then the pointer.
Build(u) ==
  /\ pc[u] = "build"
  /\ made' = made + 1
  /\ Goes(u, "publish")
  /\ UNCHANGED <<instance, deleted, flag, handlers, ending>>

Publish(u) ==
  /\ pc[u] = "publish"
  /\ instance' = made
  /\ flag' = "done"
  /\ Goes(u, "atexit")
  /\ UNCHANGED <<made, deleted, handlers, ending>>

\* Whoever found no object registers, not only who made it.
AtExit(u) ==
  /\ pc[u] = "atexit"
  /\ handlers' = handlers + 1
  /\ Goes(u, "return")
  /\ UNCHANGED <<instance, made, deleted, flag, ending>>

\* return _instance, which is read once more.
Return(u) ==
  /\ pc[u] = "return"
  /\ Goes(u, "out")
  /\ UNCHANGED <<instance, made, deleted, flag, handlers, ending>>

GetInstance(u) ==
  Test(u) \/ CallOnce(u) \/ Build(u) \/ Publish(u) \/ AtExit(u) \/ Return(u)

-----------------------------------------------------------------------------
(* The end of the program runs the handlers.  Other threads may go on.     *)
Exit ==
  /\ ending = "no"
  /\ ending' = "handlers"
  /\ UNCHANGED <<instance, made, deleted, flag, handlers, pc>>

\* Destroy.
Delete ==
  /\ ending = "handlers"
  /\ handlers > 0
  /\ handlers' = handlers - 1
  /\ IF instance # 0 THEN deleted' = deleted \cup {instance} /\ ending' = "deleting"
                     ELSE UNCHANGED <<deleted, ending>>
  /\ UNCHANGED <<instance, made, flag, pc>>

\* _instance = nullptr.
Clear ==
  /\ ending = "deleting"
  /\ instance' = 0
  /\ ending' = "handlers"
  /\ UNCHANGED <<made, deleted, flag, handlers, pc>>

Next == \/ \E u \in Users : GetInstance(u)
        \/ Exit \/ Delete \/ Clear

Spec == Init /\ [][Next]_singletonVars

-----------------------------------------------------------------------------
(***************************************************************************)
(* However many threads meet in GetInstance, one object is built.  Until   *)
(* the program ends every call returns it; at the end it is deleted once,  *)
(* although several handlers are registered, and it is not built again     *)
(* (Singleton.hpp:43-62).                                                  *)
(***************************************************************************)
OneObject ==
  /\ made <= 1
  /\ \A u \in Users : pc[u] = "return" /\ ending = "no" => instance = 1 /\ deleted = {}
  /\ ending = "handlers" /\ handlers > 0 => instance \notin deleted

=============================================================================
