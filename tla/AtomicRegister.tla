-------------------------- MODULE AtomicRegister ---------------------------
(***************************************************************************)
(* What an atomic pointer promises: a value that each operation reads and  *)
(* writes in one step.  view is what each thread learnt from its latest    *)
(* load, exchange or compare-exchange.                                     *)
(***************************************************************************)
CONSTANTS Threads, Values, Null

VARIABLES value, view

Init == value = Null /\ view = [t \in Threads |-> Null]

Learns(t, v) == view' = [view EXCEPT ![t] = v]

Store(v) == value' = v /\ UNCHANGED view
Load(t) == UNCHANGED value /\ Learns(t, value)
Exchange(t, v) == value' = v /\ Learns(t, value)

\* The comparison is with what the thread knows, and it learns the value the
\* register has in the end.
CompareExchange(t, v) ==
  /\ value' = IF value = view[t] THEN v ELSE value
  /\ Learns(t, value')

Next == \E t \in Threads, v \in Values \cup {Null} :
          Store(v) \/ Load(t) \/ Exchange(t, v) \/ CompareExchange(t, v)

Spec == Init /\ [][Next]_<<value, view>>
=============================================================================
