----------------------------- MODULE EventSync ------------------------------
(***************************************************************************)
(* Base/src/EventSync.cpp: a signal that stays set until it is reset, with *)
(* a condition variable for those who wait for it.  Everything is done     *)
(* under the mutex, which wait() gives up while it sleeps: a sleeper that  *)
(* is notified looks at the signal again.  std::condition_variable may     *)
(* also wake it for no reason.                                             *)
(***************************************************************************)
CONSTANT Waiters

VARIABLES signal,    \* _signal
          asleep,    \* waiters blocked in _condition
          notified,  \* waiters woken, who have not looked again yet
          due        \* history: the latest Set has let nobody go yet

eventVars == <<signal, asleep, notified, due>>

\* EventSync(init_signal).
Init == /\ signal \in BOOLEAN
        /\ asleep = {}
        /\ notified = {}
        /\ due = FALSE

\* What the predicate of wait() decides for w.
LetGo(w) ==
  /\ signal
  /\ asleep' = asleep \ {w}
  /\ due' = FALSE

Sleep(w) ==
  /\ ~signal
  /\ asleep' = asleep \cup {w}
  /\ UNCHANGED due

Wait(w) ==
  /\ w \notin asleep \cup notified
  /\ LetGo(w) \/ Sleep(w)
  /\ UNCHANGED <<signal, notified>>

\* Mutant: whoever is woken does not test the predicate again.
WakeUntested(w) ==
  /\ w \in notified
  /\ notified' = notified \ {w} /\ due' = FALSE
  /\ UNCHANGED <<signal, asleep>>

Wake(w) ==
  /\ w \in notified
  /\ notified' = notified \ {w}
  /\ LetGo(w) \/ Sleep(w)
  /\ UNCHANGED signal

SpuriousWakeup(w) ==
  /\ w \in asleep
  /\ asleep' = asleep \ {w}
  /\ notified' = notified \cup {w}
  /\ UNCHANGED <<signal, due>>

\* Mutant: a Set that finds the signal set notifies nobody.
SetOnce ==
  /\ signal' = TRUE
  /\ due' = (asleep \cup notified # {})
  /\ IF signal \/ asleep = {} THEN UNCHANGED <<asleep, notified>>
     ELSE \E w \in asleep : asleep' = asleep \ {w} /\ notified' = notified \cup {w}

\* notify_one.
Set ==
  /\ signal' = TRUE
  /\ due' = (asleep \cup notified # {})
  /\ IF asleep = {} THEN UNCHANGED <<asleep, notified>>
     ELSE \E w \in asleep : asleep' = asleep \ {w} /\ notified' = notified \cup {w}

Reset ==
  /\ signal' = FALSE
  /\ due' = FALSE
  /\ UNCHANGED <<asleep, notified>>

Next == \/ \E w \in Waiters : Wait(w) \/ Wake(w) \/ SpuriousWakeup(w)
        \/ Set \/ Reset

Spec == Init /\ [][Next]_eventVars

\* Whoever is woken gets the mutex at last.
Fairness == \A w \in Waiters : WF_eventVars(Wake(w))

-----------------------------------------------------------------------------
(***************************************************************************)
(* Every Set that meets waiters lets one of them go, unless Reset comes    *)
(* first: also when the signal was set already, and although it notifies   *)
(* only one (EventSync.cpp:5-25).                                          *)
(***************************************************************************)
SetIsNotLost == due ~> ~due

(***************************************************************************)
(* Nobody leaves Wait without the signal, however often it is woken, and   *)
(* nobody is forgotten: while a Set is due, somebody is awake to take it   *)
(* (EventSync.cpp:5-18).                                                   *)
(***************************************************************************)
Leaves(w) == w \in asleep \cup notified /\ w \notin (asleep \cup notified)'

WaitsForSignal ==
  /\ [](due => signal /\ notified # {})
  /\ [][\A w \in Waiters : Leaves(w) => signal]_eventVars

=============================================================================
