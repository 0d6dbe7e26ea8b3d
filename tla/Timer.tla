------------------------------- MODULE Timer --------------------------------
(***************************************************************************)
(* Base/src/Timer.cpp: a thread that passes over a list of timers again    *)
(* and again, and runs the callbacks of those that are due.                *)
(*                                                                         *)
(* The pass holds the mutex from its first to its last entry, and waits    *)
(* for each callback: nobody registers meanwhile, and time goes on.  Time  *)
(* is counted in ticks; the constants say how many make a second and how   *)
(* many seconds, minutes and hours the clock has.                          *)
(***************************************************************************)
EXTENDS Integers, Sequences, FiniteSets

CONSTANTS Second, SecondsPerMinute, MinutesPerHour, HoursPerDay,
          CHECK_INTERVAL,    \* ticks between two passes
          RECALC_INTERVAL,   \* every so many passes the timers are corrected
          FlatCalls,         \* functor and type passed to RegisterFlatTimer
          NormalCalls,       \* functor and seconds passed to RegisterNormalTimer
          InstantCalls,      \* the same of RegisterInstantTimer
          MaxTimers,         \* BOUND: entries of the list
          MaxLate            \* BOUND: ticks a pass is late, or a callback takes

Minute == SecondsPerMinute * Second
Hour == MinutesPerHour * Minute
Day == HoursPerDay * Hour

\* FlatTime: every so many seconds, minutes or hours, with numbers that
\* divide the minute, the hour or the day.
Dividing(unit, n) == {unit * k : k \in {k \in 1..(n - 1) : n % k = 0}}
EverySeconds == Dividing(Second, SecondsPerMinute)
EveryMinutes == Dividing(Minute, MinutesPerHour)
EveryHours == Dividing(Hour, HoursPerDay) \cup {Day}
FlatTime == EverySeconds \cup EveryMinutes \cup EveryHours

VARIABLES timerlist,   \* _timerlist
          clock,       \* the time of day
          watch,       \* ticks since the latest watch.Start()
          recalc,      \* timer_recalc_count
          pc,          \* the thread: "off", "sleep", "scan", "callback"
          since,       \* ticks it has been there
          pos,         \* the entry the pass is at
          lapsed       \* lapsed_msec of the pass

vars == <<timerlist, clock, watch, recalc, pc, since, pos, lapsed>>

(***************************************************************************)
(* An entry.  `functor' tells whether its callback is anything but a plain *)
(* function.  Two fields are not in the code: `age', the ticks since it    *)
(* was set, from the beginning of the pass that did it or went before, and *)
(* `held', whether a pass came to a cycle timer late, because of another.   *)
(***************************************************************************)
Entry(kind, functor, interval, remain) ==
  [kind |-> kind, functor |-> functor, interval |-> interval,
   remain |-> remain, age |-> watch, held |-> FALSE]

Init == /\ timerlist = << >>
        /\ clock \in 0..(Day - 1)
        /\ watch = 0
        /\ recalc = RECALC_INTERVAL
        /\ pc = "off"
        /\ since = 0
        /\ pos = 1
        /\ lapsed = 0

-----------------------------------------------------------------------------
(* The calls.  The thread has the mutex during a pass.                     *)

msec == clock % Second
sec == (clock \div Second) % SecondsPerMinute
min == (clock \div Minute) % MinutesPerHour
hour == clock \div Hour

\* Units from `now' to the next multiple of `every', without the one begun.
Whole(every, now) == every - (now % every) - 1

\* The time to the next round second, minute or hour, 0 for anything else.
CalcRemainMSec(type) ==
  LET to_second == Second - msec
      to_minute == Second * (SecondsPerMinute - sec - 1) + to_second
      to_hour == Minute * (MinutesPerHour - min - 1) + to_minute
  IN  CASE type \in EverySeconds -> Second * Whole(type \div Second, sec) + to_second
        [] type \in EveryMinutes -> Minute * Whole(type \div Minute, min) + to_minute
        [] type \in EveryHours   -> Hour * Whole(type \div Hour, hour) + to_hour
        [] OTHER                 -> 0

Unlocked == pc \in {"off", "sleep"}

Register(entry) ==
  /\ Unlocked
  /\ Len(timerlist) < MaxTimers
  /\ timerlist' = Append(timerlist, entry)
  /\ UNCHANGED <<clock, watch, recalc, pc, since, pos, lapsed>>

RegisterFlatTimer(functor, type) ==
  Register(Entry("flat", functor, type, CalcRemainMSec(type)))
RegisterNormalTimer(functor, s) == Register(Entry("normal", functor, s * Second, 1))
RegisterInstantTimer(functor, s) ==
  Register(Entry("instant", functor, s * Second, s * Second))

(***************************************************************************)
(* target() gives the address where a std::function keeps its function: it *)
(* is another one for each entry, and null for both if neither holds a     *)
(* plain function.  remove_if then moves the entries that stay to the      *)
(* front, in their order, and nobody erases the rest.                      *)
(***************************************************************************)
RemoveTimer(functor) ==
  /\ Unlocked
  /\ LET staying == {i \in DOMAIN timerlist : ~(functor /\ timerlist[i].functor)}
     IN  \E from \in [1..Cardinality(staying) -> staying] :
           /\ \A i, j \in DOMAIN from : i < j => from[i] < from[j]
           /\ timerlist' = [i \in DOMAIN timerlist |->
                              timerlist[IF i \in DOMAIN from THEN from[i] ELSE i]]
  /\ UNCHANGED <<clock, watch, recalc, pc, since, pos, lapsed>>

-----------------------------------------------------------------------------
(* Timer::Run.                                                             *)

Goto(label) == pc' = label /\ since' = 0

\* Mutant: the timers are corrected before it is seen which of them are due.
PassCorrectsFirst ==
  /\ pc = "sleep" /\ since >= CHECK_INTERVAL
  /\ lapsed' = watch
  /\ watch' = 0
  /\ recalc' = IF recalc = 1 THEN RECALC_INTERVAL ELSE recalc - 1
  /\ pos' = 1
  /\ timerlist' = [i \in DOMAIN timerlist |->
       IF recalc = 1 /\ timerlist[i].kind # "instant"
       THEN [timerlist[i] EXCEPT !.remain = CalcRemainMSec(timerlist[i].interval)]
       ELSE timerlist[i]]
  /\ Goto("scan")
  /\ UNCHANGED clock

\* The top of the loop.  lapsed is measured from pass to pass.
Pass ==
  /\ pc = "sleep" /\ since >= CHECK_INTERVAL
  /\ lapsed' = watch
  /\ watch' = 0
  /\ recalc' = IF recalc = 1 THEN RECALC_INTERVAL ELSE recalc - 1
  /\ pos' = 1
  /\ Goto("scan")
  /\ UNCHANGED <<timerlist, clock>>

\* BaseThread::Start: the first pass begins at once.
Start ==
  /\ pc = "off"
  /\ lapsed' = 0
  /\ recalc' = recalc - 1
  /\ Goto("scan")
  /\ UNCHANGED <<timerlist, clock, watch, pos>>

\* recalc_flag: the count of this pass started anew.
Corrected(e) ==
  IF e.kind # "instant" /\ recalc = RECALC_INTERVAL
  THEN [e EXCEPT !.remain = CalcRemainMSec(e.interval)] ELSE e

Shortened(e) == [e EXCEPT !.remain = @ - lapsed]

\* The entry at pos is not due.
Skip ==
  /\ pc = "scan" /\ pos <= Len(timerlist)
  /\ timerlist[pos].remain > lapsed
  /\ timerlist' = [timerlist EXCEPT ![pos] = Corrected(Shortened(@))]
  /\ pos' = pos + 1
  /\ UNCHANGED <<clock, watch, recalc, pc, since, lapsed>>

\* The entry at pos is due: its callback runs, and the pass waits for it.
Due ==
  /\ pc = "scan" /\ pos <= Len(timerlist)
  /\ timerlist[pos].remain <= lapsed
  /\ timerlist' = [timerlist EXCEPT ![pos] = Shortened(@)]
  /\ Goto("callback")
  /\ UNCHANGED <<clock, watch, recalc, pos, lapsed>>

Again(e) == [e EXCEPT !.remain = e.interval, !.age = watch, !.held = FALSE]
Without(list, i) == SubSeq(list, 1, i - 1) \o SubSeq(list, i + 1, Len(list))

\* Mutant: an instant timer is not erased.
CallbackReturnsKeeps ==
  /\ pc = "callback"
  /\ LET e == timerlist[pos]
     IN  timerlist' = [timerlist EXCEPT ![pos] =
           IF e.kind = "instant" THEN [e EXCEPT !.remain = e.interval] ELSE Corrected(Again(e))]
  /\ pos' = pos + 1
  /\ Goto("scan")
  /\ UNCHANGED <<clock, watch, recalc, lapsed>>

(***************************************************************************)
(* f.get() returns.  The code erases an instant timer, and sets the others *)
(* anew, before that, when nobody else can see the list.  It then reads the*)
(* kind of the erased entry, which changes nothing that is still there.    *)
(***************************************************************************)
CallbackReturns ==
  /\ pc = "callback"
  /\ IF timerlist[pos].kind = "instant"
     THEN timerlist' = Without(timerlist, pos) /\ UNCHANGED pos
     ELSE pos' = pos + 1 /\ timerlist' = [timerlist EXCEPT ![pos] = Corrected(Again(@))]
  /\ Goto("scan")
  /\ UNCHANGED <<clock, watch, recalc, lapsed>>

\* The mutex is released; sleep_for.
EndPass ==
  /\ pc = "scan" /\ pos > Len(timerlist)
  /\ Goto("sleep")
  /\ UNCHANGED <<timerlist, clock, watch, recalc, pos, lapsed>>

Run == Pass \/ Skip \/ Due \/ CallbackReturns \/ EndPass

\* Time: a sleep may last longer than asked, and a callback takes a while.
MayTakeLonger == \/ pc = "off"
                 \/ pc = "sleep" /\ since < CHECK_INTERVAL + MaxLate
                 \/ pc = "callback" /\ since < MaxLate

\* An entry grows older; the age of one that was held is of no interest.
Older(i) ==
  LET e == timerlist[i]
      held == e.held \/ (e.kind # "instant" /\ pc = "callback" /\ i > pos)
  IN  [e EXCEPT !.held = held, !.age = IF held THEN 0 ELSE @ + 1]

Tick ==
  /\ MayTakeLonger
  /\ clock' = (clock + 1) % Day
  /\ IF pc = "off" THEN UNCHANGED <<timerlist, watch, since>>
     ELSE /\ watch' = watch + 1
          /\ since' = since + 1
          /\ timerlist' = [i \in DOMAIN timerlist |-> Older(i)]
  /\ UNCHANGED <<recalc, pc, pos, lapsed>>

Next == \/ \E c \in FlatCalls : RegisterFlatTimer(c[1], c[2])
        \/ \E c \in NormalCalls : RegisterNormalTimer(c[1], c[2])
        \/ \E c \in InstantCalls : RegisterInstantTimer(c[1], c[2])
        \/ \E functor \in BOOLEAN : RemoveTimer(functor)
        \/ Start \/ Run \/ Tick

Spec == Init /\ [][Next]_vars

-----------------------------------------------------------------------------
(***************************************************************************)
(* Whatever the time of day, a flat timer aims at the next round time of   *)
(* its kind, at most one interval away (Timer.cpp:22-90).                  *)
(***************************************************************************)
FlatAimsAtRoundTime ==
  \A type \in FlatTime : /\ CalcRemainMSec(type) \in 1..type
                         /\ (clock + CalcRemainMSec(type)) % type = 0

\* What the callbacks of one pass may take, and what a pass may be late by.
Callbacks == MaxTimers * MaxLate
Slack == CHECK_INTERVAL + MaxLate + Callbacks

(***************************************************************************)
(* An instant timer runs once: not before its time is over, counted from   *)
(* the pass before it was registered, and one pass later at most, which is *)
(* a sleep and the callbacks of the pass before and of its own             *)
(* (Timer.cpp:109-114, 151-170).                                           *)
(***************************************************************************)
InstantRunsInTime ==
  /\ [](\A i \in DOMAIN timerlist :
          timerlist[i].kind = "instant"
            => timerlist[i].age <= timerlist[i].interval + Slack + Callbacks)
  /\ [][pc = "scan" /\ pc' = "callback" /\ timerlist[pos].kind = "instant"
          => timerlist[pos].age >= timerlist[pos].interval]_vars

(***************************************************************************)
(* A cycle timer is never silent for longer than two of its intervals, if  *)
(* no other keeps the pass from it: the correction, which moves it to the  *)
(* next round time, may skip one round but not the next as well.  It may   *)
(* have run early by as much as callbacks took (Timer.cpp:154-178).        *)
(***************************************************************************)
CyclesGoOn ==
  \A i \in DOMAIN timerlist :
    timerlist[i].kind # "instant" /\ ~timerlist[i].held
      => timerlist[i].age <= 2 * timerlist[i].interval + Slack + Callbacks
=============================================================================
