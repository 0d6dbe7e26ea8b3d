----------------------------- MODULE TimePoint -----------------------------
(***************************************************************************)
(* Base: TimePoint, TimeSpan and StopWatch.  A time point counts ticks of  *)
(* the system clock (100 nanoseconds); a time span keeps seconds in a      *)
(* floating-point number, whatever unit it was set in.                     *)
(*                                                                         *)
(* A span is the exact value in its finest unit; what the floating-point   *)
(* number does to it is in Read.  Units are constants, so that a second of *)
(* few microseconds of few ticks shows every conversion.                   *)
(***************************************************************************)
EXTENDS Integers

CONSTANTS Tick, Micro, Milli, Second,   \* in nanoseconds
          Amounts,   \* numbers of a unit to set or to add
          MaxCalls   \* BOUND: calls that add or subtract

Units == {1, Micro, Milli, Second}

VARIABLES now,     \* the system clock, in ticks
          tp,      \* _timepoint, in ticks
          stamp,   \* _timestamp of the StopWatch, in ticks
          ts,      \* _duration of a time span
          meant,   \* what the calls so far should have made of tp
          spans,   \* how many calls added or subtracted a time span
          times    \* how many added or subtracted a time_t

vars == <<now, tp, stamp, ts, meant, spans, times>>

\* duration_cast truncates towards zero.
Cast(nanosec, unit) ==
  IF nanosec >= 0 THEN nanosec \div unit ELSE -((-nanosec) \div unit)

\* A part of a second set and read back may come out one unit nearer to zero:
\* 1001 milliseconds are the number below 1.001.
Read(nanosec, unit) ==
  LET value == Cast(nanosec, unit)
  IN  IF nanosec % Second = 0 \/ value = 0 THEN {value}
      ELSE {value, IF value > 0 THEN value - 1 ELSE value + 1}

to_time_t(timepoint) == Cast(timepoint * Tick, Second)
from_time_t(t) == t * (Second \div Tick)

Init == /\ now = 2 * (Second \div Tick) + 1
        /\ tp = now /\ stamp = now /\ ts = 0
        /\ meant = tp * Tick /\ spans = 0 /\ times = 0

Moves(by) == /\ spans + times < MaxCalls   \* BOUND
             /\ tp * Tick + by >= 0        \* the epoch
             /\ meant' = meant + by
             /\ UNCHANGED <<now, stamp, ts>>

\* Add( TimeSpan ) and Subtract( TimeSpan ), operator+ and operator-, which
\* change the time point they are applied to as well.
AddSpan(sign) ==
  /\ Moves(sign * ts)
  /\ \E mcsec \in Read(ts, Micro) : tp' = tp + sign * mcsec * (Micro \div Tick)
  /\ spans' = spans + 1 /\ UNCHANGED times

\* Add( time_t ) and Subtract( time_t ) go through whole seconds.
AddTime(sign, t) ==
  /\ Moves(sign * t * Second)
  /\ tp' = from_time_t(to_time_t(tp) + sign * t)
  /\ times' = times + 1 /\ UNCHANGED spans

\* TimePoint::Set( time_t ) and SetNow.
Set(timepoint) ==
  /\ tp' = timepoint /\ meant' = timepoint * Tick
  /\ spans' = 0 /\ times' = 0
  /\ UNCHANGED <<now, stamp, ts>>

\* TimeSpan::Set of any unit, and Reset.
SetSpan(n, unit) ==
  /\ ts' = n * unit
  /\ UNCHANGED <<now, tp, stamp, meant, spans, times>>

Start == stamp' = now /\ UNCHANGED <<now, tp, ts, meant, spans, times>>

\* StopWatch::Stop and Elapse: the difference of two time points.
Stop == /\ ts' = (now - stamp) * Tick
        /\ UNCHANGED <<now, tp, stamp, meant, spans, times>>

Later == /\ now < 2 * (Second \div Tick) + 3   \* BOUND
         /\ now' = now + 1
         /\ UNCHANGED <<tp, stamp, ts, meant, spans, times>>

Next == \/ \E sign \in {1, -1} : AddSpan(sign) \/ \E t \in Amounts : AddTime(sign, t)
        \/ \E t \in Amounts : Set(from_time_t(t))
        \/ Set(now)
        \/ \E n \in Amounts, unit \in Units : SetSpan(n, unit)
        \/ Start \/ Stop \/ Later

Spec == Init /\ [][Next]_vars

-----------------------------------------------------------------------------
(***************************************************************************)
(* A time point stays where its calls should have brought it, up to less   *)
(* than two microseconds for a call with a span, either way, and less than *)
(* a second, downwards, for a call with a time_t (TimePoint.cpp:49-73).    *)
(***************************************************************************)
DriftIsBounded ==
  LET drift == meant - tp * Tick
  IN  /\ drift >= 0 - 2 * Micro * spans
      /\ drift <= 2 * Micro * spans + Second * times
      /\ spans = 0 /\ times = 0 => drift = 0
=============================================================================
