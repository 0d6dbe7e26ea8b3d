---------------------------- MODULE Timer_proofs ----------------------------
(***************************************************************************)
(* The timer, the time points and the dates, for every value of their      *)
(* constants.                                                              *)
(*                                                                         *)
(* What an instant timer has waited and has still to wait is its interval; *)
(* a cycle timer that has been corrected heads for a round time; a time    *)
(* point has drifted by less than its calls can account for; and what a    *)
(* call adds to the time of a date's day is carried to its days in full.   *)
(***************************************************************************)
EXTENDS MCBase, SequenceTheorems, FiniteSetTheorems, TLAPS

(***************************************************************************)
(* The timer.                                                              *)
(***************************************************************************)

LEMMA ProductIsPositive ==
  ASSUME NEW a \in Nat \ {0}, NEW b \in Nat \ {0}
  PROVE  a * b \in Nat \ {0}
OBVIOUS

LEMMA ClockFacts ==
  /\ SecondsPerMinute \in Nat \ {0} /\ MinutesPerHour \in Nat \ {0} /\ HoursPerDay \in Nat \ {0}
  /\ Second \in Nat \ {0}
  /\ Timers!Minute \in Nat \ {0} /\ Timers!Hour \in Nat \ {0} /\ Timers!Day \in Nat \ {0}
<1>1. /\ SecondsPerMinute \in Nat \ {0} /\ MinutesPerHour \in Nat \ {0}
      /\ HoursPerDay \in Nat \ {0} /\ Second \in Nat \ {0}
  BY TimerAssumption
<1>2. Timers!Minute \in Nat \ {0} BY <1>1, ProductIsPositive DEF Timers!Minute
<1>3. Timers!Hour \in Nat \ {0} BY <1>1, <1>2, ProductIsPositive DEF Timers!Hour
<1>4. Timers!Day \in Nat \ {0} BY <1>1, <1>3, ProductIsPositive DEF Timers!Day
<1> QED BY <1>1, <1>2, <1>3, <1>4

\* A unit divides its multiples.
LEMMA UnitDivides ==
  ASSUME NEW unit \in Nat \ {0}, NEW k \in Nat
  PROVE  (unit * k) \div unit = k
<1>1. unit * k \in Nat OBVIOUS
<1>2. PICK q \in Nat : q = (unit * k) \div unit BY <1>1
<1>3. PICK r \in 0..(unit - 1) : unit * k = unit * q + r BY <1>1, <1>2
<1>4. ASSUME k < q PROVE FALSE
  <2>1. PICK d \in Nat : q = k + 1 + d
    <3>1. q - k - 1 \in Nat /\ q = k + 1 + (q - k - 1) BY <1>4
    <3> QED BY <3>1
  <2>2. unit * q = unit * k + unit + unit * d /\ unit * d \in Nat BY <2>1
  <2> QED BY <1>1, <1>3, <2>2
<1>5. ASSUME k > q PROVE FALSE
  <2>1. PICK d \in Nat : k = q + 1 + d
    <3>1. k - q - 1 \in Nat /\ k = q + 1 + (k - q - 1) BY <1>5
    <3> QED BY <3>1
  <2>2. unit * k = unit * q + unit + unit * d /\ unit * d \in Nat BY <2>1
  <2> QED BY <1>1, <1>3, <2>2
<1> QED BY <1>2, <1>4, <1>5

\* What divides the minute, the hour or the day is so many units.
LEMMA DividingIs ==
  ASSUME NEW unit \in Nat \ {0}, NEW n \in Nat \ {0}, NEW type \in Timers!Dividing(unit, n)
  PROVE  \E k \in 1..n : /\ k \in Nat \ {0} /\ type = unit * k /\ type \div unit = k /\ n % k = 0
                         /\ type \in Nat \ {0}
<1>1. PICK k \in 1..(n - 1) : n % k = 0 /\ type = unit * k
  BY DEF Timers!Dividing
<1>2. k \in 1..n /\ k \in Nat \ {0} BY <1>1
<1>3. type \div unit = k BY <1>1, <1>2, UnitDivides
<1>4. type \in Nat \ {0} BY <1>1, <1>2, ProductIsPositive
<1> QED BY <1>1, <1>2, <1>3, <1>4


LEMMA DivisionIs ==
  ASSUME NEW unit \in Nat \ {0}, NEW q \in Nat, NEW r \in 0..(unit - 1), NEW a, a = unit * q + r
  PROVE  a \div unit = q /\ a % unit = r
<1>1. a \in Nat OBVIOUS
<1>2. PICK p \in Nat : p = a \div unit BY <1>1
<1>3. PICK s \in 0..(unit - 1) : a = unit * p + s /\ s = a % unit BY <1>1, <1>2
<1>4. ASSUME p < q PROVE FALSE
  <2>1. PICK d \in Nat : q = p + 1 + d
    <3>1. q - p - 1 \in Nat /\ q = p + 1 + (q - p - 1) BY <1>4
    <3> QED BY <3>1
  <2>2. unit * q = unit * p + unit + unit * d /\ unit * d \in Nat BY <2>1
  <2>3. unit * p \in Nat OBVIOUS
  <2> QED BY <1>3, <2>2, <2>3
<1>5. ASSUME p > q PROVE FALSE
  <2>1. PICK d \in Nat : p = q + 1 + d
    <3>1. p - q - 1 \in Nat /\ p = q + 1 + (p - q - 1) BY <1>5
    <3> QED BY <3>1
  <2>2. unit * p = unit * q + unit + unit * d /\ unit * d \in Nat BY <2>1
  <2>3. unit * q \in Nat OBVIOUS
  <2> QED BY <1>3, <2>2, <2>3
<1>6. p = q BY <1>4, <1>5
<1> QED BY <1>2, <1>3, <1>6

LEMMA DivisionHas ==
  ASSUME NEW unit \in Nat \ {0}, NEW a \in Nat
  PROVE  \E q \in Nat, r \in 0..(unit - 1) : a = unit * q + r /\ q = a \div unit /\ r = a % unit
OBVIOUS


\* a is q units and r, and a big unit n units.
Reads(a, unit, q, r) == q \in Nat /\ r \in 0..(unit - 1) /\ a = unit * q + r
IsUnit(big, n, unit) == n \in Nat \ {0} /\ unit \in Nat \ {0} /\ big = n * unit
IsRest(big, t, unit, n, s, r) == unit * (n - s - 1) + (unit - r) = big - t

\* From one unit of the clock to the next, n times as long.
LEMMA Coarser ==
  ASSUME NEW big, NEW n, NEW unit, NEW a, NEW q, NEW r,
         IsUnit(big, n, unit), Reads(a, unit, q, r)
  PROVE  \E t : /\ Reads(q, n, a \div big, q % n)
                /\ Reads(a, big, a \div big, t)
                /\ IsRest(big, t, unit, n, q % n, r)
<1>0. /\ n \in Nat \ {0} /\ unit \in Nat \ {0}
      /\ q \in Nat /\ r \in 0..(unit - 1) /\ a = unit * q + r
      /\ big = n * unit
  BY DEF IsUnit, Reads
<1> USE <1>0
<1>1. PICK p \in Nat, s \in 0..(n - 1) : q = n * p + s /\ s = q % n BY DivisionHas
<1>2. big \in Nat \ {0} /\ big = n * unit BY ProductIsPositive
<1>3. PICK t \in Nat : t = unit * s
  <2>1. unit * s \in Nat OBVIOUS
  <2> QED BY <2>1
<1>4. PICK v \in Nat : n = s + 1 + v /\ v = n - s - 1
  <2>1. n - s - 1 \in Nat /\ n = s + 1 + (n - s - 1) OBVIOUS
  <2> QED BY <2>1
<1>5. PICK x \in Nat : x = unit * v
  <2>1. unit * v \in Nat OBVIOUS
  <2> QED BY <2>1
<1>6. big = t + unit + x
  <2>1. (s + 1 + v) * unit = unit * s + unit + unit * v OBVIOUS
  <2> QED BY <1>2, <1>3, <1>4, <1>5, <2>1
<1>7. PICK z \in 0..(big - 1) : z = t + r BY <1>6
<1>8. PICK y \in Nat : y = big * p
  <2>1. big * p \in Nat BY <1>2
  <2> QED BY <2>1
<1>9. unit * q = y + t
  <2>1. unit * (n * p + s) = (n * unit) * p + unit * s OBVIOUS
  <2>2. unit * q = unit * (n * p + s) BY <1>1
  <2> QED BY ONLY <2>1, <2>2, <1>2, <1>3, <1>8
<1>10. a = big * p + z
  <2>1. a = unit * q + r OBVIOUS
  <2> QED BY ONLY <1>7, <1>8, <1>9, <2>1, r \in 0..(unit - 1), unit \in Nat
<1>11. p = a \div big BY ONLY <1>2, <1>7, <1>10, DivisionIs
<1>12. IsRest(big, z, unit, n, s, r)
  <2>1. x + (unit - r) = big - z BY <1>6, <1>7
  <2> QED BY ONLY <2>1, <1>4, <1>5 DEF IsRest
<1>13. Reads(q, n, p, s) /\ Reads(a, big, p, z)
  <2>1. p \in Nat /\ s \in 0..(n - 1) OBVIOUS
  <2> QED BY ONLY <1>1, <1>7, <1>10, <2>1, Zenon DEF Reads
<1> QED BY ONLY <1>1, <1>11, <1>12, <1>13, Zenon

\* The clock that CalcRemainMSec reads, taken apart.
LEMMA ClockIs ==
  ASSUME NEW now \in Nat, clock = now
  PROVE  \E all, m, r2, r3 :
           /\ Reads(clock, Second, all, Timers!msec)
           /\ Reads(all, SecondsPerMinute, m, Timers!sec)
           /\ Reads(clock, Timers!Minute, m, r2)
           /\ IsRest(Timers!Minute, r2, Second, SecondsPerMinute, Timers!sec, Timers!msec)
           /\ Reads(m, MinutesPerHour, Timers!hour, Timers!min)
           /\ Reads(clock, Timers!Hour, Timers!hour, r3)
           /\ IsRest(Timers!Hour, r3, Timers!Minute, MinutesPerHour, Timers!min, r2)
<1>1. /\ IsUnit(Timers!Minute, SecondsPerMinute, Second)
      /\ IsUnit(Timers!Hour, MinutesPerHour, Timers!Minute)
  BY ONLY ClockFacts, Zenon DEF IsUnit, Timers!Minute, Timers!Hour
<1>2. Reads(clock, Second, clock \div Second, Timers!msec)
  BY ClockFacts, DivisionHas DEF Reads, Timers!msec
<1>3. PICK m, r2 :
        /\ Reads(clock \div Second, SecondsPerMinute, m, Timers!sec)
        /\ Reads(clock, Timers!Minute, m, r2) /\ m = clock \div Timers!Minute
        /\ IsRest(Timers!Minute, r2, Second, SecondsPerMinute, Timers!sec, Timers!msec)
  BY ONLY <1>1, <1>2, Coarser DEF Timers!sec
<1>4. PICK r3 :
        /\ Reads(m, MinutesPerHour, Timers!hour, Timers!min)
        /\ Reads(clock, Timers!Hour, Timers!hour, r3)
        /\ IsRest(Timers!Hour, r3, Timers!Minute, MinutesPerHour, Timers!min, r2)
  BY ONLY <1>1, <1>3, Coarser DEF Timers!min, Timers!hour
<1> QED BY ONLY <1>2, <1>3, <1>4, Zenon

\* The sum that CalcRemainMSec gives for a flat time of one of its three units.
Aim(type, unit, now, rest) == unit * Timers!Whole(type \div unit, now) + rest
Aimed(a, type, x) == x \in 1..type /\ (a + x) % type = 0

\* now counts units, and starts anew after n of them.
Counted(type, unit, n, q, now, rounds) ==
  /\ unit \in Nat \ {0} /\ n \in Nat \ {0} /\ now \in Nat /\ rounds \in Nat
  /\ q = n * rounds + now
  /\ type \in Timers!Dividing(unit, n) \/ type = n * unit

\* So many whole units and the rest of the one begun lead to the next
\* multiple of k units, if k divides the n units after which the count that
\* was read starts anew (Timer.cpp:22-90).
LEMMA FlatAim ==
  ASSUME NEW type, NEW unit, NEW n, NEW q, NEW now, NEW rounds, NEW r, NEW rest, NEW a,
         Reads(a, unit, q, r), Counted(type, unit, n, q, now, rounds), rest = unit - r
  PROVE  Aimed(a, type, Aim(type, unit, now, rest))
<1>0. /\ unit \in Nat \ {0} /\ n \in Nat \ {0} /\ now \in Nat /\ rounds \in Nat
      /\ q = n * rounds + now
      /\ type \in Timers!Dividing(unit, n) \/ type = n * unit
  BY DEF Counted
<1>1. a = unit * q + r /\ q \in Nat /\ r \in 0..(unit - 1) BY DEF Reads
<1> USE <1>0, <1>1
<1>2. PICK k \in Nat \ {0} : type = unit * k /\ type \div unit = k /\ n % k = 0
  <2>1. ASSUME type = n * unit PROVE type = unit * n /\ type \div unit = n /\ n % n = 0
    <3>1. type = unit * n BY <2>1
    <3>2. n = n * 1 + 0 /\ 0 \in 0..(n - 1) OBVIOUS
    <3>3. n % n = 0 BY <3>2, DivisionIs
    <3> QED BY <3>1, <3>3, UnitDivides
  <2>2. CASE type = n * unit BY <2>1, <2>2
  <2>3. CASE type \in Timers!Dividing(unit, n) BY <2>3, DividingIs
  <2> QED BY <2>2, <2>3
<1>3. PICK b \in Nat : n = k * b
  <2>1. PICK b \in Nat, e \in 0..(k - 1) : n = k * b + e /\ e = n % k BY DivisionHas
  <2>2. k * b \in Nat OBVIOUS
  <2>3. e = 0 BY ONLY <1>2, <2>1, Zenon
  <2>4. n = k * b + e BY ONLY <2>1, Zenon
  <2>5. n = k * b BY ONLY <2>2, <2>3, <2>4, n \in Nat
  <2> QED BY <2>5
<1>4. PICK d \in Nat, e \in 0..(k - 1) : now = k * d + e /\ e = now % k BY DivisionHas
<1>5. PICK w \in 0..(k - 1) : w = k - e - 1 /\ w = Timers!Whole(k, now)
  <2>1. Timers!Whole(k, now) = k - e - 1 BY ONLY <1>4 DEF Timers!Whole
  <2>2. k - e - 1 \in 0..(k - 1) OBVIOUS
  <2> QED BY <2>1, <2>2
<1>6. PICK x \in Int : x = unit * w + (unit - r) OBVIOUS
<1>7. x \in 1..(unit * k)
  <2>1. PICK v \in Nat : k = w + 1 + v
    <3>1. k - w - 1 \in Nat /\ k = w + 1 + (k - w - 1) BY <1>5
    <3> QED BY <3>1
  <2>2. unit * k = unit * w + unit + unit * v /\ unit * v \in Nat /\ unit * w \in Nat BY <2>1, <1>5
  <2> QED BY <1>6, <2>2
<1>8. PICK y \in Nat : y = b * rounds + d + 1 /\ y # 0 BY <1>3, <1>4
<1>9. (unit * q + r) + x = (unit * k) * y
  <2>1. (unit * q + r) + x = unit * (q + w + 1)
    <3>1. unit * (q + w + 1) = unit * q + unit * w + unit BY <1>5
    <3>2. unit * q \in Int /\ unit * w \in Int BY <1>5
    <3> QED BY <1>6, <3>1, <3>2
  <2>2. q + w + 1 = k * y
    <3>1. n * rounds = k * (b * rounds) BY <1>3
    <3>2. PICK c \in Nat : c = b * rounds BY <1>3
    <3>3. q = k * c + (k * d + e) BY <1>4, <3>1, <3>2
    <3>4. q + w + 1 = k * c + k * d + k
      <4>1. k * c \in Int /\ k * d \in Int BY <1>4, <3>2
      <4>2. w + e + 1 = k BY <1>5
      <4> QED BY <3>3, <4>1, <4>2
    <3>5. k * (c + d + 1) = k * c + k * d + k BY <1>4, <3>2
    <3> QED BY <1>8, <3>2, <3>4, <3>5
  <2>3. unit * (k * y) = (unit * k) * y OBVIOUS
  <2> QED BY <2>1, <2>2, <2>3
<1>10. unit * k \in Nat \ {0} BY ProductIsPositive
<1>11. PICK z \in Nat \ {0} : z = unit * k BY <1>10
<1>12. ((unit * q + r) + x) % z = 0
  <2>1. PICK sum \in Int : sum = (unit * q + r) + x OBVIOUS
  <2>2. z * y \in Nat OBVIOUS
  <2>3. sum = z * y + 0 /\ 0 \in 0..(z - 1) BY <1>9, <1>11, <2>1, <2>2
  <2>4. sum % z = 0 BY ONLY <1>8, <1>11, <2>3, DivisionIs
  <2> QED BY <2>1, <2>4
<1>13. Aim(type, unit, now, rest) = x
  <2>1. x = unit * w + rest BY <1>6
  <2> QED BY ONLY <1>2, <1>5, <2>1, Zenon DEF Aim
<1>14. type = z /\ x \in 1..type BY <1>2, <1>7, <1>11
<1>15. (a + x) % type = 0 BY ONLY <1>1, <1>12, <1>14, Zenon
<1> QED BY ONLY <1>13, <1>14, <1>15, Zenon DEF Aimed

LEMMA DividingBetween ==
  ASSUME NEW unit \in Nat \ {0}, NEW n \in Nat \ {0}, NEW type \in Timers!Dividing(unit, n),
         NEW big, big = n * unit
  PROVE  type \in Nat /\ big \in Nat /\ unit <= type /\ type < big
<1>1. PICK k \in 1..(n - 1) : type = unit * k BY DEF Timers!Dividing
<1>2. PICK v \in Nat : k = 1 + v
  <2>1. k - 1 \in Nat /\ k = 1 + (k - 1) OBVIOUS
  <2> QED BY <2>1
<1>3. PICK u \in Nat : n = k + 1 + u
  <2>1. n - k - 1 \in Nat /\ n = k + 1 + (n - k - 1) OBVIOUS
  <2> QED BY <2>1
<1>4. unit * k = unit + unit * v /\ unit * v \in Nat BY <1>2
<1>5. (k + 1 + u) * unit = unit * k + unit + unit * u /\ unit * u \in Nat BY <1>3
<1>6. big = unit * k + unit + unit * u BY <1>3, <1>5
<1> QED BY <1>1, <1>4, <1>5, <1>6

\* No time is of two units.
LEMMA UnitsApart ==
  /\ \A type \in Timers!EverySeconds : type \in Nat /\ type < Timers!Minute
  /\ \A type \in Timers!EveryMinutes : type \in Nat /\ Timers!Minute <= type /\ type < Timers!Hour
  /\ \A type \in Timers!EveryHours : type \in Nat /\ Timers!Hour <= type
  /\ Timers!Minute <= Timers!Hour
<1>1. \A type \in Timers!EverySeconds : type \in Nat /\ type < Timers!Minute
  BY ClockFacts, DividingBetween DEF Timers!EverySeconds, Timers!Minute
<1>2. \A type \in Timers!EveryMinutes : type \in Nat /\ Timers!Minute <= type /\ type < Timers!Hour
  BY ClockFacts, DividingBetween DEF Timers!EveryMinutes, Timers!Hour
<1>3. ASSUME NEW n \in Nat \ {0}, NEW unit \in Nat \ {0} PROVE n * unit \in Nat /\ unit <= n * unit
  <2>1. PICK m \in Nat : n = 1 + m
    <3>1. n - 1 \in Nat /\ n = 1 + (n - 1) OBVIOUS
    <3> QED BY <3>1
  <2>2. (1 + m) * unit = unit + m * unit /\ m * unit \in Nat OBVIOUS
  <2> QED BY <2>1, <2>2
<1>4. Timers!Minute <= Timers!Hour /\ Timers!Hour <= Timers!Day /\ Timers!Day \in Nat
  BY ClockFacts, <1>3 DEF Timers!Hour, Timers!Day
<1>5. \A type \in Timers!EveryHours : type \in Nat /\ Timers!Hour <= type
  BY ClockFacts, DividingBetween, <1>4 DEF Timers!EveryHours
<1> QED BY <1>1, <1>2, <1>4, <1>5

\* What CalcRemainMSec gives for anything.
LEMMA RemainOf ==
  ASSUME NEW type
  PROVE  LET to_second == Second - Timers!msec
             to_minute == Second * (SecondsPerMinute - Timers!sec - 1) + to_second
             to_hour == Timers!Minute * (MinutesPerHour - Timers!min - 1) + to_minute
         IN  \/ type \in Timers!EverySeconds
                /\ Timers!CalcRemainMSec(type) = Aim(type, Second, Timers!sec, to_second)
             \/ type \in Timers!EveryMinutes
                /\ Timers!CalcRemainMSec(type) = Aim(type, Timers!Minute, Timers!min, to_minute)
             \/ type \in Timers!EveryHours
                /\ Timers!CalcRemainMSec(type) = Aim(type, Timers!Hour, Timers!hour, to_hour)
             \/ type \notin Timers!FlatTime /\ Timers!CalcRemainMSec(type) = 0
<1>1. ASSUME type \in Timers!EverySeconds
      PROVE  type \notin Timers!EveryMinutes /\ type \notin Timers!EveryHours
  BY <1>1, ClockFacts, UnitsApart
<1>2. ASSUME type \in Timers!EveryMinutes
      PROVE  type \notin Timers!EverySeconds /\ type \notin Timers!EveryHours
  BY <1>2, ClockFacts, UnitsApart
<1>3. ASSUME type \in Timers!EveryHours
      PROVE  type \notin Timers!EverySeconds /\ type \notin Timers!EveryMinutes
  BY <1>3, ClockFacts, UnitsApart
<1>4. CASE type \in Timers!EverySeconds
  BY <1>1, <1>4, Zenon DEF Timers!CalcRemainMSec, Aim
<1>5. CASE type \in Timers!EveryMinutes
  BY <1>2, <1>5, Zenon DEF Timers!CalcRemainMSec, Aim
<1>6. CASE type \in Timers!EveryHours
  BY <1>3, <1>6, Zenon DEF Timers!CalcRemainMSec, Aim
<1>7. CASE type \notin Timers!EverySeconds /\ type \notin Timers!EveryMinutes /\ type \notin Timers!EveryHours
  BY <1>7, Zenon DEF Timers!CalcRemainMSec, Timers!FlatTime
<1> QED BY <1>4, <1>5, <1>6, <1>7

LEMMA RemainAims ==
  ASSUME clock \in Nat, NEW type
  PROVE  \/ type \in Timers!FlatTime /\ Aimed(clock, type, Timers!CalcRemainMSec(type))
         \/ type \notin Timers!FlatTime /\ Timers!CalcRemainMSec(type) = 0
<1>1. PICK all, m, r2, r3 :
        /\ Reads(clock, Second, all, Timers!msec)
        /\ Reads(all, SecondsPerMinute, m, Timers!sec)
        /\ Reads(clock, Timers!Minute, m, r2)
        /\ IsRest(Timers!Minute, r2, Second, SecondsPerMinute, Timers!sec, Timers!msec)
        /\ Reads(m, MinutesPerHour, Timers!hour, Timers!min)
        /\ Reads(clock, Timers!Hour, Timers!hour, r3)
        /\ IsRest(Timers!Hour, r3, Timers!Minute, MinutesPerHour, Timers!min, r2)
  BY ClockIs
<1>2. /\ all \in Nat /\ Timers!msec \in 0..(Second - 1)
      /\ m \in Nat /\ r2 \in 0..(Timers!Minute - 1)
      /\ Timers!hour \in Nat /\ r3 \in 0..(Timers!Hour - 1)
      /\ Timers!sec \in 0..(SecondsPerMinute - 1) /\ all = SecondsPerMinute * m + Timers!sec
      /\ Timers!min \in 0..(MinutesPerHour - 1) /\ m = MinutesPerHour * Timers!hour + Timers!min
  BY ONLY <1>1 DEF Reads
<1>3. Timers!sec \in Nat /\ Timers!min \in Nat BY <1>2
<1> DEFINE to_second == Second - Timers!msec
           to_minute == Second * (SecondsPerMinute - Timers!sec - 1) + to_second
           to_hour == Timers!Minute * (MinutesPerHour - Timers!min - 1) + to_minute
<1>4. to_minute = Timers!Minute - r2
  BY ONLY <1>1, Zenon DEF IsRest
<1>5. to_hour = Timers!Hour - r3
  BY ONLY <1>1, <1>4, Zenon DEF IsRest
<1>6. \/ /\ type \in Timers!EverySeconds
         /\ Timers!CalcRemainMSec(type) = Aim(type, Second, Timers!sec, to_second)
      \/ /\ type \in Timers!EveryMinutes
         /\ Timers!CalcRemainMSec(type) = Aim(type, Timers!Minute, Timers!min, to_minute)
      \/ /\ type \in Timers!EveryHours
         /\ Timers!CalcRemainMSec(type) = Aim(type, Timers!Hour, Timers!hour, to_hour)
      \/ type \notin Timers!FlatTime /\ Timers!CalcRemainMSec(type) = 0
  BY ONLY RemainOf, Zenon
<1>7. to_second = Second - Timers!msec OBVIOUS
<1> HIDE DEF to_second, to_minute, to_hour
<1>8. ASSUME type \in Timers!EverySeconds
      PROVE  Aimed(clock, type, Aim(type, Second, Timers!sec, to_second))
  <2>1. type \in Timers!Dividing(Second, SecondsPerMinute) BY <1>8 DEF Timers!EverySeconds
  <2>2. Counted(type, Second, SecondsPerMinute, all, Timers!sec, m)
    BY ONLY <1>2, <1>3, <2>1, ClockFacts, Zenon DEF Counted
  <2> QED BY ONLY <1>1, <1>7, <2>2, FlatAim
<1>9. ASSUME type \in Timers!EveryMinutes
      PROVE  Aimed(clock, type, Aim(type, Timers!Minute, Timers!min, to_minute))
  <2>1. type \in Timers!Dividing(Timers!Minute, MinutesPerHour) BY <1>9 DEF Timers!EveryMinutes
  <2>2. Counted(type, Timers!Minute, MinutesPerHour, m, Timers!min, Timers!hour)
    BY ONLY <1>2, <1>3, <2>1, ClockFacts, Zenon DEF Counted
  <2> QED BY ONLY <1>1, <1>4, <2>2, FlatAim
<1>10. ASSUME type \in Timers!EveryHours
       PROVE  Aimed(clock, type, Aim(type, Timers!Hour, Timers!hour, to_hour))
  <2>1. type \in Timers!Dividing(Timers!Hour, HoursPerDay) \/ type = HoursPerDay * Timers!Hour
    BY <1>10 DEF Timers!EveryHours, Timers!Day
  <2>2. Timers!hour = HoursPerDay * 0 + Timers!hour /\ 0 \in Nat BY <1>2, ClockFacts
  <2>3. Counted(type, Timers!Hour, HoursPerDay, Timers!hour, Timers!hour, 0)
    BY ONLY <1>2, <2>1, <2>2, ClockFacts, Zenon DEF Counted
  <2> QED BY ONLY <1>1, <1>5, <2>3, FlatAim
<1> QED BY ONLY <1>6, <1>8, <1>9, <1>10, Zenon DEF Timers!FlatTime

(***************************************************************************)
(* What holds of the timer.  The watch has run for the callbacks of this   *)
(* pass and what has gone by of the present one; of an instant timer, what *)
(* it has waited and what remains to it make its interval, but for what    *)
(* the watch and the pass will still take off.                             *)
(***************************************************************************)
TimerEntries == [kind : {"flat", "normal", "instant"}, functor : BOOLEAN, interval : Nat,
                 remain : Int, age : Nat, held : BOOLEAN]
TimerTypes == /\ timerlist \in Seq(TimerEntries) /\ Len(timerlist) <= MaxTimers
              /\ clock \in Nat /\ watch \in Nat /\ lapsed \in Nat /\ since \in Nat
              /\ pos \in Nat \ {0}
              /\ pc \in {"off", "sleep", "scan", "callback"}

\* At most so many callbacks have run in this pass: those of the entries
\* before pos and of instant timers, which are gone from the list.
RanInPass == (pos - 1) + (MaxTimers - Len(timerlist))
WatchBounded ==
  /\ pc = "off" => watch = 0 /\ pos = 1
  /\ pc = "scan" => pos <= Len(timerlist) + 1 /\ watch <= RanInPass * MaxLate
  /\ pc = "callback" => /\ pos <= Len(timerlist) /\ since <= MaxLate
                        /\ watch <= RanInPass * MaxLate + since
  /\ pc = "sleep" => /\ since <= CHECK_INTERVAL + MaxLate
                     /\ watch <= Timers!Callbacks + since
  /\ lapsed <= Timers!Slack

Passed(i) == pc \in {"off", "sleep"} \/ i < pos \/ (pc = "callback" /\ i = pos)
Ahead(i) == IF Passed(i) THEN watch ELSE watch + lapsed
Least(i) == IF pc = "callback" /\ i = pos THEN -lapsed ELSE 0
Waits(e, ahead, least) ==
  e.kind = "instant" => ~e.held /\ e.age = e.interval - e.remain + ahead /\ e.remain >= least
InstantsWait == \A i \in DOMAIN timerlist : Waits(timerlist[i], Ahead(i), Least(i))

TimerInv == TimerTypes /\ WatchBounded /\ InstantsWait

LEMMA SpentIs ==
  /\ \A n \in Nat : n * MaxLate \in Nat /\ (n + 1) * MaxLate = n * MaxLate + MaxLate
  /\ \A m, n \in Nat : m <= n => m * MaxLate <= n * MaxLate
  /\ Timers!Callbacks = MaxTimers * MaxLate /\ Timers!Callbacks \in Nat
  /\ Timers!Slack = CHECK_INTERVAL + MaxLate + Timers!Callbacks /\ Timers!Slack \in Nat
<1>1. CHECK_INTERVAL \in Nat /\ MaxTimers \in Nat /\ MaxLate \in Nat BY TimerAssumption
<1>2. \A n \in Nat : n * MaxLate \in Nat /\ (n + 1) * MaxLate = n * MaxLate + MaxLate BY <1>1
<1>3. ASSUME NEW m \in Nat, NEW n \in Nat, m <= n PROVE m * MaxLate <= n * MaxLate
  <2>1. PICK d \in Nat : n = m + d
    <3>1. n - m \in Nat /\ n = m + (n - m) BY <1>3
    <3> QED BY <3>1
  <2>2. (m + d) * MaxLate = m * MaxLate + d * MaxLate /\ m * MaxLate \in Nat /\ d * MaxLate \in Nat
    BY <1>1
  <2> QED BY <2>1, <2>2
<1>4. Timers!Callbacks = MaxTimers * MaxLate /\ Timers!Callbacks \in Nat
  BY <1>1, <1>2 DEF Timers!Callbacks
<1>5. Timers!Slack = CHECK_INTERVAL + MaxLate + Timers!Callbacks /\ Timers!Slack \in Nat
  BY <1>1, <1>4 DEF Timers!Slack
<1> QED BY <1>2, <1>3, <1>4, <1>5

LEMMA RemainIsInt ==
  ASSUME TimerInv, NEW type PROVE Timers!CalcRemainMSec(type) \in Int
BY RemainAims DEF Aimed, TimerInv, TimerTypes

\* While nobody passes over the list, every instant timer waits alike.
LEMMA UnlockedWait ==
  ASSUME Timers!Unlocked
  PROVE  \A i : Ahead(i) = watch /\ Least(i) = 0
BY DEF Timers!Unlocked, Ahead, Passed, Least

LEMMA RegisterKeeps ==
  ASSUME TimerInv, NEW e \in TimerEntries, Timers!Register(e), Waits(e, watch, 0)
  PROVE  TimerInv'
<1>1. /\ Timers!Unlocked /\ Timers!Unlocked' /\ Len(timerlist) < MaxTimers
      /\ timerlist' = Append(timerlist, e)
      /\ UNCHANGED <<clock, watch, pc, since, pos, lapsed>>
  BY DEF Timers!Register, Timers!Unlocked
<1>2. timerlist \in Seq(TimerEntries) BY DEF TimerInv, TimerTypes
<1>3. TimerTypes'
  <2>1. timerlist' \in Seq(TimerEntries) /\ Len(timerlist') = Len(timerlist) + 1 BY <1>1, <1>2
  <2>2. MaxTimers \in Nat BY TimerAssumption
  <2>3. Len(timerlist') <= MaxTimers BY <1>1, <1>2, <2>1, <2>2
  <2> QED BY <1>1, <2>1, <2>3 DEF TimerInv, TimerTypes
<1>4. WatchBounded' BY <1>1 DEF TimerInv, WatchBounded, Timers!Unlocked
<1>5. InstantsWait'
  <2>1. \A i : Ahead(i) = watch /\ Least(i) = 0 /\ Ahead(i)' = watch /\ Least(i)' = 0
    <3>1. \A i : Ahead(i) = watch /\ Least(i) = 0 BY <1>1, UnlockedWait
    <3>2. \A i : Ahead(i)' = watch' /\ Least(i)' = 0
      BY <1>1 DEF Timers!Unlocked, Ahead, Passed, Least
    <3> QED BY <1>1, <3>1, <3>2
  <2>2. ASSUME NEW i \in DOMAIN timerlist' PROVE Waits(timerlist'[i], watch, 0)
    <3>1. CASE i = Len(timerlist) + 1
      <4>1. timerlist'[i] = e BY <1>1, <1>2, <3>1
      <4> QED BY <4>1
    <3>2. CASE i # Len(timerlist) + 1
      <4>1. i \in DOMAIN timerlist /\ timerlist'[i] = timerlist[i] BY <1>1, <1>2, <2>2, <3>2
      <4> QED BY <2>1, <4>1 DEF TimerInv, InstantsWait
    <3> QED BY <3>1, <3>2
  <2>3. \A i : Ahead(i)' = watch /\ Least(i)' = 0 BY <2>1
  <2> QED BY <2>2, <2>3 DEF InstantsWait, Waits
<1> QED BY <1>3, <1>4, <1>5 DEF TimerInv

LEMMA RemoveKeeps ==
  ASSUME TimerInv, NEW functor, Timers!RemoveTimer(functor) PROVE TimerInv'
<1>1. /\ Timers!Unlocked /\ Timers!Unlocked'
      /\ UNCHANGED <<clock, watch, pc, since, pos, lapsed>>
  BY DEF Timers!RemoveTimer, Timers!Unlocked
<1>2. timerlist \in Seq(TimerEntries) /\ Len(timerlist) \in Nat BY DEF TimerInv, TimerTypes
<1>3. PICK from : /\ \A i \in DOMAIN from : from[i] \in DOMAIN timerlist
                  /\ timerlist' = [i \in DOMAIN timerlist |->
                                     timerlist[IF i \in DOMAIN from THEN from[i] ELSE i]]
  <2> DEFINE staying == {i \in DOMAIN timerlist : ~(functor /\ timerlist[i].functor)}
  <2>1. PICK from \in [1..Timers!Cardinality(staying) -> staying] :
          timerlist' = [i \in DOMAIN timerlist |->
                          timerlist[IF i \in DOMAIN from THEN from[i] ELSE i]]
    BY DEF Timers!RemoveTimer
  <2>2. \A i \in DOMAIN from : from[i] \in DOMAIN timerlist BY <2>1
  <2> QED BY <2>1, <2>2
<1>4. \A i \in DOMAIN timerlist : \E j \in DOMAIN timerlist : timerlist'[i] = timerlist[j]
  BY <1>3
<1>5. timerlist' \in Seq(TimerEntries) /\ Len(timerlist') = Len(timerlist) /\ DOMAIN timerlist' = DOMAIN timerlist
  <2>1. \A i \in 1..Len(timerlist) : timerlist'[i] \in TimerEntries BY <1>2, <1>4
  <2>2. timerlist' \in [1..Len(timerlist) -> TimerEntries] BY <1>2, <1>3, <2>1
  <2> QED BY <1>2, <2>2
<1>6. TimerTypes' BY <1>1, <1>5 DEF TimerInv, TimerTypes
<1>7. WatchBounded' BY <1>1 DEF TimerInv, WatchBounded, Timers!Unlocked
<1>8. InstantsWait'
  <2>1. \A i : Ahead(i) = watch /\ Least(i) = 0 BY <1>1, UnlockedWait
  <2>2. \A i : Ahead(i)' = watch /\ Least(i)' = 0
    BY <1>1 DEF Timers!Unlocked, Ahead, Passed, Least
  <2>3. \A j \in DOMAIN timerlist : Waits(timerlist[j], watch, 0)
    BY <2>1 DEF TimerInv, InstantsWait
  <2>4. \A i \in DOMAIN timerlist' : Waits(timerlist'[i], watch, 0) BY <1>4, <1>5, <2>3
  <2> QED BY <2>2, <2>4 DEF InstantsWait, Waits
<1> QED BY <1>6, <1>7, <1>8 DEF TimerInv

\* A pass begins: the first, or the next.
LEMMA PassKeeps ==
  ASSUME TimerInv, Timers!Start \/ Timers!Pass PROVE TimerInv'
<1>1. /\ timerlist' = timerlist /\ clock' = clock /\ pc' = "scan" /\ since' = 0
      /\ watch' = 0 /\ pos' = 1 /\ lapsed' = watch /\ Timers!Unlocked
  <2>1. CASE Timers!Start
    BY <2>1 DEF Timers!Start, Timers!Goto, Timers!Unlocked, TimerInv, WatchBounded
  <2>2. CASE Timers!Pass
    BY <2>2 DEF Timers!Pass, Timers!Goto, Timers!Unlocked
  <2> QED BY <2>1, <2>2
<1>2. TimerTypes' BY <1>1 DEF TimerInv, TimerTypes
<1>3. WatchBounded'
  <2>1. lapsed' <= Timers!Slack
    <3>1. watch \in Nat /\ since \in Nat BY DEF TimerInv, TimerTypes
    <3>2. CASE pc = "off"
      <4>1. watch = 0 BY <3>2 DEF TimerInv, WatchBounded
      <4> QED BY <1>1, <4>1, SpentIs
    <3>3. CASE pc = "sleep"
      <4>1. since <= CHECK_INTERVAL + MaxLate /\ watch <= Timers!Callbacks + since
        BY <3>3 DEF TimerInv, WatchBounded
      <4>2. CHECK_INTERVAL \in Nat /\ MaxLate \in Nat BY TimerAssumption
      <4>3. /\ Timers!Slack = CHECK_INTERVAL + MaxLate + Timers!Callbacks
            /\ Timers!Callbacks \in Nat
        BY SpentIs
      <4> QED BY ONLY <1>1, <3>1, <4>1, <4>2, <4>3
    <3> QED BY <1>1, <3>2, <3>3 DEF Timers!Unlocked
  <2>2. Len(timerlist) \in Nat /\ Len(timerlist) <= MaxTimers /\ MaxTimers \in Nat
    BY TimerAssumption DEF TimerInv, TimerTypes
  <2>3. RanInPass' \in Nat BY <1>1, <2>2 DEF RanInPass
  <2>4. 0 <= RanInPass' * MaxLate BY <2>3, SpentIs
  <2> QED BY <1>1, <2>1, <2>2, <2>4 DEF WatchBounded
<1>4. InstantsWait'
  <2>1. \A i : Ahead(i) = watch /\ Least(i) = 0 BY <1>1, UnlockedWait
  <2>2. \A i \in DOMAIN timerlist : Ahead(i)' = watch /\ Least(i)' = 0
    BY <1>1 DEF Ahead, Passed, Least, TimerInv, TimerTypes
  <2>3. \A j \in DOMAIN timerlist : Waits(timerlist[j], watch, 0)
    BY <2>1 DEF TimerInv, InstantsWait
  <2> QED BY <1>1, <2>2, <2>3 DEF InstantsWait, Waits
<1> QED BY <1>2, <1>3, <1>4 DEF TimerInv

\* What a pass does to the entry it is at.
LEMMA ShortenedIs ==
  ASSUME NEW e \in TimerEntries, lapsed \in Nat
  PROVE  /\ Timers!Shortened(e) \in TimerEntries
         /\ Timers!Shortened(e).kind = e.kind /\ Timers!Shortened(e).interval = e.interval
         /\ Timers!Shortened(e).age = e.age /\ Timers!Shortened(e).held = e.held
         /\ Timers!Shortened(e).remain = e.remain - lapsed
<1>1. e.remain - lapsed \in Int BY DEF TimerEntries
<1> QED BY <1>1 DEF TimerEntries, Timers!Shortened

\* The entry has less to wait, and the watch that has been read is behind it.
LEMMA ShortenedWaits ==
  ASSUME NEW e \in TimerEntries, lapsed \in Nat, watch \in Nat, NEW least \in Int,
         Waits(e, watch + lapsed, 0), e.remain - lapsed >= least
  PROVE  Waits(Timers!Shortened(e), watch, least)
<1>1. PICK f \in TimerEntries : f = Timers!Shortened(e) BY ShortenedIs
<1>2. /\ f.kind = e.kind /\ f.interval = e.interval /\ f.age = e.age /\ f.held = e.held
      /\ f.remain = e.remain - lapsed
  BY <1>1, ShortenedIs
<1>3. e.interval \in Nat /\ e.remain \in Int /\ e.age \in Nat BY DEF TimerEntries
<1>4. ASSUME e.kind = "instant"
      PROVE  ~f.held /\ f.age = f.interval - f.remain + watch /\ f.remain >= least
  <2>1. ~e.held /\ e.age = e.interval - e.remain + (watch + lapsed) BY <1>4 DEF Waits
  <2>2. e.age = e.interval - (e.remain - lapsed) + watch BY <1>3, <2>1
  <2> QED BY <1>2, <2>1, <2>2
<1> QED BY <1>1, <1>2, <1>4 DEF Waits

LEMMA CorrectedIs ==
  ASSUME TimerInv, NEW e \in TimerEntries
  PROVE  /\ Timers!Corrected(e) \in TimerEntries /\ Timers!Corrected(e).kind = e.kind
         /\ e.kind = "instant" => Timers!Corrected(e) = e
<1>1. Timers!CalcRemainMSec(e.interval) \in Int BY RemainIsInt
<1> QED BY <1>1 DEF Timers!Corrected, TimerEntries

LEMMA SkipKeeps ==
  ASSUME TimerInv, Timers!Skip PROVE TimerInv'
<1>1. /\ pc = "scan" /\ pos \in 1..Len(timerlist) /\ timerlist[pos].remain > lapsed
      /\ pos' = pos + 1
      /\ UNCHANGED <<clock, watch, pc, since, lapsed>>
      /\ timerlist \in Seq(TimerEntries) /\ Len(timerlist) \in Nat /\ Len(timerlist) <= MaxTimers
      /\ MaxTimers \in Nat /\ watch \in Nat /\ lapsed \in Nat
  BY TimerAssumption DEF Timers!Skip, TimerInv, TimerTypes
<1>2. PICK e \in TimerEntries : e = timerlist[pos] BY <1>1
<1>3. PICK f \in TimerEntries : f = Timers!Shortened(e) BY <1>1, ShortenedIs
<1>4. PICK g \in TimerEntries : /\ g = Timers!Corrected(f) /\ g.kind = e.kind
                                /\ e.kind = "instant" => g = f
  <2>1. f.kind = e.kind BY <1>1, <1>3, ShortenedIs
  <2> QED BY <2>1, CorrectedIs
<1>5. timerlist' = [timerlist EXCEPT ![pos] = g]
  BY <1>2, <1>3, <1>4 DEF Timers!Skip
<1>6. /\ timerlist' \in Seq(TimerEntries) /\ Len(timerlist') = Len(timerlist)
      /\ DOMAIN timerlist' = DOMAIN timerlist
      /\ \A i \in DOMAIN timerlist : timerlist'[i] = IF i = pos THEN g ELSE timerlist[i]
  BY <1>1, <1>5
<1>7. TimerTypes' BY <1>1, <1>6 DEF TimerInv, TimerTypes
<1>8. WatchBounded'
  <2>1. RanInPass \in Nat /\ RanInPass' \in Nat /\ RanInPass <= RanInPass'
    BY <1>1, <1>6 DEF RanInPass
  <2>2. watch' <= RanInPass' * MaxLate
    <3>1. watch <= RanInPass * MaxLate BY <1>1 DEF TimerInv, WatchBounded
    <3>2. RanInPass * MaxLate <= RanInPass' * MaxLate BY <2>1, SpentIs
    <3>3. RanInPass * MaxLate \in Nat /\ RanInPass' * MaxLate \in Nat BY <2>1, SpentIs
    <3> QED BY <1>1, <3>1, <3>2, <3>3
  <2>3. pos' <= Len(timerlist') + 1 BY <1>1, <1>6
  <2> QED BY <1>1, <2>2, <2>3 DEF TimerInv, WatchBounded
<1>9. InstantsWait'
  <2>1. \A i \in DOMAIN timerlist :
          /\ Ahead(i) = (IF i < pos THEN watch ELSE watch + lapsed) /\ Least(i) = 0
          /\ Ahead(i)' = (IF i < pos + 1 THEN watch ELSE watch + lapsed) /\ Least(i)' = 0
    BY <1>1 DEF Ahead, Passed, Least
  <2>2. ASSUME NEW i \in DOMAIN timerlist PROVE Waits(timerlist'[i], Ahead(i)', Least(i)')
    <3>1. i \in Nat BY <1>1
    <3>2. CASE i = pos
      <4>1. Waits(e, watch + lapsed, 0) BY <1>1, <1>2, <2>1, <3>2 DEF TimerInv, InstantsWait
      <4>2. Waits(f, watch, 0)
        <5>1. e.remain \in Int BY DEF TimerEntries
        <5>2. e.remain > lapsed /\ lapsed \in Nat BY ONLY <1>1, <1>2
        <5>3. e.remain - lapsed >= 0 /\ 0 \in Int BY ONLY <5>1, <5>2
        <5> QED BY <1>1, <1>3, <4>1, <5>3, ShortenedWaits
      <4>3. timerlist'[i] = g /\ Ahead(i)' = watch /\ Least(i)' = 0 BY <1>1, <1>6, <2>1, <3>2
      <4>4. Waits(g, watch, 0)
        <5>1. CASE e.kind = "instant" BY <1>4, <4>2, <5>1
        <5>2. CASE e.kind # "instant" BY <1>4, <5>2 DEF Waits
        <5> QED BY <5>1, <5>2
      <4> QED BY <4>3, <4>4
    <3>3. CASE i # pos
      <4>1. Ahead(i)' = Ahead(i) /\ Least(i)' = Least(i) BY <1>1, <2>1, <3>1, <3>3
      <4>2. timerlist'[i] = timerlist[i] BY <1>6, <3>3
      <4> QED BY <4>1, <4>2 DEF TimerInv, InstantsWait
    <3> QED BY <3>2, <3>3
  <2> QED BY <1>6, <2>2 DEF InstantsWait, Waits
<1> QED BY <1>7, <1>8, <1>9 DEF TimerInv

\* The entry at pos is due. An instant timer is not before its time is over.
LEMMA DueKeeps ==
  ASSUME TimerInv, Timers!Due
  PROVE  /\ TimerInv'
         /\ timerlist[pos].kind = "instant" => timerlist[pos].age >= timerlist[pos].interval
<1>1. /\ pc = "scan" /\ pos \in 1..Len(timerlist) /\ timerlist[pos].remain <= lapsed
      /\ pc' = "callback" /\ since' = 0
      /\ UNCHANGED <<clock, watch, pos, lapsed>>
      /\ timerlist \in Seq(TimerEntries) /\ Len(timerlist) \in Nat /\ Len(timerlist) <= MaxTimers
      /\ MaxTimers \in Nat /\ watch \in Nat /\ lapsed \in Nat
  BY TimerAssumption DEF Timers!Due, Timers!Goto, TimerInv, TimerTypes
<1>2. PICK e \in TimerEntries : e = timerlist[pos] BY <1>1
<1>3. PICK f \in TimerEntries : f = Timers!Shortened(e) BY <1>1, ShortenedIs
<1>4. timerlist' = [timerlist EXCEPT ![pos] = f] BY <1>2, <1>3 DEF Timers!Due
<1>5. /\ timerlist' \in Seq(TimerEntries) /\ Len(timerlist') = Len(timerlist)
      /\ DOMAIN timerlist' = DOMAIN timerlist
      /\ \A i \in DOMAIN timerlist : timerlist'[i] = IF i = pos THEN f ELSE timerlist[i]
  BY <1>1, <1>4
<1>6. TimerTypes' BY <1>1, <1>5 DEF TimerInv, TimerTypes
<1>7. WatchBounded'
  <2>1. RanInPass' = RanInPass /\ RanInPass \in Nat BY <1>1, <1>5 DEF RanInPass
  <2>2. watch <= RanInPass * MaxLate BY <1>1 DEF TimerInv, WatchBounded
  <2>3. RanInPass * MaxLate \in Nat BY <2>1, SpentIs
  <2>4. watch' <= RanInPass' * MaxLate + since' BY <1>1, <2>1, <2>2, <2>3
  <2>5. pos' <= Len(timerlist') /\ since' <= MaxLate BY <1>1, <1>5, TimerAssumption
  <2> QED BY <1>1, <2>4, <2>5 DEF TimerInv, WatchBounded
<1>8. \A i \in DOMAIN timerlist :
        /\ Ahead(i) = (IF i < pos THEN watch ELSE watch + lapsed) /\ Least(i) = 0
        /\ Ahead(i)' = (IF i < pos \/ i = pos THEN watch ELSE watch + lapsed)
        /\ Least(i)' = IF i = pos THEN -lapsed ELSE 0
  BY <1>1 DEF Ahead, Passed, Least
<1>9. Waits(e, watch + lapsed, 0)
  <2>1. pos \in DOMAIN timerlist /\ ~(pos < pos) BY <1>1
  <2> QED BY <1>2, <1>8, <2>1 DEF TimerInv, InstantsWait
<1>10. InstantsWait'
  <2>1. ASSUME NEW i \in DOMAIN timerlist PROVE Waits(timerlist'[i], Ahead(i)', Least(i)')
    <3>1. CASE i = pos /\ e.kind = "instant"
      <4>1. e.remain >= 0 /\ e.remain \in Int BY <1>9, <3>1 DEF Waits, TimerEntries
      <4>2. e.remain - lapsed >= -lapsed /\ -lapsed \in Int BY <1>1, <4>1
      <4>3. Waits(f, watch, -lapsed) BY <1>1, <1>3, <1>9, <4>2, ShortenedWaits
      <4>4. timerlist'[i] = f /\ Ahead(i)' = watch /\ Least(i)' = -lapsed BY <1>5, <1>8, <3>1
      <4> QED BY <4>3, <4>4
    <3>2. CASE i = pos /\ e.kind # "instant"
      <4>1. timerlist'[i] = f /\ f.kind = e.kind BY <1>1, <1>3, <1>5, <3>2, ShortenedIs
      <4> QED BY <3>2, <4>1 DEF Waits
    <3>3. CASE i # pos
      <4>1. timerlist'[i] = timerlist[i] /\ Ahead(i)' = Ahead(i) /\ Least(i)' = Least(i)
        BY <1>5, <1>8, <3>3
      <4> QED BY <4>1 DEF TimerInv, InstantsWait
    <3> QED BY <3>1, <3>2, <3>3
  <2> QED BY <1>5, <2>1 DEF InstantsWait, Waits
<1>11. ASSUME e.kind = "instant" PROVE e.age >= e.interval
  <2>1. e.age = e.interval - e.remain + (watch + lapsed) BY <1>9, <1>11 DEF Waits
  <2>2. e.interval \in Nat /\ e.remain \in Int BY DEF TimerEntries
  <2>3. e.remain <= lapsed /\ lapsed \in Nat /\ watch \in Nat BY ONLY <1>1, <1>2
  <2> QED BY ONLY <2>1, <2>2, <2>3
<1> QED BY <1>2, <1>6, <1>7, <1>10, <1>11 DEF TimerInv

\* The pass is over.
LEMMA EndPassKeeps ==
  ASSUME TimerInv, Timers!EndPass PROVE TimerInv'
<1>1. /\ pc = "scan" /\ pos > Len(timerlist) /\ pc' = "sleep" /\ since' = 0
      /\ UNCHANGED <<timerlist, clock, watch, pos, lapsed>>
      /\ Len(timerlist) \in Nat /\ MaxTimers \in Nat /\ watch \in Nat /\ pos \in Nat
      /\ timerlist \in Seq(TimerEntries)
  BY TimerAssumption DEF Timers!EndPass, Timers!Goto, TimerInv, TimerTypes
<1>2. TimerTypes' BY <1>1 DEF TimerInv, TimerTypes
<1>3. WatchBounded'
  <2>1. pos = Len(timerlist) + 1 BY <1>1 DEF TimerInv, WatchBounded
  <2>2. RanInPass = MaxTimers BY <1>1, <2>1 DEF RanInPass
  <2>3. watch <= Timers!Callbacks BY <1>1, <2>2, SpentIs DEF TimerInv, WatchBounded
  <2>4. Timers!Callbacks \in Nat BY SpentIs
  <2>5. since' <= CHECK_INTERVAL + MaxLate /\ watch' <= Timers!Callbacks + since'
    BY <1>1, <2>3, <2>4, TimerAssumption
  <2> QED BY <1>1, <2>5 DEF TimerInv, WatchBounded
<1>4. InstantsWait'
  <2>1. \A i \in DOMAIN timerlist : Ahead(i) = watch /\ Least(i) = 0
    BY <1>1 DEF Ahead, Passed, Least
  <2>2. \A i : Ahead(i)' = watch /\ Least(i)' = 0
    BY <1>1 DEF Ahead, Passed, Least
  <2>3. \A i \in DOMAIN timerlist : Waits(timerlist[i], watch, 0)
    BY <2>1 DEF TimerInv, InstantsWait
  <2> QED BY <1>1, <2>2, <2>3 DEF InstantsWait, Waits
<1> QED BY <1>2, <1>3, <1>4 DEF TimerInv

LEMMA WithoutIs ==
  ASSUME NEW S, NEW list \in Seq(S), NEW i \in 1..Len(list)
  PROVE  /\ Timers!Without(list, i) \in Seq(S)
         /\ Len(Timers!Without(list, i)) = Len(list) - 1
         /\ \A j \in 1..(Len(list) - 1) :
              Timers!Without(list, i)[j] = list[IF j < i THEN j ELSE j + 1]
<1>1. Len(list) \in Nat OBVIOUS
<1>2. PICK before : before = SubSeq(list, 1, i - 1) OBVIOUS
<1>3. PICK after : after = SubSeq(list, i + 1, Len(list)) OBVIOUS
<1>4. /\ before \in Seq(S) /\ Len(before) = i - 1
      /\ \A j \in 1..(i - 1) : before[j] = list[j]
  BY <1>1, <1>2
<1>5. /\ after \in Seq(S) /\ Len(after) = Len(list) - i
      /\ \A j \in 1..(Len(list) - i) : after[j] = list[j + i]
  BY <1>1, <1>3
<1>6. Timers!Without(list, i) = before \o after BY <1>2, <1>3 DEF Timers!Without
<1>7. before \o after \in Seq(S) /\ Len(before \o after) = Len(list) - 1
  <2>1. before \in Seq(S) /\ after \in Seq(S) BY <1>4, <1>5
  <2>2. /\ before \o after \in Seq(S)
        /\ Len(before \o after) = Len(before) + Len(after)
    BY ONLY <2>1, ConcatProperties
  <2> QED BY ONLY <1>1, <1>4, <1>5, <2>2, i \in 1..Len(list)
<1>8. ASSUME NEW j \in 1..(Len(list) - 1)
      PROVE  (before \o after)[j] = list[IF j < i THEN j ELSE j + 1]
  <2>1. CASE j < i BY <1>1, <1>4, <1>5, <2>1
  <2>2. CASE ~(j < i)
    <3>1. j - (i - 1) \in 1..(Len(list) - i) /\ (j - (i - 1)) + i = j + 1 BY <1>1, <2>2
    <3>2. (before \o after)[j] = after[j - (i - 1)] BY <1>1, <1>4, <1>5, <1>7, <2>2
    <3> QED BY <1>5, <2>2, <3>1, <3>2
  <2> QED BY <2>1, <2>2
<1> QED BY <1>6, <1>7, <1>8

LEMMA WithRemain ==
  ASSUME NEW e \in TimerEntries, NEW n \in Int
  PROVE  /\ [e EXCEPT !.remain = n] \in TimerEntries
         /\ [e EXCEPT !.remain = n].kind = e.kind
BY DEF TimerEntries

LEMMA WithAge ==
  ASSUME NEW e \in TimerEntries, NEW n \in Nat
  PROVE  /\ [e EXCEPT !.age = n] \in TimerEntries
         /\ [e EXCEPT !.age = n].kind = e.kind /\ [e EXCEPT !.age = n].interval = e.interval
         /\ [e EXCEPT !.age = n].remain = e.remain /\ [e EXCEPT !.age = n].held = e.held
         /\ [e EXCEPT !.age = n].age = n
BY DEF TimerEntries

LEMMA WithHeld ==
  ASSUME NEW e \in TimerEntries, NEW b \in BOOLEAN
  PROVE  /\ [e EXCEPT !.held = b] \in TimerEntries
         /\ [e EXCEPT !.held = b].kind = e.kind /\ [e EXCEPT !.held = b].interval = e.interval
         /\ [e EXCEPT !.held = b].remain = e.remain /\ [e EXCEPT !.held = b].age = e.age
         /\ [e EXCEPT !.held = b].held = b
BY DEF TimerEntries

\* The callback returns.
LEMMA CallbackKeeps ==
  ASSUME TimerInv, Timers!CallbackReturns PROVE TimerInv'
<1>1. /\ pc = "callback" /\ pos \in 1..Len(timerlist)
      /\ pc' = "scan" /\ since' = 0
      /\ UNCHANGED <<clock, watch, lapsed>>
      /\ timerlist \in Seq(TimerEntries) /\ Len(timerlist) \in Nat /\ Len(timerlist) <= MaxTimers
      /\ MaxTimers \in Nat /\ watch \in Nat /\ lapsed \in Nat /\ since \in Nat
  BY TimerAssumption DEF Timers!CallbackReturns, Timers!Goto, TimerInv, TimerTypes, WatchBounded
<1>2. /\ RanInPass \in Nat /\ watch <= (RanInPass + 1) * MaxLate
  <2>1. RanInPass \in Nat BY <1>1 DEF RanInPass
  <2>2. watch <= RanInPass * MaxLate + since /\ since <= MaxLate
    BY <1>1 DEF TimerInv, WatchBounded
  <2>3. RanInPass * MaxLate \in Nat /\ (RanInPass + 1) * MaxLate = RanInPass * MaxLate + MaxLate
    BY <2>1, SpentIs
  <2>4. MaxLate \in Nat BY TimerAssumption
  <2>5. watch <= RanInPass * MaxLate + MaxLate BY ONLY <1>1, <2>2, <2>3, <2>4
  <2> QED BY ONLY <2>1, <2>3, <2>5
<1>3. \A i \in DOMAIN timerlist : i # pos =>
        Ahead(i) = (IF i < pos THEN watch ELSE watch + lapsed) /\ Least(i) = 0
  BY <1>1 DEF Ahead, Passed, Least
<1>4. \A i \in Nat :
        Ahead(i)' = (IF i < pos' THEN watch ELSE watch + lapsed) /\ Least(i)' = 0
  BY <1>1 DEF Ahead, Passed, Least
<1>5. CASE timerlist[pos].kind = "instant"
  <2>1. timerlist' = Timers!Without(timerlist, pos) /\ pos' = pos
    BY <1>5 DEF Timers!CallbackReturns
  <2>2. /\ timerlist' \in Seq(TimerEntries) /\ Len(timerlist') = Len(timerlist) - 1
        /\ \A i \in 1..(Len(timerlist) - 1) :
             timerlist'[i] = timerlist[IF i < pos THEN i ELSE i + 1]
    BY <1>1, <2>1, WithoutIs
  <2>3. TimerTypes' BY <1>1, <2>1, <2>2 DEF TimerInv, TimerTypes
  <2>4. WatchBounded'
    <3>1. RanInPass' = RanInPass + 1 BY <1>1, <2>1, <2>2 DEF RanInPass
    <3>2. pos' <= Len(timerlist') + 1 BY <1>1, <2>1, <2>2
    <3>3. watch' <= RanInPass' * MaxLate BY ONLY <1>1, <1>2, <3>1
    <3> QED BY <1>1, <3>2, <3>3 DEF TimerInv, WatchBounded
  <2>5. ASSUME NEW i \in DOMAIN timerlist' PROVE Waits(timerlist'[i], Ahead(i)', Least(i)')
    <3>1. i \in 1..(Len(timerlist) - 1) BY <2>2
    <3>2. PICK j \in DOMAIN timerlist : j = IF i < pos THEN i ELSE i + 1 BY <1>1, <3>1
    <3>3. timerlist'[i] = timerlist[j] BY <2>2, <3>1, <3>2
    <3>4. j # pos /\ (j < pos <=> i < pos) /\ i \in Nat BY <1>1, <3>1, <3>2
    <3>5. Ahead(i)' = Ahead(j) /\ Least(i)' = Least(j) BY <1>3, <1>4, <2>1, <3>4
    <3> QED BY <3>3, <3>5 DEF TimerInv, InstantsWait
  <2>6. InstantsWait' BY <2>5 DEF InstantsWait, Waits
  <2> QED BY <2>3, <2>4, <2>6 DEF TimerInv
<1>6. CASE timerlist[pos].kind # "instant"
  <2>1. PICK e \in TimerEntries : e = timerlist[pos] BY <1>1
  <2>2. PICK f \in TimerEntries : f = Timers!Again(e) /\ f.kind = e.kind
    <3>1. e.interval \in Int /\ watch \in Nat BY <1>1 DEF TimerEntries
    <3>2. PICK x : x = [e EXCEPT !.remain = e.interval] OBVIOUS
    <3>3. PICK y : y = [x EXCEPT !.age = watch] OBVIOUS
    <3>4. PICK z : z = [y EXCEPT !.held = FALSE] OBVIOUS
    <3>5. x \in TimerEntries /\ x.kind = e.kind BY <3>1, <3>2, WithRemain
    <3>6. y \in TimerEntries /\ y.kind = e.kind BY <3>1, <3>3, <3>5, WithAge
    <3>7. z \in TimerEntries /\ z.kind = e.kind BY <3>4, <3>6, WithHeld
    <3>8. Timers!Again(e) = z BY ONLY <3>2, <3>3, <3>4, Zenon DEF Timers!Again
    <3> QED BY <3>7, <3>8
  <2>3. PICK g \in TimerEntries : g = Timers!Corrected(f) /\ g.kind = e.kind
    BY <2>2, CorrectedIs
  <2>4. timerlist' = [timerlist EXCEPT ![pos] = g] /\ pos' = pos + 1
    BY <1>6, <2>1, <2>2, <2>3 DEF Timers!CallbackReturns
  <2>5. /\ timerlist' \in Seq(TimerEntries) /\ Len(timerlist') = Len(timerlist)
        /\ DOMAIN timerlist' = DOMAIN timerlist
        /\ \A i \in DOMAIN timerlist : timerlist'[i] = IF i = pos THEN g ELSE timerlist[i]
    BY <1>1, <2>4
  <2>6. TimerTypes' BY <1>1, <2>4, <2>5 DEF TimerInv, TimerTypes
  <2>7. WatchBounded'
    <3>1. RanInPass' = RanInPass + 1 BY <1>1, <2>4, <2>5 DEF RanInPass
    <3>2. pos' <= Len(timerlist') + 1 BY <1>1, <2>4, <2>5
    <3>3. watch' <= RanInPass' * MaxLate BY ONLY <1>1, <1>2, <3>1
    <3> QED BY <1>1, <3>2, <3>3 DEF TimerInv, WatchBounded
  <2>8. ASSUME NEW i \in DOMAIN timerlist PROVE Waits(timerlist'[i], Ahead(i)', Least(i)')
    <3>1. i \in Nat BY <1>1
    <3>2. CASE i = pos
      <4>1. timerlist'[i] = g /\ g.kind # "instant" BY <1>6, <2>1, <2>3, <2>5, <3>2
      <4> QED BY <4>1 DEF Waits
    <3>3. CASE i # pos
      <4>1. i < pos <=> i < pos' BY <1>1, <2>4, <3>1, <3>3
      <4>2. Ahead(i)' = Ahead(i) /\ Least(i)' = Least(i) BY <1>3, <1>4, <3>1, <3>3, <4>1
      <4>3. timerlist'[i] = timerlist[i] BY <2>5, <3>3
      <4> QED BY <4>2, <4>3 DEF TimerInv, InstantsWait
    <3> QED BY <3>2, <3>3
  <2>9. InstantsWait' BY <2>5, <2>8 DEF InstantsWait, Waits
  <2> QED BY <2>6, <2>7, <2>9 DEF TimerInv
<1> QED BY <1>5, <1>6

\* Time goes on.
LEMMA OlderIs ==
  ASSUME TimerInv, NEW i \in DOMAIN timerlist, NEW e, e = timerlist[i]
  PROVE  \E f \in TimerEntries :
           /\ f = Timers!Older(i)
           /\ \A ahead \in Nat, least \in Int :
                Waits(e, ahead, least) => Waits(f, ahead + 1, least)
<1>1. e \in TimerEntries BY DEF TimerInv, TimerTypes
<1>2. PICK held \in BOOLEAN :
        held = (e.held \/ (e.kind # "instant" /\ pc = "callback" /\ i > pos))
  OBVIOUS
<1>3. PICK age \in Nat : age = IF held THEN 0 ELSE e.age + 1
  BY <1>1 DEF TimerEntries
<1>4. PICK x : x = [e EXCEPT !.held = held] OBVIOUS
<1>5. PICK f : f = [x EXCEPT !.age = age] OBVIOUS
<1>6. /\ x \in TimerEntries /\ x.kind = e.kind /\ x.interval = e.interval
      /\ x.remain = e.remain /\ x.held = held
  BY <1>1, <1>4, WithHeld
<1>7. /\ f \in TimerEntries /\ f.kind = e.kind /\ f.interval = e.interval
      /\ f.remain = e.remain /\ f.held = held /\ f.age = age
  BY <1>5, <1>6, WithAge
<1>8. f = Timers!Older(i)
  <2>1. f = [e EXCEPT !.held = held, !.age = age] BY ONLY <1>4, <1>5, Zenon
  <2> QED BY <1>2, <1>3, <2>1, Zenon DEF Timers!Older
<1>9. ASSUME NEW ahead \in Nat, NEW least \in Int, Waits(e, ahead, least)
      PROVE  Waits(f, ahead + 1, least)
  <2>1. ASSUME e.kind = "instant"
        PROVE  ~f.held /\ f.age = f.interval - f.remain + (ahead + 1) /\ f.remain >= least
    <3>1. ~e.held /\ e.age = e.interval - e.remain + ahead /\ e.remain >= least
      BY <1>9, <2>1 DEF Waits
    <3>2. ~held BY <1>2, <2>1, <3>1
    <3>3. age = e.age + 1 BY <1>3, <3>2
    <3>4. e.interval \in Nat /\ e.remain \in Int /\ e.age \in Nat BY <1>1 DEF TimerEntries
    <3>5. age = e.interval - e.remain + (ahead + 1) BY <3>1, <3>3, <3>4
    <3> QED BY <1>7, <3>1, <3>2, <3>5
  <2> QED BY <1>7, <2>1 DEF Waits
<1> QED BY <1>7, <1>8, <1>9

LEMMA TickKeeps ==
  ASSUME TimerInv, Timers!Tick PROVE TimerInv'
<1>1. clock' \in Nat
  <2>1. clock + 1 \in Nat BY DEF TimerInv, TimerTypes
  <2>2. clock' = (clock + 1) % Timers!Day BY DEF Timers!Tick
  <2> QED BY <2>1, <2>2, ClockFacts
<1>2. CASE pc = "off"
  <2>1. UNCHANGED <<timerlist, watch, since, pc, pos, lapsed>> BY <1>2 DEF Timers!Tick
  <2>2. TimerTypes' BY <1>1, <2>1 DEF TimerInv, TimerTypes
  <2>3. WatchBounded' BY <2>1 DEF TimerInv, WatchBounded, RanInPass
  <2>4. InstantsWait' BY <2>1 DEF TimerInv, InstantsWait, Ahead, Least, Passed, Waits
  <2> QED BY <2>2, <2>3, <2>4 DEF TimerInv
<1>3. CASE pc # "off"
  <2>1. /\ watch' = watch + 1 /\ since' = since + 1
        /\ timerlist' = [i \in DOMAIN timerlist |-> Timers!Older(i)]
        /\ UNCHANGED <<pc, pos, lapsed>>
        /\ \/ pc = "sleep" /\ since < CHECK_INTERVAL + MaxLate
           \/ pc = "callback" /\ since < MaxLate
    BY <1>3 DEF Timers!Tick, Timers!MayTakeLonger
  <2>2. /\ timerlist \in Seq(TimerEntries) /\ Len(timerlist) \in Nat /\ Len(timerlist) <= MaxTimers
        /\ MaxTimers \in Nat /\ MaxLate \in Nat /\ CHECK_INTERVAL \in Nat
        /\ watch \in Nat /\ lapsed \in Nat /\ since \in Nat /\ pos \in Nat \ {0}
    BY TimerAssumption DEF TimerInv, TimerTypes
  <2>3. \A i \in DOMAIN timerlist : Timers!Older(i) \in TimerEntries BY OlderIs
  <2>4. /\ timerlist' \in Seq(TimerEntries) /\ Len(timerlist') = Len(timerlist)
        /\ DOMAIN timerlist' = DOMAIN timerlist
        /\ \A i \in DOMAIN timerlist : timerlist'[i] = Timers!Older(i)
    <3>1. timerlist' \in [1..Len(timerlist) -> TimerEntries] BY <2>1, <2>2, <2>3
    <3> QED BY <2>1, <2>2, <3>1
  <2>5. TimerTypes' BY <1>1, <2>1, <2>2, <2>4 DEF TimerInv, TimerTypes
  <2>6. WatchBounded'
    <3>1. RanInPass' = RanInPass /\ (pc = "callback" => RanInPass \in Nat)
      <4>1. RanInPass' = RanInPass BY <2>1, <2>4 DEF RanInPass
      <4>2. pc = "callback" => pos <= Len(timerlist) BY DEF TimerInv, WatchBounded
      <4> QED BY <2>2, <4>1, <4>2 DEF RanInPass
    <3>2. CASE pc = "sleep"
      <4>1. watch <= Timers!Callbacks + since BY <3>2 DEF TimerInv, WatchBounded
      <4>2. watch' <= Timers!Callbacks + since' BY <2>1, <2>2, <4>1, SpentIs
      <4>3. since' <= CHECK_INTERVAL + MaxLate BY <2>1, <2>2, <3>2
      <4> QED BY <2>1, <3>2, <4>2, <4>3 DEF TimerInv, WatchBounded
    <3>3. CASE pc = "callback"
      <4>1. watch <= RanInPass * MaxLate + since /\ pos <= Len(timerlist)
        BY <3>3 DEF TimerInv, WatchBounded
      <4>2. RanInPass * MaxLate \in Nat BY <3>1, <3>3, SpentIs
      <4>3. watch' <= RanInPass * MaxLate + since' BY ONLY <2>1, <2>2, <4>1, <4>2
      <4>4. since' <= MaxLate /\ pos' <= Len(timerlist') BY <2>1, <2>2, <2>4, <3>3, <4>1
      <4>5. watch' <= RanInPass' * MaxLate + since' BY ONLY <3>1, <4>3
      <4> QED BY <2>1, <3>3, <4>4, <4>5 DEF TimerInv, WatchBounded
    <3> QED BY <2>1, <3>2, <3>3
  <2>7. ASSUME NEW i \in DOMAIN timerlist PROVE Waits(timerlist'[i], Ahead(i)', Least(i)')
    <3>1. Waits(timerlist[i], Ahead(i), Least(i)) BY DEF TimerInv, InstantsWait
    <3>2. Ahead(i) \in Nat /\ Least(i) \in Int BY <2>2 DEF Ahead, Least
    <3>3. Ahead(i)' = Ahead(i) + 1 /\ Least(i)' = Least(i)
      BY <2>1, <2>2 DEF Ahead, Least, Passed
    <3>4. Waits(Timers!Older(i), Ahead(i) + 1, Least(i)) BY <3>1, <3>2, OlderIs
    <3> QED BY <2>4, <3>3, <3>4
  <2>8. InstantsWait' BY <2>4, <2>7 DEF InstantsWait, Waits
  <2> QED BY <2>5, <2>6, <2>8 DEF TimerInv
<1> QED BY <1>2, <1>3

\* What is registered is an entry that has all its time to wait.
LEMMA EntryIs ==
  ASSUME TimerInv, NEW functor \in BOOLEAN, NEW interval \in Nat, NEW remain \in Int,
         NEW kind \in {"flat", "normal", "instant"},
         kind = "instant" => remain = interval
  PROVE  /\ Timers!Entry(kind, functor, interval, remain) \in TimerEntries
         /\ Waits(Timers!Entry(kind, functor, interval, remain), watch, 0)
<1>1. watch \in Nat BY DEF TimerInv, TimerTypes
<1>2. PICK e : e = Timers!Entry(kind, functor, interval, remain) OBVIOUS
<1>3. /\ e \in TimerEntries /\ e.kind = kind /\ e.interval = interval /\ e.remain = remain
      /\ e.age = watch /\ e.held = FALSE
  BY <1>1, <1>2 DEF Timers!Entry, TimerEntries
<1>4. kind = "instant" => watch = interval - remain + watch /\ remain >= 0 BY <1>1
<1>5. Waits(e, watch, 0) BY <1>3, <1>4 DEF Waits
<1> QED BY <1>2, <1>3, <1>5

LEMMA RegistersKeep ==
  ASSUME TimerInv, NEW c,
         \/ c \in FlatCalls /\ Timers!RegisterFlatTimer(c[1], c[2])
         \/ c \in NormalCalls /\ Timers!RegisterNormalTimer(c[1], c[2])
         \/ c \in InstantCalls /\ Timers!RegisterInstantTimer(c[1], c[2])
  PROVE  TimerInv'
<1>1. c[1] \in BOOLEAN /\ c[2] \in Nat BY TimerAssumption
<1>2. PICK functor \in BOOLEAN, n \in Nat : functor = c[1] /\ n = c[2] BY <1>1
<1>3. PICK t \in Nat : t = n * Second
  <2>1. n * Second \in Nat BY TimerAssumption
  <2> QED BY <2>1
<1>4. PICK kind \in {"flat", "normal", "instant"}, interval \in Nat, remain \in Int :
        /\ kind = "instant" => remain = interval
        /\ Timers!Register(Timers!Entry(kind, functor, interval, remain))
  <2>1. CASE Timers!RegisterFlatTimer(c[1], c[2])
    <3>1. Timers!CalcRemainMSec(n) \in Int BY RemainIsInt
    <3>2. Timers!Register(Timers!Entry("flat", functor, n, Timers!CalcRemainMSec(n)))
      BY <1>2, <2>1 DEF Timers!RegisterFlatTimer
    <3> QED BY <3>1, <3>2
  <2>2. CASE Timers!RegisterNormalTimer(c[1], c[2])
    <3>1. Timers!Register(Timers!Entry("normal", functor, t, 1))
      BY <1>2, <1>3, <2>2 DEF Timers!RegisterNormalTimer
    <3> QED BY <3>1
  <2>3. CASE Timers!RegisterInstantTimer(c[1], c[2])
    <3>1. Timers!Register(Timers!Entry("instant", functor, t, t))
      BY <1>2, <1>3, <2>3 DEF Timers!RegisterInstantTimer
    <3>2. t \in Int OBVIOUS
    <3> QED BY <3>1, <3>2
  <2> QED BY <2>1, <2>2, <2>3
<1> QED BY <1>4, EntryIs, RegisterKeeps

LEMMA TimerInit == BaseInit => TimerInv
<1> SUFFICES ASSUME BaseInit PROVE TimerInv OBVIOUS
<1>1. /\ timerlist = << >> /\ clock \in 0..(Timers!Day - 1) /\ watch = 0
      /\ pc = "off" /\ since = 0 /\ pos = 1 /\ lapsed = 0
  BY DEF BaseInit, Timers!Init
<1>2. TimerTypes BY <1>1, ClockFacts, TimerAssumption DEF TimerTypes
<1>3. WatchBounded BY <1>1, SpentIs DEF WatchBounded
<1>4. InstantsWait BY <1>1 DEF InstantsWait
<1> QED BY <1>2, <1>3, <1>4 DEF TimerInv

\* Only an entry that is due starts a callback.
InTimeStep == pc = "scan" /\ pc' = "callback" /\ timerlist[pos].kind = "instant"
                => timerlist[pos].age >= timerlist[pos].interval

LEMMA TimerSteps ==
  ASSUME TimerInv, [BaseNext]_baseVars PROVE TimerInv' /\ [InTimeStep]_(Timers!vars)
<1>1. CASE UNCHANGED timerVars
  <2>1. UNCHANGED Timers!vars /\ UNCHANGED <<timerlist, clock, watch, pc, since, pos, lapsed>>
    BY <1>1 DEF timerVars, Timers!vars
  <2>2. TimerTypes' BY <2>1 DEF TimerInv, TimerTypes
  <2>3. WatchBounded' BY <2>1 DEF TimerInv, WatchBounded, RanInPass
  <2>4. InstantsWait' BY <2>1 DEF TimerInv, InstantsWait, Ahead, Least, Passed, Waits
  <2> QED BY <2>1, <2>2, <2>3, <2>4 DEF TimerInv
<1>2. CASE Timers!Next
  <2>1. CASE \/ \E c \in FlatCalls : Timers!RegisterFlatTimer(c[1], c[2])
             \/ \E c \in NormalCalls : Timers!RegisterNormalTimer(c[1], c[2])
             \/ \E c \in InstantCalls : Timers!RegisterInstantTimer(c[1], c[2])
    <3>1. pc' = pc
      BY <2>1 DEF Timers!RegisterFlatTimer, Timers!RegisterNormalTimer,
                  Timers!RegisterInstantTimer, Timers!Register
    <3> QED BY <2>1, <3>1, RegistersKeep DEF InTimeStep
  <2>2. CASE \E functor \in BOOLEAN : Timers!RemoveTimer(functor)
    <3>1. pc' = pc BY <2>2 DEF Timers!RemoveTimer
    <3>2. TimerInv' BY <2>2, RemoveKeeps
    <3> QED BY <3>1, <3>2 DEF InTimeStep
  <2>3. CASE Timers!Start \/ Timers!Pass
    BY <2>3, PassKeeps DEF InTimeStep, Timers!Start, Timers!Pass, Timers!Goto
  <2>4. CASE Timers!Skip
    BY <2>4, SkipKeeps DEF InTimeStep, Timers!Skip
  <2>5. CASE Timers!Due
    BY <2>5, DueKeeps DEF InTimeStep
  <2>6. CASE Timers!CallbackReturns
    BY <2>6, CallbackKeeps DEF InTimeStep, Timers!CallbackReturns
  <2>7. CASE Timers!EndPass
    BY <2>7, EndPassKeeps DEF InTimeStep, Timers!EndPass, Timers!Goto
  <2>8. CASE Timers!Tick
    BY <2>8, TickKeeps DEF InTimeStep, Timers!Tick
  <2> QED BY <1>2, <2>1, <2>2, <2>3, <2>4, <2>5, <2>6, <2>7, <2>8 DEF Timers!Next, Timers!Run
<1>3. UNCHANGED timerVars \/ Timers!Next
  BY DEF BaseNext, UsePool, UseRing, UseStream, UseDate, UseTimer, UseBuffer, UseSlots, baseVars
<1> QED BY <1>1, <1>2, <1>3

LEMMA TimerInvariant == BaseSpec => []TimerInv
<1>1. BaseInit => TimerInv BY TimerInit
<1>2. TimerInv /\ [BaseNext]_baseVars => TimerInv' BY TimerSteps
<1> QED BY <1>1, <1>2, PTL DEF BaseSpec

\* What a timer may be ahead of the pass, above the least that may remain.
LEMMA AheadBounded ==
  ASSUME TimerInv, NEW i \in DOMAIN timerlist
  PROVE  \E ahead \in Nat, least \in Int :
           /\ ahead = Ahead(i) /\ least = Least(i)
           /\ ahead - least <= Timers!Slack + Timers!Callbacks
<1>1. /\ watch \in Nat /\ lapsed \in Nat /\ since \in Nat /\ pos \in Nat \ {0}
      /\ Len(timerlist) \in Nat /\ Len(timerlist) <= MaxTimers /\ i \in Nat
      /\ MaxTimers \in Nat /\ MaxLate \in Nat /\ CHECK_INTERVAL \in Nat
      /\ lapsed <= Timers!Slack
  BY TimerAssumption DEF TimerInv, TimerTypes, WatchBounded
<1>2. /\ Timers!Callbacks \in Nat /\ Timers!Slack \in Nat
      /\ Timers!Slack = CHECK_INTERVAL + MaxLate + Timers!Callbacks
  BY SpentIs
<1>3. CASE pc \in {"off", "sleep"}
  <2>1. Ahead(i) = watch /\ Least(i) = 0 BY <1>3 DEF Ahead, Passed, Least
  <2>2. watch <= Timers!Slack
    <3>1. CASE pc = "off"
      <4>1. watch = 0 BY <3>1 DEF TimerInv, WatchBounded
      <4> QED BY <1>2, <4>1
    <3>2. CASE pc = "sleep"
      <4>1. since <= CHECK_INTERVAL + MaxLate /\ watch <= Timers!Callbacks + since
        BY <3>2 DEF TimerInv, WatchBounded
      <4> QED BY ONLY <1>1, <1>2, <4>1
    <3> QED BY <1>3, <3>1, <3>2
  <2>3. watch - 0 <= Timers!Slack + Timers!Callbacks BY ONLY <1>1, <1>2, <2>2
  <2> QED BY <1>1, <2>1, <2>3
<1>4. CASE pc \in {"scan", "callback"}
  <2>1. watch <= Timers!Callbacks
    <3>1. CASE pc = "scan"
      <4>1. pos <= Len(timerlist) + 1 /\ watch <= RanInPass * MaxLate
        BY <3>1 DEF TimerInv, WatchBounded
      <4>2. RanInPass \in Nat /\ RanInPass <= MaxTimers BY <1>1, <4>1 DEF RanInPass
      <4>3. RanInPass * MaxLate <= MaxTimers * MaxLate /\ RanInPass * MaxLate \in Nat
        BY <1>1, <4>2, SpentIs
      <4>4. Timers!Callbacks = MaxTimers * MaxLate BY SpentIs
      <4> QED BY ONLY <1>1, <1>2, <4>1, <4>3, <4>4
    <3>2. CASE pc = "callback"
      <4>1. pos <= Len(timerlist) /\ since <= MaxLate /\ watch <= RanInPass * MaxLate + since
        BY <3>2 DEF TimerInv, WatchBounded
      <4>2. RanInPass \in Nat /\ RanInPass + 1 <= MaxTimers BY <1>1, <4>1 DEF RanInPass
      <4>3. PICK n \in Nat : n = RanInPass + 1 /\ n <= MaxTimers BY <4>2
      <4>4. PICK spent \in Nat : spent = RanInPass * MaxLate BY <4>2, SpentIs
      <4>5. n * MaxLate = spent + MaxLate BY <4>2, <4>3, <4>4, SpentIs
      <4>6. n * MaxLate <= Timers!Callbacks BY <1>1, <4>3, SpentIs
      <4>7. spent + MaxLate <= Timers!Callbacks BY ONLY <4>5, <4>6
      <4>8. watch <= spent + since BY ONLY <4>1, <4>4
      <4>9. watch \in Nat /\ since \in Nat /\ MaxLate \in Nat /\ since <= MaxLate
        BY ONLY <1>1, <1>2, <4>1
      <4>10. watch <= spent + MaxLate BY ONLY <4>4, <4>8, <4>9
      <4> QED BY ONLY <1>1, <1>2, <4>4, <4>7, <4>9, <4>10
    <3> QED BY <1>4, <3>1, <3>2
  <2>2. CASE pc = "callback" /\ i = pos
    <3>1. Ahead(i) = watch /\ Least(i) = -lapsed BY <2>2 DEF Ahead, Passed, Least
    <3>2. watch - (-lapsed) <= Timers!Slack + Timers!Callbacks /\ -lapsed \in Int
      BY ONLY <1>1, <1>2, <2>1
    <3> QED BY <1>1, <3>1, <3>2
  <2>3. CASE ~(pc = "callback" /\ i = pos)
    <3>1. (Ahead(i) = watch \/ Ahead(i) = watch + lapsed) /\ Least(i) = 0
      BY <2>3 DEF Ahead, Least
    <3>2. /\ watch - 0 <= Timers!Slack + Timers!Callbacks
          /\ (watch + lapsed) - 0 <= Timers!Slack + Timers!Callbacks
          /\ watch + lapsed \in Nat
      BY ONLY <1>1, <1>2, <2>1
    <3> QED BY <1>1, <3>1, <3>2
  <2> QED BY <2>2, <2>3
<1> QED BY <1>3, <1>4 DEF TimerInv, TimerTypes

\* What an instant timer has waited is bounded by what it may still wait.
LEMMA WaitsInTime ==
  ASSUME TimerInv, NEW i \in DOMAIN timerlist, timerlist[i].kind = "instant"
  PROVE  timerlist[i].age <= timerlist[i].interval + Timers!Slack + Timers!Callbacks
<1>1. PICK e \in TimerEntries : e = timerlist[i] BY DEF TimerInv, TimerTypes
<1>2. PICK ahead \in Nat, least \in Int :
        /\ ahead = Ahead(i) /\ least = Least(i)
        /\ ahead - least <= Timers!Slack + Timers!Callbacks
  BY AheadBounded
<1>3. e.age = e.interval - e.remain + ahead /\ e.remain >= least
  BY <1>1, <1>2 DEF TimerInv, InstantsWait, Waits
<1>4. e.interval \in Nat /\ e.remain \in Int /\ Timers!Slack \in Nat /\ Timers!Callbacks \in Nat
  BY SpentIs DEF TimerEntries
<1> QED BY ONLY <1>1, <1>2, <1>3, <1>4

(***************************************************************************)
(* Whatever the clock, the timers and the callbacks, an instant timer runs *)
(* once, not before its time is over and at most a pass after it           *)
(* (Timer.cpp:109-114, 151-170).                                           *)
(***************************************************************************)
THEOREM InstantTimersRunInTime == BaseSpec => InstantRunsInTime
<1>1. TimerInv => \A i \in DOMAIN timerlist :
                    timerlist[i].kind = "instant"
                      => timerlist[i].age <= timerlist[i].interval + Timers!Slack + Timers!Callbacks
  BY WaitsInTime
<1>2. TimerInv /\ [BaseNext]_baseVars => [InTimeStep]_(Timers!vars) BY TimerSteps
<1> QED BY <1>1, <1>2, TimerInvariant, PTL
        DEF BaseSpec, InstantRunsInTime, Timers!InstantRunsInTime, InTimeStep

(***************************************************************************)
(* What holds of cycle timers as well.  Until it is corrected, such a      *)
(* timer has waited and will wait its interval together, or one tick more  *)
(* where it was registered to run at the next pass.  When it is corrected  *)
(* it heads for the next round time, which was within two intervals then,  *)
(* and later corrections find no nearer one (Timer.cpp:172-178).           *)
(* `due' are the ticks until nothing remains to it, `rest' is what remains *)
(* above the least that may.                                               *)
(***************************************************************************)
Round(x, type) == \E q \in Int : x = type * q

Uncorrected(e, due, rest) == \/ e.age + due <= e.interval /\ rest >= 0
                             \/ e.age + due <= e.interval + 1 /\ rest >= 1
ForRoundTime(e, due, rest, now) == /\ e.interval \in Timers!FlatTime
                                   /\ Round(now + due, e.interval)
                                   /\ e.age + due <= 2 * e.interval /\ rest >= 0
Heads(e, due, rest, now, on) ==
  e.kind # "instant" /\ ~e.held
    => Uncorrected(e, due, rest) \/ (on /\ ForRoundTime(e, due, rest, now))

CyclesHead ==
  \A i \in DOMAIN timerlist :
    Heads(timerlist[i], timerlist[i].remain - Ahead(i), timerlist[i].remain - Least(i),
          clock, pc # "off")

\* A pass has been kept from no entry in front of it that was not held.
Prompt == \A i \in DOMAIN timerlist :
            timerlist[i].kind # "instant" /\ ~timerlist[i].held /\ ~Passed(i) => watch = 0

CycleInv == CyclesHead /\ Prompt

LEMMA AimIsRound ==
  ASSUME NEW now \in Nat, NEW type \in Nat \ {0}, NEW x, Aimed(now, type, x)
  PROVE  x \in Nat /\ Round(now + x, type)
<1>1. x \in Nat /\ (now + x) % type = 0 BY DEF Aimed
<1>2. PICK a \in Nat : a = now + x BY <1>1
<1>3. PICK q \in Nat, r \in 0..(type - 1) : a = type * q + r /\ r = a % type BY DivisionHas
<1>4. r = 0 BY ONLY <1>1, <1>2, <1>3, Zenon
<1>5. a = type * q
  <2>1. type * q \in Nat OBVIOUS
  <2>2. a = type * q + r BY ONLY <1>3
  <2> QED BY ONLY <1>4, <2>1, <2>2
<1>6. Round(a, type)
  <2>1. q \in Int OBVIOUS
  <2> QED BY ONLY <1>5, <2>1, Zenon DEF Round
<1> QED BY ONLY <1>1, <1>2, <1>6

\* No round time comes before the one aimed at.
LEMMA AimIsNext ==
  ASSUME NEW now \in Nat, NEW type \in Nat \ {0}, NEW x, Aimed(now, type, x),
         NEW due \in Nat \ {0}, Round(now + due, type)
  PROVE  x <= due
<1>1. x \in Nat /\ x <= type /\ Round(now + x, type)
  <2>1. x \in Nat /\ Round(now + x, type) BY AimIsRound
  <2>2. x <= type BY DEF Aimed
  <2> QED BY <2>1, <2>2
<1>2. PICK q \in Int : now + x = type * q BY <1>1 DEF Round
<1>3. PICK p \in Int : now + due = type * p BY DEF Round
<1>4. ASSUME q <= p PROVE x <= due
  <2>1. PICK d \in Nat : p = q + d
    <3>1. p - q \in Nat /\ p = q + (p - q) BY <1>4
    <3> QED BY <3>1
  <2>2. type * (q + d) = type * q + type * d /\ type * d \in Nat /\ type * q \in Int OBVIOUS
  <2>3. now + due = (now + x) + type * d BY <1>2, <1>3, <2>1, <2>2
  <2> QED BY <1>1, <2>2, <2>3
<1>5. ASSUME p < q PROVE FALSE
  <2>1. PICK d \in Nat : q = p + 1 + d
    <3>1. q - p - 1 \in Nat /\ q = p + 1 + (q - p - 1) BY <1>5
    <3> QED BY <3>1
  <2>2. type * (p + 1 + d) = type * p + type + type * d /\ type * d \in Nat /\ type * p \in Int
    OBVIOUS
  <2>3. now + x = (now + due) + type + type * d BY <1>2, <1>3, <2>1, <2>2
  <2> QED BY <1>1, <2>2, <2>3
<1> QED BY <1>4, <1>5

LEMMA DividingDivides ==
  ASSUME NEW unit \in Nat \ {0}, NEW n \in Nat \ {0}, NEW type \in Timers!Dividing(unit, n)
  PROVE  type \in Nat \ {0} /\ \E b \in Nat : n * unit = type * b
<1>1. PICK k \in Nat \ {0} : type = unit * k /\ n % k = 0 /\ type \in Nat \ {0} BY DividingIs
<1>2. PICK b \in Nat, r \in 0..(k - 1) : n = k * b + r /\ r = n % k BY DivisionHas
<1>3. n = k * b
  <2>1. r = 0 BY ONLY <1>1, <1>2, Zenon
  <2>2. k * b \in Nat /\ n = k * b + r BY <1>2
  <2> QED BY ONLY <2>1, <2>2
<1>4. (k * b) * unit = (unit * k) * b OBVIOUS
<1>5. n * unit = type * b BY ONLY <1>1, <1>3, <1>4
<1> QED BY <1>1, <1>5

\* Every round time of every kind comes again each day.
LEMMA DayIsRound ==
  ASSUME NEW type \in Timers!FlatTime
  PROVE  type \in Nat \ {0} /\ \E b \in Nat : Timers!Day = type * b
<1>1. ASSUME NEW t \in Nat, NEW n \in Nat, NEW unit \in Nat, NEW b \in Nat, unit = t * b
      PROVE  n * unit = t * (b * n) /\ b * n \in Nat
  <2>1. n * (t * b) = t * (b * n) /\ b * n \in Nat OBVIOUS
  <2> QED BY ONLY <1>1, <2>1
<1>2. CASE type \in Timers!EverySeconds
  <2>1. PICK b \in Nat : Timers!Minute = type * b /\ type \in Nat \ {0}
    BY <1>2, ClockFacts, DividingDivides DEF Timers!EverySeconds, Timers!Minute
  <2>2. PICK c \in Nat : Timers!Hour = type * c
    BY <2>1, <1>1, ClockFacts DEF Timers!Hour
  <2>3. PICK d \in Nat : Timers!Day = type * d
    BY <2>1, <2>2, <1>1, ClockFacts DEF Timers!Day
  <2> QED BY <2>1, <2>3
<1>3. CASE type \in Timers!EveryMinutes
  <2>1. PICK c \in Nat : Timers!Hour = type * c /\ type \in Nat \ {0}
    BY <1>3, ClockFacts, DividingDivides DEF Timers!EveryMinutes, Timers!Hour
  <2>2. PICK d \in Nat : Timers!Day = type * d
    BY <2>1, <1>1, ClockFacts DEF Timers!Day
  <2> QED BY <2>1, <2>2
<1>4. CASE type \in Timers!EveryHours
  <2>1. CASE type = Timers!Day
    <3>1. Timers!Day = type * 1 BY <2>1, ClockFacts
    <3> QED BY <2>1, <3>1, ClockFacts
  <2>2. CASE type \in Timers!Dividing(Timers!Hour, HoursPerDay)
    BY <2>2, ClockFacts, DividingDivides DEF Timers!Day
  <2> QED BY <1>4, <2>1, <2>2 DEF Timers!EveryHours
<1> QED BY <1>2, <1>3, <1>4 DEF Timers!FlatTime

\* A tick of the clock leaves a round time where it is, at midnight too.
LEMMA TickLeavesRound ==
  ASSUME NEW now \in Nat, NEW due \in Int, NEW type \in Timers!FlatTime, Round(now + due, type)
  PROVE  Round(((now + 1) % Timers!Day) + (due - 1), type)
<1>1. PICK b \in Nat : Timers!Day = type * b /\ type \in Nat \ {0} BY DayIsRound
<1>2. PICK q \in Int : now + due = type * q BY DEF Round
<1>3. PICK day \in Nat \ {0} : day = Timers!Day BY ClockFacts
<1>4. PICK c \in Nat, m \in Nat : now + 1 = day * c + m /\ m = (now + 1) % day
  <2>1. now + 1 \in Nat OBVIOUS
  <2>2. PICK c \in Nat, m \in 0..(day - 1) : now + 1 = day * c + m /\ m = (now + 1) % day
    BY ONLY <2>1, DivisionHas, day \in Nat \ {0}
  <2> QED BY <2>2
<1>5. day * c = type * (b * c) /\ b * c \in Nat
  <2>1. (type * b) * c = type * (b * c) /\ b * c \in Nat BY <1>1
  <2> QED BY ONLY <1>1, <1>3, <2>1
<1>6. PICK p \in Int : p = q - b * c BY <1>5
<1>7. type * p = type * q - type * (b * c)
  <2>1. PICK y \in Nat : y = b * c BY <1>5
  <2>2. type * (q - y) = type * q - type * y BY <1>1
  <2> QED BY ONLY <1>6, <2>1, <2>2
<1>8. m + (due - 1) = type * p
  <2>1. PICK u \in Int : u = type * q BY <1>1
  <2>2. PICK v \in Int : v = day * c OBVIOUS
  <2>3. type * p = u - v BY ONLY <1>5, <1>7, <2>1, <2>2
  <2>4. now + due = u /\ now + 1 = v + m BY ONLY <1>2, <1>4, <2>1, <2>2
  <2> QED BY <2>3, <2>4
<1> QED BY ONLY <1>3, <1>4, <1>6, <1>8, Zenon DEF Round

\* What happens to an entry that is not corrected: it may be shortened, and
\* time goes on.
LEMMA HeadsOn ==
  ASSUME NEW e \in TimerEntries, NEW f \in TimerEntries,
         NEW due \in Int, NEW next \in Int, NEW rest \in Int, NEW left \in Int,
         NEW now \in Nat, NEW later \in Nat, NEW on \in BOOLEAN,
         Heads(e, due, rest, now, on),
         f.kind = e.kind, f.interval = e.interval,
         ~f.held => ~e.held /\ f.age + next = e.age + due,
         left >= rest \/ (rest >= 0 => left >= 1),
         on /\ e.interval \in Timers!FlatTime /\ Round(now + due, e.interval)
           => Round(later + next, e.interval)
  PROVE  Heads(f, next, left, later, on)
<1> SUFFICES ASSUME f.kind # "instant", ~f.held
             PROVE  Uncorrected(f, next, left) \/ (on /\ ForRoundTime(f, next, left, later))
  BY DEF Heads
<1>1. e.kind # "instant" /\ ~e.held /\ f.age + next = e.age + due /\ f.interval = e.interval
  OBVIOUS
<1>2. e.age \in Nat /\ f.age \in Nat /\ e.interval \in Nat BY DEF TimerEntries
<1>3. CASE Uncorrected(e, due, rest)
  BY <1>1, <1>2, <1>3 DEF Uncorrected
<1>4. CASE on /\ ForRoundTime(e, due, rest, now)
  <2>1. Round(later + next, f.interval) /\ f.interval \in Timers!FlatTime
    BY <1>1, <1>4 DEF ForRoundTime
  <2>2. f.age + next <= 2 * f.interval /\ left >= 0
    BY <1>1, <1>2, <1>4 DEF ForRoundTime
  <2> QED BY <1>4, <2>1, <2>2 DEF ForRoundTime
<1> QED BY <1>1, <1>3, <1>4 DEF Heads

\* A correction without a callback: the pass is in time, and the timer heads
\* for the next round time, if it is of a kind that has any.
LEMMA CorrectedHeads ==
  ASSUME TimerInv, pc = "scan", NEW e \in TimerEntries, e.remain >= 1,
         e.kind # "instant" /\ ~e.held => watch = 0,
         Heads(e, e.remain - watch, e.remain, clock, TRUE)
  PROVE  LET f == Timers!Corrected(e) IN Heads(f, f.remain - watch, f.remain, clock, TRUE)
<1>1. PICK f \in TimerEntries : f = Timers!Corrected(e) /\ f.kind = e.kind
  BY CorrectedIs
<1>2. clock \in Nat BY DEF TimerInv, TimerTypes
<1>3. e.age \in Nat /\ e.interval \in Nat /\ e.remain \in Int BY DEF TimerEntries
<1>4. PICK aim \in Int : aim = Timers!CalcRemainMSec(e.interval) BY RemainIsInt
<1>5. CASE f = e BY <1>1, <1>5
<1>6. CASE f # e
  <2>1. f = [e EXCEPT !.remain = aim] BY <1>1, <1>4, <1>6 DEF Timers!Corrected
  <2>2. f.remain = aim /\ f.age = e.age /\ f.interval = e.interval /\ f.held = e.held
    BY <2>1 DEF TimerEntries
  <2> SUFFICES ASSUME e.kind # "instant", ~e.held
               PROVE  \/ Uncorrected(f, aim - watch, aim)
                      \/ ForRoundTime(f, aim - watch, aim, clock)
    BY <1>1, <2>2 DEF Heads
  <2>3. watch = 0 OBVIOUS
  <2>4. PICK due \in Nat \ {0} : due = e.remain BY <1>3
  <2>5. \/ e.age + due <= e.interval + 1
        \/ ForRoundTime(e, due, due, clock)
    <3>1. e.remain - watch = due BY <1>3, <2>3, <2>4
    <3>2. Uncorrected(e, due, due) \/ ForRoundTime(e, due, due, clock)
      BY ONLY Heads(e, e.remain - watch, e.remain, clock, TRUE), <2>4, <3>1,
              e.kind # "instant", ~e.held DEF Heads
    <3> QED BY <1>3, <3>2 DEF Uncorrected
  <2>6. aim - watch = aim BY <2>3
  <2>7. CASE e.interval \notin Timers!FlatTime
    <3>1. aim = 0 BY <1>2, <1>4, <2>7, RemainAims
    <3>2. e.age <= e.interval BY <1>3, <2>4, <2>5, <2>7 DEF ForRoundTime
    <3>3. Uncorrected(f, aim, aim) BY <1>3, <2>2, <3>1, <3>2 DEF Uncorrected
    <3> QED BY <2>6, <3>3
  <2>8. CASE e.interval \in Timers!FlatTime
    <3>1. Aimed(clock, e.interval, aim) BY <1>2, <1>4, <2>8, RemainAims
    <3>2. e.interval \in Nat \ {0} BY <2>8, DayIsRound
    <3>3. aim \in Nat /\ Round(clock + aim, e.interval) BY <1>2, <3>1, <3>2, AimIsRound
    <3>4. e.age + aim <= 2 * e.interval
      <4>1. CASE e.age + due <= e.interval + 1
        <5>1. aim <= e.interval BY <3>1 DEF Aimed
        <5> QED BY <1>3, <2>4, <3>3, <4>1, <5>1
      <4>2. CASE ForRoundTime(e, due, due, clock)
        <5>1. Round(clock + due, e.interval) /\ e.age + due <= 2 * e.interval
          BY <4>2 DEF ForRoundTime
        <5>2. aim <= due BY ONLY <1>2, <2>4, <3>1, <3>2, <5>1, AimIsNext
        <5> QED BY ONLY <1>3, <2>4, <3>3, <5>1, <5>2
      <4> QED BY <2>5, <4>1, <4>2
    <3>5. ForRoundTime(f, aim, aim, clock)
      BY <1>3, <2>2, <2>8, <3>3, <3>4 DEF ForRoundTime
    <3> QED BY <2>6, <3>5
  <2> QED BY <2>7, <2>8
<1> QED BY <1>5, <1>6, <1>1

\* A callback has run: the timer has its interval to wait, or less.
LEMMA AgainHeads ==
  ASSUME TimerInv, NEW e \in TimerEntries
  PROVE  LET f == Timers!Corrected(Timers!Again(e))
         IN  Heads(f, f.remain - watch, f.remain, clock, TRUE)
<1>1. watch \in Nat /\ clock \in Nat BY DEF TimerInv, TimerTypes
<1>2. PICK again \in TimerEntries :
        /\ again = Timers!Again(e)
        /\ again.interval = e.interval /\ again.remain = e.interval /\ again.age = watch
  <2>1. e.interval \in Int /\ watch \in Nat BY <1>1 DEF TimerEntries
  <2>2. PICK x : x = [e EXCEPT !.remain = e.interval] OBVIOUS
  <2>3. PICK y : y = [x EXCEPT !.age = watch] OBVIOUS
  <2>4. PICK z : z = [y EXCEPT !.held = FALSE] OBVIOUS
  <2>5. x \in TimerEntries /\ x.interval = e.interval /\ x.remain = e.interval
    BY <2>1, <2>2 DEF TimerEntries
  <2>6. y \in TimerEntries /\ y.interval = e.interval /\ y.remain = e.interval /\ y.age = watch
    BY <2>1, <2>3, <2>5, WithAge
  <2>7. z \in TimerEntries /\ z.interval = e.interval /\ z.remain = e.interval /\ z.age = watch
    BY <2>4, <2>6, WithHeld
  <2>8. Timers!Again(e) = z BY ONLY <2>2, <2>3, <2>4, Zenon DEF Timers!Again
  <2> QED BY <2>7, <2>8
<1>3. PICK f \in TimerEntries : f = Timers!Corrected(again) BY CorrectedIs
<1>4. PICK n \in Nat : n = e.interval BY DEF TimerEntries
<1>5. f.age = watch /\ f.interval = n /\ f.remain \in Nat /\ f.remain <= n
  <2>1. CASE f = again BY <1>2, <1>4, <2>1
  <2>2. CASE f # again
    <3>1. PICK aim \in Int : aim = Timers!CalcRemainMSec(n) BY RemainIsInt
    <3>2. f = [again EXCEPT !.remain = aim] BY <1>2, <1>3, <1>4, <2>2, <3>1 DEF Timers!Corrected
    <3>3. aim \in Nat /\ aim <= n BY <1>1, <1>4, <3>1, RemainAims DEF Aimed
    <3>4. f.age = again.age /\ f.interval = again.interval /\ f.remain = aim
      BY <3>1, <3>2 DEF TimerEntries
    <3> QED BY <1>2, <1>4, <3>3, <3>4
  <2> QED BY <2>1, <2>2
<1>6. Uncorrected(f, f.remain - watch, f.remain) BY <1>1, <1>4, <1>5 DEF Uncorrected
<1> QED BY <1>2, <1>3, <1>6 DEF Heads

\* A flat timer is registered for a round time, another for the next pass.
LEMMA EntryHeads ==
  ASSUME TimerInv, NEW functor \in BOOLEAN, NEW interval \in Nat, NEW remain \in Int,
         NEW kind \in {"flat", "normal", "instant"}, NEW on \in BOOLEAN,
         kind # "instant" => remain = 1 \/ (remain \in Nat /\ remain <= interval)
  PROVE  LET e == Timers!Entry(kind, functor, interval, remain)
         IN  Heads(e, e.remain - watch, e.remain, clock, on)
<1>1. watch \in Nat BY DEF TimerInv, TimerTypes
<1>2. PICK e : e = Timers!Entry(kind, functor, interval, remain) OBVIOUS
<1>3. /\ e.kind = kind /\ e.interval = interval /\ e.remain = remain /\ e.age = watch
  BY <1>1, <1>2 DEF Timers!Entry
<1>4. kind # "instant" => Uncorrected(e, e.remain - watch, e.remain)
  BY <1>1, <1>3 DEF Uncorrected
<1> QED BY <1>2, <1>3, <1>4 DEF Heads

\* What an entry heads for while nobody passes over the list.
LEMMA UnlockedHead ==
  ASSUME CyclesHead, Timers!Unlocked, NEW i \in DOMAIN timerlist
  PROVE  Heads(timerlist[i], timerlist[i].remain - watch, timerlist[i].remain - 0, clock, pc # "off")
BY UnlockedWait DEF CyclesHead

LEMMA UnlockedCycles ==
  ASSUME Timers!Unlocked',
         \A i \in DOMAIN timerlist' :
           Heads(timerlist'[i], timerlist'[i].remain - watch', timerlist'[i].remain - 0,
                 clock', pc' # "off")
  PROVE  CycleInv'
<1>1. \A i : Ahead(i)' = watch' /\ Least(i)' = 0 /\ Passed(i)'
  BY DEF Timers!Unlocked, Ahead, Passed, Least
<1>2. CyclesHead' BY <1>1 DEF CyclesHead, Heads, Uncorrected, ForRoundTime, Round
<1>3. Prompt' BY <1>1 DEF Prompt
<1> QED BY <1>2, <1>3 DEF CycleInv

LEMMA RegisterHeads ==
  ASSUME TimerInv, CycleInv, NEW e \in TimerEntries, Timers!Register(e),
         Heads(e, e.remain - watch, e.remain, clock, pc # "off")
  PROVE  CycleInv'
<1>1. /\ Timers!Unlocked /\ Timers!Unlocked'
      /\ timerlist' = Append(timerlist, e)
      /\ UNCHANGED <<clock, watch, pc>>
  BY DEF Timers!Register, Timers!Unlocked
<1>2. timerlist \in Seq(TimerEntries) BY DEF TimerInv, TimerTypes
<1>3. ASSUME NEW i \in DOMAIN timerlist'
      PROVE  Heads(timerlist'[i], timerlist'[i].remain - watch, timerlist'[i].remain - 0,
                   clock, pc # "off")
  <2>1. CASE i = Len(timerlist) + 1
    <3>1. timerlist'[i] = e BY <1>1, <1>2, <2>1
    <3>2. e.remain - 0 = e.remain BY DEF TimerEntries
    <3> QED BY <3>1, <3>2
  <2>2. CASE i # Len(timerlist) + 1
    <3>1. i \in DOMAIN timerlist /\ timerlist'[i] = timerlist[i] BY <1>1, <1>2, <1>3, <2>2
    <3> QED BY <1>1, <3>1, UnlockedHead DEF CycleInv
  <2> QED BY <2>1, <2>2
<1> QED BY <1>1, <1>3, UnlockedCycles

LEMMA RegistersHead ==
  ASSUME TimerInv, CycleInv, NEW c,
         \/ c \in FlatCalls /\ Timers!RegisterFlatTimer(c[1], c[2])
         \/ c \in NormalCalls /\ Timers!RegisterNormalTimer(c[1], c[2])
         \/ c \in InstantCalls /\ Timers!RegisterInstantTimer(c[1], c[2])
  PROVE  CycleInv'
<1>1. c[1] \in BOOLEAN /\ c[2] \in Nat BY TimerAssumption
<1>2. PICK functor \in BOOLEAN, n \in Nat : functor = c[1] /\ n = c[2] BY <1>1
<1>3. PICK t \in Nat : t = n * Second
  <2>1. n * Second \in Nat BY TimerAssumption
  <2> QED BY <2>1
<1>4. PICK kind \in {"flat", "normal", "instant"}, interval \in Nat, remain \in Int :
        /\ kind = "instant" => remain = interval
        /\ kind # "instant" => remain = 1 \/ (remain \in Nat /\ remain <= interval)
        /\ Timers!Register(Timers!Entry(kind, functor, interval, remain))
  <2>1. CASE Timers!RegisterFlatTimer(c[1], c[2])
    <3>1. PICK aim \in Nat : aim = Timers!CalcRemainMSec(n) /\ aim <= n
      BY RemainAims DEF Aimed, TimerInv, TimerTypes
    <3>2. Timers!Register(Timers!Entry("flat", functor, n, aim))
      BY <1>2, <2>1, <3>1 DEF Timers!RegisterFlatTimer
    <3> QED BY <3>1, <3>2
  <2>2. CASE Timers!RegisterNormalTimer(c[1], c[2])
    <3>1. Timers!Register(Timers!Entry("normal", functor, t, 1))
      BY <1>2, <1>3, <2>2 DEF Timers!RegisterNormalTimer
    <3> QED BY <3>1
  <2>3. CASE Timers!RegisterInstantTimer(c[1], c[2])
    <3>1. Timers!Register(Timers!Entry("instant", functor, t, t))
      BY <1>2, <1>3, <2>3 DEF Timers!RegisterInstantTimer
    <3>2. t \in Int OBVIOUS
    <3> QED BY <3>1, <3>2
  <2> QED BY <2>1, <2>2, <2>3
<1>5. PICK e : e = Timers!Entry(kind, functor, interval, remain) OBVIOUS
<1>6. e \in TimerEntries BY <1>4, <1>5, EntryIs
<1>7. Heads(e, e.remain - watch, e.remain, clock, pc # "off")
  <2>1. PICK on \in BOOLEAN : on = (pc # "off") OBVIOUS
  <2>2. Heads(e, e.remain - watch, e.remain, clock, on) BY <1>4, <1>5, EntryHeads
  <2> QED BY <2>1, <2>2
<1> QED BY <1>4, <1>5, <1>6, <1>7, RegisterHeads

LEMMA RemoveHeads ==
  ASSUME TimerInv, CycleInv, NEW functor, Timers!RemoveTimer(functor) PROVE CycleInv'
<1>1. /\ Timers!Unlocked /\ Timers!Unlocked' /\ UNCHANGED <<clock, watch, pc>>
  BY DEF Timers!RemoveTimer, Timers!Unlocked
<1>2. PICK from : /\ \A i \in DOMAIN from : from[i] \in DOMAIN timerlist
                  /\ timerlist' = [i \in DOMAIN timerlist |->
                                     timerlist[IF i \in DOMAIN from THEN from[i] ELSE i]]
  <2> DEFINE staying == {i \in DOMAIN timerlist : ~(functor /\ timerlist[i].functor)}
  <2>1. PICK from \in [1..Timers!Cardinality(staying) -> staying] :
          timerlist' = [i \in DOMAIN timerlist |->
                          timerlist[IF i \in DOMAIN from THEN from[i] ELSE i]]
    BY DEF Timers!RemoveTimer
  <2>2. \A i \in DOMAIN from : from[i] \in DOMAIN timerlist BY <2>1
  <2> QED BY <2>1, <2>2
<1>3. \A i \in DOMAIN timerlist' : \E j \in DOMAIN timerlist : timerlist'[i] = timerlist[j]
  BY <1>2
<1>4. \A i \in DOMAIN timerlist' :
        Heads(timerlist'[i], timerlist'[i].remain - watch, timerlist'[i].remain - 0,
              clock, pc # "off")
  BY <1>1, <1>3, UnlockedHead DEF CycleInv
<1> QED BY <1>1, <1>4, UnlockedCycles

\* A pass begins: what the watch shows is taken off the entries it comes to.
LEMMA PassHeads ==
  ASSUME TimerInv, CycleInv, Timers!Start \/ Timers!Pass PROVE CycleInv'
<1>1. /\ timerlist' = timerlist /\ clock' = clock /\ pc' = "scan"
      /\ watch' = 0 /\ pos' = 1 /\ lapsed' = watch /\ Timers!Unlocked
  <2>1. CASE Timers!Start
    BY <2>1 DEF Timers!Start, Timers!Goto, Timers!Unlocked, TimerInv, WatchBounded
  <2>2. CASE Timers!Pass
    BY <2>2 DEF Timers!Pass, Timers!Goto, Timers!Unlocked
  <2> QED BY <2>1, <2>2
<1>2. timerlist \in Seq(TimerEntries) /\ watch \in Nat BY DEF TimerInv, TimerTypes
<1>3. \A i \in DOMAIN timerlist : Ahead(i)' = watch /\ Least(i)' = 0
  BY <1>1, <1>2 DEF Ahead, Passed, Least
<1>4. CyclesHead'
  <2>1. ASSUME NEW i \in DOMAIN timerlist
        PROVE  Heads(timerlist[i], timerlist[i].remain - watch, timerlist[i].remain - 0, clock, TRUE)
    <3>1. PICK on \in BOOLEAN : on = (pc # "off") OBVIOUS
    <3>2. Heads(timerlist[i], timerlist[i].remain - watch, timerlist[i].remain - 0, clock, on)
      BY <1>1, <3>1, UnlockedHead DEF CycleInv
    <3> QED BY <3>2 DEF Heads
  <2>2. ASSUME NEW i \in DOMAIN timerlist'
        PROVE  Heads(timerlist'[i], timerlist'[i].remain - Ahead(i)',
                     timerlist'[i].remain - Least(i)', clock', pc' # "off")
    <3>1. timerlist'[i] = timerlist[i] /\ i \in DOMAIN timerlist /\ clock' = clock
          /\ (pc' # "off") = TRUE
      BY <1>1
    <3>2. Ahead(i)' = watch /\ Least(i)' = 0 BY <1>3, <3>1
    <3> QED BY ONLY <2>1, <3>1, <3>2
  <2> QED BY <2>2 DEF CyclesHead, Heads, Uncorrected, ForRoundTime, Round
<1>5. Prompt' BY <1>1 DEF Prompt
<1> QED BY <1>4, <1>5 DEF CycleInv

\* An entry that nothing happens to heads for what it did.
LEMMA SameHead ==
  ASSUME CyclesHead, pc # "off", NEW i \in DOMAIN timerlist,
         NEW ahead, ahead = Ahead(i), NEW least, least = Least(i)
  PROVE  Heads(timerlist[i], timerlist[i].remain - ahead, timerlist[i].remain - least, clock, TRUE)
<1>1. (pc # "off") = TRUE OBVIOUS
<1> QED BY <1>1 DEF CyclesHead

LEMMA SkipHeads ==
  ASSUME TimerInv, CycleInv, Timers!Skip PROVE CycleInv'
<1>1. /\ pc = "scan" /\ pos \in 1..Len(timerlist) /\ timerlist[pos].remain > lapsed
      /\ pos' = pos + 1
      /\ UNCHANGED <<clock, watch, pc, since, lapsed>>
      /\ timerlist \in Seq(TimerEntries) /\ Len(timerlist) \in Nat
      /\ watch \in Nat /\ lapsed \in Nat /\ clock \in Nat
  BY DEF Timers!Skip, TimerInv, TimerTypes
<1>2. PICK e \in TimerEntries : e = timerlist[pos] BY <1>1
<1>3. PICK f \in TimerEntries : f = Timers!Shortened(e) BY <1>1, ShortenedIs
<1>4. PICK g \in TimerEntries : g = Timers!Corrected(f) BY CorrectedIs
<1>5. timerlist' = [timerlist EXCEPT ![pos] = g]
  BY <1>2, <1>3, <1>4 DEF Timers!Skip
<1>6. /\ DOMAIN timerlist' = DOMAIN timerlist
      /\ \A i \in DOMAIN timerlist : timerlist'[i] = IF i = pos THEN g ELSE timerlist[i]
  BY <1>1, <1>5
<1>7. \A i \in DOMAIN timerlist :
        /\ Ahead(i) = (IF i < pos THEN watch ELSE watch + lapsed) /\ Least(i) = 0
        /\ Ahead(i)' = (IF i < pos + 1 THEN watch ELSE watch + lapsed) /\ Least(i)' = 0
        /\ Passed(i) <=> i < pos
        /\ Passed(i)' <=> i < pos + 1
  BY <1>1 DEF Ahead, Passed, Least
<1>8. /\ f.kind = e.kind /\ f.interval = e.interval /\ f.age = e.age /\ f.held = e.held
      /\ f.remain = e.remain - lapsed
  BY <1>1, <1>3, ShortenedIs
<1>9. e.remain \in Int /\ f.remain \in Int /\ f.remain >= 1 /\ f.age \in Nat
  <2>1. e.remain \in Int /\ f.remain \in Int /\ f.age \in Nat BY DEF TimerEntries
  <2>2. e.remain > lapsed /\ lapsed \in Nat BY ONLY <1>1, <1>2
  <2> QED BY ONLY <1>8, <2>1, <2>2
<1>10. Heads(g, g.remain - watch, g.remain, clock, TRUE)
  <2>1. pos \in DOMAIN timerlist /\ ~(pos < pos) BY <1>1
  <2>2. Heads(e, e.remain - (watch + lapsed), e.remain - 0, clock, TRUE)
    <3>1. pc # "off" /\ Ahead(pos) = watch + lapsed /\ Least(pos) = 0 BY <1>1, <1>7, <2>1
    <3> QED BY <1>2, <2>1, <3>1, SameHead DEF CycleInv
  <2>3. Heads(f, f.remain - watch, f.remain, clock, TRUE)
    <3>0. e.remain - (watch + lapsed) \in Int /\ e.remain - (watch + lapsed) = f.remain - watch
      BY ONLY <1>1, <1>8, <1>9, SMTT(30)
    <3>1. PICK due \in Int : due = e.remain - (watch + lapsed) /\ due = f.remain - watch
      BY <3>0
    <3>2. PICK rest \in Int : rest = e.remain - 0 BY <1>9
    <3>3. PICK left \in Int : left = f.remain /\ left >= 1 BY <1>9
    <3>4. Heads(e, due, rest, clock, TRUE) BY ONLY <2>2, <3>1, <3>2
    <3>5. Heads(f, due, left, clock, TRUE)
      BY ONLY <1>1, <1>8, <3>3, <3>4, HeadsOn
    <3> QED BY ONLY <3>1, <3>3, <3>5
  <2>4. e.kind # "instant" /\ ~e.held => watch = 0
    BY <1>2, <1>7, <2>1 DEF CycleInv, Prompt
  <2>5. f.kind # "instant" /\ ~f.held => watch = 0 BY <1>8, <2>4
  <2> QED BY <1>1, <1>4, <1>9, <2>3, <2>5, CorrectedHeads
<1>11. CyclesHead'
  <2>1. ASSUME NEW i \in DOMAIN timerlist'
        PROVE  Heads(timerlist'[i], timerlist'[i].remain - Ahead(i)',
                     timerlist'[i].remain - Least(i)', clock', pc' # "off")
    <3>1. i \in DOMAIN timerlist /\ i \in Nat /\ (pc' # "off") = TRUE /\ pc # "off"
          /\ clock' = clock /\ Least(i)' = 0
      BY <1>1, <1>6, <1>7
    <3>2. CASE i = pos
      <4>1. timerlist'[i] = g /\ Ahead(i)' = watch BY <1>1, <1>6, <1>7, <3>1, <3>2
      <4>2. g.remain - 0 = g.remain BY DEF TimerEntries
      <4> QED BY ONLY <1>10, <3>1, <4>1, <4>2
    <3>3. CASE i # pos
      <4>1. Ahead(i)' = Ahead(i) /\ Least(i) = 0 BY <1>1, <1>7, <3>1, <3>3
      <4>2. timerlist'[i] = timerlist[i] BY <1>6, <3>1, <3>3
      <4>3. Heads(timerlist[i], timerlist[i].remain - Ahead(i), timerlist[i].remain - 0, clock, TRUE)
        BY <3>1, <4>1, SameHead DEF CycleInv
      <4> QED BY ONLY <3>1, <4>1, <4>2, <4>3
    <3> QED BY <3>2, <3>3
  <2> QED BY <2>1 DEF CyclesHead, Heads, Uncorrected, ForRoundTime, Round
<1>12. Prompt'
  <2>1. ASSUME NEW i \in DOMAIN timerlist', ~Passed(i)',
               timerlist'[i].kind # "instant", ~timerlist'[i].held
        PROVE  watch' = 0
    <3>1. i \in DOMAIN timerlist /\ i # pos /\ ~Passed(i) BY <1>1, <1>6, <1>7, <2>1
    <3>2. timerlist'[i] = timerlist[i] BY <1>6, <3>1
    <3> QED BY <1>1, <2>1, <3>1, <3>2 DEF CycleInv, Prompt
  <2> QED BY <2>1 DEF Prompt
<1> QED BY <1>11, <1>12 DEF CycleInv

LEMMA DueHeads ==
  ASSUME TimerInv, CycleInv, Timers!Due PROVE CycleInv'
<1>1. /\ pc = "scan" /\ pos \in 1..Len(timerlist) /\ pc' = "callback"
      /\ UNCHANGED <<clock, watch, pos, lapsed>>
      /\ timerlist \in Seq(TimerEntries) /\ Len(timerlist) \in Nat
      /\ watch \in Nat /\ lapsed \in Nat /\ clock \in Nat
  BY DEF Timers!Due, Timers!Goto, TimerInv, TimerTypes
<1>2. PICK e \in TimerEntries : e = timerlist[pos] BY <1>1
<1>3. PICK f \in TimerEntries : f = Timers!Shortened(e) BY <1>1, ShortenedIs
<1>4. timerlist' = [timerlist EXCEPT ![pos] = f] BY <1>2, <1>3 DEF Timers!Due
<1>5. /\ DOMAIN timerlist' = DOMAIN timerlist
      /\ \A i \in DOMAIN timerlist : timerlist'[i] = IF i = pos THEN f ELSE timerlist[i]
  BY <1>1, <1>4
<1>6. \A i \in DOMAIN timerlist :
        /\ Ahead(i) = (IF i < pos THEN watch ELSE watch + lapsed) /\ Least(i) = 0
        /\ Ahead(i)' = (IF i < pos \/ i = pos THEN watch ELSE watch + lapsed)
        /\ Least(i)' = (IF i = pos THEN -lapsed ELSE 0)
        /\ Passed(i) <=> i < pos
        /\ Passed(i)' <=> i < pos \/ i = pos
  BY <1>1 DEF Ahead, Passed, Least
<1>7. /\ f.kind = e.kind /\ f.interval = e.interval /\ f.age = e.age /\ f.held = e.held
      /\ f.remain = e.remain - lapsed /\ e.remain \in Int /\ f.age \in Nat
  BY <1>1, <1>3, ShortenedIs DEF TimerEntries
<1>8. Heads(f, f.remain - watch, f.remain - (-lapsed), clock, TRUE)
  <2>1. pos \in DOMAIN timerlist /\ ~(pos < pos) BY <1>1
  <2>2. Heads(e, e.remain - (watch + lapsed), e.remain - 0, clock, TRUE)
    <3>1. pc # "off" /\ Ahead(pos) = watch + lapsed /\ Least(pos) = 0 BY <1>1, <1>6, <2>1
    <3> QED BY <1>2, <2>1, <3>1, SameHead DEF CycleInv
  <2>3. PICK due \in Int : due = e.remain - (watch + lapsed) /\ due = f.remain - watch
    BY <1>1, <1>7
  <2>4. PICK rest \in Int : rest = e.remain - 0 /\ rest = f.remain - (-lapsed)
    BY <1>1, <1>7
  <2>5. Heads(e, due, rest, clock, TRUE) BY ONLY <2>2, <2>3, <2>4
  <2>6. Heads(f, due, rest, clock, TRUE)
    <3>1. rest >= rest OBVIOUS
    <3>2. ~f.held => ~e.held /\ f.age + due = e.age + due BY ONLY <1>7
    <3> QED BY ONLY <1>1, <1>7, <2>5, <3>1, <3>2, HeadsOn
  <2> QED BY ONLY <2>3, <2>4, <2>6
<1>9. CyclesHead'
  <2>1. ASSUME NEW i \in DOMAIN timerlist'
        PROVE  Heads(timerlist'[i], timerlist'[i].remain - Ahead(i)',
                     timerlist'[i].remain - Least(i)', clock', pc' # "off")
    <3>1. i \in DOMAIN timerlist /\ i \in Nat /\ (pc' # "off") = TRUE /\ pc # "off"
          /\ clock' = clock
      BY <1>1, <1>5
    <3>2. CASE i = pos
      <4>1. timerlist'[i] = f /\ Ahead(i)' = watch /\ Least(i)' = -lapsed
        BY <1>5, <1>6, <3>1, <3>2
      <4> QED BY ONLY <1>8, <3>1, <4>1
    <3>3. CASE i # pos
      <4>1. Ahead(i)' = Ahead(i) /\ Least(i)' = Least(i) BY <1>6, <3>1, <3>3
      <4>2. timerlist'[i] = timerlist[i] BY <1>5, <3>1, <3>3
      <4>3. Heads(timerlist[i], timerlist[i].remain - Ahead(i), timerlist[i].remain - Least(i),
                  clock, TRUE)
        BY <3>1, SameHead DEF CycleInv
      <4> QED BY ONLY <3>1, <4>1, <4>2, <4>3
    <3> QED BY <3>2, <3>3
  <2> QED BY <2>1 DEF CyclesHead, Heads, Uncorrected, ForRoundTime, Round
<1>10. Prompt'
  <2>1. ASSUME NEW i \in DOMAIN timerlist', ~Passed(i)',
               timerlist'[i].kind # "instant", ~timerlist'[i].held
        PROVE  watch' = 0
    <3>1. i \in DOMAIN timerlist /\ i # pos /\ ~Passed(i) BY <1>5, <1>6, <2>1
    <3>2. timerlist'[i] = timerlist[i] BY <1>5, <3>1
    <3> QED BY <1>1, <2>1, <3>1, <3>2 DEF CycleInv, Prompt
  <2> QED BY <2>1 DEF Prompt
<1> QED BY <1>9, <1>10 DEF CycleInv

LEMMA EndPassHeads ==
  ASSUME TimerInv, CycleInv, Timers!EndPass PROVE CycleInv'
<1>1. /\ pc = "scan" /\ pos > Len(timerlist) /\ pc' = "sleep"
      /\ UNCHANGED <<timerlist, clock, watch, pos, lapsed>>
      /\ Len(timerlist) \in Nat /\ pos \in Nat /\ timerlist \in Seq(TimerEntries)
  BY DEF Timers!EndPass, Timers!Goto, TimerInv, TimerTypes
<1>2. \A i \in DOMAIN timerlist : Ahead(i) = watch /\ Least(i) = 0
  BY <1>1 DEF Ahead, Passed, Least
<1>3. ASSUME NEW i \in DOMAIN timerlist'
      PROVE  Heads(timerlist'[i], timerlist'[i].remain - watch', timerlist'[i].remain - 0,
                   clock', pc' # "off")
  <2>1. timerlist'[i] = timerlist[i] /\ i \in DOMAIN timerlist /\ clock' = clock
        /\ watch' = watch /\ (pc' # "off") = TRUE /\ pc # "off"
    BY <1>1
  <2>2. Ahead(i) = watch /\ Least(i) = 0 BY <1>2, <2>1
  <2>3. Heads(timerlist[i], timerlist[i].remain - watch, timerlist[i].remain - 0, clock, TRUE)
    BY <2>1, <2>2, SameHead DEF CycleInv
  <2> QED BY ONLY <2>1, <2>3
<1>4. Timers!Unlocked' BY <1>1 DEF Timers!Unlocked
<1> QED BY <1>3, <1>4, UnlockedCycles

LEMMA CallbackHeads ==
  ASSUME TimerInv, CycleInv, Timers!CallbackReturns PROVE CycleInv'
<1>1. /\ pc = "callback" /\ pos \in 1..Len(timerlist) /\ pc' = "scan"
      /\ UNCHANGED <<clock, watch, lapsed>>
      /\ timerlist \in Seq(TimerEntries) /\ Len(timerlist) \in Nat
      /\ watch \in Nat /\ lapsed \in Nat
  BY DEF Timers!CallbackReturns, Timers!Goto, TimerInv, TimerTypes, WatchBounded
<1>2. \A i \in DOMAIN timerlist : i # pos =>
        /\ Ahead(i) = (IF i < pos THEN watch ELSE watch + lapsed) /\ Least(i) = 0
        /\ Passed(i) <=> i < pos
  BY <1>1 DEF Ahead, Passed, Least
<1>3. \A i \in Nat :
        /\ Ahead(i)' = (IF i < pos' THEN watch ELSE watch + lapsed) /\ Least(i)' = 0
        /\ Passed(i)' <=> i < pos'
  BY <1>1 DEF Ahead, Passed, Least
<1>4. pc # "off" /\ (pc' # "off") = TRUE /\ clock' = clock BY <1>1
<1>5. CASE timerlist[pos].kind = "instant"
  <2>1. timerlist' = Timers!Without(timerlist, pos) /\ pos' = pos
    BY <1>5 DEF Timers!CallbackReturns
  <2>2. /\ timerlist' \in Seq(TimerEntries) /\ Len(timerlist') = Len(timerlist) - 1
        /\ \A i \in 1..(Len(timerlist) - 1) :
             timerlist'[i] = timerlist[IF i < pos THEN i ELSE i + 1]
    BY <1>1, <2>1, WithoutIs
  <2>3. ASSUME NEW i \in DOMAIN timerlist'
        PROVE  \E j \in DOMAIN timerlist :
                 /\ timerlist'[i] = timerlist[j]
                 /\ Ahead(i)' = Ahead(j) /\ Least(i)' = Least(j) /\ (Passed(i)' <=> Passed(j))
    <3>1. i \in 1..(Len(timerlist) - 1) BY <2>2
    <3>2. PICK j \in DOMAIN timerlist : j = IF i < pos THEN i ELSE i + 1 BY <1>1, <3>1
    <3>3. timerlist'[i] = timerlist[j] BY <2>2, <3>1, <3>2
    <3>4. j # pos /\ (j < pos <=> i < pos) /\ i \in Nat BY <1>1, <3>1, <3>2
    <3>5. Ahead(i)' = Ahead(j) /\ Least(i)' = Least(j) /\ (Passed(i)' <=> Passed(j))
      BY <1>2, <1>3, <2>1, <3>4
    <3> QED BY <3>3, <3>5
  <2>4. ASSUME NEW i \in DOMAIN timerlist'
        PROVE  Heads(timerlist'[i], timerlist'[i].remain - Ahead(i)',
                     timerlist'[i].remain - Least(i)', clock', pc' # "off")
    <3>1. PICK j \in DOMAIN timerlist :
            /\ timerlist'[i] = timerlist[j] /\ Ahead(i)' = Ahead(j) /\ Least(i)' = Least(j)
      BY <2>3
    <3>2. Heads(timerlist[j], timerlist[j].remain - Ahead(j), timerlist[j].remain - Least(j),
                clock, TRUE)
      BY <1>4, SameHead DEF CycleInv
    <3> QED BY ONLY <1>4, <3>1, <3>2
  <2>5. CyclesHead' BY <2>4 DEF CyclesHead, Heads, Uncorrected, ForRoundTime, Round
  <2>6. Prompt' BY <1>1, <2>3 DEF CycleInv, Prompt
  <2> QED BY <2>5, <2>6 DEF CycleInv
<1>6. CASE timerlist[pos].kind # "instant"
  <2>1. PICK e \in TimerEntries : e = timerlist[pos] BY <1>1
  <2>2. PICK g : g = Timers!Corrected(Timers!Again(e)) OBVIOUS
  <2>3. timerlist' = [timerlist EXCEPT ![pos] = g] /\ pos' = pos + 1
    BY <1>6, <2>1, <2>2 DEF Timers!CallbackReturns
  <2>4. /\ DOMAIN timerlist' = DOMAIN timerlist
        /\ \A i \in DOMAIN timerlist : timerlist'[i] = IF i = pos THEN g ELSE timerlist[i]
    BY <1>1, <2>3
  <2>5. Heads(g, g.remain - watch, g.remain, clock, TRUE) BY <2>2, AgainHeads
  <2>6. g.remain \in Int
    <3>1. Timers!Again(e) \in TimerEntries
      <4>1. PICK x : x = [e EXCEPT !.remain = e.interval] OBVIOUS
      <4>2. PICK y : y = [x EXCEPT !.age = watch] OBVIOUS
      <4>3. PICK z : z = [y EXCEPT !.held = FALSE] OBVIOUS
      <4>4. e.interval \in Int BY DEF TimerEntries
      <4>5. x \in TimerEntries BY <4>1, <4>4, WithRemain
      <4>6. y \in TimerEntries BY <1>1, <4>2, <4>5, WithAge
      <4>7. z \in TimerEntries BY <4>3, <4>6, WithHeld
      <4>8. Timers!Again(e) = z BY ONLY <4>1, <4>2, <4>3, Zenon DEF Timers!Again
      <4> QED BY <4>7, <4>8
    <3>2. g \in TimerEntries BY <2>2, <3>1, CorrectedIs
    <3> QED BY <3>2 DEF TimerEntries
  <2>7. ASSUME NEW i \in DOMAIN timerlist'
        PROVE  Heads(timerlist'[i], timerlist'[i].remain - Ahead(i)',
                     timerlist'[i].remain - Least(i)', clock', pc' # "off")
    <3>1. i \in DOMAIN timerlist /\ i \in Nat BY <1>1, <2>4
    <3>2. CASE i = pos
      <4>1. timerlist'[i] = g /\ Ahead(i)' = watch /\ Least(i)' = 0
        BY <1>1, <1>3, <2>3, <2>4, <3>1, <3>2
      <4>2. g.remain - 0 = g.remain BY <2>6
      <4> QED BY ONLY <1>4, <2>5, <4>1, <4>2
    <3>3. CASE i # pos
      <4>1. i < pos <=> i < pos' BY <1>1, <2>3, <3>1, <3>3
      <4>2. Ahead(i)' = Ahead(i) /\ Least(i)' = Least(i) BY <1>2, <1>3, <3>1, <3>3, <4>1
      <4>3. timerlist'[i] = timerlist[i] BY <2>4, <3>1, <3>3
      <4>4. Heads(timerlist[i], timerlist[i].remain - Ahead(i), timerlist[i].remain - Least(i),
                  clock, TRUE)
        BY <1>4, <3>1, SameHead DEF CycleInv
      <4> QED BY ONLY <1>4, <4>2, <4>3, <4>4
    <3> QED BY <3>2, <3>3
  <2>8. CyclesHead' BY <2>7 DEF CyclesHead, Heads, Uncorrected, ForRoundTime, Round
  <2>9. Prompt'
    <3>1. ASSUME NEW i \in DOMAIN timerlist', ~Passed(i)',
                 timerlist'[i].kind # "instant", ~timerlist'[i].held
          PROVE  watch' = 0
      <4>1. i \in DOMAIN timerlist /\ i # pos /\ ~Passed(i)
        BY <1>1, <1>2, <1>3, <2>3, <2>4, <3>1
      <4>2. timerlist'[i] = timerlist[i] BY <2>4, <4>1
      <4> QED BY <1>1, <3>1, <4>1, <4>2 DEF CycleInv, Prompt
    <3> QED BY <3>1 DEF Prompt
  <2> QED BY <2>8, <2>9 DEF CycleInv
<1> QED BY <1>5, <1>6

\* What a tick does to an entry.
LEMMA OlderHas ==
  ASSUME TimerInv, NEW i \in DOMAIN timerlist, NEW e, e = timerlist[i]
  PROVE  \E f \in TimerEntries :
           /\ f = Timers!Older(i)
           /\ f.kind = e.kind /\ f.interval = e.interval /\ f.remain = e.remain
           /\ f.held = (e.held \/ (e.kind # "instant" /\ pc = "callback" /\ i > pos))
           /\ ~f.held => f.age = e.age + 1
<1>1. e \in TimerEntries BY DEF TimerInv, TimerTypes
<1>2. PICK held \in BOOLEAN :
        held = (e.held \/ (e.kind # "instant" /\ pc = "callback" /\ i > pos))
  OBVIOUS
<1>3. PICK age \in Nat : age = IF held THEN 0 ELSE e.age + 1
  BY <1>1 DEF TimerEntries
<1>4. PICK x : x = [e EXCEPT !.held = held] OBVIOUS
<1>5. PICK f : f = [x EXCEPT !.age = age] OBVIOUS
<1>6. /\ x \in TimerEntries /\ x.kind = e.kind /\ x.interval = e.interval
      /\ x.remain = e.remain /\ x.held = held
  BY <1>1, <1>4, WithHeld
<1>7. /\ f \in TimerEntries /\ f.kind = e.kind /\ f.interval = e.interval
      /\ f.remain = e.remain /\ f.held = held /\ f.age = age
  BY <1>5, <1>6, WithAge
<1>8. f = Timers!Older(i)
  <2>1. f = [e EXCEPT !.held = held, !.age = age] BY ONLY <1>4, <1>5, Zenon
  <2> QED BY <1>2, <1>3, <2>1, Zenon DEF Timers!Older
<1> QED BY <1>2, <1>3, <1>7, <1>8

LEMMA TickHeads ==
  ASSUME TimerInv, CycleInv, Timers!Tick PROVE CycleInv'
<1>1. /\ timerlist \in Seq(TimerEntries) /\ Len(timerlist) \in Nat
      /\ watch \in Nat /\ lapsed \in Nat /\ pos \in Nat /\ clock \in Nat
  BY DEF TimerInv, TimerTypes
<1>2. clock' = (clock + 1) % Timers!Day /\ clock' \in Nat
  <2>1. clock' = (clock + 1) % Timers!Day BY DEF Timers!Tick
  <2>2. clock + 1 \in Nat BY <1>1
  <2> QED BY <2>1, <2>2, ClockFacts
<1>3. CASE pc = "off"
  <2>1. UNCHANGED <<timerlist, watch, pc, pos, lapsed>> BY <1>3 DEF Timers!Tick
  <2>2. Timers!Unlocked /\ Timers!Unlocked' /\ (pc # "off") = FALSE /\ (pc' # "off") = FALSE
    BY <1>3, <2>1 DEF Timers!Unlocked
  <2>3. ASSUME NEW i \in DOMAIN timerlist'
        PROVE  Heads(timerlist'[i], timerlist'[i].remain - watch', timerlist'[i].remain - 0,
                     clock', pc' # "off")
    <3>1. i \in DOMAIN timerlist BY <2>1
    <3>2. Heads(timerlist[i], timerlist[i].remain - watch, timerlist[i].remain - 0, clock, FALSE)
      BY <2>2, <3>1, UnlockedHead DEF CycleInv
    <3>3. Heads(timerlist[i], timerlist[i].remain - watch, timerlist[i].remain - 0, clock', FALSE)
      BY <3>2 DEF Heads
    <3> QED BY ONLY <2>1, <2>2, <3>3
  <2> QED BY <2>2, <2>3, UnlockedCycles
<1>4. CASE pc # "off"
  <2>1. /\ watch' = watch + 1
        /\ timerlist' = [i \in DOMAIN timerlist |-> Timers!Older(i)]
        /\ UNCHANGED <<pc, pos, lapsed>>
        /\ pc = "sleep" \/ pc = "callback"
    BY <1>4 DEF Timers!Tick, Timers!MayTakeLonger
  <2>2. \A i \in DOMAIN timerlist : timerlist'[i] = Timers!Older(i) BY <2>1
  <2>3. ASSUME NEW i \in DOMAIN timerlist'
        PROVE  Heads(timerlist'[i], timerlist'[i].remain - Ahead(i)',
                     timerlist'[i].remain - Least(i)', clock', pc' # "off")
    <3>1. i \in DOMAIN timerlist /\ (pc' # "off") = TRUE BY <1>4, <2>1
    <3>2. PICK e \in TimerEntries : e = timerlist[i] BY <1>1, <3>1
    <3>3. PICK f \in TimerEntries :
            /\ f = Timers!Older(i)
            /\ f.kind = e.kind /\ f.interval = e.interval /\ f.remain = e.remain
            /\ ~f.held => ~e.held /\ f.age = e.age + 1
      BY <3>1, <3>2, OlderHas
    <3>4. PICK ahead \in Nat, least \in Int : ahead = Ahead(i) /\ least = Least(i)
      BY <1>1 DEF Ahead, Least
    <3>5. Ahead(i)' = ahead + 1 /\ Least(i)' = least
      BY <1>1, <2>1, <3>4 DEF Ahead, Least, Passed
    <3>6. Heads(e, e.remain - ahead, e.remain - least, clock, TRUE)
      BY <1>4, <3>1, <3>2, <3>4, SameHead DEF CycleInv
    <3>7. PICK due \in Int, rest \in Int, next \in Int :
            /\ due = e.remain - ahead /\ rest = e.remain - least
            /\ next = f.remain - (ahead + 1) /\ rest = f.remain - least /\ next = due - 1
      <4>1. e.remain \in Int BY DEF TimerEntries
      <4> QED BY <3>3, <4>1
    <3>8. ~f.held => ~e.held /\ f.age + next = e.age + due
      <4>1. e.age \in Nat BY DEF TimerEntries
      <4> QED BY <3>3, <3>7, <4>1
    <3>9. e.interval \in Timers!FlatTime /\ Round(clock + due, e.interval)
            => Round(clock' + next, e.interval)
      BY ONLY <1>1, <1>2, <3>7, TickLeavesRound
    <3>10. Heads(e, due, rest, clock, TRUE) BY ONLY <3>6, <3>7
    <3>11. PICK later \in Nat : later = clock' BY <1>2
    <3>12. rest >= rest BY <3>7
    <3>13. e.interval \in Timers!FlatTime /\ Round(clock + due, e.interval)
            => Round(later + next, e.interval)
      BY ONLY <3>9, <3>11
    <3>14. Heads(f, next, rest, later, TRUE)
      BY ONLY <1>1, <3>3, <3>8, <3>10, <3>12, <3>13, HeadsOn
    <3> QED BY ONLY <2>2, <3>1, <3>3, <3>5, <3>7, <3>11, <3>14
  <2>4. CyclesHead' BY <2>3 DEF CyclesHead, Heads, Uncorrected, ForRoundTime, Round
  <2>5. Prompt'
    <3>1. ASSUME NEW i \in DOMAIN timerlist', ~Passed(i)',
                 timerlist'[i].kind # "instant", ~timerlist'[i].held
          PROVE  FALSE
      <4>1. i \in DOMAIN timerlist /\ i \in Nat BY <1>1, <2>1
      <4>2. pc = "callback" /\ i > pos BY <1>1, <2>1, <3>1, <4>1 DEF Passed
      <4>3. PICK e : e = timerlist[i] OBVIOUS
      <4>4. PICK f : /\ f = Timers!Older(i) /\ f.kind = e.kind
                     /\ f.held = (e.held \/ (e.kind # "instant" /\ pc = "callback" /\ i > pos))
        BY ONLY TimerInv, <4>1, <4>3, OlderHas
      <4>5. timerlist'[i] = f BY ONLY <2>2, <4>1, <4>4
      <4>6. f.kind # "instant" /\ ~f.held BY ONLY <3>1, <4>5
      <4> QED BY ONLY <4>2, <4>4, <4>6, Zenon
    <3> QED BY <3>1 DEF Prompt
  <2> QED BY <2>4, <2>5 DEF CycleInv
<1> QED BY <1>3, <1>4

LEMMA CycleInit == BaseInit => CycleInv
<1> SUFFICES ASSUME BaseInit PROVE CycleInv OBVIOUS
<1>1. timerlist = << >> BY DEF BaseInit, Timers!Init
<1> QED BY <1>1 DEF CycleInv, CyclesHead, Prompt

LEMMA CycleSteps ==
  ASSUME TimerInv, CycleInv, [BaseNext]_baseVars PROVE CycleInv'
<1>1. CASE UNCHANGED timerVars
  <2>1. UNCHANGED <<timerlist, clock, watch, pc, pos, lapsed>> BY <1>1 DEF timerVars
  <2>2. CyclesHead'
    BY <2>1 DEF CycleInv, CyclesHead, Heads, Uncorrected, ForRoundTime, Round, Ahead, Least, Passed
  <2>3. Prompt' BY <2>1 DEF CycleInv, Prompt, Passed
  <2> QED BY <2>2, <2>3 DEF CycleInv
<1>2. CASE Timers!Next
  <2>1. CASE \/ \E c \in FlatCalls : Timers!RegisterFlatTimer(c[1], c[2])
             \/ \E c \in NormalCalls : Timers!RegisterNormalTimer(c[1], c[2])
             \/ \E c \in InstantCalls : Timers!RegisterInstantTimer(c[1], c[2])
    BY <2>1, RegistersHead
  <2>2. CASE \E functor \in BOOLEAN : Timers!RemoveTimer(functor) BY <2>2, RemoveHeads
  <2>3. CASE Timers!Start \/ Timers!Pass BY <2>3, PassHeads
  <2>4. CASE Timers!Skip BY <2>4, SkipHeads
  <2>5. CASE Timers!Due BY <2>5, DueHeads
  <2>6. CASE Timers!CallbackReturns BY <2>6, CallbackHeads
  <2>7. CASE Timers!EndPass BY <2>7, EndPassHeads
  <2>8. CASE Timers!Tick BY <2>8, TickHeads
  <2> QED BY <1>2, <2>1, <2>2, <2>3, <2>4, <2>5, <2>6, <2>7, <2>8 DEF Timers!Next, Timers!Run
<1>3. UNCHANGED timerVars \/ Timers!Next
  BY DEF BaseNext, UsePool, UseRing, UseStream, UseDate, UseTimer, UseBuffer, UseSlots, baseVars
<1> QED BY <1>1, <1>2, <1>3

LEMMA CyclesInTime == TimerInv /\ CycleInv => Timers!CyclesGoOn
<1> SUFFICES ASSUME TimerInv, CycleInv, NEW i \in DOMAIN timerlist,
                    timerlist[i].kind # "instant", ~timerlist[i].held
             PROVE  timerlist[i].age <= 2 * timerlist[i].interval + Timers!Slack + Timers!Callbacks
  BY DEF Timers!CyclesGoOn
<1>1. PICK e \in TimerEntries : e = timerlist[i] BY DEF TimerInv, TimerTypes
<1>2. PICK ahead \in Nat, least \in Int :
        /\ ahead = Ahead(i) /\ least = Least(i)
        /\ ahead - least <= Timers!Slack + Timers!Callbacks
  BY AheadBounded
<1>3. /\ e.age \in Nat /\ e.interval \in Nat /\ e.remain \in Int
      /\ Timers!Slack \in Nat /\ Timers!Callbacks \in Nat
  BY SpentIs DEF TimerEntries
<1>4. \/ Uncorrected(e, e.remain - ahead, e.remain - least)
      \/ ForRoundTime(e, e.remain - ahead, e.remain - least, clock)
  BY <1>1, <1>2 DEF CycleInv, CyclesHead, Heads
<1>5. \/ e.age + (e.remain - ahead) <= e.interval /\ e.remain - least >= 0
      \/ e.age + (e.remain - ahead) <= e.interval + 1 /\ e.remain - least >= 1
      \/ e.age + (e.remain - ahead) <= 2 * e.interval /\ e.remain - least >= 0
  BY <1>4 DEF Uncorrected, ForRoundTime
<1> QED BY ONLY <1>1, <1>2, <1>3, <1>5

(***************************************************************************)
(* A flat timer aims at the next round time of its kind, on a clock of any *)
(* minutes and hours and at any time of the day; and no cycle timer, of    *)
(* whatever interval, is silent for longer than two of its intervals and   *)
(* what a pass may be late by, if no callback kept the pass from it        *)
(* (Timer.cpp:22-90, 154-178).                                             *)
(***************************************************************************)
THEOREM TimersKeepTheirTime == BaseSpec => []TimersKeepTime
<1>1. BaseInit => CycleInv BY CycleInit
<1>2. TimerInv /\ CycleInv /\ [BaseNext]_baseVars => CycleInv' BY CycleSteps
<1>3. TimerInv /\ CycleInv => TimersKeepTime
  BY CyclesInTime, RemainAims
     DEF TimersKeepTime, TimerInv, TimerTypes, Aimed, Timers!FlatAimsAtRoundTime
<1> QED BY <1>1, <1>2, <1>3, TimerInvariant, PTL DEF BaseSpec

-----------------------------------------------------------------------------
(***************************************************************************)
(* The time points.                                                        *)
(***************************************************************************)

\* A microsecond and a second are so many ticks.
LEMMA TimeUnits ==
  /\ TimeTick \in Nat \ {0} /\ TimeMicro \in Nat \ {0} /\ TimeSecond \in Nat \ {0}
  /\ TimeMicro \div TimeTick \in Nat /\ (TimeMicro \div TimeTick) * TimeTick = TimeMicro
  /\ TimeSecond \div TimeTick \in Nat /\ (TimeSecond \div TimeTick) * TimeTick = TimeSecond
<1>1. /\ TimeTick \in Nat \ {0} /\ TimeMicro \in Nat \ {0} /\ TimeSecond \in Nat \ {0}
      /\ \E k \in 1..TimeMicro : TimeMicro = k * TimeTick
      /\ \E k \in 1..TimeSecond : TimeSecond = k * TimeTick
  BY TimesAssumption
<1>2. ASSUME NEW unit \in Nat, NEW k \in Nat, unit = k * TimeTick
      PROVE  unit \div TimeTick = k
  <2>1. unit = TimeTick * k BY <1>1, <1>2
  <2> QED BY <1>1, <2>1, UnitDivides
<1>3. PICK k \in Nat : TimeMicro = k * TimeTick BY <1>1
<1>4. PICK n \in Nat : TimeSecond = n * TimeTick BY <1>1
<1>5. TimeMicro \div TimeTick = k /\ TimeSecond \div TimeTick = n BY <1>1, <1>2, <1>3, <1>4
<1> QED BY <1>1, <1>3, <1>4, <1>5

\* What is read of a span is nearer to zero than the span, by less than two
\* microseconds.
Near(value, span) ==
  /\ span >= 0 => /\ 0 <= value * TimeMicro /\ 0 <= span - value * TimeMicro
                  /\ span - value * TimeMicro < 2 * TimeMicro
  /\ span <= 0 => /\ value * TimeMicro <= 0 /\ 0 <= value * TimeMicro - span
                  /\ value * TimeMicro - span < 2 * TimeMicro

LEMMA CastIsNear ==
  ASSUME NEW span \in Int
  PROVE  /\ Times!Cast(span, TimeMicro) \in Int
         /\ LET value == Times!Cast(span, TimeMicro)
            IN  /\ span >= 0 => value >= 0 /\ 0 <= span - value * TimeMicro
                                /\ span - value * TimeMicro < TimeMicro
                /\ span <= 0 => value <= 0 /\ 0 <= value * TimeMicro - span
                                /\ value * TimeMicro - span < TimeMicro
<1>1. TimeMicro \in Nat \ {0} BY TimeUnits
<1>2. CASE span >= 0
  <2>1. PICK q \in Nat, r \in 0..(TimeMicro - 1) : span = TimeMicro * q + r /\ q = span \div TimeMicro
    BY <1>1, <1>2, DivisionHas
  <2>2. Times!Cast(span, TimeMicro) = q BY <1>2, <2>1 DEF Times!Cast
  <2>3. q * TimeMicro = TimeMicro * q BY <1>1
  <2>4. span = 0 => q = 0
    <3> SUFFICES ASSUME span = 0, q # 0 PROVE FALSE OBVIOUS
    <3>1. TimeMicro * q = TimeMicro * (q - 1) + TimeMicro /\ TimeMicro * (q - 1) \in Nat BY <1>1
    <3> QED BY <1>1, <2>1, <3>1
  <2> QED BY <1>1, <1>2, <2>1, <2>2, <2>3, <2>4
<1>3. CASE ~(span >= 0)
  <2>1. PICK neg \in Nat : neg = -span BY <1>3
  <2>2. PICK q \in Nat, r \in 0..(TimeMicro - 1) : neg = TimeMicro * q + r /\ q = neg \div TimeMicro
    BY <1>1, <2>1, DivisionHas
  <2>3. Times!Cast(span, TimeMicro) = -q BY <1>3, <2>1, <2>2 DEF Times!Cast
  <2>4. (-q) * TimeMicro = -(TimeMicro * q) BY <1>1
  <2> QED BY <1>1, <1>3, <2>1, <2>2, <2>3, <2>4
<1> QED BY <1>2, <1>3

LEMMA ReadIsNear ==
  ASSUME NEW span \in Int, NEW value \in Times!Read(span, TimeMicro)
  PROVE  value \in Int /\ Near(value, span)
<1>1. TimeMicro \in Nat \ {0} BY TimeUnits
<1>2. PICK cast \in Int : cast = Times!Cast(span, TimeMicro) BY CastIsNear
<1>3. /\ span >= 0 => cast >= 0 /\ 0 <= span - cast * TimeMicro /\ span - cast * TimeMicro < TimeMicro
      /\ span <= 0 => cast <= 0 /\ 0 <= cast * TimeMicro - span /\ cast * TimeMicro - span < TimeMicro
  BY <1>2, CastIsNear
<1>4. PICK part \in Int : part = cast * TimeMicro BY <1>1
<1>5. (cast - 1) * TimeMicro = part - TimeMicro /\ (cast + 1) * TimeMicro = part + TimeMicro
  BY <1>1, <1>4
<1>51. /\ cast >= 0 => part >= 0 /\ (cast > 0 => part >= TimeMicro)
      /\ cast <= 0 => part <= 0 /\ (cast < 0 => part <= -TimeMicro)
  <2>1. CASE cast > 0
    <3>1. PICK c \in Nat : cast = c + 1
      <4>1. cast - 1 \in Nat /\ cast = (cast - 1) + 1 BY <2>1
      <4> QED BY <4>1
    <3>2. part = c * TimeMicro + TimeMicro /\ c * TimeMicro \in Nat BY <1>1, <1>4, <3>1
    <3> QED BY <1>1, <2>1, <3>2
  <2>2. CASE cast < 0
    <3>1. PICK c \in Nat : cast = -1 - c
      <4>1. -1 - cast \in Nat /\ cast = -1 - (-1 - cast) BY <2>2
      <4> QED BY <4>1
    <3>2. part = -TimeMicro - c * TimeMicro /\ c * TimeMicro \in Nat BY <1>1, <1>4, <3>1
    <3> QED BY <1>1, <2>2, <3>2
  <2>3. CASE cast = 0 BY <1>1, <1>4, <2>3
  <2> QED BY <2>1, <2>2, <2>3
<1>6. CASE value = cast BY <1>1, <1>3, <1>4, <1>51, <1>6 DEF Near
<1>7. CASE cast > 0 /\ value = cast - 1
  <2>1. span > 0 BY <1>3, <1>4, <1>7, <1>51, <1>1
  <2> QED BY <1>1, <1>3, <1>4, <1>5, <1>51, <1>7, <2>1 DEF Near
<1>8. CASE cast < 0 /\ value = cast + 1
  <2>1. span < 0 BY <1>3, <1>4, <1>8, <1>51, <1>1
  <2> QED BY <1>1, <1>3, <1>4, <1>5, <1>51, <1>8, <2>1 DEF Near
<1>9. value = cast \/ (cast > 0 /\ value = cast - 1) \/ (cast < 0 /\ value = cast + 1)
  BY <1>2 DEF Times!Read
<1> QED BY <1>6, <1>7, <1>8, <1>9

\* now, tp, stamp, ts, meant, spans and times are s1 to s7.
Drift == s5 - s2 * TimeTick

TimeInv ==
  /\ s1 \in Nat /\ s2 \in Nat /\ s3 \in Nat /\ s4 \in Int /\ s5 \in Int /\ s6 \in Nat /\ s7 \in Nat
  /\ Drift >= 0 - 2 * TimeMicro * s6
  /\ Drift <= 2 * TimeMicro * s6 + TimeSecond * s7
  /\ s6 = 0 /\ s7 = 0 => Drift = 0

\* One more call with a span, or with a time_t, may drift that much more.
LEMMA MoreDrift ==
  ASSUME NEW n \in Nat
  PROVE  /\ 2 * TimeMicro * (n + 1) = 2 * TimeMicro * n + 2 * TimeMicro
         /\ TimeSecond * (n + 1) = TimeSecond * n + TimeSecond
         /\ 2 * TimeMicro * n \in Nat /\ TimeSecond * n \in Nat
         /\ 2 * TimeMicro * 0 = 0 /\ TimeSecond * 0 = 0
BY TimeUnits

\* A time point that is so many ticks later than nothing is not before it.
LEMMA NotNegative ==
  ASSUME NEW n \in Int, NEW unit \in Nat \ {0}, NEW rest \in Nat, rest < unit,
         n * unit + rest >= 0
  PROVE  n \in Nat
<1> SUFFICES ASSUME n < 0 PROVE FALSE OBVIOUS
<1>1. PICK m \in Nat : n = -1 - m
  <2>1. -1 - n \in Nat /\ n = -1 - (-1 - n) OBVIOUS
  <2> QED BY <2>1
<1>2. n * unit = -unit - m * unit /\ m * unit \in Nat BY <1>1
<1> QED BY <1>2

LEMMA AddSpanDrifts ==
  ASSUME TimeInv, NEW sign \in {1, -1}, Times!AddSpan(sign) PROVE TimeInv'
<1>0. s1 \in Nat /\ s2 \in Nat /\ s3 \in Nat /\ s4 \in Int /\ s5 \in Int /\ s6 \in Nat /\ s7 \in Nat
  BY DEF TimeInv
<1>1. PICK k \in Nat : k = TimeMicro \div TimeTick /\ k * TimeTick = TimeMicro BY TimeUnits
<1>2. TimeMicro \in Nat \ {0} /\ TimeTick \in Nat \ {0} /\ TimeSecond \in Nat \ {0} BY TimeUnits
<1>3. /\ s2 * TimeTick + sign * s4 >= 0 /\ s5' = s5 + sign * s4
      /\ UNCHANGED <<s1, s3, s4>> /\ s6' = s6 + 1 /\ s7' = s7
  BY DEF Times!AddSpan, Times!Moves
<1>4. PICK v \in Times!Read(s4, TimeMicro) : s2' = s2 + sign * v * k
  BY <1>1 DEF Times!AddSpan
<1>5. v \in Int /\ Near(v, s4) BY <1>4, ReadIsNear DEF TimeInv
<1>6. PICK moved \in Int : moved = v * TimeMicro BY <1>2, <1>5
<1>7. /\ s4 >= 0 => 0 <= moved /\ 0 <= s4 - moved /\ s4 - moved < 2 * TimeMicro
      /\ s4 <= 0 => moved <= 0 /\ 0 <= moved - s4 /\ moved - s4 < 2 * TimeMicro
  BY <1>5, <1>6 DEF Near
<1>8. PICK at \in Nat : at = s2 * TimeTick BY <1>0, <1>2
<1>9. s2' \in Int /\ s2' * TimeTick = at + sign * moved
  <2>1. PICK steps \in Int : steps = v * k BY <1>5
  <2>2. steps * TimeTick = moved
    <3>1. (v * k) * TimeTick = v * (k * TimeTick) BY <1>2, <1>5
    <3> QED BY <1>1, <1>6, <2>1, <3>1
  <2>3. CASE sign = 1
    <3>1. s2' = s2 + steps BY <1>4, <1>5, <2>1, <2>3
    <3>2. (s2 + steps) * TimeTick = s2 * TimeTick + steps * TimeTick BY <1>0, <1>2
    <3> QED BY ONLY <1>0, <1>6, <1>8, <2>1, <2>2, <2>3, <3>1, <3>2
  <2>4. CASE sign = -1
    <3>1. (sign * v) * k = -(v * k) BY <1>5, <2>4
    <3>2. s2' = s2 - steps BY ONLY <1>0, <1>4, <2>1, <3>1
    <3>3. (s2 - steps) * TimeTick = s2 * TimeTick - steps * TimeTick BY <1>0, <1>2
    <3> QED BY ONLY <1>0, <1>6, <1>8, <2>1, <2>2, <2>4, <3>2, <3>3
  <2> QED BY <2>3, <2>4
<1>10. s2' \in Nat
  <2>1. at + sign * moved >= 0
    <3>1. at + sign * s4 >= 0 BY ONLY <1>3, <1>8
    <3>2. CASE sign = 1 /\ s4 >= 0 BY ONLY <1>0, <1>6, <1>7, <1>8, <3>1, <3>2
    <3>3. CASE sign = 1 /\ s4 < 0 BY ONLY <1>0, <1>6, <1>7, <1>8, <3>1, <3>3
    <3>4. CASE sign = -1 /\ s4 >= 0 BY ONLY <1>0, <1>6, <1>7, <1>8, <3>1, <3>4
    <3>5. CASE sign = -1 /\ s4 < 0 BY ONLY <1>0, <1>6, <1>7, <1>8, <3>1, <3>5
    <3> QED BY <1>0, <3>2, <3>3, <3>4, <3>5
  <2>2. s2' * TimeTick + 0 >= 0
    <3>1. s2' * TimeTick = at + sign * moved BY <1>9
    <3>2. at + sign * moved \in Int BY <1>6
    <3> QED BY <2>1, <3>1, <3>2
  <2>3. 0 < TimeTick BY <1>2
  <2> QED BY ONLY <1>2, <1>9, <2>2, <2>3, NotNegative
<1>11. PICK drift \in Int, d \in Int : drift = Drift /\ d = sign * s4 - sign * moved
  BY <1>0, <1>6, <1>8 DEF Drift
<1>12. Drift' = drift + d
  <2>1. drift = s5 - at /\ Drift' = (s5 + sign * s4) - (at + sign * moved)
    BY <1>3, <1>8, <1>9, <1>11 DEF Drift
  <2> QED BY ONLY <1>0, <1>6, <1>8, <1>11, <2>1
<1>13. -(2 * TimeMicro) < d /\ d < 2 * TimeMicro
  <2>1. s4 >= 0 \/ s4 <= 0 BY <1>0
  <2>2. CASE sign = 1 BY ONLY <1>0, <1>2, <1>6, <1>7, <1>11, <2>1, <2>2
  <2>3. CASE sign = -1 BY ONLY <1>0, <1>2, <1>6, <1>7, <1>11, <2>1, <2>3
  <2> QED BY <2>2, <2>3
<1>14. PICK a \in Nat, b \in Nat : a = 2 * TimeMicro * s6 /\ b = TimeSecond * s7
  BY MoreDrift DEF TimeInv
<1>15. 2 * TimeMicro * s6' = a + 2 * TimeMicro /\ TimeSecond * s7' = b
  BY <1>3, <1>14, MoreDrift DEF TimeInv
<1>16. drift >= 0 - a /\ drift <= a + b BY <1>11, <1>14 DEF TimeInv
<1>17. Drift' >= 0 - (a + 2 * TimeMicro) /\ Drift' <= (a + 2 * TimeMicro) + b
  BY ONLY <1>2, <1>11, <1>12, <1>13, <1>14, <1>16
<1>18. s6' \in Nat /\ s6' # 0 /\ s7' \in Nat /\ s5' \in Int /\ s1' \in Nat /\ s3' \in Nat /\ s4' \in Int
  BY <1>3 DEF TimeInv
<1> QED BY <1>10, <1>15, <1>17, <1>18 DEF TimeInv

LEMMA AddTimeDrifts ==
  ASSUME TimeInv, NEW sign \in {1, -1}, NEW t \in TimeAmounts, Times!AddTime(sign, t) PROVE TimeInv'
<1>0. s1 \in Nat /\ s2 \in Nat /\ s3 \in Nat /\ s4 \in Int /\ s5 \in Int /\ s6 \in Nat /\ s7 \in Nat
  BY DEF TimeInv
<1>1. PICK k \in Nat : k = TimeSecond \div TimeTick /\ k * TimeTick = TimeSecond BY TimeUnits
<1>2. /\ TimeMicro \in Nat \ {0} /\ TimeTick \in Nat \ {0} /\ TimeSecond \in Nat \ {0}
      /\ t \in Nat
  BY TimeUnits, TimesAssumption
<1>3. /\ s2 * TimeTick + sign * t * TimeSecond >= 0 /\ s5' = s5 + sign * t * TimeSecond
      /\ UNCHANGED <<s1, s3, s4>> /\ s7' = s7 + 1 /\ s6' = s6
      /\ s2' = Times!from_time_t(Times!to_time_t(s2) + sign * t)
  BY DEF Times!AddTime, Times!Moves
<1>4. PICK at \in Nat : at = s2 * TimeTick BY <1>2 DEF TimeInv
<1>5. PICK q \in Nat, r \in 0..(TimeSecond - 1) : at = TimeSecond * q + r /\ q = at \div TimeSecond
  BY <1>2, <1>4, DivisionHas
<1>6. Times!to_time_t(s2) = q
  <2>1. at >= 0 BY ONLY at \in Nat
  <2>2. Times!Cast(at, TimeSecond) = q BY <1>5, <2>1, Zenon DEF Times!Cast
  <2> QED BY <1>4, <2>2 DEF Times!to_time_t
<1>7. PICK n \in Int : n = q + sign * t BY <1>2
<1>8. s2' = n * k BY <1>1, <1>3, <1>6, <1>7 DEF Times!from_time_t
<1>9. PICK whole \in Int, by \in Int : whole = TimeSecond * q /\ by = sign * t * TimeSecond BY <1>2
<1>10. n * TimeSecond = whole + by
  <2>1. (q + sign * t) * TimeSecond = TimeSecond * q + sign * t * TimeSecond
    <3>1. CASE sign = 1 BY <1>2, <3>1
    <3>2. CASE sign = -1 BY <1>2, <3>2
    <3> QED BY <3>1, <3>2
  <2> QED BY <1>7, <1>9, <2>1
<1>11. n \in Nat
  <2>1. n * TimeSecond + r >= 0 BY <1>3, <1>4, <1>5, <1>9, <1>10
  <2>2. r \in Nat /\ r < TimeSecond BY <1>2, <1>5
  <2> QED BY ONLY <1>2, <1>7, <2>1, <2>2, NotNegative
<1>12. s2' \in Nat BY <1>8, <1>11
<1>13. s2' * TimeTick = whole + by
  <2>1. (n * k) * TimeTick = n * (k * TimeTick) BY <1>2, <1>11
  <2> QED BY <1>1, <1>8, <1>10, <2>1
<1>14. PICK drift \in Int : drift = Drift BY <1>0, <1>4 DEF Drift
<1>15. Drift' = drift + r
  <2>1. drift = s5 - at BY <1>4, <1>14 DEF Drift
  <2>2. Drift' = (s5 + by) - (whole + by) BY <1>3, <1>9, <1>13 DEF Drift
  <2>3. at = whole + r BY <1>5, <1>9
  <2>4. r \in Int BY <1>2, <1>5
  <2> QED BY ONLY <1>0, <1>4, <1>9, <1>14, <2>1, <2>2, <2>3, <2>4
<1>16. PICK a \in Nat, b \in Nat : a = 2 * TimeMicro * s6 /\ b = TimeSecond * s7
  BY MoreDrift DEF TimeInv
<1>17. 2 * TimeMicro * s6' = a /\ TimeSecond * s7' = b + TimeSecond
  BY <1>3, <1>16, MoreDrift DEF TimeInv
<1>18. drift >= 0 - a /\ drift <= a + b BY <1>14, <1>16 DEF TimeInv
<1>19. Drift' >= 0 - a /\ Drift' <= a + (b + TimeSecond)
  BY ONLY <1>2, <1>5, <1>14, <1>15, <1>16, <1>18
<1>20. s6' \in Nat /\ s7' # 0 /\ s7' \in Nat /\ s5' \in Int /\ s1' \in Nat /\ s3' \in Nat /\ s4' \in Int
  BY <1>3, <1>9 DEF TimeInv
<1> QED BY <1>12, <1>17, <1>19, <1>20 DEF TimeInv

LEMMA SetDriftsNot ==
  ASSUME TimeInv, NEW timepoint \in Nat, Times!Set(timepoint) PROVE TimeInv'
<1>1. /\ s2' = timepoint /\ s5' = timepoint * TimeTick /\ s6' = 0 /\ s7' = 0
      /\ UNCHANGED <<s1, s3, s4>>
  BY DEF Times!Set
<1>2. PICK at \in Nat : at = timepoint * TimeTick BY TimeUnits
<1>3. Drift' = 0 BY <1>1, <1>2 DEF Drift
<1> QED BY <1>1, <1>2, <1>3, MoreDrift DEF TimeInv

LEMMA TimeSteps ==
  ASSUME TimeInv, Times!Next PROVE TimeInv'
<1>1. /\ TimeTick \in Nat \ {0} /\ TimeAmounts \subseteq Nat
      /\ TimeMicro \in Nat /\ TimeMilli \in Nat /\ TimeSecond \in Nat
  BY TimeUnits, TimesAssumption
<1>2. ASSUME NEW sign \in {1, -1}, Times!AddSpan(sign) PROVE TimeInv' BY <1>2, AddSpanDrifts
<1>3. ASSUME NEW sign \in {1, -1}, NEW t \in TimeAmounts, Times!AddTime(sign, t) PROVE TimeInv'
  BY <1>3, AddTimeDrifts
<1>4. ASSUME NEW t \in TimeAmounts, Times!Set(Times!from_time_t(t)) PROVE TimeInv'
  <2>1. Times!from_time_t(t) \in Nat BY <1>1, TimeUnits DEF Times!from_time_t
  <2> QED BY <1>4, <2>1, SetDriftsNot
<1>5. CASE Times!Set(s1) BY <1>5, SetDriftsNot DEF TimeInv
<1>6. ASSUME NEW n \in TimeAmounts, NEW unit \in Times!Units, Times!SetSpan(n, unit) PROVE TimeInv'
  <2>1. n * unit \in Int BY <1>1 DEF Times!Units
  <2> QED BY <1>6, <2>1 DEF TimeInv, Drift, Times!SetSpan
<1>7. CASE Times!Start BY <1>7 DEF TimeInv, Drift, Times!Start
<1>8. CASE Times!Stop
  <2>1. (s1 - s3) * TimeTick \in Int BY <1>1 DEF TimeInv
  <2> QED BY <1>8, <2>1 DEF TimeInv, Drift, Times!Stop
<1>9. CASE Times!Later BY <1>9 DEF TimeInv, Drift, Times!Later
<1> QED BY <1>2, <1>3, <1>4, <1>5, <1>6, <1>7, <1>8, <1>9 DEF Times!Next

(***************************************************************************)
(* However often spans and times are added to a time point and subtracted  *)
(* from it, and whatever a tick is, it stays where these calls should have *)
(* brought it, up to less than two microseconds for each call with a span  *)
(* and less than a second for each with a time_t (TimePoint.cpp:49-73).    *)
(***************************************************************************)
THEOREM TimePointsDriftLittle == BaseSpec => []TimePointsStay
<1> DEFINE Inv2 == subject = "time" => TimeInv
<1>1. BaseInit => Inv2
  <2> SUFFICES ASSUME BaseInit, subject = "time" PROVE TimeInv
    OBVIOUS
  <2>1. Times!Init BY DEF BaseInit
  <2>2. TimeTick \in Nat \ {0} /\ TimeSecond \div TimeTick \in Nat BY TimeUnits
  <2>3. s1 \in Nat BY <2>1, <2>2 DEF Times!Init
  <2>4. s2 = s1 /\ s3 = s1 /\ s4 = 0 /\ s5 = s2 * TimeTick /\ s6 = 0 /\ s7 = 0 BY <2>1 DEF Times!Init
  <2>5. PICK at \in Nat : at = s2 * TimeTick BY <2>2, <2>3, <2>4
  <2>6. Drift = 0 BY <2>4, <2>5 DEF Drift
  <2> QED BY <2>3, <2>4, <2>5, <2>6, MoreDrift DEF TimeInv
<1>2. Inv2 /\ [BaseNext]_baseVars => Inv2'
  <2> SUFFICES ASSUME Inv2, [BaseNext]_baseVars, subject' = "time" PROVE TimeInv'
    OBVIOUS
  <2>1. subject = "time" BY DEF BaseNext, baseVars
  <2>2. CASE UNCHANGED slots BY <2>1, <2>2 DEF slots, TimeInv, Drift
  <2>3. CASE UseSlots BY <2>1, <2>3, TimeSteps DEF UseSlots
  <2>4. UNCHANGED slots \/ UseSlots
    BY DEF BaseNext, UsePool, UseRing, UseStream, UseDate, UseTimer, UseBuffer, baseVars
  <2> QED BY <2>2, <2>3, <2>4
<1>3. Inv2 => TimePointsStay
  BY DEF TimePointsStay, TimeInv, Drift, Times!DriftIsBounded
<1> QED BY <1>1, <1>2, <1>3, PTL DEF BaseSpec

(***************************************************************************)
(* Neither timers nor time points lose the time (Timer.cpp:22-178,         *)
(* TimePoint.cpp:49-73).                                                   *)
(***************************************************************************)
THEOREM NothingLosesTime == BaseSpec => []TimeIsKept
BY TimersKeepTheirTime, TimePointsDriftLittle, PTL DEF TimeIsKept

-----------------------------------------------------------------------------
(***************************************************************************)
(* The dates.                                                              *)
(***************************************************************************)

\* Twelve months make a year.
LEMMA MonthsOfYears ==
  ASSUME NEW n \in Int
  PROVE  n \div 12 \in Int /\ n % 12 \in Int /\ n = 12 * (n \div 12) + (n % 12)
OBVIOUS

\* Moving a leap day keeps the month.
LEMMA ClampKeeps ==
  ASSUME NEW dt \in Dates!Members
  PROVE  /\ Dates!ClampLeapDay(dt) \in Dates!Members
         /\ Dates!MonthsOf(Dates!ClampLeapDay(dt)) = Dates!MonthsOf(dt)
<1>1. [dt EXCEPT !.day = 28] \in Dates!Members BY DEF Dates!Members
<1> QED BY <1>1 DEF Dates!ClampLeapDay, Dates!MonthsOf, Dates!Members

\* A date of another year, of another month, or of both.
LEMMA FieldsAreInts ==
  ASSUME NEW dt \in Dates!Members
  PROVE  dt.year \in Int /\ dt.month \in Int
BY DEF Dates!Members

LEMMA YearMoved ==
  ASSUME NEW dt \in Dates!Members, NEW y \in Int
  PROVE  /\ [dt EXCEPT !.year = y] \in Dates!Members
         /\ [dt EXCEPT !.year = y].year = y /\ [dt EXCEPT !.year = y].month = dt.month
BY DEF Dates!Members

LEMMA MonthMoved ==
  ASSUME NEW dt \in Dates!Members, NEW m \in Int
  PROVE  /\ [dt EXCEPT !.month = m] \in Dates!Members
         /\ [dt EXCEPT !.month = m].year = dt.year /\ [dt EXCEPT !.month = m].month = m
BY DEF Dates!Members

MovedTo(dt, y, m) == [dt EXCEPT !.month = m, !.year = y]

LEMMA BothMoved ==
  ASSUME NEW dt \in Dates!Members, NEW y \in Int, NEW m \in Int
  PROVE  /\ MovedTo(dt, y, m) \in Dates!Members
         /\ MovedTo(dt, y, m).year = y /\ MovedTo(dt, y, m).month = m
BY DEF Dates!Members, MovedTo

\* Years and months move a date by so many months.
LEMMA MonthsByCall ==
  ASSUME NEW dt \in Dates!Members, NEW n \in Int
  PROVE  /\ Dates!MonthsOf(Dates!AddYear(dt, n)) = Dates!MonthsOf(dt) + 12 * n
         /\ Dates!MonthsOf(Dates!SubtractYear(dt, n)) = Dates!MonthsOf(dt) - 12 * n
         /\ Dates!MonthsOf(Dates!AddMonth(dt, n)) = Dates!MonthsOf(dt) + n
         /\ Dates!MonthsOf(Dates!SubtractMonth(dt, n)) = Dates!MonthsOf(dt) - n
<1>0. dt.year \in Int /\ dt.month \in Int BY FieldsAreInts
<1>1. Dates!MonthsOf(Dates!AddYear(dt, n)) = Dates!MonthsOf(dt) + 12 * n
  <2> DEFINE y == dt.year + n
             moved == [dt EXCEPT !.year = y]
  <2>1. Dates!AddYear(dt, n) = Dates!ClampLeapDay(moved) BY DEF Dates!AddYear
  <2>2. y \in Int BY <1>0
  <2>3. moved \in Dates!Members /\ moved.year = y /\ moved.month = dt.month
    <3> HIDE DEF y
    <3> QED BY <2>2, YearMoved
  <2> HIDE DEF moved
  <2> QED BY <1>0, <2>1, <2>3, ClampKeeps DEF Dates!MonthsOf
<1>2. Dates!MonthsOf(Dates!SubtractYear(dt, n)) = Dates!MonthsOf(dt) - 12 * n
  <2> DEFINE y == dt.year - n
             moved == [dt EXCEPT !.year = y]
  <2>1. Dates!SubtractYear(dt, n) = Dates!ClampLeapDay(moved) BY DEF Dates!SubtractYear
  <2>2. y \in Int BY <1>0
  <2>3. moved \in Dates!Members /\ moved.year = y /\ moved.month = dt.month
    <3> HIDE DEF y
    <3> QED BY <2>2, YearMoved
  <2> HIDE DEF moved
  <2> QED BY <1>0, <2>1, <2>3, ClampKeeps DEF Dates!MonthsOf
<1>3. Dates!MonthsOf(Dates!AddMonth(dt, n)) = Dates!MonthsOf(dt) + n
  <2> DEFINE sum == dt.month + n
             q == sum \div 12
             y == dt.year + q
             m == sum % 12
             moved == MovedTo(dt, y, m)
  <2>1. Dates!AddMonth(dt, n) = Dates!ClampLeapDay(moved) BY DEF Dates!AddMonth, MovedTo
  <2>2. sum \in Int BY <1>0
  <2>3. m \in Int /\ q \in Int /\ sum = 12 * q + m BY <2>2, MonthsOfYears
  <2>4. y \in Int /\ 12 * y + m = 12 * dt.year + dt.month + n
    <3> HIDE DEF m, q
    <3> QED BY <1>0, <2>3
  <2>5. moved \in Dates!Members /\ moved.year = y /\ moved.month = m
    <3> HIDE DEF y, m
    <3> QED BY <2>3, <2>4, BothMoved
  <2> HIDE DEF moved, y, m
  <2> QED BY <1>0, <2>1, <2>4, <2>5, ClampKeeps DEF Dates!MonthsOf
<1>4. Dates!MonthsOf(Dates!SubtractMonth(dt, n)) = Dates!MonthsOf(dt) - n
  <2> DEFINE sub == n % 12
             y == dt.year - n \div 12
             before == [dt EXCEPT !.year = y]
             within == [before EXCEPT !.month = before.month - sub]
             beyond == MovedTo(before, before.year - 1, 12 + before.month - sub)
             moved == IF dt.month > sub THEN within ELSE beyond
  <2>1. Dates!SubtractMonth(dt, n) = Dates!ClampLeapDay(moved) BY DEF Dates!SubtractMonth, MovedTo
  <2>2. sub \in Int /\ n \div 12 \in Int /\ n = 12 * (n \div 12) + sub BY MonthsOfYears
  <2>3. y \in Int /\ 12 * y = 12 * dt.year - n + sub
    <3> HIDE DEF sub
    <3> QED BY <1>0, <2>2
  <2> HIDE DEF y, sub
  <2>4. before \in Dates!Members /\ before.year = y /\ before.month = dt.month
    BY <2>3, YearMoved
  <2> HIDE DEF before
  <2>5. before.month - sub \in Int /\ 12 + before.month - sub \in Int /\ before.year - 1 \in Int
    BY <1>0, <2>2, <2>3, <2>4
  <2>6. /\ within \in Dates!Members
        /\ within.year = before.year /\ within.month = before.month - sub
    BY <2>4, <2>5, MonthMoved
  <2>7. /\ beyond \in Dates!Members
        /\ beyond.year = before.year - 1 /\ beyond.month = 12 + before.month - sub
    BY <2>4, <2>5, BothMoved
  <2>8. moved \in Dates!Members /\ Dates!MonthsOf(moved) = Dates!MonthsOf(dt) - n
    <3> HIDE DEF within, beyond
    <3>1. CASE dt.month > sub
      <4>1. moved = within BY <3>1
      <4> HIDE DEF moved
      <4> QED BY <1>0, <2>2, <2>3, <2>4, <2>6, <4>1 DEF Dates!MonthsOf
    <3>2. CASE ~(dt.month > sub)
      <4>1. moved = beyond BY <3>2
      <4> HIDE DEF moved
      <4> QED BY <1>0, <2>2, <2>3, <2>4, <2>7, <4>1 DEF Dates!MonthsOf
    <3> QED BY <3>1, <3>2
  <2> HIDE DEF moved
  <2> QED BY <2>1, <2>8, ClampKeeps
<1> QED BY <1>1, <1>2, <1>3, <1>4

\* A date at another time of the day.
At(dt, h, m, s) == [year |-> dt.year, month |-> dt.month, day |-> dt.day,
                    hour |-> h, min |-> m, sec |-> s]
InDay(dt) == /\ dt.hour \in 0..(HoursPerDay - 1)
             /\ dt.min \in 0..(MinutesPerHour - 1)
             /\ dt.sec \in 0..(SecondsPerMinute - 1)

LEMMA SetFields ==
  ASSUME NEW dt \in Dates!Members, NEW h \in Int, NEW m \in Int, NEW s \in Int
  PROVE  LET sec_set == [dt EXCEPT !.sec = s]
             min_set == [sec_set EXCEPT !.min = m]
             hour_set == [min_set EXCEPT !.hour = h]
         IN  /\ sec_set = At(dt, dt.hour, dt.min, s)
             /\ min_set = At(dt, dt.hour, m, s)
             /\ hour_set = At(dt, h, m, s)
             /\ At(dt, h, m, s) \in Dates!Members
<1> DEFINE sec_set == [dt EXCEPT !.sec = s]
           min_set == [sec_set EXCEPT !.min = m]
           hour_set == [min_set EXCEPT !.hour = h]
<1>1. sec_set = At(dt, dt.hour, dt.min, s) BY DEF At, Dates!Members
<1> HIDE DEF sec_set
<1>2. min_set = At(dt, dt.hour, m, s) BY <1>1 DEF At
<1> HIDE DEF min_set
<1>3. hour_set = At(dt, h, m, s) BY <1>2 DEF At
<1> HIDE DEF hour_set
<1>4. At(dt, h, m, s) \in Dates!Members BY DEF At, Dates!Members
<1> QED BY <1>1, <1>2, <1>3, <1>4 DEF sec_set, min_set, hour_set

\* What is carried on is what is left out.
LEMMA CarriedOn ==
  ASSUME NEW unit \in Nat \ {0}, NEW more \in Nat, NEW old \in 0..(unit - 1)
  PROVE  LET sum == more + old
         IN  /\ sum \div unit \in Nat /\ sum % unit \in 0..(unit - 1)
             /\ sum = unit * (sum \div unit) + (sum % unit)
             /\ more = 0 => sum \div unit = 0 /\ sum % unit = old
<1> DEFINE sum == more + old
<1>1. sum \in Nat OBVIOUS
<1>2. PICK q \in Nat, r \in 0..(unit - 1) : sum = unit * q + r /\ q = sum \div unit /\ r = sum % unit
  BY <1>1, DivisionHas
<1>3. ASSUME more = 0 PROVE sum \div unit = 0 /\ sum % unit = old
  <2>1. sum = unit * 0 + old BY <1>3
  <2> HIDE DEF sum
  <2> QED BY <2>1, DivisionIs
<1> QED BY <1>2, <1>3

LEMMA Products ==
  ASSUME NEW a \in Nat, NEW b \in Nat, NEW c \in Nat
  PROVE  /\ a * b \in Nat /\ a * b = b * a
         /\ a * (b + c) = a * b + a * c /\ a * (b * c) = (a * b) * c
OBVIOUS

\* More on top of what a unit has is so many units to carry, and a rest.
Carries(unit, more, old, carry, rest) == more + old = unit * carry + rest

\* A time of the day and whole days before it, in seconds.
Seconds(p, m, h, day, hour, min, sec) == day * (h * (m * p)) + (hour * (m * p) + min * p + sec)

\* The carries of minutes, hours and days leave the time as it is.
LEMMA CarriesAdd ==
  ASSUME NEW p, NEW m, NEW h, NEW sec, NEW min, NEW hour, NEW s,
         NEW c1, NEW c2, NEW c3, NEW r1, NEW r2, NEW r3,
         {p, m, h, s, sec, min, hour, c1, c2, c3, r1, r2, r3} \subseteq Nat,
         Carries(p, s, sec, c1, r1), Carries(m, c1, min, c2, r2), Carries(h, c2, hour, c3, r3)
  PROVE  Seconds(p, m, h, c3, r3, r2, r1) = Seconds(p, m, h, 0, hour, min, sec) + s
<1>in. /\ p \in Nat /\ m \in Nat /\ h \in Nat /\ s \in Nat
       /\ sec \in Nat /\ min \in Nat /\ hour \in Nat
       /\ c1 \in Nat /\ c2 \in Nat /\ c3 \in Nat /\ r1 \in Nat /\ r2 \in Nat /\ r3 \in Nat
  OBVIOUS
<1>0. s + sec = p * c1 + r1 /\ c1 + min = m * c2 + r2 /\ c2 + hour = h * c3 + r3
  BY DEF Carries
<1> DEFINE mp == m * p
<1>1. mp \in Nat BY <1>in, Products
<1>2. p * c1 + min * p = c2 * mp + r2 * p
  <2>1. p * (c1 + min) = p * c1 + min * p BY ONLY <1>in, Products
  <2>2. m * c2 \in Nat BY <1>in, Products
  <2>3. p * (m * c2 + r2) = p * (m * c2) + r2 * p
    BY ONLY <2>2, <1>in, Products
  <2>4. p * (m * c2) = c2 * mp
    BY ONLY <1>in, Products, <1>1
  <2>5. p * (c1 + min) = p * (m * c2 + r2) BY ONLY <1>0
  <2> HIDE DEF mp
  <2> QED BY ONLY <2>1, <2>3, <2>4, <2>5
<1> HIDE DEF mp
<1>3. c2 * mp + hour * mp = c3 * (h * mp) + r3 * mp
  <2>1. mp * (c2 + hour) = c2 * mp + hour * mp
    BY ONLY <1>in, <1>1, Products
  <2>2. h * c3 \in Nat BY <1>in, Products
  <2>3. mp * (h * c3 + r3) = mp * (h * c3) + r3 * mp
    BY ONLY <2>2, <1>in, <1>1, Products
  <2>4. mp * (h * c3) = c3 * (h * mp)
    <3>1. mp * (h * c3) = (mp * h) * c3 /\ mp * h = h * mp /\ h * mp \in Nat
      BY ONLY <1>in, <1>1, Products
    <3>2. (h * mp) * c3 = c3 * (h * mp) BY ONLY <3>1, <1>in, Products
    <3> QED BY ONLY <3>1, <3>2
  <2>5. mp * (c2 + hour) = mp * (h * c3 + r3) BY ONLY <1>0
  <2> QED BY ONLY <2>1, <2>3, <2>4, <2>5
<1> DEFINE a == p * c1  b == c2 * mp  d == c3 * (h * mp)
           x == r3 * mp  y == r2 * p  z == hour * mp  w == min * p
<1>4. a \in Nat /\ b \in Nat /\ x \in Nat /\ y \in Nat /\ z \in Nat /\ w \in Nat /\ d \in Nat
  <2>1. h * mp \in Nat BY <1>in, <1>1, Products
  <2> QED BY <1>in, <2>1, <1>1, Products
<1>5. s + sec = a + r1 /\ a + w = b + y /\ b + z = d + x BY <1>0, <1>2, <1>3
<1> HIDE DEF a, b, d, x, y, z, w
<1>6. d + (x + y + r1) = z + w + sec + s BY <1>in, <1>4, <1>5
<1>7. 0 * (h * mp) = 0
  <2>1. h * mp \in Nat BY <1>in, <1>1, Products
  <2> QED BY <2>1
<1>8. 0 * (h * mp) + (z + w + sec) + s = z + w + sec + s BY <1>in, <1>4, <1>7
<1> QED BY ONLY <1>6, <1>8 DEF d, x, y, z, w, mp, Seconds

SecondsOn(day, dt) ==
  Seconds(SecondsPerMinute, MinutesPerHour, HoursPerDay, day, dt.hour, dt.min, dt.sec)

\* Adding seconds makes another time of the day, and days to add.
Carried(dt, s, days, timed) ==
  /\ timed = At(dt, timed.hour, timed.min, timed.sec) /\ InDay(timed)
  /\ SecondsOn(days, timed) = SecondsOn(0, dt) + s

LEMMA SecondsCarry ==
  ASSUME NEW dt \in Dates!Members, InDay(dt), NEW s \in Nat, NEW stray
  PROVE  \E days \in Nat, timed \in Dates!Members :
           /\ Carried(dt, s, days, timed)
           /\ Dates!AddSeconds(dt, s, stray) =
                IF days = 0 THEN timed ELSE Dates!AddDays(timed, days, stray)
<1> DEFINE sum_sec == s + dt.sec
           carry_min == sum_sec \div SecondsPerMinute
           sec == sum_sec % SecondsPerMinute
           sum_min == carry_min + dt.min
           carry_hour == sum_min \div MinutesPerHour
           min == sum_min % MinutesPerHour
           sum_hour == carry_hour + dt.hour
           days == sum_hour \div HoursPerDay
           hour == sum_hour % HoursPerDay
           sec_set == [dt EXCEPT !.sec = sec]
           min_set == [sec_set EXCEPT !.min = min]
           hour_set == [min_set EXCEPT !.hour = hour]
<1>1. /\ SecondsPerMinute \in Nat \ {0} /\ MinutesPerHour \in Nat \ {0} /\ HoursPerDay \in Nat \ {0}
      /\ dt.sec \in 0..(SecondsPerMinute - 1) /\ dt.min \in 0..(MinutesPerHour - 1)
      /\ dt.hour \in 0..(HoursPerDay - 1)
  BY ClockFacts DEF InDay
<1>2. /\ carry_min \in Nat /\ sec \in 0..(SecondsPerMinute - 1)
      /\ sum_sec = SecondsPerMinute * carry_min + sec
  BY <1>1, CarriedOn
<1> HIDE DEF carry_min, sec
<1>3. /\ carry_hour \in Nat /\ min \in 0..(MinutesPerHour - 1)
      /\ sum_min = MinutesPerHour * carry_hour + min
      /\ carry_min = 0 => carry_hour = 0 /\ min = dt.min
  BY <1>1, <1>2, CarriedOn
<1> HIDE DEF carry_hour, min
<1>4. /\ days \in Nat /\ hour \in 0..(HoursPerDay - 1)
      /\ sum_hour = HoursPerDay * days + hour
      /\ carry_hour = 0 => days = 0 /\ hour = dt.hour
  BY <1>1, <1>3, CarriedOn
<1> HIDE DEF days, hour
<1>5. Dates!AddSeconds(dt, s, stray) =
        IF carry_min <= 0 THEN sec_set
        ELSE IF carry_hour <= 0 THEN min_set
        ELSE IF days <= 0 THEN hour_set
        ELSE Dates!AddDays(hour_set, days, stray)
  <2>1. sum_sec \in Nat BY <1>1
  <2>2. Dates!Quotient(sum_sec, SecondsPerMinute) = carry_min
    BY <2>1 DEF Dates!Quotient, carry_min
  <2>3. Dates!Remainder(sum_sec, SecondsPerMinute) = sec
    BY <1>1, <1>2, <2>1, <2>2 DEF Dates!Remainder
  <2> QED BY ONLY <2>2, <2>3
          DEF Dates!AddSeconds, carry_min, carry_hour, days, min, hour
<1>6. sec \in Int /\ min \in Int /\ hour \in Int BY <1>1, <1>2, <1>3, <1>4
<1>7. /\ sec_set = At(dt, dt.hour, dt.min, sec)
      /\ min_set = At(dt, dt.hour, min, sec)
      /\ hour_set = At(dt, hour, min, sec)
      /\ At(dt, hour, min, sec) \in Dates!Members
  BY ONLY dt \in Dates!Members, <1>6, SetFields
<1> HIDE DEF sec_set, min_set, hour_set
<1> DEFINE timed == At(dt, hour, min, sec)
<1>9. /\ timed \in Dates!Members
      /\ timed.hour = hour /\ timed.min = min /\ timed.sec = sec
      /\ timed = At(dt, timed.hour, timed.min, timed.sec)
  <2>1. timed \in Dates!Members BY <1>7
  <2>2. timed.hour = hour /\ timed.min = min /\ timed.sec = sec BY DEF At
  <2> QED BY <2>1, <2>2
<1>10. Carried(dt, s, days, timed)
  <2>1. InDay(timed) BY <1>2, <1>3, <1>4, <1>9 DEF InDay
  <2> HIDE DEF timed
  <2>2. Seconds(SecondsPerMinute, MinutesPerHour, HoursPerDay, days, hour, min, sec)
          = Seconds(SecondsPerMinute, MinutesPerHour, HoursPerDay, 0, dt.hour, dt.min, dt.sec) + s
    <3> HIDE DEF sum_sec, sum_min, sum_hour
    <3>1. {SecondsPerMinute, MinutesPerHour, HoursPerDay, s, dt.sec, dt.min, dt.hour,
           carry_min, carry_hour, days, sec, min, hour} \subseteq Nat
      BY <1>1, <1>2, <1>3, <1>4
    <3>2. /\ Carries(SecondsPerMinute, s, dt.sec, carry_min, sec)
          /\ Carries(MinutesPerHour, carry_min, dt.min, carry_hour, min)
          /\ Carries(HoursPerDay, carry_hour, dt.hour, days, hour)
      BY <1>2, <1>3, <1>4 DEF sum_sec, sum_min, sum_hour, Carries
    <3> QED BY ONLY <3>1, <3>2, CarriesAdd
  <2> QED BY <1>9, <2>1, <2>2 DEF Carried, SecondsOn
<1>11. Dates!AddSeconds(dt, s, stray) =
         IF days = 0 THEN timed ELSE Dates!AddDays(timed, days, stray)
  <2> HIDE DEF sum_sec, sum_min, sum_hour
  <2>1. CASE carry_min = 0
    BY <2>1, <1>3, <1>4, <1>5, <1>7
  <2>2. CASE carry_min # 0 /\ carry_hour = 0
    BY <2>2, <1>2, <1>4, <1>5, <1>7
  <2>3. CASE carry_min # 0 /\ carry_hour # 0
    BY <2>3, <1>2, <1>3, <1>4, <1>5, <1>7
  <2> QED BY <2>1, <2>2, <2>3
<1> HIDE DEF timed
<1> QED BY <1>4, <1>9, <1>10, <1>11

\* Of a step: years and months are added and subtracted exactly.
MonthsMove ==
  /\ Dates!Calls("add", {"YEAR", "MONTH"})
       => Dates!MonthsOf(date') = Dates!MonthsOf(date) + Dates!Months(call')
  /\ Dates!Calls("subtract", {"YEAR", "MONTH"})
       => Dates!MonthsOf(date') = Dates!MonthsOf(date) - Dates!Months(call')

(***************************************************************************)
(* Years and months move a date by exactly so many months, whatever its    *)
(* fields have become (DateTime.cpp:222-238, 302-326).                     *)
(***************************************************************************)
THEOREM MonthsMoveExactly == BaseSpec => [][(date \in Dates!Members) => MonthsMove]_dateVars
<1>1. ASSUME [BaseNext]_baseVars, date \in Dates!Members, dateVars' # dateVars PROVE MonthsMove
  <2>1. Dates!Next
    BY <1>1 DEF BaseNext, baseVars, UsePool, UseRing, UseStream, UseDate, UseTimer, UseBuffer, UseSlots
  <2>2. ASSUME NEW dt, Dates!SetDateTime(dt) PROVE MonthsMove
    BY <2>2 DEF MonthsMove, Dates!SetDateTime, Dates!Calls, Dates!NoCall
  <2>3. ASSUME NEW unit, NEW amount \in Int, Dates!Add(unit, amount) PROVE MonthsMove
    <3>1. call' = [op |-> "add", unit |-> unit, amount |-> amount]
      BY <2>3 DEF Dates!Add, Dates!Called
    <3>2. call'.op = "add" /\ call'.unit = unit /\ call'.amount = amount BY <3>1
    <3>3. /\ unit = "YEAR" => date' = Dates!AddYear(date, amount)
          /\ unit = "MONTH" => date' = Dates!AddMonth(date, amount)
      BY <2>3 DEF Dates!Add
    <3> QED BY <1>1, <3>2, <3>3, MonthsByCall DEF MonthsMove, Dates!Calls, Dates!Months
  <2>4. ASSUME NEW unit, NEW amount \in Int, Dates!Subtract(unit, amount) PROVE MonthsMove
    <3>1. call' = [op |-> "subtract", unit |-> unit, amount |-> amount]
      BY <2>4 DEF Dates!Subtract, Dates!Called
    <3>2. call'.op = "subtract" /\ call'.unit = unit /\ call'.amount = amount BY <3>1
    <3>3. /\ unit = "YEAR" => date' = Dates!SubtractYear(date, amount)
          /\ unit = "MONTH" => date' = Dates!SubtractMonth(date, amount)
      BY <2>4 DEF Dates!Subtract
    <3> QED BY <1>1, <3>2, <3>3, MonthsByCall DEF MonthsMove, Dates!Calls, Dates!Months
  <2> QED BY <2>1, <2>2, <2>3, <2>4 DEF Dates!Next, Dates!Adjust
<1>2. [BaseNext]_baseVars => [(date \in Dates!Members) => MonthsMove]_dateVars
  BY <1>1
<1> QED BY <1>2, PTL DEF BaseSpec

\* Of a step: hours, minutes and seconds are added to the time of the day.
TimeCarries ==
  Dates!Calls("add", DOMAIN Dates!SecondsOf) =>
    \E days \in Nat, timed \in Dates!Members, stray \in {0, 31} :
      /\ Carried(date, Dates!InSeconds(call'), days, timed)
      /\ date' = IF days = 0 THEN timed ELSE Dates!AddDays(timed, days, stray)

(***************************************************************************)
(* Hours, minutes and seconds that are added to a date make another time   *)
(* of its day and whole days to be added, which are worth exactly what was *)
(* added, however long minutes, hours and days are (DateTime.cpp:262-300). *)
(***************************************************************************)
THEOREM SecondsCarryExactly ==
  BaseSpec => [][(date \in Dates!Members /\ InDay(date)) => TimeCarries]_dateVars
<1>1. ASSUME [BaseNext]_baseVars, date \in Dates!Members, InDay(date), dateVars' # dateVars,
             Dates!Calls("add", DOMAIN Dates!SecondsOf)
      PROVE  TimeCarries
  <2>1. Dates!Next
    BY <1>1 DEF BaseNext, baseVars, UsePool, UseRing, UseStream, UseDate, UseTimer, UseBuffer, UseSlots
  <2>2. ASSUME NEW dt, Dates!SetDateTime(dt) PROVE FALSE
    BY <1>1, <2>2 DEF Dates!SetDateTime, Dates!Calls, Dates!NoCall
  <2>3. ASSUME NEW unit, NEW amount, Dates!Subtract(unit, amount) PROVE FALSE
    BY <1>1, <2>3 DEF Dates!Subtract, Dates!Called, Dates!Calls
  <2>4. ASSUME NEW unit, NEW amount \in Nat, Dates!Add(unit, amount)
        PROVE  TimeCarries
    <3>1. call' = [op |-> "add", unit |-> unit, amount |-> amount]
      BY <2>4 DEF Dates!Add, Dates!Called
    <3>2. call'.unit = unit /\ call'.amount = amount BY <3>1
    <3>3. unit \in {"HOUR", "MIN", "SEC"}
      BY <1>1, <3>2 DEF Dates!Calls, Dates!SecondsOf
    <3>4. Dates!InSeconds(call') = amount * Dates!SecondsOf[unit]
      BY <3>2, <3>3 DEF Dates!InSeconds
    <3>5. PICK stray \in {0, 31} : date' = Dates!AddSeconds(date, amount * Dates!SecondsOf[unit], stray)
      BY <2>4, <3>3 DEF Dates!Add
    <3>6. amount * Dates!SecondsOf[unit] \in Nat
      <4>1. MinutesPerHour * SecondsPerMinute \in Nat BY ClockFacts, Products
      <4>2. Dates!SecondsOf[unit] \in Nat
        BY <3>3, <4>1, ClockFacts DEF Dates!SecondsOf, Dates!SecondsPerHour
      <4> QED BY <4>2, Products
    <3> QED BY <1>1, <3>4, <3>5, <3>6, SecondsCarry DEF TimeCarries
  <2> QED BY <2>1, <2>2, <2>3, <2>4 DEF Dates!Next, Dates!Adjust
<1>2. [BaseNext]_baseVars => [(date \in Dates!Members /\ InDay(date)) => TimeCarries]_dateVars
  BY <1>1 DEF TimeCarries
<1> QED BY <1>2, PTL DEF BaseSpec
=============================================================================
