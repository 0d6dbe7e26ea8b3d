---------------------------- MODULE Log_proofs -----------------------------
(***************************************************************************)
(* The lines of the log are in the files they belong to and in the order   *)
(* of their times, for any number of writers, hours, minutes and lines.    *)
(* Then the singleton: however many threads call GetInstance of a          *)
(* DynamicSingleton, one object is built, and it is deleted once.          *)
(***************************************************************************)
EXTENDS Log, TLAPS

CONSTANTS Users, MaxCalls   \* of the singleton

VARIABLES instance, made, deleted, flag, handlers, ending, pc

Dynamic == INSTANCE Singleton

Line == [writer : Writers, time : Nat]

LogTypeOK == /\ Nobody \notin Writers
             /\ now \in Nat
             /\ at \in [Writers -> {"idle", "locked", "named", "opened"}]
             /\ dt \in [Writers -> Nat]
             /\ console \in Seq(Line)
             /\ \A f \in DOMAIN files : files[f] \in Seq(Line)

\* One writer at a time is past the lock.
HasLock == \A w \in Writers : at[w] # "idle" => holder = w

NoneAfter(lines, t) == \A i \in 1..Len(lines) : lines[i].time <= t

\* No line is from the future, and none from after the time that the writer
\* in the lock has read.
LinesAreOld ==
  /\ NoneAfter(console, now)
  /\ \A f \in DOMAIN files : NoneAfter(files[f], now)
  /\ \A w \in Writers :
       at[w] \in {"named", "opened"} => /\ dt[w] <= now
                                        /\ NoneAfter(console, dt[w])
                                        /\ \A f \in DOMAIN files : NoneAfter(files[f], dt[w])

\* The names of the files, which do not change while the program runs.
Names == [t \in Nat |-> FileName(t)]

\* What is open is the file of the time that its writer has read.
OpenedByName ==
  \A w \in Writers :
    at[w] = "opened" => \/ stream = Closed
                        \/ stream = Names[dt[w]] /\ stream \in DOMAIN files

\* LinesInOrder, in terms of Names.
InOrderAndPlace == /\ InOrder(console)
                   /\ \A f \in DOMAIN files :
                        /\ InOrder(files[f])
                        /\ \A i \in 1..Len(files[f]) : Names[files[f][i].time] = f

LogInv == LogTypeOK /\ HasLock /\ LinesAreOld /\ OpenedByName /\ InOrderAndPlace

-----------------------------------------------------------------------------
LEMMA LogInit == Nobody \notin Writers /\ Init => LogInv
BY DEF Init, LogInv, LogTypeOK, HasLock, LinesAreOld, NoneAfter, OpenedByName, InOrderAndPlace, InOrder

\* A line that is not older than any other goes to the end.
LEMMA AppendInOrder ==
  ASSUME NEW lines \in Seq(Line), NEW line \in Line,
         InOrder(lines), NoneAfter(lines, line.time)
  PROVE  /\ Append(lines, line) \in Seq(Line)
         /\ InOrder(Append(lines, line))
         /\ NoneAfter(Append(lines, line), line.time)
<1> DEFINE longer == Append(lines, line)
<1>1. longer \in Seq(Line) /\ Len(longer) = Len(lines) + 1 /\ Len(lines) \in Nat
  OBVIOUS
<1>2. /\ \A i \in 1..Len(lines) : longer[i] = lines[i] /\ lines[i] \in Line
      /\ longer[Len(longer)] = line
  OBVIOUS
<1>3. \A l \in Line : l.time \in Nat
  BY DEF Line
<1> HIDE DEF longer
<1>4. \A i \in 1..Len(longer) : longer[i].time <= line.time
  BY <1>1, <1>2, <1>3 DEF NoneAfter
<1>5. \A i, j \in 1..Len(longer) : i < j => longer[i].time <= longer[j].time
  <2> TAKE i, j \in 1..Len(longer)
  <2>1. CASE j = Len(longer)
    BY <1>2, <1>4, <2>1
  <2>2. CASE j \in 1..Len(lines) /\ i \in 1..Len(lines)
    BY <1>2, <2>2 DEF InOrder
  <2>. QED BY <1>1, <2>1, <2>2
<1>. QED BY <1>1, <1>4, <1>5 DEF InOrder, NoneAfter, longer

\* What is not after a time is not after a later one.
LEMMA NoneAfterLater ==
  ASSUME NEW lines \in Seq(Line), NEW s \in Nat, NEW t \in Nat, s <= t, NoneAfter(lines, s)
  PROVE  NoneAfter(lines, t)
<1>1. \A i \in 1..Len(lines) : lines[i] \in Line
  OBVIOUS
<1>2. \A l \in Line : l.time \in Nat
  BY DEF Line
<1>. QED BY <1>1, <1>2 DEF NoneAfter

LEMMA LogStep == LogInv /\ [Next]_vars => LogInv'
<1> SUFFICES ASSUME LogInv, [Next]_vars
             PROVE  LogInv'
  OBVIOUS
<1> USE DEF LogInv
<1>0. Names' = Names
  BY DEF Next, Write, Lock, SetNow, Open, Put, Tick, vars, Names, FileName, Day, Hour
<1>1. CASE Tick
  <2>1. LogTypeOK' /\ HasLock' /\ OpenedByName' /\ InOrderAndPlace'
    BY <1>0, <1>1 DEF Tick, LogTypeOK, HasLock, OpenedByName, InOrderAndPlace
  <2>2. LinesAreOld'
    <3>1. now + 1 \in Nat /\ now <= now + 1
      BY DEF LogTypeOK
    <3>2. NoneAfter(console, now + 1)
      BY <3>1, NoneAfterLater DEF LogTypeOK, LinesAreOld
    <3>3. \A f \in DOMAIN files : NoneAfter(files[f], now + 1)
      BY <3>1, NoneAfterLater DEF LogTypeOK, LinesAreOld
    <3>4. \A v \in Writers : dt[v] <= now => dt[v] <= now + 1
      BY DEF LogTypeOK
    <3>. QED BY <1>1, <3>2, <3>3, <3>4 DEF Tick, LinesAreOld, NoneAfter
  <2>. QED BY <2>1, <2>2
<1>2. ASSUME NEW w \in Writers, Lock(w) PROVE LogInv'
  BY <1>0, <1>2 DEF Lock, Goes, LogTypeOK, HasLock, LinesAreOld, NoneAfter, OpenedByName,
              InOrderAndPlace
<1>3. ASSUME NEW w \in Writers, SetNow(w) PROVE LogInv'
  <2>1. LogTypeOK' /\ InOrderAndPlace'
    BY <1>0, <1>3 DEF SetNow, Goes, LogTypeOK, InOrderAndPlace
  <2>2. HasLock' /\ OpenedByName'
    BY <1>0, <1>3 DEF SetNow, Goes, LogTypeOK, HasLock, OpenedByName
  <2>3. /\ \A v \in Writers : v = w \/ (at'[v] = at[v] /\ dt'[v] = dt[v])
        /\ dt'[w] = now /\ now <= now
    <3>1. at' = [at EXCEPT ![w] = "idle"] \/ at' = [at EXCEPT ![w] = "named"]
      BY <1>3 DEF SetNow, Goes
    <3>. QED BY <1>3, <3>1 DEF SetNow, LogTypeOK
  <2>4. LinesAreOld'
    <3>1. \A v \in Writers : at'[v] \in {"named", "opened"} =>
            /\ dt'[v] <= now
            /\ NoneAfter(console, dt'[v])
            /\ \A f \in DOMAIN files : NoneAfter(files[f], dt'[v])
      BY <2>3 DEF LinesAreOld
    <3>. QED BY <1>3, <3>1 DEF SetNow, LinesAreOld, NoneAfter
  <2>. QED BY <2>1, <2>2, <2>4
<1>4. ASSUME NEW w \in Writers, Open(w) PROVE LogInv'
  <2>1. \A f \in DOMAIN files' : files'[f] = << >> \/ (f \in DOMAIN files /\ files'[f] = files[f])
    <3>1. CASE files' = files
      BY <3>1
    <3>2. CASE files' = [f \in DOMAIN files \cup {stream'} |->
                            IF f \in DOMAIN files THEN files[f] ELSE << >>]
      <4> DEFINE grown == [f \in DOMAIN files \cup {stream'} |->
                             IF f \in DOMAIN files THEN files[f] ELSE << >>]
      <4>1. \A f \in DOMAIN grown : grown[f] = << >> \/ (f \in DOMAIN files /\ grown[f] = files[f])
        OBVIOUS
      <4> HIDE DEF grown
      <4>2. files' = grown
        BY <3>2 DEF grown
      <4>. QED BY <4>1, <4>2
    <3>. QED BY <1>4, <3>1, <3>2 DEF Open
  <2>2. LogTypeOK'
    <3>1. \A f \in DOMAIN files' : files'[f] \in Seq(Line)
      <4>1. << >> \in Seq(Line)
        OBVIOUS
      <4>. QED BY <2>1, <4>1 DEF LogTypeOK
    <3>. QED BY <1>4, <3>1 DEF Open, Goes, LogTypeOK
  <2>3. HasLock'
    BY <1>4 DEF Open, Goes, LogTypeOK, HasLock
  <2>4. LinesAreOld' /\ InOrderAndPlace'
    BY <1>0, <1>4, <2>1 DEF Open, Goes, LogTypeOK, LinesAreOld, NoneAfter, InOrderAndPlace, InOrder
  <2>5. OpenedByName'
    <3>1. FileName(dt[w]) = Names[dt[w]]
      BY DEF LogTypeOK, Names
    <3>2. stream' = Closed \/ (stream' = Names[dt[w]] /\ stream' \in DOMAIN files')
      BY <1>4, <3>1 DEF Open
    <3>3. \A v \in Writers : at'[v] = "opened" => v = w
      BY <1>4 DEF Open, Goes, LogTypeOK, HasLock
    <3>4. Names'[dt'[w]] = Names[dt[w]]
      BY <1>0, <1>4 DEF Open
    <3>. QED BY <3>2, <3>3, <3>4 DEF OpenedByName
  <2>. QED BY <2>2, <2>3, <2>4, <2>5
<1>5. ASSUME NEW w \in Writers, Put(w) PROVE LogInv'
  <2> DEFINE line == [writer |-> w, time |-> dt[w]]
  <2>1. at[w] = "opened" /\ line \in Line /\ line.time = dt[w] /\ dt[w] <= now
    BY <1>0, <1>5 DEF Put, LogTypeOK, LinesAreOld, Line
  <2>2. console' = Append(console, line) /\ now' = now /\ cycle' = cycle /\ dt' = dt
    BY <1>0, <1>5 DEF Put
  <2>3. /\ console' \in Seq(Line) /\ InOrder(console)' /\ NoneAfter(console, dt[w])'
    BY <2>1, <2>2, AppendInOrder DEF LogTypeOK, LinesAreOld, InOrderAndPlace, InOrder, NoneAfter
  <2>4. ASSUME NEW f \in DOMAIN files'
        PROVE  /\ files'[f] \in Seq(Line) /\ InOrder(files'[f]) /\ NoneAfter(files'[f], dt[w])
               /\ \A i \in 1..Len(files'[f]) : Names[files'[f][i].time] = f
    <3>1. f \in DOMAIN files
      BY <1>0, <1>5 DEF Put
    <3>2. CASE files'[f] = files[f]
      BY <2>1, <2>2, <3>1, <3>2 DEF LogTypeOK, LinesAreOld, InOrderAndPlace
    <3>3. CASE f = stream /\ stream # Closed /\ files'[f] = Append(files[f], line)
      <4>1. f = Names[dt[w]]
        BY <2>1, <3>3 DEF OpenedByName
      <4>2. /\ files'[f] \in Seq(Line) /\ InOrder(files'[f]) /\ NoneAfter(files'[f], dt[w])
        BY <2>1, <3>1, <3>3, AppendInOrder DEF LogTypeOK, LinesAreOld, InOrderAndPlace
      <4>3. ASSUME NEW i \in 1..Len(files'[f]) PROVE Names[files'[f][i].time] = f
        <5>1. files[f] \in Seq(Line)
          BY <3>1 DEF LogTypeOK
        <5>2. CASE i \in 1..Len(files[f])
          BY <2>2, <3>1, <3>3, <5>1, <5>2 DEF InOrderAndPlace
        <5>3. CASE i = Len(files[f]) + 1
          BY <2>1, <2>2, <3>3, <4>1, <5>1, <5>3
        <5>. QED BY <3>3, <5>1, <5>2, <5>3
      <4>. QED BY <4>2, <4>3
    <3>. QED BY <1>0, <1>5, <3>1, <3>2, <3>3 DEF Put
  <2>5. \A v \in Writers : at'[v] = "idle"
    BY <1>0, <1>5, <2>1 DEF Put, Goes, HasLock, LogTypeOK
  <2>6. LogTypeOK' /\ HasLock' /\ OpenedByName'
    BY <1>0, <1>5, <2>2, <2>3, <2>4, <2>5 DEF Put, Goes, LogTypeOK, HasLock, OpenedByName
  <2>7. LinesAreOld'
    BY <2>1, <2>2, <2>3, <2>4, <2>5, NoneAfterLater DEF LinesAreOld, LogTypeOK
  <2>8. InOrderAndPlace'
    BY <1>0, <2>3, <2>4 DEF InOrderAndPlace, InOrder
  <2>. QED BY <2>6, <2>7, <2>8
<1>6. CASE UNCHANGED vars
  BY <1>0, <1>6 DEF vars, LogTypeOK, HasLock, LinesAreOld, NoneAfter, OpenedByName, InOrderAndPlace,
              InOrder
<1>. QED BY <1>1, <1>2, <1>3, <1>4, <1>5, <1>6 DEF Next, Write

(***************************************************************************)
(* Every file holds lines of its own day or hour, and its lines and those  *)
(* on the console are in the order of their times (Log.h:67-103).          *)
(***************************************************************************)
THEOREM LogInOrder == Nobody \notin Writers /\ Spec => []LinesInOrder
<1>1. LogInv => LinesInOrder
  <2> SUFFICES ASSUME LogInv PROVE LinesInOrder
    OBVIOUS
  <2>1. ASSUME NEW f \in DOMAIN files, NEW i \in 1..Len(files[f])
        PROVE  FileName(files[f][i].time) = f
    <3>1. files[f][i] \in Line
      BY DEF LogInv, LogTypeOK
    <3>2. files[f][i].time \in Nat
      BY <3>1 DEF Line
    <3>. QED BY <3>2 DEF LogInv, InOrderAndPlace, Names
  <2>. QED BY <2>1 DEF LogInv, InOrderAndPlace, LinesInOrder
<1>. QED BY LogInit, LogStep, <1>1, PTL DEF Spec

-----------------------------------------------------------------------------
(* The singleton.                                                          *)

Creating == {"build", "publish"}

\* Whoever creates has been let through by call_once, alone.
OneCreator ==
  /\ \A u \in Users : pc[u] \in Creating => flag = "running"
  /\ \A u, v \in Users : pc[u] \in Creating /\ pc[v] \in Creating => u = v

\* What the flag says of the object: it is built while one thread runs the
\* function, and nobody is past call_once before it was published.
FlagTells ==
  /\ flag = "new" => made = 0
  /\ \A u \in Users : /\ pc[u] = "build" => made = 0
                      /\ pc[u] = "publish" => made = 1
                      /\ pc[u] \in {"atexit", "return"} => flag = "done"
  /\ flag = "done" => made = 1
  /\ flag # "done" => instance = 0 /\ handlers = 0 /\ deleted = {}

\* Before the end the object is there, and at the end it is deleted first and
\* forgotten then, by the one handler that finds it.
DeletedAtEnd ==
  /\ made \in {0, 1} /\ instance \in {0, 1} /\ deleted \subseteq {1}
  /\ ending = "no" => deleted = {} /\ (flag = "done" => instance = 1)
  /\ ending = "handlers" => instance \notin deleted
  /\ ending = "deleting" => instance = 1

SingletonInv == Dynamic!SingletonTypeOK /\ OneCreator /\ FlagTells /\ DeletedAtEnd

LEMMA SingletonInit == Dynamic!Init => SingletonInv
BY DEF Dynamic!Init, SingletonInv, Dynamic!SingletonTypeOK, OneCreator, FlagTells, DeletedAtEnd, Creating

LEMMA SingletonStep == SingletonInv /\ [Dynamic!Next]_(Dynamic!singletonVars) => SingletonInv'
<1> SUFFICES ASSUME SingletonInv, [Dynamic!Next]_(Dynamic!singletonVars) PROVE SingletonInv'
  OBVIOUS
<1> USE DEF SingletonInv, Dynamic!SingletonTypeOK, OneCreator, FlagTells, DeletedAtEnd, Creating, Dynamic!Goes
<1>1. ASSUME NEW u \in Users, Dynamic!Test(u) PROVE SingletonInv'
  <2>1. CASE instance # 0
    BY <1>1, <2>1 DEF Dynamic!Test
  <2>2. CASE instance = 0
    BY <1>1, <2>2 DEF Dynamic!Test
  <2>. QED BY <2>1, <2>2
<1>2. ASSUME NEW u \in Users, Dynamic!CallOnce(u) PROVE SingletonInv'
  <2>1. CASE flag = "new"
    BY <1>2, <2>1 DEF Dynamic!CallOnce
  <2>2. CASE flag = "done"
    BY <1>2, <2>2 DEF Dynamic!CallOnce
  <2>. QED BY <1>2, <2>1, <2>2 DEF Dynamic!CallOnce
<1>3. ASSUME NEW u \in Users, Dynamic!Build(u) PROVE SingletonInv'
  BY <1>3 DEF Dynamic!Build
<1>4. ASSUME NEW u \in Users, Dynamic!Publish(u) PROVE SingletonInv'
  BY <1>4 DEF Dynamic!Publish
<1>5. ASSUME NEW u \in Users, Dynamic!AtExit(u) PROVE SingletonInv'
  BY <1>5 DEF Dynamic!AtExit
<1>6. ASSUME NEW u \in Users, Dynamic!Return(u) PROVE SingletonInv'
  BY <1>6 DEF Dynamic!Return
<1>7. CASE Dynamic!Exit
  BY <1>7 DEF Dynamic!Exit
<1>8. CASE Dynamic!Delete
  <2>1. flag = "done" /\ handlers' \in Nat /\ ending = "handlers"
    BY <1>8 DEF Dynamic!Delete
  <2>2. /\ UNCHANGED <<instance, made, flag, pc>>
        /\ deleted' \in SUBSET {1}
        /\ \/ ending' = "deleting" /\ instance = 1
           \/ ending' = "handlers" /\ deleted' = deleted
    BY <1>8 DEF Dynamic!Delete
  <2>3. Dynamic!SingletonTypeOK' /\ OneCreator'
    BY <2>1, <2>2
  <2>4. FlagTells' /\ DeletedAtEnd'
    BY <2>1, <2>2
  <2>. QED BY <2>3, <2>4
<1>9. CASE Dynamic!Clear
  BY <1>9 DEF Dynamic!Clear
<1>10. CASE UNCHANGED Dynamic!singletonVars
  BY <1>10 DEF Dynamic!singletonVars
<1>. QED BY <1>1, <1>2, <1>3, <1>4, <1>5, <1>6, <1>7, <1>8, <1>9, <1>10 DEF Dynamic!Next, Dynamic!GetInstance

(***************************************************************************)
(* One object is built; until the program ends every call returns it; at   *)
(* the end it is deleted once (Singleton.hpp:43-62).  Any number of        *)
(* threads may call, any number of times.                                  *)
(***************************************************************************)
THEOREM OneObjectEver == Dynamic!Spec => []Dynamic!OneObject
<1>1. SingletonInv => Dynamic!OneObject
  BY DEF SingletonInv, Dynamic!SingletonTypeOK, OneCreator, FlagTells, DeletedAtEnd, Dynamic!OneObject
<1>. QED BY SingletonInit, SingletonStep, <1>1, PTL DEF Dynamic!Spec

=============================================================================
