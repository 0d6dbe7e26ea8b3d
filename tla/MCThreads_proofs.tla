-------------------------- MODULE MCThreads_proofs --------------------------
(***************************************************************************)
(* What is proved of the program of MCThreads.                             *)
(*                                                                         *)
(* First the server: whoever returns from Wait finds it stopped, for any   *)
(* number of workers and any load.  WaitIsComplete is not inductive: the   *)
(* invariant below adds what Wait relies on, namely that every thread that *)
(* runs is in ThreadManager's map, that Terminate comes after Start, and   *)
(* that the event is set only after the units are destroyed.               *)
(*                                                                         *)
(* Then the manager of threads: no thread that still runs is lost from its *)
(* map, for any number of callers, objects and threads.                    *)
(*                                                                         *)
(* Then the event: nobody leaves Wait without the signal.                  *)
(*                                                                         *)
(* Then the other parts: what is proved of the singleton, of the log and   *)
(* of the atomic pointers holds as well when they are parts of one         *)
(* program: a step of another part is a stutter of theirs.                 *)
(***************************************************************************)
EXTENDS MCThreads, TLAPS

USE NAssumption, MaxWorkAssumption

\* Terminate is not called before Start is over (iocp_test.cpp registers it).
StartComesFirst == at["main"] = "start" => at["stopper"] = "off"

\* The loops over the workers stay in their range.
StopsWorkers == /\ at["stopper"] \in {"flag", "post"} => next \in Workers
                /\ at["main"] # "start" /\ at["stopper"] = "off" => next = 1

\* Start has run every thread before it, and all of them once it is over
\* (IocpServer.cpp:39-48).
AllStarted == \A t \in Threads :
                at["main"] # "start" \/ t < next => pc[t] # "none"

\* JoinAll cannot miss a thread that runs: Create put it into the map
\* (ThreadManager.hpp:21-32).
RunningAreInMap == \A t \in Threads : pc[t] \in {"none", "exit"} \/ t \in threads

\* Behind JoinAll no thread runs any more (ThreadManager.hpp:46-61).
JoinedHaveEnded == \A c \in Callers :
  at[c] \in {"event", "asleep", "done"} => \A t \in Threads : pc[t] = "exit"

\* Set is the last call of Terminate, and Wait returns only after it
\* (IocpServer.cpp:57-67, 98-105).
SetAfterDestroy ==
  /\ at["stopper"] \in {"set", "joinall", "joining", "event", "asleep", "done"}
       => units = "destroyed"
  /\ signal => units = "destroyed"
  /\ \A c \in Callers : at[c] = "done" => signal

\* The inductive invariant.
ServerInv == /\ TypeOK
             /\ StartComesFirst
             /\ StopsWorkers
             /\ AllStarted
             /\ RunningAreInMap
             /\ JoinedHaveEnded
             /\ SetAfterDestroy

\* Start adds one thread, to the map and to those that run.
LEMMA StartThreadKeeps == ASSUME ServerInv, StartThread PROVE ServerInv'
<1>. USE DEF StartThread, CallerAt, CallerGoes, Connector, eventVars
<1>1. TypeOK' BY DEF ServerInv, TypeOK, Callers, Threads
<1>2. StartComesFirst' BY DEF ServerInv, StartComesFirst, TypeOK, Callers, Threads
<1>3. StopsWorkers' BY DEF ServerInv, StopsWorkers, TypeOK, StartComesFirst, Workers, Callers, Threads
<1>4. AllStarted' BY DEF ServerInv, AllStarted, TypeOK, Threads, Callers
<1>5. RunningAreInMap' BY DEF ServerInv, RunningAreInMap, TypeOK, Threads, Callers
<1>6. JoinedHaveEnded' BY DEF ServerInv, JoinedHaveEnded, TypeOK, StartComesFirst, Threads, Callers
<1>7. SetAfterDestroy' BY DEF ServerInv, SetAfterDestroy, TypeOK, StartComesFirst, Callers, Threads
<1>. QED BY <1>1, <1>2, <1>3, <1>4, <1>5, <1>6, <1>7 DEF ServerInv

\* Terminate begins when Start is over.
LEMMA StopConnectKeeps == ASSUME ServerInv, StopConnect PROVE ServerInv'
<1>. USE DEF StopConnect, CallerAt, CallerGoes, Connector, mgrVars, eventVars
<1>1. TypeOK' BY DEF ServerInv, TypeOK, Callers, Threads
<1>2. StartComesFirst' BY DEF ServerInv, StartComesFirst, TypeOK, Callers, Threads
<1>3. StopsWorkers' BY DEF ServerInv, StopsWorkers, TypeOK, Workers, Callers, Threads
<1>4. AllStarted' BY DEF ServerInv, AllStarted, TypeOK, Threads, Callers
<1>5. JoinedHaveEnded' BY DEF ServerInv, JoinedHaveEnded, TypeOK, Threads, Callers
<1>6. SetAfterDestroy' BY DEF ServerInv, SetAfterDestroy, TypeOK, Callers, Threads
<1>. QED BY <1>1, <1>2, <1>3, <1>4, <1>5, <1>6 DEF ServerInv, RunningAreInMap

LEMMA ClearFlagKeeps == ASSUME ServerInv, ClearFlag PROVE ServerInv'
<1>. USE DEF ClearFlag, CallerAt, CallerGoes, mgrVars, eventVars
<1>1. TypeOK' BY DEF ServerInv, TypeOK, Callers, Threads
<1>2. StartComesFirst' BY DEF ServerInv, StartComesFirst, TypeOK, Callers, Threads
<1>3. StopsWorkers' BY DEF ServerInv, StopsWorkers, TypeOK, Workers, Callers, Threads
<1>4. AllStarted' BY DEF ServerInv, AllStarted, TypeOK, Threads, Callers
<1>5. JoinedHaveEnded' BY DEF ServerInv, JoinedHaveEnded, TypeOK, Threads, Callers
<1>6. SetAfterDestroy' BY DEF ServerInv, SetAfterDestroy, TypeOK, Callers, Threads
<1>. QED BY <1>1, <1>2, <1>3, <1>4, <1>5, <1>6 DEF ServerInv, RunningAreInMap

\* The loop of TerminateWorkerThread ends with the last worker.
LEMMA PostNullKeeps == ASSUME ServerInv, PostNull PROVE ServerInv'
<1>. USE DEF PostNull, CallerAt, CallerGoes, threadVars, mgrVars, eventVars
<1>1. TypeOK' BY DEF ServerInv, TypeOK, StopsWorkers, Callers, Threads, Workers
<1>2. StartComesFirst' BY DEF ServerInv, StartComesFirst, TypeOK, Callers, Threads
<1>3. StopsWorkers' BY DEF ServerInv, StopsWorkers, TypeOK, Workers, Callers, Threads
<1>4. AllStarted' BY DEF ServerInv, AllStarted, TypeOK, StartComesFirst, Threads, Callers
<1>5. JoinedHaveEnded' BY DEF ServerInv, JoinedHaveEnded, TypeOK, Threads, Callers
<1>6. SetAfterDestroy' BY DEF ServerInv, SetAfterDestroy, TypeOK, Callers, Threads
<1>. QED BY <1>1, <1>2, <1>3, <1>4, <1>5, <1>6 DEF ServerInv, RunningAreInMap

LEMMA DestroyKeeps == ASSUME ServerInv, Destroy PROVE ServerInv'
<1>. USE DEF Destroy, CallerAt, CallerGoes, threadVars, mgrVars, eventVars
<1>1. TypeOK' BY DEF ServerInv, TypeOK, Callers, Threads
<1>2. StartComesFirst' BY DEF ServerInv, StartComesFirst, TypeOK, Callers, Threads
<1>3. StopsWorkers' BY DEF ServerInv, StopsWorkers, TypeOK, Workers, Callers, Threads
<1>4. AllStarted' BY DEF ServerInv, AllStarted, TypeOK, Threads, Callers
<1>5. JoinedHaveEnded' BY DEF ServerInv, JoinedHaveEnded, TypeOK, Threads, Callers
<1>6. SetAfterDestroy' BY DEF ServerInv, SetAfterDestroy, TypeOK, Callers, Threads
<1>. QED BY <1>1, <1>2, <1>3, <1>4, <1>5, <1>6 DEF ServerInv, RunningAreInMap

\* The event is set after Destroy.
LEMMA SetRunningKeeps == ASSUME ServerInv, SetRunning PROVE ServerInv'
<1>. USE DEF SetRunning, CallerAt, CallerGoes, threadVars, mgrVars
<1>1. TypeOK' BY DEF ServerInv, TypeOK, Callers, Threads
<1>2. StartComesFirst' BY DEF ServerInv, StartComesFirst, TypeOK, Callers, Threads
<1>3. StopsWorkers' BY DEF ServerInv, StopsWorkers, TypeOK, Workers, Callers, Threads
<1>4. AllStarted' BY DEF ServerInv, AllStarted, TypeOK, Threads, Callers
<1>5. JoinedHaveEnded' BY DEF ServerInv, JoinedHaveEnded, TypeOK, Threads, Callers
<1>6. SetAfterDestroy' BY DEF ServerInv, SetAfterDestroy, TypeOK, Callers, Threads
<1>. QED BY <1>1, <1>2, <1>3, <1>4, <1>5, <1>6 DEF ServerInv, RunningAreInMap

LEMMA JoinAllKeeps == ASSUME NEW c \in Callers, ServerInv, JoinAll(c) PROVE ServerInv'
<1>. USE DEF JoinAll, CallerAt, CallerGoes, threadVars, eventVars
<1>1. TypeOK' BY DEF ServerInv, TypeOK, Callers, Threads
<1>2. StartComesFirst' BY DEF ServerInv, StartComesFirst, TypeOK, Callers, Threads
<1>3. StopsWorkers' BY DEF ServerInv, StopsWorkers, TypeOK, Workers, Callers, Threads
<1>4. AllStarted' BY DEF ServerInv, AllStarted, TypeOK, Threads, Callers
<1>5. JoinedHaveEnded' BY DEF ServerInv, JoinedHaveEnded, TypeOK, Threads, Callers
<1>6. SetAfterDestroy' BY DEF ServerInv, SetAfterDestroy, TypeOK, Callers, Threads
<1>. QED BY <1>1, <1>2, <1>3, <1>4, <1>5, <1>6 DEF ServerInv, RunningAreInMap

\* Every thread in the map has ended, and the others are in no map because they ended before.
LEMMA JoinedKeeps == ASSUME NEW c \in Callers, ServerInv, Joined(c) PROVE ServerInv'
<1>. USE DEF Joined, CallerAt, CallerGoes, threadVars, eventVars
<1>1. TypeOK' BY DEF ServerInv, TypeOK, Callers, Threads
<1>2. StartComesFirst' BY DEF ServerInv, StartComesFirst, TypeOK, Callers, Threads
<1>3. StopsWorkers' BY DEF ServerInv, StopsWorkers, TypeOK, Workers, Callers, Threads
<1>4. AllStarted' BY DEF ServerInv, AllStarted, TypeOK, Threads, Callers
<1>5. RunningAreInMap' BY DEF ServerInv, RunningAreInMap, TypeOK, Threads, Callers
<1>6. JoinedHaveEnded' BY DEF ServerInv, JoinedHaveEnded, TypeOK, AllStarted, RunningAreInMap, StartComesFirst, Threads, Callers
<1>7. SetAfterDestroy' BY DEF ServerInv, SetAfterDestroy, TypeOK, Callers, Threads
<1>. QED BY <1>1, <1>2, <1>3, <1>4, <1>5, <1>6, <1>7 DEF ServerInv

LEMMA WaitRunningKeeps == ASSUME NEW c \in Callers, ServerInv, WaitRunning(c) PROVE ServerInv'
<1>. USE DEF WaitRunning, CallerAt, CallerGoes, threadVars, mgrVars
<1>1. TypeOK' BY DEF ServerInv, TypeOK, Callers, Threads
<1>2. StartComesFirst' BY DEF ServerInv, StartComesFirst, TypeOK, Callers, Threads
<1>3. StopsWorkers' BY DEF ServerInv, StopsWorkers, TypeOK, Workers, Callers, Threads
<1>4. AllStarted' BY DEF ServerInv, AllStarted, TypeOK, Threads, Callers
<1>5. JoinedHaveEnded' BY DEF ServerInv, JoinedHaveEnded, TypeOK, Threads, Callers
<1>6. SetAfterDestroy' BY DEF ServerInv, SetAfterDestroy, TypeOK, Callers, Threads
<1>. QED BY <1>1, <1>2, <1>3, <1>4, <1>5, <1>6 DEF ServerInv, RunningAreInMap

LEMMA WakeKeeps == ASSUME NEW c \in Callers, ServerInv, Wake(c) PROVE ServerInv'
<1>. USE DEF Wake, CallerAt, CallerGoes, threadVars, mgrVars, eventVars
<1>1. TypeOK' BY DEF ServerInv, TypeOK, Callers, Threads
<1>2. StartComesFirst' BY DEF ServerInv, StartComesFirst, TypeOK, Callers, Threads
<1>3. StopsWorkers' BY DEF ServerInv, StopsWorkers, TypeOK, Workers, Callers, Threads
<1>4. AllStarted' BY DEF ServerInv, AllStarted, TypeOK, Threads, Callers
<1>5. JoinedHaveEnded' BY DEF ServerInv, JoinedHaveEnded, TypeOK, Threads, Callers
<1>6. SetAfterDestroy' BY DEF ServerInv, SetAfterDestroy, TypeOK, Callers, Threads
<1>. QED BY <1>1, <1>2, <1>3, <1>4, <1>5, <1>6 DEF ServerInv, RunningAreInMap

LEMMA LoopKeeps == ASSUME NEW w \in Workers, ServerInv, Loop(w) PROVE ServerInv'
<1>. USE DEF Loop, mgrVars, eventVars
<1>1. TypeOK' BY DEF ServerInv, TypeOK, Callers, Threads, Workers
<1>2. AllStarted' BY DEF ServerInv, AllStarted, TypeOK, Threads, Callers, Workers
<1>3. RunningAreInMap' BY DEF ServerInv, RunningAreInMap, TypeOK, Threads, Callers, Workers
<1>4. JoinedHaveEnded' BY DEF ServerInv, JoinedHaveEnded, TypeOK, Threads, Callers, Workers
<1>. QED BY <1>1, <1>2, <1>3, <1>4 DEF ServerInv, StartComesFirst, StopsWorkers, SetAfterDestroy

LEMMA DequeueKeeps == ASSUME NEW w \in Workers, ServerInv, Dequeue(w) PROVE ServerInv'
<1>. USE DEF Dequeue, mgrVars, eventVars
<1>1. TypeOK' BY DEF ServerInv, TypeOK, Callers, Threads, Workers
<1>2. AllStarted' BY DEF ServerInv, AllStarted, TypeOK, Threads, Callers, Workers
<1>3. RunningAreInMap' BY DEF ServerInv, RunningAreInMap, TypeOK, Threads, Callers, Workers
<1>4. JoinedHaveEnded' BY DEF ServerInv, JoinedHaveEnded, TypeOK, Threads, Callers, Workers
<1>. QED BY <1>1, <1>2, <1>3, <1>4 DEF ServerInv, StartComesFirst, StopsWorkers, SetAfterDestroy

LEMMA HandlerEndsKeeps == ASSUME NEW w \in Workers, ServerInv, HandlerEnds(w) PROVE ServerInv'
<1>. USE DEF HandlerEnds, mgrVars, eventVars
<1>1. TypeOK' BY DEF ServerInv, TypeOK, Callers, Threads, Workers
<1>2. AllStarted' BY DEF ServerInv, AllStarted, TypeOK, Threads, Callers, Workers
<1>3. RunningAreInMap' BY DEF ServerInv, RunningAreInMap, TypeOK, Threads, Callers, Workers
<1>4. JoinedHaveEnded' BY DEF ServerInv, JoinedHaveEnded, TypeOK, Threads, Callers, Workers
<1>. QED BY <1>1, <1>2, <1>3, <1>4 DEF ServerInv, StartComesFirst, StopsWorkers, SetAfterDestroy

LEMMA PollKeeps == ASSUME ServerInv, Poll PROVE ServerInv'
<1>. USE DEF Poll, Connector, mgrVars, eventVars
<1>1. TypeOK' BY DEF ServerInv, TypeOK, Callers, Threads
<1>2. AllStarted' BY DEF ServerInv, AllStarted, TypeOK, Threads, Callers
<1>3. RunningAreInMap' BY DEF ServerInv, RunningAreInMap, TypeOK, Threads, Callers
<1>4. JoinedHaveEnded' BY DEF ServerInv, JoinedHaveEnded, TypeOK, Threads, Callers
<1>. QED BY <1>1, <1>2, <1>3, <1>4 DEF ServerInv, StartComesFirst, StopsWorkers, SetAfterDestroy

LEMMA PollEndsKeeps == ASSUME ServerInv, PollEnds PROVE ServerInv'
<1>. USE DEF PollEnds, Connector, mgrVars, eventVars
<1>1. TypeOK' BY DEF ServerInv, TypeOK, Callers, Threads
<1>2. AllStarted' BY DEF ServerInv, AllStarted, TypeOK, Threads, Callers
<1>3. RunningAreInMap' BY DEF ServerInv, RunningAreInMap, TypeOK, Threads, Callers
<1>4. JoinedHaveEnded' BY DEF ServerInv, JoinedHaveEnded, TypeOK, Threads, Callers
<1>. QED BY <1>1, <1>2, <1>3, <1>4 DEF ServerInv, StartComesFirst, StopsWorkers, SetAfterDestroy

LEMMA ArriveKeeps == ASSUME ServerInv, Arrive PROVE ServerInv'
<1>. USE DEF Arrive, threadVars, mgrVars, eventVars
<1>1. TypeOK' BY DEF ServerInv, TypeOK, Callers, Threads
<1>. QED BY <1>1 DEF ServerInv, StartComesFirst, StopsWorkers, AllStarted, RunningAreInMap, JoinedHaveEnded, SetAfterDestroy

\* A step that changes nothing.
LEMMA StutterKeeps == ASSUME ServerInv, UNCHANGED vars PROVE ServerInv'
BY DEF ServerInv, TypeOK, StartComesFirst, StopsWorkers, AllStarted, RunningAreInMap,
       JoinedHaveEnded, SetAfterDestroy, CallerAt, vars, threadVars, mgrVars, eventVars

LEMMA InitServerInv == ASSUME Init PROVE ServerInv
<1>1. at["main"] = "start" /\ at["stopper"] = "off" BY DEF Init, Callers
<1>2. TypeOK
  <2>1. at \in [Callers -> {"start", "off"}] BY DEF Init
  <2>2. at \in [Callers -> {"start", "off", "flag", "post", "destroy", "set",
                            "joinall", "joining", "event", "asleep", "done"}]
    BY <2>1
  <2>3. started \in [Threads -> BOOLEAN]
        /\ pc \in [Threads -> {"none", "check", "blocked", "using", "exit"}]
    BY DEF Init
  <2>4. queue \in Seq({"null", "work"}) BY DEF Init
  <2>5. work \in 0..MaxWork /\ next \in 1..(N + 1)
    BY DEF Init
  <2>. QED BY <2>2, <2>3, <2>4, <2>5 DEF Init, TypeOK
<1>3. \A t \in Threads : pc[t] = "none" /\ t >= next BY DEF Init, Threads
<1>4. StartComesFirst /\ StopsWorkers BY <1>1 DEF StartComesFirst, StopsWorkers
<1>5. AllStarted /\ RunningAreInMap
  BY <1>1, <1>3 DEF AllStarted, RunningAreInMap, Threads, Init
<1>6. JoinedHaveEnded /\ SetAfterDestroy
  BY <1>1 DEF Init, JoinedHaveEnded, SetAfterDestroy, Callers
<1>. QED BY <1>2, <1>4, <1>5, <1>6 DEF ServerInv

\* The invariant: types, the order of Start, Terminate and Wait, and which
\* threads run (IocpServer.cpp:39-122, ThreadManager.hpp:21-61).
THEOREM ServerInvariant == Spec => []ServerInv
<1>1. ASSUME ServerInv, [Next]_vars PROVE ServerInv'
  <2>1. CASE StartThread BY <1>1, <2>1, StartThreadKeeps
  <2>2. CASE Terminate
    BY <1>1, <2>2, StopConnectKeeps, ClearFlagKeeps, PostNullKeeps, DestroyKeeps,
       SetRunningKeeps DEF Terminate
  <2>3. ASSUME NEW c \in Callers, Wait(c) PROVE ServerInv'
    BY <1>1, <2>3, JoinAllKeeps, JoinedKeeps, WaitRunningKeeps, WakeKeeps DEF Wait
  <2>4. ASSUME NEW w \in Workers, Worker(w) PROVE ServerInv'
    BY <1>1, <2>4, LoopKeeps, DequeueKeeps, HandlerEndsKeeps DEF Worker
  <2>5. CASE AutoConnector BY <1>1, <2>5, PollKeeps, PollEndsKeeps DEF AutoConnector
  <2>6. CASE Arrive BY <1>1, <2>6, ArriveKeeps
  <2>7. CASE UNCHANGED vars BY <1>1, <2>7, StutterKeeps
  <2>. QED BY <1>1, <2>1, <2>2, <2>3, <2>4, <2>5, <2>6, <2>7 DEF Next
<1>. QED BY <1>1, InitServerInv, PTL DEF Spec

\* Whoever returns from Wait finds every thread ended and the units
\* destroyed, for any number of workers (IocpServer.cpp:50-67).
THEOREM WaitCompletes == Spec => []WaitIsComplete
<1>1. ServerInv => WaitIsComplete
  BY DEF ServerInv, JoinedHaveEnded, SetAfterDestroy, WaitIsComplete, CallerAt
<1>. QED BY <1>1, ServerInvariant, PTL

-----------------------------------------------------------------------------
(* The manager of threads.                                                 *)

\* The threads created so far are those that are somewhere.
Numbered == \A r \in Manager!Ids : (r <= created) = (m_at[r] # "none")

\* Whoever joins knows its program's way to join, and has an id of its own.
InStyle ==
  \A c \in Clients : /\ m_at[c] \in {"join", "joining"} => style = "each"
                     /\ m_at[c] \in {"joinAll", "joiningAll"} => style = "all"
OwnIds == \A c, d \in Clients :
            m_at[c] \in {"join", "joining"} /\ m_at[d] \in {"join", "joining"} /\ id[c] = id[d] => c = d

\* Threads do not join; callers neither begin nor end.
Roles == /\ \A r \in Manager!Ids : m_at[r] \notin {"join", "joining", "joinAll", "joiningAll", "idle"}
         /\ \A c \in Clients : m_at[c] \notin {"none", "exit", "run"}

MgrInv == Manager!NamesDiffer /\ Manager!MgrTypeOK /\ Numbered /\ InStyle /\ OwnIds /\ Roles /\ Manager!NobodyForgotten

-----------------------------------------------------------------------------
LEMMA MgrInit == Manager!NamesDiffer /\ Manager!Init => MgrInv
<1> SUFFICES ASSUME Manager!NamesDiffer, Manager!Init PROVE MgrInv
  OBVIOUS
<1>1. Manager!MgrTypeOK
  BY DEF Manager!Init, Manager!NamesDiffer, Manager!MgrTypeOK, Manager!Agents, Manager!Ids, Manager!Joining, Manager!Starting
<1>2. \A r \in Manager!Ids : r \in Manager!Agents /\ r \notin Clients /\ ~(r <= 0)
  BY DEF Manager!NamesDiffer, Manager!Agents, Manager!Ids
<1>3. (\A r \in Manager!Ids : m_at[r] = "none") /\ (\A c \in Clients : m_at[c] = "idle")
  BY <1>2 DEF Manager!Init, Manager!Agents
<1>4. Numbered
  BY <1>2, <1>3 DEF Manager!Init, Numbered
<1>5. InStyle /\ OwnIds /\ Roles /\ Manager!NobodyForgotten
  BY <1>3 DEF InStyle, OwnIds, Roles, Manager!NobodyForgotten
<1>. QED BY <1>1, <1>4, <1>5 DEF MgrInv

\* A step of one agent that leaves the map alone, and neither begins nor ends
\* a thread or a join.
LEMMA StepAside ==
  ASSUME MgrInv, Manager!MgrTypeOK', NEW a \in Manager!Agents, NEW label, Manager!Goes(a, label),
         m_at[a] \notin {"none", "exit"}, UNCHANGED <<created, m_threads, id, style>>,
         \/ label \in {"start", "create", "assign"}
         \/ label = "run" /\ a \in Manager!Ids
         \/ label = "exit" /\ a \in Manager!Ids
         \/ label \in {"idle", "joining"} /\ a \in Clients
         \/ label = "joinAll" /\ a \in Clients /\ style = "all"
         \/ label = "joiningAll" /\ a \in Clients /\ style = "all",
         label = "joining" => m_at[a] = "join"
  PROVE  MgrInv'
<1>0. \A c \in Clients, r \in Manager!Ids : c # r
  BY DEF MgrInv, Manager!NamesDiffer, Manager!Ids
<1>2. (\A c \in Clients : c \in Manager!Agents) /\ (\A r \in Manager!Ids : r \in Manager!Agents)
  BY DEF Manager!Agents
<1> USE DEF MgrInv, Manager!MgrTypeOK, Manager!Goes
<1>1. /\ m_at'[a] = label
      /\ \A b \in Manager!Agents : b # a => m_at'[b] = m_at[b]
  OBVIOUS
<1>3. Numbered' /\ Roles'
  BY <1>0, <1>1, <1>2 DEF Numbered, Roles
<1>4. InStyle' /\ OwnIds'
  BY <1>0, <1>1, <1>2 DEF InStyle, OwnIds
<1>5. Manager!NobodyForgotten'
  BY <1>0, <1>1, <1>2 DEF Manager!NobodyForgotten
<1>. QED BY <1>3, <1>4, <1>5 DEF Manager!NamesDiffer

LEMMA MgrTypes == MgrInv /\ [Manager!Next]_(Manager!mgrVars) => Manager!MgrTypeOK'
<1> SUFFICES ASSUME MgrInv, [Manager!Next]_(Manager!mgrVars) PROVE Manager!MgrTypeOK'
  OBVIOUS
<1> USE DEF MgrInv, Manager!NamesDiffer, Manager!MgrTypeOK, Manager!Goes, Manager!Agents, Manager!Ids, Manager!Joining, Manager!Starting, Manager!locals
<1>1. ASSUME NEW a \in Manager!Agents, NEW o \in Objects, Manager!StartCall(a, o) PROVE Manager!MgrTypeOK'
  BY <1>1 DEF Manager!StartCall
<1>2. ASSUME NEW a \in Manager!Agents, Manager!SetStarted(a) PROVE Manager!MgrTypeOK'
  BY <1>2 DEF Manager!SetStarted
<1>3. ASSUME NEW a \in Manager!Agents, Manager!Create(a) PROVE Manager!MgrTypeOK'
  <2>1. PICK r \in Manager!Ids : r = created + 1 /\ r \in Manager!Agents /\ r \in 0..MaxRuns
    BY <1>3 DEF Manager!Create
  <2>2. /\ created' = r /\ runs' = [runs EXCEPT ![r] = m_object[a]]
        /\ m_threads' = m_threads \cup {r} /\ id' = [id EXCEPT ![a] = r]
        /\ m_at' = [m_at EXCEPT ![a] = "assign", ![r] = "run"]
        /\ UNCHANGED <<m_started, thread_id, mutex, m_object, style>>
        /\ m_at[a] = "create"
    BY <1>3, <2>1 DEF Manager!Create
  <2>3. m_object[a] \in Objects \cup {Null} OBVIOUS
  <2> QED BY <2>1, <2>2, <2>3
<1>4. ASSUME NEW a \in Manager!Agents, Manager!AssignId(a) PROVE Manager!MgrTypeOK'
  BY <1>4 DEF Manager!AssignId, Manager!Home
<1>5. ASSUME NEW c \in Clients, NEW o \in Objects, Manager!Terminate(c, o) \/ Manager!JoinCall(c, o) PROVE Manager!MgrTypeOK'
  BY <1>5 DEF Manager!Terminate, Manager!JoinCall
<1>6. ASSUME NEW c \in Clients, Manager!JoinAllCall(c) \/ Manager!Joins(c) PROVE Manager!MgrTypeOK'
  BY <1>6 DEF Manager!JoinAllCall, Manager!Joins, Manager!Join, Manager!Joined, Manager!JoinAll, Manager!JoinedAll
<1>7. ASSUME NEW r \in Manager!Ids, Manager!RunEnds(r) PROVE Manager!MgrTypeOK'
  BY <1>7 DEF Manager!RunEnds
<1>8. CASE UNCHANGED Manager!mgrVars
  BY <1>8 DEF Manager!mgrVars
<1>. QED BY <1>1, <1>2, <1>3, <1>4, <1>5, <1>6, <1>7, <1>8 DEF Manager!Next, Manager!Start

LEMMA MgrStep == MgrInv /\ [Manager!Next]_(Manager!mgrVars) => MgrInv'
<1> SUFFICES ASSUME MgrInv, [Manager!Next]_(Manager!mgrVars) PROVE MgrInv'
  OBVIOUS
<1>0. Manager!MgrTypeOK' /\ (\A c \in Clients : c \in Manager!Agents) /\ (\A r \in Manager!Ids : r \in Manager!Agents)
  BY MgrTypes DEF Manager!Agents
<1>00. \A c \in Clients, r \in Manager!Ids : c # r
  BY DEF MgrInv, Manager!NamesDiffer, Manager!Ids
<1>1. ASSUME NEW a \in Manager!Agents, NEW o \in Objects, Manager!StartCall(a, o) PROVE MgrInv'
  BY <1>0, <1>1, StepAside DEF Manager!StartCall, Manager!Home
<1>2. ASSUME NEW a \in Manager!Agents, Manager!SetStarted(a) PROVE MgrInv'
  BY <1>0, <1>2, StepAside DEF Manager!SetStarted, Manager!locals
<1>3. ASSUME NEW a \in Manager!Agents, Manager!Create(a) PROVE MgrInv'
  <2> DEFINE r == created + 1
  <2>1. r \in Manager!Ids /\ m_at[r] = "none" /\ m_at[a] = "create" /\ a # r
    BY <1>3 DEF Manager!Create, MgrInv, Manager!MgrTypeOK, Manager!NamesDiffer, Numbered, Manager!Ids
  <2>2. /\ m_at'[a] = "assign" /\ m_at'[r] = "run"
        /\ \A b \in Manager!Agents : b # a /\ b # r => m_at'[b] = m_at[b]
    BY <1>0, <1>3, <2>1 DEF Manager!Create, MgrInv, Manager!MgrTypeOK
  <2>3. /\ m_threads' = m_threads \cup {r} /\ created' = r /\ style' = style
        /\ \A b \in Manager!Agents : b # a => id'[b] = id[b]
    BY <1>3 DEF Manager!Create, MgrInv, Manager!MgrTypeOK
  <2> HIDE DEF r
  <2>4. Numbered'
    <3>1. \A q \in Manager!Ids : (q <= r) = (q = r \/ q <= created)
      BY <2>1 DEF Manager!Ids, MgrInv, Manager!MgrTypeOK, Manager!NamesDiffer, r
    <3>. QED BY <1>0, <2>1, <2>2, <2>3, <3>1 DEF Numbered, MgrInv
  <2>5. Roles' /\ InStyle' /\ OwnIds'
    BY <1>0, <1>00, <2>1, <2>2, <2>3 DEF MgrInv, Roles, InStyle, OwnIds
  <2>6. Manager!NobodyForgotten'
    BY <1>0, <1>00, <2>1, <2>2, <2>3 DEF MgrInv, Manager!NobodyForgotten
  <2>. QED BY <1>0, <2>4, <2>5, <2>6 DEF MgrInv, Manager!NamesDiffer
<1>4. ASSUME NEW a \in Manager!Agents, Manager!AssignId(a) PROVE MgrInv'
  BY <1>0, <1>4, StepAside DEF Manager!AssignId, Manager!Home, Manager!locals, Manager!Agents
<1>5. ASSUME NEW c \in Clients, NEW o \in Objects, Manager!Terminate(c, o) PROVE MgrInv'
  BY <1>0, <1>5 DEF Manager!Terminate, Manager!locals, MgrInv, Manager!NamesDiffer, Numbered, InStyle, OwnIds, Roles,
                    Manager!NobodyForgotten
<1>6. ASSUME NEW c \in Clients, NEW o \in Objects, Manager!JoinCall(c, o) PROVE MgrInv'
  <2>1. /\ m_at'[c] = "join" /\ id'[c] = thread_id[o] /\ thread_id[o] \in m_threads /\ style = "each"
        /\ \A b \in Manager!Agents : b # c => m_at'[b] = m_at[b] /\ id'[b] = id[b]
        /\ \A d \in Clients : m_at[d] \in {"join", "joining"} => id[d] # thread_id[o]
        /\ UNCHANGED <<created, m_threads, style>> /\ m_at[c] = "idle"
    BY <1>0, <1>6 DEF Manager!JoinCall, Manager!Goes, MgrInv, Manager!MgrTypeOK
  <2>2. Numbered' /\ Roles' /\ InStyle'
    BY <1>0, <1>00, <2>1 DEF MgrInv, Numbered, Roles, InStyle
  <2>3. OwnIds' /\ Manager!NobodyForgotten'
    BY <1>0, <1>00, <2>1 DEF MgrInv, OwnIds, Manager!NobodyForgotten
  <2>. QED BY <1>0, <2>2, <2>3 DEF MgrInv, Manager!NamesDiffer
<1>7. ASSUME NEW c \in Clients, Manager!Join(c) PROVE MgrInv'
  BY <1>0, <1>7, StepAside DEF Manager!Join, Manager!locals
<1>8. ASSUME NEW c \in Clients, Manager!Joined(c) PROVE MgrInv'
  <2>1. /\ m_at'[c] = "idle" /\ m_at[c] = "joining" /\ m_at[id[c]] = "exit"
        /\ \A b \in Manager!Agents : b # c => m_at'[b] = m_at[b]
        /\ m_threads' = m_threads \ {id[c]} /\ UNCHANGED <<created, id, style>>
    BY <1>0, <1>8 DEF Manager!Joined, Manager!Goes, Manager!locals, MgrInv, Manager!MgrTypeOK
  <2>2. Numbered' /\ Roles' /\ InStyle' /\ OwnIds'
    BY <1>0, <1>00, <2>1 DEF MgrInv, Numbered, Roles, InStyle, OwnIds
  <2>3. Manager!NobodyForgotten'
    BY <1>0, <1>00, <2>1 DEF MgrInv, OwnIds, Manager!NobodyForgotten
  <2>. QED BY <1>0, <2>2, <2>3 DEF MgrInv, Manager!NamesDiffer
<1>9. ASSUME NEW c \in Clients, Manager!JoinAllCall(c) PROVE MgrInv'
  BY <1>0, <1>9, StepAside DEF Manager!JoinAllCall, Manager!locals
<1>10. ASSUME NEW c \in Clients, Manager!JoinAll(c) PROVE MgrInv'
  <2>1. style = "all"
    BY <1>10 DEF Manager!JoinAll, MgrInv, InStyle
  <2>. QED BY <1>0, <1>10, <2>1, StepAside DEF Manager!JoinAll, Manager!locals
<1>11. ASSUME NEW c \in Clients, Manager!JoinedAll(c) PROVE MgrInv'
  <2>1. style = "all" /\ (\A d \in Clients : m_at[d] \notin {"join", "joining"})
    BY <1>11 DEF Manager!JoinedAll, MgrInv, InStyle
  <2>2. /\ m_at'[c] = "idle" /\ m_at[c] = "joiningAll"
        /\ \A b \in Manager!Agents : b # c => m_at'[b] = m_at[b]
        /\ \A r \in m_threads : m_at[r] = "exit"
        /\ m_threads' = {} /\ UNCHANGED <<created, id, style>>
    BY <1>0, <1>11 DEF Manager!JoinedAll, Manager!Goes, Manager!locals, MgrInv, Manager!MgrTypeOK
  <2>3. Numbered' /\ Roles' /\ InStyle' /\ OwnIds'
    BY <1>0, <1>00, <2>1, <2>2 DEF MgrInv, Numbered, Roles, InStyle, OwnIds
  <2>4. Manager!NobodyForgotten'
    BY <1>0, <1>00, <2>1, <2>2 DEF MgrInv, Manager!NobodyForgotten
  <2>. QED BY <1>0, <2>3, <2>4 DEF MgrInv, Manager!NamesDiffer
<1>12. ASSUME NEW r \in Manager!Ids, Manager!RunEnds(r) PROVE MgrInv'
  BY <1>0, <1>12, StepAside DEF Manager!RunEnds, Manager!locals
<1>13. CASE UNCHANGED Manager!mgrVars
  BY <1>0, <1>13 DEF Manager!mgrVars, Manager!locals, MgrInv, Manager!NamesDiffer, Numbered, InStyle, OwnIds, Roles,
                     Manager!NobodyForgotten
<1>. QED BY <1>1, <1>2, <1>3, <1>4, <1>5, <1>6, <1>7, <1>8, <1>9, <1>10, <1>11, <1>12, <1>13
         DEF Manager!Next, Manager!Start, Manager!Joins

-----------------------------------------------------------------------------
(* The event.                                                              *)

\* A Set is due only while the signal is on and somebody is awake.
Awake == due => e_signal /\ notified # {}

\* What a step of the event does to it: whoever goes, goes on the signal.
EventStep == Awake' /\ \A w \in Users : Event!Leaves(w) => e_signal

LEMMA EventSteps ==
  ASSUME Awake, Event!Next PROVE EventStep
<1> USE DEF Awake, Event!Leaves, EventStep
<1>1. ASSUME NEW w \in Users, Event!Wait(w) PROVE EventStep
  <2>1. CASE Event!LetGo(w) BY <1>1, <2>1 DEF Event!Wait, Event!LetGo
  <2>2. CASE Event!Sleep(w) BY <1>1, <2>2 DEF Event!Wait, Event!Sleep
  <2> QED BY <1>1, <2>1, <2>2 DEF Event!Wait
<1>2. ASSUME NEW w \in Users, Event!Wake(w) PROVE EventStep
  <2>1. CASE Event!LetGo(w) BY <1>2, <2>1 DEF Event!Wake, Event!LetGo
  <2>2. CASE Event!Sleep(w) BY <1>2, <2>2 DEF Event!Wake, Event!Sleep
  <2> QED BY <1>2, <2>1, <2>2 DEF Event!Wake
<1>3. ASSUME NEW w \in Users, Event!SpuriousWakeup(w) PROVE EventStep
  BY <1>3 DEF Event!SpuriousWakeup
<1>4. CASE Event!Set BY <1>4 DEF Event!Set
<1>5. CASE Event!Reset BY <1>5 DEF Event!Reset
<1> QED BY <1>1, <1>2, <1>3, <1>4, <1>5 DEF Event!Next

(***************************************************************************)
(* However often somebody is woken, nobody leaves Wait without the signal, *)
(* and while a Set is due somebody is awake to take it, for any number of  *)
(* waiters (EventSync.cpp:5-25).                                           *)
(***************************************************************************)
THEOREM ProgramWaitsForSignal == ThreadsSpec => WaitsForSignal
<1>1. ThreadsInit => Awake
  BY DEF ThreadsInit, Event!Init, Awake
<1>2. Awake /\ [ThreadsNext]_allVars => Awake'
  <2> SUFFICES ASSUME Awake, [ThreadsNext]_allVars PROVE Awake'
    OBVIOUS
  <2>1. CASE UNCHANGED evt BY <2>1 DEF evt, Awake
  <2>2. CASE Event!Next BY <2>2, EventSteps DEF EventStep
  <2> QED BY <2>1, <2>2 DEF ThreadsNext, allVars
<1>3. Awake /\ [ThreadsNext]_allVars
        => [\A w \in Users : Event!Leaves(w) => e_signal]_(Event!eventVars)
  <2> SUFFICES ASSUME Awake, [ThreadsNext]_allVars
      PROVE  [\A w \in Users : Event!Leaves(w) => e_signal]_(Event!eventVars)
    OBVIOUS
  <2>1. CASE UNCHANGED evt BY <2>1 DEF evt, Event!eventVars
  <2>2. CASE Event!Next BY <2>2, EventSteps DEF EventStep
  <2> QED BY <2>1, <2>2 DEF ThreadsNext, allVars
<1>4. Awake => (due => e_signal /\ notified # {})
  BY DEF Awake
<1> QED BY <1>1, <1>2, <1>3, <1>4, PTL DEF ThreadsSpec, WaitsForSignal, Event!WaitsForSignal

-----------------------------------------------------------------------------
(* The other parts, put together with their theorems as in MCThreads.      *)
LProofs == INSTANCE Log_proofs
             WITH Writers <- Clients, now <- clock, at <- l_at, pc <- s_pc
PProofs == INSTANCE AtomicSharedPtr_proofs WITH Threads <- Clients

\* Each part begins and goes on as the one its theorems are about.
LEMMA SameSingleton ==
  /\ Dynamic!Init => LProofs!Dynamic!Init
  /\ Dynamic!Next => LProofs!Dynamic!Next
  /\ UNCHANGED single => UNCHANGED LProofs!Dynamic!singletonVars
  /\ LProofs!Dynamic!OneObject => OneObject
<1>1. Dynamic!Init => LProofs!Dynamic!Init
  BY Zenon DEF Dynamic!Init, LProofs!Dynamic!Init
<1>2. Dynamic!Next => LProofs!Dynamic!Next
  BY Zenon
     DEF Dynamic!Next, LProofs!Dynamic!Next, Dynamic!GetInstance, LProofs!Dynamic!GetInstance,
         Dynamic!Test, LProofs!Dynamic!Test, Dynamic!CallOnce, LProofs!Dynamic!CallOnce,
         Dynamic!Build, LProofs!Dynamic!Build, Dynamic!Publish, LProofs!Dynamic!Publish,
         Dynamic!AtExit, LProofs!Dynamic!AtExit, Dynamic!Return, LProofs!Dynamic!Return,
         Dynamic!Exit, LProofs!Dynamic!Exit, Dynamic!Delete, LProofs!Dynamic!Delete,
         Dynamic!Clear, LProofs!Dynamic!Clear, Dynamic!Goes, LProofs!Dynamic!Goes,
         Dynamic!Coming, LProofs!Dynamic!Coming,
         Dynamic!Cardinality, LProofs!Dynamic!Cardinality
<1>3. UNCHANGED single => UNCHANGED LProofs!Dynamic!singletonVars
  BY DEF single, LProofs!Dynamic!singletonVars
<1>4. LProofs!Dynamic!OneObject => OneObject
  BY Zenon DEF OneObject, Dynamic!OneObject, LProofs!Dynamic!OneObject
<1>. QED BY <1>1, <1>2, <1>3, <1>4

LEMMA SameLog ==
  /\ Logger!Init => LProofs!Init
  /\ Logger!Next => LProofs!Next
  /\ UNCHANGED logger => UNCHANGED LProofs!vars
  /\ LProofs!LinesInOrder => LinesInOrder
<1>1. Logger!Init => LProofs!Init
  BY Zenon DEF Logger!Init, LProofs!Init, Logger!Closed, LProofs!Closed
<1>2. Logger!Next => LProofs!Next
  BY Zenon
     DEF Logger!Next, LProofs!Next, Logger!Write, LProofs!Write, Logger!Tick, LProofs!Tick,
         Logger!Lock, LProofs!Lock, Logger!SetNow, LProofs!SetNow,
         Logger!Open, LProofs!Open, Logger!Put, LProofs!Put, Logger!Goes, LProofs!Goes,
         Logger!Closed, LProofs!Closed, Logger!FileName, LProofs!FileName,
         Logger!Day, LProofs!Day, Logger!Hour, LProofs!Hour
<1>3. UNCHANGED logger => UNCHANGED LProofs!vars
  BY DEF logger, LProofs!vars
<1>4. LProofs!LinesInOrder => LinesInOrder
  BY DEF LinesInOrder, Logger!LinesInOrder, LProofs!LinesInOrder,
         Logger!InOrder, LProofs!InOrder, Logger!FileName, LProofs!FileName,
         Logger!Day, LProofs!Day, Logger!Hour, LProofs!Hour
<1>. QED BY <1>1, <1>2, <1>3, <1>4

LEMMA SamePointer ==
  /\ Pointer!Init => PProofs!Init
  /\ Pointer!Next => PProofs!Next
  /\ UNCHANGED pointer => UNCHANGED PProofs!ptrVars
  /\ PProofs!NamesDiffer
<1>1. Pointer!Init => PProofs!Init
  BY Zenon DEF Pointer!Init, PProofs!Init, Pointer!Nothing, PProofs!Nothing, Pointer!None, PProofs!None
<1>2. Pointer!Next => PProofs!Next
  BY Zenon
     DEF Pointer!Next, PProofs!Next,
         Pointer!Call, PProofs!Call, Pointer!Store, PProofs!Store, Pointer!Load, PProofs!Load,
         Pointer!Exchange, PProofs!Exchange, Pointer!CompareExchange, PProofs!CompareExchange,
         Pointer!Step, PProofs!Step, Pointer!Lock, PProofs!Lock, Pointer!Unlock,
         PProofs!Unlock, Pointer!Read, PProofs!Read, Pointer!Share, PProofs!Share,
         Pointer!Assign, PProofs!Assign, Pointer!Compare, PProofs!Compare, Pointer!Expect,
         PProofs!Expect, Pointer!Return, PProofs!Return, Pointer!WeakStore, PProofs!WeakStore,
         Pointer!WeakLock, PProofs!WeakLock, Pointer!LetGo, PProofs!LetGo, Pointer!At,
         PProofs!At, Pointer!Done, PProofs!Done, Pointer!Counted, PProofs!Counted,
         Pointer!Fresh, PProofs!Fresh, Pointer!Nothing, PProofs!Nothing, Pointer!None,
         PProofs!None, Pointer!locals, PProofs!locals, Pointer!StoreSteps, PProofs!StoreSteps,
         Pointer!LoadSteps, PProofs!LoadSteps, Pointer!ExchangeSteps, PProofs!ExchangeSteps,
         Pointer!CompareSteps, PProofs!CompareSteps, Pointer!Cardinality, PProofs!Cardinality
<1>3. UNCHANGED pointer => UNCHANGED PProofs!ptrVars
  BY DEF pointer, PProofs!ptrVars, PProofs!locals
<1>4. PProofs!NamesDiffer
  <2>1. PProofs!IsFiniteSet(Clients)
    BY NamesAssumption, Zenon DEF IsFiniteSet, PProofs!IsFiniteSet
  <2>. QED BY <2>1, NamesAssumption DEF PProofs!NamesDiffer, Manager!NamesDiffer
<1>. QED BY <1>1, <1>2, <1>3, <1>4

\* The counts and the register are those of the part.
LEMMA SameOwners == PProofs!OwnersAreCounted => OwnersAreCounted
<1>1. (\A o \in Objects : count[o] = PProofs!Owners(o)) => \A o \in Objects : count[o] = Pointer!Owners(o)
  BY Zenon DEF Pointer!Owners, PProofs!Owners, Pointer!Holding, PProofs!Holding,
               Pointer!Cardinality, PProofs!Cardinality
<1>2. [\A o \in used : count[o] = 0 => count'[o] = 0]_(PProofs!ptrVars)
        => [\A o \in used : count[o] = 0 => count'[o] = 0]_(Pointer!ptrVars)
  BY DEF PProofs!ptrVars, PProofs!locals, Pointer!ptrVars, Pointer!locals
<1>. QED BY <1>1, <1>2, PTL DEF OwnersAreCounted, Pointer!OwnersAreCounted, PProofs!OwnersAreCounted

LEMMA SameRegister == PProofs!ImplementsRegister => ImplementsRegister
<1>1. PProofs!value = Pointer!value /\ PProofs!view = Pointer!view
  BY Zenon DEF PProofs!value, PProofs!view, PProofs!At, Pointer!value, Pointer!view, Pointer!At
<1>2. PProofs!value' = Pointer!value' /\ PProofs!view' = Pointer!view'
  BY Zenon DEF PProofs!value, PProofs!view, PProofs!At, Pointer!value, Pointer!view, Pointer!At
<1>3. PProofs!Register!Init => Pointer!Register!Init
  BY <1>1, Zenon DEF PProofs!Register!Init, Pointer!Register!Init
<1>4. [PProofs!Register!Next]_<<PProofs!value, PProofs!view>>
        => [Pointer!Register!Next]_<<Pointer!value, Pointer!view>>
  BY <1>1, <1>2, Zenon
     DEF PProofs!Register!Next, Pointer!Register!Next, PProofs!Register!Store, Pointer!Register!Store,
         PProofs!Register!Load, Pointer!Register!Load, PProofs!Register!Learns, Pointer!Register!Learns,
         PProofs!Register!Exchange, Pointer!Register!Exchange,
         PProofs!Register!CompareExchange, Pointer!Register!CompareExchange
<1>. QED BY <1>3, <1>4, PTL DEF ImplementsRegister, Pointer!ImplementsRegister, PProofs!ImplementsRegister,
               PProofs!Register!Spec, Pointer!Register!Spec

\* One program behaves like each of its parts.
LEMMA ProgramIsItsParts == ThreadsSpec => Manager!Spec /\ LProofs!Dynamic!Spec /\ LProofs!Spec /\ PProofs!Spec
<1>1. ThreadsInit => Manager!Init /\ LProofs!Dynamic!Init /\ LProofs!Init /\ PProofs!Init
  BY SameSingleton, SameLog, SamePointer DEF ThreadsInit
<1>2. [ThreadsNext]_allVars => [Manager!Next]_(Manager!mgrVars)
  BY Zenon DEF ThreadsNext, allVars, mgr, Manager!mgrVars, Manager!locals
<1>3. [ThreadsNext]_allVars => [LProofs!Dynamic!Next]_(LProofs!Dynamic!singletonVars)
  BY SameSingleton, Zenon DEF ThreadsNext, allVars
<1>4. [ThreadsNext]_allVars => [LProofs!Next]_(LProofs!vars)
  BY SameLog, Zenon DEF ThreadsNext, allVars
<1>5. [ThreadsNext]_allVars => [PProofs!Next]_(PProofs!ptrVars)
  BY SamePointer, Zenon DEF ThreadsNext, allVars
<1>. QED BY <1>1, <1>2, <1>3, <1>4, <1>5, PTL
         DEF ThreadsSpec, Manager!Spec, LProofs!Dynamic!Spec, LProofs!Spec, PProofs!Spec

(***************************************************************************)
(* In a program that does all of this, a thread that runs is in the map of *)
(* the manager and whom Join looks up it finds (ThreadManager.hpp:21-61).  *)
(***************************************************************************)
THEOREM ProgramForgetsNobody == ThreadsSpec => []NobodyForgotten
<1>1. MgrInv => NobodyForgotten
  BY DEF MgrInv, NobodyForgotten
<1>2. Manager!Init => MgrInv
  BY NamesAssumption, MgrInit
<1>. QED BY <1>1, <1>2, MgrStep, ProgramIsItsParts, PTL DEF Manager!Spec

(***************************************************************************)
(* ... its singleton is built once, returned by every call until the end   *)
(* and deleted once (Singleton.hpp:43-62) ...                              *)
(***************************************************************************)
THEOREM ProgramHasOneObject == ThreadsSpec => []OneObject
BY ProgramIsItsParts, SameSingleton, LProofs!OneObjectEver, PTL

(***************************************************************************)
(* ... its log has every line in the file of its day or hour, in the order *)
(* of the times (Log.h:67-103) ...                                         *)
(***************************************************************************)
THEOREM ProgramLogsInOrder == ThreadsSpec => []LinesInOrder
<1>1. Nobody \notin Clients
  BY NamesAssumption DEF Manager!NamesDiffer
<1>2. LProofs!Spec => []LProofs!LinesInOrder
  BY <1>1, LProofs!LogInOrder, PTL
<1>. QED BY <1>2, ProgramIsItsParts, SameLog, PTL

(***************************************************************************)
(* ... the count of every object of its atomic shared pointers is the      *)
(* number of the object's owners, and none is revived                      *)
(* (atomic_shared_ptr.hpp:49-127, atomic_weak_ptr.hpp:75-81) ...           *)
(***************************************************************************)
THEOREM ProgramCountsOwners == ThreadsSpec => OwnersAreCounted
<1>1. PProofs!Spec => PProofs!OwnersAreCounted
  BY SamePointer, PProofs!PointerOwnersAreCounted, PTL
<1>. QED BY <1>1, ProgramIsItsParts, SameOwners, PTL

(***************************************************************************)
(* ... and these pointers are registers that are read and written in one   *)
(* step (atomic_shared_ptr.hpp:80-127).                                    *)
(***************************************************************************)
THEOREM ProgramHasRegisters == ThreadsSpec => ImplementsRegister
<1>1. PProofs!Spec => PProofs!ImplementsRegister
  BY SamePointer, PProofs!PointerImplementsRegister, PTL
<1>. QED BY <1>1, ProgramIsItsParts, SameRegister, PTL
=============================================================================
