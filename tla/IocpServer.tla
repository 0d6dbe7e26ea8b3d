----------------------------- MODULE IocpServer -----------------------------
(***************************************************************************)
(* Starting and stopping the server: IocpServer.cpp (Start, Wait,          *)
(* Terminate) with the threads it owns (Thread.cpp, WorkerThread.cpp,      *)
(* AutoConnector.cpp), ThreadManager.hpp, which joins them, and            *)
(* EventSync.cpp, which Wait blocks on at last.                            *)
(*                                                                         *)
(* Two threads of the application call it, as TestProject/iocp_test.cpp    *)
(* lets them: `main' starts the server and waits, `stopper' is the thread  *)
(* that ends the program: exit() runs Terminator(), which main registers   *)
(* with atexit, that is Terminate and then Wait.  What a worker does with  *)
(* a packet is NetUnit's business; here it only uses the units for a while.*)
(***************************************************************************)
EXTENDS Integers, Sequences

CONSTANTS N,        \* _worker_thread_count
          MaxWork   \* BOUND: completion packets that arrive in all

ASSUME NAssumption == N \in Nat \ {0}
ASSUME MaxWorkAssumption == MaxWork \in Nat

Workers == 1..N
Connector == N + 1
Threads == 1..(N + 1)
Callers == {"main", "stopper"}

VARIABLES started,   \* per thread: _is_started
          pc,        \* per thread: where its Run is
          queue,     \* the completion port: "null" and "work" packets
          work,      \* packets that have arrived so far
          units,     \* ConnectionManager's storage: "alive" or "destroyed"
          threads,   \* ThreadManager's map of threads not joined yet
          locked,    \* ThreadManager's mutex is held by a caller of JoinAll
          signal,    \* _running._signal
          waiting,   \* callers blocked on _running's condition variable
          at,        \* per caller: where it is
          next       \* the worker Start or TerminateWorkerThread is at

threadVars == <<started, pc>>
mgrVars == <<threads, locked>>
eventVars == <<signal, waiting>>
vars == <<threadVars, queue, work, units, mgrVars, eventVars, at, next>>

\* The threads, the queue and the callers are well formed, and the loop over
\* the workers stays within its bounds.
TypeOK == /\ started \in [Threads -> BOOLEAN]
          /\ pc \in [Threads -> {"none", "check", "blocked", "using", "exit"}]
          /\ queue \in Seq({"null", "work"})
          /\ work \in 0..MaxWork
          /\ units \in {"alive", "destroyed"}
          /\ threads \in SUBSET Threads
          /\ locked \in BOOLEAN
          /\ signal \in BOOLEAN
          /\ waiting \in SUBSET Callers
          /\ at \in [Callers -> {"start", "off", "flag", "post", "destroy", "set",
                                 "joinall", "joining", "event", "asleep", "done"}]
          /\ next \in 1..(N + 1)

\* InitIocp, InitAccepts and InitConnects have run.
Init == /\ started = [t \in Threads |-> FALSE]
        /\ pc = [t \in Threads |-> "none"]
        /\ queue = << >>
        /\ work = 0
        /\ units = "alive"
        /\ threads = {}
        /\ locked = FALSE
        /\ signal = FALSE
        /\ waiting = {}
        /\ at = [c \in Callers |-> IF c = "main" THEN "start" ELSE "off"]
        /\ next = 1

CallerAt(c, label) == at[c] = label
CallerGoes(c, label) == at' = [at EXCEPT ![c] = label]

-----------------------------------------------------------------------------
(* IocpServer::Start: BaseThread::Start of each worker, then of the        *)
(* AutoConnector; ThreadManager::Create runs Run in a new thread.          *)
StartThread ==
  /\ CallerAt("main", "start")
  /\ ~locked
  /\ started' = [started EXCEPT ![next] = TRUE]
  /\ pc' = [pc EXCEPT ![next] = "check"]
  /\ threads' = threads \cup {next}
  /\ IF next = Connector
     THEN next' = 1 /\ CallerGoes("main", "joinall")
     ELSE next' = next + 1 /\ UNCHANGED at
  /\ UNCHANGED <<queue, work, units, locked, eventVars>>

-----------------------------------------------------------------------------
(* IocpServer::Terminate, called once the server runs.                     *)

StopConnect ==
  /\ CallerAt("stopper", "off")
  /\ ~CallerAt("main", "start")
  /\ started' = [started EXCEPT ![Connector] = FALSE]
  /\ CallerGoes("stopper", "flag")
  /\ UNCHANGED <<pc, queue, work, units, mgrVars, eventVars, next>>

\* TerminateWorkerThread, worker by worker: first its flag ...
ClearFlag ==
  /\ CallerAt("stopper", "flag")
  /\ started' = [started EXCEPT ![next] = FALSE]
  /\ CallerGoes("stopper", "post")
  /\ UNCHANGED <<pc, queue, work, units, mgrVars, eventVars, next>>

\* Mutant: the flag is cleared and nothing is posted.
PostNothing ==
  /\ CallerAt("stopper", "post")
  /\ next' = next + 1
  /\ CallerGoes("stopper", IF next = N THEN "destroy" ELSE "flag")
  /\ UNCHANGED <<threadVars, queue, work, units, mgrVars, eventVars>>

\* ... then a packet with key 0 and no overlapped.
PostNull ==
  /\ CallerAt("stopper", "post")
  /\ queue' = Append(queue, "null")
  /\ next' = next + 1
  /\ CallerGoes("stopper", IF next = N THEN "destroy" ELSE "flag")
  /\ UNCHANGED <<threadVars, work, units, mgrVars, eventVars>>

\* ConnectionManager::Destroy.
Destroy ==
  /\ CallerAt("stopper", "destroy")
  /\ units' = "destroyed"
  /\ CallerGoes("stopper", "set")
  /\ UNCHANGED <<threadVars, queue, work, mgrVars, eventVars, next>>

\* EventSync::Set: notify_one wakes one of the callers that sleep.
SetRunning ==
  /\ CallerAt("stopper", "set")
  /\ signal' = TRUE
  /\ IF waiting = {} THEN UNCHANGED waiting
                     ELSE \E c \in waiting : waiting' = waiting \ {c}
  /\ CallerGoes("stopper", "joinall")
  /\ UNCHANGED <<threadVars, queue, work, units, mgrVars, next>>

-----------------------------------------------------------------------------
(* IocpServer::Wait: JoinAll, which keeps the mutex, and EventSync::Wait.  *)

\* Mutant: JoinAll takes the threads out of the map and releases the mutex
\* before it joins them.
JoinAllTakes(c) ==
  /\ CallerAt(c, "joinall")
  /\ ~locked
  /\ threads' = {}
  /\ CallerGoes(c, "event")
  /\ UNCHANGED <<threadVars, queue, work, units, locked, eventVars, next>>

JoinAll(c) ==
  /\ CallerAt(c, "joinall")
  /\ ~locked
  /\ locked' = TRUE
  /\ CallerGoes(c, "joining")
  /\ UNCHANGED <<threadVars, queue, work, units, threads, eventVars, next>>

\* join() returns for a thread that left Run; the joins come in map order,
\* and all of them have to return before the map is cleared.
Joined(c) ==
  /\ CallerAt(c, "joining")
  /\ \A t \in threads : pc[t] = "exit"
  /\ threads' = {}
  /\ locked' = FALSE
  /\ CallerGoes(c, "event")
  /\ UNCHANGED <<threadVars, queue, work, units, eventVars, next>>

WaitRunning(c) ==
  /\ CallerAt(c, "event")
  /\ IF signal THEN CallerGoes(c, "done") /\ UNCHANGED waiting
               ELSE CallerGoes(c, "asleep") /\ waiting' = waiting \cup {c}
  /\ UNCHANGED <<threadVars, queue, work, units, mgrVars, signal, next>>

\* Woken by notify_one, the caller evaluates the predicate again.
Wake(c) ==
  /\ CallerAt(c, "asleep")
  /\ c \notin waiting
  /\ CallerGoes(c, "event")
  /\ UNCHANGED <<threadVars, queue, work, units, mgrVars, eventVars, next>>

-----------------------------------------------------------------------------
(* WorkerThread::Run.                                                      *)

\* while (_is_started): GetQueuedCompletionStatus, or out of the loop.
Loop(w) ==
  /\ pc[w] = "check"
  /\ pc' = [pc EXCEPT ![w] = IF started[w] THEN "blocked" ELSE "exit"]
  /\ UNCHANGED <<started, queue, work, units, mgrVars, eventVars, at, next>>

\* A packet without an overlapped only continues the loop.
Dequeue(w) ==
  /\ pc[w] = "blocked"
  /\ queue # << >>
  /\ queue' = Tail(queue)
  /\ pc' = [pc EXCEPT ![w] = IF Head(queue) = "null" THEN "check" ELSE "using"]
  /\ UNCHANGED <<started, work, units, mgrVars, eventVars, at, next>>

HandlerEnds(w) ==
  /\ pc[w] = "using"
  /\ pc' = [pc EXCEPT ![w] = "check"]
  /\ UNCHANGED <<started, queue, work, units, mgrVars, eventVars, at, next>>

(* AutoConnector::Run: a pass over the list of units, then a short sleep.  *)
Poll ==
  /\ pc[Connector] = "check"
  /\ pc' = [pc EXCEPT ![Connector] = IF started[Connector] THEN "using" ELSE "exit"]
  /\ UNCHANGED <<started, queue, work, units, mgrVars, eventVars, at, next>>

PollEnds ==
  /\ pc[Connector] = "using"
  /\ pc' = [pc EXCEPT ![Connector] = "check"]
  /\ UNCHANGED <<started, queue, work, units, mgrVars, eventVars, at, next>>

\* The kernel queues the completion of some unit's operation.
Arrive ==
  /\ work < MaxWork
  /\ queue' = Append(queue, "work")
  /\ work' = work + 1
  /\ UNCHANGED <<threadVars, units, mgrVars, eventVars, at, next>>

-----------------------------------------------------------------------------
Terminate == StopConnect \/ ClearFlag \/ PostNull \/ Destroy \/ SetRunning
Wait(c) == JoinAll(c) \/ Joined(c) \/ WaitRunning(c) \/ Wake(c)
Worker(w) == Loop(w) \/ Dequeue(w) \/ HandlerEnds(w)
AutoConnector == Poll \/ PollEnds

Next == \/ StartThread
        \/ Terminate
        \/ \E c \in Callers : Wait(c)
        \/ \E w \in Workers : Worker(w)
        \/ AutoConnector
        \/ Arrive

Spec == Init /\ [][Next]_vars

(***************************************************************************)
(* Every thread runs on.  Nobody has to call Terminate: only a Terminate   *)
(* that has begun goes on to its end.                                      *)
(***************************************************************************)
Fairness == /\ WF_vars(ClearFlag \/ PostNull \/ Destroy \/ SetRunning)
            /\ \A c \in Callers : WF_vars(Wait(c))
            /\ \A w \in Workers : WF_vars(Worker(w))
            /\ WF_vars(AutoConnector)

FairSpec == Spec /\ Fairness

-----------------------------------------------------------------------------
(***************************************************************************)
(* Whoever returns from Wait finds every thread of the server ended and    *)
(* Terminate past its end, even when two threads wait at once: the second  *)
(* one is held up by ThreadManager's mutex (IocpServer.cpp:50-67,          *)
(* ThreadManager.hpp:46-61).                                               *)
(***************************************************************************)
WaitIsComplete == \A c \in Callers :
  CallerAt(c, "done") => /\ \A t \in Threads : pc[t] = "exit"
                         /\ units = "destroyed"

(***************************************************************************)
(* IocpServer.cpp:59 and 119: Terminate makes the running threads end, a   *)
(* packet for each frees it from GetQueuedCompletionStatus.                *)
(***************************************************************************)
TerminateEndsThreads ==
  CallerAt("stopper", "flag") ~> \A t \in Threads : pc[t] = "exit"

(***************************************************************************)
(* IocpServer.cpp:52 and iocp_test.cpp: both calls of Wait return.         *)
(***************************************************************************)
WaitReturns == CallerAt("stopper", "flag") ~> \A c \in Callers : CallerAt(c, "done")

=============================================================================
