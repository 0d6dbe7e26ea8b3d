----------------------------- MODULE MCThreads ------------------------------
(***************************************************************************)
(* What several threads share, in one run: starting and stopping the       *)
(* server, the manager of threads, the event, the singleton, the atomic    *)
(* pointers and the log.  A behaviour uses one of them, the subject, and   *)
(* the others stay as they were created.                                   *)
(***************************************************************************)
EXTENDS IocpServer, FiniteSets

VARIABLES subject,
          m_started, thread_id, runs, created, m_threads, mutex, m_at, m_object, id, style,
          e_signal, asleep, notified, due,
          instance, made, deleted, flag, handlers, ending, s_pc,
          ptr, lock, entry, count, used, weak, mine, strong, sptr, copy, seen, todo,
          cycle, clock, holder, l_at, dt, stream, files, console

mgr == <<m_started, thread_id, runs, created, m_threads, mutex, m_at, m_object, id, style>>
evt == <<e_signal, asleep, notified, due>>
single == <<instance, made, deleted, flag, handlers, ending, s_pc>>
pointer == <<ptr, lock, entry, count, used, weak, mine, strong, sptr, copy, seen, todo>>
logger == <<cycle, clock, holder, l_at, dt, stream, files, console>>
allVars == <<vars, subject, mgr, evt, single, pointer, logger>>

CONSTANTS Clients,         \* threads of the application
          Users, MaxCalls, \* of the singleton; they also wait for the event
          Objects,         \* of the manager and of the atomic pointers
          Null, Nobody,
          MaxRuns,         \* of the manager
          Cycles, HoursPerDay, MinutesPerHour, MaxMinutes, MaxLines   \* of the log

Manager == INSTANCE ThreadManager
             WITH Callers <- Clients, NoObject <- Null,
                  started <- m_started, threads <- m_threads, at <- m_at, object <- m_object
Event == INSTANCE EventSync WITH Waiters <- Users, signal <- e_signal
Dynamic == INSTANCE Singleton WITH pc <- s_pc
Pointer == INSTANCE AtomicSharedPtr WITH Threads <- Clients
Logger == INSTANCE Log
            WITH Writers <- Clients, now <- clock, at <- l_at

\* What the proofs assume of the names and of the threads.
ASSUME NamesAssumption == Manager!NamesDiffer /\ IsFiniteSet(Clients)

ThreadsInit ==
  /\ subject \in {"server", "manager", "event", "singleton", "pointer", "log"}
  /\ Init /\ Manager!Init /\ Event!Init /\ Dynamic!Init /\ Pointer!Init /\ Logger!Init
  /\ subject # "manager" => style = "each"
  /\ subject # "event" => e_signal = FALSE
  /\ subject # "log" => cycle = "MAX"

ThreadsNext ==
  /\ \/ subject = "server" /\ Next /\ UNCHANGED <<mgr, evt, single, pointer, logger>>
     \/ subject = "manager" /\ Manager!Next /\ UNCHANGED <<vars, evt, single, pointer, logger>>
     \/ subject = "event" /\ Event!Next /\ UNCHANGED <<vars, mgr, single, pointer, logger>>
     \/ subject = "singleton" /\ Dynamic!Next /\ UNCHANGED <<vars, mgr, evt, pointer, logger>>
     \/ subject = "pointer" /\ Pointer!Next /\ UNCHANGED <<vars, mgr, evt, single, logger>>
     \/ subject = "log" /\ Logger!Next /\ UNCHANGED <<vars, mgr, evt, single, pointer>>
  /\ UNCHANGED subject

ThreadsSpec == /\ ThreadsInit /\ [][ThreadsNext]_allVars
               /\ Fairness /\ Manager!Fairness /\ Event!Fairness

\* Every thread that was started is joined once, by somebody
\* (ThreadManager.hpp:30-61, Thread.hpp:20-62).
NobodyForgotten == Manager!NobodyForgotten

\* Callers that wait for threads come back: everybody leaves the server's Wait
\* after Terminate, and a join of threads that end ends
\* (IocpServer.cpp:111-144, ThreadManager.hpp:32-61).
WaitersReturn == WaitReturns /\ Manager!JoinsEnd

\* A Set that meets waiters lets one of them go (EventSync.cpp:20-25).
SignalsArrive == Event!SetIsNotLost

\* Nobody leaves Wait without the signal, and while a Set is due somebody is
\* awake to take it (EventSync.cpp:5-18).
WaitsForSignal == Event!WaitsForSignal

\* Whoever calls a singleton first and however the calls overlap, there is
\* one object, deleted once at the end (Singleton.hpp:14-74).
OneObject == Dynamic!OneObject

\* The object of an atomic shared pointer lives exactly as long as somebody
\* owns it (atomic_shared_ptr.hpp, atomic_weak_ptr.hpp).
OwnersAreCounted == Pointer!OwnersAreCounted

\* An atomic shared pointer is a register that is read and written in one
\* step (atomic_shared_ptr.hpp).
ImplementsRegister == Pointer!ImplementsRegister

\* The lines of a file are those of its day or hour, in the order of their
\* times (Log.h:67-103).
LinesInOrder == Logger!LinesInOrder
=============================================================================
