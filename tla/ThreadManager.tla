--------------------------- MODULE ThreadManager ---------------------------
(***************************************************************************)
(* Base: BaseThread (Thread.cpp), whose Start runs Run in a new thread,    *)
(* and ThreadManager.hpp, which owns the std::thread objects until they    *)
(* are joined.  Destroying one that was not joined ends the program.       *)
(*                                                                         *)
(* Run is a loop while (_is_started), as Thread.h:27 asks for; in it a     *)
(* thread may start further objects.  Who joins does it as the programs of *)
(* the repository do: each object by its own Join (thread_test.cpp,        *)
(* time_test.cpp), or all of them by JoinAll (IocpServer::Wait).           *)
(***************************************************************************)
EXTENDS Integers, FiniteSets

CONSTANTS Callers,    \* threads of the application
          Objects,    \* objects derived from BaseThread
          NoObject,
          Nobody,
          MaxRuns     \* BOUND: threads created in all

\* The names of different things differ.
NamesDiffer == /\ MaxRuns \in Nat
               /\ NoObject \notin Objects
               /\ Nobody \notin Callers \cup (0..MaxRuns)
               /\ Callers \cap (0..MaxRuns) = {}

Ids == 1..MaxRuns     \* std::thread::id, 0 for the default one
Agents == Callers \cup Ids

VARIABLES started,    \* _is_started of each object
          thread_id,  \* _thread_id of each object
          runs,       \* the object each thread runs
          created,    \* threads created so far
          threads,    \* the keys of _threads
          mutex,      \* who has _mutex
          at,         \* where each agent is
          object,     \* local of each agent: the object of its call
          id,         \* local of each agent: the thread id in its call
          style       \* how this program joins: "each" or "all"

locals == <<object, id>>
mgrVars == <<started, thread_id, runs, created, threads, mutex, at, locals, style>>

Joining == {"joining", "joiningAll"}
Starting == {"start", "create"}

MgrTypeOK == /\ started \in [Objects -> BOOLEAN]
             /\ thread_id \in [Objects -> 0..MaxRuns]
             /\ runs \in [Ids -> Objects \cup {NoObject}]
             /\ created \in 0..MaxRuns
             /\ threads \in SUBSET Ids
             /\ mutex \in Agents \cup {Nobody}
             /\ at \in [Agents -> {"idle", "none", "run", "exit", "assign", "join", "joinAll"}
                                    \cup Starting \cup Joining]
             /\ object \in [Agents -> Objects \cup {NoObject}]
             /\ id \in [Agents -> 0..MaxRuns]
             /\ style \in {"each", "all"}

Init == /\ started = [o \in Objects |-> FALSE]
        /\ thread_id = [o \in Objects |-> 0]
        /\ runs = [r \in Ids |-> NoObject]
        /\ created = 0
        /\ threads = {}
        /\ mutex = Nobody
        /\ at = [a \in Agents |-> IF a \in Callers THEN "idle" ELSE "none"]
        /\ object = [a \in Agents |-> NoObject]
        /\ id = [a \in Agents |-> 0]
        /\ style \in {"each", "all"}

Goes(a, label) == at' = [at EXCEPT ![a] = label]
Home(a) == IF a \in Callers THEN "idle" ELSE "run"

-----------------------------------------------------------------------------
(* BaseThread::Start.  Testing the flag and setting it are two steps.      *)

\* Calls of Start that still have to create their thread.
Promised == {a \in Agents : at[a] \in Starting}

StartCall(a, o) ==
  /\ at[a] = Home(a)
  /\ created + Cardinality(Promised) < MaxRuns
  /\ ~started[o]
  /\ Goes(a, "start")
  /\ object' = [object EXCEPT ![a] = o]
  /\ UNCHANGED <<started, thread_id, runs, created, threads, mutex, id, style>>

SetStarted(a) ==
  /\ at[a] = "start"
  /\ started' = [started EXCEPT ![object[a]] = TRUE]
  /\ Goes(a, "create")
  /\ UNCHANGED <<thread_id, runs, created, threads, mutex, locals, style>>

\* ThreadManager::Create: the new thread runs before it is in the map, but
\* nobody can look into the map meanwhile.
Create(a) ==
  /\ at[a] = "create"
  /\ mutex = Nobody
  /\ created < MaxRuns
  /\ created' = created + 1
  /\ runs' = [runs EXCEPT ![created + 1] = object[a]]
  /\ threads' = threads \cup {created + 1}
  /\ id' = [id EXCEPT ![a] = created + 1]
  /\ at' = [at EXCEPT ![a] = "assign", ![created + 1] = "run"]
  /\ UNCHANGED <<started, thread_id, mutex, object, style>>

AssignId(a) ==
  /\ at[a] = "assign"
  /\ thread_id' = [thread_id EXCEPT ![object[a]] = id[a]]
  /\ Goes(a, Home(a))
  /\ UNCHANGED <<started, runs, created, threads, mutex, locals, style>>

-----------------------------------------------------------------------------
\* BaseThread::Terminate only clears the flag ...
Terminate(c, o) ==
  /\ at[c] = "idle"
  /\ started' = [started EXCEPT ![o] = FALSE]
  /\ UNCHANGED <<thread_id, runs, created, threads, mutex, at, locals, style>>

\* ... which Run sees when it comes round.
RunEnds(r) ==
  /\ at[r] = "run"
  /\ ~started[runs[r]]
  /\ Goes(r, "exit")
  /\ UNCHANGED <<started, thread_id, runs, created, threads, mutex, locals, style>>

-----------------------------------------------------------------------------
(***************************************************************************)
(* BaseThread::Join.  The map is searched without a look at what find()    *)
(* returns, so a program joins a thread once, and only one that it knows   *)
(* the manager still has.                                                  *)
(***************************************************************************)
JoinCall(c, o) ==
  /\ at[c] = "idle"
  /\ style = "each"
  /\ thread_id[o] \in threads
  /\ \A d \in Callers : at[d] \in {"join", "joining"} => id[d] # thread_id[o]
  /\ id' = [id EXCEPT ![c] = thread_id[o]]
  /\ Goes(c, "join")
  /\ UNCHANGED <<started, thread_id, runs, created, threads, mutex, object, style>>

Join(c) ==
  /\ at[c] = "join"
  /\ mutex = Nobody
  /\ mutex' = c
  /\ Goes(c, "joining")
  /\ UNCHANGED <<started, thread_id, runs, created, threads, locals, style>>

\* Mutant: the thread is taken out of the map without being joined.
JoinedAtOnce(c) ==
  /\ at[c] = "joining"
  /\ threads' = threads \ {id[c]}
  /\ mutex' = Nobody
  /\ Goes(c, "idle")
  /\ UNCHANGED <<started, thread_id, runs, created, locals, style>>

Joined(c) ==
  /\ at[c] = "joining"
  /\ at[id[c]] = "exit"
  /\ threads' = threads \ {id[c]}
  /\ mutex' = Nobody
  /\ Goes(c, "idle")
  /\ UNCHANGED <<started, thread_id, runs, created, locals, style>>

\* ThreadManager::JoinAll.
JoinAllCall(c) ==
  /\ at[c] = "idle"
  /\ style = "all"
  /\ Goes(c, "joinAll")
  /\ UNCHANGED <<started, thread_id, runs, created, threads, mutex, locals, style>>

\* With an empty map it returns at once.
JoinAll(c) ==
  /\ at[c] = "joinAll"
  /\ mutex = Nobody
  /\ IF threads = {} THEN Goes(c, "idle") /\ UNCHANGED mutex
                     ELSE Goes(c, "joiningAll") /\ mutex' = c
  /\ UNCHANGED <<started, thread_id, runs, created, threads, locals, style>>

\* The last join() has returned.
JoinedAll(c) ==
  /\ at[c] = "joiningAll"
  /\ \A r \in threads : at[r] = "exit"
  /\ threads' = {}
  /\ mutex' = Nobody
  /\ Goes(c, "idle")
  /\ UNCHANGED <<started, thread_id, runs, created, locals, style>>

-----------------------------------------------------------------------------
Start(a) == SetStarted(a) \/ Create(a) \/ AssignId(a)
Joins(c) == Join(c) \/ Joined(c) \/ JoinAll(c) \/ JoinedAll(c)

Next == \/ \E a \in Agents, o \in Objects : StartCall(a, o)
        \/ \E a \in Agents : Start(a)
        \/ \E c \in Callers, o \in Objects : Terminate(c, o) \/ JoinCall(c, o)
        \/ \E c \in Callers : JoinAllCall(c) \/ Joins(c)
        \/ \E r \in Ids : RunEnds(r)

Spec == Init /\ [][Next]_mgrVars

\* Every thread goes on with the call it has begun, and every Run comes
\* round to its flag.  Nobody has to call anything.
Fairness == /\ \A a \in Agents : WF_mgrVars(Start(a))
            /\ \A c \in Callers : WF_mgrVars(Joins(c))
            /\ \A r \in Ids : WF_mgrVars(RunEnds(r))

-----------------------------------------------------------------------------
(***************************************************************************)
(* A thread that still runs is in the map, whatever Start, Terminate, Join *)
(* and JoinAll of several callers and of the threads themselves come in    *)
(* between, even when an object was started twice: no std::thread is       *)
(* destroyed before it was joined, and whom Join looks up, it finds        *)
(* (ThreadManager.hpp:21-61).                                              *)
(***************************************************************************)
NobodyForgotten ==
  /\ \A r \in Ids : at[r] \notin {"none", "exit"} => r \in threads
  /\ \A c \in Callers : at[c] \in {"join", "joining"} => id[c] \in threads

\* A thread does not end: its object was not terminated, or it waits for the
\* mutex to start another one.
Lingers(r) == at[r] = "create" \/ (at[r] # "exit" /\ started[runs[r]])

(***************************************************************************)
(* Join and JoinAll return, unless a thread in the map goes on for ever,   *)
(* because nobody terminates its object, or because it calls the manager   *)
(* itself, whose mutex they keep (ThreadManager.hpp:34-61).                *)
(***************************************************************************)
JoinsEnd == \A c \in Callers :
  \/ []<>(at[c] \notin {"join", "joining", "joinAll", "joiningAll"})
  \/ <>[](\E r \in threads : Lingers(r))

=============================================================================
