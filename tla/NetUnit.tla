------------------------------ MODULE NetUnit ------------------------------
(***************************************************************************)
(* WinNet/src/NetUnit.cpp driven by the threads that call it: the workers  *)
(* of WorkerThread.cpp, which dequeue completion packets, and the          *)
(* AutoConnector, which polls the units that connect out.  The sockets and *)
(* the completion port are those of Winsock; the pooled OverlappedEx       *)
(* objects are OverlappedPool's, used through the promise of LendingPool.  *)
(*                                                                         *)
(* A thread is a program counter with the locals of the handlers it is in. *)
(* One action is a stretch of code that touches one shared thing once: an  *)
(* atomic flag, the socket, the pool or the registry (each behind a mutex),*)
(* or the completion port.  A test of _is_active and the call into the     *)
(* kernel behind it are two actions: the call repeats no read.             *)
(***************************************************************************)
EXTENDS Winsock, FiniteSets, TLC

CONSTANTS Workers,     \* the worker threads
          Connector,   \* the AutoConnector thread
          NoThread

ASSUME ThreadsAssumption == Connector \notin Workers /\ NoThread \notin Workers

VARIABLES active,      \* per unit: _is_active
          free,        \* the pooled objects waiting in OverlappedPool
          leaked,      \* pooled objects nobody will ever return
          memory,      \* per pooled object: the operation written in it
          registered,  \* units in the ActiveNetUnitManager
          regOwner,    \* the thread that holds its mutex during BroadCast
          th           \* per thread: program counter and locals

poolVars == <<free, leaked, memory>>
regVars == <<registered, regOwner>>
vars == <<winVars, active, poolVars, regVars, th>>

Threads == Workers \cup {Connector}

Labels == {"idle", "failed", "decode", "dispatch", "accepted", "connected",
           "iostart", "onconnect", "enable", "rearm", "wsarecv", "recieved",
           "processed", "send", "wsasend", "dr", "drShut", "drOff", "drPost",
           "disconnect", "cleanup", "bindiocp", "acceptreq", "acceptex",
           "isconnected", "connectex"}

\* The locals: the packet's operation as issued, its unit and size, the
\* operation decoded from its OverlappedEx, the pooled object in hand, the
\* unit a send or DisconnectRequest is for, the units still to send to, and
\* the labels at which to go on after a series of sends (ret) and after
\* DisconnectRequest (dret).
Idle == [pc |-> "idle", op |-> "ACCEPT", optype |-> "ACCEPT", unit |-> NoUnit,
         bytes |-> 0, ov |-> NoOv, tgt |-> NoUnit, todo |-> {},
         ret |-> "idle", dret |-> "idle"]

Thread == [pc : Labels, op : Operations, optype : Operations,
           unit : Units \cup {NoUnit}, bytes : Nat, ov : Ovs \cup {NoOv},
           tgt : Units \cup {NoUnit}, todo : SUBSET Units,
           ret : {"idle", "enable", "processed"}, dret : {"idle", "send"}]

\* The flags, the pool, the registry and every thread's locals are well
\* formed; the count of bytes left in Recieved never drops below 0.
TypeOK == /\ WinTypeOK
          /\ active \in [Units -> BOOLEAN]
          /\ free \in SUBSET Ovs
          /\ leaked \in SUBSET Ovs
          /\ memory \in [Ovs -> Operations]
          /\ registered \in SUBSET Units
          /\ regOwner \in Workers \cup {NoThread}
          /\ th \in [Threads -> Thread]

Init == /\ WinInit
        /\ active = [u \in Units |-> FALSE]
        /\ free = Ovs
        /\ leaked = {}
        /\ memory = [o \in Ovs |-> "ACCEPT"]
        /\ registered = {}
        /\ regOwner = NoThread
        /\ th = [t \in Threads |-> Idle]

-----------------------------------------------------------------------------
At(t, label) == th[t].pc = label

\* The thread moves on with some of its locals changed.
Go(t, job) == th' = [th EXCEPT ![t] = job]
Step(t, label) == Go(t, [th[t] EXCEPT !.pc = label])
Finish(t) == Go(t, Idle)

\* The call of DisconnectRequest on unit u; the thread goes on at `dret'.
RequestDisconnect(t, u, dret) ==
  Go(t, [th[t] EXCEPT !.pc = "dr", !.tgt = u, !.ov = NoOv, !.dret = dret])

\* OverlappedPool::GetOverlapped and ReturnObj; Clear() writes operation 0.
Take(o, op) == /\ o \in free
               /\ free' = free \ {o}
               /\ memory' = [memory EXCEPT ![o] = op]
GiveBack(o) == /\ free' = free \cup {o}
               /\ memory' = [memory EXCEPT ![o] = "ACCEPT"]

Pooled(op) == op \in {"SEND", "DISCONNECT"}

\* What over_ex->operation reads: embedded objects keep their operation.
OperationOf(t) == IF th[t].ov = NoOv THEN th[t].op ELSE memory[th[t].ov]

\* AcceptEx completes on the listen socket, which is associated with key 0.
CompletionKey(t) == IF th[t].op = "ACCEPT" THEN NoUnit ELSE th[t].unit

\* BOUND: the pool of the code grows, Ovs does not.  A handler sends only
\* when that leaves an object for every send and disconnect already begun.
Affordable(targets) ==
  Cardinality(targets) + Cardinality({x \in Threads \X Units : x[2] \in th[x[1]].todo})
    + Cardinality(Threads) <= Cardinality(free)

-----------------------------------------------------------------------------
(* WorkerThread::Run.                                                      *)

\* GetQueuedCompletionStatus returns the oldest packet.
Dequeue(w) ==
  /\ At(w, "idle")
  /\ iocp # << >>
  /\ iocp' = Tail(iocp)
  /\ LET p == Head(iocp)
     IN  Go(w, [Idle EXCEPT !.pc = IF p.ok THEN "decode" ELSE "failed",
                            !.op = p.op, !.unit = p.unit,
                            !.bytes = p.bytes, !.ov = p.ov])
  /\ UNCHANGED <<sockVars, inflight, active, poolVars, regVars>>

\* result == FALSE: a pooled object goes back, then the unit disconnects.
Failed(w) ==
  /\ At(w, "failed")
  /\ IF Pooled(OperationOf(w)) THEN GiveBack(th[w].ov)
                               ELSE UNCHANGED <<free, memory>>
  /\ IF CompletionKey(w) = NoUnit THEN Finish(w)
                                  ELSE RequestDisconnect(w, th[w].unit, "idle")
  /\ UNCHANGED <<winVars, active, leaked, regVars>>

\* The operation is read, and a pooled object goes back, before dispatch.
Decode(w) ==
  /\ At(w, "decode")
  /\ LET op == OperationOf(w)
         next == CASE op = "ACCEPT"  -> "accepted"
                   [] op = "CONNECT" -> "connected"
                   [] OTHER          -> "dispatch"
     IN  /\ Go(w, [th[w] EXCEPT !.pc = next, !.optype = op])
         /\ IF Pooled(op) THEN GiveBack(th[w].ov)
                          ELSE UNCHANGED <<free, memory>>
  /\ UNCHANGED <<winVars, active, leaked, regVars>>

\* Mutant: the operation is read from the object that was given back.
DispatchReadsReturned(w) ==
  /\ At(w, "dispatch")
  /\ LET op == IF th[w].ov = NoOv THEN th[w].op ELSE memory[th[w].ov]
         some == th[w].bytes # 0
     IN  CASE op = "RECIEVE" /\ some -> Step(w, "recieved")
           [] op = "SEND" /\ some    -> Finish(w)
           [] op = "DISCONNECT" \/ ~some -> Step(w, "disconnect")
           [] OTHER                  -> Finish(w)
  /\ UNCHANGED <<winVars, active, poolVars, regVars>>

\* Mutant: a completed send asks for data once more.
DispatchSentRearms(w) ==
  /\ At(w, "dispatch")
  /\ LET op == th[w].optype
         some == th[w].bytes # 0
     IN  CASE op = "RECIEVE" /\ some -> Step(w, "recieved")
           [] op = "SEND" /\ some    -> Step(w, "rearm")
           [] op = "DISCONNECT" \/ ~some -> Step(w, "disconnect")
           [] OTHER                  -> Finish(w)
  /\ UNCHANGED <<winVars, active, poolVars, regVars>>

\* The branches on the operation type; Sent() does nothing.
Dispatch(w) ==
  /\ At(w, "dispatch")
  /\ LET op == th[w].optype
         some == th[w].bytes # 0
     IN  CASE op = "RECIEVE" /\ some -> Step(w, "recieved")
           [] op = "SEND" /\ some    -> Finish(w)
           [] op = "DISCONNECT" \/ ~some -> Step(w, "disconnect")
           [] OTHER                  -> Finish(w)
  /\ UNCHANGED <<winVars, active, poolVars, regVars>>

-----------------------------------------------------------------------------
(* Accepted, Connected, IoStart and the end of every receive.              *)

\* SO_UPDATE_ACCEPT_CONTEXT or SO_UPDATE_CONNECT_CONTEXT, then IoStart.
UpdateContext(w) ==
  /\ At(w, "accepted") \/ At(w, "connected")
  /\ \/ Step(w, "iostart")
     \/ /\ "context" \in Faults
        /\ peer[th[w].unit] = "rst"
        /\ Finish(w)
  /\ UNCHANGED <<winVars, active, poolVars, regVars>>

\* The exchange of _is_active decides who starts the unit.
IoStart(w) ==
  /\ At(w, "iostart")
  /\ IF active[th[w].unit]
     THEN Finish(w) /\ UNCHANGED active
     ELSE /\ active' = [active EXCEPT ![th[w].unit] = TRUE]
          /\ Step(w, "onconnect")
  /\ UNCHANGED <<winVars, poolVars, regVars>>

\* OnConnect: both test servers register the unit; TimeServer, which
\* connects out, also sends a greeting.
OnConnect(w) ==
  /\ At(w, "onconnect")
  /\ regOwner = NoThread
  /\ registered' = registered \cup {th[w].unit}
  /\ IF th[w].unit \in ConnectUnits
     THEN Go(w, [th[w] EXCEPT !.pc = "send", !.ret = "enable",
                              !.todo = {u \in {th[w].unit} : Affordable({u})}])
     ELSE Step(w, "enable")
  /\ UNCHANGED <<winVars, active, poolVars, regOwner>>

Enable(w) ==
  /\ At(w, "enable")
  /\ enabled' = [enabled EXCEPT ![th[w].unit] = TRUE]
  /\ Step(w, "rearm")
  /\ UNCHANGED <<sock, loose, peer, session, inflight, iocp, active, poolVars, regVars>>

\* RecieveRequest up to the call of AsyncRecieve.
RecieveRequest(w) ==
  /\ At(w, "rearm")
  /\ IF active[th[w].unit] THEN Step(w, "wsarecv") ELSE Finish(w)
  /\ UNCHANGED <<winVars, active, poolVars, regVars>>

\* Mutant: the result of AsyncRecieve is ignored.
AsyncRecieveIgnored(w) ==
  /\ At(w, "wsarecv")
  /\ IF AsyncResult(th[w].unit) = "issued"
     THEN Issue(th[w].unit, "RECIEVE", NoOv) ELSE UNCHANGED inflight
  /\ Finish(w)
  /\ UNCHANGED <<sockVars, iocp, active, poolVars, regVars>>

AsyncRecieve(w) ==
  /\ At(w, "wsarecv")
  /\ LET u == th[w].unit
     IN  CASE AsyncResult(u) = "error" ->
                RequestDisconnect(w, u, "idle") /\ UNCHANGED inflight
           [] AsyncResult(u) = "lost" -> Finish(w) /\ UNCHANGED inflight
           [] OTHER -> Finish(w) /\ Issue(u, "RECIEVE", NoOv)
  /\ UNCHANGED <<sockVars, iocp, active, poolVars, regVars>>

-----------------------------------------------------------------------------
(* Recieved: the packets of one completion, one per byte of the model.     *)

\* The loop condition, the check of _is_active and HeaderParsing.
Recieved(w) ==
  /\ At(w, "recieved")
  /\ LET u == th[w].unit
         \* PacketProcessing: nothing to send, an answer, or a broadcast.
         Processing(targets, owner) ==
           /\ targets # {} => Affordable(targets)
           /\ Go(w, [th[w] EXCEPT !.pc = "send", !.todo = targets,
                                  !.ret = "processed"])
           /\ regOwner' = owner
     IN  IF th[w].bytes = 0
         THEN Step(w, "rearm") /\ UNCHANGED regOwner
         ELSE IF ~active[u]
         THEN Finish(w) /\ UNCHANGED regOwner
         ELSE \/ Step(w, "rearm") /\ UNCHANGED regOwner   \* packetsize == 0
              \/ Processing({}, regOwner)
              \/ Processing({u}, regOwner)
              \/ regOwner = NoThread /\ Processing(registered, w)
  /\ UNCHANGED <<winVars, active, poolVars, registered>>

\* Mutant: a packet is taken off the count twice.
ProcessedTwice(w) ==
  /\ At(w, "processed")
  /\ IF active[th[w].unit]
     THEN Go(w, [th[w] EXCEPT !.pc = "recieved", !.bytes = @ - 2])
     ELSE Finish(w)
  /\ UNCHANGED <<winVars, active, poolVars, regVars>>

\* After PacketProcessing: the second check, then the next packet.
Processed(w) ==
  /\ At(w, "processed")
  /\ IF active[th[w].unit]
     THEN Go(w, [th[w] EXCEPT !.pc = "recieved", !.bytes = @ - 1])
     ELSE Finish(w)
  /\ UNCHANGED <<winVars, active, poolVars, regVars>>

-----------------------------------------------------------------------------
(* SendRequest, on each unit of a series.                                  *)

SendRequest(t) ==
  /\ At(t, "send")
  /\ \E u \in th[t].todo :
       IF active[u]
       THEN \E o \in Ovs :
              /\ Take(o, "SEND")
              /\ Go(t, [th[t] EXCEPT !.pc = "wsasend", !.ov = o, !.tgt = u,
                                     !.todo = @ \ {u}])
       ELSE /\ Go(t, [th[t] EXCEPT !.todo = @ \ {u}])
            /\ UNCHANGED <<free, memory>>
  /\ UNCHANGED <<winVars, active, leaked, regVars>>

\* The series is over; BroadCast gives the registry's mutex back.
SendsDone(t) ==
  /\ At(t, "send")
  /\ th[t].todo = {}
  /\ Go(t, [th[t] EXCEPT !.pc = th[t].ret, !.ret = "idle"])
  /\ regOwner' = IF regOwner = t THEN NoThread ELSE regOwner
  /\ UNCHANGED <<winVars, active, poolVars, registered>>

\* Mutant: a send that was refused keeps its object.
AsyncSendKeeps(t) ==
  /\ At(t, "wsasend")
  /\ AsyncResult(th[t].tgt) = "error"
  /\ RequestDisconnect(t, th[t].tgt, "send")
  /\ UNCHANGED <<winVars, active, poolVars, regVars>>

AsyncSend(t) ==
  /\ At(t, "wsasend")
  /\ LET u == th[t].tgt
         o == th[t].ov
         Next == Go(t, [th[t] EXCEPT !.pc = "send", !.ov = NoOv, !.tgt = NoUnit])
     IN  CASE AsyncResult(u) = "error" ->
                /\ GiveBack(o)
                /\ RequestDisconnect(t, u, "send")
                /\ UNCHANGED <<inflight, leaked>>
           [] AsyncResult(u) = "lost" ->
                /\ leaked' = leaked \cup {o}
                /\ Next
                /\ UNCHANGED <<inflight, free, memory>>
           [] OTHER ->
                /\ Issue(u, "SEND", o)
                /\ Next
                /\ UNCHANGED <<free, memory, leaked>>
  /\ UNCHANGED <<sockVars, iocp, active, regVars>>

-----------------------------------------------------------------------------
(* DisconnectRequest.                                                      *)

Back(t) == Go(t, [th[t] EXCEPT !.pc = th[t].dret, !.tgt = NoUnit, !.ov = NoOv,
                               !.dret = "idle"])

\* Resume the caller: an idle thread forgets its locals.
Resume(t) == IF th[t].dret = "idle" THEN Finish(t) ELSE Back(t)

\* Mutant: the flag is cleared without the exchange.
DisconnectRequestUnguarded(t) ==
  /\ At(t, "dr")
  /\ active' = [active EXCEPT ![th[t].tgt] = FALSE]
  /\ Step(t, "drShut")
  /\ UNCHANGED <<winVars, poolVars, regVars>>

DisconnectRequest(t) ==
  /\ At(t, "dr")
  /\ LET u == th[t].tgt
     IN  IF active[u]
         THEN active' = [active EXCEPT ![u] = FALSE] /\ Step(t, "drShut")
         ELSE Resume(t) /\ UNCHANGED active
  /\ UNCHANGED <<winVars, poolVars, regVars>>

ShutDownSocket(t) ==
  /\ At(t, "drShut")
  /\ ShutDown(th[t].tgt)
  /\ Step(t, "drOff")
  /\ UNCHANGED <<loose, enabled, peer, session, inflight, iocp, active, poolVars, regVars>>

CloseOrDisable(t) ==
  /\ At(t, "drOff")
  /\ LET u == th[t].tgt
     IN  IF u \in ConnectUnits
         THEN Close(u) /\ UNCHANGED enabled
         ELSE enabled' = [enabled EXCEPT ![u] = FALSE] /\ UNCHANGED <<sock, peer>>
  /\ Step(t, "drPost")
  /\ UNCHANGED <<loose, session, inflight, iocp, active, poolVars, regVars>>

\* GetOverlapped and PostQueuedCompletionStatus with the unit as the key.
PostDisconnect(t) ==
  /\ At(t, "drPost")
  /\ \E o \in Ovs :
       /\ Take(o, "DISCONNECT")
       /\ LET u == th[t].tgt
          IN  iocp' = Append(iocp, [op |-> "DISCONNECT", unit |-> u, ov |-> o,
                                    sess |-> session[u], ok |-> TRUE, bytes |-> 0])
  /\ Resume(t)
  /\ UNCHANGED <<sockVars, inflight, active, leaked, regVars>>

-----------------------------------------------------------------------------
(* Disconnect.                                                             *)

\* Mutant: the unit stays in the registry.
OnDisconnectKeeps(w) ==
  /\ At(w, "disconnect")
  /\ regOwner = NoThread
  /\ Step(w, "cleanup")
  /\ UNCHANGED <<winVars, active, poolVars, regVars>>

\* OnDisconnect: the unit leaves the registry.
OnDisconnect(w) ==
  /\ At(w, "disconnect")
  /\ regOwner = NoThread
  /\ registered' = registered \ {th[w].unit}
  /\ Step(w, "cleanup")
  /\ UNCHANGED <<winVars, active, poolVars, regOwner>>

\* Cleanup, then Reuse, or the Bind of PrepareAsyncConnect.
Cleanup(w) ==
  /\ At(w, "cleanup")
  /\ IF th[w].unit \in AcceptUnits
     THEN Reuse(th[w].unit) /\ Step(w, "acceptreq") /\ UNCHANGED loose
     ELSE Bind(th[w].unit) /\ Step(w, "bindiocp") /\ UNCHANGED peer
  /\ UNCHANGED <<enabled, session, inflight, iocp, active, poolVars, regVars>>

\* BindIocp, the end of PrepareAsyncConnect and of Disconnect; nothing keeps
\* the AutoConnector from using the socket before.
BindIocp(w) ==
  /\ At(w, "bindiocp")
  /\ IF sock[th[w].unit] = "invalid" THEN UNCHANGED loose ELSE Associate(th[w].unit)
  /\ Finish(w)
  /\ UNCHANGED <<sock, enabled, peer, session, inflight, iocp, active, poolVars, regVars>>

\* AcceptRequest: an active unit does not accept.
AcceptRequest(w) ==
  /\ At(w, "acceptreq")
  /\ IF active[th[w].unit] THEN Finish(w) ELSE Step(w, "acceptex")
  /\ UNCHANGED <<winVars, active, poolVars, regVars>>

\* Mutant: the result of the test of AcceptRequest is forgotten.
AsyncAcceptNever(w) ==
  /\ At(w, "acceptex")
  /\ Finish(w)
  /\ UNCHANGED <<winVars, active, poolVars, regVars>>

AsyncAccept(w) ==
  /\ At(w, "acceptex")
  /\ IF CanEstablish(th[w].unit, "ACCEPT") THEN Issue(th[w].unit, "ACCEPT", NoOv)
                                            ELSE UNCHANGED inflight
  /\ Finish(w)
  /\ UNCHANGED <<sockVars, iocp, active, poolVars, regVars>>

-----------------------------------------------------------------------------
(* AutoConnector::Run, the list in any order and at any pace.              *)

\* CheckConnection's first test, on a unit that is active.
CheckActive(u) ==
  /\ At(Connector, "idle")
  /\ active[u]
  /\ Go(Connector, [th[Connector] EXCEPT !.pc = "isconnected", !.tgt = u])
  /\ UNCHANGED <<winVars, active, poolVars, regVars>>

\* TryConnect up to the test of ConnectRequest, on a unit that is down.
TryConnect(u) ==
  /\ At(Connector, "idle")
  /\ ~active[u]
  /\ Go(Connector, [th[Connector] EXCEPT !.pc = "connectex", !.tgt = u])
  /\ UNCHANGED <<winVars, active, poolVars, regVars>>

\* ConnectEx; it fails, and nothing changes, on a socket that is not ready.
AsyncConnect ==
  /\ At(Connector, "connectex")
  /\ LET u == th[Connector].tgt
     IN  IF CanEstablish(u, "CONNECT") THEN Issue(u, "CONNECT", NoOv)
                                       ELSE UNCHANGED inflight
  /\ Finish(Connector)
  /\ UNCHANGED <<sockVars, iocp, active, poolVars, regVars>>

\* Mutant: a connection found dead is only logged.
CheckConnectedLogs ==
  /\ At(Connector, "isconnected")
  /\ Finish(Connector)
  /\ UNCHANGED <<winVars, active, poolVars, regVars>>

\* CheckConnection's second test.
CheckConnected ==
  /\ At(Connector, "isconnected")
  /\ IF IsConnected(th[Connector].tgt)
     THEN Finish(Connector)
     ELSE RequestDisconnect(Connector, th[Connector].tgt, "idle")
  /\ UNCHANGED <<winVars, active, poolVars, regVars>>

-----------------------------------------------------------------------------
\* What any thread may be in the middle of.
Disconnecting(t) == \/ DisconnectRequest(t) \/ ShutDownSocket(t)
                    \/ CloseOrDisable(t) \/ PostDisconnect(t)

Sending(w) == SendRequest(w) \/ SendsDone(w) \/ AsyncSend(w)

Handler(w) == \/ Dequeue(w) \/ Failed(w) \/ Decode(w) \/ Dispatch(w)
              \/ UpdateContext(w) \/ IoStart(w) \/ OnConnect(w) \/ Enable(w)
              \/ RecieveRequest(w) \/ AsyncRecieve(w)
              \/ Recieved(w) \/ Processed(w)
              \/ OnDisconnect(w) \/ Cleanup(w) \/ BindIocp(w)
              \/ AcceptRequest(w) \/ AsyncAccept(w)

Worker(w) == Handler(w) \/ Sending(w) \/ Disconnecting(w)
AutoConnect == \/ \E u \in ConnectUnits : CheckActive(u) \/ TryConnect(u)
               \/ AsyncConnect \/ CheckConnected \/ Disconnecting(Connector)

KernelOn(o) == \/ Establish(o) \/ EstablishFails(o) \/ RecieveCompletes(o)
               \/ SendCompletes(o) \/ Aborts(o)

\* A pooled object whose operation completes unheard is never returned.
Unheard(o) == IF Heard(o) THEN {} ELSE {o.ov} \ {NoOv}

Network == /\ \/ \E o \in inflight : KernelOn(o) /\ leaked' = leaked \cup Unheard(o)
              \/ \E u \in Units : PeerLeaves(u) /\ UNCHANGED leaked
           /\ UNCHANGED <<active, free, memory, regVars, th>>

\* What the kernel owes the program: operations that can no longer succeed
\* are completed with an error.
KernelCleansUp == /\ \E o \in inflight : Aborts(o) /\ leaked' = leaked \cup Unheard(o)
                  /\ UNCHANGED <<active, free, memory, regVars, th>>

Next == (\E w \in Workers : Worker(w)) \/ AutoConnect \/ Network

Spec == Init /\ [][Next]_vars

(***************************************************************************)
(* The threads run (each is an OS thread that is only ever blocked in      *)
(* GetQueuedCompletionStatus or on the registry's mutex), the mutex starves*)
(* no waiter, AutoConnector looks at every unit again and again (its loop  *)
(* has no exit but Terminate), and the kernel completes dead operations.   *)
(* Nothing is assumed of the remote ends.                                  *)
(***************************************************************************)
FairSpec == /\ Spec
            /\ \A w \in Workers : /\ WF_vars(Worker(w))
                                  /\ SF_vars(OnConnect(w))
                                  /\ SF_vars(OnDisconnect(w))
            /\ WF_vars(AsyncConnect)
            /\ WF_vars(CheckConnected)
            /\ WF_vars(Disconnecting(Connector))
            /\ \A u \in ConnectUnits : SF_vars(CheckActive(u))
            /\ WF_vars(KernelCleansUp)

\* Nothing tells pooled objects, workers or accepting units apart; the runs
\* of safety properties use it.
AllSymmetry == Permutations(Ovs) \cup Permutations(Workers)
                 \cup Permutations(AcceptUnits)

-----------------------------------------------------------------------------
(* Where a pooled object can be.                                           *)

\* The thread has the object in hand: dequeued and not yet returned, or
\* taken from the pool and not yet passed to WSASend.
Holding(t) == th[t].ov # NoOv /\ th[t].pc \in {"failed", "decode", "wsasend"}

InKernel == {f.ov : f \in inflight}
InQueue == {iocp[i].ov : i \in 1..Len(iocp)}
InHand == {th[t].ov : t \in {s \in Threads : Holding(s)}}

(***************************************************************************)
(* Every pooled OverlappedEx is in one place: in the pool, with a thread,  *)
(* in the kernel, in the queue of packets, or leaked.  No interleaving of  *)
(* workers returns one twice or reuses one that is still in flight         *)
(* (NetUnit.cpp:177-217, WorkerThread.cpp:34-39 and 73-75).                *)
(***************************************************************************)
ApartFromPool == /\ free \cap leaked = {}
                 /\ (free \cup leaked) \cap (InKernel \cup InQueue \cup InHand) = {}
ApartInFlight == /\ InKernel \cap InQueue \subseteq {NoOv}
                 /\ InKernel \cap InHand = {}
                 /\ InQueue \cap InHand = {}
HeldOnce == /\ \A f, g \in inflight : f.ov = g.ov /\ f.ov # NoOv => f = g
            /\ \A i, j \in 1..Len(iocp) :
                 iocp[i].ov = iocp[j].ov /\ iocp[i].ov # NoOv => i = j
            /\ \A s, t \in Threads :
                 Holding(s) /\ Holding(t) /\ th[s].ov = th[t].ov => s = t
NothingForgotten == Ovs \subseteq free \cup leaked \cup InKernel \cup InQueue \cup InHand

OneHome == ApartFromPool /\ ApartInFlight /\ HeldOnce /\ NothingForgotten

(***************************************************************************)
(* A completion reaches the handler of the operation that was issued,      *)
(* although the object is reused the moment Decode gave it back            *)
(* (WorkerThread.cpp:58-98 copies the type first).                         *)
(***************************************************************************)
RightHandler ==
  \A t \in Threads :
    /\ th[t].pc = "accepted" => th[t].op = "ACCEPT"
    /\ th[t].pc = "connected" => th[t].op = "CONNECT"
    /\ th[t].pc \in {"recieved", "processed"} => th[t].op = "RECIEVE"
    /\ th[t].pc \in {"disconnect", "cleanup", "bindiocp", "acceptreq", "acceptex"} =>
         th[t].op = "DISCONNECT" \/ th[t].bytes = 0

-----------------------------------------------------------------------------
(* The life of a unit.                                                     *)

QueuedFor(u, op) == {i \in 1..Len(iocp) : iocp[i].unit = u /\ iocp[i].op = op}

\* The unit waits for a connection: its AcceptEx or ConnectEx is pending,
\* its completion is queued, or a worker is on its way to IoStart.
Opening(u, op) ==
  {<<"kernel", o.tag>> : o \in Pending(u, op)}
    \cup {<<"queue", i>> : i \in {i \in QueuedFor(u, op) : iocp[i].ok}}
    \cup {<<"worker", w>> : w \in {w \in Workers :
            /\ th[w].unit = u /\ th[w].op = op
            /\ th[w].pc \in {"decode", "accepted", "connected", "iostart"}}}

\* The labels of Disconnect up to the unit's next AcceptEx or its new socket.
DisconnectLabels == {"disconnect", "cleanup", "acceptreq", "acceptex"}

\* The unit is being taken down: a DisconnectRequest won the exchange, its
\* packet is queued, or a worker is in Disconnect.
Closing(u) ==
  {<<"request", t>> : t \in {t \in Threads :
        th[t].tgt = u /\ th[t].pc \in {"drShut", "drOff", "drPost"}}}
    \cup {<<"queue", i>> : i \in QueuedFor(u, "DISCONNECT")}
    \cup {<<"worker", w>> : w \in {w \in Workers :
            /\ th[w].unit = u
            /\ th[w].pc \in {"decode", "dispatch"} \cup DisconnectLabels
            /\ th[w].op = "DISCONNECT" \/ th[w].pc \in DisconnectLabels}}

Open(u) == IF active[u] THEN {<<"open", u>>} ELSE {}

Life(u) == Cardinality(Opening(u, IF u \in AcceptUnits THEN "ACCEPT" ELSE "CONNECT"))
             + Cardinality(Open(u)) + Cardinality(Closing(u))

(***************************************************************************)
(* An accepting unit is always in exactly one stage: waiting for a client, *)
(* serving one, or being taken down once.  Two DisconnectRequests of one   *)
(* connection never both post a packet, a unit never accepts while it is   *)
(* active, and no slot is lost (NetUnit.cpp:55-67, 200-234, 250-264).      *)
(***************************************************************************)
OneStage == \A u \in AcceptUnits : Life(u) = 1

\* Disconnect has made the unit's new socket and not yet given it to the port.
Rebinding(u) == \E w \in Workers : At(w, "bindiocp") /\ th[w].unit = u

(***************************************************************************)
(* A unit that connects out may also wait for the AutoConnector, but it is *)
(* never in two stages: no ConnectEx starts on a unit that is connected or *)
(* being taken down, up to the new socket.  Between that and BindIocp the  *)
(* next ConnectEx may start, but it does not get past the kernel: nobody   *)
(* opens the unit, or takes it down again, before Disconnect has ended     *)
(* (AutoConnector.cpp:22-72, NetUnit.cpp:97-118, 219-234, 283-295).        *)
(***************************************************************************)
NeverTwoStages ==
  \A u \in ConnectUnits :
    /\ Life(u) <= 1
    /\ Rebinding(u) => /\ Open(u) \cup Closing(u) = {}
                       /\ \A s \in Opening(u, "CONNECT") : s[1] = "kernel"

\* Somebody will notice what happens to the unit's connection.
Watched(u) ==
  \/ Pending(u, "RECIEVE") # {}
  \/ QueuedFor(u, "RECIEVE") # {}
  \/ \E w \in Workers : /\ th[w].unit = u /\ th[w].pc # "idle"
                        /\ th[w].op \in {"RECIEVE", "ACCEPT", "CONNECT"}

(***************************************************************************)
(* An active unit has a receive outstanding or a worker that will issue    *)
(* one or disconnect: a connection is never left with nobody listening     *)
(* (NetUnit.cpp:132-175, 250-264).                                         *)
(***************************************************************************)
ActiveIsWatched == \A u \in Units : active[u] => Watched(u)

\* Receives on the unit's present connection whose result nobody has seen.
Outstanding(u) ==
  Cardinality({o \in Pending(u, "RECIEVE") : Alive(o)})
    + Cardinality({i \in QueuedFor(u, "RECIEVE") : iocp[i].sess = session[u] /\ iocp[i].ok})

(***************************************************************************)
(* OverlappedPool.h:11-12 builds on this: a unit's embedded receive object *)
(* serves one request at a time.                                           *)
(***************************************************************************)
OneRecieve == \A u \in Units : Outstanding(u) <= 1

(***************************************************************************)
(* NetUnit.h:66: Disconnect handles the termination at once, so a unit it  *)
(* has cleaned up is not active any more.                                  *)
(***************************************************************************)
DisconnectEnds == \A w \in Workers : At(w, "acceptreq") => ~active[th[w].unit]

\* The unit's OnConnect has not run yet.
Greeting(u) == \E w \in Workers : At(w, "onconnect") /\ th[w].unit = u

\* The unit's OnDisconnect has not run yet.
Leaving(u) == \E c \in Closing(u) :
                c[1] = "worker" => th[c[2]].pc \notin DisconnectLabels \ {"disconnect"}

(***************************************************************************)
(* The registry a broadcast walks holds the units that are connected: a    *)
(* unit enters it with its connection and leaves it before the next one    *)
(* (NetUnit.cpp:219-264, ActiveNetUnitManager.hpp:40-68).                  *)
(***************************************************************************)
RegistryAgrees == \A u \in AcceptUnits :
  u \in registered <=> (active[u] \/ Leaving(u)) /\ ~Greeting(u)

(***************************************************************************)
(* No pooled object is lost to a send that fails unnoticed                 *)
(* (OverlappedSocket.cpp:80-94); it needs workers that never overlap.      *)
(***************************************************************************)
NoLeak == leaked = {}

(***************************************************************************)
(* A unit that was taken down is back in service: it accepts again         *)
(* (NetUnit.cpp:200-234).                                                  *)
(***************************************************************************)
Recycles == \A u \in AcceptUnits :
              ~active[u] ~> (Pending(u, "ACCEPT") # {} \/ active[u])

(***************************************************************************)
(* A unit that connects out notices, whatever its completions say, that    *)
(* the other end is gone (AutoConnector.cpp:45-59).                        *)
(***************************************************************************)
Notices == \A u \in ConnectUnits :
             (active[u] /\ ~IsConnected(u)) ~> ~active[u]
=============================================================================
