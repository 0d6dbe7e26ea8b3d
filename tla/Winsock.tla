------------------------------ MODULE Winsock ------------------------------
(***************************************************************************)
(* What the units of WinNet/src/NetUnit.cpp see of Windows and of the      *)
(* remote ends: the state of each unit's socket, the overlapped operations *)
(* in flight on it, and the completion port's FIFO queue of packets.       *)
(*                                                                         *)
(* The kernel is not part of the repository: it is modelled from how       *)
(* OverlappedSocket.cpp, ConnectSocket.cpp and WorkerThread.cpp use it.    *)
(* The wrappers of those files (AsyncAccept, AsyncRecieve, AsyncSend,      *)
(* AsyncConnect, Reuse, Close, ShutDown) are the operators at the end.  The*)
(* socket of an accepting unit is associated with the port by IoStart,     *)
(* before anything is issued on it, and stays so: only the sockets of      *)
(* connecting units are ever loose.                                        *)
(***************************************************************************)
EXTENDS Integers, Sequences, FiniteSetsExt

CONSTANTS AcceptUnits,   \* units with DIR_ACCEPT_FROM
          ConnectUnits,  \* units with DIR_CONNECT_TO
          NoUnit,        \* the completion key 0
          Ovs,           \* pooled OverlappedEx objects
          NoOv,          \* stands for an OverlappedEx embedded in the unit
          Faults,        \* what the network may do, see FaultKinds
          MaxSessions    \* BOUND: connections the units may get in all

Units == AcceptUnits \cup ConnectUnits

\* "rst": the remote end resets a connection.  "fin": it closes one
\* gracefully.  "acceptfail": an AcceptEx completes with an error.
\* "context": SO_UPDATE_*_CONTEXT fails on a connection already reset.
\* "refused": a ConnectEx completes with an error.
FaultKinds == {"rst", "fin", "acceptfail", "context", "refused"}

ASSUME UnitsAssumption == /\ AcceptUnits \cap ConnectUnits = {}
                          /\ NoUnit \notin Units
ASSUME OvsAssumption == NoOv \notin Ovs
ASSUME FaultsAssumption == Faults \subseteq FaultKinds
ASSUME MaxSessionsAssumption == MaxSessions \in Nat

VARIABLES sock,      \* per unit: "invalid", "fresh", "linked" or "down"
          loose,     \* connecting units whose socket no port knows yet
          enabled,   \* per unit: _is_enable of its socket
          peer,      \* per unit: the remote end, "none", "open", "fin", "rst"
          session,   \* per unit: connections its socket has had so far
          inflight,  \* overlapped operations the kernel has not completed
          iocp       \* completion packets nobody has dequeued yet

sockVars == <<sock, loose, enabled, peer, session>>
winVars == <<sockVars, inflight, iocp>>

Operations == {"ACCEPT", "CONNECT", "RECIEVE", "SEND", "DISCONNECT"}

\* An operation in flight.  `sess' is the connection it was issued on, `tag'
\* tells two receives on one OverlappedEx apart.
InFlight == [op : Operations, unit : Units, ov : Ovs \cup {NoOv},
             sess : Nat, tag : Nat]

Packet == [op : Operations, unit : Units, ov : Ovs \cup {NoOv},
           sess : Nat, ok : BOOLEAN, bytes : Nat]

\* Sockets, operations in flight and packets are well formed.
WinTypeOK == /\ sock \in [Units -> {"invalid", "fresh", "linked", "down"}]
             /\ loose \in SUBSET ConnectUnits
             /\ enabled \in [Units -> BOOLEAN]
             /\ peer \in [Units -> {"none", "open", "fin", "rst"}]
             /\ session \in [Units -> Nat]
             /\ inflight \in SUBSET InFlight
             /\ iocp \in Seq(Packet)

\* NetUnit::Init and AcceptRequest have run for every unit.
WinInit == /\ sock = [u \in Units |-> "fresh"]
           /\ loose = {}
           /\ enabled = [u \in Units |-> TRUE]
           /\ peer = [u \in Units |-> "none"]
           /\ session = [u \in Units |-> 0]
           /\ inflight = [op : {"ACCEPT"}, unit : AcceptUnits, ov : {NoOv},
                          sess : {0}, tag : {0}]
           /\ iocp = << >>

-----------------------------------------------------------------------------
(* The completion port.                                                    *)

PacketOf(o, ok, bytes) ==
  [op |-> o.op, unit |-> o.unit, ov |-> o.ov, sess |-> o.sess,
   ok |-> ok, bytes |-> bytes]

Pending(u, op) == {o \in inflight : o.unit = u /\ o.op = op}

\* An operation can still succeed while its socket serves its connection.
Alive(o) == /\ o.sess = session[o.unit]
            /\ sock[o.unit] = IF o.op \in {"ACCEPT", "CONNECT"}
                              THEN "fresh" ELSE "linked"

\* What completes on a socket no port is associated with leaves no packet.
\* The other operations are those of a socket that was, or complete on the
\* listen socket.
Heard(o) == ~(Alive(o) /\ o.unit \in loose)

Complete(o, ok, bytes) ==
  /\ inflight' = inflight \ {o}
  /\ iocp' = IF Heard(o) THEN Append(iocp, PacketOf(o, ok, bytes)) ELSE iocp

\* The connections there have been so far.
Sessions == MapThenSumSet(LAMBDA u : session[u], Units)

\* A client is accepted, or a destination answers: the socket is linked.
Establish(o) ==
  /\ o.op \in {"ACCEPT", "CONNECT"}
  /\ Alive(o)
  /\ Sessions < MaxSessions   \* BOUND
  /\ sock' = [sock EXCEPT ![o.unit] = "linked"]
  /\ peer' = [peer EXCEPT ![o.unit] = "open"]
  /\ session' = [session EXCEPT ![o.unit] = @ + 1]
  /\ Complete(o, TRUE, 0)
  /\ UNCHANGED <<loose, enabled>>

\* An AcceptEx or a ConnectEx completes with an error.
EstablishFails(o) ==
  /\ \/ o.op = "ACCEPT" /\ "acceptfail" \in Faults
     \/ o.op = "CONNECT" /\ "refused" \in Faults
  \* BOUND: refusals nobody has seen yet, one for each unit
  /\ \A i \in 1..Len(iocp) : iocp[i].unit # o.unit \/ iocp[i].op # o.op
  /\ Complete(o, FALSE, 0)
  /\ UNCHANGED sockVars

\* A receive completes with data, or with 0 bytes after a graceful close.
RecieveCompletes(o) ==
  /\ o.op = "RECIEVE"
  /\ Alive(o)
  /\ \/ peer[o.unit] = "open" /\ Complete(o, TRUE, 1)
     \/ peer[o.unit] = "fin"  /\ Complete(o, TRUE, 0)
  /\ UNCHANGED sockVars

SendCompletes(o) ==
  /\ o.op = "SEND"
  /\ Alive(o)
  /\ peer[o.unit] # "rst"
  /\ Complete(o, TRUE, 1)
  /\ UNCHANGED sockVars

\* The connection or the socket is gone: the operation completes in error.
Aborts(o) ==
  /\ \/ ~Alive(o)
     \/ o.op \in {"RECIEVE", "SEND"} /\ peer[o.unit] = "rst"
  /\ Complete(o, FALSE, 0)
  /\ UNCHANGED sockVars

\* The remote end goes away.
PeerLeaves(u) ==
  /\ sock[u] = "linked"
  /\ \/ peer[u] = "open" /\ "fin" \in Faults
        /\ peer' = [peer EXCEPT ![u] = "fin"]
     \/ peer[u] \in {"open", "fin"} /\ "rst" \in Faults
        /\ peer' = [peer EXCEPT ![u] = "rst"]
  /\ UNCHANGED <<sock, loose, enabled, session, inflight, iocp>>

-----------------------------------------------------------------------------
(* The socket wrappers.                                                    *)

\* The first tag no pending operation of the unit has; every connection
\* starts one chain of receives, so MaxSessions tags are enough.
FreeTag(u, op) ==
  LET Unused(n) == \A o \in Pending(u, op) : o.tag # n
  IN  IF \E n \in 0..MaxSessions : Unused(n)
      THEN CHOOSE n \in 0..MaxSessions : Unused(n) ELSE 0

Issue(u, op, ov) ==
  inflight' = inflight \cup {[op |-> op, unit |-> u, ov |-> ov,
                              sess |-> session[u],
                              tag |-> IF ov = NoOv THEN FreeTag(u, op) ELSE 0]}

\* WSASend or WSARecv fails with one of the errors the wrappers list.
Reports(u) == \/ sock[u] = "fresh"
              \/ sock[u] \in {"linked", "down"} /\ peer[u] = "rst"

\* The wrapper returns before it calls WSASend or WSARecv.
Unusable(u) == sock[u] = "invalid" \/ ~enabled[u]

\* Mutant: the list of errors misses WSAECONNRESET.
AsyncResultUnlisted(u) ==
  CASE Unusable(u) -> "error"
    [] ~Unusable(u) /\ (Reports(u) \/ sock[u] = "down") -> "lost"
    [] OTHER -> "issued"

\* What AsyncRecieve and AsyncSend come to: "error" makes the caller
\* disconnect, "issued" leaves an operation in flight, and "lost" is an
\* error outside the list (WSAESHUTDOWN): reported as success, but no
\* completion will ever come.
AsyncResult(u) == CASE Unusable(u) \/ Reports(u) -> "error"
                    [] sock[u] = "down" /\ ~Unusable(u) /\ ~Reports(u) -> "lost"
                    [] OTHER -> "issued"

\* AcceptEx and ConnectEx refuse a socket that is linked or already waiting.
CanEstablish(u, op) == sock[u] = "fresh" /\ Pending(u, op) = {}

\* SetLinger(true, 0) and ShutDown(SD_BOTH).
ShutDown(u) ==
  sock' = [sock EXCEPT ![u] = IF @ = "linked" THEN "down" ELSE @]

\* Close: closesocket and INVALID_SOCKET.
Close(u) == /\ sock' = [sock EXCEPT ![u] = "invalid"]
            /\ peer' = [peer EXCEPT ![u] = "none"]

\* Reuse: TransmitFile disconnects the socket and leaves it open; it fails,
\* and changes nothing, on a socket that was not connected.
Reuse(u) ==
  IF sock[u] \in {"linked", "down"}
  THEN /\ sock' = [sock EXCEPT ![u] = "fresh"]
       /\ peer' = [peer EXCEPT ![u] = "none"]
  ELSE UNCHANGED <<sock, peer>>

\* Bind: a new socket, which no port knows, unless the unit still has one.
Bind(u) ==
  IF sock[u] = "invalid"
  THEN sock' = [sock EXCEPT ![u] = "fresh"] /\ loose' = loose \cup {u}
  ELSE UNCHANGED <<sock, loose>>

\* Iocp::Associate with the unit as the key; nothing on one that has a port.
Associate(u) == loose' = loose \ {u}

\* IsConnected: FD_CLOSE is signalled once the remote end is gone.
IsConnected(u) == sock[u] # "invalid" /\ peer[u] \notin {"fin", "rst"}
=============================================================================
