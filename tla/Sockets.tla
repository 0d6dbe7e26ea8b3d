------------------------------ MODULE Sockets ------------------------------
(***************************************************************************)
(* WinNet: BasicSocket with TCPSocket and UDPSocket, the blocking sockets. *)
(* An object owns a handle of the system from Create, or from the          *)
(* constructor that takes one, to Close or its destructor.                 *)
(*                                                                         *)
(* What the system answers is its own choice wherever it may refuse.       *)
(* SetSocket and the copies the compiler makes, which nothing in the       *)
(* repository uses and which would give a handle a second owner, are left  *)
(* out.                                                                    *)
(***************************************************************************)
EXTENDS Integers, FiniteSetsExt

CONSTANTS Sockets,   \* socket objects
          Handles,   \* handles of the system
          Invalid,   \* INVALID_SOCKET
          Sizes      \* buffer sizes to set

VARIABLES alive,     \* the objects there are
          socket,    \* _socket of each object
          state,     \* per handle: "closed", "open", "bound", "listening", "connected", "down"
          returned,  \* handles Accept gave its caller
          sndbuf,    \* SO_SNDBUF of each handle
          result     \* what the last call returned

vars == <<alive, socket, state, returned, sndbuf, result>>

Returns(value) == result' = value
Becomes(o, s) == state' = [state EXCEPT ![socket[o]] = s]
Own == <<alive, socket, returned>>   \* who owns what

Init == /\ alive = {} /\ socket = [o \in Sockets |-> Invalid]
        /\ state = [h \in Handles |-> "closed"] /\ returned = {}
        /\ sndbuf = [h \in Handles |-> 0] /\ result = "none"

Construct(o) == /\ o \notin alive
                /\ alive' = alive \cup {o}
                /\ UNCHANGED <<socket, state, returned, sndbuf, result>>

\* The constructor that takes a SOCKET, used on what Accept returned.
ConstructFrom(o, h) ==
  /\ o \notin alive /\ h \in returned
  /\ alive' = alive \cup {o} /\ socket' = [socket EXCEPT ![o] = h]
  /\ returned' = returned \ {h}
  /\ UNCHANGED <<state, sndbuf, result>>

\* socket(): a new handle, or none.
NewHandle(o, s) ==
  \/ \E h \in Handles : /\ state[h] = "closed"
                        /\ socket' = [socket EXCEPT ![o] = h]
                        /\ state' = [state EXCEPT ![h] = s]
                        /\ sndbuf' = [sndbuf EXCEPT ![h] = 0]
  \/ socket' = [socket EXCEPT ![o] = Invalid] /\ UNCHANGED <<state, sndbuf>>

\* Create, and Init of the subclasses: refused if there is a socket.
Create(o) ==
  /\ IF socket[o] # Invalid
     THEN Returns(FALSE) /\ UNCHANGED <<socket, state, sndbuf>>
     ELSE NewHandle(o, "open") /\ Returns(socket'[o] # Invalid)
  /\ UNCHANGED <<alive, returned>>

Closed(o) == /\ IF socket[o] = Invalid THEN UNCHANGED state ELSE Becomes(o, "closed")
             /\ socket' = [socket EXCEPT ![o] = Invalid]

Close(o) == Closed(o) /\ UNCHANGED <<alive, returned, sndbuf, result>>

\* The destructor closes what the object owns.
Destroy(o) == Closed(o) /\ alive' = alive \ {o} /\ UNCHANGED <<returned, sndbuf, result>>

ShutDown(o) ==
  /\ IF socket[o] # Invalid /\ state[socket[o]] = "connected"
     THEN Becomes(o, "down") ELSE UNCHANGED state
  /\ UNCHANGED <<Own, sndbuf, result>>

\* Bind creates the socket itself, so that one that is there makes it fail,
\* also one that an earlier Bind could not bind.
Bind(o) ==
  /\ IF socket[o] # Invalid
     THEN Returns(FALSE) /\ UNCHANGED <<socket, state, sndbuf>>
     ELSE \E s \in {"open", "bound"} : /\ NewHandle(o, s)
                                       /\ Returns(socket'[o] # Invalid /\ s = "bound")
  /\ UNCHANGED <<alive, returned>>

\* Connect creates one if there is none; a socket that is connected or
\* listening cannot be connected.
Connect(o) ==
  /\ IF socket[o] = Invalid
     THEN \E s \in {"open", "connected"} :
            NewHandle(o, s) /\ Returns(socket'[o] # Invalid /\ s = "connected")
     ELSE \/ /\ state[socket[o]] \in {"open", "bound"}
             /\ Becomes(o, "connected") /\ Returns(TRUE)
             /\ UNCHANGED <<socket, sndbuf>>
          \/ Returns(FALSE) /\ UNCHANGED <<socket, state, sndbuf>>
  /\ UNCHANGED <<alive, returned>>

Listen(o) ==
  /\ \/ /\ socket[o] # Invalid /\ state[socket[o]] \in {"bound", "listening"}
        /\ Becomes(o, "listening") /\ Returns(TRUE)
     \/ Returns(FALSE) /\ UNCHANGED state
  /\ UNCHANGED <<Own, sndbuf>>

\* Accept returns a handle nobody owns yet, or INVALID_SOCKET.
Accept(o) ==
  /\ \/ /\ socket[o] # Invalid /\ state[socket[o]] = "listening"
        /\ \E h \in Handles : /\ state[h] = "closed"
                              /\ state' = [state EXCEPT ![h] = "connected"]
                              /\ sndbuf' = [sndbuf EXCEPT ![h] = 0]
                              /\ returned' = returned \cup {h}
                              /\ Returns(h)
     \/ Returns(Invalid) /\ UNCHANGED <<state, sndbuf, returned>>
  /\ UNCHANGED <<alive, socket>>

\* Send, Recieve and their forms with an address: a count or SOCKET_ERROR.
Transfer(o) ==
  /\ \/ socket[o] # Invalid /\ state[socket[o]] = "connected" /\ Returns(1)
     \/ Returns(-1)
  /\ UNCHANGED <<Own, state, sndbuf>>

\* setsockopt; every other option is set like this one.
SetSendBufferSize(o, size) ==
  /\ sndbuf' = IF socket[o] = Invalid THEN sndbuf ELSE [sndbuf EXCEPT ![socket[o]] = size]
  /\ UNCHANGED <<Own, state, result>>

\* getsockopt is told that its result has no room and fails.
GetSendBufferSize(o) == Returns(0) /\ UNCHANGED <<Own, state, sndbuf>>

Next == \E o \in Sockets :
          \/ Construct(o)
          \/ \E h \in Handles : ConstructFrom(o, h)
          \/ /\ o \in alive
             /\ \/ Create(o) \/ Close(o) \/ Destroy(o) \/ ShutDown(o) \/ Bind(o)
                \/ Connect(o) \/ Listen(o) \/ Accept(o) \/ Transfer(o)
                \/ GetSendBufferSize(o)
                \/ \E size \in Sizes : SetSendBufferSize(o, size)

Spec == Init /\ [][Next]_vars

-----------------------------------------------------------------------------
(***************************************************************************)
(* A handle that is open has one owner, an object or the caller of Accept, *)
(* and no object keeps a handle that was closed, whatever calls succeed or *)
(* fail in whatever order (Socket.cpp:6-77, TCPSocket.cpp:18-41).          *)
(***************************************************************************)
HandlesHaveOneOwner ==
  \A h \in Handles :
    Quantify({o \in Sockets : socket[o] = h}, LAMBDA o : o \in alive)
      + (IF h \in returned THEN 1 ELSE 0)
    = IF state[h] = "closed" THEN 0 ELSE 1
=============================================================================
