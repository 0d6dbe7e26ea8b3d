---------------------------- MODULE ServerConfig ----------------------------
(***************************************************************************)
(* How the server comes to its units: IocpServer::InitAccepts and          *)
(* InitConnects read ConnectionConfig.json and have ConnectionManager make *)
(* the units, which AutoConnector learns of if they connect out.           *)
(*                                                                         *)
(* The file is what json::parse makes of it: per direction and type an     *)
(* entry, or nothing.  An entry that lacks something ends in an exception. *)
(***************************************************************************)
EXTENDS Integers, Sequences, SequencesExt

CONSTANTS AcceptTypes,    \* classes of units that accept
          ConnectTypes,   \* classes of units that connect out
          MaxAccepts,     \* class -> number of units, for classes that have an entry
          Destinations,   \* class -> the IDs of its destinations, likewise
          Missing,        \* a destination that lacks something
          MaxUnits        \* BOUND: units made in all

VARIABLES file,      \* "missing", "crlf" or "lf": how its lines end
          storage,   \* _netunit_storage
          connects,  \* _connect_list of the AutoConnector
          ports,     \* classes that listen on their port
          thrown     \* an exception has left InitAccepts or InitConnects

vars == <<file, storage, connects, ports, thrown>>

Init == /\ file \in {"missing", "crlf", "lf"}
        /\ storage = << >> /\ connects = << >> /\ ports = {} /\ thrown = FALSE

\* Without a file its size is -1.  A file that has no carriage returns to drop
\* fills the buffer, and the text goes on into the memory behind it.
Outcomes == CASE file = "missing" -> {FALSE}
              [] file = "crlf" -> {TRUE}
              [] file = "lf" -> {TRUE, FALSE}

Throws == thrown' = TRUE /\ UNCHANGED <<file, storage, connects, ports>>

NewUnit(type, direction, id, index) ==
  [type |-> type, direction |-> direction, id |-> id, index |-> index]

\* ConnectionManager::InitAcceptConnections.
AcceptUnits(type) ==
  [i \in 1..MaxAccepts[type] |-> NewUnit(type, "accept", -1, Len(storage) + i - 1)]

\* InitAccepts: the port may be taken, which nobody looks at.
InitAccepts(type) ==
  \E loaded \in Outcomes :
    IF ~loaded \/ type \notin DOMAIN MaxAccepts THEN Throws
    ELSE /\ Len(storage) + MaxAccepts[type] <= MaxUnits   \* BOUND
         /\ storage' = storage \o AcceptUnits(type)
         /\ \E listens \in SUBSET {type} : ports' = ports \cup listens
         /\ UNCHANGED <<file, connects, thrown>>

\* The destinations before the first one that lacks something.
Usable(dests) ==
  LET bad == SelectInSeq(dests, LAMBDA d : d = Missing)
  IN  IF bad = 0 THEN Len(dests) ELSE bad - 1

\* InitConnects: a destination that lacks something ends it, and those before
\* it stay.
InitConnects(type) ==
  \E loaded \in Outcomes :
    IF ~loaded \/ type \notin DOMAIN Destinations THEN Throws
    ELSE LET dests == Destinations[type]
             n == Usable(dests)
             made == [i \in 1..n |-> NewUnit(type, "connect", dests[i],
                                             Len(storage) + i - 1)]
         IN  /\ Len(storage) + n <= MaxUnits   \* BOUND
             /\ storage' = storage \o made
             /\ connects' = connects \o [i \in 1..n |-> made[i].index]
             /\ thrown' = (n < Len(dests))
             /\ UNCHANGED <<file, ports>>

Next == /\ ~thrown
        /\ \/ \E type \in AcceptTypes : InitAccepts(type)
           \/ \E type \in ConnectTypes : InitConnects(type)

Spec == Init /\ [][Next]_vars

-----------------------------------------------------------------------------
(***************************************************************************)
(* The index of a unit is its place in the storage, which Get relies on,   *)
(* and the AutoConnector has exactly the units that connect out, in the    *)
(* order of the storage, also when InitConnects ends in the middle         *)
(* (ConnectionManager.hpp:34-87).                                          *)
(***************************************************************************)
IndexIsPlace ==
  /\ \A i \in 1..Len(storage) : storage[i].index = i - 1
  /\ LET out == SelectSeq(storage, LAMBDA u : u.direction = "connect")
     IN  connects = [i \in 1..Len(out) |-> out[i].index]
=============================================================================
