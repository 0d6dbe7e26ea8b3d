--------------------------- MODULE NetUnit_proofs ---------------------------
(***************************************************************************)
(* Whatever workers, units and pooled objects there are: the state of the  *)
(* units is well formed, every pooled OverlappedEx is in one place, and a  *)
(* completion reaches the handler of the operation that was issued         *)
(* (NetInv).  And where no remote end closes gracefully, a unit is in one  *)
(* stage of its life at a time (LifeInv).                                  *)
(***************************************************************************)
EXTENDS NetUnit, FiniteSetTheorems, TLAPS

DrLabels == {"dr", "drShut", "drOff", "drPost"}

\* What holds of the locals j of thread t when it is at label l.

\* A series of sends that is not over.
InSeries(j, l) == l \in {"send", "wsasend"} \/ (l \in DrLabels /\ j.dret = "send")

\* The unit a thread works on, and the one its call is for.
UnitsKnown(j, l) ==
  /\ l \notin {"idle", "isconnected", "connectex"} \cup DrLabels => j.unit \in Units
  /\ l \in {"wsasend", "isconnected", "connectex"} \cup DrLabels => j.tgt \in Units
  /\ l = "connectex" => j.tgt \in ConnectUnits

\* A series goes back to its handler, and one of a packet to a packet.
SeriesGoesBack(j, l) ==
  InSeries(j, l) => /\ j.unit \in Units
                    /\ j.ret \in {"enable", "processed"}
                    /\ j.ret = "processed" => j.op = "RECIEVE" /\ j.bytes > 0

\* What the label says of the operation that completed.
OperationKnown(j, l) ==
  /\ l = "accepted" => j.op = "ACCEPT"
  /\ l = "connected" => j.op = "CONNECT"
  /\ l = "dispatch" => j.optype = j.op
  /\ l \in {"recieved", "processed"} => j.op = "RECIEVE"
  /\ l = "processed" => j.bytes > 0
  /\ l \in {"disconnect", "cleanup", "bindiocp", "acceptreq", "acceptex"} =>
       j.op = "DISCONNECT" \/ j.bytes = 0

\* An object in hand is a pooled one just when the operation is pooled.
ObjectKnown(j, l) ==
  /\ l \in {"failed", "decode"} => (j.ov = NoOv <=> ~Pooled(j.op))
  /\ l = "wsasend" => j.ov \in Ovs

ConnectorOnly(t, j, l) ==
  t = Connector => l \in {"idle", "isconnected", "connectex"} \cup DrLabels /\ j.dret = "idle"

Fits(t, j, l) == /\ UnitsKnown(j, l) /\ SeriesGoesBack(j, l) /\ OperationKnown(j, l)
                 /\ ObjectKnown(j, l) /\ ConnectorOnly(t, j, l)

JobOK(t, j) == j \in Thread /\ Fits(t, j, j.pc)

JobsOK == /\ th \in [Threads -> Thread]
          /\ \A t \in Threads : JobOK(t, th[t])

SharedOK == /\ WinTypeOK
            /\ active \in [Units -> BOOLEAN]
            /\ free \in SUBSET Ovs
            /\ leaked \in SUBSET Ovs
            /\ memory \in [Ovs -> Operations]
            /\ registered \in SUBSET Units
            /\ regOwner \in Workers \cup {NoThread}

\* What is written in an object on its way is the operation it was used for.
Agree(op, o) == /\ o = NoOv <=> ~Pooled(op)
                /\ o # NoOv => memory[o] = op

Tagged == /\ \A f \in inflight : Agree(f.op, f.ov)
          /\ \A i \in 1..Len(iocp) : Agree(iocp[i].op, iocp[i].ov)
          /\ \A t \in Threads :
               /\ th[t].pc \in {"failed", "decode"} => Agree(th[t].op, th[t].ov)
               /\ th[t].pc = "wsasend" => memory[th[t].ov] = "SEND"

\* The pooled object a thread has in hand.
Hand(t) == IF Holding(t) THEN th[t].ov ELSE NoOv

\* Labels at which a thread has no object in hand.
Empty(l) == l \notin {"failed", "decode", "wsasend"}

\* OneHome, object by object.
Elsewhere(o) == /\ \A f \in inflight : f.ov # o
                /\ \A i \in 1..Len(iocp) : iocp[i].ov # o
                /\ \A t \in Threads : Hand(t) # o
Somewhere(o) == \/ \E f \in inflight : f.ov = o
                \/ \E i \in 1..Len(iocp) : iocp[i].ov = o
                \/ \E t \in Threads : Hand(t) = o

AtHome == /\ \A o \in free : o \notin leaked /\ Elsewhere(o)
          /\ \A o \in leaked : Elsewhere(o)
Apart == /\ \A f \in inflight, i \in 1..Len(iocp) : f.ov = iocp[i].ov => f.ov = NoOv
         /\ \A f \in inflight, t \in Threads : f.ov = Hand(t) => f.ov = NoOv
         /\ \A i \in 1..Len(iocp), t \in Threads : iocp[i].ov = Hand(t) => Hand(t) = NoOv
Single == /\ \A f, g \in inflight : f.ov = g.ov => f.ov = NoOv \/ f = g
          /\ \A i, j \in 1..Len(iocp) : iocp[i].ov = iocp[j].ov => iocp[i].ov = NoOv \/ i = j
          /\ \A s, t \in Threads : Hand(s) = Hand(t) => Hand(s) = NoOv \/ s = t
Located == \A o \in Ovs : o \in free \/ o \in leaked \/ Somewhere(o)

Home == AtHome /\ Apart /\ Single /\ Located

NetInv == SharedOK /\ JobsOK /\ Tagged /\ Home

-----------------------------------------------------------------------------
(* What an action does with the pooled objects.                            *)

\* Nobody but t moves, and t has neither picked up nor put down an object.
Others(t) == \A s \in Threads \ {t} : th'[s] = th[s]

LEMMA Objects ==
  ASSUME NetInv
  PROVE  /\ \A f \in inflight : f \in InFlight /\ f.ov \in Ovs \cup {NoOv}
         /\ \A i \in 1..Len(iocp) : iocp[i] \in Packet /\ iocp[i].ov \in Ovs \cup {NoOv}
         /\ \A t \in Threads : th[t].ov \in Ovs \cup {NoOv} /\ Hand(t) \in Ovs \cup {NoOv}
         /\ \A t \in Threads : th[t].pc = "wsasend" => th[t].ov \in Ovs
<1>1. \A f \in inflight : f \in InFlight /\ f.ov \in Ovs \cup {NoOv}
  BY DEF NetInv, SharedOK, WinTypeOK, InFlight
<1>2. \A i \in 1..Len(iocp) : iocp[i] \in Packet
  BY DEF NetInv, SharedOK, WinTypeOK
<1>3. \A p \in Packet : p.ov \in Ovs \cup {NoOv}
  BY DEF Packet
<1>4. \A t \in Threads : th[t].ov \in Ovs \cup {NoOv}
  BY DEF NetInv, JobsOK, JobOK, Thread
<1>5. \A t \in Threads : th[t].pc = "wsasend" => th[t].ov \in Ovs
  BY DEF NetInv, JobsOK, JobOK, Fits, ObjectKnown
<1>. QED BY <1>1, <1>2, <1>3, <1>4, <1>5 DEF Hand

LEMMA OthersKeep ==
  ASSUME NEW t, Others(t)
  PROVE  \A s \in Threads \ {t} : Hand(s)' = Hand(s)
BY DEF Others, Hand, Holding

\* No object moves; an operation on an embedded object may be issued.
LEMMA NothingMoves ==
  ASSUME NetInv, NEW t \in Threads, Others(t),
         Hand(t)' = Hand(t),
         Empty(th'[t].pc),
         free' = free, leaked' = leaked, memory' = memory, iocp' = iocp,
         inflight \subseteq inflight',
         \A f \in inflight' : f \in inflight \/ (f.ov = NoOv /\ ~Pooled(f.op))
  PROVE  Tagged' /\ Home'
<1>1. \A s \in Threads : Hand(s)' = Hand(s)
  BY OthersKeep
<1>2. Tagged'
  BY DEF NetInv, Tagged, Agree, Empty, Others
<1>3. AtHome'
  BY <1>1, OvsAssumption DEF NetInv, SharedOK, Home, AtHome, Elsewhere
<1>4. Apart'
  BY <1>1 DEF NetInv, Home, Apart
<1>5. Single'
  BY <1>1 DEF NetInv, Home, Single
<1>6. Located'
  BY <1>1 DEF NetInv, Home, Located, Somewhere
<1>. QED BY <1>2, <1>3, <1>4, <1>5, <1>6 DEF Home

\* An object in hand goes back to the pool.
LEMMA ObjectReturns ==
  ASSUME NetInv, NEW t \in Threads, Others(t),
         Hand(t) \in Ovs, GiveBack(Hand(t)),
         Hand(t)' = NoOv,
         Empty(th'[t].pc),
         leaked' = leaked, iocp' = iocp, inflight' = inflight
  PROVE  Tagged' /\ Home'
<1> DEFINE o == Hand(t)
<1>1. \A s \in Threads \ {t} : Hand(s)' = Hand(s)
  BY OthersKeep
<1>2. o # NoOv /\ free' = free \cup {o} /\ \A p \in Ovs \ {o} : memory'[p] = memory[p]
  BY OvsAssumption DEF GiveBack, NetInv, SharedOK
<1>3. /\ \A f \in inflight : f.ov # o
      /\ \A i \in 1..Len(iocp) : iocp[i].ov # o
      /\ \A s \in Threads \ {t} : Hand(s) # o
      /\ o \notin leaked
  BY <1>2 DEF NetInv, Home, Apart, Single, AtHome, Elsewhere
<1> HIDE DEF o
<1>4. Tagged'
  <2>1. \A s \in Threads \ {t} : th[s].pc \in {"failed", "decode", "wsasend"} => th[s].ov # o
    BY <1>2, <1>3 DEF Hand, Holding
  <2>. QED BY <1>2, <1>3, <2>1, Objects DEF NetInv, Tagged, Agree, Empty, Others
<1>5. AtHome'
  BY <1>1, <1>2, <1>3, OvsAssumption DEF NetInv, SharedOK, Home, AtHome, Elsewhere
<1>6. Apart' /\ Single'
  BY <1>1, <1>2 DEF NetInv, Home, Apart, Single
<1>7. Located'
  BY <1>1, <1>2 DEF NetInv, Home, Located, Somewhere, o
<1>. QED BY <1>4, <1>5, <1>6, <1>7 DEF Home

\* An object leaves the pool for the hand of a thread, with an operation in it.
LEMMA ObjectTaken ==
  ASSUME NetInv, NEW t \in Threads, Others(t), NEW o \in Ovs,
         Take(o, "SEND"), Hand(t) = NoOv, Hand(t)' = o, th'[t].ov = o,
         th'[t].pc = "wsasend",
         leaked' = leaked, iocp' = iocp, inflight' = inflight
  PROVE  Tagged' /\ Home'
<1>1. \A s \in Threads \ {t} : Hand(s)' = Hand(s)
  BY OthersKeep
<1>2. /\ o \in free /\ free' = free \ {o} /\ o # NoOv
      /\ memory'[o] = "SEND"
      /\ \A p \in Ovs \ {o} : memory'[p] = memory[p]
  BY OvsAssumption DEF Take, NetInv, SharedOK
<1>3. Elsewhere(o) /\ o \notin leaked
  BY <1>2 DEF NetInv, Home, AtHome
<1>4. Tagged'
  <2>1. \A s \in Threads \ {t} : th[s].pc \in {"failed", "decode", "wsasend"} => th[s].ov # o
    BY <1>2, <1>3 DEF Hand, Holding, Elsewhere
  <2>. QED BY <1>2, <1>3, <2>1, Objects DEF NetInv, Tagged, Agree, Empty, Others, Elsewhere
<1>5. AtHome'
  BY <1>1, <1>2, <1>3 DEF NetInv, SharedOK, Home, AtHome, Elsewhere
<1>6. Apart' /\ Single'
  BY <1>1, <1>2, <1>3 DEF NetInv, Home, Apart, Single, Elsewhere
<1>7. Located'
  BY <1>1, <1>2, OvsAssumption DEF NetInv, Home, Located, Somewhere
<1>. QED BY <1>4, <1>5, <1>6, <1>7 DEF Home

\* An object goes from a hand to the kernel with the operation in it.
LEMMA ObjectIssued ==
  ASSUME NetInv, NEW t \in Threads, Others(t), NEW f, f.ov = Hand(t), Hand(t) \in Ovs,
         Pooled(f.op), memory[Hand(t)] = f.op, inflight' = inflight \cup {f}, Hand(t)' = NoOv,
         Empty(th'[t].pc),
         free' = free, leaked' = leaked, memory' = memory, iocp' = iocp
  PROVE  Tagged' /\ Home'
<1> DEFINE o == Hand(t)
<1>1. \A s \in Threads \ {t} : Hand(s)' = Hand(s)
  BY OthersKeep
<1>2. o # NoOv
  BY OvsAssumption
<1>3. /\ \A g \in inflight : g.ov # o
      /\ \A i \in 1..Len(iocp) : iocp[i].ov # o
      /\ \A s \in Threads \ {t} : Hand(s) # o
      /\ o \notin leaked /\ o \notin free
  BY <1>2 DEF NetInv, Home, Apart, Single, AtHome, Elsewhere
<1> HIDE DEF o
<1>0. f.ov = o
  BY DEF o
<1>4. Tagged'
  BY <1>0, <1>2 DEF NetInv, Tagged, Agree, Empty, Others, o
<1>5. AtHome'
  BY <1>0, <1>1, <1>2, <1>3, OvsAssumption DEF NetInv, SharedOK, Home, AtHome, Elsewhere
<1>6. Apart' /\ Single'
  BY <1>0, <1>1, <1>2, <1>3 DEF NetInv, Home, Apart, Single
<1>7. Located'
  BY <1>0, <1>1, <1>2 DEF NetInv, Home, Located, Somewhere, o
<1>. QED BY <1>4, <1>5, <1>6, <1>7 DEF Home

\* An object in hand is lost.
LEMMA ObjectLost ==
  ASSUME NetInv, NEW t \in Threads, Others(t), Hand(t) \in Ovs,
         leaked' = leaked \cup {Hand(t)}, Hand(t)' = NoOv,
         Empty(th'[t].pc),
         free' = free, memory' = memory, iocp' = iocp, inflight' = inflight
  PROVE  Tagged' /\ Home'
<1> DEFINE o == Hand(t)
<1>1. \A s \in Threads \ {t} : Hand(s)' = Hand(s)
  BY OthersKeep
<1>2. o # NoOv
  BY OvsAssumption
<1>3. /\ \A g \in inflight : g.ov # o
      /\ \A i \in 1..Len(iocp) : iocp[i].ov # o
      /\ \A s \in Threads \ {t} : Hand(s) # o
      /\ o \notin free
  BY <1>2 DEF NetInv, Home, Apart, Single, AtHome, Elsewhere
<1> HIDE DEF o
<1>0. leaked' = leaked \cup {o}
  BY DEF o
<1>4. Tagged'
  BY DEF NetInv, Tagged, Agree, Empty, Others
<1>5. AtHome'
  BY <1>0, <1>1, <1>2, <1>3, OvsAssumption DEF NetInv, SharedOK, Home, AtHome, Elsewhere
<1>6. Apart' /\ Single'
  BY <1>1, <1>2 DEF NetInv, Home, Apart, Single
<1>7. Located'
  BY <1>0, <1>1, <1>2 DEF NetInv, Home, Located, Somewhere, o
<1>. QED BY <1>4, <1>5, <1>6, <1>7 DEF Home

\* A packet at the end of the queue.
LEMMA Appended ==
  ASSUME NetInv, NEW p, iocp' = Append(iocp, p)
  PROVE  /\ Len(iocp') = Len(iocp) + 1
         /\ Len(iocp) \in Nat
         /\ \A i \in 1..Len(iocp') : i = Len(iocp) + 1 \/ i \in 1..Len(iocp)
         /\ \A i \in 1..Len(iocp) : i \in 1..Len(iocp') /\ i # Len(iocp) + 1 /\ iocp'[i] = iocp[i]
         /\ Len(iocp) + 1 \in 1..Len(iocp')
         /\ iocp'[Len(iocp) + 1] = p
BY DEF NetInv, SharedOK, WinTypeOK

\* The kernel completes an operation, and its object moves on to the queue.
LEMMA ObjectCompletes ==
  ASSUME NetInv, NEW f \in inflight, NEW ok, NEW bytes, Complete(f, ok, bytes), Heard(f),
         UNCHANGED <<th, free, leaked, memory>>
  PROVE  Tagged' /\ Home'
<1> DEFINE p == PacketOf(f, ok, bytes)
           n == Len(iocp) + 1
<1>1. p.ov = f.ov /\ p.op = f.op
  BY DEF PacketOf
<1>2. iocp' = Append(iocp, p) /\ inflight' = inflight \ {f}
  BY DEF Complete
<1>3. /\ \A i \in 1..Len(iocp') : i = n \/ i \in 1..Len(iocp)
      /\ \A i \in 1..Len(iocp) : i \in 1..Len(iocp') /\ i # n /\ iocp'[i] = iocp[i]
      /\ n \in 1..Len(iocp') /\ iocp'[n].ov = f.ov /\ iocp'[n].op = f.op
  BY <1>1, <1>2, Appended
<1>4. \A s \in Threads : Hand(s)' = Hand(s)
  BY DEF Hand, Holding
<1> HIDE DEF p, n
<1>5. Tagged'
  BY <1>2, <1>3 DEF NetInv, Tagged, Agree, Empty
<1>6. AtHome'
  BY <1>2, <1>3, <1>4 DEF NetInv, Home, AtHome, Elsewhere
<1>7. Apart'
  BY <1>2, <1>3, <1>4 DEF NetInv, Home, Apart, Single
<1>8. Single'
  BY <1>2, <1>3, <1>4 DEF NetInv, Home, Apart, Single
<1>9. Located'
  <2>1. \A g \in inflight : g \in inflight' \/ g.ov = iocp'[n].ov
    BY <1>2, <1>3
  <2>. QED BY <1>2, <1>3, <1>4, <2>1 DEF NetInv, Home, Located, Somewhere
<1>. QED BY <1>5, <1>6, <1>7, <1>8, <1>9 DEF Home

\* ... and on a socket that no port knows, its object is lost.
LEMMA ObjectUnheard ==
  ASSUME NetInv, NEW f \in inflight, NEW ok, NEW bytes, Complete(f, ok, bytes), ~Heard(f),
         leaked' = leaked \cup Unheard(f), UNCHANGED <<th, free, memory>>
  PROVE  Tagged' /\ Home'
<1>1. iocp' = iocp /\ inflight' = inflight \ {f} /\ leaked' = leaked \cup ({f.ov} \ {NoOv})
  BY DEF Complete, Unheard
<1>2. \A s \in Threads : Hand(s)' = Hand(s)
  BY DEF Hand, Holding
<1>3. Tagged'
  BY <1>1 DEF NetInv, Tagged, Agree, Empty
<1>4. AtHome'
  BY <1>1, <1>2, OvsAssumption DEF NetInv, SharedOK, Home, AtHome, Elsewhere, Apart, Single
<1>5. Apart' /\ Single'
  BY <1>1, <1>2 DEF NetInv, Home, Apart, Single
<1>6. Located'
  BY <1>1, <1>2, OvsAssumption DEF NetInv, Home, Located, Somewhere
<1>. QED BY <1>3, <1>4, <1>5, <1>6 DEF Home

\* An object goes from the pool to the queue.
LEMMA ObjectPosted ==
  ASSUME NetInv, NEW t \in Threads, Others(t), NEW o \in Ovs, NEW op \in Operations, NEW p,
         Take(o, op), Pooled(op), p.ov = o, p.op = op, iocp' = Append(iocp, p),
         Hand(t) = NoOv, Hand(t)' = NoOv, Empty(th'[t].pc),
         leaked' = leaked, inflight' = inflight
  PROVE  Tagged' /\ Home'
<1> DEFINE n == Len(iocp) + 1
<1>1. \A s \in Threads : Hand(s)' = Hand(s)
  BY OthersKeep
<1>2. /\ o \in free /\ free' = free \ {o} /\ o # NoOv
      /\ memory'[o] = op
      /\ \A q \in Ovs \ {o} : memory'[q] = memory[q]
  BY OvsAssumption DEF Take, NetInv, SharedOK
<1>3. Elsewhere(o) /\ o \notin leaked
  BY <1>2 DEF NetInv, Home, AtHome
<1>4. /\ \A i \in 1..Len(iocp') : i = n \/ i \in 1..Len(iocp)
      /\ \A i \in 1..Len(iocp) : i \in 1..Len(iocp') /\ i # n /\ iocp'[i] = iocp[i]
      /\ n \in 1..Len(iocp') /\ iocp'[n].ov = o /\ iocp'[n].op = op
  BY Appended
<1> HIDE DEF n
<1>5. Tagged'
  <2>1. \A s \in Threads \ {t} : th[s].pc \in {"failed", "decode", "wsasend"} => th[s].ov # o
    BY <1>2, <1>3 DEF Hand, Holding, Elsewhere
  <2>. QED BY <1>2, <1>3, <1>4, <2>1, Objects DEF NetInv, Tagged, Agree, Empty, Others, Elsewhere
<1>6. AtHome'
  BY <1>1, <1>2, <1>3, <1>4 DEF NetInv, SharedOK, Home, AtHome, Elsewhere
<1>7. Apart' /\ Single'
  BY <1>1, <1>2, <1>3, <1>4 DEF NetInv, Home, Apart, Single, Elsewhere
<1>8. Located'
  BY <1>1, <1>2, <1>4 DEF NetInv, Home, Located, Somewhere
<1>. QED BY <1>5, <1>6, <1>7, <1>8 DEF Home

\* A worker takes the first packet of the queue, with its object.
LEMMA ObjectDequeued ==
  ASSUME NetInv, NEW t \in Threads, Others(t), iocp # << >>, iocp' = Tail(iocp),
         Hand(t) = NoOv, th'[t].pc \in {"failed", "decode"},
         th'[t].ov = Head(iocp).ov, th'[t].op = Head(iocp).op,
         free' = free, leaked' = leaked, memory' = memory, inflight' = inflight
  PROVE  Tagged' /\ Home'
<1>1. /\ Len(iocp) \in Nat /\ 1 \in 1..Len(iocp)
      /\ Head(iocp) = iocp[1]
      /\ Len(iocp') = Len(iocp) - 1
      /\ \A i \in 1..Len(iocp') : i + 1 \in 1..Len(iocp) /\ i + 1 # 1 /\ iocp'[i] = iocp[i + 1]
      /\ \A i \in 1..Len(iocp) : i = 1 \/ (i - 1 \in 1..Len(iocp') /\ iocp'[i - 1] = iocp[i])
  BY DEF NetInv, SharedOK, WinTypeOK
<1>2. \A i, j \in 1..Len(iocp') : i + 1 = j + 1 => i = j
  OBVIOUS
<1>3. \A s \in Threads \ {t} : Hand(s)' = Hand(s)
  BY OthersKeep
<1>4. Hand(t)' = iocp[1].ov
  BY <1>1 DEF Hand, Holding
<1>5. Tagged'
  BY <1>1 DEF NetInv, Tagged, Agree, Empty, Others
<1>6. AtHome'
  BY <1>1, <1>3, <1>4 DEF NetInv, Home, AtHome, Elsewhere
<1>7. Apart'
  BY <1>1, <1>3, <1>4 DEF NetInv, Home, Apart, Single
<1>8. Single'
  BY <1>1, <1>2, <1>3, <1>4 DEF NetInv, Home, Apart, Single
<1>9. Located'
  BY <1>1, <1>3, <1>4, OvsAssumption DEF NetInv, Home, Located, Somewhere
<1>. QED BY <1>5, <1>6, <1>7, <1>8, <1>9 DEF Home

-----------------------------------------------------------------------------
(* Steps that only change what a thread is at.                             *)

LEMMA Moved ==
  ASSUME NetInv, NEW t \in Threads, NEW job, Go(t, job)
  PROVE  /\ th'[t] = job /\ Others(t)
         /\ JobOK(t, job) => JobsOK'
<1>1. th \in [Threads -> Thread]
  BY DEF NetInv, JobsOK
<1>2. th'[t] = job /\ Others(t) /\ (job \in Thread => th' \in [Threads -> Thread])
  BY <1>1 DEF Go, Others
<1>. QED BY <1>2 DEF NetInv, JobsOK, JobOK, Others

LEMMA IdleIsOK == \A t \in Threads : JobOK(t, Idle) /\ Idle.pc = "idle"
BY OvsAssumption, UnitsAssumption
   DEF JobOK, Fits, Idle, Thread, Labels, Operations, UnitsKnown, SeriesGoesBack, InSeries,
       DrLabels, OperationKnown, ObjectKnown, ConnectorOnly

\* A thread whose hand is and stays empty moves; nothing else it does
\* concerns the objects.
LEMMA JustMoves ==
  ASSUME NetInv, NEW t \in Threads, NEW job, Go(t, job), Empty(th[t].pc), Empty(job.pc),
         JobOK(t, job),
         UNCHANGED <<free, leaked, memory, iocp>>,
         inflight \subseteq inflight',
         \A f \in inflight' : f \in inflight \/ (f.ov = NoOv /\ ~Pooled(f.op))
  PROVE  JobsOK' /\ Tagged' /\ Home'
<1>1. th'[t] = job /\ Others(t) /\ JobsOK'
  BY Moved
<1>2. Hand(t)' = NoOv /\ Hand(t) = NoOv
  BY <1>1 DEF Hand, Holding, Empty
<1>. QED BY <1>1, <1>2, NothingMoves DEF Empty

\* ... only to another label ...
LEMMA JustSteps ==
  ASSUME NetInv, NEW t \in Threads, NEW l \in Labels, Step(t, l), Empty(th[t].pc), Empty(l),
         Fits(t, th[t], l), UNCHANGED <<free, leaked, memory, iocp, inflight>>
  PROVE  JobsOK' /\ Tagged' /\ Home'
<1> DEFINE job == [th[t] EXCEPT !.pc = l]
<1>0. th[t] \in Thread
  BY DEF NetInv, JobsOK, JobOK
<1>1. /\ job \in Thread /\ job.pc = l /\ job.op = th[t].op /\ job.optype = th[t].optype
      /\ job.unit = th[t].unit /\ job.tgt = th[t].tgt /\ job.bytes = th[t].bytes
      /\ job.ov = th[t].ov /\ job.ret = th[t].ret /\ job.dret = th[t].dret
  BY <1>0 DEF Thread
<1>2. Go(t, job)
  BY DEF Step
<1> HIDE DEF job
<1>3. JobOK(t, job)
  BY <1>1 DEF JobOK, Fits, UnitsKnown, SeriesGoesBack, InSeries, OperationKnown, ObjectKnown,
              ConnectorOnly
<1>. QED BY <1>1, <1>2, <1>3, JustMoves

\* ... or to the end of its packet.
LEMMA JustFinishes ==
  ASSUME NetInv, NEW t \in Threads, Finish(t), Empty(th[t].pc),
         UNCHANGED <<free, leaked, memory, iocp, inflight>>
  PROVE  JobsOK' /\ Tagged' /\ Home'
<1>1. JobOK(t, Idle) /\ Empty(Idle.pc)
  BY IdleIsOK DEF Empty
<1>. QED BY <1>1, JustMoves DEF Finish

\* What is known of a worker at a label.
LEMMA WorkerAt ==
  ASSUME NetInv, NEW w \in Workers
  PROVE  w \in Threads /\ w # Connector /\ th[w] \in Thread /\ Fits(w, th[w], th[w].pc)
BY ThreadsAssumption DEF Threads, NetInv, JobsOK, JobOK

LEMMA DispatchOK == ASSUME NetInv, NEW w \in Workers, Dispatch(w) PROVE NetInv'
<1>0. /\ w \in Threads /\ w # Connector /\ th[w] \in Thread
      /\ Fits(w, th[w], "dispatch") /\ th[w].pc = "dispatch" /\ Empty(th[w].pc)
  BY WorkerAt DEF Dispatch, At, Empty
<1>1. SharedOK'
  BY DEF Dispatch, NetInv, SharedOK, WinTypeOK, winVars, sockVars, poolVars, regVars
<1>2. UNCHANGED <<free, leaked, memory, iocp, inflight>>
  BY DEF Dispatch, winVars, sockVars, poolVars
<1>3. CASE Finish(w)
  BY <1>0, <1>1, <1>2, <1>3, JustFinishes DEF NetInv
<1>4. CASE Step(w, "recieved") /\ th[w].optype = "RECIEVE"
  <2>1. Fits(w, th[w], "recieved") /\ Empty("recieved") /\ "recieved" \in Labels
    BY <1>0, <1>4 DEF Fits, UnitsKnown, SeriesGoesBack, InSeries, DrLabels, OperationKnown,
                      ObjectKnown, ConnectorOnly, Empty, Labels
  <2>. QED BY <1>0, <1>1, <1>2, <1>4, <2>1, JustSteps DEF NetInv
<1>5. CASE Step(w, "disconnect") /\ (th[w].optype = "DISCONNECT" \/ th[w].bytes = 0)
  <2>1. Fits(w, th[w], "disconnect") /\ Empty("disconnect") /\ "disconnect" \in Labels
    BY <1>0, <1>5 DEF Fits, UnitsKnown, SeriesGoesBack, InSeries, DrLabels, OperationKnown,
                      ObjectKnown, ConnectorOnly, Empty, Labels
  <2>. QED BY <1>0, <1>1, <1>2, <1>5, <2>1, JustSteps DEF NetInv
<1>. QED BY <1>3, <1>4, <1>5 DEF Dispatch

-----------------------------------------------------------------------------
(* The handlers.                                                           *)

LEMMA UpdateContextOK == ASSUME NetInv, NEW w \in Workers, UpdateContext(w) PROVE NetInv'
<1>0. /\ w \in Threads /\ w # Connector /\ th[w] \in Thread
      /\ Fits(w, th[w], th[w].pc) /\ th[w].pc \in {"accepted", "connected"} /\ Empty(th[w].pc)
  BY WorkerAt DEF UpdateContext, At, Empty
<1>1. SharedOK'
  BY DEF UpdateContext, NetInv, SharedOK, WinTypeOK, winVars, sockVars, poolVars, regVars
<1>2. UNCHANGED <<free, leaked, memory, iocp, inflight>>
  BY DEF UpdateContext, winVars, sockVars, poolVars
<1>3. CASE Step(w, "iostart")
  <2>1. Fits(w, th[w], "iostart") /\ Empty("iostart") /\ "iostart" \in Labels
    BY <1>0, <1>3 DEF Fits, UnitsKnown, SeriesGoesBack, InSeries, DrLabels, OperationKnown,
                      ObjectKnown, ConnectorOnly, Empty, Labels
  <2>. QED BY <1>0, <1>1, <1>2, <1>3, <2>1, JustSteps DEF NetInv
<1>4. CASE Finish(w)
  BY <1>0, <1>1, <1>2, <1>4, JustFinishes DEF NetInv
<1>. QED BY <1>3, <1>4 DEF UpdateContext

LEMMA IoStartOK == ASSUME NetInv, NEW w \in Workers, IoStart(w) PROVE NetInv'
<1>0. /\ w \in Threads /\ w # Connector /\ th[w] \in Thread
      /\ Fits(w, th[w], th[w].pc) /\ th[w].pc = "iostart" /\ Empty(th[w].pc)
  BY WorkerAt DEF IoStart, At, Empty
<1>1. SharedOK'
  BY DEF IoStart, NetInv, SharedOK, WinTypeOK, winVars, sockVars, poolVars, regVars
<1>2. UNCHANGED <<free, leaked, memory, iocp, inflight>>
  BY DEF IoStart, winVars, sockVars, poolVars
<1>3. CASE Step(w, "onconnect")
  <2>1. Fits(w, th[w], "onconnect") /\ Empty("onconnect") /\ "onconnect" \in Labels
    BY <1>0, <1>3 DEF Fits, UnitsKnown, SeriesGoesBack, InSeries, DrLabels, OperationKnown,
                      ObjectKnown, ConnectorOnly, Empty, Labels
  <2>. QED BY <1>0, <1>1, <1>2, <1>3, <2>1, JustSteps DEF NetInv
<1>4. CASE Finish(w)
  BY <1>0, <1>1, <1>2, <1>4, JustFinishes DEF NetInv
<1>. QED BY <1>3, <1>4 DEF IoStart

LEMMA EnableOK == ASSUME NetInv, NEW w \in Workers, Enable(w) PROVE NetInv'
<1>0. /\ w \in Threads /\ w # Connector /\ th[w] \in Thread
      /\ Fits(w, th[w], th[w].pc) /\ th[w].pc = "enable" /\ Empty(th[w].pc)
  BY WorkerAt DEF Enable, At, Empty
<1>1. SharedOK'
  BY DEF Enable, NetInv, SharedOK, WinTypeOK, winVars, sockVars, poolVars, regVars
<1>2. UNCHANGED <<free, leaked, memory, iocp, inflight>>
  BY DEF Enable, winVars, sockVars, poolVars
<1>3. CASE Step(w, "rearm")
  <2>1. Fits(w, th[w], "rearm") /\ Empty("rearm") /\ "rearm" \in Labels
    BY <1>0, <1>3 DEF Fits, UnitsKnown, SeriesGoesBack, InSeries, DrLabels, OperationKnown,
                      ObjectKnown, ConnectorOnly, Empty, Labels
  <2>. QED BY <1>0, <1>1, <1>2, <1>3, <2>1, JustSteps DEF NetInv
<1>. QED BY <1>3 DEF Enable

LEMMA RecieveRequestOK == ASSUME NetInv, NEW w \in Workers, RecieveRequest(w) PROVE NetInv'
<1>0. /\ w \in Threads /\ w # Connector /\ th[w] \in Thread
      /\ Fits(w, th[w], th[w].pc) /\ th[w].pc = "rearm" /\ Empty(th[w].pc)
  BY WorkerAt DEF RecieveRequest, At, Empty
<1>1. SharedOK'
  BY DEF RecieveRequest, NetInv, SharedOK, WinTypeOK, winVars, sockVars, poolVars, regVars
<1>2. UNCHANGED <<free, leaked, memory, iocp, inflight>>
  BY DEF RecieveRequest, winVars, sockVars, poolVars
<1>3. CASE Step(w, "wsarecv")
  <2>1. Fits(w, th[w], "wsarecv") /\ Empty("wsarecv") /\ "wsarecv" \in Labels
    BY <1>0, <1>3 DEF Fits, UnitsKnown, SeriesGoesBack, InSeries, DrLabels, OperationKnown,
                      ObjectKnown, ConnectorOnly, Empty, Labels
  <2>. QED BY <1>0, <1>1, <1>2, <1>3, <2>1, JustSteps DEF NetInv
<1>4. CASE Finish(w)
  BY <1>0, <1>1, <1>2, <1>4, JustFinishes DEF NetInv
<1>. QED BY <1>3, <1>4 DEF RecieveRequest

LEMMA OnDisconnectOK == ASSUME NetInv, NEW w \in Workers, OnDisconnect(w) PROVE NetInv'
<1>0. /\ w \in Threads /\ w # Connector /\ th[w] \in Thread
      /\ Fits(w, th[w], th[w].pc) /\ th[w].pc = "disconnect" /\ Empty(th[w].pc)
  BY WorkerAt DEF OnDisconnect, At, Empty
<1>1. SharedOK'
  BY DEF OnDisconnect, NetInv, SharedOK, WinTypeOK, winVars, sockVars, poolVars, regVars
<1>2. UNCHANGED <<free, leaked, memory, iocp, inflight>>
  BY DEF OnDisconnect, winVars, sockVars, poolVars
<1>3. CASE Step(w, "cleanup")
  <2>1. Fits(w, th[w], "cleanup") /\ Empty("cleanup") /\ "cleanup" \in Labels
    BY <1>0, <1>3 DEF Fits, UnitsKnown, SeriesGoesBack, InSeries, DrLabels, OperationKnown,
                      ObjectKnown, ConnectorOnly, Empty, Labels
  <2>. QED BY <1>0, <1>1, <1>2, <1>3, <2>1, JustSteps DEF NetInv
<1>. QED BY <1>3 DEF OnDisconnect

LEMMA CleanupOK == ASSUME NetInv, NEW w \in Workers, Cleanup(w) PROVE NetInv'
<1>0. /\ w \in Threads /\ w # Connector /\ th[w] \in Thread
      /\ Fits(w, th[w], th[w].pc) /\ th[w].pc = "cleanup" /\ Empty(th[w].pc)
  BY WorkerAt DEF Cleanup, At, Empty
<1>1. SharedOK'
  <2>1. th[w].unit \in Units
    BY <1>0 DEF Fits, UnitsKnown, DrLabels
  <2>2. /\ UNCHANGED <<enabled, session, inflight, iocp, active, poolVars, regVars>>
        /\ sock' \in [Units -> {"invalid", "fresh", "linked", "down"}]
        /\ peer' \in [Units -> {"none", "open", "fin", "rst"}]
    BY DEF Cleanup, Reuse, Bind, NetInv, SharedOK, WinTypeOK
  <2>3. loose' \in SUBSET ConnectUnits
    BY <2>1 DEF Cleanup, Bind, Units, NetInv, SharedOK, WinTypeOK
  <2>. QED BY <2>2, <2>3 DEF NetInv, SharedOK, WinTypeOK, poolVars, regVars
<1>2. UNCHANGED <<free, leaked, memory, iocp, inflight>>
  BY DEF Cleanup, winVars, sockVars, poolVars
<1>3. ASSUME NEW l \in {"acceptreq", "bindiocp"}, Step(w, l) PROVE NetInv'
  <2>1. Fits(w, th[w], l) /\ Empty(l) /\ l \in Labels
    BY <1>0 DEF Fits, UnitsKnown, SeriesGoesBack, InSeries, DrLabels, OperationKnown,
                ObjectKnown, ConnectorOnly, Empty, Labels
  <2>. QED BY <1>0, <1>1, <1>2, <1>3, <2>1, JustSteps DEF NetInv
<1>. QED BY <1>3 DEF Cleanup

LEMMA BindIocpOK == ASSUME NetInv, NEW w \in Workers, BindIocp(w) PROVE NetInv'
<1>0. w \in Threads /\ th[w].pc = "bindiocp" /\ Empty(th[w].pc)
  BY WorkerAt DEF BindIocp, At, Empty
<1>1. SharedOK'
  BY DEF BindIocp, Associate, NetInv, SharedOK, WinTypeOK, poolVars, regVars
<1>2. UNCHANGED <<free, leaked, memory, iocp, inflight>> /\ Finish(w)
  BY DEF BindIocp, poolVars
<1>. QED BY <1>0, <1>1, <1>2, JustFinishes DEF NetInv

LEMMA AcceptRequestOK == ASSUME NetInv, NEW w \in Workers, AcceptRequest(w) PROVE NetInv'
<1>0. /\ w \in Threads /\ w # Connector /\ th[w] \in Thread
      /\ Fits(w, th[w], th[w].pc) /\ th[w].pc = "acceptreq" /\ Empty(th[w].pc)
  BY WorkerAt DEF AcceptRequest, At, Empty
<1>1. SharedOK'
  BY DEF AcceptRequest, NetInv, SharedOK, WinTypeOK, winVars, sockVars, poolVars, regVars
<1>2. UNCHANGED <<free, leaked, memory, iocp, inflight>>
  BY DEF AcceptRequest, winVars, sockVars, poolVars
<1>3. CASE Step(w, "acceptex")
  <2>1. Fits(w, th[w], "acceptex") /\ Empty("acceptex") /\ "acceptex" \in Labels
    BY <1>0, <1>3 DEF Fits, UnitsKnown, SeriesGoesBack, InSeries, DrLabels, OperationKnown,
                      ObjectKnown, ConnectorOnly, Empty, Labels
  <2>. QED BY <1>0, <1>1, <1>2, <1>3, <2>1, JustSteps DEF NetInv
<1>4. CASE Finish(w)
  BY <1>0, <1>1, <1>2, <1>4, JustFinishes DEF NetInv
<1>. QED BY <1>3, <1>4 DEF AcceptRequest

-----------------------------------------------------------------------------
(* DisconnectRequest, by a worker or by the AutoConnector.                 *)

\* What is known of any thread.
LEMMA ThreadAt ==
  ASSUME NetInv, NEW t \in Threads
  PROVE  th[t] \in Thread /\ Fits(t, th[t], th[t].pc)
BY DEF NetInv, JobsOK, JobOK

LEMMA ResumeOK ==
  ASSUME NetInv, NEW t \in Threads, th[t].pc \in DrLabels, Resume(t)
  PROVE  \E job : Go(t, job) /\ JobOK(t, job) /\ Empty(job.pc)
<1>0. th[t] \in Thread /\ Fits(t, th[t], th[t].pc)
  BY ThreadAt
<1>1. CASE Finish(t)
  <2>1. JobOK(t, Idle) /\ Empty(Idle.pc)
    BY IdleIsOK DEF Empty
  <2>. QED BY <1>1, <2>1 DEF Finish
<1>2. CASE th[t].dret # "idle" /\ Back(t)
  <2> DEFINE job == [th[t] EXCEPT !.pc = th[t].dret, !.tgt = NoUnit, !.ov = NoOv, !.dret = "idle"]
  <2>1. th[t].dret = "send"
    BY <1>0, <1>2 DEF Thread
  <2>2. /\ job \in Thread /\ job.pc = "send" /\ job.dret = "idle"
        /\ job.unit = th[t].unit /\ job.op = th[t].op /\ job.bytes = th[t].bytes
        /\ job.ret = th[t].ret
    BY <1>0, <2>1 DEF Thread, Labels
  <2>3. Go(t, job)
    BY <1>2 DEF Back
  <2> HIDE DEF job
  <2>4. JobOK(t, job) /\ Empty(job.pc)
    BY <1>0, <2>1, <2>2 DEF JobOK, Fits, UnitsKnown, SeriesGoesBack, InSeries, DrLabels,
                            OperationKnown, ObjectKnown, ConnectorOnly, Empty
  <2>. QED BY <2>3, <2>4
<1>. QED BY <1>1, <1>2 DEF Resume

LEMMA DisconnectRequestOK ==
  ASSUME NetInv, NEW t \in Threads, DisconnectRequest(t)
  PROVE  NetInv'
<1>0. /\ th[t] \in Thread /\ Fits(t, th[t], "dr") /\ th[t].pc = "dr" /\ Empty(th[t].pc)
      /\ th[t].pc \in DrLabels
  BY ThreadAt DEF DisconnectRequest, At, Empty, DrLabels
<1>1. SharedOK'
  BY DEF DisconnectRequest, NetInv, SharedOK, WinTypeOK, winVars, sockVars, poolVars, regVars
<1>2. UNCHANGED <<free, leaked, memory, iocp, inflight>>
  BY DEF DisconnectRequest, winVars, sockVars, poolVars
<1>3. CASE Step(t, "drShut")
  <2>1. Fits(t, th[t], "drShut") /\ Empty("drShut") /\ "drShut" \in Labels
    BY <1>0 DEF Fits, UnitsKnown, SeriesGoesBack, InSeries, DrLabels, OperationKnown,
                ObjectKnown, ConnectorOnly, Empty, Labels
  <2>. QED BY <1>0, <1>1, <1>2, <1>3, <2>1, JustSteps DEF NetInv
<1>4. CASE Resume(t)
  <2>1. PICK job : Go(t, job) /\ JobOK(t, job) /\ Empty(job.pc)
    BY <1>0, <1>4, ResumeOK
  <2>. QED BY <1>0, <1>1, <1>2, <2>1, JustMoves DEF NetInv
<1>. QED BY <1>3, <1>4 DEF DisconnectRequest

LEMMA ShutDownSocketOK ==
  ASSUME NetInv, NEW t \in Threads, ShutDownSocket(t)
  PROVE  NetInv'
<1>0. th[t] \in Thread /\ Fits(t, th[t], "drShut") /\ th[t].pc = "drShut" /\ Empty(th[t].pc)
  BY ThreadAt DEF ShutDownSocket, At, Empty
<1>1. SharedOK'
  BY DEF ShutDownSocket, ShutDown, NetInv, SharedOK, WinTypeOK, poolVars, regVars
<1>2. UNCHANGED <<free, leaked, memory, iocp, inflight>> /\ Step(t, "drOff")
  BY DEF ShutDownSocket, poolVars
<1>3. Fits(t, th[t], "drOff") /\ Empty("drOff") /\ "drOff" \in Labels
  BY <1>0 DEF Fits, UnitsKnown, SeriesGoesBack, InSeries, DrLabels, OperationKnown,
              ObjectKnown, ConnectorOnly, Empty, Labels
<1>. QED BY <1>0, <1>1, <1>2, <1>3, JustSteps DEF NetInv

LEMMA CloseOrDisableOK ==
  ASSUME NetInv, NEW t \in Threads, CloseOrDisable(t)
  PROVE  NetInv'
<1>0. th[t] \in Thread /\ Fits(t, th[t], "drOff") /\ th[t].pc = "drOff" /\ Empty(th[t].pc)
  BY ThreadAt DEF CloseOrDisable, At, Empty
<1>1. SharedOK'
  BY DEF CloseOrDisable, Close, NetInv, SharedOK, WinTypeOK, poolVars, regVars
<1>2. UNCHANGED <<free, leaked, memory, iocp, inflight>> /\ Step(t, "drPost")
  BY DEF CloseOrDisable, poolVars
<1>3. Fits(t, th[t], "drPost") /\ Empty("drPost") /\ "drPost" \in Labels
  BY <1>0 DEF Fits, UnitsKnown, SeriesGoesBack, InSeries, DrLabels, OperationKnown,
              ObjectKnown, ConnectorOnly, Empty, Labels
<1>. QED BY <1>0, <1>1, <1>2, <1>3, JustSteps DEF NetInv

LEMMA PostDisconnectOK ==
  ASSUME NetInv, NEW t \in Threads, PostDisconnect(t)
  PROVE  NetInv'
<1>0. /\ th[t] \in Thread /\ Fits(t, th[t], "drPost") /\ th[t].pc = "drPost" /\ Empty(th[t].pc)
      /\ th[t].pc \in DrLabels
  BY ThreadAt DEF PostDisconnect, At, Empty, DrLabels
<1> DEFINE u == th[t].tgt
           P(o) == [op |-> "DISCONNECT", unit |-> u, ov |-> o, sess |-> session[u], ok |-> TRUE,
                    bytes |-> 0]
<1>1. PICK o \in Ovs : Take(o, "DISCONNECT") /\ iocp' = Append(iocp, P(o))
  BY DEF PostDisconnect
<1>2. /\ UNCHANGED <<leaked, inflight, sock, loose, enabled, peer, session, active, registered, regOwner>>
      /\ Resume(t)
  BY DEF PostDisconnect, sockVars, regVars
<1>3. PICK job : Go(t, job) /\ JobOK(t, job) /\ Empty(job.pc)
  BY <1>0, <1>2, ResumeOK
<1>4. th'[t] = job /\ Others(t) /\ JobsOK'
  BY <1>3, Moved
<1>5. Hand(t) = NoOv /\ Hand(t)' = NoOv /\ Empty(th'[t].pc)
  BY <1>0, <1>3, <1>4 DEF Hand, Holding, Empty
<1>6. P(o) \in Packet /\ P(o).op = "DISCONNECT" /\ P(o).ov = o
  <2>1. u \in Units
    BY <1>0 DEF Fits, UnitsKnown, DrLabels
  <2>2. session[u] \in Nat
    BY <2>1 DEF NetInv, SharedOK, WinTypeOK
  <2>. QED BY <2>1, <2>2 DEF Packet, Operations
<1> HIDE DEF P, u
<1>7. SharedOK'
  <2>1. iocp' \in Seq(Packet)
    BY <1>1, <1>6 DEF NetInv, SharedOK, WinTypeOK
  <2>. QED BY <1>1, <1>2, <2>1 DEF NetInv, SharedOK, WinTypeOK, Take, Operations
<1>8. Tagged' /\ Home'
  BY <1>1, <1>2, <1>4, <1>5, <1>6, ObjectPosted DEF Operations, Pooled
<1>. QED BY <1>4, <1>7, <1>8 DEF NetInv

LEMMA RequestOK ==
  ASSUME NetInv, NEW t \in Threads, NEW u \in Units, NEW d \in {"idle", "send"},
         RequestDisconnect(t, u, d), t = Connector => d = "idle",
         d = "send" => th[t].pc = "wsasend"
  PROVE  \E job : Go(t, job) /\ JobOK(t, job) /\ Empty(job.pc)
<1> DEFINE job == [th[t] EXCEPT !.pc = "dr", !.tgt = u, !.ov = NoOv, !.dret = d]
<1>0. th[t] \in Thread /\ Fits(t, th[t], th[t].pc)
  BY ThreadAt
<1>1. /\ job \in Thread /\ job.pc = "dr" /\ job.dret = d /\ job.tgt = u
      /\ job.unit = th[t].unit /\ job.op = th[t].op /\ job.bytes = th[t].bytes
      /\ job.ret = th[t].ret
  <2>1. "dr" \in Labels
    BY DEF Labels
  <2>2. job \in Thread
    BY <1>0, <2>1 DEF Thread
  <2>3. /\ job.pc = "dr" /\ job.dret = d /\ job.tgt = u
        /\ job.unit = th[t].unit /\ job.op = th[t].op /\ job.bytes = th[t].bytes
        /\ job.ret = th[t].ret
    BY <1>0 DEF Thread
  <2>. QED BY <2>2, <2>3
<1>2. Go(t, job)
  BY DEF RequestDisconnect
<1> HIDE DEF job
<1>3. JobOK(t, job) /\ Empty(job.pc)
  BY <1>0, <1>1 DEF JobOK, Fits, UnitsKnown, SeriesGoesBack, InSeries, DrLabels, OperationKnown,
                    ObjectKnown, ConnectorOnly, Empty
<1>. QED BY <1>2, <1>3

-----------------------------------------------------------------------------
(* A packet is dequeued, and its object returned.                          *)

LEMMA DequeueOK == ASSUME NetInv, NEW w \in Workers, Dequeue(w) PROVE NetInv'
<1>0. /\ w \in Threads /\ w # Connector /\ th[w].pc = "idle" /\ iocp # << >>
  BY WorkerAt DEF Dequeue, At
<1> DEFINE p == Head(iocp)
           job == [Idle EXCEPT !.pc = IF p.ok THEN "decode" ELSE "failed", !.op = p.op,
                               !.unit = p.unit, !.bytes = p.bytes, !.ov = p.ov]
<1>1. p \in Packet /\ Agree(p.op, p.ov)
  <2>1. p = iocp[1] /\ 1 \in 1..Len(iocp)
    BY <1>0 DEF NetInv, SharedOK, WinTypeOK
  <2>. QED BY <2>1, Objects DEF NetInv, Tagged
<1>2. Go(w, job) /\ iocp' = Tail(iocp)
  BY DEF Dequeue
<1>3. UNCHANGED <<sock, loose, enabled, peer, session, inflight, active, free, leaked, memory,
                  registered, regOwner>>
  BY DEF Dequeue, sockVars, poolVars, regVars
<1>4. /\ job \in Thread /\ job.pc \in {"decode", "failed"} /\ job.op = p.op /\ job.unit = p.unit
      /\ job.bytes = p.bytes /\ job.ov = p.ov /\ job.dret = "idle"
  BY <1>1, UnitsAssumption DEF Idle, Thread, Packet, Labels, Operations
<1>5. p.unit \in Units
  BY <1>1 DEF Packet
<1>6. SharedOK'
  <2>1. iocp' \in Seq(Packet)
    BY <1>0, <1>2 DEF NetInv, SharedOK, WinTypeOK
  <2>. QED BY <1>3, <2>1 DEF NetInv, SharedOK, WinTypeOK
<1> HIDE DEF p, job
<1>7. JobOK(w, job)
  BY <1>0, <1>1, <1>4, <1>5 DEF JobOK, Fits, UnitsKnown, SeriesGoesBack, InSeries, DrLabels,
                                OperationKnown, ObjectKnown, ConnectorOnly, Agree
<1>8. th'[w] = job /\ Others(w) /\ JobsOK'
  BY <1>0, <1>2, <1>7, Moved
<1>9. Hand(w) = NoOv
  BY <1>0 DEF Hand, Holding
<1>10. Tagged' /\ Home'
  BY <1>0, <1>2, <1>3, <1>4, <1>8, <1>9, ObjectDequeued DEF p
<1>. QED BY <1>6, <1>8, <1>10 DEF NetInv

\* The object of a packet, if it has a pooled one, goes back.
LEMMA Returned ==
  ASSUME NetInv, NEW t \in Threads, th[t].pc \in {"failed", "decode"},
         NEW job, Go(t, job), JobOK(t, job), Empty(job.pc),
         IF Pooled(OperationOf(t)) THEN GiveBack(th[t].ov) ELSE UNCHANGED <<free, memory>>,
         UNCHANGED <<leaked, iocp, inflight>>
  PROVE  JobsOK' /\ Tagged' /\ Home' /\ free' \in SUBSET Ovs /\ memory' \in [Ovs -> Operations]
<1>0. /\ th[t] \in Thread /\ Fits(t, th[t], th[t].pc) /\ th[t].ov \in Ovs \cup {NoOv}
      /\ Agree(th[t].op, th[t].ov)
  BY ThreadAt DEF Thread, NetInv, Tagged
<1>1. th'[t] = job /\ Others(t) /\ JobsOK'
  BY Moved
<1>2. Hand(t) = th[t].ov /\ Hand(t)' = NoOv /\ Empty(th'[t].pc)
  BY <1>1 DEF Hand, Holding, Empty
<1>3. free \in SUBSET Ovs /\ memory \in [Ovs -> Operations]
  BY DEF NetInv, SharedOK
<1>4. CASE th[t].ov = NoOv
  <2>1. UNCHANGED <<free, memory>>
    BY <1>0, <1>4 DEF Agree, OperationOf
  <2>. QED BY <1>1, <1>2, <1>3, <1>4, <2>1, NothingMoves
<1>5. CASE th[t].ov \in Ovs /\ th[t].ov # NoOv
  <2>1. GiveBack(th[t].ov)
    BY <1>0, <1>5 DEF Agree, OperationOf
  <2>2. free' \in SUBSET Ovs /\ memory' \in [Ovs -> Operations]
    BY <1>3, <1>5, <2>1 DEF GiveBack, Operations
  <2>. QED BY <1>1, <1>2, <1>5, <2>1, <2>2, ObjectReturns
<1>. QED BY <1>0, <1>4, <1>5

LEMMA FailedOK == ASSUME NetInv, NEW w \in Workers, Failed(w) PROVE NetInv'
<1>0. /\ w \in Threads /\ w # Connector /\ th[w].pc = "failed" /\ Fits(w, th[w], "failed")
  BY WorkerAt DEF Failed, At
<1>1. PICK job : Go(w, job) /\ JobOK(w, job) /\ Empty(job.pc)
  <2>1. CASE Finish(w)
    <3>1. JobOK(w, Idle) /\ Empty(Idle.pc)
      BY <1>0, IdleIsOK DEF Empty
    <3>. QED BY <2>1, <3>1 DEF Finish
  <2>2. CASE RequestDisconnect(w, th[w].unit, "idle")
    <3>1. th[w].unit \in Units
      BY <1>0 DEF Fits, UnitsKnown, DrLabels
    <3>. QED BY <1>0, <2>2, <3>1, RequestOK
  <2>. QED BY <2>1, <2>2 DEF Failed
<1>2. UNCHANGED <<sock, loose, enabled, peer, session, iocp, inflight, active, leaked, registered,
                  regOwner>>
  BY DEF Failed, winVars, sockVars, regVars
<1>3. IF Pooled(OperationOf(w)) THEN GiveBack(th[w].ov) ELSE UNCHANGED <<free, memory>>
  BY DEF Failed
<1>4. JobsOK' /\ Tagged' /\ Home' /\ free' \in SUBSET Ovs /\ memory' \in [Ovs -> Operations]
  BY <1>0, <1>1, <1>2, <1>3, Returned
<1>. QED BY <1>2, <1>4 DEF NetInv, SharedOK, WinTypeOK

LEMMA DecodeOK == ASSUME NetInv, NEW w \in Workers, Decode(w) PROVE NetInv'
<1>0. /\ w \in Threads /\ w # Connector /\ th[w].pc = "decode" /\ Fits(w, th[w], "decode")
      /\ th[w] \in Thread
  BY WorkerAt DEF Decode, At
<1>1. OperationOf(w) = th[w].op
  BY <1>0 DEF OperationOf, NetInv, Tagged, Agree
<1> DEFINE op == th[w].op
           next == CASE op = "ACCEPT"  -> "accepted"
                     [] op = "CONNECT" -> "connected"
                     [] OTHER          -> "dispatch"
           job == [th[w] EXCEPT !.pc = next, !.optype = op]
<1>2. Go(w, job)
  BY <1>1 DEF Decode
<1>3. /\ next \in {"accepted", "connected", "dispatch"}
      /\ next = "accepted" => op = "ACCEPT"
      /\ next = "connected" => op = "CONNECT"
  OBVIOUS
<1>4. UNCHANGED <<sock, loose, enabled, peer, session, iocp, inflight, active, leaked, registered,
                  regOwner>>
  BY DEF Decode, winVars, sockVars, regVars
<1>5. IF Pooled(OperationOf(w)) THEN GiveBack(th[w].ov) ELSE UNCHANGED <<free, memory>>
  BY DEF Decode
<1> HIDE DEF next
<1>6. /\ job \in Thread /\ job.pc = next /\ job.op = op /\ job.optype = op
      /\ job.unit = th[w].unit /\ job.bytes = th[w].bytes
  BY <1>0, <1>3 DEF Thread, Labels
<1> HIDE DEF job
<1>7. JobOK(w, job) /\ Empty(job.pc)
  BY <1>0, <1>3, <1>6 DEF JobOK, Fits, UnitsKnown, SeriesGoesBack, InSeries, DrLabels,
                          OperationKnown, ObjectKnown, ConnectorOnly, Empty
<1>8. JobsOK' /\ Tagged' /\ Home' /\ free' \in SUBSET Ovs /\ memory' \in [Ovs -> Operations]
  BY <1>0, <1>2, <1>4, <1>5, <1>7, Returned
<1>. QED BY <1>4, <1>8 DEF NetInv, SharedOK, WinTypeOK

-----------------------------------------------------------------------------
(* Operations on embedded objects.                                         *)

LEMMA Embedded ==
  ASSUME NetInv, NEW u \in Units, NEW op \in {"ACCEPT", "CONNECT", "RECIEVE"}, Issue(u, op, NoOv)
  PROVE  /\ inflight' \in SUBSET InFlight
         /\ inflight \subseteq inflight'
         /\ \A f \in inflight' : f \in inflight \/ (f.ov = NoOv /\ ~Pooled(f.op))
<1> DEFINE tag == FreeTag(u, op)
           f == [op |-> op, unit |-> u, ov |-> NoOv, sess |-> session[u], tag |-> tag]
<1>1. tag \in Nat
  <2> DEFINE Unused(n) == \A o \in Pending(u, op) : o.tag # n
             some == CHOOSE n \in 0..MaxSessions : Unused(n)
  <2>1. FreeTag(u, op) = IF \E n \in 0..MaxSessions : Unused(n) THEN some ELSE 0
    BY DEF FreeTag
  <2> HIDE DEF Unused
  <2>2. (\E n \in 0..MaxSessions : Unused(n)) => some \in 0..MaxSessions
    BY Zenon
  <2> HIDE DEF some
  <2>. QED BY <2>1, <2>2, MaxSessionsAssumption
<1>2. session[u] \in Nat
  BY DEF NetInv, SharedOK, WinTypeOK
<1>3. inflight' = inflight \cup {f}
  BY DEF Issue
<1> HIDE DEF tag
<1>4. f \in InFlight /\ f.ov = NoOv /\ f.op = op
  BY <1>1, <1>2 DEF InFlight, Operations
<1>. QED BY <1>3, <1>4 DEF NetInv, SharedOK, WinTypeOK, Pooled

LEMMA AsyncRecieveOK == ASSUME NetInv, NEW w \in Workers, AsyncRecieve(w) PROVE NetInv'
<1>0. /\ w \in Threads /\ w # Connector /\ th[w].pc = "wsarecv" /\ Fits(w, th[w], "wsarecv")
      /\ Empty(th[w].pc)
  BY WorkerAt DEF AsyncRecieve, At, Empty
<1>1. th[w].unit \in Units
  BY <1>0 DEF Fits, UnitsKnown, DrLabels
<1>2. PICK job : Go(w, job) /\ JobOK(w, job) /\ Empty(job.pc)
  <2>1. CASE Finish(w)
    <3>1. JobOK(w, Idle) /\ Empty(Idle.pc)
      BY <1>0, IdleIsOK DEF Empty
    <3>. QED BY <2>1, <3>1 DEF Finish
  <2>2. CASE RequestDisconnect(w, th[w].unit, "idle")
    BY <1>0, <1>1, <2>2, RequestOK
  <2>. QED BY <2>1, <2>2 DEF AsyncRecieve
<1>3. /\ inflight' \in SUBSET InFlight
      /\ inflight \subseteq inflight'
      /\ \A f \in inflight' : f \in inflight \/ (f.ov = NoOv /\ ~Pooled(f.op))
  <2>1. inflight' = inflight \/ Issue(th[w].unit, "RECIEVE", NoOv)
    BY DEF AsyncRecieve
  <2>2. CASE inflight' = inflight
    BY <2>2 DEF NetInv, SharedOK, WinTypeOK
  <2>. QED BY <1>1, <2>1, <2>2, Embedded
<1>4. UNCHANGED <<sock, loose, enabled, peer, session, iocp, active, free, leaked, memory, registered,
                  regOwner>>
  BY DEF AsyncRecieve, sockVars, poolVars, regVars
<1>5. JobsOK' /\ Tagged' /\ Home'
  BY <1>0, <1>2, <1>3, <1>4, JustMoves
<1>. QED BY <1>3, <1>4, <1>5 DEF NetInv, SharedOK, WinTypeOK

LEMMA AsyncAcceptOK == ASSUME NetInv, NEW w \in Workers, AsyncAccept(w) PROVE NetInv'
<1>0. /\ w \in Threads /\ w # Connector /\ th[w].pc = "acceptex" /\ Fits(w, th[w], "acceptex")
      /\ Empty(th[w].pc)
  BY WorkerAt DEF AsyncAccept, At, Empty
<1>1. th[w].unit \in Units
  BY <1>0 DEF Fits, UnitsKnown, DrLabels
<1>2. JobOK(w, Idle) /\ Empty(Idle.pc) /\ Go(w, Idle)
  BY <1>0, IdleIsOK DEF Empty, AsyncAccept, Finish
<1>3. /\ inflight' \in SUBSET InFlight
      /\ inflight \subseteq inflight'
      /\ \A f \in inflight' : f \in inflight \/ (f.ov = NoOv /\ ~Pooled(f.op))
  <2>1. inflight' = inflight \/ Issue(th[w].unit, "ACCEPT", NoOv)
    BY DEF AsyncAccept
  <2>2. CASE inflight' = inflight
    BY <2>2 DEF NetInv, SharedOK, WinTypeOK
  <2>. QED BY <1>1, <2>1, <2>2, Embedded
<1>4. UNCHANGED <<sock, loose, enabled, peer, session, iocp, active, free, leaked, memory, registered,
                  regOwner>>
  BY DEF AsyncAccept, sockVars, poolVars, regVars
<1>5. JobsOK' /\ Tagged' /\ Home'
  BY <1>0, <1>2, <1>3, <1>4, JustMoves
<1>. QED BY <1>3, <1>4, <1>5 DEF NetInv, SharedOK, WinTypeOK

-----------------------------------------------------------------------------
(* The AutoConnector.                                                      *)

LEMMA AsyncConnectOK == ASSUME NetInv, AsyncConnect PROVE NetInv'
<1> DEFINE t == Connector
<1>0. t \in Threads /\ th[t].pc = "connectex" /\ Fits(t, th[t], "connectex") /\ Empty(th[t].pc)
  BY ThreadAt DEF Threads, AsyncConnect, At, Empty
<1>1. th[t].tgt \in Units
  BY <1>0 DEF Fits, UnitsKnown
<1>2. JobOK(t, Idle) /\ Empty(Idle.pc) /\ Go(t, Idle)
  BY <1>0, IdleIsOK DEF Empty, AsyncConnect, Finish
<1>3. /\ inflight' \in SUBSET InFlight
      /\ inflight \subseteq inflight'
      /\ \A f \in inflight' : f \in inflight \/ (f.ov = NoOv /\ ~Pooled(f.op))
  <2>1. inflight' = inflight \/ Issue(th[t].tgt, "CONNECT", NoOv)
    BY DEF AsyncConnect
  <2>2. CASE inflight' = inflight
    BY <2>2 DEF NetInv, SharedOK, WinTypeOK
  <2>. QED BY <1>1, <2>1, <2>2, Embedded
<1>4. UNCHANGED <<sock, loose, enabled, peer, session, iocp, active, free, leaked, memory, registered,
                  regOwner>>
  BY DEF AsyncConnect, sockVars, poolVars, regVars
<1>5. JobsOK' /\ Tagged' /\ Home'
  BY <1>0, <1>2, <1>3, <1>4, JustMoves
<1>. QED BY <1>3, <1>4, <1>5 DEF NetInv, SharedOK, WinTypeOK

LEMMA TryConnectOK == ASSUME NetInv, NEW u \in ConnectUnits, TryConnect(u) PROVE NetInv'
<1> DEFINE t == Connector
           job == [th[t] EXCEPT !.pc = "connectex", !.tgt = u]
<1>0. /\ t \in Threads /\ th[t] \in Thread /\ Fits(t, th[t], "idle") /\ Empty(th[t].pc)
      /\ u \in Units
  BY ThreadAt DEF Threads, Units, TryConnect, At, Empty
<1>1. Go(t, job)
  BY DEF TryConnect
<1>2. /\ job \in Thread /\ job.pc = "connectex" /\ job.tgt = u /\ job.dret = th[t].dret
  BY <1>0 DEF Thread, Labels
<1>3. UNCHANGED <<winVars, active, poolVars, regVars>>
  BY DEF TryConnect
<1> HIDE DEF job
<1>4. JobOK(t, job) /\ Empty(job.pc)
  BY <1>0, <1>2 DEF JobOK, Fits, UnitsKnown, SeriesGoesBack, InSeries, DrLabels,
                    OperationKnown, ObjectKnown, ConnectorOnly, Empty
<1>5. JobsOK' /\ Tagged' /\ Home'
  BY <1>0, <1>1, <1>3, <1>4, JustMoves DEF winVars, poolVars
<1>. QED BY <1>3, <1>5 DEF NetInv, SharedOK, WinTypeOK, winVars, sockVars, poolVars, regVars

LEMMA CheckActiveOK == ASSUME NetInv, NEW u \in ConnectUnits, CheckActive(u) PROVE NetInv'
<1> DEFINE t == Connector
           job == [th[t] EXCEPT !.pc = "isconnected", !.tgt = u]
<1>0. /\ t \in Threads /\ th[t] \in Thread /\ Fits(t, th[t], "idle") /\ Empty(th[t].pc)
      /\ u \in Units
  BY ThreadAt DEF Threads, Units, CheckActive, At, Empty
<1>1. Go(t, job)
  BY DEF CheckActive
<1>2. /\ job \in Thread /\ job.pc = "isconnected" /\ job.tgt = u /\ job.dret = th[t].dret
  BY <1>0 DEF Thread, Labels
<1>3. UNCHANGED <<winVars, active, poolVars, regVars>>
  BY DEF CheckActive
<1> HIDE DEF job
<1>4. JobOK(t, job) /\ Empty(job.pc)
  BY <1>0, <1>2 DEF JobOK, Fits, UnitsKnown, SeriesGoesBack, InSeries, DrLabels,
                    OperationKnown, ObjectKnown, ConnectorOnly, Empty
<1>5. JobsOK' /\ Tagged' /\ Home'
  BY <1>0, <1>1, <1>3, <1>4, JustMoves DEF winVars, poolVars
<1>. QED BY <1>3, <1>5 DEF NetInv, SharedOK, WinTypeOK, winVars, sockVars, poolVars, regVars

LEMMA CheckConnectedOK == ASSUME NetInv, CheckConnected PROVE NetInv'
<1> DEFINE t == Connector
<1>0. /\ t \in Threads /\ Fits(t, th[t], "isconnected") /\ Empty(th[t].pc)
  BY ThreadAt DEF Threads, CheckConnected, At, Empty
<1>1. th[t].tgt \in Units
  BY <1>0 DEF Fits, UnitsKnown
<1>2. PICK job : Go(t, job) /\ JobOK(t, job) /\ Empty(job.pc)
  <2>1. CASE Finish(t)
    <3>1. JobOK(t, Idle) /\ Empty(Idle.pc)
      BY <1>0, IdleIsOK DEF Empty
    <3>. QED BY <2>1, <3>1 DEF Finish
  <2>2. CASE RequestDisconnect(t, th[t].tgt, "idle")
    BY <1>0, <1>1, <2>2, RequestOK
  <2>. QED BY <2>1, <2>2 DEF CheckConnected
<1>3. UNCHANGED <<winVars, active, poolVars, regVars>>
  BY DEF CheckConnected
<1>4. JobsOK' /\ Tagged' /\ Home'
  BY <1>0, <1>2, <1>3, JustMoves DEF winVars, poolVars
<1>. QED BY <1>3, <1>4 DEF NetInv, SharedOK, WinTypeOK, winVars, sockVars, poolVars, regVars

-----------------------------------------------------------------------------
(* A series of sends begins, goes on and ends.                             *)

LEMMA SeriesBegins ==
  ASSUME NetInv, NEW w \in Workers, NEW targets \in SUBSET Units,
         NEW ret \in {"enable", "processed"},
         th[w].pc \in {"onconnect", "recieved"},
         ret = "processed" => th[w].op = "RECIEVE" /\ th[w].bytes > 0,
         Go(w, [th[w] EXCEPT !.pc = "send", !.todo = targets, !.ret = ret]),
         UNCHANGED <<free, leaked, memory, iocp, inflight>>
  PROVE  JobsOK' /\ Tagged' /\ Home'
<1> DEFINE job == [th[w] EXCEPT !.pc = "send", !.todo = targets, !.ret = ret]
<1>0. /\ w \in Threads /\ w # Connector /\ th[w] \in Thread
      /\ Fits(w, th[w], th[w].pc) /\ Empty(th[w].pc)
  BY WorkerAt DEF Empty
<1>1. /\ job \in Thread /\ job.pc = "send" /\ job.op = th[w].op /\ job.bytes = th[w].bytes
      /\ job.unit = th[w].unit /\ job.ret = ret
  BY <1>0 DEF Thread, Labels
<1>2. Go(w, job)
  OBVIOUS
<1> HIDE DEF job
<1>3. JobOK(w, job) /\ Empty(job.pc)
  BY <1>0, <1>1 DEF JobOK, Fits, UnitsKnown, SeriesGoesBack, InSeries, DrLabels,
                    OperationKnown, ObjectKnown, ConnectorOnly, Empty
<1>. QED BY <1>0, <1>2, <1>3, JustMoves

LEMMA OnConnectOK == ASSUME NetInv, NEW w \in Workers, OnConnect(w) PROVE NetInv'
<1>0. /\ w \in Threads /\ w # Connector /\ th[w] \in Thread
      /\ Fits(w, th[w], "onconnect") /\ th[w].pc = "onconnect" /\ Empty(th[w].pc)
  BY WorkerAt DEF OnConnect, At, Empty
<1>1. th[w].unit \in Units
  BY <1>0 DEF Fits, UnitsKnown, DrLabels
<1>2. SharedOK'
  BY <1>1 DEF OnConnect, NetInv, SharedOK, WinTypeOK, winVars, sockVars, poolVars
<1>3. UNCHANGED <<free, leaked, memory, iocp, inflight>>
  BY DEF OnConnect, winVars, poolVars
<1>4. CASE Step(w, "enable")
  <2>1. Fits(w, th[w], "enable") /\ Empty("enable") /\ "enable" \in Labels
    BY <1>0 DEF Fits, UnitsKnown, SeriesGoesBack, InSeries, DrLabels, OperationKnown,
                ObjectKnown, ConnectorOnly, Empty, Labels
  <2>. QED BY <1>0, <1>2, <1>3, <1>4, <2>1, JustSteps DEF NetInv
<1>5. CASE Go(w, [th[w] EXCEPT !.pc = "send", !.ret = "enable",
                               !.todo = {u \in {th[w].unit} : Affordable({u})}])
  <2> DEFINE targets == {u \in {th[w].unit} : Affordable({u})}
  <2>1. targets \in SUBSET Units
    BY <1>1
  <2>2. [th[w] EXCEPT !.pc = "send", !.ret = "enable", !.todo = targets]
          = [th[w] EXCEPT !.pc = "send", !.todo = targets, !.ret = "enable"]
    BY <1>0 DEF Thread
  <2>3. Go(w, [th[w] EXCEPT !.pc = "send", !.todo = targets, !.ret = "enable"])
    BY <1>5, <2>2
  <2> HIDE DEF targets
  <2>. QED BY <1>0, <1>2, <1>3, <2>1, <2>3, SeriesBegins DEF NetInv
<1>. QED BY <1>4, <1>5 DEF OnConnect

LEMMA RecievedOK == ASSUME NetInv, NEW w \in Workers, Recieved(w) PROVE NetInv'
<1>0. /\ w \in Threads /\ w # Connector /\ th[w] \in Thread
      /\ Fits(w, th[w], "recieved") /\ th[w].pc = "recieved" /\ Empty(th[w].pc)
  BY WorkerAt DEF Recieved, At, Empty
<1>1. th[w].unit \in Units /\ th[w].op = "RECIEVE" /\ th[w].bytes \in Nat
  BY <1>0 DEF Fits, UnitsKnown, OperationKnown, DrLabels, Thread
<1>2. SharedOK'
  BY <1>0 DEF Recieved, NetInv, SharedOK, WinTypeOK, winVars, sockVars, poolVars
<1>3. UNCHANGED <<free, leaked, memory, iocp, inflight>>
  BY DEF Recieved, winVars, poolVars
<1>4. CASE Finish(w)
  BY <1>0, <1>2, <1>3, <1>4, JustFinishes DEF NetInv
<1>5. CASE Step(w, "rearm")
  <2>1. Fits(w, th[w], "rearm") /\ Empty("rearm") /\ "rearm" \in Labels
    BY <1>0 DEF Fits, UnitsKnown, SeriesGoesBack, InSeries, DrLabels, OperationKnown,
                ObjectKnown, ConnectorOnly, Empty, Labels
  <2>. QED BY <1>0, <1>2, <1>3, <1>5, <2>1, JustSteps DEF NetInv
<1>6. ASSUME NEW targets \in SUBSET Units, th[w].bytes # 0,
             Go(w, [th[w] EXCEPT !.pc = "send", !.todo = targets, !.ret = "processed"])
      PROVE  NetInv'
  <2>1. th[w].bytes > 0
    BY <1>1, <1>6
  <2>. QED BY <1>0, <1>1, <1>2, <1>3, <1>6, <2>1, SeriesBegins DEF NetInv
<1>7. {} \in SUBSET Units /\ {th[w].unit} \in SUBSET Units /\ registered \in SUBSET Units
  BY <1>1 DEF NetInv, SharedOK
<1>. QED BY <1>4, <1>5, <1>6, <1>7 DEF Recieved

LEMMA ProcessedOK == ASSUME NetInv, NEW w \in Workers, Processed(w) PROVE NetInv'
<1>0. /\ w \in Threads /\ w # Connector /\ th[w] \in Thread
      /\ Fits(w, th[w], "processed") /\ th[w].pc = "processed" /\ Empty(th[w].pc)
  BY WorkerAt DEF Processed, At, Empty
<1>1. SharedOK'
  BY DEF Processed, NetInv, SharedOK, WinTypeOK, winVars, sockVars, poolVars, regVars
<1>2. UNCHANGED <<free, leaked, memory, iocp, inflight>>
  BY DEF Processed, winVars, poolVars
<1>3. CASE Finish(w)
  BY <1>0, <1>1, <1>2, <1>3, JustFinishes DEF NetInv
<1>4. CASE Go(w, [th[w] EXCEPT !.pc = "recieved", !.bytes = @ - 1])
  <2> DEFINE job == [th[w] EXCEPT !.pc = "recieved", !.bytes = @ - 1]
  <2>1. th[w].bytes \in Nat /\ th[w].bytes > 0
    BY <1>0 DEF Thread, Fits, OperationKnown
  <2>2. th[w].bytes - 1 \in Nat
    BY <2>1
  <2>3. job \in Thread /\ job.pc = "recieved" /\ job.op = th[w].op /\ job.unit = th[w].unit
    BY <1>0, <2>2 DEF Thread, Labels
  <2> HIDE DEF job
  <2>4. JobOK(w, job) /\ Empty(job.pc)
    BY <1>0, <2>3 DEF JobOK, Fits, UnitsKnown, SeriesGoesBack, InSeries, DrLabels,
                      OperationKnown, ObjectKnown, ConnectorOnly, Empty
  <2>5. Go(w, job)
    BY <1>4 DEF job
  <2>. QED BY <1>0, <1>1, <1>2, <2>4, <2>5, JustMoves DEF NetInv
<1>. QED BY <1>3, <1>4 DEF Processed

LEMMA SendRequestOK == ASSUME NetInv, NEW w \in Workers, SendRequest(w) PROVE NetInv'
<1>0. /\ w \in Threads /\ w # Connector /\ th[w] \in Thread
      /\ Fits(w, th[w], "send") /\ th[w].pc = "send" /\ Empty(th[w].pc)
  BY WorkerAt DEF SendRequest, At, Empty
<1>1. UNCHANGED <<sock, loose, enabled, peer, session, iocp, inflight, active, leaked, registered,
                  regOwner>>
  BY DEF SendRequest, winVars, sockVars, regVars
<1>2. PICK u \in th[w].todo :
        \/ \E o \in Ovs : /\ Take(o, "SEND")
                          /\ Go(w, [th[w] EXCEPT !.pc = "wsasend", !.ov = o, !.tgt = u,
                                                 !.todo = @ \ {u}])
        \/ Go(w, [th[w] EXCEPT !.todo = @ \ {u}]) /\ UNCHANGED <<free, memory>>
  BY DEF SendRequest
<1>3. u \in Units
  BY <1>0 DEF Thread
<1>4. CASE Go(w, [th[w] EXCEPT !.todo = @ \ {u}]) /\ UNCHANGED <<free, memory>>
  <2> DEFINE job == [th[w] EXCEPT !.todo = @ \ {u}]
  <2>1. /\ job \in Thread /\ job.pc = "send" /\ job.op = th[w].op /\ job.unit = th[w].unit
        /\ job.bytes = th[w].bytes /\ job.ret = th[w].ret
    BY <1>0 DEF Thread
  <2> HIDE DEF job
  <2>2. JobOK(w, job) /\ Empty(job.pc)
    BY <1>0, <2>1 DEF JobOK, Fits, UnitsKnown, SeriesGoesBack, InSeries, DrLabels,
                      OperationKnown, ObjectKnown, ConnectorOnly, Empty
  <2>3. Go(w, job)
    BY <1>4 DEF job
  <2>4. JobsOK' /\ Tagged' /\ Home'
    BY <1>0, <1>1, <1>4, <2>2, <2>3, JustMoves
  <2>. QED BY <1>1, <1>4, <2>4 DEF NetInv, SharedOK, WinTypeOK
<1>5. ASSUME NEW o \in Ovs, Take(o, "SEND"),
             Go(w, [th[w] EXCEPT !.pc = "wsasend", !.ov = o, !.tgt = u, !.todo = @ \ {u}])
      PROVE  NetInv'
  <2> DEFINE job == [th[w] EXCEPT !.pc = "wsasend", !.ov = o, !.tgt = u, !.todo = @ \ {u}]
  <2>1. /\ job \in Thread /\ job.pc = "wsasend" /\ job.op = th[w].op /\ job.unit = th[w].unit
        /\ job.bytes = th[w].bytes /\ job.ret = th[w].ret /\ job.ov = o /\ job.tgt = u
    BY <1>0, <1>3 DEF Thread, Labels
  <2> HIDE DEF job
  <2>2. JobOK(w, job)
    BY <1>0, <1>3, <2>1 DEF JobOK, Fits, UnitsKnown, SeriesGoesBack, InSeries, DrLabels,
                            OperationKnown, ObjectKnown, ConnectorOnly
  <2>3. Go(w, job)
    BY <1>5 DEF job
  <2>4. th'[w] = job /\ Others(w) /\ JobsOK'
    BY <1>0, <2>2, <2>3, Moved
  <2>5. Hand(w) = NoOv /\ Hand(w)' = o
    BY <1>0, <2>1, <2>4 DEF Hand, Holding
  <2>6. Tagged' /\ Home'
    BY <1>0, <1>1, <1>5, <2>1, <2>4, <2>5, ObjectTaken DEF Operations
  <2>. QED BY <1>1, <1>5, <2>4, <2>6 DEF NetInv, SharedOK, WinTypeOK, Take, Operations
<1>. QED BY <1>2, <1>4, <1>5

LEMMA SendsDoneOK == ASSUME NetInv, NEW w \in Workers, SendsDone(w) PROVE NetInv'
<1>0. /\ w \in Threads /\ w # Connector /\ th[w] \in Thread
      /\ Fits(w, th[w], "send") /\ th[w].pc = "send" /\ Empty(th[w].pc)
  BY WorkerAt DEF SendsDone, At, Empty
<1>1. SharedOK'
  BY DEF SendsDone, NetInv, SharedOK, WinTypeOK, winVars, sockVars, poolVars
<1>2. UNCHANGED <<free, leaked, memory, iocp, inflight>>
  BY DEF SendsDone, winVars, poolVars
<1> DEFINE job == [th[w] EXCEPT !.pc = th[w].ret, !.ret = "idle"]
<1>3. th[w].ret \in {"enable", "processed"}
  BY <1>0 DEF Fits, SeriesGoesBack, InSeries
<1>4. /\ job \in Thread /\ job.pc = th[w].ret /\ job.op = th[w].op /\ job.unit = th[w].unit
      /\ job.bytes = th[w].bytes
  BY <1>0, <1>3 DEF Thread, Labels
<1> HIDE DEF job
<1>5. JobOK(w, job) /\ Empty(job.pc)
  BY <1>0, <1>3, <1>4 DEF JobOK, Fits, UnitsKnown, SeriesGoesBack, InSeries, DrLabels,
                          OperationKnown, ObjectKnown, ConnectorOnly, Empty
<1>6. Go(w, job)
  BY DEF SendsDone, job
<1>. QED BY <1>0, <1>1, <1>2, <1>5, <1>6, JustMoves DEF NetInv

LEMMA AsyncSendOK == ASSUME NetInv, NEW w \in Workers, AsyncSend(w) PROVE NetInv'
<1>0. /\ w \in Threads /\ w # Connector /\ th[w] \in Thread
      /\ Fits(w, th[w], "wsasend") /\ th[w].pc = "wsasend"
  BY WorkerAt DEF AsyncSend, At
<1> DEFINE u == th[w].tgt
           o == th[w].ov
           job == [th[w] EXCEPT !.pc = "send", !.ov = NoOv, !.tgt = NoUnit]
           f == [op |-> "SEND", unit |-> u, ov |-> o, sess |-> session[u],
                 tag |-> IF o = NoOv THEN FreeTag(u, "SEND") ELSE 0]
<1>1. /\ u \in Units /\ o \in Ovs /\ o # NoOv /\ Hand(w) = o /\ memory[o] = "SEND"
  BY <1>0, OvsAssumption DEF Fits, UnitsKnown, ObjectKnown, Hand, Holding, NetInv, Tagged
<1>2. UNCHANGED <<sock, loose, enabled, peer, session, iocp, active, registered, regOwner>>
  BY DEF AsyncSend, sockVars, regVars
<1>3. JobOK(w, job) /\ Empty(job.pc)
  <2>1. /\ job \in Thread /\ job.pc = "send" /\ job.op = th[w].op /\ job.unit = th[w].unit
        /\ job.bytes = th[w].bytes /\ job.ret = th[w].ret
    BY <1>0 DEF Thread, Labels
  <2> HIDE DEF job
  <2>. QED BY <1>0, <2>1 DEF JobOK, Fits, UnitsKnown, SeriesGoesBack, InSeries, DrLabels,
                             OperationKnown, ObjectKnown, ConnectorOnly, Empty
<1>4. CASE /\ GiveBack(o) /\ RequestDisconnect(w, u, "send") /\ UNCHANGED <<inflight, leaked>>
  <2>1. PICK k : Go(w, k) /\ JobOK(w, k) /\ Empty(k.pc)
    BY <1>0, <1>1, <1>4, RequestOK
  <2>2. th'[w] = k /\ Others(w) /\ JobsOK'
    BY <1>0, <2>1, Moved
  <2>3. Hand(w)' = NoOv /\ Empty(th'[w].pc)
    BY <2>1, <2>2 DEF Hand, Holding, Empty
  <2>4. GiveBack(Hand(w)) /\ Hand(w) \in Ovs
    BY <1>1, <1>4
  <2>5. Tagged' /\ Home'
    BY <1>0, <1>2, <1>4, <2>2, <2>3, <2>4, ObjectReturns
  <2>. QED BY <1>1, <1>2, <1>4, <2>2, <2>5
           DEF NetInv, SharedOK, WinTypeOK, GiveBack, Operations
<1>5. CASE leaked' = leaked \cup {o} /\ Go(w, job) /\ UNCHANGED <<inflight, free, memory>>
  <2> HIDE DEF job
  <2>1. th'[w] = job /\ Others(w) /\ JobsOK'
    BY <1>0, <1>3, <1>5, Moved
  <2>2. Hand(w)' = NoOv /\ Empty(th'[w].pc)
    BY <1>3, <2>1 DEF Hand, Holding, Empty
  <2>3. leaked' = leaked \cup {Hand(w)} /\ Hand(w) \in Ovs
    BY <1>1, <1>5
  <2>4. Tagged' /\ Home'
    BY <1>0, <1>2, <1>5, <2>1, <2>2, <2>3, ObjectLost
  <2>. QED BY <1>1, <1>2, <1>5, <2>1, <2>4 DEF NetInv, SharedOK, WinTypeOK
<1>6. CASE Issue(u, "SEND", o) /\ Go(w, job) /\ UNCHANGED <<free, memory, leaked>>
  <2>1. inflight' = inflight \cup {f}
    BY <1>6 DEF Issue
  <2>2. f \in InFlight /\ f.ov = Hand(w) /\ f.op = "SEND"
    <3>1. session[u] \in Nat
      BY <1>1 DEF NetInv, SharedOK, WinTypeOK
    <3>. QED BY <1>1, <3>1 DEF InFlight, Operations
  <2> HIDE DEF job, f
  <2>3. th'[w] = job /\ Others(w) /\ JobsOK'
    BY <1>0, <1>3, <1>6, Moved
  <2>4. Hand(w)' = NoOv /\ Empty(th'[w].pc)
    BY <1>3, <2>3 DEF Hand, Holding, Empty
  <2>5. Tagged' /\ Home'
    BY <1>0, <1>1, <1>2, <1>6, <2>1, <2>2, <2>3, <2>4, ObjectIssued DEF Pooled
  <2>. QED BY <1>2, <1>6, <2>1, <2>2, <2>3, <2>5 DEF NetInv, SharedOK, WinTypeOK
<1>. QED BY <1>4, <1>5, <1>6 DEF AsyncSend

-----------------------------------------------------------------------------
(* The kernel and the remote ends.                                         *)

LEMMA KernelOK ==
  ASSUME NetInv, NEW f \in inflight, KernelOn(f), leaked' = leaked \cup Unheard(f),
         UNCHANGED <<active, free, memory, regVars, th>>
  PROVE  NetInv'
<1>1. PICK ok \in BOOLEAN, bytes \in {0, 1} : Complete(f, ok, bytes)
  BY DEF KernelOn, Establish, EstablishFails, RecieveCompletes, SendCompletes, Aborts
<1>2. UNCHANGED <<free, memory, th, active, registered, regOwner>> /\ leaked' \in SUBSET Ovs
  BY Objects DEF regVars, Unheard, NetInv, SharedOK
<1>3. Tagged' /\ Home'
  <2>1. CASE Heard(f)
    <3>1. leaked' = leaked
      BY <2>1 DEF Unheard
    <3>. QED BY <1>1, <1>2, <2>1, <3>1, ObjectCompletes
  <2>2. CASE ~Heard(f)
    BY <1>1, <1>2, <2>2, ObjectUnheard
  <2>. QED BY <2>1, <2>2
<1>4. PacketOf(f, ok, bytes) \in Packet
  BY <1>1, Objects DEF PacketOf, Packet, InFlight
<1>5. inflight' \in SUBSET InFlight /\ iocp' \in Seq(Packet)
  BY <1>1, <1>4 DEF Complete, NetInv, SharedOK, WinTypeOK
<1>6. f.unit \in Units
  BY Objects DEF InFlight
<1>7. /\ sock' \in [Units -> {"invalid", "fresh", "linked", "down"}]
      /\ loose' \in SUBSET ConnectUnits
      /\ enabled' \in [Units -> BOOLEAN]
      /\ peer' \in [Units -> {"none", "open", "fin", "rst"}]
      /\ session' \in [Units -> Nat]
  <2>0. /\ sock \in [Units -> {"invalid", "fresh", "linked", "down"}]
        /\ loose \in SUBSET ConnectUnits
        /\ enabled \in [Units -> BOOLEAN]
        /\ peer \in [Units -> {"none", "open", "fin", "rst"}]
        /\ session \in [Units -> Nat]
    BY DEF NetInv, SharedOK, WinTypeOK
  <2>1. CASE Establish(f)
    BY <1>6, <2>0, <2>1 DEF Establish
  <2>2. CASE UNCHANGED sockVars
    BY <2>0, <2>2 DEF sockVars
  <2>. QED BY <2>1, <2>2 DEF KernelOn, EstablishFails, RecieveCompletes, SendCompletes, Aborts
<1>. QED BY <1>2, <1>3, <1>5, <1>7 DEF NetInv, SharedOK, WinTypeOK, JobsOK

\* Nothing that concerns objects or threads changes.
LEMMA Stutters ==
  ASSUME NetInv, UNCHANGED <<free, leaked, memory, iocp, inflight, th>>
  PROVE  JobsOK' /\ Tagged' /\ Home'
<1>1. \A t \in Threads : Hand(t)' = Hand(t)
  BY DEF Hand, Holding
<1>2. JobsOK' /\ Tagged'
  BY DEF NetInv, JobsOK, Tagged, Agree
<1>3. Home'
  BY <1>1 DEF NetInv, Home, AtHome, Elsewhere, Apart, Single, Located, Somewhere
<1>. QED BY <1>2, <1>3

LEMMA PeerLeavesOK ==
  ASSUME NetInv, NEW u \in Units, PeerLeaves(u), UNCHANGED <<active, poolVars, regVars, th>>
  PROVE  NetInv'
<1>1. JobsOK' /\ Tagged' /\ Home'
  BY Stutters DEF PeerLeaves, poolVars
<1>. QED BY <1>1 DEF PeerLeaves, NetInv, SharedOK, WinTypeOK, poolVars, regVars

-----------------------------------------------------------------------------
LEMMA NetInit == Init => NetInv
<1> SUFFICES ASSUME Init PROVE NetInv
  OBVIOUS
<1>1. \A t \in Threads : th[t] = Idle
  BY DEF Init
<1>2. \A t \in Threads : th[t].pc = "idle" /\ Hand(t) = NoOv
  BY <1>1 DEF Idle, Hand, Holding
<1>3. JobsOK
  <2>1. \A t \in Threads : JobOK(t, Idle)
    BY IdleIsOK
  <2>2. th \in [Threads -> Thread]
    BY <2>1 DEF Init, JobOK
  <2>. QED BY <1>1, <2>1, <2>2 DEF JobsOK
<1>4. \A f \in inflight : f \in InFlight /\ f.ov = NoOv /\ f.op = "ACCEPT"
  BY DEF Init, WinInit, InFlight, Operations, Units
<1>5. SharedOK
  BY <1>4 DEF Init, WinInit, SharedOK, WinTypeOK, Operations
<1>6. iocp = << >> /\ free = Ovs /\ leaked = {}
  BY DEF Init, WinInit
<1>7. Tagged
  BY <1>2, <1>4, <1>6 DEF Tagged, Agree, Pooled
<1>8. Home
  BY <1>2, <1>4, <1>6, OvsAssumption
     DEF Home, AtHome, Elsewhere, Apart, Single, Located
<1>. QED BY <1>3, <1>5, <1>7, <1>8 DEF NetInv

LEMMA NetStep == NetInv /\ [Next]_vars => NetInv'
<1> SUFFICES ASSUME NetInv, [Next]_vars PROVE NetInv'
  OBVIOUS
<1>1. ASSUME NEW t \in Threads, Disconnecting(t) PROVE NetInv'
  BY <1>1, DisconnectRequestOK, ShutDownSocketOK, CloseOrDisableOK, PostDisconnectOK
     DEF Disconnecting
<1>2. ASSUME NEW w \in Workers, Handler(w) PROVE NetInv'
  BY <1>2, DequeueOK, FailedOK, DecodeOK, DispatchOK, UpdateContextOK, IoStartOK, OnConnectOK,
     EnableOK, RecieveRequestOK, AsyncRecieveOK, RecievedOK, ProcessedOK, OnDisconnectOK,
     CleanupOK, BindIocpOK, AcceptRequestOK, AsyncAcceptOK
     DEF Handler
<1>3. ASSUME NEW w \in Workers, Sending(w) PROVE NetInv'
  BY <1>3, SendRequestOK, SendsDoneOK, AsyncSendOK DEF Sending
<1>4. CASE \E w \in Workers : Worker(w)
  BY <1>1, <1>2, <1>3, <1>4 DEF Worker, Threads
<1>5. CASE AutoConnect
  BY <1>1, <1>5, CheckActiveOK, TryConnectOK, AsyncConnectOK, CheckConnectedOK
     DEF AutoConnect, Threads
<1>6. CASE Network
  BY <1>6, KernelOK, PeerLeavesOK DEF Network, poolVars
<1>7. CASE UNCHANGED vars
  <2>1. JobsOK' /\ Tagged' /\ Home'
    BY <1>7, Stutters DEF vars, winVars, poolVars
  <2>. QED BY <1>7, <2>1
           DEF NetInv, SharedOK, WinTypeOK, vars, winVars, sockVars, poolVars, regVars
<1>. QED BY <1>4, <1>5, <1>6, <1>7 DEF Next

\* The types, the locals of the threads, the operations written in the
\* objects and the places of the objects are an inductive invariant.
THEOREM NetInvariant == Spec => []NetInv
BY NetInit, NetStep, PTL DEF Spec

(***************************************************************************)
(* The state of the units is well formed; the count of bytes in Recieved   *)
(* never drops below 0 (NetUnit.cpp:145-175).                              *)
(***************************************************************************)
THEOREM NetTypes == Spec => []TypeOK
<1>1. NetInv => TypeOK
  <2> SUFFICES ASSUME NetInv PROVE TypeOK
    OBVIOUS
  <2>1. th \in [Threads -> Thread]
    BY DEF NetInv, JobsOK, JobOK
  <2>. QED BY <2>1 DEF NetInv, SharedOK, TypeOK
<1>. QED BY <1>1, NetInvariant, PTL

(***************************************************************************)
(* Every pooled OverlappedEx is in one place, whatever the workers, the    *)
(* AutoConnector, the kernel and the remote ends do (NetUnit.cpp:177-217,  *)
(* WorkerThread.cpp:34-75).                                                *)
(***************************************************************************)
THEOREM ObjectsHaveOneHome == Spec => []OneHome
<1>1. NetInv => OneHome
  <2> SUFFICES ASSUME NetInv PROVE OneHome
    OBVIOUS
  <2>1. \A o \in free \cup leaked : o # NoOv
    BY OvsAssumption DEF NetInv, SharedOK
  <2>2. \A t \in Threads : Holding(t) <=> Hand(t) # NoOv
    BY DEF Hand, Holding
  <2>3. \A t \in Threads : Holding(t) => Hand(t) = th[t].ov
    BY DEF Hand
  <2>4. \A o : o \in InHand <=> o # NoOv /\ \E t \in Threads : Hand(t) = o
    BY <2>2, <2>3 DEF InHand
  <2>5. ApartFromPool
    BY <2>1, <2>4 DEF ApartFromPool, InKernel, InQueue, NetInv, Home, AtHome, Elsewhere
  <2>6. ApartInFlight
    BY <2>4 DEF ApartInFlight, InKernel, InQueue, NetInv, Home, Apart
  <2>7. HeldOnce
    BY <2>2, <2>3 DEF HeldOnce, NetInv, Home, Single
  <2>8. NothingForgotten
    BY <2>4, OvsAssumption
       DEF NothingForgotten, InKernel, InQueue, NetInv, Home, Located, Somewhere
  <2>. QED BY <2>5, <2>6, <2>7, <2>8 DEF OneHome
<1>. QED BY <1>1, NetInvariant, PTL

(***************************************************************************)
(* A completion reaches the handler of the operation that was issued,      *)
(* although Decode has given its object back (WorkerThread.cpp:58-98).     *)
(***************************************************************************)
THEOREM CompletionsReachHandlers == Spec => []RightHandler
<1>1. NetInv => RightHandler
  BY DEF NetInv, JobsOK, JobOK, Fits, OperationKnown, RightHandler
<1>. QED BY <1>1, NetInvariant, PTL
-----------------------------------------------------------------------------
(* One life of a unit at a time.                                           *)

\* The operation that opens a connection of the unit.
Opener(u) == IF u \in AcceptUnits THEN "ACCEPT" ELSE "CONNECT"

\* The stages of a unit's life, each as a predicate of what stands for it: a
\* pending operation, a packet or a thread.
Waits(f, u) == f.unit = u /\ f.op = Opener(u)

\* A packet that is the unit's next stage: a connection, or its end.
Brings(p, u) == p.unit = u /\ ((p.op = Opener(u) /\ p.ok) \/ p.op = "DISCONNECT")

\* Where a worker opens a connection, takes one down as its packet says, and
\* where a thread is past the test of DisconnectRequest.
OpeningLabels == {"accepted", "connected", "iostart"}
AcceptingLabels == {"acceptreq", "acceptex"}
ClosingLabels == {"disconnect", "cleanup"} \cup AcceptingLabels
TakingDown == {"drShut", "drOff", "drPost"}

Opens(j, u) == /\ j.unit = u /\ j.op = Opener(u)
               /\ j.pc \in {"decode"} \cup OpeningLabels
Closes(j, u) == \/ /\ j.unit = u /\ j.op = "DISCONNECT"
                   /\ j.pc \in {"decode", "dispatch"} \cup ClosingLabels
                \/ (j.tgt = u /\ j.pc \in TakingDown)
Works(j, u) == Opens(j, u) \/ Closes(j, u)

\* What stands for the unit in the kernel, in the queue and among the threads.
Kern(u) == {f \in inflight : Waits(f, u)}
Que(u) == {i \in 1..Len(iocp) : Brings(iocp[i], u)}
Thr(u) == {t \in Threads : Works(th[t], u)}

\* Nothing stands for two stages, and no two things stand for one.
AtMostOne(u) ==
  /\ \A f, g \in Kern(u) : f = g
  /\ \A i, j \in Que(u) : i = j
  /\ \A s, t \in Thr(u) : s = t
  /\ Kern(u) # {} => Que(u) = {} /\ Thr(u) = {} /\ ~active[u]
  /\ Que(u) # {} => Thr(u) = {} /\ ~active[u]
  /\ Thr(u) # {} => ~active[u]

Some(u) == Kern(u) # {} \/ Que(u) # {} \/ Thr(u) # {} \/ active[u]

\* Faults that cost an accepting unit its slot.
Lossless == {"acceptfail", "context"} \cap Faults = {}

\* One stage at most, and exactly one for a unit whose slot nothing costs.
Staged == /\ \A u \in Units : AtMostOne(u)
          /\ Lossless => \A u \in AcceptUnits : Some(u)

-----------------------------------------------------------------------------
\* An operation is one its unit can have.
OnUnit(op, u) == /\ op = "ACCEPT" => u \in AcceptUnits
                 /\ op = "CONNECT" => u \in ConnectUnits

\* What a label says of the operation in hand.
JobFits(j) ==
  /\ j.pc \in {"failed", "decode"} => OnUnit(j.op, j.unit)
  /\ j.pc = "failed" => j.op # "DISCONNECT"
  /\ j.pc \in {"decode", "dispatch"} => (j.op \in {"RECIEVE", "SEND"} => j.bytes > 0)
  /\ j.pc = "dispatch" => j.op \notin {"ACCEPT", "CONNECT"}
  /\ j.pc \in OpeningLabels => j.op = Opener(j.unit)
  /\ j.pc \in ClosingLabels => j.op = "DISCONNECT"
  /\ j.pc \in AcceptingLabels => j.unit \in AcceptUnits

\* What there is to complete, has completed, or is in hand; no end was graceful.
Kinds ==
  /\ \A f \in inflight : f.op # "DISCONNECT" /\ OnUnit(f.op, f.unit)
  /\ \A i \in 1..Len(iocp) :
       /\ OnUnit(iocp[i].op, iocp[i].unit)
       /\ iocp[i].op = "DISCONNECT" => iocp[i].ok
       /\ iocp[i].op \in {"RECIEVE", "SEND"} /\ iocp[i].ok => iocp[i].bytes > 0
  /\ \A t \in Threads : JobFits(th[t])
  /\ \A u \in Units : peer[u] # "fin"

\* The socket of a unit at each stage.
SocketAt(j, u, s) == /\ Opens(j, u) => s = "linked"
                     /\ Closes(j, u) => (IF j.pc \in AcceptingLabels THEN s = "fresh" ELSE s # "fresh")

\* Only a fresh socket waits for a connection, only a linked one is active.
Sockets ==
  /\ \A u \in AcceptUnits : sock[u] # "invalid"
  /\ \A u \in Units : active[u] => sock[u] = "linked"
  /\ \A u \in Units : \A f \in Kern(u) : sock[u] = "fresh" /\ f.sess = session[u]
  /\ \A u \in Units : \A i \in Que(u) :
       IF iocp[i].op = "DISCONNECT" THEN sock[u] # "fresh" ELSE sock[u] = "linked"
  /\ \A u \in Units, t \in Threads : SocketAt(th[t], u, sock[u])

\* At most the kernel has anything to do with the unit, and on a socket that
\* can still be connected what it does is not heard of.
Detached(u) == /\ sock[u] # "invalid" /\ (sock[u] = "fresh" => u \in loose)
               /\ ~active[u] /\ Que(u) = {} /\ Thr(u) = {}

\* So it is from the new socket of a unit to BindIocp.
Loosened ==
  /\ \A u \in Units : u \in loose => u \in ConnectUnits /\ Detached(u)
  /\ \A t \in Threads, u \in Units : th[t].pc = "bindiocp" /\ th[t].unit = u => Detached(u)
  /\ \A s, t \in Threads : th[s].pc = "bindiocp" /\ th[t].pc = "bindiocp"
                             /\ th[s].unit = th[t].unit => s = t

\* The inductive invariant.
LifeInv == Kinds /\ Sockets /\ Staged /\ Loosened

-----------------------------------------------------------------------------
\* A thread anywhere else is at no stage.
StageLabels == {"decode", "dispatch"} \cup OpeningLabels \cup ClosingLabels \cup TakingDown

LEMMA NoStage ==
  ASSUME NEW j, j.pc \notin StageLabels
  PROVE  \A u : ~Opens(j, u) /\ ~Closes(j, u)
BY DEF StageLabels, Opens, Closes

LEMMA JobAt ==
  ASSUME NetInv, LifeInv, NEW t \in Threads
  PROVE  th[t] \in Thread /\ Fits(t, th[t], th[t].pc) /\ JobFits(th[t])
BY ThreadAt DEF LifeInv, Kinds

LEMMA OpenerOf == \A u \in Units : /\ Opener(u) \in {"ACCEPT", "CONNECT"}
                                   /\ \A op : op \in {"ACCEPT", "CONNECT"} /\ OnUnit(op, u) => op = Opener(u)
BY UnitsAssumption DEF Opener, OnUnit, Units

\* What LifeInv says of detached units lasts while they are detached.
LEMMA StayLoose ==
  ASSUME LifeInv, loose' = loose,
         \A t \in Threads : th'[t].pc = "bindiocp" => th'[t] = th[t],
         \A u \in Units : Detached(u) => Detached(u)'
  PROVE  Loosened'
BY DEF LifeInv, Loosened

\* A thread moves on without changing the stage of any unit.
LEMMA Calm ==
  ASSUME NetInv, LifeInv, NEW t \in Threads, NEW job, th'[t] = job, Others(t),
         UNCHANGED <<sock, loose, session, active, iocp, peer>>,
         inflight \subseteq inflight',
         \A f \in inflight' : f \in inflight \/ f.op \in {"RECIEVE", "SEND"},
         JobFits(job),
         \A u \in Units : (Opens(job, u) <=> Opens(th[t], u)) /\ (Closes(job, u) <=> Closes(th[t], u)),
         job.pc \in AcceptingLabels <=> th[t].pc \in AcceptingLabels,
         job.pc # "bindiocp"
  PROVE  LifeInv'
<1>1. \A u \in Units : Kern(u)' = Kern(u)
  BY OpenerOf DEF Kern, Waits, Opener
<1>2. \A u \in Units : Que(u)' = Que(u)
  BY DEF Que, Brings, Opener
<1>3. \A u \in Units : Thr(u)' = Thr(u)
  BY DEF Thr, Works, Others, Opens, Closes, Opener
<1>4. Staged'
  <2>1. ASSUME NEW u \in Units PROVE (AtMostOne(u)' <=> AtMostOne(u)) /\ (Some(u)' <=> Some(u))
    BY <1>1, <1>2, <1>3 DEF AtMostOne, Some
  <2>. QED BY <2>1 DEF LifeInv, Staged, Units
<1>5. Kinds'
  <2>1. \A s \in Threads : JobFits(th'[s])
    BY DEF LifeInv, Kinds, Others
  <2>2. \A f \in inflight' : f.op # "DISCONNECT" /\ OnUnit(f.op, f.unit)
    BY DEF LifeInv, Kinds, OnUnit
  <2>. QED BY <2>1, <2>2 DEF LifeInv, Kinds
<1>6. Sockets'
  <2>1. \A s \in Threads, u \in Units : SocketAt(th'[s], u, sock[u])
    BY DEF LifeInv, Sockets, SocketAt, Others
  <2>. QED BY <1>1, <1>2, <2>1 DEF LifeInv, Sockets
<1>7. Loosened'
  BY <1>2, <1>3, StayLoose DEF Detached, Others
<1>. QED BY <1>4, <1>5, <1>6, <1>7 DEF LifeInv

\* ... because it is at no stage, before and after.
LEMMA Quiet ==
  ASSUME NetInv, LifeInv, NEW t \in Threads, Others(t),
         \A u \in Units : ~Opens(th[t], u) /\ ~Closes(th[t], u),
         th[t].pc \notin AcceptingLabels,
         th'[t].pc \notin StageLabels \cup {"failed", "bindiocp"},
         UNCHANGED <<sock, loose, session, active, iocp, peer>>,
         inflight \subseteq inflight',
         \A f \in inflight' : f \in inflight \/ f.op \in {"RECIEVE", "SEND"}
  PROVE  LifeInv'
<1>2. JobFits(th'[t])
  BY DEF JobFits, StageLabels, OpeningLabels, ClosingLabels, AcceptingLabels
<1>3. /\ th'[t].pc \notin AcceptingLabels
      /\ \A u \in Units : ~Opens(th'[t], u) /\ ~Closes(th'[t], u)
  BY NoStage DEF StageLabels, ClosingLabels, AcceptingLabels
<1>. QED BY <1>2, <1>3, Calm

\* Where a step leads.
LEMMA Goes ==
  ASSUME NetInv, NEW t \in Threads
  PROVE  /\ \A job : Go(t, job) => Others(t) /\ th'[t] = job
         /\ \A l : Step(t, l) => Others(t) /\ th'[t].pc = l
         /\ Finish(t) => Others(t) /\ th'[t] = Idle /\ th'[t].pc = "idle"
         /\ \A v, d : RequestDisconnect(t, v, d) => Others(t) /\ th'[t].pc = "dr"
<1>1. th \in [Threads -> Thread] /\ th[t] \in Thread
  BY DEF NetInv, JobsOK
<1>2. \A job : Go(t, job) => Others(t) /\ th'[t] = job
  BY <1>1 DEF Go, Others
<1>3. ASSUME NEW l, Step(t, l) PROVE Others(t) /\ th'[t].pc = l
  BY <1>1, <1>2, <1>3 DEF Step, Thread
<1>4. ASSUME Finish(t) PROVE Others(t) /\ th'[t] = Idle /\ th'[t].pc = "idle"
  BY <1>2, <1>4 DEF Finish, Idle
<1>5. ASSUME NEW v, NEW d, RequestDisconnect(t, v, d) PROVE Others(t) /\ th'[t].pc = "dr"
  <2> DEFINE job == [th[t] EXCEPT !.pc = "dr", !.tgt = v, !.ov = NoOv, !.dret = d]
  <2>1. job.pc = "dr"
    BY <1>1 DEF Thread
  <2>2. Go(t, job)
    BY <1>5 DEF RequestDisconnect
  <2>. QED BY <1>2, <2>1, <2>2
<1>. QED BY <1>2, <1>3, <1>4, <1>5

\* What it leaves alone.
LEMMA LocalsAre ==
  ASSUME NetInv
  PROVE  th \in [Threads -> Thread]
BY DEF NetInv, JobsOK

\* A label that is no stage's.
LEMMA Stageless ==
  ASSUME NEW t, th[t].pc \in {"failed", "onconnect", "enable", "rearm", "wsarecv", "recieved", "processed",
                              "send", "wsasend", "dr", "idle", "isconnected", "connectex", "bindiocp"}
  PROVE  th[t].pc \notin AcceptingLabels /\ \A u \in Units : ~Opens(th[t], u) /\ ~Closes(th[t], u)
BY NoStage DEF StageLabels, OpeningLabels, ClosingLabels, AcceptingLabels, TakingDown

LEMMA StagelessLabels ==
  \A l \in {"onconnect", "enable", "rearm", "wsarecv", "recieved", "processed", "send", "wsasend", "dr",
            "idle", "isconnected", "connectex"} : l \notin StageLabels \cup {"failed", "bindiocp"}
BY DEF StageLabels, OpeningLabels, ClosingLabels, AcceptingLabels, TakingDown

-----------------------------------------------------------------------------
(* The actions after which every unit is at the stage it was.              *)

LEMMA OnConnectLife == ASSUME NetInv, LifeInv, NEW w \in Workers, OnConnect(w) PROVE LifeInv'
<1>1. w \in Threads /\ th[w] \in Thread /\ th[w].pc = "onconnect"
  BY WorkerAt DEF OnConnect, At
<1>2. UNCHANGED <<sock, loose, session, active, iocp, peer, inflight>>
  BY DEF OnConnect, winVars, sockVars
<1>3. Others(w) /\ th'[w].pc \in {"send", "enable"}
  <2>1. CASE Step(w, "enable")
    BY <1>1, <2>1, Goes
  <2>2. ASSUME NEW targets,
               Go(w, [th[w] EXCEPT !.pc = "send", !.ret = "enable", !.todo = targets])
        PROVE  Others(w) /\ th'[w].pc = "send"
    BY <1>1, <2>2, LocalsAre DEF Go, Others, Thread
  <2>. QED BY <2>1, <2>2 DEF OnConnect
<1>. QED BY <1>1, <1>2, <1>3, Quiet, Stageless, StagelessLabels

LEMMA EnableLife == ASSUME NetInv, LifeInv, NEW w \in Workers, Enable(w) PROVE LifeInv'
<1>1. w \in Threads /\ th[w].pc = "enable"
  BY WorkerAt DEF Enable, At
<1>2. UNCHANGED <<sock, loose, session, active, iocp, peer, inflight>>
  BY DEF Enable
<1>3. Others(w) /\ th'[w].pc = "rearm"
  BY <1>1, Goes DEF Enable
<1>. QED BY <1>1, <1>2, <1>3, Quiet, Stageless, StagelessLabels

LEMMA RecieveRequestLife ==
  ASSUME NetInv, LifeInv, NEW w \in Workers, RecieveRequest(w) PROVE LifeInv'
<1>1. w \in Threads /\ th[w].pc = "rearm"
  BY WorkerAt DEF RecieveRequest, At
<1>2. UNCHANGED <<sock, loose, session, active, iocp, peer, inflight>>
  BY DEF RecieveRequest, winVars, sockVars
<1>3. Others(w) /\ th'[w].pc \in {"wsarecv", "idle"}
  BY <1>1, Goes DEF RecieveRequest
<1>. QED BY <1>1, <1>2, <1>3, Quiet, Stageless, StagelessLabels

LEMMA AsyncRecieveLife ==
  ASSUME NetInv, LifeInv, NEW w \in Workers, AsyncRecieve(w) PROVE LifeInv'
<1>1. w \in Threads /\ th[w].pc = "wsarecv"
  BY WorkerAt DEF AsyncRecieve, At
<1>2. UNCHANGED <<sock, loose, session, active, iocp, peer>>
  BY DEF AsyncRecieve, sockVars
<1>3. Others(w) /\ th'[w].pc \in {"dr", "idle"}
  BY <1>1, Goes DEF AsyncRecieve
<1>4. /\ inflight \subseteq inflight'
      /\ \A f \in inflight' : f \in inflight \/ f.op \in {"RECIEVE", "SEND"}
  BY DEF AsyncRecieve, Issue
<1>. QED BY <1>1, <1>2, <1>3, <1>4, Quiet, Stageless, StagelessLabels

LEMMA RecievedLife == ASSUME NetInv, LifeInv, NEW w \in Workers, Recieved(w) PROVE LifeInv'
<1>1. w \in Threads /\ th[w] \in Thread /\ th[w].pc = "recieved"
  BY WorkerAt DEF Recieved, At
<1>2. UNCHANGED <<sock, loose, session, active, iocp, peer, inflight>>
  BY DEF Recieved, winVars, sockVars
<1>3. Others(w) /\ th'[w].pc \in {"rearm", "idle", "send"}
  <2>1. ASSUME NEW targets, Go(w, [th[w] EXCEPT !.pc = "send", !.todo = targets, !.ret = "processed"])
        PROVE  Others(w) /\ th'[w].pc = "send"
    BY <1>1, <2>1, LocalsAre DEF Go, Others, Thread
  <2>. QED BY <1>1, <2>1, Goes DEF Recieved
<1>. QED BY <1>1, <1>2, <1>3, Quiet, Stageless, StagelessLabels

LEMMA ProcessedLife == ASSUME NetInv, LifeInv, NEW w \in Workers, Processed(w) PROVE LifeInv'
<1>1. w \in Threads /\ th[w] \in Thread /\ th[w].pc = "processed"
  BY WorkerAt DEF Processed, At
<1>2. UNCHANGED <<sock, loose, session, active, iocp, peer, inflight>>
  BY DEF Processed, winVars, sockVars
<1>3. Others(w) /\ th'[w].pc \in {"recieved", "idle"}
  <2>1. CASE Go(w, [th[w] EXCEPT !.pc = "recieved", !.bytes = @ - 1])
    BY <1>1, <2>1, LocalsAre DEF Go, Others, Thread
  <2>2. CASE Finish(w)
    BY <1>1, <2>2, Goes
  <2>. QED BY <2>1, <2>2 DEF Processed
<1>. QED BY <1>1, <1>2, <1>3, Quiet, Stageless, StagelessLabels

LEMMA SendRequestLife == ASSUME NetInv, LifeInv, NEW w \in Workers, SendRequest(w) PROVE LifeInv'
<1>1. w \in Threads /\ th[w] \in Thread /\ th[w].pc = "send"
  BY WorkerAt DEF SendRequest, At
<1>2. UNCHANGED <<sock, loose, session, active, iocp, peer, inflight>>
  BY DEF SendRequest, winVars, sockVars
<1>3. Others(w) /\ th'[w].pc \in {"send", "wsasend"}
  <2>1. ASSUME NEW u, NEW o, Go(w, [th[w] EXCEPT !.pc = "wsasend", !.ov = o, !.tgt = u, !.todo = @ \ {u}])
        PROVE  Others(w) /\ th'[w].pc = "wsasend"
    BY <1>1, <2>1, LocalsAre DEF Go, Others, Thread
  <2>2. ASSUME NEW u, Go(w, [th[w] EXCEPT !.todo = @ \ {u}])
        PROVE  Others(w) /\ th'[w].pc = "send"
    BY <1>1, <2>2, LocalsAre DEF Go, Others, Thread
  <2>. QED BY <2>1, <2>2 DEF SendRequest
<1>. QED BY <1>1, <1>2, <1>3, Quiet, Stageless, StagelessLabels

LEMMA SendsDoneLife == ASSUME NetInv, LifeInv, NEW w \in Workers, SendsDone(w) PROVE LifeInv'
<1>1. w \in Threads /\ th[w] \in Thread /\ th[w].pc = "send" /\ Fits(w, th[w], "send")
  BY WorkerAt DEF SendsDone, At
<1>2. UNCHANGED <<sock, loose, session, active, iocp, peer, inflight>>
  BY DEF SendsDone, winVars, sockVars
<1>3. th[w].ret \in {"enable", "processed"}
  BY <1>1 DEF Fits, SeriesGoesBack, InSeries
<1>4. Others(w) /\ th'[w].pc = th[w].ret
  BY <1>1, Goes, LocalsAre DEF SendsDone, Go, Others, Thread
<1>. QED BY <1>1, <1>2, <1>3, <1>4, Quiet, Stageless, StagelessLabels

LEMMA AsyncSendLife == ASSUME NetInv, LifeInv, NEW w \in Workers, AsyncSend(w) PROVE LifeInv'
<1>1. w \in Threads /\ th[w] \in Thread /\ th[w].pc = "wsasend"
  BY WorkerAt DEF AsyncSend, At
<1>2. UNCHANGED <<sock, loose, session, active, iocp, peer>>
  BY DEF AsyncSend, sockVars
<1>3. Others(w) /\ th'[w].pc \in {"dr", "send"}
  <2>1. CASE Go(w, [th[w] EXCEPT !.pc = "send", !.ov = NoOv, !.tgt = NoUnit])
    BY <1>1, <2>1, LocalsAre DEF Go, Others, Thread
  <2>2. CASE RequestDisconnect(w, th[w].tgt, "send")
    BY <1>1, <2>2, Goes
  <2>. QED BY <2>1, <2>2 DEF AsyncSend
<1>4. /\ inflight \subseteq inflight'
      /\ \A f \in inflight' : f \in inflight \/ f.op \in {"RECIEVE", "SEND"}
  BY DEF AsyncSend, Issue
<1>. QED BY <1>1, <1>2, <1>3, <1>4, Quiet, Stageless, StagelessLabels

LEMMA FailedLife == ASSUME NetInv, LifeInv, NEW w \in Workers, Failed(w) PROVE LifeInv'
<1>1. w \in Threads /\ th[w].pc = "failed"
  BY WorkerAt DEF Failed, At
<1>2. UNCHANGED <<sock, loose, session, active, iocp, peer, inflight>>
  BY DEF Failed, winVars, sockVars
<1>3. Others(w) /\ th'[w].pc \in {"idle", "dr"}
  BY <1>1, Goes DEF Failed
<1>. QED BY <1>1, <1>2, <1>3, Quiet, Stageless, StagelessLabels

LEMMA CheckActiveLife == ASSUME NetInv, LifeInv, NEW u \in Units, CheckActive(u) PROVE LifeInv'
<1>1. Connector \in Threads /\ th[Connector].pc = "idle"
  BY DEF CheckActive, At, Threads
<1>2. UNCHANGED <<sock, loose, session, active, iocp, peer, inflight>>
  BY DEF CheckActive, winVars, sockVars
<1>3. Others(Connector) /\ th'[Connector].pc = "isconnected"
  BY <1>1, Goes, LocalsAre DEF CheckActive, Go, Others, Thread
<1>. QED BY <1>1, <1>2, <1>3, Quiet, Stageless, StagelessLabels

LEMMA CheckConnectedLife == ASSUME NetInv, LifeInv, CheckConnected PROVE LifeInv'
<1>1. Connector \in Threads /\ th[Connector].pc = "isconnected"
  BY DEF CheckConnected, At, Threads
<1>2. UNCHANGED <<sock, loose, session, active, iocp, peer, inflight>>
  BY DEF CheckConnected, winVars, sockVars
<1>3. Others(Connector) /\ th'[Connector].pc \in {"idle", "dr"}
  BY <1>1, Goes DEF CheckConnected
<1>. QED BY <1>1, <1>2, <1>3, Quiet, Stageless, StagelessLabels

LEMMA DecodeLife == ASSUME NetInv, LifeInv, NEW w \in Workers, Decode(w) PROVE LifeInv'
<1>1. /\ w \in Threads /\ th[w] \in Thread /\ th[w].pc = "decode" /\ JobFits(th[w])
      /\ Fits(w, th[w], "decode")
  BY WorkerAt, JobAt DEF Decode, At
<1>2. UNCHANGED <<sock, loose, session, active, iocp, peer, inflight>>
  BY DEF Decode, winVars, sockVars
<1>3. OperationOf(w) = th[w].op
  BY <1>1 DEF OperationOf, NetInv, Tagged, Agree
<1> DEFINE op == th[w].op
           next == CASE op = "ACCEPT"  -> "accepted"
                     [] op = "CONNECT" -> "connected"
                     [] OTHER          -> "dispatch"
           job == [th[w] EXCEPT !.pc = next, !.optype = op]
<1>4. /\ job.pc = next /\ job.op = op /\ job.unit = th[w].unit /\ job.tgt = th[w].tgt
      /\ job.bytes = th[w].bytes
  BY <1>1 DEF Thread
<1>5. Go(w, job)
  BY <1>3 DEF Decode
<1> HIDE DEF job
<1>6. th'[w] = job /\ Others(w)
  BY <1>1, <1>5, Goes
<1>7. th[w].unit \in Units
  BY <1>1 DEF Fits, UnitsKnown, DrLabels
<1>8. JobFits(job)
  BY <1>1, <1>4, <1>7, OpenerOf DEF JobFits, OpeningLabels, ClosingLabels, AcceptingLabels
<1>9. \A u \in Units : (Opens(job, u) <=> Opens(th[w], u)) /\ (Closes(job, u) <=> Closes(th[w], u))
  BY <1>1, <1>4, OpenerOf DEF Opens, Closes, OpeningLabels, ClosingLabels, AcceptingLabels, TakingDown
<1>. QED BY <1>1, <1>2, <1>4, <1>6, <1>8, <1>9, Calm DEF AcceptingLabels

LEMMA DispatchLife == ASSUME NetInv, LifeInv, NEW w \in Workers, Dispatch(w) PROVE LifeInv'
<1>1. /\ w \in Threads /\ th[w] \in Thread /\ th[w].pc = "dispatch" /\ JobFits(th[w])
      /\ th[w].optype = th[w].op /\ th[w].bytes \in Nat
  BY WorkerAt, JobAt DEF Dispatch, At, Fits, OperationKnown, Thread
<1>2. UNCHANGED <<sock, loose, session, active, iocp, peer, inflight>>
  BY DEF Dispatch, winVars, sockVars
<1>3. CASE th[w].op = "DISCONNECT"
  <2> DEFINE job == [th[w] EXCEPT !.pc = "disconnect"]
  <2>1. /\ job.pc = "disconnect" /\ job.op = th[w].op /\ job.unit = th[w].unit /\ job.tgt = th[w].tgt
    BY <1>1 DEF Thread
  <2>2. Go(w, job)
    BY <1>1, <1>3 DEF Dispatch, Step
  <2> HIDE DEF job
  <2>3. th'[w] = job /\ Others(w)
    BY <1>1, <2>2, Goes
  <2>4. JobFits(job)
    BY <1>3, <2>1 DEF JobFits, OpeningLabels, ClosingLabels, AcceptingLabels
  <2>5. \A u \in Units : (Opens(job, u) <=> Opens(th[w], u)) /\ (Closes(job, u) <=> Closes(th[w], u))
    BY <1>1, <1>3, <2>1 DEF Opens, Closes, OpeningLabels, ClosingLabels, AcceptingLabels, TakingDown
  <2>. QED BY <1>1, <1>2, <2>1, <2>3, <2>4, <2>5, Calm DEF AcceptingLabels
<1>4. CASE th[w].op # "DISCONNECT"
  <2>1. \A u \in Units : ~Opens(th[w], u) /\ ~Closes(th[w], u)
    BY <1>1, <1>4 DEF Opens, Closes, OpeningLabels, TakingDown
  <2>2. Step(w, "recieved") \/ Finish(w)
    BY <1>1, <1>4 DEF Dispatch, JobFits, Thread, Operations
  <2>3. Others(w) /\ th'[w].pc \in {"recieved", "idle"}
    BY <1>1, <2>2, Goes
  <2>. QED BY <1>1, <1>2, <2>1, <2>3, Quiet, StagelessLabels DEF AcceptingLabels
<1>. QED BY <1>3, <1>4

LEMMA OnDisconnectLife == ASSUME NetInv, LifeInv, NEW w \in Workers, OnDisconnect(w) PROVE LifeInv'
<1>1. w \in Threads /\ th[w] \in Thread /\ th[w].pc = "disconnect" /\ JobFits(th[w])
  BY WorkerAt, JobAt DEF OnDisconnect, At
<1>2. UNCHANGED <<sock, loose, session, active, iocp, peer, inflight>>
  BY DEF OnDisconnect, winVars, sockVars
<1> DEFINE job == [th[w] EXCEPT !.pc = "cleanup"]
<1>3. /\ job.pc = "cleanup" /\ job.op = th[w].op /\ job.unit = th[w].unit /\ job.tgt = th[w].tgt
  BY <1>1 DEF Thread
<1>4. Go(w, job)
  BY DEF OnDisconnect, Step
<1> HIDE DEF job
<1>5. th'[w] = job /\ Others(w)
  BY <1>1, <1>4, Goes
<1>6. JobFits(job)
  BY <1>1, <1>3 DEF JobFits, OpeningLabels, ClosingLabels, AcceptingLabels
<1>7. \A u \in Units : (Opens(job, u) <=> Opens(th[w], u)) /\ (Closes(job, u) <=> Closes(th[w], u))
  BY <1>1, <1>3 DEF Opens, Closes, OpeningLabels, ClosingLabels, AcceptingLabels, TakingDown
<1>. QED BY <1>1, <1>2, <1>3, <1>5, <1>6, <1>7, Calm DEF AcceptingLabels

-----------------------------------------------------------------------------
(* The actions that bring a unit to another stage.                         *)

\* Which threads stand for a stage once t has moved on.
LEMMA ThrOf ==
  ASSUME NEW t \in Threads, Others(t), NEW u
  PROVE  \A s \in Threads : s \in Thr(u)' <=> IF s = t THEN Works(th'[t], u) ELSE s \in Thr(u)
BY DEF Thr, Works, Opens, Closes, Others, Opener

LEMMA SameKern == ASSUME UNCHANGED inflight PROVE \A u : Kern(u)' = Kern(u)
BY DEF Kern, Waits, Opener

LEMMA SameQue == ASSUME UNCHANGED iocp PROVE \A u : Que(u)' = Que(u)
BY DEF Que, Brings, Opener

LEMMA UpdateContextLife ==
  ASSUME NetInv, LifeInv, NEW w \in Workers, UpdateContext(w) PROVE LifeInv'
<1>1. /\ w \in Threads /\ th[w] \in Thread /\ th[w].pc \in {"accepted", "connected"}
      /\ JobFits(th[w]) /\ Fits(w, th[w], th[w].pc)
  BY WorkerAt, JobAt DEF UpdateContext, At
<1>2. UNCHANGED <<sock, loose, session, active, iocp, peer, inflight>>
  BY DEF UpdateContext, winVars, sockVars
<1>3. CASE Step(w, "iostart")
  <2> DEFINE job == [th[w] EXCEPT !.pc = "iostart"]
  <2>1. /\ job.pc = "iostart" /\ job.op = th[w].op /\ job.unit = th[w].unit /\ job.tgt = th[w].tgt
    BY <1>1 DEF Thread
  <2>2. Go(w, job)
    BY <1>3 DEF Step
  <2> HIDE DEF job
  <2>3. th'[w] = job /\ Others(w)
    BY <1>1, <2>2, Goes
  <2>4. JobFits(job)
    BY <1>1, <2>1 DEF JobFits, OpeningLabels, ClosingLabels, AcceptingLabels
  <2>5. \A u \in Units : (Opens(job, u) <=> Opens(th[w], u)) /\ (Closes(job, u) <=> Closes(th[w], u))
    BY <1>1, <2>1 DEF Opens, Closes, OpeningLabels, ClosingLabels, AcceptingLabels, TakingDown
  <2>. QED BY <1>1, <1>2, <2>1, <2>3, <2>4, <2>5, Calm DEF AcceptingLabels
<1>4. CASE Finish(w) /\ "context" \in Faults
  <2>1. Others(w) /\ th'[w].pc = "idle"
    BY <1>1, <1>4, Goes
  <2>2. \A u : Works(th'[w], u) = FALSE /\ Opens(th'[w], u) = FALSE /\ Closes(th'[w], u) = FALSE
    BY <2>1, NoStage, StagelessLabels
       DEF Works, Opens, Closes, OpeningLabels, ClosingLabels, AcceptingLabels, TakingDown
  <2>3. \A u \in Units : Kern(u)' = Kern(u) /\ Que(u)' = Que(u) /\ Thr(u)' = Thr(u) \ {w}
    BY <1>1, <1>2, <2>1, <2>2, ThrOf, SameKern, SameQue DEF Thr
  <2>4. Staged'
    <3>1. \A u \in Units : AtMostOne(u)'
      BY <1>2, <2>3 DEF LifeInv, Staged, AtMostOne
    <3>. QED BY <1>4, <3>1 DEF Staged, Lossless
  <2>5. Kinds'
    BY <1>2, <2>1 DEF LifeInv, Kinds, JobFits, OpeningLabels, ClosingLabels, AcceptingLabels, Others
  <2>6. Sockets'
    BY <1>2, <2>1, <2>2, <2>3 DEF LifeInv, Sockets, SocketAt, Others
  <2>7. Loosened'
    BY <1>2, <2>1, <2>3, StayLoose DEF Detached, Others
  <2>. QED BY <2>4, <2>5, <2>6, <2>7 DEF LifeInv
<1>. QED BY <1>3, <1>4 DEF UpdateContext

\* The unit becomes active: it leaves the worker's hands.
LEMMA IoStartLife == ASSUME NetInv, LifeInv, NEW w \in Workers, IoStart(w) PROVE LifeInv'
<1> DEFINE u == th[w].unit
<1>1. /\ w \in Threads /\ th[w] \in Thread /\ th[w].pc = "iostart" /\ JobFits(th[w]) /\ u \in Units
  BY WorkerAt, JobAt DEF IoStart, At, Fits, UnitsKnown, DrLabels
<1>2. UNCHANGED <<sock, loose, session, iocp, peer, inflight>>
  BY DEF IoStart, winVars, sockVars
<1>3. Opens(th[w], u) /\ w \in Thr(u)
  BY <1>1 DEF JobFits, OpeningLabels, Opens, Thr, Works
<1>4. ~active[u] /\ sock[u] = "linked"
  BY <1>1, <1>3 DEF LifeInv, Staged, AtMostOne, Sockets, SocketAt
<1>5. active' = [active EXCEPT ![u] = TRUE] /\ Step(w, "onconnect")
  BY <1>4 DEF IoStart
<1>6. Others(w) /\ th'[w].pc = "onconnect"
  BY <1>1, <1>5, Goes
<1>7. active'[u] = TRUE /\ \A v \in Units \ {u} : active'[v] = active[v]
  BY <1>1, <1>5 DEF NetInv, SharedOK
<1>8. \A v : ~Works(th'[w], v) /\ ~Opens(th'[w], v) /\ ~Closes(th'[w], v)
  BY <1>6, NoStage, StagelessLabels DEF Works
<1>9. \A v \in Units : Kern(v)' = Kern(v) /\ Que(v)' = Que(v) /\ Thr(v)' = Thr(v) \ {w}
  BY <1>1, <1>2, <1>6, <1>8, ThrOf, SameKern, SameQue DEF Thr
<1> HIDE DEF u
<1>10. \A v \in Units \ {u} : w \notin Thr(v)
  BY <1>1, <1>3 DEF Thr, Works, Opens, Closes, u, OpeningLabels, ClosingLabels, AcceptingLabels, TakingDown
<1>11. Staged'
  <2>1. ASSUME NEW v \in Units PROVE AtMostOne(v)' /\ (Some(v) => Some(v)')
    <3>1. CASE v = u
      BY <1>1, <1>3, <1>7, <1>9, <3>1 DEF LifeInv, Staged, AtMostOne, Some
    <3>2. CASE v # u
      BY <1>7, <1>9, <1>10, <3>2 DEF LifeInv, Staged, AtMostOne, Some
    <3>. QED BY <3>1, <3>2
  <2>. QED BY <2>1 DEF LifeInv, Staged, Units
<1>12. Kinds'
  BY <1>2, <1>6 DEF LifeInv, Kinds, JobFits, OpeningLabels, ClosingLabels, AcceptingLabels, Others
<1>13. Sockets'
  BY <1>2, <1>4, <1>6, <1>7, <1>8, <1>9 DEF LifeInv, Sockets, SocketAt, Others
<1>14. Loosened'
  BY <1>2, <1>3, <1>6, <1>7, <1>9, StayLoose DEF Detached, Others
<1>. QED BY <1>11, <1>12, <1>13, <1>14 DEF LifeInv

\* A thread that comes back from DisconnectRequest is at no stage.
LEMMA ResumeGoes ==
  ASSUME NetInv, NEW t \in Threads, th[t].pc \in DrLabels, Resume(t)
  PROVE  /\ Others(t) /\ th'[t].pc \in {"idle", "send"}
         /\ JobFits(th'[t])
         /\ \A u : ~Works(th'[t], u) /\ ~Opens(th'[t], u) /\ ~Closes(th'[t], u)
<1>1. Others(t) /\ th'[t].pc \in {"idle", "send"}
  <2>1. CASE Finish(t)
    BY <2>1, Goes
  <2>2. CASE th[t].dret # "idle" /\ Back(t)
    BY <2>2, ThreadAt, LocalsAre DEF Back, Go, Others, Thread
  <2>. QED BY <2>1, <2>2 DEF Resume
<1>. QED BY <1>1, NoStage, StagelessLabels DEF Works, JobFits, OpeningLabels, ClosingLabels, AcceptingLabels

\* Only the thread that finds the unit active takes it down, and then it is not.
LEMMA DisconnectRequestLife ==
  ASSUME NetInv, LifeInv, NEW t \in Threads, DisconnectRequest(t) PROVE LifeInv'
<1> DEFINE u == th[t].tgt
<1>1. /\ th[t] \in Thread /\ th[t].pc = "dr" /\ u \in Units /\ th[t].pc \in DrLabels
  BY ThreadAt DEF DisconnectRequest, At, Fits, UnitsKnown, DrLabels
<1>2. UNCHANGED <<sock, loose, session, iocp, peer, inflight>>
  BY DEF DisconnectRequest, winVars, sockVars
<1>3. CASE ~active[u]
  <2>1. Resume(t) /\ UNCHANGED active
    BY <1>3 DEF DisconnectRequest
  <2>. QED BY <1>1, <1>2, <2>1, ResumeGoes, Quiet, Stageless, StagelessLabels
<1>4. CASE active[u]
  <2>1. active' = [active EXCEPT ![u] = FALSE] /\ Step(t, "drShut")
    BY <1>4 DEF DisconnectRequest
  <2>2. /\ active'[u] = FALSE /\ \A v \in Units \ {u} : active'[v] = active[v]
        /\ \A v \in Units : active'[v] => active[v]
    BY <1>1, <2>1 DEF NetInv, SharedOK
  <2>3. Others(t) /\ th'[t].pc = "drShut" /\ th'[t].tgt = u
    BY <1>1, <2>1, LocalsAre DEF Step, Go, Others, Thread
  <2>4. \A v : ~Opens(th'[t], v) /\ (Closes(th'[t], v) <=> v = u) /\ (Works(th'[t], v) <=> v = u)
    BY <2>3 DEF Opens, Closes, Works, OpeningLabels, ClosingLabels, AcceptingLabels, TakingDown
  <2>5. \A v \in Units : /\ Kern(v)' = Kern(v) /\ Que(v)' = Que(v) /\ t \notin Thr(v)
                         /\ Thr(v)' = IF v = u THEN Thr(v) \cup {t} ELSE Thr(v)
    BY <1>1, <1>2, <2>3, <2>4, ThrOf, SameKern, SameQue, Stageless DEF Thr, Works
  <2> HIDE DEF u
  <2>6. Staged'
    <3>1. ASSUME NEW v \in Units PROVE AtMostOne(v)' /\ (Some(v) => Some(v)')
      BY <1>4, <2>2, <2>5 DEF LifeInv, Staged, AtMostOne, Some
    <3>. QED BY <3>1 DEF LifeInv, Staged, Units
  <2>7. Kinds'
    BY <1>2, <2>3 DEF LifeInv, Kinds, JobFits, OpeningLabels, ClosingLabels, AcceptingLabels, Others
  <2>8. Sockets'
    <3>1. sock[u] = "linked"
      BY <1>1, <1>4 DEF LifeInv, Sockets
    <3>. QED BY <1>2, <2>2, <2>3, <2>4, <2>5, <3>1 DEF LifeInv, Sockets, SocketAt, AcceptingLabels, Others
  <2>9. Loosened'
    BY <1>2, <1>4, <2>2, <2>3, <2>5, StayLoose DEF Detached, Others
  <2>. QED BY <2>6, <2>7, <2>8, <2>9 DEF LifeInv
<1>. QED BY <1>3, <1>4

\* A thread goes on taking the unit down; the socket of the unit may change.
LEMMA GoesOnClosing ==
  ASSUME NetInv, LifeInv, NEW t \in Threads, NEW job, th'[t] = job, Others(t),
         NEW u \in Units, Closes(th[t], u), ~Opens(th[t], u),
         th[t].pc \notin AcceptingLabels, job.pc \notin AcceptingLabels \cup {"bindiocp"},
         JobFits(job),
         \A v \in Units : (Opens(job, v) <=> Opens(th[t], v)) /\ (Closes(job, v) <=> Closes(th[t], v)),
         UNCHANGED <<loose, session, active, iocp, inflight>>,
         \A v \in Units \ {u} : sock'[v] = sock[v],
         sock'[u] # "fresh", u \in AcceptUnits => sock'[u] # "invalid",
         \A v \in Units : peer'[v] # "fin"
  PROVE  LifeInv'
<1>1. \A v \in Units : Kern(v)' = Kern(v) /\ Que(v)' = Que(v)
  BY SameKern, SameQue
<1>2. \A v \in Units : Thr(v)' = Thr(v)
  BY DEF Thr, Works, Others, Opens, Closes, Opener
<1>3. /\ t \in Thr(u) /\ Kern(u) = {} /\ Que(u) = {} /\ ~active[u]
      /\ \A s \in Threads \ {t} : ~Works(th[s], u)
  BY DEF Thr, Works, LifeInv, Staged, AtMostOne
<1>4. Staged'
  <2>1. ASSUME NEW v \in Units PROVE (AtMostOne(v)' <=> AtMostOne(v)) /\ (Some(v)' <=> Some(v))
    BY <1>1, <1>2 DEF AtMostOne, Some
  <2>. QED BY <2>1 DEF LifeInv, Staged, Units
<1>5. Kinds'
  BY DEF LifeInv, Kinds, Others
<1>6. Sockets'
  <2>1. ASSUME NEW s \in Threads, NEW v \in Units PROVE SocketAt(th'[s], v, sock'[v])
    <3>1. CASE s = t
      BY <3>1 DEF LifeInv, Sockets, SocketAt
    <3>2. CASE s # t
      BY <1>3, <3>2 DEF LifeInv, Sockets, SocketAt, Others, Works
    <3>. QED BY <3>1, <3>2
  <2>. QED BY <1>1, <1>3, <2>1, UnitsAssumption DEF LifeInv, Sockets, Units
<1>7. Loosened'
  BY <1>1, <1>2, <1>3, StayLoose DEF Detached, Others
<1>. QED BY <1>4, <1>5, <1>6, <1>7 DEF LifeInv

\* A thread that is taking a unit down.
LEMMA AtTakingDown ==
  ASSUME NetInv, LifeInv, NEW t \in Threads, th[t].pc \in TakingDown
  PROVE  /\ th[t] \in Thread /\ th[t].tgt \in Units /\ Closes(th[t], th[t].tgt)
         /\ sock[th[t].tgt] # "fresh" /\ ~active[th[t].tgt]
         /\ \A v : ~Opens(th[t], v)
         /\ th[t].tgt \in AcceptUnits => sock[th[t].tgt] # "invalid"
<1>1. th[t] \in Thread /\ th[t].tgt \in Units
  BY ThreadAt DEF Fits, UnitsKnown, DrLabels, TakingDown
<1>2. Closes(th[t], th[t].tgt) /\ \A v : ~Opens(th[t], v)
  BY DEF Closes, Opens, OpeningLabels, TakingDown
<1>3. ~active[th[t].tgt]
  BY <1>1, <1>2 DEF LifeInv, Staged, AtMostOne, Thr, Works
<1>4. sock[th[t].tgt] # "fresh" /\ (th[t].tgt \in AcceptUnits => sock[th[t].tgt] # "invalid")
  BY <1>1, <1>2 DEF LifeInv, Sockets, SocketAt, TakingDown, AcceptingLabels
<1>. QED BY <1>1, <1>2, <1>3, <1>4

\* From one of its labels to the next.
LEMMA TakesDown ==
  ASSUME NetInv, NEW t \in Threads, th[t].pc \in TakingDown, NEW l \in TakingDown, Step(t, l)
  PROVE  /\ Others(t) /\ th'[t].pc = l /\ JobFits(th'[t])
         /\ \A v : (Opens(th'[t], v) <=> Opens(th[t], v)) /\ (Closes(th'[t], v) <=> Closes(th[t], v))
<1>1. Others(t) /\ th'[t].pc = l /\ th'[t].tgt = th[t].tgt
  BY ThreadAt, LocalsAre DEF Step, Go, Others, Thread
<1>2. JobFits(th'[t])
  BY <1>1 DEF JobFits, TakingDown, OpeningLabels, ClosingLabels, AcceptingLabels
<1>. QED BY <1>1, <1>2 DEF Opens, Closes, OpeningLabels, ClosingLabels, AcceptingLabels, TakingDown

LEMMA ShutDownSocketLife ==
  ASSUME NetInv, LifeInv, NEW t \in Threads, ShutDownSocket(t) PROVE LifeInv'
<1> DEFINE u == th[t].tgt
<1>1. th[t].pc = "drShut" /\ th[t].pc \in TakingDown /\ "drOff" \in TakingDown
  BY DEF ShutDownSocket, At, TakingDown
<1>2. UNCHANGED <<loose, session, active, iocp, inflight, peer>> /\ ShutDown(u) /\ Step(t, "drOff")
  BY DEF ShutDownSocket
<1>3. u \in Units /\ Closes(th[t], u) /\ ~Opens(th[t], u)
  BY <1>1, AtTakingDown
<1>4. /\ \A v \in Units \ {u} : sock'[v] = sock[v]
      /\ sock'[u] # "fresh" /\ (u \in AcceptUnits => sock'[u] # "invalid")
  BY <1>1, <1>2, <1>3, AtTakingDown DEF ShutDown, NetInv, SharedOK, WinTypeOK
<1>5. \A v \in Units : peer'[v] # "fin"
  BY <1>2 DEF LifeInv, Kinds
<1>6. th'[t].pc \notin AcceptingLabels \cup {"bindiocp"} /\ th[t].pc \notin AcceptingLabels
  BY <1>1, <1>2, TakesDown DEF AcceptingLabels
<1> HIDE DEF u
<1>. QED BY <1>1, <1>2, <1>3, <1>4, <1>5, <1>6, TakesDown, GoesOnClosing

LEMMA CloseOrDisableLife ==
  ASSUME NetInv, LifeInv, NEW t \in Threads, CloseOrDisable(t) PROVE LifeInv'
<1> DEFINE u == th[t].tgt
<1>1. th[t].pc = "drOff" /\ th[t].pc \in TakingDown /\ "drPost" \in TakingDown
  BY DEF CloseOrDisable, At, TakingDown
<1>2. UNCHANGED <<loose, session, active, iocp, inflight>> /\ Step(t, "drPost")
  BY DEF CloseOrDisable
<1>3. u \in Units /\ Closes(th[t], u) /\ ~Opens(th[t], u)
  BY <1>1, AtTakingDown
<1>4. /\ \A v \in Units \ {u} : sock'[v] = sock[v]
      /\ sock'[u] # "fresh" /\ (u \in AcceptUnits => sock'[u] # "invalid")
  BY <1>1, <1>3, AtTakingDown, UnitsAssumption
     DEF CloseOrDisable, Close, NetInv, SharedOK, WinTypeOK
<1>5. \A v \in Units : peer'[v] # "fin"
  BY <1>3 DEF LifeInv, Kinds, CloseOrDisable, Close, NetInv, SharedOK, WinTypeOK
<1>6. th'[t].pc \notin AcceptingLabels \cup {"bindiocp"} /\ th[t].pc \notin AcceptingLabels
  BY <1>1, <1>2, TakesDown DEF AcceptingLabels
<1> HIDE DEF u
<1>. QED BY <1>1, <1>2, <1>3, <1>4, <1>5, <1>6, TakesDown, GoesOnClosing

\* From the thread's hands into the queue.
LEMMA PostDisconnectLife ==
  ASSUME NetInv, LifeInv, NEW t \in Threads, PostDisconnect(t) PROVE LifeInv'
<1> DEFINE u == th[t].tgt
           n == Len(iocp) + 1
<1>1. th[t].pc = "drPost" /\ th[t].pc \in TakingDown /\ th[t].pc \in DrLabels
  BY DEF PostDisconnect, At, TakingDown, DrLabels
<1>2. UNCHANGED <<sock, loose, session, active, inflight, peer>> /\ Resume(t)
  BY DEF PostDisconnect, sockVars
<1>3. u \in Units /\ Closes(th[t], u) /\ sock[u] # "fresh" /\ ~active[u]
  BY <1>1, AtTakingDown
<1>4. /\ \A i \in 1..Len(iocp') : i = n \/ i \in 1..Len(iocp)
      /\ \A i \in 1..Len(iocp) : i \in 1..Len(iocp') /\ i # n /\ iocp'[i] = iocp[i]
      /\ n \in 1..Len(iocp')
      /\ iocp'[n].op = "DISCONNECT" /\ iocp'[n].unit = u /\ iocp'[n].ok
  <2>1. PICK o \in Ovs : iocp' = Append(iocp, [op |-> "DISCONNECT", unit |-> u, ov |-> o,
                                               sess |-> session[u], ok |-> TRUE, bytes |-> 0])
    BY DEF PostDisconnect
  <2>. QED BY <2>1, Appended
<1> HIDE DEF n
<1>5. /\ Others(t) /\ th'[t].pc \in {"idle", "send"} /\ JobFits(th'[t])
      /\ \A v : ~Works(th'[t], v) /\ ~Opens(th'[t], v) /\ ~Closes(th'[t], v)
  BY <1>1, <1>2, ResumeGoes
<1>6. \A v \in Units \ {u} : t \notin Thr(v)
  BY <1>1 DEF Thr, Works, Opens, Closes, OpeningLabels, ClosingLabels, AcceptingLabels, TakingDown
<1>7. t \in Thr(u)
  BY <1>3 DEF Thr, Works
<1> HIDE DEF u
<1>8. \A v \in Units : Kern(v)' = Kern(v) /\ Thr(v)' = Thr(v) \ {t}
  BY <1>2, <1>5, ThrOf, SameKern DEF Thr
<1>9. \A v \in Units : Que(v)' = IF v = u THEN Que(v) \cup {n} ELSE Que(v)
  BY <1>4 DEF Que, Brings, Opener
<1>10. Staged'
  <2>1. ASSUME NEW v \in Units PROVE AtMostOne(v)' /\ (Some(v) => Some(v)')
    <3>1. CASE v = u
      BY <1>2, <1>3, <1>7, <1>8, <1>9, <3>1 DEF LifeInv, Staged, AtMostOne, Some
    <3>2. CASE v # u
      BY <1>2, <1>6, <1>8, <1>9, <3>2 DEF LifeInv, Staged, AtMostOne, Some
    <3>. QED BY <3>1, <3>2
  <2>. QED BY <2>1 DEF LifeInv, Staged, Units
<1>11. Kinds'
  BY <1>2, <1>4, <1>5 DEF LifeInv, Kinds, OnUnit, Others
<1>12. Sockets'
  BY <1>2, <1>3, <1>4, <1>5, <1>8, <1>9 DEF LifeInv, Sockets, SocketAt, Others, Que
<1>13. Loosened'
  BY <1>2, <1>5, <1>7, <1>8, <1>9, StayLoose DEF Detached, Others
<1>. QED BY <1>10, <1>11, <1>12, <1>13 DEF LifeInv

\* From the queue into the worker's hands.
LEMMA DequeueLife == ASSUME NetInv, LifeInv, NEW w \in Workers, Dequeue(w) PROVE LifeInv'
<1>0. w \in Threads /\ w # Connector /\ th[w].pc = "idle" /\ iocp # << >>
  BY WorkerAt DEF Dequeue, At
<1>1. /\ Len(iocp) \in Nat /\ 1 \in 1..Len(iocp)
      /\ Head(iocp) = iocp[1]
      /\ Len(iocp') = Len(iocp) - 1
      /\ \A i \in 1..Len(iocp') : i + 1 \in 1..Len(iocp) /\ i + 1 # 1 /\ iocp'[i] = iocp[i + 1]
      /\ \A i \in 1..Len(iocp) : i = 1 \/ (i - 1 \in 1..Len(iocp') /\ iocp'[i - 1] = iocp[i])
  BY <1>0 DEF Dequeue, NetInv, SharedOK, WinTypeOK
<1>2. UNCHANGED <<sock, loose, session, active, inflight, peer>>
  BY DEF Dequeue, sockVars
<1> DEFINE p == iocp[1]
           job == [Idle EXCEPT !.pc = IF p.ok THEN "decode" ELSE "failed", !.op = p.op,
                               !.unit = p.unit, !.bytes = p.bytes, !.ov = p.ov]
<1>3. /\ job.pc = IF p.ok THEN "decode" ELSE "failed"
      /\ job.op = p.op /\ job.unit = p.unit /\ job.bytes = p.bytes
  BY DEF Idle
<1>4. Go(w, job)
  BY <1>1 DEF Dequeue
<1> HIDE DEF job
<1>5. th'[w] = job /\ Others(w)
  BY <1>0, <1>4, Goes
<1>6. OnUnit(p.op, p.unit) /\ p.unit \in Units
  BY <1>1, Objects DEF LifeInv, Kinds, Packet
<1>7. JobFits(job)
  BY <1>1, <1>3, <1>6, OpenerOf DEF LifeInv, Kinds, JobFits, OpeningLabels, ClosingLabels, AcceptingLabels
<1>8. \A v \in Units : Works(job, v) <=> 1 \in Que(v)
  BY <1>1, <1>3 DEF Works, Opens, Closes, Que, Brings, LifeInv, Kinds, OpeningLabels,
                    ClosingLabels, AcceptingLabels, TakingDown
<1>9. \A v \in Units : w \notin Thr(v)
  BY <1>0, Stageless DEF Thr, Works
<1>10. \A v \in Units : Kern(v)' = Kern(v)
  BY <1>2, SameKern
<1>11. \A v \in Units, s \in Threads : s \in Thr(v)' <=> IF s = w THEN 1 \in Que(v) ELSE s \in Thr(v)
  BY <1>0, <1>5, <1>8, ThrOf
<1>12. \A v \in Units : \A i \in 1..Len(iocp') : i \in Que(v)' <=> i + 1 \in Que(v)
  BY <1>1 DEF Que, Brings, Opener
<1>13. \A v \in Units : /\ Que(v) \subseteq 1..Len(iocp) /\ Que(v)' \subseteq 1..Len(iocp')
                        /\ Thr(v) \subseteq Threads /\ Thr(v)' \subseteq Threads
  BY DEF Que, Thr
<1>14. Staged'
  <2>1. ASSUME NEW v \in Units PROVE AtMostOne(v)' /\ (Some(v) => Some(v)')
    <3>0. AtMostOne(v)
      BY DEF LifeInv, Staged
    <3>1. CASE 1 \in Que(v)
      <4>1. Thr(v) = {} /\ Kern(v) = {} /\ ~active[v]
        BY <3>0, <3>1 DEF AtMostOne
      <4>2. Thr(v)' = {w}
        BY <1>0, <1>11, <1>13, <3>1, <4>1
      <4>3. Que(v)' = {}
        BY <1>1, <1>12, <1>13, <3>0, <3>1 DEF AtMostOne
      <4>. QED BY <1>2, <1>10, <4>1, <4>2, <4>3 DEF AtMostOne, Some
    <3>2. CASE 1 \notin Que(v)
      <4>1. Thr(v)' = Thr(v)
        BY <1>9, <1>11, <1>13, <3>2
      <4>2. /\ \A i, j \in Que(v)' : i = j
            /\ Que(v) = {} <=> Que(v)' = {}
        <5>1. ASSUME NEW i \in Que(v)', NEW j \in Que(v)' PROVE i = j
          <6>1. i \in 1..Len(iocp') /\ j \in 1..Len(iocp')
            BY <1>13
          <6>2. i + 1 = j + 1
            BY <1>12, <3>0, <6>1 DEF AtMostOne
          <6>. QED BY <1>1, <6>1, <6>2
        <5>2. ASSUME NEW i \in Que(v) PROVE i - 1 \in Que(v)'
          <6>1. i \in 1..Len(iocp) /\ i # 1
            BY <1>13, <3>2
          <6>2. i - 1 \in 1..Len(iocp') /\ (i - 1) + 1 = i
            BY <1>1, <6>1
          <6>. QED BY <1>12, <6>2
        <5>3. ASSUME NEW i \in Que(v)' PROVE i + 1 \in Que(v)
          BY <1>12, <1>13
        <5>. QED BY <5>1, <5>2, <5>3
      <4>. QED BY <1>2, <1>10, <3>0, <4>1, <4>2 DEF AtMostOne, Some
    <3>. QED BY <3>1, <3>2
  <2>. QED BY <2>1 DEF LifeInv, Staged, Units
<1>15. Kinds'
  <2>1. \A f \in inflight' : f.op # "DISCONNECT" /\ OnUnit(f.op, f.unit)
    BY <1>2 DEF LifeInv, Kinds
  <2>2. \A i \in 1..Len(iocp') :
          /\ OnUnit(iocp'[i].op, iocp'[i].unit)
          /\ iocp'[i].op = "DISCONNECT" => iocp'[i].ok
          /\ iocp'[i].op \in {"RECIEVE", "SEND"} /\ iocp'[i].ok => iocp'[i].bytes > 0
    <3>1. ASSUME NEW i \in 1..Len(iocp') PROVE i + 1 \in 1..Len(iocp) /\ iocp'[i] = iocp[i + 1]
      BY <1>1, <3>1
    <3>. QED BY <3>1 DEF LifeInv, Kinds
  <2>3. \A t \in Threads : JobFits(th'[t])
    BY <1>5, <1>7 DEF LifeInv, Kinds, Others
  <2>4. \A u \in Units : peer'[u] # "fin"
    BY <1>2 DEF LifeInv, Kinds
  <2>. QED BY <2>1, <2>2, <2>3, <2>4 DEF Kinds, OnUnit
<1>16. Sockets'
  <2>1. ASSUME NEW v \in Units PROVE SocketAt(job, v, sock[v])
    <3>1. ASSUME Opens(job, v) PROVE sock[v] = "linked"
      BY <1>3, <1>8, <3>1 DEF LifeInv, Sockets, Works, Opens, Opener
    <3>2. ASSUME Closes(job, v) PROVE sock[v] # "fresh" /\ job.pc \notin AcceptingLabels
      BY <1>3, <1>8, <3>2 DEF LifeInv, Sockets, Works, Closes, TakingDown, AcceptingLabels
    <3>. QED BY <3>1, <3>2 DEF SocketAt
  <2>2. \A v \in Units : \A s \in Threads : SocketAt(th'[s], v, sock[v])
    BY <1>5, <2>1 DEF LifeInv, Sockets, Others
  <2>. QED BY <1>1, <1>2, <1>10, <1>12, <1>13, <2>2 DEF LifeInv, Sockets
<1>17. Loosened'
  <2>1. ASSUME NEW v \in Units, Detached(v) PROVE Detached(v)'
    <3>1. Que(v) = {} /\ Thr(v) = {}
      BY <2>1 DEF Detached
    <3>2. Que(v)' = {}
      BY <1>12, <1>13, <3>1
    <3>3. Thr(v)' = {}
      BY <1>11, <1>13, <3>1
    <3>. QED BY <1>2, <2>1, <3>2, <3>3 DEF Detached
  <2>2. \A t \in Threads : th'[t].pc = "bindiocp" => th'[t] = th[t]
    BY <1>3, <1>5 DEF Others
  <2>. QED BY <1>2, <2>1, <2>2, StayLoose
<1>. QED BY <1>14, <1>15, <1>16, <1>17 DEF LifeInv

\* A unit that accepts gets a fresh socket and is still in the worker's hands.
LEMMA CleanupLife == ASSUME NetInv, LifeInv, NEW w \in Workers, Cleanup(w) PROVE LifeInv'
<1> DEFINE u == th[w].unit
<1>1. /\ w \in Threads /\ th[w] \in Thread /\ th[w].pc = "cleanup" /\ JobFits(th[w]) /\ u \in Units
  BY WorkerAt, JobAt DEF Cleanup, At, Fits, UnitsKnown, DrLabels
<1>2. UNCHANGED <<session, active, iocp, inflight>>
  BY DEF Cleanup
<1>3. Closes(th[w], u) /\ ~Opens(th[w], u) /\ w \in Thr(u)
  BY <1>1 DEF JobFits, ClosingLabels, AcceptingLabels, OpeningLabels, Closes, Opens, Thr, Works
<1>4. /\ Kern(u) = {} /\ Que(u) = {} /\ ~active[u] /\ sock[u] # "fresh"
      /\ \A s \in Threads \ {w} : ~Works(th[s], u)
  BY <1>1, <1>3 DEF LifeInv, Staged, AtMostOne, Sockets, SocketAt, Thr, AcceptingLabels
<1>5. \A v \in Units \ {u} : ~Works(th[w], v)
  BY <1>1 DEF Works, Opens, Closes, OpeningLabels, ClosingLabels, AcceptingLabels, TakingDown
<1>6. \A v \in Units : Kern(v)' = Kern(v) /\ Que(v)' = Que(v)
  BY <1>2, SameKern, SameQue
<1>7. CASE u \in AcceptUnits
  <2> DEFINE job == [th[w] EXCEPT !.pc = "acceptreq"]
  <2>1. /\ job.pc = "acceptreq" /\ job.op = th[w].op /\ job.unit = th[w].unit
    BY <1>1 DEF Thread
  <2>2. Go(w, job) /\ Reuse(u)
    BY <1>7 DEF Cleanup, Step
  <2> HIDE DEF job
  <2>3. th'[w] = job /\ Others(w)
    BY <1>1, <2>2, Goes
  <2>4. sock[u] \in {"linked", "down"}
    BY <1>1, <1>4, <1>7 DEF LifeInv, Sockets, NetInv, SharedOK, WinTypeOK
  <2>5. /\ sock'[u] = "fresh" /\ \A v \in Units \ {u} : sock'[v] = sock[v]
        /\ \A v \in Units : peer'[v] # "fin"
    BY <1>1, <2>2, <2>4 DEF Reuse, NetInv, SharedOK, WinTypeOK, LifeInv, Kinds
  <2>6. /\ JobFits(job) /\ ~Opens(job, u) /\ Closes(job, u)
        /\ \A v \in Units : Works(job, v) <=> v = u
    BY <1>1, <1>7, <2>1
       DEF JobFits, Works, Opens, Closes, OpeningLabels, ClosingLabels, AcceptingLabels, TakingDown
  <2> HIDE DEF u
  <2>7. \A v \in Units : Thr(v)' = Thr(v)
    BY <1>1, <1>3, <1>5, <2>3, <2>6, ThrOf DEF Thr
  <2>8. Staged'
    <3>1. ASSUME NEW v \in Units PROVE (AtMostOne(v)' <=> AtMostOne(v)) /\ (Some(v)' <=> Some(v))
      BY <1>2, <1>6, <2>7 DEF AtMostOne, Some
    <3>. QED BY <3>1 DEF LifeInv, Staged, Units
  <2>9. Kinds'
    BY <1>2, <2>3, <2>5, <2>6 DEF LifeInv, Kinds, Others
  <2>10. Sockets'
    <3>1. ASSUME NEW s \in Threads, NEW v \in Units PROVE SocketAt(th'[s], v, sock'[v])
      <4>1. CASE s = w /\ v = u
        BY <2>1, <2>3, <2>5, <2>6, <4>1 DEF SocketAt, AcceptingLabels
      <4>2. CASE s = w /\ v # u
        BY <2>3, <2>6, <4>2 DEF SocketAt, Works
      <4>3. CASE s # w /\ v = u
        BY <1>4, <2>3, <4>3 DEF SocketAt, Works, Others
      <4>4. CASE s # w /\ v # u
        BY <2>3, <2>5, <4>4 DEF LifeInv, Sockets, Others
      <4>. QED BY <4>1, <4>2, <4>3, <4>4
    <3>. QED BY <1>2, <1>4, <1>6, <2>5, <3>1, UnitsAssumption DEF LifeInv, Sockets, Units
  <2>11. Loosened'
    <3>1. loose' = loose
      BY <1>7 DEF Cleanup, u
    <3>. QED BY <1>2, <1>3, <1>6, <2>1, <2>3, <2>5, <2>7, <3>1, StayLoose DEF Detached, Others
  <2>. QED BY <2>8, <2>9, <2>10, <2>11 DEF LifeInv
<1>8. CASE u \notin AcceptUnits
  <2>1. Others(w) /\ th'[w].pc = "bindiocp" /\ th'[w].unit = u
    BY <1>1, <1>8, LocalsAre DEF Cleanup, Step, Go, Others, Thread
  <2>2. /\ \A v \in Units \ {u} : sock'[v] = sock[v]
        /\ \A v \in Units : peer'[v] # "fin"
    BY <1>1, <1>8 DEF Cleanup, Bind, NetInv, SharedOK, WinTypeOK, LifeInv, Kinds
  <2>3. JobFits(th'[w]) /\ \A v : ~Works(th'[w], v) /\ ~Opens(th'[w], v) /\ ~Closes(th'[w], v)
    BY <2>1 DEF Works, Opens, Closes, JobFits, OpeningLabels, ClosingLabels, AcceptingLabels, TakingDown
  <2>4. \A v \in Units : Thr(v)' = Thr(v) \ {w}
    BY <1>1, <2>1, <2>3, ThrOf DEF Thr
  <2> HIDE DEF u
  <2>5. Staged'
    <3>1. ASSUME NEW v \in Units PROVE AtMostOne(v)'
      BY <1>2, <1>6, <2>4 DEF LifeInv, Staged, AtMostOne
    <3>2. ASSUME NEW v \in AcceptUnits, Some(v) PROVE Some(v)'
      BY <1>2, <1>5, <1>6, <1>8, <2>4, <3>2 DEF Some, Thr, Units
    <3>. QED BY <3>1, <3>2 DEF LifeInv, Staged
  <2>6. Kinds'
    BY <1>2, <2>1, <2>2, <2>3 DEF LifeInv, Kinds, Others
  <2>7. Sockets'
    <3>1. ASSUME NEW s \in Threads, NEW v \in Units PROVE SocketAt(th'[s], v, sock'[v])
      <4>1. CASE s = w
        BY <2>3, <4>1 DEF SocketAt
      <4>3. CASE s # w /\ v = u
        BY <1>4, <2>1, <4>3 DEF SocketAt, Works, Others
      <4>4. CASE s # w /\ v # u
        BY <2>1, <2>2, <4>4 DEF LifeInv, Sockets, Others
      <4>. QED BY <4>1, <4>3, <4>4
    <3>. QED BY <1>2, <1>4, <1>6, <1>8, <2>2, <3>1 DEF LifeInv, Sockets, Units
  <2>8. Loosened'
    <3>1. /\ sock'[u] # "invalid" /\ (sock'[u] = "fresh" => u \in loose')
          /\ loose' \subseteq loose \cup {u} /\ loose \subseteq loose'
      BY <1>1, <1>4, <1>8 DEF Cleanup, Bind, NetInv, SharedOK, WinTypeOK, u
    <3>2. ASSUME NEW v \in Units, v = u PROVE Detached(v)'
      <4>1. Thr(v) \subseteq {w}
        BY <1>4, <3>2 DEF Thr
      <4>2. Thr(v)' = {}
        BY <1>1, <2>4, <3>2, <4>1
      <4>3. Que(v)' = {} /\ active'[v] = active[v]
        BY <1>1, <1>2, <1>4, <1>6, <3>2
      <4>. QED BY <1>4, <3>1, <3>2, <4>2, <4>3 DEF Detached
    <3>3. ~Detached(u) /\ u \in ConnectUnits
      BY <1>1, <1>3, <1>8 DEF Detached, Units
    <3>4. ASSUME NEW v \in Units, v # u, Detached(v) PROVE Detached(v)'
      BY <1>2, <1>6, <2>2, <2>4, <3>1, <3>4 DEF Detached
    <3>5. \A v \in Units : v \in loose' => v \in ConnectUnits /\ Detached(v)'
      BY <3>1, <3>2, <3>3, <3>4 DEF LifeInv, Loosened
    <3>6. ASSUME NEW t \in Threads, t # w, NEW v \in Units, th[t].pc = "bindiocp", th[t].unit = v
          PROVE  v # u /\ Detached(v)
      BY <3>3, <3>6 DEF LifeInv, Loosened
    <3>7. \A t \in Threads, v \in Units : th'[t].pc = "bindiocp" /\ th'[t].unit = v => Detached(v)'
      BY <2>1, <3>2, <3>4, <3>6 DEF Others
    <3>8. \A s, t \in Threads : th'[s].pc = "bindiocp" /\ th'[t].pc = "bindiocp"
                                 /\ th'[s].unit = th'[t].unit => s = t
      <4>1. ASSUME NEW s \in Threads, NEW t \in Threads, th'[s].pc = "bindiocp",
                   th'[t].pc = "bindiocp", th'[s].unit = th'[t].unit, s # t
            PROVE  FALSE
        <5>1. CASE s # w /\ t # w
          BY <2>1, <4>1, <5>1 DEF LifeInv, Loosened, Others
        <5>2. CASE s = w \/ t = w
          BY <1>1, <2>1, <3>6, <4>1, <5>2 DEF Others
        <5>. QED BY <5>1, <5>2
      <4>. QED BY <4>1
    <3>. QED BY <3>5, <3>7, <3>8 DEF Loosened
  <2>. QED BY <2>5, <2>6, <2>7, <2>8 DEF LifeInv
<1>. QED BY <1>7, <1>8

\* The port learns of the socket: the unit is not detached any more.
LEMMA BindIocpLife == ASSUME NetInv, LifeInv, NEW w \in Workers, BindIocp(w) PROVE LifeInv'
<1> DEFINE u == th[w].unit
<1>1. w \in Threads /\ th[w].pc = "bindiocp" /\ u \in Units
  BY WorkerAt DEF BindIocp, At, Fits, UnitsKnown, DrLabels
<1>2. UNCHANGED <<sock, session, active, iocp, inflight, peer>> /\ Finish(w)
  BY DEF BindIocp
<1>3. Others(w) /\ th'[w].pc = "idle"
  BY <1>1, <1>2, Goes
<1>4. loose' = loose \ {u}
  BY <1>1 DEF BindIocp, Associate, LifeInv, Loosened, Detached
<1>5. /\ \A v \in Units : ~Opens(th[w], v) /\ ~Closes(th[w], v)
      /\ JobFits(th'[w])
      /\ \A v : ~Works(th'[w], v) /\ ~Opens(th'[w], v) /\ ~Closes(th'[w], v)
  BY <1>1, <1>3, Stageless, NoStage, StagelessLabels
     DEF Works, JobFits, OpeningLabels, ClosingLabels, AcceptingLabels
<1>6. \A v \in Units : Kern(v)' = Kern(v) /\ Que(v)' = Que(v) /\ Thr(v)' = Thr(v)
  BY <1>1, <1>2, <1>3, <1>5, ThrOf, SameKern, SameQue DEF Thr, Works
<1> HIDE DEF u
<1>7. Staged'
  <2>1. ASSUME NEW v \in Units PROVE (AtMostOne(v)' <=> AtMostOne(v)) /\ (Some(v)' <=> Some(v))
    BY <1>2, <1>6 DEF AtMostOne, Some
  <2>. QED BY <2>1 DEF LifeInv, Staged, Units
<1>8. Kinds'
  BY <1>2, <1>3, <1>5 DEF LifeInv, Kinds, Others
<1>9. Sockets'
  BY <1>2, <1>3, <1>5, <1>6 DEF LifeInv, Sockets, SocketAt, Others
<1>10. Loosened'
  <2>1. \A v \in Units : v # u /\ Detached(v) => Detached(v)'
    BY <1>2, <1>4, <1>6 DEF Detached
  <2>2. \A s \in Threads : th'[s].pc = "bindiocp" => th'[s] = th[s] /\ s # w /\ th[s].unit # u
    BY <1>1, <1>3 DEF LifeInv, Loosened, Others, u
  <2>. QED BY <1>4, <2>1, <2>2 DEF LifeInv, Loosened
<1>. QED BY <1>7, <1>8, <1>9, <1>10 DEF LifeInv

\* An operation that opens a connection is issued, for a unit at no stage.
LEMMA Opened ==
  ASSUME NetInv, LifeInv, NEW u \in Units, NEW t \in Threads,
         Issue(u, Opener(u), NoOv),
         sock[u] = "fresh", Kern(u) = {}, Que(u) = {}, ~active[u],
         Others(t), \A s \in Threads \ {t} : ~Works(th[s], u),
         \A v \in Units \ {u} : ~Works(th[t], v),
         JobFits(th'[t]),
         \A v \in Units : ~Works(th'[t], v) /\ ~Opens(th'[t], v) /\ ~Closes(th'[t], v),
         th'[t].pc # "bindiocp",
         UNCHANGED <<sock, loose, session, active, iocp, peer>>
  PROVE  LifeInv'
<1>1. PICK f : /\ inflight' = inflight \cup {f}
               /\ f.unit = u /\ f.op = Opener(u) /\ f.sess = session[u]
  <2> DEFINE f == [op |-> Opener(u), unit |-> u, ov |-> NoOv, sess |-> session[u],
                   tag |-> FreeTag(u, Opener(u))]
  <2>1. inflight' = inflight \cup {f}
    BY DEF Issue
  <2>2. f.unit = u /\ f.op = Opener(u) /\ f.sess = session[u]
    OBVIOUS
  <2>. QED BY <2>1, <2>2
<1>2. \A v \in Units : Kern(v)' = IF v = u THEN {f} ELSE Kern(v)
  BY <1>1 DEF Kern, Waits, Opener
<1>3. \A v \in Units : Que(v)' = Que(v)
  BY SameQue
<1>4. \A v \in Units : Thr(v)' = IF v = u THEN {} ELSE Thr(v)
  BY ThrOf DEF Thr
<1>5. Staged'
  <2>1. ASSUME NEW v \in Units PROVE AtMostOne(v)' /\ (Some(v) => Some(v)')
    BY <1>2, <1>3, <1>4 DEF LifeInv, Staged, AtMostOne, Some
  <2>. QED BY <2>1 DEF LifeInv, Staged, Units
<1>6. Kinds'
  <2>1. f.op # "DISCONNECT" /\ OnUnit(f.op, f.unit)
    BY <1>1, UnitsAssumption DEF Opener, OnUnit, Units
  <2>. QED BY <1>1, <2>1 DEF LifeInv, Kinds, OnUnit, Others
<1>7. Sockets'
  BY <1>1, <1>2, <1>3 DEF LifeInv, Sockets, SocketAt, Others
<1>8. Loosened'
  BY <1>3, <1>4, StayLoose DEF Detached, Others
<1>. QED BY <1>5, <1>6, <1>7, <1>8 DEF LifeInv

\* The unit is not active, so the worker goes on to AcceptEx.
LEMMA AcceptRequestLife ==
  ASSUME NetInv, LifeInv, NEW w \in Workers, AcceptRequest(w) PROVE LifeInv'
<1> DEFINE u == th[w].unit
           job == [th[w] EXCEPT !.pc = "acceptex"]
<1>1. /\ w \in Threads /\ th[w] \in Thread /\ th[w].pc = "acceptreq" /\ JobFits(th[w]) /\ u \in Units
  BY WorkerAt, JobAt DEF AcceptRequest, At, Fits, UnitsKnown, DrLabels
<1>2. UNCHANGED <<sock, loose, session, active, iocp, peer, inflight>>
  BY DEF AcceptRequest, winVars, sockVars
<1>3. ~active[u]
  <2>1. w \in Thr(u)
    BY <1>1 DEF JobFits, ClosingLabels, AcceptingLabels, Closes, Thr, Works
  <2>. QED BY <1>1, <2>1 DEF LifeInv, Staged, AtMostOne
<1>4. job.pc = "acceptex" /\ job.op = th[w].op /\ job.unit = th[w].unit /\ job.tgt = th[w].tgt
  BY <1>1 DEF Thread
<1>5. Go(w, job)
  BY <1>3 DEF AcceptRequest, Step
<1> HIDE DEF job
<1>6. th'[w] = job /\ Others(w)
  BY <1>1, <1>5, Goes
<1>7. JobFits(job)
  BY <1>1, <1>4 DEF JobFits, OpeningLabels, ClosingLabels, AcceptingLabels
<1>8. \A v \in Units : (Opens(job, v) <=> Opens(th[w], v)) /\ (Closes(job, v) <=> Closes(th[w], v))
  BY <1>1, <1>4 DEF Opens, Closes, OpeningLabels, ClosingLabels, AcceptingLabels, TakingDown
<1>9. job.pc \in AcceptingLabels /\ th[w].pc \in AcceptingLabels
  BY <1>1, <1>4 DEF AcceptingLabels
<1>. QED BY <1>1, <1>2, <1>4, <1>6, <1>7, <1>8, <1>9, Calm

LEMMA AsyncAcceptLife ==
  ASSUME NetInv, LifeInv, NEW w \in Workers, AsyncAccept(w) PROVE LifeInv'
<1> DEFINE u == th[w].unit
<1>1. /\ w \in Threads /\ th[w] \in Thread /\ th[w].pc = "acceptex" /\ JobFits(th[w]) /\ u \in Units
  BY WorkerAt, JobAt DEF AsyncAccept, At, Fits, UnitsKnown, DrLabels
<1>2. UNCHANGED <<sock, loose, session, active, iocp, peer>> /\ Others(w) /\ th'[w].pc = "idle"
  BY <1>1, Goes DEF AsyncAccept, sockVars
<1>3. Closes(th[w], u) /\ ~Opens(th[w], u) /\ w \in Thr(u)
  BY <1>1 DEF JobFits, ClosingLabels, AcceptingLabels, OpeningLabels, Closes, Opens, Thr, Works
<1>4. /\ Kern(u) = {} /\ Que(u) = {} /\ ~active[u] /\ sock[u] = "fresh"
      /\ \A s \in Threads \ {w} : ~Works(th[s], u)
  BY <1>1, <1>3 DEF LifeInv, Staged, AtMostOne, Sockets, SocketAt, Thr, AcceptingLabels
<1>5. \A v \in Units \ {u} : ~Works(th[w], v)
  BY <1>1 DEF Works, Opens, Closes, OpeningLabels, ClosingLabels, AcceptingLabels, TakingDown
<1>6. JobFits(th'[w]) /\ \A v : ~Works(th'[w], v) /\ ~Opens(th'[w], v) /\ ~Closes(th'[w], v)
  BY <1>2, NoStage, StagelessLabels DEF Works, JobFits, OpeningLabels, ClosingLabels, AcceptingLabels
<1>7. u \in AcceptUnits /\ Opener(u) = "ACCEPT"
  BY <1>1 DEF JobFits, Opener, AcceptingLabels
<1>8. Issue(u, "ACCEPT", NoOv)
  <2>1. CanEstablish(u, "ACCEPT")
    BY <1>4, <1>7 DEF CanEstablish, Pending, Kern, Waits
  <2>. QED BY <2>1 DEF AsyncAccept
<1> HIDE DEF u
<1>. QED BY <1>1, <1>2, <1>4, <1>5, <1>6, <1>7, <1>8, Opened

\* The test of _is_active changes nothing ...
LEMMA TryConnectLife ==
  ASSUME NetInv, LifeInv, NEW u \in ConnectUnits, TryConnect(u) PROVE LifeInv'
<1>1. Connector \in Threads /\ th[Connector].pc = "idle"
  BY DEF Threads, TryConnect, At
<1>2. UNCHANGED <<sock, loose, session, active, iocp, peer, inflight>>
  BY DEF TryConnect, winVars, sockVars
<1>3. Others(Connector) /\ th'[Connector].pc = "connectex"
  BY <1>1, LocalsAre DEF TryConnect, Go, Others, Thread
<1>. QED BY <1>1, <1>2, <1>3, Quiet, Stageless, StagelessLabels

\* ... and whatever became of the unit since, one whose socket is fresh is at
\* no other stage.
LEMMA AsyncConnectLife == ASSUME NetInv, LifeInv, AsyncConnect PROVE LifeInv'
<1> DEFINE u == th[Connector].tgt
<1>1. /\ Connector \in Threads /\ th[Connector].pc = "connectex" /\ u \in ConnectUnits
      /\ u \in Units /\ u \notin AcceptUnits /\ Opener(u) = "CONNECT"
  BY ThreadAt, UnitsAssumption DEF Units, Opener, Threads, AsyncConnect, At, Fits, UnitsKnown
<1>2. /\ UNCHANGED <<sock, loose, session, active, iocp, peer>>
      /\ Others(Connector) /\ th'[Connector].pc = "idle"
  BY <1>1, Goes DEF AsyncConnect, sockVars
<1>3. JobFits(th'[Connector])
      /\ \A v : ~Works(th'[Connector], v) /\ ~Opens(th'[Connector], v) /\ ~Closes(th'[Connector], v)
  BY <1>2, NoStage, StagelessLabels DEF Works, JobFits, OpeningLabels, ClosingLabels, AcceptingLabels
<1>4. \A v \in Units : /\ ~Works(th[Connector], v)
                       /\ ~Opens(th[Connector], v) /\ ~Closes(th[Connector], v)
  BY <1>1, Stageless DEF Works
<1> HIDE DEF u
<1>5. CASE CanEstablish(u, "CONNECT")
  <2>1. sock[u] = "fresh" /\ Kern(u) = {} /\ Issue(u, "CONNECT", NoOv)
    BY <1>1, <1>5 DEF AsyncConnect, CanEstablish, Pending, Kern, Waits, u
  <2>2. Que(u) = {} /\ ~active[u]
    BY <1>1, <2>1 DEF LifeInv, Sockets
  <2>3. \A s \in Threads : ~Works(th[s], u)
    <3>1. ASSUME NEW s \in Threads, Works(th[s], u) PROVE FALSE
      <4>1. SocketAt(th[s], u, "fresh") /\ JobFits(th[s])
        BY <1>1, <2>1 DEF LifeInv, Sockets, Kinds
      <4>2. Closes(th[s], u) /\ th[s].pc \in AcceptingLabels
        BY <3>1, <4>1 DEF SocketAt, Works
      <4>3. th[s].unit = u
        BY <4>2 DEF Closes, TakingDown, AcceptingLabels
      <4>. QED BY <1>1, <4>1, <4>2, <4>3 DEF JobFits
    <3>. QED BY <3>1
  <2>. QED BY <1>1, <1>2, <1>3, <1>4, <2>1, <2>2, <2>3, Opened
<1>6. CASE ~CanEstablish(u, "CONNECT")
  <2>1. inflight' = inflight
    BY <1>6 DEF AsyncConnect, u
  <2>. QED BY <1>1, <1>2, <2>1, Quiet, Stageless, StagelessLabels
<1>. QED BY <1>5, <1>6

-----------------------------------------------------------------------------
(* The kernel and the remote ends.                                         *)

\* A completion is one packet more, wherever the kernel puts it.
LEMMA Completed ==
  ASSUME NetInv, LifeInv, NEW f \in inflight, NEW ok, NEW bytes, Complete(f, ok, bytes), Heard(f)
  PROVE  \E n \in 1..Len(iocp') :
           /\ \A i \in 1..Len(iocp') : i = n \/ i \in 1..Len(iocp)
           /\ \A i \in 1..Len(iocp) : i \in 1..Len(iocp') /\ i # n /\ iocp'[i] = iocp[i]
           /\ iocp'[n].op = f.op /\ iocp'[n].unit = f.unit
           /\ iocp'[n].ok = ok /\ iocp'[n].bytes = bytes
           /\ \A v \in Units : Que(v)' = IF Brings(iocp'[n], v) THEN Que(v) \cup {n} ELSE Que(v)
           /\ \A v \in Units : Kern(v)' = Kern(v) \ {f}
<1> DEFINE n == Len(iocp) + 1
           p == PacketOf(f, ok, bytes)
<1>1. p.op = f.op /\ p.unit = f.unit /\ p.ok = ok /\ p.bytes = bytes
  BY DEF PacketOf
<1>2. iocp' = Append(iocp, p) /\ inflight' = inflight \ {f}
  BY DEF Complete
<1>3. /\ \A i \in 1..Len(iocp') : i = n \/ i \in 1..Len(iocp)
      /\ \A i \in 1..Len(iocp) : i \in 1..Len(iocp') /\ i # n /\ iocp'[i] = iocp[i]
      /\ n \in 1..Len(iocp') /\ iocp'[n] = p
  BY <1>2, Appended
<1> HIDE DEF n, p
<1>4. \A v \in Units : Que(v)' = IF Brings(iocp'[n], v) THEN Que(v) \cup {n} ELSE Que(v)
  BY <1>3 DEF Que, Brings, Opener
<1>5. \A v \in Units : Kern(v)' = Kern(v) \ {f}
  BY <1>2 DEF Kern, Waits, Opener
<1>. QED BY <1>1, <1>3, <1>4, <1>5

LEMMA SameThr == ASSUME UNCHANGED th PROVE \A u : Thr(u)' = Thr(u)
BY DEF Thr, Works, Opens, Closes, Opener

\* A completion nobody hears of is one operation less.
LEMMA CompletedUnheard ==
  ASSUME NetInv, LifeInv, NEW f \in inflight, NEW ok, NEW bytes, Complete(f, ok, bytes), ~Heard(f),
         UNCHANGED <<sock, loose, session, active, peer, th>>,
         f.op = "ACCEPT" => FALSE
  PROVE  LifeInv'
<1>1. iocp' = iocp /\ inflight' = inflight \ {f}
  BY DEF Complete
<1>2. \A v \in Units : Que(v)' = Que(v) /\ Kern(v)' = Kern(v) \ {f} /\ Thr(v)' = Thr(v)
  BY <1>1, SameQue, SameThr DEF Kern, Waits, Opener
<1>3. Staged'
  <2>1. ASSUME NEW u \in Units PROVE AtMostOne(u)'
    BY <1>2 DEF LifeInv, Staged, AtMostOne
  <2>2. ASSUME NEW u \in AcceptUnits, Some(u) PROVE Some(u)'
    <3>1. f \notin Kern(u)
      BY DEF Kern, Waits, Opener
    <3>. QED BY <1>2, <2>2, <3>1 DEF Some, Units
  <2>. QED BY <2>1, <2>2 DEF LifeInv, Staged
<1>4. Kinds'
  BY <1>1 DEF LifeInv, Kinds, OnUnit
<1>5. Sockets'
  BY <1>1, <1>2 DEF LifeInv, Sockets, Que
<1>6. Loosened'
  BY <1>2, StayLoose DEF Detached
<1>. QED BY <1>3, <1>4, <1>5, <1>6 DEF LifeInv

\* An operation that is not one of a stage completes.
LEMMA TrafficLife ==
  ASSUME NetInv, LifeInv, NEW f \in inflight, f.op \in {"RECIEVE", "SEND"}, Heard(f),
         NEW ok, NEW bytes, Complete(f, ok, bytes), ok => bytes > 0,
         UNCHANGED <<sock, loose, session, active, peer, th>>
  PROVE  LifeInv'
<1>1. PICK n \in 1..Len(iocp') :
           /\ \A i \in 1..Len(iocp') : i = n \/ i \in 1..Len(iocp)
           /\ \A i \in 1..Len(iocp) : i \in 1..Len(iocp') /\ i # n /\ iocp'[i] = iocp[i]
           /\ iocp'[n].op = f.op /\ iocp'[n].unit = f.unit
           /\ iocp'[n].ok = ok /\ iocp'[n].bytes = bytes
           /\ \A v \in Units : Que(v)' = IF Brings(iocp'[n], v) THEN Que(v) \cup {n} ELSE Que(v)
           /\ \A v \in Units : Kern(v)' = Kern(v) \ {f}
  BY Completed
<1>2. \A v \in Units : ~Brings(iocp'[n], v) /\ f \notin Kern(v)
  BY <1>1 DEF Brings, Kern, Waits, Opener
<1>3. \A v \in Units : Que(v)' = Que(v) /\ Kern(v)' = Kern(v) /\ Thr(v)' = Thr(v)
  BY <1>1, <1>2, SameThr
<1>4. Staged'
  <2>1. ASSUME NEW u \in Units PROVE (AtMostOne(u)' <=> AtMostOne(u)) /\ (Some(u)' <=> Some(u))
    BY <1>3 DEF AtMostOne, Some
  <2>. QED BY <2>1 DEF LifeInv, Staged, Units
<1>5. Kinds'
  BY <1>1 DEF LifeInv, Kinds, OnUnit, Complete
<1>6. Sockets'
  BY <1>1, <1>3 DEF LifeInv, Sockets, Que
<1>7. Loosened'
  BY <1>3, StayLoose DEF Detached
<1>. QED BY <1>4, <1>5, <1>6, <1>7 DEF LifeInv

\* A pending AcceptEx or ConnectEx is the unit's stage.
LEMMA AtKernel ==
  ASSUME NetInv, LifeInv, NEW f \in inflight, f.op \in {"ACCEPT", "CONNECT"}
  PROVE  /\ f.unit \in Units /\ f.op = Opener(f.unit) /\ f \in Kern(f.unit) /\ Alive(f)
         /\ Kern(f.unit) = {f} /\ Que(f.unit) = {} /\ Thr(f.unit) = {} /\ ~active[f.unit]
         /\ \A v \in Units \ {f.unit} : f \notin Kern(v)
<1>1. f.unit \in Units /\ f.op = Opener(f.unit)
  BY Objects, OpenerOf DEF InFlight, LifeInv, Kinds
<1>2. f \in Kern(f.unit) /\ \A v \in Units \ {f.unit} : f \notin Kern(v)
  BY <1>1 DEF Kern, Waits
<1>3. /\ \A g \in Kern(f.unit) : g = f
      /\ Que(f.unit) = {} /\ Thr(f.unit) = {} /\ ~active[f.unit]
  BY <1>1, <1>2 DEF LifeInv, Staged, AtMostOne
<1>4. Alive(f)
  BY <1>1, <1>2 DEF LifeInv, Sockets, Alive
<1>. QED BY <1>1, <1>2, <1>3, <1>4

LEMMA EstablishLife ==
  ASSUME NetInv, LifeInv, NEW f \in inflight, Establish(f), Heard(f), UNCHANGED <<active, th>>
  PROVE  LifeInv'
<1> DEFINE u == f.unit
<1>1. f.op \in {"ACCEPT", "CONNECT"} /\ Complete(f, TRUE, 0)
  BY DEF Establish
<1>2. /\ u \in Units /\ f.op = Opener(u) /\ f \in Kern(u)
      /\ Kern(u) = {f} /\ Que(u) = {} /\ Thr(u) = {} /\ ~active[u]
      /\ \A v \in Units \ {u} : f \notin Kern(v)
  BY <1>1, AtKernel
<1>3. PICK n \in 1..Len(iocp') :
           /\ \A i \in 1..Len(iocp') : i = n \/ i \in 1..Len(iocp)
           /\ \A i \in 1..Len(iocp) : i \in 1..Len(iocp') /\ i # n /\ iocp'[i] = iocp[i]
           /\ iocp'[n].op = f.op /\ iocp'[n].unit = f.unit
           /\ iocp'[n].ok = TRUE /\ iocp'[n].bytes = 0
           /\ \A v \in Units : Que(v)' = IF Brings(iocp'[n], v) THEN Que(v) \cup {n} ELSE Que(v)
           /\ \A v \in Units : Kern(v)' = Kern(v) \ {f}
  BY <1>1, Completed
<1>4. /\ sock'[u] = "linked" /\ \A v \in Units \ {u} : sock'[v] = sock[v] /\ session'[v] = session[v]
      /\ \A v \in Units : peer'[v] # "fin"
  BY <1>2 DEF Establish, NetInv, SharedOK, WinTypeOK, LifeInv, Kinds
<1>5. \A v \in Units : Brings(iocp'[n], v) <=> v = u
  BY <1>2, <1>3 DEF Brings, Opener
<1>6. \A v \in Units : /\ Que(v)' = IF v = u THEN {n} ELSE Que(v)
                       /\ Kern(v)' = IF v = u THEN {} ELSE Kern(v)
                       /\ Thr(v)' = Thr(v)
  <2>1. /\ Que(u)' = {n} /\ Kern(u)' = {}
    BY <1>2, <1>3, <1>5
  <2>2. ASSUME NEW v \in Units, v # u PROVE Que(v)' = Que(v) /\ Kern(v)' = Kern(v)
    <3>1. ~Brings(iocp'[n], v) /\ f \notin Kern(v)
      BY <1>2, <1>5, <2>2
    <3>. QED BY <1>3, <3>1
  <2>. QED BY <2>1, <2>2, SameThr
<1>7. \A s \in Threads : ~Works(th[s], u)
  BY <1>2 DEF Thr
<1> HIDE DEF u
<1>8. Staged'
  <2>1. ASSUME NEW v \in Units PROVE AtMostOne(v)' /\ (Some(v) => Some(v)')
    BY <1>2, <1>6 DEF LifeInv, Staged, AtMostOne, Some
  <2>. QED BY <2>1 DEF LifeInv, Staged, Units
<1>9. Kinds'
  <2>1. OnUnit(f.op, f.unit)
    BY DEF LifeInv, Kinds
  <2>2. \A i \in 1..Len(iocp') : /\ OnUnit(iocp'[i].op, iocp'[i].unit)
                                 /\ iocp'[i].op = "DISCONNECT" => iocp'[i].ok
                                 /\ (iocp'[i].op \in {"RECIEVE", "SEND"} /\ iocp'[i].ok => iocp'[i].bytes > 0)
    BY <1>1, <1>3, <2>1 DEF LifeInv, Kinds
  <2>. QED BY <1>1, <1>4, <2>2 DEF LifeInv, Kinds, OnUnit, Complete
<1>10. Sockets'
  <2>1. ASSUME NEW s \in Threads, NEW v \in Units PROVE SocketAt(th'[s], v, sock'[v])
    BY <1>4, <1>7 DEF LifeInv, Sockets, SocketAt, Works
  <2>2. ASSUME NEW v \in Units, NEW i \in Que(v)'
        PROVE  IF iocp'[i].op = "DISCONNECT" THEN sock'[v] # "fresh" ELSE sock'[v] = "linked"
    <3>1. CASE v = u
      BY <1>1, <1>3, <1>4, <1>6, <3>1
    <3>2. CASE v # u
      BY <1>3, <1>4, <1>6, <3>2 DEF LifeInv, Sockets, Que
    <3>. QED BY <3>1, <3>2
  <2>3. ASSUME NEW v \in Units, NEW g \in Kern(v)' PROVE sock'[v] = "fresh" /\ g.sess = session'[v]
    BY <1>4, <1>6 DEF LifeInv, Sockets
  <2>. QED BY <1>2, <1>4, <2>1, <2>2, <2>3 DEF LifeInv, Sockets, Units
<1>11. Loosened'
  <2>1. loose' = loose
    BY DEF Establish
  <2>2. ~Detached(u)
    BY AtKernel, <1>1 DEF Heard, Alive, Detached, u
  <2>3. \A v \in Units \ {u} : Detached(v) => Detached(v)'
    BY <1>4, <1>6, <2>1 DEF Detached
  <2>. QED BY <2>1, <2>2, <2>3, StayLoose
<1>. QED BY <1>8, <1>9, <1>10, <1>11 DEF LifeInv

\* A connection nobody hears of: the unit is at no stage.
LEMMA EstablishUnheardLife ==
  ASSUME NetInv, LifeInv, NEW f \in inflight, Establish(f), ~Heard(f), UNCHANGED <<active, th>>
  PROVE  LifeInv'
<1> DEFINE u == f.unit
<1>1. f.op \in {"ACCEPT", "CONNECT"} /\ iocp' = iocp /\ inflight' = inflight \ {f} /\ loose' = loose
  BY DEF Establish, Complete
<1>2. /\ u \in Units /\ f \in Kern(u) /\ Kern(u) = {f} /\ Que(u) = {} /\ Thr(u) = {} /\ ~active[u]
      /\ \A v \in Units \ {u} : f \notin Kern(v)
  BY <1>1, AtKernel
<1>3. /\ sock'[u] = "linked" /\ \A v \in Units \ {u} : sock'[v] = sock[v] /\ session'[v] = session[v]
      /\ \A v \in Units : peer'[v] # "fin"
  BY <1>2 DEF Establish, NetInv, SharedOK, WinTypeOK, LifeInv, Kinds
<1>4. \A v \in Units : /\ Que(v)' = Que(v) /\ Thr(v)' = Thr(v)
                       /\ Kern(v)' = IF v = u THEN {} ELSE Kern(v)
  <2>1. \A v : Kern(v)' = Kern(v) \ {f}
    BY <1>1 DEF Kern, Waits, Opener
  <2>. QED BY <1>1, <1>2, <2>1, SameQue, SameThr
<1>5. u \notin AcceptUnits
  BY <1>2, UnitsAssumption DEF Heard, NetInv, SharedOK, WinTypeOK
<1>6. \A s \in Threads : ~Works(th[s], u)
  BY <1>2 DEF Thr
<1> HIDE DEF u
<1>7. Staged'
  <2>1. ASSUME NEW v \in Units PROVE AtMostOne(v)'
    BY <1>2, <1>4 DEF LifeInv, Staged, AtMostOne
  <2>2. ASSUME NEW v \in AcceptUnits, Some(v) PROVE Some(v)'
    BY <1>4, <1>5, <2>2 DEF Some, Units
  <2>. QED BY <2>1, <2>2 DEF LifeInv, Staged
<1>8. Kinds'
  BY <1>1, <1>3 DEF LifeInv, Kinds, OnUnit
<1>9. Sockets'
  <2>1. ASSUME NEW s \in Threads, NEW v \in Units PROVE SocketAt(th'[s], v, sock'[v])
    BY <1>3, <1>6 DEF LifeInv, Sockets, SocketAt, Works
  <2>2. ASSUME NEW v \in Units, NEW i \in Que(v)'
        PROVE  IF iocp'[i].op = "DISCONNECT" THEN sock'[v] # "fresh" ELSE sock'[v] = "linked"
    BY <1>1, <1>2, <1>3, <1>4 DEF LifeInv, Sockets
  <2>3. ASSUME NEW v \in Units, NEW g \in Kern(v)' PROVE sock'[v] = "fresh" /\ g.sess = session'[v]
    BY <1>3, <1>4 DEF LifeInv, Sockets
  <2>. QED BY <1>2, <1>3, <2>1, <2>2, <2>3 DEF LifeInv, Sockets, Units
<1>10. Loosened'
  BY <1>1, <1>3, <1>4, StayLoose DEF Detached
<1>. QED BY <1>7, <1>8, <1>9, <1>10 DEF LifeInv

LEMMA EstablishFailsLife ==
  ASSUME NetInv, LifeInv, NEW f \in inflight, EstablishFails(f), Heard(f), UNCHANGED <<active, th>>
  PROVE  LifeInv'
<1>1. f.op \in {"ACCEPT", "CONNECT"} /\ Complete(f, FALSE, 0) /\ UNCHANGED <<sock, loose, session, peer>>
  BY DEF EstablishFails, sockVars
<1>2. f.unit \in Units /\ f.op = Opener(f.unit) /\ \A v \in Units \ {f.unit} : f \notin Kern(v)
  BY <1>1, AtKernel
<1>3. PICK n \in 1..Len(iocp') :
           /\ \A i \in 1..Len(iocp') : i = n \/ i \in 1..Len(iocp)
           /\ \A i \in 1..Len(iocp) : i \in 1..Len(iocp') /\ i # n /\ iocp'[i] = iocp[i]
           /\ iocp'[n].op = f.op /\ iocp'[n].unit = f.unit
           /\ iocp'[n].ok = FALSE /\ iocp'[n].bytes = 0
           /\ \A v \in Units : Que(v)' = IF Brings(iocp'[n], v) THEN Que(v) \cup {n} ELSE Que(v)
           /\ \A v \in Units : Kern(v)' = Kern(v) \ {f}
  BY <1>1, Completed
<1>4. \A v \in Units : ~Brings(iocp'[n], v)
  BY <1>1, <1>3 DEF Brings
<1>5. \A v \in Units : Que(v)' = Que(v) /\ Kern(v)' = Kern(v) \ {f} /\ Thr(v)' = Thr(v)
  BY <1>3, <1>4, SameThr
<1>6. Staged'
  <2>1. ASSUME NEW v \in Units PROVE AtMostOne(v)'
    BY <1>5 DEF LifeInv, Staged, AtMostOne
  <2>2. ASSUME Lossless, NEW v \in AcceptUnits PROVE v # f.unit
    BY <1>2, <2>2 DEF Lossless, EstablishFails, Opener
  <2>3. ASSUME Lossless, NEW v \in AcceptUnits PROVE Some(v)'
    BY <1>2, <1>5, <2>2, <2>3 DEF LifeInv, Staged, Some, Units
  <2>. QED BY <2>1, <2>3 DEF Staged, Lossless
<1>7. Kinds'
  BY <1>1, <1>3 DEF LifeInv, Kinds, OnUnit, Complete
<1>8. Sockets'
  BY <1>1, <1>3, <1>5 DEF LifeInv, Sockets, Que
<1>9. Loosened'
  BY <1>1, <1>5, StayLoose DEF Detached
<1>. QED BY <1>6, <1>7, <1>8, <1>9 DEF LifeInv

LEMMA KernelLife ==
  ASSUME NetInv, LifeInv, NEW f \in inflight, KernelOn(f), UNCHANGED <<active, th>>
  PROVE  LifeInv'
<1>0. f.op # "DISCONNECT" /\ f.unit \in Units /\ peer[f.unit] # "fin" /\ f.op \in Operations
  BY Objects DEF LifeInv, Kinds, InFlight
<1>1. ASSUME ~Heard(f) PROVE f.op # "ACCEPT"
  BY <1>1, UnitsAssumption DEF Heard, NetInv, SharedOK, WinTypeOK, LifeInv, Kinds, OnUnit
<1>2. CASE RecieveCompletes(f) \/ SendCompletes(f)
  <2>1. f.op \in {"RECIEVE", "SEND"} /\ Complete(f, TRUE, 1) /\ UNCHANGED <<sock, loose, session, peer>>
    BY <1>0, <1>2 DEF RecieveCompletes, SendCompletes, sockVars
  <2>2. UNCHANGED <<sock, loose, session, active, peer, th>> /\ (TRUE => 1 > 0)
    BY <2>1
  <2>. QED BY <1>1, <2>1, <2>2, TrafficLife, CompletedUnheard
<1>3. CASE Aborts(f)
  <2>1. f.op \in {"RECIEVE", "SEND"}
    BY <1>0, <1>3, AtKernel DEF Aborts, Operations
  <2>2. Complete(f, FALSE, 0) /\ UNCHANGED <<sock, loose, session, active, peer, th>>
    BY <1>3 DEF Aborts, sockVars
  <2>. QED BY <1>1, <2>1, <2>2, TrafficLife, CompletedUnheard
<1>4. CASE EstablishFails(f)
  <2>1. Complete(f, FALSE, 0) /\ UNCHANGED <<sock, loose, session, active, peer, th>>
    BY <1>4 DEF EstablishFails, sockVars
  <2>. QED BY <1>1, <1>4, <2>1, EstablishFailsLife, CompletedUnheard
<1>5. CASE Establish(f)
  BY <1>5, EstablishLife, EstablishUnheardLife
<1>. QED BY <1>2, <1>3, <1>4, <1>5 DEF KernelOn

\* What a step may leave of what LifeInv speaks of.
LEMMA SameLife ==
  ASSUME NetInv, LifeInv, UNCHANGED <<sock, loose, session, active, inflight, iocp, th>>,
         \A v \in Units : peer'[v] # "fin"
  PROVE  LifeInv'
<1>1. \A v \in Units : Que(v)' = Que(v) /\ Kern(v)' = Kern(v) /\ Thr(v)' = Thr(v)
  BY SameThr, SameKern, SameQue
<1>2. Staged'
  <2>1. ASSUME NEW u \in Units PROVE (AtMostOne(u)' <=> AtMostOne(u)) /\ (Some(u)' <=> Some(u))
    BY <1>1 DEF AtMostOne, Some
  <2>. QED BY <2>1 DEF LifeInv, Staged, Units
<1>3. Loosened'
  BY <1>1, StayLoose DEF Detached
<1>. QED BY <1>1, <1>2, <1>3 DEF LifeInv, Kinds, Sockets

LEMMA PeerLeavesLife ==
  ASSUME NetInv, LifeInv, "fin" \notin Faults, NEW u \in Units, PeerLeaves(u), UNCHANGED <<active, th>>
  PROVE  LifeInv'
<1>1. \A v \in Units : peer'[v] # "fin"
  BY DEF PeerLeaves, LifeInv, Kinds, NetInv, SharedOK, WinTypeOK
<1>. QED BY <1>1, SameLife DEF PeerLeaves

-----------------------------------------------------------------------------
LEMMA LifeInit == Init => LifeInv
<1> SUFFICES ASSUME Init PROVE LifeInv
  OBVIOUS
<1>1. \A t \in Threads : th[t].pc = "idle"
  BY DEF Init, Idle
<1>2. /\ sock = [u \in Units |-> "fresh"] /\ session = [u \in Units |-> 0]
      /\ peer = [u \in Units |-> "none"] /\ active = [u \in Units |-> FALSE] /\ iocp = << >>
  BY DEF Init, WinInit
<1>3. \A f \in inflight : /\ f.op = "ACCEPT" /\ f.unit \in AcceptUnits /\ f.sess = 0
                          /\ f = [op |-> "ACCEPT", unit |-> f.unit, ov |-> NoOv, sess |-> 0, tag |-> 0]
  BY DEF Init, WinInit
<1>4. \A u \in AcceptUnits : \E f \in inflight : f.op = "ACCEPT" /\ f.unit = u
  <2>1. ASSUME NEW u \in AcceptUnits PROVE \E f \in inflight : f.op = "ACCEPT" /\ f.unit = u
    <3> DEFINE f == [op |-> "ACCEPT", unit |-> u, ov |-> NoOv, sess |-> 0, tag |-> 0]
    <3>1. f \in inflight /\ f.op = "ACCEPT" /\ f.unit = u
      BY DEF Init, WinInit
    <3>. QED BY <3>1
  <2>. QED BY <2>1
<1>5. \A u \in Units : Que(u) = {} /\ Thr(u) = {}
  BY <1>1, <1>2, NoStage, StagelessLabels DEF Que, Thr, Works
<1>6. \A u \in Units : \A f, g \in Kern(u) : f = g
  BY <1>3 DEF Kern, Waits
<1>7. Staged
  BY <1>2, <1>4, <1>5, <1>6 DEF Staged, AtMostOne, Some, Kern, Waits, Opener, Units
<1>8. Kinds
  BY <1>1, <1>2, <1>3, UnitsAssumption DEF Kinds, OnUnit, JobFits, OpeningLabels, ClosingLabels, AcceptingLabels
<1>9. Sockets
  <2>1. ASSUME NEW t \in Threads, NEW u \in Units PROVE ~Opens(th[t], u) /\ ~Closes(th[t], u)
    BY <1>1, NoStage, StagelessLabels
  <2>. QED BY <1>2, <1>3, <1>5, <2>1 DEF Sockets, SocketAt, Kern, Units
<1>10. Loosened
  BY <1>1 DEF Loosened, Init, WinInit
<1>. QED BY <1>7, <1>8, <1>9, <1>10 DEF LifeInv

\* No handler, no pass of the AutoConnector and nothing the network does adds a stage.
LEMMA LifeStep == ASSUME NetInv, LifeInv, "fin" \notin Faults, [Next]_vars PROVE LifeInv'
<1>1. ASSUME NEW t \in Threads, Disconnecting(t) PROVE LifeInv'
  BY <1>1, DisconnectRequestLife, ShutDownSocketLife, CloseOrDisableLife, PostDisconnectLife
     DEF Disconnecting
<1>2. ASSUME NEW w \in Workers, Handler(w) PROVE LifeInv'
  BY <1>2, DequeueLife, FailedLife, DecodeLife, DispatchLife, UpdateContextLife, IoStartLife,
     OnConnectLife, EnableLife, RecieveRequestLife, AsyncRecieveLife, RecievedLife, ProcessedLife,
     OnDisconnectLife, CleanupLife, BindIocpLife, AcceptRequestLife, AsyncAcceptLife
     DEF Handler
<1>3. ASSUME NEW w \in Workers, Sending(w) PROVE LifeInv'
  BY <1>3, SendRequestLife, SendsDoneLife, AsyncSendLife DEF Sending
<1>4. CASE \E w \in Workers : Worker(w)
  BY <1>1, <1>2, <1>3, <1>4 DEF Worker, Threads
<1>5. CASE AutoConnect
  BY <1>1, <1>5, CheckActiveLife, TryConnectLife, AsyncConnectLife, CheckConnectedLife
     DEF AutoConnect, Threads, Units
<1>6. CASE Network
  BY <1>6, KernelLife, PeerLeavesLife DEF Network
<1>7. CASE UNCHANGED vars
  BY <1>7, SameLife DEF vars, winVars, sockVars, LifeInv, Kinds
<1>. QED BY <1>4, <1>5, <1>6, <1>7 DEF Next

\* The invariant, where no remote end closes gracefully: the stages of every
\* unit, and that a unit whose new socket no port knows is at none.
THEOREM LifeInvariant ==
  ASSUME "fin" \notin Faults
  PROVE  Spec => []LifeInv
BY NetInvariant, LifeInit, LifeStep, PTL DEF Spec

-----------------------------------------------------------------------------
(* What the stages come to when they are counted.                          *)

\* A set of at most one.
LEMMA SizeOfOne ==
  ASSUME NEW S, \A x, y \in S : x = y
  PROVE  Cardinality(S) = IF S = {} THEN 0 ELSE 1
<1>1. CASE S = {}
  BY <1>1, FS_EmptySet
<1>2. CASE S # {}
  <2>1. PICK x : x \in S
    BY <1>2
  <2>2. S = {x}
    BY <2>1
  <2>. QED BY <1>2, <2>2, FS_Singleton
<1>. QED BY <1>1, <1>2

\* The worker of a stage is a worker.
LEMMA WorkersWork ==
  ASSUME NetInv, NEW t \in Threads, th[t].pc \notin {"idle", "isconnected", "connectex"} \cup DrLabels
  PROVE  t \in Workers
BY ThreadAt DEF Fits, ConnectorOnly, Threads

\* Life counts what stands for a stage.
LEMMA OpeningIs ==
  ASSUME NetInv, LifeInv, NEW u \in Units
  PROVE  \A x : x \in Opening(u, Opener(u)) <=>
                  \/ \E f \in Kern(u) : x = <<"kernel", f.tag>>
                  \/ \E i \in Que(u) : x = <<"queue", i>> /\ iocp[i].op # "DISCONNECT"
                  \/ \E t \in Thr(u) : x = <<"worker", t>> /\ Opens(th[t], u)
<1> DEFINE op == Opener(u)
<1>1. Pending(u, op) = Kern(u)
  BY DEF Pending, Kern, Waits
<1>2. \A i : i \in QueuedFor(u, op) /\ iocp[i].ok <=> i \in Que(u) /\ iocp[i].op # "DISCONNECT"
  BY DEF QueuedFor, Que, Brings, Opener
<1>3. \A t : t \in Workers /\ th[t].unit = u /\ th[t].op = op
               /\ th[t].pc \in {"decode", "accepted", "connected", "iostart"}
             <=> t \in Thr(u) /\ Opens(th[t], u)
  BY WorkersWork DEF Thr, Works, Opens, OpeningLabels, DrLabels, Threads
<1> HIDE DEF op
<1>4. \A x : x \in Opening(u, op) <=>
               \/ \E f \in Pending(u, op) : x = <<"kernel", f.tag>>
               \/ \E i : (i \in QueuedFor(u, op) /\ iocp[i].ok) /\ x = <<"queue", i>>
               \/ \E t : (t \in Workers /\ th[t].unit = u /\ th[t].op = op
                           /\ th[t].pc \in {"decode", "accepted", "connected", "iostart"})
                         /\ x = <<"worker", t>>
  BY DEF Opening
<1>. QED BY <1>1, <1>2, <1>3, <1>4 DEF op

LEMMA ClosingIs ==
  ASSUME NetInv, LifeInv, NEW u \in Units
  PROVE  \A x : x \in Closing(u) <=>
                  \/ \E t \in Thr(u) : x = <<"request", t>> /\ th[t].pc \in TakingDown
                  \/ \E i \in Que(u) : x = <<"queue", i>> /\ iocp[i].op = "DISCONNECT"
                  \/ \E t \in Thr(u) : /\ x = <<"worker", t>> /\ Closes(th[t], u)
                                       /\ th[t].pc \notin TakingDown
<1>1. \A t : t \in Threads /\ th[t].tgt = u /\ th[t].pc \in {"drShut", "drOff", "drPost"}
             <=> t \in Thr(u) /\ th[t].pc \in TakingDown
  BY DEF Thr, Works, Opens, Closes, TakingDown, OpeningLabels, ClosingLabels, AcceptingLabels
<1>2. \A i : i \in QueuedFor(u, "DISCONNECT") <=> i \in Que(u) /\ iocp[i].op = "DISCONNECT"
  BY DEF QueuedFor, Que, Brings, Opener
<1>3. \A t : t \in Workers /\ th[t].unit = u
               /\ th[t].pc \in {"decode", "dispatch"} \cup DisconnectLabels
               /\ (th[t].op = "DISCONNECT" \/ th[t].pc \in DisconnectLabels)
             <=> t \in Thr(u) /\ Closes(th[t], u) /\ th[t].pc \notin TakingDown
  BY WorkersWork
     DEF Thr, Works, Opens, Closes, ClosingLabels, AcceptingLabels, TakingDown, DrLabels, Threads,
         DisconnectLabels, LifeInv, Kinds, JobFits
<1>4. \A x : x \in Closing(u) <=>
               \/ \E t : (t \in Threads /\ th[t].tgt = u /\ th[t].pc \in {"drShut", "drOff", "drPost"})
                         /\ x = <<"request", t>>
               \/ \E i \in QueuedFor(u, "DISCONNECT") : x = <<"queue", i>>
               \/ \E t : (t \in Workers /\ th[t].unit = u
                           /\ th[t].pc \in {"decode", "dispatch"} \cup DisconnectLabels
                           /\ (th[t].op = "DISCONNECT" \/ th[t].pc \in DisconnectLabels))
                         /\ x = <<"worker", t>>
  BY DEF Closing
<1>. QED BY <1>1, <1>2, <1>3, <1>4

LEMMA StagesCounted ==
  ASSUME NetInv, LifeInv, NEW u \in Units
  PROVE  /\ Life(u) \in {0, 1}
         /\ Some(u) => Life(u) = 1
<1> DEFINE O == Opening(u, Opener(u))
           C == Closing(u)
<1>0. AtMostOne(u)
  BY DEF LifeInv, Staged
<1>1. \A x, y \in O : x = y
  BY <1>0, OpeningIs DEF AtMostOne
<1>2. \A x, y \in C : x = y
  BY <1>0, ClosingIs DEF AtMostOne
<1>3. O # {} => (Kern(u) # {} \/ Que(u) # {} \/ Thr(u) # {}) /\ ~active[u]
  BY <1>0, OpeningIs DEF AtMostOne
<1>4. C # {} => (Que(u) # {} \/ Thr(u) # {}) /\ ~active[u]
  BY <1>0, ClosingIs DEF AtMostOne
<1>5. O = {} \/ C = {}
  <2>1. ASSUME NEW x \in O, NEW y \in C PROVE FALSE
    <3>1. CASE \E i \in Que(u) : iocp[i].op # "DISCONNECT"
      BY <1>0, <2>1, <3>1, ClosingIs DEF AtMostOne
    <3>2. CASE \E t \in Thr(u) : Opens(th[t], u)
      <4>1. ~\E t : Opens(th[t], u) /\ (Closes(th[t], u) \/ th[t].pc \in TakingDown)
        BY DEF Opens, Closes, Opener, OpeningLabels, TakingDown
      <4>. QED BY <1>0, <2>1, <3>2, <4>1, ClosingIs DEF AtMostOne
    <3>3. CASE Kern(u) # {}
      BY <1>0, <2>1, <3>3, ClosingIs DEF AtMostOne
    <3>. QED BY <2>1, <3>1, <3>2, <3>3, OpeningIs
  <2>. QED BY <2>1
<1>6. Some(u) => O # {} \/ C # {} \/ active[u]
  <2>1. CASE Kern(u) # {}
    BY <2>1, OpeningIs
  <2>2. CASE Que(u) # {}
    BY <2>2, OpeningIs, ClosingIs
  <2>3. CASE Thr(u) # {}
    BY <2>3, OpeningIs, ClosingIs DEF Thr, Works
  <2>. QED BY <2>1, <2>2, <2>3 DEF Some
<1>7. /\ Cardinality(O) = IF O = {} THEN 0 ELSE 1
      /\ Cardinality(C) = IF C = {} THEN 0 ELSE 1
  BY <1>1, <1>2, SizeOfOne
<1>8. Cardinality(Open(u)) = IF active[u] THEN 1 ELSE 0
  BY FS_EmptySet, FS_Singleton DEF Open
<1>9. Life(u) = Cardinality(O) + Cardinality(Open(u)) + Cardinality(C)
  BY DEF Life, Opener
<1>. QED BY <1>3, <1>4, <1>5, <1>6, <1>7, <1>8, <1>9

(***************************************************************************)
(* No unit is ever in two stages: two DisconnectRequests of one connection *)
(* never both post a packet, and nothing accepts or connects on a unit     *)
(* that is connected or that Disconnect has not yet given a new socket     *)
(* (NetUnit.cpp:55-67, 97-118, 200-234, 250-264; AutoConnector.cpp:22-72). *)
(* Being taken down ends with that socket, see Closing: what may overlap   *)
(* from there to the end of Disconnect is the next theorem's.              *)
(***************************************************************************)
THEOREM OneLifeAtATime ==
  ASSUME "fin" \notin Faults
  PROVE  Spec => [](\A u \in Units : Life(u) <= 1)
<1>1. NetInv /\ LifeInv => \A u \in Units : Life(u) <= 1
  BY StagesCounted
<1>. QED BY <1>1, NetInvariant, LifeInvariant, PTL

(***************************************************************************)
(* ConnectEx may start on a unit a worker is still in Disconnect with, but *)
(* only after the new socket, between Bind and BindIocp.  Until BindIocp   *)
(* what it comes to stays in the kernel: nobody opens the unit or takes it *)
(* down again (AutoConnector.cpp:22-72, NetUnit.cpp:97-118, 283-295).      *)
(***************************************************************************)
THEOREM ConnectingUnitsNeverInTwoStages ==
  ASSUME "fin" \notin Faults
  PROVE  Spec => []NeverTwoStages
<1>1. ASSUME NetInv, LifeInv, NEW u \in ConnectUnits, Rebinding(u)
      PROVE  /\ Open(u) \cup Closing(u) = {}
             /\ \A s \in Opening(u, "CONNECT") : s[1] = "kernel"
  <2>1. u \in Units /\ Opener(u) = "CONNECT"
    BY UnitsAssumption DEF Units, Opener
  <2>2. ~active[u] /\ Que(u) = {} /\ Thr(u) = {}
    <3>1. PICK w \in Workers : th[w].pc = "bindiocp" /\ th[w].unit = u
      BY <1>1 DEF Rebinding, At
    <3>2. Detached(u)
      BY <1>1, <2>1, <3>1 DEF Threads, LifeInv, Loosened
    <3>. QED BY <3>2 DEF Detached
  <2>3. Open(u) = {} /\ Closing(u) = {}
    BY <1>1, <2>1, <2>2, ClosingIs DEF Open
  <2>4. \A s \in Opening(u, "CONNECT") : \E f \in Kern(u) : s = <<"kernel", f.tag>>
    BY <1>1, <2>1, <2>2, OpeningIs
  <2>. QED BY <2>3, <2>4
<1>2. NetInv /\ LifeInv => NeverTwoStages
  BY <1>1, StagesCounted DEF NeverTwoStages, Units
<1>. QED BY <1>2, NetInvariant, LifeInvariant, PTL

(***************************************************************************)
(* An accepting unit is always in exactly one stage, so that no slot is    *)
(* lost, where no AcceptEx fails and no connection's context is refused    *)
(* (NetUnit.cpp:55-67, 200-234, 250-264).                                  *)
(***************************************************************************)
THEOREM AcceptingUnitsKeepTheirSlot ==
  ASSUME {"fin", "acceptfail", "context"} \cap Faults = {}
  PROVE  Spec => []OneStage
<1>1. "fin" \notin Faults /\ Lossless
  BY DEF Lossless
<1>2. NetInv /\ LifeInv => OneStage
  BY <1>1, StagesCounted DEF OneStage, Units, LifeInv, Staged
<1>. QED BY <1>1, <1>2, NetInvariant, LifeInvariant, PTL

\* A unit that a worker has taken down and cleaned up is not active again
\* before its next AcceptEx (NetUnit.h:66, NetUnit.cpp:200-234).
THEOREM DisconnectIsFinal ==
  ASSUME "fin" \notin Faults
  PROVE  Spec => []DisconnectEnds
<1>1. ASSUME NetInv, LifeInv, NEW w \in Workers, At(w, "acceptreq") PROVE ~active[th[w].unit]
  <2>1. w \in Threads /\ th[w].pc = "acceptreq" /\ JobFits(th[w]) /\ th[w].unit \in Units
    BY <1>1, WorkerAt, JobAt DEF At, Fits, UnitsKnown, DrLabels
  <2>2. w \in Thr(th[w].unit)
    BY <2>1 DEF JobFits, ClosingLabels, AcceptingLabels, Closes, Thr, Works
  <2>. QED BY <1>1, <2>1, <2>2 DEF LifeInv, Staged, AtMostOne
<1>2. NetInv /\ LifeInv => DisconnectEnds
  BY <1>1 DEF DisconnectEnds
<1>. QED BY <1>2, NetInvariant, LifeInvariant, PTL
=============================================================================
