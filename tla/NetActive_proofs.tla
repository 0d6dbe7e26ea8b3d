-------------------------- MODULE NetActive_proofs --------------------------
(***************************************************************************)
(* What holds of the connections themselves, where a unit has one life at  *)
(* a time: somebody always listens to one, and with one worker it has one  *)
(* receive, it is in the registry as long as it lasts, and no send to it   *)
(* is lost.                                                                *)
(***************************************************************************)
EXTENDS NetUnit_proofs

-----------------------------------------------------------------------------
(* Somebody listens to every connection.                                   *)

\* A thread that will ask for data of the unit, or take it down.
Serves(j, u) == /\ j.unit = u /\ j.pc # "idle"
                /\ \/ j.op = "RECIEVE"
                   \/ /\ j.op \in {"ACCEPT", "CONNECT"}
                      /\ j.pc \notin {"failed", "decode"} \cup OpeningLabels
\* A receive waits for data, has completed, or a worker will ask for more.
Hears(u) == \/ \E f \in inflight : f.unit = u /\ f.op = "RECIEVE"
            \/ \E i \in 1..Len(iocp) : iocp[i].unit = u /\ iocp[i].op = "RECIEVE"
            \/ \E w \in Workers : Serves(th[w], u)

\* A handler that ends with a DisconnectRequest takes its own unit down.
OwnTarget == \A w \in Workers :
               th[w].pc \in {"dr"} \cup TakingDown /\ th[w].dret = "idle" => th[w].tgt = th[w].unit

\* The inductive invariant, on top of NetInv and LifeInv.
WatchInv == OwnTarget /\ \A u \in Units : active[u] => Hears(u)

\* The locals a step takes along.
LEMMA Carries ==
  ASSUME NetInv, NEW t \in Threads
  PROVE  /\ \A l : Step(t, l) => /\ Others(t) /\ th'[t].pc = l
                                 /\ th'[t].unit = th[t].unit /\ th'[t].op = th[t].op
                                 /\ th'[t].tgt = th[t].tgt /\ th'[t].dret = th[t].dret
         /\ \A v, d : RequestDisconnect(t, v, d) =>
              /\ Others(t) /\ th'[t].pc = "dr"
              /\ th'[t].unit = th[t].unit /\ th'[t].op = th[t].op
              /\ th'[t].tgt = v /\ th'[t].dret = d
<1>1. th \in [Threads -> Thread] /\ th[t] \in Thread
  BY DEF NetInv, JobsOK
<1>2. ASSUME NEW l, Step(t, l)
      PROVE  /\ Others(t) /\ th'[t].pc = l
             /\ th'[t].unit = th[t].unit /\ th'[t].op = th[t].op
             /\ th'[t].tgt = th[t].tgt /\ th'[t].dret = th[t].dret
  BY <1>1, <1>2 DEF Step, Go, Others, Thread
<1>3. ASSUME NEW v, NEW d, RequestDisconnect(t, v, d)
      PROVE  /\ Others(t) /\ th'[t].pc = "dr"
             /\ th'[t].unit = th[t].unit /\ th'[t].op = th[t].op
             /\ th'[t].tgt = v /\ th'[t].dret = d
  <2> DEFINE job == [th[t] EXCEPT !.pc = "dr", !.tgt = v, !.ov = NoOv, !.dret = d]
  <2>1. /\ job.pc = "dr" /\ job.unit = th[t].unit /\ job.op = th[t].op /\ job.tgt = v /\ job.dret = d
    BY <1>1 DEF Thread
  <2>2. Go(t, job)
    BY <1>3 DEF RequestDisconnect
  <2> HIDE DEF job
  <2>3. Others(t) /\ th'[t] = job
    BY <2>2, Goes
  <2>. QED BY <2>1, <2>3
<1>. QED BY <1>2, <1>3

\* A worker that will listen goes on, or stops when the unit is not active.
LEMMA Listens ==
  ASSUME NetInv, WatchInv, NEW t \in Threads, Others(t),
         \A i \in 1..Len(iocp) : i \in 1..Len(iocp') /\ iocp'[i] = iocp[i],
         inflight \subseteq inflight',
         \A u \in Units : active'[u] => active[u],
         t \in Workers =>
           /\ \A u \in Units : Serves(th[t], u) /\ active'[u] => Serves(th'[t], u)
           /\ th'[t].pc \in {"dr"} \cup TakingDown /\ th'[t].dret = "idle" => th'[t].tgt = th'[t].unit
  PROVE  WatchInv'
<1>1. OwnTarget'
  BY DEF WatchInv, OwnTarget, Others, Threads
<1>2. ASSUME NEW u \in Units, active'[u] PROVE Hears(u)'
  <2>1. Hears(u)
    BY <1>2 DEF WatchInv
  <2>2. CASE \E v \in Workers : Serves(th[v], u)
    <3>1. PICK v \in Workers : Serves(th[v], u)
      BY <2>2
    <3>2. Serves(th'[v], u)
      BY <1>2, <3>1 DEF Others, Threads
    <3>. QED BY <3>2 DEF Hears, Serves
  <2>. QED BY <2>1, <2>2 DEF Hears
<1>. QED BY <1>1, <1>2 DEF WatchInv

\* A step that does not stop a worker that serves.
LEMMA Watches ==
  ASSUME NetInv, WatchInv, NEW w \in Workers, Others(w), iocp' = iocp,
         inflight \subseteq inflight',
         \A u \in Units : active'[u] => active[u],
         \A u \in Units : Serves(th[w], u) /\ active'[u] => Serves(th'[w], u),
         th'[w].pc \in {"dr"} \cup TakingDown /\ th'[w].dret = "idle" => th'[w].tgt = th'[w].unit
  PROVE  WatchInv'
<1>1. /\ w \in Threads
      /\ \A i \in 1..Len(iocp) : i \in 1..Len(iocp') /\ iocp'[i] = iocp[i]
  BY DEF Threads
<1>. QED BY <1>1, Listens

\* The rest of a handler.
LEMMA WatchesOn ==
  ASSUME NetInv, WatchInv, NEW w \in Workers, Others(w), iocp' = iocp,
         inflight \subseteq inflight', active' = active,
         th'[w].unit = th[w].unit, th'[w].op = th[w].op,
         th'[w].pc \notin {"idle", "failed", "decode"} \cup OpeningLabels,
         th'[w].pc \in {"dr"} \cup TakingDown /\ th'[w].dret = "idle" => th'[w].tgt = th'[w].unit
  PROVE  WatchInv'
<1>1. \A u \in Units : Serves(th[w], u) => Serves(th'[w], u)
  BY DEF Serves
<1>. QED BY <1>1, Watches

LEMMA NotAtDr ==
  \A l \in {"idle", "decode", "dispatch", "accepted", "connected", "iostart", "onconnect", "enable", "rearm",
            "wsarecv", "recieved", "processed", "send", "wsasend", "disconnect", "cleanup", "bindiocp", "acceptreq",
            "acceptex"} :
      l \notin {"dr"} \cup TakingDown
BY DEF TakingDown

\* A worker that stops.
LEMMA Stops ==
  ASSUME NetInv, WatchInv, NEW w \in Workers, Finish(w), iocp' = iocp,
         inflight \subseteq inflight', active' = active,
         \A u \in Units : Serves(th[w], u) => ~active[u]
  PROVE  WatchInv'
<1>1. w \in Threads
  BY DEF Threads
<1>2. Others(w) /\ th'[w].pc = "idle"
  BY <1>1, Goes
<1>. QED BY <1>2, Watches, NotAtDr

LEMMA FailedWatch == ASSUME NetInv, LifeInv, WatchInv, NEW w \in Workers, Failed(w) PROVE WatchInv'
<1>1. w \in Threads /\ th[w].pc = "failed"
  BY WorkerAt DEF Failed, At
<1>2. UNCHANGED <<active, iocp, inflight>>
  BY DEF Failed, winVars
<1>3. CASE CompletionKey(w) = NoUnit
  <2>1. \A u \in Units : ~Serves(th[w], u)
    BY <1>1, <1>3, UnitsAssumption DEF CompletionKey, Serves
  <2>. QED BY <1>2, <1>3, <2>1, Stops DEF Failed
<1>4. CASE CompletionKey(w) # NoUnit
  <2>1. /\ Others(w) /\ th'[w].pc = "dr" /\ th'[w].unit = th[w].unit /\ th'[w].op = th[w].op
        /\ th'[w].tgt = th'[w].unit
    BY <1>1, <1>4, Carries DEF Failed
  <2>2. "dr" \notin {"idle", "failed", "decode"} \cup OpeningLabels
    BY DEF OpeningLabels
  <2>. QED BY <1>2, <2>1, <2>2, WatchesOn
<1>. QED BY <1>3, <1>4

LEMMA DecodeWatch == ASSUME NetInv, LifeInv, WatchInv, NEW w \in Workers, Decode(w) PROVE WatchInv'
<1>1. w \in Threads /\ th[w] \in Thread /\ th[w].pc = "decode"
  BY WorkerAt DEF Decode, At
<1>2. UNCHANGED <<active, iocp, inflight>>
  BY DEF Decode, winVars
<1>3. OperationOf(w) = th[w].op
  BY <1>1 DEF OperationOf, NetInv, Tagged, Agree
<1> DEFINE op == th[w].op
           next == CASE op = "ACCEPT"  -> "accepted"
                     [] op = "CONNECT" -> "connected"
                     [] OTHER          -> "dispatch"
           job == [th[w] EXCEPT !.pc = next, !.optype = op]
<1>4. job.pc = next /\ job.op = op /\ job.unit = th[w].unit
  BY <1>1 DEF Thread
<1>5. Go(w, job)
  BY <1>3 DEF Decode
<1> HIDE DEF job
<1>6. th'[w] = job /\ Others(w)
  BY <1>1, <1>5, Goes
<1>7. \A u \in Units : Serves(th[w], u) => Serves(th'[w], u)
  BY <1>1, <1>4, <1>6 DEF Serves, OpeningLabels
<1>8. th'[w].pc \notin {"dr"} \cup TakingDown
  BY <1>4, <1>6, NotAtDr
<1>. QED BY <1>2, <1>6, <1>7, <1>8, Watches

LEMMA DispatchWatch == ASSUME NetInv, LifeInv, WatchInv, NEW w \in Workers, Dispatch(w) PROVE WatchInv'
<1>1. /\ w \in Threads /\ th[w] \in Thread /\ th[w].pc = "dispatch" /\ JobFits(th[w])
      /\ th[w].optype = th[w].op /\ th[w].bytes \in Nat
  BY WorkerAt, JobAt DEF Dispatch, At, Fits, OperationKnown, Thread
<1>2. UNCHANGED <<active, iocp, inflight>>
  BY DEF Dispatch, winVars
<1>3. CASE th[w].op = "RECIEVE"
  <2>1. Step(w, "recieved")
    BY <1>1, <1>3 DEF Dispatch, JobFits
  <2>2. /\ Others(w) /\ th'[w].pc = "recieved" /\ th'[w].unit = th[w].unit /\ th'[w].op = th[w].op
    BY <1>1, <2>1, Carries
  <2>3. "recieved" \notin {"idle", "failed", "decode"} \cup OpeningLabels
    BY DEF OpeningLabels
  <2>. QED BY <1>2, <2>2, <2>3, WatchesOn, NotAtDr
<1>4. CASE th[w].op # "RECIEVE"
  <2>1. \A u \in Units : ~Serves(th[w], u)
    BY <1>1, <1>4 DEF JobFits, Serves
  <2>2. Others(w) /\ th'[w].pc \in {"recieved", "idle", "disconnect"}
    BY <1>1, Goes DEF Dispatch
  <2>. QED BY <1>2, <2>1, <2>2, Watches, NotAtDr
<1>. QED BY <1>3, <1>4

LEMMA UpdateContextWatch ==
  ASSUME NetInv, LifeInv, WatchInv, NEW w \in Workers, UpdateContext(w) PROVE WatchInv'
<1>1. /\ w \in Threads /\ th[w] \in Thread /\ th[w].pc \in {"accepted", "connected"} /\ JobFits(th[w])
  BY WorkerAt, JobAt DEF UpdateContext, At
<1>2. UNCHANGED <<active, iocp, inflight>>
  BY DEF UpdateContext, winVars
<1>3. \A u \in Units : ~Serves(th[w], u)
  BY <1>1 DEF JobFits, Serves, OpeningLabels, Opener
<1>4. Others(w) /\ th'[w].pc \in {"iostart", "idle"}
  BY <1>1, Goes DEF UpdateContext
<1>. QED BY <1>2, <1>3, <1>4, Watches, NotAtDr

LEMMA IoStartWatch == ASSUME NetInv, LifeInv, WatchInv, NEW w \in Workers, IoStart(w) PROVE WatchInv'
<1> DEFINE u == th[w].unit
<1>1. /\ w \in Threads /\ th[w] \in Thread /\ th[w].pc = "iostart" /\ JobFits(th[w]) /\ u \in Units
  BY WorkerAt, JobAt DEF IoStart, At, Fits, UnitsKnown, DrLabels
<1>2. UNCHANGED <<iocp, inflight>>
  BY DEF IoStart, winVars
<1>3. Opens(th[w], u) /\ w \in Thr(u)
  BY <1>1 DEF JobFits, OpeningLabels, Opens, Thr, Works
<1>4. ~active[u]
  BY <1>1, <1>3 DEF LifeInv, Staged, AtMostOne
<1>5. active' = [active EXCEPT ![u] = TRUE] /\ Step(w, "onconnect")
  BY <1>4 DEF IoStart
<1>6. Others(w) /\ th'[w].pc = "onconnect" /\ th'[w].unit = u /\ th'[w].op = th[w].op
  BY <1>1, <1>5, Carries
<1>7. Serves(th'[w], u) /\ \A v \in Units : ~Serves(th[w], v)
  BY <1>1, <1>6 DEF JobFits, Serves, OpeningLabels, Opener
<1>8. \A v \in Units \ {u} : active'[v] = active[v]
  BY <1>1, <1>5 DEF NetInv, SharedOK
<1> HIDE DEF u
<1>9. OwnTarget'
  BY <1>6, NotAtDr DEF WatchInv, OwnTarget, Others, Threads
<1>10. ASSUME NEW v \in Units, active'[v] PROVE Hears(v)'
  <2>1. CASE v = u
    BY <1>7, <2>1 DEF Hears, Serves
  <2>2. CASE v # u
    <3>1. Hears(v)
      BY <1>8, <1>10, <2>2 DEF WatchInv
    <3>2. \A s \in Workers : Serves(th[s], v) => Serves(th[s], v)'
      BY <1>6, <1>7 DEF Others, Serves, Threads
    <3>. QED BY <1>2, <3>1, <3>2 DEF Hears
  <2>. QED BY <2>1, <2>2
<1>. QED BY <1>9, <1>10 DEF WatchInv

LEMMA OnLabels == \A l \in {"onconnect", "enable", "rearm", "wsarecv", "recieved", "processed", "send",
                            "wsasend", "dr", "drShut", "drOff", "drPost", "disconnect", "cleanup", "acceptreq"} :
                    l \notin {"idle", "failed", "decode"} \cup OpeningLabels
BY DEF OpeningLabels

LEMMA OnConnectWatch == ASSUME NetInv, LifeInv, WatchInv, NEW w \in Workers, OnConnect(w) PROVE WatchInv'
<1>1. w \in Threads /\ th[w] \in Thread
  BY WorkerAt DEF OnConnect, At
<1>2. UNCHANGED <<active, iocp, inflight>>
  BY DEF OnConnect, winVars
<1>3. Others(w) /\ th'[w].pc \in {"send", "enable"} /\ th'[w].unit = th[w].unit /\ th'[w].op = th[w].op
  <2>1. CASE Step(w, "enable")
    BY <1>1, <2>1, Carries
  <2>2. ASSUME NEW targets,
               Go(w, [th[w] EXCEPT !.pc = "send", !.ret = "enable", !.todo = targets])
        PROVE  Others(w) /\ th'[w].pc = "send" /\ th'[w].unit = th[w].unit /\ th'[w].op = th[w].op
    BY <1>1, <2>2, LocalsAre DEF Go, Others, Thread
  <2>. QED BY <2>1, <2>2 DEF OnConnect
<1>. QED BY <1>2, <1>3, WatchesOn, NotAtDr, OnLabels

LEMMA EnableWatch == ASSUME NetInv, LifeInv, WatchInv, NEW w \in Workers, Enable(w) PROVE WatchInv'
<1>1. UNCHANGED <<active, iocp, inflight>> /\ Step(w, "rearm") /\ w \in Threads
  BY DEF Enable, Threads
<1>. QED BY <1>1, Carries, WatchesOn, NotAtDr, OnLabels

LEMMA RecieveRequestWatch ==
  ASSUME NetInv, LifeInv, WatchInv, NEW w \in Workers, RecieveRequest(w) PROVE WatchInv'
<1>1. UNCHANGED <<active, iocp, inflight>> /\ w \in Threads
  BY DEF RecieveRequest, winVars, Threads
<1>2. CASE active[th[w].unit]
  <2>1. Step(w, "wsarecv")
    BY <1>2 DEF RecieveRequest
  <2>. QED BY <1>1, <2>1, Carries, WatchesOn, NotAtDr, OnLabels
<1>3. CASE ~active[th[w].unit]
  <2>1. Finish(w) /\ \A u \in Units : Serves(th[w], u) => ~active[u]
    BY <1>3 DEF RecieveRequest, Serves
  <2>. QED BY <1>1, <2>1, Stops
<1>. QED BY <1>2, <1>3

\* A receive that is refused ends with a DisconnectRequest of the unit.
LEMMA AsyncRecieveWatch ==
  ASSUME NetInv, LifeInv, WatchInv, NEW w \in Workers, AsyncRecieve(w) PROVE WatchInv'
<1> DEFINE u == th[w].unit
<1>1. UNCHANGED <<active, iocp>> /\ w \in Threads /\ th[w].pc = "wsarecv" /\ u \in Units
  BY WorkerAt DEF AsyncRecieve, At, Fits, UnitsKnown, DrLabels
<1>2. CASE AsyncResult(u) = "error"
  <2>1. RequestDisconnect(w, u, "idle") /\ inflight' = inflight
    BY <1>2 DEF AsyncRecieve
  <2>2. /\ Others(w) /\ th'[w].pc = "dr" /\ th'[w].unit = th[w].unit /\ th'[w].op = th[w].op
        /\ th'[w].tgt = th'[w].unit
    BY <1>1, <2>1, Carries
  <2>. QED BY <1>1, <2>1, <2>2, WatchesOn, OnLabels
<1>3. CASE AsyncResult(u) = "lost"
  <2>1. Finish(w) /\ inflight' = inflight
    BY <1>3 DEF AsyncRecieve
  <2>2. sock[u] = "down"
    BY <1>3 DEF AsyncResult
  <2>3. ~active[u]
    BY <1>1, <2>2 DEF LifeInv, Sockets
  <2>4. \A v \in Units : Serves(th[w], v) => ~active[v]
    BY <2>3 DEF Serves
  <2>. QED BY <1>1, <2>1, <2>4, Stops
<1>4. CASE AsyncResult(u) \notin {"error", "lost"}
  <2>1. Finish(w) /\ Issue(u, "RECIEVE", NoOv)
    BY <1>4 DEF AsyncRecieve
  <2>2. Others(w) /\ th'[w].pc = "idle"
    BY <1>1, <2>1, Goes
  <2>3. PICK f \in inflight' : f.unit = u /\ f.op = "RECIEVE"
    <3> DEFINE f == [op |-> "RECIEVE", unit |-> u, ov |-> NoOv, sess |-> session[u],
                     tag |-> FreeTag(u, "RECIEVE")]
    <3>1. f \in inflight' /\ f.unit = u /\ f.op = "RECIEVE"
      BY <2>1 DEF Issue
    <3>. QED BY <3>1
  <2>4. inflight \subseteq inflight'
    BY <2>1 DEF Issue
  <2>5. OwnTarget'
    BY <2>2, NotAtDr DEF WatchInv, OwnTarget, Others, Threads
  <2>6. ASSUME NEW v \in Units, active'[v] PROVE Hears(v)'
    <3>1. CASE v = u
      BY <2>3, <3>1 DEF Hears
    <3>2. CASE v # u
      <4>1. Hears(v)
        BY <1>1, <2>6 DEF WatchInv
      <4>2. \A s \in Workers : Serves(th[s], v) => Serves(th[s], v)'
        BY <2>2, <3>2 DEF Others, Serves, Threads
      <4>. QED BY <1>1, <2>4, <4>1, <4>2 DEF Hears
    <3>. QED BY <3>1, <3>2
  <2>. QED BY <2>5, <2>6 DEF WatchInv
<1>. QED BY <1>2, <1>3, <1>4

LEMMA RecievedWatch == ASSUME NetInv, LifeInv, WatchInv, NEW w \in Workers, Recieved(w) PROVE WatchInv'
<1>1. UNCHANGED <<active, iocp, inflight>> /\ w \in Threads /\ th[w] \in Thread
  BY WorkerAt DEF Recieved, winVars, At
<1>2. CASE Finish(w) /\ ~active[th[w].unit]
  <2>1. \A u \in Units : Serves(th[w], u) => ~active[u]
    BY <1>2 DEF Serves
  <2>. QED BY <1>1, <1>2, <2>1, Stops
<1>3. CASE Step(w, "rearm")
  BY <1>1, <1>3, Carries, WatchesOn, NotAtDr, OnLabels
<1>4. ASSUME NEW targets, Go(w, [th[w] EXCEPT !.pc = "send", !.todo = targets, !.ret = "processed"])
      PROVE  WatchInv'
  <2>1. Others(w) /\ th'[w].pc = "send" /\ th'[w].unit = th[w].unit /\ th'[w].op = th[w].op
    BY <1>1, <1>4, LocalsAre DEF Go, Others, Thread
  <2>. QED BY <1>1, <2>1, WatchesOn, NotAtDr, OnLabels
<1>. QED BY <1>2, <1>3, <1>4 DEF Recieved

LEMMA ProcessedWatch == ASSUME NetInv, LifeInv, WatchInv, NEW w \in Workers, Processed(w) PROVE WatchInv'
<1>1. UNCHANGED <<active, iocp, inflight>> /\ w \in Threads /\ th[w] \in Thread
  BY WorkerAt DEF Processed, winVars, At
<1>2. CASE ~active[th[w].unit]
  <2>1. Finish(w) /\ \A u \in Units : Serves(th[w], u) => ~active[u]
    BY <1>2 DEF Serves, Processed
  <2>. QED BY <1>1, <2>1, Stops
<1>3. CASE active[th[w].unit]
  <2>1. Go(w, [th[w] EXCEPT !.pc = "recieved", !.bytes = @ - 1])
    BY <1>3 DEF Processed
  <2>2. Others(w) /\ th'[w].pc = "recieved" /\ th'[w].unit = th[w].unit /\ th'[w].op = th[w].op
    BY <1>1, <2>1, LocalsAre DEF Go, Others, Thread
  <2>. QED BY <1>1, <2>2, WatchesOn, NotAtDr, OnLabels
<1>. QED BY <1>2, <1>3

LEMMA SendRequestWatch ==
  ASSUME NetInv, LifeInv, WatchInv, NEW w \in Workers, SendRequest(w) PROVE WatchInv'
<1>1. /\ UNCHANGED <<active, iocp, inflight>> /\ w \in Threads /\ th[w] \in Thread
      /\ th[w].pc = "send"
  BY WorkerAt DEF SendRequest, winVars, At
<1>2. /\ Others(w) /\ th'[w].pc \in {"send", "wsasend"}
      /\ th'[w].unit = th[w].unit /\ th'[w].op = th[w].op
  <2>1. ASSUME NEW u, NEW o, Go(w, [th[w] EXCEPT !.pc = "wsasend", !.ov = o, !.tgt = u, !.todo = @ \ {u}])
        PROVE  Others(w) /\ th'[w].pc = "wsasend" /\ th'[w].unit = th[w].unit /\ th'[w].op = th[w].op
    BY <1>1, <2>1, LocalsAre DEF Go, Others, Thread
  <2>2. ASSUME NEW u, Go(w, [th[w] EXCEPT !.todo = @ \ {u}])
        PROVE  Others(w) /\ th'[w].pc = "send" /\ th'[w].unit = th[w].unit /\ th'[w].op = th[w].op
    BY <1>1, <2>2, LocalsAre DEF Go, Others, Thread
  <2>. QED BY <2>1, <2>2 DEF SendRequest
<1>. QED BY <1>1, <1>2, WatchesOn, NotAtDr, OnLabels

LEMMA SendsDoneWatch ==
  ASSUME NetInv, LifeInv, WatchInv, NEW w \in Workers, SendsDone(w) PROVE WatchInv'
<1>1. /\ UNCHANGED <<active, iocp, inflight>> /\ w \in Threads /\ th[w] \in Thread
      /\ th[w].pc = "send" /\ Fits(w, th[w], "send")
  BY WorkerAt DEF SendsDone, winVars, At
<1>2. th[w].ret \in {"enable", "processed"}
  BY <1>1 DEF Fits, SeriesGoesBack, InSeries
<1>3. Others(w) /\ th'[w].pc = th[w].ret /\ th'[w].unit = th[w].unit /\ th'[w].op = th[w].op
  BY <1>1, LocalsAre DEF SendsDone, Go, Others, Thread
<1>. QED BY <1>1, <1>2, <1>3, WatchesOn, NotAtDr, OnLabels

LEMMA AsyncSendWatch ==
  ASSUME NetInv, LifeInv, WatchInv, NEW w \in Workers, AsyncSend(w) PROVE WatchInv'
<1>1. UNCHANGED <<active, iocp>> /\ w \in Threads /\ th[w] \in Thread
  BY WorkerAt DEF AsyncSend, At
<1>2. inflight \subseteq inflight'
  BY DEF AsyncSend, Issue
<1>3. CASE Go(w, [th[w] EXCEPT !.pc = "send", !.ov = NoOv, !.tgt = NoUnit])
  <2>1. Others(w) /\ th'[w].pc = "send" /\ th'[w].unit = th[w].unit /\ th'[w].op = th[w].op
    BY <1>1, <1>3, LocalsAre DEF Go, Others, Thread
  <2>. QED BY <1>1, <1>2, <2>1, WatchesOn, NotAtDr, OnLabels
<1>4. CASE RequestDisconnect(w, th[w].tgt, "send")
  <2>1. /\ Others(w) /\ th'[w].pc = "dr" /\ th'[w].unit = th[w].unit /\ th'[w].op = th[w].op
        /\ th'[w].dret = "send"
    BY <1>1, <1>4, Carries
  <2>. QED BY <1>1, <1>2, <2>1, WatchesOn, OnLabels
<1>. QED BY <1>3, <1>4 DEF AsyncSend

LEMMA DisconnectWatch ==
  ASSUME NetInv, LifeInv, WatchInv, NEW w \in Workers,
         OnDisconnect(w) \/ Cleanup(w) \/ AcceptRequest(w) \/ AsyncAccept(w)
  PROVE  WatchInv'
<1>1. /\ w \in Threads /\ JobFits(th[w])
      /\ th[w].pc \in ClosingLabels
  BY WorkerAt, JobAt DEF OnDisconnect, Cleanup, AcceptRequest, AsyncAccept, At, ClosingLabels,
                         AcceptingLabels
<1>2. UNCHANGED <<active, iocp>> /\ inflight \subseteq inflight'
  BY DEF OnDisconnect, Cleanup, AcceptRequest, AsyncAccept, winVars, Issue
<1>3. \A u \in Units : ~Serves(th[w], u)
  BY <1>1 DEF JobFits, Serves
<1>4. Others(w) /\ th'[w].pc \in {"cleanup", "bindiocp", "acceptreq", "acceptex", "idle"}
  BY <1>1, Goes DEF OnDisconnect, Cleanup, AcceptRequest, AsyncAccept
<1>. QED BY <1>2, <1>3, <1>4, Watches, NotAtDr

LEMMA BindIocpWatch == ASSUME NetInv, LifeInv, WatchInv, NEW w \in Workers, BindIocp(w) PROVE WatchInv'
<1>1. w \in Threads /\ th[w].pc = "bindiocp"
  BY WorkerAt DEF BindIocp, At
<1>2. Finish(w) /\ UNCHANGED <<active, iocp, inflight>>
  BY DEF BindIocp
<1>3. \A u \in Units : Serves(th[w], u) => ~active[u]
  BY <1>1 DEF LifeInv, Loosened, Detached, Serves
<1>. QED BY <1>2, <1>3, Stops

LEMMA ConnectorWatch ==
  ASSUME NetInv, WatchInv, Others(Connector), iocp' = iocp, inflight \subseteq inflight',
         \A u \in Units : active'[u] => active[u]
  PROVE  WatchInv'
<1>1. /\ Connector \in Threads /\ Connector \notin Workers
      /\ \A i \in 1..Len(iocp) : i \in 1..Len(iocp') /\ iocp'[i] = iocp[i]
  BY ThreadsAssumption DEF Threads
<1>. QED BY <1>1, Listens

LEMMA DequeueWatch == ASSUME NetInv, LifeInv, WatchInv, NEW w \in Workers, Dequeue(w) PROVE WatchInv'
<1>0. w \in Threads /\ th[w].pc = "idle" /\ iocp # << >>
  BY WorkerAt DEF Dequeue, At
<1>1. /\ Len(iocp) \in Nat /\ 1 \in 1..Len(iocp)
      /\ Head(iocp) = iocp[1]
      /\ \A i \in 1..Len(iocp) : i = 1 \/ (i - 1 \in 1..Len(iocp') /\ iocp'[i - 1] = iocp[i])
  BY <1>0 DEF Dequeue, NetInv, SharedOK, WinTypeOK
<1>2. UNCHANGED <<active, inflight>>
  BY DEF Dequeue
<1> DEFINE p == iocp[1]
           job == [Idle EXCEPT !.pc = IF p.ok THEN "decode" ELSE "failed", !.op = p.op,
                               !.unit = p.unit, !.bytes = p.bytes, !.ov = p.ov]
<1>3. job.pc \in {"decode", "failed"} /\ job.op = p.op /\ job.unit = p.unit
  BY DEF Idle
<1>4. Go(w, job)
  BY <1>1 DEF Dequeue
<1> HIDE DEF job
<1>5. th'[w] = job /\ Others(w)
  BY <1>0, <1>4, Goes
<1>6. OwnTarget'
  BY <1>3, <1>5, NotAtDr DEF WatchInv, OwnTarget, Others, Threads, TakingDown
<1>7. ASSUME NEW u \in Units, active'[u] PROVE Hears(u)'
  <2>1. Hears(u)
    BY <1>2, <1>7 DEF WatchInv
  <2>2. CASE \E f \in inflight : f.unit = u /\ f.op = "RECIEVE"
    BY <1>2, <2>2 DEF Hears
  <2>3. CASE \E i \in 1..Len(iocp) : iocp[i].unit = u /\ iocp[i].op = "RECIEVE"
    <3>1. PICK i \in 1..Len(iocp) : iocp[i].unit = u /\ iocp[i].op = "RECIEVE"
      BY <2>3
    <3>2. CASE i = 1
      <4>1. Serves(th'[w], u)
        BY <1>3, <1>5, <3>1, <3>2 DEF Serves
      <4>. QED BY <4>1 DEF Hears, Serves
    <3>3. CASE i # 1
      <4>1. i - 1 \in 1..Len(iocp') /\ iocp'[i - 1] = iocp[i]
        BY <1>1, <3>1, <3>3
      <4>. QED BY <3>1, <4>1 DEF Hears
    <3>. QED BY <3>2, <3>3
  <2>4. CASE \E s \in Workers : Serves(th[s], u)
    <3>1. PICK s \in Workers : Serves(th[s], u)
      BY <2>4
    <3>2. th'[s] = th[s]
      BY <1>0, <1>5, <3>1 DEF Serves, Others, Threads
    <3>. QED BY <3>1, <3>2 DEF Hears, Serves
  <2>. QED BY <2>1, <2>2, <2>3, <2>4 DEF Hears
<1>. QED BY <1>6, <1>7 DEF WatchInv

\* A worker that comes back from DisconnectRequest on a unit not active.
LEMMA ResumeWatch ==
  ASSUME NetInv, WatchInv, NEW t \in Threads, Resume(t),
         th[t].pc \in {"dr"} \cup TakingDown, ~active[th[t].tgt]
  PROVE  /\ Others(t)
         /\ t \in Workers =>
              /\ \A u \in Units : Serves(th[t], u) /\ active[u] => Serves(th'[t], u)
              /\ th'[t].pc \in {"dr"} \cup TakingDown /\ th'[t].dret = "idle" => th'[t].tgt = th'[t].unit
<1>1. CASE th[t].dret = "idle"
  <2>1. Others(t) /\ th'[t].pc = "idle"
    BY <1>1, Goes DEF Resume
  <2>2. t \in Workers => \A u \in Units : Serves(th[t], u) => ~active[u]
    BY <1>1 DEF WatchInv, OwnTarget, Serves
  <2>. QED BY <2>1, <2>2, NotAtDr
<1>2. CASE th[t].dret # "idle"
  <2>1. /\ Others(t) /\ th'[t].pc = "send" /\ th'[t].unit = th[t].unit /\ th'[t].op = th[t].op
    <3>1. th[t] \in Thread /\ th[t].dret = "send"
      BY <1>2, ThreadAt DEF Thread
    <3> DEFINE job == [th[t] EXCEPT !.pc = th[t].dret, !.tgt = NoUnit, !.ov = NoOv, !.dret = "idle"]
    <3>2. job.pc = "send" /\ job.unit = th[t].unit /\ job.op = th[t].op
      BY <3>1 DEF Thread
    <3>3. Go(t, job)
      BY <1>2 DEF Resume, Back
    <3> HIDE DEF job
    <3>. QED BY <3>2, <3>3, Goes
  <2>2. \A u \in Units : Serves(th[t], u) => Serves(th'[t], u)
    BY <2>1 DEF Serves, OpeningLabels
  <2>. QED BY <2>1, <2>2, NotAtDr
<1>. QED BY <1>1, <1>2

\* The thread that is past the test has made the unit inactive.
LEMMA DisconnectingWatch ==
  ASSUME NetInv, LifeInv, WatchInv, NEW t \in Threads, Disconnecting(t) PROVE WatchInv'
<1>0. /\ th[t].pc \in {"dr"} \cup TakingDown /\ inflight' = inflight
      /\ th[t].tgt \in Units
  BY ThreadAt DEF Disconnecting, DisconnectRequest, ShutDownSocket, CloseOrDisable, PostDisconnect,
                  At, TakingDown, winVars, Fits, UnitsKnown, DrLabels
<1>1. ASSUME NEW l \in TakingDown, Step(t, l), iocp' = iocp,
             \A u \in Units : active'[u] => active[u]
      PROVE  WatchInv'
  <2>1. /\ Others(t) /\ th'[t].pc = l
        /\ th'[t].unit = th[t].unit /\ th'[t].op = th[t].op
        /\ th'[t].tgt = th[t].tgt /\ th'[t].dret = th[t].dret
    BY <1>1, Carries
  <2>2. l \notin {"idle", "failed", "decode"} \cup OpeningLabels
    BY OnLabels DEF TakingDown
  <2>3. \A u \in Units : Serves(th[t], u) => Serves(th'[t], u)
    BY <2>1, <2>2 DEF Serves
  <2>4. t \in Workers => (th'[t].dret = "idle" => th'[t].tgt = th'[t].unit)
    BY <1>0, <2>1 DEF WatchInv, OwnTarget
  <2>5. \A i \in 1..Len(iocp) : i \in 1..Len(iocp') /\ iocp'[i] = iocp[i]
    BY <1>1
  <2>. QED BY <1>0, <1>1, <2>1, <2>3, <2>4, <2>5, Listens
<1>2. CASE DisconnectRequest(t)
  <2>0. iocp' = iocp
    BY <1>2 DEF DisconnectRequest, winVars
  <2>1. CASE active[th[t].tgt]
    <3>1. Step(t, "drShut") /\ \A u \in Units : active'[u] => active[u]
      BY <1>0, <1>2, <2>1 DEF DisconnectRequest, NetInv, SharedOK
    <3>. QED BY <1>1, <2>0, <3>1 DEF TakingDown
  <2>2. CASE ~active[th[t].tgt]
    <3>1. Resume(t) /\ active' = active
      BY <1>2, <2>2 DEF DisconnectRequest
    <3>2. /\ \A i \in 1..Len(iocp) : i \in 1..Len(iocp') /\ iocp'[i] = iocp[i]
          /\ \A u \in Units : active'[u] => active[u]
          /\ inflight \subseteq inflight'
      BY <1>0, <2>0, <3>1
    <3>. QED BY <1>0, <2>2, <3>1, <3>2, ResumeWatch, Listens
  <2>. QED BY <2>1, <2>2
<1>3. CASE ShutDownSocket(t)
  BY <1>1, <1>3 DEF ShutDownSocket, TakingDown
<1>4. CASE CloseOrDisable(t)
  BY <1>1, <1>4 DEF CloseOrDisable, TakingDown
<1>5. CASE PostDisconnect(t)
  <2>1. th[t].pc \in TakingDown
    BY <1>5 DEF PostDisconnect, At, TakingDown
  <2>2. ~active[th[t].tgt]
    BY <2>1, AtTakingDown
  <2>3. \A i \in 1..Len(iocp) : i \in 1..Len(iocp') /\ iocp'[i] = iocp[i]
    <3>1. PICK p : iocp' = Append(iocp, p)
      BY <1>5 DEF PostDisconnect
    <3>. QED BY <3>1, Appended
  <2>4. Resume(t) /\ active' = active
    BY <1>5 DEF PostDisconnect
  <2>5. inflight \subseteq inflight' /\ \A u \in Units : active'[u] => active[u]
    BY <1>0, <2>4
  <2>. QED BY <1>0, <2>2, <2>3, <2>4, <2>5, ResumeWatch, Listens
<1>. QED BY <1>2, <1>3, <1>4, <1>5 DEF Disconnecting

LEMMA NetworkWatch == ASSUME NetInv, LifeInv, WatchInv, Network PROVE WatchInv'
<1>1. UNCHANGED <<active, th>>
  BY DEF Network
<1>2. OwnTarget'
  BY <1>1 DEF WatchInv, OwnTarget
<1>3. CASE \E f \in inflight : KernelOn(f)
  <2>1. PICK f \in inflight : KernelOn(f)
    BY <1>3
  <2>2. PICK ok, bytes : Complete(f, ok, bytes)
    BY <2>1 DEF KernelOn, Establish, EstablishFails, RecieveCompletes, SendCompletes, Aborts
  <2>3. inflight' = inflight \ {f}
    BY <2>2 DEF Complete
  <2>4. CASE Heard(f)
    <3>1. PICK n \in 1..Len(iocp') :
             /\ \A i \in 1..Len(iocp) : i \in 1..Len(iocp') /\ i # n /\ iocp'[i] = iocp[i]
             /\ iocp'[n].op = f.op /\ iocp'[n].unit = f.unit
      BY <2>2, <2>4, Completed
    <3>2. ASSUME NEW u \in Units, active'[u] PROVE Hears(u)'
      <4>1. Hears(u)
        BY <1>1, <3>2 DEF WatchInv
      <4>2. CASE \E s \in Workers : Serves(th[s], u)
        BY <1>1, <4>2 DEF Hears, Serves
      <4>3. CASE \E i \in 1..Len(iocp) : iocp[i].unit = u /\ iocp[i].op = "RECIEVE"
        BY <3>1, <4>3 DEF Hears
      <4>4. CASE \E g \in inflight : g.unit = u /\ g.op = "RECIEVE"
        BY <2>3, <3>1, <4>4 DEF Hears
      <4>. QED BY <4>1, <4>2, <4>3, <4>4 DEF Hears
    <3>. QED BY <1>2, <3>2 DEF WatchInv
  <2>5. CASE ~Heard(f)
    <3>1. iocp' = iocp
      BY <2>2, <2>5 DEF Complete
    <3>2. \A u \in Units : active[u] => f.unit # u
      BY <2>5 DEF Heard, LifeInv, Loosened, Detached
    <3>3. \A u \in Units : active[u] => Hears(u)'
      BY <1>1, <2>3, <3>1, <3>2 DEF WatchInv, Hears, Serves
    <3>. QED BY <1>1, <1>2, <3>3 DEF WatchInv
  <2>. QED BY <2>4, <2>5
<1>4. CASE \E u \in Units : PeerLeaves(u)
  <2>1. UNCHANGED <<inflight, iocp>>
    BY <1>4 DEF PeerLeaves
  <2>. QED BY <1>1, <1>2, <2>1 DEF WatchInv, Hears, Serves
<1>. QED BY <1>3, <1>4 DEF Network

LEMMA WatchStep == ASSUME NetInv, LifeInv, WatchInv, [Next]_vars PROVE WatchInv'
<1>2. ASSUME NEW w \in Workers, Handler(w) PROVE WatchInv'
  BY <1>2, DequeueWatch, FailedWatch, DecodeWatch, DispatchWatch, UpdateContextWatch, IoStartWatch,
     OnConnectWatch, EnableWatch, RecieveRequestWatch, AsyncRecieveWatch, RecievedWatch,
     ProcessedWatch, DisconnectWatch, BindIocpWatch
     DEF Handler
<1>3. ASSUME NEW w \in Workers, Sending(w) PROVE WatchInv'
  BY <1>3, SendRequestWatch, SendsDoneWatch, AsyncSendWatch DEF Sending
<1>4. CASE \E w \in Workers : Worker(w)
  BY <1>2, <1>3, <1>4, DisconnectingWatch DEF Worker, Threads
<1>5. CASE AutoConnect
  <2>0. Connector \in Threads
    BY DEF Threads
  <2>1. ASSUME NEW u \in ConnectUnits, CheckActive(u) PROVE WatchInv'
    <3>1. Others(Connector) /\ UNCHANGED <<iocp, inflight, active>>
      BY <2>0, <2>1, Goes DEF CheckActive, winVars
    <3>. QED BY <3>1, ConnectorWatch
  <2>2. ASSUME NEW u \in ConnectUnits, TryConnect(u) PROVE WatchInv'
    <3>1. Others(Connector) /\ UNCHANGED <<iocp, inflight, active>>
      BY <2>0, <2>2, Goes DEF TryConnect, winVars
    <3>. QED BY <3>1, ConnectorWatch
  <2>3. CASE AsyncConnect
    <3>1. Others(Connector) /\ UNCHANGED <<iocp, active>> /\ inflight \subseteq inflight'
      BY <2>0, <2>3, Goes DEF AsyncConnect, Issue
    <3>. QED BY <3>1, ConnectorWatch
  <2>4. CASE CheckConnected
    <3>1. Others(Connector) /\ UNCHANGED <<iocp, inflight, active>>
      BY <2>0, <2>4, Goes DEF CheckConnected, winVars
    <3>. QED BY <3>1, ConnectorWatch
  <2>. QED BY <1>5, <2>0, <2>1, <2>2, <2>3, <2>4, DisconnectingWatch DEF AutoConnect
<1>6. CASE Network
  BY <1>6, NetworkWatch
<1>7. CASE UNCHANGED vars
  BY <1>7 DEF vars, winVars, WatchInv, OwnTarget, Hears, Serves
<1>. QED BY <1>4, <1>5, <1>6, <1>7 DEF Next

LEMMA WatchInit == Init => WatchInv
<1> SUFFICES ASSUME Init PROVE WatchInv
  OBVIOUS
<1>1. \A w \in Workers : th[w].pc = "idle"
  BY DEF Init, Idle, Threads
<1>2. \A u \in Units : ~active[u]
  BY DEF Init
<1>. QED BY <1>1, <1>2, NotAtDr DEF WatchInv, OwnTarget

(***************************************************************************)
(* An active unit has a receive outstanding or a worker that will issue    *)
(* one or disconnect: a connection is never left with nobody listening     *)
(* (NetUnit.cpp:132-175, 250-264).                                         *)
(***************************************************************************)
THEOREM ConnectionsAreWatched ==
  ASSUME "fin" \notin Faults
  PROVE  Spec => []ActiveIsWatched
<1>1. WatchInv => ActiveIsWatched
  BY DEF WatchInv, ActiveIsWatched, Hears, Serves, Watched, Pending, QueuedFor
<1>. QED BY <1>1, NetInvariant, LifeInvariant, WatchInit, WatchStep, PTL DEF Spec

-----------------------------------------------------------------------------
(* One worker: receives.                                                   *)

\* One worker thread, which handles one packet after the other.
OneWorker == \A v, w \in Workers : v = w

\* A worker that will ask for the unit's data, unless the unit is taken down.
RearmLabels == {"onconnect", "enable", "rearm", "wsarecv", "recieved", "processed", "send", "wsasend"}
Rearms(j, u) == /\ j.unit = u
                /\ \/ j.pc \in RearmLabels
                   \/ j.pc \in DrLabels /\ j.dret = "send"
                   \/ j.pc \in {"decode", "dispatch"} /\ j.op = "RECIEVE"

\* A receive on the present connection is with the kernel, in the queue or
\* with a worker.
KernRcv(u) == {f \in inflight : f.unit = u /\ f.op = "RECIEVE" /\ f.sess = session[u]}
QueRcv(u) == {i \in 1..Len(iocp) : iocp[i].unit = u /\ iocp[i].op = "RECIEVE" /\ iocp[i].ok}
ThrRcv(u) == {w \in Workers : Rearms(th[w], u)}

\* There is one of them at most.
OneToken(u) == /\ \A f, g \in KernRcv(u) : f = g
               /\ \A i, j \in QueRcv(u) : i = j
               /\ KernRcv(u) # {} => QueRcv(u) = {} /\ ThrRcv(u) = {}
               /\ QueRcv(u) # {} => ThrRcv(u) = {}
NoneYet(u) == QueRcv(u) = {} /\ ThrRcv(u) = {}

\* A connection that is there but not yet active, and one on its way out.
Linked(u) == \/ \E i \in Que(u) : iocp[i].op # "DISCONNECT"
             \/ \E t \in Threads : Opens(th[t], u)
Ending(u) == {i \in 1..Len(iocp) : iocp[i].unit = u /\ iocp[i].op = "DISCONNECT"}
Leaves(j, u) == Closes(j, u) /\ j.pc \notin TakingDown

\* The receives of a connection are over before the next one begins: what it
\* left in the queue is ahead of the packet that takes the unit down.
RecieveAt(u) ==
  /\ OneToken(u)
  /\ sock[u] = "fresh" => NoneYet(u)
  /\ Linked(u) => NoneYet(u) /\ KernRcv(u) = {}
  /\ \A i \in Ending(u) : sock[u] # "linked" /\ \A k \in QueRcv(u) : k < i
  /\ \A t \in Threads : /\ Closes(th[t], u) /\ th[t].pc # "drShut" => sock[u] # "linked"
                        /\ Leaves(th[t], u) => QueRcv(u) = {}

\* The inductive invariant for receives.
RecieveInv == /\ \A f \in inflight : f.op = "RECIEVE" => f.sess <= session[f.unit]
              /\ \A u \in Units : RecieveAt(u)

\* A thread goes on; no receive is issued or completed.
LEMMA Onwards ==
  ASSUME NetInv, LifeInv, RecieveInv, NEW t \in Threads, Others(t),
         UNCHANGED <<session, iocp>>,
         \A f \in inflight' : f \in inflight \/ f.op # "RECIEVE",
         \A u \in Units : /\ sock'[u] = "fresh" => sock[u] = "fresh" \/ NoneYet(u)
                          /\ sock'[u] = "linked" => sock[u] = "linked",
         \A u \in Units : /\ t \in Workers /\ Rearms(th'[t], u) => Rearms(th[t], u)
                          /\ Opens(th'[t], u) => Opens(th[t], u)
                          /\ Closes(th'[t], u) /\ th'[t].pc # "drShut" => sock'[u] # "linked"
                          /\ Leaves(th'[t], u) => Leaves(th[t], u)
  PROVE  RecieveInv'
<1>1. \A u \in Units : KernRcv(u)' \subseteq KernRcv(u) /\ QueRcv(u)' = QueRcv(u) /\ Ending(u)' = Ending(u)
  BY DEF KernRcv, QueRcv, Ending
<1>2. \A u \in Units : ThrRcv(u)' \subseteq ThrRcv(u)
  BY DEF ThrRcv, Rearms, Others, Threads
<1>3. \A u \in Units : Linked(u)' => Linked(u)
  BY SameQue DEF Linked, Others, Opens, Opener
<1>4. ASSUME NEW u \in Units PROVE RecieveAt(u)'
  <2>0. RecieveAt(u)
    BY DEF RecieveInv
  <2>1. OneToken(u)'
    BY <1>1, <1>2, <2>0 DEF RecieveAt, OneToken
  <2>2. sock'[u] = "fresh" => NoneYet(u)'
    BY <1>1, <1>2, <2>0 DEF RecieveAt, NoneYet
  <2>3. Linked(u)' => NoneYet(u)' /\ KernRcv(u)' = {}
    BY <1>1, <1>2, <1>3, <2>0 DEF RecieveAt, NoneYet
  <2>4. \A i \in Ending(u)' : sock'[u] # "linked" /\ \A k \in QueRcv(u)' : k < i
    BY <1>1, <2>0 DEF RecieveAt
  <2>5. ASSUME NEW s \in Threads
        PROVE  /\ Closes(th'[s], u) /\ th'[s].pc # "drShut" => sock'[u] # "linked"
               /\ Leaves(th'[s], u) => QueRcv(u)' = {}
    <3>1. CASE s = t
      BY <1>1, <2>0, <3>1 DEF RecieveAt
    <3>2. CASE s # t
      BY <1>1, <2>0, <3>2 DEF RecieveAt, Others
    <3>. QED BY <3>1, <3>2
  <2>6. \A s \in Threads : /\ (Closes(th[s], u) /\ th[s].pc # "drShut" => sock[u] # "linked")'
                           /\ (Leaves(th[s], u) => QueRcv(u) = {})'
    BY <2>5 DEF Closes, Leaves
  <2>. QED BY <2>1, <2>2, <2>3, <2>4, <2>6 DEF RecieveAt
<1>5. \A f \in inflight' : f.op = "RECIEVE" => f.sess <= session'[f.unit]
  BY DEF RecieveInv
<1>. QED BY <1>4, <1>5 DEF RecieveInv

\* ... and is at no stage afterwards.
LEMMA OnwardsQuiet ==
  ASSUME NetInv, LifeInv, RecieveInv, NEW t \in Threads, Others(t),
         UNCHANGED <<sock, session, iocp>>,
         \A f \in inflight' : f \in inflight \/ f.op # "RECIEVE",
         th'[t].pc \notin StageLabels,
         \A u \in Units : Rearms(th'[t], u) => Rearms(th[t], u)
  PROVE  RecieveInv'
<1>1. \A u \in Units : ~Opens(th'[t], u) /\ ~Closes(th'[t], u) /\ ~Leaves(th'[t], u)
  BY NoStage DEF Leaves
<1>. QED BY <1>1, Onwards

\* A thread that has stopped.
LEMMA OnwardsIdle ==
  ASSUME NetInv, LifeInv, RecieveInv, NEW t \in Threads, Finish(t),
         UNCHANGED <<sock, session, iocp>>,
         \A f \in inflight' : f \in inflight \/ f.op # "RECIEVE"
  PROVE  RecieveInv'
<1>1. Others(t) /\ th'[t].pc = "idle"
  BY Goes
<1>2. \A u \in Units : ~Rearms(th'[t], u)
  BY <1>1 DEF Rearms, RearmLabels, DrLabels
<1>. QED BY <1>1, <1>2, OnwardsQuiet, StagelessLabels

\* A step within the handlers that ask for data.
LEMMA OnwardsStep ==
  ASSUME NetInv, LifeInv, RecieveInv, NEW t \in Threads, Others(t),
         UNCHANGED <<sock, loose, session, iocp, inflight>>,
         th'[t].unit = th[t].unit,
         th[t].pc \in RearmLabels,
         th'[t].pc \in RearmLabels
  PROVE  RecieveInv'
<1>1. \A u \in Units : Rearms(th'[t], u) => Rearms(th[t], u)
  BY DEF Rearms
<1>2. th'[t].pc \notin StageLabels
  BY StagelessLabels DEF RearmLabels
<1>. QED BY <1>1, <1>2, OnwardsQuiet

\* The call of DisconnectRequest.
LEMMA OnwardsRequest ==
  ASSUME NetInv, LifeInv, RecieveInv, NEW t \in Threads, NEW v, NEW d, RequestDisconnect(t, v, d),
         d = "idle" \/ th[t].pc \in RearmLabels,
         UNCHANGED <<sock, loose, session, iocp>>,
         \A f \in inflight' : f \in inflight \/ f.op # "RECIEVE"
  PROVE  RecieveInv'
<1>1. Others(t) /\ th'[t].pc = "dr" /\ th'[t].unit = th[t].unit /\ th'[t].dret = d
  BY Carries
<1>2. \A u \in Units : Rearms(th'[t], u) => Rearms(th[t], u)
  BY <1>1 DEF Rearms, RearmLabels
<1>. QED BY <1>1, <1>2, OnwardsQuiet, StagelessLabels

LEMMA FailedRecieve == ASSUME NetInv, LifeInv, RecieveInv, NEW w \in Workers, Failed(w) PROVE RecieveInv'
<1>1. UNCHANGED <<sock, loose, session, iocp, inflight>> /\ w \in Threads
  BY DEF Failed, winVars, sockVars, Threads
<1>2. CASE Finish(w)
  BY <1>1, <1>2, OnwardsIdle
<1>3. CASE RequestDisconnect(w, th[w].unit, "idle")
  BY <1>1, <1>3, OnwardsRequest
<1>. QED BY <1>2, <1>3 DEF Failed

LEMMA DecodeRecieve == ASSUME NetInv, LifeInv, RecieveInv, NEW w \in Workers, Decode(w) PROVE RecieveInv'
<1>1. /\ w \in Threads /\ th[w] \in Thread /\ th[w].pc = "decode" /\ JobFits(th[w])
      /\ Fits(w, th[w], "decode")
  BY WorkerAt, JobAt DEF Decode, At
<1>2. UNCHANGED <<sock, loose, session, iocp, inflight>>
  BY DEF Decode, winVars, sockVars
<1>3. OperationOf(w) = th[w].op
  BY <1>1 DEF OperationOf, NetInv, Tagged, Agree
<1> DEFINE op == th[w].op
           next == CASE op = "ACCEPT"  -> "accepted"
                     [] op = "CONNECT" -> "connected"
                     [] OTHER          -> "dispatch"
           job == [th[w] EXCEPT !.pc = next, !.optype = op]
<1>4. /\ job.pc = next /\ job.op = op /\ job.unit = th[w].unit /\ job.tgt = th[w].tgt
  BY <1>1 DEF Thread
<1>5. Go(w, job)
  BY <1>3 DEF Decode
<1> HIDE DEF job
<1>6. th'[w] = job /\ Others(w)
  BY <1>1, <1>5, Goes
<1>7. th[w].unit \in Units
  BY <1>1 DEF Fits, UnitsKnown, DrLabels
<1>8. \A u \in Units : /\ Opens(job, u) <=> Opens(th[w], u)
                       /\ Closes(job, u) <=> Closes(th[w], u)
                       /\ Leaves(job, u) <=> Leaves(th[w], u)
  BY <1>1, <1>4, OpenerOf DEF Opens, Closes, Leaves, OpeningLabels, ClosingLabels, AcceptingLabels, TakingDown
<1>9. \A u \in Units : Rearms(job, u) => Rearms(th[w], u)
  BY <1>1, <1>4 DEF Rearms, RearmLabels, DrLabels
<1>10. \A u \in Units : Closes(job, u) => sock[u] # "linked"
  BY <1>1, <1>8 DEF RecieveInv, RecieveAt
<1>. QED BY <1>1, <1>2, <1>6, <1>8, <1>9, <1>10, Onwards

LEMMA DispatchRecieve == ASSUME NetInv, LifeInv, RecieveInv, NEW w \in Workers, Dispatch(w) PROVE RecieveInv'
<1>1. /\ w \in Threads /\ th[w] \in Thread /\ th[w].pc = "dispatch" /\ JobFits(th[w])
      /\ th[w].optype = th[w].op /\ th[w].bytes \in Nat
  BY WorkerAt, JobAt DEF Dispatch, At, Fits, OperationKnown, Thread
<1>2. UNCHANGED <<sock, loose, session, iocp, inflight>>
  BY DEF Dispatch, winVars, sockVars
<1>3. CASE Finish(w)
  BY <1>1, <1>2, <1>3, OnwardsIdle
<1>4. CASE Step(w, "recieved") /\ th[w].op = "RECIEVE"
  <2>1. Others(w) /\ th'[w].pc = "recieved" /\ th'[w].unit = th[w].unit
    BY <1>1, <1>4, Carries
  <2>2. \A u \in Units : Rearms(th'[w], u) => Rearms(th[w], u)
    BY <1>1, <1>4, <2>1 DEF Rearms
  <2>. QED BY <1>1, <1>2, <2>1, <2>2, OnwardsQuiet, StagelessLabels
<1>5. CASE Step(w, "disconnect") /\ th[w].op = "DISCONNECT"
  <2>1. /\ Others(w) /\ th'[w].pc = "disconnect" /\ th'[w].unit = th[w].unit /\ th'[w].op = th[w].op
        /\ th'[w].tgt = th[w].tgt
    BY <1>1, <1>5, Carries
  <2>2. \A u \in Units : ~Rearms(th'[w], u)
    BY <2>1 DEF Rearms, RearmLabels, DrLabels
  <2>3. \A u \in Units : /\ ~Opens(th'[w], u)
                         /\ Closes(th'[w], u) => Closes(th[w], u)
                         /\ Leaves(th'[w], u) => Leaves(th[w], u)
    BY <1>1, <1>5, <2>1 DEF Opens, Closes, Leaves, OpeningLabels, ClosingLabels, AcceptingLabels, TakingDown
  <2>4. \A u \in Units : Closes(th'[w], u) => sock[u] # "linked"
    BY <1>1, <2>3 DEF RecieveInv, RecieveAt
  <2>. QED BY <1>1, <1>2, <2>1, <2>2, <2>3, <2>4, Onwards
<1>6. \/ Finish(w)
      \/ Step(w, "recieved") /\ th[w].op = "RECIEVE"
      \/ Step(w, "disconnect") /\ th[w].op = "DISCONNECT"
  BY <1>1 DEF Dispatch, JobFits, Thread, Operations
<1>. QED BY <1>3, <1>4, <1>5, <1>6

LEMMA UpdateContextRecieve ==
  ASSUME NetInv, LifeInv, RecieveInv, NEW w \in Workers, UpdateContext(w) PROVE RecieveInv'
<1>1. /\ w \in Threads /\ th[w] \in Thread /\ th[w].pc \in {"accepted", "connected"}
  BY WorkerAt DEF UpdateContext, At
<1>2. UNCHANGED <<sock, loose, session, iocp, inflight>>
  BY DEF UpdateContext, winVars, sockVars
<1>3. CASE Step(w, "iostart")
  <2>1. /\ Others(w) /\ th'[w].pc = "iostart" /\ th'[w].unit = th[w].unit /\ th'[w].op = th[w].op
        /\ th'[w].tgt = th[w].tgt
    BY <1>1, <1>3, Carries
  <2>2. \A u \in Units : ~Rearms(th'[w], u)
    BY <2>1 DEF Rearms, RearmLabels, DrLabels
  <2>3. \A u \in Units : /\ Opens(th'[w], u) => Opens(th[w], u)
                         /\ ~Closes(th'[w], u) /\ ~Leaves(th'[w], u)
    BY <1>1, <2>1 DEF Opens, Closes, Leaves, OpeningLabels, ClosingLabels, AcceptingLabels, TakingDown
  <2>. QED BY <1>1, <1>2, <2>1, <2>2, <2>3, Onwards
<1>. QED BY <1>1, <1>2, <1>3, OnwardsIdle DEF UpdateContext

LEMMA OnConnectRecieve == ASSUME NetInv, LifeInv, RecieveInv, NEW w \in Workers, OnConnect(w) PROVE RecieveInv'
<1>1. w \in Threads /\ th[w] \in Thread /\ th[w].pc = "onconnect"
  BY WorkerAt DEF OnConnect, At
<1>2. UNCHANGED <<sock, loose, session, iocp, inflight>>
  BY DEF OnConnect, winVars, sockVars
<1>3. Others(w) /\ th'[w].pc \in {"send", "enable"} /\ th'[w].unit = th[w].unit
  <2>1. CASE Step(w, "enable")
    BY <1>1, <2>1, Carries
  <2>2. ASSUME NEW targets,
               Go(w, [th[w] EXCEPT !.pc = "send", !.ret = "enable", !.todo = targets])
        PROVE  Others(w) /\ th'[w].pc = "send" /\ th'[w].unit = th[w].unit
    BY <1>1, <2>2, LocalsAre DEF Go, Others, Thread
  <2>. QED BY <2>1, <2>2 DEF OnConnect
<1>. QED BY <1>1, <1>2, <1>3, OnwardsStep DEF RearmLabels

LEMMA EnableRecieve == ASSUME NetInv, LifeInv, RecieveInv, NEW w \in Workers, Enable(w) PROVE RecieveInv'
<1>1. /\ UNCHANGED <<sock, loose, session, iocp, inflight>> /\ Step(w, "rearm") /\ w \in Threads
      /\ th[w].pc = "enable"
  BY DEF Enable, Threads, At
<1>2. Others(w) /\ th'[w].pc = "rearm" /\ th'[w].unit = th[w].unit
  BY <1>1, Carries
<1>. QED BY <1>1, <1>2, OnwardsStep DEF RearmLabels

LEMMA RecieveRequestRecieve ==
  ASSUME NetInv, LifeInv, RecieveInv, NEW w \in Workers, RecieveRequest(w) PROVE RecieveInv'
<1>1. UNCHANGED <<sock, loose, session, iocp, inflight>> /\ w \in Threads /\ th[w].pc = "rearm"
  BY DEF RecieveRequest, winVars, sockVars, Threads, At
<1>2. CASE Step(w, "wsarecv")
  <2>1. Others(w) /\ th'[w].pc = "wsarecv" /\ th'[w].unit = th[w].unit
    BY <1>1, <1>2, Carries
  <2>. QED BY <1>1, <2>1, OnwardsStep DEF RearmLabels
<1>. QED BY <1>1, <1>2, OnwardsIdle DEF RecieveRequest

LEMMA RecievedRecieve == ASSUME NetInv, LifeInv, RecieveInv, NEW w \in Workers, Recieved(w) PROVE RecieveInv'
<1>1. /\ UNCHANGED <<sock, loose, session, iocp, inflight>> /\ w \in Threads /\ th[w] \in Thread
      /\ th[w].pc = "recieved"
  BY WorkerAt DEF Recieved, winVars, sockVars, At
<1>2. CASE Finish(w)
  BY <1>1, <1>2, OnwardsIdle
<1>3. CASE Step(w, "rearm")
  <2>1. Others(w) /\ th'[w].pc = "rearm" /\ th'[w].unit = th[w].unit
    BY <1>1, <1>3, Carries
  <2>. QED BY <1>1, <2>1, OnwardsStep DEF RearmLabels
<1>4. ASSUME NEW targets, Go(w, [th[w] EXCEPT !.pc = "send", !.todo = targets, !.ret = "processed"])
      PROVE  RecieveInv'
  <2>1. Others(w) /\ th'[w].pc = "send" /\ th'[w].unit = th[w].unit
    BY <1>1, <1>4, LocalsAre DEF Go, Others, Thread
  <2>. QED BY <1>1, <2>1, OnwardsStep DEF RearmLabels
<1>. QED BY <1>2, <1>3, <1>4 DEF Recieved

LEMMA ProcessedRecieve == ASSUME NetInv, LifeInv, RecieveInv, NEW w \in Workers, Processed(w) PROVE RecieveInv'
<1>1. /\ UNCHANGED <<sock, loose, session, iocp, inflight>> /\ w \in Threads /\ th[w] \in Thread
      /\ th[w].pc = "processed"
  BY WorkerAt DEF Processed, winVars, sockVars, At
<1>2. CASE Go(w, [th[w] EXCEPT !.pc = "recieved", !.bytes = @ - 1])
  <2>1. Others(w) /\ th'[w].pc = "recieved" /\ th'[w].unit = th[w].unit
    BY <1>1, <1>2, LocalsAre DEF Go, Others, Thread
  <2>. QED BY <1>1, <2>1, OnwardsStep DEF RearmLabels
<1>. QED BY <1>1, <1>2, OnwardsIdle DEF Processed

LEMMA SendRequestRecieve ==
  ASSUME NetInv, LifeInv, RecieveInv, NEW w \in Workers, SendRequest(w) PROVE RecieveInv'
<1>1. /\ UNCHANGED <<sock, loose, session, iocp, inflight>> /\ w \in Threads /\ th[w] \in Thread
      /\ th[w].pc = "send"
  BY WorkerAt DEF SendRequest, winVars, sockVars, At
<1>2. Others(w) /\ th'[w].pc \in {"send", "wsasend"} /\ th'[w].unit = th[w].unit
  <2>1. ASSUME NEW u, NEW o, Go(w, [th[w] EXCEPT !.pc = "wsasend", !.ov = o, !.tgt = u, !.todo = @ \ {u}])
        PROVE  Others(w) /\ th'[w].pc = "wsasend" /\ th'[w].unit = th[w].unit
    BY <1>1, <2>1, LocalsAre DEF Go, Others, Thread
  <2>2. ASSUME NEW u, Go(w, [th[w] EXCEPT !.todo = @ \ {u}])
        PROVE  Others(w) /\ th'[w].pc = "send" /\ th'[w].unit = th[w].unit
    BY <1>1, <2>2, LocalsAre DEF Go, Others, Thread
  <2>. QED BY <2>1, <2>2 DEF SendRequest
<1>. QED BY <1>1, <1>2, OnwardsStep DEF RearmLabels

LEMMA SendsDoneRecieve ==
  ASSUME NetInv, LifeInv, RecieveInv, NEW w \in Workers, SendsDone(w) PROVE RecieveInv'
<1>1. /\ UNCHANGED <<sock, loose, session, iocp, inflight>> /\ w \in Threads /\ th[w] \in Thread
      /\ th[w].pc = "send" /\ Fits(w, th[w], "send")
  BY WorkerAt DEF SendsDone, winVars, sockVars, At
<1>2. th[w].ret \in {"enable", "processed"}
  BY <1>1 DEF Fits, SeriesGoesBack, InSeries
<1>3. Others(w) /\ th'[w].pc = th[w].ret /\ th'[w].unit = th[w].unit
  BY <1>1, LocalsAre DEF SendsDone, Go, Others, Thread
<1>. QED BY <1>1, <1>2, <1>3, OnwardsStep DEF RearmLabels

LEMMA AsyncSendRecieve ==
  ASSUME NetInv, LifeInv, RecieveInv, NEW w \in Workers, AsyncSend(w) PROVE RecieveInv'
<1>1. UNCHANGED <<sock, loose, session, iocp>> /\ w \in Threads /\ th[w] \in Thread /\ th[w].pc = "wsasend"
  BY WorkerAt DEF AsyncSend, sockVars, At
<1>2. \A f \in inflight' : f \in inflight \/ f.op # "RECIEVE"
  BY DEF AsyncSend, Issue
<1>3. CASE Go(w, [th[w] EXCEPT !.pc = "send", !.ov = NoOv, !.tgt = NoUnit])
  <2>1. Others(w) /\ th'[w].pc = "send" /\ th'[w].unit = th[w].unit
    BY <1>1, <1>3, LocalsAre DEF Go, Others, Thread
  <2>2. \A u \in Units : Rearms(th'[w], u) => Rearms(th[w], u)
    BY <1>1, <2>1 DEF Rearms, RearmLabels
  <2>. QED BY <1>1, <1>2, <2>1, <2>2, OnwardsQuiet, StagelessLabels
<1>4. CASE RequestDisconnect(w, th[w].tgt, "send")
  BY <1>1, <1>2, <1>4, OnwardsRequest DEF RearmLabels
<1>. QED BY <1>3, <1>4 DEF AsyncSend

LEMMA BindIocpRecieve ==
  ASSUME NetInv, LifeInv, RecieveInv, NEW w \in Workers, BindIocp(w) PROVE RecieveInv'
<1>1. w \in Threads /\ Finish(w) /\ UNCHANGED <<sock, session, iocp, inflight>>
  BY DEF BindIocp, Threads
<1>. QED BY <1>1, OnwardsIdle

LEMMA AcceptRequestRecieve ==
  ASSUME NetInv, LifeInv, RecieveInv, NEW w \in Workers, AcceptRequest(w) PROVE RecieveInv'
<1>1. /\ w \in Threads /\ th[w].pc = "acceptreq"
      /\ UNCHANGED <<sock, session, iocp, inflight>>
  BY DEF AcceptRequest, Threads, winVars, sockVars, At
<1>2. CASE Finish(w)
  BY <1>1, <1>2, OnwardsIdle
<1>3. CASE Step(w, "acceptex")
  <2>1. /\ Others(w) /\ th'[w].pc = "acceptex" /\ th'[w].unit = th[w].unit /\ th'[w].op = th[w].op
        /\ th'[w].tgt = th[w].tgt
    BY <1>1, <1>3, Carries
  <2>2. \A u \in Units : ~Rearms(th'[w], u)
    BY <2>1 DEF Rearms, RearmLabels, DrLabels
  <2>3. \A u \in Units : /\ ~Opens(th'[w], u)
                         /\ Closes(th'[w], u) => Closes(th[w], u)
                         /\ Leaves(th'[w], u) => Leaves(th[w], u)
    BY <1>1, <2>1 DEF Opens, Closes, Leaves, OpeningLabels, ClosingLabels, AcceptingLabels, TakingDown
  <2>4. \A u \in Units : Closes(th'[w], u) => sock[u] # "linked"
    BY <1>1, <2>3 DEF RecieveInv, RecieveAt
  <2>. QED BY <1>1, <2>1, <2>2, <2>3, <2>4, Onwards
<1>. QED BY <1>2, <1>3 DEF AcceptRequest

LEMMA AsyncAcceptRecieve ==
  ASSUME NetInv, LifeInv, RecieveInv, NEW w \in Workers, AsyncAccept(w) PROVE RecieveInv'
<1>1. /\ w \in Threads /\ Finish(w) /\ UNCHANGED <<sock, session, iocp>>
      /\ \A f \in inflight' : f \in inflight \/ f.op # "RECIEVE"
  BY DEF AsyncAccept, Threads, sockVars, Issue
<1>. QED BY <1>1, OnwardsIdle

LEMMA OnDisconnectRecieve ==
  ASSUME NetInv, LifeInv, RecieveInv, NEW w \in Workers, OnDisconnect(w) PROVE RecieveInv'
<1>1. /\ w \in Threads /\ th[w].pc = "disconnect" /\ Step(w, "cleanup")
      /\ UNCHANGED <<sock, loose, session, iocp, inflight>>
  BY DEF OnDisconnect, Threads, winVars, sockVars, At
<1>2. /\ Others(w) /\ th'[w].pc = "cleanup" /\ th'[w].unit = th[w].unit /\ th'[w].op = th[w].op
      /\ th'[w].tgt = th[w].tgt
  BY <1>1, Carries
<1>3. \A u \in Units : ~Rearms(th'[w], u)
  BY <1>2 DEF Rearms, RearmLabels, DrLabels
<1>4. \A u \in Units : /\ ~Opens(th'[w], u)
                       /\ Closes(th'[w], u) => Closes(th[w], u)
                       /\ Leaves(th'[w], u) => Leaves(th[w], u)
  BY <1>1, <1>2 DEF Opens, Closes, Leaves, OpeningLabels, ClosingLabels, AcceptingLabels, TakingDown
<1>5. \A u \in Units : Closes(th'[w], u) => sock[u] # "linked"
  BY <1>1, <1>4 DEF RecieveInv, RecieveAt
<1>. QED BY <1>1, <1>2, <1>3, <1>4, <1>5, Onwards

\* With one worker nobody else will ask for data of a unit that is cleaned up.
LEMMA CleanupRecieve ==
  ASSUME OneWorker, NetInv, LifeInv, RecieveInv, NEW w \in Workers, Cleanup(w) PROVE RecieveInv'
<1> DEFINE u == th[w].unit
<1>1. /\ w \in Threads /\ th[w] \in Thread /\ th[w].pc = "cleanup" /\ JobFits(th[w]) /\ u \in Units
  BY WorkerAt, JobAt DEF Cleanup, At, Fits, UnitsKnown, DrLabels
<1>2. UNCHANGED <<session, iocp, inflight>>
  BY DEF Cleanup
<1>3. Closes(th[w], u) /\ Leaves(th[w], u)
  BY <1>1 DEF JobFits, ClosingLabels, AcceptingLabels, Closes, Leaves, TakingDown
<1>4. NoneYet(u) /\ sock[u] # "linked"
  <2>1. \A v \in Units : ~Rearms(th[w], v)
    BY <1>1 DEF Rearms, RearmLabels, DrLabels
  <2>. QED BY <1>1, <1>3, <2>1 DEF NoneYet, RecieveInv, RecieveAt, ThrRcv, OneWorker
<1>5. /\ Others(w) /\ th'[w].pc \in {"acceptreq", "bindiocp"}
      /\ th'[w].unit = th[w].unit /\ th'[w].op = th[w].op /\ th'[w].tgt = th[w].tgt
  BY <1>1, Carries DEF Cleanup
<1>6. \A v \in Units : /\ sock'[v] = "fresh" => sock[v] = "fresh" \/ v = u
                       /\ sock'[v] = "linked" => sock[v] = "linked"
  BY <1>1 DEF Cleanup, Reuse, Bind, NetInv, SharedOK, WinTypeOK
<1>7. \A v \in Units : ~Rearms(th'[w], v)
  BY <1>5 DEF Rearms, RearmLabels, DrLabels
<1>8. \A v \in Units : /\ ~Opens(th'[w], v)
                       /\ Closes(th'[w], v) => Closes(th[w], v)
                       /\ Leaves(th'[w], v) => Leaves(th[w], v)
  BY <1>1, <1>5 DEF Opens, Closes, Leaves, OpeningLabels, ClosingLabels, AcceptingLabels, TakingDown
<1>9. \A v \in Units : Closes(th'[w], v) => sock'[v] # "linked"
  BY <1>1, <1>6, <1>8 DEF RecieveInv, RecieveAt
<1> HIDE DEF u
<1>. QED BY <1>1, <1>2, <1>4, <1>5, <1>6, <1>7, <1>8, <1>9, Onwards

\* A connection begins without receives.
LEMMA IoStartRecieve ==
  ASSUME NetInv, LifeInv, LifeInv', RecieveInv, NEW w \in Workers, IoStart(w) PROVE RecieveInv'
<1> DEFINE u == th[w].unit
<1>1. /\ w \in Threads /\ th[w] \in Thread /\ th[w].pc = "iostart" /\ JobFits(th[w]) /\ u \in Units
  BY WorkerAt, JobAt DEF IoStart, At, Fits, UnitsKnown, DrLabels
<1>2. UNCHANGED <<sock, loose, session, iocp, inflight>>
  BY DEF IoStart, winVars, sockVars
<1>3. Opens(th[w], u) /\ w \in Thr(u)
  BY <1>1 DEF JobFits, OpeningLabels, Opens, Thr, Works
<1>4. ~active[u] /\ sock[u] = "linked" /\ Que(u) = {} /\ \A t \in Threads \ {w} : ~Works(th[t], u)
  BY <1>1, <1>3 DEF LifeInv, Staged, AtMostOne, Sockets, SocketAt, Thr
<1>5. Step(w, "onconnect")
  BY <1>4 DEF IoStart
<1>6. Others(w) /\ th'[w].pc = "onconnect" /\ th'[w].unit = u
  BY <1>1, <1>5, Carries
<1>7. NoneYet(u) /\ KernRcv(u) = {}
  BY <1>1, <1>3 DEF RecieveInv, RecieveAt, Linked
<1>8. Ending(u) = {}
  BY <1>1, <1>4 DEF Ending, Que, Brings
<1>9. \A v \in Units : KernRcv(v)' = KernRcv(v) /\ QueRcv(v)' = QueRcv(v) /\ Ending(v)' = Ending(v)
  BY <1>2 DEF KernRcv, QueRcv, Ending
<1>10. \A v \in Units : Rearms(th'[w], v) <=> v = u
  BY <1>6 DEF Rearms, RearmLabels
<1>11. \A v : ~Works(th'[w], v) /\ ~Opens(th'[w], v) /\ ~Closes(th'[w], v) /\ ~Leaves(th'[w], v)
  BY <1>6, NoStage, StagelessLabels DEF Works, Leaves
<1> HIDE DEF u
<1>12. \A v \in Units : ThrRcv(v)' = IF v = u THEN {w} ELSE ThrRcv(v)
  <2>1. \A s \in Workers, v \in Units : s # w => (Rearms(th'[s], v) <=> Rearms(th[s], v))
    BY <1>6 DEF Others, Threads
  <2>2. \A v \in Units : ~Rearms(th[w], v)
    BY <1>1 DEF Rearms, RearmLabels, DrLabels
  <2>3. \A v : ThrRcv(v)' = {s \in Workers : Rearms(th'[s], v)}
    BY DEF ThrRcv, Rearms
  <2>. QED BY <1>7, <1>10, <2>1, <2>2, <2>3 DEF ThrRcv, NoneYet
<1>13. \A v \in Units : Linked(v)' => Linked(v) /\ v # u
  <2>1. \A v \in Units : Que(v)' = Que(v)
    BY <1>2, SameQue
  <2>2. \A v \in Units : \A t \in Threads : Opens(th'[t], v) => Opens(th[t], v) /\ v # u
    BY <1>4, <1>6, <1>11 DEF Others, Works
  <2>. QED BY <1>2, <1>4, <2>1, <2>2 DEF Linked, Opens, Opener
<1>14. ASSUME NEW v \in Units PROVE RecieveAt(v)'
  <2>0. RecieveAt(v)
    BY DEF RecieveInv
  <2>1. OneToken(v)'
    BY <1>7, <1>9, <1>12, <2>0 DEF RecieveAt, OneToken, NoneYet
  <2>2. sock'[v] = "fresh" => NoneYet(v)'
    BY <1>2, <1>4, <1>9, <1>12, <2>0 DEF RecieveAt, NoneYet
  <2>3. Linked(v)' => NoneYet(v)' /\ KernRcv(v)' = {}
    BY <1>9, <1>12, <1>13, <2>0 DEF RecieveAt, NoneYet
  <2>4. \A i \in Ending(v)' : sock'[v] # "linked" /\ \A k \in QueRcv(v)' : k < i
    BY <1>2, <1>9, <2>0 DEF RecieveAt
  <2>5. \A s \in Threads : /\ Closes(th'[s], v) /\ th'[s].pc # "drShut" => sock'[v] # "linked"
                           /\ Leaves(th'[s], v) => QueRcv(v)' = {}
    BY <1>2, <1>6, <1>9, <1>11, <2>0 DEF RecieveAt, Others
  <2>6. \A s \in Threads : /\ (Closes(th[s], v) /\ th[s].pc # "drShut" => sock[v] # "linked")'
                           /\ (Leaves(th[s], v) => QueRcv(v) = {})'
    BY <2>5 DEF Closes, Leaves
  <2>. QED BY <2>1, <2>2, <2>3, <2>4, <2>6 DEF RecieveAt
<1>. QED BY <1>2, <1>14 DEF RecieveInv

\* The worker that asks for data had the only receive in hand.
LEMMA AsyncRecieveRecieve ==
  ASSUME OneWorker, NetInv, LifeInv, RecieveInv, NEW w \in Workers, AsyncRecieve(w) PROVE RecieveInv'
<1> DEFINE u == th[w].unit
<1>1. /\ UNCHANGED <<sock, loose, session, iocp>> /\ w \in Threads /\ th[w].pc = "wsarecv" /\ u \in Units
  BY WorkerAt DEF AsyncRecieve, At, Fits, UnitsKnown, DrLabels, sockVars
<1>2. CASE AsyncResult(u) = "error"
  <2>1. RequestDisconnect(w, u, "idle") /\ inflight' = inflight
    BY <1>2 DEF AsyncRecieve
  <2>. QED BY <1>1, <2>1, OnwardsRequest
<1>3. CASE AsyncResult(u) = "lost"
  <2>1. Finish(w) /\ inflight' = inflight
    BY <1>3 DEF AsyncRecieve
  <2>. QED BY <1>1, <2>1, OnwardsIdle
<1>4. CASE AsyncResult(u) \notin {"error", "lost"}
  <2>1. Finish(w) /\ Issue(u, "RECIEVE", NoOv)
    BY <1>4 DEF AsyncRecieve
  <2>2. Others(w) /\ th'[w].pc = "idle"
    BY <1>1, <2>1, Goes
  <2>3. PICK f : /\ inflight' = inflight \cup {f}
                 /\ f.unit = u /\ f.op = "RECIEVE" /\ f.sess = session[u]
    <3> DEFINE f == [op |-> "RECIEVE", unit |-> u, ov |-> NoOv, sess |-> session[u],
                     tag |-> FreeTag(u, "RECIEVE")]
    <3>1. inflight' = inflight \cup {f} /\ f.unit = u /\ f.op = "RECIEVE" /\ f.sess = session[u]
      BY <2>1 DEF Issue
    <3>. QED BY <3>1
  <2>4. w \in ThrRcv(u)
    BY <1>1 DEF ThrRcv, Rearms, RearmLabels
  <2>5. KernRcv(u) = {} /\ QueRcv(u) = {} /\ sock[u] # "fresh" /\ ~Linked(u)
    BY <1>1, <2>4 DEF RecieveInv, RecieveAt, OneToken, NoneYet
  <2>6. \A v \in Units : /\ KernRcv(v)' = IF v = u THEN {f} ELSE KernRcv(v)
                         /\ QueRcv(v)' = QueRcv(v) /\ Ending(v)' = Ending(v)
    BY <1>1, <2>3, <2>5 DEF KernRcv, QueRcv, Ending
  <2>7. \A v : ~Works(th'[w], v) /\ ~Opens(th'[w], v) /\ ~Closes(th'[w], v) /\ ~Leaves(th'[w], v)
    BY <2>2, NoStage, StagelessLabels DEF Works, Leaves
  <2>8. \A v \in Units : ThrRcv(v)' = {}
    <3>1. \A s \in Workers, v \in Units : ~Rearms(th'[s], v)
      BY <2>2 DEF Rearms, RearmLabels, DrLabels, OneWorker
    <3>. QED BY <3>1 DEF ThrRcv, Rearms
  <2>9. \A v \in Units : Linked(v)' => Linked(v)
    BY <1>1, <2>2, <2>7, SameQue DEF Linked, Others, Opens, Opener
  <2> HIDE DEF u
  <2>10. ASSUME NEW v \in Units PROVE RecieveAt(v)'
    <3>0. RecieveAt(v)
      BY DEF RecieveInv
    <3>1. OneToken(v)'
      BY <2>5, <2>6, <2>8, <3>0 DEF RecieveAt, OneToken
    <3>2. sock'[v] = "fresh" => NoneYet(v)'
      BY <1>1, <2>6, <2>8, <3>0 DEF RecieveAt, NoneYet
    <3>3. Linked(v)' => NoneYet(v)' /\ KernRcv(v)' = {}
      BY <2>5, <2>6, <2>8, <2>9, <3>0 DEF RecieveAt, NoneYet
    <3>4. \A i \in Ending(v)' : sock'[v] # "linked" /\ \A k \in QueRcv(v)' : k < i
      BY <1>1, <2>6, <3>0 DEF RecieveAt
    <3>5. \A s \in Threads : /\ Closes(th'[s], v) /\ th'[s].pc # "drShut" => sock'[v] # "linked"
                             /\ Leaves(th'[s], v) => QueRcv(v)' = {}
      BY <1>1, <2>2, <2>6, <2>7, <3>0 DEF RecieveAt, Others
    <3>6. \A s \in Threads : /\ (Closes(th[s], v) /\ th[s].pc # "drShut" => sock[v] # "linked")'
                             /\ (Leaves(th[s], v) => QueRcv(v) = {})'
      BY <3>5 DEF Closes, Leaves
    <3>. QED BY <3>1, <3>2, <3>3, <3>4, <3>6 DEF RecieveAt
  <2>11. session[u] <= session[u]
    BY <1>1 DEF NetInv, SharedOK, WinTypeOK
  <2>. QED BY <1>1, <2>3, <2>10, <2>11 DEF RecieveInv
<1>. QED BY <1>2, <1>3, <1>4

\* A thread on its way through DisconnectRequest.
LEMMA ResumeRearms ==
  ASSUME NetInv, NEW t \in Threads, th[t].pc \in DrLabels, Resume(t)
  PROVE  \A u : Rearms(th'[t], u) => Rearms(th[t], u)
<1>1. CASE th[t].dret = "idle"
  <2>1. th'[t].pc = "idle"
    BY <1>1, Goes DEF Resume
  <2>. QED BY <2>1 DEF Rearms, RearmLabels, DrLabels
<1>2. CASE th[t].dret # "idle"
  <2>1. th[t] \in Thread /\ th[t].dret = "send"
    BY <1>2, ThreadAt DEF Thread
  <2> DEFINE job == [th[t] EXCEPT !.pc = th[t].dret, !.tgt = NoUnit, !.ov = NoOv, !.dret = "idle"]
  <2>2. job.unit = th[t].unit
    BY <2>1 DEF Thread
  <2>3. Go(t, job)
    BY <1>2 DEF Resume, Back
  <2> HIDE DEF job
  <2>4. th'[t].unit = th[t].unit
    BY <2>2, <2>3, Goes
  <2>. QED BY <2>1, <2>4 DEF Rearms
<1>. QED BY <1>1, <1>2

LEMMA TakesDownRecieve ==
  ASSUME NetInv, LifeInv, RecieveInv, NEW t \in Threads, th[t].pc \in {"dr"} \cup TakingDown,
         NEW l \in TakingDown, Step(t, l), UNCHANGED <<session, iocp, inflight>>,
         \A u \in Units : /\ sock'[u] = "fresh" => sock[u] = "fresh"
                          /\ sock'[u] = "linked" => sock[u] = "linked",
         l # "drShut" => sock'[th[t].tgt] # "linked"
  PROVE  RecieveInv'
<1>1. /\ Others(t) /\ th'[t].pc = l /\ th'[t].unit = th[t].unit
      /\ th'[t].tgt = th[t].tgt /\ th'[t].dret = th[t].dret
  BY Carries
<1>2. \A u \in Units : Rearms(th'[t], u) => Rearms(th[t], u)
  BY <1>1 DEF Rearms, RearmLabels, DrLabels, TakingDown
<1>3. \A u \in Units : /\ ~Opens(th'[t], u) /\ ~Leaves(th'[t], u)
                       /\ Closes(th'[t], u) => u = th[t].tgt
  BY <1>1 DEF Opens, Closes, Leaves, OpeningLabels, ClosingLabels, AcceptingLabels, TakingDown
<1>. QED BY <1>1, <1>2, <1>3, Onwards

\* The packet goes behind the receives that are in the queue.
LEMMA PostDisconnectRecieve ==
  ASSUME NetInv, LifeInv, RecieveInv, NEW t \in Threads, PostDisconnect(t) PROVE RecieveInv'
<1> DEFINE u == th[t].tgt
           n == Len(iocp) + 1
<1>1. th[t].pc = "drPost" /\ th[t].pc \in TakingDown /\ th[t].pc \in DrLabels
  BY DEF PostDisconnect, At, TakingDown, DrLabels
<1>2. UNCHANGED <<sock, loose, session, inflight>> /\ Resume(t)
  BY DEF PostDisconnect, sockVars
<1>3. u \in Units /\ sock[u] # "linked"
  BY <1>1, AtTakingDown DEF RecieveInv, RecieveAt
<1>4. /\ \A i \in 1..Len(iocp') : i = n \/ i \in 1..Len(iocp)
      /\ \A i \in 1..Len(iocp) : i \in 1..Len(iocp') /\ i # n /\ iocp'[i] = iocp[i]
      /\ n \in 1..Len(iocp') /\ Len(iocp) \in Nat
      /\ iocp'[n].op = "DISCONNECT" /\ iocp'[n].unit = u
  <2>1. PICK o \in Ovs : iocp' = Append(iocp, [op |-> "DISCONNECT", unit |-> u, ov |-> o,
                                               sess |-> session[u], ok |-> TRUE, bytes |-> 0])
    BY DEF PostDisconnect
  <2>. QED BY <2>1, Appended
<1>5. \A v : \A k \in QueRcv(v) : k \in 1..Len(iocp) /\ k < n
  BY <1>4 DEF QueRcv
<1> HIDE DEF n
<1>6. /\ Others(t)
      /\ \A v : ~Opens(th'[t], v) /\ ~Closes(th'[t], v) /\ ~Leaves(th'[t], v)
  BY <1>1, <1>2, ResumeGoes DEF Leaves
<1> HIDE DEF u
<1>7. \A v \in Units : /\ KernRcv(v)' = KernRcv(v) /\ QueRcv(v)' = QueRcv(v)
                       /\ Ending(v)' = IF v = u THEN Ending(v) \cup {n} ELSE Ending(v)
  BY <1>2, <1>4 DEF KernRcv, QueRcv, Ending
<1>8. \A v \in Units : ThrRcv(v)' \subseteq ThrRcv(v)
  <2>1. \A s \in Workers, v \in Units : Rearms(th'[s], v) => Rearms(th[s], v)
    BY <1>1, <1>2, <1>6, ResumeRearms DEF Others, Threads
  <2>. QED BY <2>1 DEF ThrRcv, Rearms
<1>9. \A v \in Units : Linked(v)' => Linked(v)
  BY <1>4, <1>6 DEF Linked, Que, Brings, Others, Opens, Opener
<1>10. ASSUME NEW v \in Units PROVE RecieveAt(v)'
  <2>0. RecieveAt(v)
    BY DEF RecieveInv
  <2>1. OneToken(v)'
    BY <1>7, <1>8, <2>0 DEF RecieveAt, OneToken
  <2>2. sock'[v] = "fresh" => NoneYet(v)'
    BY <1>2, <1>7, <1>8, <2>0 DEF RecieveAt, NoneYet
  <2>3. Linked(v)' => NoneYet(v)' /\ KernRcv(v)' = {}
    BY <1>7, <1>8, <1>9, <2>0 DEF RecieveAt, NoneYet
  <2>4. \A i \in Ending(v)' : sock'[v] # "linked" /\ \A k \in QueRcv(v)' : k < i
    BY <1>2, <1>3, <1>5, <1>7, <2>0 DEF RecieveAt
  <2>5. \A s \in Threads : /\ Closes(th'[s], v) /\ th'[s].pc # "drShut" => sock'[v] # "linked"
                           /\ Leaves(th'[s], v) => QueRcv(v)' = {}
    BY <1>2, <1>6, <1>7, <2>0 DEF RecieveAt, Others
  <2>6. \A s \in Threads : /\ (Closes(th[s], v) /\ th[s].pc # "drShut" => sock[v] # "linked")'
                           /\ (Leaves(th[s], v) => QueRcv(v) = {})'
    BY <2>5 DEF Closes, Leaves
  <2>. QED BY <2>1, <2>2, <2>3, <2>4, <2>6 DEF RecieveAt
<1>. QED BY <1>2, <1>10 DEF RecieveInv

LEMMA DisconnectingRecieve ==
  ASSUME NetInv, LifeInv, RecieveInv, NEW t \in Threads, Disconnecting(t) PROVE RecieveInv'
<1>0. th[t].pc \in {"dr"} \cup TakingDown /\ th[t].tgt \in Units
  BY ThreadAt DEF Disconnecting, DisconnectRequest, ShutDownSocket, CloseOrDisable, PostDisconnect,
                  At, TakingDown, Fits, UnitsKnown, DrLabels
<1>1. CASE DisconnectRequest(t)
  <2>0. UNCHANGED <<sock, loose, session, iocp, inflight>> /\ th[t].pc \in DrLabels
    BY <1>1 DEF DisconnectRequest, winVars, sockVars, At, DrLabels
  <2>1. CASE Step(t, "drShut")
    BY <1>0, <2>0, <2>1, TakesDownRecieve DEF TakingDown
  <2>2. CASE Resume(t)
    <3>1. Others(t) /\ th'[t].pc \in {"idle", "send"}
      BY <2>0, <2>2, ResumeGoes
    <3>. QED BY <2>0, <2>2, <3>1, ResumeRearms, OnwardsQuiet, StagelessLabels
  <2>. QED BY <1>1, <2>1, <2>2 DEF DisconnectRequest
<1>2. CASE ShutDownSocket(t)
  <2>1. UNCHANGED <<session, iocp, inflight>> /\ Step(t, "drOff")
    BY <1>2 DEF ShutDownSocket
  <2>2. /\ \A u \in Units : /\ sock'[u] = "fresh" => sock[u] = "fresh"
                            /\ sock'[u] = "linked" => sock[u] = "linked"
        /\ sock'[th[t].tgt] # "linked"
    BY <1>0, <1>2 DEF ShutDownSocket, ShutDown, NetInv, SharedOK, WinTypeOK
  <2>. QED BY <1>0, <2>1, <2>2, TakesDownRecieve DEF TakingDown
<1>3. CASE CloseOrDisable(t)
  <2>1. UNCHANGED <<session, iocp, inflight>> /\ Step(t, "drPost") /\ th[t].pc = "drOff"
    BY <1>3 DEF CloseOrDisable, At
  <2>2. sock[th[t].tgt] # "linked"
    BY <1>0, <2>1, AtTakingDown DEF RecieveInv, RecieveAt, TakingDown
  <2>3. /\ \A u \in Units : /\ sock'[u] = "fresh" => sock[u] = "fresh"
                            /\ sock'[u] = "linked" => sock[u] = "linked"
        /\ sock'[th[t].tgt] # "linked"
    BY <1>0, <1>3, <2>2 DEF CloseOrDisable, Close, NetInv, SharedOK, WinTypeOK
  <2>. QED BY <1>0, <2>1, <2>3, TakesDownRecieve DEF TakingDown
<1>. QED BY <1>1, <1>2, <1>3, PostDisconnectRecieve DEF Disconnecting

\* The packet that takes the unit down finds no receive ahead of it.
LEMMA DequeueRecieve == ASSUME NetInv, LifeInv, RecieveInv, NEW w \in Workers, Dequeue(w) PROVE RecieveInv'
<1>0. w \in Threads /\ th[w].pc = "idle" /\ iocp # << >>
  BY WorkerAt DEF Dequeue, At
<1>1. /\ Len(iocp) \in Nat /\ 1 \in 1..Len(iocp)
      /\ Head(iocp) = iocp[1]
      /\ Len(iocp') = Len(iocp) - 1
      /\ \A i \in 1..Len(iocp') : i + 1 \in 1..Len(iocp) /\ i + 1 # 1 /\ iocp'[i] = iocp[i + 1]
  BY <1>0 DEF Dequeue, NetInv, SharedOK, WinTypeOK
<1>2. UNCHANGED <<sock, loose, session, inflight>>
  BY DEF Dequeue, sockVars
<1> DEFINE p == iocp[1]
           job == [Idle EXCEPT !.pc = IF p.ok THEN "decode" ELSE "failed", !.op = p.op,
                               !.unit = p.unit, !.bytes = p.bytes, !.ov = p.ov]
<1>3. job.pc = (IF p.ok THEN "decode" ELSE "failed") /\ job.op = p.op /\ job.unit = p.unit
  BY DEF Idle
<1>4. Go(w, job)
  BY <1>1 DEF Dequeue
<1> HIDE DEF job
<1>5. th'[w] = job /\ Others(w)
  BY <1>0, <1>4, Goes
<1>6. \A v \in Units : KernRcv(v)' = KernRcv(v)
  BY <1>2 DEF KernRcv
<1>7. \A v \in Units : /\ \A i \in QueRcv(v)' : i \in 1..Len(iocp') /\ i + 1 \in QueRcv(v)
                       /\ \A i \in Ending(v)' : i \in 1..Len(iocp') /\ i + 1 \in Ending(v)
                       /\ \A i \in Que(v)' : i + 1 \in Que(v) /\ iocp'[i] = iocp[i + 1]
  BY <1>1 DEF QueRcv, Ending, Que, Brings, Opener
<1>8. \A v \in Units : Rearms(job, v) <=> 1 \in QueRcv(v)
  BY <1>1, <1>3 DEF Rearms, RearmLabels, DrLabels, QueRcv
<1>9. \A v \in Units : Opens(job, v) => 1 \in Que(v) /\ iocp[1].op # "DISCONNECT"
  BY <1>1, <1>3 DEF Opens, Que, Brings, Opener, OpeningLabels
<1>10. \A v \in Units : Closes(job, v) => 1 \in Ending(v)
  BY <1>1, <1>3 DEF Closes, Ending, TakingDown
<1>11. \A v \in Units, s \in Workers : s \in ThrRcv(v)' <=> IF s = w THEN 1 \in QueRcv(v) ELSE s \in ThrRcv(v)
  <2>1. \A v \in Units, s \in Workers : s # w => (Rearms(th'[s], v) <=> Rearms(th[s], v))
    BY <1>5 DEF Others, Threads
  <2>2. \A v : ThrRcv(v)' = {s \in Workers : Rearms(th'[s], v)}
    BY DEF ThrRcv, Rearms
  <2>. QED BY <1>5, <1>8, <2>1, <2>2 DEF ThrRcv
<1>12. \A v \in Units : Linked(v)' => Linked(v)
  <2>1. \A v \in Units, s \in Threads : Opens(th'[s], v) => Opens(th[s], v) \/ (1 \in Que(v) /\ iocp[1].op # "DISCONNECT")
    BY <1>5, <1>9 DEF Others
  <2>. QED BY <1>7, <2>1 DEF Linked, Opens, Opener
<1>13. ASSUME NEW v \in Units PROVE RecieveAt(v)'
  <2>0. RecieveAt(v)
    BY DEF RecieveInv
  <2>1. \A i, j \in QueRcv(v)' : i = j
    <3>1. ASSUME NEW i \in QueRcv(v)', NEW j \in QueRcv(v)' PROVE i = j
      <4>1. i \in 1..Len(iocp') /\ j \in 1..Len(iocp') /\ i + 1 = j + 1
        BY <1>7, <2>0 DEF RecieveAt, OneToken
      <4>. QED BY <1>1, <4>1
    <3>. QED BY <3>1
  <2>2. 1 \in QueRcv(v) => QueRcv(v)' = {}
    <3>1. ASSUME 1 \in QueRcv(v), NEW i \in QueRcv(v)' PROVE FALSE
      <4>1. i \in 1..Len(iocp') /\ i + 1 = 1
        BY <1>7, <2>0, <3>1 DEF RecieveAt, OneToken
      <4>. QED BY <1>1, <4>1
    <3>. QED BY <3>1
  <2>3. QueRcv(v) = {} => QueRcv(v)' = {}
    BY <1>7
  <2>4. /\ ThrRcv(v)' # {} => ThrRcv(v) # {} \/ 1 \in QueRcv(v)
        /\ ThrRcv(v) \subseteq Workers /\ ThrRcv(v)' \subseteq Workers
    BY <1>11 DEF ThrRcv
  <2>5. OneToken(v)'
    BY <1>6, <2>0, <2>1, <2>2, <2>3, <2>4 DEF RecieveAt, OneToken
  <2>6. sock'[v] = "fresh" => NoneYet(v)'
    BY <1>2, <2>0, <2>3, <2>4 DEF RecieveAt, NoneYet
  <2>7. Linked(v)' => NoneYet(v)' /\ KernRcv(v)' = {}
    BY <1>6, <1>12, <2>0, <2>3, <2>4 DEF RecieveAt, NoneYet
  <2>8. \A i \in Ending(v)' : sock'[v] # "linked" /\ \A k \in QueRcv(v)' : k < i
    <3>1. ASSUME NEW i \in Ending(v)' PROVE sock'[v] # "linked" /\ \A k \in QueRcv(v)' : k < i
      <4>1. sock[v] # "linked" /\ \A k \in QueRcv(v) : k < i + 1
        BY <1>7, <2>0, <3>1 DEF RecieveAt
      <4>2. \A k \in QueRcv(v)' : k \in 1..Len(iocp') /\ k + 1 < i + 1 /\ i \in 1..Len(iocp')
        BY <1>7, <3>1, <4>1
      <4>. QED BY <1>1, <1>2, <4>1, <4>2
    <3>. QED BY <3>1
  <2>9. 1 \in Ending(v) => sock[v] # "linked" /\ QueRcv(v)' = {}
    <3>1. ASSUME 1 \in Ending(v), NEW k \in QueRcv(v)' PROVE FALSE
      <4>1. k \in 1..Len(iocp') /\ k + 1 < 1
        BY <1>7, <2>0, <3>1 DEF RecieveAt
      <4>. QED BY <1>1, <4>1
    <3>. QED BY <2>0, <3>1 DEF RecieveAt
  <2>10. ASSUME NEW s \in Threads
         PROVE  /\ Closes(th'[s], v) /\ th'[s].pc # "drShut" => sock'[v] # "linked"
                /\ Leaves(th'[s], v) => QueRcv(v)' = {}
    <3>1. CASE s = w
      BY <1>2, <1>5, <1>10, <2>9, <3>1 DEF Leaves
    <3>2. CASE s # w
      BY <1>2, <1>5, <2>0, <2>3, <3>2 DEF RecieveAt, Others
    <3>. QED BY <3>1, <3>2
  <2>11. \A s \in Threads : /\ (Closes(th[s], v) /\ th[s].pc # "drShut" => sock[v] # "linked")'
                            /\ (Leaves(th[s], v) => QueRcv(v) = {})'
    BY <2>10 DEF Closes, Leaves
  <2>. QED BY <2>5, <2>6, <2>7, <2>8, <2>11 DEF RecieveAt
<1>. QED BY <1>2, <1>13 DEF RecieveInv

\* The AutoConnector serves no unit.
LEMMA ConnectorRecieve ==
  ASSUME NetInv, LifeInv, RecieveInv, AutoConnect
  PROVE  RecieveInv'
<1>0. Connector \in Threads
  BY DEF Threads
<1>1. ASSUME NEW u \in ConnectUnits, CheckActive(u) PROVE RecieveInv'
  <2>1. UNCHANGED <<sock, loose, session, iocp, inflight>>
    BY <1>1 DEF CheckActive, winVars, sockVars
  <2>2. Others(Connector) /\ th'[Connector].pc = "isconnected"
    BY <1>0, <1>1, LocalsAre DEF CheckActive, Go, Others, Thread, NetInv, JobsOK
  <2>3. \A v \in Units : ~Rearms(th'[Connector], v)
    BY <2>2 DEF Rearms, RearmLabels, DrLabels
  <2>. QED BY <1>0, <2>1, <2>2, <2>3, OnwardsQuiet, StagelessLabels
<1>2. ASSUME NEW u \in ConnectUnits, TryConnect(u) PROVE RecieveInv'
  <2>1. UNCHANGED <<sock, session, iocp, inflight>>
    BY <1>2 DEF TryConnect, winVars, sockVars
  <2>2. Others(Connector) /\ th'[Connector].pc = "connectex"
    BY <1>0, <1>2, LocalsAre DEF TryConnect, Go, Others, Thread, NetInv, JobsOK
  <2>3. \A v \in Units : ~Rearms(th'[Connector], v)
    BY <2>2 DEF Rearms, RearmLabels, DrLabels
  <2>. QED BY <1>0, <2>1, <2>2, <2>3, OnwardsQuiet, StagelessLabels
<1>3. CASE AsyncConnect
  <2>1. /\ UNCHANGED <<sock, session, iocp>> /\ Finish(Connector)
        /\ \A f \in inflight' : f \in inflight \/ f.op # "RECIEVE"
    BY <1>3 DEF AsyncConnect, sockVars, Issue
  <2>. QED BY <1>0, <2>1, OnwardsIdle
<1>4. CASE CheckConnected
  <2>1. UNCHANGED <<sock, loose, session, iocp, inflight>>
    BY <1>4 DEF CheckConnected, winVars, sockVars
  <2>. QED BY <1>0, <1>4, <2>1, OnwardsIdle, OnwardsRequest DEF CheckConnected
<1>. QED BY <1>0, <1>1, <1>2, <1>3, <1>4, DisconnectingRecieve DEF AutoConnect

\* Nothing of what RecieveInv speaks of changes.
LEMMA SameRecieve ==
  ASSUME RecieveInv, UNCHANGED <<sock, session, inflight, iocp, th>>
  PROVE  RecieveInv'
BY DEF RecieveInv, RecieveAt, OneToken, NoneYet, Linked, Ending, Leaves, KernRcv, QueRcv, ThrRcv, Rearms,
       Que, Brings, Opens, Closes, Opener

LEMMA SameThrRcv == ASSUME UNCHANGED th PROVE \A u : ThrRcv(u)' = ThrRcv(u)
BY DEF ThrRcv, Rearms

\* What nobody hears of only leaves the kernel.
LEMMA UnheardRecieve ==
  ASSUME RecieveInv, NEW f \in inflight, NEW ok, NEW bytes, Complete(f, ok, bytes), ~Heard(f),
         UNCHANGED <<sock, session, th>>
  PROVE  RecieveInv'
<1>1. iocp' = iocp /\ inflight' = inflight \ {f}
  BY DEF Complete
<1>2. \A u \in Units : /\ KernRcv(u)' \subseteq KernRcv(u) /\ QueRcv(u)' = QueRcv(u)
                       /\ ThrRcv(u)' = ThrRcv(u) /\ Ending(u)' = Ending(u)
  BY <1>1, SameThrRcv DEF KernRcv, QueRcv, Ending
<1>3. \A u \in Units : Linked(u)' <=> Linked(u)
  BY <1>1 DEF Linked, Que, Brings, Opens, Opener
<1>4. ASSUME NEW u \in Units PROVE RecieveAt(u)'
  <2>0. RecieveAt(u)
    BY DEF RecieveInv
  <2>1. OneToken(u)'
    BY <1>2, <2>0 DEF RecieveAt, OneToken
  <2>2. sock'[u] = "fresh" => NoneYet(u)'
    BY <1>2, <2>0 DEF RecieveAt, NoneYet
  <2>3. Linked(u)' => NoneYet(u)' /\ KernRcv(u)' = {}
    BY <1>2, <1>3, <2>0 DEF RecieveAt, NoneYet
  <2>4. \A i \in Ending(u)' : sock'[u] # "linked" /\ \A k \in QueRcv(u)' : k < i
    BY <1>2, <2>0 DEF RecieveAt
  <2>5. \A s \in Threads : /\ (Closes(th[s], u) /\ th[s].pc # "drShut" => sock[u] # "linked")'
                           /\ (Leaves(th[s], u) => QueRcv(u) = {})'
    BY <1>2, <2>0 DEF RecieveAt, Closes, Leaves
  <2>. QED BY <2>1, <2>2, <2>3, <2>4, <2>5 DEF RecieveAt
<1>. QED BY <1>1, <1>4 DEF RecieveInv

\* A receive that completes was the unit's only one; its socket is linked.
LEMMA RecieveCompletesRecieve ==
  ASSUME NetInv, LifeInv, RecieveInv, NEW f \in inflight, RecieveCompletes(f), Heard(f),
         UNCHANGED <<active, th>>
  PROVE  RecieveInv'
<1> DEFINE u == f.unit
<1>1. /\ u \in Units /\ f.op = "RECIEVE" /\ f.sess = session[u] /\ sock[u] = "linked"
      /\ UNCHANGED <<sock, loose, session>>
  BY Objects DEF InFlight, RecieveCompletes, Alive, sockVars
<1>2. PICK bytes : Complete(f, TRUE, bytes)
  BY DEF RecieveCompletes
<1>3. PICK n \in 1..Len(iocp') :
           /\ \A i \in 1..Len(iocp') : i = n \/ i \in 1..Len(iocp)
           /\ \A i \in 1..Len(iocp) : i \in 1..Len(iocp') /\ i # n /\ iocp'[i] = iocp[i]
           /\ iocp'[n].op = f.op /\ iocp'[n].unit = f.unit
           /\ iocp'[n].ok = TRUE /\ iocp'[n].bytes = bytes
           /\ \A v \in Units : Que(v)' = IF Brings(iocp'[n], v) THEN Que(v) \cup {n} ELSE Que(v)
           /\ \A v \in Units : Kern(v)' = Kern(v) \ {f}
  BY <1>2, Completed
<1>4. inflight' = inflight \ {f}
  BY <1>2 DEF Complete
<1>5. f \in KernRcv(u)
  BY <1>1 DEF KernRcv
<1>6. /\ QueRcv(u) = {} /\ ThrRcv(u) = {} /\ ~Linked(u) /\ Ending(u) = {}
      /\ \A s \in Threads : Closes(th[s], u) => th[s].pc = "drShut"
  BY <1>1, <1>5 DEF RecieveInv, RecieveAt, OneToken
<1>7. \A v \in Units : /\ KernRcv(v)' = IF v = u THEN {} ELSE KernRcv(v)
                       /\ QueRcv(v)' = IF v = u THEN {n} ELSE QueRcv(v)
                       /\ ThrRcv(v)' = ThrRcv(v)
                       /\ Ending(v)' = Ending(v)
  <2>1. KernRcv(u)' = {}
    BY <1>1, <1>4, <1>5 DEF KernRcv, RecieveInv, RecieveAt, OneToken
  <2>2. QueRcv(u)' = {n}
    BY <1>1, <1>3, <1>6 DEF QueRcv
  <2>3. \A v \in Units \ {u} : KernRcv(v)' = KernRcv(v) /\ QueRcv(v)' = QueRcv(v)
    BY <1>1, <1>3, <1>4 DEF KernRcv, QueRcv
  <2>4. \A v \in Units : Ending(v)' = Ending(v)
    BY <1>1, <1>3 DEF Ending
  <2>. QED BY <2>1, <2>2, <2>3, <2>4, SameThrRcv
<1>8. \A v \in Units : Linked(v)' => Linked(v)
  <2>1. \A v \in Units : ~Brings(iocp'[n], v)
    BY <1>1, <1>3 DEF Brings, Opener
  <2>2. \A v \in Units : \A i \in Que(v)' : i \in Que(v) /\ iocp'[i] = iocp[i]
    BY <1>3, <2>1 DEF Que
  <2>. QED BY <2>2 DEF Linked, Opens, Opener
<1>9. \A s \in Threads : ~Leaves(th[s], u)
  BY <1>6 DEF Leaves, TakingDown
<1> HIDE DEF u
<1>10. ASSUME NEW v \in Units PROVE RecieveAt(v)'
  <2>0. RecieveAt(v)
    BY DEF RecieveInv
  <2>1. OneToken(v)'
    BY <1>6, <1>7, <2>0 DEF RecieveAt, OneToken
  <2>2. sock'[v] = "fresh" => NoneYet(v)'
    BY <1>1, <1>7, <2>0 DEF RecieveAt, NoneYet
  <2>3. Linked(v)' => NoneYet(v)' /\ KernRcv(v)' = {}
    BY <1>6, <1>7, <1>8, <2>0 DEF RecieveAt, NoneYet
  <2>4. \A i \in Ending(v)' : sock'[v] # "linked" /\ \A k \in QueRcv(v)' : k < i
    BY <1>1, <1>6, <1>7, <2>0 DEF RecieveAt
  <2>5. \A s \in Threads : /\ Closes(th[s], v) /\ th[s].pc # "drShut" => sock'[v] # "linked"
                           /\ Leaves(th[s], v) => QueRcv(v)' = {}
    BY <1>1, <1>7, <1>9, <2>0 DEF RecieveAt
  <2>6. \A s \in Threads : /\ (Closes(th[s], v) /\ th[s].pc # "drShut" => sock[v] # "linked")'
                           /\ (Leaves(th[s], v) => QueRcv(v) = {})'
    BY <2>5 DEF Closes, Leaves
  <2>. QED BY <2>1, <2>2, <2>3, <2>4, <2>6 DEF RecieveAt
<1>. QED BY <1>1, <1>4, <1>10 DEF RecieveInv

\* Nothing else that completes leaves data to be taken.
LEMMA OtherCompletesRecieve ==
  ASSUME NetInv, LifeInv, RecieveInv, NEW f \in inflight, NEW ok, NEW bytes, Complete(f, ok, bytes),
         ok => f.op = "SEND", f.op # "DISCONNECT",
         ok \in BOOLEAN, Heard(f), UNCHANGED <<sock, loose, session, active, th>>
  PROVE  RecieveInv'
<1>1. PICK n \in 1..Len(iocp') :
           /\ \A i \in 1..Len(iocp') : i = n \/ i \in 1..Len(iocp)
           /\ \A i \in 1..Len(iocp) : i \in 1..Len(iocp') /\ i # n /\ iocp'[i] = iocp[i]
           /\ iocp'[n].op = f.op /\ iocp'[n].unit = f.unit /\ iocp'[n].ok = ok
           /\ \A v \in Units : Que(v)' = IF Brings(iocp'[n], v) THEN Que(v) \cup {n} ELSE Que(v)
  BY Completed
<1>2. inflight' = inflight \ {f}
  BY DEF Complete
<1>3. \A v \in Units : /\ KernRcv(v)' \subseteq KernRcv(v) /\ QueRcv(v)' = QueRcv(v)
                       /\ ThrRcv(v)' = ThrRcv(v) /\ Ending(v)' = Ending(v)
  <2>1. \A v \in Units : KernRcv(v)' \subseteq KernRcv(v)
    BY <1>2 DEF KernRcv
  <2>2. \A v \in Units : QueRcv(v)' = QueRcv(v)
    BY <1>1 DEF QueRcv
  <2>3. \A v \in Units : Ending(v)' = Ending(v)
    BY <1>1 DEF Ending
  <2>. QED BY <2>1, <2>2, <2>3, SameThrRcv
<1>4. \A v \in Units : Linked(v)' => Linked(v)
  <2>1. \A v \in Units : ~Brings(iocp'[n], v)
    BY <1>1 DEF Brings, Opener
  <2>2. \A v \in Units : \A i \in Que(v)' : i \in Que(v) /\ iocp'[i] = iocp[i]
    BY <1>1, <2>1 DEF Que
  <2>. QED BY <2>2 DEF Linked, Opens, Opener
<1>5. ASSUME NEW v \in Units PROVE RecieveAt(v)'
  <2>0. RecieveAt(v)
    BY DEF RecieveInv
  <2>1. OneToken(v)'
    BY <1>3, <2>0 DEF RecieveAt, OneToken
  <2>2. sock'[v] = "fresh" => NoneYet(v)'
    BY <1>3, <2>0 DEF RecieveAt, NoneYet
  <2>3. Linked(v)' => NoneYet(v)' /\ KernRcv(v)' = {}
    BY <1>3, <1>4, <2>0 DEF RecieveAt, NoneYet
  <2>4. \A i \in Ending(v)' : sock'[v] # "linked" /\ \A k \in QueRcv(v)' : k < i
    BY <1>3, <2>0 DEF RecieveAt
  <2>5. \A s \in Threads : /\ (Closes(th[s], v) /\ th[s].pc # "drShut" => sock[v] # "linked")'
                           /\ (Leaves(th[s], v) => QueRcv(v) = {})'
    BY <1>3, <2>0 DEF RecieveAt, Closes, Leaves
  <2>. QED BY <2>1, <2>2, <2>3, <2>4, <2>5 DEF RecieveAt
<1>. QED BY <1>2, <1>5 DEF RecieveInv

\* A new connection begins without a receive.
LEMMA EstablishRecieve ==
  ASSUME NetInv, LifeInv, RecieveInv, NEW f \in inflight, Establish(f), UNCHANGED <<active, th>>
  PROVE  RecieveInv'
<1> DEFINE u == f.unit
<1>1. f.op \in {"ACCEPT", "CONNECT"} /\ Complete(f, TRUE, 0)
  BY DEF Establish
<1>2. u \in Units /\ Que(u) = {} /\ Thr(u) = {} /\ sock[u] = "fresh"
  BY <1>1, AtKernel DEF Alive
<1>3. /\ \A v \in Units : QueRcv(v)' = QueRcv(v) /\ Ending(v)' = Ending(v)
      /\ \A v \in Units \ {u} : Linked(v)' => Linked(v)
  <2>1. CASE Heard(f)
    <3>1. PICK n \in 1..Len(iocp') :
             /\ \A i \in 1..Len(iocp') : i = n \/ i \in 1..Len(iocp)
             /\ \A i \in 1..Len(iocp) : i \in 1..Len(iocp') /\ i # n /\ iocp'[i] = iocp[i]
             /\ iocp'[n].op = f.op /\ iocp'[n].unit = f.unit
             /\ iocp'[n].ok = TRUE /\ iocp'[n].bytes = 0
             /\ \A v \in Units : Que(v)' = IF Brings(iocp'[n], v) THEN Que(v) \cup {n} ELSE Que(v)
             /\ \A v \in Units : Kern(v)' = Kern(v) \ {f}
      BY <1>1, <2>1, Completed
    <3>2. \A v \in Units : QueRcv(v)' = QueRcv(v) /\ Ending(v)' = Ending(v)
      BY <1>1, <3>1 DEF QueRcv, Ending
    <3>3. \A v \in Units \ {u} : ~Brings(iocp'[n], v)
      BY <3>1 DEF Brings
    <3>4. \A v \in Units \ {u} : \A i \in Que(v)' : i \in Que(v) /\ iocp'[i] = iocp[i]
      BY <3>1, <3>3 DEF Que
    <3>. QED BY <3>2, <3>4 DEF Linked, Opens, Opener
  <2>2. CASE ~Heard(f)
    <3>1. iocp' = iocp
      BY <1>1, <2>2 DEF Complete
    <3>. QED BY <3>1 DEF QueRcv, Ending, Linked, Que, Brings, Opens, Opener
  <2>. QED BY <2>1, <2>2
<1>4. inflight' = inflight \ {f}
  BY <1>1 DEF Complete
<1>5. /\ \A v \in Units : sock'[v] = IF v = u THEN "linked" ELSE sock[v]
      /\ \A v \in Units : session'[v] = IF v = u THEN session[v] + 1 ELSE session[v]
      /\ \A v \in Units : session[v] \in Nat
  BY <1>2 DEF Establish, NetInv, SharedOK, WinTypeOK
<1>6. \A g \in inflight : g.unit \in Units /\ g.sess \in Nat
  BY Objects DEF InFlight
<1>7. \A g \in inflight : g.op = "RECIEVE" => g.sess <= session[g.unit]
  BY DEF RecieveInv
<1>8. NoneYet(u) /\ Ending(u) = {} /\ \A s \in Threads : ~Closes(th[s], u)
  <2>1. Ending(u) \subseteq Que(u)
    BY DEF Ending, Que, Brings
  <2>. QED BY <1>2, <2>1 DEF RecieveInv, RecieveAt, Thr, Works
<1> HIDE DEF u
<1>9. \A v \in Units : /\ KernRcv(v)' = IF v = u THEN {} ELSE KernRcv(v)
                       /\ QueRcv(v)' = QueRcv(v)
                       /\ ThrRcv(v)' = ThrRcv(v) /\ Ending(v)' = Ending(v)
  <2>1. KernRcv(u)' = {}
    <3>1. \A g \in inflight : g.op = "RECIEVE" /\ g.unit = u => g.sess # session'[u]
      BY <1>2, <1>5, <1>6, <1>7
    <3>. QED BY <1>4, <3>1 DEF KernRcv
  <2>2. \A v \in Units \ {u} : KernRcv(v)' = KernRcv(v)
    BY <1>1, <1>4, <1>5 DEF KernRcv
  <2>. QED BY <1>3, <2>1, <2>2, SameThrRcv
<1>10. ASSUME NEW v \in Units PROVE RecieveAt(v)'
  <2>0. RecieveAt(v)
    BY DEF RecieveInv
  <2>1. OneToken(v)'
    BY <1>9, <2>0 DEF RecieveAt, OneToken
  <2>2. sock'[v] = "fresh" => NoneYet(v)'
    BY <1>5, <1>9, <2>0 DEF RecieveAt, NoneYet
  <2>3. Linked(v)' => NoneYet(v)' /\ KernRcv(v)' = {}
    BY <1>8, <1>9, <1>3, <2>0 DEF RecieveAt, NoneYet
  <2>4. \A i \in Ending(v)' : sock'[v] # "linked" /\ \A k \in QueRcv(v)' : k < i
    BY <1>5, <1>8, <1>9, <2>0 DEF RecieveAt
  <2>5. \A s \in Threads : /\ Closes(th[s], v) /\ th[s].pc # "drShut" => sock'[v] # "linked"
                           /\ Leaves(th[s], v) => QueRcv(v)' = {}
    BY <1>5, <1>8, <1>9, <2>0 DEF RecieveAt
  <2>6. \A s \in Threads : /\ (Closes(th[s], v) /\ th[s].pc # "drShut" => sock[v] # "linked")'
                           /\ (Leaves(th[s], v) => QueRcv(v) = {})'
    BY <2>5 DEF Closes, Leaves
  <2>. QED BY <2>1, <2>2, <2>3, <2>4, <2>6 DEF RecieveAt
<1>11. ASSUME NEW g \in inflight', g.op = "RECIEVE" PROVE g.sess <= session'[g.unit]
  BY <1>4, <1>5, <1>6, <1>7, <1>11
<1>. QED BY <1>10, <1>11 DEF RecieveInv

LEMMA NetworkRecieve == ASSUME NetInv, LifeInv, RecieveInv, Network PROVE RecieveInv'
<1>1. UNCHANGED <<active, th>>
  BY DEF Network
<1>2. ASSUME NEW f \in inflight, KernelOn(f) PROVE RecieveInv'
  <2>0. f.op # "DISCONNECT"
    BY DEF LifeInv, Kinds
  <2>1. CASE Establish(f)
    BY <1>1, <2>1, EstablishRecieve
  <2>2. CASE ~Establish(f) /\ ~Heard(f)
    <3>1. PICK ok, bytes : Complete(f, ok, bytes)
      BY <1>2, <2>2 DEF KernelOn, EstablishFails, RecieveCompletes, SendCompletes, Aborts
    <3>2. UNCHANGED <<sock, session>>
      BY <1>2, <2>2 DEF KernelOn, EstablishFails, RecieveCompletes, SendCompletes, Aborts, sockVars
    <3>. QED BY <1>1, <2>2, <3>1, <3>2, UnheardRecieve
  <2>3. CASE Heard(f) /\ SendCompletes(f)
    BY <1>1, <2>0, <2>3, OtherCompletesRecieve DEF SendCompletes, sockVars
  <2>4. CASE Heard(f) /\ Aborts(f)
    BY <1>1, <2>0, <2>4, OtherCompletesRecieve DEF Aborts, sockVars
  <2>5. CASE Heard(f) /\ EstablishFails(f)
    BY <1>1, <2>0, <2>5, OtherCompletesRecieve DEF EstablishFails, sockVars
  <2>. QED BY <1>1, <1>2, <2>1, <2>2, <2>3, <2>4, <2>5, RecieveCompletesRecieve DEF KernelOn
<1>3. ASSUME NEW u \in Units, PeerLeaves(u) PROVE RecieveInv'
  BY <1>1, <1>3, SameRecieve DEF PeerLeaves
<1>. QED BY <1>2, <1>3 DEF Network

LEMMA RecieveInit == Init => RecieveInv
<1> SUFFICES ASSUME Init PROVE RecieveInv
  OBVIOUS
<1>1. \A t \in Threads : th[t].pc = "idle"
  BY DEF Init, Idle
<1>2. iocp = << >> /\ \A f \in inflight : f.op = "ACCEPT"
  BY DEF Init, WinInit
<1>3. \A t \in Threads, u \in Units : ~Opens(th[t], u) /\ ~Closes(th[t], u) /\ ~Rearms(th[t], u)
  BY <1>1, NoStage, StagelessLabels DEF Rearms, RearmLabels, DrLabels
<1>4. \A u \in Units : /\ KernRcv(u) = {} /\ QueRcv(u) = {} /\ ThrRcv(u) = {} /\ Ending(u) = {}
                       /\ ~Linked(u) /\ \A t \in Threads : ~Leaves(th[t], u)
  BY <1>2, <1>3 DEF KernRcv, QueRcv, ThrRcv, Ending, Linked, Que, Leaves, Threads
<1>. QED BY <1>2, <1>3, <1>4 DEF RecieveInv, RecieveAt, OneToken, NoneYet

LEMMA RecieveStep ==
  ASSUME OneWorker, NetInv, LifeInv, LifeInv', RecieveInv, [Next]_vars
  PROVE  RecieveInv'
<1>1. ASSUME NEW w \in Workers, Handler(w) PROVE RecieveInv'
  BY <1>1, DequeueRecieve, FailedRecieve, DecodeRecieve, DispatchRecieve, UpdateContextRecieve,
     IoStartRecieve, OnConnectRecieve, EnableRecieve, RecieveRequestRecieve, AsyncRecieveRecieve,
     RecievedRecieve, ProcessedRecieve, OnDisconnectRecieve, CleanupRecieve, BindIocpRecieve,
     AcceptRequestRecieve, AsyncAcceptRecieve
     DEF Handler
<1>2. ASSUME NEW w \in Workers, Sending(w) PROVE RecieveInv'
  BY <1>2, SendRequestRecieve, SendsDoneRecieve, AsyncSendRecieve DEF Sending
<1>3. CASE \E w \in Workers : Worker(w)
  BY <1>1, <1>2, <1>3, DisconnectingRecieve DEF Worker, Threads
<1>4. CASE UNCHANGED vars
  BY <1>4, SameRecieve DEF vars, winVars, sockVars
<1>. QED BY <1>3, <1>4, ConnectorRecieve, NetworkRecieve DEF Next

LEMMA RecieveInvariant ==
  ASSUME OneWorker, "fin" \notin Faults
  PROVE  Spec => []RecieveInv
BY NetInvariant, LifeInvariant, RecieveInit, RecieveStep, PTL DEF Spec

(***************************************************************************)
(* With one worker a unit never has two receives on its connection, which  *)
(* its one embedded OverlappedEx could not serve (OverlappedPool.h:11-12). *)
(***************************************************************************)
THEOREM OneRecieveAtATime ==
  ASSUME OneWorker, "fin" \notin Faults
  PROVE  Spec => []OneRecieve
<1>1. ASSUME RecieveInv, NEW u \in Units PROVE Outstanding(u) <= 1
  <2> DEFINE K == {o \in Pending(u, "RECIEVE") : Alive(o)}
             Q == {i \in QueuedFor(u, "RECIEVE") : iocp[i].sess = session[u] /\ iocp[i].ok}
  <2>1. K \subseteq KernRcv(u) /\ Q \subseteq QueRcv(u)
    BY DEF Pending, Alive, KernRcv, QueuedFor, QueRcv
  <2>2. /\ \A x, y \in K : x = y
        /\ \A x, y \in Q : x = y
        /\ K = {} \/ Q = {}
    BY <1>1, <2>1 DEF RecieveInv, RecieveAt, OneToken
  <2>3. /\ Cardinality(K) = IF K = {} THEN 0 ELSE 1
        /\ Cardinality(Q) = IF Q = {} THEN 0 ELSE 1
    BY <2>2, SizeOfOne
  <2>4. Outstanding(u) = Cardinality(K) + Cardinality(Q)
    BY DEF Outstanding
  <2>. QED BY <2>2, <2>3, <2>4
<1>2. RecieveInv => OneRecieve
  BY <1>1 DEF OneRecieve
<1>. QED BY <1>2, RecieveInvariant, PTL

-----------------------------------------------------------------------------
(* One worker: the registry and the sends.                                 *)

\* On its way to OnDisconnect.
Departs(j, u) == Closes(j, u) /\ j.pc \notin {"cleanup"} \cup AcceptingLabels
Departing(u) == Ending(u) # {} \/ \E t \in Threads : Departs(th[t], u)

\* The AutoConnector has only units that connect out in hand.
ConnectorOwn ==
  th[Connector].pc \in {"isconnected", "connectex"} \cup DrLabels => th[Connector].tgt \in ConnectUnits

\* What a worker found active stays so while it greets or sends.
SteadyAt(j) == /\ j.pc = "onconnect" /\ j.unit \in AcceptUnits => active[j.unit]
               /\ j.pc = "wsasend" /\ j.tgt \in AcceptUnits => active[j.tgt]
Steady == \A w \in Workers : SteadyAt(th[w])

\* In the registry from OnConnect to OnDisconnect.
Agreed(u) == u \in registered <=> (active[u] \/ Departing(u)) /\ ~Greeting(u)

\* The inductive invariant for the registry.
RegistryInv == ConnectorOwn /\ Steady /\ \A u \in AcceptUnits : Agreed(u)

\* A step that greets nobody, and after which who departs departs.
LEMMA Registers ==
  ASSUME NetInv, LifeInv, RegistryInv, NEW t \in Threads, Others(t),
         UNCHANGED <<registered, active>>,
         \A u \in Units : Ending(u)' = {} <=> Ending(u) = {},
         th[t].pc # "onconnect", th'[t].pc # "onconnect",
         t \in Workers => SteadyAt(th'[t]),
         \A u \in Units : Departs(th'[t], u) <=> Departs(th[t], u),
         t = Connector /\ th'[t].pc \in {"isconnected", "connectex"} \cup DrLabels => th'[t].tgt \in ConnectUnits
  PROVE  RegistryInv'
<1>1. ConnectorOwn'
  BY DEF RegistryInv, ConnectorOwn, Others, Threads
<1>2. Steady'
  <2>1. \A w \in Workers : SteadyAt(th'[w])
    BY DEF RegistryInv, Steady, Others, Threads
  <2>. QED BY <2>1 DEF Steady, SteadyAt
<1>3. \A u : Greeting(u)' <=> Greeting(u)
  BY DEF Greeting, At, Others, Threads
<1>4. ASSUME NEW u \in AcceptUnits PROVE Agreed(u)'
  <2>1. \A s \in Threads : Departs(th'[s], u) <=> Departs(th[s], u)
    BY DEF Others, Units
  <2>2. Departing(u)' <=> Departing(u)
    BY <2>1 DEF Departing, Departs, Closes, Units
  <2>. QED BY <1>3, <2>2 DEF RegistryInv, Agreed
<1>. QED BY <1>1, <1>2, <1>4 DEF RegistryInv

\* Labels at which a worker serves a unit that is in no stage but open.
ServingLabels == {"failed", "enable", "rearm", "wsarecv", "recieved", "processed", "send", "wsasend",
                  "dr", "idle", "isconnected", "connectex"}

LEMMA NoDeparture ==
  ASSUME NEW j, j.pc \in ServingLabels
  PROVE  j.pc # "onconnect" /\ \A u : ~Departs(j, u)
BY NoStage DEF ServingLabels, Departs, StageLabels, OpeningLabels, ClosingLabels, AcceptingLabels, TakingDown

LEMMA SameEnding == ASSUME UNCHANGED iocp PROVE \A u : Ending(u)' = Ending(u)
BY DEF Ending

LEMMA Serving ==
  ASSUME NetInv, LifeInv, RegistryInv, NEW t \in Threads, Others(t),
         UNCHANGED <<registered, active, iocp>>,
         th[t].pc \in ServingLabels, th'[t].pc \in ServingLabels,
         th'[t].pc = "wsasend" => active[th'[t].tgt],
         t = Connector /\ th'[t].pc \in {"isconnected", "connectex"} \cup DrLabels => th'[t].tgt \in ConnectUnits
  PROVE  RegistryInv'
<1>1. SteadyAt(th'[t])
  BY NoDeparture DEF SteadyAt
<1>. QED BY <1>1, SameEnding, NoDeparture, Registers

\* The handlers that are in the middle of serving a connection.
LEMMA ServingRegistry ==
  ASSUME NetInv, LifeInv, RegistryInv, NEW w \in Workers,
         \/ Failed(w) \/ Enable(w) \/ RecieveRequest(w) \/ AsyncRecieve(w) \/ Recieved(w)
         \/ Processed(w) \/ SendsDone(w) \/ AsyncSend(w)
  PROVE  RegistryInv'
<1>1. w \in Threads /\ w # Connector
  BY ThreadsAssumption DEF Threads
<1>2. UNCHANGED <<registered, active, iocp>>
  BY DEF Failed, Enable, RecieveRequest, AsyncRecieve, Recieved, Processed, SendsDone, AsyncSend,
         winVars, regVars
<1>3. th[w].pc \in {"failed", "enable", "rearm", "wsarecv", "recieved", "processed", "send", "wsasend"}
  BY DEF Failed, Enable, RecieveRequest, AsyncRecieve, Recieved, Processed, SendsDone, AsyncSend, At
<1>4. Others(w) /\ th'[w].pc \in ServingLabels \ {"wsasend"}
  <2>0. th[w] \in Thread
    BY <1>1, ThreadAt
  <2>1. ASSUME NEW targets, Go(w, [th[w] EXCEPT !.pc = "send", !.todo = targets, !.ret = "processed"])
        PROVE  Others(w) /\ th'[w].pc = "send"
    BY <1>1, <2>0, <2>1, LocalsAre DEF Go, Others, Thread
  <2>2. ASSUME Go(w, [th[w] EXCEPT !.pc = "recieved", !.bytes = @ - 1])
        PROVE  Others(w) /\ th'[w].pc = "recieved"
    BY <1>1, <2>0, <2>2, LocalsAre DEF Go, Others, Thread
  <2>3. ASSUME Go(w, [th[w] EXCEPT !.pc = "send", !.ov = NoOv, !.tgt = NoUnit])
        PROVE  Others(w) /\ th'[w].pc = "send"
    BY <1>1, <2>0, <2>3, LocalsAre DEF Go, Others, Thread
  <2>4. CASE SendsDone(w)
    <3>1. th[w].ret \in {"enable", "processed"}
      BY <1>1, <2>4, ThreadAt DEF SendsDone, At, Fits, SeriesGoesBack, InSeries
    <3>2. Others(w) /\ th'[w].pc = th[w].ret
      BY <1>1, <2>0, <2>4, LocalsAre DEF SendsDone, Go, Others, Thread
    <3>. QED BY <3>1, <3>2 DEF ServingLabels
  <2>5. CASE Recieved(w)
    <3>1. CASE Step(w, "rearm") \/ Finish(w)
      BY <1>1, <3>1, Goes DEF ServingLabels
    <3>. QED BY <2>1, <2>5, <3>1 DEF Recieved, ServingLabels
  <2>6. CASE Processed(w)
    BY <1>1, <2>2, <2>6, Goes DEF Processed, ServingLabels
  <2>7. CASE AsyncSend(w)
    BY <1>1, <2>3, <2>7, Goes DEF AsyncSend, ServingLabels
  <2>8. CASE Failed(w) \/ Enable(w) \/ RecieveRequest(w) \/ AsyncRecieve(w)
    BY <1>1, <2>8, Goes DEF Failed, Enable, RecieveRequest, AsyncRecieve, ServingLabels
  <2>. QED BY <2>4, <2>5, <2>6, <2>7, <2>8
<1>. QED BY <1>1, <1>2, <1>3, <1>4, Serving DEF ServingLabels

LEMMA SendRequestRegistry ==
  ASSUME NetInv, LifeInv, RegistryInv, NEW w \in Workers, SendRequest(w) PROVE RegistryInv'
<1>1. /\ w \in Threads /\ w # Connector /\ th[w] \in Thread /\ th[w].pc = "send"
      /\ UNCHANGED <<registered, active, iocp>>
  BY WorkerAt, ThreadsAssumption DEF SendRequest, At, winVars, regVars, Threads
<1>2. Others(w) /\ (th'[w].pc = "send" \/ (th'[w].pc = "wsasend" /\ active[th'[w].tgt]))
  <2>1. ASSUME NEW u, NEW o, Go(w, [th[w] EXCEPT !.pc = "wsasend", !.ov = o, !.tgt = u, !.todo = @ \ {u}])
        PROVE  Others(w) /\ th'[w].pc = "wsasend" /\ th'[w].tgt = u
    BY <1>1, <2>1, LocalsAre DEF Go, Others, Thread
  <2>2. ASSUME NEW u, Go(w, [th[w] EXCEPT !.todo = @ \ {u}])
        PROVE  Others(w) /\ th'[w].pc = "send"
    BY <1>1, <2>2, LocalsAre DEF Go, Others, Thread
  <2>. QED BY <2>1, <2>2 DEF SendRequest
<1>. QED BY <1>1, <1>2, Serving DEF ServingLabels

LEMMA DecodeRegistry == ASSUME NetInv, LifeInv, RegistryInv, NEW w \in Workers, Decode(w) PROVE RegistryInv'
<1>1. /\ w \in Threads /\ th[w] \in Thread /\ th[w].pc = "decode" /\ JobFits(th[w]) /\ w # Connector
      /\ UNCHANGED <<registered, active, iocp>>
  BY WorkerAt, JobAt, ThreadsAssumption DEF Decode, At, winVars, regVars
<1>2. OperationOf(w) = th[w].op
  BY <1>1 DEF OperationOf, NetInv, Tagged, Agree
<1> DEFINE op == th[w].op
           next == CASE op = "ACCEPT"  -> "accepted"
                     [] op = "CONNECT" -> "connected"
                     [] OTHER          -> "dispatch"
           job == [th[w] EXCEPT !.pc = next, !.optype = op]
<1>3. job.pc = next /\ job.op = op /\ job.unit = th[w].unit
  BY <1>1 DEF Thread
<1>4. Go(w, job)
  BY <1>2 DEF Decode
<1> HIDE DEF job
<1>5. th'[w] = job /\ Others(w)
  BY <1>1, <1>4, Goes
<1>6. \A u \in Units : Departs(job, u) <=> Departs(th[w], u)
  BY <1>1, <1>3 DEF Departs, Closes, ClosingLabels, AcceptingLabels, TakingDown
<1>. QED BY <1>1, <1>3, <1>5, <1>6, SameEnding, Registers DEF SteadyAt

LEMMA DispatchRegistry ==
  ASSUME NetInv, LifeInv, RegistryInv, NEW w \in Workers, Dispatch(w) PROVE RegistryInv'
<1>1. /\ w \in Threads /\ th[w] \in Thread /\ th[w].pc = "dispatch" /\ JobFits(th[w]) /\ w # Connector
      /\ th[w].optype = th[w].op /\ th[w].bytes \in Nat
      /\ UNCHANGED <<registered, active, iocp>>
  BY WorkerAt, JobAt, ThreadsAssumption DEF Dispatch, At, winVars, regVars, Fits, OperationKnown, Thread
<1>2. CASE th[w].op = "DISCONNECT"
  <2>1. Step(w, "disconnect")
    BY <1>1, <1>2 DEF Dispatch
  <2>2. /\ Others(w) /\ th'[w].pc = "disconnect" /\ th'[w].unit = th[w].unit /\ th'[w].op = th[w].op
    BY <1>1, <2>1, Carries
  <2>3. \A u \in Units : Departs(th'[w], u) <=> Departs(th[w], u)
    BY <1>1, <1>2, <2>2 DEF Departs, Closes, ClosingLabels, AcceptingLabels, TakingDown
  <2>. QED BY <1>1, <2>2, <2>3, SameEnding, Registers DEF SteadyAt
<1>3. CASE th[w].op # "DISCONNECT"
  <2>1. Finish(w) \/ Step(w, "recieved")
    BY <1>1, <1>3 DEF Dispatch, JobFits, Thread, Operations
  <2>2. Others(w) /\ th'[w].pc \in {"idle", "recieved"}
    BY <1>1, <2>1, Goes
  <2>3. \A u \in Units : ~Departs(th'[w], u)
    BY <2>2, NoDeparture DEF ServingLabels
  <2>4. \A u \in Units : ~Departs(th[w], u)
    BY <1>1, <1>3 DEF Departs, Closes, TakingDown
  <2>. QED BY <1>1, <2>2, <2>3, <2>4, SameEnding, Registers DEF SteadyAt
<1>. QED BY <1>2, <1>3

LEMMA UpdateContextRegistry ==
  ASSUME NetInv, LifeInv, RegistryInv, NEW w \in Workers, UpdateContext(w) PROVE RegistryInv'
<1>1. /\ w \in Threads /\ th[w].pc \in {"accepted", "connected"} /\ w # Connector
      /\ UNCHANGED <<registered, active, iocp>>
  BY ThreadsAssumption DEF UpdateContext, At, winVars, regVars, Threads
<1>2. Others(w) /\ th'[w].pc \in {"iostart", "idle"}
  BY <1>1, Goes DEF UpdateContext
<1>3. \A u \in Units : ~Departs(th[w], u) /\ ~Departs(th'[w], u)
  BY <1>1, <1>2 DEF Departs, Closes, ClosingLabels, AcceptingLabels, TakingDown
<1>. QED BY <1>1, <1>2, <1>3, SameEnding, Registers DEF SteadyAt

LEMMA CleanupRegistry ==
  ASSUME NetInv, LifeInv, RegistryInv, NEW w \in Workers,
         Cleanup(w) \/ BindIocp(w) \/ AcceptRequest(w) \/ AsyncAccept(w)
  PROVE  RegistryInv'
<1>1. /\ w \in Threads /\ th[w].pc \in {"cleanup", "bindiocp"} \cup AcceptingLabels /\ w # Connector
      /\ UNCHANGED <<registered, active, iocp>>
  BY ThreadsAssumption
     DEF Cleanup, BindIocp, AcceptRequest, AsyncAccept, At, winVars, regVars, Threads, AcceptingLabels
<1>2. Others(w) /\ th'[w].pc \in {"idle", "bindiocp"} \cup AcceptingLabels
  BY <1>1, Goes DEF Cleanup, BindIocp, AcceptRequest, AsyncAccept, AcceptingLabels
<1>3. \A u \in Units : ~Departs(th[w], u) /\ ~Departs(th'[w], u)
  BY <1>1, <1>2 DEF Departs, Closes, ClosingLabels, AcceptingLabels, TakingDown
<1>4. th[w].pc # "onconnect" /\ th'[w].pc \notin {"onconnect", "wsasend"}
  BY <1>1, <1>2 DEF AcceptingLabels
<1>. QED BY <1>1, <1>2, <1>3, <1>4, SameEnding, Registers DEF SteadyAt

\* The unit a worker greets was at the stage of opening.
LEMMA IoStartRegistry ==
  ASSUME OneWorker, NetInv, LifeInv, RegistryInv, NEW w \in Workers, IoStart(w)
  PROVE  RegistryInv'
<1> DEFINE u == th[w].unit
<1>1. /\ w \in Threads /\ th[w] \in Thread /\ th[w].pc = "iostart" /\ JobFits(th[w]) /\ u \in Units
      /\ w # Connector
  BY WorkerAt, JobAt, ThreadsAssumption DEF IoStart, At, Fits, UnitsKnown, DrLabels
<1>2. UNCHANGED <<iocp, registered>>
  BY DEF IoStart, winVars, regVars
<1>3. Opens(th[w], u) /\ w \in Thr(u)
  BY <1>1 DEF JobFits, OpeningLabels, Opens, Thr, Works
<1>4. ~active[u] /\ Thr(u) = {w} /\ Que(u) = {}
  BY <1>1, <1>3 DEF LifeInv, Staged, AtMostOne
<1>5. active' = [active EXCEPT ![u] = TRUE] /\ Step(w, "onconnect")
  BY <1>4 DEF IoStart
<1>6. Others(w) /\ th'[w].pc = "onconnect" /\ th'[w].unit = u
  BY <1>1, <1>5, Carries
<1>7. active'[u] /\ \A v \in Units \ {u} : active'[v] = active[v]
  BY <1>1, <1>5 DEF NetInv, SharedOK
<1>8. ~Departing(u)
  <2>1. \A s \in Threads : ~Departs(th[s], u)
    BY <1>1, <1>4 DEF Departs, Thr, Works, Closes, ClosingLabels, AcceptingLabels, TakingDown
  <2>2. Ending(u) \subseteq Que(u)
    BY DEF Ending, Que, Brings
  <2>. QED BY <1>4, <2>1, <2>2 DEF Departing
<1> HIDE DEF u
<1>9. \A v \in Units : Departing(v)' <=> Departing(v)
  <2>1. \A v \in Units : ~Departs(th[w], v) /\ ~Departs(th'[w], v)
    BY <1>1, <1>6 DEF Departs, Closes, ClosingLabels, AcceptingLabels, TakingDown
  <2>2. \A v \in Units, s \in Threads : Departs(th'[s], v) <=> Departs(th[s], v)
    BY <1>6, <2>1 DEF Others
  <2>. QED BY <1>2, <2>2 DEF Departing, Departs, Closes, Ending
<1>10. /\ \A v : Greeting(v)' <=> v = u
       /\ \A v : ~Greeting(v)
  BY <1>1, <1>6 DEF Greeting, At, OneWorker
<1>11. ConnectorOwn'
  BY <1>1, <1>6 DEF RegistryInv, ConnectorOwn, Others, Threads
<1>12. Steady'
  <2>1. \A v \in Workers : SteadyAt(th[v])'
    BY <1>6, <1>7 DEF OneWorker, SteadyAt
  <2>. QED BY <2>1 DEF Steady
<1>13. ASSUME NEW v \in AcceptUnits PROVE Agreed(v)'
  <2>1. v \in registered <=> active[v] \/ Departing(v)
    BY <1>10 DEF RegistryInv, Agreed
  <2>2. CASE v = u
    BY <1>2, <1>4, <1>8, <1>10, <2>1, <2>2 DEF Agreed
  <2>3. CASE v # u
    BY <1>2, <1>7, <1>9, <1>10, <2>1, <2>3 DEF Agreed, Units
  <2>. QED BY <2>2, <2>3
<1>. QED BY <1>11, <1>12, <1>13 DEF RegistryInv

\* The greeting ends, and the unit is in the registry.
LEMMA OnConnectRegistry ==
  ASSUME OneWorker, NetInv, LifeInv, RegistryInv, NEW w \in Workers, OnConnect(w)
  PROVE  RegistryInv'
<1> DEFINE u == th[w].unit
<1>1. /\ w \in Threads /\ th[w] \in Thread /\ th[w].pc = "onconnect" /\ w # Connector
  BY WorkerAt, ThreadsAssumption DEF OnConnect, At
<1>2. UNCHANGED <<iocp, active>> /\ registered' = registered \cup {u}
  BY DEF OnConnect, winVars
<1>3. Others(w) /\ th'[w].pc \in {"send", "enable"}
  <2>1. CASE Step(w, "enable")
    BY <1>1, <2>1, Carries
  <2>2. ASSUME NEW targets,
               Go(w, [th[w] EXCEPT !.pc = "send", !.ret = "enable", !.todo = targets])
        PROVE  Others(w) /\ th'[w].pc = "send"
    BY <1>1, <2>2, LocalsAre DEF Go, Others, Thread
  <2>. QED BY <2>1, <2>2 DEF OnConnect
<1>4. u \in AcceptUnits => active[u]
  BY <1>1 DEF RegistryInv, Steady, SteadyAt
<1>5. /\ \A v : Greeting(v) <=> v = u
      /\ \A v : ~Greeting(v)'
  BY <1>1, <1>3 DEF Greeting, At, OneWorker
<1> HIDE DEF u
<1>6. \A v \in Units : Departing(v)' <=> Departing(v)
  <2>1. \A v \in Units : ~Departs(th[w], v) /\ ~Departs(th'[w], v)
    BY <1>1, <1>3 DEF Departs, Closes, ClosingLabels, AcceptingLabels, TakingDown
  <2>2. \A v \in Units, s \in Threads : Departs(th'[s], v) <=> Departs(th[s], v)
    BY <1>3, <2>1 DEF Others
  <2>. QED BY <1>2, <2>2 DEF Departing, Departs, Closes, Ending
<1>7. ConnectorOwn'
  BY <1>1, <1>3 DEF RegistryInv, ConnectorOwn, Others, Threads
<1>8. Steady'
  <2>1. \A v \in Workers : SteadyAt(th[v])'
    BY <1>3 DEF OneWorker, SteadyAt
  <2>. QED BY <2>1 DEF Steady
<1>9. ASSUME NEW v \in AcceptUnits PROVE Agreed(v)'
  <2>1. Agreed(v)
    BY DEF RegistryInv
  <2>2. CASE v = u
    BY <1>2, <1>4, <1>5, <2>2 DEF Agreed
  <2>3. CASE v # u
    BY <1>2, <1>5, <1>6, <2>1, <2>3 DEF Agreed, Units
  <2>. QED BY <2>2, <2>3
<1>. QED BY <1>7, <1>8, <1>9 DEF RegistryInv

\* The unit that leaves the registry is being taken down by this worker only.
LEMMA OnDisconnectRegistry ==
  ASSUME NetInv, LifeInv, RegistryInv, NEW w \in Workers, OnDisconnect(w) PROVE RegistryInv'
<1> DEFINE u == th[w].unit
<1>1. /\ w \in Threads /\ th[w] \in Thread /\ th[w].pc = "disconnect" /\ JobFits(th[w]) /\ u \in Units
      /\ w # Connector
  BY WorkerAt, JobAt, ThreadsAssumption DEF OnDisconnect, At, Fits, UnitsKnown, DrLabels
<1>2. UNCHANGED <<iocp, active>> /\ registered' = registered \ {u} /\ Step(w, "cleanup")
  BY DEF OnDisconnect, winVars
<1>3. Others(w) /\ th'[w].pc = "cleanup"
  BY <1>1, <1>2, Carries
<1>4. w \in Thr(u) /\ \A v \in Units \ {u} : ~Departs(th[w], v)
  BY <1>1 DEF JobFits, ClosingLabels, AcceptingLabels, Thr, Works, Closes, Departs, TakingDown
<1>5. ~active[u] /\ Thr(u) = {w} /\ Que(u) = {}
  BY <1>1, <1>4 DEF LifeInv, Staged, AtMostOne
<1> HIDE DEF u
<1>6. \A v \in Units : ~Departs(th'[w], v)
  BY <1>3 DEF Departs, Closes, ClosingLabels, AcceptingLabels, TakingDown
<1>7. \A v \in Units : v = u => ~Departing(v)'
  <2>1. \A v \in Units : v = u => Ending(v) = {}
    BY <1>5 DEF Ending, Que, Brings
  <2>2. ASSUME NEW v \in Units, v = u, NEW s \in Threads PROVE ~Departs(th'[s], v)
    BY <1>1, <1>3, <1>5, <1>6, <2>2 DEF Others, Departs, Thr, Works
  <2>. QED BY <1>2, <2>1, <2>2, SameEnding DEF Departing, Departs, Closes
<1>8. \A v \in Units \ {u} : Departing(v)' <=> Departing(v)
  <2>1. \A v \in Units \ {u}, s \in Threads : Departs(th'[s], v) <=> Departs(th[s], v)
    BY <1>3, <1>4, <1>6 DEF Others
  <2>. QED BY <1>2, <2>1 DEF Departing, Departs, Closes, Ending
<1>9. \A v : Greeting(v)' <=> Greeting(v)
  BY <1>1, <1>3 DEF Greeting, At, Others, Threads
<1>10. ConnectorOwn'
  BY <1>1, <1>3 DEF RegistryInv, ConnectorOwn, Others, Threads
<1>11. Steady'
  <2>1. \A v \in Workers : SteadyAt(th'[v])
    BY <1>3 DEF RegistryInv, Steady, SteadyAt, Others, Threads
  <2>. QED BY <1>2, <2>1 DEF Steady, SteadyAt
<1>12. ASSUME NEW v \in AcceptUnits PROVE Agreed(v)'
  <2>1. Agreed(v)
    BY DEF RegistryInv
  <2>2. CASE v = u
    BY <1>2, <1>5, <1>7, <2>2 DEF Agreed, Units
  <2>3. CASE v # u
    BY <1>2, <1>8, <1>9, <2>1, <2>3 DEF Agreed, Units
  <2>. QED BY <2>2, <2>3
<1>. QED BY <1>10, <1>11, <1>12 DEF RegistryInv

\* The one that clears the flag takes the unit down: it departs from then on.
LEMMA DisconnectRequestRegistry ==
  ASSUME OneWorker, NetInv, LifeInv, RegistryInv, NEW t \in Threads, DisconnectRequest(t)
  PROVE  RegistryInv'
<1> DEFINE u == th[t].tgt
<1>1. /\ th[t] \in Thread /\ th[t].pc = "dr" /\ u \in Units /\ th[t].pc \in DrLabels
  BY ThreadAt DEF DisconnectRequest, At, Fits, UnitsKnown, DrLabels
<1>2. UNCHANGED <<iocp, registered>>
  BY DEF DisconnectRequest, winVars, regVars
<1>3. CASE ~active[u]
  <2>1. Resume(t) /\ UNCHANGED active
    BY <1>3 DEF DisconnectRequest
  <2>2. Others(t) /\ th'[t].pc \in {"idle", "send"} /\ (t = Connector => th'[t].pc = "idle")
    <3>1. t = Connector => Finish(t)
      BY <1>1, <2>1, ThreadAt DEF Resume, Fits, ConnectorOnly
    <3>. QED BY <1>1, <2>1, <3>1, ResumeGoes, Goes
  <2>. QED BY <1>1, <1>2, <2>1, <2>2, Serving DEF ServingLabels, DrLabels
<1>4. CASE active[u]
  <2>1. active' = [active EXCEPT ![u] = FALSE] /\ Step(t, "drShut")
    BY <1>4 DEF DisconnectRequest
  <2>2. active'[u] = FALSE /\ \A v \in Units \ {u} : active'[v] = active[v]
    BY <1>1, <2>1 DEF NetInv, SharedOK
  <2>3. Others(t) /\ th'[t].pc = "drShut" /\ th'[t].tgt = u
    BY <1>1, <2>1, Carries
  <2>4. t = Connector => u \in ConnectUnits
    BY <1>1 DEF RegistryInv, ConnectorOwn
  <2> HIDE DEF u
  <2>5. \A v \in Units : ~Departs(th[t], v) /\ (Departs(th'[t], v) <=> v = u)
    BY <1>1, <2>3 DEF Departs, Closes, ClosingLabels, AcceptingLabels, TakingDown
  <2>6. \A v \in Units : Departing(v)' <=> v = u \/ Departing(v)
    <3>1. \A v \in Units, s \in Threads : Departs(th'[s], v) <=> (s = t /\ v = u) \/ Departs(th[s], v)
      BY <2>3, <2>5 DEF Others
    <3>2. \A v : Departing(v)' <=> Ending(v)' # {} \/ \E s \in Threads : Departs(th'[s], v)
      BY DEF Departing, Departs, Closes
    <3>. QED BY <1>2, <3>1, <3>2, SameEnding DEF Departing
  <2>7. \A v : Greeting(v)' <=> Greeting(v)
    BY <1>1, <2>3 DEF Greeting, At, Others, Threads
  <2>8. ConnectorOwn'
    BY <2>3, <2>4 DEF RegistryInv, ConnectorOwn, Others, Threads
  <2>9. Steady'
    <3>1. ASSUME NEW w \in Workers PROVE SteadyAt(th[w])'
      <4>1. CASE w = t
        BY <2>3, <4>1 DEF SteadyAt
      <4>2. CASE w # t
        <5>1. t = Connector
          BY <4>2 DEF OneWorker, Threads
        <5>2. u \notin AcceptUnits
          BY <2>4, <5>1, UnitsAssumption
        <5>3. th'[w] = th[w] /\ SteadyAt(th[w])
          BY <2>3, <4>2 DEF Others, RegistryInv, Steady, Threads
        <5>. QED BY <2>2, <5>2, <5>3 DEF SteadyAt, Units
      <4>. QED BY <4>1, <4>2
    <3>. QED BY <3>1 DEF Steady
  <2>10. ASSUME NEW v \in AcceptUnits PROVE Agreed(v)'
    <3>1. Agreed(v)
      BY DEF RegistryInv
    <3>2. CASE v = u
      <4>1. active[v]
        BY <1>4, <3>2 DEF u
      <4>. QED BY <1>2, <2>6, <2>7, <3>1, <3>2, <4>1 DEF Agreed, Units
    <3>3. CASE v # u
      BY <1>2, <2>2, <2>6, <2>7, <3>1, <3>3 DEF Agreed, Units
    <3>. QED BY <3>2, <3>3
  <2>. QED BY <2>8, <2>9, <2>10 DEF RegistryInv
<1>. QED BY <1>3, <1>4

LEMMA DisconnectingRegistry ==
  ASSUME OneWorker, NetInv, LifeInv, RegistryInv, NEW t \in Threads, Disconnecting(t)
  PROVE  RegistryInv'
<1>1. ASSUME th[t].pc \in TakingDown, NEW l \in TakingDown, Step(t, l), UNCHANGED <<registered, active, iocp>>
      PROVE  RegistryInv'
  <2>1. Others(t) /\ th'[t].pc = l /\ th'[t].tgt = th[t].tgt
    BY <1>1, Carries
  <2>2. \A u \in Units : Departs(th'[t], u) <=> Departs(th[t], u)
    BY <1>1, <2>1, TakesDown DEF Departs, TakingDown, AcceptingLabels
  <2>3. t = Connector => th'[t].tgt \in ConnectUnits
    BY <1>1, <2>1 DEF RegistryInv, ConnectorOwn, TakingDown, DrLabels
  <2>. QED BY <1>1, <2>1, <2>2, <2>3, SameEnding, Registers DEF TakingDown, SteadyAt
<1>2. CASE ShutDownSocket(t)
  BY <1>1, <1>2 DEF ShutDownSocket, TakingDown, At, regVars
<1>3. CASE CloseOrDisable(t)
  BY <1>1, <1>3 DEF CloseOrDisable, TakingDown, At, regVars
<1>4. CASE PostDisconnect(t)
  <2> DEFINE u == th[t].tgt
             n == Len(iocp) + 1
  <2>1. /\ th[t].pc = "drPost" /\ th[t].pc \in DrLabels /\ th[t].pc \in TakingDown
        /\ UNCHANGED <<registered, active>> /\ Resume(t)
    BY <1>4 DEF PostDisconnect, At, DrLabels, TakingDown, regVars
  <2>2. Others(t) /\ th'[t].pc \in {"idle", "send"}
    BY <2>1, ResumeGoes
  <2>3. t = Connector => th'[t].pc = "idle"
    <3>1. t = Connector => Finish(t)
      BY <2>1, ThreadAt DEF Resume, Fits, ConnectorOnly
    <3>. QED BY <3>1, Goes
  <2>4. /\ \A i \in 1..Len(iocp') : i = n \/ i \in 1..Len(iocp)
        /\ \A i \in 1..Len(iocp) : i \in 1..Len(iocp') /\ i # n /\ iocp'[i] = iocp[i]
        /\ n \in 1..Len(iocp')
        /\ iocp'[n].op = "DISCONNECT" /\ iocp'[n].unit = u
    <3>1. PICK o \in Ovs : iocp' = Append(iocp, [op |-> "DISCONNECT", unit |-> u, ov |-> o,
                                                 sess |-> session[u], ok |-> TRUE, bytes |-> 0])
      BY <1>4 DEF PostDisconnect
    <3>. QED BY <3>1, Appended
  <2> HIDE DEF n
  <2>5. \A v \in Units : Departs(th[t], v) <=> v = u
    BY <2>1 DEF Departs, Closes, ClosingLabels, AcceptingLabels, TakingDown
  <2>6. \A v \in Units : ~Departs(th'[t], v)
    BY <2>2, NoDeparture DEF ServingLabels
  <2> HIDE DEF u
  <2>7. \A v \in Units : Ending(v)' = IF v = u THEN Ending(v) \cup {n} ELSE Ending(v)
    BY <2>4 DEF Ending
  <2>8. \A v \in Units : Departing(v)' <=> Departing(v)
    <3>1. \A v \in Units, s \in Threads : Departs(th'[s], v) <=> s # t /\ Departs(th[s], v)
      BY <2>2, <2>6 DEF Others
    <3>2. \A v : Departing(v)' <=> Ending(v)' # {} \/ \E s \in Threads : Departs(th'[s], v)
      BY DEF Departing, Departs, Closes
    <3>3. ASSUME NEW v \in Units PROVE Departing(v)' <=> Departing(v)
      <4>1. CASE v = u
        BY <2>5, <2>7, <3>2, <4>1 DEF Departing
      <4>2. CASE v # u
        <5>1. (\E s \in Threads : Departs(th'[s], v)) <=> \E s \in Threads : Departs(th[s], v)
          BY <2>5, <3>1, <4>2
        <5>. QED BY <2>7, <3>2, <4>2, <5>1 DEF Departing
      <4>. QED BY <4>1, <4>2
    <3>. QED BY <3>3
  <2>9. \A v : Greeting(v)' <=> Greeting(v)
    BY <2>1, <2>2 DEF Greeting, At, Others, Threads
  <2>10. ConnectorOwn'
    BY <2>2, <2>3 DEF RegistryInv, ConnectorOwn, Others, Threads, DrLabels
  <2>11. Steady'
    <3>1. \A v \in Workers : SteadyAt(th'[v])
      BY <2>2 DEF RegistryInv, Steady, SteadyAt, Others, Threads
    <3>. QED BY <2>1, <3>1 DEF Steady, SteadyAt
  <2>. QED BY <2>1, <2>8, <2>9, <2>10, <2>11 DEF RegistryInv, Agreed, Units
<1>. QED BY <1>2, <1>3, <1>4, DisconnectRequestRegistry DEF Disconnecting

\* A packet that takes a unit down goes from the queue to the worker.
LEMMA DequeueRegistry ==
  ASSUME NetInv, LifeInv, RegistryInv, NEW w \in Workers, Dequeue(w) PROVE RegistryInv'
<1>0. w \in Threads /\ th[w].pc = "idle" /\ iocp # << >> /\ w # Connector
  BY WorkerAt DEF Dequeue, At
<1>1. /\ Len(iocp) \in Nat /\ 1 \in 1..Len(iocp)
      /\ Head(iocp) = iocp[1]
      /\ Len(iocp') = Len(iocp) - 1
      /\ \A i \in 1..Len(iocp') : i + 1 \in 1..Len(iocp) /\ i + 1 # 1 /\ iocp'[i] = iocp[i + 1]
      /\ \A i \in 1..Len(iocp) : i = 1 \/ (i - 1 \in 1..Len(iocp') /\ iocp'[i - 1] = iocp[i])
  BY <1>0 DEF Dequeue, NetInv, SharedOK, WinTypeOK
<1>2. UNCHANGED <<registered, active>>
  BY DEF Dequeue, regVars
<1> DEFINE p == iocp[1]
           job == [Idle EXCEPT !.pc = IF p.ok THEN "decode" ELSE "failed", !.op = p.op,
                               !.unit = p.unit, !.bytes = p.bytes, !.ov = p.ov]
<1>3. job.pc = (IF p.ok THEN "decode" ELSE "failed") /\ job.op = p.op /\ job.unit = p.unit
  BY DEF Idle
<1>4. Go(w, job)
  BY <1>1 DEF Dequeue
<1> HIDE DEF job
<1>5. th'[w] = job /\ Others(w)
  BY <1>0, <1>4, Goes
<1>6. \A v : Departs(job, v) <=> 1 \in Ending(v)
  <2>1. p.op = "DISCONNECT" => p.ok
    BY <1>1 DEF LifeInv, Kinds
  <2>. QED BY <1>1, <1>3, <2>1 DEF Departs, Closes, Ending, ClosingLabels, AcceptingLabels, TakingDown
<1>7. \A v : ~Departs(th[w], v)
  BY <1>0, NoDeparture DEF ServingLabels
<1>8. \A v : Ending(v) # {} <=> Ending(v)' # {} \/ 1 \in Ending(v)
  <2>1. \A v : \A i \in Ending(v)' : i + 1 \in Ending(v)
    BY <1>1 DEF Ending
  <2>2. \A v : \A i \in Ending(v) : i = 1 \/ i - 1 \in Ending(v)'
    BY <1>1 DEF Ending
  <2>. QED BY <2>1, <2>2
<1>9. \A v : Departing(v)' <=> Departing(v)
  <2>1. \A v, s : s \in Threads => (Departs(th'[s], v) <=> IF s = w THEN 1 \in Ending(v) ELSE Departs(th[s], v))
    BY <1>5, <1>6 DEF Others
  <2>2. \A v : Departing(v)' <=> Ending(v)' # {} \/ \E s \in Threads : Departs(th'[s], v)
    BY DEF Departing, Departs, Closes
  <2>3. \A v : (\E s \in Threads : Departs(th'[s], v))
                 <=> 1 \in Ending(v) \/ \E s \in Threads : Departs(th[s], v)
    BY <1>0, <1>7, <2>1
  <2>. QED BY <1>8, <2>2, <2>3 DEF Departing
<1>10. \A v : Greeting(v)' <=> Greeting(v)
  BY <1>0, <1>3, <1>5 DEF Greeting, At, Others, Threads
<1>11. ConnectorOwn'
  BY <1>0, <1>5 DEF RegistryInv, ConnectorOwn, Others, Threads
<1>12. Steady'
  <2>1. \A v \in Workers : SteadyAt(th'[v])
    BY <1>3, <1>5 DEF RegistryInv, Steady, SteadyAt, Others, Threads
  <2>. QED BY <1>2, <2>1 DEF Steady, SteadyAt
<1>. QED BY <1>2, <1>9, <1>10, <1>11, <1>12 DEF RegistryInv, Agreed

LEMMA ConnectorRegistry ==
  ASSUME OneWorker, NetInv, LifeInv, RegistryInv, AutoConnect
  PROVE  RegistryInv'
<1>0. Connector \in Threads /\ Connector \notin Workers
  BY ThreadsAssumption DEF Threads
<1>1. ASSUME NEW u \in ConnectUnits, CheckActive(u) PROVE RegistryInv'
  <2>1. UNCHANGED <<registered, active, iocp>> /\ th[Connector].pc = "idle"
    BY <1>1 DEF CheckActive, winVars, regVars, At
  <2>2. Others(Connector) /\ th'[Connector].pc = "isconnected" /\ th'[Connector].tgt = u
    BY <1>0, <1>1, ThreadAt, LocalsAre DEF CheckActive, Go, Others, Thread
  <2>. QED BY <1>0, <2>1, <2>2, Serving DEF ServingLabels
<1>2. ASSUME NEW u \in ConnectUnits, TryConnect(u) PROVE RegistryInv'
  <2>1. UNCHANGED <<registered, active, iocp>> /\ th[Connector].pc = "idle"
    BY <1>2 DEF TryConnect, winVars, regVars, At
  <2>2. Others(Connector) /\ th'[Connector].pc = "connectex" /\ th'[Connector].tgt = u
    BY <1>0, <1>2, ThreadAt, LocalsAre DEF TryConnect, Go, Others, Thread
  <2>. QED BY <1>0, <2>1, <2>2, Serving DEF ServingLabels
<1>3. CASE AsyncConnect
  <2>1. UNCHANGED <<registered, active, iocp>> /\ th[Connector].pc = "connectex"
    BY <1>3 DEF AsyncConnect, regVars, At
  <2>2. Others(Connector) /\ th'[Connector].pc = "idle"
    BY <1>0, <1>3, Goes DEF AsyncConnect
  <2>. QED BY <1>0, <2>1, <2>2, Serving DEF ServingLabels, DrLabels
<1>4. CASE CheckConnected
  <2>1. UNCHANGED <<registered, active, iocp>> /\ th[Connector].pc = "isconnected"
    BY <1>4 DEF CheckConnected, winVars, regVars, At
  <2>2. th[Connector].tgt \in ConnectUnits
    BY <2>1 DEF RegistryInv, ConnectorOwn
  <2>3. CASE Finish(Connector)
    <3>1. Others(Connector) /\ th'[Connector].pc = "idle"
      BY <1>0, <2>3, Goes
    <3>. QED BY <1>0, <2>1, <3>1, Serving DEF ServingLabels, DrLabels
  <2>4. CASE RequestDisconnect(Connector, th[Connector].tgt, "idle")
    <3>1. Others(Connector) /\ th'[Connector].pc = "dr" /\ th'[Connector].tgt = th[Connector].tgt
      BY <1>0, <2>4, Carries
    <3>. QED BY <1>0, <2>1, <2>2, <3>1, Serving DEF ServingLabels
  <2>. QED BY <1>4, <2>3, <2>4 DEF CheckConnected
<1>. QED BY <1>0, <1>1, <1>2, <1>3, <1>4, DisconnectingRegistry DEF AutoConnect

LEMMA NetworkRegistry == ASSUME NetInv, LifeInv, RegistryInv, Network PROVE RegistryInv'
<1>1. UNCHANGED <<active, registered, th>>
  BY DEF Network, regVars
<1>2. \A v \in Units : Ending(v)' = Ending(v)
  <2>1. ASSUME NEW f \in inflight, KernelOn(f) PROVE \A v \in Units : Ending(v)' = Ending(v)
    <3>1. f.op # "DISCONNECT"
      BY DEF LifeInv, Kinds
    <3>2. PICK ok, bytes : Complete(f, ok, bytes)
      BY <2>1 DEF KernelOn, Establish, EstablishFails, RecieveCompletes, SendCompletes, Aborts
    <3>3. CASE Heard(f)
      <4>1. PICK n \in 1..Len(iocp') :
               /\ \A i \in 1..Len(iocp') : i = n \/ i \in 1..Len(iocp)
               /\ \A i \in 1..Len(iocp) : i \in 1..Len(iocp') /\ i # n /\ iocp'[i] = iocp[i]
               /\ iocp'[n].op = f.op
        BY <3>2, <3>3, Completed
      <4>. QED BY <3>1, <4>1 DEF Ending
    <3>4. CASE ~Heard(f)
      BY <3>2, <3>4, SameEnding DEF Complete
    <3>. QED BY <3>3, <3>4
  <2>. QED BY <2>1, SameEnding DEF Network, PeerLeaves
<1>. QED BY <1>1, <1>2
     DEF RegistryInv, ConnectorOwn, Steady, SteadyAt, Agreed, Departing, Departs, Closes, Greeting, At, Units

LEMMA RegistryInit == Init => RegistryInv
<1> SUFFICES ASSUME Init PROVE RegistryInv
  OBVIOUS
<1>1. \A t \in Threads : th[t].pc = "idle"
  BY DEF Init, Idle
<1>2. Connector \in Threads /\ Workers \subseteq Threads
  BY DEF Threads
<1>3. iocp = << >> /\ registered = {} /\ \A u \in Units : ~active[u]
  BY DEF Init, WinInit
<1>4. \A u \in Units : ~Departing(u) /\ ~Greeting(u)
  BY <1>1, <1>2, <1>3, NoDeparture DEF Departing, Ending, Greeting, At, ServingLabels
<1>. QED BY <1>1, <1>2, <1>3, <1>4 DEF RegistryInv, ConnectorOwn, Steady, SteadyAt, Agreed, DrLabels, Units

LEMMA RegistryStep ==
  ASSUME OneWorker, NetInv, LifeInv, RegistryInv, [Next]_vars
  PROVE  RegistryInv'
<1>1. ASSUME NEW w \in Workers, Handler(w) PROVE RegistryInv'
  BY <1>1, DequeueRegistry, ServingRegistry, DecodeRegistry, DispatchRegistry, UpdateContextRegistry,
     IoStartRegistry, OnConnectRegistry, OnDisconnectRegistry, CleanupRegistry
     DEF Handler
<1>2. ASSUME NEW w \in Workers, Sending(w) PROVE RegistryInv'
  BY <1>2, SendRequestRegistry, ServingRegistry DEF Sending
<1>3. CASE \E w \in Workers : Worker(w)
  BY <1>1, <1>2, <1>3, DisconnectingRegistry DEF Worker, Threads
<1>4. CASE UNCHANGED vars
  BY <1>4 DEF vars, winVars, regVars, RegistryInv, ConnectorOwn, Steady, SteadyAt, Agreed, Departing,
              Departs, Closes, Ending, Greeting, At
<1>. QED BY <1>3, <1>4, ConnectorRegistry, NetworkRegistry DEF Next

LEMMA RegistryInvariant ==
  ASSUME OneWorker, "fin" \notin Faults
  PROVE  Spec => []RegistryInv
BY NetInvariant, LifeInvariant, RegistryInit, RegistryStep, PTL DEF Spec

(***************************************************************************)
(* With one worker the registry a broadcast walks holds the units that are *)
(* connected: a unit enters it with its connection and leaves it before    *)
(* the next one (NetUnit.cpp:219-264, ActiveNetUnitManager.hpp:40-68).     *)
(***************************************************************************)
THEOREM RegistryHoldsTheConnected ==
  ASSUME OneWorker, "fin" \notin Faults
  PROVE  Spec => []RegistryAgrees
<1>1. ASSUME NetInv, LifeInv, NEW u \in Units PROVE Leaving(u) <=> Departing(u)
  <2>1. \A t \in Thr(u) : t \in Threads
    BY DEF Thr
  <2>2. ASSUME Departing(u) PROVE Leaving(u)
    <3>1. CASE Ending(u) # {}
      <4>1. PICK i \in Ending(u) : TRUE
        BY <3>1
      <4>2. i \in Que(u) /\ iocp[i].op = "DISCONNECT"
        BY <4>1 DEF Ending, Que, Brings
      <4>3. <<"queue", i>> \in Closing(u) /\ <<"queue", i>>[1] # "worker"
        BY <1>1, <4>2, ClosingIs
      <4>. QED BY <4>3 DEF Leaving
    <3>2. CASE \E t \in Threads : Departs(th[t], u)
      <4>1. PICK t \in Threads : Departs(th[t], u)
        BY <3>2
      <4>2. t \in Thr(u)
        BY <4>1 DEF Departs, Thr, Works
      <4>3. CASE th[t].pc \in TakingDown
        <5>1. <<"request", t>> \in Closing(u) /\ <<"request", t>>[1] # "worker"
          BY <1>1, <4>2, <4>3, ClosingIs
        <5>. QED BY <5>1 DEF Leaving
      <4>4. CASE th[t].pc \notin TakingDown
        <5>1. <<"worker", t>> \in Closing(u) /\ <<"worker", t>>[2] = t
          BY <1>1, <4>1, <4>2, <4>4, ClosingIs DEF Departs
        <5>. QED BY <4>1, <5>1 DEF Leaving, Departs, DisconnectLabels, AcceptingLabels
      <4>. QED BY <4>3, <4>4
    <3>. QED BY <2>2, <3>1, <3>2 DEF Departing
  <2>3. ASSUME Leaving(u) PROVE Departing(u)
    <3>1. PICK c \in Closing(u) : c[1] = "worker" => th[c[2]].pc \notin {"cleanup"} \cup AcceptingLabels
      BY <2>3 DEF Leaving, DisconnectLabels, AcceptingLabels
    <3>2. CASE \E t \in Thr(u) : c = <<"request", t>> /\ th[t].pc \in TakingDown
      BY <3>2 DEF Departing, Departs, Thr, Works, Opens, OpeningLabels, TakingDown, AcceptingLabels
    <3>3. CASE \E i \in Que(u) : c = <<"queue", i>> /\ iocp[i].op = "DISCONNECT"
      BY <3>3 DEF Departing, Ending, Que, Brings
    <3>4. CASE \E t \in Thr(u) : /\ c = <<"worker", t>> /\ Closes(th[t], u)
                                 /\ th[t].pc \notin TakingDown
      BY <3>1, <3>4 DEF Departing, Departs, Thr
    <3>. QED BY <1>1, <3>1, <3>2, <3>3, <3>4, ClosingIs
  <2>. QED BY <2>2, <2>3
<1>2. NetInv /\ LifeInv /\ RegistryInv => RegistryAgrees
  BY <1>1 DEF RegistryInv, Agreed, RegistryAgrees, Units
<1>. QED BY <1>2, NetInvariant, LifeInvariant, RegistryInvariant, PTL

(***************************************************************************)
(* With one worker, and units that only accept, a send that is refused is  *)
(* noticed: no pooled object is lost (OverlappedSocket.cpp:80-94,          *)
(* NetUnit.cpp:177-198).                                                   *)
(***************************************************************************)
THEOREM NothingLeaks ==
  ASSUME OneWorker, "fin" \notin Faults, ConnectUnits = {}
  PROVE  Spec => []NoLeak
<1>1. Init => NoLeak
  BY DEF Init, NoLeak
<1>2. ASSUME NetInv, LifeInv, RegistryInv, NoLeak, [Next]_vars PROVE NoLeak'
  <2>1. ASSUME NEW w \in Workers, AsyncSend(w) PROVE NoLeak'
    <3>1. th[w].pc = "wsasend" /\ th[w].tgt \in Units
      BY <1>2, <2>1, WorkerAt DEF AsyncSend, At, Fits, UnitsKnown
    <3>2. active[th[w].tgt]
      BY <1>2, <3>1 DEF RegistryInv, Steady, SteadyAt, Units
    <3>3. sock[th[w].tgt] = "linked"
      BY <1>2, <3>1, <3>2 DEF LifeInv, Sockets
    <3>4. AsyncResult(th[w].tgt) # "lost"
      BY <3>3 DEF AsyncResult
    <3>5. leaked' = leaked
      BY <2>1, <3>4 DEF AsyncSend
    <3>. QED BY <1>2, <3>5 DEF NoLeak
  <2>2. ASSUME NEW t \in Threads, Disconnecting(t) PROVE leaked' = leaked
    BY <2>2 DEF Disconnecting, DisconnectRequest, ShutDownSocket, CloseOrDisable, PostDisconnect, poolVars
  <2>3. ASSUME NEW w \in Workers, Handler(w) PROVE leaked' = leaked
    BY <2>3 DEF Handler, Dequeue, Failed, Decode, Dispatch, UpdateContext, IoStart, OnConnect, Enable,
                RecieveRequest, AsyncRecieve, Recieved, Processed, OnDisconnect, Cleanup, BindIocp,
                AcceptRequest, AsyncAccept, poolVars
  <2>4. ASSUME NEW w \in Workers, SendRequest(w) \/ SendsDone(w) PROVE leaked' = leaked
    BY <2>4 DEF SendRequest, SendsDone, poolVars
  <2>5. CASE AutoConnect
    BY <1>2, <2>2, <2>5 DEF AutoConnect, CheckActive, TryConnect, AsyncConnect, CheckConnected, poolVars, NoLeak,
                            Threads
  <2>6. CASE Network
    <3>1. loose = {}
      BY <1>2 DEF NetInv, SharedOK, WinTypeOK
    <3>2. \A f : Unheard(f) = {}
      BY <3>1 DEF Unheard, Heard
    <3>. QED BY <1>2, <2>6, <3>2 DEF Network, NoLeak
  <2>7. CASE UNCHANGED vars
    BY <1>2, <2>7 DEF vars, poolVars, NoLeak
  <2>. QED BY <1>2, <2>1, <2>2, <2>3, <2>4, <2>5, <2>6, <2>7 DEF Next, Worker, Sending, NoLeak, Threads
<1>. QED BY <1>1, <1>2, NetInvariant, LifeInvariant, RegistryInvariant, PTL DEF Spec
=============================================================================
