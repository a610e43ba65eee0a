------------------------ MODULE GatewayUpstreamProofs -----------------------
(***************************************************************************)
(* The safety of the gateway's connections, continued: the steps of one    *)
(* process in its pump and at its tick keep the invariant of a process     *)
(* (Local), the budget over all the processes, and the theorems.           *)
(***************************************************************************)
EXTENDS GatewayConnProofs

\* Leaves go to Zenon unless they name another prover.
USE ZenonT(30)

\* The head of the queue goes to an idle connection.
LEMMA DispatchedIs ==
  ASSUME NEW g \in Process, NEW u \in Slots, NEW c, c = Head(g.waiting), g.waiting # <<>>, g.ups[u].rd <=> ~g.ups[u].conn
  PROVE  LET h == Dispatched(g, u) IN
         /\ Kept(g, h) /\ h.lied = g.lied /\ h.waiting = Tail(g.waiting) /\ c \in Reqs
         /\ h.rq = [g.rq EXCEPT ![c] = [g.rq[c] EXCEPT !.st = "up", !.timer = FALSE]]
         /\ \A v \in Slots : v # u => h.ups[v] = g.ups[v]
         /\ h.ups[u].on = g.ups[u].on /\ h.ups[u].conn = g.ups[u].conn /\ h.ups[u].whole = g.ups[u].whole
         /\ h.ups[u].busy = TRUE /\ h.ups[u].cur = c /\ h.ups[u].served = c /\ h.ups[u].rd = g.ups[u].rd
         /\ h.ups[u].dl = IF g.ups[u].conn THEN "connect"
                          ELSE IF c = None \/ ~g.rq[c].paused THEN "read" ELSE "off"
<1> DEFINE y == [g.ups[u] EXCEPT !.busy = TRUE, !.cur = c, !.served = c]
           f == [g.ups EXCEPT ![u] = y]
           q == [g.rq[c] EXCEPT !.st = "up", !.timer = FALSE]
           rq == [g.rq EXCEPT ![c] = q]
           g1 == [g EXCEPT !.waiting = Tail(g.waiting), !.rq = rq, !.ups = f]
           h == deadline_arm(g1, u)
<1>0. /\ g.ups \in [Slots -> Upstream] /\ g.ups[u] \in Upstream /\ g.waiting \in Seq(Reqs)
      /\ g.rq \in [Reqs -> Request]
  BY DEF Process
<1>1. c \in Reqs /\ Tail(g.waiting) \in Seq(Reqs) /\ g.rq[c] \in Request
  BY <1>0, SMT
<1>2. Dispatched(g, u) = h
  <2>1. (g.ups[u].rd \/ (conf.idle /\ ~g.ups[u].conn)) = g.ups[u].rd
    BY <1>0 DEF Upstream
  <2>2. [g.ups[u] EXCEPT !.busy = TRUE, !.cur = c, !.served = c,
                         !.rd = g.ups[u].rd \/ (conf.idle /\ ~g.ups[u].conn)] = y
    BY <1>0, <2>1 DEF Upstream
  <2> HIDE DEF y
  <2>3. [g EXCEPT !.waiting = Tail(g.waiting), !.rq[c] = q, !.ups[u] = y] = g1
    BY <1>0, <1>1
  <2> QED BY <2>2, <2>3 DEF Dispatched
<1>3. /\ y \in Upstream /\ y.on = g.ups[u].on /\ y.conn = g.ups[u].conn /\ y.whole = g.ups[u].whole
      /\ y.busy = TRUE /\ y.cur = c /\ y.served = c /\ y.rd = g.ups[u].rd
  BY <1>0, <1>1 DEF Upstream
<1>4. q \in Request /\ q.paused = g.rq[c].paused
  BY <1>1 DEF Request
<1> HIDE DEF y, q
<1>5. f \in [Slots -> Upstream] /\ \A v \in Slots : f[v] = IF v = u THEN y ELSE g.ups[v]
  BY <1>0, <1>3, SetUp
<1>6. rq \in [Reqs -> Request] /\ rq[c] = q
  BY <1>0, <1>1, <1>4
<1> HIDE DEF f, rq
<1>7. Kept(g, g1) /\ g1.lied = g.lied /\ g1.waiting = Tail(g.waiting) /\ g1.rq = rq /\ g1.ups = f
  BY <1>1, <1>5, <1>6 DEF Process, Kept
<1> HIDE DEF g1
<1>8. /\ Kept(g1, h) /\ h.lied = g1.lied /\ h.waiting = g1.waiting /\ h.rq = g1.rq
      /\ \A v \in Slots : v # u => h.ups[v] = g1.ups[v]
      /\ Alike(g1.ups[u], h.ups[u]) /\ h.ups[u].rd = g1.ups[u].rd
      /\ h.ups[u].dl = ArmFor(g1.ups[u], g1.rq)
  BY <1>7, ArmIs DEF Kept
<1> HIDE DEF h
<1>9. h.ups[u].dl = IF g.ups[u].conn THEN "connect"
                    ELSE IF c = None \/ ~g.rq[c].paused THEN "read" ELSE "off"
  BY <1>3, <1>4, <1>5, <1>6, <1>7, <1>8 DEF ArmFor, Paused
<1>10. Kept(g, h)
  BY <1>7, <1>8 DEF Kept
<1>11. /\ h.lied = g.lied /\ h.waiting = Tail(g.waiting) /\ h.rq = rq
       /\ \A v \in Slots : v # u => h.ups[v] = g.ups[v]
       /\ h.ups[u].on = g.ups[u].on /\ h.ups[u].conn = g.ups[u].conn /\ h.ups[u].whole = g.ups[u].whole
       /\ h.ups[u].busy = TRUE /\ h.ups[u].cur = c /\ h.ups[u].served = c /\ h.ups[u].rd = g.ups[u].rd
  BY <1>3, <1>5, <1>7, <1>8, SMTT(60) DEF Alike
<1> QED BY <1>1, <1>2, <1>9, <1>10, <1>11 DEF rq, q

LEMMA QueueTail ==
  ASSUME NEW q \in Seq(Reqs), q # <<>>, NEW rq, Queue(q, rq), NEW rq2,
         rq2[Head(q)].st = "up", ~rq2[Head(q)].timer,
         \A d \in Reqs : d # Head(q) => rq2[d] = rq[d]
  PROVE  Queue(Tail(q), rq2)
<1>1. /\ Tail(q) \in Seq(Reqs) /\ Len(Tail(q)) = Len(q) - 1 /\ Len(q) \in Nat \ {0}
      /\ \A i \in 1..Len(Tail(q)) : Tail(q)[i] = q[i + 1] /\ i + 1 \in 1..Len(q)
      /\ Head(q) = q[1] /\ 1 \in 1..Len(q) /\ \A i \in 1..Len(q) : q[i] \in Reqs
  BY SMTT(30)
<1>2. \A i \in 1..Len(Tail(q)) : Tail(q)[i] # Head(q)
  BY <1>1, SMTT(30) DEF Queue
<1>3. \A i \in 1..Len(Tail(q)) : rq2[Tail(q)[i]].st = "queued"
  BY <1>1, <1>2, SMTT(30) DEF Queue
<1>4. \A i, j \in 1..Len(Tail(q)) : Tail(q)[i] = Tail(q)[j] => i = j
  <2> SUFFICES ASSUME NEW i \in 1..Len(Tail(q)), NEW j \in 1..Len(Tail(q)), Tail(q)[i] = Tail(q)[j]
               PROVE  i = j
    OBVIOUS
  <2>1. i \in Int /\ j \in Int /\ i + 1 \in 1..Len(q) /\ j + 1 \in 1..Len(q) /\ q[i + 1] = q[j + 1]
    BY <1>1, SMTT(30)
  <2>2. i + 1 = j + 1
    BY <2>1 DEF Queue
  <2> QED BY <2>1, <2>2, SMTT(30)
<1>5. ASSUME NEW d \in Reqs, rq2[d].st = "queued" PROVE \E i \in 1..Len(Tail(q)) : Tail(q)[i] = d
  <2>1. d # Head(q) /\ rq[d].st = "queued"
    BY <1>5
  <2>2. PICK j \in 1..Len(q) : q[j] = d
    BY <2>1 DEF Queue
  <2>3. j # 1 /\ j \in Int
    BY <1>1, <2>1, <2>2, SMTT(30)
  <2>4. j - 1 \in 1..Len(Tail(q)) /\ (j - 1) + 1 = j
    BY <1>1, <2>3, SMTT(30)
  <2>5. Tail(q)[j - 1] = d
    BY <1>1, <2>2, <2>4
  <2> QED BY <2>4, <2>5
<1>6. ASSUME NEW d \in Reqs
      PROVE  /\ rq2[d].timer => rq2[d].st = "queued"
             /\ rq2[d].paused \/ rq2[d].head # "none" => rq2[d].st = "up"
  BY SMT DEF Queue
<1> QED BY <1>3, <1>4, <1>5, <1>6 DEF Queue

\* PumpDispatch hands the head of the queue to u, which was idle.
LEMMA LocalDispatched ==
  ASSUME NEW g, Local(g), g.pc = "pump", g.half = "no", g.waiting # <<>>, NEW u \in Idle(g)
  PROVE  LET h == Dispatched(g, u) IN
         /\ Local(h) /\ Kept(g, h) /\ u \in Slots /\ h.ups[u].on
         /\ Cardinality(Procs) > 1 /\ Idle(h) \ {u} # {} => h.tick \/ h.rearm
<1> DEFINE c == Head(g.waiting)
           h == Dispatched(g, u)
<1>0. /\ g \in Process /\ g.rq \in [Reqs -> Request] /\ g.ups \in [Slots -> Upstream] /\ g.waiting \in Seq(Reqs)
      /\ u \in Slots /\ g.ups[u].on /\ ~g.ups[u].busy /\ c \in Reqs
  BY SMT DEF Local, Process, Idle, Ups
<1>1. Queue(g.waiting, g.rq) /\ Conns(g.ups, g.rq)
  BY DEF Local
<1>2. g.rq[c].st = "queued" /\ ~g.rq[c].paused /\ g.rq[c].head = "none"
  <2>1. c = g.waiting[1] /\ 1 \in 1..Len(g.waiting)
    BY <1>0, SMTT(30)
  <2> HIDE DEF c
  <2>2. g.rq[c].st = "queued"
    BY <1>1, <2>1 DEF Queue
  <2> QED BY <1>0, <1>1, <2>2 DEF Queue
<1>3. Proper(g.ups[u], g.rq) /\ g.ups[u].served = None /\ g.ups[u].cur = None
  BY <1>0, <1>1 DEF Conns, Proper
<1>4. g.ups[u].rd <=> ~g.ups[u].conn
  BY <1>0, <1>3 DEF Proper, Paused
<1>5. /\ Kept(g, h) /\ h.lied = g.lied /\ h.waiting = Tail(g.waiting)
      /\ h.rq = [g.rq EXCEPT ![c] = [g.rq[c] EXCEPT !.st = "up", !.timer = FALSE]]
      /\ \A v \in Slots : v # u => h.ups[v] = g.ups[v]
      /\ h.ups[u].on = g.ups[u].on /\ h.ups[u].conn = g.ups[u].conn /\ h.ups[u].whole = g.ups[u].whole
      /\ h.ups[u].busy = TRUE /\ h.ups[u].cur = c /\ h.ups[u].served = c /\ h.ups[u].rd = g.ups[u].rd
      /\ h.ups[u].dl = IF g.ups[u].conn THEN "connect"
                       ELSE IF c = None \/ ~g.rq[c].paused THEN "read" ELSE "off"
  BY <1>0, <1>4, DispatchedIs
<1> HIDE DEF h, c
<1>6. /\ h.rq[c].st = "up" /\ h.rq[c].timer = FALSE /\ h.rq[c].paused = g.rq[c].paused
      /\ \A d \in Reqs : d # c => h.rq[d] = g.rq[d]
  BY <1>0, <1>5, SMT DEF Request
<1>7. c # None
  BY <1>0, GatewayUpstreamAssumption
<1>8. ASSUME NEW v \in Slots PROVE g.ups[v].cur # c
  BY <1>1, <1>2, <1>7 DEF Conns, Proper
<1>9. Proper(h.ups[u], h.rq)
  <2>1. ~Paused(h.ups[u], h.rq)
    BY <1>2, <1>5, <1>6 DEF Paused
  <2>2. ~g.ups[u].whole
    BY <1>3 DEF Proper
  <2> QED BY <1>0, <1>2, <1>4, <1>5, <1>6, <1>7, <2>1, <2>2 DEF Proper
<1>10. ASSUME NEW v \in Slots PROVE Proper(h.ups[v], h.rq)
  <2>1. CASE v = u
    BY <1>9, <2>1
  <2>2. CASE v # u
    <3>1. Proper(g.ups[v], g.rq) /\ h.ups[v] = g.ups[v]
      BY <1>1, <1>5, <2>2 DEF Conns
    <3>2. g.ups[v].cur # None => h.rq[g.ups[v].cur] = g.rq[g.ups[v].cur]
      <4>1. g.ups[v].cur \in Reqs \cup {None}
        BY <1>0 DEF Upstream
      <4> QED BY <1>6, <1>8, <4>1
    <3> QED BY <3>1, <3>2 DEF Proper, Paused
  <2> QED BY <2>1, <2>2
<1>11. ASSUME NEW v \in Slots, NEW w \in Slots, h.ups[v].cur # None, h.ups[v].cur = h.ups[w].cur
       PROVE  v = w
  BY <1>1, <1>5, <1>8, <1>11, SMTT(30) DEF Conns
<1>12. ASSUME NEW d \in Reqs, h.rq[d].st = "up" PROVE \E v \in Slots : h.ups[v].cur = d
  <2>1. CASE d = c
    BY <1>0, <1>5, <2>1
  <2>2. CASE d # c
    <3>1. PICK v \in Slots : g.ups[v].cur = d
      BY <1>1, <1>6, <1>12, <2>2 DEF Conns
    <3>2. v # u
      BY <1>3, <3>1, GatewayUpstreamAssumption
    <3> QED BY <1>5, <3>1, <3>2
  <2> QED BY <2>1, <2>2
<1>13. Conns(h.ups, h.rq)
  BY <1>10, <1>11, <1>12 DEF Conns
<1>14. Queue(h.waiting, h.rq)
  <2>1. c = Head(g.waiting)
    BY DEF c
  <2>2. /\ h.rq[Head(g.waiting)].st = "up" /\ ~h.rq[Head(g.waiting)].timer
        /\ \A d \in Reqs : d # Head(g.waiting) => h.rq[d] = g.rq[d]
    BY <1>6, <2>1
  <2>3. Queue(Tail(g.waiting), h.rq)
    <3>1. g.waiting \in Seq(Reqs) /\ g.waiting # <<>> /\ Queue(g.waiting, g.rq)
      BY <1>0, <1>1
    <3> QED BY <2>2, <3>1, QueueTail, SMTT(30)
  <2> QED BY <1>5, <2>3
<1>15. Ups(h) = Ups(g) /\ Idle(h) = Idle(g) \ {u}
  BY <1>0, <1>5 DEF Ups, Idle
<1>16. /\ h \in Process /\ h.pc = g.pc /\ h.half = g.half /\ h.held = g.held /\ h.alive = g.alive
       /\ h.tick = g.tick /\ h.rearm = g.rearm
  BY <1>5 DEF Kept
<1>17. Gauge(h)
  BY <1>15, <1>16 DEF Local, Gauge, nupstreams
<1>18. Cardinality(Procs) > 1 /\ Idle(h) # {} => h.tick \/ h.rearm
  BY <1>15, <1>16 DEF Local, Pumped
<1>19. Pumped(h)
  BY <1>16, <1>18 DEF Pumped
<1>20. Local(h)
  BY <1>5, <1>13, <1>14, <1>16, <1>17, <1>19 DEF Local
<1> QED BY <1>0, <1>5, <1>18, <1>20 DEF h

\* g with a connection in slot u, connected (b is FALSE) or connecting.
Opened(g, h, u, b) ==
  /\ h \in Process /\ h.alive = g.alive /\ h.half = g.half /\ h.held = g.held /\ h.again = g.again
  /\ h.rearm = g.rearm /\ h.tick = g.tick /\ h.pc = "pump" /\ h.lied = g.lied
  /\ h.waiting = g.waiting /\ h.rq = g.rq
  /\ \A v \in Slots : v # u => h.ups[v] = g.ups[v]
  /\ h.ups[u].on = TRUE /\ h.ups[u].conn = b /\ h.ups[u].busy = FALSE /\ h.ups[u].cur = None
  /\ h.ups[u].served = None /\ h.ups[u].whole = FALSE /\ h.ups[u].rd = ~b
  /\ h.ups[u].dl = IF b THEN "connect" ELSE "off"

LEMMA ConnectingIs ==
  ASSUME NEW g \in Process, g.pc = "connect", NEW b \in BOOLEAN, NEW u \in Slots, u = CHOOSE v \in Slots \ Ups(g) : TRUE
  PROVE  Opened(g, Connecting(g, b), u, b)
<1> DEFINE y == [NoUpstream EXCEPT !.on = TRUE, !.conn = b, !.rd = ~b]
           f == [g.ups EXCEPT ![u] = y]
           g1 == [g EXCEPT !.pc = "pump", !.ups = f]
           h == deadline_arm(g1, u)
<1>0. g.ups \in [Slots -> Upstream]
  BY DEF Process
<1>1. Connecting(g, b) = h
  <2>1. [g EXCEPT !.pc = "pump", !.ups[u] = y] = g1
    BY <1>0
  <2> QED BY <2>1 DEF Connecting
<1>2. /\ y \in Upstream /\ y.on = TRUE /\ y.conn = b /\ y.busy = FALSE /\ y.cur = None
      /\ y.served = None /\ y.whole = FALSE /\ y.rd = ~b
  BY DEF NoUpstream, Upstream
<1> HIDE DEF y
<1>3. f \in [Slots -> Upstream] /\ \A v \in Slots : f[v] = IF v = u THEN y ELSE g.ups[v]
  BY <1>0, <1>2, SetUp
<1> HIDE DEF f
<1>4. /\ g1 \in Process /\ g1.alive = g.alive /\ g1.half = g.half /\ g1.held = g.held /\ g1.again = g.again
      /\ g1.rearm = g.rearm /\ g1.tick = g.tick /\ g1.pc = "pump" /\ g1.lied = g.lied
      /\ g1.waiting = g.waiting /\ g1.rq = g.rq /\ g1.ups = f
  BY <1>3 DEF Process
<1> HIDE DEF g1
<1>5. /\ Kept(g1, h) /\ h.lied = g1.lied /\ h.waiting = g1.waiting /\ h.rq = g1.rq
      /\ \A v \in Slots : v # u => h.ups[v] = g1.ups[v]
      /\ Alike(g1.ups[u], h.ups[u]) /\ h.ups[u].rd = g1.ups[u].rd
      /\ h.ups[u].dl = ArmFor(g1.ups[u], g1.rq)
  BY <1>4, ArmIs
<1> HIDE DEF h
<1>6. h.ups[u].dl = IF b THEN "connect" ELSE "off"
  BY <1>2, <1>3, <1>4, <1>5, SMTT(60) DEF ArmFor
<1>7. /\ h.ups[u].on = TRUE /\ h.ups[u].conn = b /\ h.ups[u].busy = FALSE /\ h.ups[u].cur = None
      /\ h.ups[u].served = None /\ h.ups[u].whole = FALSE /\ h.ups[u].rd = ~b
      /\ \A v \in Slots : v # u => h.ups[v] = g.ups[v]
  BY <1>2, <1>3, <1>4, <1>5, SMTT(60) DEF Alike
<1>8. /\ h \in Process /\ h.alive = g.alive /\ h.half = g.half /\ h.held = g.held /\ h.again = g.again
      /\ h.rearm = g.rearm /\ h.tick = g.tick /\ h.pc = "pump" /\ h.lied = g.lied
      /\ h.waiting = g.waiting /\ h.rq = g.rq
  BY <1>4, <1>5 DEF Kept
<1> QED BY <1>1, <1>6, <1>7, <1>8 DEF Opened

\* transport_connect() opened a connection: there was a slot for it, because
\* the gauge counts it already and is within the budget.
LEMMA LocalConnecting ==
  ASSUME NEW g, Local(g), g.alive, g.half = "no", g.pc = "connect", NEW b \in BOOLEAN,
         conf \in Configured, g.held <= conf.max
  PROVE  LET h == Connecting(g, b) IN Local(h) /\ h.held = g.held /\ h.half = g.half
<1> DEFINE u == CHOOSE v \in Slots \ Ups(g) : TRUE
           h == Connecting(g, b)
<1>0. g \in Process /\ g.rq \in [Reqs -> Request] /\ g.ups \in [Slots -> Upstream] /\ ~g.lied /\ g.held \in Nat
  BY DEF Local, Process
<1>1. Queue(g.waiting, g.rq) /\ Conns(g.ups, g.rq)
  BY DEF Local
<1>2. IsFiniteSet(Ups(g)) /\ Cardinality(Ups(g)) \in Nat /\ Ups(g) \subseteq Slots
  BY SlotsAre, FS_Subset, FS_CardinalityType DEF Ups
<1>3. g.held = Cardinality(Ups(g)) + 1
  BY <1>2 DEF Local, Gauge, nupstreams
<1>4. Slots \ Ups(g) # {}
  <2>1. conf.max \in Nat \ {0} /\ 1..conf.max \subseteq Slots /\ IsFiniteSet(Slots)
    BY SlotsAre
  <2>2. IsFiniteSet(1..conf.max) /\ Cardinality(1..conf.max) = conf.max
    BY <2>1, FS_Interval, SMTT(30)
  <2>3. Cardinality(1..conf.max) <= Cardinality(Slots) /\ Cardinality(Slots) \in Nat
    BY <2>1, FS_Subset, FS_CardinalityType
  <2>4. Ups(g) # Slots
    BY <1>2, <1>3, <2>1, <2>2, <2>3, SMTT(30)
  <2> QED BY <1>2, <2>4
<1>5. u \in Slots /\ u \notin Ups(g)
  BY <1>4
<1>6. /\ h \in Process /\ h.alive = g.alive /\ h.half = g.half /\ h.held = g.held /\ h.again = g.again
      /\ h.rearm = g.rearm /\ h.tick = g.tick /\ h.pc = "pump" /\ h.lied = g.lied
      /\ h.waiting = g.waiting /\ h.rq = g.rq
      /\ \A v \in Slots : v # u => h.ups[v] = g.ups[v]
      /\ h.ups[u].on = TRUE /\ h.ups[u].conn = b /\ h.ups[u].busy = FALSE /\ h.ups[u].cur = None
      /\ h.ups[u].served = None /\ h.ups[u].whole = FALSE /\ h.ups[u].rd = ~b
      /\ h.ups[u].dl = IF b THEN "connect" ELSE "off"
  <2>1. u = CHOOSE v \in Slots \ Ups(g) : TRUE
    OBVIOUS
  <2> HIDE DEF u, h
  <2>2. h = Connecting(g, b) /\ g \in Process /\ u \in Slots
    BY <1>0, <1>5 DEF h
  <2>3. Opened(g, h, u, b)
    BY <2>1, <2>2, ConnectingIs
  <2> QED BY <2>3 DEF Opened
<1> HIDE DEF u, h
<1>7. ~g.ups[u].on /\ g.ups[u].cur = None
  <2>1. ~g.ups[u].on
    BY <1>5 DEF Ups
  <2> QED BY <1>1, <1>5, <2>1, SMTT(60) DEF Conns, Proper, NoUpstream
<1>8. Proper(h.ups[u], h.rq)
  BY <1>6 DEF Proper, Paused
<1>9. Conns(h.ups, h.rq)
  <2>1. h.ups \in [Slots -> Upstream]
    BY <1>6 DEF Process
  <2>2. h.ups[u].cur = g.ups[u].cur
    BY <1>6, <1>7
  <2> QED BY <1>0, <1>1, <1>5, <1>6, <1>8, <2>1, <2>2, ConnsTo
<1>10. Ups(h) = Ups(g) \cup {u}
  BY <1>5, <1>6 DEF Ups
<1>11. Cardinality(Ups(h)) = Cardinality(Ups(g)) + 1
  BY <1>2, <1>5, <1>10, FS_AddElement
<1>12. Gauge(h)
  BY <1>2, <1>3, <1>6, <1>11, SMTT(60) DEF Gauge, nupstreams
<1>13. g.waiting # <<>> /\ Idle(g) = {}
  BY DEF Local, Pumped
<1>14. Idle(h) = {u}
  <2>1. ASSUME NEW v \in Idle(h) PROVE v = u
    <3>1. v \in Slots /\ h.ups[v].on /\ ~h.ups[v].busy
      BY DEF Idle, Ups
    <3> QED BY <1>6, <1>13, <3>1 DEF Idle, Ups
  <2>2. u \in Idle(h)
    BY <1>5, <1>6 DEF Idle, Ups
  <2> QED BY <2>1, <2>2
<1>15. Pumped(h)
  BY <1>6, <1>13, <1>14 DEF Pumped
<1>16. Local(h)
  BY <1>0, <1>1, <1>6, <1>9, <1>12, <1>15 DEF Local
<1> QED BY <1>6, <1>16 DEF h

-----------------------------------------------------------------------------
(* The words of the budget, the tick, and the start of a process.          *)

\* A process as h beside g, with the same connections and requests.
Moved(g, h) ==
  /\ h \in Process /\ h.alive = g.alive /\ h.again = g.again /\ h.lied = g.lied
  /\ h.ups = g.ups /\ h.waiting = g.waiting /\ h.rq = g.rq

LEMMA MovedSame ==
  ASSUME NEW g, NEW h, Moved(g, h)
  PROVE  Ups(h) = Ups(g) /\ Idle(h) = Idle(g) /\ nupstreams(h) = nupstreams(g)
  BY DEF Moved, Ups, Idle, nupstreams

LEMMA LocalMoved ==
  ASSUME NEW g, Local(g), NEW h, Moved(g, h), Gauge(h), Pumped(h)
  PROVE  Local(h)
  BY DEF Moved, Local

\* fpm_http_budget_take() refused, or the shared word is charged.
LEMMA LocalTake ==
  ASSUME NEW g, Local(g), g.alive, g.pc = "pump", g.half = "no", g.waiting # <<>>, Idle(g) = {}
  PROVE  /\ Local([g EXCEPT !.pc = "full"])
         /\ Local([g EXCEPT !.pc = "connect", !.half = "take"])
<1> DEFINE f == [g EXCEPT !.pc = "full"]
           h == [g EXCEPT !.pc = "connect", !.half = "take"]
<1>0. g \in Process /\ Gauge(g)
  BY DEF Local
<1>1. /\ Moved(g, f) /\ f.pc = "full" /\ f.half = "no" /\ f.held = g.held /\ f.tick = g.tick /\ f.rearm = g.rearm
      /\ Moved(g, h) /\ h.pc = "connect" /\ h.half = "take" /\ h.held = g.held /\ h.tick = g.tick /\ h.rearm = g.rearm
  BY <1>0 DEF Process, Moved
<1> HIDE DEF f, h
<1>2. /\ Idle(f) = {} /\ nupstreams(f) = nupstreams(g) /\ f.alive = g.alive /\ f.waiting = g.waiting
      /\ Idle(h) = {} /\ nupstreams(h) = nupstreams(g) /\ h.alive = g.alive /\ h.waiting = g.waiting
  BY <1>1, MovedSame DEF Moved
<1>3. Gauge(f) /\ Gauge(h)
  BY <1>0, <1>1, <1>2 DEF Gauge
<1>4. Pumped(f) /\ Pumped(h)
  BY <1>1, <1>2 DEF Pumped
<1> QED BY <1>1, <1>3, <1>4, LocalMoved DEF f, h

\* The own gauge follows.
LEMMA LocalTaken ==
  ASSUME NEW g, Local(g), g.alive, g.half = "take"
  PROVE  LET h == [g EXCEPT !.held = g.held + 1, !.half = "no"] IN
         Local(h) /\ h.held = g.held + 1 /\ h.half = "no" /\ g.held \in Nat
<1> DEFINE h == [g EXCEPT !.held = g.held + 1, !.half = "no"]
<1>0. g \in Process /\ Gauge(g) /\ Pumped(g) /\ g.held \in Nat
  BY DEF Local, Process
<1>1. Moved(g, h) /\ h.pc = g.pc /\ h.half = "no" /\ h.held = g.held + 1 /\ h.tick = g.tick /\ h.rearm = g.rearm
  <2>1. PICK n \in Nat : n = g.held + 1
    BY <1>0, SMTT(30)
  <2>2. [g EXCEPT !.held = n, !.half = "no"] = h
    BY <2>1
  <2> HIDE DEF h
  <2> QED BY <1>0, <2>1, <2>2 DEF Process, Moved
<1> HIDE DEF h
<1>2. Idle(h) = Idle(g) /\ nupstreams(h) = nupstreams(g) /\ h.alive = g.alive /\ h.waiting = g.waiting /\ h.again = g.again
  BY <1>1, MovedSame DEF Moved
<1>3. g.pc = "connect" /\ g.held = nupstreams(g) + 0
  BY <1>0 DEF Gauge
<1>4. nupstreams(g) \in Nat
  BY SlotsAre, FS_Subset, FS_CardinalityType DEF nupstreams, Ups
<1>5. Gauge(h)
  BY <1>0, <1>1, <1>2, <1>3, <1>4, SMTT(30) DEF Gauge
<1>6. Pumped(h)
  BY <1>0, <1>1, <1>2, <1>3 DEF Pumped
<1>7. Local(h)
  BY <1>1, <1>5, <1>6, LocalMoved
<1> QED BY <1>0, <1>1, <1>7 DEF h

\* fpm_http_budget_give_back() wrote the shared word too.
LEMMA LocalGiven ==
  ASSUME NEW g, Local(g), g.alive, g.half = "give"
  PROVE  LET h == [g EXCEPT !.half = "no"] IN Local(h) /\ h.held = g.held /\ h.half = "no"
<1> DEFINE h == [g EXCEPT !.half = "no"]
<1>0. g \in Process /\ Gauge(g) /\ Pumped(g)
  BY DEF Local
<1>1. Moved(g, h) /\ h.pc = g.pc /\ h.half = "no" /\ h.held = g.held /\ h.tick = g.tick /\ h.rearm = g.rearm
  BY <1>0 DEF Process, Moved
<1> HIDE DEF h
<1>2. Idle(h) = Idle(g) /\ nupstreams(h) = nupstreams(g) /\ h.alive = g.alive /\ h.waiting = g.waiting /\ h.again = g.again
  BY <1>1, MovedSame DEF Moved
<1>3. Gauge(h)
  BY <1>0, <1>1, <1>2 DEF Gauge
<1>4. Pumped(h)
  BY <1>0, <1>1, <1>2 DEF Pumped
<1>5. Local(h)
  BY <1>1, <1>3, <1>4, LocalMoved
<1> QED BY <1>1, <1>5 DEF h

\* transport_connect() failed: the gauge gives the slot back first.
LEMMA LocalUnconnected ==
  ASSUME NEW g, Local(g), g.alive, g.half = "no", g.pc = "connect", NEW next \in {"unreachable", "full"}
  PROVE  LET h == [g EXCEPT !.held = g.held - 1, !.half = "give", !.pc = next] IN
         Local(h) /\ h.held = g.held - 1 /\ h.half = "give" /\ g.held \in Nat \ {0}
<1> DEFINE h == [g EXCEPT !.held = g.held - 1, !.half = "give", !.pc = next]
<1>0. g \in Process /\ Gauge(g) /\ Pumped(g) /\ g.held \in Nat
  BY DEF Local, Process
<1>1. nupstreams(g) \in Nat /\ g.held = nupstreams(g) + 1
  BY <1>0, SlotsAre, FS_Subset, FS_CardinalityType DEF nupstreams, Ups, Gauge
<1>2. g.held - 1 \in Nat /\ g.held - 1 = nupstreams(g)
  BY <1>0, <1>1, SMTT(30)
<1>3. Moved(g, h) /\ h.pc = next /\ h.half = "give" /\ h.held = g.held - 1 /\ h.tick = g.tick /\ h.rearm = g.rearm
  BY <1>0, <1>2 DEF Process, Moved
<1> HIDE DEF h
<1>4. Idle(h) = Idle(g) /\ nupstreams(h) = nupstreams(g) /\ h.alive = g.alive /\ h.waiting = g.waiting /\ h.again = g.again
  BY <1>3, MovedSame DEF Moved
<1>5. Gauge(h)
  BY <1>0, <1>1, <1>2, <1>3, <1>4, SMTT(60) DEF Gauge
<1>6. Pumped(h)
  BY <1>0, <1>3, <1>4 DEF Pumped
<1>7. Local(h)
  BY <1>3, <1>5, <1>6, LocalMoved
<1>8. g.held \in Nat \ {0}
  BY <1>0, <1>1, SMTT(30)
<1> QED BY <1>3, <1>7, <1>8 DEF h


\* The tick pumps, and is armed again as long as there is a connection.
LEMMA LocalTickPump ==
  ASSUME NEW g, Local(g), g.half = "no", g.pc \in {"loop", "tick"}, NEW b \in BOOLEAN
  PROVE  LET h == TickPump([g EXCEPT !.tick = b]) IN Local(h) /\ h.held = g.held /\ h.half = g.half
<1> DEFINE t == [g EXCEPT !.tick = b]
           more == nupstreams(t) > 0 \/ t.waiting # <<>>
           h == [t EXCEPT !.pc = "pump", !.rearm = more]
<1>0. g \in Process /\ Gauge(g)
  BY DEF Local
<1>1. Moved(g, t) /\ t.pc = g.pc /\ t.half = "no" /\ t.held = g.held
  BY <1>0 DEF Process, Moved
<1>2. TickPump(t) = h
  BY DEF TickPump
<1> HIDE DEF t
<1>3. more \in BOOLEAN
  OBVIOUS
<1>4. nupstreams(t) = nupstreams(g) /\ Idle(t) = Idle(g) /\ Ups(t) = Ups(g)
  BY <1>1, MovedSame
<1>5. Idle(g) # {} => more
  <2>1. IsFiniteSet(Ups(g)) /\ Cardinality(Ups(g)) \in Nat
    BY SlotsAre, FS_Subset, FS_CardinalityType DEF Ups
  <2>2. Idle(g) # {} => Cardinality(Ups(g)) # 0
    BY <2>1, FS_EmptySet DEF Idle
  <2> QED BY <1>4, <2>1, <2>2, SMTT(30) DEF nupstreams
<1> HIDE DEF more
<1>6. Moved(t, h) /\ h.pc = "pump" /\ h.half = "no" /\ h.held = g.held /\ h.rearm = more
  BY <1>1, <1>3 DEF Process, Moved
<1> HIDE DEF h
<1>7. Moved(g, h)
  BY <1>1, <1>6 DEF Moved
<1>8. Idle(h) = Idle(g) /\ nupstreams(h) = nupstreams(g) /\ h.alive = g.alive
  BY <1>7, MovedSame DEF Moved
<1>9. Gauge(h)
  BY <1>0, <1>6, <1>8 DEF Gauge
<1>10. Pumped(h)
  BY <1>5, <1>6, <1>8 DEF Pumped
<1>11. Local(h)
  BY <1>7, <1>9, <1>10, LocalMoved
<1> QED BY <1>2, <1>6, <1>11 DEF t

\* A sibling asked: the tick goes through the idle connections first.
LEMMA LocalTick ==
  ASSUME NEW g, Local(g), g.half = "no", g.pc = "loop"
  PROVE  LET h == [g EXCEPT !.tick = FALSE, !.pc = "tick"] IN Local(h) /\ h.held = g.held /\ h.half = g.half
<1> DEFINE h == [g EXCEPT !.tick = FALSE, !.pc = "tick"]
<1>0. g \in Process /\ Gauge(g)
  BY DEF Local
<1>1. Moved(g, h) /\ h.pc = "tick" /\ h.half = "no" /\ h.held = g.held
  BY <1>0 DEF Process, Moved
<1> HIDE DEF h
<1>2. Idle(h) = Idle(g) /\ nupstreams(h) = nupstreams(g) /\ h.alive = g.alive
  BY <1>1, MovedSame DEF Moved
<1>3. Gauge(h)
  BY <1>0, <1>1, <1>2 DEF Gauge
<1>4. Pumped(h)
  BY <1>1 DEF Pumped
<1>5. Local(h)
  BY <1>1, <1>3, <1>4, LocalMoved
<1> QED BY <1>1, <1>5 DEF h

\* A process that starts, or of which only the gauge is left.
LEMMA LocalStarted ==
  /\ Local(Started) /\ Started.held = 0 /\ Started.half = "no"
  /\ \A n \in Nat : LET h == [Started EXCEPT !.alive = FALSE, !.held = n] IN
                    Local(h) /\ h.held = n /\ h.half = "no"
<1>1. /\ Started.held = 0 /\ Started.half = "no" /\ Started.pc = "loop" /\ Started.lied = FALSE
      /\ Started.rearm = FALSE /\ Started.again = FALSE /\ Started.waiting = <<>>
      /\ Started.ups = [u \in Slots |-> NoUpstream] /\ Started.rq = [c \in Reqs |-> Ended]
  BY DEF Started
<1>2. Started \in Process
  <2>1. Ended \in Request
    BY DEF Ended, Request
  <2>2. NoUpstream \in Upstream
    BY DEF NoUpstream, Upstream
  <2>3. [u \in Slots |-> NoUpstream] \in [Slots -> Upstream] /\ [c \in Reqs |-> Ended] \in [Reqs -> Request]
    BY <2>1, <2>2
  <2>4. <<>> \in Seq(Reqs)
    BY SMT
  <2> QED BY <2>3, <2>4 DEF Started, Process
<1>3. Conns(Started.ups, Started.rq)
  <2>1. ASSUME NEW u \in Slots PROVE Proper(NoUpstream, Started.rq)
    BY DEF Proper, NoUpstream, Paused
  <2>2. \A c \in Reqs : Started.rq[c].st # "up"
    BY <1>1, SMTT(30) DEF Ended
  <2>3. \A u \in Slots : Started.ups[u] = NoUpstream
    BY <1>1
  <2>4. NoUpstream.cur = None
    BY DEF NoUpstream
  <2> QED BY <2>1, <2>2, <2>3, <2>4 DEF Conns
<1>4. Queue(Started.waiting, Started.rq)
  BY <1>1, SMTT(30) DEF Queue, Ended
<1>5. Ups(Started) = {}
  BY <1>1, SMTT(30) DEF Ups, NoUpstream
<1>6. nupstreams(Started) = 0 /\ Idle(Started) = {}
  BY <1>5, FS_EmptySet DEF nupstreams, Idle
<1>7. Gauge(Started) /\ Pumped(Started)
  BY <1>1, <1>6, SMTT(30) DEF Gauge, Pumped
<1>8. Local(Started)
  BY <1>1, <1>2, <1>3, <1>4, <1>7 DEF Local
<1>9. ASSUME NEW n \in Nat
      PROVE  LET h == [Started EXCEPT !.alive = FALSE, !.held = n] IN
             Local(h) /\ h.held = n /\ h.half = "no"
  <2> DEFINE h == [Started EXCEPT !.alive = FALSE, !.held = n]
  <2>1. /\ h \in Process /\ h.held = n /\ h.half = "no" /\ h.pc = "loop" /\ ~h.lied /\ ~h.rearm /\ ~h.again
        /\ ~h.alive /\ h.waiting = Started.waiting /\ h.ups = Started.ups /\ h.rq = Started.rq
    BY <1>1, <1>2 DEF Process
  <2> HIDE DEF h
  <2>2. Idle(h) = {}
    BY <1>6, <2>1 DEF Idle, Ups
  <2>3. Gauge(h) /\ Pumped(h)
    BY <2>1, <2>2 DEF Gauge, Pumped
  <2>4. Local(h)
    BY <1>3, <1>4, <2>1, <2>3 DEF Local
  <2> QED BY <2>1, <2>4 DEF h
<1> QED BY <1>1, <1>8, <1>9


LEMMA LocalBack ==
  ASSUME NEW g, Local(g), g.half = "no",
         g.pc \in {"unreachable", "full"} \/ (g.pc = "pump" /\ g.waiting = <<>>)
  PROVE  LET h == PumpReturn(g) IN Local(h) /\ h.held = g.held /\ h.half = g.half
<1>1. g \in Process /\ ~g.lied /\ Gauge(g) /\ Conns(g.ups, g.rq) /\ Queue(g.waiting, g.rq)
  BY DEF Local
<1>2. /\ g.waiting # <<>> => Idle(g) = {}
      /\ Cardinality(Procs) > 1 /\ Idle(g) # {} => g.tick \/ g.rearm
  BY DEF Local, Pumped
<1>3. g.pc \in {"pump", "unreachable", "full"}
  OBVIOUS
<1> QED BY <1>1, <1>2, <1>3, LocalReturn

\* The target cannot be reached: wait for one of the own connections, or
\* refuse the whole queue.
LEMMA LocalUnreachable ==
  ASSUME NEW g, Local(g), g.half = "no", g.pc = "unreachable"
  PROVE  /\ LET h == [g EXCEPT !.pc = "full"] IN Local(h) /\ h.held = g.held /\ h.half = g.half
         /\ LET h == PumpReturn(RejectFrom(g, 1)) IN Local(h) /\ h.held = g.held /\ h.half = g.half
<1>1. LET h == [g EXCEPT !.pc = "full"] IN Local(h) /\ h.held = g.held /\ h.half = g.half
  <2> DEFINE h == [g EXCEPT !.pc = "full"]
  <2>0. g \in Process /\ Gauge(g) /\ Pumped(g)
    BY DEF Local
  <2>1. /\ Moved(g, h) /\ h.pc = "full" /\ h.half = "no" /\ h.held = g.held
        /\ h.tick = g.tick /\ h.rearm = g.rearm
    BY <2>0 DEF Process, Moved
  <2> HIDE DEF h
  <2>2. Idle(h) = Idle(g) /\ nupstreams(h) = nupstreams(g) /\ h.alive = g.alive /\ h.waiting = g.waiting
    BY <2>1, MovedSame DEF Moved
  <2>3. Gauge(h)
    BY <2>0, <2>1, <2>2 DEF Gauge
  <2>4. Pumped(h)
    BY <2>0, <2>1, <2>2 DEF Pumped
  <2>5. Local(h)
    BY <2>1, <2>3, <2>4, LocalMoved
  <2> QED BY <2>1, <2>5 DEF h
<1>2. LET h == PumpReturn(RejectFrom(g, 1)) IN Local(h) /\ h.held = g.held /\ h.half = g.half
  <2> DEFINE r == RejectFrom(g, 1)
  <2>1. Local(r) /\ Kept(g, r)
    BY LocalReject, SMTT(30)
  <2> HIDE DEF r
  <2>2. r.pc = g.pc /\ r.half = g.half /\ r.held = g.held
    BY <2>1 DEF Kept
  <2>3. LET h == PumpReturn(r) IN Local(h) /\ h.held = r.held /\ h.half = r.half
    BY <2>1, <2>2, LocalBack
  <2> QED BY <2>2, <2>3 DEF r
<1> QED BY <1>1, <1>2

\* No connection to be had: the queue waits, for the own connections or for
\* those of the siblings, or is refused but for as many as may get one.
LEMMA LocalFull ==
  ASSUME NEW g, Local(g), g.half = "no", g.pc = "full", conf \in Configured
  PROVE  /\ LET h == PumpReturn(g) IN Local(h) /\ h.held = g.held /\ h.half = g.half
         /\ LET h == PumpReturn(RejectFrom(g, 1)) IN Local(h) /\ h.held = g.held /\ h.half = g.half
         /\ LET h == PumpReturn(tick_arm(g)) IN Local(h) /\ h.held = g.held /\ h.half = g.half
         /\ LET h == PumpReturn(RejectFrom(Graced(tick_arm(g)), conf.max + 1))
            IN  Local(h) /\ h.held = g.held /\ h.half = g.half
<1> DEFINE r == RejectFrom(g, 1)
           t == tick_arm(g)
           k == Graced(t)
           m == RejectFrom(k, conf.max + 1)
<1>0. conf.max \in Nat /\ conf.max + 1 \in Nat \ {0}
  BY GatewayUpstreamAssumption, SMTT(60)
<1>1. Local(r) /\ r.pc = g.pc /\ r.half = g.half /\ r.held = g.held
  BY LocalReject, SMT DEF Kept
<1>2. Local(t) /\ t.pc = g.pc /\ t.half = g.half /\ t.held = g.held
  BY LocalArm
<1> HIDE DEF r, t
<1>3. Local(k) /\ Kept(t, k)
  BY <1>0, <1>2, LocalGraced
<1>4. k.pc = "full" /\ k.half = g.half /\ k.held = g.held
  BY <1>2, <1>3 DEF Kept
<1> HIDE DEF k
<1>5. Local(m) /\ Kept(k, m)
  BY <1>0, <1>3, <1>4, LocalReject
<1>6. m.pc = "full" /\ m.half = g.half /\ m.held = g.held
  BY <1>4, <1>5 DEF Kept
<1> HIDE DEF m
<1>7. LET h == PumpReturn(g) IN Local(h) /\ h.held = g.held /\ h.half = g.half
  BY LocalBack
<1>8. LET h == PumpReturn(r) IN Local(h) /\ h.held = r.held /\ h.half = r.half
  BY <1>1, LocalBack
<1>9. LET h == PumpReturn(t) IN Local(h) /\ h.held = t.held /\ h.half = t.half
  BY <1>2, LocalBack
<1>10. LET h == PumpReturn(m) IN Local(h) /\ h.held = m.held /\ h.half = m.half
  BY <1>5, <1>6, LocalBack
<1> QED BY <1>1, <1>2, <1>6, <1>7, <1>8, <1>9, <1>10 DEF r, m, k, t

-----------------------------------------------------------------------------
(* The budget.                                                             *)

\* The slots charged to processes, and those of the processes but p.
Charged(g) == {s \in Procs \X Slots : s[2] <= g[s[1]].held}
ChargedBut(g, p) == {s \in Procs \X Slots : s[1] # p /\ s[2] <= g[s[1]].held}
Halfway(g) == {q \in Procs : g[q].half # "no"}
HalfwayBut(g, p) == {q \in Procs : q # p /\ g[q].half # "no"}
HalfOf(h) == IF h.half # "no" THEN 1 ELSE 0

LEMMA ChargedIs ==
  ASSUME NEW g, NEW p \in Procs, NEW k \in Configured, g[p].held \in Nat, g[p].held <= k.max
  PROVE  /\ Cardinality(Charged(g)) = Cardinality(ChargedBut(g, p)) + g[p].held
         /\ Cardinality(ChargedBut(g, p)) \in Nat
<1> DEFINE n == g[p].held
           own == {p} \X (1..n)
<1>1. 1..n \subseteq Slots
  <2>1. 1..k.max \subseteq Slots /\ k.max \in Nat
    BY SlotsAre
  <2> QED BY <2>1, SMT
<1>2. IsFiniteSet(Procs \X Slots)
  BY SlotsAre, GatewayUpstreamAssumption, FS_Product
<1>3. ChargedBut(g, p) \subseteq Procs \X Slots /\ Charged(g) \subseteq Procs \X Slots
  BY DEF ChargedBut, Charged
<1>4. IsFiniteSet(ChargedBut(g, p)) /\ Cardinality(ChargedBut(g, p)) \in Nat
  BY <1>2, <1>3, FS_Subset, FS_CardinalityType
<1>5. IsFiniteSet(1..n) /\ Cardinality(1..n) = n
  <2>1. n \in Nat /\ n \in Int /\ 1 \in Int
    BY SMT
  <2> HIDE DEF n
  <2>2. IsFiniteSet(1..n) /\ Cardinality(1..n) = IF 1 > n THEN 0 ELSE n - 1 + 1
    BY <2>1, FS_Interval
  <2> QED BY <2>1, <2>2, SMTT(30)
<1>6. IsFiniteSet({p}) /\ Cardinality({p}) = 1
  BY FS_Singleton
<1>7. IsFiniteSet(own) /\ Cardinality(own) = 1 * n
  BY <1>5, <1>6, FS_Product, SMTT(30)
<1>8. Charged(g) = ChargedBut(g, p) \cup own
  <2>1. ASSUME NEW s \in Charged(g) PROVE s \in ChargedBut(g, p) \cup own
    <3>1. s \in Procs \X Slots /\ s[2] \in Nat \ {0} /\ s[2] <= g[s[1]].held
      BY SlotsAre DEF Charged
    <3> QED BY <3>1, SMT DEF ChargedBut
  <2>2. ASSUME NEW s \in own PROVE s \in Charged(g)
    BY <1>1, SMTT(30) DEF Charged
  <2>3. ChargedBut(g, p) \subseteq Charged(g)
    BY DEF ChargedBut, Charged
  <2> QED BY <2>1, <2>2, <2>3
<1>9. ChargedBut(g, p) \cap own = {}
  BY DEF ChargedBut
<1> HIDE DEF own
<1>10. Cardinality(ChargedBut(g, p) \cup own)
       = Cardinality(ChargedBut(g, p)) + Cardinality(own) - Cardinality(ChargedBut(g, p) \cap own)
  BY <1>4, <1>7, FS_Union
<1>11. Cardinality(ChargedBut(g, p) \cap own) = 0
  BY <1>9, FS_EmptySet
<1> QED BY <1>4, <1>7, <1>8, <1>10, <1>11, SMTT(30)

LEMMA HalfwayIs ==
  ASSUME NEW g, NEW p \in Procs
  PROVE  /\ Cardinality(Halfway(g)) = Cardinality(HalfwayBut(g, p)) + HalfOf(g[p])
         /\ Cardinality(HalfwayBut(g, p)) \in Nat
<1>1. IsFiniteSet(HalfwayBut(g, p)) /\ Cardinality(HalfwayBut(g, p)) \in Nat
  BY GatewayUpstreamAssumption, FS_Subset, FS_CardinalityType DEF HalfwayBut
<1>2. CASE g[p].half # "no"
  <2>1. Halfway(g) = HalfwayBut(g, p) \cup {p} /\ p \notin HalfwayBut(g, p)
    BY <1>2 DEF Halfway, HalfwayBut
  <2>2. Cardinality(Halfway(g)) = Cardinality(HalfwayBut(g, p)) + 1
    BY <1>1, <2>1, FS_AddElement
  <2> QED BY <1>1, <1>2, <2>2 DEF HalfOf
<1>3. CASE g[p].half = "no"
  <2>1. Halfway(g) = HalfwayBut(g, p)
    BY <1>3 DEF Halfway, HalfwayBut
  <2> QED BY <1>1, <1>3, <2>1, SMTT(30) DEF HalfOf
<1> QED BY <1>2, <1>3


\* What one process holds is within what the shared word says.
LEMMA BudgetOf ==
  ASSUME GatewayInv, NEW p \in Procs
  PROVE  /\ gw[p].held \in Nat /\ gw[p].held <= conf.max /\ used <= conf.max /\ conf.max \in Nat \ {0}
         /\ gw[p].held + HalfOf(gw[p]) + leaked <= used
         /\ used = Cardinality(ChargedBut(gw, p)) + gw[p].held + leaked
                   + Cardinality(HalfwayBut(gw, p)) + HalfOf(gw[p])
<1>1. /\ used \in Nat /\ leaked \in Nat /\ conf \in Configured /\ gw[p].held \in Nat /\ gw[p].held <= conf.max
      /\ conf.max \in Nat \ {0} /\ used <= conf.max
  BY SlotsAre DEF GatewayInv, Local, Process, Budget
<1>2. used = Cardinality(Charged(gw)) + leaked + Cardinality(Halfway(gw))
  BY DEF GatewayInv, Budget, Charged, Halfway
<1>3. /\ Cardinality(Charged(gw)) = Cardinality(ChargedBut(gw, p)) + gw[p].held
      /\ Cardinality(ChargedBut(gw, p)) \in Nat
  BY <1>1, ChargedIs
<1>4. /\ Cardinality(Halfway(gw)) = Cardinality(HalfwayBut(gw, p)) + HalfOf(gw[p])
      /\ Cardinality(HalfwayBut(gw, p)) \in Nat
  BY HalfwayIs
<1>5. HalfOf(gw[p]) \in Nat
  BY DEF HalfOf
<1> QED BY <1>1, <1>2, <1>3, <1>4, <1>5, SMTT(60)

\* A step of one process keeps the invariant when it leaves the process sound
\* and changes the shared word by as much as what stands behind it.
LEMMA BudgetStep ==
  ASSUME GatewayInv, NEW p \in Procs, NEW h, Local(h), gw' = [gw EXCEPT ![p] = h], conf' = conf,
         used' \in Nat, leaked' \in Nat, behind' \subseteq Procs, h.held <= conf.max, used' <= conf.max,
         used' - leaked' - h.held - HalfOf(h) = used - leaked - gw[p].held - HalfOf(gw[p])
  PROVE  GatewayInv'
<1>1. /\ DOMAIN gw' = Procs /\ gw'[p] = h /\ \A q \in Procs : q # p => gw'[q] = gw[q]
      /\ used \in Nat /\ leaked \in Nat /\ conf \in Configured
  BY DEF GatewayInv
<1>2. \A q \in Procs : Local(gw'[q])
  BY <1>1 DEF GatewayInv
<1>3. \A q \in Procs : gw'[q].held <= conf.max
  BY <1>1 DEF GatewayInv, Budget
<1>4. /\ gw[p].held \in Nat /\ conf.max \in Nat \ {0}
      /\ used = Cardinality(ChargedBut(gw, p)) + gw[p].held + leaked
                + Cardinality(HalfwayBut(gw, p)) + HalfOf(gw[p])
  BY BudgetOf
<1>5. h.held \in Nat
  BY DEF Local, Process
<1>6. ChargedBut(gw', p) = ChargedBut(gw, p)
  BY <1>1 DEF ChargedBut
<1>7. HalfwayBut(gw', p) = HalfwayBut(gw, p)
  BY <1>1 DEF HalfwayBut
<1>8. /\ Cardinality(Charged(gw')) = Cardinality(ChargedBut(gw', p)) + gw'[p].held
      /\ Cardinality(ChargedBut(gw', p)) \in Nat
  <2> DEFINE g == gw'
  <2>1. g[p].held \in Nat /\ g[p].held <= conf.max
    BY <1>1, <1>5
  <2> HIDE DEF g
  <2>2. Cardinality(Charged(g)) = Cardinality(ChargedBut(g, p)) + g[p].held /\ Cardinality(ChargedBut(g, p)) \in Nat
    BY <1>1, <2>1, ChargedIs
  <2> QED BY <2>2 DEF g
<1>9. /\ Cardinality(Halfway(gw')) = Cardinality(HalfwayBut(gw', p)) + HalfOf(gw'[p])
      /\ Cardinality(HalfwayBut(gw', p)) \in Nat
  BY HalfwayIs
<1>10. HalfOf(h) \in Nat /\ HalfOf(gw[p]) \in Nat
  BY DEF HalfOf
<1>11. used' = Cardinality(Charged(gw')) + leaked' + Cardinality(Halfway(gw'))
  <2> DEFINE a == Cardinality(ChargedBut(gw, p))
             b == Cardinality(HalfwayBut(gw, p))
  <2>1. Cardinality(Charged(gw')) = a + h.held /\ a \in Nat
    BY <1>1, <1>6, <1>8
  <2>2. Cardinality(Halfway(gw')) = b + HalfOf(h) /\ b \in Nat
    BY <1>1, <1>7, <1>9
  <2>3. used = a + gw[p].held + leaked + b + HalfOf(gw[p])
    BY <1>4
  <2> HIDE DEF a, b
  <2>4. used' - leaked' - h.held - HalfOf(h) = a + b
    BY <1>1, <1>4, <1>10, <2>1, <2>2, <2>3, SMTT(30)
  <2>5. used' = (a + h.held) + leaked' + (b + HalfOf(h))
    BY <1>5, <1>10, <2>1, <2>2, <2>4, SMTT(30)
  <2> QED BY <2>1, <2>2, <2>5
<1>12. Budget'
  BY <1>3, <1>11 DEF Budget, Charged, Halfway
<1> QED BY <1>1, <1>2, <1>12 DEF GatewayInv

\* A step that leaves the words of the budget alone.
LEMMA StepSame ==
  ASSUME GatewayInv, NEW p \in Procs, NEW h, Local(h), h.held = gw[p].held, h.half = gw[p].half,
         gw' = [gw EXCEPT ![p] = h], conf' = conf, used' = used, leaked' = leaked, behind' \subseteq Procs
  PROVE  GatewayInv'
<1>1. /\ used \in Nat /\ leaked \in Nat /\ gw[p].held \in Nat /\ gw[p].held <= conf.max /\ used <= conf.max
  BY BudgetOf DEF GatewayInv
<1>2. HalfOf(h) = HalfOf(gw[p])
  BY DEF HalfOf
<1>3. used' - leaked' - h.held - HalfOf(h) = used - leaked - gw[p].held - HalfOf(gw[p])
  BY <1>2
<1> QED BY <1>1, <1>3, BudgetStep

\* A step that takes a connection out of the own gauge.
LEMMA StepLess ==
  ASSUME GatewayInv, NEW p \in Procs, NEW h, Local(h), h.held = gw[p].held - 1, gw[p].half = "no", h.half = "give",
         gw' = [gw EXCEPT ![p] = h], conf' = conf, used' = used, leaked' = leaked, behind' \subseteq Procs
  PROVE  GatewayInv'
<1>1. /\ used \in Nat /\ leaked \in Nat /\ gw[p].held \in Nat /\ gw[p].held <= conf.max /\ used <= conf.max
      /\ conf.max \in Nat
  BY BudgetOf DEF GatewayInv
<1>2. HalfOf(h) = 1 /\ HalfOf(gw[p]) = 0
  BY DEF HalfOf
<1>3. used' - leaked' - h.held - HalfOf(h) = used - leaked - gw[p].held - HalfOf(gw[p])
  BY <1>1, <1>2, SMTT(30)
<1>4. h.held <= conf.max
  BY <1>1, SMTT(30)
<1> QED BY <1>1, <1>3, <1>4, BudgetStep


-----------------------------------------------------------------------------
(* Every step keeps the invariant.                                         *)

LEMMA BudgetInv ==
  ASSUME GatewayInv, NEW p \in Procs, budget_take(p) \/ budget_taken(p) \/ budget_give_back(p)
  PROVE  GatewayInv'
<1> DEFINE g == gw[p]
<1>0. Local(g) /\ used \in Nat /\ leaked \in Nat /\ behind \subseteq Procs
  BY DEF GatewayInv
<1>1. /\ g.held \in Nat /\ g.held <= conf.max /\ used <= conf.max /\ conf.max \in Nat \ {0}
      /\ g.held + HalfOf(g) + leaked <= used
  BY BudgetOf
<1>2. CASE budget_take(p)
  <2>0. /\ g.alive /\ g.half = "no" /\ g.pc = "pump" /\ g.waiting # <<>> /\ Idle(g) = {}
        /\ conf' = conf /\ behind' = behind /\ leaked' = leaked
    BY <1>2 DEF budget_take, Step
  <2>1. Local([g EXCEPT !.pc = "full"]) /\ Local([g EXCEPT !.pc = "connect", !.half = "take"])
    BY <1>0, <2>0, LocalTake
  <2>2. CASE used >= conf.max
    <3> DEFINE h == [g EXCEPT !.pc = "full"]
    <3>1. h.held = g.held /\ h.half = g.half
      BY <1>0 DEF Local, Process
    <3>2. gw' = [gw EXCEPT ![p] = h] /\ used' = used
      BY <1>2, <2>2 DEF budget_take
    <3>3. Local(h)
      BY <2>1
    <3> HIDE DEF h
    <3> QED BY <1>0, <2>0, <3>1, <3>2, <3>3, StepSame
  <2>3. CASE ~(used >= conf.max)
    <3> DEFINE h == [g EXCEPT !.pc = "connect", !.half = "take"]
    <3>1. h.held = g.held /\ h.half = "take"
      BY <1>0 DEF Local, Process
    <3>2. gw' = [gw EXCEPT ![p] = h] /\ used' = used + 1
      BY <1>2, <2>3 DEF budget_take
    <3>3. Local(h)
      BY <2>1
    <3> HIDE DEF h
    <3>4. HalfOf(h) = 1 /\ HalfOf(g) = 0
      BY <2>0, <3>1 DEF HalfOf
    <3>5. used' \in Nat /\ used' <= conf.max
      BY <1>0, <1>1, <2>3, <3>2, SMTT(30)
    <3>6. used' - leaked' - h.held - HalfOf(h) = used - leaked - g.held - HalfOf(g)
      BY <1>0, <1>1, <2>0, <3>1, <3>2, <3>4, SMTT(60)
    <3> QED BY <1>0, <1>1, <2>0, <3>1, <3>2, <3>3, <3>5, <3>6, BudgetStep
  <2> QED BY <2>2, <2>3
<1>3. CASE budget_taken(p)
  <2> DEFINE h == [g EXCEPT !.held = g.held + 1, !.half = "no"]
  <2>0. /\ g.alive /\ g.half = "take" /\ used' = used
        /\ conf' = conf /\ behind' = behind /\ leaked' = leaked /\ gw' = [gw EXCEPT ![p] = h]
    BY <1>3 DEF budget_taken
  <2>1. Local(h) /\ h.held = g.held + 1 /\ h.half = "no"
    BY <1>0, <2>0, LocalTaken
  <2> HIDE DEF h
  <2>2. HalfOf(h) = 0 /\ HalfOf(g) = 1
    BY <2>0, <2>1 DEF HalfOf
  <2>3. h.held <= conf.max
    BY <1>0, <1>1, <2>1, <2>2, SMTT(60)
  <2>4. used' - leaked' - h.held - HalfOf(h) = used - leaked - g.held - HalfOf(g)
    BY <1>0, <1>1, <2>0, <2>1, <2>2, SMTT(30)
  <2> QED BY <1>0, <1>1, <2>0, <2>1, <2>3, <2>4, BudgetStep
<1>4. CASE budget_give_back(p)
  <2> DEFINE h == [g EXCEPT !.half = "no"]
  <2>0. /\ g.alive /\ g.half = "give" /\ used' = IF used > 0 THEN used - 1 ELSE 0
        /\ conf' = conf /\ behind' = behind /\ leaked' = leaked /\ gw' = [gw EXCEPT ![p] = h]
    BY <1>4 DEF budget_give_back
  <2>1. Local(h) /\ h.held = g.held /\ h.half = "no"
    BY <1>0, <2>0, LocalGiven
  <2> HIDE DEF h
  <2>2. HalfOf(h) = 0 /\ HalfOf(g) = 1
    BY <2>0, <2>1 DEF HalfOf
  <2>3. used >= 1 /\ used - 1 \in Int /\ 0 \in Int
    BY <1>0, <1>1, <2>2, SMTT(60)
  <2>4. used' = used - 1
    BY <1>0, <2>0, <2>3, SMTT(30)
  <2>5. used' \in Nat /\ used' <= conf.max
    BY <1>0, <1>1, <2>3, <2>4, SMTT(30)
  <2>6. used' - leaked' - h.held - HalfOf(h) = used - leaked - g.held - HalfOf(g)
    BY <1>0, <1>1, <2>0, <2>1, <2>2, <2>4, SMTT(30)
  <2> QED BY <1>0, <1>1, <2>0, <2>1, <2>5, <2>6, BudgetStep
<1> QED BY <1>2, <1>3, <1>4

LEMMA LossInv ==
  ASSUME GatewayInv, NEW p \in Procs, Kill(p) \/ counters_process_gone(p)
  PROVE  GatewayInv'
<1> DEFINE g == gw[p]
<1>0. Local(g) /\ used \in Nat /\ leaked \in Nat /\ behind \subseteq Procs
  BY DEF GatewayInv
<1>1. /\ g.held \in Nat /\ g.held <= conf.max /\ used <= conf.max /\ conf.max \in Nat \ {0}
      /\ g.held + HalfOf(g) + leaked <= used
  BY BudgetOf
<1>2. CASE Kill(p)
  <2> DEFINE h == [Started EXCEPT !.alive = FALSE, !.held = g.held]
  <2>0. /\ used' = used /\ conf' = conf /\ behind' = behind
        /\ leaked' = leaked + (IF g.half = "no" THEN 0 ELSE 1) /\ gw' = [gw EXCEPT ![p] = h]
    BY <1>2 DEF Kill
  <2>1. Local(h) /\ h.held = g.held /\ h.half = "no"
    BY <1>1, LocalStarted
  <2> HIDE DEF h
  <2>2. HalfOf(h) = 0 /\ leaked' = leaked + HalfOf(g) /\ HalfOf(g) \in Nat
    BY <2>0, <2>1 DEF HalfOf
  <2>3. leaked' \in Nat
    BY <1>0, <2>2, SMTT(30)
  <2>4. used' - leaked' - h.held - HalfOf(h) = used - leaked - g.held - HalfOf(g)
    BY <1>0, <1>1, <2>0, <2>1, <2>2, SMTT(30)
  <2> QED BY <1>0, <1>1, <2>0, <2>1, <2>3, <2>4, BudgetStep
<1>3. CASE counters_process_gone(p)
  <2>0. /\ ~g.alive /\ used' = (IF used > g.held THEN used - g.held ELSE 0)
        /\ conf' = conf /\ leaked' = leaked
        /\ gw' = [gw EXCEPT ![p] = Started] /\ behind' \in {behind \cup {p}, behind \ {p}}
    BY <1>3 DEF counters_process_gone
  <2>1. behind' \subseteq Procs
    BY <1>0, <2>0
  <2>2. Local(Started) /\ Started.held = 0 /\ Started.half = "no"
    BY LocalStarted
  <2>3. g.half = "no"
    BY <1>0, <2>0 DEF Local, Gauge
  <2>4. HalfOf(Started) = 0 /\ HalfOf(g) = 0
    BY <2>2, <2>3 DEF HalfOf
  <2>5. used - g.held \in Int /\ 0 \in Int /\ used - g.held >= 0
    BY <1>0, <1>1, <2>4, SMTT(30)
  <2>6. used' = used - g.held
    BY <1>0, <1>1, <2>0, <2>5, SMTT(30)
  <2>7. used' \in Nat /\ used' <= conf.max
    BY <1>0, <1>1, <2>5, <2>6, SMTT(30)
  <2>8. used' - leaked' - Started.held - HalfOf(Started) = used - leaked - g.held - HalfOf(g)
    <3>1. used' - leaked' - Started.held - HalfOf(Started) = used - g.held - leaked - 0 - 0
      BY <2>0, <2>2, <2>4, <2>6
    <3>2. used - g.held - leaked - 0 - 0 = used - leaked - g.held - 0
      BY <1>0, <1>1, SMTT(30)
    <3> QED BY <2>4, <3>1, <3>2
  <2>9. Started.held <= conf.max
    BY <1>1, <2>2, SMTT(30)
  <2> QED BY <1>0, <2>0, <2>1, <2>2, <2>7, <2>8, <2>9, BudgetStep
<1> QED BY <1>2, <1>3


LEMMA PumpInv ==
  ASSUME GatewayInv, NEW p \in Procs,
         \/ PumpEmpty(p) \/ PumpDispatch(p) \/ transport_connect(p) \/ PumpUnreachable(p)
         \/ PumpFull(p) \/ tick_target(p)
  PROVE  GatewayInv'
<1> DEFINE g == gw[p]
<1>0. Local(g) /\ behind \subseteq Procs /\ conf \in Configured /\ g.held <= conf.max
  BY BudgetOf DEF GatewayInv
<1>1. CASE PumpEmpty(p)
  <2> DEFINE h == PumpReturn(g)
  <2>0. /\ g.half = "no" /\ g.pc = "pump" /\ g.waiting = <<>> /\ gw' = [gw EXCEPT ![p] = h]
        /\ conf' = conf /\ used' = used /\ behind' = behind /\ leaked' = leaked
    BY <1>1 DEF PumpEmpty, Step, Become
  <2>1. Local(h) /\ h.held = g.held /\ h.half = g.half
    BY <1>0, <2>0, LocalBack
  <2> HIDE DEF h
  <2> QED BY <1>0, <2>0, <2>1, StepSame
<1>2. CASE PumpDispatch(p)
  <2> DEFINE u == CHOOSE v \in Idle(g) : TRUE
             d == Dispatched(g, u)
  <2>0. /\ g.alive /\ g.half = "no" /\ g.pc = "pump" /\ g.waiting # <<>> /\ Idle(g) # {}
        /\ gw' = [gw EXCEPT ![p] = d] \/ gw' = [gw EXCEPT ![p] = upstream_fail(d, u)]
        /\ conf' = conf /\ used' = used /\ behind' = behind /\ leaked' = leaked
    BY <1>2 DEF PumpDispatch, Step, Become
  <2>1. u \in Idle(g)
    BY <2>0
  <2> HIDE DEF u
  <2>2. /\ Local(d) /\ Kept(g, d) /\ u \in Slots /\ d.ups[u].on
        /\ Cardinality(Procs) > 1 /\ Idle(d) \ {u} # {} => d.tick \/ d.rearm
    BY <1>0, <2>0, <2>1, LocalDispatched
  <2> HIDE DEF d
  <2>3. d.alive /\ d.half = "no" /\ d.pc = "pump" /\ d.held = g.held
    BY <2>0, <2>2 DEF Kept
  <2>4. CASE gw' = [gw EXCEPT ![p] = d]
    BY <1>0, <2>0, <2>2, <2>3, <2>4, StepSame
  <2>5. CASE gw' = [gw EXCEPT ![p] = upstream_fail(d, u)]
    <3> DEFINE h == upstream_fail(d, u)
    <3>1. Local(h) /\ Dropped(d, h, u, d.ups[u].cur)
      BY <2>2, <2>3, LocalFail
    <3> HIDE DEF h
    <3>2. h.held = g.held - 1 /\ h.half = "give"
      BY <2>3, <3>1 DEF Dropped
    <3>3. gw' = [gw EXCEPT ![p] = h]
      BY <2>5 DEF h
    <3> QED BY <1>0, <2>0, <3>1, <3>2, <3>3, StepLess
  <2> QED BY <2>0, <2>4, <2>5
<1>3. CASE transport_connect(p)
  <2>0. /\ g.alive /\ g.half = "no" /\ g.pc = "connect"
        /\ conf' = conf /\ used' = used /\ behind' = behind /\ leaked' = leaked
    BY <1>3 DEF transport_connect, Step
  <2>1. CASE \E b \in BOOLEAN : Become(p, Connecting(gw[p], b))
    <3>1. PICK b \in BOOLEAN : gw' = [gw EXCEPT ![p] = Connecting(g, b)]
      BY <2>1 DEF Become
    <3> DEFINE h == Connecting(g, b)
    <3>2. Local(h) /\ h.held = g.held /\ h.half = g.half
      BY <1>0, <2>0, LocalConnecting
    <3>3. gw' = [gw EXCEPT ![p] = h]
      BY <3>1
    <3> HIDE DEF h
    <3> QED BY <1>0, <2>0, <3>2, <3>3, StepSame
  <2>2. CASE \E next \in {"unreachable", "full"} :
               gw' = [gw EXCEPT ![p].held = @ - 1, ![p].half = "give", ![p].pc = next]
    <3>1. PICK next \in {"unreachable", "full"} :
               gw' = [gw EXCEPT ![p].held = @ - 1, ![p].half = "give", ![p].pc = next]
      BY <2>2
    <3> DEFINE h == [g EXCEPT !.held = g.held - 1, !.half = "give", !.pc = next]
    <3>2. Local(h) /\ h.held = g.held - 1 /\ h.half = "give"
      BY <1>0, <2>0, LocalUnconnected
    <3>3. gw' = [gw EXCEPT ![p] = h]
      BY <3>1 DEF GatewayInv
    <3> HIDE DEF h
    <3> QED BY <1>0, <2>0, <3>2, <3>3, StepLess
  <2> QED BY <1>3, <2>1, <2>2 DEF transport_connect
<1>4. CASE PumpUnreachable(p)
  <2> DEFINE f == [g EXCEPT !.pc = "full"]
             r == PumpReturn(RejectFrom(g, 1))
  <2>0. /\ g.half = "no" /\ g.pc = "unreachable"
        /\ gw' = [gw EXCEPT ![p] = f] \/ gw' = [gw EXCEPT ![p] = r]
        /\ conf' = conf /\ used' = used /\ behind' = behind /\ leaked' = leaked
    BY <1>4 DEF PumpUnreachable, Step, Become
  <2>1. /\ Local(f) /\ f.held = g.held /\ f.half = g.half
        /\ Local(r) /\ r.held = g.held /\ r.half = g.half
    BY <1>0, <2>0, LocalUnreachable
  <2> HIDE DEF f, r
  <2> QED BY <1>0, <2>0, <2>1, StepSame
<1>5. CASE PumpFull(p)
  <2> DEFINE a == PumpReturn(g)
             b == PumpReturn(RejectFrom(g, 1))
             c == PumpReturn(tick_arm(g))
             d == PumpReturn(RejectFrom(Graced(tick_arm(g)), conf.max + 1))
  <2>0. /\ g.half = "no" /\ g.pc = "full"
        /\ \/ gw' = [gw EXCEPT ![p] = a] \/ gw' = [gw EXCEPT ![p] = b]
           \/ gw' = [gw EXCEPT ![p] = c] \/ gw' = [gw EXCEPT ![p] = d]
        /\ conf' = conf /\ used' = used /\ leaked' = leaked
    BY <1>5 DEF PumpFull, Step, Become
  <2>1. behind' \subseteq Procs
    BY <1>0, <1>5 DEF PumpFull
  <2>2. /\ Local(a) /\ a.held = g.held /\ a.half = g.half
        /\ Local(b) /\ b.held = g.held /\ b.half = g.half
        /\ Local(c) /\ c.held = g.held /\ c.half = g.half
        /\ Local(d) /\ d.held = g.held /\ d.half = g.half
    BY <1>0, <2>0, LocalFull
  <2> HIDE DEF a, b, c, d
  <2> QED BY <2>0, <2>1, <2>2, StepSame
<1>6. CASE tick_target(p)
  <2> DEFINE spare == {u \in Idle(g) : ~g.ups[u].conn}
             v == CHOOSE u \in spare : TRUE
             t == TickPump(g)
             h == upstream_drop(g, v)
  <2>0. /\ g.alive /\ g.half = "no" /\ g.pc = "tick"
        /\ \/ spare = {} /\ gw' = [gw EXCEPT ![p] = t]
           \/ spare # {} /\ gw' = [gw EXCEPT ![p] = h]
        /\ conf' = conf /\ used' = used /\ behind' = behind /\ leaked' = leaked
    <3>1. /\ g.alive /\ g.half = "no" /\ g.pc = "tick"
          /\ conf' = conf /\ used' = used /\ behind' = behind /\ leaked' = leaked
      BY <1>6 DEF tick_target, Step
    <3>2. Become(p, IF spare = {} THEN t ELSE h)
      BY <1>6 DEF tick_target
    <3> HIDE DEF spare, t, h
    <3>3. gw' = [gw EXCEPT ![p] = IF spare = {} THEN t ELSE h]
      BY <3>2 DEF Become
    <3>4. CASE spare = {}
      <4>1. (IF spare = {} THEN t ELSE h) = t
        BY <3>4
      <4>2. gw' = [gw EXCEPT ![p] = t]
        BY <3>3, <4>1
      <4> QED BY <3>1, <3>4, <4>2
    <3>5. CASE spare # {}
      <4>1. (IF spare = {} THEN t ELSE h) = h
        BY <3>5
      <4>2. gw' = [gw EXCEPT ![p] = h]
        BY <3>3, <4>1
      <4> QED BY <3>1, <3>5, <4>2
    <3> QED BY <3>4, <3>5
  <2>1. spare # {} => v \in Idle(g)
    OBVIOUS
  <2>2. Local(t) /\ t.held = g.held /\ t.half = g.half
    <3>1. g \in Process /\ g.tick \in BOOLEAN
      BY <1>0 DEF Local, Process
    <3>2. [g EXCEPT !.tick = g.tick] = g
      BY <3>1 DEF Process
    <3> HIDE DEF g
    <3> QED BY <1>0, <2>0, <3>1, <3>2, LocalTickPump, SMTT(30)
  <2> HIDE DEF v, t
  <2>3. spare # {} => Local(h) /\ h.held = g.held - 1 /\ h.half = "give"
    BY <1>0, <2>0, <2>1, LocalSpare
  <2> HIDE DEF h, spare
  <2>4. CASE gw' = [gw EXCEPT ![p] = t]
    BY <1>0, <2>0, <2>2, <2>4, StepSame
  <2>5. CASE spare # {} /\ gw' = [gw EXCEPT ![p] = h]
    BY <1>0, <2>0, <2>3, <2>5, StepLess
  <2> QED BY <2>0, <2>4, <2>5
<1> QED BY <1>1, <1>2, <1>3, <1>4, <1>5, <1>6


LEMMA TickInv ==
  ASSUME GatewayInv, NEW p \in Procs, tick(p)
  PROVE  GatewayInv'
<1> DEFINE g == gw[p]
           a == [g EXCEPT !.tick = FALSE]
           t == TickPump(a)
           h == [a EXCEPT !.pc = "tick"]
<1>0. Local(g) /\ g.half = "no" /\ g.pc = "loop"
  BY DEF GatewayInv, tick, Step
<1>1. conf' = conf /\ used' = used /\ leaked' = leaked /\ behind' \subseteq Procs
  BY DEF GatewayInv, tick
<1>2. h = [g EXCEPT !.tick = FALSE, !.pc = "tick"]
  BY <1>0 DEF Local, Process
<1>3. gw' = [gw EXCEPT ![p] = h] \/ gw' = [gw EXCEPT ![p] = t]
  BY DEF tick, Become
<1>4. Local(t) /\ t.held = g.held /\ t.half = g.half
  BY <1>0, LocalTickPump
<1>5. Local(h) /\ h.held = g.held /\ h.half = g.half
  BY <1>0, <1>2, LocalTick
<1> HIDE DEF t, h
<1> QED BY <1>1, <1>3, <1>4, <1>5, StepSame

\* The callbacks of a client connection.
LEMMA ClientInv ==
  ASSUME GatewayInv, NEW p \in Procs, NEW c \in Reqs,
         dispatch(p, c) \/ wait_expired(p, c) \/ response_drained(p, c) \/ ClientCloses(p, c)
  PROVE  GatewayInv'
<1> DEFINE g == gw[p]
<1>0. Local(g) /\ g \in Process /\ behind \subseteq Procs /\ conf \in Configured
  BY DEF GatewayInv, Local
<1>1. /\ g.alive /\ g.half = "no" /\ g.pc = "loop"
      /\ conf' = conf /\ used' = used /\ behind' = behind /\ leaked' = leaked
  BY DEF dispatch, wait_expired, response_drained, ClientCloses, Loop, Step, Shared
<1>2. g.rq[c].st # "up" => LET h == conn_free(g, c) IN Local(h) /\ h.held = g.held /\ h.half = g.half
  <2>1. \A i, j \in 1..Len(g.waiting) : g.waiting[i] = g.waiting[j] => i = j
    BY <1>0 DEF Local, Queue
  <2>2. Kept(g, conn_free(g, c))
    BY <1>0, <2>1, FreeIs
  <2>3. g.rq[c].st # "up" => Local(conn_free(g, c))
    BY <1>0, <1>1, LocalFree
  <2> QED BY <2>2, <2>3 DEF Kept
<1>3. CASE dispatch(p, c)
  <2> DEFINE e == [g EXCEPT !.rq[c] = Ended]
             r == conn_free(g, c)
             t == conf.policy = "wait"
             h == pump([g EXCEPT !.rq[c] = [Ended EXCEPT !.st = "queued", !.timer = t],
                                 !.waiting = Append(@, c)])
  <2>0. /\ g.rq[c].st = "none"
        /\ gw' = [gw EXCEPT ![p] = e] \/ gw' = [gw EXCEPT ![p] = r] \/ gw' = [gw EXCEPT ![p] = h]
    BY <1>3 DEF dispatch, Become, reject_queued
  <2>1. e = g
    <3>1. g.rq \in [Reqs -> Request] /\ g.rq[c] \in Request
      BY <1>0 DEF Process
    <3>2. g.rq[c].timer = FALSE /\ g.rq[c].paused = FALSE /\ g.rq[c].head = "none"
      BY <1>0, <2>0, <3>1 DEF Local, Queue, Request
    <3>3. g.rq[c] = Ended
      BY <2>0, <3>1, <3>2 DEF Request, Ended
    <3>4. [g.rq EXCEPT ![c] = Ended] = g.rq
      BY <3>1, <3>3
    <3>5. e = [g EXCEPT !.rq = [g.rq EXCEPT ![c] = Ended]]
      OBVIOUS
    <3> HIDE DEF e
    <3> QED BY <1>0, <3>4, <3>5 DEF Process
  <2>2. Local(r) /\ r.held = g.held /\ r.half = g.half
    BY <1>2, <2>0
  <2>3. Local(h) /\ h.held = g.held /\ h.half = g.half
    BY <1>0, <1>1, <2>0, LocalQueued
  <2> HIDE DEF e, r, h
  <2>4. CASE gw' = [gw EXCEPT ![p] = e]
    BY <1>0, <1>1, <2>1, <2>4, StepSame
  <2>5. CASE gw' = [gw EXCEPT ![p] = r]
    BY <1>0, <1>1, <2>2, <2>5, StepSame
  <2>6. CASE gw' = [gw EXCEPT ![p] = h]
    BY <1>0, <1>1, <2>3, <2>6, StepSame
  <2> QED BY <2>0, <2>4, <2>5, <2>6
<1>4. CASE wait_expired(p, c)
  <2> DEFINE h == conn_free(g, c)
  <2>0. g.rq[c].timer /\ gw' = [gw EXCEPT ![p] = h]
    BY <1>4 DEF wait_expired, Become, reject_queued
  <2>1. g.rq[c].st # "up"
    BY <1>0, <2>0 DEF Local, Queue
  <2>2. Local(h) /\ h.held = g.held /\ h.half = g.half
    BY <1>2, <2>1
  <2> HIDE DEF h
  <2> QED BY <1>0, <1>1, <2>0, <2>2, StepSame
<1>5. CASE response_drained(p, c)
  <2> DEFINE h == response_resume(g, c)
  <2>0. g.rq[c].paused /\ gw' = [gw EXCEPT ![p] = h]
    BY <1>5 DEF response_drained, Become
  <2>1. Local(h) /\ h.held = g.held /\ h.half = g.half
    BY <1>0, <1>1, <2>0, LocalResume
  <2> HIDE DEF h
  <2> QED BY <1>0, <1>1, <2>0, <2>1, StepSame
<1>6. CASE ClientCloses(p, c)
  <2> DEFINE h == client_closed(g, c)
  <2>0. gw' = [gw EXCEPT ![p] = h]
    BY <1>6 DEF ClientCloses, Become
  <2>1. Local(h) /\ h.held = g.held /\ h.half = g.half
    BY <1>0, <1>1, LocalClosed
  <2> HIDE DEF h
  <2> QED BY <1>0, <1>1, <2>0, <2>1, StepSame
<1> QED BY <1>3, <1>4, <1>5, <1>6


\* The callbacks of a connection by which it is lost.
LEMMA UpstreamLostInv ==
  ASSUME GatewayInv, NEW p \in Procs, NEW u \in Slots,
         \/ UpstreamEnds(p, u) \/ deadline_fire(p, u) \/ idle_timeout(p, u) \/ ReplyUnowned(p, u)
         \/ gw_ws_start(p, u)
  PROVE  GatewayInv'
<1> DEFINE g == gw[p]
<1>0. Local(g) /\ g \in Process /\ behind \subseteq Procs
  BY DEF GatewayInv, Local
<1>1. /\ g.alive /\ g.half = "no" /\ g.pc = "loop"
      /\ conf' = conf /\ used' = used /\ behind' = behind /\ leaked' = leaked
  BY DEF UpstreamEnds, deadline_fire, idle_timeout, ReplyUnowned, gw_ws_start, Readable, Loop, Step, Shared
<1>2. g.ups[u].on => LET h == upstream_fail(g, u) IN Local(h) /\ h.held = g.held - 1 /\ h.half = "give"
  <2>1. Cardinality(Procs) > 1 /\ Idle(g) \ {u} # {} => g.tick \/ g.rearm
    BY <1>0, <1>1, LoopPolls
  <2>2. g.ups[u].on => Local(upstream_fail(g, u)) /\ Dropped(g, upstream_fail(g, u), u, g.ups[u].cur)
    BY <1>0, <1>1, <2>1, LocalFail
  <2> QED BY <2>2 DEF Dropped
<1>3. CASE UpstreamEnds(p, u) \/ ReplyUnowned(p, u)
  <2> DEFINE h == upstream_fail(g, u)
  <2>0. g.ups[u].on /\ gw' = [gw EXCEPT ![p] = h]
    BY <1>3 DEF UpstreamEnds, ReplyUnowned, Readable, Become
  <2>1. Local(h) /\ h.held = g.held - 1 /\ h.half = "give"
    BY <1>2, <2>0
  <2> HIDE DEF h
  <2> QED BY <1>0, <1>1, <2>0, <2>1, StepLess
<1>4. CASE deadline_fire(p, u)
  <2> DEFINE h == upstream_deadline_expired(g, u)
  <2>0. g.ups[u].dl # "off" /\ gw' = [gw EXCEPT ![p] = h]
    BY <1>4 DEF deadline_fire, Become
  <2>1. g.ups[u].on
    <3>1. Proper(g.ups[u], g.rq)
      BY <1>0 DEF Local, Conns
    <3> QED BY <2>0, <3>1, SMTT(60) DEF Proper, NoUpstream
  <2>2. Local(h) /\ Dropped(g, h, u, g.ups[u].cur)
    BY <1>0, <1>1, <2>1, LocalExpire
  <2> HIDE DEF h
  <2>3. h.held = g.held - 1 /\ h.half = "give"
    BY <2>2 DEF Dropped
  <2> QED BY <1>0, <1>1, <2>0, <2>2, <2>3, StepLess
<1>5. CASE idle_timeout(p, u)
  <2> DEFINE h == upstream_drop(g, u)
  <2>0. u \in Idle(g) /\ gw' = [gw EXCEPT ![p] = h]
    BY <1>5 DEF idle_timeout, Become
  <2>1. Local(h) /\ h.held = g.held - 1 /\ h.half = "give"
    BY <1>0, <1>1, <2>0, LocalSpare
  <2> HIDE DEF h
  <2> QED BY <1>0, <1>1, <2>0, <2>1, StepLess
<1>6. CASE gw_ws_start(p, u)
  <2> DEFINE h == pump(upstream_drop(conn_free(g, g.ups[u].cur), u))
  <2>0. g.ups[u].on /\ g.ups[u].cur # None /\ gw' = [gw EXCEPT ![p] = h]
    BY <1>6 DEF gw_ws_start, Readable, Become
  <2>1. Local(h) /\ Dropped(g, h, u, g.ups[u].cur)
    BY <1>0, <1>1, <2>0, LocalWs
  <2> HIDE DEF h
  <2>2. h.held = g.held - 1 /\ h.half = "give"
    BY <2>1 DEF Dropped
  <2> QED BY <1>0, <1>1, <2>0, <2>1, <2>2, StepLess
<1> QED BY <1>3, <1>4, <1>5, <1>6

\* The callbacks of a connection by which it goes on.
LEMMA UpstreamInv ==
  ASSUME GatewayInv, NEW p \in Procs, NEW u \in Slots,
         writecb(p, u) \/ ReplyHead(p, u) \/ ReplyBody(p, u) \/ ReplyEnd(p, u)
  PROVE  GatewayInv'
<1> DEFINE g == gw[p]
           c == g.ups[u].cur
<1>0. Local(g) /\ g \in Process /\ behind \subseteq Procs
  BY DEF GatewayInv, Local
<1>1. /\ g.alive /\ g.half = "no" /\ g.pc = "loop"
      /\ conf' = conf /\ used' = used /\ behind' = behind /\ leaked' = leaked
  BY DEF writecb, ReplyHead, ReplyBody, ReplyEnd, Readable, Loop, Step, Shared
<1>2. c # None => c \in Reqs
  BY <1>0 DEF Process, Upstream
<1>3. CASE writecb(p, u)
  <2> DEFINE h == deadline_arm([g EXCEPT !.ups[u].conn = FALSE, !.ups[u].rd = TRUE], u)
  <2>0. g.ups[u].on /\ g.ups[u].conn /\ gw' = [gw EXCEPT ![p] = h]
    BY <1>3 DEF writecb, Become
  <2>1. Local(h) /\ h.held = g.held /\ h.half = g.half
    BY <1>0, <1>1, <2>0, LocalWritten
  <2> HIDE DEF h
  <2> QED BY <1>0, <1>1, <2>0, <2>1, StepSame
<1>4. CASE ReplyHead(p, u)
  <2>0. PICK to \in {"sent", "discard"} : gw' = [gw EXCEPT ![p].rq[c].head = to]
    BY <1>4 DEF ReplyHead
  <2> DEFINE h == Headed(g, c, to)
  <2>1. c \in Reqs /\ gw' = [gw EXCEPT ![p] = h]
    BY <1>2, <1>4, <2>0 DEF ReplyHead, Headed
  <2>2. Local(h) /\ h.held = g.held /\ h.half = g.half
    <3>1. to \in {"sent", "discard", "lost"} /\ g.ups[u].cur = c
      BY <2>0
    <3> HIDE DEF c, g
    <3> QED BY <1>0, <1>1, <2>1, <3>1, LocalHead
  <2> HIDE DEF h
  <2> QED BY <1>0, <1>1, <2>1, <2>2, StepSame
<1>5. CASE ReplyBody(p, u)
  <2> DEFINE h == response_pause(g, c)
             k == Headed(g, c, "lost")
  <2>0. c # None /\ ~g.ups[u].conn /\ (gw' = [gw EXCEPT ![p] = h] \/ gw' = [gw EXCEPT ![p] = k])
    BY <1>5 DEF ReplyBody, Readable, Become, Headed
  <2>1. Local(h) /\ h.held = g.held /\ h.half = g.half
    BY <1>0, <1>1, <1>2, <2>0, LocalPause
  <2>2. Local(k) /\ k.held = g.held /\ k.half = g.half
    <3>1. c \in Reqs /\ g.ups[u].cur = c
      BY <1>2, <2>0
    <3> HIDE DEF c, g
    <3> QED BY <1>0, <1>1, <3>1, LocalHead
  <2> HIDE DEF h, k
  <2>3. CASE gw' = [gw EXCEPT ![p] = h]
    BY <1>0, <1>1, <2>1, <2>3, StepSame
  <2>4. CASE gw' = [gw EXCEPT ![p] = k]
    BY <1>0, <1>1, <2>2, <2>4, StepSame
  <2> QED BY <2>0, <2>3, <2>4
<1>6. CASE ReplyEnd(p, u)
  <2> DEFINE end == [g EXCEPT !.ups[u].whole = TRUE]
             head == IF c = None THEN "none" ELSE g.rq[c].head
             E(x) == IF x THEN response_pause(end, c) ELSE end
  <2>0. /\ g.ups[u].on /\ ~g.ups[u].conn /\ g.ups[u].rd
        /\ conf.transport = "http" => head # "none"
    BY <1>6 DEF ReplyEnd, Readable
  <2>1. PICK crossing \in {FALSE, head = "sent"}, eof \in {FALSE, conf.transport = "http"} :
          Become(p, IF eof THEN http_complete_eof(E(crossing), u) ELSE request_done(E(crossing), u))
    BY <1>6 DEF ReplyEnd
  <2>2. crossing \in BOOLEAN /\ eof \in BOOLEAN /\ (crossing => c # None) /\ (eof => c # None)
    BY <2>0, <2>1
  <2> DEFINE e == E(crossing)
  <2>3. Ending(g, e, u)
    BY <1>0, <2>0, <2>2, EndingIs
  <2>4. gw' = [gw EXCEPT ![p] = IF eof THEN http_complete_eof(e, u) ELSE request_done(e, u)]
    BY <2>1 DEF Become
  <2> HIDE DEF e, E, end, head
  <2>5. CASE eof
    <3> DEFINE h == http_complete_eof(e, u)
    <3>1. Local(h) /\ Dropped(g, h, u, c)
      BY <1>0, <1>1, <1>2, <2>2, <2>3, <2>5, LocalEof
    <3>2. gw' = [gw EXCEPT ![p] = h]
      BY <2>4, <2>5
    <3> HIDE DEF h
    <3>3. h.held = g.held - 1 /\ h.half = "give"
      BY <3>1 DEF Dropped
    <3> QED BY <1>0, <1>1, <3>1, <3>2, <3>3, StepLess
  <2>6. CASE ~eof
    <3> DEFINE h == request_done(e, u)
    <3>1. Local(h) /\ h.held = g.held /\ h.half = g.half
      BY <1>0, <1>1, <2>0, <2>3, LocalDone
    <3>2. gw' = [gw EXCEPT ![p] = h]
      BY <2>4, <2>6
    <3> HIDE DEF h
    <3> QED BY <1>0, <1>1, <3>1, <3>2, StepSame
  <2> QED BY <2>5, <2>6
<1> QED BY <1>3, <1>4, <1>5, <1>6


LEMMA GatewayStarts == Init => GatewayInv
<1> SUFFICES ASSUME Init PROVE GatewayInv
  OBVIOUS
<1>1. conf \in Configured /\ used = 0 /\ leaked = 0 /\ behind = {} /\ DOMAIN gw = Procs /\ \A p \in Procs : gw[p] = Started
  BY DEF Init
<1>2. Local(Started) /\ Started.held = 0 /\ Started.half = "no"
  BY LocalStarted
<1>3. {s \in Procs \X Slots : s[2] <= gw[s[1]].held} = {}
  <2>1. ASSUME NEW s \in Procs \X Slots PROVE ~(s[2] <= gw[s[1]].held)
    <3>1. s[2] \in Nat \ {0} /\ s[1] \in Procs
      BY SlotsAre
    <3> QED BY <1>1, <1>2, <3>1, SMTT(30)
  <2> QED BY <2>1
<1>4. {p \in Procs : gw[p].half # "no"} = {}
  BY <1>1, <1>2
<1>5. conf.max \in Nat
  BY <1>1, SlotsAre
<1>6. Budget
  <2>1. /\ Cardinality({s \in Procs \X Slots : s[2] <= gw[s[1]].held}) = 0
        /\ Cardinality({p \in Procs : gw[p].half # "no"}) = 0
    BY <1>3, <1>4, FS_EmptySet
  <2>2. used <= conf.max /\ \A p \in Procs : gw[p].held <= conf.max
    BY <1>1, <1>2, <1>5, SMTT(30)
  <2> QED BY <1>1, <2>1, <2>2, SMTT(30) DEF Budget
<1> QED BY <1>1, <1>2, <1>6 DEF GatewayInv

LEMMA GatewaySteps == GatewayInv /\ [Next]_vars => GatewayInv'
<1> SUFFICES ASSUME GatewayInv, [Next]_vars PROVE GatewayInv'
  OBVIOUS
<1>1. CASE UNCHANGED vars
  BY <1>1 DEF vars, GatewayInv, Budget
<1>2. CASE Next
  <2>1. PICK p \in Procs :
          \/ Pump(p) \/ tick(p) \/ Kill(p) \/ counters_process_gone(p)
          \/ \E c \in Reqs : \/ dispatch(p, c) \/ wait_expired(p, c)
                             \/ response_drained(p, c) \/ ClientCloses(p, c)
          \/ \E u \in Slots : \/ writecb(p, u) \/ UpstreamEnds(p, u) \/ deadline_fire(p, u)
                              \/ idle_timeout(p, u) \/ ReplyHead(p, u) \/ ReplyBody(p, u)
                              \/ ReplyUnowned(p, u) \/ ReplyEnd(p, u) \/ gw_ws_start(p, u)
    BY <1>2 DEF Next
  <2>2. CASE Pump(p)
    <3>1. CASE budget_take(p) \/ budget_taken(p) \/ budget_give_back(p)
      BY <3>1, BudgetInv
    <3>2. CASE \/ PumpEmpty(p) \/ PumpDispatch(p) \/ transport_connect(p) \/ PumpUnreachable(p)
               \/ PumpFull(p) \/ tick_target(p)
      BY <3>2, PumpInv
    <3> QED BY <2>2, <3>1, <3>2 DEF Pump
  <2>3. CASE tick(p)
    BY <2>3, TickInv
  <2>4. CASE Kill(p) \/ counters_process_gone(p)
    BY <2>4, LossInv
  <2>5. CASE \E c \in Reqs : \/ dispatch(p, c) \/ wait_expired(p, c)
                             \/ response_drained(p, c) \/ ClientCloses(p, c)
    BY <2>5, ClientInv
  <2>6. CASE \E u \in Slots : \/ UpstreamEnds(p, u) \/ deadline_fire(p, u) \/ idle_timeout(p, u)
                              \/ ReplyUnowned(p, u) \/ gw_ws_start(p, u)
    BY <2>6, UpstreamLostInv
  <2>7. CASE \E u \in Slots : writecb(p, u) \/ ReplyHead(p, u) \/ ReplyBody(p, u) \/ ReplyEnd(p, u)
    BY <2>7, UpstreamInv
  <2> QED BY <2>1, <2>2, <2>3, <2>4, <2>5, <2>6, <2>7
<1> QED BY <1>1, <1>2

LEMMA GatewayImplies == GatewayInv => BudgetExact /\ UpstreamSound /\ CompleteIsWhole
<1> SUFFICES ASSUME GatewayInv PROVE BudgetExact /\ UpstreamSound /\ CompleteIsWhole
  OBVIOUS
<1>0. ASSUME NEW p \in Procs
      PROVE  /\ gw[p] \in Process /\ ~gw[p].lied /\ Gauge(gw[p]) /\ Pumped(gw[p])
             /\ Conns(gw[p].ups, gw[p].rq)
  BY DEF GatewayInv, Local
<1>1. BudgetExact
  BY <1>0 DEF GatewayInv, Budget, BudgetExact, Gauge
<1>2. CompleteIsWhole
  BY <1>0 DEF CompleteIsWhole
<1>3. TypeOK
  <2>1. ASSUME NEW p \in Procs
        PROVE  /\ gw[p].held \in Nat /\ gw[p].ups \in [Slots -> Upstream]
               /\ gw[p].rq \in [Reqs -> Request] /\ gw[p].waiting \in Seq(Reqs)
    BY <1>0 DEF Process
  <2> QED BY <2>1 DEF TypeOK, GatewayInv
<1>4. NoIdleWhileWaiting
  BY <1>0 DEF NoIdleWhileWaiting, Pumped, Loop, Step
<1>5. IdlePolled
  BY <1>0 DEF IdlePolled, Pumped, Loop, Step
<1>6. ASSUME NEW p \in Procs, NEW u \in Slots PROVE Proper(gw[p].ups[u], gw[p].rq)
  BY <1>0 DEF Conns
<1>7. ReplyBelongs
  <2>1. ASSUME NEW p \in Procs, NEW u \in Slots, NEW v \in Slots \ {u}, gw[p].ups[u].cur # None
        PROVE  gw[p].ups[v].cur # gw[p].ups[u].cur
    BY <1>0, <2>1, SMTT(30) DEF Conns
  <2>2. ASSUME NEW p \in Procs, NEW u \in Slots
        PROVE  LET up == gw[p].ups[u] IN
               /\ up.busy <=> up.served # None
               /\ up.cur # None => up.cur = up.served /\ gw[p].rq[up.cur].st = "up"
    BY <1>6 DEF Proper
  <2> QED BY <2>1, <2>2 DEF ReplyBelongs
<1>8. DeadlineFollowsPause
  BY <1>6 DEF DeadlineFollowsPause, Proper, Paused, Ups
<1> QED BY <1>1, <1>2, <1>3, <1>4, <1>5, <1>7, <1>8 DEF UpstreamSound

LEMMA GatewayInvariant == Spec => []GatewayInv
  BY GatewayStarts, GatewaySteps, PTL DEF Spec

\* The admission budget is exact for any number of gateway processes and any
\* configuration (fpm_http_budget_take(), _give_back(), _counters_process_gone()):
\* whatever process is killed between its two writes, the shared word is what
\* the gauges say plus what is under way or leaked, and never exceeds the share.
THEOREM BudgetTheorem == Spec => []BudgetExact
  BY GatewayInvariant, GatewayImplies, PTL

\* The connections are sound for any number of clients (fpm_http_pump(),
\* fpm_http_upstream_deadline_arm()): no request waits beside an idle one, an
\* idle one is polled for, each answers its own request, and its deadline runs
\* exactly while it is read.
THEOREM UpstreamTheorem == Spec => []UpstreamSound
  BY GatewayInvariant, GatewayImplies, PTL

\* No client is told that a reply is complete that is not (fpm_http_finish(),
\* fpm_http_finish_truncated()).
THEOREM WholeTheorem == Spec => []CompleteIsWhole
  BY GatewayInvariant, GatewayImplies, PTL

=============================================================================
