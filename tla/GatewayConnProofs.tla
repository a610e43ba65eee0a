-------------------------- MODULE GatewayConnProofs -------------------------
(***************************************************************************)
(* The safety of the gateway's connections, for any number of processes,   *)
(* clients, connections and configurations.  What a run checks is not      *)
(* inductive: the budget rests on where a process is in its pump and on    *)
(* the gauge counting its connections; that no reply goes to the wrong     *)
(* client rests on a queued request not being on a connection and being    *)
(* queued once; that a reply ended as complete is whole rests on a         *)
(* connection answering one request.                                       *)
(***************************************************************************)
EXTENDS GatewayUpstream, FiniteSetTheorems, TLAPS

\* Leaves go to Zenon unless they name another prover.
USE ZenonT(30)

Paused(up, rq) == up.cur # None /\ rq[up.cur].paused

\* A connection by itself: off or on, what it works on, and what is armed.
Proper(up, rq) ==
  /\ up.on \/ up = NoUpstream
  /\ ~up.whole
  /\ up.busy <=> up.served # None
  /\ up.cur # None => up.cur = up.served /\ rq[up.cur].st = "up"
  /\ Paused(up, rq) => ~up.conn
  /\ up.on => /\ up.rd <=> ~up.conn /\ ~Paused(up, rq)
              /\ up.dl = "connect" <=> up.conn
              /\ up.dl = "read" <=> ~up.conn /\ up.busy /\ ~Paused(up, rq)

\* The connections of a process and its requests.
Conns(ups, rq) ==
  /\ \A u \in Slots : Proper(ups[u], rq)
  /\ \A u, v \in Slots : ups[u].cur # None /\ ups[u].cur = ups[v].cur => u = v
  /\ \A c \in Reqs : rq[c].st = "up" => \E u \in Slots : ups[u].cur = c

\* A request by itself, and the queue: each queued request is in it, once.
Queue(q, rq) ==
  /\ \A c \in Reqs : /\ rq[c].timer => rq[c].st = "queued"
                     /\ rq[c].paused \/ rq[c].head # "none" => rq[c].st = "up"
                     /\ rq[c].st = "queued" => \E i \in 1..Len(q) : q[i] = c
  /\ \A i \in 1..Len(q) : rq[q[i]].st = "queued"
  /\ \A i, j \in 1..Len(q) : q[i] = q[j] => i = j

\* The gauge, and where the two writes of the budget are.
Gauge(g) ==
  /\ g.alive => g.held = nupstreams(g) + (IF g.pc = "connect" /\ g.half = "no" THEN 1 ELSE 0)
  /\ g.half = "take" => g.pc = "connect"
  /\ g.half = "give" => g.pc # "connect"
  /\ ~g.alive => g.half = "no"

\* What the pump keeps: no request waits beside an idle connection but while
\* it is about to be handed one, and an idle connection is polled for.
Pumped(g) ==
  /\ g.pc \in {"loop", "connect", "unreachable", "full"} /\ g.waiting # <<>> => Idle(g) = {}
  /\ Cardinality(Procs) > 1 /\ Idle(g) # {} =>
       \/ g.tick \/ g.rearm \/ g.pc = "tick"
       \/ g.pc = "pump" /\ g.half = "no" /\ g.waiting # <<>> /\ \A u, v \in Idle(g) : u = v
  /\ g.pc = "loop" => ~g.rearm /\ ~g.again
  /\ g.pc = "connect" => g.waiting # <<>>

Local(g) ==
  /\ g \in Process /\ ~g.lied
  /\ Gauge(g) /\ Pumped(g) /\ Conns(g.ups, g.rq) /\ Queue(g.waiting, g.rq)

Budget ==
  /\ used = Cardinality({s \in Procs \X Slots : s[2] <= gw[s[1]].held}) + leaked
            + Cardinality({p \in Procs : gw[p].half # "no"})
  /\ used <= conf.max /\ \A p \in Procs : gw[p].held <= conf.max

GatewayInv ==
  /\ conf \in Configured /\ used \in Nat /\ leaked \in Nat /\ behind \subseteq Procs
  /\ DOMAIN gw = Procs /\ \A p \in Procs : Local(gw[p])
  /\ Budget

-----------------------------------------------------------------------------
(* Slots, and the queue.                                                   *)

LEMMA SlotsAre ==
  /\ IsFiniteSet(Slots) /\ Slots \subseteq Nat \ {0}
  /\ \A k \in Configured : 1..k.max \subseteq Slots /\ k.max \in Nat \ {0}
  /\ \E n \in Nat : Slots = 1..n
<1>1. PICK most \in Configured : \A k \in Configured : k.max <= most.max
  BY GatewayUpstreamAssumption
<1>2. \A k \in Configured : k.max \in Nat \ {0}
  BY GatewayUpstreamAssumption
<1>3. Slots = 1..most.max
  BY <1>1, <1>2, SMT DEF Slots
<1>4. IsFiniteSet(Slots)
  BY <1>2, <1>3, FS_Interval, SMT
<1> QED BY <1>1, <1>2, <1>3, <1>4, SMT

LEMMA UnlinkIs ==
  ASSUME NEW q \in Seq(Reqs), NEW c \in Reqs, \A i, j \in 1..Len(q) : q[i] = q[j] => i = j
  PROVE  LET r == Unlink(q, c) IN
         /\ r \in Seq(Reqs)
         /\ \A i \in 1..Len(r) : r[i] # c /\ \E j \in 1..Len(q) : r[i] = q[j]
         /\ \A j \in 1..Len(q) : q[j] # c => \E i \in 1..Len(r) : r[i] = q[j]
         /\ \A i, j \in 1..Len(r) : r[i] = r[j] => i = j
         /\ q = <<>> => r = <<>>
         /\ (\A j \in 1..Len(q) : q[j] # c) => r = q
<1>1. CASE \A j \in 1..Len(q) : q[j] # c
  BY <1>1 DEF Unlink
<1>2. CASE \E j \in 1..Len(q) : q[j] = c
  <2> DEFINE k == CHOOSE j \in 1..Len(q) : q[j] = c
             front == SubSeq(q, 1, k - 1)
             back == SubSeq(q, k + 1, Len(q))
             r == front \o back
  <2>1. k \in 1..Len(q) /\ q[k] = c
    BY <1>2
  <2>2. Unlink(q, c) = r
    BY <1>2 DEF Unlink
  <2> HIDE DEF k
  <2>3. /\ front \in Seq(Reqs) /\ Len(front) = k - 1
        /\ \A i \in 1..(k - 1) : front[i] = q[i]
    BY <2>1, SMT
  <2>4. /\ back \in Seq(Reqs) /\ Len(back) = Len(q) - k
        /\ \A i \in 1..(Len(q) - k) : back[i] = q[k + i]
    BY <2>1, SMT
  <2> HIDE DEF front, back
  <2>5. /\ r \in Seq(Reqs) /\ Len(r) = Len(q) - 1
        /\ \A i \in 1..Len(r) : r[i] = IF i < k THEN q[i] ELSE q[i + 1]
    <3>1. /\ r \in Seq(Reqs) /\ Len(r) = Len(front) + Len(back)
          /\ \A i \in 1..Len(front) + Len(back) :
               r[i] = IF i <= Len(front) THEN front[i] ELSE back[i - Len(front)]
      <4>1. front \in Seq(Reqs) /\ back \in Seq(Reqs)
        BY <2>3, <2>4
      <4>2. r \in Seq(Reqs) /\ Len(r) = Len(front) + Len(back)
        BY <4>1, SMT
      <4>3. ASSUME NEW i \in 1..Len(front) + Len(back)
            PROVE  r[i] = IF i <= Len(front) THEN front[i] ELSE back[i - Len(front)]
        BY <4>1, SMT
      <4> QED BY <4>2, <4>3
    <3> HIDE DEF r
    <3>2. Len(q) \in Nat /\ k \in Nat
      BY <2>1, SMT
    <3>3. /\ Len(r) = Len(q) - 1
          /\ \A i \in 1..Len(r) : r[i] = IF i <= k - 1 THEN front[i] ELSE back[i - (k - 1)]
      <4>1. Len(front) + Len(back) = Len(q) - 1
        BY <2>3, <2>4, <3>2, SMT
      <4> QED BY <2>3, <3>1, <4>1
    <3>4. ASSUME NEW i \in 1..Len(r) PROVE r[i] = IF i < k THEN q[i] ELSE q[i + 1]
      <4>1. CASE i < k
        <5>1. i \in 1..(k - 1) /\ i <= k - 1
          BY <3>2, <4>1, SMT
        <5> QED BY <2>3, <3>3, <4>1, <5>1
      <4>2. CASE i >= k
        <5>1. i - (k - 1) \in 1..(Len(q) - k) /\ k + (i - (k - 1)) = i + 1
          BY <2>1, <3>2, <3>3, <4>2, SMTT(30)
        <5>2. back[i - (k - 1)] = q[i + 1]
          BY <2>4, <5>1
        <5>3. r[i] = back[i - (k - 1)]
          BY <3>2, <3>3, <4>2, SMTT(30)
        <5> QED BY <3>2, <3>3, <4>2, <5>2, <5>3, SMTT(30)
      <4> QED BY <3>2, <3>3, <4>1, <4>2, SMTT(30)
    <3> QED BY <3>1, <3>3, <3>4
  <2> HIDE DEF r
  <2>6. \A i \in 1..Len(r) : r[i] # c /\ \E j \in 1..Len(q) : r[i] = q[j]
    BY <2>1, <2>5, SMT
  <2>7. ASSUME NEW j \in 1..Len(q), q[j] # c PROVE \E i \in 1..Len(r) : r[i] = q[j]
    <3>1. CASE j < k
      BY <2>1, <2>5, <3>1, SMT
    <3>2. CASE j > k
      <4>1. j - 1 \in 1..Len(r) /\ r[j - 1] = q[j]
        BY <2>1, <2>5, <3>2, SMT
      <4> QED BY <4>1
    <3> QED BY <2>1, <2>7, <3>1, <3>2, SMT
  <2>8. \A i, j \in 1..Len(r) : r[i] = r[j] => i = j
    BY <2>1, <2>5, SMT
  <2>9. q # <<>>
    BY <2>1, SMT
  <2> QED BY <1>2, <2>2, <2>5, <2>6, <2>7, <2>8, <2>9
<1> QED BY <1>1, <1>2

-----------------------------------------------------------------------------
(* What the helpers change of a process.                                   *)

Kept(g, h) ==
  /\ h \in Process /\ h.alive = g.alive /\ h.pc = g.pc /\ h.half = g.half /\ h.held = g.held
  /\ h.again = g.again /\ h.rearm = g.rearm /\ h.tick = g.tick

\* A connection that differs at most in what is armed.
Alike(x, y) ==
  /\ y.on = x.on /\ y.conn = x.conn /\ y.busy = x.busy /\ y.cur = x.cur
  /\ y.served = x.served /\ y.whole = x.whole

ArmFor(up, rq) ==
  IF up.conn THEN "connect" ELSE IF up.busy /\ ~Paused(up, rq) THEN "read" ELSE "off"

LEMMA WithUps ==
  ASSUME NEW g \in Process, NEW v \in [Slots -> Upstream]
  PROVE  LET h == [g EXCEPT !.ups = v] IN
         Kept(g, h) /\ h.lied = g.lied /\ h.waiting = g.waiting /\ h.rq = g.rq /\ h.ups = v
  BY DEF Process, Kept

LEMMA WithRq ==
  ASSUME NEW g \in Process, NEW v \in [Reqs -> Request]
  PROVE  LET h == [g EXCEPT !.rq = v] IN
         Kept(g, h) /\ h.lied = g.lied /\ h.waiting = g.waiting /\ h.rq = v /\ h.ups = g.ups
  BY DEF Process, Kept

LEMMA SetUp ==
  ASSUME NEW f \in [Slots -> Upstream], NEW u \in Slots, NEW x \in Upstream
  PROVE  /\ [f EXCEPT ![u] = x] \in [Slots -> Upstream]
         /\ \A v \in Slots : [f EXCEPT ![u] = x][v] = IF v = u THEN x ELSE f[v]
  OBVIOUS

LEMMA ArmIs ==
  ASSUME NEW g \in Process, NEW u \in Slots
  PROVE  LET h == deadline_arm(g, u) IN
         /\ Kept(g, h) /\ h.lied = g.lied /\ h.waiting = g.waiting /\ h.rq = g.rq
         /\ \A v \in Slots : v # u => h.ups[v] = g.ups[v]
         /\ Alike(g.ups[u], h.ups[u]) /\ h.ups[u].rd = g.ups[u].rd
         /\ h.ups[u].dl = ArmFor(g.ups[u], g.rq)
<1> DEFINE d == ArmFor(g.ups[u], g.rq)
           x == [g.ups[u] EXCEPT !.dl = d]
           f == [g.ups EXCEPT ![u] = x]
           h == [g EXCEPT !.ups = f]
<1>1. deadline_arm(g, u) = h
  BY DEF deadline_arm, ArmFor, Paused
<1>2. d \in {"off", "connect", "read"}
  BY DEF ArmFor
<1>3. g.ups \in [Slots -> Upstream] /\ g.ups[u] \in Upstream
  BY DEF Process
<1> HIDE DEF d
<1>4. x \in Upstream /\ Alike(g.ups[u], x) /\ x.rd = g.ups[u].rd /\ x.dl = d
  BY <1>2, <1>3 DEF Upstream, Alike
<1> HIDE DEF x
<1>5. f \in [Slots -> Upstream] /\ \A v \in Slots : f[v] = IF v = u THEN x ELSE g.ups[v]
  BY <1>3, <1>4, SetUp
<1> HIDE DEF f
<1>6. Kept(g, h) /\ h.lied = g.lied /\ h.waiting = g.waiting /\ h.rq = g.rq /\ h.ups = f
  BY <1>5, WithUps
<1> HIDE DEF h
<1> QED BY <1>1, <1>4, <1>5, <1>6 DEF d

Resumed(g, h, u, c) ==
  /\ Kept(g, h) /\ h.lied = g.lied /\ h.waiting = g.waiting
  /\ h.rq = [g.rq EXCEPT ![c] = [g.rq[c] EXCEPT !.paused = FALSE]]
  /\ \A v \in Slots : v # u => h.ups[v] = g.ups[v]
  /\ Alike(g.ups[u], h.ups[u])
  /\ g.rq[c].paused => h.ups[u].rd = TRUE /\ h.ups[u].dl = ArmFor(g.ups[u], h.rq)
  /\ ~g.rq[c].paused => h.ups = g.ups

LEMMA ResumeIs ==
  ASSUME NEW g \in Process, NEW c \in Reqs, NEW u \in Slots, g.ups[u].on, g.ups[u].cur = c,
         \A v \in Slots : g.ups[v].cur = c => v = u
  PROVE  Resumed(g, response_resume(g, c), u, c)
<1>1. g.rq \in [Reqs -> Request] /\ g.rq[c] \in Request /\ g.ups \in [Slots -> Upstream] /\ g.ups[u] \in Upstream
  BY DEF Process
<1>2. CASE ~g.rq[c].paused
  <2>1. response_resume(g, c) = g
    BY <1>2 DEF response_resume
  <2>2. [g.rq[c] EXCEPT !.paused = FALSE] = g.rq[c]
    BY <1>1, <1>2 DEF Request
  <2>3. [g.rq EXCEPT ![c] = g.rq[c]] = g.rq
    BY <1>1
  <2> QED BY <1>2, <2>1, <2>2, <2>3 DEF Resumed, Kept, Alike
<1>3. CASE g.rq[c].paused
  <2> DEFINE q == [g.rq[c] EXCEPT !.paused = FALSE]
             rq == [g.rq EXCEPT ![c] = q]
             g1 == [g EXCEPT !.rq = rq]
             x == [g.ups[u] EXCEPT !.rd = TRUE]
             f == [g.ups EXCEPT ![u] = x]
             g2 == [g1 EXCEPT !.ups = f]
  <2>1. UpOf(g, c) = u /\ HasUp(g, c)
    BY DEF UpOf, HasUp, Ups
  <2>2. q \in Request
    BY <1>1 DEF Request
  <2>3. x \in Upstream /\ Alike(g.ups[u], x) /\ x.rd = TRUE
    BY <1>1 DEF Upstream, Alike
  <2>4. response_resume(g, c) = deadline_arm(g2, u)
    <3>1. g1 = [g EXCEPT !.rq[c].paused = FALSE]
      OBVIOUS
    <3>2. g1.ups = g.ups
      BY <1>1 DEF Process
    <3>3. g2 = [[g EXCEPT !.rq[c].paused = FALSE] EXCEPT !.ups[u].rd = TRUE]
      BY <3>1, <3>2
    <3> QED BY <1>3, <2>1, <3>3 DEF response_resume
  <2> HIDE DEF q, x
  <2>5. rq \in [Reqs -> Request]
    BY <1>1, <2>2
  <2> HIDE DEF rq
  <2>6. Kept(g, g1) /\ g1.lied = g.lied /\ g1.waiting = g.waiting /\ g1.rq = rq /\ g1.ups = g.ups
    BY <2>5, WithRq
  <2>7. f \in [Slots -> Upstream] /\ \A v \in Slots : f[v] = IF v = u THEN x ELSE g.ups[v]
    BY <1>1, <2>3, SetUp
  <2> HIDE DEF g1, f
  <2>8. Kept(g1, g2) /\ g2.lied = g1.lied /\ g2.waiting = g1.waiting /\ g2.rq = g1.rq /\ g2.ups = f
    BY <2>6, <2>7, WithUps DEF Kept
  <2> HIDE DEF g2
  <2> DEFINE h == deadline_arm(g2, u)
  <2>9. /\ Kept(g2, h) /\ h.lied = g2.lied /\ h.waiting = g2.waiting /\ h.rq = g2.rq
        /\ \A v \in Slots : v # u => h.ups[v] = g2.ups[v]
        /\ Alike(g2.ups[u], h.ups[u]) /\ h.ups[u].rd = g2.ups[u].rd
        /\ h.ups[u].dl = ArmFor(g2.ups[u], g2.rq)
    BY <2>8, ArmIs, SMTT(30) DEF Kept
  <2> HIDE DEF h
  <2>10. ArmFor(g2.ups[u], g2.rq) = ArmFor(g.ups[u], rq)
    BY <2>3, <2>6, <2>7, <2>8 DEF ArmFor, Alike, Paused
  <2>11. Kept(g, h)
    BY <2>6, <2>8, <2>9 DEF Kept
  <2>12. Alike(g.ups[u], h.ups[u])
    BY <2>3, <2>7, <2>8, <2>9 DEF Alike
  <2>13. response_resume(g, c) = h
    BY <2>4 DEF h
  <2>14. rq = [g.rq EXCEPT ![c] = [g.rq[c] EXCEPT !.paused = FALSE]]
    BY DEF rq, q
  <2>15. /\ h.lied = g.lied /\ h.waiting = g.waiting /\ h.rq = rq
         /\ \A v \in Slots : v # u => h.ups[v] = g.ups[v]
         /\ h.ups[u].rd = TRUE /\ h.ups[u].dl = ArmFor(g.ups[u], h.rq)
    BY <2>3, <2>6, <2>7, <2>8, <2>9, <2>10
  <2> QED BY <1>3, <2>11, <2>12, <2>13, <2>14, <2>15 DEF Resumed
<1> QED BY <1>2, <1>3

LEMMA FreeIs ==
  ASSUME NEW g \in Process, NEW c \in Reqs, \A i, j \in 1..Len(g.waiting) : g.waiting[i] = g.waiting[j] => i = j
  PROVE  LET h == conn_free(g, c) IN
         /\ Kept(g, h) /\ h.lied = g.lied /\ h.waiting = Unlink(g.waiting, c)
         /\ h.rq = [g.rq EXCEPT ![c] = Ended] /\ h.ups = g.ups
<1> DEFINE rq == [g.rq EXCEPT ![c] = Ended]
           w == Unlink(g.waiting, c)
           h == [g EXCEPT !.rq = rq, !.waiting = w]
<1>1. g.rq \in [Reqs -> Request] /\ g.waiting \in Seq(Reqs)
  BY DEF Process
<1>2. Ended \in Request
  BY DEF Ended, Request
<1>3. rq \in [Reqs -> Request] /\ w \in Seq(Reqs)
  BY <1>1, <1>2, UnlinkIs
<1>4. conn_free(g, c) = h
  BY DEF conn_free
<1> HIDE DEF rq, w
<1>5. /\ Kept(g, h) /\ h.lied = g.lied /\ h.waiting = w
      /\ h.rq = rq /\ h.ups = g.ups
  BY <1>3 DEF Process, Kept
<1> QED BY <1>4, <1>5 DEF rq, w

\* The request c of connection u is over; the connection is as it was, except
\* for what is armed.
Over(g, h, u, c) ==
  /\ Kept(g, h) /\ ~h.lied
  /\ h.waiting = Unlink(g.waiting, c) /\ h.rq = [g.rq EXCEPT ![c] = Ended]
  /\ \A v \in Slots : v # u => h.ups[v] = g.ups[v]
  /\ Alike(g.ups[u], h.ups[u])

\* It is read again.
Reread(g, h, u, c) ==
  /\ g.rq[c].paused => h.ups[u].rd = TRUE
  /\ ~g.rq[c].paused => h.ups[u].rd = g.ups[u].rd

\* c is the request of connection u and of no other.
Only(g, u, c) ==
  /\ g.ups[u].on /\ g.ups[u].cur = c
  /\ \A v \in Slots : g.ups[v].cur = c => v = u
  /\ \A i, j \in 1..Len(g.waiting) : g.waiting[i] = g.waiting[j] => i = j

LEMMA FreeOver ==
  ASSUME NEW g \in Process, NEW c \in Reqs, NEW u \in Slots, Only(g, u, c), ~g.lied
  PROVE  Over(g, conn_free(g, c), u, c)
<1> DEFINE h == conn_free(g, c)
<1>1. \A i, j \in 1..Len(g.waiting) : g.waiting[i] = g.waiting[j] => i = j
  BY DEF Only
<1>2. /\ Kept(g, h) /\ h.lied = g.lied /\ h.waiting = Unlink(g.waiting, c)
      /\ h.rq = [g.rq EXCEPT ![c] = Ended] /\ h.ups = g.ups
  BY <1>1, FreeIs
<1> HIDE DEF h
<1>3. Over(g, h, u, c)
  BY <1>2 DEF Over, Alike
<1> QED BY <1>3 DEF h

\* A request is ended as complete only with a head, and then its connection
\* has read the whole reply.
LEMMA FinishOver ==
  ASSUME NEW g \in Process, NEW c \in Reqs, NEW u \in Slots, Only(g, u, c), ~g.lied,
         g.rq[c].head = "sent" => g.ups[u].whole
  PROVE  Over(g, finish(g, c), u, c) /\ Reread(g, finish(g, c), u, c)
<1> DEFINE g1 == response_resume(g, c)
           g2 == conn_free(g1, c)
<1>0. /\ g.rq \in [Reqs -> Request] /\ g.ups[u].on /\ g.ups[u].cur = c
      /\ \A v \in Slots : g.ups[v].cur = c => v = u
      /\ \A i, j \in 1..Len(g.waiting) : g.waiting[i] = g.waiting[j] => i = j
  BY DEF Process, Only
<1>a. Resumed(g, g1, u, c)
  BY <1>0, ResumeIs
<1> HIDE DEF g1
<1>1. /\ Kept(g, g1) /\ g1.lied = g.lied /\ g1.waiting = g.waiting
      /\ g1.rq = [g.rq EXCEPT ![c] = [g.rq[c] EXCEPT !.paused = FALSE]]
      /\ \A v \in Slots : v # u => g1.ups[v] = g.ups[v]
      /\ Alike(g.ups[u], g1.ups[u])
      /\ g.rq[c].paused => g1.ups[u].rd = TRUE
      /\ ~g.rq[c].paused => g1.ups = g.ups
  BY <1>a DEF Resumed
<1>2. /\ Kept(g1, g2) /\ g2.lied = g1.lied /\ g2.waiting = Unlink(g1.waiting, c)
      /\ g2.rq = [g1.rq EXCEPT ![c] = Ended] /\ g2.ups = g1.ups
  BY <1>0, <1>1, FreeIs, SMT DEF Kept
<1> HIDE DEF g2
<1>3. g2.rq = [g.rq EXCEPT ![c] = Ended]
  BY <1>0, <1>1, <1>2
<1>4. Over(g, g2, u, c) /\ Reread(g, g2, u, c)
  BY <1>1, <1>2, <1>3, SMT DEF Over, Reread, Kept, Alike
<1>5. CASE g.rq[c].head = "sent"
  <2> DEFINE l == g2.lied \/ ~HasUp(g1, c) \/ ~g1.ups[UpOf(g1, c)].whole
             h == [g2 EXCEPT !.lied = l]
  <2>1. HasUp(g1, c) /\ UpOf(g1, c) = u
    <3>1. g1.ups[u].on /\ g1.ups[u].cur = c
      BY <1>0, <1>1 DEF Alike
    <3>2. \A v \in Slots : g1.ups[v].cur = c => v = u
      BY <1>0, <1>1, SMT
    <3> QED BY <3>1, <3>2 DEF HasUp, UpOf, Ups
  <2>2. l = FALSE
    BY <1>1, <1>2, <1>5, <2>1 DEF Alike
  <2>3. finish(g, c) = h
    BY <1>5 DEF finish, SendEnd, g1, g2
  <2>4. g2 \in Process
    BY <1>4 DEF Over, Kept
  <2>5. Kept(g2, h) /\ ~h.lied /\ h.waiting = g2.waiting /\ h.rq = g2.rq /\ h.ups = g2.ups
    <3> HIDE DEF l
    <3> QED BY <2>2, <2>4 DEF Process, Kept
  <2> HIDE DEF h
  <2>6. Over(g, h, u, c) /\ Reread(g, h, u, c)
    BY <1>4, <2>5, SMT DEF Over, Reread, Kept, Alike
  <2> QED BY <2>3, <2>6
<1>6. CASE g.rq[c].head # "sent"
  <2>1. finish(g, c) = g2
    BY <1>6 DEF finish, finish_truncated, g1, g2
  <2> QED BY <1>4, <2>1
<1> QED BY <1>5, <1>6

-----------------------------------------------------------------------------
(* The end of a connection.                                                *)

NextRq(g, c) == IF c = None THEN g.rq ELSE [g.rq EXCEPT ![c] = Ended]
NextWaiting(g, c) == IF c = None THEN g.waiting ELSE Unlink(g.waiting, c)

\* Connection u is dropped with its request c, if it has one, and the pump is
\* called.
Dropped(g, h, u, c) ==
  /\ h \in Process /\ h.alive = g.alive /\ h.tick = g.tick /\ h.rearm = g.rearm
  /\ h.held = g.held - 1 /\ h.half = "give" /\ ~h.lied
  /\ h.ups = [g.ups EXCEPT ![u] = NoUpstream]
  /\ h.rq = NextRq(g, c) /\ h.waiting = NextWaiting(g, c)
  /\ g.pc = "loop" => h.pc = "pump" /\ h.again = g.again
  /\ g.pc # "loop" => h.pc = g.pc /\ h.again = TRUE

LEMMA DropIs ==
  ASSUME NEW g \in Process, NEW u \in Slots, g.held \in Nat \ {0}
  PROVE  LET h == upstream_drop(g, u) IN
         /\ h \in Process /\ h.alive = g.alive /\ h.pc = g.pc /\ h.again = g.again /\ h.rearm = g.rearm
         /\ h.tick = g.tick /\ h.lied = g.lied /\ h.held = g.held - 1 /\ h.half = "give"
         /\ h.waiting = g.waiting /\ h.rq = g.rq /\ h.ups = [g.ups EXCEPT ![u] = NoUpstream]
<1> DEFINE f == [g.ups EXCEPT ![u] = NoUpstream]
           n == g.held - 1
           h == [g EXCEPT !.ups = f, !.held = n, !.half = "give"]
<1>1. NoUpstream \in Upstream
  BY DEF NoUpstream, Upstream
<1>2. f \in [Slots -> Upstream] /\ n \in Nat
  BY <1>1, SMT DEF Process
<1>3. upstream_drop(g, u) = h
  BY DEF upstream_drop
<1> HIDE DEF f, n
<1>4. /\ h \in Process /\ h.alive = g.alive /\ h.pc = g.pc /\ h.again = g.again /\ h.rearm = g.rearm
      /\ h.tick = g.tick /\ h.lied = g.lied /\ h.held = n /\ h.half = "give"
      /\ h.waiting = g.waiting /\ h.rq = g.rq /\ h.ups = f
  BY <1>2 DEF Process
<1> QED BY <1>3, <1>4 DEF f, n

LEMMA PumpIs ==
  ASSUME NEW g \in Process
  PROVE  LET h == pump(g) IN
         /\ h \in Process /\ h.alive = g.alive /\ h.half = g.half /\ h.held = g.held /\ h.rearm = g.rearm
         /\ h.tick = g.tick /\ h.lied = g.lied /\ h.waiting = g.waiting /\ h.rq = g.rq /\ h.ups = g.ups
         /\ g.pc = "loop" => h.pc = "pump" /\ h.again = g.again
         /\ g.pc # "loop" => h.pc = g.pc /\ h.again = TRUE
  BY DEF pump, Process

\* The pump after the drop of a connection whose request is over.
LEMMA PumpDropped ==
  ASSUME NEW g \in Process, NEW h \in Process, NEW u \in Slots, NEW c \in Reqs \cup {None},
         g.held \in Nat \ {0}, ~g.lied,
         IF c = None THEN h = g \/ h = [g EXCEPT !.ups[u].dl = "off"] ELSE Over(g, h, u, c)
  PROVE  Dropped(g, pump(upstream_drop(h, u)), u, c)
<1> DEFINE d == upstream_drop(h, u)
<1>0. g.ups \in [Slots -> Upstream] /\ h.ups \in [Slots -> Upstream]
  BY DEF Process
<1>1. /\ Kept(g, h) /\ ~h.lied /\ h.rq = NextRq(g, c) /\ h.waiting = NextWaiting(g, c)
      /\ \A v \in Slots : v # u => h.ups[v] = g.ups[v]
  <2>1. CASE c = None /\ h = g
    BY <2>1 DEF Kept, NextRq, NextWaiting
  <2>2. CASE c = None /\ h = [g EXCEPT !.ups[u].dl = "off"]
    <3> DEFINE f == [g.ups EXCEPT ![u] = [g.ups[u] EXCEPT !.dl = "off"]]
    <3>1. h = [g EXCEPT !.ups = f]
      BY <2>2
    <3>2. [g.ups[u] EXCEPT !.dl = "off"] \in Upstream
      BY <1>0, SMT DEF Upstream
    <3>3. f \in [Slots -> Upstream] /\ \A v \in Slots : v # u => f[v] = g.ups[v]
      BY <1>0, <3>2
    <3> HIDE DEF f
    <3>4. Kept(g, h) /\ h.lied = g.lied /\ h.waiting = g.waiting /\ h.rq = g.rq /\ h.ups = f
      BY <3>1, <3>3, WithUps
    <3> QED BY <2>2, <3>3, <3>4 DEF NextRq, NextWaiting
  <2>3. CASE c # None
    BY <2>3 DEF Over, NextRq, NextWaiting
  <2> QED BY <2>1, <2>2, <2>3
<1>2. [h.ups EXCEPT ![u] = NoUpstream] = [g.ups EXCEPT ![u] = NoUpstream]
  BY <1>0, <1>1
<1>3. /\ d \in Process /\ d.alive = h.alive /\ d.pc = h.pc /\ d.again = h.again /\ d.rearm = h.rearm
      /\ d.tick = h.tick /\ d.lied = h.lied /\ d.held = h.held - 1 /\ d.half = "give"
      /\ d.waiting = h.waiting /\ d.rq = h.rq /\ d.ups = [h.ups EXCEPT ![u] = NoUpstream]
  BY <1>1, DropIs DEF Kept
<1> HIDE DEF d
<1> DEFINE e == pump(d)
<1>4. /\ e \in Process /\ e.alive = d.alive /\ e.half = d.half /\ e.held = d.held /\ e.rearm = d.rearm
      /\ e.tick = d.tick /\ e.lied = d.lied /\ e.waiting = d.waiting /\ e.rq = d.rq /\ e.ups = d.ups
      /\ d.pc = "loop" => e.pc = "pump" /\ e.again = d.again
      /\ d.pc # "loop" => e.pc = d.pc /\ e.again = TRUE
  BY <1>3, PumpIs
<1> HIDE DEF e
<1>5. Dropped(g, e, u, c)
  BY <1>1, <1>2, <1>3, <1>4 DEF Dropped, Kept
<1> QED BY <1>5 DEF e, d

\* A connection that failed, whose deadline expired, whose reply ended with it
\* or that went to the relay, with the request on it, if any.
LEMMA FailDropped ==
  ASSUME NEW g \in Process, NEW u \in Slots, g.held \in Nat \ {0}, ~g.lied,
         g.ups[u].cur # None => Only(g, u, g.ups[u].cur)
  PROVE  Dropped(g, upstream_fail(g, u), u, g.ups[u].cur)
<1> DEFINE c == g.ups[u].cur
           none == IF c = None THEN g ELSE finish(g, c)
           h == EndCurrent(g, u, none)
<1>1. c \in Reqs \cup {None}
  BY DEF Process, Upstream
<1>2. upstream_fail(g, u) = pump(upstream_drop(h, u))
  BY DEF upstream_fail
<1>3. CASE c = None
  <2>1. h = g
    BY <1>3 DEF EndCurrent
  <2> QED BY <1>1, <1>2, <1>3, <2>1, PumpDropped
<1>4. CASE c # None
  <2>1. Over(g, conn_free(g, c), u, c)
    BY <1>1, <1>4, FreeOver
  <2>2. g.rq[c].head # "sent" => Over(g, finish(g, c), u, c)
    BY <1>1, <1>4, FinishOver
  <2>3. h = conn_free(g, c) \/ (g.rq[c].head # "sent" /\ h = finish(g, c))
    BY <1>4 DEF EndCurrent, finish_truncated
  <2> HIDE DEF h
  <2>4. Over(g, h, u, c)
    BY <2>1, <2>2, <2>3
  <2>5. h \in Process
    BY <2>4 DEF Over, Kept
  <2> HIDE DEF c
  <2> QED BY <1>1, <1>2, <1>4, <2>4, <2>5, PumpDropped DEF c
<1> QED BY <1>3, <1>4

LEMMA ExpireDropped ==
  ASSUME NEW g \in Process, NEW u \in Slots, g.held \in Nat \ {0}, ~g.lied,
         g.ups[u].cur # None => Only(g, u, g.ups[u].cur)
  PROVE  Dropped(g, upstream_deadline_expired(g, u), u, g.ups[u].cur)
<1> DEFINE c == g.ups[u].cur
           off == [g EXCEPT !.ups[u].dl = "off"]
           none == IF c = None THEN off ELSE conn_free(off, c)
           h == EndCurrent(off, u, none)
           x == [g.ups[u] EXCEPT !.dl = "off"]
           f == [g.ups EXCEPT ![u] = x]
<1>0. g.ups \in [Slots -> Upstream] /\ g.ups[u] \in Upstream
  BY DEF Process
<1>1. c \in Reqs \cup {None}
  BY <1>0 DEF Upstream
<1>2. upstream_deadline_expired(g, u) = pump(upstream_drop(h, u))
  BY DEF upstream_deadline_expired
<1>3. /\ Kept(g, off) /\ off.lied = g.lied /\ off.waiting = g.waiting /\ off.rq = g.rq
      /\ \A v \in Slots : v # u => off.ups[v] = g.ups[v]
      /\ Alike(g.ups[u], off.ups[u])
  <2>1. off = [g EXCEPT !.ups = f]
    OBVIOUS
  <2>2. x \in Upstream /\ Alike(g.ups[u], x)
    BY <1>0 DEF Upstream, Alike
  <2> HIDE DEF x
  <2>3. f \in [Slots -> Upstream] /\ \A v \in Slots : f[v] = IF v = u THEN x ELSE g.ups[v]
    BY <1>0, <2>2, SetUp
  <2> HIDE DEF f, off
  <2>4. Kept(g, off) /\ off.lied = g.lied /\ off.waiting = g.waiting /\ off.rq = g.rq /\ off.ups = f
    BY <2>1, <2>3, WithUps
  <2> QED BY <2>2, <2>3, <2>4
<1>4. off \in Process /\ off.ups[u].cur = c /\ ~off.lied
  BY <1>3 DEF Kept, Alike
<1>5. CASE c = None
  <2>1. h = off
    BY <1>4, <1>5 DEF EndCurrent
  <2>2. h = [g EXCEPT !.ups[u].dl = "off"] /\ h \in Process
    BY <1>4, <2>1
  <2> HIDE DEF h, off
  <2> QED BY <1>1, <1>2, <1>5, <2>2, PumpDropped
<1>6. CASE c # None
  <2> HIDE DEF off
  <2>0. Only(g, u, c)
    BY <1>6
  <2> HIDE DEF c
  <2>1. Only(off, u, c)
    BY <1>3, <1>4, <2>0, SMT DEF Only, Alike
  <2>2. Over(off, conn_free(off, c), u, c)
    BY <1>1, <1>4, <1>6, <2>1, FreeOver
  <2>3. off.rq[c].head # "sent" => Over(off, finish(off, c), u, c)
    BY <1>1, <1>4, <1>6, <2>1, FinishOver
  <2>4. h = conn_free(off, c) \/ (off.rq[c].head # "sent" /\ h = finish(off, c))
    BY <1>4, <1>6 DEF EndCurrent, finish_truncated
  <2> HIDE DEF h
  <2>5. Over(off, h, u, c)
    BY <2>2, <2>3, <2>4
  <2>6. Over(g, h, u, c)
    BY <1>3, <2>5 DEF Over, Kept, Alike
  <2>7. h \in Process
    BY <2>6 DEF Over, Kept
  <2>8. Dropped(g, pump(upstream_drop(h, u)), u, c)
    BY <1>1, <1>6, <2>6, <2>7, PumpDropped
  <2> QED BY <1>2, <2>8 DEF c
<1> QED BY <1>5, <1>6

-----------------------------------------------------------------------------
(* The invariant of a process.                                             *)

\* A request ends and its connection, x from now on, answers none.
LEMMA ConnsEnd ==
  ASSUME NEW ups \in [Slots -> Upstream], NEW rq \in [Reqs -> Request], Conns(ups, rq),
         NEW u \in Slots, NEW x \in Upstream, x.cur = None, Proper(x, rq),
         NEW c, c = ups[u].cur,
         NEW rq2, rq2 = IF c = None THEN rq ELSE [rq EXCEPT ![c] = Ended]
  PROVE  Conns([ups EXCEPT ![u] = x], rq2)
<1> DEFINE f == [ups EXCEPT ![u] = x]
<1>0. \A v \in Slots : ups[v].cur \in Reqs \cup {None}
  BY DEF Upstream
<1>1. \A v \in Slots : f[v] = IF v = u THEN x ELSE ups[v]
  OBVIOUS
<1> HIDE DEF f
<1>2. \A v \in Slots : v # u /\ ups[v].cur # None => ups[v].cur # c
  BY DEF Conns
<1>3. \A d \in Reqs : d # c => rq2[d] = rq[d]
  OBVIOUS
<1>4. c # None => rq2[c] = Ended
  BY <1>0
<1>5. ASSUME NEW v \in Slots PROVE Proper(f[v], rq2)
  <2>1. CASE v = u
    BY <1>1, <2>1 DEF Proper, Paused
  <2>2. CASE v # u
    <3>1. Proper(ups[v], rq) /\ f[v] = ups[v]
      BY <1>1, <2>2 DEF Conns
    <3>2. ups[v].cur # None => rq2[ups[v].cur] = rq[ups[v].cur]
      BY <1>0, <1>2, <1>3, <2>2
    <3> QED BY <3>1, <3>2 DEF Proper, Paused
  <2> QED BY <2>1, <2>2
<1>6. \A v, w \in Slots : f[v].cur # None /\ f[v].cur = f[w].cur => v = w
  BY <1>1 DEF Conns
<1>7. ASSUME NEW d \in Reqs, rq2[d].st = "up" PROVE \E v \in Slots : f[v].cur = d
  <2>1. d # c
    BY <1>4, <1>7, GatewayUpstreamAssumption DEF Ended
  <2>2. PICK v \in Slots : ups[v].cur = d
    BY <1>3, <1>7, <2>1 DEF Conns
  <2> QED BY <1>1, <2>1, <2>2
<1> QED BY <1>5, <1>6, <1>7 DEF Conns, f

LEMMA QueueEnd ==
  ASSUME NEW q \in Seq(Reqs), NEW rq \in [Reqs -> Request], Queue(q, rq), NEW c \in Reqs
  PROVE  /\ Queue(Unlink(q, c), [rq EXCEPT ![c] = Ended])
         /\ rq[c].st # "queued" => Unlink(q, c) = q
         /\ Unlink(q, c) # <<>> => q # <<>>
<1> DEFINE r == Unlink(q, c)
           rq2 == [rq EXCEPT ![c] = Ended]
<1>0. \A i, j \in 1..Len(q) : q[i] = q[j] => i = j
  BY DEF Queue
<1>1. /\ r \in Seq(Reqs)
      /\ \A i \in 1..Len(r) : r[i] # c /\ \E j \in 1..Len(q) : r[i] = q[j]
      /\ \A j \in 1..Len(q) : q[j] # c => \E i \in 1..Len(r) : r[i] = q[j]
      /\ \A i, j \in 1..Len(r) : r[i] = r[j] => i = j
      /\ q = <<>> => r = <<>>
      /\ (\A j \in 1..Len(q) : q[j] # c) => r = q
  BY <1>0, UnlinkIs
<1> HIDE DEF r
<1>2. rq2[c] = Ended /\ \A d \in Reqs : d # c => rq2[d] = rq[d]
  OBVIOUS
<1> HIDE DEF rq2
<1>3. ASSUME NEW d \in Reqs
      PROVE  /\ rq2[d].timer => rq2[d].st = "queued"
             /\ rq2[d].paused \/ rq2[d].head # "none" => rq2[d].st = "up"
             /\ rq2[d].st = "queued" => \E i \in 1..Len(r) : r[i] = d
  <2>1. CASE d = c
    BY <1>2, <2>1, SMT DEF Ended
  <2>2. CASE d # c
    <3>1. rq2[d] = rq[d]
      BY <1>2, <2>2
    <3>2. /\ rq2[d].timer => rq2[d].st = "queued"
          /\ rq2[d].paused \/ rq2[d].head # "none" => rq2[d].st = "up"
      BY <3>1 DEF Queue
    <3>3. ASSUME rq2[d].st = "queued" PROVE \E i \in 1..Len(r) : r[i] = d
      <4>1. PICK j \in 1..Len(q) : q[j] = d
        BY <3>1, <3>3 DEF Queue
      <4> QED BY <1>1, <2>2, <4>1
    <3> QED BY <3>2, <3>3
  <2> QED BY <2>1, <2>2
<1>4. ASSUME NEW i \in 1..Len(r) PROVE rq2[r[i]].st = "queued"
  <2>1. PICK j \in 1..Len(q) : r[i] = q[j]
    BY <1>1
  <2>2. q[j] \in Reqs /\ rq[q[j]].st = "queued" /\ q[j] # c
    BY <1>1, <2>1, SMT DEF Queue
  <2> QED BY <1>2, <2>1, <2>2
<1>5. Queue(r, rq2)
  BY <1>1, <1>3, <1>4 DEF Queue
<1>6. rq[c].st # "queued" => r = q
  BY <1>1, SMT DEF Queue
<1> QED BY <1>1, <1>5, <1>6 DEF r, rq2

\* One connection less, or more.
LEMMA UpsFewer ==
  ASSUME NEW g \in Process, NEW h \in Process, NEW u \in Slots, g.ups[u].on,
         h.ups = [g.ups EXCEPT ![u] = NoUpstream]
  PROVE  /\ nupstreams(g) \in Nat \ {0} /\ nupstreams(h) = nupstreams(g) - 1
         /\ Idle(h) = Idle(g) \ {u}
<1>1. g.ups \in [Slots -> Upstream]
  BY DEF Process
<1>2. ~NoUpstream.on
  BY DEF NoUpstream
<1>3. Ups(h) = Ups(g) \ {u} /\ u \in Ups(g)
  BY <1>1, <1>2 DEF Ups
<1>4. IsFiniteSet(Ups(g))
  BY SlotsAre, FS_Subset DEF Ups
<1>5. Cardinality(Ups(h)) = Cardinality(Ups(g)) - 1 /\ Cardinality(Ups(g)) \in Nat
  BY <1>3, <1>4, FS_RemoveElement, FS_CardinalityType
<1>6. Cardinality(Ups(g)) # 0
  BY <1>3, <1>4, FS_EmptySet
<1>7. Idle(h) = Idle(g) \ {u}
  BY <1>1, <1>3 DEF Idle, Ups
<1> QED BY <1>5, <1>6, <1>7 DEF nupstreams

LEMMA LocalOnly ==
  ASSUME NEW g, Local(g), NEW u \in Slots, g.ups[u].cur # None
  PROVE  /\ Only(g, u, g.ups[u].cur) /\ g.ups[u].on /\ g.ups[u].busy
         /\ g.ups[u].cur \in Reqs /\ g.rq[g.ups[u].cur].st = "up"
<1>1. Proper(g.ups[u], g.rq) /\ g.ups[u] \in Upstream
  BY DEF Local, Conns, Process
<1>2. g.ups[u].on
  BY <1>1, SMTT(60) DEF Proper, NoUpstream
<1>3. \A v \in Slots : g.ups[v].cur = g.ups[u].cur => v = u
  BY DEF Local, Conns
<1>4. g.ups[u].busy /\ g.rq[g.ups[u].cur].st = "up" /\ g.ups[u].cur \in Reqs
  BY <1>1 DEF Proper, Upstream
<1> QED BY <1>2, <1>3, <1>4 DEF Only, Local, Queue

\* What is left of a process when connection u went with its request, before
\* the pump looks again.
LEMMA LocalLost ==
  ASSUME NEW g, Local(g), g.alive, g.half = "no", g.pc # "connect",
         NEW u \in Slots, g.ups[u].on, NEW c, c = g.ups[u].cur,
         NEW h \in Process, h.alive = g.alive, h.half = "give", h.held = g.held - 1, ~h.lied,
         h.ups = [g.ups EXCEPT ![u] = NoUpstream],
         h.rq = NextRq(g, c), h.waiting = NextWaiting(g, c), h.pc # "connect", Pumped(h)
  PROVE  Local(h)
<1>1. /\ g \in Process /\ g.ups \in [Slots -> Upstream] /\ g.rq \in [Reqs -> Request]
      /\ g.waiting \in Seq(Reqs) /\ g.ups[u] \in Upstream /\ c \in Reqs \cup {None}
  BY DEF Local, Process, Upstream
<1>2. nupstreams(g) \in Nat \ {0} /\ nupstreams(h) = nupstreams(g) - 1 /\ g.held = nupstreams(g)
  <2>1. nupstreams(g) \in Nat \ {0} /\ nupstreams(h) = nupstreams(g) - 1
    BY <1>1, UpsFewer
  <2>2. g.held = nupstreams(g) + 0
    BY DEF Local, Gauge
  <2> QED BY <2>1, <2>2, SMT
<1>3. Gauge(h)
  BY <1>1, <1>2, SMT DEF Gauge
<1>4. NoUpstream \in Upstream /\ NoUpstream.cur = None /\ Proper(NoUpstream, g.rq)
  BY DEF NoUpstream, Upstream, Proper, Paused
<1>5. Conns(h.ups, h.rq)
  <2>1. h.rq = IF c = None THEN g.rq ELSE [g.rq EXCEPT ![c] = Ended]
    BY DEF NextRq
  <2> QED BY <1>1, <1>4, <2>1, ConnsEnd, SMTT(30) DEF Local
<1>6. Queue(h.waiting, h.rq)
  <2>1. CASE c = None
    BY <2>1 DEF Local, NextRq, NextWaiting
  <2>2. CASE c # None
    BY <1>1, <2>2, QueueEnd, SMT DEF Local, NextRq, NextWaiting
  <2> QED BY <2>1, <2>2
<1> QED BY <1>3, <1>5, <1>6 DEF Local

LEMMA LocalDropped ==
  ASSUME NEW g, Local(g), g.alive, g.half = "no", g.pc \in {"loop", "pump"},
         NEW u \in Slots, g.ups[u].on,
         Cardinality(Procs) > 1 /\ Idle(g) \ {u} # {} => g.tick \/ g.rearm,
         NEW h, Dropped(g, h, u, g.ups[u].cur)
  PROVE  Local(h)
<1>1. g \in Process /\ h \in Process /\ h.ups = [g.ups EXCEPT ![u] = NoUpstream]
  BY DEF Local, Dropped
<1>2. h.pc = "pump" /\ h.tick = g.tick /\ h.rearm = g.rearm
  BY DEF Dropped
<1>3. Idle(h) = Idle(g) \ {u}
  BY <1>1, UpsFewer, SMT
<1>4. Pumped(h)
  BY <1>2, <1>3 DEF Pumped
<1> QED BY <1>2, <1>4, LocalLost DEF Dropped

\* The requests alone change: none that a connection answers.
LEMMA ConnsRq ==
  ASSUME NEW ups \in [Slots -> Upstream], NEW rq, Conns(ups, rq), NEW rq2,
         \A d \in Reqs : rq2[d] = rq[d] \/ (rq[d].st # "up" /\ rq2[d].st # "up")
  PROVE  Conns(ups, rq2)
<1>1. \A v \in Slots : ups[v].cur \in Reqs \cup {None}
  BY DEF Upstream
<1>2. ASSUME NEW v \in Slots PROVE Proper(ups[v], rq2)
  <2>1. Proper(ups[v], rq)
    BY DEF Conns
  <2>2. ups[v].cur # None => rq2[ups[v].cur] = rq[ups[v].cur]
    BY <1>1, <2>1 DEF Proper
  <2> QED BY <2>1, <2>2 DEF Proper, Paused
<1>3. ASSUME NEW d \in Reqs, rq2[d].st = "up" PROVE \E v \in Slots : ups[v].cur = d
  BY <1>3 DEF Conns
<1> QED BY <1>2, <1>3 DEF Conns

\* A connection changes and keeps its request, which may change but stays.
LEMMA ConnsTo ==
  ASSUME NEW ups \in [Slots -> Upstream], NEW to \in [Slots -> Upstream], NEW rq, Conns(ups, rq),
         NEW u \in Slots, \A v \in Slots : v # u => to[v] = ups[v], to[u].cur = ups[u].cur,
         NEW rq2, \A d \in Reqs : rq2[d].st = rq[d].st /\ (d # ups[u].cur => rq2[d] = rq[d]),
         Proper(to[u], rq2)
  PROVE  Conns(to, rq2)
<1>0. \A v \in Slots : ups[v].cur \in Reqs \cup {None}
  BY DEF Upstream
<1>2. \A v \in Slots : v # u /\ ups[v].cur # None => ups[v].cur # ups[u].cur
  BY DEF Conns
<1>3. ASSUME NEW v \in Slots PROVE Proper(to[v], rq2)
  <2>1. CASE v = u
    BY <2>1
  <2>2. CASE v # u
    <3>1. Proper(ups[v], rq) /\ to[v] = ups[v]
      BY <2>2 DEF Conns
    <3>2. ups[v].cur # None => rq2[ups[v].cur] = rq[ups[v].cur]
      BY <1>0, <1>2, <2>2
    <3> QED BY <3>1, <3>2, SMTT(60) DEF Proper, Paused
  <2> QED BY <2>1, <2>2
<1>4. \A v, w \in Slots : to[v].cur # None /\ to[v].cur = to[w].cur => v = w
  BY SMT DEF Conns
<1>5. ASSUME NEW d \in Reqs, rq2[d].st = "up" PROVE \E v \in Slots : to[v].cur = d
  <2>1. PICK v \in Slots : ups[v].cur = d
    BY <1>5 DEF Conns
  <2> QED BY <2>1
<1> QED BY <1>3, <1>4, <1>5 DEF Conns

LEMMA QueueSame ==
  ASSUME NEW q \in Seq(Reqs), NEW rq, Queue(q, rq), NEW rq2,
         \A d \in Reqs : /\ rq2[d].st = rq[d].st
                         /\ rq2[d].timer => rq2[d].st = "queued"
                         /\ rq2[d].paused \/ rq2[d].head # "none" => rq2[d].st = "up"
  PROVE  Queue(q, rq2)
<1>1. \A i \in 1..Len(q) : q[i] \in Reqs
  BY SMT
<1>2. \A i \in 1..Len(q) : rq2[q[i]].st = "queued"
  BY <1>1, SMT DEF Queue
<1> QED BY <1>2 DEF Queue

\* A step that opens, closes, frees and takes no connection.
LEMMA LocalKept ==
  ASSUME NEW g, Local(g), g.pc \in {"loop", "unreachable", "full"},
         NEW h, Kept(g, h), ~h.lied,
         \A v \in Slots : h.ups[v].on = g.ups[v].on /\ h.ups[v].busy = g.ups[v].busy,
         h.waiting # <<>> => g.waiting # <<>>,
         Conns(h.ups, h.rq), Queue(h.waiting, h.rq)
  PROVE  Local(h)
<1>1. Ups(h) = Ups(g) /\ Idle(h) = Idle(g)
  BY DEF Ups, Idle
<1>2. Gauge(h)
  BY <1>1 DEF Local, Gauge, Kept, nupstreams
<1>3. Pumped(h)
  BY <1>1 DEF Local, Pumped, Kept
<1> QED BY <1>2, <1>3 DEF Local, Kept

\* A request that no connection answers is over: refused, expired or left.
LEMMA LocalFree ==
  ASSUME NEW g, Local(g), g.pc = "loop", NEW c \in Reqs, g.rq[c].st # "up"
  PROVE  Local(conn_free(g, c))
<1> DEFINE h == conn_free(g, c)
<1>1. g \in Process /\ g.ups \in [Slots -> Upstream] /\ g.rq \in [Reqs -> Request] /\ g.waiting \in Seq(Reqs)
  BY DEF Local, Process
<1>2. \A i, j \in 1..Len(g.waiting) : g.waiting[i] = g.waiting[j] => i = j
  BY DEF Local, Queue
<1>3. /\ Kept(g, h) /\ h.lied = g.lied /\ h.waiting = Unlink(g.waiting, c)
      /\ h.rq = [g.rq EXCEPT ![c] = Ended] /\ h.ups = g.ups
  BY <1>1, <1>2, FreeIs
<1> HIDE DEF h
<1>4. Queue(h.waiting, h.rq) /\ (h.waiting # <<>> => g.waiting # <<>>)
  BY <1>1, <1>3, QueueEnd, SMTT(30) DEF Local
<1>5. \A d \in Reqs : h.rq[d] = g.rq[d] \/ (g.rq[d].st # "up" /\ h.rq[d].st # "up")
  BY <1>1, <1>3, SMTT(30) DEF Ended
<1>6. Conns(h.ups, h.rq)
  BY <1>1, <1>3, <1>5, ConnsRq, SMTT(30) DEF Local
<1>7. Local(h)
  BY <1>3, <1>4, <1>6, LocalKept DEF Local
<1> QED BY <1>7 DEF h

-----------------------------------------------------------------------------
(* The steps of a connection.                                              *)

\* The drops of the event loop leave a gauge that is not zero before.
LEMMA OnHeld ==
  ASSUME NEW g, Local(g), g.alive, g.half = "no", g.pc # "connect", NEW u \in Slots, g.ups[u].on
  PROVE  g \in Process /\ ~g.lied /\ g.held \in Nat \ {0} /\ g.held = nupstreams(g)
<1>1. g \in Process /\ ~g.lied /\ g.ups \in [Slots -> Upstream]
  BY DEF Local, Process
<1>2. IsFiniteSet(Ups(g)) /\ u \in Ups(g)
  BY SlotsAre, FS_Subset DEF Ups
<1>3. Cardinality(Ups(g)) \in Nat /\ Cardinality(Ups(g)) # 0
  BY <1>2, FS_EmptySet, FS_CardinalityType
<1>4. g.held = nupstreams(g) + 0
  BY DEF Local, Gauge
<1> QED BY <1>1, <1>3, <1>4, SMTT(30) DEF nupstreams

\* UpstreamEnds, ReplyUnowned, and the write of the pump that failed.
LEMMA LocalFail ==
  ASSUME NEW g, Local(g), g.alive, g.half = "no", g.pc \in {"loop", "pump"},
         NEW u \in Slots, g.ups[u].on,
         Cardinality(Procs) > 1 /\ Idle(g) \ {u} # {} => g.tick \/ g.rearm
  PROVE  Local(upstream_fail(g, u)) /\ Dropped(g, upstream_fail(g, u), u, g.ups[u].cur)
<1>1. g \in Process /\ ~g.lied /\ g.held \in Nat \ {0}
  BY OnHeld
<1>2. g.ups[u].cur # None => Only(g, u, g.ups[u].cur)
  BY LocalOnly
<1>3. Dropped(g, upstream_fail(g, u), u, g.ups[u].cur)
  BY <1>1, <1>2, FailDropped
<1> QED BY <1>3, LocalDropped

LEMMA LoopPolls ==
  ASSUME NEW g, Local(g), g.pc = "loop", NEW u
  PROVE  Cardinality(Procs) > 1 /\ Idle(g) \ {u} # {} => g.tick \/ g.rearm
  BY DEF Local, Pumped

LEMMA LocalExpire ==
  ASSUME NEW g, Local(g), g.alive, g.half = "no", g.pc = "loop", NEW u \in Slots, g.ups[u].on
  PROVE  /\ Local(upstream_deadline_expired(g, u))
         /\ Dropped(g, upstream_deadline_expired(g, u), u, g.ups[u].cur)
<1>1. g \in Process /\ ~g.lied /\ g.held \in Nat \ {0}
  BY OnHeld
<1>2. g.ups[u].cur # None => Only(g, u, g.ups[u].cur)
  BY LocalOnly
<1>3. Dropped(g, upstream_deadline_expired(g, u), u, g.ups[u].cur)
  BY <1>1, <1>2, ExpireDropped
<1>4. Cardinality(Procs) > 1 /\ Idle(g) \ {u} # {} => g.tick \/ g.rearm
  BY LoopPolls
<1> QED BY <1>3, <1>4, LocalDropped

\* gw_ws_start.
LEMMA LocalWs ==
  ASSUME NEW g, Local(g), g.alive, g.half = "no", g.pc = "loop", NEW u \in Slots,
         g.ups[u].on, g.ups[u].cur # None
  PROVE  LET h == pump(upstream_drop(conn_free(g, g.ups[u].cur), u)) IN
         Local(h) /\ Dropped(g, h, u, g.ups[u].cur)
<1> DEFINE c == g.ups[u].cur
           e == conn_free(g, c)
<1>1. g \in Process /\ ~g.lied /\ g.held \in Nat \ {0}
  BY OnHeld
<1>2. c \in Reqs /\ Only(g, u, c)
  BY LocalOnly
<1>3. Over(g, e, u, c)
  BY <1>1, <1>2, FreeOver
<1> HIDE DEF e
<1>4. e \in Process /\ c # None
  BY <1>3 DEF Over, Kept
<1>5. Dropped(g, pump(upstream_drop(e, u)), u, c)
  BY <1>1, <1>2, <1>3, <1>4, PumpDropped
<1>6. Cardinality(Procs) > 1 /\ Idle(g) \ {u} # {} => g.tick \/ g.rearm
  BY LoopPolls
<1>7. Local(pump(upstream_drop(e, u)))
  BY <1>5, <1>6, LocalDropped
<1> QED BY <1>5, <1>7 DEF e

\* An idle connection is closed: its own timeout, and the reclaim of the tick.
LEMMA LocalSpare ==
  ASSUME NEW g, Local(g), g.alive, g.half = "no", g.pc \in {"loop", "tick"}, NEW u \in Idle(g)
  PROVE  /\ Local(upstream_drop(g, u))
         /\ upstream_drop(g, u).held = g.held - 1 /\ upstream_drop(g, u).half = "give" /\ g.held \in Nat \ {0}
<1> DEFINE h == upstream_drop(g, u)
<1>0. u \in Slots /\ g.ups[u].on /\ ~g.ups[u].busy
  BY DEF Idle, Ups
<1>1. g \in Process /\ ~g.lied /\ g.held \in Nat \ {0}
  BY <1>0, OnHeld
<1>2. g.ups[u].cur = None
  BY <1>0, LocalOnly
<1>3. /\ h \in Process /\ h.alive = g.alive /\ h.pc = g.pc /\ h.again = g.again /\ h.rearm = g.rearm
      /\ h.tick = g.tick /\ h.lied = g.lied /\ h.held = g.held - 1 /\ h.half = "give"
      /\ h.waiting = g.waiting /\ h.rq = g.rq /\ h.ups = [g.ups EXCEPT ![u] = NoUpstream]
  BY <1>0, <1>1, DropIs
<1> HIDE DEF h
<1>4. h.rq = NextRq(g, None) /\ h.waiting = NextWaiting(g, None)
  BY <1>3 DEF NextRq, NextWaiting
<1>5. Idle(h) = Idle(g) \ {u}
  BY <1>0, <1>1, <1>3, UpsFewer
<1>6. Pumped(h)
  BY <1>3, <1>5 DEF Local, Pumped
<1>7. Local(h)
  BY <1>0, <1>1, <1>2, <1>3, <1>4, <1>6, LocalLost
<1> QED BY <1>1, <1>3, <1>7 DEF h

Halted(g, h, u, c) ==
  /\ Kept(g, h) /\ h.lied = g.lied /\ h.waiting = g.waiting
  /\ h.rq = [g.rq EXCEPT ![c] = [g.rq[c] EXCEPT !.paused = TRUE]]
  /\ \A v \in Slots : v # u => h.ups[v] = g.ups[v]
  /\ Alike(g.ups[u], h.ups[u]) /\ h.ups[u].rd = FALSE /\ h.ups[u].dl = "off"

LEMMA PauseIs ==
  ASSUME NEW g \in Process, NEW c \in Reqs, NEW u \in Slots, g.ups[u].on, g.ups[u].cur = c,
         \A v \in Slots : g.ups[v].cur = c => v = u
  PROVE  Halted(g, response_pause(g, c), u, c)
<1> DEFINE q == [g.rq[c] EXCEPT !.paused = TRUE]
           rq == [g.rq EXCEPT ![c] = q]
           x == [g.ups[u] EXCEPT !.rd = FALSE, !.dl = "off"]
           f == [g.ups EXCEPT ![u] = x]
           h == [g EXCEPT !.rq = rq, !.ups = f]
<1>1. g.rq \in [Reqs -> Request] /\ g.rq[c] \in Request /\ g.ups \in [Slots -> Upstream] /\ g.ups[u] \in Upstream
  BY DEF Process
<1>2. UpOf(g, c) = u
  BY DEF UpOf, Ups
<1>3. response_pause(g, c) = h
  <2>1. f = [[g.ups EXCEPT ![u].rd = FALSE] EXCEPT ![u].dl = "off"]
    BY <1>1
  <2>2. response_pause(g, c) = [g EXCEPT !.rq = rq, !.ups = [[g.ups EXCEPT ![u].rd = FALSE] EXCEPT ![u].dl = "off"]]
    BY <1>1, <1>2 DEF response_pause
  <2> QED BY <2>1, <2>2
<1>4. q \in Request
  BY <1>1 DEF Request
<1>5. x \in Upstream /\ Alike(g.ups[u], x) /\ x.rd = FALSE /\ x.dl = "off"
  BY <1>1 DEF Upstream, Alike
<1> HIDE DEF q, x
<1>6. rq \in [Reqs -> Request]
  BY <1>1, <1>4
<1>7. f \in [Slots -> Upstream] /\ \A v \in Slots : f[v] = IF v = u THEN x ELSE g.ups[v]
  BY <1>1, <1>5, SetUp
<1> HIDE DEF rq, f
<1>8. Kept(g, h) /\ h.lied = g.lied /\ h.waiting = g.waiting /\ h.rq = rq /\ h.ups = f
  BY <1>6, <1>7 DEF Process, Kept
<1> HIDE DEF h
<1>9. Halted(g, h, u, c)
  BY <1>5, <1>7, <1>8 DEF Halted, rq, q
<1> QED BY <1>3, <1>9

\* The reply of connection u has been read to its end, and is not ended yet.
Ending(g, e, u) ==
  /\ Kept(g, e) /\ ~e.lied /\ e.waiting = g.waiting
  /\ \A v \in Slots : v # u => e.ups[v] = g.ups[v]
  /\ e.ups[u].on = g.ups[u].on /\ e.ups[u].conn = g.ups[u].conn /\ e.ups[u].busy = g.ups[u].busy
  /\ e.ups[u].cur = g.ups[u].cur /\ e.ups[u].served = g.ups[u].served /\ e.ups[u].whole
  /\ \A d \in Reqs : d # g.ups[u].cur => e.rq[d] = g.rq[d]
  /\ g.ups[u].cur = None \/ ~e.rq[g.ups[u].cur].paused => e.ups[u].rd = TRUE

LEMMA EndingIs ==
  ASSUME NEW g, Local(g), NEW u \in Slots, g.ups[u].on, g.ups[u].rd, NEW crossing \in BOOLEAN,
         crossing => g.ups[u].cur # None
  PROVE  LET end == [g EXCEPT !.ups[u].whole = TRUE]
         IN  Ending(g, IF crossing THEN response_pause(end, g.ups[u].cur) ELSE end, u)
<1> DEFINE x == [g.ups[u] EXCEPT !.whole = TRUE]
           f == [g.ups EXCEPT ![u] = x]
           end == [g EXCEPT !.ups[u].whole = TRUE]
           c == g.ups[u].cur
<1>0. g \in Process /\ g.rq \in [Reqs -> Request] /\ g.ups \in [Slots -> Upstream] /\ g.ups[u] \in Upstream
  BY DEF Local, Process
<1>1. end = [g EXCEPT !.ups = f]
  OBVIOUS
<1>2. /\ x \in Upstream /\ x.on = g.ups[u].on /\ x.conn = g.ups[u].conn /\ x.busy = g.ups[u].busy
      /\ x.cur = c /\ x.served = g.ups[u].served /\ x.whole = TRUE /\ x.rd = g.ups[u].rd
  BY <1>0 DEF Upstream
<1>r. g.ups[u].rd = TRUE
  BY <1>0 DEF Upstream
<1> HIDE DEF x
<1>3. f \in [Slots -> Upstream] /\ \A v \in Slots : f[v] = IF v = u THEN x ELSE g.ups[v]
  BY <1>0, <1>2, SetUp
<1> HIDE DEF f, end
<1>4. Kept(g, end) /\ end.lied = g.lied /\ end.waiting = g.waiting /\ end.rq = g.rq /\ end.ups = f
  BY <1>0, <1>1, <1>3, WithUps
<1>5. Ending(g, end, u)
  BY <1>2, <1>3, <1>4, <1>r DEF Ending, Local
<1>6. CASE crossing
  <2> DEFINE h == response_pause(end, c)
  <2>1. c \in Reqs /\ Only(g, u, c)
    BY <1>6, LocalOnly
  <2>2. end \in Process /\ end.ups[u].on /\ end.ups[u].cur = c /\ \A v \in Slots : end.ups[v].cur = c => v = u
    BY <1>2, <1>3, <1>4, <2>1 DEF Kept, Only
  <2>3. Halted(end, h, u, c)
    BY <2>1, <2>2, PauseIs
  <2> HIDE DEF h
  <2>4. h.rq[c].paused = TRUE /\ \A d \in Reqs : d # c => h.rq[d] = g.rq[d]
    BY <1>0, <1>4, <2>1, <2>3, SMTT(60) DEF Halted, Request
  <2>5. c # None
    BY <1>6
  <2>6. Ending(g, h, u)
    BY <1>5, <2>3, <2>4, <2>5, SMTT(60) DEF Ending, Halted, Kept, Alike
  <2> QED BY <1>6, <2>6 DEF h, end
<1>7. CASE ~crossing
  BY <1>5, <1>7 DEF end
<1> QED BY <1>6, <1>7

\* The reply is ended: its request is over, and its connection is read.
LEMMA EndingOver ==
  ASSUME NEW g, Local(g), NEW u \in Slots, NEW c \in Reqs, g.ups[u].cur = c, NEW e, Ending(g, e, u)
  PROVE  LET h == finish(e, c) IN
         /\ Kept(g, h) /\ ~h.lied
         /\ h.rq = [g.rq EXCEPT ![c] = Ended] /\ h.waiting = Unlink(g.waiting, c)
         /\ \A v \in Slots : v # u => h.ups[v] = g.ups[v]
         /\ h.ups[u].on = g.ups[u].on /\ h.ups[u].conn = g.ups[u].conn /\ h.ups[u].rd = TRUE
<1>0. g \in Process /\ g.rq \in [Reqs -> Request] /\ e \in Process /\ e.rq \in [Reqs -> Request]
  BY DEF Local, Process, Ending, Kept
<1>1. Only(g, u, c) /\ c # None
  BY GatewayUpstreamAssumption, LocalOnly
<1>2. Only(e, u, c)
  BY <1>1, SMTT(60) DEF Only, Ending
<1>3. e.ups[u].whole
  BY DEF Ending
<1> DEFINE h == finish(e, c)
<1>4. Over(e, h, u, c) /\ Reread(e, h, u, c)
  BY <1>0, <1>2, <1>3, FinishOver DEF Ending
<1> HIDE DEF h
<1>5. [e.rq EXCEPT ![c] = Ended] = [g.rq EXCEPT ![c] = Ended]
  BY <1>0 DEF Ending
<1>6. h.ups[u].rd = TRUE
  BY <1>1, <1>4 DEF Ending, Reread
<1>7. Kept(g, h) /\ ~h.lied /\ h.waiting = Unlink(g.waiting, c) /\ h.rq = [g.rq EXCEPT ![c] = Ended]
  BY <1>4, <1>5, SMTT(30) DEF Over, Ending, Kept
<1>8. /\ \A v \in Slots : v # u => h.ups[v] = g.ups[v]
      /\ h.ups[u].on = g.ups[u].on /\ h.ups[u].conn = g.ups[u].conn
  BY <1>4 DEF Over, Ending, Alike
<1> QED BY <1>6, <1>7, <1>8 DEF h

LEMMA LocalEof ==
  ASSUME NEW g, Local(g), g.alive, g.half = "no", g.pc = "loop", NEW u \in Slots, NEW c \in Reqs,
         g.ups[u].cur = c, NEW e, Ending(g, e, u)
  PROVE  Local(http_complete_eof(e, u)) /\ Dropped(g, http_complete_eof(e, u), u, c)
<1>0. /\ g \in Process /\ g.rq \in [Reqs -> Request] /\ e \in Process /\ e.rq \in [Reqs -> Request]
      /\ g.ups \in [Slots -> Upstream] /\ e.ups \in [Slots -> Upstream] /\ e.ups[u].cur = c
  BY DEF Local, Process, Ending, Kept
<1>1. Only(g, u, c) /\ c # None /\ g.ups[u].on
  BY GatewayUpstreamAssumption, LocalOnly
<1>2. Only(e, u, c) /\ e.ups[u].whole /\ ~e.lied
  BY <1>1, SMTT(60) DEF Only, Ending
<1> DEFINE f == finish(e, c)
           h == pump(upstream_drop(f, u))
<1>3. http_complete_eof(e, u) = h
  BY <1>0 DEF http_complete_eof
<1>4. Over(e, f, u, c)
  BY <1>0, <1>2, FinishOver
<1> HIDE DEF f
<1>5. e.held \in Nat \ {0} /\ e.held = g.held
  BY <1>1, OnHeld DEF Ending, Kept
<1>6. Dropped(e, h, u, c)
  BY <1>0, <1>1, <1>2, <1>4, <1>5, PumpDropped DEF Over, Kept
<1> HIDE DEF h
<1>7. NextRq(e, c) = NextRq(g, c) /\ NextWaiting(e, c) = NextWaiting(g, c)
  BY <1>0, <1>1 DEF NextRq, NextWaiting, Ending
<1>8. [e.ups EXCEPT ![u] = NoUpstream] = [g.ups EXCEPT ![u] = NoUpstream]
  BY <1>0 DEF Ending
<1>9. Dropped(g, h, u, c)
  BY <1>6, <1>7, <1>8, SMTT(60) DEF Dropped, Ending, Kept
<1>10. Cardinality(Procs) > 1 /\ Idle(g) \ {u} # {} => g.tick \/ g.rearm
  BY LoopPolls
<1>11. Local(h)
  BY <1>1, <1>9, <1>10, LocalDropped
<1> QED BY <1>3, <1>9, <1>11

Free == [on |-> TRUE, conn |-> FALSE, busy |-> FALSE, cur |-> None,
         served |-> None, whole |-> FALSE, rd |-> TRUE, dl |-> "off"]

LEMMA FreeRecord ==
  ASSUME NEW x \in Upstream, x.on = TRUE, x.conn = FALSE, x.busy = FALSE, x.cur = None,
         x.served = None, x.whole = FALSE, x.rd = TRUE, x.dl = "off"
  PROVE  x = Free
<1>1. x = [on |-> x.on, conn |-> x.conn, busy |-> x.busy, cur |-> x.cur,
           served |-> x.served, whole |-> x.whole, rd |-> x.rd, dl |-> x.dl]
  BY DEF Upstream
<1> QED BY <1>1 DEF Free

\* What fpm_http_request_done() does with the connection of a request that is over.
LEMMA DoneIs ==
  ASSUME NEW g \in Process, NEW u \in Slots, g.pc = "loop", g.ups[u].on, ~g.ups[u].conn, g.ups[u].rd
  PROVE  LET g2 == [g EXCEPT !.ups[u].cur = None, !.ups[u].served = None,
                             !.ups[u].whole = FALSE, !.ups[u].busy = FALSE,
                             !.ups[u].rd = @ \/ conf.idle]
             h == pump(tick_arm(deadline_arm(g2, u)))
         IN  /\ h \in Process /\ h.alive = g.alive /\ h.half = g.half /\ h.held = g.held
             /\ h.rearm = g.rearm /\ h.again = g.again /\ h.pc = "pump" /\ h.lied = g.lied
             /\ h.rq = g.rq /\ h.waiting = g.waiting
             /\ h.ups = [g.ups EXCEPT ![u] = Free]
             /\ Cardinality(Procs) > 1 => h.tick
<1> DEFINE y == [g.ups[u] EXCEPT !.cur = None, !.served = None, !.whole = FALSE,
                                 !.busy = FALSE, !.rd = TRUE]
           f == [g.ups EXCEPT ![u] = y]
           g1 == [g EXCEPT !.ups = f]
           g2 == [g EXCEPT !.ups[u].cur = None, !.ups[u].served = None,
                           !.ups[u].whole = FALSE, !.ups[u].busy = FALSE,
                           !.ups[u].rd = @ \/ conf.idle]
           g3 == deadline_arm(g1, u)
           g4 == tick_arm(g3)
           h == pump(g4)
<1>0. g.ups \in [Slots -> Upstream] /\ g.ups[u] \in Upstream /\ g.ups[u].rd = TRUE
      /\ g.ups[u].on = TRUE /\ g.ups[u].conn = FALSE
  BY DEF Process, Upstream
<1>1. g2 = g1
  <2>1. (g.ups[u].rd \/ conf.idle) = TRUE
    BY <1>0
  <2>2. g2 = [g EXCEPT !.ups = [[[[[g.ups EXCEPT ![u].cur = None] EXCEPT ![u].served = None]
                         EXCEPT ![u].whole = FALSE] EXCEPT ![u].busy = FALSE]
                         EXCEPT ![u].rd = TRUE]]
    BY <1>0, <2>1
  <2>3. [[[[[g.ups EXCEPT ![u].cur = None] EXCEPT ![u].served = None]
         EXCEPT ![u].whole = FALSE] EXCEPT ![u].busy = FALSE] EXCEPT ![u].rd = TRUE] = f
    BY <1>0
  <2> QED BY <2>2, <2>3
<1>2. /\ y \in Upstream /\ y.on = TRUE /\ y.conn = FALSE /\ y.busy = FALSE /\ y.cur = None
      /\ y.served = None /\ y.whole = FALSE /\ y.rd = TRUE
  BY <1>0 DEF Upstream
<1> HIDE DEF y, g2
<1>3. f \in [Slots -> Upstream] /\ \A v \in Slots : f[v] = IF v = u THEN y ELSE g.ups[v]
  BY <1>0, <1>2, SetUp
<1> HIDE DEF f
<1>4. Kept(g, g1) /\ g1.lied = g.lied /\ g1.waiting = g.waiting /\ g1.rq = g.rq /\ g1.ups = f
  BY <1>3, WithUps
<1> HIDE DEF g1
<1>5. /\ Kept(g1, g3) /\ g3.lied = g1.lied /\ g3.waiting = g1.waiting /\ g3.rq = g1.rq
      /\ \A v \in Slots : v # u => g3.ups[v] = g1.ups[v]
      /\ Alike(g1.ups[u], g3.ups[u]) /\ g3.ups[u].rd = g1.ups[u].rd
      /\ g3.ups[u].dl = ArmFor(g1.ups[u], g1.rq)
  BY <1>4, ArmIs, SMTT(60) DEF Kept
<1> HIDE DEF g3
<1>6. g3.ups[u] = Free
  <2>1. g3.ups[u].dl = "off"
    BY <1>2, <1>3, <1>4, <1>5 DEF ArmFor
  <2>2. g3.ups[u] \in Upstream
    BY <1>5 DEF Kept, Process
  <2>3. /\ g3.ups[u].on = TRUE /\ g3.ups[u].conn = FALSE /\ g3.ups[u].busy = FALSE
        /\ g3.ups[u].cur = None /\ g3.ups[u].served = None /\ g3.ups[u].whole = FALSE
        /\ g3.ups[u].rd = TRUE
    BY <1>2, <1>3, <1>4, <1>5, SMTT(60) DEF Alike
  <2> QED BY <2>1, <2>2, <2>3, FreeRecord
<1>7. g3.ups = [g.ups EXCEPT ![u] = Free]
  <2>1. g3.ups \in [Slots -> Upstream]
    BY <1>5 DEF Kept, Process
  <2> QED BY <1>0, <1>3, <1>4, <1>5, <1>6, <2>1, SMTT(30)
<1>8. /\ g4 \in Process /\ g4.alive = g3.alive /\ g4.half = g3.half /\ g4.held = g3.held /\ g4.rearm = g3.rearm
      /\ g4.again = g3.again /\ g4.pc = g3.pc /\ g4.lied = g3.lied /\ g4.rq = g3.rq
      /\ g4.waiting = g3.waiting /\ g4.ups = g3.ups /\ (Cardinality(Procs) > 1 => g4.tick = TRUE)
  BY <1>5 DEF tick_arm, Process, Kept
<1> HIDE DEF g4
<1>9. /\ h \in Process /\ h.alive = g4.alive /\ h.half = g4.half /\ h.held = g4.held /\ h.rearm = g4.rearm
      /\ h.tick = g4.tick /\ h.lied = g4.lied /\ h.waiting = g4.waiting /\ h.rq = g4.rq /\ h.ups = g4.ups
      /\ g4.pc = "loop" => h.pc = "pump" /\ h.again = g4.again
  BY <1>8, PumpIs
<1> HIDE DEF h
<1>10. /\ h \in Process /\ h.alive = g.alive /\ h.half = g.half /\ h.held = g.held
       /\ h.rearm = g.rearm /\ h.again = g.again /\ h.pc = "pump" /\ h.lied = g.lied
       /\ h.rq = g.rq /\ h.waiting = g.waiting /\ h.ups = [g.ups EXCEPT ![u] = Free]
       /\ Cardinality(Procs) > 1 => h.tick
  BY <1>4, <1>5, <1>7, <1>8, <1>9, SMTT(60) DEF Kept
<1>11. h = pump(tick_arm(deadline_arm(g2, u)))
  BY <1>1 DEF h, g4, g3
<1> QED BY <1>10, <1>11 DEF g2

LEMMA LocalDone ==
  ASSUME NEW g, Local(g), g.alive, g.half = "no", g.pc = "loop", NEW u \in Slots,
         g.ups[u].on, ~g.ups[u].conn, NEW e, Ending(g, e, u)
  PROVE  LET h == request_done(e, u) IN Local(h) /\ h.held = g.held /\ h.half = g.half
<1> DEFINE c == g.ups[u].cur
           g1 == IF c = None THEN e ELSE finish(e, c)
           h == request_done(e, u)
<1>0. /\ g \in Process /\ g.rq \in [Reqs -> Request] /\ e \in Process /\ e.rq \in [Reqs -> Request]
      /\ g.ups \in [Slots -> Upstream] /\ e.ups[u].cur = c /\ c \in Reqs \cup {None}
      /\ g.waiting \in Seq(Reqs) /\ g.ups[u] \in Upstream
  BY DEF Local, Process, Ending, Kept, Upstream
<1>1. /\ Kept(g, g1) /\ ~g1.lied
      /\ g1.rq = NextRq(g, c) /\ g1.waiting = NextWaiting(g, c)
      /\ \A v \in Slots : v # u => g1.ups[v] = g.ups[v]
      /\ g1.ups[u].on = g.ups[u].on /\ g1.ups[u].conn = g.ups[u].conn /\ g1.ups[u].rd = TRUE
  <2>1. CASE c = None
    <3>1. e.rq = g.rq
      BY <1>0, <2>1, GatewayUpstreamAssumption, SMTT(60) DEF Ending
    <3> QED BY <2>1, <3>1 DEF Ending, NextRq, NextWaiting
  <2>2. CASE c # None
    <3> DEFINE k == finish(e, c)
    <3>1. /\ Kept(g, k) /\ ~k.lied
          /\ k.rq = [g.rq EXCEPT ![c] = Ended] /\ k.waiting = Unlink(g.waiting, c)
          /\ \A v \in Slots : v # u => k.ups[v] = g.ups[v]
          /\ k.ups[u].on = g.ups[u].on /\ k.ups[u].conn = g.ups[u].conn /\ k.ups[u].rd = TRUE
      BY <1>0, <2>2, EndingOver
    <3>2. g1 = k
      BY <2>2
    <3> HIDE DEF k, g1
    <3> QED BY <2>2, <3>1, <3>2 DEF NextRq, NextWaiting
  <2> QED BY <2>1, <2>2
<1>2. h = pump(tick_arm(deadline_arm(
            [g1 EXCEPT !.ups[u].cur = None, !.ups[u].served = None, !.ups[u].whole = FALSE,
                       !.ups[u].busy = FALSE, !.ups[u].rd = @ \/ conf.idle], u)))
  BY <1>0 DEF request_done
<1> HIDE DEF g1, h
<1>3. /\ h \in Process /\ h.alive = g1.alive /\ h.half = g1.half /\ h.held = g1.held
      /\ h.rearm = g1.rearm /\ h.again = g1.again /\ h.pc = "pump" /\ h.lied = g1.lied
      /\ h.rq = g1.rq /\ h.waiting = g1.waiting /\ h.ups = [g1.ups EXCEPT ![u] = Free]
      /\ Cardinality(Procs) > 1 => h.tick
  <2>1. g1 \in Process /\ g1.pc = "loop" /\ g1.ups[u].on /\ ~g1.ups[u].conn /\ g1.ups[u].rd
    BY <1>1 DEF Kept
  <2> QED BY <1>2, <2>1, DoneIs
<1>4. h.ups = [g.ups EXCEPT ![u] = Free]
  <2>1. g1.ups \in [Slots -> Upstream]
    BY <1>1 DEF Kept, Process
  <2> QED BY <1>0, <1>1, <1>3, <2>1, SMTT(60)
<1>5. /\ Free \in Upstream /\ Free.cur = None /\ Free.on = TRUE /\ Proper(Free, g.rq)
  BY DEF Free, Upstream, Proper, Paused
<1>6. Conns(h.ups, h.rq)
  <2>1. h.rq = IF c = None THEN g.rq ELSE [g.rq EXCEPT ![c] = Ended]
    BY <1>1, <1>3 DEF NextRq
  <2>2. Conns(g.ups, g.rq)
    BY DEF Local
  <2>3. c = g.ups[u].cur
    OBVIOUS
  <2> HIDE DEF c
  <2>4. Conns([g.ups EXCEPT ![u] = Free], h.rq)
    BY <1>0, <1>5, <2>1, <2>2, <2>3, ConnsEnd
  <2> QED BY <1>4, <2>4
<1>7. Queue(h.waiting, h.rq)
  <2>1. CASE c = None
    BY <1>1, <1>3, <2>1 DEF Local, NextRq, NextWaiting
  <2>2. CASE c # None
    BY <1>0, <1>1, <1>3, <2>2, QueueEnd, SMTT(60) DEF Local, NextRq, NextWaiting
  <2> QED BY <2>1, <2>2
<1>8. Ups(h) = Ups(g)
  BY <1>0, <1>4, <1>5 DEF Ups
<1>9. Gauge(h)
  BY <1>1, <1>3, <1>8, SMTT(60) DEF Local, Gauge, Kept, nupstreams
<1>10. Pumped(h)
  BY <1>3 DEF Pumped
<1>11. Local(h) /\ h.held = g.held /\ h.half = g.half
  BY <1>1, <1>3, <1>6, <1>7, <1>9, <1>10 DEF Local, Kept
<1> QED BY <1>11 DEF h

\* The client of c has left; a connection that works for it goes on without it.
LEMMA LocalClosed ==
  ASSUME NEW g, Local(g), g.pc = "loop", NEW c \in Reqs
  PROVE  Local(client_closed(g, c)) /\ client_closed(g, c).held = g.held
         /\ client_closed(g, c).half = g.half
<1>0. /\ g \in Process /\ g.rq \in [Reqs -> Request] /\ g.ups \in [Slots -> Upstream] /\ g.rq[c] \in Request
      /\ g.waiting \in Seq(Reqs) /\ c # None
      /\ \A i, j \in 1..Len(g.waiting) : g.waiting[i] = g.waiting[j] => i = j
  BY GatewayUpstreamAssumption DEF Local, Process, Queue
<1>1. CASE g.rq[c].st = "up"
  <2>1. PICK u \in Slots : g.ups[u].cur = c
    BY <1>1 DEF Local, Conns
  <2>2. Only(g, u, c) /\ g.ups[u].on /\ g.ups[u].busy /\ g.ups[u] \in Upstream
    BY <1>0, <2>1, LocalOnly
  <2> DEFINE g1 == response_resume(g, c)
             x == [g1.ups[u] EXCEPT !.cur = None]
             f == [g1.ups EXCEPT ![u] = x]
             g2 == [g1 EXCEPT !.ups = f]
             h == conn_free(g2, c)
  <2>3. Resumed(g, g1, u, c)
    BY <1>0, <2>2, ResumeIs DEF Only
  <2> HIDE DEF g1
  <2>4. g1 \in Process /\ g1.ups \in [Slots -> Upstream] /\ g1.ups[u] \in Upstream
    BY <2>3 DEF Resumed, Kept, Process
  <2>5. client_closed(g, c) = h
    <3>1. g1.ups[u].on /\ g1.ups[u].cur = c
      BY <2>2, <2>3 DEF Resumed, Alike, Only
    <3>2. \A v \in Slots : g1.ups[v].cur = c => v = u
      BY <2>2, <2>3, SMTT(30) DEF Resumed, Only
    <3>3. HasUp(g1, c) /\ UpOf(g1, c) = u
      BY <3>1, <3>2 DEF HasUp, UpOf, Ups
    <3>4. g2 = [g1 EXCEPT !.ups[u].cur = None]
      OBVIOUS
    <3> QED BY <3>3, <3>4 DEF client_closed, g1
  <2>6. /\ x \in Upstream /\ x.cur = None /\ x.on = g.ups[u].on /\ x.conn = g.ups[u].conn
        /\ x.busy = g.ups[u].busy /\ x.served = g.ups[u].served /\ x.whole = g.ups[u].whole
        /\ x.rd = g1.ups[u].rd /\ x.dl = g1.ups[u].dl
    BY <2>3, <2>4 DEF Upstream, Resumed, Alike
  <2> HIDE DEF x
  <2>7. f \in [Slots -> Upstream] /\ f = [g.ups EXCEPT ![u] = x]
    BY <1>0, <2>3, <2>4, <2>6 DEF Resumed
  <2> HIDE DEF f
  <2>8. Kept(g1, g2) /\ g2.lied = g1.lied /\ g2.waiting = g1.waiting /\ g2.rq = g1.rq /\ g2.ups = f
    BY <2>4, <2>7, WithUps
  <2> HIDE DEF g2
  <2>9. /\ Kept(g2, h) /\ h.lied = g2.lied /\ h.waiting = Unlink(g2.waiting, c)
        /\ h.rq = [g2.rq EXCEPT ![c] = Ended] /\ h.ups = g2.ups
    <3>1. g2 \in Process /\ g2.waiting = g.waiting
      BY <2>3, <2>8 DEF Kept, Resumed
    <3>2. \A i, j \in 1..Len(g2.waiting) : g2.waiting[i] = g2.waiting[j] => i = j
      BY <1>0, <3>1
    <3> QED BY <3>1, <3>2, FreeIs
  <2> HIDE DEF h
  <2>10. Kept(g, h) /\ ~h.lied /\ h.waiting = Unlink(g.waiting, c) /\ h.ups = f
    BY <2>3, <2>8, <2>9, SMTT(30) DEF Kept, Resumed, Local
  <2>11. h.rq = [g.rq EXCEPT ![c] = Ended]
    BY <1>0, <2>3, <2>8, <2>9, SMTT(30) DEF Resumed
  <2>12. Queue(h.waiting, h.rq) /\ (h.waiting # <<>> => g.waiting # <<>>)
    BY <1>0, <2>10, <2>11, QueueEnd, SMTT(60) DEF Local
  <2>13. Proper(x, g.rq)
    <3>1. Proper(g.ups[u], g.rq)
      BY DEF Local, Conns
    <3>2. CASE g.rq[c].paused
      <4>1. ~g.ups[u].conn
        BY <1>0, <2>1, <3>1, <3>2 DEF Proper, Paused
      <4>2. ~g1.rq[c].paused
        BY <1>0, <2>3 DEF Resumed, Request
      <4>3. g1.ups[u].rd = TRUE /\ g1.ups[u].dl = "read"
        BY <2>1, <2>2, <2>3, <3>2, <4>1, <4>2 DEF Resumed, ArmFor, Paused
      <4> QED BY <2>2, <2>6, <3>1, <4>1, <4>3 DEF Proper, Paused
    <3>3. CASE ~g.rq[c].paused
      <4>1. g1.ups = g.ups
        BY <2>3, <3>3 DEF Resumed
      <4>2. ~Paused(g.ups[u], g.rq) /\ ~Paused(x, g.rq)
        BY <2>1, <2>6, <3>3 DEF Paused
      <4> QED BY <2>2, <2>6, <3>1, <4>1, <4>2 DEF Proper
    <3> QED BY <3>2, <3>3
  <2>14. Conns(h.ups, h.rq)
    <3>1. Conns(g.ups, g.rq)
      BY DEF Local
    <3>2. h.rq = IF c = None THEN g.rq ELSE [g.rq EXCEPT ![c] = Ended]
      BY <1>0, <2>11
    <3>3. Conns([g.ups EXCEPT ![u] = x], h.rq)
      BY <1>0, <2>1, <2>6, <2>13, <3>1, <3>2, ConnsEnd, SMTT(60)
    <3> QED BY <2>7, <2>10, <3>3
  <2>15. \A v \in Slots : h.ups[v].on = g.ups[v].on /\ h.ups[v].busy = g.ups[v].busy
    BY <1>0, <2>6, <2>7, <2>10
  <2>16. Local(h)
    BY <2>10, <2>12, <2>14, <2>15, LocalKept
  <2> QED BY <2>5, <2>10, <2>16 DEF Kept
<1>2. CASE g.rq[c].st # "up"
  <2>1. ~g.rq[c].paused
    BY <1>2 DEF Local, Queue
  <2>2. \A v \in Slots : g.ups[v].cur # c
    BY <1>0, <1>2, LocalOnly, SMTT(30)
  <2>3. client_closed(g, c) = conn_free(g, c)
    BY <2>1, <2>2 DEF client_closed, response_resume, HasUp, Ups
  <2>4. Kept(g, conn_free(g, c))
    BY <1>0, FreeIs
  <2> QED BY <1>2, <2>3, <2>4, LocalFree DEF Kept
<1> QED BY <1>1, <1>2

\* A step of the loop with one connection and the request on it.
LEMMA LocalSet ==
  ASSUME NEW g, Local(g), g.pc = "loop", NEW u \in Slots, NEW h, Kept(g, h), ~h.lied,
         h.waiting = g.waiting, \A v \in Slots : v # u => h.ups[v] = g.ups[v],
         h.ups[u].on = g.ups[u].on, h.ups[u].busy = g.ups[u].busy, h.ups[u].cur = g.ups[u].cur,
         \A d \in Reqs : /\ h.rq[d].st = g.rq[d].st /\ h.rq[d].timer = g.rq[d].timer
                         /\ d # g.ups[u].cur => h.rq[d] = g.rq[d],
         Proper(h.ups[u], h.rq)
  PROVE  Local(h)
<1>0. /\ g.ups \in [Slots -> Upstream] /\ h.ups \in [Slots -> Upstream] /\ g.waiting \in Seq(Reqs)
      /\ g.ups[u].cur \in Reqs \cup {None}
  BY DEF Local, Kept, Process, Upstream
<1>2. Conns(g.ups, g.rq) /\ Queue(g.waiting, g.rq)
  BY DEF Local
<1>3. Conns(h.ups, h.rq)
  <2>1. \A d \in Reqs : h.rq[d].st = g.rq[d].st /\ (d # g.ups[u].cur => h.rq[d] = g.rq[d])
    OBVIOUS
  <2> QED
    BY <1>0, <1>2, <2>1, ConnsTo, SMTT(30)
<1>4. ASSUME NEW d \in Reqs
      PROVE  /\ h.rq[d].timer => h.rq[d].st = "queued"
             /\ h.rq[d].paused \/ h.rq[d].head # "none" => h.rq[d].st = "up"
  <2>1. CASE d = g.ups[u].cur
    <3>1. d # None /\ g.rq[d].st = "up"
      BY <2>1, GatewayUpstreamAssumption, LocalOnly, SMTT(60)
    <3>2. h.rq[d].st = "up" /\ h.rq[d].timer = g.rq[d].timer /\ (g.rq[d].timer => g.rq[d].st = "queued")
      BY <1>2, <3>1 DEF Queue
    <3> QED BY <3>1, <3>2
  <2>2. CASE d # g.ups[u].cur
    <3>1. h.rq[d] = g.rq[d]
      BY <2>2
    <3> QED BY <1>2, <3>1, SMTT(60) DEF Queue
  <2> QED BY <2>1, <2>2
<1>5. Queue(g.waiting, h.rq)
  BY <1>0, <1>2, <1>4, QueueSame, SMTT(60)
<1>6. \A v \in Slots : h.ups[v].on = g.ups[v].on /\ h.ups[v].busy = g.ups[v].busy
  OBVIOUS
<1>7. Conns(h.ups, h.rq) /\ Queue(h.waiting, h.rq)
  BY <1>3, <1>5
<1> QED BY <1>6, <1>7, LocalKept, SMTT(60)

LEMMA LocalResume ==
  ASSUME NEW g, Local(g), g.pc = "loop", NEW c \in Reqs, g.rq[c].paused
  PROVE  LET h == response_resume(g, c) IN Local(h) /\ h.held = g.held /\ h.half = g.half
<1> DEFINE h == response_resume(g, c)
<1>0. g \in Process /\ g.rq \in [Reqs -> Request] /\ g.rq[c] \in Request /\ c # None
  BY GatewayUpstreamAssumption DEF Local, Process
<1>1. PICK u \in Slots : g.ups[u].cur = c
  BY DEF Local, Queue, Conns
<1>2. Only(g, u, c) /\ g.ups[u].on /\ g.ups[u].busy
  BY <1>0, <1>1, LocalOnly
<1>3. Resumed(g, h, u, c)
  BY <1>0, <1>2, ResumeIs DEF Only
<1> HIDE DEF h
<1>4. \A d \in Reqs : /\ h.rq[d].st = g.rq[d].st /\ h.rq[d].timer = g.rq[d].timer
                      /\ d # c => h.rq[d] = g.rq[d]
  BY <1>0, <1>3, SMTT(30) DEF Resumed, Request
<1>5. ~h.rq[c].paused
  BY <1>0, <1>3, SMTT(30) DEF Resumed, Request
<1>6. Proper(h.ups[u], h.rq)
  <2>1. Proper(g.ups[u], g.rq)
    BY DEF Local, Conns
  <2>2. ~g.ups[u].conn
    BY <1>0, <1>1, <2>1 DEF Proper, Paused
  <2>3. Alike(g.ups[u], h.ups[u]) /\ h.ups[u].rd = TRUE /\ h.ups[u].dl = "read"
    BY <1>1, <1>2, <1>3, <1>5, <2>2 DEF Resumed, ArmFor, Paused
  <2>4. g.rq[c].st = h.rq[c].st
    BY <1>4
  <2>5. ~Paused(h.ups[u], h.rq)
    BY <1>1, <1>5, <2>3 DEF Paused, Alike
  <2> QED BY <1>1, <1>2, <2>1, <2>2, <2>3, <2>4, <2>5 DEF Proper, Alike
<1>7. Local(h)
  <2>1. /\ Kept(g, h) /\ ~h.lied /\ h.waiting = g.waiting
        /\ \A v \in Slots : v # u => h.ups[v] = g.ups[v]
        /\ h.ups[u].on = g.ups[u].on /\ h.ups[u].busy = g.ups[u].busy /\ h.ups[u].cur = g.ups[u].cur
    BY <1>3 DEF Resumed, Alike, Local
  <2>2. \A d \in Reqs : /\ h.rq[d].st = g.rq[d].st /\ h.rq[d].timer = g.rq[d].timer
                        /\ d # g.ups[u].cur => h.rq[d] = g.rq[d]
    BY <1>1, <1>4
  <2> QED BY <1>6, <2>1, <2>2, LocalSet
<1> QED BY <1>3, <1>7 DEF h, Resumed, Kept

LEMMA LocalPause ==
  ASSUME NEW g, Local(g), g.pc = "loop", NEW u \in Slots, NEW c \in Reqs, g.ups[u].cur = c, ~g.ups[u].conn
  PROVE  LET h == response_pause(g, c) IN Local(h) /\ h.held = g.held /\ h.half = g.half
<1> DEFINE h == response_pause(g, c)
<1>0. g \in Process /\ g.rq \in [Reqs -> Request] /\ g.rq[c] \in Request /\ c # None
  BY GatewayUpstreamAssumption DEF Local, Process
<1>2. Only(g, u, c) /\ g.ups[u].on /\ g.ups[u].busy
  BY <1>0, LocalOnly
<1>3. Halted(g, h, u, c)
  BY <1>0, <1>2, PauseIs DEF Only
<1> HIDE DEF h
<1>4. \A d \in Reqs : /\ h.rq[d].st = g.rq[d].st /\ h.rq[d].timer = g.rq[d].timer
                      /\ d # c => h.rq[d] = g.rq[d]
  BY <1>0, <1>3, SMTT(30) DEF Halted, Request
<1>5. h.rq[c].paused
  BY <1>0, <1>3 DEF Halted, Request
<1>6. Proper(h.ups[u], h.rq)
  <2>1. Proper(g.ups[u], g.rq)
    BY DEF Local, Conns
  <2>2. Alike(g.ups[u], h.ups[u]) /\ h.ups[u].rd = FALSE /\ h.ups[u].dl = "off"
    BY <1>3 DEF Halted
  <2>3. Paused(h.ups[u], h.rq)
    BY <1>0, <1>5, <2>2 DEF Paused, Alike
  <2>4. g.rq[c].st = h.rq[c].st
    BY <1>4
  <2> QED BY <1>0, <1>2, <2>1, <2>2, <2>3, <2>4 DEF Proper, Alike
<1>7. Local(h)
  <2>1. /\ Kept(g, h) /\ ~h.lied /\ h.waiting = g.waiting
        /\ \A v \in Slots : v # u => h.ups[v] = g.ups[v]
        /\ h.ups[u].on = g.ups[u].on /\ h.ups[u].busy = g.ups[u].busy /\ h.ups[u].cur = g.ups[u].cur
    BY <1>3 DEF Halted, Alike, Local
  <2>2. \A d \in Reqs : /\ h.rq[d].st = g.rq[d].st /\ h.rq[d].timer = g.rq[d].timer
                        /\ d # g.ups[u].cur => h.rq[d] = g.rq[d]
    BY <1>4
  <2> QED BY <1>6, <2>1, <2>2, LocalSet
<1> QED BY <1>3, <1>7 DEF h, Halted, Kept

\* What is known of the head of c's reply becomes x.
Headed(g, c, x) == [g EXCEPT !.rq[c].head = x]

LEMMA LocalHead ==
  ASSUME NEW g, Local(g), g.pc = "loop", NEW u \in Slots, NEW c \in Reqs, g.ups[u].cur = c,
         NEW head \in {"sent", "discard", "lost"}
  PROVE  LET h == Headed(g, c, head) IN Local(h) /\ h.held = g.held /\ h.half = g.half
<1> DEFINE q == [g.rq[c] EXCEPT !.head = head]
           rq == [g.rq EXCEPT ![c] = q]
           h == Headed(g, c, head)
<1>0. g \in Process /\ g.rq \in [Reqs -> Request] /\ g.rq[c] \in Request /\ c # None
  BY GatewayUpstreamAssumption DEF Local, Process
<1>1. h = [g EXCEPT !.rq = rq]
  BY DEF Headed
<1>2. q \in Request /\ q.st = g.rq[c].st /\ q.timer = g.rq[c].timer /\ q.paused = g.rq[c].paused
  BY <1>0 DEF Request
<1> HIDE DEF q
<1>3. rq \in [Reqs -> Request] /\ rq[c] = q /\ \A d \in Reqs : d # c => rq[d] = g.rq[d]
  BY <1>0, <1>2
<1> HIDE DEF rq, h
<1>4. Kept(g, h) /\ h.lied = g.lied /\ h.waiting = g.waiting /\ h.rq = rq /\ h.ups = g.ups
  BY <1>0, <1>1, <1>3, WithRq
<1>5. \A d \in Reqs : /\ h.rq[d].st = g.rq[d].st /\ h.rq[d].timer = g.rq[d].timer
                      /\ d # c => h.rq[d] = g.rq[d]
  BY <1>2, <1>3, <1>4
<1>6. Proper(h.ups[u], h.rq)
  <2>1. Proper(g.ups[u], g.rq)
    BY DEF Local, Conns
  <2>2. Paused(g.ups[u], h.rq) <=> Paused(g.ups[u], g.rq)
    BY <1>2, <1>3, <1>4 DEF Paused
  <2> QED BY <1>4, <1>5, <2>1, <2>2 DEF Proper
<1>7. Local(h)
  BY <1>4, <1>5, <1>6, LocalSet DEF Local
<1> QED BY <1>4, <1>7 DEF h, Kept

LEMMA LocalWritten ==
  ASSUME NEW g, Local(g), g.pc = "loop", NEW u \in Slots, g.ups[u].on, g.ups[u].conn
  PROVE  LET h == deadline_arm([g EXCEPT !.ups[u].conn = FALSE, !.ups[u].rd = TRUE], u)
         IN  Local(h) /\ h.held = g.held /\ h.half = g.half
<1> DEFINE x == [g.ups[u] EXCEPT !.conn = FALSE, !.rd = TRUE]
           f == [g.ups EXCEPT ![u] = x]
           g1 == [g EXCEPT !.ups[u].conn = FALSE, !.ups[u].rd = TRUE]
           h == deadline_arm(g1, u)
<1>0. g \in Process /\ g.ups \in [Slots -> Upstream] /\ g.ups[u] \in Upstream
  BY DEF Local, Process
<1>1. g1 = [g EXCEPT !.ups = f]
  <2>1. [[g.ups EXCEPT ![u].conn = FALSE] EXCEPT ![u].rd = TRUE] = f
    BY <1>0
  <2>2. g1 = [g EXCEPT !.ups = [[g.ups EXCEPT ![u].conn = FALSE] EXCEPT ![u].rd = TRUE]]
    BY <1>0
  <2> QED BY <2>1, <2>2
<1>2. /\ x \in Upstream /\ x.on = g.ups[u].on /\ x.conn = FALSE /\ x.busy = g.ups[u].busy
      /\ x.cur = g.ups[u].cur /\ x.served = g.ups[u].served /\ x.whole = g.ups[u].whole /\ x.rd = TRUE
  BY <1>0 DEF Upstream
<1> HIDE DEF x
<1>3. f \in [Slots -> Upstream] /\ \A v \in Slots : f[v] = IF v = u THEN x ELSE g.ups[v]
  BY <1>0, <1>2, SetUp, SMTT(30)
<1> HIDE DEF f, g1
<1>4. Kept(g, g1) /\ g1.lied = g.lied /\ g1.waiting = g.waiting /\ g1.rq = g.rq /\ g1.ups = f
  BY <1>0, <1>1, <1>3, WithUps, SMTT(30)
<1>5. /\ Kept(g1, h) /\ h.lied = g1.lied /\ h.waiting = g1.waiting /\ h.rq = g1.rq
      /\ \A v \in Slots : v # u => h.ups[v] = g1.ups[v]
      /\ Alike(g1.ups[u], h.ups[u]) /\ h.ups[u].rd = g1.ups[u].rd
      /\ h.ups[u].dl = ArmFor(g1.ups[u], g1.rq)
  BY <1>4, ArmIs, SMTT(30) DEF Kept
<1> HIDE DEF h
<1>6. Kept(g, h) /\ ~h.lied
  BY <1>4, <1>5, SMTT(30) DEF Kept, Local
<1>7. /\ h.ups[u].on = g.ups[u].on /\ h.ups[u].busy = g.ups[u].busy /\ h.ups[u].cur = g.ups[u].cur
      /\ h.ups[u].served = g.ups[u].served /\ h.ups[u].whole = g.ups[u].whole
      /\ h.ups[u].conn = FALSE /\ h.ups[u].rd = TRUE /\ h.ups[u].dl = ArmFor(x, g.rq)
  BY <1>2, <1>3, <1>4, <1>5 DEF Alike
<1>8. Proper(h.ups[u], h.rq)
  <2>1. Proper(g.ups[u], g.rq)
    BY SMTT(30) DEF Local, Conns
  <2>2. ~Paused(g.ups[u], g.rq)
    BY <2>1, SMTT(30) DEF Proper
  <2>3. ~Paused(x, g.rq) /\ ~Paused(h.ups[u], h.rq)
    BY <1>2, <1>4, <1>5, <1>7, <2>2 DEF Paused
  <2>4. h.ups[u].dl = IF g.ups[u].busy THEN "read" ELSE "off"
    BY <1>2, <1>7, <2>3, SMTT(30) DEF ArmFor
  <2> QED BY <1>4, <1>5, <1>7, <2>1, <2>3, <2>4 DEF Proper
<1>9. Local(h)
  <2>1. /\ h.waiting = g.waiting /\ h.rq = g.rq
        /\ \A v \in Slots : v # u => h.ups[v] = g.ups[v]
    BY <1>3, <1>4, <1>5, SMT
  <2>2. \A d \in Reqs : /\ h.rq[d].st = g.rq[d].st /\ h.rq[d].timer = g.rq[d].timer
                        /\ d # g.ups[u].cur => h.rq[d] = g.rq[d]
    BY <2>1, SMT
  <2> QED BY <1>6, <1>7, <1>8, <2>1, <2>2, LocalSet
<1> QED BY <1>6, <1>9 DEF h, g1, Kept

(* The steps of the queue and of the pump.                                 *)

LEMMA LocalQueued ==
  ASSUME NEW g, Local(g), g.pc = "loop", NEW c \in Reqs, g.rq[c].st = "none", NEW t \in BOOLEAN
  PROVE  LET h == pump([g EXCEPT !.rq[c] = [Ended EXCEPT !.st = "queued", !.timer = t],
                                 !.waiting = Append(@, c)])
         IN  Local(h) /\ h.held = g.held /\ h.half = g.half
<1> DEFINE q == [Ended EXCEPT !.st = "queued", !.timer = t]
           rq == [g.rq EXCEPT ![c] = q]
           w == Append(g.waiting, c)
           g1 == [g EXCEPT !.rq = rq, !.waiting = w]
           h == pump(g1)
<1>0. g \in Process /\ g.rq \in [Reqs -> Request] /\ g.ups \in [Slots -> Upstream] /\ g.waiting \in Seq(Reqs)
  BY DEF Local, Process
<1>1. q \in Request /\ q.st = "queued" /\ q.paused = FALSE /\ q.head = "none"
  BY DEF Ended, Request
<1> HIDE DEF q
<1>2. rq \in [Reqs -> Request] /\ rq[c] = q /\ \A d \in Reqs : d # c => rq[d] = g.rq[d]
  BY <1>0, <1>1
<1>3. /\ w \in Seq(Reqs) /\ Len(w) = Len(g.waiting) + 1 /\ w[Len(g.waiting) + 1] = c /\ Len(g.waiting) \in Nat
      /\ \A i \in 1..Len(g.waiting) : w[i] = g.waiting[i]
  BY <1>0, SMTT(30)
<1> HIDE DEF rq, w
<1>4. Kept(g, g1) /\ g1.lied = g.lied /\ g1.rq = rq /\ g1.waiting = w /\ g1.ups = g.ups
  BY <1>0, <1>2, <1>3 DEF Process, Kept
<1> HIDE DEF g1
<1>5. /\ h \in Process /\ h.alive = g1.alive /\ h.half = g1.half /\ h.held = g1.held /\ h.rearm = g1.rearm
      /\ h.tick = g1.tick /\ h.lied = g1.lied /\ h.waiting = g1.waiting /\ h.rq = g1.rq /\ h.ups = g1.ups
      /\ g1.pc = "loop" => h.pc = "pump" /\ h.again = g1.again
  BY <1>4, PumpIs DEF Kept
<1> HIDE DEF h
<1>6. \A d \in Reqs : rq[d] = g.rq[d] \/ (g.rq[d].st # "up" /\ rq[d].st # "up")
  BY <1>1, <1>2
<1>7. Conns(h.ups, h.rq)
  BY <1>0, <1>4, <1>5, <1>6, ConnsRq, SMTT(60) DEF Local
<1>8. Queue(w, rq)
  <2>0. Queue(g.waiting, g.rq)
    BY DEF Local
  <2>1. ASSUME NEW d \in Reqs
        PROVE  /\ rq[d].timer => rq[d].st = "queued"
               /\ rq[d].paused \/ rq[d].head # "none" => rq[d].st = "up"
               /\ rq[d].st = "queued" => \E i \in 1..Len(w) : w[i] = d
    <3>1. CASE d = c
      BY <1>1, <1>2, <1>3, <3>1, SMTT(30)
    <3>2. CASE d # c
      <4>1. rq[d] = g.rq[d]
        BY <1>2, <3>2
      <4>2. ASSUME rq[d].st = "queued" PROVE \E i \in 1..Len(w) : w[i] = d
        <5>1. PICK i \in 1..Len(g.waiting) : g.waiting[i] = d
          BY <2>0, <4>1, <4>2 DEF Queue
        <5> QED BY <1>3, <5>1, SMTT(30)
      <4> QED BY <2>0, <4>1, <4>2, SMTT(30) DEF Queue
    <3> QED BY <3>1, <3>2
  <2>2. \A i \in 1..Len(g.waiting) : g.waiting[i] \in Reqs /\ g.waiting[i] # c /\ g.rq[g.waiting[i]].st = "queued"
    BY <1>0, <2>0, SMT DEF Queue
  <2>3. \A i \in 1..Len(w) : rq[w[i]].st = "queued"
    <3>1. ASSUME NEW i \in 1..Len(w) PROVE rq[w[i]].st = "queued"
      <4>1. CASE i \in 1..Len(g.waiting)
        BY <1>2, <1>3, <2>2, <4>1, SMTT(30)
      <4>2. CASE i = Len(g.waiting) + 1
        BY <1>1, <1>2, <1>3, <4>2
      <4> QED BY <1>3, <4>1, <4>2, SMTT(30)
    <3> QED BY <3>1
  <2>4. \A i, j \in 1..Len(w) : w[i] = w[j] => i = j
    <3>1. \A i, j \in 1..Len(g.waiting) : g.waiting[i] = g.waiting[j] => i = j
      BY <2>0 DEF Queue
    <3>2. ASSUME NEW i \in 1..Len(w), NEW j \in 1..Len(w), w[i] = w[j] PROVE i = j
      <4>1. CASE i \in 1..Len(g.waiting) /\ j \in 1..Len(g.waiting)
        BY <1>3, <3>1, <3>2, <4>1
      <4>2. CASE i = Len(g.waiting) + 1 \/ j = Len(g.waiting) + 1
        <5>1. \A k \in 1..Len(g.waiting) : w[k] # c
          BY <1>3, <2>2
        <5>2. w[i] = c /\ w[j] = c
          BY <1>3, <3>2, <4>2
        <5> QED BY <1>3, <5>1, <5>2, SMTT(30)
      <4> QED BY <1>3, <4>1, <4>2, SMTT(30)
    <3> QED BY <3>2
  <2> QED BY <2>1, <2>3, <2>4 DEF Queue
<1>9. Ups(h) = Ups(g) /\ Idle(h) = Idle(g)
  BY <1>4, <1>5 DEF Ups, Idle
<1>10. Gauge(h)
  BY <1>4, <1>5, <1>9 DEF Local, Gauge, Kept, nupstreams
<1>11. Pumped(h)
  BY <1>4, <1>5, <1>9 DEF Local, Pumped, Kept
<1>12. Local(h) /\ h.held = g.held /\ h.half = g.half
  BY <1>4, <1>5, <1>7, <1>8, <1>10, <1>11 DEF Local, Kept
<1> QED BY <1>12 DEF h, g1, rq, w, q

\* A process comes back from pump_target().
LEMMA LocalReturn ==
  ASSUME NEW g \in Process, ~g.lied, g.half = "no", g.pc \in {"pump", "unreachable", "full"},
         Gauge(g), Conns(g.ups, g.rq), Queue(g.waiting, g.rq),
         g.waiting # <<>> => Idle(g) = {},
         Cardinality(Procs) > 1 /\ Idle(g) # {} => g.tick \/ g.rearm
  PROVE  LET h == PumpReturn(g) IN Local(h) /\ h.held = g.held /\ h.half = g.half
<1> DEFINE h == PumpReturn(g)
<1>1. /\ h \in Process /\ h.alive = g.alive /\ h.half = g.half /\ h.held = g.held /\ h.lied = g.lied
      /\ h.ups = g.ups /\ h.rq = g.rq /\ h.waiting = g.waiting
      /\ \/ h.pc = "pump" /\ h.tick = g.tick /\ h.rearm = g.rearm
         \/ h.pc = "loop" /\ h.again = FALSE /\ h.rearm = FALSE /\ (Cardinality(Procs) > 1 /\ g.rearm => h.tick)
            /\ (g.tick => h.tick)
  <2>1. CASE g.again
    BY <2>1 DEF PumpReturn, Process
  <2>2. CASE ~g.again
    <3> DEFINE k == [g EXCEPT !.pc = "loop", !.rearm = FALSE]
    <3>1. /\ k \in Process /\ k.alive = g.alive /\ k.half = g.half /\ k.held = g.held /\ k.lied = g.lied
          /\ k.ups = g.ups /\ k.rq = g.rq /\ k.waiting = g.waiting /\ k.tick = g.tick
          /\ k.pc = "loop" /\ k.again = FALSE /\ k.rearm = FALSE
      BY <2>2 DEF Process
    <3>2. h = IF g.rearm THEN tick_arm(k) ELSE k
      BY <2>2 DEF PumpReturn
    <3> HIDE DEF k, h
    <3>3. CASE g.rearm /\ Cardinality(Procs) > 1
      <4>1. h = [k EXCEPT !.tick = TRUE]
        BY <3>2, <3>3 DEF tick_arm
      <4> QED BY <3>1, <4>1 DEF Process
    <3>4. CASE ~(g.rearm /\ Cardinality(Procs) > 1)
      <4>1. h = k
        BY <3>2, <3>4 DEF tick_arm
      <4> QED BY <3>1, <3>4, <4>1
    <3> QED BY <3>3, <3>4
  <2> QED BY <2>1, <2>2
<1> HIDE DEF h
<1>2. Ups(h) = Ups(g) /\ Idle(h) = Idle(g)
  BY <1>1 DEF Ups, Idle
<1>3. Gauge(h)
  BY <1>1, <1>2 DEF Gauge, nupstreams
<1>4. Pumped(h)
  BY <1>1, <1>2 DEF Pumped
<1>5. Local(h) /\ h.held = g.held /\ h.half = g.half
  BY <1>1, <1>3, <1>4 DEF Local
<1> QED BY <1>5 DEF h

\* The queue is refused from one place on.
LEMMA LocalReject ==
  ASSUME NEW g, Local(g), g.pc \in {"unreachable", "full"}, NEW n \in Nat \ {0}
  PROVE  LET h == RejectFrom(g, n) IN
         Local(h) /\ Kept(g, h) /\ Idle(h) = Idle(g) /\ (h.waiting # <<>> => g.waiting # <<>>)
<1> DEFINE m == Least(n - 1, Len(g.waiting))
           w == SubSeq(g.waiting, 1, m)
           out(d) == \E i \in n..Len(g.waiting) : g.waiting[i] = d
           rq == [d \in Reqs |-> IF out(d) THEN Ended ELSE g.rq[d]]
           h == [g EXCEPT !.waiting = w, !.rq = rq]
<1>0. g \in Process /\ g.rq \in [Reqs -> Request] /\ g.ups \in [Slots -> Upstream] /\ g.waiting \in Seq(Reqs)
  BY DEF Local, Process
<1>1. Queue(g.waiting, g.rq) /\ Conns(g.ups, g.rq)
  BY DEF Local
<1>2. RejectFrom(g, n) = h
  BY DEF RejectFrom
<1>3. Len(g.waiting) \in Nat /\ m \in Nat /\ m <= Len(g.waiting) /\ m <= n - 1
      /\ (m = Len(g.waiting) \/ m = n - 1)
  <2>1. Len(g.waiting) \in Nat
    BY <1>0, SMTT(30)
  <2>2. m = IF n - 1 <= Len(g.waiting) THEN n - 1 ELSE Len(g.waiting)
    BY <2>1 DEF Least
  <2> HIDE DEF m
  <2> QED BY <2>1, <2>2, SMTT(30)
<1> HIDE DEF m
<1>4. w \in Seq(Reqs) /\ Len(w) = m /\ \A i \in 1..m : w[i] = g.waiting[i]
  BY <1>0, <1>3, SMTT(30)
<1>5. Ended \in Request /\ Ended.st = "none" /\ ~Ended.timer /\ ~Ended.paused /\ Ended.head = "none"
  BY DEF Ended, Request
<1>6. rq \in [Reqs -> Request] /\ \A d \in Reqs : rq[d] = IF out(d) THEN Ended ELSE g.rq[d]
  BY <1>0, <1>5
<1> HIDE DEF w, rq
<1>7. Kept(g, h) /\ h.lied = g.lied /\ h.rq = rq /\ h.waiting = w /\ h.ups = g.ups
  BY <1>0, <1>4, <1>6 DEF Process, Kept
<1> HIDE DEF h
<1>8. ASSUME NEW d \in Reqs, out(d) PROVE g.rq[d].st = "queued"
  <2>1. PICK i \in n..Len(g.waiting) : g.waiting[i] = d
    BY <1>8
  <2>2. i \in 1..Len(g.waiting)
    BY <1>3, SMTT(30)
  <2> QED BY <1>1, <2>1, <2>2 DEF Queue
<1>9. \A d \in Reqs : rq[d] = g.rq[d] \/ (g.rq[d].st # "up" /\ rq[d].st # "up")
  BY <1>5, <1>6, <1>8
<1>10. Conns(g.ups, rq)
  BY <1>0, <1>1, <1>9, ConnsRq, SMTT(30)
<1>11. ASSUME NEW i \in 1..m PROVE g.waiting[i] \in Reqs /\ ~out(g.waiting[i]) /\ i \in 1..Len(g.waiting)
  <2>1. i \in 1..Len(g.waiting) /\ i < n
    BY <1>3, SMTT(30)
  <2>2. ASSUME NEW j \in n..Len(g.waiting), g.waiting[j] = g.waiting[i] PROVE FALSE
    <3>1. j \in 1..Len(g.waiting) /\ j # i
      BY <1>3, <2>1, SMTT(30)
    <3> QED BY <1>1, <2>1, <2>2, <3>1 DEF Queue
  <2> QED BY <1>0, <2>1, <2>2, SMTT(30)
<1>12. Queue(w, rq)
  <2>1. ASSUME NEW d \in Reqs
        PROVE  /\ rq[d].timer => rq[d].st = "queued"
               /\ rq[d].paused \/ rq[d].head # "none" => rq[d].st = "up"
               /\ rq[d].st = "queued" => \E i \in 1..Len(w) : w[i] = d
    <3>1. CASE out(d)
      BY <1>5, <1>6, <3>1
    <3>2. CASE ~out(d)
      <4>1. rq[d] = g.rq[d]
        BY <1>6, <3>2
      <4>2. ASSUME rq[d].st = "queued" PROVE \E i \in 1..Len(w) : w[i] = d
        <5>1. PICK i \in 1..Len(g.waiting) : g.waiting[i] = d
          BY <1>1, <4>1, <4>2 DEF Queue
        <5>2. i \in 1..m
          <6>1. ~(i \in n..Len(g.waiting))
            BY <3>2, <5>1
          <6> QED BY <1>3, <6>1, SMTT(30)
        <5> QED BY <1>4, <5>1, <5>2
      <4> QED BY <1>1, <4>1, <4>2, SMTT(30) DEF Queue
    <3> QED BY <3>1, <3>2
  <2>2. ASSUME NEW i \in 1..Len(w) PROVE rq[w[i]].st = "queued"
    <3>1. w[i] = g.waiting[i] /\ rq[w[i]] = g.rq[g.waiting[i]] /\ i \in 1..Len(g.waiting)
      BY <1>4, <1>6, <1>11
    <3> QED BY <1>1, <3>1 DEF Queue
  <2>3. ASSUME NEW i \in 1..Len(w), NEW j \in 1..Len(w), w[i] = w[j] PROVE i = j
    <3>1. w[i] = g.waiting[i] /\ w[j] = g.waiting[j] /\ i \in 1..Len(g.waiting) /\ j \in 1..Len(g.waiting)
      BY <1>4, <1>11
    <3> QED BY <1>1, <2>3, <3>1 DEF Queue
  <2> QED BY <2>1, <2>2, <2>3 DEF Queue
<1>13. h.waiting # <<>> => g.waiting # <<>>
  BY <1>0, <1>3, <1>4, <1>7, SMTT(30)
<1>14. Local(h)
  <2>1. ~h.lied /\ \A v \in Slots : h.ups[v].on = g.ups[v].on /\ h.ups[v].busy = g.ups[v].busy
    BY <1>7 DEF Local
  <2>2. Conns(h.ups, h.rq) /\ Queue(h.waiting, h.rq)
    BY <1>7, <1>10, <1>12
  <2> QED BY <1>7, <1>13, <2>1, <2>2, LocalKept
<1>15. Idle(h) = Idle(g)
  BY <1>7 DEF Idle, Ups
<1> QED BY <1>2, <1>7, <1>13, <1>14, <1>15

\* The grace timer runs for queued requests only (Graced, policy "default").
LEMMA LocalGraced ==
  ASSUME NEW g, Local(g), g.pc \in {"unreachable", "full"}, conf.max \in Nat
  PROVE  LET h == Graced(g) IN
         Local(h) /\ Kept(g, h) /\ Idle(h) = Idle(g) /\ h.waiting = g.waiting
<1> DEFINE kept == {g.waiting[i] : i \in 1..Least(conf.max, Len(g.waiting))}
           rq == [d \in Reqs |-> IF d \in kept THEN [g.rq[d] EXCEPT !.timer = TRUE] ELSE g.rq[d]]
           h == [g EXCEPT !.rq = rq]
<1>0. g \in Process /\ g.rq \in [Reqs -> Request] /\ g.ups \in [Slots -> Upstream] /\ g.waiting \in Seq(Reqs)
  BY DEF Local, Process
<1>1. Queue(g.waiting, g.rq) /\ Conns(g.ups, g.rq)
  BY DEF Local
<1>2. Graced(g) = h
  BY DEF Graced
<1>3. \A d \in kept : g.rq[d].st = "queued"
  <2>1. Len(g.waiting) \in Nat
    BY <1>0, SMT
  <2>2. Least(conf.max, Len(g.waiting)) = IF conf.max <= Len(g.waiting) THEN conf.max ELSE Len(g.waiting)
    BY <2>1 DEF Least
  <2>3. 1..Least(conf.max, Len(g.waiting)) \subseteq 1..Len(g.waiting)
    BY <2>1, <2>2, SMTT(30)
  <2>4. \A i \in 1..Least(conf.max, Len(g.waiting)) : g.rq[g.waiting[i]].st = "queued"
    BY <1>1, <2>3 DEF Queue
  <2> QED BY <2>4
<1> HIDE DEF kept
<1>4. \A d \in Reqs : LET q == [g.rq[d] EXCEPT !.timer = TRUE] IN
        /\ q \in Request /\ q.st = g.rq[d].st /\ q.paused = g.rq[d].paused /\ q.head = g.rq[d].head
  BY <1>0 DEF Request
<1>5. rq \in [Reqs -> Request]
  BY <1>0, <1>4
<1>6. \A d \in Reqs : /\ rq[d].st = g.rq[d].st /\ rq[d].paused = g.rq[d].paused /\ rq[d].head = g.rq[d].head
                      /\ d \in kept \/ rq[d] = g.rq[d]
  BY <1>4
<1> HIDE DEF rq
<1>7. Kept(g, h) /\ h.lied = g.lied /\ h.waiting = g.waiting /\ h.rq = rq /\ h.ups = g.ups
  BY <1>0, <1>5, WithRq
<1> HIDE DEF h
<1>8. \A d \in Reqs : rq[d] = g.rq[d] \/ (g.rq[d].st # "up" /\ rq[d].st # "up")
  BY <1>3, <1>6
<1>9. Conns(h.ups, h.rq)
  BY <1>0, <1>1, <1>7, <1>8, ConnsRq, SMTT(30)
<1>10. ASSUME NEW d \in Reqs
       PROVE  /\ rq[d].st = g.rq[d].st
              /\ rq[d].timer => rq[d].st = "queued"
              /\ rq[d].paused \/ rq[d].head # "none" => rq[d].st = "up"
  <2>1. /\ g.rq[d].timer => g.rq[d].st = "queued"
        /\ g.rq[d].paused \/ g.rq[d].head # "none" => g.rq[d].st = "up"
    BY <1>1 DEF Queue
  <2>2. d \in kept => rq[d].st = "queued"
    BY <1>3, <1>6
  <2> QED BY <1>6, <2>1, <2>2
<1>11. Queue(h.waiting, h.rq)
  BY <1>0, <1>1, <1>7, <1>10, QueueSame, SMTT(60)
<1>12. ~h.lied /\ \A v \in Slots : h.ups[v].on = g.ups[v].on /\ h.ups[v].busy = g.ups[v].busy
  BY <1>7 DEF Local
<1>13. Local(h)
  BY <1>7, <1>9, <1>11, <1>12, LocalKept
<1>14. Idle(h) = Idle(g)
  BY <1>7 DEF Idle, Ups
<1> QED BY <1>2, <1>7, <1>13, <1>14

\* tick_arm before the queue is looked at once more.
LEMMA LocalArm ==
  ASSUME NEW g, Local(g), g.pc = "full"
  PROVE  LET h == tick_arm(g) IN
         /\ Local(h) /\ h.pc = g.pc /\ h.held = g.held /\ h.half = g.half /\ h.alive = g.alive
         /\ h.waiting = g.waiting
<1> DEFINE h == tick_arm(g)
<1>1. /\ h \in Process /\ h.pc = g.pc /\ h.held = g.held /\ h.half = g.half /\ h.alive = g.alive
      /\ h.waiting = g.waiting /\ h.rq = g.rq /\ h.ups = g.ups /\ h.lied = g.lied
      /\ h.rearm = g.rearm /\ h.again = g.again /\ (g.tick => h.tick)
  BY DEF tick_arm, Local, Process
<1> HIDE DEF h
<1>2. Ups(h) = Ups(g) /\ Idle(h) = Idle(g)
  BY <1>1 DEF Ups, Idle
<1>3. Gauge(h)
  BY <1>1, <1>2 DEF Local, Gauge, nupstreams
<1>4. Pumped(h)
  BY <1>1, <1>2 DEF Local, Pumped
<1>5. Local(h)
  BY <1>1, <1>3, <1>4 DEF Local
<1> QED BY <1>1, <1>5 DEF h

=============================================================================
