-------------------------- MODULE DirectChildProofs -------------------------
(***************************************************************************)
(* The table of a direct child, continued: the steps inside the request    *)
(* callback keep the invariant, and the theorems.                          *)
(***************************************************************************)
EXTENDS DirectLoopProofs

\* Leaves go to Zenon unless they name another prover.
USE ZenonT(30)

-----------------------------------------------------------------------------
(* PHP, inside the request callback.                                       *)

\* A worker's own step that the table and the counts do not see.
LEMMA SoundWorker ==
  ASSUME NEW s, Sound(s), NEW v \in Worker, v.pending = s.w.pending,
         v.paused = s.w.paused, v.listener = s.w.listener
  PROVE  LET r == [s EXCEPT !.w = v] IN
         Sound(r) /\ r \in ChildState /\ r.tab = s.tab /\ r.cn = s.cn /\ r.w = v
<1> DEFINE r == [s EXCEPT !.w = v]
<1>1. s \in ChildState
  BY DEF Sound
<1>2. r \in ChildState /\ r.tab = s.tab /\ r.cn = s.cn /\ r.w = v
  BY <1>1, SetW
<1> HIDE DEF r
<1>3. Sound(r)
  BY <1>2 DEF Sound, Gated
<1> QED BY <1>2, <1>3 DEF r

LEMMA RetireIs ==
  ASSUME NEW s \in ChildState
  PROVE  LET r == fpm_direct_retire(s) IN
         Ticked(s, r) /\ r.tab = s.tab /\ r.w.broken = s.w.broken
<1> DEFINE v == [s.w EXCEPT !.requests = s.w.requests + 1]
           q == [s EXCEPT !.w = v]
           u == [q.w EXCEPT !.retiring = TRUE]
           p == [q EXCEPT !.w = u]
           r == fpm_direct_retire(s)
<1>1. s.w \in Worker /\ s.tab \in Table
  BY StateParts
<1>2. r = IF MaxRequests > 0 /\ s.w.requests + 1 >= MaxRequests THEN fpm_direct_retire_enter(p) ELSE q
  BY DEF fpm_direct_retire
<1>3. /\ v \in Worker /\ Calm(s.w, v) /\ v.broken = s.w.broken
      /\ v.paused = s.w.paused /\ v.listener = s.w.listener
  BY <1>1, SMTT(30) DEF Worker, Calm
<1> HIDE DEF v
<1>4. q \in ChildState /\ q.tab = s.tab /\ q.cn = s.cn /\ q.w = v
  BY <1>3, SetW
<1> HIDE DEF q
<1>5. /\ u \in Worker /\ Calm(v, u) /\ u.broken = v.broken
      /\ u.paused = v.paused /\ u.listener = v.listener
  BY <1>3, <1>4 DEF Worker, Calm
<1> HIDE DEF u
<1>6. p \in ChildState /\ p.tab = s.tab /\ p.cn = s.cn /\ p.w = u
  BY <1>4, <1>5, SetW
<1> HIDE DEF p
<1>7. Swept(s.tab, s.tab, Gone(s))
  BY <1>1, SweptSelf
<1>8. Ticked(s, q)
  BY <1>3, <1>4, <1>7 DEF Ticked, Gated
<1>9. Ticked(s, p)
  BY <1>3, <1>5, <1>6, <1>7 DEF Ticked, Gated, Calm
<1>10. Ticked(p, fpm_direct_retire_enter(p)) /\ fpm_direct_retire_enter(p).tab = p.tab
       /\ fpm_direct_retire_enter(p).w.broken = p.w.broken
  BY <1>6, EnterIs
<1>11. CASE MaxRequests > 0 /\ s.w.requests + 1 >= MaxRequests
  <2>1. r = fpm_direct_retire_enter(p)
    BY <1>2, <1>11
  <2> HIDE DEF r
  <2>2. p.w.broken = s.w.broken
    BY <1>3, <1>5, <1>6
  <2>3. Ticked(s, r)
    BY <1>9, <1>10, <2>1, <2>2, TickedTwice
  <2> QED BY <1>6, <1>10, <2>1, <2>2, <2>3 DEF r
<1>12. CASE ~(MaxRequests > 0 /\ s.w.requests + 1 >= MaxRequests)
  <2>1. r = q
    BY <1>2, <1>12
  <2> HIDE DEF r
  <2> QED BY <1>3, <1>4, <1>8, <2>1 DEF r
<1> QED BY <1>11, <1>12

\* The script as the request callback finds it.
LEMMA InScript ==
  ASSUME NEW s, Good(s), NEW c \in Conns, s.w.cur = c
  PROVE  /\ s.cn[c] \in Connection /\ s.cn[c].life = "held" /\ s.w.script # "none" /\ c # None
         /\ s.w.script \in {"run", "stream", "cut", "responded"}
         /\ s.w.script = "run" => s.cn[c].phase = "call" /\ ~s.cn[c].closecb
         /\ s.w.script = "stream" => s.cn[c].closecb
         /\ s.w.script # "responded" => s.w.broken = "no"
         /\ s.w.broken # "exit"
         /\ \A d \in Conns : s.cn[d].phase = "call" => d = c /\ s.w.script = "run"
<1>1. /\ s.cn[c] \in Connection /\ c # None /\ s.w \in Worker /\ Running(s) /\ Left(s)
      /\ Proper(s.cn[c])
  BY GoodParts, DirectChildAssumption
<1>2. s.w.script # "none" /\ s.w.script \in {"none", "run", "stream", "cut", "responded"}
  BY <1>1 DEF Running, Worker
<1>3. /\ s.cn[c].life = "held" /\ (s.w.script = "run" => s.cn[c].phase = "call")
      /\ s.w.script = "stream" => s.cn[c].closecb
  BY <1>1 DEF Running
<1>7. s.w.broken # "exit"
  BY <1>1 DEF Running
<1>4. \A d \in Conns : s.cn[d].phase = "call" => d = c /\ s.w.script = "run"
  BY <1>1, <1>7 DEF Running
<1>5. s.w.script # "responded" => s.w.broken = "no"
  BY <1>1 DEF Left
<1>6. s.cn[c].phase = "call" => ~s.cn[c].closecb
  BY <1>1 DEF Proper
<1> QED BY <1>1, <1>2, <1>3, <1>4, <1>5, <1>6, <1>7

\* A step of the script that answers, or goes on after its answer.
LEMMA ScriptStep ==
  ASSUME NEW s, Good(s), NEW c \in Conns, s.w.cur = c, NEW r, Sound(r), Left(r),
         r.w.broken # "exit",
         \A d \in Conns \ {c} : r.cn[d] = s.cn[d], r.cn[c].phase # "call",
         \/ r.w.cur = None /\ r.w.script = "none"
         \/ /\ r.w.cur = c /\ r.w.script \in {"stream", "cut", "responded"}
            /\ r.cn[c].life = "held" /\ (r.w.script = "stream" => r.cn[c].closecb)
  PROVE  Good(r)
<1>1. c # None /\ \A d \in Conns : s.cn[d].phase = "call" => d = c
  BY InScript, SMTT(60)
<1>2. \A d \in Conns : r.cn[d].phase # "call"
  BY <1>1
<1>3. Running(r)
  BY <1>1, <1>2 DEF Running
<1> QED BY <1>3 DEF Good

\* The same connection, closed after its response perhaps.
Closer(x, y) ==
  /\ y \in Connection /\ y.life = x.life /\ y.phase = x.phase /\ y.closing = x.closing
  /\ y.closecb = x.closecb /\ y.done = x.done /\ (x.last => y.last)

LEMMA CloseIfLastIs ==
  ASSUME NEW s \in ChildState, NEW c \in Conns
  PROVE  LET r == CloseIfLast(s, c) IN
         Stepped(s, r, c, s.tab, r.cn[c], s.w) /\ Closer(s.cn[c], r.cn[c])
<1> DEFINE y == [s.cn[c] EXCEPT !.last = TRUE]
           r == CloseIfLast(s, c)
<1>1. s.cn[c] \in Connection
  BY StateParts
<1>2. CASE r = s
  BY <1>1, <1>2 DEF Stepped, Closer
<1>3. CASE r # s
  <2>1. r = [s EXCEPT !.cn = [s.cn EXCEPT ![c] = y]]
    BY <1>3 DEF CloseIfLast
  <2>2. Closer(s.cn[c], y)
    BY <1>1 DEF Connection, Closer
  <2> HIDE DEF y, r
  <2>3. Stepped(s, r, c, s.tab, y, s.w)
    BY <2>1, <2>2, JustConn DEF Closer
  <2> QED BY <2>2, <2>3 DEF Stepped, r
<1> QED BY <1>2, <1>3

LEMMA CountedIs ==
  ASSUME NEW s \in ChildState
  PROVE  LET r == Counted(s) IN
         /\ r \in ChildState /\ r.tab = s.tab /\ r.cn = s.cn /\ r.w.pending = s.w.pending + 1
         /\ r.w.cur = s.w.cur /\ r.w.script = s.w.script /\ r.w.broken = s.w.broken
         /\ r.w.stopping = s.w.stopping /\ r.w.stale = s.w.stale /\ r.w.grace = s.w.grace
         /\ r.w.paused = s.w.paused /\ r.w.listener = s.w.listener /\ r.w.pending > 0
<1> DEFINE v == [s.w EXCEPT !.pending = s.w.pending + 1]
           r == Counted(s)
<1>1. s.w \in Worker
  BY StateParts
<1>2. r = [s EXCEPT !.w = v]
  BY DEF Counted
<1>3. /\ v \in Worker /\ v.pending = s.w.pending + 1 /\ v.pending > 0
      /\ v.cur = s.w.cur /\ v.script = s.w.script /\ v.broken = s.w.broken
      /\ v.stopping = s.w.stopping /\ v.stale = s.w.stale /\ v.grace = s.w.grace
      /\ v.paused = s.w.paused /\ v.listener = s.w.listener
  BY <1>1, SMTT(30) DEF Worker
<1> HIDE DEF v, r
<1>4. r \in ChildState /\ r.tab = s.tab /\ r.cn = s.cn /\ r.w = v
  BY <1>2, <1>3, SetW
<1> QED BY <1>3, <1>4 DEF r

\* A connection that is being answered.
Replying(x, y) ==
  /\ y \in Connection /\ y.life = x.life /\ y.phase = "reply" /\ y.closing = x.closing
  /\ y.closecb /\ y.done = "response" /\ (x.last => y.last)

LEMMA InFlightIs ==
  ASSUME NEW s \in ChildState, NEW c \in Conns
  PROVE  LET r == InFlight(s, c) IN
         Stepped(s, r, c, s.tab, r.cn[c], s.w) /\ Replying(s.cn[c], r.cn[c])
<1> DEFINE y == [s.cn[c] EXCEPT !.phase = "reply", !.closecb = TRUE, !.done = "response"]
           r == InFlight(s, c)
<1>1. s.cn[c] \in Connection /\ s.cn \in [Conns -> Connection]
  BY StateParts
<1>2. r = [s EXCEPT !.cn = [s.cn EXCEPT ![c] = y]]
  BY <1>1 DEF InFlight, ChildState
<1>3. Replying(s.cn[c], y)
  BY <1>1 DEF Connection, Replying
<1> HIDE DEF y, r
<1>4. Stepped(s, r, c, s.tab, y, s.w)
  BY <1>2, <1>3, JustConn DEF Replying
<1> QED BY <1>3, <1>4 DEF Stepped, r

LEMMA AnsweredSound ==
  ASSUME NEW s, Sound(s), NEW c \in Conns, s.cn[c].life = "held", s.cn[c].phase = "call",
         NEW r \in ChildState, \A d \in Conns \ {c} : r.cn[d] = s.cn[d],
         Replying(s.cn[c], r.cn[c]), Swept(s.tab, r.tab, Gone(s)),
         r.w.pending = s.w.pending + 1, Gated(r.tab, r.w)
  PROVE  Sound(r)
<1>1. Proper(s.cn[c]) /\ Covered(s.tab, s.cn[c], c) /\ Judged(s.tab, s.cn)
  BY DEF Sound
<1>2. /\ r.tab.limits = s.tab.limits /\ Tracked(r.tab) \subseteq Tracked(s.tab)
      /\ Tracked(s.tab) \ Tracked(r.tab) \subseteq Gone(s)
      /\ \A d \in Tracked(r.tab) : r.tab.node[d] = s.tab.node[d]
  BY DEF Swept
<1>3. \A d \in Tracked(r.tab) : Alike(s.tab.node[d], r.tab.node[d])
  BY <1>2 DEF Alike
<1>4. OneConn(s, r, c)
  BY <1>2, <1>3 DEF OneConn
<1>5. ~s.cn[c].closecb /\ r.cn[c].closecb /\ r.cn[c].life = "held"
  BY <1>1 DEF Proper, Replying
<1>6. Tallied(s, r, c)
  BY <1>5 DEF Tallied
<1>7. Proper(r.cn[c])
  BY <1>5 DEF Proper, Replying
<1>8. c \notin Gone(s)
  BY DEF Gone
<1>9. Kept(r.cn[c]) => Kept(s.cn[c])
  BY DEF Kept, Replying
<1>10. Covered(r.tab, r.cn[c], c)
  BY <1>1, <1>2, <1>5, <1>8, <1>9 DEF Covered, Replying
<1>11. LetIn(s.tab, r.tab, s.cn[c], r.cn[c], c)
  BY <1>1, <1>2, <1>3, <1>5, LetInSame
<1> QED BY <1>4, <1>6, <1>7, <1>10, <1>11, SoundStep

\* The answer is on its way; a loop it breaks had no grace running.
LEMMA SentIs ==
  ASSUME NEW s, Sound(s), s.w.broken = "no", NEW c \in Conns,
         s.cn[c].life = "held", s.cn[c].phase = "call", NEW late
  PROVE  LET r == fpm_direct_send_buffered(s, c, late) IN
         /\ Sound(r) /\ \A d \in Conns \ {c} : r.cn[d] = s.cn[d]
         /\ r.cn[c].phase = "reply" /\ r.cn[c].life = "held" /\ r.cn[c].closecb
         /\ r.w.cur = s.w.cur /\ r.w.script = s.w.script
         /\ r.w.broken # "no" => r.w.broken # "exit" /\ ~r.w.stopping /\ r.w.grace # "running"
<1> DEFINE a == fpm_direct_retire(s)
           b == CloseIfLast(a, c)
           d == Counted(b)
           e == fpm_direct_tick_body(d, FALSE, "handler", late)
           r == fpm_direct_send_buffered(s, c, late)
<1>0. r = InFlight(e, c)
  <2> DEFINE Close(u) == CloseIfLast(u, c)
             Tick(u)  == fpm_direct_tick_body(Counted(u), FALSE, "handler", late)
  <2>1. r = InFlight(With(With(fpm_direct_retire(s), Close), Tick), c)
    BY DEF fpm_direct_send_buffered
  <2> HIDE DEF Close, Tick, r
  <2>2. \A u : With(u, Close) = Close(u) /\ With(u, Tick) = Tick(u)
    BY DEF With
  <2> QED BY <2>1, <2>2 DEF Close, Tick
<1>1. s \in ChildState
  BY DEF Sound
<1>2. Ticked(s, a) /\ a.tab = s.tab /\ a.w.broken = s.w.broken
  BY <1>1, RetireIs
<1> HIDE DEF a, r
<1>3. Sound(a)
  BY <1>2, SoundTick
<1>4. /\ a \in ChildState /\ a.cn = s.cn /\ a.w.cur = s.w.cur /\ a.w.script = s.w.script
      /\ a.w.broken = "no" /\ Gated(a.tab, a.w)
  BY <1>2, <1>3 DEF Ticked, Calm, Sound
<1>5. Stepped(a, b, c, a.tab, b.cn[c], a.w) /\ Closer(a.cn[c], b.cn[c])
  BY <1>4, CloseIfLastIs
<1> HIDE DEF b
<1>6. /\ b \in ChildState /\ b.tab = a.tab /\ b.w = a.w
      /\ \A k \in Conns \ {c} : b.cn[k] = a.cn[k]
  BY <1>5 DEF Stepped
<1>7. /\ d \in ChildState /\ d.tab = b.tab /\ d.cn = b.cn /\ d.w.pending = b.w.pending + 1
      /\ d.w.cur = b.w.cur /\ d.w.script = b.w.script /\ d.w.broken = b.w.broken
      /\ d.w.paused = b.w.paused /\ d.w.listener = b.w.listener /\ d.w.pending > 0
  BY <1>6, CountedIs
<1> HIDE DEF d
<1>8. /\ Ticked(d, e)
      /\ d.w.pending > 0 /\ e.w.broken # d.w.broken =>
           e.w.broken # "exit" /\ ~e.w.stopping /\ e.w.grace # "running"
  BY <1>7, TickIs
<1> HIDE DEF e
<1>9. /\ e \in ChildState /\ e.cn = d.cn /\ Swept(d.tab, e.tab, Gone(d))
      /\ e.w.pending = d.w.pending /\ e.w.cur = d.w.cur /\ e.w.script = d.w.script
      /\ (Gated(d.tab, d.w) => Gated(e.tab, e.w))
  BY <1>8 DEF Ticked, Calm
<1>10. Stepped(e, r, c, e.tab, r.cn[c], e.w) /\ Replying(e.cn[c], r.cn[c])
  BY <1>0, <1>9, InFlightIs
<1>11. /\ r \in ChildState /\ r.tab = e.tab /\ r.w = e.w
       /\ \A k \in Conns \ {c} : r.cn[k] = e.cn[k]
  BY <1>10 DEF Stepped
<1>12. Gone(d) = Gone(a)
  <2>1. \A k \in Conns : d.cn[k].life = a.cn[k].life
    BY <1>5, <1>6, <1>7, SMTT(60) DEF Closer
  <2> QED BY <2>1 DEF Gone
<1>13. Gated(r.tab, r.w)
  <2>1. Gated(d.tab, d.w)
    BY <1>4, <1>6, <1>7 DEF Gated
  <2> QED BY <1>9, <1>11, <2>1
<1>14. Replying(a.cn[c], r.cn[c])
  BY <1>5, <1>7, <1>9, <1>10, SMTT(60) DEF Closer, Replying
<1>15. Swept(a.tab, r.tab, Gone(a))
  BY <1>6, <1>7, <1>9, <1>11, <1>12
<1>16. \A k \in Conns \ {c} : r.cn[k] = a.cn[k]
  BY <1>6, <1>7, <1>9, <1>11, SMTT(60)
<1>17. r.w.pending = a.w.pending + 1
  BY <1>6, <1>7, <1>9, <1>11
<1>18. Sound(r)
  BY <1>3, <1>4, <1>11, <1>13, <1>14, <1>15, <1>16, <1>17, AnsweredSound, SMTT(60)
<1>19. r.cn[c].phase = "reply" /\ r.cn[c].life = "held" /\ r.cn[c].closecb
  BY <1>4, <1>14 DEF Replying
<1>20. r.w.broken # "no" => r.w.broken # "exit" /\ ~r.w.stopping /\ r.w.grace # "running"
  BY <1>4, <1>6, <1>7, <1>8, <1>11
<1> QED BY <1>4, <1>6, <1>7, <1>9, <1>11, <1>16, <1>18, <1>19, <1>20, SMTT(60) DEF r

LEMMA RespondRunIs ==
  ASSUME NEW s, Good(s), NEW c \in Conns, s.w.cur = c, s.w.script = "run", NEW late
  PROVE  Decent([fpm_direct_send_buffered(s, c, late) EXCEPT !.w.script = "responded"])
<1> DEFINE q == fpm_direct_send_buffered(s, c, late)
           v == [q.w EXCEPT !.script = "responded"]
           r == [q EXCEPT !.w = v]
<1>1. Sound(s) /\ s.w.broken = "no" /\ s.cn[c].life = "held" /\ s.cn[c].phase = "call"
  BY GoodParts, InScript
<1>2. /\ Sound(q) /\ \A d \in Conns \ {c} : q.cn[d] = s.cn[d]
      /\ q.cn[c].phase = "reply" /\ q.cn[c].life = "held" /\ q.cn[c].closecb
      /\ q.w.cur = s.w.cur
      /\ q.w.broken # "no" => q.w.broken # "exit" /\ ~q.w.stopping /\ q.w.grace # "running"
  BY <1>1, SentIs, SMTT(60)
<1> HIDE DEF q
<1>3. q.w \in Worker
  BY <1>2, StateParts DEF Sound
<1>4. /\ v \in Worker /\ v.pending = q.w.pending /\ v.paused = q.w.paused /\ v.listener = q.w.listener
      /\ v.script = "responded" /\ v.cur = q.w.cur /\ v.broken = q.w.broken /\ v.grace = q.w.grace
      /\ v.stopping = q.w.stopping
  BY <1>3 DEF Worker
<1> HIDE DEF v
<1>5. Sound(r) /\ r.cn = q.cn /\ r.w = v
  BY <1>2, <1>4, SoundWorker, SMTT(30)
<1> HIDE DEF r
<1>6. Left(r) /\ Parting(r) /\ r.w.broken # "exit"
  BY <1>2, <1>4, <1>5 DEF Left, Parting
<1>7. Good(r)
  BY <1>2, <1>4, <1>5, <1>6, ScriptStep, SMTT(60)
<1> QED BY <1>6, <1>7 DEF Decent, r, v, q

\* The response is cut short: it is counted no more.
LEMMA AbortIs ==
  ASSUME NEW s, Sound(s), NEW c \in Conns, s.cn[c].closecb
  PROVE  LET r == fpm_direct_stream_abort(s, c) IN
         /\ Sound(r) /\ \A d \in Conns \ {c} : r.cn[d] = s.cn[d]
         /\ r.cn[c].phase = "reply" /\ r.cn[c].life = "held"
         /\ r.w.cur = s.w.cur /\ r.w.script = "cut" /\ r.w.broken = s.w.broken
<1> DEFINE y == [s.cn[c] EXCEPT !.closecb = FALSE, !.done = "none", !.closing = TRUE]
           v == [s.w EXCEPT !.script = "cut", !.pending = s.w.pending - 1]
           q == [s EXCEPT !.cn = [s.cn EXCEPT ![c] = y]]
           r == [q EXCEPT !.w = v]
<1>1. /\ s \in ChildState /\ s.tab \in Table /\ s.cn \in [Conns -> Connection] /\ s.w \in Worker
      /\ Gated(s.tab, s.w) /\ Judged(s.tab, s.cn)
      /\ Proper(s.cn[c]) /\ Covered(s.tab, s.cn[c], c)
  BY StateParts DEF Sound
<1>2. s.cn[c] \in Connection /\ s.cn[c].life = "held" /\ s.cn[c].phase = "reply"
  BY <1>1 DEF Proper
<1>3. s.w.pending > 0
  BY PendingSome
<1>4. fpm_direct_stream_abort(s, c) = r
  <2>1. [s EXCEPT !.cn[c].closecb = FALSE, !.cn[c].done = "none", !.cn[c].closing = TRUE] = q
    BY <1>1 DEF ChildState
  <2>2. q.w = s.w
    BY <1>1 DEF ChildState
  <2>3. fpm_direct_stream_abort(s, c)
          = [[s EXCEPT !.cn[c].closecb = FALSE, !.cn[c].done = "none", !.cn[c].closing = TRUE]
               EXCEPT !.w.script = "cut", !.w.pending = @ - 1]
    BY SMT DEF fpm_direct_stream_abort
  <2>4. fpm_direct_stream_abort(s, c) = [q EXCEPT !.w.script = "cut", !.w.pending = @ - 1]
    BY <2>1, <2>3
  <2> HIDE DEF q
  <2> QED BY <2>2, <2>4
<1>5. /\ y \in Connection /\ Proper(y) /\ y.phase = "reply" /\ y.life = "held"
      /\ ~y.closecb /\ ~Kept(y)
  BY <1>1, <1>2 DEF Connection, Proper, Kept
<1>6. /\ v \in Worker /\ v.pending = s.w.pending - 1 /\ v.cur = s.w.cur /\ v.script = "cut"
      /\ v.broken = s.w.broken /\ v.paused = s.w.paused /\ v.listener = s.w.listener
  <2>1. s.w.pending - 1 \in Nat
    BY <1>1, <1>3, SMTT(60) DEF Worker
  <2> QED BY <1>1, <1>2, <2>1 DEF Worker
<1> HIDE DEF y, v
<1>7. Stepped(s, q, c, s.tab, y, s.w)
  BY <1>1, <1>5, JustConn
<1> HIDE DEF q
<1>8. /\ r \in ChildState /\ r.tab = s.tab /\ r.w = v /\ r.cn[c] = y
      /\ \A d \in Conns \ {c} : r.cn[d] = s.cn[d]
  BY <1>6, <1>7, SetW DEF Stepped
<1> HIDE DEF r
<1>9. OneConn(s, r, c) /\ Tallied(s, r, c)
  BY <1>2, <1>5, <1>6, <1>8 DEF OneConn, Tallied, Alike
<1>10. Covered(r.tab, r.cn[c], c) /\ Gated(r.tab, r.w)
  BY <1>1, <1>5, <1>6, <1>8 DEF Covered, Gated
<1>11. LetIn(s.tab, r.tab, s.cn[c], r.cn[c], c)
  BY <1>1, <1>2, <1>8, LetInSame DEF Alike
<1>12. Sound(r)
  BY <1>1, <1>5, <1>8, <1>9, <1>10, <1>11, SoundStep
<1> QED BY <1>4, <1>5, <1>6, <1>8, <1>12

\* The response ends, or is cut short, after the request is counted.
LEMMA FinishIs ==
  ASSUME NEW s, Sound(s), s.w.broken = "no", NEW c \in Conns, s.cn[c].closecb,
         NEW r \in fpm_direct_stream_finish(fpm_direct_retire(s), c)
  PROVE  /\ Sound(r) /\ \A d \in Conns \ {c} : r.cn[d] = s.cn[d]
         /\ r.cn[c].phase = "reply" /\ r.cn[c].life = "held"
         /\ r.w.cur = s.w.cur /\ r.w.broken = "no"
<1> DEFINE q == fpm_direct_retire(s)
<1>1. Ticked(s, q) /\ q.w.broken = s.w.broken
  BY RetireIs DEF Sound
<1>2. r = q \/ r = fpm_direct_stream_abort(q, c)
  BY DEF fpm_direct_stream_finish
<1> HIDE DEF q
<1>3. Sound(q)
  BY <1>1, SoundTick
<1>4. q.cn = s.cn /\ q.w.cur = s.w.cur /\ Proper(q.cn[c])
  BY <1>1, <1>3 DEF Ticked, Calm, Sound
<1>5. q.cn[c].closecb /\ q.cn[c].phase = "reply" /\ q.cn[c].life = "held"
  BY <1>4 DEF Proper
<1>6. CASE r = q
  BY <1>1, <1>3, <1>4, <1>5, <1>6
<1>7. CASE r = fpm_direct_stream_abort(q, c)
  BY <1>1, <1>3, <1>4, <1>5, <1>7, AbortIs, SMTT(60)
<1> QED BY <1>2, <1>6, <1>7

LEMMA RespondStreamIs ==
  ASSUME NEW s, Good(s), NEW c \in Conns, s.w.cur = c, s.w.script = "stream",
         NEW q \in fpm_direct_stream_finish(fpm_direct_retire(s), c)
  PROVE  Decent([q EXCEPT !.w.script = "responded"])
<1> DEFINE v == [q.w EXCEPT !.script = "responded"]
           r == [q EXCEPT !.w = v]
<1>1. Sound(s) /\ s.w.broken = "no" /\ s.cn[c].closecb
  BY GoodParts, InScript
<1>2. /\ Sound(q) /\ \A d \in Conns \ {c} : q.cn[d] = s.cn[d]
      /\ q.cn[c].phase = "reply" /\ q.cn[c].life = "held"
      /\ q.w.cur = s.w.cur /\ q.w.broken = "no"
  BY <1>1, FinishIs
<1>3. q.w \in Worker
  BY <1>2, StateParts DEF Sound
<1>4. /\ v \in Worker /\ v.pending = q.w.pending /\ v.paused = q.w.paused /\ v.listener = q.w.listener
      /\ v.script = "responded" /\ v.cur = q.w.cur /\ v.broken = q.w.broken
  BY <1>3 DEF Worker
<1> HIDE DEF v
<1>5. Sound(r) /\ r.cn = q.cn /\ r.w = v
  BY <1>2, <1>4, SoundWorker
<1> HIDE DEF r
<1>6. Left(r) /\ Parting(r) /\ r.w.broken # "exit"
  BY <1>2, <1>4, <1>5 DEF Left, Parting
<1>7. Good(r)
  BY <1>2, <1>4, <1>5, <1>6, ScriptStep, SMTT(60)
<1> QED BY <1>6, <1>7 DEF Decent, r, v

LEMMA CutIs ==
  ASSUME NEW s, Good(s), NEW c \in Conns, s.w.cur = c, s.w.script = "stream"
  PROVE  Decent(fpm_direct_stream_abort(s, c))
<1> DEFINE r == fpm_direct_stream_abort(s, c)
<1>1. Sound(s) /\ s.w.broken = "no" /\ s.cn[c].closecb
  BY GoodParts, InScript
<1>2. /\ Sound(r) /\ \A d \in Conns \ {c} : r.cn[d] = s.cn[d]
      /\ r.cn[c].phase = "reply" /\ r.cn[c].life = "held"
      /\ r.w.cur = s.w.cur /\ r.w.script = "cut" /\ r.w.broken = s.w.broken
  BY <1>1, AbortIs
<1> HIDE DEF r
<1>3. Left(r) /\ Parting(r) /\ r.w.broken # "exit"
  BY <1>1, <1>2 DEF Left, Parting
<1>4. Good(r)
  BY <1>2, <1>3, ScriptStep, SMTT(60)
<1> QED BY <1>3, <1>4 DEF Decent, r

LEMMA StreamIs ==
  ASSUME NEW s, Good(s), NEW c \in Conns, s.w.cur = c, s.w.script = "run"
  PROVE  Decent(fpm_direct_stream_begin(s, c))
<1> DEFINE b == CloseIfLast(s, c)
           d == Counted(b)
           q == InFlight(d, c)
           v == [q.w EXCEPT !.script = "stream"]
           r == [q EXCEPT !.w = v]
<1>0. fpm_direct_stream_begin(s, c) = r
  BY DEF fpm_direct_stream_begin
<1>1. /\ s \in ChildState /\ Sound(s) /\ s.w.broken = "no" /\ s.cn[c].life = "held"
      /\ s.cn[c].phase = "call" /\ s.tab \in Table /\ Gated(s.tab, s.w)
  BY GoodParts, InScript
<1>2. Stepped(s, b, c, s.tab, b.cn[c], s.w) /\ Closer(s.cn[c], b.cn[c])
  BY <1>1, CloseIfLastIs
<1> HIDE DEF b
<1>3. b \in ChildState /\ b.tab = s.tab /\ b.w = s.w /\ \A k \in Conns \ {c} : b.cn[k] = s.cn[k]
  BY <1>2 DEF Stepped
<1>4. /\ d \in ChildState /\ d.tab = b.tab /\ d.cn = b.cn /\ d.w.pending = b.w.pending + 1
      /\ d.w.cur = b.w.cur /\ d.w.broken = b.w.broken
      /\ d.w.paused = b.w.paused /\ d.w.listener = b.w.listener
  BY <1>3, CountedIs
<1> HIDE DEF d
<1>5. Stepped(d, q, c, d.tab, q.cn[c], d.w) /\ Replying(d.cn[c], q.cn[c])
  BY <1>4, InFlightIs
<1> HIDE DEF q
<1>6. q \in ChildState /\ q.tab = d.tab /\ q.w = d.w /\ \A k \in Conns \ {c} : q.cn[k] = d.cn[k]
  BY <1>5 DEF Stepped
<1>7. Replying(s.cn[c], q.cn[c])
  BY <1>2, <1>4, <1>5, SMTT(60) DEF Closer, Replying
<1>8. Swept(s.tab, q.tab, Gone(s))
  BY <1>1, <1>3, <1>4, <1>6, SweptSelf
<1>9. Gated(q.tab, q.w)
  BY <1>1, <1>3, <1>4, <1>6, SMTT(60) DEF Gated
<1>10. Sound(q)
  BY <1>1, <1>3, <1>4, <1>6, <1>7, <1>8, <1>9, AnsweredSound, SMTT(60)
<1>11. q.w \in Worker
  BY <1>6, StateParts
<1>12. /\ v \in Worker /\ v.pending = q.w.pending /\ v.paused = q.w.paused /\ v.listener = q.w.listener
       /\ v.script = "stream" /\ v.cur = q.w.cur /\ v.broken = q.w.broken
  BY <1>11 DEF Worker
<1> HIDE DEF v
<1>13. Sound(r) /\ r.cn = q.cn /\ r.w = v
  BY <1>10, <1>12, SoundWorker
<1> HIDE DEF r
<1>14. Left(r) /\ Parting(r) /\ r.w.broken # "exit"
  BY <1>1, <1>3, <1>4, <1>6, <1>12, <1>13 DEF Left, Parting
<1>15. r.cn[c].phase # "call" /\ r.cn[c].life = "held" /\ r.cn[c].closecb
  BY <1>1, <1>7, <1>13 DEF Replying
<1>16. \A k \in Conns \ {c} : r.cn[k] = s.cn[k]
  BY <1>3, <1>4, <1>6, <1>13
<1>17. Good(r)
  BY <1>3, <1>4, <1>6, <1>12, <1>13, <1>14, <1>15, <1>16, ScriptStep, SMTT(60)
<1> QED BY <1>0, <1>14, <1>17 DEF Decent

\* The worker of a script that is over.
LEMMA ScriptOver ==
  ASSUME NEW s, Good(s), NEW c \in Conns, s.w.cur = c
  PROVE  LET r == [s EXCEPT !.w.cur = None, !.w.script = "none"] IN
         /\ r \in ChildState /\ Sound(r) /\ r.tab = s.tab /\ r.cn = s.cn
         /\ r.w.cur = None /\ r.w.script = "none" /\ r.w.broken = s.w.broken
         /\ s.w.script # "run" => Good(r)
<1> DEFINE v == [s.w EXCEPT !.cur = None, !.script = "none"]
           r == [s EXCEPT !.w = v]
<1>1. s \in ChildState /\ Sound(s) /\ Left(s) /\ s.w \in Worker
  BY GoodParts
<1>2. /\ v \in Worker /\ v.pending = s.w.pending /\ v.cur = None /\ v.script = "none"
      /\ v.broken = s.w.broken /\ v.paused = s.w.paused /\ v.listener = s.w.listener
      /\ v.stale = s.w.stale /\ v.stopping = s.w.stopping /\ v.grace = s.w.grace
  BY <1>1 DEF Worker
<1>3. [s EXCEPT !.w.cur = None, !.w.script = "none"] = r
  BY <1>1 DEF ChildState
<1> HIDE DEF v
<1>4. Sound(r) /\ r \in ChildState /\ r.tab = s.tab /\ r.cn = s.cn /\ r.w = v
  BY <1>1, <1>2, SoundWorker
<1> HIDE DEF r
<1>5. ASSUME s.w.script # "run" PROVE Good(r)
  <2>1. s.cn[c].phase # "call"
    BY <1>5, InScript
  <2>2. Left(r) /\ r.w.broken # "exit"
    BY <1>1, <1>2, <1>4, InScript DEF Left
  <2> QED BY <1>2, <1>4, <2>1, <2>2, ScriptStep, SMTT(60)
<1> QED BY <1>2, <1>3, <1>4, <1>5

LEMMA ScriptEndsRun ==
  ASSUME NEW s, Good(s), NEW c \in Conns, s.w.cur = c, s.w.script = "run", NEW late
  PROVE  Decent(fpm_direct_send_buffered([s EXCEPT !.w.cur = None, !.w.script = "none"], c, late))
<1> DEFINE q == [s EXCEPT !.w.cur = None, !.w.script = "none"]
           r == fpm_direct_send_buffered(q, c, late)
<1>1. s.w.broken = "no" /\ s.cn[c].life = "held" /\ s.cn[c].phase = "call"
  BY InScript
<1>2. /\ Sound(q) /\ q.cn = s.cn /\ q.w.cur = None /\ q.w.script = "none" /\ q.w.broken = "no"
  BY <1>1, ScriptOver
<1> HIDE DEF q
<1>3. /\ Sound(r) /\ \A d \in Conns \ {c} : r.cn[d] = q.cn[d]
      /\ r.cn[c].phase = "reply" /\ r.w.cur = q.w.cur /\ r.w.script = q.w.script
      /\ r.w.broken # "no" => r.w.broken # "exit" /\ ~r.w.stopping /\ r.w.grace # "running"
  BY <1>1, <1>2, SentIs, SMTT(60)
<1> HIDE DEF r
<1>4. Left(r) /\ Parting(r) /\ r.w.broken # "exit"
  BY <1>2, <1>3 DEF Left, Parting
<1>5. Good(r)
  BY <1>2, <1>3, <1>4, ScriptStep, SMTT(60)
<1> QED BY <1>4, <1>5 DEF Decent, r, q

\* The callback leaves the script as it is when there is none.
LEMMA NoScript ==
  ASSUME NEW s, Sound(s), s.w.cur = None, NEW k, Good(k), NEW c \in Conns, k.w.cur = c,
         \A d \in Conns \ {c} : s.cn[d] = k.cn[d], s.cn[c].phase # "call",
         s.w.broken # "exit",
         s.w.broken # "no" /\ s.w.stopping /\ ~s.w.stale => s.w.pending = 0
  PROVE  LET r == [s EXCEPT !.w.script = "none"] IN
         Good(r) /\ r.w.cur = None /\ r.w.broken = s.w.broken
<1> DEFINE v == [s.w EXCEPT !.script = "none"]
           r == [s EXCEPT !.w = v]
<1>1. s.w \in Worker
  BY StateParts DEF Sound
<1>2. /\ v \in Worker /\ v.pending = s.w.pending /\ v.paused = s.w.paused /\ v.listener = s.w.listener
      /\ v.script = "none" /\ v.cur = None /\ v.broken = s.w.broken
      /\ v.stopping = s.w.stopping /\ v.stale = s.w.stale
  BY <1>1 DEF Worker
<1> HIDE DEF v
<1>3. Sound(r) /\ r.cn = s.cn /\ r.w = v
  BY <1>2, SoundWorker
<1> HIDE DEF r
<1>4. Left(r)
  BY <1>2, <1>3 DEF Left
<1>5. Good(r)
  BY <1>2, <1>3, <1>4, ScriptStep, SMTT(60)
<1> QED BY <1>2, <1>3, <1>5 DEF r, v

LEMMA ScriptEndsStream ==
  ASSUME NEW s, Good(s), NEW c \in Conns, s.w.cur = c, s.w.script = "stream", NEW late,
         NEW t \in fpm_direct_stream_finish(
                     fpm_direct_retire([s EXCEPT !.w.cur = None, !.w.script = "none"]), c)
  PROVE  Decent(fpm_direct_tick_body([t EXCEPT !.w.script = "none"], FALSE, "handler", late))
<1> DEFINE q == [s EXCEPT !.w.cur = None, !.w.script = "none"]
           r == [t EXCEPT !.w.script = "none"]
<1>1. s.w.broken = "no" /\ s.cn[c].closecb
  BY InScript
<1>2. Sound(q) /\ q.cn = s.cn /\ q.w.cur = None /\ q.w.broken = "no"
  BY <1>1, ScriptOver
<1>3. t \in fpm_direct_stream_finish(fpm_direct_retire(q), c)
  OBVIOUS
<1> HIDE DEF q
<1>4. /\ Sound(t) /\ \A d \in Conns \ {c} : t.cn[d] = s.cn[d]
      /\ t.cn[c].phase = "reply" /\ t.w.cur = None /\ t.w.broken = "no"
  BY <1>1, <1>2, <1>3, FinishIs, SMTT(60)
<1>5. Good(r) /\ r.w.cur = None /\ r.w.broken = "no"
  BY <1>4, NoScript, SMTT(60)
<1> HIDE DEF r
<1>6. Decent(fpm_direct_tick_body(r, FALSE, "handler", late))
  BY <1>5, LoopTickIs DEF Decent
<1> QED BY <1>6 DEF r

LEMMA ScriptEndsAnswered ==
  ASSUME NEW s, Good(s), NEW c \in Conns, s.w.cur = c, s.w.script # "run", NEW late,
         NEW t, LET q == [s EXCEPT !.w.cur = None, !.w.script = "none"] IN
                t = q \/ t = fpm_direct_retire(q)
  PROVE  LET r == fpm_direct_tick_body([t EXCEPT !.w.script = "none"], FALSE, "handler", late) IN
         Good(r) /\ (s.w.broken = "no" => Parting(r))
<1> DEFINE q == [s EXCEPT !.w.cur = None, !.w.script = "none"]
           p == [t EXCEPT !.w.script = "none"]
<1>1. /\ Good(q) /\ q \in ChildState /\ q.w.cur = None /\ q.cn = s.cn
      /\ q.w.broken = s.w.broken
  BY ScriptOver
<1>2. t = q \/ t = fpm_direct_retire(q)
  OBVIOUS
<1> HIDE DEF q
<1>3. Ticked(q, t) /\ t.w.broken = q.w.broken
  BY <1>1, <1>2, RetireIs, TickedSelf
<1>4. Good(t) /\ t.w.cur = None /\ t.cn = s.cn
  BY <1>1, <1>3, GoodTick DEF Ticked, Calm
<1>5. Sound(t) /\ (t.w.broken # "no" /\ t.w.stopping /\ ~t.w.stale => t.w.pending = 0)
  BY <1>4, GoodParts DEF Left
<1>6. s.cn[c].phase # "call" /\ t.w.broken # "exit"
  BY <1>1, <1>3, InScript
<1>7. Good(p) /\ p.w.cur = None /\ p.w.broken = s.w.broken
  BY <1>1, <1>3, <1>4, <1>5, <1>6, NoScript, SMTT(60)
<1> HIDE DEF p
<1>8. LET r == fpm_direct_tick_body(p, FALSE, "handler", late) IN
      Good(r) /\ (s.w.broken = "no" => Parting(r))
  BY <1>7, LoopTickIs
<1> QED BY <1>8 DEF p

-----------------------------------------------------------------------------
(* The request callback.                                                   *)

\* What the table says of a request, and the table after it.
Received(s, q, c) ==
  /\ q.over \in BOOLEAN /\ Thinned(s.tab, q.t, Gone(s) \cup {c})
  /\ \A d \in Tracked(q.t) \ {c} : Alike(s.tab.node[d], q.t.node[d])
  /\ \A y : LetIn(s.tab, q.t, s.cn[c], y, c)
  /\ ~q.over /\ Kept(s.cn[c]) => c \in Tracked(q.t) /\ q.t.node[c].served

LEMMA ReceivedIs ==
  ASSUME NEW s, Good(s), NEW c \in Conns, s.cn[c].life = "held"
  PROVE  Received(s, fpm_http_direct_conns_request(s.tab, Gone(s), c), c)
<1> DEFINE q == fpm_http_direct_conns_request(s.tab, Gone(s), c)
<1>1. /\ s.tab \in Table /\ s.tab.limits.track = TRUE /\ Judged(s.tab, s.cn)
      /\ Covered(s.tab, s.cn[c], c)
  BY GoodParts
<1>2. CASE c \notin Tracked(s.tab)
  <2>1. q.t = s.tab /\ q.over = FALSE
    BY <1>2 DEF fpm_http_direct_conns_request
  <2> HIDE DEF q
  <2>2. Thinned(s.tab, q.t, Gone(s) \cup {c})
    BY <1>1, <2>1, TableParts, SMTT(60) DEF Thinned
  <2>3. \A d \in Tracked(q.t) \ {c} : Alike(s.tab.node[d], q.t.node[d])
    BY <2>1 DEF Alike
  <2>4. \A y : LetIn(s.tab, q.t, s.cn[c], y, c)
    BY <1>2, <2>1 DEF LetIn
  <2>5. ~Kept(s.cn[c])
    BY <1>1, <1>2 DEF Covered
  <2> QED BY <2>1, <2>2, <2>3, <2>4, <2>5 DEF Received, q
<1>3. CASE c \in Tracked(s.tab)
  <2>1. c \notin Gone(s)
    BY DEF Gone
  <2>2. /\ q.over \in BOOLEAN /\ Thinned(s.tab, q.t, Gone(s) \cup {c})
        /\ \A d \in Tracked(q.t) \ {c} : Alike(s.tab.node[d], q.t.node[d])
        /\ q.over => c \notin Tracked(q.t)
        /\ ~q.over => Thinned(s.tab, q.t, Gone(s)) /\ Admits(s.tab, q.t, c)
    BY <1>1, <1>3, <2>1, RequestIs
  <2> HIDE DEF q
  <2>3. ASSUME NEW y PROVE LetIn(s.tab, q.t, s.cn[c], y, c)
    BY <1>3, <2>2 DEF LetIn, Admits
  <2>4. ~q.over => c \in Tracked(q.t) /\ q.t.node[c].served
    BY <2>2 DEF Admits
  <2> QED BY <2>2, <2>3, <2>4 DEF Received, q
<1> QED BY <1>2, <1>3

\* However the request is answered, or handed to PHP.
LEMMA ReceivedStep ==
  ASSUME NEW s, Good(s), s.w.cur = None, s.w.broken = "no", NEW c \in Conns, s.cn[c].life = "held",
         NEW q, Received(s, q, c), NEW r \in ChildState, r.tab = q.t,
         \A d \in Conns \ {c} : r.cn[d] = s.cn[d], Proper(r.cn[c]), r.cn[c].life = "held",
         r.cn[c].phase # "read", Kept(r.cn[c]) => Kept(s.cn[c]) /\ ~q.over,
         Tallied(s, r, c), Gated(r.tab, r.w),
         \/ r.w.broken = "no" /\ r.w.cur = None /\ r.w.script = "none" /\ r.cn[c].phase = "reply"
         \/ r.w.broken = "no" /\ r.w.cur = c /\ r.w.script = "run" /\ r.cn[c].phase = "call"
         \/ r.w.broken = "exit" /\ r.w.cur = None /\ r.w.script = "none" /\ ~r.w.stopping
  PROVE  Decent(r)
<1>1. Sound(s) /\ Running(s) /\ s.tab \in Table /\ Covered(s.tab, s.cn[c], c) /\ c # None
  BY GoodParts, DirectChildAssumption
<1>2. OneConn(s, r, c)
  BY DEF OneConn, Received, Thinned
<1>3. LetIn(s.tab, r.tab, s.cn[c], r.cn[c], c)
  BY DEF Received
<1>4. Covered(r.tab, r.cn[c], c)
  BY DEF Covered, Received
<1>5. Sound(r)
  BY <1>1, <1>2, <1>3, <1>4, SoundStep
<1>6. \A d \in Conns \ {c} : r.cn[d].phase # "call"
  BY <1>1 DEF Running
<1>7. Running(r)
  BY <1>1, <1>6 DEF Running
<1>8. Left(r) /\ Parting(r)
  BY DEF Left, Parting
<1> QED BY <1>5, <1>7, <1>8 DEF Decent, Good

\* The child when the callback has asked the table.
Called(s, q, c) == [s EXCEPT !.tab = q.t, !.cn[c].phase = "call", !.cn[c].done = "budget"]

LEMMA CalledIs ==
  ASSUME NEW s, Good(s), NEW c \in Conns, s.cn[c].life = "held", s.cn[c].phase = "read",
         NEW q, Received(s, q, c)
  PROVE  LET p == Called(s, q, c) IN
         /\ p \in ChildState /\ p.tab = q.t /\ p.w = s.w /\ Gated(p.tab, p.w)
         /\ \A d \in Conns \ {c} : p.cn[d] = s.cn[d]
         /\ p.cn[c].phase = "call" /\ p.cn[c].done = "budget" /\ p.cn[c].closecb = s.cn[c].closecb
         /\ p.cn[c].life = s.cn[c].life /\ p.cn[c].closing = s.cn[c].closing
         /\ p.cn[c].last = s.cn[c].last
<1> DEFINE y == [s.cn[c] EXCEPT !.phase = "call", !.done = "budget"]
           p == [s EXCEPT !.tab = q.t, !.cn = [s.cn EXCEPT ![c] = y]]
<1>1. /\ s \in ChildState /\ s.tab \in Table /\ s.cn \in [Conns -> Connection]
      /\ s.cn[c] \in Connection /\ Gated(s.tab, s.w)
  BY GoodParts
<1>2. q.t \in Table /\ Gated(q.t, s.w)
  BY <1>1, GatedThinned DEF Received, Thinned
<1>3. /\ y \in Connection /\ y.phase = "call" /\ y.done = "budget" /\ y.closecb = s.cn[c].closecb
      /\ y.life = s.cn[c].life /\ y.closing = s.cn[c].closing /\ y.last = s.cn[c].last
  BY <1>1 DEF Connection
<1>4. Called(s, q, c) = p
  BY <1>1 DEF Called, ChildState
<1> HIDE DEF y
<1>5. Stepped(s, p, c, q.t, y, s.w)
  BY <1>1, <1>2, <1>3, TabAndConn
<1> HIDE DEF p
<1>6. /\ p \in ChildState /\ p.tab = q.t /\ p.w = s.w /\ p.cn[c] = y
      /\ \A d \in Conns \ {c} : p.cn[d] = s.cn[d]
  BY <1>5 DEF Stepped
<1>7. Gated(p.tab, p.w)
  BY <1>2, <1>6
<1> QED BY <1>3, <1>4, <1>6, <1>7

\* ... and has entered the retirement that it was told of.
LEMMA EnteredIs ==
  ASSUME NEW p \in ChildState, Gated(p.tab, p.w)
  PROVE  LET r == Entering(p) IN
         /\ r \in ChildState /\ r.tab = p.tab /\ r.cn = p.cn /\ Gated(r.tab, r.w)
         /\ r.w.pending = p.w.pending /\ r.w.cur = p.w.cur /\ r.w.script = p.w.script
         /\ r.w.broken = p.w.broken /\ r.w.stopping = p.w.stopping
<1> DEFINE r == Entering(p)
<1>1. CASE p.w.retiring
  <2>1. r = fpm_direct_retire_enter(p)
    BY <1>1 DEF Entering
  <2>2. Ticked(p, r) /\ r.tab = p.tab /\ r.w.broken = p.w.broken
    BY <2>1, EnterIs
  <2> HIDE DEF r
  <2> QED BY <2>2 DEF Ticked, Calm, r
<1>2. CASE ~p.w.retiring
  BY <1>2 DEF Entering
<1> QED BY <1>1, <1>2

\* A child that may answer a request on c.
Asked(s, b, q, c) ==
  /\ b \in ChildState /\ b.tab = q.t /\ Gated(b.tab, b.w)
  /\ \A d \in Conns \ {c} : b.cn[d] = s.cn[d]
  /\ b.cn[c].phase = "call" /\ b.cn[c].done = "budget" /\ ~b.cn[c].closecb
  /\ b.cn[c].life = "held" /\ b.cn[c].closing = s.cn[c].closing /\ b.cn[c].last = s.cn[c].last
  /\ b.w.pending = s.w.pending /\ b.w.cur = None /\ b.w.script = "none" /\ b.w.broken = "no"
  /\ b.w.stopping = s.w.stopping

LEMMA AskedIs ==
  ASSUME NEW s, Good(s), s.w.cur = None, s.w.broken = "no", NEW c \in Conns,
         s.cn[c].life = "held", s.cn[c].phase = "read", NEW q, Received(s, q, c)
  PROVE  LET p == Called(s, q, c) IN Asked(s, p, q, c) /\ Asked(s, Entering(p), q, c)
<1> DEFINE p == Called(s, q, c)
           e == Entering(p)
<1>1. /\ p \in ChildState /\ p.tab = q.t /\ p.w = s.w /\ Gated(p.tab, p.w)
      /\ \A d \in Conns \ {c} : p.cn[d] = s.cn[d]
      /\ p.cn[c].phase = "call" /\ p.cn[c].done = "budget" /\ p.cn[c].closecb = s.cn[c].closecb
      /\ p.cn[c].life = s.cn[c].life /\ p.cn[c].closing = s.cn[c].closing
      /\ p.cn[c].last = s.cn[c].last
  BY CalledIs, SMTT(60)
<1>2. s.cn[c] \in Connection /\ Proper(s.cn[c]) /\ s.w.script = "none"
  BY InLoop
<1>3. ~p.cn[c].closecb
  BY <1>1, <1>2 DEF Proper
<1> HIDE DEF p
<1>4. /\ e \in ChildState /\ e.tab = p.tab /\ e.cn = p.cn /\ Gated(e.tab, e.w)
      /\ e.w.pending = p.w.pending /\ e.w.cur = p.w.cur /\ e.w.script = p.w.script
      /\ e.w.broken = p.w.broken /\ e.w.stopping = p.w.stopping
  BY <1>1, EnteredIs
<1> HIDE DEF e
<1>5. Asked(s, p, q, c)
  BY <1>1, <1>2, <1>3 DEF Asked
<1>6. Asked(s, e, q, c)
  BY <1>4, <1>5 DEF Asked
<1> QED BY <1>5, <1>6 DEF e, p

LEMMA AnswerErrorIs ==
  ASSUME NEW s, Good(s), s.w.cur = None, s.w.broken = "no", NEW c \in Conns, s.cn[c].life = "held",
         s.cn[c].phase = "read", NEW q, Received(s, q, c), NEW b, Asked(s, b, q, c)
  PROVE  /\ Decent(SendError(b, c))
         /\ ~q.over => Decent(LocalReply(b, c))
<1> DEFINE y == [b.cn[c] EXCEPT !.phase = "reply", !.last = TRUE]
           z == [b.cn[c] EXCEPT !.phase = "reply"]
           r == [b EXCEPT !.cn = [b.cn EXCEPT ![c] = y]]
           l == [b EXCEPT !.cn = [b.cn EXCEPT ![c] = z]]
<1>1. b \in ChildState /\ b.cn \in [Conns -> Connection] /\ b.cn[c] \in Connection
  BY StateParts DEF Asked
<1>2. SendError(b, c) = r /\ LocalReply(b, c) = l
  BY <1>1 DEF SendError, LocalReply, ChildState
<1>3. /\ y \in Connection /\ y.phase = "reply" /\ y.last /\ y.done = b.cn[c].done
      /\ y.closecb = b.cn[c].closecb /\ y.life = b.cn[c].life
  BY <1>1 DEF Connection
<1>4. /\ z \in Connection /\ z.phase = "reply" /\ z.last = b.cn[c].last /\ z.done = b.cn[c].done
      /\ z.closecb = b.cn[c].closecb /\ z.life = b.cn[c].life /\ z.closing = b.cn[c].closing
  BY <1>1 DEF Connection
<1> HIDE DEF y, z
<1>5. Stepped(b, r, c, b.tab, y, b.w) /\ Stepped(b, l, c, b.tab, z, b.w)
  BY <1>1, <1>3, <1>4, JustConn
<1> HIDE DEF r, l
<1>6. /\ r \in ChildState /\ r.tab = b.tab /\ r.w = b.w /\ r.cn[c] = y
      /\ \A d \in Conns \ {c} : r.cn[d] = b.cn[d]
      /\ l \in ChildState /\ l.tab = b.tab /\ l.w = b.w /\ l.cn[c] = z
      /\ \A d \in Conns \ {c} : l.cn[d] = b.cn[d]
  BY <1>5 DEF Stepped
<1>7. Proper(y) /\ ~Kept(y) /\ Proper(z) /\ (Kept(z) => Kept(s.cn[c])) /\ y.life = "held" /\ z.life = "held"
  BY <1>3, <1>4 DEF Asked, Proper, Kept
<1>8. Proper(s.cn[c])
  BY InLoop
<1>9. ~s.cn[c].closecb
  BY <1>8 DEF Proper
<1>10. Tallied(s, r, c) /\ Tallied(s, l, c)
  BY <1>3, <1>4, <1>6, <1>9 DEF Tallied, Asked
<1>11. /\ b.tab = q.t /\ Gated(b.tab, b.w) /\ \A d \in Conns \ {c} : b.cn[d] = s.cn[d]
       /\ b.w.cur = None /\ b.w.script = "none" /\ b.w.broken = "no"
  BY DEF Asked
<1>12. Decent(r)
  BY <1>3, <1>6, <1>7, <1>10, <1>11, ReceivedStep, SMTT(60)
<1>13. ~q.over => Decent(l)
  BY <1>4, <1>6, <1>7, <1>10, <1>11, ReceivedStep, SMTT(60)
<1> QED BY <1>2, <1>12, <1>13

LEMMA StaticIs ==
  ASSUME NEW s, Good(s), s.w.cur = None, s.w.broken = "no", NEW c \in Conns, s.cn[c].life = "held",
         s.cn[c].phase = "read", NEW q, Received(s, q, c), NEW b, Asked(s, b, q, c), ~q.over
  PROVE  Decent(fpm_direct_try_static(b, c))
<1> DEFINE d == Counted(b)
           r == InFlight(d, c)
<1>1. /\ b \in ChildState /\ b.tab = q.t /\ Gated(b.tab, b.w) /\ b.w.pending = s.w.pending
      /\ \A k \in Conns \ {c} : b.cn[k] = s.cn[k]
      /\ b.w.cur = None /\ b.w.script = "none" /\ b.w.broken = "no"
  BY DEF Asked
<1>2. fpm_direct_try_static(b, c) = r
  BY DEF fpm_direct_try_static
<1>3. /\ d \in ChildState /\ d.tab = b.tab /\ d.cn = b.cn /\ d.w.pending = b.w.pending + 1
      /\ d.w.cur = b.w.cur /\ d.w.script = b.w.script /\ d.w.broken = b.w.broken
      /\ d.w.paused = b.w.paused /\ d.w.listener = b.w.listener
  BY <1>1, CountedIs
<1> HIDE DEF d
<1>4. Stepped(d, r, c, d.tab, r.cn[c], d.w) /\ Replying(d.cn[c], r.cn[c])
  BY <1>3, InFlightIs
<1> HIDE DEF r
<1>5. r \in ChildState /\ r.tab = d.tab /\ r.w = d.w /\ \A k \in Conns \ {c} : r.cn[k] = d.cn[k]
  BY <1>4 DEF Stepped
<1>6. Gated(r.tab, r.w)
  BY <1>1, <1>3, <1>5 DEF Gated
<1>7. Proper(s.cn[c])
  BY InLoop
<1>8. ~s.cn[c].closecb
  BY <1>7 DEF Proper
<1>9. r.cn[c].closecb /\ r.cn[c].phase = "reply" /\ r.cn[c].life = "held"
  BY <1>3, <1>4 DEF Replying, Asked
<1>10. Proper(r.cn[c])
  BY <1>4, <1>9 DEF Proper, Replying
<1>11. Kept(r.cn[c]) => Kept(s.cn[c])
  BY <1>3, <1>4 DEF Kept, Replying, Asked
<1>12. Tallied(s, r, c)
  BY <1>1, <1>3, <1>5, <1>8, <1>9 DEF Tallied
<1>13. Decent(r)
  BY <1>1, <1>3, <1>5, <1>6, <1>9, <1>10, <1>11, <1>12, ReceivedStep, SMTT(60)
<1> QED BY <1>2, <1>13

LEMMA RunIs ==
  ASSUME NEW s, Good(s), s.w.cur = None, s.w.broken = "no", NEW c \in Conns, s.cn[c].life = "held",
         s.cn[c].phase = "read", NEW q, Received(s, q, c), NEW b, Asked(s, b, q, c), ~q.over
  PROVE  Decent(RunPHP(b, c))
<1> DEFINE v == [b.w EXCEPT !.cur = c, !.script = "run"]
           r == [b EXCEPT !.w = v]
<1>1. /\ b \in ChildState /\ b.tab = q.t /\ Gated(b.tab, b.w) /\ b.w.pending = s.w.pending
      /\ \A k \in Conns \ {c} : b.cn[k] = s.cn[k]
  BY DEF Asked
<1>2. b.w \in Worker /\ b.w.broken = "no"
  BY <1>1, StateParts DEF Asked
<1>3. RunPHP(b, c) = r
  BY <1>1 DEF RunPHP, ChildState
<1>4. /\ v \in Worker /\ v.pending = b.w.pending /\ v.cur = c /\ v.script = "run"
      /\ v.broken = b.w.broken /\ v.paused = b.w.paused /\ v.listener = b.w.listener
  BY <1>2 DEF Worker
<1> HIDE DEF v
<1>5. r \in ChildState /\ r.tab = b.tab /\ r.cn = b.cn /\ r.w = v
  BY <1>1, <1>4, SetW
<1> HIDE DEF r
<1>6. Proper(s.cn[c])
  BY InLoop
<1>7. Proper(r.cn[c]) /\ (Kept(r.cn[c]) => Kept(s.cn[c])) /\ ~s.cn[c].closecb
  BY <1>5, <1>6 DEF Proper, Kept, Asked
<1>8. Tallied(s, r, c) /\ r.cn[c].life = "held" /\ r.cn[c].phase = "call"
  BY <1>1, <1>4, <1>5, <1>7 DEF Tallied, Asked
<1>9. Gated(r.tab, r.w)
  BY <1>1, <1>4, <1>5 DEF Gated
<1>10. \A k \in Conns \ {c} : r.cn[k] = s.cn[k]
  BY <1>1, <1>5
<1>11. Decent(r)
  BY <1>1, <1>2, <1>4, <1>5, <1>7, <1>8, <1>9, <1>10, ReceivedStep, SMTT(60)
<1> QED BY <1>3, <1>11

\* The child gives up on its script runtime.
LEMMA ExitIs ==
  ASSUME NEW s, Good(s), s.w.cur = None, s.w.broken = "no", NEW c \in Conns, s.cn[c].life = "held",
         s.cn[c].phase = "read", NEW q, Received(s, q, c), NEW b, Asked(s, b, q, c), ~q.over,
         ~s.w.stopping
  PROVE  Decent([b EXCEPT !.w.broken = "exit"])
<1> DEFINE v == [b.w EXCEPT !.broken = "exit"]
           r == [b EXCEPT !.w = v]
<1>1. /\ b \in ChildState /\ b.tab = q.t /\ Gated(b.tab, b.w) /\ b.w.pending = s.w.pending
      /\ \A k \in Conns \ {c} : b.cn[k] = s.cn[k]
      /\ b.w.cur = None /\ b.w.script = "none" /\ ~b.w.stopping
  BY DEF Asked
<1>2. b.w \in Worker
  BY <1>1, StateParts
<1>3. [b EXCEPT !.w.broken = "exit"] = r
  BY <1>1 DEF ChildState
<1>4. /\ v \in Worker /\ v.pending = b.w.pending /\ v.cur = b.w.cur /\ v.script = b.w.script
      /\ v.broken = "exit" /\ v.stopping = b.w.stopping
      /\ v.paused = b.w.paused /\ v.listener = b.w.listener
  BY <1>2 DEF Worker
<1> HIDE DEF v
<1>5. r \in ChildState /\ r.tab = b.tab /\ r.cn = b.cn /\ r.w = v
  BY <1>1, <1>4, SetW
<1> HIDE DEF r
<1>6. Proper(s.cn[c])
  BY InLoop
<1>7. Proper(r.cn[c]) /\ (Kept(r.cn[c]) => Kept(s.cn[c])) /\ ~s.cn[c].closecb
  BY <1>5, <1>6 DEF Proper, Kept, Asked
<1>8. Tallied(s, r, c) /\ r.cn[c].life = "held" /\ r.cn[c].phase = "call"
  BY <1>1, <1>4, <1>5, <1>7 DEF Tallied, Asked
<1>9. Gated(r.tab, r.w)
  BY <1>1, <1>4, <1>5 DEF Gated
<1>10. \A k \in Conns \ {c} : r.cn[k] = s.cn[k]
  BY <1>1, <1>5
<1>11. Decent(r)
  BY <1>1, <1>4, <1>5, <1>7, <1>8, <1>9, <1>10, ReceivedStep, SMTT(60)
<1> QED BY <1>3, <1>11

-----------------------------------------------------------------------------
(* The invariant.                                                          *)

\* A step keeps the invariant, and a loop it breaks was free to end.
KeepsChild == ChildInv' /\ (w.broken = "no" => Parting(State)')

LEMMA GoodBecome ==
  ASSUME NEW v, Good(v), w.broken = "no" => Parting(v), Become(v)
  PROVE  KeepsChild
<1>1. v \in ChildState /\ tab' = v.tab /\ cn' = v.cn /\ w' = v.w
  BY GoodParts DEF Become
<1>2. v = [tab |-> v.tab, cn |-> v.cn, w |-> v.w]
  BY <1>1 DEF ChildState
<1>3. [tab |-> tab', cn |-> cn', w |-> w'] = v
  BY <1>1, <1>2
<1> QED BY <1>3 DEF ChildInv, State, KeepsChild

LEMMA DecentBecome ==
  ASSUME NEW v, Decent(v), Become(v)
  PROVE  KeepsChild
  BY GoodBecome DEF Decent

LEMMA HandleIs ==
  ASSUME NEW s, Good(s), s.w.cur = None, s.w.broken = "no", NEW c \in Conns,
         s.cn[c].life = "held", s.cn[c].phase = "read", fpm_direct_handle(s, c)
  PROVE  KeepsChild
<1> DEFINE q == fpm_http_direct_conns_request(s.tab, Gone(s), c)
           p == Called(s, q, c)
           e == Entering(p)
<1>1. Received(s, q, c)
  BY ReceivedIs
<1>2. \/ Become(SendError(p, c))
      \/ ~q.over /\ \/ Become(SendError(e, c)) \/ Become(LocalReply(e, c))
                    \/ Become(fpm_direct_try_static(e, c)) \/ Become(RunPHP(e, c))
      \/ ~q.over /\ ~s.w.stopping /\ Become([e EXCEPT !.w.broken = "exit"])
  <2>1. p.w = s.w
    BY <1>1, CalledIs, SMTT(60)
  <2>2. \/ Become(SendError(p, c))
        \/ ~q.over /\ ~p.w.stopping /\
             \/ Become(SendError(e, c)) \/ Become(LocalReply(e, c))
             \/ Become(fpm_direct_try_static(e, c)) \/ Become(RunPHP(e, c))
             \/ Become([e EXCEPT !.w.broken = "exit"])
    BY DEF fpm_direct_handle, Called, Entering
  <2> HIDE DEF q, p, e
  <2> QED BY <2>1, <2>2
<1> HIDE DEF q
<1>3. Asked(s, p, q, c) /\ Asked(s, e, q, c)
  BY <1>1, AskedIs
<1> HIDE DEF p, e
<1>4. Decent(SendError(p, c)) /\ Decent(SendError(e, c)) /\ (~q.over => Decent(LocalReply(e, c)))
  BY <1>1, <1>3, AnswerErrorIs
<1>5. ~q.over => Decent(fpm_direct_try_static(e, c)) /\ Decent(RunPHP(e, c))
  BY <1>1, <1>3, StaticIs, RunIs
<1>6. ~q.over /\ ~s.w.stopping => Decent([e EXCEPT !.w.broken = "exit"])
  BY <1>1, <1>3, ExitIs
<1> QED BY <1>2, <1>4, <1>5, <1>6, DecentBecome

LEMMA StateIs ==
  State.tab = tab /\ State.cn = cn /\ State.w = w
  BY DEF State

LEMMA ScriptInv ==
  ASSUME ChildInv, NEW c \in Conns, Stream(c) \/ Cut(c) \/ fpmng_respond(c) \/ ScriptEnds(c)
  PROVE  KeepsChild
<1>1. Good(State) /\ State.w = w
  BY StateIs DEF ChildInv
<1>2. CASE Stream(c)
  <2>1. State.w.cur = c /\ State.w.script = "run" /\ Become(fpm_direct_stream_begin(State, c))
    BY <1>1, <1>2 DEF Stream, Script
  <2> QED BY <1>1, <2>1, StreamIs, DecentBecome
<1>3. CASE Cut(c)
  <2>1. State.w.cur = c /\ State.w.script = "stream" /\ Become(fpm_direct_stream_abort(State, c))
    BY <1>1, <1>3 DEF Cut, Script
  <2> QED BY <1>1, <2>1, CutIs, DecentBecome
<1>4. CASE fpmng_respond(c)
  <2>1. /\ State.w.cur = c
        /\ \/ /\ State.w.script = "run"
              /\ \E late \in Moments :
                   Become([fpm_direct_send_buffered(State, c, late) EXCEPT !.w.script = "responded"])
           \/ /\ State.w.script = "stream"
              /\ \E s \in fpm_direct_stream_finish(fpm_direct_retire(State), c) :
                   Become([s EXCEPT !.w.script = "responded"])
    BY <1>1, <1>4 DEF fpmng_respond, Script
  <2> QED BY <1>1, <2>1, RespondRunIs, RespondStreamIs, DecentBecome
<1>5. CASE ScriptEnds(c)
  <2> DEFINE s == [State EXCEPT !.w.cur = None, !.w.script = "none"]
             T(t, late) == fpm_direct_tick_body([t EXCEPT !.w.script = "none"], FALSE, "handler", late)
  <2>1. PICK late \in Moments :
           \/ State.w.script = "run" /\ Become(fpm_direct_send_buffered(s, c, late))
           \/ /\ State.w.script = "stream"
              /\ \E t \in fpm_direct_stream_finish(fpm_direct_retire(s), c) : Become(T(t, late))
           \/ State.w.script = "cut" /\ Become(T(fpm_direct_retire(s), late))
           \/ State.w.script = "responded" /\ Become(T(s, late))
    BY <1>1, <1>5 DEF ScriptEnds
  <2>2. State.w.cur = c
    BY <1>1, <1>5 DEF ScriptEnds, Script
  <2>3. CASE State.w.script = "run" /\ Become(fpm_direct_send_buffered(s, c, late))
    <3>1. Decent(fpm_direct_send_buffered(s, c, late))
      BY <1>1, <2>2, <2>3, ScriptEndsRun
    <3> QED BY <2>3, <3>1, DecentBecome
  <2>4. CASE /\ State.w.script = "stream"
             /\ \E t \in fpm_direct_stream_finish(fpm_direct_retire(s), c) : Become(T(t, late))
    <3>1. PICK t \in fpm_direct_stream_finish(fpm_direct_retire(s), c) : Become(T(t, late))
      BY <2>4
    <3>2. Decent(T(t, late))
      BY <1>1, <2>2, <2>4, ScriptEndsStream
    <3> QED BY <3>1, <3>2, DecentBecome
  <2>5. ASSUME NEW t, t = s \/ t = fpm_direct_retire(s), State.w.script # "run", Become(T(t, late))
        PROVE  KeepsChild
    <3>1. Good(T(t, late)) /\ (State.w.broken = "no" => Parting(T(t, late)))
      BY <1>1, <2>2, <2>5, ScriptEndsAnswered
    <3> QED BY <1>1, <2>5, <3>1, GoodBecome
  <2> QED BY <2>1, <2>3, <2>4, <2>5
<1> QED BY <1>2, <1>3, <1>4, <1>5

LEMMA TableInv ==
  ASSUME ChildInv, NEW c \in Conns,
         Accept(c) \/ Pickup(c) \/ fpm_direct_conn_eof(c) \/ FirstByte(c)
           \/ fpm_direct_conn_deadline_fire(c)
  PROVE  KeepsChild
<1>1. Good(State) /\ State.w = w /\ State.tab = tab /\ State.cn = cn
  BY StateIs DEF ChildInv
<1>2. State.w.cur = None /\ State.w.broken = "no"
  BY <1>1 DEF Accept, Pickup, fpm_direct_conn_eof, FirstByte, fpm_direct_conn_deadline_fire, Loop
<1>3. CASE Accept(c)
  <2> DEFINE r == [State EXCEPT !.cn[c].life = "held", !.w.listener = "off",
                                !.tab = fpm_http_direct_conns_accepted(@, Gone(State), c)]
  <2>1. State.w.listener = "on" /\ State.cn[c].life = "queue" /\ Become(r)
    BY <1>1, <1>3 DEF Accept, fpm_direct_accept_close_gate
  <2>2. Decent(r)
    BY <1>1, <1>2, <2>1, AcceptIs
  <2> QED BY <2>1, <2>2, DecentBecome
<1>4. CASE Pickup(c)
  <2>1. c \in Tracked(State.tab) /\ State.tab.node[c].watch = "pickup"
    BY <1>1, <1>4 DEF Pickup
  <2> DEFINE p == fpm_direct_conn_pickup(State.tab, Gone(State), c)
             a == [State EXCEPT !.tab = p.t, !.cn[c].closing = @ \/ p.over]
             b(where) == [State EXCEPT !.tab = fpm_direct_conn_forget(p.t, c),
                                       !.w.stale = TRUE, !.w.broken = where]
             g == [State EXCEPT !.tab.node[c] = [State.tab.node[c] EXCEPT !.fd = TRUE, !.checked = TRUE,
                                                                          !.watch = "eof"]]
             f == [State EXCEPT !.tab = fpm_direct_conn_forget(@, c)]
  <2>2. \/ c \in Tracked(p.t) /\ Become(a)
        \/ c \notin Tracked(p.t) /\ \E where \in {"no", "loop"} : Become(b(where))
        \/ State.cn[c].life = "gone" /\ Become(g)
        \/ State.cn[c].life = "gone" /\ Become(f)
    BY <1>1, <1>4 DEF Pickup
  <2>3. CASE c \in Tracked(p.t) /\ Become(a)
    <3>1. Decent(a)
      BY <1>1, <1>2, <2>1, <2>3, PickedUp
    <3> QED BY <2>3, <3>1, DecentBecome
  <2>4. CASE c \notin Tracked(p.t) /\ \E where \in {"no", "loop"} : Become(b(where))
    <3>1. PICK where \in {"no", "loop"} : Become(b(where))
      BY <2>4
    <3>2. Decent(b(where))
      BY <1>1, <1>2, <2>1, <2>4, PickedUpStale
    <3> QED BY <3>1, <3>2, DecentBecome
  <2>5. CASE State.cn[c].life = "gone" /\ Become(g)
    <3>1. Decent(g)
      BY <1>1, <1>2, <2>1, <2>5, PickedUpGone
    <3> QED BY <2>5, <3>1, DecentBecome
  <2>6. CASE State.cn[c].life = "gone" /\ Become(f)
    <3>1. Decent(f)
      BY <1>1, <1>2, <2>6, EofIs
    <3> QED BY <2>6, <3>1, DecentBecome
  <2> QED BY <2>2, <2>3, <2>4, <2>5, <2>6
<1>5. CASE fpm_direct_conn_eof(c)
  <2> DEFINE r == [State EXCEPT !.tab = fpm_direct_conn_forget(@, c)]
  <2>1. \/ State.cn[c].life = "gone" /\ Become(r)
        \/ Become(PeerLeaves(r, c))
    BY <1>1, <1>5 DEF fpm_direct_conn_eof
  <2>2. (State.cn[c].life = "gone" => Decent(r)) /\ Decent(PeerLeaves(r, c))
    BY <1>1, <1>2, EofIs
  <2> QED BY <2>1, <2>2, DecentBecome
<1>6. CASE FirstByte(c)
  <2> DEFINE r == [State EXCEPT !.tab = fpm_direct_conn_forget(@, c)]
             a == [State EXCEPT !.tab = fpm_direct_conn_arm_deadline([State.tab EXCEPT !.node[c].watch = "off"], c)]
  <2>1. c \in Tracked(State.tab)
    BY <1>1, <1>6 DEF FirstByte
  <2>2. \/ State.cn[c].life = "gone" /\ Become(r)
        \/ State.cn[c].life = "held" /\ Become(a)
        \/ Become(PeerLeaves(r, c))
    <3>1. c \in Gone(State) <=> State.cn[c].life = "gone"
      BY DEF Gone
    <3> QED BY <1>1, <1>6, <3>1, SMTT(30) DEF FirstByte, fpm_direct_conn_first_byte
  <2>3. (State.cn[c].life = "gone" => Decent(r)) /\ Decent(PeerLeaves(r, c))
    BY <1>1, <1>2, EofIs
  <2>4. Decent(a)
    BY <1>1, <1>2, <2>1, ArmedIs
  <2> QED BY <2>2, <2>3, <2>4, DecentBecome
<1>7. CASE fpm_direct_conn_deadline_fire(c)
  <2> DEFINE r == [State EXCEPT !.tab = fpm_direct_conn_forget(@, c),
                                !.cn[c].closing = @ \/ State.cn[c].life = "held"]
  <2>1. c \in Tracked(State.tab) /\ Become(r)
    BY <1>1, <1>7 DEF fpm_direct_conn_deadline_fire
  <2>2. Decent(r)
    BY <1>1, <1>2, <2>1, DeadlineIs
  <2> QED BY <2>1, <2>2, DecentBecome
<1> QED BY <1>3, <1>4, <1>5, <1>6, <1>7

LEMMA EvhttpInv ==
  ASSUME ChildInv, NEW c \in Conns, Read(c) \/ ReadAhead(c) \/ ReplyDone(c) \/ LetGo(c)
  PROVE  KeepsChild
<1>1. Good(State) /\ State.w = w /\ State.tab = tab /\ State.cn = cn
  BY StateIs DEF ChildInv
<1>2. State.w.cur = None /\ State.w.broken = "no" /\ State.cn[c].life = "held"
  BY <1>1 DEF Read, ReadAhead, ReplyDone, LetGo, Loop
<1>3. State.cn[c].buf \in Nat /\ State.cn[c].sock \in Nat /\ State.cn \in [Conns -> Connection]
  BY <1>1, GoodParts DEF Connection
<1>4. CASE Read(c)
  <2> DEFINE all == State.cn[c].buf + State.cn[c].sock
             n == IF all >= 2 THEN all - 2 ELSE all
             r == [State EXCEPT !.cn[c].sock = 0, !.cn[c].buf = n]
  <2>1. n \in Nat
    BY <1>3, SMTT(30)
  <2>2. State.cn[c].phase = "read" /\ (fpm_direct_handle(r, c) \/ Become(r))
    BY <1>1, <1>4 DEF Read
  <2> HIDE DEF n
  <2>3. Decent(r)
    BY <1>1, <1>2, <2>1, ReadIs
  <2>5. Good(r)
    BY <2>3 DEF Decent
  <2>4. r.w = State.w /\ r.cn[c].life = State.cn[c].life /\ r.cn[c].phase = State.cn[c].phase
    BY <1>1, <1>3, GoodParts, SMTT(30) DEF ChildState, Connection
  <2> HIDE DEF r
  <2> QED BY <1>2, <2>2, <2>3, <2>4, <2>5, HandleIs, DecentBecome
<1>5. CASE ReadAhead(c)
  <2> DEFINE n == State.cn[c].buf + State.cn[c].sock
             r == [State EXCEPT !.cn[c].sock = 0, !.cn[c].buf = n]
  <2>1. Become(r) /\ n \in Nat
    BY <1>1, <1>3, <1>5, SMTT(30) DEF ReadAhead
  <2> HIDE DEF n
  <2>2. Decent(r)
    BY <1>1, <1>2, <2>1, ReadIs
  <2> QED BY <2>1, <2>2, DecentBecome
<1>6. CASE ReplyDone(c)
  <2> DEFINE s == IF State.cn[c].done = "response" THEN fpm_direct_response_done(State, c)
                                                   ELSE fpm_direct_budget_restart(State, c)
             f == [s EXCEPT !.cn[c] = Freed]
             r == [s EXCEPT !.cn[c].phase = "read", !.cn[c].done = "none"]
  <2>1. State.cn[c].done \in {"budget", "response"}
    BY <1>1, <1>3, <1>6 DEF ReplyDone, Connection
  <2>2. State.cn[c].phase = "reply" /\ (Become(f) \/ Become(r))
    BY <1>1, <1>6, <2>1 DEF ReplyDone
  <2>3. Completed(State, s, c)
    BY <1>1, <2>1, CompletedBudget, CompletedResponse
  <2> HIDE DEF s
  <2>4. Decent(f) /\ Decent(r)
    BY <1>1, <1>2, <2>2, <2>3, CompletedStep
  <2> QED BY <2>2, <2>4, DecentBecome
<1>7. CASE LetGo(c)
  <2> DEFINE s == IF State.cn[c].closecb THEN fpm_direct_response_closed(State, c) ELSE State
             r == [s EXCEPT !.cn[c] = Freed]
  <2>1. Become(r)
    BY <1>1, <1>7 DEF LetGo
  <2>2. Decent(r)
    BY <1>1, <1>2, LetGoIs
  <2> QED BY <2>1, <2>2, DecentBecome
<1> QED BY <1>4, <1>5, <1>6, <1>7

LEMMA ChildInit == Init => ChildInv
<1> SUFFICES ASSUME Init PROVE Good(State)
  BY DEF ChildInv
<1>1. PICK limits \in Configured : tab = fpm_http_direct_conns_new(limits)
  BY DEF Init
<1>2. limits \in Limits
  BY DirectChildAssumption
<1>3. /\ tab \in Table /\ tab.limits = limits /\ tab.list = <<>>
  BY <1>1, <1>2, FreshTyped, SMTT(30) DEF fpm_http_direct_conns_new, Table
<1>4. Tracked(tab) = {} /\ Len(tab.list) = 0
  BY <1>3, SMTT(30) DEF Tracked, Range
<1>5. ASSUME NEW c \in Conns PROVE Queued(c) \in Connection
  <2>1. Units[c] \in Nat
    BY DirectChildAssumption
  <2> QED BY <2>1 DEF Queued, Connection
<1>6. cn \in [Conns -> Connection] /\ \A c \in Conns : cn[c] = Queued(c)
  BY <1>5 DEF Init
<1>7. /\ w \in Worker /\ w.pending = 0 /\ w.paused = FALSE /\ w.cur = None /\ w.script = "none"
      /\ w.broken = "no"
  BY DEF Init, Worker
<1>8. State \in ChildState /\ State.tab = tab /\ State.cn = cn /\ State.w = w
  BY <1>3, <1>6, <1>7 DEF State, ChildState
<1>9. \A c \in Conns : /\ cn[c].life = "queue" /\ cn[c].phase = "read" /\ ~cn[c].closecb
                       /\ cn[c].done = "none"
  BY <1>6, SMTT(60) DEF Queued
<1>10. \A c \in Conns : Proper(cn[c]) /\ Covered(tab, cn[c], c)
  BY <1>4, <1>9 DEF Proper, Covered, Kept
<1>11. Awaited(cn) = {} /\ Cardinality(Awaited(cn)) = 0
  BY <1>9, FS_EmptySet DEF Awaited
<1>12. limits.max \in Nat /\ limits.per_client \in Nat
  BY <1>2, LimitsAre
<1>13. Gated(tab, w)
  BY <1>3, <1>4, <1>7, <1>12, SMTT(60) DEF Gated
<1>14. Judged(tab, cn)
  <2>1. \A k : Admitted(tab, cn, k) = {}
    BY <1>4 DEF Admitted
  <2>2. \A k : Cardinality(Admitted(tab, cn, k)) = 0
    BY <2>1, FS_EmptySet
  <2> QED BY <1>3, <1>4, <1>12, <2>2, SMTT(60) DEF Judged
<1>15. Sound(State)
  BY <1>3, <1>7, <1>8, <1>10, <1>11, <1>13, <1>14 DEF Sound
<1>16. Running(State) /\ Left(State)
  BY <1>7, <1>8, <1>9 DEF Running, Left
<1> QED BY <1>15, <1>16 DEF Good

LEMMA ChildStep ==
  ASSUME ChildInv, Next
  PROVE  KeepsChild
<1>1. Good(State) /\ State.w = w /\ State.tab = tab /\ State.cn = cn
  BY StateIs DEF ChildInv
<1>3. ASSUME NEW c \in Conns, OfConnection(c) PROVE KeepsChild
  BY <1>3, ScriptInv, TableInv, EvhttpInv DEF OfConnection
<1>4. ASSUME NEW c \in Conns, Send(c) PROVE KeepsChild
  <2> DEFINE r == [State EXCEPT !.cn[c].sock = @ + 1, !.cn[c].left = @ - 1]
  <2>1. State.cn[c].left > 0 /\ Become(r)
    BY <1>1, <1>4 DEF Send
  <2>2. Good(r) /\ (State.w.broken = "no" => Parting(r))
    BY <1>1, <2>1, SendIs
  <2> QED BY <1>1, <2>1, <2>2, GoodBecome
<1>5. CASE fpm_direct_tick
  <2>1. PICK late \in Moments : OneTick(late)
    BY <1>5 DEF fpm_direct_tick
  <2> DEFINE r == fpm_direct_tick_body(State, TRUE, "loop", late)
  <2>2. State.w.cur = None /\ Become(r)
    BY <1>1, <2>1 DEF OneTick, Loop
  <2>3. Good(r) /\ (State.w.broken = "no" => Parting(r))
    BY <1>1, <2>2, LoopTickIs
  <2> QED BY <1>1, <2>2, <2>3, GoodBecome
<1>6. CASE fpm_http_accept_backoff_error
  <2> DEFINE r == [State EXCEPT !.w.listener = "off", !.w.paused = TRUE]
  <2>1. State.w.broken = "no" /\ Become(r)
    BY <1>1, <1>6 DEF fpm_http_accept_backoff_error, Loop
  <2>2. Decent(r)
    BY <1>1, <2>1, BackoffIs
  <2> QED BY <2>1, <2>2, DecentBecome
<1>7. CASE fpm_http_accept_backoff_resume
  <2> DEFINE r == Resumed([State EXCEPT !.w.paused = FALSE])
  <2>1. State.w.broken = "no" /\ Become(r)
    BY <1>1, <1>7 DEF fpm_http_accept_backoff_resume, Loop, Resumed
  <2>2. Decent(r)
    BY <1>1, <2>1, PauseOverIs
  <2> QED BY <2>1, <2>2, DecentBecome
<1>8. CASE fpm_direct_stop
  <2>1. State.w.broken = "no" /\ Become([State EXCEPT !.w.stopping = TRUE])
    BY <1>1, <1>8 DEF fpm_direct_stop
  <2> QED BY <1>1, <2>1, StopIs, DecentBecome
<1>9. CASE fpm_direct_retire_signal
  <2>1. State.w.broken = "no" /\ Become([State EXCEPT !.w.retiring = TRUE])
    BY <1>1, <1>9 DEF fpm_direct_retire_signal
  <2> QED BY <1>1, <2>1, RetireSignalIs, DecentBecome
<1>10. CASE GraceOver
  <2>1. State.w.broken = "no" /\ Become([State EXCEPT !.w.grace = "over"])
    BY <1>1, <1>10 DEF GraceOver
  <2> QED BY <1>1, <2>1, GraceOverIs, DecentBecome
<1> QED BY <1>3, <1>4, <1>5, <1>6, <1>7, <1>8, <1>9, <1>10 DEF Next

LEMMA ChildNext == ChildInv /\ [Next]_vars => ChildInv'
<1>1. ASSUME ChildInv, UNCHANGED vars PROVE ChildInv'
  BY <1>1 DEF ChildInv, State, vars
<1> QED BY <1>1, ChildStep DEF KeepsChild

LEMMA ChildImplies == ChildInv => TableSound /\ PendingSound
<1> SUFFICES ASSUME ChildInv PROVE TableSound /\ PendingSound
  OBVIOUS
<1>1. Good(State) /\ State.w = w /\ State.tab = tab /\ State.cn = cn
  BY StateIs DEF ChildInv
<1>2. /\ Sound(State) /\ Left(State) /\ tab \in Table /\ cn \in [Conns -> Connection] /\ w \in Worker
      /\ Gated(tab, w) /\ Judged(tab, cn) /\ \A c \in Conns : Covered(tab, cn[c], c)
  BY <1>1, GoodParts
<1>3. /\ tab.list \in Seq(Conns) /\ Len(tab.list) \in Nat /\ IsFiniteSet(Tracked(tab))
      /\ Cardinality(Tracked(tab)) \in Nat /\ tab.limits.max \in Nat /\ tab.limits.per_client \in Nat
      /\ Tracked(tab) \subseteq Conns
  BY <1>2, TableParts, LimitsAre
<1>4. \A c \in Conns : Stays(c) <=> Kept(cn[c])
  BY DEF Stays, Kept
<1>5. ConnectionCap
  <2>1. {c \in Conns : Stays(c)} \subseteq Tracked(tab)
    BY <1>2, <1>4 DEF Covered
  <2>2. /\ Cardinality({c \in Conns : Stays(c)}) <= Cardinality(Tracked(tab))
        /\ IsFiniteSet({c \in Conns : Stays(c)})
    BY <1>3, <2>1, FS_Subset
  <2>3. Cardinality({c \in Conns : Stays(c)}) \in Nat
    BY <2>2, FS_CardinalityType
  <2>4. Cardinality(Tracked(tab)) <= Len(tab.list)
    BY <1>3, NamesBounded DEF Tracked
  <2>5. tab.limits.max > 0 => Len(tab.list) <= tab.limits.max
    BY <1>2 DEF Gated
  <2> QED BY <1>3, <2>2, <2>3, <2>4, <2>5, SMTT(30) DEF ConnectionCap
<1>6. ClientCap
  <2> SUFFICES ASSUME tab.limits.per_client > 0, NEW c \in Conns
               PROVE  Cardinality({d \in Tracked(tab) : /\ Client[d] = Client[c] /\ tab.node[d].served
                                                        /\ cn[d].life = "held"}) <= tab.limits.per_client
    BY DEF ClientCap
  <2> DEFINE S == {d \in Tracked(tab) : /\ Client[d] = Client[c] /\ tab.node[d].served
                                        /\ cn[d].life = "held"}
             A == Admitted(tab, cn, Client[c])
  <2>1. S \subseteq A /\ Cardinality(A) <= tab.limits.per_client
    BY <1>2 DEF Admitted, Judged
  <2>2. IsFiniteSet(A)
    BY <1>3, FS_Subset DEF Admitted
  <2>3. IsFiniteSet(S) /\ Cardinality(S) <= Cardinality(A)
    BY <2>1, <2>2, FS_Subset
  <2>4. Cardinality(S) \in Nat /\ Cardinality(A) \in Nat
    BY <2>2, <2>3, FS_CardinalityType
  <2> HIDE DEF S, A
  <2>5. Cardinality(S) <= tab.limits.per_client
    BY <1>3, <2>1, <2>3, <2>4, SMTT(60)
  <2> QED BY <2>5 DEF S
<1>7. RequestWatched
  BY <1>2, <1>4 DEF RequestWatched, Covered
<1>8. TimerHasListener
  BY <1>2 DEF TimerHasListener, Gated
<1>9. TableSound
  BY <1>2, <1>5, <1>6, <1>7, <1>8 DEF TableSound, TypeOK
<1>10. PendingExact
  BY <1>1, <1>2 DEF PendingExact, Sound, Awaited
<1>11. StopLeavesNone
  BY <1>1, <1>2 DEF StopLeavesNone, Left
<1> QED BY <1>9, <1>10, <1>11 DEF PendingSound

LEMMA ChildSteps ==
  ChildInv /\ [Next]_vars =>
    [w.broken = "no" /\ LeftEarly' /\ w'.grace = "running" => ~Unserved']_vars
<1> SUFFICES ASSUME ChildInv, Next, w.broken = "no", LeftEarly', w'.grace = "running"
             PROVE  ~Unserved'
  OBVIOUS
<1>1. Parting(State)'
  BY ChildStep DEF KeepsChild
<1>2. State' = [tab |-> tab', cn |-> cn', w |-> w']
  BY DEF State
<1>3. State'.w = w' /\ State'.cn = cn'
  BY <1>2
<1>4. w'.pending = 0 /\ \A c \in Conns : ~Kept(cn'[c])
  BY <1>1, <1>3 DEF Parting, LeftEarly
<1>5. 0 = 0 /\ ~(0 > 0)
  BY SMT
<1> QED BY <1>4, <1>5 DEF Unserved, Stays, Kept

\* The loop, one callback at a time, keeps the invariant of the child.
THEOREM ChildTheorem == Spec => []ChildInv
  BY ChildInit, ChildNext, PTL DEF Spec

(* The table of an http-direct child: for any connections, clients,        *)
(* limits and bounds, neither limit on the connections is exceeded, no     *)
(* request is read without a deadline or the watcher that starts it, and   *)
(* the pause timer does not outlive the listener.                          *)
THEOREM TableTheorem == Spec => []TableSound
  BY ChildTheorem, ChildImplies, PTL

(* pending counts exactly the responses libevent still has, however each   *)
(* of them ends, and a child that stops does not leave one behind.         *)
THEOREM PendingTheorem == Spec => []PendingSound
  BY ChildTheorem, ChildImplies, PTL

(* A child that entered its retirement leaves the loop before its grace is *)
(* over only when it holds no connection and writes no response, wherever  *)
(* in a tick the signals land.                                             *)
THEOREM RetireTheorem == Spec => RetireKeepsConnections
  BY ChildTheorem, ChildSteps, PTL DEF Spec, RetireKeepsConnections

=============================================================================
