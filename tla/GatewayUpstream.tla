-------------------------- MODULE GatewayUpstream --------------------------
(***************************************************************************)
(* The gateway processes of one http pool and the connections they keep to *)
(* one target pool (fpm_http.c, fpm_http_upstream_timeout.c,               *)
(* fpm_http_backpressure.c, and the ends of a reply in fpm_http_fcgi.c and *)
(* fpm_http_client.c).                                                     *)
(*                                                                         *)
(* The processes share an admission budget in memory, one slot per         *)
(* connection, and the reclaim generation of the target; everything else   *)
(* is private and moved by one event loop.  A callback is one step, except *)
(* where it touches the shared words: the budget is taken and given back   *)
(* in two writes each, and the pump that hands waiting requests to         *)
(* connections reads the budget twice, so a process can be overtaken by    *)
(* its siblings, or killed, between them.                                  *)
(***************************************************************************)
EXTENDS Integers, Sequences, FiniteSets

CONSTANTS Procs,        \* the gateway processes
          Reqs,         \* client connections
          Configured,   \* the configurations of a pool
          MaxLost,      \* bound: processes killed and not replaced, plus slots leaked
          None

ASSUME GatewayUpstreamAssumption ==
  /\ IsFiniteSet(Procs) /\ IsFiniteSet(Reqs) /\ MaxLost \in Nat
  /\ None \notin Reqs
  /\ \E most \in Configured : \A k \in Configured : k.max <= most.max
  /\ \A k \in Configured : /\ k.policy \in {"wait", "reject"}
                           /\ k.transport \in {"fcgi", "http"}
                           /\ k.max \in Nat \ {0} /\ k.queue \in Nat
                           /\ k.idle \in BOOLEAN /\ k.clients \in [Procs -> SUBSET Reqs]

VARIABLES conf,     \* the configuration of the pool
          used,     \* *t->upstreams_used, shared
          behind,   \* the processes whose t->reclaim_seen is not *t->reclaim
          gw,       \* the processes
          leaked    \* slots a killed process left charged

vars == <<conf, used, behind, gw, leaked>>

Slots == UNION {1..k.max : k \in Configured}

(* conn: connecting.  cur: the request the connection answers.  served:    *)
(* the request the target works on.  whole: its reply has been read to its *)
(* end.  rd: ev_read is added.  dl: what the deadline timer runs for.      *)
Upstream == [on : BOOLEAN, conn : BOOLEAN, busy : BOOLEAN, cur : Reqs \cup {None},
             served : Reqs \cup {None}, whole : BOOLEAN, rd : BOOLEAN,
             dl : {"off", "connect", "read"}]

(* timer: wait_timer is pending.  head: nothing of the response is out, it *)
(* is, it is the gateway's own 502 (discard_upstream), or a piece of it    *)
(* was lost (chunk_lost).                                                  *)
Request == [st : {"none", "queued", "up"}, timer : BOOLEAN, paused : BOOLEAN,
            head : {"none", "sent", "discard", "lost"}]

(* pc: where the loop is.  half: a budget word is written, the other not.  *)
(* again: pump_again.  rearm: the tick that called the pump arms itself.   *)
(* lied: a client was told that a reply is complete, and it was not.       *)
Process == [alive : BOOLEAN, pc : {"loop", "tick", "pump", "connect", "unreachable", "full"},
            half : {"no", "take", "give"}, again : BOOLEAN, rearm : BOOLEAN,
            tick : BOOLEAN, lied : BOOLEAN, held : Nat, ups : [Slots -> Upstream],
            waiting : Seq(Reqs), rq : [Reqs -> Request]]

NoUpstream == [on |-> FALSE, conn |-> FALSE, busy |-> FALSE, cur |-> None,
               served |-> None, whole |-> FALSE, rd |-> FALSE, dl |-> "off"]

Ended == [st |-> "none", timer |-> FALSE, paused |-> FALSE, head |-> "none"]

Started == [alive |-> TRUE, pc |-> "loop", half |-> "no", again |-> FALSE,
            rearm |-> FALSE, tick |-> FALSE, lied |-> FALSE, held |-> 0,
            ups |-> [u \in Slots |-> NoUpstream], waiting |-> <<>>,
            rq |-> [c \in Reqs |-> Ended]]

Init ==
  /\ conf \in Configured
  /\ used = 0 /\ behind = {} /\ leaked = 0
  /\ gw = [p \in Procs |-> Started]

Ups(g) == {u \in Slots : g.ups[u].on}
nupstreams(g) == Cardinality(Ups(g))
Idle(g) == {u \in Ups(g) : ~g.ups[u].busy}
UpOf(g, c) == CHOOSE u \in Ups(g) : g.ups[u].cur = c
HasUp(g, c) == \E u \in Ups(g) : g.ups[u].cur = c

-----------------------------------------------------------------------------
(* The deadline of a connection and the pause of a response.               *)

deadline_arm(g, u) ==
  LET up == g.ups[u]
      paused == up.cur # None /\ g.rq[up.cur].paused
  IN  [g EXCEPT !.ups[u].dl = IF up.conn THEN "connect"
                              ELSE IF up.busy /\ ~paused THEN "read" ELSE "off"]

response_resume(g, c) ==
  LET unpaused == [g EXCEPT !.rq[c].paused = FALSE]
  IN  IF ~g.rq[c].paused THEN g
      ELSE IF ~HasUp(g, c) THEN unpaused
      ELSE deadline_arm([unpaused EXCEPT !.ups[UpOf(g, c)].rd = TRUE], UpOf(g, c))

response_pause(g, c) ==
  [g EXCEPT !.rq[c].paused = TRUE, !.ups[UpOf(g, c)].rd = FALSE,
            !.ups[UpOf(g, c)].dl = "off"]

-----------------------------------------------------------------------------
(* The ends of a request and of a connection.                              *)

Unlink(q, c) ==
  LET k == CHOOSE i \in 1..Len(q) : q[i] = c
  IN  IF \E i \in 1..Len(q) : q[i] = c
      THEN SubSeq(q, 1, k - 1) \o SubSeq(q, k + 1, Len(q)) ELSE q

conn_free(g, c) ==
  [g EXCEPT !.rq[c] = Ended, !.waiting = Unlink(@, c)]

\* The client's socket is shut down: it sees that its response is not whole.
finish_truncated(g, c) == conn_free(g, c)

\* evhttp_send_reply_end() tells the client that its response is whole.
SendEnd(g, c) ==
  [conn_free(g, c) EXCEPT !.lied = @ \/ ~HasUp(g, c) \/ ~g.ups[UpOf(g, c)].whole]

\* Mutant: the last piece of a read paused the connection, and stays so.
finish_StaysPaused(g, c) ==
  IF g.rq[c].head = "sent" THEN SendEnd(g, c) ELSE conn_free(g, c)

\* Without a head, and with the gateway's own, the client gets a 502.
finish(g, c) ==
  LET g1 == response_resume(g, c)
  IN  CASE g.rq[c].head = "lost" -> finish_truncated(g1, c)
        [] g.rq[c].head = "sent" -> SendEnd(g1, c)
        [] OTHER -> conn_free(g1, c)

reject_queued(g, c) == conn_free(g, c)   \* 503

\* Mutant: the connection is counted out when it is detached and when freed.
upstream_drop_Twice(g, u) ==
  [g EXCEPT !.ups[u] = NoUpstream, !.held = @ - 2, !.half = "give"]

\* The own gauge goes down here, the shared word in the step after.
upstream_drop(g, u) ==
  [g EXCEPT !.ups[u] = NoUpstream, !.held = @ - 1, !.half = "give"]

pump(g) ==
  IF g.pc = "loop" THEN [g EXCEPT !.pc = "pump"] ELSE [g EXCEPT !.again = TRUE]

tick_arm(g) == IF Cardinality(Procs) > 1 THEN [g EXCEPT !.tick = TRUE] ELSE g

\* Mutant: a reply lost after its head was sent is ended like a whole one.
EndCurrent_Ends(g, u, none) ==
  LET c == g.ups[u].cur
  IN  IF c = None THEN g
      ELSE IF g.rq[c].head # "none" THEN finish(g, c) ELSE none

\* What fail and the deadline have in common: nothing out, none says how.
EndCurrent(g, u, none) ==
  LET c == g.ups[u].cur
  IN  IF c = None THEN g
      ELSE IF g.rq[c].head \in {"sent", "lost"} THEN finish_truncated(g, c)
      ELSE IF g.rq[c].head = "discard" THEN finish(g, c)
      ELSE none

upstream_fail(g, u) ==
  LET c == g.ups[u].cur
  IN  pump(upstream_drop(EndCurrent(g, u, IF c = None THEN g ELSE finish(g, c)), u))

upstream_deadline_expired(g, u) ==
  LET c == g.ups[u].cur
      off == [g EXCEPT !.ups[u].dl = "off"]
  IN  pump(upstream_drop(EndCurrent(off, u, IF c = None THEN off
                                            ELSE conn_free(off, c)), u))   \* 504

\* Mutant: the connection is free and the queue is not looked at.
request_done_NoPump(g, u) ==
  LET c  == g.ups[u].cur
      g1 == IF c = None THEN g ELSE finish(g, c)
      g2 == [g1 EXCEPT !.ups[u].cur = None, !.ups[u].served = None,
                       !.ups[u].whole = FALSE, !.ups[u].busy = FALSE, !.ups[u].rd = @ \/ conf.idle]
  IN  tick_arm(deadline_arm(g2, u))

\* Mutant: the connection is idle and the reclaim generation is not polled.
request_done_NoTick(g, u) ==
  LET c  == g.ups[u].cur
      g1 == IF c = None THEN g ELSE finish(g, c)
      g2 == [g1 EXCEPT !.ups[u].cur = None, !.ups[u].served = None,
                       !.ups[u].whole = FALSE, !.ups[u].busy = FALSE, !.ups[u].rd = @ \/ conf.idle]
  IN  pump(deadline_arm(g2, u))

request_done(g, u) ==
  LET c  == g.ups[u].cur
      g1 == IF c = None THEN g ELSE finish(g, c)
      g2 == [g1 EXCEPT !.ups[u].cur = None, !.ups[u].served = None,
                       !.ups[u].whole = FALSE, !.ups[u].busy = FALSE, !.ups[u].rd = @ \/ conf.idle]
  IN  pump(tick_arm(deadline_arm(g2, u)))

\* A response that consumed its connection (expect_eof).
http_complete_eof(g, u) ==
  LET c == g.ups[u].cur IN pump(upstream_drop(finish(g, c), u))

\* Mutant: the connection of a client that left is free at once.
client_closed_Frees(g, c) ==
  LET g1 == response_resume(g, c)
      g2 == IF HasUp(g1, c) THEN [g1 EXCEPT !.ups[UpOf(g1, c)].cur = None,
                                            !.ups[UpOf(g1, c)].busy = FALSE]
            ELSE g1
  IN  conn_free(g2, c)

client_closed(g, c) ==
  LET g1 == response_resume(g, c)
      g2 == IF HasUp(g1, c) THEN [g1 EXCEPT !.ups[UpOf(g1, c)].cur = None] ELSE g1
  IN  conn_free(g2, c)

-----------------------------------------------------------------------------
(* The pump: hands waiting requests to connections, one at a time.         *)

Step(p, where) == gw[p].alive /\ gw[p].half = "no" /\ gw[p].pc = where

Become(p, v) == \E g \in {v} : gw' = [gw EXCEPT ![p] = g]

\* pump_target() returned: run again if asked to, else back to the loop.
PumpReturn(g) ==
  IF g.again THEN [g EXCEPT !.again = FALSE, !.pc = "pump"]
  ELSE LET back == [g EXCEPT !.pc = "loop", !.rearm = FALSE]
       IN  IF g.rearm THEN tick_arm(back) ELSE back

PumpEmpty(p) ==
  /\ Step(p, "pump") /\ gw[p].waiting = <<>>
  /\ Become(p, PumpReturn(gw[p]))
  /\ UNCHANGED <<conf, used, behind, leaked>>

Dispatched(g, u) ==
  LET c == Head(g.waiting)
  IN  deadline_arm([g EXCEPT !.waiting = Tail(g.waiting),
                             !.rq[c] = [g.rq[c] EXCEPT !.st = "up", !.timer = FALSE],
                             !.ups[u] = [g.ups[u] EXCEPT !.busy = TRUE, !.cur = c, !.served = c,
                                           !.rd = g.ups[u].rd \/ (conf.idle /\ ~g.ups[u].conn)]], u)

\* The write can fail on the spot, and the failure pumps again.
PumpDispatch(p) ==
  /\ Step(p, "pump") /\ gw[p].waiting # <<>> /\ Idle(gw[p]) # {}
  /\ LET u == CHOOSE v \in Idle(gw[p]) : TRUE IN
     \E fails \in {FALSE, ~gw[p].ups[u].conn} :
       Become(p, IF fails THEN upstream_fail(Dispatched(gw[p], u), u)
                 ELSE Dispatched(gw[p], u))
  /\ UNCHANGED <<conf, used, behind, leaked>>

\* Mutant: the budget admits one connection too many.
budget_take_OffByOne(p) ==
  /\ Step(p, "pump") /\ gw[p].waiting # <<>> /\ Idle(gw[p]) = {}
  /\ IF used > conf.max
     THEN used' = used /\ gw' = [gw EXCEPT ![p].pc = "full"]
     ELSE used' = used + 1 /\ gw' = [gw EXCEPT ![p].pc = "connect", ![p].half = "take"]
  /\ UNCHANGED <<conf, behind, leaked>>

\* The shared word first; the own gauge is the next step.
budget_take(p) ==
  /\ Step(p, "pump") /\ gw[p].waiting # <<>> /\ Idle(gw[p]) = {}
  /\ IF used >= conf.max
     THEN used' = used /\ gw' = [gw EXCEPT ![p].pc = "full"]
     ELSE used' = used + 1 /\ gw' = [gw EXCEPT ![p].pc = "connect", ![p].half = "take"]
  /\ UNCHANGED <<conf, behind, leaked>>

budget_taken(p) ==
  /\ gw[p].alive /\ gw[p].half = "take"
  /\ gw' = [gw EXCEPT ![p].held = @ + 1, ![p].half = "no"]
  /\ UNCHANGED <<conf, used, behind, leaked>>

budget_give_back(p) ==
  /\ gw[p].alive /\ gw[p].half = "give"
  /\ used' = IF used > 0 THEN used - 1 ELSE 0
  /\ gw' = [gw EXCEPT ![p].half = "no"]
  /\ UNCHANGED <<conf, behind, leaked>>

Connecting(g, inprogress) ==
  LET u == CHOOSE v \in Slots \ Ups(g) : TRUE
  IN  deadline_arm([g EXCEPT !.pc = "pump",
                             !.ups[u] = [NoUpstream EXCEPT !.on = TRUE, !.conn = inprogress,
                                                           !.rd = ~inprogress]], u)

\* The socket is connected or connecting, the target cannot be reached, or
\* the attempt failed for a reason that says nothing about the target.
transport_connect(p) ==
  /\ Step(p, "connect")
  /\ \/ \E inprogress \in BOOLEAN : Become(p, Connecting(gw[p], inprogress))
     \/ \E next \in {"unreachable", "full"} :
          gw' = [gw EXCEPT ![p].held = @ - 1, ![p].half = "give", ![p].pc = next]
  /\ UNCHANGED <<conf, used, behind, leaked>>

Least(a, b) == IF a <= b THEN a ELSE b

RejectFrom(g, from) ==
  [g EXCEPT !.waiting = SubSeq(@, 1, Least(from - 1, Len(@))),
            !.rq = [c \in Reqs |-> IF \E i \in from..Len(g.waiting) : g.waiting[i] = c
                                   THEN Ended ELSE @[c]]]

PumpUnreachable(p) ==
  /\ Step(p, "unreachable")
  /\ Become(p, IF conf.policy = "wait" /\ nupstreams(gw[p]) > 0
               THEN [gw[p] EXCEPT !.pc = "full"]
               ELSE PumpReturn(RejectFrom(gw[p], 1)))
  /\ UNCHANGED <<conf, used, behind, leaked>>

siblings_hold(p) == Cardinality(Procs) > 1 /\ used > gw[p].held

\* One queued request per slot of the target gets the grace timer.
Graced(g) ==
  LET kept == {g.waiting[i] : i \in 1..Least(conf.max, Len(g.waiting))}
  IN  [g EXCEPT !.rq = [c \in Reqs |-> IF c \in kept THEN [@[c] EXCEPT !.timer = TRUE]
                                       ELSE @[c]]]

\* Mutant: the default policy keeps the queue for the siblings, without a bound.
PumpFull_NoGrace(p) ==
  /\ Step(p, "full")
  /\ IF siblings_hold(p)
     THEN /\ behind' = Procs
          /\ LET g == tick_arm(gw[p])
             IN  Become(p, PumpReturn(IF conf.policy = "wait" THEN g
                                      ELSE RejectFrom(g, conf.max + 1)))
     ELSE /\ behind' = behind
          /\ Become(p, PumpReturn(IF conf.policy = "wait" THEN gw[p]
                                  ELSE RejectFrom(gw[p], 1)))
  /\ UNCHANGED <<conf, used, leaked>>

PumpFull(p) ==
  /\ Step(p, "full")
  /\ IF siblings_hold(p)
     THEN /\ behind' = Procs
          /\ LET g == tick_arm(gw[p])
             IN  Become(p, PumpReturn(IF conf.policy = "wait" THEN g
                                      ELSE RejectFrom(Graced(g), conf.max + 1)))
     ELSE /\ behind' = behind
          /\ Become(p, PumpReturn(IF conf.policy = "wait" THEN gw[p]
                                  ELSE RejectFrom(gw[p], 1)))
  /\ UNCHANGED <<conf, used, leaked>>

-----------------------------------------------------------------------------
(* The tick: gives idle connections back to a sibling that asked.          *)

TickPump(g) ==
  [g EXCEPT !.pc = "pump", !.rearm = nupstreams(g) > 0 \/ g.waiting # <<>>]

tick(p) ==
  /\ Step(p, "loop") /\ gw[p].tick
  /\ LET g == [gw[p] EXCEPT !.tick = FALSE]
     IN  Become(p, IF p \in behind THEN [g EXCEPT !.pc = "tick"] ELSE TickPump(g))
  /\ behind' = behind \ {p}
  /\ UNCHANGED <<conf, used, leaked>>

tick_target(p) ==
  /\ Step(p, "tick")
  /\ LET spare == {u \in Idle(gw[p]) : ~gw[p].ups[u].conn}
     IN  Become(p, IF spare = {} THEN TickPump(gw[p]) ELSE upstream_drop(gw[p], CHOOSE u \in spare : TRUE))
  /\ UNCHANGED <<conf, used, behind, leaked>>

-----------------------------------------------------------------------------
(* The callbacks of the event loop.                                        *)

Loop(p) == Step(p, "loop")
Shared == <<conf, used, behind, leaked>>

\* fpm_http_dispatch(): refused while it is written, refused at the cap of
\* the queue, or queued and pumped.
dispatch(p, c) ==
  /\ Loop(p) /\ c \in conf.clients[p] /\ gw[p].rq[c].st = "none"
  /\ LET queued == [Ended EXCEPT !.st = "queued", !.timer = conf.policy = "wait"]
     IN  \/ gw' = [gw EXCEPT ![p].rq[c] = Ended]
         \/ Become(p, IF conf.policy = "wait" /\ Len(gw[p].waiting) >= conf.queue
                      THEN reject_queued(gw[p], c)
                      ELSE pump([gw[p] EXCEPT !.rq[c] = queued, !.waiting = Append(@, c)]))
  /\ UNCHANGED Shared

wait_expired(p, c) ==
  /\ Loop(p) /\ gw[p].rq[c].timer
  /\ Become(p, reject_queued(gw[p], c))
  /\ UNCHANGED Shared

\* The non-blocking connect completed.
writecb(p, u) ==
  /\ Loop(p) /\ gw[p].ups[u].on /\ gw[p].ups[u].conn
  /\ Become(p, deadline_arm([gw[p] EXCEPT !.ups[u].conn = FALSE, !.ups[u].rd = TRUE], u))
  /\ UNCHANGED Shared

\* EOF or an error on the connection, read or written.
UpstreamEnds(p, u) ==
  /\ Loop(p) /\ gw[p].ups[u].on
  /\ gw[p].ups[u].rd \/ gw[p].ups[u].conn \/ gw[p].ups[u].busy
  /\ Become(p, upstream_fail(gw[p], u))
  /\ UNCHANGED Shared

deadline_fire(p, u) ==
  /\ Loop(p) /\ gw[p].ups[u].dl # "off"
  /\ Become(p, upstream_deadline_expired(gw[p], u))
  /\ UNCHANGED Shared

idle_timeout(p, u) ==
  /\ Loop(p) /\ conf.idle /\ u \in Idle(gw[p]) /\ gw[p].ups[u].rd
  /\ Become(p, upstream_drop(gw[p], u))
  /\ UNCHANGED Shared

Readable(p, u) ==
  /\ Loop(p)
  /\ LET up == gw[p].ups[u] IN up.on /\ up.busy /\ ~up.conn /\ up.rd

\* The head of a reply: good, or one the gateway replaces by its own 502.
ReplyHead(p, u) ==
  /\ Readable(p, u)
  /\ LET c == gw[p].ups[u].cur
     IN  /\ c # None /\ gw[p].rq[c].head = "none"
         /\ \E h \in {"sent", "discard"} : gw' = [gw EXCEPT ![p].rq[c].head = h]
  /\ UNCHANGED Shared

\* A piece that crosses http.response_buffer, or one that is lost.
ReplyBody(p, u) ==
  /\ Readable(p, u)
  /\ LET c == gw[p].ups[u].cur
     IN  /\ c # None /\ gw[p].rq[c].head = "sent"
         /\ \/ Become(p, response_pause(gw[p], c))
            \/ gw' = [gw EXCEPT ![p].rq[c].head = "lost"]
  /\ UNCHANGED Shared

\* Bytes of an HTTP reply whose client has left.
ReplyUnowned(p, u) ==
  /\ Readable(p, u) /\ conf.transport = "http" /\ gw[p].ups[u].cur = None
  /\ Become(p, upstream_fail(gw[p], u))
  /\ UNCHANGED Shared

\* The reply is over.  Its last piece may have paused the connection.
ReplyEnd(p, u) ==
  /\ Readable(p, u)
  /\ LET c == gw[p].ups[u].cur
         head == IF c = None THEN "none" ELSE gw[p].rq[c].head
     IN  /\ conf.transport = "http" => head # "none"
         /\ \E crossing \in {FALSE, head = "sent"}, eof \in {FALSE, conf.transport = "http"} :
              LET end == [gw[p] EXCEPT !.ups[u].whole = TRUE]
                  g == IF crossing THEN response_pause(end, c) ELSE end
              IN  Become(p, IF eof THEN http_complete_eof(g, u) ELSE request_done(g, u))
  /\ UNCHANGED Shared

\* 101: the socket goes to the WebSocket relay and its slot back.
gw_ws_start(p, u) ==
  /\ Readable(p, u) /\ conf.transport = "http"
  /\ LET c == gw[p].ups[u].cur
     IN  /\ c # None /\ gw[p].rq[c].head = "none"
         /\ Become(p, pump(upstream_drop(conn_free(gw[p], c), u)))
  /\ UNCHANGED Shared

response_drained(p, c) ==
  /\ Loop(p) /\ gw[p].rq[c].paused
  /\ Become(p, response_resume(gw[p], c))
  /\ UNCHANGED Shared

ClientCloses(p, c) ==
  /\ Loop(p) /\ gw[p].rq[c].st # "none"
  /\ Become(p, client_closed(gw[p], c))
  /\ UNCHANGED Shared

-----------------------------------------------------------------------------
(* A process is killed; the master takes back what its gauge says and      *)
(* starts another, whose reclaim_seen is that of the master: zero.         *)

Kill(p) ==
  /\ gw[p].alive /\ Cardinality({q \in Procs : ~gw[q].alive}) + leaked < MaxLost
  /\ gw' = [gw EXCEPT ![p] = [Started EXCEPT !.alive = FALSE, !.held = gw[p].held]]
  /\ leaked' = leaked + (IF gw[p].half = "no" THEN 0 ELSE 1)
  /\ UNCHANGED <<conf, used, behind>>

\* Mutant: the slots of a process that is gone stay charged.
counters_process_gone_Keeps(p) ==
  /\ ~gw[p].alive
  /\ used' = used
  /\ gw' = [gw EXCEPT ![p] = Started]
  /\ behind' \in {behind \cup {p}, behind \ {p}}
  /\ UNCHANGED <<conf, leaked>>

counters_process_gone(p) ==
  /\ ~gw[p].alive
  /\ used' = IF used > gw[p].held THEN used - gw[p].held ELSE 0
  /\ gw' = [gw EXCEPT ![p] = Started]
  /\ behind' \in {behind \cup {p}, behind \ {p}}
  /\ UNCHANGED <<conf, leaked>>

Pump(p) ==
  \/ PumpEmpty(p) \/ PumpDispatch(p) \/ budget_take(p) \/ budget_taken(p)
  \/ budget_give_back(p) \/ transport_connect(p) \/ PumpUnreachable(p)
  \/ PumpFull(p) \/ tick_target(p)

Next == \E p \in Procs :
  \/ Pump(p) \/ tick(p) \/ Kill(p) \/ counters_process_gone(p)
  \/ \E c \in Reqs : \/ dispatch(p, c) \/ wait_expired(p, c)
                     \/ response_drained(p, c) \/ ClientCloses(p, c)
  \/ \E u \in Slots : \/ writecb(p, u) \/ UpstreamEnds(p, u) \/ deadline_fire(p, u)
                      \/ idle_timeout(p, u) \/ ReplyHead(p, u) \/ ReplyBody(p, u)
                      \/ ReplyUnowned(p, u) \/ ReplyEnd(p, u) \/ gw_ws_start(p, u)

Spec == Init /\ [][Next]_vars

(* The pump goes on, and the master replaces a process.  No timer stays    *)
(* pending for ever: a wait timer fires or is freed, and so is a deadline, *)
(* as long as the target does not go on answering for ever.  A client that *)
(* does not drain a paused response is cut by http.write_timeout or        *)
(* http.response_min_rate.                                                 *)
Fairness ==
  \A p \in Procs :
    /\ WF_vars(Pump(p)) /\ WF_vars(counters_process_gone(p))
    /\ \A c \in Reqs : []<>~gw[p].rq[c].timer /\ []<>~gw[p].rq[c].paused
    /\ \A u \in Slots : []<>(gw[p].ups[u].dl = "off")

FairSpec == Spec /\ Fairness

-----------------------------------------------------------------------------
(* Properties.                                                             *)

\* Every variable has its type, and a slot is held by one connection.
TypeOK ==
  /\ conf \in Configured /\ used \in Nat /\ behind \subseteq Procs /\ leaked \in Nat
  /\ \A p \in Procs :
       /\ gw[p].held \in Nat /\ gw[p].ups \in [Slots -> Upstream]
       /\ gw[p].rq \in [Reqs -> Request] /\ gw[p].waiting \in Seq(Reqs)

\* fpm_http_budget_take()/_give_back()/_counters_process_gone(): the shared
\* word is what the processes' gauges say, plus the operations under way, plus
\* what killed processes leaked, never above the target's share; and a gauge
\* is the number of connections its process has.
BudgetExact ==
  /\ used = Cardinality({s \in Procs \X Slots : s[2] <= gw[s[1]].held}) + leaked
            + Cardinality({p \in Procs : gw[p].half # "no"})
  /\ used <= conf.max /\ \A p \in Procs : gw[p].held <= conf.max
  /\ \A p \in Procs : gw[p].alive =>
       gw[p].held = nupstreams(gw[p])
                    + (IF gw[p].pc = "connect" /\ gw[p].half = "no" THEN 1 ELSE 0)

\* fpm_http_pump(): when the loop is back, no request waits beside an idle
\* connection, whatever failed, expired or was dropped on the way.
NoIdleWhileWaiting ==
  \A p \in Procs : Loop(p) /\ gw[p].waiting # <<>> => Idle(gw[p]) = {}

\* fpm_http_upstream_s.current: a connection answers the request its target
\* works on, and only that one, so no client gets another one's reply.
ReplyBelongs ==
  \A p \in Procs : \A u \in Slots :
    LET up == gw[p].ups[u]
    IN  /\ up.busy <=> up.served # None
        /\ up.cur # None => up.cur = up.served /\ gw[p].rq[up.cur].st = "up"
        /\ \A v \in Slots \ {u} : up.cur # None => gw[p].ups[v].cur # up.cur

\* fpm_http_upstream_deadline_arm(), fpm_http_response_chunk()/_resume(): a
\* connection is not read exactly while its client's response is paused or it
\* is connecting, and exactly then the read deadline is off.
DeadlineFollowsPause ==
  \A p \in Procs : Loop(p) => \A u \in Ups(gw[p]) :
    LET up == gw[p].ups[u]
        paused == up.cur # None /\ gw[p].rq[up.cur].paused
    IN  /\ up.rd <=> ~up.conn /\ ~paused
        /\ up.dl = "connect" <=> up.conn
        /\ up.dl = "read" <=> ~up.conn /\ up.busy /\ ~paused

\* fpm_http_tick_arm() in fpm_http_request_done(): a process with an idle
\* connection polls the reclaim generation, so a sibling can have the slot.
IdlePolled ==
  Cardinality(Procs) > 1 => \A p \in Procs : Loop(p) /\ Idle(gw[p]) # {} => gw[p].tick

\* The connections of a gateway as a whole (fpm_http_pump(),
\* fpm_http_upstream_deadline_arm()): no request waits beside an idle one, an
\* idle one can be reclaimed, each answers its own request, and its deadline
\* runs exactly while it is read.
UpstreamSound == TypeOK /\ NoIdleWhileWaiting /\ IdlePolled /\ ReplyBelongs /\ DeadlineFollowsPause

\* fpm_http_finish(), _finish_truncated(): a response is ended as complete
\* only when the target has sent all of it and no piece was lost.
CompleteIsWhole == \A p \in Procs : ~gw[p].lied

\* Every request ends, answered, cut, switched or left by its client, or is
\* streamed to a client that keeps pausing it: none waits for ever in a queue
\* or on a silent target.
RequestEnds ==
  \A p \in Procs : \A c \in Reqs :
    []<>(gw[p].rq[c].st = "none" \/ gw[p].rq[c].paused)

\* "this function runs again the moment an upstream is released": a request
\* that waits has an upstream of its own process to wait for, or the tick.
WaiterHasWaker ==
  \A p \in Procs : Loop(p) /\ gw[p].waiting # <<>> =>
    gw[p].tick \/ nupstreams(gw[p]) > 0

=============================================================================
