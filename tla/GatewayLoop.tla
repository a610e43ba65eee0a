---------------------------- MODULE GatewayLoop ----------------------------
(***************************************************************************)
(* The event loop of one gateway process, seen from its client             *)
(* connections (fpm_http_gw_proc.c, fpm_http_accept_backoff.c,             *)
(* fpm_http_proxy.c, fpm_http.c, fpm_http_drain.c): two listeners under    *)
(* one connection cap, the accept backoff, the read deadline and the PROXY *)
(* header of a first request, the keep-alive clock of the later ones, the  *)
(* late opening of the TLS listener and the drain.                         *)
(*                                                                         *)
(* A timer that is armed may fire at any time.  What a peer sends waits in *)
(* the kernel (inbox); evhttp reads it while it waits for a request.       *)
(***************************************************************************)
EXTENDS Naturals, Sequences, FiniteSets

CONSTANTS Conns,       \* the bufferevents
          LoopConfs,   \* the configurations to choose from
          Inbox        \* items of one peer that wait in the kernel

VARIABLES cfg,   \* cap: http.max_connections (0: none), read: http.read_timeout,
                 \* ka: http.keepalive_timeout, proxy: http.proxy_protocol,
                 \* wait: http.tls_wait_for_cert, plain: http.plain_listen
          loop,  \* the process: stopping, out (it left), cert, gauge
          lis,   \* the listeners
          conn   \* the connections

loopvars == <<cfg, loop, lis, conn>>

Listeners == {"main", "plain"}

\* st: "open" while evhttp has the connection, "let" when only references keep
\* the bufferevent and its descriptor.  dl: what ev_eof of the deadline node is
\* armed for, node: the reference of the cap, cut: timeouts shrunk.
Free == [st |-> "free", lis |-> "main", dl |-> "none", accepted |-> FALSE, node |-> FALSE,
         inbox |-> <<>>, eof |-> FALSE, reads |-> FALSE, cut |-> FALSE, header |-> FALSE,
         tracked |-> FALSE, admitted |-> FALSE, c |-> FALSE, out |-> FALSE,
         ka |-> "off", watch |-> FALSE, refused |-> FALSE, close |-> FALSE]

-----------------------------------------------------------------------------
(* References.                                                             *)

\* bufferevent_decref() as a mutant: the deadline node takes no reference.
Settled_NoRef(x) == IF x.st = "let" /\ ~x.node THEN [Free EXCEPT !.dl = x.dl] ELSE x

\* bufferevent_incref() in fpm_http_read_deadline_arm() and in the cap's table:
\* the bufferevent goes when evhttp and both nodes have let go.
Settled(x) == IF x.st = "let" /\ ~x.node /\ x.dl = "none" THEN Free ELSE x

\* fpm_http_read_deadline_forget(), and _disarm() for a node that exists.
fpm_http_read_deadline_forget(x) == Settled([x EXCEPT !.dl = "none", !.accepted = FALSE])

\* fpm_http_client_closed(): the node of the connection goes with its timers.
fpm_http_client_closed(x) ==
  [x EXCEPT !.tracked = FALSE, !.admitted = FALSE, !.c = FALSE, !.out = FALSE, !.ka = "off",
            !.watch = FALSE, !.refused = FALSE, !.close = FALSE]

\* evhttp ends a connection: the close callback, then bufferevent_free().
Ends(x) == Settled([fpm_http_client_closed(x) EXCEPT !.st = "let", !.reads = FALSE, !.cut = FALSE])

\* ... as a mutant: a connection that never sent a request is given back too.
Gauge_Always(x) == loop.gauge - 1

\* The gauge when evhttp ends x.
Gauge(x) == IF x.tracked THEN loop.gauge - 1 ELSE loop.gauge

-----------------------------------------------------------------------------
(* The cap.                                                                *)

live(cn) == {c \in Conns : cn[c].node}

\* fpm_direct_conn_sweep_all(): what evhttp has let go of loses its node.
LoopSwept(cn) == [c \in Conns |-> IF cn[c].st = "let" THEN Settled([cn[c] EXCEPT !.node = FALSE]) ELSE cn[c]]

\* fpm_http_direct_conns_may_accept(): at the cap the count is made exact first.
Counted(cn) == IF cfg.cap > 0 /\ Cardinality(live(cn)) >= cfg.cap THEN LoopSwept(cn) ELSE cn

\* fpm_http_gateway_accepting(): of a table that Counted() has brought up to date.
accepting(cn) == ~loop.stopping /\ (cfg.cap > 0 => Cardinality(live(cn)) < cfg.cap)

\* fpm_http_gateway_listener_set() as a mutant: it enables a paused listener.
fpm_http_gateway_listener_set_Owns(l, on) == IF ~l.bound THEN l ELSE [l EXCEPT !.on = on]

\* fpm_http_gateway_listener_set(): the backoff owns a paused listener.
fpm_http_gateway_listener_set(l, on) ==
  IF ~l.bound THEN l ELSE [l EXCEPT !.on = on /\ (@ \/ ~l.paused)]

\* fpm_http_gateway_gate() as a mutant: the plain listener is left out.
fpm_http_gateway_gate_Main(ls, cn) ==
  /\ conn' = IF cfg.cap = 0 \/ loop.stopping THEN cn ELSE Counted(cn)
  /\ lis' = IF cfg.cap = 0 \/ loop.stopping THEN ls
            ELSE [ls EXCEPT !["main"] = fpm_http_gateway_listener_set(@, accepting(Counted(cn)))]

\* fpm_http_gateway_gate(), after cn: both listeners, and the swept table.
fpm_http_gateway_gate(ls, cn) ==
  /\ conn' = IF cfg.cap = 0 \/ loop.stopping THEN cn ELSE Counted(cn)
  /\ lis' = IF cfg.cap = 0 \/ loop.stopping THEN ls
            ELSE [l \in Listeners |-> fpm_http_gateway_listener_set(ls[l], accepting(Counted(cn)))]

\* fpm_http_gateway_cap_tick() as a mutant: it only sweeps.
fpm_http_gateway_cap_tick_NoGate ==
  /\ cfg.cap > 0 /\ ~loop.out
  /\ conn' = LoopSwept(conn)
  /\ UNCHANGED <<cfg, loop, lis>>

\* fpm_http_gateway_cap_tick()
fpm_http_gateway_cap_tick ==
  /\ cfg.cap > 0 /\ ~loop.out
  /\ fpm_http_gateway_gate(lis, LoopSwept(conn))
  /\ UNCHANGED <<cfg, loop>>

\* fpm_http_bevcb(), fpm_http_plain_bevcb(), fpm_http_read_deadline_arm(),
\* fpm_http_gateway_accepted(): a connection is accepted.
fpm_http_bevcb(l, c) ==
  /\ ~loop.out /\ lis[l].bound /\ lis[l].on /\ conn[c].st = "free"
  /\ fpm_http_gateway_gate(lis,
       [conn EXCEPT ![c] = [Free EXCEPT !.st = "open", !.lis = l, !.reads = TRUE,
                                        !.dl = IF cfg.read THEN "zero" ELSE "none", !.node = cfg.cap > 0]])
  /\ UNCHANGED <<cfg, loop>>

\* fpm_http_accept_backoff_error(): accept() fails, the listener pauses.
fpm_http_accept_backoff_error(l) ==
  /\ ~loop.out /\ lis[l].bound /\ lis[l].on
  /\ lis' = [lis EXCEPT ![l].on = FALSE, ![l].paused = TRUE]
  /\ UNCHANGED <<cfg, loop, conn>>

\* fpm_http_accept_backoff_resume(), fpm_http_gateway_may_resume()
fpm_http_accept_backoff_resume(l) ==
  /\ ~loop.out /\ lis[l].bound /\ lis[l].paused
  /\ conn' = IF loop.stopping THEN conn ELSE Counted(conn)
  /\ lis' = [lis EXCEPT ![l].paused = FALSE, ![l].on = @ \/ accepting(conn')]
  /\ UNCHANGED <<cfg, loop>>

-----------------------------------------------------------------------------
(* The first request: deadline and PROXY header.                           *)

On(c, x) == conn' = [conn EXCEPT ![c] = x] /\ UNCHANGED <<cfg, lis>>

\* fpm_http_read_deadline_proxy_done(): a refused connection is shut down, and
\* evhttp goes on to read what is left of it.
fpm_http_read_deadline_proxy_done(x, ok) ==
  [x EXCEPT !.dl = "eof", !.accepted = ok, !.eof = @ \/ ~ok, !.reads = x.st = "open"]

\* fpm_http_read_deadline_arm_eof(), fpm_http_proxy_start(): the first pass of
\* the connection, ahead of any read of its bufferevent.
fpm_http_read_deadline_arm_eof(c, trusted) ==
  /\ ~loop.out /\ conn[c].dl = "zero"
  /\ On(c, IF ~cfg.proxy \/ conn[c].lis = "plain" THEN [conn[c] EXCEPT !.dl = "eof"]
           ELSE IF ~trusted THEN fpm_http_read_deadline_proxy_done(conn[c], FALSE)
           ELSE [conn[c] EXCEPT !.dl = "proxy", !.reads = FALSE])
  /\ UNCHANGED loop

\* fpm_http_proxy_read(): the header is consumed, anything else refused.
fpm_http_proxy_read(c) ==
  LET x == conn[c]  good == x.inbox # <<>> /\ Head(x.inbox) = "header"
  IN  /\ ~loop.out /\ x.dl = "proxy" /\ (x.inbox # <<>> \/ x.eof)
      /\ On(c, fpm_http_read_deadline_proxy_done(
                 IF good THEN [x EXCEPT !.inbox = Tail(@), !.header = TRUE] ELSE x, good))
      /\ UNCHANGED loop

\* fpm_http_read_deadline_fire(): the connection is ended by its own timeouts.
fpm_http_read_deadline_fire(c) ==
  /\ ~loop.out /\ conn[c].dl # "none"
  /\ LET x == IF conn[c].dl = "proxy" THEN fpm_http_read_deadline_proxy_done(conn[c], FALSE) ELSE conn[c]
     IN  On(c, fpm_http_read_deadline_forget([x EXCEPT !.cut = x.st = "open"]))
  /\ UNCHANGED loop

\* fpm_http_read_deadline_eof(): evhttp is done with it, or the peer is gone;
\* bytes that wait mean a live peer.
fpm_http_read_deadline_eof(c) ==
  /\ ~loop.out /\ conn[c].dl = "eof" /\ (conn[c].inbox # <<>> \/ conn[c].eof)
  /\ conn[c].st = "let" \/ conn[c].inbox = <<>>
  /\ On(c, fpm_http_read_deadline_forget(conn[c]))
  /\ UNCHANGED loop

-----------------------------------------------------------------------------
(* Requests.                                                               *)

\* fpm_http_proxy_admit() as a mutant: any node will do.
fpm_http_proxy_admit_AnyNode(x) == x.admitted \/ x.dl # "none"

\* fpm_http_proxy_admit(): an accepted header, on the node or copied before.
fpm_http_proxy_admit(x) == x.admitted \/ (x.dl = "eof" /\ x.accepted)

\* fpm_http_proxy_refuse(): shut down, and closed outside the callback.
fpm_http_proxy_refuse(x) ==
  LET y == [x EXCEPT !.eof = TRUE]
  IN  IF x.refused THEN y ELSE [fpm_http_read_deadline_forget(y) EXCEPT !.refused = TRUE, !.close = TRUE]

\* fpm_http_client_request_begin() and the disarm that follows it.
fpm_http_client_request_begin(x) ==
  LET y == [x EXCEPT !.ka = "off", !.watch = FALSE, !.admitted = cfg.proxy /\ x.lis = "main"]
  IN  IF cfg.read THEN fpm_http_read_deadline_forget(y) ELSE y

\* fpm_http_client_track() as a mutant: every request counts a connection.
fpm_http_client_track_Again(x) == loop' = [loop EXCEPT !.gauge = @ + 1]

\* fpm_http_client_track(): the first request counts the connection.
fpm_http_client_track(x) == loop' = [loop EXCEPT !.gauge = IF x.tracked THEN @ ELSE @ + 1]

\* fpm_http_request(), fpm_http_plain_answer(): evhttp has read a request.
\* It goes to an upstream (c), or is answered here (out).
fpm_http_request(c, forwarded) ==
  LET x == [conn[c] EXCEPT !.inbox = Tail(@), !.reads = FALSE, !.tracked = TRUE]
  IN  /\ ~loop.out /\ conn[c].reads /\ conn[c].dl # "zero"
      /\ conn[c].inbox # <<>> /\ Head(conn[c].inbox) = "request"
      /\ forwarded => x.lis = "main"
      /\ fpm_http_client_track(conn[c])
      /\ On(c, IF cfg.proxy /\ x.lis = "main" /\ ~fpm_http_proxy_admit(x)
               THEN fpm_http_proxy_refuse(x)
               ELSE [fpm_http_client_request_begin(x) EXCEPT !.c = forwarded, !.out = ~forwarded])

\* fpm_http_finish() and the like: the answer is in the output buffer.
Answered(c) ==
  /\ ~loop.out /\ conn[c].c
  /\ On(c, [conn[c] EXCEPT !.c = FALSE, !.out = TRUE])
  /\ UNCHANGED loop

\* fpm_http_client_request_done() as a mutant: without a keep-alive timeout the
\* watcher is not armed either.
fpm_http_client_request_done_NoWatch(x) ==
  [x EXCEPT !.out = FALSE, !.reads = TRUE, !.ka = IF cfg.ka THEN "idle" ELSE "off", !.watch = cfg.ka /\ cfg.read]

\* fpm_http_client_request_done(): the output is written, the keep-alive clock
\* and the first-byte watcher start.
fpm_http_client_request_done(x) ==
  [x EXCEPT !.out = FALSE, !.reads = TRUE, !.ka = IF cfg.ka THEN "idle" ELSE "off", !.watch = cfg.read]

\* The client has taken the answer; evhttp keeps the connection or closes it.
Written(c, keep) ==
  /\ ~loop.out /\ conn[c].out
  /\ On(c, IF keep THEN fpm_http_client_request_done(conn[c]) ELSE Ends(conn[c]))
  /\ loop' = [loop EXCEPT !.gauge = IF keep THEN @ ELSE Gauge(conn[c])]

\* fpm_http_client_idle_fire()
fpm_http_client_idle_fire(c) ==
  /\ ~loop.out /\ conn[c].ka # "off"
  /\ On(c, [conn[c] EXCEPT !.ka = "off", !.watch = FALSE, !.cut = TRUE])
  /\ UNCHANGED loop

\* fpm_http_client_idle_byte(): the read timeout replaces the keep-alive one.
fpm_http_client_idle_byte(c) ==
  /\ ~loop.out /\ conn[c].watch /\ (conn[c].inbox # <<>> \/ conn[c].eof)
  /\ On(c, [conn[c] EXCEPT !.watch = FALSE, !.ka = "read"])
  /\ UNCHANGED loop

\* fpm_http_proxy_refused_fire()
fpm_http_proxy_refused_fire(c) ==
  /\ ~loop.out /\ conn[c].close
  /\ On(c, Ends(conn[c]))
  /\ loop' = [loop EXCEPT !.gauge = Gauge(conn[c])]

\* evhttp ends a connection by itself: its timeout, the end of the stream, or
\* bytes that are no request (answered 400 and closed).
EvhttpEnds(c) ==
  LET x == conn[c] IN
  /\ ~loop.out /\ x.st = "open" /\ x.dl # "zero"
  /\ \/ x.cut /\ (x.reads \/ x.out)
     \/ x.reads /\ x.inbox = <<>> /\ x.eof
     \/ x.reads /\ x.inbox # <<>> /\ Head(x.inbox) = "header"
     \/ x.out /\ x.eof
  /\ On(c, Ends(x))
  /\ loop' = [loop EXCEPT !.gauge = Gauge(x)]

-----------------------------------------------------------------------------
(* The certificate, the drain and the peers.                               *)

Opened == [bound |-> TRUE, on |-> TRUE, paused |-> FALSE]
LoopClosed == [bound |-> FALSE, on |-> FALSE, paused |-> FALSE]

\* fpm_http_gateway_open_tls_listener(): listen() may fail, for good.
fpm_http_gateway_open_tls_listener(ok) ==
  IF ok THEN fpm_http_gateway_gate([lis EXCEPT !["main"] = Opened], conn) ELSE UNCHANGED <<lis, conn>>

\* fpm_http_gateway_tls_listener_hook() as a mutant: also while draining.
fpm_http_gateway_tls_listener_hook_Always(ok) ==
  /\ ~loop.out /\ loop.cert = "awaited"
  /\ loop' = [loop EXCEPT !.cert = "here"]
  /\ fpm_http_gateway_open_tls_listener(ok)
  /\ UNCHANGED cfg

\* fpm_http_gateway_tls_listener_hook(): once, and not while draining.
fpm_http_gateway_tls_listener_hook(ok) ==
  /\ ~loop.out /\ loop.cert = "awaited"
  /\ loop' = [loop EXCEPT !.cert = "here"]
  /\ IF loop.stopping THEN UNCHANGED <<lis, conn>> ELSE fpm_http_gateway_open_tls_listener(ok)
  /\ UNCHANGED cfg

\* fpm_http_drain_start()
drain_start_conns ==
  /\ ~loop.stopping
  /\ loop' = [loop EXCEPT !.stopping = TRUE]
  /\ lis' = [l \in Listeners |-> LoopClosed]
  /\ UNCHANGED <<cfg, conn>>

\* fpm_http_gateway_drain_step() as a mutant: only the request counts.
busy_NoOutput(x) == x.tracked /\ x.c

\* fpm_http_gateway_drain_step(): a request in flight, or output to write.
busy(x) == x.tracked /\ (x.c \/ x.out)

\* fpm_http_drain_tick(): close what is idle, leave when nothing is busy or at
\* the deadline.
drain_tick_conns(deadline) ==
  /\ loop.stopping /\ ~loop.out
  /\ conn' = [c \in Conns |-> IF conn[c].tracked /\ ~busy(conn[c]) THEN [conn[c] EXCEPT !.cut = TRUE] ELSE conn[c]]
  /\ loop' = [loop EXCEPT !.out = deadline \/ \A c \in Conns : ~busy(conn[c])]
  /\ UNCHANGED <<cfg, lis>>

\* A peer sends a request or a PROXY header, or closes.
Peer(c, item) ==
  /\ ~loop.out /\ conn[c].st = "open" /\ ~conn[c].eof
  /\ IF item = "eof" THEN On(c, [conn[c] EXCEPT !.eof = TRUE])
     ELSE /\ Len(conn[c].inbox) < Inbox /\ (item = "header" => cfg.proxy)
          /\ On(c, [conn[c] EXCEPT !.inbox = Append(@, item)])
  /\ UNCHANGED loop

LoopGone == loop.out /\ UNCHANGED loopvars

\* fpm_http_gateway_run(): the listeners it opens, the cap, the deadlines.
LoopInit ==
  /\ cfg \in LoopConfs
  /\ loop = [stopping |-> FALSE, out |-> FALSE, gauge |-> 0, cert |-> IF cfg.wait THEN "awaited" ELSE "here"]
  /\ lis = [l \in Listeners |-> IF IF l = "plain" THEN cfg.plain ELSE ~cfg.wait THEN Opened ELSE LoopClosed]
  /\ conn = [c \in Conns |-> Free]

Work(c) ==
  \/ \E t \in BOOLEAN : fpm_http_read_deadline_arm_eof(c, t)
  \/ fpm_http_proxy_read(c) \/ fpm_http_read_deadline_fire(c) \/ fpm_http_read_deadline_eof(c)
  \/ \E f \in BOOLEAN : fpm_http_request(c, f)
  \/ fpm_http_client_idle_fire(c) \/ fpm_http_client_idle_byte(c)
  \/ fpm_http_proxy_refused_fire(c) \/ EvhttpEnds(c)

LoopNext ==
  \/ \E c \in Conns : \/ \E l \in Listeners : fpm_http_bevcb(l, c)
                      \/ Work(c) \/ Answered(c) \/ \E keep \in BOOLEAN : Written(c, keep)
                      \/ \E item \in {"request", "header", "eof"} : Peer(c, item)
  \/ \E l \in Listeners : fpm_http_accept_backoff_error(l) \/ fpm_http_accept_backoff_resume(l)
  \/ fpm_http_gateway_cap_tick
  \/ \E ok \in BOOLEAN : fpm_http_gateway_tls_listener_hook(ok)
  \/ drain_start_conns \/ \E d \in BOOLEAN : drain_tick_conns(d)
  \/ LoopGone

\* The loop runs what is due and its timers fire; clients owe it nothing.
LoopFair ==
  /\ \A c \in Conns : WF_loopvars(Work(c))
  /\ \A l \in Listeners : WF_loopvars(fpm_http_accept_backoff_resume(l))
  /\ WF_loopvars(fpm_http_gateway_cap_tick)

-----------------------------------------------------------------------------
(* Properties.                                                             *)

LoopTypeOK ==
  /\ cfg \in LoopConfs /\ loop.gauge \in 0..Cardinality(Conns)
  /\ loop.stopping \in BOOLEAN /\ loop.out \in BOOLEAN /\ loop.cert \in {"awaited", "here"}
  /\ \A l \in Listeners : lis[l] \in [bound : BOOLEAN, on : BOOLEAN, paused : BOOLEAN]
  /\ \A c \in Conns : /\ conn[c].st \in {"free", "open", "let"} /\ conn[c].lis \in Listeners
                      /\ conn[c].dl \in {"none", "zero", "eof", "proxy"}
                      /\ conn[c].ka \in {"off", "idle", "read"} /\ Len(conn[c].inbox) <= Inbox

\* Every event a connection has armed is on something that still exists: the
\* deadline node on a bufferevent, the timers and the watcher of the client
\* node on a connection evhttp owns (fpm_http_read_deadline_arm,
\* fpm_http_client_closed).
EventsLive ==
  \A c \in Conns : LET x == conn[c] IN
    /\ x.dl # "none" => x.st # "free"
    /\ x.ka # "off" \/ x.watch \/ x.close => x.st = "open" /\ x.tracked

\* connections_open counts the open connections that sent a request, each once
\* (fpm_http_client_track, fpm_http_client_closed).
GaugeExact ==
  /\ loop.gauge = Cardinality({c \in Conns : conn[c].tracked})
  /\ \A c \in Conns : conn[c].tracked => conn[c].st = "open"

\* The two listeners together never have more connections than
\* http.max_connections (fpm_http_gateway_gate); a descriptor that only a read
\* deadline keeps is not counted.
CapHeld == cfg.cap > 0 => Cardinality({c \in Conns : conn[c].st = "open"}) <= cfg.cap

\* A listener that failed to accept stays off until its pause ends, whatever
\* the gate does meanwhile (fpm_http_gateway_listener_set).
PauseHolds == \A l \in Listeners : lis[l].paused => ~lis[l].on

\* With http.proxy_protocol nothing of a connection of the public listener is
\* served unless its header was read and accepted (fpm_http_proxy_admit).
ServedHasHeader ==
  cfg.proxy => \A c \in Conns : conn[c].lis = "main" /\ (conn[c].c \/ conn[c].out) => conn[c].header

\* A draining process accepts nothing: no pause that ends, no free place and no
\* certificate opens a listener again (fpm_http_drain_start,
\* fpm_http_gateway_tls_listener_hook).
DrainAcceptsNothing == loop.stopping => \A l \in Listeners : ~lis[l].bound

\* A drain that ends before its deadline leaves no request unanswered and no
\* answer unwritten (fpm_http_gateway_drain_step).
DrainLosesNothing ==
  [][drain_tick_conns(FALSE) /\ loop'.out => \A c \in Conns : ~conn[c].c /\ ~conn[c].out]_loopvars

\* With both timeouts of the read side, or with http.read_timeout alone and a
\* peer that has begun its next request, a connection that is not being served
\* comes to its end (fpm_http_read_deadline_fire, fpm_http_client_idle_fire,
\* fpm_http_client_idle_byte, fpm_http_proxy_refuse).
IdleEnds ==
  \A c \in Conns : []<>(\/ loop.out \/ ~cfg.read \/ conn[c].st # "open" \/ conn[c].c \/ conn[c].out
                        \/ ~cfg.ka /\ conn[c].ka = "off" /\ conn[c].watch /\ conn[c].inbox = <<>> /\ ~conn[c].eof)

\* A listener does not stay off while the process has room
\* (fpm_http_accept_backoff_resume, fpm_http_gateway_cap_tick).
ListenerReturns ==
  \A l \in Listeners : []<>(\/ loop.stopping \/ ~lis[l].bound \/ lis[l].on
                            \/ cfg.cap > 0 /\ Cardinality({c \in Conns : conn[c].st = "open"}) >= cfg.cap)

\* The connections of a gateway process as a whole: no event outlives its
\* connection, the cap, the backoff and the drain each keep the listeners
\* closed, no request is served before its PROXY header, and a drain does not
\* cut a response (fpm_http_gw_proc.c, fpm_http_drain.c).
LoopSound ==
  /\ [](/\ LoopTypeOK /\ EventsLive /\ GaugeExact /\ CapHeld /\ PauseHolds
        /\ ServedHasHeader /\ DrainAcceptsNothing)
  /\ DrainLosesNothing
=============================================================================
