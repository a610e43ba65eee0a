------------------------------ MODULE MCServing ------------------------------
(***************************************************************************)
(* The processes that serve HTTP.  "which" is the part that moves, the     *)
(* state of the others stays as it is:                                     *)
(*   worker  a worker of pool.type = http-direct with two connections and  *)
(*           three requests: with a timeout and a request limit, with a    *)
(*           send limit and an accept ceiling, and with a script that may  *)
(*           return unasked;                                               *)
(*   ws      two WebSocket connections of such a worker, plaintext with a  *)
(*           send buffer limit and TLS with transport errors;              *)
(*   procs   the master and two gateway processes: stops with and without  *)
(*           a probe and a timeout, rotations, and a crash loop;           *)
(*   loop    the event loop of a gateway with two connections: a cap and a *)
(*           late certificate, a PROXY header, no keep-alive;              *)
(*   tunnel  one upgraded connection of that loop.                         *)
(* The names ending in Live choose the smaller instances on which          *)
(* MCServingLive.cfg checks the liveness properties.                       *)
(***************************************************************************)
EXTENDS DirectWorker, DirectWs, GatewayProcs, GatewayLoop, GatewayTunnel

CONSTANTS k1, k2, s1, s2, c1, c2

VARIABLE which

servingvars == <<which, wkvars, wsvars, gpvars, loopvars, tun>>

WkBase == [max |-> 2, maxreq |-> 0, timeout |-> TRUE, limit |-> 0, threshold |-> 0, crash |-> FALSE, ids |-> 2]
WkLimited == [WkBase EXCEPT !.limit = 1, !.threshold = 1]
WkShort == [WkBase EXCEPT !.max = 1, !.maxreq = 2, !.ids = 3]
MCWkConfs == {WkShort, WkLimited, [WkBase EXCEPT !.timeout = FALSE, !.crash = TRUE]}
WkLive == {WkLimited, WkShort}

WsPlain == [tls |-> FALSE, limit |-> 1, fails |-> TRUE, queue |-> 2, kinds |-> {"read", "write"}, peers |-> {1}]
WsTls == [tls |-> TRUE, limit |-> 0, fails |-> TRUE, queue |-> 2, kinds |-> {"read"}, peers |-> {1}]
MCWsConfs == {WsPlain, WsTls, [WsTls EXCEPT !.fails = FALSE, !.queue = 1, !.kinds = {}, !.peers = {1, 2}]}
WsLive == {WsPlain, WsTls}

GpBase == [ready |-> FALSE, pct |-> 0, stops |-> 0, rot |-> 0, crashy |-> {}]
GpRotates == [GpBase EXCEPT !.rot = 3, !.crashy = {s1}]
GpStops(r, t) == [GpBase EXCEPT !.ready = r, !.pct = t, !.stops = 2, !.crashy = {s1}]
MCGpConfs == {GpRotates} \cup {GpStops(r, t) : r \in BOOLEAN, t \in {0, 3}}
GpLive == {GpRotates, GpStops(TRUE, 3)}

\* A stop of a pool that has no child (README, DrainRunsItsCourse).
WindowOnly == {[GpBase EXCEPT !.ready = TRUE, !.pct = 3, !.stops = 1]}

LoopBase == [cap |-> 0, read |-> TRUE, ka |-> TRUE, proxy |-> FALSE, wait |-> FALSE, plain |-> FALSE]
LoopCapped == [LoopBase EXCEPT !.cap = 1, !.plain = TRUE, !.wait = TRUE]
MCLoopConfs == {LoopCapped, [LoopBase EXCEPT !.proxy = TRUE], [LoopBase EXCEPT !.cap = 2, !.ka = FALSE]}
LoopLive == {LoopCapped, [LoopBase EXCEPT !.proxy = TRUE], [LoopBase EXCEPT !.ka = FALSE]}

ServingInit ==
  /\ which \in {"worker", "ws", "procs", "loop", "tunnel"}
  /\ WkInit /\ WsInit /\ GpInit /\ LoopInit /\ TunInit
  /\ which # "worker" => wkconf = WkLimited
  /\ which # "ws" => wsconf = WsPlain
  /\ which # "procs" => conf = GpRotates
  /\ which # "loop" => cfg = LoopCapped

WorkerNext == which = "worker" /\ WkNext /\ UNCHANGED <<which, wsvars, gpvars, loopvars, tun>>
WebSocketNext == which = "ws" /\ WsNext /\ UNCHANGED <<which, wkvars, gpvars, loopvars, tun>>
ProcsNext == which = "procs" /\ GpNext /\ UNCHANGED <<which, wkvars, wsvars, loopvars, tun>>
GatewayLoopNext == which = "loop" /\ LoopNext /\ UNCHANGED <<which, wkvars, wsvars, gpvars, tun>>
TunnelNext == which = "tunnel" /\ TunNext /\ UNCHANGED <<which, wkvars, wsvars, gpvars, loopvars>>

ServingSpec ==
  ServingInit /\ [][WorkerNext \/ WebSocketNext \/ ProcsNext \/ GatewayLoopNext \/ TunnelNext]_servingvars

\* The fairness of the modules.  Only one of them moves in a behaviour, so that
\* one condition of each can share a conjunct.
Fairly(wk, w, p, l, t) ==
  \/ which = "worker" /\ wk /\ UNCHANGED <<which, wsvars, gpvars, loopvars, tun>>
  \/ which = "ws" /\ w /\ UNCHANGED <<which, wkvars, gpvars, loopvars, tun>>
  \/ which = "procs" /\ p /\ UNCHANGED <<which, wkvars, wsvars, loopvars, tun>>
  \/ which = "loop" /\ l /\ UNCHANGED <<which, wkvars, wsvars, gpvars, tun>>
  \/ which = "tunnel" /\ t /\ UNCHANGED <<which, wkvars, wsvars, gpvars, loopvars>>
Resumes(l) == fpm_http_accept_backoff_resume(l)
ServingFair ==
  /\ WF_servingvars(Fairly(LoopRuns, WsLoop(1), System, Work(c1), TunWork))
  /\ WF_servingvars(Fairly(TimeRuns, WsLoop(2), m.children = "told" /\ ChildrenExit, \E c \in Conns \ {c1} : Work(c), FALSE))
  /\ WF_servingvars(Fairly(Bridge, fpm_ws_writecb(1), FALSE, Resumes("main"), FALSE))
  /\ WF_servingvars(Fairly(FALSE, fpm_ws_writecb(2), FALSE, Resumes("plain"), FALSE))
  /\ WF_servingvars(Fairly(FALSE, WsFlushed(TRUE), FALSE, fpm_http_gateway_cap_tick, FALSE))
  /\ WF_servingvars(Fairly(FALSE, StreamsDestroyed, FALSE, FALSE, FALSE))

ServingFairSpec == ServingSpec /\ ServingFair

\* The workers come to the end of what they began: a closed accept gate opens
\* again, a worker that retires leaves, a closed WebSocket is freed.
WorkersServe == GateReopens /\ WorkerRetires /\ ClosedIsFreed

\* So do the gateways: a stop ends, an idle connection ends, a closed listener
\* returns, and so does a tunnel one side of which has ended.
GatewaysEnd == StopEnds /\ IdleEnds /\ ListenerReturns /\ TunnelEnds
==============================================================================
