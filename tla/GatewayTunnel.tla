---------------------------- MODULE GatewayTunnel ----------------------------
(***************************************************************************)
(* The WebSocket tunnel of a gateway: two bufferevents, the bytes between  *)
(* them, and the stages in which either end is let go.  fpm_http_gw_ws.c.  *)
(*                                                                         *)
(* A direction is a record: sent, what its source has handed to the        *)
(* kernel and the gateway has not read; pend, plaintext SSL keeps once     *)
(* reading stopped; out, the output buffer of its destination; got, what   *)
(* the destination has.  "up" goes from the client to the upstream.        *)
(***************************************************************************)
EXTENDS Naturals

CONSTANTS High, Low,     \* FPM_GW_WS_HIGH, FPM_GW_WS_LOW, in bytes of the model
          MaxBytes       \* bound on what each end sends

ASSUME TunnelMarks == Low \in Nat /\ High \in Nat /\ Low < High

VARIABLE tun

Ways == {"up", "down"}

NoBytes == [sent |-> 0, all |-> 0, pend |-> 0, out |-> 0, got |-> 0, reads |-> TRUE, eof |-> FALSE]

\* up_shut, down_shut: shutdown(SHUT_WR) towards that end.  why: what ended the
\* relay first; cut: its flush ran out of time.  step: the step event is active; ubev, freed: what is freed.
TunInit ==
    tun = [stage |-> "relay", finishing |-> FALSE, client_gone |-> FALSE, timed_out |-> FALSE,
           up_gone |-> FALSE, step |-> FALSE, idle |-> TRUE, deadline |-> FALSE, ubev |-> TRUE,
           freed |-> FALSE, why |-> <<>>, up_shut |-> FALSE, down_shut |-> FALSE,
           cut |-> FALSE,
           way |-> [w \in Ways |-> NoBytes]]

(***************************************************************************)
(* Operations on the relay.                                                *)
(***************************************************************************)
fpm_gw_ws_kick(t) == [t EXCEPT !.step = TRUE]

Because(t, why) == [t EXCEPT !.why = IF @ = <<>> THEN why ELSE @]

fpm_gw_ws_finish(t, client_gone, why) ==
    fpm_gw_ws_kick([Because(t, why) EXCEPT !.client_gone = @ \/ client_gone,
                                           !.finishing = TRUE, !.idle = FALSE])

\* The bytes n of one direction go to the output; at High its source is not read.
fpm_gw_ws_move_NoLimit(d, n) == [d EXCEPT !.out = @ + n]

fpm_gw_ws_move(d, n) == [d EXCEPT !.out = @ + n, !.reads = @ /\ d.out + n < High]

fpm_gw_ws_arm_deadline(t) == [t EXCEPT !.timed_out = FALSE, !.deadline = TRUE]

\* A half-closing client: what the gateway holds for the upstream goes first.
fpm_gw_ws_client_eof(t) ==
    LET d == t.way["up"] IN
    fpm_gw_ws_kick(fpm_gw_ws_arm_deadline(
        [Because(t, <<"client", "eof">>) EXCEPT !.stage = "up_flush", !.idle = FALSE,
                 !.way["up"] = [d EXCEPT !.out = @ + d.pend, !.pend = 0, !.reads = FALSE]]))

fpm_gw_ws_teardown(t) ==
    [t EXCEPT !.freed = TRUE, !.ubev = FALSE, !.step = FALSE, !.deadline = FALSE, !.idle = FALSE]

fpm_gw_ws_enter_flush(t) ==
    fpm_gw_ws_arm_deadline([t EXCEPT !.stage = "flush", !.way["up"].reads = FALSE])

fpm_gw_ws_enter_linger_NoDeadline(t) ==
    IF t.client_gone THEN fpm_gw_ws_teardown(t)
    ELSE [t EXCEPT !.stage = "linger", !.down_shut = TRUE, !.cut = t.timed_out,
                   !.timed_out = FALSE, !.deadline = FALSE]

fpm_gw_ws_enter_linger(t) ==
    IF t.client_gone THEN fpm_gw_ws_teardown(t)
    ELSE fpm_gw_ws_arm_deadline([t EXCEPT !.stage = "linger", !.down_shut = TRUE, !.cut = t.timed_out])

(***************************************************************************)
(* The step event, the only place that frees.                              *)
(***************************************************************************)
fpm_gw_ws_up_step_Early(t) ==
    IF t.finishing \/ t.timed_out \/ t.up_gone \/ t.client_gone THEN fpm_gw_ws_teardown(t)
    ELSE [t EXCEPT !.stage = "up_linger", !.up_shut = TRUE]

fpm_gw_ws_up_step(t) ==
    IF t.finishing \/ t.timed_out \/ t.up_gone \/ t.client_gone THEN fpm_gw_ws_teardown(t)
    ELSE IF t.stage = "up_flush" /\ t.way["up"].out = 0
    THEN [t EXCEPT !.stage = "up_linger", !.up_shut = TRUE]
    ELSE t

\* The switch of fpm_gw_ws_step(), after the upstream's bufferevent is freed.
Stepped_Linger(t) ==
    IF t.stage = "relay" THEN fpm_gw_ws_enter_linger(t)
    ELSE IF t.client_gone \/ t.timed_out THEN fpm_gw_ws_teardown(t) ELSE t

Stepped(t) ==
    CASE t.stage = "relay" ->
           IF t.client_gone \/ t.way["down"].out = 0 THEN fpm_gw_ws_enter_linger(t)
           ELSE fpm_gw_ws_enter_flush(t)
      [] t.stage = "flush" ->
           IF t.client_gone THEN fpm_gw_ws_teardown(t)
           ELSE IF t.timed_out \/ t.way["down"].out = 0 THEN fpm_gw_ws_enter_linger(t)
           ELSE t
      [] OTHER -> IF t.client_gone \/ t.timed_out THEN fpm_gw_ws_teardown(t) ELSE t

UpStage(t) == t.stage \in {"up_flush", "up_linger"}

fpm_gw_ws_step_FreesFirst ==
    /\ tun.step
    /\ LET t == [tun EXCEPT !.step = FALSE, !.ubev = FALSE] IN
       tun' = IF UpStage(t) THEN fpm_gw_ws_up_step(t) ELSE IF ~t.finishing THEN t ELSE Stepped(t)

fpm_gw_ws_step ==
    /\ tun.step
    /\ LET t == [tun EXCEPT !.step = FALSE] IN
       tun' = IF UpStage(t) THEN fpm_gw_ws_up_step(t)
              ELSE IF ~t.finishing THEN t
              ELSE Stepped([t EXCEPT !.ubev = FALSE])

(***************************************************************************)
(* The callbacks of the two bufferevents.                                  *)
(***************************************************************************)
TunnelAlive == ~tun.freed

\* The end that way w reads from and the one it writes to.
Source(w) == IF w = "up" THEN "client" ELSE "upstream"

Relaying == tun.stage = "relay" /\ ~tun.finishing

\* A TLS record can be larger than what is read of it before High: the rest
\* stays with SSL, and no event of the socket will tell.
fpm_gw_ws_readcb(w) ==
    LET d == tun.way[w] IN
    /\ TunnelAlive /\ Relaying /\ d.reads /\ d.sent > 0
    /\ LET m == fpm_gw_ws_move([d EXCEPT !.sent = @ - 1], 1) IN
       \/ tun' = [tun EXCEPT !.way[w] = m]
       \/ /\ w = "up" /\ ~m.reads /\ m.sent > 0
          /\ tun' = [tun EXCEPT !.way[w] = [m EXCEPT !.sent = @ - 1, !.pend = 1]]

\* The destination of way w took a byte; at Low the source is read again.
Resumed_NoPull(d) == [d EXCEPT !.reads = TRUE]

Resumed(d) == fpm_gw_ws_move([d EXCEPT !.reads = TRUE, !.pend = 0], d.pend)

\* The callback of the stage the tunnel is in, when w's output took the write.
Wrote(t, w) ==
    LET d == t.way[w] IN
    IF Relaying THEN IF d.out <= Low THEN [t EXCEPT !.way[w] = Resumed(d)] ELSE t
    ELSE IF d.out = 0 /\ (w = "up") = UpStage(t) THEN fpm_gw_ws_kick(t)   \* fpm_gw_ws_flush_writecb()
    ELSE t

fpm_gw_ws_writecb(w) ==
    LET d == [tun.way[w] EXCEPT !.out = @ - 1, !.got = @ + 1] IN
    /\ TunnelAlive /\ tun.way[w].out > 0
    /\ w = "up" => tun.ubev /\ ~tun.up_gone
    /\ w = "down" => ~tun.client_gone
    /\ tun' = Wrote([tun EXCEPT !.way[w] = d], w)

\* EOF of the client, or an error or (the drain's) timeout on its connection.
fpm_gw_ws_eventcb_client(what) ==
    /\ TunnelAlive /\ ~tun.client_gone
    /\ what = "eof" => tun.way["up"].eof /\ tun.way["up"].sent = 0
                       /\ (tun.way["up"].reads \/ tun.stage = "linger")
    /\ tun' = IF Relaying /\ what = "eof" THEN fpm_gw_ws_client_eof(tun)
              ELSE IF tun.stage = "relay" THEN fpm_gw_ws_finish(tun, TRUE, <<"client", what>>)
              ELSE fpm_gw_ws_kick([tun EXCEPT !.client_gone = TRUE])          \* fpm_gw_ws_stage_eventcb()

fpm_gw_ws_eventcb_upstream(what) ==
    /\ TunnelAlive /\ tun.ubev /\ ~tun.up_gone
    /\ what = "eof" => tun.way["down"].eof /\ tun.way["down"].sent = 0
                       /\ tun.way["down"].reads
    /\ tun.stage = "relay" => ~tun.finishing
    /\ tun' = IF tun.stage = "relay" THEN fpm_gw_ws_finish(tun, FALSE, <<"upstream", what>>)
              ELSE fpm_gw_ws_kick([tun EXCEPT !.up_gone = TRUE])              \* fpm_gw_ws_up_eventcb()

\* What the peer still sends to a side that only drains is thrown away.
fpm_gw_ws_linger_read(w) ==
    /\ TunnelAlive /\ tun.way[w].sent > 0
    /\ IF w = "up" THEN tun.stage = "linger" ELSE UpStage(tun) /\ ~tun.finishing /\ tun.way[w].reads
    /\ tun' = [tun EXCEPT !.way[w].sent = 0]

\* http.upgrade_idle_timeout or http.upgrade_max_duration.
fpm_gw_ws_idle_cb ==
    /\ TunnelAlive /\ ~tun.finishing
    /\ tun.idle \/ UpStage(tun)          \* in the upstream's stages only the total timer is left
    /\ tun' = fpm_gw_ws_finish(tun, FALSE, <<"timer", "timeout">>)

fpm_gw_ws_deadline_cb ==
    /\ TunnelAlive /\ tun.deadline
    /\ tun' = fpm_gw_ws_kick([tun EXCEPT !.deadline = FALSE, !.timed_out = TRUE])

\* External: an end sends, or closes its side.
PeerSends(w) ==
    /\ TunnelAlive /\ ~tun.way[w].eof /\ tun.way[w].all < MaxBytes
    /\ tun' = [tun EXCEPT !.way[w].sent = @ + 1, !.way[w].all = @ + 1]

HalfCloses(w) == TunnelAlive /\ ~tun.way[w].eof /\ tun' = [tun EXCEPT !.way[w].eof = TRUE]

TunGone == tun.freed /\ UNCHANGED tun

TunWork ==
    \/ fpm_gw_ws_step
    \/ \E w \in Ways : fpm_gw_ws_readcb(w) \/ fpm_gw_ws_linger_read(w)
    \/ fpm_gw_ws_eventcb_client("eof") \/ fpm_gw_ws_eventcb_upstream("eof")
    \/ fpm_gw_ws_deadline_cb

TunNext ==
    \/ TunWork
    \/ \E w \in Ways : fpm_gw_ws_writecb(w) \/ PeerSends(w) \/ HalfCloses(w)
    \/ \E what \in {"error", "timeout"} : fpm_gw_ws_eventcb_client(what)
    \/ fpm_gw_ws_eventcb_upstream("error")
    \/ fpm_gw_ws_idle_cb
    \/ TunGone

TunSpec == TunInit /\ [][TunNext]_tun

\* The loop runs its events; a peer need not read and need not send.
TunFair == WF_tun(TunWork)

(***************************************************************************)
(* Properties.                                                             *)
(***************************************************************************)
\* Type invariant: a buffer never grows past the mark at which its source is paused.
TunTypeOK ==
    /\ tun.stage \in {"relay", "flush", "linger", "up_flush", "up_linger"}
    /\ \A w \in Ways : tun.way[w].out \in 0..High /\ tun.way[w].pend \in 0..1

\* A direction that is not read is waiting for its destination, which will call
\* the gateway: neither the pause at High nor plaintext left with SSL can stall
\* the tunnel once the destination has drained to Low.
NeverStalls ==
    Relaying => \A w \in Ways :
       /\ ~tun.way[w].reads => tun.way[w].out > Low
       /\ tun.way[w].pend > 0 => ~tun.way[w].reads

\* The upstream's write side is shut only after it has every byte the client
\* sent before its own end, in the one flush the comment of the file promises.
HalfCloseDelivers == tun.up_shut => tun.way["up"].got = tun.way["up"].all

\* A client whose upstream closed gets all the upstream had sent, then the end,
\* unless the flush ran out of time or the client left first.
UpstreamEndDelivers ==
    tun.down_shut /\ tun.why = <<"upstream", "eof">> /\ ~tun.cut =>
       tun.way["down"].got = tun.way["down"].all

\* The upstream's bufferevent is there as long as a stage still writes to it, and
\* nothing is active once the relay is freed.
StagesLive ==
    /\ UpStage(tun) /\ ~tun.freed => tun.ubev
    /\ tun.freed => ~tun.step /\ ~tun.deadline /\ ~tun.idle
    /\ Relaying /\ ~tun.freed => tun.ubev

\* Once one end is gone, both connections are freed: no stage waits for a peer
\* that does nothing.
TunnelEnds == (tun.why # <<>>) ~> tun.freed

\* A tunnel as a whole: no direction waits for ever for room that is there, and
\* what was sent before an end is delivered (fpm_http_gw_ws.c).
TunnelSound == TunTypeOK /\ NeverStalls /\ HalfCloseDelivers /\ UpstreamEndDelivers /\ StagesLive
=============================================================================
