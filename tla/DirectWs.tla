------------------------------ MODULE DirectWs ------------------------------
(***************************************************************************)
(* A WebSocket connection of the worker executor: the hijack of an evhttp  *)
(* connection, the stream the script holds, the watchers bound to it, and  *)
(* the long way a closed stream's connection takes until it is freed.      *)
(* fpm_http_direct_ws.c and the watcher builtins of                        *)
(* fpm_http_direct_worker.c.                                               *)
(*                                                                         *)
(* The script owns the stream (`ctx'), evhttp owns the connection          *)
(* (`bev'), libevent owns the events; each can end while the others are    *)
(* still there.  `evs' is what libevent would call for the connection now. *)
(***************************************************************************)
EXTENDS Naturals, FiniteSets

CONSTANTS
    Peers,          \* the connections
    WsConfs         \* [tls, limit (worker.send_buffer_limit, 0 = off), fails (transport errors),
                    \*  queue (bound on the bytes a buffer holds), kinds (of watcher the script uses),
                    \*  peers (connections that upgrade)]

VARIABLES
    wsconf,
    ws              \* the worker: its connections, watchers and counters

wsvars == <<wsconf, ws>>

Kinds == {"read", "write"}

NoWatcher == [there |-> FALSE, pending |-> FALSE, active |-> FALSE]

\* ctx: the stream's context ("none", "live", "freed"); bev: evhttp's connection
\* ("http", "ws", "freed"); evs: the callbacks set on the bufferevent or, for
\* "tls", the retry event of fpm_ws_tls_close; rel: the tail releases the
\* connection; pend: plaintext SSL holds behind the input's high water mark;
\* net: what is left of the peer; shut: what shutdown() got.
Hijackable ==
    [ctx |-> "none", bev |-> "http", evs |-> "evhttp", rel |-> FALSE, caw |-> FALSE,
     counted |-> FALSE, orphaned |-> FALSE, eof |-> FALSE, in |-> 0, pend |-> 0, out |-> 0,
     net |-> "open", shut |-> "no", cut |-> FALSE, told |-> TRUE,
     watch |-> [k \in Kinds |-> NoWatcher]]

Hijacked(c) == ws.conn[c].ctx = "live"

(***************************************************************************)
(* Watchers.                                                               *)
(***************************************************************************)
fpm_ws_fire(c, kind) ==
    [c EXCEPT !.watch[kind].active = @ \/ (c.watch[kind].there /\ c.watch[kind].pending)]

\* event_active() before event_del() loses the activation.
fpm_ws_eof_wakeup_once_ActiveFirst(c) ==
    IF c.watch["read"].there
    THEN [c EXCEPT !.watch["read"] = [there |-> TRUE, pending |-> FALSE, active |-> FALSE]]
    ELSE c

fpm_ws_eof_wakeup_once(c) ==
    IF c.watch["read"].there
    THEN [c EXCEPT !.watch["read"] = [there |-> TRUE, pending |-> FALSE, active |-> TRUE]]
    ELSE c

(***************************************************************************)
(* Closing.  Each operator maps <<connection, ws_unflushed>> to the next   *)
(* pair.                                                                   *)
(***************************************************************************)
fpm_ws_release_None(c) == c

fpm_ws_release(c) == [c EXCEPT !.evs = "linger"]

fpm_ws_close_now_Kept(s, graceful) ==
    LET c == s[1] IN
    <<IF c.rel THEN fpm_ws_release([c EXCEPT !.shut = IF graceful THEN "wr" ELSE "rdwr"])
      ELSE [c EXCEPT !.shut = IF graceful THEN "wr" ELSE "rdwr", !.evs = "none"], s[2]>>

fpm_ws_close_now(s, graceful) ==
    LET c == [s[1] EXCEPT !.shut = IF graceful THEN "wr" ELSE "rdwr",
                          !.counted = FALSE, !.evs = "none"] IN
    <<IF c.rel THEN fpm_ws_release(c) ELSE c,
      IF s[1].counted /\ s[2] > 0 THEN s[2] - 1 ELSE s[2]>>

\* SSL_shutdown() could not send the close_notify: the connection waits for its
\* socket, and is counted if the tail that led here was not.
fpm_ws_tls_close_arm_Again(s) == <<[s[1] EXCEPT !.evs = "tls", !.counted = TRUE], s[2] + 1>>

fpm_ws_tls_close_arm(s) ==
    <<[s[1] EXCEPT !.evs = "tls", !.counted = TRUE], IF s[1].counted THEN s[2] ELSE s[2] + 1>>

\* External: SSL_shutdown() under fpm_http_direct_tls_shutdown_step().
ShutdownSteps == IF wsconf.tls THEN {"pending", "sent", "failed"} ELSE {"not_applicable"}

fpm_ws_finish_close(s, error, step) ==
    IF ~error /\ step = "pending" THEN fpm_ws_tls_close_arm(s)
    ELSE fpm_ws_close_now(s, ~error /\ step = "sent")

fpm_ws_start_close_after_write(s, release) ==
    IF s[1].caw THEN s
    ELSE <<[s[1] EXCEPT !.caw = TRUE, !.counted = TRUE, !.rel = release, !.evs = "tail"], s[2] + 1>>

fpm_ws_shutdown_now(s, release, step) ==
    LET r == fpm_ws_finish_close(<<[s[1] EXCEPT !.rel = release, !.evs = "none"], s[2]>>, FALSE, step)
    IN <<[r[1] EXCEPT !.eof = TRUE], r[2]>>

StartTail(s, release, step) ==
    IF s[1].out > 0 THEN fpm_ws_start_close_after_write(s, release)
    ELSE fpm_ws_shutdown_now(s, release, step)

\* fpm_ws_close_after_write() with EV_WRITE drained or an event `what'.
fpm_ws_close_after_write_Eof(s, what, step) ==
    IF s[1].out > 0 /\ what = "drained" THEN s
    ELSE fpm_ws_finish_close(<<[s[1] EXCEPT !.cut = s[1].out > 0 /\ what # "error"], s[2]>>,
                             what = "error", step)

fpm_ws_close_after_write(s, what, step) ==
    IF s[1].out > 0 /\ what # "error" THEN s
    ELSE fpm_ws_finish_close(s, what = "error", step)

\* The bufferevent stays, its callbacks do not: watchers go first, then ctx.
fpm_ws_close_Watchers(s, step) ==
    LET r == IF s[1].orphaned \/ s[1].caw THEN s ELSE StartTail(s, TRUE, step)
    IN <<[r[1] EXCEPT !.ctx = "freed"], r[2]>>

fpm_ws_close(s, step) ==
    LET c == [s[1] EXCEPT !.watch = [k \in Kinds |-> NoWatcher], !.told = TRUE]
        r == IF c.orphaned \/ c.caw THEN <<c, s[2]>> ELSE StartTail(<<c, s[2]>>, TRUE, step)
    IN <<[r[1] EXCEPT !.ctx = "freed"], r[2]>>

\* evhttp_connection_free(): the linger ends, the descriptor closes.
fpm_ws_linger_end(c) == [c EXCEPT !.bev = "freed", !.evs = "none"]

(***************************************************************************)
(* The script.                                                             *)
(***************************************************************************)
SetConn(c, v) == ws' = [ws EXCEPT !.conn[c] = v]

SetPair(c, s) == ws' = [ws EXCEPT !.conn[c] = s[1], !.unflushed = s[2]]

ScriptRuns == ws.phase = "run" /\ UNCHANGED wsconf

\* A handshake that is not a WebSocket one throws and stays answerable, a broken
\* one is refused by the gateway itself; neither reaches the hijack.
fpmng_worker_ws_upgrade(c) ==
    /\ ScriptRuns
    /\ c \in wsconf.peers
    /\ ws.conn[c].bev = "http" /\ ws.conn[c].net = "open"
    /\ \/ SetConn(c, [ws.conn[c] EXCEPT !.ctx = "live", !.bev = "ws", !.evs = "ws", !.out = 1])
       \/ SetConn(c, [ws.conn[c] EXCEPT !.bev = "freed", !.evs = "none"])
       \/ /\ wsconf.fails
          /\ \E step \in ShutdownSteps :
                SetPair(c, fpm_ws_close(<<[ws.conn[c] EXCEPT !.ctx = "live", !.bev = "ws",
                                                             !.evs = "ws"], ws.unflushed>>, step))

\* Below the mark the TLS layer's hidden plaintext is moved into the input.
fpm_ws_pull_tls_pending_Full(c) == IF c.in = 0 /\ c.pend > 0 THEN [c EXCEPT !.in = c.pend, !.pend = 0] ELSE c

fpm_ws_pull_tls_pending(c) ==
    IF c.in < wsconf.queue /\ c.pend > 0
    THEN fpm_ws_fire([c EXCEPT !.in = @ + c.pend, !.pend = 0], "read")
    ELSE c

fpm_ws_read(c) ==
    /\ ScriptRuns /\ Hijacked(c)
    /\ ws.conn[c].in > 0
    /\ \E n \in 1..ws.conn[c].in :
          SetConn(c, fpm_ws_pull_tls_pending([ws.conn[c] EXCEPT !.in = @ - n, !.told = TRUE]))

fpm_ws_write(c) ==
    /\ ScriptRuns /\ Hijacked(c)
    /\ wsconf.limit = 0 \/ ws.conn[c].out < wsconf.limit
    /\ ws.conn[c].out < wsconf.queue
    /\ SetConn(c, [ws.conn[c] EXCEPT !.out = @ + 1])

fclose(c) ==
    /\ ScriptRuns /\ Hijacked(c)
    /\ \E step \in ShutdownSteps : SetPair(c, fpm_ws_close(<<ws.conn[c], ws.unflushed>>, step))

fpmng_worker_event_create(c, kind) ==
    /\ ScriptRuns /\ Hijacked(c)
    /\ ~ws.conn[c].watch[kind].there
    /\ SetConn(c, [ws.conn[c] EXCEPT !.watch[kind] = [NoWatcher EXCEPT !.there = TRUE]])

fpmng_worker_event_enable(c, kind) ==
    /\ ScriptRuns
    /\ ws.conn[c].watch[kind].there /\ ~ws.conn[c].watch[kind].pending
    /\ SetConn(c, [ws.conn[c] EXCEPT !.watch[kind].pending = TRUE])

fpmng_worker_event_disable(c, kind) ==
    /\ ScriptRuns
    /\ ws.conn[c].watch[kind].pending
    /\ SetConn(c, [ws.conn[c] EXCEPT !.watch[kind] = [NoWatcher EXCEPT !.there = TRUE],
                                 !.told = @ \/ kind = "read"])

\* fpm_ws_unregister_watcher() takes the id out of the context's list as well.
fpmng_worker_event_free(c, kind) ==
    /\ ScriptRuns
    /\ ws.conn[c].watch[kind].there
    /\ SetConn(c, [ws.conn[c] EXCEPT !.watch[kind] = NoWatcher, !.told = @ \/ kind = "read"])

(***************************************************************************)
(* The loop.  The worker's own loop and the flush loop of                  *)
(* fpm_worker_finish_output() run the same events.                         *)
(***************************************************************************)
WsLooping == ws.phase \in {"run", "flush"} /\ UNCHANGED wsconf

\* The script's callback for one watcher.
fpm_worker_watcher_fire(c, kind) ==
    /\ WsLooping
    /\ ws.conn[c].watch[kind].active
    /\ SetConn(c, [ws.conn[c] EXCEPT !.watch[kind].active = FALSE, !.told = @ \/ kind = "read"])

\* Owes the script a callback: bytes came while a read watcher was waiting.
ReaderWaits(c) == c.watch["read"].there /\ c.watch["read"].pending

fpm_ws_readcb(c) ==
    LET d == ws.conn[c] IN
    /\ WsLooping
    /\ d.bev = "ws" /\ d.net = "open" /\ ~d.eof
    /\ \/ /\ d.evs = "ws" /\ d.in < wsconf.queue
          /\ SetConn(c, fpm_ws_fire([d EXCEPT !.in = @ + 1, !.told = @ /\ ~ReaderWaits(d)], "read"))
       \/ /\ d.evs = "ws" /\ wsconf.tls /\ d.in = wsconf.queue /\ d.pend = 0
          /\ SetConn(c, [d EXCEPT !.pend = 1])    \* a record larger than the room left
       \/ /\ d.evs = "linger"               \* fpm_ws_linger_read()
          /\ d.in > 0
          /\ SetConn(c, [d EXCEPT !.in = 0])

\* The socket took a byte; the last one runs the write callback.  Enabling
\* EV_WRITE on a failed transport repeats the write and its error.
fpm_ws_writecb(c) ==
    LET d == [ws.conn[c] EXCEPT !.out = @ - 1] IN
    /\ WsLooping
    /\ ws.conn[c].bev = "ws" /\ ws.conn[c].out > 0
    /\ ws.conn[c].net # "error" \/ ws.conn[c].evs = "tail"
    /\ \/ /\ d.evs = "ws"
          /\ SetConn(c, IF d.out = 0 THEN fpm_ws_fire(d, "write") ELSE d)
       \/ /\ d.evs = "tail"
          /\ \E step \in ShutdownSteps :
                SetPair(c, IF d.net = "error"
                           THEN fpm_ws_close_after_write(<<ws.conn[c], ws.unflushed>>, "error", step)
                           ELSE IF d.out = 0
                           THEN fpm_ws_close_after_write(<<d, ws.unflushed>>, "drained", step)
                           ELSE <<d, ws.unflushed>>)

\* The peer half-closes, or the transport fails.
fpm_ws_eventcb(c) ==
    \E what \in IF wsconf.fails THEN {"eof", "error"} ELSE {"eof"} :
       LET d == [ws.conn[c] EXCEPT !.net = what] IN
       /\ WsLooping
       /\ ws.conn[c].bev = "ws" /\ ws.conn[c].net = "open"
       /\ \/ /\ d.evs = "ws"
             /\ SetConn(c, fpm_ws_eof_wakeup_once([d EXCEPT !.eof = TRUE, !.told = ~d.watch["read"].there]))
          \/ /\ d.evs = "tail"
             /\ \E step \in ShutdownSteps :
                   SetPair(c, fpm_ws_close_after_write(<<d, ws.unflushed>>, what, step))
          \/ /\ d.evs = "linger"            \* fpm_ws_linger_event()
             /\ SetConn(c, fpm_ws_linger_end(d))
          \/ /\ d.evs \in {"none", "tls"}   \* no callback is set
             /\ SetConn(c, d)

fpm_ws_linger_deadline(c) ==
    /\ WsLooping
    /\ ws.conn[c].evs = "linger"
    /\ SetConn(c, fpm_ws_linger_end(ws.conn[c]))

\* fpm_ws_tls_close_complete(): the state is unlinked, then the close goes on.
fpm_ws_tls_close_retry(c) ==
    /\ WsLooping
    /\ ws.conn[c].evs = "tls"
    /\ \E sent \in BOOLEAN : SetPair(c, fpm_ws_close_now(<<ws.conn[c], ws.unflushed>>, sent))

(***************************************************************************)
(* The end of the worker.                                                  *)
(***************************************************************************)
\* One connection of the fpm_ws_all walk; both loops only touch live contexts.
Prepared(c, step) ==
    IF c.ctx # "live" \/ c.orphaned \/ c.caw THEN <<c, 0>> ELSE StartTail(<<c, 0>>, FALSE, step)

fpm_ws_prepare_shutdown_Released(conn, step) ==
    [c \in Peers |->
        IF conn[c].ctx # "live" \/ conn[c].caw THEN <<conn[c], 0>> ELSE StartTail(<<conn[c], 0>>, TRUE, step)]

fpm_ws_prepare_shutdown(conn, step) == [c \in Peers |-> Prepared(conn[c], step)]

\* The script is over: watchers are destroyed, and an exit nobody asked for
\* gives the upgraded connections their own tail.
ScriptReturns ==
    /\ ScriptRuns
    /\ \E unexpected \in BOOLEAN, step \in ShutdownSteps :
          LET bare == [c \in Peers |-> [ws.conn[c] EXCEPT !.watch = [k \in Kinds |-> NoWatcher],
                                                          !.told = TRUE]]
              done == IF unexpected THEN fpm_ws_prepare_shutdown(bare, step)
                      ELSE [c \in Peers |-> <<bare[c], 0>>]
          IN ws' = [phase |-> "flush", conn |-> [c \in Peers |-> done[c][1]],
                    unflushed |-> ws.unflushed + Cardinality({c \in Peers : done[c][2] = 1})]

\* ws_unflushed reached zero or the flush budget ran out; tls_close_abort_all(),
\* the orphaning of what the script still holds, evhttp_free().
Orphaned(c) ==
    [c EXCEPT !.orphaned = (c.ctx = "live"), !.eof = @ \/ c.ctx = "live",
              !.bev = "freed", !.evs = "none", !.counted = FALSE]

WsFlushed(expired) ==
    /\ ws.phase = "flush" /\ UNCHANGED wsconf
    /\ expired \/ ws.unflushed = 0
    /\ ws' = [phase |-> "shutdown", unflushed |-> 0,
              conn |-> [c \in Peers |-> Orphaned(ws.conn[c])]]

\* php_request_shutdown() destroys the streams that are left.
StreamsDestroyed ==
    /\ ws.phase = "shutdown" /\ UNCHANGED wsconf
    /\ ws' = [ws EXCEPT !.phase = "exited",
                        !.conn = [c \in Peers |->
                            IF ws.conn[c].ctx = "live"
                            THEN fpm_ws_close(<<ws.conn[c], 0>>, "not_applicable")[1]
                            ELSE ws.conn[c]]]

WsInit ==
    /\ wsconf \in WsConfs
    /\ ws = [phase |-> "run", unflushed |-> 0, conn |-> [c \in Peers |-> Hijackable]]

WsScript(c) ==
    \/ fpmng_worker_ws_upgrade(c) \/ fpm_ws_read(c) \/ fpm_ws_write(c) \/ fclose(c)
    \/ \E kind \in wsconf.kinds :
                           \/ fpmng_worker_event_create(c, kind)
                           \/ fpmng_worker_event_enable(c, kind)
                           \/ fpmng_worker_event_disable(c, kind)
                           \/ fpmng_worker_event_free(c, kind)

WsLoop(c) ==
    \/ \E kind \in Kinds : fpm_worker_watcher_fire(c, kind)
    \/ fpm_ws_tls_close_retry(c)
    \/ fpm_ws_linger_deadline(c)

WsNext ==
    \/ \E c \in Peers : \/ WsScript(c) \/ WsLoop(c)
                        \/ fpm_ws_readcb(c) \/ fpm_ws_writecb(c) \/ fpm_ws_eventcb(c)
    \/ ScriptReturns
    \/ \E expired \in BOOLEAN : WsFlushed(expired)
    \/ StreamsDestroyed

\* The loop runs its active events and timers; a socket with room takes output.
WsFair ==
    /\ \A c \in Peers : WF_wsvars(WsLoop(c))
    /\ \A c \in Peers : WF_wsvars(fpm_ws_writecb(c))
    /\ WF_wsvars(WsFlushed(TRUE))
    /\ WF_wsvars(StreamsDestroyed)

(***************************************************************************)
(* Properties.                                                             *)
(***************************************************************************)
\* Type invariant: buffers within their bounds; a context is only live on a
\* connection the script has hijacked, and watchers only exist on a live one.
WsTypeOK ==
    /\ ws.phase \in {"run", "flush", "shutdown", "exited"}
    /\ ws.unflushed \in 0..Cardinality(Peers)
    /\ \A c \in Peers : LET d == ws.conn[c] IN
          /\ d.in \in 0..wsconf.queue + 1 /\ d.pend \in 0..1 /\ d.out \in 0..wsconf.queue
          /\ d.bev \in {"http", "ws", "freed"}
          /\ d.evs \in {"evhttp", "ws", "tail", "tls", "linger", "none"}
          /\ d.ctx = "live" => d.bev = "ws" \/ d.orphaned

\* fw.ws_unflushed is exactly the number of connections whose tail (queued bytes
\* or a close_notify) the exit has to wait for: one too many and every exit
\* lasts the whole flush budget, one too few and a tail is cut.
WsUnflushedExact ==
    ws.unflushed = Cardinality({c \in Peers : ws.conn[c].evs \in {"tail", "tls"}})

\* No callback can reach freed memory: the stream's callbacks are set only while
\* its context lives, a watcher exists only on a live context, the linger and
\* the tails only on a connection evhttp still has, and a context whose
\* connection is gone is marked orphaned before anything may use it.
NothingDangles ==
    \A c \in Peers : LET d == ws.conn[c] IN
       /\ d.evs = "ws" => d.ctx = "live"
       /\ \A k \in Kinds : d.watch[k].there => d.ctx = "live" /\ ~d.orphaned
       /\ d.evs \in {"ws", "tail", "tls", "linger"} => d.bev = "ws"
       /\ d.bev = "freed" /\ d.ctx = "live" => d.orphaned

\* A connection that lingers is one the script has let go of: freeing it at the
\* end of the linger never takes the connection from under a live stream.
LingerIsReleased == \A c \in Peers : ws.conn[c].evs = "linger" => ws.conn[c].ctx = "freed"

\* What the script wrote before fclose() is on the wire before the descriptor is
\* shut down, unless the transport failed or the worker ran out of its flush
\* budget: a peer that only half-closed still gets the close frame.
NothingCut ==
    \A c \in Peers :
       /\ ~ws.conn[c].cut
       /\ ws.conn[c].shut # "no" => ws.conn[c].out = 0 \/ ws.conn[c].net = "error"

\* A script that waits on a read watcher is called for what arrives, the peer's
\* end included: the callback is due until it ran or the script itself read,
\* disabled the watcher or closed the stream.
ReaderCalled == \A c \in Peers : ~ws.conn[c].told => ws.conn[c].watch["read"].active

\* Plaintext that SSL holds because the input was full is never stranded there:
\* no socket event announces it, so it may stay behind only while the input is
\* still at its mark and the script has a reason to read.
TlsInputReachable ==
    \A c \in Peers : Hijacked(c) /\ ws.conn[c].pend > 0 => ws.conn[c].in >= wsconf.queue

\* A stream the script closed gives its connection back: under a socket that
\* takes the output, or an error, the descriptor is freed without waiting for
\* the worker to end.
ClosedIsFreed == \A c \in Peers : (ws.conn[c].ctx = "freed") ~> (ws.conn[c].bev = "freed")

\* A hijacked connection as a whole: nothing libevent or the script may still
\* call is gone, no output is cut, and no input is out of the script's reach
\* (fpm_http_direct_ws.c).
SocketSound ==
  /\ WsTypeOK /\ WsUnflushedExact /\ NothingDangles /\ LingerIsReleased
  /\ NothingCut /\ ReaderCalled /\ TlsInputReachable
=============================================================================
