---------------------------- MODULE DirectChild ----------------------------
(***************************************************************************)
(* One child of an http-direct pool under the classic executor             *)
(* (fpm_http_direct.c): its event loop, the accept gate on the shared      *)
(* listener with the accept backoff of fpm_http_accept_backoff.c, the      *)
(* request callback that runs PHP inside the loop, the responses in        *)
(* flight, and the two ways out: SIGQUIT (stopping) and SIGUSR1 or         *)
(* pm.max_requests (retiring).  The connections are those of ConnTable.    *)
(*                                                                         *)
(* Everything the loop runs is one callback at a time.  PHP holds the loop *)
(* from the request callback to the end of the script, and only signals,   *)
(* clients and time move meanwhile.  The two signal handlers only set a    *)
(* flag; the tick reads the flag of SIGUSR1 three times, and the signal    *)
(* may land between two of the reads.                                      *)
(*                                                                         *)
(* malloc() and event_add() are taken to succeed.                          *)
(***************************************************************************)
EXTENDS ConnTable

CONSTANTS Configured,     \* the limits a pool may be configured with
          Units,          \* how many halves of a request each client sends
          PendingMax,     \* FPM_DIRECT_PENDING_MAX
          MaxRequests,    \* pm.max_requests, 0 for no limit
          HttpStream,     \* http.stream
          None

\* The configuration is refused without a read timeout; track_live is set.
ASSUME DirectChildAssumption ==
  /\ IsFiniteSet(Conns) /\ Units \in [Conns -> Nat]
  /\ Configured \subseteq Limits /\ \A l \in Configured : l.read /\ l.track
  /\ PendingMax \in Nat \ {0} /\ MaxRequests \in Nat
  /\ HttpStream \in BOOLEAN /\ None \notin Conns

VARIABLES tab,   \* w->conns
          cn,    \* the connections as evhttp and the kernel hold them
          w      \* struct fpm_direct_worker and the two signal flags

vars == <<tab, cn, w>>

(* sock: halves of requests in the socket; buf: halves evhttp has read;    *)
(* left: what the client may still send.  A request is two halves.         *)
(* closecb, done: the close and completion callbacks evhttp will call.     *)
(* closing: timed out, shut down or left by its peer.  last: the response  *)
(* carries Connection: close.                                              *)
Connection == [life : {"queue", "held", "gone"}, phase : {"read", "call", "reply"},
               sock : Nat, buf : Nat, left : Nat, closing : BOOLEAN, last : BOOLEAN,
               closecb : BOOLEAN, done : {"none", "budget", "response"}]

(* grace: retire_deadline.  cur: the connection whose request PHP runs     *)
(* (in_request), script: where its response is.  broken: who ended the     *)
(* loop, or exit() on a request that PHP could not start.  stale: a pickup *)
(* went on with a node that had been freed.                                *)
Worker == [listener : {"on", "off", "gone"}, paused : BOOLEAN, pending : Nat,
           requests : Nat, stopping : BOOLEAN, retiring : BOOLEAN,
           grace : {"unset", "running", "over"}, cur : Conns \cup {None},
           script : {"none", "run", "stream", "cut", "responded"},
           broken : {"no", "loop", "handler", "exit"}, stale : BOOLEAN]

Queued(c) == [life |-> "queue", phase |-> "read", sock |-> 0, buf |-> 0,
              left |-> Units[c], closing |-> FALSE, last |-> FALSE,
              closecb |-> FALSE, done |-> "none"]

Freed == [life |-> "gone", phase |-> "read", sock |-> 0, buf |-> 0, left |-> 0,
          closing |-> FALSE, last |-> FALSE, closecb |-> FALSE, done |-> "none"]

\* fpm_http_direct_child_main() up to event_base_dispatch().
Init ==
  /\ \E limits \in Configured : tab = fpm_http_direct_conns_new(limits)
  /\ cn = [c \in Conns |-> Queued(c)]
  /\ w = [listener |-> "on", paused |-> FALSE, pending |-> 0, requests |-> 0,
          stopping |-> FALSE, retiring |-> FALSE, grace |-> "unset", cur |-> None,
          script |-> "none", broken |-> "no", stale |-> FALSE]

\* The child as one value, for what a callback does in order.
State == [tab |-> tab, cn |-> cn, w |-> w]

Become(v) == \E s \in {v} : tab' = s.tab /\ cn' = s.cn /\ w' = s.w

Gone(s) == {c \in Conns : s.cn[c].life = "gone"}

Loop == w.cur = None /\ w.broken = "no"
Exited == w.cur = None /\ w.broken # "no"

loopbreak(s, where) == IF s.w.broken = "no" THEN [s EXCEPT !.w.broken = where] ELSE s

-----------------------------------------------------------------------------
(* Leaving: the listener, the grace of a retirement, the tick.             *)

\* Mutant: the pause timer survives the listener it would enable.
del_accept_socket_KeepsTimer(s) == [s EXCEPT !.w.listener = "gone"]

\* fpm_http_accept_backoff_remove() and evhttp_del_accept_socket().
del_accept_socket(s) == [s EXCEPT !.w.listener = "gone", !.w.paused = FALSE]

fpm_direct_retire_enter(s) ==
  IF s.w.grace # "unset" THEN s
  ELSE [del_accept_socket(s) EXCEPT !.w.grace = "running"]

fpm_direct_retire_extend(s) ==
  IF s.w.retiring /\ s.w.grace # "unset" THEN [s EXCEPT !.w.grace = "running"] ELSE s

\* Mutant: the gauge decides instead of the exact count, and pending does not.
fpm_direct_retire_done_ConnsOnly(s) ==
  [s |-> s, yes |-> s.w.grace # "running" \/ fpm_http_direct_conns_live(s.tab) = 0]

\* A deadline that was never stamped is zero, and zero has passed.
fpm_direct_retire_done(s) ==
  LET swept == fpm_direct_conn_sweep_all(s.tab, Gone(s))
  IN IF s.w.grace # "running" THEN [s |-> s, yes |-> TRUE]
     ELSE IF s.w.pending > 0 THEN [s |-> s, yes |-> FALSE]
     ELSE [s |-> [s EXCEPT !.tab = swept], yes |-> fpm_http_direct_conns_live(swept) = 0]

fpm_direct_accept_enable(s) ==
  IF s.w.listener = "gone" \/ s.w.paused THEN s ELSE [s EXCEPT !.w.listener = "on"]

\* The conditions the gate is opened on, with the sweep of may_accept().
fpm_direct_backoff_may_resume(s) ==
  LET may == fpm_http_direct_conns_may_accept(s.tab, Gone(s))
  IN IF s.w.retiring \/ s.w.cur # None THEN [s |-> s, yes |-> FALSE]
     ELSE [s |-> [s EXCEPT !.tab = may.t], yes |-> may.ok]

\* When SIGUSR1 lands in a tick: not at all, or between the first read of the
\* flag and the gate, or between the gate and the last read.
Moments == IF w.stopping \/ w.retiring THEN {"no"} ELSE {"no", "gate", "leave"}

fpm_direct_tick_body(s, sweep, where, late) ==
  LET Enter(s1)  == IF s1.w.retiring THEN fpm_direct_retire_enter(s1) ELSE s1
      Sweep(s1)  == [s1 EXCEPT !.tab = IF sweep THEN fpm_http_direct_conns_sweep(@, Gone(s1))
                                                ELSE @,
                               !.w.retiring = @ \/ late = "gate"]
      Open(m)    == IF m.yes THEN fpm_direct_accept_enable(m.s) ELSE m.s
      Gate(s1)   == With(fpm_direct_backoff_may_resume(s1), Open)
      Signal(s1) == [s1 EXCEPT !.w.retiring = @ \/ late = "leave"]
      Break(d)   == IF d.yes THEN loopbreak(d.s, where) ELSE d.s
      Leave(s1)  == IF s1.w.retiring THEN With(fpm_direct_retire_done(s1), Break) ELSE s1
      stopped    == del_accept_socket(s)
  IN IF s.w.stopping
     THEN IF s.w.pending = 0 THEN loopbreak(stopped, where) ELSE stopped
     ELSE With(With(With(With(Enter(s), Sweep), Gate), Signal), Leave)

-----------------------------------------------------------------------------
(* Responses: what is counted in pending, and who takes it out again.      *)

OneFewer(s) ==
  LET Last(s1) == IF s1.w.stopping /\ s1.w.pending = 0 THEN loopbreak(s1, "loop") ELSE s1
  IN With(fpm_direct_retire_extend([s EXCEPT !.w.pending = @ - 1]), Last)

\* Mutant: the completion is counted on top of the close.
fpm_direct_response_closed_Twice(s, c) ==
  OneFewer(OneFewer([s EXCEPT !.cn[c].closecb = FALSE]))

fpm_direct_response_closed(s, c) == OneFewer([s EXCEPT !.cn[c].closecb = FALSE])

fpm_direct_budget_restart(s, c) ==
  [s EXCEPT !.tab = fpm_http_direct_conns_response_done(@, c, s.cn[c].buf > 0)]

fpm_direct_response_done(s, c) ==
  OneFewer(fpm_direct_budget_restart([s EXCEPT !.cn[c].closecb = FALSE], c))

fpm_direct_last_request(s) ==
  s.w.stopping \/ (MaxRequests > 0 /\ s.w.requests + 1 >= MaxRequests)

\* Connection: close, unless the next request is in evhttp's input already.
CloseIfLast(s, c) ==
  IF fpm_direct_last_request(s) /\ s.cn[c].buf = 0 THEN [s EXCEPT !.cn[c].last = TRUE] ELSE s

fpm_direct_retire(s) ==
  LET s1 == [s EXCEPT !.w.requests = @ + 1]
  IN IF MaxRequests > 0 /\ s.w.requests + 1 >= MaxRequests
     THEN fpm_direct_retire_enter([s1 EXCEPT !.w.retiring = TRUE])
     ELSE s1

InFlight(s, c) ==
  [s EXCEPT !.cn[c].phase = "reply", !.cn[c].closecb = TRUE, !.cn[c].done = "response"]

Counted(s) == [s EXCEPT !.w.pending = @ + 1]

\* Mutant: the tick looks at the count before the response is in it.
fpm_direct_send_buffered_TickFirst(s, c, late) ==
  LET Close(s1) == CloseIfLast(s1, c)
      Tick(s1)  == Counted(fpm_direct_tick_body(s1, FALSE, "handler", late))
  IN InFlight(With(With(fpm_direct_retire(s), Close), Tick), c)

fpm_direct_send_buffered(s, c, late) ==
  LET Close(s1) == CloseIfLast(s1, c)
      Tick(s1)  == fpm_direct_tick_body(Counted(s1), FALSE, "handler", late)
  IN InFlight(With(With(fpm_direct_retire(s), Close), Tick), c)

\* The headers are decided here, before the request is counted.
fpm_direct_stream_begin(s, c) ==
  [InFlight(Counted(CloseIfLast(s, c)), c) EXCEPT !.w.script = "stream"]

\* Mutant: the abort leaves the response counted.
fpm_direct_stream_abort_KeepsCount(s, c) ==
  [s EXCEPT !.cn[c].closecb = FALSE, !.cn[c].done = "none", !.cn[c].closing = TRUE,
            !.w.script = "cut"]

\* Out of memory, a client that does not read, or a response refused too late.
fpm_direct_stream_abort(s, c) ==
  [s EXCEPT !.cn[c].closecb = FALSE, !.cn[c].done = "none", !.cn[c].closing = TRUE,
            !.w.script = "cut", !.w.pending = @ - 1]

\* The response ends, or is cut short: it was refused after its headers had
\* left, or the client does not take the rest.
fpm_direct_stream_finish(s, c) == {s, fpm_direct_stream_abort(s, c)}

-----------------------------------------------------------------------------
(* The request callback, up to the response or to the start of PHP.        *)

\* evhttp_send_error(), which closes the connection after the response.
SendError(s, c) == [s EXCEPT !.cn[c].phase = "reply", !.cn[c].last = TRUE]

LocalReply(s, c) == [s EXCEPT !.cn[c].phase = "reply"]

fpm_direct_try_static(s, c) == InFlight(Counted(s), c)

RunPHP(s, c) == [s EXCEPT !.w.cur = c, !.w.script = "run"]

\* 403 and 400 come first, so that they do not depend on the limits.
fpm_direct_handle(s0, c) ==
  LET req == fpm_http_direct_conns_request(s0.tab, Gone(s0), c)
      s   == [s0 EXCEPT !.tab = req.t, !.cn[c].phase = "call", !.cn[c].done = "budget"]
      r   == IF s.w.retiring THEN fpm_direct_retire_enter(s) ELSE s
      serves == ~req.over /\ ~s.w.stopping /\ s.w.pending < PendingMax
  IN \/ Become(SendError(s, c))
     \/ serves /\ Become(SendError(r, c))
     \/ serves /\ Become(LocalReply(r, c))
     \/ serves /\ Become(fpm_direct_try_static(r, c))
     \/ serves /\ Become(RunPHP(r, c))
     \/ serves /\ Become([r EXCEPT !.w.broken = "exit"])

-----------------------------------------------------------------------------
(* PHP, inside the request callback.                                       *)

Script(c) == w.cur = c

Stream(c) ==
  /\ Script(c) /\ w.script = "run" /\ HttpStream
  /\ Become(fpm_direct_stream_begin(State, c))

Cut(c) ==
  /\ Script(c) /\ w.script = "stream"
  /\ Become(fpm_direct_stream_abort(State, c))

\* fpmng_respond(): the response leaves, the script goes on.
fpmng_respond(c) ==
  /\ Script(c)
  /\ \/ /\ w.script = "run"
        /\ \E late \in Moments :
             Become([fpm_direct_send_buffered(State, c, late) EXCEPT !.w.script = "responded"])
     \/ /\ w.script = "stream"
        /\ \E s \in fpm_direct_stream_finish(fpm_direct_retire(State), c) :
             Become([s EXCEPT !.w.script = "responded"])

\* The end of the script: the three endings of the request callback.
ScriptEnds(c) ==
  LET s == [State EXCEPT !.w.cur = None, !.w.script = "none"]
      Tick(t, late) == fpm_direct_tick_body([t EXCEPT !.w.script = "none"], FALSE,
                                            "handler", late)
  IN /\ Script(c)
     /\ \E late \in Moments :
          \/ w.script = "run" /\ Become(fpm_direct_send_buffered(s, c, late))
          \/ /\ w.script = "stream"
             /\ \E t \in fpm_direct_stream_finish(fpm_direct_retire(s), c) :
                  Become(Tick(t, late))
          \/ w.script = "cut" /\ Become(Tick(fpm_direct_retire(s), late))
          \/ w.script = "responded" /\ Become(Tick(s, late))

-----------------------------------------------------------------------------
(* The callbacks of the loop.                                              *)

OneTick(late) == Loop /\ Become(fpm_direct_tick_body(State, TRUE, "loop", late))

fpm_direct_tick == \E late \in Moments : OneTick(late)

\* Mutant: the gate stays open behind the connection.
fpm_direct_accept_close_gate_Open(c) ==
  [State EXCEPT !.cn[c].life = "held",
                !.tab = fpm_http_direct_conns_accepted(@, Gone(State), c)]

fpm_direct_accept_close_gate(c) ==
  [State EXCEPT !.cn[c].life = "held", !.w.listener = "off",
                !.tab = fpm_http_direct_conns_accepted(@, Gone(State), c)]

Accept(c) ==
  /\ Loop /\ w.listener = "on" /\ cn[c].life = "queue"
  /\ Become(fpm_direct_accept_close_gate(c))

\* accept() fails: out of descriptors.  (A pause that cannot get its timer
\* enables the listener again: no step.)
fpm_http_accept_backoff_error ==
  /\ Loop /\ w.listener = "on" /\ \E c \in Conns : cn[c].life = "queue"
  /\ Become([State EXCEPT !.w.listener = "off", !.w.paused = TRUE])

\* Mutant: the pause is not over for the gate.
fpm_http_accept_backoff_resume_StaysPaused ==
  /\ Loop /\ w.paused
  /\ LET may == fpm_direct_backoff_may_resume(State)
     IN Become(IF may.yes THEN fpm_direct_accept_enable(may.s) ELSE may.s)

fpm_http_accept_backoff_resume ==
  /\ Loop /\ w.paused
  /\ LET may == fpm_direct_backoff_may_resume([State EXCEPT !.w.paused = FALSE])
     IN Become(IF may.yes THEN fpm_direct_accept_enable(may.s) ELSE may.s)

(* The per-client check sweeps the table, and the pickup has just given    *)
(* the node its fd: a node evhttp let go of before the pickup is freed     *)
(* under the pickup, which goes on with it.  The freed memory still reads  *)
(* as the node, or the child dies.                                         *)
Pickup(c) ==
  /\ Loop /\ c \in Tracked(tab) /\ tab.node[c].watch = "pickup"
  /\ \/ \E p \in {fpm_direct_conn_pickup(tab, Gone(State), c)} :
          \/ /\ c \in Tracked(p.t)
             /\ Become([State EXCEPT !.tab = p.t, !.cn[c].closing = @ \/ p.over])
          \/ /\ c \notin Tracked(p.t)
             /\ \E where \in {"no", "loop"} :
                  Become([State EXCEPT !.tab = fpm_direct_conn_forget(p.t, c),
                                       !.w.stale = TRUE, !.w.broken = where])
     \/ /\ cn[c].life = "gone"   \* getpeername() finds no peer any more
        /\ Become([State EXCEPT !.tab.node[c] = [tab.node[c] EXCEPT !.fd = TRUE, !.checked = TRUE,
                                                                   !.watch = "eof"]])
     \/ /\ cn[c].life = "gone"   \* ... or its bufferevent has no fd any more
        /\ Become([State EXCEPT !.tab = fpm_direct_conn_forget(@, c)])

PeerLeaves(s, c) == [s EXCEPT !.cn[c].closing = TRUE, !.cn[c].left = 0]

fpm_direct_conn_eof(c) ==
  LET s == [State EXCEPT !.tab = fpm_direct_conn_forget(@, c)]
  IN /\ Loop /\ c \in Tracked(tab) /\ tab.node[c].watch = "eof"
     /\ \/ cn[c].life = "gone" /\ Become(s)
        \/ cn[c].life = "held" /\ cn[c].sock = 0 /\ Become(PeerLeaves(s, c))

\* A byte evhttp reads first leaves the watcher as it was.
FirstByte(c) ==
  LET After(n) == [State EXCEPT !.tab = fpm_direct_conn_first_byte(@, Gone(State), c, n)]
  IN /\ Loop /\ c \in Tracked(tab) /\ tab.node[c].watch = "byte"
     /\ \/ cn[c].life = "gone" /\ Become(After(0))
        \/ cn[c].life = "held" /\ cn[c].sock > 0 /\ Become(After(1))
        \/ cn[c].life = "held" /\ cn[c].sock = 0 /\ Become(PeerLeaves(After(0), c))

fpm_direct_conn_deadline_fire(c) ==
  /\ Loop /\ c \in Tracked(tab) /\ tab.node[c].armed
  /\ Become([State EXCEPT !.tab = fpm_direct_conn_forget(@, c),
                          !.cn[c].closing = @ \/ cn[c].life = "held"])

-----------------------------------------------------------------------------
(* evhttp: it reads, calls the request callback, writes and lets go.       *)

Read(c) ==
  LET all == cn[c].buf + cn[c].sock
      s   == [State EXCEPT !.cn[c].sock = 0, !.cn[c].buf = IF all >= 2 THEN all - 2 ELSE all]
  IN /\ Loop /\ cn[c].life = "held" /\ cn[c].phase = "read"
     /\ cn[c].sock > 0 \/ all >= 2
     /\ IF all >= 2 THEN fpm_direct_handle(s, c) ELSE Become(s)

\* While it writes, evhttp goes on reading into its input.
ReadAhead(c) ==
  /\ Loop /\ cn[c].life = "held" /\ cn[c].phase = "reply" /\ cn[c].sock > 0
  /\ Become([State EXCEPT !.cn[c].sock = 0, !.cn[c].buf = @ + cn[c].sock])

\* The response is out: the completion callback, then close or keep alive.
ReplyDone(c) ==
  LET s == CASE cn[c].done = "response" -> fpm_direct_response_done(State, c)
             [] cn[c].done = "budget"   -> fpm_direct_budget_restart(State, c)
             [] OTHER                   -> State
  IN /\ Loop /\ cn[c].life = "held" /\ cn[c].phase = "reply" /\ cn[c].done # "none"
     /\ Become(IF cn[c].last THEN [s EXCEPT !.cn[c] = Freed]
               ELSE [s EXCEPT !.cn[c].phase = "read", !.cn[c].done = "none"])

\* The connection times out, fails or is closed: evhttp lets go of it.
LetGo(c) ==
  /\ Loop /\ cn[c].life = "held"
  /\ LET s == IF cn[c].closecb THEN fpm_direct_response_closed(State, c) ELSE State
     IN Become([s EXCEPT !.cn[c] = Freed])

-----------------------------------------------------------------------------
(* Clients, signals and time.                                              *)

Send(c) ==
  /\ cn[c].life # "gone" /\ cn[c].left > 0
  /\ Become([State EXCEPT !.cn[c].sock = @ + 1, !.cn[c].left = @ - 1])

fpm_direct_stop ==
  /\ w.broken = "no" /\ ~w.stopping
  /\ Become([State EXCEPT !.w.stopping = TRUE])

fpm_direct_retire_signal ==
  /\ w.broken = "no" /\ ~w.retiring
  /\ Become([State EXCEPT !.w.retiring = TRUE])

GraceOver ==
  /\ w.broken = "no" /\ w.grace = "running"
  /\ Become([State EXCEPT !.w.grace = "over"])

OfConnection(c) ==
  \/ Stream(c) \/ Cut(c) \/ fpmng_respond(c) \/ ScriptEnds(c)
  \/ Accept(c) \/ Pickup(c) \/ fpm_direct_conn_eof(c) \/ FirstByte(c)
  \/ fpm_direct_conn_deadline_fire(c)
  \/ Read(c) \/ ReadAhead(c) \/ ReplyDone(c) \/ LetGo(c)

Next ==
  \/ \E c \in Conns : OfConnection(c)
  \/ ~Exited /\ \E c \in Conns : Send(c)
  \/ fpm_direct_tick \/ fpm_http_accept_backoff_error \/ fpm_http_accept_backoff_resume
  \/ fpm_direct_stop \/ fpm_direct_retire_signal \/ GraceOver

Spec == Init /\ [][Next]_vars

(* The loop runs its timers and ready descriptors, scripts end, evhttp's   *)
(* inactivity timeouts end every connection, and time passes.  Nobody owes *)
(* the child a signal.                                                     *)
Fairness ==
  /\ WF_vars(OneTick("no")) /\ WF_vars(fpm_http_accept_backoff_resume)
  /\ WF_vars(GraceOver)
  /\ \A c \in Conns : /\ WF_vars(ScriptEnds(c)) /\ WF_vars(Pickup(c))
                      /\ WF_vars(LetGo(c))

FairSpec == Spec /\ Fairness

-----------------------------------------------------------------------------
(* Properties.                                                             *)

TypeOK == tab \in Table /\ cn \in [Conns -> Connection] /\ w \in Worker

\* A connection nobody has decided to end.
Stays(c) == cn[c].life = "held" /\ ~cn[c].closing /\ ~cn[c].last

(* pending is exactly the responses of PHP and of static files that were   *)
(* handed to libevent and are not over yet, through every ending: written, *)
(* closed by the client, streamed, cut short, sent by fpmng_respond().     *)
(* The drains wait on this number; error and local replies are not in it.  *)
PendingExact ==
  w.pending = Cardinality({c \in Conns : cn[c].closecb})

(* http.max_connections: the connections the child means to keep never     *)
(* exceed the limit, whatever the sweeps have reached.                     *)
ConnectionCap ==
  tab.limits.max > 0 => Cardinality({c \in Conns : Stays(c)}) <= tab.limits.max

(* A gate that a tick leaves shut at http.max_connections is shut for      *)
(* connections that are there, not for nodes that no bounded sweep has     *)
(* reached (fpm_http_direct_conns_may_accept()).                           *)
GateShutForReason ==
  [][fpm_direct_tick /\ w'.listener = "off" /\ ~w'.paused /\ ~w'.stopping /\ ~w'.retiring
       => \A c \in Tracked(tab') : cn'[c].life = "held" \/ tab'.node[c].watch = "pickup"]_vars

(* A child that stops leaves no counted response behind: each is counted   *)
(* before the tick of the same callback may break the loop                 *)
(* (fpm_direct_send_buffered(), fpm_direct_tick_body()).                   *)
StopLeavesNone == w.stopping /\ w.broken # "no" /\ ~w.stale => w.pending = 0

(* The number the drains wait on (struct fpm_direct_worker): it is exact,  *)
(* and a stop waits for it.                                                *)
PendingSound == PendingExact /\ StopLeavesNone

(* http.max_connections_per_client: whichever of the pickup and the        *)
(* request comes first, a client is served on no more connections.         *)
ClientCap ==
  tab.limits.per_client > 0 =>
    \A c \in Conns :
      Cardinality({d \in Tracked(tab) : /\ Client[d] = Client[c] /\ tab.node[d].served
                                        /\ cn[d].life = "held"}) <= tab.limits.per_client

(* A connection evhttp is reading a request from has the deadline running  *)
(* or the watcher that starts it: no ending of a response loses both.      *)
RequestWatched ==
  \A c \in Conns :
    Stays(c) /\ cn[c].phase = "read" /\ w.broken = "no" =>
      c \in Tracked(tab) /\ (tab.node[c].armed \/ tab.node[c].watch = "byte")

(* The pause timer of the accept backoff never outlives the listener it    *)
(* will touch.                                                             *)
TimerHasListener == w.paused => w.listener # "gone"

(* The connections of a child as a whole (fpm_http_direct_conn.c): neither *)
(* limit is exceeded, no request is read without a deadline, and no timer  *)
(* outlives its listener.                                                  *)
TableSound == TypeOK /\ ConnectionCap /\ ClientCap /\ RequestWatched /\ TimerHasListener

\* The loop was left by a child that was retiring and still has time.
LeftEarly == w.broken \in {"loop", "handler"} /\ ~w.stopping /\ ~w.stale /\ w.grace # "over"

Unserved == w.pending > 0 \/ \E c \in Conns : Stays(c)

(* A child that entered its retirement (fpm_direct_retire_enter) leaves    *)
(* the loop before its grace is over only when it holds no connection and  *)
(* no response is being written.                                           *)
RetireKeepsConnections ==
  [][w.broken = "no" /\ LeftEarly' /\ w'.grace = "running" => ~Unserved']_vars

(* fpm_http_direct.c:408: "Before the deadline both halves matter": a      *)
(* child that retires always gets its grace, wherever in a tick the signal *)
(* lands.                                                                  *)
RetireGetsGrace == LeftEarly => ~Unserved

(* fpm_http_direct.c:459: the request callback must not break the event    *)
(* loop, because the response being built would stay unwritten.            *)
AnswerLeaves == w.broken = "handler" => w.pending = 0

(* fpm_http_direct_conn.c:226 and :421: the pickup works on a node that is *)
(* in the table.                                                           *)
PickupHasNode == ~w.stale

(* The accept gate, closed by every accept, by the connection limit and by *)
(* the backoff, opens again; a child told to stop or to retire exits.      *)
ServesOrLeaves ==
  []<>(Exited \/ (w.listener = "on" /\ ~w.stopping /\ ~w.retiring))

(* The accept gate as a whole (fpm_direct_tick_body()): it is shut for a   *)
(* reason, and not for good.                                               *)
GateServes == GateShutForReason /\ ServesOrLeaves

(* The table lets go of every connection evhttp let go of, so that no      *)
(* descriptor is held for good.                                            *)
NodesReleased == []<>(Exited \/ Tracked(tab) \cap Gone(State) = {})
=============================================================================
