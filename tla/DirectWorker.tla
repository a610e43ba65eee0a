---------------------------- MODULE DirectWorker ----------------------------
(***************************************************************************)
(* The worker executor of an http-direct pool (fpm_http_direct_worker.c):  *)
(* one PHP script holds many requests at once and answers them through the *)
(* fpmng_worker_*() builtins, between the callbacks of the event loop that *)
(* accepts, reads and writes the connections.  Everything runs in one      *)
(* thread: a builtin or a callback is one step.                            *)
(*                                                                         *)
(* The script is any script: it takes requests, answers, streams or holds  *)
(* them, and returns when it likes.                                        *)
(***************************************************************************)
EXTENDS Naturals, Sequences, FiniteSets

CONSTANTS Clients,   \* the connections, one request at a time on each
          WkConfs,   \* the configurations to choose from
          OutCap     \* pieces of output counted on a connection

VARIABLES wkconf,  \* max: worker.max_pending, maxreq: pm.max_requests (0: off),
                   \* timeout: worker.request_timeout, limit: worker.send_buffer_limit
                   \* in pieces (0: off), threshold: worker.accept_threshold (0: off),
                   \* crash: the script may return unasked; ids: requests sent at most
          fw       \* struct fpm_worker_state, the pending table and the connections

wkvars == <<wkconf, fw>>

\* wire: where the request of the connection is: none, its bytes on the socket
\* (unread, or late when they came after the script ended), given to the
\* worker, or its whole reply queued.  out: pieces of output not yet written.
\* cb: evhttp's close callback.  lines: status lines sent for this request.
\* asked: the kind of request, old: one that cannot be streamed to.
NoConn == [open |-> FALSE, wire |-> "none", asked |-> "ok", id |-> 0, out |-> 0, cb |-> "none",
           counted |-> FALSE, close |-> FALSE, lines |-> 0]

Asked == {"ok", "old", "refused", "ping"}

-----------------------------------------------------------------------------
(* Replies.                                                                *)

\* fpm_worker_notify(): a byte in the pipe the script watches.
fpm_worker_notify(s) == [s EXCEPT !.notify = TRUE]

\* Piece: what libevent has queued on a connection and not written.
Queued(k) == IF k.out < OutCap THEN [k EXCEPT !.out = @ + 1] ELSE k

\* fpm_worker_reply_settled() as a mutant: the close callback stays.
fpm_worker_reply_settled_Twice(s, c) == [s EXCEPT !.unflushed = IF @ > 0 THEN @ - 1 ELSE 0]

fpm_worker_reply_settled(s, c) ==
  [s EXCEPT !.unflushed = IF @ > 0 THEN @ - 1 ELSE 0, !.conn[c].cb = "none"]

fpm_worker_count_reply(s, c) ==
  [s EXCEPT !.conn[c].cb = "aborted", !.conn[c].counted = TRUE, !.unflushed = @ + 1]

\* fpm_worker_send_error(), fpm_worker_send_reply(): one whole reply.
\* evhttp_send_error() closes the connection after it.
fpm_worker_send(s, c, close) ==
  LET r == fpm_worker_count_reply(s, c)
  IN  [r EXCEPT !.conn[c] = Queued([@ EXCEPT !.wire = "replied", !.close = close, !.lines = @ + 1])]

\* fpm_worker_reap(): the slot of worker.max_pending is free again.
fpm_worker_reap(s, id) == [s EXCEPT !.pending = [i \in DOMAIN @ \ {id} |-> @[i]]]

\* fpm_worker_stopping = 1 with the reason of the recycle.
Stopping(s) == IF s.stopping THEN s ELSE fpm_worker_notify([s EXCEPT !.stopping = TRUE])

fpm_worker_account_answered_request(s) ==
  LET t == [s EXCEPT !.answered = @ + 1]
  IN  IF wkconf.maxreq > 0 /\ t.answered >= wkconf.maxreq THEN Stopping(t) ELSE t

\* fpmng_worker_closed_requests() reads this ring; when full it drops the oldest.
Closed(s, id) == IF Len(s.closed) < wkconf.max THEN Append(s.closed, id) ELSE Append(Tail(s.closed), id)

\* fpm_worker_conn_closed() as a mutant: the script is not told.
fpm_worker_conn_closed_Silent(s, id) == fpm_worker_reap([s EXCEPT !.closed = Closed(s, id)], id)

\* fpm_worker_conn_closed(): the client went before its request was answered.
fpm_worker_conn_closed(s, id) ==
  LET t == fpm_worker_notify([s EXCEPT !.closed = Closed(s, id), !.pending[id].http = FALSE])
  IN  IF s.phase = "run" THEN fpm_worker_reap(t, id) ELSE t

-----------------------------------------------------------------------------
(* Connections (evhttp) and the accept ceiling.                            *)

fpm_worker_accept_maybe_close(s) ==
  IF wkconf.threshold = 0 \/ s.gate \/ s.taken < wkconf.threshold THEN s
  ELSE [s EXCEPT !.gate = TRUE, !.cooling = TRUE]

\* fpm_worker_accept_hook(), and the connection evhttp makes of it.
fpm_worker_accept_hook(c) ==
  /\ fw.phase = "run" /\ ~fw.gate /\ ~fw.conn[c].open
  /\ fw' = fpm_worker_accept_maybe_close([fw EXCEPT !.conn[c] = [NoConn EXCEPT !.open = TRUE],
                                                    !.taken = IF wkconf.threshold > 0 THEN @ + 1 ELSE @])

\* fpm_worker_accept_reopen() as mutants: the count of the window goes on, or is
\* asked whether the window is over.
fpm_worker_accept_reopen_NoReset(s) == [s EXCEPT !.gate = FALSE]

fpm_worker_accept_reopen_Counts(s) ==
  IF ~s.gate \/ s.taken >= wkconf.threshold THEN s ELSE [s EXCEPT !.gate = FALSE]

\* fpm_worker_accept_reopen(); its call at the top of fpmng_worker_loop() finds
\* nothing to do when the timer has run.
fpm_worker_accept_reopen(s) ==
  IF ~s.gate \/ s.cooling THEN s ELSE [s EXCEPT !.taken = 0, !.gate = FALSE]

fpm_worker_accept_tick ==
  /\ fw.phase = "run" /\ fw.cooling
  /\ fw' = fpm_worker_accept_reopen([fw EXCEPT !.cooling = FALSE])

\* A client sends a request on an idle connection.
Sends(c) ==
  /\ fw.phase # "exited" /\ fw.conn[c].open /\ fw.conn[c].wire = "none" /\ fw.sent < wkconf.ids
  /\ \E a \in Asked :
       fw' = [fw EXCEPT !.sent = @ + 1, !.conn[c].asked = a, !.conn[c].lines = 0, !.conn[c].counted = FALSE,
                        !.conn[c].wire = IF fw.phase = "run" THEN "unread" ELSE "late"]

\* The connection ends: the client hung up, or http.read_timeout passed.
Leaves(c) ==
  LET k == fw.conn[c]
      s == [fw EXCEPT !.conn[c] = NoConn]
  IN  /\ fw.phase # "exited" /\ k.open
      /\ fw' = CASE k.cb = "conn_closed" -> fpm_worker_conn_closed(s, k.id)
                 [] k.cb = "aborted"     -> fpm_worker_reply_settled(s, c)
                 [] OTHER                -> s

\* evhttp_send_done(): the whole reply is on the socket, on_complete_cb runs.
Done(s, c) ==
  LET t == IF s.conn[c].counted THEN fpm_worker_reply_settled(s, c) ELSE s
  IN  [t EXCEPT !.conn[c] = IF @.close THEN NoConn ELSE [@ EXCEPT !.wire = "none", !.id = 0]]

\* The client reads what was queued for it.
Writes(c) ==
  LET s == [fw EXCEPT !.conn[c].out = 0]
  IN  /\ fw.phase # "exited" /\ fw.conn[c].out > 0
      /\ fw' = IF fw.conn[c].wire = "replied" THEN Done(s, c) ELSE s

-----------------------------------------------------------------------------
(* A request arrives.                                                      *)

Saturated(s) == Len(s.ready) >= wkconf.max \/ Cardinality(DOMAIN s.pending) >= wkconf.max

Fresh(c) == [conn |-> c, http |-> TRUE, streaming |-> FALSE, backpressured |-> FALSE,
             handed |-> FALSE, old |-> FALSE]

\* The tail of fpm_worker_accept(): a new entry, queued for the script.
Accepted(s, c) ==
  LET id == s.next
  IN  fpm_worker_notify(
        [s EXCEPT !.next = @ + 1, !.ready = Append(@, id),
                  !.pending = [i \in DOMAIN @ \cup {id} |-> IF i = id THEN Fresh(c) ELSE @[i]],
                  !.conn[c].wire = "read", !.conn[c].id = id, !.conn[c].cb = "conn_closed"])

\* fpm_worker_accept() as a mutant: only the queue is held to the ceiling.
fpm_worker_accept_QueueOnly(s, c) ==
  CASE s.conn[c].asked = "refused" -> fpm_worker_send(s, c, TRUE)
    [] s.conn[c].asked # "refused" /\ (s.stopping \/ Len(s.ready) >= wkconf.max)
         -> Stopping(fpm_worker_send(s, c, TRUE))
    [] OTHER -> Accepted(s, c)

\* fpm_worker_accept(): the access list and the authority, the ceiling, the
\* ping path (whose reply is not counted), then the script's queue.
fpm_worker_accept(s, c) ==
  CASE s.conn[c].asked = "refused" -> fpm_worker_send(s, c, TRUE)
    [] s.conn[c].asked # "refused" /\ (s.stopping \/ Saturated(s)) -> Stopping(fpm_worker_send(s, c, TRUE))
    [] s.conn[c].asked = "ping" /\ ~s.stopping /\ ~Saturated(s)
         -> [s EXCEPT !.conn[c] = Queued([@ EXCEPT !.wire = "replied", !.cb = "none", !.lines = @ + 1])]
    [] OTHER -> Accepted(s, c)

Unread(c) == fw.conn[c].open /\ fw.conn[c].wire \in {"unread", "late"}

Accept(c) ==
  /\ fw.phase \in {"run", "flush"} /\ Unread(c)
  /\ fw' = fpm_worker_accept(fw, c)

-----------------------------------------------------------------------------
(* The builtins.                                                           *)

\* The notify watcher of the script reads the pipe, then drains both rings.
ReadsPipe ==
  /\ fw.phase = "run" /\ fw.notify
  /\ fw' = [fw EXCEPT !.notify = FALSE, !.draining = TRUE]

fpmng_worker_closed_requests ==
  /\ fw.phase = "run" /\ fw.draining /\ fw.closed # <<>>
  /\ fw' = [fw EXCEPT !.closed = <<>>]

Live(s, id) == id \in DOMAIN s.pending /\ s.pending[id].http

\* fpmng_worker_next_request(): dead ids are dropped on the way to a live one.
fpmng_worker_next_request ==
  LET n    == CHOOSE i \in 1..(Len(fw.ready) + 1) :
                /\ i <= Len(fw.ready) => Live(fw, fw.ready[i])
                /\ \A j \in 1..(i - 1) : ~Live(fw, fw.ready[j])
      dead == {fw.ready[j] : j \in 1..(n - 1)}
      s    == [fw EXCEPT !.pending = [i \in DOMAIN @ \ dead |-> @[i]], !.ready = SubSeq(@, n + 1, Len(@))]
  IN  /\ fw.phase = "run" /\ fw.draining /\ fw.closed = <<>>
      /\ fw' = IF n <= Len(fw.ready) THEN [s EXCEPT !.pending[fw.ready[n]].handed = TRUE]
               ELSE [s EXCEPT !.draining = FALSE]

\* Requests the script knows.
Handed == {id \in DOMAIN fw.pending : fw.pending[id].handed}

\* Whether this reply is the last of the worker, and says so.
LastReply(s) == s.stopping \/ (wkconf.maxreq > 0 /\ s.answered + 1 >= wkconf.maxreq)

\* fpmng_worker_respond(); with a header that cannot be sent the reply is a 500.
Respond(s, id, ok) ==
  LET c == s.pending[id].conn
  IN  IF ok THEN fpm_worker_account_answered_request(fpm_worker_reap(fpm_worker_send(s, c, LastReply(s)), id))
      ELSE fpm_worker_reap(fpm_worker_send(s, c, TRUE), id)

fpmng_worker_respond(id) == ~fw.pending[id].streaming /\ \E ok \in BOOLEAN : fw' = Respond(fw, id, ok)

\* fpmng_worker_respond_start(): refused for HTTP/1.0, HEAD and bodyless statuses.
fpmng_worker_respond_start(id) ==
  LET c == fw.pending[id].conn
  IN  /\ ~fw.pending[id].streaming /\ fw.conn[c].asked # "old"
      /\ \/ fw' = [fw EXCEPT !.pending[id].streaming = TRUE,
                             !.conn[c] = Queued([@ EXCEPT !.lines = @ + 1, !.close = fw.stopping])]
         \/ fw' = fpm_worker_reap(fpm_worker_send(fw, c, TRUE), id)

\* fpmng_worker_respond_chunk(): refused at worker.send_buffer_limit.
fpmng_worker_respond_chunk(id) ==
  LET c    == fw.pending[id].conn
      full == wkconf.limit > 0 /\ fw.conn[c].out + 1 > wkconf.limit
  IN  /\ fw.pending[id].streaming
      /\ fw' = IF full THEN [fw EXCEPT !.pending[id].backpressured = TRUE]
               ELSE [fw EXCEPT !.pending[id].backpressured = FALSE, !.conn[c] = Queued(@)]

\* fpmng_worker_respond_end()
End(s, id) ==
  LET c == s.pending[id].conn
      t == fpm_worker_count_reply(s, c)
  IN  [t EXCEPT !.conn[c] = Queued([@ EXCEPT !.wire = "replied"])]

fpmng_worker_respond_end(id) ==
  /\ fw.pending[id].streaming
  /\ fw' = fpm_worker_account_answered_request(fpm_worker_reap(End(fw, id), id))

\* fpm_send_early_hints(): an interim head ahead of the reply.
fpm_send_early_hints(id) ==
  LET c == fw.pending[id].conn
  IN  /\ ~fw.pending[id].streaming /\ fw.conn[c].asked # "old"
      /\ fw' = [fw EXCEPT !.conn[c] = Queued(@)]

\* fpmng_worker_may_exit() as a mutant: it asks the script's own book.
fpmng_worker_may_exit_Handed(s) ==
  s.stopping /\ \A id \in DOMAIN s.pending : s.pending[id].handed =>
                   s.pending[id].streaming /\ s.pending[id].backpressured

\* ... and a stream whose client does not read is waited for.
fpmng_worker_may_exit_Waits(s) == s.stopping /\ \A id \in DOMAIN s.pending : ~s.pending[id].http

fpmng_worker_may_exit(s) ==
  s.stopping /\ \A id \in DOMAIN s.pending : s.pending[id].http =>
                   s.pending[id].streaming /\ s.pending[id].backpressured

-----------------------------------------------------------------------------
(* Timers and signals.                                                     *)

\* worker.request_timeout passes for a request.
Ages(id) ==
  /\ fw.phase = "run" /\ wkconf.timeout /\ ~fw.pending[id].old
  /\ fw' = [fw EXCEPT !.pending[id].old = TRUE]

\* Requests past worker.request_timeout as a mutant: streams too.
Expired_Streams(s) == {id \in DOMAIN s.pending : s.pending[id].http /\ s.pending[id].old}

\* Requests past worker.request_timeout; a started stream is exempt.
Expired(s) == {id \in DOMAIN s.pending : s.pending[id].http /\ s.pending[id].old /\ ~s.pending[id].streaming}

\* fpm_worker_sweep_expired(): 504 for each, and its slot back.
Swept(s, ids) ==
  LET at(c) == {id \in ids : s.pending[id].conn = c}
  IN  [s EXCEPT !.unflushed = @ + Cardinality(ids),
                !.pending = [i \in DOMAIN @ \ ids |-> @[i]],
                !.conn = [c \in Clients |->
                   IF at(c) = {} THEN @[c]
                   ELSE Queued([@[c] EXCEPT !.wire = "replied", !.close = TRUE, !.lines = @ + 1,
                                            !.cb = "aborted", !.counted = TRUE])]]

fpm_worker_sweep_expired ==
  /\ fw.phase = "run" /\ wkconf.timeout /\ Expired(fw) # {}
  /\ fw' = Swept(fw, Expired(fw))

\* fpm_worker_stop_signal(), and fpm_worker_health_sweep() when the worker is
\* too big or too old.
fpm_worker_stop_signal ==
  /\ fw.phase = "run" /\ ~fw.stopping
  /\ fw' = Stopping(fw)

-----------------------------------------------------------------------------
(* The end of the script (fpm_worker_finish_output()).                     *)

LiveIds(s) == {id \in DOMAIN s.pending : s.pending[id].http}

\* Every unanswered request gets a 503, every stream its terminating chunk.
Owed(s) ==
  LET ids   == LiveIds(s)
      at(c) == {id \in ids : s.pending[id].conn = c}
      str(c) == \E id \in at(c) : s.pending[id].streaming
  IN  [s EXCEPT !.stopping = TRUE, !.phase = "drain", !.passes = 0, !.draining = FALSE,
                !.unflushed = @ + Cardinality(ids),
                !.pending = [i \in DOMAIN @ |-> [@[i] EXCEPT !.http = FALSE]],
                !.conn = [c \in Clients |->
                   IF at(c) = {} THEN @[c]
                   ELSE Queued([@[c] EXCEPT !.wire = "replied", !.cb = "aborted", !.counted = TRUE,
                                            !.close = str(c) => @, !.lines = IF str(c) THEN @ ELSE @ + 1])]]

\* The script returns: asked to and with nothing left, or unasked.
ScriptEnds ==
  /\ fw.phase = "run"
  /\ fpmng_worker_may_exit(fw) \/ wkconf.crash
  /\ fw' = Owed(fw)

\* After the drain: nothing unwritten, or the flush of one second.
Flush(s) == [s EXCEPT !.phase = IF s.unflushed = 0 THEN "exited" ELSE "flush"]

Passes == 4

\* fpm_worker_grace_drain() as a mutant: requests already sent are not read.
fpm_worker_grace_drain_None == fw.phase = "drain" /\ fw' = Flush(fw)

\* One pass of fpm_worker_grace_drain(): every request on an open connection is
\* read and refused; the next pass only when this one queued a reply, and the
\* cap of 100 ms may end it after the first.
fpm_worker_grace_drain ==
  LET here == {c \in Clients : Unread(c)}
      s    == [fw EXCEPT !.passes = @ + 1, !.unflushed = @ + Cardinality(here),
                         !.conn = [c \in Clients |->
                            IF c \notin here THEN @[c]
                            ELSE Queued([@[c] EXCEPT !.wire = "replied", !.close = TRUE, !.lines = @ + 1,
                                                     !.cb = "aborted", !.counted = TRUE])]]
  IN  /\ fw.phase = "drain"
      /\ \/ fw' = IF here = {} \/ s.passes = Passes THEN Flush(s) ELSE s
         \/ fw.passes > 0 /\ fw' = Flush(fw)

\* The flush ends when all is written, or at FPM_WORKER_FLUSH_BUDGET.
Flushed ==
  /\ fw.phase = "flush"
  /\ \/ fw.unflushed = 0 /\ fw' = [fw EXCEPT !.phase = "exited"]
     \/ fw.unflushed > 0 /\ fw' = [fw EXCEPT !.phase = "exited", !.expired = TRUE]

-----------------------------------------------------------------------------
WkInit ==
  /\ wkconf \in WkConfs
  /\ fw = [phase |-> "run", stopping |-> FALSE, notify |-> FALSE, draining |-> FALSE,
           pending |-> [i \in {} |-> 0], ready |-> <<>>, closed |-> <<>>, next |-> 1, sent |-> 0, answered |-> 0,
           taken |-> 0, gate |-> FALSE, cooling |-> FALSE, unflushed |-> 0, passes |-> 0,
           expired |-> FALSE, conn |-> [c \in Clients |-> NoConn]]

\* The handler of one request calls a builtin.
Handler(id) ==
  /\ fw.phase = "run"
  /\ \/ fpmng_worker_respond(id)
     \/ fpmng_worker_respond_start(id)
     \/ fpmng_worker_respond_chunk(id)
     \/ fpmng_worker_respond_end(id)
     \/ fpm_send_early_hints(id)

Wire(c) == fpm_worker_accept_hook(c) \/ Sends(c) \/ Leaves(c) \/ Writes(c) \/ Accept(c)

WkNext ==
  /\ UNCHANGED wkconf
  /\ \/ \E c \in Clients : Wire(c)
     \/ \E id \in Handed : Handler(id)
     \/ \E id \in DOMAIN fw.pending : Ages(id)
     \/ ReadsPipe \/ fpmng_worker_closed_requests \/ fpmng_worker_next_request
     \/ fpm_worker_accept_tick \/ fpm_worker_sweep_expired \/ fpm_worker_stop_signal
     \/ ScriptEnds \/ fpm_worker_grace_drain \/ Flushed

\* The loop reads its sockets and runs the timer of the gate.
LoopRuns ==
  /\ UNCHANGED wkconf
  /\ (\E c \in Clients : Accept(c)) \/ fpm_worker_accept_tick

\* Time passes, and the sweep and the bounded end of the worker run on it.
TimeRuns ==
  /\ UNCHANGED wkconf
  /\ \/ \E id \in DOMAIN fw.pending : Ages(id)
     \/ fpm_worker_sweep_expired \/ fpm_worker_grace_drain \/ Flushed

\* A script that keeps its side: it drains what it is told of, ends its streams
\* when it is asked to stop, except one that waits for its client to read, and
\* returns when it may.
Bridge ==
  /\ UNCHANGED wkconf
  /\ \/ ReadsPipe \/ fpmng_worker_closed_requests \/ fpmng_worker_next_request
     \/ fw.phase = "run" /\ fw.stopping
        /\ \E id \in Handed : ~fw.pending[id].backpressured /\ fpmng_worker_respond_end(id)
     \/ fw.phase = "run" /\ fpmng_worker_may_exit(fw) /\ fw' = Owed(fw)

WkFair == WF_wkvars(LoopRuns) /\ WF_wkvars(TimeRuns) /\ WF_wkvars(Bridge)

-----------------------------------------------------------------------------
WkTypeOK ==
  /\ wkconf \in WkConfs
  /\ fw.phase \in {"run", "drain", "flush", "exited"}
  /\ fw.unflushed \in 0..Cardinality(Clients) /\ fw.taken \in 0..(wkconf.threshold + 1)
  /\ DOMAIN fw.pending \subseteq 1..wkconf.ids /\ fw.answered \in 0..wkconf.ids
  /\ \A c \in Clients : fw.conn[c].out \in 0..OutCap /\ fw.conn[c].asked \in Asked
  /\ {fw.stopping, fw.notify, fw.gate, fw.cooling, fw.expired} \subseteq BOOLEAN

\* fpm_worker_count_reply() and fpm_worker_reply_settled(): the count the end
\* of the worker waits for is the number of replies not on their sockets.
UnflushedExact ==
  fw.phase # "exited" =>
    fw.unflushed = Cardinality({c \in Clients : fw.conn[c].wire = "replied" /\ fw.conn[c].counted})

\* The pending table (issue #444): while the script runs every slot belongs to
\* an open connection whose client still waits, and the ceiling holds.
SlotsLive ==
  fw.phase = "run" =>
    /\ Cardinality(DOMAIN fw.pending) <= wkconf.max /\ Len(fw.ready) <= wkconf.max
    /\ \A id \in DOMAIN fw.pending :
         fw.pending[id].http /\ fw.conn[fw.pending[id].conn].open /\ fw.conn[fw.pending[id].conn].id = id

\* fpm_worker_notify(): a request the script has not been given is in its
\* queue, and a queue or a ring with news has a byte in the pipe or a script
\* that is draining.
NoLostWakeup ==
  fw.phase = "run" =>
    /\ \A id \in DOMAIN fw.pending : ~fw.pending[id].handed => \E i \in 1..Len(fw.ready) : fw.ready[i] = id
    /\ (LiveIds(fw) \ Handed # {} \/ fw.closed # <<>>) => fw.notify \/ fw.draining

\* evhttp writes one status line per request: a started stream is never
\* answered a second time by the handler, the sweep or the end of the worker.
OneAnswer == \A c \in Clients : fw.conn[c].lines <= 1

\* The reply rule of fpm_worker_finish_output(): when the worker is gone, a
\* request sent before its script ended has its whole reply on the socket,
\* unless the flush ran out of time.
ReplyRule ==
  fw.phase = "exited" =>
    \A c \in Clients : /\ fw.conn[c].wire \notin {"unread", "read"}
                       /\ fw.conn[c].wire = "replied" /\ fw.conn[c].counted => fw.expired

\* fpmng_worker_may_exit(): a script that leaves when it may leaves no request
\* to be refused; only streams whose client does not read are ended for it.
LeavesNoneOwed ==
  [][fw.phase = "run" /\ fw'.phase = "drain" /\ ~wkconf.crash =>
       \A id \in LiveIds(fw) : fw.pending[id].streaming]_wkvars

\* worker.accept_threshold: a closed gate opens again.
GateReopens == fw.gate ~> (~fw.gate \/ fw.phase # "run")

\* A worker asked to stop leaves, when worker.request_timeout bounds what its
\* handlers do not answer.
WorkerRetires == (wkconf.timeout /\ fw.stopping) ~> fw.phase = "exited"

\* The executor as a whole: its counts, slots and wakeups agree with the
\* requests it holds, a request has one answer, and a worker that may exit
\* owes none (fpm_http_direct_worker.c).
WorkerSound ==
  /\ [](WkTypeOK /\ UnflushedExact /\ SlotsLive /\ NoLostWakeup /\ OneAnswer /\ ReplyRule)
  /\ LeavesNoneOwed
=============================================================================
