---------------------------- MODULE GatewayProcs ----------------------------
(***************************************************************************)
(* The gateway processes of one pool and the master that keeps them        *)
(* (fpm_http_gw_proc.c, fpm_http_drain.c, fpm_error_log_follow.c,          *)
(* fpm_children_extra.c): spawn, respawn with a burst limit, the soft      *)
(* window of http.ready_path, the drain, the SIGKILL that ends a stop, and *)
(* the channel that tells a process that the logs were reopened.           *)
(*                                                                         *)
(* One tick of time is the margin the gateway keeps before the master's    *)
(* deadline.  A process that is not wedged starts, and runs a due callback, *)
(* before the next tick.                                                   *)
(***************************************************************************)
EXTENDS Naturals, Sequences, FiniteSets, SequencesExt

CONSTANTS Slots,          \* the gateway processes of the pool (gw->nproc)
          GpConfs,        \* the configurations to choose from
          Burst,          \* FPM_HTTP_RESPAWN_MAX_BURST
          RespawnWindow,  \* FPM_HTTP_RESPAWN_WINDOW_SEC, in ticks
          QLen            \* datagrams a follow channel holds

VARIABLES conf,  \* ready: http.ready_path, pct: process_control_timeout in
                 \* ticks, stops: how many stop signals, rot: how many rotations,
                 \* crashy: the slots whose process may die or wedge
          m,     \* the master
          slot,  \* the master's record of each process
          proc   \* the processes

gpvars == <<conf, m, slot, proc>>

ASSUME BurstAssumption == Burst \in Nat \ {0} /\ RespawnWindow \in Nat /\ QLen \in Nat \ {0}

Signals == {"QUIT", "USR1"}
Alive(p) == p.st \notin {"none", "dead"}
pids(sl) == {s \in Slots : sl[s].pid = "live"}

NoProcess == [st |-> "none", pend |-> {}, busy |-> FALSE, left |-> 0, wedged |-> FALSE,
              err |-> 0, acc |-> 0, hushed |-> FALSE, cut |-> FALSE]

-----------------------------------------------------------------------------
(* What the master does to a slot.                                         *)

\* fpm_error_log_follow_new(), _parent(), _free(): the channel of a slot.
NewChannel == [open |-> TRUE, q |-> <<>>, lost |-> FALSE]
NoChannel == [open |-> FALSE, q |-> <<>>, lost |-> FALSE]

\* fpm_http_gateway_spawn() as a mutant: a fork() that fails leaves the channel.
fpm_http_gateway_spawn_Leaks(sl, s, forks) ==
  [sl EXCEPT ![s] = [@ EXCEPT !.chan = NewChannel, !.pid = IF forks THEN "live" ELSE "failed", !.watched = forks]]

\* fpm_http_gateway_spawn(): a fresh channel, fork(), and the watch on the pid.
\* The child starts with the master's error_log and opens its own access log.
fpm_http_gateway_spawn(sl, s, forks) ==
  [sl EXCEPT ![s] = IF forks THEN [@ EXCEPT !.chan = NewChannel, !.pid = "live", !.watched = TRUE]
                             ELSE [@ EXCEPT !.chan = NoChannel, !.pid = "failed"]]

Forked == [NoProcess EXCEPT !.st = "starting", !.err = m.rot]

\* fpm_http_ready_gateways_alive()
fpm_http_ready_gateways_alive(sl) == conf.ready /\ pids(sl) # {}

\* fpm_http_pool_held_for_window(), for the pool the gateway routes to.
fpm_http_pool_held_for_window(sl) == conf.pct > 0 /\ fpm_http_ready_gateways_alive(sl)

\* fpm_pctl_window_open()
fpm_pctl_window_open(mm, sl) == mm.held /\ fpm_http_ready_gateways_alive(sl)

\* fpm_http_gateways_soft_drain(): SIGUSR1 to the gateways with a probe.
fpm_http_gateways_soft_drain(pr) ==
  [s \in Slots |-> IF conf.ready /\ slot[s].pid = "live"
                   THEN [pr[s] EXCEPT !.pend = @ \cup {"USR1"}] ELSE pr[s]]

\* fpm_pctl_action_last(): the master leaves (fpm_pctl_exit(),
\* fpm_pctl_exec()), but not while a window is open.
fpm_pctl_action_last(mm, sl) ==
  IF fpm_pctl_window_open(mm, sl) THEN mm ELSE [mm EXCEPT !.phase = "leaving"]

\* fpm_pctl_release_deferred() as a mutant: it never looks whether a child is
\* left.
fpm_pctl_release_deferred_NoLast(mm, sl) == [mm EXCEPT !.held = FALSE, !.timer = conf.pct]

\* fpm_pctl_release_deferred()
fpm_pctl_release_deferred(mm, sl) ==
  LET r == [mm EXCEPT !.held = FALSE, !.timer = conf.pct]
  IN  IF ~mm.held THEN mm
      ELSE IF mm.children = "none" THEN fpm_pctl_action_last(r, sl)
      ELSE [r EXCEPT !.children = "told"]

-----------------------------------------------------------------------------
(* The gateway process.                                                    *)

\* fpm_http_drain_deadline_set() as a mutant: no margin.
grace_NoMargin == conf.pct

\* fpm_http_drain_deadline_set(): the timeout less the margin.
grace == IF conf.pct = 0 THEN 0 ELSE conf.pct - 1

\* fpm_http_drain_start(): listeners closed, a deadline of its own.
fpm_http_drain_start(p) ==
  IF p.st = "drain" THEN p ELSE [p EXCEPT !.st = "drain", !.left = grace]

\* fpm_http_drain_soft_start()
fpm_http_drain_soft_start(p) ==
  IF p.st \in {"soft", "drain"} THEN p ELSE [p EXCEPT !.st = "soft", !.left = grace]

\* fpm_http_gateway_sigquit() as a mutant: the window ends at the signal.
fpm_http_gateway_sigquit_Cuts(p) == fpm_http_drain_start(p)

\* fpm_http_gateway_sigquit(): ignored in the window.
fpm_http_gateway_sigquit(p) ==
  IF p.st = "soft" THEN [p EXCEPT !.hushed = TRUE] ELSE fpm_http_drain_start(p)

\* The evsignals: fpm_http_gateway_sigquit(), fpm_http_gateway_sigusr1().
Deliver(p, sig) ==
  LET q == [p EXCEPT !.pend = @ \ {sig}]
  IN  IF sig = "QUIT" THEN fpm_http_gateway_sigquit(q) ELSE fpm_http_drain_soft_start(q)

OnProc(s, p) == proc' = [proc EXCEPT ![s] = p]

\* A process does not come up (bind, resolve, context) and exits.
StartFails(s) ==
  /\ proc[s].st = "starting" /\ ~proc[s].wedged /\ s \in conf.crashy
  /\ OnProc(s, [proc[s] EXCEPT !.st = "dead"])
  /\ UNCHANGED <<conf, m, slot>>

\* fpm_http_gateway_run() as a mutant: the signals are ignored, not blocked,
\* until the evsignals exist.
fpm_http_gateway_run_Ignores(s) ==
  /\ proc[s].st = "starting" /\ ~proc[s].wedged
  /\ OnProc(s, [proc[s] EXCEPT !.st = "serving", !.pend = {}, !.acc = m.rot])
  /\ UNCHANGED <<conf, m, slot>>

\* fpm_http_gateway_run(): SIGQUIT and SIGUSR1 are held blocked from the fork
\* until their evsignals exist; the access log is opened on the way.
fpm_http_gateway_run(s) ==
  /\ proc[s].st = "starting" /\ ~proc[s].wedged
  /\ OnProc(s, [proc[s] EXCEPT !.st = "serving", !.acc = m.rot])
  /\ UNCHANGED <<conf, m, slot>>

\* Two pending signals are dispatched lowest number first.
Signal(s) ==
  /\ proc[s].st \in {"serving", "soft", "drain"} /\ ~proc[s].wedged
  /\ proc[s].pend # {}
  /\ OnProc(s, Deliver(proc[s], IF "QUIT" \in proc[s].pend THEN "QUIT" ELSE "USR1"))
  /\ UNCHANGED <<conf, m, slot>>

\* fpm_http_drain_soft_timeout()
fpm_http_drain_soft_timeout(s) ==
  /\ proc[s].st = "soft" /\ proc[s].left = 0 /\ ~proc[s].wedged
  /\ OnProc(s, fpm_http_drain_start(proc[s]))
  /\ UNCHANGED <<conf, m, slot>>

\* fpm_http_drain_tick(): out when nothing is in flight, or at the deadline.
fpm_http_drain_tick(s) ==
  /\ proc[s].st = "drain" /\ ~proc[s].wedged
  /\ ~proc[s].busy \/ proc[s].left = 0
  /\ OnProc(s, [proc[s] EXCEPT !.st = "dead"])
  /\ UNCHANGED <<conf, m, slot>>

\* A request comes in, or the one in flight is answered.
Request(s) ==
  /\ conf.stops > 0
  /\ proc[s].st \in {"serving", "soft", "drain"} /\ ~proc[s].wedged
  /\ OnProc(s, [proc[s] EXCEPT !.busy = ~@])
  /\ UNCHANGED <<conf, m, slot>>

\* A crash, an OOM kill, or a loop that never returns.
Fails(s) ==
  /\ s \in conf.crashy /\ Alive(proc[s]) /\ ~proc[s].wedged
  /\ \/ OnProc(s, [proc[s] EXCEPT !.st = "dead"])
     \/ conf.stops > 0 /\ OnProc(s, [proc[s] EXCEPT !.wedged = TRUE])
  /\ UNCHANGED <<conf, m, slot>>

-----------------------------------------------------------------------------
(* The master.                                                             *)

\* fpm_http_gateway_on_exit() in NORMAL state as a mutant: the window of the
\* burst limit is never restarted.
Respawn_OneWindow(s, forks) ==
  LET sl == [slot EXCEPT ![s] = [@ EXCEPT !.pid = "none", !.watched = FALSE, !.chan = NoChannel,
                                          !.count = IF @ > Burst THEN @ ELSE @ + 1, !.age = 0]]
  IN  IF slot[s].gave_up \/ sl[s].count > Burst
      THEN slot' = [sl EXCEPT ![s].gave_up = TRUE] /\ OnProc(s, NoProcess)
      ELSE slot' = fpm_http_gateway_spawn(sl, s, forks)
           /\ OnProc(s, IF forks THEN Forked ELSE NoProcess)

\* ... as a mutant: every respawn opens a window of its own.
Respawn_Forgets(s, forks) ==
  slot' = [fpm_http_gateway_spawn(slot, s, forks) EXCEPT ![s].count = 0]
  /\ OnProc(s, IF forks THEN Forked ELSE NoProcess)

\* fpm_http_gateway_on_exit() in NORMAL state: count the death in its window,
\* give up past the burst, else respawn; a fork() that fails leaves the slot
\* empty for good.
Respawn(s, forks) ==
  LET late == slot[s].age > RespawnWindow
      sl == [slot EXCEPT ![s] = [@ EXCEPT !.pid = "none", !.watched = FALSE, !.chan = NoChannel,
                                          !.count = IF late THEN 1 ELSE @ + 1,
                                          !.age = IF late THEN 0 ELSE @]]
  IN  IF slot[s].gave_up
      THEN slot' = [slot EXCEPT ![s] = [@ EXCEPT !.pid = "none", !.watched = FALSE, !.chan = NoChannel]]
           /\ OnProc(s, NoProcess)
      ELSE IF sl[s].count > Burst
      THEN slot' = [sl EXCEPT ![s].gave_up = TRUE] /\ OnProc(s, NoProcess)
      ELSE slot' = fpm_http_gateway_spawn(sl, s, forks)
           /\ OnProc(s, IF forks THEN Forked ELSE NoProcess)

\* fpm_children_extra_handle_exit() and fpm_http_gateway_on_exit(): a watched
\* process is reaped; outside NORMAL the last one with a probe releases the
\* children held back for it.
fpm_http_gateway_on_exit(s) ==
  /\ m.phase \in {"normal", "ending"}
  /\ slot[s].watched /\ proc[s].st = "dead"
  /\ IF m.phase = "normal"
     THEN /\ \E forks \in BOOLEAN : Respawn(s, forks)
          /\ m' = [m EXCEPT !.deaths[s] = IF Len(@) > 2 * Burst THEN @ ELSE <<0>> \o @]
     ELSE LET sl == [slot EXCEPT ![s] = [@ EXCEPT !.pid = "none", !.watched = FALSE, !.chan = NoChannel]]
          IN  /\ m' = IF fpm_http_ready_gateways_alive(sl) THEN m ELSE fpm_pctl_release_deferred(m, sl)
              /\ slot' = sl
              /\ OnProc(s, NoProcess)
  /\ UNCHANGED conf

\* fpm_pctl(): a stop or a reload begins, or a second signal overrides one.
\* The children of the routed pool are held for the window, unless there are
\* none or the hold is overridden.
fpm_pctl(second) ==
  /\ conf.stops >= IF second THEN 2 ELSE 1
  /\ m.phase = IF second THEN "ending" ELSE "normal"
  /\ second => ~m.escalated
  /\ LET mm == [m EXCEPT !.phase = "ending", !.escalated = second, !.timer = conf.pct]
         hold == ~second /\ fpm_http_pool_held_for_window(slot)
     IN  m' = IF m.children = "none" THEN fpm_pctl_action_last(mm, slot)
              ELSE [mm EXCEPT !.held = hold, !.children = IF hold THEN @ ELSE "told"]
  /\ proc' = fpm_http_gateways_soft_drain(proc)
  /\ UNCHANGED <<conf, slot>>

\* The timer of the stop: the window outlived process_control_timeout.
fpm_pctl_timeout ==
  /\ m.phase = "ending" /\ m.held /\ m.timer = 0
  /\ m' = fpm_pctl_release_deferred(m, slot)
  /\ UNCHANGED <<conf, slot, proc>>

\* The children of the routed pool are gone: after their signal, or on their
\* own while they are held (fpm_pctl_child_exited()).
ChildrenExit ==
  /\ m.phase = "ending" /\ m.children # "none"
  /\ m' = fpm_pctl_action_last([m EXCEPT !.children = "none"], slot)
  /\ UNCHANGED <<conf, slot, proc>>

\* fpm_http_cleanup(), fpm_http_gateways_drain(): the pids are forgotten and
\* asked to drain; the master then polls until its deadline.
fpm_http_cleanup ==
  /\ m.phase = "leaving"
  /\ m' = [m EXCEPT !.phase = "drain", !.left = conf.pct]
  /\ slot' = [s \in Slots |-> [slot[s] EXCEPT !.watched = FALSE]]
  /\ proc' = [s \in Slots |-> IF slot[s].pid = "live"
                              THEN [proc[s] EXCEPT !.pend = @ \cup {"QUIT"}] ELSE proc[s]]
  /\ UNCHANGED conf

\* fpm_http_gateways_reap(0) in the polling loop.
fpm_http_gateways_reap ==
  /\ m.phase = "drain"
  /\ \E s \in Slots : slot[s].pid = "live" /\ proc[s].st = "dead"
  /\ slot' = [s \in Slots |-> IF proc[s].st = "dead" THEN [slot[s] EXCEPT !.pid = "none"] ELSE slot[s]]
  /\ UNCHANGED <<conf, m, proc>>


\* The end of fpm_http_gateways_drain(): every pid is reaped, or the deadline
\* is up and what is left is killed and waited for.  fpm_http_cleanup() then
\* frees the gateway.
fpm_http_gateways_drain ==
  /\ m.phase = "drain"
  /\ pids(slot) = {} \/ m.left = 0
  /\ m' = [m EXCEPT !.phase = "gone"]
  /\ slot' = [s \in Slots |-> [slot[s] EXCEPT !.pid = "none", !.chan = NoChannel]]
  /\ proc' = [s \in Slots |-> IF slot[s].pid = "live" /\ Alive(proc[s])
                              THEN [proc[s] EXCEPT !.st = "dead",
                                      !.cut = ~proc[s].wedged /\ proc[s].st # "starting" /\ proc[s].pend = {}]
                              ELSE proc[s]]
  /\ UNCHANGED conf

-----------------------------------------------------------------------------
(* The logs.                                                               *)

\* fpm_error_log_follow_publish() as a mutant: the datagram goes out before
\* the master's own descriptor names the new file.
fpm_error_log_follow_publish_Early ==
  /\ m.phase = "normal" /\ m.rot < conf.rot
  /\ m' = [m EXCEPT !.rot = @ + 1]
  /\ slot' = [s \in Slots |-> IF ~slot[s].chan.open THEN slot[s]
                              ELSE IF Len(slot[s].chan.q) = QLen THEN [slot[s] EXCEPT !.chan.lost = TRUE]
                              ELSE [slot[s] EXCEPT !.chan.q = Append(@, m.rot), !.chan.lost = FALSE]]
  /\ UNCHANGED <<conf, proc>>

\* SIGUSR1 in the master: its logs are reopened and the new descriptor is sent
\* on every channel; a channel that is full loses it.
fpm_error_log_follow_publish ==
  /\ m.phase = "normal" /\ m.rot < conf.rot
  /\ m' = [m EXCEPT !.rot = @ + 1]
  /\ slot' = [s \in Slots |-> IF ~slot[s].chan.open THEN slot[s]
                              ELSE IF Len(slot[s].chan.q) = QLen THEN [slot[s] EXCEPT !.chan.lost = TRUE]
                              ELSE [slot[s] EXCEPT !.chan.q = Append(@, m.rot + 1), !.chan.lost = FALSE]]
  /\ UNCHANGED <<conf, proc>>

\* fpm_http_log_follow_readable() as a mutant: the access log is reopened only
\* when a descriptor of the newest error_log came.
fpm_http_log_follow_readable_Newest(s) ==
  /\ proc[s].st \in {"serving", "soft", "drain"} /\ ~proc[s].wedged
  /\ slot[s].chan.open /\ slot[s].chan.q # <<>>
  /\ OnProc(s, [proc[s] EXCEPT !.err = Last(slot[s].chan.q),
                               !.acc = IF Last(slot[s].chan.q) = m.rot THEN m.rot ELSE @])
  /\ slot' = [slot EXCEPT ![s].chan.q = <<>>]
  /\ UNCHANGED <<conf, m>>

\* fpm_http_log_follow_readable(), fpm_error_log_follow_child_adopt(): all that
\* waits is read, the last descriptor stays, and the access log is reopened by
\* its path.
fpm_http_log_follow_readable(s) ==
  /\ proc[s].st \in {"serving", "soft", "drain"} /\ ~proc[s].wedged
  /\ slot[s].chan.open /\ slot[s].chan.q # <<>>
  /\ OnProc(s, [proc[s] EXCEPT !.err = Last(slot[s].chan.q), !.acc = m.rot])
  /\ slot' = [slot EXCEPT ![s].chan.q = <<>>]
  /\ UNCHANGED <<conf, m>>

-----------------------------------------------------------------------------
(* Time.                                                                   *)

Due(s) ==
  LET p == proc[s] IN
  \/ /\ ~p.wedged
     /\ \/ p.st = "starting"
        \/ p.st \in {"serving", "soft", "drain"} /\ p.pend # {}
        \/ p.st = "soft" /\ p.left = 0
        \/ p.st = "drain" /\ (p.left = 0 \/ ~p.busy)
  \/ p.st = "dead" /\ slot[s].pid = "live"

MasterDue ==
  \/ m.phase = "leaving"
  \/ m.phase = "ending" /\ m.held /\ m.timer = 0
  \/ m.phase = "drain" /\ (m.left = 0 \/ pids(slot) = {})

Down(n) == IF n = 0 THEN 0 ELSE n - 1
Aged(n) == IF n > RespawnWindow THEN n ELSE n + 1

Tick ==
  /\ ~MasterDue /\ \A s \in Slots : ~Due(s)
  /\ m.phase # "gone"
  /\ m' = [m EXCEPT !.timer = Down(@), !.left = Down(@),
                    !.deaths = [s \in Slots |-> SelectSeq([i \in DOMAIN @[s] |-> Aged(@[s][i])],
                                                          LAMBDA a : a <= RespawnWindow)]]
  /\ slot' = [s \in Slots |-> [slot[s] EXCEPT !.age = Aged(@)]]
  /\ proc' = [s \in Slots |-> [proc[s] EXCEPT !.left = Down(@)]]
  /\ UNCHANGED conf

GpDone == m.phase = "gone" /\ UNCHANGED gpvars

GpInit ==
  /\ conf \in GpConfs
  /\ \E c \in IF conf.stops > 0 THEN {"none", "serving"} ELSE {"none"} :
       m = [phase |-> "normal", held |-> FALSE, escalated |-> FALSE, children |-> c,
            timer |-> 0, left |-> 0, rot |-> 0, deaths |-> [s \in Slots |-> <<>>]]
  /\ slot = [s \in Slots |-> [pid |-> "live", watched |-> TRUE, count |-> 0,
                              age |-> RespawnWindow + 1, gave_up |-> FALSE, chan |-> NewChannel]]
  /\ proc = [s \in Slots |-> [NoProcess EXCEPT !.st = "starting"]]

GpNext ==
  \/ \E s \in Slots : \/ StartFails(s) \/ fpm_http_gateway_run(s) \/ Signal(s)
                      \/ fpm_http_drain_soft_timeout(s) \/ fpm_http_drain_tick(s)
                      \/ Request(s) \/ Fails(s) \/ fpm_http_gateway_on_exit(s)
                      \/ fpm_http_log_follow_readable(s)
  \/ \E second \in BOOLEAN : fpm_pctl(second)
  \/ fpm_pctl_timeout \/ ChildrenExit \/ fpm_http_cleanup \/ fpm_http_gateways_reap
  \/ fpm_http_gateways_drain \/ fpm_error_log_follow_publish \/ Tick \/ GpDone

GpSpec == GpInit /\ [][GpNext]_gpvars

\* The event loops run what is due, time passes, and a child that got its
\* signal exits (the escalation of the master sees to that).
System ==
  \/ \E s \in Slots : \/ fpm_http_gateway_run(s) \/ Signal(s) \/ fpm_http_drain_soft_timeout(s)
                      \/ fpm_http_drain_tick(s) \/ fpm_http_gateway_on_exit(s)
  \/ fpm_pctl_timeout \/ fpm_http_cleanup \/ fpm_http_gateways_reap \/ fpm_http_gateways_drain \/ Tick

GpFairSpec == GpSpec /\ WF_gpvars(System) /\ WF_gpvars(m.children = "told" /\ ChildrenExit)

-----------------------------------------------------------------------------
(* Properties.                                                             *)

GpTypeOK ==
  /\ conf \in GpConfs
  /\ m.phase \in {"normal", "ending", "leaving", "drain", "gone"}
  /\ m.children \in {"none", "serving", "told"}
  /\ m.held \in BOOLEAN /\ m.timer \in 0..conf.pct /\ m.left \in 0..conf.pct
  /\ \A s \in Slots :
       /\ slot[s].pid \in {"none", "live", "failed"} /\ slot[s].count \in 0..(Burst + 1)
       /\ slot[s].chan.open => slot[s].pid = "live" \/ m.phase = "drain"
       /\ proc[s].st \in {"none", "starting", "serving", "soft", "drain", "dead"}
       /\ proc[s].pend \subseteq Signals /\ proc[s].left \in 0..conf.pct

\* From the start of a stop every live process knows of it, or the signal that
\* says so is pending: with a probe it is in its window or draining, so the
\* probe answers 503; once the master waits for the processes to leave, each
\* of them drains, is in its window, or has its SIGQUIT still to come.  A
\* process forked just before the stop is no exception
\* (fpm_http_gateway_run, fpm_http_gateways_soft_drain).
StopKnown ==
  \A s \in Slots : Alive(proc[s]) /\ m.phase # "normal" =>
    /\ conf.ready => proc[s].st \in {"soft", "drain"} \/ proc[s].pend # {}
    /\ m.phase = "drain" => proc[s].st \in {"soft", "drain"} \/ "QUIT" \in proc[s].pend

\* The master never leaves a gateway process behind (fpm_http_gateways_drain,
\* fpm_http_gateways_reap).
NoOrphan == m.phase = "gone" => \A s \in Slots : ~Alive(proc[s])

\* With a process_control_timeout, a process whose loop runs leaves before the
\* master's SIGKILL, unless the master began its wait inside the window of the
\* process (fpm_http_drain_deadline_set and its margin, fpm_http_gateways_drain).
CleanStop == \A s \in Slots : proc[s].cut /\ conf.pct > 0 => proc[s].hushed

\* After its window a process drains for its own deadline, or until nothing is
\* in flight: the master does not kill it before that (fpm_http_drain.h).
DrainRunsItsCourse == \A s \in Slots : conf.pct > 0 => ~proc[s].cut

\* The window does not end early: not at the SIGQUIT of the master's cleanup,
\* not at a second stop signal (fpm_http_gateway_sigquit,
\* fpm_http_drain_soft_start).
WindowKept ==
  [][\A s \in Slots : proc[s].st = "soft" /\ proc'[s].st = "drain" => proc[s].left = 0]_gpvars

\* The master gives up on a slot only after more than Burst deaths inside one
\* window of time (fpm_http_gateway_on_exit).
GiveUpIsBurst ==
  [][\A s \in Slots : ~slot[s].gave_up /\ slot'[s].gave_up => Len(m'.deaths[s]) > Burst]_gpvars

\* A crash loop is no fork() storm: a slot that is still respawned has died
\* less than twice Burst times in any window (fpm_http_gateway_on_exit).
RespawnBounded ==
  \A s \in Slots : ~slot[s].gave_up => Len(m.deaths[s]) < 2 * Burst

\* A process writes into the error_log the master last opened, or the datagram
\* that carries it is waiting, or it was lost to a full channel
\* (fpm_error_log_follow_publish, fpm_error_log_follow_child_adopt).
ErrorLogFollows ==
  \A s \in Slots : Alive(proc[s]) /\ slot[s].chan.open =>
    LET ch == slot[s].chan IN
      ch.lost \/ m.rot = IF ch.q = <<>> THEN proc[s].err ELSE Last(ch.q)

\* The access log of a process is the one of the last rotation, or a wakeup is
\* waiting: even the wakeup of an earlier rotation brings it up to date, so a
\* full channel loses nothing here (fpm_http_log_follow_readable).
AccessLogFollows ==
  \A s \in Slots : Alive(proc[s]) /\ proc[s].st # "starting" /\ slot[s].chan.open =>
    proc[s].acc = m.rot \/ slot[s].chan.q # <<>>

\* A stop or a reload ends, whatever wedges, dies or never answers
\* (fpm_pctl_release_deferred, fpm_http_gateways_drain).
StopEnds == []<>(m.phase \in {"normal", "gone"})

=============================================================================
