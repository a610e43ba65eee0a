----------------------------- MODULE ProcessCtl -----------------------------
(***************************************************************************)
(* The stop and reload protocol of the master process, one generation of   *)
(* it: fpm_pctl() and its helpers (fpm_process_ctl.c), the window that the *)
(* master holds for gateways with http.ready_path (fpm_pctl_window.c), the *)
(* reaping of children and gateways (fpm_children.c, fpm_http_gw_proc.c),  *)
(* and the pools a selective reload spares (fpm_reload_selective.c).       *)
(*                                                                         *)
(* The master is one thread: each callback of its event loop runs to its   *)
(* end.  What a callback does to the master's memory is written as a       *)
(* function from one record to the next, one operator per C function, so   *)
(* that a handler that calls another is the composition of the two.        *)
(*                                                                         *)
(* A member of Pids stands for one (pid, start time) pair, the identity    *)
(* that fpm_pid_is_same() compares: it is not reused while a list of       *)
(* carried children still names it.                                        *)
(***************************************************************************)
CONSTANTS Pools,           \* worker pools
          Pids,            \* child processes
          Gateways,        \* gateway processes (never counted as children)
          ReadyGateways,   \* ... those of a pool with http.ready_path
          Routed,          \* pools that such a gateway routes to
          OnDemand,        \* pools with pm = ondemand
          TermPools,       \* types with child_main that serve no requests
          SparePools,      \* types with a reload_spare_child callback
          Terminated,      \* pools with request_terminate_timeout
          HasTimeout,      \* process_control_timeout > 0
          ReloadSelective, \* reload.selective = yes
          AccessLog        \* some pool has an access.log

ASSUME ProcessCtlAssumption ==
  /\ ReadyGateways \subseteq Gateways
  /\ Routed \subseteq Pools
  /\ OnDemand \subseteq Pools
  /\ TermPools \subseteq Pools
  /\ SparePools \subseteq Pools
  /\ Terminated \subseteq Pools
  /\ HasTimeout \in BOOLEAN
  /\ ReloadSelective \in BOOLEAN
  /\ AccessLog \in BOOLEAN

VARIABLES pctl,   \* the memory of the master that the protocol uses
          proc,   \* the child processes, as the kernel sees them
          gw      \* the gateway processes

vars == <<pctl, proc, gw>>

States  == {"NORMAL", "RELOADING", "FINISHING", "TERMINATING"}
Signals == {"QUIT", "TERM", "KILL"}

(* run: "loop" is the event loop; "finish" and "drain" are the cleanups    *)
(* that fpm_pctl_exit() and fpm_pctl_exec() run; the last two are the ends *)
(* of this generation.  children is the linked lists wp->children, sent    *)
(* what the stop or reload called kill() with for each process, other the  *)
(* processes that got a signal for another reason (log rotation, a request *)
(* that timed out, idle maintenance), carried the environment variable of  *)
(* a selective reload, survivors the children that a reload_spare_child    *)
(* callback detached, gwpids the gateways with a pid.                      *)
Master == [run         : {"loop", "finish", "drain", "exited", "execed"},
           state       : States,
           signal_sent : Signals \cup {"none"},
           held        : Signals \cup {"none"},
           escalated   : BOOLEAN,
           timer       : BOOLEAN,
           children    : [Pools -> SUBSET Pids],
           sent        : [Pids -> SUBSET Signals],
           other       : SUBSET Pids,
           carried     : [Pools -> SUBSET Pids],
           survivors   : SUBSET Pids,
           gwpids      : SUBSET Gateways]

ProcStates == {"free", "run", "zombie"}
GwStates   == {"serving", "soft", "hard", "zombie", "gone"}

-----------------------------------------------------------------------------
(* Reading the master's memory. *)

\* fpm_globals.running_children counts the linked children of every pool.
Linked(m) == UNION {m.children[p] : p \in Pools}

Carried(m) == UNION {m.carried[p] : p \in Pools}

fpm_http_ready_gateways_alive(m) == m.gwpids \cap ReadyGateways # {}

fpm_pctl_window_open(m) == m.held # "none" /\ fpm_http_ready_gateways_alive(m)

\* Mutant: an escalated stop may hold again.
HoldPool_Escalated(m, p) ==
  /\ m.state # "NORMAL"
  /\ m.signal_sent = "none"
  /\ HasTimeout
  /\ fpm_http_ready_gateways_alive(m)
  /\ p \in Routed

\* fpm_pctl_window_hold_pool(): the test; KillAll stores the held signal.
HoldPool(m, p) ==
  /\ m.state # "NORMAL"
  /\ m.signal_sent = "none"
  /\ ~m.escalated
  /\ HasTimeout
  /\ fpm_http_ready_gateways_alive(m)
  /\ p \in Routed

\* Mutant: any pool may fork while a window is open.
fpm_children_may_fork_AnyPool(m, p) ==
  m.state = "NORMAL" \/ fpm_pctl_window_open(m)

fpm_children_may_fork(m, p) ==
  \/ m.state = "NORMAL"
  \/ fpm_pctl_window_open(m) /\ p \in OnDemand /\ p \in Routed

\* The signal a child of p gets when the pass sends signo.  A stop_signal
\* callback may replace SIGTERM by another signal with the same meaning.
ChildSignal(m, p, signo) ==
  IF m.state = "RELOADING" /\ signo = "QUIT" /\ p \in TermPools
  THEN "TERM" ELSE signo

-----------------------------------------------------------------------------
(* The end of the generation. *)

\* Mutant: the list is dropped and nobody is signalled.
Discard_Silent(m) == [m EXCEPT !.carried = [p \in Pools |-> {}]]

\* fpm_pctl_exit() discards the carried children before it runs the
\* cleanups; fpm_pctl_exec() leaves them to the next generation.
Discard(m) ==
  [m EXCEPT !.sent    = [c \in Pids |-> IF c \in Carried(m)
                                        THEN @[c] \cup {"TERM"} ELSE @[c]],
            !.carried = [p \in Pools |-> {}]]

\* Both attempts to exec fail.  The cleanup before the first one has listed
\* the survivors too (its allocations are taken to succeed).
ExecFailed(m) ==
  [Discard(m) EXCEPT !.run  = "exited",
                     !.sent = [c \in Pids |-> IF c \in m.survivors
                                              THEN @[c] \cup {"TERM"} ELSE @[c]]]

fpm_pctl_action_last(m) ==
  IF fpm_pctl_window_open(m) \/ m.state = "NORMAL" THEN m
  ELSE IF m.state = "RELOADING" THEN [m EXCEPT !.run = "finish"]
  ELSE [Discard(m) EXCEPT !.run = "finish"]

-----------------------------------------------------------------------------
(* The signal passes. *)

(* What the first pass of a reload does before it signals: the pools whose *)
(* children are spared, the ones whose children were detached but could    *)
(* not be listed (setenv() failed, so they got SIGTERM), and the children  *)
(* that a reload_spare_child callback detached, one of at least two.       *)
NoPlan == [spared |-> {}, lost |-> {}, survivors |-> {}]

Plans(m) ==
  LET selective == IF ReloadSelective THEN SUBSET Pools ELSE {{}}
      loosable  == {p \in Pools : m.children[p] # {}}
      spareable == {p \in SparePools : \E c, d \in m.children[p] : c # d}
  IN {plan \in [spared    : selective,
                lost      : selective,
                survivors : SUBSET UNION {m.children[p] : p \in spareable}] :
        /\ plan.lost \subseteq loosable \ plan.spared
        /\ \A p \in Pools :
             LET s == plan.survivors \cap m.children[p]
             IN /\ \A c, d \in s : c = d
                /\ p \in plan.spared \cup plan.lost => s = {}}

\* What is still linked of pool p once the plan detached its children.
Left(m, plan, p) == IF p \in plan.spared \cup plan.lost THEN {}
                    ELSE m.children[p] \ plan.survivors

\* The pools whose signal a pass holds back, and all it does not signal; a
\* pass that releases the held signal (fpm_deferred_release) is mode "release".
HeldPools(m, plan, mode) ==
  {p \in Pools \ plan.spared : mode = "pass" /\ HoldPool(m, p)}

SkippedPools(m, plan, mode) ==
  plan.spared \cup HeldPools(m, plan, mode)
    \cup (IF mode = "release" THEN Pools \ Routed ELSE {})

\* Mutant: a pool that was detached and could not be listed is not signalled.
fpm_pctl_kill_all_LostSilent(m, signo, plan, mode) ==
  LET told(c) == {ChildSignal(m, p, signo) :
                    p \in {q \in Pools \ SkippedPools(m, plan, mode) :
                             c \in Left(m, plan, q)}}
  IN [m EXCEPT
        !.held      = IF HeldPools(m, plan, mode) # {} THEN signo
                      ELSE IF m.signal_sent = "none" THEN "none" ELSE @,
        !.children  = [p \in Pools |-> Left(m, plan, p)],
        !.carried   = [p \in Pools |-> IF p \in plan.spared
                                       THEN @[p] \cup m.children[p] ELSE @[p]],
        !.survivors = @ \cup plan.survivors,
        !.sent      = [c \in Pids |-> @[c] \cup told(c)]]

fpm_pctl_kill_all(m, signo, plan, mode) ==
  LET told(c) == {ChildSignal(m, p, signo) :
                    p \in {q \in Pools \ SkippedPools(m, plan, mode) :
                             c \in Left(m, plan, q)}}
      lost(c) == {"TERM" : p \in {q \in plan.lost : c \in m.children[q]}}
  IN [m EXCEPT
        !.held      = IF HeldPools(m, plan, mode) # {} THEN signo
                      ELSE IF m.signal_sent = "none" THEN "none" ELSE @,
        !.children  = [p \in Pools |-> Left(m, plan, p)],
        !.carried   = [p \in Pools |-> IF p \in plan.spared
                                       THEN @[p] \cup m.children[p] ELSE @[p]],
        !.survivors = @ \cup plan.survivors,
        !.sent      = [c \in Pids |-> @[c] \cup told(c) \cup lost(c)]]

\* Mutant: the release does not start a timeout of its own.
fpm_pctl_release_deferred_NoTimer(m) ==
  IF m.held = "none" THEN m
  ELSE LET n == fpm_pctl_kill_all([m EXCEPT !.held = "none"], m.held, NoPlan, "release")
       IN IF Linked(n) = {} THEN fpm_pctl_action_last(n) ELSE n

fpm_pctl_release_deferred(m) ==
  IF m.held = "none" THEN m
  ELSE LET n == fpm_pctl_kill_all([m EXCEPT !.held = "none"], m.held, NoPlan, "release")
       IN IF Linked(n) = {} THEN fpm_pctl_action_last(n)
          ELSE [n EXCEPT !.timer = TRUE]

\* Mutants: nothing stronger than SIGTERM; signal 0 after SIGKILL.
NextSignal_NoKill(m) ==
  IF m.signal_sent = "none" /\ m.state # "TERMINATING" THEN "QUIT" ELSE "TERM"

NextSignal_AfterKill(m) ==
  IF m.signal_sent = "none" THEN IF m.state = "TERMINATING" THEN "TERM" ELSE "QUIT"
  ELSE IF m.signal_sent = "QUIT" THEN "TERM"
  ELSE IF m.signal_sent = "TERM" THEN "KILL" ELSE "none"

NextSignal(m) ==
  IF m.signal_sent = "none" THEN IF m.state = "TERMINATING" THEN "TERM" ELSE "QUIT"
  ELSE IF m.signal_sent = "QUIT" THEN "TERM" ELSE "KILL"

fpm_pctl_action_next(m, plan) ==
  IF Linked(m) = {} /\ fpm_pctl_action_last(m).run # "loop"
  THEN fpm_pctl_action_last(m)
  ELSE IF m.signal_sent # "none" /\ m.held # "none"
  THEN fpm_pctl_release_deferred(m)
  ELSE [fpm_pctl_kill_all(m, NextSignal(m), plan, "pass")
          EXCEPT !.signal_sent = NextSignal(m), !.timer = TRUE]

\* Which states a new one may override (the switch of fpm_pctl()).
MayOverride(old, new) ==
  \/ old = "NORMAL"
  \/ old = "RELOADING" /\ new \in {"FINISHING", "TERMINATING"}
  \/ old = "FINISHING" /\ new = "TERMINATING"

\* fpm_pctl(new, FPM_PCTL_ACTION_SET), once the configuration check passed.
fpm_pctl_set(m, new, plan) ==
  fpm_pctl_action_next([m EXCEPT !.escalated   = @ \/ m.state # "NORMAL",
                                 !.signal_sent = "none",
                                 !.state       = new], plan)

-----------------------------------------------------------------------------
(* Children: fork, exit, reap. *)

\* Mutant: a reaped child stays in its list.
fpm_child_unlink_Kept(m, p, c) == m

fpm_child_unlink(m, p, c) == [m EXCEPT !.children[p] = @ \ {c}]

fpm_pctl_child_exited(m) ==
  IF m.state # "NORMAL" /\ Linked(m) = {} THEN fpm_pctl_action_last(m) ELSE m

Make(m, p, born) ==
  [m EXCEPT !.children[p] = @ \cup born,
            !.sent  = [c \in Pids |-> IF c \in born THEN {} ELSE @[c]],
            !.other = @ \ born]

\* The sets of processes fpm_children_make() may fork for p.  How many it
\* asks for (pm.*, process.max) and the crash backoff are not modelled here.
Births(m, p, free) ==
  IF m.run = "loop" /\ fpm_children_may_fork(m, p)
  THEN SUBSET (free \ (Carried(m) \cup m.survivors)) ELSE {{}}

Free == {c \in Pids : proc[c] = "free"}

Born(pr, born) == [c \in Pids |-> IF c \in born THEN "run" ELSE pr[c]]

\* fpm_http_gateways_soft_drain(): SIGUSR1 to the gateways with a probe.
SoftDrain == [g \in Gateways |-> IF g \in ReadyGateways /\ g \in pctl.gwpids
                                    /\ gw[g] = "serving" THEN "soft" ELSE gw[g]]

-----------------------------------------------------------------------------
Init ==
  /\ pctl = [run |-> "loop", state |-> "NORMAL", signal_sent |-> "none",
             held |-> "none", escalated |-> FALSE, timer |-> FALSE,
             children |-> [p \in Pools |-> {}], sent |-> [c \in Pids |-> {}],
             other |-> {}, carried |-> [p \in Pools |-> {}], survivors |-> {},
             gwpids |-> Gateways]
  /\ proc = [c \in Pids |-> "free"]
  /\ gw = [g \in Gateways |-> "serving"]

InLoop == pctl.run = "loop"

\* SIGQUIT, SIGTERM, SIGINT or SIGUSR2 to the master.  A reload that the
\* configuration check refuses changes nothing.
Request(new) ==
  /\ InLoop
  /\ MayOverride(pctl.state, new)
  /\ \E plan \in IF new = "RELOADING" THEN Plans(pctl) ELSE {NoPlan} :
       pctl' = fpm_pctl_set(pctl, new, plan)
  /\ gw' = SoftDrain
  /\ UNCHANGED proc

\* pctl_event: the escalation timer fires.
Timeout ==
  /\ InLoop
  /\ pctl.timer
  /\ pctl' = fpm_pctl_action_next([pctl EXCEPT !.timer = FALSE], NoPlan)
  /\ UNCHANGED <<proc, gw>>

\* Idle maintenance, a backoff gate, or a connection to an ondemand pool.
Fork(p) ==
  /\ InLoop
  /\ \E born \in Births(pctl, p, Free) \ {{}} :
       /\ pctl' = Make(pctl, p, born)
       /\ proc' = Born(proc, born)
  /\ UNCHANGED gw

\* A child ends: it was signalled, or it crashed, or pm.max_requests.
ChildExit(c) ==
  /\ proc[c] = "run"
  /\ proc' = [proc EXCEPT ![c] = "zombie"]
  /\ UNCHANGED <<pctl, gw>>

\* fpm_children_bury() for a linked child, with the respawn at its end.
BuryChild(p, c) ==
  /\ InLoop
  /\ proc[c] = "zombie"
  /\ c \in pctl.children[p]
  /\ LET m == fpm_pctl_child_exited(fpm_child_unlink(pctl, p, c))
     IN \E born \in Births(m, p, Free \cup {c}) :
          /\ pctl' = Make(m, p, born)
          /\ proc' = Born([proc EXCEPT ![c] = "free"], born)
  /\ UNCHANGED gw

\* ... and when its fault reaches emergency_restart_threshold: a reload.
BuryFault(p, c) ==
  /\ InLoop
  /\ proc[c] = "zombie"
  /\ c \in pctl.children[p]
  /\ pctl.state = "NORMAL"
  /\ LET m == fpm_child_unlink(pctl, p, c)
     IN \E plan \in Plans(m) :
        LET n == fpm_pctl_set(m, "RELOADING", plan)
        IN \E born \in Births(n, p, Free \cup {c}) :
             /\ pctl' = Make(n, p, born)
             /\ proc' = Born([proc EXCEPT ![c] = "free"], born)
  /\ gw' = SoftDrain

\* waitpid() returned a child that no list holds (it was detached).
BuryUnknown(c) ==
  /\ InLoop
  /\ proc[c] = "zombie"
  /\ c \notin Linked(pctl)
  /\ proc' = [proc EXCEPT ![c] = "free"]
  /\ UNCHANGED <<pctl, gw>>

-----------------------------------------------------------------------------
(* Signals that are not part of a stop.                                    *)

\* SIGUSR1 to the master: fpm_log_open() reopens the access logs and calls
\* fpm_pctl_kill_all(SIGQUIT), whatever the state is.
LogRotate ==
  /\ InLoop
  /\ AccessLog
  /\ LET m == fpm_pctl_kill_all([pctl EXCEPT !.sent = [c \in Pids |-> {}]],
                                "QUIT", NoPlan, "pass")
     IN pctl' = [m EXCEPT !.sent  = pctl.sent,
                          !.other = @ \cup {c \in Pids : m.sent[c] # {}}]
  /\ UNCHANGED <<proc, gw>>

\* The heartbeat finds a request over its time: SIGTERM to the child.
RequestTimeout(p, c) ==
  /\ InLoop
  /\ p \in Terminated
  /\ c \in pctl.children[p]
  /\ pctl' = [pctl EXCEPT !.other = @ \cup {c}]
  /\ UNCHANGED <<proc, gw>>

\* fpm_pctl_kill_idle_child(): the maintenance runs in NORMAL state only.
IdleKill(p, c) ==
  /\ InLoop
  /\ pctl.state = "NORMAL"
  /\ c \in pctl.children[p]
  /\ pctl' = [pctl EXCEPT !.other = @ \cup {c}]
  /\ UNCHANGED <<proc, gw>>

-----------------------------------------------------------------------------
(* Gateways. *)

\* The soft window of a gateway ends and its hard drain starts.
SoftTimeout(g) ==
  /\ gw[g] = "soft"
  /\ gw' = [gw EXCEPT ![g] = "hard"]
  /\ UNCHANGED <<pctl, proc>>

\* A gateway ends: it drained, or it crashed.
GatewayExit(g) ==
  /\ gw[g] \in {"serving", "soft", "hard"}
  /\ gw' = [gw EXCEPT ![g] = "zombie"]
  /\ UNCHANGED <<pctl, proc>>

\* fpm_http_gateway_on_exit() in NORMAL state: respawn, or give up.
GatewayRespawn(g) ==
  /\ InLoop
  /\ gw[g] = "zombie" /\ g \in pctl.gwpids
  /\ pctl.state = "NORMAL"
  /\ \/ /\ gw' = [gw EXCEPT ![g] = "serving"]
        /\ UNCHANGED pctl
     \/ /\ gw' = [gw EXCEPT ![g] = "gone"]
        /\ pctl' = [pctl EXCEPT !.gwpids = @ \ {g}]
  /\ UNCHANGED proc

\* ... and in a stop or reload: the last one releases the held children.
GatewayGone(g) ==
  /\ InLoop
  /\ gw[g] = "zombie" /\ g \in pctl.gwpids
  /\ pctl.state # "NORMAL"
  /\ gw' = [gw EXCEPT ![g] = "gone"]
  /\ LET m == [pctl EXCEPT !.gwpids = @ \ {g}]
     IN pctl' = IF fpm_http_ready_gateways_alive(m) THEN m
                ELSE fpm_pctl_release_deferred(m)
  /\ UNCHANGED proc

-----------------------------------------------------------------------------
(* The cleanups: fpm_http_cleanup() drains the gateways, then the master   *)
(* leaves.  The event loop does not run any more.                          *)

\* SIGQUIT to every gateway; one that is in its soft window ignores it.
DrainBegin ==
  /\ pctl.run = "finish"
  /\ pctl' = [pctl EXCEPT !.run = "drain"]
  /\ gw' = [g \in Gateways |-> IF g \in pctl.gwpids /\ gw[g] = "serving"
                               THEN "hard" ELSE gw[g]]
  /\ UNCHANGED proc

\* fpm_http_gateways_reap(0).
DrainReap(g) ==
  /\ pctl.run = "drain"
  /\ gw[g] = "zombie" /\ g \in pctl.gwpids
  /\ pctl' = [pctl EXCEPT !.gwpids = @ \ {g}]
  /\ gw' = [gw EXCEPT ![g] = "gone"]
  /\ UNCHANGED proc

\* The deadline: SIGKILL to what is left, and reap it.
DrainKill ==
  /\ pctl.run = "drain"
  /\ pctl.gwpids # {}
  /\ pctl' = [pctl EXCEPT !.gwpids = {}]
  /\ gw' = [g \in Gateways |-> IF g \in pctl.gwpids THEN "gone" ELSE gw[g]]
  /\ UNCHANGED proc

\* exit(), or execvp().
Leave ==
  /\ pctl.run = "drain"
  /\ pctl.gwpids = {}
  /\ \/ /\ pctl.state = "RELOADING"
        /\ pctl' = [pctl EXCEPT !.run = "execed"]
     \/ /\ pctl.state = "RELOADING"
        /\ pctl' = ExecFailed(pctl)
     \/ /\ pctl.state # "RELOADING"
        /\ pctl' = [pctl EXCEPT !.run = "exited"]
  /\ UNCHANGED <<proc, gw>>

-----------------------------------------------------------------------------
Next ==
  \/ \E new \in States \ {"NORMAL"} : Request(new)
  \/ Timeout
  \/ \E p \in Pools : Fork(p)
  \/ \E c \in Pids : ChildExit(c)
  \/ \E p \in Pools, c \in Pids : BuryChild(p, c)
  \/ \E p \in Pools, c \in Pids : BuryFault(p, c)
  \/ \E c \in Pids : BuryUnknown(c)
  \/ LogRotate
  \/ \E p \in Pools, c \in Pids : RequestTimeout(p, c)
  \/ \E p \in Pools, c \in Pids : IdleKill(p, c)
  \/ \E g \in Gateways : SoftTimeout(g)
  \/ \E g \in Gateways : GatewayExit(g)
  \/ \E g \in Gateways : GatewayRespawn(g)
  \/ \E g \in Gateways : GatewayGone(g)
  \/ DrainBegin
  \/ \E g \in Gateways : DrainReap(g)
  \/ DrainKill
  \/ Leave

Spec == Init /\ [][Next]_vars

(* The event loop runs its timers and reaps its children, SIGKILL ends a   *)
(* process, and the cleanups are straight-line code with a deadline.       *)
(* Nothing is assumed of a child that was only asked to stop, of a         *)
(* gateway, or of further signals to the master.                           *)
Fairness ==
  /\ WF_vars(Timeout)
  /\ \A c \in Pids :
       /\ WF_vars(ChildExit(c) /\ "KILL" \in pctl.sent[c])
       /\ \A p \in Pools : WF_vars(BuryChild(p, c))
  /\ WF_vars(DrainBegin)
  /\ WF_vars(DrainKill)
  /\ WF_vars(Leave)

FairSpec == Spec /\ Fairness

-----------------------------------------------------------------------------
(* Properties. *)

\* The master's memory and the process table keep their types.
TypeOK ==
  /\ pctl \in Master
  /\ proc \in [Pids -> ProcStates]
  /\ gw \in [Gateways -> GwStates]

\* A stop or reload that waits in the event loop always has its escalation
\* timer queued (fpm_pctl_timeout_set in fpm_pctl_action_next and
\* fpm_pctl_release_deferred): no child that ignores its signal can keep the
\* master waiting for good.
StopTimerArmed == InLoop /\ pctl.state # "NORMAL" => pctl.timer

\* Once a stop or reload began, every child still in a list got the signal
\* of the current pass, unless its pool is held for an open window; this
\* includes the children an ondemand pool forks inside the window, which
\* were not there when the first pass ran.
EveryChildTold ==
  InLoop /\ pctl.state # "NORMAL" =>
    \A p \in Pools : \A c \in pctl.children[p] :
      \/ pctl.held # "none" /\ p \in Routed
      \/ ChildSignal(pctl, p, pctl.signal_sent) \in pctl.sent[c]

\* While the first signal is held back (fpm_pctl_window_hold_pool), the stop
\* itself sent no child of a held pool a signal, whatever passes and forks
\* came before, and a stop that was escalated never goes back to holding.
\* Log rotation and a request timeout do signal such a child: QuietWindow.
WindowUndisturbed ==
  pctl.held # "none" =>
    /\ pctl.state # "NORMAL"
    /\ ~pctl.escalated
    /\ pctl.signal_sent = pctl.held
    /\ \A p \in Routed : \A c \in pctl.children[p] : pctl.sent[c] = {}

\* The lists of the master only name processes that it did not reap yet, so
\* that fpm_pctl_kill_all() never signals a pid the kernel may have given to
\* another process, and no process has two owners among the lists, the
\* environment of the next generation and the detached survivors.
OneOwner ==
  /\ \A c \in Linked(pctl) : proc[c] # "free"
  /\ \A p, q \in Pools : p # q => pctl.children[p] \cap pctl.children[q] = {}
  /\ Linked(pctl) \cap (Carried(pctl) \cup pctl.survivors) = {}
  /\ Carried(pctl) \cap pctl.survivors = {}

\* A worker that the reload spares is left alone: as long as the reload is
\* on its way no pass of it signals the worker, which
\* fpm_reload_selective_spare_pool detaches before the fan-out, and the exec
\* happens with every other process gone or asked to stop.
SparedUntouched ==
  /\ pctl.state = "RELOADING" /\ pctl.run # "exited" =>
       \A c \in Carried(pctl) : pctl.sent[c] = {}
  /\ pctl.run = "execed" =>
       \A c \in Pids : proc[c] = "run" =>
         c \in Carried(pctl) \cup pctl.survivors \/ pctl.sent[c] # {}

\* When the master is gone for good no worker is left that nobody asked to
\* stop: a stop that overrides a selective reload, or a failed exec, signals
\* the workers that reload had spared (fpm_pctl_exit,
\* fpm_reload_selective_discard_unadopted).  The one exception is the child
\* a supervisor pool detached when a stop overrides the reload before its
\* exec, a window that docs/reload.md:627-630 leaves open.
NoOneLeftBehind ==
  pctl.run = "exited" =>
    \A c \in Pids : proc[c] = "run" =>
      pctl.sent[c] # {} \/ (c \in pctl.survivors /\ pctl.state # "RELOADING")

\* A stop runs in order (fpm_pctl_action_next, fpm_pctl_release_deferred): its
\* escalation timer is queued, every child got the signal of the pass, and
\* nobody disturbs the pools that are held for the window.
StopInOrder == StopTimerArmed /\ EveryChildTold /\ WindowUndisturbed

\* No worker is lost or hit by mistake (fpm_reload_selective_spare_pool,
\* fpm_reload_selective_discard_unadopted): each has one owner, the spared are
\* left alone, and a master that exits has told all it does not hand on.
WorkersAccounted == OneOwner /\ SparedUntouched /\ NoOneLeftBehind

\* A stop ends with the exit of the master, whatever its children and its
\* gateways do, and so does a stop that overrides a reload; a reload ends
\* with the exec (or an exit, when exec fails or a stop overrides it).
StopCompletes ==
  /\ pctl.state \in {"FINISHING", "TERMINATING"} ~> pctl.run = "exited"
  /\ pctl.state = "RELOADING" ~> pctl.run \in {"exited", "execed"}

\* docs/gateway.md:507: "The master does not signal the children of a pool
\* that a gateway with `http.ready_path` routes to": no step inside the
\* window signals such a child for any reason.
QuietWindow ==
  [][pctl.held # "none" /\ pctl'.held # "none" =>
     \A p \in Routed : \A c \in pctl.children[p] :
       /\ pctl'.sent[c] = pctl.sent[c]
       /\ c \in pctl'.other => c \in pctl.other]_vars

\* docs/gateway.md: "A pool with pm = ondemand that has no child forks one
\* for a new connection in the window": when a stop or reload begins while a
\* gateway with http.ready_path is alive and process_control_timeout is set,
\* an ondemand pool that it routes to may fork (on_socket_accept).
OndemandServesWindow ==
  [][pctl.state = "NORMAL" /\ pctl'.state # "NORMAL" /\ HasTimeout
       /\ fpm_http_ready_gateways_alive(pctl) =>
     \A p \in OnDemand \cap Routed : pctl'.children[p] = {} =>
       pctl'.run = "loop" /\ fpm_children_may_fork(pctl', p)]_vars
=============================================================================
