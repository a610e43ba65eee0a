--------------------------- MODULE SurvivorHandoff ---------------------------
(***************************************************************************)
(* The reload of a supervisor pool (fpm_pool_supervisor.c, issue #329): the *)
(* old master spares one copy from the stop signal, hands its pid to the   *)
(* next master through the environment, and the next master retires it     *)
(* once a copy of its own has started or a deadline has passed.            *)
(*                                                                         *)
(* "gen" is the master of the moment, "spare" the copy this reload spared, *)
(* "env" the entry of FPMNG_RELOAD_SURVIVORS, "surv" the struct that       *)
(* tracks a survivor whose pool is configured, "orphan" the one of a pool  *)
(* that is not, and "proc" what the kernel has under each pid.  A pid that *)
(* is free may be given to a stranger; "inc" is its start time.  Times are *)
(* seconds left; no second passes while a timer of the master is due.      *)
(***************************************************************************)
EXTENDS Integers

CONSTANTS
  Pids,        \* pids a spared copy can have
  SurvConfs,   \* [daemon, fork]: daemonize = yes; fork() of the watchdog works
  MaxGen,      \* reloads
  MaxInc,      \* processes a pid can stand for
  Timeout,     \* FPM_SUPERVISOR_RELOAD_SURVIVOR_TIMEOUT_S
  StopTimeout  \* supervisor.stop_timeout

ASSUME SurvivorAssumption ==
  /\ Pids \subseteq Nat \ {0} /\ SurvConfs \subseteq [daemon : BOOLEAN, fork : BOOLEAN]
  /\ MaxGen \in Nat /\ MaxInc \in Nat /\ Timeout \in Nat /\ StopTimeout \in Nat

VARIABLES gen, spare, env, surv, orphan, proc

survvars == <<gen, spare, env, surv, orphan, proc>>

None == [pid |-> 0]

NoSurv == [pid |-> 0, start |-> 0, left |-> 0, reg |-> FALSE, poll |-> FALSE, kill |-> FALSE,
           back |-> 0, reaped |-> FALSE, mem |-> "none", ran |-> FALSE]

Empty == [who |-> "none", inc |-> 0, st |-> "none", dog |-> -1, age |-> 0, init |-> FALSE, hit |-> FALSE]

SurvInit ==
  /\ gen \in [phase : {"up"}, n : {0}, pool : {TRUE}, started : {TRUE}, conf : SurvConfs]
  /\ spare = None /\ env = None /\ orphan = None /\ surv = NoSurv
  /\ proc = [p \in Pids |-> Empty]

Spared(p) == proc[p].who = "script"
Lives(p) == proc[p].st \in {"run", "told"}

-----------------------------------------------------------------------------
(* The kernel, through fpm_pid_child.c                                     *)

fpm_pid_is_same_Any(p, start) == proc[p].who # "none"
fpm_pid_is_same(p, start) == proc[p].who # "none" /\ proc[p].inc = start

\* A stop signal: the first one makes the handler of the script fork its
\* watchdog, if fork() works.  A stranger must never get one.
Stopped(p) ==
  LET q == proc[p] IN
  CASE q.who = "stranger" -> [q EXCEPT !.hit = TRUE]
    [] q.st = "run" -> [q EXCEPT !.st = "told", !.dog = IF gen.conf.fork THEN StopTimeout ELSE -1]
    [] OTHER -> q

Freed(q) == [Empty EXCEPT !.inc = q.inc, !.hit = q.hit]

\* A dead process: init reaps what is left to it, a master only when it looks.
Dead(p) == IF proc[p].init THEN Freed(proc[p]) ELSE [proc[p] EXCEPT !.st = "zombie", !.dog = -1]

Signal(p) == proc' = [proc EXCEPT ![p] = Stopped(p)]

-----------------------------------------------------------------------------
(* The old master                                                          *)

\* The copy that is spared, under a pid that was free before it.
Copy(q) == [Freed(q) EXCEPT !.who = "script", !.st = "run", !.inc = q.inc + 1]

\* First pass of a reload.  A pool with one running copy, or whose last
\* survivor is still tracked, spares nothing.
fpm_pool_supervisor_reload_spare_child(two) ==
  /\ gen.phase = "up" /\ gen.n < MaxGen
  /\ gen' = [gen EXCEPT !.phase = "reload", !.n = @ + 1]
  /\ IF gen.pool /\ two /\ ~surv.reg
     THEN \E p \in {q \in Pids : proc[q].who = "none" /\ proc[q].inc < MaxInc} :
            /\ proc' = [proc EXCEPT ![p] = Copy(proc[p])]
            /\ spare' = [pid |-> p, start |-> proc[p].inc + 1]
     ELSE UNCHANGED <<proc, spare>>
  /\ UNCHANGED <<env, surv, orphan>>

\* The entry the exec hook writes: the tracked survivor with the deadline it
\* has, or the copy spared in this reload with a deadline that starts now.
survivor_carry_Renews ==
  IF surv.reg THEN [pid |-> surv.pid, start |-> surv.start, left |-> Timeout]
  ELSE IF spare.pid # 0 /\ fpm_pid_is_same(spare.pid, spare.start)
  THEN [pid |-> spare.pid, start |-> spare.start, left |-> Timeout]
  ELSE env
survivor_carry_Fresh ==
  IF spare.pid # 0 /\ fpm_pid_is_same(spare.pid, spare.start)
  THEN [pid |-> spare.pid, start |-> spare.start, left |-> Timeout]
  ELSE env
survivor_carry ==
  IF surv.reg THEN [pid |-> surv.pid, start |-> surv.start, left |-> surv.left]
  ELSE IF spare.pid # 0 /\ fpm_pid_is_same(spare.pid, spare.start)
  THEN [pid |-> spare.pid, start |-> spare.start, left |-> Timeout]
  ELSE env

\* daemonize = yes: the exec'd image forks and exits, and what it was the parent
\* of is left to init.
Inherited(q) ==
  IF ~gen.conf.daemon \/ q.who # "script" THEN q
  ELSE IF q.st = "zombie" THEN Freed(q) ELSE [q EXCEPT !.init = TRUE]

\* execvp(): the memory of the old image is gone.
fpm_pctl_exec ==
  /\ gen.phase = "reload"
  /\ env' = survivor_carry
  /\ gen' = [gen EXCEPT !.phase = "exec"]
  /\ spare' = None /\ surv' = NoSurv /\ orphan' = None
  /\ proc' = [p \in Pids |-> Inherited(proc[p])]

\* fpm_pool_supervisor_reload_survivors_discard_unadopted(): a master that gives
\* up stops what is still in the environment.
discard_unadopted ==
  /\ env' = None
  /\ IF env.pid # 0 /\ fpm_pid_is_same(env.pid, env.start) THEN Signal(env.pid) ELSE UNCHANGED proc

\* A failed exec, a failed fpm_init(), or a normal stop of the master.
MasterEnds ==
  /\ gen.phase # "gone"
  /\ gen' = [gen EXCEPT !.phase = "gone"]
  /\ discard_unadopted
  /\ spare' = None /\ surv' = NoSurv /\ orphan' = None

-----------------------------------------------------------------------------
(* The new master                                                          *)

survivor_track_Longer ==
  [NoSurv EXCEPT !.pid = env.pid, !.start = env.start, !.left = env.left + 1,
                 !.reg = TRUE, !.poll = TRUE, !.mem = "live"]
survivor_track ==
  [NoSurv EXCEPT !.pid = env.pid, !.start = env.start, !.left = env.left,
                 !.reg = TRUE, !.poll = TRUE, !.mem = "live"]

\* fpm_init() with the pool in the configuration: its entry is taken.
init_main_adopts ==
  /\ gen.phase = "exec"
  /\ gen' = [gen EXCEPT !.phase = "up", !.pool = TRUE, !.started = FALSE]
  /\ surv' = IF env.pid # 0 /\ fpm_pid_is_same(env.pid, env.start) THEN survivor_track ELSE NoSurv
  /\ env' = None
  /\ UNCHANGED <<spare, orphan, proc>>

\* fpm_init() without the pool: the entry stays and is armed at its deadline.
fpm_pool_supervisor_reload_orphans_arm ==
  /\ gen.phase = "exec"
  /\ gen' = [gen EXCEPT !.phase = "up", !.pool = FALSE, !.started = FALSE]
  /\ IF env.pid # 0 /\ fpm_pid_is_same(env.pid, env.start)
     THEN /\ orphan' = [pid |-> env.pid, start |-> env.start, left |-> env.left, ran |-> FALSE]
          /\ UNCHANGED env
     ELSE env' = None /\ UNCHANGED orphan
  /\ UNCHANGED <<spare, surv, proc>>

\* A copy of the new generation starts the script.
Starts ==
  /\ gen.phase = "up" /\ gen.pool /\ ~gen.started
  /\ gen' = [gen EXCEPT !.started = TRUE]
  /\ UNCHANGED <<spare, env, surv, orphan, proc>>

\* The stop signal and the backstop, unless the pid is another process now.
survivor_retire_NoBack ==
  IF fpm_pid_is_same(surv.pid, surv.start)
  THEN surv' = [surv EXCEPT !.poll = FALSE, !.ran = TRUE] /\ Signal(surv.pid)
  ELSE surv' = [surv EXCEPT !.poll = FALSE, !.ran = TRUE] /\ UNCHANGED proc
survivor_retire ==
  IF fpm_pid_is_same(surv.pid, surv.start)
  THEN /\ surv' = [surv EXCEPT !.poll = FALSE, !.kill = TRUE, !.back = StopTimeout + 1, !.ran = TRUE]
       /\ Signal(surv.pid)
  ELSE surv' = [surv EXCEPT !.poll = FALSE, !.ran = TRUE] /\ UNCHANGED proc

survivor_poll ==
  /\ surv.poll /\ ~surv.ran
  /\ IF surv.reaped
     THEN surv' = [surv EXCEPT !.poll = FALSE, !.mem = "freed"] /\ UNCHANGED proc
     ELSE IF gen.started \/ surv.left = 0 THEN survivor_retire
     ELSE surv' = [surv EXCEPT !.ran = TRUE] /\ UNCHANGED proc
  /\ UNCHANGED <<gen, spare, env, orphan>>

\* stop_timeout and a grace after the signal: SIGKILL what is still there.
survivor_backstop ==
  /\ surv.kill /\ surv.back = 0
  /\ surv' = [surv EXCEPT !.kill = FALSE, !.mem = IF surv.reaped THEN "freed" ELSE @]
  /\ proc' = IF ~surv.reaped /\ fpm_pid_is_same(surv.pid, surv.start) /\ proc[surv.pid].st # "zombie"
             THEN [proc EXCEPT ![surv.pid] = IF Spared(surv.pid) THEN Dead(surv.pid)
                                             ELSE [@ EXCEPT !.hit = TRUE]]
             ELSE proc
  /\ UNCHANGED <<gen, spare, env, orphan>>

\* The exit callback of the tracked survivor: a timer that is armed frees the
\* struct, otherwise the callback does.
survivor_exited_Frees(sv) == [sv EXCEPT !.reg = FALSE, !.reaped = TRUE, !.mem = "freed"]
survivor_exited(sv) ==
  [sv EXCEPT !.reg = FALSE, !.reaped = TRUE, !.mem = IF sv.kill \/ sv.poll THEN "live" ELSE "freed"]

\* SIGCHLD in the master: the pid is free from here on.
fpm_children_bury(p) ==
  /\ gen.phase \in {"up", "reload"} /\ proc[p].st = "zombie"
  /\ proc' = [proc EXCEPT ![p] = Freed(proc[p])]
  /\ surv' = IF surv.reg /\ surv.pid = p THEN survivor_exited(surv) ELSE surv
  /\ UNCHANGED <<gen, spare, env, orphan>>

\* The survivor of a pool that is gone from the configuration: SIGTERM at the
\* deadline if it still is that process, and its entry leaves the environment.
orphan_poll ==
  /\ orphan.pid # 0 /\ ~orphan.ran
  /\ IF orphan.left > 0
     THEN orphan' = [orphan EXCEPT !.ran = TRUE] /\ UNCHANGED <<env, proc>>
     ELSE /\ IF fpm_pid_is_same(orphan.pid, orphan.start) /\ proc[orphan.pid].st # "zombie"
             THEN Signal(orphan.pid) ELSE UNCHANGED proc
          /\ orphan' = None /\ env' = None
  /\ UNCHANGED <<gen, spare, surv>>

-----------------------------------------------------------------------------
(* Processes and time                                                      *)

\* A script ends by itself, or its watchdog kills it.
Exits(p) ==
  /\ Spared(p) /\ Lives(p)
  /\ proc' = [proc EXCEPT ![p] = Dead(p)]
  /\ UNCHANGED <<gen, spare, env, surv, orphan>>

Watchdog(p) == proc[p].dog = 0 /\ Exits(p)

\* The kernel gives a free pid to an unrelated process.
Reuse(p) ==
  /\ proc[p].who = "none" /\ proc[p].inc \in 1 .. MaxInc - 1
  /\ proc' = [proc EXCEPT ![p] = [proc[p] EXCEPT !.who = "stranger", !.st = "run", !.inc = proc[p].inc + 1]]
  /\ UNCHANGED <<gen, spare, env, surv, orphan>>

Due == \/ surv.poll /\ ~surv.ran
       \/ surv.kill /\ surv.back = 0
       \/ orphan.pid # 0 /\ ~orphan.ran
       \/ \E p \in Pids : proc[p].dog = 0

Less(n) == IF n > 0 THEN n - 1 ELSE 0

Older(q) ==
  [q EXCEPT !.age = IF q.who # "script" THEN 0 ELSE IF @ < 2 * Timeout THEN @ + 1 ELSE @,
            !.dog = IF @ > 0 THEN @ - 1 ELSE @]

\* A second passes; the age of a spared copy counts from its first exec.
SurvTick ==
  /\ gen.phase \in {"up", "gone"} /\ ~Due
  /\ \E p \in Pids : Spared(p) /\ Lives(p)
  /\ surv' = [surv EXCEPT !.left = Less(@), !.back = Less(@), !.ran = FALSE]
  /\ orphan' = IF orphan.pid = 0 THEN orphan ELSE [orphan EXCEPT !.left = Less(@), !.ran = FALSE]
  /\ env' = IF env.pid = 0 THEN env ELSE [env EXCEPT !.left = Less(@)]
  /\ proc' = [p \in Pids |-> Older(proc[p])]
  /\ UNCHANGED <<gen, spare>>

SurvDown == gen.phase = "gone" /\ UNCHANGED survvars

MasterStep ==
  \/ fpm_pctl_exec \/ init_main_adopts \/ fpm_pool_supervisor_reload_orphans_arm
  \/ survivor_poll \/ survivor_backstop \/ orphan_poll
  \/ \E p \in Pids : fpm_children_bury(p) \/ Watchdog(p)

SurvNext ==
  \/ MasterStep
  \/ \E two \in BOOLEAN : fpm_pool_supervisor_reload_spare_child(two)
  \/ MasterEnds \/ Starts \/ SurvTick \/ SurvDown
  \/ \E p \in Pids : Exits(p) \/ Reuse(p)

SurvSpec == SurvInit /\ [][SurvNext]_survvars

\* The event loop of the master runs and time passes.
SurvFair == WF_survvars(MasterStep) /\ WF_survvars(SurvTick)

-----------------------------------------------------------------------------
(* Properties                                                              *)

SurvTypeOK ==
  /\ gen.phase \in {"up", "reload", "exec", "gone"} /\ gen.n \in 0 .. MaxGen
  /\ surv.mem \in {"none", "live", "freed"} /\ surv.left \in 0 .. Timeout
  /\ \A e \in {spare, env, orphan} : e.pid \in Pids \cup {0}
  /\ \A p \in Pids : proc[p].inc \in 0 .. MaxInc

\* No process that only has the pid of a spared copy is ever signalled: every
\* kill() of a carried pid is behind the check of its start time.
NoStrangerHit == \A p \in Pids : ~proc[p].hit

\* A timer that is armed has its struct: the exit callback leaves the free to
\* the poll or the backstop while one of them is queued.
TimersOnLiveMemory == surv.poll \/ surv.kill => surv.mem = "live"

\* While there is a master, no spared copy that has not been told to stop is
\* lost: it is spared, in the environment, tracked, or an orphan with a timer.
NoneLost ==
  \A p \in Pids : Spared(p) /\ proc[p].st = "run" /\ gen.phase # "gone" =>
    \/ \E e \in {spare, env, orphan} : e.pid = p /\ e.start = proc[p].inc
    \/ surv.reg /\ surv.poll /\ surv.pid = p /\ surv.start = proc[p].inc

\* However many reloads come in between, a survivor is told to stop no later
\* than Timeout seconds after the exec that first carried it.
ToldInTime ==
  \A p \in Pids : Spared(p) /\ proc[p].st = "run" /\ gen.phase = "up" => proc[p].age <= Timeout

\* A spared copy ends: its watchdog kills it after the stop signal, and when no
\* watchdog could be forked the master that tracks it does.  (Unless the master
\* itself goes away first.)
SurvivorEnds ==
  \A p \in Pids :
    /\ gen.conf.fork => (Spared(p) ~> (~Spared(p) \/ ~Lives(p) \/ gen.phase = "gone"))
    /\ (surv.reg /\ surv.pid = p) ~> (~Spared(p) \/ ~Lives(p) \/ surv.pid # p)

\* docs/reload.md: "The new master tracks the survivor. It sends the stop signal
\* at least once".  So no master in its event loop ends and leaves a spared copy
\* that was not told to stop.
ToldBeforeMasterEnds ==
  [][gen.phase = "up" /\ gen'.phase = "gone" =>
       \A p \in Pids : proc'[p].who = "script" => proc'[p].st # "run"]_survvars

\* A survivor as a whole (fpm_pool_supervisor.c): only the spared copy is ever
\* signalled, no timer outlives the memory it works on, no reload loses the
\* survivor, and none prolongs its life.
SurvivorSound == SurvTypeOK /\ NoStrangerHit /\ TimersOnLiveMemory /\ NoneLost /\ ToldInTime
=============================================================================
