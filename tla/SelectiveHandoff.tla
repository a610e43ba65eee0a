-------------------------- MODULE SelectiveHandoff --------------------------
(***************************************************************************)
(* A selective reload hands the workers of an unchanged pool from one      *)
(* master image to the next: they are detached and listed in the           *)
(* environment (fpm_reload_selective.c), a guard process watches over them *)
(* while no master owns them (fpm_reload_selective_guard.c), the next      *)
(* master adopts them, and it polls the ones it is not the parent of       *)
(* (fpm_adopted_sweep.c).  The module follows processes by pid and start   *)
(* time, so that a pid can be reused, and lets the master be killed        *)
(* between any two steps.  The requests the workers serve are left out.    *)
(***************************************************************************)
EXTENDS Naturals, FiniteSets

CONSTANTS Pids,        \* process ids, reused once their process is reaped
          Pools,
          Want,        \* pm.max_children of every (static) pool
          Daemonize,   \* daemonize = yes: the next master is no parent of the carried
          MaxStart,    \* bound: processes that one pid names, one after another
          MaxReloads,  \* bound: reloads
          MayKill,     \* the master may be killed outright
          AllocFails   \* an allocation that the handoff needs may fail

ASSUME HandoffAssumption ==
    /\ IsFiniteSet(Pids) /\ IsFiniteSet(Pools) /\ "none" \notin Pools
    /\ {Want, MaxStart, MaxReloads} \subseteq Nat \ {0}
    /\ {Daemonize, MayKill, AllocFails} \subseteq BOOLEAN

VARIABLES proc,      \* the kernel's process table
          phase,     \* where the master is
          todo,      \* pools that the loop of this phase has not reached
          children,  \* wp->children of all pools
          env,       \* FPMNG_SELECTIVE_RELOAD_SURVIVORS
          cur,       \* the pool whose initial children are being created, or "none"
          taken,     \* its entries that left env and are not adopted yet
          guard,     \* the guard process and its copy of the list
          holders,   \* forked children that still hold the guard's pipe
          sigchld,   \* none, in the signal pipe or postponed by a zero timer, pending, or being handled
          killed,    \* the master did not exit by itself
          lost,      \* entries that a failed allocation dropped on the way
          reloads

vars == <<proc, phase, todo, children, env, cur, taken, guard, holders, sigchld, killed, lost, reloads>>

----------------------------------------------------------------------------
(* Processes *)

Nobody == [start |-> 0, kind |-> "none", pool |-> "none", state |-> "none",
           parent |-> "none", told |-> FALSE]

Free == {p \in Pids : proc[p].state = "none"}

Born(p, kind, pool) ==
    [start |-> proc[p].start + 1, kind |-> kind, pool |-> pool, state |-> "run",
     parent |-> IF kind = "worker" THEN "master" ELSE "init", told |-> FALSE]

Reaped(p) == [Nobody EXCEPT !.start = proc[p].start]

fpm_pid_is_same_AnyStart(e) == proc[e.pid].state # "none"

\* a zombie keeps its start time; an entry without one is whatever has the pid
fpm_pid_is_same(e) ==
    /\ proc[e.pid].state # "none"
    /\ e.start # 0 => proc[e.pid].start = e.start

\* /proc has no start time of a process that init has reaped
fpm_pid_start_time(p) == IF proc[p].state = "none" THEN 0 ELSE proc[p].start

\* the table is read when the worker is listed
Listed(cs) == {[pool |-> c.pool, pid |-> c.pid, start |-> fpm_pid_start_time(c.pid)] : c \in cs}

\* kill(): the process that has the pid now
Told(pids) == [p \in Pids |-> IF p \in pids /\ proc[p].state # "none"
                              THEN [proc[p] EXCEPT !.told = TRUE] ELSE proc[p]]

fpm_reload_selective_sigterm_list_Nobody(es) == proc

fpm_reload_selective_sigterm_list(es) == Told({e.pid : e \in {x \in es : fpm_pid_is_same(x)}})

Of(pool) == {c \in children : c.pool = pool}

\* orphans get a new parent
Orphaned == [p \in Pids |-> IF proc[p].parent = "master"
                            THEN [proc[p] EXCEPT !.parent = "init"] ELSE proc[p]]

\* SIGCHLD is blocked from fpm_pctl_exec() until the next master is up; what
\* the old master's signal pipe holds at the exec is lost with it
Blocked == phase \in {"exec", "armed", "init"}

----------------------------------------------------------------------------
(* The old master *)

fpm_pctl_reload ==
    /\ phase = "serving" /\ sigchld # "handling" /\ reloads < MaxReloads
    /\ phase' = "sparing" /\ todo' = Pools /\ reloads' = reloads + 1
    /\ UNCHANGED <<proc, children, env, cur, taken, guard, holders, sigchld, killed, lost>>

fpm_reload_selective_spare_pool_Unlisted(pool) ==
    /\ children' = children \ Of(pool)
    /\ UNCHANGED <<env, proc>>

\* all children are detached and listed, or (setenv() failed) told to exit
fpm_reload_selective_spare_pool(pool) ==
    /\ children' = children \ Of(pool)
    /\ \/ env' = env \cup Listed(Of(pool)) /\ UNCHANGED proc
       \/ /\ proc' = fpm_reload_selective_sigterm_list(Listed(Of(pool)))
          /\ UNCHANGED env

\* a changed pool, and one whose list could not be allocated
StopPool(pool) ==
    /\ proc' = Told({c.pid : c \in Of(pool)})
    /\ UNCHANGED <<children, env>>

fpm_pctl_kill_all(pool) ==
    /\ phase = "sparing" /\ pool \in todo
    /\ todo' = todo \ {pool}
    /\ fpm_reload_selective_spare_pool(pool) \/ StopPool(pool)
    /\ phase' = IF todo' = {} THEN "waiting" ELSE phase
    /\ UNCHANGED <<cur, taken, guard, holders, sigchld, killed, lost, reloads>>

\* the timer finds no child left
fpm_pctl_action_last ==
    /\ phase = "waiting" /\ sigchld # "handling" /\ children = {}
    /\ phase' = "exec"
    /\ UNCHANGED <<proc, todo, children, env, cur, taken, guard, holders, sigchld, killed, lost, reloads>>

\* a stop, also one that ends a reload that has not come to the exec
Stop ==
    /\ phase \in {"serving", "waiting"} /\ sigchld # "handling"
    /\ phase' = "stopping"
    /\ proc' = Told({c.pid : c \in children})
    /\ UNCHANGED <<todo, children, env, cur, taken, guard, holders, sigchld, killed, lost, reloads>>

fpm_pctl_exit ==
    /\ phase = "stopping" /\ sigchld # "handling" /\ children = {}
    /\ phase' = "failing"
    /\ UNCHANGED <<proc, todo, children, env, cur, taken, guard, holders, sigchld, killed, lost, reloads>>

fpm_reload_selective_guard_arm ==
    /\ phase = "exec"
    /\ phase' = "armed"
    /\ \/ UNCHANGED guard
       \/ env # {} /\ guard' = [state |-> "watch", list |-> env]
    /\ UNCHANGED <<proc, todo, children, env, cur, taken, holders, sigchld, killed, lost, reloads>>

\* both exec attempts may fail
fpm_pctl_exec ==
    /\ phase = "armed"
    /\ \/ phase' = "init" /\ sigchld' = IF sigchld = "pipe" THEN "none" ELSE sigchld
       \/ phase' = "failing" /\ UNCHANGED sigchld
    /\ UNCHANGED <<proc, todo, children, env, cur, taken, guard, holders, killed, lost, reloads>>

----------------------------------------------------------------------------
(* The next master *)

\* the configuration may have lost a pool; under daemonize this master is a
\* fork of the image that was executed, whose exit orphans the carried workers
fpm_init ==
    /\ phase = "init"
    /\ \/ /\ phase' = "starting" /\ \E keep \in SUBSET Pools : keep # {} /\ todo' = keep
          /\ proc' = IF Daemonize THEN Orphaned ELSE proc
       \/ phase' = "failing" /\ UNCHANGED <<proc, todo>>
    /\ sigchld' = IF sigchld = "pending" /\ ~Daemonize THEN "pipe" ELSE "none"
    /\ UNCHANGED <<children, env, cur, taken, guard, holders, killed, lost, reloads>>

\* the failed allocations: of the copy of the list, of the result
fpm_reload_selective_env_take(pool) ==
    LET mine == {e \in env : e.pool = pool} IN
    \/ taken' = mine /\ env' = env \ mine /\ UNCHANGED lost
    \/ AllocFails /\ taken' = {} /\ UNCHANGED <<env, lost>>
    \/ AllocFails /\ taken' = {} /\ env' = env \ mine /\ lost' = lost \cup mine

Begin(pool) ==
    /\ phase = "starting" /\ cur = "none" /\ pool \in todo
    /\ cur' = pool /\ todo' = todo \ {pool}
    /\ fpm_reload_selective_env_take(pool)
    /\ UNCHANGED <<proc, phase, children, guard, holders, sigchld, killed, reloads>>

\* a child of this master is left to SIGCHLD
fpm_adopted_sweep_register(e) == proc[e.pid].parent # "master"

fpm_children_adopt(e) ==
    [pool |-> e.pool, pid |-> e.pid, swept |-> fpm_adopted_sweep_register(e),
     start |-> IF e.start # 0 THEN e.start ELSE fpm_pid_start_time(e.pid)]

fpm_reload_selective_adopt(e) ==
    /\ e \in taken
    /\ taken' = taken \ {e}
    /\ \/ /\ fpm_pid_is_same(e) /\ children' = children \cup {fpm_children_adopt(e)}
          /\ UNCHANGED lost
       \/ ~fpm_pid_is_same(e) /\ UNCHANGED <<children, lost>>
       \/ AllocFails /\ lost' = lost \cup {e} /\ UNCHANGED children
    /\ UNCHANGED <<proc, phase, todo, env, cur, guard, holders, sigchld, killed, reloads>>

Shortfall_All(pool) == Want

Shortfall(pool) == Want - Cardinality(Of(pool))

Forkable(n) == {s \in SUBSET {p \in Free : proc[p].start < MaxStart} : Cardinality(s) = n}

\* the new processes hold the guard's pipe until they close it
Fork(pool, pids) ==
    /\ proc' = [p \in Pids |-> IF p \in pids THEN Born(p, "worker", pool) ELSE proc[p]]
    /\ children' = children \cup
         {[pool |-> pool, pid |-> p, swept |-> FALSE, start |-> proc[p].start + 1] : p \in pids}
    /\ holders' = IF phase = "starting" THEN holders \cup pids ELSE holders

\* fork what is missing after the adoption, or give up if a fork fails
fpm_children_create_initial ==
    /\ cur # "none" /\ taken = {}
    /\ cur' = "none"
    /\ \/ /\ \E s \in Forkable(Shortfall(cur)) : Fork(cur, s)
          /\ UNCHANGED phase
       \/ /\ Shortfall(cur) > 0
          /\ phase' = "stopping" /\ proc' = Told({c.pid : c \in children})
          /\ UNCHANGED <<children, holders>>
    /\ UNCHANGED <<todo, env, taken, guard, sigchld, killed, lost, reloads>>

\* after the initial forks, and before the exit of a master that gives up; the
\* list is dropped unread if it cannot be copied
fpm_reload_selective_sigterm_carried ==
    /\ \/ phase = "starting" /\ todo = {} /\ cur = "none" /\ phase' = "settling"
       \/ phase = "failing" /\ phase' = "leaving"
    /\ \/ proc' = fpm_reload_selective_sigterm_list(env) /\ UNCHANGED lost
       \/ AllocFails /\ env # {} /\ lost' = lost \cup env /\ UNCHANGED proc
    /\ env' = {}
    /\ UNCHANGED <<todo, children, cur, taken, guard, holders, sigchld, killed, reloads>>

\* one byte to the guard, which exits
fpm_reload_selective_guard_release ==
    /\ phase \in {"settling", "leaving"}
    /\ guard' = IF guard.state = "watch" THEN [guard EXCEPT !.state = "none", !.list = {}] ELSE guard
    /\ \/ phase = "settling" /\ phase' = "serving" /\ UNCHANGED <<proc, sigchld, holders>>
       \/ /\ phase = "leaving" /\ phase' = "gone" /\ proc' = Orphaned
          /\ sigchld' = "none" /\ UNCHANGED holders
    /\ UNCHANGED <<todo, children, env, cur, taken, killed, lost, reloads>>

fpm_reload_selective_guard_child_init(p) ==
    /\ p \in holders
    /\ holders' = holders \ {p}
    /\ UNCHANGED <<proc, phase, todo, children, env, cur, taken, guard, sigchld, killed, lost, reloads>>

----------------------------------------------------------------------------
(* The event loop of a master: SIGCHLD and the sweep *)

Looping == phase \in {"serving", "waiting", "stopping"}

\* fpm_pctl_child_exited(): the last child of a reload executes the next
\* image at once, from inside the handler that reaped it
Retire(c) ==
    LET left == children \ {c} IN
    /\ \/ /\ phase = "serving"
          /\ \E s \in {{}} \cup Forkable(1) :
                /\ proc' = [p \in Pids |-> IF p \in s THEN Born(p, "worker", c.pool)
                             ELSE IF p = c.pid /\ ~c.swept THEN Reaped(p) ELSE proc[p]]
                /\ children' = left \cup {[pool |-> c.pool, pid |-> p, swept |-> FALSE,
                                            start |-> proc[p].start + 1] : p \in s}
          /\ UNCHANGED phase
       \/ /\ phase # "serving"
          /\ proc' = IF c.swept THEN proc ELSE [proc EXCEPT ![c.pid] = Reaped(c.pid)]
          /\ children' = left
          /\ phase' = IF left = {} /\ phase = "waiting" THEN "exec" ELSE phase
    /\ UNCHANGED <<todo, env, cur, taken, guard, holders, killed, lost, reloads>>

Got_SIGCHLD ==
    /\ Looping /\ sigchld = "pipe"
    /\ sigchld' = "handling"
    /\ UNCHANGED <<proc, phase, todo, children, env, cur, taken, guard, holders, killed, lost, reloads>>

\* fpm_child_find(): the newest of its pool that has the pid
Found(p) == {c \in children : c.pid = p /\ \A d \in Of(c.pool) : d.pid = p => d.start <= c.start}

Zombies == {p \in Pids : proc[p].state = "zombie" /\ proc[p].parent = "master"}

\* one turn of the waitpid() loop
fpm_children_bury ==
    /\ Looping /\ sigchld = "handling"
    /\ \/ \E p \in Zombies : \E c \in Found(p) :
             Retire(c) /\ sigchld' = IF phase' = "exec" THEN "none" ELSE sigchld
       \/ \E p \in Zombies \ {c.pid : c \in children} :
             /\ proc' = [proc EXCEPT ![p] = Reaped(p)]
             /\ UNCHANGED <<phase, todo, children, env, cur, taken, guard, holders, sigchld, killed, lost, reloads>>
       \/ /\ Zombies = {} /\ sigchld' = "none"
          /\ UNCHANGED <<proc, phase, todo, children, env, cur, taken, guard, holders, killed, lost, reloads>>

fpm_adopted_sweep_alive_Zombie(c) == fpm_pid_is_same(c)

fpm_adopted_sweep_alive(c) == proc[c.pid].state = "run" /\ fpm_pid_is_same(c)

\* an entry that finds another child under its pid is dropped, its child stays
fpm_adopted_sweep_tick ==
    /\ Looping /\ sigchld # "handling"
    /\ \E c \in {x \in children : x.swept} :
         \/ c \in Found(c.pid) /\ ~fpm_adopted_sweep_alive(c) /\ Retire(c)
         \/ /\ c \notin Found(c.pid)
            /\ children' = (children \ {c}) \cup {[c EXCEPT !.swept = FALSE]}
            /\ UNCHANGED <<proc, phase, todo, env, cur, taken, guard, holders, killed, lost, reloads>>
    /\ UNCHANGED sigchld

----------------------------------------------------------------------------
(* The rest of the machine *)

Exit(p) ==
    /\ proc[p].state = "run"
    /\ IF proc[p].kind = "worker"
       THEN proc' = [proc EXCEPT ![p].state = "zombie"]
       ELSE proc' = [proc EXCEPT ![p] = Reaped(p)]
    /\ sigchld' = IF proc[p].parent # "master" \/ phase = "gone" THEN sigchld
                  ELSE IF Blocked THEN "pending"
                  ELSE IF sigchld = "handling" THEN sigchld ELSE "pipe"
    /\ holders' = holders \ {p}
    /\ UNCHANGED <<phase, todo, children, env, cur, taken, guard, killed, lost, reloads>>

InitReaps(p) ==
    /\ proc[p].state = "zombie" /\ proc[p].parent = "init"
    /\ proc' = [proc EXCEPT ![p] = Reaped(p)]
    /\ UNCHANGED <<phase, todo, children, env, cur, taken, guard, holders, sigchld, killed, lost, reloads>>

\* any other program of the host
Stranger(p) ==
    /\ p \in Free /\ proc[p].start \in 1 .. (MaxStart - 1)
    /\ proc' = [proc EXCEPT ![p] = Born(p, "stranger", "none")]
    /\ UNCHANGED <<phase, todo, children, env, cur, taken, guard, holders, sigchld, killed, lost, reloads>>

Killed ==
    /\ MayKill /\ phase \notin {"gone", "serving"}
    /\ phase' = "gone" /\ killed' = TRUE
    /\ proc' = Orphaned
    /\ children' = {} /\ env' = {} /\ taken' = {} /\ cur' = "none" /\ sigchld' = "none"
    /\ UNCHANGED <<todo, guard, holders, lost, reloads>>

\* read() returns 0 when the last copy of the write end is gone
fpm_reload_selective_guard_main ==
    /\ guard.state = "watch" /\ phase = "gone" /\ holders = {}
    /\ proc' = fpm_reload_selective_sigterm_list(guard.list)
    /\ guard' = [guard EXCEPT !.state = "fired", !.list = {}]
    /\ UNCHANGED <<phase, todo, children, env, cur, taken, holders, sigchld, killed, lost, reloads>>

----------------------------------------------------------------------------
Workforce == [Pools -> SUBSET Pids]

Init ==
    \E staff \in {w \in Workforce : (\A q \in Pools : Cardinality(w[q]) = Want) /\
                                     (\A q, r \in Pools : q # r => w[q] \cap w[r] = {})} :
        /\ proc = [p \in Pids |-> IF \E q \in Pools : p \in staff[q]
                      THEN [start |-> 1, kind |-> "worker", pool |-> CHOOSE q \in Pools : p \in staff[q],
                            state |-> "run", parent |-> "master", told |-> FALSE]
                      ELSE Nobody]
        /\ children = UNION {{[pool |-> q, pid |-> p, swept |-> FALSE, start |-> 1] : p \in staff[q]} : q \in Pools}
        /\ phase = "serving" /\ todo = {} /\ env = {} /\ cur = "none" /\ taken = {}
        /\ guard = [state |-> "none", list |-> {}] /\ holders = {}
        /\ sigchld = "none" /\ killed = FALSE /\ lost = {} /\ reloads = 0

Master ==
    \/ \E pool \in Pools : fpm_pctl_kill_all(pool) \/ Begin(pool)
    \/ fpm_pctl_action_last \/ fpm_pctl_exit \/ fpm_reload_selective_guard_arm
    \/ fpm_pctl_exec \/ fpm_init \/ fpm_children_create_initial
    \/ \E e \in taken : fpm_reload_selective_adopt(e)
    \/ fpm_reload_selective_sigterm_carried \/ fpm_reload_selective_guard_release

Next ==
    \/ Master \/ fpm_pctl_reload \/ Stop
    \/ Got_SIGCHLD \/ fpm_children_bury \/ fpm_adopted_sweep_tick
    \/ \E p \in Pids : Exit(p) \/ InitReaps(p) \/ Stranger(p) \/ fpm_reload_selective_guard_child_init(p)
    \/ Killed \/ fpm_reload_selective_guard_main

Spec == Init /\ [][Next]_vars

\* a told worker exits, the event loop and the guard run
FairSpec ==
    /\ Spec
    /\ WF_vars(Master) /\ WF_vars(Got_SIGCHLD) /\ WF_vars(fpm_children_bury)
    /\ WF_vars(fpm_adopted_sweep_tick) /\ WF_vars(fpm_reload_selective_guard_main)
    /\ \A p \in Pids : /\ WF_vars(proc[p].told /\ Exit(p))
                       /\ WF_vars(fpm_reload_selective_guard_child_init(p))

----------------------------------------------------------------------------
Entry == [pool : Pools, pid : Pids, start : 0 .. MaxStart]
Phases == {"serving", "sparing", "waiting", "exec", "armed", "init", "starting",
           "settling", "stopping", "failing", "leaving", "gone"}

Process == [start : 0 .. MaxStart, kind : {"none", "worker", "stranger"}, pool : Pools \cup {"none"},
            state : {"none", "run", "zombie"}, parent : {"none", "master", "init"}, told : BOOLEAN]
Child == [pool : Pools, pid : Pids, swept : BOOLEAN, start : 1 .. MaxStart]

Shape ==
    /\ proc \in [Pids -> Process] /\ children \subseteq Child
    /\ phase \in Phases /\ todo \subseteq Pools /\ cur \in Pools \cup {"none"}
    /\ UNION {env, taken, lost} \subseteq Entry /\ holders \subseteq Pids
    /\ guard \in [state : {"none", "watch", "fired"}, list : SUBSET Entry]
    /\ sigchld \in {"none", "pipe", "pending", "handling"}
    /\ killed \in BOOLEAN /\ reloads \in 0 .. MaxReloads

\* The shape of the state; a pool never has more children than it wants, the
\* adopted ones included (fpm_children_create_initial() forks the rest only).
TypeOK == Shape /\ \A q \in Pools : Cardinality(Of(q)) <= Want

Named(es, p) == \E e \in es : e.pid = p /\ e.start = proc[p].start

\* What the lists say of the process that has the pid: the master's, or the
\* guard's once the master is gone.
View(p) ==
    IF proc[p].told THEN "dismissed"
    ELSE IF Named(children, p) THEN "owned"
    ELSE IF Named(env \cup taken, p) THEN "carried"
    ELSE IF proc[p].kind = "stranger" THEN "foreign"
    ELSE IF Named(lost, p) THEN "dropped"
    ELSE IF phase = "gone" /\ Named(guard.list, p) THEN "guarded"
    ELSE "abandoned"

\* The process that is, was or will be the s-th of its pid.
Standing(p, s) ==
    IF proc[p].start < s THEN "unborn"
    ELSE IF proc[p].start > s \/ proc[p].state # "run" THEN "exited"
    ELSE View(p)

\* Every worker of a selective reload is the old master's, on its way, the
\* next master's or told to exit, whichever of sparing, arming, executing,
\* starting, adopting and forking fails; no other process is adopted or
\* signalled when it gets a carried pid; a kill leaves to nobody only what no
\* guard watches (fpm_reload_selective.c, fpm_reload_selective_guard.c).
Custody == INSTANCE HandoffCustody
    WITH Ids <- Pids \X (1 .. MaxStart),
         standing <- [i \in Pids \X (1 .. MaxStart) |-> Standing(i[1], i[2])],
         master <- IF phase # "gone" THEN "alive" ELSE IF killed THEN "killed" ELSE "exited"
CustodySpec == Custody!Spec

\* An entry that was listed still names the worker it was listed for, or
\* nothing: the start time tells it from a process that has its pid now
\* (issue #891, fpm_pid_is_same()).
CarriedAreWorkers ==
    \A e \in env \cup taken : fpm_pid_is_same(e) => proc[e.pid].kind = "worker"

\* The lists as a whole (fpm_reload_selective.c): well formed, and true.
CarrySound == TypeOK /\ CarriedAreWorkers

Corpse(p, s) ==
    /\ \E c \in children : c.pid = p /\ c.start = s
    /\ proc[p].start # s \/ proc[p].state # "run"

\* A child that has died is retired, so that its pool gets a replacement: by
\* SIGCHLD if this master is its parent, by the sweep if it is not
\* (fpm_adopted_sweep_register(), fpm_adopted_sweep_tick()).  The exception is
\* a child whose pid is in use again before the sweep came.
CorpseRetired ==
    \A p \in Pids, s \in 1 .. MaxStart :
        (phase = "serving" /\ Corpse(p, s)) ~>
            (phase # "serving" \/ ~Corpse(p, s) \/ proc[p].start > s)

\* A worker the guard watches does not stay with nobody: whatever happens to
\* the next master, the worker is adopted, told to exit, gone or dropped by a
\* failed allocation
\* (fpm_reload_selective_guard_main(), fpm_reload_selective_guard_child_init()).
GuardedSettled ==
    \A p \in Pids : (guard.state = "watch" /\ Named(guard.list, p))
                       ~> (proc[p].state # "run" \/ proc[p].told \/ Named(lost, p) \/ (phase = "serving" /\ Named(children, p)))
=============================================================================
