----------------------------- MODULE PoolManager -----------------------------
(***************************************************************************)
(* One pool of pm children in a master that serves: the forks, the idle    *)
(* server maintenance, the scale-down drains, the ondemand accept event    *)
(* and the crash backoff (fpm_children.c, fpm_process_ctl.c, fpm_request.c,*)
(* fpm_crash_backoff.c).  The master is one thread, so each callback is    *)
(* one step; children run, exit and change their scoreboard stage between  *)
(* any two of them.                                                        *)
(***************************************************************************)
EXTENDS CrashBackoff, FiniteSets, Sequences

CONSTANTS Confs,         \* the pool sections under study
          ForkFails,     \* whether fork() and malloc() may fail
          MaxBacklog     \* bound: connections that wait on the listener

VARIABLES conf,     \* the section of this pool, one of Confs
          pool,     \* the master's memory about the pool
          normal,   \* fpm_pctl_can_spawn_children()
          backlog,  \* connections that wait on the listening socket
          edge,     \* the edge-triggered accept event is pending
          crashes   \* exits so far that the maintenance did not ask for

state == <<pool, normal, backlog, edge, crashes>>

vars == <<conf, pool, normal, backlog, edge, crashes>>

PM           == conf.pm                    \* "static", "dynamic", "ondemand"
MaxChildren  == conf.max_children          \* also the scoreboard's slots
StartServers == conf.start_servers
MinSpare     == conf.min_spare_servers
MaxSpare     == conf.max_spare_servers
MaxSpawnRate == conf.max_spawn_rate
IdleTimeout  == conf.process_idle_timeout
Drains       == conf.drains                \* the type's scale_down_drains
Grace        == conf.read_timeout          \* the time a drain may take
Slowlog      == conf.slowlog               \* request_slowlog_timeout > 0
Crowded      == conf.crowded               \* process.max is set
MayStop      == conf.may_stop              \* whether a stop may begin
MaxCrashes   == conf.max_crashes           \* bound: unprompted exits

\* What fpm_conf_process_all_pools() lets through.
ASSUME PoolManagerAssumption ==
  /\ ForkFails \in BOOLEAN
  /\ MaxBacklog \in Nat
  /\ \A c \in Confs :
       /\ c.pm \in {"static", "dynamic", "ondemand"}
       /\ {c.max_children, c.max_spawn_rate} \subseteq Nat \ {0}
       /\ {c.start_servers, c.min_spare_servers, c.max_spare_servers} \subseteq Nat
       /\ {c.process_idle_timeout, c.read_timeout, c.max_crashes} \subseteq Nat
       /\ {c.drains, c.slowlog, c.may_stop, c.crowded} \subseteq BOOLEAN
       /\ c.min_spare_servers <= c.start_servers
       /\ c.start_servers <= c.max_spare_servers
       /\ c.max_spare_servers <= c.max_children

(* A child, as the master and the scoreboard know it.  stage: its request  *)
(* stage ("boot" is CREATING); quiet: the time since proc->tv changed.     *)
(* drain is the entry of the scale-down drain list, asked the time since   *)
(* the child got SIGUSR1, and retire the time since the child last moved   *)
(* its own deadline.  watched: watch_pid and watch_started name it.        *)
Child == [stage     : {"boot", "idle", "busy"},
          age       : 0 .. WINDOW,
          quiet     : 0 .. IdleTimeout + 1,
          served    : BOOLEAN,
          watched   : BOOLEAN,
          idle_kill : BOOLEAN,
          drain     : {Unset} \cup (0 .. Grace),
          asked     : {Unset} \cup (0 .. Grace),
          retire    : {Unset} \cup (0 .. Grace),
          told      : {"none", "USR1", "QUIT", "KILL"},
          dead      : BOOLEAN]

\* fpm_resources_prepare(), fork() and fpm_parent_resources_use().
Newborn(watched) ==
  [stage |-> "boot", age |-> 0, quiet |-> 0, served |-> FALSE,
   watched |-> watched, idle_kill |-> FALSE, drain |-> Unset,
   asked |-> Unset, retire |-> Unset, told |-> "none", dead |-> FALSE]

\* children lists the oldest child first: started orders them.
Pool == [children : Seq(Child), idle_spawn_rate : Nat, backoff : Entry]

Least(a, b) == IF a < b THEN a ELSE b

Running(p) == Len(p.children)

-----------------------------------------------------------------------------
(* fpm_children_make(): it forks until the pool has max children, the gate *)
(* of the backoff is closed, or a fork or a scoreboard slot fails.         *)
(* process.max counts the children of all pools, so what the others leave  *)
(* of it is any number at any call.                                        *)

Wanted(p, nb) == IF PM = "static" THEN MaxChildren - Running(p) ELSE nb

\* How many of the forks succeed.
Forks(p, nb) ==
  LET most == Least(Wanted(p, nb), MaxChildren - Running(p))
  IN IF ForkFails THEN 0 .. most
     ELSE IF Crowded THEN Least(1, most) .. most ELSE {most}

Newborns(e, k) == [i \in 1 .. k |-> Newborn(e.failures > 0 /\ i = k)]

\* Mutant: the child that was watched before stays watched.
Unwatch_Never(children, e, k) == children

\* Only one child is watched, the last that was forked during a streak.
Unwatch(children, e, k) ==
  IF e.failures > 0 /\ k > 0
  THEN [i \in DOMAIN children |-> [children[i] EXCEPT !.watched = FALSE]]
  ELSE children

Forked(p, k) ==
  LET e == fpm_crash_backoff_may_spawn(p.backoff)
  IN [p EXCEPT !.children = Unwatch(@, e, k) \o Newborns(e, k),
               !.backoff  = IF k > 0 THEN fpm_crash_backoff_child_spawned(e)
                                     ELSE e]

fpm_children_make(p, nb) ==
  IF ~normal \/ Wanted(p, nb) <= 0 THEN {p}
  ELSE (IF Crowded THEN {p} ELSE {}) \cup
       IF ~GateOpen(p.backoff)
       THEN {[p EXCEPT !.backoff = fpm_crash_backoff_may_spawn(@)]}
       ELSE {Forked(p, k) : k \in Forks(p, nb)}

-----------------------------------------------------------------------------
(* The idle server maintenance, every second. *)

Idle(p) == {i \in DOMAIN p.children : p.children[i].stage = "idle"}

\* last_idle_child: the idle child that was started first.
Oldest(S) == CHOOSE i \in S : \A j \in S : i <= j

Signal(c, signo) ==
  [c EXCEPT !.told   = IF @ = "KILL" THEN @ ELSE signo,
            !.asked  = IF signo = "USR1" /\ @ = Unset THEN 0 ELSE @,
            !.retire = IF signo = "USR1" /\ @ = Unset THEN 0 ELSE @]

\* Mutant: a child that drains is killed by the next pass.
fpm_pctl_kill_idle_child_NoGrace(c) ==
  IF c.idle_kill
  THEN {Signal([c EXCEPT !.drain = Unset], "KILL")}
  ELSE {Signal([c EXCEPT !.idle_kill = TRUE,
                         !.drain = IF Drains THEN 0 ELSE @],
               IF Drains THEN "USR1" ELSE "QUIT")}

\* The entry of the drain list may be missing: its malloc() is best effort.
fpm_pctl_kill_idle_child(c) ==
  IF c.idle_kill
  THEN IF Drains /\ c.drain # Unset /\ c.drain < Grace THEN {c}
       ELSE {Signal([c EXCEPT !.drain = Unset], "KILL")}
  ELSE IF Drains
       THEN {Signal([c EXCEPT !.idle_kill = TRUE, !.drain = d], "USR1") :
               d \in IF ForkFails THEN {0, Unset} ELSE {0}}
       ELSE {Signal([c EXCEPT !.idle_kill = TRUE], "QUIT")}

KillOldest(p) ==
  LET i == Oldest(Idle(p))
  IN {[p EXCEPT !.children[i] = c] :
        c \in fpm_pctl_kill_idle_child(p.children[i])}

\* The pool with its spawn rate back at one.
Slow(P) == {[p EXCEPT !.idle_spawn_rate = 1] : p \in P}

Doubled(rate) == IF rate < MaxSpawnRate THEN 2 * rate ELSE rate

ChildrenToFork(p) ==
  Least(Least(p.idle_spawn_rate, MinSpare - Cardinality(Idle(p))),
        MaxChildren - Running(p))

\* Fewer idle children than pm.min_spare_servers.
SpawnSpare(p) ==
  LET q == [p EXCEPT !.backoff = fpm_crash_backoff_may_spawn(@)]
  IN IF ~GateOpen(p.backoff) \/ ChildrenToFork(p) <= 0 THEN Slow({q})
     ELSE {[r EXCEPT !.idle_spawn_rate = Doubled(@)] :
             r \in fpm_children_make(q, ChildrenToFork(p))}

fpm_pctl_perform_idle_server_maintenance(p) ==
  IF PM = "ondemand"
  THEN IF Idle(p) # {} /\ p.children[Oldest(Idle(p))].quiet > IdleTimeout
       THEN KillOldest(p) ELSE {p}
  ELSE IF PM # "dynamic" THEN {p}
  ELSE IF Cardinality(Idle(p)) > MaxSpare THEN Slow(KillOldest(p))
  ELSE IF Cardinality(Idle(p)) < MinSpare THEN SpawnSpare(p)
  ELSE Slow({p})

-----------------------------------------------------------------------------
(* What the children do. *)

Become(i, c) == pool' = [pool EXCEPT !.children[i] = c]

Up(i) == i \in DOMAIN pool.children /\ ~pool.children[i].dead

\* fpm_request_accepting(): a child that is new, or done with its request.
\* A response that a drain delivers extends it (fpm_direct_retire_extend()).
Accepting(i) ==
  /\ Up(i)
  /\ pool.children[i].stage # "idle"
  /\ Become(i, [pool.children[i] EXCEPT !.stage = "idle", !.quiet = 0,
                   !.retire = IF @ = Unset THEN @ ELSE 0])
  /\ UNCHANGED <<normal, backlog, edge, crashes>>

\* fpm_request_reading_headers() on a new connection; a child that was told
\* to leave accepts none.
ReadingHeaders(i) ==
  /\ Up(i)
  /\ pool.children[i].stage = "idle"
  /\ pool.children[i].told = "none"
  /\ backlog > 0
  /\ backlog' = backlog - 1
  /\ Become(i, [pool.children[i] EXCEPT !.stage = "busy", !.served = TRUE,
                                        !.quiet = 0])
  /\ UNCHANGED <<normal, edge, crashes>>

\* ... and on a connection that a draining child still holds open.
KeptAlive(i) ==
  /\ Up(i)
  /\ pool.children[i].stage = "idle"
  /\ pool.children[i].told = "USR1"
  /\ Become(i, [pool.children[i] EXCEPT !.stage = "busy", !.served = TRUE,
                                        !.quiet = 0])
  /\ UNCHANGED <<normal, backlog, edge, crashes>>

\* A child that was told to leave exits, a draining one when it is idle.
Leave(i) ==
  /\ Up(i)
  /\ \/ pool.children[i].told \in {"QUIT", "KILL"}
     \/ pool.children[i].told = "USR1" /\ pool.children[i].stage = "idle"
  /\ Become(i, [pool.children[i] EXCEPT !.dead = TRUE])
  /\ UNCHANGED <<normal, backlog, edge, crashes>>

Crash(i) ==
  /\ Up(i)
  /\ crashes < MaxCrashes
  /\ crashes' = crashes + 1
  /\ Become(i, [pool.children[i] EXCEPT !.dead = TRUE])
  /\ UNCHANGED <<normal, backlog, edge>>

-----------------------------------------------------------------------------
(* The callbacks of the master. *)

\* Mutant: a child that was told to leave counts as a crash.
ExitCounts_Always(c) == normal

\* Whether the exit of c says anything about the pool.
ExitCounts(c) == normal /\ ~c.idle_kill

\* Mutant: an ondemand pool waits for its accept event.
Respawns_NotOndemand(c) == ~c.idle_kill /\ PM # "ondemand"

\* Whether the child is replaced: not the one that was told to leave.
Respawns(c) == ~c.idle_kill

\* The list without its child i.
Removed(s, i) == [j \in 1 .. Len(s) - 1 |-> IF j < i THEN s[j] ELSE s[j + 1]]

fpm_children_bury(i) ==
  LET c == pool.children[i]
      p == [pool EXCEPT !.children = Removed(@, i)]
      E == IF ExitCounts(c)
           THEN fpm_crash_backoff_child_exited(p.backoff, c.served, c.age)
           ELSE {p.backoff}
  IN /\ c.dead
     /\ \E e \in E :
          LET q == [p EXCEPT !.backoff = e]
          IN pool' \in IF Respawns(c) THEN fpm_children_make(q, 1) ELSE {q}
     /\ UNCHANGED <<normal, backlog, edge, crashes>>

\* The child of a slow request is stopped for tracing: the same loop forgets
\* its drain before it looks at the status.
BuryStopped(i) ==
  /\ Slowlog
  /\ Up(i)
  /\ pool.children[i].stage = "busy"
  /\ Become(i, [pool.children[i] EXCEPT !.drain = Unset])
  /\ UNCHANGED <<normal, backlog, edge, crashes>>

GateFired(p) == [p EXCEPT !.backoff.queued = FALSE, !.backoff.armed = FALSE]

fpm_crash_backoff_gate_fire ==
  /\ pool.backoff.queued
  /\ pool.backoff.due = 0
  /\ pool' \in fpm_children_make(GateFired(pool), 1)
  /\ UNCHANGED <<normal, backlog, edge, crashes>>

fpm_crash_backoff_survive_fire ==
  LET p == [pool EXCEPT !.backoff.survive = Unset]
  IN /\ pool.backoff.survive = 0
     /\ IF /\ pool.backoff.failures > 0
           /\ \E i \in DOMAIN pool.children : pool.children[i].watched
        THEN pool' \in fpm_children_make(
                         [p EXCEPT !.backoff = fpm_crash_backoff_clear(@)], 1)
        ELSE pool' = p
     /\ UNCHANGED <<normal, backlog, edge, crashes>>

Heartbeat ==
  /\ normal
  /\ pool' \in fpm_pctl_perform_idle_server_maintenance(pool)
  /\ UNCHANGED <<normal, backlog, edge, crashes>>

fpm_pctl_on_socket_accept ==
  /\ edge
  /\ edge' = FALSE
  /\ pool' \in IF Running(pool) >= MaxChildren \/ Idle(pool) # {} THEN {pool}
               ELSE fpm_children_make(pool, 1)
  /\ UNCHANGED <<normal, backlog, crashes>>

\* A client connects.  Only an ondemand pool has an accept event.
Connect ==
  /\ backlog < MaxBacklog
  /\ backlog' = backlog + 1
  /\ edge' = (PM = "ondemand")
  /\ UNCHANGED <<pool, normal, crashes>>

\* A stop or a reload begins (ProcessCtl).
Stop ==
  /\ MayStop
  /\ normal
  /\ normal' = FALSE
  /\ UNCHANGED <<pool, backlog, edge, crashes>>

More(t, most) == IF t # Unset /\ t < most THEN t + 1 ELSE t

Older(c) ==
  [c EXCEPT !.age    = More(@, WINDOW),
            !.quiet  = IF PM = "ondemand" THEN More(@, IdleTimeout + 1) ELSE @,
            !.drain  = More(@, Grace),
            !.asked  = More(@, Grace),
            !.retire = More(@, Grace)]

Tick ==
  /\ pool' = [pool EXCEPT
                !.children = [i \in DOMAIN @ |-> Older(@[i])],
                !.backoff  = Clock(@)]
  /\ UNCHANGED <<normal, backlog, edge, crashes>>

-----------------------------------------------------------------------------
\* fpm_children_create_initial(): the first fork has no streak to wait for.
Initial ==
  CASE PM = "static" -> MaxChildren [] PM = "dynamic" -> StartServers
    [] PM = "ondemand" -> 0

Init ==
  /\ conf \in Confs
  /\ \E n \in IF Crowded THEN 0 .. Initial ELSE {Initial} :
       pool = [children        |-> [i \in 1 .. n |-> Newborn(FALSE)],
               idle_spawn_rate |-> 1,
               backoff         |-> fpm_crash_backoff_init]
  /\ normal = TRUE
  /\ backlog = 0
  /\ edge = FALSE
  /\ crashes = 0

Process(i) ==
  Accepting(i) \/ ReadingHeaders(i) \/ KeptAlive(i) \/ Leave(i) \/ Crash(i)

Next ==
  /\ \/ \E i \in DOMAIN pool.children :
          Process(i) \/ fpm_children_bury(i) \/ BuryStopped(i)
     \/ fpm_crash_backoff_gate_fire
     \/ fpm_crash_backoff_survive_fire
     \/ Heartbeat
     \/ fpm_pctl_on_socket_accept
     \/ Connect
     \/ Stop
     \/ Tick
  /\ UNCHANGED conf

Spec == Init /\ [][Next]_vars

Slots == UNION {1 .. c.max_children : c \in Confs}

(* The event loop runs every timer that is due and every pending event,    *)
(* time passes, and a child that may serve a waiting connection, get ready *)
(* or leave does so.  Clients and crashes owe nobody a step.               *)
Fairness ==
  /\ WF_state(Tick)
  /\ WF_state(fpm_crash_backoff_gate_fire)
  /\ WF_state(fpm_crash_backoff_survive_fire)
  /\ WF_state(fpm_pctl_on_socket_accept)
  /\ WF_state(Heartbeat)
  /\ \A i \in Slots :
       /\ WF_state(i \in DOMAIN pool.children /\ fpm_children_bury(i))
       /\ WF_state(Accepting(i))
       /\ WF_state(ReadingHeaders(i))
       /\ WF_state(Leave(i))

FairSpec == Spec /\ Fairness

-----------------------------------------------------------------------------
(* Properties. *)

\* The children fit the scoreboard, at most one is watched, the spawn rate
\* doubles below pm.max_spawn_rate only.
TypeOK ==
  /\ pool \in [children : Seq(Child), idle_spawn_rate : 1 .. 2 * MaxSpawnRate - 1,
               backoff : Entry]
  /\ Running(pool) <= MaxChildren
  /\ \A i, j \in DOMAIN pool.children :
       pool.children[i].watched /\ pool.children[j].watched => i = j
  /\ normal \in BOOLEAN
  /\ backlog \in 0 .. MaxBacklog
  /\ edge \in BOOLEAN
  /\ crashes \in 0 .. MaxCrashes

\* A static pool that lacks a child has its gate timer queued, not later than
\* the end of the wait: no sequence of exits, timers and ended streaks loses
\* the respawn (fpm_crash_backoff_may_spawn() called by every path that may
\* fork).  Not when process.max is set: a fork it refuses is not tried again.
RespawnScheduled ==
  normal /\ PM = "static" /\ ~ForkFails /\ ~Crowded /\ Running(pool) < MaxChildren =>
    /\ pool.backoff.queued
    /\ pool.backoff.next # Unset
    /\ pool.backoff.due <= pool.backoff.next

\* Without a streak nothing waits and the pool has not given up; it gives up
\* only after pm.max_consecutive_failures, and only exits that the maintenance
\* did not ask for make a streak, a SIGQUIT of a log rotation among them
\* (fpm_crash_backoff_child_exited, _clear).
StreakMeaning ==
  LET e == pool.backoff
  IN /\ e.failures = 0 => e.next = Unset /\ ~e.gave_up /\ ~e.shown
     /\ e.gave_up => MaxFailures > 0 /\ e.failures >= MaxFailures
     /\ e.failures <= crashes

\* respawn_delay_ms is the wait for a child that is not forked yet: zero when
\* none is pending (fpm_crash_backoff.h:44), unless process.max or a failed
\* fork stops the child that was due.
WaitShown ==
  LET e == pool.backoff
  IN /\ e.next > 0 => e.shown
     /\ e.shown /\ ~ForkFails /\ ~Crowded => e.next # Unset

\* The backoff of a pool as a whole (fpm_crash_backoff.c): its streak, its wait
\* and its timer belong together, so that no respawn is lost and the status
\* page shows the wait there is.
BackoffSound == TypeOK /\ RespawnScheduled /\ StreakMeaning /\ WaitShown

Alive(p) == {i \in DOMAIN p.children : ~p.children[i].dead}

\* A step from p to q that forks finds the wait of the streak over.
ForksInTime(p, q) ==
  Cardinality(Alive(q)) > Cardinality(Alive(p)) =>
    /\ q.backoff.next = Unset
    /\ p.backoff.next <= 0 \/ q.backoff.failures = 0

\* No path forks a child before the wait of the streak is over: not the exit
\* of another child, not a queued gate of an older streak, not the
\* maintenance of a dynamic pool.
BackoffHonoured == [][ForksInTime(pool, pool')]_vars

\* A child that a scale-down told to drain is not killed before it had
\* http.read_timeout for it (fpm_scale_down_drain.h:4-7).
DrainGrace ==
  Drains => \A i \in DOMAIN pool.children :
              LET c == pool.children[i]
              IN c.idle_kill /\ c.told = "KILL" => c.asked = Grace

\* After the last crash a static pool gets all its children back and keeps
\* them: the backoff delays a respawn, it never drops one (process.max does).
PoolRecovers ==
  PM = "static" /\ ~MayStop /\ ~Crowded =>
    <>[](Running(pool) = MaxChildren /\ Alive(pool) = 1 .. MaxChildren)

\* A connection to an ondemand pool is accepted in the end, whatever crashes
\* and waits come between; only a child that the maintenance told to leave
\* while the master still counted it as idle can strand it, or process.max.
AcceptedUnlessIdleKill ==
  PM = "ondemand" /\ ~Crowded /\ [](\A i \in DOMAIN pool.children : ~pool.children[i].idle_kill)
    => (backlog > 0 ~> backlog = 0)

\* Crashes only delay a pool (fpm_crash_backoff_may_spawn): a static one gets
\* its children back, and an ondemand one accepts every connection.
PoolServes == PoolRecovers /\ AcceptedUnlessIdleKill
=============================================================================
