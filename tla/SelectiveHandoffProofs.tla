----------------------- MODULE SelectiveHandoffProofs -----------------------
(***************************************************************************)
(* The lists of a selective reload, for any number of workers, pools,      *)
(* reloads and reuses of a pid, while the executed image stays the parent  *)
(* of the carried workers (daemonize = no), and the custody they           *)
(* implement.  The argument: a worker that is still there is named by one  *)
(* list, the children, the environment, what was taken from it, or what an *)
(* allocation lost; a list never names a process that got a pid later; the *)
(* guard's copy covers what is on its way; and what the lists say of a     *)
(* process that runs is where HandoffCustody has it.  How many workers the *)
(* lists name is counted pool by pool: never more than the pool wants, the *)
(* adopted ones included, whichever worker exits in between.               *)
(***************************************************************************)
EXTENDS SelectiveHandoff, FiniteSetTheorems, TLAPS

\* Leaves go to Zenon unless they name another prover.
USE ZenonT(30)

\* The entry names the process that has the pid.
Current(e) == e.start = proc[e.pid].start /\ proc[e.pid].state # "none"

Entries == UNION {env, taken, lost}

Processes ==
  \A p \in Pids :
    /\ proc[p].state = "none" <=> proc[p].kind = "none"
    /\ proc[p].state = "zombie" => proc[p].kind = "worker"
    /\ proc[p].state # "none" => proc[p].start > 0
    /\ proc[p].kind = "worker" => proc[p].pool \in Pools
    /\ phase # "gone" /\ proc[p].kind = "worker" => proc[p].parent = "master"

\* What a list names is the worker it was made for.
Held ==
  /\ \A c \in children : /\ c.start = proc[c.pid].start /\ ~c.swept
                         /\ proc[c.pid].kind = "worker" /\ proc[c.pid].pool = c.pool
  /\ \A e \in Entries \cup guard.list :
       /\ e.start # 0 /\ e.start <= proc[e.pid].start
       /\ Current(e) => proc[e.pid].kind = "worker" /\ proc[e.pid].pool = e.pool

\* A worker is in one list, and in one as long as it runs and was not told.
Once ==
  /\ env \cap taken = {} /\ env \cap lost = {} /\ taken \cap lost = {}
  /\ \A e \in Entries : Current(e) => \A c \in children : c.pid # e.pid
  /\ phase # "gone" => \A p \in Pids :
       proc[p].kind = "worker" /\ proc[p].state = "run" /\ ~proc[p].told =>
         Named(children, p) \/ Named(Entries, p)

\* Which lists can hold something where the master is.
Stages ==
  /\ phase \in {"exec", "armed", "init", "failing", "leaving", "gone"} => children = {}
  /\ phase \in {"serving", "settling", "leaving", "gone"} => env = {}
  /\ cur # "none" => phase = "starting"
  /\ taken # {} => cur # "none" /\ \A e \in taken : e.pool = cur
  /\ phase # "gone" => ~killed
  /\ guard.state # "watch" => guard.list = {}
  /\ guard.state = "watch" =>
       phase \in {"armed", "init", "starting", "settling", "stopping", "failing", "leaving", "gone"}
  /\ guard.state = "watch" /\ phase # "gone" => env \cup taken \subseteq guard.list

HandoffInv == Shape /\ Processes /\ Held /\ Once /\ Stages

-----------------------------------------------------------------------------
(* The process table.                                                      *)

\* Process y is x, but for its parent and for having been told.
Same(x, y) == /\ y \in Process /\ y.start = x.start /\ y.kind = x.kind /\ y.pool = x.pool
              /\ y.state = x.state /\ (x.told => y.told)

LEMMA ToldIs ==
  ASSUME proc \in [Pids -> Process], NEW S
  PROVE  LET t == Told(S) IN
         /\ t \in [Pids -> Process]
         /\ \A p \in Pids : /\ Same(proc[p], t[p]) /\ t[p].parent = proc[p].parent
                            /\ t[p].told <=> proc[p].told \/ (p \in S /\ proc[p].state # "none")
<1> DEFINE y(p) == [proc[p] EXCEPT !.told = TRUE]
<1>1. ASSUME NEW p \in Pids
      PROVE  /\ y(p) \in Process /\ y(p).start = proc[p].start /\ y(p).kind = proc[p].kind
             /\ y(p).pool = proc[p].pool /\ y(p).state = proc[p].state /\ y(p).parent = proc[p].parent
             /\ y(p).told = TRUE
  BY DEF Process
<1>2. Told(S) = [p \in Pids |-> IF p \in S /\ proc[p].state # "none" THEN y(p) ELSE proc[p]]
  BY DEF Told
<1> HIDE DEF y
<1>3. ASSUME NEW p \in Pids
      PROVE  LET t == IF p \in S /\ proc[p].state # "none" THEN y(p) ELSE proc[p] IN
             /\ t \in Process /\ Same(proc[p], t) /\ t.parent = proc[p].parent
             /\ t.told <=> proc[p].told \/ (p \in S /\ proc[p].state # "none")
  <2>1. proc[p] \in Process
    OBVIOUS
  <2> QED BY <1>1, <2>1 DEF Same
<1> QED BY <1>2, <1>3

LEMMA OrphanedIs ==
  ASSUME proc \in [Pids -> Process]
  PROVE  /\ Orphaned \in [Pids -> Process]
         /\ \A p \in Pids : Same(proc[p], Orphaned[p]) /\ Orphaned[p].told = proc[p].told
<1> DEFINE y(p) == [proc[p] EXCEPT !.parent = "init"]
<1>1. ASSUME NEW p \in Pids
      PROVE  y(p) \in Process /\ Same(proc[p], y(p)) /\ y(p).told = proc[p].told
  BY DEF Process, Same
<1>2. Orphaned = [p \in Pids |-> IF proc[p].parent = "master" THEN y(p) ELSE proc[p]]
  BY DEF Orphaned
<1> HIDE DEF y
<1>3. \A p \in Pids : proc[p] \in Process /\ Same(proc[p], proc[p])
  BY DEF Same
<1> QED BY <1>1, <1>2, <1>3

LEMMA ReapedIs ==
  ASSUME proc \in [Pids -> Process], NEW p \in Pids
  PROVE  LET y == Reaped(p) IN
         y \in Process /\ y.start = proc[p].start /\ y.state = "none" /\ y.kind = "none"
<1>1. proc[p].start \in 0 .. MaxStart
  BY DEF Process
<1> QED BY <1>1 DEF Reaped, Nobody, Process

\* Process y was born of the entry x of the table.
Newborn(x, y, k, q) ==
  /\ y \in Process /\ y.start = x.start + 1 /\ y.state = "run" /\ y.kind = k /\ y.pool = q
  /\ y.parent = (IF k = "worker" THEN "master" ELSE "init") /\ y.told = FALSE /\ x.start \in Nat

LEMMA BornIs ==
  ASSUME proc \in [Pids -> Process], NEW p \in Pids, proc[p].start < MaxStart, NEW k \in {"worker", "stranger"},
         NEW q \in Pools \cup {"none"}
  PROVE  Newborn(proc[p], Born(p, k, q), k, q)
<1>1. proc[p].start \in 0 .. MaxStart /\ MaxStart \in Nat
  BY HandoffAssumption DEF Process
<1>2. proc[p].start + 1 \in 0 .. MaxStart
  BY <1>1, SMT
<1> QED BY <1>1, <1>2, SMT DEF Born, Process, Newborn


-----------------------------------------------------------------------------
(* The invariant: steps after which every process is where it was.         *)

Steady == proc' \in [Pids -> Process] /\ \A p \in Pids : Same(proc[p], proc'[p])

LEMMA Steadily ==
  ASSUME Shape, UNCHANGED proc
  PROVE  Steady /\ \A p \in Pids : proc'[p].parent = proc[p].parent
  BY DEF Steady, Same, Shape

LEMMA SteadyProcesses ==
  ASSUME HandoffInv, Steady,
         \/ phase' = "gone"
         \/ phase # "gone" /\ \A p \in Pids : proc'[p].parent = proc[p].parent
  PROVE  Processes'
  BY SMT DEF HandoffInv, Processes, Steady, Same

GoodChild(c) == /\ c.start = proc[c.pid].start /\ ~c.swept
                /\ proc[c.pid].kind = "worker" /\ proc[c.pid].pool = c.pool
GoodEntry(e) == /\ e.start # 0 /\ e.start <= proc[e.pid].start
                /\ Current(e) => proc[e.pid].kind = "worker" /\ proc[e.pid].pool = e.pool

LEMMA SteadyHeld ==
  ASSUME HandoffInv, Steady, Shape', \A c \in children' \ children : GoodChild(c),
         \A e \in (Entries \cup guard.list)' \ (Entries \cup guard.list) : GoodEntry(e)
  PROVE  Held'
<1>1. \A c \in children' : GoodChild(c)
  BY DEF HandoffInv, Held, GoodChild
<1>2. \A e \in (Entries \cup guard.list)' : GoodEntry(e)
  BY DEF HandoffInv, Held, GoodEntry
<1>3. \A p \in Pids : /\ proc'[p].start = proc[p].start /\ proc'[p].state = proc[p].state
                      /\ proc'[p].kind = proc[p].kind /\ proc'[p].pool = proc[p].pool
  BY DEF Steady, Same
<1>4. (\A c \in children' : c.pid \in Pids) /\ (\A e \in (Entries \cup guard.list)' : e.pid \in Pids)
  BY DEF Shape, Entries, Child, Entry
<1>5. ASSUME NEW c \in children'
      PROVE  /\ c.start = proc'[c.pid].start /\ ~c.swept
             /\ proc'[c.pid].kind = "worker" /\ proc'[c.pid].pool = c.pool
  BY <1>1, <1>3, <1>4 DEF GoodChild
<1>6. ASSUME NEW e \in (Entries \cup guard.list)'
      PROVE  /\ e.start # 0 /\ e.start <= proc'[e.pid].start
             /\ Current(e)' => proc'[e.pid].kind = "worker" /\ proc'[e.pid].pool = e.pool
  BY <1>2, <1>3, <1>4 DEF GoodEntry, Current
<1> QED BY <1>5, <1>6 DEF Held

\* No list changes but, perhaps, the guard's copy.
LEMMA QuietInv ==
  ASSUME HandoffInv, UNCHANGED <<proc, children, env, taken, lost>>, phase # "gone", phase' # "gone",
         guard' = guard \/ guard'.list = env, Shape', Stages'
  PROVE  HandoffInv'
<1>0. Shape /\ Once /\ Entries' = Entries
  BY DEF HandoffInv, Entries
<1>1. Steady /\ \A p \in Pids : proc'[p].parent = proc[p].parent
  BY <1>0, Steadily
<1>2. Processes'
  BY <1>1, SteadyProcesses
<1>3. (Entries \cup guard.list)' \subseteq Entries \cup guard.list
  BY <1>0 DEF Entries
<1>4. Held'
  BY <1>1, <1>3, SteadyHeld
<1>5. Once'
  BY <1>0 DEF Once, Current, Named
<1> QED BY <1>2, <1>4, <1>5 DEF HandoffInv

LEMMA QuietSteps ==
  ASSUME HandoffInv, ~Daemonize,
         \/ fpm_pctl_reload \/ fpm_pctl_action_last \/ fpm_pctl_exit \/ fpm_reload_selective_guard_arm
         \/ fpm_pctl_exec \/ fpm_init \/ Got_SIGCHLD
         \/ \E p \in Pids : fpm_reload_selective_guard_child_init(p)
  PROVE  HandoffInv'
<1>0. Shape /\ Stages
  BY DEF HandoffInv
<1>1. CASE fpm_pctl_reload
  <2>1. Shape'
    BY <1>0, <1>1, HandoffAssumption, SMT DEF Shape, fpm_pctl_reload, Phases
  <2>2. Stages'
    BY <1>0, <1>1 DEF Stages, fpm_pctl_reload
  <2> QED BY <1>1, <2>1, <2>2, QuietInv DEF fpm_pctl_reload
<1>2. CASE fpm_pctl_action_last
  <2>1. Shape'
    BY <1>0, <1>2 DEF Shape, fpm_pctl_action_last, Phases
  <2>2. Stages'
    BY <1>0, <1>2 DEF Stages, fpm_pctl_action_last
  <2> QED BY <1>2, <2>1, <2>2, QuietInv DEF fpm_pctl_action_last
<1>3. CASE fpm_pctl_exit
  <2>1. Shape'
    BY <1>0, <1>3 DEF Shape, fpm_pctl_exit, Phases
  <2>2. Stages'
    BY <1>0, <1>3 DEF Stages, fpm_pctl_exit
  <2> QED BY <1>3, <2>1, <2>2, QuietInv DEF fpm_pctl_exit
<1>4. CASE fpm_reload_selective_guard_arm
  <2>1. guard' = guard \/ guard' = [state |-> "watch", list |-> env]
    BY <1>4 DEF fpm_reload_selective_guard_arm
  <2>2. guard' \in [state : {"none", "watch", "fired"}, list : SUBSET Entry]
    BY <1>0, <2>1, SMT DEF Shape
  <2>3. Shape'
    BY <1>0, <1>4, <2>2 DEF Shape, fpm_reload_selective_guard_arm, Phases
  <2>4. taken = {} /\ cur = "none"
    BY <1>0, <1>4 DEF Stages, fpm_reload_selective_guard_arm
  <2>5. Stages'
    BY <1>0, <1>4, <2>1, <2>4, SMT DEF Stages, fpm_reload_selective_guard_arm
  <2> QED BY <1>4, <2>1, <2>3, <2>5, QuietInv, SMT DEF fpm_reload_selective_guard_arm
<1>5. CASE fpm_pctl_exec
  <2>1. Shape'
    BY <1>0, <1>5 DEF Shape, fpm_pctl_exec, Phases
  <2>2. Stages'
    BY <1>0, <1>5 DEF Stages, fpm_pctl_exec
  <2> QED BY <1>5, <2>1, <2>2, QuietInv DEF fpm_pctl_exec
<1>6. CASE fpm_init
  <2>0. proc' = proc /\ todo' \subseteq Pools
    BY <1>0, <1>6 DEF fpm_init, Shape
  <2>1. Shape'
    BY <1>0, <1>6, <2>0 DEF Shape, fpm_init, Phases
  <2>2. Stages'
    BY <1>0, <1>6 DEF Stages, fpm_init
  <2> QED BY <1>6, <2>0, <2>1, <2>2, QuietInv DEF fpm_init
<1>7. CASE Got_SIGCHLD
  <2>1. Shape'
    BY <1>0, <1>7 DEF Shape, Got_SIGCHLD
  <2>2. Stages'
    BY <1>0, <1>7 DEF Stages, Got_SIGCHLD
  <2> QED BY <1>7, <2>1, <2>2, QuietInv DEF Got_SIGCHLD, Looping
<1>8. CASE \E p \in Pids : fpm_reload_selective_guard_child_init(p)
  <2>1. Shape'
    BY <1>0, <1>8 DEF Shape, fpm_reload_selective_guard_child_init
  <2>2. Stages'
    BY <1>0, <1>8, SMT DEF Stages, fpm_reload_selective_guard_child_init
  <2>3. Processes' /\ Held' /\ Once'
    BY <1>8, SMT DEF HandoffInv, Processes, Held, Once, Current, Named, Entries, fpm_reload_selective_guard_child_init
  <2> QED BY <2>1, <2>2, <2>3 DEF HandoffInv
<1> QED BY <1>1, <1>2, <1>3, <1>4, <1>5, <1>6, <1>7, <1>8


\* Some processes were told to exit, and lists may have lost them.
LEMMA TellInv ==
  ASSUME HandoffInv, NEW S, proc' = Told(S), phase # "gone", phase' # "gone", Shape', Stages',
         UNCHANGED <<taken, lost, guard>>, children' \subseteq children, env' \subseteq env,
         \A c \in children \ children' : c.pid \in S, \A e \in env \ env' : Current(e) => e.pid \in S
  PROVE  HandoffInv'
<1>0. Shape /\ Processes /\ Held /\ Once
  BY DEF HandoffInv
<1>1. /\ Steady /\ \A p \in Pids : proc'[p].parent = proc[p].parent
      /\ \A p \in Pids : proc'[p].told <=> proc[p].told \/ (p \in S /\ proc[p].state # "none")
  BY <1>0, ToldIs, SMT DEF Shape, Steady
<1>2. Processes'
  BY <1>1, SteadyProcesses
<1>3. (Entries \cup guard.list)' \subseteq Entries \cup guard.list /\ Entries' \subseteq Entries
  BY SMT DEF Entries
<1>4. Held'
  BY <1>1, <1>3, SteadyHeld
<1>5. \A p \in Pids : /\ proc'[p].start = proc[p].start /\ proc'[p].state = proc[p].state
                      /\ proc'[p].kind = proc[p].kind
  BY <1>1 DEF Steady, Same
<1>6. \A e \in Entries : e.pid \in Pids
  BY <1>0 DEF Shape, Entries, Entry
<1>7. ASSUME NEW p \in Pids, proc'[p].kind = "worker", proc'[p].state = "run", ~proc'[p].told
      PROVE  Named(children, p)' \/ Named(Entries, p)'
  <2>1. proc[p].kind = "worker" /\ proc[p].state = "run" /\ ~proc[p].told /\ p \notin S
    BY <1>1, <1>5, <1>7
  <2>2. CASE Named(children, p)
    <3>1. PICK c \in children : c.pid = p /\ c.start = proc[p].start
      BY <2>2 DEF Named
    <3>2. c \in children'
      BY <2>1, <3>1
    <3> QED BY <1>5, <3>1, <3>2 DEF Named
  <2>3. CASE Named(Entries, p)
    <3>1. PICK e \in Entries : e.pid = p /\ e.start = proc[p].start
      BY <2>3 DEF Named
    <3>2. Current(e)
      BY <2>1, <3>1 DEF Current
    <3>3. e \in Entries'
      BY <2>1, <3>1, <3>2 DEF Entries
    <3> QED BY <1>5, <3>1, <3>3 DEF Named
  <2> QED BY <1>0, <2>1, <2>2, <2>3 DEF Once
<1>8. \A e \in Entries' : Current(e)' => \A c \in children' : c.pid # e.pid
  BY <1>0, <1>3, <1>5, <1>6, SMT DEF Once, Current
<1>9. (env \cap taken = {} /\ env \cap lost = {} /\ taken \cap lost = {})'
  BY <1>0 DEF Once
<1>10. Once'
  BY <1>7, <1>8, <1>9 DEF Once
<1> QED BY <1>2, <1>4, <1>10 DEF HandoffInv

\* A list has the start time of every worker it names.
LEMMA SameIs ==
  ASSUME HandoffInv
  PROVE  \A e \in Entries \cup guard.list : e.start # 0 /\ (fpm_pid_is_same(e) <=> Current(e))
<1>1. \A e \in Entries \cup guard.list : e.start # 0
  BY DEF HandoffInv, Held
<1> QED BY <1>1 DEF fpm_pid_is_same, Current

\* What is listed of the children is current.
LEMMA ListedIs ==
  ASSUME HandoffInv, NEW q \in Pools
  PROVE  /\ Listed(Of(q)) \subseteq Entry
         /\ \A c \in Of(q) : /\ c.pid \in Pids /\ proc[c.pid].kind = "worker"
                             /\ proc[c.pid].state # "none"
                             /\ [pool |-> c.pool, pid |-> c.pid, start |-> proc[c.pid].start] \in Listed(Of(q))
         /\ \A e \in Listed(Of(q)) : /\ \E c \in Of(q) : c.pid = e.pid
                                     /\ e.start = proc[e.pid].start /\ Current(e) /\ GoodEntry(e)
<1>0. \A c \in Of(q) : /\ c \in children /\ c \in Child /\ c.start = proc[c.pid].start /\ c.pid \in Pids
                       /\ proc[c.pid].kind = "worker" /\ proc[c.pid].pool = c.pool /\ proc[c.pid].state # "none"
                       /\ proc[c.pid].start \in 1 .. MaxStart /\ c.pool \in Pools
  BY DEF HandoffInv, Shape, Held, Processes, Of, Child
<1>3. \A c \in Of(q) : fpm_pid_start_time(c.pid) = proc[c.pid].start
  BY <1>0 DEF fpm_pid_start_time
<1>1. ASSUME NEW e \in Listed(Of(q))
      PROVE  /\ e \in Entry /\ (\E c \in Of(q) : c.pid = e.pid)
             /\ e.start = proc[e.pid].start /\ Current(e) /\ GoodEntry(e)
  <2>4. PICK c \in Of(q) : e = [pool |-> c.pool, pid |-> c.pid, start |-> fpm_pid_start_time(c.pid)]
    BY DEF Listed
  <2>1. e = [pool |-> c.pool, pid |-> c.pid, start |-> proc[c.pid].start]
    BY <1>3, <2>4
  <2>2. e.pool = c.pool /\ e.pid = c.pid /\ e.start = proc[c.pid].start /\ e \in Entry
    <3>1. proc[c.pid].start \in 0 .. MaxStart
      BY <1>0, HandoffAssumption, SMT
    <3> QED BY <1>0, <2>1, <3>1 DEF Entry
  <2>3. e.start \in Nat
    BY <2>2, SMT DEF Entry
  <2> QED BY <1>0, <2>2, <2>3, SMTT(60) DEF Current, GoodEntry
<1> QED BY <1>0, <1>1, <1>3 DEF Listed

LEMMA KillAllInv ==
  ASSUME HandoffInv, NEW q \in Pools, fpm_pctl_kill_all(q)
  PROVE  HandoffInv'
<1>0. Shape /\ Processes /\ Held /\ Once /\ Stages /\ taken = {} /\ guard.state # "watch"
  BY DEF HandoffInv, Stages, fpm_pctl_kill_all
<1>1. /\ phase = "sparing" /\ phase' \in {"sparing", "waiting"} /\ todo' \subseteq Pools
      /\ UNCHANGED <<cur, taken, guard, holders, sigchld, killed, lost, reloads>>
      /\ Of(q) \subseteq children
  BY <1>0 DEF fpm_pctl_kill_all, Shape, Of
<1>2. ASSUME children' = children \ Of(q), proc' = fpm_reload_selective_sigterm_list(Listed(Of(q))), env' = env
      PROVE  HandoffInv'
  <2> DEFINE S == {e.pid : e \in {x \in Listed(Of(q)) : fpm_pid_is_same(x)}}
  <2>1. proc' = Told(S)
    BY <1>2 DEF fpm_reload_selective_sigterm_list
  <2>2. \A c \in children \ children' : c.pid \in S
    <3>1. ASSUME NEW c \in Of(q) PROVE c.pid \in S
      <4> DEFINE e == [pool |-> c.pool, pid |-> c.pid, start |-> proc[c.pid].start]
      <4>1. e \in Listed(Of(q)) /\ e.pid = c.pid /\ e.start = proc[c.pid].start /\ proc[c.pid].state # "none"
        BY ListedIs
      <4> HIDE DEF e
      <4>2. fpm_pid_is_same(e)
        BY <4>1 DEF fpm_pid_is_same
      <4> QED BY <4>1, <4>2
    <3> QED BY <1>2, <3>1
  <2> HIDE DEF S
  <2>3. proc' \in [Pids -> Process]
    BY <1>0, <2>1, ToldIs DEF Shape
  <2>4. Shape'
    BY <1>0, <1>1, <1>2, <2>3 DEF Shape, Phases
  <2>5. Stages'
    BY <1>0, <1>1, <1>2 DEF Stages
  <2> QED BY <1>1, <1>2, <2>1, <2>2, <2>4, <2>5, TellInv
<1>3. ASSUME children' = children \ Of(q), env' = env \cup Listed(Of(q)), proc' = proc
      PROVE  HandoffInv'
  <2>1. Listed(Of(q)) \subseteq Entry
    BY ListedIs
  <2>2. Shape'
    BY <1>0, <1>1, <1>3, <2>1 DEF Shape, Phases
  <2>3. Stages'
    BY <1>0, <1>1, <1>3 DEF Stages
  <2>4. Steady /\ \A p \in Pids : proc'[p].parent = proc[p].parent
    BY <1>0, <1>3, Steadily
  <2>5. Processes'
    BY <1>1, <2>4, SteadyProcesses
  <2>6. Entries' = Entries \cup Listed(Of(q))
    BY <1>1, <1>3 DEF Entries
  <2>7. Held'
    BY <1>1, <1>3, <2>2, <2>4, <2>6, ListedIs, SteadyHeld
  <2>8. \A e \in Listed(Of(q)) : e \notin lost /\ e \notin env
    BY <1>0, ListedIs, SMT DEF Once, Entries, Of
  <2>9. (env \cap taken = {} /\ env \cap lost = {} /\ taken \cap lost = {})'
    BY <1>0, <1>1, <1>3, <2>8 DEF Once
  <2>10. ASSUME NEW e \in Entries', Current(e)', NEW c \in children' PROVE c.pid # e.pid
    <3>1. CASE e \in Entries
      BY <1>0, <1>3, <2>10, <3>1 DEF Once, Current
    <3>2. CASE e \in Listed(Of(q))
      <4>1. PICK d \in Of(q) : d.pid = e.pid
        BY <3>2, ListedIs
      <4>2. c.pid = e.pid => c.pool = q
        BY <1>0, <1>3, <4>1, SMT DEF Held, Of
      <4> QED BY <1>3, <4>2 DEF Of
    <3> QED BY <2>6, <3>1, <3>2
  <2>11. ASSUME NEW p \in Pids, proc'[p].kind = "worker", proc'[p].state = "run", ~proc'[p].told
         PROVE  Named(children, p)' \/ Named(Entries, p)'
    <3>1. Named(children, p) \/ Named(Entries, p)
      BY <1>0, <1>1, <1>3, <2>11 DEF Once
    <3>2. CASE Named(Entries, p)
      BY <1>3, <2>6, <3>2 DEF Named
    <3>3. CASE Named(children, p)
      <4>1. PICK c \in children : c.pid = p /\ c.start = proc[p].start
        BY <3>3 DEF Named
      <4>2. CASE c \in Of(q)
        <5> DEFINE e == [pool |-> c.pool, pid |-> c.pid, start |-> proc[c.pid].start]
        <5>1. e \in Listed(Of(q)) /\ e.pid = p /\ e.start = proc[p].start
          BY <4>1, <4>2, ListedIs
        <5> HIDE DEF e
        <5> QED BY <1>3, <2>6, <5>1 DEF Named
      <4>3. CASE c \notin Of(q)
        BY <1>3, <4>1, <4>3 DEF Named
      <4> QED BY <4>2, <4>3
    <3> QED BY <3>1, <3>2, <3>3
  <2>12. Once'
    BY <2>9, <2>10, <2>11 DEF Once
  <2> QED BY <2>2, <2>3, <2>5, <2>7, <2>12 DEF HandoffInv
<1>4. ASSUME children' = children, env' = env, proc' = Told({c.pid : c \in Of(q)})
      PROVE  HandoffInv'
  <2>1. proc' \in [Pids -> Process]
    BY <1>0, <1>4, ToldIs DEF Shape
  <2>2. Shape'
    BY <1>0, <1>1, <1>4, <2>1 DEF Shape, Phases
  <2>3. Stages'
    BY <1>0, <1>1, <1>4 DEF Stages
  <2> QED BY <1>1, <1>4, <2>2, <2>3, TellInv
<1> QED BY <1>2, <1>3, <1>4 DEF fpm_pctl_kill_all, fpm_reload_selective_spare_pool, StopPool


LEMMA StopInv ==
  ASSUME HandoffInv, Stop
  PROVE  HandoffInv'
<1>0. Shape /\ Stages
  BY DEF HandoffInv
<1>1. proc' \in [Pids -> Process]
  BY <1>0, ToldIs DEF Shape, Stop
<1>2. Shape'
  BY <1>0, <1>1 DEF Shape, Phases, Stop
<1>3. Stages'
  BY <1>0 DEF Stages, Stop
<1> QED BY <1>2, <1>3, TellInv DEF Stop

LEMMA GiveUpInv ==
  ASSUME HandoffInv, cur # "none", taken = {}, cur' = "none", phase' = "stopping",
         proc' = Told({c.pid : c \in children}), UNCHANGED <<children, holders>>,
         UNCHANGED <<todo, env, taken, guard, sigchld, killed, lost, reloads>>
  PROVE  HandoffInv'
<1>0. Shape /\ Stages /\ phase = "starting"
  BY DEF HandoffInv, Stages
<1>1. proc' \in [Pids -> Process]
  BY <1>0, ToldIs DEF Shape
<1>2. Shape'
  BY <1>0, <1>1 DEF Shape, Phases
<1>3. Stages'
  BY <1>0 DEF Stages
<1> QED BY <1>0, <1>2, <1>3, TellInv

\* Entries moved from one list to another, and perhaps one became a child.
LEMMA MoveInv ==
  ASSUME HandoffInv, UNCHANGED <<proc, guard>>, phase # "gone", phase' # "gone", Shape', Stages',
         Entries' \subseteq Entries,
         (env \cap taken = {} /\ env \cap lost = {} /\ taken \cap lost = {})',
         children \subseteq children',
         \A c \in children' \ children : /\ GoodChild(c) /\ \A e \in Entries' : e.pid = c.pid => ~Current(e),
         \A e \in Entries \ Entries' : Current(e) => \E c \in children' : c.pid = e.pid /\ c.start = e.start
  PROVE  HandoffInv'
<1>0. Shape /\ Once
  BY DEF HandoffInv
<1>1. Steady /\ \A p \in Pids : proc'[p].parent = proc[p].parent
  BY <1>0, Steadily
<1>2. Processes'
  BY <1>1, SteadyProcesses
<1>3. (Entries \cup guard.list)' \subseteq Entries \cup guard.list
  OBVIOUS
<1>4. Held'
  BY <1>1, <1>3, SteadyHeld
<1>5. ASSUME NEW e \in Entries', Current(e)', NEW c \in children' PROVE c.pid # e.pid
  <2>1. Current(e) /\ e \in Entries
    BY <1>5 DEF Current
  <2> QED BY <1>0, <2>1 DEF Once
<1>6. ASSUME NEW p \in Pids, proc'[p].kind = "worker", proc'[p].state = "run", ~proc'[p].told
      PROVE  Named(children, p)' \/ Named(Entries, p)'
  <2>1. Named(children, p) \/ Named(Entries, p)
    BY <1>0, <1>6 DEF Once
  <2>2. CASE Named(children, p)
    BY <2>2 DEF Named
  <2>3. CASE Named(Entries, p)
    <3>1. PICK e \in Entries : e.pid = p /\ e.start = proc[p].start
      BY <2>3 DEF Named
    <3>2. Current(e)
      BY <1>6, <3>1 DEF Current
    <3> QED BY <3>1, <3>2, SMT DEF Named
  <2> QED BY <2>1, <2>2, <2>3
<1>7. Once'
  BY <1>5, <1>6 DEF Once
<1> QED BY <1>2, <1>4, <1>7 DEF HandoffInv

LEMMA CarriedInv ==
  ASSUME HandoffInv, fpm_reload_selective_sigterm_carried
  PROVE  HandoffInv'
<1> DEFINE S == {e.pid : e \in {x \in env : fpm_pid_is_same(x)}}
<1>0. Shape /\ Stages
  BY DEF HandoffInv
<1>1. /\ env' = {} /\ phase \in {"starting", "failing"} /\ phase' \in {"settling", "leaving"}
      /\ (phase' = "leaving" <=> phase = "failing") /\ cur = "none"
      /\ UNCHANGED <<todo, children, cur, taken, guard, holders, sigchld, killed, reloads>>
      /\ \/ proc' = Told(S) /\ lost' = lost
         \/ proc' = proc /\ lost' = lost \cup env
  BY <1>0 DEF fpm_reload_selective_sigterm_carried, fpm_reload_selective_sigterm_list, Stages
<1>2. \A e \in env : Current(e) => e.pid \in S
  BY DEF Current, fpm_pid_is_same
<1> HIDE DEF S
<1>3. proc' \in [Pids -> Process]
  BY <1>0, <1>1, ToldIs DEF Shape
<1>4. Shape'
  BY <1>0, <1>1, <1>3 DEF Shape, Phases
<1>5. Stages'
  BY <1>0, <1>1 DEF Stages
<1>6. CASE proc' = Told(S) /\ lost' = lost
  BY <1>1, <1>2, <1>4, <1>5, <1>6, TellInv
<1>7. CASE proc' = proc /\ lost' = lost \cup env
  <2>1. Once
    BY DEF HandoffInv
  <2>2. Entries' = Entries
    BY <1>1, <1>7 DEF Entries
  <2>3. (env \cap taken = {} /\ env \cap lost = {} /\ taken \cap lost = {})'
    BY <1>1, <1>7, <2>1 DEF Once
  <2> QED BY <1>1, <1>4, <1>5, <1>7, <2>2, <2>3, MoveInv
<1> QED BY <1>1, <1>6, <1>7

LEMMA BeginInv ==
  ASSUME HandoffInv, NEW q \in Pools, Begin(q)
  PROVE  HandoffInv'
<1> DEFINE mine == {e \in env : e.pool = q}
<1>0. Shape /\ Stages /\ Once /\ taken = {} /\ q # "none"
  BY HandoffAssumption DEF HandoffInv, Stages, Begin
<1>1. /\ phase = "starting" /\ cur = "none" /\ cur' = q /\ todo' = todo \ {q}
      /\ UNCHANGED <<proc, phase, children, guard, holders, sigchld, killed, reloads>>
      /\ taken' \subseteq mine /\ env' \subseteq env
      /\ \/ taken' = mine /\ env' = env \ mine /\ lost' = lost
         \/ taken' = {} /\ env' = env /\ lost' = lost
         \/ taken' = {} /\ env' = env \ mine /\ lost' = lost \cup mine
  BY DEF Begin, fpm_reload_selective_env_take
<1>2. mine \subseteq env /\ \A e \in mine : e.pool = q
  OBVIOUS
<1> HIDE DEF mine
<1>3. Shape'
  BY <1>0, <1>1, <1>2 DEF Shape, Phases
<1>4. Stages'
  BY <1>0, <1>1, <1>2 DEF Stages
<1>5. Entries' = Entries
  BY <1>0, <1>1, <1>2 DEF Entries
<1>6. (env \cap taken = {} /\ env \cap lost = {} /\ taken \cap lost = {})'
  BY <1>0, <1>1, <1>2 DEF Once
<1> QED BY <1>1, <1>3, <1>4, <1>5, <1>6, MoveInv

\* A current entry is the only one of its pid.
LEMMA OnlyCurrent ==
  ASSUME HandoffInv, NEW e \in Entries, NEW f \in Entries, e.pid = f.pid, Current(e), Current(f)
  PROVE  e = f
<1>1. e \in Entry /\ f \in Entry
  BY DEF HandoffInv, Shape, Entries
<1>2. e.pool = f.pool /\ e.start = f.start
  BY DEF HandoffInv, Held, Current
<1> QED BY <1>1, <1>2, SMTT(30) DEF Entry

LEMMA AdoptInv ==
  ASSUME HandoffInv, NEW e \in taken, fpm_reload_selective_adopt(e)
  PROVE  HandoffInv'
<1> DEFINE new == fpm_children_adopt(e)
<1>0. Shape /\ Stages /\ Once /\ Processes /\ Held /\ phase = "starting" /\ cur # "none" /\ e \in Entries
      /\ e \in Entry /\ e.start # 0
  BY SameIs DEF HandoffInv, Stages, Entries, Shape
<1>1. /\ taken' = taken \ {e}
      /\ UNCHANGED <<proc, phase, todo, env, cur, guard, holders, sigchld, killed, reloads>>
      /\ \/ fpm_pid_is_same(e) /\ children' = children \cup {new} /\ lost' = lost
         \/ ~fpm_pid_is_same(e) /\ children' = children /\ lost' = lost
         \/ lost' = lost \cup {e} /\ children' = children
  BY DEF fpm_reload_selective_adopt
<1>2. /\ new.pool = e.pool /\ new.pid = e.pid /\ new.start = e.start
      /\ new.swept = (proc[e.pid].parent # "master")
  BY <1>0, SMT DEF fpm_children_adopt, fpm_adopted_sweep_register
<1>3. new \in Child
  <2>1. e.start \in 1 .. MaxStart /\ e.pool \in Pools /\ e.pid \in Pids
    BY <1>0, HandoffAssumption, SMT DEF Entry
  <2>2. new = [pool |-> e.pool, pid |-> e.pid, swept |-> proc[e.pid].parent # "master", start |-> e.start]
    BY <1>0 DEF fpm_children_adopt, fpm_adopted_sweep_register
  <2> HIDE DEF new
  <2> QED BY <2>1, <2>2 DEF Child
<1> HIDE DEF new
<1>4. fpm_pid_is_same(e) <=> Current(e)
  BY <1>0, SameIs
<1>5. Shape'
  BY <1>0, <1>1, <1>3, SMT DEF Shape
<1>6. Stages'
  BY <1>0, <1>1 DEF Stages
<1>7. Entries' \subseteq Entries /\ (lost' = lost \cup {e} => Entries' = Entries) /\ Entries \ Entries' \subseteq {e}
  BY <1>1 DEF Entries
<1>8. (env \cap taken = {} /\ env \cap lost = {} /\ taken \cap lost = {})'
  BY <1>0, <1>1 DEF Once
<1>9. CASE fpm_pid_is_same(e) /\ children' = children \cup {new} /\ lost' = lost
  <2>0. Current(e) /\ e \notin Entries'
    BY <1>0, <1>1, <1>4, <1>9 DEF Entries, Once
  <2>1. proc[e.pid].kind = "worker" /\ proc[e.pid].pool = e.pool /\ e.pid \in Pids
    BY <1>0, <2>0 DEF Held, Shape, Entry, Entries
  <2>2. GoodChild(new)
    BY <1>0, <1>2, <2>0, <2>1 DEF GoodChild, Current, Processes
  <2>3. \A f \in Entries' : f.pid = new.pid => ~Current(f)
    BY <1>2, <1>7, <2>0, <1>0, OnlyCurrent
  <2>4. \A f \in Entries \ Entries' : Current(f) => \E c \in children' : c.pid = f.pid /\ c.start = f.start
    BY <1>2, <1>7, <1>9
  <2> QED BY <1>0, <1>1, <1>5, <1>6, <1>7, <1>8, <1>9, <2>2, <2>3, <2>4, MoveInv
<1>10. CASE ~fpm_pid_is_same(e) /\ children' = children /\ lost' = lost
  <2>1. \A f \in Entries \ Entries' : ~Current(f)
    BY <1>4, <1>7, <1>10
  <2> QED BY <1>0, <1>1, <1>5, <1>6, <1>7, <1>8, <1>10, <2>1, MoveInv
<1>11. CASE lost' = lost \cup {e} /\ children' = children
  BY <1>0, <1>1, <1>5, <1>6, <1>7, <1>8, <1>11, MoveInv
<1> QED BY <1>1, <1>9, <1>10, <1>11


-----------------------------------------------------------------------------
(* The invariant: steps that change the process table.                     *)

\* Of process x under a pid, y is a later state, or y is a later process.
Later(x, y) ==
  /\ y \in Process
  /\ \/ y.start > x.start
     \/ /\ y.start = x.start
        /\ \/ y.state = "none"
           \/ /\ x.state # "none" /\ y.kind = x.kind /\ y.pool = x.pool
              /\ y.state = "run" => x.state = "run"
              /\ x.told => y.told

\* A child was forked in this step, or stays; one that left has ended.
Staffed ==
  /\ \A c \in children' : GoodChild(c)' /\ (c \in children \/ proc'[c.pid].start > proc[c.pid].start)
  /\ phase' # "gone" => \A c \in children \ children' : proc'[c.pid].state # "run"
  /\ phase' # "gone" => \A p \in Pids : proc'[p].start > proc[p].start /\ proc'[p].kind = "worker" =>
       \E c \in children' : c.pid = p /\ c.start = proc'[p].start

LEMMA LaterInv ==
  ASSUME HandoffInv, \A p \in Pids : Later(proc[p], proc'[p]), Staffed, Shape', Processes', Stages',
         lost' = lost, env' \subseteq env, taken' \subseteq taken, guard'.list \subseteq guard.list,
         phase' = "gone" \/ (phase # "gone" /\ env' = env /\ taken' = taken)
  PROVE  HandoffInv'
<1>0. Shape /\ Processes /\ Held /\ Once
  BY DEF HandoffInv
<1>1. \A p \in Pids : proc[p].start \in Nat /\ proc'[p].start \in Nat
  BY <1>0, SMT DEF Shape, Process
<1>2. Entries' \subseteq Entries /\ (Entries \cup guard.list)' \subseteq Entries \cup guard.list
  BY DEF Entries
<1>3. \A e \in Entries \cup guard.list : e.pid \in Pids /\ e.start \in Nat
  BY <1>0, SMT DEF Shape, Entry, Entries
<1>4. ASSUME NEW e \in Entries \cup guard.list
      PROVE  /\ e.start # 0 /\ e.start <= proc'[e.pid].start
             /\ Current(e)' => /\ Current(e) /\ proc'[e.pid].start = proc[e.pid].start
                               /\ proc'[e.pid].kind = "worker" /\ proc'[e.pid].pool = e.pool
  <2> DEFINE x == proc[e.pid]
             y == proc'[e.pid]
  <2>1. Later(x, y) /\ x.start \in Nat /\ y.start \in Nat /\ e.start \in Nat
    BY <1>1, <1>3
  <2>2. e.start # 0 /\ e.start <= x.start /\ (Current(e) => x.kind = "worker" /\ x.pool = e.pool)
    BY <1>0 DEF Held
  <2>3. Current(e) <=> e.start = x.start /\ x.state # "none"
    BY DEF Current
  <2>4. Current(e)' <=> e.start = y.start /\ y.state # "none"
    BY DEF Current
  <2> HIDE DEF x, y
  <2>5. e.start <= y.start
    BY <2>1, <2>2, SMT DEF Later
  <2>6. ASSUME e.start = y.start, y.state # "none"
        PROVE  x.start = y.start /\ x.state # "none" /\ y.kind = x.kind /\ y.pool = x.pool
    BY <2>1, <2>2, <2>6, SMT DEF Later
  <2> QED BY <2>2, <2>3, <2>4, <2>5, <2>6 DEF x, y
<1>5. Held'
  BY <1>2, <1>4 DEF Staffed, Held, GoodChild
<1>6. ASSUME NEW e \in Entries', Current(e)', NEW c \in children' PROVE c.pid # e.pid
  <2>1. Current(e) /\ proc'[e.pid].start = proc[e.pid].start /\ e \in Entries /\ e.pid \in Pids
    BY <1>2, <1>3, <1>4, <1>6
  <2>2. c \in children \/ proc'[c.pid].start > proc[c.pid].start
    BY DEF Staffed
  <2>3. c.pid \in Pids /\ proc[e.pid].start \in Nat
    BY <1>1, <2>1 DEF Shape, Child
  <2> QED BY <1>0, <2>1, <2>2, <2>3, SMT DEF Once
<1>7. ASSUME phase' # "gone", NEW p \in Pids, proc'[p].kind = "worker", proc'[p].state = "run", ~proc'[p].told
      PROVE  Named(children, p)' \/ Named(Entries, p)'
  <2>1. CASE proc'[p].start > proc[p].start
    BY <1>7, <2>1 DEF Staffed, Named
  <2>2. CASE ~(proc'[p].start > proc[p].start)
    <3>1. /\ proc'[p].start = proc[p].start /\ proc[p].state = "run" /\ proc[p].kind = "worker" /\ ~proc[p].told
      BY <1>7, <2>2 DEF Later
    <3>2. Named(children, p) \/ Named(Entries, p)
      BY <1>0, <1>7, <3>1 DEF Once
    <3>3. CASE Named(children, p)
      <4>1. PICK c \in children : c.pid = p /\ c.start = proc[p].start
        BY <3>3 DEF Named
      <4>2. c \in children'
        BY <1>7, <4>1 DEF Staffed
      <4> QED BY <3>1, <4>1, <4>2 DEF Named
    <3>4. CASE Named(Entries, p)
      BY <1>7, <3>1, <3>4 DEF Named, Entries
    <3> QED BY <3>2, <3>3, <3>4
  <2> QED BY <2>1, <2>2
<1>8. (env \cap taken = {} /\ env \cap lost = {} /\ taken \cap lost = {})'
  BY <1>0 DEF Once
<1>9. Once'
  BY <1>6, <1>7, <1>8 DEF Once
<1> QED BY <1>5, <1>9 DEF HandoffInv

\* Every process is where it was: at most its parent changes, and it may have
\* been told.
LEMMA SteadyInv ==
  ASSUME HandoffInv, Steady, Shape', Stages', lost' = lost,
         \/ phase' = "gone" /\ env' \subseteq env /\ taken' \subseteq taken
         \/ /\ phase # "gone" /\ env' = env /\ taken' = taken
            /\ \A p \in Pids : proc'[p].parent = proc[p].parent,
         children' = children \/ (children' = {} /\ phase' = "gone"), guard'.list \subseteq guard.list
  PROVE  HandoffInv'
<1>0. Shape /\ Held
  BY DEF HandoffInv
<1>1. Processes'
  BY SteadyProcesses
<1>2. ASSUME NEW p \in Pids
      PROVE  Later(proc[p], proc'[p])
  <2>1. Same(proc[p], proc'[p]) /\ proc[p] \in Process
    BY <1>0 DEF Steady, Shape
  <2> QED BY <2>1 DEF Same, Later, Process
<1>3. \A p \in Pids : Later(proc[p], proc'[p])
  BY <1>2
<1>4. \A p \in Pids : /\ proc'[p].start = proc[p].start /\ proc[p].start \in Nat
                      /\ proc'[p].kind = proc[p].kind /\ proc'[p].pool = proc[p].pool
  BY <1>0, SMT DEF Steady, Same, Shape, Process
<1>5. \A c \in children : c.pid \in Pids /\ GoodChild(c)
  BY <1>0 DEF Shape, Child, Held, GoodChild
<1>6. \A c \in children' : GoodChild(c)'
  BY <1>4, <1>5 DEF GoodChild
<1>7. Staffed
  BY <1>4, <1>6, SMT DEF Staffed
<1> QED BY <1>1, <1>3, <1>7, LaterInv

LEMMA ReleaseInv ==
  ASSUME HandoffInv, fpm_reload_selective_guard_release
  PROVE  HandoffInv'
<1>0. Shape /\ Stages
  BY DEF HandoffInv
<1>1. /\ guard' \in [state : {"none", "watch", "fired"}, list : SUBSET Entry] /\ guard'.list \subseteq guard.list
      /\ guard'.list = {} /\ guard'.state # "watch"
  BY <1>0 DEF Shape, Stages, fpm_reload_selective_guard_release
<1>2. CASE phase = "settling"
  <2>1. proc' = proc /\ phase' = "serving" /\ sigchld' = sigchld /\ holders' = holders
    BY <1>2 DEF fpm_reload_selective_guard_release
  <2>2. Shape'
    BY <1>0, <1>1, <2>1 DEF Shape, Phases, fpm_reload_selective_guard_release
  <2>3. Stages'
    BY <1>0, <1>1, <1>2, <2>1 DEF Stages, fpm_reload_selective_guard_release
  <2>4. Steady /\ \A p \in Pids : proc'[p].parent = proc[p].parent
    BY <1>0, <2>1, Steadily
  <2> QED BY <1>1, <1>2, <2>2, <2>3, <2>4, SteadyInv DEF fpm_reload_selective_guard_release
<1>3. CASE phase = "leaving"
  <2>1. proc' = Orphaned /\ phase' = "gone" /\ sigchld' = "none" /\ holders' = holders
    BY <1>3 DEF fpm_reload_selective_guard_release
  <2>2. Steady
    BY <1>0, <2>1, OrphanedIs DEF Steady, Shape
  <2>3. Shape'
    BY <1>0, <1>1, <2>1, <2>2 DEF Shape, Phases, fpm_reload_selective_guard_release, Steady
  <2>4. Stages'
    BY <1>0, <1>1, <1>3, <2>1 DEF Stages, fpm_reload_selective_guard_release
  <2> QED BY <1>1, <2>1, <2>2, <2>3, <2>4, SteadyInv DEF fpm_reload_selective_guard_release
<1> QED BY <1>2, <1>3 DEF fpm_reload_selective_guard_release

LEMMA KilledInv ==
  ASSUME HandoffInv, Killed
  PROVE  HandoffInv'
<1>0. Shape /\ Stages
  BY DEF HandoffInv
<1>1. Steady
  BY <1>0, OrphanedIs DEF Steady, Shape, Killed
<1>2. Shape'
  BY <1>0, <1>1 DEF Shape, Phases, Killed, Steady
<1>3. Stages'
  BY <1>0 DEF Stages, Killed
<1> QED BY <1>1, <1>2, <1>3, SteadyInv DEF Killed

LEMMA GuardFiresInv ==
  ASSUME HandoffInv, fpm_reload_selective_guard_main
  PROVE  HandoffInv'
<1>0. Shape /\ Stages
  BY DEF HandoffInv
<1>1. Steady
  BY <1>0, ToldIs DEF Steady, Shape, fpm_reload_selective_guard_main, fpm_reload_selective_sigterm_list
<1>2. /\ guard' \in [state : {"none", "watch", "fired"}, list : SUBSET Entry] /\ guard'.list = {}
      /\ guard'.state = "fired"
  BY <1>0 DEF Shape, fpm_reload_selective_guard_main
<1>3. Shape'
  BY <1>0, <1>1, <1>2 DEF Shape, Phases, fpm_reload_selective_guard_main, Steady
<1>4. Stages'
  BY <1>0, <1>2 DEF Stages, fpm_reload_selective_guard_main
<1> QED BY <1>1, <1>2, <1>3, <1>4, SteadyInv DEF fpm_reload_selective_guard_main


Turned == /\ proc' \in [Pids -> Process] /\ children' \subseteq Child /\ Processes'
          /\ Staffed /\ \A p \in Pids : Later(proc[p], proc'[p])

\* A child that a fork adds, and the ones that S adds.
NewChild(q, p) == [pool |-> q, pid |-> p, swept |-> FALSE, start |-> proc[p].start + 1]
NewChildren(q, S) == {NewChild(q, p) : p \in S}
Forked(q, S, R) == [p \in Pids |-> IF p \in S THEN Born(p, "worker", q)
                                   ELSE IF p \in R THEN Reaped(p) ELSE proc[p]]

\* The processes of S are forked, those of R reaped.
LEMMA ForkTurns ==
  ASSUME HandoffInv, NEW q, NEW S \in SUBSET Free, S = {} \/ q \in Pools, \A p \in S : proc[p].start < MaxStart,
         NEW R \in SUBSET (Pids \ S), phase' = "gone" <=> phase = "gone", phase = "gone" => S = {},
         proc' = Forked(q, S, R),
         children' = {c \in children : c.pid \notin R} \cup NewChildren(q, S)
  PROVE  Turned
<1>0. Shape /\ Processes /\ Held /\ S \subseteq Pids
  BY DEF HandoffInv, Free
<1>1. \A p \in Pids : proc[p] \in Process /\ proc[p].start \in Nat
  BY <1>0, SMT DEF Shape, Process
<1>2. ASSUME NEW p \in S
      PROVE  /\ proc'[p] \in Process /\ proc'[p].start = proc[p].start + 1 /\ proc'[p].state = "run"
             /\ proc'[p].kind = "worker" /\ proc'[p].pool = q /\ proc'[p].parent = "master"
             /\ proc[p].state = "none"
  <2>1. p \in Pids /\ proc'[p] = Born(p, "worker", q) /\ proc[p].state = "none"
    BY <1>0 DEF Free, Forked
  <2>2. Newborn(proc[p], Born(p, "worker", q), "worker", q)
    <3>1. proc \in [Pids -> Process] /\ proc[p].start < MaxStart /\ q \in Pools \cup {"none"} /\ p \in Pids
      BY <1>0, <2>1 DEF Shape
    <3> QED BY <3>1, BornIs
  <2> QED BY <2>1, <2>2 DEF Newborn
<1>3. ASSUME NEW p \in R
      PROVE  /\ proc'[p] \in Process /\ proc'[p].start = proc[p].start /\ proc'[p].state = "none"
             /\ proc'[p].kind = "none"
  <2>1. p \in Pids /\ proc'[p] = Reaped(p)
    BY DEF Forked
  <2> QED BY <1>0, <2>1, ReapedIs DEF Shape
<1>4. \A p \in Pids \ (S \cup R) : proc'[p] = proc[p]
  BY DEF Forked
<1>5. proc' \in [Pids -> Process]
  <2>1. proc' = [p \in Pids |-> proc'[p]]
    BY DEF Forked
  <2>2. \A p \in Pids : proc'[p] \in Process
    BY <1>1, <1>2, <1>3, <1>4
  <2> QED BY <2>1, <2>2
<1>6. ASSUME NEW p \in Pids PROVE Later(proc[p], proc'[p])
  <2>1. CASE p \in S
    BY <1>1, <1>2, <2>1, SMTT(60) DEF Later
  <2>2. CASE p \in R
    BY <1>3, <2>2 DEF Later
  <2>3. CASE p \notin S \cup R
    <3>1. proc'[p] = proc[p] /\ proc[p] \in Process
      BY <1>1, <1>4, <2>3
    <3> QED BY <3>1 DEF Later
  <2> QED BY <2>1, <2>2, <2>3
<1>7. Processes'
  <2>1. ASSUME NEW p \in Pids
        PROVE  /\ proc'[p].state = "none" <=> proc'[p].kind = "none"
               /\ proc'[p].state = "zombie" => proc'[p].kind = "worker"
               /\ proc'[p].state # "none" => proc'[p].start > 0
               /\ proc'[p].kind = "worker" => proc'[p].pool \in Pools
               /\ phase' # "gone" /\ proc'[p].kind = "worker" => proc'[p].parent = "master"
    <3>1. CASE p \in S
      BY <1>1, <1>2, <3>1, SMTT(60)
    <3>2. CASE p \in R
      BY <1>3, <3>2
    <3>3. CASE p \notin S \cup R
      <4>1. proc'[p] = proc[p]
        BY <1>4, <3>3
      <4> QED BY <1>0, <4>1 DEF Processes
    <3> QED BY <3>1, <3>2, <3>3
  <2> QED BY <2>1 DEF Processes
<1>8. ASSUME NEW c \in NewChildren(q, S)
      PROVE  c \in Child /\ GoodChild(c)' /\ proc'[c.pid].start > proc[c.pid].start
  <2>1. PICK p \in S : c = NewChild(q, p)
    BY DEF NewChildren
  <2>2. c.pid = p /\ c.pool = q /\ c.swept = FALSE /\ c.start = proc[p].start + 1
    BY <2>1 DEF NewChild
  <2>3. proc[p].start + 1 \in 1 .. MaxStart /\ p \in Pids
    BY <1>0, <1>1, HandoffAssumption, SMT
  <2>4. c \in Child
    BY <2>1, <2>3 DEF Child, NewChild
  <2>5. c.start = proc'[c.pid].start /\ proc'[c.pid].kind = "worker" /\ proc'[c.pid].pool = c.pool
    BY <1>2, <2>2
  <2> QED BY <1>1, <2>2, <2>3, <2>4, <2>5, SMTT(30) DEF GoodChild
<1>9. ASSUME NEW c \in children, c.pid \notin R
      PROVE  c \in Child /\ GoodChild(c)'
  <2>1. c.pid \in Pids /\ c \in Child /\ GoodChild(c)
    BY <1>0 DEF Shape, Child, Held, GoodChild
  <2>2. c.pid \notin S
    BY <1>0, <1>2, <2>1 DEF GoodChild, Processes
  <2>3. proc'[c.pid] = proc[c.pid]
    BY <1>4, <1>9, <2>1, <2>2
  <2> QED BY <2>1, <2>3 DEF GoodChild
<1>10. \A c \in children \ children' : proc'[c.pid].state # "run"
  BY <1>3
<1>11. ASSUME NEW p \in Pids, proc'[p].start > proc[p].start
       PROVE  \E c \in children' : c.pid = p /\ c.start = proc'[p].start
  <2>1. p \in S
    BY <1>1, <1>3, <1>4, <1>11, SMT
  <2>2. NewChild(q, p) \in children' /\ NewChild(q, p).pid = p /\ NewChild(q, p).start = proc'[p].start
    BY <1>2, <2>1 DEF NewChildren, NewChild
  <2> QED BY <2>2
<1>12. \A c \in children' : c \in Child /\ GoodChild(c)' /\ (c \in children \/ proc'[c.pid].start > proc[c.pid].start)
  BY <1>8, <1>9
<1>13. Staffed
  BY <1>10, <1>11, <1>12 DEF Staffed
<1> QED BY <1>5, <1>6, <1>7, <1>12, <1>13 DEF Turned

LEMMA TurnedInv ==
  ASSUME HandoffInv, Turned, Stages', UNCHANGED <<todo, env, taken, guard, killed, lost, reloads>>,
         phase' \in Phases, phase' = "gone" <=> phase = "gone", cur' \in Pools \cup {"none"}, holders' \subseteq Pids,
         sigchld' \in {"none", "pipe", "pending", "handling"}
  PROVE  HandoffInv'
<1>1. Shape'
  BY DEF HandoffInv, Shape, Turned
<1> QED BY <1>1, LaterInv DEF Turned

LEMMA ForkInv ==
  ASSUME HandoffInv, cur # "none", taken = {}, cur' = "none", NEW s \in Forkable(Shortfall(cur)), Fork(cur, s),
         UNCHANGED <<phase, todo, env, taken, guard, sigchld, killed, lost, reloads>>
  PROVE  HandoffInv'
<1>0. Shape /\ Stages /\ phase = "starting" /\ cur \in Pools
  BY DEF HandoffInv, Stages, Shape
<1>1. s \subseteq Free /\ (\A p \in s : proc[p].start < MaxStart) /\ s \subseteq Pids
  BY DEF Forkable, Free
<1>2. proc' = Forked(cur, s, {}) /\ children' = {c \in children : c.pid \notin {}} \cup NewChildren(cur, s)
  BY DEF Fork, Forked, NewChildren, NewChild
<1>3. Turned
  BY <1>0, <1>1, <1>2, ForkTurns
<1>4. holders' \subseteq Pids
  BY <1>0, <1>1 DEF Fork, Shape
<1>5. Stages'
  BY <1>0 DEF Stages
<1> QED BY <1>0, <1>3, <1>4, <1>5, TurnedInv DEF Shape

LEMMA CreateInv ==
  ASSUME HandoffInv, fpm_children_create_initial
  PROVE  HandoffInv'
  BY ForkInv, GiveUpInv DEF fpm_children_create_initial

\* A pid has one child.
LEMMA OnlyChild ==
  ASSUME HandoffInv, NEW c \in children, NEW d \in children, c.pid = d.pid
  PROVE  c = d
<1>1. c \in Child /\ d \in Child
  BY DEF HandoffInv, Shape
<1>2. c.pool = d.pool /\ c.start = d.start /\ c.swept = FALSE /\ d.swept = FALSE
  BY <1>1 DEF HandoffInv, Held, Child
<1> QED BY <1>1, <1>2, SMTT(30) DEF Child

LEMMA RetireInv ==
  ASSUME HandoffInv, Looping, NEW c \in children, proc[c.pid].state = "zombie", Retire(c),
         sigchld' \in {"none", "pipe", "pending", "handling"}
  PROVE  HandoffInv'
<1>0. Shape /\ Stages /\ c.pid \in Pids /\ c.pool \in Pools /\ ~c.swept /\ phase \in {"serving", "waiting", "stopping"}
  BY DEF HandoffInv, Shape, Child, Held, Looping
<1>1. children \ {c} = {d \in children : d.pid \notin {c.pid}}
  BY OnlyChild
<1>2. UNCHANGED <<todo, env, cur, taken, guard, holders, killed, lost, reloads>>
  BY DEF Retire
<1>3. CASE phase = "serving"
  <2>1. PICK s \in {{}} \cup Forkable(1) :
           /\ proc' = [p \in Pids |-> IF p \in s THEN Born(p, "worker", c.pool)
                        ELSE IF p = c.pid /\ ~c.swept THEN Reaped(p) ELSE proc[p]]
           /\ children' = (children \ {c}) \cup {[pool |-> c.pool, pid |-> p, swept |-> FALSE,
                                                 start |-> proc[p].start + 1] : p \in s}
    BY <1>3 DEF Retire
  <2>2. s \subseteq Free /\ (\A p \in s : proc[p].start < MaxStart) /\ s \subseteq Pids /\ c.pid \notin s
    BY <1>0 DEF Forkable, Free
  <2>3. proc' = Forked(c.pool, s, {c.pid})
    BY <1>0, <2>1 DEF Forked
  <2>4. children' = {d \in children : d.pid \notin {c.pid}} \cup NewChildren(c.pool, s)
    BY <1>1, <2>1 DEF NewChildren, NewChild
  <2>5. phase' = phase
    BY <1>3 DEF Retire
  <2>6. Turned
    BY <1>0, <1>3, <2>2, <2>3, <2>4, <2>5, ForkTurns, SMTT(60)
  <2>7. Stages'
    BY <1>0, <1>2, <1>3, <2>5 DEF Stages
  <2> QED BY <1>0, <1>2, <2>5, <2>6, <2>7, TurnedInv DEF Shape
<1>4. CASE phase # "serving"
  <2>1. /\ proc' = [proc EXCEPT ![c.pid] = Reaped(c.pid)] /\ children' = children \ {c}
        /\ phase' = IF children \ {c} = {} /\ phase = "waiting" THEN "exec" ELSE phase
    BY <1>0, <1>4 DEF Retire
  <2>2. proc' = Forked(c.pool, {}, {c.pid})
    BY <1>0, <2>1 DEF Forked, Shape
  <2>3. children' = {d \in children : d.pid \notin {c.pid}} \cup NewChildren(c.pool, {})
    BY <1>1, <2>1 DEF NewChildren
  <2>4. phase' # "gone" /\ phase # "gone" /\ phase' \in Phases
    BY <1>0, <2>1 DEF Phases
  <2>5. Turned
    BY <1>0, <2>2, <2>3, <2>4, ForkTurns, SMT
  <2>6. Stages'
    BY <1>0, <1>2, <2>1 DEF Stages
  <2> QED BY <1>0, <1>2, <2>4, <2>5, <2>6, TurnedInv DEF Shape
<1> QED BY <1>3, <1>4

\* A process that is no child is reaped.
LEMMA ReapInv ==
  ASSUME HandoffInv, NEW p \in Pids, \A c \in children : c.pid # p, proc' = [proc EXCEPT ![p] = Reaped(p)],
         UNCHANGED <<phase, todo, children, env, cur, taken, guard, killed, lost, reloads>>,
         holders' \subseteq Pids, sigchld' \in {"none", "pipe", "pending", "handling"}
  PROVE  HandoffInv'
<1>0. Shape /\ Stages
  BY DEF HandoffInv
<1>1. Stages'
  BY <1>0 DEF Stages
<1>2. proc' = Forked("none", {}, {p})
  BY <1>0 DEF Forked, Shape
<1>3. children' = {d \in children : d.pid \notin {p}} \cup NewChildren("none", {})
  BY DEF NewChildren
<1>4. Turned
  BY <1>2, <1>3, ForkTurns, SMT
<1> QED BY <1>0, <1>1, <1>4, TurnedInv DEF Shape


LEMMA BuryInv ==
  ASSUME HandoffInv, fpm_children_bury
  PROVE  HandoffInv'
<1>0. Shape /\ Stages /\ Looping /\ sigchld = "handling"
  BY DEF HandoffInv, fpm_children_bury
<1>1. ASSUME NEW p \in Zombies, NEW c \in Found(p), Retire(c),
             sigchld' = IF phase' = "exec" THEN "none" ELSE sigchld
      PROVE  HandoffInv'
  <2>1. c \in children /\ proc[c.pid].state = "zombie"
    BY DEF Found, Zombies
  <2> QED BY <1>0, <1>1, <2>1, RetireInv
<1>2. ASSUME NEW p \in Zombies \ {c.pid : c \in children}, proc' = [proc EXCEPT ![p] = Reaped(p)],
             UNCHANGED <<phase, todo, children, env, cur, taken, guard, holders, sigchld, killed, lost, reloads>>
      PROVE  HandoffInv'
  <2>1. p \in Pids /\ \A c \in children : c.pid # p
    BY DEF Zombies
  <2> QED BY <1>0, <1>2, <2>1, ReapInv DEF Shape
<1>3. ASSUME sigchld' = "none",
             UNCHANGED <<proc, phase, todo, children, env, cur, taken, guard, holders, killed, lost, reloads>>
      PROVE  HandoffInv'
  <2>1. Shape'
    BY <1>0, <1>3 DEF Shape
  <2>2. Stages'
    BY <1>0, <1>3 DEF Stages
  <2> QED BY <1>0, <1>3, <2>1, <2>2, QuietInv DEF Looping
<1> QED BY <1>1, <1>2, <1>3 DEF fpm_children_bury

LEMMA NoSweep ==
  ASSUME HandoffInv
  PROVE  ~fpm_adopted_sweep_tick
  BY DEF HandoffInv, Held, fpm_adopted_sweep_tick

LEMMA ExitInv ==
  ASSUME HandoffInv, NEW p \in Pids, Exit(p)
  PROVE  HandoffInv'
<1>0. /\ Shape /\ Stages /\ Processes /\ Held /\ proc[p].state = "run" /\ proc[p] \in Process
      /\ UNCHANGED <<phase, todo, children, env, cur, taken, guard, killed, lost, reloads>>
      /\ holders' \subseteq Pids /\ sigchld' \in {"none", "pipe", "pending", "handling"}
  BY DEF HandoffInv, Shape, Exit
<1>1. CASE proc[p].kind # "worker"
  <2>1. \A c \in children : c.pid # p
    BY <1>0, <1>1 DEF Held
  <2>2. proc' = [proc EXCEPT ![p] = Reaped(p)]
    BY <1>1 DEF Exit
  <2> QED BY <1>0, <2>1, <2>2, ReapInv
<1>2. CASE proc[p].kind = "worker"
  <2> DEFINE y == [proc[p] EXCEPT !.state = "zombie"]
  <2>1. proc' = [proc EXCEPT ![p] = y]
    BY <1>0, <1>2 DEF Exit
  <2>2. /\ y \in Process /\ y.state = "zombie" /\ y.kind = "worker" /\ y.start = proc[p].start
        /\ y.pool = proc[p].pool /\ y.parent = proc[p].parent /\ (proc[p].told => y.told)
    BY <1>0, <1>2 DEF Process
  <2> HIDE DEF y
  <2>3. proc' \in [Pids -> Process] /\ proc'[p] = y /\ \A r \in Pids : r # p => proc'[r] = proc[r]
    BY <1>0, <2>1, <2>2 DEF Shape
  <2>4. \A r \in Pids : Later(proc[r], proc'[r])
    <3>1. Later(proc[p], y)
      <4>1. y \in Process /\ y.start = proc[p].start /\ proc[p].state # "none" /\ y.kind = proc[p].kind
        BY <1>0, <1>2, <2>2
      <4>2. y.pool = proc[p].pool /\ y.state # "run" /\ (proc[p].told => y.told)
        BY <2>2
      <4> QED BY <4>1, <4>2 DEF Later
    <3>2. \A r \in Pids : Later(proc[r], proc[r])
      BY <1>0 DEF Later, Shape
    <3> QED BY <2>3, <3>1, <3>2
  <2>5. \A r \in Pids : /\ proc'[r].start = proc[r].start /\ proc'[r].kind = proc[r].kind
                        /\ proc'[r].pool = proc[r].pool /\ proc'[r].parent = proc[r].parent
    BY <1>2, <2>2, <2>3
  <2>6. Processes'
    <3>1. \A r \in Pids : proc'[r].state # proc[r].state => r = p /\ proc'[r].state = "zombie"
      BY <2>2, <2>3
    <3> QED BY <1>0, <1>2, <2>5, <3>1, SMTT(60) DEF Processes
  <2>7. Staffed
    <3>1. \A c \in children : c.pid \in Pids /\ GoodChild(c)
      BY <1>0 DEF Shape, Child, Held, GoodChild
    <3>2. \A c \in children' : GoodChild(c)' /\ c \in children
      BY <1>0, <2>5, <3>1 DEF GoodChild
    <3>3. \A r \in Pids : proc[r].start \in Nat
      BY <1>0, SMT DEF Shape, Process
    <3> QED BY <1>0, <2>5, <3>2, <3>3, SMTT(60) DEF Staffed
  <2>8. Turned
    BY <1>0, <2>3, <2>4, <2>6, <2>7 DEF Turned, Shape
  <2>9. Stages'
    BY <1>0 DEF Stages
  <2> QED BY <1>0, <2>8, <2>9, TurnedInv DEF Shape
<1> QED BY <1>1, <1>2

LEMMA InitReapsInv ==
  ASSUME HandoffInv, NEW p \in Pids, InitReaps(p)
  PROVE  HandoffInv'
<1>1. Shape /\ phase = "gone" /\ children = {}
  BY DEF HandoffInv, Processes, Stages, InitReaps
<1> QED BY <1>1, ReapInv DEF InitReaps, Shape

LEMMA StrangerInv ==
  ASSUME HandoffInv, NEW p \in Pids, Stranger(p)
  PROVE  HandoffInv'
<1> DEFINE y == Born(p, "stranger", "none")
<1>0. /\ Shape /\ Stages /\ Processes /\ Held /\ proc[p].state = "none" /\ proc[p].kind = "none"
      /\ proc[p].start < MaxStart
      /\ UNCHANGED <<phase, todo, children, env, cur, taken, guard, holders, sigchld, killed, lost, reloads>>
  BY HandoffAssumption, SMTT(60) DEF HandoffInv, Processes, Stranger, Free
<1>1. proc' = [proc EXCEPT ![p] = y]
  BY DEF Stranger
<1>2. /\ y \in Process /\ y.start = proc[p].start + 1 /\ y.state = "run" /\ y.kind = "stranger"
      /\ proc[p].start \in Nat
  <2>1. proc \in [Pids -> Process] /\ "none" \in Pools \cup {"none"}
    BY <1>0 DEF Shape
  <2>2. Newborn(proc[p], Born(p, "stranger", "none"), "stranger", "none")
    BY <1>0, <2>1, BornIs
  <2> QED BY <2>2 DEF Newborn
<1> HIDE DEF y
<1>3. proc' \in [Pids -> Process] /\ proc'[p] = y /\ \A r \in Pids : r # p => proc'[r] = proc[r]
  BY <1>0, <1>1, <1>2 DEF Shape
<1>4. \A r \in Pids : Later(proc[r], proc'[r])
  <2>1. Later(proc[p], y)
    BY <1>2, SMTT(60) DEF Later
  <2>2. \A r \in Pids : Later(proc[r], proc[r])
    BY <1>0 DEF Later, Shape
  <2> QED BY <1>3, <2>1, <2>2
<1>5. Processes'
  <2>1. ASSUME NEW r \in Pids
        PROVE  /\ proc'[r].state = "none" <=> proc'[r].kind = "none"
               /\ proc'[r].state = "zombie" => proc'[r].kind = "worker"
               /\ proc'[r].state # "none" => proc'[r].start > 0
               /\ proc'[r].kind = "worker" => proc'[r].pool \in Pools
               /\ phase' # "gone" /\ proc'[r].kind = "worker" => proc'[r].parent = "master"
    <3>1. CASE r = p
      BY <1>2, <1>3, <3>1, SMT
    <3>2. CASE r # p
      BY <1>0, <1>3, <3>2 DEF Processes
    <3> QED BY <3>1, <3>2
  <2> QED BY <2>1 DEF Processes
<1>6. Staffed
  <2>1. \A c \in children : c.pid \in Pids /\ c.pid # p /\ GoodChild(c)
    BY <1>0 DEF Shape, Child, Held, GoodChild
  <2>2. \A c \in children' : GoodChild(c)' /\ c \in children
    BY <1>0, <1>3, <2>1 DEF GoodChild
  <2>3. \A r \in Pids : proc[r].start \in Nat
    BY <1>0, SMT DEF Shape, Process
  <2>4. \A r \in Pids : proc'[r].start > proc[r].start /\ proc'[r].kind = "worker" => FALSE
    BY <1>2, <1>3, <2>3, SMT
  <2> QED BY <1>0, <2>2, <2>4 DEF Staffed
<1>7. Turned
  BY <1>0, <1>3, <1>4, <1>5, <1>6 DEF Turned, Shape
<1>8. Stages'
  BY <1>0 DEF Stages
<1> QED BY <1>0, <1>7, <1>8, TurnedInv DEF Shape

LEMMA HandoffSteps ==
  ASSUME HandoffInv, ~Daemonize, [Next]_vars
  PROVE  HandoffInv'
<1>1. CASE Master
  BY <1>1, KillAllInv, BeginInv, QuietSteps, CreateInv, AdoptInv, CarriedInv, ReleaseInv DEF Master
<1>2. CASE fpm_pctl_reload \/ Stop \/ Got_SIGCHLD
  BY <1>2, QuietSteps, StopInv
<1>3. CASE fpm_children_bury \/ fpm_adopted_sweep_tick
  BY <1>3, BuryInv, NoSweep
<1>4. CASE \E p \in Pids : Exit(p) \/ InitReaps(p) \/ Stranger(p) \/ fpm_reload_selective_guard_child_init(p)
  BY <1>4, ExitInv, InitReapsInv, StrangerInv, QuietSteps
<1>5. CASE Killed \/ fpm_reload_selective_guard_main
  BY <1>5, KilledInv, GuardFiresInv
<1>6. CASE UNCHANGED vars
  BY <1>6, SMTT(60) DEF vars, HandoffInv, Shape, Processes, Held, Once, Stages, Entries, Current, Named
<1> QED BY <1>1, <1>2, <1>3, <1>4, <1>5, <1>6 DEF Next

LEMMA HandoffStarts ==
  ASSUME Init
  PROVE  HandoffInv
<1>1. PICK w \in Workforce :
        /\ \A q \in Pools : Cardinality(w[q]) = Want
        /\ \A q, r \in Pools : q # r => w[q] \cap w[r] = {}
        /\ proc = [p \in Pids |-> IF \E q \in Pools : p \in w[q]
                      THEN [start |-> 1, kind |-> "worker", pool |-> CHOOSE q \in Pools : p \in w[q],
                            state |-> "run", parent |-> "master", told |-> FALSE]
                      ELSE Nobody]
        /\ children = UNION {{[pool |-> q, pid |-> p, swept |-> FALSE, start |-> 1] : p \in w[q]} : q \in Pools}
        /\ phase = "serving" /\ todo = {} /\ env = {} /\ cur = "none" /\ taken = {}
        /\ guard = [state |-> "none", list |-> {}] /\ holders = {}
        /\ sigchld = "none" /\ killed = FALSE /\ lost = {} /\ reloads = 0
  BY DEF Init
<1>2. 1 \in 1 .. MaxStart /\ 1 \in 0 .. MaxStart /\ 0 \in 0 .. MaxStart /\ 0 \in 0 .. MaxReloads
  BY HandoffAssumption, SMTT(60)
<1>3. \A q \in Pools : w[q] \subseteq Pids
  BY DEF Workforce
<1>4. ASSUME NEW p \in Pids, NEW q \in Pools, p \in w[q]
      PROVE  /\ proc[p] \in Process /\ proc[p].start = 1 /\ proc[p].kind = "worker" /\ proc[p].pool = q
             /\ proc[p].state = "run" /\ proc[p].parent = "master" /\ proc[p].told = FALSE
  <2> DEFINE z == CHOOSE r \in Pools : p \in w[r]
  <2>1. z \in Pools /\ p \in w[z]
    BY <1>4
  <2>2. z = q
    BY <1>1, <1>4, <2>1
  <2>3. proc[p] = [start |-> 1, kind |-> "worker", pool |-> z, state |-> "run", parent |-> "master", told |-> FALSE]
    BY <1>1, <1>4
  <2> HIDE DEF z
  <2> QED BY <1>2, <2>2, <2>3, SMTT(60) DEF Process
<1>5. ASSUME NEW p \in Pids, \A q \in Pools : p \notin w[q]
      PROVE  proc[p] \in Process /\ proc[p].kind = "none" /\ proc[p].state = "none" /\ proc[p].start = 0
  <2>1. proc[p] = Nobody
    BY <1>1, <1>5
  <2> QED BY <1>2, <2>1, SMTT(60) DEF Nobody, Process
<1>6. proc \in [Pids -> Process]
  <2>1. \A p \in Pids : proc[p] \in Process
    BY <1>4, <1>5
  <2>2. proc = [p \in Pids |-> proc[p]]
    BY <1>1
  <2> QED BY <2>1, <2>2
<1>7. ASSUME NEW c \in children
      PROVE  c \in Child /\ c.start = 1 /\ ~c.swept /\ c.pid \in w[c.pool] /\ c.pool \in Pools
  <2>1. PICK q \in Pools : \E p \in w[q] : c = [pool |-> q, pid |-> p, swept |-> FALSE, start |-> 1]
    BY <1>1
  <2>2. PICK p \in w[q] : c = [pool |-> q, pid |-> p, swept |-> FALSE, start |-> 1]
    BY <2>1
  <2> QED BY <1>2, <1>3, <2>2 DEF Child
<1>8. Shape
  <2>1. guard \in [state : {"none", "watch", "fired"}, list : SUBSET Entry]
    BY <1>1
  <2>2. children \subseteq Child
    BY <1>7
  <2> QED BY <1>1, <1>2, <1>6, <2>1, <2>2 DEF Shape, Phases
<1>9. Processes
  <2>1. ASSUME NEW p \in Pids
        PROVE  /\ proc[p].state = "none" <=> proc[p].kind = "none"
               /\ proc[p].state = "zombie" => proc[p].kind = "worker"
               /\ proc[p].state # "none" => proc[p].start > 0
               /\ proc[p].kind = "worker" => proc[p].pool \in Pools
               /\ phase # "gone" /\ proc[p].kind = "worker" => proc[p].parent = "master"
    <3>1. CASE \A q \in Pools : p \notin w[q]
      BY <1>5, <3>1
    <3>2. ASSUME NEW q \in Pools, p \in w[q]
          PROVE  proc[p].start = 1 /\ proc[p].kind = "worker" /\ proc[p].pool \in Pools
                 /\ proc[p].state = "run" /\ proc[p].parent = "master"
      BY <1>4, <3>2
    <3> QED BY <3>1, <3>2, SMT
  <2> QED BY <2>1 DEF Processes
<1>10. Held
  <2>1. Entries \cup guard.list = {}
    BY <1>1 DEF Entries
  <2>2. \A c \in children : c.pid \in Pids
    BY <1>7 DEF Child
  <2> QED BY <1>4, <1>7, <2>1, <2>2 DEF Held
<1>11. Once
  <2>1. ASSUME NEW p \in Pids, proc[p].kind = "worker" PROVE Named(children, p)
    <3>1. PICK q \in Pools : p \in w[q]
      BY <1>5, <2>1
    <3> DEFINE c == [pool |-> q, pid |-> p, swept |-> FALSE, start |-> 1]
    <3>2. c \in children
      <4>1. c \in {[pool |-> q, pid |-> r, swept |-> FALSE, start |-> 1] : r \in w[q]}
        BY <3>1
      <4> HIDE DEF c
      <4> QED BY <1>1, <3>1, <4>1
    <3>3. c.pid = p /\ c.start = proc[p].start
      BY <1>4, <3>1
    <3> HIDE DEF c
    <3> QED BY <3>2, <3>3 DEF Named
  <2>2. Entries = {}
    BY <1>1 DEF Entries
  <2> QED BY <1>1, <2>1, <2>2 DEF Once
<1>12. Stages
  BY <1>1 DEF Stages
<1> QED BY <1>8, <1>9, <1>10, <1>11, <1>12 DEF HandoffInv

\* ... and so they hold of every reload.
LEMMA HandoffInvariant ==
  ASSUME ~Daemonize
  PROVE  Spec => []HandoffInv
<1>1. Init => HandoffInv
  BY HandoffStarts
<1>2. HandoffInv /\ [Next]_vars => HandoffInv'
  BY HandoffSteps
<1> QED BY <1>1, <1>2, PTL DEF Spec

-----------------------------------------------------------------------------
(* The refinement: what the lists say of a process that runs.              *)

\* What the machine does to one process, or to none.
HostStep(p) == Exit(p) \/ InitReaps(p) \/ Stranger(p) \/ fpm_reload_selective_guard_child_init(p)

Views == {"dismissed", "owned", "carried", "foreign", "dropped", "guarded", "abandoned"}

\* A process goes on, ends, or is born.
GoesOn(p) == proc'[p].start = proc[p].start /\ proc[p].state = proc'[p].state
Ends(p) == proc'[p].start = proc[p].start /\ proc'[p].state # "run"
Comes(p) == proc'[p].start = proc[p].start + 1 /\ proc[p].state # "run" /\ proc'[p].state = "run"

LEMMA LivingStep ==
  ASSUME Shape, Shape', NEW p \in Pids, NEW s \in 1 .. MaxStart,
         \/ GoesOn(p) /\ (proc[p].state = "run" => View(p)' \in Custody!Living(View(p)))
         \/ Ends(p)
         \/ Comes(p) /\ View(p)' \in {"owned", "foreign"}
  PROVE  Standing(p, s)' \in Custody!Living(Standing(p, s))
<1>1. View(p) \in Views /\ View(p)' \in Views
  BY DEF View, Views
<1>2. proc[p].start \in Nat /\ proc'[p].start \in Nat /\ s \in Nat
  BY SMT DEF Shape, Process
<1>3. CASE GoesOn(p) /\ (proc[p].state = "run" => View(p)' \in Custody!Living(View(p)))
  BY <1>1, <1>2, <1>3 DEF GoesOn, Standing, Views, Custody!Living
<1>4. CASE Ends(p)
  BY <1>1, <1>2, <1>4 DEF Ends, Standing, Views, Custody!Living
<1>5. CASE Comes(p) /\ View(p)' \in {"owned", "foreign"}
  BY <1>1, <1>2, <1>5, SMT DEF Comes, Standing, Views, Custody!Living
<1> QED BY <1>3, <1>4, <1>5

LEMMA AloneStep ==
  ASSUME Shape, Shape', NEW p \in Pids, NEW s \in 1 .. MaxStart,
         \/ GoesOn(p) /\ (proc[p].state = "run" => View(p)' \in Custody!Alone(View(p)))
         \/ Ends(p)
         \/ Comes(p) /\ View(p)' = "foreign"
  PROVE  Standing(p, s)' \in Custody!Alone(Standing(p, s))
<1>1. View(p) \in Views /\ View(p)' \in Views
  BY DEF View, Views
<1>2. proc[p].start \in Nat /\ proc'[p].start \in Nat /\ s \in Nat
  BY SMTT(60) DEF Shape, Process
<1>3. CASE GoesOn(p) /\ (proc[p].state = "run" => View(p)' \in Custody!Alone(View(p)))
  BY <1>1, <1>2, <1>3 DEF GoesOn, Standing, Views, Custody!Alone
<1>4. CASE Ends(p)
  BY <1>1, <1>2, <1>4 DEF Ends, Standing, Views, Custody!Alone
<1>5. CASE Comes(p) /\ View(p)' = "foreign"
  BY <1>1, <1>2, <1>5, SMT DEF Comes, Standing, Views, Custody!Alone
<1> QED BY <1>3, <1>4, <1>5

\* Of a process that runs, the lists name the worker only: a child, or an
\* entry, which is in one list.
LEMMA ListsApart ==
  ASSUME HandoffInv, NEW p \in Pids, proc[p].state = "run"
  PROVE  /\ Named(children, p) => proc[p].kind = "worker" /\ ~Named(Entries, p)
         /\ Named(Entries \cup guard.list, p) => proc[p].kind = "worker"
         /\ Named(lost, p) => ~Named(env \cup taken, p)
         /\ Named(Entries, p) <=> Named(env \cup taken, p) \/ Named(lost, p)
<1>0. Held /\ Once
  BY DEF HandoffInv
<1>1. \A e \in Entries \cup guard.list : e.pid = p /\ e.start = proc[p].start => Current(e)
  BY DEF Current
<1>2. Named(Entries \cup guard.list, p) => proc[p].kind = "worker"
  BY <1>0, <1>1 DEF Named, Held
<1>3. Named(children, p) => proc[p].kind = "worker" /\ ~Named(Entries, p)
  BY <1>0, <1>1, SMTT(60) DEF Named, Held, Once
<1>4. ASSUME Named(lost, p), Named(env \cup taken, p) PROVE FALSE
  <2>1. PICK e \in lost : e.pid = p /\ e.start = proc[p].start
    BY <1>4 DEF Named
  <2>2. PICK f \in env \cup taken : f.pid = p /\ f.start = proc[p].start
    BY <1>4 DEF Named
  <2>3. e \in Entries /\ f \in Entries /\ Current(e) /\ Current(f)
    BY <1>1, <2>1, <2>2 DEF Entries
  <2>4. e = f
    BY <2>1, <2>2, <2>3, OnlyCurrent
  <2> QED BY <1>0, <2>4 DEF Once
<1>5. Named(Entries, p) <=> Named(env \cup taken, p) \/ Named(lost, p)
  BY DEF Named, Entries
<1> QED BY <1>2, <1>3, <1>4, <1>5

\* What the next state's lists say: ListsApart of the next state.
Apart(p) ==
  /\ Named(children, p) => proc[p].kind = "worker" /\ ~Named(Entries, p)
  /\ Named(Entries \cup guard.list, p) => proc[p].kind = "worker"
  /\ Named(lost, p) => ~Named(env \cup taken, p)
  /\ Named(Entries, p) <=> Named(env \cup taken, p) \/ Named(lost, p)

LEMMA ApartThen ==
  ASSUME HandoffInv', NEW p \in Pids, proc'[p].state = "run"
  PROVE  Apart(p)'
<1>0. Held' /\ Once' /\ Shape'
  BY DEF HandoffInv
<1>1. \A e \in (Entries \cup guard.list)' : e.pid = p /\ e.start = proc'[p].start => Current(e)'
  BY DEF Current
<1>2. (Named(Entries \cup guard.list, p) => proc[p].kind = "worker")'
  BY <1>0, <1>1 DEF Named, Held
<1>3. (Named(children, p) => proc[p].kind = "worker" /\ ~Named(Entries, p))'
  BY <1>0, <1>1, SMTT(60) DEF Named, Held, Once
<1>4. ASSUME Named(lost, p)', Named(env \cup taken, p)' PROVE FALSE
  <2>1. PICK e \in lost' : e.pid = p /\ e.start = proc'[p].start
    BY <1>4 DEF Named
  <2>2. PICK f \in (env \cup taken)' : f.pid = p /\ f.start = proc'[p].start
    BY <1>4 DEF Named
  <2>3. e \in Entries' /\ f \in Entries' /\ Current(e)' /\ Current(f)'
    BY <1>1, <2>1, <2>2 DEF Entries
  <2>4. e.pool = f.pool /\ e \in Entry /\ f \in Entry
    BY <1>0, <2>1, <2>2, <2>3, SMTT(60) DEF Held, Shape, Entries
  <2>5. e = f
    BY <2>1, <2>2, <2>4, SMT DEF Entry
  <2> QED BY <1>0, <2>5 DEF Once
<1>5. (Named(Entries, p) <=> Named(env \cup taken, p) \/ Named(lost, p))'
  BY DEF Named, Entries
<1> QED BY <1>2, <1>3, <1>4, <1>5 DEF Apart

\* A process goes on under a master; the newly told are the master's.
Continues(p) ==
  /\ Same(proc[p], proc'[p])
  /\ proc[p].state = "run" /\ proc'[p].told =>
       proc[p].told \/ Named(children, p) \/ Named(env \cup taken, p)

LEMMA AliveView ==
  ASSUME HandoffInv, HandoffInv', phase # "gone", phase' # "gone", lost \subseteq lost', lost' \subseteq Entries,
         NEW p \in Pids, Continues(p), proc[p].state = "run"
  PROVE  View(p)' \in Custody!Living(View(p))
<1>0. Once /\ Once'
  BY DEF HandoffInv
<1>1. proc'[p].state = "run" /\ proc'[p].start = proc[p].start /\ proc'[p].kind = proc[p].kind
  BY DEF Continues, Same
<1>2. Apart(p)
  BY ListsApart DEF Apart
<1>3. Apart(p)'
  BY <1>1, ApartThen
<1>4. CASE proc'[p].told
  <2>1. View(p)' = "dismissed"
    BY <1>4 DEF View
  <2>2. View(p) \in {"dismissed", "owned", "carried"}
    BY <1>4 DEF Continues, View
  <2> QED BY <2>1, <2>2 DEF Custody!Living
<1>5. CASE ~proc'[p].told /\ proc[p].kind # "worker"
  <2>1. ~proc[p].told
    BY <1>5 DEF Continues, Same
  <2>2. proc[p].kind = "stranger"
    BY <1>5 DEF HandoffInv, Shape, Processes, Process
  <2>3. View(p) = "foreign"
    BY <1>2, <2>1, <2>2 DEF Apart, View, Named, Entries
  <2>4. View(p)' = "foreign"
    BY <1>1, <1>3, <1>5, <2>2 DEF Apart, View, Named, Entries
  <2> QED BY <2>3, <2>4 DEF Custody!Living
<1>6. CASE ~proc'[p].told /\ proc[p].kind = "worker"
  <2>1. ~proc[p].told
    BY <1>6 DEF Continues, Same
  <2>2. Named(children, p) \/ Named(env \cup taken, p) \/ Named(lost, p)
    BY <1>0, <1>2, <1>6, <2>1 DEF Once, Apart
  <2>3. (Named(children, p) \/ Named(env \cup taken, p) \/ Named(lost, p))'
    BY <1>0, <1>1, <1>3, <1>6 DEF Once, Apart
  <2>4. Named(lost, p) => Named(lost, p)'
    BY <1>1 DEF Named
  <2>5. Named(lost, p)' => Named(Entries, p)
    BY <1>1 DEF Named
  <2>6. View(p) = IF Named(children, p) THEN "owned" ELSE IF Named(env \cup taken, p) THEN "carried" ELSE "dropped"
    BY <1>6, <2>1, <2>2 DEF View
  <2>7. View(p)' = IF Named(children, p)' THEN "owned" ELSE IF Named(env \cup taken, p)' THEN "carried" ELSE "dropped"
    BY <1>1, <1>6, <2>3 DEF View
  <2>8. Named(children, p) => ~Named(lost, p)'
    BY <1>2, <2>5 DEF Apart
  <2>9. Named(lost, p) => ~Named(children, p)' /\ ~Named(env \cup taken, p)'
    BY <1>3, <2>4 DEF Apart
  <2>10. CASE Named(children, p)
    BY <2>3, <2>6, <2>7, <2>8, <2>10 DEF Custody!Living
  <2>11. CASE ~Named(children, p) /\ Named(env \cup taken, p)
    BY <2>6, <2>7, <2>11 DEF Custody!Living
  <2>12. CASE ~Named(children, p) /\ ~Named(env \cup taken, p)
    BY <2>2, <2>6, <2>7, <2>9, <2>12 DEF Custody!Living
  <2> QED BY <2>10, <2>11, <2>12
<1> QED BY <1>4, <1>5, <1>6

\* A new process: a worker that is a child, or a stranger.
Enters(p) ==
  /\ Comes(p) /\ ~proc'[p].told
  /\ Named(children, p)' \/ proc'[p].kind = "stranger"

Served == \A p \in Pids : \A s \in 1 .. MaxStart : Standing(p, s)' \in Custody!Living(Standing(p, s))

LEMMA AliveServed ==
  ASSUME HandoffInv, HandoffInv', phase # "gone", phase' # "gone", lost \subseteq lost', lost' \subseteq Entries,
         \A p \in Pids : Continues(p) \/ Ends(p) \/ Enters(p)
  PROVE  Served
<1> SUFFICES ASSUME NEW p \in Pids, NEW s \in 1 .. MaxStart
             PROVE  Standing(p, s)' \in Custody!Living(Standing(p, s))
  BY DEF Served
<1>0. Shape /\ Shape'
  BY DEF HandoffInv
<1>1. CASE Continues(p)
  <2>1. GoesOn(p)
    BY <1>1 DEF Continues, Same, GoesOn
  <2>2. proc[p].state = "run" => View(p)' \in Custody!Living(View(p))
    BY <1>1, AliveView
  <2> QED BY <1>0, <2>1, <2>2, LivingStep
<1>2. CASE Ends(p)
  BY <1>0, <1>2, LivingStep
<1>3. CASE Enters(p)
  <2>1. proc'[p].state = "run"
    BY <1>3 DEF Enters, Comes
  <2>2. Apart(p)'
    BY <2>1, ApartThen
  <2>3. proc'[p].kind = "stranger" => ~Named(env \cup taken, p)'
    BY <2>2 DEF Apart, Named, Entries
  <2>4. View(p)' \in {"owned", "foreign"}
    BY <1>3, <2>3 DEF Enters, View
  <2> QED BY <1>0, <1>3, <2>4, LivingStep DEF Enters
<1> QED BY <1>1, <1>2, <1>3


LEMMA TellServed ==
  ASSUME HandoffInv, HandoffInv', phase # "gone", phase' # "gone", lost' = lost, NEW S, proc' = Told(S),
         \A p \in S \cap Pids : proc[p].state = "run" => Named(children, p) \/ Named(env \cup taken, p)
  PROVE  Served
<1>1. \A p \in Pids : Continues(p)
  BY ToldIs DEF HandoffInv, Shape, Continues
<1> QED BY <1>1, AliveServed DEF Entries

LEMMA QuietServed ==
  ASSUME HandoffInv, HandoffInv', phase # "gone", phase' # "gone", lost \subseteq lost', lost' \subseteq Entries,
         proc' = proc
  PROVE  Served
<1>1. \A p \in Pids : Continues(p)
  BY DEF HandoffInv, Shape, Continues, Same
<1> QED BY <1>1, AliveServed

LEMMA ForkServed ==
  ASSUME HandoffInv, HandoffInv', phase # "gone", phase' # "gone", lost' = lost, NEW q \in Pools \cup {"none"},
         NEW S \in SUBSET Free, \A p \in S : proc[p].start < MaxStart, NEW R \in SUBSET (Pids \ S),
         proc' = Forked(q, S, R), NewChildren(q, S) \subseteq children'
  PROVE  Served
<1>0. proc \in [Pids -> Process]
  BY DEF HandoffInv, Shape
<1>1. ASSUME NEW p \in S PROVE Enters(p)
  <2>1. p \in Pids /\ proc[p].state = "none" /\ proc'[p] = Born(p, "worker", q)
    BY DEF Free, Forked
  <2>2. Newborn(proc[p], proc'[p], "worker", q)
    BY <1>0, <2>1, BornIs
  <2>3. NewChild(q, p) \in children' /\ NewChild(q, p).pid = p /\ NewChild(q, p).start = proc[p].start + 1
    BY DEF NewChildren, NewChild
  <2>4. Named(children, p)'
    BY <2>2, <2>3 DEF Named, Newborn
  <2> QED BY <2>1, <2>2, <2>4 DEF Enters, Comes, Newborn
<1>2. ASSUME NEW p \in R PROVE Ends(p)
  <2>1. p \in Pids /\ proc'[p] = Reaped(p)
    BY DEF Forked
  <2> QED BY <1>0, <2>1, ReapedIs DEF Ends
<1>3. ASSUME NEW p \in Pids \ (S \cup R) PROVE Continues(p)
  <2>1. proc'[p] = proc[p] /\ proc[p] \in Process
    BY <1>0 DEF Forked
  <2> QED BY <2>1 DEF Continues, Same
<1> QED BY <1>1, <1>2, <1>3, AliveServed DEF Entries

LEMMA ChildNamed ==
  ASSUME HandoffInv, NEW c \in children
  PROVE  Named(children, c.pid)
  BY DEF HandoffInv, Held, Named

LEMMA KillAllServed ==
  ASSUME HandoffInv, HandoffInv', NEW q \in Pools, fpm_pctl_kill_all(q)
  PROVE  Served
<1>1. phase # "gone" /\ phase' # "gone" /\ lost' = lost /\ Of(q) \subseteq children
  BY DEF fpm_pctl_kill_all, Of
<1>2. CASE proc' = fpm_reload_selective_sigterm_list(Listed(Of(q)))
  <2> DEFINE S == {e.pid : e \in {x \in Listed(Of(q)) : fpm_pid_is_same(x)}}
  <2>1. \A p \in S : \E c \in Of(q) : c.pid = p
    BY ListedIs
  <2>2. proc' = Told(S)
    BY <1>2 DEF fpm_reload_selective_sigterm_list
  <2> HIDE DEF S
  <2>3. \A p \in S : Named(children, p)
    BY <1>1, <2>1, ChildNamed
  <2> QED BY <1>1, <2>2, <2>3, TellServed
<1>3. CASE proc' = Told({c.pid : c \in Of(q)})
  BY <1>1, <1>3, ChildNamed, TellServed
<1>4. CASE proc' = proc
  BY <1>1, <1>4, QuietServed DEF Entries
<1> QED BY <1>2, <1>3, <1>4 DEF fpm_pctl_kill_all, fpm_reload_selective_spare_pool, StopPool

LEMMA CarriedServed ==
  ASSUME HandoffInv, HandoffInv', fpm_reload_selective_sigterm_carried
  PROVE  Served
<1> DEFINE S == {e.pid : e \in {x \in env : fpm_pid_is_same(x)}}
<1>1. /\ phase # "gone" /\ phase' # "gone"
      /\ \/ proc' = Told(S) /\ lost' = lost
         \/ proc' = proc /\ lost' = lost \cup env
  BY DEF fpm_reload_selective_sigterm_carried, fpm_reload_selective_sigterm_list
<1>2. \A p \in S : Named(env \cup taken, p)
  <2>1. \A e \in env : fpm_pid_is_same(e) => e.start = proc[e.pid].start
    BY SameIs DEF Entries, Current
  <2> QED BY <2>1 DEF Named
<1> HIDE DEF S
<1>3. CASE proc' = Told(S) /\ lost' = lost
  BY <1>1, <1>2, <1>3, TellServed
<1>4. CASE proc' = proc /\ lost' = lost \cup env
  <2>1. lost \subseteq lost' /\ lost' \subseteq Entries
    BY <1>4 DEF Entries
  <2> QED BY <1>1, <1>4, <2>1, QuietServed
<1> QED BY <1>1, <1>3, <1>4

LEMMA CreateServed ==
  ASSUME HandoffInv, HandoffInv', fpm_children_create_initial
  PROVE  Served
<1>0. /\ cur \in Pools /\ phase # "gone" /\ phase' # "gone" /\ lost' = lost
  BY DEF HandoffInv, Shape, Stages, fpm_children_create_initial
<1>1. CASE proc' = Told({c.pid : c \in children})
  BY <1>0, <1>1, ChildNamed, TellServed
<1>2. ASSUME NEW s \in Forkable(Shortfall(cur)), Fork(cur, s) PROVE Served
  <2>1. s \subseteq Free /\ (\A p \in s : proc[p].start < MaxStart)
    BY DEF Forkable
  <2>2. proc' = Forked(cur, s, {}) /\ NewChildren(cur, s) \subseteq children'
    BY <1>2 DEF Fork, Forked, NewChildren, NewChild
  <2> QED BY <1>0, <2>1, <2>2, ForkServed
<1> QED BY <1>1, <1>2 DEF fpm_children_create_initial

LEMMA AdoptServed ==
  ASSUME HandoffInv, HandoffInv', NEW e \in taken, fpm_reload_selective_adopt(e)
  PROVE  Served
<1>1. phase # "gone" /\ phase' # "gone" /\ proc' = proc
  BY DEF HandoffInv, Stages, fpm_reload_selective_adopt
<1>2. lost \subseteq lost' /\ lost' \subseteq Entries
  BY DEF fpm_reload_selective_adopt, Entries
<1> QED BY <1>1, <1>2, QuietServed

LEMMA BeginServed ==
  ASSUME HandoffInv, HandoffInv', NEW q \in Pools, Begin(q)
  PROVE  Served
<1>1. phase # "gone" /\ phase' # "gone" /\ proc' = proc
  BY DEF Begin
<1>2. lost \subseteq lost' /\ lost' \subseteq Entries
  BY DEF Begin, fpm_reload_selective_env_take, Entries
<1> QED BY <1>1, <1>2, QuietServed

LEMMA QuietStepsServed ==
  ASSUME HandoffInv, HandoffInv', ~Daemonize,
         \/ fpm_pctl_reload \/ fpm_pctl_action_last \/ fpm_pctl_exit \/ fpm_reload_selective_guard_arm
         \/ fpm_pctl_exec \/ fpm_init \/ Got_SIGCHLD
         \/ phase = "settling" /\ fpm_reload_selective_guard_release
  PROVE  Served
<1>1. phase # "gone" /\ phase' # "gone" /\ proc' = proc /\ lost' = lost
  BY DEF fpm_pctl_reload, fpm_pctl_action_last, fpm_pctl_exit, fpm_reload_selective_guard_arm, fpm_pctl_exec,
         fpm_init, Got_SIGCHLD, fpm_reload_selective_guard_release, Looping
<1> QED BY <1>1, QuietServed DEF Entries

LEMMA StopServed ==
  ASSUME HandoffInv, HandoffInv', Stop
  PROVE  Served
<1>1. phase # "gone" /\ phase' # "gone" /\ lost' = lost /\ proc' = Told({c.pid : c \in children})
  BY DEF Stop
<1> QED BY <1>1, ChildNamed, TellServed

\* One process ends.
LEMMA EndServed ==
  ASSUME HandoffInv, HandoffInv', phase # "gone", phase' # "gone", lost' = lost, NEW p \in Pids,
         Ends(p), \A r \in Pids \ {p} : proc'[r] = proc[r]
  PROVE  Served
<1>1. \A r \in Pids \ {p} : Continues(r)
  BY DEF HandoffInv, Shape, Continues, Same
<1> QED BY <1>1, AliveServed DEF Entries

LEMMA BuryServed ==
  ASSUME HandoffInv, HandoffInv', fpm_children_bury
  PROVE  Served
<1>0. /\ proc \in [Pids -> Process] /\ phase # "gone" /\ phase' # "gone" /\ lost' = lost
  BY DEF HandoffInv, Shape, fpm_children_bury, Looping, Retire
<1>1. ASSUME NEW p \in Zombies, NEW c \in Found(p), Retire(c) PROVE Served
  <2>1. c \in children /\ c.pid \in Pids /\ c.pool \in Pools /\ ~c.swept /\ proc[c.pid].state = "zombie"
    BY DEF Found, Zombies, HandoffInv, Shape, Child, Held
  <2>2. CASE phase = "serving"
    <3>1. PICK s \in {{}} \cup Forkable(1) :
             /\ proc' = [r \in Pids |-> IF r \in s THEN Born(r, "worker", c.pool)
                          ELSE IF r = c.pid /\ ~c.swept THEN Reaped(r) ELSE proc[r]]
             /\ children' = (children \ {c}) \cup {[pool |-> c.pool, pid |-> r, swept |-> FALSE,
                                                   start |-> proc[r].start + 1] : r \in s}
      BY <1>1, <2>2 DEF Retire
    <3>2. s \subseteq Free /\ (\A r \in s : proc[r].start < MaxStart) /\ c.pid \notin s
      BY <2>1 DEF Forkable, Free
    <3>3. proc' = Forked(c.pool, s, {c.pid}) /\ NewChildren(c.pool, s) \subseteq children'
      BY <2>1, <3>1 DEF Forked, NewChildren, NewChild
    <3> QED BY <1>0, <2>1, <3>2, <3>3, ForkServed, SMT
  <2>3. CASE phase # "serving"
    <3>1. proc' = [proc EXCEPT ![c.pid] = Reaped(c.pid)]
      BY <1>1, <2>1, <2>3 DEF Retire
    <3>2. Ends(c.pid) /\ \A r \in Pids \ {c.pid} : proc'[r] = proc[r]
      BY <1>0, <2>1, <3>1, ReapedIs DEF Ends
    <3> QED BY <1>0, <2>1, <3>2, EndServed
  <2> QED BY <2>2, <2>3
<1>2. ASSUME NEW p \in Zombies, proc' = [proc EXCEPT ![p] = Reaped(p)] PROVE Served
  <2>1. p \in Pids
    BY DEF Zombies
  <2>2. Ends(p) /\ \A r \in Pids \ {p} : proc'[r] = proc[r]
    BY <1>0, <1>2, <2>1, ReapedIs DEF Ends
  <2> QED BY <1>0, <2>1, <2>2, EndServed
<1>3. CASE proc' = proc
  BY <1>0, <1>3, QuietServed DEF Entries
<1> QED BY <1>1, <1>2, <1>3 DEF fpm_children_bury


LEMMA HostIs ==
  ASSUME HandoffInv, NEW p \in Pids, HostStep(p)
  PROVE  /\ UNCHANGED <<phase, killed, children, env, taken, lost, guard>>
         /\ \A r \in Pids \ {p} : proc'[r] = proc[r]
         /\ proc'[p] = proc[p] \/ Ends(p) \/ (Comes(p) /\ ~proc'[p].told /\ proc'[p].kind = "stranger")
<1>0. proc \in [Pids -> Process] /\ proc[p] \in Process
  BY DEF HandoffInv, Shape
<1>1. CASE Exit(p) /\ proc[p].kind = "worker"
  <2>1. proc' = [proc EXCEPT ![p] = [proc[p] EXCEPT !.state = "zombie"]]
    BY <1>0, <1>1 DEF Exit
  <2>2. Ends(p) /\ \A r \in Pids \ {p} : proc'[r] = proc[r]
    BY <1>0, <2>1 DEF Ends, Process
  <2> QED BY <1>1, <2>2 DEF Exit
<1>2. CASE (Exit(p) /\ proc[p].kind # "worker") \/ InitReaps(p)
  <2>1. proc' = [proc EXCEPT ![p] = Reaped(p)]
    BY <1>2 DEF Exit, InitReaps
  <2>2. Ends(p) /\ \A r \in Pids \ {p} : proc'[r] = proc[r]
    BY <1>0, <2>1, ReapedIs DEF Ends
  <2> QED BY <1>2, <2>2 DEF Exit, InitReaps
<1>3. CASE Stranger(p)
  <2>1. proc' = [proc EXCEPT ![p] = Born(p, "stranger", "none")] /\ proc[p].state = "none" /\ proc[p].start < MaxStart
    BY <1>3, HandoffAssumption, SMT DEF Stranger, Free
  <2>2. Newborn(proc[p], Born(p, "stranger", "none"), "stranger", "none")
    BY <1>0, <2>1, BornIs
  <2>3. proc'[p] = Born(p, "stranger", "none") /\ \A r \in Pids \ {p} : proc'[r] = proc[r]
    BY <1>0, <2>1
  <2>4. Comes(p) /\ ~proc'[p].told /\ proc'[p].kind = "stranger"
    BY <2>1, <2>2, <2>3 DEF Newborn, Comes
  <2> QED BY <1>3, <2>3, <2>4 DEF Stranger
<1>4. CASE fpm_reload_selective_guard_child_init(p)
  BY <1>4 DEF fpm_reload_selective_guard_child_init
<1> QED BY <1>1, <1>2, <1>3, <1>4 DEF HostStep

LEMMA HostServed ==
  ASSUME HandoffInv, HandoffInv', phase # "gone", NEW p \in Pids, HostStep(p)
  PROVE  Served
<1>1. \A r \in Pids : proc'[r] = proc[r] => Continues(r)
  BY DEF HandoffInv, Shape, Continues, Same
<1>2. \A r \in Pids : Continues(r) \/ Ends(r) \/ Enters(r)
  BY <1>1, HostIs DEF Enters
<1>3. phase' # "gone" /\ lost' = lost
  BY HostIs
<1> QED BY <1>2, <1>3, AliveServed DEF Entries

Outlived == \A p \in Pids : \A s \in 1 .. MaxStart : Standing(p, s)' \in Custody!Alone(Standing(p, s))

\* Nothing is on its way when the master is gone.
LEMMA GoneIs ==
  ASSUME HandoffInv, phase = "gone"
  PROVE  children = {} /\ env = {} /\ taken = {}
  BY DEF HandoffInv, Stages

LEMMA HostOutlived ==
  ASSUME HandoffInv, HandoffInv', phase = "gone", NEW p \in Pids, HostStep(p)
  PROVE  Outlived
<1> SUFFICES ASSUME NEW r \in Pids, NEW s \in 1 .. MaxStart
             PROVE  Standing(r, s)' \in Custody!Alone(Standing(r, s))
  BY DEF Outlived
<1>0. Shape /\ Shape' /\ UNCHANGED <<phase, children, env, taken, lost, guard>>
  BY HostIs DEF HandoffInv
<1>1. children = {} /\ env = {} /\ taken = {}
  BY GoneIs
<1>2. CASE proc'[r] = proc[r]
  <2>1. View(r)' = View(r)
    BY <1>0, <1>2 DEF View, Named
  <2>2. View(r) \in Custody!Alone(View(r))
    BY DEF View, Custody!Alone
  <2> QED BY <1>0, <1>2, <2>1, <2>2, AloneStep DEF GoesOn
<1>3. CASE Ends(r)
  BY <1>0, <1>3, AloneStep
<1>4. CASE Comes(r) /\ ~proc'[r].told /\ proc'[r].kind = "stranger"
  <2>1. View(r)' = "foreign"
    BY <1>0, <1>1, <1>4 DEF View, Named
  <2> QED BY <1>0, <1>4, <2>1, AloneStep
<1> QED BY <1>2, <1>3, <1>4, HostIs

LEMMA GuardOutlived ==
  ASSUME HandoffInv, HandoffInv', fpm_reload_selective_guard_main
  PROVE  Outlived
<1> SUFFICES ASSUME NEW p \in Pids, NEW s \in 1 .. MaxStart
             PROVE  Standing(p, s)' \in Custody!Alone(Standing(p, s))
  BY DEF Outlived
<1> DEFINE S == {e.pid : e \in {x \in guard.list : fpm_pid_is_same(x)}}
<1>0. /\ Shape /\ Shape' /\ phase = "gone" /\ phase' = "gone" /\ guard'.list = {} /\ proc' = Told(S)
      /\ UNCHANGED <<children, env, taken, lost>>
  BY DEF HandoffInv, fpm_reload_selective_guard_main, fpm_reload_selective_sigterm_list, Shape
<1>1. p \in S => Named(guard.list, p) /\ proc[p].state # "none"
  <2>1. \A e \in guard.list : fpm_pid_is_same(e) => e.start = proc[e.pid].start /\ proc[e.pid].state # "none"
    BY SameIs DEF Current
  <2> QED BY <2>1 DEF Named
<1>2. Named(guard.list, p) /\ proc[p].state = "run" => p \in S
  BY DEF fpm_pid_is_same, Named
<1> HIDE DEF S
<1>3. /\ Same(proc[p], proc'[p])
      /\ proc'[p].told <=> proc[p].told \/ (p \in S /\ proc[p].state # "none")
  BY <1>0, ToldIs DEF Shape
<1>4. children = {} /\ env = {} /\ taken = {}
  BY <1>0, GoneIs
<1>5. GoesOn(p) /\ proc'[p].kind = proc[p].kind
  BY <1>3 DEF Same, GoesOn
<1>6. ASSUME proc[p].state = "run" PROVE View(p)' \in Custody!Alone(View(p))
  <2>0. ~Named(children, p) /\ ~Named(env \cup taken, p) /\ ~Named(children, p)' /\ ~Named(env \cup taken, p)'
    BY <1>0, <1>4 DEF Named
  <2>1. Apart(p)
    BY <1>6, ListsApart DEF Apart
  <2>2. Named(lost, p)' <=> Named(lost, p)
    BY <1>0, <1>5 DEF Named, GoesOn
  <2>3. Named(guard.list, p) => proc[p].kind = "worker"
    BY <2>1 DEF Apart, Named
  <2>4. ~Named(guard.list, p)'
    BY <1>0 DEF Named
  <2>5. CASE proc[p].told
    BY <1>3, <2>5 DEF View, Custody!Alone
  <2>6. CASE ~proc[p].told /\ p \in S
    <3>1. View(p)' = "dismissed"
      BY <1>3, <1>6, <2>6 DEF View
    <3>2. View(p) \in {"dropped", "guarded"}
      BY <1>0, <1>1, <2>0, <2>3, <2>6 DEF View
    <3> QED BY <3>1, <3>2 DEF Custody!Alone
  <2>7. CASE ~proc[p].told /\ p \notin S
    <3>1. ~Named(guard.list, p) /\ ~proc'[p].told
      BY <1>2, <1>3, <1>6, <2>7
    <3>2. View(p)' = View(p)
      BY <1>5, <2>0, <2>2, <2>4, <2>7, <3>1 DEF View
    <3> QED BY <3>2 DEF View, Custody!Alone
  <2> QED BY <2>5, <2>6, <2>7
<1> QED BY <1>0, <1>5, <1>6, AloneStep

\* The steps that end the master: every process goes on.
LEMMA KillView ==
  ASSUME HandoffInv, HandoffInv', Killed, NEW p \in Pids, proc[p].state = "run"
  PROVE  IF guard.state = "watch" THEN View(p)' \in Custody!Watched(View(p))
         ELSE View(p)' \in Custody!Unwatched(View(p))
<1>0. /\ Shape /\ Stages /\ Once /\ phase # "gone" /\ phase' = "gone" /\ proc' = Orphaned /\ lost' = lost
      /\ guard' = guard /\ children' = {} /\ env' = {} /\ taken' = {}
  BY DEF HandoffInv, Killed
<1>1. Same(proc[p], proc'[p]) /\ proc'[p].told = proc[p].told
  BY <1>0, OrphanedIs DEF Shape
<1>2. /\ Named(lost, p)' <=> Named(lost, p)
      /\ Named(guard.list, p)' <=> Named(guard.list, p)
      /\ ~Named(children, p)' /\ ~Named(env \cup taken, p)' /\ proc'[p].kind = proc[p].kind
  BY <1>0, <1>1 DEF Named, Same
<1>3. Apart(p)
  BY ListsApart DEF Apart
<1>4. View(p)' = IF proc[p].told THEN "dismissed" ELSE IF proc[p].kind = "stranger" THEN "foreign"
                 ELSE IF Named(lost, p) THEN "dropped"
                 ELSE IF Named(guard.list, p) THEN "guarded" ELSE "abandoned"
  BY <1>0, <1>1, <1>2 DEF View
<1>5. CASE proc[p].told
  <2>1. View(p)' = "dismissed" /\ View(p) = "dismissed"
    BY <1>4, <1>5 DEF View
  <2> QED BY <2>1 DEF Custody!Watched, Custody!Unwatched
<1>6. CASE ~proc[p].told /\ proc[p].kind # "worker"
  <2>1. proc[p].kind = "stranger"
    BY <1>6 DEF HandoffInv, Shape, Processes, Process
  <2>2. View(p) = "foreign" /\ View(p)' = "foreign"
    BY <1>3, <1>4, <1>6, <2>1 DEF Apart, View, Named, Entries
  <2> QED BY <2>2 DEF Custody!Watched, Custody!Unwatched
<1>7. CASE ~proc[p].told /\ proc[p].kind = "worker"
  <2>1. Named(children, p) \/ Named(env \cup taken, p) \/ Named(lost, p)
    BY <1>0, <1>3, <1>7 DEF Once, Apart
  <2>2. View(p) = IF Named(children, p) THEN "owned" ELSE IF Named(env \cup taken, p) THEN "carried" ELSE "dropped"
    BY <1>7, <2>1 DEF View
  <2>3. guard.state = "watch" /\ Named(env \cup taken, p) => Named(guard.list, p)
    BY <1>0 DEF Stages, Named
  <2>4. guard.state # "watch" => ~Named(guard.list, p)
    BY <1>0 DEF Stages, Named
  <2>5. CASE Named(lost, p)
    <3>1. View(p) = "dropped" /\ View(p)' = "dropped"
      BY <1>3, <1>4, <1>7, <2>2, <2>5 DEF Apart
    <3> QED BY <3>1 DEF Custody!Watched, Custody!Unwatched
  <2>6. CASE ~Named(lost, p) /\ Named(children, p)
    <3>1. View(p) = "owned" /\ View(p)' = IF Named(guard.list, p) THEN "guarded" ELSE "abandoned"
      BY <1>4, <1>7, <2>2, <2>6
    <3> QED BY <2>4, <3>1 DEF Custody!Watched, Custody!Unwatched
  <2>7. CASE ~Named(lost, p) /\ ~Named(children, p)
    <3>1. View(p) = "carried" /\ View(p)' = IF Named(guard.list, p) THEN "guarded" ELSE "abandoned"
      BY <1>4, <1>7, <2>1, <2>2, <2>7
    <3> QED BY <2>1, <2>3, <2>4, <2>7, <3>1 DEF Custody!Watched, Custody!Unwatched
  <2> QED BY <2>5, <2>6, <2>7
<1> QED BY <1>5, <1>6, <1>7


\* A process stands where it stood, but for what a kill makes of it.
LEMMA KillStands ==
  ASSUME HandoffInv, HandoffInv', Killed
  PROVE  \/ \A p \in Pids : \A s \in 1 .. MaxStart : Standing(p, s)' \in Custody!Watched(Standing(p, s))
         \/ \A p \in Pids : \A s \in 1 .. MaxStart : Standing(p, s)' \in Custody!Unwatched(Standing(p, s))
<1>0. /\ Shape /\ proc' = Orphaned
  BY DEF HandoffInv, Killed
<1>1. \A p \in Pids : proc'[p].start = proc[p].start /\ proc'[p].state = proc[p].state /\ proc[p].start \in Nat
  BY <1>0, OrphanedIs, SMT DEF Shape, Same, Process
<1>2. CASE guard.state = "watch"
  <2>1. ASSUME NEW p \in Pids, NEW s \in 1 .. MaxStart
        PROVE  Standing(p, s)' \in Custody!Watched(Standing(p, s))
    <3>1. proc[p].state = "run" => View(p)' \in Custody!Watched(View(p))
      BY <1>2, KillView
    <3> QED BY <1>1, <3>1 DEF Standing, Custody!Watched
  <2> QED BY <2>1
<1>3. CASE guard.state # "watch"
  <2>1. ASSUME NEW p \in Pids, NEW s \in 1 .. MaxStart
        PROVE  Standing(p, s)' \in Custody!Unwatched(Standing(p, s))
    <3>1. proc[p].state = "run" => View(p)' \in Custody!Unwatched(View(p))
      BY <1>3, KillView
    <3> QED BY <1>1, <3>1 DEF Standing, Custody!Unwatched
  <2> QED BY <2>1
<1> QED BY <1>2, <1>3

LEMMA LeaveStands ==
  ASSUME HandoffInv, phase = "leaving", fpm_reload_selective_guard_release, NEW p \in Pids, NEW s \in 1 .. MaxStart
  PROVE  Standing(p, s)' = Standing(p, s) /\ Standing(p, s) \notin {"owned", "carried"}
<1>0. /\ Shape /\ Once /\ phase' = "gone" /\ proc' = Orphaned /\ lost' = lost /\ children' = children /\ env' = env
      /\ taken' = taken /\ children = {} /\ env = {} /\ taken = {}
  BY DEF HandoffInv, Stages, fpm_reload_selective_guard_release
<1>1. Same(proc[p], proc'[p]) /\ proc'[p].told = proc[p].told /\ proc[p].start \in Nat
  BY <1>0, OrphanedIs, SMT DEF Shape, Process
<1>2. /\ Named(lost, p)' <=> Named(lost, p)
      /\ ~Named(children, p)' /\ ~Named(env \cup taken, p)' /\ proc'[p].kind = proc[p].kind
      /\ ~Named(children, p) /\ ~Named(env \cup taken, p)
  BY <1>0, <1>1 DEF Named, Same
<1>3. proc'[p].start = proc[p].start /\ proc'[p].state = proc[p].state
  BY <1>1 DEF Same
<1>4. ASSUME proc[p].state = "run" PROVE View(p)' = View(p) /\ View(p) \notin {"owned", "carried"}
  <2>1. CASE proc[p].told \/ proc[p].kind = "stranger"
    BY <1>1, <1>2, <2>1 DEF View
  <2>2. CASE ~proc[p].told /\ proc[p].kind # "stranger"
    <3>1. proc[p].kind = "worker"
      BY <1>4, <2>2 DEF HandoffInv, Shape, Processes, Process
    <3>2. Apart(p)
      BY <1>4, ListsApart DEF Apart
    <3>3. Named(lost, p)
      BY <1>0, <1>2, <1>4, <2>2, <3>1, <3>2 DEF Once, Apart
    <3> QED BY <1>1, <1>2, <2>2, <3>3 DEF View
  <2> QED BY <2>1, <2>2
<1> QED BY <1>1, <1>3, <1>4 DEF Standing

-----------------------------------------------------------------------------
(* The refinement.                                                         *)

LEMMA StandingIn ==
  \A p \in Pids : \A s \in 1 .. MaxStart : Standing(p, s) \in Custody!Standings /\ Standing(p, s)' \in Custody!Standings
  BY SMTT(60) DEF Standing, View, Custody!Standings

LEMMA ServedSteps ==
  ASSUME HandoffInv, HandoffInv', ~Daemonize, Next, phase # "gone", ~Killed,
         ~(phase = "leaving" /\ fpm_reload_selective_guard_release)
  PROVE  Served /\ phase' # "gone"
<1>1. CASE Master
  <2>1. Served
    BY <1>1, KillAllServed, BeginServed, QuietStepsServed, CreateServed, AdoptServed, CarriedServed
       DEF Master, fpm_reload_selective_guard_release
  <2>2. CASE \E q \in Pools : fpm_pctl_kill_all(q) \/ Begin(q)
    BY <2>1, <2>2 DEF fpm_pctl_kill_all, Begin
  <2>3. CASE fpm_pctl_action_last \/ fpm_pctl_exit \/ fpm_reload_selective_guard_arm \/ fpm_pctl_exec \/ fpm_init
    BY <2>1, <2>3 DEF fpm_pctl_action_last, fpm_pctl_exit, fpm_reload_selective_guard_arm, fpm_pctl_exec, fpm_init
  <2>4. CASE fpm_children_create_initial \/ (\E e \in taken : fpm_reload_selective_adopt(e))
    BY <2>1, <2>4 DEF fpm_children_create_initial, fpm_reload_selective_adopt
  <2>5. CASE fpm_reload_selective_sigterm_carried \/ fpm_reload_selective_guard_release
    BY <2>1, <2>5 DEF fpm_reload_selective_sigterm_carried, fpm_reload_selective_guard_release
  <2> QED BY <1>1, <2>1, <2>2, <2>3, <2>4, <2>5 DEF Master
<1>2. CASE fpm_pctl_reload \/ Stop \/ Got_SIGCHLD
  BY <1>2, QuietStepsServed, StopServed DEF fpm_pctl_reload, Stop, Got_SIGCHLD
<1>3. CASE fpm_children_bury \/ fpm_adopted_sweep_tick
  <2>1. fpm_children_bury
    BY <1>3, NoSweep
  <2>2. phase' # "gone"
    BY <2>1 DEF fpm_children_bury, Retire, Looping
  <2> QED BY <2>1, <2>2, BuryServed
<1>4. CASE \E p \in Pids : HostStep(p)
  BY <1>4, HostServed, HostIs
<1>5. CASE fpm_reload_selective_guard_main
  BY <1>5 DEF fpm_reload_selective_guard_main
<1> QED BY <1>1, <1>2, <1>3, <1>4, <1>5 DEF Next, HostStep

LEMMA OutlivedSteps ==
  ASSUME HandoffInv, HandoffInv', Next, phase = "gone"
  PROVE  Outlived /\ phase' = "gone" /\ killed' = killed
<1>1. cur = "none" /\ taken = {}
  BY DEF HandoffInv, Stages
<1>2. ~Master
  BY <1>1 DEF Master, fpm_pctl_kill_all, Begin, fpm_pctl_action_last, fpm_pctl_exit, fpm_reload_selective_guard_arm,
              fpm_pctl_exec, fpm_init, fpm_children_create_initial, fpm_reload_selective_sigterm_carried,
              fpm_reload_selective_guard_release
<1>3. ~fpm_pctl_reload /\ ~Stop /\ ~Got_SIGCHLD /\ ~fpm_children_bury /\ ~fpm_adopted_sweep_tick /\ ~Killed
  BY DEF fpm_pctl_reload, Stop, Got_SIGCHLD, fpm_children_bury, fpm_adopted_sweep_tick, Killed, Looping
<1>4. CASE \E p \in Pids : HostStep(p)
  BY <1>4, HostOutlived, HostIs
<1>5. CASE fpm_reload_selective_guard_main
  BY <1>5, GuardOutlived DEF fpm_reload_selective_guard_main
<1> QED BY <1>2, <1>3, <1>4, <1>5 DEF Next, HostStep


\* A step of the handoff is a step of the custody, or leaves it alone.
LEMMA CustodySteps ==
  ASSUME HandoffInv, HandoffInv', ~Daemonize, [Next]_vars
  PROVE  [Custody!Next]_<<[i \in Pids \X (1 .. MaxStart) |-> Standing(i[1], i[2])],
                          IF phase # "gone" THEN "alive" ELSE IF killed THEN "killed" ELSE "exited">>
<1> DEFINE Ids == Pids \X (1 .. MaxStart)
           st == [i \in Ids |-> Standing(i[1], i[2])]
           ms == IF phase # "gone" THEN "alive" ELSE IF killed THEN "killed" ELSE "exited"
<1>0. \A i \in Ids : i[1] \in Pids /\ i[2] \in 1 .. MaxStart
  OBVIOUS
<1>1. \A i \in Ids : st[i] = Standing(i[1], i[2]) /\ st'[i] = Standing(i[1], i[2])'
  OBVIOUS
<1>2. st' \in [Ids -> Custody!Standings]
  BY <1>0, StandingIn
<1>3. CASE UNCHANGED vars
  BY <1>3, SMTT(60) DEF vars, Standing, View, Named
<1>4. CASE Next /\ phase # "gone" /\ ~Killed /\ ~(phase = "leaving" /\ fpm_reload_selective_guard_release)
  <2>1. Served /\ phase' # "gone"
    BY <1>4, ServedSteps
  <2>2. \A i \in Ids : st'[i] \in Custody!Living(st[i])
    BY <1>0, <1>1, <2>1 DEF Served
  <2>3. ms = "alive" /\ ms' = "alive"
    BY <1>4, <2>1
  <2> QED BY <1>2, <2>2, <2>3 DEF Custody!Next, Custody!Serve
<1>5. CASE Killed
  <2>1. \/ \A i \in Ids : st'[i] \in Custody!Watched(st[i])
        \/ \A i \in Ids : st'[i] \in Custody!Unwatched(st[i])
    BY <1>0, <1>1, <1>5, KillStands
  <2>2. ms = "alive" /\ ms' = "killed"
    BY <1>5 DEF Killed
  <2> QED BY <1>2, <2>1, <2>2 DEF Custody!Next, Custody!Kill
<1>6. CASE phase = "leaving" /\ fpm_reload_selective_guard_release
  <2>1. \A i \in Ids : Standing(i[1], i[2])' = Standing(i[1], i[2]) /\ Standing(i[1], i[2]) \notin {"owned", "carried"}
    BY <1>0, <1>6, LeaveStands
  <2>2. st' = st /\ \A i \in Ids : st[i] \notin {"owned", "carried"}
    BY <2>1
  <2>3. ms = "alive" /\ ms' = "exited"
    BY <1>6 DEF fpm_reload_selective_guard_release, HandoffInv, Stages
  <2> QED BY <1>2, <2>2, <2>3 DEF Custody!Next, Custody!Leave
<1>7. CASE Next /\ phase = "gone"
  <2>1. Outlived /\ phase' = "gone" /\ killed' = killed
    BY <1>7, OutlivedSteps
  <2>2. \A i \in Ids : st'[i] \in Custody!Alone(st[i])
    BY <1>0, <1>1, <2>1 DEF Outlived
  <2>3. ms # "alive" /\ ms' = ms
    BY <1>7, <2>1
  <2> QED BY <1>2, <2>2, <2>3 DEF Custody!Next, Custody!Outlive
<1> QED BY <1>3, <1>4, <1>5, <1>6, <1>7

LEMMA CustodyStarts ==
  ASSUME Init
  PROVE  Custody!Init
<1>0. HandoffInv /\ phase = "serving" /\ Entries = {}
  <2>1. HandoffInv
    BY HandoffStarts
  <2>2. phase = "serving" /\ env = {} /\ taken = {} /\ lost = {}
    BY DEF Init
  <2> QED BY <2>1, <2>2 DEF Entries
<1>1. PICK w \in Workforce :
        proc = [p \in Pids |-> IF \E q \in Pools : p \in w[q]
                      THEN [start |-> 1, kind |-> "worker", pool |-> CHOOSE q \in Pools : p \in w[q],
                            state |-> "run", parent |-> "master", told |-> FALSE]
                      ELSE Nobody]
  BY DEF Init
<1>2. \A p \in Pids : \/ /\ proc[p].start = 1 /\ proc[p].kind = "worker" /\ proc[p].state = "run" /\ proc[p].told = FALSE
                      \/ proc[p].start = 0
  BY <1>1 DEF Nobody
<1>3. ASSUME NEW p \in Pids, NEW s \in 1 .. MaxStart PROVE Standing(p, s) \in {"unborn", "owned"}
  <2>1. CASE proc[p].start < s
    BY <2>1 DEF Standing
  <2>2. CASE ~(proc[p].start < s)
    <3>1. /\ proc[p].start = 1 /\ s = 1 /\ proc[p].kind = "worker" /\ proc[p].state = "run" /\ proc[p].told = FALSE
      BY <1>2, <2>2, SMT
    <3>2. Named(children, p)
      BY <1>0, <3>1 DEF HandoffInv, Once, Named
    <3> QED BY <2>2, <3>1, <3>2 DEF Standing, View
  <2> QED BY <2>1, <2>2
<1>4. \A i \in Pids \X (1 .. MaxStart) : i[1] \in Pids /\ i[2] \in 1 .. MaxStart
  OBVIOUS
<1> QED BY <1>0, <1>3, <1>4 DEF Custody!Init

\* While the executed image stays the parent of the carried workers, the handoff
\* implements the custody: every worker of a selective reload is the old
\* master's, on its way, the next master's or told to exit, whichever step fails
\* and whenever a master is killed, and no process that got a carried pid is
\* adopted or signalled (fpm_reload_selective.c, fpm_reload_selective_guard.c).
THEOREM CustodyTheorem ==
  ASSUME ~Daemonize
  PROVE  Spec => CustodySpec
<1>1. Init => Custody!Init
  BY CustodyStarts
<1>2. HandoffInv /\ HandoffInv' /\ [Next]_vars
      => [Custody!Next]_<<[i \in Pids \X (1 .. MaxStart) |-> Standing(i[1], i[2])],
                          IF phase # "gone" THEN "alive" ELSE IF killed THEN "killed" ELSE "exited">>
  BY CustodySteps
<1>3. Spec => []HandoffInv
  BY HandoffInvariant
<1> QED BY <1>1, <1>2, <1>3, PTL DEF Spec, CustodySpec, Custody!Spec

-----------------------------------------------------------------------------
(* The workers of a pool, counted.                                         *)

EnvOf(q) == {e \in env : e.pool = q}

Counts ==
  /\ IsFiniteSet(children) /\ IsFiniteSet(env) /\ IsFiniteSet(taken) /\ cur \notin todo
  /\ \A q \in Pools :
       /\ Cardinality(Of(q)) <= Want /\ Cardinality(EnvOf(q)) <= Want
       /\ phase = "sparing" /\ q \in todo => EnvOf(q) = {}
       /\ phase = "starting" /\ q \in todo => Of(q) = {}
       /\ cur = q => Cardinality(Of(q)) + Cardinality(taken) <= Want

LEMMA Fewer ==
  ASSUME NEW S, IsFiniteSet(S), NEW T, T \subseteq S
  PROVE  /\ IsFiniteSet(T) /\ Cardinality(T) <= Cardinality(S)
         /\ Cardinality(T) \in Nat /\ Cardinality(S) \in Nat
  BY FS_Subset, FS_CardinalityType

LEMMA ImageFewer ==
  ASSUME NEW S, IsFiniteSet(S), NEW T, NEW f \in [S -> T], \A t \in T : \E x \in S : f[x] = t
  PROVE  IsFiniteSet(T) /\ Cardinality(T) <= Cardinality(S)
<1>1. f \in Surjection(S, T)
  BY DEF Surjection
<1> QED BY <1>1, FS_Surjection

LEMMA UnionAtMost ==
  ASSUME NEW S, IsFiniteSet(S), NEW T, IsFiniteSet(T)
  PROVE  IsFiniteSet(S \cup T) /\ Cardinality(S \cup T) <= Cardinality(S) + Cardinality(T)
<1>1. IsFiniteSet(S \cap T)
  BY FS_Subset
<1>2. Cardinality(S) \in Nat /\ Cardinality(T) \in Nat /\ Cardinality(S \cap T) \in Nat
  BY <1>1, FS_CardinalityType
<1>3. IsFiniteSet(S \cup T) /\ Cardinality(S \cup T) = Cardinality(S) + Cardinality(T) - Cardinality(S \cap T)
  BY FS_Union
<1> QED BY <1>2, <1>3, SMTT(30)

LEMMA FewerCounts ==
  ASSUME Counts, children' \subseteq children, env' \subseteq env, taken' \subseteq taken, cur' \in {cur, "none"},
         cur' \notin todo',
         phase' = "sparing" => (phase = "sparing" /\ todo' \subseteq todo) \/ env = {},
         phase' = "starting" => (phase = "starting" /\ todo' \subseteq todo) \/ children = {}
  PROVE  Counts'
<1>0. Want \in Nat /\ "none" \notin Pools
  BY HandoffAssumption
<1>1. IsFiniteSet(children') /\ IsFiniteSet(env') /\ IsFiniteSet(taken')
  BY Fewer DEF Counts
<1>2. ASSUME NEW q \in Pools
      PROVE  (/\ Cardinality(Of(q)) <= Want /\ Cardinality(EnvOf(q)) <= Want
              /\ phase = "sparing" /\ q \in todo => EnvOf(q) = {}
              /\ phase = "starting" /\ q \in todo => Of(q) = {}
              /\ cur = q => Cardinality(Of(q)) + Cardinality(taken) <= Want)'
  <2>1. Of(q)' \subseteq Of(q) /\ EnvOf(q)' \subseteq EnvOf(q)
    BY DEF Of, EnvOf
  <2>2. /\ IsFiniteSet(Of(q)) /\ IsFiniteSet(EnvOf(q)) /\ IsFiniteSet(taken)
    BY Fewer DEF Counts, Of, EnvOf
  <2>3. /\ Cardinality(Of(q)') <= Cardinality(Of(q)) /\ Cardinality(EnvOf(q)') <= Cardinality(EnvOf(q))
        /\ Cardinality(taken') <= Cardinality(taken) /\ Cardinality(taken) \in Nat /\ Cardinality(taken') \in Nat
        /\ Cardinality(Of(q)') \in Nat /\ Cardinality(Of(q)) \in Nat
        /\ Cardinality(EnvOf(q)') \in Nat /\ Cardinality(EnvOf(q)) \in Nat
    BY <2>1, <2>2, Fewer
  <2>4. /\ Cardinality(Of(q)) <= Want /\ Cardinality(EnvOf(q)) <= Want
        /\ phase = "sparing" /\ q \in todo => EnvOf(q) = {}
        /\ phase = "starting" /\ q \in todo => Of(q) = {}
        /\ cur = q => Cardinality(Of(q)) + Cardinality(taken) <= Want
    BY DEF Counts
  <2>5. (env = {} => EnvOf(q) = {}) /\ (children = {} => Of(q) = {})
    BY DEF EnvOf, Of
  <2>6. Cardinality(Of(q)') <= Want /\ Cardinality(EnvOf(q)') <= Want
    BY <1>0, <2>3, <2>4, SMTT(30)
  <2>7. cur' = q => Cardinality(Of(q)') + Cardinality(taken') <= Want
    BY <1>0, <2>3, <2>4, SMTT(30)
  <2>8. (phase' = "sparing" /\ q \in todo' => EnvOf(q)' = {}) /\ (phase' = "starting" /\ q \in todo' => Of(q)' = {})
    BY <2>1, <2>4, <2>5
  <2> QED BY <2>6, <2>7, <2>8
<1> QED BY <1>1, <1>2 DEF Counts

\* What is listed of a pool is no more than its children.
LEMMA ListedFewer ==
  ASSUME NEW S, IsFiniteSet(S)
  PROVE  IsFiniteSet(Listed(S)) /\ Cardinality(Listed(S)) <= Cardinality(S)
<1> DEFINE f == [c \in S |-> [pool |-> c.pool, pid |-> c.pid, start |-> fpm_pid_start_time(c.pid)]]
<1>1. f \in [S -> Listed(S)] /\ \A t \in Listed(S) : \E c \in S : f[c] = t
  BY DEF Listed
<1> HIDE DEF f
<1> QED BY <1>1, ImageFewer

LEMMA NewFewer ==
  ASSUME NEW S, IsFiniteSet(S), NEW q
  PROVE  IsFiniteSet(NewChildren(q, S)) /\ Cardinality(NewChildren(q, S)) <= Cardinality(S)
<1> DEFINE f == [p \in S |-> NewChild(q, p)]
<1>1. f \in [S -> NewChildren(q, S)] /\ \A t \in NewChildren(q, S) : \E p \in S : f[p] = t
  BY DEF NewChildren
<1> HIDE DEF f
<1> QED BY <1>1, ImageFewer

LEMMA KillAllCounts ==
  ASSUME HandoffInv, Counts, NEW q \in Pools, fpm_pctl_kill_all(q)
  PROVE  Counts'
<1>0. /\ phase = "sparing" /\ phase' \in {"sparing", "waiting"} /\ todo' = todo \ {q} /\ q \in todo
      /\ cur' = cur /\ taken' = taken /\ children' \subseteq children /\ cur = "none" /\ taken = {}
  BY DEF fpm_pctl_kill_all, fpm_reload_selective_spare_pool, StopPool, HandoffInv, Stages
<1>1. CASE env' = env
  BY <1>0, <1>1, FewerCounts DEF Counts
<1>2. CASE env' = env \cup Listed(Of(q)) /\ children' = children \ Of(q)
  <2>0. Want \in Nat /\ IsFiniteSet(Of(q))
    BY HandoffAssumption, Fewer DEF Counts, Of
  <2>1. /\ IsFiniteSet(Listed(Of(q))) /\ Cardinality(Listed(Of(q))) <= Cardinality(Of(q))
        /\ Cardinality(Of(q)) \in Nat /\ Cardinality(Listed(Of(q))) \in Nat
    BY <2>0, ListedFewer, FS_CardinalityType
  <2>2. IsFiniteSet(children') /\ IsFiniteSet(env') /\ IsFiniteSet(taken')
    BY <1>0, <1>2, <2>1, Fewer, UnionAtMost DEF Counts
  <2>3. \A e \in Listed(Of(q)) : e.pool = q
    BY SMTT(30) DEF Listed, Of
  <2>4. EnvOf(q)' = Listed(Of(q))
    <3>1. EnvOf(q) = {}
      BY <1>0 DEF Counts
    <3> QED BY <1>2, <2>3, <3>1 DEF EnvOf
  <2>5. Cardinality(EnvOf(q)') <= Want
    BY <2>0, <2>1, <2>4, SMTT(30) DEF Counts
  <2>6. ASSUME NEW r \in Pools, r # q PROVE EnvOf(r)' = EnvOf(r)
    BY <1>2, <2>3, <2>6 DEF EnvOf
  <2>7. ASSUME NEW r \in Pools
        PROVE  (/\ Cardinality(Of(r)) <= Want /\ Cardinality(EnvOf(r)) <= Want
                /\ phase = "sparing" /\ r \in todo => EnvOf(r) = {}
                /\ phase = "starting" /\ r \in todo => Of(r) = {}
                /\ cur = r => Cardinality(Of(r)) + Cardinality(taken) <= Want)'
    <3>1. Of(r)' \subseteq Of(r) /\ IsFiniteSet(Of(r))
      BY <1>0, Fewer DEF Of, Counts
    <3>2. /\ Cardinality(Of(r)') <= Cardinality(Of(r)) /\ Cardinality(Of(r)') \in Nat /\ Cardinality(Of(r)) \in Nat
      BY <3>1, Fewer
    <3>3. Cardinality(Of(r)) <= Want /\ Cardinality(EnvOf(r)) <= Want
      BY DEF Counts
    <3>4. Cardinality(Of(r)') <= Want
      BY <2>0, <3>2, <3>3, SMTT(30)
    <3>5. Cardinality(EnvOf(r)') <= Want
      BY <2>5, <2>6, <3>3
    <3>6. r \in todo' => EnvOf(r)' = {}
      BY <1>0, <2>6 DEF Counts
    <3> QED BY <1>0, <3>4, <3>5, <3>6, HandoffAssumption
  <2> QED BY <1>0, <2>2, <2>7 DEF Counts
<1> QED BY <1>1, <1>2 DEF fpm_pctl_kill_all, fpm_reload_selective_spare_pool, StopPool


\* The children of one pool change, those of the others stay.
LEMMA PoolCounts ==
  ASSUME Counts, NEW q \in Pools, IsFiniteSet(children'), Cardinality(Of(q)') <= Want, env' \subseteq env,
         \A r \in Pools \ {q} : Of(r)' = Of(r), cur' \notin todo', IsFiniteSet(taken'),
         cur' = q => Cardinality(Of(q)') + Cardinality(taken') <= Want, cur' \in {q, "none"},
         phase' = "sparing" => FALSE,
         phase' = "starting" => phase = "starting" /\ todo' \subseteq todo /\ q \notin todo'
  PROVE  Counts'
<1>0. Want \in Nat /\ "none" \notin Pools
  BY HandoffAssumption
<1>1. IsFiniteSet(env')
  BY Fewer DEF Counts
<1>2. ASSUME NEW r \in Pools
      PROVE  (/\ Cardinality(Of(r)) <= Want /\ Cardinality(EnvOf(r)) <= Want
              /\ phase = "sparing" /\ r \in todo => EnvOf(r) = {}
              /\ phase = "starting" /\ r \in todo => Of(r) = {}
              /\ cur = r => Cardinality(Of(r)) + Cardinality(taken) <= Want)'
  <2>1. EnvOf(r)' \subseteq EnvOf(r) /\ IsFiniteSet(EnvOf(r))
    BY Fewer DEF EnvOf, Counts
  <2>2. Cardinality(EnvOf(r)') <= Cardinality(EnvOf(r)) /\ Cardinality(EnvOf(r)') \in Nat /\ Cardinality(EnvOf(r)) \in Nat
    BY <2>1, Fewer
  <2>3. Cardinality(EnvOf(r)') <= Want
    BY <1>0, <2>2, SMTT(30) DEF Counts
  <2>4. Cardinality(Of(r)') <= Want
    BY DEF Counts
  <2>5. phase' = "starting" /\ r \in todo' => Of(r)' = {}
    BY DEF Counts
  <2>6. cur' = r => Cardinality(Of(r)') + Cardinality(taken') <= Want
    BY <1>0
  <2> QED BY <2>3, <2>4, <2>5, <2>6
<1> QED BY <1>1, <1>2 DEF Counts

LEMMA BeginCounts ==
  ASSUME HandoffInv, Counts, NEW q \in Pools, Begin(q)
  PROVE  Counts'
<1>0. /\ phase = "starting" /\ phase' = phase /\ q \in todo /\ cur' = q /\ todo' = todo \ {q}
      /\ children' = children /\ taken' \subseteq EnvOf(q) /\ env' \subseteq env
  BY DEF Begin, fpm_reload_selective_env_take, EnvOf
<1>1. Of(q) = {} /\ \A r \in Pools : Of(r)' = Of(r)
  BY <1>0 DEF Counts, Of
<1>2. IsFiniteSet(EnvOf(q)) /\ Want \in Nat
  BY Fewer, HandoffAssumption DEF EnvOf, Counts
<1>3. /\ IsFiniteSet(taken') /\ Cardinality(taken') <= Cardinality(EnvOf(q)) /\ Cardinality(taken') \in Nat
      /\ Cardinality(EnvOf(q)) \in Nat
  BY <1>0, <1>2, Fewer
<1>4. Cardinality(EnvOf(q)) <= Want
  BY DEF Counts
<1>5. Cardinality(Of(q)') = 0
  BY <1>1, FS_EmptySet
<1>6. Cardinality(Of(q)') + Cardinality(taken') <= Want /\ Cardinality(Of(q)') <= Want
  BY <1>2, <1>3, <1>4, <1>5, SMTT(30)
<1>7. IsFiniteSet(children')
  BY <1>0 DEF Counts
<1> QED BY <1>0, <1>1, <1>3, <1>6, <1>7, PoolCounts

LEMMA AdoptCounts ==
  ASSUME HandoffInv, Counts, NEW e \in taken, fpm_reload_selective_adopt(e)
  PROVE  Counts'
<1>0. /\ phase = "starting" /\ phase' = phase /\ cur' = cur /\ cur \in Pools /\ todo' = todo /\ cur \notin todo
      /\ env' = env /\ taken' = taken \ {e} /\ e.pool = cur
      /\ children' \in {children, children \cup {fpm_children_adopt(e)}}
  BY DEF HandoffInv, Shape, Stages, Counts, fpm_reload_selective_adopt
<1> DEFINE new == fpm_children_adopt(e)
<1>1. new.pool = cur
  BY <1>0 DEF fpm_children_adopt
<1> HIDE DEF new
<1>2. Of(cur)' \subseteq Of(cur) \cup {new} /\ \A r \in Pools \ {cur} : Of(r)' = Of(r)
  <2>1. children' = children \/ children' = children \cup {new}
    BY <1>0 DEF new
  <2>2. \A r \in Pools : Of(r)' = {c \in children' : c.pool = r} /\ Of(r) = {c \in children : c.pool = r}
    BY DEF Of
  <2>3. ASSUME NEW r \in Pools \ {cur} PROVE Of(r)' = Of(r)
    <3>1. \A c : c \in children' /\ c.pool = r <=> c \in children /\ c.pool = r
      BY <1>1, <2>1
    <3> QED BY <2>2, <3>1
  <2>4. {c \in children' : c.pool = cur} \subseteq {c \in children : c.pool = cur} \cup {new}
    BY <1>1, <2>1
  <2>5. Of(cur)' = {c \in children' : c.pool = cur'}
    BY DEF Of
  <2> QED BY <1>0, <2>2, <2>3, <2>4, <2>5
<1>3. IsFiniteSet(Of(cur)) /\ Want \in Nat /\ IsFiniteSet(children) /\ IsFiniteSet(taken)
  BY Fewer, HandoffAssumption DEF Of, Counts
<1>4. /\ IsFiniteSet(Of(cur) \cup {new}) /\ Cardinality(Of(cur) \cup {new}) <= Cardinality(Of(cur)) + 1
      /\ Cardinality(Of(cur)) \in Nat /\ Cardinality(Of(cur) \cup {new}) \in Nat
  <2>1. Cardinality(Of(cur)) \in Nat
    BY <1>3, FS_CardinalityType
  <2>2. /\ IsFiniteSet(Of(cur) \cup {new})
        /\ Cardinality(Of(cur) \cup {new}) = IF new \in Of(cur) THEN Cardinality(Of(cur)) ELSE Cardinality(Of(cur)) + 1
    BY <1>3, FS_AddElement
  <2> QED BY <2>1, <2>2, SMTT(30)
<1>5. Cardinality(Of(cur)') <= Cardinality(Of(cur) \cup {new}) /\ Cardinality(Of(cur)') \in Nat
  BY <1>2, <1>4, Fewer
<1>6. IsFiniteSet(taken') /\ Cardinality(taken') = Cardinality(taken) - 1 /\ Cardinality(taken) \in Nat
      /\ Cardinality(taken') \in Nat
  BY <1>0, <1>3, FS_RemoveElement, FS_CardinalityType
<1>7. Cardinality(Of(cur)) + Cardinality(taken) <= Want
  BY <1>0 DEF Counts
<1>8. Cardinality(Of(cur)') + Cardinality(taken') <= Want /\ Cardinality(Of(cur)') <= Want
  BY <1>3, <1>4, <1>5, <1>6, <1>7, SMTT(30)
<1>9. IsFiniteSet(children')
  BY <1>0, <1>3, FS_AddElement
<1>10. PICK z \in Pools : z = cur
  BY <1>0
<1>11. Of(z)' = Of(cur)'
  BY <1>0, <1>10 DEF Of
<1> QED BY <1>0, <1>2, <1>6, <1>8, <1>9, <1>10, <1>11, PoolCounts

\* New children of one pool, and perhaps one that left.
LEMMA ForkCounts ==
  ASSUME HandoffInv, Counts, NEW q \in Pools, NEW S \in SUBSET Pids, NEW gone \in SUBSET Of(q),
         children' = (children \ gone) \cup NewChildren(q, S),
         Cardinality(Of(q) \ gone) + Cardinality(S) <= Want,
         env' = env, taken' = {}, cur' = "none", phase' = phase, phase # "sparing", todo' = todo,
         phase = "starting" => q \notin todo, "none" \notin todo
  PROVE  Counts'
<1>0. Want \in Nat /\ IsFiniteSet(S) /\ IsFiniteSet(children \ gone) /\ IsFiniteSet(Of(q) \ gone)
  BY HandoffAssumption, Fewer DEF Counts, Of
<1>1. /\ IsFiniteSet(NewChildren(q, S)) /\ Cardinality(NewChildren(q, S)) <= Cardinality(S)
      /\ Cardinality(S) \in Nat /\ Cardinality(NewChildren(q, S)) \in Nat /\ Cardinality(Of(q) \ gone) \in Nat
  BY <1>0, NewFewer, FS_CardinalityType
<1>2. \A c \in NewChildren(q, S) : c.pool = q
  BY SMTT(60) DEF NewChildren, NewChild
<1>3. Of(q)' = (Of(q) \ gone) \cup NewChildren(q, S)
  BY <1>2 DEF Of
<1>4. \A r \in Pools \ {q} : Of(r)' = Of(r)
  BY <1>2 DEF Of
<1>5. IsFiniteSet(children')
  BY <1>0, <1>1, UnionAtMost
<1>6. /\ IsFiniteSet(Of(q)') /\ Cardinality(Of(q)') <= Cardinality(Of(q) \ gone) + Cardinality(NewChildren(q, S))
      /\ Cardinality(Of(q)') \in Nat
  BY <1>0, <1>1, <1>3, UnionAtMost, FS_CardinalityType
<1>7. Cardinality(Of(q)') <= Want
  BY <1>0, <1>1, <1>6, SMTT(30)
<1>8. IsFiniteSet(taken')
  BY FS_EmptySet
<1>9. cur' # q
  BY HandoffAssumption
<1> QED BY <1>4, <1>5, <1>7, <1>8, <1>9, PoolCounts

LEMMA CreateCounts ==
  ASSUME HandoffInv, Counts, fpm_children_create_initial
  PROVE  Counts'
<1>0. /\ phase = "starting" /\ cur \in Pools /\ taken = {} /\ taken' = taken /\ cur' = "none" /\ todo' = todo
      /\ env' = env /\ cur \notin todo /\ "none" \notin todo
  BY HandoffAssumption DEF HandoffInv, Shape, Stages, Counts, fpm_children_create_initial
<1>1. CASE phase' = "stopping" /\ children' = children
  BY <1>0, <1>1, FewerCounts
<1>2. ASSUME NEW s \in Forkable(Shortfall(cur)), Fork(cur, s), phase' = phase PROVE Counts'
  <2>1. s \subseteq Pids /\ Cardinality(s) = Want - Cardinality(Of(cur))
    BY DEF Forkable, Shortfall, Free
  <2>2. children' = (children \ {}) \cup NewChildren(cur, s)
    BY <1>2 DEF Fork, NewChildren, NewChild
  <2>3. IsFiniteSet(Of(cur)) /\ Want \in Nat
    BY Fewer, HandoffAssumption DEF Of, Counts
  <2>4. Cardinality(Of(cur)) \in Nat /\ Of(cur) \ {} = Of(cur)
    BY <2>3, FS_CardinalityType
  <2>5. Cardinality(Of(cur) \ {}) + Cardinality(s) <= Want
    BY <2>1, <2>3, <2>4, SMTT(30)
  <2>6. PICK q \in Pools : q = cur
    BY <1>0
  <2>7. /\ children' = (children \ {}) \cup NewChildren(q, s) /\ Cardinality(Of(q) \ {}) + Cardinality(s) <= Want
        /\ q \notin todo
    BY <1>0, <2>2, <2>5, <2>6
  <2> QED BY <1>0, <1>2, <2>1, <2>7, ForkCounts, SMTT(30)
<1> QED BY <1>1, <1>2 DEF fpm_children_create_initial

LEMMA BuryCounts ==
  ASSUME HandoffInv, Counts, fpm_children_bury
  PROVE  Counts'
<1>0. /\ phase \in {"serving", "waiting", "stopping"} /\ cur = "none" /\ taken = {} /\ cur' = cur /\ taken' = taken
      /\ env' = env /\ todo' = todo /\ "none" \notin todo
  BY HandoffAssumption DEF HandoffInv, Shape, Stages, Looping, fpm_children_bury, Retire
<1>1. CASE children' \subseteq children /\ phase' \in {"serving", "waiting", "stopping", "exec"}
  BY <1>0, <1>1, FewerCounts
<1>2. ASSUME NEW c \in children, phase' = phase, NEW s \in {{}} \cup Forkable(1),
             children' = (children \ {c}) \cup {[pool |-> c.pool, pid |-> r, swept |-> FALSE,
                                                 start |-> proc[r].start + 1] : r \in s}
      PROVE  Counts'
  <2>1. s \subseteq Pids /\ Cardinality(s) <= 1 /\ Cardinality(s) \in Nat
    <3>1. CASE s = {}
      BY <3>1, FS_EmptySet, SMTT(30)
    <3>2. CASE s \in Forkable(1)
      BY <3>2, SMTT(30) DEF Forkable, Free
    <3> QED BY <3>1, <3>2
  <2>2. children' = (children \ {c}) \cup NewChildren(c.pool, s) /\ c \in Of(c.pool) /\ c.pool \in Pools
    BY <1>2 DEF NewChildren, NewChild, Of, HandoffInv, Shape, Child
  <2>3. IsFiniteSet(Of(c.pool)) /\ Want \in Nat /\ Cardinality(Of(c.pool)) <= Want
    BY <2>2, Fewer, HandoffAssumption DEF Of, Counts
  <2>4. Cardinality(Of(c.pool) \ {c}) = Cardinality(Of(c.pool)) - 1 /\ Cardinality(Of(c.pool)) \in Nat
    BY <2>2, <2>3, FS_RemoveElement, FS_CardinalityType
  <2>5. Cardinality(Of(c.pool) \ {c}) + Cardinality(s) <= Want
    BY <2>1, <2>3, <2>4, SMTT(30)
  <2>6. PICK q \in Pools : q = c.pool
    BY <2>2
  <2>7. /\ {c} \in SUBSET Of(q) /\ children' = (children \ {c}) \cup NewChildren(q, s)
        /\ Cardinality(Of(q) \ {c}) + Cardinality(s) <= Want
    BY <2>2, <2>5, <2>6
  <2>8. /\ env' = env /\ taken' = {} /\ cur' = "none" /\ phase' = phase /\ phase # "sparing" /\ todo' = todo
        /\ phase # "starting" /\ "none" \notin todo
    BY <1>0, <1>2
  <2> QED BY <2>1, <2>7, <2>8, ForkCounts
<1>3. ASSUME NEW p, NEW c \in Found(p), Retire(c) PROVE Counts'
  <2>1. c \in children
    BY DEF Found
  <2>2. CASE phase = "serving"
    BY <1>2, <1>3, <2>1, <2>2 DEF Retire
  <2>3. CASE phase # "serving"
    BY <1>0, <1>1, <1>3, <2>3 DEF Retire
  <2> QED BY <2>2, <2>3
<1> QED BY <1>0, <1>1, <1>3 DEF fpm_children_bury


\* The steps after which the lists are no longer than before.
LEMMA OtherCounts ==
  ASSUME HandoffInv, Counts, ~Daemonize,
         \/ fpm_pctl_reload \/ fpm_pctl_action_last \/ fpm_pctl_exit \/ fpm_reload_selective_guard_arm
         \/ fpm_pctl_exec \/ fpm_init \/ Got_SIGCHLD \/ Stop \/ fpm_reload_selective_sigterm_carried
         \/ fpm_reload_selective_guard_release \/ Killed \/ fpm_reload_selective_guard_main
         \/ (\E p \in Pids : HostStep(p)) \/ UNCHANGED vars
  PROVE  Counts'
<1>0. "none" \notin todo /\ Stages /\ Shape
  BY HandoffAssumption DEF HandoffInv, Shape
<1>1. CASE fpm_pctl_reload
  <2>1. cur = "none" /\ env = {} /\ "none" \notin Pools
    BY <1>0, <1>1, HandoffAssumption DEF fpm_pctl_reload, Stages
  <2> QED BY <1>1, <2>1, FewerCounts DEF fpm_pctl_reload
<1>2. CASE fpm_init
  <2>1. children = {} /\ cur = "none" /\ todo' \subseteq Pools /\ "none" \notin Pools
    BY <1>0, <1>2, HandoffAssumption DEF Stages, fpm_init, Shape
  <2> QED BY <1>2, <2>1, FewerCounts DEF fpm_init
<1>3. CASE fpm_pctl_action_last \/ fpm_pctl_exit \/ fpm_reload_selective_guard_arm \/ fpm_pctl_exec
  BY <1>3, FewerCounts DEF Counts, fpm_pctl_action_last, fpm_pctl_exit, fpm_reload_selective_guard_arm, fpm_pctl_exec
<1>4. CASE Got_SIGCHLD \/ Stop
  BY <1>4, FewerCounts DEF Counts, Got_SIGCHLD, Stop
<1>5. CASE fpm_reload_selective_sigterm_carried \/ fpm_reload_selective_guard_release
  BY <1>5, FewerCounts DEF Counts, fpm_reload_selective_sigterm_carried, fpm_reload_selective_guard_release
<1>6. CASE Killed
  BY <1>0, <1>6, FewerCounts DEF Killed
<1>7. CASE fpm_reload_selective_guard_main
  BY <1>7, FewerCounts DEF Counts, fpm_reload_selective_guard_main
<1>8. CASE (\E p \in Pids : HostStep(p)) \/ UNCHANGED vars
  <2>1. UNCHANGED <<phase, children, env, taken, cur, todo>>
    BY <1>8 DEF HostStep, Exit, InitReaps, Stranger, fpm_reload_selective_guard_child_init, vars
  <2> QED BY <2>1, FewerCounts DEF Counts
<1> QED BY <1>1, <1>2, <1>3, <1>4, <1>5, <1>6, <1>7, <1>8

LEMMA CountsSteps ==
  ASSUME HandoffInv, Counts, ~Daemonize, [Next]_vars
  PROVE  Counts'
<1>1. CASE Master
  BY <1>1, KillAllCounts, BeginCounts, AdoptCounts, CreateCounts, OtherCounts DEF Master
<1>2. CASE fpm_children_bury \/ fpm_adopted_sweep_tick
  BY <1>2, BuryCounts, NoSweep
<1>3. CASE fpm_pctl_reload \/ Stop \/ Got_SIGCHLD \/ Killed \/ fpm_reload_selective_guard_main \/ UNCHANGED vars
  BY <1>3, OtherCounts
<1>4. CASE \E p \in Pids : HostStep(p)
  BY <1>4, OtherCounts
<1> QED BY <1>1, <1>2, <1>3, <1>4 DEF Next, HostStep

LEMMA CountsStart ==
  ASSUME Init
  PROVE  Counts
<1>1. PICK w \in Workforce :
        /\ \A q \in Pools : Cardinality(w[q]) = Want
        /\ children = UNION {{[pool |-> q, pid |-> p, swept |-> FALSE, start |-> 1] : p \in w[q]} : q \in Pools}
        /\ phase = "serving" /\ todo = {} /\ env = {} /\ cur = "none" /\ taken = {}
  BY DEF Init
<1>2. Want \in Nat /\ IsFiniteSet({}) /\ Cardinality({}) = 0
  BY HandoffAssumption, FS_EmptySet
<1>3. HandoffInv
  BY HandoffStarts
<1>4. IsFiniteSet(children)
  <2> DEFINE f == [c \in children |-> c.pid]
  <2>1. f \in [children -> Pids]
    BY <1>3 DEF HandoffInv, Shape, Child
  <2>2. \A c, d \in children : f[c] = f[d] => c = d
    BY <1>3, OnlyChild
  <2> HIDE DEF f
  <2>3. f \in Injection(children, Pids)
    BY <2>1, <2>2 DEF Injection, IsInjective
  <2> QED BY <2>3, HandoffAssumption, FS_Injection
<1>5. ASSUME NEW q \in Pools
      PROVE  Cardinality(Of(q)) <= Want
  <2> DEFINE g == [p \in w[q] |-> [pool |-> q, pid |-> p, swept |-> FALSE, start |-> 1]]
  <2>1. Of(q) = {[pool |-> q, pid |-> p, swept |-> FALSE, start |-> 1] : p \in w[q]}
    BY <1>1, SMTT(60) DEF Of
  <2>2. g \in [w[q] -> Of(q)] /\ \A c \in Of(q) : \E p \in w[q] : g[p] = c
    BY <2>1
  <2> HIDE DEF g
  <2>3. IsFiniteSet(w[q])
    BY HandoffAssumption, Fewer DEF Workforce
  <2> QED BY <1>1, <2>2, <2>3, ImageFewer
<1>6. \A q \in Pools : EnvOf(q) = {} /\ cur # q
  BY <1>1, HandoffAssumption DEF EnvOf
<1>7. \A q \in Pools : Cardinality(EnvOf(q)) <= Want
  BY <1>2, <1>6, SMTT(30)
<1> QED BY <1>1, <1>2, <1>4, <1>5, <1>6, <1>7 DEF Counts

\* While the executed image stays the parent of the carried workers, the lists
\* of a selective reload are well formed and true: a pool has no more children
\* than it wants, the adopted ones included, and an entry names its worker or
\* nothing (fpm_children_create_initial(), fpm_pid_is_same()).
THEOREM CarryTheorem ==
  ASSUME ~Daemonize
  PROVE  Spec => []CarrySound
<1>1. Init => HandoffInv /\ Counts
  BY HandoffStarts, CountsStart
<1>2. HandoffInv /\ Counts /\ [Next]_vars => (HandoffInv /\ Counts)'
  BY HandoffSteps, CountsSteps
<1>3. HandoffInv /\ Counts => CarrySound
  <2> SUFFICES ASSUME HandoffInv, Counts PROVE CarrySound
    OBVIOUS
  <2>1. TypeOK
    BY DEF HandoffInv, Counts, TypeOK
  <2>2. CarriedAreWorkers
    BY SameIs DEF HandoffInv, Held, CarriedAreWorkers, Entries
  <2> QED BY <2>1, <2>2 DEF CarrySound
<1> QED BY <1>1, <1>2, <1>3, PTL DEF Spec

=============================================================================
