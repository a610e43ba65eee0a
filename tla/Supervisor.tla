------------------------------ MODULE Supervisor ------------------------------
(***************************************************************************)
(* pool.type = supervisor (fpm_pool_supervisor.c): the processes that run  *)
(* the supervised script in a loop, and the policy they share through one  *)
(* block of shared memory without a lock.                                  *)
(*                                                                         *)
(* "sup" is the shared block (struct fpm_supervisor_shared_s) with what    *)
(* the master knows, "copy" one process per scoreboard slot.  A step of a  *)
(* copy ends where another process can get in between: a read-modify-write *)
(* of a shared counter is two steps, the scan of the completion bytes is   *)
(* one step per byte.  With conf.tso a completion byte may sit in the      *)
(* store buffer of its processor while later reads run ahead of it.        *)
(* Times are seconds left: "gate" for next_allowed_start - now, "wait" for *)
(* the sleep a copy is in.                                                 *)
(***************************************************************************)
EXTENDS Integers, FiniteSets, FiniteSetsExt

CONSTANTS
  Copies,      \* scoreboard slots of the pool, supervisor.processes of them
  SupConfs,    \* configurations of the pool
  MaxStarts    \* where the count of starts saturates

VARIABLES conf, sup, copy

supvars == <<conf, sup, copy>>

processes == Cardinality(Copies)

Fresh == [pc |-> "boot", term |-> FALSE, dog |-> FALSE, first |-> TRUE, owes |-> FALSE,
          wait |-> 0, ok |-> TRUE, long |-> FALSE, seen |-> 0, buf |-> FALSE,
          left |-> {}, previous |-> 0, parks |-> FALSE]

Gone == [Fresh EXCEPT !.pc = "none"]

fpm_pool_supervisor_init_main ==
  [failures |-> 0, gate |-> 0, terminal |-> FALSE, gave_up |-> FALSE,
   fatal_signaled |-> FALSE, done |-> {}, starts |-> 0, cold |-> 0,
   asked |-> FALSE, stop |-> FALSE, kills |-> 0]

SupInit ==
  /\ conf \in SupConfs
  /\ sup = fpm_pool_supervisor_init_main
  /\ copy = [s \in Copies |-> Fresh]

Alive(s) == copy[s].pc # "none"

-----------------------------------------------------------------------------
(* The pieces of the policy                                                *)

\* The delay after the f-th consecutive failure: doubled per failure, capped.
Delay_NoCap(f) == Min({conf.dmax * 2, conf.delay * 2 ^ (f - 1)})
Delay(f) == Min({conf.dmax, conf.delay * 2 ^ (f - 1)})

wants_retry(ok) ==
  CASE conf.restart = "never"      -> FALSE
    [] conf.restart = "on-failure" -> ~ok
    [] OTHER                       -> TRUE

\* The master is asked to go down once, by the first copy that looks.
Asks(sh) ==
  IF sh.terminal /\ sh.gave_up /\ conf.fatal /\ ~sh.fatal_signaled
  THEN [sh EXCEPT !.fatal_signaled = TRUE, !.asked = TRUE] ELSE sh

\* What slot s reads in the completion byte of slot t: its own store first.
Reads(s, t) == t \in sup.done \/ (t = s /\ copy[s].buf)

\* A process that is gone has no store left in a buffer.
Drained(s) == IF copy[s].buf THEN sup.done \cup {s} ELSE sup.done

fpm_pool_supervisor_sigterm(c) ==
  [c EXCEPT !.term = TRUE, !.dog = TRUE, !.pc = IF @ = "pause" THEN "park" ELSE @]

At(s, pc) == copy[s].pc = pc

Goes(s, c) == copy' = [copy EXCEPT ![s] = c]

Leave(s) == Goes(s, Gone)

-----------------------------------------------------------------------------
(* fpm_pool_supervisor_child_main()                                        *)

\* A copy that is done looks whether the pool is, every other one enters the loop.
Entered_Reruns(s) == [copy[s] EXCEPT !.pc = "top"]
Entered_NoScan(s) == [copy[s] EXCEPT !.pc = IF s \in sup.done THEN "park" ELSE "top"]
Entered(s) ==
  IF s \in sup.done THEN [copy[s] EXCEPT !.pc = "scan", !.left = Copies, !.parks = TRUE]
  ELSE [copy[s] EXCEPT !.pc = "top"]

\* Entry: a pool that is over parks the copy.
child_main_NoFatal(s) ==
  /\ At(s, "boot")
  /\ Goes(s, IF sup.terminal THEN [copy[s] EXCEPT !.pc = "park"] ELSE Entered(s))
  /\ UNCHANGED <<conf, sup>>
child_main(s) ==
  /\ At(s, "boot")
  /\ Goes(s, IF sup.terminal THEN [copy[s] EXCEPT !.pc = "park"] ELSE Entered(s))
  /\ sup' = Asks(sup)
  /\ UNCHANGED conf

\* Top of the loop: a stop ends it; the first time round reads the number of
\* cold starts handed out.
loop_top(s) ==
  /\ At(s, "top")
  /\ Goes(s, IF copy[s].term THEN [copy[s] EXCEPT !.pc = "bye"]
             ELSE IF copy[s].first
             THEN [copy[s] EXCEPT !.first = FALSE, !.seen = sup.cold, !.owes = sup.cold < processes,
                                  !.pc = IF sup.cold < processes THEN "cold" ELSE "gate"]
             ELSE [copy[s] EXCEPT !.pc = "gate"])
  /\ UNCHANGED <<conf, sup>>

\* cold_starts_issued++: the store of a read-modify-write.
take_cold_start(s) ==
  /\ At(s, "cold")
  /\ sup' = [sup EXCEPT !.cold = copy[s].seen + 1]
  /\ Goes(s, [copy[s] EXCEPT !.pc = "gate", !.seen = 0])
  /\ UNCHANGED conf

\* The pool-wide backoff, unless this is the cold start of the copy, which has
\* its own delay.  Each copy draws its own jitter.
backoff_gate(s) ==
  /\ At(s, "gate")
  /\ \E j \in 0 .. conf.jitter :
       Goes(s, IF ~copy[s].owes /\ sup.gate > 0
               THEN [copy[s] EXCEPT !.pc = "backoff", !.wait = sup.gate + j]
               ELSE [copy[s] EXCEPT !.pc = "jitter", !.owes = FALSE,
                                    !.wait = IF copy[s].owes THEN j ELSE 0])
  /\ UNCHANGED <<conf, sup>>

\* fpm_pool_supervisor_wait() is over: slept out, or a stop came.
woken(s) ==
  /\ copy[s].pc \in {"backoff", "jitter"} /\ (copy[s].wait = 0 \/ copy[s].term)
  /\ Goes(s, [copy[s] EXCEPT !.wait = 0,
       !.pc = IF copy[s].term \/ (At(s, "backoff") /\ sup.terminal) THEN "bye" ELSE "start"])
  /\ UNCHANGED <<conf, sup>>

\* The last look at terminal before the script, then the start is counted.
script_start_Blind(s) ==
  /\ At(s, "start")
  /\ sup' = [sup EXCEPT !.starts = Min({@ + 1, MaxStarts})]
  /\ Goes(s, [copy[s] EXCEPT !.pc = "run"])
  /\ UNCHANGED conf
script_start(s) ==
  /\ At(s, "start")
  /\ IF sup.terminal
     THEN Goes(s, [copy[s] EXCEPT !.pc = "bye"]) /\ UNCHANGED sup
     ELSE /\ sup' = [sup EXCEPT !.starts = Min({@ + 1, MaxStarts})]
          /\ Goes(s, [copy[s] EXCEPT !.pc = "run"])
  /\ UNCHANGED conf

\* The script returns, with or without success, before or after
\* supervisor.restart_delay_max.  (A script need not return.)
script_end(s, ok, long) ==
  /\ At(s, "run")
  /\ Goes(s, [copy[s] EXCEPT !.pc = "policy", !.ok = ok, !.long = long])
  /\ UNCHANGED <<conf, sup>>

\* supervisor.max_runtime: the watchdog sends the stop signal to the copy.
max_runtime(s) ==
  /\ At(s, "run") /\ conf.max_runtime /\ ~copy[s].term
  /\ Goes(s, fpm_pool_supervisor_sigterm(copy[s]))
  /\ UNCHANGED <<conf, sup>>

\* fpm_pool_supervisor_apply_policy(): a one-shot that is over stores its byte
\* and scans; a success clears the backoff; a failure reads the counter.
apply_policy(s) ==
  /\ At(s, "policy")
  /\ LET c == [copy[s] EXCEPT !.ok = TRUE, !.long = FALSE] IN
     IF ~wants_retry(copy[s].ok)
     THEN /\ sup' = [sup EXCEPT !.done = IF conf.tso THEN @ ELSE @ \cup {s}]
          /\ Goes(s, [c EXCEPT !.pc = "scan", !.left = Copies, !.buf = conf.tso])
     ELSE IF copy[s].ok
     THEN /\ sup' = [sup EXCEPT !.failures = 0, !.gate = 0]
          /\ Goes(s, [c EXCEPT !.pc = "after"])
     ELSE /\ UNCHANGED sup
          /\ Goes(s, [c EXCEPT !.pc = "count", !.seen = IF copy[s].long THEN 0 ELSE sup.failures])
  /\ UNCHANGED conf

\* failures++ and what follows from the new value: give up, or wait longer.
count_failure(s) ==
  /\ At(s, "count")
  /\ LET f == copy[s].seen + 1
         over == conf.restart_max > 0 /\ f >= conf.restart_max IN
       /\ sup' = IF over THEN [sup EXCEPT !.failures = f, !.terminal = TRUE]
                 ELSE [sup EXCEPT !.failures = f, !.gate = Delay(f)]
       /\ Goes(s, [copy[s] EXCEPT !.seen = 0, !.pc = IF over THEN "give_up" ELSE "after"])
  /\ UNCHANGED conf

\* gave_up is stored after terminal.
give_up(s) ==
  /\ At(s, "give_up")
  /\ sup' = [sup EXCEPT !.gave_up = TRUE]
  /\ Goes(s, [copy[s] EXCEPT !.pc = "after"])
  /\ UNCHANGED conf

\* The scan of the completion bytes, one byte per step.
one_shot_done_count(s) ==
  /\ At(s, "scan") /\ copy[s].left # {}
  /\ LET t == Min(copy[s].left) IN
       Goes(s, [copy[s] EXCEPT !.left = @ \ {t}, !.seen = @ + IF Reads(s, t) THEN 1 ELSE 0])
  /\ UNCHANGED <<conf, sup>>

\* A pass that changed the count is repeated; a stable count of every copy ends
\* the pool unless it already is over.
one_shot_maybe_finish_Any(s) ==
  /\ At(s, "scan") /\ copy[s].left = {}
  /\ LET over == ~sup.terminal
         end == sup.terminal \/ over IN
       /\ sup' = IF over THEN [sup EXCEPT !.terminal = TRUE, !.gave_up = FALSE, !.failures = 0] ELSE sup
       /\ Goes(s, [copy[s] EXCEPT !.seen = 0, !.previous = 0, !.parks = FALSE,
                                  !.pc = IF end /\ ~copy[s].parks THEN "bye" ELSE "park"])
  /\ UNCHANGED conf
one_shot_maybe_finish(s) ==
  /\ At(s, "scan") /\ copy[s].left = {}
  /\ IF copy[s].seen # copy[s].previous
     THEN /\ Goes(s, [copy[s] EXCEPT !.previous = copy[s].seen, !.seen = 0, !.left = Copies])
          /\ UNCHANGED sup
     ELSE LET over == copy[s].seen >= processes /\ ~sup.terminal
              end == sup.terminal \/ over IN
          /\ sup' = IF over THEN [sup EXCEPT !.terminal = TRUE, !.gave_up = FALSE, !.failures = 0] ELSE sup
          /\ Goes(s, [copy[s] EXCEPT !.seen = 0, !.previous = 0, !.parks = FALSE,
                                     !.pc = IF end /\ ~copy[s].parks THEN "bye" ELSE "park"])
  /\ UNCHANGED conf

\* After the policy: the end of the pool, a recycle for supervisor.max_memory
\* (the copy sends itself the stop signal), or the next iteration.
after_policy(s) ==
  /\ At(s, "after")
  /\ \E big \in IF conf.max_memory THEN BOOLEAN ELSE {FALSE} :
       Goes(s, IF sup.terminal THEN [copy[s] EXCEPT !.pc = "bye"]
               ELSE LET c == [copy[s] EXCEPT !.pc = "top"] IN
                    IF big THEN fpm_pool_supervisor_sigterm(c) ELSE c)
  /\ UNCHANGED <<conf, sup>>

\* The loop is over: supervisor.fatal asks the master to go down, then exit().
child_exit(s) ==
  /\ At(s, "bye")
  /\ sup' = [Asks(sup) EXCEPT !.done = Drained(s)]
  /\ Leave(s)
  /\ UNCHANGED conf

\* fpm_pool_supervisor_park(): check the flag, then pause() until a signal.
park(s) ==
  \/ /\ At(s, "park")
     /\ IF copy[s].term
        THEN Leave(s) /\ sup' = [sup EXCEPT !.done = Drained(s)]
        ELSE Goes(s, [copy[s] EXCEPT !.pc = "nap"]) /\ UNCHANGED sup
     /\ UNCHANGED conf
  \/ /\ At(s, "nap")
     /\ Goes(s, [copy[s] EXCEPT !.pc = "pause"])
     /\ UNCHANGED <<conf, sup>>

-----------------------------------------------------------------------------
(* Around the copies                                                       *)

\* The watchdog of the signal handler: SIGKILL after supervisor.stop_timeout.
fpm_pool_watchdog_arm(s) ==
  /\ Alive(s) /\ copy[s].dog
  /\ sup' = [sup EXCEPT !.done = Drained(s)]
  /\ Leave(s)
  /\ UNCHANGED conf

\* A process from outside kills a copy.
Killed(s) ==
  /\ Alive(s) /\ sup.kills < conf.kills
  /\ sup' = [sup EXCEPT !.kills = @ + 1, !.done = Drained(s)]
  /\ Leave(s)
  /\ UNCHANGED conf

\* The processor writes the buffered byte to memory.
StoreLands(s) ==
  /\ copy[s].buf
  /\ sup' = [sup EXCEPT !.done = @ \cup {s}]
  /\ Goes(s, [copy[s] EXCEPT !.buf = FALSE])
  /\ UNCHANGED conf

\* The master forks a replacement into the slot, as for every static pool.
Respawn(s) ==
  /\ ~Alive(s) /\ ~sup.stop
  /\ Goes(s, Fresh)
  /\ UNCHANGED <<conf, sup>>

\* The master goes down, asked by a copy or by an operator, and signals them all.
MasterStops ==
  /\ ~sup.stop
  /\ sup' = [sup EXCEPT !.stop = TRUE]
  /\ copy' = [s \in Copies |-> IF Alive(s) THEN fpm_pool_supervisor_sigterm(copy[s]) ELSE copy[s]]
  /\ UNCHANGED conf

\* One second.
Second ==
  /\ sup.gate > 0 \/ \E s \in Copies : copy[s].wait > 0
  /\ sup' = [sup EXCEPT !.gate = Max({0, @ - 1})]
  /\ copy' = [s \in Copies |-> [copy[s] EXCEPT !.wait = Max({0, @ - 1})]]
  /\ UNCHANGED conf

\* Everything has stopped.
SupDown == sup.stop /\ (\A s \in Copies : ~Alive(s)) /\ UNCHANGED supvars

CopyStep(s) ==
  \/ child_main(s) \/ loop_top(s) \/ take_cold_start(s) \/ backoff_gate(s) \/ woken(s)
  \/ script_start(s) \/ apply_policy(s) \/ count_failure(s) \/ give_up(s)
  \/ one_shot_done_count(s) \/ one_shot_maybe_finish(s) \/ after_policy(s)
  \/ child_exit(s) \/ park(s)

SupNext ==
  \/ \E s \in Copies :
       \/ CopyStep(s)
       \/ \E ok, long \in BOOLEAN : script_end(s, ok, long)
       \/ max_runtime(s) \/ fpm_pool_watchdog_arm(s) \/ Killed(s) \/ StoreLands(s) \/ Respawn(s)
  \/ MasterStops \/ Second \/ SupDown

\* What happens to a slot without anybody outside doing something: the copy
\* runs, its watchdog fires, its stores land, the master fills the slot.
SlotStep(s) ==
  \/ CopyStep(s) \/ fpm_pool_watchdog_arm(s) \/ StoreLands(s) \/ Respawn(s)
  \/ conf.restart # "always" /\ \E ok, long \in BOOLEAN : script_end(s, ok, long)

\* Processes run, timers and signals arrive, the master obeys the signal a copy
\* sends it.  No script has to end unless the pool is made for one that does.
SupFair ==
  /\ \A s \in Copies : WF_supvars(SlotStep(s))
  /\ WF_supvars(sup.asked /\ MasterStops)
  /\ WF_supvars(Second)

-----------------------------------------------------------------------------
(* Properties                                                              *)

Pcs == {"none", "boot", "top", "cold", "gate", "backoff", "jitter", "start", "run", "policy",
        "count", "give_up", "scan", "after", "bye", "park", "nap", "pause"}

\* Types, with the two bounds the policy promises: the pool-wide delay never
\* passes supervisor.restart_delay_max, the cold starts never the copies.
SupTypeOK ==
  /\ sup.failures \in Nat /\ sup.gate \in 0 .. conf.dmax
  /\ sup.cold \in 0 .. processes /\ sup.starts \in 0 .. MaxStarts
  /\ sup.done \subseteq Copies
  /\ \A s \in Copies : copy[s].pc \in Pcs /\ copy[s].wait \in 0 .. conf.dmax + conf.jitter

\* supervisor.restart = never or a success under on-failure runs the script
\* once per copy: no copy starts it when its slot is recorded as done, also not
\* the process respawned into the slot after a SIGKILL.
OneShotOnce ==
  [][\A s \in Copies : At(s, "start") /\ copy'[s].pc = "run" => ~Reads(s, s)]_supvars

\* The pool becomes FINISHED (terminal, and not because a copy gave up) only
\* when every copy has finished its one-shot: the fastest copy does not stop
\* the others.
FinishedMeansAll ==
  [][~sup.terminal /\ sup'.terminal /\ (\A s \in Copies : copy'[s].pc # "give_up")
       => \A s \in Copies : Reads(s, s)]_supvars

\* Once the pool is over (finished, or restart_max exhausted by any copy) no
\* copy starts the script again, whatever it was waiting for.
NoStartWhenOver ==
  [][\A s \in Copies : ~At(s, "run") /\ copy'[s].pc = "run" => ~sup.terminal]_supvars

\* A one-shot pool ends: when every script returns, the copies see that all of
\* them are done, even if one is killed between its byte and its scan
\* (fpm_pool_supervisor_one_shot_done_count).  This is so while a store is seen
\* by the other copies at once; with a store buffer (conf.tso) it is not.
OneShotEnds == (conf.restart = "never") ~> (sup.terminal \/ sup.stop)

\* A copy that was told to stop ends, also one caught between the check of the
\* flag and pause(), or in a script that never returns.
CopyStopEnds == \A s \in Copies : copy[s].term ~> ~copy[s].term

\* With supervisor.fatal, giving up brings the master down, also when the copy
\* that gave up was killed before it could ask.
FatalAnswered == (sup.gave_up /\ conf.fatal) ~> sup.stop

\* The policy as a whole (fpm_pool_supervisor.c): the pool is over only when
\* every copy is done or it gave up, a one-shot script runs once, and nothing
\* starts in a pool that is over.
SupervisorSound == []SupTypeOK /\ FinishedMeansAll /\ OneShotOnce /\ NoStartWhenOver
=============================================================================
