------------------------------- MODULE CronPool -------------------------------
(***************************************************************************)
(* pool.type = cron: the schedule (fpm_cron_schedule.c) and the one child  *)
(* that waits for its due time, runs the script once and exits             *)
(* (fpm_pool_cron.c), with the master that replaces it, watches for stale  *)
(* pools and stops it.                                                     *)
(*                                                                         *)
(* A schedule is a record of sets, one per field.  Calendar gives the      *)
(* broken-down time of each minute; it may skip or repeat an hour, as a    *)
(* time zone does.  The clock counts Minute steps to a minute and ends at  *)
(* Horizon, where schedule_next() finds nothing more.                      *)
(***************************************************************************)
EXTENDS Integers, FiniteSets, FiniteSetsExt

CONSTANTS
  Calendar,    \* sequence of [min, hour, mday, mon, wday], one per minute
  Minute,      \* clock steps in a minute
  CronConfs,   \* [sched, jitter, timeout, within]
  MaxCronKills \* SIGKILLs from outside

VARIABLES cron, clock, child, shared

cronvars == <<cron, clock, child, shared>>

-----------------------------------------------------------------------------
(* fpm_cron_schedule.c                                                     *)

Bad == [ok |-> FALSE, bits |-> {}]

\* One item of a field: "*", "n", "n-m", each with an optional "/step".  -1
\* stands for a part that is not there.
fpm_cron_parse_item_Off(it, min, max) ==
  LET low == IF it.star THEN min ELSE it.low
      high == IF it.star THEN max ELSE IF it.high >= 0 THEN it.high ELSE low
      step == IF it.step = -1 THEN 1 ELSE it.step IN
  IF step < 1 \/ low < min \/ low > max \/ high < min \/ high > max \/ low > high THEN Bad
  ELSE [ok |-> TRUE, bits |-> {i \in low .. high : (i - low) % step = 0}]
fpm_cron_parse_item(it, min, max) ==
  LET low == IF it.star THEN min ELSE it.low
      ranged == it.high >= 0
      step == IF it.step = -1 THEN 1 ELSE it.step
      high == IF it.star THEN max
              ELSE IF ranged THEN it.high
              ELSE IF it.step # -1 THEN max ELSE low
      mark[i \in 0 .. 2 * max + 1] == IF i > high THEN {} ELSE {i} \cup mark[i + step] IN
  IF step < 1 \/ low < min \/ low > max \/ high < min \/ high > max \/ low > high THEN Bad
  ELSE [ok |-> TRUE, bits |-> mark[low]]

\* A field: every item of the list, refused as a whole when one is.
fpm_cron_parse_field(items, min, max) ==
  LET all == {fpm_cron_parse_item(it, min, max) : it \in items} IN
  IF items = {} \/ Bad \in all THEN Bad
  ELSE [ok |-> TRUE, bits |-> UNION {r.bits : r \in all}]

\* Day of week is read as 0-7, and 7 is Sunday too.
Weekdays(bits) == (bits \ {7}) \cup (IF 7 \in bits THEN {0} ELSE {})

\* Day of month and day of week: when both are restricted either is enough.
fpm_cron_schedule_matches_And(s, tm) ==
  /\ tm.min \in s.minute /\ tm.hour \in s.hour /\ tm.mon \in s.month
  /\ tm.mday \in s.mday /\ tm.wday \in s.wday
fpm_cron_schedule_matches(s, tm) ==
  /\ tm.min \in s.minute /\ tm.hour \in s.hour /\ tm.mon \in s.month
  /\ CASE s.mday_is_star /\ s.wday_is_star -> TRUE
       [] s.mday_is_star                   -> tm.wday \in s.wday
       [] s.wday_is_star                   -> tm.mday \in s.mday
       [] OTHER                            -> tm.mday \in s.mday \/ tm.wday \in s.wday

Horizon == Minute * (Cardinality(DOMAIN Calendar) - 1)
Never == -1

\* The search starts at the next full minute and looks at every minute.
fpm_cron_schedule_next_Same(s, after) ==
  LET from == (after + Minute - 1) \div Minute
      look[m \in 0 .. Cardinality(DOMAIN Calendar)] ==
        IF m >= Cardinality(DOMAIN Calendar) THEN Never
        ELSE IF fpm_cron_schedule_matches(s, Calendar[m + 1]) THEN m * Minute ELSE look[m + 1] IN
  look[from]
fpm_cron_schedule_next(s, after) ==
  LET from == after \div Minute + 1
      look[m \in 0 .. Cardinality(DOMAIN Calendar)] ==
        IF m >= Cardinality(DOMAIN Calendar) THEN Never
        ELSE IF fpm_cron_schedule_matches(s, Calendar[m + 1]) THEN m * Minute ELSE look[m + 1] IN
  look[from]

-----------------------------------------------------------------------------
(* The child                                                               *)

NoChild == [pc |-> "none", next |-> 0, slot |-> 0, term |-> FALSE, dog |-> -1]

CronInit ==
  /\ cron \in [conf : CronConfs, stop : {FALSE}, kills : {0}]
  /\ clock = 0
  /\ child = [NoChild EXCEPT !.pc = "boot"]
  /\ shared = [last |-> 0, running |-> FALSE, failures |-> 0, warned |-> FALSE, slot |-> 0]

CronAt(pc) == child.pc = pc

\* The due time and the delay on top of it, drawn once per run.
fpm_pool_cron_child_main ==
  /\ CronAt("boot")
  /\ LET n == fpm_cron_schedule_next(cron.conf.sched, clock) IN
     \E j \in 0 .. cron.conf.jitter :
       child' = IF n = Never THEN NoChild
                ELSE [child EXCEPT !.pc = "check", !.slot = n, !.next = n + j]
  /\ UNCHANGED <<cron, clock, shared>>

\* fpm_pool_cron_sleep_until(): the flag is looked at before the clock.
sleep_until_ClockFirst ==
  \/ /\ CronAt("check")
     /\ child' = IF clock >= child.next THEN [child EXCEPT !.pc = "due"]
                 ELSE IF child.term THEN NoChild ELSE [child EXCEPT !.pc = "sleep"]
     /\ UNCHANGED <<cron, clock, shared>>
  \/ /\ CronAt("sleep") /\ clock >= child.next
     /\ child' = [child EXCEPT !.pc = "check"]
     /\ UNCHANGED <<cron, clock, shared>>
sleep_until ==
  \/ /\ CronAt("check")
     /\ child' = IF child.term THEN NoChild
                 ELSE IF clock >= child.next THEN [child EXCEPT !.pc = "due"]
                 ELSE [child EXCEPT !.pc = "sleep"]
     /\ UNCHANGED <<cron, clock, shared>>
  \/ /\ CronAt("sleep") /\ clock >= child.next
     /\ child' = [child EXCEPT !.pc = "check"]
     /\ UNCHANGED <<cron, clock, shared>>

\* The watchdog of cron.timeout, the start time, then the script.
script_run ==
  /\ CronAt("due")
  /\ child' = [child EXCEPT !.pc = "run", !.dog = IF cron.conf.timeout > 0 THEN cron.conf.timeout ELSE -1]
  /\ shared' = [shared EXCEPT !.last = clock, !.running = TRUE, !.slot = child.slot]
  /\ UNCHANGED <<cron, clock>>

\* The script returns: the exit code and the failures in a row, then exit().
script_ended(ok) ==
  /\ CronAt("run")
  /\ shared' = [shared EXCEPT !.running = FALSE, !.failures = IF ok THEN 0 ELSE Min({@ + 1, 2})]
  /\ child' = NoChild
  /\ UNCHANGED <<cron, clock>>

\* SIGTERM or cron.stop_signal: only a flag.  It ends a sleep() it finds, and
\* is lost on a child that looked at the flag and is about to sleep.
fpm_pool_cron_sigterm(c) == [c EXCEPT !.term = TRUE, !.pc = IF @ = "sleep" THEN "check" ELSE @]

CronTold ==
  /\ child.pc \notin {"none"} /\ ~child.term /\ (cron.stop \/ cron.kills < MaxCronKills)
  /\ child' \in {fpm_pool_cron_sigterm(child),
                 IF CronAt("check") /\ clock < child.next
                 THEN [child EXCEPT !.term = TRUE, !.pc = "sleep"] ELSE fpm_pool_cron_sigterm(child)}
  /\ cron' = [cron EXCEPT !.kills = IF cron.stop THEN @ ELSE @ + 1]
  /\ UNCHANGED <<clock, shared>>

\* SIGKILL: cron.timeout, the escalation of a master that stops, or an outsider.
CronKilled_NoLast ==
  /\ ~CronAt("none")
  /\ child.dog = 0 \/ cron.kills < MaxCronKills
  /\ cron' = [cron EXCEPT !.kills = IF child.dog = 0 THEN @ ELSE @ + 1]
  /\ child' = NoChild
  /\ UNCHANGED <<clock, shared>>
CronKilled ==
  /\ ~CronAt("none")
  /\ child.dog = 0 \/ (cron.stop /\ child.term) \/ cron.kills < MaxCronKills
  /\ cron' = [cron EXCEPT !.kills = IF child.dog = 0 \/ (cron.stop /\ child.term) THEN @ ELSE @ + 1]
  /\ child' = NoChild
  /\ UNCHANGED <<clock, shared>>

-----------------------------------------------------------------------------
(* The master                                                              *)

\* A cron pool is static with one child: an exit is always replaced.
CronRespawn ==
  /\ CronAt("none") /\ ~cron.stop /\ clock < Horizon
  /\ child' = [NoChild EXCEPT !.pc = "boot"]
  /\ UNCHANGED <<cron, clock, shared>>

CronStop ==
  /\ ~cron.stop
  /\ cron' = [cron EXCEPT !.stop = TRUE]
  /\ UNCHANGED <<clock, child, shared>>

\* fpm_pool_cron_check_stale(): the run after the last start was due more than
\* cron.expect_within ago.
Stale(at) ==
  LET n == fpm_cron_schedule_next(cron.conf.sched, shared.last) IN
  cron.conf.within > 0 /\ shared.last # 0 /\ n # Never /\ at > n + cron.conf.within

\* The master's one-second timer warns once per episode.
check_stale_Idle ==
  /\ cron.conf.within > 0 /\ ~cron.stop
  /\ shared' = [shared EXCEPT !.warned = Stale(clock) /\ ~shared.running]
  /\ UNCHANGED <<cron, clock, child>>
check_stale ==
  /\ cron.conf.within > 0 /\ ~cron.stop
  /\ shared' = [shared EXCEPT !.warned = Stale(clock)]
  /\ UNCHANGED <<cron, clock, child>>

\* The clock.  It does not pass a cron.timeout without its SIGKILL.
CronTick ==
  /\ clock < Horizon /\ child.dog # 0
  /\ clock' = clock + 1
  /\ child' = [child EXCEPT !.dog = IF @ > 0 THEN @ - 1 ELSE @]
  /\ UNCHANGED <<cron, shared>>

CronDone == (clock = Horizon \/ cron.stop) /\ UNCHANGED cronvars

CronChildStep == fpm_pool_cron_child_main \/ sleep_until \/ script_run

CronNext ==
  \/ CronChildStep \/ CronTold \/ CronKilled \/ CronRespawn \/ CronStop
  \/ \E ok \in BOOLEAN : script_ended(ok)
  \/ check_stale \/ CronTick \/ CronDone

\* The child and the timers of the master run; a master that stops signals its
\* child and kills it in the end.  A script need not return.
CronFair ==
  /\ WF_cronvars(CronChildStep) /\ WF_cronvars(CronTick) /\ WF_cronvars(check_stale)
  /\ WF_cronvars(cron.stop /\ CronTold) /\ WF_cronvars(CronKilled /\ (child.dog = 0 \/ (cron.stop /\ child.term)))

-----------------------------------------------------------------------------
(* Properties                                                              *)

\* Types; and the parser gives a field exactly the numbers its notation means:
\* "n/step" runs to the end of the field, a plain "n" is one number, and a list
\* is refused as a whole when one item is out of range.
Items(min, max) ==
  [star : BOOLEAN, low : min .. max + 1, high : {-1} \cup min .. max + 1, step : {-1, 0, 1, 2, max + 1}]
Means(it, min, max) ==
  LET from == IF it.star THEN min ELSE it.low
      to == IF it.star \/ (it.high = -1 /\ it.step # -1) THEN max
            ELSE IF it.high = -1 THEN it.low ELSE it.high IN
  {v \in from .. to : it.step = -1 \/ (v - from) % it.step = 0}
Proper(it, min, max) ==
  /\ it.step # 0
  /\ it.star \/ (it.low \in min .. max /\ (it.high = -1 \/ it.high \in it.low .. max))
CronTypeOK ==
  /\ child.pc \in {"none", "boot", "check", "sleep", "due", "run"}
  /\ clock \in 0 .. Horizon /\ shared.last \in 0 .. Horizon
  /\ cron.conf.jitter > 0 /\ clock = 0 /\ CronAt("boot") =>
       \A it \in Items(0, 3), also \in {i \in Items(2, 3) : i.step # 1 /\ ~i.star} :
         LET r == fpm_cron_parse_field({it, also}, 0, 3) IN
         IF Proper(it, 0, 3) /\ Proper(also, 0, 3)
         THEN r = [ok |-> TRUE, bits |-> Means(it, 0, 3) \cup Means(also, 0, 3)]
         ELSE r = Bad

\* What a schedule means, as crontab(5) says it.
DueAt(m) ==
  LET s == cron.conf.sched
      tm == Calendar[m + 1]
      mday == tm.mday \in s.mday
      wday == tm.wday \in s.wday IN
  /\ tm.min \in s.minute /\ tm.hour \in s.hour /\ tm.mon \in s.month
  /\ IF s.mday_is_star \/ s.wday_is_star THEN mday /\ wday ELSE mday \/ wday
Minutes == 0 .. Cardinality(DOMAIN Calendar) - 1

\* No due minute is run twice: a child that is back in the same minute, or was
\* killed and replaced, only ever starts the script for a later one.
OncePerSlot == [][~CronAt("run") /\ child'.pc = "run" => child.slot > shared.slot]_cronvars

\* The due time is the first due minute after now: nothing that was missed is
\* caught up, nothing that is due is passed over, and a schedule without a due
\* time ends the child.
NextIsFirst ==
  [][CronAt("boot") /\ child'.pc = "check" =>
       /\ child'.slot > clock /\ DueAt(child'.slot \div Minute)
       /\ \A m \in Minutes : DueAt(m) /\ m * Minute > clock => m * Minute >= child'.slot]_cronvars

\* A child told to stop while it waits exits without running the script, also
\* when the signal came between its look at the flag and its sleep.
ToldSkipsRun == [][child.term /\ child.pc \in {"boot", "check", "sleep"} => child'.pc # "due"]_cronvars

\* The run after the last start is more than cron.expect_within late.
Late == /\ cron.conf.within > 0 /\ shared.last # 0
        /\ \E m \in Minutes : DueAt(m) /\ m * Minute > shared.last /\ clock > m * Minute + cron.conf.within

\* A pool that misses its next run, be it a run that hangs or a child that is
\* gone, is reported by the master's timer.
StaleNoticed == (Late /\ ~cron.stop) ~> (shared.warned \/ ~Late \/ cron.stop)

\* The warning is taken back when the pool runs again, so that the next episode
\* is reported too.
StaleEnds == (shared.warned /\ ~Late /\ ~cron.stop) ~> (~shared.warned \/ Late \/ cron.stop)

\* A master that stops ends its cron child: a sleep that missed the signal and a
\* script that does not return are ended by the escalation.
CronStops == cron.stop ~> CronAt("none")

\* A cron pool as a whole (fpm_pool_cron.c, fpm_cron_schedule.c): the child
\* waits for the first matching minute, runs once for it, and runs nothing once
\* it was told to stop.
CronSound == []CronTypeOK /\ OncePerSlot /\ NextIsFirst /\ ToldSkipsRun
=============================================================================
