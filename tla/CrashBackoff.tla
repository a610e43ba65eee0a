---------------------------- MODULE CrashBackoff ----------------------------
(***************************************************************************)
(* The crash backoff of one pool (fpm_crash_backoff.c): the streak of fast *)
(* failures, the wait before the next respawn, the gate timer that ends    *)
(* the wait and the survive timer that ends the streak.  One operator per  *)
(* C function, from the pool's entry to its next value.                    *)
(*                                                                         *)
(* A time is what is left of it, in ticks of the clock: fpm_clock_get() is *)
(* monotonic and the code only compares and subtracts.                     *)
(***************************************************************************)
EXTENDS Integers

CONSTANTS WINDOW,       \* FPM_CRASH_BACKOFF_WINDOW_S
          SECOND,       \* the first window of a delay, 1000 ms
          CAP,          \* FPM_CRASH_BACKOFF_CAP_MS
          MaxFailures   \* pm.max_consecutive_failures, 0 for never

ASSUME CrashBackoffAssumption ==
  /\ WINDOW \in Nat \ {0}
  /\ SECOND \in Nat \ {0, 1}     \* half of a window is not zero
  /\ CAP \in Nat \ {0, 1}
  /\ MaxFailures \in Nat

Unset == -1

(* shown: respawn_delay_ms > 0, the wait the operator endpoint reports.    *)
(* next: next_spawn.  armed and due: gate_armed and gate_due; queued is    *)
(* whether the event loop has the gate timer, with the deadline due.       *)
(* survive: what is left of the survive timer, Unset when it is not queued.*)
Entry == [failures : Nat,
          gave_up  : BOOLEAN,
          shown    : BOOLEAN,
          next     : {Unset} \cup (0 .. CAP),
          armed    : BOOLEAN,
          queued   : BOOLEAN,
          due      : 0 .. CAP,
          survive  : {Unset} \cup (0 .. WINDOW)]

fpm_crash_backoff_init ==
  [failures |-> 0, gave_up |-> FALSE, shown |-> FALSE, next |-> Unset,
   armed |-> FALSE, queued |-> FALSE, due |-> 0, survive |-> Unset]

\* A delay is drawn from the upper half of its window (the jitter).
UpperHalf(w) == (w \div 2) .. w

Shift == <<1, 2, 4, 8, 16, 32, 64>>

fpm_crash_backoff_delay_ms(failures, gave_up) ==
  LET shift  == IF failures - 1 > 7 THEN 7 ELSE failures - 1
      window == SECOND * Shift[shift]
  IN IF gave_up THEN UpperHalf(CAP)
     ELSE IF failures < 2 THEN {0}
     ELSE UpperHalf(IF window > CAP THEN CAP ELSE window)

fpm_crash_backoff_clear(e) ==
  [e EXCEPT !.failures = 0, !.gave_up = FALSE, !.shown = FALSE, !.next = Unset]

GivesUp(e) == e.gave_up \/ (MaxFailures > 0 /\ e.failures + 1 >= MaxFailures)

\* The entry after a fast failure, one for each delay that may be drawn.
FastFailure(e) ==
  {[e EXCEPT !.failures = @ + 1, !.gave_up = GivesUp(e),
             !.shown = d > 0, !.next = d] :
     d \in fpm_crash_backoff_delay_ms(e.failures + 1, GivesUp(e))}

fpm_crash_backoff_child_exited(e, served, life) ==
  IF served \/ life >= WINDOW THEN {fpm_crash_backoff_clear(e)}
                              ELSE FastFailure(e)

\* Mutant: what is left of the wait is rounded down.
GateOpen_Early(e) == e.next <= 1

\* Mutant: a pool that gave up spawns no more.
GateOpen_GaveUp(e) == e.next <= 0 /\ ~e.gave_up

\* fpm_crash_backoff_may_spawn() returns 1.
GateOpen(e) == e.next <= 0

\* fpm_event_add() queues the timer, or moves the queued one.
AddGate(e) == [e EXCEPT !.armed = TRUE, !.queued = TRUE, !.due = e.next]

\* Mutant: a queued timer is never moved to a shorter deadline.
fpm_crash_backoff_may_spawn_NotEarlier(e) ==
  IF GateOpen(e) THEN [e EXCEPT !.next = Unset]
  ELSE IF ~e.armed THEN AddGate(e)
  ELSE e

fpm_crash_backoff_may_spawn(e) ==
  IF GateOpen(e) THEN [e EXCEPT !.next = Unset]
  ELSE IF ~e.armed \/ e.next < e.due
       THEN AddGate(e) ELSE e

\* Mutant: the operator endpoint goes on reporting the wait.
fpm_crash_backoff_child_spawned_Shown(e) ==
  [e EXCEPT !.survive = IF e.failures > 0 THEN WINDOW ELSE @]

fpm_crash_backoff_child_spawned(e) ==
  [e EXCEPT !.shown   = FALSE,
            !.survive = IF e.failures > 0 THEN WINDOW ELSE @]

Less(t) == IF t > 0 THEN t - 1 ELSE t

\* One tick of the clock.  A timer that is due stays due until it fires.
Clock(e) ==
  [e EXCEPT !.next = Less(@), !.due = Less(@), !.survive = Less(@)]
=============================================================================
