------------------------------ MODULE MCServices ------------------------------
(***************************************************************************)
(* The services the master runs beside the workers.  "which" is the part   *)
(* that moves, the state of the others stays as it is:                     *)
(*   sup    a supervisor pool of two copies: a one-shot, a script that is  *)
(*          restarted on failure up to a limit that is fatal (with and     *)
(*          without a store buffer), and one that is always restarted;     *)
(*   surv   the copy of such a pool that a reload spares;                  *)
(*   cron   a cron pool over a calendar of seven minutes in which an hour  *)
(*          is repeated, with schedules that restrict the minute, the hour *)
(*          and either or both of the days;                                *)
(*   tls    the certificate of one gateway, issued up to three times.      *)
(* The names ending in Live choose the smaller instances on which          *)
(* MCServicesLive.cfg checks the liveness properties.                      *)
(***************************************************************************)
EXTENDS Supervisor, SurvivorHandoff, CronPool, TlsReload

VARIABLE which

SupBase == [restart |-> "always", restart_max |-> 0, delay |-> 1, dmax |-> 1, jitter |-> 0,
            fatal |-> FALSE, max_runtime |-> FALSE, max_memory |-> FALSE, tso |-> FALSE, kills |-> 0]
SupAlways == [SupBase EXCEPT !.restart_max = 3, !.max_memory = TRUE, !.max_runtime = TRUE]
SupOnce == [SupBase EXCEPT !.restart = "never", !.kills = 1, !.jitter = 1]
SupFatal == [SupBase EXCEPT !.restart = "on-failure", !.restart_max = 2, !.fatal = TRUE, !.kills = 1]
MCSupConfs == {SupAlways, SupOnce, SupFatal, [SupFatal EXCEPT !.tso = TRUE, !.kills = 0]}
SupLive == {[SupBase EXCEPT !.restart_max = 1], [SupOnce EXCEPT !.jitter = 0],
            [SupFatal EXCEPT !.restart_max = 1]}
SupBuffered == {[SupOnce EXCEPT !.tso = TRUE, !.kills = 0, !.jitter = 0], SupAlways}

MCSurvConfs == [daemon : BOOLEAN, fork : BOOLEAN]

Tm(mi, h, d, w) == [min |-> mi, hour |-> h, mday |-> d, mon |-> 1, wday |-> w]
MCCalendar == <<Tm(0, 0, 1, 5), Tm(1, 0, 1, 5), Tm(0, 0, 1, 5), Tm(1, 1, 1, 5),
                Tm(0, 0, 2, 6), Tm(1, 1, 2, 6), Tm(0, 0, 3, 0)>>
Sched(mi, h, d, dstar, w, wstar) ==
  [minute |-> mi, hour |-> h, mday |-> d, mday_is_star |-> dstar, month |-> {1}, wday |-> Weekdays(w), wday_is_star |-> wstar]
CronHourly == [sched |-> Sched({0}, {0, 1}, 1 .. 31, TRUE, 0 .. 7, TRUE), jitter |-> 1, timeout |-> 0, within |-> 1]
CronDays == [sched |-> Sched({0, 1}, {0}, 1 .. 31, TRUE, {6, 7}, FALSE), jitter |-> 0, timeout |-> 2, within |-> 1]
MCCronConfs ==
  {CronHourly, CronDays,
   [sched |-> Sched({0, 1}, {1}, 1 .. 31, TRUE, 0 .. 7, TRUE), jitter |-> 0, timeout |-> 2, within |-> 0],
   [sched |-> Sched({1}, {0, 1}, {1, 2}, FALSE, {6}, FALSE), jitter |-> 0, timeout |-> 0, within |-> 1]}
CronLive == {CronHourly, CronDays}

TlsBack == [wait |-> FALSE, back |-> TRUE]
TlsWaits == [wait |-> TRUE, back |-> FALSE]
MCTlsConfs == {TlsBack, TlsWaits}
TlsLive == {TlsBack, TlsWaits, [TlsBack EXCEPT !.back = FALSE]}

-----------------------------------------------------------------------------
servicesvars == <<which, supvars, survvars, cronvars, tlsvars>>

\* The parts that do not move, while w does.
StillBut(w) ==
  /\ UNCHANGED which
  /\ IF w = "sup" THEN TRUE ELSE UNCHANGED supvars
  /\ IF w = "surv" THEN TRUE ELSE UNCHANGED survvars
  /\ IF w = "cron" THEN TRUE ELSE UNCHANGED cronvars
  /\ IF w = "tls" THEN TRUE ELSE UNCHANGED tlsvars

\* The configuration of a part: any of S where it moves.
Among(w, S, x) == IF which = w THEN S ELSE {x}
AnOne(S) == CHOOSE x \in S : TRUE

ServicesInit ==
  /\ which \in {"sup", "surv", "cron", "tls"}
  /\ conf \in Among("sup", SupConfs, AnOne({c \in SupConfs : c.restart = "always"})) /\ SupInit
  /\ SurvInit /\ gen.conf \in Among("surv", SurvConfs, AnOne(SurvConfs))
  /\ CronInit /\ cron.conf \in Among("cron", CronConfs, CronDays)
  /\ tlsconf \in Among("tls", TlsConfs, TlsBack) /\ TlsInit

ServicesNext ==
  \/ which = "sup" /\ SupNext /\ StillBut("sup")
  \/ which = "surv" /\ SurvNext /\ StillBut("surv")
  \/ which = "cron" /\ CronNext /\ StillBut("cron")
  \/ which = "tls" /\ TlsNext /\ StillBut("tls")

ServicesSpec == ServicesInit /\ [][ServicesNext]_servicesvars

\* The fairness of the modules.  Only one of them moves in a behaviour, so that
\* one condition of each can share a conjunct.
Fairly(s, v, c, t) ==
  \/ which = "sup" /\ s /\ StillBut("sup")
  \/ which = "surv" /\ v /\ StillBut("surv")
  \/ which = "cron" /\ c /\ StillBut("cron")
  \/ which = "tls" /\ t /\ StillBut("tls")
ServicesFair ==
  /\ WF_servicesvars(Fairly(SlotStep(0), MasterStep, CronChildStep, TlsMasterStep))
  /\ WF_servicesvars(Fairly(SlotStep(1), SurvTick, CronTick, IssueRest))
  /\ WF_servicesvars(Fairly(sup.asked /\ MasterStops, FALSE, check_stale, \E g \in Gateways : GateStep(g)))
  /\ WF_servicesvars(Fairly(Second, FALSE, cron.stop /\ CronTold, FALSE))
  /\ WF_servicesvars(Fairly(FALSE, FALSE, CronKilled /\ (child.dog = 0 \/ (cron.stop /\ child.term)), FALSE))

ServicesFairSpec == ServicesSpec /\ ServicesFair


===============================================================================
