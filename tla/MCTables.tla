------------------------------- MODULE MCTables -------------------------------
(***************************************************************************)
(* What processes hand to each other, and what they read out of it.        *)
(* "which" is the part that moves, the state of the others stays as it is: *)
(*   hand   the listeners of two gateway pools over reloads;               *)
(*   acme   two writers and a reader of the challenge answers;             *)
(*   parse  a reply of a target, cut into reads anywhere (ReplySamples);   *)
(*   slots  the metrics slots of two pools over reloads;                   *)
(*   store  the metrics calls of two workers;                              *)
(*   route  requests through a routing table (RouteSamples).               *)
(***************************************************************************)
EXTENDS ListenerHandoff, AcmeChallenge, ReplySamples, MetricSlots, MetricsStore, RouteSamples

CONSTANTS g1, g2, a1, a2, a3

VARIABLE which

Order == <<g1, g2>>
HandSetup == [listen : {a1, a2}, plain : {"none", a3}, tls : {"t1", "t2"}, wait : BOOLEAN, reuse : BOOLEAN]
HandValid(cf) ==
  /\ cf.gw[g1].listen # cf.gw[g2].listen
  /\ cf.gw[g2] = [listen |-> cf.gw[g2].listen, plain |-> "none", tls |-> "t1", wait |-> FALSE, reuse |-> FALSE]
  /\ cf.gw[g1].reuse => cf.gw[g1].tls = "t1" /\ ~cf.gw[g1].wait
  /\ cf.pool = a3 => cf.gw[g1].plain = "none"
HandConfs ==
  {[pool |-> cf.pool, gw |-> cf.gw] : cf \in {c \in [pool : {"none", a3}, gw : [{g1, g2} -> HandSetup]] : HandValid(c)}}
MCHandConfs == HandConfs

MCNames == <<"s", "a">>
MCSupPools == {"s"}
MCPlan(x, y) == [p \in {"s", "a"} |-> IF p = "s" THEN x ELSE y]
MCPlans == {MCPlan(1, 1), MCPlan(2, 1), MCPlan(0, 0)}

Registered(name, type, bk) == [fn |-> "register", name |-> name, tag |-> "def", type |-> type, bk |-> bk, x |-> 0]
Call(fn, name, tag, x) == [fn |-> fn, name |-> name, tag |-> tag, type |-> 0, bk |-> <<>>, x |-> x]
MsConf(mode, slots_, limit, max, kills, rebuckets, calls) ==
  [mode |-> mode, slots |-> slots_, limit |-> limit, max |-> max, kills |-> kills,
   rebuckets |-> rebuckets, calls |-> calls]
\* Counters at the limit and workers that are killed; gauges of both kinds and a
\* type conflict; histograms with one bucket set; the process-local store.
MCStoreConfs ==
  {MsConf("shm", 2, 1, 3, 1, FALSE, {Call("inc", "m", "plain", 1), Call("inc", "k", "plain", 2),
                                     Call("inc", "bad", "plain", 1), Call("inc", "m", "pool", 1)}),
   MsConf("shm", 2, 3, 2, 0, FALSE, {Registered("m", GaugeMax, <<>>), Call("set", "m", "plain", -1),
                                     Call("set", "m", "plain", 2), Call("inc", "m", "plain", 1), Call("set", "m", "x", 1)}),
   MsConf("shm", 2, 2, 3, 1, FALSE, {Registered("m", Histogram, <<1, 3>>), Call("observe", "m", "plain", 1),
                                     Call("observe", "m", "plain", 9)}),
   MsConf("local", 1, 2, 4, 0, TRUE, {Registered("m", Histogram, <<1, 3>>), Registered("m", Histogram, <<2>>),
                                      Call("observe", "m", "plain", 2), Registered("m", Counter, <<>>),
                                      Call("inc", "m", "plain", 1), Call("inc", "m", "x", 1)})}
\* Two workers that register one histogram with different buckets.
StoreBitten ==
  {MsConf("shm", 2, 2, 3, 0, FALSE, {Registered("m", Histogram, <<1>>), Registered("m", Histogram, <<2, 3>>),
                                     Call("observe", "m", "plain", 1)})}
MCDefaultBuckets == <<1, 2>>

-----------------------------------------------------------------------------
tablesvars == <<which, handvars, acmevars, parvars, mxvars, msvars, rtvars>>

\* The parts that do not move, while w does.
StillBut(w) ==
  /\ UNCHANGED which
  /\ IF w = "hand" THEN TRUE ELSE UNCHANGED handvars
  /\ IF w = "acme" THEN TRUE ELSE UNCHANGED acmevars
  /\ IF w = "parse" THEN TRUE ELSE UNCHANGED parvars
  /\ IF w = "slots" THEN TRUE ELSE UNCHANGED mxvars
  /\ IF w = "store" THEN TRUE ELSE UNCHANGED msvars
  /\ IF w = "route" THEN TRUE ELSE UNCHANGED rtvars

\* The configuration of a part: any of S where it moves.
Among(w, S, x) == IF which = w THEN S ELSE {x}
AnOne(S) == CHOOSE x \in S : TRUE

TablesInit ==
  /\ which \in {"hand", "acme", "parse", "slots", "store", "route"}
  /\ setup \in Among("hand", Confs, AnOne(Confs)) /\ HandInit
  /\ AcmeInit
  /\ cfg \in Among("route", RtConfs, Base) /\ RtInit
  /\ MsInit /\ ms.conf \in Among("store", StoreConfs, AnOne(StoreConfs))
  /\ MxInit /\ mx.plan \in Among("slots", Plans, MCPlan(0, 0))
  /\ ParInit /\ par.dialogue \in Among("parse", Dialogues, AnOne(Dialogues))

TablesNext ==
  \/ which = "hand" /\ HandNext /\ StillBut("hand")
  \/ which = "acme" /\ AcmeNext /\ StillBut("acme")
  \/ which = "parse" /\ ParNext /\ StillBut("parse")
  \/ which = "slots" /\ MxNext /\ StillBut("slots")
  \/ which = "store" /\ MsNext /\ StillBut("store")
  \/ which = "route" /\ RtNext /\ StillBut("route")

TablesSpec == TablesInit /\ [][TablesNext]_tablesvars
===============================================================================
