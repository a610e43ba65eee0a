--------------------------- MODULE MCPoolManager ---------------------------
(***************************************************************************)
(* Instances of PoolManager for TLC: one pool section for each pm.  The    *)
(* clock has a coarse tick: a delay window of two ticks, a cap of four and *)
(* a survival window of two, so that the delays double, reach the cap, and *)
(* are drawn longer and shorter than the survival window.                  *)
(***************************************************************************)
EXTENDS PoolManager

Conf(pm, children, drains, slowlog, stop, most) ==
  [pm |-> pm, max_children |-> children, start_servers |-> 1,
   min_spare_servers |-> 1, max_spare_servers |-> 1, max_spawn_rate |-> 2,
   process_idle_timeout |-> 1, drains |-> drains,
   read_timeout |-> IF drains THEN 2 ELSE 0, slowlog |-> slowlog,
   may_stop |-> stop, crowded |-> FALSE, max_crashes |-> most]

Static   == Conf("static", 2, FALSE, TRUE, FALSE, 5)
Stopped  == Conf("static", 2, FALSE, FALSE, TRUE, 2)
Dynamic  == Conf("dynamic", 3, TRUE, FALSE, FALSE, 0)
Crashing == Conf("dynamic", 2, TRUE, FALSE, FALSE, 2)
Ondemand == Conf("ondemand", 2, FALSE, FALSE, FALSE, 2)

\* Pools that share process.max with others.
Shared == {[c EXCEPT !.crowded = TRUE, !.max_crashes = 2] : c \in {Static, Crashing, Ondemand}}

EveryPM == {Static, Stopped, Dynamic, Crashing, Ondemand} \cup Shared
=============================================================================
