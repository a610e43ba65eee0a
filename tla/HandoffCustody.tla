--------------------------- MODULE HandoffCustody ---------------------------
(***************************************************************************)
(* What the handoff of a selective reload promises about each process: a   *)
(* worker is owned by the master, or carried from one master image to the  *)
(* next, or was told to exit.  A process that is none of the pool's        *)
(* workers ("foreign") is never owned, carried or told to exit.  Only the  *)
(* kill of a master leaves a worker to nobody, and not the workers a guard *)
(* watches: the guard tells them to exit.  One way out is not covered: a   *)
(* worker whose entry an allocation in the next master drops.              *)
(***************************************************************************)
CONSTANT Ids

VARIABLES standing, master

Standings == {"unborn", "foreign", "owned", "carried", "guarded", "dropped",
              "abandoned", "dismissed", "exited"}

\* what may become of a process while its master lives
Living(s) ==
    CASE s = "unborn"  -> {"unborn", "foreign", "owned"}
      [] s = "owned"   -> {"owned", "carried", "dismissed", "exited"}
      [] s = "carried" -> {"carried", "owned", "dismissed", "dropped", "exited"}
      [] OTHER         -> {s, "exited"}

\* what the kill of the master makes of it, if a guard watches the carried ones
Watched(s) ==
    CASE s = "owned"   -> {"abandoned", "guarded"}
      [] s = "carried" -> {"guarded"}
      [] OTHER         -> {s}

\* and if there is no guard
Unwatched(s) == IF s \in {"owned", "carried"} THEN {"abandoned"} ELSE {s}

\* what may become of it without a master
Alone(s) ==
    CASE s = "unborn"  -> {"unborn", "foreign"}
      [] s \in {"guarded", "dropped"} -> {s, "dismissed", "exited"}
      [] OTHER         -> {s, "exited"}

Serve ==
    /\ master = "alive" /\ master' = "alive"
    /\ \A i \in Ids : standing'[i] \in Living(standing[i])

\* a master that exits by itself leaves no worker behind
Leave ==
    /\ master = "alive" /\ master' = "exited"
    /\ standing' = standing
    /\ \A i \in Ids : standing[i] \notin {"owned", "carried"}

Kill ==
    /\ master = "alive" /\ master' = "killed"
    /\ \/ \A i \in Ids : standing'[i] \in Watched(standing[i])
       \/ \A i \in Ids : standing'[i] \in Unwatched(standing[i])

Outlive ==
    /\ master # "alive" /\ master' = master
    /\ \A i \in Ids : standing'[i] \in Alone(standing[i])

Init == master = "alive" /\ standing \in [Ids -> {"unborn", "owned"}]

Next ==
    /\ standing' \in [Ids -> Standings]
    /\ Serve \/ Leave \/ Kill \/ Outlive

Spec == Init /\ [][Next]_<<standing, master>>
=============================================================================
