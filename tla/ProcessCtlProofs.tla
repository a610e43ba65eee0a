-------------------------- MODULE ProcessCtlProofs --------------------------
(***************************************************************************)
(* Proofs of the safety properties of ProcessCtl, for any set of pools,    *)
(* children and gateways.  The properties are not inductive one by one:    *)
(* what a pass may send depends on what the window held, which depends on  *)
(* how the stop began, and on no process being in two lists.  Inv is their *)
(* common strengthening, a predicate of the master's memory m and of the   *)
(* process table pr; each operator of ProcessCtl gets a lemma about what   *)
(* it does to Inv.                                                         *)
(***************************************************************************)
EXTENDS ProcessCtl, TLAPS

\* Leaves go to Zenon unless they name another prover.
USE ZenonT(30)

PlanType == [spared : SUBSET Pools, lost : SUBSET Pools, survivors : SUBSET Pids]

\* A plan as Plans(m) offers it.
PlanFits(m, plan) ==
  /\ plan \in PlanType
  /\ plan.lost \cap plan.spared = {}
  /\ plan.survivors \subseteq Linked(m)
  /\ \A p \in plan.spared \cup plan.lost : plan.survivors \cap m.children[p] = {}

\* No process has two owners (the part of OneOwner that the memory shows).
Owners(m) ==
  /\ \A p, q \in Pools : p # q => m.children[p] \cap m.children[q] = {}
  /\ Linked(m) \cap (Carried(m) \cup m.survivors) = {}
  /\ Carried(m) \cap m.survivors = {}

\* Before a stop no pass signalled anybody and nothing is held.
Calm(m) ==
  m.state = "NORMAL" =>
    /\ m.run = "loop" /\ m.signal_sent = "none" /\ m.held = "none"
    /\ ~m.escalated /\ ~m.timer
    /\ Carried(m) = {} /\ m.survivors = {}
    /\ \A c \in Linked(m) : m.sent[c] = {}

\* A signal is held only in the loop and for a live gateway.
Held(m) ==
  m.held # "none" =>
    /\ m.run = "loop" /\ m.state # "NORMAL" /\ ~m.escalated
    /\ m.signal_sent = m.held
    /\ fpm_http_ready_gateways_alive(m)
    /\ \A p \in Routed : \A c \in m.children[p] : m.sent[c] = {}

Timed(m) == m.run = "loop" /\ m.state # "NORMAL" => m.timer

Told(m) ==
  m.run = "loop" /\ m.state # "NORMAL" =>
    /\ m.signal_sent # "none"
    /\ \A p \in Pools : \A c \in m.children[p] :
         \/ m.held # "none" /\ p \in Routed
         \/ ChildSignal(m, p, m.signal_sent) \in m.sent[c]

Spared(m) ==
  /\ m.run # "loop" => Linked(m) = {}
  /\ m.run # "exited" /\ m.state = "RELOADING" => \A c \in Carried(m) : m.sent[c] = {}
  /\ m.run = "exited" \/ (m.run # "loop" /\ m.state # "RELOADING") => Carried(m) = {}
  /\ m.run = "exited" /\ m.state = "RELOADING" => \A c \in m.survivors : m.sent[c] # {}

\* Every running process is owned or was asked to stop, and the lists only
\* name processes that were not reaped.
Accounted(m, pr) ==
  /\ \A c \in Linked(m) : pr[c] # "free"
  /\ \A c \in Pids : pr[c] = "run" =>
       c \in Linked(m) \cup Carried(m) \cup m.survivors \/ m.sent[c] # {}

Inv(m, pr) ==
  /\ m \in Master
  /\ pr \in [Pids -> ProcStates]
  /\ Owners(m) /\ Calm(m) /\ Held(m) /\ Timed(m) /\ Told(m) /\ Spared(m)
  /\ Accounted(m, pr)

IInv == Inv(pctl, proc) /\ gw \in [Gateways -> GwStates]

-----------------------------------------------------------------------------
(* Lemmas about the operators. *)

\* Every plan that Plans(m) offers fits m (fpm_reload_selective_spare_pool,
\* reload_spare_child), and so does the empty plan.
LEMMA PlansFit ==
  ASSUME NEW m \in Master
  PROVE  /\ PlanFits(m, NoPlan)
         /\ \A plan \in Plans(m) : PlanFits(m, plan)
<1>1. PlanFits(m, NoPlan)
  BY DEF PlanFits, PlanType, NoPlan
<1>2. ASSUME NEW plan \in Plans(m) PROVE PlanFits(m, plan)
  <2>1. /\ plan.spared \in SUBSET Pools
        /\ plan.lost \in SUBSET Pools
        /\ plan.survivors \subseteq Linked(m)
        /\ plan.lost \subseteq Pools \ plan.spared
        /\ \A p \in Pools : p \in plan.spared \cup plan.lost =>
                              plan.survivors \cap m.children[p] = {}
        /\ plan = [spared |-> plan.spared, lost |-> plan.lost, survivors |-> plan.survivors]
    BY ProcessCtlAssumption, SMT DEF Plans, Linked, Master
  <2>2. Linked(m) \subseteq Pids
    BY SMT DEF Linked, Master
  <2>. QED BY <2>1, <2>2 DEF PlanFits, PlanType
<1>. QED BY <1>1, <1>2

\* What a signal pass leaves in each field of the memory.
PassResult(m, signo, plan, mode, n) ==
  /\ n \in Master
  /\ n.run = m.run /\ n.state = m.state /\ n.signal_sent = m.signal_sent
  /\ n.escalated = m.escalated /\ n.timer = m.timer /\ n.gwpids = m.gwpids
  /\ n.held = IF HeldPools(m, plan, mode) # {} THEN signo
              ELSE IF m.signal_sent = "none" THEN "none" ELSE m.held
  /\ n.children = [p \in Pools |-> Left(m, plan, p)]
  /\ n.carried = [p \in Pools |-> IF p \in plan.spared
                    THEN m.carried[p] \cup m.children[p] ELSE m.carried[p]]
  /\ n.survivors = m.survivors \cup plan.survivors
  /\ \A c \in Pids : m.sent[c] \subseteq n.sent[c]
  /\ \A p \in Pools \ SkippedPools(m, plan, mode) : \A c \in Left(m, plan, p) :
       ChildSignal(m, p, signo) \in n.sent[c]
  /\ \A p \in plan.lost : \A c \in m.children[p] : n.sent[c] # {}
  /\ \A c \in Pids :
       (\A p \in Pools \ SkippedPools(m, plan, mode) : c \notin Left(m, plan, p)) /\
       (\A p \in plan.lost : c \notin m.children[p]) => n.sent[c] = m.sent[c]

\* fpm_pctl_kill_all() does what PassResult says.
LEMMA KillAllFields ==
  ASSUME NEW m \in Master, NEW signo \in Signals, NEW plan, PlanFits(m, plan),
         NEW mode \in {"pass", "release"}
  PROVE  PassResult(m, signo, plan, mode, fpm_pctl_kill_all(m, signo, plan, mode))
<1> DEFINE n    == fpm_pctl_kill_all(m, signo, plan, mode)
           hold == HeldPools(m, plan, mode)
           skip == SkippedPools(m, plan, mode)
           told(c) == {ChildSignal(m, p, signo) : p \in {q \in Pools \ skip : c \in Left(m, plan, q)}}
           lost(c) == {"TERM" : p \in {q \in plan.lost : c \in m.children[q]}}
<1>1. n = [m EXCEPT
        !.held      = IF hold # {} THEN signo
                      ELSE IF m.signal_sent = "none" THEN "none" ELSE m.held,
        !.children  = [p \in Pools |-> Left(m, plan, p)],
        !.carried   = [p \in Pools |-> IF p \in plan.spared
                                       THEN m.carried[p] \cup m.children[p] ELSE m.carried[p]],
        !.survivors = m.survivors \cup plan.survivors,
        !.sent      = [c \in Pids |-> m.sent[c] \cup told(c) \cup lost(c)]]
  BY DEF fpm_pctl_kill_all
<1>2. \A c : told(c) \subseteq Signals /\ lost(c) \subseteq Signals
  BY DEF ChildSignal, Signals
<1>3. [p \in Pools |-> Left(m, plan, p)] \in [Pools -> SUBSET Pids]
  BY DEF Left, Master
<1>4. [p \in Pools |-> IF p \in plan.spared THEN m.carried[p] \cup m.children[p]
                       ELSE m.carried[p]] \in [Pools -> SUBSET Pids]
  BY DEF Master
<1>5. [c \in Pids |-> m.sent[c] \cup told(c) \cup lost(c)] \in [Pids -> SUBSET Signals]
  <2>1. m.sent \in [Pids -> SUBSET Signals]
    BY DEF Master
  <2>. HIDE DEF told, lost
  <2>. QED BY <2>1, <1>2
<1>6. m.survivors \cup plan.survivors \in SUBSET Pids
  BY DEF Master, PlanFits, PlanType
<1>7. n \in Master
  <2> DEFINE held  == IF hold # {} THEN signo
                      ELSE IF m.signal_sent = "none" THEN "none" ELSE m.held
             kids  == [p \in Pools |-> Left(m, plan, p)]
             carry == [p \in Pools |-> IF p \in plan.spared
                                       THEN m.carried[p] \cup m.children[p] ELSE m.carried[p]]
             stay  == m.survivors \cup plan.survivors
             sent  == [c \in Pids |-> m.sent[c] \cup told(c) \cup lost(c)]
  <2>1. held \in Signals \cup {"none"}
    <3>. HIDE DEF hold
    <3>. QED BY DEF Master
  <2>2. n = [m EXCEPT !.held = held, !.children = kids, !.carried = carry,
                      !.survivors = stay, !.sent = sent]
    BY <1>1
  <2>3. /\ kids \in [Pools -> SUBSET Pids] /\ carry \in [Pools -> SUBSET Pids]
        /\ stay \in SUBSET Pids /\ sent \in [Pids -> SUBSET Signals]
    BY <1>3, <1>4, <1>5, <1>6
  <2>. HIDE DEF held, kids, carry, stay, sent, n
  <2>. QED BY <2>1, <2>2, <2>3 DEF Master
<1>8. \A c \in Pids : n.sent[c] = m.sent[c] \cup told(c) \cup lost(c)
  <2>. HIDE DEF told, lost, hold, n
  <2>. QED BY <1>1 DEF Master
<1>9. /\ n.run = m.run /\ n.state = m.state /\ n.signal_sent = m.signal_sent
      /\ n.escalated = m.escalated /\ n.timer = m.timer /\ n.gwpids = m.gwpids
      /\ n.held = IF hold # {} THEN signo
                        ELSE IF m.signal_sent = "none" THEN "none" ELSE m.held
      /\ n.children = [p \in Pools |-> Left(m, plan, p)]
      /\ n.carried = [p \in Pools |-> IF p \in plan.spared
                        THEN m.carried[p] \cup m.children[p] ELSE m.carried[p]]
      /\ n.survivors = m.survivors \cup plan.survivors
  <2>. HIDE DEF told, lost, hold, n
  <2>. QED BY <1>1 DEF Master
<1>10. \A p \in Pools \ skip : \A c \in Left(m, plan, p) : ChildSignal(m, p, signo) \in told(c)
  OBVIOUS
<1>11. \A p \in plan.lost : \A c \in m.children[p] : "TERM" \in lost(c)
  OBVIOUS
<1>12. \A c : (\A p \in Pools \ skip : c \notin Left(m, plan, p)) => told(c) = {}
  OBVIOUS
<1>13. \A c : (\A p \in plan.lost : c \notin m.children[p]) => lost(c) = {}
  OBVIOUS
<1>14. \A p \in Pools : Left(m, plan, p) \subseteq Pids /\ m.children[p] \subseteq Pids
  BY DEF Left, Master
<1>15. plan.lost \subseteq Pools
  BY DEF PlanFits, PlanType
<1>. HIDE DEF n, told, lost, hold, skip
<1>16. /\ \A p \in Pools \ skip : \A c \in Left(m, plan, p) : ChildSignal(m, p, signo) \in n.sent[c]
       /\ \A p \in plan.lost : \A c \in m.children[p] : n.sent[c] # {}
       /\ \A c \in Pids : m.sent[c] \subseteq n.sent[c]
  BY <1>8, <1>10, <1>11, <1>14, <1>15
<1>17. \A c \in Pids :
                 (\A p \in Pools \ skip : c \notin Left(m, plan, p)) /\
                 (\A p \in plan.lost : c \notin m.children[p]) => n.sent[c] = m.sent[c]
  BY <1>8, <1>12, <1>13
<1>. QED BY <1>7, <1>9, <1>16, <1>17 DEF PassResult, n, hold, skip

\* What the discard of the carried children leaves in each field.
LEMMA DiscardFields ==
  ASSUME NEW m \in Master
  PROVE  LET n == Discard(m)
         IN /\ n \in Master
            /\ n.run = m.run /\ n.state = m.state /\ n.signal_sent = m.signal_sent
            /\ n.escalated = m.escalated /\ n.timer = m.timer /\ n.gwpids = m.gwpids
            /\ n.held = m.held /\ n.children = m.children /\ n.survivors = m.survivors
            /\ Linked(n) = Linked(m) /\ Carried(n) = {}
            /\ \A c \in Pids : m.sent[c] \subseteq n.sent[c]
            /\ \A c \in Carried(m) : n.sent[c] # {}
<1> DEFINE n == Discard(m)
           sent == [c \in Pids |-> IF c \in Carried(m) THEN m.sent[c] \cup {"TERM"} ELSE m.sent[c]]
<1>1. n = [m EXCEPT !.sent = sent, !.carried = [p \in Pools |-> {}]]
  BY DEF Discard
<1>2. sent \in [Pids -> SUBSET Signals]
  BY DEF Master, Signals
<1>3. n \in Master
  <2>. HIDE DEF sent
  <2>. QED BY <1>1, <1>2 DEF Master
<1>4. /\ n.run = m.run /\ n.state = m.state /\ n.signal_sent = m.signal_sent
      /\ n.escalated = m.escalated /\ n.timer = m.timer /\ n.gwpids = m.gwpids
      /\ n.held = m.held /\ n.children = m.children /\ n.survivors = m.survivors
      /\ n.sent = sent /\ n.carried = [p \in Pools |-> {}]
  <2>. HIDE DEF sent
  <2>. QED BY <1>1 DEF Master
<1>5. Carried(m) \subseteq Pids
  BY SMT DEF Carried, Master
<1>. HIDE DEF n
<1>6. Linked(n) = Linked(m) /\ Carried(n) = {}
  BY <1>4, SMT DEF Linked, Carried
<1>. QED BY <1>3, <1>4, <1>5, <1>6 DEF n

\* What a failed exec leaves in each field.
LEMMA ExecFailedFields ==
  ASSUME NEW m \in Master
  PROVE  LET n == ExecFailed(m)
         IN /\ n \in Master
            /\ n.run = "exited" /\ n.state = m.state /\ n.held = m.held
            /\ n.children = m.children /\ n.survivors = m.survivors
            /\ Carried(n) = {}
            /\ \A c \in Pids : m.sent[c] \subseteq n.sent[c]
            /\ \A c \in Carried(m) \cup m.survivors : n.sent[c] # {}
<1> DEFINE d == Discard(m)
           n == ExecFailed(m)
           sent == [c \in Pids |-> IF c \in m.survivors THEN d.sent[c] \cup {"TERM"} ELSE d.sent[c]]
<1>1. /\ d \in Master /\ d.state = m.state /\ d.held = m.held
      /\ d.children = m.children /\ d.survivors = m.survivors /\ Carried(d) = {}
      /\ \A c \in Pids : m.sent[c] \subseteq d.sent[c]
      /\ \A c \in Carried(m) : d.sent[c] # {}
  BY DiscardFields
<1>2. n = [d EXCEPT !.run = "exited", !.sent = sent]
  BY DEF ExecFailed
<1>. HIDE DEF d
<1>3. sent \in [Pids -> SUBSET Signals]
  BY <1>1 DEF Master, Signals
<1>4. /\ n \in Master /\ n.run = "exited" /\ n.sent = sent /\ n.carried = d.carried
      /\ n.state = d.state /\ n.held = d.held
      /\ n.children = d.children /\ n.survivors = d.survivors
  <2>. HIDE DEF sent, n
  <2>. QED BY <1>1, <1>2, <1>3 DEF Master
<1>5. Carried(m) \cup m.survivors \subseteq Pids
  BY SMT DEF Carried, Master
<1>6. Carried(n) = {}
  BY <1>1, <1>4, SMT DEF Carried
<1>7. /\ \A c \in Pids : m.sent[c] \subseteq n.sent[c]
      /\ \A c \in Carried(m) \cup m.survivors : n.sent[c] # {}
  <2>. HIDE DEF n
  <2>. QED BY <1>1, <1>4, <1>5, SMT
<1>. QED BY <1>1, <1>4, <1>6, <1>7

\* fpm_pctl_action_last() returns only while a window is open (or in NORMAL
\* state); otherwise it ends the loop and keeps the invariant.
LEMMA LastInv ==
  ASSUME NEW m \in Master, NEW pr \in [Pids -> ProcStates],
         m.run = "loop", m.state # "NORMAL", Linked(m) = {},
         m.held # "none" => fpm_http_ready_gateways_alive(m),
         Owners(m), Spared(m), Accounted(m, pr)
  PROVE  LET n == fpm_pctl_action_last(m)
         IN /\ n.run = "loop" => n = m
            /\ n.run # "loop" => Inv(n, pr)
<1> DEFINE n == fpm_pctl_action_last(m)
<1>1. CASE fpm_pctl_window_open(m)
  BY <1>1 DEF fpm_pctl_action_last
<1>2. CASE ~fpm_pctl_window_open(m) /\ m.state = "RELOADING"
  <2>1. n = [m EXCEPT !.run = "finish"]
    BY <1>2 DEF fpm_pctl_action_last
  <2>2. /\ n \in Master /\ n.run = "finish" /\ n.state = m.state /\ n.held = m.held
        /\ n.children = m.children /\ n.carried = m.carried /\ n.sent = m.sent
        /\ n.survivors = m.survivors
    BY <2>1 DEF Master
  <2>3. m.held = "none"
    BY <1>2 DEF fpm_pctl_window_open
  <2>. HIDE DEF n
  <2>4. Linked(n) = {} /\ Carried(n) = Carried(m)
    BY <2>2, SMT DEF Linked, Carried
  <2>5. Owners(n) /\ Calm(n) /\ Held(n) /\ Timed(n) /\ Told(n)
    BY <2>2, <2>3, <2>4 DEF Owners, Calm, Held, Timed, Told
  <2>6. Spared(n) /\ Accounted(n, pr)
    BY <1>2, <2>2, <2>4 DEF Spared, Accounted
  <2>. QED BY <2>2, <2>5, <2>6 DEF Inv, n
<1>3. CASE ~fpm_pctl_window_open(m) /\ m.state # "RELOADING"
  <2> DEFINE d == Discard(m)
  <2>1. n = [d EXCEPT !.run = "finish"]
    BY <1>3 DEF fpm_pctl_action_last
  <2>2. /\ d \in Master /\ d.state = m.state /\ d.held = m.held /\ d.children = m.children
        /\ d.survivors = m.survivors /\ Carried(d) = {}
        /\ \A c \in Pids : m.sent[c] \subseteq d.sent[c]
        /\ \A c \in Carried(m) : d.sent[c] # {}
    BY DiscardFields
  <2>. HIDE DEF d
  <2>3. /\ n \in Master /\ n.run = "finish" /\ n.state = m.state /\ n.held = m.held
        /\ n.children = m.children /\ n.carried = d.carried /\ n.sent = d.sent
        /\ n.survivors = m.survivors
    BY <2>1, <2>2, SMTT(30) DEF Master
  <2>4. m.held = "none"
    BY <1>3 DEF fpm_pctl_window_open
  <2>. HIDE DEF n
  <2>5. Linked(n) = {} /\ Carried(n) = {}
    BY <2>2, <2>3, SMT DEF Linked, Carried
  <2>6. Owners(n) /\ Calm(n) /\ Held(n) /\ Timed(n) /\ Told(n)
    BY <2>2, <2>3, <2>4, <2>5 DEF Owners, Calm, Held, Timed, Told
  <2>7. Spared(n)
    BY <2>3, <2>5 DEF Spared
  <2>8. Accounted(n, pr)
    BY <2>2, <2>3, <2>5 DEF Accounted
  <2>. QED BY <2>3, <2>6, <2>7, <2>8 DEF Inv, n
<1>. QED BY <1>1, <1>2, <1>3

\* A pass with deferred = FALSE (the second half of fpm_pctl_action_next):
\* either the first pass of a stop, or an escalation after the window.
LEMMA PassInv ==
  ASSUME NEW m \in Master, NEW pr \in [Pids -> ProcStates], NEW plan,
         m.run = "loop", m.state # "NORMAL", PlanFits(m, plan),
         Owners(m), Spared(m), Accounted(m, pr),
         m.signal_sent # "none" => m.held = "none" /\ plan = NoPlan,
         plan.spared = {} \/ \A c \in Linked(m) : m.sent[c] = {},
         m.signal_sent # "none" \/ m.escalated \/ \A c \in Linked(m) : m.sent[c] = {}
  PROVE  Inv([fpm_pctl_kill_all(m, NextSignal(m), plan, "pass")
                EXCEPT !.signal_sent = NextSignal(m), !.timer = TRUE], pr)
<1> DEFINE sig  == NextSignal(m)
           k    == fpm_pctl_kill_all(m, sig, plan, "pass")
           n    == [k EXCEPT !.signal_sent = sig, !.timer = TRUE]
           hold == HeldPools(m, plan, "pass")
           skip == SkippedPools(m, plan, "pass")
<1>1. sig \in Signals
  BY DEF NextSignal, Signals
<1>2. /\ k \in Master
      /\ k.run = m.run /\ k.state = m.state
      /\ k.escalated = m.escalated /\ k.gwpids = m.gwpids
      /\ k.held = IF hold # {} THEN sig
                  ELSE IF m.signal_sent = "none" THEN "none" ELSE m.held
      /\ k.children = [p \in Pools |-> Left(m, plan, p)]
      /\ k.carried = [p \in Pools |-> IF p \in plan.spared
                        THEN m.carried[p] \cup m.children[p] ELSE m.carried[p]]
      /\ k.survivors = m.survivors \cup plan.survivors
      /\ \A c \in Pids : m.sent[c] \subseteq k.sent[c]
      /\ \A p \in Pools \ skip : \A c \in Left(m, plan, p) :
           ChildSignal(m, p, sig) \in k.sent[c]
      /\ \A p \in plan.lost : \A c \in m.children[p] : k.sent[c] # {}
      /\ \A c \in Pids :
           (\A p \in Pools \ skip : c \notin Left(m, plan, p)) /\
           (\A p \in plan.lost : c \notin m.children[p]) => k.sent[c] = m.sent[c]
  <2>1. PassResult(m, sig, plan, "pass", k)
    <3>. HIDE DEF sig
    <3>. QED BY <1>1, KillAllFields
  <2>. HIDE DEF k, sig, n
  <2>. QED BY <2>1 DEF PassResult
<1>. HIDE DEF k, sig
<1>3. /\ n \in Master
      /\ n.run = "loop" /\ n.state = m.state /\ n.signal_sent = sig /\ n.timer
      /\ n.escalated = m.escalated /\ n.gwpids = m.gwpids /\ n.held = k.held
      /\ n.children = k.children /\ n.carried = k.carried
      /\ n.survivors = k.survivors /\ n.sent = k.sent
  BY <1>1, <1>2 DEF Master, Signals
<1>. HIDE DEF n, hold, skip
<1>31. \A p \in Pools : n.children[p] = Left(m, plan, p)
  <2>1. n.children = [p \in Pools |-> Left(m, plan, p)]
    BY <1>2, <1>3
  <2>. QED BY <2>1
<1>32. /\ \A p \in plan.spared : n.carried[p] = m.carried[p] \cup m.children[p]
       /\ \A p \in Pools \ plan.spared : n.carried[p] = m.carried[p]
       /\ plan.spared \subseteq Pools /\ plan.lost \subseteq Pools
  <2>1. n.carried = [p \in Pools |-> IF p \in plan.spared
                       THEN m.carried[p] \cup m.children[p] ELSE m.carried[p]]
    BY <1>2, <1>3
  <2>2. plan.spared \subseteq Pools /\ plan.lost \subseteq Pools
    BY DEF PlanFits, PlanType
  <2>. QED BY <2>1, <2>2
<1>33. /\ n.survivors = m.survivors \cup plan.survivors
       /\ \A c \in Pids : m.sent[c] \subseteq n.sent[c]
       /\ \A p \in plan.lost : \A c \in m.children[p] : n.sent[c] # {}
  BY <1>2, <1>3, SMT
<1>34. /\ \A p \in Pools \ skip : \A c \in Left(m, plan, p) :
            ChildSignal(m, p, sig) \in n.sent[c]
       /\ \A c \in Pids :
            (\A p \in Pools \ skip : c \notin Left(m, plan, p)) /\
            (\A p \in plan.lost : c \notin m.children[p]) => n.sent[c] = m.sent[c]
  BY <1>2, <1>3, SMT
<1>4. /\ \A p \in Pools : n.children[p] \subseteq m.children[p]
      /\ \A p \in plan.spared \cup plan.lost : n.children[p] = {}
      /\ \A p \in Pools \ (plan.spared \cup plan.lost) :
           n.children[p] = m.children[p] \ plan.survivors
      /\ Linked(n) \subseteq Linked(m)
      /\ Linked(n) \cap plan.survivors = {}
  <2>1. /\ \A p \in Pools : n.children[p] \subseteq m.children[p]
        /\ \A p \in plan.spared \cup plan.lost : n.children[p] = {}
        /\ \A p \in Pools \ (plan.spared \cup plan.lost) :
             n.children[p] = m.children[p] \ plan.survivors
    BY <1>31, <1>32 DEF Left
  <2>2. \A p \in Pools : n.children[p] \cap plan.survivors = {}
    BY <2>1
  <2>. QED BY <2>1, <2>2, SMTT(30) DEF Linked
<1>5. Carried(n) = Carried(m) \cup UNION {m.children[p] : p \in plan.spared}
  BY <1>32, SMT DEF Carried
<1>6. Linked(m) \subseteq Pids /\ Carried(m) \subseteq Pids /\ Linked(n) \subseteq Pids
  BY <1>4, SMT DEF Linked, Carried, Master
<1>7. Owners(n)
  <2>1. \A p, q \in Pools : p # q => n.children[p] \cap n.children[q] = {}
    BY <1>4 DEF Owners
  <2>2. Linked(n) \cap UNION {m.children[p] : p \in plan.spared} = {}
    BY <1>4, <1>32, SMT DEF Owners, Linked
  <2>3. plan.survivors \cap UNION {m.children[p] : p \in plan.spared} = {}
    BY SMT DEF PlanFits
  <2>4. UNION {m.children[p] : p \in plan.spared} \subseteq Linked(m)
    BY <1>32, SMT DEF Linked
  <2>. QED BY <1>33, <1>4, <1>5, <2>1, <2>2, <2>3, <2>4 DEF Owners, PlanFits
<1>8. Calm(n) /\ Timed(n)
  BY <1>3 DEF Calm, Timed
<1>9. \A p \in Pools : \A c \in n.children[p] :
        /\ p \notin plan.spared \cup plan.lost
        /\ \A q \in plan.lost : c \notin m.children[q]
        /\ \A q \in Pools : q # p => c \notin Left(m, plan, q)
  BY <1>31, <1>32, <1>4, SMT DEF Owners
<1>10. Held(n)
  <2>1. CASE hold = {}
    BY <2>1, <1>2, <1>3 DEF Held
  <2>2. CASE hold # {}
    <3>1. /\ m.signal_sent = "none" /\ ~m.escalated /\ HasTimeout
          /\ fpm_http_ready_gateways_alive(m)
      BY <2>2 DEF hold, HeldPools, HoldPool
    <3>2. \A p \in Routed : p \in plan.spared \/ p \in hold
      BY <3>1, <2>2, ProcessCtlAssumption DEF hold, HeldPools, HoldPool
    <3>3. ASSUME NEW p \in Routed, NEW c \in n.children[p] PROVE n.sent[c] = {}
      <4>1. p \in Pools
        BY ProcessCtlAssumption
      <4>2. c \in Linked(m) /\ c \in Pids
        BY <4>1, <1>4, <1>6 DEF Linked
      <4>3. \A q \in Pools \ skip : c \notin Left(m, plan, q)
        BY <4>1, <1>9, <3>2 DEF skip, hold, SkippedPools
      <4>4. n.sent[c] = m.sent[c]
        BY <4>1, <4>2, <4>3, <1>34, <1>9
      <4>. QED BY <4>2, <4>4, <3>1
    <3>. QED BY <3>1, <3>3, <2>2, <1>2, <1>3 DEF Held, fpm_http_ready_gateways_alive
  <2>. QED BY <2>1, <2>2
<1>11. Told(n)
  <2>1. sig # "none"
    BY <1>1 DEF Signals
  <2>2. ASSUME NEW p \in Pools, NEW c \in n.children[p], p \in skip
        PROVE  n.held # "none" /\ p \in Routed
    BY <2>1, <2>2, <1>2, <1>3, <1>9 DEF skip, hold, SkippedPools, HeldPools, HoldPool
  <2>3. ASSUME NEW p \in Pools, NEW c \in n.children[p], p \notin skip
        PROVE  ChildSignal(n, p, n.signal_sent) \in n.sent[c]
    <3>1. ChildSignal(m, p, sig) \in n.sent[c]
      BY <2>3, <1>31, <1>34
    <3>2. ChildSignal(n, p, n.signal_sent) = ChildSignal(m, p, sig)
      BY <1>3 DEF ChildSignal
    <3>. QED BY <3>1, <3>2
  <2>. QED BY <2>1, <2>2, <2>3, <1>3 DEF Told
<1>12. Spared(n)
  <2>1. ASSUME m.state = "RELOADING", NEW c \in Carried(n) PROVE n.sent[c] = {}
    <3>1. m.sent[c] = {} /\ c \in Pids /\ c \notin Linked(n)
      BY <2>1, <1>32, <1>5, <1>6, <1>7, SMT DEF Spared, Linked, Owners
    <3>2. \A q \in Pools : c \notin Left(m, plan, q)
      BY <3>1, <1>31 DEF Linked
    <3>3. \A q \in plan.lost : c \notin m.children[q]
      <4>1. CASE c \in Carried(m)
        BY <4>1, <1>32 DEF Owners, Linked
      <4>2. CASE c \notin Carried(m)
        BY <4>2, <1>32, <1>5, SMT DEF Owners, PlanFits
      <4>. QED BY <4>1, <4>2
    <3>. QED BY <3>1, <3>2, <3>3, <1>34
  <2>. QED BY <2>1, <1>3 DEF Spared
<1>13. Accounted(n, pr)
  <2>1. ASSUME NEW c \in Pids, pr[c] = "run"
        PROVE  c \in Linked(n) \cup Carried(n) \cup n.survivors \/ n.sent[c] # {}
    <3>1. c \in Linked(m) \cup Carried(m) \cup m.survivors \/ m.sent[c] # {}
      BY <2>1 DEF Accounted
    <3>2. CASE c \in Linked(m)
      <4>1. PICK p \in Pools : c \in m.children[p]
        BY <3>2 DEF Linked
      <4>2. CASE p \in plan.spared
        BY <4>1, <4>2, <1>5
      <4>3. CASE p \in plan.lost
        BY <4>1, <4>3, <1>33
      <4>4. CASE p \notin plan.spared \cup plan.lost
        BY <4>1, <4>4, <1>33, <1>4, SMT DEF Linked
      <4>. QED BY <4>2, <4>3, <4>4
    <3>3. CASE c \notin Linked(m)
      BY <3>1, <3>3, <1>33, <1>5
    <3>. QED BY <3>2, <3>3
  <2>. QED BY <2>1, <1>4 DEF Accounted
<1>. QED BY <1>3, <1>7, <1>8, <1>10, <1>11, <1>12, <1>13 DEF Inv, n, k, sig
\* fpm_pctl_release_deferred() sends the held signal to the held pools; the
\* timer and the gateways may be in any state when it is called.
LEMMA ReleaseInv ==
  ASSUME NEW m \in Master, NEW pr \in [Pids -> ProcStates],
         m.run = "loop", m.state # "NORMAL", m.held # "none",
         m.signal_sent = m.held,
         Owners(m), Spared(m), Told(m), Accounted(m, pr)
  PROVE  Inv(fpm_pctl_release_deferred(m), pr)
<1> DEFINE h == [m EXCEPT !.held = "none"]
           k == fpm_pctl_kill_all(h, m.held, NoPlan, "release")
<1>1. /\ h \in Master /\ h.run = "loop" /\ h.state = m.state /\ h.held = "none"
      /\ h.signal_sent = m.held /\ h.children = m.children /\ h.sent = m.sent
      /\ h.carried = m.carried /\ h.survivors = m.survivors /\ h.gwpids = m.gwpids
  BY DEF Master
<1>2. m.held \in Signals
  BY DEF Master
<1>. HIDE DEF h
<1>3. PassResult(h, m.held, NoPlan, "release", k)
  <2>1. PlanFits(h, NoPlan)
    BY <1>1, PlansFit
  <2>. QED BY <2>1, <1>1, <1>2, KillAllFields
<1>. HIDE DEF k
<1>4. /\ HeldPools(h, NoPlan, "release") = {}
      /\ SkippedPools(h, NoPlan, "release") = Pools \ Routed
      /\ \A p \in Pools : Left(h, NoPlan, p) = m.children[p]
  BY <1>1 DEF HeldPools, SkippedPools, Left, NoPlan
<1>5. /\ k \in Master /\ k.run = "loop" /\ k.state = m.state
      /\ k.signal_sent = m.held /\ k.held = "none"
      /\ k.survivors = m.survivors
  BY <1>1, <1>3, <1>4 DEF PassResult, NoPlan
<1>6. \A p \in Pools : k.children[p] = m.children[p] /\ k.carried[p] = m.carried[p]
  <2>1. k.children = [p \in Pools |-> Left(h, NoPlan, p)]
    BY <1>3 DEF PassResult
  <2>2. k.carried = [p \in Pools |-> h.carried[p]]
    BY <1>3 DEF PassResult, NoPlan
  <2>3. \A p \in Pools : k.children[p] = Left(h, NoPlan, p)
    BY <2>1
  <2>4. \A p \in Pools : k.carried[p] = m.carried[p]
    BY <2>2, <1>1
  <2>. QED BY <2>3, <2>4, <1>4
<1>7. Linked(k) = Linked(m) /\ Carried(k) = Carried(m)
  BY <1>6, SMT DEF Linked, Carried
<1>8. /\ \A c \in Pids : m.sent[c] \subseteq k.sent[c]
      /\ \A p \in Routed : \A c \in m.children[p] : ChildSignal(h, p, m.held) \in k.sent[c]
      /\ \A c \in Pids : c \notin Linked(m) => k.sent[c] = m.sent[c]
  <2>1. /\ \A c \in Pids : h.sent[c] \subseteq k.sent[c]
        /\ \A p \in Pools \ (Pools \ Routed) : \A c \in Left(h, NoPlan, p) :
             ChildSignal(h, p, m.held) \in k.sent[c]
        /\ \A c \in Pids :
             (\A p \in Pools \ (Pools \ Routed) : c \notin Left(h, NoPlan, p)) =>
             k.sent[c] = h.sent[c]
    BY <1>3, <1>4 DEF PassResult, NoPlan
  <2>2. Routed \subseteq Pools
    BY ProcessCtlAssumption
  <2>. QED BY <2>1, <2>2, <1>1, <1>4, SMT DEF Linked
<1>9. Owners(k)
  BY <1>5, <1>6, <1>7 DEF Owners
<1>10. Spared(k)
  <2>1. Carried(m) \subseteq Pids
    BY SMT DEF Carried, Master
  <2>2. \A c \in Carried(m) : k.sent[c] = m.sent[c]
    BY <2>1, <1>8 DEF Owners
  <2>. QED BY <2>2, <1>5, <1>7 DEF Spared
<1>11. Accounted(k, pr)
  BY <1>5, <1>7, <1>8 DEF Accounted
<1>12. Told(k)
  <2>1. ASSUME NEW p \in Pools, NEW c \in k.children[p]
        PROVE  ChildSignal(k, p, k.signal_sent) \in k.sent[c]
    <3>1. c \in m.children[p] /\ c \in Pids
      BY <1>6 DEF Master
    <3>2. ChildSignal(k, p, k.signal_sent) = ChildSignal(h, p, m.held)
      BY <1>1, <1>5 DEF ChildSignal
    <3>3. ChildSignal(m, p, m.signal_sent) = ChildSignal(h, p, m.held)
      BY <1>1 DEF ChildSignal
    <3>4. CASE p \in Routed
      BY <3>1, <3>2, <3>4, <1>8
    <3>5. CASE p \notin Routed
      <4>1. ChildSignal(m, p, m.signal_sent) \in m.sent[c]
        BY <3>1, <3>5 DEF Told
      <4>. QED BY <4>1, <3>1, <3>2, <3>3, <1>8
    <3>. QED BY <3>4, <3>5
  <2>2. k.signal_sent # "none"
    BY <1>2, <1>5 DEF Signals
  <2>. QED BY <2>1, <2>2 DEF Told
<1>13. CASE Linked(k) = {}
  <2>1. fpm_pctl_release_deferred(m) = fpm_pctl_action_last(k)
    BY <1>13 DEF fpm_pctl_release_deferred, k, h
  <2>2. fpm_pctl_action_last(k).run # "loop"
    <3>1. CASE k.state = "RELOADING"
      BY <3>1, <1>5 DEF fpm_pctl_action_last, fpm_pctl_window_open, Master
    <3>2. CASE k.state # "RELOADING"
      <4>1. Discard(k) \in Master
        BY <1>5, DiscardFields
      <4>2. fpm_pctl_action_last(k) = [Discard(k) EXCEPT !.run = "finish"]
        BY <3>2, <1>5 DEF fpm_pctl_action_last, fpm_pctl_window_open
      <4>. QED BY <4>1, <4>2 DEF Master
    <3>. QED BY <3>1, <3>2
  <2>. QED BY <2>1, <2>2, <1>5, <1>9, <1>10, <1>11, <1>13, LastInv
<1>14. CASE Linked(k) # {}
  <2> DEFINE n == [k EXCEPT !.timer = TRUE]
  <2>1. fpm_pctl_release_deferred(m) = n
    BY <1>14 DEF fpm_pctl_release_deferred, k, h
  <2>2. /\ n \in Master /\ n.run = "loop" /\ n.state = k.state /\ n.held = "none"
        /\ n.signal_sent = k.signal_sent /\ n.children = k.children /\ n.sent = k.sent
        /\ n.carried = k.carried /\ n.survivors = k.survivors /\ n.timer
    BY <1>5 DEF Master
  <2>. HIDE DEF n
  <2>3. Linked(n) = Linked(k) /\ Carried(n) = Carried(k)
    BY <2>2, SMT DEF Linked, Carried
  <2>4. Owners(n) /\ Calm(n) /\ Held(n) /\ Timed(n)
    BY <2>2, <2>3, <1>5, <1>9 DEF Owners, Calm, Held, Timed
  <2>5. Told(n)
    BY <2>2, <1>5, <1>12, SMT DEF Told, ChildSignal
  <2>6. Spared(n) /\ Accounted(n, pr)
    BY <2>2, <2>3, <1>5, <1>10, <1>11 DEF Spared, Accounted
  <2>. QED BY <2>1, <2>2, <2>4, <2>5, <2>6 DEF Inv
<1>. QED BY <1>13, <1>14

\* What fpm_pctl_action_next() may be called with: a stop that just began
\* (no signal sent), or one that the timer moves on.
NextPre(m, plan) ==
  \/ /\ m.signal_sent = "none"
     /\ m.held # "none" => fpm_http_ready_gateways_alive(m)
     /\ plan.spared = {} \/ \A c \in Linked(m) : m.sent[c] = {}
     /\ m.escalated \/ \A c \in Linked(m) : m.sent[c] = {}
  \/ m.signal_sent # "none" /\ plan = NoPlan /\ Held(m) /\ Told(m)

\* fpm_pctl_action_next() establishes the invariant.
LEMMA NextInv ==
  ASSUME NEW m \in Master, NEW pr \in [Pids -> ProcStates], NEW plan,
         m.run = "loop", m.state # "NORMAL", PlanFits(m, plan),
         Owners(m), Spared(m), Accounted(m, pr), NextPre(m, plan)
  PROVE  Inv(fpm_pctl_action_next(m, plan), pr)
<1>1. m.held # "none" => fpm_http_ready_gateways_alive(m)
  BY DEF NextPre, Held
<1>2. CASE Linked(m) = {} /\ fpm_pctl_action_last(m).run # "loop"
  BY <1>1, <1>2, LastInv DEF fpm_pctl_action_next
<1>3. CASE /\ ~(Linked(m) = {} /\ fpm_pctl_action_last(m).run # "loop")
           /\ m.signal_sent # "none" /\ m.held # "none"
  <2>1. fpm_pctl_action_next(m, plan) = fpm_pctl_release_deferred(m)
    BY <1>3 DEF fpm_pctl_action_next
  <2>2. m.signal_sent = m.held /\ Told(m)
    BY <1>3 DEF NextPre, Held
  <2>. QED BY <2>1, <2>2, <1>3, ReleaseInv
<1>4. CASE /\ ~(Linked(m) = {} /\ fpm_pctl_action_last(m).run # "loop")
           /\ ~(m.signal_sent # "none" /\ m.held # "none")
  <2>1. fpm_pctl_action_next(m, plan) =
          [fpm_pctl_kill_all(m, NextSignal(m), plan, "pass")
             EXCEPT !.signal_sent = NextSignal(m), !.timer = TRUE]
    BY <1>4 DEF fpm_pctl_action_next
  <2>2. /\ m.signal_sent # "none" => m.held = "none" /\ plan = NoPlan
        /\ plan.spared = {} \/ \A c \in Linked(m) : m.sent[c] = {}
        /\ m.signal_sent # "none" \/ m.escalated \/ \A c \in Linked(m) : m.sent[c] = {}
    BY <1>4, SMT DEF NextPre, NoPlan
  <2>3. Inv([fpm_pctl_kill_all(m, NextSignal(m), plan, "pass")
               EXCEPT !.signal_sent = NextSignal(m), !.timer = TRUE], pr)
    BY <2>2, PassInv
  <2>. QED BY <2>1, <2>3
<1>. QED BY <1>2, <1>3, <1>4

\* fpm_pctl(SET) with a state that may override the current one.
LEMMA SetInv ==
  ASSUME NEW m, NEW pr, Inv(m, pr), m.run = "loop",
         NEW new \in States \ {"NORMAL"}, MayOverride(m.state, new),
         NEW plan, PlanFits(m, plan), new # "RELOADING" => plan = NoPlan
  PROVE  Inv(fpm_pctl_set(m, new, plan), pr)
<1> DEFINE s == [m EXCEPT !.escalated = m.escalated \/ m.state # "NORMAL",
                          !.signal_sent = "none", !.state = new]
<1>1. m \in Master /\ pr \in [Pids -> ProcStates]
  BY DEF Inv
<1>2. /\ s \in Master /\ s.run = "loop" /\ s.state = new /\ s.signal_sent = "none"
      /\ s.held = m.held /\ s.gwpids = m.gwpids /\ s.children = m.children
      /\ s.sent = m.sent /\ s.carried = m.carried /\ s.survivors = m.survivors
      /\ m.state # "NORMAL" => s.escalated
  BY <1>1 DEF Master, States
<1>3. fpm_pctl_set(m, new, plan) = fpm_pctl_action_next(s, plan)
  BY DEF fpm_pctl_set
<1>4. new = "RELOADING" => m.state = "NORMAL"
  BY DEF MayOverride
<1>. HIDE DEF s
<1>5. Linked(s) = Linked(m) /\ Carried(s) = Carried(m)
  BY <1>2, SMT DEF Linked, Carried
<1>6. Owners(s) /\ Spared(s) /\ Accounted(s, pr)
  <2>1. Owners(s)
    BY <1>2, <1>5 DEF Inv, Owners
  <2>2. Spared(s)
    BY <1>2, <1>4, <1>5 DEF Inv, Spared, Calm
  <2>3. Accounted(s, pr)
    BY <1>2, <1>5 DEF Inv, Accounted
  <2>. QED BY <2>1, <2>2, <2>3
<1>7. PlanFits(s, plan)
  BY <1>2, <1>5 DEF PlanFits
<1>8. NextPre(s, plan)
  <2>1. m.held # "none" => fpm_http_ready_gateways_alive(s)
    BY <1>2 DEF Inv, Held, fpm_http_ready_gateways_alive
  <2>2. m.state = "NORMAL" => \A c \in Linked(s) : s.sent[c] = {}
    BY <1>2, <1>5 DEF Inv, Calm
  <2>. QED BY <2>1, <2>2, <1>2, <1>4, SMT DEF NextPre, NoPlan
<1>. QED BY <1>1, <1>2, <1>3, <1>6, <1>7, <1>8, NextInv DEF States
\* Reaping a linked child (fpm_child_unlink in fpm_children_bury).
LEMMA UnlinkInv ==
  ASSUME NEW m, NEW pr, Inv(m, pr),
         NEW p \in Pools, NEW c \in m.children[p]
  PROVE  Inv(fpm_child_unlink(m, p, c), [pr EXCEPT ![c] = "free"])
<1> DEFINE n == fpm_child_unlink(m, p, c)
           q == [pr EXCEPT ![c] = "free"]
<1>1. m \in Master /\ pr \in [Pids -> ProcStates] /\ c \in Pids
  BY DEF Inv, Master
<1>2. n = [m EXCEPT !.children = [m.children EXCEPT ![p] = m.children[p] \ {c}]]
  BY <1>1 DEF fpm_child_unlink, Master
<1>3. [m.children EXCEPT ![p] = m.children[p] \ {c}] \in [Pools -> SUBSET Pids]
  BY <1>1 DEF Master
<1>4. /\ n \in Master /\ n.run = m.run /\ n.state = m.state /\ n.held = m.held
      /\ n.signal_sent = m.signal_sent /\ n.escalated = m.escalated
      /\ n.timer = m.timer /\ n.gwpids = m.gwpids /\ n.sent = m.sent
      /\ n.carried = m.carried /\ n.survivors = m.survivors
      /\ n.children = [m.children EXCEPT ![p] = m.children[p] \ {c}]
  BY <1>1, <1>2, <1>3 DEF Master
<1>5. q \in [Pids -> ProcStates] /\ q[c] = "free" /\ \A d \in Pids \ {c} : q[d] = pr[d]
  BY <1>1 DEF ProcStates
<1>. HIDE DEF n, q
<1>6. /\ n.children[p] = m.children[p] \ {c}
      /\ \A r \in Pools : r # p => n.children[r] = m.children[r]
      /\ \A r \in Pools : n.children[r] \subseteq m.children[r]
  BY <1>1, <1>4, SMT DEF Master
<1>7. Linked(n) = Linked(m) \ {c} /\ Carried(n) = Carried(m)
  <2>1. \A r \in Pools : r # p => c \notin m.children[r]
    BY DEF Inv, Owners
  <2>. QED BY <2>1, <1>4, <1>6, SMT DEF Linked, Carried
<1>8. Owners(n)
  BY <1>4, <1>6, <1>7 DEF Inv, Owners
<1>9. Calm(n) /\ Timed(n) /\ Spared(n)
  BY <1>4, <1>7, SMT DEF Inv, Calm, Timed, Spared
<1>10. Held(n)
  BY <1>4, <1>6, ProcessCtlAssumption DEF Inv, Held, fpm_http_ready_gateways_alive
<1>11. Told(n)
  BY <1>4, <1>6, SMT DEF Inv, Told, ChildSignal
<1>12. Accounted(n, q)
  <2>1. Linked(m) \subseteq Pids
    BY <1>1, SMT DEF Linked, Master
  <2>. QED BY <2>1, <1>4, <1>5, <1>7 DEF Inv, Accounted
<1>. QED BY <1>4, <1>5, <1>8, <1>9, <1>10, <1>11, <1>12 DEF Inv, n, q

\* fpm_pctl_child_exited() after the unlink.
LEMMA ChildExitedInv ==
  ASSUME NEW m, NEW pr, Inv(m, pr), m.run = "loop"
  PROVE  Inv(fpm_pctl_child_exited(m), pr)
<1>1. CASE m.state # "NORMAL" /\ Linked(m) = {}
  <2>1. m.held # "none" => fpm_http_ready_gateways_alive(m)
    BY DEF Inv, Held
  <2>. QED BY <1>1, <2>1, LastInv DEF Inv, fpm_pctl_child_exited
<1>2. CASE ~(m.state # "NORMAL" /\ Linked(m) = {})
  BY <1>2 DEF fpm_pctl_child_exited
<1>. QED BY <1>1, <1>2

\* Forking the children that fpm_children_make() is allowed to fork.
LEMMA MakeInv ==
  ASSUME NEW m, NEW pr, Inv(m, pr), NEW p \in Pools,
         NEW free, free \subseteq {c \in Pids : pr[c] = "free"},
         NEW born \in Births(m, p, free)
  PROVE  Inv(Make(m, p, born), Born(pr, born))
<1> DEFINE n == Make(m, p, born)
           q == Born(pr, born)
           sent == [c \in Pids |-> IF c \in born THEN {} ELSE m.sent[c]]
<1>1. m \in Master /\ pr \in [Pids -> ProcStates]
  BY DEF Inv
<1>2. /\ born \subseteq Pids /\ \A c \in born : pr[c] = "free"
      /\ born \cap (Carried(m) \cup m.survivors) = {}
      /\ born # {} => m.run = "loop" /\ fpm_children_may_fork(m, p)
  BY DEF Births
<1>3. n = [m EXCEPT !.children = [m.children EXCEPT ![p] = m.children[p] \cup born],
                    !.sent = sent, !.other = m.other \ born]
  BY <1>1 DEF Make, Master
<1>4. /\ [m.children EXCEPT ![p] = m.children[p] \cup born] \in [Pools -> SUBSET Pids]
      /\ sent \in [Pids -> SUBSET Signals]
  BY <1>1, <1>2 DEF Master
<1>5. /\ n \in Master /\ n.run = m.run /\ n.state = m.state /\ n.held = m.held
      /\ n.signal_sent = m.signal_sent /\ n.escalated = m.escalated
      /\ n.timer = m.timer /\ n.gwpids = m.gwpids /\ n.sent = sent
      /\ n.carried = m.carried /\ n.survivors = m.survivors
      /\ n.children = [m.children EXCEPT ![p] = m.children[p] \cup born]
  <2> DEFINE kids == [m.children EXCEPT ![p] = m.children[p] \cup born]
  <2>1. n = [m EXCEPT !.children = kids, !.sent = sent, !.other = m.other \ born]
    BY <1>3
  <2>2. kids \in [Pools -> SUBSET Pids] /\ sent \in [Pids -> SUBSET Signals]
    BY <1>4
  <2>. HIDE DEF sent, kids, n
  <2>3. /\ n \in Master /\ n.sent = sent /\ n.children = kids
        /\ n.run = m.run /\ n.state = m.state /\ n.held = m.held
        /\ n.signal_sent = m.signal_sent /\ n.escalated = m.escalated
        /\ n.timer = m.timer /\ n.gwpids = m.gwpids
        /\ n.carried = m.carried /\ n.survivors = m.survivors
    BY <1>1, <2>1, <2>2 DEF Master
  <2>. QED BY <2>3 DEF kids
<1>6. /\ q \in [Pids -> ProcStates]
      /\ \A c \in Pids : q[c] = IF c \in born THEN "run" ELSE pr[c]
  BY <1>1 DEF Born, ProcStates
<1>7. \A c \in Pids : n.sent[c] = IF c \in born THEN {} ELSE m.sent[c]
  BY <1>5
<1>. HIDE DEF n, q, sent
<1>8. /\ n.children[p] = m.children[p] \cup born
      /\ \A r \in Pools : r # p => n.children[r] = m.children[r]
  BY <1>1, <1>5 DEF Master
<1>9. Linked(n) = Linked(m) \cup born /\ Carried(n) = Carried(m)
  BY <1>5, <1>8, SMT DEF Linked, Carried
<1>10. Linked(m) \cap born = {} /\ Linked(m) \subseteq Pids /\ Carried(m) \subseteq Pids
  BY <1>1, <1>2, SMT DEF Inv, Accounted, Linked, Carried, Master
<1>11. Owners(n)
  <2>1. \A r \in Pools : m.children[r] \cap born = {}
    BY <1>10 DEF Linked
  <2>2. ASSUME NEW r \in Pools, NEW t \in Pools, r # t
        PROVE  n.children[r] \cap n.children[t] = {}
    <3>1. m.children[r] \cap m.children[t] = {}
      BY <2>2 DEF Inv, Owners
    <3>2. n.children[r] \subseteq m.children[r] \cup born
      BY <1>8
    <3>3. n.children[t] \subseteq m.children[t] \cup born
      BY <1>8
    <3>4. CASE r = p
      <4>1. n.children[t] = m.children[t]
        BY <1>8, <2>2, <3>4
      <4>. QED BY <4>1, <2>1, <3>1, <3>2
    <3>5. CASE r # p
      <4>1. n.children[r] = m.children[r]
        BY <1>8, <3>5
      <4>. QED BY <4>1, <2>1, <3>1, <3>3
    <3>. QED BY <3>4, <3>5
  <2>3. /\ Linked(m) \cap (Carried(m) \cup m.survivors) = {}
        /\ Carried(m) \cap m.survivors = {}
    BY DEF Inv, Owners
  <2>4. /\ Linked(n) \cap (Carried(n) \cup n.survivors) = {}
        /\ Carried(n) \cap n.survivors = {}
    BY <2>3, <1>2, <1>5, <1>9
  <2>. QED BY <2>2, <2>4 DEF Owners
<1>12. Calm(n) /\ Timed(n) /\ Spared(n)
  <2>1. Calm(n)
    BY <1>2, <1>5, <1>7, <1>9, <1>10, SMT DEF Inv, Calm
  <2>2. Timed(n)
    BY <1>5 DEF Inv, Timed
  <2>3. m.survivors \subseteq Pids
    BY <1>1 DEF Master
  <2>4. Spared(n)
    BY <2>3, <1>2, <1>5, <1>7, <1>9, <1>10, SMT DEF Inv, Spared
  <2>. QED BY <2>1, <2>2, <2>4
<1>13. Held(n)
  <2>1. ASSUME m.held # "none", NEW r \in Routed, NEW c \in n.children[r]
        PROVE  n.sent[c] = {}
    <3>1. r \in Pools
      BY ProcessCtlAssumption
    <3>2. c \in Pids /\ (c \in born \/ c \in m.children[r])
      BY <3>1, <1>1, <1>2, <1>8 DEF Master
    <3>. QED BY <2>1, <3>2, <1>7 DEF Inv, Held
  <2>. QED BY <2>1, <1>5 DEF Inv, Held, fpm_http_ready_gateways_alive
<1>14. Told(n)
  <2>1. ASSUME m.run = "loop", m.state # "NORMAL", NEW r \in Pools, NEW c \in n.children[r]
        PROVE  \/ m.held # "none" /\ r \in Routed
               \/ ChildSignal(m, r, m.signal_sent) \in n.sent[c]
    <3>1. CASE c \in born
      <4>1. r = p
        <5>1. c \notin m.children[r]
          BY <3>1, <1>10 DEF Linked
        <5>. QED BY <5>1, <2>1, <1>8
      <4>2. m.held # "none" /\ p \in Routed
        BY <2>1, <3>1, <1>2 DEF fpm_children_may_fork, fpm_pctl_window_open
      <4>. QED BY <4>1, <4>2
    <3>2. CASE c \notin born
      <4>1. c \in m.children[r] /\ c \in Pids
        BY <2>1, <3>2, <1>1, <1>8 DEF Master
      <4>2. \/ m.held # "none" /\ r \in Routed
            \/ ChildSignal(m, r, m.signal_sent) \in m.sent[c]
        BY <4>1, <2>1 DEF Inv, Told
      <4>3. n.sent[c] = m.sent[c]
        BY <4>1, <3>2, <1>7
      <4>. QED BY <4>2, <4>3
    <3>. QED BY <3>1, <3>2
  <2>2. \A r, x : ChildSignal(n, r, x) = ChildSignal(m, r, x)
    BY <1>5 DEF ChildSignal
  <2>. QED BY <2>1, <2>2, <1>5, SMTT(60) DEF Inv, Told
<1>15. Accounted(n, q)
  <2>1. \A c \in Linked(n) : q[c] # "free"
    BY <1>6, <1>9, <1>10, <1>2 DEF Inv, Accounted
  <2>2. ASSUME NEW c \in Pids, q[c] = "run"
        PROVE  c \in Linked(n) \cup Carried(n) \cup n.survivors \/ n.sent[c] # {}
    BY <2>2, <1>5, <1>6, <1>7, <1>9 DEF Inv, Accounted
  <2>. QED BY <2>1, <2>2 DEF Accounted
<1>. QED BY <1>5, <1>6, <1>11, <1>12, <1>13, <1>14, <1>15 DEF Inv, n, q
-----------------------------------------------------------------------------
(* The invariant of the specification. *)

\* The invariant holds when the master enters its event loop.
LEMMA InitIInv == Init => IInv
<1> SUFFICES ASSUME Init PROVE IInv
  OBVIOUS
<1>1. pctl \in Master /\ proc \in [Pids -> ProcStates] /\ gw \in [Gateways -> GwStates]
  BY DEF Init, Master, States, ProcStates, GwStates
<1>2. Linked(pctl) = {} /\ Carried(pctl) = {}
  BY DEF Init, Linked, Carried
<1>3. Owners(pctl) /\ Calm(pctl) /\ Held(pctl) /\ Timed(pctl) /\ Told(pctl) /\ Spared(pctl)
  BY <1>2 DEF Init, Owners, Calm, Held, Timed, Told, Spared
<1>4. Accounted(pctl, proc)
  BY <1>2 DEF Init, Accounted
<1>. QED BY <1>1, <1>3, <1>4 DEF IInv, Inv

\* A step of the cleanup or of the gateways that leaves the lists and the
\* signals alone keeps the invariant.
LEMMA QuietInv ==
  ASSUME NEW m, NEW pr, Inv(m, pr), NEW n \in Master,
         n.state = m.state, n.held = m.held, n.signal_sent = m.signal_sent,
         n.escalated = m.escalated, n.timer = m.timer, n.children = m.children,
         n.sent = m.sent, n.carried = m.carried, n.survivors = m.survivors,
         \/ n.run = m.run /\ (m.held = "none" \/ fpm_http_ready_gateways_alive(n))
         \/ m.run # "loop" /\ n.run \notin {"loop", "exited"}
  PROVE  Inv(n, pr)
<1>1. Linked(n) = Linked(m) /\ Carried(n) = Carried(m)
  BY SMT DEF Linked, Carried
<1>2. Owners(n) /\ Calm(n) /\ Timed(n) /\ Spared(n) /\ Accounted(n, pr)
  BY <1>1, SMT DEF Inv, Owners, Calm, Timed, Spared, Accounted
<1>3. Held(n)
  BY DEF Inv, Held
<1>4. Told(n)
  BY DEF Inv, Told, ChildSignal
<1>. QED BY <1>2, <1>3, <1>4 DEF Inv

\* Signals sent for another reason than a stop change no other field.
LEMMA OtherInv ==
  ASSUME NEW m, NEW pr, Inv(m, pr), m.run = "loop", NEW x \in SUBSET Pids
  PROVE  Inv([m EXCEPT !.other = x], pr)
<1> DEFINE n == [m EXCEPT !.other = x]
<1>1. /\ n \in Master /\ n.state = m.state /\ n.held = m.held /\ n.run = m.run
      /\ n.signal_sent = m.signal_sent /\ n.escalated = m.escalated
      /\ n.timer = m.timer /\ n.children = m.children /\ n.sent = m.sent
      /\ n.carried = m.carried /\ n.survivors = m.survivors /\ n.gwpids = m.gwpids
  BY SMT DEF Inv, Master
<1>. HIDE DEF n
<1>2. m.held = "none" \/ fpm_http_ready_gateways_alive(n)
  BY <1>1 DEF Inv, Held, fpm_http_ready_gateways_alive
<1>3. Inv(n, pr)
  BY <1>1, <1>2, QuietInv
<1>. QED BY <1>3 DEF n

\* The pass of a log rotation holds nothing back and detaches nobody.
LEMMA RotateInv ==
  ASSUME NEW m, NEW pr, Inv(m, pr), m.run = "loop",
         NEW n, n = fpm_pctl_kill_all([m EXCEPT !.sent = [c \in Pids |-> {}]],
                                      "QUIT", NoPlan, "pass"),
         NEW x \in SUBSET Pids
  PROVE  Inv([n EXCEPT !.sent = m.sent, !.other = x], pr)
<1> DEFINE k == [m EXCEPT !.sent = [c \in Pids |-> {}]]
<1>1. /\ k \in Master /\ k.state = m.state /\ k.held = m.held /\ k.run = m.run
      /\ k.signal_sent = m.signal_sent /\ k.escalated = m.escalated
      /\ k.timer = m.timer /\ k.children = m.children /\ k.other = m.other
      /\ k.carried = m.carried /\ k.survivors = m.survivors /\ k.gwpids = m.gwpids
  BY SMT DEF Inv, Master
<1>. HIDE DEF k
<1>2. PlanFits(k, NoPlan)
  BY <1>1, PlansFit
<1>3. PassResult(k, "QUIT", NoPlan, "pass", n)
  BY <1>1, <1>2, KillAllFields DEF Signals, k
<1>4. m.state = "NORMAL" \/ m.signal_sent # "none"
  BY DEF Inv, Told
<1>5. HeldPools(k, NoPlan, "pass") = {}
  BY <1>1, <1>4 DEF HeldPools, HoldPool
<1>6. n.held = m.held
  BY <1>1, <1>3, <1>4, <1>5 DEF PassResult, Inv, Calm
<1>7. n.children = m.children
  BY <1>1, <1>3, SMT DEF PassResult, Left, NoPlan, Master
<1>8. n.carried = m.carried
  BY <1>1, <1>3, SMT DEF PassResult, NoPlan, Master
<1>9. n.survivors = m.survivors
  BY <1>1, <1>3 DEF PassResult, NoPlan
<1>10. /\ n \in Master /\ n.run = m.run /\ n.state = m.state
       /\ n.signal_sent = m.signal_sent /\ n.escalated = m.escalated
       /\ n.timer = m.timer /\ n.gwpids = m.gwpids
  BY <1>1, <1>3 DEF PassResult
<1>11. m \in Master
  BY DEF Inv
<1> DEFINE t == [n EXCEPT !.sent = m.sent, !.other = x]
<1>12. /\ t \in Master /\ t.state = n.state /\ t.held = n.held /\ t.run = n.run
       /\ t.signal_sent = n.signal_sent /\ t.escalated = n.escalated
       /\ t.timer = n.timer /\ t.children = n.children /\ t.sent = m.sent
       /\ t.carried = n.carried /\ t.survivors = n.survivors /\ t.gwpids = n.gwpids
  <2>1. m.sent \in [Pids -> SUBSET Signals]
    BY <1>11, SMT DEF Master
  <2>2. n \in Master
    BY <1>10
  <2>3. t \in Master
    BY <2>1, <2>2 DEF Master
  <2>4. /\ t.state = n.state /\ t.held = n.held /\ t.run = n.run
        /\ t.signal_sent = n.signal_sent /\ t.escalated = n.escalated
        /\ t.timer = n.timer /\ t.children = n.children
    BY <2>2, SMT DEF Master
  <2>5. /\ t.sent = m.sent /\ t.carried = n.carried /\ t.survivors = n.survivors
        /\ t.gwpids = n.gwpids
    BY <2>2, SMT DEF Master
  <2>. QED BY <2>3, <2>4, <2>5
<1>. HIDE DEF t
<1>13. m.held = "none" \/ fpm_http_ready_gateways_alive(t)
  BY <1>10, <1>12 DEF Inv, Held, fpm_http_ready_gateways_alive
<1>14. Inv(t, pr)
  BY <1>6, <1>7, <1>8, <1>9, <1>10, <1>12, <1>13, QuietInv
<1>. QED BY <1>14 DEF t

\* Every step keeps the invariant.
LEMMA NextIInv == IInv /\ [Next]_vars => IInv'
<1> SUFFICES ASSUME IInv, [Next]_vars PROVE IInv'
  OBVIOUS
<1>0. /\ Inv(pctl, proc) /\ gw \in [Gateways -> GwStates]
      /\ pctl \in Master /\ proc \in [Pids -> ProcStates]
  BY DEF IInv, Inv
<1>14. SoftDrain \in [Gateways -> GwStates]
  BY <1>0 DEF SoftDrain, GwStates
<1>1. ASSUME NEW new \in States \ {"NORMAL"}, Request(new) PROVE IInv'
  <2>1. PICK plan \in IF new = "RELOADING" THEN Plans(pctl) ELSE {NoPlan} :
          pctl' = fpm_pctl_set(pctl, new, plan)
    BY <1>1 DEF Request
  <2>2. PlanFits(pctl, plan) /\ (new # "RELOADING" => plan = NoPlan)
    BY <1>0, <2>1, PlansFit
  <2>3. pctl.run = "loop" /\ MayOverride(pctl.state, new)
    BY <1>1 DEF Request, InLoop
  <2>4. Inv(pctl', proc)
    BY <1>0, <2>1, <2>2, <2>3, SetInv
  <2>. QED BY <1>1, <1>14, <2>4 DEF Request, IInv
<1>2. ASSUME Timeout PROVE IInv'
  <2> DEFINE t == [pctl EXCEPT !.timer = FALSE]
  <2>1. pctl.run = "loop" /\ pctl.timer /\ pctl' = fpm_pctl_action_next(t, NoPlan)
    BY <1>2 DEF Timeout, InLoop
  <2>2. /\ t \in Master /\ t.run = "loop" /\ t.state = pctl.state /\ t.held = pctl.held
        /\ t.signal_sent = pctl.signal_sent /\ t.escalated = pctl.escalated
        /\ t.children = pctl.children /\ t.sent = pctl.sent /\ t.gwpids = pctl.gwpids
        /\ t.carried = pctl.carried /\ t.survivors = pctl.survivors
    BY <1>0, <2>1 DEF Master
  <2>. HIDE DEF t
  <2>3. pctl.state # "NORMAL"
    BY <1>0, <2>1 DEF Inv, Calm
  <2>4. Linked(t) = Linked(pctl) /\ Carried(t) = Carried(pctl)
    BY <2>2 DEF Linked, Carried
  <2>5. Owners(t) /\ Spared(t) /\ Accounted(t, proc)
    <3>1. Owners(t)
      BY <1>0, <2>2, <2>4 DEF Inv, Owners
    <3>2. Spared(t)
      BY <1>0, <2>2, <2>4 DEF Inv, Spared
    <3>3. Accounted(t, proc)
      BY <1>0, <2>2, <2>4 DEF Inv, Accounted
    <3>. QED BY <3>1, <3>2, <3>3
  <2>6. Held(t) /\ Told(t)
    BY <1>0, <2>1, <2>2, SMTT(60) DEF Inv, Held, Told, ChildSignal, fpm_http_ready_gateways_alive
  <2>7. NextPre(t, NoPlan)
    BY <2>1, <2>2, <2>3, <2>6 DEF NextPre, Told
  <2>8. PlanFits(t, NoPlan)
    BY <2>2, PlansFit
  <2>9. Inv(pctl', proc)
    BY <1>0, <2>1, <2>2, <2>3, <2>5, <2>7, <2>8, NextInv
  <2>. QED BY <1>0, <1>2, <2>9 DEF Timeout, IInv
<1>3. ASSUME NEW p \in Pools, Fork(p) PROVE IInv'
  <2>1. PICK born \in Births(pctl, p, Free) :
          pctl' = Make(pctl, p, born) /\ proc' = Born(proc, born)
    BY <1>3 DEF Fork
  <2>2. Free \subseteq {c \in Pids : proc[c] = "free"}
    BY DEF Free
  <2>3. Inv(pctl', proc')
    BY <1>0, <2>1, <2>2, MakeInv
  <2>. QED BY <1>0, <1>3, <2>3 DEF Fork, IInv
<1>4. ASSUME NEW c \in Pids, ChildExit(c) PROVE IInv'
  <2>1. /\ proc' \in [Pids -> ProcStates] /\ proc'[c] = "zombie"
        /\ \A d \in Pids \ {c} : proc'[d] = proc[d]
    BY <1>0, <1>4 DEF ChildExit, ProcStates
  <2>2. Linked(pctl) \subseteq Pids
    BY <1>0, SMT DEF Linked, Master
  <2>3. Accounted(pctl, proc')
    BY <1>0, <2>1, <2>2 DEF Inv, Accounted
  <2>. QED BY <1>0, <1>4, <2>1, <2>3 DEF ChildExit, IInv, Inv
<1>5. ASSUME NEW p \in Pools, NEW c \in Pids, BuryChild(p, c) PROVE IInv'
  <2> DEFINE u == fpm_child_unlink(pctl, p, c)
             m == fpm_pctl_child_exited(u)
             pr == [proc EXCEPT ![c] = "free"]
  <2>1. pctl.run = "loop" /\ c \in pctl.children[p]
    BY <1>5 DEF BuryChild, InLoop
  <2>2. PICK born \in Births(m, p, Free \cup {c}) :
          pctl' = Make(m, p, born) /\ proc' = Born(pr, born)
    BY <1>5 DEF BuryChild
  <2>3. Inv(u, pr)
    BY <1>0, <2>1, UnlinkInv
  <2>4. u.run = "loop"
    BY <1>0, <2>1 DEF fpm_child_unlink, Master
  <2>5. Free \cup {c} \subseteq {d \in Pids : pr[d] = "free"}
    BY <1>0 DEF Free
  <2>. HIDE DEF u, pr
  <2>6. Inv(m, pr)
    BY <2>3, <2>4, ChildExitedInv
  <2>. HIDE DEF m
  <2>7. Inv(pctl', proc')
    BY <2>2, <2>5, <2>6, MakeInv
  <2>. QED BY <1>0, <1>5, <2>7 DEF BuryChild, IInv
<1>6. ASSUME NEW p \in Pools, NEW c \in Pids, BuryFault(p, c) PROVE IInv'
  <2> DEFINE u == fpm_child_unlink(pctl, p, c)
             m(plan) == fpm_pctl_set(u, "RELOADING", plan)
             pr == [proc EXCEPT ![c] = "free"]
  <2>1. pctl.run = "loop" /\ c \in pctl.children[p] /\ pctl.state = "NORMAL"
    BY <1>6 DEF BuryFault, InLoop
  <2>2. PICK plan \in Plans(u) : \E born \in Births(m(plan), p, Free \cup {c}) :
          pctl' = Make(m(plan), p, born) /\ proc' = Born(pr, born)
    BY <1>6 DEF BuryFault
  <2>3. PICK born \in Births(m(plan), p, Free \cup {c}) :
          pctl' = Make(m(plan), p, born) /\ proc' = Born(pr, born)
    BY <2>2
  <2>4. Inv(u, pr)
    BY <1>0, <2>1, UnlinkInv
  <2>5. u.run = "loop" /\ u.state = "NORMAL" /\ u \in Master
    <3>1. u.run = "loop" /\ u.state = "NORMAL"
      BY <1>0, <2>1 DEF fpm_child_unlink, Master
    <3>. QED BY <3>1, <2>4 DEF Inv
  <2>6. Free \cup {c} \subseteq {d \in Pids : pr[d] = "free"}
    BY <1>0 DEF Free
  <2>. HIDE DEF u, pr
  <2>7. PlanFits(u, plan)
    BY <2>2, <2>5, PlansFit
  <2>8. MayOverride(u.state, "RELOADING") /\ "RELOADING" \in States \ {"NORMAL"}
    BY <2>5 DEF MayOverride, States
  <2>9. Inv(m(plan), pr)
    BY <2>4, <2>5, <2>7, <2>8, SetInv
  <2>. HIDE DEF m
  <2>10. Inv(pctl', proc')
    BY <2>3, <2>6, <2>9, MakeInv
  <2>. QED BY <1>14, <1>6, <2>10 DEF BuryFault, IInv
<1>7. ASSUME NEW c \in Pids, BuryUnknown(c) PROVE IInv'
  <2>1. /\ proc' \in [Pids -> ProcStates] /\ proc'[c] = "free"
        /\ \A d \in Pids \ {c} : proc'[d] = proc[d]
    BY <1>0, <1>7 DEF BuryUnknown, ProcStates
  <2>2. Linked(pctl) \subseteq Pids
    BY <1>0, SMT DEF Linked, Master
  <2>3. Accounted(pctl, proc')
    BY <1>0, <1>7, <2>1, <2>2 DEF Inv, Accounted, BuryUnknown
  <2>. QED BY <1>0, <1>7, <2>1, <2>3 DEF BuryUnknown, IInv, Inv
<1>8. ASSUME NEW g \in Gateways, SoftTimeout(g) \/ GatewayExit(g) PROVE IInv'
  BY <1>0, <1>8 DEF SoftTimeout, GatewayExit, IInv, GwStates
<1>9. ASSUME NEW g \in Gateways, GatewayRespawn(g) PROVE IInv'
  <2>1. gw' \in [Gateways -> GwStates] /\ proc' = proc
    BY <1>0, <1>9 DEF GatewayRespawn, GwStates
  <2>2. CASE pctl' = pctl
    BY <1>0, <2>1, <2>2 DEF IInv
  <2>3. CASE pctl' = [pctl EXCEPT !.gwpids = @ \ {g}]
    <3>1. pctl.held = "none"
      BY <1>0, <1>9 DEF GatewayRespawn, Inv, Calm
    <3>2. /\ pctl' \in Master /\ pctl'.run = pctl.run
          /\ pctl'.state = pctl.state /\ pctl'.held = pctl.held
          /\ pctl'.signal_sent = pctl.signal_sent /\ pctl'.escalated = pctl.escalated
          /\ pctl'.timer = pctl.timer /\ pctl'.children = pctl.children
          /\ pctl'.sent = pctl.sent /\ pctl'.carried = pctl.carried
          /\ pctl'.survivors = pctl.survivors
      BY <1>0, <2>3 DEF Master
    <3>3. Inv(pctl', proc)
      BY <1>0, <3>1, <3>2, QuietInv
    <3>. QED BY <2>1, <3>3 DEF IInv
  <2>. QED BY <1>9, <2>2, <2>3 DEF GatewayRespawn
<1>10. ASSUME NEW g \in Gateways, GatewayGone(g) PROVE IInv'
  <2> DEFINE m == [pctl EXCEPT !.gwpids = @ \ {g}]
  <2>1. gw' \in [Gateways -> GwStates] /\ proc' = proc
    BY <1>0, <1>10 DEF GatewayGone, GwStates
  <2>2. pctl.run = "loop" /\ pctl.state # "NORMAL"
    BY <1>10 DEF GatewayGone, InLoop
  <2>3. /\ m \in Master /\ m.run = pctl.run
        /\ m.state = pctl.state /\ m.held = pctl.held
        /\ m.signal_sent = pctl.signal_sent /\ m.escalated = pctl.escalated
        /\ m.timer = pctl.timer /\ m.children = pctl.children
        /\ m.sent = pctl.sent /\ m.carried = pctl.carried
        /\ m.survivors = pctl.survivors
    BY <1>0 DEF Master
  <2>4. pctl' = IF fpm_http_ready_gateways_alive(m) THEN m ELSE fpm_pctl_release_deferred(m)
    BY <1>10 DEF GatewayGone
  <2>. HIDE DEF m
  <2>5. CASE fpm_http_ready_gateways_alive(m) \/ m.held = "none"
    <3>1. Inv(m, proc)
      BY <1>0, <2>3, <2>5, QuietInv
    <3>2. pctl' = m
      BY <2>4, <2>5 DEF fpm_pctl_release_deferred
    <3>. QED BY <2>1, <3>1, <3>2 DEF IInv
  <2>6. CASE ~fpm_http_ready_gateways_alive(m) /\ m.held # "none"
    <3>1. Linked(m) = Linked(pctl) /\ Carried(m) = Carried(pctl)
      BY <2>3 DEF Linked, Carried
    <3>2. Owners(m) /\ Spared(m) /\ Accounted(m, proc)
      BY <1>0, <2>3, <3>1 DEF Inv, Owners, Spared, Accounted
    <3>3. Told(m) /\ m.signal_sent = m.held
      BY <1>0, <2>3, <2>6, SMT DEF Inv, Told, Held, ChildSignal
    <3>4. Inv(fpm_pctl_release_deferred(m), proc)
      BY <1>0, <2>2, <2>3, <2>6, <3>2, <3>3, ReleaseInv
    <3>. QED BY <2>1, <2>4, <2>6, <3>4 DEF IInv
  <2>. QED BY <2>5, <2>6
<1>11. ASSUME DrainBegin \/ DrainKill \/ \E g \in Gateways : DrainReap(g) PROVE IInv'
  <2>1. gw' \in [Gateways -> GwStates] /\ proc' = proc
    BY <1>0, <1>11 DEF DrainBegin, DrainKill, DrainReap, GwStates
  <2>2. /\ pctl' \in Master /\ pctl.run \in {"finish", "drain"} /\ pctl'.run = "drain"
        /\ pctl'.state = pctl.state /\ pctl'.held = pctl.held
        /\ pctl'.signal_sent = pctl.signal_sent /\ pctl'.escalated = pctl.escalated
        /\ pctl'.timer = pctl.timer /\ pctl'.children = pctl.children
        /\ pctl'.sent = pctl.sent /\ pctl'.carried = pctl.carried
        /\ pctl'.survivors = pctl.survivors
    BY <1>0, <1>11, SMT DEF DrainBegin, DrainKill, DrainReap, Master
  <2>3. Inv(pctl', proc)
    BY <1>0, <2>2, QuietInv
  <2>. QED BY <2>1, <2>3 DEF IInv
<1>12. ASSUME Leave PROVE IInv'
  <2>1. pctl.run = "drain" /\ proc' = proc /\ gw' = gw
    BY <1>12 DEF Leave
  <2>2. CASE pctl' = [pctl EXCEPT !.run = "execed"]
    <3>1. /\ pctl' \in Master /\ pctl'.run = "execed"
          /\ pctl'.state = pctl.state /\ pctl'.held = pctl.held
          /\ pctl'.signal_sent = pctl.signal_sent /\ pctl'.escalated = pctl.escalated
          /\ pctl'.timer = pctl.timer /\ pctl'.children = pctl.children
          /\ pctl'.sent = pctl.sent /\ pctl'.carried = pctl.carried
          /\ pctl'.survivors = pctl.survivors
      BY <1>0, <2>2 DEF Master
    <3>2. Inv(pctl', proc)
      BY <1>0, <2>1, <3>1, QuietInv
    <3>. QED BY <1>0, <2>1, <3>2 DEF IInv
  <2>3. CASE pctl.state = "RELOADING" /\ pctl' = ExecFailed(pctl)
    <3> DEFINE n == ExecFailed(pctl)
    <3>1. /\ n \in Master /\ n.run = "exited" /\ n.state = pctl.state
          /\ n.held = pctl.held /\ n.children = pctl.children
          /\ n.survivors = pctl.survivors /\ Carried(n) = {}
          /\ \A c \in Pids : pctl.sent[c] \subseteq n.sent[c]
          /\ \A c \in Carried(pctl) \cup pctl.survivors : n.sent[c] # {}
      BY <1>0, ExecFailedFields
    <3>2. pctl' = n
      BY <2>3
    <3>. HIDE DEF n
    <3>4. Linked(pctl) = {} /\ pctl.held = "none"
      BY <1>0, <2>1 DEF Inv, Spared, Held
    <3>5. Linked(n) = {}
      BY <3>1, <3>4, SMT DEF Linked
    <3>6. Owners(n) /\ Calm(n) /\ Held(n) /\ Timed(n) /\ Told(n)
      BY <1>0, <2>3, <3>1, <3>4, <3>5 DEF Inv, Owners, Calm, Held, Timed, Told
    <3>7. Spared(n)
      BY <3>1, <3>5 DEF Spared
    <3>8. Accounted(n, proc)
      BY <1>0, <3>1, <3>4, <3>5 DEF Inv, Accounted
    <3>. QED BY <1>0, <2>1, <3>1, <3>2, <3>6, <3>7, <3>8 DEF IInv, Inv
  <2>4. CASE pctl.state # "RELOADING" /\ pctl' = [pctl EXCEPT !.run = "exited"]
    <3>1. /\ pctl' \in Master /\ pctl'.run = "exited"
          /\ pctl'.state = pctl.state /\ pctl'.held = pctl.held
          /\ pctl'.children = pctl.children /\ pctl'.sent = pctl.sent
          /\ pctl'.carried = pctl.carried /\ pctl'.survivors = pctl.survivors
      BY <1>0, <2>4 DEF Master
    <3>2. Linked(pctl) = {} /\ Carried(pctl) = {} /\ pctl.held = "none"
          /\ pctl.state # "NORMAL"
      BY <1>0, <2>1, <2>4 DEF Inv, Spared, Held, Calm
    <3>3. Linked(pctl') = {} /\ Carried(pctl') = {}
      BY <3>1, <3>2 DEF Linked, Carried
    <3>4. Owners(pctl') /\ Calm(pctl') /\ Held(pctl') /\ Timed(pctl') /\ Told(pctl')
      BY <1>0, <3>1, <3>2, <3>3 DEF Inv, Owners, Calm, Held, Timed, Told
    <3>5. Spared(pctl') /\ Accounted(pctl', proc)
      BY <1>0, <2>4, <3>1, <3>2, <3>3 DEF Inv, Spared, Accounted
    <3>. QED BY <1>0, <2>1, <3>1, <3>4, <3>5 DEF IInv, Inv
  <2>. QED BY <1>12, <2>2, <2>3, <2>4 DEF Leave
<1>15. ASSUME LogRotate PROVE IInv'
  <2> DEFINE n == fpm_pctl_kill_all([pctl EXCEPT !.sent = [c \in Pids |-> {}]],
                                    "QUIT", NoPlan, "pass")
             x == n.other \cup {c \in Pids : n.sent[c] # {}}
  <2>1. /\ pctl.run = "loop" /\ UNCHANGED <<proc, gw>>
        /\ pctl' = [n EXCEPT !.sent = pctl.sent, !.other = x]
    BY <1>15 DEF LogRotate, InLoop
  <2>2. n.other \in SUBSET Pids
    BY <1>0, SMT DEF fpm_pctl_kill_all, Master
  <2>3. x \in SUBSET Pids
    BY <2>2
  <2>4. n = fpm_pctl_kill_all([pctl EXCEPT !.sent = [c \in Pids |-> {}]],
                              "QUIT", NoPlan, "pass")
    OBVIOUS
  <2>. HIDE DEF x, n
  <2>5. Inv([n EXCEPT !.sent = pctl.sent, !.other = x], proc)
    BY <1>0, <2>1, <2>3, <2>4, RotateInv
  <2>. QED BY <1>0, <2>1, <2>5 DEF IInv
<1>16. ASSUME NEW p \in Pools, NEW c \in Pids, RequestTimeout(p, c) \/ IdleKill(p, c)
       PROVE  IInv'
  <2>1. /\ pctl.run = "loop" /\ UNCHANGED <<proc, gw>>
        /\ pctl' = [pctl EXCEPT !.other = pctl.other \cup {c}]
    BY <1>16 DEF RequestTimeout, IdleKill, InLoop
  <2>2. pctl.other \cup {c} \in SUBSET Pids
    BY <1>0 DEF Master
  <2>3. Inv(pctl', proc)
    BY <1>0, <2>1, <2>2, OtherInv
  <2>. QED BY <1>0, <2>1, <2>3 DEF IInv
<1>13. CASE UNCHANGED vars
  BY <1>0, <1>13 DEF vars, IInv
<1>. QED BY <1>1, <1>2, <1>3, <1>4, <1>5, <1>6, <1>7, <1>8, <1>9, <1>10, <1>11,
            <1>12, <1>13, <1>15, <1>16 DEF Next

\* IInv is an invariant of the specification.
THEOREM Invariance == Spec => []IInv
BY InitIInv, NextIInv, PTL DEF Spec

\* The type invariant.
THEOREM TypeCorrect == Spec => []TypeOK
<1>1. IInv => TypeOK
  BY DEF IInv, Inv, TypeOK
<1>. QED BY <1>1, Invariance, PTL

\* A stop in the event loop always has its escalation timer queued
\* (fpm_pctl_action_next, fpm_pctl_release_deferred).
THEOREM TimerTheorem == Spec => []StopTimerArmed
<1>1. IInv => StopTimerArmed
  BY DEF IInv, Inv, Timed, StopTimerArmed, InLoop
<1>. QED BY <1>1, Invariance, PTL

\* Every linked child got the signal of the current pass or is held for the
\* window (fpm_pctl_kill_all, fpm_children_may_fork).
THEOREM ToldTheorem == Spec => []EveryChildTold
<1>1. IInv => EveryChildTold
  BY DEF IInv, Inv, Told, EveryChildTold, InLoop
<1>. QED BY <1>1, Invariance, PTL

\* No pass of a stop or reload signals a held pool while the window is open
\* (fpm_pctl_window_hold_pool).  Log rotation and request timeouts are steps
\* of the specification too, and their signals are in pctl.other.
THEOREM WindowTheorem == Spec => []WindowUndisturbed
<1>1. IInv => WindowUndisturbed
  BY DEF IInv, Inv, Held, WindowUndisturbed
<1>. QED BY <1>1, Invariance, PTL

\* No process has two owners and no list names a reaped one.
THEOREM OwnerTheorem == Spec => []OneOwner
<1>1. IInv => OneOwner
  BY DEF IInv, Inv, Owners, Accounted, OneOwner
<1>. QED BY <1>1, Invariance, PTL

\* The workers that a reload spares are left alone, and the exec finds every
\* other process gone or told (fpm_reload_selective_spare_pool).
THEOREM SparedTheorem == Spec => []SparedUntouched
<1>1. IInv => SparedUntouched
  BY DEF IInv, Inv, Spared, Accounted, SparedUntouched
<1>. QED BY <1>1, Invariance, PTL

\* When the master is gone for good, no worker is left that nobody asked to
\* stop, but for the survivor of a supervisor pool when a stop overrides the
\* reload (fpm_reload_selective_discard_unadopted, fpm_pctl_exec).
THEOREM LeftBehindTheorem == Spec => []NoOneLeftBehind
<1>1. IInv => NoOneLeftBehind
  BY DEF IInv, Inv, Spared, Accounted, NoOneLeftBehind
<1>. QED BY <1>1, Invariance, PTL

\* A stop runs in order, for any pools, children and gateways.
THEOREM StopTheorem == Spec => []StopInOrder
<1>1. StopTimerArmed /\ EveryChildTold /\ WindowUndisturbed => StopInOrder
  BY DEF StopInOrder
<1>. QED BY <1>1, TimerTheorem, ToldTheorem, WindowTheorem, PTL

\* No worker is lost or hit by mistake, for any pools, children and gateways.
THEOREM WorkersTheorem == Spec => []WorkersAccounted
<1>1. OneOwner /\ SparedUntouched /\ NoOneLeftBehind => WorkersAccounted
  BY DEF WorkersAccounted
<1>. QED BY <1>1, OwnerTheorem, SparedTheorem, LeftBehindTheorem, PTL

=============================================================================
