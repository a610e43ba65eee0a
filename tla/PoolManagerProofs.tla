-------------------------- MODULE PoolManagerProofs -------------------------
(***************************************************************************)
(* The pool of children, proved for every section and every clock: the     *)
(* backoff is sound, a fork waits for the end of the streak's delay, and a *)
(* scale-down gives a draining child its grace.  The inductive invariant   *)
(* PoolInv adds to the checked ones what they rest on: a child that was    *)
(* told anything is a scale-down's (a static pool has none), a wait exists *)
(* only while the pool lacks a child, the dead children nobody has buried  *)
(* yet are part of the crashes a streak may count, and a drain's entry is  *)
(* never older than the signal.                                            *)
(***************************************************************************)
EXTENDS PoolManager, SequenceTheorems, FiniteSetTheorems, TLAPS

\* Leaves go to Zenon unless they name another prover.
USE ZenonT(30)

\* A child is told to leave by a scale-down only, which a static pool has not.
Tame(c) ==
  /\ c.told # "none" => c.idle_kill
  /\ PM = "static" => ~c.idle_kill

\* The drain of a child, where its entry is never lost.
Drained(c) ==
  Drains /\ ~ForkFails /\ ~Slowlog =>
    /\ c.told = "KILL" => c.asked = Grace
    /\ c.idle_kill => c.told = "KILL" \/ c.drain # Unset
    /\ c.drain # Unset => c.asked # Unset /\ c.drain <= c.asked

Sound(c) == c \in Child /\ Tame(c) /\ Drained(c)

OneWatched(s) == \A i, j \in 1 .. Len(s) : s[i].watched /\ s[j].watched => i = j

Good(s) == /\ s \in Seq(Child)
           /\ \A i \in 1 .. Len(s) : Sound(s[i])
           /\ OneWatched(s)

\* The dead that count: nobody asked them to leave.
Lost(s) == {i \in 1 .. Len(s) : s[i].dead /\ ~s[i].idle_kill}

Back(e) ==
  /\ e \in Entry
  /\ e.armed = e.queued
  /\ e.failures = 0 => e.next = Unset /\ ~e.gave_up /\ ~e.shown
  /\ e.gave_up => MaxFailures > 0 /\ e.failures >= MaxFailures
  /\ e.next > 0 => e.shown

Based(p) ==
  /\ p \in [children : Seq(Child), idle_spawn_rate : 1 .. 2 * MaxSpawnRate - 1, backoff : Entry]
  /\ Good(p.children)
  /\ Len(p.children) <= MaxChildren
  /\ Back(p.backoff)
  /\ p.backoff.next # Unset => Len(p.children) < MaxChildren

\* A fork may be refused: it fails, or process.max is reached.
MayRefuse == ForkFails \/ Crowded

Shows(p) == p.backoff.shown /\ ~MayRefuse => p.backoff.next # Unset

\* A static pool is complete, or its gate timer runs.
Scheduled(p) ==
  PM = "static" /\ ~MayRefuse /\ Len(p.children) < MaxChildren =>
    /\ p.backoff.queued
    /\ p.backoff.next # Unset
    /\ p.backoff.due <= p.backoff.next

\* ... with n for normal and cr for crashes.
Inv(p, n, cr) ==
  /\ Based(p) /\ Shows(p)
  /\ n => Scheduled(p)
  /\ Cardinality(Lost(p.children)) + p.backoff.failures <= cr

PoolInv ==
  /\ conf \in Confs
  /\ Inv(pool, normal, crashes)
  /\ normal \in BOOLEAN /\ backlog \in 0 .. MaxBacklog /\ edge \in BOOLEAN
  /\ crashes \in 0 .. MaxCrashes

-----------------------------------------------------------------------------
(* Lists of children.                                                      *)

LEMMA SeqOf ==
  ASSUME NEW S, NEW n \in Nat, NEW f \in [1 .. n -> S]
  PROVE  f \in Seq(S) /\ Len(f) = n
<1>1. f \in Seq(S)
  BY SeqDef
<1>2. DOMAIN f = 1 .. n /\ DOMAIN f = 1 .. Len(f) /\ Len(f) \in Nat
  BY <1>1, LenProperties
<1> QED BY <1>1, <1>2, SMT

LEMMA ReplacedIs ==
  ASSUME NEW s \in Seq(Child), NEW i \in 1 .. Len(s), NEW c \in Child
  PROVE  LET r == [s EXCEPT ![i] = c] IN
         /\ r \in Seq(Child) /\ Len(r) = Len(s)
         /\ \A j \in 1 .. Len(s) : r[j] = IF j = i THEN c ELSE s[j]
BY ExceptSeq, SMT

LEMMA RemovedIs ==
  ASSUME NEW s \in Seq(Child), NEW i \in 1 .. Len(s)
  PROVE  LET r == Removed(s, i) IN
         /\ r \in Seq(Child) /\ Len(r) = Len(s) - 1
         /\ \A j \in 1 .. Len(s) - 1 : r[j] = IF j < i THEN s[j] ELSE s[j + 1]
<1>1. Len(s) - 1 \in Nat
  BY SMT
<1>2. Removed(s, i) \in [1 .. Len(s) - 1 -> Child]
  BY <1>1, SMT DEF Removed
<1> QED BY <1>1, <1>2, SeqOf, SMT DEF Removed

\* One child changes for a child that is sound, and not newly watched.
LEMMA GoodReplaced ==
  ASSUME NEW s, Good(s), NEW i \in 1 .. Len(s), NEW c, Sound(c), c.watched = s[i].watched
  PROVE  LET r == [s EXCEPT ![i] = c] IN
         /\ Good(r) /\ Len(r) = Len(s)
         /\ \A j \in 1 .. Len(s) : r[j] = IF j = i THEN c ELSE s[j]
<1> DEFINE r == [s EXCEPT ![i] = c]
<1>1. /\ r \in Seq(Child) /\ Len(r) = Len(s)
      /\ \A j \in 1 .. Len(s) : r[j] = IF j = i THEN c ELSE s[j]
  BY ReplacedIs, SMT DEF Good, Sound
<1> HIDE DEF r
<1>2. \A j \in 1 .. Len(r) : Sound(r[j])
  BY <1>1 DEF Good
<1>3. OneWatched(r)
  BY <1>1 DEF Good, OneWatched
<1>4. Good(r)
  BY <1>1, <1>2, <1>3 DEF Good
<1> QED BY <1>1, <1>4 DEF r

LEMMA GoodRemoved ==
  ASSUME NEW s, Good(s), NEW i \in 1 .. Len(s)
  PROVE  LET r == Removed(s, i) IN
         /\ Good(r) /\ Len(r) = Len(s) - 1
         /\ \A j \in 1 .. Len(s) - 1 : r[j] = IF j < i THEN s[j] ELSE s[j + 1]
<1> DEFINE r == Removed(s, i)
<1>0. s \in Seq(Child) /\ Len(s) \in Nat
  BY SMT DEF Good
<1>1. /\ r \in Seq(Child) /\ Len(r) = Len(s) - 1
      /\ \A j \in 1 .. Len(s) - 1 : r[j] = IF j < i THEN s[j] ELSE s[j + 1]
  BY <1>0, RemovedIs
<1> HIDE DEF r
<1>2. ASSUME NEW j \in 1 .. Len(r)
      PROVE  \E k \in 1 .. Len(s) : r[j] = s[k] /\ k = IF j < i THEN j ELSE j + 1
  BY <1>0, <1>1, SMT
<1>3. \A j \in 1 .. Len(r) : Sound(r[j])
  BY <1>2 DEF Good
<1>4. OneWatched(r)
  <2> SUFFICES ASSUME NEW j \in 1 .. Len(r), NEW k \in 1 .. Len(r), r[j].watched, r[k].watched
               PROVE  j = k
    BY DEF OneWatched
  <2>1. PICK m \in 1 .. Len(s) : r[j] = s[m] /\ m = IF j < i THEN j ELSE j + 1
    BY <1>2
  <2>2. PICK n \in 1 .. Len(s) : r[k] = s[n] /\ n = IF k < i THEN k ELSE k + 1
    BY <1>2
  <2>3. m = n
    BY <2>1, <2>2 DEF Good, OneWatched
  <2> QED BY <1>0, <1>1, <2>1, <2>2, <2>3, SMT
<1>5. Good(r)
  BY <1>1, <1>3, <1>4 DEF Good
<1> QED BY <1>1, <1>5 DEF r


-----------------------------------------------------------------------------
(* The sections, and the backoff of a pool.                                *)

LEMMA ConfIs ==
  ASSUME conf \in Confs
  PROVE  /\ PM \in {"static", "dynamic", "ondemand"}
         /\ MaxChildren \in Nat \ {0} /\ MaxSpawnRate \in Nat \ {0}
         /\ StartServers \in Nat /\ MinSpare \in Nat /\ MaxSpare \in Nat
         /\ StartServers <= MaxSpare /\ MaxSpare <= MaxChildren
         /\ IdleTimeout \in Nat /\ Grace \in Nat /\ MaxCrashes \in Nat
         /\ Drains \in BOOLEAN /\ Slowlog \in BOOLEAN
BY PoolManagerAssumption
   DEF PM, MaxChildren, MaxSpawnRate, StartServers, MinSpare, MaxSpare, IdleTimeout, Grace,
       MaxCrashes, Drains, Slowlog

\* What a fork may rely on: the wait is over, or the gate timer is moved.
LEMMA MaySpawn ==
  ASSUME NEW e, Back(e)
  PROVE  LET f == fpm_crash_backoff_may_spawn(e) IN
         /\ Back(f) /\ f.failures = e.failures /\ f.shown = e.shown /\ f.survive = e.survive
         /\ GateOpen(e) => f.next = Unset
         /\ ~GateOpen(e) => /\ f.next = e.next /\ f.queued /\ f.due <= f.next /\ e.next # Unset
<1>1. CASE GateOpen(e)
  <2> DEFINE f == [e EXCEPT !.next = Unset]
  <2>1. /\ f \in Entry /\ f.failures = e.failures /\ f.shown = e.shown /\ f.survive = e.survive
        /\ f.armed = e.armed /\ f.queued = e.queued /\ f.gave_up = e.gave_up /\ f.next = Unset
    BY DEF Back, Entry
  <2>2. fpm_crash_backoff_may_spawn(e) = f
    BY <1>1 DEF fpm_crash_backoff_may_spawn
  <2> HIDE DEF f
  <2>3. Back(f)
    BY <2>1, SMT DEF Back, Unset
  <2> QED BY <1>1, <2>1, <2>2, <2>3
<1>2. CASE ~GateOpen(e) /\ (~e.armed \/ e.next < e.due)
  <2> DEFINE f == AddGate(e)
  <2>0. e.next \in 0 .. CAP
    BY <1>2, SMT DEF Back, Entry, GateOpen, Unset
  <2>1. /\ f \in Entry /\ f.failures = e.failures /\ f.shown = e.shown /\ f.survive = e.survive
        /\ f.armed /\ f.queued /\ f.gave_up = e.gave_up /\ f.next = e.next /\ f.due = e.next
    BY <2>0 DEF AddGate, Back, Entry
  <2>2. fpm_crash_backoff_may_spawn(e) = f
    BY <1>2 DEF fpm_crash_backoff_may_spawn
  <2> HIDE DEF f
  <2>3. Back(f)
    BY <2>1 DEF Back
  <2>4. e.next # Unset /\ f.due <= f.next
    BY <2>0, <2>1, CrashBackoffAssumption, SMT DEF Unset
  <2> QED BY <1>2, <2>1, <2>2, <2>3, <2>4
<1>3. CASE ~GateOpen(e) /\ e.armed /\ ~(e.next < e.due)
  <2>0. e.next \in 0 .. CAP /\ e.due \in 0 .. CAP
    BY <1>3, SMT DEF Back, Entry, GateOpen, Unset
  <2>1. fpm_crash_backoff_may_spawn(e) = e
    BY <1>3 DEF fpm_crash_backoff_may_spawn
  <2>2. e.next # Unset /\ e.due <= e.next
    BY <1>3, <2>0, CrashBackoffAssumption, SMT DEF Unset
  <2> QED BY <1>3, <2>1, <2>2 DEF Back
<1> QED BY <1>1, <1>2, <1>3

LEMMA Spawned ==
  ASSUME NEW e, Back(e), e.next = Unset
  PROVE  LET f == fpm_crash_backoff_child_spawned(e) IN
         Back(f) /\ f.failures = e.failures /\ f.next = Unset /\ ~f.shown
<1> DEFINE f == fpm_crash_backoff_child_spawned(e)
<1>1. PICK t \in {Unset} \cup (0 .. WINDOW) : t = IF e.failures > 0 THEN WINDOW ELSE e.survive
  BY CrashBackoffAssumption, SMT DEF Back, Entry
<1>2. f = [e EXCEPT !.shown = FALSE, !.survive = t]
  BY <1>1 DEF fpm_crash_backoff_child_spawned
<1>3. /\ f \in Entry /\ f.failures = e.failures /\ ~f.shown /\ f.armed = e.armed /\ f.queued = e.queued
      /\ f.gave_up = e.gave_up /\ f.next = e.next
  BY <1>2 DEF Back, Entry
<1> HIDE DEF f
<1>4. Back(f)
  BY <1>3, SMT DEF Back, Unset
<1> QED BY <1>3, <1>4 DEF f

LEMMA Cleared ==
  ASSUME NEW e, Back(e)
  PROVE  LET f == fpm_crash_backoff_clear(e) IN
         Back(f) /\ f.failures = 0 /\ f.next = Unset /\ ~f.shown
<1> DEFINE f == fpm_crash_backoff_clear(e)
<1>1. /\ f \in Entry /\ f.failures = 0 /\ ~f.shown /\ f.armed = e.armed /\ f.queued = e.queued
      /\ ~f.gave_up /\ f.next = Unset
  BY DEF fpm_crash_backoff_clear, Back, Entry
<1> HIDE DEF f
<1>2. Back(f)
  BY <1>1, SMT DEF Back, Unset
<1> QED BY <1>1, <1>2 DEF f


\* Half of a window of two or more is not zero.
LEMMA Half ==
  ASSUME NEW w \in Nat \ {0, 1}
  PROVE  \A d \in UpperHalf(w) : d \in 1 .. w
BY SMT DEF UpperHalf

\* A delay fits the cap, and is zero for the first failure only.
LEMMA DelayIs ==
  ASSUME NEW n \in Nat \ {0}, NEW g \in BOOLEAN,
         NEW d \in fpm_crash_backoff_delay_ms(n, g)
  PROVE  d \in 0 .. CAP /\ (d = 0 => n = 1)
<1> DEFINE shift == IF n - 1 > 7 THEN 7 ELSE n - 1
           window == SECOND * Shift[shift]
           w == IF window > CAP THEN CAP ELSE window
<1>1. CASE g
  <2>1. d \in UpperHalf(CAP)
    BY <1>1 DEF fpm_crash_backoff_delay_ms
  <2> QED BY <2>1, Half, CrashBackoffAssumption, SMT
<1>2. CASE ~g /\ n < 2
  <2>1. d = 0
    BY <1>2 DEF fpm_crash_backoff_delay_ms
  <2> QED BY <1>2, <2>1, CrashBackoffAssumption, SMT
<1>3. CASE ~g /\ ~(n < 2)
  <2>1. d \in UpperHalf(w)
    BY <1>3 DEF fpm_crash_backoff_delay_ms
  <2>2. shift \in 1 .. 7
    BY <1>3, SMT
  <2> HIDE DEF shift
  <2>3. PICK k \in Nat \ {0} : Shift[shift] = k
    BY <2>2, SMT DEF Shift
  <2>4. SECOND * k \in Nat \ {0, 1}
    <3>1. PICK m \in Nat : k = m + 1
      <4>1. k - 1 \in Nat /\ k = (k - 1) + 1
        BY SMT
      <4> QED BY <4>1
    <3>2. SECOND * k = SECOND * m + SECOND /\ SECOND * m \in Nat
      BY <3>1, CrashBackoffAssumption, SMT
    <3> QED BY <3>2, CrashBackoffAssumption, SMT
  <2>5. w \in Nat \ {0, 1} /\ w <= CAP
    <3>1. window = SECOND * k
      BY <2>3
    <3> HIDE DEF window
    <3> QED BY <2>4, <3>1, CrashBackoffAssumption, SMT
  <2> HIDE DEF w
  <2>6. d \in 1 .. w
    BY <2>1, <2>5, Half
  <2> QED BY <2>5, <2>6, CrashBackoffAssumption, SMT
<1> QED BY <1>1, <1>2, <1>3

\* The exit of a child that counts: the streak ends, or it grows by one.
Exited(e, f) ==
  /\ Back(f)
  /\ \/ f.failures = 0 /\ f.next = Unset /\ ~f.shown
     \/ /\ f.failures = e.failures + 1 /\ f.next # Unset
        /\ f.next <= 0 => e.failures = 0

LEMMA ExitedIs ==
  ASSUME NEW e, Back(e), NEW served \in BOOLEAN, NEW life \in Nat,
         NEW f \in fpm_crash_backoff_child_exited(e, served, life)
  PROVE  Exited(e, f)
<1>1. CASE served \/ life >= WINDOW
  BY <1>1, Cleared DEF fpm_crash_backoff_child_exited, Exited
<1>2. CASE ~(served \/ life >= WINDOW)
  <2>0. e.failures \in Nat /\ e.gave_up \in BOOLEAN
    BY DEF Back, Entry
  <2>1. GivesUp(e) \in BOOLEAN /\ e.failures + 1 \in Nat \ {0}
    BY <2>0, CrashBackoffAssumption, SMT DEF GivesUp
  <2>2. PICK n \in Nat \ {0} : n = e.failures + 1
    BY <2>1
  <2>3. PICK g \in BOOLEAN : g = GivesUp(e)
    BY <2>1
  <2>4. PICK d \in fpm_crash_backoff_delay_ms(n, g) :
          f = [e EXCEPT !.failures = n, !.gave_up = g, !.shown = d > 0, !.next = d]
    BY <1>2, <2>2, <2>3 DEF fpm_crash_backoff_child_exited, FastFailure
  <2>5. d \in 0 .. CAP /\ (d = 0 => n = 1)
    BY DelayIs
  <2>6. PICK b \in BOOLEAN : b = (d > 0)
    <3>1. (d > 0) \in BOOLEAN
      BY <2>5, SMT
    <3> QED BY <3>1
  <2>7. /\ f \in Entry /\ f.failures = n /\ f.gave_up = g /\ f.shown = b /\ f.next = d
        /\ f.armed = e.armed /\ f.queued = e.queued
    BY <2>4, <2>5, <2>6 DEF Back, Entry
  <2>8. d # Unset /\ (d <= 0 => d = 0)
    BY <2>5, CrashBackoffAssumption, SMT DEF Unset
  <2>9. g => MaxFailures > 0 /\ n >= MaxFailures
    <3>1. e.gave_up => MaxFailures > 0 /\ n >= MaxFailures
      BY <2>0, <2>2, CrashBackoffAssumption, SMT DEF Back
    <3> QED BY <2>2, <2>3, <3>1 DEF GivesUp
  <2>10. Back(f)
    <3>1. f.armed = f.queued
      BY <2>7 DEF Back
    <3> QED BY <2>6, <2>7, <2>9, <3>1 DEF Back
  <2>11. d = 0 => e.failures = 0
    BY <2>0, <2>2, <2>5, SMT
  <2> QED BY <2>2, <2>7, <2>8, <2>10, <2>11 DEF Exited
<1> QED BY <1>1, <1>2


-----------------------------------------------------------------------------
(* Forks.                                                                  *)

LEMMA NewbornSound ==
  ASSUME conf \in Confs, NEW b \in BOOLEAN
  PROVE  Sound(Newborn(b)) /\ Newborn(b).watched = b /\ ~Newborn(b).dead
<1>1. Newborn(b) \in Child
  BY ConfIs, CrashBackoffAssumption, SMT DEF Newborn, Child, Unset
<1>2. Tame(Newborn(b)) /\ Drained(Newborn(b))
  BY DEF Newborn, Tame, Drained
<1> QED BY <1>1, <1>2 DEF Sound, Newborn

\* The list t is s with nobody watched, or s itself.
Unwatched(s, t, all) ==
  /\ t \in Seq(Child) /\ Len(t) = Len(s)
  /\ \A i \in 1 .. Len(s) : /\ Sound(t[i]) /\ t[i].dead = s[i].dead /\ t[i].idle_kill = s[i].idle_kill
                            /\ t[i].watched => s[i].watched /\ ~all

LEMMA UnwatchIs ==
  ASSUME NEW s, Good(s), NEW e, NEW k
  PROVE  Unwatched(s, Unwatch(s, e, k), e.failures > 0 /\ k > 0)
<1>0. s \in Seq(Child) /\ Len(s) \in Nat /\ DOMAIN s = 1 .. Len(s)
  BY SMT DEF Good
<1>1. CASE e.failures > 0 /\ k > 0
  <2> DEFINE t == [i \in 1 .. Len(s) |-> [s[i] EXCEPT !.watched = FALSE]]
  <2>1. Unwatch(s, e, k) = t
    BY <1>0, <1>1 DEF Unwatch
  <2>2. ASSUME NEW i \in 1 .. Len(s)
        PROVE  /\ t[i] \in Child /\ Sound(t[i]) /\ ~t[i].watched
               /\ t[i].dead = s[i].dead /\ t[i].idle_kill = s[i].idle_kill
    <3> DEFINE c == [s[i] EXCEPT !.watched = FALSE]
    <3>1. s[i] \in Child /\ Tame(s[i]) /\ Drained(s[i])
      BY DEF Good, Sound
    <3>2. /\ c \in Child /\ ~c.watched /\ c.dead = s[i].dead /\ c.idle_kill = s[i].idle_kill
          /\ c.told = s[i].told /\ c.asked = s[i].asked /\ c.drain = s[i].drain
      BY <3>1 DEF Child
    <3>3. t[i] = c
      OBVIOUS
    <3> HIDE DEF c, t
    <3>4. Sound(c)
      BY <3>1, <3>2 DEF Sound, Tame, Drained
    <3> QED BY <3>2, <3>3, <3>4
  <2>3. t \in [1 .. Len(s) -> Child]
    BY <2>2
  <2>4. t \in Seq(Child) /\ Len(t) = Len(s)
    BY <1>0, <2>3, SeqOf, SMT
  <2> HIDE DEF t
  <2> QED BY <2>1, <2>2, <2>4 DEF Unwatched
<1>2. CASE ~(e.failures > 0 /\ k > 0)
  BY <1>0, <1>2 DEF Unwatch, Unwatched, Good
<1> QED BY <1>1, <1>2

LEMMA NewbornsAre ==
  ASSUME conf \in Confs, NEW e, e.failures \in Nat, NEW k \in Nat
  PROVE  LET n == Newborns(e, k) IN
         /\ n \in Seq(Child) /\ Len(n) = k
         /\ \A i \in 1 .. k : /\ Sound(n[i]) /\ ~n[i].dead
                              /\ n[i].watched => i = k /\ e.failures > 0
<1> DEFINE n == Newborns(e, k)
<1>1. ASSUME NEW i \in 1 .. k
      PROVE  /\ n[i] \in Child /\ Sound(n[i]) /\ ~n[i].dead
             /\ n[i].watched => i = k /\ e.failures > 0
  <2>1. (e.failures > 0 /\ i = k) \in BOOLEAN
    OBVIOUS
  <2>2. PICK b \in BOOLEAN : b = (e.failures > 0 /\ i = k)
    BY <2>1
  <2>3. n[i] = Newborn(b)
    BY <2>2 DEF Newborns
  <2> QED BY <2>2, <2>3, NewbornSound DEF Sound
<1>2. n \in [1 .. k -> Child]
  <2>1. n = [i \in 1 .. k |-> n[i]]
    BY DEF Newborns
  <2> HIDE DEF n
  <2> QED BY <1>1, <2>1
<1>3. n \in Seq(Child) /\ Len(n) = k
  BY <1>2, SeqOf
<1> HIDE DEF n
<1>4. /\ n \in Seq(Child) /\ Len(n) = k
      /\ \A i \in 1 .. k : /\ Sound(n[i]) /\ ~n[i].dead
                           /\ n[i].watched => i = k /\ e.failures > 0
  BY <1>1, <1>3
<1> QED BY <1>4 DEF n

\* The list after k forks.
Grown(s, r, k) == /\ Good(r) /\ Len(r) = Len(s) + k
                  /\ Lost(r) = Lost(s)

LEMMA GrownIs ==
  ASSUME conf \in Confs, NEW s, Good(s), NEW e, e.failures \in Nat, NEW k \in Nat
  PROVE  Grown(s, Unwatch(s, e, k) \o Newborns(e, k), k)
<1> DEFINE t == Unwatch(s, e, k)
           n == Newborns(e, k)
           r == t \o n
<1>0. s \in Seq(Child) /\ Len(s) \in Nat
  BY SMT DEF Good
<1>1. Unwatched(s, t, e.failures > 0 /\ k > 0)
  BY UnwatchIs
<1>2. /\ n \in Seq(Child) /\ Len(n) = k
      /\ \A i \in 1 .. k : Sound(n[i]) /\ ~n[i].dead /\ (n[i].watched => i = k /\ e.failures > 0)
  BY NewbornsAre
<1> HIDE DEF t, n
<1>3. t \in Seq(Child) /\ Len(t) = Len(s)
  BY <1>1 DEF Unwatched
<1>4. /\ r \in Seq(Child) /\ Len(r) = Len(s) + k
      /\ \A i \in 1 .. Len(s) + k : r[i] = IF i <= Len(s) THEN t[i] ELSE n[i - Len(s)]
  <2>1. /\ r \in Seq(Child) /\ Len(r) = Len(t) + Len(n)
        /\ \A i \in 1 .. Len(t) + Len(n) : r[i] = IF i <= Len(t) THEN t[i] ELSE n[i - Len(t)]
    BY <1>2, <1>3, ConcatProperties
  <2> HIDE DEF r
  <2> QED BY <1>2, <1>3, <2>1
<1> HIDE DEF r
<1>5. ASSUME NEW i \in 1 .. Len(r)
      PROVE  \/ i \in 1 .. Len(s) /\ r[i] = t[i]
             \/ i > Len(s) /\ i - Len(s) \in 1 .. k /\ r[i] = n[i - Len(s)]
  BY <1>0, <1>4, SMT
<1>6. \A i \in 1 .. Len(r) : Sound(r[i])
  BY <1>1, <1>2, <1>5 DEF Unwatched
<1>7. OneWatched(r)
  <2> SUFFICES ASSUME NEW i \in 1 .. Len(r), NEW j \in 1 .. Len(r), r[i].watched, r[j].watched
               PROVE  i = j
    BY DEF OneWatched
  <2>1. CASE i \in 1 .. Len(s) /\ j \in 1 .. Len(s)
    <3>1. s[i].watched /\ s[j].watched
      BY <1>0, <1>1, <1>5, <2>1, SMTT(30) DEF Unwatched
    <3> QED BY <2>1, <3>1 DEF Good, OneWatched
  <2>2. CASE i > Len(s) /\ j > Len(s)
    BY <1>0, <1>2, <1>4, <1>5, <2>2, SMTT(30)
  <2>3. CASE i \in 1 .. Len(s) /\ j > Len(s)
    <3>1. ~(e.failures > 0 /\ k > 0)
      BY <1>0, <1>1, <1>5, <2>3, SMTT(30) DEF Unwatched
    <3>2. k > 0 /\ e.failures > 0
      BY <1>0, <1>2, <1>5, <2>3, SMTT(30)
    <3> QED BY <3>1, <3>2
  <2>4. CASE i > Len(s) /\ j \in 1 .. Len(s)
    <3>1. ~(e.failures > 0 /\ k > 0)
      BY <1>0, <1>1, <1>5, <2>4, SMTT(30) DEF Unwatched
    <3>2. k > 0 /\ e.failures > 0
      BY <1>0, <1>2, <1>5, <2>4, SMT
    <3> QED BY <3>1, <3>2
  <2> QED BY <1>5, <2>1, <2>2, <2>3, <2>4
<1>8. Lost(r) = Lost(s)
  <2>1. ASSUME NEW i \in Lost(r) PROVE i \in Lost(s)
    <3>1. i \in 1 .. Len(r) /\ r[i].dead /\ ~r[i].idle_kill
      BY <2>1 DEF Lost
    <3>2. i \in 1 .. Len(s) /\ r[i] = t[i]
      BY <1>2, <1>5, <3>1
    <3> QED BY <1>1, <3>1, <3>2 DEF Lost, Unwatched
  <2>2. ASSUME NEW i \in Lost(s) PROVE i \in Lost(r)
    <3>1. i \in 1 .. Len(s) /\ s[i].dead /\ ~s[i].idle_kill
      BY <2>2 DEF Lost
    <3>2. i \in 1 .. Len(r) /\ r[i] = t[i]
      BY <1>0, <1>4, <3>1, SMT
    <3> QED BY <1>1, <3>1, <3>2 DEF Lost, Unwatched
  <2> QED BY <2>1, <2>2
<1>9. Good(r)
  BY <1>4, <1>6, <1>7 DEF Good
<1>10. Grown(s, r, k)
  BY <1>4, <1>8, <1>9 DEF Grown
<1> QED BY <1>10 DEF r, t, n


\* What fpm_children_make() leaves: a fork happens after the wait only, and a
\* static pool that is not complete has its gate timer.
Made(p, q) ==
  /\ Based(q) /\ Shows(q)
  /\ normal => Scheduled(q)
  /\ q.idle_spawn_rate = p.idle_spawn_rate
  /\ q.backoff.failures = p.backoff.failures
  /\ Lost(q.children) = Lost(p.children)
  /\ q.children = p.children \/ (q.backoff.next = Unset /\ p.backoff.next <= 0)

LEMMA WithBackoff ==
  ASSUME NEW p, Based(p), NEW e \in Entry
  PROVE  LET q == [p EXCEPT !.backoff = e] IN
         /\ q \in [children : Seq(Child), idle_spawn_rate : 1 .. 2 * MaxSpawnRate - 1, backoff : Entry]
         /\ q.children = p.children /\ q.idle_spawn_rate = p.idle_spawn_rate /\ q.backoff = e
BY DEF Based

LEMMA ForkedIs ==
  ASSUME conf \in Confs, NEW p, Based(p), GateOpen(p.backoff),
         NEW k \in Nat, Len(p.children) + k <= MaxChildren,
         k = 0 => (p.backoff.shown => MayRefuse),
         PM = "static" /\ ~MayRefuse => Len(p.children) + k = MaxChildren
  PROVE  Made(p, Forked(p, k))
<1> DEFINE e == fpm_crash_backoff_may_spawn(p.backoff)
           f == IF k > 0 THEN fpm_crash_backoff_child_spawned(e) ELSE e
           r == Unwatch(p.children, e, k) \o Newborns(e, k)
           q == [p EXCEPT !.children = r, !.backoff = f]
<1>0. Back(p.backoff) /\ Good(p.children) /\ p.children \in Seq(Child) /\ Len(p.children) \in Nat
  BY SMT DEF Based, Good
<1>1. Back(e) /\ e.next = Unset /\ e.failures = p.backoff.failures /\ e.shown = p.backoff.shown
  BY <1>0, MaySpawn
<1>2. Forked(p, k) = q
  BY DEF Forked
<1> HIDE DEF e
<1>3. e.failures \in Nat
  BY <1>1 DEF Back, Entry
<1>4. Grown(p.children, r, k)
  BY <1>0, <1>3, GrownIs
<1>5. Back(f) /\ f.next = Unset /\ f.failures = p.backoff.failures /\ (f.shown => MayRefuse)
  <2>1. CASE k > 0
    BY <1>1, <2>1, Spawned
  <2>2. CASE k = 0
    BY <1>1, <2>2, SMT
  <2> QED BY <2>1, <2>2, SMT
<1> HIDE DEF r, f
<1>6. Good(r) /\ Len(r) = Len(p.children) + k /\ Lost(r) = Lost(p.children)
  BY <1>4 DEF Grown
<1>7. r \in Seq(Child) /\ f \in Entry
  BY <1>5, <1>6 DEF Good, Back
<1>8. /\ q \in [children : Seq(Child), idle_spawn_rate : 1 .. 2 * MaxSpawnRate - 1, backoff : Entry]
      /\ q.children = r /\ q.idle_spawn_rate = p.idle_spawn_rate /\ q.backoff = f
  BY <1>7 DEF Based
<1> HIDE DEF q
<1>9. Based(q)
  BY <1>5, <1>6, <1>8 DEF Based
<1>10. Shows(q)
  BY <1>5, <1>8 DEF Shows
<1>11. Scheduled(q)
  BY <1>0, <1>6, <1>8, ConfIs, SMTT(30) DEF Scheduled
<1>12. p.backoff.next <= 0
  BY DEF GateOpen
<1>13. Made(p, q)
  BY <1>5, <1>6, <1>8, <1>9, <1>10, <1>11, <1>12 DEF Made
<1> QED BY <1>2, <1>13

LEMMA MadeIs ==
  ASSUME conf \in Confs, NEW p, Based(p), NEW nb \in Nat \ {0},
         Shows(p) \/ (normal /\ Len(p.children) < MaxChildren),
         NEW q \in fpm_children_make(p, nb)
  PROVE  Made(p, q)
<1>0. /\ Back(p.backoff) /\ Len(p.children) \in Nat /\ Len(p.children) <= MaxChildren
      /\ MaxChildren \in Nat \ {0} /\ Running(p) = Len(p.children)
  BY ConfIs, SMT DEF Based, Good, Running
<1>1. CASE ~normal \/ Wanted(p, nb) <= 0
  <2>1. q = p
    BY <1>1 DEF fpm_children_make
  <2>2. normal => Len(p.children) = MaxChildren
    BY <1>0, <1>1, SMT DEF Wanted
  <2>3. Shows(p)
    BY <1>0, <2>2, SMT
  <2>4. normal => Scheduled(p)
    BY <1>0, <2>2, SMT DEF Scheduled
  <2> QED BY <2>1, <2>3, <2>4 DEF Made
<1>4. CASE Crowded /\ q = p
  BY <1>4 DEF Made, Shows, Scheduled, MayRefuse
<1>5. \/ ~normal \/ Wanted(p, nb) <= 0
      \/ Crowded /\ q = p
      \/ ~GateOpen(p.backoff) /\ q = [p EXCEPT !.backoff = fpm_crash_backoff_may_spawn(p.backoff)]
      \/ GateOpen(p.backoff) /\ \E k \in Forks(p, nb) : q = Forked(p, k)
  BY DEF fpm_children_make
<1>2. CASE /\ normal /\ Wanted(p, nb) > 0 /\ ~GateOpen(p.backoff)
           /\ q = [p EXCEPT !.backoff = fpm_crash_backoff_may_spawn(p.backoff)]
  <2> DEFINE e == fpm_crash_backoff_may_spawn(p.backoff)
  <2>1. /\ Back(e) /\ e.failures = p.backoff.failures /\ e.shown = p.backoff.shown
        /\ e.next = p.backoff.next /\ e.queued /\ e.due <= e.next /\ e.next # Unset
    BY <1>0, <1>2, MaySpawn
  <2>2. q = [p EXCEPT !.backoff = e]
    BY <1>2
  <2> HIDE DEF e
  <2>3. e \in Entry
    BY <2>1 DEF Back
  <2>4. /\ q \in [children : Seq(Child), idle_spawn_rate : 1 .. 2 * MaxSpawnRate - 1, backoff : Entry]
        /\ q.children = p.children /\ q.idle_spawn_rate = p.idle_spawn_rate /\ q.backoff = e
    BY <2>2, <2>3, WithBackoff
  <2>5. Based(q)
    BY <2>1, <2>4 DEF Based
  <2>6. Shows(q) /\ Scheduled(q)
    BY <2>1, <2>4 DEF Shows, Scheduled
  <2> QED BY <2>1, <2>4, <2>5, <2>6 DEF Made
<1>3. CASE /\ normal /\ Wanted(p, nb) > 0 /\ GateOpen(p.backoff)
           /\ \E k \in Forks(p, nb) : q = Forked(p, k)
  <2> DEFINE most == Least(Wanted(p, nb), MaxChildren - Running(p))
  <2>1. PICK k \in Forks(p, nb) : q = Forked(p, k)
    BY <1>3
  <2>2. /\ most \in Nat /\ most <= MaxChildren - Len(p.children)
        /\ Len(p.children) < MaxChildren => most > 0
        /\ PM = "static" => most = MaxChildren - Len(p.children)
    <3>0. MaxChildren - Len(p.children) \in Nat
      BY <1>0, SMT
    <3>1. PICK room \in Nat : room = MaxChildren - Len(p.children)
      BY <3>0
    <3>2. PICK w \in Nat \ {0} : w = Wanted(p, nb) /\ (PM = "static" => w = room)
      <4>1. CASE PM = "static"
        <5>1. Wanted(p, nb) = room
          BY <1>0, <3>1, <4>1 DEF Wanted
        <5>2. room > 0
          BY <1>3, <5>1
        <5> QED BY <5>1, <5>2, SMT
      <4>2. CASE PM # "static"
        BY <4>2 DEF Wanted
      <4> QED BY <4>1, <4>2
    <3>3. most = IF w < room THEN w ELSE room
      BY <1>0, <3>1, <3>2 DEF Least
    <3> HIDE DEF most
    <3>4. Len(p.children) < MaxChildren => room > 0
      BY <1>0, <3>1, SMT
    <3> QED BY <3>1, <3>2, <3>3, <3>4, SMT
  <2>3. k \in Nat /\ k <= most /\ (~MayRefuse => k = most)
    <3>1. \/ ForkFails /\ k \in 0 .. most
          \/ Crowded /\ k \in Least(1, most) .. most
          \/ ~MayRefuse /\ k = most
      BY <2>1 DEF Forks, MayRefuse
    <3> HIDE DEF most
    <3>2. CASE ForkFails /\ k \in 0 .. most
      BY <2>2, <3>2, SMT DEF MayRefuse
    <3>3. CASE Crowded /\ k \in Least(1, most) .. most
      BY <2>2, <3>3, SMT DEF MayRefuse, Least
    <3>4. CASE ~MayRefuse /\ k = most
      BY <2>2, <3>4, SMT
    <3> QED BY <3>1, <3>2, <3>3, <3>4
  <2> HIDE DEF most
  <2>4. Len(p.children) + k <= MaxChildren
    BY <1>0, <2>2, <2>3, SMT
  <2>5. k = 0 => (p.backoff.shown => MayRefuse)
    <3> SUFFICES ASSUME k = 0, ~MayRefuse, p.backoff.shown PROVE FALSE
      OBVIOUS
    <3>1. ~(Len(p.children) < MaxChildren)
      BY <2>2, <2>3, SMT
    <3>2. p.backoff.next # Unset
      BY <3>1 DEF Shows
    <3> QED BY <3>1, <3>2 DEF Based
  <2>6. PM = "static" /\ ~MayRefuse => Len(p.children) + k = MaxChildren
    BY <1>0, <2>2, <2>3, SMT
  <2> QED BY <1>3, <2>1, <2>3, <2>4, <2>5, <2>6, ForkedIs
<1>6. Wanted(p, nb) <= 0 \/ Wanted(p, nb) > 0
  BY <1>0, SMTT(30) DEF Wanted
<1> QED BY <1>1, <1>2, <1>3, <1>4, <1>5, <1>6


-----------------------------------------------------------------------------
(* The scale-down.                                                         *)

\* What a change of its signals and timers leaves of a child.
Alike(c, d) == /\ d.watched = c.watched /\ d.dead = c.dead

LEMMA SignalIs ==
  ASSUME conf \in Confs, NEW c \in Child, NEW signo \in {"USR1", "QUIT", "KILL"}
  PROVE  LET d == Signal(c, signo) IN
         /\ d \in Child /\ Alike(c, d) /\ d.idle_kill = c.idle_kill /\ d.drain = c.drain
         /\ d.told = IF c.told = "KILL" THEN c.told ELSE signo
         /\ d.asked = IF signo = "USR1" /\ c.asked = Unset THEN 0 ELSE c.asked
<1> DEFINE d == Signal(c, signo)
<1>1. PICK t \in {"none", "USR1", "QUIT", "KILL"} : t = IF c.told = "KILL" THEN c.told ELSE signo
  BY DEF Child
<1>2. 0 \in {Unset} \cup (0 .. Grace)
  BY ConfIs, SMT
<1>3. PICK a \in {Unset} \cup (0 .. Grace) : a = IF signo = "USR1" /\ c.asked = Unset THEN 0 ELSE c.asked
  BY <1>2 DEF Child
<1>4. PICK b \in {Unset} \cup (0 .. Grace) : b = IF signo = "USR1" /\ c.retire = Unset THEN 0 ELSE c.retire
  BY <1>2 DEF Child
<1>5. d = [c EXCEPT !.told = t, !.asked = a, !.retire = b]
  BY <1>1, <1>3, <1>4 DEF Signal
<1>6. /\ d \in Child /\ Alike(c, d) /\ d.idle_kill = c.idle_kill /\ d.drain = c.drain
      /\ d.told = t /\ d.asked = a
  BY <1>5 DEF Child, Alike
<1> HIDE DEF d
<1>7. /\ d \in Child /\ Alike(c, d) /\ d.idle_kill = c.idle_kill /\ d.drain = c.drain
      /\ d.told = IF c.told = "KILL" THEN c.told ELSE signo
      /\ d.asked = IF signo = "USR1" /\ c.asked = Unset THEN 0 ELSE c.asked
  BY <1>1, <1>3, <1>6
<1> QED BY <1>7 DEF d

LEMMA KilledSound ==
  ASSUME conf \in Confs, PM # "static", NEW c, Sound(c), NEW d \in fpm_pctl_kill_idle_child(c)
  PROVE  Sound(d) /\ Alike(c, d) /\ d.idle_kill
<1>0. /\ c \in Child /\ Tame(c) /\ Drained(c) /\ c.told \in {"none", "USR1", "QUIT", "KILL"}
      /\ c.drain \in {Unset} \cup (0 .. Grace) /\ c.asked \in {Unset} \cup (0 .. Grace)
      /\ Grace \in Nat /\ c.idle_kill \in BOOLEAN
  BY ConfIs DEF Sound, Child
<1>1. CASE c.idle_kill /\ Drains /\ c.drain # Unset /\ c.drain < Grace
  BY <1>1 DEF fpm_pctl_kill_idle_child, Alike
<1>2. CASE c.idle_kill /\ ~(Drains /\ c.drain # Unset /\ c.drain < Grace)
  <2> DEFINE b == [c EXCEPT !.drain = Unset]
  <2>1. /\ b \in Child /\ Alike(c, b) /\ b.idle_kill = c.idle_kill /\ b.drain = Unset
        /\ b.told = c.told /\ b.asked = c.asked
    BY <1>0 DEF Child, Alike
  <2>2. d = Signal(b, "KILL")
    BY <1>2 DEF fpm_pctl_kill_idle_child
  <2> HIDE DEF b
  <2>3. /\ d \in Child /\ Alike(b, d) /\ d.idle_kill = b.idle_kill /\ d.drain = b.drain
        /\ d.told = "KILL" /\ d.asked = b.asked
    BY <2>1, <2>2, SignalIs, SMTT(30)
  <2>4. Drains /\ ~ForkFails /\ ~Slowlog => c.asked = Grace
    <3> SUFFICES ASSUME Drains, ~ForkFails, ~Slowlog PROVE c.asked = Grace
      OBVIOUS
    <3>1. CASE c.told = "KILL"
      BY <1>0, <3>1 DEF Drained
    <3>2. CASE c.drain # Unset
      <4>1. c.asked # Unset /\ c.drain <= c.asked
        BY <1>0, <3>2 DEF Drained
      <4>2. c.drain \in 0 .. Grace /\ c.asked \in 0 .. Grace /\ ~(c.drain < Grace)
        BY <1>0, <1>2, <3>2, <4>1
      <4> QED BY <1>0, <4>1, <4>2, SMTT(30)
    <3> QED BY <1>0, <1>2, <3>1, <3>2 DEF Drained
  <2>5. Tame(d) /\ Drained(d)
    BY <1>0, <1>2, <2>1, <2>3, <2>4 DEF Tame, Drained
  <2> QED BY <1>2, <2>1, <2>3, <2>5 DEF Sound, Alike
<1>3. CASE ~c.idle_kill /\ Drains
  <2>1. PICK t \in {0, Unset} : /\ d = Signal([c EXCEPT !.idle_kill = TRUE, !.drain = t], "USR1")
                                /\ ~ForkFails => t = 0
    BY <1>3 DEF fpm_pctl_kill_idle_child
  <2> DEFINE b == [c EXCEPT !.idle_kill = TRUE, !.drain = t]
  <2>2. t \in {Unset} \cup (0 .. Grace)
    BY <1>0, SMT
  <2>3. /\ b \in Child /\ Alike(c, b) /\ b.idle_kill /\ b.drain = t
        /\ b.told = c.told /\ b.asked = c.asked
    BY <1>0, <2>2 DEF Child, Alike
  <2>a. d = Signal(b, "USR1")
    BY <2>1
  <2> HIDE DEF b
  <2>4. c.told = "none"
    BY <1>0, <1>3 DEF Tame
  <2>5. /\ d \in Child /\ Alike(b, d) /\ d.idle_kill = b.idle_kill /\ d.drain = b.drain
        /\ d.told = "USR1" /\ d.asked = IF c.asked = Unset THEN 0 ELSE c.asked
    <3>1. /\ d \in Child /\ Alike(b, d) /\ d.idle_kill = b.idle_kill /\ d.drain = b.drain
          /\ d.told = IF b.told = "KILL" THEN b.told ELSE "USR1"
          /\ d.asked = IF "USR1" = "USR1" /\ b.asked = Unset THEN 0 ELSE b.asked
      BY <2>a, <2>3, SignalIs
    <3> QED BY <2>3, <2>4, <3>1
  <2>6. d.asked # Unset /\ 0 <= d.asked
    BY <1>0, <2>5, SMT DEF Unset
  <2>7. Tame(d)
    BY <2>3, <2>5 DEF Tame
  <2>8. Drained(d)
    BY <2>1, <2>3, <2>5, <2>6, SMT DEF Drained, Unset
  <2> QED BY <2>3, <2>5, <2>7, <2>8 DEF Sound, Alike
<1>4. CASE ~c.idle_kill /\ ~Drains
  <2> DEFINE b == [c EXCEPT !.idle_kill = TRUE]
  <2>1. /\ b \in Child /\ Alike(c, b) /\ b.idle_kill
    BY <1>0 DEF Child, Alike
  <2>2. d = Signal(b, "QUIT")
    BY <1>4 DEF fpm_pctl_kill_idle_child
  <2> HIDE DEF b
  <2>3. /\ d \in Child /\ Alike(b, d) /\ d.idle_kill = b.idle_kill
    BY <2>1, <2>2, SignalIs
  <2>4. Tame(d) /\ Drained(d)
    BY <1>4, <2>1, <2>3 DEF Tame, Drained
  <2> QED BY <2>1, <2>3, <2>4 DEF Sound, Alike
<1> QED BY <1>0, <1>1, <1>2, <1>3, <1>4

\* A set of indexes that is not empty has its first.
LEMMA OldestIs ==
  ASSUME NEW S, S \subseteq Nat, S # {}
  PROVE  Oldest(S) \in S
<1> DEFINE R == OpToRel(<, Nat)
<1>1. \A j, i \in Nat : j < i => <<j, i>> \in R
  BY DEF OpToRel
<1>2. IsWellFoundedOn(R, Nat)
  BY NatLessThanWellFounded
<1> HIDE DEF R
<1>3. PICK i \in S : \A j \in S : ~(<<j, i>> \in R)
  BY <1>2, WFMin
<1>4. ASSUME NEW j \in S PROVE i <= j
  <2>1. i \in Nat /\ j \in Nat
    OBVIOUS
  <2>2. ~(j < i)
    BY <1>1, <1>3, <2>1
  <2> QED BY <2>1, <2>2, SMT
<1> QED BY <1>4 DEF Oldest


-----------------------------------------------------------------------------
(* Steps.                                                                  *)

LEMMA Counted ==
  ASSUME NEW p, Based(p)
  PROVE  /\ IsFiniteSet(Lost(p.children)) /\ Cardinality(Lost(p.children)) \in Nat
         /\ IsFiniteSet(Alive(p)) /\ Cardinality(Alive(p)) \in Nat
         /\ Alive(p) = {i \in 1 .. Len(p.children) : ~p.children[i].dead}
<1>1. p.children \in Seq(Child) /\ Len(p.children) \in Nat /\ DOMAIN p.children = 1 .. Len(p.children)
  BY SMT DEF Based, Good
<1>2. IsFiniteSet(1 .. Len(p.children))
  BY <1>1, FS_Interval, SMT
<1>3. Lost(p.children) \subseteq 1 .. Len(p.children) /\ Alive(p) \subseteq 1 .. Len(p.children)
  BY <1>1 DEF Lost, Alive
<1>4. IsFiniteSet(Lost(p.children)) /\ IsFiniteSet(Alive(p))
  BY <1>2, <1>3, FS_Subset
<1> QED BY <1>1, <1>4, FS_CardinalityType DEF Alive

\* One child, or every child, changes; the backoff is as it was.
Changed(p, q) ==
  /\ Based(q)
  /\ q.backoff = p.backoff /\ Len(q.children) = Len(p.children)
  /\ Alive(q) \subseteq Alive(p)

LEMMA ChildChanged ==
  ASSUME NEW p, Based(p), NEW i \in 1 .. Len(p.children), NEW c, Sound(c),
         c.watched = p.children[i].watched, p.children[i].dead => c.dead
  PROVE  LET q == [p EXCEPT !.children[i] = c] IN
         /\ Changed(p, q) /\ q.idle_spawn_rate = p.idle_spawn_rate
         /\ \A j \in 1 .. Len(p.children) : q.children[j] = IF j = i THEN c ELSE p.children[j]
<1> DEFINE r == [p.children EXCEPT ![i] = c]
           q == [p EXCEPT !.children = r]
<1>1. [p EXCEPT !.children[i] = c] = q
  OBVIOUS
<1>2. /\ Good(r) /\ Len(r) = Len(p.children)
      /\ \A j \in 1 .. Len(p.children) : r[j] = IF j = i THEN c ELSE p.children[j]
  BY GoodReplaced, SMT DEF Based
<1> HIDE DEF r
<1>3. r \in Seq(Child)
  BY <1>2 DEF Good
<1>4. /\ q \in [children : Seq(Child), idle_spawn_rate : 1 .. 2 * MaxSpawnRate - 1, backoff : Entry]
      /\ q.children = r /\ q.idle_spawn_rate = p.idle_spawn_rate /\ q.backoff = p.backoff
  BY <1>3 DEF Based
<1> HIDE DEF q
<1>5. Based(q)
  BY <1>2, <1>4 DEF Based
<1>6. Alive(q) \subseteq Alive(p)
  BY <1>2, <1>4, <1>5, Counted, SMTT(30)
<1>7. Changed(p, q)
  BY <1>2, <1>4, <1>5, <1>6 DEF Changed
<1> QED BY <1>1, <1>2, <1>4, <1>7

\* A change that loses no child keeps the invariant and forks nobody.
LEMMA ChangedKeeps ==
  ASSUME NEW p, NEW n, NEW cr \in Nat, Inv(p, n, cr), NEW q, Changed(p, q),
         Lost(q.children) \subseteq Lost(p.children)
  PROVE  Inv(q, n, cr) /\ ForksInTime(p, q)
<1>1. Based(p) /\ Based(q)
  BY DEF Inv, Changed
<1>2. Shows(q) /\ (n => Scheduled(q))
  BY DEF Inv, Changed, Shows, Scheduled
<1>3. /\ Cardinality(Lost(q.children)) <= Cardinality(Lost(p.children))
      /\ Cardinality(Alive(q)) <= Cardinality(Alive(p))
  BY <1>1, Counted, FS_Subset DEF Changed
<1>4. /\ Cardinality(Lost(q.children)) \in Nat /\ Cardinality(Lost(p.children)) \in Nat
      /\ Cardinality(Alive(q)) \in Nat /\ Cardinality(Alive(p)) \in Nat
      /\ p.backoff.failures \in Nat /\ q.backoff = p.backoff
  BY <1>1, Counted DEF Changed, Based, Back, Entry
<1>5. Cardinality(Lost(q.children)) + q.backoff.failures <= cr
  BY <1>3, <1>4, SMT DEF Inv
<1>6. ForksInTime(p, q)
  BY <1>3, <1>4, SMT DEF ForksInTime
<1> QED BY <1>1, <1>2, <1>5, <1>6 DEF Inv

\* A call of fpm_children_make() on a pool p1 that comes from p.
LEMMA MadeKeeps ==
  ASSUME NEW p, Based(p), NEW p1, Based(p1), NEW q, Made(p1, q), NEW cr \in Nat,
         Cardinality(Lost(p1.children)) + p1.backoff.failures <= cr,
         Cardinality(Alive(p1)) <= Cardinality(Alive(p)),
         p1.backoff.next <= 0 => p.backoff.next <= 0 \/ p1.backoff.failures = 0
  PROVE  Inv(q, normal, cr) /\ ForksInTime(p, q)
<1>1. Inv(q, normal, cr)
  BY DEF Inv, Made
<1>2. ForksInTime(p, q)
  <2>1. CASE q.children = p1.children
    <3>1. Alive(q) = Alive(p1)
      BY <2>1 DEF Alive
    <3>2. ~(Cardinality(Alive(q)) > Cardinality(Alive(p)))
      BY <3>1, Counted, SMT
    <3> QED BY <3>2 DEF ForksInTime
  <2>2. CASE q.backoff.next = Unset /\ p1.backoff.next <= 0
    BY <2>2 DEF ForksInTime, Made
  <2> QED BY <2>1, <2>2 DEF Made
<1> QED BY <1>1, <1>2

\* Only the spawn rate changes.
LEMMA RateKeeps ==
  ASSUME conf \in Confs, NEW p, NEW n, NEW cr, NEW q, Inv(q, n, cr), ForksInTime(p, q),
         NEW rate \in 1 .. 2 * MaxSpawnRate - 1
  PROVE  LET r == [q EXCEPT !.idle_spawn_rate = rate] IN Inv(r, n, cr) /\ ForksInTime(p, r)
<1> DEFINE r == [q EXCEPT !.idle_spawn_rate = rate]
<1>1. Based(q)
  BY DEF Inv
<1>2. /\ r \in [children : Seq(Child), idle_spawn_rate : 1 .. 2 * MaxSpawnRate - 1, backoff : Entry]
      /\ r.children = q.children /\ r.backoff = q.backoff
  BY <1>1 DEF Based
<1> HIDE DEF r
<1>3. Based(r)
  BY <1>1, <1>2 DEF Based
<1>4. Shows(r) /\ (n => Scheduled(r)) /\ Alive(r) = Alive(q) /\ Lost(r.children) = Lost(q.children)
  BY <1>2 DEF Inv, Shows, Scheduled, Alive
<1>5. Inv(r, n, cr) /\ ForksInTime(p, r)
  BY <1>2, <1>3, <1>4 DEF Inv, ForksInTime
<1> QED BY <1>5 DEF r


-----------------------------------------------------------------------------
(* The actions.  Each keeps the invariant, with the section as it is, and  *)
(* forks in time.                                                          *)

Kept == Inv(pool', normal', crashes') /\ ForksInTime(pool, pool')

LEMMA InvIs ==
  ASSUME PoolInv
  PROVE  /\ conf \in Confs /\ Inv(pool, normal, crashes) /\ Based(pool) /\ Shows(pool)
         /\ crashes \in Nat /\ normal \in BOOLEAN
         /\ pool.children \in Seq(Child) /\ Len(pool.children) \in Nat
         /\ DOMAIN pool.children = 1 .. Len(pool.children)
         /\ \A i \in 1 .. Len(pool.children) : Sound(pool.children[i])
         /\ Back(pool.backoff) /\ pool.backoff.failures \in Nat
BY ConfIs, SMTT(30) DEF PoolInv, Inv, Based, Good, Back, Entry

\* A child changes in nothing the invariant looks at.
LEMMA SameSound ==
  ASSUME NEW c, Sound(c), NEW d \in Child, d.idle_kill = c.idle_kill, d.told = c.told,
         d.asked = c.asked, d.drain = c.drain
  PROVE  Sound(d)
BY DEF Sound, Tame, Drained

\* ... or dies, as a crash or because it was told to.
LEMMA ChildKept ==
  ASSUME PoolInv, NEW i \in 1 .. Len(pool.children), NEW d, Sound(d),
         d.watched = pool.children[i].watched, pool.children[i].dead => d.dead,
         d.idle_kill = pool.children[i].idle_kill,
         d.dead /\ ~d.idle_kill => pool.children[i].dead,
         pool' = [pool EXCEPT !.children[i] = d], normal' = normal, crashes' = crashes
  PROVE  Kept
<1> DEFINE q == [pool EXCEPT !.children[i] = d]
<1>1. /\ Changed(pool, q)
      /\ \A j \in 1 .. Len(pool.children) : q.children[j] = IF j = i THEN d ELSE pool.children[j]
  BY InvIs, ChildChanged, SMT
<1>2. pool' = q
  OBVIOUS
<1> HIDE DEF q
<1>3. Lost(q.children) \subseteq Lost(pool.children)
  BY <1>1 DEF Lost, Changed
<1>4. Inv(q, normal, crashes) /\ ForksInTime(pool, q)
  BY <1>1, <1>3, InvIs, ChangedKeeps
<1> QED BY <1>2, <1>4 DEF Kept

LEMMA CrashKept ==
  ASSUME PoolInv, NEW i \in 1 .. Len(pool.children), Crash(i)
  PROVE  Kept
<1> DEFINE c == pool.children[i]
           d == [c EXCEPT !.dead = TRUE]
           q == [pool EXCEPT !.children[i] = d]
<1>0. Sound(c) /\ c \in Child
  BY InvIs DEF Sound
<1>1. /\ d \in Child /\ d.idle_kill = c.idle_kill /\ d.told = c.told /\ d.asked = c.asked
      /\ d.drain = c.drain /\ d.watched = c.watched /\ d.dead
  BY <1>0 DEF Child
<1>2. pool' = q /\ normal' = normal /\ crashes' = crashes + 1
  BY DEF Crash, Become
<1> HIDE DEF d
<1>3. Sound(d)
  BY <1>0, <1>1, SameSound
<1>4. /\ Changed(pool, q)
      /\ \A j \in 1 .. Len(pool.children) : q.children[j] = IF j = i THEN d ELSE pool.children[j]
  BY <1>1, <1>3, InvIs, ChildChanged, SMTT(30)
<1> HIDE DEF q
<1>5. Lost(q.children) \subseteq Lost(pool.children) \cup {i}
  BY <1>4 DEF Lost, Changed
<1> DEFINE L == Lost(pool.children)
           M == Lost(q.children)
<1>6. /\ IsFiniteSet(L) /\ Cardinality(L) \in Nat /\ Based(pool)
      /\ Cardinality(Alive(pool)) \in Nat /\ IsFiniteSet(Alive(pool))
  BY InvIs, Counted
<1>7. /\ Based(q) /\ IsFiniteSet(M) /\ Cardinality(M) \in Nat
      /\ Cardinality(Alive(q)) \in Nat /\ q.backoff = pool.backoff
  BY <1>4, Counted DEF Changed
<1>8. Cardinality(M) <= Cardinality(L) + 1
  <2>1. IsFiniteSet(L \cup {i}) /\ Cardinality(L \cup {i}) <= Cardinality(L) + 1
    <3> HIDE DEF L
    <3>1. /\ IsFiniteSet(L \cup {i})
          /\ Cardinality(L \cup {i}) = IF i \in L THEN Cardinality(L) ELSE Cardinality(L) + 1
      BY <1>6, FS_AddElement
    <3> QED BY <1>6, <3>1, SMT
  <2>2. Cardinality(M) <= Cardinality(L \cup {i}) /\ Cardinality(L \cup {i}) \in Nat
    BY <1>5, <2>1, FS_Subset, FS_CardinalityType
  <2> HIDE DEF L, M
  <2> QED BY <1>6, <1>7, <2>1, <2>2, SMTT(30)
<1>9. Cardinality(Alive(q)) <= Cardinality(Alive(pool))
  BY <1>4, <1>6, FS_Subset DEF Changed
<1>10. Cardinality(M) + q.backoff.failures <= crashes + 1
  <2>1. Cardinality(L) + pool.backoff.failures <= crashes /\ pool.backoff.failures \in Nat /\ crashes \in Nat
    BY InvIs DEF Inv
  <2> HIDE DEF L, M
  <2> QED BY <1>6, <1>7, <1>8, <2>1, SMTT(30)
<1>11. Shows(q) /\ (normal => Scheduled(q))
  BY <1>4, InvIs DEF Inv, Changed, Shows, Scheduled
<1>12. Inv(q, normal, crashes + 1)
  BY <1>7, <1>10, <1>11 DEF Inv
<1>13. ForksInTime(pool, q)
  BY <1>6, <1>7, <1>9, SMTT(30) DEF ForksInTime
<1> QED BY <1>2, <1>12, <1>13 DEF Kept

LEMMA ProcessKept ==
  ASSUME PoolInv, NEW i \in 1 .. Len(pool.children), Process(i) \/ BuryStopped(i)
  PROVE  Kept
<1> DEFINE c == pool.children[i]
<1>0. /\ Sound(c) /\ c \in Child /\ conf \in Confs /\ IdleTimeout \in Nat /\ Grace \in Nat
      /\ c.told # "none" => c.idle_kill
  BY InvIs, ConfIs DEF Sound, Tame
<1>1. CASE Accepting(i)
  <2>1. 0 \in 0 .. IdleTimeout + 1 /\ 0 \in {Unset} \cup (0 .. Grace)
    BY <1>0, SMT
  <2>2. PICK t \in {Unset} \cup (0 .. Grace) : t = IF c.retire = Unset THEN c.retire ELSE 0
    BY <1>0, <2>1 DEF Child
  <2> DEFINE d == [c EXCEPT !.stage = "idle", !.quiet = 0, !.retire = t]
  <2>3. pool' = [pool EXCEPT !.children[i] = d] /\ normal' = normal /\ crashes' = crashes
    BY <1>1, <2>2 DEF Accepting, Become
  <2>4. /\ d \in Child /\ d.idle_kill = c.idle_kill /\ d.told = c.told /\ d.asked = c.asked
        /\ d.drain = c.drain /\ d.watched = c.watched /\ d.dead = c.dead
    BY <1>0, <2>1 DEF Child
  <2> HIDE DEF d
  <2>5. Sound(d)
    BY <1>0, <2>4, SameSound
  <2> QED BY <2>3, <2>4, <2>5, ChildKept
<1>2. CASE ReadingHeaders(i) \/ KeptAlive(i)
  <2>1. 0 \in 0 .. IdleTimeout + 1
    BY <1>0, SMT
  <2> DEFINE d == [c EXCEPT !.stage = "busy", !.served = TRUE, !.quiet = 0]
  <2>3. pool' = [pool EXCEPT !.children[i] = d] /\ normal' = normal /\ crashes' = crashes
    BY <1>2 DEF ReadingHeaders, KeptAlive, Become
  <2>4. /\ d \in Child /\ d.idle_kill = c.idle_kill /\ d.told = c.told /\ d.asked = c.asked
        /\ d.drain = c.drain /\ d.watched = c.watched /\ d.dead = c.dead
    BY <1>0, <2>1 DEF Child
  <2> HIDE DEF d
  <2>5. Sound(d)
    BY <1>0, <2>4, SameSound
  <2> QED BY <2>3, <2>4, <2>5, ChildKept
<1>3. CASE Leave(i)
  <2> DEFINE d == [c EXCEPT !.dead = TRUE]
  <2>3. pool' = [pool EXCEPT !.children[i] = d] /\ normal' = normal /\ crashes' = crashes
    BY <1>3 DEF Leave, Become
  <2>4. /\ d \in Child /\ d.idle_kill = c.idle_kill /\ d.told = c.told /\ d.asked = c.asked
        /\ d.drain = c.drain /\ d.watched = c.watched /\ d.dead
    BY <1>0 DEF Child
  <2> HIDE DEF d
  <2>5. Sound(d)
    BY <1>0, <2>4, SameSound
  <2>6. d.idle_kill
    BY <1>0, <1>3, <2>4 DEF Leave
  <2> QED BY <2>3, <2>4, <2>5, <2>6, ChildKept
<1>4. CASE Crash(i)
  BY <1>4, CrashKept
<1>5. CASE BuryStopped(i)
  <2> DEFINE d == [c EXCEPT !.drain = Unset]
  <2>3. pool' = [pool EXCEPT !.children[i] = d] /\ normal' = normal /\ crashes' = crashes /\ Slowlog
    BY <1>5 DEF BuryStopped, Become
  <2>4. /\ d \in Child /\ d.idle_kill = c.idle_kill /\ d.told = c.told /\ d.asked = c.asked
        /\ d.watched = c.watched /\ d.dead = c.dead
    BY <1>0 DEF Child
  <2> HIDE DEF d
  <2>5. Sound(d)
    BY <1>0, <2>3, <2>4 DEF Sound, Tame, Drained
  <2> QED BY <2>3, <2>4, <2>5, ChildKept
<1> QED BY <1>1, <1>2, <1>3, <1>4, <1>5 DEF Process


\* What is left of a set of indexes when index i is removed.
LEMMA Shifted ==
  ASSUME NEW n \in Nat, NEW i \in 1 .. n, NEW S, S \subseteq 1 .. n,
         NEW T, T \subseteq 1 .. n - 1, \A j \in T : (IF j < i THEN j ELSE j + 1) \in S
  PROVE  /\ IsFiniteSet(S) /\ Cardinality(S) \in Nat /\ Cardinality(T) \in Nat
         /\ Cardinality(T) <= Cardinality(S)
         /\ i \in S => Cardinality(T) + 1 <= Cardinality(S)
<1>1. IsFiniteSet(S) /\ Cardinality(S) \in Nat
  <2>1. IsFiniteSet(1 .. n)
    BY FS_Interval, SMT
  <2>2. IsFiniteSet(S)
    BY <2>1, FS_Subset
  <2> QED BY <2>2, FS_CardinalityType
<1> DEFINE U == S \ {i}
           f == [j \in T |-> IF j < i THEN j ELSE j + 1]
<1>2. /\ IsFiniteSet(U) /\ Cardinality(U) \in Nat
      /\ Cardinality(U) = IF i \in S THEN Cardinality(S) - 1 ELSE Cardinality(S)
  BY <1>1, FS_RemoveElement, FS_CardinalityType
<1>3. ASSUME NEW j \in T PROVE f[j] \in U
  <2>1. j \in Nat /\ f[j] = IF j < i THEN j ELSE j + 1
    BY SMT
  <2>2. f[j] # i
    BY <2>1, SMT
  <2> QED BY <2>1, <2>2
<1>4. ASSUME NEW j \in T, NEW k \in T, f[j] = f[k] PROVE j = k
  <2>1. j \in Nat /\ k \in Nat
    BY SMT
  <2> QED BY <1>4, <2>1, SMT
<1>5. f \in Injection(T, U)
  <2>1. f \in [T -> U]
    BY <1>3
  <2> QED BY <1>4, <2>1 DEF Injection, IsInjective
<1>6. Cardinality(T) <= Cardinality(U) /\ IsFiniteSet(T)
  BY <1>2, <1>5, FS_Injection
<1>7. Cardinality(T) \in Nat
  BY <1>6, FS_CardinalityType
<1> HIDE DEF U
<1> QED BY <1>1, <1>2, <1>6, <1>7, SMTT(30)

\* A child leaves the list: fewer are alive, and one that counted is gone.
LEMMA RemovedCounts ==
  ASSUME NEW p, Based(p), NEW i \in 1 .. Len(p.children),
         NEW q, Based(q), q.children = Removed(p.children, i)
  PROVE  /\ Cardinality(Alive(q)) <= Cardinality(Alive(p))
         /\ Cardinality(Lost(q.children)) <= Cardinality(Lost(p.children))
         /\ i \in Lost(p.children) =>
              Cardinality(Lost(q.children)) + 1 <= Cardinality(Lost(p.children))
<1>0. Good(p.children) /\ Len(p.children) \in Nat
  BY SMT DEF Based, Good
<1>1. /\ Len(q.children) = Len(p.children) - 1
      /\ \A j \in 1 .. Len(p.children) - 1 :
           q.children[j] = IF j < i THEN p.children[j] ELSE p.children[j + 1]
  BY <1>0, GoodRemoved
<1>2. /\ Alive(p) = {k \in 1 .. Len(p.children) : ~p.children[k].dead}
      /\ Alive(q) = {k \in 1 .. Len(p.children) - 1 : ~q.children[k].dead}
  BY <1>1, Counted
<1>3. ASSUME NEW j \in Alive(q) PROVE (IF j < i THEN j ELSE j + 1) \in Alive(p)
  BY <1>0, <1>1, <1>2, SMTT(30)
<1>4. ASSUME NEW j \in Lost(q.children) PROVE (IF j < i THEN j ELSE j + 1) \in Lost(p.children)
  BY <1>0, <1>1, SMT DEF Lost
<1>5. Alive(p) \subseteq 1 .. Len(p.children) /\ Alive(q) \subseteq 1 .. Len(p.children) - 1
  BY <1>2
<1>6. Lost(p.children) \subseteq 1 .. Len(p.children) /\ Lost(q.children) \subseteq 1 .. Len(p.children) - 1
  BY <1>1 DEF Lost
<1>7. Cardinality(Alive(q)) <= Cardinality(Alive(p))
  BY <1>0, <1>3, <1>5, Shifted
<1>8. /\ Cardinality(Lost(q.children)) <= Cardinality(Lost(p.children))
      /\ i \in Lost(p.children) =>
           Cardinality(Lost(q.children)) + 1 <= Cardinality(Lost(p.children))
  BY <1>0, <1>4, <1>6, Shifted
<1> QED BY <1>7, <1>8

LEMMA BuryKept ==
  ASSUME PoolInv, NEW i \in 1 .. Len(pool.children), fpm_children_bury(i)
  PROVE  Kept
<1> DEFINE c == pool.children[i]
           r == Removed(pool.children, i)
           E == IF ExitCounts(c)
                THEN fpm_crash_backoff_child_exited(pool.backoff, c.served, c.age)
                ELSE {pool.backoff}
<1>0. /\ Sound(c) /\ c \in Child /\ conf \in Confs /\ Based(pool) /\ Inv(pool, normal, crashes)
      /\ Back(pool.backoff) /\ Good(pool.children) /\ pool.backoff.failures \in Nat
      /\ crashes \in Nat /\ normal \in BOOLEAN /\ c.served \in BOOLEAN /\ c.age \in Nat
      /\ Len(pool.children) \in Nat /\ Len(pool.children) <= MaxChildren /\ MaxChildren \in Nat
      /\ c.idle_kill \in BOOLEAN
  <2>1. /\ Sound(c) /\ conf \in Confs /\ Based(pool) /\ Inv(pool, normal, crashes)
        /\ Back(pool.backoff) /\ pool.backoff.failures \in Nat
        /\ crashes \in Nat /\ normal \in BOOLEAN /\ Len(pool.children) \in Nat
    BY InvIs
  <2>2. c \in Child
    BY <2>1 DEF Sound
  <2>3. c.served \in BOOLEAN /\ c.age \in 0 .. WINDOW /\ c.idle_kill \in BOOLEAN
    BY <2>2 DEF Child
  <2>4. c.age \in Nat
    BY <2>3, CrashBackoffAssumption, SMT
  <2>5. Good(pool.children) /\ Len(pool.children) <= MaxChildren
    BY <2>1 DEF Based
  <2> QED BY <2>1, <2>2, <2>3, <2>4, <2>5, ConfIs
<1>1. PICK e \in E : /\ c.dead /\ normal' = normal /\ crashes' = crashes
                     /\ LET q == [[pool EXCEPT !.children = r] EXCEPT !.backoff = e]
                        IN  pool' \in IF Respawns(c) THEN fpm_children_make(q, 1) ELSE {q}
  <2>1. [pool EXCEPT !.children = r].backoff = pool.backoff
    BY <1>0 DEF Based
  <2> QED BY <2>1 DEF fpm_children_bury
<1>2. Good(r) /\ Len(r) = Len(pool.children) - 1
  BY <1>0, GoodRemoved
<1>3. /\ Back(e)
      /\ e = pool.backoff \/ (ExitCounts(c) /\ Exited(pool.backoff, e))
  BY <1>0, <1>1, ExitedIs DEF Exited
<1> DEFINE q == [[pool EXCEPT !.children = r] EXCEPT !.backoff = e]
<1>4. q.children = r /\ q.idle_spawn_rate = pool.idle_spawn_rate /\ q.backoff = e
      /\ q \in [children : Seq(Child), idle_spawn_rate : 1 .. 2 * MaxSpawnRate - 1, backoff : Entry]
  <2>1. r \in Seq(Child) /\ e \in Entry
    BY <1>2, <1>3 DEF Good, Back
  <2> HIDE DEF r
  <2> QED BY <1>0, <2>1 DEF Based
<1>5. pool' \in IF Respawns(c) THEN fpm_children_make(q, 1) ELSE {q}
  BY <1>1
<1> HIDE DEF q, E
<1>6. Based(q)
  BY <1>0, <1>2, <1>3, <1>4, SMTT(30) DEF Based
<1>7. Shows(q)
  <2>1. Shows(pool)
    BY InvIs
  <2> QED BY <1>3, <1>4, <2>1 DEF Shows, Exited
<1>8. /\ Cardinality(Alive(q)) <= Cardinality(Alive(pool))
      /\ Cardinality(Lost(q.children)) <= Cardinality(Lost(pool.children))
      /\ i \in Lost(pool.children) =>
           Cardinality(Lost(q.children)) + 1 <= Cardinality(Lost(pool.children))
  BY <1>0, <1>4, <1>6, RemovedCounts
<1>9. Cardinality(Lost(q.children)) + q.backoff.failures <= crashes
  <2>1. /\ Cardinality(Lost(pool.children)) + pool.backoff.failures <= crashes
        /\ Cardinality(Lost(pool.children)) \in Nat /\ Cardinality(Lost(q.children)) \in Nat
    BY <1>0, <1>6, Counted DEF Inv
  <2>2. CASE e.failures = pool.backoff.failures \/ e.failures = 0
    BY <1>0, <1>4, <1>8, <2>1, <2>2, SMTT(30)
  <2>3. CASE ExitCounts(c) /\ e.failures = pool.backoff.failures + 1
    <3>1. i \in Lost(pool.children)
      BY <1>0, <1>1, <2>3 DEF Lost, ExitCounts
    <3> QED BY <1>0, <1>4, <1>8, <2>1, <2>3, <3>1, SMTT(60)
  <2> QED BY <1>3, <2>2, <2>3 DEF Exited
<1>10. q.backoff.next <= 0 => pool.backoff.next <= 0 \/ q.backoff.failures = 0
  <2>1. pool.backoff.failures = 0 => pool.backoff.next <= 0
    BY <1>0, SMT DEF Back, Unset
  <2> QED BY <1>3, <1>4, <2>1 DEF Exited
<1>11. CASE Respawns(c)
  <2>1. PICK s \in fpm_children_make(q, 1) : s = pool'
    BY <1>5, <1>11
  <2>2. Made(q, s)
    BY <1>0, <1>6, <1>7, MadeIs, SMTT(60)
  <2>3. Inv(s, normal, crashes) /\ ForksInTime(pool, s)
    BY <1>0, <1>6, <1>8, <1>9, <1>10, <2>2, MadeKeeps
  <2> QED BY <1>1, <2>1, <2>3 DEF Kept
<1>12. CASE ~Respawns(c)
  <2>1. pool' = q /\ c.idle_kill
    BY <1>5, <1>12 DEF Respawns
  <2>2. Scheduled(q)
    BY <1>0, <2>1 DEF Scheduled, Sound, Tame
  <2>3. Inv(q, normal, crashes)
    BY <1>6, <1>7, <1>9, <2>2 DEF Inv
  <2>4. ForksInTime(pool, q)
    <3>1. ~(Cardinality(Alive(q)) > Cardinality(Alive(pool)))
      BY <1>0, <1>6, <1>8, Counted, SMTT(30)
    <3> QED BY <3>1 DEF ForksInTime
  <2> QED BY <1>1, <2>1, <2>3, <2>4 DEF Kept
<1> QED BY <1>11, <1>12


\* The pool with another wait or another timer, of the same streak or none.
LEMMA BackoffBased ==
  ASSUME NEW p, Based(p), NEW e, Back(e), e.next # Unset => e.next = p.backoff.next
  PROVE  LET q == [p EXCEPT !.backoff = e] IN
         /\ Based(q) /\ q.children = p.children /\ q.backoff = e
         /\ q.idle_spawn_rate = p.idle_spawn_rate /\ Alive(q) = Alive(p)
<1> DEFINE q == [p EXCEPT !.backoff = e]
<1>1. e \in Entry
  BY DEF Back
<1>2. /\ q \in [children : Seq(Child), idle_spawn_rate : 1 .. 2 * MaxSpawnRate - 1, backoff : Entry]
      /\ q.children = p.children /\ q.idle_spawn_rate = p.idle_spawn_rate /\ q.backoff = e
  BY <1>1, WithBackoff
<1> HIDE DEF q
<1>3. Based(q)
  BY <1>2 DEF Based
<1>4. Alive(q) = Alive(p)
  BY <1>2 DEF Alive
<1> QED BY <1>2, <1>3, <1>4 DEF q

\* fpm_children_make() on the pool with the backoff e.
LEMMA MakeKept ==
  ASSUME PoolInv, NEW e, Back(e), e.next # Unset => e.next = pool.backoff.next,
         e.failures <= pool.backoff.failures,
         e.next <= 0 => pool.backoff.next <= 0 \/ e.failures = 0,
         \/ e.shown /\ ~MayRefuse => e.next # Unset
         \/ normal /\ Len(pool.children) < MaxChildren,
         NEW nb \in Nat \ {0},
         NEW q \in fpm_children_make([pool EXCEPT !.backoff = e], nb)
  PROVE  Inv(q, normal, crashes) /\ ForksInTime(pool, q) /\ q.idle_spawn_rate = pool.idle_spawn_rate
<1> DEFINE p == [pool EXCEPT !.backoff = e]
<1>0. /\ conf \in Confs /\ Based(pool) /\ pool.backoff.failures \in Nat /\ crashes \in Nat
      /\ Inv(pool, normal, crashes)
  BY InvIs
<1>1. /\ Based(p) /\ p.children = pool.children /\ p.backoff = e
      /\ p.idle_spawn_rate = pool.idle_spawn_rate /\ Alive(p) = Alive(pool)
  BY <1>0, BackoffBased
<1>2. q \in fpm_children_make(p, nb)
  OBVIOUS
<1> HIDE DEF p
<1>3. Shows(p) \/ (normal /\ Len(p.children) < MaxChildren)
  BY <1>1 DEF Shows
<1>4. Made(p, q)
  BY <1>0, <1>1, <1>2, <1>3, MadeIs
<1>5. Cardinality(Lost(p.children)) + p.backoff.failures <= crashes
  <2>1. e.failures \in Nat
    BY DEF Back, Entry
  <2>2. Cardinality(Lost(pool.children)) \in Nat
    BY <1>0, Counted
  <2> QED BY <1>0, <1>1, <2>1, <2>2, SMTT(30) DEF Inv
<1>6. Cardinality(Alive(p)) <= Cardinality(Alive(pool))
  BY <1>0, <1>1, Counted, SMT
<1>7. Inv(q, normal, crashes) /\ ForksInTime(pool, q)
  BY <1>0, <1>1, <1>4, <1>5, <1>6, MadeKeeps
<1> QED BY <1>1, <1>4, <1>7 DEF Made

LEMMA GateKept ==
  ASSUME PoolInv, fpm_crash_backoff_gate_fire
  PROVE  Kept
<1> DEFINE e == [pool.backoff EXCEPT !.queued = FALSE, !.armed = FALSE]
<1>0. Back(pool.backoff) /\ Shows(pool) /\ pool.backoff.failures \in Nat
  BY InvIs
<1>1. /\ e \in Entry /\ e.armed = e.queued /\ e.failures = pool.backoff.failures
      /\ e.next = pool.backoff.next /\ e.shown = pool.backoff.shown /\ e.gave_up = pool.backoff.gave_up
  BY <1>0 DEF Back, Entry
<1>2. PICK q \in fpm_children_make([pool EXCEPT !.backoff = e], 1) : q = pool'
  <2>1. GateFired(pool) = [pool EXCEPT !.backoff = e]
    BY DEF GateFired
  <2> QED BY <2>1 DEF fpm_crash_backoff_gate_fire
<1> HIDE DEF e
<1>3. Back(e)
  BY <1>0, <1>1 DEF Back
<1>4. e.shown /\ ~MayRefuse => e.next # Unset
  BY <1>0, <1>1 DEF Shows
<1>5. e.failures <= pool.backoff.failures
  BY <1>0, <1>1, SMT
<1>6. Inv(q, normal, crashes) /\ ForksInTime(pool, q)
  BY <1>1, <1>3, <1>4, <1>5, MakeKept, SMTT(30)
<1> QED BY <1>2, <1>6 DEF Kept, fpm_crash_backoff_gate_fire


LEMMA SurviveKept ==
  ASSUME PoolInv, fpm_crash_backoff_survive_fire
  PROVE  Kept
<1> DEFINE e == [pool.backoff EXCEPT !.survive = Unset]
           p == [pool EXCEPT !.backoff = e]
           f == fpm_crash_backoff_clear(e)
<1>0. /\ Back(pool.backoff) /\ Shows(pool) /\ Based(pool) /\ pool.backoff.failures \in Nat
      /\ crashes \in Nat /\ Inv(pool, normal, crashes)
  BY InvIs
<1>1. /\ e \in Entry /\ e.armed = pool.backoff.armed /\ e.queued = pool.backoff.queued
      /\ e.failures = pool.backoff.failures /\ e.due = pool.backoff.due
      /\ e.next = pool.backoff.next /\ e.shown = pool.backoff.shown /\ e.gave_up = pool.backoff.gave_up
  BY <1>0 DEF Back, Entry
<1>2. /\ \/ pool' \in fpm_children_make([p EXCEPT !.backoff = f], 1)
         \/ pool' = p
      /\ normal' = normal /\ crashes' = crashes
  <2>1. p.backoff = e /\ [pool EXCEPT !.backoff.survive = Unset] = p
    BY <1>0 DEF Based
  <2> QED BY <2>1 DEF fpm_crash_backoff_survive_fire
<1>3. [p EXCEPT !.backoff = f] = [pool EXCEPT !.backoff = f]
  OBVIOUS
<1> HIDE DEF e
<1>4. Back(e)
  BY <1>0, <1>1 DEF Back
<1>5. CASE pool' \in fpm_children_make([pool EXCEPT !.backoff = f], 1)
  <2>1. Back(f) /\ f.failures = 0 /\ f.next = Unset /\ ~f.shown
    BY <1>4, Cleared
  <2> HIDE DEF f
  <2>2. PICK q \in fpm_children_make([pool EXCEPT !.backoff = f], 1) : q = pool'
    BY <1>5
  <2>3. f.failures <= pool.backoff.failures
    BY <1>0, <2>1, SMT
  <2>4. Inv(q, normal, crashes) /\ ForksInTime(pool, q)
    BY <2>1, <2>3, MakeKept, SMTT(30)
  <2> QED BY <1>2, <2>2, <2>4 DEF Kept
<1>6. CASE pool' = p
  <2>1. Based(p) /\ p.children = pool.children /\ p.backoff = e /\ Alive(p) = Alive(pool)
    BY <1>0, <1>1, <1>4, BackoffBased, SMTT(30)
  <2> HIDE DEF p
  <2>2. Shows(p) /\ (normal => Scheduled(p))
    BY <1>0, <1>1, <2>1 DEF Inv, Shows, Scheduled
  <2>3. Inv(p, normal, crashes)
    BY <1>0, <1>1, <2>1, <2>2 DEF Inv
  <2>4. ForksInTime(pool, p)
    <3>1. ~(Cardinality(Alive(p)) > Cardinality(Alive(pool)))
      BY <1>0, <2>1, Counted, SMTT(30)
    <3> QED BY <3>1 DEF ForksInTime
  <2> QED BY <1>2, <1>6, <2>3, <2>4 DEF Kept
<1> QED BY <1>2, <1>3, <1>5, <1>6

\* Nothing happens to the pool.
LEMMA StillKept ==
  ASSUME PoolInv
  PROVE  Inv(pool, normal, crashes) /\ ForksInTime(pool, pool)
<1>1. ~(Cardinality(Alive(pool)) > Cardinality(Alive(pool)))
  BY InvIs, Counted, SMT
<1> QED BY <1>1, InvIs DEF ForksInTime

LEMMA AcceptKept ==
  ASSUME PoolInv, fpm_pctl_on_socket_accept
  PROVE  Kept
<1>0. /\ Back(pool.backoff) /\ Shows(pool) /\ Based(pool) /\ pool.backoff.failures \in Nat
  BY InvIs
<1>1. [pool EXCEPT !.backoff = pool.backoff] = pool
  BY <1>0 DEF Based
<1>2. CASE pool' = pool
  BY <1>2, StillKept DEF Kept, fpm_pctl_on_socket_accept
<1>3. CASE pool' \in fpm_children_make(pool, 1)
  <2>1. PICK q \in fpm_children_make([pool EXCEPT !.backoff = pool.backoff], 1) : q = pool'
    BY <1>1, <1>3
  <2>2. pool.backoff.failures <= pool.backoff.failures
    BY <1>0, SMT
  <2>3. pool.backoff.shown /\ ~MayRefuse => pool.backoff.next # Unset
    BY <1>0 DEF Shows
  <2>4. Inv(q, normal, crashes) /\ ForksInTime(pool, q)
    BY <1>0, <2>2, <2>3, MakeKept, SMTT(30)
  <2> QED BY <2>1, <2>4 DEF Kept, fpm_pctl_on_socket_accept
<1> QED BY <1>2, <1>3 DEF fpm_pctl_on_socket_accept

\* The scale-down of one idle child, in a pool that is not static.
LEMMA OldestKept ==
  ASSUME PoolInv, PM # "static", Idle(pool) # {}, NEW q \in KillOldest(pool)
  PROVE  Inv(q, normal, crashes) /\ ForksInTime(pool, q)
<1>0. /\ conf \in Confs /\ Based(pool) /\ crashes \in Nat /\ Inv(pool, normal, crashes)
      /\ DOMAIN pool.children = 1 .. Len(pool.children) /\ Len(pool.children) \in Nat
  BY InvIs
<1>1. Idle(pool) \subseteq 1 .. Len(pool.children) /\ Idle(pool) \subseteq Nat
  BY <1>0, SMT DEF Idle
<1>2. PICK i \in 1 .. Len(pool.children) : i = Oldest(Idle(pool))
  BY <1>1, OldestIs
<1>3. PICK d \in fpm_pctl_kill_idle_child(pool.children[i]) : q = [pool EXCEPT !.children[i] = d]
  BY <1>2 DEF KillOldest
<1>4. Sound(pool.children[i])
  BY InvIs
<1>5. Sound(d) /\ Alike(pool.children[i], d) /\ d.idle_kill
  BY <1>0, <1>4, KilledSound
<1>6. /\ Changed(pool, q)
      /\ \A j \in 1 .. Len(pool.children) : q.children[j] = IF j = i THEN d ELSE pool.children[j]
  BY <1>0, <1>3, <1>5, ChildChanged, SMTT(30) DEF Alike
<1>7. Lost(q.children) \subseteq Lost(pool.children)
  BY <1>5, <1>6 DEF Lost, Changed
<1> QED BY <1>0, <1>6, <1>7, ChangedKeeps


LEMMA ToForkIs ==
  ASSUME PoolInv, Cardinality(Idle(pool)) < MinSpare
  PROVE  /\ ChildrenToFork(pool) \in Int
         /\ ChildrenToFork(pool) > 0 <=> Len(pool.children) < MaxChildren
<1>0. /\ pool.idle_spawn_rate \in Nat \ {0} /\ Len(pool.children) \in Nat /\ MinSpare \in Nat
      /\ MaxChildren \in Nat
  <2>1. conf \in Confs /\ Based(pool) /\ Len(pool.children) \in Nat
    BY InvIs
  <2>2. pool.idle_spawn_rate \in 1 .. 2 * MaxSpawnRate - 1 /\ MaxSpawnRate \in Nat
    BY <2>1, ConfIs DEF Based
  <2> QED BY <2>1, <2>2, ConfIs, SMTT(30)
<1>1. Cardinality(Idle(pool)) \in Nat
  <2>1. IsFiniteSet(1 .. Len(pool.children)) /\ Idle(pool) \subseteq 1 .. Len(pool.children)
    <3>1. Len(pool.children) \in Nat /\ DOMAIN pool.children = 1 .. Len(pool.children)
      BY InvIs
    <3> QED BY <3>1, FS_Interval, SMT DEF Idle
  <2>2. IsFiniteSet(Idle(pool))
    BY <2>1, FS_Subset
  <2> QED BY <2>2, FS_CardinalityType
<1>2. PICK a \in Nat \ {0} : a = Least(pool.idle_spawn_rate, MinSpare - Cardinality(Idle(pool)))
  <2>1. Least(pool.idle_spawn_rate, MinSpare - Cardinality(Idle(pool))) \in Nat \ {0}
    BY <1>0, <1>1, SMT DEF Least
  <2> QED BY <2>1
<1>3. ChildrenToFork(pool) = Least(a, MaxChildren - Len(pool.children))
  BY <1>2 DEF ChildrenToFork, Running
<1> QED BY <1>0, <1>3, SMTT(30) DEF Least

LEMMA SpareKept ==
  ASSUME PoolInv, normal, PM = "dynamic", Cardinality(Idle(pool)) < MinSpare,
         NEW q \in SpawnSpare(pool)
  PROVE  Inv(q, normal, crashes) /\ ForksInTime(pool, q)
<1> DEFINE e == fpm_crash_backoff_may_spawn(pool.backoff)
           p == [pool EXCEPT !.backoff = e]
<1>0. /\ conf \in Confs /\ Based(pool) /\ Back(pool.backoff) /\ Shows(pool) /\ crashes \in Nat
      /\ Inv(pool, normal, crashes) /\ pool.backoff.failures \in Nat
  BY InvIs
<1>1. /\ Back(e) /\ e.failures = pool.backoff.failures /\ e.shown = pool.backoff.shown
      /\ GateOpen(pool.backoff) => e.next = Unset
      /\ ~GateOpen(pool.backoff) => e.next = pool.backoff.next /\ e.next # Unset
  BY <1>0, MaySpawn
<1>2. MaxSpawnRate \in Nat \ {0} /\ 1 \in 1 .. 2 * MaxSpawnRate - 1
  BY <1>0, ConfIs, SMT
<1>3. CASE ~GateOpen(pool.backoff) \/ ChildrenToFork(pool) <= 0
  <2>1. q = [p EXCEPT !.idle_spawn_rate = 1]
    BY <1>3 DEF SpawnSpare, Slow
  <2> HIDE DEF e
  <2>2. Based(p) /\ p.children = pool.children /\ p.backoff = e /\ Alive(p) = Alive(pool)
    BY <1>0, <1>1, BackoffBased, SMTT(30)
  <2> HIDE DEF p
  <2>3. Shows(p)
    <3> SUFFICES ASSUME pool.backoff.shown, ~MayRefuse PROVE e.next # Unset
      BY <1>1, <2>2 DEF Shows
    <3>1. Len(pool.children) < MaxChildren
      BY <1>0 DEF Shows, Based
    <3>2. ChildrenToFork(pool) \in Int /\ ChildrenToFork(pool) > 0
      BY <3>1, ToForkIs
    <3> QED BY <1>1, <1>3, <3>2, SMT
  <2>4. Scheduled(p)
    BY DEF Scheduled
  <2>5. Inv(p, normal, crashes)
    BY <1>0, <1>1, <2>2, <2>3, <2>4 DEF Inv
  <2>6. ForksInTime(pool, p)
    <3>1. ~(Cardinality(Alive(p)) > Cardinality(Alive(pool)))
      BY <1>0, <2>2, Counted, SMTT(30)
    <3> QED BY <3>1 DEF ForksInTime
  <2> QED BY <1>0, <1>2, <2>1, <2>5, <2>6, RateKeeps
<1>4. CASE GateOpen(pool.backoff) /\ ~(ChildrenToFork(pool) <= 0)
  <2>1. PICK r \in fpm_children_make(p, ChildrenToFork(pool)) :
           q = [r EXCEPT !.idle_spawn_rate = Doubled(r.idle_spawn_rate)]
    BY <1>4 DEF SpawnSpare
  <2>2. ChildrenToFork(pool) \in Nat \ {0} /\ Len(pool.children) < MaxChildren
    BY <1>4, ToForkIs, SMT
  <2>3. e.next # Unset => e.next = pool.backoff.next
    BY <1>1, <1>4
  <2>4. pool.backoff.next <= 0
    BY <1>4 DEF GateOpen
  <2> HIDE DEF e
  <2>5. e.failures <= pool.backoff.failures
    BY <1>0, <1>1, SMT
  <2>6. /\ Inv(r, normal, crashes) /\ ForksInTime(pool, r)
        /\ r.idle_spawn_rate = pool.idle_spawn_rate
    BY <1>1, <2>1, <2>2, <2>3, <2>4, <2>5, MakeKept
  <2>7. Doubled(r.idle_spawn_rate) \in 1 .. 2 * MaxSpawnRate - 1
    <3>1. r.idle_spawn_rate \in 1 .. 2 * MaxSpawnRate - 1
      BY <1>0, <2>6 DEF Based
    <3> QED BY <1>2, <3>1, SMT DEF Doubled
  <2> QED BY <1>0, <2>1, <2>6, <2>7, RateKeeps
<1> QED BY <1>3, <1>4

LEMMA HeartbeatKept ==
  ASSUME PoolInv, Heartbeat
  PROVE  Kept
<1>0. conf \in Confs /\ MaxSpare \in Nat /\ MinSpare \in Nat /\ MaxSpawnRate \in Nat \ {0}
  BY InvIs, ConfIs
<1>1. /\ normal /\ normal' = normal /\ crashes' = crashes
      /\ pool' \in fpm_pctl_perform_idle_server_maintenance(pool)
  BY DEF Heartbeat
<1>2. 1 \in 1 .. 2 * MaxSpawnRate - 1
  BY <1>0, SMT
<1>3. CASE PM = "ondemand" /\ Idle(pool) # {} /\ pool.children[Oldest(Idle(pool))].quiet > IdleTimeout
  <2>1. PICK q \in KillOldest(pool) : q = pool'
    BY <1>1, <1>3 DEF fpm_pctl_perform_idle_server_maintenance
  <2> QED BY <1>1, <1>3, <2>1, OldestKept DEF Kept
<1>4. CASE \/ PM = "ondemand" /\ ~(Idle(pool) # {} /\ pool.children[Oldest(Idle(pool))].quiet > IdleTimeout)
           \/ PM \notin {"ondemand", "dynamic"}
  <2>1. pool' = pool
    BY <1>1, <1>4 DEF fpm_pctl_perform_idle_server_maintenance
  <2> QED BY <1>1, <2>1, StillKept DEF Kept
<1>5. CASE PM = "dynamic" /\ Cardinality(Idle(pool)) > MaxSpare
  <2>1. PICK q \in KillOldest(pool) : pool' = [q EXCEPT !.idle_spawn_rate = 1]
    BY <1>1, <1>5 DEF fpm_pctl_perform_idle_server_maintenance, Slow
  <2>2. Idle(pool) # {}
    BY <1>0, <1>5, FS_EmptySet, SMTT(30)
  <2>3. Inv(q, normal, crashes) /\ ForksInTime(pool, q)
    BY <1>5, <2>2, OldestKept
  <2>4. PICK r : r = [q EXCEPT !.idle_spawn_rate = 1]
    OBVIOUS
  <2>5. Inv(r, normal, crashes) /\ ForksInTime(pool, r)
    BY <1>0, <1>2, <2>3, <2>4, RateKeeps
  <2> QED BY <1>1, <2>1, <2>4, <2>5 DEF Kept
<1>6. CASE PM = "dynamic" /\ ~(Cardinality(Idle(pool)) > MaxSpare) /\ Cardinality(Idle(pool)) < MinSpare
  <2>1. PICK q \in SpawnSpare(pool) : q = pool'
    BY <1>1, <1>6 DEF fpm_pctl_perform_idle_server_maintenance
  <2> QED BY <1>1, <1>6, <2>1, SpareKept DEF Kept
<1>7. CASE PM = "dynamic" /\ ~(Cardinality(Idle(pool)) > MaxSpare) /\ ~(Cardinality(Idle(pool)) < MinSpare)
  <2>1. PICK r : r = [pool EXCEPT !.idle_spawn_rate = 1]
    OBVIOUS
  <2>2. pool' = r
    BY <1>1, <1>7, <2>1 DEF fpm_pctl_perform_idle_server_maintenance, Slow
  <2>3. Inv(r, normal, crashes) /\ ForksInTime(pool, r)
    BY <1>0, <1>2, <2>1, StillKept, RateKeeps
  <2> QED BY <1>1, <2>2, <2>3 DEF Kept
<1> QED BY <1>3, <1>4, <1>5, <1>6, <1>7


\* A tick of the clock makes every child older, and changes nothing else.
LEMMA OlderSound ==
  ASSUME conf \in Confs, NEW c, Sound(c)
  PROVE  LET d == Older(c) IN Sound(d) /\ Alike(c, d) /\ d.idle_kill = c.idle_kill
<1> DEFINE d == Older(c)
<1>0. /\ c \in Child /\ Tame(c) /\ Drained(c) /\ Grace \in Nat /\ IdleTimeout \in Nat /\ WINDOW \in Nat
      /\ c.drain \in {Unset} \cup (0 .. Grace) /\ c.asked \in {Unset} \cup (0 .. Grace)
      /\ c.age \in 0 .. WINDOW /\ c.quiet \in 0 .. IdleTimeout + 1 /\ c.retire \in {Unset} \cup (0 .. Grace)
  BY ConfIs, CrashBackoffAssumption DEF Sound, Child
<1>1. \A m \in Nat : \A t \in 0 .. m : More(t, m) \in 0 .. m
  BY SMT DEF More
<1>2. \A m \in Nat : \A t \in {Unset} \cup (0 .. m) :
        /\ More(t, m) \in {Unset} \cup (0 .. m)
        /\ t = Unset <=> More(t, m) = Unset
        /\ t = m => More(t, m) = m
  BY SMT DEF More, Unset
<1>3. PICK a \in 0 .. WINDOW : a = More(c.age, WINDOW)
  BY <1>0, <1>1
<1>4. PICK u \in 0 .. IdleTimeout + 1 :
        u = IF PM = "ondemand" THEN More(c.quiet, IdleTimeout + 1) ELSE c.quiet
  <2>1. IdleTimeout + 1 \in Nat
    BY <1>0, SMT
  <2>2. More(c.quiet, IdleTimeout + 1) \in 0 .. IdleTimeout + 1
    BY <1>0, <1>1, <2>1
  <2> QED BY <1>0, <2>2
<1>5. PICK dr \in {Unset} \cup (0 .. Grace) : dr = More(c.drain, Grace)
  BY <1>0, <1>2
<1>6. PICK as \in {Unset} \cup (0 .. Grace) : as = More(c.asked, Grace)
  BY <1>0, <1>2
<1>7. PICK re \in {Unset} \cup (0 .. Grace) : re = More(c.retire, Grace)
  BY <1>0, <1>2
<1>8. d = [c EXCEPT !.age = a, !.quiet = u, !.drain = dr, !.asked = as, !.retire = re]
  BY <1>3, <1>4, <1>5, <1>6, <1>7 DEF Older
<1>9. /\ d \in Child /\ Alike(c, d) /\ d.idle_kill = c.idle_kill /\ d.told = c.told
      /\ d.drain = dr /\ d.asked = as
  <2> DEFINE b == [c EXCEPT !.age = a, !.quiet = u]
  <2>1. b \in Child /\ Alike(c, b) /\ b.idle_kill = c.idle_kill /\ b.told = c.told
    BY <1>0 DEF Child, Alike
  <2>2. d = [b EXCEPT !.drain = dr, !.asked = as, !.retire = re]
    BY <1>0, <1>8
  <2> HIDE DEF b, d
  <2>3. /\ d \in Child /\ Alike(b, d) /\ d.idle_kill = b.idle_kill /\ d.told = b.told
        /\ d.drain = dr /\ d.asked = as
    BY <2>1, <2>2 DEF Child, Alike
  <2> QED BY <2>1, <2>3 DEF Alike
<1> HIDE DEF d
<1>10. /\ c.asked = Grace => as = Grace
       /\ c.drain # Unset <=> dr # Unset
       /\ c.asked # Unset <=> as # Unset
  BY <1>0, <1>2, <1>5, <1>6
<1>11. c.drain # Unset /\ c.asked # Unset /\ c.drain <= c.asked => dr <= as
  BY <1>0, <1>5, <1>6, SMTT(30) DEF More, Unset
<1>12. Tame(d) /\ Drained(d)
  BY <1>0, <1>9, <1>10, <1>11 DEF Tame, Drained
<1>13. Sound(d) /\ Alike(c, d) /\ d.idle_kill = c.idle_kill
  BY <1>9, <1>12 DEF Sound
<1> QED BY <1>13 DEF d

LEMMA ClockBack ==
  ASSUME NEW e, Back(e)
  PROVE  LET f == Clock(e) IN
         /\ Back(f) /\ f.failures = e.failures /\ f.shown = e.shown /\ f.queued = e.queued
         /\ f.next = Unset <=> e.next = Unset
         /\ e.next # Unset /\ e.due <= e.next => f.due <= f.next
<1> DEFINE f == Clock(e)
<1>0. /\ e \in Entry /\ e.next \in {Unset} \cup (0 .. CAP) /\ e.due \in 0 .. CAP
      /\ e.survive \in {Unset} \cup (0 .. WINDOW) /\ CAP \in Nat /\ WINDOW \in Nat
  BY CrashBackoffAssumption DEF Back, Entry
<1>1. PICK n \in {Unset} \cup (0 .. CAP) : n = Less(e.next)
  BY <1>0, SMT DEF Less, Unset
<1>2. PICK d \in 0 .. CAP : d = Less(e.due)
  BY <1>0, SMT DEF Less
<1>3. PICK s \in {Unset} \cup (0 .. WINDOW) : s = Less(e.survive)
  BY <1>0, SMT DEF Less, Unset
<1>4. f = [e EXCEPT !.next = n, !.due = d, !.survive = s]
  BY <1>1, <1>2, <1>3 DEF Clock
<1>5. /\ f \in Entry /\ f.failures = e.failures /\ f.shown = e.shown /\ f.queued = e.queued
      /\ f.armed = e.armed /\ f.gave_up = e.gave_up /\ f.next = n /\ f.due = d
  BY <1>0, <1>4 DEF Entry
<1> HIDE DEF f
<1>6. /\ n = Unset <=> e.next = Unset
      /\ n > 0 => e.next > 0
      /\ e.next # Unset /\ e.due <= e.next => d <= n
  BY <1>0, <1>1, <1>2, SMTT(30) DEF Less, Unset
<1>7. Back(f)
  BY <1>5, <1>6 DEF Back
<1>8. /\ Back(f) /\ f.failures = e.failures /\ f.shown = e.shown /\ f.queued = e.queued
      /\ f.next = Unset <=> e.next = Unset
      /\ e.next # Unset /\ e.due <= e.next => f.due <= f.next
  BY <1>5, <1>6, <1>7
<1> QED BY <1>8 DEF f


LEMMA TickKept ==
  ASSUME PoolInv, Tick
  PROVE  Kept
<1> DEFINE s == pool.children
           r == [i \in 1 .. Len(s) |-> Older(s[i])]
           e == pool.backoff
           f == Clock(e)
           q == [pool EXCEPT !.children = r, !.backoff = f]
<1>0. /\ conf \in Confs /\ Based(pool) /\ Shows(pool) /\ Back(e) /\ s \in Seq(Child) /\ Len(s) \in Nat
      /\ DOMAIN s = 1 .. Len(s) /\ \A i \in 1 .. Len(s) : Sound(s[i])
      /\ Inv(pool, normal, crashes) /\ crashes \in Nat
  BY InvIs
<1>1. pool' = q /\ normal' = normal /\ crashes' = crashes
  BY <1>0 DEF Tick
<1>2. ASSUME NEW i \in 1 .. Len(s)
      PROVE  Sound(r[i]) /\ r[i] \in Child /\ Alike(s[i], r[i]) /\ r[i].idle_kill = s[i].idle_kill
  BY <1>0, OlderSound DEF Sound
<1>3. r \in Seq(Child) /\ Len(r) = Len(s)
  <2>1. r \in [1 .. Len(s) -> Child]
    BY <1>2
  <2> QED BY <1>0, <2>1, SeqOf, SMTT(60)
<1>4. /\ Back(f) /\ f.failures = e.failures /\ f.shown = e.shown /\ f.queued = e.queued
      /\ f.next = Unset <=> e.next = Unset
      /\ e.next # Unset /\ e.due <= e.next => f.due <= f.next
  BY <1>0, ClockBack
<1> HIDE DEF r, f
<1>5. f \in Entry
  BY <1>4 DEF Back
<1>6. /\ q \in [children : Seq(Child), idle_spawn_rate : 1 .. 2 * MaxSpawnRate - 1, backoff : Entry]
      /\ q.children = r /\ q.backoff = f
  BY <1>0, <1>3, <1>5 DEF Based
<1> HIDE DEF q
<1>7. OneWatched(r)
  BY <1>0, <1>2, <1>3 DEF Based, Good, OneWatched, Alike
<1>8. Good(r)
  BY <1>2, <1>3, <1>7 DEF Good
<1>9. Based(q)
  BY <1>0, <1>3, <1>4, <1>6, <1>8 DEF Based
<1>10. Shows(q) /\ (normal => Scheduled(q))
  BY <1>0, <1>3, <1>4, <1>6 DEF Inv, Shows, Scheduled
<1>11. Lost(q.children) = Lost(pool.children)
  BY <1>2, <1>3, <1>6 DEF Lost, Alike
<1>12. Alive(q) = Alive(pool)
  <2>1. /\ Alive(q) = {i \in 1 .. Len(r) : ~r[i].dead}
        /\ Alive(pool) = {i \in 1 .. Len(s) : ~s[i].dead}
    BY <1>0, <1>6, <1>9, Counted
  <2> QED BY <1>2, <1>3, <2>1 DEF Alike
<1>13. Inv(q, normal, crashes)
  BY <1>0, <1>4, <1>6, <1>9, <1>10, <1>11 DEF Inv
<1>14. ForksInTime(pool, q)
  <2>1. ~(Cardinality(Alive(q)) > Cardinality(Alive(pool)))
    BY <1>0, <1>12, Counted, SMTT(30)
  <2> QED BY <2>1 DEF ForksInTime
<1> QED BY <1>1, <1>13, <1>14 DEF Kept

-----------------------------------------------------------------------------
(* The theorems.                                                           *)

LEMMA PoolStarts == Init => PoolInv
<1> SUFFICES ASSUME Init PROVE PoolInv
  OBVIOUS
<1>11. PICK n \in IF Crowded THEN 0 .. Initial ELSE {Initial} :
             pool = [children |-> [i \in 1 .. n |-> Newborn(FALSE)], idle_spawn_rate |-> 1,
                     backoff |-> fpm_crash_backoff_init]
  BY DEF Init
<1> DEFINE s == [i \in 1 .. n |-> Newborn(FALSE)]
           e == fpm_crash_backoff_init
<1>0. /\ conf \in Confs /\ normal = TRUE /\ backlog = 0 /\ edge = FALSE /\ crashes = 0
      /\ pool = [children |-> s, idle_spawn_rate |-> 1, backoff |-> e]
  BY <1>11 DEF Init
<1>1. /\ n \in Nat /\ n <= MaxChildren /\ (PM = "static" /\ ~Crowded => n = MaxChildren)
      /\ MaxSpawnRate \in Nat \ {0} /\ MaxChildren \in Nat /\ MaxCrashes \in Nat
  <2>1. Initial \in Nat /\ Initial <= MaxChildren /\ (PM = "static" => Initial = MaxChildren)
    BY <1>0, ConfIs, SMT DEF Initial
  <2>2. n \in 0 .. Initial /\ (~Crowded => n = Initial)
    BY <1>11, <2>1, SMT
  <2>3. MaxSpawnRate \in Nat \ {0} /\ MaxChildren \in Nat /\ MaxCrashes \in Nat
    BY <1>0, ConfIs, SMT
  <2> QED BY <2>1, <2>2, <2>3, SMT
<1>2. ASSUME NEW i \in 1 .. n PROVE s[i] \in Child /\ Sound(s[i]) /\ ~s[i].watched /\ ~s[i].dead
  <2>1. s[i] = Newborn(FALSE)
    OBVIOUS
  <2> QED BY <1>0, <2>1, NewbornSound DEF Sound
<1>3. s \in Seq(Child) /\ Len(s) = n
  <2>1. s \in [1 .. n -> Child]
    BY <1>2
  <2> QED BY <1>1, <2>1, SeqOf
<1>4. Back(e) /\ e.failures = 0 /\ e.next = Unset /\ ~e.shown /\ e \in Entry
  <2>1. e \in Entry
    BY CrashBackoffAssumption, SMT DEF fpm_crash_backoff_init, Entry
  <2> QED BY <2>1, SMTT(30) DEF Back, fpm_crash_backoff_init, Unset
<1> HIDE DEF s, e
<1>5. Good(s)
  BY <1>2, <1>3 DEF Good, OneWatched
<1>6. Based(pool)
  <2>1. pool.children = s /\ pool.backoff = e /\ pool.idle_spawn_rate = 1
    BY <1>0
  <2>2. pool \in [children : Seq(Child), idle_spawn_rate : 1 .. 2 * MaxSpawnRate - 1, backoff : Entry]
    BY <1>0, <1>1, <1>3, <1>4, SMTT(30)
  <2> QED BY <1>1, <1>3, <1>4, <1>5, <2>1, <2>2 DEF Based
<1>7. Shows(pool) /\ Scheduled(pool)
  BY <1>0, <1>1, <1>3, <1>4, SMTT(30) DEF Shows, Scheduled, MayRefuse
<1>8. Cardinality(Lost(pool.children)) = 0
  <2>1. Lost(pool.children) = {}
    BY <1>0, <1>2, <1>3 DEF Lost
  <2> QED BY <2>1, FS_EmptySet
<1>9. Inv(pool, normal, crashes)
  BY <1>0, <1>4, <1>6, <1>7, <1>8, SMTT(30) DEF Inv
<1>10. 0 \in 0 .. MaxBacklog /\ 0 \in 0 .. MaxCrashes
  BY <1>1, PoolManagerAssumption, SMTT(30)
<1> QED BY <1>0, <1>9, <1>10 DEF PoolInv


\* The section of the pool never changes.
LEMMA SameConf ==
  ASSUME conf' = conf, Inv(pool', normal', crashes')
  PROVE  Inv(pool, normal, crashes)'
<1>1. Child' = Child
  BY DEF Child, IdleTimeout, Grace
<1>2. \A c : Sound(c)' <=> Sound(c)
  BY <1>1 DEF Sound, Tame, Drained, PM, Drains, Slowlog, Grace
<1>3. Good(pool.children)' <=> Good(pool'.children)
  BY <1>1, <1>2 DEF Good, OneWatched
<1>4. Based(pool)' <=> Based(pool')
  BY <1>1, <1>3 DEF Based, Back, MaxSpawnRate, MaxChildren
<1>5. Shows(pool)' /\ (normal' => Scheduled(pool)')
  BY DEF Inv, Shows, Scheduled, MayRefuse, Crowded, PM, MaxChildren
<1> QED BY <1>4, <1>5 DEF Inv, Lost

LEMMA PoolKept ==
  ASSUME PoolInv, Next
  PROVE  Kept /\ conf' = conf
<1>0. DOMAIN pool.children = 1 .. Len(pool.children)
  BY InvIs
<1>1. ASSUME NEW i \in DOMAIN pool.children, Process(i) \/ BuryStopped(i) PROVE Kept
  BY <1>0, <1>1, ProcessKept
<1>2. ASSUME NEW i \in DOMAIN pool.children, fpm_children_bury(i) PROVE Kept
  BY <1>0, <1>2, BuryKept
<1>3. CASE fpm_crash_backoff_gate_fire
  BY <1>3, GateKept DEF Next
<1>4. CASE fpm_crash_backoff_survive_fire
  BY <1>4, SurviveKept DEF Next
<1>5. CASE Heartbeat
  BY <1>5, HeartbeatKept DEF Next
<1>6. CASE fpm_pctl_on_socket_accept
  BY <1>6, AcceptKept DEF Next
<1>7. CASE Connect
  BY <1>7, StillKept DEF Next, Connect, Kept
<1>8. CASE Stop
  <2>1. pool' = pool /\ normal' = FALSE /\ crashes' = crashes
    BY <1>8 DEF Stop
  <2>2. Inv(pool, FALSE, crashes)
    BY StillKept DEF Inv
  <2> QED BY <2>1, <2>2, StillKept DEF Kept, Next
<1>9. CASE Tick
  BY <1>9, TickKept DEF Next
<1> QED BY <1>1, <1>2, <1>3, <1>4, <1>5, <1>6, <1>7, <1>8, <1>9 DEF Next

LEMMA PoolSteps == PoolInv /\ [Next]_vars => PoolInv' /\ [ForksInTime(pool, pool')]_vars
<1> SUFFICES ASSUME PoolInv, [Next]_vars PROVE PoolInv' /\ [ForksInTime(pool, pool')]_vars
  OBVIOUS
<1>1. CASE Next
  <2>1. Kept /\ conf' = conf
    BY <1>1, PoolKept
  <2>2. Inv(pool, normal, crashes)'
    BY <2>1, SameConf DEF Kept
  <2>3. /\ normal' \in BOOLEAN /\ backlog' \in 0 .. MaxBacklog /\ edge' \in BOOLEAN
        /\ crashes' \in 0 .. MaxCrashes
    <3>0. /\ normal \in BOOLEAN /\ backlog \in 0 .. MaxBacklog /\ edge \in BOOLEAN
          /\ crashes \in 0 .. MaxCrashes /\ MaxBacklog \in Nat /\ MaxCrashes \in Nat
      BY ConfIs, PoolManagerAssumption DEF PoolInv
    <3>1. CASE \E i \in DOMAIN pool.children : Process(i)
      BY <3>0, <3>1, SMTT(30) DEF Process, Accepting, ReadingHeaders, KeptAlive, Leave, Crash
    <3>2. CASE Connect
      BY <3>0, <3>2, SMTT(30) DEF Connect
    <3>3. CASE Stop
      BY <3>0, <3>3 DEF Stop
    <3>4. CASE fpm_pctl_on_socket_accept
      BY <3>0, <3>4 DEF fpm_pctl_on_socket_accept
    <3>5. CASE \/ \E i \in DOMAIN pool.children : fpm_children_bury(i) \/ BuryStopped(i)
               \/ fpm_crash_backoff_gate_fire \/ fpm_crash_backoff_survive_fire \/ Heartbeat \/ Tick
      <4>1. UNCHANGED <<normal, backlog, edge, crashes>>
        BY <3>5 DEF fpm_children_bury, BuryStopped, fpm_crash_backoff_gate_fire,
                    fpm_crash_backoff_survive_fire, Heartbeat, Tick
      <4> QED BY <3>0, <4>1
    <3> QED BY <1>1, <3>1, <3>2, <3>3, <3>4, <3>5 DEF Next
  <2>4. conf \in Confs /\ MaxCrashes' = MaxCrashes
    BY <2>1 DEF PoolInv, MaxCrashes
  <2> QED BY <2>1, <2>2, <2>3, <2>4 DEF PoolInv, Kept
<1>2. CASE UNCHANGED vars
  <2>1. conf' = conf /\ pool' = pool /\ normal' = normal /\ crashes' = crashes /\ backlog' = backlog /\ edge' = edge
    BY <1>2 DEF vars
  <2>2. Inv(pool, normal, crashes)'
    <3>1. Inv(pool', normal', crashes')
      BY <2>1 DEF PoolInv
    <3> QED BY <2>1, <3>1, SameConf
  <2> QED BY <1>2, <2>1, <2>2 DEF PoolInv, MaxCrashes
<1> QED BY <1>1, <1>2

LEMMA PoolInvariant == Spec => []PoolInv
BY PoolStarts, PoolSteps, PTL DEF Spec

\* The backoff of a pool is sound (BackoffSound): the children fit the
\* scoreboard and one at most is watched, a static pool that lacks a child has
\* its gate timer queued in time, the streak, the wait and what the status page
\* shows belong together.  For any sections, clock and limits, and whether or
\* not fork() fails or process.max refuses (fpm_crash_backoff.c, fpm_children.c).
THEOREM BackoffTheorem == Spec => []BackoffSound
<1>1. PoolInv => BackoffSound
  <2> SUFFICES ASSUME PoolInv PROVE BackoffSound
    OBVIOUS
  <2>0. /\ conf \in Confs /\ Inv(pool, normal, crashes) /\ Based(pool) /\ Shows(pool)
        /\ Back(pool.backoff) /\ DOMAIN pool.children = 1 .. Len(pool.children)
        /\ pool.backoff.failures \in Nat /\ crashes \in Nat
    BY InvIs
  <2>1. TypeOK
    BY <2>0 DEF TypeOK, Based, Good, OneWatched, Running, PoolInv
  <2>2. RespawnScheduled
    BY <2>0 DEF RespawnScheduled, Inv, Scheduled, MayRefuse, Running
  <2>3. StreakMeaning
    <3>1. Cardinality(Lost(pool.children)) \in Nat
      BY <2>0, Counted
    <3>2. pool.backoff.failures <= crashes
      BY <2>0, <3>1, SMTT(30) DEF Inv
    <3> QED BY <2>0, <3>2 DEF StreakMeaning, Back
  <2>4. WaitShown
    BY <2>0 DEF WaitShown, Back, Shows, MayRefuse
  <2> QED BY <2>1, <2>2, <2>3, <2>4 DEF BackoffSound
<1> QED BY <1>1, PoolInvariant, PTL

\* No step forks a child before the wait of the streak is over
\* (fpm_crash_backoff_may_spawn() in every path that may fork).
THEOREM HonouredTheorem == Spec => BackoffHonoured
BY PoolInvariant, PoolSteps, PTL DEF Spec, BackoffHonoured

\* A child that a scale-down told to drain is not killed before it had
\* http.read_timeout for it, when no pool that drains traces its slow requests
\* and the drain entries are always allocated (fpm_pctl_kill_idle_child()).
THEOREM DrainTheorem ==
  ASSUME ~ForkFails, \A c \in Confs : c.drains => ~c.slowlog
  PROVE  Spec => []DrainGrace
<1>1. PoolInv => DrainGrace
  <2> SUFFICES ASSUME PoolInv, Drains, NEW i \in DOMAIN pool.children,
                      pool.children[i].idle_kill, pool.children[i].told = "KILL"
               PROVE  pool.children[i].asked = Grace
    BY DEF DrainGrace
  <2>1. Sound(pool.children[i]) /\ conf \in Confs
    BY InvIs
  <2> QED BY <2>1 DEF Sound, Drained, Slowlog, Drains
<1> QED BY <1>1, PoolInvariant, PTL

=============================================================================
