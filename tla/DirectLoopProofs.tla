-------------------------- MODULE DirectLoopProofs --------------------------
(***************************************************************************)
(* The table of a direct child, for any number of connections, tables,     *)
(* counters and budgets.  What the runs check is not inductive: that the   *)
(* table names the connections it counts rests on what evhttp still calls  *)
(* back for each of them; that the answers in flight are exact rests on    *)
(* one callback per unanswered request; that a child which retires keeps   *)
(* its connections rests on which of its flags can be set in which phase.  *)
(* Here are the invariant and the callbacks of the loop.                   *)
(***************************************************************************)
EXTENDS DirectChild, WellFoundedInduction, FiniteSetTheorems, TLAPS

\* Leaves go to Zenon unless they name another prover.
USE ZenonT(30)

ChildState == [tab : Table, cn : [Conns -> Connection], w : Worker]

\* A connection nobody has decided to end.
Kept(x) == x.life = "held" /\ ~x.closing /\ ~x.last

\* A connection by itself: the callbacks evhttp holds for it.
Proper(x) ==
  /\ x.closecb <=> x.done = "response"
  /\ x.closecb => x.life = "held" /\ x.phase = "reply"
  /\ x.phase = "reply" /\ x.done = "none" => x.closing
  /\ x.life # "held" => x.phase = "read"
  /\ x.life = "queue" => x.done = "none"

\* A connection and its node.
Covered(t, x, c) ==
  /\ c \in Tracked(t) => x.life # "queue"
  /\ Kept(x) => /\ c \in Tracked(t)
                /\ x.phase = "read" => t.node[c].armed \/ t.node[c].watch = "byte"
                /\ x.phase # "read" => t.node[c].served

\* The script and the connection it answers.
Running(s) ==
  /\ s.w.cur = None <=> s.w.script = "none"
  /\ s.w.broken = "exit" => s.w.cur = None
  /\ s.w.broken # "exit" =>
       \A c \in Conns : s.cn[c].phase = "call" => s.w.cur = c /\ s.w.script = "run"
  /\ s.w.cur # None =>
       LET x == s.cn[s.w.cur] IN
       /\ x.life = "held"
       /\ s.w.script = "run" => x.phase = "call"
       /\ s.w.script = "stream" => x.closecb

Awaited(cf) == {c \in Conns : cf[c].closecb}

\* The gate lets one connection in, below the limit.
Gated(t, v) ==
  /\ v.paused => v.listener # "gone"
  /\ t.limits.max > 0 => /\ Len(t.list) <= t.limits.max
                         /\ v.listener = "on" => Len(t.list) < t.limits.max

\* The connections of a client that have been judged and let in.
Admitted(t, cf, k) ==
  {d \in Tracked(t) : Client[d] = k /\ t.node[d].checked /\ ~t.node[d].over /\ cf[d].life = "held"}

Judged(t, cf) ==
  t.limits.per_client > 0 =>
    /\ \A d \in Tracked(t) : t.node[d].served => t.node[d].checked /\ ~t.node[d].over
    /\ \A c \in Conns : Cardinality(Admitted(t, cf, Client[c])) <= t.limits.per_client

\* How a child left.
Left(s) ==
  s.w.broken # "no" =>
    /\ s.w.cur # None => s.w.script = "responded"
    /\ s.w.stopping /\ ~s.w.stale => s.w.pending = 0

Sound(s) ==
  /\ s \in ChildState /\ s.tab.limits \in Configured
  /\ \A c \in Conns : Proper(s.cn[c]) /\ Covered(s.tab, s.cn[c], c)
  /\ s.w.pending = Cardinality(Awaited(s.cn))
  /\ Gated(s.tab, s.w) /\ Judged(s.tab, s.cn)

Good(s) == Sound(s) /\ Running(s) /\ Left(s)

\* What a step that breaks the loop for a retirement within its grace leaves.
Parting(s) ==
  \/ s.w.broken \in {"no", "exit"} \/ s.w.stopping \/ s.w.stale \/ s.w.grace # "running"
  \/ s.w.pending = 0 /\ \A c \in Conns : ~Kept(s.cn[c])

Decent(s) == Good(s) /\ Parting(s)

ChildInv == Good(State)

-----------------------------------------------------------------------------
(* Induction, through the least counterexample.                            *)

LEMMA LeastNumber ==
  ASSUME NEW T, T \subseteq Nat, T # {}
  PROVE  \E x \in T : \A y \in T : x <= y
<1> DEFINE R == {p \in Nat \X Nat : p[1] < p[2]}
<1>1. IsWellFoundedOn(R, Nat)
  BY NatLessThanWellFounded DEF OpToRel
<1>2. PICK x \in T : \A y \in T : ~ (<<y, x>> \in R)
  BY <1>1, WFMin
<1>3. ASSUME NEW y \in T, y < x PROVE FALSE
  <2>1. <<y, x>> \in Nat \X Nat /\ <<y, x>>[1] < <<y, x>>[2]
    BY <1>3
  <2>2. <<y, x>> \in R
    BY <2>1
  <2> QED BY <1>2, <2>2
<1>4. \A y \in T : x <= y
  BY <1>3, SMT
<1> QED BY <1>4

LEMMA UpTo ==
  ASSUME NEW n \in Nat, NEW P, 0 \in P, \A i \in 0 .. (n - 1) : i \in P => i + 1 \in P
  PROVE  n \in P
<1> DEFINE T == {i \in 0 .. n : i \notin P}
<1> SUFFICES ASSUME T # {} PROVE FALSE
  BY SMT
<1>1. PICK x \in T : \A y \in T : x <= y
  <2>1. T \subseteq Nat
    BY SMT
  <2> QED BY <2>1, LeastNumber
<1>2. x \in 0 .. n /\ x \notin P
  OBVIOUS
<1>3. x - 1 \in 0 .. (n - 1)
  BY <1>2, SMT
<1>4. x - 1 \in P
  <2>1. x - 1 \in 0 .. n
    BY <1>3, SMT
  <2>2. x - 1 \notin T
    BY <1>1, <1>2, SMT
  <2> QED BY <2>1, <2>2
<1> QED BY <1>2, <1>3, <1>4, SMT

\* What the list is after its first i connections.
Filtered(s, cs, f, n) ==
  /\ f \in [0 .. n -> Seq(Conns)] /\ f[0] = <<>>
  /\ \A i \in 1 .. n : f[i] = IF s[i] \in cs THEN f[i - 1] ELSE Append(f[i - 1], s[i])

LEMMA FilteredExists ==
  ASSUME NEW s \in Seq(Conns), NEW cs
  PROVE  \E f : Filtered(s, cs, f, Len(s))
<1> DEFINE P == {n \in Nat : \E f : Filtered(s, cs, f, n)}
<1>1. 0 \in P
  <2>1. Filtered(s, cs, [i \in 0 .. 0 |-> <<>>], 0)
    BY SMT DEF Filtered
  <2> QED BY <2>1
<1>2. ASSUME NEW n \in 0 .. (Len(s) - 1), n \in P PROVE n + 1 \in P
  <2>1. PICK f : Filtered(s, cs, f, n)
    BY <1>2
  <2> DEFINE x == IF s[n + 1] \in cs THEN f[n] ELSE Append(f[n], s[n + 1])
             g == [i \in 0 .. (n + 1) |-> IF i = n + 1 THEN x ELSE f[i]]
  <2>2. n \in Nat /\ n + 1 \in 1 .. Len(s) /\ s[n + 1] \in Conns
    BY SMT
  <2>3. f[n] \in Seq(Conns) /\ \A i \in 0 .. n : f[i] \in Seq(Conns)
    BY <2>1, <2>2, SMT DEF Filtered
  <2>4. x \in Seq(Conns)
    BY <2>2, <2>3, SMT
  <2> HIDE DEF x
  <2>5. g \in [0 .. (n + 1) -> Seq(Conns)]
    BY <2>2, <2>3, <2>4, SMT
  <2>6. \A i \in 0 .. n : g[i] = f[i]
    BY <2>2, SMT
  <2>7. g[n + 1] = x
    BY <2>2, SMT
  <2> HIDE DEF g
  <2>8. g[0] = <<>>
    BY <2>1, <2>2, <2>6, SMT DEF Filtered
  <2>9. ASSUME NEW i \in 1 .. (n + 1)
        PROVE  g[i] = IF s[i] \in cs THEN g[i - 1] ELSE Append(g[i - 1], s[i])
    <3>1. CASE i = n + 1
      BY <2>2, <2>6, <2>7, <3>1, SMT DEF x
    <3>2. CASE i # n + 1
      <4>1. i \in 1 .. n /\ i \in 0 .. n /\ i - 1 \in 0 .. n
        BY <2>2, <3>2, SMT
      <4> QED BY <2>1, <2>6, <4>1 DEF Filtered
    <3> QED BY <3>1, <3>2
  <2>10. Filtered(s, cs, g, n + 1)
    BY <2>5, <2>8, <2>9 DEF Filtered
  <2> QED BY <2>2, <2>10, SMT
<1>3. Len(s) \in P
  <2> HIDE DEF P
  <2> QED BY <1>1, <1>2, UpTo, SMT
<1> QED BY <1>3

LEMMA WithoutIs ==
  ASSUME NEW s \in Seq(Conns), NEW cs
  PROVE  LET r == Without(s, cs) IN
         /\ r \in Seq(Conns) /\ Len(r) <= Len(s) /\ Range(r) = Range(s) \ cs
         /\ Range(s) \cap cs # {} => Len(r) < Len(s)
<1> DEFINE F(f) == [i \in 0 .. Len(s) |-> IF i = 0 THEN <<>>
                      ELSE IF s[i] \in cs THEN f[i - 1] ELSE Append(f[i - 1], s[i])]
           g == CHOOSE f : f = F(f)
<1>1. PICK f : Filtered(s, cs, f, Len(s))
  BY FilteredExists
<1>2. f = F(f)
  <2>1. f = [i \in 0 .. Len(s) |-> f[i]]
    BY <1>1 DEF Filtered
  <2>2. ASSUME NEW i \in 0 .. Len(s)
        PROVE  f[i] = IF i = 0 THEN <<>>
                      ELSE IF s[i] \in cs THEN f[i - 1] ELSE Append(f[i - 1], s[i])
    <3>1. CASE i = 0
      BY <1>1, <3>1 DEF Filtered
    <3>2. CASE i # 0
      <4>1. i \in 1 .. Len(s)
        BY <3>2, SMT
      <4> QED BY <1>1, <3>2, <4>1 DEF Filtered
    <3> QED BY <3>1, <3>2
  <2> QED BY <2>1, <2>2
<1>3. g = F(g)
  <2> HIDE DEF F
  <2> QED BY <1>2
<1>b. \A i \in 0 .. Len(s) : g[i] = IF i = 0 THEN <<>>
                      ELSE IF s[i] \in cs THEN g[i - 1] ELSE Append(g[i - 1], s[i])
  <2> HIDE DEF g
  <2> QED BY <1>3
<1>4. Without(s, cs) = g[Len(s)]
  BY DEF Without
<1> HIDE DEF g
<1> DEFINE Q == {n \in Nat : /\ g[n] \in Seq(Conns) /\ Len(g[n]) <= n
                             /\ Range(g[n]) = {s[j] : j \in 1 .. n} \ cs
                             /\ (\E j \in 1 .. n : s[j] \in cs) => Len(g[n]) < n}
<1>5. 0 \in Q
  <2>1. g[0] = <<>>
    BY <1>b, SMT
  <2>2. Range(<<>>) = {} /\ <<>> \in Seq(Conns) /\ Len(<<>>) = 0
    BY SMT DEF Range
  <2>3. 1 .. 0 = {}
    BY SMT
  <2>4. {s[j] : j \in 1 .. 0} = {}
    BY <2>3
  <2>5. Range(g[0]) = {s[j] : j \in 1 .. 0} \ cs
    BY <2>1, <2>2, <2>4
  <2>6. g[0] \in Seq(Conns) /\ Len(g[0]) <= 0
    BY <2>1, <2>2, SMT
  <2> QED BY <2>3, <2>5, <2>6
<1>6. ASSUME NEW n \in 0 .. (Len(s) - 1), n \in Q PROVE n + 1 \in Q
  <2>1. n \in Nat /\ n + 1 \in 1 .. Len(s) /\ s[n + 1] \in Conns
    BY SMT
  <2>2. g[n + 1] = IF s[n + 1] \in cs THEN g[n] ELSE Append(g[n], s[n + 1])
    <3>1. n + 1 \in 0 .. Len(s) /\ n + 1 # 0 /\ (n + 1) - 1 = n
      BY <2>1, SMT
    <3> QED BY <1>b, <3>1
  <2>a. 1 .. (n + 1) = (1 .. n) \cup {n + 1}
    BY <2>1, SMT
  <2>3. {s[j] : j \in 1 .. (n + 1)} = {s[j] : j \in 1 .. n} \cup {s[n + 1]}
    BY <2>a
  <2>4. /\ g[n] \in Seq(Conns) /\ Len(g[n]) <= n
        /\ Range(g[n]) = {s[j] : j \in 1 .. n} \ cs
        /\ (\E j \in 1 .. n : s[j] \in cs) => Len(g[n]) < n
    BY <1>6
  <2>5. CASE s[n + 1] \in cs
    <3>1. g[n + 1] = g[n]
      BY <2>2, <2>5
    <3>2. Range(g[n]) = {s[j] : j \in 1 .. (n + 1)} \ cs
      BY <2>3, <2>4, <2>5
    <3>3. Len(g[n]) < n + 1
      BY <2>1, <2>4, SMT
    <3> QED BY <2>1, <2>4, <3>1, <3>2, <3>3, SMT
  <2>6. CASE s[n + 1] \notin cs
    <3>1. g[n + 1] = Append(g[n], s[n + 1])
      BY <2>2, <2>6
    <3>2. /\ Append(g[n], s[n + 1]) \in Seq(Conns)
          /\ Len(Append(g[n], s[n + 1])) = Len(g[n]) + 1
      BY <2>1, <2>4, SMT
    <3>3. Range(Append(g[n], s[n + 1])) = Range(g[n]) \cup {s[n + 1]}
      <4> DEFINE r == g[n]
                 q == Append(r, s[n + 1])
      <4>1. r \in Seq(Conns) /\ Len(r) \in Nat
        BY <2>4, SMT
      <4>2. q \in Seq(Conns) /\ Len(q) = Len(r) + 1 /\ q[Len(r) + 1] = s[n + 1]
        BY <2>1, <4>1, SMT
      <4>3. \A i \in 1 .. Len(r) : q[i] = r[i]
        BY <2>1, <4>1, SMT
      <4> HIDE DEF r, q
      <4>4. DOMAIN r = 1 .. Len(r) /\ DOMAIN q = 1 .. (Len(r) + 1)
        BY <4>1, <4>2, SMT
      <4>5. 1 .. (Len(r) + 1) = (1 .. Len(r)) \cup {Len(r) + 1}
        BY <4>1, SMT
      <4>6. Range(q) = Range(r) \cup {s[n + 1]}
        <5>1. Range(q) = {q[i] : i \in (1 .. Len(r)) \cup {Len(r) + 1}}
          BY <4>4, <4>5 DEF Range
        <5>2. Range(r) = {r[i] : i \in 1 .. Len(r)}
          BY <4>4 DEF Range
        <5> QED BY <4>2, <4>3, <5>1, <5>2
      <4> QED BY <4>6 DEF r, q
    <3>4. Range(g[n + 1]) = {s[j] : j \in 1 .. (n + 1)} \ cs
      BY <2>3, <2>4, <2>6, <3>1, <3>3
    <3>5. ASSUME \E j \in 1 .. (n + 1) : s[j] \in cs PROVE Len(g[n + 1]) < n + 1
      <4>1. \E j \in 1 .. n : s[j] \in cs
        BY <2>6, <2>a, <3>5
      <4> QED BY <2>1, <2>4, <3>1, <3>2, <4>1, SMT
    <3>6. g[n + 1] \in Seq(Conns) /\ Len(g[n + 1]) <= n + 1
      BY <2>1, <2>4, <3>1, <3>2, SMTT(30)
    <3> QED BY <2>1, <3>4, <3>5, <3>6, SMTT(30)
  <2> QED BY <2>5, <2>6
<1>7. Len(s) \in Q
  <2> HIDE DEF Q
  <2> QED BY <1>5, <1>6, UpTo, SMT
<1>8. Range(s) = {s[j] : j \in 1 .. Len(s)}
  BY SMT DEF Range
<1> QED BY <1>4, <1>7, <1>8

-----------------------------------------------------------------------------
(* The table.                                                              *)

LEMMA TableParts ==
  ASSUME NEW t \in Table
  PROVE  /\ t.list \in Seq(Conns) /\ t.node \in [Conns -> Node] /\ t.limits \in Limits
         /\ Tracked(t) \subseteq Conns /\ Len(t.list) \in Nat
         /\ IsFiniteSet(Tracked(t)) /\ Cardinality(Tracked(t)) \in Nat
<1>1. t.list \in Seq(Conns) /\ t.node \in [Conns -> Node] /\ t.limits \in Limits
  BY DEF Table
<1>2. Tracked(t) \subseteq Conns
  BY <1>1, SMT DEF Tracked, Range
<1>3. IsFiniteSet(Tracked(t)) /\ Cardinality(Tracked(t)) \in Nat
  BY <1>2, DirectChildAssumption, FS_Subset, FS_CardinalityType
<1> QED BY <1>1, <1>2, <1>3, SMT

LEMMA LimitsAre ==
  ASSUME NEW l \in Limits
  PROVE  l.max \in Nat /\ l.per_client \in Nat /\ l.read \in BOOLEAN /\ l.track \in BOOLEAN
  BY DEF Limits

\* A list names no more connections than it is long.
LEMMA NamesBounded ==
  ASSUME NEW s \in Seq(Conns)
  PROVE  Cardinality(Range(s)) <= Len(s)
<1> DEFINE f == [i \in 1 .. Len(s) |-> s[i]]
           n == Len(s)
<1>1. n \in Nat /\ Range(s) = {f[i] : i \in 1 .. n}
  BY SMT DEF Range
<1>2. f \in Surjection(1 .. n, Range(s))
  BY <1>1 DEF Surjection
<1> HIDE DEF n
<1>3. IsFiniteSet(1 .. n) /\ Cardinality(1 .. n) = n
  <2>1. 1 \in Int /\ n \in Int
    BY <1>1, SMT
  <2>2. IsFiniteSet(1 .. n) /\ Cardinality(1 .. n) = IF 1 > n THEN 0 ELSE n - 1 + 1
    BY <2>1, FS_Interval
  <2> QED
    BY <1>1, <2>2, SMT
<1> HIDE DEF f
<1>4. Cardinality(Range(s)) <= n
  BY <1>2, <1>3, FS_Surjection, SMT
<1> QED BY <1>4 DEF n

LEMMA FreshTyped == FreshNode \in Node
  BY DEF FreshNode, Node

LEMMA UnlinkIs ==
  ASSUME NEW t \in Table, NEW cs
  PROVE  LET r == Unlink(t, cs) IN
         /\ r \in Table /\ r.limits = t.limits /\ Len(r.list) <= Len(t.list)
         /\ Tracked(r) = Tracked(t) \ cs
         /\ \A c \in Tracked(r) : r.node[c] = t.node[c]
         /\ \A c \in Conns : c \notin Tracked(r) => r.node[c] = FreshNode
         /\ Tracked(t) \cap cs # {} => Len(r.list) < Len(t.list)
<1> DEFINE l == Without(t.list, cs)
           n == [c \in Conns |-> IF c \in Tracked(t) \ cs THEN t.node[c] ELSE FreshNode]
           r == Unlink(t, cs)
<1>1. /\ l \in Seq(Conns) /\ Len(l) <= Len(t.list) /\ Range(l) = Tracked(t) \ cs
      /\ Tracked(t) \cap cs # {} => Len(l) < Len(t.list)
  BY TableParts, WithoutIs DEF Tracked
<1>2. n \in [Conns -> Node] /\ \A c \in Conns : n[c] = IF c \in Tracked(t) \ cs THEN t.node[c] ELSE FreshNode
  BY TableParts, FreshTyped
<1>3. r = [t EXCEPT !.list = l, !.node = n]
  BY DEF Unlink
<1> HIDE DEF l, n
<1>4. r \in Table /\ r.limits = t.limits /\ r.list = l /\ r.node = n
  BY <1>1, <1>2, <1>3 DEF Table
<1> HIDE DEF r
<1>5. Tracked(r) = Tracked(t) \ cs
  BY <1>1, <1>4 DEF Tracked
<1>6. \A c \in Tracked(r) : r.node[c] = t.node[c]
  BY <1>2, <1>4, <1>5, TableParts
<1>7. \A c \in Conns : c \notin Tracked(r) => r.node[c] = FreshNode
  BY <1>2, <1>4, <1>5
<1>8. r \in Table /\ r.limits = t.limits /\ Len(r.list) <= Len(t.list)
  BY <1>1, <1>4
<1>9. Tracked(t) \cap cs # {} => Len(r.list) < Len(t.list)
  BY <1>1, <1>4
<1> QED BY <1>5, <1>6, <1>7, <1>8, <1>9 DEF r

\* What a sweep does: nodes of connections evhttp has let go of are freed.
Swept(t, r, gone) ==
  /\ r \in Table /\ r.limits = t.limits /\ Len(r.list) <= Len(t.list)
  /\ Tracked(r) \subseteq Tracked(t) /\ Tracked(t) \ Tracked(r) \subseteq gone
  /\ \A c \in Tracked(r) : r.node[c] = t.node[c]

LEMMA SweptSelf ==
  ASSUME NEW t \in Table, NEW gone
  PROVE  Swept(t, t, gone)
  BY TableParts, SMT DEF Swept

LEMMA SweptTwice ==
  ASSUME NEW t \in Table, NEW r, NEW q, NEW gone, Swept(t, r, gone), Swept(r, q, gone)
  PROVE  Swept(t, q, gone)
<1>1. Len(t.list) \in Nat /\ Len(r.list) \in Nat /\ Len(q.list) \in Nat
  BY TableParts DEF Swept
<1> QED BY <1>1, SMT DEF Swept

LEMMA SweepAll ==
  ASSUME NEW t \in Table, NEW gone
  PROVE  LET r == fpm_direct_conn_sweep_all(t, gone) IN
         /\ Swept(t, r, gone)
         /\ fpm_http_direct_conns_live(r) = 0 => Tracked(t) \subseteq gone
<1> DEFINE cs == {c \in Tracked(t) : fpm_direct_conn_released(t, gone, c)}
           r == fpm_direct_conn_sweep_all(t, gone)
<1>1. r = Unlink(t, cs)
  BY DEF fpm_direct_conn_sweep_all
<1>2. cs \subseteq gone
  BY DEF fpm_direct_conn_released
<1> HIDE DEF cs, r
<1>3. /\ r \in Table /\ r.limits = t.limits /\ Len(r.list) <= Len(t.list)
      /\ Tracked(r) = Tracked(t) \ cs /\ \A c \in Tracked(r) : r.node[c] = t.node[c]
  BY <1>1, UnlinkIs, SMT
<1>4. Swept(t, r, gone)
  BY <1>2, <1>3 DEF Swept
<1>5. ASSUME Len(r.list) = 0 PROVE Tracked(t) \subseteq gone
  <2>1. r.list \in Seq(Conns)
    BY <1>3, TableParts
  <2>2. Tracked(r) = {}
    BY <1>5, <2>1, SMT DEF Tracked, Range
  <2> QED BY <1>2, <1>3, <2>2
<1> QED BY <1>4, <1>5 DEF r, fpm_http_direct_conns_live

LEMMA TurnIs ==
  ASSUME NEW s \in Seq(Conns), NEW k \in 0 .. Len(s)
  PROVE  LET n == Len(s)
             turned == SubSeq(s, n - k + 1, n)
             r == turned \o SubSeq(s, 1, n - k)
         IN r \in Seq(Conns) /\ Len(r) = n /\ Range(r) = Range(s) /\ Range(turned) \subseteq Range(s)
<1> DEFINE n == Len(s)
           turned == SubSeq(s, n - k + 1, n)
           front == SubSeq(s, 1, n - k)
           r == turned \o front
<1>1. n \in Nat /\ k \in Nat /\ k <= n
  BY SMT
<1>2. /\ turned \in Seq(Conns) /\ Len(turned) = k
      /\ \A i \in 1 .. k : turned[i] = s[n - k + i]
  BY <1>1, SMT
<1>3. /\ front \in Seq(Conns) /\ Len(front) = n - k
      /\ \A i \in 1 .. (n - k) : front[i] = s[i]
  BY <1>1, SMT
<1> HIDE DEF turned, front
<1>4. r \in Seq(Conns) /\ Len(r) = Len(turned) + Len(front)
  <2>1. turned \in Seq(Conns) /\ front \in Seq(Conns)
    BY <1>2, <1>3
  <2> QED BY <2>1, SMT
<1>5. \A i \in 1 .. k : r[i] = turned[i]
  BY <1>1, <1>2, <1>3, SMT
<1>6. \A i \in (k + 1) .. n : r[i] = front[i - k]
  BY <1>1, <1>2, <1>3, SMT
<1> HIDE DEF r
<1>7. Len(r) = n
  BY <1>1, <1>2, <1>3, <1>4, SMT
<1> HIDE DEF n
<1>8. /\ \A i \in 1 .. k : r[i] = s[n - k + i] /\ n - k + i \in 1 .. n
      /\ \A i \in (k + 1) .. n : r[i] = s[i - k] /\ i - k \in 1 .. n
  <2>1. \A i \in (k + 1) .. n : i - k \in 1 .. (n - k) /\ i - k \in 1 .. n
    BY <1>1, SMT
  <2>2. \A i \in 1 .. k : n - k + i \in 1 .. n
    BY <1>1, SMT
  <2> QED BY <1>2, <1>3, <1>5, <1>6, <2>1, <2>2
<1>9. DOMAIN s = 1 .. n /\ DOMAIN r = 1 .. n /\ DOMAIN turned = 1 .. k
  BY <1>2, <1>4, <1>7, SMT DEF n
<1>10. Range(r) \subseteq Range(s)
  <2>1. \A i \in 1 .. n : r[i] \in Range(s)
    <3> SUFFICES ASSUME NEW i \in 1 .. n PROVE r[i] \in Range(s)
      OBVIOUS
    <3>1. i \in 1 .. k \/ i \in (k + 1) .. n
      BY <1>1, SMT
    <3> QED BY <1>8, <1>9, <3>1 DEF Range
  <2> QED BY <1>9, <2>1 DEF Range
<1>11. Range(s) \subseteq Range(r)
  <2>1. ASSUME NEW i \in 1 .. n PROVE s[i] \in Range(r)
    <3>1. CASE i <= n - k
      <4>1. i + k \in (k + 1) .. n /\ i + k \in 1 .. n /\ (i + k) - k = i
        BY <1>1, <3>1, SMT
      <4>2. r[i + k] = s[i]
        BY <1>8, <4>1
      <4> QED BY <1>9, <4>1, <4>2 DEF Range
    <3>2. CASE i > n - k
      <4>1. i - (n - k) \in 1 .. k /\ i - (n - k) \in 1 .. n /\ n - k + (i - (n - k)) = i
        BY <1>1, <3>2, SMT
      <4>2. r[i - (n - k)] = s[i]
        BY <1>8, <4>1
      <4> QED BY <1>9, <4>1, <4>2 DEF Range
    <3> QED BY <1>1, <3>1, <3>2, SMT
  <2> QED BY <1>9, <2>1 DEF Range
<1>12. Range(turned) \subseteq Range(s)
  <2>1. \A i \in 1 .. k : turned[i] = s[n - k + i] /\ n - k + i \in 1 .. n
    BY <1>2, <1>8
  <2> QED BY <1>9, <2>1 DEF Range
<1> QED BY <1>4, <1>7, <1>10, <1>11, <1>12 DEF r, turned, front, n

LEMMA FrontIs ==
  ASSUME NEW s \in Seq(Conns), NEW c \in Conns
  PROVE  /\ <<c>> \o s \in Seq(Conns) /\ Len(<<c>> \o s) = Len(s) + 1
         /\ Range(<<c>> \o s) = Range(s) \cup {c}
<1> DEFINE l == <<c>> \o s
           n == Len(s)
<1>1. l \in Seq(Conns) /\ Len(l) = n + 1 /\ n \in Nat
  BY SMT
<1>2. l[1] = c /\ \A i \in 2 .. (n + 1) : l[i] = s[i - 1]
  BY SMT
<1> HIDE DEF l
<1>3. DOMAIN s = 1 .. n /\ DOMAIN l = 1 .. (n + 1)
  BY <1>1, SMT
<1> HIDE DEF n
<1>4. Range(l) \subseteq Range(s) \cup {c}
  <2>1. ASSUME NEW i \in 1 .. (n + 1) PROVE l[i] \in Range(s) \cup {c}
    <3>1. CASE i = 1
      BY <1>2, <3>1
    <3>2. CASE i # 1
      <4>1. i \in 2 .. (n + 1) /\ i - 1 \in 1 .. n
        BY <1>1, <3>2, SMT
      <4> QED BY <1>2, <1>3, <4>1 DEF Range
    <3> QED BY <3>1, <3>2
  <2> QED BY <1>3, <2>1 DEF Range
<1>5. Range(s) \subseteq Range(l)
  <2>1. ASSUME NEW i \in 1 .. n PROVE s[i] \in Range(l)
    <3>1. i + 1 \in 2 .. (n + 1) /\ i + 1 \in 1 .. (n + 1) /\ (i + 1) - 1 = i
      BY <1>1, SMT
    <3>2. l[i + 1] = s[i]
      BY <1>2, <3>1
    <3> QED BY <1>3, <3>1, <3>2 DEF Range
  <2> QED BY <1>3, <2>1 DEF Range
<1>6. c \in Range(l)
  <2>1. 1 \in 1 .. (n + 1)
    BY <1>1, SMT
  <2> QED BY <1>2, <1>3, <2>1 DEF Range
<1> QED BY <1>1, <1>4, <1>5, <1>6 DEF l, n

LEMMA SweepSome ==
  ASSUME NEW t \in Table, NEW gone
  PROVE  LET r == fpm_http_direct_conns_sweep(t, gone) IN
         /\ Swept(t, r, gone)
         /\ \A c \in Conns : c \notin Tracked(r) => r.node[c] = FreshNode
<1> DEFINE n == Len(t.list)
           k == IF n < SweepMax THEN n ELSE SweepMax
           turned == SubSeq(t.list, n - k + 1, n)
           l == turned \o SubSeq(t.list, 1, n - k)
           q == [t EXCEPT !.list = l]
           cs == {c \in Range(turned) : fpm_direct_conn_released(t, gone, c)}
           r == fpm_http_direct_conns_sweep(t, gone)
<1>1. t.list \in Seq(Conns) /\ n \in Nat
  BY TableParts
<1>2. k \in 0 .. n
  BY <1>1, ConnTableAssumption, SMT
<1>3. r = Unlink(q, cs)
  BY DEF fpm_http_direct_conns_sweep
<1> HIDE DEF k
<1>4. l \in Seq(Conns) /\ Len(l) = n /\ Range(l) = Range(t.list)
  BY <1>1, <1>2, TurnIs
<1>5. cs \subseteq gone
  BY DEF fpm_direct_conn_released
<1> HIDE DEF l, cs
<1>6. q \in Table /\ q.limits = t.limits /\ q.list = l /\ q.node = t.node
  BY <1>4 DEF Table
<1>7. Tracked(q) = Tracked(t)
  BY <1>4, <1>6 DEF Tracked
<1> HIDE DEF q, r
<1>8. /\ r \in Table /\ r.limits = q.limits /\ Len(r.list) <= Len(q.list)
      /\ Tracked(r) = Tracked(q) \ cs
      /\ \A c \in Tracked(r) : r.node[c] = q.node[c]
      /\ \A c \in Conns : c \notin Tracked(r) => r.node[c] = FreshNode
  BY <1>3, <1>6, UnlinkIs, SMT
<1>9. Swept(t, r, gone)
  BY <1>4, <1>5, <1>6, <1>7, <1>8 DEF Swept
<1> QED BY <1>8, <1>9 DEF r

LEMMA MayAccept ==
  ASSUME NEW t \in Table, NEW gone
  PROVE  LET m == fpm_http_direct_conns_may_accept(t, gone) IN
         /\ Swept(t, m.t, gone) /\ m.ok \in BOOLEAN
         /\ m.ok /\ t.limits.max > 0 => Len(m.t.list) < t.limits.max
<1> DEFINE r == fpm_direct_conn_sweep_all(t, gone)
<1>1. Swept(t, r, gone) /\ Swept(t, t, gone)
  BY SweepAll, SweptSelf
<1> HIDE DEF r
<1>2. t.limits.max \in Nat /\ Len(t.list) \in Nat
  BY TableParts, LimitsAre
<1>3. CASE t.limits.max = 0 \/ Len(t.list) < t.limits.max
  <2>1. fpm_http_direct_conns_may_accept(t, gone) = [t |-> t, ok |-> TRUE]
    BY <1>3 DEF fpm_http_direct_conns_may_accept, fpm_http_direct_conns_live
  <2> QED BY <1>1, <1>2, <1>3, <2>1, SMT
<1>4. CASE ~(t.limits.max = 0 \/ Len(t.list) < t.limits.max)
  <2>1. fpm_http_direct_conns_may_accept(t, gone) = [t |-> r, ok |-> Len(r.list) < t.limits.max]
    BY <1>4 DEF fpm_http_direct_conns_may_accept, fpm_http_direct_conns_live, r
  <2> DEFINE ok == Len(r.list) < t.limits.max
             m == [t |-> r, ok |-> ok]
  <2>2. m.t = r /\ m.ok = ok
    OBVIOUS
  <2>3. ok \in BOOLEAN
    BY SMT
  <2>4. m.ok => Len(m.t.list) < t.limits.max
    BY <2>2
  <2> HIDE DEF ok
  <2>5. Swept(t, m.t, gone) /\ m.ok \in BOOLEAN
    BY <1>1, <2>2, <2>3
  <2> QED BY <2>1, <2>4, <2>5 DEF ok
<1> QED BY <1>3, <1>4

LEMMA AcceptedIs ==
  ASSUME NEW t \in Table, NEW gone, NEW c \in Conns, c \notin Tracked(t), t.limits.read = TRUE
  PROVE  LET r == fpm_http_direct_conns_accepted(t, gone, c) IN
         /\ r \in Table /\ r.limits = t.limits /\ Len(r.list) <= Len(t.list) + 1
         /\ Tracked(r) \subseteq Tracked(t) \cup {c} /\ c \in Tracked(r)
         /\ Tracked(t) \ Tracked(r) \subseteq gone
         /\ \A d \in Tracked(r) \ {c} : r.node[d] = t.node[d]
         /\ r.node[c].armed /\ ~r.node[c].checked /\ ~r.node[c].served
<1> DEFINE q == fpm_http_direct_conns_sweep(t, gone)
           l == <<c>> \o q.list
           x == [FreshNode EXCEPT !.armed = TRUE]
           n == [q.node EXCEPT ![c] = x]
           r == fpm_http_direct_conns_accepted(t, gone, c)
<1>1. Swept(t, q, gone) /\ \A d \in Conns : d \notin Tracked(q) => q.node[d] = FreshNode
  BY SweepSome
<1>2. r = [q EXCEPT !.list = <<c>> \o @, !.node[c].armed = t.limits.read]
  BY DEF fpm_http_direct_conns_accepted
<1> HIDE DEF q
<1>3. /\ q \in Table /\ q.limits = t.limits /\ Len(q.list) <= Len(t.list)
      /\ Tracked(q) \subseteq Tracked(t) /\ Tracked(t) \ Tracked(q) \subseteq gone
      /\ \A d \in Tracked(q) : q.node[d] = t.node[d]
  BY <1>1 DEF Swept
<1>4. q.list \in Seq(Conns) /\ q.node \in [Conns -> Node] /\ Len(q.list) \in Nat /\ Len(t.list) \in Nat
  BY <1>3, TableParts
<1>5. q.node[c] = FreshNode
  BY <1>1, <1>3
<1>6. x \in Node
  BY DEF FreshNode, Node
<1>7. n \in [Conns -> Node] /\ n[c] = x /\ \A d \in Conns \ {c} : n[d] = q.node[d]
  BY <1>4, <1>6
<1>8. l \in Seq(Conns) /\ Len(l) = Len(q.list) + 1
  BY <1>4, SMT
<1>9. Range(l) = Range(q.list) \cup {c}
  BY <1>4, FrontIs
<1>10. r = [q EXCEPT !.list = l, !.node = n]
  <2>1. [q.node EXCEPT ![c].armed = t.limits.read] = n
    BY <1>5
  <2>2. r = [q EXCEPT !.list = l, !.node = [q.node EXCEPT ![c].armed = t.limits.read]]
    BY <1>2, <1>3 DEF Table
  <2> QED BY <2>1, <2>2
<1> HIDE DEF l, x, n
<1>11. r \in Table /\ r.limits = q.limits /\ r.list = l /\ r.node = n
  BY <1>3, <1>7, <1>8, <1>10 DEF Table
<1> HIDE DEF r
<1>12. Tracked(r) = Tracked(q) \cup {c}
  BY <1>9, <1>11 DEF Tracked
<1>13. Len(r.list) <= Len(t.list) + 1
  BY <1>3, <1>4, <1>8, <1>11, SMT
<1>14. \A d \in Tracked(r) \ {c} : r.node[d] = t.node[d]
  BY <1>3, <1>7, <1>11, <1>12, TableParts
<1>15. r.node[c].armed /\ ~r.node[c].checked /\ ~r.node[c].served
  BY <1>7, <1>11 DEF x, FreshNode
<1> QED BY <1>3, <1>11, <1>12, <1>13, <1>14, <1>15 DEF r

-----------------------------------------------------------------------------
(* Judging a connection against the limit per client.                      *)

\* A node that differs at most in its descriptor.
Alike(x, y) ==
  /\ y.armed = x.armed /\ y.watch = x.watch /\ y.checked = x.checked
  /\ y.served = x.served /\ y.over = x.over

LEMMA ResolveIs ==
  ASSUME NEW t \in Table, NEW cs
  PROVE  LET r == fpm_direct_conn_resolve(t, cs) IN
         /\ r \in Table /\ r.limits = t.limits /\ r.list = t.list
         /\ \A d \in Conns : Alike(t.node[d], r.node[d])
<1> DEFINE n == [c \in Conns |-> IF c \in cs THEN [t.node[c] EXCEPT !.fd = TRUE] ELSE t.node[c]]
           r == fpm_direct_conn_resolve(t, cs)
<1>1. \A d \in Conns : n[d] \in Node /\ Alike(t.node[d], n[d])
  <2> SUFFICES ASSUME NEW d \in Conns PROVE n[d] \in Node /\ Alike(t.node[d], n[d])
    OBVIOUS
  <2>1. t.node[d] \in Node
    BY TableParts
  <2>2. [t.node[d] EXCEPT !.fd = TRUE] \in Node /\ Alike(t.node[d], [t.node[d] EXCEPT !.fd = TRUE])
    BY <2>1 DEF Node, Alike
  <2> QED BY <2>1, <2>2 DEF Alike
<1>2. n \in [Conns -> Node]
  BY <1>1
<1>3. r = [t EXCEPT !.node = n]
  BY DEF fpm_direct_conn_resolve
<1> HIDE DEF n
<1>4. r \in Table /\ r.limits = t.limits /\ r.list = t.list /\ r.node = n
  BY <1>2, <1>3 DEF Table
<1> QED BY <1>1, <1>4

LEMMA SetNode ==
  ASSUME NEW t \in Table, NEW c \in Conns, NEW x \in Node
  PROVE  LET r == [t EXCEPT !.node = [t.node EXCEPT ![c] = x]] IN
         /\ r \in Table /\ r.limits = t.limits /\ r.list = t.list /\ Tracked(r) = Tracked(t)
         /\ r.node[c] = x /\ \A d \in Conns \ {c} : r.node[d] = t.node[d]
<1> DEFINE n == [t.node EXCEPT ![c] = x]
           r == [t EXCEPT !.node = n]
<1>1. n \in [Conns -> Node] /\ n[c] = x /\ \A d \in Conns \ {c} : n[d] = t.node[d]
  BY TableParts
<1> HIDE DEF n
<1>2. r \in Table /\ r.limits = t.limits /\ r.list = t.list /\ r.node = n
  BY <1>1 DEF Table
<1> HIDE DEF r
<1> QED BY <1>1, <1>2 DEF Tracked, r, n

\* The other connections of c's client that have not been refused.
Peers(t, c) == {d \in Tracked(t) \ {c} : ~t.node[d].over /\ Client[d] = Client[c]}

\* A table without some nodes of lost.
Thinned(t, r, lost) ==
  /\ r \in Table /\ r.limits = t.limits /\ Len(r.list) <= Len(t.list)
  /\ Tracked(r) \subseteq Tracked(t) /\ Tracked(t) \ Tracked(r) \subseteq lost

\* The node of c after the verdict on it.
Ruled(t, j, c) ==
  /\ j.t.node[c].armed = t.node[c].armed /\ j.t.node[c].watch = t.node[c].watch
  /\ j.t.node[c].served = t.node[c].served
  /\ j.t.node[c].over <=> t.node[c].over \/ j.over
  /\ t.node[c].checked => j.t.node[c].checked /\ ~j.over
  /\ t.limits.per_client > 0 =>
       /\ j.t.node[c].checked
       /\ ~t.node[c].checked /\ ~j.over => Cardinality(Peers(j.t, c)) < t.limits.per_client

\* The verdict on c, and the table after it.
Verdict(t, j, gone, c, drop) ==
  /\ j.over \in BOOLEAN
  /\ Thinned(t, j.t, gone \cup {c}) /\ (drop \/ ~j.over => Thinned(t, j.t, gone))
  /\ j.over /\ ~drop => c \notin Tracked(j.t)
  /\ \A d \in Tracked(j.t) \ {c} : Alike(t.node[d], j.t.node[d])
  /\ c \in Tracked(j.t) => Ruled(t, j, c)

LEMMA ThinnedMore ==
  ASSUME NEW t, NEW r, NEW gone, NEW c, Thinned(t, r, gone)
  PROVE  Thinned(t, r, gone \cup {c})
  BY DEF Thinned

\* The verdict on c in a table that has been swept, and c marked.
Judgement(t, c, drop) ==
  IF fpm_direct_conn_peer_count(t, c) < t.limits.per_client THEN [t |-> t, over |-> FALSE]
  ELSE IF drop THEN [t |-> [t EXCEPT !.node[c].over = TRUE], over |-> TRUE]
  ELSE [t |-> fpm_direct_conn_forget(t, c), over |-> TRUE]

\* The table c is judged in.
Marked(t, c) == fpm_direct_conn_resolve([t EXCEPT !.node[c].checked = TRUE], Tracked(t) \ {c})

LEMMA CheckPeerIs ==
  ASSUME NEW t, NEW gone, NEW c, NEW drop \in BOOLEAN,
         ~(t.node[c].checked \/ t.limits.per_client = 0)
  PROVE  fpm_direct_conn_check_peer(t, gone, c, drop) =
           Judgement(Marked(fpm_direct_conn_sweep_all(t, gone), c), c, drop)
<1> DEFINE Checked(u) == Marked(u, c)
           Judge(u) == Judgement(u, c, drop)
<1>1. fpm_direct_conn_check_peer(t, gone, c, drop) =
        With(With(fpm_direct_conn_sweep_all(t, gone), Checked), Judge)
  BY DEF fpm_direct_conn_check_peer, Marked, Judgement
<1> HIDE DEF Checked, Judge
<1>2. \A v : With(v, Checked) = Checked(v)
  BY DEF With
<1>3. \A v : With(v, Judge) = Judge(v)
  BY DEF With
<1> QED BY <1>1, <1>2, <1>3 DEF Checked, Judge

LEMMA CheckPeer ==
  ASSUME NEW t \in Table, NEW gone, NEW c \in Conns, NEW drop \in BOOLEAN
  PROVE  Verdict(t, fpm_direct_conn_check_peer(t, gone, c, drop), gone, c, drop)
<1> DEFINE j == fpm_direct_conn_check_peer(t, gone, c, drop)
<1>1. /\ t.limits.per_client \in Nat /\ Len(t.list) \in Nat
      /\ t.node[c] \in Node /\ t.node[c].over \in BOOLEAN
  BY TableParts, LimitsAre DEF Node
<1>2. CASE t.node[c].checked \/ t.limits.per_client = 0
  <2>1. j = [t |-> t, over |-> FALSE]
    BY <1>2 DEF fpm_direct_conn_check_peer
  <2>2. j.t = t /\ j.over = FALSE
    BY <2>1, SMT
  <2> HIDE DEF j
  <2>3. Thinned(t, j.t, gone) /\ \A d \in Conns : Alike(t.node[d], j.t.node[d])
    BY <1>1, <2>2, SMT DEF Thinned, Alike
  <2>4. Ruled(t, j, c)
    BY <1>1, <1>2, <2>2, SMT DEF Ruled
  <2>5. \A d \in Tracked(j.t) \ {c} : Alike(t.node[d], j.t.node[d])
    BY <2>2, <2>3, TableParts
  <2> QED BY <2>2, <2>3, <2>4, <2>5, ThinnedMore DEF Verdict, j
<1>3. CASE ~(t.node[c].checked \/ t.limits.per_client = 0)
  <2> DEFINE t0 == fpm_direct_conn_sweep_all(t, gone)
             x == [t0.node[c] EXCEPT !.checked = TRUE]
             q == [t0 EXCEPT !.node = [t0.node EXCEPT ![c] = x]]
             t1 == fpm_direct_conn_resolve(q, Tracked(t0) \ {c})
  <2>1. Swept(t, t0, gone)
    BY SweepAll
  <2>2. j = Judgement(t1, c, drop)
    <3>1. j = Judgement(Marked(t0, c), c, drop)
      BY <1>3, CheckPeerIs
    <3>2. Marked(t0, c) = t1
      BY DEF Marked
    <3> HIDE DEF t1, j
    <3> QED BY <3>1, <3>2
  <2> HIDE DEF t0
  <2>3. /\ t0 \in Table /\ t0.limits = t.limits /\ Len(t0.list) <= Len(t.list) /\ t0.node[c] \in Node
        /\ Tracked(t0) \subseteq Tracked(t) /\ Tracked(t) \ Tracked(t0) \subseteq gone
        /\ \A d \in Tracked(t0) : t0.node[d] = t.node[d]
    BY <2>1, TableParts DEF Swept
  <2>4. /\ x \in Node /\ x.armed = t0.node[c].armed /\ x.watch = t0.node[c].watch
        /\ x.served = t0.node[c].served /\ x.over = t0.node[c].over /\ x.checked = TRUE
    BY <2>3 DEF Node
  <2> HIDE DEF x
  <2>5. /\ q \in Table /\ q.limits = t0.limits /\ q.list = t0.list /\ Tracked(q) = Tracked(t0)
        /\ q.node[c] = x /\ \A d \in Conns \ {c} : q.node[d] = t0.node[d]
    BY <2>3, <2>4, SetNode, SMT
  <2> HIDE DEF q
  <2>6. /\ t1 \in Table /\ t1.limits = q.limits /\ t1.list = q.list
        /\ \A d \in Conns : Alike(q.node[d], t1.node[d])
    BY <2>5, ResolveIs
  <2> HIDE DEF t1
  <2>7. Tracked(t1) = Tracked(t0) /\ Tracked(t1) \subseteq Conns
    BY <2>3, <2>5, <2>6, TableParts DEF Tracked
  <2>8. /\ t1.limits = t.limits /\ Len(t1.list) <= Len(t.list)
        /\ \A d \in Tracked(t1) \ {c} : Alike(t.node[d], t1.node[d])
    BY <2>3, <2>5, <2>6, <2>7, SMTT(30) DEF Alike
  <2>9. /\ t1.node[c] \in Node /\ t1.node[c].checked = TRUE
        /\ c \in Tracked(t1) =>
             /\ t1.node[c].armed = t.node[c].armed /\ t1.node[c].watch = t.node[c].watch
             /\ t1.node[c].served = t.node[c].served /\ t1.node[c].over = t.node[c].over
    BY <2>3, <2>4, <2>5, <2>6, <2>7, TableParts DEF Alike
  <2>10. CASE fpm_direct_conn_peer_count(t1, c) < t1.limits.per_client
    <3>1. j.t = t1 /\ j.over = FALSE
      BY <2>2, <2>10, SMT DEF Judgement
    <3>2. Cardinality(Peers(j.t, c)) < t.limits.per_client
      BY <2>8, <2>10, <3>1 DEF fpm_direct_conn_peer_count, Peers
    <3> HIDE DEF j
    <3>3. Thinned(t, j.t, gone)
      BY <2>3, <2>6, <2>7, <2>8, <3>1 DEF Thinned
    <3>4. c \in Tracked(j.t) => Ruled(t, j, c)
      BY <1>3, <2>9, <3>1, <3>2 DEF Ruled
    <3>5. \A d \in Tracked(j.t) \ {c} : Alike(t.node[d], j.t.node[d])
      BY <2>8, <3>1
    <3> QED BY <3>1, <3>3, <3>4, <3>5, ThinnedMore DEF Verdict, j
  <2>11. CASE ~(fpm_direct_conn_peer_count(t1, c) < t1.limits.per_client) /\ drop
    <3> DEFINE y == [t1.node[c] EXCEPT !.over = TRUE]
               r == [t1 EXCEPT !.node = [t1.node EXCEPT ![c] = y]]
    <3>1. /\ y \in Node /\ y.armed = t1.node[c].armed /\ y.watch = t1.node[c].watch
          /\ y.served = t1.node[c].served /\ y.over = TRUE /\ y.checked = TRUE
      BY <2>9 DEF Node
    <3>2. j.t = r /\ j.over = TRUE
      BY <2>2, <2>11, SMT DEF Judgement
    <3> HIDE DEF y
    <3>3. /\ r \in Table /\ r.limits = t1.limits /\ r.list = t1.list /\ Tracked(r) = Tracked(t1)
          /\ r.node[c] = y /\ \A d \in Conns \ {c} : r.node[d] = t1.node[d]
      BY <2>6, <3>1, SetNode, SMT
    <3> HIDE DEF r, j
    <3>4. \A d \in Tracked(r) \ {c} : Alike(t.node[d], r.node[d])
      BY <2>7, <2>8, <3>3
    <3>5. Thinned(t, j.t, gone)
      BY <2>3, <2>7, <2>8, <3>2, <3>3 DEF Thinned
    <3>6. c \in Tracked(j.t) => Ruled(t, j, c)
      BY <1>3, <2>9, <3>1, <3>2, <3>3 DEF Ruled
    <3>7. \A d \in Tracked(j.t) \ {c} : Alike(t.node[d], j.t.node[d])
      BY <3>2, <3>4
    <3> QED BY <2>11, <3>2, <3>5, <3>6, <3>7, ThinnedMore DEF Verdict, j
  <2>12. CASE ~(fpm_direct_conn_peer_count(t1, c) < t1.limits.per_client) /\ ~drop
    <3> DEFINE r == Unlink(t1, {c})
    <3>1. j.t = r /\ j.over = TRUE
      BY <2>2, <2>12, SMT DEF Judgement, fpm_direct_conn_forget
    <3>2. /\ r \in Table /\ r.limits = t1.limits /\ Len(r.list) <= Len(t1.list)
          /\ Tracked(r) = Tracked(t1) \ {c}
          /\ \A d \in Tracked(r) : r.node[d] = t1.node[d]
      BY <2>6, UnlinkIs
    <3> HIDE DEF r, j
    <3>3. \A d \in Tracked(r) \ {c} : Alike(t.node[d], r.node[d])
      BY <2>7, <2>8, <3>2
    <3>4. Len(r.list) \in Nat /\ Len(t1.list) \in Nat
      BY <2>6, <3>2, TableParts
    <3>5. Thinned(t, j.t, gone \cup {c})
      BY <1>1, <2>3, <2>7, <2>8, <3>1, <3>2, <3>4, SMTT(30) DEF Thinned
    <3>6. c \notin Tracked(j.t) /\ \A d \in Tracked(j.t) \ {c} : Alike(t.node[d], j.t.node[d])
      BY <3>1, <3>2, <3>3
    <3> QED BY <2>12, <3>1, <3>5, <3>6 DEF Verdict, j
  <2> QED BY <2>10, <2>11, <2>12
<1> QED BY <1>2, <1>3

LEMMA PickupIs ==
  ASSUME NEW t \in Table, NEW gone, NEW c \in Conns
  PROVE  LET p == fpm_direct_conn_pickup(t, gone, c) IN
         /\ p.over \in BOOLEAN /\ Thinned(t, p.t, gone)
         /\ \A d \in Tracked(p.t) \ {c} : Alike(t.node[d], p.t.node[d])
         /\ c \in Tracked(p.t) =>
              /\ p.t.node[c].armed = t.node[c].armed /\ p.t.node[c].served = t.node[c].served
              /\ p.t.node[c].over <=> t.node[c].over \/ p.over
              /\ t.node[c].checked => ~p.over
              /\ t.limits.per_client > 0 =>
                   /\ p.t.node[c].checked
                   /\ ~t.node[c].checked /\ ~p.over => Cardinality(Peers(p.t, c)) < t.limits.per_client
<1> DEFINE q == fpm_direct_conn_resolve(t, {c})
           j == fpm_direct_conn_check_peer(q, gone, c, TRUE)
           k == IF j.over THEN "off" ELSE "eof"
           x == [j.t.node[c] EXCEPT !.watch = k]
           r == [j.t EXCEPT !.node = [j.t.node EXCEPT ![c] = x]]
           p == fpm_direct_conn_pickup(t, gone, c)
<1>1. /\ q \in Table /\ q.limits = t.limits /\ q.list = t.list
      /\ \A d \in Conns : Alike(t.node[d], q.node[d])
  BY ResolveIs
<1>2. p = [j EXCEPT !.t.node[c].watch = k]
  BY DEF fpm_direct_conn_pickup, With
<1>3. j = [t |-> j.t, over |-> j.over]
  <2>1. CASE q.node[c].checked \/ q.limits.per_client = 0
    BY <2>1 DEF fpm_direct_conn_check_peer
  <2>2. CASE ~(q.node[c].checked \/ q.limits.per_client = 0)
    <3> DEFINE u == Marked(fpm_direct_conn_sweep_all(q, gone), c)
    <3>1. j = Judgement(u, c, TRUE)
      BY <2>2, CheckPeerIs
    <3> HIDE DEF u, j
    <3> QED BY <3>1 DEF Judgement
  <2> QED BY <2>1, <2>2
<1> HIDE DEF q
<1>4. Verdict(q, j, gone, c, TRUE)
  BY <1>1, CheckPeer
<1>5. Tracked(q) = Tracked(t)
  BY <1>1 DEF Tracked
<1> HIDE DEF j
<1>6. k \in {"off", "eof"}
  OBVIOUS
<1> HIDE DEF k
<1>7. p.t = r /\ p.over = j.over
  BY <1>2, <1>3
<1>8. j.t \in Table /\ j.over \in BOOLEAN /\ Thinned(q, j.t, gone)
  BY <1>4 DEF Verdict, Thinned
<1>9. j.t.node[c] \in Node
  BY <1>8, TableParts
<1>10. /\ x \in Node /\ x.armed = j.t.node[c].armed /\ x.served = j.t.node[c].served
       /\ x.over = j.t.node[c].over /\ x.checked = j.t.node[c].checked
  BY <1>6, <1>9 DEF Node
<1> HIDE DEF x, p
<1>11. /\ r \in Table /\ r.limits = j.t.limits /\ r.list = j.t.list /\ Tracked(r) = Tracked(j.t)
       /\ r.node[c] = x /\ \A d \in Conns \ {c} : r.node[d] = j.t.node[d]
  BY <1>8, <1>10, SetNode, SMT
<1> HIDE DEF r
<1>12. Thinned(t, r, gone)
  BY <1>1, <1>5, <1>8, <1>11 DEF Thinned
<1>13. \A d \in Tracked(r) \ {c} : Alike(t.node[d], r.node[d])
  <2> SUFFICES ASSUME NEW d \in Tracked(r) \ {c} PROVE Alike(t.node[d], r.node[d])
    OBVIOUS
  <2>1. d \in Conns
    BY <1>11, TableParts
  <2>2. Alike(q.node[d], j.t.node[d])
    BY <1>4, <1>11 DEF Verdict
  <2> QED BY <1>1, <1>11, <2>1, <2>2 DEF Alike
<1>14. Peers(r, c) = Peers(j.t, c)
  BY <1>8, <1>11, TableParts DEF Peers
<1>15. c \in Tracked(r) => Ruled(q, j, c)
  BY <1>4, <1>11 DEF Verdict
<1>16. ASSUME c \in Tracked(r)
       PROVE  /\ r.node[c].armed = t.node[c].armed /\ r.node[c].served = t.node[c].served
              /\ r.node[c].over <=> t.node[c].over \/ j.over
              /\ t.node[c].checked => ~j.over
              /\ t.limits.per_client > 0 =>
                   /\ r.node[c].checked
                   /\ ~t.node[c].checked /\ ~j.over => Cardinality(Peers(r, c)) < t.limits.per_client
  BY <1>1, <1>10, <1>11, <1>14, <1>15, <1>16 DEF Ruled, Alike
<1> QED BY <1>7, <1>8, <1>12, <1>13, <1>16 DEF p

LEMMA ForgetIs ==
  ASSUME NEW t \in Table, NEW c
  PROVE  LET r == fpm_direct_conn_forget(t, c) IN
         /\ Thinned(t, r, {c}) /\ Tracked(r) = Tracked(t) \ {c}
         /\ \A d \in Tracked(r) : r.node[d] = t.node[d]
<1> DEFINE r == Unlink(t, {c})
<1>1. /\ r \in Table /\ r.limits = t.limits /\ Len(r.list) <= Len(t.list)
      /\ Tracked(r) = Tracked(t) \ {c} /\ \A d \in Tracked(r) : r.node[d] = t.node[d]
  BY UnlinkIs
<1>2. fpm_direct_conn_forget(t, c) = r
  BY DEF fpm_direct_conn_forget
<1> HIDE DEF r
<1>3. Thinned(t, r, {c})
  BY <1>1 DEF Thinned
<1> QED BY <1>1, <1>2, <1>3

\* A request is let in: its connection goes to the head, without a deadline.
Admits(t, r, c) ==
  /\ c \in Tracked(r) /\ r.node[c].served /\ ~t.node[c].over
  /\ t.limits.per_client > 0 =>
       /\ r.node[c].checked /\ ~r.node[c].over
       /\ ~t.node[c].checked => Cardinality(Peers(r, c)) < t.limits.per_client

LEMMA RequestIs ==
  ASSUME NEW t \in Table, NEW gone, NEW c \in Tracked(t), c \notin gone, t.limits.track
  PROVE  LET q == fpm_http_direct_conns_request(t, gone, c) IN
         /\ q.over \in BOOLEAN /\ Thinned(t, q.t, gone \cup {c})
         /\ \A d \in Tracked(q.t) \ {c} : Alike(t.node[d], q.t.node[d])
         /\ q.over => c \notin Tracked(q.t)
         /\ ~q.over => Thinned(t, q.t, gone) /\ Admits(t, q.t, c)
<1> DEFINE t0 == fpm_direct_conn_resolve(t, {c})
           j == fpm_direct_conn_check_peer(t0, gone, c, FALSE)
           t1 == [j.t EXCEPT !.node[c].armed = FALSE]
           x == [j.t.node[c] EXCEPT !.armed = FALSE, !.watch = "off", !.served = TRUE]
           n == [j.t.node EXCEPT ![c] = x]
           l == <<c>> \o Without(j.t.list, {c})
           r == [j.t EXCEPT !.list = l, !.node = n]
           q == fpm_http_direct_conns_request(t, gone, c)
<1>1. /\ t0 \in Table /\ t0.limits = t.limits /\ t0.list = t.list
      /\ \A d \in Conns : Alike(t.node[d], t0.node[d])
  BY ResolveIs
<1>2. q = IF t.node[c].over THEN [t |-> fpm_direct_conn_forget(t, c), over |-> TRUE]
          ELSE IF j.over THEN j
          ELSE [t |-> [t1 EXCEPT !.list = <<c>> \o Without(@, {c}),
                                 !.node[c].watch = "off", !.node[c].served = TRUE],
                over |-> FALSE]
  BY DEF fpm_http_direct_conns_request
<1> HIDE DEF t0
<1>3. Verdict(t0, j, gone, c, FALSE)
  BY <1>1, TableParts, CheckPeer
<1>4. Tracked(t0) = Tracked(t) /\ c \in Conns /\ Tracked(t) \subseteq Conns
  BY <1>1, TableParts DEF Tracked
<1> HIDE DEF j
<1>5. /\ j.t \in Table /\ j.over \in BOOLEAN /\ Thinned(t0, j.t, gone \cup {c})
      /\ ~j.over => Thinned(t0, j.t, gone)
  BY <1>3 DEF Verdict, Thinned
<1>6. \A d \in Tracked(j.t) \ {c} : Alike(t.node[d], j.t.node[d])
  <2> SUFFICES ASSUME NEW d \in Tracked(j.t) \ {c} PROVE Alike(t.node[d], j.t.node[d])
    OBVIOUS
  <2>1. d \in Conns
    BY <1>5, TableParts
  <2>2. Alike(t0.node[d], j.t.node[d])
    BY <1>3 DEF Verdict
  <2> QED BY <1>1, <2>1, <2>2 DEF Alike
<1>7. CASE t.node[c].over
  <2> DEFINE u == fpm_direct_conn_forget(t, c)
  <2>1. q.t = u /\ q.over = TRUE
    BY <1>2, <1>7, SMT
  <2>2. Thinned(t, u, {c}) /\ Tracked(u) = Tracked(t) \ {c} /\ \A d \in Tracked(u) : u.node[d] = t.node[d]
    BY ForgetIs
  <2> HIDE DEF u, q
  <2>3. Thinned(t, u, gone \cup {c}) /\ c \notin Tracked(u)
    BY <2>2 DEF Thinned
  <2>4. \A d \in Tracked(u) \ {c} : Alike(t.node[d], u.node[d])
    BY <2>2 DEF Alike
  <2> QED BY <2>1, <2>3, <2>4 DEF q
<1>8. CASE ~t.node[c].over /\ j.over
  <2>1. q = j
    BY <1>2, <1>8
  <2>2. Thinned(t, j.t, gone \cup {c})
    BY <1>1, <1>4, <1>5 DEF Thinned
  <2>3. c \notin Tracked(j.t)
    <3> SUFFICES ASSUME c \in Tracked(j.t) PROVE FALSE
      OBVIOUS
    <3> QED BY <1>3, <1>8 DEF Verdict
  <2> HIDE DEF q
  <2> QED BY <1>6, <1>8, <2>1, <2>2, <2>3 DEF q
<1>9. CASE ~t.node[c].over /\ ~j.over
  <2>1. Thinned(t, j.t, gone)
    BY <1>1, <1>4, <1>5, <1>9 DEF Thinned
  <2>2. c \in Tracked(j.t)
    BY <2>1 DEF Thinned
  <2>3. j.t.node \in [Conns -> Node] /\ j.t.node[c] \in Node /\ j.t.list \in Seq(Conns) /\ Len(j.t.list) \in Nat
    BY <1>4, <1>5, TableParts
  <2>4. x \in Node /\ x.served = TRUE /\ x.over = j.t.node[c].over /\ x.checked = j.t.node[c].checked
    BY <2>3 DEF Node
  <2>5. n \in [Conns -> Node] /\ n[c] = x /\ \A d \in Conns \ {c} : n[d] = j.t.node[d]
    BY <1>4, <2>3, <2>4
  <2>6. /\ Without(j.t.list, {c}) \in Seq(Conns) /\ Len(Without(j.t.list, {c})) < Len(j.t.list)
        /\ Range(Without(j.t.list, {c})) = Tracked(j.t) \ {c}
    BY <2>2, <2>3, WithoutIs DEF Tracked
  <2>7. l \in Seq(Conns) /\ Len(l) <= Len(j.t.list) /\ Range(l) = Tracked(j.t)
    <3>1. l \in Seq(Conns) /\ Len(l) = Len(Without(j.t.list, {c})) + 1
      BY <1>4, <2>6, FrontIs
    <3>2. Range(l) = (Tracked(j.t) \ {c}) \cup {c}
      BY <1>4, <2>6, FrontIs
    <3>3. Len(Without(j.t.list, {c})) \in Nat
      BY <2>6, SMT
    <3>4. Len(l) <= Len(j.t.list)
      BY <2>3, <2>6, <3>1, <3>3, SMTT(30)
    <3>5. Range(l) = Tracked(j.t)
      BY <2>2, <3>2
    <3> QED BY <3>1, <3>4, <3>5
  <2>8. [t1 EXCEPT !.list = <<c>> \o Without(@, {c}), !.node[c].watch = "off", !.node[c].served = TRUE] = r
    <3> DEFINE m == [j.t.node EXCEPT ![c].armed = FALSE]
    <3>1. t1 = [j.t EXCEPT !.node = m]
      OBVIOUS
    <3>2. t1.list = j.t.list /\ t1.node = m
      BY <1>5, <3>1 DEF Table
    <3>3. [[m EXCEPT ![c].watch = "off"] EXCEPT ![c].served = TRUE] = n
      BY <1>4, <2>3 DEF Node
    <3> HIDE DEF t1, m, n
    <3>4. [t1 EXCEPT !.list = <<c>> \o Without(@, {c}), !.node[c].watch = "off", !.node[c].served = TRUE]
          = [t1 EXCEPT !.list = l, !.node = [[m EXCEPT ![c].watch = "off"] EXCEPT ![c].served = TRUE]]
      BY <3>2
    <3>5. [t1 EXCEPT !.list = l, !.node = n] = [j.t EXCEPT !.list = l, !.node = n]
      BY <1>5, <3>1 DEF Table
    <3> QED BY <3>3, <3>4, <3>5
  <2>9. q.t = r /\ q.over = FALSE
    BY <1>2, <1>9, <2>8, SMT
  <2> HIDE DEF x, l, n, q
  <2>10. r \in Table /\ r.limits = j.t.limits /\ r.list = l /\ r.node = n
    BY <1>5, <2>5, <2>7 DEF Table
  <2> HIDE DEF r
  <2>11. Tracked(r) = Tracked(j.t)
    BY <2>7, <2>10 DEF Tracked
  <2>12. Thinned(t, r, gone)
    <3>1. Len(l) \in Nat /\ Len(t.list) \in Nat
      BY <2>7, TableParts, SMT
    <3> QED BY <2>1, <2>3, <2>7, <2>10, <2>11, <3>1, SMTT(30) DEF Thinned
  <2>13. \A d \in Tracked(r) \ {c} : Alike(t.node[d], r.node[d])
    BY <1>5, <1>6, <2>5, <2>10, <2>11, TableParts
  <2>14. Peers(r, c) = Peers(j.t, c)
    BY <1>5, <2>5, <2>10, <2>11, TableParts DEF Peers
  <2>15. Ruled(t0, j, c)
    BY <1>3, <2>2 DEF Verdict
  <2>16. Admits(t, r, c)
    BY <1>1, <1>4, <1>9, <2>2, <2>4, <2>5, <2>10, <2>11, <2>14, <2>15 DEF Admits, Ruled, Alike
  <2> QED BY <2>9, <2>12, <2>13, <2>16, ThinnedMore DEF q
<1> QED BY <1>5, <1>7, <1>8, <1>9

-----------------------------------------------------------------------------
(* The child: setting one part of its state.                               *)

LEMMA StateParts ==
  ASSUME NEW s \in ChildState
  PROVE  s.tab \in Table /\ s.cn \in [Conns -> Connection] /\ s.w \in Worker
  BY DEF ChildState

LEMMA SetW ==
  ASSUME NEW s \in ChildState, NEW v \in Worker
  PROVE  LET r == [s EXCEPT !.w = v] IN
         r \in ChildState /\ r.tab = s.tab /\ r.cn = s.cn /\ r.w = v
  BY DEF ChildState

LEMMA SetTab ==
  ASSUME NEW s \in ChildState, NEW t \in Table
  PROVE  LET r == [s EXCEPT !.tab = t] IN
         r \in ChildState /\ r.tab = t /\ r.cn = s.cn /\ r.w = s.w
  BY DEF ChildState

LEMMA SetConn ==
  ASSUME NEW s \in ChildState, NEW c \in Conns, NEW x \in Connection
  PROVE  LET r == [s EXCEPT !.cn = [s.cn EXCEPT ![c] = x]] IN
         /\ r \in ChildState /\ r.tab = s.tab /\ r.w = s.w
         /\ r.cn[c] = x /\ \A d \in Conns \ {c} : r.cn[d] = s.cn[d]
<1> DEFINE f == [s.cn EXCEPT ![c] = x]
<1>1. f \in [Conns -> Connection] /\ f[c] = x /\ \A d \in Conns \ {c} : f[d] = s.cn[d]
  BY StateParts
<1> HIDE DEF f
<1>2. LET r == [s EXCEPT !.cn = f] IN r \in ChildState /\ r.tab = s.tab /\ r.w = s.w /\ r.cn = f
  BY <1>1 DEF ChildState
<1> QED BY <1>1, <1>2 DEF f

-----------------------------------------------------------------------------
(* The tick: sweeps, the gate, and leaving.                                *)

\* What no tick changes of the worker.
Calm(v, u) ==
  /\ u \in Worker /\ u.pending = v.pending /\ u.stopping = v.stopping
  /\ u.cur = v.cur /\ u.script = v.script /\ u.stale = v.stale

\* A loop is broken by a stop, without a grace, or with nothing left.
Ticked(s, r) ==
  /\ r \in ChildState /\ r.cn = s.cn /\ Swept(s.tab, r.tab, Gone(s)) /\ Calm(s.w, r.w)
  /\ Gated(s.tab, s.w) => Gated(r.tab, r.w)
  /\ \/ r.w.broken = s.w.broken
     \/ /\ s.w.broken = "no" /\ r.w.broken # "exit" /\ (s.w.stopping => s.w.pending = 0)
        /\ \/ s.w.stopping \/ r.w.grace # "running"
           \/ s.w.pending = 0 /\ Tracked(s.tab) \subseteq Gone(s)

LEMMA TickedSelf ==
  ASSUME NEW s \in ChildState
  PROVE  Ticked(s, s)
  BY StateParts, SweptSelf DEF Ticked, Calm

LEMMA TickedTwice ==
  ASSUME NEW s \in ChildState, NEW r, NEW q,
         Ticked(s, r), Ticked(r, q), r.w.broken = s.w.broken
  PROVE  Ticked(s, q)
<1>1. /\ r \in ChildState /\ r.cn = s.cn /\ Swept(s.tab, r.tab, Gone(s)) /\ Calm(s.w, r.w)
      /\ q \in ChildState /\ q.cn = r.cn /\ Swept(r.tab, q.tab, Gone(r)) /\ Calm(r.w, q.w)
  BY DEF Ticked
<1>2. Gone(r) = Gone(s)
  BY <1>1 DEF Gone
<1>3. Swept(s.tab, q.tab, Gone(s))
  BY <1>1, <1>2, StateParts, SweptTwice
<1>4. Calm(s.w, q.w)
  BY <1>1 DEF Calm
<1>5. Gated(s.tab, s.w) => Gated(q.tab, q.w)
  BY DEF Ticked
<1>6. Tracked(r.tab) \subseteq Gone(s) => Tracked(s.tab) \subseteq Gone(s)
  BY <1>1 DEF Swept
<1>7. \/ q.w.broken = s.w.broken
      \/ /\ s.w.broken = "no" /\ q.w.broken # "exit" /\ (s.w.stopping => s.w.pending = 0)
         /\ \/ s.w.stopping \/ q.w.grace # "running"
            \/ s.w.pending = 0 /\ Tracked(s.tab) \subseteq Gone(s)
  BY <1>1, <1>2, <1>6 DEF Ticked, Calm
<1> QED BY <1>1, <1>3, <1>4, <1>5, <1>7 DEF Ticked

LEMMA DelAccept ==
  ASSUME NEW s \in ChildState
  PROVE  LET r == del_accept_socket(s) IN
         Ticked(s, r) /\ r.tab = s.tab /\ r.w.broken = s.w.broken /\ r.w.grace = s.w.grace
<1> DEFINE v == [s.w EXCEPT !.listener = "gone", !.paused = FALSE]
           r == [s EXCEPT !.w = v]
<1>1. del_accept_socket(s) = r
  BY DEF del_accept_socket
<1>2. /\ Calm(s.w, v) /\ v.broken = s.w.broken /\ v.grace = s.w.grace
      /\ v.listener = "gone" /\ v.paused = FALSE
  BY StateParts DEF Worker, Calm
<1> HIDE DEF v
<1>3. r \in ChildState /\ r.tab = s.tab /\ r.cn = s.cn /\ r.w = v
  BY <1>2, SetW DEF Calm
<1> HIDE DEF r
<1>4. Gated(s.tab, s.w) => Gated(r.tab, r.w)
  BY <1>2, <1>3 DEF Gated
<1>5. Ticked(s, r)
  BY <1>2, <1>3, <1>4, StateParts, SweptSelf DEF Ticked
<1> QED BY <1>1, <1>2, <1>3, <1>5

LEMMA EnterIs ==
  ASSUME NEW s \in ChildState
  PROVE  LET r == fpm_direct_retire_enter(s) IN
         Ticked(s, r) /\ r.tab = s.tab /\ r.w.broken = s.w.broken
<1> DEFINE q == del_accept_socket(s)
           v == [q.w EXCEPT !.grace = "running"]
           r == [q EXCEPT !.w = v]
<1>1. CASE s.w.grace # "unset"
  <2>1. fpm_direct_retire_enter(s) = s
    BY <1>1 DEF fpm_direct_retire_enter
  <2> QED BY <2>1, TickedSelf
<1>2. CASE s.w.grace = "unset"
  <2>1. fpm_direct_retire_enter(s) = r
    BY <1>2 DEF fpm_direct_retire_enter
  <2>2. Ticked(s, q) /\ q.tab = s.tab /\ q.w.broken = s.w.broken /\ q.w.grace = s.w.grace
    BY DelAccept
  <2> HIDE DEF q
  <2>3. q \in ChildState /\ q.w \in Worker
    BY <2>2, StateParts DEF Ticked
  <2>4. Calm(q.w, v) /\ v.broken = q.w.broken /\ v.listener = q.w.listener /\ v.paused = q.w.paused
    BY <1>2, <2>2, <2>3 DEF Worker, Calm
  <2> HIDE DEF v
  <2>5. r \in ChildState /\ r.tab = q.tab /\ r.cn = q.cn /\ r.w = v
    BY <2>3, <2>4, SetW DEF Calm
  <2> HIDE DEF r
  <2>6. Gated(q.tab, q.w) => Gated(r.tab, r.w)
    BY <2>4, <2>5 DEF Gated
  <2>7. Ticked(q, r)
    BY <2>3, <2>4, <2>5, <2>6, StateParts, SweptSelf DEF Ticked
  <2>8. Ticked(s, r)
    BY <2>2, <2>7, TickedTwice
  <2> QED BY <2>1, <2>2, <2>4, <2>5, <2>8
<1> QED BY <1>1, <1>2

LEMMA BreakIs ==
  ASSUME NEW s \in ChildState, NEW where \in {"loop", "handler"},
         s.w.stopping => s.w.pending = 0,
         \/ s.w.stopping \/ s.w.grace # "running"
         \/ s.w.pending = 0 /\ Tracked(s.tab) \subseteq Gone(s)
  PROVE  Ticked(s, loopbreak(s, where))
<1> DEFINE v == [s.w EXCEPT !.broken = where]
           r == [s EXCEPT !.w = v]
<1>1. CASE s.w.broken # "no"
  <2>1. loopbreak(s, where) = s
    BY <1>1 DEF loopbreak
  <2> QED BY <2>1, TickedSelf
<1>2. CASE s.w.broken = "no"
  <2>1. loopbreak(s, where) = r
    BY <1>2 DEF loopbreak
  <2>2. /\ Calm(s.w, v) /\ v.listener = s.w.listener /\ v.paused = s.w.paused /\ v.grace = s.w.grace
        /\ v.broken = where
    BY StateParts DEF Worker, Calm
  <2> HIDE DEF v
  <2>3. r \in ChildState /\ r.tab = s.tab /\ r.cn = s.cn /\ r.w = v
    BY <2>2, SetW DEF Calm
  <2> HIDE DEF r
  <2>4. Gated(s.tab, s.w) => Gated(r.tab, r.w)
    BY <2>2, <2>3 DEF Gated
  <2>5. Ticked(s, r)
    BY <1>2, <2>2, <2>3, <2>4, StateParts, SweptSelf DEF Ticked
  <2> QED BY <2>1, <2>5
<1> QED BY <1>1, <1>2

\* A table that only shrinks keeps the gate below the limit.
LEMMA GatedSwept ==
  ASSUME NEW t \in Table, NEW r, NEW gone, NEW v, Swept(t, r, gone), Gated(t, v)
  PROVE  Gated(r, v)
<1>1. Len(t.list) \in Nat /\ Len(r.list) \in Nat /\ t.limits.max \in Nat /\ r.limits = t.limits
  BY TableParts, LimitsAre DEF Swept
<1> QED BY <1>1, SMT DEF Gated, Swept

LEMMA SweptState ==
  ASSUME NEW s \in ChildState, NEW t, Swept(s.tab, t, Gone(s))
  PROVE  LET r == [s EXCEPT !.tab = t] IN
         Ticked(s, r) /\ r.tab = t /\ r.w = s.w
<1> DEFINE r == [s EXCEPT !.tab = t]
<1>1. t \in Table
  BY DEF Swept
<1>2. r \in ChildState /\ r.tab = t /\ r.cn = s.cn /\ r.w = s.w
  BY <1>1, SetTab
<1> HIDE DEF r
<1>3. Gated(s.tab, s.w) => Gated(r.tab, r.w)
  BY <1>2, StateParts, GatedSwept
<1>4. Calm(s.w, r.w)
  BY <1>2, StateParts DEF Calm
<1>5. Ticked(s, r)
  BY <1>2, <1>3, <1>4 DEF Ticked
<1> QED BY <1>2, <1>5 DEF r

\* The gate after may_resume(): what the tick and the end of a pause do.
Resumed(s) ==
  LET may == fpm_direct_backoff_may_resume(s)
  IN IF may.yes THEN fpm_direct_accept_enable(may.s) ELSE may.s

LEMMA ResumeIs ==
  ASSUME NEW s \in ChildState
  PROVE  Ticked(s, Resumed(s)) /\ Resumed(s).w.broken = s.w.broken
<1> DEFINE m == fpm_http_direct_conns_may_accept(s.tab, Gone(s))
           q == [s EXCEPT !.tab = m.t]
           may == fpm_direct_backoff_may_resume(s)
<1>1. CASE s.w.retiring \/ s.w.cur # None
  <2>1. may = [s |-> s, yes |-> FALSE]
    BY <1>1 DEF fpm_direct_backoff_may_resume
  <2>2. Resumed(s) = s
    BY <2>1, SMT DEF Resumed
  <2> QED BY <2>2, TickedSelf
<1>2. CASE ~(s.w.retiring \/ s.w.cur # None)
  <2>1. may = [s |-> q, yes |-> m.ok]
    BY <1>2 DEF fpm_direct_backoff_may_resume
  <2>2. /\ Swept(s.tab, m.t, Gone(s)) /\ m.ok \in BOOLEAN
        /\ m.ok /\ s.tab.limits.max > 0 => Len(m.t.list) < s.tab.limits.max
    BY StateParts, MayAccept
  <2>3. Resumed(s) = IF m.ok THEN fpm_direct_accept_enable(q) ELSE q
    BY <2>1, SMT DEF Resumed
  <2> HIDE DEF m
  <2>4. Ticked(s, q) /\ q.tab = m.t /\ q.w = s.w
    BY <2>2, SweptState
  <2> HIDE DEF q
  <2>5. q \in ChildState
    BY <2>4 DEF Ticked
  <2>6. CASE ~m.ok \/ q.w.listener = "gone" \/ q.w.paused
    <3>1. Resumed(s) = q
      BY <2>2, <2>3, <2>6 DEF fpm_direct_accept_enable
    <3> QED BY <2>4, <3>1
  <2>7. CASE m.ok /\ ~(q.w.listener = "gone" \/ q.w.paused)
    <3> DEFINE v == [q.w EXCEPT !.listener = "on"]
               r == [q EXCEPT !.w = v]
    <3>1. Resumed(s) = r
      BY <2>3, <2>7 DEF fpm_direct_accept_enable
    <3>2. Calm(q.w, v) /\ v.broken = q.w.broken /\ v.listener = "on" /\ v.paused = q.w.paused
      BY <2>5, StateParts DEF Worker, Calm
    <3> HIDE DEF v
    <3>3. r \in ChildState /\ r.tab = q.tab /\ r.cn = q.cn /\ r.w = v
      BY <2>5, <3>2, SetW DEF Calm
    <3> HIDE DEF r
    <3>4. q.tab.limits = s.tab.limits
      BY <2>2, <2>4 DEF Swept
    <3>5. Gated(q.tab, q.w) => Gated(r.tab, r.w)
      BY <2>2, <2>4, <2>7, <3>2, <3>3, <3>4 DEF Gated
    <3>6. Ticked(q, r)
      BY <2>5, <3>2, <3>3, <3>5, StateParts, SweptSelf DEF Ticked
    <3>7. Ticked(s, r)
      BY <2>4, <3>6, TickedTwice
    <3> QED BY <2>4, <3>1, <3>2, <3>3, <3>7
  <2> QED BY <2>2, <2>6, <2>7
<1> QED BY <1>1, <1>2

\* Leaving, once nothing is left.
Leaving(s, where) ==
  LET leave == fpm_direct_retire_done(s)
  IN IF leave.yes THEN loopbreak(leave.s, where) ELSE leave.s

LEMMA LeaveIs ==
  ASSUME NEW s \in ChildState, NEW where \in {"loop", "handler"}, ~s.w.stopping
  PROVE  Ticked(s, Leaving(s, where))
<1> DEFINE t == fpm_direct_conn_sweep_all(s.tab, Gone(s))
           q == [s EXCEPT !.tab = t]
           leave == fpm_direct_retire_done(s)
<1>1. CASE s.w.grace # "running"
  <2>1. leave = [s |-> s, yes |-> TRUE]
    BY <1>1 DEF fpm_direct_retire_done
  <2>2. Leaving(s, where) = loopbreak(s, where)
    BY <2>1, SMT DEF Leaving
  <2> QED BY <1>1, <2>2, BreakIs
<1>2. CASE s.w.grace = "running" /\ s.w.pending > 0
  <2>1. leave = [s |-> s, yes |-> FALSE]
    BY <1>2 DEF fpm_direct_retire_done
  <2>2. Leaving(s, where) = s
    BY <2>1, SMT DEF Leaving
  <2> QED BY <2>2, TickedSelf
<1>3. CASE s.w.grace = "running" /\ ~(s.w.pending > 0)
  <2> DEFINE empty == fpm_http_direct_conns_live(t) = 0
  <2>1. leave = [s |-> q, yes |-> empty]
    BY <1>3 DEF fpm_direct_retire_done
  <2>2. Swept(s.tab, t, Gone(s)) /\ (empty => Tracked(s.tab) \subseteq Gone(s))
    BY StateParts, SweepAll
  <2>3. empty \in BOOLEAN
    OBVIOUS
  <2> HIDE DEF empty, t
  <2>4. Leaving(s, where) = IF empty THEN loopbreak(q, where) ELSE q
    BY <2>1, <2>3, SMT DEF Leaving
  <2>5. Ticked(s, q) /\ q.tab = t /\ q.w = s.w
    BY <2>2, SweptState
  <2> HIDE DEF q
  <2>6. CASE ~empty
    BY <2>4, <2>5, <2>6
  <2>7. CASE empty
    <3>1. q.w.pending = 0
      BY <1>3, <2>5, StateParts, SMT DEF Worker
    <3>2. q \in ChildState /\ Gone(q) = Gone(s) /\ ~q.w.stopping
      BY <2>5 DEF Ticked, Gone
    <3>3. Tracked(q.tab) \subseteq Gone(q)
      BY <2>2, <2>5, <2>7, <3>2 DEF Swept
    <3>4. Ticked(q, loopbreak(q, where))
      BY <3>1, <3>2, <3>3, BreakIs
    <3>5. Ticked(s, loopbreak(q, where))
      BY <2>5, <3>4, TickedTwice
    <3> QED BY <2>4, <2>7, <3>5
  <2> QED BY <2>3, <2>6, <2>7
<1> QED BY <1>1, <1>2, <1>3

\* The stages of a tick, with the signal that lands between two of them.
Entering(s) == IF s.w.retiring THEN fpm_direct_retire_enter(s) ELSE s
Sweeping(s, sweep, late) ==
  [s EXCEPT !.tab = IF sweep THEN fpm_http_direct_conns_sweep(@, Gone(s)) ELSE @,
            !.w.retiring = @ \/ late = "gate"]
Signalled(s, late) == [s EXCEPT !.w.retiring = @ \/ late = "leave"]
Ending(s, where) == IF s.w.retiring THEN Leaving(s, where) ELSE s

LEMMA TickBody ==
  ASSUME NEW s, NEW sweep \in BOOLEAN, NEW where, NEW late, ~s.w.stopping
  PROVE  fpm_direct_tick_body(s, sweep, where, late) =
           Ending(Signalled(Resumed(Sweeping(Entering(s), sweep, late)), late), where)
<1> DEFINE Sweep(u)  == Sweeping(u, sweep, late)
           Open(m)   == IF m.yes THEN fpm_direct_accept_enable(m.s) ELSE m.s
           Gate(u)   == With(fpm_direct_backoff_may_resume(u), Open)
           Signal(u) == Signalled(u, late)
           Break(d)  == IF d.yes THEN loopbreak(d.s, where) ELSE d.s
           Leave(u)  == IF u.w.retiring THEN With(fpm_direct_retire_done(u), Break) ELSE u
<1>1. fpm_direct_tick_body(s, sweep, where, late) =
        With(With(With(With(Entering(s), Sweep), Gate), Signal), Leave)
  BY DEF fpm_direct_tick_body, Entering, Sweeping, Signalled
<1> HIDE DEF Sweep, Open, Gate, Signal, Break, Leave
<1>2. \A v : With(v, Sweep) = Sweep(v) /\ With(v, Signal) = Signal(v)
  BY DEF With
<1>3. \A v : With(v, Gate) = Gate(v) /\ With(v, Leave) = Leave(v)
  BY DEF With
<1>4. \A v : With(v, Open) = Open(v) /\ With(v, Break) = Break(v)
  BY DEF With
<1>5. ASSUME NEW v PROVE Gate(v) = Resumed(v)
  BY <1>4 DEF Gate, Open, Resumed
<1>6. ASSUME NEW v PROVE Leave(v) = Ending(v, where)
  BY <1>4 DEF Leave, Break, Ending, Leaving
<1> QED BY <1>1, <1>2, <1>3, <1>5, <1>6 DEF Sweep, Signal

LEMMA SignalIs ==
  ASSUME NEW s \in ChildState, NEW b \in BOOLEAN
  PROVE  LET r == [s EXCEPT !.w = [s.w EXCEPT !.retiring = s.w.retiring \/ b]] IN
         Ticked(s, r) /\ r.w.broken = s.w.broken
<1> DEFINE v == [s.w EXCEPT !.retiring = s.w.retiring \/ b]
           r == [s EXCEPT !.w = v]
<1>1. /\ Calm(s.w, v) /\ v.broken = s.w.broken /\ v.listener = s.w.listener
      /\ v.paused = s.w.paused
  BY StateParts DEF Worker, Calm
<1> HIDE DEF v
<1>2. r \in ChildState /\ r.tab = s.tab /\ r.cn = s.cn /\ r.w = v
  BY <1>1, SetW DEF Calm
<1> HIDE DEF r
<1>3. Gated(s.tab, s.w) => Gated(r.tab, r.w)
  BY <1>1, <1>2 DEF Gated
<1>4. Ticked(s, r) /\ r.w.broken = s.w.broken
  BY <1>1, <1>2, <1>3, StateParts, SweptSelf DEF Ticked
<1> QED BY <1>4 DEF r, v

LEMMA SweepingIs ==
  ASSUME NEW s \in ChildState, NEW sweep \in BOOLEAN, NEW late
  PROVE  LET r == Sweeping(s, sweep, late) IN
         Ticked(s, r) /\ r.w.broken = s.w.broken
<1> DEFINE t == IF sweep THEN fpm_http_direct_conns_sweep(s.tab, Gone(s)) ELSE s.tab
           q == [s EXCEPT !.tab = t]
           b == late = "gate"
           r == [q EXCEPT !.w = [q.w EXCEPT !.retiring = q.w.retiring \/ b]]
<1>1. Swept(s.tab, t, Gone(s))
  BY StateParts, SweepSome, SweptSelf
<1>2. Sweeping(s, sweep, late) = [s EXCEPT !.tab = t, !.w.retiring = @ \/ b]
  BY DEF Sweeping
<1> HIDE DEF t
<1>3. Ticked(s, q) /\ q.w = s.w
  BY <1>1, SweptState
<1>4. q \in ChildState
  BY <1>3 DEF Ticked
<1>5. b \in BOOLEAN
  OBVIOUS
<1>6. Sweeping(s, sweep, late) = r
  BY <1>2, <1>3
<1> HIDE DEF q, b
<1>7. Ticked(q, r) /\ r.w.broken = q.w.broken
  BY <1>4, <1>5, SignalIs
<1> HIDE DEF r
<1>8. Ticked(s, r)
  BY <1>3, <1>7, TickedTwice
<1> QED BY <1>3, <1>6, <1>7, <1>8

LEMMA TickIs ==
  ASSUME NEW s \in ChildState, NEW sweep \in BOOLEAN, NEW where \in {"loop", "handler"},
         NEW late
  PROVE  LET r == fpm_direct_tick_body(s, sweep, where, late) IN
         /\ Ticked(s, r)
         /\ s.w.pending > 0 /\ r.w.broken # s.w.broken =>
              r.w.broken # "exit" /\ ~r.w.stopping /\ r.w.grace # "running"
<1> DEFINE r == fpm_direct_tick_body(s, sweep, where, late)
           stopped == del_accept_socket(s)
<1>1. Ticked(s, r)
  <2>1. CASE s.w.stopping
    <3>1. r = IF s.w.pending = 0 THEN loopbreak(stopped, where) ELSE stopped
      BY <2>1 DEF fpm_direct_tick_body
    <3>2. Ticked(s, stopped) /\ stopped.w.broken = s.w.broken
      BY DelAccept
    <3> HIDE DEF stopped, r
    <3>3. stopped \in ChildState /\ stopped.w.stopping /\ stopped.w.pending = s.w.pending
      BY <2>1, <3>2 DEF Ticked, Calm
    <3>4. CASE s.w.pending = 0
      <4>1. Ticked(stopped, loopbreak(stopped, where))
        BY <3>3, <3>4, BreakIs
      <4> QED BY <3>1, <3>2, <3>4, <4>1, TickedTwice
    <3> QED BY <3>1, <3>2, <3>4
  <2>2. CASE ~s.w.stopping
    <3> DEFINE e == Entering(s)
               p == Sweeping(e, sweep, late)
               g == Resumed(p)
               h == Signalled(g, late)
               b == late = "leave"
    <3>1. r = Ending(h, where)
      BY <2>2, TickBody
    <3>2. Ticked(s, e) /\ e.w.broken = s.w.broken
      BY EnterIs, TickedSelf DEF Entering
    <3> HIDE DEF e, r
    <3>3. e \in ChildState
      BY <3>2 DEF Ticked
    <3>4. Ticked(e, p) /\ p.w.broken = e.w.broken
      BY <3>3, SweepingIs
    <3> HIDE DEF p
    <3>5. Ticked(s, p) /\ p.w.broken = s.w.broken /\ p \in ChildState
      <4>1. Ticked(s, p)
        BY <3>2, <3>4, TickedTwice
      <4> QED BY <3>2, <3>4, <4>1 DEF Ticked
    <3>6. Ticked(p, g) /\ g.w.broken = p.w.broken
      BY <3>5, ResumeIs
    <3> HIDE DEF g
    <3>7. Ticked(s, g) /\ g.w.broken = s.w.broken /\ g \in ChildState
      <4>1. Ticked(s, g)
        BY <3>5, <3>6, TickedTwice
      <4> QED BY <3>5, <3>6, <4>1 DEF Ticked
    <3>8. b \in BOOLEAN /\ h = [g EXCEPT !.w = [g.w EXCEPT !.retiring = g.w.retiring \/ b]]
      BY DEF Signalled
    <3> HIDE DEF b, h
    <3>9. Ticked(g, h) /\ h.w.broken = g.w.broken
      BY <3>7, <3>8, SignalIs
    <3>10. Ticked(s, h) /\ h.w.broken = s.w.broken /\ h \in ChildState /\ ~h.w.stopping
      <4>1. Ticked(s, h)
        BY <3>7, <3>9, TickedTwice
      <4> QED BY <2>2, <3>7, <3>9, <4>1 DEF Ticked, Calm
    <3>11. Ticked(h, r)
      BY <3>1, <3>10, LeaveIs, TickedSelf DEF Ending
    <3> QED BY <3>10, <3>11, TickedTwice
  <2> QED BY <2>1, <2>2
<1> HIDE DEF r
<1>2. s.w.pending > 0 => s.w.pending # 0
  BY StateParts, SMT DEF Worker
<1>3. s.w.pending > 0 /\ r.w.broken # s.w.broken =>
        r.w.broken # "exit" /\ ~r.w.stopping /\ r.w.grace # "running"
  BY <1>1, <1>2 DEF Ticked, Calm
<1> QED BY <1>1, <1>3 DEF r

-----------------------------------------------------------------------------
(* What the steps have in common: they are about one connection.           *)

\* Everything but c, and nodes of connections evhttp has let go of, is kept.
OneConn(s, r, c) ==
  /\ r \in ChildState /\ r.tab.limits = s.tab.limits
  /\ \A d \in Conns \ {c} : r.cn[d] = s.cn[d]
  /\ Tracked(r.tab) \subseteq Tracked(s.tab) \cup {c}
  /\ Tracked(s.tab) \ Tracked(r.tab) \subseteq Gone(s) \cup {c}
  /\ \A d \in Tracked(r.tab) \ {c} : Alike(s.tab.node[d], r.tab.node[d])

\* The count of the responses follows c's.
Tallied(s, r, c) ==
  \/ (r.cn[c].closecb <=> s.cn[c].closecb) /\ r.w.pending = s.w.pending
  \/ r.cn[c].closecb /\ ~s.cn[c].closecb /\ r.w.pending = s.w.pending + 1
  \/ ~r.cn[c].closecb /\ s.cn[c].closecb /\ r.w.pending = s.w.pending - 1

\* A connection is let in by a count of the others, or has been before.
LetIn(t, r, x, y, c) ==
  c \in Tracked(r) /\ t.limits.per_client > 0 =>
    /\ r.node[c].served => r.node[c].checked /\ ~r.node[c].over
    /\ r.node[c].checked /\ ~r.node[c].over /\ y.life = "held" =>
         \/ Cardinality(Peers(r, c)) < t.limits.per_client
         \/ c \in Tracked(t) /\ t.node[c].checked /\ ~t.node[c].over /\ x.life = "held"

\* The other connections, for the limit per client.
OthersSame(t, r, cf, cg, c) ==
  /\ r.limits = t.limits /\ Tracked(r) \subseteq Tracked(t) \cup {c}
  /\ \A d \in Tracked(r) \ {c} : Alike(t.node[d], r.node[d]) /\ cg[d].life = cf[d].life

LEMMA JudgedStep ==
  ASSUME NEW t \in Table, NEW r \in Table, NEW cf, NEW cg, NEW c \in Conns,
         Judged(t, cf), OthersSame(t, r, cf, cg, c), LetIn(t, r, cf[c], cg[c], c)
  PROVE  Judged(r, cg)
<1> SUFFICES ASSUME r.limits.per_client > 0
             PROVE  /\ \A d \in Tracked(r) : r.node[d].served => r.node[d].checked /\ ~r.node[d].over
                    /\ \A e \in Conns : Cardinality(Admitted(r, cg, Client[e])) <= r.limits.per_client
  BY DEF Judged
<1>0. /\ r.limits = t.limits /\ Tracked(r) \subseteq Tracked(t) \cup {c}
      /\ \A d \in Tracked(r) \ {c} : Alike(t.node[d], r.node[d]) /\ cg[d].life = cf[d].life
  BY DEF OthersSame
<1>1. \A d \in Tracked(r) : r.node[d].served => r.node[d].checked /\ ~r.node[d].over
  <2> SUFFICES ASSUME NEW d \in Tracked(r), r.node[d].served
               PROVE  r.node[d].checked /\ ~r.node[d].over
    OBVIOUS
  <2>1. CASE d = c
    BY <1>0, <2>1 DEF LetIn
  <2>2. CASE d # c
    BY <1>0, <2>2 DEF Judged, Alike
  <2> QED BY <2>1, <2>2
<1>2. ASSUME NEW e \in Conns PROVE Cardinality(Admitted(r, cg, Client[e])) <= r.limits.per_client
  <2> DEFINE A == Admitted(r, cg, Client[e])
             B == Admitted(t, cf, Client[e])
  <2>1. t.limits.per_client \in Nat /\ Cardinality(B) <= t.limits.per_client
    BY <1>0, TableParts, LimitsAre DEF Judged
  <2>2. IsFiniteSet(A) /\ IsFiniteSet(B) /\ A \subseteq Tracked(r)
    BY TableParts, FS_Subset DEF Admitted
  <2>3. A \ {c} \subseteq B
    BY <1>0 DEF Admitted, Alike
  <2>4. CASE c \notin A \/ c \in B
    <3>1. A \subseteq B
      BY <2>3, <2>4
    <3>2. Cardinality(A) <= Cardinality(B)
      BY <2>2, <3>1, FS_Subset
    <3>3. Cardinality(A) \in Nat /\ Cardinality(B) \in Nat
      BY <2>2, FS_CardinalityType
    <3> HIDE DEF A, B
    <3>4. Cardinality(A) <= t.limits.per_client
      BY <2>1, <3>2, <3>3, SMTT(30)
    <3> QED BY <1>0, <3>4 DEF A
  <2>5. CASE c \in A /\ c \notin B
    <3>1. Client[c] = Client[e]
      BY <2>5 DEF Admitted
    <3>2. Cardinality(Peers(r, c)) < t.limits.per_client
      BY <1>0, <2>5, <3>1 DEF Admitted, LetIn
    <3>3. A \subseteq Peers(r, c) \cup {c}
      BY <3>1 DEF Admitted, Peers
    <3>4. IsFiniteSet(Peers(r, c)) /\ c \notin Peers(r, c)
      BY TableParts, FS_Subset DEF Peers
    <3>5. /\ IsFiniteSet(Peers(r, c) \cup {c})
          /\ Cardinality(Peers(r, c) \cup {c}) = Cardinality(Peers(r, c)) + 1
      BY <3>4, FS_AddElement
    <3>6. Cardinality(A) <= Cardinality(Peers(r, c) \cup {c})
      BY <3>3, <3>5, FS_Subset
    <3>7. Cardinality(A) \in Nat /\ Cardinality(Peers(r, c)) \in Nat
      BY <2>2, <3>4, FS_CardinalityType
    <3> HIDE DEF A, B
    <3>8. Cardinality(A) <= t.limits.per_client
      BY <2>1, <3>2, <3>5, <3>6, <3>7, SMTT(30)
    <3> QED BY <1>0, <3>8 DEF A
  <2> QED BY <2>4, <2>5
<1> QED BY <1>1, <1>2

LEMMA TallyStep ==
  ASSUME NEW s \in ChildState, NEW r \in ChildState, NEW c \in Conns,
         \A d \in Conns \ {c} : r.cn[d] = s.cn[d], Tallied(s, r, c),
         s.w.pending = Cardinality(Awaited(s.cn))
  PROVE  r.w.pending = Cardinality(Awaited(r.cn))
<1> DEFINE A == Awaited(s.cn)
           B == Awaited(r.cn)
<1>1. IsFiniteSet(A) /\ IsFiniteSet(B)
  BY DirectChildAssumption, FS_Subset DEF Awaited
<1>2. Cardinality(A) \in Nat /\ Cardinality(B) \in Nat
  BY <1>1, FS_CardinalityType
<1>3. B = IF r.cn[c].closecb THEN A \cup {c} ELSE A \ {c}
  BY DEF Awaited
<1>4. c \in A <=> s.cn[c].closecb
  BY DEF Awaited
<1> HIDE DEF A, B
<1>5. CASE (r.cn[c].closecb <=> s.cn[c].closecb) /\ r.w.pending = s.w.pending
  <2>1. B = A
    BY <1>3, <1>4, <1>5
  <2> QED BY <1>5, <2>1 DEF A, B
<1>6. CASE r.cn[c].closecb /\ ~s.cn[c].closecb /\ r.w.pending = s.w.pending + 1
  <2>1. B = A \cup {c} /\ c \notin A
    BY <1>3, <1>4, <1>6
  <2>2. Cardinality(B) = Cardinality(A) + 1
    BY <1>1, <2>1, FS_AddElement
  <2> QED BY <1>6, <2>2 DEF A, B
<1>7. CASE ~r.cn[c].closecb /\ s.cn[c].closecb /\ r.w.pending = s.w.pending - 1
  <2>1. B = A \ {c} /\ c \in A
    BY <1>3, <1>4, <1>7
  <2>2. Cardinality(B) = Cardinality(A) - 1
    BY <1>1, <2>1, FS_RemoveElement
  <2> QED BY <1>7, <2>2 DEF A, B
<1> QED BY <1>5, <1>6, <1>7 DEF Tallied

LEMMA SoundStep ==
  ASSUME NEW s, Sound(s), NEW r, NEW c \in Conns, OneConn(s, r, c), Tallied(s, r, c),
         Proper(r.cn[c]), Covered(r.tab, r.cn[c], c), Gated(r.tab, r.w),
         LetIn(s.tab, r.tab, s.cn[c], r.cn[c], c)
  PROVE  Sound(r)
<1>1. s \in ChildState /\ r \in ChildState /\ r.tab.limits \in Configured
  BY DEF Sound, OneConn
<1>2. ASSUME NEW d \in Conns PROVE Proper(r.cn[d]) /\ Covered(r.tab, r.cn[d], d)
  <2>1. CASE d = c
    BY <2>1
  <2>2. CASE d # c
    <3>1. r.cn[d] = s.cn[d] /\ Proper(s.cn[d]) /\ Covered(s.tab, s.cn[d], d)
      BY <2>2 DEF Sound, OneConn
    <3>2. d \in Tracked(r.tab) => d \in Tracked(s.tab)
      BY <2>2 DEF OneConn
    <3>3. Kept(s.cn[d]) => d \notin Gone(s)
      BY DEF Kept, Gone
    <3>4. Kept(s.cn[d]) => d \in Tracked(r.tab)
      BY <2>2, <3>1, <3>3 DEF Covered, OneConn
    <3>5. d \in Tracked(r.tab) => Alike(s.tab.node[d], r.tab.node[d])
      BY <2>2 DEF OneConn
    <3>6. Covered(r.tab, s.cn[d], d)
      BY <3>1, <3>2, <3>4, <3>5 DEF Covered, Alike
    <3> QED BY <3>1, <3>6
  <2> QED BY <2>1, <2>2
<1>3. r.w.pending = Cardinality(Awaited(r.cn))
  BY <1>1, TallyStep DEF Sound, OneConn
<1>4. Judged(r.tab, r.cn)
  <2>1. s.tab \in Table /\ r.tab \in Table /\ Tracked(r.tab) \subseteq Conns
    BY <1>1, StateParts, TableParts
  <2>2. \A d \in Tracked(r.tab) \ {c} : Alike(s.tab.node[d], r.tab.node[d]) /\ r.cn[d].life = s.cn[d].life
    BY <2>1 DEF OneConn
  <2>3. OthersSame(s.tab, r.tab, s.cn, r.cn, c) /\ Judged(s.tab, s.cn)
    BY <2>2 DEF Sound, OneConn, OthersSame
  <2> QED BY <2>1, <2>3, JudgedStep
<1> QED BY <1>1, <1>2, <1>3, <1>4 DEF Sound

LEMMA LetInSame ==
  ASSUME NEW t, NEW r, NEW cf, NEW y, NEW c \in Conns, Judged(t, cf),
         c \in Tracked(r) => c \in Tracked(t) /\ Alike(t.node[c], r.node[c]),
         y.life = "held" => cf[c].life = "held"
  PROVE  LetIn(t, r, cf[c], y, c)
  BY DEF LetIn, Judged, Alike

LEMMA SoundTick ==
  ASSUME NEW s, Sound(s), NEW r, Ticked(s, r)
  PROVE  Sound(r)
<1>1. /\ s \in ChildState /\ r \in ChildState /\ r.cn = s.cn
      /\ Swept(s.tab, r.tab, Gone(s)) /\ Gated(r.tab, r.w) /\ r.w.pending = s.w.pending
  BY DEF Sound, Ticked, Calm
<1>2. s.tab \in Table /\ r.tab \in Table /\ Tracked(r.tab) \subseteq Conns
  BY <1>1, StateParts, TableParts
<1>3. /\ r.tab.limits = s.tab.limits
      /\ Tracked(r.tab) \subseteq Tracked(s.tab) /\ Tracked(s.tab) \ Tracked(r.tab) \subseteq Gone(s)
      /\ \A d \in Tracked(r.tab) : r.tab.node[d] = s.tab.node[d]
  BY <1>1 DEF Swept
<1>4. ASSUME NEW d \in Conns PROVE Proper(r.cn[d]) /\ Covered(r.tab, r.cn[d], d)
  <2>1. r.cn[d] = s.cn[d] /\ Proper(s.cn[d]) /\ Covered(s.tab, s.cn[d], d)
    BY <1>1 DEF Sound
  <2>2. Kept(s.cn[d]) => d \notin Gone(s)
    BY DEF Kept, Gone
  <2>3. Covered(r.tab, s.cn[d], d)
    BY <1>3, <2>1, <2>2 DEF Covered
  <2> QED BY <2>1, <2>3
<1>5. Judged(r.tab, r.cn)
  <2>1. Judged(s.tab, s.cn)
    BY DEF Sound
  <2>2. CASE Conns = {}
    BY <1>2, <2>2 DEF Judged
  <2>3. ASSUME NEW c \in Conns PROVE Judged(r.tab, r.cn)
    <3>1. LetIn(s.tab, r.tab, s.cn[c], r.cn[c], c)
      BY <1>1, <1>3, <2>1, LetInSame DEF Alike
    <3>2. \A d \in Tracked(r.tab) \ {c} : Alike(s.tab.node[d], r.tab.node[d]) /\ r.cn[d].life = s.cn[d].life
      BY <1>1, <1>3 DEF Alike
    <3>3. OthersSame(s.tab, r.tab, s.cn, r.cn, c)
      BY <1>3, <3>2 DEF OthersSame
    <3> QED BY <1>2, <2>1, <3>1, <3>3, JudgedStep
  <2> QED BY <2>2, <2>3
<1>6. r.tab.limits \in Configured /\ r.w.pending = Cardinality(Awaited(r.cn))
  BY <1>1, <1>3 DEF Sound
<1> QED BY <1>1, <1>4, <1>5, <1>6 DEF Sound

LEMMA GoodTick ==
  ASSUME NEW s, Good(s), NEW r, Ticked(s, r), r.w.broken # s.w.broken => s.w.cur = None
  PROVE  Good(r) /\ (s.w.broken = "no" => Parting(r))
<1>1. Sound(s) /\ Running(s) /\ Left(s) /\ s \in ChildState
  BY DEF Good, Sound
<1>2. Sound(r)
  BY <1>1, SoundTick
<1>3. /\ r.cn = s.cn /\ r.w.pending = s.w.pending /\ r.w.stopping = s.w.stopping
      /\ r.w.cur = s.w.cur /\ r.w.script = s.w.script /\ r.w.stale = s.w.stale
  BY DEF Ticked, Calm
<1>4. CASE r.w.broken = s.w.broken
  <2>1. Running(r) /\ Left(r)
    BY <1>1, <1>3, <1>4 DEF Running, Left
  <2>2. s.w.broken = "no" => Parting(r)
    BY <1>4 DEF Parting
  <2> QED BY <1>2, <2>1, <2>2 DEF Good
<1>5. CASE r.w.broken # s.w.broken
  <2>1. /\ s.w.broken = "no" /\ r.w.broken # "exit" /\ (s.w.stopping => s.w.pending = 0)
        /\ \/ s.w.stopping \/ r.w.grace # "running"
           \/ s.w.pending = 0 /\ Tracked(s.tab) \subseteq Gone(s)
    BY <1>5 DEF Ticked
  <2>2. Running(r)
    BY <1>1, <1>3, <2>1 DEF Running
  <2>3. Left(r)
    BY <1>3, <1>5, <2>1 DEF Left
  <2>4. Tracked(s.tab) \subseteq Gone(s) => \A c \in Conns : ~Kept(s.cn[c])
    BY <1>1 DEF Sound, Covered, Kept, Gone
  <2>5. Parting(r)
    BY <1>3, <2>1, <2>4 DEF Parting
  <2> QED BY <1>2, <2>2, <2>3, <2>5 DEF Good
<1> QED BY <1>4, <1>5

\* A step of the loop about one connection, that does not end the loop, or
\* ends it for a stop.
LEMMA LoopStep ==
  ASSUME NEW s, Good(s), NEW r, NEW c \in Conns, OneConn(s, r, c), Tallied(s, r, c),
         Proper(r.cn[c]), Covered(r.tab, r.cn[c], c), Gated(r.tab, r.w),
         LetIn(s.tab, r.tab, s.cn[c], r.cn[c], c),
         s.w.cur = None, r.w.cur = None, r.w.script = s.w.script, r.cn[c].phase # "call",
         s.w.broken = "no",
         r.w.broken = "no" \/ (r.w.stopping /\ r.w.pending = 0) \/ r.w.stale
  PROVE  Decent(r)
<1>1. Sound(s) /\ Running(s)
  BY DEF Good
<1>2. Sound(r)
  BY <1>1, SoundStep
<1>3. \A d \in Conns : r.cn[d].phase # "call"
  BY <1>1 DEF Running, OneConn
<1>4. Running(r)
  BY <1>1, <1>3 DEF Running
<1>5. Left(r) /\ Parting(r)
  BY DEF Left, Parting
<1> QED BY <1>2, <1>4, <1>5 DEF Good, Decent

\* What the worker changes by itself, while the loop goes on.
LEMMA WorkerStep ==
  ASSUME NEW s, Good(s), NEW v \in Worker, v.pending = s.w.pending, v.cur = s.w.cur,
         v.script = s.w.script, Gated(s.tab, v), s.w.broken = "no", v.broken = "no"
  PROVE  Decent([s EXCEPT !.w = v])
<1> DEFINE r == [s EXCEPT !.w = v]
<1>1. Sound(s) /\ Running(s) /\ s \in ChildState
  BY DEF Good, Sound
<1>2. r \in ChildState /\ r.tab = s.tab /\ r.cn = s.cn /\ r.w = v
  BY <1>1, SetW
<1> HIDE DEF r
<1>3. Sound(r)
  BY <1>1, <1>2 DEF Sound
<1>4. Running(r)
  BY <1>1, <1>2 DEF Running
<1>5. Left(r) /\ Parting(r)
  BY <1>2 DEF Left, Parting
<1> QED BY <1>3, <1>4, <1>5 DEF Good, Decent, r

LEMMA GoodParts ==
  ASSUME NEW s, Good(s)
  PROVE  /\ Sound(s) /\ Running(s) /\ Left(s) /\ s \in ChildState
         /\ s.tab \in Table /\ s.cn \in [Conns -> Connection] /\ s.w \in Worker
         /\ Gated(s.tab, s.w) /\ Judged(s.tab, s.cn)
         /\ s.tab.limits.read = TRUE /\ s.tab.limits.track = TRUE
         /\ \A c \in Conns : Proper(s.cn[c]) /\ Covered(s.tab, s.cn[c], c)
<1>1. Sound(s) /\ Running(s) /\ Left(s) /\ s \in ChildState
  BY DEF Good, Sound
<1>2. s.tab \in Table /\ s.cn \in [Conns -> Connection] /\ s.w \in Worker
  BY <1>1, StateParts
<1>3. s.tab.limits.read = TRUE /\ s.tab.limits.track = TRUE
  BY <1>1, <1>2, DirectChildAssumption, TableParts, LimitsAre DEF Sound
<1> QED BY <1>1, <1>2, <1>3 DEF Sound

LEMMA StopIs ==
  ASSUME NEW s, Good(s), s.w.broken = "no"
  PROVE  Decent([s EXCEPT !.w.stopping = TRUE])
<1> DEFINE v == [s.w EXCEPT !.stopping = TRUE]
<1>1. s.w \in Worker /\ Gated(s.tab, s.w)
  BY GoodParts
<1>2. /\ v \in Worker /\ v.pending = s.w.pending /\ v.cur = s.w.cur /\ v.script = s.w.script
      /\ v.broken = "no" /\ v.paused = s.w.paused /\ v.listener = s.w.listener
  BY <1>1 DEF Worker
<1> HIDE DEF v
<1>3. Gated(s.tab, v)
  BY <1>1, <1>2 DEF Gated
<1>4. Decent([s EXCEPT !.w = v])
  BY <1>2, <1>3, WorkerStep
<1> QED BY <1>4 DEF v

LEMMA RetireSignalIs ==
  ASSUME NEW s, Good(s), s.w.broken = "no"
  PROVE  Decent([s EXCEPT !.w.retiring = TRUE])
<1> DEFINE v == [s.w EXCEPT !.retiring = TRUE]
<1>1. s.w \in Worker /\ Gated(s.tab, s.w)
  BY GoodParts
<1>2. /\ v \in Worker /\ v.pending = s.w.pending /\ v.cur = s.w.cur /\ v.script = s.w.script
      /\ v.broken = "no" /\ v.paused = s.w.paused /\ v.listener = s.w.listener
  BY <1>1 DEF Worker
<1> HIDE DEF v
<1>3. Gated(s.tab, v)
  BY <1>1, <1>2 DEF Gated
<1>4. Decent([s EXCEPT !.w = v])
  BY <1>2, <1>3, WorkerStep
<1> QED BY <1>4 DEF v

LEMMA GraceOverIs ==
  ASSUME NEW s, Good(s), s.w.broken = "no"
  PROVE  Decent([s EXCEPT !.w.grace = "over"])
<1> DEFINE v == [s.w EXCEPT !.grace = "over"]
<1>1. s.w \in Worker /\ Gated(s.tab, s.w)
  BY GoodParts
<1>2. /\ v \in Worker /\ v.pending = s.w.pending /\ v.cur = s.w.cur /\ v.script = s.w.script
      /\ v.broken = "no" /\ v.paused = s.w.paused /\ v.listener = s.w.listener
  BY <1>1 DEF Worker
<1> HIDE DEF v
<1>3. Gated(s.tab, v)
  BY <1>1, <1>2 DEF Gated
<1>4. Decent([s EXCEPT !.w = v])
  BY <1>2, <1>3, WorkerStep
<1> QED BY <1>4 DEF v

LEMMA BackoffIs ==
  ASSUME NEW s, Good(s), s.w.broken = "no"
  PROVE  Decent([s EXCEPT !.w.listener = "off", !.w.paused = TRUE])
<1> DEFINE v == [s.w EXCEPT !.listener = "off", !.paused = TRUE]
<1>1. s.w \in Worker /\ Gated(s.tab, s.w)
  BY GoodParts
<1>2. /\ v \in Worker /\ v.pending = s.w.pending /\ v.cur = s.w.cur /\ v.script = s.w.script
      /\ v.broken = "no" /\ v.paused = TRUE /\ v.listener = "off"
  BY <1>1 DEF Worker
<1> HIDE DEF v
<1>3. Gated(s.tab, v)
  BY <1>1, <1>2 DEF Gated
<1>4. Decent([s EXCEPT !.w = v])
  BY <1>2, <1>3, WorkerStep
<1> QED BY <1>4 DEF v

LEMMA PauseOverIs ==
  ASSUME NEW s, Good(s), s.w.broken = "no"
  PROVE  Decent(Resumed([s EXCEPT !.w.paused = FALSE]))
<1> DEFINE v == [s.w EXCEPT !.paused = FALSE]
           r == [s EXCEPT !.w = v]
<1>1. s.w \in Worker /\ Gated(s.tab, s.w)
  BY GoodParts
<1>2. /\ v \in Worker /\ v.pending = s.w.pending /\ v.cur = s.w.cur /\ v.script = s.w.script
      /\ v.broken = "no" /\ v.paused = FALSE /\ v.listener = s.w.listener
  BY <1>1 DEF Worker
<1> HIDE DEF v
<1>3. Gated(s.tab, v)
  BY <1>1, <1>2 DEF Gated
<1>4. Decent(r)
  BY <1>2, <1>3, WorkerStep
<1>5. Good(r) /\ r \in ChildState /\ r.w.broken = "no"
  BY <1>2, <1>4, GoodParts, SetW DEF Decent
<1> HIDE DEF r
<1>6. Decent(Resumed(r))
  BY <1>5, ResumeIs, GoodTick DEF Decent
<1> QED BY <1>6 DEF r, v

LEMMA LoopTickIs ==
  ASSUME NEW s, Good(s), s.w.cur = None, NEW sweep \in BOOLEAN, NEW where \in {"loop", "handler"},
         NEW late
  PROVE  LET r == fpm_direct_tick_body(s, sweep, where, late) IN
         Good(r) /\ (s.w.broken = "no" => Parting(r))
<1> DEFINE r == fpm_direct_tick_body(s, sweep, where, late)
<1>1. Ticked(s, r)
  BY GoodParts, TickIs
<1> HIDE DEF r
<1>2. Good(r) /\ (s.w.broken = "no" => Parting(r))
  BY <1>1, GoodTick
<1> QED BY <1>2 DEF r

-----------------------------------------------------------------------------
(* The callbacks of the loop about one connection.                         *)

\* The child after a step about c.
Stepped(s, r, c, t, y, v) ==
  /\ r \in ChildState /\ r.tab = t /\ r.w = v /\ r.cn[c] = y
  /\ \A d \in Conns \ {c} : r.cn[d] = s.cn[d]

LEMMA TabAndConn ==
  ASSUME NEW s \in ChildState, NEW c \in Conns, NEW t \in Table, NEW y \in Connection
  PROVE  Stepped(s, [s EXCEPT !.tab = t, !.cn = [s.cn EXCEPT ![c] = y]], c, t, y, s.w)
<1> DEFINE q == [s EXCEPT !.tab = t]
           r == [q EXCEPT !.cn = [q.cn EXCEPT ![c] = y]]
<1>1. q \in ChildState /\ q.tab = t /\ q.cn = s.cn /\ q.w = s.w
  BY SetTab
<1>2. r = [s EXCEPT !.tab = t, !.cn = [s.cn EXCEPT ![c] = y]]
  BY <1>1
<1> HIDE DEF q
<1>3. /\ r \in ChildState /\ r.tab = q.tab /\ r.w = q.w
      /\ r.cn[c] = y /\ \A d \in Conns \ {c} : r.cn[d] = q.cn[d]
  BY <1>1, SetConn
<1> HIDE DEF r
<1>4. Stepped(s, r, c, t, y, s.w)
  BY <1>1, <1>3 DEF Stepped
<1> QED BY <1>2, <1>4

LEMMA JustConn ==
  ASSUME NEW s \in ChildState, NEW c \in Conns, NEW y \in Connection
  PROVE  Stepped(s, [s EXCEPT !.cn = [s.cn EXCEPT ![c] = y]], c, s.tab, y, s.w)
  BY SetConn, SMT DEF Stepped

LEMMA JustTab ==
  ASSUME NEW s \in ChildState, NEW c \in Conns, NEW t \in Table
  PROVE  Stepped(s, [s EXCEPT !.tab = t], c, t, s.cn[c], s.w)
  BY SetTab DEF Stepped

\* A connection as the loop finds it.
LEMMA InLoop ==
  ASSUME NEW s, Good(s), s.w.cur = None, s.w.broken = "no", NEW c \in Conns
  PROVE  /\ s.cn[c] \in Connection /\ s.cn[c].phase \in {"read", "reply"}
         /\ s.tab.node[c] \in Node /\ s.w.script = "none"
         /\ Proper(s.cn[c]) /\ Covered(s.tab, s.cn[c], c) /\ c # None
<1>1. s.cn[c] \in Connection /\ s.tab.node[c] \in Node /\ c # None
  BY GoodParts, TableParts, DirectChildAssumption
<1>2. Running(s) /\ Proper(s.cn[c]) /\ Covered(s.tab, s.cn[c], c)
  BY GoodParts
<1>3. s.cn[c].phase # "call" /\ s.w.script = "none"
  BY <1>1, <1>2 DEF Running
<1> QED BY <1>1, <1>2, <1>3 DEF Connection

LEMMA GatedThinned ==
  ASSUME NEW t \in Table, NEW r, NEW lost, NEW v, Thinned(t, r, lost), Gated(t, v)
  PROVE  Gated(r, v)
<1>1. r \in Table /\ r.limits = t.limits /\ Len(r.list) <= Len(t.list)
  BY DEF Thinned
<1>2. Len(r.list) \in Nat /\ Len(t.list) \in Nat /\ t.limits.max \in Nat
  BY <1>1, TableParts, LimitsAre
<1> QED BY <1>1, <1>2, SMTT(30) DEF Gated

\* The table is thinned and c, if it is named still, is as it was.
LEMMA ThinStep ==
  ASSUME NEW s, Good(s), s.w.cur = None, s.w.broken = "no", NEW c \in Conns,
         NEW r, NEW t, NEW y, Stepped(s, r, c, t, y, s.w), Proper(y), y.phase # "call",
         y.closecb <=> s.cn[c].closecb, y.life = "held" => s.cn[c].life = "held",
         Thinned(s.tab, t, Gone(s) \cup {c}), Covered(t, y, c),
         \A d \in Tracked(t) : Alike(s.tab.node[d], t.node[d])
  PROVE  Decent(r)
<1>1. s.tab \in Table /\ Gated(s.tab, s.w) /\ Judged(s.tab, s.cn)
  BY GoodParts
<1>2. OneConn(s, r, c) /\ Tallied(s, r, c)
  BY DEF Stepped, OneConn, Tallied, Thinned
<1>3. Gated(r.tab, r.w)
  BY <1>1, GatedThinned DEF Stepped
<1>4. r.tab = t /\ r.w = s.w /\ r.cn[c] = y
  BY DEF Stepped
<1>5. c \in Tracked(r.tab) => c \in Tracked(s.tab) /\ Alike(s.tab.node[c], r.tab.node[c])
  BY <1>4 DEF Thinned
<1>6. LetIn(s.tab, r.tab, s.cn[c], r.cn[c], c)
  BY <1>1, <1>4, <1>5, LetInSame
<1> QED BY <1>2, <1>3, <1>4, <1>6, LoopStep

LEMMA ForgetStep ==
  ASSUME NEW s, Good(s), s.w.cur = None, s.w.broken = "no", NEW c \in Conns,
         NEW r, NEW y, Stepped(s, r, c, fpm_direct_conn_forget(s.tab, c), y, s.w),
         Proper(y), y.phase # "call", y.closecb <=> s.cn[c].closecb,
         y.life = "held" => s.cn[c].life = "held", ~Kept(y)
  PROVE  Decent(r)
<1> DEFINE t == fpm_direct_conn_forget(s.tab, c)
<1>1. s.tab \in Table
  BY GoodParts
<1>2. Thinned(s.tab, t, {c}) /\ c \notin Tracked(t) /\ \A d \in Tracked(t) : t.node[d] = s.tab.node[d]
  BY <1>1, ForgetIs
<1> HIDE DEF t
<1>3. Thinned(s.tab, t, Gone(s) \cup {c}) /\ Covered(t, y, c)
  BY <1>2 DEF Thinned, Covered
<1>4. \A d \in Tracked(t) : Alike(s.tab.node[d], t.node[d])
  BY <1>2 DEF Alike
<1>5. Stepped(s, r, c, t, y, s.w)
  BY DEF t
<1> QED BY <1>3, <1>4, <1>5, ThinStep

\* The peer leaves, or has left.
LEMMA LeavesIs ==
  ASSUME NEW x \in Connection, Proper(x)
  PROVE  LET y == [x EXCEPT !.closing = TRUE, !.left = 0] IN
         /\ y \in Connection /\ Proper(y) /\ ~Kept(y) /\ y.phase = x.phase
         /\ y.closecb = x.closecb /\ y.life = x.life
  BY DEF Connection, Proper, Kept

LEMMA EofIs ==
  ASSUME NEW s, Good(s), s.w.cur = None, s.w.broken = "no", NEW c \in Conns
  PROVE  LET r == [s EXCEPT !.tab = fpm_direct_conn_forget(@, c)] IN
         /\ s.cn[c].life = "gone" => Decent(r)
         /\ Decent(PeerLeaves(r, c))
<1> DEFINE t == fpm_direct_conn_forget(s.tab, c)
           r == [s EXCEPT !.tab = t]
           y == [s.cn[c] EXCEPT !.closing = TRUE, !.left = 0]
           q == [s EXCEPT !.tab = t, !.cn = [s.cn EXCEPT ![c] = y]]
<1>1. s \in ChildState /\ s.tab \in Table /\ s.cn \in [Conns -> Connection]
  BY GoodParts
<1>2. t \in Table
  BY <1>1, ForgetIs DEF Thinned
<1>3. s.cn[c] \in Connection /\ s.cn[c].phase # "call" /\ Proper(s.cn[c])
  BY InLoop
<1>4. /\ y \in Connection /\ Proper(y) /\ ~Kept(y) /\ y.phase = s.cn[c].phase
      /\ y.closecb = s.cn[c].closecb /\ y.life = s.cn[c].life
  BY <1>3, LeavesIs
<1>5. PeerLeaves(r, c) = q
  BY <1>1 DEF PeerLeaves, ChildState
<1> HIDE DEF y
<1>6. Stepped(s, r, c, t, s.cn[c], s.w) /\ Stepped(s, q, c, t, y, s.w)
  BY <1>1, <1>2, <1>4, JustTab, TabAndConn
<1> HIDE DEF r, q
<1>7. s.cn[c].life = "gone" => ~Kept(s.cn[c])
  BY DEF Kept
<1>8. s.cn[c].life = "gone" => Decent(r)
  BY <1>3, <1>6, <1>7, ForgetStep
<1>9. Decent(q)
  BY <1>3, <1>4, <1>6, ForgetStep
<1> QED BY <1>5, <1>8, <1>9 DEF r

LEMMA DeadlineIs ==
  ASSUME NEW s, Good(s), s.w.cur = None, s.w.broken = "no", NEW c \in Tracked(s.tab)
  PROVE  Decent([s EXCEPT !.tab = fpm_direct_conn_forget(@, c),
                        !.cn[c].closing = @ \/ s.cn[c].life = "held"])
<1> DEFINE t == fpm_direct_conn_forget(s.tab, c)
           y == [s.cn[c] EXCEPT !.closing = s.cn[c].closing \/ s.cn[c].life = "held"]
           q == [s EXCEPT !.tab = t, !.cn = [s.cn EXCEPT ![c] = y]]
<1>1. s \in ChildState /\ s.tab \in Table /\ s.cn \in [Conns -> Connection] /\ c \in Conns
  BY GoodParts, TableParts
<1>2. t \in Table
  BY <1>1, ForgetIs DEF Thinned
<1>3. s.cn[c] \in Connection /\ s.cn[c].phase # "call" /\ Proper(s.cn[c])
  BY <1>1, InLoop
<1>4. /\ y \in Connection /\ Proper(y) /\ ~Kept(y) /\ y.phase = s.cn[c].phase
      /\ y.closecb = s.cn[c].closecb /\ y.life = s.cn[c].life
  BY <1>3 DEF Connection, Proper, Kept
<1> HIDE DEF y
<1>5. Stepped(s, q, c, t, y, s.w)
  BY <1>1, <1>2, <1>4, TabAndConn
<1> HIDE DEF q
<1>6. Decent(q)
  BY <1>1, <1>3, <1>4, <1>5, ForgetStep
<1> QED BY <1>1, <1>6 DEF q, y, t

\* A byte came: the deadline replaces the watcher.
LEMMA ArmedIs ==
  ASSUME NEW s, Good(s), s.w.cur = None, s.w.broken = "no", NEW c \in Tracked(s.tab)
  PROVE  Decent([s EXCEPT !.tab = fpm_direct_conn_arm_deadline([s.tab EXCEPT !.node[c].watch = "off"], c)])
<1> DEFINE x == [s.tab.node[c] EXCEPT !.watch = "off", !.armed = TRUE]
           t == [s.tab EXCEPT !.node = [s.tab.node EXCEPT ![c] = x]]
           r == [s EXCEPT !.tab = t]
<1>1. s \in ChildState /\ s.tab \in Table /\ s.tab.node \in [Conns -> Node] /\ c \in Conns
  BY GoodParts, TableParts
<1>2. fpm_direct_conn_arm_deadline([s.tab EXCEPT !.node[c].watch = "off"], c) = t
  BY <1>1 DEF fpm_direct_conn_arm_deadline, Table
<1>3. /\ x \in Node /\ x.armed /\ x.checked = s.tab.node[c].checked
      /\ x.served = s.tab.node[c].served /\ x.over = s.tab.node[c].over
  BY <1>1 DEF Node
<1> HIDE DEF x
<1>4. /\ t \in Table /\ t.limits = s.tab.limits /\ t.list = s.tab.list /\ Tracked(t) = Tracked(s.tab)
      /\ t.node[c] = x /\ \A d \in Conns \ {c} : t.node[d] = s.tab.node[d]
  BY <1>1, <1>3, SetNode, SMT
<1> HIDE DEF t
<1>5. Stepped(s, r, c, t, s.cn[c], s.w)
  BY <1>1, <1>4, JustTab
<1>6. r \in ChildState /\ r.tab = t /\ r.cn[c] = s.cn[c] /\ r.w = s.w
      /\ \A d \in Conns \ {c} : r.cn[d] = s.cn[d]
  BY <1>5 DEF Stepped
<1> HIDE DEF r
<1>7. OneConn(s, r, c)
  BY <1>1, <1>4, <1>6, TableParts DEF OneConn, Alike
<1>8. Tallied(s, r, c)
  BY <1>6 DEF Tallied
<1>9. Gated(r.tab, r.w) /\ Judged(s.tab, s.cn)
  BY <1>4, <1>6, GoodParts DEF Gated
<1>10. LetIn(s.tab, r.tab, s.cn[c], r.cn[c], c)
  BY <1>3, <1>4, <1>6, <1>9 DEF LetIn, Judged
<1>11. s.cn[c].phase # "call" /\ Proper(s.cn[c]) /\ Covered(s.tab, s.cn[c], c)
  BY <1>1, InLoop
<1>12. Covered(r.tab, r.cn[c], c)
  BY <1>3, <1>4, <1>6, <1>11 DEF Covered
<1>13. Decent(r)
  BY <1>1, <1>6, <1>7, <1>8, <1>9, <1>10, <1>11, <1>12, LoopStep
<1> QED BY <1>2, <1>13 DEF r

LEMMA AcceptIs ==
  ASSUME NEW s, Good(s), s.w.cur = None, s.w.broken = "no", s.w.listener = "on",
         NEW c \in Conns, s.cn[c].life = "queue"
  PROVE  Decent([s EXCEPT !.cn[c].life = "held", !.w.listener = "off",
                        !.tab = fpm_http_direct_conns_accepted(@, Gone(s), c)])
<1> DEFINE t == fpm_http_direct_conns_accepted(s.tab, Gone(s), c)
           y == [s.cn[c] EXCEPT !.life = "held"]
           v == [s.w EXCEPT !.listener = "off"]
           q == [s EXCEPT !.tab = t, !.cn = [s.cn EXCEPT ![c] = y]]
           r == [q EXCEPT !.w = v]
<1>1. /\ s \in ChildState /\ s.tab \in Table /\ s.cn \in [Conns -> Connection] /\ s.w \in Worker
      /\ Gated(s.tab, s.w) /\ s.tab.limits.read = TRUE
  BY GoodParts
<1>2. /\ s.cn[c] \in Connection /\ s.cn[c].phase # "call" /\ Proper(s.cn[c])
      /\ c \notin Tracked(s.tab)
  BY InLoop DEF Covered
<1>3. /\ t \in Table /\ t.limits = s.tab.limits /\ Len(t.list) <= Len(s.tab.list) + 1
      /\ Tracked(t) \subseteq Tracked(s.tab) \cup {c} /\ c \in Tracked(t)
      /\ Tracked(s.tab) \ Tracked(t) \subseteq Gone(s)
      /\ \A d \in Tracked(t) \ {c} : t.node[d] = s.tab.node[d]
      /\ t.node[c].armed /\ ~t.node[c].checked /\ ~t.node[c].served
  BY <1>1, <1>2, AcceptedIs
<1>4. /\ y \in Connection /\ Proper(y) /\ y.phase = "read" /\ y.life = "held"
      /\ y.closecb = s.cn[c].closecb
  BY <1>2 DEF Connection, Proper
<1>5. /\ v \in Worker /\ v.pending = s.w.pending /\ v.cur = s.w.cur /\ v.script = s.w.script
      /\ v.broken = "no" /\ v.paused = s.w.paused /\ v.listener = "off"
  BY <1>1 DEF Worker
<1> HIDE DEF t
<1>6. [s EXCEPT !.cn[c].life = "held", !.w.listener = "off", !.tab = t] = r
  BY <1>1 DEF ChildState
<1> HIDE DEF y, v
<1>7. Stepped(s, q, c, t, y, s.w)
  BY <1>1, <1>3, <1>4, TabAndConn
<1> HIDE DEF q
<1>8. /\ r \in ChildState /\ r.tab = t /\ r.w = v /\ r.cn[c] = y
      /\ \A d \in Conns \ {c} : r.cn[d] = s.cn[d]
  BY <1>5, <1>7, SetW DEF Stepped
<1> HIDE DEF r
<1>9. OneConn(s, r, c)
  BY <1>3, <1>8 DEF OneConn, Alike
<1>10. Tallied(s, r, c)
  BY <1>4, <1>5, <1>8 DEF Tallied
<1>12. Covered(r.tab, r.cn[c], c) /\ LetIn(s.tab, r.tab, s.cn[c], r.cn[c], c)
  BY <1>3, <1>4, <1>8 DEF Covered, LetIn
<1>13. Gated(r.tab, r.w)
  <2>1. Len(t.list) \in Nat /\ Len(s.tab.list) \in Nat /\ s.tab.limits.max \in Nat
    BY <1>1, <1>3, TableParts, LimitsAre
  <2> QED BY <1>1, <1>3, <1>5, <1>8, <2>1, SMTT(60) DEF Gated
<1>14. Decent(r)
  BY <1>4, <1>5, <1>8, <1>9, <1>10, <1>12, <1>13, LoopStep
<1> QED BY <1>6, <1>14 DEF t

LEMMA PickedUp ==
  ASSUME NEW s, Good(s), s.w.cur = None, s.w.broken = "no",
         NEW c \in Tracked(s.tab), s.tab.node[c].watch = "pickup",
         NEW p, p = fpm_direct_conn_pickup(s.tab, Gone(s), c), c \in Tracked(p.t)
  PROVE  Decent([s EXCEPT !.tab = p.t, !.cn[c].closing = @ \/ p.over])
<1> DEFINE y == [s.cn[c] EXCEPT !.closing = s.cn[c].closing \/ p.over]
           r == [s EXCEPT !.tab = p.t, !.cn = [s.cn EXCEPT ![c] = y]]
<1>1. /\ s \in ChildState /\ s.tab \in Table /\ s.cn \in [Conns -> Connection] /\ c \in Conns
      /\ Gated(s.tab, s.w) /\ Judged(s.tab, s.cn)
  BY GoodParts, TableParts
<1>2. /\ p.over \in BOOLEAN /\ Thinned(s.tab, p.t, Gone(s))
      /\ \A d \in Tracked(p.t) \ {c} : Alike(s.tab.node[d], p.t.node[d])
      /\ p.t.node[c].armed = s.tab.node[c].armed /\ p.t.node[c].served = s.tab.node[c].served
      /\ p.t.node[c].over <=> s.tab.node[c].over \/ p.over
      /\ s.tab.node[c].checked => ~p.over
      /\ s.tab.limits.per_client > 0 =>
           /\ p.t.node[c].checked
           /\ ~s.tab.node[c].checked /\ ~p.over =>
                Cardinality(Peers(p.t, c)) < s.tab.limits.per_client
  BY <1>1, PickupIs, SMT
<1>3. /\ s.cn[c] \in Connection /\ s.cn[c].phase # "call" /\ Proper(s.cn[c])
      /\ Covered(s.tab, s.cn[c], c)
  BY <1>1, InLoop
<1>4. /\ y \in Connection /\ Proper(y) /\ y.phase = s.cn[c].phase /\ y.life = s.cn[c].life
      /\ y.closecb = s.cn[c].closecb /\ (Kept(y) => Kept(s.cn[c]))
  BY <1>2, <1>3 DEF Connection, Proper, Kept
<1>5. p.t \in Table
  BY <1>2 DEF Thinned
<1> HIDE DEF y
<1>6. Stepped(s, r, c, p.t, y, s.w)
  BY <1>1, <1>4, <1>5, TabAndConn
<1>7. /\ r \in ChildState /\ r.tab = p.t /\ r.w = s.w /\ r.cn[c] = y
      /\ \A d \in Conns \ {c} : r.cn[d] = s.cn[d]
  BY <1>6 DEF Stepped
<1> HIDE DEF r
<1>8. OneConn(s, r, c)
  BY <1>2, <1>7 DEF OneConn, Thinned
<1>9. Tallied(s, r, c)
  BY <1>4, <1>7 DEF Tallied
<1>10. Covered(r.tab, r.cn[c], c)
  BY <1>2, <1>3, <1>4, <1>7 DEF Covered
<1>11. LetIn(s.tab, r.tab, s.cn[c], r.cn[c], c)
  BY <1>1, <1>2, <1>4, <1>7 DEF LetIn, Judged
<1>12. Gated(r.tab, r.w)
  BY <1>1, <1>2, <1>7, GatedThinned
<1>13. Decent(r)
  BY <1>1, <1>3, <1>4, <1>7, <1>8, <1>9, <1>10, <1>11, <1>12, LoopStep
<1> QED BY <1>1, <1>13 DEF r, y

LEMMA PickedUpGone ==
  ASSUME NEW s, Good(s), s.w.cur = None, s.w.broken = "no", NEW c \in Tracked(s.tab),
         s.cn[c].life = "gone"
  PROVE  Decent([s EXCEPT !.tab.node[c] = [s.tab.node[c] EXCEPT !.fd = TRUE, !.checked = TRUE,
                                                             !.watch = "eof"]])
<1> DEFINE x == [s.tab.node[c] EXCEPT !.fd = TRUE, !.checked = TRUE, !.watch = "eof"]
           t == [s.tab EXCEPT !.node = [s.tab.node EXCEPT ![c] = x]]
           r == [s EXCEPT !.tab = t]
<1>1. s \in ChildState /\ s.tab \in Table /\ s.tab.node \in [Conns -> Node] /\ c \in Conns
  BY GoodParts, TableParts
<1>2. [s EXCEPT !.tab.node[c] = x] = r
  BY <1>1 DEF ChildState, Table
<1>3. x \in Node /\ x.checked /\ x.served = s.tab.node[c].served /\ x.over = s.tab.node[c].over
  BY <1>1 DEF Node
<1> HIDE DEF x
<1>4. /\ t \in Table /\ t.limits = s.tab.limits /\ t.list = s.tab.list /\ Tracked(t) = Tracked(s.tab)
      /\ t.node[c] = x /\ \A d \in Conns \ {c} : t.node[d] = s.tab.node[d]
  BY <1>1, <1>3, SetNode, SMT
<1> HIDE DEF t
<1>5. r \in ChildState /\ r.tab = t /\ r.cn = s.cn /\ r.w = s.w
  BY <1>1, <1>4, SetTab
<1> HIDE DEF r
<1>6. OneConn(s, r, c)
  BY <1>1, <1>4, <1>5, TableParts DEF OneConn, Alike
<1>7. Tallied(s, r, c)
  BY <1>5 DEF Tallied
<1>8. Gated(r.tab, r.w) /\ Judged(s.tab, s.cn)
  BY <1>4, <1>5, GoodParts DEF Gated
<1>9. LetIn(s.tab, r.tab, s.cn[c], r.cn[c], c)
  BY <1>3, <1>4, <1>5, <1>8 DEF LetIn, Judged
<1>10. s.cn[c].phase # "call" /\ Proper(s.cn[c])
  BY <1>1, InLoop
<1>11. Covered(r.tab, r.cn[c], c)
  BY <1>5 DEF Covered, Kept
<1>12. Decent(r)
  BY <1>1, <1>5, <1>6, <1>7, <1>8, <1>9, <1>10, <1>11, LoopStep
<1> QED BY <1>2, <1>12 DEF x

\* The pickup of a node that its own sweep has freed.
LEMMA PickedUpStale ==
  ASSUME NEW s, Good(s), s.w.cur = None, s.w.broken = "no", NEW c \in Tracked(s.tab),
         NEW p, p = fpm_direct_conn_pickup(s.tab, Gone(s), c), c \notin Tracked(p.t),
         NEW where \in {"no", "loop"}
  PROVE  Decent([s EXCEPT !.tab = fpm_direct_conn_forget(p.t, c), !.w.stale = TRUE, !.w.broken = where])
<1> DEFINE t == fpm_direct_conn_forget(p.t, c)
           v == [s.w EXCEPT !.stale = TRUE, !.broken = where]
           q == [s EXCEPT !.tab = t]
           r == [q EXCEPT !.w = v]
<1>1. /\ s \in ChildState /\ s.tab \in Table /\ s.w \in Worker /\ c \in Conns /\ s.w.script = "none"
      /\ Gated(s.tab, s.w)
  BY GoodParts, TableParts, InLoop
<1>2. Thinned(s.tab, p.t, Gone(s)) /\ \A d \in Tracked(p.t) \ {c} : Alike(s.tab.node[d], p.t.node[d])
  BY <1>1, PickupIs
<1>3. p.t \in Table
  BY <1>2 DEF Thinned
<1>4. Thinned(p.t, t, {c}) /\ Tracked(t) = Tracked(p.t) \ {c} /\ \A d \in Tracked(t) : t.node[d] = p.t.node[d]
  BY <1>3, ForgetIs
<1>5. t \in Table /\ t.limits = s.tab.limits
  BY <1>2, <1>4 DEF Thinned
<1> HIDE DEF t
<1>6. [s EXCEPT !.tab = t, !.w.stale = TRUE, !.w.broken = where] = r
  BY <1>1 DEF ChildState
<1>7. /\ v \in Worker /\ v.pending = s.w.pending /\ v.cur = s.w.cur /\ v.script = s.w.script
      /\ v.stale = TRUE /\ v.paused = s.w.paused /\ v.listener = s.w.listener
  BY <1>1 DEF Worker
<1> HIDE DEF v
<1>8. q \in ChildState /\ q.tab = t /\ q.cn = s.cn /\ q.w = s.w
  BY <1>1, <1>5, SetTab
<1> HIDE DEF q
<1>9. r \in ChildState /\ r.tab = t /\ r.cn = s.cn /\ r.w = v
  BY <1>7, <1>8, SetW
<1> HIDE DEF r
<1>10. OneConn(s, r, c)
  BY <1>2, <1>4, <1>5, <1>9 DEF OneConn, Thinned
<1>11. Tallied(s, r, c)
  BY <1>7, <1>9 DEF Tallied
<1>12. Gated(t, s.w)
  BY <1>1, <1>2, <1>3, <1>4, GatedThinned
<1>13. Gated(r.tab, r.w)
  BY <1>7, <1>9, <1>12 DEF Gated
<1>14. c \notin Tracked(r.tab) /\ LetIn(s.tab, r.tab, s.cn[c], r.cn[c], c)
  BY <1>4, <1>9 DEF LetIn
<1>15. s.cn[c].phase # "call" /\ Proper(s.cn[c]) /\ Covered(s.tab, s.cn[c], c)
  BY <1>1, InLoop
<1>16. Covered(r.tab, r.cn[c], c)
  <2>1. c \in Gone(s)
    BY <1>2 DEF Thinned
  <2>2. ~Kept(s.cn[c])
    BY <2>1 DEF Gone, Kept
  <2> QED BY <1>9, <1>14, <2>2 DEF Covered
<1>17. Decent(r)
  BY <1>1, <1>7, <1>9, <1>10, <1>11, <1>13, <1>14, <1>15, <1>16, LoopStep
<1> QED BY <1>6, <1>17 DEF t

-----------------------------------------------------------------------------
(* Responses that end.                                                     *)

\* One response fewer is awaited; the loop ends only for a stop.
Fewer(v, u) ==
  /\ u \in Worker /\ u.pending = v.pending - 1 /\ u.cur = v.cur /\ u.script = v.script
  /\ u.stale = v.stale /\ u.stopping = v.stopping
  /\ u.paused = v.paused /\ u.listener = v.listener
  /\ u.broken = v.broken \/ (u.stopping /\ u.pending = 0)

LEMMA OneFewerIs ==
  ASSUME NEW s \in ChildState, s.w.pending > 0
  PROVE  LET r == OneFewer(s) IN
         r \in ChildState /\ r.tab = s.tab /\ r.cn = s.cn /\ Fewer(s.w, r.w)
<1> DEFINE v == [s.w EXCEPT !.pending = s.w.pending - 1]
           q == [s EXCEPT !.w = v]
           g == [q.w EXCEPT !.grace = "running"]
           e == fpm_direct_retire_extend(q)
           b == [e.w EXCEPT !.broken = "loop"]
           r == OneFewer(s)
<1>1. s.w \in Worker
  BY StateParts
<1>2. /\ v \in Worker /\ v.pending = s.w.pending - 1 /\ v.cur = s.w.cur /\ v.script = s.w.script
      /\ v.broken = s.w.broken /\ v.paused = s.w.paused /\ v.listener = s.w.listener
      /\ v.stale = s.w.stale /\ v.stopping = s.w.stopping
  BY <1>1, SMT DEF Worker
<1>3. r = IF e.w.stopping /\ e.w.pending = 0 THEN loopbreak(e, "loop") ELSE e
  <2> DEFINE Last(u) == IF u.w.stopping /\ u.w.pending = 0 THEN loopbreak(u, "loop") ELSE u
  <2>1. r = With(e, Last)
    BY DEF OneFewer
  <2> HIDE DEF Last, e, r
  <2>2. With(e, Last) = Last(e)
    BY DEF With
  <2> QED BY <2>1, <2>2 DEF Last
<1> HIDE DEF v
<1>4. q \in ChildState /\ q.tab = s.tab /\ q.cn = s.cn /\ q.w = v
  BY <1>2, SetW
<1> HIDE DEF q
<1>5. e \in ChildState /\ e.tab = s.tab /\ e.cn = s.cn /\ Fewer(s.w, e.w)
  <2>1. CASE q.w.retiring /\ q.w.grace # "unset"
    <3>1. e = [q EXCEPT !.w = g]
      BY <2>1 DEF fpm_direct_retire_extend
    <3>2. /\ g \in Worker /\ g.pending = v.pending /\ g.cur = v.cur /\ g.script = v.script
          /\ g.broken = v.broken /\ g.paused = v.paused /\ g.listener = v.listener
          /\ g.stale = v.stale /\ g.stopping = v.stopping
      BY <1>2, <1>4, SMTT(30) DEF Worker
    <3> HIDE DEF g, e
    <3>3. e \in ChildState /\ e.tab = q.tab /\ e.cn = q.cn /\ e.w = g
      BY <1>4, <3>1, <3>2, SetW
    <3> QED BY <1>2, <1>4, <3>2, <3>3 DEF Fewer
  <2>2. CASE ~(q.w.retiring /\ q.w.grace # "unset")
    <3>1. e = q
      BY <2>2 DEF fpm_direct_retire_extend
    <3> HIDE DEF e
    <3> QED BY <1>2, <1>4, <3>1 DEF Fewer
  <2> QED BY <2>1, <2>2
<1> HIDE DEF e
<1>6. CASE e.w.stopping /\ e.w.pending = 0 /\ e.w.broken = "no"
  <2>1. r = [e EXCEPT !.w = b]
    BY <1>3, <1>6 DEF loopbreak
  <2>2. /\ b \in Worker /\ b.pending = e.w.pending /\ b.cur = e.w.cur /\ b.script = e.w.script
        /\ b.paused = e.w.paused /\ b.listener = e.w.listener
        /\ b.stale = e.w.stale /\ b.stopping = e.w.stopping
    BY <1>5 DEF Worker, Fewer
  <2> HIDE DEF b, r
  <2>3. r \in ChildState /\ r.tab = e.tab /\ r.cn = e.cn /\ r.w = b
    BY <1>5, <2>1, <2>2, SetW
  <2> QED BY <1>5, <1>6, <2>2, <2>3 DEF Fewer, r
<1>7. CASE ~(e.w.stopping /\ e.w.pending = 0 /\ e.w.broken = "no")
  <2>1. r = e
    BY <1>3, <1>7 DEF loopbreak
  <2> HIDE DEF r
  <2> QED BY <1>5, <2>1 DEF r
<1> QED BY <1>6, <1>7

LEMMA PendingSome ==
  ASSUME NEW s, Sound(s), NEW c \in Conns, s.cn[c].closecb
  PROVE  s.w.pending > 0
<1>1. s.w.pending = Cardinality(Awaited(s.cn)) /\ s.w \in Worker
  BY StateParts DEF Sound
<1>2. c \in Awaited(s.cn) /\ Awaited(s.cn) \subseteq Conns
  BY DEF Awaited
<1>3. IsFiniteSet(Awaited(s.cn))
  BY <1>2, DirectChildAssumption, FS_Subset
<1>4. Cardinality(Awaited(s.cn)) # 0
  BY <1>2, <1>3, FS_EmptySet
<1> QED BY <1>1, <1>4, SMTT(30) DEF Worker

\* The table keeps its list, and what it knows of every connection.
SameList(t, r, c) ==
  /\ r \in Table /\ r.limits = t.limits /\ r.list = t.list
  /\ \A d \in Conns \ {c} : r.node[d] = t.node[d]
  /\ r.node[c].checked = t.node[c].checked /\ r.node[c].served = t.node[c].served
  /\ r.node[c].over = t.node[c].over

LEMMA ResponseDone ==
  ASSUME NEW t \in Table, NEW c \in Conns, NEW b, t.limits.read = TRUE
  PROVE  LET r == fpm_http_direct_conns_response_done(t, c, b) IN
         /\ SameList(t, r, c)
         /\ c \in Tracked(t) /\ t.node[c].served => r.node[c].armed \/ r.node[c].watch = "byte"
<1> DEFINE x == [t.node[c] EXCEPT !.armed = TRUE]
           y == [t.node[c] EXCEPT !.watch = "byte"]
           r == fpm_http_direct_conns_response_done(t, c, b)
<1>1. t.node \in [Conns -> Node] /\ t.node[c] \in Node
  BY TableParts
<1>2. CASE c \notin Tracked(t) \/ ~t.node[c].served
  <2>1. r = t
    BY <1>2 DEF fpm_http_direct_conns_response_done
  <2> QED BY <1>2, <2>1 DEF SameList
<1>3. CASE c \in Tracked(t) /\ t.node[c].served /\ b
  <2>1. r = [t EXCEPT !.node = [t.node EXCEPT ![c] = x]]
    BY <1>3 DEF fpm_http_direct_conns_response_done, fpm_direct_conn_arm_deadline
  <2>2. /\ x \in Node /\ x.armed /\ x.checked = t.node[c].checked
        /\ x.served = t.node[c].served /\ x.over = t.node[c].over
    BY <1>1 DEF Node
  <2> HIDE DEF x, r
  <2>3. /\ r \in Table /\ r.limits = t.limits /\ r.list = t.list /\ Tracked(r) = Tracked(t)
        /\ r.node[c] = x /\ \A d \in Conns \ {c} : r.node[d] = t.node[d]
    BY <2>1, <2>2, SetNode, SMTT(30)
  <2> QED BY <2>2, <2>3 DEF r, SameList
<1>4. CASE c \in Tracked(t) /\ t.node[c].served /\ ~b
  <2>1. r = [t EXCEPT !.node = [t.node EXCEPT ![c] = y]]
    BY <1>4 DEF fpm_http_direct_conns_response_done
  <2>2. /\ y \in Node /\ y.watch = "byte" /\ y.checked = t.node[c].checked
        /\ y.served = t.node[c].served /\ y.over = t.node[c].over
    BY <1>1 DEF Node
  <2> HIDE DEF y, r
  <2>3. /\ r \in Table /\ r.limits = t.limits /\ r.list = t.list /\ Tracked(r) = Tracked(t)
        /\ r.node[c] = y /\ \A d \in Conns \ {c} : r.node[d] = t.node[d]
    BY <2>1, <2>2, SetNode, SMTT(30)
  <2> QED BY <2>2, <2>3 DEF r, SameList
<1> QED BY <1>2, <1>3, <1>4

LEMMA SameListStep ==
  ASSUME NEW s, Good(s), s.w.cur = None, s.w.broken = "no", NEW c \in Conns,
         NEW r, NEW t, NEW y, NEW v, Stepped(s, r, c, t, y, v), SameList(s.tab, t, c),
         Proper(y), y.phase # "call", y.life = "held" => s.cn[c].life = "held", Covered(t, y, c),
         \/ (y.closecb <=> s.cn[c].closecb) /\ v = s.w
         \/ ~y.closecb /\ s.cn[c].closecb /\ Fewer(s.w, v)
  PROVE  Decent(r)
<1>1. s.tab \in Table /\ s.w \in Worker /\ Gated(s.tab, s.w) /\ Judged(s.tab, s.cn)
  BY GoodParts
<1>2. /\ r \in ChildState /\ r.tab = t /\ r.w = v /\ r.cn[c] = y
      /\ \A d \in Conns \ {c} : r.cn[d] = s.cn[d]
  BY DEF Stepped
<1>3. /\ t.limits = s.tab.limits /\ t.list = s.tab.list /\ Tracked(t) = Tracked(s.tab)
      /\ \A d \in Conns \ {c} : t.node[d] = s.tab.node[d]
      /\ t.node[c].checked = s.tab.node[c].checked /\ t.node[c].served = s.tab.node[c].served
      /\ t.node[c].over = s.tab.node[c].over
  BY DEF SameList, Tracked
<1>4. OneConn(s, r, c)
  BY <1>1, <1>2, <1>3, TableParts DEF OneConn, Alike
<1>5. Tallied(s, r, c)
  BY <1>2 DEF Tallied, Fewer
<1>6. v.cur = None /\ v.script = s.w.script /\ (v.broken = "no" \/ (v.stopping /\ v.pending = 0))
  BY DEF Fewer
<1>7. v.paused = s.w.paused /\ v.listener = s.w.listener
  BY DEF Fewer
<1>8. Gated(r.tab, r.w)
  BY <1>1, <1>2, <1>3, <1>7 DEF Gated
<1>9. LetIn(s.tab, r.tab, s.cn[c], r.cn[c], c)
  BY <1>1, <1>2, <1>3 DEF LetIn, Judged
<1> QED BY <1>2, <1>4, <1>5, <1>6, <1>8, <1>9, LoopStep

LEMMA SameListSelf ==
  ASSUME NEW t \in Table, NEW c \in Conns
  PROVE  SameList(t, t, c)
  BY DEF SameList

\* evhttp reads what is in the socket.
LEMMA ReadIs ==
  ASSUME NEW s, Good(s), s.w.cur = None, s.w.broken = "no", NEW c \in Conns, NEW n \in Nat
  PROVE  Decent([s EXCEPT !.cn[c].sock = 0, !.cn[c].buf = n])
<1> DEFINE y == [s.cn[c] EXCEPT !.sock = 0, !.buf = n]
           r == [s EXCEPT !.cn = [s.cn EXCEPT ![c] = y]]
<1>1. s \in ChildState /\ s.tab \in Table /\ s.cn \in [Conns -> Connection]
  BY GoodParts
<1>2. /\ s.cn[c] \in Connection /\ s.cn[c].phase # "call" /\ Proper(s.cn[c])
      /\ Covered(s.tab, s.cn[c], c)
  BY InLoop
<1>3. [s EXCEPT !.cn[c].sock = 0, !.cn[c].buf = n] = r
  BY <1>1 DEF ChildState
<1>4. /\ y \in Connection /\ Proper(y) /\ y.phase = s.cn[c].phase /\ y.closecb = s.cn[c].closecb
      /\ y.life = s.cn[c].life /\ y.closing = s.cn[c].closing /\ y.last = s.cn[c].last
  BY <1>2 DEF Connection, Proper
<1> HIDE DEF y
<1>5. Stepped(s, r, c, s.tab, y, s.w)
  BY <1>1, <1>4, JustConn
<1> HIDE DEF r
<1>6. SameList(s.tab, s.tab, c)
  BY <1>1, SameListSelf
<1>7. Covered(s.tab, y, c)
  BY <1>2, <1>4 DEF Covered, Kept
<1>8. Decent(r)
  BY <1>2, <1>4, <1>5, <1>6, <1>7, SameListStep
<1> QED BY <1>3, <1>8

LEMMA FreedIs ==
  Freed \in Connection /\ Proper(Freed) /\ ~Kept(Freed) /\ Freed.phase = "read"
  /\ Freed.life = "gone" /\ ~Freed.closecb
  BY DEF Freed, Connection, Proper, Kept

\* The close callback is taken away and the response is no longer counted.
LEMMA ClosedIs ==
  ASSUME NEW s, Good(s), NEW c \in Conns, s.cn[c].closecb
  PROVE  LET r == fpm_direct_response_closed(s, c)
             y == [s.cn[c] EXCEPT !.closecb = FALSE]
         IN y \in Connection /\ Stepped(s, r, c, s.tab, y, r.w) /\ Fewer(s.w, r.w)
<1> DEFINE y == [s.cn[c] EXCEPT !.closecb = FALSE]
           q == [s EXCEPT !.cn = [s.cn EXCEPT ![c] = y]]
           r == fpm_direct_response_closed(s, c)
<1>1. s \in ChildState /\ s.cn \in [Conns -> Connection] /\ s.w.pending > 0 /\ s.cn[c] \in Connection
  BY GoodParts, PendingSome
<1>2. y \in Connection
  BY <1>1 DEF Connection
<1>3. r = OneFewer(q)
  BY DEF fpm_direct_response_closed
<1> HIDE DEF y
<1>4. Stepped(s, q, c, s.tab, y, s.w)
  BY <1>1, <1>2, JustConn
<1> HIDE DEF q
<1>5. q \in ChildState /\ q.w = s.w
  BY <1>4 DEF Stepped
<1>6. r \in ChildState /\ r.tab = q.tab /\ r.cn = q.cn /\ Fewer(q.w, r.w)
  BY <1>1, <1>3, <1>5, OneFewerIs
<1> HIDE DEF r
<1> QED BY <1>2, <1>4, <1>5, <1>6 DEF Stepped, r, y

LEMMA LetGoIs ==
  ASSUME NEW s, Good(s), s.w.cur = None, s.w.broken = "no", NEW c \in Conns, s.cn[c].life = "held"
  PROVE  LET q == IF s.cn[c].closecb THEN fpm_direct_response_closed(s, c) ELSE s
         IN Decent([q EXCEPT !.cn[c] = Freed])
<1> DEFINE q == IF s.cn[c].closecb THEN fpm_direct_response_closed(s, c) ELSE s
           r == [q EXCEPT !.cn = [q.cn EXCEPT ![c] = Freed]]
<1>1. s \in ChildState /\ s.tab \in Table /\ s.cn \in [Conns -> Connection]
  BY GoodParts
<1>2. /\ q \in ChildState /\ q.tab = s.tab /\ \A d \in Conns \ {c} : q.cn[d] = s.cn[d]
      /\ \/ ~s.cn[c].closecb /\ q.w = s.w
         \/ s.cn[c].closecb /\ Fewer(s.w, q.w)
  <2>1. CASE s.cn[c].closecb
    <3>1. q = fpm_direct_response_closed(s, c)
      BY <2>1
    <3> HIDE DEF q
    <3>2. Stepped(s, q, c, s.tab, [s.cn[c] EXCEPT !.closecb = FALSE], q.w) /\ Fewer(s.w, q.w)
      BY <2>1, <3>1, ClosedIs
    <3> QED BY <2>1, <3>2 DEF Stepped
  <2>2. CASE ~s.cn[c].closecb
    BY <1>1, <2>2
  <2> QED BY <2>1, <2>2
<1> HIDE DEF q
<1>3. Stepped(q, r, c, q.tab, Freed, q.w)
  BY <1>2, FreedIs, JustConn
<1> HIDE DEF r
<1>4. Stepped(s, r, c, s.tab, Freed, q.w)
  BY <1>2, <1>3 DEF Stepped
<1>5. SameList(s.tab, s.tab, c)
  BY <1>1, SameListSelf
<1>6. Covered(s.tab, Freed, c)
  BY FreedIs DEF Covered
<1>7. Decent(r)
  BY <1>2, <1>4, <1>5, <1>6, FreedIs, SameListStep
<1> QED BY <1>7 DEF r, q

LEMMA RestartIs ==
  ASSUME NEW s \in ChildState, NEW c \in Conns, s.tab.limits.read = TRUE
  PROVE  LET r == fpm_direct_budget_restart(s, c) IN
         /\ Stepped(s, r, c, r.tab, s.cn[c], s.w) /\ r.cn = s.cn /\ SameList(s.tab, r.tab, c)
         /\ c \in Tracked(s.tab) /\ s.tab.node[c].served => r.tab.node[c].armed \/ r.tab.node[c].watch = "byte"
<1> DEFINE b == s.cn[c].buf > 0
           t == fpm_http_direct_conns_response_done(s.tab, c, b)
           r == fpm_direct_budget_restart(s, c)
<1>1. s.tab \in Table
  BY StateParts
<1>2. r = [s EXCEPT !.tab = t]
  BY DEF fpm_direct_budget_restart
<1> HIDE DEF b
<1>3. /\ SameList(s.tab, t, c)
      /\ c \in Tracked(s.tab) /\ s.tab.node[c].served => t.node[c].armed \/ t.node[c].watch = "byte"
  BY <1>1, ResponseDone
<1>5. t \in Table
  BY <1>3 DEF SameList
<1> HIDE DEF t, r
<1>4. r \in ChildState /\ r.tab = t /\ r.cn = s.cn /\ r.w = s.w
  BY <1>5, <1>2, SetTab
<1> QED BY <1>5, <1>3, <1>4 DEF Stepped, r

\* What the completion callback leaves.
Completed(s, q, c) ==
  /\ q \in ChildState /\ SameList(s.tab, q.tab, c)
  /\ \A d \in Conns \ {c} : q.cn[d] = s.cn[d]
  /\ q.cn[c].life = s.cn[c].life /\ q.cn[c].closing = s.cn[c].closing
  /\ q.cn[c].last = s.cn[c].last /\ ~q.cn[c].closecb
  /\ \/ ~s.cn[c].closecb /\ q.w = s.w
     \/ s.cn[c].closecb /\ Fewer(s.w, q.w)
  /\ c \in Tracked(s.tab) /\ s.tab.node[c].served => q.tab.node[c].armed \/ q.tab.node[c].watch = "byte"

LEMMA CompletedBudget ==
  ASSUME NEW s, Good(s), NEW c \in Conns, s.cn[c].done = "budget"
  PROVE  Completed(s, fpm_direct_budget_restart(s, c), c)
<1> DEFINE q == fpm_direct_budget_restart(s, c)
<1>1. s \in ChildState /\ s.tab.limits.read = TRUE /\ Proper(s.cn[c])
  BY GoodParts
<1>2. /\ Stepped(s, q, c, q.tab, s.cn[c], s.w) /\ SameList(s.tab, q.tab, c)
      /\ c \in Tracked(s.tab) /\ s.tab.node[c].served => q.tab.node[c].armed \/ q.tab.node[c].watch = "byte"
  BY <1>1, RestartIs
<1>3. ~s.cn[c].closecb
  BY <1>1 DEF Proper
<1> HIDE DEF q
<1>4. Completed(s, q, c)
  BY <1>2, <1>3 DEF Completed, Stepped
<1> QED BY <1>4 DEF q

LEMMA CompletedResponse ==
  ASSUME NEW s, Good(s), NEW c \in Conns, s.cn[c].done = "response"
  PROVE  Completed(s, fpm_direct_response_done(s, c), c)
<1> DEFINE y == [s.cn[c] EXCEPT !.closecb = FALSE]
           p == [s EXCEPT !.cn = [s.cn EXCEPT ![c] = y]]
           b == fpm_direct_budget_restart(p, c)
           q == fpm_direct_response_done(s, c)
<1>1. /\ s \in ChildState /\ s.tab.limits.read = TRUE /\ s.cn \in [Conns -> Connection]
      /\ s.cn[c] \in Connection /\ Proper(s.cn[c])
  BY GoodParts
<1>2. s.cn[c].closecb
  BY <1>1 DEF Proper
<1>3. s.w.pending > 0
  BY <1>2, GoodParts, PendingSome
<1>4. /\ y \in Connection /\ y.life = s.cn[c].life /\ y.closing = s.cn[c].closing
      /\ y.last = s.cn[c].last /\ ~y.closecb
  BY <1>1 DEF Connection
<1>5. q = OneFewer(b)
  BY DEF fpm_direct_response_done
<1> HIDE DEF y
<1>6. Stepped(s, p, c, s.tab, y, s.w)
  BY <1>1, <1>4, JustConn
<1> HIDE DEF p
<1>7. /\ p \in ChildState /\ p.tab = s.tab /\ p.w = s.w /\ p.cn[c] = y
      /\ \A d \in Conns \ {c} : p.cn[d] = s.cn[d]
  BY <1>6 DEF Stepped
<1>8. /\ Stepped(p, b, c, b.tab, p.cn[c], p.w) /\ b.cn = p.cn /\ SameList(p.tab, b.tab, c)
      /\ c \in Tracked(p.tab) /\ p.tab.node[c].served => b.tab.node[c].armed \/ b.tab.node[c].watch = "byte"
  BY <1>1, <1>7, RestartIs
<1> HIDE DEF b
<1>9. b \in ChildState /\ b.w = p.w
  BY <1>8 DEF Stepped
<1>10. q \in ChildState /\ q.tab = b.tab /\ q.cn = b.cn /\ Fewer(b.w, q.w)
  BY <1>3, <1>5, <1>7, <1>9, OneFewerIs
<1> HIDE DEF q
<1>11. Completed(s, q, c)
  BY <1>2, <1>4, <1>7, <1>8, <1>9, <1>10, SMTT(30) DEF Completed
<1> QED BY <1>11 DEF q

LEMMA CompletedStep ==
  ASSUME NEW s, Good(s), s.w.cur = None, s.w.broken = "no", NEW c \in Conns,
         s.cn[c].life = "held", s.cn[c].phase = "reply", NEW q, Completed(s, q, c)
  PROVE  /\ Decent([q EXCEPT !.cn[c] = Freed])
         /\ Decent([q EXCEPT !.cn[c].phase = "read", !.cn[c].done = "none"])
<1> DEFINE y == [q.cn[c] EXCEPT !.phase = "read", !.done = "none"]
           r == [q EXCEPT !.cn = [q.cn EXCEPT ![c] = y]]
           f == [q EXCEPT !.cn = [q.cn EXCEPT ![c] = Freed]]
<1>1. /\ s \in ChildState /\ s.tab \in Table /\ Covered(s.tab, s.cn[c], c)
      /\ q \in ChildState /\ q.cn \in [Conns -> Connection] /\ q.cn[c] \in Connection
  BY GoodParts, StateParts DEF Completed
<1>2. [q EXCEPT !.cn[c].phase = "read", !.cn[c].done = "none"] = r
  BY <1>1 DEF ChildState
<1>3. ~q.cn[c].closecb /\ q.cn[c].life = "held"
  BY DEF Completed
<1>4. /\ y \in Connection /\ Proper(y) /\ y.phase = "read" /\ y.life = "held" /\ ~y.closecb
      /\ y.closing = q.cn[c].closing /\ y.last = q.cn[c].last
  BY <1>1, <1>3 DEF Connection, Proper
<1> HIDE DEF y
<1>5. Stepped(q, r, c, q.tab, y, q.w) /\ Stepped(q, f, c, q.tab, Freed, q.w)
  BY <1>1, <1>4, FreedIs, JustConn
<1> HIDE DEF r, f
<1>6. /\ Stepped(s, r, c, q.tab, y, q.w) /\ Stepped(s, f, c, q.tab, Freed, q.w)
      /\ SameList(s.tab, q.tab, c)
  BY <1>5 DEF Stepped, Completed
<1>7. \/ ~s.cn[c].closecb /\ q.w = s.w
      \/ s.cn[c].closecb /\ Fewer(s.w, q.w)
  BY DEF Completed
<1>8. Tracked(q.tab) = Tracked(s.tab)
  BY <1>6 DEF SameList, Tracked
<1>9. Kept(y) => Kept(s.cn[c])
  BY <1>4 DEF Kept, Completed
<1>10. Covered(q.tab, y, c) /\ Covered(q.tab, Freed, c)
  BY <1>1, <1>4, <1>8, <1>9, FreedIs DEF Covered, Completed
<1>11. Decent(r)
  BY <1>4, <1>6, <1>7, <1>10, SameListStep
<1>12. Decent(f)
  BY <1>6, <1>7, <1>10, FreedIs, SameListStep
<1> QED BY <1>2, <1>11, <1>12 DEF f

LEMMA SendIs ==
  ASSUME NEW s, Good(s), NEW c \in Conns, s.cn[c].left > 0
  PROVE  LET r == [s EXCEPT !.cn[c].sock = @ + 1, !.cn[c].left = @ - 1] IN
         Good(r) /\ (s.w.broken = "no" => Parting(r))
<1> DEFINE y == [s.cn[c] EXCEPT !.sock = s.cn[c].sock + 1, !.left = s.cn[c].left - 1]
           r == [s EXCEPT !.cn = [s.cn EXCEPT ![c] = y]]
<1>1. /\ s \in ChildState /\ s.tab \in Table /\ s.cn \in [Conns -> Connection] /\ s.cn[c] \in Connection
      /\ Proper(s.cn[c]) /\ Covered(s.tab, s.cn[c], c) /\ Gated(s.tab, s.w) /\ Judged(s.tab, s.cn)
      /\ Sound(s) /\ Running(s) /\ Left(s)
  BY GoodParts
<1>2. [s EXCEPT !.cn[c].sock = @ + 1, !.cn[c].left = @ - 1] = r
  BY <1>1 DEF ChildState
<1>3. /\ y \in Connection /\ Proper(y) /\ y.phase = s.cn[c].phase /\ y.closecb = s.cn[c].closecb
      /\ y.life = s.cn[c].life /\ y.closing = s.cn[c].closing /\ y.last = s.cn[c].last
  <2>1. s.cn[c].sock + 1 \in Nat /\ s.cn[c].left - 1 \in Nat
    BY <1>1, SMTT(60) DEF Connection
  <2>2. y \in Connection
    BY <1>1, <2>1 DEF Connection
  <2>3. /\ y.phase = s.cn[c].phase /\ y.closecb = s.cn[c].closecb /\ y.done = s.cn[c].done
        /\ y.life = s.cn[c].life /\ y.closing = s.cn[c].closing /\ y.last = s.cn[c].last
    BY <1>1 DEF Connection
  <2> QED BY <1>1, <2>2, <2>3 DEF Proper
<1> HIDE DEF y
<1>4. Stepped(s, r, c, s.tab, y, s.w)
  BY <1>1, <1>3, JustConn
<1>5. /\ r \in ChildState /\ r.tab = s.tab /\ r.w = s.w /\ r.cn[c] = y
      /\ \A d \in Conns \ {c} : r.cn[d] = s.cn[d]
  BY <1>4 DEF Stepped
<1> HIDE DEF r
<1>6. OneConn(s, r, c) /\ Tallied(s, r, c)
  BY <1>3, <1>5 DEF OneConn, Tallied, Alike
<1>7. Covered(r.tab, r.cn[c], c) /\ Gated(r.tab, r.w)
  BY <1>1, <1>3, <1>5 DEF Covered, Kept
<1>8. LetIn(s.tab, r.tab, s.cn[c], r.cn[c], c)
  BY <1>1, <1>3, <1>5, LetInSame DEF Alike
<1>9. Sound(r)
  BY <1>1, <1>3, <1>5, <1>6, <1>7, <1>8, SoundStep
<1>10. \A d \in Conns : /\ r.cn[d].phase = s.cn[d].phase /\ r.cn[d].life = s.cn[d].life
                        /\ r.cn[d].closecb = s.cn[d].closecb
  BY <1>3, <1>5
<1>11. s.w.cur # None => s.w.cur \in Conns
  BY <1>1, GoodParts DEF Worker
<1>12. Running(r)
  BY <1>1, <1>5, <1>10, <1>11, SMTT(60) DEF Running
<1>13. Left(r)
  BY <1>1, <1>5 DEF Left
<1>14. s.w.broken = "no" => Parting(r)
  BY <1>5 DEF Parting
<1> QED BY <1>2, <1>9, <1>12, <1>13, <1>14 DEF Good

=============================================================================
