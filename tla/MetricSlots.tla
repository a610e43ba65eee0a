---------------------------- MODULE MetricSlots ----------------------------
(***************************************************************************)
(* The slots of the shared metrics region over selective reloads           *)
(* (fpm_metrics.c, fpm_reload_shm.c).                                      *)
(*                                                                         *)
(* Every worker writes its series into one slot of a region the master     *)
(* lays out when it starts: a pool has a range of pm.max_children slots    *)
(* and a worker takes the slot of its scoreboard seat.  A selective reload *)
(* spares the workers of unchanged pools, so the next generation must map  *)
(* the same region and keep those ranges; and a supervised command of a    *)
(* pool that was not spared may live on for a while as a survivor (#329)   *)
(* and still write.  Its range is set aside, not given to another pool,    *)
(* until the latest moment the survivor can live.                          *)
(*                                                                         *)
(* A region is named by the generation that made it.  What a slot holds is *)
(* abstracted to who wrote it: the pool and the generation that started    *)
(* the pool's workers afresh.  A worker writes as soon as it is forked.    *)
(***************************************************************************)
EXTENDS Integers, Sequences, FiniteSets, SequencesExt, FiniteSetsExt

CONSTANTS
    Names,    \* the pools, in the order of the configuration files
    Sup,      \* the supervisor pools, whose workers may survive a reload
    Plans,    \* the configurations: pm.max_children of each pool, 0 if absent
    Grace,    \* the longest a survivor lives after the exec
    Slack,    \* what the reservation adds to it
    MaxSlots, MaxNow, MaxExecs, MaxForks   \* bounds of the model

NoRegion == 0
Blank == <<"none", 0>>
Reserved == "reserved"
Range3(name, base, count, until) ==
    [name |-> name, base |-> base, count |-> count, until |-> until]
Slots(r) == r.base .. (r.base + r.count - 1)

VARIABLES
    mx,    \* the master: phase, plan, ranges, region, slots, memfd, inc, env
    wk,    \* the live workers: pool, inc, region, slot, seat (-1: not its child), until
    data,  \* the region the master has mapped: slot -> who wrote it
    clk    \* the clock, the forks so far

mxvars == <<mx, wk, data, clk>>

PoolsOf(plan) == SelectSeq(Names, LAMBDA p : plan[p] > 0)

-----------------------------------------------------------------------------
(* Laying out the region: ranges is the list of fpm_metrics.c.             *)

fpm_metrics_range_of(ranges, p) == { r \in ranges : r.name = p }

fpm_metrics_overlaps(ranges, base, count) ==
    \E r \in ranges : base < r.base + r.count /\ r.base < base + count

fpm_metrics_first_fit_Named(ranges, count) ==
    Min({ b \in 0 .. MaxSlots :
            ~fpm_metrics_overlaps({ r \in ranges : r.name # Reserved }, b, count) })

\* The loop moves base past every range it meets until none overlaps: no lower
\* base fits, because each one overlaps the range that moved it.
fpm_metrics_first_fit(ranges, count) ==
    Min({ b \in 0 .. MaxSlots : ~fpm_metrics_overlaps(ranges, b, count) })

fpm_metrics_add_range(ranges, name, base, count, until) ==
    ranges \cup { Range3(name, base, count, until) }

Placed(plan, ranges) ==
    FoldLeft(LAMBDA rs, p :
               IF fpm_metrics_range_of(rs, p) # {} THEN rs
               ELSE fpm_metrics_add_range(rs, p, fpm_metrics_first_fit(rs, plan[p]), plan[p], 0),
             ranges, PoolsOf(plan))

Total(ranges) == Max({0} \cup { r.base + r.count : r \in ranges })

-----------------------------------------------------------------------------
(* The records that cross the exec.                                        *)

NoEnv == [m |-> NoRegion, mslots |-> 0, s |-> {}, b |-> {}, x |-> {}, y |-> {}]

\* One pool spared: its scoreboard (S), the region once (M), its range (B).
fpm_reload_shm_spare_pool(m, env, p) ==
    LET r == fpm_metrics_range_of(m.ranges, p) IN
    IF m.memfd
    THEN [env EXCEPT !.s = @ \cup { <<p, m.plan[p]>> },
                     !.m = IF r # {} THEN m.region ELSE @,
                     !.mslots = IF r # {} THEN m.slots ELSE @,
                     !.b = @ \cup r]
    ELSE env

fpm_pool_supervisor_slot_reserve_until(now) == now + Grace + Slack

fpm_reload_shm_carry_range_Renews(r, now) ==
    IF r.until <= now THEN {}
    ELSE { [r EXCEPT !.until = fpm_pool_supervisor_slot_reserve_until(now)] }

fpm_reload_shm_carry_range(r, now) == IF r.until <= now THEN {} ELSE {r}

fpm_reload_shm_exec_records_NotReserved(m, env, now) ==
    IF env.m = NoRegion THEN env
    ELSE [env EXCEPT
            !.x = { [r EXCEPT !.until = fpm_pool_supervisor_slot_reserve_until(now)] :
                      r \in { q \in m.ranges : q.name # Reserved } }]

\* At the exec, and only when the region crosses it: every pool's range (X),
\* and the ranges set aside earlier whose time is not over (Y).
fpm_reload_shm_exec_records(m, env, now) ==
    IF env.m = NoRegion THEN env
    ELSE [env EXCEPT
            !.x = { [r EXCEPT !.until = fpm_pool_supervisor_slot_reserve_until(now)] :
                      r \in { q \in m.ranges : q.name # Reserved } },
            !.y = UNION { fpm_reload_shm_carry_range(r, now) :
                            r \in { q \in m.ranges : q.name = Reserved } }]

fpm_reload_shm_inherited_range(env, p) == { r \in env.b : r.name = p }

\* X of a pool without a B: its workers are gone, a survivor of it may be not.
fpm_reload_shm_foreach_unspared_range(env) ==
    { [r EXCEPT !.name = Reserved] :
        r \in { q \in env.x : fpm_reload_shm_inherited_range(env, q.name) = {} } }

fpm_reload_shm_foreach_carried_range(env, now) == { r \in env.y : r.until > now }

-----------------------------------------------------------------------------
(* fpm_metrics_init_main                                                   *)

Inherited_Inside(plan, env) ==
    FoldLeft(LAMBDA rs, p :
               rs \cup { r \in fpm_reload_shm_inherited_range(env, p) :
                           /\ r.count = plan[p]
                           /\ r.base + r.count < env.mslots
                           /\ ~fpm_metrics_overlaps(rs, r.base, r.count) },
             {}, PoolsOf(plan))

InheritedMap(plan, env) ==
    FoldLeft(LAMBDA rs, p :
               rs \cup { r \in fpm_reload_shm_inherited_range(env, p) :
                           /\ r.count = plan[p]
                           /\ r.base + r.count <= env.mslots
                           /\ ~fpm_metrics_overlaps(rs, r.base, r.count) },
             {}, PoolsOf(plan))

Kept_Forgets(plan, env, now) == Placed(plan, InheritedMap(plan, env))

\* The layout on the inherited region: first the spared pools where they are,
\* then what is set aside, then the others wherever they fit.
Kept(plan, env, now) ==
    Placed(plan, InheritedMap(plan, env)
                   \cup fpm_reload_shm_foreach_unspared_range(env)
                   \cup fpm_reload_shm_foreach_carried_range(env, now))

Emptied == [s \in 0 .. MaxSlots - 1 |-> Blank]

fpm_metrics_clear_slots_Fresh(d, ranges, env) ==
    [s \in 0 .. MaxSlots - 1 |-> IF s < Total(ranges) /\ s < env.mslots THEN d[s] ELSE Blank]

\* Named ranges no spared pool brought along are emptied; what ftruncate() cut
\* off or added is empty.
fpm_metrics_clear_slots(d, ranges, env) ==
    [s \in 0 .. MaxSlots - 1 |->
        IF \/ s >= Total(ranges) \/ s >= env.mslots
           \/ \E r \in ranges : r.name # Reserved /\ s \in Slots(r) /\ r \notin env.b
        THEN Blank ELSE d[s]]

\* how: the inherited region is used, does not match (series_limit, size), or
\* cannot be mapped.
fpm_reload_shm_inherited_metrics(env, how) == env.m # NoRegion /\ how = "kept"

\* memfd: this generation's own memory has file descriptors.
fpm_metrics_init_main(m, d, how, memfd, now, gen) ==
    LET usable == fpm_reload_shm_inherited_metrics(m.env, how) IN
    IF PoolsOf(m.plan) = <<>>
    THEN [m |-> [m EXCEPT !.ranges = {}, !.region = NoRegion, !.slots = 0, !.memfd = FALSE],
          d |-> Emptied]
    ELSE IF usable
    THEN LET rs == Kept(m.plan, m.env, now) IN
         [m |-> [m EXCEPT !.ranges = rs, !.region = m.env.m, !.slots = Total(rs), !.memfd = TRUE],
          d |-> fpm_metrics_clear_slots(d, rs, m.env)]
    ELSE LET rs == Placed(m.plan, {}) IN
         [m |-> [m EXCEPT !.ranges = rs, !.region = gen, !.slots = Total(rs), !.memfd = memfd],
          d |-> Emptied]

-----------------------------------------------------------------------------
(* Adopting the spared workers.                                           *)

\* The scoreboards that crossed the exec and still fit their pool are mapped
\* again; a pool that has none starts with an empty one.
fpm_reload_shm_scoreboards(env, plan) == { p \in DOMAIN plan : <<p, plan[p]>> \in env.s }

fpm_reload_shm_prepare_adopt_Any(w, kept, free) == Min(free)

\* A worker that is in the scoreboard keeps its seat, another takes a free one.
fpm_reload_shm_prepare_adopt(w, kept, free) ==
    IF w.pool \in kept /\ w.seat \in free THEN w.seat ELSE Min(free)

\* The spared workers, adopted in this order (that of the old master's lists).
Adopted(order, env, plan) ==
    LET kept == fpm_reload_shm_scoreboards(env, plan)
        Seat(acc, w) ==
            LET free == (0 .. plan[w.pool] - 1)
                          \ { v.seat : v \in { u \in acc : u.pool = w.pool } } IN
            acc \cup { [w EXCEPT !.seat = fpm_reload_shm_prepare_adopt(w, kept, free)] }
    IN FoldLeft(Seat, {}, order)

-----------------------------------------------------------------------------
MxInit ==
    /\ \E plan \in Plans :
         LET i == fpm_metrics_init_main(
                    [phase |-> "run", plan |-> plan, ranges |-> {}, region |-> NoRegion,
                     slots |-> 0, memfd |-> FALSE, inc |-> [p \in Range(Names) |-> 1],
                     lost |-> FALSE, gen |-> 1, env |-> NoEnv],
                    Emptied, "kept", TRUE, 0, 1)
         IN mx = i.m /\ data = i.d
    /\ wk = {}
    /\ clk = [now |-> 0, forks |-> 0]

\* fpm_metrics_child_init: slot = the pool's base + the worker's seat.
fpm_metrics_child_init(p, seat, r) ==
    [pool |-> p, inc |-> mx.inc[p], region |-> mx.region, slot |-> r.base + seat,
     seat |-> seat, until |-> 0]

Forks(p) ==
    /\ mx.phase = "run" /\ clk.forks < MaxForks /\ mx.plan[p] > 0
    /\ LET free == (0 .. mx.plan[p] - 1) \ { w.seat : w \in { v \in wk : v.pool = p } } IN
       /\ free # {}
       /\ \E r \in fpm_metrics_range_of(mx.ranges, p) :
            LET w == fpm_metrics_child_init(p, Min(free), r) IN
            /\ wk' = wk \cup {w}
            /\ data' = [data EXCEPT ![w.slot] = <<p, w.inc>>]
    /\ clk' = [clk EXCEPT !.forks = @ + 1]
    /\ UNCHANGED mx

\* A worker dies; one that is spared may die between the exec and its adoption,
\* which then frees its seat (fpm_reload_shm_drop_slot).
WorkerGone(w) ==
    /\ wk' = wk \ {w}
    /\ UNCHANGED <<mx, data, clk>>

\* The reload: workers of pools that are not spared are gone before the exec,
\* but for the commands of supervisor pools handed on as survivors.
MxExec(plan, spared, left) ==
    LET env == FoldSet(LAMBDA p, e : fpm_reload_shm_spare_pool(mx, e, p), NoEnv, spared)
        goes == { w \in wk : w.seat >= 0 /\ w.pool \notin spared } IN
    /\ mx.phase = "run" /\ mx.gen < MaxExecs
    /\ \A p \in spared : plan[p] = mx.plan[p] /\ plan[p] > 0
    /\ left \subseteq { w \in goes : w.pool \in Sup }
    /\ wk' = (wk \ goes) \cup { [w EXCEPT !.seat = -1, !.until = clk.now + Grace] : w \in left }
    /\ mx' = [mx EXCEPT !.phase = "exec", !.plan = plan, !.gen = @ + 1,
                        !.env = fpm_reload_shm_exec_records(mx, env, clk.now),
                        !.inc = [p \in DOMAIN mx.inc |-> IF p \in spared THEN mx.inc[p] ELSE mx.gen + 1]]
    /\ UNCHANGED <<data, clk>>

MxStarts(how, memfd) ==
    /\ mx.phase = "exec"
    /\ how # "kept" => mx.env.m # NoRegion
    /\ memfd \/ how # "kept" \/ mx.env.m = NoRegion
    /\ LET i == fpm_metrics_init_main(mx, data, how, memfd, clk.now, mx.gen) IN
       /\ mx' = [i.m EXCEPT !.phase = "run", !.env = NoEnv,
                            !.lost = mx.lost \/ how # "kept" \/ ~mx.memfd]
       /\ data' = i.d
       /\ \E order \in SetToSeqs({ w \in wk : w.seat >= 0 }) :
            wk' = Adopted(order, mx.env, mx.plan) \cup { w \in wk : w.seat < 0 }
    /\ UNCHANGED clk

\* Survivors are ended in time (fpm_pool_supervisor_reload_survivor_*).
MxTick ==
    /\ clk.now < MaxNow
    /\ \A w \in wk : w.seat < 0 => w.until > clk.now
    /\ clk' = [clk EXCEPT !.now = @ + 1]
    /\ UNCHANGED <<mx, wk, data>>

MxNext ==
    \/ \E p \in Range(Names) : Forks(p)
    \/ \E w \in wk : WorkerGone(w)
    \/ \E plan \in Plans, spared \in SUBSET Range(Names), left \in SUBSET { w \in wk : w.pool \in Sup } :
         MxExec(plan, spared, left)
    \/ \E how \in {"kept", "mismatch", "nomap"}, memfd \in BOOLEAN : MxStarts(how, memfd)
    \/ MxTick

-----------------------------------------------------------------------------
(* Properties *)

Here == { w \in wk : w.region = mx.region }

\* Types, and the layout itself: ranges lie inside the region and no two share
\* a slot, whatever was carried over, set aside or placed.
MxTypeOK ==
    /\ mx.phase \in {"run", "exec"} /\ mx.plan \in Plans /\ mx.memfd \in BOOLEAN
    /\ mx.slots \in 0 .. MaxSlots /\ clk.now \in 0 .. MaxNow
    /\ \A r \in mx.ranges : r.base + r.count <= mx.slots
    /\ \A r, q \in mx.ranges : r # q => Slots(r) \cap Slots(q) = {}
    /\ mx.phase = "run" =>
         \A p \in Range(PoolsOf(mx.plan)) : Cardinality(fpm_metrics_range_of(mx.ranges, p)) = 1

\* No two live workers write the same slot of the same region: not a spared one
\* and a new one, not a survivor of two reloads ago and a worker of any pool.
NoSharedSlot ==
    \A v, w \in wk : v # w /\ v.region = w.region => v.slot # w.slot

\* While a master runs, each worker on its region writes where the layout says
\* its pool is, and a survivor of a pool that was replaced writes where nobody
\* is: its slot is still there (not cut off) and set aside.
SlotsGuarded ==
    mx.phase = "run" =>
        \A w \in Here :
            \E r \in mx.ranges :
                /\ w.slot \in Slots(r)
                /\ r.name = (IF w.seat >= 0 THEN w.pool ELSE Reserved)
                /\ w.seat >= 0 => w.slot = r.base + w.seat

\* What the operator endpoint sums up for a pool was written by workers of that
\* pool since it last started afresh: a replaced pool begins at zero, a slot
\* that comes back from a survivor is emptied first.
OwnSeriesOnly ==
    mx.phase = "run" =>
        \A r \in { q \in mx.ranges : q.name # Reserved } :
            \A s \in Slots(r) : data[s] \in {Blank, <<r.name, mx.inc[r.name]>>}

\* Unless memory failed on the way, a spared pool keeps its series: its workers
\* write the region this master reads, and a spared worker's writes are in it.
SeriesKept ==
    mx.phase = "run" /\ ~mx.lost =>
        \A w \in wk : w.seat >= 0 => w.region = mx.region /\ data[w.slot] = <<w.pool, w.inc>>

\* A range set aside is given up on time: a further reload carries it with the
\* end it had, it does not start its time again.
NotExtended ==
    [][\A r \in mx.ranges : r.name = Reserved =>
         \A q \in mx'.ranges :
             q.name = Reserved /\ Slots(q) \cap Slots(r) # {} => q.until <= r.until]_mxvars

\* The slots as a whole (fpm_metrics.c, fpm_reload_shm.c): no two processes
\* that live write to one slot, a spared worker keeps its series, and what a
\* survivor holds is set aside, not longer than it was first given.
MetricSlotsSound ==
    /\ [](MxTypeOK /\ NoSharedSlot /\ SlotsGuarded /\ OwnSeriesOnly /\ SeriesKept)
    /\ NotExtended
=============================================================================
