---------------------------- MODULE MetricsStore ----------------------------
(***************************************************************************)
(* Application metrics (ext/fpmng_metrics/fpmng_metrics.c): every worker   *)
(* writes series into its own slot of the shared region, without locks;    *)
(* the operator endpoint adds the slots of a pool up when it is asked.  A  *)
(* worker that is recycled or killed leaves its slot to the next one, so   *)
(* counters go on.  Under CLI the store is one process-local slot.         *)
(*                                                                         *)
(* A series key is <<metric, labels>>; the definition fpm_metric_register()*)
(* makes is the key without labels, <<metric, "def">>.  Under fpm-ng the   *)
(* pool label is always there, so a series without labels of its own,      *)
(* <<metric, "plain">>, is not the definition; under CLI it is.            *)
(*                                                                         *)
(* A new entry comes into being in three stores (in use, key, type with    *)
(* buckets) and an observation in two (bucket, then sum and count); a      *)
(* worker may be killed between them and a reader sees whatever is there.  *)
(***************************************************************************)
EXTENDS Integers, Sequences, FiniteSets, SequencesExt, FiniteSetsExt

CONSTANTS
    StoreConfs,           \* [mode, slots, limit, calls: set of calls, max: calls per slot]
    DefaultBuckets   \* fpmng_metrics_default_buckets, ascending

VARIABLES
    ms,     \* conf, the slots (sequences of entries), the workers
    said    \* what the calls that returned true told each slot

msvars == <<ms, said>>

\* FPMNG_METRIC_*; 0 is the type of an entry that is not finished
Counter == 1
GaugeSum == 2
GaugeMax == 3
Histogram == 4

NoKey == <<"", "">>
NoSlotEntry == [key |-> NoKey, type |-> 0, bk |-> <<>>, v |-> <<>>, sum |-> 0, n |-> 0, val |-> 0]
NoCall == [pc |-> "idle", at |-> 0, call |-> <<>>]

-----------------------------------------------------------------------------
(* The owner's side                                                        *)

Local(mode) == mode = "local"

build_key(mode, c) ==
    <<c.name, IF Local(mode) /\ c.tag = "plain" THEN "def" ELSE c.tag>>

\* Names and labels that are refused before the store is touched.
ValidName(name) == name # "bad"
Acceptable(c) == ValidName(c.name) /\ c.tag # "pool"

find_series(s, key) == { i \in 1 .. Len(s) : s[i].key = key }
find_definition(s, name) == find_series(s, <<name, "def">>)

TypeOf(s, is) == IF is = {} THEN 0 ELSE s[Min(is)].type

alloc_series_NoLimit(s, limit) == Append(s, NoSlotEntry)

\* The caller sees no room as an unchanged slot.
alloc_series(s, limit) == IF Len(s) >= limit THEN s ELSE Append(s, NoSlotEntry)

\* The type a call needs its series to have.
CallType(s, key, c) ==
    CASE c.fn = "register" -> c.type
      [] c.fn = "inc" -> Counter
      [] c.fn = "observe" -> Histogram
      [] c.fn = "set" ->
           IF find_series(s, key) # {}
           THEN IF TypeOf(s, find_series(s, key)) = GaugeMax THEN GaugeMax ELSE GaugeSum
           ELSE IF TypeOf(s, find_definition(s, c.name)) = GaugeMax THEN GaugeMax ELSE GaugeSum

\* The buckets a new histogram series takes: the definition's or the default.
NewBuckets(s, c) ==
    LET def == find_definition(s, c.name) IN
    IF TypeOf(s, def) = Histogram /\ s[Min(def)].bk # <<>> THEN s[Min(def)].bk ELSE DefaultBuckets

Zeros(bk) == [i \in 1 .. Len(bk) |-> 0]

WithBuckets(e, bk) == [e EXCEPT !.bk = bk, !.v = Zeros(bk)]

op_series_type(s, i, c, t) ==
    LET e == [s[i] EXCEPT !.type = t] IN
    [s EXCEPT ![i] = IF t = Histogram /\ c.fn # "register" THEN WithBuckets(e, NewBuckets(s, c)) ELSE e]

\* fpm_metric_register on the definition: buckets may change while it holds
\* no observation, or as long as there are as many of them.
RegisterRefused(e, c) == e.type = Histogram /\ c.bk # <<>> /\ e.n # 0 /\ Len(e.bk) # Len(c.bk)

Registers(e, c) ==
    IF e.type = Histogram /\ c.bk # <<>>
    THEN [e EXCEPT !.bk = c.bk,
                   !.v = [i \in 1 .. Len(c.bk) |-> IF i <= Len(e.v) THEN e.v[i] ELSE 0]]
    ELSE e

BucketOf(e, x) == { i \in 1 .. Len(e.bk) : x <= e.bk[i] }

fpm_metric_inc(e, by) == [e EXCEPT !.val = @ + by]

fpm_metric_set(e, x) == [e EXCEPT !.val = x]

fpm_metric_observe_Every(e, x) ==
    [e EXCEPT !.v = [i \in 1 .. Len(e.v) |-> IF i \in BucketOf(e, x) THEN e.v[i] + 1 ELSE e.v[i]]]

\* The first boundary that is not less than the value, if there is one.
fpm_metric_observe(e, x) ==
    IF BucketOf(e, x) = {} THEN e ELSE [e EXCEPT !.v[Min(BucketOf(e, x))] = @ + 1]

fpm_metric_observe_sum(e, x) == [e EXCEPT !.sum = @ + x, !.n = @ + 1]

\* The call's effect once its series is there.
Applied(e, c) ==
    CASE c.fn = "register" -> Registers(e, c)
      [] c.fn = "inc" -> fpm_metric_inc(e, c.x)
      [] c.fn = "set" -> fpm_metric_set(e, c.x)
      [] c.fn = "observe" -> fpm_metric_observe(e, c.x)

-----------------------------------------------------------------------------
(* The reader: fpmng_metrics_render_range                                  *)

Agg == [type |-> 0, bk |-> <<>>, v |-> <<>>, sum |-> 0, n |-> 0, val |-> 0, seen |-> FALSE]

IndexOf(bk, le) == { m \in 1 .. Len(bk) : bk[m] = le }

AddCounts(a, e) ==
    [m \in 1 .. Len(a.bk) |->
        LET ks == { k \in 1 .. Len(e.bk) : Min(IndexOf(a.bk, e.bk[k]) \cup {Len(a.bk) + 1}) = m } IN
        (IF m <= Len(a.v) THEN a.v[m] ELSE 0) + FoldSet(LAMBDA k, t : t + e.v[k], 0, ks)]

\* One entry is added: the first one gives the type, the largest bucket set
\* replaces the boundaries.
AddEntry_Last(a0, e) ==
    LET a == IF ~a0.seen THEN [a0 EXCEPT !.seen = TRUE, !.type = e.type] ELSE a0 IN
    CASE e.type \in {Counter, GaugeSum, GaugeMax} -> [a EXCEPT !.val = e.val]
      [] e.type = Histogram -> [a EXCEPT !.bk = e.bk, !.v = e.v, !.sum = e.sum, !.n = e.n]
      [] OTHER -> a

AddEntry_MaxOfZero(a0, e) ==
    LET a == IF ~a0.seen THEN [a0 EXCEPT !.seen = TRUE, !.type = e.type] ELSE a0 IN
    CASE e.type \in {Counter, GaugeSum} -> [a EXCEPT !.val = @ + e.val]
      [] e.type = GaugeMax -> [a EXCEPT !.val = IF e.val > @ THEN e.val ELSE @]
      [] OTHER -> a

AddEntry(a0, e) ==
    LET a == IF ~a0.seen THEN [a0 EXCEPT !.seen = TRUE, !.type = e.type] ELSE a0
        b == IF e.type = Histogram /\ a.type = Histogram /\ Len(e.bk) > Len(a.bk)
             THEN [a EXCEPT !.bk = e.bk] ELSE a IN
    CASE e.type \in {Counter, GaugeSum} -> [b EXCEPT !.val = @ + e.val]
      [] e.type = GaugeMax ->
           [b EXCEPT !.val = IF b.n = 0 \/ e.val > @ THEN e.val ELSE @, !.n = 1]
      [] e.type = Histogram ->
           [b EXCEPT !.v = AddCounts(b, e), !.sum = @ + e.sum, !.n = @ + e.n]
      [] OTHER -> b

\* The slots in order, the entries of a slot in order; under fpm-ng the
\* definitions only give help and type.
SlotEntries(key) ==
    FoldLeft(LAMBDA es, i : es \o SelectSeq(ms.slots[i], LAMBDA e : e.key = key),
             <<>>, [i \in 1 .. Len(ms.slots) |-> i])

fpmng_metrics_render_range(key) == FoldLeft(AddEntry, Agg, SlotEntries(key))

SeriesKeys == { e.key : e \in UNION { Range(ms.slots[i]) : i \in 1 .. Len(ms.slots) } } \ {NoKey}

RenderedKeys == IF Local(ms.conf.mode) THEN SeriesKeys ELSE { k \in SeriesKeys : k[2] # "def" }

-----------------------------------------------------------------------------
(* The workers                                                             *)

Nothing == [inc |-> 0, last |-> 0, obs |-> <<>>]

MsInit ==
    \E c \in StoreConfs :
        /\ ms = [conf |-> c, slots |-> [i \in 1 .. c.slots |-> <<>>],
                 wk |-> [i \in 1 .. c.slots |-> NoCall], calls |-> [i \in 1 .. c.slots |-> 0],
                 kills |-> 0]
        /\ said = [i \in 1 .. c.slots |->
                     [k \in { build_key(c.mode, x) : x \in c.calls } |-> Nothing]]

Told(i, key, c) ==
    [said EXCEPT ![i][key] =
        CASE c.fn = "inc" -> [@ EXCEPT !.inc = @ + c.x]
          [] c.fn = "set" -> [@ EXCEPT !.last = c.x]
          [] c.fn = "observe" -> [@ EXCEPT !.obs = Append(@, c.x)]
          [] OTHER -> @]

\* The entry at hand takes the call; an observation still has its sum to add.
ApplyCall(i, s, at, c) ==
    IF c.fn = "observe"
    THEN /\ ms' = [ms EXCEPT !.slots[i] = [s EXCEPT ![at] = Applied(@, c)],
                             !.wk[i] = [pc |-> "bucket", at |-> at, call |-> c],
                             !.calls[i] = @ + 1]
         /\ UNCHANGED said
    ELSE /\ ms' = [ms EXCEPT !.slots[i] = [s EXCEPT ![at] = Applied(@, c)],
                             !.wk[i] = NoCall, !.calls[i] = @ + 1]
         /\ said' = Told(i, s[at].key, c)

CallMade(i, c) ==
    LET s == ms.slots[i]
        key == build_key(ms.conf.mode, c)
        old == find_series(s, key)
        t == CallType(s, key, c)
        more == alloc_series(s, ms.conf.limit) IN
    /\ ms.wk[i].pc = "idle" /\ ms.calls[i] < ms.conf.max
    /\ Acceptable(c)
    /\ IF old # {}
       THEN /\ TypeOf(s, old) = t
            /\ c.fn = "register" => ~RegisterRefused(s[Min(old)], c)
            /\ ApplyCall(i, s, Min(old), c)
       ELSE /\ Len(more) > Len(s)
            /\ ms' = [ms EXCEPT !.slots[i] = more,
                                !.wk[i] = [pc |-> "claimed", at |-> Len(more), call |-> c]]
            /\ UNCHANGED said

\* A call that is refused changes nothing but the count of calls.
CallRefused(i, c) ==
    LET s == ms.slots[i]
        old == find_series(s, build_key(ms.conf.mode, c))
        t == CallType(s, build_key(ms.conf.mode, c), c) IN
    /\ ms.wk[i].pc = "idle" /\ ms.calls[i] < ms.conf.max
    /\ \/ ~Acceptable(c)
       \/ old # {} /\ TypeOf(s, old) # t
       \/ old # {} /\ c.fn = "register" /\ RegisterRefused(s[Min(old)], c)
       \/ old = {} /\ Len(alloc_series(s, ms.conf.limit)) = Len(s)
    /\ ms' = [ms EXCEPT !.calls[i] = @ + 1]
    /\ UNCHANGED said

KeyWritten(i) ==
    /\ ms.wk[i].pc = "claimed"
    /\ ms' = [ms EXCEPT !.slots[i][ms.wk[i].at].key = build_key(ms.conf.mode, ms.wk[i].call),
                        !.wk[i].pc = "keyed"]
    /\ UNCHANGED said

TypeWritten(i) ==
    LET c == ms.wk[i].call
        s == ms.slots[i]
        at == ms.wk[i].at
        key == s[at].key
        before == SubSeq(s, 1, at - 1) IN
    /\ ms.wk[i].pc = "keyed"
    /\ ApplyCall(i, op_series_type(s, at, c, CallType(before, key, c)), at, c)

SumWritten(i) ==
    LET w == ms.wk[i] IN
    /\ w.pc = "bucket"
    /\ ms' = [ms EXCEPT !.slots[i][w.at] = fpm_metric_observe_sum(@, w.call.x), !.wk[i] = NoCall]
    /\ said' = Told(i, ms.slots[i][w.at].key, w.call)

\* A worker is killed, or recycled; the next one attaches to the same slot.
fpmng_metrics_child_attach(i) ==
    /\ ms.kills < ms.conf.kills
    /\ ms' = [ms EXCEPT !.wk[i] = NoCall, !.kills = @ + 1]
    /\ UNCHANGED said

MsNext ==
    \E i \in 1 .. Len(ms.slots) :
        \/ \E c \in ms.conf.calls : CallMade(i, c)
        \/ \E c \in ms.conf.calls : CallRefused(i, c)
        \/ KeyWritten(i)
        \/ TypeWritten(i)
        \/ SumWritten(i)
        \/ fpmng_metrics_child_attach(i)

-----------------------------------------------------------------------------
(* Properties *)

EntriesOf(key) == Range(SlotEntries(key))
OneType(key) == \A d, e \in EntriesOf(key) : d.type = e.type
Whole(key) == OneType(key) /\ \A e \in EntriesOf(key) : e.type # 0
SameBuckets(key) == \A d, e \in EntriesOf(key) : d.bk = e.bk
Busy(key) == \E i \in 1 .. Len(ms.slots) :
               ms.wk[i].pc # "idle" /\ build_key(ms.conf.mode, ms.wk[i].call) = key
SumOf(f) == FoldSet(LAMBDA i, t : t + f[i], 0, DOMAIN f)

\* Types, and the limit: a slot never holds more series than
\* fpmng_metrics.series_limit, and no key has two entries in one slot.
MsTypeOK ==
    \A i \in 1 .. Len(ms.slots) :
        LET s == ms.slots[i] IN
        /\ Len(s) <= ms.conf.limit
        /\ \A j, k \in 1 .. Len(s) : j # k /\ s[j].key = s[k].key => s[j].key = NoKey
        /\ \A j \in 1 .. Len(s) : Len(s[j].v) = Len(s[j].bk) /\ s[j].type \in 0 .. 4

\* The page shows for a counter or gauge what the calls that returned true
\* said, over all workers that ever had one of the slots: the sum, or for a
\* gauge_max the largest of the values the slots hold, negative ones too.
ValueTrue ==
    \A key \in { k \in RenderedKeys : Whole(k) /\ ~Busy(k) /\ ms.kills = 0 } :
        LET a == fpmng_metrics_render_range(key)
            has == { i \in 1 .. Len(ms.slots) : find_series(ms.slots[i], key) # {} } IN
        /\ a.type = Counter => a.val = SumOf([i \in has |-> said[i][key].inc])
        /\ a.type = GaugeSum => a.val = SumOf([i \in has |-> said[i][key].last])
        /\ a.type = GaugeMax => a.val = Max({ said[i][key].last : i \in has })

\* A counter on the page never goes back, whichever worker is killed, replaced
\* or in the middle of a call, half-made entries included.
CounterGrows ==
    [][\A key \in RenderedKeys : (\A e \in EntriesOf(key)' : e.type \in {0, Counter}) =>
         fpmng_metrics_render_range(key)'.val >= fpmng_metrics_render_range(key).val]_msvars

\* Observations are counted once: with one bucket set in all workers, the line
\* of a boundary counts the values above the boundary before it and not above
\* it; _count counts them all, _sum adds them.
HistogramTrue ==
    \A key \in { k \in RenderedKeys : Whole(k) /\ SameBuckets(k) /\ ~Busy(k) /\ ms.kills = 0 } :
        LET a == fpmng_metrics_render_range(key)
            all == FoldLeft(LAMBDA t, i : t \o said[i][key].obs, <<>>, [i \in 1 .. Len(ms.slots) |-> i]) IN
        a.type = Histogram =>
            /\ a.n = Len(all) /\ a.sum = FoldLeft(LAMBDA t, x : t + x, 0, all)
            /\ ~ms.conf.rebuckets =>
                 \A m \in 1 .. Len(a.bk) :
                     a.v[m] = Len(SelectSeq(all, LAMBDA x : x <= a.bk[m] /\ (m > 1 => x > a.bk[m - 1])))

\* Even in the middle of an observation, and after a kill there, the lines of a
\* histogram add up to at most the observations begun.
CountsBounded ==
    \A i \in 1 .. Len(ms.slots) : \A j \in 1 .. Len(ms.slots[i]) :
        LET e == ms.slots[i][j] IN SumOf(e.v) <= e.n + ms.kills + (IF ms.wk[i].pc = "bucket" THEN 1 ELSE 0)

\* Workers with different bucket sets: each boundary shows the counts the
\* workers have for that boundary.
BucketsDoNotBite ==
    \A key \in { k \in RenderedKeys : Whole(k) } :
        LET a == fpmng_metrics_render_range(key) IN
        a.type = Histogram =>
            \A m \in 1 .. Len(a.bk) :
                a.v[m] = FoldLeft(LAMBDA t, e : t + SumOf([k \in IndexOf(e.bk, a.bk[m]) |-> e.v[k]]),
                                  0, SlotEntries(key))

\* The store as a whole (fpmng_metrics.c): the page shows what the workers
\* said, a counter never falls, and a kill leaves at most one observation half
\* counted.
StoreSound == [](MsTypeOK /\ ValueTrue /\ HistogramTrue /\ CountsBounded) /\ CounterGrows
=============================================================================
