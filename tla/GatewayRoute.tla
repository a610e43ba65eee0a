---------------------------- MODULE GatewayRoute ----------------------------
(***************************************************************************)
(* Which row of its routing table a gateway process hands a request to,    *)
(* what it answers by itself, and where the request is counted.  The       *)
(* master validates http.route[], http.route_upgrade[] and http.operator,  *)
(* builds the table and the operator map once (fpm_http_route.c); every    *)
(* request then runs through fpm_http_request() (fpm_http.c), whose order  *)
(* of tests is kept.  A path is a sequence of letters; a host is a name,   *)
(* "bad" is one the grammar refuses, and "A" is "a" in upper case.         *)
(* Forwarding itself (queue, budget, upstream) is module GatewayUpstream.  *)
(***************************************************************************)
EXTENDS Integers, Sequences, FiniteSets

LOCAL INSTANCE SequencesExt

CONSTANTS RtConfs,      \* the configurations, each with the requests it meets
          RtConns,      \* client connections of the process
          MaxRequests   \* bound on the requests of a behaviour

VARIABLES cfg,          \* the parsed configuration of the pool
          tab,          \* routing table and operator map, built by the master
          gwp,          \* this process: readiness latch and drain flags
          seg,          \* the counters segment, which survives a respawn
          conn,         \* per connection: the request in flight
          slots,        \* per target pool: the stage of its child
          ans,          \* what the last request got
          gone          \* history: per counter row, requests whose client or process went away

rtvars == <<cfg, tab, gwp, seg, conn, slots, ans, gone>>

-----------------------------------------------------------------------------
(* Names and paths *)

fpm_http_host_valid_name(h) == h \notin {"", "bad"}

fpm_http_host_dup_lower(h) == IF h = "A" THEN "a" ELSE h

fpm_http_host_parse(h) ==
  IF fpm_http_host_valid_name(h) THEN fpm_http_host_dup_lower(h) ELSE ""

(* The name a request is matched on, "" for none: the authority of an      *)
(* absolute-form target, else the only Host header.                        *)
fpm_http_host_of_request(r) ==
  IF r.authority # "" THEN fpm_http_host_parse(r.authority)
  ELSE IF Len(r.hosts) # 1 THEN ""
  ELSE fpm_http_host_parse(r.hosts[1])

fpm_http_prefix_covers_AnyChar(prefix, path) == IsPrefix(prefix, path)

fpm_http_prefix_covers(prefix, path) ==
  /\ IsPrefix(prefix, path)
  /\ \/ Len(path) = Len(prefix)
     \/ prefix[Len(prefix)] = "/"
     \/ path[Len(prefix) + 1] = "/"

UnderBase(base, path) ==
  base # <<>> /\ (path = base \/ IsPrefix(Append(base, "/"), path))

Formats == {"metrics", "status"}

Root == <<"/">>

AcmePrefix == <<"/", "w", "/">>

(* The base the operator pages of one format hang under; <<>> is off.      *)
fpm_http_operator_base(cf, fmt) ==
  LET o == cf.operator[fmt]
      default == IF fmt = "metrics" THEN <<"/", "m">> ELSE <<"/", "s">>
  IN CASE o.path # <<>>                         -> o.path
       [] o.path = <<>> /\ o.path_set           -> <<>>
       [] o.path = <<>> /\ ~o.path_set /\ o.flag = "off"   -> <<>>
       [] o.path = <<>> /\ ~o.path_set /\ o.flag = "on"    -> default \o <<"/", cf.name>>
       [] o.path = <<>> /\ ~o.path_set /\ o.flag = "unset" -> default

-----------------------------------------------------------------------------
(* Validation and construction, in the master *)

(* Every entry of http.route[], in the order of the file.                  *)
EntriesIn(cf) ==
  FoldLeft(LAMBDA acc, kv :
             acc \o [i \in 1..Len(kv.value) |->
                       [key |-> kv.key, host |-> kv.value[i].host, path |-> kv.value[i].path]],
           <<>>, cf.http_routes)

fpm_http_route_target_pool(cf, name) ==
  /\ name \in DOMAIN cf.pools
  /\ \/ cf.pools[name].speaks = "fastcgi"
     \/ cf.pools[name].speaks = "http11" /\ ~cf.pools[name].tls /\ cf.pools[name].loopback

SameEntry_ExactHost(e, f) == e.path = f.path /\ e.host = f.host

SameEntry(e, f) ==
  e.path = f.path /\ fpm_http_host_dup_lower(e.host) = fpm_http_host_dup_lower(f.host)

fpm_http_validate_routes(cf) ==
  LET es == EntriesIn(cf)
  IN \/ cf.http_routes = <<>>
     \/ /\ es # <<>>
        /\ \A i, j \in 1..Len(cf.http_routes) :
             cf.http_routes[i].key = cf.http_routes[j].key => i = j
        /\ \A i \in 1..Len(cf.http_routes) : fpm_http_route_target_pool(cf, cf.http_routes[i].key)
        /\ \A i \in 1..Len(es) : es[i].host # "" => fpm_http_host_valid_name(es[i].host)
        /\ \A i, j \in 1..Len(es) : SameEntry(es[i], es[j]) => i = j

fpm_http_validate_upgrade_routes_AnyTarget(cf) ==
  \A u \in cf.http_route_upgrade : \E i \in 1..Len(EntriesIn(cf)) : EntriesIn(cf)[i].path = u

fpm_http_validate_upgrade_routes(cf) ==
  LET es == EntriesIn(cf)
  IN \A u \in cf.http_route_upgrade :
       /\ \E i \in 1..Len(es) : es[i].path = u
       /\ \A i \in 1..Len(es) :
            es[i].path = u => /\ fpm_http_route_target_pool(cf, es[i].key)
                              /\ cf.pools[es[i].key].serves_websocket

(* http.operator needs an ACL that names an address and a base to forward  *)
(* under, and no route at or under a base.                                 *)
ValidOperator(cf) ==
  LET es == EntriesIn(cf)
      base == [f \in Formats |-> fpm_http_operator_base(cf, f)]
  IN cf.proxy_only /\ cf.http_operator =>
       /\ cf.operator_acl
       /\ base["metrics"] # <<>> \/ base["status"] # <<>>
       /\ \A i \in 1..Len(es) : \A f \in Formats : ~UnderBase(base[f], es[i].path)

fpm_http_validate_pool(cf) ==
  /\ cf.proxy_only => cf.http_routes # <<>>
  /\ fpm_http_validate_routes(cf)
  /\ fpm_http_validate_upgrade_routes(cf)
  /\ ValidOperator(cf)

fpm_http_route_ranks_before_Longest(a, b) == Len(a.prefix) > Len(b.prefix)

fpm_http_route_ranks_before(a, b) ==
  IF (a.host = "") # (b.host = "") THEN a.host # "" ELSE Len(a.prefix) > Len(b.prefix)

(* The insertion sort: a row passes the rows it ranks before, from the end. *)
fpm_http_routes_sort(rows) ==
  FoldLeft(LAMBDA acc, row :
             LET stay == {j \in 1..Len(acc) : ~fpm_http_route_ranks_before(row, acc[j])}
                 at == IF stay = {} THEN 1 ELSE 1 + CHOOSE j \in stay : \A k \in stay : k <= j
             IN InsertAt(acc, at, row),
           <<>>, rows)

(* The pool's own row "/" comes first unless the pool proxies only or an   *)
(* entry bound to no host claims "/".                                      *)
OwnRow(cf) ==
  LET es == EntriesIn(cf)
  IN ~cf.proxy_only /\ \A i \in 1..Len(es) : ~(es[i].host = "" /\ es[i].path = Root)

(* The targets, one for each http.route[] key; a target's place is its row *)
(* of the counters.                                                        *)
TargetsOf(cf) ==
  (IF OwnRow(cf) THEN <<cf.name>> ELSE <<>>)
    \o [i \in 1..Len(cf.http_routes) |-> cf.http_routes[i].key]

TargetIndex_After(targets, pool) == 1 + CHOOSE i \in 1..Len(targets) : targets[i] = pool

TargetIndex(targets, pool) == CHOOSE i \in 1..Len(targets) : targets[i] = pool

fpm_http_routes_build(cf) ==
  LET es == EntriesIn(cf)
      targets == TargetsOf(cf)
      own == IF OwnRow(cf)
               THEN <<[host |-> "", prefix |-> Root, target |-> 1, upgrade |-> FALSE]>>
               ELSE <<>>
      rows == [i \in 1..Len(es) |->
                 [host    |-> fpm_http_host_dup_lower(es[i].host),
                  prefix  |-> es[i].path,
                  target  |-> TargetIndex(targets, es[i].key),
                  upgrade |-> es[i].path \in cf.http_route_upgrade]]
  IN fpm_http_routes_sort(own \o rows)

(* The exact-match operator map: the gateway's own page at the bare base,  *)
(* every other pool that exposes the format at base/pool.                  *)
fpm_http_operator_build(cf) ==
  LET page(p, f) == IF cf.pages[p][f] # <<>> /\ fpm_http_operator_base(cf, f) # <<>>
                      THEN {[path |-> IF p = cf.name THEN fpm_http_operator_base(cf, f)
                                      ELSE fpm_http_operator_base(cf, f) \o <<"/", p>>,
                             local |-> cf.pages[p][f], pool |-> p]}
                      ELSE {}
  IN IF ~cf.http_operator \/ ~cf.proxy_only THEN {}
     ELSE UNION {page(p, f) : p \in DOMAIN cf.pages, f \in Formats}

NSlots(t) == Len(t.targets) + 2

OperatorRow(t) == Len(t.targets) + 1

LocalRow(t) == Len(t.targets) + 2

NoTable(state) == [state |-> state, rows |-> <<>>, targets |-> <<>>, ops |-> {}]

NoCounters(n) == [total |-> 0, ping |-> 0, requests |-> [i \in 1..n |-> 0],
                  durations |-> [i \in 1..n |-> 0]]

fpm_http_init_pool ==
  /\ tab.state = "cold"
  /\ IF fpm_http_validate_pool(cfg)
       THEN /\ tab' = [state |-> "up", rows |-> fpm_http_routes_build(cfg),
                       targets |-> TargetsOf(cfg), ops |-> fpm_http_operator_build(cfg)]
            /\ seg' = NoCounters(NSlots(tab'))
            /\ gone' = [i \in 1..NSlots(tab') |-> 0]
       ELSE tab' = NoTable("refused") /\ UNCHANGED <<seg, gone>>
  /\ UNCHANGED <<cfg, gwp, conn, slots, ans>>

-----------------------------------------------------------------------------
(* One request *)

fpm_http_target_accepting(pool) == slots[pool] = "accepting"

AnyServing ==
  \E i \in 1..Len(tab.targets) :
    LET p == tab.targets[i] IN cfg.pools[p].ondemand \/ fpm_http_target_accepting(p)

fpm_http_ready_state_NoLatch ==
  IF gwp.stopping \/ gwp.soft_draining THEN "draining"
  ELSE IF ~AnyServing THEN "starting"
  ELSE "ready"

fpm_http_ready_state ==
  IF gwp.stopping \/ gwp.soft_draining THEN "draining"
  ELSE IF ~gwp.ready_seen /\ ~AnyServing THEN "starting"
  ELSE IF cfg.ready_require_target /\ ~AnyServing THEN "no live target"
  ELSE "ready"

(* The row that takes the request, 0 for none.                             *)
fpm_http_route(r) ==
  LET n == Len(tab.rows)
      default == IF cfg.proxy_only THEN 0 ELSE n
      host == fpm_http_host_of_request(r)
      hits == {i \in 1..n : /\ tab.rows[i].host \in {"", host}
                            /\ fpm_http_prefix_covers(tab.rows[i].prefix, r.path)}
  IN IF ~cfg.proxy_only /\ n < 2 THEN 1
     ELSE IF r.path = <<>> \/ hits = {} THEN default
     ELSE CHOOSE i \in hits : \A j \in hits : i <= j

Locally(by, code) ==
  [by |-> by, code |-> code, text |-> "", row |-> LocalRow(tab), upgrade |-> FALSE]

fpm_http_serve_ping == Locally("ping", 200)

fpm_http_serve_ready ==
  [Locally("ready", IF fpm_http_ready_state = "ready" THEN 200 ELSE 503)
     EXCEPT !.text = fpm_http_ready_state]

Forward(by, row, upgrade) ==
  [by |-> by, code |-> 0, text |-> "", row |-> row, upgrade |-> upgrade]

fpm_http_operator_request(r) ==
  LET hit == {o \in tab.ops : o.path = r.raw}
  IN IF ~r.operator_allowed THEN Locally("operator", 403)
     ELSE IF hit = {} THEN Locally("operator", 404)
     ELSE Forward("operator", OperatorRow(tab), FALSE)

InOperatorNamespace(r) ==
  /\ cfg.http_operator /\ cfg.proxy_only
  /\ \E f \in Formats : UnderBase(fpm_http_operator_base(cfg, f), r.raw)

fpm_http_serve_acme_challenge(r) ==
  Locally("acme", IF ~r.get THEN 405 ELSE IF r.token_known THEN 200 ELSE 404)

(* A path that does not decode is left to write_request().                 *)
AnswersLocally(r) ==
  r.path # <<>> /\ (IsPrefix(AcmePrefix, r.path) \/ (cfg.static_files /\ r.file))

fpm_http_try_local(r) ==
  IF IsPrefix(AcmePrefix, r.path) THEN fpm_http_serve_acme_challenge(r) ELSE Locally("static", 200)

Routed(r) ==
  LET i == fpm_http_route(r)
  IN IF i = 0 THEN Locally("no route", 404)
     ELSE Forward("route", tab.rows[i].target, tab.rows[i].upgrade)

(* The tests of fpm_http_request() in their order.                         *)
Verdict_RouteFirst(r) ==
  IF r.raw = cfg.ping_path THEN fpm_http_serve_ping
  ELSE IF r.raw = cfg.ready_path THEN fpm_http_serve_ready
  ELSE IF Routed(r).by = "route" THEN Routed(r)
  ELSE IF InOperatorNamespace(r) THEN fpm_http_operator_request(r)
  ELSE Routed(r)

Verdict(r) ==
  IF cfg.acl /\ ~r.allowed THEN Locally("acl", 403)
  ELSE IF r.over_client_cap THEN Locally("cap", 503)
  ELSE IF r.authority = "long" THEN Locally("authority", 400)
  ELSE IF r.raw = cfg.ping_path THEN fpm_http_serve_ping
  ELSE IF r.raw = cfg.ready_path THEN fpm_http_serve_ready
  ELSE IF InOperatorNamespace(r) THEN fpm_http_operator_request(r)
  ELSE IF AnswersLocally(r) THEN fpm_http_try_local(r)
  ELSE Routed(r)

(* The plain companion listener answers everything itself.                 *)
PlainVerdict(r) ==
  IF r.over_client_cap THEN Locally("cap", 503)
  ELSE IF r.path # <<>> /\ IsPrefix(AcmePrefix, r.path) THEN fpm_http_serve_acme_challenge(r)
  ELSE IF ~cfg.tls_ready THEN Locally("no certificate", 503)
  ELSE IF r.authority = "long" \/ (r.authority = "" /\ r.hosts = <<>>) THEN Locally("plain", 400)
  ELSE Locally("plain", 308)

NoRequest == [busy |-> FALSE, row |-> 0]

(* fpm_http_duration_observe(): one response, into the row of the request. *)
Observed(s, row) == [s EXCEPT !.durations[row] = @ + 1]

Counted(s, v) ==
  [s EXCEPT !.requests[v.row] = @ + 1, !.ping = IF v.by = "ping" THEN @ + 1 ELSE @]

(* A forwarded request is in flight unless write_request() refuses it,     *)
(* which it does when the path does not decode.                            *)
InFlight(r, v) == v.code = 0 /\ (v.by = "operator" \/ r.path # <<>>)

Taken(c, r, v) ==
  /\ conn' = [conn EXCEPT ![c] = IF InFlight(r, v) THEN [busy |-> TRUE, row |-> v.row] ELSE NoRequest]
  /\ seg' = LET s == Counted([seg EXCEPT !.total = @ + 1], v)
            IN IF InFlight(r, v) THEN s ELSE Observed(s, v.row)
  /\ gwp' = [gwp EXCEPT !.ready_seen = @ \/ v.text \in {"ready", "no live target"}]
  /\ ans' = [req |-> r, v |-> v, n |-> seg.total + 1]

(* fpm_http_request() and, on the companion listener,                      *)
(* fpm_http_plain_request().  Where http.proxy_protocol is set and the     *)
(* connection has no accepted PROXY header the request is counted in the   *)
(* total, and the connection is closed with no answer.                     *)
fpm_http_request(c, r) ==
  /\ tab.state = "up" /\ ~conn[c].busy /\ seg.total < MaxRequests
  /\ IF r.plain THEN Taken(c, r, PlainVerdict(r))
     ELSE IF cfg.proxy_protocol /\ ~r.proxy_accepted
       THEN /\ seg' = [seg EXCEPT !.total = @ + 1]
            /\ ans' = [req |-> r, v |-> Forward("refused", 0, FALSE),
                       n |-> seg.total + 1]
            /\ UNCHANGED <<conn, gwp>>
     ELSE Taken(c, r, Verdict(r))
  /\ UNCHANGED <<cfg, tab, slots, gone>>

(* The response of a forwarded request ends: fpm_http_log_response().      *)
ResponseEnds_Local(c) ==
  /\ conn[c].busy
  /\ seg' = Observed(seg, LocalRow(tab))
  /\ conn' = [conn EXCEPT ![c] = NoRequest]
  /\ UNCHANGED <<cfg, tab, gwp, slots, ans, gone>>

ResponseEnds(c) ==
  /\ conn[c].busy
  /\ seg' = Observed(seg, conn[c].row)
  /\ conn' = [conn EXCEPT ![c] = NoRequest]
  /\ UNCHANGED <<cfg, tab, gwp, slots, ans, gone>>

(* fpm_http_client_closed(): the request in flight ends with no response.  *)
ClientCloses(c) ==
  /\ conn[c].busy
  /\ gone' = [gone EXCEPT ![conn[c].row] = @ + 1]
  /\ conn' = [conn EXCEPT ![c] = NoRequest]
  /\ UNCHANGED <<cfg, tab, gwp, seg, slots, ans>>

-----------------------------------------------------------------------------
(* The surroundings *)

(* The process is killed and forked again: it loses its connections and    *)
(* its latch; the segment keeps its counts.                                *)
Respawned ==
  /\ tab.state = "up" /\ ~gwp.soft_draining
  /\ gwp.ready_seen \/ \E c \in RtConns : conn[c].busy
  /\ gone' = [i \in DOMAIN gone |->
                gone[i] + Cardinality({c \in RtConns : conn[c].busy /\ conn[c].row = i})]
  /\ conn' = [c \in RtConns |-> NoRequest]
  /\ gwp' = [gwp EXCEPT !.ready_seen = FALSE]
  /\ ans' = [ans EXCEPT !.v = Forward("none", 0, FALSE)]
  /\ UNCHANGED <<cfg, tab, seg, slots>>

(* fpm_http_drain_soft_start(), then the hard drain.                       *)
DrainStarts ==
  /\ tab.state = "up" /\ ~gwp.stopping
  /\ gwp' = IF gwp.soft_draining THEN [gwp EXCEPT !.stopping = TRUE]
            ELSE [gwp EXCEPT !.soft_draining = TRUE]
  /\ UNCHANGED <<cfg, tab, seg, conn, slots, ans, gone>>

(* A child of a target pool is forked, reaches its accept loop, or dies.   *)
ChildMoves(p) ==
  /\ tab.state = "up"
  /\ \E s \in {"free", "creating", "accepting"} :
       /\ s # slots[p]
       /\ slots[p] = "free" => s = "creating"
       /\ slots[p] = "accepting" => s = "free"
       /\ slots' = [slots EXCEPT ![p] = s]
  /\ UNCHANGED <<cfg, tab, gwp, seg, conn, ans, gone>>

NoAnswer == [req |-> [raw |-> <<>>], v |-> Forward("none", 0, FALSE), n |-> 0]

RtInit ==
  /\ cfg \in RtConfs
  /\ tab = NoTable("cold")
  /\ gwp = [ready_seen |-> FALSE, soft_draining |-> FALSE, stopping |-> FALSE]
  /\ seg = NoCounters(0)
  /\ conn = [c \in RtConns |-> NoRequest]
  /\ slots = [p \in DOMAIN cfg.pools |-> "free"]
  /\ ans = NoAnswer
  /\ gone = <<>>

RtNext ==
  \/ fpm_http_init_pool
  \/ \E c \in RtConns : \E r \in cfg.requests : fpm_http_request(c, r)
  \/ \E c \in RtConns : ResponseEnds(c) \/ ClientCloses(c)
  \/ Respawned
  \/ DrainStarts
  \/ \E p \in cfg.moving : ChildMoves(p)

RtSpec == RtInit /\ [][RtNext]_rtvars

-----------------------------------------------------------------------------
(* Properties *)

RtSum(f) == FoldLeft(LAMBDA a, b : a + b, 0, f)

(* Types; the rows of the counters segment are the targets', the           *)
(* operator's and the local one, and a request in flight belongs to one of *)
(* the first two kinds (fpm_http_counters_alloc, fpm_http_target_init).    *)
RtTypeOK ==
  /\ tab.state \in {"cold", "refused", "up"}
  /\ gwp.stopping => gwp.soft_draining
  /\ tab.state = "up" =>
       /\ Len(seg.requests) = NSlots(tab) /\ Len(seg.durations) = NSlots(tab)
       /\ \A i \in 1..Len(tab.rows) : tab.rows[i].target \in 1..Len(tab.targets)
       /\ \A i, j \in 1..Len(tab.targets) : tab.targets[i] = tab.targets[j] => i = j
       /\ \A c \in RtConns : conn[c].busy => conn[c].row \in 1..OperatorRow(tab)

(* The entries of the configuration, the pool's own "/" included, that     *)
(* cover a request; and the one that must get it: bound to the request's   *)
(* host before unbound, then the longest prefix.                           *)
Covering(r) ==
  LET es == EntriesIn(cfg)
      own == IF OwnRow(cfg) THEN {[key |-> cfg.name, host |-> "", path |-> Root]} ELSE {}
      segments(p, q) == \/ p = q
                        \/ IsPrefix(p, q) /\ (p[Len(p)] = "/" \/ q[Len(p) + 1] = "/")
  IN {e \in own \cup {es[i] : i \in 1..Len(es)} :
        /\ e.host # "" => fpm_http_host_dup_lower(e.host) = fpm_http_host_of_request(r)
        /\ segments(e.path, r.path)}

BestFor(r, e) ==
  /\ e \in Covering(r)
  /\ \A f \in Covering(r) : \/ f = e
                            \/ e.host # "" /\ f.host = ""
                            \/ (e.host = "") = (f.host = "") /\ Len(e.path) > Len(f.path)

(* A request that is routed goes to the pool of the best entry of          *)
(* http.route[] for its decoded path and host, and a request answered      *)
(* "no route" is covered by no entry (fpm_http_routes_sort with            *)
(* fpm_http_route: the first row of the sorted table that covers it).      *)
RouteIsBest ==
  [][ ans'.n # ans.n /\ ans'.req.path # <<>> =>
        /\ ans'.v.by = "route" =>
             \E e \in Covering(ans'.req) : BestFor(ans'.req, e) /\ tab.targets[ans'.v.row] = e.key
        /\ ans'.v.by = "no route" => Covering(ans'.req) = {} ]_rtvars

(* Every entry a table is built with gets the requests for its own host    *)
(* and path, once the probes and ACME have had theirs: what would be       *)
(* shadowed is refused at -t (fpm_http_validate_routes, and the operator   *)
(* namespace in fpm_http_validate_pool).                                   *)
EntryReachable ==
  tab.state = "up" =>
    \A i \in 1..Len(EntriesIn(cfg)) :
      LET e == EntriesIn(cfg)[i]
          r == [raw |-> e.path, path |-> e.path, authority |-> "", file |-> FALSE,
                hosts |-> IF e.host = "" THEN <<>> ELSE <<e.host>>, allowed |-> TRUE,
                operator_allowed |-> TRUE, over_client_cap |-> FALSE, get |-> TRUE, token_known |-> FALSE]
      IN e.path \notin {cfg.ping_path, cfg.ready_path} /\ ~IsPrefix(AcmePrefix, e.path) =>
           Verdict(r).by = "route" /\ tab.targets[Verdict(r).row] = e.key

(* The last row of a table that is not proxy-only is "/" for every host:   *)
(* it takes a path that does not decode (fpm_http_route: "takes the "/"    *)
(* row").                                                                  *)
FallbackIsRoot ==
  tab.state = "up" /\ ~cfg.proxy_only =>
    tab.rows[Len(tab.rows)].host = "" /\ tab.rows[Len(tab.rows)].prefix = Root

(* A probe, an operator page and an ACME challenge never reach a routed    *)
(* target, whatever route covers their path; and to a peer outside         *)
(* http.operator_allowed_clients a page that exists and one that does not  *)
(* look the same (fpm_http_request, fpm_http_operator_request).            *)
NamespacesLocal ==
  [][ ans'.n # ans.n /\ ans'.v.by # "refused" /\ ~ans'.req.plain =>
        LET r == ans'.req
        IN /\ (\/ r.raw \in {cfg.ping_path, cfg.ready_path}
               \/ InOperatorNamespace(r)
               \/ IsPrefix(AcmePrefix, r.path)) => ans'.v.row \notin 1..Len(tab.targets)
           /\ InOperatorNamespace(r) /\ ~r.operator_allowed => ans'.v.code # 0 /\ ans'.v.code # 404
     ]_rtvars

(* A WebSocket Upgrade passes through only to a pool that serves it        *)
(* (fpm_http_validate_upgrade_routes with fpm_http_routes_build).          *)
UpgradeServed ==
  tab.state = "up" =>
    \A i \in 1..Len(tab.rows) :
      tab.rows[i].upgrade => cfg.pools[tab.targets[tab.rows[i].target]].serves_websocket

(* The probe: "draining" from the first moment of a drain and for good;    *)
(* the first "ready" of a process when a target can serve; and no          *)
(* "starting" once the process has said "ready" (fpm_http_ready_state).    *)
ReadyTrue ==
  [][ ans'.n # ans.n /\ ans'.v.by = "ready" =>
        /\ (ans'.v.text = "draining") = (gwp.soft_draining \/ gwp.stopping)
        /\ ans'.v.text = "ready" /\ ~AnyServing => ~cfg.ready_require_target /\ gwp.ready_seen
        /\ ans'.v.text = "starting" => ~gwp.ready_seen
     ]_rtvars

(* Every request is counted once, in the row of what became of it: the     *)
(* rows add up to the total less the requests refused with no answer, and  *)
(* each row's durations are its requests that were answered                *)
(* (fpm_http_count_local, fpm_http_duration_observe: "requests_total and   *)
(* _count agree whichever path answered it").                              *)
RowsAddUp ==
  tab.state = "up" =>
    /\ ~cfg.proxy_protocol => seg.total = RtSum(seg.requests)
    /\ \A i \in 1..NSlots(tab) :
         seg.requests[i] = seg.durations[i] + gone[i]
                             + Cardinality({c \in RtConns : conn[c].busy /\ conn[c].row = i})

(* docs/gateway.md: the baseline "always equals the sum of the target      *)
(* rows".                                                                  *)
BaselineIsSum ==
  tab.state = "up" => seg.total = RtSum(seg.requests)

\* The routing as a whole (fpm_http_route.c, fpm_http.c): a request goes to the
\* best of the configured routes, every route can be reached, what the gateway
\* answers itself is never forwarded, and each request is counted once.
RouteSound ==
  /\ [](RtTypeOK /\ EntryReachable /\ FallbackIsRoot /\ UpgradeServed /\ RowsAddUp)
  /\ RouteIsBest /\ NamespacesLocal /\ ReadyTrue
=============================================================================
