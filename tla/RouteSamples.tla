----------------------------- MODULE RouteSamples -----------------------------
(***************************************************************************)
(* Instances of GatewayRoute: an own-pool table with host rows, a gateway  *)
(* with the operator namespace, the probes with two targets, the plain     *)
(* companion, the PROXY protocol, and tables that must be refused.         *)
(***************************************************************************)
EXTENDS GatewayRoute, TLC

Pool(speaks, ws, ondemand) ==
  [speaks |-> speaks, tls |-> FALSE, loopback |-> TRUE, serves_websocket |-> ws, ondemand |-> ondemand]

Fast == Pool("fastcgi", FALSE, FALSE)

Direct == Pool("http11", TRUE, FALSE)

Entry(host, path) == [host |-> host, path |-> path]

Off == [path |-> <<>>, path_set |-> TRUE, flag |-> "unset"]

Unset == [path |-> <<>>, path_set |-> FALSE, flag |-> "unset"]

Req(path) ==
  [raw |-> path, path |-> path, hosts |-> <<>>, authority |-> "", allowed |-> TRUE,
   operator_allowed |-> TRUE, over_client_cap |-> FALSE, get |-> TRUE, token_known |-> FALSE,
   file |-> FALSE, plain |-> FALSE, proxy_accepted |-> TRUE]

AtHost(path, host) == [Req(path) EXCEPT !.hosts = <<host>>]

Pa == <<"/", "a">>
Pab == <<"/", "a", "b">>
Pasb == <<"/", "a", "/", "b">>
Pm == <<"/", "m">>
Pmp == <<"/", "m", "/", "p">>
Pmq == <<"/", "m", "/", "q">>
Pw == <<"/", "w", "/", "t">>
Pr == <<"/", "r">>
Pi == <<"/", "i">>

Base ==
  [name |-> "g", proxy_only |-> FALSE, http_routes |-> <<>>, http_route_upgrade |-> {},
   pools |-> ("g" :> Fast @@ "p" :> Fast @@ "q" :> Direct),
   http_operator |-> FALSE, operator_acl |-> FALSE,
   operator |-> ("metrics" :> Unset @@ "status" :> Unset),
   pages |-> [x \in {"g", "p"} |-> [f \in {"metrics", "status"} |-> <<"/", "x">>]],
   acl |-> FALSE, static_files |-> FALSE, ping_path |-> Pi, ready_path |-> Pr,
   ready_require_target |-> FALSE, proxy_protocol |-> FALSE, tls_ready |-> TRUE,
   moving |-> {}, requests |-> {}]

Key(k, v) == [key |-> k, value |-> v]

(* An own-pool table: host rows of two pools over unbound rows.            *)
Hosted ==
  [Base EXCEPT
     !.http_routes = <<Key("p", <<Entry("", Pa), Entry("A", Root)>>),
                       Key("q", <<Entry("a", Pa), Entry("b", Pasb)>>)>>,
     !.http_route_upgrade = {Pasb},
     !.requests = {Req(Pa), Req(Pab), AtHost(Pab, "a"), AtHost(Pa, "A"), AtHost(Pasb, "b"), AtHost(Pasb, "bad"),
                   [AtHost(Pa, "b") EXCEPT !.hosts = <<"a", "b">>],
                   [AtHost(Pa, "b") EXCEPT !.authority = "a"],
                   [Req(<<>>) EXCEPT !.raw = <<"/", "z">>]}]

(* A gateway: no own row, the operator namespace, a route under "/" and    *)
(* one whose name only begins like a base.                                 *)
Operator ==
  [Base EXCEPT
     !.proxy_only = TRUE, !.http_operator = TRUE, !.operator_acl = TRUE,
     !.operator = ("metrics" :> Unset @@ "status" :> Off), !.acl = TRUE, !.static_files = TRUE,
     !.http_routes = <<Key("p", <<Entry("", Root), Entry("", <<"/", "m", "x">>)>>)>>,
     !.ping_path = Pmq,
     !.requests = {Req(Pm), Req(Pmp), Req(Pmq), Req(<<"/", "m", "x">>), Req(<<"/", "m", "/", "z">>),
                   [Req(Pm) EXCEPT !.raw = <<"/", "%m">>],
                   [Req(Pmp) EXCEPT !.operator_allowed = FALSE],
                   [Req(Pa) EXCEPT !.file = TRUE], [Req(Pmq) EXCEPT !.file = TRUE],
                   [Req(Pa) EXCEPT !.allowed = FALSE, !.over_client_cap = TRUE],
                   Req(Pw), [Req(Pw) EXCEPT !.get = FALSE, !.token_known = TRUE]}]

(* A gateway with no row for "/".                                          *)
NoRoot ==
  [Base EXCEPT !.proxy_only = TRUE, !.http_routes = <<Key("q", <<Entry("", Pa), Entry("b", Pa)>>)>>,
     !.http_route_upgrade = {Pa},
     !.requests = {Req(Pa), Req(Pab), Req(Pw), [Req(<<>>) EXCEPT !.raw = Pa],
                   [AtHost(Pa, "b") EXCEPT !.authority = "long"],
                   [AtHost(Pa, "b") EXCEPT !.over_client_cap = TRUE], [Req(Pw) EXCEPT !.token_known = TRUE]}]

Probed(require, ondemand) ==
  [Base EXCEPT !.http_routes = <<Key("p", <<Entry("", Root)>>), Key("q", <<Entry("", Pa)>>)>>,
     !.pools["q"].ondemand = ondemand, !.ready_require_target = require, !.moving = {"p", "q"},
     !.requests = {Req(Pr), Req(Pa)}]

Plain ==
  [Base EXCEPT !.tls_ready = FALSE,
     !.requests = {[Req(Pw) EXCEPT !.plain = TRUE], [Req(Pa) EXCEPT !.plain = TRUE],
                   [Req(Pa) EXCEPT !.plain = TRUE, !.over_client_cap = TRUE], Req(Pa)}]

Redirecting ==
  [Base EXCEPT !.requests = {[AtHost(Pa, "a") EXCEPT !.plain = TRUE], [Req(Pa) EXCEPT !.plain = TRUE]}]

Proxied ==
  [Base EXCEPT !.proxy_protocol = TRUE,
     !.requests = {Req(Pa), [Req(Pa) EXCEPT !.proxy_accepted = FALSE], Req(Pi)}]

Refused ==
  {[Hosted EXCEPT !.http_routes[2].value[1] = Entry("a", Root)],
   [Hosted EXCEPT !.http_routes[2].key = "p"],
   [Hosted EXCEPT !.http_routes[2].key = "nobody"],
   [Hosted EXCEPT !.http_routes[1].value[2] = Entry("bad", Root)],
   [Hosted EXCEPT !.http_route_upgrade = {Pa}],
   [Hosted EXCEPT !.http_route_upgrade = {Pm}],
   [Hosted EXCEPT !.pools["q"].loopback = FALSE],
   [Operator EXCEPT !.http_routes = <<Key("p", <<Entry("b", Pmp)>>)>>],
   [Operator EXCEPT !.operator_acl = FALSE],
   [Operator EXCEPT !.http_routes = <<>>]}

RtSamples ==
  {Base, Hosted, Operator, NoRoot, Probed(TRUE, FALSE), Probed(FALSE, FALSE), Probed(FALSE, TRUE),
   Plain, Redirecting, Proxied} \cup Refused

MCRtConfs == RtSamples

MCProxied == {Proxied}
==============================================================================
