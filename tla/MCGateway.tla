----------------------------- MODULE MCGateway -----------------------------
(* Two gateway processes over one slot, with two clients and one; and a     *)
(* process with two connections to its target.                              *)
EXTENDS GatewayUpstream, TLC

CONSTANTS p1, p2, c1, c2

Pool(policy, transport, max, idle, clients) ==
  [policy |-> policy, transport |-> transport, max |-> max, queue |-> 2, idle |-> idle,
   clients |-> clients]

TwoAndOne == (p1 :> {c1, c2}) @@ (p2 :> {c1})
TwoAndNone == (p1 :> {c1, c2}) @@ (p2 :> {})

Pools == {Pool("wait", "fcgi", 1, FALSE, TwoAndOne), Pool("reject", "http", 1, TRUE, TwoAndOne),
          Pool("wait", "http", 2, FALSE, TwoAndNone)}

Waits == {Pool("wait", "fcgi", 1, FALSE, TwoAndOne)}
=============================================================================
