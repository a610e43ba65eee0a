------------------------------ MODULE MCDirect ------------------------------
(* Two connections of one client: a child that holds one connection at a   *)
(* time, and one that serves each client on one connection.                *)
EXTENDS DirectChild, TLC

CONSTANTS a, b, x

OneClient == [k \in Conns |-> x]
UnitsOf == (a :> 4) @@ (b :> 2)

Limited(max, per_client) ==
  [read |-> TRUE, track |-> TRUE, max |-> max, per_client |-> per_client]

TotalOrClient == {Limited(1, 0), Limited(2, 1)}
=============================================================================
