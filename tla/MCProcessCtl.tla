---------------------------- MODULE MCProcessCtl ----------------------------
(***************************************************************************)
(* Instances of ProcessCtl for TLC: an ondemand pool "app" that a gateway  *)
(* with http.ready_path routes to, and a pool "sup" of a type that serves  *)
(* no requests and spares one child on a reload.                           *)
(***************************************************************************)
EXTENDS ProcessCtl

CONSTANTS c1, c2, g1, g2, app, sup
=============================================================================
