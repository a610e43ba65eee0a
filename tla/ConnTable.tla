----------------------------- MODULE ConnTable -----------------------------
(***************************************************************************)
(* The table of accepted connections of one process                        *)
(* (fpm_http_direct_conn.c): the nodes that give every request its         *)
(* deadline, count the connections against http.max_connections and judge  *)
(* them against http.max_connections_per_client.  One operator per C       *)
(* function, from a table to the next one.                                 *)
(*                                                                         *)
(* A node holds a reference to its bufferevent, so it outlives the         *)
(* connection: evhttp lets go of a connection by clearing its callbacks,   *)
(* and a sweep, a watcher or the deadline lets go of the node.  gone is    *)
(* the set of connections evhttp has let go of.  The hash index is the     *)
(* list seen by key, so find is membership of the list.                    *)
(***************************************************************************)
EXTENDS Integers, FiniteSets, Sequences, Functions

CONSTANTS Conns,      \* the accepted connections
          Client,     \* the peer address of each
          SweepMax    \* FPM_DIRECT_SWEEP_MAX

ASSUME ConnTableAssumption == SweepMax \in Nat \ {0}

(* read: read_timeout_ms > 0.  track: track_live.  max, per_client: the    *)
(* two http.max_connections directives, 0 for no limit; a per-client limit *)
(* needs a total one.                                                      *)
Limits == {l \in [read : BOOLEAN, track : BOOLEAN, max : Nat, per_client : Nat] :
             l.per_client > 0 => l.max >= l.per_client}

(* fd: resolved, so the peer is known.  armed: the deadline is pending.    *)
(* watch: what the watch event is armed for.                               *)
Node == [fd : BOOLEAN, armed : BOOLEAN,
         watch : {"pickup", "eof", "byte", "off"},
         checked : BOOLEAN, served : BOOLEAN, over : BOOLEAN]

FreshNode == [fd |-> FALSE, armed |-> FALSE, watch |-> "pickup",
              checked |-> FALSE, served |-> FALSE, over |-> FALSE]

\* list is headed by the connection touched last; live is its length.
Table == [list : Seq(Conns), node : [Conns -> Node], limits : Limits]

fpm_http_direct_conns_new(limits) ==
  [list |-> <<>>, node |-> [c \in Conns |-> FreshNode], limits |-> limits]

Tracked(t) == Range(t.list)

\* F(v), with v computed once.
With(v, F(_)) == CHOOSE r \in {F(x) : x \in {v}} : TRUE

fpm_direct_conn_limited(t) == t.limits.max > 0 \/ t.limits.per_client > 0

\* The list s without cs, in order.
Without(s, cs) ==
  LET Kept[i \in 0 .. Len(s)] ==
        IF i = 0 THEN <<>>
        ELSE IF s[i] \in cs THEN Kept[i - 1] ELSE Append(Kept[i - 1], s[i])
  IN Kept[Len(s)]

\* The table without the nodes of cs, which are freed.
Unlink(t, cs) ==
  [t EXCEPT !.list = Without(t.list, cs),
            !.node = [c \in Conns |-> IF c \in Tracked(t) \ cs THEN t.node[c]
                                                              ELSE FreshNode]]

fpm_direct_conn_forget(t, c) == Unlink(t, {c})

\* Mutant: only a connection that made a request is ever released.
fpm_direct_conn_released_ServedOnly(t, gone, c) == t.node[c].served /\ c \in gone

fpm_direct_conn_released(t, gone, c) ==
  (t.node[c].served \/ t.node[c].fd) /\ c \in gone

fpm_direct_conn_sweep_all(t, gone) ==
  Unlink(t, {c \in Tracked(t) : fpm_direct_conn_released(t, gone, c)})

\* A bounded turn of the list from its tail; what survives goes to the head.
fpm_http_direct_conns_sweep(t, gone) ==
  LET n      == Len(t.list)
      budget == IF n < SweepMax THEN n ELSE SweepMax
      turned == SubSeq(t.list, n - budget + 1, n)
  IN Unlink([t EXCEPT !.list = turned \o SubSeq(t.list, 1, n - budget)],
            {c \in Range(turned) : fpm_direct_conn_released(t, gone, c)})

fpm_http_direct_conns_live(t) == Len(t.list)

\* Mutant: the gate counts the nodes, also of connections that have ended.
fpm_http_direct_conns_may_accept_NoSweep(t, gone) ==
  [t |-> t, ok |-> t.limits.max = 0 \/ fpm_http_direct_conns_live(t) < t.limits.max]

fpm_http_direct_conns_may_accept(t, gone) ==
  LET swept == fpm_direct_conn_sweep_all(t, gone)
  IN IF t.limits.max = 0 \/ fpm_http_direct_conns_live(t) < t.limits.max
     THEN [t |-> t, ok |-> TRUE]
     ELSE [t |-> swept, ok |-> fpm_http_direct_conns_live(swept) < t.limits.max]

\* A node is made only for a table that has a use for it.
fpm_http_direct_conns_accepted(t, gone, c) ==
  LET swept == fpm_http_direct_conns_sweep(t, gone)
  IN IF ~t.limits.read /\ ~fpm_direct_conn_limited(t) THEN t
     ELSE [swept EXCEPT !.list = <<c>> \o @, !.node[c].armed = t.limits.read]

fpm_direct_conn_resolve(t, cs) ==
  [t EXCEPT !.node = [c \in Conns |-> IF c \in cs THEN [t.node[c] EXCEPT !.fd = TRUE]
                                                  ELSE t.node[c]]]

\* Mutant: a connection between its requests is not counted.
fpm_direct_conn_peer_count_Unserved(t, c) ==
  Cardinality({d \in Tracked(t) \ {c} : ~t.node[d].served /\ Client[d] = Client[c]})

\* The other connections of c's client, the refused ones left out.
fpm_direct_conn_peer_count(t, c) ==
  Cardinality({d \in Tracked(t) \ {c} : ~t.node[d].over /\ Client[d] = Client[c]})

\* Judges a connection once.  The caller that drops keeps the node, marked.
fpm_direct_conn_check_peer(t, gone, c, drop) ==
  LET Checked(t1) == fpm_direct_conn_resolve([t1 EXCEPT !.node[c].checked = TRUE],
                                             Tracked(t1) \ {c})
      Verdict(t1) == IF fpm_direct_conn_peer_count(t1, c) < t1.limits.per_client
                     THEN [t |-> t1, over |-> FALSE]
                     ELSE IF drop
                     THEN [t |-> [t1 EXCEPT !.node[c].over = TRUE], over |-> TRUE]
                     ELSE [t |-> fpm_direct_conn_forget(t1, c), over |-> TRUE]
  IN IF t.node[c].checked \/ t.limits.per_client = 0
     THEN [t |-> t, over |-> FALSE]
     ELSE With(With(fpm_direct_conn_sweep_all(t, gone), Checked), Verdict)

\* The zero timer of accept: evhttp has given the bufferevent its fd by now.
fpm_direct_conn_pickup(t, gone, c) ==
  LET Watch(j) == [j EXCEPT !.t.node[c].watch = IF j.over THEN "off" ELSE "eof"]
  IN With(fpm_direct_conn_check_peer(fpm_direct_conn_resolve(t, {c}), gone, c, TRUE), Watch)

\* The request callback: over is the refusal, and the table that follows it.
fpm_http_direct_conns_request(t, gone, c) ==
  LET judged == fpm_direct_conn_check_peer(fpm_direct_conn_resolve(t, {c}), gone, c, FALSE)
      t1     == [judged.t EXCEPT !.node[c].armed = FALSE]
  IN IF c \notin Tracked(t) THEN [t |-> t, over |-> FALSE]
     ELSE IF t.node[c].over
     THEN [t |-> fpm_direct_conn_forget(t, c), over |-> TRUE]
     ELSE IF judged.over THEN judged
     ELSE IF ~t.limits.track /\ ~fpm_direct_conn_limited(t)
     THEN [t |-> fpm_direct_conn_forget(t1, c), over |-> FALSE]
     ELSE [t |-> [t1 EXCEPT !.list = <<c>> \o Without(@, {c}),
                            !.node[c].watch = "off", !.node[c].served = TRUE],
           over |-> FALSE]

fpm_direct_conn_arm_deadline(t, c) == [t EXCEPT !.node[c].armed = TRUE]

\* Mutant: nobody watches an idle connection for its next request.
fpm_http_direct_conns_response_done_NoWatch(t, c, buffered) ==
  IF t.limits.read /\ c \in Tracked(t) /\ t.node[c].served /\ buffered
  THEN fpm_direct_conn_arm_deadline(t, c) ELSE t

\* buffered: evhttp has bytes of the next request in its input already.
fpm_http_direct_conns_response_done(t, c, buffered) ==
  IF ~t.limits.read \/ c \notin Tracked(t) \/ ~t.node[c].served THEN t
  ELSE IF buffered THEN fpm_direct_conn_arm_deadline(t, c)
  ELSE [t EXCEPT !.node[c].watch = "byte"]

\* The one-shot watcher finds a byte, or the end of the connection.
fpm_direct_conn_first_byte(t, gone, c, n) ==
  IF c \in gone \/ n = 0 THEN fpm_direct_conn_forget(t, c)
  ELSE fpm_direct_conn_arm_deadline([t EXCEPT !.node[c].watch = "off"], c)
=============================================================================
