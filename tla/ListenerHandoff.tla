-------------------------- MODULE ListenerHandoff --------------------------
(***************************************************************************)
(* The listening sockets of the gateways across the execvp() of a reload   *)
(* (fpm_http_handoff.c, fpm_http_listen): the old master exports them, the *)
(* next one takes over those it still wants, closes the rest and binds     *)
(* what is missing.  A master that cannot bind does not start.             *)
(***************************************************************************)
EXTENDS Naturals, FiniteSets, Sequences

CONSTANTS GatewayPools,  \* a sequence: the pools in the order they are set up
          Confs,     \* configurations: [pool, gw |-> [GatewayPools -> setup]]
          Fds        \* descriptor numbers

VARIABLES phase,   \* "run", "exec", "begin", "bind", "finish", "dead"
          setup,   \* the configuration of this generation
          was,     \* ... of the generation before it
          at,      \* the next gateway to set up
          fd,      \* the descriptor table
          handed,  \* the records taken from the environment, or to be put there
          own,     \* the listeners of each gateway: public and plain
          oom      \* what failed on the way: "no", "all" records, or "one"

handvars == <<phase, setup, was, at, fd, handed, own, oom>>

NoListener == "none"
NoFd == 0  \* the code's -1
Which == {"public", "plain"}
GW == {GatewayPools[i] : i \in DOMAIN GatewayPools}
Shut == [open |-> FALSE, addr |-> NoListener, listens |-> FALSE, cloexec |-> TRUE, old |-> FALSE]

bind(cf, g, w) == IF w = "public" THEN cf.gw[g].listen ELSE cf.gw[g].plain
\* tls_wait_for_cert holds back the listen() of the public listener only.
do_listen(cf, g, w) == w = "plain" \/ ~cf.gw[g].wait
\* fpm_http_handoff_tls_fp(): the fingerprint covers http.tls_wait_for_cert.
tls_fp(cf, g) == <<cf.gw[g].tls, cf.gw[g].wait>>

\* fpm_http_listen() and the kernel: SO_REUSEADDR lets a bind pass unless
\* somebody listens on the address.
Bindable(t, a, reuse) == \A f \in Fds : t[f].open /\ t[f].addr = a => ~t[f].listens \/ reuse
NewFd(t) == CHOOSE f \in Fds : ~t[f].open
fpm_http_listen(a, listens) == [open |-> TRUE, addr |-> a, listens |-> listens, cloexec |-> TRUE, old |-> FALSE]

-----------------------------------------------------------------------------
(* The old master.                                                         *)

\* export_key() as a mutant: a listener that does not exist passes.
export_key_Unbound(g, w) == ~setup.gw[g].reuse /\ (own[g][w] # NoFd => fd[own[g][w]].listens)

\* export_key(): a listening socket of a gateway without http.reuseport.
export_key(g, w) == own[g][w] # NoFd /\ ~setup.gw[g].reuse /\ fd[own[g][w]].listens

Record(g, w) == [fd |-> own[g][w], key |-> bind(setup, g, w), tls |-> tls_fp(setup, g)]

\* fpm_http_handoff_export() as a mutant: the sockets stay FD_CLOEXEC.
Marked_None == {}

\* The descriptors pass two takes out of FD_CLOEXEC, by the test of pass one:
\* also one whose record could not be appended.
Marked == {own[p[1]][p[2]] : p \in {q \in GW \X Which : export_key(q[1], q[2])}}

\* fpm_http_handoff_export(), then execvp(): pass one writes the records, an
\* allocation or the setenv() may fail; pass two makes the sockets inheritable;
\* the exec closes what is FD_CLOEXEC.  The old master's configuration goes.
fpm_http_handoff_export(next, failed) ==
  /\ phase = "run" /\ oom # "one"
  /\ LET all == {p \in GW \X Which : export_key(p[1], p[2])}
         listed == CASE failed = "no" -> all [] failed = "one" -> {p \in all : p[2] = "public"} [] OTHER -> {}
         keep == IF listed # {} THEN Marked ELSE {}
     IN  /\ handed' = {Record(p[1], p[2]) : p \in listed}
         /\ fd' = [f \in Fds |-> IF f \in keep THEN [fd[f] EXCEPT !.cloexec = FALSE, !.old = TRUE] ELSE Shut]
         /\ oom' = IF listed = all THEN "no" ELSE failed
  /\ phase' = "begin" /\ was' = setup /\ setup' = next /\ at' = 1
  /\ own' = [g \in GW |-> [w \in Which |-> NoFd]]

-----------------------------------------------------------------------------
(* The next master.                                                        *)

\* handed_is_configured()
handed_is_configured(key) == \E g \in GW, w \in Which : bind(setup, g, w) = key


Wanted(h) == handed_is_configured(h.key)

\* fpm_http_handoff_begin(): records of listening sockets bound to their
\* address; those no gateway binds are closed before any pool binds.  Then the
\* other pools bind theirs (fpm_sockets_init_main()).
fpm_http_handoff_begin ==
  /\ phase = "begin"
  /\ LET taken == {h \in handed : fd[h.fd].open /\ fd[h.fd].listens /\ fd[h.fd].addr = h.key}
         left == [f \in Fds |-> IF \E h \in taken : h.fd = f /\ ~Wanted(h) THEN Shut ELSE fd[f]]
         ok == setup.pool = NoListener \/ Bindable(left, setup.pool, FALSE)
     IN  /\ handed' = {h \in taken : Wanted(h)}
         /\ fd' = left
         /\ phase' = IF ok THEN "bind" ELSE "dead"
  /\ UNCHANGED <<setup, was, at, own, oom>>

\* fpm_http_handoff_listen() as a mutant: any setup of TLS will do.
Fits_AnyTls(h, g, w) == ~setup.gw[g].reuse /\ do_listen(setup, g, w)

\* The socket can be taken over as it is.
Fits(h, g, w) == ~setup.gw[g].reuse /\ do_listen(setup, g, w) /\ h.tls = tls_fp(setup, g)

\* The records of the address are spent: one is adopted, the others closed.
Spent(t, same, got) ==
  [f \in Fds |-> IF f = got THEN [t[f] EXCEPT !.cloexec = TRUE]
                 ELSE IF \E h \in same : h.fd = f THEN Shut ELSE t[f]]

\* fpm_http_handoff_listen() as a mutant: the record of an adopted socket stays.
Left_Kept(s, same, got) == {h \in s.handed : h \notin same \/ h.fd = got}

Left(s, same, got) == s.handed \ same

\* fpm_http_handoff_listen(): the public or the plain listener of gateway g,
\* with s the descriptors, the records left, its listeners and the result.
fpm_http_handoff_listen(g, w, s) ==
  LET a == bind(setup, g, w)
      same == {h \in s.handed : h.key = a}
      fits == {h \in same : Fits(h, g, w)}
      got == IF fits = {} THEN NoFd ELSE (CHOOSE h \in fits : TRUE).fd
      t == Spent(s.fd, same, got)
      r == [s EXCEPT !.fd = t, !.handed = Left(s, same, got)]
  IN  IF a = NoListener \/ ~s.ok THEN s
      ELSE IF got # NoFd THEN [r EXCEPT !.own[w] = got]
      ELSE IF Bindable(t, a, setup.gw[g].reuse)
      THEN [r EXCEPT !.fd[NewFd(t)] = fpm_http_listen(a, do_listen(setup, g, w)), !.own[w] = NewFd(t)]
      ELSE [r EXCEPT !.ok = FALSE]

\* fpm_http_init_pool_ex(): both listeners of the next gateway.
fpm_http_init_pool_ex ==
  /\ phase = "bind" /\ at <= Len(GatewayPools)
  /\ LET g == GatewayPools[at]
         s0 == [fd |-> fd, handed |-> handed, own |-> own[g], ok |-> TRUE]
         s == fpm_http_handoff_listen(g, "plain", fpm_http_handoff_listen(g, "public", s0))
     IN  /\ fd' = s.fd /\ handed' = s.handed /\ own' = [own EXCEPT ![g] = s.own]
         /\ phase' = IF s.ok THEN "bind" ELSE "dead"
  /\ at' = at + 1
  /\ UNCHANGED <<setup, was, oom>>

\* fpm_http_handoff_finish(): what no gateway took over is closed.
fpm_http_handoff_finish ==
  /\ phase = "bind" /\ at > Len(GatewayPools)
  /\ fd' = [f \in Fds |-> IF \E h \in handed : h.fd = f THEN Shut ELSE fd[f]]
  /\ handed' = {} /\ phase' = "run"
  /\ UNCHANGED <<setup, was, at, own, oom>>

\* A certificate came: the socket of a gateway in NO_CERT listens.
Certificate(g) ==
  /\ phase = "run" /\ own[g]["public"] # NoFd /\ ~fd[own[g]["public"]].listens
  /\ fd' = [fd EXCEPT ![own[g]["public"]].listens = TRUE]
  /\ UNCHANGED <<phase, setup, was, at, handed, own, oom>>

HandDone == (phase = "dead" \/ (phase = "run" /\ oom = "one")) /\ UNCHANGED handvars

HandInit ==
  /\ phase = "begin" /\ setup \in Confs /\ was = setup /\ at = 1
  /\ fd = [f \in Fds |-> Shut] /\ handed = {} /\ oom = "all"
  /\ own = [g \in GW |-> [w \in Which |-> NoFd]]

HandNext ==
  \/ phase = "run" /\ \E next \in Confs, failed \in {"no", "one", "all"} : fpm_http_handoff_export(next, failed)
  \/ fpm_http_handoff_begin \/ fpm_http_init_pool_ex \/ fpm_http_handoff_finish
  \/ \E g \in GW : Certificate(g)
  \/ HandDone

-----------------------------------------------------------------------------
(* Properties.                                                             *)

HandTypeOK ==
  /\ phase \in {"run", "begin", "bind", "dead"} /\ setup \in Confs /\ was \in Confs
  /\ \A g \in GW, w \in Which : own[g][w] \in Fds \cup {NoFd}
  /\ \A h \in handed : h.fd \in Fds

\* A master that runs has no socket of its predecessor that no gateway uses,
\* and every gateway has its own sockets, on its addresses
\* (fpm_http_handoff_begin, fpm_http_handoff_listen, fpm_http_handoff_finish).
\* The one exception: an export that could append some records and not others
\* hands over a socket nobody knows of (pass two marks by test, not by record).
SocketsOwned ==
  phase = "run" /\ oom # "one" =>
    /\ \A f \in Fds : fd[f].open => \E g \in GW, w \in Which : own[g][w] = f
    /\ \A g \in GW, w \in Which :
         LET f == own[g][w] IN
           IF bind(setup, g, w) = NoListener THEN f = NoFd
           ELSE f # NoFd /\ fd[f].open /\ fd[f].addr = bind(setup, g, w)
                /\ \A h \in GW, v \in Which : own[h][v] = f => h = g /\ v = w

\* A reload never fails to bind because of a socket it inherited: not when
\* gateways swap their addresses, not when a pool takes over the address of a
\* gateway, not when the TLS setup of an address changes
\* (fpm_http_handoff_begin, fpm_http_handoff_listen).
NeverBlocked == oom # "one" => phase # "dead"

\* A listener both generations have in the same way is the same socket, so the
\* connections that wait in it are served (fpm_http_handoff_export,
\* fpm_http_handoff_listen).
ListenerSurvives ==
  phase = "run" /\ oom = "no" =>
    \A g \in GW, w \in Which :
      /\ bind(setup, g, w) # NoListener /\ bind(setup, g, w) = bind(was, g, w)
      /\ tls_fp(setup, g) = tls_fp(was, g) /\ ~setup.gw[g].reuse /\ ~was.gw[g].reuse
      /\ do_listen(setup, g, w)
      => fd[own[g][w]].old

\* A socket is only taken over by a gateway with the same TLS setup: nobody who
\* connected to a plain listener is answered by a TLS one, or the reverse
\* (fpm_http_handoff_listen, fpm_http_handoff_tls_fp).
SameTls ==
  phase = "run" => \A g \in GW, w \in Which :
    own[g][w] # NoFd /\ fd[own[g][w]].old =>
      \E h \in GW, v \in Which : bind(was, h, v) = bind(setup, g, w) /\ tls_fp(was, h) = tls_fp(setup, g)

=============================================================================
