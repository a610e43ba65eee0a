------------------------------- MODULE TlsReload -------------------------------
(***************************************************************************)
(* Certificate reload without a restart (fpm_tls_reload.c): the master     *)
(* polls the certificate and the key file, checks a changed pair with the  *)
(* code that checks it at startup (fpm_tls_http.c) and publishes it in one *)
(* of two slots of shared memory; every gateway copies the published slot  *)
(* without a lock and replaces its SSL_CTX.                                *)
(*                                                                         *)
(* A certificate is [id, key]: the key it was issued for may be the one of *)
(* its predecessor, as the ACME client does it, or a new one.  The file    *)
(* system is written between any two reads of the master, and a slot is    *)
(* filled and copied in parts (the leaf, the chain, the key), so a copy    *)
(* may mix two publications.                                               *)
(***************************************************************************)
EXTENDS Integers, Sequences

CONSTANTS
  Gateways,     \* gateway processes of the pool
  TlsConfs,     \* [wait, back]: http.tls_wait_for_cert; files may vanish and return
  MaxIssued,    \* certificates issued
  MaxGwCrashes, \* gateways that die and are replaced
  Tries         \* FPM_TLS_RELOAD_SNAPSHOT_TRIES

ASSUME TriesAssumption == Tries \in Nat \ {0}

VARIABLES
  tlsconf,  \* the configuration
  files,    \* [cert, key, issued, kept]: the two files
  tm,       \* the master's tick: pc, the digests it acted on, what it read
  shm,      \* [gen, slot, hist]: the shared memory, with every pair published
  gate      \* the gateways

tlsvars == <<tlsconf, files, tm, shm, gate>>

NoCert == [id |-> 0, key |-> 0]
NoSlot == [leaf |-> 0, chain |-> 0, certkey |-> 0, key |-> 0]
Pair(cert, key) == [leaf |-> cert.id, chain |-> cert.id, certkey |-> cert.key, key |-> key]

\* fpm_tls_http_check(): both parse and the key is the leaf's.
KeyFits(s) == s.leaf # 0 /\ s.chain # 0 /\ s.key # 0 /\ s.key = s.certkey

\* A gateway starts with generation 0 as the one it has seen.
Booting == [pc |-> "boot", gen |-> 0, tries |-> 0, copy |-> NoSlot, ctx |-> NoSlot, seen |-> 0, hook |-> FALSE,
            spent |-> FALSE, deaths |-> 0]

\* fpm_tls_reload_master_init(): without a first certificate the published slot
\* is empty and the digests match no file.
fpm_tls_reload_master_init ==
  LET first == IF tlsconf.wait THEN NoCert ELSE [id |-> 1, key |-> 1] IN
  /\ files = [cert |-> first, key |-> first.key, issued |-> first.id, kept |-> first]
  /\ tm = [pc |-> "idle", cert |-> first, key |-> first.key, dcert |-> first, dkey |-> first.key, fresh |-> NoSlot]
  /\ shm = [gen |-> 0, slot |-> <<Pair(first, first.key), NoSlot>>, hist |-> <<Pair(first, first.key)>>]
  /\ gate = [g \in Gateways |-> Booting]

TlsInit == tlsconf \in TlsConfs /\ fpm_tls_reload_master_init

Slot(gen) == shm.slot[(gen % 2) + 1]

-----------------------------------------------------------------------------
(* The writer of the files: one rename at a time.                          *)

Issue ==
  /\ files.issued < MaxIssued /\ files.cert = files.kept /\ files.key = files.kept.key
  /\ \/ \E k \in {files.key, files.key + 1} \ {0} :      \* the key first
          /\ files' = [files EXCEPT !.key = k, !.issued = @ + 1,
                                    !.cert = IF k = files.key THEN [id |-> files.issued + 1, key |-> k] ELSE @,
                                    !.kept = [id |-> files.issued + 1, key |-> k]]
     \/ LET k == files.key + 1 IN                        \* the certificate first
          files' = [files EXCEPT !.cert = [id |-> files.issued + 1, key |-> k], !.issued = @ + 1,
                                 !.kept = [id |-> files.issued + 1, key |-> k]]
  /\ UNCHANGED <<tlsconf, tm, shm, gate>>

\* The second file of the pair.
IssueRest ==
  /\ files.cert # files.kept \/ files.key # files.kept.key
  /\ files' = [files EXCEPT !.cert = files.kept, !.key = files.kept.key]
  /\ UNCHANGED <<tlsconf, tm, shm, gate>>

\* The certificate is away for a moment and comes back as it was.
Vanish ==
  /\ tlsconf.back /\ files.cert = files.kept /\ files.cert # NoCert
  /\ files' = [files EXCEPT !.cert = NoCert]
  /\ UNCHANGED <<tlsconf, tm, shm, gate>>

-----------------------------------------------------------------------------
(* fpm_tls_reload_master_tick()                                            *)

TmAt(pc) == tm.pc = pc
Handled(t) == [t EXCEPT !.pc = "idle", !.cert = t.dcert, !.key = t.dkey]

\* fpm_tls_reload_file_digest() of the certificate, then of the key.
file_digest ==
  \/ /\ TmAt("idle") /\ files.cert # NoCert
     /\ tm' = [tm EXCEPT !.pc = "dkey", !.dcert = files.cert]
     /\ UNCHANGED <<tlsconf, files, shm, gate>>
  \/ /\ TmAt("dkey")
     /\ tm' = IF files.key = 0 \/ (tm.dcert = tm.cert /\ files.key = tm.key)
              THEN [tm EXCEPT !.pc = "idle", !.dkey = IF files.key = 0 THEN @ ELSE files.key]
              ELSE [tm EXCEPT !.pc = "vcert", !.dkey = files.key]
     /\ UNCHANGED <<tlsconf, files, shm, gate>>

\* fpm_tls_http_validate() reads both files again; a pair it refuses is
\* remembered by the digests read before.
fpm_tls_http_validate ==
  \/ /\ TmAt("vcert")
     /\ tm' = IF files.cert = NoCert THEN Handled(tm)
              ELSE [tm EXCEPT !.pc = "vkey", !.fresh = Pair(files.cert, 0)]
     /\ UNCHANGED <<tlsconf, files, shm, gate>>
  \/ /\ TmAt("vkey")
     /\ tm' = IF KeyFits([tm.fresh EXCEPT !.key = files.key]) THEN [tm EXCEPT !.pc = "lcert"] ELSE Handled(tm)
     /\ UNCHANGED <<tlsconf, files, shm, gate>>

\* fpm_tls_http_load() reads and checks them once more; a failure here is tried
\* again by the next tick.
fpm_tls_http_load_Unchecked ==
  \/ /\ TmAt("lcert")
     /\ tm' = IF files.cert = NoCert THEN [tm EXCEPT !.pc = "idle"]
              ELSE [tm EXCEPT !.pc = "lkey", !.fresh = Pair(files.cert, 0)]
     /\ UNCHANGED <<tlsconf, files, shm, gate>>
  \/ /\ TmAt("lkey")
     /\ tm' = [tm EXCEPT !.pc = "fill", !.fresh.key = files.key]
     /\ UNCHANGED <<tlsconf, files, shm, gate>>
fpm_tls_http_load ==
  \/ /\ TmAt("lcert")
     /\ tm' = IF files.cert = NoCert THEN [tm EXCEPT !.pc = "idle"]
              ELSE [tm EXCEPT !.pc = "lkey", !.fresh = Pair(files.cert, 0)]
     /\ UNCHANGED <<tlsconf, files, shm, gate>>
  \/ /\ TmAt("lkey")
     /\ tm' = IF KeyFits([tm.fresh EXCEPT !.key = files.key])
              THEN [tm EXCEPT !.pc = "fill", !.fresh.key = files.key] ELSE [tm EXCEPT !.pc = "idle"]
     /\ UNCHANGED <<tlsconf, files, shm, gate>>

\* The unpublished slot is filled, part by part, and then the counter moves.
Unpublished == ((shm.gen + 1) % 2) + 1
publish ==
  \/ /\ TmAt("fill")
     /\ shm' = [shm EXCEPT !.slot[Unpublished].leaf = tm.fresh.leaf, !.slot[Unpublished].certkey = tm.fresh.certkey]
     /\ tm' = [tm EXCEPT !.pc = "rest"]
     /\ UNCHANGED <<tlsconf, files, gate>>
  \/ /\ TmAt("rest")
     /\ shm' = [shm EXCEPT !.slot[Unpublished].chain = tm.fresh.chain, !.slot[Unpublished].key = tm.fresh.key]
     /\ tm' = [tm EXCEPT !.pc = "publish"]
     /\ UNCHANGED <<tlsconf, files, gate>>
  \/ /\ TmAt("publish")
     /\ shm' = [shm EXCEPT !.gen = @ + 1, !.hist = Append(@, tm.fresh)]
     /\ tm' = Handled(tm)
     /\ UNCHANGED <<tlsconf, files, gate>>

TlsMasterStep == file_digest \/ fpm_tls_http_validate \/ fpm_tls_http_load \/ publish

-----------------------------------------------------------------------------
(* A gateway                                                               *)

GateAt(g, pc) == gate[g].pc = pc
SetGate(g, r) == gate' = [gate EXCEPT ![g] = r] /\ UNCHANGED <<tlsconf, files, tm, shm>>

\* fpm_tls_reload_child_ctx_new(): an empty slot is "no certificate yet".
fpm_tls_reload_child_ctx_new(g) ==
  /\ GateAt(g, "boot")
  /\ SetGate(g, IF Slot(shm.gen).leaf = 0 THEN [gate[g] EXCEPT !.pc = "idle", !.hook = TRUE]
            ELSE [gate[g] EXCEPT !.pc = "leaf", !.tries = Tries, !.gen = shm.gen])

\* fpm_tls_reload_child_tick(): only a moved counter is looked at.
fpm_tls_reload_child_tick(g) ==
  /\ GateAt(g, "idle") /\ shm.gen # gate[g].seen
  /\ SetGate(g, [gate[g] EXCEPT !.pc = "leaf", !.tries = Tries, !.gen = shm.gen])

\* fpm_tls_reload_snapshot(): the copy, and again when the counter moved.
fpm_tls_reload_snapshot_Once(g) ==
  \/ /\ GateAt(g, "leaf")
     /\ LET s == Slot(gate[g].gen) IN
        SetGate(g, [gate[g] EXCEPT !.pc = "rest", !.copy = [NoSlot EXCEPT !.leaf = s.leaf, !.certkey = s.certkey]])
  \/ /\ GateAt(g, "rest")
     /\ LET s == Slot(gate[g].gen) IN
        SetGate(g, [gate[g] EXCEPT !.pc = "ctx", !.copy.chain = s.chain, !.copy.key = s.key])
fpm_tls_reload_snapshot(g) ==
  \/ /\ GateAt(g, "leaf")
     /\ LET s == Slot(gate[g].gen) IN
        SetGate(g, [gate[g] EXCEPT !.pc = "rest", !.copy = [NoSlot EXCEPT !.leaf = s.leaf, !.certkey = s.certkey]])
  \/ /\ GateAt(g, "rest")
     /\ LET s == Slot(gate[g].gen) IN
        SetGate(g, [gate[g] EXCEPT !.pc = "again", !.copy.chain = s.chain, !.copy.key = s.key])
  \/ /\ GateAt(g, "again")
     /\ LET left == IF gate[g].gen # shm.gen THEN gate[g].tries - 1 ELSE gate[g].tries IN
        SetGate(g, IF gate[g].gen # shm.gen /\ left > 0
               THEN [gate[g] EXCEPT !.pc = "leaf", !.tries = left, !.gen = shm.gen]
               ELSE [gate[g] EXCEPT !.pc = "ctx", !.tries = left])

\* fpm_tls_http_ctx_new(): a new context replaces the old one and the latched
\* generation counts as seen.  A first start that fails serves what the master
\* loaded, which is generation 0.
fpm_tls_http_ctx_new_Current(g) ==
  /\ GateAt(g, "ctx")
  /\ SetGate(g, IF KeyFits(gate[g].copy)
            THEN [gate[g] EXCEPT !.pc = "idle", !.ctx = gate[g].copy, !.seen = shm.gen, !.hook = FALSE]
            ELSE [gate[g] EXCEPT !.pc = "idle", !.ctx = IF @ = NoSlot THEN shm.hist[1] ELSE @])
fpm_tls_http_ctx_new(g) ==
  /\ GateAt(g, "ctx")
  /\ SetGate(g, IF KeyFits(gate[g].copy)
            THEN [gate[g] EXCEPT !.pc = "idle", !.ctx = gate[g].copy, !.seen = gate[g].gen, !.hook = FALSE,
                                 !.spent = gate[g].tries = 0]
            ELSE [gate[g] EXCEPT !.pc = "idle", !.ctx = IF @ = NoSlot THEN shm.hist[1] ELSE @])

\* A gateway that dies is forked again from the master, which has seen nothing.
GateRespawn_Seen(g) ==
  /\ gate[g].deaths < MaxGwCrashes
  /\ SetGate(g, [Booting EXCEPT !.pc = "idle", !.ctx = shm.hist[1], !.seen = shm.gen, !.deaths = gate[g].deaths + 1])
GateRespawn(g) ==
  /\ gate[g].deaths < MaxGwCrashes
  /\ SetGate(g, [Booting EXCEPT !.deaths = gate[g].deaths + 1])

GateStep(g) ==
  \/ fpm_tls_reload_child_ctx_new(g) \/ fpm_tls_reload_child_tick(g)
  \/ fpm_tls_reload_snapshot(g) \/ fpm_tls_http_ctx_new(g)

TlsNext == Issue \/ IssueRest \/ Vanish \/ TlsMasterStep \/ \E g \in Gateways : GateStep(g) \/ GateRespawn(g)

TlsSpec == TlsInit /\ [][TlsNext]_tlsvars

\* The timers of the master and of every gateway tick on; the files are written
\* as their owner likes, but a pair that was begun is completed.
TlsFair ==
  /\ WF_tlsvars(TlsMasterStep) /\ WF_tlsvars(IssueRest)
  /\ \A g \in Gateways : WF_tlsvars(GateStep(g))

-----------------------------------------------------------------------------
(* Properties                                                              *)

\* Types; and only pairs that fit each other are ever published.
TlsTypeOK ==
  /\ tm.pc \in {"idle", "dkey", "vcert", "vkey", "lcert", "lkey", "fill", "rest", "publish"}
  /\ \A g \in Gateways : gate[g].pc \in {"boot", "idle", "leaf", "rest", "again", "ctx"}
  /\ \A i \in 2 .. Len(shm.hist) : KeyFits(shm.hist[i])

\* A gateway serves a pair as it was published, never the leaf of one and the
\* chain of another, however the master's writes fall into its copy.  (Only a
\* copy that used up its tries, "spent", may be torn: a certificate was
\* published during each of FPM_TLS_RELOAD_SNAPSHOT_TRIES copies.  If the next
\* certificate has the same key, such a copy is even served.)
NoTornServed ==
  \A g \in Gateways : gate[g].ctx # NoSlot /\ ~gate[g].spent =>
    \E i \in 1 .. Len(shm.hist) : gate[g].ctx = shm.hist[i]

\* A gateway never counts a generation as seen that is newer than the one it
\* serves: it would serve the old certificate for the rest of its life.
NeverClaimsNewer ==
  \A g \in Gateways : gate[g].ctx # NoSlot => gate[g].ctx.leaf >= shm.hist[gate[g].seen + 1].leaf

FilesSettled == files.cert # NoCert /\ files.cert = files.kept /\ files.key = files.kept.key
Reaches(g) == FilesSettled ~> (gate[g].ctx = Pair(files.cert, files.key) \/ ~FilesSettled)

\* Where every write of the files is a new pair, a pair that stays there reaches
\* every gateway, the ones forked later and the ones that wait for their first
\* certificate included.
TlsAdopted == \A g \in Gateways : tlsconf.back \/ Reaches(g)

\* The same when a file may be away for a moment: the tick "sees a mismatch and
\* reloads" what it has not published, and never skips it forever.
NeverSkipped == \A g \in Gateways : Reaches(g)

\* The reload of a certificate as a whole (fpm_tls_reload.c): what a gateway
\* serves was published in one piece, and it never takes an older publication
\* for a newer one.
TlsSound == TlsTypeOK /\ NoTornServed /\ NeverClaimsNewer
=============================================================================
