----------------------------- MODULE AcmeChallenge -----------------------------
(***************************************************************************)
(* The shared HTTP-01 challenge answers (fpm_acme_challenge.c): two tables *)
(* of [tok, ans] entries and a generation that says which one is in force. *)
(* Writers, the ACME clients of cron and supervisor pools, edit the other  *)
(* table under a spinlock and then move the generation; gateways look a    *)
(* token up without a lock and read again when the generation moved.       *)
(*                                                                         *)
(* Every table access is a step of its own: the entries are copied and     *)
(* edited one by one, and a token and its answer are written and read      *)
(* separately.  The answer to a token is an element of Answers, so that a  *)
(* token can be published again with another answer.                       *)
(***************************************************************************)
EXTENDS Integers, FiniteSets

CONSTANTS
  Writers, Tokens, Answers,
  Entries,      \* FPM_ACME_CHALLENGE_MAX
  Attempts,     \* tries of a lookup
  MaxEdits,     \* sets and clears
  MaxWriterKills

ASSUME AcmeAssumption == Entries \in Nat /\ Attempts \in Nat /\ 0 \notin Answers

VARIABLES acme, writer, lookup

acmevars == <<acme, writer, lookup>>

NoEntry == [tok |-> 0, ans |-> 0]
EmptyTable == [count |-> 0, entry |-> [i \in 1 .. Entries |-> NoEntry]]
IdleWriter == [pc |-> "idle", op |-> "set", tok |-> 0, ans |-> 0, gen |-> 0, i |-> 0]
NoLookup == [pc |-> "idle", tok |-> 0, gen |-> 0, count |-> 0, i |-> 0, tries |-> 0, ans |-> 0, held |-> {}]

AcmeInit ==
  /\ acme = [gen |-> 0, lock |-> FALSE, table |-> [b \in {0, 1} |-> EmptyTable], edits |-> 0, kills |-> 0]
  /\ writer = [w \in Writers |-> IdleWriter]
  /\ lookup = NoLookup

\* What is published for a token, 0 for nothing.
Published(tok) ==
  LET t == acme.table[acme.gen % 2]
      hit == {i \in 1 .. t.count : t.entry[i].tok = tok} IN
  IF hit = {} THEN 0 ELSE t.entry[CHOOSE i \in hit : TRUE].ans

Wr(w, r) == writer' = [writer EXCEPT ![w] = r]

-----------------------------------------------------------------------------
(* fpm_acme_challenge_set() and fpm_acme_challenge_clear()                 *)

\* The spinlock; a lock that is not free after its retries fails the call.
fpm_acme_challenge_lock_None(w, op, tok, ans) ==
  /\ writer[w].pc = "idle" /\ acme.edits < MaxEdits
  /\ acme' = [acme EXCEPT !.edits = @ + 1]
  /\ Wr(w, [pc |-> "draft", op |-> op, tok |-> tok, ans |-> ans, gen |-> 0, i |-> 0])
  /\ UNCHANGED lookup
fpm_acme_challenge_lock(w, op, tok, ans) ==
  /\ writer[w].pc = "idle" /\ acme.edits < MaxEdits
  /\ acme' = [acme EXCEPT !.lock = TRUE, !.edits = @ + 1]
  /\ IF acme.lock THEN UNCHANGED writer
     ELSE Wr(w, [pc |-> "draft", op |-> op, tok |-> tok, ans |-> ans, gen |-> 0, i |-> 0])
  /\ UNCHANGED lookup

\* fpm_acme_challenge_draft(): the table in force is copied to the other one.
fpm_acme_challenge_draft(w) ==
  LET me == writer[w]
      to == (me.gen + 1) % 2
      from == acme.table[me.gen % 2] IN
  /\ UNCHANGED lookup
  /\ \/ /\ me.pc = "draft"
        /\ Wr(w, [me EXCEPT !.pc = "copy", !.gen = acme.gen])
        /\ UNCHANGED acme
     \/ /\ me.pc = "copy"
        /\ acme' = [acme EXCEPT !.table[to] = IF me.i = 0 THEN [@ EXCEPT !.count = from.count]
                                               ELSE [@ EXCEPT !.entry[me.i] = from.entry[me.i]]]
        /\ Wr(w, IF me.i = Entries THEN [me EXCEPT !.pc = "edit"] ELSE [me EXCEPT !.i = @ + 1])

\* The edit: the entry of the token or a new one, token first and answer last;
\* a full table ends the call.  A clear moves the last entry into the hole.
edit(w) ==
  LET me == writer[w]
      b == (me.gen + 1) % 2
      t == acme.table[b]
      hit == {i \in 1 .. t.count : t.entry[i].tok = me.tok}
      at == IF hit # {} THEN CHOOSE i \in hit : TRUE ELSE t.count + 1 IN
  /\ UNCHANGED lookup
  /\ \/ /\ me.pc = "edit" /\ me.op = "set" /\ at > Entries
        /\ Wr(w, [me EXCEPT !.pc = "unlock"]) /\ UNCHANGED acme
     \/ /\ me.pc = "edit" /\ me.op = "set" /\ at <= Entries
        /\ acme' = [acme EXCEPT !.table[b] = [count |-> IF hit = {} THEN t.count + 1 ELSE t.count,
                                              entry |-> [t.entry EXCEPT ![at] = [tok |-> me.tok, ans |-> 0]]]]
        /\ Wr(w, [me EXCEPT !.pc = "answer", !.i = at])
     \/ /\ me.pc = "answer"
        /\ acme' = [acme EXCEPT !.table[b] =
              [t EXCEPT !.entry = [t.entry EXCEPT ![me.i] = [t.entry[me.i] EXCEPT !.ans = me.ans]]]]
        /\ Wr(w, [me EXCEPT !.pc = "publish"])
     \/ /\ me.pc = "edit" /\ me.op = "clear"
        /\ acme' = IF hit = {} THEN acme
                   ELSE [acme EXCEPT !.table[b] = [count |-> t.count - 1,
                           entry |-> [t.entry EXCEPT ![at] = t.entry[t.count], ![t.count] = NoEntry]]]
        /\ Wr(w, [me EXCEPT !.pc = "publish"])

\* fpm_acme_challenge_publish(), then the lock is free.
fpm_acme_challenge_publish(w) ==
  LET me == writer[w] IN
  /\ UNCHANGED lookup
  /\ \/ /\ me.pc = "publish"
        /\ acme' = [acme EXCEPT !.gen = IF @ = me.gen THEN @ + 1 ELSE @]
        /\ Wr(w, [me EXCEPT !.pc = "unlock"])
     \/ /\ me.pc = "unlock"
        /\ acme' = [acme EXCEPT !.lock = FALSE]
        /\ Wr(w, IdleWriter)

\* A cron child is killed by cron.timeout, also while it holds the spinlock.
WriterKilled(w) ==
  /\ writer[w].pc # "idle" /\ acme.kills < MaxWriterKills
  /\ acme' = [acme EXCEPT !.kills = @ + 1]
  /\ Wr(w, [IdleWriter EXCEPT !.pc = "dead"])
  /\ UNCHANGED lookup

-----------------------------------------------------------------------------
(* fpm_acme_challenge_lookup(); held is every answer in force since it began *)

Look(r) == lookup' = [r EXCEPT !.held = @ \cup {Published(r.tok)}] /\ UNCHANGED <<acme, writer>>

LookupStart(tok) ==
  /\ lookup.pc = "idle"
  /\ Look([NoLookup EXCEPT !.pc = "gen", !.tok = tok, !.tries = Attempts])

fpm_acme_challenge_lookup_NoCheck ==
  LET t == acme.table[lookup.gen % 2] IN
  \/ /\ lookup.pc = "gen"
     /\ Look([lookup EXCEPT !.pc = "entry", !.gen = acme.gen, !.i = 1, !.count = acme.table[acme.gen % 2].count])
  \/ /\ lookup.pc = "entry"
     /\ Look(IF lookup.i > lookup.count THEN [lookup EXCEPT !.pc = "miss"]
             ELSE IF t.entry[lookup.i].ans # 0 /\ t.entry[lookup.i].tok = lookup.tok THEN [lookup EXCEPT !.pc = "answer"]
             ELSE [lookup EXCEPT !.i = @ + 1])
  \/ /\ lookup.pc = "answer"
     /\ Look([lookup EXCEPT !.pc = "found", !.ans = t.entry[lookup.i].ans])
fpm_acme_challenge_lookup ==
  LET t == acme.table[lookup.gen % 2]
      next == IF lookup.tries > 1 THEN [lookup EXCEPT !.pc = "gen", !.tries = @ - 1, !.ans = 0]
              ELSE [lookup EXCEPT !.pc = "gaveup", !.ans = 0] IN
  \/ /\ lookup.pc = "gen"
     /\ Look([lookup EXCEPT !.pc = "entry", !.gen = acme.gen, !.i = 1, !.count = acme.table[acme.gen % 2].count])
  \/ /\ lookup.pc = "entry"
     /\ Look(IF lookup.i > lookup.count THEN (IF acme.gen = lookup.gen THEN [lookup EXCEPT !.pc = "miss"] ELSE next)
             ELSE IF t.entry[lookup.i].ans # 0 /\ t.entry[lookup.i].tok = lookup.tok THEN [lookup EXCEPT !.pc = "answer"]
             ELSE [lookup EXCEPT !.i = @ + 1])
  \/ /\ lookup.pc = "answer"
     /\ Look([lookup EXCEPT !.pc = "check", !.ans = t.entry[lookup.i].ans])
  \/ /\ lookup.pc = "check"
     /\ Look(IF acme.gen = lookup.gen THEN [lookup EXCEPT !.pc = "found"] ELSE next)

LookupOver == lookup.pc \in {"found", "miss", "gaveup"} /\ lookup' = NoLookup /\ UNCHANGED <<acme, writer>>

\* The steps of a writer; while a lookup runs it takes note of what is in force.
WriterStep(w) ==
  /\ \/ \E tok \in Tokens, ans \in Answers : fpm_acme_challenge_lock(w, "set", tok, ans)
     \/ \E tok \in Tokens : fpm_acme_challenge_lock(w, "clear", tok, 0)
     \/ fpm_acme_challenge_draft(w) \/ edit(w) \/ fpm_acme_challenge_publish(w) \/ WriterKilled(w)

AcmeNext ==
  \/ \E w \in Writers : WriterStep(w)
  \/ \E tok \in Tokens : LookupStart(tok)
  \/ fpm_acme_challenge_lookup \/ LookupOver

AcmeSpec == AcmeInit /\ [][AcmeNext]_acmevars

-----------------------------------------------------------------------------
(* Properties                                                              *)

\* Types; the table in force has no token twice and no entry without an answer,
\* whatever two writers do at once and wherever one of them is killed.
AcmeTypeOK ==
  LET t == acme.table[acme.gen % 2] IN
  /\ t.count \in 0 .. Entries
  /\ \A i, j \in 1 .. t.count : t.entry[i].tok = t.entry[j].tok => i = j
  /\ \A i \in 1 .. t.count : t.entry[i].ans \in Answers

\* A lookup is true to one moment of its run: an answer was in force for the
\* token, and "not there" means that there was a moment without it.  A lookup
\* that met a new generation at every attempt may say "not there" anyway.
LookupTrue ==
  /\ lookup.pc = "found" => lookup.ans \in lookup.held
  /\ lookup.pc = "miss" => 0 \in lookup.held

\* The store as a whole (fpm_acme_challenge.c): whatever two writers do at once
\* and wherever one is killed, the table in force is whole, and a lookup says
\* what was true at one moment of its run.
AcmeSound == AcmeTypeOK /\ LookupTrue
=============================================================================
