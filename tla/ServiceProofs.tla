---------------------------- MODULE ServiceProofs ---------------------------
(***************************************************************************)
(* The services beside the worker pools that a request depends on, each    *)
(* proved sound for any size of its instance: the challenge answers of the *)
(* ACME client, the reload of a certificate, the WebSocket tunnel of a     *)
(* gateway, and the copy a supervisor pool carries over a reload.  The     *)
(* four are independent; each part opens with what its invariant needs     *)
(* beyond what the runs check.                                             *)
(***************************************************************************)
EXTENDS AcmeChallenge, TlsReload, GatewayTunnel, SurvivorHandoff, TLAPS

\* Leaves go to Zenon unless they name another prover.
USE ZenonT(30)

-----------------------------------------------------------------------------
(***************************************************************************)
(* The shared challenge answers are sound for any number of writers,       *)
(* tokens and entries.  AcmeSound is not inductive: that the table in      *)
(* force is whole rests on the draft being whole when it is published,     *)
(* which rests on one writer at a time holding the lock and on its copy    *)
(* being complete; that a lookup is true rests on the table of a           *)
(* generation being left alone while that generation is in force.          *)
(***************************************************************************)

Holding == {"draft", "copy", "edit", "answer", "publish", "unlock"}

Editing == {"copy", "edit", "answer", "publish"}

AcmeEntry == [tok : Tokens \cup {0}, ans : Answers \cup {0}]

AcmeTable == [count : 0 .. Entries, entry : [1 .. Entries -> AcmeEntry]]

AcmeState == [gen : Nat, lock : BOOLEAN, table : [{0, 1} -> AcmeTable], edits : Int, kills : Int]

WriterState == [pc : Holding \cup {"idle", "dead"}, op : {"set", "clear"}, tok : Tokens \cup {0},
                ans : Answers \cup {0}, gen : Nat, i : 0 .. Entries]

LookupState == [pc : {"idle", "gen", "entry", "answer", "check", "found", "miss", "gaveup"},
                tok : Tokens \cup {0}, gen : Nat, count : 0 .. Entries, i : Nat, tries : Int,
                ans : Answers \cup {0}, held : SUBSET (Answers \cup {0})]

Types ==
  /\ acme \in AcmeState
  /\ writer \in [Writers -> WriterState]
  /\ lookup \in LookupState

\* No token twice, and an answer for each but the entry at "but".
Whole(t, but) ==
  /\ \A i, j \in 1 .. t.count : t.entry[i].tok = t.entry[j].tok => i = j
  /\ \A i \in 1 .. t.count : i # but => t.entry[i].ans \in Answers

\* The table in force, and the one a writer that read generation g drafts.
InForce == acme.table[acme.gen % 2]
Draft == acme.table[(acme.gen + 1) % 2]

\* One writer holds the lock, and the lock is taken while it does.
Exclusive ==
  /\ \A w \in Writers : writer[w].pc \in Holding => acme.lock
  /\ \A v, w \in Writers : writer[v].pc \in Holding /\ writer[w].pc \in Holding => v = w

\* How far the draft of a writer has come.
Drafted(me) ==
  /\ me.pc = "draft" => me.i = 0
  /\ me.pc \in Editing => me.gen = acme.gen
  /\ me.pc = "copy" /\ me.i > 0 => Draft.count = InForce.count
  /\ me.pc = "copy" => \A k \in 1 .. Entries : k < me.i => Draft.entry[k] = InForce.entry[k]
  /\ me.pc = "edit" => Draft = InForce
  /\ me.pc \in {"draft", "copy", "edit"} /\ me.op = "set" => me.ans \in Answers
  /\ me.pc = "answer" => /\ Whole(Draft, me.i) /\ me.i \in 1 .. Draft.count /\ me.ans \in Answers
  /\ me.pc = "publish" => Whole(Draft, 0)

\* What a lookup knows as long as the generation it latched is in force.
LookedAt(l) ==
  /\ l.pc \in {"entry", "answer", "check"} => l.gen <= acme.gen /\ l.i \in Nat \ {0}
  /\ l.pc \in {"answer", "check"} => l.i <= Entries
  /\ l.pc \in {"entry", "answer", "check"} /\ l.gen = acme.gen =>
       /\ l.count = InForce.count
       /\ \A k \in 1 .. InForce.count : k < l.i => InForce.entry[k].tok # l.tok
       /\ l.pc # "entry" => l.i \in 1 .. InForce.count /\ InForce.entry[l.i].tok = l.tok
       /\ l.pc = "check" => l.ans = InForce.entry[l.i].ans

Looked == LookedAt(lookup)

AcmeInv ==
  /\ Types /\ Whole(InForce, 0) /\ Exclusive
  /\ \A w \in Writers : Drafted(writer[w])
  /\ Looked /\ LookupTrue

-----------------------------------------------------------------------------
(* Generations and tables.                                                 *)

\* The two tables alternate: the parity of the next generation is the other.
LEMMA Parity ==
  \A g \in Nat : /\ g % 2 \in {0, 1} /\ (g + 1) % 2 \in {0, 1}
                 /\ g % 2 # (g + 1) % 2 /\ (g + 2) % 2 = g % 2
  BY SMT

\* What Published() says when the table in force is whole.
LEMMA PublishedIs ==
  ASSUME Types, Whole(InForce, 0), NEW tok
  PROVE  /\ Published(tok) \in Answers \cup {0}
         /\ \A i \in 1 .. InForce.count :
              InForce.entry[i].tok = tok => Published(tok) = InForce.entry[i].ans
         /\ (\A i \in 1 .. InForce.count : InForce.entry[i].tok # tok) => Published(tok) = 0
<1> DEFINE hit == {i \in 1 .. InForce.count : InForce.entry[i].tok = tok}
<1>0. /\ acme.gen \in Nat /\ acme.gen % 2 \in {0, 1}
  BY Parity DEF Types, AcmeState
<1>1. /\ InForce \in AcmeTable
  BY <1>0 DEF Types, AcmeState, InForce
<1>2. Published(tok) = IF hit = {} THEN 0 ELSE InForce.entry[CHOOSE i \in hit : TRUE].ans
  BY DEF Published, InForce
<1>3. CASE hit = {}
  BY <1>2, <1>3
<1>4. CASE hit # {}
  <2>1. PICK h \in hit : h = CHOOSE i \in hit : TRUE
    BY <1>4
  <2>2. Published(tok) = InForce.entry[h].ans
    BY <1>2, <1>4, <2>1
  <2>3. h \in 1 .. InForce.count /\ h \in 1 .. Entries /\ InForce.entry[h].tok = tok
    BY <1>1, <2>1, AcmeAssumption, SMT DEF AcmeTable
  <2>4. InForce.entry[h].ans \in Answers \cup {0}
    BY <1>1, <2>3 DEF AcmeTable, AcmeEntry
  <2>5. \A i \in 1 .. InForce.count : InForce.entry[i].tok = tok => i = h
    BY <2>3 DEF Whole
  <2> QED BY <2>2, <2>3, <2>4, <2>5
<1> QED BY <1>3, <1>4

\* A writer that changes the draft only leaves the table in force as it was.
LEMMA DraftOnly ==
  ASSUME Types, NEW T \in AcmeTable,
         acme' = [acme EXCEPT !.table[(acme.gen + 1) % 2] = T]
  PROVE  /\ acme' \in AcmeState /\ acme'.gen = acme.gen /\ acme'.lock = acme.lock
         /\ InForce' = InForce /\ Draft' = T
<1>1. /\ acme.gen \in Nat /\ acme.gen % 2 \in {0, 1} /\ (acme.gen + 1) % 2 \in {0, 1}
      /\ acme.gen % 2 # (acme.gen + 1) % 2
  BY Parity DEF Types, AcmeState
<1> QED BY <1>1 DEF Types, AcmeState, InForce, Draft

-----------------------------------------------------------------------------
(* The steps of a writer.                                                  *)

\* The holder of the lock moves to r and touches at most the draft: what is in
\* force, and what a lookup knows of it, stays as it is.
LEMMA HolderStep ==
  ASSUME AcmeInv, NEW w \in Writers, NEW r \in WriterState,
         writer[w].pc \in Holding, r.pc \in Holding \cup {"dead"}, UNCHANGED lookup,
         writer' = [writer EXCEPT ![w] = r],
         acme' \in AcmeState, acme'.gen = acme.gen, acme'.lock = acme.lock,
         InForce' = InForce, Drafted(writer[w])'
  PROVE  AcmeInv'
<1>1. Types'
  BY DEF AcmeInv, Types
<1>2. Whole(InForce, 0)'
  BY DEF AcmeInv, Whole
<1>3. \A v \in Writers : v # w => writer[v].pc \notin Holding /\ writer'[v] = writer[v]
  BY DEF AcmeInv, Exclusive, Types
<1>4. writer'[w] = r
  BY DEF AcmeInv, Types
<1>5. Exclusive'
  BY <1>3, <1>4 DEF AcmeInv, Exclusive
<1>6. ASSUME NEW v \in Writers PROVE Drafted(writer[v])'
  <2>1. CASE v = w
    BY <2>1
  <2>2. CASE v # w
    BY <1>3, <2>2 DEF Drafted, Holding, Editing
  <2> QED BY <2>1, <2>2
<1>7. Looked'
  BY DEF AcmeInv, Looked, LookedAt
<1>8. LookupTrue'
  BY DEF AcmeInv, LookupTrue
<1> QED BY <1>1, <1>2, <1>5, <1>6, <1>7, <1>8 DEF AcmeInv

LEMMA LockInv ==
  ASSUME AcmeInv, NEW w \in Writers, NEW op \in {"set", "clear"}, NEW tok \in Tokens,
         NEW ans \in Answers \cup {0}, op = "set" => ans \in Answers,
         fpm_acme_challenge_lock(w, op, tok, ans)
  PROVE  AcmeInv'
<1> DEFINE r == [pc |-> "draft", op |-> op, tok |-> tok, ans |-> ans, gen |-> 0, i |-> 0]
<1>1. /\ acme' \in AcmeState /\ acme'.gen = acme.gen /\ acme'.table = acme.table /\ acme'.lock = TRUE
      /\ lookup' = lookup /\ writer[w].pc = "idle"
  <2>1. acme \in AcmeState /\ acme' = [acme EXCEPT !.lock = TRUE, !.edits = @ + 1]
    BY DEF AcmeInv, Types, fpm_acme_challenge_lock
  <2>2. lookup' = lookup /\ writer[w].pc = "idle"
    BY DEF fpm_acme_challenge_lock
  <2>3. acme' \in AcmeState
    <3>1. acme.edits + 1 \in Int
      BY <2>1, SMT DEF AcmeState
    <3>2. ASSUME NEW n \in Int PROVE [acme EXCEPT !.lock = TRUE, !.edits = n] \in AcmeState
      BY <2>1 DEF AcmeState
    <3> QED BY <2>1, <3>1, <3>2
  <2>4. acme'.gen = acme.gen /\ acme'.table = acme.table
    BY <2>1 DEF AcmeState
  <2>5. acme'.lock = TRUE
    BY <2>1 DEF AcmeState
  <2> QED BY <2>2, <2>3, <2>4, <2>5
<1>2. InForce' = InForce /\ Draft' = Draft
  BY <1>1 DEF InForce, Draft
<1>3. r \in WriterState
  BY AcmeAssumption, SMT DEF WriterState, Holding
<1>4. \/ writer' = writer
      \/ ~acme.lock /\ writer' = [writer EXCEPT ![w] = r]
  BY DEF fpm_acme_challenge_lock, Wr
<1>5. Types'
  BY <1>1, <1>3, <1>4 DEF AcmeInv, Types
<1>6. \A v \in Writers : writer'[v] = writer[v] \/ (v = w /\ ~acme.lock /\ writer'[v] = r)
  BY <1>4 DEF AcmeInv, Types
<1>7. Exclusive'
  BY <1>1, <1>6 DEF AcmeInv, Exclusive, Holding
<1>8. ASSUME NEW v \in Writers PROVE Drafted(writer[v])'
  <2>1. CASE writer'[v] = writer[v]
    BY <1>1, <1>2, <2>1, SMT DEF AcmeInv, Drafted, Whole
  <2>2. CASE writer'[v] = r
    BY <2>2, SMT DEF Drafted, Editing
  <2> QED BY <1>6, <2>1, <2>2
<1>9. Whole(InForce, 0)' /\ Looked' /\ LookupTrue'
  BY <1>1, <1>2 DEF AcmeInv, Whole, Looked, LookedAt, LookupTrue
<1> QED BY <1>5, <1>7, <1>8, <1>9 DEF AcmeInv

LEMMA DraftInv ==
  ASSUME AcmeInv, NEW w \in Writers, fpm_acme_challenge_draft(w)
  PROVE  AcmeInv'
<1> DEFINE me == writer[w]
<1>0. /\ me \in WriterState /\ acme \in AcmeState /\ lookup' = lookup
      /\ acme.gen \in Nat /\ acme.gen % 2 \in {0, 1} /\ (acme.gen + 1) % 2 \in {0, 1}
  BY Parity DEF AcmeInv, Types, AcmeState, fpm_acme_challenge_draft
<1>1. CASE me.pc = "draft" /\ writer' = [writer EXCEPT ![w] = [me EXCEPT !.pc = "copy", !.gen = acme.gen]]
           /\ acme' = acme
  <2> DEFINE r == [me EXCEPT !.pc = "copy", !.gen = acme.gen]
  <2>1. r \in WriterState /\ r.pc = "copy" /\ r.gen = acme.gen /\ r.i = me.i /\ r.op = me.op /\ r.ans = me.ans
    BY <1>0 DEF WriterState, Holding
  <2>2. me.i = 0
    BY <1>1 DEF AcmeInv, Drafted
  <2>3. writer'[w] = r /\ (me.op = "set" => me.ans \in Answers)
    BY <1>1 DEF AcmeInv, Types, Drafted
  <2>4. Drafted(writer[w])'
    <3> HIDE DEF r
    <3> QED BY <1>0, <1>1, <2>1, <2>2, <2>3, AcmeAssumption, SMT DEF Drafted
  <2> QED BY <1>0, <1>1, <2>1, <2>4, HolderStep DEF InForce, Holding
<1>2. CASE me.pc = "copy"
  <2> DEFINE T == IF me.i = 0 THEN [Draft EXCEPT !.count = InForce.count]
                  ELSE [Draft EXCEPT !.entry[me.i] = InForce.entry[me.i]]
             r == IF me.i = Entries THEN [me EXCEPT !.pc = "edit"] ELSE [me EXCEPT !.i = @ + 1]
  <2>1. me.gen = acme.gen /\ Drafted(me)
    BY <1>2 DEF AcmeInv, Drafted, Editing
  <2>2. InForce \in AcmeTable /\ Draft \in AcmeTable
    BY <1>0 DEF InForce, Draft, AcmeState
  <2>3. T \in AcmeTable
    BY <1>0, <2>2, AcmeAssumption DEF AcmeTable, WriterState
  <2>4. acme' = [acme EXCEPT !.table[(acme.gen + 1) % 2] = T] /\ writer' = [writer EXCEPT ![w] = r]
    BY <1>2, <2>1 DEF fpm_acme_challenge_draft, Wr, InForce, Draft
  <2>5. /\ acme' \in AcmeState /\ acme'.gen = acme.gen /\ acme'.lock = acme.lock
        /\ InForce' = InForce /\ Draft' = T
    BY <2>3, <2>4, DraftOnly DEF AcmeInv
  <2>6. r \in WriterState /\ r.pc \in {"copy", "edit"}
    BY <1>0, <1>2, AcmeAssumption, SMT DEF WriterState, Holding
  <2>7. /\ r.gen = me.gen /\ r.op = me.op /\ r.ans = me.ans
        /\ me.i = Entries => r.pc = "edit"
        /\ me.i # Entries => r.pc = "copy" /\ r.i = me.i + 1
    BY <1>0, <1>2 DEF WriterState
  <2>8. /\ T.count = InForce.count
        /\ \A k \in 1 .. Entries : k < me.i + 1 => T.entry[k] = InForce.entry[k]
    <3>1. CASE me.i = 0
      BY <2>2, <3>1, SMT DEF AcmeTable
    <3>2. CASE me.i # 0
      <4>1. me.i \in 1 .. Entries
        BY <1>0, <3>2, AcmeAssumption, SMT DEF WriterState
      <4>2. Draft.count = InForce.count
        BY <1>2, <2>1, <4>1, SMT DEF Drafted
      <4>3. \A k \in 1 .. Entries : k < me.i => Draft.entry[k] = InForce.entry[k]
        BY <1>2, <2>1 DEF Drafted
      <4>4. \A k \in 1 .. Entries : T.entry[k] = IF k = me.i THEN InForce.entry[k] ELSE Draft.entry[k]
        BY <2>2, <3>2, <4>1 DEF AcmeTable
      <4>5. T.count = Draft.count
        BY <2>2, <3>2 DEF AcmeTable
      <4> HIDE DEF T
      <4> QED BY <4>1, <4>2, <4>3, <4>4, <4>5, AcmeAssumption, SMT
    <3> QED BY <3>1, <3>2
  <2>9. Drafted(writer[w])'
    <3>0. writer'[w] = r
      BY <2>4 DEF AcmeInv, Types
    <3> HIDE DEF r, T
    <3>1. me.i \in 0 .. Entries /\ me.gen = acme.gen /\ (me.op = "set" => me.ans \in Answers)
      BY <1>0, <1>2, <2>1 DEF WriterState, Drafted
    <3>2. CASE me.i = Entries
      <4>1. T.entry = InForce.entry
        BY <2>2, <2>3, <2>8, <3>2, AcmeAssumption, SMT DEF AcmeTable
      <4>2. T = InForce
        BY <2>2, <2>3, <2>8, <4>1, SMT DEF AcmeTable
      <4> QED BY <2>5, <2>7, <3>0, <3>1, <3>2, <4>2 DEF Drafted
    <3>3. CASE me.i # Entries
      BY <2>5, <2>7, <2>8, <3>0, <3>1, <3>3 DEF Drafted
    <3> QED BY <3>2, <3>3
  <2> QED BY <1>0, <1>2, <2>4, <2>5, <2>6, <2>9, HolderStep DEF Holding
<1> QED BY <1>1, <1>2 DEF fpm_acme_challenge_draft, Wr

\* Writing an answer leaves the rest of a table alone.
LEMMA Answered ==
  ASSUME NEW t \in AcmeTable, NEW k \in 1 .. Entries, NEW a \in Answers
  PROVE  LET T == [t EXCEPT !.entry = [t.entry EXCEPT ![k] = [t.entry[k] EXCEPT !.ans = a]]] IN
         /\ T \in AcmeTable /\ T.count = t.count
         /\ \A i \in 1 .. Entries : /\ T.entry[i].tok = t.entry[i].tok
                                    /\ T.entry[i].ans = IF i = k THEN a ELSE t.entry[i].ans
<1> DEFINE e == [t.entry[k] EXCEPT !.ans = a]
           f == [t.entry EXCEPT ![k] = e]
           T == [t EXCEPT !.entry = f]
<1>1. t.entry \in [1 .. Entries -> AcmeEntry] /\ t.count \in 0 .. Entries
  BY DEF AcmeTable
<1>2. t.entry[k] \in AcmeEntry
  BY <1>1
<1>3. e \in AcmeEntry /\ e.tok = t.entry[k].tok /\ e.ans = a
  BY <1>2 DEF AcmeEntry
<1> HIDE DEF e
<1>4. f \in [1 .. Entries -> AcmeEntry] /\ \A i \in 1 .. Entries : f[i] = IF i = k THEN e ELSE t.entry[i]
  BY <1>1, <1>3
<1> HIDE DEF f
<1>5. T \in AcmeTable /\ T.count = t.count /\ T.entry = f
  BY <1>4 DEF AcmeTable
<1> HIDE DEF T
<1>6. /\ T \in AcmeTable /\ T.count = t.count
      /\ \A i \in 1 .. Entries : /\ T.entry[i].tok = t.entry[i].tok
                                 /\ T.entry[i].ans = IF i = k THEN a ELSE t.entry[i].ans
  BY <1>3, <1>4, <1>5
<1> QED BY <1>6 DEF T, f, e

LEMMA Moved ==
  ASSUME NEW m \in WriterState, NEW k \in 0 .. Entries, NEW pc \in Holding
  PROVE  LET r == [m EXCEPT !.pc = pc, !.i = k] IN
         r \in WriterState /\ r.pc = pc /\ r.i = k /\ r.gen = m.gen /\ r.ans = m.ans
<1> DEFINE r == [m EXCEPT !.pc = pc, !.i = k]
<1>1. r.pc = pc /\ r.i = k /\ r.gen = m.gen /\ r.ans = m.ans /\ r.op = m.op /\ r.tok = m.tok
  BY DEF WriterState
<1>2. r \in WriterState
  BY DEF WriterState
<1> QED BY <1>1, <1>2

LEMMA EditInv ==
  ASSUME AcmeInv, NEW w \in Writers, edit(w)
  PROVE  AcmeInv'
<1> DEFINE me == writer[w]
           b == (me.gen + 1) % 2
           t == acme.table[b]
           hit == {i \in 1 .. t.count : t.entry[i].tok = me.tok}
           at == IF hit # {} THEN CHOOSE i \in hit : TRUE ELSE t.count + 1
<1>0. /\ me \in WriterState /\ acme \in AcmeState /\ lookup' = lookup
      /\ acme.gen \in Nat /\ acme.gen % 2 \in {0, 1} /\ (acme.gen + 1) % 2 \in {0, 1}
  BY Parity DEF AcmeInv, Types, AcmeState, edit
<1>1. me.pc \in {"edit", "answer"} /\ me.gen = acme.gen /\ Drafted(me)
  BY DEF AcmeInv, Drafted, Editing, edit
<1>2. InForce \in AcmeTable /\ t \in AcmeTable /\ t.count \in 0 .. Entries
      /\ t.entry \in [1 .. Entries -> AcmeEntry]
  BY <1>0, <1>1 DEF InForce, AcmeState, AcmeTable
<1>3. t = Draft /\ b = (acme.gen + 1) % 2
  BY <1>1 DEF Draft
<1>4. /\ hit = {} => /\ at = t.count + 1
                     /\ \A i \in 1 .. t.count : t.entry[i].tok # me.tok
      /\ hit # {} => at \in 1 .. t.count /\ t.entry[at].tok = me.tok
  OBVIOUS
<1>5. me.pc = "edit" => Draft = InForce /\ Whole(t, 0)
  BY <1>1, <1>3 DEF AcmeInv, Drafted
<1>e. \/ me.pc = "edit" /\ acme' = acme /\ \E pc \in {"publish", "unlock"} : writer' = [writer EXCEPT ![w] = [me EXCEPT !.pc = pc]]
      \/ /\ me.pc = "edit" /\ me.op = "set" /\ at <= Entries
         /\ acme' = [acme EXCEPT !.table[b] =
                       [count |-> IF hit = {} THEN t.count + 1 ELSE t.count,
                        entry |-> [t.entry EXCEPT ![at] = [tok |-> me.tok, ans |-> 0]]]]
         /\ writer' = [writer EXCEPT ![w] = [me EXCEPT !.pc = "answer", !.i = at]]
      \/ /\ me.pc = "answer"
         /\ acme' = [acme EXCEPT !.table[b] =
                       [t EXCEPT !.entry = [t.entry EXCEPT ![me.i] = [t.entry[me.i] EXCEPT !.ans = me.ans]]]]
         /\ writer' = [writer EXCEPT ![w] = [me EXCEPT !.pc = "publish"]]
      \/ /\ me.pc = "edit" /\ hit # {}
         /\ acme' = [acme EXCEPT !.table[b] =
              [count |-> t.count - 1,
               entry |-> [t.entry EXCEPT ![at] = t.entry[t.count], ![t.count] = NoEntry]]]
         /\ writer' = [writer EXCEPT ![w] = [me EXCEPT !.pc = "publish"]]
  BY DEF edit, Wr
<1> HIDE DEF hit, at, t, b
<1>6. CASE me.pc = "edit" /\ acme' = acme /\ \E pc \in {"publish", "unlock"} : writer' = [writer EXCEPT ![w] = [me EXCEPT !.pc = pc]]
  <2>1. PICK pc \in {"publish", "unlock"} : writer' = [writer EXCEPT ![w] = [me EXCEPT !.pc = pc]]
    BY <1>6
  <2> DEFINE r == [me EXCEPT !.pc = pc]
  <2>2. r \in WriterState /\ r.pc = pc /\ r.gen = me.gen /\ writer'[w] = r
    BY <1>0, <2>1 DEF AcmeInv, Types, WriterState, Holding
  <2>3. Drafted(writer[w])'
    <3> HIDE DEF r
    <3>1. Draft' = Draft /\ acme'.gen = acme.gen /\ writer'[w].gen = acme.gen
      BY <1>1, <1>6, <2>2 DEF Draft
    <3>2. Whole(Draft, 0) /\ Whole(Draft, 0)'
      BY <1>3, <1>5, <1>6, <3>1 DEF Whole
    <3>3. writer'[w].pc \in {"publish", "unlock"}
      BY <2>2
    <3> QED BY <3>1, <3>2, <3>3 DEF Drafted
  <2> QED BY <1>0, <1>6, <2>1, <2>2, <2>3, HolderStep DEF InForce, Holding
<1>7. CASE /\ me.pc = "edit" /\ me.op = "set" /\ at <= Entries
           /\ acme' = [acme EXCEPT !.table[b] =
                         [count |-> IF hit = {} THEN t.count + 1 ELSE t.count,
                          entry |-> [t.entry EXCEPT ![at] = [tok |-> me.tok, ans |-> 0]]]]
           /\ writer' = [writer EXCEPT ![w] = [me EXCEPT !.pc = "answer", !.i = at]]
  <2> DEFINE T == [count |-> IF hit = {} THEN t.count + 1 ELSE t.count,
                   entry |-> [t.entry EXCEPT ![at] = [tok |-> me.tok, ans |-> 0]]]
             r == [me EXCEPT !.pc = "answer", !.i = at]
  <2>1. at \in 1 .. Entries /\ at \in 1 .. T.count /\ T.count \in 0 .. Entries
    <3>1. CASE hit = {}
      BY <1>2, <1>4, <1>7, <3>1, AcmeAssumption, SMTT(30)
    <3>2. CASE hit # {}
      BY <1>2, <1>4, <1>7, <3>2, AcmeAssumption, SMT
    <3> QED BY <3>1, <3>2
  <2>2. T \in AcmeTable
    <3>1. [tok |-> me.tok, ans |-> 0] \in AcmeEntry
      BY <1>0 DEF WriterState, AcmeEntry
    <3>2. T.entry \in [1 .. Entries -> AcmeEntry]
      BY <1>2, <3>1
    <3> QED BY <2>1, <3>2 DEF AcmeTable
  <2>3. Whole(T, at)
    <3>1. \A i \in 1 .. T.count : i # at => /\ i \in 1 .. t.count /\ T.entry[i] = t.entry[i]
                                            /\ t.entry[i].tok # me.tok
      <4>1. CASE hit = {}
        BY <1>2, <1>4, <2>1, <4>1, AcmeAssumption, SMTT(30)
      <4>2. CASE hit # {}
        <5>1. \A i \in 1 .. t.count : t.entry[i].tok = me.tok => i = at
          BY <1>4, <1>5, <1>7, <4>2 DEF Whole
        <5> QED BY <1>2, <2>1, <4>2, <5>1, AcmeAssumption, SMT
      <4> QED BY <4>1, <4>2
    <3>2. T.entry[at].tok = me.tok
      BY <1>2, <2>1
    <3> HIDE DEF T
    <3>3. ASSUME NEW i \in 1 .. T.count, NEW j \in 1 .. T.count, T.entry[i].tok = T.entry[j].tok
          PROVE  i = j
      BY <1>5, <1>7, <3>1, <3>2, <3>3, SMTT(30) DEF Whole
    <3>4. ASSUME NEW i \in 1 .. T.count, i # at PROVE T.entry[i].ans \in Answers
      BY <1>2, <1>5, <1>7, <3>1, <3>4, SMT DEF Whole
    <3> QED BY <3>3, <3>4 DEF Whole
  <2>4. /\ acme' \in AcmeState /\ acme'.gen = acme.gen /\ acme'.lock = acme.lock
        /\ InForce' = InForce /\ Draft' = T
    BY <1>7, <2>2, <1>3, DraftOnly DEF AcmeInv
  <2>5. r \in WriterState /\ r.pc = "answer" /\ r.i = at /\ r.gen = me.gen /\ r.ans = me.ans /\ writer'[w] = r
    <3>1. r \in WriterState /\ r.pc = "answer" /\ r.i = at /\ r.gen = me.gen /\ r.ans = me.ans
      <4>1. at \in 0 .. Entries /\ "answer" \in Holding
        BY <2>1, AcmeAssumption, SMT DEF Holding
      <4>2. me \in WriterState
        BY <1>0
      <4> HIDE DEF me
      <4> QED BY <4>1, <4>2, Moved
    <3> HIDE DEF r
    <3>2. writer'[w] = r
      BY <1>7 DEF AcmeInv, Types, r
    <3> QED BY <3>1, <3>2
  <2>6. Drafted(writer[w])'
    <3>1. me.ans \in Answers
      BY <1>1, <1>7 DEF Drafted
    <3> HIDE DEF r, T
    <3> QED BY <1>1, <2>1, <2>3, <2>4, <2>5, <3>1 DEF Drafted, Whole
  <2> QED BY <1>0, <1>7, <2>4, <2>5, <2>6, HolderStep DEF Holding
<1>8. CASE /\ me.pc = "answer"
           /\ acme' = [acme EXCEPT !.table[b] =
                         [t EXCEPT !.entry = [t.entry EXCEPT ![me.i] = [t.entry[me.i] EXCEPT !.ans = me.ans]]]]
           /\ writer' = [writer EXCEPT ![w] = [me EXCEPT !.pc = "publish"]]
  <2> DEFINE T == [t EXCEPT !.entry = [t.entry EXCEPT ![me.i] = [t.entry[me.i] EXCEPT !.ans = me.ans]]]
             r == [me EXCEPT !.pc = "publish"]
  <2>1. Whole(t, me.i) /\ me.i \in 1 .. t.count /\ me.i \in 1 .. Entries /\ me.ans \in Answers
    BY <1>1, <1>2, <1>3, <1>8, AcmeAssumption, SMT DEF Drafted
  <2>2. /\ T \in AcmeTable /\ T.count = t.count
        /\ \A i \in 1 .. Entries : /\ T.entry[i].tok = t.entry[i].tok
                                   /\ T.entry[i].ans = IF i = me.i THEN me.ans ELSE t.entry[i].ans
    <3>1. t \in AcmeTable /\ me.i \in 1 .. Entries /\ me.ans \in Answers
      BY <1>2, <2>1
    <3> QED BY <3>1, Answered
  <2>4. Whole(T, 0)
    <3>1. 1 .. T.count \subseteq 1 .. Entries
      BY <1>2, <2>2, AcmeAssumption, SMT
    <3> HIDE DEF T
    <3> QED BY <2>1, <2>2, <3>1 DEF Whole
  <2>6. /\ acme' \in AcmeState /\ acme'.gen = acme.gen /\ acme'.lock = acme.lock
        /\ InForce' = InForce /\ Draft' = T
    BY <1>8, <2>2, <1>3, DraftOnly DEF AcmeInv
  <2>7. r \in WriterState /\ r.pc = "publish" /\ r.gen = me.gen /\ writer'[w] = r
    BY <1>0, <1>8 DEF AcmeInv, Types, WriterState, Holding
  <2>8. Drafted(writer[w])'
    <3> HIDE DEF r, T
    <3> QED BY <1>1, <2>4, <2>6, <2>7 DEF Drafted, Whole
  <2> QED BY <1>0, <1>8, <2>6, <2>7, <2>8, HolderStep DEF Holding
<1>9. CASE /\ me.pc = "edit" /\ hit # {}
           /\ acme' = [acme EXCEPT !.table[b] =
                [count |-> t.count - 1,
                 entry |-> [t.entry EXCEPT ![at] = t.entry[t.count], ![t.count] = NoEntry]]]
           /\ writer' = [writer EXCEPT ![w] = [me EXCEPT !.pc = "publish"]]
  <2> DEFINE T == [count |-> t.count - 1,
                   entry |-> [t.entry EXCEPT ![at] = t.entry[t.count], ![t.count] = NoEntry]]
             r == [me EXCEPT !.pc = "publish"]
  <2>1. at \in 1 .. t.count /\ t.count \in 1 .. Entries
    BY <1>2, <1>4, <1>9, AcmeAssumption, SMT
  <2>2. NoEntry \in AcmeEntry
    BY DEF NoEntry, AcmeEntry
  <2>3. T \in AcmeTable
    <3>1. T.entry \in [1 .. Entries -> AcmeEntry]
      BY <1>2, <2>1, <2>2
    <3> QED BY <2>1, <3>1, AcmeAssumption, SMTT(30) DEF AcmeTable
  <2>4. Whole(T, 0)
    <3>1. T.count = t.count - 1 /\ T.count \in 0 .. Entries /\ T.count \in Nat
      BY <2>1, AcmeAssumption, SMT
    <3>2. \A i \in 1 .. Entries : i < t.count =>
            T.entry[i] = IF i = at THEN t.entry[t.count] ELSE t.entry[i]
      BY <1>2, <2>1, AcmeAssumption, SMTT(30)
    <3>3. \A i \in 1 .. T.count : i \in 1 .. Entries /\ i < t.count /\ i \in 1 .. t.count
      BY <2>1, <3>1, AcmeAssumption, SMT
    <3>4. Whole(t, 0) /\ t.count \in 1 .. t.count
      BY <1>5, <1>9, <2>1, SMT
    <3> HIDE DEF T
    <3>5. \A i, j \in 1 .. T.count : T.entry[i].tok = T.entry[j].tok => i = j
      <4> SUFFICES ASSUME NEW i \in 1 .. T.count, NEW j \in 1 .. T.count,
                          T.entry[i].tok = T.entry[j].tok
                   PROVE  i = j
        OBVIOUS
      <4> DEFINE org(k) == IF k = at THEN t.count ELSE k
      <4>1. org(i) \in 1 .. t.count /\ org(j) \in 1 .. t.count
        BY <3>3, <3>4
      <4>2. t.entry[org(i)].tok = t.entry[org(j)].tok
        BY <3>2, <3>3
      <4>3. org(i) = org(j)
        BY <3>4, <4>1, <4>2 DEF Whole
      <4> QED BY <2>1, <3>3, <4>3, SMT
    <3>6. \A i \in 1 .. T.count : T.entry[i].ans \in Answers
      BY <3>2, <3>3, <3>4, <2>1, SMT DEF Whole
    <3> QED BY <3>5, <3>6 DEF Whole
  <2>6. /\ acme' \in AcmeState /\ acme'.gen = acme.gen /\ acme'.lock = acme.lock
        /\ InForce' = InForce /\ Draft' = T
    BY <1>9, <2>3, <1>3, DraftOnly DEF AcmeInv
  <2>7. r \in WriterState /\ r.pc = "publish" /\ r.gen = me.gen /\ writer'[w] = r
    BY <1>0, <1>9 DEF AcmeInv, Types, WriterState, Holding
  <2>8. Drafted(writer[w])'
    <3> HIDE DEF r, T
    <3> QED BY <1>1, <2>4, <2>6, <2>7 DEF Drafted, Whole
  <2> QED BY <1>0, <1>9, <2>6, <2>7, <2>8, HolderStep DEF Holding
<1> QED BY <1>e, <1>6, <1>7, <1>8, <1>9

LEMMA PublishInv ==
  ASSUME AcmeInv, NEW w \in Writers, fpm_acme_challenge_publish(w)
  PROVE  AcmeInv'
<1> DEFINE me == writer[w]
<1>0. /\ me \in WriterState /\ acme \in AcmeState /\ lookup' = lookup
      /\ acme.gen \in Nat /\ acme.gen % 2 \in {0, 1} /\ (acme.gen + 1) % 2 \in {0, 1}
      /\ (acme.gen + 2) % 2 = acme.gen % 2
  BY Parity DEF AcmeInv, Types, AcmeState, fpm_acme_challenge_publish
<1>1. \A v \in Writers : v # w => writer[v].pc \notin Holding
  BY DEF AcmeInv, Exclusive, Holding, fpm_acme_challenge_publish
<1>2. CASE me.pc = "publish"
  <2> DEFINE r == [me EXCEPT !.pc = "unlock"]
  <2>1. me.gen = acme.gen /\ Whole(Draft, 0) /\ lookup' = lookup
    BY <1>0, <1>2 DEF AcmeInv, Drafted, Editing
  <2>2. acme' = [acme EXCEPT !.gen = acme.gen + 1] /\ writer' = [writer EXCEPT ![w] = r]
    BY <1>2, <2>1 DEF fpm_acme_challenge_publish, Wr
  <2>3. acme' \in AcmeState /\ acme'.gen = acme.gen + 1 /\ acme'.lock = acme.lock /\ acme'.table = acme.table
    <3>1. acme.gen + 1 \in Nat
      BY <1>0, SMT
    <3>2. ASSUME NEW n \in Nat
          PROVE  LET a == [acme EXCEPT !.gen = n] IN
                 a \in AcmeState /\ a.gen = n /\ a.lock = acme.lock /\ a.table = acme.table
      BY <1>0 DEF AcmeState
    <3> QED BY <2>2, <3>1, <3>2
  <2>4. InForce' = Draft
    BY <2>3 DEF InForce, Draft
  <2>5. r \in WriterState /\ r.pc = "unlock"
    BY <1>0 DEF WriterState, Holding
  <2>6. Types'
    BY <2>1, <2>2, <2>3, <2>5 DEF AcmeInv, Types
  <2>7. writer'[w] = r /\ \A v \in Writers : v # w => writer'[v] = writer[v]
    BY <2>2 DEF AcmeInv, Types
  <2> HIDE DEF r
  <2>8. Exclusive'
    BY <1>1, <1>2, <2>3, <2>5, <2>7 DEF AcmeInv, Exclusive, Holding
  <2>9. ASSUME NEW v \in Writers PROVE Drafted(writer[v])'
    BY <1>1, <2>5, <2>7 DEF Drafted, Holding, Editing
  <2>10. Whole(InForce, 0)'
    BY <2>1, <2>4 DEF Whole
  <2>11. Looked'
    BY <1>0, <2>1, <2>3, SMT DEF AcmeInv, Looked, LookedAt, Types, LookupState
  <2>12. LookupTrue'
    BY <2>1 DEF AcmeInv, LookupTrue
  <2> QED BY <2>6, <2>8, <2>9, <2>10, <2>11, <2>12 DEF AcmeInv
<1>3. CASE me.pc = "unlock"
  <2>1. acme' = [acme EXCEPT !.lock = FALSE] /\ writer' = [writer EXCEPT ![w] = IdleWriter]
    BY <1>3 DEF fpm_acme_challenge_publish, Wr
  <2>2. acme'.gen = acme.gen /\ acme'.table = acme.table
    BY <1>0, <2>1 DEF AcmeState
  <2>3. acme' \in AcmeState
    BY <1>0, <2>1 DEF AcmeState
  <2>4. InForce' = InForce /\ Draft' = Draft
    BY <2>2 DEF InForce, Draft
  <2>5. IdleWriter \in WriterState /\ IdleWriter.pc = "idle"
    BY AcmeAssumption, SMT DEF IdleWriter, WriterState
  <2>6. writer'[w] = IdleWriter /\ \A v \in Writers : v # w => writer'[v] = writer[v]
    BY <2>1 DEF AcmeInv, Types
  <2>7. Types'
    BY <1>0, <2>1, <2>3, <2>5 DEF AcmeInv, Types
  <2>8. \A v \in Writers : writer'[v].pc \notin Holding
    BY <1>1, <2>5, <2>6 DEF Holding
  <2>9. Exclusive'
    BY <2>8 DEF Exclusive
  <2>10. ASSUME NEW v \in Writers PROVE Drafted(writer[v])'
    BY <2>8 DEF Drafted, Holding, Editing
  <2>11. Whole(InForce, 0)' /\ Looked' /\ LookupTrue'
    BY <1>0, <2>2, <2>4 DEF AcmeInv, Whole, Looked, LookedAt, LookupTrue
  <2> QED BY <2>7, <2>9, <2>10, <2>11 DEF AcmeInv
<1> QED BY <1>2, <1>3 DEF fpm_acme_challenge_publish

LEMMA KilledInv ==
  ASSUME AcmeInv, NEW w \in Writers, WriterKilled(w)
  PROVE  AcmeInv'
<1> DEFINE r == [IdleWriter EXCEPT !.pc = "dead"]
<1>1. /\ acme \in AcmeState /\ acme' = [acme EXCEPT !.kills = @ + 1]
      /\ writer' = [writer EXCEPT ![w] = r] /\ lookup' = lookup
  BY DEF AcmeInv, Types, WriterKilled, Wr
<1>2. /\ acme' \in AcmeState /\ acme'.gen = acme.gen /\ acme'.table = acme.table /\ acme'.lock = acme.lock
  BY <1>1, SMT DEF AcmeState
<1>3. r \in WriterState /\ r.pc = "dead"
  BY AcmeAssumption, SMT DEF IdleWriter, WriterState
<1>4. writer'[w] = r /\ \A v \in Writers : v # w => writer'[v] = writer[v]
  BY <1>1 DEF AcmeInv, Types
<1>5. Types'
  BY <1>1, <1>2, <1>3 DEF AcmeInv, Types
<1> HIDE DEF r
<1>6. InForce' = InForce /\ Draft' = Draft
  BY <1>2 DEF InForce, Draft
<1>7. Exclusive'
  BY <1>2, <1>3, <1>4 DEF AcmeInv, Exclusive, Holding
<1>8. ASSUME NEW v \in Writers PROVE Drafted(writer[v])'
  <2>1. CASE v = w
    BY <1>3, <1>4, <2>1 DEF Drafted, Editing
  <2>2. CASE v # w
    BY <1>2, <1>4, <1>6, <2>2, SMT DEF AcmeInv, Drafted, Whole
  <2> QED BY <2>1, <2>2
<1>9. Whole(InForce, 0)' /\ Looked' /\ LookupTrue'
  BY <1>1, <1>2, <1>6 DEF AcmeInv, Whole, Looked, LookedAt, LookupTrue
<1> QED BY <1>5, <1>7, <1>8, <1>9 DEF AcmeInv

-----------------------------------------------------------------------------
(* The steps of a lookup.                                                  *)

\* A lookup that goes on as r notes the answer in force for its token.
LEMMA LookInv ==
  ASSUME AcmeInv, NEW r \in LookupState, Look(r), LookedAt(r),
         r.pc = "found" => r.ans \in r.held \cup {Published(r.tok)},
         r.pc = "miss" => 0 \in r.held \cup {Published(r.tok)}
  PROVE  AcmeInv'
<1>1. acme' = acme /\ writer' = writer /\ lookup' = [r EXCEPT !.held = r.held \cup {Published(r.tok)}]
  BY DEF Look
<1>2. Published(r.tok) \in Answers \cup {0}
  BY PublishedIs DEF AcmeInv
<1>3. /\ lookup' \in LookupState /\ lookup'.held = r.held \cup {Published(r.tok)}
      /\ lookup'.pc = r.pc /\ lookup'.tok = r.tok /\ lookup'.gen = r.gen /\ lookup'.count = r.count
      /\ lookup'.i = r.i /\ lookup'.ans = r.ans
  BY <1>1, <1>2 DEF LookupState
<1>4. Types' /\ Exclusive'
  BY <1>1, <1>3 DEF AcmeInv, Types, Exclusive
<1>5. InForce' = InForce /\ Draft' = Draft
  BY <1>1 DEF InForce, Draft
<1>6. Whole(InForce, 0)' /\ \A w \in Writers : Drafted(writer[w])'
  BY <1>1, <1>5 DEF AcmeInv, Whole, Drafted
<1>7. Looked'
  BY <1>1, <1>3, <1>5 DEF Looked, LookedAt
<1>8. LookupTrue'
  BY <1>3 DEF LookupTrue
<1> QED BY <1>4, <1>6, <1>7, <1>8 DEF AcmeInv

LEMMA LookupStartInv ==
  ASSUME AcmeInv, NEW tok \in Tokens, LookupStart(tok)
  PROVE  AcmeInv'
<1> DEFINE r == [NoLookup EXCEPT !.pc = "gen", !.tok = tok, !.tries = Attempts]
<1>1. NoLookup \in LookupState
  BY AcmeAssumption, SMT DEF NoLookup, LookupState
<1>2. Look(r)
  BY DEF LookupStart
<1>3. r \in LookupState /\ r.pc = "gen"
  <2>1. Attempts \in Int
    BY AcmeAssumption, SMT
  <2>2. r \in LookupState
    BY <1>1, <2>1 DEF LookupState
  <2>3. r.pc = "gen"
    BY <1>1 DEF LookupState
  <2> QED BY <2>2, <2>3
<1> HIDE DEF r
<1>4. LookedAt(r)
  BY <1>3 DEF LookedAt
<1> QED BY <1>2, <1>3, <1>4, LookInv

LEMMA LookupInv ==
  ASSUME AcmeInv, fpm_acme_challenge_lookup
  PROVE  AcmeInv'
<1> DEFINE t == acme.table[lookup.gen % 2]
           again == [lookup EXCEPT !.pc = "gen", !.tries = @ - 1, !.ans = 0]
           over == [lookup EXCEPT !.pc = "gaveup", !.ans = 0]
<1>0. /\ lookup \in LookupState /\ acme \in AcmeState /\ LookedAt(lookup) /\ LookupTrue
      /\ lookup.gen \in Nat /\ acme.gen \in Nat /\ lookup.gen % 2 \in {0, 1} /\ acme.gen % 2 \in {0, 1}
  BY Parity DEF AcmeInv, Types, AcmeState, LookupState, Looked
<1>1. /\ InForce \in AcmeTable /\ t \in AcmeTable /\ (lookup.gen = acme.gen => t = InForce)
      /\ InForce.count \in 0 .. Entries
  <2>1. /\ InForce \in AcmeTable /\ t \in AcmeTable /\ (lookup.gen = acme.gen => t = InForce)
    <3>1. acme.table \in [{0, 1} -> AcmeTable]
      BY <1>0 DEF AcmeState
    <3> QED BY <1>0, <3>1 DEF InForce
  <2> QED BY <2>1 DEF AcmeTable
<1>2. ASSUME NEW r, r = again \/ r = over, Look(r) PROVE AcmeInv'
  <2>1. r \in LookupState /\ r.pc \in {"gen", "gaveup"}
    <3>1. lookup \in LookupState /\ lookup.tries - 1 \in Int
      BY <1>0, SMT DEF LookupState
    <3>2. ASSUME NEW n \in Int
          PROVE  LET a == [lookup EXCEPT !.pc = "gen", !.tries = n, !.ans = 0] IN
                 a \in LookupState /\ a.pc = "gen"
      BY <3>1 DEF LookupState
    <3>3. over \in LookupState /\ over.pc = "gaveup"
      BY <3>1 DEF LookupState
    <3>4. again \in LookupState /\ again.pc = "gen"
      BY <3>1, <3>2
    <3> HIDE DEF again, over
    <3> QED BY <1>2, <3>3, <3>4
  <2>2. LookedAt(r)
    BY <2>1 DEF LookedAt
  <2> QED BY <1>2, <2>1, <2>2, LookInv
<1> HIDE DEF t, again, over
<1>3. CASE /\ lookup.pc = "gen"
           /\ Look([lookup EXCEPT !.pc = "entry", !.gen = acme.gen, !.i = 1, !.count = InForce.count])
  <2> DEFINE r == [lookup EXCEPT !.pc = "entry", !.gen = acme.gen, !.i = 1, !.count = InForce.count]
  <2>1. r \in LookupState /\ r.pc = "entry" /\ r.gen = acme.gen /\ r.i = 1 /\ r.count = InForce.count
    BY <1>0, <1>1 DEF LookupState
  <2> HIDE DEF r
  <2>2. LookedAt(r)
    BY <1>0, <1>1, <2>1, SMT DEF LookedAt
  <2>3. Look(r)
    BY <1>3 DEF r
  <2> QED BY <2>1, <2>2, <2>3, LookInv
<1>4. CASE lookup.pc = "entry" /\ lookup.i > lookup.count /\ acme.gen = lookup.gen
           /\ Look([lookup EXCEPT !.pc = "miss"])
  <2> DEFINE r == [lookup EXCEPT !.pc = "miss"]
  <2>1. r \in LookupState /\ r.pc = "miss" /\ r.tok = lookup.tok /\ r.held = lookup.held
    BY <1>0 DEF LookupState
  <2>2. \A k \in 1 .. InForce.count : InForce.entry[k].tok # lookup.tok
    BY <1>0, <1>1, <1>4, AcmeAssumption, SMT DEF LookedAt, LookupState
  <2>3. Published(lookup.tok) = 0
    BY <2>2, PublishedIs DEF AcmeInv
  <2> HIDE DEF r
  <2>4. LookedAt(r)
    BY <2>1 DEF LookedAt
  <2>5. Look(r)
    BY <1>4 DEF r
  <2> QED BY <2>1, <2>3, <2>4, <2>5, LookInv
<1>5. CASE /\ lookup.pc = "entry" /\ lookup.i <= lookup.count
           /\ t.entry[lookup.i].ans # 0 /\ t.entry[lookup.i].tok = lookup.tok
           /\ Look([lookup EXCEPT !.pc = "answer"])
  <2> DEFINE r == [lookup EXCEPT !.pc = "answer"]
  <2>1. r \in LookupState /\ r.pc = "answer" /\ r.tok = lookup.tok /\ r.i = lookup.i
        /\ r.count = lookup.count /\ r.gen = lookup.gen
    BY <1>0 DEF LookupState
  <2> HIDE DEF r
  <2>2. LookedAt(r)
    <3>0. lookup.pc = "entry" /\ LookedAt(lookup) /\ lookup.i <= lookup.count
      BY <1>0, <1>5
    <3>1. lookup.count \in 0 .. Entries /\ lookup.i \in Nat \ {0} /\ Entries \in Nat /\ lookup.gen <= acme.gen
      BY <1>0, <3>0, AcmeAssumption DEF LookupState, LookedAt
    <3>2. lookup.i \in 1 .. Entries
      BY <3>0, <3>1, SMT
    <3>3. ASSUME lookup.gen = acme.gen
          PROVE  /\ lookup.i \in 1 .. InForce.count /\ InForce.entry[lookup.i].tok = lookup.tok
                 /\ lookup.count = InForce.count
                 /\ \A k \in 1 .. InForce.count : k < lookup.i => InForce.entry[k].tok # lookup.tok
      <4>1. /\ lookup.count = InForce.count
            /\ \A k \in 1 .. InForce.count : k < lookup.i => InForce.entry[k].tok # lookup.tok
        BY <3>0, <3>3 DEF LookedAt
      <4>2. t = InForce /\ t.entry[lookup.i].tok = lookup.tok
        BY <1>1, <1>5, <3>3
      <4> QED BY <3>0, <3>1, <4>1, <4>2, SMT
    <3> QED BY <2>1, <3>1, <3>2, <3>3, SMT DEF LookedAt
  <2>3. Look(r)
    BY <1>5 DEF r
  <2> QED BY <2>1, <2>2, <2>3, LookInv
<1>6. CASE /\ lookup.pc = "entry" /\ lookup.i <= lookup.count
           /\ ~(t.entry[lookup.i].ans # 0 /\ t.entry[lookup.i].tok = lookup.tok)
           /\ Look([lookup EXCEPT !.i = @ + 1])
  <2> DEFINE r == [lookup EXCEPT !.i = @ + 1]
  <2>1. r \in LookupState /\ r.pc = "entry" /\ r.tok = lookup.tok /\ r.i = lookup.i + 1
        /\ r.count = lookup.count /\ r.gen = lookup.gen /\ lookup.i \in Nat
    BY <1>0, <1>6, SMT DEF LookupState
  <2> HIDE DEF r
  <2>2. LookedAt(r)
    <3>a. lookup.pc = "entry" /\ LookedAt(lookup) /\ lookup.i <= lookup.count
      BY <1>0, <1>6
    <3>0. lookup.gen <= acme.gen /\ lookup.i \in Nat \ {0} /\ lookup.i + 1 \in Nat \ {0}
      BY <3>a, SMT DEF LookedAt
    <3> SUFFICES ASSUME lookup.gen = acme.gen
                 PROVE  /\ lookup.count = InForce.count
                        /\ \A k \in 1 .. InForce.count : k < lookup.i + 1 => InForce.entry[k].tok # lookup.tok
      BY <2>1, <3>0 DEF LookedAt
    <3>1. /\ lookup.count = InForce.count /\ lookup.i \in Nat \ {0}
          /\ \A k \in 1 .. InForce.count : k < lookup.i => InForce.entry[k].tok # lookup.tok
      BY <3>a DEF LookedAt
    <3>2. lookup.i \in 1 .. InForce.count
      BY <1>1, <3>a, <3>1, SMT
    <3>3. InForce.entry[lookup.i].ans \in Answers
      BY <3>2, AcmeAssumption, SMT DEF AcmeInv, Whole
    <3>4. InForce.entry[lookup.i].tok # lookup.tok
      BY <1>1, <1>6, <3>3, AcmeAssumption
    <3>5. ASSUME NEW k \in 1 .. InForce.count, k < lookup.i + 1 PROVE InForce.entry[k].tok # lookup.tok
      <4>1. k < lookup.i \/ k = lookup.i
        BY <1>1, <2>1, <3>5, SMT
      <4> QED BY <3>1, <3>4, <3>5, <4>1
    <3> QED BY <3>1, <3>5
  <2>3. Look(r)
    BY <1>6 DEF r
  <2> QED BY <2>1, <2>2, <2>3, LookInv
<1>7. CASE lookup.pc = "answer" /\ Look([lookup EXCEPT !.pc = "check", !.ans = t.entry[lookup.i].ans])
  \* A lookup of an older generation may read an entry the table no longer has
  \* in use; it only reads inside the array.
  <2> DEFINE r == [lookup EXCEPT !.pc = "check", !.ans = t.entry[lookup.i].ans]
  <2>0. t.entry[lookup.i].ans \in Answers \cup {0}
    <3>1. lookup.i \in 1 .. Entries
      BY <1>0, <1>7, AcmeAssumption, SMT DEF LookedAt
    <3>2. t.entry[lookup.i] \in AcmeEntry
      BY <1>1, <3>1 DEF AcmeTable
    <3> QED BY <3>2 DEF AcmeEntry
  <2>1. r \in LookupState /\ r.pc = "check" /\ r.tok = lookup.tok /\ r.i = lookup.i
        /\ r.count = lookup.count /\ r.gen = lookup.gen /\ r.ans = t.entry[lookup.i].ans
    BY <1>0, <2>0 DEF LookupState
  <2> HIDE DEF r
  <2>2. LookedAt(r)
    BY <1>0, <1>1, <1>7, <2>1 DEF LookedAt
  <2>3. Look(r)
    BY <1>7 DEF r
  <2> QED BY <2>1, <2>2, <2>3, LookInv
<1>8. CASE lookup.pc = "check" /\ acme.gen = lookup.gen /\ Look([lookup EXCEPT !.pc = "found"])
  <2> DEFINE r == [lookup EXCEPT !.pc = "found"]
  <2>1. r \in LookupState /\ r.pc = "found" /\ r.tok = lookup.tok /\ r.ans = lookup.ans /\ r.held = lookup.held
    BY <1>0 DEF LookupState
  <2>2. /\ lookup.i \in 1 .. InForce.count /\ InForce.entry[lookup.i].tok = lookup.tok
        /\ lookup.ans = InForce.entry[lookup.i].ans
    BY <1>0, <1>8 DEF LookedAt
  <2>3. Published(lookup.tok) = lookup.ans
    BY <2>2, PublishedIs DEF AcmeInv
  <2> HIDE DEF r
  <2>4. LookedAt(r)
    BY <2>1 DEF LookedAt
  <2>5. Look(r)
    BY <1>8 DEF r
  <2> QED BY <2>1, <2>3, <2>4, <2>5, LookInv
<1> DEFINE first == [lookup EXCEPT !.pc = "entry", !.gen = acme.gen, !.i = 1, !.count = InForce.count]
           miss == [lookup EXCEPT !.pc = "miss"]
           fits == t.entry[lookup.i].ans # 0 /\ t.entry[lookup.i].tok = lookup.tok
           answer == [lookup EXCEPT !.pc = "answer"]
           step == [lookup EXCEPT !.i = @ + 1]
           check == [lookup EXCEPT !.pc = "check", !.ans = t.entry[lookup.i].ans]
           found == [lookup EXCEPT !.pc = "found"]
           next == IF lookup.tries > 1 THEN again ELSE over
<1>9. \/ lookup.pc = "gen" /\ Look(first)
      \/ lookup.pc = "entry"
         /\ Look(IF lookup.i > lookup.count THEN (IF acme.gen = lookup.gen THEN miss ELSE next)
                 ELSE IF fits THEN answer ELSE step)
      \/ lookup.pc = "answer" /\ Look(check)
      \/ lookup.pc = "check" /\ Look(IF acme.gen = lookup.gen THEN found ELSE next)
  BY DEF fpm_acme_challenge_lookup, InForce, t, again, over
<1>10. next = again \/ next = over
  OBVIOUS
<1>11. lookup.i \in Nat /\ lookup.count \in Nat
  BY <1>0, AcmeAssumption, SMT DEF LookupState
<1> HIDE DEF first, miss, fits, answer, step, check, found, next
<1>12. CASE lookup.pc = "entry"
            /\ Look(IF lookup.i > lookup.count THEN (IF acme.gen = lookup.gen THEN miss ELSE next)
                    ELSE IF fits THEN answer ELSE step)
  <2>1. CASE lookup.i > lookup.count /\ acme.gen = lookup.gen
    BY <1>4, <1>12, <2>1 DEF miss
  <2>2. CASE lookup.i > lookup.count /\ acme.gen # lookup.gen
    BY <1>2, <1>10, <1>12, <2>2
  <2>3. CASE ~(lookup.i > lookup.count) /\ fits
    <3>1. lookup.i <= lookup.count /\ Look(answer)
      BY <1>11, <1>12, <2>3, SMT
    <3> QED BY <1>5, <1>12, <2>3, <3>1 DEF answer, fits
  <2>4. CASE ~(lookup.i > lookup.count) /\ ~fits
    <3>1. lookup.i <= lookup.count /\ Look(step)
      BY <1>11, <1>12, <2>4, SMT
    <3> QED BY <1>6, <1>12, <2>4, <3>1 DEF step, fits
  <2> QED BY <2>1, <2>2, <2>3, <2>4
<1>13. CASE lookup.pc = "check" /\ Look(IF acme.gen = lookup.gen THEN found ELSE next)
  <2>1. CASE acme.gen = lookup.gen
    BY <1>8, <1>13, <2>1 DEF found
  <2>2. CASE acme.gen # lookup.gen
    BY <1>2, <1>10, <1>13, <2>2
  <2> QED BY <2>1, <2>2
<1>14. CASE lookup.pc = "gen" /\ Look(first)
  BY <1>3, <1>14 DEF first
<1>15. CASE lookup.pc = "answer" /\ Look(check)
  BY <1>7, <1>15 DEF check
<1> QED BY <1>9, <1>12, <1>13, <1>14, <1>15

LEMMA LookupOverInv ==
  ASSUME AcmeInv, LookupOver
  PROVE  AcmeInv'
<1>1. NoLookup \in LookupState /\ NoLookup.pc = "idle"
  BY AcmeAssumption, SMT DEF NoLookup, LookupState
<1>2. lookup' = NoLookup /\ acme' = acme /\ writer' = writer
  BY DEF LookupOver
<1>3. InForce' = InForce /\ Draft' = Draft
  BY <1>2 DEF InForce, Draft
<1>4. Types' /\ Exclusive'
  BY <1>1, <1>2 DEF AcmeInv, Types, Exclusive
<1>5. Whole(InForce, 0)' /\ \A w \in Writers : Drafted(writer[w])'
  BY <1>2, <1>3 DEF AcmeInv, Whole, Drafted
<1>6. Looked' /\ LookupTrue'
  BY <1>1, <1>2 DEF Looked, LookedAt, LookupTrue
<1> QED BY <1>4, <1>5, <1>6 DEF AcmeInv

-----------------------------------------------------------------------------
(* The theorem.                                                            *)

LEMMA AcmeInitInv == AcmeInit => AcmeInv
<1> SUFFICES ASSUME AcmeInit PROVE AcmeInv
  OBVIOUS
<1>1. NoEntry \in AcmeEntry
  BY DEF NoEntry, AcmeEntry
<1>2. EmptyTable \in AcmeTable /\ EmptyTable.count = 0
  BY <1>1, AcmeAssumption, SMT DEF EmptyTable, AcmeTable
<1>3. IdleWriter \in WriterState /\ IdleWriter.pc = "idle"
  BY AcmeAssumption, SMT DEF IdleWriter, WriterState
<1>4. NoLookup \in LookupState /\ NoLookup.pc = "idle"
  BY AcmeAssumption, SMT DEF NoLookup, LookupState
<1>5. acme.gen = 0 /\ acme.table = [b \in {0, 1} |-> EmptyTable]
  BY DEF AcmeInit
<1>6. acme \in AcmeState
  BY <1>2, SMT DEF AcmeInit, AcmeState
<1>7. Types
  BY <1>3, <1>4, <1>6 DEF AcmeInit, Types
<1>8. InForce = EmptyTable
  BY <1>5, Parity, SMT DEF InForce
<1>9. Whole(InForce, 0)
  BY <1>2, <1>8, SMT DEF Whole
<1>10. Exclusive /\ \A w \in Writers : Drafted(writer[w])
  BY <1>3 DEF AcmeInit, Exclusive, Drafted, Holding, Editing
<1>11. Looked /\ LookupTrue
  BY <1>4 DEF AcmeInit, Looked, LookedAt, LookupTrue
<1> QED BY <1>7, <1>9, <1>10, <1>11 DEF AcmeInv

LEMMA AcmeStepInv == AcmeInv /\ [AcmeNext]_acmevars => AcmeInv'
<1> SUFFICES ASSUME AcmeInv, [AcmeNext]_acmevars PROVE AcmeInv'
  OBVIOUS
<1>1. ASSUME NEW w \in Writers, WriterStep(w) PROVE AcmeInv'
  <2>1. ASSUME NEW tok \in Tokens, NEW ans \in Answers, fpm_acme_challenge_lock(w, "set", tok, ans)
        PROVE  AcmeInv'
    BY <2>1, LockInv
  <2>2. ASSUME NEW tok \in Tokens, fpm_acme_challenge_lock(w, "clear", tok, 0) PROVE AcmeInv'
    BY <2>2, LockInv
  <2> QED BY <1>1, <2>1, <2>2, DraftInv, EditInv, PublishInv, KilledInv DEF WriterStep
<1>2. CASE UNCHANGED acmevars
  <2>1. acme' = acme /\ writer' = writer /\ lookup' = lookup
    BY <1>2 DEF acmevars
  <2>2. InForce' = InForce /\ Draft' = Draft
    BY <2>1 DEF InForce, Draft
  <2>3. Types' /\ Exclusive'
    BY <2>1 DEF AcmeInv, Types, Exclusive
  <2>4. Whole(InForce, 0)' /\ \A w \in Writers : Drafted(writer[w])'
    BY <2>1, <2>2 DEF AcmeInv, Whole, Drafted
  <2>5. Looked' /\ LookupTrue'
    BY <2>1, <2>2 DEF AcmeInv, Looked, LookedAt, LookupTrue
  <2> QED BY <2>3, <2>4, <2>5 DEF AcmeInv
<1> QED BY <1>1, <1>2, LookupStartInv, LookupInv, LookupOverInv DEF AcmeNext

\* For any set of writers, of tokens and of answers, any table size and any
\* number of attempts: the table in force is whole, and what a lookup says was
\* true at one moment of its run (fpm_acme_challenge.c).
THEOREM AcmeTheorem == AcmeSpec => []AcmeSound
<1>1. AcmeInv => AcmeSound
  <2> SUFFICES ASSUME AcmeInv PROVE AcmeTypeOK /\ LookupTrue
    BY DEF AcmeSound
  <2>1. acme.gen \in Nat /\ acme.gen % 2 \in {0, 1} /\ acme.table \in [{0, 1} -> AcmeTable]
    BY Parity DEF AcmeInv, Types, AcmeState
  <2>2. InForce.count \in 0 .. Entries
    BY <2>1 DEF InForce, AcmeTable
  <2>3. /\ \A i, j \in 1 .. InForce.count : InForce.entry[i].tok = InForce.entry[j].tok => i = j
        /\ \A i \in 1 .. InForce.count : i # 0 => InForce.entry[i].ans \in Answers
    BY DEF AcmeInv, Whole
  <2>4. \A i \in 1 .. InForce.count : i # 0
    BY SMT
  <2>5. AcmeTypeOK
    BY <2>2, <2>3, <2>4 DEF AcmeTypeOK, InForce
  <2> QED BY <2>5 DEF AcmeInv
<1> QED BY <1>1, AcmeInitInv, AcmeStepInv, PTL DEF AcmeSpec

-----------------------------------------------------------------------------
(***************************************************************************)
(* The reload of a certificate, proved for any number of gateways, of      *)
(* certificates and of tries: TlsSound holds however the writes of the     *)
(* files, the steps of the master and the copies of the gateways fall.     *)
(*                                                                         *)
(* The inductive invariant TlsInv follows the two slots.  The published    *)
(* one is what the history ends with, and no step writes to it; the other  *)
(* one is never older than the publication it had been.  So a copy whose   *)
(* counter has not moved is a publication, and any other copy is at least  *)
(* not older than the generation it was begun for.  The order of the       *)
(* certificates comes from the files, whose certificate never goes back.   *)
(***************************************************************************)

Cert == [id : Nat, key : Nat]
SlotContent == [leaf : Nat, chain : Nat, certkey : Nat, key : Nat]
MasterPcs == {"idle", "dkey", "vcert", "vkey", "lcert", "lkey", "fill", "rest", "publish"}
GatePcs == {"boot", "idle", "leaf", "rest", "again", "ctx"}
Gate == [pc : GatePcs, gen : Nat, tries : Nat, copy : SlotContent, ctx : SlotContent,
         seen : Nat, hook : BOOLEAN, spent : BOOLEAN, deaths : Nat]

FilesTyped == files \in [cert : Cert, key : Nat, issued : Nat, kept : Cert]
MasterTyped == tm \in [pc : MasterPcs, cert : Cert, key : Nat, dcert : Cert, dkey : Nat,
                       fresh : SlotContent]
SharedTyped == shm \in [gen : Nat, slot : [1 .. 2 -> SlotContent], hist : Seq(SlotContent)]
GatesTyped == gate \in [Gateways -> Gate]

\* The certificate the next read of the file that finds one will find, at least.
Newest == IF files.cert = NoCert THEN files.kept.id ELSE files.cert.id

FilesOrdered == files.kept.id = files.issued /\ Newest <= files.issued

\* The history h: in the order of issue, and every reload of a fitting pair.
Ordered(h) == \A i, j \in 1 .. Len(h) : i <= j => h[i].leaf <= h[j].leaf
Fitting(h) == \A i \in 2 .. Len(h) : KeyFits(h[i])

\* What the master has loaded and is about to publish.
Loaded ==
  /\ tm.pc \in {"lkey", "fill", "rest", "publish"} =>
       shm.hist[shm.gen + 1].leaf <= tm.fresh.leaf /\ tm.fresh.leaf <= Newest
  /\ tm.pc \in {"fill", "rest", "publish"} => KeyFits(tm.fresh)

Slots ==
  /\ Len(shm.hist) = shm.gen + 1
  /\ Slot(shm.gen) = shm.hist[shm.gen + 1]
  /\ shm.gen > 0 => shm.hist[shm.gen].leaf <= shm.slot[Unpublished].leaf
  /\ tm.pc = "rest" => /\ shm.slot[Unpublished].leaf = tm.fresh.leaf
                       /\ shm.slot[Unpublished].certkey = tm.fresh.certkey
  /\ tm.pc = "publish" => shm.slot[Unpublished] = tm.fresh

\* A gateway r, when the counter is at n and h has been published.
Follows(r, n, h) ==
  /\ r.gen <= n /\ r.seen <= n
  /\ r.pc \in {"leaf", "rest", "again"} => r.tries > 0
  /\ r.pc \in {"rest", "again", "ctx"} => h[r.gen + 1].leaf <= r.copy.leaf
  /\ r.pc = "rest" /\ r.gen = n => /\ r.copy.leaf = h[r.gen + 1].leaf
                                   /\ r.copy.certkey = h[r.gen + 1].certkey
  /\ r.pc = "again" /\ r.gen = n => r.copy = h[r.gen + 1]
  /\ r.pc = "ctx" /\ r.tries > 0 => r.copy = h[r.gen + 1]

\* What it serves.
Serves(r, n, h) ==
  /\ r.ctx = NoSlot => r.seen = 0
  /\ r.ctx # NoSlot => h[r.seen + 1].leaf <= r.ctx.leaf
  /\ r.ctx # NoSlot /\ ~r.spent => \E i \in 1 .. Len(h) : r.ctx = h[i]

Faithful == \A g \in Gateways : Follows(gate[g], shm.gen, shm.hist) /\ Serves(gate[g], shm.gen, shm.hist)

Typed == FilesTyped /\ MasterTyped /\ SharedTyped /\ GatesTyped

Issued == /\ Ordered(shm.hist) /\ Fitting(shm.hist) /\ shm.hist[shm.gen + 1].leaf <= Newest

TlsInv == Typed /\ FilesOrdered /\ Issued /\ Loaded /\ Slots /\ Faithful


-----------------------------------------------------------------------------
(* The files                                                               *)

\* One rename leaves the certificates in order: the file never goes back to an
\* older one (the owner of the files, as fpm_tls_reload_master_tick sees it).
LEMMA FilesAdvance ==
  ASSUME FilesTyped, FilesOrdered, Issue \/ IssueRest \/ Vanish
  PROVE  FilesTyped' /\ FilesOrdered' /\ Newest <= Newest' /\ UNCHANGED <<tlsconf, tm, shm, gate>>
<1>0. /\ files \in [cert : Cert, key : Nat, issued : Nat, kept : Cert]
      /\ files.cert \in Cert /\ files.kept \in Cert /\ files.key \in Nat /\ files.issued \in Nat
      /\ files.cert.id \in Nat /\ files.kept.id \in Nat /\ files.kept.key \in Nat
  BY DEF FilesTyped, Cert
<1>1. CASE Issue
  <2>1. files.cert = files.kept /\ UNCHANGED <<tlsconf, tm, shm, gate>>
    BY <1>1 DEF Issue
  <2>2. ASSUME NEW k \in Nat, NEW c \in Cert,
               c = [id |-> files.issued + 1, key |-> k],
               files' = [cert |-> c, key |-> k, issued |-> files.issued + 1, kept |-> c]
                 \/ files' = [cert |-> files.cert, key |-> k, issued |-> files.issued + 1, kept |-> c]
                 \/ files' = [cert |-> c, key |-> files.key, issued |-> files.issued + 1, kept |-> c]
        PROVE  FilesTyped' /\ FilesOrdered' /\ Newest <= Newest'
    <3>1. FilesTyped'
      BY <1>0, <2>2, SMTT(30) DEF FilesTyped
    <3>2. /\ files'.kept = c /\ files'.issued = files.issued + 1
          /\ files'.cert = c \/ files'.cert = files.cert
      BY <2>2, SMT
    <3>3. c.id = files.issued + 1 /\ c # NoCert
      BY <1>0, <2>2, SMT DEF NoCert
    <3>4. Newest = files.issued
      BY <2>1 DEF FilesOrdered, Newest
    <3>5. Newest' = files.issued + 1 \/ Newest' = files.issued
      BY <3>2, <3>3, <3>4 DEF Newest
    <3> QED
      BY <1>0, <3>1, <3>2, <3>3, <3>4, <3>5, SMTT(30) DEF FilesOrdered
  <2>3. CASE \E k \in {files.key, files.key + 1} \ {0} :
               files' = [files EXCEPT !.key = k, !.issued = @ + 1,
                                      !.cert = IF k = files.key THEN [id |-> files.issued + 1, key |-> k] ELSE @,
                                      !.kept = [id |-> files.issued + 1, key |-> k]]
    <3>1. PICK k \in {files.key, files.key + 1} \ {0} :
            files' = [files EXCEPT !.key = k, !.issued = @ + 1,
                                   !.cert = IF k = files.key THEN [id |-> files.issued + 1, key |-> k] ELSE @,
                                   !.kept = [id |-> files.issued + 1, key |-> k]]
      BY <2>3
    <3> DEFINE c == [id |-> files.issued + 1, key |-> k]
    <3>2. k \in Nat /\ c \in Cert
      BY <1>0, SMT DEF Cert
    <3>3. \/ files' = [cert |-> c, key |-> k, issued |-> files.issued + 1, kept |-> c]
          \/ files' = [cert |-> files.cert, key |-> k, issued |-> files.issued + 1, kept |-> c]
      BY <1>0, <3>1
    <3> QED
      BY <2>1, <2>2, <3>2, <3>3
  <2>4. CASE files' = [files EXCEPT !.cert = [id |-> files.issued + 1, key |-> files.key + 1], !.issued = @ + 1,
                                    !.kept = [id |-> files.issued + 1, key |-> files.key + 1]]
    <3> DEFINE k == files.key + 1
               c == [id |-> files.issued + 1, key |-> k]
    <3>1. k \in Nat /\ c \in Cert
      BY <1>0, SMT DEF Cert
    <3>2. files' = [cert |-> c, key |-> files.key, issued |-> files.issued + 1, kept |-> c]
      BY <1>0, <2>4
    <3> QED
      BY <2>1, <2>2, <3>1, <3>2
  <2> QED
    BY <1>1, <2>3, <2>4 DEF Issue
<1>2. CASE IssueRest
  <2>1. /\ files' = [cert |-> files.kept, key |-> files.kept.key, issued |-> files.issued, kept |-> files.kept]
        /\ UNCHANGED <<tlsconf, tm, shm, gate>>
    BY <1>0, <1>2 DEF IssueRest
  <2>2. FilesTyped'
    BY <1>0, <2>1 DEF FilesTyped
  <2>3. files'.kept = files.kept /\ files'.issued = files.issued /\ Newest' = files.kept.id
    BY <2>1 DEF Newest
  <2> QED
    BY <1>0, <2>1, <2>2, <2>3, SMT DEF FilesOrdered
<1>3. CASE Vanish
  <2>1. /\ files' = [cert |-> NoCert, key |-> files.key, issued |-> files.issued, kept |-> files.kept]
        /\ UNCHANGED <<tlsconf, tm, shm, gate>> /\ files.cert = files.kept
    BY <1>0, <1>3 DEF Vanish
  <2>2. FilesTyped'
    BY <1>0, <2>1 DEF FilesTyped, Cert, NoCert
  <2>3. files'.kept = files.kept /\ files'.issued = files.issued /\ Newest' = files.kept.id
    BY <2>1 DEF Newest
  <2> QED
    BY <1>0, <2>1, <2>2, <2>3 DEF FilesOrdered, Newest
<1> QED
  BY <1>1, <1>2, <1>3

-----------------------------------------------------------------------------
(* The master                                                              *)

\* A tick up to the load changes nothing that is shared, and what it leaves the
\* load with fits and is not older than the last publication.
LEMMA MasterReads ==
  ASSUME Typed, Issued, Loaded, Slots,
         file_digest \/ fpm_tls_http_validate \/ fpm_tls_http_load
  PROVE  MasterTyped' /\ Loaded' /\ Slots' /\ UNCHANGED <<tlsconf, files, shm, gate>>
<1> USE DEF Typed, MasterTyped, MasterPcs, SlotContent, Cert
<1>1. UNCHANGED <<tlsconf, files, shm, gate>>
  BY DEF file_digest, fpm_tls_http_validate, fpm_tls_http_load
<1>2. Newest' = Newest /\ Slot(shm.gen)' = Slot(shm.gen) /\ Unpublished' = Unpublished
  BY <1>1 DEF Newest, Slot, Unpublished
<1>3. files.cert \in Cert /\ files.key \in Nat /\ Newest \in Nat
  BY DEF FilesTyped, Newest
<1>0. /\ Pair(files.cert, 0) \in SlotContent /\ Pair(files.cert, 0).leaf = files.cert.id
      /\ [tm.fresh EXCEPT !.key = files.key] \in SlotContent
      /\ [tm.fresh EXCEPT !.key = files.key].leaf = tm.fresh.leaf
  BY <1>3 DEF Pair
<1>4. CASE file_digest
  <2>1. MasterTyped' /\ tm'.pc \in {"idle", "dkey", "vcert"}
    BY <1>3, <1>4 DEF file_digest
  <2> QED
    BY <1>1, <1>2, <2>1 DEF Loaded, Slots
<1>5. CASE fpm_tls_http_validate
  <2>1. MasterTyped' /\ tm'.pc \in {"idle", "vkey", "lcert"}
    <3>1. CASE TmAt("vcert") /\ files.cert = NoCert
      BY <1>5, <3>1 DEF fpm_tls_http_validate, TmAt, Handled
    <3>2. CASE TmAt("vcert") /\ files.cert # NoCert
      <4>1. tm' = [tm EXCEPT !.pc = "vkey", !.fresh = Pair(files.cert, 0)]
        BY <1>5, <3>2 DEF fpm_tls_http_validate, TmAt
      <4> QED
        BY <1>0, <4>1
    <3>3. CASE TmAt("vkey")
      <4>1. tm' = [tm EXCEPT !.pc = "lcert"] \/ tm' = Handled(tm)
        BY <1>5, <3>3 DEF fpm_tls_http_validate, TmAt
      <4> QED
        BY <4>1 DEF Handled
    <3> QED
      BY <1>5, <3>1, <3>2, <3>3 DEF fpm_tls_http_validate
  <2> QED
    BY <1>1, <1>2, <2>1 DEF Loaded, Slots
<1>6. CASE fpm_tls_http_load
  <2>1. CASE TmAt("lcert")
    <3>1. CASE files.cert = NoCert
      <4>1. MasterTyped' /\ tm'.pc = "idle"
        BY <1>6, <2>1, <3>1 DEF fpm_tls_http_load, TmAt
      <4> QED
        BY <1>1, <1>2, <4>1 DEF Loaded, Slots
    <3>2. CASE files.cert # NoCert
      <4>1. MasterTyped' /\ tm'.pc = "lkey" /\ tm'.fresh.leaf = files.cert.id
        <5>1. tm' = [tm EXCEPT !.pc = "lkey", !.fresh = Pair(files.cert, 0)]
          BY <1>6, <2>1, <3>2 DEF fpm_tls_http_load, TmAt
        <5> QED
          BY <1>0, <5>1
      <4>2. shm.hist[shm.gen + 1].leaf <= tm'.fresh.leaf /\ tm'.fresh.leaf <= Newest
        BY <1>3, <3>2, <4>1, SMT DEF Issued, Newest
      <4> QED
        BY <1>1, <1>2, <4>1, <4>2 DEF Loaded, Slots
    <3> QED
      BY <3>1, <3>2
  <2>2. CASE TmAt("lkey")
    <3>1. CASE KeyFits([tm.fresh EXCEPT !.key = files.key])
      <4>1. MasterTyped' /\ tm'.pc = "fill" /\ tm'.fresh = [tm.fresh EXCEPT !.key = files.key]
        <5>1. tm' = [tm EXCEPT !.pc = "fill", !.fresh.key = files.key]
          BY <1>6, <2>2, <3>1 DEF fpm_tls_http_load, TmAt
        <5>2. tm' = [tm EXCEPT !.pc = "fill", !.fresh = [tm.fresh EXCEPT !.key = files.key]]
          BY <5>1
        <5> QED
          BY <1>0, <5>2
      <4>2. tm'.fresh.leaf = tm.fresh.leaf /\ KeyFits(tm'.fresh)
        BY <1>0, <3>1, <4>1
      <4> QED
        BY <1>1, <1>2, <2>2, <4>1, <4>2 DEF Loaded, Slots, TmAt
    <3>2. CASE ~KeyFits([tm.fresh EXCEPT !.key = files.key])
      <4>1. MasterTyped' /\ tm'.pc = "idle"
        BY <1>6, <2>2, <3>2 DEF fpm_tls_http_load, TmAt
      <4> QED
        BY <1>1, <1>2, <4>1 DEF Loaded, Slots
    <3> QED
      BY <3>1, <3>2
  <2> QED
    BY <1>6, <2>1, <2>2 DEF fpm_tls_http_load
<1> QED
  BY <1>1, <1>4, <1>5, <1>6

-----------------------------------------------------------------------------
(* The two slots                                                           *)

\* The parity of the counter: two slots, and the next generation has the other.
LEMMA TwoSlots ==
  ASSUME NEW n \in Nat
  PROVE  /\ (n % 2) + 1 \in 1 .. 2 /\ ((n + 1) % 2) + 1 \in 1 .. 2
         /\ n % 2 # (n + 1) % 2 /\ (n % 2) + 1 # ((n + 1) % 2) + 1 /\ ((n + 1) + 1) % 2 = n % 2
         /\ \A m \in Nat : m % 2 = n % 2 \/ m % 2 = (n + 1) % 2
BY SMT

\* What the history holds.
LEMMA HistoryTyped ==
  ASSUME SharedTyped, Slots
  PROVE  /\ shm.gen \in Nat /\ shm.hist \in Seq(SlotContent) /\ Len(shm.hist) = shm.gen + 1
         /\ \A i \in 1 .. shm.gen + 1 : shm.hist[i] \in SlotContent /\ shm.hist[i].leaf \in Nat
<1>1. shm.gen \in Nat /\ shm.hist \in Seq(SlotContent) /\ Len(shm.hist) = shm.gen + 1
  BY DEF SharedTyped, Slots
<1>2. \A i \in 1 .. shm.gen + 1 : shm.hist[i] \in SlotContent
  BY <1>1, SMT
<1> QED
  BY <1>1, <1>2 DEF SlotContent

LEMMA SameSlot ==
  ASSUME NEW a \in SlotContent, NEW b \in SlotContent,
         a.leaf = b.leaf, a.chain = b.chain, a.certkey = b.certkey, a.key = b.key
  PROVE  a = b
BY SMT DEF SlotContent

\* A slot is never older than any of the publications it has held.
LEMMA SlotNotOlder ==
  ASSUME SharedTyped, Issued, Slots, NEW m \in 0 .. shm.gen
  PROVE  shm.hist[m + 1].leaf <= Slot(m).leaf
<1> DEFINE n == shm.gen
<1>1. n \in Nat /\ Len(shm.hist) = n + 1 /\ m \in Nat /\ m <= n
  BY HistoryTyped, SMT
<1>2. \A i \in 1 .. n + 1 : shm.hist[i].leaf \in Nat
  BY HistoryTyped
<1> HIDE DEF n
<1>3. \A i \in 1 .. 2 : shm.slot[i].leaf \in Nat
  BY DEF SharedTyped, SlotContent
<1>4. CASE m % 2 = n % 2
  <2>1. Slot(m).leaf = shm.hist[n + 1].leaf
    BY <1>4 DEF Slot, Slots, n
  <2>2. m + 1 \in 1 .. Len(shm.hist) /\ n + 1 \in 1 .. Len(shm.hist) /\ m + 1 <= n + 1
    BY <1>1, SMT
  <2>3. shm.hist[m + 1].leaf <= shm.hist[n + 1].leaf
    BY <2>2 DEF Issued, Ordered
  <2> QED
    BY <2>1, <2>3
<1>5. CASE m % 2 = (n + 1) % 2
  <2>1. m # n
    BY <1>1, <1>5, TwoSlots
  <2>2. n > 0 /\ m + 1 <= n /\ m + 1 \in 1 .. n + 1 /\ n \in 1 .. n + 1
    BY <1>1, <2>1, SMT
  <2>3. Slot(m) = shm.slot[Unpublished]
    BY <1>5 DEF Slot, Unpublished, n
  <2>4. shm.hist[n].leaf <= Slot(m).leaf
    BY <2>2, <2>3 DEF Slots, n
  <2>5. shm.hist[m + 1].leaf <= shm.hist[n].leaf
    BY <1>1, <2>2 DEF Issued, Ordered
  <2>6. Slot(m).leaf \in Nat
    BY <1>1, <1>3, <2>3, TwoSlots DEF Unpublished, n
  <2> QED
    BY <1>2, <2>2, <2>4, <2>5, <2>6, SMT
<1> QED
  BY <1>1, <1>4, <1>5, TwoSlots

\* The first half of the unpublished slot, then the second: the published slot,
\* the counter and the history stay (publish).
LEMMA MasterFills ==
  ASSUME Typed, Issued, Loaded, Slots, publish, tm.pc # "publish"
  PROVE  /\ MasterTyped' /\ SharedTyped' /\ Loaded' /\ Slots'
         /\ shm'.gen = shm.gen /\ shm'.hist = shm.hist
         /\ UNCHANGED <<tlsconf, files, gate>>
<1> DEFINE n == shm.gen
           u == Unpublished
<1>1. /\ n \in Nat /\ u \in 1 .. 2 /\ (n % 2) + 1 \in 1 .. 2 /\ (n % 2) + 1 # u
  <2>1. n \in Nat
    BY DEF Typed, SharedTyped
  <2> QED
    BY <2>1, TwoSlots DEF Unpublished
<1>2. /\ tm.fresh \in SlotContent /\ shm.slot \in [1 .. 2 -> SlotContent] /\ shm.slot[u] \in SlotContent
  BY <1>1 DEF Typed, MasterTyped, SharedTyped
<1>3. UNCHANGED <<tlsconf, files, gate>>
  BY DEF publish, TmAt
<1>4. Newest' = Newest
  BY <1>3 DEF Newest
<1>5. n > 0 => shm.hist[n].leaf <= shm.hist[n + 1].leaf
  BY <1>1, SMTT(30) DEF Issued, Ordered, Slots
<1>6. \A i \in 1 .. n + 1 : shm.hist[i].leaf \in Nat
  BY HistoryTyped DEF Typed
<1>7. CASE TmAt("fill")
  <2>1. /\ tm' = [tm EXCEPT !.pc = "rest"]
        /\ shm' = [shm EXCEPT !.slot[u].leaf = tm.fresh.leaf, !.slot[u].certkey = tm.fresh.certkey]
    BY <1>7 DEF publish, TmAt
  <2>2. MasterTyped' /\ tm'.pc = "rest" /\ tm'.fresh = tm.fresh
    BY <2>1 DEF Typed, MasterTyped, MasterPcs
  <2>3. /\ shm'.gen = n /\ shm'.hist = shm.hist
        /\ shm'.slot = [shm.slot EXCEPT ![u] = [@ EXCEPT !.leaf = tm.fresh.leaf, !.certkey = tm.fresh.certkey]]
    BY <1>1, <1>2, <2>1 DEF Typed, SharedTyped, SlotContent
  <2>4. SharedTyped'
    BY <1>1, <1>2, <2>1, <2>3 DEF Typed, SharedTyped, SlotContent
  <2>5. Unpublished' = u /\ Slot(shm.gen)' = Slot(shm.gen)
    BY <1>1, <1>2, <2>3 DEF Slot, Unpublished
  <2>6. shm'.slot[u].leaf = tm.fresh.leaf /\ shm'.slot[u].certkey = tm.fresh.certkey
    BY <1>1, <1>2, <2>3 DEF SlotContent
  <2>7. shm.hist[n + 1].leaf <= tm.fresh.leaf
    BY <1>7 DEF Loaded, TmAt
  <2>8. n > 0 => shm'.hist[n].leaf <= shm'.slot[u].leaf
    BY <1>1, <1>2, <1>5, <1>6, <2>3, <2>6, <2>7, SMTT(30) DEF SlotContent
  <2>9. Slots'
    BY <2>2, <2>3, <2>5, <2>6, <2>8 DEF Slots
  <2>10. Loaded'
    BY <1>4, <1>7, <2>2, <2>3 DEF Loaded, TmAt
  <2> QED
    BY <1>3, <2>2, <2>3, <2>4, <2>9, <2>10
<1>8. CASE TmAt("rest")
  <2>1. /\ tm' = [tm EXCEPT !.pc = "publish"]
        /\ shm' = [shm EXCEPT !.slot[u].chain = tm.fresh.chain, !.slot[u].key = tm.fresh.key]
    BY <1>8 DEF publish, TmAt
  <2>2. MasterTyped' /\ tm'.pc = "publish" /\ tm'.fresh = tm.fresh
    BY <2>1 DEF Typed, MasterTyped, MasterPcs
  <2>3. /\ shm'.gen = n /\ shm'.hist = shm.hist
        /\ shm'.slot = [shm.slot EXCEPT ![u] = [@ EXCEPT !.chain = tm.fresh.chain, !.key = tm.fresh.key]]
    BY <1>1, <1>2, <2>1 DEF Typed, SharedTyped, SlotContent
  <2>4. SharedTyped'
    BY <1>1, <1>2, <2>1, <2>3 DEF Typed, SharedTyped, SlotContent
  <2>5. Unpublished' = u /\ Slot(shm.gen)' = Slot(shm.gen)
    BY <1>1, <1>2, <2>3 DEF Slot, Unpublished
  <2>6. shm.slot[u].leaf = tm.fresh.leaf /\ shm.slot[u].certkey = tm.fresh.certkey
    BY <1>8 DEF Slots, TmAt
  <2>7. shm'.slot[u] = tm.fresh
    <3> DEFINE b == shm.slot[u]
               a == [b EXCEPT !.chain = tm.fresh.chain, !.key = tm.fresh.key]
    <3>1. shm'.slot[u] = a
      BY <1>1, <1>2, <2>3
    <3>2. /\ a \in SlotContent /\ a.leaf = b.leaf /\ a.certkey = b.certkey
          /\ a.chain = tm.fresh.chain /\ a.key = tm.fresh.key
      BY <1>2 DEF SlotContent
    <3> HIDE DEF a, b
    <3>3. a.leaf = tm.fresh.leaf /\ a.certkey = tm.fresh.certkey
      BY <2>6, <3>2 DEF b
    <3> QED
      BY <1>2, <3>1, <3>2, <3>3, SameSlot
  <2>8. n > 0 => shm'.hist[n].leaf <= shm'.slot[u].leaf
    BY <2>3, <2>6, <2>7 DEF Slots
  <2>9. Slots'
    BY <2>2, <2>3, <2>5, <2>7, <2>8 DEF Slots
  <2>10. Loaded'
    BY <1>4, <1>8, <2>2, <2>3 DEF Loaded, TmAt
  <2> QED
    BY <1>3, <2>2, <2>3, <2>4, <2>9, <2>10
<1> QED
  BY <1>7, <1>8 DEF publish, TmAt

\* The counter moves: what was unpublished becomes the end of the history, and
\* what was published is now the slot that may be written (publish).
LEMMA MasterPublishes ==
  ASSUME Typed, Issued, Loaded, Slots, publish, tm.pc = "publish"
  PROVE  /\ MasterTyped' /\ SharedTyped' /\ Issued' /\ Loaded' /\ Slots'
         /\ shm'.gen = shm.gen + 1 /\ shm'.hist = Append(shm.hist, tm.fresh)
         /\ UNCHANGED <<tlsconf, files, gate>>
<1> DEFINE n == shm.gen
           h == shm.hist
           f == tm.fresh
<1>1. /\ n \in Nat /\ h \in Seq(SlotContent) /\ Len(h) = n + 1 /\ f \in SlotContent
      /\ shm.slot \in [1 .. 2 -> SlotContent]
  BY DEF Typed, SharedTyped, MasterTyped, Slots
<1>2. /\ tm' = Handled(tm) /\ shm' = [shm EXCEPT !.gen = n + 1, !.hist = Append(h, f)]
      /\ UNCHANGED <<tlsconf, files, gate>>
  BY DEF publish, TmAt
<1>3. MasterTyped' /\ tm'.pc = "idle"
  BY <1>2 DEF Typed, MasterTyped, MasterPcs, Handled
<1>4. shm'.gen = n + 1 /\ shm'.hist = Append(h, f) /\ shm'.slot = shm.slot
  BY <1>2 DEF Typed, SharedTyped
<1>5. SharedTyped'
  <2>1. Append(h, f) \in Seq(SlotContent) /\ n + 1 \in Nat
    BY <1>1, SMT
  <2> QED
    BY <1>2, <2>1 DEF Typed, SharedTyped
<1>6. /\ Len(shm'.hist) = n + 2
      /\ \A i \in 1 .. n + 1 : shm'.hist[i] = h[i]
      /\ shm'.hist[n + 2] = f
  BY <1>1, <1>4, SMTT(30)
<1>7. \A i \in 1 .. n + 1 : h[i].leaf \in Nat
  BY HistoryTyped DEF Typed
<1>8. h[n + 1].leaf <= f.leaf /\ f.leaf <= Newest /\ KeyFits(f)
  BY DEF Loaded
<1>9. Newest' = Newest
  BY <1>2 DEF Newest
<1>10. Ordered(shm'.hist)
  <2>1. SUFFICES ASSUME NEW i \in 1 .. n + 2, NEW j \in 1 .. n + 2, i <= j
                 PROVE  shm'.hist[i].leaf <= shm'.hist[j].leaf
    BY <1>6 DEF Ordered
  <2>2. CASE j <= n + 1
    <3>1. i \in 1 .. n + 1 /\ j \in 1 .. n + 1
      BY <1>1, <2>1, <2>2, SMT
    <3>2. h[i].leaf <= h[j].leaf
      BY <1>1, <2>1, <3>1 DEF Issued, Ordered
    <3> QED
      BY <1>6, <3>1, <3>2
  <2>3. CASE j = n + 2 /\ i <= n + 1
    <3>1. h[i].leaf <= h[n + 1].leaf
      BY <1>1, <2>3, SMTT(30) DEF Issued, Ordered
    <3>2. i \in 1 .. n + 1 /\ n + 1 \in 1 .. n + 1
      BY <1>1, <2>3, SMT
    <3>3. f.leaf \in Nat /\ h[i].leaf \in Nat /\ h[n + 1].leaf \in Nat
      BY <1>1, <1>7, <3>2 DEF SlotContent
    <3>4. h[i].leaf <= f.leaf
      BY <1>8, <3>1, <3>3, SMT
    <3> QED
      BY <1>6, <2>3, <3>2, <3>4
  <2>4. CASE j = n + 2 /\ i = n + 2
    <3>1. f.leaf \in Nat
      BY <1>1 DEF SlotContent
    <3>2. shm'.hist[i].leaf = f.leaf /\ shm'.hist[j].leaf = f.leaf
      BY <1>6, <2>4
    <3> QED
      BY <3>1, <3>2, SMT
  <2> QED
    BY <1>1, <2>2, <2>3, <2>4, SMT
<1>11. Fitting(shm'.hist)
  <2>1. SUFFICES ASSUME NEW i \in 2 .. n + 2
                 PROVE  KeyFits(shm'.hist[i])
    BY <1>6 DEF Fitting
  <2>2. CASE i <= n + 1
    BY <1>1, <1>6, <2>2, SMT DEF Issued, Fitting
  <2>3. CASE i = n + 2
    BY <1>6, <1>8, <2>3
  <2> QED
    BY <1>1, <2>2, <2>3, SMT
<1>12. Issued'
  BY <1>1, <1>4, <1>6, <1>8, <1>9, <1>10, <1>11, SMTT(30) DEF Issued
<1>13. Slot(shm.gen)' = f
  <2>1. Slot(shm.gen)' = shm.slot[Unpublished]
    BY <1>4 DEF Slot, Unpublished
  <2> QED
    BY <2>1 DEF Slots
<1>14. shm'.slot[Unpublished'] = h[n + 1]
  <2>1. Unpublished' = (n % 2) + 1
    BY <1>1, <1>4, TwoSlots DEF Unpublished
  <2> QED
    BY <1>4, <2>1 DEF Slots, Slot
<1>15. Slots'
  <2>1. n + 1 \in 1 .. n + 1 /\ (n + 1) + 1 = n + 2 /\ h[n + 1].leaf \in Nat
    BY <1>1, <1>7, SMTT(30)
  <2>2. Len(shm'.hist) = shm'.gen + 1 /\ Slot(shm.gen)' = shm'.hist[shm'.gen + 1]
    BY <1>4, <1>6, <1>13, <2>1
  <2>3. shm'.hist[shm'.gen].leaf <= shm'.slot[Unpublished'].leaf
    BY <1>4, <1>6, <1>14, <2>1, SMT
  <2> QED
    BY <1>3, <2>2, <2>3 DEF Slots
<1>16. Loaded'
  BY <1>3 DEF Loaded
<1> QED
  BY <1>2, <1>3, <1>4, <1>5, <1>12, <1>15, <1>16

-----------------------------------------------------------------------------
(* The gateways                                                            *)

\* A publication leaves every gateway as sound as it was: its copy was begun for
\* an older generation now, of which less is promised.
LEMMA GateOutlives ==
  ASSUME NEW n \in Nat, NEW h \in Seq(SlotContent), Len(h) = n + 1, NEW f \in SlotContent,
         NEW r \in Gate, Follows(r, n, h), Serves(r, n, h)
  PROVE  Follows(r, n + 1, Append(h, f)) /\ Serves(r, n + 1, Append(h, f))
<1> DEFINE k == Append(h, f)
<1>1. Len(k) = n + 2 /\ \A i \in 1 .. n + 1 : k[i] = h[i]
  BY SMT
<1>2. r.gen \in Nat /\ r.seen \in Nat /\ r.gen <= n /\ r.seen <= n
  BY DEF Gate, Follows
<1>3. r.gen + 1 \in 1 .. n + 1 /\ r.seen + 1 \in 1 .. n + 1 /\ r.gen # n + 1
  BY <1>2, SMTT(30)
<1>4. k[r.gen + 1] = h[r.gen + 1] /\ k[r.seen + 1] = h[r.seen + 1]
  BY <1>1, <1>3
<1>5. Follows(r, n + 1, k)
  BY <1>2, <1>3, <1>4, SMT DEF Follows
<1>6. ASSUME r.ctx # NoSlot, ~r.spent
      PROVE  \E i \in 1 .. Len(k) : r.ctx = k[i]
  <2>1. PICK i \in 1 .. Len(h) : r.ctx = h[i]
    BY <1>6 DEF Serves
  <2>2. i \in 1 .. Len(k) /\ r.ctx = k[i]
    BY <1>1, <2>1, SMT
  <2> QED
    BY <2>2
<1>7. Serves(r, n + 1, k)
  BY <1>4, <1>6 DEF Serves
<1> QED
  BY <1>5, <1>7

\* What a step of gateway g may make of it.
Sound(r) == r \in Gate /\ Follows(r, shm.gen, shm.hist) /\ Serves(r, shm.gen, shm.hist)

\* The start of a gateway and its tick: a copy is begun for the published slot
\* (fpm_tls_reload_child_ctx_new, fpm_tls_reload_child_tick).
LEMMA GateBegins ==
  ASSUME TlsInv, NEW g \in Gateways,
         fpm_tls_reload_child_ctx_new(g) \/ fpm_tls_reload_child_tick(g)
  PROVE  \E r \in Gate : Sound(r) /\ SetGate(g, r)
<1> DEFINE r == gate[g]
           n == shm.gen
           h == shm.hist
<1>1. r \in Gate /\ Follows(r, n, h) /\ Serves(r, n, h) /\ n \in Nat
  BY DEF TlsInv, Typed, GatesTyped, SharedTyped, Faithful
<1>2. CASE SetGate(g, [r EXCEPT !.pc = "idle", !.hook = TRUE])
  <2> DEFINE s == [r EXCEPT !.pc = "idle", !.hook = TRUE]
  <2>1. s \in Gate /\ s.pc = "idle" /\ s.gen = r.gen /\ s.seen = r.seen /\ s.ctx = r.ctx /\ s.spent = r.spent
    BY <1>1 DEF Gate, GatePcs
  <2>2. Follows(s, n, h) /\ Serves(s, n, h)
    BY <1>1, <2>1 DEF Follows, Serves
  <2> QED
    BY <1>2, <2>1, <2>2 DEF Sound
<1>3. CASE SetGate(g, [r EXCEPT !.pc = "leaf", !.tries = Tries, !.gen = shm.gen])
  <2> DEFINE s == [r EXCEPT !.pc = "leaf", !.tries = Tries, !.gen = shm.gen]
  <2>1. s \in Gate /\ s.pc = "leaf" /\ s.tries = Tries /\ s.gen = n /\ s.seen = r.seen
        /\ s.ctx = r.ctx /\ s.spent = r.spent
    BY <1>1, TriesAssumption DEF Gate, GatePcs
  <2>2. Follows(s, n, h) /\ Serves(s, n, h)
    BY <1>1, <2>1, TriesAssumption, SMT DEF Follows, Serves
  <2> QED
    BY <1>3, <2>1, <2>2 DEF Sound
<1> QED
  BY <1>2, <1>3 DEF fpm_tls_reload_child_ctx_new, fpm_tls_reload_child_tick

\* The copy, in two halves, and the look at the counter after it: unmoved, the
\* copy is the publication it was begun for (fpm_tls_reload_snapshot).
LEMMA GateCopies ==
  ASSUME TlsInv, NEW g \in Gateways, fpm_tls_reload_snapshot(g)
  PROVE  \E r \in Gate : Sound(r) /\ SetGate(g, r)
<1> DEFINE r == gate[g]
           n == shm.gen
           h == shm.hist
           c == Slot(r.gen)
<1>1. r \in Gate /\ Follows(r, n, h) /\ Serves(r, n, h) /\ n \in Nat
  BY DEF TlsInv, Typed, GatesTyped, SharedTyped, Faithful
<1>2. r.gen \in 0 .. n
  BY <1>1, SMT DEF Gate, Follows
<1>3. h[r.gen + 1].leaf <= c.leaf
  BY <1>2, SlotNotOlder DEF TlsInv, Typed
<1>4. r.gen = n => c = h[r.gen + 1]
  BY DEF TlsInv, Slots
<1>5. c \in SlotContent
  BY <1>2, TwoSlots, SMTT(30) DEF TlsInv, Typed, SharedTyped, Slot
<1>6. h[r.gen + 1] \in SlotContent
  BY <1>2, SMT DEF TlsInv, Typed, SharedTyped, Slots
<1>7. CASE GateAt(g, "leaf")
  <2> DEFINE p == [NoSlot EXCEPT !.leaf = c.leaf, !.certkey = c.certkey]
             s == [r EXCEPT !.pc = "rest", !.copy = p]
  <2>1. p \in SlotContent /\ p.leaf = c.leaf /\ p.certkey = c.certkey
    BY <1>5 DEF NoSlot, SlotContent
  <2>2. /\ s \in Gate /\ s.pc = "rest" /\ s.tries = r.tries /\ s.gen = r.gen /\ s.seen = r.seen
        /\ s.ctx = r.ctx /\ s.spent = r.spent /\ s.copy = p
    BY <1>1, <2>1 DEF Gate, GatePcs
  <2>3. r.tries > 0
    BY <1>1, <1>7 DEF Follows, GateAt
  <2>4. Follows(s, n, h) /\ Serves(s, n, h)
    BY <1>1, <1>3, <1>4, <2>1, <2>2, <2>3 DEF Follows, Serves
  <2>5. SetGate(g, s)
    BY <1>7 DEF fpm_tls_reload_snapshot, GateAt
  <2> QED
    BY <2>2, <2>4, <2>5 DEF Sound
<1>8. CASE GateAt(g, "rest")
  <2> DEFINE p == [r.copy EXCEPT !.chain = c.chain, !.key = c.key]
             s == [r EXCEPT !.pc = "again", !.copy.chain = c.chain, !.copy.key = c.key]
  <2>0. r.copy \in SlotContent
    BY <1>1 DEF Gate
  <2>1. /\ p \in SlotContent /\ p.leaf = r.copy.leaf /\ p.certkey = r.copy.certkey
        /\ p.chain = c.chain /\ p.key = c.key
    BY <1>5, <2>0 DEF SlotContent
  <2>2. /\ s \in Gate /\ s.pc = "again" /\ s.tries = r.tries /\ s.gen = r.gen /\ s.seen = r.seen
        /\ s.ctx = r.ctx /\ s.spent = r.spent /\ s.copy = p
    BY <1>1, <2>1 DEF Gate, GatePcs
  <2>3. r.tries > 0 /\ h[r.gen + 1].leaf <= p.leaf
    BY <1>1, <1>8, <2>1 DEF Follows, GateAt
  <2>4. r.gen = n => p = h[r.gen + 1]
    <3>1. SUFFICES ASSUME r.gen = n
                   PROVE  p = h[r.gen + 1]
      OBVIOUS
    <3>2. r.copy.leaf = h[r.gen + 1].leaf /\ r.copy.certkey = h[r.gen + 1].certkey
      BY <1>1, <1>8, <3>1 DEF Follows, GateAt
    <3> QED
      BY <1>4, <1>6, <2>1, <3>1, <3>2 DEF SlotContent
  <2>5. Follows(s, n, h) /\ Serves(s, n, h)
    BY <1>1, <2>2, <2>3, <2>4 DEF Follows, Serves
  <2>6. SetGate(g, s)
    BY <1>8 DEF fpm_tls_reload_snapshot, GateAt
  <2> QED
    BY <2>2, <2>5, <2>6 DEF Sound
<1>9. CASE GateAt(g, "again")
  <2>1. r.tries \in Nat /\ r.tries > 0 /\ h[r.gen + 1].leaf <= r.copy.leaf
    BY <1>1, <1>9 DEF Follows, GateAt, Gate
  <2>2. CASE r.gen # n /\ r.tries - 1 > 0
    <3> DEFINE s == [r EXCEPT !.pc = "leaf", !.tries = r.tries - 1, !.gen = shm.gen]
    <3>0. r.tries - 1 \in Nat
      BY <2>1, SMT
    <3>1. /\ s \in Gate /\ s.pc = "leaf" /\ s.tries = r.tries - 1 /\ s.gen = n /\ s.seen = r.seen
          /\ s.ctx = r.ctx /\ s.spent = r.spent
      BY <1>1, <3>0 DEF Gate, GatePcs
    <3>2. Follows(s, n, h) /\ Serves(s, n, h)
      BY <1>1, <2>2, <3>1, SMT DEF Follows, Serves
    <3>3. SetGate(g, s)
      BY <1>9, <2>2 DEF fpm_tls_reload_snapshot, GateAt
    <3> QED
      BY <3>1, <3>2, <3>3 DEF Sound
  <2>3. CASE r.gen # n /\ ~(r.tries - 1 > 0)
    <3> DEFINE s == [r EXCEPT !.pc = "ctx", !.tries = r.tries - 1]
    <3>0. r.tries - 1 \in Nat
      BY <2>1, SMT
    <3>1. /\ s \in Gate /\ s.pc = "ctx" /\ s.tries = r.tries - 1 /\ s.gen = r.gen /\ s.seen = r.seen
          /\ s.ctx = r.ctx /\ s.spent = r.spent /\ s.copy = r.copy
      BY <1>1, <3>0 DEF Gate, GatePcs
    <3>2. Follows(s, n, h) /\ Serves(s, n, h)
      BY <1>1, <2>1, <2>3, <3>1 DEF Follows, Serves
    <3>3. SetGate(g, s)
      BY <1>9, <2>3 DEF fpm_tls_reload_snapshot, GateAt
    <3> QED
      BY <3>1, <3>2, <3>3 DEF Sound
  <2>4. CASE r.gen = n
    <3> DEFINE s == [r EXCEPT !.pc = "ctx", !.tries = r.tries]
    <3>1. /\ s \in Gate /\ s.pc = "ctx" /\ s.tries = r.tries /\ s.gen = r.gen /\ s.seen = r.seen
          /\ s.ctx = r.ctx /\ s.spent = r.spent /\ s.copy = r.copy
      BY <1>1, <2>1 DEF Gate, GatePcs
    <3>2. r.copy = h[r.gen + 1]
      BY <1>1, <1>9, <2>4 DEF Follows, GateAt
    <3>3. Follows(s, n, h) /\ Serves(s, n, h)
      BY <1>1, <2>1, <3>1, <3>2 DEF Follows, Serves
    <3>4. SetGate(g, s)
      BY <1>9, <2>4 DEF fpm_tls_reload_snapshot, GateAt
    <3> QED
      BY <3>1, <3>3, <3>4 DEF Sound
  <2> QED
    BY <2>2, <2>3, <2>4
<1> QED
  BY <1>7, <1>8, <1>9 DEF fpm_tls_reload_snapshot

\* The new context: it serves the copy if it fits, and counts the generation the
\* copy was begun for as seen (fpm_tls_http_ctx_new).
LEMMA GateAdopts ==
  ASSUME TlsInv, NEW g \in Gateways, fpm_tls_http_ctx_new(g)
  PROVE  \E r \in Gate : Sound(r) /\ SetGate(g, r)
<1> DEFINE r == gate[g]
           n == shm.gen
           h == shm.hist
<1>1. r \in Gate /\ Follows(r, n, h) /\ Serves(r, n, h) /\ n \in Nat /\ r.pc = "ctx"
  BY DEF TlsInv, Typed, GatesTyped, SharedTyped, Faithful, fpm_tls_http_ctx_new, GateAt
<1>2. r.gen \in 0 .. n /\ r.tries \in Nat /\ r.copy \in SlotContent
  BY <1>1, SMT DEF Gate, Follows
<1>3. Len(h) = n + 1 /\ h \in Seq(SlotContent)
  BY DEF TlsInv, Slots, Typed, SharedTyped
<1>4. CASE KeyFits(r.copy)
  <2> DEFINE s == [r EXCEPT !.pc = "idle", !.ctx = r.copy, !.seen = r.gen, !.hook = FALSE, !.spent = (r.tries = 0)]
  <2>1. /\ s \in Gate /\ s.pc = "idle" /\ s.gen = r.gen /\ s.seen = r.gen
        /\ s.ctx = r.copy /\ s.spent = (r.tries = 0)
    BY <1>1, <1>2 DEF Gate, GatePcs
  <2>2. r.copy # NoSlot
    BY <1>4, SMT DEF KeyFits, NoSlot
  <2>3. h[r.gen + 1].leaf <= r.copy.leaf
    BY <1>1 DEF Follows
  <2>4. r.tries # 0 => \E i \in 1 .. Len(h) : r.copy = h[i]
    <3>1. SUFFICES ASSUME r.tries # 0
                   PROVE  \E i \in 1 .. Len(h) : r.copy = h[i]
      OBVIOUS
    <3>2. r.copy = h[r.gen + 1] /\ r.gen + 1 \in 1 .. Len(h)
      BY <1>1, <1>2, <1>3, <3>1, SMTT(30) DEF Follows
    <3> QED
      BY <3>2
  <2>5. Serves(s, n, h)
    BY <2>1, <2>2, <2>3, <2>4 DEF Serves
  <2>6. Follows(s, n, h)
    BY <1>2, <2>1, SMT DEF Follows
  <2>7. SetGate(g, s)
    BY <1>4 DEF fpm_tls_http_ctx_new
  <2> QED
    BY <2>1, <2>5, <2>6, <2>7 DEF Sound
<1>5. CASE ~KeyFits(r.copy)
  <2> DEFINE x == IF r.ctx = NoSlot THEN h[1] ELSE r.ctx
             s == [r EXCEPT !.pc = "idle", !.ctx = x]
  <2>1. h[1] \in SlotContent /\ 1 \in 1 .. Len(h)
    BY <1>1, <1>3, SMT
  <2>2. /\ s \in Gate /\ s.pc = "idle" /\ s.gen = r.gen /\ s.seen = r.seen
        /\ s.ctx = x /\ s.spent = r.spent
    BY <1>1, <2>1 DEF Gate, GatePcs
  <2>3. Follows(s, n, h)
    BY <1>1, <2>2 DEF Follows
  <2>4. Serves(s, n, h)
    <3> HIDE DEF s
    <3>1. CASE r.ctx = NoSlot
      <4>1. r.seen = 0 /\ x = h[1] /\ h[r.seen + 1] = h[1] /\ h[1].leaf <= h[1].leaf
        BY <1>1, <2>1, <3>1, SMTT(30) DEF Serves, SlotContent
      <4>2. \E i \in 1 .. Len(h) : x = h[i]
        BY <2>1, <4>1
      <4> HIDE DEF x
      <4> QED
        BY <2>2, <4>1, <4>2 DEF Serves
    <3>2. CASE r.ctx # NoSlot
      <4>1. x = r.ctx
        BY <3>2
      <4> HIDE DEF x
      <4> QED
        BY <1>1, <2>2, <4>1 DEF Serves
    <3> QED
      BY <3>1, <3>2
  <2>6. SetGate(g, s)
    BY <1>5 DEF fpm_tls_http_ctx_new
  <2> QED
    BY <2>2, <2>3, <2>4, <2>6 DEF Sound
<1> QED
  BY <1>4, <1>5

\* A gateway that replaces a dead one has seen nothing and serves nothing yet.
LEMMA GateReplaced ==
  ASSUME TlsInv, NEW g \in Gateways, GateRespawn(g)
  PROVE  \E r \in Gate : Sound(r) /\ SetGate(g, r)
<1> DEFINE s == [Booting EXCEPT !.deaths = gate[g].deaths + 1]
<1>1. gate[g].deaths \in Nat /\ shm.gen \in Nat
  BY DEF TlsInv, Typed, GatesTyped, Gate, SharedTyped
<1>2. /\ s \in Gate /\ s.pc = "boot" /\ s.gen = 0 /\ s.seen = 0 /\ s.ctx = NoSlot
  <2>1. NoSlot \in SlotContent /\ gate[g].deaths + 1 \in Nat
    BY <1>1, SMT DEF SlotContent, NoSlot
  <2> QED
    BY <2>1 DEF Booting, Gate, GatePcs
<1>3. Sound(s)
  BY <1>1, <1>2, SMT DEF Sound, Follows, Serves
<1> QED
  BY <1>2, <1>3 DEF GateRespawn

-----------------------------------------------------------------------------
(* The invariant                                                           *)

LEMMA TlsStarts == TlsInit => TlsInv
<1> SUFFICES ASSUME TlsInit
             PROVE  TlsInv
  OBVIOUS
<1> DEFINE first == IF tlsconf.wait THEN NoCert ELSE [id |-> 1, key |-> 1]
<1>1. /\ files = [cert |-> first, key |-> first.key, issued |-> first.id, kept |-> first]
      /\ tm = [pc |-> "idle", cert |-> first, key |-> first.key, dcert |-> first, dkey |-> first.key, fresh |-> NoSlot]
      /\ shm = [gen |-> 0, slot |-> <<Pair(first, first.key), NoSlot>>, hist |-> <<Pair(first, first.key)>>]
      /\ gate = [g \in Gateways |-> Booting]
  BY DEF TlsInit, fpm_tls_reload_master_init
<1>2. first \in Cert /\ first.id \in Nat /\ first.key \in Nat
  BY DEF Cert, NoCert
<1> HIDE DEF first
<1>3. Pair(first, first.key) \in SlotContent /\ Pair(first, first.key).leaf = first.id /\ NoSlot \in SlotContent
  BY <1>2 DEF Pair, SlotContent, NoSlot
<1>4. FilesTyped /\ Newest = first.id /\ FilesOrdered
  BY <1>1, <1>2, SMT DEF FilesTyped, FilesOrdered, Newest
<1>5. MasterTyped /\ tm.pc = "idle"
  BY <1>1, <1>2, <1>3 DEF MasterTyped, MasterPcs
<1>6. SharedTyped
  BY <1>1, <1>3, SMT DEF SharedTyped
<1>7. GatesTyped
  BY <1>1, <1>3 DEF GatesTyped, Gate, GatePcs, Booting
<1>8. shm.gen = 0 /\ Len(shm.hist) = 1 /\ shm.hist[1] = Pair(first, first.key) /\ shm.slot[1] = shm.hist[1]
  BY <1>1
<1>9. Issued
  BY <1>2, <1>3, <1>4, <1>8, SMT DEF Issued, Ordered, Fitting
<1>10. Loaded
  BY <1>5 DEF Loaded
<1>11. Slots
  BY <1>5, <1>8, SMTT(30) DEF Slots, Slot
<1>12. Faithful
  <2>1. SUFFICES ASSUME NEW g \in Gateways
                 PROVE  Follows(gate[g], shm.gen, shm.hist) /\ Serves(gate[g], shm.gen, shm.hist)
    BY DEF Faithful
  <2>2. /\ gate[g].gen = 0 /\ gate[g].seen = 0 /\ gate[g].pc = "boot" /\ gate[g].ctx = NoSlot
    BY <1>1 DEF Booting
  <2> QED
    BY <1>8, <2>2, SMT DEF Follows, Serves
<1> QED
  BY <1>4, <1>5, <1>6, <1>7, <1>9, <1>10, <1>11, <1>12 DEF TlsInv, Typed

LEMMA TlsKept == TlsInv /\ [TlsNext]_tlsvars => TlsInv'
<1> SUFFICES ASSUME TlsInv, [TlsNext]_tlsvars
             PROVE  TlsInv'
  OBVIOUS
<1>1. CASE Issue \/ IssueRest \/ Vanish
  <2>1. FilesTyped' /\ FilesOrdered' /\ Newest <= Newest' /\ UNCHANGED <<tlsconf, tm, shm, gate>>
    BY <1>1, FilesAdvance DEF TlsInv, Typed
  <2>2. Newest \in Nat /\ Newest' \in Nat
    BY <2>1 DEF TlsInv, Typed, FilesTyped, Newest, Cert
  <2>3. shm.hist[shm.gen + 1].leaf \in Nat /\ tm.fresh.leaf \in Nat
    <3>1. tm.fresh.leaf \in Nat
      BY DEF TlsInv, Typed, MasterTyped, SlotContent
    <3>2. shm.gen + 1 \in 1 .. shm.gen + 1
      BY HistoryTyped, SMTT(30) DEF TlsInv, Typed
    <3> QED
      BY <3>1, <3>2, HistoryTyped DEF TlsInv, Typed
  <2>4. Issued' /\ Loaded'
    BY <2>1, <2>2, <2>3, SMT DEF TlsInv, Issued, Loaded
  <2>5. Typed' /\ Slots' /\ Faithful'
    BY <2>1 DEF TlsInv, Typed, MasterTyped, SharedTyped, GatesTyped, Slots, Slot, Unpublished, Faithful
  <2> QED
    BY <2>1, <2>4, <2>5 DEF TlsInv
<1>2. CASE file_digest \/ fpm_tls_http_validate \/ fpm_tls_http_load
  <2>1. MasterTyped' /\ Loaded' /\ Slots' /\ UNCHANGED <<tlsconf, files, shm, gate>>
    BY <1>2, MasterReads DEF TlsInv
  <2>2. Typed' /\ FilesOrdered' /\ Issued' /\ Faithful'
    BY <2>1 DEF TlsInv, Typed, FilesTyped, SharedTyped, GatesTyped, FilesOrdered, Newest, Issued, Faithful
  <2> QED
    BY <2>1, <2>2 DEF TlsInv
<1>3. CASE publish /\ tm.pc # "publish"
  <2>1. /\ MasterTyped' /\ SharedTyped' /\ Loaded' /\ Slots'
        /\ shm'.gen = shm.gen /\ shm'.hist = shm.hist
        /\ UNCHANGED <<tlsconf, files, gate>>
    BY <1>3, MasterFills DEF TlsInv
  <2>2. Typed' /\ FilesOrdered' /\ Issued' /\ Faithful'
    BY <2>1 DEF TlsInv, Typed, FilesTyped, GatesTyped, FilesOrdered, Newest, Issued, Faithful
  <2> QED
    BY <2>1, <2>2 DEF TlsInv
<1>4. CASE publish /\ tm.pc = "publish"
  <2>1. /\ MasterTyped' /\ SharedTyped' /\ Issued' /\ Loaded' /\ Slots'
        /\ shm'.gen = shm.gen + 1 /\ shm'.hist = Append(shm.hist, tm.fresh)
        /\ UNCHANGED <<tlsconf, files, gate>>
    BY <1>4, MasterPublishes DEF TlsInv
  <2>2. Typed' /\ FilesOrdered'
    BY <2>1 DEF TlsInv, Typed, FilesTyped, GatesTyped, FilesOrdered, Newest
  <2>3. /\ shm.gen \in Nat /\ shm.hist \in Seq(SlotContent) /\ Len(shm.hist) = shm.gen + 1
        /\ tm.fresh \in SlotContent
    BY DEF TlsInv, Typed, SharedTyped, MasterTyped, Slots
  <2>4. ASSUME NEW g \in Gateways
        PROVE  /\ Follows(gate[g], shm.gen + 1, Append(shm.hist, tm.fresh))
               /\ Serves(gate[g], shm.gen + 1, Append(shm.hist, tm.fresh))
    <3>1. gate[g] \in Gate /\ Follows(gate[g], shm.gen, shm.hist) /\ Serves(gate[g], shm.gen, shm.hist)
      BY DEF TlsInv, Typed, GatesTyped, Faithful
    <3> QED
      BY <2>3, <3>1, GateOutlives
  <2>5. Faithful'
    BY <2>1, <2>4 DEF Faithful
  <2> QED
    BY <2>1, <2>2, <2>5 DEF TlsInv
<1>5. CASE \E g \in Gateways : GateStep(g) \/ GateRespawn(g)
  <2>1. PICK g \in Gateways : GateStep(g) \/ GateRespawn(g)
    BY <1>5
  <2>2. \E r \in Gate : Sound(r) /\ SetGate(g, r)
    BY <2>1, GateBegins, GateCopies, GateAdopts, GateReplaced DEF GateStep
  <2>3. PICK r \in Gate : Sound(r) /\ SetGate(g, r)
    BY <2>2
  <2>4. gate' = [gate EXCEPT ![g] = r] /\ UNCHANGED <<tlsconf, files, tm, shm>>
    BY <2>3 DEF SetGate
  <2>5. Typed' /\ FilesOrdered' /\ Issued' /\ Loaded' /\ Slots'
    BY <2>4 DEF TlsInv, Typed, FilesTyped, MasterTyped, SharedTyped, GatesTyped,
                FilesOrdered, Newest, Issued, Loaded, Slots, Slot, Unpublished
  <2>6. Faithful'
    BY <2>3, <2>4 DEF TlsInv, Typed, GatesTyped, Faithful, Sound
  <2> QED
    BY <2>5, <2>6 DEF TlsInv
<1>6. CASE UNCHANGED tlsvars
  BY <1>6 DEF tlsvars, TlsInv, Typed, FilesTyped, MasterTyped, SharedTyped, GatesTyped,
              FilesOrdered, Newest, Issued, Loaded, Slots, Slot, Unpublished, Faithful
<1> QED
  BY <1>1, <1>2, <1>3, <1>4, <1>5, <1>6 DEF TlsNext, TlsMasterStep

\* Every state of the reload satisfies the inductive invariant.
LEMMA TlsInvariant == TlsSpec => []TlsInv
<1>1. TlsInit => TlsInv
  BY TlsStarts
<1>2. TlsInv /\ [TlsNext]_tlsvars => TlsInv'
  BY TlsKept
<1> QED
  BY <1>1, <1>2, PTL DEF TlsSpec

(* Whatever the files, the master and the gateways do (fpm_tls_reload.c):  *)
(* only fitting pairs are published after the first, a gateway whose copy  *)
(* had tries left serves a pair as it was published, and no gateway counts *)
(* a generation as seen that is newer than what it serves.                 *)
THEOREM TlsTheorem == TlsSpec => []TlsSound
<1>1. TlsInv => TlsSound
  <2> SUFFICES ASSUME TlsInv
               PROVE  TlsSound
    OBVIOUS
  <2>1. TlsTypeOK
    BY DEF TlsInv, Typed, MasterTyped, MasterPcs, GatesTyped, Gate, GatePcs, Issued, Fitting, TlsTypeOK
  <2>2. NoTornServed
    BY DEF TlsInv, Faithful, Serves, NoTornServed
  <2>3. ASSUME NEW g \in Gateways, gate[g].ctx # NoSlot
        PROVE  gate[g].ctx.leaf >= shm.hist[gate[g].seen + 1].leaf
    <3>1. shm.hist[gate[g].seen + 1].leaf <= gate[g].ctx.leaf
      BY <2>3 DEF TlsInv, Faithful, Serves
    <3>2. gate[g].ctx.leaf \in Nat /\ shm.hist[gate[g].seen + 1].leaf \in Nat
      <4>1. gate[g].seen \in Nat /\ gate[g].seen <= shm.gen /\ gate[g].ctx.leaf \in Nat
        BY DEF TlsInv, Typed, GatesTyped, Gate, SlotContent, Faithful, Follows
      <4> QED
        BY <4>1, HistoryTyped, SMTT(30) DEF TlsInv, Typed
    <3> QED
      BY <3>1, <3>2
  <2>4. NeverClaimsNewer
    BY <2>3 DEF NeverClaimsNewer
  <2> QED
    BY <2>1, <2>2, <2>4 DEF TlsSound
<1> QED
  BY <1>1, TlsInvariant, PTL

-----------------------------------------------------------------------------
(***************************************************************************)
(* The tunnel of a gateway, proved for every pair of marks and any number  *)
(* of bytes: TunnelSound holds in every state.                             *)
(*                                                                         *)
(* The inductive invariant TunInv keeps the books of both directions: no   *)
(* byte is lost between the socket, SSL, the output buffer and the         *)
(* destination until the stage that throws bytes away, and no stage that   *)
(* announces the end of a direction is entered with bytes left in it.      *)
(***************************************************************************)

Way == [sent : Nat, all : Nat, pend : 0 .. 1, out : 0 .. High, got : Nat, reads : BOOLEAN, eof : BOOLEAN]

Stages == {"relay", "flush", "linger", "up_flush", "up_linger"}

Reasons == {<<>>} \cup ({"client", "upstream", "timer"} \X {"eof", "error", "timeout"})

UpstreamEnd == <<"upstream", "eof">>

Tunnel == [stage : Stages, finishing : BOOLEAN, client_gone : BOOLEAN, timed_out : BOOLEAN,
           up_gone : BOOLEAN, step : BOOLEAN, idle : BOOLEAN, deadline : BOOLEAN, ubev : BOOLEAN,
           freed : BOOLEAN, why : Reasons, up_shut : BOOLEAN, down_shut : BOOLEAN, cut : BOOLEAN,
           way : [Ways -> Way]]

\* A direction of a relay: paused only above Low, and SSL keeps a byte only then.
Flowing(d) ==
  /\ d.reads => d.out < High
  /\ ~d.reads => d.out > Low
  /\ d.pend > 0 => ~d.reads

\* Every byte its source sent is somewhere, and once it ended all are on the way.
Booked(d) == d.sent + d.pend + d.out + d.got = d.all
Drained(d) == d.eof /\ d.sent = 0 /\ d.pend = 0

Relays(t) == t.stage = "relay" /\ ~t.finishing

Open(t) ==
  Relays(t) => /\ t.why = <<>>
               /\ ~t.freed => t.ubev
               /\ \A w \in Ways : Flowing(t.way[w])

Kept(t) ==
  /\ t.stage # "linger" => Booked(t.way["up"])
  /\ ~UpStage(t) => Booked(t.way["down"])

Upward(t) ==
  UpStage(t) => /\ Drained(t.way["up"])
                /\ t.why # UpstreamEnd
                /\ ~t.freed => t.ubev

Ended(t) == t.why = UpstreamEnd => t.finishing /\ Drained(t.way["down"])

Shut(t) ==
  /\ t.up_shut => t.stage = "up_linger" /\ t.way["up"].out = 0
  /\ t.down_shut => t.stage = "linger"
  /\ t.down_shut /\ t.why = UpstreamEnd /\ ~t.cut => t.way["down"].out = 0

Quiet(t) == t.freed => ~t.step /\ ~t.deadline /\ ~t.idle

Good(t) == t \in Tunnel /\ Open(t) /\ Kept(t) /\ Upward(t) /\ Ended(t) /\ Shut(t) /\ Quiet(t)

TunInv == Good(tun)

-----------------------------------------------------------------------------
(* The operations on the relay keep it good.                               *)

LEMMA Reason ==
  /\ <<>> \in Reasons /\ UpstreamEnd \in Reasons /\ <<>> # UpstreamEnd
  /\ \A who \in {"client", "upstream", "timer"}, what \in {"eof", "error", "timeout"} :
       <<who, what>> \in Reasons /\ (<<who, what>> = UpstreamEnd <=> who = "upstream" /\ what = "eof")
BY DEF Reasons, UpstreamEnd

\* fpm_gw_ws_kick()
LEMMA KickGood ==
  ASSUME NEW t, Good(t), ~t.freed
  PROVE  Good(fpm_gw_ws_kick(t))
BY DEF Good, fpm_gw_ws_kick, Tunnel, Open, Relays, Kept, UpStage, Upward, Ended, Shut, Quiet

\* fpm_gw_ws_arm_deadline()
LEMMA ArmGood ==
  ASSUME NEW t, Good(t), ~t.freed
  PROVE  Good(fpm_gw_ws_arm_deadline(t))
BY DEF Good, fpm_gw_ws_arm_deadline, Tunnel, Open, Relays, Kept, UpStage, Upward, Ended, Shut, Quiet

\* fpm_gw_ws_teardown()
LEMMA TeardownGood ==
  ASSUME NEW t, Good(t)
  PROVE  Good(fpm_gw_ws_teardown(t))
BY DEF Good, fpm_gw_ws_teardown, Tunnel, Open, Relays, Kept, UpStage, Upward, Ended, Shut, Quiet

\* fpm_gw_ws_finish(), called for the end of the upstream only in a relay whose
\* downward direction has been read to its end.
LEMMA FinishGood ==
  ASSUME NEW t, Good(t), ~t.freed, NEW gone \in BOOLEAN, NEW why \in Reasons,
         why = UpstreamEnd => t.stage = "relay" /\ Drained(t.way["down"])
  PROVE  Good(fpm_gw_ws_finish(t, gone, why))
<1> DEFINE r == IF t.why = <<>> THEN why ELSE t.why
           u == [t EXCEPT !.why = r, !.client_gone = @ \/ gone, !.finishing = TRUE, !.idle = FALSE]
<1>1. fpm_gw_ws_finish(t, gone, why) = fpm_gw_ws_kick(u)
  BY DEF Good, Tunnel, fpm_gw_ws_finish, Because
<1>2. /\ u \in Tunnel /\ u.stage = t.stage /\ u.finishing /\ u.way = t.way /\ u.why = r
      /\ u.up_shut = t.up_shut /\ u.down_shut = t.down_shut /\ u.cut = t.cut
      /\ u.freed = t.freed /\ u.ubev = t.ubev
  BY DEF Good, Tunnel
<1> HIDE DEF u
<1>3. r = UpstreamEnd => t.why = UpstreamEnd \/ (t.stage = "relay" /\ Drained(t.way["down"]))
  OBVIOUS
<1> HIDE DEF r
<1>4. Good(u)
  BY <1>2, <1>3 DEF Good, Open, Relays, Kept, UpStage, Upward, Ended, Shut, Quiet
<1> QED
  BY <1>1, <1>2, <1>4, KickGood

\* fpm_gw_ws_client_eof(): all the client sent is in the output buffer now.
LEMMA ClientEofGood ==
  ASSUME NEW t, Good(t), ~t.freed, Relays(t),
         t.way["up"].eof, t.way["up"].sent = 0, t.way["up"].reads
  PROVE  Good(fpm_gw_ws_client_eof(t))
<1> DEFINE d == t.way["up"]
           e == [d EXCEPT !.out = @ + d.pend, !.pend = 0, !.reads = FALSE]
           u == [t EXCEPT !.why = <<"client", "eof">>, !.stage = "up_flush", !.idle = FALSE, !.way["up"] = e]
<1>1. d \in Way /\ d.pend = 0 /\ t.why = <<>> /\ t.ubev /\ "up" \in Ways /\ "down" \in Ways
  BY SMT DEF Good, Tunnel, Open, Flowing, Ways, Way
<1>2. fpm_gw_ws_client_eof(t) = fpm_gw_ws_kick(fpm_gw_ws_arm_deadline(u))
  BY <1>1 DEF Good, Tunnel, fpm_gw_ws_client_eof, Because
<1>3. /\ e \in Way /\ e.out = d.out /\ e.pend = 0 /\ e.sent = 0 /\ e.eof
      /\ e.got = d.got /\ e.all = d.all
  <2>1. d.out \in 0 .. High /\ d.out + d.pend = d.out
    BY <1>1, TunnelMarks, SMT DEF Way
  <2> QED
    BY <1>1, <2>1 DEF Way
<1> HIDE DEF e
<1>4. Booked(d) /\ Booked(e) /\ Drained(e)
  BY <1>1, <1>3 DEF Good, Kept, Relays, Booked, Drained
<1>5. <<"client", "eof">> \in Reasons /\ <<"client", "eof">> # UpstreamEnd
  BY Reason
<1>6. /\ u \in Tunnel /\ u.stage = "up_flush" /\ u.finishing = t.finishing
      /\ u.why = <<"client", "eof">> /\ u.up_shut = t.up_shut /\ u.down_shut = t.down_shut
      /\ u.freed = t.freed /\ u.ubev = t.ubev /\ u.way["up"] = e
  BY <1>1, <1>3, <1>5 DEF Good, Tunnel, Stages
<1> HIDE DEF u
<1>7. Good(u)
  BY <1>1, <1>4, <1>5, <1>6 DEF Good, Open, Relays, Kept, UpStage, Upward, Ended, Shut, Quiet
<1>8. Good(fpm_gw_ws_arm_deadline(u)) /\ ~fpm_gw_ws_arm_deadline(u).freed
  BY <1>6, <1>7, ArmGood DEF fpm_gw_ws_arm_deadline, Tunnel
<1> QED
  BY <1>2, <1>8, KickGood

-----------------------------------------------------------------------------
(* The step event                                                          *)

\* fpm_gw_ws_enter_flush()
LEMMA FlushGood ==
  ASSUME NEW t, Good(t), ~t.freed, t.stage = "relay", t.finishing
  PROVE  Good(fpm_gw_ws_enter_flush(t))
<1> DEFINE e == [t.way["up"] EXCEPT !.reads = FALSE]
           u == [t EXCEPT !.stage = "flush", !.way["up"] = e]
<1>1. t.way["up"] \in Way /\ "up" \in Ways /\ "down" \in Ways
  BY DEF Good, Tunnel, Ways
<1>2. fpm_gw_ws_enter_flush(t) = fpm_gw_ws_arm_deadline(u)
  BY <1>1 DEF Good, Tunnel, fpm_gw_ws_enter_flush
<1>3. /\ e \in Way /\ e.out = t.way["up"].out /\ e.pend = t.way["up"].pend /\ e.sent = t.way["up"].sent
      /\ e.got = t.way["up"].got /\ e.all = t.way["up"].all
  BY <1>1 DEF Way
<1> HIDE DEF e
<1>4. /\ u \in Tunnel /\ u.stage = "flush" /\ u.finishing /\ u.why = t.why
      /\ u.up_shut = t.up_shut /\ u.down_shut = t.down_shut
      /\ u.freed = t.freed /\ u.way["up"] = e /\ u.way["down"] = t.way["down"]
  BY <1>1, <1>3 DEF Good, Tunnel, Stages, Ways
<1> HIDE DEF u
<1>5. Good(u)
  BY <1>1, <1>3, <1>4 DEF Good, Open, Relays, Kept, Booked, UpStage, Upward, Ended, Shut, Quiet
<1> QED
  BY <1>2, <1>4, <1>5, ArmGood

\* fpm_gw_ws_enter_linger(): with nothing left for the client, or out of time.
LEMMA LingerGood ==
  ASSUME NEW t, Good(t), ~t.freed, t.stage \in {"relay", "flush"}, t.finishing,
         t.client_gone \/ t.timed_out \/ t.way["down"].out = 0
  PROVE  Good(fpm_gw_ws_enter_linger(t))
<1>1. CASE t.client_gone
  BY <1>1, TeardownGood DEF fpm_gw_ws_enter_linger
<1>2. CASE ~t.client_gone
  <2> DEFINE u == [t EXCEPT !.stage = "linger", !.down_shut = TRUE, !.cut = t.timed_out]
  <2>1. fpm_gw_ws_enter_linger(t) = fpm_gw_ws_arm_deadline(u)
    BY <1>2 DEF fpm_gw_ws_enter_linger
  <2>2. /\ u \in Tunnel /\ u.stage = "linger" /\ u.finishing /\ u.why = t.why
        /\ u.up_shut = t.up_shut /\ u.cut = t.timed_out
        /\ u.freed = t.freed /\ u.way = t.way
    BY DEF Good, Tunnel, Stages
  <2> HIDE DEF u
  <2>3. Good(u)
    BY <1>2, <2>2 DEF Good, Open, Relays, Kept, UpStage, Upward, Ended, Shut, Quiet
  <2> QED
    BY <2>1, <2>2, <2>3, ArmGood
<1> QED
  BY <1>1, <1>2

\* fpm_gw_ws_step(), the only place that frees.
LEMMA StepGood ==
  ASSUME TunInv, fpm_gw_ws_step
  PROVE  TunInv'
<1> DEFINE t == [tun EXCEPT !.step = FALSE]
           v == [t EXCEPT !.ubev = FALSE]
<1>1. Good(tun) /\ tun \in Tunnel /\ ~tun.freed
  BY DEF TunInv, Good, Quiet, fpm_gw_ws_step, Tunnel
<1>2. /\ Good(t) /\ ~t.freed /\ t.stage \in Stages
      /\ tun' = IF UpStage(t) THEN fpm_gw_ws_up_step(t)
                ELSE IF ~t.finishing THEN t ELSE Stepped(v)
  BY <1>1 DEF fpm_gw_ws_step, Good, Tunnel, Open, Relays, Kept, UpStage, Upward, Ended, Shut, Quiet
<1>3. CASE UpStage(t)
  <2>1. CASE t.finishing \/ t.timed_out \/ t.up_gone \/ t.client_gone
    BY <1>2, <1>3, <2>1, TeardownGood DEF fpm_gw_ws_up_step, TunInv
  <2>2. CASE ~(t.finishing \/ t.timed_out \/ t.up_gone \/ t.client_gone) /\ t.stage = "up_flush" /\ t.way["up"].out = 0
    <3> DEFINE u == [t EXCEPT !.stage = "up_linger", !.up_shut = TRUE]
    <3>1. tun' = u
      BY <1>2, <1>3, <2>2 DEF fpm_gw_ws_up_step
    <3>2. /\ u \in Tunnel /\ u.stage = "up_linger" /\ u.finishing = t.finishing /\ u.why = t.why
          /\ u.down_shut = t.down_shut /\ u.freed = t.freed /\ u.way = t.way /\ u.ubev = t.ubev
          /\ u.cut = t.cut
      BY <1>2 DEF Good, Tunnel, Stages
    <3> HIDE DEF t, u
    <3>3. Good(u)
      BY <1>2, <2>2, <3>2 DEF Good, Open, Relays, Kept, UpStage, Upward, Ended, Shut, Quiet
    <3> QED
      BY <3>1, <3>3 DEF TunInv
  <2>3. CASE ~(t.finishing \/ t.timed_out \/ t.up_gone \/ t.client_gone) /\ ~(t.stage = "up_flush" /\ t.way["up"].out = 0)
    BY <1>2, <1>3, <2>3 DEF fpm_gw_ws_up_step, TunInv
  <2> QED
    BY <2>1, <2>2, <2>3
<1>4. CASE ~UpStage(t) /\ ~t.finishing
  BY <1>2, <1>4 DEF TunInv
<1>5. CASE ~UpStage(t) /\ t.finishing
  <2>1. tun' = Stepped(v)
    BY <1>2, <1>5
  <2>2. /\ v \in Tunnel /\ v.stage = t.stage /\ v.finishing = t.finishing /\ v.why = t.why
        /\ v.up_shut = t.up_shut /\ v.down_shut = t.down_shut /\ v.freed = t.freed /\ v.way = t.way
        /\ v.cut = t.cut
    BY <1>2 DEF Good, Tunnel
  <2> HIDE DEF t, v
  <2>3. Good(v) /\ ~v.freed /\ v.stage \in {"relay", "flush", "linger"} /\ v.finishing
    BY <1>2, <1>5, <2>2 DEF Good, Open, Relays, Kept, UpStage, Upward, Ended, Shut, Quiet, Stages
  <2>4. CASE v.stage = "relay"
    BY <2>1, <2>3, <2>4, LingerGood, FlushGood DEF Stepped, TunInv
  <2>5. CASE v.stage = "flush"
    BY <2>1, <2>3, <2>5, LingerGood, TeardownGood DEF Stepped, TunInv
  <2>6. CASE v.stage = "linger"
    BY <2>1, <2>3, <2>6, TeardownGood DEF Stepped, TunInv
  <2> QED
    BY <2>3, <2>4, <2>5, <2>6
<1> QED
  BY <1>3, <1>4, <1>5

-----------------------------------------------------------------------------
(* The bytes                                                               *)

\* Way w of a relay becomes e.
LEMMA WayGood ==
  ASSUME TunInv, ~tun.freed, NEW w \in Ways, NEW e \in Way, tun' = [tun EXCEPT !.way[w] = e],
         Relaying => Flowing(e),
         Booked(tun.way[w]) => Booked(e),
         Drained(tun.way[w]) => Drained(e),
         tun.way[w].out = 0 /\ ~Relaying => e.out = 0
  PROVE  TunInv'
<1>1. /\ tun' \in Tunnel /\ tun'.stage = tun.stage /\ tun'.finishing = tun.finishing /\ tun'.why = tun.why
      /\ tun'.up_shut = tun.up_shut /\ tun'.down_shut = tun.down_shut /\ tun'.freed = tun.freed
      /\ tun'.cut = tun.cut /\ tun'.ubev = tun.ubev /\ tun'.step = tun.step
      /\ tun'.way = [tun.way EXCEPT ![w] = e] /\ tun.way \in [Ways -> Way]
  BY DEF TunInv, Good, Tunnel
<1>2. tun'.way[w] = e /\ \A x \in Ways \ {w} : tun'.way[x] = tun.way[x]
  BY <1>1, SMT
<1>3. "up" \in Ways /\ "down" \in Ways
  BY DEF Ways
<1>4. Relays(tun) = Relaying /\ Relays(tun') = Relays(tun) /\ UpStage(tun') = UpStage(tun)
  BY <1>1 DEF Relays, Relaying, UpStage
<1>5. Open(tun')
  BY <1>1, <1>2, <1>4 DEF TunInv, Good, Open
<1>6. Kept(tun') /\ Upward(tun') /\ Ended(tun')
  BY <1>1, <1>2, <1>3, <1>4 DEF TunInv, Good, Kept, Upward, Ended
<1>7. Shut(tun')
  BY <1>1, <1>2, <1>3, <1>4 DEF TunInv, Good, Shut, Relays
<1>8. Quiet(tun')
  BY <1>1 DEF Quiet
<1> QED
  BY <1>1, <1>5, <1>6, <1>7, <1>8 DEF TunInv, Good

\* fpm_gw_ws_readcb(): one byte, and a second one that stays with SSL.
LEMMA ReadGood ==
  ASSUME TunInv, NEW w \in Ways, fpm_gw_ws_readcb(w)
  PROVE  TunInv'
<1> DEFINE d == tun.way[w]
           c == [d EXCEPT !.sent = @ - 1]
           m == fpm_gw_ws_move(c, 1)
           k == [m EXCEPT !.sent = @ - 1, !.pend = 1]
<1>1. /\ d \in Way /\ ~tun.freed /\ Relaying /\ d.reads /\ d.sent > 0
      /\ \/ tun' = [tun EXCEPT !.way[w] = m]
         \/ ~m.reads /\ m.sent > 0 /\ tun' = [tun EXCEPT !.way[w] = k]
  BY DEF TunInv, Good, Tunnel, fpm_gw_ws_readcb, TunnelAlive
<1>2. Flowing(d)
  BY <1>1 DEF TunInv, Good, Open, Relays, Relaying
<1>3. /\ d.sent \in Nat /\ d.all \in Nat /\ d.pend = 0 /\ d.out \in Nat /\ d.out < High /\ d.got \in Nat
      /\ d.out + 1 \in 0 .. High /\ d.sent - 1 \in Nat /\ (d.out + 1 < High) \in BOOLEAN
  BY <1>1, <1>2, TunnelMarks, SMT DEF Way, Flowing
<1>4. /\ m \in Way /\ m.sent = d.sent - 1 /\ m.pend = 0 /\ m.out = d.out + 1 /\ m.got = d.got /\ m.all = d.all
      /\ (m.reads <=> d.out + 1 < High) /\ m.eof = d.eof
  BY <1>1, <1>3 DEF Way, fpm_gw_ws_move
<1> HIDE DEF m
<1>5. m.sent > 0 =>
        /\ k \in Way /\ k.sent = d.sent - 2 /\ k.pend = 1 /\ k.out = d.out + 1 /\ k.got = d.got
        /\ k.all = d.all /\ k.reads = m.reads /\ k.eof = d.eof
  <2>1. SUFFICES ASSUME m.sent > 0
                 PROVE  /\ k \in Way /\ k.sent = d.sent - 2 /\ k.pend = 1 /\ k.out = d.out + 1 /\ k.got = d.got
                        /\ k.all = d.all /\ k.reads = m.reads /\ k.eof = d.eof
    OBVIOUS
  <2>2. m.sent - 1 \in Nat /\ m.sent - 1 = d.sent - 2 /\ 1 \in 0 .. 1
    BY <1>3, <1>4, <2>1, SMT
  <2> QED
    BY <1>4, <2>2 DEF Way
<1> HIDE DEF k
<1>6. Flowing(m) /\ (Booked(d) => Booked(m)) /\ (Drained(d) => Drained(m))
  <2>1. Flowing(m)
    BY <1>3, <1>4, TunnelMarks, SMTT(30) DEF Flowing
  <2>2. Booked(d) => Booked(m)
    BY <1>3, <1>4, SMTT(30) DEF Booked
  <2>3. ~Drained(d)
    BY <1>1, <1>3, SMT DEF Drained
  <2> QED
    BY <2>1, <2>2, <2>3
<1>7. m.sent > 0 /\ ~m.reads => Flowing(k) /\ (Booked(d) => Booked(k)) /\ (Drained(d) => Drained(k))
  <2>1. m.sent > 0 /\ ~m.reads => Flowing(k)
    BY <1>3, <1>4, <1>5, TunnelMarks, SMTT(30) DEF Flowing
  <2>2. m.sent > 0 /\ Booked(d) => Booked(k)
    BY <1>3, <1>5, SMTT(30) DEF Booked
  <2>3. ~Drained(d)
    BY <1>1, <1>3, SMT DEF Drained
  <2> QED
    BY <2>1, <2>2, <2>3
<1> HIDE DEF d
<1> QED
  BY <1>1, <1>4, <1>5, <1>6, <1>7, WayGood DEF d

\* What a write leaves of a direction, before the callback looks at the marks.
LEMMA TakenIs ==
  ASSUME NEW c \in Way, c.out > 0
  PROVE  LET d == [c EXCEPT !.out = @ - 1, !.got = @ + 1] IN
         /\ d \in Way /\ d.out = c.out - 1 /\ d.got = c.got + 1 /\ d.sent = c.sent /\ d.all = c.all
         /\ d.pend = c.pend /\ d.reads = c.reads /\ d.eof = c.eof
         /\ (Booked(c) => Booked(d)) /\ (Drained(c) => Drained(d))
<1> DEFINE d == [c EXCEPT !.out = @ - 1, !.got = @ + 1]
<1>1. c.out - 1 \in 0 .. High /\ c.got + 1 \in Nat
  BY TunnelMarks, SMT DEF Way
<1>2. /\ d \in Way /\ d.out = c.out - 1 /\ d.got = c.got + 1 /\ d.sent = c.sent /\ d.all = c.all
      /\ d.pend = c.pend /\ d.reads = c.reads /\ d.eof = c.eof
  BY <1>1 DEF Way
<1> HIDE DEF d
<1>3. (Booked(c) => Booked(d)) /\ (Drained(c) => Drained(d))
  BY <1>2, TunnelMarks, SMT DEF Booked, Drained, Way
<1> QED
  BY <1>2, <1>3 DEF d

\* At Low the source is read again, and what SSL kept is pulled first.
LEMMA ResumedIs ==
  ASSUME NEW d \in Way, d.out <= Low
  PROVE  /\ Resumed(d) \in Way /\ Flowing(Resumed(d))
         /\ (Booked(d) => Booked(Resumed(d))) /\ (Drained(d) => Drained(Resumed(d)))
<1> DEFINE e == Resumed(d)
<1>1. d.out + d.pend \in 0 .. High /\ (d.out + d.pend < High) \in BOOLEAN
  BY TunnelMarks, SMT DEF Way
<1>2. /\ e \in Way /\ e.out = d.out + d.pend /\ e.pend = 0 /\ e.got = d.got /\ e.sent = d.sent
      /\ e.all = d.all /\ (e.reads <=> d.out + d.pend < High) /\ e.eof = d.eof
  <2> DEFINE c == [d EXCEPT !.reads = TRUE, !.pend = 0]
             b == c.reads /\ c.out + d.pend < High
  <2>1. /\ c \in Way /\ c.out = d.out /\ c.pend = 0 /\ c.got = d.got /\ c.sent = d.sent
        /\ c.all = d.all /\ c.reads /\ c.eof = d.eof
    <3>1. 0 \in 0 .. 1 /\ TRUE \in BOOLEAN
      BY SMT
    <3> QED
      BY <3>1 DEF Way
  <2>2. e = [c EXCEPT !.out = c.out + d.pend, !.reads = b]
    BY DEF Resumed, fpm_gw_ws_move
  <2> HIDE DEF c, e
  <2>3. b \in BOOLEAN /\ (b <=> d.out + d.pend < High)
    BY <2>1
  <2> HIDE DEF b
  <2> QED
    BY <1>1, <2>1, <2>2, <2>3 DEF Way
<1> HIDE DEF e
<1>3. Flowing(e)
  BY <1>1, <1>2, TunnelMarks, SMTT(30) DEF Flowing
<1>4. (Booked(d) => Booked(e)) /\ (Drained(d) => Drained(e))
  BY <1>2, TunnelMarks, SMT DEF Booked, Drained, Way
<1> QED
  BY <1>2, <1>3, <1>4 DEF e

\* fpm_gw_ws_writecb(), with the callback of the stage the tunnel is in.
LEMMA WriteGood ==
  ASSUME TunInv, NEW w \in Ways, fpm_gw_ws_writecb(w)
  PROVE  TunInv'
<1> DEFINE c == tun.way[w]
           d == [c EXCEPT !.out = @ - 1, !.got = @ + 1]
           t == [tun EXCEPT !.way[w] = d]
<1>1. c \in Way /\ c.out > 0 /\ ~tun.freed /\ tun' = Wrote(t, w)
  BY DEF TunInv, Good, Tunnel, fpm_gw_ws_writecb, TunnelAlive
<1>2. /\ d \in Way /\ d.out = c.out - 1 /\ d.reads = c.reads /\ d.pend = c.pend
      /\ (Booked(c) => Booked(d)) /\ (Drained(c) => Drained(d))
  BY <1>1, TakenIs
<1>3. t.way[w] = d /\ tun \in Tunnel
  BY DEF TunInv, Good, Tunnel
<1>4. CASE Relaying /\ d.out <= Low
  <2>1. tun' = [t EXCEPT !.way[w] = Resumed(d)]
    BY <1>1, <1>3, <1>4 DEF Wrote
  <2>2. tun' = [tun EXCEPT !.way[w] = Resumed(d)]
    BY <1>3, <2>1 DEF Tunnel
  <2>3. /\ Resumed(d) \in Way /\ Flowing(Resumed(d))
        /\ (Booked(d) => Booked(Resumed(d))) /\ (Drained(d) => Drained(Resumed(d)))
    BY <1>2, <1>4, ResumedIs
  <2> HIDE DEF d
  <2> QED
    BY <1>1, <1>2, <1>4, <2>2, <2>3, WayGood
<1>5. CASE Relaying /\ ~(d.out <= Low)
  <2>1. tun' = [tun EXCEPT !.way[w] = d]
    BY <1>1, <1>3, <1>5 DEF Wrote
  <2>2. Flowing(c)
    BY <1>5 DEF TunInv, Good, Open, Relays, Relaying
  <2>3. Flowing(d)
    BY <1>1, <1>2, <1>5, <2>2, TunnelMarks, SMTT(30) DEF Flowing, Way
  <2> HIDE DEF d
  <2> QED
    BY <1>1, <1>2, <1>5, <2>1, <2>3, WayGood
<1>6. CASE ~Relaying
  <2>1. tun' = t \/ tun' = fpm_gw_ws_kick(t)
    BY <1>1, <1>6 DEF Wrote
  <2>2. Good(t) /\ ~t.freed
    <3>1. /\ t \in Tunnel /\ t.stage = tun.stage /\ t.finishing = tun.finishing /\ t.why = tun.why
          /\ t.up_shut = tun.up_shut /\ t.down_shut = tun.down_shut /\ t.freed = tun.freed
          /\ t.cut = tun.cut /\ t.ubev = tun.ubev
          /\ t.way = [tun.way EXCEPT ![w] = d] /\ tun.way \in [Ways -> Way]
      BY <1>2, <1>3 DEF Tunnel
    <3>2. t.way[w] = d /\ \A x \in Ways \ {w} : t.way[x] = tun.way[x]
      BY <3>1, SMT
    <3>3. "up" \in Ways /\ "down" \in Ways /\ c.out # 0
      BY <1>1, SMT DEF Ways, Way
    <3> HIDE DEF d, t
    <3>4. ~Relays(t) /\ UpStage(t) = UpStage(tun)
      BY <1>6, <3>1 DEF Relays, Relaying, UpStage
    <3>5. Kept(t) /\ Upward(t) /\ Ended(t)
      BY <1>2, <3>1, <3>2, <3>3, <3>4 DEF TunInv, Good, Kept, Upward, Ended
    <3>6. Shut(t)
      BY <3>1, <3>2, <3>3 DEF TunInv, Good, Shut
    <3> QED
      BY <1>1, <3>1, <3>4, <3>5, <3>6 DEF Good, Open, Quiet
  <2> QED
    BY <2>1, <2>2, KickGood DEF TunInv
<1> QED
  BY <1>4, <1>5, <1>6

-----------------------------------------------------------------------------
(* The ends and the timers                                                 *)

\* One of the two flags of a gone end is set, and the step is kicked.
LEMMA GoneGood ==
  ASSUME TunInv, ~tun.freed,
         tun' = fpm_gw_ws_kick([tun EXCEPT !.client_gone = TRUE])
           \/ tun' = fpm_gw_ws_kick([tun EXCEPT !.up_gone = TRUE])
           \/ tun' = fpm_gw_ws_kick([tun EXCEPT !.deadline = FALSE, !.timed_out = TRUE])
  PROVE  TunInv'
<1>1. ASSUME NEW u \in Tunnel, u.stage = tun.stage, u.finishing = tun.finishing, u.why = tun.why,
             u.up_shut = tun.up_shut, u.down_shut = tun.down_shut, u.freed = tun.freed,
             u.cut = tun.cut, u.ubev = tun.ubev, u.way = tun.way
      PROVE  Good(fpm_gw_ws_kick(u))
  <2>1. Good(u)
    BY <1>1 DEF TunInv, Good, Open, Relays, Kept, UpStage, Upward, Ended, Shut, Quiet
  <2> QED
    BY <1>1, <2>1, KickGood
<1>2. tun \in Tunnel
  BY DEF TunInv, Good
<1> DEFINE a == [tun EXCEPT !.client_gone = TRUE]
           b == [tun EXCEPT !.up_gone = TRUE]
           c == [tun EXCEPT !.deadline = FALSE, !.timed_out = TRUE]
<1>3. /\ a \in Tunnel /\ a.stage = tun.stage /\ a.finishing = tun.finishing /\ a.why = tun.why
      /\ a.up_shut = tun.up_shut /\ a.down_shut = tun.down_shut /\ a.freed = tun.freed
      /\ a.cut = tun.cut /\ a.ubev = tun.ubev /\ a.way = tun.way
  BY <1>2 DEF Tunnel
<1>4. /\ b \in Tunnel /\ b.stage = tun.stage /\ b.finishing = tun.finishing /\ b.why = tun.why
      /\ b.up_shut = tun.up_shut /\ b.down_shut = tun.down_shut /\ b.freed = tun.freed
      /\ b.cut = tun.cut /\ b.ubev = tun.ubev /\ b.way = tun.way
  BY <1>2 DEF Tunnel
<1>5. /\ c \in Tunnel /\ c.stage = tun.stage /\ c.finishing = tun.finishing /\ c.why = tun.why
      /\ c.up_shut = tun.up_shut /\ c.down_shut = tun.down_shut /\ c.freed = tun.freed
      /\ c.cut = tun.cut /\ c.ubev = tun.ubev /\ c.way = tun.way
  BY <1>2 DEF Tunnel
<1>6. tun' = fpm_gw_ws_kick(a) \/ tun' = fpm_gw_ws_kick(b) \/ tun' = fpm_gw_ws_kick(c)
  OBVIOUS
<1> HIDE DEF a, b, c
<1> QED
  BY <1>1, <1>3, <1>4, <1>5, <1>6 DEF TunInv

\* fpm_gw_ws_eventcb() on the side of the client.
LEMMA ClientGood ==
  ASSUME TunInv, NEW what \in {"eof", "error", "timeout"}, fpm_gw_ws_eventcb_client(what)
  PROVE  TunInv'
<1>1. Good(tun) /\ ~tun.freed
  BY DEF TunInv, fpm_gw_ws_eventcb_client, TunnelAlive
<1>2. CASE Relaying /\ what = "eof"
  <2>1. tun' = fpm_gw_ws_client_eof(tun) /\ tun.way["up"].eof /\ tun.way["up"].sent = 0 /\ tun.way["up"].reads
    BY <1>2 DEF fpm_gw_ws_eventcb_client, Relaying
  <2> QED
    BY <1>1, <1>2, <2>1, ClientEofGood DEF TunInv, Relaying, Relays
<1>3. CASE ~(Relaying /\ what = "eof") /\ tun.stage = "relay"
  <2>1. tun' = fpm_gw_ws_finish(tun, TRUE, <<"client", what>>)
    BY <1>3 DEF fpm_gw_ws_eventcb_client
  <2>2. <<"client", what>> \in Reasons /\ <<"client", what>> # UpstreamEnd
    BY Reason
  <2> QED
    BY <1>1, <2>1, <2>2, FinishGood DEF TunInv
<1>4. CASE ~(Relaying /\ what = "eof") /\ tun.stage # "relay"
  <2>1. tun' = fpm_gw_ws_kick([tun EXCEPT !.client_gone = TRUE])
    BY <1>4 DEF fpm_gw_ws_eventcb_client
  <2> QED
    BY <1>1, <2>1, GoneGood
<1> QED
  BY <1>2, <1>3, <1>4

\* ... and on the side of the upstream, whose end is read to the last byte.
LEMMA UpstreamGood ==
  ASSUME TunInv, NEW what \in {"eof", "error"}, fpm_gw_ws_eventcb_upstream(what)
  PROVE  TunInv'
<1>1. Good(tun) /\ ~tun.freed
  BY DEF TunInv, fpm_gw_ws_eventcb_upstream, TunnelAlive
<1>2. CASE tun.stage = "relay"
  <2>1. tun' = fpm_gw_ws_finish(tun, FALSE, <<"upstream", what>>) /\ ~tun.finishing
    BY <1>2 DEF fpm_gw_ws_eventcb_upstream
  <2>2. <<"upstream", what>> \in Reasons /\ (<<"upstream", what>> = UpstreamEnd => what = "eof")
    BY Reason
  <2>3. ASSUME what = "eof"
        PROVE  Drained(tun.way["down"])
    <3>1. tun.way["down"].eof /\ tun.way["down"].sent = 0 /\ tun.way["down"].reads
      BY <2>3 DEF fpm_gw_ws_eventcb_upstream
    <3>2. Flowing(tun.way["down"]) /\ tun.way["down"] \in Way
      BY <1>1, <1>2, <2>1 DEF Good, Open, Relays, Ways, Tunnel
    <3> QED
      BY <3>1, <3>2, SMT DEF Flowing, Drained, Way
  <2> QED
    BY <1>1, <1>2, <2>1, <2>2, <2>3, FinishGood DEF TunInv
<1>3. CASE tun.stage # "relay"
  <2>1. tun' = fpm_gw_ws_kick([tun EXCEPT !.up_gone = TRUE])
    BY <1>3 DEF fpm_gw_ws_eventcb_upstream
  <2> QED
    BY <1>1, <2>1, GoneGood
<1> QED
  BY <1>2, <1>3

\* fpm_gw_ws_idle_cb(), fpm_gw_ws_deadline_cb()
LEMMA TimersGood ==
  ASSUME TunInv, fpm_gw_ws_idle_cb \/ fpm_gw_ws_deadline_cb
  PROVE  TunInv'
<1>1. CASE fpm_gw_ws_idle_cb
  <2>1. tun' = fpm_gw_ws_finish(tun, FALSE, <<"timer", "timeout">>) /\ Good(tun) /\ ~tun.freed
    BY <1>1 DEF fpm_gw_ws_idle_cb, TunInv, TunnelAlive
  <2>2. <<"timer", "timeout">> \in Reasons /\ <<"timer", "timeout">> # UpstreamEnd
    BY Reason
  <2> QED
    BY <2>1, <2>2, FinishGood DEF TunInv
<1>2. CASE fpm_gw_ws_deadline_cb
  BY <1>2, GoneGood DEF fpm_gw_ws_deadline_cb, TunnelAlive
<1> QED
  BY <1>1, <1>2

\* A side that only drains throws away what arrives: its books are closed.
LEMMA DrainGood ==
  ASSUME TunInv, NEW w \in Ways, fpm_gw_ws_linger_read(w)
  PROVE  TunInv'
<1> DEFINE d == tun.way[w]
           e == [d EXCEPT !.sent = 0]
<1>1. /\ d \in Way /\ ~tun.freed /\ tun \in Tunnel /\ tun' = [tun EXCEPT !.way[w] = e]
      /\ (w = "up" /\ tun.stage = "linger") \/ (w = "down" /\ UpStage(tun))
  BY DEF TunInv, Good, Tunnel, fpm_gw_ws_linger_read, TunnelAlive, Ways
<1>2. e \in Way /\ e.out = d.out /\ e.pend = d.pend /\ e.eof = d.eof /\ e.sent = 0
  BY <1>1 DEF Way
<1> HIDE DEF e
<1>3. /\ tun' \in Tunnel /\ tun'.stage = tun.stage /\ tun'.finishing = tun.finishing /\ tun'.why = tun.why
      /\ tun'.up_shut = tun.up_shut /\ tun'.down_shut = tun.down_shut /\ tun'.freed = tun.freed
      /\ tun'.cut = tun.cut /\ tun'.ubev = tun.ubev
      /\ tun'.way = [tun.way EXCEPT ![w] = e] /\ tun.way \in [Ways -> Way]
  BY <1>1, <1>2 DEF Tunnel
<1>4. tun'.way[w] = e /\ \A x \in Ways \ {w} : tun'.way[x] = tun.way[x]
  BY <1>3
<1>5. "up" \in Ways /\ "down" \in Ways
  BY DEF Ways
<1> HIDE DEF d
<1>6. CASE w = "up"
  BY <1>1, <1>2, <1>3, <1>4, <1>5, <1>6, SMTT(30)
     DEF TunInv, Good, Open, Relays, Kept, UpStage, Upward, Ended, Shut, Quiet, Drained, d
<1>7. CASE w = "down"
  BY <1>1, <1>2, <1>3, <1>4, <1>5, <1>7, SMTT(30)
     DEF TunInv, Good, Open, Relays, Kept, UpStage, Upward, Ended, Shut, Quiet, Drained, d
<1> QED
  BY <1>1, <1>6, <1>7

\* An end sends, or closes its side.
LEMMA PeersGood ==
  ASSUME TunInv, NEW w \in Ways, PeerSends(w) \/ HalfCloses(w)
  PROVE  TunInv'
<1> DEFINE d == tun.way[w]
<1>1. d \in Way /\ ~tun.freed /\ ~d.eof /\ tun \in Tunnel
  BY DEF TunInv, Good, Tunnel, PeerSends, HalfCloses, TunnelAlive
<1>2. Relaying => Flowing(d)
  BY DEF TunInv, Good, Open, Relays, Relaying
<1>3. CASE PeerSends(w)
  <2> DEFINE e == [d EXCEPT !.sent = @ + 1, !.all = @ + 1]
  <2>1. tun' = [tun EXCEPT !.way[w] = e]
    BY <1>1, <1>3 DEF PeerSends, Tunnel
  <2>2. /\ e \in Way /\ e.sent = d.sent + 1 /\ e.all = d.all + 1 /\ e.out = d.out /\ e.got = d.got
        /\ e.pend = d.pend /\ e.reads = d.reads /\ e.eof = d.eof
    <3>1. d.sent + 1 \in Nat /\ d.all + 1 \in Nat
      BY <1>1, SMT DEF Way
    <3> HIDE DEF d
    <3> QED
      BY <1>1, <3>1 DEF Way
  <2> HIDE DEF e
  <2>3. (Flowing(d) => Flowing(e)) /\ ~Drained(d)
    BY <1>1, <2>2 DEF Flowing, Drained
  <2>4. Booked(d) => Booked(e)
    BY <1>1, <2>2, TunnelMarks, SMTT(30) DEF Booked, Way
  <2> QED
    BY <1>1, <1>2, <2>1, <2>2, <2>3, <2>4, WayGood
<1>4. CASE HalfCloses(w)
  <2> DEFINE e == [d EXCEPT !.eof = TRUE]
  <2>1. tun' = [tun EXCEPT !.way[w] = e]
    BY <1>1, <1>4 DEF HalfCloses, Tunnel
  <2>2. /\ e \in Way /\ e.sent = d.sent /\ e.all = d.all /\ e.out = d.out /\ e.got = d.got
        /\ e.pend = d.pend /\ e.reads = d.reads
    BY <1>1 DEF Way
  <2> HIDE DEF e
  <2>3. (Flowing(d) => Flowing(e)) /\ (Booked(d) => Booked(e)) /\ ~Drained(d)
    BY <1>1, <2>2 DEF Flowing, Booked, Drained
  <2> QED
    BY <1>1, <1>2, <2>1, <2>2, <2>3, WayGood
<1> QED
  BY <1>3, <1>4

-----------------------------------------------------------------------------
(* The invariant                                                           *)

LEMMA TunStarts == TunInit => TunInv
<1> SUFFICES ASSUME TunInit
             PROVE  TunInv
  OBVIOUS
<1>1. NoBytes \in Way /\ Flowing(NoBytes) /\ Booked(NoBytes)
  BY TunnelMarks, SMT DEF NoBytes, Way, Flowing, Booked
<1>2. /\ tun \in Tunnel /\ tun.stage = "relay" /\ ~tun.finishing /\ tun.why = <<>> /\ tun.ubev
      /\ ~tun.up_shut /\ ~tun.down_shut /\ ~tun.freed /\ \A w \in Ways : tun.way[w] = NoBytes
  BY <1>1, Reason DEF TunInit, Tunnel, Stages
<1>3. "up" \in Ways /\ "down" \in Ways
  BY DEF Ways
<1> QED
  BY <1>1, <1>2, <1>3, Reason DEF TunInv, Good, Open, Relays, Kept, UpStage, Upward, Ended, Shut, Quiet

LEMMA TunKept == TunInv /\ [TunNext]_tun => TunInv'
<1> SUFFICES ASSUME TunInv, [TunNext]_tun
             PROVE  TunInv'
  OBVIOUS
<1>1. CASE fpm_gw_ws_step
  BY <1>1, StepGood
<1>2. CASE \E w \in Ways : fpm_gw_ws_readcb(w) \/ fpm_gw_ws_linger_read(w)
  BY <1>2, ReadGood, DrainGood
<1>3. CASE \E w \in Ways : fpm_gw_ws_writecb(w) \/ PeerSends(w) \/ HalfCloses(w)
  BY <1>3, WriteGood, PeersGood
<1>4. CASE \E what \in {"eof", "error", "timeout"} : fpm_gw_ws_eventcb_client(what)
  BY <1>4, ClientGood
<1>5. CASE fpm_gw_ws_eventcb_upstream("eof") \/ fpm_gw_ws_eventcb_upstream("error")
  BY <1>5, UpstreamGood
<1>6. CASE fpm_gw_ws_idle_cb \/ fpm_gw_ws_deadline_cb
  BY <1>6, TimersGood
<1>7. CASE UNCHANGED tun
  BY <1>7 DEF TunInv
<1> QED
  BY <1>1, <1>2, <1>3, <1>4, <1>5, <1>6, <1>7 DEF TunNext, TunWork, TunGone

(* Whatever the two ends send, read and close, and whichever timer fires   *)
(* (fpm_http_gw_ws.c): a buffer stays within its mark, a paused direction  *)
(* has a destination that will resume it, the end of either side is passed *)
(* on only behind all of its bytes, and no stage uses a freed bufferevent. *)
THEOREM TunnelTheorem == TunSpec => []TunnelSound
<1>1. TunInv => TunnelSound
  <2> SUFFICES ASSUME TunInv
               PROVE  TunnelSound
    OBVIOUS
  <2>1. tun \in Tunnel /\ tun.way["up"] \in Way /\ tun.way["down"] \in Way
    BY DEF TunInv, Good, Tunnel, Ways
  <2>2. TunTypeOK
    BY <2>1 DEF TunTypeOK, Tunnel, Stages, Way
  <2>3. NeverStalls
    BY DEF TunInv, Good, Open, Relays, Relaying, Flowing, NeverStalls
  <2>4. HalfCloseDelivers
    <3>1. SUFFICES ASSUME tun.up_shut
                   PROVE  tun.way["up"].got = tun.way["up"].all
      BY DEF HalfCloseDelivers
    <3>2. tun.stage = "up_linger" /\ tun.way["up"].out = 0 /\ Drained(tun.way["up"]) /\ Booked(tun.way["up"])
      BY <3>1 DEF TunInv, Good, Shut, Upward, UpStage, Kept
    <3> QED
      BY <2>1, <3>2, SMT DEF Booked, Drained, Way
  <2>5. UpstreamEndDelivers
    <3>1. SUFFICES ASSUME tun.down_shut, tun.why = UpstreamEnd, ~tun.cut
                   PROVE  tun.way["down"].got = tun.way["down"].all
      BY DEF UpstreamEndDelivers, UpstreamEnd
    <3>2. tun.way["down"].out = 0 /\ Drained(tun.way["down"]) /\ Booked(tun.way["down"])
      BY <3>1 DEF TunInv, Good, Shut, Upward, Ended, Kept
    <3> QED
      BY <2>1, <3>2, SMT DEF Booked, Drained, Way
  <2>6. StagesLive
    BY DEF TunInv, Good, Upward, Quiet, Open, Relays, Relaying, StagesLive
  <2> QED
    BY <2>2, <2>3, <2>4, <2>5, <2>6 DEF TunnelSound
<1>2. TunInit => TunInv
  BY TunStarts
<1>3. TunInv /\ [TunNext]_tun => TunInv'
  BY TunKept
<1> QED
  BY <1>1, <1>2, <1>3, PTL DEF TunSpec

-----------------------------------------------------------------------------
(***************************************************************************)
(* The survivor of a supervisor pool, for any number of pids, reloads and  *)
(* reuses of a pid, and any deadline.  What the run checks is not          *)
(* inductive: that only the spared copy is signalled rests on every list   *)
(* naming a start time that no stranger has had; that none is lost rests   *)
(* on which lists can be non-empty in which phase of the master; and that  *)
(* no reload prolongs a life rests on the age of a copy and the seconds    *)
(* its entry has left never exceeding the deadline together.               *)
(***************************************************************************)

Process == [who : {"none", "script", "stranger"}, inc : 0 .. MaxInc,
            st : {"none", "run", "told", "zombie"}, dog : -1 .. StopTimeout, age : Nat,
            init : BOOLEAN, hit : BOOLEAN]
SparedEntry == [pid : Pids, start : 1 .. MaxInc]
EnvEntry == [pid : Pids, start : 1 .. MaxInc, left : 0 .. Timeout]
OrphanEntry == [pid : Pids, start : 1 .. MaxInc, left : 0 .. Timeout, ran : BOOLEAN]
Tracked == [pid : Pids \cup {0}, start : 0 .. MaxInc, left : 0 .. Timeout, reg : BOOLEAN,
            poll : BOOLEAN, kill : BOOLEAN, back : 0 .. StopTimeout + 1, reaped : BOOLEAN,
            mem : {"none", "live", "freed"}, ran : BOOLEAN]
Generation == [phase : {"up", "reload", "exec", "gone"}, n : 0 .. MaxGen, pool : BOOLEAN,
               started : BOOLEAN, conf : SurvConfs]

SurvTyped ==
  /\ gen \in Generation /\ surv \in Tracked /\ proc \in [Pids -> Process]
  /\ spare \in {None} \cup SparedEntry
  /\ env \in {None} \cup EnvEntry
  /\ orphan \in {None} \cup OrphanEntry

Untracked(sv) == sv.pid = 0 /\ ~sv.reg /\ ~sv.poll /\ ~sv.kill

\* Which lists can name somebody when.
Lists ==
  /\ spare.pid # 0 => gen.phase = "reload" /\ gen.pool /\ ~surv.reg
  /\ surv.reg => surv.pid # 0 /\ env.pid = 0 /\ orphan.pid = 0
  /\ gen.phase \in {"exec", "gone"} => Untracked(surv) /\ orphan.pid = 0
  /\ gen.phase = "gone" => env.pid = 0
  /\ gen.pool /\ gen.phase \in {"up", "reload"} => env.pid = 0
  /\ gen.phase = "up" /\ env.pid # 0 => orphan.pid # 0
  /\ orphan.pid # 0 => env.pid = orphan.pid /\ env.start = orphan.start /\ env.left = orphan.left

\* The timers: one of the two at most, on live memory, and none that has run
\* and left a deadline that is over.
Timers ==
  /\ surv.poll \/ surv.kill => surv.mem = "live" /\ surv.pid # 0 /\ surv.start # 0
  /\ ~(surv.poll /\ surv.kill)
  /\ surv.reg => ~surv.reaped /\ surv.start # 0
  /\ surv.poll /\ surv.ran => surv.left > 0
  /\ orphan.pid # 0 /\ orphan.ran => orphan.left > 0

\* A start time in a list was never a stranger's.
Mine(e, pr) ==
  e.pid # 0 => /\ pr[e.pid].inc >= e.start
               /\ pr[e.pid].inc = e.start => pr[e.pid].who # "stranger"

Running(q) == q.who = "script" /\ q.st = "run"

IsCopy(e, pr) == e.pid # 0 /\ Running(pr[e.pid]) /\ pr[e.pid].inc = e.start

\* What a copy that was not told to stop has lived and what its entry grants are within the deadline.
InTime(e, pr) == IsCopy(e, pr) => pr[e.pid].age + e.left <= Timeout

Names(e, pr, p) == e.pid = p /\ e.start = pr[p].inc

Held(p) ==
  \/ Names(spare, proc, p) \/ Names(env, proc, p)
  \/ surv.reg /\ surv.poll /\ Names(surv, proc, p)

Named == Mine(spare, proc) /\ Mine(env, proc) /\ Mine(surv, proc)
Untouched == \A p \in Pids : ~proc[p].hit
Watched == gen.phase # "gone" => \A p \in Pids : Running(proc[p]) => Held(p)
Aged ==
  /\ IsCopy(spare, proc) => proc[spare.pid].age = 0
  /\ InTime(env, proc)
  /\ surv.reg /\ surv.poll => InTime(surv, proc)

SurvInv == SurvTyped /\ Lists /\ Timers /\ Named /\ Untouched /\ Watched /\ Aged

-----------------------------------------------------------------------------
(* Processes                                                               *)

\* A process goes on, ends, or its pid goes to a stranger.
Tame(q, r) ==
  /\ r \in Process /\ ~r.hit /\ r.inc >= q.inc
  /\ r.inc = q.inc => /\ r.who = "stranger" => q.who = "stranger"
                      /\ Running(r) => Running(q) /\ r.age = q.age
  /\ r.inc # q.inc => r.who = "stranger"

LEMMA TameSame ==
  ASSUME NEW q \in Process, ~q.hit
  PROVE  Tame(q, q)
BY SurvivorAssumption, SMTT(30) DEF Tame, Process

\* Freed(), and Dead() by whoever reaps.
LEMMA FreedIs ==
  ASSUME NEW q \in Process, ~q.hit
  PROVE  /\ Freed(q) \in Process /\ Freed(q).who = "none" /\ Freed(q).inc = q.inc
         /\ Freed(q).st = "none" /\ Freed(q).age = 0 /\ ~Freed(q).hit
         /\ Tame(q, Freed(q))
<1>1. -1 \in -1 .. StopTimeout /\ 0 \in Nat
  BY SurvivorAssumption, SMT
<1>2. /\ Freed(q) \in Process /\ Freed(q).who = "none" /\ Freed(q).inc = q.inc
      /\ Freed(q).st = "none" /\ Freed(q).age = 0 /\ ~Freed(q).hit
  BY <1>1 DEF Freed, Empty, Process
<1>3. q.inc \in Nat
  BY SurvivorAssumption, SMT DEF Process
<1> QED
  BY <1>2, <1>3, SMTT(30) DEF Tame, Running

LEMMA DeadIs ==
  ASSUME NEW p \in Pids, proc[p] \in Process, ~proc[p].hit
  PROVE  Dead(p) \in Process /\ Tame(proc[p], Dead(p)) /\ Dead(p).st # "run"
<1> DEFINE q == proc[p]
           r == [q EXCEPT !.st = "zombie", !.dog = -1]
<1>1. -1 \in -1 .. StopTimeout /\ q.inc \in Nat
  BY SurvivorAssumption, SMT DEF Process
<1>2. /\ r \in Process /\ r.who = q.who /\ r.inc = q.inc /\ r.st = "zombie" /\ r.age = q.age /\ ~r.hit
  BY <1>1 DEF Process
<1>3. Tame(q, r) /\ r.st # "run"
  BY <1>1, <1>2, SMT DEF Tame, Running
<1> QED
  BY <1>2, <1>3, FreedIs DEF Dead

\* A signal to a process that is no stranger: it does not run on unaware.
LEMMA StoppedIs ==
  ASSUME NEW p \in Pids, proc[p] \in Process, ~proc[p].hit, proc[p].who = "script"
  PROVE  Stopped(p) \in Process /\ Tame(proc[p], Stopped(p)) /\ Stopped(p).st # "run"
<1> DEFINE q == proc[p]
           d == IF gen.conf.fork THEN StopTimeout ELSE -1
           r == [q EXCEPT !.st = "told", !.dog = d]
<1>1. d \in -1 .. StopTimeout /\ q.inc \in Nat
  BY SurvivorAssumption, SMT DEF Process
<1>2. Stopped(p) = IF q.st = "run" THEN r ELSE q
  BY DEF Stopped
<1> HIDE DEF d
<1>3. /\ r \in Process /\ r.who = q.who /\ r.inc = q.inc /\ r.st = "told" /\ r.age = q.age /\ ~r.hit
  BY <1>1 DEF Process
<1> HIDE DEF r
<1>4. CASE q.st = "run"
  BY <1>1, <1>2, <1>3, <1>4, SMTT(30) DEF Tame, Running
<1>5. CASE q.st # "run"
  BY <1>2, <1>5, TameSame
<1> QED
  BY <1>4, <1>5

LEMMA EntriesAre ==
  ASSUME SurvTyped
  PROVE  /\ spare.pid # 0 => spare.pid \in Pids /\ spare.start \in Nat
         /\ env.pid # 0 => env.pid \in Pids /\ env.start \in Nat /\ env.left \in 0 .. Timeout
         /\ surv.pid # 0 => surv.pid \in Pids /\ surv.start \in Nat /\ surv.left \in 0 .. Timeout
         /\ orphan.pid # 0 => /\ orphan.pid \in Pids /\ orphan.start \in Nat
                              /\ orphan.left \in 0 .. Timeout
<1>1. MaxInc \in Nat
  BY SurvivorAssumption
<1>2. spare.pid # 0 => spare \in SparedEntry
  BY SMT DEF SurvTyped, None
<1>3. env.pid # 0 => env \in EnvEntry
  BY SMT DEF SurvTyped, None
<1>4. orphan.pid # 0 => orphan \in OrphanEntry
  BY SMT DEF SurvTyped, None
<1>5. surv \in Tracked
  BY DEF SurvTyped
<1> QED
  BY <1>1, <1>2, <1>3, <1>4, <1>5, SMTT(30) DEF SparedEntry, EnvEntry, OrphanEntry, Tracked

\* What a step of the processes leaves of an entry.
LEMMA TameKeeps ==
  ASSUME NEW q \in [Pids -> Process], NEW r, \A p \in Pids : Tame(q[p], r[p]),
         NEW e, e.pid # 0 => e.pid \in Pids /\ e.start \in Nat, Mine(e, q)
  PROVE  /\ Mine(e, r)
         /\ IsCopy(e, r) => IsCopy(e, q) /\ r[e.pid].age = q[e.pid].age
<1>1. CASE e.pid = 0
  BY <1>1 DEF Mine, IsCopy
<1>2. CASE e.pid # 0
  <2>1. Tame(q[e.pid], r[e.pid]) /\ q[e.pid] \in Process
    BY <1>2
  <2>2. q[e.pid].inc \in Nat /\ r[e.pid].inc \in Nat /\ e.start \in Nat
    BY <1>2, <2>1, SurvivorAssumption, SMTT(30) DEF Tame, Process
  <2> QED
    BY <1>2, <2>1, <2>2, SMTT(30) DEF Mine, IsCopy, Tame, Running
<1> QED
  BY <1>1, <1>2

\* A step that only lets processes go on and lists be cleared keeps the
\* invariant, if it clears none that names a copy which still runs unaware.
LEMMA ProcStep ==
  ASSUME SurvInv, SurvTyped', Lists', Timers', \A p \in Pids : Tame(proc[p], proc'[p]),
         spare'.pid = 0 \/ spare' = spare,
         env'.pid = 0 \/ env' = env,
         surv'.pid = 0 \/ (surv'.pid = surv.pid /\ surv'.start = surv.start /\ surv'.left = surv.left),
         surv'.reg /\ surv'.poll => surv.reg /\ surv.poll,
         gen'.phase # "gone" => gen.phase # "gone",
         gen'.phase # "gone" => \A p \in Pids : Running(proc'[p]) =>
           /\ Names(spare, proc, p) => spare' = spare
           /\ Names(env, proc, p) => env' = env
           /\ surv.reg /\ surv.poll /\ Names(surv, proc, p) => surv'.reg /\ surv'.poll /\ surv'.pid = surv.pid
  PROVE  SurvInv'
<1>1. /\ proc \in [Pids -> Process] /\ 0 \notin Pids
  BY SurvivorAssumption DEF SurvInv, SurvTyped
<1>2. /\ Mine(spare, proc') /\ (IsCopy(spare, proc') => IsCopy(spare, proc) /\ proc'[spare.pid].age = proc[spare.pid].age)
      /\ Mine(env, proc') /\ (IsCopy(env, proc') => IsCopy(env, proc) /\ proc'[env.pid].age = proc[env.pid].age)
      /\ Mine(surv, proc') /\ (IsCopy(surv, proc') => IsCopy(surv, proc) /\ proc'[surv.pid].age = proc[surv.pid].age)
  BY <1>1, TameKeeps, EntriesAre, SMTT(30) DEF SurvInv, Named
<1>3. Named'
  BY <1>2 DEF Named, Mine
<1>4. Untouched'
  BY DEF Untouched, Tame
<1>5. Aged'
  <2>1. IsCopy(spare', proc') => proc'[spare'.pid].age = 0
    BY <1>2 DEF SurvInv, Aged, IsCopy
  <2>2. InTime(env', proc')
    BY <1>2 DEF SurvInv, Aged, InTime, IsCopy
  <2>3. surv'.reg /\ surv'.poll => InTime(surv', proc')
    BY <1>2 DEF SurvInv, Aged, InTime, IsCopy
  <2> QED
    BY <2>1, <2>2, <2>3 DEF Aged
<1>6. Watched'
  <2>1. SUFFICES ASSUME gen'.phase # "gone", NEW p \in Pids, Running(proc'[p])
                 PROVE  Held(p)'
    BY DEF Watched
  <2>2. Running(proc[p]) /\ proc'[p].inc = proc[p].inc
    BY <2>1 DEF Tame, Running
  <2>3. Held(p)
    BY <2>1, <2>2 DEF SurvInv, Watched
  <2> QED
    BY <1>1, <2>1, <2>2, <2>3 DEF Held, Names
<1> QED
  BY <1>3, <1>4, <1>5, <1>6 DEF SurvInv

LEMMA TameAll ==
  ASSUME SurvInv, NEW p \in Pids, NEW r, Tame(proc[p], r), proc' = [proc EXCEPT ![p] = r]
  PROVE  proc' \in [Pids -> Process] /\ proc'[p] = r /\ \A x \in Pids : Tame(proc[x], proc'[x])
<1>1. proc \in [Pids -> Process] /\ r \in Process
  BY DEF SurvInv, SurvTyped, Tame
<1>2. proc' \in [Pids -> Process] /\ proc'[p] = r /\ \A x \in Pids \ {p} : proc'[x] = proc[x]
  BY <1>1
<1>3. \A x \in Pids : Tame(proc[x], proc[x])
  BY <1>1, TameSame DEF SurvInv, Untouched
<1> QED
  BY <1>2, <1>3

LEMMA TameStill ==
  ASSUME SurvInv, proc' = proc
  PROVE  proc' \in [Pids -> Process] /\ \A x \in Pids : Tame(proc[x], proc'[x])
BY TameSame DEF SurvInv, SurvTyped, Untouched

\* A signal behind the check of the start time reaches the spared copy.
LEMMA SignalIs ==
  ASSUME SurvInv, NEW e, e.pid \in Pids, Mine(e, proc), fpm_pid_is_same(e.pid, e.start),
         Signal(e.pid)
  PROVE  /\ proc' \in [Pids -> Process] /\ \A x \in Pids : Tame(proc[x], proc'[x])
         /\ ~Running(proc'[e.pid])
<1>1. proc[e.pid] \in Process /\ ~proc[e.pid].hit /\ 0 \notin Pids
  BY SurvivorAssumption DEF SurvInv, SurvTyped, Untouched
<1>2. proc[e.pid].who = "script"
  BY <1>1 DEF fpm_pid_is_same, Mine, Process
<1>3. Tame(proc[e.pid], Stopped(e.pid)) /\ Stopped(e.pid).st # "run"
  BY <1>1, <1>2, StoppedIs
<1> QED
  BY <1>3, TameAll DEF Signal, Running

-----------------------------------------------------------------------------
(* The steps of the processes, and of the timers                           *)

\* A script ends, a pid goes to a stranger, a copy of the new generation starts.
LEMMA ProcessesInv ==
  ASSUME SurvInv, Starts \/ (\E p \in Pids : Exits(p) \/ Reuse(p)) \/ UNCHANGED survvars
  PROVE  SurvInv'
<1>1. CASE UNCHANGED survvars
  BY <1>1, SMT DEF survvars, SurvInv, SurvTyped, Lists, Timers, Named, Untouched, Watched, Aged, Held
<1>2. CASE Starts
  <2>1. /\ gen' = [gen EXCEPT !.started = TRUE] /\ gen \in Generation
        /\ UNCHANGED <<spare, env, surv, orphan, proc>>
    BY <1>2 DEF Starts, SurvInv, SurvTyped
  <2>2. gen' \in Generation /\ gen'.phase = gen.phase /\ gen'.pool = gen.pool
    BY <2>1 DEF Generation
  <2>3. SurvTyped' /\ Lists' /\ Timers'
    BY <2>1, <2>2 DEF SurvInv, SurvTyped, Lists, Timers
  <2>4. \A x \in Pids : Tame(proc[x], proc'[x])
    BY <2>1, TameStill
  <2> QED
    BY <2>1, <2>2, <2>3, <2>4, ProcStep
<1>3. ASSUME NEW p \in Pids, Exits(p) \/ Reuse(p)
      PROVE  SurvInv'
  <2>1. UNCHANGED <<gen, spare, env, surv, orphan>> /\ proc[p] \in Process /\ ~proc[p].hit
    BY <1>3 DEF Exits, Reuse, SurvInv, SurvTyped, Untouched
  <2>2. ASSUME Exits(p)
        PROVE  Tame(proc[p], Dead(p)) /\ proc' = [proc EXCEPT ![p] = Dead(p)]
    BY <2>1, <2>2, DeadIs DEF Exits
  <2>3. ASSUME Reuse(p)
        PROVE  \E r : Tame(proc[p], r) /\ proc' = [proc EXCEPT ![p] = r]
    <3> DEFINE q == proc[p]
               r == [q EXCEPT !.who = "stranger", !.st = "run", !.inc = @ + 1]
    <3>0. q.inc \in 1 .. MaxInc - 1 /\ MaxInc \in Nat /\ proc \in [Pids -> Process]
      BY <2>3, SurvivorAssumption DEF Reuse, SurvInv, SurvTyped
    <3>1. q.inc \in Nat /\ q.inc + 1 \in 0 .. MaxInc
      BY <3>0, SMT
    <3>2. r \in Process /\ r.who = "stranger" /\ r.inc = q.inc + 1 /\ ~r.hit
      BY <2>1, <3>1 DEF Process
    <3>3. Tame(q, r)
      BY <3>1, <3>2, SMTT(30) DEF Tame
    <3>4. proc' = [proc EXCEPT ![p] = r]
      BY <2>3, <3>0 DEF Reuse
    <3> QED
      BY <3>3, <3>4
  <2>4. proc' \in [Pids -> Process] /\ \A x \in Pids : Tame(proc[x], proc'[x])
    BY <1>3, <2>2, <2>3, TameAll
  <2>5. SurvTyped' /\ Lists' /\ Timers'
    BY <2>1, <2>4 DEF SurvInv, SurvTyped, Lists, Timers
  <2> QED
    BY <2>1, <2>4, <2>5, ProcStep
<1> QED
  BY <1>1, <1>2, <1>3

\* SIGCHLD: the pid is free, and the struct of a tracked survivor is released
\* by the callback only when no timer has it (survivor_exited()).
LEMMA BuryInv ==
  ASSUME SurvInv, NEW p \in Pids, fpm_children_bury(p)
  PROVE  SurvInv'
<1>1. /\ UNCHANGED <<gen, spare, env, orphan>> /\ proc[p] \in Process /\ ~proc[p].hit /\ surv \in Tracked
      /\ gen.phase \in {"up", "reload"} /\ proc[p].st = "zombie"
      /\ proc' = [proc EXCEPT ![p] = Freed(proc[p])]
  BY DEF fpm_children_bury, SurvInv, SurvTyped, Untouched
<1>2. proc' \in [Pids -> Process] /\ \A x \in Pids : Tame(proc[x], proc'[x])
  BY <1>1, FreedIs, TameAll
<1>3. ~Running(proc'[p])
  BY <1>1, <1>2 DEF Tame, Running
<1>4. CASE ~(surv.reg /\ surv.pid = p)
  <2>1. surv' = surv
    BY <1>4 DEF fpm_children_bury
  <2>2. SurvTyped' /\ Lists' /\ Timers'
    BY <1>1, <1>2, <2>1 DEF SurvInv, SurvTyped, Lists, Timers
  <2> QED
    BY <1>1, <1>2, <2>1, <2>2, ProcStep
<1>5. CASE surv.reg /\ surv.pid = p
  <2>1. surv' = survivor_exited(surv)
    BY <1>5 DEF fpm_children_bury
  <2>2. /\ surv' \in Tracked /\ surv'.pid = surv.pid /\ surv'.start = surv.start /\ surv'.left = surv.left
        /\ ~surv'.reg /\ surv'.reaped /\ surv'.poll = surv.poll /\ surv'.kill = surv.kill /\ surv'.ran = surv.ran
        /\ (surv.kill \/ surv.poll => surv'.mem = "live")
    BY <1>1, <2>1 DEF survivor_exited, Tracked
  <2>3. SurvTyped' /\ Lists' /\ Timers'
    BY <1>1, <1>2, <2>2 DEF SurvInv, SurvTyped, Lists, Timers
  <2>4. \A x \in Pids : Running(proc'[x]) => x # surv.pid
    BY <1>3, <1>5
  <2> QED
    BY <1>1, <1>2, <2>2, <2>3, <2>4, ProcStep DEF Names
<1> QED
  BY <1>4, <1>5

\* survivor_poll(): it frees the struct of a survivor that was reaped, retires
\* one whose successor has started or whose time is over, or waits.
LEMMA PollInv ==
  ASSUME SurvInv, survivor_poll
  PROVE  SurvInv'
<1>1. /\ UNCHANGED <<gen, spare, env, orphan>> /\ surv.poll /\ ~surv.kill /\ surv \in Tracked
      /\ surv.pid \in Pids /\ surv.start \in Nat /\ surv.mem = "live" /\ Mine(surv, proc)
  BY EntriesAre DEF survivor_poll, SurvInv, SurvTyped, Timers, Named
<1>2. CASE surv.reaped
  <2>1. surv' = [surv EXCEPT !.poll = FALSE, !.mem = "freed"] /\ proc' = proc /\ ~surv.reg
    BY <1>2 DEF survivor_poll, SurvInv, Timers
  <2>2. /\ surv' \in Tracked /\ ~surv'.poll /\ ~surv'.kill /\ ~surv'.reg
        /\ surv'.pid = surv.pid /\ surv'.start = surv.start /\ surv'.left = surv.left
    BY <1>1, <2>1 DEF Tracked
  <2>3. proc' \in [Pids -> Process] /\ \A x \in Pids : Tame(proc[x], proc'[x])
    BY <2>1, TameStill
  <2>4. SurvTyped' /\ Lists' /\ Timers'
    <3>1. gen.phase \notin {"exec", "gone"}
      BY <1>1 DEF SurvInv, Lists, Untracked
    <3> QED
      BY <1>1, <2>2, <2>3, <3>1 DEF SurvInv, SurvTyped, Lists, Timers
  <2> QED
    BY <1>1, <2>1, <2>2, <2>3, <2>4, ProcStep
<1>3. CASE ~surv.reaped /\ (gen.started \/ surv.left = 0)
  <2>1. survivor_retire
    BY <1>3 DEF survivor_poll
  <2>2. /\ surv' \in Tracked /\ ~surv'.poll /\ surv'.reg = surv.reg /\ surv'.reaped = surv.reaped /\ surv'.mem = surv.mem
        /\ surv'.pid = surv.pid /\ surv'.start = surv.start /\ surv'.left = surv.left
    <3> DEFINE b == StopTimeout + 1
    <3>1. b \in 0 .. StopTimeout + 1
      BY SurvivorAssumption, SMT
    <3>2. \/ surv' = [surv EXCEPT !.poll = FALSE, !.kill = TRUE, !.back = b, !.ran = TRUE]
          \/ surv' = [surv EXCEPT !.poll = FALSE, !.ran = TRUE]
      BY <2>1 DEF survivor_retire
    <3> HIDE DEF b
    <3> QED
      BY <1>1, <3>1, <3>2 DEF Tracked
  <2>3. /\ proc' \in [Pids -> Process] /\ \A x \in Pids : Tame(proc[x], proc'[x])
        /\ Running(proc'[surv.pid]) => surv.start # proc[surv.pid].inc
    <3>1. CASE fpm_pid_is_same(surv.pid, surv.start)
      BY <1>1, <2>1, <3>1, SignalIs DEF survivor_retire
    <3>2. CASE ~fpm_pid_is_same(surv.pid, surv.start)
      <4>1. proc' = proc
        BY <2>1, <3>2 DEF survivor_retire
      <4>2. Running(proc[surv.pid]) => surv.start # proc[surv.pid].inc
        BY <3>2 DEF fpm_pid_is_same, Running
      <4> QED
        BY <4>1, <4>2, TameStill
    <3> QED
      BY <3>1, <3>2
  <2>4. SurvTyped' /\ Lists' /\ Timers'
    <3>1. gen.phase \notin {"exec", "gone"}
      BY <1>1 DEF SurvInv, Lists, Untracked
    <3>2. surv.start # 0 /\ surv.pid # 0
      BY <1>1 DEF SurvInv, Timers
    <3> QED
      BY <1>1, <2>2, <2>3, <3>1, <3>2 DEF SurvInv, SurvTyped, Lists, Timers
  <2> QED
    BY <1>1, <2>2, <2>3, <2>4, ProcStep DEF Names
<1>4. CASE ~surv.reaped /\ ~(gen.started \/ surv.left = 0)
  <2>1. surv' = [surv EXCEPT !.ran = TRUE] /\ proc' = proc
    BY <1>4 DEF survivor_poll
  <2>2. /\ surv' \in Tracked /\ surv'.poll = surv.poll /\ surv'.kill = surv.kill /\ surv'.reg = surv.reg
        /\ surv'.reaped = surv.reaped /\ surv'.mem = surv.mem
        /\ surv'.pid = surv.pid /\ surv'.start = surv.start /\ surv'.left = surv.left
    BY <1>1, <2>1 DEF Tracked
  <2>3. surv'.left > 0
    BY <1>1, <1>4, <2>2, SurvivorAssumption, SMTT(30) DEF Tracked
  <2>4. proc' \in [Pids -> Process] /\ \A x \in Pids : Tame(proc[x], proc'[x])
    BY <2>1, TameStill
  <2>5. SurvTyped' /\ Lists' /\ Timers'
    <3>1. gen.phase \notin {"exec", "gone"}
      BY <1>1 DEF SurvInv, Lists, Untracked
    <3> QED
      BY <1>1, <2>2, <2>3, <2>4, <3>1 DEF SurvInv, SurvTyped, Lists, Timers
  <2> QED
    BY <1>1, <2>1, <2>2, <2>4, <2>5, ProcStep
<1> QED
  BY <1>2, <1>3, <1>4

\* survivor_backstop(): what it kills is the spared copy, told before.
LEMMA BackstopInv ==
  ASSUME SurvInv, survivor_backstop
  PROVE  SurvInv'
<1>1. /\ UNCHANGED <<gen, spare, env, orphan>> /\ ~surv.poll /\ surv.kill /\ surv \in Tracked
      /\ surv.pid \in Pids /\ surv.start \in Nat /\ Mine(surv, proc) /\ 0 \notin Pids
  BY EntriesAre, SurvivorAssumption DEF survivor_backstop, SurvInv, SurvTyped, Timers, Named
<1>2. /\ surv' \in Tracked /\ ~surv'.poll /\ ~surv'.kill /\ surv'.reg = surv.reg /\ surv'.reaped = surv.reaped
      /\ surv'.pid = surv.pid /\ surv'.start = surv.start /\ surv'.left = surv.left
  BY <1>1 DEF Tracked, survivor_backstop
<1>3. proc' \in [Pids -> Process] /\ \A x \in Pids : Tame(proc[x], proc'[x])
  <2>1. CASE ~surv.reaped /\ fpm_pid_is_same(surv.pid, surv.start) /\ proc[surv.pid].st # "zombie"
    <3>1. proc[surv.pid] \in Process /\ ~proc[surv.pid].hit
      BY <1>1 DEF SurvInv, SurvTyped, Untouched
    <3>2. Spared(surv.pid)
      BY <1>1, <2>1, <3>1 DEF Mine, fpm_pid_is_same, Spared, Process
    <3>3. proc' = [proc EXCEPT ![surv.pid] = Dead(surv.pid)]
      BY <2>1, <3>2 DEF survivor_backstop
    <3> QED
      BY <1>1, <3>1, <3>3, DeadIs, TameAll
  <2>2. CASE ~(~surv.reaped /\ fpm_pid_is_same(surv.pid, surv.start) /\ proc[surv.pid].st # "zombie")
    BY <2>2, TameStill DEF survivor_backstop
  <2> QED
    BY <2>1, <2>2
<1>4. SurvTyped' /\ Lists' /\ Timers'
  <2>1. gen.phase \notin {"exec", "gone"}
    BY <1>1 DEF SurvInv, Lists, Untracked
  <2> QED
    BY <1>1, <1>2, <1>3, <2>1 DEF SurvInv, SurvTyped, Lists, Timers
<1> QED
  BY <1>1, <1>2, <1>3, <1>4, ProcStep

\* orphan_poll(): the survivor of a pool that is gone is told at its deadline,
\* and its entry leaves the environment.
LEMMA OrphanInv ==
  ASSUME SurvInv, orphan_poll
  PROVE  SurvInv'
<1>1. /\ UNCHANGED <<gen, spare, surv>> /\ orphan.pid # 0 /\ orphan \in OrphanEntry
      /\ env.pid = orphan.pid /\ env.start = orphan.start /\ env.pid \in Pids /\ Mine(env, proc)
      /\ orphan.left \in 0 .. Timeout
  BY EntriesAre, SMT DEF orphan_poll, SurvInv, SurvTyped, None, Lists, Named
<1>2. CASE orphan.left > 0
  <2>1. orphan' = [orphan EXCEPT !.ran = TRUE] /\ env' = env /\ proc' = proc
    BY <1>2 DEF orphan_poll
  <2>2. orphan' \in OrphanEntry /\ orphan'.pid = orphan.pid /\ orphan'.start = orphan.start /\ orphan'.left = orphan.left
    BY <1>1, <2>1 DEF OrphanEntry
  <2>3. proc' \in [Pids -> Process] /\ \A x \in Pids : Tame(proc[x], proc'[x])
    BY <2>1, TameStill
  <2>4. SurvTyped' /\ Lists' /\ Timers'
    BY <1>1, <1>2, <2>1, <2>2, <2>3 DEF SurvInv, SurvTyped, Lists, Timers
  <2> QED
    BY <1>1, <2>1, <2>3, <2>4, ProcStep
<1>3. CASE ~(orphan.left > 0)
  <2>1. orphan' = None /\ env' = None /\ orphan'.pid = 0 /\ env'.pid = 0
    BY <1>3, SMT DEF orphan_poll, None
  <2>2. /\ proc' \in [Pids -> Process] /\ \A x \in Pids : Tame(proc[x], proc'[x])
        /\ Running(proc'[env.pid]) => env.start # proc[env.pid].inc
    <3>1. CASE fpm_pid_is_same(orphan.pid, orphan.start) /\ proc[orphan.pid].st # "zombie"
      <4>1. fpm_pid_is_same(env.pid, env.start) /\ Signal(env.pid)
        BY <1>1, <1>3, <3>1 DEF orphan_poll
      <4> QED
        BY <1>1, <4>1, SignalIs
    <3>2. CASE ~(fpm_pid_is_same(orphan.pid, orphan.start) /\ proc[orphan.pid].st # "zombie")
      <4>1. proc' = proc
        BY <1>3, <3>2 DEF orphan_poll
      <4>2. Running(proc[env.pid]) => env.start # proc[env.pid].inc
        BY <1>1, <3>2 DEF fpm_pid_is_same, Running
      <4> QED
        BY <4>1, <4>2, TameStill
    <3> QED
      BY <3>1, <3>2
  <2>3. SurvTyped' /\ Lists' /\ Timers'
    BY <1>1, <2>1, <2>2 DEF SurvInv, SurvTyped, Lists, Timers
  <2> QED
    BY <1>1, <2>1, <2>2, <2>3, ProcStep DEF Names
<1> QED
  BY <1>2, <1>3

LEMMA NoSurvIs == NoSurv \in Tracked /\ Untracked(NoSurv)
<1>1. 0 \in 0 .. MaxInc /\ 0 \in 0 .. Timeout /\ 0 \in 0 .. StopTimeout + 1
  BY SurvivorAssumption, SMT
<1> QED
  BY <1>1 DEF NoSurv, Tracked, Untracked

\* The master gives up: it signals what the environment still names.
LEMMA MasterEndsInv ==
  ASSUME SurvInv, MasterEnds
  PROVE  SurvInv'
<1>1. /\ gen' = [gen EXCEPT !.phase = "gone"] /\ gen \in Generation /\ discard_unadopted
      /\ spare' = None /\ surv' = NoSurv /\ orphan' = None /\ env' = None
  BY DEF MasterEnds, discard_unadopted, SurvInv, SurvTyped
<1>2. gen' \in Generation /\ gen'.phase = "gone" /\ None.pid = 0
  BY <1>1 DEF Generation, None
<1>3. proc' \in [Pids -> Process] /\ \A x \in Pids : Tame(proc[x], proc'[x])
  <2>1. CASE env.pid # 0 /\ fpm_pid_is_same(env.pid, env.start)
    <3>1. env.pid \in Pids /\ Mine(env, proc)
      BY <2>1, EntriesAre DEF SurvInv, Named
    <3> QED
      BY <1>1, <2>1, <3>1, SignalIs DEF discard_unadopted
  <2>2. CASE ~(env.pid # 0 /\ fpm_pid_is_same(env.pid, env.start))
    BY <1>1, <2>2, TameStill DEF discard_unadopted
  <2> QED
    BY <2>1, <2>2
<1>4. SurvTyped' /\ Lists' /\ Timers'
  BY <1>1, <1>2, <1>3, NoSurvIs DEF Untracked, SurvTyped, Lists, Timers
<1> QED
  BY <1>1, <1>2, <1>3, <1>4, NoSurvIs, ProcStep DEF Untracked

-----------------------------------------------------------------------------
(* The steps of a reload                                                   *)

\* The pid of the copy that is spared was in no list: it was free.
LEMMA SpareInv ==
  ASSUME SurvInv, NEW two \in BOOLEAN, fpm_pool_supervisor_reload_spare_child(two)
  PROVE  SurvInv'
<1>1. /\ gen' = [gen EXCEPT !.phase = "reload", !.n = @ + 1] /\ gen \in Generation
      /\ gen.phase = "up" /\ gen.n < MaxGen /\ UNCHANGED <<env, surv, orphan>> /\ spare.pid = 0
  BY DEF fpm_pool_supervisor_reload_spare_child, SurvInv, SurvTyped, Lists
<1>2. gen' \in Generation /\ gen'.phase = "reload" /\ gen'.pool = gen.pool
  <2>1. gen.n + 1 \in 0 .. MaxGen
    BY <1>1, SurvivorAssumption, SMTT(30) DEF Generation
  <2> QED
    BY <1>1, <2>1 DEF Generation
<1>3. CASE ~(gen.pool /\ two /\ ~surv.reg)
  <2>1. proc' = proc /\ spare' = spare
    BY <1>3 DEF fpm_pool_supervisor_reload_spare_child
  <2>2. proc' \in [Pids -> Process] /\ \A x \in Pids : Tame(proc[x], proc'[x])
    BY <2>1, TameStill
  <2>3. SurvTyped' /\ Lists' /\ Timers'
    BY <1>1, <1>2, <2>1, <2>2 DEF SurvInv, SurvTyped, Lists, Timers
  <2> QED
    BY <1>1, <1>2, <2>1, <2>2, <2>3, ProcStep
<1>4. CASE gen.pool /\ two /\ ~surv.reg
  <2>1. PICK p \in Pids : /\ proc[p].who = "none" /\ proc[p].inc < MaxInc
                          /\ proc' = [proc EXCEPT ![p] = Copy(proc[p])]
                          /\ spare' = [pid |-> p, start |-> proc[p].inc + 1]
    BY <1>4 DEF fpm_pool_supervisor_reload_spare_child
  <2> DEFINE q == proc[p]
             r == Copy(q)
  <2>2. q \in Process /\ ~q.hit /\ q.inc \in Nat /\ p # 0 /\ q.inc + 1 \in 1 .. MaxInc
    BY <2>1, SurvivorAssumption, SMTT(30) DEF SurvInv, SurvTyped, Untouched, Process
  <2>3. /\ r \in Process /\ r.who = "script" /\ r.inc = q.inc + 1 /\ r.age = 0 /\ ~r.hit
    <3> DEFINE f == Freed(q)
               k == q.inc + 1
    <3>1. f \in Process /\ f.age = 0 /\ ~f.hit /\ k \in 0 .. MaxInc
      BY <2>2, FreedIs, SMTT(30)
    <3>2. r = [f EXCEPT !.who = "script", !.st = "run", !.inc = k]
      BY DEF Copy
    <3> HIDE DEF f, k, r
    <3>3. /\ r \in Process /\ r.who = "script" /\ r.inc = k /\ r.age = f.age /\ r.hit = f.hit
      BY <3>1, <3>2 DEF Process
    <3> QED
      BY <3>1, <3>3 DEF k
  <2> HIDE DEF r
  <2>4. /\ proc' \in [Pids -> Process] /\ proc'[p] = r /\ \A x \in Pids \ {p} : proc'[x] = proc[x]
    BY <2>1, <2>3 DEF SurvInv, SurvTyped, r
  <2>5. spare' \in SparedEntry /\ spare'.pid = p /\ spare'.start = q.inc + 1
    BY <2>1, <2>2 DEF SparedEntry
  <2>6. env.pid = 0 /\ orphan.pid = 0
    BY <1>1, <1>4, SurvivorAssumption DEF SurvInv, Lists
  <2>7. SurvTyped' /\ Lists' /\ Timers'
    BY <1>1, <1>2, <1>4, <2>4, <2>5, <2>6 DEF SurvInv, SurvTyped, Lists, Timers
  <2>8. Named'
    <3>1. Mine(spare', proc')
      BY <2>2, <2>3, <2>4, <2>5, SMTT(30) DEF Mine
    <3>2. Mine(surv', proc')
      <4>1. CASE surv.pid = p
        <5>1. q.inc >= surv.start /\ surv.start \in Nat
          BY <2>2, <4>1, EntriesAre DEF SurvInv, Named, Mine
        <5> QED
          BY <1>1, <2>2, <2>3, <2>4, <4>1, <5>1, SMTT(30) DEF Mine
      <4>2. CASE surv.pid # p
        BY <1>1, <2>4, <4>2, EntriesAre DEF SurvInv, Named, Mine
      <4> QED
        BY <4>1, <4>2
    <3> QED
      BY <1>1, <2>6, <3>1, <3>2 DEF Named, Mine
  <2>9. Untouched'
    BY <2>3, <2>4 DEF SurvInv, Untouched
  <2>10. Watched'
    <3>1. SUFFICES ASSUME NEW x \in Pids, x # p, Running(proc'[x])
                   PROVE  Held(x)'
      BY <2>3, <2>4, <2>5 DEF Watched, Held, Names
    <3>2. Running(proc[x]) /\ proc'[x] = proc[x]
      BY <2>4, <3>1
    <3>3. Held(x)
      BY <1>1, <3>2 DEF SurvInv, Watched
    <3> QED
      BY <1>1, <1>4, <2>2, <2>6, <3>2, <3>3, SurvivorAssumption DEF Held, Names
  <2>11. Aged'
    BY <1>1, <1>4, <2>3, <2>4, <2>5, <2>6 DEF Aged, IsCopy, InTime
  <2> QED
    BY <2>7, <2>8, <2>9, <2>10, <2>11 DEF SurvInv
<1> QED
  BY <1>3, <1>4

LEMMA InheritedIs ==
  ASSUME SurvInv, NEW p \in Pids
  PROVE  Tame(proc[p], Inherited(proc[p]))
<1> DEFINE q == proc[p]
           r == [q EXCEPT !.init = TRUE]
<1>1. q \in Process /\ ~q.hit /\ q.inc \in Nat
  BY SurvivorAssumption, SMT DEF SurvInv, SurvTyped, Untouched, Process
<1>2. Tame(q, r)
  <2>1. /\ r \in Process /\ r.who = q.who /\ r.inc = q.inc /\ r.st = q.st /\ r.age = q.age /\ ~r.hit
    BY <1>1 DEF Process
  <2> QED
    BY <1>1, <2>1, SMTT(30) DEF Tame, Running
<1> QED
  BY <1>1, <1>2, FreedIs, TameSame DEF Inherited

\* The entry the exec hook writes names all there is to name: a survivor that
\* is tracked with the deadline it has, or the copy of this reload.
LEMMA CarryInv ==
  ASSUME SurvInv, gen.phase = "reload"
  PROVE  /\ survivor_carry \in {None} \cup EnvEntry /\ Mine(survivor_carry, proc)
         /\ InTime(survivor_carry, proc)
         /\ \A p \in Pids : Running(proc[p]) => Names(survivor_carry, proc, p)
<1>0. \A p \in Pids : Running(proc[p]) => Held(p)
  BY DEF SurvInv, Watched
<1>1. CASE surv.reg
  <2> DEFINE e == [pid |-> surv.pid, start |-> surv.start, left |-> surv.left]
  <2>1. survivor_carry = e /\ spare.pid = 0 /\ env.pid = 0 /\ surv.pid \in Pids /\ surv.start # 0
    <3>1. surv.pid # 0 /\ spare.pid = 0 /\ env.pid = 0
      BY <1>1 DEF SurvInv, Lists
    <3>2. surv.start # 0
      BY <1>1 DEF SurvInv, Timers
    <3> QED
      BY <1>1, <3>1, <3>2, EntriesAre DEF survivor_carry, SurvInv
  <2>2. e \in EnvEntry
    BY <2>1, SMT DEF EnvEntry, SurvInv, SurvTyped, Tracked
  <2>3. e.pid = surv.pid /\ e.start = surv.start /\ e.left = surv.left
    OBVIOUS
  <2> HIDE DEF e
  <2>4. \A p \in Pids : Running(proc[p]) => surv.poll /\ Names(surv, proc, p)
    BY <1>0, <2>1, SurvivorAssumption DEF Held, Names
  <2>5. InTime(e, proc)
    BY <1>1, <2>1, <2>3, <2>4 DEF SurvInv, Aged, InTime, IsCopy
  <2>6. Mine(e, proc)
    BY <2>3 DEF SurvInv, Named, Mine
  <2> QED
    BY <2>1, <2>2, <2>3, <2>4, <2>5, <2>6 DEF Names
<1>2. CASE ~surv.reg /\ spare.pid # 0 /\ fpm_pid_is_same(spare.pid, spare.start)
  <2> DEFINE e == [pid |-> spare.pid, start |-> spare.start, left |-> Timeout]
  <2>1. survivor_carry = e /\ env.pid = 0 /\ spare \in SparedEntry
    BY <1>2, SMTT(30) DEF survivor_carry, SurvInv, SurvTyped, None, Lists
  <2>2. e \in EnvEntry
    BY <2>1, SurvivorAssumption, SMTT(30) DEF EnvEntry, SparedEntry
  <2>3. e.pid = spare.pid /\ e.start = spare.start /\ e.left = Timeout
    OBVIOUS
  <2> HIDE DEF e
  <2>4. InTime(e, proc)
    BY <2>3, SurvivorAssumption, SMTT(30) DEF SurvInv, Aged, InTime, IsCopy
  <2>5. Mine(e, proc)
    BY <2>3 DEF SurvInv, Named, Mine
  <2>6. \A p \in Pids : Running(proc[p]) => Names(spare, proc, p)
    BY <1>0, <1>2, <2>1, SurvivorAssumption DEF Held, Names
  <2> QED
    BY <2>1, <2>2, <2>3, <2>4, <2>5, <2>6 DEF Names
<1>3. CASE ~surv.reg /\ ~(spare.pid # 0 /\ fpm_pid_is_same(spare.pid, spare.start))
  <2>1. survivor_carry = env
    BY <1>3 DEF survivor_carry
  <2>2. \A p \in Pids : Running(proc[p]) => Names(env, proc, p)
    <3>1. SUFFICES ASSUME NEW p \in Pids, Running(proc[p])
                   PROVE  Names(env, proc, p)
      OBVIOUS
    <3>2. ~Names(spare, proc, p)
      BY <1>3, <3>1, SurvivorAssumption DEF Names, fpm_pid_is_same, Running
    <3> QED
      BY <1>0, <1>3, <3>1, <3>2 DEF Held
  <2> QED
    BY <2>1, <2>2 DEF SurvInv, SurvTyped, Named, Aged
<1> QED
  BY <1>1, <1>2, <1>3

\* execvp() (fpm_pctl_exec): only the environment is left.
LEMMA ExecInv ==
  ASSUME SurvInv, fpm_pctl_exec
  PROVE  SurvInv'
<1>1. /\ gen' = [gen EXCEPT !.phase = "exec"] /\ gen \in Generation /\ gen.phase = "reload"
      /\ env' = survivor_carry /\ spare' = None /\ surv' = NoSurv /\ orphan' = None
      /\ proc' = [p \in Pids |-> Inherited(proc[p])] /\ proc \in [Pids -> Process]
  BY DEF fpm_pctl_exec, SurvInv, SurvTyped
<1>2. gen' \in Generation /\ gen'.phase = "exec" /\ None.pid = 0
  BY <1>1 DEF Generation, None
<1>3. proc' \in [Pids -> Process] /\ \A x \in Pids : Tame(proc[x], proc'[x])
  BY <1>1, InheritedIs DEF Tame
<1>4. SurvTyped' /\ Lists' /\ Timers'
  BY <1>1, <1>2, <1>3, NoSurvIs, CarryInv DEF Untracked, SurvTyped, Lists, Timers
<1>5. env'.pid # 0 => env'.pid \in Pids /\ env'.start \in Nat
  BY <1>4, SurvivorAssumption, SMTT(30) DEF SurvTyped, None, EnvEntry
<1>6. /\ Mine(env', proc')
      /\ IsCopy(env', proc') => IsCopy(env', proc) /\ proc'[env'.pid].age = proc[env'.pid].age
  BY <1>1, <1>3, <1>5, TameKeeps, CarryInv, SMTT(30)
<1>7. Named' /\ Aged'
  BY <1>1, <1>2, <1>6, NoSurvIs, CarryInv DEF Untracked, Named, Mine, Aged, InTime, IsCopy
<1>8. Watched'
  <2>1. SUFFICES ASSUME NEW p \in Pids, Running(proc'[p])
                 PROVE  Names(env', proc', p)
    BY DEF Watched, Held
  <2>2. Running(proc[p]) /\ proc'[p].inc = proc[p].inc
    BY <1>3, <2>1 DEF Tame, Running
  <2> QED
    BY <1>1, <2>2, CarryInv DEF Names
<1>9. Untouched'
  BY <1>3 DEF Untouched, Tame
<1> QED
  BY <1>4, <1>7, <1>8, <1>9 DEF SurvInv

\* The next master takes the entry of a pool it has, or arms it as an orphan:
\* a copy that runs is named by the entry and passes its check.
LEMMA InitInv ==
  ASSUME SurvInv, init_main_adopts \/ fpm_pool_supervisor_reload_orphans_arm
  PROVE  SurvInv'
<1>1. /\ gen.phase = "exec" /\ gen \in Generation /\ spare.pid = 0 /\ Untracked(surv) /\ orphan.pid = 0
      /\ UNCHANGED <<spare, proc>> /\ proc \in [Pids -> Process]
      /\ gen' \in Generation /\ gen'.phase = "up" /\ 0 \notin Pids
  BY SurvivorAssumption
     DEF init_main_adopts, fpm_pool_supervisor_reload_orphans_arm, SurvInv, SurvTyped, Lists, Generation
<1>2. \A p \in Pids : Running(proc[p]) => Names(env, proc, p) /\ fpm_pid_is_same(env.pid, env.start)
  <2>1. \A p \in Pids : Running(proc[p]) => Held(p)
    BY <1>1 DEF SurvInv, Watched
  <2>2. \A p \in Pids : Running(proc[p]) => Names(env, proc, p)
    BY <1>1, <2>1, NoSurvIs DEF Untracked, Held, Names
  <2> QED
    BY <2>2 DEF Names, Running, fpm_pid_is_same
<1>3. Untouched' /\ \A x \in Pids : Running(proc'[x]) <=> Running(proc[x])
  BY <1>1 DEF SurvInv, Untouched
<1>4. CASE env.pid # 0 /\ fpm_pid_is_same(env.pid, env.start) /\ init_main_adopts
  <2> DEFINE s == survivor_track
  <2>1. surv' = s /\ env' = None /\ orphan' = orphan /\ env'.pid = 0 /\ gen'.pool
    BY <1>1, <1>4 DEF init_main_adopts, None, Generation
  <2>2. /\ env.pid \in Pids /\ env.start \in 1 .. MaxInc /\ env.left \in 0 .. Timeout
    BY <1>4, SMT DEF SurvInv, SurvTyped, None, EnvEntry
  <2>3. /\ s \in Tracked /\ s.pid = env.pid /\ s.start = env.start /\ s.left = env.left
        /\ s.reg /\ s.poll /\ ~s.kill /\ ~s.reaped /\ ~s.ran /\ s.mem = "live"
    <3>1. env.start \in 0 .. MaxInc /\ 0 \in 0 .. StopTimeout + 1
      BY <2>2, SurvivorAssumption, SMTT(30)
    <3> QED
      BY <2>2, <3>1 DEF survivor_track, NoSurv, Tracked
  <2> HIDE DEF s
  <2>4. s.start # 0 /\ s.pid # 0
    BY <1>1, <2>2, <2>3, SurvivorAssumption, SMTT(30)
  <2>5. SurvTyped' /\ Lists' /\ Timers'
    BY <1>1, <2>1, <2>3, <2>4 DEF SurvInv, SurvTyped, Lists, Timers
  <2>6. Named' /\ Aged'
    BY <1>1, <2>1, <2>3 DEF SurvInv, Named, Mine, Aged, InTime, IsCopy
  <2>7. Watched'
    BY <1>1, <1>2, <1>3, <2>1, <2>3 DEF Watched, Held, Names
  <2> QED
    BY <1>3, <2>5, <2>6, <2>7 DEF SurvInv
<1>5. CASE env.pid # 0 /\ fpm_pid_is_same(env.pid, env.start) /\ fpm_pool_supervisor_reload_orphans_arm
  <2> DEFINE o == [pid |-> env.pid, start |-> env.start, left |-> env.left, ran |-> FALSE]
  <2>1. orphan' = o /\ env' = env /\ surv' = surv /\ ~gen'.pool
    BY <1>1, <1>5 DEF fpm_pool_supervisor_reload_orphans_arm, Generation
  <2>2. /\ o \in OrphanEntry /\ o.pid = env.pid /\ o.start = env.start /\ o.left = env.left /\ ~o.ran
    BY <1>5, SMT DEF SurvInv, SurvTyped, None, EnvEntry, OrphanEntry
  <2> HIDE DEF o
  <2>3. SurvTyped' /\ Lists' /\ Timers'
    BY <1>1, <1>5, <2>1, <2>2, NoSurvIs DEF Untracked, SurvInv, SurvTyped, Lists, Timers
  <2>4. Named' /\ Aged'
    BY <1>1, <2>1, NoSurvIs DEF Untracked, SurvInv, Named, Mine, Aged, InTime, IsCopy
  <2>5. Watched'
    BY <1>1, <1>2, <1>3, <2>1 DEF Watched, Held, Names
  <2> QED
    BY <1>3, <2>3, <2>4, <2>5 DEF SurvInv
<1>6. CASE ~(env.pid # 0 /\ fpm_pid_is_same(env.pid, env.start))
  <2>1. /\ surv' \in Tracked /\ Untracked(surv') /\ env' = None /\ orphan' = orphan /\ env'.pid = 0
    <3>1. (surv' = NoSurv \/ surv' = surv) /\ env' = None /\ orphan' = orphan
      BY <1>6 DEF init_main_adopts, fpm_pool_supervisor_reload_orphans_arm
    <3> QED
      BY <1>1, <3>1, NoSurvIs DEF SurvInv, SurvTyped, None
  <2>2. \A p \in Pids : ~Running(proc[p])
    BY <1>1, <1>2, <1>6 DEF Names
  <2>3. SurvTyped' /\ Lists' /\ Timers'
    BY <1>1, <2>1, NoSurvIs DEF Untracked, SurvInv, SurvTyped, Lists, Timers
  <2>4. Named' /\ Aged'
    BY <1>1, <2>1, NoSurvIs DEF Untracked, SurvInv, Named, Mine, Aged, InTime, IsCopy
  <2>5. Watched'
    BY <1>3, <2>2 DEF Watched
  <2> QED
    BY <1>3, <2>3, <2>4, <2>5 DEF SurvInv
<1> QED
  BY <1>4, <1>5, <1>6

-----------------------------------------------------------------------------
(* Time                                                                    *)

LEMMA OlderIs ==
  ASSUME NEW q \in Process
  PROVE  /\ Older(q) \in Process /\ Older(q).who = q.who /\ Older(q).inc = q.inc /\ Older(q).st = q.st
         /\ Older(q).hit = q.hit /\ Older(q).age <= q.age + 1
<1> DEFINE a == IF q.who # "script" THEN 0 ELSE IF q.age < 2 * Timeout THEN q.age + 1 ELSE q.age
           d == IF q.dog > 0 THEN q.dog - 1 ELSE q.dog
<1>1. a \in Nat /\ d \in -1 .. StopTimeout /\ a <= q.age + 1
  BY SurvivorAssumption, SMT DEF Process
<1>2. Older(q) = [q EXCEPT !.age = a, !.dog = d]
  BY DEF Older
<1> HIDE DEF a, d
<1> QED
  BY <1>1, <1>2 DEF Process

LEMMA LessIs ==
  ASSUME NEW n \in Nat
  PROVE  Less(n) \in Nat /\ Less(n) <= n
BY SMT DEF Less

\* A second passes only after every poll of this second ran, and a poll that
\* found its deadline over has told the copy: what an entry loses, a copy ages.
LEMMA TickInv ==
  ASSUME SurvInv, SurvTick
  PROVE  SurvInv'
<1>1. /\ UNCHANGED <<gen, spare>> /\ gen.phase \in {"up", "gone"} /\ ~Due /\ spare.pid = 0
      /\ surv \in Tracked /\ proc \in [Pids -> Process] /\ 0 \notin Pids
      /\ proc' = [p \in Pids |-> Older(proc[p])]
  BY SurvivorAssumption DEF SurvTick, SurvInv, SurvTyped, Lists
<1>2. proc' \in [Pids -> Process]
      /\ \A p \in Pids : /\ proc'[p].who = proc[p].who /\ proc'[p].inc = proc[p].inc /\ proc'[p].st = proc[p].st
                         /\ proc'[p].hit = proc[p].hit /\ proc'[p].age <= proc[p].age + 1
                         /\ proc'[p].age \in Nat /\ proc[p].age \in Nat
  <2>1. proc' \in [Pids -> Process] /\ \A p \in Pids : proc'[p] = Older(proc[p]) /\ proc[p] \in Process
    BY <1>1, OlderIs
  <2>2. \A p \in Pids : proc'[p].age \in Nat /\ proc[p].age \in Nat
    BY <2>1 DEF Process
  <2> QED
    BY <2>1, <2>2, OlderIs
<1>3. /\ surv' \in Tracked /\ surv'.pid = surv.pid /\ surv'.start = surv.start /\ surv'.reg = surv.reg
      /\ surv'.poll = surv.poll /\ surv'.kill = surv.kill /\ surv'.mem = surv.mem /\ surv'.reaped = surv.reaped
      /\ surv'.left = Less(surv.left) /\ ~surv'.ran
  <2> DEFINE l == Less(surv.left)
             b == Less(surv.back)
  <2>1. l \in 0 .. Timeout /\ b \in 0 .. StopTimeout + 1
    BY <1>1, SurvivorAssumption, LessIs, SMTT(30) DEF Tracked
  <2>2. surv' = [surv EXCEPT !.left = l, !.back = b, !.ran = FALSE]
    BY DEF SurvTick
  <2> HIDE DEF l, b
  <2>3. /\ surv' \in Tracked /\ surv'.pid = surv.pid /\ surv'.start = surv.start /\ surv'.reg = surv.reg
        /\ surv'.poll = surv.poll /\ surv'.kill = surv.kill /\ surv'.mem = surv.mem /\ surv'.reaped = surv.reaped
        /\ surv'.left = l /\ ~surv'.ran
    BY <1>1, <2>1, <2>2 DEF Tracked
  <2> QED
    BY <2>3 DEF l
<1>4. /\ env' \in {None} \cup EnvEntry /\ env'.pid = env.pid
      /\ env.pid # 0 => env'.start = env.start /\ env'.left = Less(env.left)
  <2>1. CASE env.pid = 0
    BY <2>1 DEF SurvTick, SurvInv, SurvTyped
  <2>2. CASE env.pid # 0
    <3> DEFINE l == Less(env.left)
    <3>1. env \in EnvEntry /\ env' = [env EXCEPT !.left = l]
      BY <2>2, SMT DEF SurvTick, SurvInv, SurvTyped, None
    <3>2. l \in 0 .. Timeout
      BY <3>1, SurvivorAssumption, LessIs, SMTT(30) DEF EnvEntry
    <3> HIDE DEF l
    <3>3. env' \in EnvEntry /\ env'.pid = env.pid /\ env'.start = env.start /\ env'.left = l
      BY <3>1, <3>2 DEF EnvEntry
    <3> QED
      BY <3>3 DEF l
  <2> QED
    BY <2>1, <2>2
<1>5. /\ orphan' \in {None} \cup OrphanEntry /\ orphan'.pid = orphan.pid
      /\ orphan.pid # 0 => orphan'.start = orphan.start /\ orphan'.left = Less(orphan.left) /\ ~orphan'.ran
  <2>1. CASE orphan.pid = 0
    BY <2>1 DEF SurvTick, SurvInv, SurvTyped
  <2>2. CASE orphan.pid # 0
    <3> DEFINE l == Less(orphan.left)
    <3>1. orphan \in OrphanEntry /\ orphan' = [orphan EXCEPT !.left = l, !.ran = FALSE]
      BY <2>2, SMTT(30) DEF SurvTick, SurvInv, SurvTyped, None
    <3>2. l \in 0 .. Timeout
      BY <3>1, SurvivorAssumption, LessIs, SMTT(30) DEF OrphanEntry
    <3> HIDE DEF l
    <3>3. orphan' \in OrphanEntry /\ orphan'.pid = orphan.pid /\ orphan'.start = orphan.start
          /\ orphan'.left = l /\ ~orphan'.ran
      BY <3>1, <3>2 DEF OrphanEntry
    <3> QED
      BY <3>3 DEF l
  <2> QED
    BY <2>1, <2>2
<1>6. gen.phase = "gone" => Untracked(surv') /\ orphan'.pid = 0 /\ env'.pid = 0
  BY <1>3, <1>4, <1>5 DEF SurvInv, Lists, Untracked
<1>7. SurvTyped' /\ Lists' /\ Timers'
  BY <1>1, <1>2, <1>3, <1>4, <1>5, <1>6 DEF SurvInv, SurvTyped, Lists, Timers
<1>8. Named'
  BY <1>1, <1>2, <1>3, <1>4, EntriesAre, SMTT(30) DEF SurvInv, Named, Mine
<1>9. Untouched' /\ \A p \in Pids : Running(proc'[p]) <=> Running(proc[p])
  BY <1>2 DEF SurvInv, Untouched, Running
<1>10. Watched'
  <2>1. SUFFICES ASSUME gen'.phase # "gone", NEW p \in Pids, Running(proc'[p])
                 PROVE  Held(p)'
    BY DEF Watched
  <2>2. Held(p) /\ p # 0 /\ proc'[p].inc = proc[p].inc
    BY <1>1, <1>2, <1>9, <2>1 DEF SurvInv, Watched
  <2>3. Names(spare, proc, p) => Names(spare', proc', p)
    BY <1>1, <2>2 DEF Names
  <2>4. Names(env, proc, p) => Names(env', proc', p)
    BY <1>4, <2>2 DEF Names
  <2>5. Names(surv, proc, p) => Names(surv', proc', p)
    BY <1>3, <2>2 DEF Names
  <2> QED
    BY <1>3, <2>2, <2>3, <2>4, <2>5 DEF Held
<1>11. InTime(env', proc')
  <2>1. SUFFICES ASSUME IsCopy(env', proc')
                 PROVE  proc'[env'.pid].age + env'.left <= Timeout
    BY DEF InTime
  <2>2. env.pid # 0 /\ env.pid \in Pids /\ env.left \in 0 .. Timeout
    BY <1>4, <2>1, EntriesAre DEF IsCopy, SurvInv
  <2>3. IsCopy(env, proc)
    BY <1>2, <1>4, <1>9, <2>1, <2>2 DEF IsCopy
  <2>4. orphan.pid # 0 /\ orphan.left > 0 /\ env.left = orphan.left
    BY <1>1, <2>2 DEF SurvInv, Lists, Timers, Due
  <2>5. Less(env.left) = env.left - 1
    BY <2>2, <2>4 DEF Less
  <2>6. proc[env.pid].age + env.left <= Timeout
    BY <2>3 DEF SurvInv, Aged, InTime
  <2>7. /\ proc'[env.pid].age \in Nat /\ proc[env.pid].age \in Nat
        /\ proc'[env.pid].age <= proc[env.pid].age + 1
    BY <1>2, <2>2
  <2>8. env'.left = env.left - 1 /\ env'.pid = env.pid /\ env.left \in Nat /\ Timeout \in Nat
    BY <1>4, <2>2, <2>5, SurvivorAssumption, SMTT(30) DEF IsCopy
  <2> QED
    BY <2>6, <2>7, <2>8, SMTT(30)
<1>12. surv'.reg /\ surv'.poll => InTime(surv', proc')
  <2>1. SUFFICES ASSUME surv.reg, surv.poll, IsCopy(surv', proc')
                 PROVE  proc'[surv'.pid].age + surv'.left <= Timeout
    BY <1>3 DEF InTime
  <2>2. surv.pid \in Pids /\ surv.left \in 0 .. Timeout
    BY <1>3, <2>1, EntriesAre DEF IsCopy, SurvInv
  <2>3. IsCopy(surv, proc)
    BY <1>2, <1>3, <1>9, <2>1, <2>2 DEF IsCopy
  <2>4. surv.left > 0
    BY <1>1, <2>1 DEF SurvInv, Timers, Due
  <2>5. Less(surv.left) = surv.left - 1
    BY <2>2, <2>4 DEF Less
  <2>6. proc[surv.pid].age + surv.left <= Timeout
    BY <2>1, <2>3 DEF SurvInv, Aged, InTime
  <2>7. /\ proc'[surv.pid].age \in Nat /\ proc[surv.pid].age \in Nat
        /\ proc'[surv.pid].age <= proc[surv.pid].age + 1
    BY <1>2, <2>2
  <2>8. surv'.left = surv.left - 1 /\ surv'.pid = surv.pid /\ surv.left \in Nat /\ Timeout \in Nat
    BY <1>3, <2>2, <2>5, SurvivorAssumption, SMTT(30) DEF IsCopy
  <2> QED
    BY <2>6, <2>7, <2>8, SMT
<1> QED
  BY <1>1, <1>7, <1>8, <1>9, <1>10, <1>11, <1>12 DEF SurvInv, Aged, IsCopy

-----------------------------------------------------------------------------
(* The invariant                                                           *)

LEMMA SurvStarts == SurvInit => SurvInv
<1> SUFFICES ASSUME SurvInit
             PROVE  SurvInv
  OBVIOUS
<1>1. Empty \in Process /\ ~Empty.hit /\ ~Running(Empty)
  BY SurvivorAssumption, SMT DEF Empty, Process, Running
<1>2. /\ gen \in Generation /\ gen.phase = "up" /\ None.pid = 0
      /\ spare = None /\ env = None /\ orphan = None /\ surv = NoSurv
  <2>1. 0 \in 0 .. MaxGen
    BY SurvivorAssumption, SMT
  <2>2. gen \in [phase : {"up"}, n : {0}, pool : {TRUE}, started : {TRUE}, conf : SurvConfs]
    BY DEF SurvInit
  <2>3. gen \in Generation /\ gen.phase = "up"
    BY <2>1, <2>2 DEF Generation
  <2> QED
    BY <2>3 DEF SurvInit, None
<1>3. proc \in [Pids -> Process] /\ \A p \in Pids : proc[p] = Empty
  BY <1>1 DEF SurvInit
<1> QED
  BY <1>1, <1>2, <1>3, NoSurvIs
     DEF Untracked, SurvInv, SurvTyped, Lists, Timers, Named, Mine, Untouched, Watched, Aged, IsCopy, InTime

LEMMA SurvKept == SurvInv /\ [SurvNext]_survvars => SurvInv'
<1> SUFFICES ASSUME SurvInv, [SurvNext]_survvars
             PROVE  SurvInv'
  OBVIOUS
<1>1. CASE Starts \/ (\E p \in Pids : Exits(p) \/ Reuse(p)) \/ UNCHANGED survvars
  BY <1>1, ProcessesInv
<1>2. CASE \E p \in Pids : fpm_children_bury(p)
  BY <1>2, BuryInv
<1>3. CASE survivor_poll \/ survivor_backstop \/ orphan_poll \/ MasterEnds
  BY <1>3, PollInv, BackstopInv, OrphanInv, MasterEndsInv
<1>4. CASE \E two \in BOOLEAN : fpm_pool_supervisor_reload_spare_child(two)
  BY <1>4, SpareInv
<1>5. CASE fpm_pctl_exec \/ init_main_adopts \/ fpm_pool_supervisor_reload_orphans_arm
  BY <1>5, ExecInv, InitInv
<1>6. CASE SurvTick
  BY <1>6, TickInv
<1> QED
  BY <1>1, <1>2, <1>3, <1>4, <1>5, <1>6 DEF SurvNext, MasterStep, SurvDown, Watchdog

\* However many reloads follow each other, and whoever gets a pid that is free
\* (fpm_pool_supervisor.c): no stranger is signalled, no timer outlives its
\* struct, no spared copy is lost while there is a master, and none runs on
\* untold longer than the deadline after the exec that first carried it.
THEOREM SurvivorTheorem == SurvSpec => []SurvivorSound
<1>1. SurvInv => SurvivorSound
  <2> SUFFICES ASSUME SurvInv
               PROVE  SurvivorSound
    OBVIOUS
  <2>1. SurvTypeOK
    <3>1. \A p \in Pids : proc[p].inc \in 0 .. MaxInc
      BY DEF SurvInv, SurvTyped, Process
    <3>2. spare.pid \in Pids \cup {0} /\ env.pid \in Pids \cup {0} /\ orphan.pid \in Pids \cup {0}
      BY EntriesAre DEF SurvInv
    <3> QED
      BY <3>1, <3>2 DEF SurvInv, SurvTyped, SurvTypeOK, Generation, Tracked
  <2>2. NoStrangerHit /\ TimersOnLiveMemory
    BY DEF SurvInv, Untouched, Timers, NoStrangerHit, TimersOnLiveMemory
  <2>3. NoneLost
    <3>1. \A p \in Pids : Spared(p) /\ proc[p].st = "run" /\ gen.phase # "gone" => Held(p)
      BY DEF SurvInv, Watched, Spared, Running
    <3> QED
      BY <3>1 DEF NoneLost, Held, Names
  <2>4. ToldInTime
    <3>1. SUFFICES ASSUME NEW p \in Pids, Running(proc[p]), gen.phase = "up"
                   PROVE  proc[p].age <= Timeout
      BY DEF ToldInTime, Spared, Running
    <3>2. Held(p) /\ spare.pid = 0 /\ 0 \notin Pids /\ proc[p].age \in Nat
      BY <3>1, SurvivorAssumption DEF SurvInv, SurvTyped, Watched, Lists, Process
    <3>3. CASE Names(env, proc, p)
      <4>1. proc[p].age + env.left <= Timeout /\ env.left \in Nat
        BY <3>1, <3>2, <3>3, EntriesAre, SurvivorAssumption, SMTT(30) DEF SurvInv, Aged, InTime, IsCopy, Names
      <4> QED
        BY <3>2, <4>1, SurvivorAssumption, SMTT(30)
    <3>4. CASE surv.reg /\ surv.poll /\ Names(surv, proc, p)
      <4>1. proc[p].age + surv.left <= Timeout /\ surv.left \in Nat
        BY <3>1, <3>2, <3>4, EntriesAre, SurvivorAssumption, SMTT(30) DEF SurvInv, Aged, InTime, IsCopy, Names
      <4> QED
        BY <3>2, <4>1, SurvivorAssumption, SMT
    <3> QED
      BY <3>2, <3>3, <3>4 DEF Held, Names
  <2> QED
    BY <2>1, <2>2, <2>3, <2>4 DEF SurvivorSound
<1> QED
  BY <1>1, SurvStarts, SurvKept, PTL DEF SurvSpec

=============================================================================
