----------------------------- MODULE ReplyParse -----------------------------
(***************************************************************************)
(* How the gateway reads what a target answers: the FastCGI records of     *)
(* fpm_http_upstream_data() and the HTTP/1.1 reply of fpm_http_client.c,   *)
(* both ending in fpm_http_stdout() and fpm_http_start_reply().  Bytes     *)
(* come in reads of any size, and the answer must not depend on where one  *)
(* read ends.                                                              *)
(*                                                                         *)
(* A byte, or a run of bytes in which a split makes no difference, is a    *)
(* tuple whose first member is its kind: CR, LF, a header <<"key", name,   *)
(* value>>, a digit of a chunk size <<"hex", d>>, a chunk extension        *)
(* <<"ext">>, a body byte <<"x", i>>, the two halves of a FastCGI record's *)
(* header <<"ver">> and <<"rec", type, length, padding>>, and <<"pad">>.   *)
(***************************************************************************)
EXTENDS Naturals, Sequences, FiniteSetsExt

CONSTANTS Dialogues,     \* sequences of requests, each with the reply its target sends
          HttpMaxHead,   \* FPM_HTTP_HTTP_MAX_HEAD
          MaxLine,       \* 16384, a chunk-size or a trailer line
          SizeMax,       \* SIZE_MAX
          MaxRead        \* bound: the size of one read

VARIABLES par, wire

parvars == <<par, wire>>

RecHdr == 2              \* sizeof(up->rec_hdr), in units of the model

Take(s, n) == SubSeq(s, 1, n)
Drop(s, n) == SubSeq(s, n + 1, Len(s))
Least(m, n) == IF m < n THEN m ELSE n
Is(s, i, kind) == s[i][1] = kind
Headers(s) == SelectSeq(s, LAMBDA t : t[1] = "key")
Values(s, name) == LET hs == SelectSeq(Headers(s), LAMBDA t : t[2] = name) IN [i \in DOMAIN hs |-> hs[i][3]]
Holds(s, v) == \E i \in DOMAIN s : s[i] = v
LastOr(s, default) == IF s = <<>> THEN default ELSE s[Len(s)]

(***************************************************************************)
(* The reply to the client.                                                *)
(***************************************************************************)
\* fpm_http_conn: what of the reply is assembled, what has been sent.
NewReply == [cgi |-> <<>>, headers_sent |-> FALSE, discard |-> FALSE, status |-> 0,
             keys |-> <<>>, out |-> <<>>, end |-> "none"]

\* struct fpm_http_http_state_s after fpm_http_http_state_reset().
fpm_http_http_state_reset(p) ==
    [p EXCEPT !.head = <<>>, !.head_scan = 0, !.head_done = FALSE, !.body = "cl", !.remaining = 0,
              !.line = <<>>, !.expect_eof = FALSE]

\* fpm_http_pump(): the next request takes the connection.  current: up->current.
Started(p) ==
    IF p.dead \/ p.todo = <<>> THEN [p EXCEPT !.current = FALSE]
    ELSE [p EXCEPT !.current = TRUE, !.req = Head(p.todo), !.todo = Tail(@), !.c = NewReply]

\* The request ends: nothing sent means a 502 of the gateway's own.
fpm_http_finish(p) ==
    [p EXCEPT !.res = Append(@, [p.c EXCEPT !.end = IF p.c.headers_sent THEN "end" ELSE "bad gateway"]),
              !.current = FALSE]

fpm_http_finish_truncated(p) ==
    [p EXCEPT !.res = Append(@, [p.c EXCEPT !.end = "truncated"]), !.current = FALSE]

fpm_http_request_done(p) == IF p.current THEN Started(fpm_http_finish(p)) ELSE p

\* The connection is lost: a reply under way cannot be completed.
fpm_http_upstream_fail(p) ==
    LET q == [p EXCEPT !.dead = TRUE] IN
    IF ~p.current THEN q
    ELSE IF p.c.headers_sent /\ ~p.c.discard THEN fpm_http_finish_truncated(q)
    ELSE fpm_http_finish(q)

\* A status that is not one makes the whole reply a 502, its body included.
fpm_http_start_reply(p, hs, rest) ==
    LET status == Values(hs, "Status") IN
    [p EXCEPT !.c = IF Holds(status, 0)
       THEN [@ EXCEPT !.headers_sent = TRUE, !.discard = TRUE, !.status = 502, !.cgi = <<>>]
       ELSE [@ EXCEPT !.headers_sent = TRUE, !.status = LastOr(status, 200), !.cgi = <<>>,
                      !.keys = SelectSeq(Headers(hs), LAMBDA t : t[2] \notin {"Status", "X-Request-Id"}),
                      !.out = rest]]

\* Where the blank line of CGI headers may begin, from position i on.
BlankAt(h, i) ==
    \/ i + 1 <= Len(h) /\ Is(h, i, "LF") /\ Is(h, i + 1, "LF")
    \/ i + 3 <= Len(h) /\ Is(h, i, "CR") /\ Is(h, i + 1, "LF") /\ Is(h, i + 2, "CR") /\ Is(h, i + 3, "LF")

\* Each piece is searched with the three bytes before it.
fpm_http_stdout_NoOverlap(p, data) ==
    IF p.c.discard THEN p
    ELSE IF p.c.headers_sent THEN [p EXCEPT !.c.out = @ \o data]
    ELSE LET h    == p.c.cgi \o data
             ends == {i \in Len(p.c.cgi) + 1..Len(h) : BlankAt(h, i)}
             i    == Min(ends)
         IN IF ends = {} THEN [p EXCEPT !.c.cgi = h]
            ELSE fpm_http_start_reply(p, Take(h, i), Drop(h, i + IF Is(h, i, "LF") THEN 1 ELSE 3))

fpm_http_stdout(p, data) ==
    IF p.c.discard THEN p
    ELSE IF p.c.headers_sent THEN [p EXCEPT !.c.out = @ \o data]
    ELSE LET h    == p.c.cgi \o data
             from == IF Len(p.c.cgi) > 3 THEN Len(p.c.cgi) - 3 ELSE 0
             ends == {i \in from + 1..Len(h) : BlankAt(h, i)}
             i    == Min(ends)
         IN IF ends = {} THEN [p EXCEPT !.c.cgi = h]
            ELSE fpm_http_start_reply(p, Take(h, i), Drop(h, i + IF Is(h, i, "LF") THEN 1 ELSE 3))

(***************************************************************************)
(* FastCGI: fpm_http_upstream_data().                                      *)
(***************************************************************************)
\* After a piece of a record: the end of FCGI_END_REQUEST ends the request.
RecordRead(p) ==
    IF p.rec_len = 0 /\ p.rec_pad = 0 /\ p.rec_type = "END_REQUEST" THEN fpm_http_request_done(p) ELSE p

RecordHeader_KeepsLen(p, buf) ==
    LET n == Least(RecHdr - p.rec_hdr_len, Len(buf)) IN
    IF p.rec_hdr_len + n < RecHdr THEN [p EXCEPT !.rec_hdr_len = @ + n]
    ELSE RecordRead([p EXCEPT !.rec_hdr_len = RecHdr, !.rec_type = buf[n][2],
                              !.rec_len = buf[n][3], !.rec_pad = buf[n][4]])

RecordHeader(p, buf) ==
    LET n == Least(RecHdr - p.rec_hdr_len, Len(buf)) IN
    IF p.rec_hdr_len + n < RecHdr THEN [p EXCEPT !.rec_hdr_len = @ + n]
    ELSE RecordRead([p EXCEPT !.rec_hdr_len = 0, !.rec_type = buf[n][2],
                              !.rec_len = buf[n][3], !.rec_pad = buf[n][4]])

RecordContent(p, n, buf) ==
    IF p.rec_len > 0
    THEN RecordRead([IF p.rec_type = "STDOUT" /\ p.current THEN fpm_http_stdout(p, Take(buf, n)) ELSE p
                     EXCEPT !.rec_len = @ - n])
    ELSE RecordRead([p EXCEPT !.rec_pad = @ - n])

RECURSIVE fpm_http_upstream_data(_, _)
fpm_http_upstream_data(p, buf) ==
    IF buf = <<>> \/ p.dead THEN p
    ELSE IF p.rec_len = 0 /\ p.rec_pad = 0
    THEN fpm_http_upstream_data(RecordHeader(p, buf), Drop(buf, Least(RecHdr - p.rec_hdr_len, Len(buf))))
    ELSE LET n == Least(IF p.rec_len > 0 THEN p.rec_len ELSE p.rec_pad, Len(buf)) IN
         fpm_http_upstream_data(RecordContent(p, n, buf), Drop(buf, n))

(***************************************************************************)
(* HTTP: the head.                                                         *)
(***************************************************************************)
\* fpm_http_http_header_dropped(): what belongs to the hop to the target.
fpm_http_http_header_dropped(name) == name \in {"Connection", "Keep-Alive", "Transfer-Encoding", "Upgrade", "Trailer", "Proxy-"}

Forwarded_All(hs, chunked) ==
    SelectSeq([i \in DOMAIN hs |-> <<hs[i][1], hs[i][2], hs[i][3], i>>],
              LAMBDA t : ~fpm_http_http_header_dropped(t[2]))

\* Content-Length goes on once, and not beside chunks the gateway takes apart.
Forwarded(hs, chunked) ==
    LET first == {i \in DOMAIN hs : hs[i][2] = "Content-Length"} IN
    SelectSeq([i \in DOMAIN hs |-> <<hs[i][1], hs[i][2], hs[i][3], i>>],
              LAMBDA t : /\ ~fpm_http_http_header_dropped(t[2])
                         /\ t[2] = "Content-Length" => ~chunked /\ t[4] = Min(first))

\* Returns <<state, verdict>>: -1 is "bad", 1 is "interim", 2 is "upgrade".
fpm_http_http_head_done(p, head) ==
    LET lengths == Values(head, "Content-Length")
        chunked == LastOr(Values(head, "Transfer-Encoding"), "") = "chunked"
        close   == LastOr(Values(head, "Connection"), "") = "close"
        code    == LastOr(Values(head, "Status"), 200)
        no_body == code \in {204, 304} \/ p.req.method = "HEAD"
        keys    == <<<<"key", "Status", code>>>>
                   \o Forwarded(SelectSeq(Headers(head), LAMBDA t : t[2] # "Status"), chunked)
        framed  == [p EXCEPT !.body = IF no_body \/ (~chunked /\ lengths # <<>>) THEN "cl"
                                      ELSE IF chunked THEN "chunk_size" ELSE "eof",
                             !.remaining = IF no_body \/ chunked THEN 0 ELSE LastOr(lengths, 0),
                             !.expect_eof = close \/ (~no_body /\ ~chunked /\ lengths = <<>>)]
    IN IF \E i, j \in DOMAIN lengths : lengths[i] # lengths[j] THEN <<p, "bad">>
       ELSE IF code = 101 /\ p.req.upgrading THEN <<p, "upgrade">>
       ELSE IF code \in 100..199 THEN <<p, "interim">>
       ELSE <<fpm_http_start_reply(framed, keys, <<>>), "head">>

(***************************************************************************)
(* HTTP: the body.  A step returns <<state, rest, verdict>>.               *)
(***************************************************************************)
BodyLength(p, buf) ==
    LET n == Least(p.remaining, Len(buf))
        q == [IF n > 0 THEN fpm_http_stdout(p, Take(buf, n)) ELSE p EXCEPT !.remaining = @ - n]
    IN <<q, Drop(buf, n), IF q.remaining = 0 THEN "done" ELSE "more">>

Newlines(buf) == {i \in DOMAIN buf : Is(buf, i, "LF")}

\* The digits of a chunk-size line, with the check against SIZE_MAX; <<>> when bad.
ChunkDigits(line) ==
    LET n == Max({k \in 0..Len(line) : \A i \in 1..k : Is(line, i, "hex")})
        value[k \in 0..n] == IF k = 0 THEN 0 ELSE value[k - 1] * 16 + line[k][2]
    IN IF \/ n = 0
          \/ \E k \in 1..n : value[k - 1] > SizeMax \div 16
          \/ n < Len(line) /\ line[n + 1][1] \notin {"ext", "CR"}
       THEN <<>> ELSE <<value[n]>>

BodyChunkSize(p, buf) ==
    LET nl == Newlines(buf) IN
    IF nl = {}
    THEN <<[p EXCEPT !.line = @ \o buf], <<>>, IF Len(p.line \o buf) > MaxLine THEN "bad" ELSE "more">>
    ELSE LET size == ChunkDigits(p.line \o Take(buf, Min(nl) - 1)) IN
         IF size = <<>> THEN <<p, buf, "bad">>
         ELSE <<[p EXCEPT !.line = <<>>, !.remaining = size[1],
                          !.body = IF size[1] > 0 THEN "chunk_data" ELSE "trailers"],
                Drop(buf, Min(nl)), "continue">>

BodyChunkData(p, buf) ==
    LET n == Least(p.remaining, Len(buf))
        q == [fpm_http_stdout(p, Take(buf, n)) EXCEPT !.remaining = @ - n]
    IN IF q.remaining = 0 THEN <<[q EXCEPT !.body = "chunk_crlf"], Drop(buf, n), "continue">>
       ELSE <<q, Drop(buf, n), "more">>

\* A CR that ends a read is kept in the line buffer.
BodyChunkCrlf(p, buf) ==
    LET next == [p EXCEPT !.line = <<>>, !.body = "chunk_size"] IN
    IF p.line # <<>>
    THEN IF Is(buf, 1, "LF") THEN <<next, Tail(buf), "continue">> ELSE <<p, buf, "bad">>
    ELSE IF Len(buf) < 2
    THEN IF Is(buf, 1, "CR") THEN <<[p EXCEPT !.line = buf], <<>>, "more">> ELSE <<p, buf, "bad">>
    ELSE IF Is(buf, 1, "CR") /\ Is(buf, 2, "LF") THEN <<next, Drop(buf, 2), "continue">>
    ELSE <<p, buf, "bad">>

BodyTrailers(p, buf) ==
    LET nl   == Newlines(buf)
        line == p.line \o Take(buf, IF nl = {} THEN Len(buf) ELSE Min(nl) - 1)
    IN IF Len(line) > MaxLine THEN <<p, buf, "bad">>
       ELSE IF nl = {} THEN <<[p EXCEPT !.line = line], <<>>, "more">>
       ELSE <<[p EXCEPT !.line = <<>>], Drop(buf, Min(nl)),
              IF line = <<>> \/ (Len(line) = 1 /\ Is(line, 1, "CR")) THEN "done" ELSE "continue">>

RECURSIVE fpm_http_http_body(_, _)
fpm_http_http_body(p, buf) ==
    LET r == CASE p.body = "cl"         -> BodyLength(p, buf)
               [] p.body = "chunk_size" -> BodyChunkSize(p, buf)
               [] p.body = "chunk_data" -> BodyChunkData(p, buf)
               [] p.body = "chunk_crlf" -> BodyChunkCrlf(p, buf)
               [] p.body = "trailers"   -> BodyTrailers(p, buf)
               [] p.body = "eof"        -> <<fpm_http_stdout(p, buf), <<>>, "more">>
    IN IF buf = <<>> THEN <<p, buf, "more">>
       ELSE IF r[3] = "continue" THEN fpm_http_http_body(r[1], r[2]) ELSE r

(***************************************************************************)
(* HTTP: fpm_http_http_data() and its parts.                               *)
(***************************************************************************)
\* A connection whose end is expected, or that sent too much, is not used again.
fpm_http_http_complete_Keeps(p) == fpm_http_request_done(fpm_http_http_state_reset(p))

fpm_http_http_complete(p) ==
    IF p.expect_eof THEN [fpm_http_finish(fpm_http_http_state_reset(p)) EXCEPT !.dead = TRUE]
    ELSE fpm_http_request_done(fpm_http_http_state_reset(p))

\* Body bytes, then the end of the reply; fpm_http_http_leftover() on what is left.
HttpBody(p, buf) ==
    LET r == fpm_http_http_body(p, buf) IN
    IF r[3] = "bad" THEN fpm_http_upstream_fail(r[1])
    ELSE IF r[3] = "done" THEN fpm_http_http_complete([r[1] EXCEPT !.expect_eof = @ \/ r[2] # <<>>])
    ELSE r[1]


HeadEnds(p) ==
    {i \in (IF p.head_scan > 3 THEN p.head_scan - 3 ELSE 0) + 1..Len(p.head) :
        BlankAt(p.head, i) /\ Is(p.head, i, "CR")}

RECURSIVE HttpHead(_)
HttpHead(p) ==
    LET ends == HeadEnds(p)
        q    == [p EXCEPT !.head_scan = Len(p.head)]
        tail == Drop(p.head, Min(ends) + 3)
        r    == fpm_http_http_head_done(q, Take(p.head, Min(ends)))
        done == [r[1] EXCEPT !.head_done = TRUE, !.head = <<>>]
    IN IF ends = {} THEN IF Len(p.head) > HttpMaxHead THEN fpm_http_upstream_fail(q) ELSE q
       ELSE CASE r[2] = "bad"     -> fpm_http_upstream_fail(q)
              [] r[2] = "upgrade" -> [q EXCEPT !.res = Append(@, [q.c EXCEPT !.end = "tunnel", !.out = tail]),
                                               !.current = FALSE, !.dead = TRUE]
              [] r[2] = "interim" -> LET again == [q EXCEPT !.head = tail, !.head_scan = 0] IN
                                     IF tail = <<>> THEN again ELSE HttpHead(again)
              [] r[2] = "head"    -> IF tail # <<>> THEN HttpBody(done, tail)
                                     ELSE IF done.body = "cl" /\ done.remaining = 0
                                     THEN fpm_http_http_complete(done) ELSE done

fpm_http_http_data(p, buf) ==
    IF ~p.current THEN fpm_http_upstream_fail(p)
    ELSE IF ~p.head_done THEN HttpHead([p EXCEPT !.head = @ \o buf])
    ELSE HttpBody(p, buf)

(***************************************************************************)
(* The connection.                                                         *)
(***************************************************************************)
ParInit ==
    /\ \E d \in Dialogues :
         par = Started([dialogue |-> d, todo |-> d.requests, req |-> Head(d.requests), c |-> NewReply, res |-> <<>>,
                        current |-> FALSE, dead |-> FALSE, asked |-> 0, rec_hdr_len |-> 0,
                        rec_type |-> "none", rec_len |-> 0, rec_pad |-> 0, head |-> <<>>,
                        head_scan |-> 0, head_done |-> FALSE, body |-> "cl", remaining |-> 0,
                        line |-> <<>>, expect_eof |-> FALSE, cut |-> FALSE])
    /\ wire = <<>>

\* External: the target answers a request once it has it.
TargetAnswers ==
    /\ ~par.dead /\ par.current /\ par.asked = Len(par.res)
    /\ wire' = wire \o par.req.reply
    /\ par' = [par EXCEPT !.asked = @ + 1]

\* One read of n bytes, fewer than the kernel holds or all of them.
fpm_http_http_readcb(n) ==
    /\ ~par.dead /\ n <= Len(wire)
    /\ wire' = Drop(wire, n)
    /\ par' = IF par.dialogue.via = "fcgi" THEN fpm_http_upstream_data(par, Take(wire, n))
              ELSE fpm_http_http_data(par, Take(wire, n))

\* The target closes: with all it had sent read, or (a crash) before it sent it all.
ReadEof_AlwaysDone ==
    /\ ~par.dead /\ par.asked = Len(par.res) + (IF par.current THEN 1 ELSE 0)
    /\ wire' = <<>>
    /\ par' = LET p == [par EXCEPT !.cut = par.current] IN
              IF par.current /\ par.head_done THEN fpm_http_http_complete([p EXCEPT !.expect_eof = TRUE])
              ELSE fpm_http_upstream_fail(p)

ReadEof ==
    /\ ~par.dead /\ par.asked = Len(par.res) + (IF par.current THEN 1 ELSE 0)
    /\ wire' = <<>>
    /\ par' = LET p == [par EXCEPT !.cut = par.current] IN
              IF par.current /\ par.dialogue.via = "http" /\ par.head_done /\ par.body = "eof"
              THEN fpm_http_http_complete(p) ELSE fpm_http_upstream_fail(p)

ParNext ==
    \/ TargetAnswers
    \/ \E n \in 1..MaxRead : fpm_http_http_readcb(n)
    \/ ReadEof

(***************************************************************************)
(* Properties.  want: what the reply of a request means, by its grammar    *)
(* and not by its bytes: how it ends, its status and its body.             *)
(***************************************************************************)
Want(i) == par.dialogue.requests[i].want

\* Type invariant of the two parsers.
ParTypeOK ==
    /\ par.body \in {"cl", "chunk_size", "chunk_data", "chunk_crlf", "trailers", "eof"}
    /\ par.rec_hdr_len \in 0..RecHdr - 1
    /\ par.head_scan <= Len(par.head) \/ par.head_done
    /\ Len(par.res) <= Len(par.dialogue.requests)

\* Wherever the reads end, a reply that is completed towards the client is the
\* reply the target sent, whole and to the request it was sent for; one whose end
\* is the end of the connection may be cut and still look complete.
AnswerTrue ==
    \A i \in DOMAIN par.res :
       LET r == par.res[i] IN
       r.end \in {"end", "tunnel"} =>
          /\ r.end = "end" => Want(i).end \in {"end", "eof"} /\ r.status = Want(i).status
          /\ r.end = "tunnel" => Want(i).end = "tunnel"
          /\ Want(i).end = "end" => r.out = Want(i).body
          /\ Want(i).end # "end" => r.out = Take(Want(i).body, Len(r.out))

\* A whole and well-formed reply is never refused because of how it was split:
\* only a malformed one, or a connection lost before its end, fails.
WholeAccepted ==
    \A i \in DOMAIN par.res :
       par.res[i].end \in {"truncated", "bad gateway"} =>
          Want(i).end = "fail" \/ (par.cut /\ i = Len(par.res))

\* When the last byte of a reply has been read the request is over: the gateway
\* never waits for a byte the target has no reason to send.
EndNoticed ==
    ~par.dead /\ par.current /\ par.asked > Len(par.res) /\ wire = <<>> =>
       Want(par.asked).end = "eof"

\* A connection is given to another request only when the target will keep it and
\* has sent nothing past its reply.
ReusedClean ==
    /\ \A i \in DOMAIN par.res : Want(i).close => par.dead
    /\ par.dialogue.extra /\ par.dialogue.via = "http" /\ par.res # <<>> /\ wire = <<>> => par.dead

\* The reply to the client has one framing: a length at most once, and none when
\* the gateway has taken chunks apart and sends its own.
OneFraming ==
    \A i \in DOMAIN par.res :
       LET lengths == SelectSeq(par.res[i].keys, LAMBDA t : t[2] = "Content-Length") IN
       Len(lengths) <= (IF Want(i).chunked THEN 0 ELSE 1)

=============================================================================
