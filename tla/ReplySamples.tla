----------------------------- MODULE ReplySamples -----------------------------
(***************************************************************************)
(* Dialogues for ReplyParse: replies written down as a target writes them, *)
(* with what each of them means.                                           *)
(***************************************************************************)
EXTENDS ReplyParse, SequencesExt

CRLF == <<<<"CR">>, <<"LF">>>>
Line(k, v) == <<<<"key", k, v>>>> \o CRLF
Head1(code, hs) == Line("Status", code) \o FlattenSeq([i \in DOMAIN hs |-> Line(hs[i][1], hs[i][2])]) \o CRLF
X(from, to) == [i \in 1..to - from |-> <<"x", from + i>>]

\* A body in chunks of the given sizes; the first size line has an extension.
Chunk(from, size, ext) ==
    <<<<"hex", 0>>, <<"hex", size>>>> \o (IF ext THEN <<<<"ext">>>> ELSE <<>>) \o CRLF \o X(from, from + size) \o CRLF
Last0 == <<<<"hex", 0>>>> \o CRLF

Meant(end, status, body, close, chunked) ==
    [end |-> end, status |-> status, body |-> body, close |-> close, chunked |-> chunked]

Ask(method, upgrading, reply, want) ==
    [method |-> method, upgrading |-> upgrading, reply |-> reply, want |-> want]

Interims == {<<>>, Head1(100, <<>>), Head1(103, <<<<"Link", "a">>>>) \o Head1(100, <<>>)}

CL(n) == <<"Content-Length", n>>
TE == <<"Transfer-Encoding", "chunked">>
CloseKey == <<"Connection", "close">>

\* Well-formed replies of an HTTP target.
HttpGood ==
    {Ask("GET", FALSE, i \o Head1(200, <<CL(n)>>) \o X(0, n), Meant("end", 200, X(0, n), FALSE, FALSE)) :
        i \in Interims, n \in 0..2}
    \cup
    {Ask("GET", FALSE, i \o Head1(200, <<CL(9), TE>>) \o Chunk(0, 2, e) \o Chunk(2, 1, FALSE) \o Last0 \o t \o CRLF,
         Meant("end", 200, X(0, 3), FALSE, TRUE)) :
        i \in {<<>>, Head1(100, <<>>)}, e \in BOOLEAN, t \in {<<>>, Line("Trailer", "z")}}
    \cup
    {Ask(m, FALSE, Head1(c, <<CL(2)>>), Meant("end", c, <<>>, FALSE, FALSE)) :
        <<m, c>> \in {<<"HEAD", 200>>, <<"GET", 204>>, <<"GET", 304>>}}
    \cup
    {Ask("GET", FALSE, Head1(200, <<CL(1), CL(1), CloseKey>>) \o X(0, 1), Meant("end", 200, X(0, 1), TRUE, FALSE)),
     Ask("GET", FALSE, Head1(200, <<>>) \o X(0, 3), Meant("eof", 200, X(0, 3), TRUE, FALSE)),
     Ask("GET", TRUE, Head1(101, <<<<"Upgrade", "websocket">>>>) \o X(0, 2), Meant("tunnel", 101, X(0, 2), TRUE, FALSE)),
     Ask("GET", TRUE, Head1(100, <<>>) \o Head1(403, <<CL(1)>>) \o X(0, 1), Meant("end", 403, X(0, 1), FALSE, FALSE))}

\* Replies the parser must refuse.
HttpBad ==
    {Ask("GET", FALSE, r, Meant("fail", 200, X(0, 3), TRUE, FALSE)) : r \in
        {Head1(200, <<CL(1), CL(2)>>) \o X(0, 2),
         Head1(200, <<TE>>) \o <<<<"hex", 1>>>> \o CRLF \o X(0, 2) \o CRLF \o Last0 \o CRLF,
         Head1(200, <<TE>>) \o <<<<"hex", 1>>>> \o CRLF \o X(0, 1) \o <<<<"LF">>>> \o Last0 \o CRLF,
         Head1(200, <<TE>>) \o <<<<"hex", 1>>, <<"hex", 0>>>> \o CRLF \o X(0, 2) \o CRLF \o Last0 \o CRLF,
         Head1(200, <<TE>>) \o <<<<"ext">>>> \o CRLF \o CRLF,
         Head1(200, <<TE>>) \o Chunk(0, 1, FALSE) \o Last0 \o [i \in 1..6 |-> <<"ext">>] \o CRLF \o CRLF}}

Simple == Ask("GET", FALSE, Head1(200, <<CL(1)>>) \o X(5, 6), Meant("end", 200, X(5, 6), FALSE, FALSE))

HttpDialogues ==
    {[via |-> "http", extra |-> FALSE, requests |-> <<r, Simple>>] : r \in HttpGood \cup HttpBad}
    \cup
    {[via |-> "http", extra |-> TRUE, requests |-> <<[r EXCEPT !.reply = @ \o X(7, 8)]>>] :
        r \in {q \in HttpGood : q.want.end = "end"}}

\* FastCGI: the CGI output in records of k bytes, perhaps padded, perhaps with
\* FCGI_STDERR between them, then FCGI_END_REQUEST.
Rec(type, content, pad) ==
    <<<<"ver">>, <<"rec", type, Len(content), pad>>>> \o content \o [i \in 1..pad |-> <<"pad">>]

Records(s, k, pad, err) ==
    LET n == (Len(s) + k - 1) \div k IN
    FlattenSeq([i \in 1..n |-> Rec("STDOUT", SubSeq(s, (i - 1) * k + 1, Least(i * k, Len(s))), pad)
                               \o (IF err THEN Rec("STDERR", X(0, 1), 0) ELSE <<>>)])

BlankLine == <<<<"LF">>, <<"LF">>>>
CgiReplies ==
    {[bytes |-> <<<<"key", "Status", 404>>>> \o b \o X(0, 2), want |-> Meant("end", 404, X(0, 2), FALSE, FALSE)] :
        b \in {BlankLine, CRLF \o CRLF}}
    \cup
    {[bytes |-> Line("Status", 0) \o CRLF \o X(0, 2), want |-> Meant("end", 502, <<>>, FALSE, FALSE)],
     [bytes |-> Line("Location", "a") \o Line("X-Request-Id", "b") \o CRLF, want |-> Meant("end", 200, <<>>, FALSE, FALSE)],
     [bytes |-> Line("Location", "a"), want |-> Meant("fail", 502, <<>>, FALSE, FALSE)]}

FcgiDialogues ==
    {[via |-> "fcgi", extra |-> FALSE, requests |->
        <<Ask("GET", FALSE, Records(r.bytes, k, pad, err) \o Rec("END_REQUEST", X(0, e), pad), r.want),
          Ask("GET", FALSE, Records(<<<<"key", "Status", 200>>>> \o BlankLine \o X(5, 6), 9, 0, FALSE)
                            \o Rec("END_REQUEST", X(0, 1), 0),
              Meant("end", 200, X(5, 6), FALSE, FALSE))>>] :
        r \in CgiReplies, k \in {2, 3, 9}, pad \in 0..1, err \in BOOLEAN, e \in 0..1}

MCDialogues == HttpDialogues \cup FcgiDialogues
==============================================================================
