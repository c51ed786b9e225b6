--------------------------------- MODULE HttpMessage ---------------------------------
(***************************************************************************)
(* What http.c puts on the wire for a request and for a reply, and how the *)
(* other side reads it: a client and a server of http.c on a connection    *)
(* that may be used again.  A message is a sequence of tokens: a first     *)
(* line, a header, a continuation line, an empty line, the size of a       *)
(* chunk, a byte of the body.  They arrive in pieces of any size, and a    *)
(* side reads as far as it can.                                            *)
(***************************************************************************)
EXTENDS Integers, Sequences, SequencesExt

CONSTANTS
  Methods,     \* of {"GET", "HEAD", "POST", "PUT", "PATCH"}
  MaxRequests, \* on one connection
  MaxBody,     \* bytes of a body
  Sizes,       \* the chunks of a streamed reply: sequences of positive numbers
  HttpCareful  \* no user gives a body to a reply that must not have one,
                      \* streams a reply to a client that keeps a 1.0 connection,
                      \* or sends a PATCH without saying how long it is

VARIABLE h

None == <<>>
KeepAlive == <<"keep-alive">>
Close == <<"close">>

Line(kind, what, minor) == [t |-> "line", kind |-> kind, what |-> what, minor |-> minor]
Field(k, v) == [t |-> "field", k |-> k, v |-> v]
More(v) == [t |-> "more", v |-> v]
Blank == [t |-> "blank"]
Size(n) == [t |-> "size", n |-> n]
Bytes(n) == [i \in 1 .. n |-> [t |-> "byte"]]

\* evhttp_find_header: the value of the first header with that name.
Find(fields, k) ==
  LET hits == SelectSeq(fields, LAMBDA f : f.k = k) IN IF hits = <<>> THEN None ELSE hits[1].v
Has(fields, k) == Find(fields, k) # None
evhttp_add_header(fields, k, v) == Append(fields, [k |-> k, v |-> v])
evhttp_remove_header(fields, k) ==
  LET at == {i \in DOMAIN fields : fields[i].k = k}
      first == CHOOSE i \in at : \A j \in at : i <= j
  IN  IF at = {} THEN fields ELSE SubSeq(fields, 1, first - 1) \o SubSeq(fields, first + 1, Len(fields))

evhttp_is_connection_close(fields) == Find(fields, "Connection") = Close
evhttp_is_connection_keepalive(fields) == Find(fields, "Connection") = KeepAlive
NeedsBody(method, code) == code \notin {204, 304} /\ ~(code >= 100 /\ code < 200) /\ method # "HEAD"
MayHaveBody(method) == method \in {"POST", "PUT", "PATCH"}

-------------------------------------------------------------------------------
\* A value of several lines is written as it is.
Fields(fields) ==
  FlattenSeq([i \in DOMAIN fields |->
    <<Field(fields[i].k, <<fields[i].v[1]>>)>> \o [j \in 1 .. Len(fields[i].v) - 1 |-> More(fields[i].v[j + 1])]])

\* Mutant of evhttp_make_header_request: POST gets no length.
RequestNoLength(q) == IF q.method = "PUT" /\ ~Has(q.fields, "Content-Length")
                      THEN evhttp_add_header(q.fields, "Content-Length", <<q.body>>) ELSE q.fields

evhttp_make_header_request(q) ==
  IF q.method \in {"POST", "PUT"} /\ ~Has(q.fields, "Content-Length")
  THEN evhttp_add_header(q.fields, "Content-Length", <<q.body>>) ELSE q.fields

MaybeAddLength(fields, n) ==
  IF Has(fields, "Transfer-Encoding") \/ Has(fields, "Content-Length") THEN fields
  ELSE evhttp_add_header(fields, "Content-Length", <<n>>)

\* q is the request, with the version that the reply takes from it; n the bytes
\* that are known when the header is made.
evhttp_make_header_response(q, minor, code, fields, n) ==
  LET keep == evhttp_is_connection_keepalive(q.fields)
      a == IF minor = 0 /\ keep THEN evhttp_add_header(fields, "Connection", KeepAlive) ELSE fields
      b == IF (minor >= 1 \/ keep) /\ NeedsBody(q.method, code) THEN MaybeAddLength(a, n) ELSE a
  IN  IF evhttp_is_connection_close(q.fields)
      THEN evhttp_add_header(evhttp_remove_header(b, "Connection"), "Connection", Close) ELSE b

evhttp_make_header(line, fields, n) == ((<<line>> \o Fields(fields)) \o <<Blank>>) \o Bytes(n)

Chunks(sizes, chunked) ==
  FlattenSeq([i \in DOMAIN sizes |->
    IF chunked THEN (<<Size(sizes[i])>> \o Bytes(sizes[i])) \o <<Blank>> ELSE Bytes(sizes[i])])
Total(sizes) == FoldLeft(LAMBDA n, s : n + s, 0, sizes)

-------------------------------------------------------------------------------
\* A side that reads: st is where it is, need the bytes to read or -1.
NewReader(kind) == [kind |-> kind, st |-> "first", line |-> None, fields |-> <<>>, need |-> -1,
                    chunked |-> FALSE, body |-> 0, inp |-> <<>>, continue |-> FALSE]
Reads(x) == x.st \in {"first", "fields", "body", "trailer"}

\* A length that is not given ends the body of a reply with the connection, and
\* is an error when the connection is to stay open.
evhttp_get_body_length(x) ==
  LET length == Find(x.fields, "Content-Length")
      connection == Find(x.fields, "Connection")
  IN  IF length # None THEN [x EXCEPT !.need = length[1]]
      ELSE IF connection \notin {None, Close} THEN [x EXCEPT !.st = "failed"]
      ELSE [x EXCEPT !.need = -1]

\* evhttp_read_body when there is nothing to read: a length of zero is complete.
BodyBegins(x, last) ==
  LET y == [x EXCEPT !.continue = x.kind = "request" /\ x.line.minor >= 1 /\ last
                                  /\ Find(x.fields, "Expect") # None]
  IN  IF y.need = 0 /\ ~y.chunked THEN [y EXCEPT !.st = "done"] ELSE y

evhttp_get_body(x, last) ==
  LET b == [x EXCEPT !.st = "body"]
      l == evhttp_get_body_length(b)
  IN  IF x.kind = "request" /\ ~MayHaveBody(x.line.what) THEN [x EXCEPT !.st = "done"]
      ELSE IF Has(x.fields, "Transfer-Encoding")
           THEN BodyBegins([b EXCEPT !.chunked = TRUE, !.need = -1], last)
      ELSE IF l.st = "failed" THEN l
      ELSE IF x.kind = "request" /\ l.need < 1 THEN [l EXCEPT !.st = "done"]
      ELSE BodyBegins(l, last)

\* evhttp_read_header, at the empty line; "last" when nothing else has arrived.
HeaderRead(x, method, last) ==
  IF x.kind = "request" THEN evhttp_get_body(x, last)
  ELSE IF x.line.what = 100 THEN [x EXCEPT !.st = "first"]
  ELSE IF ~NeedsBody(method, x.line.what) THEN [x EXCEPT !.st = "done"]
  ELSE evhttp_get_body(x, last)

\* One header line; a continuation belongs to the last header.
evhttp_parse_headers(x, tok) ==
  CASE tok.t = "field" -> [x EXCEPT !.fields = evhttp_add_header(@, tok.k, tok.v)]
    [] tok.t = "more" /\ x.fields # <<>> -> [x EXCEPT !.fields[Len(x.fields)].v = Append(@, tok.v)]
    [] OTHER -> [x EXCEPT !.st = "failed"]

Byte(x, tok) ==
  IF tok.t # "byte" THEN [x EXCEPT !.st = "failed"]
  ELSE [x EXCEPT !.body = @ + 1, !.need = IF @ < 0 THEN @ ELSE @ - 1]

\* Empty lines before the size of a chunk are skipped; zero is the last chunk.
evhttp_handle_chunked_read(x, tok) ==
  IF x.need > 0 THEN LET y == Byte(x, tok) IN IF y.need = 0 THEN [y EXCEPT !.need = -1] ELSE y
  ELSE CASE tok.t = "blank" -> x
         [] tok.t = "size" /\ tok.n = 0 -> [x EXCEPT !.st = "trailer", !.need = 0]
         [] tok.t = "size" /\ tok.n > 0 -> [x EXCEPT !.need = tok.n]
         [] OTHER -> [x EXCEPT !.st = "failed"]

evhttp_read_body(x, tok) ==
  IF x.chunked THEN evhttp_handle_chunked_read(x, tok)
  ELSE LET y == Byte(x, tok) IN IF y.need = 0 /\ y.st = "body" THEN [y EXCEPT !.st = "done"] ELSE y

evhttp_parse_firstline(x, tok) ==
  IF tok.t = "line" /\ tok.kind = x.kind THEN [x EXCEPT !.st = "fields", !.line = tok]
  ELSE [x EXCEPT !.st = "failed"]

Consume(x, tok, method, last) ==
  CASE x.st = "first" -> evhttp_parse_firstline(x, tok)
    [] x.st = "fields" /\ tok.t = "blank" -> HeaderRead(x, method, last)
    [] x.st = "trailer" /\ tok.t = "blank" -> [x EXCEPT !.st = "done"]
    [] x.st \in {"fields", "trailer"} /\ tok.t # "blank" -> evhttp_parse_headers(x, tok)
    [] x.st = "body" -> evhttp_read_body(x, tok)

\* As far as what arrived goes; what is left stays in the buffer.
Run(x, method) ==
  LET n == Len(x.inp)
      after[i \in 0 .. n] ==
        IF i = 0 THEN [x EXCEPT !.inp = <<>>]
        ELSE IF Reads(after[i - 1]) THEN Consume(after[i - 1], x.inp[i], method, i = n)
        ELSE [after[i - 1] EXCEPT !.inp = Append(@, x.inp[i])]
  IN  after[n]

-------------------------------------------------------------------------------
\* to, from: the two directions of the connection; open: the server has not
\* closed it; sent, said: the request and the reply that are on their way.
Init ==
  h = [cl |-> [NewReader("status") EXCEPT !.st = "idle"], sv |-> NewReader("request"), to |-> <<>>,
       from |-> <<>>, open |-> TRUE, sent |-> None, said |-> None, n |-> 0, misheard |-> FALSE]

Requests ==
  {q \in [method : Methods, minor : {0, 1}, body : 0 .. MaxBody, connection : {None, Close, KeepAlive},
          note : {None, <<"a">>, <<"a", "b">>}, expect : BOOLEAN] :
     /\ q.body > 0 => MayHaveBody(q.method)
     /\ q.expect => q.body > 0 /\ q.minor = 1
     /\ q.note # None => q.body = 0
     /\ HttpCareful => ~(q.method = "PATCH" /\ q.body > 0)}

Given(q) ==
  LET f(k, v) == IF v = None THEN <<>> ELSE <<[k |-> k, v |-> v]>>
  IN  (f("Note", q.note) \o f("Connection", q.connection)) \o f("Expect", IF q.expect THEN <<"100-continue">> ELSE None)

\* evhttp_make_request on a connection that is idle, or new if it was closed.
\* (On one whose end is not yet noticed the request fails: that is in Http.)
MakeRequest(q) ==
  LET fields == evhttp_make_header_request([method |-> q.method, body |-> q.body, fields |-> Given(q)])
      fresh == h.cl.st = "closed"
      out == evhttp_make_header(Line("request", q.method, q.minor), fields, q.body)
  IN  /\ (h.cl.st = "closed" \/ (h.cl.st = "idle" /\ h.open)) /\ h.n < MaxRequests
      /\ h' = [h EXCEPT !.n = @ + 1, !.open = TRUE, !.said = None,
                        !.sent = [method |-> q.method, minor |-> q.minor, body |-> q.body, fields |-> fields],
                        !.sv = IF fresh THEN NewReader("request") ELSE @,
                        !.to = IF fresh THEN out ELSE @ \o out, !.from = IF fresh THEN <<>> ELSE @,
                        !.cl = [NewReader("status") EXCEPT !.inp = IF fresh THEN <<>> ELSE h.cl.inp]]

Tokens == 1 .. 12
Rest(s, n) == SubSeq(s, n + 1, Len(s))

\* The server reads; it says once that the client may go on.
ServerReads(n) ==
  LET x == Run([h.sv EXCEPT !.inp = @ \o SubSeq(h.to, 1, n), !.continue = FALSE], None)
  IN  /\ Reads(h.sv) /\ n <= Len(h.to) /\ h.open
      /\ h' = [h EXCEPT !.sv = x, !.to = Rest(@, n),
                        !.from = IF x.continue THEN @ \o <<Line("status", 100, 1), Blank>> ELSE @,
                        !.misheard = @ \/ (x.st = "done" /\ [method |-> x.line.what, minor |-> x.line.minor,
                                             body |-> x.body, fields |-> x.fields] # h.sent)]

\* evhttp_send_done: the connection is closed, or read from again, with what is
\* left in the buffer.
SendDone(x, out) ==
  LET q == x.sv
      close == \/ q.line.minor = 0 /\ ~evhttp_is_connection_keepalive(q.fields)
               \/ evhttp_is_connection_close(q.fields) \/ evhttp_is_connection_close(out)
  IN  IF close THEN [x EXCEPT !.open = FALSE]
      ELSE [x EXCEPT !.sv = Run([NewReader("request") EXCEPT !.inp = q.inp], None)]

Reply(minor, code, out, tokens, body) ==
  LET q == [method |-> h.sv.line.what, fields |-> h.sv.fields]
  IN  /\ h.sv.st = "done" /\ h.open
      /\ h' = SendDone([h EXCEPT !.from = (@ \o <<Line("status", code, minor)>>) \o tokens,
                                 !.said = [code |-> code, body |-> IF NeedsBody(q.method, code) THEN body ELSE 0]],
                       out)

\* The user's own headers: whether the connection is to be closed, and a length.
evhttp_send_reply(code, n, close) ==
  LET q == [method |-> h.sv.line.what, fields |-> h.sv.fields]
      own == IF close THEN evhttp_add_header(<<>>, "Connection", Close) ELSE <<>>
      out == evhttp_make_header_response(q, h.sv.line.minor, code, own, n)
  IN  /\ h.sv.st = "done" /\ (HttpCareful => n = 0 \/ NeedsBody(q.method, code))
      /\ Reply(h.sv.line.minor, code, out, Tail(evhttp_make_header(Blank, out, n)), n)

\* evhttp_send_page: an error page has version 1.1 and closes the connection.
evhttp_send_error ==
  LET q == [method |-> h.sv.line.what, fields |-> h.sv.fields]
      out == evhttp_make_header_response(q, 1, 404, evhttp_add_header(<<>>, "Connection", Close), 1)
  IN  /\ h.sv.st = "done"
      /\ Reply(1, 404, out, Tail(evhttp_make_header(Blank, out, 1)), 1)

\* evhttp_send_reply_start, _chunk and _end.
Streamed(code, sizes, given) ==
  LET q == [method |-> h.sv.line.what, fields |-> h.sv.fields]
      minor == h.sv.line.minor
      chunked == ~given /\ minor >= 1 /\ NeedsBody(q.method, code)
      own == IF chunked THEN evhttp_add_header(<<>>, "Transfer-Encoding", <<"chunked">>)
             ELSE IF given THEN evhttp_add_header(<<>>, "Content-Length", <<Total(sizes)>>) ELSE <<>>
      out == evhttp_make_header_response(q, minor, code, own, 0)
      data == IF NeedsBody(q.method, code) THEN Chunks(sizes, chunked) ELSE <<>>
  IN  /\ h.sv.st = "done"
      /\ HttpCareful => minor = 1 \/ given \/ ~evhttp_is_connection_keepalive(q.fields) \/ ~NeedsBody(q.method, code)
      /\ Reply(minor, code, out,
               (Tail(evhttp_make_header(Blank, out, 0)) \o data) \o (IF chunked THEN <<Size(0), Blank>> ELSE <<>>),
               Total(sizes))

\* evhttp_connection_done: the client closes, or keeps the connection.  What
\* comes while it is idle resets it.
ClientDone(x) ==
  IF x.st # "done" THEN x
  ELSE IF evhttp_is_connection_close(x.fields) \/ evhttp_is_connection_close(h.sent.fields)
       THEN [x EXCEPT !.st = "closed"] ELSE [x EXCEPT !.st = "idle"]

Told(x) == [code |-> x.line.what, body |-> x.body]

ClientReads(n) ==
  LET x == Run([h.cl EXCEPT !.inp = @ \o SubSeq(h.from, 1, n)], h.sent.method)
  IN  /\ Reads(h.cl) /\ n <= Len(h.from)
      /\ h' = [h EXCEPT !.cl = ClientDone(x), !.from = Rest(@, n),
                        !.misheard = @ \/ (x.st = "done" /\ Told(x) # h.said)]

\* The end of the connection ends a body without a length; otherwise it fails
\* the request, or is noticed while the connection is idle.
ClientEof ==
  LET ends == h.cl.st = "body" /\ ~h.cl.chunked /\ h.cl.need < 0
  IN  /\ ~h.open /\ h.from = <<>> /\ h.cl.st # "closed"
      /\ h' = [h EXCEPT !.cl.st = IF ends \/ h.cl.st = "idle" THEN "closed" ELSE "failed",
                        !.misheard = @ \/ (ends /\ Told(h.cl) # h.said)]

Next ==
  \/ \E q \in Requests : MakeRequest(q)
  \/ \E n \in Tokens : ServerReads(n) \/ ClientReads(n)
  \/ \E code \in {200, 204}, n \in 0 .. MaxBody, close \in BOOLEAN : evhttp_send_reply(code, n, close)
  \/ evhttp_send_error
  \/ \E code \in {200, 204}, sizes \in Sizes, given \in BOOLEAN : Streamed(code, sizes, given)
  \/ ClientEof

-------------------------------------------------------------------------------
\* Both sides agree where each message ends: the server gets each request as it
\* was sent, the client each reply, with its body; neither meets something that
\* it cannot parse, or waits for something that the other does not send; and a
\* connection that both keep has nothing left over on it.
Waiting == Reads(h.cl) /\ h.n > 0 /\ h.from = <<>> /\ h.open
FramingAgrees ==
  /\ ~h.misheard /\ h.cl.st # "failed" /\ h.sv.st # "failed"
  /\ Waiting => h.to # <<>> \/ h.sv.st = "done"
  /\ h.cl.st = "idle" /\ h.open => h.cl.inp = <<>> /\ h.from = <<>>
===============================================================================
