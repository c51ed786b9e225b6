---------------------------------- MODULE HttpUri ----------------------------------
(***************************************************************************)
(* URIs, queries and virtual hosts (http.c), on texts as in EvutilAddr.    *)
(* A text is typed character by character; the properties look at what it  *)
(* means as a URI, as the host of a request, as a value in a query, or as  *)
(* an address.                                                             *)
(*                                                                         *)
(* Letters are of one case, and ports have too few digits to overflow.     *)
(***************************************************************************)
EXTENDS EvutilAddr, FiniteSets

CONSTANTS
  Kinds,     \* of {"uri", "query", "words", "bytes", "host"}
  Starts,    \* Starts[kind]: what a text of that kind begins with
  Alphabet,  \* Alphabet[kind]: what may follow
  MaxTyped,  \* MaxTyped[kind]: how much of it
  Server     \* Server[n]: a struct evhttp: pattern, aliases, virtualhosts, callbacks

VARIABLE u

Slash == 20
Question == 21
Hash == 22
AtSign == 23
Percent == 24
Amp == 25
Equals == 26
Plus == 27
Space == 28
Letter == 29
LetterV == 30
Star == 31

NoUri == [ok |-> FALSE]

IsAlpha(c) == c \in 10 .. 15 \cup {Letter, LetterV}
IsUnreserved(c) == c \in 0 .. 15 \cup {Dot, Letter, LetterV}
IsSubDelim(c) == c \in {Amp, Equals, Plus, Star}

-------------------------------------------------------------------------------
\* Where the longest prefix of s ends that consists of such characters and of
\* escaped ones.
EndOf(s, Allowed(_)) ==
  LET end[i \in Nat] ==
        IF i > Len(s) THEN i
        ELSE IF Allowed(s[i]) THEN end[i + 1]
        ELSE IF s[i] = Percent /\ At(s, i + 1) \in 0 .. 15 /\ At(s, i + 2) \in 0 .. 15 THEN end[i + 3]
        ELSE i
  IN  end[1]

scheme_ok(s) ==
  /\ s # <<>> /\ IsAlpha(s[1])
  /\ \A i \in DOMAIN s : s[i] \in 0 .. 15 \cup {Letter, LetterV, Plus, Dot}

userinfo_ok(s) == EndOf(s, LAMBDA c : IsUnreserved(c) \/ IsSubDelim(c) \/ c = Colon) > Len(s)
regname_ok(s) == EndOf(s, LAMBDA c : IsUnreserved(c) \/ IsSubDelim(c)) > Len(s)

IPvFuture(s, dot) ==
  /\ dot > 2 /\ \A i \in 2 .. dot - 1 : IsHexDigit(s[i])
  /\ \A i \in dot + 1 .. Len(s) : IsUnreserved(s[i]) \/ IsSubDelim(s[i]) \/ s[i] = Colon
InBrackets(s) ==
  s # <<>> /\ IF s[1] = LetterV THEN IPvFuture(s, Find(s, Dot)) ELSE evutil_inet_pton("INET6", s) # NoAddr
bracket_addr_ok(s) == InBrackets(SubSeq(s, 2, Len(s) - 1))

\* Mutant of SplitPort: any colon begins a port.
SplitFirstColon(s) ==
  LET at == Find(s, Colon)
  IN  IF at = 0 THEN [host |-> s, port |-> -1]
      ELSE [host |-> SubSeq(s, 1, at - 1), port |-> IF at = Len(s) THEN -1 ELSE NumberOf(From(s, at + 1), 10)]

\* A colon with only digits after it, at the end; a port that is nil is none.
SplitPort(s) ==
  LET at == {i \in DOMAIN s : s[i] = Colon /\ \A k \in i + 1 .. Len(s) : IsDigit(s[k])}
      i == CHOOSE x \in at : TRUE
  IN  IF at = {} THEN [host |-> s, port |-> -1]
      ELSE [host |-> SubSeq(s, 1, i - 1), port |-> IF i = Len(s) THEN -1 ELSE NumberOf(From(s, i + 1), 10)]

host_ok(host) ==
  IF Len(host) >= 2 /\ host[1] = LeftBracket /\ Last(host) = RightBracket
  THEN bracket_addr_ok(host) ELSE regname_ok(host)
Authority(userinfo, rest) ==
  [ok |-> (userinfo = Nil \/ userinfo_ok(userinfo)) /\ host_ok(rest.host),
   userinfo |-> userinfo, host |-> rest.host, port |-> rest.port]
AuthorityAt(s, at) ==
  Authority(IF at = 0 THEN Nil ELSE SubSeq(s, 1, at - 1), SplitPort(From(s, at + 1)))
parse_authority(s) == AuthorityAt(s, Find(s, AtSign))

\* The first of some characters, or the end.
FirstOf(s, stops) ==
  CHOOSE i \in 1 .. Len(s) + 1 : (i > Len(s) \/ s[i] \in stops) /\ \A k \in 1 .. i - 1 : s[k] \notin stops

\* Where a part ends: at a character that may not be in it.
end_of_path(s, part, nonconformant) ==
  IF nonconformant
  THEN FirstOf(s, CASE part = "path" -> {Hash, Question} [] part = "query" -> {Hash} [] part = "fragment" -> {})
  ELSE EndOf(s, LAMBDA c : \/ IsUnreserved(c) \/ IsSubDelim(c) \/ c \in {Colon, AtSign, Slash}
                           \/ c = Question /\ part # "path")

path_matches_noscheme(s) == Find(s, Colon) = 0 \/ Find(s, Slash) \in 1 .. Find(s, Colon)

\* What is after a mark at the front of s, up to where the part ends.
Part(s, mark, part, nonconformant) ==
  IF At(s, 1) # mark THEN [text |-> Nil, rest |-> s]
  ELSE LET e == end_of_path(Tail(s), part, nonconformant)
       IN  [text |-> SubSeq(s, 2, e), rest |-> From(s, e + 1)]

NoAuthority == [ok |-> TRUE, userinfo |-> Nil, host |-> Nil, port |-> -1]

\* From the fragment back to the scheme: what is left of the text, with what is
\* known of the URI.
Uri(a, scheme, path, query, f) ==
  IF f.rest # <<>> THEN NoUri
  ELSE [ok |-> TRUE, scheme |-> scheme, userinfo |-> a.userinfo, host |-> a.host, port |-> a.port,
        path |-> path, query |-> query, fragment |-> f.text]
AfterQuery(a, scheme, path, q, nonconformant) ==
  Uri(a, scheme, path, q.text, Part(q.rest, Hash, "fragment", nonconformant))
AfterPath(a, scheme, path, rest, nonconformant) ==
  IF scheme = Nil /\ ~path_matches_noscheme(path) THEN NoUri
  ELSE AfterQuery(a, scheme, path, Part(rest, Question, "query", nonconformant), nonconformant)
PathEndsAt(a, scheme, s, e, nonconformant) ==
  AfterPath(a, scheme, SubSeq(s, 1, e - 1), From(s, e), nonconformant)
AfterAuthority(a, scheme, s, nonconformant) ==
  IF ~a.ok THEN NoUri ELSE PathEndsAt(a, scheme, s, end_of_path(s, "path", nonconformant), nonconformant)
AuthorityEndsAt(scheme, s, e, nonconformant) ==
  AfterAuthority(parse_authority(SubSeq(s, 1, e - 1)), scheme, From(s, e), nonconformant)
AfterScheme(scheme, s, nonconformant) ==
  IF At(s, 1) = Slash /\ At(s, 2) = Slash
  THEN AuthorityEndsAt(scheme, From(s, 3), FirstOf(From(s, 3), {Question, Hash, Slash}), nonconformant)
  ELSE AfterAuthority(NoAuthority, scheme, s, nonconformant)
SchemeEndsAt(s, colon, nonconformant) ==
  IF colon > 0 /\ scheme_ok(SubSeq(s, 1, colon - 1))
  THEN AfterScheme(SubSeq(s, 1, colon - 1), From(s, colon + 1), nonconformant)
  ELSE AfterScheme(Nil, s, nonconformant)

evhttp_uri_parse_with_flags(s, nonconformant) == SchemeEndsAt(s, Find(s, Colon), nonconformant)

\* With room for it and the final zero.
evhttp_uri_join(r, limit) ==
  LET with(mark, t) == IF t = Nil THEN <<>> ELSE <<mark>> \o t
      authority == (<<Slash, Slash>> \o (IF r.userinfo = Nil THEN <<>> ELSE r.userinfo \o <<AtSign>>))
                   \o (r.host \o (IF r.port < 0 THEN <<>> ELSE <<Colon>> \o Digits(r.port, 10)))
      text == (((IF r.scheme = Nil THEN <<>> ELSE r.scheme \o <<Colon>>)
               \o (IF r.host = Nil THEN <<>> ELSE authority)) \o r.path)
              \o (with(Question, r.query) \o with(Hash, r.fragment))
  IN  IF (r.host # Nil /\ At(r.path, 1) \notin {Slash, -1}) \/ Len(text) + 1 > limit THEN Nil ELSE text

-------------------------------------------------------------------------------
evhttp_uriencode(s, spaceAsPlus) ==
  FlattenSeq([i \in DOMAIN s |->
    IF IsUnreserved(s[i]) THEN <<s[i]>>
    ELSE IF s[i] = Space /\ spaceAsPlus THEN <<Plus>>
    ELSE <<Percent, s[i] \div 16, s[i] % 16>>])

evhttp_decode_uri_internal(s, decodePlus) ==
  LET decode[i \in Nat] ==
        IF i > Len(s) THEN <<>>
        ELSE IF s[i] = Percent /\ At(s, i + 1) \in 0 .. 15 /\ At(s, i + 2) \in 0 .. 15
          THEN <<16 * s[i + 1] + s[i + 2]>> \o decode[i + 3]
        ELSE <<IF s[i] = Plus /\ decodePlus THEN Space ELSE s[i]>> \o decode[i + 1]
  IN  decode[1]

\* The arguments; the key is as it is in the text.  One "&" may be at the end.
evhttp_parse_query_str(s) ==
  LET parse[t \in Seq(Int)] ==
        LET amp == Find(t, Amp)
            argument == IF amp = 0 THEN t ELSE SubSeq(t, 1, amp - 1)
            equals == Find(argument, Equals)
            later == IF amp = 0 THEN [ok |-> TRUE, args |-> <<>>] ELSE parse[From(t, amp + 1)]
        IN  IF t = <<>> THEN [ok |-> TRUE, args |-> <<>>]
            ELSE IF equals < 2 \/ ~later.ok THEN [ok |-> FALSE, args |-> <<>>]
            ELSE [ok |-> TRUE,
                  args |-> <<[key |-> SubSeq(argument, 1, equals - 1),
                              value |-> evhttp_decode_uri_internal(From(argument, equals + 1), TRUE)]>>
                           \o later.args]
  IN  parse[s]

-------------------------------------------------------------------------------
\* The host of a request: of the URI, or of the Host header without its port.
evhttp_request_get_host(uriHost, header) ==
  LET at == {i \in 2 .. Len(header) : header[i] = Colon /\ \A k \in i + 1 .. Len(header) : IsDigit(header[k])}
  IN  IF uriHost # Nil THEN uriHost
      ELSE IF at = {} THEN header ELSE SubSeq(header, 1, (CHOOSE i \in at : TRUE) - 1)

prefix_suffix_match(pattern, name) ==
  LET match[p \in 1 .. Len(pattern) + 1, n \in 1 .. Len(name) + 1] ==
        IF p > Len(pattern) THEN n > Len(name)
        ELSE IF pattern[p] = Star THEN \E k \in n .. Len(name) : match[p + 1, k]
        ELSE At(name, n) = pattern[p] /\ match[p + 1, n + 1]
  IN  match[1, 1]

FirstWhere(s, P(_)) ==
  LET at == {i \in DOMAIN s : P(s[i])} IN IF at = {} THEN 0 ELSE s[CHOOSE i \in at : \A j \in at : i <= j]

\* The server or virtual host that has the alias, or 0.
evhttp_find_alias(http, name) ==
  LET find[n \in DOMAIN Server] ==
        LET child == FirstWhere(Server[n].virtualhosts, LAMBDA c : find[c] # 0)
        IN  IF name \in Server[n].aliases THEN n ELSE IF child = 0 THEN 0 ELSE find[child]
  IN  find[http]

evhttp_find_vhost(http, name) ==
  LET alias == evhttp_find_alias(http, name)
      down[n \in DOMAIN Server] ==
        LET child == FirstWhere(Server[n].virtualhosts, LAMBDA c : prefix_suffix_match(Server[c].pattern, name))
        IN  IF child = 0 THEN n ELSE down[child]
  IN  IF alias # 0 THEN alias ELSE down[http]

\* The callback for a path, which is compared after it is decoded.
evhttp_dispatch_callback(http, path) ==
  FirstWhere(Server[http].callbacks, LAMBDA c : c = evhttp_decode_uri_internal(path, FALSE))

-------------------------------------------------------------------------------
Init == \E k \in Kinds : \E t \in Starts[k] : u = [kind |-> k, text |-> t, n |-> 0]

Type(c) == u.n < MaxTyped[u.kind] /\ u' = [u EXCEPT !.text = Append(@, c), !.n = @ + 1]

Next == \E c \in Alphabet[u.kind] : Type(c)

-------------------------------------------------------------------------------
Limit == 100

\* A URI that is parsed and joined again is the same, but for a port that is nil
\* or has leading zeros; a URI that conforms means the same when conformance is
\* not asked for; and the host of a request does not depend on whether it comes
\* from the URI or from the header.
Kept(t, r, nonconformant, joined) ==
  /\ joined # Nil /\ evhttp_uri_parse_with_flags(joined, nonconformant) = r
  /\ r.host = Nil \/ Find(t, Colon) = 0 => joined = t
  /\ ~nonconformant => evhttp_uri_parse_with_flags(t, TRUE) = r
UriKeptAs(t, r, nonconformant) == r.ok => Kept(t, r, nonconformant, evhttp_uri_join(r, Limit))
UriOf(t) ==
  \A nonconformant \in BOOLEAN : UriKeptAs(t, evhttp_uri_parse_with_flags(t, nonconformant), nonconformant)

HostOf(t) ==
  LET r == evhttp_uri_parse_with_flags(<<Slash, Slash>> \o t, TRUE)
  IN  r.ok /\ r.userinfo = Nil /\ r.path = <<>> /\ r.query = Nil /\ r.fragment = Nil /\ r.host # <<>>
        => evhttp_request_get_host(Nil, t) = r.host

\* Text survives encoding and decoding, alone and as arguments of a query.
QueryOf(t) ==
  LET encoded == evhttp_uriencode(t, TRUE)
      args == (<<Letter, Equals>> \o encoded) \o (<<Amp>> \o (encoded \o (<<Equals>> \o encoded)))
      first == [key |-> <<Letter>>, value |-> t]
  IN  /\ \A plus \in BOOLEAN : evhttp_decode_uri_internal(evhttp_uriencode(t, plus), plus) = t
      /\ evhttp_parse_query_str(args) =
           IF t = <<>> THEN [ok |-> FALSE, args |-> <<>>]
           ELSE [ok |-> TRUE, args |-> <<first, [key |-> encoded, value |-> t]>>]

\* What a shell pattern matches.
Shell(pattern, name) ==
  LET star == Find(pattern, Star)
      after == From(pattern, star + 1)
      whole[p \in Seq(Int), t \in Seq(Int)] ==
        LET s == Find(p, Star)
        IN  IF s = 0 THEN p = t
            ELSE /\ Len(t) >= s - 1 /\ SubSeq(t, 1, s - 1) = SubSeq(p, 1, s - 1)
                 /\ \E k \in s .. Len(t) + 1 : whole[From(p, s + 1), From(t, k)]
  IN  whole[pattern, name]

\* A request goes to the host that has its name as an alias, or as far down as
\* patterns match.  (A pattern with "*" at its end matches nothing.)
VhostOf(t) ==
  LET h == evhttp_find_vhost(1, t)
      Under(n) == {c \in DOMAIN Server : \E i \in DOMAIN Server[n].virtualhosts : Server[n].virtualhosts[i] = c}
      aliased == {n \in DOMAIN Server : t \in Server[n].aliases}
      Matches(n) == Shell(Server[n].pattern, t)
  IN  IF aliased # {} THEN h \in aliased
      ELSE /\ \A c \in Under(h) : Last(Server[c].pattern) # Star => ~Matches(c)
           /\ h = 1 \/ Matches(h)

UriKept ==
  /\ u.kind = "uri" => UriOf(u.text) /\ HostOf(u.text) /\ QueryOf(u.text)
  /\ u.kind = "host" => VhostOf(u.text) /\ evhttp_dispatch_callback(1, evhttp_uriencode(u.text, FALSE)) =
       FirstWhere(Server[1].callbacks, LAMBDA c : c = u.text)

Hints ==
  {[family |-> f, socktype |-> k[1], protocol |-> k[2], flags |-> g] :
     f \in {"UNSPEC", "INET", "INET6"}, g \in {{}, {"NUMERICHOST"}},
     k \in {<<"", "">>, <<"STREAM", "">>, <<"", "UDP">>, <<"DGRAM", "UDP">>}}

\* Any way to write an IPv6 address.
Spellings(w) ==
  {Words(w), Words(SubSeq(w, 1, 6)) \o (<<Colon>> \o Dotted(LowBytes(w)))}
  \cup {(Words(SubSeq(w, 1, g[1] - 1)) \o <<Colon, Colon>>) \o Words(SubSeq(w, g[1] + g[2], 8)) :
          g \in {x \in (1 .. 8) \X (1 .. 8) : x[1] + x[2] <= 9 /\ \A k \in x[1] .. x[1] + x[2] - 1 : w[k] = 0}}

\* An address keeps its value through text, alone, with a port and through
\* evutil_getaddrinfo_common, which answers with that address for the kinds of
\* socket that the hints allow, if it is of their family.
FoundAs(a, af, hints, r) ==
  IF hints.family \in {"UNSPEC", af}
  THEN /\ r.err = "OK"
       /\ \A i \in DOMAIN r.ai : /\ r.ai[i].addr = a /\ r.ai[i].port = 80
                                 /\ hints.socktype \in {"", r.ai[i].socktype}
                                 /\ hints.protocol \in {"", r.ai[i].protocol}
       /\ \A i, j \in DOMAIN r.ai : i # j => r.ai[i] # r.ai[j]
  ELSE r.err = IF "NUMERICHOST" \in hints.flags THEN "NONAME" ELSE NEED_RESOLVE
AddrKeptAs(a, af, text) ==
  /\ evutil_inet_pton(af, text) = a
  /\ af = "INET6" => \A t \in Spellings(a) : evutil_inet_pton(af, t) = a
  /\ \A port \in {1, 80, 65535} :
       evutil_parse_sockaddr_port(evutil_format_sockaddr_port(a, port)) = [addr |-> a, port |-> port]
  /\ \A hints \in Hints : FoundAs(a, af, hints, evutil_getaddrinfo_common(text, <<8, 0>>, hints, -1))
AddrKept ==
  /\ u.kind = "words" /\ Len(u.text) = 8 => AddrKeptAs(u.text, "INET6", evutil_inet_ntop(u.text))
  /\ u.kind = "bytes" /\ Len(u.text) = 4 => AddrKeptAs(u.text, "INET", evutil_inet_ntop(u.text))

\* util.h on evutil_parse_sockaddr_port: it returns "-1 if the address is not
\* well-formed"; an address that is well-formed ends in a digit or "::" or "]".
WellFormed ==
  LET r == evutil_parse_sockaddr_port(u.text)
  IN  u.kind = "uri" /\ r.addr # NoAddr =>
        \/ IsHexDigit(Last(u.text)) \/ Last(u.text) = RightBracket
        \/ Last(u.text) = Colon /\ At(u.text, Len(u.text) - 1) = Colon
===============================================================================
