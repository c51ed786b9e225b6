-------------------------------- MODULE EvutilAddr --------------------------------
(***************************************************************************)
(* Addresses as text (evutil.c): IPv4 and IPv6 addresses, an address with  *)
(* a port, and what evutil_getaddrinfo_common finds out without a          *)
(* resolver.  A text is a sequence of character codes; 0 to 15 are the     *)
(* hexadecimal digits.  An IPv4 address is four bytes, an IPv6 address     *)
(* eight words.                                                            *)
(*                                                                         *)
(* Blanks, signs and "0x" before a number, which sscanf and strtol take,   *)
(* are not modelled.                                                       *)
(***************************************************************************)
EXTENDS Integers, Sequences, SequencesExt

Colon == 16
Dot == 17
LeftBracket == 18
RightBracket == 19

NoAddr == <<>>
\* A string that is NULL.
Nil == <<-1>>
IsDigit(c) == c <= 9
IsHexDigit(c) == c <= 15
At(s, i) == IF i \in DOMAIN s THEN s[i] ELSE -1
From(s, i) == SubSeq(s, i, Len(s))

\* The first place of a character, or 0.
Find(s, c) ==
  LET at == {i \in DOMAIN s : s[i] = c} IN IF at = {} THEN 0 ELSE CHOOSE i \in at : \A j \in at : i <= j

\* A number as text, and the number that a text begins with.
Digits(n, base) ==
  LET digits[m \in Nat] == (IF m < base THEN <<>> ELSE digits[m \div base]) \o <<m % base>> IN digits[n]
RunLength(s, base) == CHOOSE n \in 0 .. Len(s) : /\ \A i \in 1 .. n : s[i] < base
                                                 /\ n = Len(s) \/ s[n + 1] >= base
NumberOf(s, base) == FoldLeft(LAMBDA n, d : base * n + d, 0, SubSeq(s, 1, RunLength(s, base)))

\* The texts between the places of a character, and texts with one between them.
SplitAt(s, ends) == [i \in 1 .. Len(ends) - 1 |-> SubSeq(s, ends[i] + 1, ends[i + 1] - 1)]
SplitBy(s, c) ==
  SplitAt(s, (<<0>> \o SetToSortSeq({i \in DOMAIN s : s[i] = c}, <)) \o <<Len(s) + 1>>)
Joined(parts, c) == FoldLeft(LAMBDA s, p : IF s = <<>> THEN p ELSE (s \o <<c>>) \o p, <<>>, parts)

-------------------------------------------------------------------------------
Dotted(bytes) == Joined([i \in DOMAIN bytes |-> Digits(bytes[i], 10)], Dot)
Words(words) == Joined([i \in DOMAIN words |-> Digits(words[i], 16)], Colon)
LowBytes(w) == <<w[7] \div 256, w[7] % 256, w[8] \div 256, w[8] % 256>>

\* Where the first of the longest runs of zeros is and how many they are; one
\* zero alone is not left out.
LongestGap(w) ==
  LET gap(i, n) == i + n <= 9 /\ \A k \in i .. i + n - 1 : w[k] = 0
      gaps == {g \in (1 .. 8) \X (2 .. 8) : gap(g[1], g[2])}
  IN  IF gaps = {} THEN <<0, 0>> ELSE CHOOSE g \in gaps : \A o \in gaps : g[2] > o[2] \/ (g[2] = o[2] /\ g[1] <= o[1])

WithGap(w, g) ==
  IF g[2] = 0 THEN Words(w)
  ELSE (Words(SubSeq(w, 1, g[1] - 1)) \o <<Colon, Colon>>) \o Words(SubSeq(w, g[1] + g[2], 8))

\* The low words are dotted in what looks like an IPv4 address.
LooksMapped(w) ==
  /\ \A i \in 1 .. 5 : w[i] = 0
  /\ (w[6] = 0 /\ w[7] # 0 /\ w[8] # 0) \/ w[6] = 65535

evutil_inet_ntop(addr) ==
  IF Len(addr) = 4 THEN Dotted(addr)
  ELSE IF ~LooksMapped(addr) THEN WithGap(addr, LongestGap(addr))
  ELSE (<<Colon, Colon>> \o (IF addr[6] = 0 THEN <<>> ELSE Digits(addr[6], 16) \o <<Colon>>))
       \o Dotted(LowBytes(addr))

\* "%d.%d.%d.%d%c" with four numbers that are bytes.
QuadOf(parts) ==
  IF /\ Len(parts) = 4
     /\ \A i \in 1 .. 4 : /\ parts[i] # <<>> /\ RunLength(parts[i], 10) = Len(parts[i])
                           /\ NumberOf(parts[i], 10) <= 255
  THEN [i \in 1 .. 4 |-> NumberOf(parts[i], 10)] ELSE NoAddr
Quad(s) == QuadOf(SplitBy(s, Dot))

\* The words before eow, from the left; gap is how many of them are before "::",
\* -1 without it and -2 for what is no address.
Groups(s, eow) ==
  LET parse[q \in [at : Nat, words : Seq(Nat), gap : Int]] ==
        LET n == RunLength(From(s, q.at), 16)
        IN  IF q.at >= eow THEN q
            ELSE IF Len(q.words) > 7 THEN [q EXCEPT !.gap = -2]
            ELSE IF n > 0
              THEN IF n > 4 \/ (At(s, q.at + n) # Colon /\ q.at + n # eow) THEN [q EXCEPT !.gap = -2]
                   ELSE parse[[q EXCEPT !.at = @ + n + 1, !.words = Append(@, NumberOf(From(s, q.at), 16))]]
            ELSE IF s[q.at] = Colon /\ q.words # <<>> /\ q.gap = -1
              THEN parse[[q EXCEPT !.at = @ + 1, !.gap = Len(q.words)]]
            ELSE IF s[q.at] = Colon /\ q.words = <<>> /\ At(s, q.at + 1) = Colon /\ q.gap = -1
              THEN parse[[q EXCEPT !.at = @ + 2, !.gap = 0]]
            ELSE [q EXCEPT !.gap = -2]
  IN  parse[[at |-> 1, words |-> <<>>, gap |-> -1]]

\* Where the digits before the first dot begin.
EndOfWords(s, dot) ==
  CHOOSE i \in 1 .. dot : (\A k \in i .. dot - 1 : IsDigit(s[k])) /\ (i = 1 \/ ~IsDigit(s[i - 1]))

\* Zeros in the gap, up to eight words with the low ones.
Filled(words, gap, low, missing) ==
  IF gap = -2 \/ missing < 0 \/ (missing = 0 /\ gap # -1) \/ (missing > 0 /\ gap = -1) THEN NoAddr
  ELSE IF gap = -1 THEN words \o low
  ELSE ((SubSeq(words, 1, gap) \o [i \in 1 .. missing |-> 0]) \o From(words, gap + 1)) \o low
Address(g, low) == Filled(g.words, g.gap, low, 8 - (Len(g.words) + Len(low)))

WithQuad(s, eow, quad) ==
  IF quad = NoAddr THEN NoAddr
  ELSE Address(Groups(s, eow), <<256 * quad[1] + quad[2], 256 * quad[3] + quad[4]>>)
WithDot(s, eow) == WithQuad(s, eow, Quad(From(s, eow)))
IPv6At(s, dot) ==
  CASE dot = 0 -> Address(Groups(s, Len(s) + 1), <<>>)
    [] dot = 1 -> NoAddr
    [] OTHER -> WithDot(s, EndOfWords(s, dot))
IPv6(s) == IPv6At(s, Find(s, Dot))

evutil_inet_pton(af, s) == IF af = "INET" THEN Quad(s) ELSE IPv6(s)

-------------------------------------------------------------------------------
\* An address with a port, which may be Nil.
Endpoint(a, port) ==
  IF a = NoAddr \/ (port # Nil /\ NumberOf(port, 10) \notin 1 .. 65535)
  THEN [addr |-> NoAddr, port |-> 0]
  ELSE [addr |-> a, port |-> IF port = Nil THEN 0 ELSE NumberOf(port, 10)]

\* After the bracket anything is taken.
Bracketed(s, close) ==
  Endpoint(IF close = 0 THEN NoAddr ELSE evutil_inet_pton("INET6", SubSeq(s, 2, close - 1)),
           IF At(s, close + 1) = Colon THEN From(s, close + 2) ELSE Nil)
Bare(s, colon) ==
  IF colon = 0 THEN Endpoint(evutil_inet_pton("INET", s), Nil)
  ELSE IF Find(From(s, colon + 1), Colon) > 0 THEN Endpoint(evutil_inet_pton("INET6", s), Nil)
  ELSE Endpoint(evutil_inet_pton("INET", SubSeq(s, 1, colon - 1)), From(s, colon + 1))

evutil_parse_sockaddr_port(s) ==
  IF At(s, 1) = LeftBracket THEN Bracketed(s, Find(s, RightBracket)) ELSE Bare(s, Find(s, Colon))

evutil_format_sockaddr_port(addr, port) ==
  LET text == evutil_inet_ntop(addr)
  IN  ((IF Len(addr) = 4 THEN text ELSE (<<LeftBracket>> \o text) \o <<RightBracket>>) \o <<Colon>>)
      \o Digits(port, 10)

-------------------------------------------------------------------------------
\* Hints of getaddrinfo; "" is what is not given, as socktype or protocol.
evutil_getaddrinfo_infer_protocols(hints) ==
  LET protocol == IF hints.protocol # "" THEN hints.protocol
                  ELSE CASE hints.socktype = "DGRAM" -> "UDP" [] hints.socktype = "STREAM" -> "TCP" [] OTHER -> ""
      socktype == IF hints.socktype # "" THEN hints.socktype
                  ELSE CASE protocol = "UDP" -> "DGRAM" [] protocol = "TCP" -> "STREAM" [] OTHER -> ""
  IN  [hints EXCEPT !.protocol = protocol, !.socktype = socktype]

\* Without a kind of socket there is one entry for TCP and one for UDP.
evutil_new_addrinfo(addr, port, hints) ==
  LET one(t, p) == [addr |-> addr, port |-> port, socktype |-> t, protocol |-> p]
  IN  IF hints.socktype = "" /\ hints.protocol = ""
      THEN <<one("STREAM", "TCP"), one("DGRAM", "UDP")>>
      ELSE <<one(hints.socktype, hints.protocol)>>

\* The port: none is given, a number, or a name that only getservbyname knows.
evutil_parse_servname(serv, numericOnly, named) ==
  IF serv = <<>> THEN 0
  ELSE IF RunLength(serv, 10) = Len(serv) /\ NumberOf(serv, 10) <= 65535 THEN NumberOf(serv, 10)
  ELSE IF numericOnly THEN -1 ELSE named

Loopback4 == <<127, 0, 0, 1>>
Any4 == <<0, 0, 0, 0>>
Loopback6 == <<0, 0, 0, 0, 0, 0, 0, 1>>
Any6 == <<0, 0, 0, 0, 0, 0, 0, 0>>
NONAME == [err |-> "NONAME", ai |-> <<>>, port |-> 0]
NEED_RESOLVE == "NEED_RESOLVE"

Answer(list) == [err |-> "OK", ai |-> list, port |-> 0]

\* Without a name the addresses are the loopback ones, or any to listen on.
NoNode(hints, passive, port) ==
  LET ai(addr) == evutil_new_addrinfo(addr, port, hints)
  IN  Answer((IF hints.family = "INET6" THEN <<>> ELSE ai(IF passive THEN Any4 ELSE Loopback4))
             \o (IF hints.family = "INET" THEN <<>> ELSE ai(IF passive THEN Any6 ELSE Loopback6)))

\* The address that a name is, if it is one, of a family that the hints allow.
NumericHost(node, family) ==
  LET v6 == IF family = "INET" THEN NoAddr ELSE evutil_inet_pton("INET6", node)
  IN  IF v6 # NoAddr THEN v6 ELSE IF family = "INET6" THEN NoAddr ELSE evutil_inet_pton("INET", node)

HostOrResolve(addr, hints, port) ==
  IF addr # NoAddr THEN Answer(evutil_new_addrinfo(addr, port, hints))
  ELSE IF "NUMERICHOST" \in hints.flags THEN NONAME
  ELSE [err |-> NEED_RESOLVE, ai |-> <<>>, port |-> port]

WithServ(node, hints, port) ==
  IF port < 0 THEN NONAME
  ELSE IF node = <<>> THEN NoNode(hints, "PASSIVE" \in hints.flags, port)
  ELSE HostOrResolve(NumericHost(node, hints.family), hints, port)

\* node and serv are texts, empty for NULL; named is what getservbyname says.
evutil_getaddrinfo_common(node, serv, hints, named) ==
  IF node = <<>> /\ serv = <<>> THEN NONAME
  ELSE WithServ(node, evutil_getaddrinfo_infer_protocols(hints),
                evutil_parse_servname(serv, "NUMERICSERV" \in hints.flags, named))
===============================================================================
