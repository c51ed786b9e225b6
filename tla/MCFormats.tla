----------------------------- MODULE MCFormats -----------------------------
(* The formats on the wire, one at a time. *)
EXTENDS Integers, Sequences, TLC

CONSTANTS Parts, MaxEntries, MaxItems, BufLen, UdpLen, MaxAddrs, MaxLabels, HOST_NAME_MAX,
  Methods, MaxRequests, MaxBody, HttpCareful,
  MIN_BUFFER_SIZE, EVBUFFER_CHAIN_SIZE, EVBUFFER_CHAIN_MAX_AUTO_SIZE, MAX_TO_COPY_IN_EXPAND,
  MAX_TO_REALIGN_IN_EXPAND, NUM_READ_IOVEC, PRINTF_SPACE, MaxBytes, Spreads

VARIABLES part, s, tg, w, h, u

Pieces == {<<"x">>, <<"CR">>, <<"LF">>}
Whats == {<<"x">>, <<"x", "x", "CR">>}
EvbufferSearch == INSTANCE EvbufferSearch

\* Tags of one, two and five bytes; integers of 1, 2, 4 and 8 digits.
KindOf == 1 :> "int" @@ 358 :> "int64" @@ 130 :> "timeval" @@ 2147483647 :> "bytes"
Values == [int |-> {0, 15, 16, 2147483647}, int64 |-> {255, 4096},
           timeval |-> {<<0, 0>>, <<17, 999999>>}, bytes |-> {<<>>, <<255>>, <<0, 128, 16>>}]
Tagging == INSTANCE Tagging

\* a.b, b, c.a.b and "b." with a final dot; and a label that is too long.
ab == <<<<97>>, <<98>>>>
b == <<<<98>>>>
cab == <<<<99>>, <<97>>, <<98>>>>
bdot == <<<<98>>, <<>>>>
long == <<[i \in 1 .. 64 |-> 97]>>
Asked == [name : {ab, bdot}, type : {1, 12}] \cup {[name |-> ab, type |-> 28], [name |-> long, type |-> 1]}
Item(sec, n, t, ttl, isName, data) ==
  [section |-> sec, name |-> n, type |-> t, ttl |-> ttl, is_name |-> isName, data |-> data]
Addr(i) == <<10, 0, 0, i>>
Items ==
  {Item("answer", ab, 1, 5, FALSE, Addr(1)), Item("answer", cab, 1, 3, FALSE, Addr(2) \o Addr(3)),
   Item("answer", ab, 5, 9, TRUE, cab), Item("answer", cab, 5, 9, TRUE, b), Item("answer", b, 12, 4, TRUE, ab),
   Item("answer", bdot, 12, 2, TRUE, b), Item("answer", ab, 28, 6, FALSE, [i \in 1 .. 16 |-> i]),
   Item("additional", cab, 1, 1, FALSE, Addr(4)),
   Item("authority", b, 6, 8, FALSE, <<1, 98, 0, 0>> \o [i \in 1 .. 20 |-> IF i = 20 THEN 7 ELSE 0])}
\* Pointers that go round and out of the packet, and labels that leave it.
Garbage == {<<>>, <<192, 0>>, <<1, 97, 192, 0>>, <<192, 2, 192, 0>>, <<1, 97, 192, 9>>, <<3, 97>>, <<192>>}
EvdnsWire == INSTANCE EvdnsWire

\* Texts: "a:", "//", "a://", "//a@", "[" and nothing, with up to three characters.
Kinds == {"uri", "host", "words", "bytes"}
Starts ==
  [uri |-> {<<>>, <<29, 16>>, <<20, 20>>, <<29, 16, 20, 20>>, <<20, 20, 29, 23>>, <<20, 20, 18, 16, 16, 1, 19>>},
   host |-> {<<>>}, words |-> [1 .. 4 -> {0, 1}], bytes |-> {<<>>}]
Alphabet == [uri |-> {0, 1, 16, 20, 21, 22, 23, 24, 25, 28, 29}, host |-> {1, 29, 17},
             words |-> {0, 1, 65535}, bytes |-> {0, 9, 255}]
MaxTyped == [uri |-> 3, host |-> 4, words |-> 4, bytes |-> 4]
Host(pattern, aliases, vhosts, callbacks) ==
  [pattern |-> pattern, aliases |-> aliases, virtualhosts |-> vhosts, callbacks |-> callbacks]
Server ==
  << Host(<<>>, {<<1>>}, <<2, 3>>, <<<<29>>, <<29, 1>>>>),
     Host(<<31, 17, 29>>, {<<29, 29>>}, <<4>>, <<>>),     \* *.g
     Host(<<29, 31>>, {}, <<>>, <<>>),                    \* g*
     Host(<<31, 1, 31, 29>>, {}, <<>>, <<>>) >>           \* *1*g, below *.g
HttpUri == INSTANCE HttpUri

Sizes == {<<>>, <<2>>, <<1, 1>>}
HttpMessage == INSTANCE HttpMessage

mcVars == <<part, s, tg, w, h, u>>
MCInit ==
  /\ part \in Parts /\ EvbufferSearch!Init /\ Tagging!Init /\ EvdnsWire!Init /\ HttpMessage!Init
  /\ HttpUri!Init
  /\ part # "texts" => u = [kind |-> "host", text |-> <<>>, n |-> 0]
  /\ part # "lines" => s.style = "LF"
  /\ part # "dns" => w = [q |-> [name |-> ab, type |-> 1], cname |-> FALSE, step |-> "ask", p |-> <<>>,
                          heard |-> EvdnsWire!Failed, items |-> <<>>, err |-> 0, reply |-> EvdnsWire!Failed]
MCNext ==
  \/ part = "lines" /\ EvbufferSearch!Next /\ UNCHANGED <<part, tg, w, h, u>>
  \/ part = "tags" /\ Tagging!Next /\ UNCHANGED <<part, s, w, h, u>>
  \/ part = "dns" /\ EvdnsWire!Next /\ UNCHANGED <<part, s, tg, h, u>>
  \/ part = "http" /\ HttpMessage!Next /\ UNCHANGED <<part, s, tg, w, u>>
  \/ part = "texts" /\ HttpUri!Next /\ UNCHANGED <<part, s, tg, w, h>>
MCSpec == MCInit /\ [][MCNext]_mcVars
-----------------------------------------------------------------------------
\* The properties of the parts.
LinesRight == EvbufferSearch!LinesRight
PeekCounts == EvbufferSearch!PeekCounts
FramingAgrees == HttpMessage!FramingAgrees
DocumentedTag == Tagging!DocumentedTag
WellFormed == HttpUri!WellFormed

\* The two binary formats: event_tagging.c reads the tagged values it has written,
\* and evdns.c understands the questions and the answers it makes.
PacketsUnderstood == Tagging!TagsRead /\ EvdnsWire!WireUnderstood

\* The two text formats: http.c's URIs and queries and evutil.c's addresses are
\* the same after they were written and read again.
TextsKept == HttpUri!UriKept /\ HttpUri!AddrKept
=============================================================================
