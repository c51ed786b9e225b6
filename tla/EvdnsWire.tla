---------------------------------- MODULE EvdnsWire ----------------------------------
(***************************************************************************)
(* The packets of evdns.c: a client builds a request, a server port parses *)
(* it, its user adds items to the answer, the reply is formatted with      *)
(* compressed names, and the client parses it.  A name is a sequence of    *)
(* labels, a label a sequence of characters, a packet a sequence of bytes  *)
(* whose first has position 0.                                             *)
(***************************************************************************)
EXTENDS Integers, Sequences, FiniteSets, SequencesExt, FiniteSetsExt

CONSTANTS
  Asked,      \* the names that are asked for, with the type
  Items,      \* what the user of the port may add
  MaxItems,   \* how many of them
  BufLen,     \* room for a reply: 1500 in the code
  UdpLen,     \* what is sent of a reply: 512
  MaxAddrs,   \* addresses that a reply keeps: 32
  MaxLabels,  \* entries of the table for compression: 128
  HOST_NAME_MAX,  \* room for the name of an answer: 64 or 255, as limits.h has it
  Garbage     \* packets that nobody has formatted

VARIABLE w

TYPE_A == 1
TYPE_CNAME == 5
TYPE_SOA == 6
TYPE_PTR == 12
TYPE_AAAA == 28
CLASS_INET == 1
NAME_OUT_LEN == 256
Outside == 256  \* what lies behind a packet: not a byte of it
Failed == [failed |-> TRUE]
NOTEXIST == 3
SERVERFAILED == 2
NoTtl == 1000000  \* 0xffffffff

U16(x) == <<x \div 256, x % 256>>
U32(x) == <<0, 0>> \o U16(x)
Get16(p, j) == 256 * p[j + 1] + p[j + 2]
Get32(p, j) == 65536 * Get16(p, j) + Get16(p, j + 2)

\* The length of the name as a string, with the dots.
StrLen(name) == FoldLeft(LAMBDA n, l : n + Len(l) + 1, 0, name) - IF name = <<>> THEN 0 ELSE 1

-------------------------------------------------------------------------------
\* The position of a suffix that the table has: its first entry for it.
PointerTo(table, suffix) ==
  LET hits == {i \in DOMAIN table : table[i].v = suffix}
  IN  table[CHOOSE i \in hits : \A o \in hits : i <= o].pos

Known(table, suffix) == \E i \in DOMAIN table : table[i].v = suffix

\* o is the packet and the table so far, FALSE as ok when the buffer is too
\* short or a label too long.  A request is built without a table.
Labels(o, name, compress, len) ==
  LET add[i \in 0 .. Len(name)] ==
        LET suffix == SubSeq(name, i, Len(name))
            b == add[i - 1]
            j == Len(b.p)
        IN  IF i = 0 THEN [o EXCEPT !.done = FALSE]
            ELSE IF b.done \/ ~b.ok THEN b
            ELSE IF compress /\ Known(b.table, suffix)
                 THEN IF j + 2 > len THEN [b EXCEPT !.ok = FALSE]
                      ELSE [b EXCEPT !.p = @ \o U16(49152 + PointerTo(b.table, suffix)), !.done = TRUE]
            ELSE IF Len(name[i]) > 63 \/ j + Len(name[i]) + 1 > len THEN [b EXCEPT !.ok = FALSE]
            ELSE [b EXCEPT !.p = (@ \o <<Len(name[i])>>) \o name[i],
                           !.table = IF compress /\ Len(@) < MaxLabels
                                     THEN Append(@, [v |-> suffix, pos |-> j]) ELSE @]
  IN  add[Len(name)]

\* A name that ends in a dot has an empty last label, which is the final zero.
\* The zero is written without looking at the room: it may be behind the buffer.
dnsname_to_labels(o, name, compress, len) ==
  LET b == Labels(o, name, compress, len)
  IN  IF StrLen(name) > 255 THEN [o EXCEPT !.ok = FALSE]
      ELSE IF ~b.ok \/ b.done \/ (b.p # <<>> /\ Last(b.p) = 0) THEN b
      ELSE [b EXCEPT !.p = Append(@, 0), !.past = @ \/ Len(b.p) >= len]

Bytes(o, s, len) ==
  IF ~o.ok \/ Len(o.p) + Len(s) > len THEN [o EXCEPT !.ok = FALSE] ELSE [o EXCEPT !.p = @ \o s]

Packet(header) == [p |-> FoldLeft(LAMBDA s, x : s \o U16(x), <<>>, header), table |-> <<>>,
                   ok |-> TRUE, done |-> FALSE, past |-> FALSE]

\* No packet stands for a negative result.
evdns_request_data_build(name, type) ==
  LET room == StrLen(name) + 96 + 6
      o == dnsname_to_labels(Packet(<<7, 256, 1, 0, 0, 0>>), name, FALSE, room)
      r == Bytes(o, U16(type) \o U16(CLASS_INET), room)
  IN  IF r.ok THEN r.p ELSE <<>>

-------------------------------------------------------------------------------
\* A name from position j0 into out bytes: [ok, name, j, outside], j after the first
\* pointer if there is one.  A packet has as many pointers as bytes at most, so a loop
\* ends.  A label is copied before the end of the packet is looked at: outside is how
\* many bytes behind it were read.
LabelAt(p, j, l) == [k \in 1 .. l |-> IF j + k <= Len(p) THEN p[j + k] ELSE Outside]
name_parse(p, j0, out) ==
  LET n == Len(p)
      Bad(s) == [ok |-> FALSE, name |-> <<>>, j |-> j0, outside |-> IF s.j > n THEN s.j - n ELSE 0]
      step[s \in [j : 0 .. n + 63, end : -1 .. n, ptrs : 0 .. n, name : Seq(Seq(0 .. Outside))]] ==
        LET l == p[s.j + 1]
            to == 256 * (l % 64) + p[s.j + 2]
            longer == Append(s.name, LabelAt(p, s.j + 1, l))
        IN  IF s.j >= n THEN Bad(s)
            ELSE IF l = 0
            THEN [ok |-> TRUE, name |-> s.name, j |-> IF s.end < 0 THEN s.j + 1 ELSE s.end, outside |-> 0]
            ELSE IF l >= 64 THEN
              IF s.j + 1 >= n \/ to >= n \/ s.ptrs + 1 > n THEN Bad(s)
              ELSE step[[s EXCEPT !.j = to, !.ptrs = @ + 1, !.end = IF @ < 0 THEN s.j + 2 ELSE @]]
            ELSE IF StrLen(longer) >= out THEN Bad(s)
            ELSE step[[s EXCEPT !.name = longer, !.j = @ + 1 + l]]
  IN  step[[j |-> j0, end |-> -1, ptrs |-> 0, name |-> <<>>]]

\* Most names go into a buffer of 256 bytes.
Name(p, j) == name_parse(p, j, NAME_OUT_LEN)

\* The server: the questions of a well-formed request.
request_parse(p) ==
  LET name == Name(p, 12)
  IN  IF Len(p) < 12 \/ Get16(p, 2) >= 32768 THEN Failed
      ELSE IF ~name.ok \/ name.j + 4 > Len(p) THEN Failed
      ELSE [name |-> name.name, type |-> Get16(p, name.j), id |-> Get16(p, 0)]

-------------------------------------------------------------------------------
Section(items, s) == SelectSeq(items, LAMBDA i : i.section = s)

\* Mutant of DataLength: the length itself is counted.
LengthWithItself(before, after) == Len(after) - Len(before)

\* The length of a name in the data is known after it was written.
DataLength(before, after) == Len(after) - Len(before) - 2

\* The data's length goes in front of it, at position j.
SetLength(o, before) ==
  LET len == DataLength(before, o.p)
  IN  IF ~o.ok THEN o
      ELSE [o EXCEPT !.p[Len(before) + 1] = len \div 256, !.p[Len(before) + 2] = len % 256]

AddData(o, item) ==
  IF ~o.ok THEN o
  ELSE IF item.is_name
  THEN SetLength(dnsname_to_labels([o EXCEPT !.p = @ \o <<0, 0>>], item.data, TRUE, BufLen), o.p)
  ELSE Bytes(Bytes(o, U16(Len(item.data)), BufLen), item.data, BufLen)

AddItem(o, item) ==
  IF ~o.ok THEN o
  ELSE AddData(Bytes(dnsname_to_labels(o, item.name, TRUE, BufLen),
                     (U16(item.type) \o U16(CLASS_INET)) \o U32(item.ttl), BufLen), item)

\* What has no room is cut off and the reply says that it is.  The rest of a
\* reply that is shorter than that is not looked at by the client.
CutOff(o) ==
  IF o.ok /\ Len(o.p) <= UdpLen THEN o.p
  ELSE [SubSeq(o.p \o [i \in 1 .. UdpLen |-> 0], 1, UdpLen) EXCEPT ![3] = @ + 2]

ReplyBuilt(q, items, err) ==
  LET Count(s) == Len(Section(items, s))
      h == Packet(<<q.id, 32768 + 256 + err, 1, Count("answer"), Count("authority"), Count("additional")>>)
      question == Bytes(dnsname_to_labels(h, q.name, TRUE, BufLen), U16(q.type) \o U16(CLASS_INET), BufLen)
  IN  FoldLeft(AddItem, question,
        (Section(items, "answer") \o Section(items, "authority")) \o Section(items, "additional"))

evdns_server_request_format_response(q, items, err) == CutOff(ReplyBuilt(q, items, err))

-------------------------------------------------------------------------------
AddrSize(type) == IF type = TYPE_AAAA THEN 16 ELSE 4
Least(a, b) == IF a < b THEN a ELSE b

\* The head of a resource record from position j; its data is at that place.
HeadAfter(p, name) ==
  IF ~name.ok \/ name.j + 10 > Len(p) THEN [ok |-> FALSE]
  ELSE [ok |-> TRUE, type |-> Get16(p, name.j), ttl |-> Get32(p, name.j + 4),
        len |-> Get16(p, name.j + 8), at |-> name.j + 10]
RecordAt(p, j) == IF j > Len(p) THEN [ok |-> FALSE] ELSE HeadAfter(p, Name(p, j))

Fails(s) == [s EXCEPT !.ok = FALSE]

Addresses(p, type, s, r) ==
  LET size == AddrSize(type)
      n == Least(MaxAddrs - Len(s.addrs), r.len \div size)
  IN  IF r.len % size # 0 \/ r.at + n * size > Len(p) THEN Fails(s)
      ELSE [s EXCEPT !.j = r.at + n * size, !.ttl = Least(@, r.ttl), !.have = TRUE,
                     !.addrs = @ \o [i \in 1 .. n |-> SubSeq(p, r.at + 1 + (i - 1) * size, r.at + i * size)],
                     !.stop = Len(s.addrs) + n = MaxAddrs]

PtrName(s, ttl, host) ==
  IF ~host.ok THEN Fails(s)
  ELSE [s EXCEPT !.j = host.j, !.ttl = Least(@, ttl), !.have = TRUE, !.ptr = host.name, !.stop = TRUE]

CnameName(s, host) == IF ~host.ok THEN Fails(s) ELSE [s EXCEPT !.j = host.j, !.cname = host.name]

\* One answer r of the reply: s with what it adds to it.
TakeAnswer(p, type, wantsCname, s, r) ==
  IF ~r.ok THEN Fails(s)
  ELSE CASE r.type = type /\ type \in {TYPE_A, TYPE_AAAA} -> Addresses(p, type, s, r)
         [] r.type = type /\ type = TYPE_PTR -> PtrName(s, r.ttl, name_parse(p, r.at, HOST_NAME_MAX))
         [] r.type = TYPE_CNAME /\ wantsCname /\ s.cname = <<>> -> CnameName(s, name_parse(p, r.at, HOST_NAME_MAX))
         [] OTHER -> [s EXCEPT !.j = r.at + r.len]
Answer(p, type, wantsCname, s) == TakeAnswer(p, type, wantsCname, s, RecordAt(p, s.j))

\* Without an answer the time to live is that of the zone, after two names.
ZoneTtl(p, s, ttl, rname) ==
  IF ~rname.ok \/ rname.j + 20 > Len(p) THEN Fails(s)
  ELSE [s EXCEPT !.j = rname.j + 20, !.ttl = Least(Least(@, ttl), Get32(p, rname.j + 16))]
AfterMname(p, s, ttl, mname) == IF ~mname.ok THEN Fails(s) ELSE ZoneTtl(p, s, ttl, Name(p, mname.j))
TakeAuthority(p, s, r) ==
  IF ~r.ok THEN Fails(s)
  ELSE IF r.type # TYPE_SOA THEN [s EXCEPT !.j = r.at + r.len]
  ELSE AfterMname(p, s, r.ttl, Name(p, r.at))
Authority(p, s) == TakeAuthority(p, s, RecordAt(p, s.j))

Times(F(_), s, n) ==
  LET after[i \in 0 .. n] ==
        IF i = 0 THEN s ELSE IF after[i - 1].ok /\ ~after[i - 1].stop THEN F(after[i - 1]) ELSE after[i - 1]
  IN  after[n]

\* What the request is told: an error, or the reply.
Answered(p, a) == IF a.have \/ ~a.ok THEN a ELSE Times(LAMBDA s : Authority(p, s), a, Get16(p, 8))
Result(z, err) ==
  IF ~z.ok THEN Failed
  ELSE [addrs |-> z.addrs, ptr |-> z.ptr, cname |-> z.cname, have |-> z.have, err |-> err,
        ttl |-> IF z.ttl = NoTtl THEN 0 ELSE z.ttl]
AfterQuestion(p, q, wantsCname, question) ==
  IF ~question.ok \/ question.j + 4 > Len(p) \/ question.name # q.name THEN Failed
  ELSE Result(Answered(p, Times(LAMBDA s : Answer(p, q.type, wantsCname, s),
                [j |-> question.j + 4, addrs |-> <<>>, ptr |-> <<>>, cname |-> <<>>, ttl |-> NoTtl,
                 have |-> FALSE, stop |-> FALSE, ok |-> TRUE], Get16(p, 6))), Get16(p, 2) % 16)
reply_parse(p, q, wantsCname) ==
  LET flags == Get16(p, 2)
  IN  IF Len(p) < 12 THEN Failed
      ELSE IF (flags \div 512) % 2 = 1 \/ flags < 32768 \/ flags % 16 \notin {0, NOTEXIST} THEN Failed
      ELSE AfterQuestion(p, q, wantsCname, Name(p, 12))

-------------------------------------------------------------------------------
Init ==
  \E q \in Asked, c \in BOOLEAN, g \in Garbage :
    /\ c => q.type # TYPE_PTR
    /\ w = [q |-> q, cname |-> c, step |-> "ask", p |-> g, heard |-> Failed, items |-> <<>>, err |-> 0, reply |-> Failed]

Ask == w.step = "ask" /\ w' = [w EXCEPT !.p = evdns_request_data_build(w.q.name, w.q.type), !.step = "asked"]

Receive ==
  LET q == request_parse(w.p)
  IN  /\ w.step = "asked"
      /\ w' = [w EXCEPT !.heard = q, !.step = IF q = Failed THEN "over" ELSE "answer"]

evdns_server_request_add_reply(item) ==
  /\ w.step = "answer" /\ Len(w.items) < MaxItems
  /\ w' = [w EXCEPT !.items = Append(@, item)]

evdns_server_request_respond(err) ==
  /\ w.step = "answer"
  /\ w' = [w EXCEPT !.p = evdns_server_request_format_response(w.heard, w.items, err), !.err = err,
                    !.step = "replied"]

Heard ==
  /\ w.step = "replied"
  /\ w' = [w EXCEPT !.reply = reply_parse(w.p, w.heard, w.cname), !.step = "over"]

Next == Ask \/ Receive \/ (\E item \in Items : evdns_server_request_add_reply(item)) \/ Heard
        \/ \E err \in {0, SERVERFAILED, NOTEXIST} : evdns_server_request_respond(err)

-------------------------------------------------------------------------------
\* A name as it is on the wire: without the empty label after a final dot.
Plain(name) == IF name # <<>> /\ Last(name) = <<>> THEN Front(name) ELSE name

\* What the items say, as the user of the port meant them: the answers of the
\* type that was asked for, up to those that the reply has no room for.
Answers == Section(w.items, "answer")
OfType(t) == SelectSeq(Answers, LAMBDA i : i.type = t)
Flat(t) ==
  FoldLeft(LAMBDA s, i : s \o [k \in 1 .. Len(i.data) \div AddrSize(t) |->
                                 SubSeq(i.data, 1 + (k - 1) * AddrSize(t), k * AddrSize(t))], <<>>, OfType(t))
\* How many answers are read: up to the one that fills the reply.
ReadAnswers ==
  LET t == w.q.type
      full(n) == LET s == SelectSeq(SubSeq(Answers, 1, n), LAMBDA i : i.type = t)
                 IN  IF t = TYPE_PTR THEN Len(s) > 0
                     ELSE FoldLeft(LAMBDA k, i : k + Len(i.data) \div AddrSize(t), 0, s) >= MaxAddrs
  IN  IF \E n \in 0 .. Len(Answers) : full(n)
      THEN SubSeq(Answers, 1, Min({n \in 0 .. Len(Answers) : full(n)})) ELSE Answers
Used == SelectSeq(ReadAnswers, LAMBDA i : i.type = w.q.type)
Zones == SelectSeq(w.items, LAMBDA i : i.section = "authority" /\ i.type = TYPE_SOA)
Ttl ==
  LET of == {i.ttl : i \in Range(Used)}
      zone == {i.ttl : i \in Range(Zones)} \cup {Get32(i.data, Len(i.data) - 4) : i \in Range(Zones)}
  IN  IF Used # <<>> THEN Min(of) ELSE IF Zones # <<>> THEN Min(zone) ELSE 0
Names(t) == SelectSeq(ReadAnswers, LAMBDA i : i.type = t)

Ptr == IF w.q.type = TYPE_PTR /\ Used # <<>> THEN Plain(Used[1].data) ELSE <<>>
Cname == IF w.cname /\ Names(TYPE_CNAME) # <<>> THEN Plain(Names(TYPE_CNAME)[1].data) ELSE <<>>

\* The reply says something else than the user: that it was cut off, that the server
\* failed; or it holds a name for which the client has no room.
Refused ==
  \/ (Get16(w.p, 2) \div 512) % 2 = 1
  \/ w.err = SERVERFAILED
  \/ StrLen(Ptr) >= HOST_NAME_MAX \/ StrLen(Cname) >= HOST_NAME_MAX
Meant ==
  [addrs |-> IF w.q.type = TYPE_PTR THEN <<>>
             ELSE SubSeq(Flat(w.q.type), 1, Least(MaxAddrs, Len(Flat(w.q.type)))),
   ptr |-> Ptr, cname |-> Cname, have |-> Used # <<>>, err |-> w.err, ttl |-> Ttl]

\* The server hears the question that the client asked, unless the client could
\* not build it; what the client gets out of the compressed reply is what the
\* user of the port put in, or an error when the reply was cut off, the server says so
\* or a name is too long for the client (that the name does not exist is told with the
\* time to live of the zone); and whatever a packet holds, parsing a name ends, and a
\* name that is accepted lies in the packet with all its bytes.
WireUnderstood ==
  /\ w.step = "answer" => w.heard.name = Plain(w.q.name) /\ w.heard.type = w.q.type
  /\ w.step = "over" /\ w.p # <<>> => w.reply = IF Refused THEN Failed ELSE Meant
  /\ \A j \in 0 .. Len(w.p) :
       LET r == Name(w.p, j)
       IN  r.ok => r.j \in j + 1 .. Len(w.p) /\ \A l \in Range(r.name) : Outside \notin Range(l)

\* What name_parse and dnsname_to_labels leave to their callers: that nothing behind a
\* packet is read, and that nothing is written behind the buffer of a reply.  Neither
\* holds, see the README; no run checks them.
ReadsInside == \A j \in 0 .. Len(w.p) : Name(w.p, j).outside = 0
WritesInside == w.step = "replied" => ~ReplyBuilt(w.heard, w.items, w.err).past
===============================================================================
