---------------------------------- MODULE Tagging ----------------------------------
(***************************************************************************)
(* event_tagging.c: tagged values in an evbuffer.  A writer marshals       *)
(* values; the bytes arrive piece by piece; a reader peeks at the tag,     *)
(* waits until the whole entry is there, and unmarshals it as the kind     *)
(* that goes with the tag, or consumes it when it does not know the tag.   *)
(***************************************************************************)
EXTENDS Integers, Sequences, SequencesExt

CONSTANTS
  KindOf,     \* the kind of value for each tag
  Values,     \* the values of each kind
  MaxEntries  \* how many entries are written

\* sent: all that was written; wire: bytes on their way; buf: bytes that arrived;
\* got: what was read; lost: the reader gave up.
VARIABLE tg

Tag == DOMAIN KindOf
NoBytes == -1

-------------------------------------------------------------------------------
\* The number of hexadecimal digits of n, at least one, and the one at place i.
Nibbles(n) == CHOOSE c \in 1 .. 8 : (c = 1 \/ n \div 16^(c - 1) > 0) /\ (c = 8 \/ n \div 16^c = 0)
Nibble(n, i) == (n \div 16^(i - 1)) % 16

\* The number of digits less one, then the digits from the lowest to the
\* highest, then padding.
encode_int_internal(n) ==
  LET c == Nibbles(n)
      at(i) == IF i = 0 THEN c - 1 ELSE IF i > c THEN 0 ELSE Nibble(n, i)
  IN  [b \in 1 .. c \div 2 + 1 |-> 16 * at(2 * b - 2) + at(2 * b - 1)]

evtag_encode_tag(tag) ==
  LET n == CHOOSE i \in 1 .. 5 : (i = 1 \/ tag \div 128^(i - 1) > 0) /\ (i = 5 \/ (i < 5 /\ tag \div 128^i = 0))
  IN  [i \in 1 .. n |-> ((tag \div 128^(i - 1)) % 128) + (IF i < n THEN 128 ELSE 0)]

\* The value and how many bytes it took, or NoBytes.
decode_tag_internal(buf) ==
  LET ends == {i \in DOMAIN buf : buf[i] < 128}
      n == CHOOSE i \in ends : \A j \in ends : i <= j
  IN  IF ends = {} THEN [len |-> NoBytes, val |-> 0]
      ELSE [len |-> n, val |-> FoldRight(LAMBDA b, acc : 128 * acc + (b % 128), SubSeq(buf, 1, n), 0)]

decode_int_internal(buf, offset, maxnibbles) ==
  LET len == Len(buf) - offset
      nibbles == buf[offset + 1] \div 16 + 1
      at(i) == IF i % 2 = 1 THEN buf[offset + i \div 2 + 1] % 16 ELSE buf[offset + i \div 2 + 1] \div 16
      number[i \in 1 .. nibbles + 1] == IF i > nibbles THEN 0 ELSE 16 * number[i + 1] + at(i)
  IN  IF len <= 0 THEN [len |-> NoBytes, val |-> 0]
      ELSE IF nibbles > maxnibbles \/ nibbles \div 2 + 1 > len THEN [len |-> NoBytes, val |-> 0]
      ELSE [len |-> nibbles \div 2 + 1, val |-> number[1]]

Width(kind) == IF kind = "int64" THEN 16 ELSE 8

-------------------------------------------------------------------------------
\* What is inside of an entry: an integer, two of them, or the bytes themselves.
Payload(kind, v) ==
  CASE kind \in {"int", "int64"} -> encode_int_internal(v)
    [] kind = "timeval" -> encode_int_internal(v[1]) \o encode_int_internal(v[2])
    [] OTHER -> v

evtag_marshal(tag, v) ==
  LET data == Payload(KindOf[tag], v)
  IN  evtag_encode_tag(tag) \o encode_int_internal(Len(data)) \o data

Drained(buf, n) == SubSeq(buf, n + 1, Len(buf))

\* The tag and the length are drained, also when the payload is not there yet.
evtag_unmarshal_header(buf) ==
  LET t == decode_tag_internal(buf)
      rest == Drained(buf, t.len)
      l == decode_int_internal(rest, 0, 8)
      data == Drained(rest, l.len)
  IN  IF t.len = NoBytes THEN [len |-> NoBytes, tag |-> 0, buf |-> buf]
      ELSE IF l.len = NoBytes THEN [len |-> NoBytes, tag |-> t.val, buf |-> rest]
      ELSE [len |-> IF Len(data) < l.val THEN NoBytes ELSE l.val, tag |-> t.val, buf |-> data]

\* The length of the whole entry, or of its payload.
evtag_peek_length(buf) ==
  LET t == decode_tag_internal(buf)
      l == decode_int_internal(buf, t.len, 8)
  IN  IF t.len = NoBytes \/ l.len = NoBytes THEN NoBytes ELSE l.val + l.len + t.len

evtag_payload_length(buf) ==
  LET t == decode_tag_internal(buf)
      l == decode_int_internal(buf, t.len, 8)
  IN  IF t.len = NoBytes \/ l.len = NoBytes THEN NoBytes ELSE l.val

\* An integer has to be within its payload.
Number(h, kind) ==
  LET n == decode_int_internal(h.buf, 0, Width(kind))
  IN  [ok |-> n.len # NoBytes /\ n.len <= h.len, val |-> n.val]

Timeval(h) ==
  LET sec == decode_int_internal(h.buf, 0, 8)
      usec == decode_int_internal(h.buf, sec.len, 8)
  IN  IF sec.len = NoBytes \/ usec.len = NoBytes THEN [ok |-> FALSE, val |-> <<0, 0>>]
      ELSE [ok |-> sec.len + usec.len <= h.len, val |-> <<sec.val, usec.val>>]

\* The reader gives the tag it needs, and for "fixed" the length.
evtag_unmarshal(buf, need) ==
  LET h == evtag_unmarshal_header(buf)
      kind == KindOf[need]
      r == CASE kind \in {"int", "int64"} -> Number(h, kind)
             [] kind = "timeval" -> Timeval(h)
             [] OTHER -> [ok |-> TRUE, val |-> SubSeq(h.buf, 1, h.len)]
  IN  IF h.len = NoBytes \/ h.tag # need THEN [ok |-> FALSE, val |-> 0, buf |-> h.buf]
      ELSE [ok |-> r.ok, val |-> r.val, buf |-> Drained(h.buf, h.len)]

-------------------------------------------------------------------------------
Init == tg = [sent |-> <<>>, wire |-> <<>>, buf |-> <<>>, got |-> <<>>, lost |-> FALSE]

Marshal(tag, v) ==
  /\ Len(tg.sent) < MaxEntries /\ v \in Values[KindOf[tag]]
  /\ tg' = [tg EXCEPT !.sent = Append(@, [tag |-> tag, val |-> v]), !.wire = @ \o evtag_marshal(tag, v)]

Arrive(n) ==
  /\ n \in 1 .. Len(tg.wire)
  /\ tg' = [tg EXCEPT !.wire = Drained(@, n), !.buf = @ \o SubSeq(tg.wire, 1, n)]

Complete == evtag_peek_length(tg.buf) # NoBytes /\ evtag_peek_length(tg.buf) <= Len(tg.buf)

Unmarshal ==
  LET tag == decode_tag_internal(tg.buf).val
      r == evtag_unmarshal(tg.buf, tag)
  IN  /\ Complete /\ ~tg.lost
      /\ tg' = IF tag \notin Tag THEN [tg EXCEPT !.lost = TRUE]
               ELSE [tg EXCEPT !.buf = r.buf, !.lost = ~r.ok,
                               !.got = Append(@, [tag |-> tag, val |-> r.val])]

\* An entry that is not wanted is noted by its tag and the length of its payload.
evtag_consume ==
  LET h == evtag_unmarshal_header(tg.buf)
  IN  /\ Complete /\ ~tg.lost
      /\ tg' = IF h.len = NoBytes THEN [tg EXCEPT !.buf = h.buf, !.lost = TRUE]
               ELSE [tg EXCEPT !.buf = Drained(h.buf, h.len),
                               !.got = Append(@, [tag |-> h.tag, skipped |-> evtag_payload_length(tg.buf)])]

Next ==
  \/ \E tag \in Tag : \E v \in Values[KindOf[tag]] : Marshal(tag, v)
  \/ \E n \in 1 .. 16 : Arrive(n)
  \/ Unmarshal \/ evtag_consume

-------------------------------------------------------------------------------
Agrees(e, w) ==
  /\ e.tag = w.tag
  /\ IF "val" \in DOMAIN e THEN e.val = w.val ELSE e.skipped = Len(Payload(KindOf[w.tag], w.val))

\* However the bytes arrive, and whichever entries are skipped, the reader who
\* waits for what evtag_peek_length announces gets what was written, in order and
\* without an error; and when all bytes have arrived no entry is held back.
TagsRead ==
  /\ ~tg.lost
  /\ Len(tg.got) <= Len(tg.sent)
  /\ \A i \in DOMAIN tg.got : Agrees(tg.got[i], tg.sent[i])
  /\ tg.wire = <<>> /\ ~Complete => tg.buf = <<>> /\ Len(tg.got) = Len(tg.sent)

\* The comment on the wire format: the tag is taken by concatenating the low
\* bits of its bytes, so that 0x166 is encoded as [82 66].
DocumentedTag ==
  \A tag \in Tag :
    LET b == evtag_encode_tag(tag)
    IN  FoldLeft(LAMBDA acc, x : 128 * acc + (x % 128), 0, b) = tag
===============================================================================
