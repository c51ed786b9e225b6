------------------------------ MODULE EvbufferSearch ------------------------------
(***************************************************************************)
(* Searching an evbuffer without taking it apart: pointers into it, the    *)
(* search for a string and for an end of line, lines that are read as the  *)
(* bytes arrive, and peeking.  Bytes are spread over chains in any way     *)
(* that adding, referencing, expanding and draining can spread them.       *)
(***************************************************************************)
EXTENDS EvbufferChains

CONSTANTS
  Pieces,   \* what arrives at once: sequences of "x", "CR" and "LF"
  Whats,    \* the strings that are searched for
  Spreads   \* how a piece gets into the buffer: a subset of {"add", "reference", "expand"}

\* b: the buffer; sent: every byte that arrived; got: the lines that were read;
\* style: the kind of end of line.
VARIABLE s

Styles == {"ANY", "CRLF", "CRLF_STRICT", "LF"}
EolChars == {"CR", "LF"}
CRLF == <<"CR", "LF">>

-------------------------------------------------------------------------------
\* struct evbuffer_ptr: pos, the chain c and the place i in it.
Ptr(pos, c, i) == [pos |-> pos, c |-> c, i |-> i]
Start == Ptr(0, 1, 0)
NotFound == Ptr(-1, 0, 0)
NoPtr == Ptr(-2, 0, 0)  \* NULL

\* Where a pointer points, and the byte there.
Place(b, p) == OffUpTo(b, p.c - 1) + p.i
evbuffer_getchr(b, p) == b.ch[p.c].data[p.i + 1]

\* From p on in its chain: the first byte that is in a set (or is not, as sought),
\* or else where the next chain starts.
Scan(b, p, chars, sought) ==
  LET here == Rest(b.ch[p.c].data, p.i)
      hits == {k \in DOMAIN here : (here[k] \in chars) = sought}
      n == Least(hits) - 1
  IN  IF hits = {} THEN Ptr(p.pos + Len(here), p.c + 1, 0) ELSE Ptr(p.pos + n, p.c, p.i + n)

\* evbuffer_strchr and evbuffer_find_eol_char: the next byte of a set, one chain
\* after the other.
Seek(b, p, chars) ==
  LET seek[q \in [pos : Int, c : Nat, i : Nat]] ==
        LET r == Scan(b, q, chars, TRUE)
        IN  IF q.c > Len(b.ch) THEN NotFound ELSE IF r.c = q.c THEN r ELSE seek[r]
  IN  seek[p]

\* How many bytes of a set follow.
evbuffer_strspn(b, p, chars) ==
  LET span[q \in [pos : Int, c : Nat, i : Nat]] ==
        LET r == Scan(b, q, chars, FALSE)
        IN  IF r.c = q.c \/ r.c > Len(b.ch) THEN r.pos - p.pos ELSE span[r]
  IN  span[p]

\* The end of the buffer cannot be pointed at.  On the way i may be past the end
\* of its chain.
evbuffer_ptr_set(b, p, position, how) ==
  LET walk[q \in [pos : Int, c : Nat, i : Nat]] ==
        IF q.c > Len(b.ch) THEN NotFound
        ELSE IF q.i >= Off(b.ch[q.c]) THEN walk[Ptr(q.pos, q.c + 1, q.i - Off(b.ch[q.c]))]
        ELSE q
  IN  walk[IF how = "SET" THEN Ptr(position, 1, position)
           ELSE Ptr(p.pos + position, p.c, p.i + position)]

\* TRUE for equal; pos counts what is compared.  What is past the last chain is not.
evbuffer_ptr_memcmp(b, p, mem) ==
  LET same[q \in [pos : Int, c : Nat, i : Nat]] ==
        LET n == Least({Len(mem) - q.pos, Off(b.ch[q.c]) - q.i})
        IN  \/ q.pos = Len(mem) \/ q.c > Len(b.ch)
            \/ /\ SubSeq(b.ch[q.c].data, q.i + 1, q.i + n) = SubSeq(mem, q.pos + 1, q.pos + n)
               /\ same[Ptr(q.pos + n, q.c + 1, 0)]
  IN  p.pos + Len(mem) <= b.total /\ same[Ptr(0, p.c, p.i)]

\* One chain at a time: the first character in what is left of it, then the
\* others.  After a mismatch at its last byte the next chain is searched even if
\* this is the chain of end.
evbuffer_search_range(b, what, start, end) ==
  LET search[p \in [pos : Int, c : Nat, i : Nat]] ==
        LET q == Scan(b, p, {what[1]}, TRUE)
            after == IF q.i + 1 = Off(b.ch[p.c]) THEN Ptr(q.pos + 1, p.c + 1, 0)
                     ELSE Ptr(q.pos + 1, p.c, q.i + 1)
        IN  IF p.c > Len(b.ch) THEN NotFound
            ELSE IF q.c # p.c THEN IF p.c = end.c THEN NotFound ELSE search[q]
            ELSE IF ~evbuffer_ptr_memcmp(b, q, what) THEN search[after]
            ELSE IF end # NoPtr /\ q.pos + Len(what) > end.pos THEN NotFound ELSE q
  IN  search[IF start = NoPtr THEN Start ELSE start]

\* A CR that is not before an LF is passed over.
SeekCrlf(b, start) ==
  LET seek[p \in [pos : Int, c : Nat, i : Nat]] ==
        LET q == Seek(b, p, EolChars)
            past == evbuffer_ptr_set(b, q, 1, "ADD")
        IN  IF q = NotFound THEN [it |-> q, len |-> 0]
            ELSE IF evbuffer_getchr(b, q) = "LF" THEN [it |-> q, len |-> 1]
            ELSE IF evbuffer_ptr_memcmp(b, q, CRLF) THEN [it |-> q, len |-> 2]
            ELSE IF past = NotFound THEN [it |-> past, len |-> 0]
            ELSE seek[past]
  IN  seek[start]

\* Mutant: a CR at the end of what has arrived is taken for an end of line.
EolAtOnce(b, start, style) ==
  LET p == IF start = NoPtr THEN Start ELSE start
      q == Seek(b, p, EolChars)
  IN  IF style = "CRLF" /\ q # NotFound
      THEN [it |-> q, len |-> IF evbuffer_ptr_memcmp(b, q, CRLF) THEN 2 ELSE 1]
      ELSE [it |-> Seek(b, p, {"LF"}), len |-> 1]

\* The pointer to the end of line and how long it is.
evbuffer_search_eol(b, start, style) ==
  LET p == IF start = NoPtr THEN Start ELSE start
      Found(it, len) == [it |-> it, len |-> IF it = NotFound THEN 0 ELSE len]
      any == Seek(b, p, EolChars)
  IN  CASE style = "ANY" -> Found(any, IF any = NotFound THEN 0 ELSE evbuffer_strspn(b, any, EolChars))
        [] style = "CRLF_STRICT" -> Found(evbuffer_search_range(b, CRLF, p, NoPtr), 2)
        [] style = "CRLF" -> SeekCrlf(b, p)
        [] style = "LF" -> Found(Seek(b, p, {"LF"}), 1)

\* The extents from start on, and how many of them are reported: at most n_vec
\* are filled in.  Without a place for them, "everything" is counted from the
\* length of the buffer less the first extent.
evbuffer_peek(b, len, start, n_vec) ==
  LET first == IF start = NoPtr THEN <<>> ELSE <<Rest(b.ch[start.c].data, start.i)>>
      later == Rest(b.ch, IF start = NoPtr THEN 0 ELSE start.c)
      extents == first \o [k \in DOMAIN later |-> later[k].data]
      SoFar(k) == SumSeq([j \in 1 .. k |-> Len(extents[j])])
      wanted == IF n_vec = 0 /\ len < 0 THEN b.total - SoFar(Len(first)) ELSE len
      Stop(k) == IF wanted < 0 THEN k >= n_vec ELSE SoFar(k) >= wanted
      n == Least({k \in Len(first) .. Len(extents) : Stop(k)} \cup {Len(extents)})
  IN  [n |-> n, vec |-> First(extents, IF n < n_vec THEN n ELSE n_vec)]

-------------------------------------------------------------------------------
Init == \E style \in Styles : s = [b |-> evbuffer_new, sent |-> <<>>, got |-> <<>>, style |-> style]

Arrive(piece, how) ==
  LET b == CASE how = "add" -> evbuffer_add(s.b, piece)
             [] how = "reference" -> evbuffer_add_reference(s.b, piece)
             [] how = "expand" -> evbuffer_add(evbuffer_expand_singlechain(s.b, 2 * Len(piece)).b, piece)
  IN  /\ Len(s.sent) + Len(piece) <= MaxBytes
      /\ s' = [s EXCEPT !.b = b, !.sent = @ \o piece]

\* The line is copied and drained, then its end.
evbuffer_readln ==
  LET r == evbuffer_search_eol(s.b, NoPtr, s.style)
  IN  /\ ~s.b.fs /\ r.it # NotFound
      /\ s' = [s EXCEPT !.got = Append(@, First(Contents(s.b), r.it.pos)),
                        !.b = evbuffer_drain(evbuffer_drain(s.b, r.it.pos), r.len)]

\* The string is made contiguous.
evbuffer_find(what) ==
  LET p == evbuffer_search_range(s.b, what, NoPtr, NoPtr)
  IN  /\ p # NotFound
      /\ s' = [s EXCEPT !.b = evbuffer_pullup(s.b, p.pos + Len(what))]

Next ==
  \/ \E piece \in Pieces, how \in Spreads : Arrive(piece, how)
  \/ evbuffer_readln
  \/ \E what \in Whats : evbuffer_find(what)

-------------------------------------------------------------------------------
\* What the searches are to find, in the bytes alone: where, counted from 0, or -1.
FirstAt(d, what, from, to) ==
  LET at == {k \in from .. to - Len(what) : SubSeq(d, k + 1, k + Len(what)) = what}
  IN  IF at = {} THEN -1 ELSE Least(at)

FirstOf(d, chars, from) ==
  LET at == {k \in from .. Len(d) - 1 : d[k + 1] \in chars} IN IF at = {} THEN -1 ELSE Least(at)

Eol(d, from, style) ==
  LET lf == FirstOf(d, {"LF"}, from)
      any == FirstOf(d, EolChars, from)
      run == {k \in 0 .. Len(d) - any : \A j \in 1 .. k : d[any + j] \in EolChars}
  IN  CASE style = "LF" -> [pos |-> lf, len |-> 1]
        [] style = "CRLF_STRICT" -> [pos |-> FirstAt(d, CRLF, from, Len(d)), len |-> 2]
        [] style = "CRLF" -> IF lf > from /\ d[lf] = "CR" THEN [pos |-> lf - 1, len |-> 2]
                             ELSE [pos |-> lf, len |-> 1]
        [] style = "ANY" -> [pos |-> any, len |-> IF any = -1 THEN 0 ELSE Greatest(run)]

\* The complete lines at the front of d.
Lines(d, style) ==
  LET lines[from \in 0 .. Len(d)] ==
        LET e == Eol(d, from, style)
        IN  IF e.pos = -1 THEN <<>>
            ELSE <<SubSeq(d, from + 1, e.pos)>> \o lines[e.pos + e.len]
  IN  lines[0]

Pointers == {evbuffer_ptr_set(s.b, NoPtr, n, "SET") : n \in 0 .. s.b.total} \ {NotFound}

\* However the bytes are spread over chains, a search from any place to any place
\* finds the first occurrence and points at it, an end of line is the first of
\* its style with its whole length; and however the bytes arrive, the lines that
\* are read are those of the bytes that were sent, none split and none joined
\* (EVBUFFER_EOL_ANY excepted, which takes what has arrived).
LinesRight ==
  LET d == Contents(s.b)
  IN  /\ s.style = "LF" => \* the search does not look at it
         \A p \in Pointers : \A what \in Whats : \A end \in Pointers \cup {NoPtr} :
           LET q == evbuffer_search_range(s.b, what, p, end)
               to == IF end = NoPtr THEN Len(d) ELSE end.pos
           IN  q.pos = FirstAt(d, what, p.pos, to) /\ (q # NotFound => Place(s.b, q) = q.pos)
      /\ \A p \in Pointers :
           LET r == evbuffer_search_eol(s.b, p, s.style)
               e == Eol(d, p.pos, s.style)
           IN  /\ r.it.pos = e.pos
               /\ r.it # NotFound => r.len = e.len /\ Place(s.b, r.it) = e.pos
      /\ s.style # "ANY" => s.got \o Lines(d, s.style) = Lines(s.sent, s.style)

\* buffer.h on evbuffer_peek: "If len is negative and vec_out is not provided, we
\* return the number of evbuffer_iovecs that would be needed to get all the data".
PeekCounts ==
  \A p \in Pointers :
    LET n == evbuffer_peek(s.b, -1, p, 0).n
        all == evbuffer_peek(s.b, s.b.total - p.pos, p, Len(s.b.ch))
    IN  n = all.n
===============================================================================
