----------------------------- MODULE EvbufferChains -----------------------------
(***************************************************************************)
(* The chains of an evbuffer and what each call of buffer.c does to them,  *)
(* as operators from a buffer to a buffer.                                 *)
(*                                                                         *)
(* A chain is a block of len bytes of which mis are unused at the front    *)
(* and then those in data are used; imm marks EVBUFFER_IMMUTABLE.  A       *)
(* buffer has the list ch of its chains (first is ch[1], last the last     *)
(* one) and lwd, the position that *last_with_datap has in it: 1 is        *)
(* &buf->first, k + 1 is the next field of ch[k].  ok turns FALSE when the *)
(* code would fail an EVUTIL_ASSERT or follow a null pointer.              *)
(*                                                                         *)
(* Chains are pinned only by overlapped I/O on Windows, and allocation     *)
(* does not fail: neither is modelled.                                     *)
(***************************************************************************)
EXTENDS Integers, Sequences, FiniteSets, SequencesExt

CONSTANTS
  MIN_BUFFER_SIZE,             \* smallest allocation of a chain
  EVBUFFER_CHAIN_SIZE,         \* the part of it that the header takes
  EVBUFFER_CHAIN_MAX_AUTO_SIZE,
  MAX_TO_COPY_IN_EXPAND,
  MAX_TO_REALIGN_IN_EXPAND,
  NUM_READ_IOVEC,
  PRINTF_SPACE,                \* 64: what evbuffer_add_vprintf first asks for
  MaxBytes                     \* bound: bytes that are ever added

ASSUME EvbufferChainsAssumption ==
  /\ MIN_BUFFER_SIZE \in Nat /\ EVBUFFER_CHAIN_SIZE \in 0 .. MIN_BUFFER_SIZE - 1
  /\ NUM_READ_IOVEC \in Nat \ {0, 1} /\ MaxBytes \in Nat

-----------------------------------------------------------------------------
First(s, n) == SubSeq(s, 1, n)
Rest(s, n) == SubSeq(s, n + 1, Len(s))
Least(S) == CHOOSE x \in S : \A y \in S : x <= y
Greatest(S) == CHOOSE x \in S : \A y \in S : x >= y

SumSeq(s) ==
  LET sum[i \in 0 .. Len(s)] == IF i = 0 THEN 0 ELSE sum[i - 1] + s[i] IN sum[Len(s)]

Off(c) == Len(c.data)

CHAIN_SPACE_LEN(c) == IF c.imm THEN 0 ELSE c.len - (c.mis + Off(c))

evbuffer_chain_new(size) ==
  LET to_alloc == Least({a \in {MIN_BUFFER_SIZE * 2^i : i \in 0 .. 5} :
                           a >= size + EVBUFFER_CHAIN_SIZE})
  IN [len |-> to_alloc - EVBUFFER_CHAIN_SIZE, mis |-> 0, data |-> <<>>, imm |-> FALSE]

\* The chain, with the bytes d written to its free space.
Fill(c, d) == [c EXCEPT !.data = @ \o d]

evbuffer_new ==
  [ch |-> <<>>, lwd |-> 1, total |-> 0, nadd |-> 0, ndel |-> 0,
   fs |-> FALSE, fe |-> FALSE, ok |-> TRUE]

\* n bytes were written to the chains.
Grown(b, n) == [b EXCEPT !.total = @ + n, !.nadd = @ + n]

Asserted(b, p) == [b EXCEPT !.ok = @ /\ p]

Contents(b) == FlattenSeq([i \in DOMAIN b.ch |-> b.ch[i].data])

\* The bytes in the first k chains.
OffUpTo(b, k) == SumSeq([i \in 1 .. k |-> Off(b.ch[i])])

\* The number of leading chains that n bytes empty: empty chains count too.
Emptied(b, n) == Greatest({k \in 0 .. Len(b.ch) : OffUpTo(b, k) <= n})

evbuffer_chains_all_empty(s) == \A i \in DOMAIN s : Off(s[i]) = 0

\* The first chain from *last_with_datap on that has no data, or the end.
Victim(b) == Least({k \in b.lwd .. Len(b.ch) : Off(b.ch[k]) = 0} \cup {Len(b.ch) + 1})

evbuffer_free_trailing_empty_chains(b) ==
  LET v == Victim(b)
  IN IF v > Len(b.ch) THEN b
     ELSE Asserted([b EXCEPT !.ch = First(@, v - 1)],
                   evbuffer_chains_all_empty(Rest(b.ch, v - 1)))

evbuffer_chain_insert(b, c) ==
  LET n == Len(b.ch)
      e == evbuffer_free_trailing_empty_chains(b)
      i == IF b.lwd > n
           THEN Asserted([b EXCEPT !.ch = <<c>>], b.lwd = 1 /\ b.ch = <<>>)
           ELSE [e EXCEPT !.ch = Append(@, c),
                          !.lwd = IF Victim(b) > n /\ Off(c) > 0 THEN n + 1 ELSE @]
  IN [i EXCEPT !.total = @ + Off(c)]

\* Mutant: the pointer stays.
NoAdvance(b) == b

advance_last_with_data(b) ==
  LET n == Len(b.ch)
  IN IF b.lwd > n THEN b
     ELSE [b EXCEPT !.lwd = Greatest({k \in b.lwd .. n :
             \A j \in b.lwd + 1 .. k : Off(b.ch[j]) > 0})]

-----------------------------------------------------------------------------
(* Making space at the end. *)

evbuffer_chain_should_realign(c, n) ==
  c.len - Off(c) >= n /\ Off(c) < c.len \div 2 /\ Off(c) <= MAX_TO_REALIGN_IN_EXPAND

evbuffer_chain_align(c) == [c EXCEPT !.mis = 0]

\* The first position at or after *last_with_datap with room.
FirstWithSpace(b) ==
  IF b.lwd <= Len(b.ch) /\ CHAIN_SPACE_LEN(b.ch[b.lwd]) = 0 THEN b.lwd + 1 ELSE b.lwd

\* The buffer with n bytes of room in one chain, and which chain that is.
evbuffer_expand_singlechain(b, n) ==
  LET p == FirstWithSpace(b)
      c == b.ch[p]
      new == evbuffer_chain_insert(b, evbuffer_chain_new(n))
      insert_new == [b |-> new, at |-> Len(new.ch)]
      Use(k) == [b |-> b, at |-> k]
      With(d) == [b |-> [b EXCEPT !.ch[p] = d], at |-> p]
      r == CASE p > Len(b.ch)                       -> insert_new
             [] p <= Len(b.ch) /\ c.imm             -> insert_new
             [] OTHER ->
                IF CHAIN_SPACE_LEN(c) >= n THEN Use(p)
                ELSE IF Off(c) = 0 THEN insert_new
                ELSE IF evbuffer_chain_should_realign(c, n)
                     THEN With(evbuffer_chain_align(c))
                ELSE IF CHAIN_SPACE_LEN(c) < c.len \div 8 \/ Off(c) > MAX_TO_COPY_IN_EXPAND
                     THEN IF p < Len(b.ch) /\ CHAIN_SPACE_LEN(b.ch[p + 1]) >= n
                          THEN Use(p + 1) ELSE insert_new
                ELSE With(Fill(evbuffer_chain_new(Off(c) + n), c.data))
  IN [r EXCEPT !.b = Asserted(@, CHAIN_SPACE_LEN(@.ch[r.at]) >= n)]

\* The buffer with n bytes of room in at most k chains.
_evbuffer_expand_fast(b, n, k) ==
  LET e == Len(b.ch)
      Room(i) == IF Off(b.ch[i]) > 0 THEN CHAIN_SPACE_LEN(b.ch[i]) ELSE b.ch[i].len
      Counted(i) == {j \in b.lwd .. i : Off(b.ch[j]) = 0 \/ Room(j) > 0}
      Avail(i) == SumSeq([j \in 1 .. i - b.lwd + 1 |-> Room(b.lwd + j - 1)])
      Stop(i) == Avail(i) >= n \/ Cardinality(Counted(i)) = k
      at == Least({i \in b.lwd .. e : Stop(i)} \cup {e})
      walked == Asserted([b EXCEPT !.ch = [i \in DOMAIN @ |->
                    IF i \in b.lwd .. at /\ Off(@[i]) = 0
                    THEN evbuffer_chain_align(@[i]) ELSE @[i]]],
                  \A i \in b.lwd + 1 .. at : Off(b.ch[i]) = 0)
      last == walked.ch[b.lwd]
      room == evbuffer_chain_new(n - Avail(at))
      none_kept == Asserted([walked EXCEPT !.ch = <<evbuffer_chain_new(n)>>, !.lwd = 1],
                            b.lwd = 1 /\ evbuffer_chains_all_empty(b.ch))
      one_kept == Asserted([walked EXCEPT !.ch = Append(First(@, b.lwd),
                              evbuffer_chain_new(n - CHAIN_SPACE_LEN(last)))],
                           evbuffer_chains_all_empty(Rest(b.ch, b.lwd)))
  IN IF e = 0 \/ b.ch[e].imm THEN evbuffer_chain_insert(b, evbuffer_chain_new(n))
     ELSE IF Avail(at) >= n THEN walked
     ELSE IF Cardinality(Counted(at)) < k THEN [walked EXCEPT !.ch = Append(@, room)]
     ELSE IF Off(last) = 0 THEN none_kept ELSE one_kept

\* The extents for n bytes: the first chain and how many bytes of each.
_evbuffer_read_setup_vecs(b, n, k, exact) ==
  LET f == FirstWithSpace(b)
      Space(i) == CHAIN_SPACE_LEN(b.ch[f + i - 1])
      SoFar(i) == SumSeq([j \in 1 .. i |-> Space(j)])
      chains == Len(b.ch) - f + 1
      m == Least({i \in 0 .. chains : i = k \/ SoFar(i) >= n} \cup {chains})
  IN [first |-> f, fits |-> m = k \/ SoFar(m) >= n,
      lens |-> [i \in 1 .. m |-> IF exact /\ SoFar(i) > n THEN n - SoFar(i - 1)
                                 ELSE Space(i)]]

\* The chains of b, with the first bytes of d in the chain f, the next in f + 1 and
\* so on: n[i] bytes in the i-th of them.
Spread(b, f, n, d) ==
  LET Before(i) == SumSeq(First(n, i - 1))
  IN [b EXCEPT !.ch = [k \in DOMAIN @ |->
        IF k - f + 1 \in DOMAIN n
        THEN Fill(@[k], SubSeq(d, Before(k - f + 1) + 1, Before(k - f + 1) + n[k - f + 1]))
        ELSE @[k]]]

-----------------------------------------------------------------------------
(* Adding bytes. *)

evbuffer_add(b0, d) ==
  LET n == Len(d)
      b == IF b0.ch = <<>> THEN evbuffer_chain_insert(b0, evbuffer_chain_new(n)) ELSE b0
      e == Len(b.ch)
      c == b.ch[e]
      remain == CHAIN_SPACE_LEN(c)
      twice == IF c.len <= EVBUFFER_CHAIN_MAX_AUTO_SIZE \div 2 THEN 2 * c.len ELSE c.len
      tmp == evbuffer_chain_new(Greatest({twice, n}))
      part == Grown([b EXCEPT !.ch[e] = Fill(@, First(d, remain))], remain)
      more == evbuffer_chain_insert(part, Fill(tmp, Rest(d, remain)))
  IN IF ~c.imm /\ remain >= n THEN Grown([b EXCEPT !.ch[e] = Fill(@, d)], n)
     ELSE IF ~c.imm /\ evbuffer_chain_should_realign(c, n)
     THEN Grown([b EXCEPT !.ch[e] = Fill(evbuffer_chain_align(@), d)], n)
     ELSE [more EXCEPT !.nadd = @ + n - remain]

evbuffer_prepend(b0, d) ==
  LET n == Len(d)
      b == IF b0.ch = <<>> THEN evbuffer_chain_insert(b0, evbuffer_chain_new(n)) ELSE b0
      c == IF ~b.ch[1].imm /\ Off(b.ch[1]) = 0
           THEN [b.ch[1] EXCEPT !.mis = b.ch[1].len] ELSE b.ch[1]
      part == IF c.imm THEN 0 ELSE IF c.mis < n THEN c.mis ELSE n
      fit == Grown([b EXCEPT !.ch[1] = [c EXCEPT !.data = Rest(d, n - part) \o @,
                                                 !.mis = @ - part]], part)
      tmp == evbuffer_chain_new(n - part)
  IN IF ~c.imm /\ part = n THEN fit
     ELSE [fit EXCEPT !.ch = <<[tmp EXCEPT !.data = First(d, n - part),
                                           !.mis = tmp.len - (n - part)]>> \o @,
                      !.lwd = @ + 1,
                      !.total = @ + n - part,
                      !.nadd = @ + fit.ch[1].mis]

\* A chain whose bytes belong to the caller, or to a file of which skip are unused.
ImmutableChain(d, skip) ==
  [len |-> skip + Len(d), mis |-> skip, data |-> d, imm |-> TRUE]

evbuffer_add_reference(b, d) ==
  LET i == evbuffer_chain_insert(b, ImmutableChain(d, 0))
  IN [i EXCEPT !.nadd = @ + Len(d)]

evbuffer_add_vprintf(b, d) ==
  LET n == Len(d)
      some == evbuffer_expand_singlechain(b, PRINTF_SPACE)
      r == IF n < CHAIN_SPACE_LEN(some.b.ch[some.at]) THEN some
           ELSE evbuffer_expand_singlechain(some.b, n + 1)
  IN advance_last_with_data(Grown([r.b EXCEPT !.ch[r.at] = Fill(@, d)], n))

\* readv puts d in the extents; the chain that takes the last byte is the last with data.
evbuffer_read(b, howmuch, d) ==
  LET e == _evbuffer_expand_fast(b, howmuch, NUM_READ_IOVEC)
      v == _evbuffer_read_setup_vecs(e, howmuch, NUM_READ_IOVEC, TRUE)
      SoFar(i) == SumSeq(First(v.lens, i))
      n == Len(d)
      full == Least({i \in DOMAIN v.lens : SoFar(i) >= n})
      lens == [i \in 1 .. full |-> IF i = full THEN n - SoFar(i - 1) ELSE v.lens[i]]
  IN IF n = 0 \/ ~v.fits THEN Asserted(e, v.fits)
     ELSE Grown([Spread(e, v.first, lens, d) EXCEPT !.lwd = v.first + full - 1], n)

\* The buffer with space reserved in k extents, and the extents.
evbuffer_reserve_space(b, n, k) ==
  LET one == evbuffer_expand_singlechain(b, n)
      e == _evbuffer_expand_fast(b, n, k)
      v == _evbuffer_read_setup_vecs(e, n, k, FALSE)
  IN IF k = 1
     THEN [b |-> one.b, first |-> one.at, lens |-> <<CHAIN_SPACE_LEN(one.b.ch[one.at])>>]
     ELSE [b |-> Asserted(e, v.fits), first |-> v.first, lens |-> v.lens]

\* Whether evbuffer_commit_space takes the first k of the extents that start at chain f.
CommitIsSafe(b, f, k) ==
  \/ k = 1 /\ f = Len(b.ch)
  \/ b.lwd <= Len(b.ch) /\ f = FirstWithSpace(b) /\ f + k - 1 <= Len(b.ch)

evbuffer_commit_space(b, f, lens, d) ==
  LET k == Len(lens)
      s == Grown(Spread(b, f, lens, d), Len(d))
      used == {i \in 1 .. k : lens[i] > 0}
  IN IF ~CommitIsSafe(b, f, k) THEN b
     ELSE IF k = 1 /\ f = Len(b.ch)
     THEN IF used = {} THEN s ELSE advance_last_with_data(s)
     ELSE [s EXCEPT !.lwd = IF used = {} THEN @ ELSE f + Greatest(used) - 1]

-----------------------------------------------------------------------------
(* Taking and moving bytes. *)

ZERO_CHAIN(b) == [b EXCEPT !.ch = <<>>, !.lwd = 1, !.total = 0]

\* Mutant: the last bytes go instead.
DropBack(c, n) == [c EXCEPT !.data = First(@, Len(@) - n)]

\* The chain without its first n bytes.
DropFront(c, n) == [c EXCEPT !.data = Rest(@, n), !.mis = @ + n]

\* Mutant: n_del_for_cb is not raised when everything goes.
DrainUncounted(b, n) ==
  IF n >= b.total THEN ZERO_CHAIN(b)
  ELSE [b EXCEPT !.ch = <<DropFront(@[Emptied(b, n) + 1], n - OffUpTo(b, Emptied(b, n)))>>
                        \o Rest(@, Emptied(b, n) + 1),
                 !.lwd = IF @ <= Emptied(b, n) + 1 THEN 1 ELSE @ - Emptied(b, n),
                 !.total = @ - n, !.ndel = @ + n]

evbuffer_drain(b, n) ==
  LET r == Emptied(b, n)
      cut == [b EXCEPT !.ch = <<DropFront(@[r + 1], n - OffUpTo(b, r))>> \o Rest(@, r + 1),
                       !.lwd = IF @ <= r + 1 THEN 1 ELSE @ - r,
                       !.total = @ - n]
  IN IF b.total = 0 THEN b
     ELSE IF n >= b.total THEN [ZERO_CHAIN(b) EXCEPT !.ndel = @ + b.total]
     ELSE [cut EXCEPT !.ndel = @ + n]

\* The two buffers after evbuffer_add_buffer(out, in), for an in that is not empty.
evbuffer_add_buffer(out, in) ==
  LET copied == [out EXCEPT !.ch = in.ch, !.lwd = in.lwd, !.total = in.total]
      appended == [out EXCEPT !.ch = @ \o in.ch, !.lwd = Len(out.ch) + in.lwd,
                              !.total = @ + in.total]
  IN [out |-> [(IF out.total = 0 THEN copied ELSE appended) EXCEPT !.nadd = @ + in.total],
      in |-> [ZERO_CHAIN(in) EXCEPT !.ndel = @ + in.total]]

evbuffer_prepend_buffer(out, in) ==
  LET copied == [out EXCEPT !.ch = in.ch, !.lwd = in.lwd, !.total = in.total]
      prepended == [out EXCEPT !.ch = in.ch \o @,
                      !.lwd = IF @ > Len(out.ch) THEN in.lwd ELSE Len(in.ch) + @,
                      !.total = @ + in.total]
  IN [out |-> [(IF out.total = 0 THEN copied ELSE prepended) EXCEPT !.nadd = @ + in.total],
      in |-> [ZERO_CHAIN(in) EXCEPT !.ndel = @ + in.total]]

\* src and dst after n bytes, fewer than src has, moved to the end of dst: whole
\* chains are relinked and the rest is copied.
evbuffer_remove_buffer(src, dst, n) ==
  LET r == Emptied(src, n)
      nread == OffUpTo(src, r)
      rest == n - nread
      kept == evbuffer_free_trailing_empty_chains(dst)
      linked == IF nread = 0 THEN dst
                ELSE Grown(advance_last_with_data(
                             [kept EXCEPT !.ch = @ \o First(src.ch, r)]), nread)
      s == Asserted([src EXCEPT !.lwd = IF @ \in 2 .. r + 1 THEN 1
                                        ELSE IF nread > 0 /\ @ > 1 THEN @ - r ELSE @],
                    ~(src.lwd = 1 /\ r > 0))
      gone == IF nread = 0 THEN 0 ELSE r
  IN [dst |-> evbuffer_add(linked, First(src.ch[r + 1].data, rest)),
      src |-> [s EXCEPT !.ch = Rest([@ EXCEPT ![r + 1] = DropFront(@, rest)], gone),
                        !.total = @ - n,
                        !.ndel = @ + n]]

evbuffer_pullup(b, n) ==
  LET c == b.ch[1]
      r == Emptied(b, n)
      d == First(Contents(b), n)
      tmp == IF c.len - c.mis >= n THEN [c EXCEPT !.data = d]
             ELSE Fill(evbuffer_chain_new(n), d)
      tail == IF r = Len(b.ch) THEN <<>>
              ELSE <<DropFront(b.ch[r + 1], n - OffUpTo(b, r))>> \o Rest(b.ch, r + 1)
      emptied == tail = <<>> \/ Off(tail[1]) = 0
  IN IF n = 0 \/ n > b.total \/ Off(c) >= n THEN b
     ELSE [b EXCEPT !.ch = <<tmp>> \o tail,
                    !.lwd = IF @ <= r \/ (@ = r + 1 /\ emptied) THEN 1 ELSE @ - r + 1]
=================================================================================
