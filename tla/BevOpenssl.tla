-------------------------------- MODULE BevOpenssl --------------------------------
(***************************************************************************)
(* bufferevent_openssl.c: a bufferevent that speaks SSL, on a socket or on *)
(* an underlying bufferevent.  OpenSSL is external: a call of it does what *)
(* the data at hand allows, except for one call of a step (odd), which may *)
(* be blocked on the other direction or fail.  A record has two bytes.     *)
(* Timeouts, references and deferred callbacks are those of Bufferevent.   *)
(***************************************************************************)
EXTENDS Integers, FiniteSets

CONSTANTS MaxRecords,  \* bound of what is on its way, and of the output
          OHigh,       \* the high marks of the input that may be set on a socket
          SslMay       \* what the code does not handle: "open_socket", a socket that
                       \* is said to be open from the start; "suspended", a new
                       \* handshake while the underlying one is suspended

VARIABLE o

Dirs == {"r", "w"}
NotOdd == [at |-> 0, what |-> "none", space |-> 2, bw |-> FALSE]

\* net: records that SSL has not read, in the kernel or in the underlying input;
\* pend: bytes that it has decrypted; uout: records in the underlying output,
\* with the high mark whigh; usus: BEV_SUSPEND_FILT_READ of the underlying one.
\* res, calls and odd are of the step; go: the loop goes on.
NewSsl(on, state) ==
  [on |-> on, life |-> "live", state |-> state, fd |-> on = "socket",
   en |-> IF on = "socket" THEN Dirs ELSE {"w"}, sus |-> [d \in Dirs |-> {}],
   ev |-> IF on # "socket" THEN {} ELSE IF state = "open" THEN {"w"} ELSE Dirs, rbow |-> FALSE, wbor |-> FALSE, last |-> FALSE,
   in |-> 0, out |-> 0, high |-> 0, net |-> 0, pend |-> 0, uout |-> 0, whigh |-> 0,
   usus |-> on # "socket" /\ state = "open", closed |-> FALSE, spin |-> FALSE,
   res |-> {}, calls |-> 0, odd |-> NotOdd, go |-> TRUE]

Filter(x) == x.on = "underlying"
On(x, d)  == d \in x.en /\ x.sus[d] = {}

start_reading(x) ==
  IF Filter(x) THEN [x EXCEPT !.usus = FALSE]
  ELSE [x EXCEPT !.ev = @ \cup {"r"} \cup (IF x.rbow THEN {"w"} ELSE {})]

start_writing(x) ==
  IF Filter(x) THEN x
  ELSE [x EXCEPT !.ev = @ \cup {"w"} \cup (IF x.wbor THEN {"r"} ELSE {})]

stop_reading(x) ==
  IF x.wbor THEN x
  ELSE IF Filter(x) THEN [x EXCEPT !.usus = TRUE] ELSE [x EXCEPT !.ev = @ \ {"r"}]

stop_writing(x) == IF x.rbow \/ Filter(x) THEN x ELSE [x EXCEPT !.ev = @ \ {"w"}]

set_rbow(x) == start_writing([(IF Filter(x) THEN x ELSE stop_reading(x)) EXCEPT !.rbow = TRUE])
set_wbor(x) == start_reading([(IF Filter(x) THEN x ELSE stop_writing(x)) EXCEPT !.wbor = TRUE])

StopWritingIfOff(x) == IF "w" \in x.en THEN x ELSE stop_writing(x)
StopReadingIfOff(x) == IF "r" \in x.en THEN x ELSE stop_reading(x)
ReadingIfOn(x) == IF "r" \in x.en THEN start_reading(x) ELSE x
WritingIfOn(x) == IF "w" \in x.en THEN start_writing(x) ELSE x

\* Mutant of clear_rbow: reading does not start again.
ClearRbowOnly(x) == StopWritingIfOff([x EXCEPT !.rbow = FALSE])

clear_rbow(x) == ReadingIfOn(StopWritingIfOff([x EXCEPT !.rbow = FALSE]))
clear_wbor(x) == WritingIfOn(StopReadingIfOff([x EXCEPT !.wbor = FALSE]))

conn_closed(x) == [stop_writing(stop_reading(x)) EXCEPT !.closed = TRUE]

\* be_openssl_disable; the bucket of direction d may be empty after a call.
be_openssl_disable(x, E) ==
  LET y == IF "r" \in E THEN stop_reading(x) ELSE x
  IN  IF x.state # "open" THEN x ELSE IF "w" \in E THEN stop_writing(y) ELSE y

Suspend(x, d, why) ==
  [(IF x.sus[d] = {} THEN be_openssl_disable(x, {d}) ELSE x) EXCEPT !.sus[d] = @ \cup {why}]

decrement_buckets(x, d) == IF x.odd.bw THEN Suspend(x, d, "BW") ELSE x

-------------------------------------------------------------------------------
\* What SSL_read, SSL_write and SSL_do_handshake return.  bio_bufferevent_read
\* has nothing without a record, and bio_bufferevent_write no room at the mark.
\* SSL without a descriptor fails.
IsOdd(x) == x.calls + 1 = x.odd.at
NoRoom(x) == Filter(x) /\ x.whigh # 0 /\ x.uout >= x.whigh
CanWantWrite(x) == Filter(x) => NoRoom(x)
IsClosed(x) == (~Filter(x) /\ ~x.fd) \/ (IsOdd(x) /\ x.odd.what = "closed")

SSL_read(x) ==
  IF x.pend > 0 THEN "data"
  ELSE IF IsClosed(x) THEN "closed"
  ELSE IF IsOdd(x) /\ x.odd.what = "WANT_WRITE" /\ CanWantWrite(x) THEN "WANT_WRITE"
  ELSE IF x.net = 0 THEN "WANT_READ" ELSE "data"

SSL_write(x) ==
  IF IsClosed(x) THEN "closed"
  ELSE IF IsOdd(x) /\ x.odd.what = "WANT_READ" /\ x.net = 0 THEN "WANT_READ"
  ELSE IF NoRoom(x) \/ (IsOdd(x) /\ x.odd.what = "WANT_WRITE" /\ ~Filter(x)) THEN "WANT_WRITE"
  ELSE "sent"

SSL_do_handshake(x) ==
  IF IsClosed(x) THEN "closed"
  ELSE IF IsOdd(x) /\ x.odd.what = "WANT_WRITE" /\ CanWantWrite(x) THEN "WANT_WRITE"
  ELSE IF x.net = 0 THEN "WANT_READ" ELSE "done"

Got(x) ==
  LET have == IF x.pend > 0 THEN x.pend ELSE 2
      n == IF x.odd.space < have THEN x.odd.space ELSE have
  IN  [x EXCEPT !.net = IF x.pend > 0 THEN @ ELSE @ - 1, !.pend = have - n, !.in = @ + n]

\* evbuffer_commit_space, with bufferevent_inbuf_wm_cb.
UnsuspendWM(x) ==
  LET y == [x EXCEPT !.sus["r"] = @ \ {"WM"}]
  IN  IF On(y, "r") /\ x.state = "open" THEN start_reading(y) ELSE y

Committed(x) ==
  IF x.high = 0 THEN x ELSE IF x.in >= x.high THEN Suspend(x, "r", "WM") ELSE UnsuspendWM(x)

ClearR(x) == IF x.rbow THEN clear_rbow(x) ELSE x
ClearW(x) == IF x.wbor THEN clear_wbor(x) ELSE x
Res(x, res) == [x EXCEPT !.res = res, !.calls = @ + 1]

do_read(x) ==
  IF x.sus["r"] # {} THEN [x EXCEPT !.res = {}]
  ELSE CASE SSL_read(x) = "data" ->
              Res(Committed(decrement_buckets(ClearR(Got(x)), "r")), {"PROGRESS"})
         [] SSL_read(x) = "WANT_READ" -> Res(ClearR(x), {"BLOCKED"})
         [] SSL_read(x) = "WANT_WRITE" -> Res(IF x.rbow THEN x ELSE set_rbow(x), {"BLOCKED"})
         [] SSL_read(x) = "closed" -> Res(conn_closed(x), {"BLOCKED"})

Sent(x) == [x EXCEPT !.out = @ - 1, !.last = FALSE, !.uout = IF Filter(x) THEN @ + 1 ELSE @]

do_write(x) ==
  IF x.sus["w"] # {} \/ x.out = 0 THEN [x EXCEPT !.res = {}]
  ELSE CASE SSL_write(x) = "sent" -> Res(decrement_buckets(Sent(ClearW(x)), "w"), {"PROGRESS"})
         [] SSL_write(x) = "WANT_WRITE" -> Res([ClearW(x) EXCEPT !.last = TRUE], {"BLOCKED"})
         [] SSL_write(x) = "WANT_READ" ->
              Res([(IF x.wbor THEN x ELSE set_wbor(x)) EXCEPT !.last = TRUE], {"BLOCKED"})
         [] SSL_write(x) = "closed" -> Res([conn_closed(x) EXCEPT !.last = FALSE], {"BLOCKED"})

\* The loops `while blocked`: progress ends them, and so does being blocked; an
\* operation that does nothing, for it is suspended, keeps them going for ever.
Unblocked(x, stillBlocked) == [x EXCEPT !.spin = stillBlocked /\ x.res = {}]
WriteTillUnblocked(x) == IF x.wbor THEN Unblocked(do_write(x), do_write(x).wbor) ELSE x
ReadTillUnblocked(x)  == IF x.rbow THEN Unblocked(do_read(x), do_read(x).rbow) ELSE x

\* bytes_to_read # 0.
MayRead(x) == ~x.wbor /\ On(x, "r") /\ (x.high = 0 \/ x.in < x.high)

Rounds(Step(_), x) ==
  LET after[k \in 0 .. 2 * MaxRecords + 2] == IF k = 0 THEN x ELSE Step(after[k - 1])
  IN  after[2 * MaxRecords + 2]

\* Another round if SSL has something, or the underlying one may have.
ReadAgain(x) ==
  [x EXCEPT !.go = /\ "BLOCKED" \notin x.res /\ x.sus["r"] = {}
                   /\ x.pend > 0 \/ (Filter(x) /\ MayRead(x))]
ReadRound(x) == IF x.go THEN ReadAgain(do_read(x)) ELSE x

AvoidReadLoop(x)  == IF Filter(x) \/ On(x, "r") THEN x ELSE [x EXCEPT !.ev = @ \ {"r"}]
AvoidWriteLoop(x) ==
  IF Filter(x) \/ (On(x, "w") /\ x.out > 0) THEN x ELSE [x EXCEPT !.ev = @ \ {"w"}]

ThenRead(x) ==
  IF x.wbor \/ x.spin THEN x
  ELSE AvoidReadLoop(Rounds(ReadRound, [x EXCEPT !.go = MayRead(x)]))

consider_reading(x) == ThenRead(WriteTillUnblocked(x))

WriteRound(x) ==
  IF On(x, "w") /\ x.out > 0 /\ ~NoRoom(x) /\ x.go
    THEN [do_write(x) EXCEPT !.go = "BLOCKED" \notin do_write(x).res] ELSE x

ThenWrite(x) ==
  IF x.rbow \/ x.spin THEN x
  ELSE AvoidWriteLoop(Rounds(WriteRound, [x EXCEPT !.go = TRUE]))

consider_writing(x) == ThenWrite(ReadTillUnblocked(x))

-------------------------------------------------------------------------------
EnableR(x, E) == IF "r" \in E THEN start_reading(x) ELSE x
EnableW(x, E) == IF "w" \in E THEN start_writing(x) ELSE x
ConsiderR(x, E) == IF "r" \in E THEN consider_reading(x) ELSE x
ConsiderW(x, E) == IF "w" \in E /\ ~x.spin THEN consider_writing(x) ELSE x

be_openssl_enable(x, E) ==
  IF x.state # "open" THEN x
  ELSE IF Filter(x) THEN ConsiderW(ConsiderR(EnableW(EnableR(x, E), E), E), E)
  ELSE EnableW(EnableR(x, E), E)

bufferevent_enable(x, E) ==
  be_openssl_enable([x EXCEPT !.en = @ \cup E], {d \in E : x.sus[d] = {}})

Unsuspend(x, d, why) ==
  LET y == [x EXCEPT !.sus[d] = @ \ {why}]
  IN  IF On(y, d) THEN be_openssl_enable(y, {d}) ELSE y

\* set_open_callbacks keeps the events that are pending, and adds none.
set_open_callbacks(x) == [x EXCEPT !.fd = ~Filter(x)]
Opened(x) ==
  bufferevent_enable(set_open_callbacks([x EXCEPT !.state = "open", !.net = @ - 1]), x.en)

do_handshake(x) ==
  LET r == SSL_do_handshake(x)
      y == Res(x, {})
  IN  CASE r = "done" -> Opened(y)
        [] r = "closed" -> conn_closed(y)
        [] r = "WANT_WRITE" -> IF Filter(x) THEN y ELSE start_writing(stop_reading(y))
        [] r = "WANT_READ"  -> IF Filter(x) THEN y ELSE start_reading(stop_writing(y))

set_handshake_callbacks(x) ==
  IF Filter(x) THEN do_handshake(x) ELSE [x EXCEPT !.ev = IF x.fd THEN Dirs ELSE @]

\* BEV_CTRL_SET_FD.
be_openssl_ctrl(x) ==
  IF x.state = "open" THEN set_open_callbacks(x)
  ELSE set_handshake_callbacks([x EXCEPT !.fd = TRUE])

bufferevent_ssl_renegotiate(x) ==
  LET y == set_handshake_callbacks([x EXCEPT !.state = "handshake"])
  IN  IF Filter(x) THEN y ELSE do_handshake(y)

be_openssl_outbuf_cb(x) ==
  LET first == x.out = 1 /\ ~Filter(x)
  IN  IF x.state # "open" THEN x
      ELSE consider_writing(IF first THEN [x EXCEPT !.ev = @ \cup {"w"}] ELSE x)

be_openssl_destruct(x) == [x EXCEPT !.life = "freed", !.usus = FALSE, !.ev = {}]

\* The callbacks that are set: for the handshake, or be_openssl_readcb and
\* be_openssl_writecb, or those of the events.
ReadCallback(x)  == IF x.state = "open" THEN consider_reading(x) ELSE do_handshake(x)
WriteCallback(x) == IF x.state = "open" THEN consider_writing(x) ELSE do_handshake(x)

-------------------------------------------------------------------------------
Init ==
  \E on \in {"socket", "underlying"}, state \in {"open", "handshake"}, fd \in BOOLEAN, m \in {0, 1} :
    /\ on = "socket" => m = 0 /\ (state = "open" => "open_socket" \in SslMay)
    /\ o = [NewSsl(on, state) EXCEPT !.fd = fd /\ on = "socket", !.whigh = m,
                                     !.ev = IF fd THEN @ ELSE {}]

Odds ==
  [at : {1, 2}, what : {"WANT_READ", "WANT_WRITE", "closed"}, space : {2}, bw : {FALSE}]
  \cup {NotOdd, [NotOdd EXCEPT !.space = 1], [NotOdd EXCEPT !.bw = TRUE]}

\* A step of the code with an odd call in it.
Step(F(_), odd) ==
  LET y == F([o EXCEPT !.odd = odd, !.calls = 0, !.res = {}])
  IN  o' = [y EXCEPT !.odd = NotOdd, !.calls = 0, !.res = {}, !.go = TRUE]

Alive == o.life = "live" /\ ~o.spin

ReadEvent(odd)  == o.on = "socket" /\ o.fd /\ "r" \in o.ev /\ o.net > 0 /\ Step(ReadCallback, odd)
WriteEvent(odd) == o.on = "socket" /\ o.fd /\ "w" \in o.ev /\ Step(WriteCallback, odd)

\* The underlying one has read or written something.
UnderlyingReads(odd) ==
  /\ o.on = "underlying" /\ ~o.usus /\ o.net < MaxRecords
  /\ Step(LAMBDA x : ReadCallback([x EXCEPT !.net = @ + 1]), odd)
UnderlyingWrites(odd) ==
  /\ o.on = "underlying" /\ o.uout > 0
  /\ Step(LAMBDA x : IF x.uout = 1 THEN WriteCallback([x EXCEPT !.uout = 0])
                     ELSE [x EXCEPT !.uout = @ - 1], odd)

Writes(odd) ==
  o.out + o.uout < MaxRecords /\ Step(LAMBDA x : be_openssl_outbuf_cb([x EXCEPT !.out = @ + 1]), odd)
Enables(d, odd) == Step(LAMBDA x : bufferevent_enable(x, {d}), odd)
Refills(d, odd) == "BW" \in o.sus[d] /\ Step(LAMBDA x : Unsuspend(x, d, "BW"), odd)
Renegotiates(odd) ==
  /\ o.state = "open" /\ (o.usus => "suspended" \in SslMay)
  /\ Step(bufferevent_ssl_renegotiate, odd)

Quiet(F(_)) == Step(F, NotOdd)
SetFd == o.on = "socket" /\ ~o.fd /\ Quiet(be_openssl_ctrl)
Arrives == o.on = "socket" /\ o.net < MaxRecords /\ o' = [o EXCEPT !.net = @ + 1]
Disables(d) == Quiet(LAMBDA x : be_openssl_disable([x EXCEPT !.en = @ \ {d}], {d}))
Drains == o.in > 0 /\ Quiet(LAMBDA x : Committed([x EXCEPT !.in = @ - 1]))
SetsMark(h) ==
  /\ o.on = "socket"
  /\ Quiet(LAMBDA x : CASE h > 0 /\ x.in = h -> [x EXCEPT !.high = h]
                        [] h > 0 /\ x.in > h -> Suspend([x EXCEPT !.high = h], "r", "WM")
                        [] OTHER -> UnsuspendWM([x EXCEPT !.high = h]))
Frees == Quiet(be_openssl_destruct)

\* Nothing is said of what a user does after the end of the connection.
Next ==
  /\ Alive /\ ~o.closed /\ o.in <= MaxRecords
  /\ \/ \E odd \in Odds :
          \/ ReadEvent(odd) \/ WriteEvent(odd) \/ UnderlyingReads(odd) \/ UnderlyingWrites(odd)
          \/ Writes(odd) \/ Renegotiates(odd)
          \/ \E d \in Dirs : Enables(d, odd) \/ Refills(d, odd)
     \/ \E d \in Dirs : Disables(d)
     \/ SetFd \/ Arrives \/ Drains \/ Frees
     \/ \E h \in OHigh : SetsMark(h)

-------------------------------------------------------------------------------
\* Whatever SSL waits for is waited for: an operation that is blocked on the
\* other direction has its event, so has one that is enabled, a handshake always
\* has, and a bufferevent that is freed leaves none suspended under it.  It
\* does not hold of what SslMay excludes: a new handshake does not resume the
\* underlying one, and an open socket has reading enabled without its event.
SslProceeds ==
  /\ o.life = "freed" => ~o.usus
  /\ Alive /\ ~o.closed =>
       /\ o.on = "socket" /\ o.fd =>
            /\ o.state = "handshake" => o.ev # {}
            /\ o.state = "open" =>
                 /\ o.rbow => "w" \in o.ev
                 /\ o.wbor => "r" \in o.ev
                 /\ On(o, "r") /\ ~o.rbow => "r" \in o.ev
                 /\ On(o, "w") /\ o.out > 0 /\ ~o.wbor => "w" \in o.ev
       /\ Filter(o) =>
            /\ o.state = "handshake" \/ o.wbor \/ On(o, "r") => ~o.usus
            /\ o.state = "open" /\ o.rbow /\ On(o, "r") => o.uout > 0
            /\ o.state = "open" /\ On(o, "w") /\ o.out > 0 /\ ~o.wbor => o.uout > 0
       /\ o.last => o.out > 0

\* No callback runs for ever.
NoBusyLoop == ~o.spin

\* Nothing that SSL or the underlying one has waits for more data to come.
SslKeepsUp ==
  Alive /\ ~o.closed /\ o.state = "open" /\ On(o, "r") /\ ~o.rbow /\ ~o.wbor =>
    o.pend = 0 /\ (Filter(o) => o.net = 0)
===============================================================================
