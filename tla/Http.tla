---------------------------------- MODULE Http ----------------------------------
(***************************************************************************)
(* A connection of http.c, to a server or from a client, with the requests *)
(* on it.  The loop runs one callback of the bufferevent, the deferred     *)
(* read or the retry timer at a time; each is one step, a function from    *)
(* the connection s to its next state, built from the functions it calls.  *)
(* Calls of the user come between, which is also where the callbacks that  *)
(* he is given are made: a handler does nothing more after its callback.   *)
(* The exception is the cleanup of a connection that could not be made,    *)
(* which tells the user of one request after the other: each callback and  *)
(* its return is a step, and what the user calls in one comes between them *)
(* while the loop waits.                                                   *)
(*                                                                         *)
(* The peer sends messages piece by piece: a first line, a block of        *)
(* headers, a byte of the body, a chunk, the last chunk, the end of the    *)
(* trailer, or something that cannot be parsed.  The parameter o is what   *)
(* a handler meets: how an attempt to connect begins, what the user does   *)
(* in a chunk callback, and whether a request is refused at once.          *)
(***************************************************************************)
EXTENDS Integers, Sequences, FiniteSets, SequencesExt

CONSTANTS
  HReq,       \* requests, each used once
  Sides,      \* of {"outgoing", "incoming"}
  MaxRetries, \* retry_max
  MaxPieces,  \* how many pieces the peer sends
  MaxBreaks,  \* how many errors there are; timeouts are not counted
  HFaults,    \* of {"at_once", "bind"}: how an attempt to connect may fail
  HMay        \* what else may happen, that the code does not stand:
              \* "unasked": the peer sends data while nothing is asked of it,
              \* "late": an attempt to connect that took too long ends after all,
              \* "again": it takes too long again before it is retried,
              \* "cancel_retry", "cancel_read": the user cancels the first request
              \* while the retry timer, or a deferred read, is due,
              \* "cancel_ended": he cancels the last of the requests that the
              \* cleanup is going to tell him of,
              \* "start_gone": he starts a reply when the connection is gone

VARIABLES s, pieces, breaks

NewReq == [life |-> "new", kind |-> "REQUEST", ntoread |-> -1, chunked |-> FALSE,
           close |-> FALSE, userdone |-> FALSE, told |-> 0, canceled |-> FALSE, turn |-> 0]
Reading == {"READING_FIRSTLINE", "READING_HEADERS", "READING_BODY", "READING_TRAILER"}
Connected(b) == b.st \notin {"DISCONNECTED", "CONNECTING"}
Outgoing(b) == b.side = "outgoing"

First(b) == Head(b.q)
Fault(b, what, if) == IF if THEN [b EXCEPT !.bad = @ \cup {what}] ELSE b

\* Chosen by the environment of a handler.
Outcome == [connect : {"begins"} \cup HFaults, user : {"goes_on", "cancels"},
            answer : {"later", "error"}]
Usual == [connect |-> "begins", user |-> "goes_on", answer |-> "later"]

-------------------------------------------------------------------------------
evhttp_write_buffer(b, cb) ==
  [b EXCEPT !.cb = cb, !.wr = TRUE, !.wev = TRUE, !.rcb = FALSE, !.wcb = TRUE,
            !.conncb = FALSE]

\* bufferevent_disable leaves the write event of a socket that is connecting.
Disable(b) == [b EXCEPT !.rd = FALSE, !.wr = FALSE, !.wev = @ /\ b.connecting]

\* CLOSEDETECT, the deferred read and the retry timer are left as they are.
evhttp_connection_reset(b) ==
  [b EXCEPT !.rd = FALSE, !.wr = FALSE, !.connecting = FALSE, !.wev = FALSE,
            !.fd = FALSE, !.out = FALSE, !.inp = <<>>, !.peer = "first",
            !.st = "DISCONNECTED"]

\* What happens to a request x: its user is given it to answer, has answered it,
\* is told of its end by the cleanup or, if "tell", when it is freed.
Given(x) == [x EXCEPT !.userdone = FALSE, !.told = @ + 1]
Answered(x, close) == [x EXCEPT !.userdone = TRUE, !.close = @ \/ close]
Telling(x) == [x EXCEPT !.life = "telling", !.told = @ + 1]
Freed(x, tell) == [x EXCEPT !.life = "freed", !.told = IF tell THEN @ + 1 ELSE @]

\* The request at the head is taken off and freed.
DropFirst(b, tell) == [b EXCEPT !.q = Tail(@), !.req[First(b)] = Freed(@, tell)]

\* An attempt that fails at once fails the request, resets the connection and
\* makes the attempt for the next request, before the state becomes CONNECTING.
evhttp_connection_connect(b, o) ==
  LET x == [evhttp_connection_reset(b) EXCEPT !.conncb = TRUE, !.rcb = FALSE, !.wcb = FALSE]
      Attempt(y) == [y EXCEPT !.fd = TRUE, !.wr = TRUE, !.wev = TRUE, !.connecting = TRUE]
      y == Fault(Fault(x, "detect", b.detect), "no_request", b.q = <<>>)
      z == IF b.q = <<>> THEN y ELSE DropFirst(y, TRUE)
  IN  IF b.st = "CONNECTING" THEN b
      ELSE IF o.connect = "bind" THEN x
      ELSE [(IF o.connect = "begins" THEN Attempt(x)
             ELSE IF z.q # <<>> THEN Attempt(z) ELSE z) EXCEPT !.st = "CONNECTING"]

\* Mutant of evhttp_request_dispatch: close detection goes on.
DispatchKeepsDetect(b) ==
  IF b.q = <<>> THEN b
  ELSE evhttp_write_buffer([b EXCEPT !.rd = FALSE, !.st = "WRITING", !.out = TRUE],
                           "connection")

\* The header says what kind the request has: a request that was written before
\* would be written as a response.
evhttp_request_dispatch(b) ==
  LET x == Fault(Fault(b, "not_idle", b.st # "IDLE"), "kind",
                 b.req[First(b)].kind # "REQUEST")
  IN  IF b.q = <<>> THEN b
      ELSE evhttp_write_buffer([x EXCEPT !.detect = FALSE, !.rd = FALSE, !.st = "WRITING",
                                         !.out = TRUE], "connection")

evhttp_start_read(b) ==
  [b EXCEPT !.wr = FALSE, !.wev = FALSE, !.rd = TRUE, !.st = "READING_FIRSTLINE",
            !.rcb = TRUE, !.wcb = TRUE, !.conncb = FALSE,
            !.more = @ \/ b.inp # <<>>]

\* The connection and its requests are freed; freeing the bufferevent and
\* canceling the timer and the deferred read keep any of them from running.
evhttp_connection_free(b) ==
  [evhttp_connection_reset(b) EXCEPT
     !.alive = FALSE, !.q = <<>>, !.retry = FALSE, !.more = FALSE, !.detect = FALSE,
     !.req = [r \in HReq |-> IF r \in Range(b.q) THEN Freed(@[r], FALSE) ELSE @[r]]]

\* A reply with data: without a connection the user's request is dropped.
evhttp_send(b, r, close) ==
  LET x == [b EXCEPT !.req[r] = Answered(@, close), !.out = TRUE]
  IN  IF b.req[r].life = "user" THEN [b EXCEPT !.req[r].life = "dropped"]
      ELSE evhttp_write_buffer(Fault(x, "not_first", b.q = <<>> \/ First(b) # r), "send_done")

\* The request is the user's; or it has an error page as its answer, which
\* closes the connection.
evhttp_handle_request(b, o) ==
  LET x == [b EXCEPT !.req[First(b)] = Given(@)]
  IN  IF o.answer = "error" THEN evhttp_send(x, First(b), TRUE) ELSE x

\* Mutant of evhttp_connection_incoming_fail: the user's request is freed.
FailFreesUsers(b, err, o) == evhttp_connection_free(b)

\* The user of an incoming request who has not finished keeps it.
evhttp_connection_incoming_fail(b, err, o) ==
  LET r == First(b)
  IN  IF err # "network" THEN evhttp_handle_request(b, [o EXCEPT !.answer = "error"])
      ELSE IF b.req[r].userdone THEN evhttp_connection_free(b)
      ELSE evhttp_connection_free([b EXCEPT !.q = Tail(@), !.req[r].life = "user"])

\* err is "network", "invalid" or "cancel"; after the last the user is not told.
evhttp_connection_fail(b, err, o) ==
  LET x == Disable(b)
      y == [evhttp_connection_reset(DropFirst(x, err # "cancel")) EXCEPT
              !.req[First(b)].canceled = err = "cancel"]
  IN  IF b.q = <<>> THEN Fault(b, "no_request", TRUE)
      ELSE IF ~Outgoing(b) THEN evhttp_connection_incoming_fail(x, err, o)
      ELSE IF y.q = <<>> THEN y ELSE evhttp_connection_connect(y, o)

\* Mutant of evhttp_connection_done: the next request is not sent.
DoneWaits(b, o) ==
  IF ~Outgoing(b) THEN evhttp_handle_request([b EXCEPT !.st = "WRITING"], o)
  ELSE [DropFirst([b EXCEPT !.st = "IDLE"], TRUE) EXCEPT !.detect = TRUE, !.rd = TRUE]

\* A message was read.  A connection to a server is used for the next request,
\* or watched for being closed.
evhttp_connection_done(b, o) ==
  LET x == DropFirst([b EXCEPT !.st = "IDLE"], TRUE)
      y == IF b.req[First(b)].close THEN evhttp_connection_reset(x) ELSE x
  IN  IF ~Outgoing(b) THEN evhttp_handle_request([b EXCEPT !.st = "WRITING"], o)
      ELSE IF y.q # <<>>
        THEN IF Connected(y) THEN evhttp_request_dispatch(y) ELSE evhttp_connection_connect(y, o)
      ELSE IF Connected(y) THEN [y EXCEPT !.detect = TRUE, !.rd = TRUE] ELSE y

\* Connecting did not work.  The connection stays in CONNECTING if it is tried
\* again later.  The timer must not be assigned while it is pending.  Otherwise
\* the requests end: they move to a list of the function, which has the steps
\* cleanup_tells and cleanup_told left to do.
evhttp_connection_cb_cleanup(b) ==
  LET x == evhttp_connection_reset(b)
      Ended(r) == [b.req[r] EXCEPT !.life = "ended",
                                   !.turn = CHOOSE i \in DOMAIN b.q : b.q[i] = r]
  IN  IF b.cnt < MaxRetries
        THEN Fault([b EXCEPT !.retry = TRUE, !.cnt = @ + 1], "timer", b.retry)
        ELSE [x EXCEPT !.q = <<>>,
                       !.req = [r \in HReq |-> IF r \in Range(b.q) THEN Ended(r) ELSE @[r]]]

\* what is "eof", "error" or "timeout".
evhttp_error_cb(b, what, o) ==
  LET r == b.req[First(b)]
  IN  IF b.st = "CONNECTING" /\ what = "timeout" THEN evhttp_connection_cb_cleanup(b)
      ELSE IF b.st = "READING_BODY" /\ ~r.chunked /\ r.ntoread < 0 /\ what = "eof"
        THEN evhttp_connection_done(b, o)
      ELSE IF b.detect
        THEN evhttp_connection_reset(Fault([b EXCEPT !.detect = FALSE], "detect", b.st # "IDLE"))
      ELSE evhttp_connection_fail(b, "network", o)

evhttp_connection_cb(b, what, o) ==
  IF what = "connected"
    THEN evhttp_request_dispatch([b EXCEPT !.cnt = 0, !.st = "IDLE", !.rcb = TRUE,
                                           !.wcb = TRUE, !.conncb = FALSE])
  ELSE IF what = "refused" THEN evhttp_connection_cb_cleanup(b)
  ELSE evhttp_error_cb(b, what, o)

\* The callback of the bufferevent for errors.
EventCb(b, what, o) ==
  IF b.conncb THEN evhttp_connection_cb(b, what, o) ELSE evhttp_error_cb(b, what, o)

-------------------------------------------------------------------------------
\* Reading.  Each step of a message goes on with the next if it is there.
Next1(b) == Head(b.inp)
Eat(b) == [b EXCEPT !.inp = Tail(@)]

evhttp_read_trailer(b, o) ==
  IF b.inp = <<>> THEN [b EXCEPT !.rd = TRUE]
  ELSE IF Next1(b).t = "bad" THEN evhttp_connection_fail(b, "invalid", o)
  ELSE evhttp_connection_done([Eat(b) EXCEPT !.rd = FALSE], o)

\* All chunks that are there are read, and what follows.  The user may cancel
\* his request when he is given the first one.
evhttp_handle_chunked_read(b, o) ==
  LET n == CHOOSE k \in 0..Len(b.inp) : /\ \A i \in 1..k : b.inp[i].t = "chunk"
                                        /\ k < Len(b.inp) => b.inp[k + 1].t # "chunk"
      x == [b EXCEPT !.inp = SubSeq(@, n + 1, Len(@))]
  IN  IF n > 0 /\ Outgoing(b) /\ o.user = "cancels" THEN evhttp_connection_fail(b, "cancel", o)
      ELSE IF x.inp = <<>> THEN [x EXCEPT !.rd = TRUE]
      ELSE IF Next1(x).t = "bad" THEN evhttp_connection_fail(x, "invalid", o)
      ELSE evhttp_read_trailer([Eat(x) EXCEPT !.st = "READING_TRAILER"], o)

\* A body with a length has one byte in this model.
evhttp_read_body(b, o) ==
  LET r == b.req[First(b)]
  IN  IF r.chunked THEN evhttp_handle_chunked_read(b, o)
      ELSE IF r.ntoread < 0 THEN [b EXCEPT !.inp = <<>>, !.rd = TRUE]
      ELSE IF r.ntoread > 0 /\ b.inp = <<>> THEN [b EXCEPT !.rd = TRUE]
      ELSE IF r.ntoread > 0 /\ Outgoing(b) /\ o.user = "cancels"
        THEN evhttp_connection_fail(b, "cancel", o)
      ELSE evhttp_connection_done(
             [(IF r.ntoread > 0 THEN Eat(b) ELSE b) EXCEPT !.rd = FALSE,
                                                           !.req[First(b)].ntoread = 0], o)

evhttp_send_continue(b) ==
  [b EXCEPT !.wr = TRUE, !.wev = TRUE, !.out = TRUE, !.cb = "continue_done",
            !.rcb = TRUE, !.wcb = TRUE, !.conncb = FALSE]

\* h says what the headers are: see Headers.
evhttp_get_body(b, h, o) ==
  LET r == First(b)
      request == b.req[r].kind = "REQUEST"
      n == IF h \in {"length", "expect"} THEN 1 ELSE IF h = "zero" THEN 0 ELSE -1
      x == [b EXCEPT !.st = "READING_BODY",
                     !.req[r] = [@ EXCEPT !.chunked = h = "chunked", !.ntoread = n]]
  IN  IF request /\ h = "get" THEN evhttp_connection_done(b, o)
      ELSE IF h = "bad_length" THEN evhttp_connection_fail(x, "invalid", o)
      ELSE IF request /\ h # "chunked" /\ x.req[r].ntoread < 1
        THEN evhttp_connection_done(x, o)
      ELSE IF request /\ h = "bad_expect" THEN evhttp_send(x, r, TRUE)
      ELSE evhttp_read_body(IF h = "expect" /\ b.inp = <<>> THEN evhttp_send_continue(x) ELSE x, o)

evhttp_read_header(b, o) ==
  LET h == Next1(b).h
      x == [Eat(b) EXCEPT !.rd = FALSE, !.req[First(b)].close = @ \/ Next1(b).close]
  IN  IF b.inp = <<>> THEN b
      ELSE IF Next1(b).t = "bad" THEN evhttp_connection_fail(b, "invalid", o)
      ELSE IF h = "continue" THEN evhttp_start_read(x)
      ELSE IF h = "no_body" THEN evhttp_connection_done(x, o)
      ELSE evhttp_get_body(x, h, o)

evhttp_read_firstline(b, o) ==
  IF b.inp = <<>> THEN b
  ELSE IF Next1(b).t = "bad" THEN evhttp_connection_fail(b, "invalid", o)
  ELSE evhttp_read_header([Eat(b) EXCEPT !.st = "READING_HEADERS"], o)

\* In other states the program ends itself.
evhttp_read_cb(b, o) ==
  LET x == [b EXCEPT !.more = FALSE]
  IN  CASE b.st = "READING_FIRSTLINE" -> evhttp_read_firstline(x, o)
        [] b.st = "READING_HEADERS"   -> evhttp_read_header(x, o)
        [] b.st = "READING_BODY"      -> evhttp_read_body(x, o)
        [] b.st = "READING_TRAILER"   -> evhttp_read_trailer(x, o)
        [] b.st = "IDLE"              -> evhttp_connection_reset(x)
        [] OTHER                      -> Fault(x, "illegal_state", TRUE)

-------------------------------------------------------------------------------
\* Another request on a connection from a client, unless there is no memory.
evhttp_associate_new_request_with_connection(b) ==
  LET new == {r \in HReq : b.req[r].life = "new"}
      r == CHOOSE x \in new : TRUE
  IN  IF new = {} THEN evhttp_connection_free(b)
      ELSE evhttp_start_read([b EXCEPT !.q = Append(@, r), !.req[r] =
                                         [@ EXCEPT !.life = "conn", !.userdone = TRUE]])

evhttp_send_done(b) ==
  LET x == DropFirst(b, FALSE)
  IN  IF b.req[First(b)].close THEN evhttp_connection_free(x)
      ELSE evhttp_associate_new_request_with_connection(x)

evhttp_write_connectioncb(b) ==
  LET x == Fault(b, "not_writing", b.q = <<>> \/ b.st # "WRITING")
  IN  IF b.q = <<>> THEN x
      ELSE evhttp_start_read([x EXCEPT !.req[First(b)].kind = "RESPONSE"])

evhttp_write_cb(b) ==
  CASE b.cb = "connection"    -> evhttp_write_connectioncb(b)
    [] b.cb = "send_done"     -> evhttp_send_done(b)
    [] b.cb = "continue_done" -> [b EXCEPT !.wr = FALSE, !.wev = FALSE]
    [] OTHER                  -> b

-------------------------------------------------------------------------------
\* What a peer may send next, and then.
Headers(b) ==
  [t : {"hdr"}, close : BOOLEAN,
   h : IF Outgoing(b) THEN {"none", "length", "zero", "chunked", "bad_length", "continue", "no_body"}
       ELSE {"get", "length", "chunked", "bad_length", "expect", "bad_expect"}]
Plain(T) == [t : T, close : {FALSE}, h : {"none"}]
Piece(b) ==
  CASE b.peer = "first"  -> Plain({"first", "bad"})
    [] b.peer = "hdr"    -> Headers(b) \cup Plain({"bad"})
    [] b.peer \in {"byte", "forever"} -> Plain({"byte"})
    [] b.peer = "chunks" -> Plain({"chunk", "last", "bad"})
    [] b.peer = "end"    -> Plain({"end", "bad"})
    [] OTHER             -> {}
PeerAfter(b, p) ==
  CASE p.t = "bad"   -> "silent"
    [] p.t = "chunk" -> "chunks"
    [] p.t = "first" -> "hdr"
    [] p.t = "last"  -> "end"
    [] p.t = "end"   -> "first"
    [] p.t = "byte"  -> IF b.peer = "byte" THEN "first" ELSE "forever"
    [] OTHER         -> CASE p.h \in {"length", "expect"} -> "byte"
                          [] p.h = "chunked" -> "chunks"
                          [] p.h = "none"    -> "forever"
                          [] OTHER           -> "first"

InitConn(side) ==
  [side |-> side, alive |-> TRUE, st |-> "DISCONNECTED", fd |-> FALSE, q |-> <<>>,
   rd |-> FALSE, wr |-> FALSE, wev |-> FALSE, rcb |-> TRUE, wcb |-> TRUE, conncb |-> FALSE,
   cb |-> "none", out |-> FALSE, inp |-> <<>>, more |-> FALSE, retry |-> FALSE, cnt |-> 0,
   detect |-> FALSE, connecting |-> FALSE, peer |-> "first", bad |-> {},
   byuser |-> FALSE,
   req |-> [r \in HReq |-> NewReq]]

\* A connection to a server, not connected; or evhttp_get_request for one that
\* was accepted.
Init ==
  /\ \E side \in Sides :
       s = IF side = "outgoing" THEN InitConn(side)
           ELSE evhttp_associate_new_request_with_connection([InitConn(side) EXCEPT !.fd = TRUE])
  /\ pieces = 0 /\ breaks = 0

Quiet == UNCHANGED <<pieces, breaks>>
Break(what) ==
  IF what \in {"timeout", "connected"} THEN Quiet
  ELSE breaks < MaxBreaks /\ breaks' = breaks + 1 /\ UNCHANGED pieces

\* The cleanup tells its requests in their order; LastEnding is at its end.
Ending(r) == s.req[r].life = "ended"
Told(r) == s.req[r].life = "telling"
LastEnding(r) == \A x \in HReq : Ending(x) => s.req[x].turn <= s.req[r].turn

\* The loop waits for a callback to return.  The user runs in it, or on his own.
InLoop == \A r \in HReq : ~Ending(r) /\ ~Told(r)
UserRuns == (\E r \in HReq : Told(r)) \/ InLoop

\* The loop runs deferred callbacks before it polls.
Ready == InLoop /\ ~s.more /\ (s.st = "IDLE" => "unasked" \in HMay)

\* bufferevent_readcb with data.
ReadData(p, o) ==
  LET b == [s EXCEPT !.inp = Append(@, p), !.peer = PeerAfter(s, p)]
  IN  /\ s.alive /\ s.rd /\ s.fd /\ Ready /\ pieces < MaxPieces /\ p \in Piece(s)
      /\ pieces' = pieces + 1 /\ UNCHANGED breaks
      /\ s' = IF s.rcb THEN evhttp_read_cb(b, o) ELSE b

\* The same with a second piece that comes in the same read.
ReadTwo(p, p2, o) ==
  LET x == [s EXCEPT !.inp = Append(@, p), !.peer = PeerAfter(s, p)]
      b == [x EXCEPT !.inp = Append(@, p2), !.peer = PeerAfter(x, p2)]
  IN  /\ s.alive /\ s.rd /\ s.fd /\ Ready /\ pieces + 1 < MaxPieces
      /\ p \in Piece(s) /\ p2 \in Piece(x)
      /\ pieces' = pieces + 2 /\ UNCHANGED breaks
      /\ s' = IF s.rcb THEN evhttp_read_cb(b, o) ELSE b

\* Reading ends, fails or takes too long.
ReadEnds(what, o) ==
  /\ s.alive /\ s.rd /\ s.fd /\ ~s.more /\ InLoop
  /\ s' = EventCb([s EXCEPT !.rd = FALSE], what, o)
  /\ Break(what)

\* The output is written.
Written ==
  LET b == [s EXCEPT !.out = FALSE, !.wev = FALSE]
  IN  /\ s.alive /\ s.wev /\ s.fd /\ ~s.connecting /\ InLoop
      /\ s' = IF s.wcb THEN evhttp_write_cb(b) ELSE b
      /\ Quiet

\* Writing fails or takes too long.
WriteEnds(what, o) ==
  /\ s.alive /\ s.wev /\ s.fd /\ ~s.connecting /\ InLoop
  /\ s' = EventCb([s EXCEPT !.wr = FALSE, !.wev = FALSE], what, o)
  /\ Break(what)

\* The attempt to connect is over.
ConnectEnds(what, o) ==
  /\ s.alive /\ s.wev /\ s.connecting /\ (s.retry => "late" \in HMay) /\ InLoop
  /\ s' = EventCb([s EXCEPT !.connecting = FALSE, !.wev = what = "connected"], what, o)
  /\ Break(what)

\* It takes too long: the write event is not deleted, and its timeout starts
\* again.  The retry timer, of 2 seconds, then 4, is earlier if the timeout is the
\* usual one and there are few retries.
ConnectTimeout(o) ==
  /\ s.alive /\ s.wev /\ s.connecting /\ (s.retry => "again" \in HMay) /\ InLoop
  /\ s' = EventCb([s EXCEPT !.wr = FALSE], "timeout", o)
  /\ Quiet

evhttp_deferred_read_cb(o) ==
  /\ s.alive /\ s.more /\ InLoop
  /\ s' = evhttp_read_cb(s, o) /\ Quiet

evhttp_connection_retry(o) ==
  /\ s.alive /\ s.retry /\ InLoop
  /\ s' = evhttp_connection_connect([s EXCEPT !.retry = FALSE, !.st = "DISCONNECTED"], o)
  /\ Quiet

\* evhttp_connection_cb_cleanup goes on with its list, whatever has become of the
\* connection: it calls the callback of the next request ...
cleanup_tells(r) ==
  /\ Ending(r) /\ \A x \in HReq : ~Told(x) /\ (Ending(x) => s.req[r].turn <= s.req[x].turn)
  /\ s' = [s EXCEPT !.req[r] = Telling(@)]
  /\ Quiet

\* ... and frees the request when it returns.
cleanup_told(r) ==
  /\ Told(r)
  /\ s' = [s EXCEPT !.req[r].life = "freed"] /\ Quiet

-------------------------------------------------------------------------------
\* Calls of the user.
\* If no attempt can be made the request is taken off again and not freed.
evhttp_make_request(r, o) ==
  LET b == [s EXCEPT !.q = Append(@, r), !.req[r].life = "conn"]
      x == evhttp_connection_connect(b, o)
      failed == o.connect = "bind" /\ s.st # "CONNECTING"
  IN  /\ s.alive /\ Outgoing(s) /\ UserRuns /\ s.req[r].life = "new"
      /\ s' = IF ~Connected(s)
                THEN IF failed THEN [x EXCEPT !.q = Front(@), !.req[r].life = "user"] ELSE x
              ELSE IF s.q = <<>> THEN evhttp_request_dispatch(b) ELSE b
      /\ Quiet

\* A request on the list of the cleanup is taken off it like one that waits on the
\* connection: if it is the last, the end of the connection's queue is set to be
\* that of the list.
evhttp_cancel_request(r, o) ==
  LET canceled == [s EXCEPT !.req[r] = [@ EXCEPT !.life = "freed", !.canceled = TRUE]]
  IN  /\ s.alive /\ Outgoing(s) /\ UserRuns /\ (r \in Range(s.q) \/ Ending(r))
      /\ r \in Range(s.q) /\ r = First(s) =>
           (s.retry => "cancel_retry" \in HMay) /\ (s.more => "cancel_read" \in HMay)
      /\ Ending(r) /\ LastEnding(r) => "cancel_ended" \in HMay
      /\ s' = IF Ending(r) THEN Fault(canceled, "wrong_list", LastEnding(r))
              ELSE IF r = First(s) THEN evhttp_connection_fail(s, "cancel", o)
              ELSE [canceled EXCEPT !.q = RemoveFirst(@, r)]
      /\ Quiet

FreeConnection ==
  /\ s.alive /\ UserRuns /\ s' = [evhttp_connection_free(s) EXCEPT !.byuser = TRUE] /\ Quiet

\* r has been given to the user, who has not finished his reply.
Has(r) == s.req[r].told = 1 /\ ~s.req[r].userdone /\ s.req[r].life \in {"conn", "user"}

evhttp_send_reply(r, close) ==
  /\ ~Outgoing(s) /\ Has(r) /\ s.req[r].kind = "REQUEST"
  /\ s' = evhttp_send(s, r, close) /\ Quiet

\* evhttp_send_reply_start and each evhttp_send_reply_chunk: output without end,
\* in chunks if the version of the request allows them.  The first does not look
\* whether there is still a connection.
evhttp_send_reply_start(r, chunked) ==
  LET x == [s EXCEPT !.req[r] = [@ EXCEPT !.kind = "RESPONSE", !.chunked = chunked]]
  IN  /\ ~Outgoing(s) /\ Has(r) /\ s.req[r].kind = "REQUEST"
      /\ s.req[r].life = "user" => "start_gone" \in HMay
      /\ s' = IF s.req[r].life = "user" THEN Fault(s, "no_connection", TRUE)
              ELSE evhttp_write_buffer([x EXCEPT !.out = TRUE], "none")
      /\ Quiet

\* The reply is done now, with the last chunk, or when the output is written.
evhttp_send_reply_end(r) ==
  LET x == [s EXCEPT !.req[r] = [@ EXCEPT !.userdone = TRUE, !.chunked = FALSE]]
  IN  /\ ~Outgoing(s) /\ Has(r) /\ s.req[r].kind = "RESPONSE"
      /\ s' = IF s.req[r].life = "user" THEN [s EXCEPT !.req[r].life = "dropped"]
              ELSE IF s.req[r].chunked
                THEN evhttp_write_buffer([x EXCEPT !.out = TRUE], "send_done")
              ELSE IF ~s.out THEN evhttp_send_done(x)
              ELSE [x EXCEPT !.cb = "send_done"]
      /\ Quiet

\* What the loop does in the end without the peer: it writes, runs timers and
\* deferred callbacks, gives up waiting and ends the cleanup.
Progress ==
  \/ Written
  \/ \E r \in HReq : cleanup_tells(r) \/ cleanup_told(r)
  \/ \E o \in Outcome : \/ ReadEnds("timeout", o) \/ ConnectTimeout(o)
                        \/ evhttp_deferred_read_cb(o) \/ evhttp_connection_retry(o)

Next ==
  \/ Progress \/ FreeConnection
  \/ \E o \in Outcome :
       \/ \E p \in Piece(s) : \/ ReadData(p, o)
                              \/ \E p2 \in Piece([s EXCEPT !.peer = PeerAfter(s, p)]) :
                                   ReadTwo(p, p2, o)
       \/ \E what \in {"eof", "error"} : ReadEnds(what, o)
       \/ \E what \in {"error", "timeout"} : WriteEnds(what, o)
       \/ \E what \in {"connected", "refused", "error"} : ConnectEnds(what, o)
       \/ \E r \in HReq : evhttp_make_request(r, o) \/ evhttp_cancel_request(r, o)
  \/ \E r \in HReq : \/ \E close \in BOOLEAN : evhttp_send_reply(r, close)
                     \/ \E c \in BOOLEAN : evhttp_send_reply_start(r, c)
                     \/ evhttp_send_reply_end(r)
-------------------------------------------------------------------------------
\* No EVUTIL_ASSERT fails, no callback comes in a state that ends the program,
\* no pending timer is assigned, no request is written as a response or taken off
\* a list that it is not on, and no connection is used that is not there.
HttpAsserts == s.bad = {}

\* Every request is on the connection, with its user, in the cleanup or freed; the
\* user is told once, unless he canceled.  A request that he was given to answer is not freed
\* before he has, unless he frees the connection.
HttpAccounted ==
  /\ \A r \in HReq :
       LET q == s.req[r]
       IN  /\ r \in Range(s.q) <=> q.life = "conn"
           /\ q.told <= 1
           /\ q.life = "freed" /\ ~s.byuser =>
                IF Outgoing(s) THEN q.told = 1 <=> ~q.canceled ELSE q.told = 1 => q.userdone
  /\ Cardinality(Range(s.q)) = Len(s.q)

\* A connection with requests waits for something that is going to happen.
HttpMoving ==
  s.alive /\ s.q # <<>> =>
    \/ s.st = "CONNECTING" /\ (s.wev \/ s.retry)
    \/ s.wev /\ s.fd
    \/ s.st \in Reading /\ (s.rd \/ s.more)
    \/ ~Outgoing(s) /\ ~s.req[First(s)].userdone

\* What was received is never left in the buffer by a connection that waits for
\* more of the same.
HttpNothingUnread == s.alive /\ s.st \in Reading /\ s.rd /\ ~s.more => s.inp = <<>>

\* A connection never stops by itself.
HttpProceeds == HttpMoving /\ HttpNothingUnread

\* http-internal.h: the timer is "for retrying connects".
RetryWhileConnecting == s.alive /\ s.retry => ~Connected(s)
-------------------------------------------------------------------------------
\* The inductive invariant, in parts, if nothing of HMay happens and attempts to
\* connect begin.  The parts are about a connection b, so
\* that they can be stated of what a handler returns.
PieceOf(side) ==
  [t : {"first", "hdr", "byte", "chunk", "last", "end", "bad"}, close : BOOLEAN,
   h : IF side = "outgoing"
       THEN {"none", "length", "zero", "chunked", "bad_length", "continue", "no_body"}
       ELSE {"none", "get", "length", "chunked", "bad_length", "expect", "bad_expect"}]
ReqType ==
  [life : {"new", "conn", "user", "ended", "telling", "freed", "dropped"}, kind : {"REQUEST", "RESPONSE"},
   ntoread : -1 .. 1, chunked : BOOLEAN, close : BOOLEAN, userdone : BOOLEAN,
   told : Nat, canceled : BOOLEAN, turn : Nat]
ConnFields ==
  {"side", "alive", "st", "fd", "q", "rd", "wr", "wev", "rcb", "wcb", "conncb", "cb", "out",
   "inp", "more", "retry", "cnt", "detect", "connecting", "peer", "bad", "byuser", "req"}
IsConn(b) ==
  /\ DOMAIN b = ConnFields
  /\ b.side \in {"outgoing", "incoming"}
  /\ b.st \in {"DISCONNECTED", "CONNECTING", "IDLE", "WRITING"} \cup Reading
  /\ b.cb \in {"none", "connection", "send_done", "continue_done"}
  /\ b.q \in Seq(HReq) /\ b.inp \in Seq(PieceOf(b.side))
  /\ b.cnt \in Nat
  /\ b.req \in [HReq -> ReqType]

\* What is known of a request by who has it.
OutgoingReq(x, byuser) ==
  /\ x.life \in {"new", "conn", "ended", "telling", "freed"}
  /\ x.told <= 1
  /\ x.life \in {"new", "conn", "ended"} => x.told = 0 /\ ~x.canceled
  /\ x.life = "telling" => x.told = 1 /\ ~x.canceled
  /\ x.life = "new" => x.kind = "REQUEST"
  /\ x.life = "freed" /\ ~byuser => (x.told = 1 <=> ~x.canceled)
IncomingReq(x, byuser) ==
  /\ x.told <= 1 /\ x.life \notin {"ended", "telling"}
  /\ x.life = "new" => x.told = 0
  /\ x.life = "conn" /\ ~x.userdone => x.told = 1
  /\ x.life = "user" => x.told = 1 /\ ~x.userdone
  /\ x.life = "freed" /\ ~byuser => (x.told = 1 => x.userdone)
ReqOk(side, x, byuser) ==
  IF side = "outgoing" THEN OutgoingReq(x, byuser) ELSE IncomingReq(x, byuser)
ReqsOk(b) ==
  /\ IsInjective(b.q)
  /\ \A r \in HReq : r \in ToSet(b.q) <=> b.req[r].life = "conn"
  /\ \A r \in HReq : ReqOk(b.side, b.req[r], b.byuser)

\* Only the request whose response is read has been written.
KindsOk(b) ==
  \A r \in ToSet(b.q) : b.req[r].kind = "RESPONSE" <=> b.st \in Reading /\ r = First(b)

\* A connection to a server: which events and callbacks each state has.
OutgoingOk(b) ==
  /\ KindsOk(b)
  /\ b.st \in {"DISCONNECTED", "IDLE"} <=> b.q = <<>>
  /\ b.st = "IDLE" <=> b.detect
  /\ b.retry => b.st = "CONNECTING"
  /\ b.connecting => b.st = "CONNECTING" /\ b.conncb /\ b.fd
  /\ b.st = "CONNECTING" => (b.wev <=> b.connecting) /\ (b.wev \/ b.retry) /\ ~b.rd
  /\ b.wev /\ ~b.connecting => b.st = "WRITING" /\ b.cb = "connection" /\ b.wcb
  /\ b.st = "WRITING" => b.wev /\ b.fd
  /\ b.rd => b.st \in Reading \cup {"IDLE"} /\ b.rcb
  /\ b.st \in Reading => b.rd /\ b.fd
  /\ b.st = "IDLE" => b.fd
  /\ b.more => b.st = "READING_FIRSTLINE"
  /\ b.st \in Reading /\ ~b.more => b.inp = <<>>

\* A connection from a client has one request, which is read, is with the user or
\* has its answer written.
IncomingOk(b) ==
  LET x == b.req[First(b)]
  IN  /\ Len(b.q) = 1 /\ b.fd /\ ~b.detect /\ ~b.connecting /\ ~b.retry
      /\ b.st \in Reading \cup {"WRITING"}
      /\ b.rd => b.st \in Reading /\ b.rcb /\ x.told = 0 /\ x.userdone
      /\ b.more => b.st = "READING_FIRSTLINE" /\ b.rd /\ ~b.wev
      /\ ~b.rd /\ x.userdone => b.wev /\ b.cb = "send_done"
      /\ b.wev => b.wcb /\ b.cb # "connection"
      /\ b.wev /\ b.rd => b.cb = "continue_done"
      /\ b.wev /\ b.cb = "send_done" => x.userdone
      /\ b.out => b.wev
      /\ b.rd /\ ~b.more => b.inp = <<>>

ConnOk(b) ==
  /\ IsConn(b) /\ b.bad = {} /\ ReqsOk(b)
  /\ b.alive => ~b.byuser
  /\ b.alive => (IF Outgoing(b) THEN OutgoingOk(b) ELSE IncomingOk(b))
  /\ ~b.alive => b.q = <<>>
HttpInv == ConnOk(s)
===============================================================================
