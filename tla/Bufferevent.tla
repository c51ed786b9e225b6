------------------------------- MODULE Bufferevent -------------------------------
(***************************************************************************)
(* bufferevent.c with the operations of the kinds of bufferevents: sockets *)
(* (the events of bufferevent_sock.c), pairs (bufferevent_pair.c) and      *)
(* filters over a socket (bufferevent_filter.c).  A function of the C code *)
(* is an operator from a world x to the world after it.  Bytes are counted *)
(* only.  A direction is "r" or "w".                                       *)
(***************************************************************************)
EXTENDS Integers, Sequences, FiniteSets, SequencesExt

CONSTANTS
  Bev, NoBev,
  Kind,       \* [Bev -> {"socket", "pair", "filter"}]
  Link,       \* the partner of one of a pair, the underlying one of a filter
  NullFilter  \* filters are be_null_filter

VARIABLE w

Dirs == {"r", "w"}
NoMark == [low |-> 0, high |-> 0]

\* ev: the events that are pending, which are timers for pairs and filters;
\* act: ev_write is active without an answer of the kernel; run: the step of
\* bufferevent_run_deferred_callbacks_unlocked; the rest of the ghosts: news
\* is data that the user was not told of, dead a connection that failed, idle
\* output of a filter that was not allowed to write, kept the references that
\* be_pair_flush has not given back.
NewBev ==
  [life |-> "live", user |-> TRUE, ref |-> 1, opt |-> "now", closes |-> FALSE,
   en |-> {"w"}, sus |-> [d \in Dirs |-> {}], ev |-> {}, act |-> FALSE, tmo |-> FALSE,
   fd |-> TRUE, connecting |-> FALSE, refused |-> FALSE, lookups |-> 0, cb |-> "user",
   rp |-> FALSE, wp |-> FALSE, ep |-> {}, dq |-> FALSE, run |-> 0,
   in |-> 0, out |-> 0, rm |-> NoMark, wm |-> NoMark,
   cfg |-> 0, lim |-> [d \in Dirs |-> 0], refill |-> FALSE, group |-> FALSE,
   news |-> FALSE, dead |-> FALSE, idle |-> FALSE, kept |-> 0]

Live(x, b) == b # NoBev /\ x.bev[b].life = "live"
Least(m, n) == IF m < n THEN m ELSE n

\* event_del and event_add.
EvDel(x, b, D) == [x EXCEPT !.bev[b].ev = @ \ D, !.bev[b].act = @ /\ "w" \notin D]
TimerAdd(x, b, D) == [x EXCEPT !.bev[b].ev = IF x.bev[b].tmo THEN @ \cup D ELSE @]

be_socket_enable(x, b, E) == [x EXCEPT !.bev[b].ev = @ \cup E]

\* Mutant of be_socket_disable: a connecting socket is disabled too.
DisableConnecting(x, b, E) == EvDel(x, b, E)

be_socket_disable(x, b, E) == EvDel(x, b, IF x.bev[b].connecting THEN E \ {"w"} ELSE E)

SocketSuspend(x, b, d, why) ==
  LET y == IF x.bev[b].sus[d] = {} THEN be_socket_disable(x, b, {d}) ELSE x
  IN  [y EXCEPT !.bev[b].sus[d] = @ \cup {why}]

SocketUnsuspend(x, b, d, why) ==
  LET y == [x EXCEPT !.bev[b].sus[d] = @ \ {why}]
  IN  IF y.bev[b].sus[d] = {} /\ d \in y.bev[b].en THEN be_socket_enable(y, b, {d}) ELSE y

be_filter_disable(x, f, E) ==
  LET y == EvDel(x, f, E)
  IN  IF "r" \in E THEN SocketSuspend(y, Link[f], "r", "FILT_READ") ELSE y

be_filter_enable(x, f, E) ==
  LET y == TimerAdd(x, f, E)
  IN  IF "r" \in E THEN SocketUnsuspend(y, Link[f], "r", "FILT_READ") ELSE y

be_disable(x, b, E) ==
  CASE Kind[b] = "socket" -> be_socket_disable(x, b, E)
    [] Kind[b] = "pair"   -> EvDel(x, b, E)
    [] Kind[b] = "filter" -> be_filter_disable(x, b, E)

\* bufferevent_suspend_read, bufferevent_suspend_write.
suspend(x, b, d, why) ==
  LET y == IF x.bev[b].sus[d] = {} THEN be_disable(x, b, {d}) ELSE x
  IN  [y EXCEPT !.bev[b].sus[d] = @ \cup {why}]

-------------------------------------------------------------------------------
\* Callbacks of the user.  One that is not deferred is called at once: what it
\* does to the bufferevent is what the user does next.
Schedule(x, b) ==
  IF x.bev[b].dq THEN x ELSE [x EXCEPT !.bev[b].dq = TRUE, !.bev[b].ref = @ + 1]

TellRead(x, b) ==
  IF x.bev[b].cb = "none" \/ x.bev[b].opt = "now" THEN [x EXCEPT !.bev[b].news = FALSE]
  ELSE Schedule([x EXCEPT !.bev[b].rp = TRUE], b)

TellWrite(x, b) ==
  IF x.bev[b].cb = "none" \/ x.bev[b].opt = "now" THEN x
  ELSE Schedule([x EXCEPT !.bev[b].wp = TRUE], b)

TellEvent(x, b, what) ==
  IF x.bev[b].cb = "none" \/ x.bev[b].opt = "now" THEN x
  ELSE Schedule([x EXCEPT !.bev[b].ep = @ \cup {what}], b)

-------------------------------------------------------------------------------
\* Pairs, whose callbacks are always deferred.
HasPartner(x, b) == Live(x, Link[b])

be_pair_wants_to_talk(x, s, d) ==
  /\ "w" \in x.bev[s].en /\ "r" \in x.bev[d].en
  /\ x.bev[d].sus["r"] = {} /\ x.bev[s].out > 0

\* bufferevent_inbuf_wm_cb when bytes come to d: below the mark nothing is left
\* to transfer, so that only the timer of be_pair_enable is set again.
PairResumed(x, d) ==
  IF x.bev[d].sus["r"] = {} /\ "r" \in x.bev[d].en THEN TimerAdd(x, d, {"r"}) ELSE x

PairFilled(x, d) ==
  IF x.bev[d].rm.high = 0 THEN x
  ELSE IF x.bev[d].in >= x.bev[d].rm.high THEN suspend(x, d, "r", "WM")
  ELSE PairResumed([x EXCEPT !.bev[d].sus["r"] = @ \ {"WM"}], d)

Moved(x, s, d, n) ==
  [x EXCEPT !.bev[s].out = @ - n, !.bev[d].in = @ + n,
            !.bev[d].news = @ \/ x.bev[d].in + n >= x.bev[d].rm.low]

\* It is the write timer of d, not the one of s, that is looked after.
TransferTimers(x, d) ==
  IF x.bev[d].out > 0 THEN TimerAdd(x, d, {"r", "w"}) ELSE EvDel(TimerAdd(x, d, {"r"}), d, {"w"})

ToldOfInput(x, d)  == IF x.bev[d].in >= x.bev[d].rm.low THEN TellRead(x, d) ELSE x
ToldOfOutput(x, s) == IF x.bev[s].out <= x.bev[s].wm.low THEN TellWrite(x, s) ELSE x

be_pair_transfer(x, s, d, ignore) ==
  LET high == x.bev[d].rm.high
      full == high # 0 /\ x.bev[d].in >= high
      n == IF high = 0 \/ full THEN x.bev[s].out ELSE Least(x.bev[s].out, high - x.bev[d].in)
  IN  IF full /\ ~ignore THEN x
      ELSE ToldOfOutput(ToldOfInput(IF n = 0 THEN x
             ELSE TransferTimers(PairFilled(Moved(x, s, d, n), d), d), d), s)

Talk(x, s, d) == IF be_pair_wants_to_talk(x, s, d) THEN be_pair_transfer(x, s, d, FALSE) ELSE x

be_pair_outbuf_cb(x, b) == IF HasPartner(x, b) THEN Talk(x, b, Link[b]) ELSE x

TalkFrom(x, b, E) == IF "w" \in E /\ HasPartner(x, b) THEN Talk(x, b, Link[b]) ELSE x
TalkTo(x, b, E)   == IF "r" \in E /\ HasPartner(x, b) THEN Talk(x, Link[b], b) ELSE x

be_pair_enable(x, b, E) ==
  TalkFrom(TalkTo(TimerAdd(x, b, {d \in E : d = "r" \/ x.bev[b].out > 0}), b, E), b, E)

be_enable(x, b, E) ==
  CASE Kind[b] = "socket" -> be_socket_enable(x, b, E)
    [] Kind[b] = "pair"   -> be_pair_enable(x, b, E)
    [] Kind[b] = "filter" -> be_filter_enable(x, b, E)

\* bufferevent_unsuspend_read, bufferevent_unsuspend_write.
Resume(x, b, d) == IF x.bev[b].sus[d] = {} /\ d \in x.bev[b].en THEN be_enable(x, b, {d}) ELSE x

unsuspend(x, b, d, why) == Resume([x EXCEPT !.bev[b].sus[d] = @ \ {why}], b, d)

\* The callback is there when there is a high mark.
bufferevent_inbuf_wm_cb(x, b) ==
  IF x.bev[b].rm.high = 0 THEN x
  ELSE IF x.bev[b].in >= x.bev[b].rm.high THEN suspend(x, b, "r", "WM")
  ELSE unsuspend(x, b, "r", "WM")

\* Length equal to the mark changes nothing.
bufferevent_setwatermark(x, b, d, mark) ==
  LET y == IF d = "w" THEN [x EXCEPT !.bev[b].wm = mark] ELSE [x EXCEPT !.bev[b].rm = mark]
      n == x.bev[b].in
  IN  IF d = "w" \/ (mark.high # 0 /\ n = mark.high) THEN y
      ELSE IF mark.high # 0 /\ n > mark.high THEN suspend(y, b, "r", "WM")
      ELSE unsuspend(y, b, "r", "WM")

EnableSome(x, b, E) == IF E = {} THEN x ELSE be_enable(x, b, E)

bufferevent_enable(x, b, E) ==
  EnableSome([x EXCEPT !.bev[b].en = @ \cup E], b, {d \in E : x.bev[b].sus[d] = {}})

bufferevent_disable(x, b, E) ==
  be_disable([x EXCEPT !.bev[b].en = @ \ E,
                       !.bev[b].idle = @ \/ ("w" \in E /\ x.bev[b].out > 0)], b, E)

bufferevent_disable_hard(x, b, E) ==
  be_disable([x EXCEPT !.bev[b].en = @ \ E, !.bev[b].connecting = FALSE], b, E)

-------------------------------------------------------------------------------
\* References.  Destroyed is the end of _bufferevent_decref_and_unlock, with
\* bufferevent_remove_from_rate_limit_group_internal and be_socket_destruct.
\* What still refers to it goes on to.
Destroyed(x, b) ==
  [x EXCEPT !.bev[b] = [NewBev EXCEPT !.life = "freed", !.user = x.bev[b].user, !.ref = 0,
                                      !.dq = x.bev[b].dq, !.run = x.bev[b].run,
                                      !.lookups = x.bev[b].lookups, !.kept = x.bev[b].kept],
            !.grp.members = RemoveFirst(@, b)]

Incref(x, b) == [x EXCEPT !.bev[b].ref = @ + 1]

SocketDecref(x, b) ==
  IF x.bev[b].ref > 1 THEN [x EXCEPT !.bev[b].ref = @ - 1] ELSE Destroyed(x, b)

SocketFree(x, b) == SocketDecref([x EXCEPT !.bev[b].cb = "none", !.bev[b].user = FALSE], b)

be_filter_destruct(x, f) ==
  LET u == Link[f]
      y == IF x.bev[u].cb = "filter" THEN [x EXCEPT !.bev[u].cb = "none"] ELSE x
  IN  IF ~x.bev[f].closes THEN SocketUnsuspend(y, u, "r", "FILT_READ")
      ELSE IF x.bev[u].ref < 2 THEN x ELSE SocketFree(x, u)

\* Mutant of Decref: the reference to the underlying one is kept.
DecrefKeeps(x, b) ==
  IF x.bev[b].ref > 1 THEN [x EXCEPT !.bev[b].ref = @ - 1]
  ELSE IF Kind[b] = "filter" THEN Destroyed(be_filter_destruct(x, b), b)
  ELSE Destroyed(x, b)

\* _bufferevent_decref_and_unlock.
Decref(x, b) ==
  IF x.bev[b].ref > 1 THEN [x EXCEPT !.bev[b].ref = @ - 1]
  ELSE IF Kind[b] = "filter" THEN SocketDecref(Destroyed(be_filter_destruct(x, b), b), Link[b])
  ELSE Destroyed(x, b)

bufferevent_free(x, b) == Decref([x EXCEPT !.bev[b].cb = "none", !.bev[b].user = FALSE], b)

-------------------------------------------------------------------------------
bufferevent_socket_outbuf_cb(x, b) ==
  IF "w" \in x.bev[b].en /\ x.bev[b].sus["w"] = {} THEN be_socket_enable(x, b, {"w"}) ELSE x

\* The filter on a bufferevent.
Above(x, u) == CHOOSE f \in Bev : Kind[f] = "filter" /\ Link[f] = u

\* be_filter_process_input.  A filter takes all that it may; it returns BEV_OK
\* if it wrote something, be_null_filter only if it wrote nothing.  limited is
\* mode BEV_NORMAL.
FilterLimit(mark, n, limited, len) ==
  IF limited /\ mark # 0 THEN Least(n, mark - len) ELSE n

\* ok: what the filter returned.
FilterIn(x, f, k) ==
  bufferevent_inbuf_wm_cb(bufferevent_inbuf_wm_cb(
    [x EXCEPT !.bev[Link[f]].in = @ - k, !.bev[f].in = @ + k,
              !.bev[f].news = @ \/ x.bev[f].in + k >= x.bev[f].rm.low], Link[f]), f)

be_filter_process_input(x, f, limited) ==
  LET high == x.bev[f].rm.high
      off == limited /\ ("r" \notin x.bev[f].en \/ (high # 0 /\ x.bev[f].in >= high))
      k == FilterLimit(high, x.bev[Link[f]].in, limited, x.bev[f].in)
  IN  CASE off -> [x |-> x, ok |-> FALSE]
        [] ~off /\ k = 0 -> [x |-> x, ok |-> NullFilter]
        [] OTHER -> [x |-> IF NullFilter THEN FilterIn(x, f, k)
                           ELSE TimerAdd(FilterIn(x, f, k), f, {"r"}), ok |-> ~NullFilter]

be_underlying_writebuf_full(x, f, limited) ==
  LET u == Link[f]
  IN  limited /\ x.bev[u].wm.high # 0 /\ x.bev[u].out >= x.bev[u].wm.high

\* One round of the outer loop.  more is written by the callback of the user,
\* while bufferevent_filtered_outbuf_cb is off.
WriteCallback(x, f, more) ==
  IF x.bev[f].cb = "user" /\ x.bev[f].opt = "now" THEN [x EXCEPT !.bev[f].out = @ + more]
  ELSE TellWrite(x, f)

OutputRound(x, f, limited, more) ==
  LET u == Link[f]
      k == FilterLimit(x.bev[u].wm.high, x.bev[f].out, limited, x.bev[u].out)
      moved == [x EXCEPT !.bev[f].out = @ - k, !.bev[u].out = @ + k, !.bev[f].idle = FALSE]
  IN  IF k = 0 THEN x
      ELSE IF NullFilter \/ x.bev[f].out - k > x.bev[f].wm.low
             THEN bufferevent_socket_outbuf_cb(moved, u)
      ELSE WriteCallback(bufferevent_socket_outbuf_cb(moved, u), f, more)

OutputOff(x, f, limited) ==
  \/ "w" \notin x.bev[f].en \/ x.bev[f].out = 0
  \/ be_underlying_writebuf_full(x, f, limited)

\* What the callback wrote is processed in another round.
SecondRound(x, f, limited) ==
  IF NullFilter \/ OutputOff(x, f, limited) THEN x ELSE OutputRound(x, f, limited, 0)

be_filter_process_output(x, f, limited, more) ==
  IF limited /\ OutputOff(x, f, TRUE) THEN x
  ELSE IF NullFilter \/ x.bev[f].out = 0 THEN OutputRound(x, f, limited, more)
  ELSE TimerAdd(SecondRound(OutputRound(x, f, limited, more), f, limited), f, {"w"})

FilterHasRead(r, f) == IF r.ok THEN ToldOfInput(r.x, f) ELSE r.x

be_filter_readcb(x, u) ==
  FilterHasRead(be_filter_process_input(x, Above(x, u), TRUE), Above(x, u))

be_filter_writecb(x, u, more) == be_filter_process_output(x, Above(x, u), TRUE, more)

be_filter_eventcb(x, u, what) == TellEvent(x, Above(x, u), what)

-------------------------------------------------------------------------------
\* Mutant of _bufferevent_run_readcb: what is pending is not scheduled.
ReadcbPends(x, b) ==
  IF x.bev[b].opt # "now" THEN [x EXCEPT !.bev[b].rp = TRUE] ELSE TellRead(x, b)

_bufferevent_run_readcb(x, b) ==
  IF x.bev[b].cb = "filter" /\ x.bev[b].opt = "now" THEN be_filter_readcb(x, b) ELSE TellRead(x, b)

_bufferevent_run_writecb(x, b, more) ==
  IF x.bev[b].cb = "filter" /\ x.bev[b].opt = "now"
    THEN be_filter_writecb(x, b, more) ELSE TellWrite(x, b)

_bufferevent_run_eventcb(x, b, what) ==
  IF x.bev[b].cb = "filter" /\ x.bev[b].opt = "now"
    THEN be_filter_eventcb(x, b, what) ELSE TellEvent(x, b, what)

\* One of the four steps of the deferred callbacks; the first is for "connected".
DeferredStep(x, b, k) ==
  LET v == x.bev[b]
      x1 == CASE k = 2 -> [x EXCEPT !.bev[b].rp = FALSE, !.bev[b].news = FALSE]
              [] k = 3 -> [x EXCEPT !.bev[b].wp = FALSE]
              [] OTHER -> [x EXCEPT !.bev[b].ep = IF k = 1 THEN @ \ {"connected"} ELSE {}]
      due == CASE k = 1 -> "connected" \in v.ep [] k = 2 -> v.rp [] k = 3 -> v.wp [] k = 4 -> v.ep # {}
  IN  IF ~due \/ v.cb = "none" THEN x
      ELSE IF v.cb = "user" THEN x1
      ELSE CASE k = 2 -> be_filter_readcb(x1, b)
             [] k = 3 -> be_filter_writecb(x1, b, 0)
             [] k = 1 -> be_filter_eventcb(x1, b, "connected")
             [] k = 4 -> IF v.ep = {} THEN x1 ELSE be_filter_eventcb(x1, b, "end")

\* at: the step after which the user frees it, or 0.
ThenFreed(x, b, here) == IF here /\ x.bev[b].user THEN bufferevent_free(x, b) ELSE x
LockedStep(x, b, k, at) == ThenFreed(DeferredStep(x, b, k), b, k = at)

bufferevent_run_deferred_callbacks_locked(x, b, at) ==
  Decref(LockedStep(LockedStep(LockedStep(LockedStep(
    [x EXCEPT !.bev[b].dq = FALSE], b, 1, at), b, 2, at), b, 3, at), b, 4, at), b)

bufferevent_run_deferred_callbacks_unlocked(x, b) ==
  LET k == x.bev[b].run
      y == IF k = 1 THEN [x EXCEPT !.bev[b].dq = FALSE] ELSE x
  IN  IF k <= 4 THEN [DeferredStep(y, b, k) EXCEPT !.bev[b].run = k + 1]
      ELSE Decref([y EXCEPT !.bev[b].run = 0], b)

\* bufferevent_generic_read_timeout_cb, bufferevent_generic_write_timeout_cb.
GenericTimeout(x, b, d) ==
  Decref(TellEvent(bufferevent_disable(EvDel(Incref(x, b), b, {d}), b, {d}), b, "end"), b)

_bufferevent_generic_adj_timeouts(x, b) ==
  LET v == x.bev[b]
      on == {d \in v.en : v.sus[d] = {} /\ v.tmo /\ (d = "w" => v.out > 0)}
  IN  [x EXCEPT !.bev[b].ev = on]

PairIncref(x, b) == Incref(Incref(x, b), Link[b])

FlushIn(x, b, E)  == IF "r" \in E THEN be_pair_transfer(x, Link[b], b, TRUE) ELSE x
FlushOut(x, b, E) == IF "w" \in E THEN be_pair_transfer(x, b, Link[b], TRUE) ELSE x
FlushEof(x, b, mode) == IF mode = "finished" THEN TellEvent(x, Link[b], "end") ELSE x

\* Without a partner, and in mode BEV_NORMAL, it returns with the references and the
\* locks that it has taken.
KeptBy(x, b) == [Incref(x, b) EXCEPT !.bev[b].kept = @ + 1]
PairKept(x, b) == IF HasPartner(x, b) THEN KeptBy(KeptBy(x, b), Link[b]) ELSE KeptBy(x, b)

be_pair_flush(x, b, E, mode) ==
  IF ~HasPartner(x, b) \/ mode = "normal" THEN PairKept(x, b)
  ELSE Decref(Decref(FlushEof(FlushOut(FlushIn(PairIncref(x, b), b, E), b, E), b, mode), Link[b]), b)

\* The value that it returns tells the user, not a callback.
FilterFlushOut(x, f, E, mode, news) ==
  IF "w" \in E THEN be_filter_process_output([x EXCEPT !.bev[f].news = news], f, mode = "normal", 0)
  ELSE [x EXCEPT !.bev[f].news = news]

be_filter_flush(x, f, E, mode) ==
  FilterFlushOut(IF "r" \in E THEN be_filter_process_input(x, f, mode = "normal").x ELSE x,
                 f, E, mode, x.bev[f].news)

bufferevent_flush(x, b, E, mode) ==
  CASE Kind[b] = "socket" -> x
    [] Kind[b] = "pair"   -> be_pair_flush(x, b, E, mode)
    [] Kind[b] = "filter" -> be_filter_flush(x, b, E, mode)
===============================================================================
