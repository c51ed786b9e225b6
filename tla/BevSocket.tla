-------------------------------- MODULE BevSocket --------------------------------
(***************************************************************************)
(* bufferevent_sock.c: what the loop does with a socket, and the operations*)
(* of users on sockets, pairs, filters and the rate limits, each of which  *)
(* runs with the lock of its bufferevent.                                  *)
(***************************************************************************)
EXTENDS BevRatelim

CONSTANTS
  MaxBytes,   \* bound of a buffer
  RMarks, WMarks,  \* the watermarks that may be set
  MaxLim,     \* bound of the buckets, above and below 0
  FlushModes, \* of {"normal", "flush", "finished"}
  FlushAlone, \* users flush one of a pair whose partner is freed
  SetfdConnecting  \* users set the descriptor while a connection is being made

ReadEver == 2 * MaxBytes

\* w.may: the operations that users use in a behaviour.
May(op) == op \in w.may

\* bufferevent_readcb.  got: the bytes that the kernel has, -1 an error, 0 the
\* end of the stream, 99 nothing now.  A read of no bytes looks like the end.
ReadSome(x, b, res, busy) ==
  DecrementBuckets(bufferevent_inbuf_wm_cb(
    [x EXCEPT !.bev[b].in = @ + res,
              !.bev[b].news = @ \/ (x.bev[b].cb = "user" /\ x.bev[b].in + res >= x.bev[b].rm.low)],
    b), b, "r", res, busy)

HasRead(x, b) == IF x.bev[b].in >= x.bev[b].rm.low THEN _bufferevent_run_readcb(x, b) ELSE x

Ended(x, b, d) == _bufferevent_run_eventcb(bufferevent_disable(x, b, {d}), b, "end")

ReadNow(x, b, got, busy) ==
  LET max == MaxToMove(x, b, "r", ReadEver)
      room == x.bev[b].rm.high - x.bev[b].in
      howmuch == IF x.bev[b].rm.high = 0 \/ room > max THEN max ELSE room
      res == IF got > 0 THEN Least(got, howmuch) ELSE got
  IN  IF x.bev[b].sus["r"] # {} \/ got = 99 THEN x
      ELSE IF res > 0 THEN HasRead(ReadSome(x, b, res, busy), b)
      ELSE [Ended(x, b, "r") EXCEPT !.falseEof = @ \/ got > 0]

ReadOrStop(x, b, got, n, busy) ==
  IF x.bev[b].rm.high # 0 /\ x.bev[b].in >= x.bev[b].rm.high THEN suspend(x, b, "r", "WM")
  ELSE ReadNow(FindSuspended(bufferevent_update_buckets(x, b, n), b, "r"), b, got, busy)

bufferevent_readcb(x, b, got, n, busy) == Decref(ReadOrStop(Incref(x, b), b, got, n, busy), b)

\* The first part of bufferevent_writecb, when a connection is made or fails.
\* does: what the user does when he is told at once.
ConnectedCallback(x, b, does) ==
  CASE does = "free"    -> bufferevent_free(x, b)
    [] does = "disable" -> bufferevent_disable(x, b, {"w"})
    [] OTHER -> _bufferevent_run_eventcb(x, b, "connected")

ConnectEnds(x, b, ok, does) ==
  IF ok THEN ConnectedCallback([x EXCEPT !.bev[b].connecting = FALSE], b, does)
  ELSE _bufferevent_run_eventcb(
         [EvDel(x, b, Dirs) EXCEPT !.bev[b].connecting = FALSE, !.bev[b].refused = FALSE,
                                   !.bev[b].dead = TRUE], b, "end")

\* The rest of it.  took: the bytes that the kernel takes, -1 an error, 99
\* nothing now.
Drained(x, b) == IF x.bev[b].out = 0 THEN EvDel(x, b, {"w"}) ELSE x

HasWritten(x, b, more) ==
  IF x.bev[b].out <= x.bev[b].wm.low THEN _bufferevent_run_writecb(x, b, more) ELSE x

WriteNow(x, b, took, connected, more, busy) ==
  LET v == x.bev[b]
      res == IF took > 0 THEN Least(took, Least(v.out, MaxToMove(x, b, "w", ReadEver))) ELSE took
  IN  IF v.sus["w"] # {} \/ (v.out > 0 /\ took = 99) THEN x
      ELSE IF v.out = 0
             THEN IF connected THEN EvDel(x, b, {"w"}) ELSE HasWritten(EvDel(x, b, {"w"}), b, more)
      ELSE IF res <= 0 THEN [Ended(x, b, "w") EXCEPT !.falseEof = @ \/ took > 0]
      ELSE HasWritten(Drained(DecrementBuckets([x EXCEPT !.bev[b].out = @ - res], b, "w", res, busy),
                              b), b, more)

WriteOut(x, b, took, n, connected, more, busy) ==
  WriteNow(FindSuspended(bufferevent_update_buckets(x, b, n), b, "w"), b, took, connected, more, busy)

AfterConnect(x, b, took, n, more, busy) ==
  IF "w" \notin x.bev[b].en \/ x.bev[b].sus["w"] # {} THEN EvDel(x, b, {"w"})
  ELSE WriteOut(x, b, took, n, TRUE, more, busy)

\* conn: what the kernel says of a connection: "made", "failed", "not yet".
WriteOrConnect(x, b, conn, does, took, n, more, busy) ==
  LET v == x.bev[b]
  IN  IF ~v.connecting THEN WriteOut(x, b, took, n, FALSE, more, busy)
      ELSE IF v.refused \/ conn = "failed" THEN ConnectEnds(x, b, FALSE, does)
      ELSE IF conn = "not yet" THEN x
      ELSE AfterConnect(ConnectEnds(x, b, TRUE, does), b, took, n, more, busy)

bufferevent_writecb(x, b, conn, does, took, n, more, busy) ==
  Decref(WriteOrConnect([Incref(x, b) EXCEPT !.bev[b].act = FALSE],
                        b, conn, does, took, n, more, busy), b)

\* EV_TIMEOUT alone in bufferevent_readcb and bufferevent_writecb.
SocketTimeout(x, b, d) == Decref(Ended(Incref(x, b), b, d), b)

be_socket_setfd(x, b, fd) ==
  IF fd THEN bufferevent_enable([EvDel(x, b, Dirs) EXCEPT !.bev[b].fd = TRUE, !.bev[b].dead = FALSE],
                                b, x.bev[b].en)
  ELSE [EvDel(x, b, Dirs) EXCEPT !.bev[b].fd = FALSE, !.bev[b].dead = FALSE]

\* r: what evutil_socket_connect returns, "fails", "in progress", "made" or
\* "refused".
bufferevent_socket_connect(x, b, r) ==
  CASE r = "fails" -> _bufferevent_run_eventcb(x, b, "end")
    [] r = "in progress" ->
         [be_socket_enable(be_socket_setfd(x, b, TRUE), b, {"w"}) EXCEPT !.bev[b].connecting = TRUE]
    [] OTHER -> [be_socket_setfd(x, b, TRUE)
                   EXCEPT !.bev[b].connecting = TRUE, !.bev[b].act = TRUE,
                          !.bev[b].refused = x.bev[b].refused \/ r = "refused"]

\* A lookup that cannot be started does not give its reference back.
bufferevent_socket_connect_hostname(x, b) ==
  Incref([suspend(suspend(x, b, "w", "LOOKUP"), b, "r", "LOOKUP")
            EXCEPT !.bev[b].lookups = @ + 1], b)

\* r = "not found": the lookup failed.
LookupEnded(x, b, r) ==
  IF r = "not found" THEN _bufferevent_run_eventcb(x, b, "end")
  ELSE bufferevent_socket_connect(x, b, r)

bufferevent_connect_getaddrinfo_cb(x, b, r) ==
  Decref(LookupEnded([unsuspend(unsuspend(x, b, "w", "LOOKUP"), b, "r", "LOOKUP")
                        EXCEPT !.bev[b].lookups = @ - 1], b, r), b)

-------------------------------------------------------------------------------
\* What users do to buffers.  Output of a filter is counted as idle when the
\* filter does not look at it.
bufferevent_write(x, b, more) ==
  LET y == [x EXCEPT !.bev[b].out = @ + 1]
  IN  CASE Kind[b] = "socket" -> bufferevent_socket_outbuf_cb(y, b)
        [] Kind[b] = "pair"   -> be_pair_outbuf_cb(y, b)
        [] Kind[b] = "filter" ->
             be_filter_process_output([y EXCEPT !.bev[b].idle = @ \/ "w" \notin x.bev[b].en],
                                      b, TRUE, more)

bufferevent_read(x, b, k) ==
  bufferevent_inbuf_wm_cb([x EXCEPT !.bev[b].in = @ - k, !.bev[b].news = FALSE], b)

bufferevent_set_timeouts(x, b, on) ==
  IF Kind[b] = "socket" THEN [x EXCEPT !.bev[b].tmo = on]
  ELSE _bufferevent_generic_adj_timeouts([x EXCEPT !.bev[b].tmo = on], b)

bufferevent_setcb(x, b, on) ==
  [x EXCEPT !.bev[b].cb = IF on THEN "user" ELSE "none", !.bev[b].news = @ /\ on]

-------------------------------------------------------------------------------
\* The actions.
Usable(b) == Live(w, b) /\ w.bev[b].user /\ b # w.adding.bev
Runs(b)   == Live(w, b) /\ b # w.adding.bev
Pending(b) == w.bev[b].rp \/ w.bev[b].wp \/ w.bev[b].ep # {}
IsSocket(b) == Kind[b] = "socket"
Buffered ==
  LET size(b) == w.bev[b].in + w.bev[b].out
  IN  FoldSet(LAMBDA b, n : size(b) + n, 0, Bev)
BusySets == SUBSET {m \in Bev : w.bev[m].group}

\* What other threads have locked while b runs.
Locks(b, busy) ==
  /\ busy # {} => w.bev[b].group /\ b \notin busy
  /\ w.bev[b].group /\ w.adding.bev # NoBev => w.adding.bev \in busy

\* EV_READ; ticks go by only with a limit.
Ticks(b) == IF w.bev[b].cfg = 0 THEN {0} ELSE {0, 1}

Read(b, got, n, busy) ==
  /\ Runs(b) /\ IsSocket(b) /\ "r" \in w.bev[b].ev /\ w.bev[b].fd
  /\ w.bev[b].connecting => got = -1
  /\ got \in {-1, 0} => May("end")
  /\ got \in {1, 2} => Buffered + got <= MaxBytes
  /\ Locks(b, busy)
  /\ w' = bufferevent_readcb(w, b, got, n, busy)

Write(b, conn, does, took, n, more, busy) ==
  LET v == w.bev[b]
  IN  /\ Runs(b) /\ IsSocket(b) /\ (("w" \in v.ev /\ v.fd) \/ v.act)
      /\ ~v.connecting => conn = "made" /\ does = "nothing"
      /\ does # "nothing" => conn = "made" /\ v.user /\ v.cb = "user" /\ v.opt = "now"
      /\ v.out = 0 => took = 1
      /\ took = -1 => May("end")
      /\ more > 0 => v.cb = "filter"
      /\ v.act /\ "w" \notin v.ev => conn # "not yet"
      /\ Locks(b, busy)
      /\ w' = bufferevent_writecb(w, b, conn, does, took, n, more, busy)

Timeout(b, d) ==
  /\ Runs(b) /\ w.bev[b].tmo /\ d \in w.bev[b].ev
  /\ w' = IF IsSocket(b) THEN SocketTimeout(w, b, d) ELSE GenericTimeout(w, b, d)

\* at > 0: the user frees it in a callback of his.
RunDeferred(b, at) ==
  /\ Runs(b) /\ w.bev[b].dq /\ w.bev[b].opt = "locked" /\ (at > 0 => w.bev[b].user /\ w.bev[b].cb = "user")
  /\ w' = bufferevent_run_deferred_callbacks_locked(w, b, at)

\* The queue has one thread: a bufferevent runs again when it has run.
RunUnlocked(b) ==
  /\ Runs(b) /\ w.bev[b].opt = "unlocked" /\ (w.bev[b].dq \/ w.bev[b].run > 0)
  /\ w' = bufferevent_run_deferred_callbacks_unlocked(
            IF w.bev[b].run = 0 THEN [w EXCEPT !.bev[b].run = 1] ELSE w, b)

LookedUp(b, r) ==
  Runs(b) /\ w.bev[b].lookups > 0 /\ w' = bufferevent_connect_getaddrinfo_cb(w, b, r)

Loop(b) ==
  \/ \E got \in {-1, 0, 1, 2, 99}, n \in Ticks(b), busy \in BusySets : Read(b, got, n, busy)
  \/ \E conn \in {"made", "failed", "not yet"}, does \in {"nothing", "free", "disable"},
        took \in {-1, 1, 2, 99}, n \in Ticks(b), more \in {0, 1}, busy \in BusySets :
        Write(b, conn, does, took, n, more, busy)
  \/ \E d \in Dirs : Timeout(b, d)
  \/ \E at \in {0, 1, 2, 3, 4} : RunDeferred(b, at)
  \/ RunUnlocked(b)
  \/ \E r \in {"fails", "in progress", "made", "refused", "not found"} : LookedUp(b, r)

\* A filter made with BEV_OPT_CLOSE_ON_FREE frees the one under it, which its
\* user then does not.
GivenAway(b) ==
  \E f \in Bev : Kind[f] = "filter" /\ Link[f] = b /\ Live(w, f) /\ w.bev[f].closes

Frees(b) ==
  /\ May("free") /\ Usable(b) /\ (GivenAway(b) => May("free_both"))
  /\ w' = bufferevent_free(w, b)

EnablesOrDisables(b) ==
  \/ \E E \in {{"r"}, {"w"}} : w' = bufferevent_enable(w, b, E)
  \/ \E E \in {{"r"}, {"w"}} : w' = bufferevent_disable(w, b, E)

Transfers(b) ==
  \/ \E more \in {0, 1} :
       /\ May("write") /\ Buffered < MaxBytes
       /\ more = 1 => Kind[b] = "filter"
       /\ w' = bufferevent_write(w, b, more)
  \/ \E k \in {1, 2} : k <= w.bev[b].in /\ w' = bufferevent_read(w, b, k)

Configures(b) ==
  \/ May("disable_hard") /\ IsSocket(b) /\ w' = bufferevent_disable_hard(w, b, Dirs)
  \/ \E m \in RMarks : May("marks") /\ (m.low > 0 => May("low")) /\ w' = bufferevent_setwatermark(w, b, "r", m)
  \/ \E m \in WMarks : May("marks") /\ IsSocket(b) /\ w' = bufferevent_setwatermark(w, b, "w", m)
  \/ May("timeouts") /\ w' = bufferevent_set_timeouts(w, b, TRUE)
  \/ \E on \in BOOLEAN :
       /\ May("setcb") /\ ~(on /\ Pending(b))
       /\ w' = bufferevent_setcb(w, b, on)
  \/ \E E \in SUBSET Dirs \ {{}}, mode \in FlushModes :
       /\ May("flush") /\ (Kind[b] = "pair" => HasPartner(w, b) \/ FlushAlone)
       /\ w' = bufferevent_flush(w, b, E, mode)

\* The user leaves the one that is under a filter alone.
User(b) ==
  /\ Usable(b) /\ w.bev[b].cb # "filter"
  /\ (May("toggle") /\ EnablesOrDisables(b)) \/ Transfers(b) \/ Configures(b)

\* A socket that is to be connected, or to be used for another connection.
\* MaxLookups bounds the lookups at a time.
MaxLookups == 1
Connect(b) ==
  \/ \E r \in {"fails", "in progress", "made", "refused"} : w' = bufferevent_socket_connect(w, b, r)
  \/ w.bev[b].lookups < MaxLookups /\ w' = bufferevent_socket_connect_hostname(w, b)
  \/ \E fd \in BOOLEAN :
       (w.bev[b].connecting => SetfdConnecting) /\ w' = be_socket_setfd(w, b, fd)

InBounds ==
  /\ \A b \in Bev, d \in Dirs : w.bev[b].lim[d] \in -MaxLim .. MaxLim
  /\ \A d \in Dirs : w.grp.lim[d] \in -MaxLim .. MaxLim

\* bufferevent_get_read_limit updates the bucket too.
Limit(b) ==
  \/ \E c \in DOMAIN Rates \cup {0} : w' = bufferevent_set_rate_limit(w, b, c)
  \/ w.bev[b].cfg # 0 /\ w' = bufferevent_update_buckets(w, b, 1)
  \/ \E d \in Dirs, n \in {-1, 1} :
       /\ w.bev[b].cfg # 0 /\ w.bev[b].lim[d] - n <= Rates[w.bev[b].cfg].max
       /\ w' = DecrementLimit(w, b, d, n)

Join(b) ==
  \/ ~w.bev[b].group /\ w.adding.bev = NoBev /\ w' = AddToGroup(w, b)
  \/ w.bev[b].group /\ w' = bufferevent_remove_from_rate_limit_group(w, b)

Refill(b, n) == Runs(b) /\ w.bev[b].refill /\ w' = _bev_refill_callback(w, b, n)

\* The lock of the one that is being added is held.
GroupRefill(n, busy) ==
  /\ w.adding.bev # NoBev => w.adding.bev \in busy
  /\ w' = _bev_group_refill_callback(w, n, busy)

Joined == w.adding.bev # NoBev /\ w' = AddedToGroup(w)

Group ==
  \/ \E c \in DOMAIN Rates : w' = bufferevent_rate_limit_group_set_cfg(w, c)
  \/ \E n \in MinShares : w' = bufferevent_rate_limit_group_set_min_share(w, n)
  \/ \E d \in Dirs, n \in {-1, 1}, busy \in BusySets :
       /\ w.adding.bev # NoBev => w.adding.bev \in busy
       /\ w.grp.lim[d] - n <= Rates[w.grp.cfg].max
       /\ w' = DecrementGroup(w, d, n, busy)
-------------------------------------------------------------------------------
\* The events that are pending are those that the state of a bufferevent asks
\* for: reading and writing are watched exactly when they are enabled and not
\* suspended, the outcome of a connection is always, no reason to suspend is
\* left behind, and no data waits that could be moved.
SocketWatched(b) ==
  LET v == w.bev[b]
      on(d) == d \in v.en /\ v.sus[d] = {}
  IN  /\ "r" \in v.ev => on("r")
      /\ "w" \in v.ev => on("w") \/ v.connecting
      /\ on("r") /\ v.fd /\ ~v.dead => "r" \in v.ev
      /\ on("w") /\ v.out > 0 /\ v.fd /\ ~v.dead => "w" \in v.ev
      /\ v.connecting => "w" \in v.ev \/ v.act

PairWatched(b) ==
  LET d == Link[b]
  IN  HasPartner(w, b) /\ be_pair_wants_to_talk(w, b, d) =>
        w.bev[d].rm.high > 0 /\ w.bev[d].in >= w.bev[d].rm.high

FilterWatched(f) ==
  LET v == w.bev[f]
      u == w.bev[Link[f]]
  IN  /\ "FILT_READ" \in u.sus["r"] <=> ~("r" \in v.en /\ v.sus["r"] = {})
      /\ "w" \in v.en /\ v.out > 0 /\ ~v.idle /\ u.cb = "filter" => u.out > 0 \/ u.wp

Watched ==
  \A b \in Bev : Live(w, b) =>
    /\ CASE Kind[b] = "socket" -> SocketWatched(b)
         [] Kind[b] = "pair"   -> PairWatched(b)
         [] Kind[b] = "filter" -> FilterWatched(b)
    /\ "WM" \in w.bev[b].sus["r"] => w.bev[b].rm.high > 0 /\ w.bev[b].in >= w.bev[b].rm.high
    /\ "LOOKUP" \in w.bev[b].sus["r"] \cup w.bev[b].sus["w"] => w.bev[b].lookups > 0

\* A bufferevent that is out of bandwidth is suspended, and something will resume
\* it: its timer, or the group that is suspended too or is to try again.  No
\* read or write of 0 bytes is taken for the end of the stream.
Resumed ==
  /\ ~w.falseEof
  /\ \A d \in Dirs : w.grp.lim[d] <= 0 => w.grp.sus[d]
  /\ \A b \in Bev, d \in Dirs : Live(w, b) =>
       LET v == w.bev[b]
       IN  /\ "BW" \in v.sus[d] => v.cfg # 0 /\ v.refill
           /\ v.cfg # 0 /\ v.lim[d] <= 0 => "BW" \in v.sus[d]
           /\ "BW_GROUP" \in v.sus[d] => v.group /\ (w.grp.sus[d] \/ w.grp.pend[d])

\* Who refers to a bufferevent: its user, the queue of deferred callbacks and those
\* that run, a lookup and a filter on it.
One(c) == IF c THEN 1 ELSE 0
Refs(b) ==
  LET v == w.bev[b]
  IN  One(v.user) + One(v.dq) + One(v.run > 0) + v.lookups
        + Cardinality({f \in Bev : Kind[f] = "filter" /\ Link[f] = b /\ Live(w, f)})

\* The references of a bufferevent are those: none is freed while one of them is left,
\* and all are freed then.
RefsRight == \A b \in Bev : w.bev[b].ref = Refs(b)

\* However pairs are flushed: the count has only the references that be_pair_flush has
\* not given back besides, so that a bufferevent is kept too long, but never freed early.
RefsCounted == \A b \in Bev : w.bev[b].ref = Refs(b) + w.bev[b].kept

\* The user is told: what is pending is queued or is to be run, data that came
\* is pending, and the callback that is called belongs to something that lives.
Told ==
  \A b \in Bev : Live(w, b) =>
    LET v == w.bev[b]
        soon(k) == v.dq \/ v.run \in 1 .. k
    IN  /\ v.cb # "none" =>
             (v.rp => soon(2)) /\ (v.wp => soon(3)) /\ (v.ep # {} => soon(4))
        /\ v.news /\ v.cb = "user" => v.rp
        /\ v.cb = "filter" => Live(w, Above(w, b))

\* A timer of one of a pair is active only while it is willing to read, or has
\* something to write (the timeouts of bufferevent_set_timeouts).
TimersWhileTrying ==
  \A b \in Bev : Live(w, b) /\ Kind[b] = "pair" =>
    \A d \in w.bev[b].ev :
      d \in w.bev[b].en /\ w.bev[b].sus[d] = {} /\ (d = "w" => w.bev[b].out > 0)

\* A filter that reads and has room leaves nothing in the input under it, and one
\* that writes nothing in its output while the output under it is empty.
FilterKeepsUp ==
  \A f \in Bev : Live(w, f) /\ Kind[f] = "filter" =>
    LET v == w.bev[f]
        u == w.bev[Link[f]]
    IN  u.cb = "filter" =>
          /\ "r" \in v.en /\ v.sus["r"] = {} /\ u.in > 0 => u.rp
          /\ "w" \in v.en /\ v.out > 0 => u.out > 0 \/ u.wp
===============================================================================
