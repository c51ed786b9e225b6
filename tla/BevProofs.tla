------------------------------- MODULE BevProofs -------------------------------
(***************************************************************************)
(* Proofs about the references of bufferevents (bufferevent.c, _sock.c,    *)
(* _filter.c, _pair.c and _ratelim.c): RefsRight, the property of the run  *)
(* Streams.  Most operations give and take no reference but that of the    *)
(* deferred queue (Kept); the others are followed with the references that *)
(* they have taken themselves (Bal).                                       *)
(***************************************************************************)
EXTENDS MCStreams, ProofFacts

-------------------------------------------------------------------------------
\* What the references are about.

\* b has a filter on it.
Under(b) == \E g \in Bev : Kind[g] = "filter" /\ Link[g] = b

\* The fields that the references are about.
Counted == {"life", "user", "ref", "dq", "run", "lookups", "kept", "cb", "closes", "opt"}

\* No pair is flushed in a way that keeps references.
NoLeaks == "normal" \notin FlushModes /\ ~FlushAlone

\* What the fields of a bufferevent are: only a filter sets its own callbacks, and
\* a name is looked up for a socket of the user.
BevOk(v, b) ==
  /\ Counted \subseteq DOMAIN v
  /\ v.ref \in Int /\ v.lookups \in Nat /\ v.run \in Nat
  /\ v.kept \in Nat /\ (v.kept > 0 => ~NoLeaks /\ Kind[b] = "pair")
  /\ v.user \in BOOLEAN /\ v.dq \in BOOLEAN
  /\ v.opt = "now" => v.dq = FALSE /\ v.run = 0
  /\ v.cb \in {"none", "user", "filter"}
  /\ v.cb = "filter" => Under(b)
  /\ v.lookups > 0 => ~Under(b)

\* What the variable w is.
World(x) ==
  /\ {"bev", "may", "grp", "adding"} \subseteq DOMAIN x /\ DOMAIN x.bev = Bev
  /\ "members" \in DOMAIN x.grp /\ x.grp.members \in Seq(Bev)
  /\ "bev" \in DOMAIN x.adding /\ x.adding.bev \in Bev \cup {NoBev}
  /\ \A b \in Bev : BevOk(x.bev[b], b)

\* The references are the same, up to the one that the deferred queue has.
Same(r, v) ==
  /\ r.life = v.life /\ r.user = v.user /\ r.run = v.run /\ r.lookups = v.lookups /\ r.kept = v.kept
  /\ r.cb = v.cb /\ r.closes = v.closes /\ r.opt = v.opt
  /\ r.ref - One(r.dq) = v.ref - One(v.dq)

\* An operation that gives and takes no reference but the queue's.
KeptRefs(y, x) ==
  /\ World(y) /\ y.may = x.may
  /\ \A b \in Bev : Same(y.bev[b], x.bev[b])

\* The same, when the addition to a group goes on.
Kept(y, x) == KeptRefs(y, x) /\ y.adding = x.adding

\* Filters are on sockets of their own, and the partner in a pair is in a pair.
Structure ==
  /\ NoBev \notin Bev
  /\ \A b \in Bev :
       /\ Kind[b] \in {"socket", "pair", "filter"}
       /\ Kind[b] = "filter" =>
            /\ Link[b] \in Bev /\ Kind[Link[b]] = "socket"
            /\ \A g \in Bev : Kind[g] = "filter" /\ Link[g] = Link[b] => g = b
       /\ Kind[b] = "pair" => Link[b] = NoBev \/ (Link[b] \in Bev /\ Kind[Link[b]] = "pair")

-------------------------------------------------------------------------------
\* Operations that give and take no reference but the queue's.

\* Nothing is done.
LEMMA KeptItself ==
  ASSUME NEW x, World(x)
  PROVE  Kept(x, x)
BY DEF Kept, KeptRefs, Same

\* One operation after the other.
LEMMA KeptAgain ==
  ASSUME NEW x, NEW y, NEW z, Kept(y, x), Kept(z, y)
  PROVE  Kept(z, x)
BY DEF Kept, KeptRefs, Same

\* What an operation of this kind keeps, taken apart.
LEMMA KeptWorld ==
  ASSUME NEW x, NEW y, Kept(y, x)
  PROVE  /\ World(y) /\ y.may = x.may /\ y.adding = x.adding
         /\ \A b \in Bev : Same(y.bev[b], x.bev[b])
BY DEF Kept, KeptRefs

\* Another record for one bufferevent.
LEMMA Patched ==
  ASSUME NEW x, World(x), NEW b \in Bev, NEW r, BevOk(r, b), Same(r, x.bev[b])
  PROVE  Kept([x EXCEPT !.bev[b] = r], x)
BY DEF Kept, KeptRefs, World, Same

\* event_del.
LEMMA EvDelKeeps ==
  ASSUME NEW x, World(x), NEW b \in Bev, NEW D
  PROVE  Kept(EvDel(x, b, D), x)
BY SMTT(30) DEF EvDel, Kept, KeptRefs, World, BevOk, Counted, Same, One

\* event_add of the timeouts that are set.
LEMMA TimerAddKeeps ==
  ASSUME NEW x, World(x), NEW b \in Bev, NEW D
  PROVE  Kept(TimerAdd(x, b, D), x)
BY SMTT(30) DEF TimerAdd, Kept, KeptRefs, World, BevOk, Counted, Same, One

\* be_socket_enable adds the events.
LEMMA SocketEnableKeeps ==
  ASSUME NEW x, World(x), NEW b \in Bev, NEW D
  PROVE  Kept(be_socket_enable(x, b, D), x)
BY SMTT(30) DEF be_socket_enable, Kept, KeptRefs, World, BevOk, Counted, Same, One

\* A reason to suspend is noted.
LEMMA SusAdded ==
  ASSUME NEW x, World(x), NEW b \in Bev, NEW d, NEW why
  PROVE  Kept([x EXCEPT !.bev[b].sus[d] = @ \cup {why}], x)
BY SMTT(30) DEF Kept, KeptRefs, World, BevOk, Counted, Same, One

\* A reason to suspend is gone.
LEMMA SusRemoved ==
  ASSUME NEW x, World(x), NEW b \in Bev, NEW d, NEW why
  PROVE  Kept([x EXCEPT !.bev[b].sus[d] = @ \ {why}], x)
BY SMTT(30) DEF Kept, KeptRefs, World, BevOk, Counted, Same, One

\* The contents of the buffers and what came are no references.
LEMMA DataSet ==
  ASSUME NEW x, World(x), NEW b \in Bev, NEW v
  PROVE  /\ Kept([x EXCEPT !.bev[b].in = v], x)
         /\ Kept([x EXCEPT !.bev[b].out = v], x)
         /\ Kept([x EXCEPT !.bev[b].news = v], x)
         /\ Kept([x EXCEPT !.bev[b].idle = v], x)
<1>1. Kept([x EXCEPT !.bev[b].in = v], x)
  BY SMTT(30) DEF Kept, KeptRefs, World, BevOk, Counted, Same, One
<1>2. Kept([x EXCEPT !.bev[b].out = v], x)
  BY SMTT(30) DEF Kept, KeptRefs, World, BevOk, Counted, Same, One
<1>3. Kept([x EXCEPT !.bev[b].news = v], x)
  BY SMTT(30) DEF Kept, KeptRefs, World, BevOk, Counted, Same, One
<1>4. Kept([x EXCEPT !.bev[b].idle = v], x)
  BY SMTT(30) DEF Kept, KeptRefs, World, BevOk, Counted, Same, One
<1> QED  BY <1>1, <1>2, <1>3, <1>4

\* be_socket_disable deletes the events.
LEMMA SocketDisableKeeps ==
  ASSUME NEW x, World(x), NEW b \in Bev, NEW D
  PROVE  Kept(be_socket_disable(x, b, D), x)
BY EvDelKeeps DEF be_socket_disable

\* bufferevent_suspend_read and _write of a socket.
LEMMA SocketSuspendKeeps ==
  ASSUME NEW x, World(x), NEW b \in Bev, NEW d, NEW why
  PROVE  Kept(SocketSuspend(x, b, d, why), x)
<1> DEFINE y == IF x.bev[b].sus[d] = {} THEN be_socket_disable(x, b, {d}) ELSE x
<1>1. Kept(y, x)
  BY KeptItself, SocketDisableKeeps
<1>2. SocketSuspend(x, b, d, why) = [y EXCEPT !.bev[b].sus[d] = @ \cup {why}]
  BY DEF SocketSuspend
<1> HIDE DEF y
<1>3. Kept([y EXCEPT !.bev[b].sus[d] = @ \cup {why}], y)
  BY <1>1, KeptWorld, SusAdded
<1> QED  BY <1>1, <1>2, <1>3, KeptAgain

\* bufferevent_unsuspend_read and _write of a socket.
LEMMA SocketUnsuspendKeeps ==
  ASSUME NEW x, World(x), NEW b \in Bev, NEW d, NEW why
  PROVE  Kept(SocketUnsuspend(x, b, d, why), x)
<1> DEFINE y == [x EXCEPT !.bev[b].sus[d] = @ \ {why}]
<1>1. Kept(y, x)
  BY SusRemoved
<1>2. SocketUnsuspend(x, b, d, why) \in {y, be_socket_enable(y, b, {d})}
  BY DEF SocketUnsuspend
<1> HIDE DEF y
<1>3. Kept(be_socket_enable(y, b, {d}), y)
  BY <1>1, KeptWorld, SocketEnableKeeps
<1> QED  BY <1>1, <1>2, <1>3, KeptAgain

\* be_filter_disable suspends the one under the filter.
LEMMA FilterDisableKeeps ==
  ASSUME Structure, NEW x, World(x), NEW b \in Bev, Kind[b] = "filter", NEW D
  PROVE  Kept(be_filter_disable(x, b, D), x)
<1> DEFINE y == EvDel(x, b, D)
<1>1. Kept(y, x)
  BY EvDelKeeps
<1>2. be_filter_disable(x, b, D) \in {y, SocketSuspend(y, Link[b], "r", "FILT_READ")}
  BY DEF be_filter_disable
<1> HIDE DEF y
<1>3. Kept(SocketSuspend(y, Link[b], "r", "FILT_READ"), y)
  BY <1>1, KeptWorld, SocketSuspendKeeps DEF Structure
<1> QED  BY <1>1, <1>2, <1>3, KeptAgain

\* be_filter_enable, and the one under the filter reads again.
LEMMA FilterEnableKeeps ==
  ASSUME Structure, NEW x, World(x), NEW b \in Bev, Kind[b] = "filter", NEW D
  PROVE  Kept(be_filter_enable(x, b, D), x)
<1> DEFINE y == TimerAdd(x, b, D)
<1>1. Kept(y, x)
  BY TimerAddKeeps
<1>2. be_filter_enable(x, b, D) \in {y, SocketUnsuspend(y, Link[b], "r", "FILT_READ")}
  BY DEF be_filter_enable
<1> HIDE DEF y
<1>3. Kept(SocketUnsuspend(y, Link[b], "r", "FILT_READ"), y)
  BY <1>1, KeptWorld, SocketUnsuspendKeeps DEF Structure
<1> QED  BY <1>1, <1>2, <1>3, KeptAgain

\* The disable of each kind.
LEMMA DisableKeeps ==
  ASSUME Structure, NEW x, World(x), NEW b \in Bev, NEW D
  PROVE  Kept(be_disable(x, b, D), x)
<1>1. CASE Kind[b] = "socket"
  BY <1>1, SocketDisableKeeps DEF be_disable
<1>2. CASE Kind[b] = "pair"
  BY <1>2, EvDelKeeps DEF be_disable
<1>3. CASE Kind[b] = "filter"
  BY <1>3, FilterDisableKeeps DEF be_disable
<1> QED  BY <1>1, <1>2, <1>3 DEF Structure

\* bufferevent_suspend_read and _write.
LEMMA SuspendKeeps ==
  ASSUME Structure, NEW x, World(x), NEW b \in Bev, NEW d, NEW why
  PROVE  Kept(suspend(x, b, d, why), x)
<1> DEFINE y == IF x.bev[b].sus[d] = {} THEN be_disable(x, b, {d}) ELSE x
<1>1. Kept(y, x)
  BY KeptItself, DisableKeeps
<1>2. suspend(x, b, d, why) = [y EXCEPT !.bev[b].sus[d] = @ \cup {why}]
  BY DEF suspend
<1> HIDE DEF y
<1>3. Kept([y EXCEPT !.bev[b].sus[d] = @ \cup {why}], y)
  BY <1>1, KeptWorld, SusAdded
<1> QED  BY <1>1, <1>2, <1>3, KeptAgain

\* SCHEDULE_DEFERRED: the queue has a reference, once.
LEMMA ScheduleKeeps ==
  ASSUME NEW x, World(x), NEW b \in Bev, x.bev[b].opt # "now"
  PROVE  Kept(Schedule(x, b), x)
<1>1. CASE x.bev[b].dq
  BY <1>1, KeptItself DEF Schedule
<1>2. CASE ~x.bev[b].dq
  <2> DEFINE r == [x.bev[b] EXCEPT !.dq = TRUE, !.ref = @ + 1]
  <2>1. BevOk(r, b)
    BY DEF BevOk, Counted, World
  <2>2. Same(r, x.bev[b])
    BY <1>2 DEF BevOk, Counted, World, Same, One
  <2>3. Schedule(x, b) = [x EXCEPT !.bev[b] = r]
    BY <1>2 DEF Schedule
  <2> QED  BY <2>1, <2>2, <2>3, Patched
<1> QED  BY <1>1, <1>2

\* _bufferevent_run_readcb: the callback is called, or it is deferred.
LEMMA TellReadKeeps ==
  ASSUME NEW x, World(x), NEW b \in Bev
  PROVE  Kept(TellRead(x, b), x)
<1> DEFINE y == [x EXCEPT !.bev[b].rp = TRUE]
           z == [x EXCEPT !.bev[b].news = FALSE]
<1>1. Kept(y, x) /\ Kept(z, x)
  BY SMTT(30) DEF Kept, KeptRefs, World, BevOk, Counted, Same, One
<1>2. TellRead(x, b) = IF x.bev[b].cb = "none" \/ x.bev[b].opt = "now" THEN z ELSE Schedule(y, b)
  BY DEF TellRead
<1> HIDE DEF y, z
<1>3. CASE x.bev[b].opt # "now"
  <2>1. Kept(Schedule(y, b), y)
    BY <1>1, <1>3, ScheduleKeeps, KeptWorld DEF Same
  <2> QED  BY <1>1, <1>2, <2>1, KeptAgain
<1> QED  BY <1>1, <1>2, <1>3

\* _bufferevent_run_writecb.
LEMMA TellWriteKeeps ==
  ASSUME NEW x, World(x), NEW b \in Bev
  PROVE  Kept(TellWrite(x, b), x)
<1> DEFINE y == [x EXCEPT !.bev[b].wp = TRUE]
<1>1. Kept(y, x)
  BY SMTT(30) DEF Kept, KeptRefs, World, BevOk, Counted, Same, One
<1>2. TellWrite(x, b) = IF x.bev[b].cb = "none" \/ x.bev[b].opt = "now" THEN x ELSE Schedule(y, b)
  BY DEF TellWrite
<1> HIDE DEF y
<1>3. CASE x.bev[b].opt # "now"
  <2>1. Kept(Schedule(y, b), y)
    BY <1>1, <1>3, ScheduleKeeps, KeptWorld DEF Same
  <2> QED  BY <1>1, <1>2, <2>1, KeptItself, KeptAgain
<1> QED  BY <1>2, <1>3, KeptItself

\* _bufferevent_run_eventcb.
LEMMA TellEventKeeps ==
  ASSUME NEW x, World(x), NEW b \in Bev, NEW what
  PROVE  Kept(TellEvent(x, b, what), x)
<1> DEFINE y == [x EXCEPT !.bev[b].ep = @ \cup {what}]
<1>1. Kept(y, x)
  BY SMTT(30) DEF Kept, KeptRefs, World, BevOk, Counted, Same, One
<1>2. TellEvent(x, b, what) = IF x.bev[b].cb = "none" \/ x.bev[b].opt = "now" THEN x ELSE Schedule(y, b)
  BY DEF TellEvent
<1> HIDE DEF y
<1>3. CASE x.bev[b].opt # "now"
  <2>1. Kept(Schedule(y, b), y)
    BY <1>1, <1>3, ScheduleKeeps, KeptWorld DEF Same
  <2> QED  BY <1>1, <1>2, <2>1, KeptItself, KeptAgain
<1> QED  BY <1>2, <1>3, KeptItself

-------------------------------------------------------------------------------
\* Pairs.

\* A side of a pair that has room reads again.
LEMMA PairResumedKeeps ==
  ASSUME NEW x, World(x), NEW d \in Bev
  PROVE  Kept(PairResumed(x, d), x)
BY KeptItself, TimerAddKeeps DEF PairResumed

\* bufferevent_inbuf_wm_cb of the side of a pair that receives.
LEMMA PairFilledKeeps ==
  ASSUME Structure, NEW x, World(x), NEW d \in Bev
  PROVE  Kept(PairFilled(x, d), x)
<1> DEFINE y == [x EXCEPT !.bev[d].sus["r"] = @ \ {"WM"}]
<1>1. Kept(y, x)
  BY SusRemoved
<1>2. PairFilled(x, d) \in {x, suspend(x, d, "r", "WM"), PairResumed(y, d)}
  BY DEF PairFilled
<1> HIDE DEF y
<1>3. Kept(PairResumed(y, d), x)
  BY <1>1, KeptWorld, PairResumedKeeps, KeptAgain
<1> QED  BY <1>2, <1>3, KeptItself, SuspendKeeps

\* What be_pair_transfer moves.
LEMMA MovedKeeps ==
  ASSUME NEW x, World(x), NEW s \in Bev, NEW d \in Bev, NEW n
  PROVE  Kept(Moved(x, s, d, n), x)
<1> DEFINE i == x.bev[s].out - n
           j == x.bev[d].in + n
           k == x.bev[d].news \/ x.bev[d].in + n >= x.bev[d].rm.low
           a == [x EXCEPT !.bev[s].out = i]
           b == [a EXCEPT !.bev[d].in = j]
           c == [b EXCEPT !.bev[d].news = k]
<1>1. Moved(x, s, d, n) = c
  BY DEF Moved
<1> HIDE DEF i, j, k
<1>2. Kept(a, x)
  BY DataSet
<1> HIDE DEF a
<1>3. Kept(b, a)
  BY <1>2, KeptWorld, DataSet
<1> HIDE DEF b
<1>4. Kept(c, b)
  BY <1>3, KeptWorld, DataSet
<1> HIDE DEF c
<1> QED  BY <1>1, <1>2, <1>3, <1>4, KeptAgain

\* The timers that be_pair_transfer sets.
LEMMA TransferTimersKeeps ==
  ASSUME NEW x, World(x), NEW d \in Bev
  PROVE  Kept(TransferTimers(x, d), x)
<1>1. Kept(EvDel(TimerAdd(x, d, {"r"}), d, {"w"}), x)
  BY TimerAddKeeps, EvDelKeeps, KeptWorld, KeptAgain
<1> QED  BY <1>1, TimerAddKeeps DEF TransferTimers

\* The reader is told.
LEMMA ToldOfInputKeeps ==
  ASSUME NEW x, World(x), NEW d \in Bev
  PROVE  Kept(ToldOfInput(x, d), x)
BY KeptItself, TellReadKeeps DEF ToldOfInput

\* The writer is told.
LEMMA ToldOfOutputKeeps ==
  ASSUME NEW x, World(x), NEW s \in Bev
  PROVE  Kept(ToldOfOutput(x, s), x)
BY KeptItself, TellWriteKeeps DEF ToldOfOutput

\* be_pair_transfer.
LEMMA PairTransferKeeps ==
  ASSUME Structure, NEW x, World(x), NEW s \in Bev, NEW d \in Bev, NEW ignore
  PROVE  Kept(be_pair_transfer(x, s, d, ignore), x)
<1>1. ASSUME NEW n
      PROVE  Kept(TransferTimers(PairFilled(Moved(x, s, d, n), d), d), x)
  <2>1. Kept(Moved(x, s, d, n), x)
    BY MovedKeeps
  <2>2. Kept(PairFilled(Moved(x, s, d, n), d), x)
    BY <2>1, PairFilledKeeps, KeptWorld, KeptAgain
  <2> QED  BY <2>2, TransferTimersKeeps, KeptWorld, KeptAgain
<1>2. \E n : be_pair_transfer(x, s, d, ignore) \in
        {x, ToldOfOutput(ToldOfInput(x, d), s),
         ToldOfOutput(ToldOfInput(TransferTimers(PairFilled(Moved(x, s, d, n), d), d), d), s)}
  <2> DEFINE high == x.bev[d].rm.high
             full == high # 0 /\ x.bev[d].in >= high
             n == IF high = 0 \/ full THEN x.bev[s].out ELSE Least(x.bev[s].out, high - x.bev[d].in)
  <2>1. be_pair_transfer(x, s, d, ignore) =
          IF full /\ ~ignore THEN x
          ELSE ToldOfOutput(ToldOfInput(IF n = 0 THEN x
                 ELSE TransferTimers(PairFilled(Moved(x, s, d, n), d), d), d), s)
    BY DEF be_pair_transfer
  <2> HIDE DEF n, full
  <2> QED  BY <2>1
<1>3. ASSUME NEW y, Kept(y, x)
      PROVE  Kept(ToldOfOutput(ToldOfInput(y, d), s), x)
  <2>1. Kept(ToldOfInput(y, d), x)
    BY <1>3, ToldOfInputKeeps, KeptWorld, KeptAgain
  <2> QED  BY <2>1, ToldOfOutputKeeps, KeptWorld, KeptAgain
<1> QED  BY <1>1, <1>2, <1>3, KeptItself

\* be_pair_wants_to_talk, and the transfer.
LEMMA TalkKeeps ==
  ASSUME Structure, NEW x, World(x), NEW s \in Bev, NEW d \in Bev
  PROVE  Kept(Talk(x, s, d), x)
BY KeptItself, PairTransferKeeps DEF Talk

\* A partner that lives is in the set.
LEMMA PartnerIs ==
  ASSUME Structure, NEW x, NEW b \in Bev, Kind[b] = "pair", HasPartner(x, b)
  PROVE  Link[b] \in Bev /\ Kind[Link[b]] = "pair" /\ x.bev[Link[b]].life = "live"
BY DEF Structure, HasPartner, Live

\* be_pair_outbuf_cb.
LEMMA PairOutbufKeeps ==
  ASSUME Structure, NEW x, World(x), NEW b \in Bev, Kind[b] = "pair"
  PROVE  Kept(be_pair_outbuf_cb(x, b), x)
BY KeptItself, TalkKeeps, PartnerIs DEF be_pair_outbuf_cb

\* be_pair_enable.
LEMMA PairEnableKeeps ==
  ASSUME Structure, NEW x, World(x), NEW b \in Bev, Kind[b] = "pair", NEW E
  PROVE  Kept(be_pair_enable(x, b, E), x)
<1> DEFINE y == TimerAdd(x, b, {d \in E : d = "r" \/ x.bev[b].out > 0})
<1>1. Kept(y, x)
  BY TimerAddKeeps
<1>2. be_pair_enable(x, b, E) = TalkFrom(TalkTo(y, b, E), b, E)
  BY DEF be_pair_enable
<1> HIDE DEF y
<1>3. Kept(TalkTo(y, b, E), x)
  <2>1. TalkTo(y, b, E) = y \/ (HasPartner(y, b) /\ TalkTo(y, b, E) = Talk(y, Link[b], b))
    BY DEF TalkTo
  <2> QED  BY <1>1, <2>1, PartnerIs, TalkKeeps, KeptWorld, KeptAgain
<1> DEFINE z == TalkTo(y, b, E)
<1> HIDE DEF z
<1>4. Kept(TalkFrom(z, b, E), x)
  <2>1. TalkFrom(z, b, E) = z \/ (HasPartner(z, b) /\ TalkFrom(z, b, E) = Talk(z, b, Link[b]))
    BY DEF TalkFrom
  <2>2. Kept(z, x)
    BY <1>3 DEF z
  <2> QED  BY <2>1, <2>2, PartnerIs, TalkKeeps, KeptWorld, KeptAgain
<1> QED  BY <1>2, <1>4 DEF z

\* The enable of each kind.
LEMMA EnableKeeps ==
  ASSUME Structure, NEW x, World(x), NEW b \in Bev, NEW D
  PROVE  Kept(be_enable(x, b, D), x)
<1>1. CASE Kind[b] = "socket"
  BY <1>1, SocketEnableKeeps DEF be_enable
<1>2. CASE Kind[b] = "pair"
  BY <1>2, PairEnableKeeps DEF be_enable
<1>3. CASE Kind[b] = "filter"
  BY <1>3, FilterEnableKeeps DEF be_enable
<1> QED  BY <1>1, <1>2, <1>3 DEF Structure

\* bufferevent_unsuspend_read and _write.
LEMMA UnsuspendKeeps ==
  ASSUME Structure, NEW x, World(x), NEW b \in Bev, NEW d, NEW why
  PROVE  Kept(unsuspend(x, b, d, why), x)
<1> DEFINE y == [x EXCEPT !.bev[b].sus[d] = @ \ {why}]
<1>1. Kept(y, x)
  BY SusRemoved
<1>2. unsuspend(x, b, d, why) \in {y, be_enable(y, b, {d})}
  BY DEF unsuspend, Resume
<1> HIDE DEF y
<1>3. Kept(be_enable(y, b, {d}), x)
  BY <1>1, KeptWorld, EnableKeeps, KeptAgain
<1> QED  BY <1>1, <1>2, <1>3

\* bufferevent_inbuf_wm_cb.
LEMMA InbufKeeps ==
  ASSUME Structure, NEW x, World(x), NEW b \in Bev
  PROVE  Kept(bufferevent_inbuf_wm_cb(x, b), x)
BY KeptItself, SuspendKeeps, UnsuspendKeeps DEF bufferevent_inbuf_wm_cb

\* bufferevent_setwatermark.
LEMMA SetwatermarkKeeps ==
  ASSUME Structure, NEW x, World(x), NEW b \in Bev, NEW d, NEW mark
  PROVE  Kept(bufferevent_setwatermark(x, b, d, mark), x)
<1> DEFINE y == IF d = "w" THEN [x EXCEPT !.bev[b].wm = mark] ELSE [x EXCEPT !.bev[b].rm = mark]
<1>1. Kept(y, x)
  <2>1. Kept([x EXCEPT !.bev[b].wm = mark], x)
    BY SMTT(30) DEF Kept, KeptRefs, World, BevOk, Counted, Same, One
  <2>2. Kept([x EXCEPT !.bev[b].rm = mark], x)
    BY SMTT(30) DEF Kept, KeptRefs, World, BevOk, Counted, Same, One
  <2> QED  BY <2>1, <2>2
<1>2. bufferevent_setwatermark(x, b, d, mark) \in {y, suspend(y, b, "r", "WM"), unsuspend(y, b, "r", "WM")}
  BY DEF bufferevent_setwatermark
<1> HIDE DEF y
<1> QED  BY <1>1, <1>2, KeptWorld, SuspendKeeps, UnsuspendKeeps, KeptAgain

\* bufferevent_enable.
LEMMA BuffereventEnableKeeps ==
  ASSUME Structure, NEW x, World(x), NEW b \in Bev, NEW D
  PROVE  Kept(bufferevent_enable(x, b, D), x)
<1> DEFINE y == [x EXCEPT !.bev[b].en = @ \cup D]
           E == {d \in D : x.bev[b].sus[d] = {}}
<1>1. Kept(y, x)
  BY SMTT(30) DEF Kept, KeptRefs, World, BevOk, Counted, Same, One
<1>2. bufferevent_enable(x, b, D) = EnableSome(y, b, E)
  BY DEF bufferevent_enable
<1> HIDE DEF y, E
<1>3. EnableSome(y, b, E) \in {y, be_enable(y, b, E)}
  BY DEF EnableSome
<1> QED  BY <1>1, <1>2, <1>3, KeptWorld, EnableKeeps, KeptAgain

\* bufferevent_disable.
LEMMA BuffereventDisableKeeps ==
  ASSUME Structure, NEW x, World(x), NEW b \in Bev, NEW D
  PROVE  /\ Kept(bufferevent_disable(x, b, D), x)
         /\ Kept(bufferevent_disable_hard(x, b, D), x)
<1> DEFINE y == [x EXCEPT !.bev[b].en = @ \ D,
                          !.bev[b].idle = @ \/ ("w" \in D /\ x.bev[b].out > 0)]
           z == [x EXCEPT !.bev[b].en = @ \ D, !.bev[b].connecting = FALSE]
<1>1. Kept(y, x)
  BY SMTT(30) DEF Kept, KeptRefs, World, BevOk, Counted, Same, One
<1>2. Kept(z, x)
  BY SMTT(30) DEF Kept, KeptRefs, World, BevOk, Counted, Same, One
<1>3. /\ bufferevent_disable(x, b, D) = be_disable(y, b, D)
      /\ bufferevent_disable_hard(x, b, D) = be_disable(z, b, D)
  BY DEF bufferevent_disable, bufferevent_disable_hard
<1> HIDE DEF y, z
<1> QED  BY <1>1, <1>2, <1>3, KeptWorld, DisableKeeps, KeptAgain

-------------------------------------------------------------------------------
\* Filters.

\* The filter on a bufferevent, if there is one, is the only one.
LEMMA AboveIs ==
  ASSUME NEW x, World(x), NEW b \in Bev, x.bev[b].cb = "filter"
  PROVE  Above(x, b) \in Bev /\ Kind[Above(x, b)] = "filter" /\ Link[Above(x, b)] = b
<1>1. \E g \in Bev : Kind[g] = "filter" /\ Link[g] = b
  BY DEF World, BevOk, Under
<1> QED  BY <1>1 DEF Above

\* bufferevent_socket_outbuf_cb.
LEMMA OutbufKeeps ==
  ASSUME NEW x, World(x), NEW b \in Bev
  PROVE  Kept(bufferevent_socket_outbuf_cb(x, b), x)
BY KeptItself, SocketEnableKeeps DEF bufferevent_socket_outbuf_cb

\* be_filter_process_input moves the input.
LEMMA FilterInKeeps ==
  ASSUME Structure, NEW x, World(x), NEW g \in Bev, Kind[g] = "filter", NEW k
  PROVE  Kept(FilterIn(x, g, k), x)
<1> DEFINE u == Link[g]
           i == x.bev[u].in - k
           j == x.bev[g].in + k
           n == x.bev[g].news \/ x.bev[g].in + k >= x.bev[g].rm.low
           a == [x EXCEPT !.bev[u].in = i]
           b == [a EXCEPT !.bev[g].in = j]
           c == [b EXCEPT !.bev[g].news = n]
<1>1. FilterIn(x, g, k) = bufferevent_inbuf_wm_cb(bufferevent_inbuf_wm_cb(c, u), g)
  BY DEF FilterIn
<1>2. u \in Bev
  BY DEF Structure
<1> HIDE DEF u, i, j, n
<1>3. Kept(a, x)
  BY <1>2, DataSet
<1> HIDE DEF a
<1>4. Kept(b, a)
  BY <1>3, KeptWorld, DataSet
<1> HIDE DEF b
<1>5. Kept(c, b)
  BY <1>4, KeptWorld, DataSet
<1> HIDE DEF c
<1>6. Kept(c, x)
  BY <1>3, <1>4, <1>5, KeptAgain
<1>7. Kept(bufferevent_inbuf_wm_cb(c, u), x)
  BY <1>2, <1>6, KeptWorld, InbufKeeps, KeptAgain
<1> QED  BY <1>1, <1>7, KeptWorld, InbufKeeps, KeptAgain

\* The input of a filter, and its watermark.
LEMMA ProcessInputKeeps ==
  ASSUME Structure, NEW x, World(x), NEW g \in Bev, Kind[g] = "filter", NEW limited
  PROVE  Kept(be_filter_process_input(x, g, limited).x, x)
<1>1. \E k : be_filter_process_input(x, g, limited).x
               \in {x, FilterIn(x, g, k), TimerAdd(FilterIn(x, g, k), g, {"r"})}
  <2> DEFINE high == x.bev[g].rm.high
             off == limited /\ ("r" \notin x.bev[g].en \/ (high # 0 /\ x.bev[g].in >= high))
             k == FilterLimit(high, x.bev[Link[g]].in, limited, x.bev[g].in)
  <2>1. be_filter_process_input(x, g, limited) =
          CASE off -> [x |-> x, ok |-> FALSE]
            [] ~off /\ k = 0 -> [x |-> x, ok |-> NullFilter]
            [] OTHER -> [x |-> IF NullFilter THEN FilterIn(x, g, k)
                               ELSE TimerAdd(FilterIn(x, g, k), g, {"r"}), ok |-> ~NullFilter]
    BY DEF be_filter_process_input
  <2> HIDE DEF off, k
  <2>2. CASE off
    BY <2>1, <2>2
  <2>3. CASE ~off /\ k = 0
    BY <2>1, <2>3
  <2>4. CASE ~off /\ k # 0
    BY <2>1, <2>4
  <2> QED  BY <2>2, <2>3, <2>4
<1>2. ASSUME NEW k
      PROVE  Kept(TimerAdd(FilterIn(x, g, k), g, {"r"}), x)
  BY FilterInKeeps, KeptWorld, TimerAddKeeps, KeptAgain
<1> QED  BY <1>1, <1>2, FilterInKeeps, KeptItself

\* The write callback of a filter whose output has gone.
LEMMA WriteCallbackKeeps ==
  ASSUME NEW x, World(x), NEW g \in Bev, NEW more
  PROVE  Kept(WriteCallback(x, g, more), x)
<1>1. Kept([x EXCEPT !.bev[g].out = @ + more], x)
  BY SMTT(30) DEF Kept, KeptRefs, World, BevOk, Counted, Same, One
<1> QED  BY <1>1, TellWriteKeeps DEF WriteCallback

\* A round of be_filter_process_output.
LEMMA OutputRoundKeeps ==
  ASSUME Structure, NEW x, World(x), NEW g \in Bev, Kind[g] = "filter", NEW limited, NEW more
  PROVE  Kept(OutputRound(x, g, limited, more), x)
<1> DEFINE u == Link[g]
           k == FilterLimit(x.bev[u].wm.high, x.bev[g].out, limited, x.bev[u].out)
           i == x.bev[g].out - k
           j == x.bev[u].out + k
           a == [x EXCEPT !.bev[g].out = i]
           b == [a EXCEPT !.bev[u].out = j]
           c == [b EXCEPT !.bev[g].idle = FALSE]
<1>1. OutputRound(x, g, limited, more) \in
        {x, bufferevent_socket_outbuf_cb(c, u), WriteCallback(bufferevent_socket_outbuf_cb(c, u), g, more)}
  BY DEF OutputRound
<1>2. u \in Bev
  BY DEF Structure
<1> HIDE DEF u, k, i, j
<1>3. Kept(a, x)
  BY <1>2, DataSet
<1> HIDE DEF a
<1>4. Kept(b, a)
  BY <1>2, <1>3, KeptWorld, DataSet
<1> HIDE DEF b
<1>5. Kept(c, b)
  BY <1>4, KeptWorld, DataSet
<1> HIDE DEF c
<1>6. Kept(c, x)
  BY <1>3, <1>4, <1>5, KeptAgain
<1>7. Kept(bufferevent_socket_outbuf_cb(c, u), x)
  BY <1>2, <1>6, KeptWorld, OutbufKeeps, KeptAgain
<1>8. Kept(WriteCallback(bufferevent_socket_outbuf_cb(c, u), g, more), x)
  BY <1>7, KeptWorld, WriteCallbackKeeps, KeptAgain
<1> QED  BY <1>1, <1>7, <1>8, KeptItself

\* be_filter_process_output, with its rounds.
LEMMA ProcessOutputKeeps ==
  ASSUME Structure, NEW x, World(x), NEW g \in Bev, Kind[g] = "filter", NEW limited, NEW more
  PROVE  Kept(be_filter_process_output(x, g, limited, more), x)
<1> DEFINE y == OutputRound(x, g, limited, more)
           z == SecondRound(y, g, limited)
<1>1. be_filter_process_output(x, g, limited, more) \in {x, y, TimerAdd(z, g, {"w"})}
  BY DEF be_filter_process_output
<1>2. Kept(y, x)
  BY OutputRoundKeeps
<1>3. z \in {y, OutputRound(y, g, limited, 0)}
  BY DEF SecondRound
<1> HIDE DEF y, z
<1>4. Kept(z, x)
  BY <1>2, <1>3, KeptWorld, OutputRoundKeeps, KeptAgain
<1>5. Kept(TimerAdd(z, g, {"w"}), x)
  BY <1>4, KeptWorld, TimerAddKeeps, KeptAgain
<1> QED  BY <1>1, <1>2, <1>5, KeptItself

\* be_filter_readcb, _writecb and _eventcb, called by the one under the filter.
LEMMA FilterCallbacksKeep ==
  ASSUME Structure, NEW x, World(x), NEW b \in Bev, x.bev[b].cb = "filter", NEW more, NEW what
  PROVE  /\ Kept(be_filter_readcb(x, b), x)
         /\ Kept(be_filter_writecb(x, b, more), x)
         /\ Kept(be_filter_eventcb(x, b, what), x)
<1> DEFINE g == Above(x, b)
           r == be_filter_process_input(x, g, TRUE)
<1>1. g \in Bev /\ Kind[g] = "filter"
  BY AboveIs
<1>2. /\ be_filter_readcb(x, b) \in {r.x, ToldOfInput(r.x, g)}
      /\ be_filter_writecb(x, b, more) = be_filter_process_output(x, g, TRUE, more)
      /\ be_filter_eventcb(x, b, what) = TellEvent(x, g, what)
  BY DEF be_filter_readcb, be_filter_writecb, be_filter_eventcb, FilterHasRead
<1> HIDE DEF g
<1>3. Kept(r.x, x)
  BY <1>1, ProcessInputKeeps
<1> HIDE DEF r
<1>4. Kept(ToldOfInput(r.x, g), x)
  BY <1>1, <1>3, KeptWorld, ToldOfInputKeeps, KeptAgain
<1> QED  BY <1>1, <1>2, <1>3, <1>4, ProcessOutputKeeps, TellEventKeeps

\* The callbacks of a bufferevent when they are called at once.
LEMMA RunCallbacksKeep ==
  ASSUME Structure, NEW x, World(x), NEW b \in Bev, NEW more, NEW what
  PROVE  /\ Kept(_bufferevent_run_readcb(x, b), x)
         /\ Kept(_bufferevent_run_writecb(x, b, more), x)
         /\ Kept(_bufferevent_run_eventcb(x, b, what), x)
BY FilterCallbacksKeep, TellReadKeeps, TellWriteKeeps, TellEventKeeps
   DEF _bufferevent_run_readcb, _bufferevent_run_writecb, _bufferevent_run_eventcb

\* One step of the deferred callbacks.
LEMMA DeferredStepKeeps ==
  ASSUME Structure, NEW x, World(x), NEW b \in Bev, NEW k \in 1 .. 4
  PROVE  Kept(DeferredStep(x, b, k), x)
<1> DEFINE e == IF k = 1 THEN x.bev[b].ep \ {"connected"} ELSE {}
           y2 == [x EXCEPT !.bev[b].rp = FALSE, !.bev[b].news = FALSE]
           y3 == [x EXCEPT !.bev[b].wp = FALSE]
           y1 == [x EXCEPT !.bev[b].ep = e]
<1>1. /\ k = 2 => \/ DeferredStep(x, b, k) \in {x, y2}
                  \/ x.bev[b].cb = "filter" /\ DeferredStep(x, b, k) = be_filter_readcb(y2, b)
      /\ k = 3 => \/ DeferredStep(x, b, k) \in {x, y3}
                  \/ x.bev[b].cb = "filter" /\ DeferredStep(x, b, k) = be_filter_writecb(y3, b, 0)
      /\ k \in {1, 4} =>
           \/ DeferredStep(x, b, k) \in {x, y1}
           \/ /\ x.bev[b].cb = "filter"
              /\ \E what \in {"connected", "end"} : DeferredStep(x, b, k) = be_filter_eventcb(y1, b, what)
  <2> DEFINE v == x.bev[b]
             due == CASE k = 1 -> "connected" \in v.ep [] k = 2 -> v.rp [] k = 3 -> v.wp [] k = 4 -> v.ep # {}
             z == CASE k = 2 -> y2 [] k = 3 -> y3
                    [] OTHER -> [x EXCEPT !.bev[b].ep = IF k = 1 THEN @ \ {"connected"} ELSE {}]
  <2>1. DeferredStep(x, b, k) =
          IF ~due \/ v.cb = "none" THEN x
          ELSE IF v.cb = "user" THEN z
          ELSE CASE k = 2 -> be_filter_readcb(z, b)
                 [] k = 3 -> be_filter_writecb(z, b, 0)
                 [] k = 1 -> be_filter_eventcb(z, b, "connected")
                 [] k = 4 -> IF v.ep = {} THEN z ELSE be_filter_eventcb(z, b, "end")
    BY DEF DeferredStep
  <2>2. z = IF k = 2 THEN y2 ELSE IF k = 3 THEN y3 ELSE y1
    OBVIOUS
  <2> HIDE DEF due, z
  <2>3. v.cb \in {"none", "user", "filter"}
    BY DEF World, BevOk
  <2> HIDE DEF y1, y2, y3
  <2>4. DeferredStep(x, b, k) \in {x, z} \/ v.cb = "filter"
    BY <2>1, <2>3
  <2>5. CASE k = 2
    BY <2>1, <2>2, <2>4, <2>5
  <2>6. CASE k = 3
    BY <2>1, <2>2, <2>4, <2>6
  <2>7. CASE k = 1
    BY <2>1, <2>2, <2>4, <2>7
  <2>8. CASE k = 4
    BY <2>1, <2>2, <2>4, <2>8
  <2> QED  BY <2>5, <2>6, <2>7, <2>8
<1>2. Kept(y2, x)
  BY SMTT(30) DEF Kept, KeptRefs, World, BevOk, Counted, Same, One
<1>3. Kept(y3, x)
  BY SMTT(30) DEF Kept, KeptRefs, World, BevOk, Counted, Same, One
<1> HIDE DEF e
<1>4. Kept(y1, x)
  BY SMTT(30) DEF Kept, KeptRefs, World, BevOk, Counted, Same, One
<1> HIDE DEF y1, y2, y3
<1>5. x.bev[b].cb = "filter" => Kept(be_filter_readcb(y2, b), x)
  BY <1>2, KeptWorld, FilterCallbacksKeep, KeptAgain DEF Same
<1>6. x.bev[b].cb = "filter" => Kept(be_filter_writecb(y3, b, 0), x)
  BY <1>3, KeptWorld, FilterCallbacksKeep, KeptAgain DEF Same
<1>7. x.bev[b].cb = "filter" => \A what : Kept(be_filter_eventcb(y1, b, what), x)
  BY <1>4, KeptWorld, FilterCallbacksKeep, KeptAgain DEF Same
<1> QED  BY <1>1, <1>2, <1>3, <1>4, <1>5, <1>6, <1>7, KeptItself

\* The flush of each kind, when the pair gives its references back.
LEMMA FlushesKeep ==
  ASSUME Structure, NEW x, World(x), NEW b \in Bev, NEW E, NEW mode
  PROVE  /\ Kind[b] = "pair" /\ Link[b] \in Bev =>
              Kept(FlushEof(FlushOut(FlushIn(x, b, E), b, E), b, mode), x)
         /\ Kind[b] = "filter" => Kept(be_filter_flush(x, b, E, mode), x)
<1>1. CASE Kind[b] = "pair" /\ Link[b] \in Bev
  <2>1. Kept(FlushIn(x, b, E), x)
    BY <1>1, PairTransferKeeps, KeptItself DEF FlushIn
  <2>2. ASSUME NEW y, Kept(y, x)
        PROVE  Kept(FlushOut(y, b, E), x)
    BY <1>1, <2>2, PairTransferKeeps, KeptWorld, KeptAgain DEF FlushOut
  <2>3. ASSUME NEW y, Kept(y, x)
        PROVE  Kept(FlushEof(y, b, mode), x)
    BY <1>1, <2>3, TellEventKeeps, KeptWorld, KeptAgain DEF FlushEof
  <2> QED  BY <1>1, <2>1, <2>2, <2>3
<1>2. CASE Kind[b] = "filter"
  <2> DEFINE y == IF "r" \in E THEN be_filter_process_input(x, b, mode = "normal").x ELSE x
             z == [y EXCEPT !.bev[b].news = x.bev[b].news]
  <2>1. Kept(y, x)
    BY <1>2, ProcessInputKeeps, KeptItself
  <2>2. be_filter_flush(x, b, E, mode) \in {z, be_filter_process_output(z, b, mode = "normal", 0)}
    BY DEF be_filter_flush, FilterFlushOut
  <2> HIDE DEF y
  <2>3. Kept(z, y)
    BY <2>1, KeptWorld, DataSet
  <2> HIDE DEF z
  <2>4. Kept(z, x)
    BY <2>1, <2>3, KeptAgain
  <2>5. Kept(be_filter_process_output(z, b, mode = "normal", 0), x)
    BY <1>2, <2>4, ProcessOutputKeeps, KeptWorld, KeptAgain
  <2> QED  BY <1>2, <2>2, <2>4, <2>5 DEF Structure
<1> QED  BY <1>1, <1>2

\* bufferevent_generic_adj_timeouts.
LEMMA AdjustKeeps ==
  ASSUME NEW x, World(x), NEW b \in Bev
  PROVE  Kept(_bufferevent_generic_adj_timeouts(x, b), x)
<1> DEFINE on == {d \in x.bev[b].en : x.bev[b].sus[d] = {} /\ x.bev[b].tmo /\ (d = "w" => x.bev[b].out > 0)}
<1>1. _bufferevent_generic_adj_timeouts(x, b) = [x EXCEPT !.bev[b].ev = on]
  BY DEF _bufferevent_generic_adj_timeouts
<1> HIDE DEF on
<1>2. Kept([x EXCEPT !.bev[b].ev = on], x)
  BY SMTT(30) DEF Kept, KeptRefs, World, BevOk, Counted, Same, One
<1> QED  BY <1>1, <1>2

-------------------------------------------------------------------------------
\* Rate limits.

\* The fields of the group, its list of members apart.
LEMMA GrpSet ==
  ASSUME NEW x, World(x), NEW r, "members" \in DOMAIN r, r.members \in Seq(Bev)
  PROVE  Kept([x EXCEPT !.grp = r], x)
BY DEF Kept, KeptRefs, World, Same

\* bufferevent_update_buckets.
LEMMA BucketsKeep ==
  ASSUME NEW x, World(x), NEW b \in Bev, NEW n
  PROVE  Kept(bufferevent_update_buckets(x, b, n), x)
<1> DEFINE l == ev_token_bucket_update(x.bev[b].lim, x.bev[b].cfg, n)
<1>1. bufferevent_update_buckets(x, b, n) \in {x, [x EXCEPT !.bev[b].lim = l]}
  BY DEF bufferevent_update_buckets
<1> HIDE DEF l
<1>2. Kept([x EXCEPT !.bev[b].lim = l], x)
  BY SMTT(30) DEF Kept, KeptRefs, World, BevOk, Counted, Same, One
<1> QED  BY <1>1, <1>2, KeptItself

\* A member of a group that is suspended is suspended.
LEMMA FindSuspendedKeeps ==
  ASSUME Structure, NEW x, World(x), NEW b \in Bev, NEW d
  PROVE  Kept(FindSuspended(x, b, d), x)
BY KeptItself, SuspendKeeps DEF FindSuspended

\* An operation that keeps the references of one member keeps those of all.
LEMMA EachKept ==
  ASSUME NEW x, World(x), NEW q \in Seq(Bev), NEW each,
         each[0] = x,
         \A k \in 1 .. Len(q) : World(each[k - 1]) => Kept(each[k], each[k - 1])
  PROVE  Kept(each[Len(q)], x)
<1> DEFINE P == {k \in Nat : k <= Len(q) => Kept(each[k], x)}
<1>1. 0 \in P
  BY KeptItself
<1>2. ASSUME NEW k \in Nat, k \in P
      PROVE  k + 1 \in P
  <2> SUFFICES ASSUME k + 1 <= Len(q)
               PROVE  Kept(each[k + 1], x)
    OBVIOUS
  <2>1. Kept(each[k], x)
    BY <1>2
  <2>2. k + 1 \in 1 .. Len(q) /\ k + 1 - 1 = k
    OBVIOUS
  <2>3. Kept(each[k + 1], each[k])
    BY <2>1, <2>2, KeptWorld
  <2> QED  BY <2>1, <2>3, KeptAgain
<1> HIDE DEF P
<1>3. Nat \subseteq P
  BY <1>1, <1>2, NaturalInduction
<1>4. Len(q) \in P
  BY <1>3
<1> QED  BY <1>4 DEF P

\* Each member in turn: the states in between exist.
LEMMA SuspendAllExists ==
  ASSUME NEW x, NEW q \in Seq(Bev), NEW busy, NEW d
  PROVE  \E g : g = [k \in 0 .. Len(q) |->
                      IF k = 0 THEN x
                      ELSE IF q[k] \in busy THEN g[k - 1]
                      ELSE suspend(g[k - 1], q[k], d, "BW_GROUP")]
<1> DEFINE At(g, k) == IF k = 0 THEN x
                       ELSE IF q[k] \in busy THEN g[k - 1] ELSE suspend(g[k - 1], q[k], d, "BW_GROUP")
           Up(g, n) == g = [k \in 0 .. n |-> At(g, k)]
           P == {n \in Nat : \E g : Up(g, n)}
<1>1. 0 \in P
  <2> DEFINE g == [k \in 0 .. 0 |-> x]
  <2>1. Up(g, 0)
    OBVIOUS
  <2> HIDE DEF g, Up
  <2> QED  BY <2>1
<1>2. ASSUME NEW n \in Nat, n \in P
      PROVE  n + 1 \in P
  <2>1. PICK g : Up(g, n)
    BY <1>2
  <2>2. \A i \in 0 .. n : g[i] = At(g, i)
    BY <2>1
  <2> DEFINE v == At(g, n + 1)
             h == [k \in 0 .. n + 1 |-> IF k = n + 1 THEN v ELSE g[k]]
  <2>3. \A i \in 0 .. n : h[i] = g[i]
    OBVIOUS
  <2>4. h[n + 1] = v
    OBVIOUS
  <2>5. \A i \in 0 .. n + 1 : h[i] = At(h, i)
    <3> SUFFICES ASSUME NEW i \in 0 .. n + 1
                 PROVE  h[i] = At(h, i)
      OBVIOUS
    <3> HIDE DEF h
    <3>1. CASE i = 0
      BY <2>2, <2>3, <3>1
    <3>2. CASE i # 0 /\ i <= n
      <4>1. i - 1 \in 0 .. n /\ i \in 0 .. n
        BY <3>2
      <4>2. h[i] = At(g, i) /\ h[i - 1] = g[i - 1]
        BY <2>2, <2>3, <4>1
      <4> QED  BY <3>2, <4>2
    <3>3. CASE i = n + 1
      <4>1. i - 1 = n /\ n \in 0 .. n /\ i # 0
        BY <3>3
      <4>2. h[i] = v /\ h[i - 1] = g[n]
        BY <2>3, <2>4, <3>3, <4>1
      <4> QED  BY <3>3, <4>1, <4>2
    <3> QED  BY <3>1, <3>2, <3>3
  <2>6. Up(h, n + 1)
    <3>1. h = [i \in 0 .. n + 1 |-> h[i]]
      OBVIOUS
    <3> HIDE DEF h
    <3> QED  BY <2>5, <3>1
  <2> HIDE DEF h, Up
  <2>7. n + 1 \in Nat /\ \E y : Up(y, n + 1)
    BY <2>6
  <2> QED  BY <2>7
<1>3. \E g : Up(g, Len(q))
  <2>1. Nat \subseteq P
    <3> HIDE DEF P
    <3> QED  BY <1>1, <1>2, NaturalInduction
  <2> QED  BY <2>1
<1> QED  BY <1>3

\* _bev_group_suspend_reading and _writing.
LEMMA GroupSuspendKeeps ==
  ASSUME Structure, NEW x, World(x), NEW d, NEW busy
  PROVE  Kept(GroupSuspend(x, d, busy), x)
<1> DEFINE z == [x EXCEPT !.grp.sus[d] = TRUE, !.grp.pend[d] = FALSE]
           q == z.grp.members
           each[k \in 0 .. Len(q)] ==
             IF k = 0 THEN z
             ELSE IF q[k] \in busy THEN each[k - 1] ELSE suspend(each[k - 1], q[k], d, "BW_GROUP")
<1>1. GroupSuspend(x, d, busy) = each[Len(q)]
  BY DEF GroupSuspend, EachMember
<1>2. Kept(z, x)
  BY DEF Kept, KeptRefs, World, Same
<1> HIDE DEF z
<1>3. q \in Seq(Bev)
  BY <1>2, KeptWorld DEF World
<1> HIDE DEF q
<1> DEFINE At(g, k) ==
             IF k = 0 THEN z
             ELSE IF q[k] \in busy THEN g[k - 1] ELSE suspend(g[k - 1], q[k], d, "BW_GROUP")
<1>4. each = [k \in 0 .. Len(q) |-> At(each, k)]
  BY <1>3, SuspendAllExists
<1> HIDE DEF each
<1>8. \A k \in 0 .. Len(q) : each[k] = At(each, k)
  BY <1>4
<1>5. /\ each[0] = z
      /\ \A k \in 1 .. Len(q) :
           each[k] = IF q[k] \in busy THEN each[k - 1] ELSE suspend(each[k - 1], q[k], d, "BW_GROUP")
  BY <1>3, <1>8
<1>6. \A k \in 1 .. Len(q) : World(each[k - 1]) => Kept(each[k], each[k - 1])
  BY <1>3, <1>5, SuspendKeeps, KeptItself
<1>7. Kept(each[Len(q)], z)
  BY <1>2, <1>3, <1>5, <1>6, KeptWorld, EachKept
<1> QED  BY <1>1, <1>2, <1>7, KeptAgain

\* The states between the members that are to go on.
LEMMA UnsuspendAllExists ==
  ASSUME NEW x, NEW q \in Seq(Bev), NEW busy, NEW d
  PROVE  \E g : g = [k \in 0 .. Len(q) |->
                      IF k = 0 THEN x
                      ELSE IF q[k] \in busy THEN g[k - 1]
                      ELSE unsuspend(g[k - 1], q[k], d, "BW_GROUP")]
<1> DEFINE At(g, k) == IF k = 0 THEN x
                       ELSE IF q[k] \in busy THEN g[k - 1] ELSE unsuspend(g[k - 1], q[k], d, "BW_GROUP")
           Up(g, n) == g = [k \in 0 .. n |-> At(g, k)]
           P == {n \in Nat : \E g : Up(g, n)}
<1>1. 0 \in P
  <2> DEFINE g == [k \in 0 .. 0 |-> x]
  <2>1. Up(g, 0)
    OBVIOUS
  <2> HIDE DEF g, Up
  <2> QED  BY <2>1
<1>2. ASSUME NEW n \in Nat, n \in P
      PROVE  n + 1 \in P
  <2>1. PICK g : Up(g, n)
    BY <1>2
  <2>2. \A i \in 0 .. n : g[i] = At(g, i)
    BY <2>1
  <2> DEFINE v == At(g, n + 1)
             h == [k \in 0 .. n + 1 |-> IF k = n + 1 THEN v ELSE g[k]]
  <2>3. \A i \in 0 .. n : h[i] = g[i]
    OBVIOUS
  <2>4. h[n + 1] = v
    OBVIOUS
  <2>5. \A i \in 0 .. n + 1 : h[i] = At(h, i)
    <3> SUFFICES ASSUME NEW i \in 0 .. n + 1
                 PROVE  h[i] = At(h, i)
      OBVIOUS
    <3> HIDE DEF h
    <3>1. CASE i = 0
      BY <2>2, <2>3, <3>1
    <3>2. CASE i # 0 /\ i <= n
      <4>1. i - 1 \in 0 .. n /\ i \in 0 .. n
        BY <3>2
      <4>2. h[i] = At(g, i) /\ h[i - 1] = g[i - 1]
        BY <2>2, <2>3, <4>1
      <4> QED  BY <3>2, <4>2
    <3>3. CASE i = n + 1
      <4>1. i - 1 = n /\ n \in 0 .. n /\ i # 0
        BY <3>3
      <4>2. h[i] = v /\ h[i - 1] = g[n]
        BY <2>3, <2>4, <3>3, <4>1
      <4> QED  BY <3>3, <4>1, <4>2
    <3> QED  BY <3>1, <3>2, <3>3
  <2>6. Up(h, n + 1)
    <3>1. h = [i \in 0 .. n + 1 |-> h[i]]
      OBVIOUS
    <3> HIDE DEF h
    <3> QED  BY <2>5, <3>1
  <2> HIDE DEF h, Up
  <2>7. n + 1 \in Nat /\ \E y : Up(y, n + 1)
    BY <2>6
  <2> QED  BY <2>7
<1>3. \E g : Up(g, Len(q))
  <2>1. Nat \subseteq P
    <3> HIDE DEF P
    <3> QED  BY <1>1, <1>2, NaturalInduction
  <2> QED  BY <2>1
<1> QED  BY <1>3

\* _bev_group_unsuspend_reading and _writing.
LEMMA GroupUnsuspendKeeps ==
  ASSUME Structure, NEW x, World(x), NEW d, NEW busy
  PROVE  Kept(GroupUnsuspend(x, d, busy), x)
<1> DEFINE again == \E k \in DOMAIN x.grp.members : x.grp.members[k] \in busy
           z == [x EXCEPT !.grp.sus[d] = FALSE, !.grp.pend[d] = again]
           q == z.grp.members
           each[k \in 0 .. Len(q)] ==
             IF k = 0 THEN z
             ELSE IF q[k] \in busy THEN each[k - 1] ELSE unsuspend(each[k - 1], q[k], d, "BW_GROUP")
<1>1. GroupUnsuspend(x, d, busy) = each[Len(q)]
  BY DEF GroupUnsuspend, EachMember
<1>2. Kept(z, x)
  BY DEF Kept, KeptRefs, World, Same
<1> HIDE DEF z
<1>3. q \in Seq(Bev)
  BY <1>2, KeptWorld DEF World
<1> HIDE DEF q
<1> DEFINE At(g, k) ==
             IF k = 0 THEN z
             ELSE IF q[k] \in busy THEN g[k - 1] ELSE unsuspend(g[k - 1], q[k], d, "BW_GROUP")
<1>4. each = [k \in 0 .. Len(q) |-> At(each, k)]
  BY <1>3, UnsuspendAllExists
<1> HIDE DEF each
<1>8. \A k \in 0 .. Len(q) : each[k] = At(each, k)
  BY <1>4
<1>5. /\ each[0] = z
      /\ \A k \in 1 .. Len(q) :
           each[k] = IF q[k] \in busy THEN each[k - 1] ELSE unsuspend(each[k - 1], q[k], d, "BW_GROUP")
  BY <1>3, <1>8
<1>6. \A k \in 1 .. Len(q) : World(each[k - 1]) => Kept(each[k], each[k - 1])
  BY <1>3, <1>5, UnsuspendKeeps, KeptItself
<1>7. Kept(each[Len(q)], z)
  BY <1>2, <1>3, <1>5, <1>6, KeptWorld, EachKept
<1> QED  BY <1>1, <1>2, <1>7, KeptAgain

\* The limit of one bufferevent.
LEMMA RateSet ==
  ASSUME NEW x, World(x), NEW b \in Bev, NEW v
  PROVE  /\ Kept([x EXCEPT !.bev[b].refill = v], x)
         /\ Kept([x EXCEPT !.bev[b].lim = v], x)
         /\ Kept([x EXCEPT !.bev[b].cfg = v], x)
         /\ Kept([x EXCEPT !.bev[b].group = v], x)
<1>1. Kept([x EXCEPT !.bev[b].refill = v], x)
  BY SMTT(30) DEF Kept, KeptRefs, World, BevOk, Counted, Same, One
<1>2. Kept([x EXCEPT !.bev[b].lim = v], x)
  BY SMTT(30) DEF Kept, KeptRefs, World, BevOk, Counted, Same, One
<1>3. Kept([x EXCEPT !.bev[b].cfg = v], x)
  BY SMTT(30) DEF Kept, KeptRefs, World, BevOk, Counted, Same, One
<1>4. Kept([x EXCEPT !.bev[b].group = v], x)
  BY SMTT(30) DEF Kept, KeptRefs, World, BevOk, Counted, Same, One
<1> QED  BY <1>1, <1>2, <1>3, <1>4

\* A suspension by a bucket that is empty, and its end.
LEMMA SuspendRefillKeeps ==
  ASSUME Structure, NEW x, World(x), NEW b \in Bev, NEW d, NEW v
  PROVE  /\ Kept([suspend(x, b, d, "BW") EXCEPT !.bev[b].refill = TRUE], x)
         /\ Kept(unsuspend([x EXCEPT !.bev[b].refill = v], b, d, "BW"), x)
<1> DEFINE y == suspend(x, b, d, "BW")
           z == [x EXCEPT !.bev[b].refill = v]
<1>1. Kept(y, x)
  BY SuspendKeeps
<1>2. Kept(z, x)
  BY RateSet
<1> HIDE DEF y, z
<1>3. Kept([y EXCEPT !.bev[b].refill = TRUE], x)
  BY <1>1, KeptWorld, RateSet, KeptAgain
<1>4. Kept(unsuspend(z, b, d, "BW"), x)
  BY <1>2, KeptWorld, UnsuspendKeeps, KeptAgain
<1> QED  BY <1>3, <1>4 DEF y, z

\* The bucket of the bufferevent itself is charged.
LEMMA OwnSpentKeeps ==
  ASSUME Structure, NEW x, World(x), NEW b \in Bev, NEW d
  PROVE  Kept(OwnSpent(x, b, d), x) /\ Kept(OwnCrossed(x, b, d), x)
<1> DEFINE v == x.bev[b].refill /\ "BW" \in x.bev[b].sus[Other(d)]
           y == unsuspend([x EXCEPT !.bev[b].refill = v], b, d, "BW")
           z == [suspend(x, b, d, "BW") EXCEPT !.bev[b].refill = TRUE]
<1>1. OwnSpent(x, b, d) \in {x, y, z} /\ OwnCrossed(x, b, d) \in {y, z}
  BY DEF OwnSpent, OwnCrossed
<1> HIDE DEF v
<1>2. Kept(y, x) /\ Kept(z, x)
  BY SuspendRefillKeeps
<1> HIDE DEF y, z
<1> QED  BY <1>1, <1>2, KeptItself

\* Bytes are taken from a bucket.
LEMMA LimSpent ==
  ASSUME NEW x, World(x), NEW b \in Bev, NEW d, NEW n
  PROVE  /\ Kept([x EXCEPT !.bev[b].lim[d] = @ - n], x)
         /\ Kept([x EXCEPT !.grp.lim[d] = @ - n], x)
<1>1. Kept([x EXCEPT !.bev[b].lim[d] = @ - n], x)
  BY SMTT(30) DEF Kept, KeptRefs, World, BevOk, Counted, Same, One
<1>2. Kept([x EXCEPT !.grp.lim[d] = @ - n], x)
  BY DEF Kept, KeptRefs, World, Same
<1> QED  BY <1>1, <1>2

\* The bucket of the group is charged.
LEMMA GroupSpentKeeps ==
  ASSUME Structure, NEW x, World(x), NEW d, NEW busy
  PROVE  Kept(GroupSpent(x, d, busy), x)
BY KeptItself, GroupSuspendKeeps, GroupUnsuspendKeeps DEF GroupSpent

\* _bufferevent_decrement_read_buckets and _write_buckets.
LEMMA DecrementBucketsKeeps ==
  ASSUME Structure, NEW x, World(x), NEW b \in Bev, NEW d, NEW n, NEW busy
  PROVE  Kept(DecrementBuckets(x, b, d, n, busy), x)
<1> DEFINE y == DecrementOwn(x, b, d, n)
           z == [x EXCEPT !.bev[b].lim[d] = @ - n]
<1>1. y \in {x, OwnSpent(z, b, d)}
  BY DEF DecrementOwn
<1>2. Kept(z, x)
  BY LimSpent
<1>3. DecrementBuckets(x, b, d, n, busy) \in {y, GroupSpent([y EXCEPT !.grp.lim[d] = @ - n], d, busy)}
  BY DEF DecrementBuckets, DecrementShared
<1> HIDE DEF y, z
<1>4. Kept(OwnSpent(z, b, d), x)
  BY <1>2, KeptWorld, OwnSpentKeeps, KeptAgain
<1>5. Kept(y, x)
  BY <1>1, <1>4, KeptItself
<1> DEFINE t == [y EXCEPT !.grp.lim[d] = @ - n]
<1>6. Kept(t, y)
  BY <1>5, KeptWorld, LimSpent
<1> HIDE DEF t
<1>7. Kept(GroupSpent(t, d, busy), x)
  BY <1>5, <1>6, KeptWorld, GroupSpentKeeps, KeptAgain
<1> QED  BY <1>3, <1>5, <1>7 DEF t

\* _bev_refill_callback.
LEMMA RefillKeeps ==
  ASSUME Structure, NEW x, World(x), NEW b \in Bev, NEW n
  PROVE  Kept(_bev_refill_callback(x, b, n), x)
<1>1. ASSUME NEW y, Kept(y, x), NEW d
      PROVE  Kept(RefillOne(y, b, d), x)
  BY <1>1, KeptWorld, UnsuspendKeeps, KeptAgain DEF RefillOne
<1>2. ASSUME NEW y, Kept(y, x)
      PROVE  Kept(RefillAgain(y, b), x)
  <2> DEFINE v == \E d \in Dirs : "BW" \in y.bev[b].sus[d]
  <2>1. RefillAgain(y, b) = [y EXCEPT !.bev[b].refill = v]
    BY DEF RefillAgain
  <2> HIDE DEF v
  <2> QED  BY <1>2, <2>1, KeptWorld, RateSet, KeptAgain
<1>3. Kept([x EXCEPT !.bev[b].refill = FALSE], x)
  BY RateSet
<1>4. Kept(RefillOne(RefillOne(bufferevent_update_buckets(x, b, n), b, "r"), b, "w"), x)
  BY <1>1, BucketsKeep
<1> QED  BY <1>2, <1>3, <1>4 DEF _bev_refill_callback

\* _bev_group_refill_callback.
LEMMA GroupRefillKeeps ==
  ASSUME Structure, NEW x, World(x), NEW n, NEW busy
  PROVE  Kept(_bev_group_refill_callback(x, n, busy), x)
<1> DEFINE l == ev_token_bucket_update(x.grp.lim, x.grp.cfg, n)
           y == [x EXCEPT !.grp.lim = l]
<1>1. _bev_group_refill_callback(x, n, busy) = GroupRefillOne(GroupRefillOne(y, "r", busy), "w", busy)
  BY DEF _bev_group_refill_callback
<1> HIDE DEF l
<1>2. Kept(y, x)
  BY DEF Kept, KeptRefs, World, Same
<1> HIDE DEF y
<1>3. ASSUME NEW z, Kept(z, x), NEW d
      PROVE  Kept(GroupRefillOne(z, d, busy), x)
  BY <1>3, KeptWorld, GroupUnsuspendKeeps, KeptAgain DEF GroupRefillOne
<1> QED  BY <1>1, <1>2, <1>3

\* bufferevent_set_rate_limit.
LEMMA SetRateLimitKeeps ==
  ASSUME Structure, NEW x, World(x), NEW b \in Bev, NEW c
  PROVE  Kept(bufferevent_set_rate_limit(x, b, c), x)
<1>1. ASSUME NEW y, Kept(y, x), NEW d
      PROVE  Kept(LimitOne(y, b, d), x) /\ Kept(unsuspend(y, b, d, "BW"), x)
  BY <1>1, KeptWorld, SuspendKeeps, UnsuspendKeeps, KeptAgain DEF LimitOne
<1>2. ASSUME NEW y, Kept(y, x)
      PROVE  Kept(RefillAgain(y, b), x)
  <2> DEFINE v == \E d \in Dirs : "BW" \in y.bev[b].sus[d]
  <2>1. RefillAgain(y, b) = [y EXCEPT !.bev[b].refill = v]
    BY DEF RefillAgain
  <2> HIDE DEF v
  <2> QED  BY <1>2, <2>1, KeptWorld, RateSet, KeptAgain
<1> DEFINE l == IF x.bev[b].cfg # 0 THEN Clip(x.bev[b].lim, c) ELSE Fresh(c)
           y == [x EXCEPT !.bev[b].cfg = 0, !.bev[b].refill = FALSE]
           z == [x EXCEPT !.bev[b].cfg = c, !.bev[b].lim = l]
<1>3. bufferevent_set_rate_limit(x, b, c) \in
        {LimitOff(y, b), x, RefillAgain(LimitOne(LimitOne(z, b, "r"), b, "w"), b)}
  BY DEF bufferevent_set_rate_limit
<1> HIDE DEF l
<1>4. Kept(y, x)
  BY SMTT(60) DEF Kept, KeptRefs, World, BevOk, Counted, Same, One
<1>5. Kept(z, x)
  BY SMTT(60) DEF Kept, KeptRefs, World, BevOk, Counted, Same, One
<1> HIDE DEF y, z
<1>6. Kept(LimitOff(y, b), x)
  BY <1>1, <1>4 DEF LimitOff
<1>7. Kept(LimitOne(LimitOne(z, b, "r"), b, "w"), x)
  BY <1>1, <1>5
<1>8. Kept(RefillAgain(LimitOne(LimitOne(z, b, "r"), b, "w"), b), x)
  BY <1>2, <1>7
<1> QED  BY <1>3, <1>6, <1>8, KeptItself

\* bufferevent_rate_limit_group_set_cfg and _set_min_share.
LEMMA GroupSetKeeps ==
  ASSUME NEW x, World(x), NEW c, NEW n
  PROVE  /\ Kept(bufferevent_rate_limit_group_set_min_share(x, n), x)
         /\ Kept(bufferevent_rate_limit_group_set_cfg(x, c), x)
<1>1. ASSUME NEW y, World(y), NEW m
      PROVE  Kept(bufferevent_rate_limit_group_set_min_share(y, m), y)
  <2> DEFINE l == Least(m, Rates[y.grp.cfg].rate)
  <2>1. bufferevent_rate_limit_group_set_min_share(y, m) = [y EXCEPT !.grp.share = m, !.grp.min = l]
    BY DEF bufferevent_rate_limit_group_set_min_share
  <2> HIDE DEF l
  <2>2. Kept([y EXCEPT !.grp.share = m, !.grp.min = l], y)
    BY <1>1 DEF Kept, KeptRefs, World, Same
  <2> QED  BY <2>1, <2>2
<1> DEFINE l == Clip(x.grp.lim, c)
           y == [x EXCEPT !.grp.cfg = c, !.grp.lim = l]
<1>2. bufferevent_rate_limit_group_set_cfg(x, c) = bufferevent_rate_limit_group_set_min_share(y, x.grp.share)
  BY DEF bufferevent_rate_limit_group_set_cfg
<1> HIDE DEF l
<1>3. Kept(y, x)
  BY DEF Kept, KeptRefs, World, Same
<1> HIDE DEF y
<1> QED  BY <1>1, <1>2, <1>3, KeptWorld, KeptAgain

-------------------------------------------------------------------------------
\* Adding to the group and removing from it.

\* A list of bufferevents without one of them.
LEMMA SeqWithout ==
  ASSUME NEW S, NEW s \in Seq(S), NEW e
  PROVE  RemoveFirst(s, e) \in Seq(S)
<1> DEFINE I == {j \in 1 .. Len(s) : s[j] = e}
<1>1. CASE \E j \in 1 .. Len(s) : s[j] = e
  <2>1. I # {} /\ I \in SUBSET Nat
    BY <1>1
  <2>2. Min(I) \in I
    <3> HIDE DEF I
    <3> QED  BY <2>1, MinOfNaturals
  <2>3. RemoveFirst(s, e) = RemoveAt(s, Min(I))
    BY <1>1 DEF RemoveFirst, SelectInSeq
  <2> QED  BY <2>2, <2>3, RemoveAtFacts
<1>2. CASE ~ \E j \in 1 .. Len(s) : s[j] = e
  BY <1>2 DEF RemoveFirst
<1> QED  BY <1>1, <1>2

\* bufferevent_add_to_rate_limit_group, up to the suspension.
LEMMA AddToGroupKeeps ==
  ASSUME NEW x, World(x), NEW b \in Bev
  PROVE  KeptRefs(AddToGroup(x, b), x)
<1> DEFINE m == Append(x.grp.members, b)
           a == [bev |-> b, sus |-> x.grp.sus]
           y == [x EXCEPT !.bev[b].group = TRUE]
           z == [y EXCEPT !.grp.members = m]
<1>1. AddToGroup(x, b) = [z EXCEPT !.adding = a]
  BY DEF AddToGroup
<1>2. m \in Seq(Bev)
  BY DEF World
<1>3. "bev" \in DOMAIN a /\ a.bev = b
  OBVIOUS
<1> HIDE DEF m, a
<1>4. Kept(y, x)
  BY RateSet
<1> HIDE DEF y
<1>5. Kept(z, y)
  BY <1>2, <1>4, KeptWorld DEF Kept, KeptRefs, World, Same
<1> HIDE DEF z
<1>6. Kept(z, x)
  BY <1>4, <1>5, KeptAgain
<1> QED  BY <1>1, <1>3, <1>6 DEF Kept, KeptRefs, World, Same

\* The suspension of who joined a group that is suspended.
LEMMA AddedToGroupKeeps ==
  ASSUME Structure, NEW x, World(x), x.adding.bev # NoBev
  PROVE  KeptRefs(AddedToGroup(x), x)
<1>1. x.adding.bev \in Bev
  BY DEF World
<1>2. ASSUME NEW y, Kept(y, x), NEW d
      PROVE  Kept(AddedOne(y, d), x)
  <2>1. World(y) /\ y.adding = x.adding
    BY <1>2, KeptWorld
  <2> QED  BY <1>1, <1>2, <2>1, SuspendKeeps, KeptAgain DEF AddedOne
<1> DEFINE z == AddedOne(AddedOne(x, "r"), "w")
<1>3. Kept(z, x)
  BY <1>2, KeptItself
<1>4. AddedToGroup(x) = [z EXCEPT !.adding.bev = NoBev]
  BY DEF AddedToGroup
<1> HIDE DEF z
<1> QED  BY <1>3, <1>4 DEF Kept, KeptRefs, World, Same

\* bufferevent_remove_from_rate_limit_group.
LEMMA LeftGroupKeeps ==
  ASSUME Structure, NEW x, World(x), NEW b \in Bev
  PROVE  Kept(bufferevent_remove_from_rate_limit_group(x, b), x)
<1> DEFINE m == RemoveFirst(x.grp.members, b)
           y == [x EXCEPT !.bev[b].group = FALSE]
           z == [y EXCEPT !.grp.members = m]
<1>1. bufferevent_remove_from_rate_limit_group(x, b) =
        unsuspend(unsuspend(z, b, "r", "BW_GROUP"), b, "w", "BW_GROUP")
  BY DEF bufferevent_remove_from_rate_limit_group, LeftGroup
<1>2. m \in Seq(Bev)
  BY SeqWithout DEF World
<1> HIDE DEF m
<1>3. Kept(y, x)
  BY RateSet
<1> HIDE DEF y
<1>4. Kept(z, y)
  BY <1>2, <1>3, KeptWorld DEF Kept, KeptRefs, World, Same
<1> HIDE DEF z
<1>5. ASSUME NEW t, Kept(t, x), NEW d
      PROVE  Kept(unsuspend(t, b, d, "BW_GROUP"), x)
  BY <1>5, KeptWorld, UnsuspendKeeps, KeptAgain
<1> QED  BY <1>1, <1>3, <1>4, <1>5, KeptAgain

\* bufferevent_decrement_read_limit and _write_limit.
LEMMA DecrementLimitKeeps ==
  ASSUME Structure, NEW x, World(x), NEW b \in Bev, NEW d, NEW n
  PROVE  Kept(DecrementLimit(x, b, d, n), x)
<1> DEFINE y == [x EXCEPT !.bev[b].lim[d] = @ - n]
<1>1. DecrementLimit(x, b, d, n) \in {y, OwnCrossed(y, b, d)}
  BY DEF DecrementLimit
<1>2. Kept(y, x)
  BY LimSpent
<1> HIDE DEF y
<1> QED  BY <1>1, <1>2, KeptWorld, OwnSpentKeeps, KeptAgain

\* bufferevent_rate_limit_group_decrement_read and _write.
LEMMA DecrementGroupKeeps ==
  ASSUME Structure, NEW x, World(x), NEW d, NEW n, NEW busy
  PROVE  Kept(DecrementGroup(x, d, n, busy), x)
<1> DEFINE y == [x EXCEPT !.grp.lim[d] = @ - n]
           up   == x.grp.lim[d] > 0 /\ x.grp.lim[d] - n <= 0
           down == x.grp.lim[d] <= 0 /\ x.grp.lim[d] - n > 0
<1>1. DecrementGroup(x, d, n, busy) =
        CASE up -> GroupSuspend(y, d, busy) [] down -> GroupUnsuspend(y, d, busy) [] OTHER -> y
  BY DEF DecrementGroup
<1>2. Kept(y, x)
  BY DEF Kept, KeptRefs, World, Same
<1> HIDE DEF y, up, down
<1>3. /\ Kept(GroupSuspend(y, d, busy), x)
      /\ Kept(GroupUnsuspend(y, d, busy), x)
  BY <1>2, KeptWorld, GroupSuspendKeeps, GroupUnsuspendKeeps, KeptAgain
<1> QED  BY <1>1, <1>2, <1>3

-------------------------------------------------------------------------------
\* Sockets.

\* Fields that are no references.
LEMMA FieldSet ==
  ASSUME NEW x, World(x), NEW b \in Bev, NEW v
  PROVE  /\ Kept([x EXCEPT !.bev[b].connecting = v], x)
         /\ Kept([x EXCEPT !.bev[b].act = v], x)
         /\ Kept([x EXCEPT !.bev[b].tmo = v], x)
         /\ Kept([x EXCEPT !.falseEof = v], x)
<1>1. Kept([x EXCEPT !.bev[b].connecting = v], x)
  BY SMTT(30) DEF Kept, KeptRefs, World, BevOk, Counted, Same, One
<1>2. Kept([x EXCEPT !.bev[b].act = v], x)
  BY SMTT(30) DEF Kept, KeptRefs, World, BevOk, Counted, Same, One
<1>3. Kept([x EXCEPT !.bev[b].tmo = v], x)
  BY SMTT(30) DEF Kept, KeptRefs, World, BevOk, Counted, Same, One
<1>4. Kept([x EXCEPT !.falseEof = v], x)
  BY DEF Kept, KeptRefs, World, Same
<1> QED  BY <1>1, <1>2, <1>3, <1>4

\* The state of a connection.
LEMMA ConnectionSet ==
  ASSUME NEW x, World(x), NEW b \in Bev, NEW c, NEW e, NEW r
  PROVE  /\ Kept([x EXCEPT !.bev[b].connecting = c, !.bev[b].refused = e, !.bev[b].dead = r], x)
         /\ Kept([x EXCEPT !.bev[b].connecting = c, !.bev[b].act = e, !.bev[b].refused = r], x)
         /\ Kept([x EXCEPT !.bev[b].fd = c, !.bev[b].dead = e], x)
<1>1. Kept([x EXCEPT !.bev[b].connecting = c, !.bev[b].refused = e, !.bev[b].dead = r], x)
  BY SMTT(30) DEF Kept, KeptRefs, World, BevOk, Counted, Same, One
<1>2. Kept([x EXCEPT !.bev[b].connecting = c, !.bev[b].act = e, !.bev[b].refused = r], x)
  BY SMTT(30) DEF Kept, KeptRefs, World, BevOk, Counted, Same, One
<1>3. Kept([x EXCEPT !.bev[b].fd = c, !.bev[b].dead = e], x)
  BY SMTT(30) DEF Kept, KeptRefs, World, BevOk, Counted, Same, One
<1> QED  BY <1>1, <1>2, <1>3

\* An end of the stream or an error stops the direction and is told.
LEMMA EndedKeeps ==
  ASSUME Structure, NEW x, World(x), NEW b \in Bev, NEW d, NEW v
  PROVE  /\ Kept(Ended(x, b, d), x)
         /\ Kept([Ended(x, b, d) EXCEPT !.falseEof = @ \/ v], x)
<1> DEFINE y == bufferevent_disable(x, b, {d})
           z == _bufferevent_run_eventcb(y, b, "end")
           t == z.falseEof \/ v
<1>1. Ended(x, b, d) = z
  BY DEF Ended
<1>2. Kept(y, x)
  BY BuffereventDisableKeeps
<1> HIDE DEF y
<1>3. Kept(z, x)
  BY <1>2, KeptWorld, RunCallbacksKeep, KeptAgain
<1> HIDE DEF z
<1>4. [z EXCEPT !.falseEof = @ \/ v] = [z EXCEPT !.falseEof = t]
  OBVIOUS
<1> HIDE DEF t
<1>5. Kept([z EXCEPT !.falseEof = t], x)
  BY <1>3, KeptWorld, FieldSet, KeptAgain
<1> QED  BY <1>1, <1>3, <1>4, <1>5

\* bufferevent_readcb has read some bytes.
LEMMA ReadSomeKeeps ==
  ASSUME Structure, NEW x, World(x), NEW b \in Bev, NEW res, NEW busy
  PROVE  Kept(ReadSome(x, b, res, busy), x)
<1> DEFINE i == x.bev[b].in + res
           n == x.bev[b].news \/ (x.bev[b].cb = "user" /\ x.bev[b].in + res >= x.bev[b].rm.low)
           y == [x EXCEPT !.bev[b].in = i]
           z == [y EXCEPT !.bev[b].news = n]
<1>1. ReadSome(x, b, res, busy) = DecrementBuckets(bufferevent_inbuf_wm_cb(z, b), b, "r", res, busy)
  BY DEF ReadSome
<1> HIDE DEF i, n
<1>2. Kept(y, x)
  BY DataSet
<1> HIDE DEF y
<1>3. Kept(z, x)
  BY <1>2, KeptWorld, DataSet, KeptAgain
<1> HIDE DEF z
<1>4. Kept(bufferevent_inbuf_wm_cb(z, b), x)
  BY <1>3, KeptWorld, InbufKeeps, KeptAgain
<1> QED  BY <1>1, <1>4, KeptWorld, DecrementBucketsKeeps, KeptAgain

\* bufferevent_readcb reads.
LEMMA ReadNowKeeps ==
  ASSUME Structure, NEW x, World(x), NEW b \in Bev, NEW got, NEW busy
  PROVE  Kept(ReadNow(x, b, got, busy), x)
<1>1. \E res, v : ReadNow(x, b, got, busy) \in
        {x, HasRead(ReadSome(x, b, res, busy), b), [Ended(x, b, "r") EXCEPT !.falseEof = @ \/ v]}
  <2> DEFINE max == MaxToMove(x, b, "r", ReadEver)
             room == x.bev[b].rm.high - x.bev[b].in
             howmuch == IF x.bev[b].rm.high = 0 \/ room > max THEN max ELSE room
             res == IF got > 0 THEN Least(got, howmuch) ELSE got
             v == got > 0
  <2>1. ReadNow(x, b, got, busy) =
          IF x.bev[b].sus["r"] # {} \/ got = 99 THEN x
          ELSE IF res > 0 THEN HasRead(ReadSome(x, b, res, busy), b)
          ELSE [Ended(x, b, "r") EXCEPT !.falseEof = @ \/ v]
    BY DEF ReadNow
  <2> HIDE DEF res, v
  <2> DEFINE a == HasRead(ReadSome(x, b, res, busy), b)
             e == [Ended(x, b, "r") EXCEPT !.falseEof = @ \/ v]
  <2>2. ReadNow(x, b, got, busy) \in {x, a, e}
    <3> HIDE DEF a, e
    <3> QED  BY <2>1 DEF a, e
  <2> QED  BY <2>2
<1>2. ASSUME NEW res
      PROVE  Kept(HasRead(ReadSome(x, b, res, busy), b), x)
  <2>1. Kept(ReadSome(x, b, res, busy), x)
    BY ReadSomeKeeps
  <2> QED  BY <2>1, KeptWorld, RunCallbacksKeep, KeptAgain DEF HasRead
<1> QED  BY <1>1, <1>2, KeptItself, EndedKeeps

\* bufferevent_readcb, between its two references.
LEMMA ReadOrStopKeeps ==
  ASSUME Structure, NEW x, World(x), NEW b \in Bev, NEW got, NEW n, NEW busy
  PROVE  Kept(ReadOrStop(x, b, got, n, busy), x)
<1> DEFINE y == FindSuspended(bufferevent_update_buckets(x, b, n), b, "r")
<1>1. ReadOrStop(x, b, got, n, busy) \in {suspend(x, b, "r", "WM"), ReadNow(y, b, got, busy)}
  BY DEF ReadOrStop
<1>2. Kept(y, x)
  BY BucketsKeep, FindSuspendedKeeps, KeptWorld, KeptAgain
<1> HIDE DEF y
<1>3. Kept(ReadNow(y, b, got, busy), x)
  BY <1>2, KeptWorld, ReadNowKeeps, KeptAgain
<1> QED  BY <1>1, <1>3, SuspendKeeps

\* bufferevent_writecb writes.
LEMMA WriteNowKeeps ==
  ASSUME Structure, NEW x, World(x), NEW b \in Bev, NEW took, NEW connected, NEW more, NEW busy
  PROVE  Kept(WriteNow(x, b, took, connected, more, busy), x)
<1> DEFINE Sent(res) == HasWritten(Drained(DecrementBuckets([x EXCEPT !.bev[b].out = @ - res],
                                                            b, "w", res, busy), b), b, more)
<1>1. \E res, v : WriteNow(x, b, took, connected, more, busy) \in
        {x, EvDel(x, b, {"w"}), HasWritten(EvDel(x, b, {"w"}), b, more),
         [Ended(x, b, "w") EXCEPT !.falseEof = @ \/ v], Sent(res)}
  <2> DEFINE v == x.bev[b]
             res == IF took > 0 THEN Least(took, Least(v.out, MaxToMove(x, b, "w", ReadEver))) ELSE took
             t == took > 0
             e == [Ended(x, b, "w") EXCEPT !.falseEof = @ \/ t]
             g == Sent(res)
  <2>1. WriteNow(x, b, took, connected, more, busy) =
          IF v.sus["w"] # {} \/ (v.out > 0 /\ took = 99) THEN x
          ELSE IF v.out = 0
                 THEN IF connected THEN EvDel(x, b, {"w"}) ELSE HasWritten(EvDel(x, b, {"w"}), b, more)
          ELSE IF res <= 0 THEN e ELSE g
    BY DEF WriteNow
  <2>2. WriteNow(x, b, took, connected, more, busy) \in
          {x, EvDel(x, b, {"w"}), HasWritten(EvDel(x, b, {"w"}), b, more), e, g}
    <3> HIDE DEF e, g, res
    <3> QED  BY <2>1
  <2> HIDE DEF res, t, Sent
  <2> QED  BY <2>2
<1>2. ASSUME NEW y, Kept(y, x)
      PROVE  Kept(HasWritten(y, b, more), x)
  BY <1>2, KeptWorld, RunCallbacksKeep, KeptAgain DEF HasWritten
<1>3. ASSUME NEW y, Kept(y, x)
      PROVE  Kept(Drained(y, b), x)
  BY <1>3, KeptWorld, EvDelKeeps, KeptAgain DEF Drained
<1>4. ASSUME NEW res
      PROVE  Kept(Sent(res), x)
  <2> DEFINE i == x.bev[b].out - res
             y == [x EXCEPT !.bev[b].out = i]
  <2>1. Sent(res) = HasWritten(Drained(DecrementBuckets(y, b, "w", res, busy), b), b, more)
    OBVIOUS
  <2> HIDE DEF i, Sent
  <2>2. Kept(y, x)
    BY DataSet
  <2> HIDE DEF y
  <2>3. Kept(DecrementBuckets(y, b, "w", res, busy), x)
    BY <2>2, KeptWorld, DecrementBucketsKeeps, KeptAgain
  <2> QED  BY <1>2, <1>3, <2>1, <2>3
<1>5. Kept(EvDel(x, b, {"w"}), x)
  BY EvDelKeeps
<1> HIDE DEF Sent
<1> QED  BY <1>1, <1>2, <1>4, <1>5, KeptItself, EndedKeeps

\* What the user does in the callback of a connection that is made.
LEMMA AfterConnectKeeps ==
  ASSUME Structure, NEW x, World(x), NEW b \in Bev, NEW took, NEW n, NEW connected, NEW more, NEW busy
  PROVE  /\ Kept(WriteOut(x, b, took, n, connected, more, busy), x)
         /\ Kept(AfterConnect(x, b, took, n, more, busy), x)
<1> DEFINE y == FindSuspended(bufferevent_update_buckets(x, b, n), b, "w")
<1>1. Kept(y, x)
  BY BucketsKeep, FindSuspendedKeeps, KeptWorld, KeptAgain
<1>2. \A c : WriteOut(x, b, took, n, c, more, busy) = WriteNow(y, b, took, c, more, busy)
  BY DEF WriteOut
<1> HIDE DEF y
<1>3. \A c : Kept(WriteOut(x, b, took, n, c, more, busy), x)
  BY <1>1, <1>2, KeptWorld, WriteNowKeeps, KeptAgain
<1> QED  BY <1>3, EvDelKeeps DEF AfterConnect

\* What the kernel says of a connection, and the user.
LEMMA ConnectKeeps ==
  ASSUME Structure, NEW x, World(x), NEW b \in Bev, NEW ok, NEW does
  PROVE  Kept(ConnectEnds(x, b, ok, does), x)
           \/ \E y : /\ does = "free" /\ Kept(y, x)
                     /\ ConnectEnds(x, b, ok, does) = bufferevent_free(y, b)
<1>1. CASE ok
  <2> DEFINE y == [x EXCEPT !.bev[b].connecting = FALSE]
  <2>1. ConnectEnds(x, b, ok, does) = ConnectedCallback(y, b, does)
    BY <1>1 DEF ConnectEnds
  <2>2. Kept(y, x)
    BY FieldSet
  <2> HIDE DEF y
  <2>3. CASE does = "free"
    BY <2>1, <2>2, <2>3 DEF ConnectedCallback
  <2>4. CASE does # "free"
    <3>1. ConnectedCallback(y, b, does) \in
            {bufferevent_disable(y, b, {"w"}), _bufferevent_run_eventcb(y, b, "connected")}
      BY <2>4 DEF ConnectedCallback
    <3> QED  BY <2>1, <2>2, <3>1, KeptWorld, BuffereventDisableKeeps, RunCallbacksKeep, KeptAgain
  <2> QED  BY <2>3, <2>4
<1>2. CASE ~ok
  <2> DEFINE y == EvDel(x, b, Dirs)
             z == [y EXCEPT !.bev[b].connecting = FALSE, !.bev[b].refused = FALSE, !.bev[b].dead = TRUE]
  <2>1. ConnectEnds(x, b, ok, does) = _bufferevent_run_eventcb(z, b, "end")
    BY <1>2 DEF ConnectEnds
  <2>2. Kept(y, x)
    BY EvDelKeeps
  <2> HIDE DEF y
  <2>3. World(y)
    BY <2>2, KeptWorld
  <2>4. Kept(z, y)
    BY <2>3, ConnectionSet
  <2> HIDE DEF z
  <2> QED  BY <2>1, <2>2, <2>4, KeptWorld, RunCallbacksKeep, KeptAgain
<1> QED  BY <1>1, <1>2

\* bufferevent_writecb, between its two references, unless the user frees it.
LEMMA WriteOrConnectKeeps ==
  ASSUME Structure, NEW x, World(x), NEW b \in Bev, NEW conn, NEW does, NEW took, NEW n, NEW more, NEW busy
  PROVE  LET r == WriteOrConnect(x, b, conn, does, took, n, more, busy)
         IN  Kept(r, x) \/ \E y : /\ does = "free" /\ Kept(y, x)
                                  /\ World(bufferevent_free(y, b)) => Kept(r, bufferevent_free(y, b))
<1> DEFINE r == WriteOrConnect(x, b, conn, does, took, n, more, busy)
           c == ConnectEnds(x, b, TRUE, does)
<1>1. r \in {WriteOut(x, b, took, n, FALSE, more, busy), x} \/ r = ConnectEnds(x, b, FALSE, does)
        \/ r = AfterConnect(c, b, took, n, more, busy)
  BY DEF WriteOrConnect
<1>2. CASE r \in {WriteOut(x, b, took, n, FALSE, more, busy), x}
  BY <1>2, AfterConnectKeeps, KeptItself
<1>3. CASE r = ConnectEnds(x, b, FALSE, does)
  <2> HIDE DEF r
  <2>1. CASE Kept(ConnectEnds(x, b, FALSE, does), x)
    BY <1>3, <2>1 DEF r
  <2>2. CASE \E y : does = "free" /\ Kept(y, x) /\ ConnectEnds(x, b, FALSE, does) = bufferevent_free(y, b)
    BY <1>3, <2>2, KeptItself DEF r
  <2> QED  BY <2>1, <2>2, ConnectKeeps
<1>4. CASE r = AfterConnect(c, b, took, n, more, busy)
  <2>1. World(c) => Kept(r, c)
    BY <1>4, AfterConnectKeeps
  <2> HIDE DEF r
  <2>2. CASE Kept(c, x)
    BY <2>1, <2>2, KeptWorld, KeptAgain DEF r
  <2>3. CASE \E y : does = "free" /\ Kept(y, x) /\ c = bufferevent_free(y, b)
    BY <2>1, <2>3 DEF r
  <2> QED  BY <2>2, <2>3, ConnectKeeps
<1> QED  BY <1>1, <1>2, <1>3, <1>4

\* be_socket_setfd.
LEMMA SetfdKeeps ==
  ASSUME Structure, NEW x, World(x), NEW b \in Bev, NEW fd
  PROVE  Kept(be_socket_setfd(x, b, fd), x)
<1> DEFINE y == EvDel(x, b, Dirs)
           t == TRUE
           n == FALSE
           z1 == [y EXCEPT !.bev[b].fd = t, !.bev[b].dead = n]
           z2 == [y EXCEPT !.bev[b].fd = n, !.bev[b].dead = n]
<1>1. be_socket_setfd(x, b, fd) \in {bufferevent_enable(z1, b, x.bev[b].en), z2}
  BY DEF be_socket_setfd
<1> HIDE DEF t, n
<1>2. Kept(y, x)
  BY EvDelKeeps
<1> HIDE DEF y
<1>3. Kept(z1, x) /\ Kept(z2, x)
  BY <1>2, KeptWorld, ConnectionSet, KeptAgain
<1> HIDE DEF z1, z2
<1>4. Kept(bufferevent_enable(z1, b, x.bev[b].en), x)
  BY <1>3, KeptWorld, BuffereventEnableKeeps, KeptAgain
<1> QED  BY <1>1, <1>3, <1>4

\* bufferevent_socket_connect.
LEMMA SocketConnectKeeps ==
  ASSUME Structure, NEW x, World(x), NEW b \in Bev, NEW r
  PROVE  /\ Kept(bufferevent_socket_connect(x, b, r), x)
         /\ Kept(LookupEnded(x, b, r), x)
<1> DEFINE y == be_socket_setfd(x, b, TRUE)
           z == be_socket_enable(y, b, {"w"})
           t == TRUE
           e == x.bev[b].refused \/ r = "refused"
           c1 == [z EXCEPT !.bev[b].connecting = t]
           c2 == [y EXCEPT !.bev[b].connecting = t, !.bev[b].act = t, !.bev[b].refused = e]
<1>1. bufferevent_socket_connect(x, b, r) \in {_bufferevent_run_eventcb(x, b, "end"), c1, c2}
  BY DEF bufferevent_socket_connect
<1> HIDE DEF t, e
<1>2. Kept(y, x)
  BY SetfdKeeps
<1> HIDE DEF y
<1>3. Kept(z, x)
  BY <1>2, KeptWorld, SocketEnableKeeps, KeptAgain
<1> HIDE DEF z
<1>4. Kept(c1, x)
  BY <1>3, KeptWorld, FieldSet, KeptAgain
<1>5. Kept(c2, x)
  BY <1>2, KeptWorld, ConnectionSet, KeptAgain
<1> HIDE DEF c1, c2
<1>6. Kept(bufferevent_socket_connect(x, b, r), x)
  BY <1>1, <1>4, <1>5, RunCallbacksKeep
<1> QED  BY <1>6, RunCallbacksKeep DEF LookupEnded

\* bufferevent_write.
LEMMA WriteKeeps ==
  ASSUME Structure, NEW x, World(x), NEW b \in Bev, NEW more
  PROVE  Kept(bufferevent_write(x, b, more), x)
<1> DEFINE i == x.bev[b].out + 1
           j == x.bev[b].idle \/ "w" \notin x.bev[b].en
           y == [x EXCEPT !.bev[b].out = i]
           z == [y EXCEPT !.bev[b].idle = j]
<1>1. bufferevent_write(x, b, more) =
        CASE Kind[b] = "socket" -> bufferevent_socket_outbuf_cb(y, b)
          [] Kind[b] = "pair"   -> be_pair_outbuf_cb(y, b)
          [] Kind[b] = "filter" ->
               be_filter_process_output([y EXCEPT !.bev[b].idle = @ \/ "w" \notin x.bev[b].en], b, TRUE, more)
  BY DEF bufferevent_write
<1>2. [y EXCEPT !.bev[b].idle = @ \/ "w" \notin x.bev[b].en] = z
  BY DEF World
<1> HIDE DEF i, j
<1>3. Kept(y, x)
  BY DataSet
<1> HIDE DEF y
<1>4. Kept(z, x)
  BY <1>3, KeptWorld, DataSet, KeptAgain
<1> HIDE DEF z
<1>5. CASE Kind[b] = "socket"
  BY <1>1, <1>3, <1>5, KeptWorld, OutbufKeeps, KeptAgain
<1>6. CASE Kind[b] = "pair"
  BY <1>1, <1>3, <1>6, KeptWorld, PairOutbufKeeps, KeptAgain
<1>7. CASE Kind[b] = "filter"
  BY <1>1, <1>2, <1>4, <1>7, KeptWorld, ProcessOutputKeeps, KeptAgain
<1> QED  BY <1>5, <1>6, <1>7 DEF Structure

\* bufferevent_read.
LEMMA ReadKeeps ==
  ASSUME Structure, NEW x, World(x), NEW b \in Bev, NEW k
  PROVE  Kept(bufferevent_read(x, b, k), x)
<1> DEFINE i == x.bev[b].in - k
           n == FALSE
           y == [x EXCEPT !.bev[b].in = i]
           z == [y EXCEPT !.bev[b].news = n]
<1>1. bufferevent_read(x, b, k) = bufferevent_inbuf_wm_cb(z, b)
  BY DEF bufferevent_read
<1> HIDE DEF i, n
<1>2. Kept(y, x)
  BY DataSet
<1> HIDE DEF y
<1>3. Kept(z, x)
  BY <1>2, KeptWorld, DataSet, KeptAgain
<1> HIDE DEF z
<1> QED  BY <1>1, <1>3, KeptWorld, InbufKeeps, KeptAgain

\* bufferevent_set_timeouts.
LEMMA SetTimeoutsKeeps ==
  ASSUME NEW x, World(x), NEW b \in Bev, NEW on
  PROVE  Kept(bufferevent_set_timeouts(x, b, on), x)
<1> DEFINE y == [x EXCEPT !.bev[b].tmo = on]
<1>1. bufferevent_set_timeouts(x, b, on) \in {y, _bufferevent_generic_adj_timeouts(y, b)}
  BY DEF bufferevent_set_timeouts
<1>2. Kept(y, x)
  BY FieldSet
<1> HIDE DEF y
<1> QED  BY <1>1, <1>2, KeptWorld, AdjustKeeps, KeptAgain

-------------------------------------------------------------------------------
\* References that are taken and given back.

\* A filter that lives has a reference to the one under it.
Held(x, b) == \E g \in Bev : Kind[g] = "filter" /\ Link[g] = b /\ x.bev[g].life = "live"

\* The references that there should be.
Owed(x, b) ==
  One(x.bev[b].user) + One(x.bev[b].dq) + One(x.bev[b].run > 0)
    + x.bev[b].lookups + x.bev[b].kept + One(Held(x, b))

\* e: the references that the operation that runs has taken.
Balanced(x, e) ==
  /\ e \in [Bev -> Nat]
  /\ \A b \in Bev : x.bev[b].ref = Owed(x, b) + e[b]
  /\ \A b \in Bev : e[b] > 0 /\ Kind[b] = "filter" => x.bev[b].life = "live"

\* Who frees what: a filter that closes the one under it does not leave it in the
\* queue, and the user who still has that one has not set its callbacks.
Well(x) ==
  /\ "free_both" \in x.may => \A b \in Bev : x.bev[b].opt = "now"
  /\ \A g \in Bev : Kind[g] = "filter" /\ x.bev[g].life = "live" =>
       /\ x.bev[g].closes /\ ~x.bev[Link[g]].user => x.bev[Link[g]].opt = "now"
       /\ x.bev[Link[g]].user => x.bev[Link[g]].cb = "filter"
  /\ \A b \in Bev : x.bev[b].run # 1

\* The invariant while an operation runs.
Bal(x, e) == World(x) /\ Balanced(x, e) /\ Well(x)

\* An operation that keeps the references keeps them balanced.
LEMMA KeptBal ==
  ASSUME Structure, NEW x, NEW y, NEW e, Bal(x, e), KeptRefs(y, x)
  PROVE  Bal(y, e)
<1>1. World(y) /\ World(x)
  BY DEF Bal, KeptRefs
<1>2. \A b \in Bev : Held(y, b) = Held(x, b)
  BY DEF Held, KeptRefs, Same
<1>3. \A b \in Bev : y.bev[b].ref = Owed(y, b) + e[b]
  <2> TAKE b \in Bev
  <2>1. x.bev[b].ref = Owed(x, b) + e[b] /\ e[b] \in Nat
    BY DEF Bal, Balanced
  <2>2. Same(y.bev[b], x.bev[b])
    BY DEF KeptRefs
  <2>3. One(Held(y, b)) = One(Held(x, b)) /\ One(Held(x, b)) \in Nat
    BY <1>2 DEF One
  <2>4. /\ x.bev[b].ref \in Int /\ y.bev[b].ref \in Int /\ x.bev[b].lookups \in Nat /\ x.bev[b].kept \in Nat
    BY <1>1 DEF World, BevOk
  <2> HIDE DEF One
  <2>5. /\ One(x.bev[b].dq) \in Int /\ One(y.bev[b].dq) \in Int /\ One(x.bev[b].user) \in Int
        /\ One(x.bev[b].run > 0) \in Int
    BY DEF One
  <2> QED  BY <2>1, <2>2, <2>3, <2>4, <2>5 DEF Owed, Same
<1>4. Balanced(y, e)
  BY <1>3 DEF Bal, Balanced, KeptRefs, Same
<1>5. Well(y)
  BY DEF Bal, Well, KeptRefs, Same, Structure
<1> QED  BY <1>1, <1>4, <1>5 DEF Bal

\* _bufferevent_incref.
LEMMA IncrefBal ==
  ASSUME Structure, NEW x, NEW e, Bal(x, e), NEW b \in Bev,
         Kind[b] = "filter" => x.bev[b].life = "live"
  PROVE  Bal(Incref(x, b), [e EXCEPT ![b] = @ + 1])
<1> DEFINE y == Incref(x, b)
           d == [e EXCEPT ![b] = @ + 1]
<1>1. World(x)
  BY DEF Bal
<1>2. /\ \A c \in Bev : /\ y.bev[c].life = x.bev[c].life /\ y.bev[c].user = x.bev[c].user
                        /\ y.bev[c].dq = x.bev[c].dq /\ y.bev[c].run = x.bev[c].run
                        /\ y.bev[c].lookups = x.bev[c].lookups /\ y.bev[c].kept = x.bev[c].kept
                        /\ y.bev[c].cb = x.bev[c].cb
                        /\ y.bev[c].closes = x.bev[c].closes /\ y.bev[c].opt = x.bev[c].opt
                        /\ DOMAIN y.bev[c] = DOMAIN x.bev[c]
                        /\ y.bev[c].ref = IF c = b THEN x.bev[c].ref + 1 ELSE x.bev[c].ref
      /\ y.may = x.may /\ y.grp = x.grp /\ y.adding = x.adding /\ DOMAIN y = DOMAIN x
      /\ DOMAIN y.bev = Bev
  BY <1>1 DEF Incref, World, BevOk, Counted
<1> HIDE DEF y
<1>3. World(y)
  BY <1>1, <1>2 DEF World, BevOk
<1>4. \A c \in Bev : Owed(y, c) = Owed(x, c)
  <2>1. \A c \in Bev : Held(y, c) = Held(x, c)
    BY <1>2 DEF Held
  <2> QED  BY <1>2, <2>1 DEF Owed
<1>5. Balanced(y, d)
  <2>1. \A c \in Bev : Owed(x, c) \in Int
    BY <1>1 DEF Owed, One, World, BevOk
  <2> HIDE DEF Owed
  <2> QED  BY <1>2, <1>4, <2>1 DEF Bal, Balanced
<1>6. Well(y)
  BY <1>2 DEF Bal, Well, Structure
<1> QED  BY <1>3, <1>5, <1>6 DEF Bal, y

\* The record of a bufferevent that is freed.
LEMMA EndedOk ==
  ASSUME NEW v, NEW b, Counted \subseteq DOMAIN v, v.opt = "now", v.cb = "user", v.ref = 0,
         v.user = FALSE, v.dq = FALSE, v.run = 0, v.lookups = 0, v.kept = 0
  PROVE  BevOk(v, b)
<1>1. v.cb \in {"none", "user", "filter"} /\ v.cb # "filter"
  OBVIOUS
<1>2. v.ref \in Int /\ v.lookups \in Nat /\ v.kept \in Nat /\ v.run \in Nat
  OBVIOUS
<1>3. v.user \in BOOLEAN /\ v.dq \in BOOLEAN
  OBVIOUS
<1>4. ~(v.lookups > 0)
  OBVIOUS
<1> QED  BY <1>1, <1>2, <1>3, <1>4 DEF BevOk

\* What the last _bufferevent_decref_and_unlock leaves.
LEMMA DestroyedIs ==
  ASSUME NEW x, World(x), NEW b \in Bev
  PROVE  LET y == Destroyed(x, b)
         IN  /\ \A c \in Bev \ {b} : y.bev[c] = x.bev[c]
             /\ Counted \subseteq DOMAIN y.bev[b]
             /\ y.bev[b].life = "freed" /\ y.bev[b].ref = 0 /\ y.bev[b].cb = "user"
             /\ y.bev[b].opt = "now" /\ y.bev[b].closes = FALSE
             /\ y.bev[b].user = x.bev[b].user /\ y.bev[b].dq = x.bev[b].dq
             /\ y.bev[b].run = x.bev[b].run /\ y.bev[b].lookups = x.bev[b].lookups
             /\ y.bev[b].kept = x.bev[b].kept
             /\ y.may = x.may /\ y.adding = x.adding /\ DOMAIN y = DOMAIN x
             /\ DOMAIN y.bev = Bev
             /\ "members" \in DOMAIN y.grp /\ y.grp.members \in Seq(Bev)
<1> DEFINE m == RemoveFirst(x.grp.members, b)
           r == [NewBev EXCEPT !.life = "freed", !.user = x.bev[b].user, !.ref = 0,
                               !.dq = x.bev[b].dq, !.run = x.bev[b].run,
                               !.lookups = x.bev[b].lookups, !.kept = x.bev[b].kept]
           y == [x EXCEPT !.bev[b] = r, !.grp.members = m]
<1>1. m \in Seq(Bev)
  BY SeqWithout DEF World
<1>2. Destroyed(x, b) = y
  BY DEF Destroyed
<1>3. /\ Counted \subseteq DOMAIN r
      /\ r.life = "freed" /\ r.ref = 0 /\ r.cb = "user" /\ r.opt = "now" /\ r.closes = FALSE
      /\ r.user = x.bev[b].user /\ r.dq = x.bev[b].dq /\ r.run = x.bev[b].run
      /\ r.lookups = x.bev[b].lookups /\ r.kept = x.bev[b].kept
  BY DEF NewBev, Counted
<1> HIDE DEF m, r
<1>4. /\ \A c \in Bev \ {b} : y.bev[c] = x.bev[c]
      /\ y.bev[b] = r /\ y.may = x.may /\ y.adding = x.adding /\ DOMAIN y = DOMAIN x
      /\ DOMAIN y.bev = Bev /\ "members" \in DOMAIN y.grp /\ y.grp.members = m
  BY DEF World
<1> HIDE DEF y
<1> QED  BY <1>1, <1>2, <1>3, <1>4

\* The last reference: nothing else refers to it.
LEMMA LastReference ==
  ASSUME NEW x, NEW e, Bal(x, e), NEW b \in Bev, e[b] >= 1, x.bev[b].ref <= 1
  PROVE  /\ e[b] = 1 /\ x.bev[b].ref = 1
         /\ x.bev[b].user = FALSE /\ x.bev[b].dq = FALSE /\ x.bev[b].run = 0
         /\ x.bev[b].lookups = 0 /\ x.bev[b].kept = 0 /\ ~Held(x, b)
<1>1. /\ x.bev[b].ref \in Int /\ x.bev[b].lookups \in Nat /\ x.bev[b].kept \in Nat /\ x.bev[b].run \in Nat
      /\ x.bev[b].user \in BOOLEAN /\ x.bev[b].dq \in BOOLEAN
  BY DEF Bal, World, BevOk
<1>2. x.bev[b].ref = Owed(x, b) + e[b] /\ e[b] \in Nat
  BY DEF Bal, Balanced
<1>3. /\ One(x.bev[b].user) \in Nat /\ One(x.bev[b].dq) \in Nat /\ One(x.bev[b].run > 0) \in Nat
      /\ One(Held(x, b)) \in Nat
  BY DEF One
<1>4. /\ x.bev[b].user => One(x.bev[b].user) = 1
      /\ x.bev[b].dq => One(x.bev[b].dq) = 1
      /\ x.bev[b].run > 0 => One(x.bev[b].run > 0) = 1
      /\ Held(x, b) => One(Held(x, b)) = 1
  BY DEF One
<1> HIDE DEF One, Held
<1> DEFINE u == One(x.bev[b].user)
           d == One(x.bev[b].dq)
           n == One(x.bev[b].run > 0)
           h == One(Held(x, b))
<1>5. Owed(x, b) = u + d + n + x.bev[b].lookups + x.bev[b].kept + h
  BY DEF Owed
<1>6. u \in Nat /\ d \in Nat /\ n \in Nat /\ h \in Nat
  BY <1>3
<1> HIDE DEF u, d, n, h
<1>7. /\ e[b] = 1 /\ x.bev[b].ref = 1
      /\ u = 0 /\ d = 0 /\ n = 0 /\ x.bev[b].lookups = 0 /\ x.bev[b].kept = 0 /\ h = 0
  BY <1>1, <1>2, <1>5, <1>6
<1> USE DEF u, d, n, h
<1> QED  BY <1>1, <1>4, <1>7

\* The last reference has gone.
LEMMA DestroyedBal ==
  ASSUME Structure, NEW x, NEW e, Bal(x, e), NEW b \in Bev, Kind[b] # "filter",
         e[b] >= 1, x.bev[b].ref <= 1
  PROVE  Bal(Destroyed(x, b), [e EXCEPT ![b] = @ - 1])
<1> DEFINE y == Destroyed(x, b)
           d == [e EXCEPT ![b] = @ - 1]
<1>1. /\ e[b] = 1 /\ x.bev[b].ref = 1
      /\ x.bev[b].user = FALSE /\ x.bev[b].dq = FALSE /\ x.bev[b].run = 0
      /\ x.bev[b].lookups = 0 /\ x.bev[b].kept = 0 /\ ~Held(x, b)
  BY LastReference
<1>2. World(x)
  BY DEF Bal
<1>3. /\ \A c \in Bev \ {b} : y.bev[c] = x.bev[c]
      /\ Counted \subseteq DOMAIN y.bev[b]
      /\ y.bev[b].life = "freed" /\ y.bev[b].ref = 0 /\ y.bev[b].cb = "user"
      /\ y.bev[b].opt = "now" /\ y.bev[b].closes = FALSE
      /\ y.bev[b].user = FALSE /\ y.bev[b].dq = FALSE
      /\ y.bev[b].run = 0 /\ y.bev[b].lookups = 0 /\ y.bev[b].kept = 0
      /\ y.may = x.may /\ y.adding = x.adding /\ DOMAIN y = DOMAIN x
      /\ DOMAIN y.bev = Bev
      /\ "members" \in DOMAIN y.grp /\ y.grp.members \in Seq(Bev)
  <2>1. /\ \A c \in Bev \ {b} : y.bev[c] = x.bev[c]
        /\ Counted \subseteq DOMAIN y.bev[b]
        /\ y.bev[b].life = "freed" /\ y.bev[b].ref = 0 /\ y.bev[b].cb = "user"
        /\ y.bev[b].opt = "now" /\ y.bev[b].closes = FALSE
        /\ y.bev[b].user = x.bev[b].user /\ y.bev[b].dq = x.bev[b].dq
        /\ y.bev[b].run = x.bev[b].run /\ y.bev[b].lookups = x.bev[b].lookups
        /\ y.bev[b].kept = x.bev[b].kept
        /\ y.may = x.may /\ y.adding = x.adding /\ DOMAIN y = DOMAIN x
        /\ DOMAIN y.bev = Bev
        /\ "members" \in DOMAIN y.grp /\ y.grp.members \in Seq(Bev)
    BY <1>2, DestroyedIs
  <2> HIDE DEF y
  <2> QED  BY <1>1, <2>1
<1> HIDE DEF y
<1>4. World(y)
  <2>1. BevOk(y.bev[b], b)
    BY <1>3, EndedOk
  <2>2. \A c \in Bev : BevOk(y.bev[c], c)
    BY <1>2, <1>3, <2>1 DEF World
  <2> QED  BY <1>2, <1>3, <2>2 DEF World
<1>5. \A c \in Bev : Held(y, c) = Held(x, c)
  BY <1>3 DEF Held
<1>6. Balanced(y, d)
  <2>1. Owed(y, b) = 0
    BY <1>1, <1>3, <1>5 DEF Owed, One
  <2>2. \A c \in Bev \ {b} : Owed(y, c) = Owed(x, c)
    BY <1>3, <1>5 DEF Owed
  <2> HIDE DEF Owed
  <2> QED  BY <1>1, <1>3, <2>1, <2>2 DEF Bal, Balanced
<1>7. Well(y)
  <2>1. \A g \in Bev : Kind[g] = "filter" /\ y.bev[g].life = "live" =>
          g # b /\ x.bev[g].life = "live" /\ Link[g] \in Bev \ {b}
    BY <1>1, <1>3 DEF Held, Structure
  <2> QED  BY <1>3, <2>1 DEF Bal, Well
<1> QED  BY <1>4, <1>6, <1>7 DEF Bal, y

\* The same up to the callback and the reference of the user.
Taken(r, v) ==
  /\ r.life = v.life /\ r.run = v.run /\ r.lookups = v.lookups /\ r.kept = v.kept
  /\ r.closes = v.closes /\ r.opt = v.opt
  /\ r.ref - One(r.dq) - One(r.user) = v.ref - One(v.dq) - One(v.user)

\* The end of a filter, which has left its reference to the one under it.
LEMMA FilterDestroyed ==
  ASSUME Structure, NEW x, NEW e, Bal(x, e), NEW b \in Bev, Kind[b] = "filter",
         e[b] >= 1, x.bev[b].ref <= 1,
         NEW y, World(y), y.may = x.may, Taken(y.bev[Link[b]], x.bev[Link[b]]),
         \A c \in Bev \ {Link[b]} : y.bev[c] = x.bev[c]
  PROVE  Bal(Destroyed(y, b), [e EXCEPT ![b] = @ - 1, ![Link[b]] = @ + 1])
<1> DEFINE z == Destroyed(y, b)
           u == Link[b]
           d == [e EXCEPT ![b] = @ - 1, ![u] = @ + 1]
<1>1. /\ e[b] = 1 /\ x.bev[b].ref = 1
      /\ x.bev[b].user = FALSE /\ x.bev[b].dq = FALSE /\ x.bev[b].run = 0
      /\ x.bev[b].lookups = 0 /\ x.bev[b].kept = 0 /\ ~Held(x, b)
  BY LastReference
<1>10. x.bev[b].life = "live"
  BY DEF Bal, Balanced
<1>2. u \in Bev /\ u # b /\ Kind[u] = "socket"
  BY DEF Structure
<1>3. World(x)
  BY DEF Bal
<1>4. /\ \A c \in Bev \ {b} : z.bev[c] = y.bev[c]
      /\ Counted \subseteq DOMAIN z.bev[b]
      /\ z.bev[b].life = "freed" /\ z.bev[b].ref = 0 /\ z.bev[b].cb = "user"
      /\ z.bev[b].opt = "now" /\ z.bev[b].closes = FALSE
      /\ z.bev[b].user = FALSE /\ z.bev[b].dq = FALSE
      /\ z.bev[b].run = 0 /\ z.bev[b].lookups = 0 /\ z.bev[b].kept = 0
      /\ z.may = y.may /\ z.adding = y.adding /\ DOMAIN z = DOMAIN y
      /\ DOMAIN z.bev = Bev
      /\ "members" \in DOMAIN z.grp /\ z.grp.members \in Seq(Bev)
  <2>1. /\ \A c \in Bev \ {b} : z.bev[c] = y.bev[c]
        /\ Counted \subseteq DOMAIN z.bev[b]
        /\ z.bev[b].life = "freed" /\ z.bev[b].ref = 0 /\ z.bev[b].cb = "user"
        /\ z.bev[b].opt = "now" /\ z.bev[b].closes = FALSE
        /\ z.bev[b].user = y.bev[b].user /\ z.bev[b].dq = y.bev[b].dq
        /\ z.bev[b].run = y.bev[b].run /\ z.bev[b].lookups = y.bev[b].lookups
        /\ z.bev[b].kept = y.bev[b].kept
        /\ z.may = y.may /\ z.adding = y.adding /\ DOMAIN z = DOMAIN y
        /\ DOMAIN z.bev = Bev
        /\ "members" \in DOMAIN z.grp /\ z.grp.members \in Seq(Bev)
    BY DestroyedIs
  <2>2. y.bev[b] = x.bev[b]
    BY <1>2
  <2> HIDE DEF z
  <2> QED  BY <1>1, <2>1, <2>2
<1> HIDE DEF z
<1>5. World(z)
  <2>1. BevOk(z.bev[b], b)
    BY <1>4, EndedOk
  <2>2. \A c \in Bev : BevOk(z.bev[c], c)
    BY <1>4, <2>1 DEF World
  <2> QED  BY <1>4, <2>2 DEF World
<1>11. \A c \in Bev \ {b, u} : z.bev[c] = x.bev[c]
  BY <1>4
<1>12. Taken(z.bev[u], x.bev[u]) /\ z.may = x.may
  BY <1>2, <1>4
<1>6. /\ Held(x, u) /\ ~Held(z, u) /\ ~Held(z, b)
      /\ \A c \in Bev \ {u} : Held(z, c) = Held(x, c)
  <2>1. \A g \in Bev : Kind[g] = "filter" => z.bev[g].life = IF g = b THEN "freed" ELSE x.bev[g].life
    BY <1>2, <1>4, <1>11, <1>12
  <2>2. \A g \in Bev : Kind[g] = "filter" /\ Link[g] = u => g = b
    BY DEF Structure
  <2> QED  BY <1>1, <1>10, <1>2, <2>1, <2>2 DEF Held
<1>7. Balanced(z, d)
  <2>1. z.bev[b].ref = Owed(z, b) + d[b] /\ d[b] = 0
    <3>1. Owed(z, b) = 0
      BY <1>4, <1>11, <1>12, <1>6 DEF Owed, One
    <3>2. d[b] = 0
      BY <1>1, <1>10, <1>2 DEF Bal, Balanced
    <3> QED  BY <1>4, <1>11, <1>12, <3>1, <3>2
  <2>2. z.bev[u].ref = Owed(z, u) + d[u]
    <3>1. x.bev[u].ref = Owed(x, u) + e[u] /\ e[u] \in Nat /\ d[u] = e[u] + 1
      BY <1>2 DEF Bal, Balanced
    <3>2. /\ x.bev[u].ref \in Int /\ x.bev[u].lookups \in Nat /\ x.bev[u].kept \in Nat
          /\ z.bev[u].ref \in Int
      BY <1>2, <1>3, <1>5 DEF World, BevOk
    <3>3. Taken(z.bev[u], x.bev[u])
      BY <1>4, <1>11, <1>12
    <3>4. One(Held(x, u)) = 1 /\ One(Held(z, u)) = 0
      BY <1>6 DEF One
    <3>5. /\ One(x.bev[u].dq) \in Int /\ One(z.bev[u].dq) \in Int
          /\ One(x.bev[u].user) \in Int /\ One(z.bev[u].user) \in Int
          /\ One(x.bev[u].run > 0) \in Int
      BY DEF One
    <3> HIDE DEF One
    <3> QED  BY <3>1, <3>2, <3>3, <3>4, <3>5 DEF Owed, Taken
  <2>3. \A c \in Bev \ {b, u} : z.bev[c].ref = Owed(z, c) + d[c]
    <3>1. \A c \in Bev \ {b, u} : Owed(z, c) = Owed(x, c)
      BY <1>4, <1>11, <1>12, <1>6 DEF Owed
    <3> HIDE DEF Owed
    <3> QED  BY <1>4, <1>11, <1>12, <3>1 DEF Bal, Balanced
  <2>4. d \in [Bev -> Nat]
    BY <1>1, <1>10, <1>2 DEF Bal, Balanced
  <2>5. \A c \in Bev : d[c] > 0 /\ Kind[c] = "filter" => z.bev[c].life = "live"
    BY <1>2, <1>4, <1>11, <1>12, <2>1 DEF Bal, Balanced
  <2> QED  BY <2>1, <2>2, <2>3, <2>4, <2>5 DEF Balanced
<1>8. Well(z)
  <2>1. \A g \in Bev : Kind[g] = "filter" /\ z.bev[g].life = "live" =>
          g \in Bev \ {b, u} /\ x.bev[g].life = "live" /\ Link[g] \in Bev \ {b, u}
    BY <1>1, <1>10, <1>2, <1>4, <1>11, <1>12, <1>6 DEF Held, Structure
  <2>2. z.bev[u].opt = x.bev[u].opt /\ z.bev[u].run = x.bev[u].run
    BY <1>4, <1>11, <1>12 DEF Taken
  <2> QED  BY <1>2, <1>4, <1>11, <1>12, <2>1, <2>2 DEF Bal, Well
<1> QED  BY <1>5, <1>7, <1>8 DEF Bal, z

\* What the end of a filter does to the one under it.
LEMMA UnderTouched ==
  ASSUME NEW x, World(x), NEW u \in Bev
  PROVE  /\ \A c \in Bev \ {u} : SocketUnsuspend(x, u, "r", "FILT_READ").bev[c] = x.bev[c]
         /\ \A c \in Bev \ {u} : [x EXCEPT !.bev[u].cb = "none"].bev[c] = x.bev[c]
<1> DEFINE y == [x EXCEPT !.bev[u].sus["r"] = @ \ {"FILT_READ"}]
<1>1. SocketUnsuspend(x, u, "r", "FILT_READ") \in {y, be_socket_enable(y, u, {"r"})}
  BY DEF SocketUnsuspend
<1>2. DOMAIN x.bev = Bev /\ "bev" \in DOMAIN x
  BY DEF World
<1>3. DOMAIN y.bev = Bev /\ "bev" \in DOMAIN y /\ \A c \in Bev \ {u} : y.bev[c] = x.bev[c]
  BY <1>2
<1> HIDE DEF y
<1>4. \A c \in Bev \ {u} : be_socket_enable(y, u, {"r"}).bev[c] = x.bev[c]
  BY <1>3 DEF be_socket_enable
<1> QED  BY <1>1, <1>2, <1>3, <1>4

\* be_filter_destruct takes its callbacks off the one under it.
LEMMA CallbackOff ==
  ASSUME NEW x, World(x), NEW u \in Bev
  PROVE  LET y == [x EXCEPT !.bev[u].cb = "none"]
         IN  World(y) /\ y.may = x.may /\ Taken(y.bev[u], x.bev[u]) /\ y.bev[u].ref = x.bev[u].ref
<1> DEFINE y == [x EXCEPT !.bev[u].cb = "none"]
<1>1. World(y)
  BY DEF World, BevOk, Counted
<1>2. y.may = x.may /\ y.bev[u].ref = x.bev[u].ref
  BY DEF World, BevOk, Counted
<1>3. Taken(y.bev[u], x.bev[u])
  BY DEF World, BevOk, Counted, Taken
<1> QED  BY <1>1, <1>2, <1>3

\* That changes none of the references.
LEMMA SameTaken ==
  ASSUME NEW r, NEW v, Same(r, v)
  PROVE  Taken(r, v)
BY DEF Same, Taken, One

\* be_filter_destruct without BEV_OPT_CLOSE_ON_FREE.
LEMMA OpenDestructed ==
  ASSUME Structure, NEW x, World(x), NEW b \in Bev, Kind[b] = "filter", ~x.bev[b].closes
  PROVE  LET y == be_filter_destruct(x, b)
         IN  /\ World(y) /\ y.may = x.may /\ Taken(y.bev[Link[b]], x.bev[Link[b]])
             /\ \A c \in Bev \ {Link[b]} : y.bev[c] = x.bev[c]
<1> DEFINE u == Link[b]
           y == IF x.bev[u].cb = "filter" THEN [x EXCEPT !.bev[u].cb = "none"] ELSE x
           z == SocketUnsuspend(y, u, "r", "FILT_READ")
<1>1. u \in Bev
  BY DEF Structure
<1>2. be_filter_destruct(x, b) = z
  BY DEF be_filter_destruct
<1>3. World(y) /\ y.may = x.may /\ Taken(y.bev[u], x.bev[u])
  BY <1>1, CallbackOff DEF Taken
<1>4. \A c \in Bev \ {u} : y.bev[c] = x.bev[c]
  BY <1>1, UnderTouched
<1> HIDE DEF y
<1>5. Kept(z, y) /\ \A c \in Bev \ {u} : z.bev[c] = y.bev[c]
  BY <1>1, <1>3, SocketUnsuspendKeeps, UnderTouched
<1> HIDE DEF z
<1>6. World(z) /\ z.may = x.may /\ Same(z.bev[u], y.bev[u])
  BY <1>1, <1>3, <1>5, KeptWorld
<1>7. Taken(z.bev[u], x.bev[u])
  <2>1. Taken(z.bev[u], y.bev[u])
    BY <1>6, SameTaken
  <2> QED  BY <1>3, <2>1 DEF Taken
<1> QED  BY <1>2, <1>4, <1>5, <1>6, <1>7

\* A reference that is not the last is given back.
LEMMA ReducedBal ==
  ASSUME Structure, NEW x, NEW e, Bal(x, e), NEW b \in Bev, e[b] >= 1
  PROVE  Bal([x EXCEPT !.bev[b].ref = @ - 1], [e EXCEPT ![b] = @ - 1])
<1> DEFINE y == [x EXCEPT !.bev[b].ref = @ - 1]
           d == [e EXCEPT ![b] = @ - 1]
<1>1. World(x)
  BY DEF Bal
<1>2. /\ \A c \in Bev : /\ y.bev[c].life = x.bev[c].life /\ y.bev[c].user = x.bev[c].user
                        /\ y.bev[c].dq = x.bev[c].dq /\ y.bev[c].run = x.bev[c].run
                        /\ y.bev[c].lookups = x.bev[c].lookups /\ y.bev[c].kept = x.bev[c].kept
                        /\ y.bev[c].cb = x.bev[c].cb
                        /\ y.bev[c].closes = x.bev[c].closes /\ y.bev[c].opt = x.bev[c].opt
                        /\ DOMAIN y.bev[c] = DOMAIN x.bev[c]
                        /\ y.bev[c].ref = IF c = b THEN x.bev[c].ref - 1 ELSE x.bev[c].ref
      /\ y.may = x.may /\ y.grp = x.grp /\ y.adding = x.adding /\ DOMAIN y = DOMAIN x
      /\ DOMAIN y.bev = Bev
  BY <1>1 DEF World, BevOk, Counted
<1> HIDE DEF y
<1>3. World(y)
  BY <1>1, <1>2 DEF World, BevOk
<1>4. \A c \in Bev : Owed(y, c) = Owed(x, c)
  <2>1. \A c \in Bev : Held(y, c) = Held(x, c)
    BY <1>2 DEF Held
  <2> QED  BY <1>2, <2>1 DEF Owed
<1>5. Balanced(y, d)
  <2>1. \A c \in Bev : Owed(x, c) \in Int
    BY <1>1 DEF Owed, One, World, BevOk
  <2> HIDE DEF Owed
  <2> QED  BY <1>2, <1>4, <2>1 DEF Bal, Balanced
<1>6. Well(y)
  BY <1>2 DEF Bal, Well, Structure
<1> QED  BY <1>3, <1>5, <1>6 DEF Bal, y

\* _bufferevent_decref_and_unlock of a socket or of one of a pair.
LEMMA SocketDecrefBal ==
  ASSUME Structure, NEW x, NEW e, Bal(x, e), NEW b \in Bev, Kind[b] # "filter", e[b] >= 1
  PROVE  Bal(SocketDecref(x, b), [e EXCEPT ![b] = @ - 1])
<1>1. x.bev[b].ref \in Int
  BY DEF Bal, World, BevOk
<1> QED  BY <1>1, ReducedBal, DestroyedBal DEF SocketDecref

\* The one under a filter that closes it, if references to it are left.
LEMMA ClosedDestructed ==
  ASSUME Structure, NEW x, NEW e, Bal(x, e), NEW b \in Bev, Kind[b] = "filter",
         x.bev[b].life = "live", x.bev[b].closes, e[Link[b]] = 0
  PROVE  LET y == be_filter_destruct(x, b)
         IN  /\ World(y) /\ y.may = x.may /\ Taken(y.bev[Link[b]], x.bev[Link[b]])
             /\ \A c \in Bev \ {Link[b]} : y.bev[c] = x.bev[c]
<1> DEFINE u == Link[b]
           y == [x EXCEPT !.bev[u].cb = "none", !.bev[u].user = FALSE]
           z == [y EXCEPT !.bev[u].ref = @ - 1]
<1>1. u \in Bev /\ World(x)
  BY DEF Structure, Bal
<1>2. CASE x.bev[u].ref < 2
  <2>1. be_filter_destruct(x, b) = x
    BY <1>2 DEF be_filter_destruct
  <2> QED  BY <1>1, <2>1 DEF Taken
<1>3. CASE ~(x.bev[u].ref < 2)
  <2>1. x.bev[u].user = TRUE
    <3> SUFFICES ASSUME x.bev[u].user = FALSE
                 PROVE  FALSE
      BY <1>1 DEF World, BevOk
    <3>1. x.bev[u].opt = "now"
      BY DEF Bal, Well
    <3>2. BevOk(x.bev[u], u) /\ Under(u)
      BY <1>1 DEF World, Under
    <3>3. x.bev[u].dq = FALSE /\ x.bev[u].run = 0 /\ x.bev[u].lookups = 0 /\ x.bev[u].kept = 0
      BY <1>1, <3>1, <3>2 DEF BevOk, Structure
    <3>4. x.bev[u].ref = Owed(x, u)
      <4>1. x.bev[u].ref = Owed(x, u) + 0
        BY <1>1 DEF Bal, Balanced
      <4>2. Owed(x, u) \in Int
        BY <1>1 DEF World, BevOk, Owed, One
      <4> QED  BY <4>1, <4>2
    <3> QED  BY <1>3, <3>3, <3>4 DEF Owed, One
  <2>2. x.bev[u].ref \in Int /\ x.bev[u].ref > 1
    BY <1>1, <1>3 DEF World, BevOk
  <2>3. y.bev[u].ref = x.bev[u].ref
    BY <1>1 DEF World
  <2>4. be_filter_destruct(x, b) = z
    BY <1>3, <2>2, <2>3 DEF be_filter_destruct, SocketFree, SocketDecref
  <2>5. World(z)
    <3>1. /\ z.bev[u].ref = x.bev[u].ref - 1 /\ z.bev[u].cb = "none" /\ z.bev[u].user = FALSE
          /\ z.bev[u].lookups = x.bev[u].lookups /\ z.bev[u].kept = x.bev[u].kept
          /\ z.bev[u].run = x.bev[u].run
          /\ z.bev[u].dq = x.bev[u].dq /\ z.bev[u].opt = x.bev[u].opt
          /\ DOMAIN z.bev[u] = DOMAIN x.bev[u]
      BY <1>1 DEF World, BevOk, Counted
    <3>2. /\ \A c \in Bev \ {u} : z.bev[c] = x.bev[c]
          /\ DOMAIN z = DOMAIN x /\ DOMAIN z.bev = Bev /\ z.grp = x.grp /\ z.adding = x.adding
      BY <1>1 DEF World
    <3> HIDE DEF z
    <3>3. BevOk(z.bev[u], u)
      <4>1. z.bev[u].user \in BOOLEAN /\ z.bev[u].cb \in {"none", "user", "filter"}
        BY <3>1
      <4>2. z.bev[u].cb # "filter"
        BY <3>1
      <4>3. BevOk(x.bev[u], u)
        BY <1>1 DEF World
      <4> QED  BY <2>2, <3>1, <4>1, <4>2, <4>3 DEF BevOk
    <3>4. \A c \in Bev : BevOk(z.bev[c], c)
      BY <1>1, <3>2, <3>3 DEF World
    <3> QED  BY <1>1, <3>2, <3>4 DEF World
  <2>6. z.may = x.may /\ \A c \in Bev \ {u} : z.bev[c] = x.bev[c]
    BY <1>1 DEF World
  <2>7. Taken(z.bev[u], x.bev[u])
    BY <1>1, <2>1, <2>2 DEF World, BevOk, Counted, Taken, One
  <2> HIDE DEF z
  <2> QED  BY <2>4, <2>5, <2>6, <2>7
<1> QED  BY <1>2, <1>3

\* A reference that is given back.
LEMMA DecrefBal ==
  ASSUME Structure, NEW x, NEW e, Bal(x, e), NEW b \in Bev, e[b] >= 1,
         Kind[b] = "filter" => e[Link[b]] = 0
  PROVE  Bal(Decref(x, b), [e EXCEPT ![b] = @ - 1])
<1>1. x.bev[b].ref \in Int /\ World(x) /\ e \in [Bev -> Nat]
  BY DEF Bal, World, BevOk, Balanced
<1>2. CASE x.bev[b].ref > 1
  BY <1>2, ReducedBal DEF Decref
<1>3. CASE x.bev[b].ref <= 1 /\ Kind[b] # "filter"
  <2>1. Decref(x, b) = Destroyed(x, b)
    BY <1>1, <1>3 DEF Decref
  <2> QED  BY <1>3, <2>1, DestroyedBal
<1>4. CASE x.bev[b].ref <= 1 /\ Kind[b] = "filter"
  <2> DEFINE u == Link[b]
             y == be_filter_destruct(x, b)
             d == [e EXCEPT ![b] = @ - 1, ![u] = @ + 1]
  <2>1. u \in Bev /\ Kind[u] # "filter" /\ u # b
    BY <1>4 DEF Structure
  <2>2. x.bev[b].life = "live"
    BY <1>1, <1>4 DEF Bal, Balanced
  <2>3. /\ World(y) /\ y.may = x.may /\ Taken(y.bev[u], x.bev[u])
        /\ \A c \in Bev \ {u} : y.bev[c] = x.bev[c]
    <3>1. CASE x.bev[b].closes
      BY <1>4, <2>2, <3>1, ClosedDestructed
    <3>2. CASE ~x.bev[b].closes
      BY <1>1, <1>4, <3>2, OpenDestructed
    <3> QED  BY <3>1, <3>2
  <2>4. Decref(x, b) = SocketDecref(Destroyed(y, b), u)
    BY <1>1, <1>4 DEF Decref
  <2> HIDE DEF y
  <2>5. Bal(Destroyed(y, b), d)
    BY <1>4, <2>3, FilterDestroyed
  <2>6. d[u] >= 1 /\ [d EXCEPT ![u] = @ - 1] = [e EXCEPT ![b] = @ - 1]
    BY <1>1, <1>4, <2>1
  <2> HIDE DEF d
  <2> QED  BY <2>1, <2>4, <2>5, <2>6, SocketDecrefBal
<1> QED  BY <1>1, <1>2, <1>3, <1>4

\* A reference that is given back is no more the operation's.
LEMMA GivenBack ==
  ASSUME NEW e \in [Bev -> Nat], NEW b \in Bev
  PROVE  [[e EXCEPT ![b] = @ + 1] EXCEPT ![b] = @ - 1] = e
<1> DEFINE d == [[e EXCEPT ![b] = @ + 1] EXCEPT ![b] = @ - 1]
<1>1. d \in [Bev -> Nat] /\ \A c \in Bev : d[c] = e[c]
  OBVIOUS
<1> HIDE DEF d
<1>2. d = e
  BY <1>1
<1> QED  BY <1>2 DEF d

\* The user gives his reference to the operation that frees.
LEMMA UserLeft ==
  ASSUME Structure, NEW x, NEW e, Bal(x, e), NEW b \in Bev, x.bev[b].user,
         Kind[b] = "filter" => x.bev[b].life = "live",
         \A g \in Bev : Kind[g] = "filter" /\ Link[g] = b /\ x.bev[g].life = "live"
                          /\ x.bev[g].closes => x.bev[b].opt = "now"
  PROVE  LET y == [x EXCEPT !.bev[b].cb = "none", !.bev[b].user = FALSE]
         IN  /\ Bal(y, [e EXCEPT ![b] = @ + 1])
             /\ y.bev[b].ref = x.bev[b].ref
             /\ \A c \in Bev : y.bev[c].life = x.bev[c].life
<1> DEFINE y == [x EXCEPT !.bev[b].cb = "none", !.bev[b].user = FALSE]
           d == [e EXCEPT ![b] = @ + 1]
<1>1. World(x) /\ e \in [Bev -> Nat]
  BY DEF Bal, Balanced
<1>2. /\ \A c \in Bev : /\ y.bev[c].life = x.bev[c].life
                        /\ y.bev[c].dq = x.bev[c].dq /\ y.bev[c].run = x.bev[c].run
                        /\ y.bev[c].lookups = x.bev[c].lookups /\ y.bev[c].kept = x.bev[c].kept
                        /\ y.bev[c].ref = x.bev[c].ref
                        /\ y.bev[c].closes = x.bev[c].closes /\ y.bev[c].opt = x.bev[c].opt
                        /\ DOMAIN y.bev[c] = DOMAIN x.bev[c]
      /\ \A c \in Bev \ {b} : y.bev[c] = x.bev[c]
      /\ y.bev[b].cb = "none" /\ y.bev[b].user = FALSE
      /\ y.may = x.may /\ y.grp = x.grp /\ y.adding = x.adding /\ DOMAIN y = DOMAIN x
      /\ DOMAIN y.bev = Bev
  BY <1>1 DEF World, BevOk, Counted
<1> HIDE DEF y
<1>3. World(y)
  <2>1. BevOk(y.bev[b], b)
    <3>1. y.bev[b].user \in BOOLEAN /\ y.bev[b].cb \in {"none", "user", "filter"}
      BY <1>2
    <3>2. y.bev[b].cb # "filter"
      BY <1>2
    <3>3. BevOk(x.bev[b], b)
      BY <1>1 DEF World
    <3> QED  BY <1>2, <3>1, <3>2, <3>3 DEF BevOk
  <2>2. \A c \in Bev : BevOk(y.bev[c], c)
    BY <1>1, <1>2, <2>1 DEF World
  <2> QED  BY <1>1, <1>2, <2>2 DEF World
<1>4. \A c \in Bev : Held(y, c) = Held(x, c)
  BY <1>2 DEF Held
<1>5. Balanced(y, d)
  <2>1. y.bev[b].ref = Owed(y, b) + d[b]
    <3>1. x.bev[b].ref = Owed(x, b) + e[b] /\ e[b] \in Nat /\ d[b] = e[b] + 1
      BY <1>1 DEF Bal, Balanced
    <3>2. One(x.bev[b].user) = 1 /\ One(y.bev[b].user) = 0
      BY <1>2 DEF One
    <3>3. One(Held(y, b)) = One(Held(x, b))
      BY <1>4 DEF One
    <3>4. /\ x.bev[b].lookups \in Nat /\ y.bev[b].lookups = x.bev[b].lookups
          /\ x.bev[b].kept \in Nat /\ y.bev[b].kept = x.bev[b].kept
      BY <1>1, <1>2 DEF World, BevOk
    <3>5. /\ One(x.bev[b].dq) \in Int /\ One(x.bev[b].run > 0) \in Int /\ One(Held(x, b)) \in Int
          /\ One(y.bev[b].dq) = One(x.bev[b].dq) /\ One(y.bev[b].run > 0) = One(x.bev[b].run > 0)
      BY <1>2 DEF One
    <3>6. y.bev[b].ref = x.bev[b].ref /\ x.bev[b].ref \in Int
      BY <1>1, <1>2 DEF World, BevOk
    <3> HIDE DEF One
    <3>7. /\ Owed(x, b) = One(x.bev[b].user) + One(x.bev[b].dq) + One(x.bev[b].run > 0)
                            + x.bev[b].lookups + x.bev[b].kept + One(Held(x, b))
          /\ Owed(y, b) = One(y.bev[b].user) + One(y.bev[b].dq) + One(y.bev[b].run > 0)
                            + y.bev[b].lookups + y.bev[b].kept + One(Held(y, b))
      BY DEF Owed
    <3> QED  BY <3>1, <3>2, <3>3, <3>4, <3>5, <3>6, <3>7
  <2>2. \A c \in Bev \ {b} : y.bev[c].ref = Owed(y, c) + d[c]
    <3>1. \A c \in Bev \ {b} : Owed(y, c) = Owed(x, c)
      BY <1>2, <1>4 DEF Owed
    <3> HIDE DEF Owed
    <3> QED  BY <1>2, <3>1 DEF Bal, Balanced
  <2>3. d \in [Bev -> Nat]
    BY <1>1
  <2>4. \A c \in Bev : d[c] > 0 /\ Kind[c] = "filter" => y.bev[c].life = "live"
    BY <1>1, <1>2 DEF Bal, Balanced
  <2> QED  BY <2>1, <2>2, <2>3, <2>4 DEF Balanced
<1>6. Well(y)
  BY <1>2 DEF Bal, Well, Structure
<1>7. y.bev[b].ref = x.bev[b].ref /\ \A c \in Bev : y.bev[c].life = x.bev[c].life
  BY <1>2
<1> QED  BY <1>3, <1>5, <1>6, <1>7 DEF Bal, y

\* bufferevent_free in an operation that has taken a reference.
LEMMA FreeBal ==
  ASSUME Structure, NEW x, NEW e, Bal(x, e), NEW b \in Bev, x.bev[b].user,
         Kind[b] = "filter" => x.bev[b].life = "live" /\ e[Link[b]] = 0,
         \A g \in Bev : Kind[g] = "filter" /\ Link[g] = b /\ x.bev[g].life = "live"
                          /\ x.bev[g].closes => x.bev[b].opt = "now"
  PROVE  /\ Bal(bufferevent_free(x, b), e)
         /\ e[b] >= 1 => \A c \in Bev : bufferevent_free(x, b).bev[c].life = x.bev[c].life
<1> DEFINE y == [x EXCEPT !.bev[b].cb = "none", !.bev[b].user = FALSE]
           d == [e EXCEPT ![b] = @ + 1]
<1>1. e \in [Bev -> Nat] /\ x.bev[b].ref \in Int
  BY DEF Bal, Balanced, World, BevOk
<1>2. /\ Bal(y, d) /\ y.bev[b].ref = x.bev[b].ref
      /\ \A c \in Bev : y.bev[c].life = x.bev[c].life
  BY UserLeft
<1>3. bufferevent_free(x, b) = Decref(y, b)
  BY DEF bufferevent_free
<1> HIDE DEF y
<1>4. d[b] >= 1 /\ [d EXCEPT ![b] = @ - 1] = e
  BY <1>1, GivenBack
<1>5. Kind[b] = "filter" => d[Link[b]] = 0
  BY <1>1 DEF Structure
<1>6. d[b] = e[b] + 1
  BY <1>1
<1> HIDE DEF d
<1>7. Bal(Decref(y, b), e)
  BY <1>2, <1>4, <1>5, DecrefBal
<1>8. ASSUME e[b] >= 1
      PROVE  \A c \in Bev : Decref(y, b).bev[c].life = x.bev[c].life
  <2>1. World(y) /\ y.bev[b].ref = Owed(y, b) + d[b] /\ y.bev[b].ref \in Int /\ d[b] \in Nat
    BY <1>2 DEF Bal, Balanced, World, BevOk
  <2>2. Owed(y, b) >= 0 /\ Owed(y, b) \in Int
    BY <2>1 DEF Owed, One, World, BevOk
  <2> HIDE DEF Owed
  <2>3. y.bev[b].ref > 1
    BY <1>1, <1>6, <1>8, <2>1, <2>2
  <2>4. Decref(y, b) = [y EXCEPT !.bev[b].ref = @ - 1]
    BY <2>3 DEF Decref
  <2> QED  BY <1>2, <2>1, <2>4 DEF World
<1> QED  BY <1>3, <1>7, <1>8

\* An operation that takes a reference, works and gives it back.
LEMMA Worked ==
  ASSUME Structure, NEW x, NEW e, Bal(x, e), NEW b \in Bev,
         Kind[b] = "filter" => x.bev[b].life = "live" /\ e[Link[b]] = 0,
         NEW y, Kept(y, Incref(x, b))
  PROVE  Bal(Decref(y, b), e)
<1> DEFINE d == [e EXCEPT ![b] = @ + 1]
<1>1. e \in [Bev -> Nat]
  BY DEF Bal, Balanced
<1>2. Bal(Incref(x, b), d)
  BY IncrefBal
<1>3. Bal(y, d)
  BY <1>2, KeptBal DEF Kept
<1>4. d[b] >= 1 /\ [d EXCEPT ![b] = @ - 1] = e
  BY <1>1, GivenBack
<1>5. Kind[b] = "filter" => d[Link[b]] = 0
  BY <1>1 DEF Structure
<1> HIDE DEF d
<1> QED  BY <1>3, <1>4, <1>5, DecrefBal

-------------------------------------------------------------------------------
\* The steps of the loop and of the user.

\* Between the operations nothing is taken.
None == [b \in Bev |-> 0]
\* The inductive invariant: every reference is the user's, the queue's, that of the
\* callbacks that run, a lookup's or a filter's.
Right(x) == Bal(x, None)

\* None, and one reference more.
LEMMA NoneIs ==
  /\ None \in [Bev -> Nat]
  /\ \A b \in Bev : None[b] = 0
  /\ \A b \in Bev : [None EXCEPT ![b] = @ + 1][b] = 1
BY DEF None

\* An operation that keeps the references keeps the invariant.
LEMMA KeptRight ==
  ASSUME Structure, NEW x, NEW y, Right(x), KeptRefs(y, x)
  PROVE  Right(y)
BY KeptBal DEF Right

\* An operation between its two references keeps it.
LEMMA WorkedRight ==
  ASSUME Structure, NEW x, Right(x), NEW b \in Bev, x.bev[b].life = "live",
         NEW y, Kept(y, Incref(x, b))
  PROVE  Right(Decref(y, b))
BY NoneIs, Worked DEF Right, Structure

\* The state in which such an operation works.
LEMMA IncrefWorld ==
  ASSUME Structure, NEW x, Right(x), NEW b \in Bev, x.bev[b].life = "live"
  PROVE  /\ World(x) /\ World(Incref(x, b))
         /\ Bal(Incref(x, b), [None EXCEPT ![b] = @ + 1])
BY IncrefBal DEF Right, Bal

\* _bufferevent_incref changes nothing else.
LEMMA FieldsOfIncref ==
  ASSUME NEW x, World(x), NEW b \in Bev
  PROVE  \A c \in Bev : /\ Incref(x, b).bev[c].life = x.bev[c].life
                        /\ Incref(x, b).bev[c].user = x.bev[c].user
                        /\ Incref(x, b).bev[c].cb = x.bev[c].cb
                        /\ Incref(x, b).bev[c].opt = x.bev[c].opt
                        /\ Incref(x, b).bev[c].closes = x.bev[c].closes
BY DEF World, BevOk, Counted, Incref

\* The event of a socket that may be read.
LEMMA ReadRight ==
  ASSUME Structure, Right(w), NEW b \in Bev, NEW got, NEW n, NEW busy, Read(b, got, n, busy)
  PROVE  Right(w')
<1>1. w.bev[b].life = "live" /\ w' = Decref(ReadOrStop(Incref(w, b), b, got, n, busy), b)
  BY DEF Read, Runs, Live, bufferevent_readcb
<1>2. Kept(ReadOrStop(Incref(w, b), b, got, n, busy), Incref(w, b))
  BY <1>1, IncrefWorld, ReadOrStopKeeps
<1>3. Right(Decref(ReadOrStop(Incref(w, b), b, got, n, busy), b))
  BY <1>1, <1>2, WorkedRight
<1> QED  BY <1>1, <1>3

\* The event of a socket that may be written, or is connected.
LEMMA WriteRight ==
  ASSUME Structure, Right(w), NEW b \in Bev, NEW conn, NEW does, NEW took, NEW n, NEW more, NEW busy,
         Write(b, conn, does, took, n, more, busy)
  PROVE  Right(w')
<1> DEFINE i == Incref(w, b)
           x == [i EXCEPT !.bev[b].act = FALSE]
           r == WriteOrConnect(x, b, conn, does, took, n, more, busy)
           d == [None EXCEPT ![b] = @ + 1]
<1>1. /\ w.bev[b].life = "live" /\ Kind[b] # "filter" /\ w' = Decref(r, b)
      /\ does # "nothing" => w.bev[b].user /\ w.bev[b].cb = "user"
  BY DEF Write, Runs, Live, IsSocket, bufferevent_writecb
<1>2. World(i) /\ Bal(i, d) /\ World(w)
  BY <1>1, IncrefWorld
<1>3. /\ \A c \in Bev : i.bev[c].life = w.bev[c].life
      /\ i.bev[b].user = w.bev[b].user /\ i.bev[b].cb = w.bev[b].cb
  BY <1>2, FieldsOfIncref
<1> HIDE DEF i
<1>4. Kept(x, i)
  BY <1>2, FieldSet
<1>5. World(x)
  BY <1>4, KeptWorld
<1> HIDE DEF x
<1>6. CASE Kept(r, x)
  <2>1. Kept(r, Incref(w, b))
    BY <1>4, <1>6, KeptAgain DEF i
  <2> HIDE DEF r
  <2>2. Right(Decref(r, b))
    BY <1>1, <2>1, WorkedRight
  <2> QED  BY <1>1, <2>2
<1>7. CASE \E y : /\ does = "free" /\ Kept(y, x)
                  /\ World(bufferevent_free(y, b)) => Kept(r, bufferevent_free(y, b))
  <2>1. PICK y : /\ does = "free" /\ Kept(y, x)
                 /\ World(bufferevent_free(y, b)) => Kept(r, bufferevent_free(y, b))
    BY <1>7
  <2> HIDE DEF r
  <2>2. Kept(y, i)
    BY <1>4, <2>1, KeptAgain
  <2>3. Bal(y, d)
    BY <1>2, <2>2, KeptBal DEF Kept
  <2>4. y.bev[b].user /\ y.bev[b].cb = "user"
    BY <1>1, <1>3, <2>1, <2>2 DEF Kept, KeptRefs, Same
  <2>5. ~Held(y, b)
    BY <2>3, <2>4 DEF Bal, Well, Held
  <2>6. Bal(bufferevent_free(y, b), d)
    BY <1>1, <2>3, <2>4, <2>5, FreeBal DEF Held
  <2>7. Bal(r, d)
    BY <2>1, <2>6, KeptBal DEF Kept, Bal
  <2>8. d[b] >= 1 /\ [d EXCEPT ![b] = @ - 1] = None
    BY NoneIs, GivenBack
  <2> HIDE DEF d
  <2>9. Bal(Decref(r, b), None)
    BY <1>1, <2>7, <2>8, DecrefBal
  <2> QED  BY <1>1, <2>9 DEF Right
<1> QED  BY <1>5, <1>6, <1>7, WriteOrConnectKeeps

\* A timeout.
LEMMA TimeoutRight ==
  ASSUME Structure, Right(w), NEW b \in Bev, NEW d, Timeout(b, d)
  PROVE  Right(w')
<1> DEFINE i == Incref(w, b)
           y == EvDel(i, b, {d})
           z == bufferevent_disable(y, b, {d})
           t == TellEvent(z, b, "end")
<1>1. w.bev[b].life = "live" /\ w' \in {Decref(Ended(i, b, d), b), Decref(t, b)}
  BY DEF Timeout, Runs, Live, SocketTimeout, GenericTimeout
<1>2. World(i)
  BY <1>1, IncrefWorld
<1> HIDE DEF i
<1>3. Kept(Ended(i, b, d), i)
  BY <1>2, EndedKeeps
<1>4. Kept(y, i)
  BY <1>2, EvDelKeeps
<1> HIDE DEF y
<1>5. Kept(z, i)
  BY <1>4, KeptWorld, BuffereventDisableKeeps, KeptAgain
<1> HIDE DEF z
<1>6. Kept(t, i)
  BY <1>5, KeptWorld, TellEventKeeps, KeptAgain
<1> HIDE DEF t
<1>7. Right(Decref(Ended(i, b, d), b)) /\ Right(Decref(t, b))
  BY <1>1, <1>3, <1>6, WorkedRight DEF i
<1> QED  BY <1>1, <1>7

\* One of the locked steps of the deferred callbacks, in which the user may free it.
LEMMA LockedStepBal ==
  ASSUME Structure, NEW x, NEW e, Bal(x, e), NEW b \in Bev, NEW k \in 1 .. 4, NEW at,
         e[b] >= 1, Kind[b] = "filter" => e[Link[b]] = 0,
         k = at => ~Held(x, b)
  PROVE  /\ Bal(LockedStep(x, b, k, at), e)
         /\ \A c \in Bev : LockedStep(x, b, k, at).bev[c].life = x.bev[c].life
<1> DEFINE y == DeferredStep(x, b, k)
           z == bufferevent_free(y, b)
<1>1. \/ LockedStep(x, b, k, at) = y
      \/ k = at /\ y.bev[b].user /\ LockedStep(x, b, k, at) = z
  BY DEF LockedStep, ThenFreed
<1>2. Kept(y, x)
  BY DeferredStepKeeps DEF Bal
<1> HIDE DEF y
<1>3. Bal(y, e) /\ \A c \in Bev : y.bev[c].life = x.bev[c].life
  BY <1>2, KeptBal DEF Kept, KeptRefs, Same
<1>4. ASSUME k = at, y.bev[b].user
      PROVE  Bal(z, e) /\ \A c \in Bev : z.bev[c].life = x.bev[c].life
  <2>1. ~Held(y, b)
    BY <1>3, <1>4 DEF Held
  <2>2. Kind[b] = "filter" => y.bev[b].life = "live"
    BY <1>3 DEF Bal, Balanced
  <2>3. /\ Bal(bufferevent_free(y, b), e)
        /\ \A c \in Bev : bufferevent_free(y, b).bev[c].life = y.bev[c].life
    BY <1>3, <1>4, <2>1, <2>2, FreeBal DEF Held
  <2> QED  BY <1>3, <2>3
<1> HIDE DEF z
<1> QED  BY <1>1, <1>3, <1>4

\* The references of the queue, of the callbacks that run and of lookups.
Load(v) == One(v.dq) + One(v.run > 0) + v.lookups + v.kept

\* The same up to those references.
Settled(r, v) ==
  /\ r.life = v.life /\ r.user = v.user /\ r.cb = v.cb /\ r.closes = v.closes /\ r.opt = v.opt
  /\ r.run # 1

\* References that go from one of these to another, or to the operation.
LEMMA Accounted ==
  ASSUME Structure, NEW x, Right(x), NEW y, World(y), y.may = x.may, NEW e \in [Bev -> Nat],
         \A c \in Bev : e[c] > 0 /\ Kind[c] = "filter" => x.bev[c].life = "live",
         \A c \in Bev : /\ Settled(y.bev[c], x.bev[c])
                        /\ y.bev[c].ref = x.bev[c].ref + Load(y.bev[c]) + e[c] - Load(x.bev[c])
  PROVE  Bal(y, e)
<1>1. World(x)
  BY DEF Right, Bal
<1>2. \A c \in Bev : Held(y, c) = Held(x, c)
  BY DEF Held, Settled
<1>3. ASSUME NEW c \in Bev
      PROVE  y.bev[c].ref = Owed(y, c) + e[c]
  <2>1. x.bev[c].ref = Owed(x, c) + 0
    BY NoneIs DEF Right, Bal, Balanced
  <2>2. One(Held(y, c)) = One(Held(x, c)) /\ One(Held(x, c)) \in Int
    BY <1>2 DEF One
  <2>3. One(y.bev[c].user) = One(x.bev[c].user) /\ One(x.bev[c].user) \in Int
    BY DEF One, Settled
  <2>4. /\ x.bev[c].lookups \in Int /\ x.bev[c].kept \in Int /\ y.bev[c].lookups \in Int
        /\ y.bev[c].kept \in Int
        /\ One(x.bev[c].dq) \in Int /\ One(y.bev[c].dq) \in Int
        /\ One(x.bev[c].run > 0) \in Int /\ One(y.bev[c].run > 0) \in Int
    BY <1>1 DEF World, BevOk, One
  <2> HIDE DEF One
  <2>5. /\ Load(x.bev[c]) \in Int /\ Load(y.bev[c]) \in Int
        /\ Owed(x, c) = One(x.bev[c].user) + Load(x.bev[c]) + One(Held(x, c))
        /\ Owed(y, c) = One(y.bev[c].user) + Load(y.bev[c]) + One(Held(y, c))
    BY <2>2, <2>3, <2>4 DEF Load, Owed
  <2>6. y.bev[c].ref = x.bev[c].ref + Load(y.bev[c]) + e[c] - Load(x.bev[c]) /\ e[c] \in Nat
    OBVIOUS
  <2> HIDE DEF Load, Owed
  <2> QED  BY <2>1, <2>2, <2>3, <2>5, <2>6
<1>4. Balanced(y, e)
  BY <1>3 DEF Balanced, Settled
<1>5. Well(y)
  BY DEF Right, Bal, Well, Structure, Settled
<1> QED  BY <1>4, <1>5 DEF Bal

\* The references of one bufferevent move, and no others.
LEMMA OneAccounted ==
  ASSUME Structure, NEW x, Right(x), NEW b \in Bev, x.bev[b].life = "live", NEW y,
         DOMAIN y = DOMAIN x, DOMAIN y.bev = Bev,
         y.may = x.may, y.grp = x.grp, y.adding = x.adding,
         \A c \in Bev \ {b} : y.bev[c] = x.bev[c],
         BevOk(y.bev[b], b), Settled(y.bev[b], x.bev[b]), NEW n \in {0, 1},
         y.bev[b].ref = x.bev[b].ref + Load(y.bev[b]) + n - Load(x.bev[b])
  PROVE  /\ n = 0 => Right(y)
         /\ n = 1 => Bal(y, [None EXCEPT ![b] = @ + 1])
<1>1. World(x)
  BY DEF Right, Bal
<1>2. World(y)
  <2>1. \A c \in Bev : BevOk(y.bev[c], c)
    BY <1>1 DEF World
  <2> QED  BY <1>1, <2>1 DEF World
<1>3. \A c \in Bev : Settled(y.bev[c], x.bev[c])
  BY DEF Right, Bal, Well, Settled
<1>4. \A c \in Bev \ {b} : y.bev[c].ref = x.bev[c].ref + Load(y.bev[c]) + 0 - Load(x.bev[c])
  <2> SUFFICES ASSUME NEW c \in Bev \ {b}
               PROVE  x.bev[c].ref = x.bev[c].ref + Load(x.bev[c]) + 0 - Load(x.bev[c])
    OBVIOUS
  <2>0. BevOk(x.bev[c], c)
    BY <1>1 DEF World
  <2>1. x.bev[c].ref \in Int /\ Load(x.bev[c]) \in Int
    BY <2>0 DEF Load, One, BevOk
  <2> HIDE DEF Load
  <2> QED  BY <2>1
<1>5. ASSUME NEW e \in [Bev -> Nat], e[b] = n, \A c \in Bev \ {b} : e[c] = 0
      PROVE  Bal(y, e)
  <2>1. \A c \in Bev : y.bev[c].ref = x.bev[c].ref + Load(y.bev[c]) + e[c] - Load(x.bev[c])
    BY <1>4, <1>5
  <2>2. \A c \in Bev : e[c] > 0 /\ Kind[c] = "filter" => x.bev[c].life = "live"
    BY <1>5
  <2> QED  BY <1>2, <1>3, <2>1, <2>2, Accounted
<1>6. n = 0 => Right(y)
  BY <1>5, NoneIs DEF Right
<1>7. n = 1 => Bal(y, [None EXCEPT ![b] = @ + 1])
  <2> DEFINE d == [None EXCEPT ![b] = @ + 1]
  <2>1. d \in [Bev -> Nat] /\ d[b] = 1 /\ \A c \in Bev \ {b} : d[c] = 0
    BY NoneIs
  <2> HIDE DEF d
  <2>2. n = 1 => Bal(y, d)
    BY <1>5, <2>1
  <2> QED  BY <2>2 DEF d
<1> QED  BY <1>6, <1>7

\* It is taken from the queue, whose reference the operation has then.
LEMMA Dequeued ==
  ASSUME Structure, NEW x, Right(x), NEW b \in Bev, x.bev[b].life = "live", x.bev[b].dq
  PROVE  LET y == [x EXCEPT !.bev[b].dq = FALSE]
         IN  /\ Bal(y, [None EXCEPT ![b] = @ + 1])
             /\ \A c \in Bev : y.bev[c].life = x.bev[c].life
<1> DEFINE y == [x EXCEPT !.bev[b].dq = FALSE]
<1>1. World(x) /\ BevOk(x.bev[b], b)
  BY DEF Right, Bal, World
<1>2. /\ y.bev[b].life = x.bev[b].life /\ y.bev[b].user = x.bev[b].user
      /\ y.bev[b].run = x.bev[b].run /\ y.bev[b].cb = x.bev[b].cb
      /\ y.bev[b].lookups = x.bev[b].lookups /\ y.bev[b].kept = x.bev[b].kept /\ y.bev[b].ref = x.bev[b].ref
      /\ y.bev[b].closes = x.bev[b].closes /\ y.bev[b].opt = x.bev[b].opt
      /\ DOMAIN y.bev[b] = DOMAIN x.bev[b] /\ y.bev[b].dq = FALSE
  BY <1>1 DEF World, BevOk, Counted
<1>3. /\ \A c \in Bev \ {b} : y.bev[c] = x.bev[c]
      /\ y.may = x.may /\ y.grp = x.grp /\ y.adding = x.adding /\ DOMAIN y = DOMAIN x
      /\ DOMAIN y.bev = Bev
  BY <1>1 DEF World
<1> HIDE DEF y
<1>4. BevOk(y.bev[b], b)
  <2>1. y.bev[b].dq \in BOOLEAN
    BY <1>2
  <2> QED  BY <1>1, <1>2, <2>1 DEF BevOk
<1>5. Settled(y.bev[b], x.bev[b])
  BY <1>2 DEF Right, Bal, Well, Settled
<1>6. y.bev[b].ref = x.bev[b].ref + Load(y.bev[b]) + 1 - Load(x.bev[b])
  <2>1. One(y.bev[b].dq) = 0 /\ One(x.bev[b].dq) = 1 /\ One(y.bev[b].run > 0) = One(x.bev[b].run > 0)
    BY <1>2 DEF One
  <2>2. /\ x.bev[b].ref \in Int /\ One(x.bev[b].run > 0) \in Int
        /\ x.bev[b].lookups \in Int /\ x.bev[b].kept \in Int
    BY <1>1 DEF BevOk, One
  <2>3. /\ Load(y.bev[b]) = One(y.bev[b].dq) + One(y.bev[b].run > 0) + y.bev[b].lookups + y.bev[b].kept
        /\ Load(x.bev[b]) = One(x.bev[b].dq) + One(x.bev[b].run > 0) + x.bev[b].lookups + x.bev[b].kept
    BY DEF Load
  <2> QED  BY <1>2, <2>1, <2>2, <2>3
<1>7. Bal(y, [None EXCEPT ![b] = @ + 1])
  BY <1>3, <1>4, <1>5, <1>6, OneAccounted
<1>8. \A c \in Bev : y.bev[c].life = x.bev[c].life
  BY <1>2, <1>3
<1> QED  BY <1>7, <1>8 DEF y

\* The operation gives back what it took over.
LEMMA GivenBackRight ==
  ASSUME Structure, NEW x, NEW b \in Bev, Bal(x, [None EXCEPT ![b] = @ + 1])
  PROVE  Right(Decref(x, b))
<1> DEFINE d == [None EXCEPT ![b] = @ + 1]
<1>1. d[b] >= 1 /\ [d EXCEPT ![b] = @ - 1] = None
  BY NoneIs, GivenBack
<1>2. Kind[b] = "filter" => d[Link[b]] = 0
  BY NoneIs DEF Structure
<1> HIDE DEF d
<1>3. Bal(x, d)
  BY DEF d
<1> QED  BY <1>1, <1>2, <1>3, DecrefBal DEF Right

\* bufferevent_run_deferred_callbacks_locked.
LEMMA RunDeferredRight ==
  ASSUME Structure, Right(w), NEW b \in Bev, NEW at \in 0 .. 4, RunDeferred(b, at)
  PROVE  Right(w')
<1> DEFINE d == [None EXCEPT ![b] = @ + 1]
           y == [w EXCEPT !.bev[b].dq = FALSE]
           y1 == LockedStep(y, b, 1, at)
           y2 == LockedStep(y1, b, 2, at)
           y3 == LockedStep(y2, b, 3, at)
           y4 == LockedStep(y3, b, 4, at)
<1>1. w.bev[b].life = "live" /\ w.bev[b].dq /\ w' = Decref(y4, b)
  BY DEF RunDeferred, Runs, Live, bufferevent_run_deferred_callbacks_locked
<1>2. at > 0 => ~Held(w, b)
  BY DEF RunDeferred, Right, Bal, Well, Held
<1>3. Bal(y, d) /\ \A c \in Bev : y.bev[c].life = w.bev[c].life
  BY <1>1, Dequeued
<1>4. d[b] >= 1 /\ (Kind[b] = "filter" => d[Link[b]] = 0)
  BY NoneIs DEF Structure
<1> HIDE DEF d, y
<1>5. ASSUME NEW x, Bal(x, d), \A c \in Bev : x.bev[c].life = w.bev[c].life, NEW k \in 1 .. 4
      PROVE  /\ Bal(LockedStep(x, b, k, at), d)
             /\ \A c \in Bev : LockedStep(x, b, k, at).bev[c].life = w.bev[c].life
  <2>1. k = at => ~Held(x, b)
    BY <1>2, <1>5 DEF Held
  <2> QED  BY <1>4, <1>5, <2>1, LockedStepBal
<1>6. Bal(y1, d) /\ \A c \in Bev : y1.bev[c].life = w.bev[c].life
  BY <1>3, <1>5
<1> HIDE DEF y1
<1>7. Bal(y2, d) /\ \A c \in Bev : y2.bev[c].life = w.bev[c].life
  BY <1>5, <1>6
<1> HIDE DEF y2
<1>8. Bal(y3, d) /\ \A c \in Bev : y3.bev[c].life = w.bev[c].life
  BY <1>5, <1>7
<1> HIDE DEF y3
<1>9. Bal(y4, d)
  BY <1>5, <1>8
<1> HIDE DEF y4
<1>10. Right(Decref(y4, b))
  BY <1>9, GivenBackRight DEF d
<1> QED  BY <1>1, <1>10

\* The callbacks without the lock have all been called.
LEMMA RanRight ==
  ASSUME Structure, NEW x, Right(x), NEW b \in Bev, NEW z, World(z), z.may = x.may,
         \A c \in Bev \ {b} : Same(z.bev[c], x.bev[c]),
         Settled(z.bev[b], x.bev[b]),
         z.bev[b].ref = x.bev[b].ref + Load(z.bev[b]) - Load(x.bev[b])
  PROVE  Right(z)
<1>1. World(x)
  BY DEF Right, Bal
<1>2. \A c \in Bev : Settled(z.bev[c], x.bev[c])
  BY DEF Right, Bal, Well, Settled, Same
<1>3. ASSUME NEW c \in Bev
      PROVE  z.bev[c].ref = x.bev[c].ref + Load(z.bev[c]) + 0 - Load(x.bev[c])
  <2>1. /\ x.bev[c].ref \in Int /\ z.bev[c].ref \in Int
        /\ x.bev[c].lookups \in Int /\ x.bev[c].kept \in Int /\ z.bev[c].lookups \in Int
        /\ z.bev[c].kept \in Int
    BY <1>1 DEF World, BevOk
  <2>2. /\ One(x.bev[c].dq) \in Int /\ One(z.bev[c].dq) \in Int
        /\ One(x.bev[c].run > 0) \in Int /\ One(z.bev[c].run > 0) \in Int
    BY DEF One
  <2>3. /\ Load(z.bev[c]) = One(z.bev[c].dq) + One(z.bev[c].run > 0) + z.bev[c].lookups + z.bev[c].kept
        /\ Load(x.bev[c]) = One(x.bev[c].dq) + One(x.bev[c].run > 0) + x.bev[c].lookups + x.bev[c].kept
    BY DEF Load
  <2>4. CASE c = b
    <3>1. Load(z.bev[c]) \in Int /\ Load(x.bev[c]) \in Int
      BY <2>1, <2>2, <2>3
    <3> QED  BY <2>1, <2>4, <3>1
  <2>5. CASE c # b
    <3>1. /\ z.bev[c].run = x.bev[c].run /\ z.bev[c].lookups = x.bev[c].lookups
          /\ z.bev[c].kept = x.bev[c].kept
          /\ z.bev[c].ref - One(z.bev[c].dq) = x.bev[c].ref - One(x.bev[c].dq)
      BY <2>5 DEF Same
    <3>2. One(z.bev[c].run > 0) = One(x.bev[c].run > 0)
      BY <3>1
    <3> DEFINE n == One(x.bev[c].run > 0)
               p == One(z.bev[c].dq)
               q == One(x.bev[c].dq)
    <3>3. /\ Load(z.bev[c]) = p + n + x.bev[c].lookups + x.bev[c].kept
          /\ Load(x.bev[c]) = q + n + x.bev[c].lookups + x.bev[c].kept
          /\ z.bev[c].ref - p = x.bev[c].ref - q /\ p \in Int /\ q \in Int /\ n \in Int
      BY <2>2, <2>3, <3>1, <3>2
    <3> HIDE DEF n, p, q
    <3> QED  BY <2>1, <3>3
  <2> QED  BY <2>4, <2>5
<1>4. \A c \in Bev : z.bev[c].ref = x.bev[c].ref + Load(z.bev[c]) + None[c] - Load(x.bev[c])
  BY <1>3, NoneIs
<1>5. Bal(z, None)
  BY <1>2, <1>4, NoneIs, Accounted
<1> QED  BY <1>5 DEF Right

\* The same up to the callback that is next.
Ran(r, v) ==
  /\ r.life = v.life /\ r.user = v.user /\ r.lookups = v.lookups /\ r.kept = v.kept
  /\ r.cb = v.cb /\ r.closes = v.closes /\ r.opt = v.opt
  /\ r.ref - One(r.dq) = v.ref - One(v.dq)

\* The callback that is next.
WithRun(t, b, n) == [t EXCEPT !.bev[b].run = n]

\* A step of the callbacks that run without the lock.
LEMMA UnlockedStep ==
  ASSUME Structure, NEW y, World(y), NEW b \in Bev, y.bev[b].opt = "unlocked", NEW k \in 1 .. 4,
         y.bev[b].run = k, NEW n \in Nat,
         NEW t, t = DeferredStep(y, b, k), NEW z, z = WithRun(t, b, n)
  PROVE  /\ World(z) /\ z.may = y.may
         /\ \A c \in Bev \ {b} : Same(z.bev[c], y.bev[c])
         /\ Ran(z.bev[b], y.bev[b]) /\ z.bev[b].run = n
<1>1. Kept(t, y)
  BY DeferredStepKeeps
<1>2. /\ World(t) /\ t.may = y.may /\ \A c \in Bev : Same(t.bev[c], y.bev[c])
  BY <1>1, KeptWorld
<1>3. t.bev[b].opt = "unlocked" /\ t.bev[b].run = k
  BY <1>2 DEF Same
<1>4. BevOk(t.bev[b], b)
  BY <1>2 DEF World
<1>11. z.bev[b] = [t.bev[b] EXCEPT !.run = n]
  BY <1>2 DEF World, WithRun
<1>5. /\ z.bev[b].run = n /\ DOMAIN z.bev[b] = DOMAIN t.bev[b]
      /\ \A c \in Bev \ {b} : z.bev[c] = t.bev[c]
      /\ z.may = t.may /\ z.grp = t.grp /\ z.adding = t.adding /\ DOMAIN z = DOMAIN t
      /\ DOMAIN z.bev = Bev
  BY <1>2, <1>4, <1>11 DEF World, BevOk, Counted, WithRun
<1>6. /\ z.bev[b].life = t.bev[b].life /\ z.bev[b].user = t.bev[b].user
      /\ z.bev[b].ref = t.bev[b].ref /\ z.bev[b].dq = t.bev[b].dq
      /\ z.bev[b].lookups = t.bev[b].lookups /\ z.bev[b].kept = t.bev[b].kept /\ z.bev[b].cb = t.bev[b].cb
      /\ z.bev[b].closes = t.bev[b].closes /\ z.bev[b].opt = t.bev[b].opt
  BY <1>4, <1>11 DEF BevOk, Counted
<1>7. World(z)
  <2>1. BevOk(z.bev[b], b)
    BY <1>3, <1>4, <1>5, <1>6 DEF BevOk
  <2>2. \A c \in Bev : BevOk(z.bev[c], c)
    BY <1>2, <1>5, <2>1 DEF World
  <2> QED  BY <1>2, <1>5, <2>2 DEF World
<1>8. Ran(z.bev[b], y.bev[b])
  BY <1>2, <1>6 DEF Same, Ran
<1>9. \A c \in Bev \ {b} : Same(z.bev[c], y.bev[c])
  BY <1>2, <1>5
<1> QED  BY <1>2, <1>5, <1>7, <1>8, <1>9

\* bufferevent_run_deferred_callbacks_unlocked, a callback at a time.
LEMMA RunUnlockedRight ==
  ASSUME Structure, Right(w), NEW b \in Bev, RunUnlocked(b)
  PROVE  Right(w')
<1> DEFINE x == IF w.bev[b].run = 0 THEN [w EXCEPT !.bev[b].run = 1] ELSE w
           k == x.bev[b].run
           y == IF k = 1 THEN [x EXCEPT !.bev[b].dq = FALSE] ELSE x
           z == [DeferredStep(y, b, k) EXCEPT !.bev[b].run = k + 1]
           t == [y EXCEPT !.bev[b].run = 0]
<1>1. /\ w.bev[b].life = "live" /\ w.bev[b].opt = "unlocked"
      /\ w.bev[b].run = 0 => w.bev[b].dq
      /\ w' = IF k <= 4 THEN z ELSE Decref(t, b)
  <2>1. w' = bufferevent_run_deferred_callbacks_unlocked(x, b)
    BY DEF RunUnlocked
  <2>2. bufferevent_run_deferred_callbacks_unlocked(x, b) = IF k <= 4 THEN z ELSE Decref(t, b)
    BY DEF bufferevent_run_deferred_callbacks_unlocked
  <2>3. w.bev[b].run \in Nat
    BY DEF Right, Bal, World, BevOk
  <2>4. /\ w.bev[b].life = "live" /\ w.bev[b].opt = "unlocked"
        /\ w.bev[b].run = 0 => w.bev[b].dq
    BY <2>3 DEF RunUnlocked, Runs, Live
  <2> HIDE DEF x, k, y, z, t
  <2> QED  BY <2>1, <2>2, <2>4
<1>2. World(w) /\ BevOk(w.bev[b], b) /\ w.bev[b].run # 1
  BY DEF Right, Bal, World, Well
<1>3. CASE w.bev[b].run = 0
  <2> DEFINE v == [[w EXCEPT !.bev[b].run = 1] EXCEPT !.bev[b].dq = FALSE]
             m == 1
             u == [DeferredStep(v, b, m) EXCEPT !.bev[b].run = m + 1]
  <2>1. k = m /\ y = v /\ k <= 4 /\ m \in 1 .. 4
    BY <1>2, <1>3 DEF World, BevOk, Counted
  <2>13. m = 1
    OBVIOUS
  <2> HIDE DEF x, k, y, v, m
  <2>2. w' = u
    BY <1>1, <2>1
  <2> HIDE DEF z, t
  <2> USE DEF v
  <2>3. /\ v.bev[b].life = w.bev[b].life /\ v.bev[b].user = w.bev[b].user
        /\ v.bev[b].run = m /\ v.bev[b].cb = w.bev[b].cb
        /\ v.bev[b].lookups = w.bev[b].lookups /\ v.bev[b].kept = w.bev[b].kept
        /\ v.bev[b].ref = w.bev[b].ref
        /\ v.bev[b].closes = w.bev[b].closes /\ v.bev[b].opt = w.bev[b].opt
        /\ DOMAIN v.bev[b] = DOMAIN w.bev[b] /\ v.bev[b].dq = FALSE
    BY <1>2, <2>13 DEF World, BevOk, Counted
  <2>4. /\ \A c \in Bev \ {b} : v.bev[c] = w.bev[c]
        /\ v.may = w.may /\ v.grp = w.grp /\ v.adding = w.adding /\ DOMAIN v = DOMAIN w
        /\ DOMAIN v.bev = Bev
    BY <1>2 DEF World
  <2> HIDE DEF v
  <2>5. World(v)
    <3>1. BevOk(v.bev[b], b)
      <4>1. v.bev[b].dq \in BOOLEAN
        BY <2>3
      <4> QED  BY <1>1, <1>2, <2>3, <2>13, <4>1 DEF BevOk
    <3>2. \A c \in Bev : BevOk(v.bev[c], c)
      BY <1>2, <2>4, <3>1 DEF World
    <3> QED  BY <1>2, <2>4, <3>2 DEF World
  <2>6. /\ World(u) /\ u.may = v.may
        /\ \A c \in Bev \ {b} : Same(u.bev[c], v.bev[c])
        /\ Ran(u.bev[b], v.bev[b]) /\ u.bev[b].run = m + 1
    <3>1. v.bev[b].opt = "unlocked" /\ v.bev[b].run = m /\ m \in 1 .. 4 /\ m + 1 \in Nat
      BY <1>1, <2>1, <2>3
    <3> DEFINE j == DeferredStep(v, b, m)
    <3>2. u = WithRun(j, b, m + 1)
      BY DEF WithRun
    <3>3. j = DeferredStep(v, b, m)
      OBVIOUS
    <3> HIDE DEF u, j
    <3> QED  BY <2>5, <3>1, <3>2, <3>3, UnlockedStep
  <2> HIDE DEF u
  <2>7. BevOk(u.bev[b], b)
    BY <2>6 DEF World
  <2>8. /\ u.bev[b].life = w.bev[b].life /\ u.bev[b].user = w.bev[b].user
        /\ u.bev[b].lookups = w.bev[b].lookups /\ u.bev[b].kept = w.bev[b].kept /\ u.bev[b].cb = w.bev[b].cb
        /\ u.bev[b].closes = w.bev[b].closes /\ u.bev[b].opt = w.bev[b].opt
        /\ u.bev[b].ref - One(u.bev[b].dq) = w.bev[b].ref - One(v.bev[b].dq)
    BY <2>3, <2>6 DEF Ran
  <2>9. u.bev[b].ref = w.bev[b].ref + Load(u.bev[b]) - Load(w.bev[b])
    <3>1. One(v.bev[b].dq) = 0 /\ One(w.bev[b].dq) = 1
      BY <1>1, <1>3, <2>3 DEF One
    <3>2. One(u.bev[b].run > 0) = 1 /\ One(w.bev[b].run > 0) = 0
      BY <1>3, <2>6, <2>13 DEF One
    <3> DEFINE p == One(u.bev[b].dq)
    <3>3. /\ Load(u.bev[b]) = p + 1 + w.bev[b].lookups + w.bev[b].kept
          /\ Load(w.bev[b]) = 1 + 0 + w.bev[b].lookups + w.bev[b].kept
      BY <2>8, <3>1, <3>2 DEF Load
    <3>4. u.bev[b].ref - p = w.bev[b].ref - 0
      BY <2>8, <3>1
    <3>5. p \in Int
      BY DEF One
    <3>6. /\ w.bev[b].ref \in Int /\ u.bev[b].ref \in Int
          /\ w.bev[b].lookups \in Int /\ w.bev[b].kept \in Int
      BY <1>2, <2>7 DEF BevOk
    <3> HIDE DEF p
    <3> QED  BY <3>3, <3>4, <3>5, <3>6
  <2>10. \A c \in Bev \ {b} : Same(u.bev[c], w.bev[c])
    BY <2>4, <2>6
  <2>11. Settled(u.bev[b], w.bev[b])
    BY <2>6, <2>8, <2>13 DEF Settled
  <2>12. Right(u)
    BY <2>4, <2>6, <2>9, <2>10, <2>11, RanRight
  <2> QED  BY <2>2, <2>12
<1>4. CASE w.bev[b].run # 0 /\ w.bev[b].run <= 4
  <2> DEFINE m == w.bev[b].run
             u == [DeferredStep(w, b, m) EXCEPT !.bev[b].run = m + 1]
  <2>1. m \in 1 .. 4 /\ m # 1
    BY <1>2, <1>4 DEF BevOk
  <2>9. k = m /\ y = w /\ k <= 4
    BY <1>2, <1>4 DEF BevOk
  <2> HIDE DEF x, k, y, m
  <2>2. w' = u
    BY <1>1, <2>9
  <2> HIDE DEF z, t
  <2>3. /\ World(u) /\ u.may = w.may
        /\ \A c \in Bev \ {b} : Same(u.bev[c], w.bev[c])
        /\ Ran(u.bev[b], w.bev[b]) /\ u.bev[b].run = m + 1
    <3> DEFINE j == DeferredStep(w, b, m)
    <3>1. u = WithRun(j, b, m + 1)
      BY DEF WithRun
    <3>2. j = DeferredStep(w, b, m) /\ w.bev[b].run = m /\ m + 1 \in Nat
      BY <2>1 DEF m
    <3> HIDE DEF u, j
    <3> QED  BY <1>1, <1>2, <2>1, <3>1, <3>2, UnlockedStep
  <2> HIDE DEF u
  <2>4. BevOk(u.bev[b], b)
    BY <2>3 DEF World
  <2>5. /\ u.bev[b].life = w.bev[b].life /\ u.bev[b].user = w.bev[b].user
        /\ u.bev[b].lookups = w.bev[b].lookups /\ u.bev[b].kept = w.bev[b].kept /\ u.bev[b].cb = w.bev[b].cb
        /\ u.bev[b].closes = w.bev[b].closes /\ u.bev[b].opt = w.bev[b].opt
        /\ u.bev[b].ref - One(u.bev[b].dq) = w.bev[b].ref - One(w.bev[b].dq)
    BY <2>3 DEF Ran
  <2>6. u.bev[b].ref = w.bev[b].ref + Load(u.bev[b]) - Load(w.bev[b])
    <3>1. One(u.bev[b].run > 0) = 1 /\ One(w.bev[b].run > 0) = 1
      BY <2>1, <2>3 DEF One, m
    <3> DEFINE p == One(u.bev[b].dq)
               q == One(w.bev[b].dq)
    <3>2. /\ Load(u.bev[b]) = p + 1 + w.bev[b].lookups + w.bev[b].kept
          /\ Load(w.bev[b]) = q + 1 + w.bev[b].lookups + w.bev[b].kept
      BY <2>5, <3>1 DEF Load
    <3>3. u.bev[b].ref - p = w.bev[b].ref - q /\ p \in Int /\ q \in Int
      BY <2>5 DEF One
    <3>4. /\ w.bev[b].ref \in Int /\ u.bev[b].ref \in Int
          /\ w.bev[b].lookups \in Int /\ w.bev[b].kept \in Int
      BY <1>2, <2>4, <2>5 DEF BevOk
    <3> HIDE DEF p, q
    <3> QED  BY <3>2, <3>3, <3>4
  <2>7. Settled(u.bev[b], w.bev[b])
    BY <2>1, <2>3, <2>5 DEF Settled
  <2>8. Right(u)
    BY <2>3, <2>6, <2>7, RanRight
  <2> QED  BY <2>2, <2>8
<1>5. CASE w.bev[b].run > 4
  <2> DEFINE v == [w EXCEPT !.bev[b].run = 0]
  <2>8. ~(k <= 4) /\ y = w
    BY <1>2, <1>5 DEF BevOk
  <2> HIDE DEF x, k, y
  <2>1. w' = Decref(v, b)
    BY <1>1, <2>8
  <2> HIDE DEF z, t
  <2>2. /\ v.bev[b].life = w.bev[b].life /\ v.bev[b].user = w.bev[b].user
        /\ v.bev[b].dq = w.bev[b].dq /\ v.bev[b].cb = w.bev[b].cb
        /\ v.bev[b].lookups = w.bev[b].lookups /\ v.bev[b].kept = w.bev[b].kept
        /\ v.bev[b].ref = w.bev[b].ref
        /\ v.bev[b].closes = w.bev[b].closes /\ v.bev[b].opt = w.bev[b].opt
        /\ DOMAIN v.bev[b] = DOMAIN w.bev[b] /\ v.bev[b].run = 0
    BY <1>2 DEF World, BevOk, Counted
  <2>3. /\ \A c \in Bev \ {b} : v.bev[c] = w.bev[c]
        /\ v.may = w.may /\ v.grp = w.grp /\ v.adding = w.adding /\ DOMAIN v = DOMAIN w
        /\ DOMAIN v.bev = Bev
    BY <1>2 DEF World
  <2> HIDE DEF v
  <2>4. BevOk(v.bev[b], b)
    BY <1>2, <2>2 DEF BevOk
  <2>5. Settled(v.bev[b], w.bev[b])
    BY <2>2 DEF Settled
  <2>6. v.bev[b].ref = w.bev[b].ref + Load(v.bev[b]) + 1 - Load(w.bev[b])
    <3>1. One(v.bev[b].run > 0) = 0 /\ One(w.bev[b].run > 0) = 1
      BY <1>2, <1>5, <2>2 DEF One, BevOk
    <3> DEFINE q == One(w.bev[b].dq)
    <3>2. /\ Load(v.bev[b]) = q + 0 + w.bev[b].lookups + w.bev[b].kept
          /\ Load(w.bev[b]) = q + 1 + w.bev[b].lookups + w.bev[b].kept
      BY <2>2, <3>1 DEF Load
    <3>3. q \in Int
      BY DEF One
    <3> HIDE DEF q
    <3> QED  BY <1>2, <2>2, <3>2, <3>3 DEF BevOk
  <2>7. Bal(v, [None EXCEPT ![b] = @ + 1])
    BY <1>1, <2>3, <2>4, <2>5, <2>6, OneAccounted
  <2> QED  BY <2>1, <2>7, GivenBackRight
<1> QED  BY <1>2, <1>3, <1>4, <1>5 DEF BevOk

\* A lookup takes a reference, and its answer gives it back.
LEMMA LookupCounted ==
  ASSUME Structure, NEW x, Right(x), NEW b \in Bev, x.bev[b].life = "live"
  PROVE  /\ ~Under(b) => Right(Incref([x EXCEPT !.bev[b].lookups = @ + 1], b))
         /\ x.bev[b].lookups > 0 =>
              Bal([x EXCEPT !.bev[b].lookups = @ - 1], [None EXCEPT ![b] = @ + 1])
<1> DEFINE y == Incref([x EXCEPT !.bev[b].lookups = @ + 1], b)
           z == [x EXCEPT !.bev[b].lookups = @ - 1]
           q == One(x.bev[b].dq) + One(x.bev[b].run > 0)
<1>1. World(x) /\ BevOk(x.bev[b], b) /\ x.bev[b].run # 1 /\ q \in Int
  BY DEF Right, Bal, World, Well, One
<1>2. ASSUME NEW v, v \in {y, z}
      PROVE  /\ v.bev[b].life = x.bev[b].life /\ v.bev[b].user = x.bev[b].user
             /\ v.bev[b].dq = x.bev[b].dq /\ v.bev[b].cb = x.bev[b].cb
             /\ v.bev[b].run = x.bev[b].run
             /\ v.bev[b].closes = x.bev[b].closes /\ v.bev[b].opt = x.bev[b].opt
             /\ DOMAIN v.bev[b] = DOMAIN x.bev[b]
             /\ \A c \in Bev \ {b} : v.bev[c] = x.bev[c]
             /\ v.may = x.may /\ v.grp = x.grp /\ v.adding = x.adding /\ DOMAIN v = DOMAIN x
             /\ DOMAIN v.bev = Bev
  <2>1. CASE v = y
    BY <1>1, <2>1 DEF World, BevOk, Counted, Incref
  <2>2. CASE v = z
    BY <1>1, <2>2 DEF World, BevOk, Counted
  <2> QED  BY <1>2, <2>1, <2>2
<1>3. /\ y.bev[b].kept = x.bev[b].kept /\ y.bev[b].lookups = x.bev[b].lookups + 1
      /\ y.bev[b].ref = x.bev[b].ref + 1
      /\ z.bev[b].kept = x.bev[b].kept /\ z.bev[b].lookups = x.bev[b].lookups - 1
      /\ z.bev[b].ref = x.bev[b].ref
  BY <1>1 DEF World, BevOk, Counted, Incref
<1>4. \A v \in {y, z} : Load(v.bev[b]) = q + v.bev[b].lookups + v.bev[b].kept
  BY <1>2 DEF Load
<1>5. Load(x.bev[b]) = q + x.bev[b].lookups + x.bev[b].kept
  BY DEF Load
<1>6. \A v \in {y, z} : Settled(v.bev[b], x.bev[b])
  BY <1>1, <1>2 DEF Settled
<1> HIDE DEF y, z, q
<1>7. ASSUME ~Under(b)
      PROVE  Right(y)
  <2>1. BevOk(y.bev[b], b)
    BY <1>1, <1>2, <1>3, <1>7 DEF BevOk
  <2>2. y.bev[b].ref = x.bev[b].ref + Load(y.bev[b]) + 0 - Load(x.bev[b])
    BY <1>1, <1>3, <1>4, <1>5 DEF BevOk
  <2> QED  BY <1>2, <1>6, <2>1, <2>2, OneAccounted
<1>8. ASSUME x.bev[b].lookups > 0
      PROVE  Bal(z, [None EXCEPT ![b] = @ + 1])
  <2>1. BevOk(z.bev[b], b)
    BY <1>1, <1>2, <1>3, <1>8 DEF BevOk
  <2>2. z.bev[b].ref = x.bev[b].ref + Load(z.bev[b]) + 1 - Load(x.bev[b])
    BY <1>1, <1>3, <1>4, <1>5 DEF BevOk
  <2> QED  BY <1>2, <1>6, <2>1, <2>2, OneAccounted
<1> QED  BY <1>7, <1>8 DEF y, z

\* bufferevent_connect_getaddrinfo_cb.
LEMMA LookedUpRight ==
  ASSUME Structure, Right(w), NEW b \in Bev, NEW r, LookedUp(b, r)
  PROVE  Right(w')
<1> DEFINE x == unsuspend(unsuspend(w, b, "w", "LOOKUP"), b, "r", "LOOKUP")
           y == [x EXCEPT !.bev[b].lookups = @ - 1]
           z == LookupEnded(y, b, r)
<1>1. w.bev[b].life = "live" /\ w.bev[b].lookups > 0 /\ w' = Decref(z, b)
  BY DEF LookedUp, Runs, Live, bufferevent_connect_getaddrinfo_cb
<1>2. World(w)
  BY DEF Right, Bal
<1>3. Kept(x, w)
  BY <1>2, UnsuspendKeeps, KeptWorld, KeptAgain
<1> HIDE DEF x
<1>4. Right(x) /\ x.bev[b].life = "live" /\ x.bev[b].lookups > 0
  BY <1>1, <1>3, KeptRight DEF Kept, KeptRefs, Same
<1>5. Bal(y, [None EXCEPT ![b] = @ + 1])
  BY <1>4, LookupCounted
<1> HIDE DEF y
<1>6. Kept(z, y)
  BY <1>5, SocketConnectKeeps DEF Bal
<1> HIDE DEF z
<1>7. Bal(z, [None EXCEPT ![b] = @ + 1])
  BY <1>5, <1>6, KeptBal DEF Kept
<1> QED  BY <1>1, <1>7, GivenBackRight

\* bufferevent_free by the user.
LEMMA FreesRight ==
  ASSUME Structure, Right(w), NEW b \in Bev, Frees(b)
  PROVE  Right(w')
<1>1. w.bev[b].life = "live" /\ w.bev[b].user /\ w' = bufferevent_free(w, b)
  BY DEF Frees, Usable, Live
<1>2. ASSUME NEW g \in Bev, Kind[g] = "filter", Link[g] = b, w.bev[g].life = "live", w.bev[g].closes
      PROVE  w.bev[b].opt = "now"
  <2>1. g # NoBev
    BY DEF Structure
  <2>2. GivenAway(b)
    BY <1>2, <2>1 DEF GivenAway, Live
  <2>3. "free_both" \in w.may
    BY <2>2 DEF Frees, May
  <2> QED  BY <2>3 DEF Right, Bal, Well
<1>3. Kind[b] = "filter" => None[Link[b]] = 0
  BY NoneIs DEF Structure
<1>4. Bal(bufferevent_free(w, b), None)
  BY <1>1, <1>2, <1>3, FreeBal DEF Right
<1> QED  BY <1>1, <1>4 DEF Right

\* bufferevent_enable and bufferevent_disable by the user.
LEMMA EnablesRight ==
  ASSUME Structure, Right(w), NEW b \in Bev, EnablesOrDisables(b)
  PROVE  Right(w')
<1>1. World(w)
  BY DEF Right, Bal
<1>2. \E E : w' \in {bufferevent_enable(w, b, E), bufferevent_disable(w, b, E)}
  BY DEF EnablesOrDisables
<1> QED  BY <1>1, <1>2, BuffereventEnableKeeps, BuffereventDisableKeeps, KeptRight DEF Kept

\* bufferevent_write and bufferevent_read by the user.
LEMMA TransfersRight ==
  ASSUME Structure, Right(w), NEW b \in Bev, Transfers(b)
  PROVE  Right(w')
<1>1. World(w)
  BY DEF Right, Bal
<1>2. \E n : w' \in {bufferevent_write(w, b, n), bufferevent_read(w, b, n)}
  BY DEF Transfers
<1> QED  BY <1>1, <1>2, WriteKeeps, ReadKeeps, KeptRight DEF Kept

\* Callbacks set by the user, on one that no filter is on.
LEMMA SetcbRight ==
  ASSUME Structure, NEW x, Right(x), NEW b \in Bev, x.bev[b].user, x.bev[b].cb # "filter", NEW on
  PROVE  Right(bufferevent_setcb(x, b, on))
<1> DEFINE c == IF on THEN "user" ELSE "none"
           n == x.bev[b].news /\ on
           y == [x EXCEPT !.bev[b].cb = c]
           z == [y EXCEPT !.bev[b].news = n]
<1>1. World(x) /\ BevOk(x.bev[b], b)
  BY DEF Right, Bal, World
<1>2. bufferevent_setcb(x, b, on) = z
  BY <1>1 DEF bufferevent_setcb, World
<1>3. c \in {"none", "user", "filter"} /\ c # "filter"
  OBVIOUS
<1> HIDE DEF c, n
<1>4. ~Held(x, b)
  BY DEF Right, Bal, Well, Held
<1>5. /\ y.bev[b].life = x.bev[b].life /\ y.bev[b].user = x.bev[b].user
      /\ y.bev[b].dq = x.bev[b].dq /\ y.bev[b].run = x.bev[b].run
      /\ y.bev[b].lookups = x.bev[b].lookups /\ y.bev[b].kept = x.bev[b].kept /\ y.bev[b].ref = x.bev[b].ref
      /\ y.bev[b].closes = x.bev[b].closes /\ y.bev[b].opt = x.bev[b].opt
      /\ DOMAIN y.bev[b] = DOMAIN x.bev[b] /\ y.bev[b].cb = c
  BY <1>1 DEF World, BevOk, Counted
<1>6. /\ \A d \in Bev \ {b} : y.bev[d] = x.bev[d]
      /\ y.may = x.may /\ y.grp = x.grp /\ y.adding = x.adding /\ DOMAIN y = DOMAIN x
      /\ DOMAIN y.bev = Bev
  BY <1>1 DEF World
<1> HIDE DEF y
<1>7. World(y)
  <2>1. BevOk(y.bev[b], b)
    BY <1>1, <1>3, <1>5 DEF BevOk
  <2>2. \A d \in Bev : BevOk(y.bev[d], d)
    BY <1>1, <1>6, <2>1 DEF World
  <2> QED  BY <1>1, <1>6, <2>2 DEF World
<1>8. \A d \in Bev : /\ y.bev[d].life = x.bev[d].life /\ y.bev[d].user = x.bev[d].user
                     /\ y.bev[d].dq = x.bev[d].dq /\ y.bev[d].run = x.bev[d].run
                     /\ y.bev[d].lookups = x.bev[d].lookups /\ y.bev[d].kept = x.bev[d].kept
                     /\ y.bev[d].ref = x.bev[d].ref
                     /\ y.bev[d].closes = x.bev[d].closes /\ y.bev[d].opt = x.bev[d].opt
  BY <1>5, <1>6
<1>9. \A d \in Bev : Held(y, d) = Held(x, d)
  BY <1>8 DEF Held
<1>10. \A d \in Bev : Owed(y, d) = Owed(x, d)
  BY <1>8, <1>9 DEF Owed
<1>11. Balanced(y, None)
  <2> HIDE DEF Owed
  <2> QED  BY <1>8, <1>10 DEF Right, Bal, Balanced
<1>12. Well(y)
  <2>1. \A g \in Bev : Kind[g] = "filter" /\ x.bev[g].life = "live" => Link[g] \in Bev \ {b}
    BY <1>4 DEF Held, Structure
  <2> QED  BY <1>6, <1>8, <2>1 DEF Right, Bal, Well
<1>13. Right(y)
  BY <1>7, <1>11, <1>12 DEF Right, Bal
<1>14. Kept(z, y)
  BY <1>7, DataSet
<1> HIDE DEF z
<1> QED  BY <1>2, <1>13, <1>14, KeptRight DEF Kept

\* A reference that be_pair_flush keeps is kept.
LEMMA KeptByRight ==
  ASSUME Structure, ~NoLeaks, NEW x, Right(x), NEW b \in Bev, Kind[b] = "pair",
         x.bev[b].life = "live"
  PROVE  /\ Right(KeptBy(x, b))
         /\ \A c \in Bev : KeptBy(x, b).bev[c].life = x.bev[c].life
<1> DEFINE y == KeptBy(x, b)
           q == One(x.bev[b].dq) + One(x.bev[b].run > 0)
<1>1. World(x) /\ BevOk(x.bev[b], b) /\ x.bev[b].run # 1 /\ q \in Int
  BY DEF Right, Bal, World, Well, One
<1>2. /\ y.bev[b].life = x.bev[b].life /\ y.bev[b].user = x.bev[b].user
      /\ y.bev[b].dq = x.bev[b].dq /\ y.bev[b].cb = x.bev[b].cb
      /\ y.bev[b].run = x.bev[b].run /\ y.bev[b].lookups = x.bev[b].lookups
      /\ y.bev[b].closes = x.bev[b].closes /\ y.bev[b].opt = x.bev[b].opt
      /\ DOMAIN y.bev[b] = DOMAIN x.bev[b]
      /\ \A c \in Bev \ {b} : y.bev[c] = x.bev[c]
      /\ y.may = x.may /\ y.grp = x.grp /\ y.adding = x.adding /\ DOMAIN y = DOMAIN x
      /\ DOMAIN y.bev = Bev
  BY <1>1 DEF World, BevOk, Counted, Incref, KeptBy
<1>3. y.bev[b].kept = x.bev[b].kept + 1 /\ y.bev[b].ref = x.bev[b].ref + 1
  BY <1>1 DEF World, BevOk, Counted, Incref, KeptBy
<1>4. /\ Load(y.bev[b]) = q + y.bev[b].lookups + y.bev[b].kept
      /\ Load(x.bev[b]) = q + x.bev[b].lookups + x.bev[b].kept
  BY <1>2 DEF Load
<1>5. Settled(y.bev[b], x.bev[b])
  BY <1>1, <1>2 DEF Settled
<1> HIDE DEF y, q
<1>6. BevOk(y.bev[b], b)
  BY <1>1, <1>2, <1>3 DEF BevOk
<1>7. y.bev[b].ref = x.bev[b].ref + Load(y.bev[b]) + 0 - Load(x.bev[b])
  BY <1>1, <1>2, <1>3, <1>4 DEF BevOk
<1>8. Right(y)
  BY <1>2, <1>5, <1>6, <1>7, OneAccounted
<1> QED  BY <1>2, <1>8 DEF y

\* It keeps one of each of the two.
LEMMA PairKeptRight ==
  ASSUME Structure, ~NoLeaks, NEW x, Right(x), NEW b \in Bev, Kind[b] = "pair",
         x.bev[b].life = "live"
  PROVE  Right(PairKept(x, b))
<1> DEFINE y == KeptBy(x, b)
<1>1. Right(y) /\ \A c \in Bev : y.bev[c].life = x.bev[c].life
  BY KeptByRight
<1> HIDE DEF y
<1>2. CASE HasPartner(x, b)
  <2>1. Link[b] \in Bev /\ Kind[Link[b]] = "pair" /\ y.bev[Link[b]].life = "live"
    BY <1>1, <1>2, PartnerIs DEF HasPartner, Live
  <2>2. Right(KeptBy(y, Link[b]))
    BY <1>1, <2>1, KeptByRight
  <2> QED  BY <1>2, <2>2 DEF PairKept, y
<1>3. CASE ~HasPartner(x, b)
  BY <1>1, <1>3 DEF PairKept, y
<1> QED  BY <1>2, <1>3

\* A flush holds both of a pair.
LEMMA PairFlushRight ==
  ASSUME Structure, NEW x, Right(x), NEW b \in Bev, Kind[b] = "pair", HasPartner(x, b),
         NEW E, NEW mode, mode # "normal"
  PROVE  Right(be_pair_flush(x, b, E, mode))
<1> DEFINE p == Link[b]
           i == Incref(x, b)
           j == Incref(i, p)
           t == FlushEof(FlushOut(FlushIn(j, b, E), b, E), b, mode)
           d == [None EXCEPT ![b] = @ + 1]
           e == [d EXCEPT ![p] = @ + 1]
<1>1. p \in Bev /\ Kind[p] = "pair"
  BY PartnerIs
<1>2. be_pair_flush(x, b, E, mode) = Decref(Decref(t, p), b)
  BY DEF be_pair_flush, PairIncref
<1>3. Bal(i, d)
  BY IncrefBal DEF Right
<1>4. d \in [Bev -> Nat] /\ d[b] = 1
  BY NoneIs
<1> HIDE DEF i, d
<1>5. Bal(j, e)
  BY <1>1, <1>3, IncrefBal
<1> HIDE DEF j
<1>6. Kept(t, j)
  BY <1>1, <1>5, FlushesKeep DEF Bal
<1> HIDE DEF t
<1>7. Bal(t, e)
  BY <1>5, <1>6, KeptBal DEF Kept
<1>8. e[p] >= 1 /\ [e EXCEPT ![p] = @ - 1] = d
  BY <1>1, <1>4, GivenBack
<1> HIDE DEF e
<1>9. Bal(Decref(t, p), d)
  BY <1>1, <1>7, <1>8, DecrefBal
<1>10. Right(Decref(Decref(t, p), b))
  BY <1>9, GivenBackRight DEF d
<1> QED  BY <1>2, <1>10

\* The other calls of the user.
LEMMA ConfiguresRight ==
  ASSUME Structure, Right(w), NEW b \in Bev, w.bev[b].life = "live",
         w.bev[b].user, w.bev[b].cb # "filter", Configures(b)
  PROVE  Right(w')
<1>1. World(w)
  BY DEF Right, Bal
<1>2. CASE w' = bufferevent_disable_hard(w, b, Dirs)
  BY <1>1, <1>2, BuffereventDisableKeeps, KeptRight DEF Kept
<1>5. CASE \E d, m : w' = bufferevent_setwatermark(w, b, d, m)
  BY <1>1, <1>5, SetwatermarkKeeps, KeptRight DEF Kept
<1>6. CASE w' = bufferevent_set_timeouts(w, b, TRUE)
  BY <1>1, <1>6, SetTimeoutsKeeps, KeptRight DEF Kept
<1>3. CASE \E on : w' = bufferevent_setcb(w, b, on)
  BY <1>3, SetcbRight
<1>4. ASSUME NEW E, NEW mode \in FlushModes, Kind[b] = "pair" => HasPartner(w, b) \/ FlushAlone,
             w' = bufferevent_flush(w, b, E, mode)
      PROVE  Right(w')
  <2>2. CASE Kind[b] = "socket"
    BY <1>4, <2>2 DEF bufferevent_flush
  <2>3. CASE Kind[b] = "pair"
    <3>1. bufferevent_flush(w, b, E, mode) = be_pair_flush(w, b, E, mode)
      BY <2>3 DEF bufferevent_flush
    <3>2. CASE HasPartner(w, b) /\ mode # "normal"
      BY <1>4, <2>3, <3>1, <3>2, PairFlushRight
    <3>3. CASE ~HasPartner(w, b) \/ mode = "normal"
      <4>1. ~NoLeaks
        BY <1>4, <2>3, <3>3 DEF NoLeaks
      <4>2. be_pair_flush(w, b, E, mode) = PairKept(w, b)
        BY <3>3 DEF be_pair_flush
      <4> QED  BY <1>4, <2>3, <3>1, <4>1, <4>2, PairKeptRight
    <3> QED  BY <3>2, <3>3
  <2>4. CASE Kind[b] = "filter"
    <3>1. bufferevent_flush(w, b, E, mode) = be_filter_flush(w, b, E, mode)
      BY <2>4 DEF bufferevent_flush
    <3> QED  BY <1>1, <1>4, <2>4, <3>1, FlushesKeep, KeptRight DEF Kept
  <2> QED  BY <2>2, <2>3, <2>4 DEF Structure
<1>7. CASE May("disable_hard") /\ IsSocket(b) /\ w' = bufferevent_disable_hard(w, b, Dirs)
  BY <1>2, <1>7
<1>8. CASE \E m \in RMarks : May("marks") /\ (m.low > 0 => May("low"))
                              /\ w' = bufferevent_setwatermark(w, b, "r", m)
  BY <1>5, <1>8
<1>9. CASE \E m \in WMarks : May("marks") /\ IsSocket(b)
                              /\ w' = bufferevent_setwatermark(w, b, "w", m)
  BY <1>5, <1>9
<1>10. CASE May("timeouts") /\ w' = bufferevent_set_timeouts(w, b, TRUE)
  BY <1>6, <1>10
<1>11. CASE \E on \in BOOLEAN : /\ May("setcb") /\ ~(on /\ Pending(b))
                                 /\ w' = bufferevent_setcb(w, b, on)
  BY <1>3, <1>11
<1>12. CASE \E E \in SUBSET Dirs \ {{}}, mode \in FlushModes :
              /\ May("flush") /\ (Kind[b] = "pair" => HasPartner(w, b) \/ FlushAlone)
              /\ w' = bufferevent_flush(w, b, E, mode)
  BY <1>4, <1>12
<1> QED  BY <1>7, <1>8, <1>9, <1>10, <1>11, <1>12 DEF Configures

\* bufferevent_socket_connect and _connect_hostname by the user.
LEMMA ConnectRight ==
  ASSUME Structure, Right(w), NEW b \in Bev, w.bev[b].life = "live", ~Under(b), Connect(b)
  PROVE  Right(w')
<1>1. World(w)
  BY DEF Right, Bal
<1>2. CASE \E r : w' = bufferevent_socket_connect(w, b, r)
  BY <1>1, <1>2, SocketConnectKeeps, KeptRight DEF Kept
<1>3. CASE \E fd : w' = be_socket_setfd(w, b, fd)
  BY <1>1, <1>3, SetfdKeeps, KeptRight DEF Kept
<1>4. CASE w' = bufferevent_socket_connect_hostname(w, b)
  <2> DEFINE x == suspend(suspend(w, b, "w", "LOOKUP"), b, "r", "LOOKUP")
             y == Incref([x EXCEPT !.bev[b].lookups = @ + 1], b)
  <2>1. w' = y
    BY <1>4 DEF bufferevent_socket_connect_hostname
  <2>2. Kept(x, w)
    BY <1>1, SuspendKeeps, KeptWorld, KeptAgain
  <2> HIDE DEF x
  <2>3. Right(x) /\ x.bev[b].life = "live"
    BY <2>2, KeptRight DEF Kept, KeptRefs, Same
  <2>4. Right(y)
    BY <2>3, LookupCounted
  <2> QED  BY <2>1, <2>4
<1>5. CASE \E r \in {"fails", "in progress", "made", "refused"} :
             w' = bufferevent_socket_connect(w, b, r)
  BY <1>2, <1>5
<1>6. CASE \E fd \in BOOLEAN :
             (w.bev[b].connecting => SetfdConnecting) /\ w' = be_socket_setfd(w, b, fd)
  BY <1>3, <1>6
<1> QED  BY <1>4, <1>5, <1>6 DEF Connect

\* Rate limits that the user sets and charges.
LEMMA LimitRight ==
  ASSUME Structure, Right(w), NEW b \in Bev, Limit(b)
  PROVE  Right(w')
<1>1. World(w)
  BY DEF Right, Bal
<1>2. CASE \E c \in DOMAIN Rates \cup {0} : w' = bufferevent_set_rate_limit(w, b, c)
  BY <1>1, <1>2, SetRateLimitKeeps, KeptRight DEF Kept
<1>3. CASE w.bev[b].cfg # 0 /\ w' = bufferevent_update_buckets(w, b, 1)
  BY <1>1, <1>3, BucketsKeep, KeptRight DEF Kept
<1>4. CASE \E d \in Dirs, n \in {-1, 1} :
             /\ w.bev[b].cfg # 0 /\ w.bev[b].lim[d] - n <= Rates[w.bev[b].cfg].max
             /\ w' = DecrementLimit(w, b, d, n)
  BY <1>1, <1>4, DecrementLimitKeeps, KeptRight DEF Kept
<1> QED  BY <1>2, <1>3, <1>4 DEF Limit

\* A member joins or leaves the group.
LEMMA JoinRight ==
  ASSUME Structure, Right(w), NEW b \in Bev, Join(b)
  PROVE  Right(w')
<1>1. World(w)
  BY DEF Right, Bal
<1> QED  BY <1>1, AddToGroupKeeps, LeftGroupKeeps, KeptRight DEF Join, Kept

\* The tick of a limit.
LEMMA RefillRight ==
  ASSUME Structure, Right(w), NEW b \in Bev, NEW n, Refill(b, n)
  PROVE  Right(w')
<1>1. World(w)
  BY DEF Right, Bal
<1> QED  BY <1>1, RefillKeeps, KeptRight DEF Refill, Kept

\* The group: its tick, what the user configures, and who joined.
LEMMA GroupRight ==
  ASSUME Structure, Right(w),
         Joined \/ Group \/ \E n, busy : GroupRefill(n, busy)
  PROVE  Right(w')
<1>1. World(w)
  BY DEF Right, Bal
<1>2. CASE Joined
  BY <1>1, <1>2, AddedToGroupKeeps, KeptRight DEF Joined
<1>3. CASE \E n, busy : GroupRefill(n, busy)
  BY <1>1, <1>3, GroupRefillKeeps, KeptRight DEF GroupRefill, Kept
<1>4. CASE Group
  <2>1. CASE \E c \in DOMAIN Rates : w' = bufferevent_rate_limit_group_set_cfg(w, c)
    BY <1>1, <2>1, GroupSetKeeps, KeptRight DEF Kept
  <2>2. CASE \E n \in MinShares : w' = bufferevent_rate_limit_group_set_min_share(w, n)
    BY <1>1, <2>2, GroupSetKeeps, KeptRight DEF Kept
  <2>3. CASE \E d \in Dirs, n \in {-1, 1}, busy \in BusySets :
               /\ w.adding.bev # NoBev => w.adding.bev \in busy
               /\ w.grp.lim[d] - n <= Rates[w.grp.cfg].max
               /\ w' = DecrementGroup(w, d, n, busy)
    BY <1>1, <2>3, DecrementGroupKeeps, KeptRight DEF Kept
  <2> QED  BY <1>4, <2>1, <2>2, <2>3 DEF Group
<1> QED  BY <1>2, <1>3, <1>4

\* What the loop runs.
LEMMA LoopRight ==
  ASSUME Structure, Right(w), NEW b \in Bev, Loop(b)
  PROVE  Right(w')
<1>1. CASE \E got \in {-1, 0, 1, 2, 99}, n \in Ticks(b), busy \in BusySets : Read(b, got, n, busy)
  BY <1>1, ReadRight
<1>2. CASE \E conn \in {"made", "failed", "not yet"}, does \in {"nothing", "free", "disable"},
              took \in {-1, 1, 2, 99}, n \in Ticks(b), more \in {0, 1}, busy \in BusySets :
              Write(b, conn, does, took, n, more, busy)
  <2> DEFINE C == {"made", "failed", "not yet"}
  <2>1. \E conn \in C, does \in {"nothing", "free", "disable"}, took \in {-1, 1, 2, 99},
           n \in Ticks(b), more \in {0, 1}, busy \in BusySets :
           Write(b, conn, does, took, n, more, busy)
    BY <1>2
  <2> HIDE DEF C
  <2>2. PICK conn \in C, does \in {"nothing", "free", "disable"}, took \in {-1, 1, 2, 99},
             n \in Ticks(b), more \in {0, 1}, busy \in BusySets :
             Write(b, conn, does, took, n, more, busy)
    BY <2>1
  <2> QED  BY <2>2, WriteRight
<1>3. CASE \E d \in Dirs : Timeout(b, d)
  BY <1>3, TimeoutRight
<1>4. CASE \E at \in {0, 1, 2, 3, 4} : RunDeferred(b, at)
  <2>1. PICK at \in 0 .. 4 : RunDeferred(b, at)
    BY <1>4
  <2> QED  BY <2>1, RunDeferredRight
<1>5. CASE RunUnlocked(b)
  BY <1>5, RunUnlockedRight
<1>6. CASE \E r \in {"fails", "in progress", "made", "refused", "not found"} : LookedUp(b, r)
  BY <1>6, LookedUpRight
<1> QED  BY <1>1, <1>2, <1>3, <1>4, <1>5, <1>6 DEF Loop

\* What the user calls.
LEMMA UserRight ==
  ASSUME Structure, Right(w), NEW b \in Bev, User(b)
  PROVE  Right(w')
<1>1. w.bev[b].life = "live" /\ w.bev[b].user /\ w.bev[b].cb # "filter"
  BY DEF User, Usable, Live
<1>2. EnablesOrDisables(b) \/ Transfers(b) \/ Configures(b)
  BY DEF User
<1> QED  BY <1>1, <1>2, EnablesRight, TransfersRight, ConfiguresRight

-------------------------------------------------------------------------------
\* The bufferevents of MCStreams.
Seven ==
  /\ Bev = {s0, s1, s2, p1, p2, f, below} /\ NoBev \notin Bev
  /\ s0 \notin {p1, p2, f, below} /\ s1 \notin {p1, p2, f, below} /\ s2 \notin {p1, p2, f, below}
  /\ f \notin {p1, p2, below} /\ below \notin {p1, p2} /\ p1 # p2
  /\ Kind = Kinds /\ Link = Links

\* They are built as the invariant needs it.
LEMMA SevenStructure ==
  ASSUME Seven
  PROVE  /\ Structure /\ ~Under(s0)
         /\ {s0, s1, s2, p1, p2, f, below} \subseteq Bev
<1>1. \A b \in Bev :
        /\ Kind[b] = IF b \in {p1, p2} THEN "pair" ELSE IF b = f THEN "filter" ELSE "socket"
        /\ Link[b] = IF b = p1 THEN p2 ELSE IF b = p2 THEN p1 ELSE IF b = f THEN below ELSE NoBev
  BY DEF Seven, Kinds, Links
<1>2. \A b \in Bev : Kind[b] = "filter" => b = f
  BY <1>1
<1> QED  BY <1>1, <1>2 DEF Seven, Structure, Under

\* Every step of the run keeps the invariant.
LEMMA StreamsStep ==
  ASSUME Seven, Right(w), [Next]_mcVars
  PROVE  Right(w')
<1>1. Structure /\ ~Under(s0) /\ {s0, s1, s2, p1, p2, f, below} \subseteq Bev
  BY SevenStructure
<1>2. CASE SocketPart
  <2>1. May("connect") /\ Usable(s0) /\ Connect(s0) => Right(w')
    BY <1>1, ConnectRight DEF Usable, Live
  <2> QED  BY <1>1, <1>2, <2>1, LoopRight, UserRight, FreesRight DEF SocketPart
<1>3. CASE PairPart
  BY <1>1, <1>3, LoopRight, UserRight, FreesRight DEF PairPart
<1>4. CASE FilterPart
  BY <1>1, <1>4, LoopRight, UserRight, FreesRight DEF FilterPart
<1>5. CASE LimitPart
  BY <1>1, <1>5, LoopRight, EnablesRight, TransfersRight, LimitRight, RefillRight DEF LimitPart
<1>6. CASE GroupPart
  BY <1>1, <1>6, LoopRight, TransfersRight, JoinRight, GroupRight DEF GroupPart
<1>7. CASE SslPart \/ UNCHANGED mcVars
  BY <1>7 DEF SslPart, mcVars
<1> QED  BY <1>2, <1>3, <1>4, <1>5, <1>6, <1>7 DEF Next

\* The filters on b that live: at most one.
LEMMA RightRefs ==
  ASSUME Structure, Right(w)
  PROVE  RefsCounted /\ (NoLeaks => RefsRight)
<1> SUFFICES ASSUME NEW b \in Bev
             PROVE  /\ w.bev[b].ref = Refs(b) + w.bev[b].kept
                    /\ NoLeaks => w.bev[b].ref = Refs(b)
  BY DEF RefsCounted, RefsRight
<1> DEFINE G == {g \in Bev : Kind[g] = "filter" /\ Link[g] = b /\ Live(w, g)}
<1>1. Cardinality(G) = One(Held(w, b))
  <2>1. CASE Held(w, b)
    <3>1. PICK g \in Bev : Kind[g] = "filter" /\ Link[g] = b /\ w.bev[g].life = "live"
      BY <2>1 DEF Held
    <3>2. G = {g}
      BY <3>1 DEF Structure, Live
    <3> QED  BY <2>1, <3>2, FS_Singleton DEF One
  <2>2. CASE ~Held(w, b)
    <3>1. G = {}
      BY <2>2 DEF Held, Live
    <3> QED  BY <2>2, <3>1, FS_EmptySet DEF One
  <2> QED  BY <2>1, <2>2
<1>2. w.bev[b].ref = Owed(w, b) + 0
  BY NoneIs DEF Right, Bal, Balanced
<1>3. Owed(w, b) \in Int
  BY DEF Right, Bal, World, BevOk, Owed, One
<1> HIDE DEF G
<1>4. w.bev[b].ref = Owed(w, b)
  BY <1>2, <1>3
<1>5. /\ w.bev[b].kept \in Nat /\ w.bev[b].lookups \in Nat /\ (NoLeaks => w.bev[b].kept = 0)
  BY DEF Right, Bal, World, BevOk
<1>6. /\ One(w.bev[b].user) \in Int /\ One(w.bev[b].dq) \in Int /\ One(w.bev[b].run > 0) \in Int
      /\ One(Held(w, b)) \in Int
  BY DEF One
<1>7. Refs(b) = One(w.bev[b].user) + One(w.bev[b].dq) + One(w.bev[b].run > 0) + w.bev[b].lookups
                  + One(Held(w, b))
  BY <1>1 DEF Refs, G
<1> HIDE DEF One
<1>8. Refs(b) \in Int /\ w.bev[b].ref = Refs(b) + w.bev[b].kept
  BY <1>4, <1>5, <1>6, <1>7 DEF Owed
<1> QED  BY <1>5, <1>8

\* The parts start with the references of their users and filters.
LEMMA UsesAre ==
  ASSUME NEW use \in Uses
  PROVE  /\ use.p \in {"socket", "limit", "group", "pair", "filter"}
         /\ use.opt \in {"now", "locked", "unlocked"}
         /\ "free_both" \in use.may => use.opt = "now"
BY DEF Uses, Use, Mark

\* How a bufferevent starts.
Begins(v, use, b) ==
  /\ Counted \subseteq DOMAIN v
  /\ v.dq \in BOOLEAN /\ ~v.dq /\ v.user \in BOOLEAN /\ v.run = 0 /\ v.lookups = 0 /\ v.kept = 0
  /\ v.opt \in {"now", use.opt}
  /\ b \notin In[use.p] => v.life = "freed" /\ ~v.user /\ v.ref = 0 /\ v.cb = "user"
  /\ b \in In[use.p] => v.life = "live" /\ v.user
  /\ b \in In[use.p] /\ ~(use.p = "filter" /\ b = below) => v.ref = 1 /\ v.cb = "user"
  /\ use.p = "filter" /\ b = below => v.ref = 2 /\ v.cb = "filter"

\* That is what Start makes.
LEMMA StartIs ==
  ASSUME Seven, NEW use \in Uses, NEW b \in Bev
  PROVE  Begins(Start(use)[b], use, b)
<1> DEFINE v   == Start(use)[b]
           e   == Enabled(use)
           t   == "timeouts" \in use.may
           k   == use.opt
           off == [NewBev EXCEPT !.life = "freed", !.user = FALSE, !.ref = 0]
           g   == use.fd
           c   == use.closes
           m   == use.mark
           sk  == [NewBev EXCEPT !.fd = g, !.opt = k, !.en = e, !.ev = e]
           li  == [NewBev EXCEPT !.en = Dirs, !.ev = Dirs]
           gr  == [NewBev EXCEPT !.group = TRUE, !.en = Dirs, !.ev = Dirs]
           pa  == [NewBev EXCEPT !.opt = k, !.en = e, !.tmo = t]
           fi  == [NewBev EXCEPT !.opt = k, !.closes = c]
           be  == [NewBev EXCEPT !.cb = "filter", !.ref = 2, !.en = Dirs, !.ev = {"w"},
                                 !.sus["r"] = {"FILT_READ"}, !.wm = m, !.opt = k]
<1>0. v = IF b \notin In[use.p] THEN off
          ELSE CASE use.p = "socket" -> sk
                 [] use.p = "limit" -> li
                 [] use.p = "group" -> gr
                 [] use.p = "pair" -> pa
                 [] b = f -> fi
                 [] b = below -> be
  BY Zenon DEF Start
<1>9. use.p \in {"socket", "limit", "group", "pair", "filter"} /\ k = use.opt
  BY UsesAre
<1> HIDE DEF v, off, sk, li, gr, pa, fi, be
<1>8. /\ b \in In[use.p] /\ use.p # "filter" => b \notin {f, below}
      /\ b \in In[use.p] /\ use.p = "filter" => b \in {f, below}
  BY <1>9 DEF In, Seven
<1>1. CASE b \notin In[use.p]
  <2>1. v = off /\ (use.p = "filter" => b # below)
    BY <1>0, <1>1 DEF In
  <2> QED  BY <1>1, <2>1 DEF NewBev, Counted, Begins, off, v
<1>2. CASE b \in In[use.p] /\ use.p = "socket"
  <2>1. v = sk
    BY <1>0, <1>2, <1>8
  <2> HIDE DEF e, g, k
  <2> QED  BY <1>2, <1>9, <2>1 DEF NewBev, Counted, Begins, sk, v
<1>3. CASE b \in In[use.p] /\ use.p = "limit"
  <2>1. v = li
    BY <1>0, <1>3, <1>8
  <2> QED  BY <1>3, <2>1 DEF NewBev, Counted, Begins, li, v
<1>4. CASE b \in In[use.p] /\ use.p = "group"
  <2>1. v = gr
    BY <1>0, <1>4, <1>8
  <2> QED  BY <1>4, <2>1 DEF NewBev, Counted, Begins, gr, v
<1>5. CASE b \in In[use.p] /\ use.p = "pair"
  <2>1. v = pa
    BY <1>0, <1>5, <1>8
  <2> HIDE DEF e, t, k
  <2> QED  BY <1>5, <1>9, <2>1 DEF NewBev, Counted, Begins, pa, v
<1>6. CASE b = f /\ use.p = "filter"
  <2>1. v = fi /\ b # below /\ b \in In[use.p]
    BY <1>0, <1>6 DEF In, Seven
  <2> HIDE DEF c, k
  <2> QED  BY <1>6, <1>9, <2>1 DEF NewBev, Counted, Begins, fi, v
<1>7. CASE b = below /\ use.p = "filter"
  <2>1. v = be /\ b \in In[use.p]
    BY <1>0, <1>7 DEF In, Seven
  <2> HIDE DEF m, k
  <2> QED  BY <1>7, <1>9, <2>1 DEF NewBev, Counted, Begins, be, v
<1> QED  BY <1>1, <1>2, <1>3, <1>4, <1>5, <1>6, <1>7, <1>8, <1>9 DEF v

\* The parts start right.
LEMMA StartRight ==
  ASSUME Seven, InitStreams
  PROVE  Right(w)
<1>1. /\ Structure /\ {s0, s1, s2, p1, p2, f, below} \subseteq Bev
      /\ \A g \in Bev : Kind[g] = "filter" <=> g = f
      /\ Link[f] = below /\ f # below
  BY SevenStructure DEF Seven, Kinds, Links
<1>2. PICK use \in Uses, members \in {<<s1, s2>>, <<s2, s1>>} :
        w = [bev |-> Start(use), may |-> use.may,
             grp |-> [NewGroup EXCEPT !.members = IF use.p = "group" THEN members ELSE <<>>],
             adding |-> [bev |-> NoBev, sus |-> [d \in Dirs |-> FALSE]], falseEof |-> FALSE]
  BY DEF InitStreams
<1> DEFINE v == w.bev
<1>3. /\ v = Start(use) /\ w.may = use.may /\ w.adding.bev = NoBev
      /\ w.grp.members \in {members, <<>>}
      /\ DOMAIN v = Bev /\ {"bev", "may", "grp", "adding"} \subseteq DOMAIN w
      /\ "members" \in DOMAIN w.grp /\ "bev" \in DOMAIN w.adding
  BY <1>2 DEF NewGroup, Start
<1>4. \A b \in Bev : Begins(v[b], use, b)
  BY <1>3, StartIs
<1>5. /\ use.p \in {"socket", "limit", "group", "pair", "filter"}
      /\ use.opt \in {"now", "locked", "unlocked"}
      /\ "free_both" \in use.may => use.opt = "now"
  BY UsesAre
<1>6. /\ \A b \in Bev : b = f => (b \in In[use.p] <=> use.p = "filter")
      /\ \A b \in Bev : b = below => (b \in In[use.p] <=> use.p = "filter")
  BY <1>5 DEF In, Seven
<1> HIDE DEF v
<1>7. World(w)
  <2>1. w.grp.members \in Seq(Bev)
    <3>1. /\ <<s1, s2>> \in Seq(Bev) /\ <<s2, s1>> \in Seq(Bev) /\ <<>> \in Seq(Bev)
      BY <1>1
    <3> QED  BY <1>3, <3>1
  <2>2. Under(below)
    BY <1>1 DEF Under
  <2>3. \A b \in Bev : BevOk(v[b], b)
    BY <1>4, <1>5, <1>6, <2>2 DEF BevOk, Begins
  <2> QED  BY <1>3, <2>1, <2>3 DEF World, v
<1>8. Balanced(w, None)
  <2>1. \A b \in Bev : w.bev[b].ref = Owed(w, b)
    <3> TAKE b \in Bev
    <3>1. Held(w, b) <=> (use.p = "filter" /\ b = below)
      BY <1>1, <1>4, <1>6 DEF Held, Begins, v
    <3>2. w.bev[b] = v[b]
      BY DEF v
    <3> QED  BY <1>4, <1>6, <3>1, <3>2 DEF Owed, One, Begins
  <2>2. \A b \in Bev : Owed(w, b) \in Int
    BY <1>7 DEF World, BevOk, Owed, One
  <2> QED  BY <2>1, <2>2, NoneIs DEF Balanced
<1>9. Well(w)
  <2>1. "free_both" \in w.may => \A b \in Bev : w.bev[b].opt = "now"
    BY <1>3, <1>4, <1>5 DEF Begins, v
  <2> QED  BY <1>1, <1>4, <1>6, <2>1 DEF Well, Begins, v
<1> QED  BY <1>7, <1>8, <1>9 DEF Right, Bal

\* So does the part with SSL, which has no other bufferevent.
LEMMA NoStreamsRight ==
  ASSUME Seven, w = NoStreams
  PROVE  Right(w)
<1> DEFINE v   == w.bev
           off == [NewBev EXCEPT !.life = "freed", !.user = FALSE, !.ref = 0]
<1>1. /\ DOMAIN v = Bev /\ \A b \in Bev : v[b] = off
      /\ w.may = {} /\ w.adding.bev = NoBev /\ w.grp.members = <<>>
      /\ {"bev", "may", "grp", "adding"} \subseteq DOMAIN w
      /\ "members" \in DOMAIN w.grp /\ "bev" \in DOMAIN w.adding
  BY DEF NoStreams, NewGroup
<1>2. /\ Counted \subseteq DOMAIN off /\ off.dq \in BOOLEAN /\ ~off.dq /\ off.run = 0
      /\ off.lookups = 0 /\ off.kept = 0 /\ off.opt = "now"
      /\ off.life = "freed" /\ off.user \in BOOLEAN /\ ~off.user /\ off.ref = 0 /\ off.cb = "user"
  BY DEF NewBev, Counted
<1> HIDE DEF v, off
<1>3. World(w)
  <2>1. \A b \in Bev : BevOk(v[b], b)
    BY <1>1, <1>2 DEF BevOk
  <2> QED  BY <1>1, <2>1 DEF World, v
<1>4. Balanced(w, None)
  <2>1. \A b \in Bev : w.bev[b].ref = Owed(w, b)
    BY <1>1, <1>2 DEF Owed, Held, One, v
  <2>2. \A b \in Bev : Owed(w, b) \in Int
    BY <1>3 DEF World, BevOk, Owed, One
  <2> QED  BY <2>1, <2>2, NoneIs DEF Balanced
<1>5. Well(w)
  BY <1>1, <1>2 DEF Well, v
<1> QED  BY <1>3, <1>4, <1>5 DEF Right, Bal

\* The invariant of w.
BevInv == Right(w)

\* For any rates, marks and contents, and for any way to flush a pair, the count of a
\* bufferevent is its references: the user's, the deferred queue's, that of the callbacks
\* that run, a lookup's or a filter's, and those that be_pair_flush has not given back
\* (one of each of the two in mode BEV_NORMAL, one without a partner in every mode).  So
\* none is freed while one of them is left.
THEOREM RefsCountedHolds ==
  ASSUME Seven
  PROVE  Spec => []RefsCounted
<1>1. Init => BevInv
  BY StartRight, NoStreamsRight DEF Init, BevInv
<1>2. BevInv /\ [Next]_mcVars => BevInv'
  BY StreamsStep DEF BevInv
<1>3. BevInv => RefsCounted
  BY SevenStructure, RightRefs DEF BevInv
<1> QED  BY <1>1, <1>2, <1>3, PTL DEF Spec

\* Each is also freed with the last reference, when pairs are flushed neither in mode
\* BEV_NORMAL nor after the partner was freed: be_pair_flush keeps references then.
THEOREM RefsRightHolds ==
  ASSUME Seven, "normal" \notin FlushModes, ~FlushAlone
  PROVE  Spec => []RefsRight
<1>1. Init => BevInv
  BY StartRight, NoStreamsRight DEF Init, BevInv
<1>2. BevInv /\ [Next]_mcVars => BevInv'
  BY StreamsStep DEF BevInv
<1>3. BevInv => RefsRight
  BY SevenStructure, RightRefs DEF BevInv, NoLeaks
<1> QED  BY <1>1, <1>2, <1>3, PTL DEF Spec
===============================================================================
