-------------------------------- MODULE Evdns --------------------------------
(***************************************************************************)
(* The resolver of evdns.c: requests that are in flight or waiting, the    *)
(* ring of nameservers, retransmission, reissue to another server, domain  *)
(* search, probes of servers that are down, and user callbacks, which are  *)
(* deferred.                                                               *)
(*                                                                         *)
(* The lock of the base is held throughout every handler, so a handler is  *)
(* one step: a function from the state d of the base to its next state,    *)
(* built from the functions that the handler calls.  Packets may be lost,  *)
(* delayed, repeated and reordered; a pending timer may expire at any      *)
(* time.  The parameter c is what the handler meets: the id at which the   *)
(* random choice of a transaction id begins, and a server to which sendto  *)
(* does not work, or a name that is too long with its domain.              *)
(***************************************************************************)
EXTENDS Integers, Sequences, FiniteSets, SequencesExt

CONSTANTS
  Handle,      \* calls of evdns_base_resolve_*, each made once
  NS,          \* nameservers; n is also the handle of its probe
  NoNs,
  Searching,   \* handles whose name is searched for in the domains
  RawFirst,    \* handles whose name has ndots dots, tried as it is first
  NumDomains,  \* num_domains of the search state
  HighId,      \* transaction ids are 0..HighId
  IdFrom,      \* where the choice of an id may begin
  MaxInflight, \* global_max_requests_inflight
  PerHead,     \* requests per list of req_heads (5 in the code)
  Limits,      \* other values that the limit may be set to
  MaxTx,       \* global_max_retransmits
  MaxReissues, \* global_max_reissues
  MaxTimeouts, \* global_max_nameserver_timeout
  MaxEvents,   \* socket errors, probes, and calls other than the first ones
  First,       \* handles whose call is not counted in MaxEvents
  Careful      \* the application avoids the calls that use a freed server

ASSUME DnsAssumption ==
  /\ NoNs \notin NS \cup Handle /\ NS \cap Handle = {} /\ IsFiniteSet(NS)
  /\ MaxInflight \in Nat \ {0} /\ Limits \subseteq Nat /\ PerHead \in Nat \ {0}

VARIABLES
  d,      \* the evdns_base
  asked,  \* handles that were given to evdns_base_resolve_*
  got,    \* got[h]: how many callbacks h's user had
  aborted, \* handles whose requests evdns_base_free dropped without a callback
  spoke,  \* servers that replied since they were last found to be down, if
          \* Careful is FALSE
  events  \* how many of MaxEvents there were

vars == <<d, asked, got, aborted, spoke, events>>

Req    == Handle \cup NS
Id     == 0..HighId
Late   == "late"
NoReq  == [ns |-> NoNs, id |-> 0, tx |-> 0, reissue |-> 0, sent |-> {},
           transmit_me |-> FALSE, timer |-> FALSE]
NoServer == [state |-> 0, timedout |-> 0, choked |-> FALSE, write_waiting |-> FALSE,
             probe |-> FALSE, timer |-> FALSE]
NewServer == [NoServer EXCEPT !.state = 1]

\* Op applied to the members of q in turn.
Each(Op(_, _), b, q) ==
  LET f[i \in 0..Len(q)] == IF i = 0 THEN b ELSE Op(f[i - 1], q[i]) IN f[Len(q)]

In(r, q) == r \in Range(q)
\* What a handler may meet: nothing unusual, a next name of a search that cannot
\* be asked for, or a server that cannot be sent to.
Luck == [id : IdFrom, ns : {NoNs}, how : {"ok", "toolong"}]
          \cup [id : IdFrom, ns : NS, how : {"again", "error"}]

Pending(b, r) == \E i \in DOMAIN b.deferred : b.deferred[i].h = r
Live(b, r) == In(r, b.inflight) \/ In(r, b.waiting)

-------------------------------------------------------------------------------
\* The server to use, and the ring turned: a record of both.
nameserver_pick(b) ==
  LET turn(k) == SubSeq(b.ring, k + 1, Len(b.ring)) \o SubSeq(b.ring, 1, k)
      up == {k \in DOMAIN b.ring : b.ns[b.ring[k]].state = 1}
      k == CHOOSE i \in up : \A j \in up : i <= j
  IN  IF b.ring = <<>> THEN [b |-> b, ns |-> NoNs]
      ELSE IF b.good = 0
        THEN [b |-> [b EXCEPT !.ring = turn(1)], ns |-> turn(1)[1]]
      ELSE IF up = {}
        THEN [b |-> [b EXCEPT !.ring = turn(1)], ns |-> b.ring[1]]
      ELSE [b |-> [b EXCEPT !.ring = turn(k)], ns |-> b.ring[k]]

Assign(b, r) ==
  LET p == nameserver_pick(b) IN [p.b EXCEPT !.req[r].ns = p.ns]

\* The first id from c.id on that no request in flight has.
transaction_id_pick(b, c) ==
  LET free == Id \ {b.req[r].id : r \in Range(b.inflight)}
      later == {i \in free : i >= c.id}
      from == IF later # {} THEN later ELSE free
  IN  CHOOSE i \in from : \A j \in from : i <= j

\* Requests that were not sent to the failed server yet go to another one.
nameserver_failed(b, n) ==
  LET down == [b EXCEPT !.good = @ - 1, !.ns[n].state = 0, !.ns[n].timer = TRUE]
      Move(x, r) == IF x.req[r].tx = 0 /\ x.req[r].ns = n THEN Assign(x, r) ELSE x
  IN  IF b.ns[n].state = 0 THEN b
      ELSE IF down.good = 0 THEN down
      ELSE Each(Move, down, down.inflight)

Sent(b, r) ==
  [b EXCEPT !.req[r].timer = TRUE, !.req[r].tx = @ + 1, !.req[r].transmit_me = FALSE]

\* Mutant of evdns_request_transmit: a choked server is not waited for.
TransmitNoWait(b, r, c) ==
  LET n == b.req[r].ns
      m == [b EXCEPT !.req[r].transmit_me = TRUE]
      hit == [m EXCEPT !.hit = TRUE]
  IN  IF n = NoNs THEN [m EXCEPT !.null = TRUE]
      ELSE IF b.ns[n].choked THEN m
      ELSE IF c.ns = n /\ c.how = "again" THEN [hit EXCEPT !.ns[n].choked = TRUE]
      ELSE IF c.ns = n THEN Sent(nameserver_failed(hit, n), r)
      ELSE [Sent(m, r) EXCEPT !.req[r].sent = @ \cup {n}]

\* A server that is NULL would be dereferenced; "null" records it, and "hit"
\* that something unusual of c was met.
evdns_request_transmit(b, r, c) ==
  LET n == b.req[r].ns
      m == [b EXCEPT !.req[r].transmit_me = TRUE]
      hit == [m EXCEPT !.hit = TRUE]
  IN  IF n = NoNs THEN [m EXCEPT !.null = TRUE]
      ELSE IF b.ns[n].choked THEN m
      ELSE IF c.ns = n /\ c.how = "again"
        THEN [hit EXCEPT !.ns[n].choked = TRUE, !.ns[n].write_waiting = TRUE]
      ELSE IF c.ns = n THEN Sent(nameserver_failed(hit, n), r)
      ELSE [Sent(m, r) EXCEPT !.req[r].sent = @ \cup {n}]

evdns_transmit(b, c) ==
  LET Send(x, r) == IF x.req[r].transmit_me THEN evdns_request_transmit(x, r, c) ELSE x
  IN  Each(Send, b, b.inflight)

evdns_requests_pump_waiting_queue(b, c) ==
  LET One(x, i) ==
        LET r == Head(x.waiting)
            y == Assign([x EXCEPT !.waiting = Tail(@), !.nwait = @ - 1, !.nin = @ + 1], r)
            z == [y EXCEPT !.req[r].id = transaction_id_pick(y, c),
                           !.inflight = Append(@, r)]
        IN  IF x.nin < x.max /\ x.nwait > 0 /\ ~x.null
              THEN evdns_transmit(evdns_request_transmit(z, r, c), c) ELSE x
  IN  Each(One, b, b.waiting)

\* A request leaves its list, and the next one may go out.
request_finished(b, r, list, c) ==
  LET x == IF list = "inflight"
             THEN [b EXCEPT !.inflight = RemoveFirst(@, r), !.nin = @ - 1]
             ELSE [b EXCEPT !.waiting = RemoveFirst(@, r), !.nwait = @ - 1]
  IN  evdns_requests_pump_waiting_queue([x EXCEPT !.req[r] = NoReq], c)

\* The request is the last one of its handle: the search is over as well.
FreeHandle(b, r, list, c) ==
  request_finished([b EXCEPT !.search = @ \ {r}, !.index[r] = -1], r, list, c)

\* Failures that no callback of this file tells apart.
Class(err) == IF err \in {"none", "notexist", "cancel"} THEN err ELSE "failed"

\* "answer" is the request that a successful answer was for.
reply_schedule_callback(b, r, err, answer) ==
  [b EXCEPT !.deferred = Append(@, [h |-> r, err |-> Class(err), answer |-> answer])]

Finish(b, r, err, c) ==
  FreeHandle(reply_schedule_callback(b, r, err, r), r, "inflight", c)

\* Which list the request is taken from depends on whether it has a server.
evdns_cancel_request(b, r, c) ==
  LET list == IF b.req[r].ns # NoNs THEN "inflight" ELSE "waiting"
  IN  IF ~Live(b, r) \/ Pending(b, r) THEN b
      ELSE FreeHandle(reply_schedule_callback(b, r, "cancel", r), r, list, c)

nameserver_up(b, n, c) ==
  LET x == [b EXCEPT !.ns[n].timer = FALSE]
      y == IF x.ns[n].probe THEN evdns_cancel_request(x, n, c) ELSE x
  IN  IF b.ns[n].state = 1 THEN b
      ELSE [y EXCEPT !.ns[n].probe = FALSE, !.ns[n].state = 1,
                     !.ns[n].timedout = 0, !.good = @ + 1]

\* A new request, not in a list yet: it has an id and a server only if it may
\* go out at once.  The result is a pair of the base and the request.
request_new(b, c) ==
  LET p == nameserver_pick(b)
  IN  IF b.nin < b.max
        THEN [b |-> p.b, req |-> [NoReq EXCEPT !.ns = p.ns,
                                               !.id = transaction_id_pick(b, c)]]
        ELSE [b |-> b, req |-> NoReq]

request_submit(b, r, new, c) ==
  LET x == [b EXCEPT !.req[r] = new]
  IN  IF new.ns # NoNs
        THEN evdns_request_transmit([x EXCEPT !.inflight = Append(@, r), !.nin = @ + 1], r, c)
        ELSE [x EXCEPT !.waiting = Append(@, r), !.nwait = @ + 1]

\* A name was not found: the next domain, or the name as it is if that was not
\* tried.  "more" says whether a new request was submitted.  The new request
\* is made while the old one still counts as in flight; if it cannot be made,
\* the search is given up.
search_try_next(b, r, c) ==
  LET i == b.index[r] + 1
      last == i >= NumDomains
      x == [b EXCEPT !.index[r] = i]
      new == request_new(x, c)
      y == IF last THEN [new.b EXCEPT !.search = @ \ {r}] ELSE new.b
  IN  IF last /\ r \in RawFirst THEN [more |-> FALSE, b |-> x]
      ELSE IF c.how = "toolong" THEN [more |-> FALSE, b |-> [x EXCEPT !.hit = TRUE]]
      ELSE [more |-> TRUE,
            b |-> request_submit(request_finished(y, r, "inflight", c), r, new.req, c)]

request_reissue(b, r) ==
  LET x == Assign(b, r)
  IN  IF x.req[r].ns = b.req[r].ns THEN [again |-> FALSE, b |-> x]
      ELSE [again |-> TRUE,
            b |-> [x EXCEPT !.req[r].reissue = @ + 1, !.req[r].tx = 0,
                            !.req[r].transmit_me = TRUE]]

\* The server is known to work; the probe that this answers is over.
GoodReply(b, r, c) ==
  LET n == b.req[r].ns
  IN  nameserver_up(IF r = n THEN [b EXCEPT !.ns[n].probe = FALSE] ELSE b, n, c)

\* Mutant of reply_handle: the user is told of a failure that is searched on.
TellAndSearch(b, r, err, answer, c) ==
  LET x == IF err \in {"none", "notexist", "unknown"} THEN GoodReply(b, r, c) ELSE b
      t == search_try_next(reply_schedule_callback(x, r, err, r), r, c)
  IN  IF r \in x.search /\ err # "none" /\ t.more THEN t.b
      ELSE FreeHandle(reply_schedule_callback(x, r, err, answer), r, "inflight", c)

\* The callback is scheduled first, the server marked as good, and then the
\* request is removed.  A good server may answer with an error.
reply_handle(b, r, err, answer, c) ==
  LET bad == err = "refused" /\ b.req[r].reissue < MaxReissues
      re == request_reissue(nameserver_failed(b, b.req[r].ns), r)
      x == IF bad THEN re.b
           ELSE IF err \in {"refused", "servfail"} THEN b
           ELSE GoodReply(b, r, c)
      t == search_try_next(x, r, c)
  IN  IF err = "none"
        THEN LET y == reply_schedule_callback(b, r, err, answer)
             IN  FreeHandle(GoodReply(y, r, c), r, "inflight", c)
      ELSE IF bad /\ re.again THEN x
      ELSE IF r \in x.search /\ t.more THEN t.b
      ELSE Finish(IF r \in x.search THEN t.b ELSE x, r, err, c)

\* The request is found by its id alone, whichever server it was last sent to.
\* An answer to the question of another request is an unknown error.
reply_parse(b, id, asks, rcode, c) ==
  LET first == SelectInSeq(b.inflight, LAMBDA x : b.req[x].id = id)
      r == b.inflight[first]
      err == IF rcode = "none" /\ asks # r THEN "unknown" ELSE rcode
  IN  IF first = 0 THEN b ELSE reply_handle(b, r, err, asks, c)

-------------------------------------------------------------------------------
\* The base after a handler that met c and read packets of "from".
Met(b, c, from) ==
  LET down == {n \in NS : d.ns[n].state = 1 /\ b.ns[n].state = 0}
  IN  /\ b.hit <=> c.how # "ok"
      /\ d' = [b EXCEPT !.hit = FALSE]
      /\ spoke' = IF Careful THEN {} ELSE (spoke \cup from) \ down
Heard(b, c, from) == Met(b, c, from) /\ UNCHANGED aborted
Do(b, c) == Heard(b, c, {})

\* A step that counts as one of MaxEvents, and one that does if sending failed.
Event == events < MaxEvents /\ events' = events + 1
EventIf(c) == IF c.how = "ok" THEN UNCHANGED events ELSE Event

Init ==
  /\ d = [alive |-> TRUE, null |-> FALSE, hit |-> FALSE, max |-> MaxInflight,
          ring |-> CHOOSE q \in SetToSeqs(NS) : TRUE,
          ns |-> [n \in NS |-> NewServer], req |-> [r \in Req |-> NoReq],
          index |-> [r \in Req |-> -1], search |-> {},
          inflight |-> <<>>, waiting |-> <<>>, nin |-> 0, nwait |-> 0,
          good |-> Cardinality(NS), deferred |-> <<>>]
  /\ asked = {} /\ got = [h \in Handle |-> 0] /\ aborted = {} /\ spoke = {} /\ events = 0

\* The name is searched for: as it is first (search_index -1), or in the first
\* domain.
search_request_new(b, h, c) ==
  LET new == request_new(b, c)
      x == [new.b EXCEPT !.search = @ \cup {h},
                         !.index[h] = IF h \in RawFirst THEN -1 ELSE 0]
  IN  request_submit(x, h, new.req, c)

\* evdns_base_resolve_ipv4, _ipv6, _reverse and _reverse_ipv6.
evdns_base_resolve(h, c) ==
  LET new == request_new(d, c)
  IN  /\ d.alive /\ h \notin asked
      /\ IF h \in First THEN EventIf(c) ELSE c.how = "ok" /\ Event
      /\ asked' = asked \cup {h}
      /\ Do(IF h \in Searching /\ NumDomains > 0 THEN search_request_new(d, h, c)
            ELSE request_submit(new.b, h, new.req, c), c)
      /\ UNCHANGED got

\* A packet from server n with r's id and the given result: the answer to r, or
\* a late answer to a request that had the id before.  The question of an error
\* is not compared, so that it need not be told from a late one.
nameserver_read(n, r, asks, rcode, c) ==
  /\ d.alive /\ In(n, d.ring) /\ EventIf(c)
  /\ asks = r => rcode = "none" /\ n \in d.req[r].sent
  /\ Heard(reply_parse([d EXCEPT !.ns[n].timedout = 0], d.req[r].id, asks, rcode, c), c, {n})
  /\ UNCHANGED <<asked, got>>

\* A packet whose id no request has.
ReadStray(n, c) ==
  /\ d.alive /\ In(n, d.ring)
  /\ Heard([d EXCEPT !.ns[n].timedout = 0], c, {n})
  /\ UNCHANGED <<asked, got, events>>

\* recvfrom fails.
nameserver_read_error(n, c) ==
  /\ d.alive /\ In(n, d.ring) /\ d.ns[n].state = 1
  /\ Do(nameserver_failed(d, n), c)
  /\ Event /\ UNCHANGED <<asked, got>>

\* The socket of n can be written to again.
nameserver_ready_callback(n, c) ==
  LET b == [d EXCEPT !.ns[n].choked = FALSE]
      tried == \E r \in Range(b.inflight) : b.req[r].transmit_me
  IN  /\ d.alive /\ d.ns[n].write_waiting /\ EventIf(c)
      /\ Do(IF tried THEN evdns_transmit(b, c) ELSE [b EXCEPT !.ns[n].write_waiting = FALSE], c)
      /\ UNCHANGED <<asked, got>>

evdns_request_timeout_callback(r, c) ==
  LET n == d.req[r].ns
      late == d.ns[n].timedout + 1
      b == IF late > MaxTimeouts
             THEN nameserver_failed([d EXCEPT !.ns[n].timedout = 0], n)
             ELSE [d EXCEPT !.ns[n].timedout = late]
  IN  /\ d.alive /\ d.req[r].timer /\ EventIf(c)
      /\ Do(IF b.req[r].tx >= MaxTx THEN Finish(b, r, "timeout", c)
            ELSE evdns_request_transmit(Assign([b EXCEPT !.req[r].timer = FALSE], r), r, c), c)
      /\ UNCHANGED <<asked, got>>

\* The timer of a server that is down.  The probe is in flight no matter how
\* many requests are.  Callbacks that are due have run before this timer, of
\* global_nameserver_probe_initial_timeout or more, expires.
nameserver_send_probe(n, c) ==
  LET new == request_new(d, c)
      req == [new.req EXCEPT !.ns = n, !.id = transaction_id_pick(d, c)]
      b == [new.b EXCEPT !.ns[n].probe = TRUE, !.ns[n].timer = FALSE]
  IN  /\ d.alive /\ d.ns[n].timer /\ ~Pending(d, n)
      /\ Do(request_submit(b, n, req, c), c)
      /\ Event /\ UNCHANGED <<asked, got>>

\* The callback of a probe.  nameserver_probe_failed leaves a server alone that
\* is up by now; otherwise it plans the next probe.
nameserver_probe_callback(b, n, err, c) ==
  LET x == [b EXCEPT !.ns[n].probe = FALSE]
  IN  IF err = "cancel" THEN b
      ELSE IF err \in {"none", "notexist"} THEN nameserver_up(x, n, c)
      ELSE [x EXCEPT !.ns[n].timer = b.ns[n].state = 0]

reply_run_callback(c) ==
  LET cb == Head(d.deferred)
      b == [d EXCEPT !.deferred = Tail(@)]
  IN  /\ d.deferred # <<>>
      /\ IF cb.h \in NS
           THEN Do(nameserver_probe_callback(b, cb.h, cb.err, c), c) /\ UNCHANGED got
           ELSE Do(b, c) /\ got' = [got EXCEPT ![cb.h] = @ + 1]
      /\ EventIf(c) /\ UNCHANGED asked

Cancel(h, c) ==
  LET b == evdns_cancel_request(d, h, c)
  IN  /\ d.alive /\ Live(d, h)
      /\ Careful => ~b.null
      /\ Do(b, c)
      /\ Event /\ UNCHANGED <<asked, got>>

\* Nothing of the probes is left that would use a server once it is freed.
NoProbes == \A n \in NS : ~d.ns[n].probe /\ ~Pending(d, n)

\* Requests in flight go to the front of the waiting queue, the last first.
evdns_base_clear_nameservers_and_suspend(c) ==
  /\ d.alive /\ d.ring # <<>> /\ NoProbes
  /\ Do([d EXCEPT !.ring = <<>>, !.ns = [n \in NS |-> NoServer], !.good = 0,
                  !.req = [r \in Req |-> NoReq],
                  !.inflight = <<>>, !.waiting = Reverse(d.inflight) \o @,
                  !.nin = 0, !.nwait = @ + Len(d.inflight)], c)
  /\ Event /\ UNCHANGED <<asked, got>>

evdns_base_resume(c) ==
  LET b == evdns_requests_pump_waiting_queue(d, c)
  IN  /\ d.alive /\ EventIf(c)
      /\ Careful => ~b.null
      /\ Do(b, c)
      /\ UNCHANGED <<asked, got>>

\* The new server comes after the first one of the ring.
_evdns_nameserver_add_impl(n, c) ==
  /\ d.alive /\ ~In(n, d.ring)
  /\ Do([d EXCEPT !.ring = IF @ = <<>> THEN <<n>> ELSE InsertAt(@, 2, n),
                  !.ns[n] = NewServer, !.good = @ + 1], c)
  /\ UNCHANGED <<asked, got, events>>

\* The requests in flight are put into the lists of the new size; the waiting
\* ones are not looked at.
evdns_base_set_max_requests_inflight(maxinflight, c) ==
  LET m == IF maxinflight < 1 THEN 1 ELSE maxinflight
  IN  /\ d.alive /\ m # d.max
      /\ Do([d EXCEPT !.max = m], c)
      /\ Event /\ UNCHANGED <<asked, got>>

\* The base is freed and its requests fail, or are dropped if fail_requests is
\* FALSE (only their callbacks make the difference, so they are taken back).  Each list of req_heads is emptied
\* in turn, but removing a request moves a waiting one into any of the lists.
evdns_base_free(fail_requests, c) ==
  LET heads == (d.max + PerHead - 1) \div PerHead
      all == d.inflight \o d.waiting
      Drain(b, i) ==
        LET One(x, r) ==
              LET first == SelectInSeq(x.inflight, LAMBDA y : x.req[y].id % heads = i - 1)
              IN  IF first = 0 THEN x ELSE Finish(x, x.inflight[first], "shutdown", c)
        IN  Each(One, b, all)
      Wait(x, r) ==
        IF x.waiting = <<>> THEN x
        ELSE FreeHandle(reply_schedule_callback(x, Head(x.waiting), "shutdown", r),
                        Head(x.waiting), "waiting", c)
      b == Each(Wait, Each(Drain, d, [i \in 1..heads |-> i]), all)
  IN  /\ d.alive /\ NoProbes
      /\ Careful => ~b.null
      /\ Met([b EXCEPT !.alive = FALSE, !.nin = 0, !.nwait = 0, !.ring = <<>>, !.good = 0,
                       !.ns = [n \in NS |-> NoServer],
                       !.deferred = IF fail_requests THEN @ ELSE d.deferred], c, {})
      /\ aborted' = aborted \cup {h \in asked : ~fail_requests /\ Live(d, h) /\ ~Live(b, h)}
      /\ Event /\ UNCHANGED <<asked, got>>

Rcode == {"none", "notexist", "servfail", "refused"}

Next ==
  \E c \in {x \in Luck : /\ x.how # "ok" => events < MaxEvents
                        /\ x.how \in {"again", "error"} => In(x.ns, d.ring)} :
    \/ \E h \in Handle : evdns_base_resolve(h, c) \/ Cancel(h, c)
    \/ \E r \in Range(d.inflight), n \in NS, rcode \in Rcode : \E asks \in {r, Late} :
         nameserver_read(n, r, asks, rcode, c)
    \/ \E n \in NS : ReadStray(n, c)
    \/ \E r \in Req : evdns_request_timeout_callback(r, c)
    \/ \E n \in NS : \/ nameserver_send_probe(n, c) \/ nameserver_read_error(n, c)
                     \/ nameserver_ready_callback(n, c) \/ _evdns_nameserver_add_impl(n, c)
    \/ reply_run_callback(c)
    \/ evdns_base_clear_nameservers_and_suspend(c)
    \/ evdns_base_resume(c)
    \/ \E fail_requests \in BOOLEAN : evdns_base_free(fail_requests, c)
    \/ \E m \in Limits : evdns_base_set_max_requests_inflight(m, c)

Spec == Init /\ [][Next]_vars
-------------------------------------------------------------------------------
Servers == Range(d.ring)

\* Types, and every server that a request, the ring or a probe refers to exists.
TypeOK ==
  /\ Servers \subseteq NS /\ Len(d.ring) = Cardinality(Servers)
  /\ \A r \in Req : /\ d.req[r].ns \in NS \cup {NoNs}
                    /\ d.req[r].id \in Id /\ d.req[r].tx \in 0..MaxTx
                    /\ d.req[r].reissue \in 0..MaxReissues
  /\ \A h \in Handle : d.index[h] \in -1..NumDomains
  /\ asked \subseteq Handle /\ spoke \subseteq NS

\* The counters that limit the requests in flight, promote waiting ones and tell
\* whether any server works agree with the lists they count, whatever order
\* replies, timeouts, probes and cancellations come in.
CountsRight ==
  d.alive =>
    /\ d.nin = Len(d.inflight) /\ d.nwait = Len(d.waiting)
    /\ d.good = Cardinality({n \in Servers : d.ns[n].state = 1})
    /\ \A r \in Req : /\ In(r, d.inflight) <=> d.req[r].ns # NoNs
                      /\ Cardinality({i \in DOMAIN d.inflight : d.inflight[i] = r})
                         + Cardinality({i \in DOMAIN d.waiting : d.waiting[i] = r}) <= 1

\* A request in flight is never forgotten: its timer runs, or it waits to be
\* transmitted and some server's socket is watched for writing.
NoneForgotten ==
  d.alive => \A r \in Range(d.inflight) :
    d.req[r].timer \/ (d.req[r].transmit_me /\ \E n \in Servers : d.ns[n].write_waiting)

\* A server that is down is tested again: a probe is planned or under way, or
\* its outcome is about to be handled.
DownIsProbed ==
  d.alive => \A n \in Servers : d.ns[n].state = 0 =>
    d.ns[n].timer \/ Live(d, n) \/ Pending(d, n)

\* No request is transmitted to a server that does not exist.
NoNullServer == ~d.null

\* What the resolver rests on, whatever order replies, timeouts, probes, errors
\* of the socket, cancellations and suspensions come in.
ResolverConsistent ==
  TypeOK /\ CountsRight /\ NoneForgotten /\ DownIsProbed /\ NoNullServer

\* A user has exactly one callback for a call, also with searches, reissues and
\* late or repeated answers: it is due or was made exactly if nothing is left.  He
\* has none only if evdns_base_free dropped the request without failing it.
\* And a result is an answer to the question that was asked, although ids are
\* used again.
OneCallback ==
  /\ \A h \in asked :
       LET due == Cardinality({i \in DOMAIN d.deferred : d.deferred[i].h = h})
       IN  got[h] + due + (IF Live(d, h) THEN 1 ELSE 0) = IF h \in aborted THEN 0 ELSE 1
  /\ \A i \in DOMAIN d.deferred :
       d.deferred[i].err = "none" => d.deferred[i].answer = d.deferred[i].h

\* dns.h: a server that is down is considered working again if it replies.
UpOnlyWhenItReplies ==
  [][\A n \in NS : d.ns[n].state = 0 /\ d'.ns[n].state = 1 /\ In(n, d.ring)
                     => n \in spoke']_vars
===============================================================================
