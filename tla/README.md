# A TLA+ model of libevent 2.0.21

The repository is a collection of code; its one large system is the event
library `src/codes/libevent-2.0.21-stable`, and this directory is a verification
project for it: modules that model its parts, TLC configurations that check them
on small instances, and proofs that TLAPS checks for every value of the
constants. Paths below are relative to that directory unless they begin with
`src/`.

    tlc -workers 2 -config MinHeap.cfg MCMinHeap      # check one run
    tlapm MinHeapProofs.tla                           # check the proofs

`PROJECT.json` lists the runs, the source lines behind every definition (`map`),
a mutant for every property, the hazards the properties are aimed at, the
findings and the theorems.

## 1. Inventory

### The parts and how they interact

A program creates an *event base*, adds *events* to it (a descriptor is
readable or writable, a signal arrived, a time has come) and calls
`event_base_loop`. The loop asks the *backend* to wait, turns what it reports
into *active* events through the *event map*, moves due timers from the *timer
heap* to the active queues, and calls the callbacks in the order of their
priorities. Callbacks and other threads call back into the base. *Evbuffers*
are queues of bytes; *bufferevents* join two of them to an event for each
direction; the listener, DNS, HTTP and RPC are programs on top of these.

| Part | State | Operations | Interacts with |
|---|---|---|---|
| Timer heap, `minheap-internal.h` | the array `p`, `n`, `a`; `min_heap_idx` in each event | push, pop, erase, top, in-place shift of all times | called by the event base |
| Event base, `event.c` | active queues, event list, timer heap, common timeout queues, counters, break and exit flags, cached time, deferred queue, notification state | `event_add`, `event_del`, `event_active`, `event_base_loop` and what it calls, `loopbreak`, `loopexit`, virtual events, deferred callbacks, priorities | backend, event map, signals; callbacks re-enter it; other threads call it |
| Thread abstraction, `evthread.c` | base lock, `current_event_cond`, the notification pipe | lock, unlock, wait, broadcast, notify | used by everything |
| Event map and changelist, `evmap.c` | per descriptor: list of events, reader and writer counts, index of its change; list of changes | `evmap_io_add`, `evmap_io_del`, `evmap_io_active`, the changelist calls | event base above, backend below |
| epoll backend, `epoll.c` | the epoll set (in the kernel), result array | add, del, dispatch, with and without changelist | kernel; the event map |
| Signals, `signal.c` | the process's handlers, `evsig_base`, counts, saved handlers, socket pair, signal map | add, del, the handler, `evsig_cb`, base free | kernel; the event base |
| Evbuffer, `buffer.c` | chains, `last_with_datap`, `total_len`, counts for callbacks, freeze flags, reference count | add, prepend, drain, move, reserve/commit, pullup, read, write, files, callbacks | the deferred queue of the base; bufferevents |
| Bufferevents, `bufferevent*.c` | two buffers, two events, watermarks, suspension reasons, reference count, pending deferred callbacks; a partner, an underlying one or the state of SSL | enable, disable, read and write callbacks, connect, lookup, flush, handshake, free | evbuffer, event base, DNS, OpenSSL |
| Rate limits, `bufferevent_ratelim.c` | a bucket and a refill timer per bufferevent and per group, members, pending resumption | set, decrement, refill, join, leave, suspend and resume | bufferevents, whose locks other threads may hold |
| Listener, `listener.c` | accept event, reference count, enabled flag | accept loop, enable, disable, free | event base |
| DNS, `evdns.c` | requests in flight and waiting, transaction ids, nameservers up and down, probes; lookups of getaddrinfo; ports with pending responses | resolve, reply, timeout, retransmit, reissue, search, probe, cancel, suspend; respond, drop; format and parse packets | event base, its own lock |
| HTTP, `http.c` | connection and request state machines, request queues, timers, retries | client and server halves | bufferevents, listener, DNS |
| RPC, `evrpc.c`, `event_tagging.c` | pools, contexts, hooks; tag encodings | make request, pause, resume, timeout; marshal | HTTP, evbuffer |
| Other backends | arrays or kernel queues | as epoll | event map |
| Utilities | none shared | sockets, strings, logging, random numbers | all |

### What is hard, and what makes each part correct

* **Timer heap.** Erase moves the last timer into the hole, where it may have to
  go up as well as down, and finds its victim through a back-pointer that every
  sift has to maintain. Correct: the earliest timer is on top, each back-pointer
  is exact, no slot outside the array is touched.
* **Event base.** An event may be on several lists at once; its flags say on
  which. The lock is released in dispatch and in every callback, and then
  callbacks and other threads change anything, including the event whose
  callback runs. The loop sleeps on a time it computed earlier. Correct: lists,
  flags and counters agree; nothing that should wake the loop is lost; a waiting
  thread is released; priorities are respected; deferred callbacks and
  re-activated events cannot starve the poll where the code says they do not.
* **Event map, epoll.** Changes are coalesced and applied later, perhaps to
  another file under the same number, and errors are repaired by guesses.
  Correct: after the pending changes the kernel watches what the events want.
* **Signals.** The handler interrupts any step; several bases share the handler
  and one pointer; adding fails halfway. Correct: a signal sent reaches every
  event for it; handlers are installed while needed and the original ones are
  put back; counts are right.
* **Evbuffer.** The same bytes can lie in chains in many ways, with empty chains
  at the end, immutable ones in between, and a pointer into the list that must
  be moved by every call. Correct: users see a queue of bytes; assertions of the
  code hold; callbacks are told of every change; a buffer lives until its
  deferred callback has run.
* **Other backends.** Arrays are compacted on deletion and grow while copies of
  them are in use; evport and devpoll forget or keep registrations by
  themselves. Correct: every wanted descriptor is in the tables, at the index
  that is remembered, and in the kernel when the loop waits.
* **Bufferevents.** A callback may free or disable, deferred callbacks run after
  the free, and a direction is suspended for several reasons at once. Correct:
  what is pending in the loop is what the state asks for; references are exact;
  the user is told of everything; whatever is suspended for bandwidth is resumed.
* **SSL.** Reading can need writing and the reverse, under renegotiation too.
  Correct: whatever SSL waits for is watched.
* **DNS.** Replies are late, repeated or lost while ids are used again, requests
  are sent to another server or searched on, and servers go down and up.
  Correct: every call is told exactly once, with an answer to its question;
  counters agree with lists; no request and no server is forgotten. A request of
  getaddrinfo ends once although its timer, its lookups and the user compete.
* **HTTP.** A connection closes between any two states; retries, deferred reads
  and users' calls in callbacks come in between. Correct: no assertion fails,
  each request is told once, the connection never stops by itself.
* **Listener, RPC.** Freed, disabled or paused from a callback, a hook or another
  thread. Correct: a listener lives while it is used and is watched while it is
  enabled; a call ends once, by its reply or its own timer.
* **Formats.** Lines, tags, DNS packets, HTTP messages, URIs and addresses are
  read from pieces, and reader and writer are separate code. Correct: what is
  written is what is read.

`PROJECT.json` lists these hazards one by one, each at its line.

## 2. The modules

| Module | Models | Kind |
|---|---|---|
| `TimerQueue` | what the heap promises: a set of due times with a least element | abstract specification |
| `MinHeap` | `minheap-internal.h`, and the first loop of `timeout_correct` of `event.c` | one action per operation and loop iteration |
| `MinHeapProofs` | theorems about `MinHeap` | proofs |
| `EventBase` | the queues and the loop of `event.c`, the lock, the condition and the notification pipe | one action per call and per step of the loop between releases of the lock |
| `Evmap` | I/O half of `evmap.c`, changelist, `epoll.c`; the kernel's table and epoll set (external) | one action per call, and per system event |
| `Evsignal` | `signal.c`, signal half of `evmap.c`; the kernel's delivery (external) | one action per step between which a signal matters |
| `ByteQueue` | what evbuffers promise: queues of bytes | abstract specification |
| `EvbufferChains` | the functions of `buffer.c` on one buffer, or two | operators |
| `Evbuffer` | the calls of `buffer.c`, callbacks, deferred callbacks, references | state machine over those operators |
| `OtherBackends` | `poll.c`, `select.c`, `kqueue.c`, `devpoll.c`, `evport.c`, `win32select.c`; the kernel (external) | one action per call and per third of a dispatch |
| `Evdns` | the resolver of `evdns.c` | one action per handler, under the base's lock |
| `EvdnsGetaddrinfo` | `evdns_getaddrinfo` on top of the resolver | one action per callback |
| `EvdnsServerPort` | server ports of `evdns.c` | one action per call |
| `Bufferevent`, `BevRatelim` | the functions of `bufferevent.c`, `bufferevent_pair.c`, `bufferevent_filter.c`, the events of `bufferevent_sock.c`; `bufferevent_ratelim.c` | operators |
| `BevSocket` | `bufferevent_sock.c`, and all calls of users on sockets, pairs, filters and limits | state machine over those operators |
| `BevOpenssl` | `bufferevent_openssl.c`; OpenSSL (external) | one action per callback and call |
| `Http` | a connection of `http.c`, client or server side | one action per callback and call |
| `Listener` | `listener.c` with an event | one action per section under the lock |
| `Rpc` | the pool and the server of `evrpc.c` | one action per callback and call |
| `EvbufferSearch` | pointers, search, lines, peeking of `buffer.c` | algorithms, on buffers that fill and drain |
| `Tagging` | `event_tagging.c` | algorithms, writer and reader |
| `EvdnsWire` | packets of `evdns.c` | algorithms, client and server |
| `HttpMessage` | framing in `http.c` | algorithms, client and server on one connection |
| `HttpUri`, `EvutilAddr` | URIs, queries and hosts of `http.c`, addresses of `evutil.c` | algorithms on typed texts |
| `ProofFacts` | induction over finite sets and naturals, least elements, lists without repetition | lemmas |
| `EventBaseProofs`, `EvmapProofs`, `EvsignalProofs` | theorems about the module of that name; `EvmapProofs` also about `OtherBackends` | proofs |
| `DnsProofs`, `HttpProofs` | theorems about `Evdns`, `EvdnsGetaddrinfo` and `EvdnsServerPort`, and about `Http`, `Listener` and `Rpc`, as parts of `MCDns` and `MCHttp` | proofs |
| `BevProofs` | theorems about `BevSocket` and what it is built from, as part of `MCStreams` | proofs |
| `MC...` | the instances for TLC; `MCDns`, `MCHttp`, `MCStreams`, `MCEvmap`, `MCFormats` join several modules, one *part* per behaviour | |

`EvdnsGetaddrinfo` uses of the resolver what `Evdns` shows (`OneCallback`), `Rpc`
of a connection what `Http` shows (the first request is answered or failed, each
once), `BevSocket` composes `Bufferevent` with `BevRatelim`, and
`EvbufferSearch` extends `EvbufferChains`.

### MinHeap

`p` is the array (a function on slots 0 .. a-1, `NoEvent` where nothing was
written), `n` the number of timers, `min_heap_idx` the back-pointers. A push, pop
or erase first makes a *hole*; each iteration of `min_heap_shift_up_` or
`min_heap_shift_down_` moves it and is a step, so that the invariant has to say
what holds while there is a hole; `Place` fills it and returns. `timeout_correct`
shifts the times of all timers by the same amount when the clock went backwards.
Its second loop, which shifts the common timeout queues, is not modelled: their
events are in no heap, and a queue shifted as a whole keeps its order.

### EventBase

`b` is a record with everything that `event_queue_insert`, `event_queue_remove`
and their callers change: flags, priorities, due times, the active queues, the
common timeout queues, the counters. Functions of the code that work under the
lock are operators from one such record to the next (`event_add_internal`,
`event_del_internal`, `event_active_nolock`, ...); the API calls are actions that
apply them, decide whether to write to the notification pipe, and set the
flags. `loop.pc` is the position of `event_base_loop`:

    idle    no loop runs
    top     the head of the while loop, up to dispatch
    poll    in dispatch, without the lock
    io      activating what dispatch reported, then timeout_process
    scan    in event_process_active, between two callbacks
    cb      in a callback (drain, ctl: two steps inside internal ones)
    cbret   a callback is about to return
    dcb     in a deferred callback
    looped  the end of an iteration

Other threads act where the lock is free: in `poll`, in callbacks, and when the
loop is idle. A thread that must wait for a running callback
(`EVTHREAD_COND_WAIT` in `event_add`, `event_del`, `event_active`) becomes
`waiting`, is `woken` by the broadcast after the callback, and resumes in a step
of its own once it gets the lock, with what it had decided before.

Abstracted: each event has its own descriptor (several on one: `Evmap`); the
heap is a set (`MinHeap` shows why it may be); ties in the heap are broken
arbitrarily.

### Evmap

`io`, `changes` and `idxplus1` are the structures of the code. `kernel` maps pairs
of an open file and a number to what is watched, as epoll does; `file` says what
each number refers to. The program may close, open and duplicate descriptors in
every order, provided it deletes its events before it closes. The backend
(`evsel`) is chosen at the start, with or without the changelist. `epoll_ctl` is
the kernel's behaviour as the code in `epoll.c` expects it, errors included.

### Evsignal

Adding the first event of a signal takes three steps (direct signals to the
base; install the handler; insert in the map), deleting the last two, and
`evsig_cb` two; a signal may arrive between any two. `owed` is a history
variable: the events for which a signal was sent and no callback has begun.

`slots[b]` is the set of signals for which the map of `b` has an entry, which it
keeps for ever once an event was added. `evmap_signal_active` takes the entry
without looking whether there is one: given a signal that the base never had an
event for, an assertion fails or a null pointer is followed, and the process ends
(`crashed`; nothing happens afterwards). Two bases get there, because the handler writes every
signal to the pair of the base that added one last. `evsig_add` has two
error paths: the handler could not be set, which changes nothing, and the event
of the pair could not be added, which leaves the handler where it is (`left`).

### Evbuffer

A chain is a block with unused bytes in front, data, and room; `lwd` is the
position of `*last_with_datap` in the list. Each function of `buffer.c` is an
operator from a buffer to a buffer with the code's cases, and sets `ok` to FALSE
where the code would fail an `EVUTIL_ASSERT` or follow a null pointer. Bytes are
numbered as they are added, so `IsByteQueue` sees every reordering. Calls hold
the buffer's lock throughout and are one step; a deferred callback is two.

### Evdns, EvdnsGetaddrinfo, EvdnsServerPort

`d` is the base: requests by handle, the lists in flight and waiting, the ring of
servers, the deferred callbacks, the counters. A handler is an operator from one
`d` to the next; its parameter `c` says at which id the search for a free one
begins and to which server `sendto` fails or would block. A reply may come for
every request at any time, any number of times, from every server, to the
question that was asked or to another one; it is dropped as the code drops it.
Timers that are pending may expire at any time. `null` records that the code
would use a server that does not exist. `evdns_base_free` may be told not to fail
what is left; the requests it then drops are in `aborted`. A name may be too long
once the next domain is appended to it (`"toolong"`), which ends the search, and a
limit of requests in flight below one is taken as one.

In `EvdnsGetaddrinfo`, `data = "null"` says that the code followed the handle of a
lookup that was not started, for the canonical name; everything ends there.

A server port handles its socket in one call, `server_port_ready_callback`: the
responses that wait are sent, then messages are read, each with a callback of the
user. `port.reading` says where that call is. The user may respond, drop and close
in his callback, or when no call is under way. Any of these can free the port while
a call goes on to use it; `port.used` records that it did. Everything is done by one
thread: another one that closes the port, or drops a request, while a ready
callback waits for the lock (`evdns.c:2084`) is not modelled.

### Bufferevents

The world `w` has all bufferevents, the group and, as ghosts, `news` (data that
the user has not been told of) and `falseEof`. Bytes are counted. The members of
a group whose lock another thread holds are a parameter of each step. Ticks are
counted from the last update of a bucket. `kept` counts the references of each that
`be_pair_flush` took and never gives back. Users may connect at any time, but one
lookup of a name is under way at a time. `FlushAlone` and `SetfdConnecting` let
users make two calls that the code does not stand, to flush the half of a pair whose
partner was freed and to set the descriptor while a connection is being made; the
runs do not have them, the table of disagreements says what they do. In `BevOpenssl`
the initial state is what `bufferevent_openssl_new_impl` leaves for each state
of the handshake, and `SslMay` stands for the two of its uses that wait for ever. There one call of OpenSSL in
each step may be blocked on the other direction or fail; all others do what the
data at hand allows.

### Http, Listener, Rpc

A handler of `http.c` is an operator on the connection `s`. Where a callback is the
last thing it does, what users do in it are the actions that follow; chunk
callbacks are inside. `evhttp_connection_cb_cleanup` calls its users in the middle of
its loop over the requests: it takes them off the connection (`life = "ended"`), and
each callback and its return is a step (`cleanup_tells`, `cleanup_told`) with any calls of
the user between the two, making, canceling and freeing included. The peer sends its
messages in pieces, two of them perhaps in one read, or ends the connection between
any two. `bad` names a failed assertion, an event that is assigned while it is
pending, a null connection, or a list that the code takes for another. `HMay` names
what else peers and users may do, that the code does not stand; it is empty in the
run, and the table of disagreements has each of its members.

Left out: `evhttp_connection_set_closecb`; where an attempt to connect fails at once
(`HFaults`), the callback comes inside `evhttp_connection_connect`, and what users do
in that one is not modelled. With two requests the run does not cancel one that the
cleanup has yet to tell of and that is not the last of its list, which takes three
of them; the theorems have any number. To cancel a request after its connection was
freed, or after its user was told of its end, is a use of memory that was freed, and no user
does it. In `Listener` the other thread is a second process, and `event_del` waits
with the lock held, as the code does.

### The formats

Each module has a writer and a reader. Bytes, tokens or characters arrive one by
one, and the property compares, at every step, what was read so far with what
was written. `EvbufferSearch` walks from chain to chain as the code does, and
compares with the same question asked of the contents as one sequence.

`name_parse` takes a label before it looks whether the packet has it: what it takes
from behind the packet is `Outside` and is counted (`outside`); the next round, or
the caller, then refuses the name, so that no such label reaches a user
(`PacketsUnderstood`). `dnsname_to_labels` writes the final zero without looking
for room, which `ReplyBuilt` records (`past`). A client reads the names in replies
into `HOST_NAME_MAX` bytes.

## 3. What the runs check

Passing runs:

| Run | Configuration | Shows |
|---|---|---|
| `min_heap` | 6 timers, 2 times, first allocation 2 | the earliest timer is on top between calls (`TopIsEarliest`), back-pointers are exact (`BackPointersExact`), and the array with its sifts implements `TimerQueue` (`ImplementsTimerQueue`) |
| `base_safety` | five uses of a base (below) | lists, flags and counters agree at every release of the lock (`QueuesConsistent`); when the loop sleeps past something it should see, a byte is in the pipe (`NoLostWakeup`); a non-empty common timeout queue has its timer pending or active (`CommonQueueScheduled`); no less important event is taken while a more important one is active (`PriorityRespected`) |
| `base_liveness` | two uses, fair scheduling | threads that wait for a callback go on (`WaitersReleased`), a broken loop returns (`BreakStops`), the most important active event is served (`ActiveServed`), deferred callbacks that schedule each other let the loop poll (`DeferredYields`) |
| `evmap` | 4 events, 2 descriptors, 3 files, both variants of epoll; 3 descriptors with each of six other backends | map and changelist index each other and count right (`MapConsistent`); the kernel's set, once the pending changes are applied, is what the events want (`KernelMatches`); the same for the other backends and their tables (`BackendRight`) |
| `signals` | 2 bases, 3 events, 2 signals | handlers are installed while needed and then put back, unless adding the event of the pair failed, and counts are right, in two bases (`HandlersRight`); as long as the process lasts a signal sent is not lost (`SignalNotLost`) and, under fairness, it is served, unless a base is given a signal it has no entry for (`SignalServed`) |
| `evbuffer` | seven kinds of programs on one buffer and on two | `IsByteQueue` (refinement of `ByteQueue`, and frozen ends stay), `ToldOfChanges`, `ChainsConsistent` (assertions, the pointer to the last chain with data, lengths, reserved space, references) |
| `dns` | resolver: 2 calls, 2 servers; getaddrinfo: 2 lookups; port: 3 requests | counters, lists, timers and probes agree and no null server is used (`ResolverConsistent`); one callback per call, with an answer to its question (`OneCallback`); `GaiToldOnce`; a port counts its requests and is freed with the last, and no call uses it afterwards unless its owner has closed it (`PortCounted`); and, under fairness, requests of getaddrinfo and pending responses end (`DnsEnds`) |
| `http` | a connection with 2 requests on either side; a listener with 2 connections; a pool with 3 calls on 2 connections; a server with 2 calls | no assertion fails (`HttpAsserts`), requests are told once and stay as long as somebody has them, whatever is done in the callbacks of a cleanup (`HttpAccounted`), `HttpProceeds` (reading, writing, a timer or a callback is always due when a request is not done, and nothing received lies unread), `ListenerKept`, `RpcAccounted`, and under fairness `RequestsEnd` |
| `streams` | 19 uses of a socket, a pair, a filter, a limited socket and a group of two; SSL on a socket and on a bufferevent | `Watched`, `Resumed`, `RefsRight`, `Told`, `SslProceeds` |
| `formats` | five formats | `LinesRight`, `PacketsUnderstood` (tags and DNS packets, garbage included), `FramingAgrees`, `TextsKept` |

Runs in which the code and what it says of itself disagree (each a finding in
`PROJECT.json`):

| Run | Shows |
|---|---|
| `del_wait` | `event_del` in another thread waits for the running callback once. If the event was activated again meanwhile, the loop can have started the callback anew when the thread gets the lock, and `event_del` returns while it runs; the comment says that the argument may be freed then. |
| `evbuffer_assert` | Two reads that get nothing leave two empty chains; an `evbuffer_add` that overflows the last one fails the assertion in `evbuffer_chain_insert`. The same sequence aborts the compiled library. |

The passing evbuffer programs do not mix `evbuffer_add` with
`evbuffer_read`/`evbuffer_reserve_space`/`evbuffer_expand` on one buffer, nor
`evbuffer_add_reference` with `evbuffer_remove_buffer`, nor have callbacks on a
buffer they prepend to: those mixtures are the findings above, and `AssertsHold`,
`IsByteQueue` or `ToldOfChanges` fails there.

### Disagreements without a run of their own

Each of these is stated as a definition, or is a checked property under other
constants; TLC finds it violated when the named configuration is changed as the
table says (and checks that definition alone). The passing configurations
exclude the sequence of calls that leads there, which is what the constants
named "careful", `HMay`, `SslMay`, `FlushAlone`, `SetfdConnecting` and the sets of
faults are for.

| Property | Configuration | What happens |
|---|---|---|
| `PncallsMeansRunning` (`EventBase`) | `EventBaseSafety.cfg`: `UserEvent = {sg}`, `Persist = {}`, `LoopExit = {}`, `CommonQueue = {}`, `NPrio = 1`, `Uses <- OneSignal` | a signal event deleted in its own callback with calls left keeps `ev_pncalls`, a pointer to a local variable of a function that has returned; the comment in `event_del_internal` takes it to mean "we are just active executing this event in a loop" |
| `PriorityRespected` (`EventBase`) | `EventBaseSafety.cfg`: `UserEvent = {sg, tm, pt}`, `InitPri <- SgFirst`, `LoopExit = {}`, `CommonQueue = {}`, `Uses <- Activating` | `event_active` on a signal whose callback runs in another thread sets `event_continue` and then waits for the callback; when it goes on, during a later callback, it queues the event and does not set the flag again, so the loop runs what is left of a less important queue first. `include/event2/event.h:1097`: "always processed before events with a higher priority". Met while proving `PriorityRespectedHolds`, whose hypothesis excludes it |
| `EdgeTriggered` (`Evmap`) | `Evmap.cfg`: `Event = {r1, rw}`, `EvEvents <- EdgeKinds`, `Parts = {"epoll"}` | when one of two edge-triggered events of a descriptor is deleted, the `EPOLL_CTL_MOD` for the other has no `EPOLLET` |
| `DelSucceeds` (`OtherBackends`) | `Evmap.cfg`: `Parts = {"other"}`, `DuringReturn = TRUE` | with evport, `event_del` of an event that was reported but not yet handled fails |
| `OriginalRestored` (`Evsignal`) | `Evsignal.cfg`: `EvBase <- Shared`, `Event = {e1, e2}` | two bases with the same signal, deleted in the order they were added: libevent's own handler is put back and stays |
| `OriginalRestored` (`Evsignal`) | `Evsignal.cfg` as it is | when the event of the pair cannot be added, `evsig_add` fails after it has set the handler, and leaves it: the signal is then written to the pair and nobody is told |
| `NoNullSlot` (`Evsignal`) | `Evsignal.cfg` as it is (two bases) | the handler writes a signal of one base to the pair of the other, the one that added a signal last, which may never have had an event for it: `evmap_signal_active` fails an assertion or follows a null pointer (`evmap.c:472-476`). `evsig_set_base` only warns that one base will get the signals. Holds with one base (`NoNullSlotHolds`) |
| `ToldOfChanges` (`Evbuffer`) | `Evbuffer.cfg`: `Uses <- PrependTold` | `evbuffer_prepend` into a new chain counts the wrong field: the callback is told of too few bytes, or not called |
| `PeekCounts` (`EvbufferSearch`) | `Formats.cfg`: `Parts = {"lines"}` | `evbuffer_peek` with a start and a negative length counts too few extents; `include/event2/buffer.h` promises the number "needed to get all the data in the buffer" |
| `ReadsInside` (`EvdnsWire`) | `Formats.cfg`: `Parts = {"dns"}` | `name_parse` copies up to 63 bytes of a label from behind the packet before it notices (`evdns.c:975-978`) |
| `WritesInside` (`EvdnsWire`) | `Formats.cfg`: `Parts = {"dns"}`, `MaxLabels = 1`, `BufLen = 51` | `dnsname_to_labels` writes the final zero of a name without looking (`evdns.c:1637`), which may be one byte behind the buffer of the reply |
| `DocumentedTag` (`Tagging`) | `Formats.cfg`: `Parts = {"tags"}` | tags are written low bits first, the comment in `event_tagging.c` says high bits first |
| `FramingAgrees` (`HttpMessage`) | `Formats.cfg`: `Parts = {"http"}`, `HttpCareful = FALSE` | a body given to a reply to HEAD or to a 204 is sent and read as the next reply; a reply streamed to an HTTP/1.0 client that keeps the connection says its length is 0; a PATCH does not say its length |
| `WellFormed` (`HttpUri`) | `Formats.cfg`: `Parts = {"texts"}` | `evutil_parse_sockaddr_port` takes texts with something after the bracket or the port, and `evutil_inet_pton` a final colon; `include/event2/util.h` says -1 "if the address is not well-formed" |
| `UpOnlyWhenItReplies` (`Evdns`) | `Dns.cfg`: `Parts = {"resolver"}`, `Careful = FALSE` | a probe that is retransmitted to another server and answered by it marks the first one as up; `include/event2/dns.h` says "if it replies" |
| `PortNotUsed` (`EvdnsServerPort`) | `Dns.cfg`: `Parts = {"port"}` | a port that was closed is freed by its last request and used once more: `evdns_server_request_respond` unlocks it (`evdns.c:2008-2018`), `server_port_ready_callback` goes on to read from it after the flush (1497-1504), `server_port_read` after the user's callback. `PortCounted` says that this happens to closed ports only |
| `GaiNoNull` (`EvdnsGetaddrinfo`) | `Dns.cfg`: `Parts = {"gai"}` | with `AI_CANONNAME`, a lookup that could not be started (a name that is too long) is followed as a null pointer (`evdns.c:4612-4614`) |
| `WaitsAfterAgain` (`EvdnsServerPort`) | `Dns.cfg`: `Parts = {"port"}` | a response for which `sendto` would block is not put on the list that `evdns.c` describes for this case, one that fails for good is |
| `ThreadsGoOn` (`Listener`) | `Http.cfg`: `Parts = {"listener"}`, `LThread = {"disable", "free"}` | disabling or freeing from another thread waits for the callback with the lock that the callback's thread needs next, although `LEV_OPT_THREADSAFE` is "safe to use" from several threads |
| `HttpProceeds` (`Http`) | `Http.cfg`: `Parts = {"http"}`, `HFaults = {"at_once"}` or `{"bind"}` | `evhttp_connection_connect` sets the state to `EVCON_CONNECTING` after the cleanup of an attempt that failed at once has already failed the last request: later requests are queued and nothing connects. When `bind_socket` fails in a retry, the requests stay on a connection that does nothing. `HttpAsserts` and `HttpAccounted` hold in both |
| `HttpAsserts` (`Http`) | `Http.cfg`: `Parts = {"http"}`, `HMay` with one member: | (`HttpAccounted` holds with each of them) |
| | `{"unasked"}` | data that comes when nothing is asked resets an idle connection, which stays marked as watched for its end (`http.c:1072`); when the next attempt to connect fails, the assertion at 1369 does |
| | `{"late"}` | a connect that took too long leaves its event pending and can succeed while the retry timer runs; the timer then connects anew (`RetryWhileConnecting` fails too) |
| | `{"again"}` | it takes too long a second time before it is retried, and the retry timer is assigned while it is pending |
| | `{"cancel_retry"}` | the only request is canceled while the retry timer is pending: it connects with an empty queue, which the assertion at 704 forbids |
| | `{"cancel_read"}` | the first request is canceled while a deferred read is due, which then finds a state it does not expect |
| | `{"cancel_ended"}` | a callback of the cleanup cancels the last of the requests that it has yet to tell of: `http.c:2306` takes it off the connection's list, which it is not on, and that list's end is then in the other |
| | `{"start_gone"}` | a reply is started when its connection is gone: `evhttp_send_reply_start` follows the null pointer (2456-2457), `evhttp_send` looks first |
| `HttpProceeds`, `RequestsEnd` (`Http`) | the same, with `"unasked"`, `"late"`, `"again"` or `"cancel_retry"` | what is left after the assertion, in a build without assertions, does nothing any more |
| `Told` (`BevSocket`) | `Streams.cfg`: `Parts = {"filter"}`, `NullFilter = TRUE` | `be_null_filter` returns the opposite of what its caller tests |
| `RefsRight` (`BevSocket`) | `Streams.cfg`: `Parts = {"pair"}`, `FlushModes = {"normal"}` | `be_pair_flush` with `BEV_NORMAL` keeps a reference of each half and the lock |
| `RefsRight` (`BevSocket`) | `Streams.cfg`: `Parts = {"pair"}`, `FlushAlone = TRUE` | with no partner left, `be_pair_flush` returns with its reference and the lock in every mode (`bufferevent_pair.c:287-289`): the bufferevent is never freed, and other threads wait for its lock for ever. `RefsCounted` holds: nothing is freed too early |
| `Watched` (`BevSocket`) | `Streams.cfg`: `Parts = {"socket"}`, `SetfdConnecting = TRUE` | `bufferevent_setfd` during a connect leaves `connecting` set without its event (`bufferevent_sock.c:620-638`): the first writable event, if one is added at all, is taken for the end of the connect. `Resumed`, `RefsRight` and `Told` hold |
| `RefsRight` (`BevSocket`) | `Streams.cfg`: `Parts = {"filter"}`, with `"free_both"` in the use of a filter that is `"locked"` and closes | the user frees the bufferevent under a filter with `BEV_OPT_CLOSE_ON_FREE` while its deferred callbacks are queued, and then the filter: `be_filter_destruct` only looks whether there are two references, gives back the queue's for the user's, and the bufferevent is freed while the queue still has to call it. Met while proving `RefsRightHolds` |
| `TimersWhileTrying` (`BevSocket`) | `Streams.cfg`: `Parts = {"pair"}` | a transfer of a pair restarts the read timer after it has suspended reading |
| `FilterKeepsUp` (`BevSocket`) | `Streams.cfg`: `Parts = {"filter"}` | input under a filter stays there after the filter's reader made room, until more comes |
| `SslProceeds` (`BevOpenssl`) | `Streams.cfg`: `Parts = {"ssl"}`, `SslMay = {"suspended"}` | `bufferevent_ssl_renegotiate` over a bufferevent whose reading is suspended starts a handshake (1092-1104) and does not resume it: the answer is never read |
| `SslProceeds` (`BevOpenssl`) | `Streams.cfg`: `Parts = {"ssl"}`, `SslMay = {"open_socket"}` | a socket in state `BUFFEREVENT_SSL_OPEN` is enabled for both directions, and only `ev_write` is added (1361-1367): it reads nothing until reading is enabled once more. Violated in the initial state |
| `NoBusyLoop`, `SslKeepsUp` (`BevOpenssl`) | `Streams.cfg`: `Parts = {"ssl"}` | loops that wait for the underlying bufferevent spin (a comment in the code says so); decrypted data waits inside SSL |

Met while reading, without a property:

* `event_add` with a NULL timeout on an event that has one keeps the old
  timeout; `include/event2/event.h:928` says it removes it.
* `evbuffer_add_file` with mmap and an offset drains the offset from the front
  of the buffer, not of the file's chain, when the buffer was not empty.
* `evbuffer_remove_buffer` runs the callbacks of the destination while the
  source still has the bytes that were copied.
* Programs that reserve space, add, and read put bytes out of order ("BBBB"
  before "AAAA" in a test with the compiled library), since `evbuffer_add` writes at the last
  chain and the others at the last one with data.
* `evdns_close_server_port` returns with the lock when references remain, and so
  does an accept error in a listener without an error callback.
* A trailing `*` in the pattern of a virtual host never matches.
* `evrpc_make_request` starts the timer before `evhttp_make_request` and leaves
  it when that fails.

### Bounds, and why they are enough

* **MinHeap.** An erased timer is replaced by one from the other subtree, which
  must go up, only from six slots on. Two due times give every outcome of a
  comparison, with ties. A first allocation of 2 makes the array grow twice.
  Timers are interchangeable (symmetry). The theorems have no bound.
* **EventBase.** `Uses` is a set of programs; each behaviour follows one of them:
  I/O and a timer from two threads (clock up to 2); a common timeout queue and
  an I/O event from two threads (clock up to 3, so that a persistent timer is
  re-armed and falls due again); priorities and deferred callbacks, and virtual events,
  loop flags and exits, from one thread; a signal with up to two calls per
  activation from two threads. Two threads suffice for every pairwise race with
  the loop; three priorities give a middle one that is interrupted;
  `MAX_DEFERRED` 1 (16 in the code) makes the limit bite.
* **Evmap.** On one descriptor two readers and an event for both directions, so
  counters reach the limit `MaxCount` 2 (65535 in the code) and the add that is
  refused happens; a second descriptor so that changes are swapped in the list
  and descriptors are duplicated; three files, one of which epoll refuses.
* **OtherBackends.** Three descriptors make the deletion of one from the middle
  move the last; a first size of 1 makes arrays grow twice. kqueue's changes are
  in the order of descriptors, without the entries that were cancelled; its array
  is doubled at most once for each descriptor, as `kq_build_changes_list` does.
* **Evsignal.** One signal with two events and one with one; the bases watch
  different signals. A pair of one byte is full after one signal. In one of
  the bases (`Failing`) setting a handler and adding the event of the pair may fail.
* **Evbuffer.** Blocks of 3, 6, 12 bytes with a header of 1, so three or four
  chains of different room come from at most six bytes; `NUM_READ_IOVEC` 2 (4 in
  the code) makes reads spread over two chains; `MaxPending` 3 bounds the
  changes that a deferred callback has not yet reported. The two buffers are
  interchangeable.
* **Evdns.** Two calls, of which one is searched on in one domain, with probes of
  two servers, compete for two places in flight, then for one; four ids make
  them be used again. One retransmission, one reissue and a server that is down
  after one timeout make every branch happen. `MaxEvents` 2 bounds socket
  errors, probes and the calls after the first.
* **Http.** Two requests, so that one is queued behind the other, or pipelined;
  six pieces are a message with a body and the beginning of the next;
  one retry; two errors, so that an error meets the recovery from another.
  `HFaults` and `HMay` are empty.
* **Listener, Rpc.** Two connections in one accept loop; three calls on two
  connections, so that one waits.
* **Streams.** Each use names the calls a program makes, so that options meet
  every order of a few calls instead of all; two bytes; marks 1 and 2; buckets
  between -2 and 2 and two configurations, so that a bucket is overdrawn and is
  above its new maximum. Members of the group are interchangeable. SSL: records
  of two bytes, at most two on their way. `SslMay` is empty, `FlushAlone` and
  `SetfdConnecting` are FALSE.
* **Formats.** Four bytes with every spread over chains of 1 to 3 bytes; two
  tagged values of four kinds with tags of 1, 2 and 5 bytes; replies of up to
  three of eight records, with a table of 4 labels and a limit of 70 bytes that
  is exceeded; names in replies of up to `HOST_NAME_MAX` 5 bytes (64 on Linux; a
  longer one makes the whole reply an error), which some exceed; two requests of three methods with bodies of up to 2 bytes;
  texts of up to three characters after each of several beginnings.

Every configuration but `Evmap.cfg` has `CHECK_DEADLOCK FALSE`: a program may
stop calling, the clock of the model stops at its bound, and finite buffers fill.

### Fairness

* `base_liveness`: weak fairness of the loop's own steps and of the return of
  callbacks (a thread that runs keeps running, callbacks end); weak fairness of a
  poll whose time is over or whose notification pipe is readable; strong fairness of the resumption of a woken
  thread (the lock is released again and again, and a lock that is not unfair
  gives it to a waiter sometime). Nothing is assumed of the calls that programs
  make: they may happen at any time or never.
* `dns`: weak fairness of lookups that end (`Evdns` has a timer for each) and of
  their callbacks, and that calls on the port's socket return; strong fairness of a
  full socket becoming writable, since another call may be under way when it does.
  Nothing is assumed of the timer of getaddrinfo, the user or the port's clients.
* `http`: weak fairness of what the loop does without the peer: writing, timers,
  deferred callbacks, giving up waiting; for RPC, that HTTP answers or fails a
  request and that a paused call is resumed. The peer and users owe nothing.
* `signals`: weak fairness of the steps under a lock and of `evsig_cb`, which the
  loop calls when the pair is readable; strong fairness of the activation and of
  callbacks, which other threads can delay by taking the lock, but not for ever.
  Deleting, adding and signalling carry no fairness.

`ActiveServed` is stated only for events of the most important priority, whose
queue is first in, first out. Less important ones can starve, and the code does
not promise otherwise: events that re-activate themselves keep the loop in their
queue.

## 4. What is proved

### The timer heap

`MinHeapProofs` proves, for every set of events, every set of integer times and
every initial capacity, from the assumptions named in `MinHeap`:

* `HeapTypeCorrect`: no sift reads or writes outside the allocated slots;
* `HeapTopCorrect`: between calls the event on top is due first;
* `HeapBackPointers`: each event knows exactly the slot it is in;
* `HeapRefinesTimerQueue`: `MinHeap` implements `TimerQueue`.

None of these is inductive by itself. The invariant `IInv` is the conjunction of

* `TypeOK`;
* `SlotsOK`: every slot below `n` but the hole holds an event whose back-pointer
  is that slot, and which is neither the one being placed nor the one leaving;
* `MembersOK`: an event with a back-pointer is in the slot it names, or is being
  placed or leaving;
* `CallOK`: what the call under way says of the hole, of the event being placed
  and of the one leaving;
* `HeapOrder`: every slot is due no earlier than its parent, where neither is the
  hole;
* `HoleOrder`: the children of the hole are due no earlier than its parent, and
  the event being placed is in order on the side the sift comes from. This is
  what makes every step of a sift keep `HeapOrder`; without it the invariant
  says nothing about the slot that is about to be filled.

There is one lemma per action and conjunct it can disturb; the arithmetic of
parents and children (`(i - 1) \div 2`) is in lemmas of its own, and the last
step from order between parent and child to order with the root is by a descent
over slot numbers. The refinement maps the set of timers to the abstract one and
the steps of a sift to stuttering.

### The event loop

`EventBaseProofs` proves, for any events, threads, common timeout queues,
deferred callbacks, number of priorities and programs (`Uses`), from
`BaseAssumption`:

* `QueuesConsistentHolds`: every list holds exactly the events whose flags,
  priority and timeout name it, once, and both counters are right;
* `CommonQueueScheduledHolds`: a common timeout queue is in order, and its timer
  is due no later than its first event;
* `NoLostWakeupHolds`: dispatch never sleeps over work another thread gave it;
* `PriorityRespectedHolds` (an action property): the loop never starts a callback
  while a more important event is active. Hypothesis `NoSignalActivated`: no
  program calls `event_active` on a signal event. Without it the property is
  false (see the table of disagreements); the signals the system delivers go
  through `evmap_signal_active` in the loop and are covered.

The first three are one induction, over `Inv`:

* `TypeOK`, and the deferred queue has no repetition;
* `Sound(b, Handled)`: lists, flags and counters agree (`GoodLists`); which
  kinds of events may have which flags (`KindsInv`); no due time lies further
  away than the clock's bound (`DueInv`); and every common queue is in order and
  covered by its timer, except the one whose timer has fired and is being handled.
  The exception is what makes it inductive: between `event_process_active` taking
  the timer off its list and `common_timeout_callback` scheduling it anew, the
  queue has no timer, and other threads may add to it and delete from it;
* `LoopInv`: what each position of the loop says of `current_event`, the queue
  being scanned and the running thread;
* `NotifyInv`: `is_notify_pending` and the bytes in the pipe, at each half of
  `evthread_notify_drain`;
* `WaitInv`: what a thread that waits in `event_add`, `event_del` or
  `event_active` has decided;
* `RestInv`: while the loop sleeps with no byte to wake it, nothing is active or
  deferred, and nothing in the heap is due before the sleep ends. `NoLostWakeup`
  needs it of flags and due times, where it is stated, not of the counters.

Functions of the code under the lock are operators on one record, so there is a
lemma for each of them about what it keeps of `Sound` and which fields it leaves
alone; the actions are then composed from these. For priorities, `PriorityInv`
says that no active event is more important than the queue being scanned unless
`event_continue` is set, and `NoneActivates` that no thread waits in
`event_active`.

### Event map, changelist and signals

`EvmapProofs` proves `MapConsistentHolds` (the counters and lists of each
descriptor are those of the inserted events, each changelist entry is the one its
descriptor names) and `KernelMatchesHolds` (what epoll watches is what the
events want, once the changelist is applied), for any events, descriptors and
files, from `EvmapAssumption`. The invariant `MapInv` adds: `inserted` is finite;
`FilesInv`, which descriptors can have events and when two share a file;
`KeysRight`, every registration in the kernel is of a descriptor that still names
its file; and `PendingInv`: the entry of a descriptor, applied to what it
remembers of the kernel (`old`), gives what the events want, and the kernel still
watches `old`, or the file was closed and nothing is left. That last case is a
descriptor closed and opened again between two dispatches. Applying the
changelist is an induction over its length.

`EvsignalProofs` proves

* `SignalNotLostHolds`: a signal that was sent is in the socket pair, or read, or
  its events are active, as long as the process lasts: with several bases it may
  end because one is given a signal it has no entry for, and nothing is claimed of
  what comes after;
* `NoNullSlotHolds`: that does not happen when all signal events are in one base
  (hypothesis `OneBaseOnly`);
* `HandlersRightHolds`: the counts of signals, and the handler of each: libevent's
  while some event wants it, the original afterwards, unless the error path of
  `evsig_add` left it. Hypothesis `OneHome`, that all events of a signal are in one
  base: with two, `OriginalRestored` fails (table above).

The invariants are `SigInv` (lists, counts with the call under way, saved handlers),
with `OneHome` `HandlerInv` (what was saved is the original), and with
`OneBaseOnly` `SlotInv`: every signal that has libevent's handler, is in the pair or
was read has an entry.

### The other backends

The last part of `EvmapProofs` proves `BackendRightHolds`, of the specification
that the run checks (`MCEvmap`): whatever is added, deleted, closed and opened
again, in whichever third of a dispatch, poll's and Windows' arrays and their
indexes are of what is wanted, the sets of select are what is wanted, what
devpoll and kqueue have queued leads to it, what evport's kernel forgot is pending,
and no array is shorter than what is written to it. It holds for any number of
descriptors and any sizes of arrays from `BackendsAssumption` (`MaxFd` and `GetN`
are naturals, `Room` is not zero, and the names are those of the six backends), with
deletions between the return of `port_getn` and the lock too. A deletion that failed
ends it, as it ends the run; with evport there is one (`DelSucceeds`, table above).

The inductive invariant `BackendInv` has a part for each backend, and adds to the
property: for poll and Windows, that every entry is the one its descriptor's index
names, so that the last one may take the place of any; for select and the copies,
that a copy may be shorter than its array only while `resize` asks for a new one; for
kqueue, that closed descriptors have neither registrations nor changes that bring one
back; for devpoll, the types that the queue needs; and for evport, at which third of a
dispatch a forgotten descriptor may be pending or just reported. There is one lemma
per backend and call, then one per action. That devpoll's queue of changes gives what
is wanted, and that closing a descriptor that nobody wants does not disturb it, are
inductions over its length (`WrittenAppend`, `WrittenWithout`), and that doubling a
size suffices is one too (`DoubledFacts`); kqueue doubles its array once for each
descriptor with changes, which is at most two, and never writes past it (`ChangesFit`):
loops are recursive functions, which exist
by `LoopExists`.

### DNS requests and ports, listeners and RPC

* `GaiToldOnceHolds`: `evdns_getaddrinfo` tells its user once, however answers,
  the timeout and `evdns_getaddrinfo_cancel` interleave, and frees the request
  after its last lookup, unless it follows the handle of a lookup that was not
  started (`GaiNoNull`), which ends everything. The invariant `GaiInv` has a part for each stage of a
  request.
* `PortCountedHolds`: for any set of requests, a server port's count is the number
  of its requests and of its owner; it is freed with the last of them, and a call
  that uses it afterwards does so because the owner closed it before, with requests
  left, or in the callback of that call. That the code does use it is the row
  `PortNotUsed` above. `PortInv` also says what the list of pending replies and the
  port's events are, and where the call on its socket is.
* `ListenerKeptHolds`: for any connections, with another thread making any of the
  calls. Hypothesis: the program does not clear the callback of a listener that it
  keeps (`"no_callback"`), after which `listener_read_cb` forgets the descriptor
  it accepted.
* `RpcAccountedHolds`: for any calls and connections. Hypotheses: a request paused
  by an output hook is resumed on an idle connection (`RpcCareful`: the code sends
  it on the connection chosen before the pause), output hooks do not end calls and
  `evhttp_make_request` does not fail (on both paths the call is freed, but the
  connection is not given the next one, and on the second its timer stays), and a method is not unregistered under
  a request. The pool's invariant is `PoolInvOf(p, n)`, with `n` connections
  accounted for by the step under way; that no call waits while a connection idles
  compares the number of idle connections with that of paused calls.

The four are theorems about `MCDns` and `MCHttp`, the modules of the runs, whose
other parts leave these variables alone.

### Callbacks of the resolver

`DnsProofs` proves `OneCallbackHolds`: a user of `evdns_base_resolve_*` has exactly
one callback for a call (none if the base is freed without failing its requests), and a result answers the question that was asked, for any
number of calls, servers, domains, retransmissions and reissues, for any ids, which
are used again, and whatever order replies, timeouts, probes, errors of the socket,
cancellations, suspensions and the freeing of the base come in. Assumptions are
`DnsAssumption` (calls and servers are told apart, and there are finitely many
servers) and, as a hypothesis, `Careful`: the application neither resumes, cancels
nor frees in a state where the code would use a server that is not there.

The property is not inductive: it counts the callbacks that were made and are due,
and asks only whether a request is left. The invariant `DnsInv` counts the requests
in the lists as well (`Tot`): the callbacks made, those due and the requests of a
call are one together, or none if it was not made. It adds `Well` (a call has at
most one request, which has a server and may have a timer only while in flight, and
what is due with success answers its own question), which says that a request that
times out, is answered or cancelled is in the list that the code takes it from;
and `Dry`, what a base without servers looks like after a suspension: nothing is in
flight, and no probe is due, since `evdns_base_clear_nameservers_and_suspend` would
otherwise leave callbacks of probes that use freed servers.

Handlers call each other deeply (a reply marks a server as up, which cancels its
probe, which takes a request off its list, which sends waiting ones, whose sending
fails and moves others), so there is one lemma per function of the code, in one of
two forms: `Quiet`, the lists are as they were, and `Goes`, there is as much of
every call as before and what is in flight stays so but for the request handled.
Loops over a list are folds; the states between its members are a function
(`EachExists`), and what each step keeps is kept by induction on its length.
`evdns_base_free` fails requests while it takes them from lists that others enter;
`Going` says that through all of it no call is lost.

### Connections of HTTP

`HttpProofs` proves, for any number of requests, retries, errors, pieces and
bytes, on either side of a connection:

* `HttpAssertsHold`: no assertion of `http.c` fails, no pending timer is assigned
  anew, no request is written as a response, and none is taken off a list that it
  is not on;
* `HttpAccountedHolds`: a request is on its connection, with its user or freed,
  and its user is told of the end of it at most once, and exactly once unless he
  canceled it or freed the connection; and a request that a server's user has is
  not freed before he has answered it. The callbacks that a cleanup makes in its loop,
  and whatever users do in them, are part of it;
* `HttpProceedsHolds`: a connection that has requests waits for something that is
  pending, and leaves nothing unread that it could read.

Hypotheses, which are those of the run: attempts to connect begin (`HFaults = {}`),
without which `HttpProceeds` is false, and `HMay = {}`: peers send nothing unasked,
no attempt to connect succeeds after it was given up, users do not cancel the first
request in the three situations and start no reply without a connection that the
table above lists. With any one of them `HttpAsserts` is false. The invariant `HttpInv` is a
conjunction: `ReqsOk`, who has each request and what its user has been told;
`KindsOk`, that only the request whose response is read has been written; and, for
each side, which events, timers and callbacks go with each state (`OutgoingOk`,
`IncomingOk`). None of the three properties is inductive without the last: whether
the next event finds a request that it may fail or finish depends on what was
enabled in states before. A handler calls other handlers before it returns, and the
invariant does not hold in between; what does has a name for each stage
(`OutReady` and `OutMid` for connections to a server, `InMid`, `InOne` and `InNone`
for those from a client, `ReadMid` for both while a message is read), and there is
one lemma per handler, from one stage to another.

### The references of bufferevents

`BevProofs` proves `RefsRightHolds`: a bufferevent's reference count is the number
of those who still refer to it. These are the user, the deferred queue, the
callbacks that run without the lock, lookups, and a filter on it; with the last of
them it is freed, and none of them outlives it. It holds for any rates, marks,
buffer sizes and orders of calls, events, deferred callbacks and frees inside
callbacks, for the sockets, the pair, the filter and the group of `MCStreams`
(`Seven`; the members of the group and partners need not be told apart).
Hypotheses: pairs are not flushed with `BEV_NORMAL`, nor in any mode when the
partner was freed (`~FlushAlone`), for `be_pair_flush` keeps its references then
(table above). `RefsCountedHolds` has neither hypothesis: the count is the
references and those that `be_pair_flush` kept, so that flushes can only keep a
bufferevent too long, never free it early.

The inductive invariant `Right` is `World`, what the fields can be; `Balanced`, the
equation itself; and `Well`, which says when a free goes down from a filter: one
that closes what is under it (`BEV_OPT_CLOSE_ON_FREE`) does not leave it in the
deferred queue, and while the user still has the one under a filter, its callbacks
are the filter's. `Balanced` has a parameter, the references that the operation
under way has taken itself (`Incref` before a callback, the queue's reference when
the queue calls, the user's in `bufferevent_free`), so that the equation holds
inside an operation too; between operations there are none.

Most operators, some hundred, give and take no reference but that of the deferred
queue, with its mark: this is `Kept`, one lemma per operator, and they compose. The
rest of the proof follows the others: `_bufferevent_decref_and_unlock`
(`DecrefBal`), which for the last reference runs the destructor of a filter and
gives back a reference of the one under it, `bufferevent_free` (`FreeBal`), the two
kinds of deferred callbacks (`RunDeferredRight`, `RunUnlockedRight`) and lookups
(`LookedUpRight`).

### Induction

The library's induction rules take an operator as a parameter, which the provers
cannot instantiate. `ProofFacts` states them for a *set* instead
(`FiniteInduction`, `NaturalInduction`): if the empty set is in `P`, and one more
element keeps a set in `P`, then the finite set is. They are proved from the
library's theorem that strict inclusion on a finite set is well founded. The
counters (`Cardinality`), the sums and the changelist use them.

### Only model-checked

* Liveness under fairness (`ActiveServed`, `RequestsEnd` and the others): out of
  the prover's reach.
* The values of recursive definitions for every input: `LinesRight`,
  `PacketsUnderstood`, `FramingAgrees`, `TextsKept`, and `IsByteQueue`,
  `ChainsConsistent` and `ToldOfChanges` where `buffer.c` loops over chains.
* Not attempted yet: `ResolverConsistent` (`Evdns`), `Watched`,
  `Resumed` and `Told` (`BevSocket`), `SslProceeds` (`BevOpenssl`).

## 5. Not modelled

* Creation, configuration and freeing of a base, and `event_reinit` after a fork:
  they choose a backend and allocate or free, and no other thread may use the base
  meanwhile. `event_base_once` on descriptors, the debugging map and the
  debugging locks.
* IOCP (`event_iocp.c`, `buffer_iocp.c`, `bufferevent_async.c`, the listener for
  it, pinned chains) and `evthread_win32.c`: Windows only, and most of what they do
  is done by the system's completion ports. kqueue's own handling of signals.
* Of the resolver: the text of `resolv.conf` and `hosts`, the registry, the
  wrappers around one global base. Liveness of the resolver itself (every call
  is told in the end): the timers make it plausible, and `ResolverConsistent` says
  that every request in flight has one or is waited for, but the check under
  fairness is too slow for the instance above.
* Of bufferevents: `bufferevent_base_set`, priorities, `bufferevent_enable_locking`.
  Of SSL: the list of errors; timeouts and references are those of the other
  bufferevents. Of RPC: freeing a pool or a base with calls in them, and the
  attachments of hooks. Of HTTP: status texts, HTML escapes.
* `evutil.c`, `strlcpy.c` and `log.c` beyond addresses: wrappers of sockets, files
  and strings without state.
* Reports of `epoll_wait` and `port_getn` that are handled after a callback of the
  same dispatch changed what they are about: events are activated, not called, while
  the reports are gone through, and only another thread can change them between
  (for evport see `DelSucceeds`). Server ports and the resolver with several threads.
  `evhttp_connection_set_closecb`.
* `arc4random.c`, `ht-internal.h`, `compat/sys/queue.h`: third-party; the models
  use sets and sequences.
* Tests, samples, the RPC code generator, and the small programs under
  `src/testcpp` and `src/testAndroid`: exercise code or plain I/O.

Failure of an allocation is not modelled anywhere: the code mostly exits or
returns an error before it changes state.

## 6. Plan

Done, in this order: timer heap with proofs; event base; event map and epoll;
signals; evbuffers; DNS; HTTP, listener and RPC; bufferevents, rate limits and
SSL; the other backends; the formats; then the proofs about the event loop, the
event map, signals, `evdns_getaddrinfo`, server ports, listeners, RPC, HTTP
connections, the references of bufferevents, the callbacks of the resolver and the
other backends.
What is left is to prove more. In
the order of their worth:

1. `BevSocket`: `Watched`, then `Resumed` and `Told`; the invariant of `BevProofs`
   has what they need to know of freed bufferevents.
2. `Evdns`: `ResolverConsistent`; `DnsInv` has the lists, and the counters and the
   timers would be added to it.
3. The accounting of `EvbufferChains` (`total_len` is the sum of the chains).
