-------------------------------- MODULE Evbuffer --------------------------------
(***************************************************************************)
(* Evbuffers (buffer.c): the calls a program may make on a set of buffers, *)
(* the callbacks that tell it of changes, at once or from the event loop,  *)
(* and the reference counts that keep a buffer until a deferred callback   *)
(* has run.                                                                *)
(*                                                                         *)
(* A call holds the lock of every buffer it changes from beginning to end, *)
(* so it is one step; threads interleave calls.  A deferred callback is    *)
(* two steps: the loop takes it off its queue, then locks the buffer.      *)
(* Callbacks only observe.  Every buffer has one callback, or none has.    *)
(***************************************************************************)
EXTENDS EvbufferChains

CONSTANTS
  Buffer,
  MaxPending,  \* bound: bytes added or removed that no callback was told of
  Uses         \* what programs may do: the buffers they have, the calls they make, the
               \* sizes they use, the bytes they add in all, and whether there are
               \* callbacks and they are deferred

VARIABLES
  buf,      \* buf[b]: the chains, counters and freeze flags
  reserved, \* reserved[b]: extents from reserve_space that no call has spoilt
  seen,     \* seen[b]: the size when callbacks were last invoked
  queued,   \* buffers whose deferred callback is in the base's queue
  running,  \* buffers whose deferred callback was taken off it, and waits for the lock
  refcnt,
  held,     \* buffers the program has not freed
  fresh,    \* the number of bytes ever added
  use

vars == <<buf, reserved, seen, queued, running, refcnt, held, fresh, use>>

NoExtents == [first |-> 0, lens |-> <<>>]
Bytes(n) == [i \in 1 .. n |-> fresh + i]
Sizes == {n \in use.sizes : fresh + n <= use.max}

Init ==
  /\ use \in Uses
  /\ buf = [b \in Buffer |-> evbuffer_new]
  /\ reserved = [b \in Buffer |-> NoExtents]
  /\ seen = [b \in Buffer |-> 0]
  /\ queued = {} /\ running = {}
  /\ refcnt = [b \in Buffer |-> IF b \in use.bufs THEN 1 ELSE 0]
  /\ held = use.bufs
  /\ fresh = 0

-----------------------------------------------------------------------------
(* Callbacks. *)

Forgotten(x) == [x EXCEPT !.nadd = 0, !.ndel = 0]

Changed(x) == x.nadd > 0 \/ x.ndel > 0

\* The call leaves the buffers as in B and ends by invoking the callbacks of S.
evbuffer_invoke_callbacks(B, S) ==
  LET now == use.cb /\ ~use.defer
      new == IF use.cb /\ use.defer THEN S \ queued ELSE {}
  IN /\ buf' = [b \in Buffer |-> IF b \in S /\ ~(use.cb /\ use.defer)
                                 THEN Forgotten(B[b]) ELSE B[b]]
     /\ seen' = [b \in Buffer |-> IF b \in S /\ now /\ Changed(B[b])
                                  THEN B[b].total ELSE seen[b]]
     /\ queued' = queued \cup new
     /\ refcnt' = [b \in Buffer |-> IF b \in new THEN refcnt[b] + 1 ELSE refcnt[b]]

\* A call on the buffers S that leaves them as in B and invokes their callbacks.
Call(c, S, B) ==
  /\ c \in use.calls
  /\ S \subseteq held
  /\ use.defer => \A b \in S : B[b].nadd <= MaxPending /\ B[b].ndel <= MaxPending
  /\ evbuffer_invoke_callbacks(B, S)
  /\ reserved' = [b \in Buffer |-> IF b \in S THEN NoExtents ELSE reserved[b]]
  /\ UNCHANGED <<running, held, use>>

\* A call on b that puts n new bytes in it.
Adds(c, b, x, n) ==
  /\ ~buf[b].fe
  /\ Call(c, {b}, [buf EXCEPT ![b] = x])
  /\ fresh' = fresh + n

Add(b) == \E n \in Sizes : Adds("add", b, evbuffer_add(buf[b], Bytes(n)), n)

AddPrintf(b) ==
  \E n \in Sizes : Adds("printf", b, evbuffer_add_vprintf(buf[b], Bytes(n)), n)

AddReference(b) ==
  \E n \in Sizes : Adds("reference", b, evbuffer_add_reference(buf[b], Bytes(n)), n)

\* evbuffer_add_file with sendfile: the chain stands for a part of the file.
AddFileSendfile(b) ==
  \E n \in Sizes, offset \in use.offsets :
    LET x == evbuffer_chain_insert(buf[b], ImmutableChain(Bytes(n), offset))
    IN Adds("sendfile", b, [x EXCEPT !.nadd = @ + n], n)

\* evbuffer_add_file with mmap: the chain has the whole file, and offset bytes are drained.
AddFileMmap(b) ==
  \E n \in Sizes, offset \in use.offsets :
    LET x == evbuffer_chain_insert(buf[b], ImmutableChain(Bytes(offset + n), 0))
        y == [x EXCEPT !.nadd = @ + n]
    IN /\ fresh + offset + n <= use.max
       /\ Adds("mmap", b, IF y.fs THEN y ELSE evbuffer_drain(y, offset), offset + n)

Prepend(b) ==
  \E n \in Sizes :
    /\ ~buf[b].fs
    /\ Call("prepend", {b}, [buf EXCEPT ![b] = evbuffer_prepend(@, Bytes(n))])
    /\ fresh' = fresh + n

\* howmuch bytes are wanted and n come: none if the peer closed or the read failed,
\* and then the callbacks are not invoked.
Read(b) ==
  \E howmuch \in use.sizes \ {0} : \E n \in 0 .. howmuch :
    LET x == evbuffer_read(buf[b], howmuch, Bytes(n))
    IN /\ fresh + n <= use.max
       /\ ~buf[b].fe /\ "read" \in use.calls /\ b \in held
       /\ fresh' = fresh + n
       /\ reserved' = [reserved EXCEPT ![b] = NoExtents]
       /\ IF n = 0
          THEN buf' = [buf EXCEPT ![b] = x] /\ UNCHANGED <<seen, queued, refcnt>>
          ELSE evbuffer_invoke_callbacks([buf EXCEPT ![b] = x], {b})
       /\ UNCHANGED <<running, held, use>>

\* Room is made, and nothing is added.
Expand(b) ==
  \E n \in use.sizes :
    /\ "expand" \in use.calls /\ b \in held
    /\ buf' = [buf EXCEPT ![b] = evbuffer_expand_singlechain(@, n).b]
    /\ reserved' = [reserved EXCEPT ![b] = NoExtents]
    /\ UNCHANGED <<seen, queued, running, refcnt, held, fresh, use>>

Reserve(b) ==
  \E n \in use.sizes \ {0}, k \in 1 .. NUM_READ_IOVEC :
    LET r == evbuffer_reserve_space(buf[b], n, k)
    IN /\ ~buf[b].fe /\ "reserve" \in use.calls /\ b \in held
       /\ buf' = [buf EXCEPT ![b] = r.b]
       /\ reserved' = [reserved EXCEPT ![b] = [first |-> r.first, lens |-> r.lens]]
       /\ UNCHANGED <<seen, queued, running, refcnt, held, fresh, use>>

\* Some of the extents are committed, each shortened as the program likes.
Commit(b) ==
  \E k \in DOMAIN reserved[b].lens :
    \E lens \in [1 .. k -> 0 .. MaxBytes] :
      LET n == SumSeq(lens)
      IN /\ \A i \in 1 .. k : lens[i] <= reserved[b].lens[i]
         /\ fresh + n <= use.max
         /\ Adds("reserve", b,
                 evbuffer_commit_space(buf[b], reserved[b].first, lens, Bytes(n)), n)

Drain(b) ==
  \E n \in 1 .. buf[b].total :
    /\ ~buf[b].fs
    /\ Call("drain", {b}, [buf EXCEPT ![b] = evbuffer_drain(@, n)])
    /\ UNCHANGED fresh

\* The kernel takes n bytes, which are drained.
Write(b) ==
  \E n \in 1 .. buf[b].total :
    /\ ~buf[b].fs
    /\ Call("write", {b}, [buf EXCEPT ![b] = evbuffer_drain(@, n)])
    /\ UNCHANGED fresh

Pullup(b) ==
  \E n \in 1 .. buf[b].total :
    /\ "pullup" \in use.calls /\ b \in held
    /\ buf' = [buf EXCEPT ![b] = evbuffer_pullup(@, n)]
    /\ reserved' = [reserved EXCEPT ![b] = NoExtents]
    /\ UNCHANGED <<seen, queued, running, refcnt, held, fresh, use>>

AddBuffer(out, in) ==
  LET r == evbuffer_add_buffer(buf[out], buf[in])
  IN /\ out # in /\ buf[in].total > 0
     /\ ~buf[out].fe /\ ~buf[in].fs
     /\ Call("add_buffer", {out, in}, [buf EXCEPT ![out] = r.out, ![in] = r.in])
     /\ UNCHANGED fresh

PrependBuffer(out, in) ==
  LET r == evbuffer_prepend_buffer(buf[out], buf[in])
  IN /\ out # in /\ buf[in].total > 0
     /\ ~buf[out].fs /\ ~buf[in].fs
     /\ Call("prepend_buffer", {out, in}, [buf EXCEPT ![out] = r.out, ![in] = r.in])
     /\ UNCHANGED fresh

\* A part of src; all of it is AddBuffer.
RemoveBuffer(src, dst) ==
  \E n \in 1 .. buf[src].total - 1 :
    LET r == evbuffer_remove_buffer(buf[src], buf[dst], n)
    IN /\ src # dst
       /\ ~buf[dst].fe /\ ~buf[src].fs
       /\ Call("remove_buffer", {src, dst}, [buf EXCEPT ![src] = r.src, ![dst] = r.dst])
       /\ UNCHANGED fresh

evbuffer_freeze(b, fs, fe) ==
  /\ "freeze" \in use.calls /\ b \in held
  /\ buf' = [buf EXCEPT ![b].fs = fs, ![b].fe = fe]
  /\ UNCHANGED <<reserved, seen, queued, running, refcnt, held, fresh, use>>

-----------------------------------------------------------------------------
(* The life of a buffer. *)

\* The reference that x stands for is given up; the last one frees the buffer.
_evbuffer_decref(b, x) ==
  /\ refcnt' = [refcnt EXCEPT ![b] = @ - 1]
  /\ buf' = [buf EXCEPT ![b] = IF refcnt[b] > 1 THEN x ELSE [evbuffer_new EXCEPT !.ok = x.ok]]
  /\ queued' = IF refcnt[b] > 1 THEN queued ELSE queued \ {b}

evbuffer_free(b) ==
  /\ "free" \in use.calls /\ b \in held
  /\ held' = held \ {b}
  /\ reserved' = [reserved EXCEPT ![b] = NoExtents]
  /\ _evbuffer_decref(b, buf[b])
  /\ UNCHANGED <<seen, running, fresh, use>>

\* The loop takes the deferred callback off its queue.
event_process_deferred_callbacks(b) ==
  /\ b \in queued /\ b \notin running
  /\ queued' = queued \ {b} /\ running' = running \cup {b}
  /\ UNCHANGED <<buf, reserved, seen, refcnt, held, fresh, use>>

evbuffer_deferred_callback(b) ==
  /\ b \in running
  /\ running' = running \ {b}
  /\ seen' = [seen EXCEPT ![b] = IF Changed(buf[b]) THEN buf[b].total ELSE @]
  /\ _evbuffer_decref(b, Forgotten(buf[b]))
  /\ UNCHANGED <<reserved, held, fresh, use>>

Next ==
  \/ \E b \in Buffer :
       \/ Add(b) \/ AddPrintf(b) \/ AddReference(b) \/ AddFileSendfile(b) \/ AddFileMmap(b)
       \/ Prepend(b) \/ Read(b) \/ Expand(b) \/ Reserve(b) \/ Commit(b)
       \/ Drain(b) \/ Write(b) \/ Pullup(b)
       \/ \E fs, fe \in BOOLEAN : evbuffer_freeze(b, fs, fe)
       \/ evbuffer_free(b) \/ event_process_deferred_callbacks(b)
       \/ evbuffer_deferred_callback(b)
  \/ \E a, b \in Buffer : AddBuffer(a, b) \/ PrependBuffer(a, b) \/ RemoveBuffer(a, b)

Spec == Init /\ [][Next]_vars

-----------------------------------------------------------------------------
(* Properties. *)

\* The variables have their types and a chain's bytes are inside its block.
TypeOK ==
  /\ use \in Uses /\ held \subseteq Buffer
  /\ queued \subseteq Buffer /\ running \subseteq Buffer
  /\ refcnt \in [Buffer -> 0 .. 3] /\ seen \in [Buffer -> 0 .. MaxBytes]
  /\ fresh \in 0 .. MaxBytes
  /\ \A b \in Buffer :
       /\ buf[b].total \in Nat /\ buf[b].nadd \in Nat /\ buf[b].ndel \in Nat
       /\ buf[b].lwd \in 1 .. Len(buf[b].ch) + 1
       /\ \A i \in DOMAIN buf[b].ch :
            LET c == buf[b].ch[i] IN c.mis \in Nat /\ c.mis + Off(c) <= c.len

\* The comments in evbuffer-internal.h: last_with_datap points to the pointer to the
\* last chain with data, or to the first pointer if there is none, and total_len is
\* the number of bytes in the chains.
LastWithData ==
  \A b \in Buffer :
    LET x == buf[b]
        full == {i \in DOMAIN x.ch : Off(x.ch[i]) > 0}
    IN /\ x.lwd = IF full = {} THEN 1 ELSE Greatest(full)
       /\ x.total = Len(Contents(x))

\* No EVUTIL_ASSERT of buffer.c fails and no null pointer is followed.
AssertsHold == \A b \in Buffer : buf[b].ok

\* evbuffer_cb_info in buffer.h: the sizes and counts that the next callback will get
\* start from the size at the last one, and a deferred callback that has something to
\* tell is on its way.
ToldOfChanges ==
  use.cb => \A b \in held :
    /\ buf[b].total + buf[b].ndel - buf[b].nadd = seen[b]
    /\ Changed(buf[b]) => b \in queued \cup running

\* Space that was reserved, and not spoilt by another call, can be committed.
ReservedCanBeCommitted ==
  \A b \in held : \A k \in DOMAIN reserved[b].lens : CommitIsSafe(buf[b], reserved[b].first, k)

\* A buffer exists as long as the program or a deferred callback may still use it.
ReferencesCounted ==
  \A b \in Buffer :
    refcnt[b] = Cardinality({1} \cap {IF b \in held THEN 1 ELSE 0})
              + Cardinality({b} \cap queued) + Cardinality({b} \cap running)

\* What every function of buffer.c takes for granted when it is called, whatever
\* calls came before.
ChainsConsistent ==
  TypeOK /\ AssertsHold /\ LastWithData /\ ReservedCanBeCommitted /\ ReferencesCounted

\* While an end of a buffer is frozen, no call changes the contents at that end
\* (evbuffer_freeze in buffer.h).
FreezeHonoured ==
  [][\A b \in held \cap held' :
       LET old == Contents(buf[b]) new == Contents(buf'[b])
       IN /\ buf[b].fs /\ buf'[b].fs => Len(new) >= Len(old) /\ First(new, Len(old)) = old
          /\ buf[b].fe /\ buf'[b].fe =>
               Len(new) <= Len(old) /\ Rest(old, Len(old) - Len(new)) = new]_vars

\* Whatever the chains look like, the buffers are queues of bytes, and an end of a
\* queue stays as it is while it is frozen.
Queue == INSTANCE ByteQueue WITH q <- [b \in Buffer |-> Contents(buf[b])]
IsByteQueue == Queue!Spec /\ FreezeHonoured
=================================================================================
