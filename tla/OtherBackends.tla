------------------------------ MODULE OtherBackends ------------------------------
(***************************************************************************)
(* The backends other than epoll: poll.c, select.c, kqueue.c, devpoll.c,   *)
(* evport.c and win32select.c.  evmap asks one to add and to delete the    *)
(* directions of a descriptor, also while the loop waits in the kernel     *)
(* without the lock; the loop dispatches in three steps.                   *)
(***************************************************************************)
EXTENDS Integers, Sequences, FiniteSets, SequencesExt

CONSTANTS
  Names,    \* the backends that are checked
  MaxFd,    \* the highest descriptor
  Room,     \* first size of an array: 32 or 64 in the code
  GetN,     \* EVENTS_PER_GETN
  DuringReturn  \* other threads may delete between the return of port_getn and the lock

VARIABLE k

Number == 0 .. MaxFd
Dirs == {"r", "w"}
Nothing == [fd \in Number |-> {}]
NoFd == -1

\* want: the directions that evmap has for a descriptor; kern: those that the
\* kernel knows; size, out: of the arrays that are used and of their copies.
NewBackend(name) ==
  [be |-> name, want |-> Nothing, kern |-> Nothing, open |-> Number,
   set |-> <<>>, pos |-> [fd \in Number |-> 0],
   rw |-> [d \in Dirs |-> <<>>], rwpos |-> [d \in Dirs |-> [fd \in Number |-> 0]], high |-> 0,
   changes |-> <<>>, cl |-> [fd \in Number |-> [d \in Dirs |-> "none"]],
   what |-> Nothing, pend |-> [i \in 1 .. GetN |-> NoFd],
   size |-> IF name = "poll" THEN 0 ELSE Room, out |-> IF name \in {"poll", "select"} THEN 0 ELSE Room,
   resize |-> name = "select",
   step |-> "lock", got |-> <<>>, failed |-> FALSE, over |-> FALSE]

\* A size that is doubled until it is enough.
Doubled(n, need) ==
  LET size[i \in 0 .. need] ==
        IF i = 0 THEN n ELSE IF size[i - 1] >= need THEN size[i - 1] ELSE 2 * size[i - 1]
  IN  size[need]

-------------------------------------------------------------------------------
\* poll.c: an array of descriptors, and the index of each in it.
poll_grow(x) ==
  IF Len(x.set) + 1 < x.size THEN x
  ELSE [x EXCEPT !.size = IF @ < Room THEN Room ELSE 2 * @, !.resize = TRUE]

PollEntry(x, fd, E) ==
  IF x.pos[fd] > 0 THEN [x EXCEPT !.set[x.pos[fd]].ev = @ \cup E]
  ELSE [x EXCEPT !.set = Append(@, [fd |-> fd, ev |-> E]), !.pos[fd] = Len(x.set) + 1]

poll_add(x, fd, E) == PollEntry(poll_grow(x), fd, E)

\* Mutant of PollRemoved: the one that is moved keeps its index.
RemovedKeepsIndex(x, fd) ==
  LET i == x.pos[fd]
      n == Len(x.set)
  IN  [x EXCEPT !.set = SubSeq([@ EXCEPT ![i] = x.set[n]], 1, n - 1), !.pos[fd] = 0]

\* The last entry takes the place of the one that goes.
PollRemoved(x, fd) ==
  LET i == x.pos[fd]
      n == Len(x.set)
      y == [x EXCEPT !.set = SubSeq([@ EXCEPT ![i] = x.set[n]], 1, n - 1), !.pos[fd] = 0]
  IN  IF i = n THEN y ELSE [y EXCEPT !.pos[x.set[n].fd] = i]

poll_del(x, fd, E) ==
  LET y == [x EXCEPT !.set[x.pos[fd]].ev = @ \ E]
  IN  IF x.pos[fd] = 0 THEN [x EXCEPT !.failed = TRUE]
      ELSE IF y.set[x.pos[fd]].ev # {} THEN y ELSE PollRemoved(y, fd)

-------------------------------------------------------------------------------
\* select.c: two sets of bits; high is the highest descriptor so far.
select_resize(x, fd) ==
  IF fd < x.size THEN x ELSE [x EXCEPT !.size = Doubled(x.size, fd + 1), !.resize = TRUE]

SelectHigh(x, fd) == IF x.high < fd THEN [select_resize(x, fd) EXCEPT !.high = fd] ELSE x

select_add(x, fd, E) ==
  LET y == SelectHigh(x, fd)
  IN  [y EXCEPT !.kern[fd] = @ \cup E, !.over = @ \/ fd >= y.size]

select_del(x, fd, E) == IF x.high < fd THEN x ELSE [x EXCEPT !.kern[fd] = @ \ E]

-------------------------------------------------------------------------------
\* win32select.c: two arrays of sockets, with the place of a socket in each.
grow_fd_sets(x, d) ==
  IF Len(x.rw[d]) = x.size THEN [x EXCEPT !.size = 2 * @, !.resize = TRUE] ELSE x

do_fd_set(x, fd, d) ==
  IF x.rwpos[d][fd] > 0 THEN x
  ELSE [grow_fd_sets(x, d) EXCEPT !.rw[d] = Append(@, fd), !.rwpos[d][fd] = Len(x.rw[d]) + 1]

do_fd_clear(x, fd, d) ==
  LET i == x.rwpos[d][fd]
      n == Len(x.rw[d])
      y == [x EXCEPT !.rwpos[d][fd] = 0]
  IN  IF i = 0 THEN y
      ELSE IF i = n THEN [y EXCEPT !.rw[d] = SubSeq(@, 1, n - 1)]
      ELSE [y EXCEPT !.rw[d] = SubSeq([@ EXCEPT ![i] = x.rw[d][n]], 1, n - 1),
                     !.rwpos[d][x.rw[d][n]] = i]

Each(F(_, _, _), x, fd, E) ==
  LET y == IF "r" \in E THEN F(x, fd, "r") ELSE x
  IN  IF "w" \in E THEN F(y, fd, "w") ELSE y

-------------------------------------------------------------------------------
\* devpoll.c: changes that are written to the kernel when there are too many, or
\* before it waits.  The kernel adds directions to those that it has.
Written(kern, changes) ==
  LET after[i \in 0 .. Len(changes)] ==
        IF i = 0 THEN kern
        ELSE [after[i - 1] EXCEPT ![changes[i].fd] =
                IF changes[i].ev = {} THEN {} ELSE @ \cup changes[i].ev]
  IN  after[Len(changes)]

devpoll_commit(x) == [x EXCEPT !.kern = Written(@, x.changes), !.changes = <<>>]

\* No directions stand for POLLREMOVE.
devpoll_queue(x, fd, E) ==
  LET y == IF Len(x.changes) >= Room THEN devpoll_commit(x) ELSE x
  IN  [y EXCEPT !.changes = Append(@, [fd |-> fd, ev |-> E])]

devpoll_del(x, fd, E) ==
  LET y == devpoll_queue(x, fd, {})
      left == x.want[fd] \ E
  IN  IF E # Dirs /\ left # {} THEN devpoll_queue(y, fd, left) ELSE y

-------------------------------------------------------------------------------
\* kqueue.c over the changelist of evmap.c.  A change of a descriptor that was
\* closed meanwhile is refused, which is no error; a change that adds one whose
\* other side was closed is reported as readable.
ChangeAdd(x, fd, d) == [x EXCEPT !.cl[fd][d] = "add"]
ChangeDel(x, fd, d) == [x EXCEPT !.cl[fd][d] = IF d \in x.kern[fd] THEN "del" ELSE "none"]

Changed(x, fd) ==
  IF fd \notin x.open THEN {}
  ELSE {d \in Dirs : x.cl[fd][d] = "add" \/ (d \in x.kern[fd] /\ x.cl[fd][d] # "del")}

ChangesOf(x, fd) == LET C(d) == IF x.cl[fd][d] = "none" THEN 0 ELSE 1 IN C("r") + C("w")

\* The loop over the changelist, here in the order of the descriptors and without
\* entries whose changes have cancelled each other: before the changes of a
\* descriptor are written, the array is doubled once if only one slot is left.
ChangesBuilt(x) ==
  LET built[i \in 0 .. MaxFd + 1] ==
        IF i = 0 THEN [n |-> 0, size |-> x.size]
        ELSE [n |-> built[i - 1].n + ChangesOf(x, i - 1),
              size |-> IF ChangesOf(x, i - 1) > 0 /\ built[i - 1].n >= built[i - 1].size - 1
                         THEN 2 * built[i - 1].size ELSE built[i - 1].size]
  IN  built[MaxFd + 1]

kq_build_changes_list(x) == [x EXCEPT !.size = ChangesBuilt(x).size]
NChanges(x) == ChangesBuilt(x).n

\* The array of events is at least as long as that of the n changes.
kq_grow_events(x, n) == IF x.out < n THEN [x EXCEPT !.out = Doubled(x.out, n)] ELSE x

Submitted(x, n) ==
  [x EXCEPT !.kern = [fd \in Number |-> Changed(x, fd)],
            !.cl = [fd \in Number |-> [d \in Dirs |-> "none"]],
            !.over = @ \/ n > x.size \/ n > x.out]

-------------------------------------------------------------------------------
\* evport.c: the kernel forgets a descriptor when it reports it; it is among
\* the pending ones until the next dispatch associates it again.
reassociate(x, fd) == IF x.what[fd] = {} THEN x ELSE [x EXCEPT !.kern[fd] = x.what[fd]]

EvportGrown(x, fd) == IF fd < x.size THEN x ELSE [x EXCEPT !.size = Doubled(x.size, fd + 1)]

evport_add(x, fd, E) == reassociate([EvportGrown(x, fd) EXCEPT !.what[fd] = @ \cup E], fd)

\* port_dissociate fails for a descriptor that the kernel has just reported.
Dissociated(x, fd) ==
  IF x.kern[fd] = {} /\ fd \in x.open THEN [x EXCEPT !.failed = TRUE] ELSE [x EXCEPT !.kern[fd] = {}]

evport_del(x, fd, E) ==
  LET y == [x EXCEPT !.what[fd] = @ \ E]
      at == {i \in 1 .. GetN : x.pend[i] = fd}
      first == CHOOSE i \in at : \A j \in at : i <= j
  IN  IF at = {} THEN IF y.what[fd] = {} THEN Dissociated(y, fd) ELSE reassociate(y, fd)
      ELSE IF y.what[fd] = {} THEN [y EXCEPT !.pend[first] = NoFd] ELSE y

PendingAgain(x) ==
  LET again == {i \in 1 .. GetN : x.pend[i] # NoFd /\ x.what[x.pend[i]] # {}}
      fds == {x.pend[i] : i \in again}
  IN  [x EXCEPT !.kern = [fd \in Number |-> IF fd \in fds THEN x.what[fd] ELSE @[fd]],
                !.pend = [i \in 1 .. GetN |-> IF i \in again THEN NoFd ELSE @[i]]]

-------------------------------------------------------------------------------
Add(x, fd, E) ==
  CASE x.be = "poll"    -> poll_add(x, fd, E)
    [] x.be = "select"  -> select_add(x, fd, E)
    [] x.be = "win32"   -> Each(do_fd_set, x, fd, E)
    [] x.be = "devpoll" -> devpoll_queue(x, fd, E)
    [] x.be = "kqueue"  -> Each(ChangeAdd, x, fd, E)
    [] x.be = "evport"  -> evport_add(x, fd, E)

Del(x, fd, E) ==
  CASE x.be = "poll"    -> poll_del(x, fd, E)
    [] x.be = "select"  -> select_del(x, fd, E)
    [] x.be = "win32"   -> Each(do_fd_clear, x, fd, E)
    [] x.be = "devpoll" -> devpoll_del(x, fd, E)
    [] x.be = "kqueue"  -> Each(ChangeDel, x, fd, E)
    [] x.be = "evport"  -> evport_del(x, fd, E)

\* The arrays are copied for the kernel, or it gets what is queued.
CopiesGrown(x) == IF x.resize THEN [x EXCEPT !.out = x.size, !.resize = FALSE] ELSE x

Copied(x, n) == [x EXCEPT !.over = @ \/ n > x.out]

Prepared(x) ==
  CASE x.be = "poll"    -> Copied(CopiesGrown(x), Len(x.set))
    [] x.be = "select"  -> Copied(CopiesGrown(x), x.high + 1)
    [] x.be = "win32"   -> Copied(Copied(CopiesGrown(x), Len(x.rw["r"])), Len(x.rw["w"]))
    [] x.be = "devpoll" -> devpoll_commit(x)
    [] x.be = "kqueue"  -> Submitted(kq_grow_events(kq_build_changes_list(x), NChanges(x)), NChanges(x))
    [] x.be = "evport"  -> PendingAgain(x)

\* got: the descriptors that the kernel reports, which matter to evport.
Returned(x, q) ==
  [x EXCEPT !.step = "returned", !.got = q,
            !.kern = [fd \in Number |-> IF x.be = "evport" /\ fd \in Range(q) THEN {} ELSE @[fd]]]

\* evmap_io_active takes no notice of what nobody wants.
Dispatched(x) ==
  [x EXCEPT !.step = "lock", !.got = <<>>,
            !.pend = [i \in 1 .. GetN |-> IF i <= Len(x.got) THEN x.got[i] ELSE @[i]]]

-------------------------------------------------------------------------------
Init == \E name \in Names : k = NewBackend(name)

\* event_add and event_del through evmap.  An error of the backend leaves evmap
\* as it was.
Evadd(fd, E) ==
  /\ E # {} /\ E \cap k.want[fd] = {} /\ fd \in k.open
  /\ LET y == Add(k, fd, E) IN k' = [y EXCEPT !.want[fd] = @ \cup E]

Evdel(fd, E) ==
  /\ E # {} /\ E \subseteq k.want[fd]
  /\ k.be = "evport" /\ k.step = "returned" => DuringReturn
  /\ LET y == Del(k, fd, E) IN k' = [y EXCEPT !.want[fd] = IF y.failed THEN @ ELSE @ \ E]

\* A descriptor is closed when nobody wants it, and its number is used again.
Close(fd) ==
  /\ k.want[fd] = {} /\ fd \in k.open /\ k.be \in {"kqueue", "devpoll", "evport"}
  /\ k' = [k EXCEPT !.open = @ \ {fd}, !.kern[fd] = {}]
Reopen(fd) == fd \notin k.open /\ k' = [k EXCEPT !.open = @ \cup {fd}]

Begin == k.step = "lock" /\ k' = [Prepared(k) EXCEPT !.step = "waits"]

\* A timeout or a signal ends it too.
Return ==
  \E q \in {s \in SeqOf(Number, GetN) : IsInjective(s)} :
    /\ k.step = "waits" /\ \A i \in DOMAIN q : k.be = "evport" /\ k.kern[q[i]] # {}
    /\ k' = Returned(k, q)

End == k.step = "returned" /\ k' = Dispatched(k)

\* Two descriptors are enough for those with the largest state.
Used == IF k.be \in {"kqueue", "evport"} THEN Number \ {MaxFd} ELSE Number

Next ==
  /\ ~k.failed
  /\ \/ \E fd \in Used, E \in SUBSET Dirs : Evadd(fd, E) \/ Evdel(fd, E)
     \/ \E fd \in Used : Close(fd) \/ Reopen(fd)
     \/ Begin \/ Return \/ End

-------------------------------------------------------------------------------
\* Every descriptor that is wanted is watched, for what is wanted, once what is
\* queued has been handed over: the indexes of an array are those of its
\* entries, nothing is watched for nobody at the moment the loop waits, what the
\* kernel forgot when it reported it is pending; and no array is too short.
IndexesRight(x) ==
  /\ \A fd \in Number : (x.pos[fd] > 0) = (x.want[fd] # {})
  /\ \A fd \in Number : x.pos[fd] > 0 =>
       x.pos[fd] <= Len(x.set) /\ x.set[x.pos[fd]] = [fd |-> fd, ev |-> x.want[fd]]
  /\ Len(x.set) = Cardinality({fd \in Number : x.pos[fd] > 0}) /\ Len(x.set) <= x.size

PlacesRight(x) ==
  \A d \in Dirs :
    /\ \A fd \in Number : d \in x.want[fd] <=> x.rwpos[d][fd] > 0
    /\ \A fd \in Number : x.rwpos[d][fd] > 0 => x.rw[d][x.rwpos[d][fd]] = fd
    /\ Len(x.rw[d]) = Cardinality({fd \in Number : d \in x.want[fd]}) /\ Len(x.rw[d]) <= x.size

Forgotten(x, fd) ==
  (\E i \in 1 .. GetN : x.pend[i] = fd) \/ (\E i \in DOMAIN x.got : x.got[i] = fd)

BackendRight ==
  /\ ~k.over
  /\ ~k.failed =>
       CASE k.be = "poll"    -> IndexesRight(k)
         [] k.be = "win32"   -> PlacesRight(k)
         [] k.be = "select"  -> k.kern = k.want
         [] k.be = "devpoll" -> \A fd \in k.open : Written(k.kern, k.changes)[fd] = k.want[fd]
         [] k.be = "kqueue"  -> \A fd \in k.open : Changed(k, fd) = k.want[fd]
         [] k.be = "evport"  ->
              \A fd \in k.open : \/ k.want[fd] \subseteq k.kern[fd]
                                 \/ k.step # "waits" /\ Forgotten(k, fd)

\* An event that is deleted is no longer monitored: event_del does not fail.
DelSucceeds == ~k.failed
===============================================================================
