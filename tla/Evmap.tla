-------------------------------- MODULE Evmap --------------------------------
(***************************************************************************)
(* What libevent watches and what the kernel watches: the map from file    *)
(* descriptors to I/O events (evmap.c), the list of changes that are put   *)
(* off to the next dispatch (changelist-internal.h), and the epoll backend *)
(* (epoll.c) with and without that list.                                   *)
(*                                                                         *)
(* The program may close a descriptor, reopen its number for another file  *)
(* and duplicate descriptors, and it deletes the events of a descriptor    *)
(* before it closes it.  Other threads make calls while the loop waits.    *)
(* Allocation does not fail; the map is the linear array.                  *)
(***************************************************************************)
EXTENDS Integers, Sequences, FiniteSets, SequencesExt

CONSTANTS
  Event,         \* I/O events
  Fd,            \* file descriptors
  File,          \* open file descriptions
  NoFile,        \* what a closed descriptor refers to
  EvFd,          \* EvFd[e]: ev_fd
  EvEvents,      \* EvEvents[e]: a subset of {"READ", "WRITE", "ET"}
  Unpollable,    \* files that epoll refuses with EPERM
  Backends,      \* the backends that bases are made with: epoll_changelist is
                 \* the one for EVENT_BASE_FLAG_EPOLL_USE_CHANGELIST
  MaxCount,      \* 0xffff in the code
  INITIAL_NEVENT, MAX_NEVENT

ASSUME EvmapAssumption ==
  /\ NoFile \notin File
  /\ EvFd \in [Event -> Fd]
  /\ EvEvents \in [Event -> SUBSET {"READ", "WRITE", "ET"}]
  /\ \A e \in Event : EvEvents[e] \cap {"READ", "WRITE"} # {}
  /\ Unpollable \subseteq File
  /\ Backends \subseteq {"epoll", "epoll_changelist"}
  /\ MaxCount \in Nat /\ INITIAL_NEVENT \in Nat \ {0} /\ MAX_NEVENT \in Nat

VARIABLES
  evsel,     \* the backend of the base
  io,        \* io[fd]: struct evmap_io
  inserted,  \* events with EVLIST_INSERTED
  changes,   \* base->changelist
  idxplus1,  \* idxplus1[fd]: struct event_changelist_fdinfo
  file,      \* file[fd]: the file fd refers to
  kernel,    \* the epoll set: what is watched for each <<file, fd>> in it
  nevents,   \* size of the array for epoll_wait
  pc,        \* where epoll_dispatch is
  results,   \* what epoll_wait reported
  activated  \* the event_active_nolock calls of the last dispatch

vars == <<evsel, io, inserted, changes, idxplus1, file, kernel, nevents, pc, results,
          activated>>

-------------------------------------------------------------------------------
(***************************************************************************)
(* The kernel.  A registration belongs to a file and a number; it goes     *)
(* away when the last descriptor of the file is closed.                    *)
(***************************************************************************)
Drop(k, keys) == [x \in DOMAIN k \ keys |-> k[x]]

epoll_ctl(k, op, fd, events) ==
  LET key == <<file[fd], fd>>
      set == [x \in DOMAIN k \cup {key} |-> IF x = key THEN events ELSE k[x]]
      err == IF file[fd] = NoFile THEN "EBADF"
             ELSE IF file[fd] \in Unpollable THEN "EPERM"
             ELSE IF op = "ADD" /\ key \in DOMAIN k THEN "EEXIST"
             ELSE IF op # "ADD" /\ key \notin DOMAIN k THEN "ENOENT"
             ELSE "OK"
  IN  [err |-> err,
       k   |-> IF err # "OK" THEN k
               ELSE IF op = "DEL" THEN Drop(k, {key}) ELSE set]

-------------------------------------------------------------------------------
(***************************************************************************)
(* epoll_apply_one_change.  A change is "none", "add", "addET" or "del".   *)
(***************************************************************************)
Adds(c) == c \in {"add", "addET"}

\* The events that remain if something is added.
Remaining(ch) ==
  (IF Adds(ch.read) \/ (ch.read = "none" /\ "READ" \in ch.old) THEN {"IN"} ELSE {})
  \cup
  (IF Adds(ch.write) \/ (ch.write = "none" /\ "WRITE" \in ch.old) THEN {"OUT"} ELSE {})

\* The operation and its events; no events: there is nothing to do.
EpollOp(ch) ==
  IF Adds(ch.read) \/ Adds(ch.write)
    THEN [op |-> IF ch.old = {} THEN "ADD" ELSE "MOD",
          events |-> Remaining(ch)
                     \cup IF "addET" \in {ch.read, ch.write} THEN {"ET"} ELSE {}]
  ELSE IF ch.read = "del" /\ ch.write # "del" /\ "WRITE" \in ch.old
    THEN [op |-> "MOD", events |-> {"OUT"}]
  ELSE IF ch.write = "del" /\ ch.read # "del" /\ "READ" \in ch.old
    THEN [op |-> "MOD", events |-> {"IN"}]
  ELSE [op |-> "DEL", events |-> (IF ch.read = "del" THEN {"IN"} ELSE {})
                                 \cup (IF ch.write = "del" THEN {"OUT"} ELSE {})]

\* Mutant of epoll_apply_one_change: errors are not retried.
ApplyNoRetry(k, ch) ==
  LET o == EpollOp(ch)
      r == epoll_ctl(k, o.op, ch.fd, o.events)
  IN  IF o.events = {} THEN [ok |-> TRUE, k |-> k]
      ELSE [ok |-> r.err = "OK", k |-> r.k]

epoll_apply_one_change(k, ch) ==
  LET o     == EpollOp(ch)
      r     == epoll_ctl(k, o.op, ch.fd, o.events)
      retry == IF o.op = "MOD" THEN "ADD" ELSE "MOD"
      again == epoll_ctl(k, retry, ch.fd, o.events)
  IN  IF o.events = {} THEN [ok |-> TRUE, k |-> k]
      ELSE IF <<o.op, r.err>> \in {<<"MOD", "ENOENT">>, <<"ADD", "EEXIST">>}
        THEN [ok |-> again.err = "OK", k |-> again.k]
      ELSE [ok |-> r.err = "OK" \/ (o.op = "DEL" /\ r.err \in {"ENOENT", "EBADF", "EPERM"}),
            k  |-> r.k]

\* epoll_apply_changes: a change that fails does not stop the others.
epoll_apply_changes(k, list) ==
  LET after[i \in 0 .. Len(list)] ==
        IF i = 0 THEN k ELSE epoll_apply_one_change(after[i - 1], list[i]).k
  IN  after[Len(list)]

-------------------------------------------------------------------------------
(***************************************************************************)
(* The add and del functions of the two backends.  Each gives the new      *)
(* state of the kernel or of the changelist, and whether it succeeded.     *)
(***************************************************************************)
NoChange(fd, old) == [fd |-> fd, old |-> old, read |-> "none", write |-> "none"]

AddChange(ch, events) ==
  LET add == IF "ET" \in events THEN "addET" ELSE "add"
  IN  [ch EXCEPT !.read  = IF "READ" \in events THEN add ELSE @,
                 !.write = IF "WRITE" \in events THEN add ELSE @]

DelChange(ch, events) ==
  [ch EXCEPT !.read  = IF "READ" \in events THEN "del" ELSE @,
             !.write = IF "WRITE" \in events THEN "del" ELSE @]

\* In the changelist a delete takes back an add of something that was not
\* watched when the list was begun.
CancelOrDelete(ch, events) ==
  [ch EXCEPT
     !.read  = IF "READ" \notin events THEN @
               ELSE IF "READ" \notin ch.old /\ Adds(@) THEN "none" ELSE "del",
     !.write = IF "WRITE" \notin events THEN @
               ELSE IF "WRITE" \notin ch.old /\ Adds(@) THEN "none" ELSE "del"]

\* The changelist with an entry for fd at its index.
event_changelist_get_or_construct(fd, old) ==
  IF idxplus1[fd] # 0
    THEN [list |-> changes, at |-> idxplus1[fd]]
    ELSE [list |-> Append(changes, NoChange(fd, old)), at |-> Len(changes) + 1]

\* The entry g of the list, for fd, becomes ch.
SetChange(fd, g, ch) ==
  /\ changes' = [g.list EXCEPT ![g.at] = ch]
  /\ idxplus1' = [idxplus1 EXCEPT ![fd] = g.at]
  /\ UNCHANGED kernel

event_changelist_add(fd, old, events) ==
  LET g == event_changelist_get_or_construct(fd, old)
  IN  SetChange(fd, g, AddChange(g.list[g.at], events))

event_changelist_del(fd, old, events) ==
  LET g == event_changelist_get_or_construct(fd, old)
  IN  SetChange(fd, g, CancelOrDelete(g.list[g.at], events))

epoll_nochangelist_add(fd, old, events) ==
  epoll_apply_one_change(kernel, AddChange(NoChange(fd, old), events))

epoll_nochangelist_del(fd, old, events) ==
  epoll_apply_one_change(kernel, DelChange(NoChange(fd, old), events))

-------------------------------------------------------------------------------
(***************************************************************************)
(* evmap_io_add and evmap_io_del.                                          *)
(***************************************************************************)
Old(fd) == (IF io[fd].nread > 0 THEN {"READ"} ELSE {})
             \cup (IF io[fd].nwrite > 0 THEN {"WRITE"} ELSE {})

Count(e, kind) == IF kind \in EvEvents[e] THEN 1 ELSE 0

Unchanged == UNCHANGED <<evsel, file, nevents, pc, results, activated>>

AddToList(e) ==
  /\ io' = [io EXCEPT ![EvFd[e]] = [events |-> Append(@.events, e),
                                    nread  |-> @.nread + Count(e, "READ"),
                                    nwrite |-> @.nwrite + Count(e, "WRITE")]]
  /\ inserted' = inserted \cup {e}

\* With too many readers or writers it fails and changes nothing.
evmap_io_add(e) ==
  LET fd     == EvFd[e]
      nread  == io[fd].nread + Count(e, "READ")
      nwrite == io[fd].nwrite + Count(e, "WRITE")
      res    == {k \in {"READ", "WRITE"} : k \in EvEvents[e] /\ k \notin Old(fd)}
      events == res \cup (EvEvents[e] \cap {"ET"})
      r      == epoll_nochangelist_add(fd, Old(fd), events)
  IN  /\ e \notin inserted
      /\ file[fd] # NoFile
      /\ nread <= MaxCount /\ nwrite <= MaxCount
      /\ \/ /\ res = {}
            /\ AddToList(e)
            /\ UNCHANGED <<changes, idxplus1, kernel>>
         \/ /\ res # {} /\ evsel = "epoll_changelist"
            /\ event_changelist_add(fd, Old(fd), events)
            /\ AddToList(e)
         \/ /\ res # {} /\ evsel = "epoll"
            /\ kernel' = r.k
            /\ IF r.ok THEN AddToList(e) ELSE UNCHANGED <<io, inserted>>
            /\ UNCHANGED <<changes, idxplus1>>
      /\ Unchanged

RemoveFromList(e) ==
  io' = [io EXCEPT ![EvFd[e]] = [events |-> RemoveFirst(@.events, e),
                                 nread  |-> @.nread - Count(e, "READ"),
                                 nwrite |-> @.nwrite - Count(e, "WRITE")]]

\* event_del_internal clears EVLIST_INSERTED before it calls evmap_io_del.
evmap_io_del(e) ==
  LET fd  == EvFd[e]
      res == (IF "READ" \in EvEvents[e] /\ io[fd].nread = 1 THEN {"READ"} ELSE {})
             \cup (IF "WRITE" \in EvEvents[e] /\ io[fd].nwrite = 1 THEN {"WRITE"} ELSE {})
      r   == epoll_nochangelist_del(fd, Old(fd), res)
  IN  /\ e \in inserted
      /\ inserted' = inserted \ {e}
      /\ \/ /\ res = {}
            /\ RemoveFromList(e)
            /\ UNCHANGED <<changes, idxplus1, kernel>>
         \/ /\ res # {} /\ evsel = "epoll_changelist"
            /\ event_changelist_del(fd, Old(fd), res)
            /\ RemoveFromList(e)
         \/ /\ res # {} /\ evsel = "epoll"
            /\ kernel' = r.k
            /\ IF r.ok THEN RemoveFromList(e) ELSE UNCHANGED io
            /\ UNCHANGED <<changes, idxplus1>>
      /\ Unchanged

-------------------------------------------------------------------------------
(***************************************************************************)
(* epoll_dispatch.                                                         *)
(***************************************************************************)
\* Mutant of event_changelist_remove_all: the indices are not reset.
RemoveAllKeepsIndex == changes' = <<>> /\ UNCHANGED idxplus1

event_changelist_remove_all ==
  /\ changes' = <<>>
  /\ idxplus1' = [fd \in Fd |-> IF \E i \in 1 .. Len(changes) : changes[i].fd = fd
                                THEN 0 ELSE idxplus1[fd]]

\* The changes are made; then the lock is released and epoll_wait called.
DispatchBegins ==
  /\ pc = "run"
  /\ kernel' = epoll_apply_changes(kernel, changes)
  /\ event_changelist_remove_all
  /\ pc' = "wait" /\ activated' = {}
  /\ UNCHANGED <<evsel, io, inserted, file, nevents, results>>

\* Reports that the kernel can make for one registration.
Reports(key) == {[fd |-> key[2], what |-> w] :
                   w \in ((SUBSET (kernel[key] \ {"ET"})) \ {{}}) \cup {{"HUP"}}}

\* epoll_wait returns what became ready, at most nevents reports.
epoll_wait(keys) ==
  /\ pc = "wait"
  /\ keys \subseteq DOMAIN kernel /\ Cardinality(keys) <= nevents
  /\ pc' = "waited"
  /\ \E r \in [keys -> UNION {Reports(k) : k \in keys}] :
       /\ \A k \in keys : r[k] \in Reports(k)
       /\ results' = {r[k] : k \in keys}
  /\ UNCHANGED <<evsel, io, inserted, changes, idxplus1, file, kernel, nevents, activated>>

Reported(r) == IF "HUP" \in r.what THEN {"READ", "WRITE"}
               ELSE (IF "IN" \in r.what THEN {"READ"} ELSE {})
                    \cup (IF "OUT" \in r.what THEN {"WRITE"} ELSE {})

\* evmap_io_active(base, fd, ev | EV_ET), for each report.
evmap_io_active(r) ==
  LET events == Reported(r) \cup {"ET"}
  IN  {[e |-> e, res |-> EvEvents[e] \cap events, why |-> Reported(r)] :
         e \in {x \in ToSet(io[r.fd].events) : EvEvents[x] \cap events # {}}}

\* With the lock again: activate, and make the array larger if it was full.
DispatchEnds ==
  /\ pc = "waited"
  /\ activated' = UNION {evmap_io_active(r) : r \in results}
  /\ nevents' = IF Cardinality(results) = nevents /\ nevents < MAX_NEVENT
                THEN 2 * nevents ELSE nevents
  /\ pc' = "run" /\ results' = {}
  /\ UNCHANGED <<evsel, io, inserted, changes, idxplus1, file, kernel>>

-------------------------------------------------------------------------------
(***************************************************************************)
(* The program's own system calls.                                         *)
(***************************************************************************)
Kept == UNCHANGED <<evsel, io, inserted, changes, idxplus1, nevents, pc, results,
                    activated>>

\* A new file under a free number.
Open(fd, f) ==
  /\ file[fd] = NoFile
  /\ \A g \in Fd : file[g] # f
  /\ file' = [file EXCEPT ![fd] = f]
  /\ UNCHANGED kernel /\ Kept

\* event.h forbids the changelist to programs with descriptors made by dup.
Dup(fd, from) ==
  /\ evsel = "epoll"
  /\ file[fd] = NoFile /\ file[from] # NoFile
  /\ file' = [file EXCEPT ![fd] = file[from]]
  /\ UNCHANGED kernel /\ Kept

Close(fd) ==
  LET f == file[fd]
  IN  /\ f # NoFile
      /\ \A e \in inserted : EvFd[e] # fd
      /\ file' = [file EXCEPT ![fd] = NoFile]
      /\ kernel' = IF \E g \in Fd \ {fd} : file[g] = f THEN kernel
                   ELSE Drop(kernel, {f} \X Fd)
      /\ Kept

-------------------------------------------------------------------------------
Init ==
  /\ evsel \in Backends
  /\ io = [fd \in Fd |-> [events |-> <<>>, nread |-> 0, nwrite |-> 0]]
  /\ inserted = {}
  /\ changes = <<>> /\ idxplus1 = [fd \in Fd |-> 0]
  /\ file = [fd \in Fd |-> NoFile]
  /\ kernel = << >>
  /\ nevents = INITIAL_NEVENT
  /\ pc = "run" /\ results = {} /\ activated = {}

Next ==
  \/ \E e \in Event : evmap_io_add(e) \/ evmap_io_del(e)
  \/ DispatchBegins
  \/ \E keys \in SUBSET (File \X Fd) : epoll_wait(keys)
  \/ DispatchEnds
  \/ \E fd \in Fd : \/ \E f \in File : Open(fd, f)
                    \/ \E from \in Fd : Dup(fd, from)
                    \/ Close(fd)

Spec == Init /\ [][Next]_vars

-------------------------------------------------------------------------------
Change == {"none", "add", "addET", "del"}

\* The types of the state: lists and 16-bit counters (at most MaxCount) of each
\* descriptor, the changelist, and the kernel's table and set of descriptors.
TypeOK ==
  /\ evsel \in Backends
  /\ io \in [Fd -> [events : Seq(Event), nread : 0 .. MaxCount, nwrite : 0 .. MaxCount]]
  /\ inserted \subseteq Event
  /\ changes \in Seq([fd : Fd, old : SUBSET {"READ", "WRITE"}, read : Change, write : Change])
  /\ idxplus1 \in [Fd -> Nat]
  /\ file \in [Fd -> File \cup {NoFile}]
  /\ DOMAIN kernel \subseteq File \X Fd
  /\ \A k \in DOMAIN kernel : kernel[k] \subseteq {"IN", "OUT", "ET"}
  /\ nevents \in Nat
  /\ pc \in {"run", "wait", "waited"}

Readers(fd) == {e \in inserted : EvFd[e] = fd /\ "READ" \in EvEvents[e]}
Writers(fd) == {e \in inserted : EvFd[e] = fd /\ "WRITE" \in EvEvents[e]}

\* The lists hold the inserted events, once, and the counters count them.
ListsRight ==
  \A fd \in Fd :
    /\ ToSet(io[fd].events) = {e \in inserted : EvFd[e] = fd}
    /\ IsInjective(io[fd].events)
    /\ io[fd].nread = Cardinality(Readers(fd)) /\ io[fd].nread <= MaxCount
    /\ io[fd].nwrite = Cardinality(Writers(fd)) /\ io[fd].nwrite <= MaxCount

\* Descriptors and changes index each other.
IndexRight ==
  /\ \A fd \in Fd :
       idxplus1[fd] # 0 => idxplus1[fd] <= Len(changes) /\ changes[idxplus1[fd]].fd = fd
  /\ \A i \in 1 .. Len(changes) : idxplus1[changes[i].fd] = i

\* What evmap_check_integrity and event_changelist_check assert: the lists of
\* the map hold exactly the inserted events, once; the counters are the numbers
\* of readers and writers and fit into 16 bits; descriptors and changes index
\* each other.
MapConsistent == ListsRight /\ IndexRight

Wanted(fd) == {x \in {"IN", "OUT"} :
                 \E e \in inserted : EvFd[e] = fd /\ (IF x = "IN" THEN "READ" ELSE "WRITE")
                                                      \in EvEvents[e]}

\* What would be watched if dispatch were called now.
Watched == epoll_apply_changes(kernel, changes)

\* Whenever dispatch comes to epoll_wait, the kernel watches each open
\* descriptor for exactly what its events want, and nothing on behalf of a
\* descriptor that is closed or now names another file: however often events
\* were added and deleted and descriptors closed, reopened or duplicated since
\* the last time.  (With the changelist a file that epoll refuses is found out
\* only in dispatch.)
KernelMatches ==
  /\ \A fd \in Fd :
       file[fd] # NoFile /\ (evsel = "epoll" \/ file[fd] \notin Unpollable) =>
         Wanted(fd) = (IF <<file[fd], fd>> \in DOMAIN Watched
                       THEN Watched[<<file[fd], fd>>] \ {"ET"} ELSE {})
  /\ \A k \in DOMAIN Watched : file[k[2]] = k[1]

-------------------------------------------------------------------------------
(***************************************************************************)
(* The inductive invariant, in parts.                                      *)
(***************************************************************************)
\* What the kernel's set k watches descriptor fd for.
Seen(k, fd) == IF <<file[fd], fd>> \in DOMAIN k THEN k[<<file[fd], fd>>] \ {"ET"} ELSE {}

\* Every registration is of a descriptor that still names its file, and for something.
KeysRight(k) ==
  /\ k = [x \in DOMAIN k |-> k[x]]
  /\ DOMAIN k \subseteq File \X Fd
  /\ \A x \in DOMAIN k : /\ k[x] \subseteq {"IN", "OUT", "ET"} /\ k[x] \cap {"IN", "OUT"} # {}
                         /\ file[x[2]] = x[1] /\ x[1] \notin Unpollable

Pollable(fd) == file[fd] \notin Unpollable \cup {NoFile}

\* Events are on open descriptors; epoll without the changelist has found out
\* which files cannot be polled, and with it a file has one descriptor.
FilesInv ==
  /\ \A e \in inserted : /\ file[EvFd[e]] # NoFile
                         /\ evsel = "epoll" => file[EvFd[e]] \notin Unpollable
  /\ evsel = "epoll" => changes = <<>>
  /\ evsel = "epoll_changelist" =>
       \A fd, g \in Fd : file[fd] = file[g] /\ file[fd] # NoFile => fd = g

InKernel(old) == (IF "READ" \in old THEN {"IN"} ELSE {}) \cup (IF "WRITE" \in old THEN {"OUT"} ELSE {})

\* Everything that was watched when the entry was made has been changed since.
AllChanged(ch) == /\ "READ" \in ch.old => ch.read # "none"
                  /\ "WRITE" \in ch.old => ch.write # "none"

\* Without an entry in the changelist the kernel watches what is wanted.  With
\* one, the entry leads to what is wanted, from what the kernel watches or, after
\* the descriptor was closed and its number used again, from nothing.
PendingInv ==
  \A fd \in Fd :
    LET ch == changes[idxplus1[fd]]
    IN  /\ idxplus1[fd] = 0 /\ Pollable(fd) => Seen(kernel, fd) = Wanted(fd)
        /\ idxplus1[fd] # 0 => Remaining(ch) = Wanted(fd)
        /\ idxplus1[fd] # 0 /\ Pollable(fd) =>
             \/ Seen(kernel, fd) = InKernel(ch.old)
             \/ Seen(kernel, fd) = {} /\ AllChanged(ch)

MapInv == /\ TypeOK /\ IsFiniteSet(inserted) /\ MapConsistent
          /\ FilesInv /\ KeysRight(kernel) /\ PendingInv

\* event.h on EV_ET: "It tells Libevent to use edge-triggered events".
EdgeTriggered ==
  \A k \in DOMAIN kernel : kernel[k] # {} /\ file[k[2]] = k[1] =>
    ((\A e \in inserted : EvFd[e] = k[2] => "ET" \in EvEvents[e]) => "ET" \in kernel[k])
===============================================================================
