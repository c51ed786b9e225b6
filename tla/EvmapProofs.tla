------------------------------ MODULE EvmapProofs ------------------------------
(***************************************************************************)
(* Proofs about Evmap: for any events, descriptors and files the event map *)
(* and the changelist stay consistent, and what is watched in the kernel   *)
(* is what the events want.  Then about OtherBackends: whatever is asked   *)
(* of poll, select, kqueue, devpoll, evport and win32select, they watch    *)
(* what is wanted.                                                         *)
(***************************************************************************)
EXTENDS MCEvmap, ProofFacts

ChangeRec == [fd : Fd, old : SUBSET {"READ", "WRITE"}, read : Change, write : Change]

Key(fd) == <<file[fd], fd>>

Put(m, key, v) == [x \in DOMAIN m \cup {key} |-> IF x = key THEN v ELSE m[x]]

\* What the kernel does with an operation.
CtlRight(m, op, fd, events) ==
  LET r == epoll_ctl(m, op, fd, events)
  IN  /\ ~Pollable(fd) => r.err \in {"EBADF", "EPERM"} /\ r.k = m
      /\ Pollable(fd) /\ Key(fd) \in DOMAIN m =>
           /\ op = "ADD" => r.err = "EEXIST" /\ r.k = m
           /\ op = "MOD" => r.err = "OK" /\ r.k = Put(m, Key(fd), events)
           /\ op = "DEL" => r.err = "OK" /\ r.k = Drop(m, {Key(fd)})
      /\ Pollable(fd) /\ Key(fd) \notin DOMAIN m =>
           /\ op = "ADD" => r.err = "OK" /\ r.k = Put(m, Key(fd), events)
           /\ op # "ADD" => r.err = "ENOENT" /\ r.k = m

LEMMA CtlFacts ==
  ASSUME NEW m, NEW fd \in Fd, NEW events, NEW op \in {"ADD", "MOD", "DEL"}
  PROVE  CtlRight(m, op, fd, events)
<1> DEFINE set == Put(m, Key(fd), events)
           err == IF file[fd] = NoFile THEN "EBADF"
                  ELSE IF file[fd] \in Unpollable THEN "EPERM"
                  ELSE IF op = "ADD" /\ Key(fd) \in DOMAIN m THEN "EEXIST"
                  ELSE IF op # "ADD" /\ Key(fd) \notin DOMAIN m THEN "ENOENT"
                  ELSE "OK"
           next == IF err # "OK" THEN m
                   ELSE IF op = "DEL" THEN Drop(m, {Key(fd)}) ELSE set
<1>1. epoll_ctl(m, op, fd, events) = [err |-> err, k |-> next]
  BY DEF epoll_ctl, Key, Put
<1>2. ~Pollable(fd) => err \in {"EBADF", "EPERM"}
  BY DEF Pollable
<1>3. Pollable(fd) => err = IF op = "ADD" /\ Key(fd) \in DOMAIN m THEN "EEXIST"
                            ELSE IF op # "ADD" /\ Key(fd) \notin DOMAIN m THEN "ENOENT"
                            ELSE "OK"
  BY DEF Pollable
<1> HIDE DEF err
<1>4. /\ err # "OK" => next = m
      /\ err = "OK" /\ op = "DEL" => next = Drop(m, {Key(fd)})
      /\ err = "OK" /\ op # "DEL" => next = set
  OBVIOUS
<1> HIDE DEF next, set
<1>5. /\ epoll_ctl(m, op, fd, events).err = err
      /\ epoll_ctl(m, op, fd, events).k = next
  BY <1>1
<1> QED  BY <1>2, <1>3, <1>4, <1>5 DEF set, CtlRight

\* What epoll_apply_one_change makes of the kernel's set.
ApplyRight(m, ch) ==
  LET o == EpollOp(ch)
      a == epoll_apply_one_change(m, ch)
  IN  /\ ~Pollable(ch.fd) \/ o.events = {} => a.k = m
      /\ o.events = {} \/ Pollable(ch.fd) \/ o.op = "DEL" => a.ok
      /\ o.events # {} /\ o.op # "DEL" /\ ~Pollable(ch.fd) => ~a.ok
      /\ Pollable(ch.fd) /\ o.events # {} /\ o.op # "DEL" => a.k = Put(m, Key(ch.fd), o.events)
      /\ Pollable(ch.fd) /\ o.events # {} /\ o.op = "DEL" =>
           a.k = IF Key(ch.fd) \in DOMAIN m THEN Drop(m, {Key(ch.fd)}) ELSE m

LEMMA ApplyFacts ==
  ASSUME NEW m, NEW ch, ch.fd \in Fd, EpollOp(ch).op \in {"ADD", "MOD", "DEL"}
  PROVE  ApplyRight(m, ch)
<1> DEFINE o == EpollOp(ch)
           fd == ch.fd
           v == o.events
           r == epoll_ctl(m, o.op, fd, v)
           retry == IF o.op = "MOD" THEN "ADD" ELSE "MOD"
           again == epoll_ctl(m, retry, fd, v)
           a == epoll_apply_one_change(m, ch)
           fine == r.err = "OK" \/ (o.op = "DEL" /\ r.err \in {"ENOENT", "EBADF", "EPERM"})
           fine2 == again.err = "OK"
           Again == <<o.op, r.err>> \in {<<"MOD", "ENOENT">>, <<"ADD", "EEXIST">>}
<1>1. /\ v = {} => a = [ok |-> TRUE, k |-> m]
      /\ v # {} /\ Again => a = [ok |-> fine2, k |-> again.k]
      /\ v # {} /\ ~Again =>
           a = [ok |-> fine, k  |-> r.k]
  BY DEF epoll_apply_one_change
<1>2. Again <=> (o.op = "MOD" /\ r.err = "ENOENT") \/ (o.op = "ADD" /\ r.err = "EEXIST")
  OBVIOUS
<1>w. fine \in BOOLEAN /\ fine2 \in BOOLEAN
  OBVIOUS
<1> HIDE DEF a, Again, fine, fine2
<1>3. v = {} => a.k = m /\ a.ok
  BY <1>1
<1>4. v # {} /\ Again => a.k = again.k /\ (a.ok <=> again.err = "OK")
  <2>1. v # {} /\ Again => a.k = again.k /\ a.ok = fine2
    BY <1>1
  <2> QED  BY <2>1 DEF fine2
<1>5. v # {} /\ ~Again => /\ a.k = r.k
                          /\ a.ok <=> r.err = "OK" \/ (o.op = "DEL" /\ r.err \in {"ENOENT", "EBADF", "EPERM"})
  <2>1. v # {} /\ ~Again => a.k = r.k /\ a.ok = fine
    BY <1>1
  <2> QED  BY <2>1 DEF fine
<1>6. o.op \in {"ADD", "MOD", "DEL"}
  OBVIOUS
<1>f. fd \in Fd
  OBVIOUS
<1> HIDE DEF o, v, fd
<1>c. \A op \in {"ADD", "MOD", "DEL"} : CtlRight(m, op, fd, v)
  BY <1>f, CtlFacts
<1>7. CASE ~Pollable(fd)
  <2>1. r.k = m /\ r.err \in {"EBADF", "EPERM"}
    BY <1>6, <1>7, <1>c DEF CtlRight
  <2>2. ~Again
    BY <1>2, <2>1
  <2> QED  BY <1>3, <1>5, <1>6, <1>7, <2>1, <2>2 DEF o, v, a, fd, ApplyRight
<1>8. CASE Pollable(fd)
  <2>1. CASE o.op = "ADD" /\ Key(fd) \in DOMAIN m
    <3>1. r.err = "EEXIST" /\ again.err = "OK" /\ again.k = Put(m, Key(fd), v)
      BY <1>8, <1>c, <2>1 DEF CtlRight
    <3> QED  BY <1>2, <1>3, <1>4, <1>8, <2>1, <3>1 DEF o, v, a, fd, ApplyRight
  <2>2. CASE o.op = "ADD" /\ Key(fd) \notin DOMAIN m
    <3>1. r.err = "OK" /\ r.k = Put(m, Key(fd), v)
      BY <1>8, <1>c, <2>2 DEF CtlRight
    <3> QED  BY <1>2, <1>3, <1>5, <1>8, <2>2, <3>1 DEF o, v, a, fd, ApplyRight
  <2>3. CASE o.op = "MOD" /\ Key(fd) \in DOMAIN m
    <3>1. r.err = "OK" /\ r.k = Put(m, Key(fd), v)
      BY <1>8, <1>c, <2>3 DEF CtlRight
    <3> QED  BY <1>2, <1>3, <1>5, <1>8, <2>3, <3>1 DEF o, v, a, fd, ApplyRight
  <2>4. CASE o.op = "MOD" /\ Key(fd) \notin DOMAIN m
    <3>1. r.err = "ENOENT" /\ again.err = "OK" /\ again.k = Put(m, Key(fd), v)
      BY <1>8, <1>c, <2>4 DEF CtlRight
    <3> QED  BY <1>2, <1>3, <1>4, <1>8, <2>4, <3>1 DEF o, v, a, fd, ApplyRight
  <2>5. CASE o.op = "DEL"
    <3>1. /\ Key(fd) \in DOMAIN m => r.err = "OK" /\ r.k = Drop(m, {Key(fd)})
          /\ Key(fd) \notin DOMAIN m => r.err = "ENOENT" /\ r.k = m
      BY <1>8, <1>c, <2>5 DEF CtlRight
    <3> QED  BY <1>2, <1>3, <1>5, <1>8, <2>5, <3>1 DEF o, v, a, fd, ApplyRight
  <2> QED  BY <1>6, <2>1, <2>2, <2>3, <2>4, <2>5
<1> QED  BY <1>7, <1>8


\* The operation for a change, and what the change leaves to be watched.
LEMMA OpFacts ==
  ASSUME NEW ch \in ChangeRec
  PROVE  LET o == EpollOp(ch)
         IN  /\ o.op \in {"ADD", "MOD", "DEL"}
             /\ o.events \subseteq {"IN", "OUT", "ET"}
             /\ o.events # {} /\ o.op # "DEL" =>
                  o.events \ {"ET"} = Remaining(ch) /\ o.events \cap {"IN", "OUT"} # {}
             /\ o.events # {} /\ o.op = "DEL" => Remaining(ch) = {}
             /\ o.events = {} => Remaining(ch) = InKernel(ch.old)
             /\ o.events = {} /\ AllChanged(ch) => Remaining(ch) = {}
<1> DEFINE o == EpollOp(ch)
<1>1. /\ ch.read \in {"none", "add", "addET", "del"} /\ ch.write \in {"none", "add", "addET", "del"}
      /\ ch.old \subseteq {"READ", "WRITE"}
  BY DEF ChangeRec, Change
<1>2. CASE Adds(ch.read) \/ Adds(ch.write)
  <2> DEFINE et == IF "addET" \in {ch.read, ch.write} THEN {"ET"} ELSE {}
  <2>1. o = [op |-> IF ch.old = {} THEN "ADD" ELSE "MOD", events |-> Remaining(ch) \cup et]
    BY <1>2 DEF EpollOp
  <2>2. et \subseteq {"ET"}
    OBVIOUS
  <2> HIDE DEF et
  <2>3. o.op \in {"ADD", "MOD"} /\ o.events = Remaining(ch) \cup et
    BY <2>1
  <2>4. Remaining(ch) \subseteq {"IN", "OUT"}
    BY DEF Remaining
  <2>5. Remaining(ch) # {}
    BY <1>2 DEF Remaining
  <2> HIDE DEF o
  <2>6. /\ o.events \subseteq {"IN", "OUT", "ET"} /\ o.events # {}
        /\ o.events \ {"ET"} = Remaining(ch) /\ o.events \cap {"IN", "OUT"} # {}
    BY <2>2, <2>3, <2>4, <2>5
  <2> QED  BY <2>3, <2>6 DEF o
<1>3. CASE /\ ~Adds(ch.read) /\ ~Adds(ch.write)
           /\ ch.read = "del" /\ ch.write # "del" /\ "WRITE" \in ch.old
  <2>1. o = [op |-> "MOD", events |-> {"OUT"}]
    BY <1>3 DEF EpollOp
  <2>2. Remaining(ch) = {"OUT"}
    BY <1>1, <1>3 DEF Remaining, Adds
  <2>3. o.op = "MOD" /\ o.events = {"OUT"}
    BY <2>1
  <2> HIDE DEF o
  <2> QED  BY <2>2, <2>3 DEF o
<1>4. CASE /\ ~Adds(ch.read) /\ ~Adds(ch.write)
           /\ ~(ch.read = "del" /\ ch.write # "del" /\ "WRITE" \in ch.old)
           /\ ch.write = "del" /\ ch.read # "del" /\ "READ" \in ch.old
  <2>1. o = [op |-> "MOD", events |-> {"IN"}]
    BY <1>4 DEF EpollOp
  <2>2. Remaining(ch) = {"IN"}
    BY <1>1, <1>4 DEF Remaining, Adds
  <2>3. o.op = "MOD" /\ o.events = {"IN"}
    BY <2>1
  <2> HIDE DEF o
  <2> QED  BY <2>2, <2>3 DEF o
<1>5. CASE /\ ~Adds(ch.read) /\ ~Adds(ch.write)
           /\ ~(ch.read = "del" /\ ch.write # "del" /\ "WRITE" \in ch.old)
           /\ ~(ch.write = "del" /\ ch.read # "del" /\ "READ" \in ch.old)
  <2> DEFINE v == (IF ch.read = "del" THEN {"IN"} ELSE {}) \cup (IF ch.write = "del" THEN {"OUT"} ELSE {})
  <2>1. o = [op |-> "DEL", events |-> v]
    BY <1>5 DEF EpollOp
  <2>2. o.op = "DEL" /\ o.events = v
    BY <2>1
  <2>3. v \subseteq {"IN", "OUT", "ET"}
    OBVIOUS
  <2>4. v # {} => ch.read = "del" \/ ch.write = "del"
    OBVIOUS
  <2>5. v = {} => ch.read # "del" /\ ch.write # "del"
    OBVIOUS
  <2>6. v # {} => Remaining(ch) = {}
    BY <1>1, <1>5, <2>4 DEF Remaining, Adds
  <2>7. v = {} => ch.read = "none" /\ ch.write = "none"
    BY <1>1, <1>5, <2>5 DEF Adds
  <2>8. v = {} => Remaining(ch) = InKernel(ch.old)
    BY <2>7 DEF Remaining, Adds, InKernel
  <2>9. v = {} /\ AllChanged(ch) => Remaining(ch) = {}
    BY <2>7, <2>8 DEF AllChanged, InKernel
  <2> HIDE DEF o, v
  <2> QED  BY <2>2, <2>3, <2>6, <2>8, <2>9 DEF o
<1> QED  BY <1>2, <1>3, <1>4, <1>5

LEMMA KeysApart ==
  ASSUME NEW fd \in Fd, NEW g \in Fd, fd # g
  PROVE  Key(fd) # Key(g)
BY DEF Key

Watches(v) == v \subseteq {"IN", "OUT", "ET"} /\ v \cap {"IN", "OUT"} # {}

LEMMA PutFacts ==
  ASSUME NEW m, KeysRight(m), NEW fd \in Fd, Pollable(fd), file \in [Fd -> File \cup {NoFile}],
         NEW v, Watches(v)
  PROVE  /\ KeysRight(Put(m, Key(fd), v))
         /\ Seen(Put(m, Key(fd), v), fd) = v \ {"ET"}
         /\ \A g \in Fd \ {fd} : Seen(Put(m, Key(fd), v), g) = Seen(m, g)
<1> DEFINE p == Put(m, Key(fd), v)
<1>1. /\ DOMAIN p = DOMAIN m \cup {Key(fd)} /\ p[Key(fd)] = v
      /\ \A x \in DOMAIN m : x # Key(fd) => p[x] = m[x]
      /\ p = [x \in DOMAIN p |-> p[x]]
  BY DEF Put
<1>2. /\ Key(fd) \in File \X Fd /\ Key(fd)[1] = file[fd] /\ Key(fd)[2] = fd
      /\ file[fd] \notin Unpollable
  BY DEF Key, Pollable
<1> HIDE DEF p
<1>3. KeysRight(p)
  BY <1>1, <1>2 DEF KeysRight, Watches
<1>4. Seen(p, fd) = v \ {"ET"}
  BY <1>1 DEF Seen, Key
<1>5. ASSUME NEW g \in Fd \ {fd}
      PROVE  Seen(p, g) = Seen(m, g)
  <2>1. Key(g) # Key(fd)
    BY KeysApart
  <2>2. Seen(p, g) = IF Key(g) \in DOMAIN p THEN p[Key(g)] \ {"ET"} ELSE {}
    BY DEF Seen, Key
  <2>3. Seen(m, g) = IF Key(g) \in DOMAIN m THEN m[Key(g)] \ {"ET"} ELSE {}
    BY DEF Seen, Key
  <2> QED  BY <1>1, <2>1, <2>2, <2>3
<1> QED  BY <1>3, <1>4, <1>5 DEF p

LEMMA DropFacts ==
  ASSUME NEW m, KeysRight(m), NEW fd \in Fd
  PROVE  /\ KeysRight(Drop(m, {Key(fd)}))
         /\ Seen(Drop(m, {Key(fd)}), fd) = {}
         /\ \A g \in Fd \ {fd} : Seen(Drop(m, {Key(fd)}), g) = Seen(m, g)
<1> DEFINE p == Drop(m, {Key(fd)})
<1>1. /\ DOMAIN p = DOMAIN m \ {Key(fd)}
      /\ \A x \in DOMAIN p : p[x] = m[x]
      /\ p = [x \in DOMAIN p |-> p[x]]
  BY DEF Drop
<1> HIDE DEF p
<1>3. KeysRight(p)
  BY <1>1 DEF KeysRight
<1>4. Seen(p, fd) = {}
  BY <1>1 DEF Seen, Key
<1>5. ASSUME NEW g \in Fd \ {fd}
      PROVE  Seen(p, g) = Seen(m, g)
  <2>1. Key(g) # Key(fd)
    BY KeysApart
  <2>2. Seen(p, g) = IF Key(g) \in DOMAIN p THEN p[Key(g)] \ {"ET"} ELSE {}
    BY DEF Seen, Key
  <2>3. Seen(m, g) = IF Key(g) \in DOMAIN m THEN m[Key(g)] \ {"ET"} ELSE {}
    BY DEF Seen, Key
  <2> QED  BY <1>1, <2>1, <2>2, <2>3
<1> QED  BY <1>3, <1>4, <1>5 DEF p

\* A set after one change: the other descriptors are watched as before, and the
\* one of the change for what the change leaves, if it began where the kernel is.
Began(m, ch) == \/ Seen(m, ch.fd) = InKernel(ch.old)
                \/ Seen(m, ch.fd) = {} /\ AllChanged(ch)

AfterChange(m, r, ch) ==
  /\ KeysRight(r)
  /\ \A g \in Fd \ {ch.fd} : Seen(r, g) = Seen(m, g)
  /\ Pollable(ch.fd) /\ Began(m, ch) => Seen(r, ch.fd) = Remaining(ch)

LEMMA OneChange ==
  ASSUME NEW m, KeysRight(m), NEW ch \in ChangeRec, file \in [Fd -> File \cup {NoFile}]
  PROVE  AfterChange(m, epoll_apply_one_change(m, ch).k, ch)
<1> DEFINE o == EpollOp(ch)
           r == epoll_apply_one_change(m, ch).k
<1>1. /\ o.op \in {"ADD", "MOD", "DEL"}
      /\ o.events \subseteq {"IN", "OUT", "ET"}
      /\ o.events # {} /\ o.op # "DEL" =>
           o.events \ {"ET"} = Remaining(ch) /\ o.events \cap {"IN", "OUT"} # {}
      /\ o.events # {} /\ o.op = "DEL" => Remaining(ch) = {}
      /\ o.events = {} => Remaining(ch) = InKernel(ch.old)
      /\ o.events = {} /\ AllChanged(ch) => Remaining(ch) = {}
  BY OpFacts
<1>2. /\ ~Pollable(ch.fd) \/ o.events = {} => r = m
      /\ Pollable(ch.fd) /\ o.events # {} /\ o.op # "DEL" => r = Put(m, Key(ch.fd), o.events)
      /\ Pollable(ch.fd) /\ o.events # {} /\ o.op = "DEL" =>
           r = IF Key(ch.fd) \in DOMAIN m THEN Drop(m, {Key(ch.fd)}) ELSE m
  <2>1. ApplyRight(m, ch)
    BY <1>1, ApplyFacts DEF ChangeRec
  <2> QED  BY <2>1 DEF ApplyRight
<1> DEFINE fd == ch.fd
           v == o.events
<1>3. fd \in Fd
  BY DEF ChangeRec
<1> SUFFICES /\ KeysRight(r)
             /\ \A g \in Fd \ {fd} : Seen(r, g) = Seen(m, g)
             /\ Pollable(fd) /\ Began(m, ch) => Seen(r, fd) = Remaining(ch)
  BY DEF AfterChange
<1>b. Began(m, ch) => Seen(m, fd) = InKernel(ch.old) \/ (Seen(m, fd) = {} /\ AllChanged(ch))
  BY DEF Began
<1> HIDE DEF o, r, fd, v
<1>4. CASE ~Pollable(fd) \/ v = {}
  <2>1. r = m
    BY <1>2, <1>4 DEF fd, v
  <2>2. v = {} /\ Began(m, ch) => Seen(m, fd) = Remaining(ch)
    BY <1>1, <1>b DEF v
  <2> QED  BY <1>4, <2>1, <2>2
<1>5. CASE Pollable(fd) /\ v # {} /\ o.op # "DEL"
  <2>1. r = Put(m, Key(fd), v) /\ v \ {"ET"} = Remaining(ch)
    BY <1>1, <1>2, <1>5 DEF fd, v
  <2>2. Watches(v)
    BY <1>1, <1>5 DEF v, Watches
  <2>3. /\ KeysRight(Put(m, Key(fd), v))
        /\ Seen(Put(m, Key(fd), v), fd) = v \ {"ET"}
        /\ \A g \in Fd \ {fd} : Seen(Put(m, Key(fd), v), g) = Seen(m, g)
    BY <1>3, <1>5, <2>2, PutFacts
  <2> QED  BY <2>1, <2>3
<1>6. CASE Pollable(fd) /\ v # {} /\ o.op = "DEL"
  <2>1. Key(fd) \notin DOMAIN m => Seen(m, fd) = {}
    BY DEF Seen, Key
  <2>2. r = (IF Key(fd) \in DOMAIN m THEN Drop(m, {Key(fd)}) ELSE m) /\ Remaining(ch) = {}
    BY <1>1, <1>2, <1>6 DEF fd, v
  <2> QED  BY <1>3, <2>1, <2>2, DropFacts
<1> QED  BY <1>4, <1>5, <1>6


Applied(m, ch) == epoll_apply_one_change(m, ch).k

\* The sets that epoll_apply_changes goes through.
LEMMA ChangesOneByOne ==
  ASSUME NEW m, NEW list, Len(list) \in Nat
  PROVE  \E g : /\ g[0] = m /\ \A i \in 1 .. Len(list) : g[i] = Applied(g[i - 1], list[i])
                /\ epoll_apply_changes(m, list) = g[Len(list)]
<1> DEFINE Next1(g, i) == IF i = 0 THEN m ELSE Applied(g[i - 1], list[i])
           Is(g, n) == g = [i \in 0 .. n |-> Next1(g, i)]
           P == {n \in Nat : \E g : Is(g, n)}
<1>1. 0 \in P
  <2> DEFINE g == [i \in 0 .. 0 |-> m]
  <2>1. Is(g, 0)
    <3>1. \A i \in 0 .. 0 : Next1(g, i) = m
      OBVIOUS
    <3> QED  BY <3>1
  <2> QED  BY <2>1
<1>2. ASSUME NEW n \in Nat, n \in P
      PROVE  n + 1 \in P
  <2>1. PICK g : Is(g, n)
    BY <1>2
  <2> DEFINE v == Applied(g[n], list[n + 1])
             h == [i \in 0 .. n + 1 |-> IF i <= n THEN g[i] ELSE v]
  <2>2. DOMAIN g = 0 .. n /\ \A i \in 0 .. n : g[i] = Next1(g, i)
    BY <2>1
  <2>3. \A i \in 0 .. n : h[i] = g[i]
    OBVIOUS
  <2>4. h[n + 1] = v
    OBVIOUS
  <2>5. \A i \in 0 .. n + 1 : h[i] = Next1(h, i)
    <3> SUFFICES ASSUME NEW i \in 0 .. n + 1
                 PROVE  h[i] = Next1(h, i)
      OBVIOUS
    <3> HIDE DEF h
    <3>1. CASE i = 0
      BY <2>2, <2>3, <3>1
    <3>2. CASE i # 0 /\ i <= n
      <4>1. i - 1 \in 0 .. n /\ i \in 0 .. n
        BY <3>2
      <4>2. h[i] = Next1(g, i) /\ h[i - 1] = g[i - 1]
        BY <2>2, <2>3, <4>1
      <4> QED  BY <3>2, <4>2
    <3>3. CASE i = n + 1
      <4>1. i - 1 = n /\ n \in 0 .. n /\ i # 0
        BY <3>3
      <4>2. h[i] = v /\ h[i - 1] = g[n]
        BY <2>3, <2>4, <3>3, <4>1
      <4> QED  BY <3>3, <4>1, <4>2
    <3> QED  BY <3>1, <3>2, <3>3
  <2>6. Is(h, n + 1)
    <3>1. h = [i \in 0 .. n + 1 |-> h[i]]
      OBVIOUS
    <3> HIDE DEF h
    <3> QED  BY <2>5, <3>1
  <2> HIDE DEF h, Is
  <2>7. n + 1 \in Nat /\ \E x : Is(x, n + 1)
    BY <2>6
  <2> QED  BY <2>7
<1>3. \A n \in Nat : \E g : Is(g, n)
  <2>1. Nat \subseteq P
    <3> HIDE DEF P
    <3> QED  BY <1>1, <1>2, NaturalInduction
  <2> QED  BY <2>1
<1> DEFINE f == CHOOSE g : Is(g, Len(list))
<1>4. Is(f, Len(list))
  BY <1>3
<1>5. epoll_apply_changes(m, list) = f[Len(list)]
  BY DEF epoll_apply_changes, Applied
<1> HIDE DEF f
<1>6. \A i \in 0 .. Len(list) : f[i] = Next1(f, i)
  BY <1>4
<1>7. f[0] = m /\ \A i \in 1 .. Len(list) : f[i] = Applied(f[i - 1], list[i])
  BY <1>6
<1> QED  BY <1>5, <1>7

\* What dispatch would make of the kernel's set is what the events want.
LEMMA ChangesLead ==
  ASSUME TypeOK, MapConsistent, KeysRight(kernel), PendingInv
  PROVE  KeysRight(Watched) /\ \A fd \in Fd : Pollable(fd) => Seen(Watched, fd) = Wanted(fd)
<1>0. /\ changes \in Seq(ChangeRec) /\ Len(changes) \in Nat /\ idxplus1 \in [Fd -> Nat]
      /\ file \in [Fd -> File \cup {NoFile}]
  BY DEF TypeOK, ChangeRec
<1>1. PICK g : /\ g[0] = kernel
               /\ \A i \in 1 .. Len(changes) : g[i] = Applied(g[i - 1], changes[i])
               /\ Watched = g[Len(changes)]
  BY <1>0, ChangesOneByOne DEF Watched
<1> DEFINE Q(i) == /\ KeysRight(g[i])
                   /\ \A fd \in Fd :
                        /\ idxplus1[fd] = 0 \/ idxplus1[fd] > i => Seen(g[i], fd) = Seen(kernel, fd)
                        /\ idxplus1[fd] # 0 /\ idxplus1[fd] <= i /\ Pollable(fd) =>
                             Seen(g[i], fd) = Remaining(changes[idxplus1[fd]])
           P == {i \in Nat : i <= Len(changes) => Q(i)}
<1>2. 0 \in P
  BY <1>0, <1>1
<1>3. ASSUME NEW i \in Nat, i \in P
      PROVE  i + 1 \in P
  <2> SUFFICES ASSUME i + 1 <= Len(changes)
               PROVE  Q(i + 1)
    OBVIOUS
  <2> DEFINE ch == changes[i + 1]
  <2>1. Q(i)
    BY <1>0, <1>3
  <2>2. i + 1 \in 1 .. Len(changes) /\ ch \in ChangeRec /\ ch.fd \in Fd
    <3>1. i + 1 \in 1 .. Len(changes)
      BY <1>0
    <3>2. ch \in ChangeRec
      BY <1>0, <3>1
    <3> QED  BY <3>1, <3>2 DEF ChangeRec
  <2>3. idxplus1[ch.fd] = i + 1
    BY <2>2 DEF MapConsistent, IndexRight
  <2>4. g[i + 1] = epoll_apply_one_change(g[i], ch).k
    <3>1. g[i + 1] = Applied(g[(i + 1) - 1], changes[i + 1]) /\ (i + 1) - 1 = i
      BY <1>1, <2>2
    <3> QED  BY <3>1 DEF Applied
  <2> HIDE DEF ch
  <2>5. AfterChange(g[i], g[i + 1], ch)
    BY <1>0, <2>1, <2>2, <2>4, OneChange
  <2>6. Pollable(ch.fd) => Seen(g[i + 1], ch.fd) = Remaining(ch)
    <3>1. Seen(g[i], ch.fd) = Seen(kernel, ch.fd)
      BY <2>1, <2>2, <2>3
    <3>2. Pollable(ch.fd) => Began(g[i], ch)
      BY <2>2, <2>3, <3>1 DEF PendingInv, Began, ch
    <3> QED  BY <2>5, <3>2 DEF AfterChange
  <2>7. KeysRight(g[i + 1]) /\ \A fd \in Fd \ {ch.fd} : Seen(g[i + 1], fd) = Seen(g[i], fd)
    BY <2>5 DEF AfterChange
  <2>8. ASSUME NEW fd \in Fd
        PROVE  /\ idxplus1[fd] = 0 \/ idxplus1[fd] > i + 1 => Seen(g[i + 1], fd) = Seen(kernel, fd)
               /\ idxplus1[fd] # 0 /\ idxplus1[fd] <= i + 1 /\ Pollable(fd) =>
                    Seen(g[i + 1], fd) = Remaining(changes[idxplus1[fd]])
    <3>1. CASE fd = ch.fd
      <4>1. changes[idxplus1[fd]] = ch /\ idxplus1[fd] = i + 1
        BY <2>3, <3>1 DEF ch
      <4> QED  BY <2>6, <3>1, <4>1
    <3>2. CASE fd # ch.fd
      <4>1. idxplus1[fd] \in Nat /\ idxplus1[fd] # i + 1
        <5>1. idxplus1[fd] # 0 => changes[idxplus1[fd]].fd = fd
          BY DEF MapConsistent, IndexRight
        <5> QED  BY <1>0, <3>2, <5>1 DEF ch
      <4>2. Seen(g[i + 1], fd) = Seen(g[i], fd)
        BY <2>7, <3>2
      <4> QED  BY <2>1, <4>1, <4>2
    <3> QED  BY <3>1, <3>2
  <2> QED  BY <2>7, <2>8
<1>4. Q(Len(changes))
  <2>1. Nat \subseteq P
    <3> HIDE DEF P
    <3> QED  BY <1>2, <1>3, NaturalInduction
  <2> QED  BY <1>0, <2>1
<1>5. ASSUME NEW fd \in Fd, Pollable(fd)
      PROVE  Seen(Watched, fd) = Wanted(fd)
  <2>1. CASE idxplus1[fd] = 0
    BY <1>1, <1>4, <1>5, <2>1 DEF PendingInv
  <2>2. CASE idxplus1[fd] # 0
    <3>1. idxplus1[fd] <= Len(changes)
      BY <2>2 DEF MapConsistent, IndexRight
    <3>2. Remaining(changes[idxplus1[fd]]) = Wanted(fd)
      BY <2>2 DEF PendingInv
    <3> QED  BY <1>1, <1>4, <1>5, <2>2, <3>1, <3>2
  <2> QED  BY <2>1, <2>2
<1> QED  BY <1>1, <1>4, <1>5


\* The invariant gives what the runs check.
LEMMA InvMatches == MapInv => MapConsistent /\ KernelMatches
<1> SUFFICES ASSUME MapInv
             PROVE  KernelMatches
  BY DEF MapInv
<1>1. /\ KeysRight(Watched)
      /\ \A fd \in Fd : Pollable(fd) => Seen(Watched, fd) = Wanted(fd)
  BY ChangesLead DEF MapInv
<1>2. ASSUME NEW fd \in Fd, file[fd] # NoFile, evsel = "epoll" \/ file[fd] \notin Unpollable
      PROVE  Wanted(fd) = Seen(Watched, fd)
  <2>1. CASE Pollable(fd)
    BY <1>1, <2>1
  <2>2. CASE ~Pollable(fd)
    <3>1. evsel = "epoll" /\ file[fd] \in Unpollable
      BY <1>2, <2>2 DEF Pollable
    <3>2. Wanted(fd) = {}
      BY <3>1 DEF MapInv, FilesInv, Wanted
    <3>3. <<file[fd], fd>> \notin DOMAIN Watched
      BY <1>1, <3>1 DEF KeysRight
    <3> QED  BY <3>2, <3>3 DEF Seen
  <2> QED  BY <2>1, <2>2
<1>3. \A x \in DOMAIN Watched : file[x[2]] = x[1]
  BY <1>1 DEF KeysRight
<1> HIDE DEF Watched
<1> QED  BY <1>2, <1>3 DEF KernelMatches, Seen

LEMMA MapInit == Init => MapInv
<1> SUFFICES ASSUME Init
             PROVE  MapInv
  OBVIOUS
<1> USE EvmapAssumption DEF Init
<1>1. \A fd \in Fd : io[fd] = [events |-> <<>>, nread |-> 0, nwrite |-> 0]
  OBVIOUS
<1>2. TypeOK
  <2>1. io \in [Fd -> [events : Seq(Event), nread : 0 .. MaxCount, nwrite : 0 .. MaxCount]]
    OBVIOUS
  <2>2. changes \in Seq([fd : Fd, old : SUBSET {"READ", "WRITE"}, read : Change, write : Change])
    OBVIOUS
  <2> QED  BY <2>1, <2>2 DEF TypeOK
<1>3. ListsRight
  <2> SUFFICES ASSUME NEW fd \in Fd
               PROVE  /\ ToSet(io[fd].events) = {e \in inserted : EvFd[e] = fd}
                      /\ IsInjective(io[fd].events)
                      /\ io[fd].nread = Cardinality(Readers(fd)) /\ io[fd].nread <= MaxCount
                      /\ io[fd].nwrite = Cardinality(Writers(fd)) /\ io[fd].nwrite <= MaxCount
    BY DEF ListsRight
  <2>1. io[fd].events = <<>> /\ io[fd].nread = 0 /\ io[fd].nwrite = 0
    BY <1>1
  <2>2. Readers(fd) = {} /\ Writers(fd) = {} /\ {e \in inserted : EvFd[e] = fd} = {}
    BY DEF Readers, Writers
  <2>3. ToSet(<<>>) = {} /\ IsInjective(<<>>)
    <3>1. <<>> \in Seq(Event)
      OBVIOUS
    <3>2. ToSet(<<>>) = {}
      BY <3>1, ElementsInRange
    <3>3. DOMAIN <<>> = {}
      OBVIOUS
    <3>4. IsInjective(<<>>)
      BY <3>3 DEF IsInjective
    <3> QED  BY <3>2, <3>4
  <2>4. Cardinality({}) = 0
    BY FS_EmptySet
  <2>5. 0 <= MaxCount
    OBVIOUS
  <2> QED  BY <2>1, <2>2, <2>3, <2>4, <2>5
<1>4. IndexRight
  BY DEF IndexRight
<1>5. FilesInv /\ IsFiniteSet(inserted)
  BY FS_EmptySet DEF FilesInv
<1>6. DOMAIN kernel = {} /\ kernel = [x \in DOMAIN kernel |-> kernel[x]]
  OBVIOUS
<1>7. KeysRight(kernel)
  BY <1>6 DEF KeysRight
<1>8. PendingInv
  BY <1>6 DEF PendingInv, Seen, Wanted, Pollable
<1> QED  BY <1>2, <1>3, <1>4, <1>5, <1>7, <1>8 DEF MapInv, MapConsistent


-------------------------------------------------------------------------------
(***************************************************************************)
(* The lists and counters.                                                 *)
(***************************************************************************)
IoRec == [events : Seq(Event), nread : 0 .. MaxCount, nwrite : 0 .. MaxCount]

LEMMA IoUpdate ==
  ASSUME io \in [Fd -> IoRec], NEW fd \in Fd, NEW q \in Seq(Event),
         NEW r \in 0 .. MaxCount, NEW w \in 0 .. MaxCount,
         io' = [io EXCEPT ![fd] = [events |-> q, nread |-> r, nwrite |-> w]]
  PROVE  /\ io' \in [Fd -> IoRec]
         /\ io'[fd].events = q /\ io'[fd].nread = r /\ io'[fd].nwrite = w
         /\ \A g \in Fd \ {fd} : io'[g] = io[g]
<1> DEFINE v == [events |-> q, nread |-> r, nwrite |-> w]
<1>1. v \in IoRec /\ v.events = q /\ v.nread = r /\ v.nwrite = w
  BY DEF IoRec
<1> HIDE DEF v
<1>2. io' = [io EXCEPT ![fd] = v]
  BY DEF v
<1> QED  BY <1>1, <1>2

LEMMA IoFields ==
  ASSUME NEW x \in IoRec
  PROVE  /\ x.events \in Seq(Event) /\ x.nread \in Nat /\ x.nwrite \in Nat
         /\ x = [events |-> x.events, nread |-> x.nread, nwrite |-> x.nwrite]
BY DEF IoRec

\* The readers and the writers are finitely many; one more is counted.
LEMMA CountAdds ==
  ASSUME NEW S, NEW T, NEW e, IsFiniteSet(S), e \notin S,
         NEW b, T = IF b THEN S \cup {e} ELSE S
  PROVE  Cardinality(T) = Cardinality(S) + IF b THEN 1 ELSE 0
<1>1. Cardinality(S) \in Nat
  BY FS_CardinalityType
<1>2. CASE b
  BY <1>2, FS_AddElement
<1>3. CASE ~b
  BY <1>1, <1>3
<1> QED  BY <1>2, <1>3

LEMMA CountRemoves ==
  ASSUME NEW S, NEW T, NEW e, IsFiniteSet(S), NEW b, b <=> e \in S, T = S \ {e}
  PROVE  Cardinality(T) = Cardinality(S) - IF b THEN 1 ELSE 0
<1>1. Cardinality(S) \in Nat
  BY FS_CardinalityType
<1>2. CASE b
  BY <1>2, FS_RemoveElement
<1>3. CASE ~b
  <2>1. T = S
    BY <1>3
  <2> QED  BY <1>1, <1>3, <2>1
<1> QED  BY <1>2, <1>3

LEMMA KindsFinite ==
  ASSUME IsFiniteSet(inserted), NEW fd
  PROVE  IsFiniteSet(Readers(fd)) /\ IsFiniteSet(Writers(fd))
BY FS_Subset DEF Readers, Writers

ListAt(fd) ==
  /\ ToSet(io[fd].events) = {e \in inserted : EvFd[e] = fd}
  /\ IsInjective(io[fd].events)
  /\ io[fd].nread = Cardinality(Readers(fd)) /\ io[fd].nread <= MaxCount
  /\ io[fd].nwrite = Cardinality(Writers(fd)) /\ io[fd].nwrite <= MaxCount

LEMMA ListsAt == (ListsRight <=> \A fd \in Fd : ListAt(fd)) /\ (ListsRight' <=> \A fd \in Fd : ListAt(fd)')
BY DEF ListsRight, ListAt

\* A descriptor whose list and events a step leaves alone.
LEMMA ListElsewhere ==
  ASSUME NEW g, ListAt(g), io'[g] = io[g],
         \A e : EvFd[e] = g => (e \in inserted' <=> e \in inserted)
  PROVE  ListAt(g)'
<1>1. /\ {e \in inserted' : EvFd[e] = g} = {e \in inserted : EvFd[e] = g}
      /\ Readers(g)' = Readers(g) /\ Writers(g)' = Writers(g)
  BY DEF Readers, Writers
<1> QED  BY <1>1 DEF ListAt

LEMMA ListsAdd ==
  ASSUME io \in [Fd -> IoRec], inserted \subseteq Event, IsFiniteSet(inserted), ListsRight,
         NEW e \in Event, e \notin inserted, AddToList(e),
         io[EvFd[e]].nread + Count(e, "READ") <= MaxCount,
         io[EvFd[e]].nwrite + Count(e, "WRITE") <= MaxCount
  PROVE  /\ io' \in [Fd -> IoRec] /\ inserted' \subseteq Event
         /\ IsFiniteSet(inserted') /\ ListsRight'
<1> DEFINE fd == EvFd[e]
           q == Append(io[fd].events, e)
           r == io[fd].nread + Count(e, "READ")
           w == io[fd].nwrite + Count(e, "WRITE")
<1> USE EvmapAssumption
<1>1. fd \in Fd /\ inserted' = inserted \cup {e}
  BY DEF AddToList
<1>2. /\ Count(e, "READ") = (IF "READ" \in EvEvents[e] THEN 1 ELSE 0)
      /\ Count(e, "WRITE") = (IF "WRITE" \in EvEvents[e] THEN 1 ELSE 0)
  BY DEF Count
<1>3. /\ io[fd] \in IoRec /\ io[fd].events \in Seq(Event) /\ io[fd].nread \in Nat
      /\ io[fd].nwrite \in Nat
      /\ io[fd] = [events |-> io[fd].events, nread |-> io[fd].nread, nwrite |-> io[fd].nwrite]
  BY <1>1, IoFields
<1>4. q \in Seq(Event) /\ r \in 0 .. MaxCount /\ w \in 0 .. MaxCount
  BY <1>2, <1>3
<1>5. io' = [io EXCEPT ![fd] = [events |-> q, nread |-> r, nwrite |-> w]]
  BY DEF AddToList
<1>6. /\ io' \in [Fd -> IoRec]
      /\ io'[fd].events = q /\ io'[fd].nread = r /\ io'[fd].nwrite = w
      /\ \A g \in Fd \ {fd} : io'[g] = io[g]
  <2> HIDE DEF fd, q, r, w
  <2> QED  BY <1>1, <1>4, <1>5, IoUpdate
<1>7. IsFiniteSet(inserted') /\ inserted' \subseteq Event
  BY <1>1, FS_AddElement
<1>8. ASSUME NEW g \in Fd \ {fd}
      PROVE  ListAt(g)'
  <2>1. ListAt(g)
    BY ListsAt
  <2>2. \A x : EvFd[x] = g => (x \in inserted' <=> x \in inserted)
    BY <1>1
  <2> HIDE DEF fd
  <2> QED  BY <1>6, <2>1, <2>2, ListElsewhere
<1>9. ListAt(fd)'
  <2>1. ListAt(fd)
    BY <1>1, ListsAt
  <2>2. e \notin ToSet(io[fd].events) /\ {x \in inserted' : EvFd[x] = fd} = {x \in inserted : EvFd[x] = fd} \cup {e}
    BY <1>1, <2>1 DEF ListAt
  <2>3. /\ Readers(fd)' = IF "READ" \in EvEvents[e] THEN Readers(fd) \cup {e} ELSE Readers(fd)
        /\ Writers(fd)' = IF "WRITE" \in EvEvents[e] THEN Writers(fd) \cup {e} ELSE Writers(fd)
        /\ e \notin Readers(fd) /\ e \notin Writers(fd)
    BY <1>1 DEF Readers, Writers
  <2> HIDE DEF fd
  <2>4. /\ Cardinality(Readers(fd)') = Cardinality(Readers(fd)) + Count(e, "READ")
        /\ Cardinality(Writers(fd)') = Cardinality(Writers(fd)) + Count(e, "WRITE")
    BY <1>2, <2>3, KindsFinite, CountAdds
  <2>5. ToSet(q) = ToSet(io[fd].events) \cup {e} /\ IsInjective(q)
    BY <1>3, <2>1, <2>2, AppendElements DEF ListAt
  <2>6. io'[fd].nread <= MaxCount /\ io'[fd].nwrite <= MaxCount
    BY <1>4, <1>6
  <2> HIDE DEF q
  <2>7. /\ io[fd].nread = Cardinality(Readers(fd)) /\ io[fd].nwrite = Cardinality(Writers(fd))
        /\ ToSet(io[fd].events) = {x \in inserted : EvFd[x] = fd}
    BY <2>1 DEF ListAt
  <2>8. /\ io'[fd].nread = Cardinality(Readers(fd)') /\ io'[fd].nwrite = Cardinality(Writers(fd)')
        /\ ToSet(io'[fd].events) = {x \in inserted' : EvFd[x] = fd}
        /\ IsInjective(io'[fd].events)
    BY <1>6, <2>2, <2>4, <2>5, <2>7
  <2> QED  BY <2>6, <2>8 DEF ListAt
<1> QED  BY <1>6, <1>7, <1>8, <1>9, ListsAt

LEMMA ListsRemove ==
  ASSUME io \in [Fd -> IoRec], inserted \subseteq Event, IsFiniteSet(inserted), ListsRight,
         NEW e \in Event, e \in inserted, RemoveFromList(e), inserted' = inserted \ {e}
  PROVE  /\ io' \in [Fd -> IoRec] /\ inserted' \subseteq Event
         /\ IsFiniteSet(inserted') /\ ListsRight'
<1> DEFINE fd == EvFd[e]
           q == RemoveFirst(io[fd].events, e)
           r == io[fd].nread - Count(e, "READ")
           w == io[fd].nwrite - Count(e, "WRITE")
<1> USE EvmapAssumption
<1>1. fd \in Fd
  OBVIOUS
<1>2. /\ Count(e, "READ") = (IF "READ" \in EvEvents[e] THEN 1 ELSE 0)
      /\ Count(e, "WRITE") = (IF "WRITE" \in EvEvents[e] THEN 1 ELSE 0)
  BY DEF Count
<1>3. /\ io[fd] \in IoRec /\ io[fd].events \in Seq(Event) /\ io[fd].nread \in Nat
      /\ io[fd].nwrite \in Nat
      /\ io[fd] = [events |-> io[fd].events, nread |-> io[fd].nread, nwrite |-> io[fd].nwrite]
  BY <1>1, IoFields
<1>l. ListAt(fd)
  BY <1>1, ListsAt
<1>a. /\ e \in ToSet(io[fd].events) /\ {x \in inserted' : EvFd[x] = fd} = {x \in inserted : EvFd[x] = fd} \ {e}
      /\ ToSet(io[fd].events) = {x \in inserted : EvFd[x] = fd} /\ IsInjective(io[fd].events)
  BY <1>l DEF ListAt
<1>b. /\ Readers(fd)' = Readers(fd) \ {e} /\ Writers(fd)' = Writers(fd) \ {e}
      /\ "READ" \in EvEvents[e] <=> e \in Readers(fd)
      /\ "WRITE" \in EvEvents[e] <=> e \in Writers(fd)
  BY <1>1 DEF Readers, Writers
<1>c. q \in Seq(Event) /\ IsInjective(q) /\ ToSet(q) = ToSet(io[fd].events) \ {e}
  <2> HIDE DEF fd
  <2> QED  BY <1>3, <1>a, RemoveFirstFacts
<1>d. /\ Cardinality(Readers(fd)') = Cardinality(Readers(fd)) - Count(e, "READ")
      /\ Cardinality(Writers(fd)') = Cardinality(Writers(fd)) - Count(e, "WRITE")
  <2> HIDE DEF fd
  <2> QED  BY <1>2, <1>b, KindsFinite, CountRemoves
<1>e. /\ io[fd].nread = Cardinality(Readers(fd)) /\ io[fd].nwrite = Cardinality(Writers(fd))
      /\ io[fd].nread <= MaxCount /\ io[fd].nwrite <= MaxCount
  BY <1>l DEF ListAt
<1>f. /\ Cardinality(Readers(fd)') \in Nat /\ Cardinality(Writers(fd)') \in Nat
  <2>1. IsFiniteSet(Readers(fd)') /\ IsFiniteSet(Writers(fd)')
    BY <1>b, KindsFinite, FS_Subset
  <2> QED  BY <2>1, FS_CardinalityType
<1>4. r \in 0 .. MaxCount /\ w \in 0 .. MaxCount /\ r = Cardinality(Readers(fd)') /\ w = Cardinality(Writers(fd)')
  <2> HIDE DEF fd
  <2> QED  BY <1>2, <1>3, <1>d, <1>e, <1>f
<1>5. io' = [io EXCEPT ![fd] = [events |-> q, nread |-> r, nwrite |-> w]]
  BY DEF RemoveFromList
<1>6. /\ io' \in [Fd -> IoRec]
      /\ io'[fd].events = q /\ io'[fd].nread = r /\ io'[fd].nwrite = w
      /\ \A g \in Fd \ {fd} : io'[g] = io[g]
  <2> HIDE DEF fd, q, r, w
  <2> QED  BY <1>1, <1>c, <1>4, <1>5, IoUpdate, ZenonT(60)
<1>7. IsFiniteSet(inserted') /\ inserted' \subseteq Event
  BY FS_RemoveElement
<1>8. ASSUME NEW g \in Fd \ {fd}
      PROVE  ListAt(g)'
  <2>1. ListAt(g)
    BY ListsAt
  <2>2. \A x : EvFd[x] = g => (x \in inserted' <=> x \in inserted)
    BY <1>1
  <2> HIDE DEF fd
  <2> QED  BY <1>6, <2>1, <2>2, ListElsewhere
<1>9. ListAt(fd)'
  <2> HIDE DEF fd, q, r, w
  <2>1. io'[fd].nread <= MaxCount /\ io'[fd].nwrite <= MaxCount
    BY <1>4, <1>6
  <2>2. /\ io'[fd].nread = Cardinality(Readers(fd)') /\ io'[fd].nwrite = Cardinality(Writers(fd)')
        /\ ToSet(io'[fd].events) = {x \in inserted' : EvFd[x] = fd}
        /\ IsInjective(io'[fd].events)
    BY <1>4, <1>6, <1>a, <1>c
  <2> QED  BY <2>1, <2>2 DEF ListAt
<1> QED  BY <1>6, <1>7, <1>8, <1>9, ListsAt


-------------------------------------------------------------------------------
(***************************************************************************)
(* What is wanted, and what changes make of it.                            *)
(***************************************************************************)
LEMMA SameWatch ==
  ASSUME NEW X, NEW Y, X \subseteq {"IN", "OUT"}, Y \subseteq {"IN", "OUT"},
         "IN" \in X <=> "IN" \in Y, "OUT" \in X <=> "OUT" \in Y
  PROVE  X = Y
<1>1. ASSUME NEW z
      PROVE  z \in X <=> z \in Y
  <2>1. CASE z = "IN"
    BY <2>1
  <2>2. CASE z = "OUT"
    BY <2>2
  <2>3. CASE z \notin {"IN", "OUT"}
    BY <2>3
  <2> QED  BY <2>1, <2>2, <2>3
<1> QED  BY <1>1

LEMMA WantedIs ==
  ASSUME NEW fd
  PROVE  /\ Wanted(fd) \subseteq {"IN", "OUT"}
         /\ "IN" \in Wanted(fd) <=> \E e \in inserted : EvFd[e] = fd /\ "READ" \in EvEvents[e]
         /\ "OUT" \in Wanted(fd) <=> \E e \in inserted : EvFd[e] = fd /\ "WRITE" \in EvEvents[e]
         /\ Wanted(fd)' \subseteq {"IN", "OUT"}
         /\ "IN" \in Wanted(fd)' <=> \E e \in inserted' : EvFd[e] = fd /\ "READ" \in EvEvents[e]
         /\ "OUT" \in Wanted(fd)' <=> \E e \in inserted' : EvFd[e] = fd /\ "WRITE" \in EvEvents[e]
BY DEF Wanted

LEMMA RemainingIs ==
  ASSUME NEW ch
  PROVE  /\ Remaining(ch) \subseteq {"IN", "OUT"}
         /\ "IN" \in Remaining(ch) <=> Adds(ch.read) \/ (ch.read = "none" /\ "READ" \in ch.old)
         /\ "OUT" \in Remaining(ch) <=> Adds(ch.write) \/ (ch.write = "none" /\ "WRITE" \in ch.old)
BY DEF Remaining

LEMMA InKernelIs ==
  ASSUME NEW old
  PROVE  /\ InKernel(old) \subseteq {"IN", "OUT"}
         /\ "IN" \in InKernel(old) <=> "READ" \in old
         /\ "OUT" \in InKernel(old) <=> "WRITE" \in old
BY DEF InKernel

\* The counters of a descriptor say what is wanted of it.
LEMMA OldIs ==
  ASSUME TypeOK, IsFiniteSet(inserted), ListsRight, NEW fd \in Fd
  PROVE  /\ Old(fd) \subseteq {"READ", "WRITE"}
         /\ "READ" \in Old(fd) <=> "IN" \in Wanted(fd)
         /\ "WRITE" \in Old(fd) <=> "OUT" \in Wanted(fd)
         /\ InKernel(Old(fd)) = Wanted(fd)
<1>1. ListAt(fd)
  BY ListsAt
<1>2. /\ io[fd].nread > 0 <=> Readers(fd) # {}
      /\ io[fd].nwrite > 0 <=> Writers(fd) # {}
  <2>1. /\ Cardinality(Readers(fd)) \in Nat /\ (Cardinality(Readers(fd)) = 0 <=> Readers(fd) = {})
        /\ Cardinality(Writers(fd)) \in Nat /\ (Cardinality(Writers(fd)) = 0 <=> Writers(fd) = {})
    BY KindsFinite, FS_CardinalityType, FS_EmptySet
  <2>2. io[fd].nread = Cardinality(Readers(fd)) /\ io[fd].nwrite = Cardinality(Writers(fd))
    BY <1>1 DEF ListAt
  <2> QED  BY <2>1, <2>2
<1>3. /\ Old(fd) \subseteq {"READ", "WRITE"}
      /\ "READ" \in Old(fd) <=> io[fd].nread > 0
      /\ "WRITE" \in Old(fd) <=> io[fd].nwrite > 0
  BY DEF Old
<1>4. /\ Readers(fd) # {} <=> "IN" \in Wanted(fd)
      /\ Writers(fd) # {} <=> "OUT" \in Wanted(fd)
  BY WantedIs DEF Readers, Writers
<1>5. InKernel(Old(fd)) = Wanted(fd)
  BY <1>2, <1>3, <1>4, WantedIs, InKernelIs, SameWatch
<1> QED  BY <1>2, <1>3, <1>4, <1>5

\* The changes that add or delete: what they keep, and what remains after them.
Continues(c, ch, events) ==
  /\ c \in ChangeRec /\ c.fd = ch.fd /\ c.old = ch.old
  /\ AllChanged(ch) => AllChanged(c)

LEMMA AddChangeIs ==
  ASSUME NEW ch \in ChangeRec, NEW events
  PROVE  LET c == AddChange(ch, events)
         IN  /\ Continues(c, ch, events)
             /\ "IN" \in Remaining(c) <=> "IN" \in Remaining(ch) \/ "READ" \in events
             /\ "OUT" \in Remaining(c) <=> "OUT" \in Remaining(ch) \/ "WRITE" \in events
             /\ "READ" \in events \/ "WRITE" \in events => Adds(c.read) \/ Adds(c.write)
<1> DEFINE c == AddChange(ch, events)
           add == IF "ET" \in events THEN "addET" ELSE "add"
           r == IF "READ" \in events THEN add ELSE ch.read
           w == IF "WRITE" \in events THEN add ELSE ch.write
<1>1. Adds(add) /\ add \in Change /\ add # "none"
  BY DEF Adds, Change
<1>2. ch.read \in Change /\ ch.write \in Change
  BY DEF ChangeRec
<1>3. c = [ch EXCEPT !.read = r, !.write = w]
  BY DEF AddChange
<1> HIDE DEF add
<1>4. r \in Change /\ w \in Change
  BY <1>1, <1>2
<1> HIDE DEF r, w, c
<1>5. c \in ChangeRec /\ c.fd = ch.fd /\ c.old = ch.old /\ c.read = r /\ c.write = w
  BY <1>3, <1>4 DEF ChangeRec
<1>6. /\ "READ" \in events => Adds(r) /\ r # "none"
      /\ "WRITE" \in events => Adds(w) /\ w # "none"
      /\ "READ" \notin events => r = ch.read
      /\ "WRITE" \notin events => w = ch.write
  BY <1>1 DEF r, w
<1>7. /\ "IN" \in Remaining(c) <=> "IN" \in Remaining(ch) \/ "READ" \in events
      /\ "OUT" \in Remaining(c) <=> "OUT" \in Remaining(ch) \/ "WRITE" \in events
  BY <1>5, <1>6, RemainingIs
<1>8. AllChanged(ch) => AllChanged(c)
  BY <1>5, <1>6 DEF AllChanged
<1> QED  BY <1>5, <1>6, <1>7, <1>8 DEF c, Continues

LEMMA CancelOrDeleteIs ==
  ASSUME NEW ch \in ChangeRec, NEW events
  PROVE  LET c == CancelOrDelete(ch, events)
         IN  /\ Continues(c, ch, events)
             /\ "IN" \in Remaining(c) <=> "IN" \in Remaining(ch) /\ "READ" \notin events
             /\ "OUT" \in Remaining(c) <=> "OUT" \in Remaining(ch) /\ "WRITE" \notin events
<1> DEFINE c == CancelOrDelete(ch, events)
           r == IF "READ" \notin events THEN ch.read
                ELSE IF "READ" \notin ch.old /\ Adds(ch.read) THEN "none" ELSE "del"
           w == IF "WRITE" \notin events THEN ch.write
                ELSE IF "WRITE" \notin ch.old /\ Adds(ch.write) THEN "none" ELSE "del"
<1>2. ch.read \in Change /\ ch.write \in Change /\ "none" \in Change /\ "del" \in Change
  BY DEF ChangeRec, Change
<1>3. c = [ch EXCEPT !.read = r, !.write = w]
  BY DEF CancelOrDelete
<1>4. r \in Change /\ w \in Change
  BY <1>2
<1>6. /\ "READ" \in events => (r = "del" \/ (r = "none" /\ "READ" \notin ch.old))
      /\ "WRITE" \in events => (w = "del" \/ (w = "none" /\ "WRITE" \notin ch.old))
      /\ "READ" \notin events => r = ch.read
      /\ "WRITE" \notin events => w = ch.write
  OBVIOUS
<1> HIDE DEF r, w, c
<1>5. c \in ChangeRec /\ c.fd = ch.fd /\ c.old = ch.old /\ c.read = r /\ c.write = w
  BY <1>3, <1>4 DEF ChangeRec
<1>a. ~Adds("del") /\ ~Adds("none")
  BY DEF Adds
<1>7. /\ "IN" \in Remaining(c) <=> "IN" \in Remaining(ch) /\ "READ" \notin events
      /\ "OUT" \in Remaining(c) <=> "OUT" \in Remaining(ch) /\ "WRITE" \notin events
  BY <1>5, <1>6, <1>a, RemainingIs
<1>8. AllChanged(ch) => AllChanged(c)
  BY <1>5, <1>6 DEF AllChanged
<1> QED  BY <1>5, <1>7, <1>8 DEF c, Continues

LEMMA NoChangeIs ==
  ASSUME NEW fd \in Fd, NEW old \in SUBSET {"READ", "WRITE"}
  PROVE  LET c == NoChange(fd, old)
         IN  /\ c \in ChangeRec /\ c.fd = fd /\ c.old = old
             /\ c.read = "none" /\ c.write = "none"
             /\ Remaining(c) = InKernel(old)
<1> DEFINE c == NoChange(fd, old)
<1>1. c \in ChangeRec /\ c.fd = fd /\ c.old = old /\ c.read = "none" /\ c.write = "none"
  BY DEF NoChange, ChangeRec, Change
<1> HIDE DEF c
<1>2. ~Adds("none")
  BY DEF Adds
<1>3. Remaining(c) = InKernel(old)
  BY <1>1, <1>2, RemainingIs, InKernelIs, SameWatch
<1> QED  BY <1>1, <1>3 DEF c

\* epoll_nochangelist_del's change.
LEMMA DelChangeIs ==
  ASSUME NEW fd \in Fd, NEW old \in SUBSET {"READ", "WRITE"}, NEW events
  PROVE  LET c == DelChange(NoChange(fd, old), events)
         IN  /\ c \in ChangeRec /\ c.fd = fd /\ c.old = old
             /\ "IN" \in Remaining(c) <=> "READ" \in old /\ "READ" \notin events
             /\ "OUT" \in Remaining(c) <=> "WRITE" \in old /\ "WRITE" \notin events
<1> DEFINE ch == NoChange(fd, old)
           c == DelChange(ch, events)
           r == IF "READ" \in events THEN "del" ELSE "none"
           w == IF "WRITE" \in events THEN "del" ELSE "none"
<1>1. ch \in ChangeRec /\ ch.fd = fd /\ ch.old = old /\ ch.read = "none" /\ ch.write = "none"
  BY NoChangeIs
<1> HIDE DEF ch
<1>3. c = [ch EXCEPT !.read = r, !.write = w]
  BY <1>1 DEF DelChange
<1>4. r \in Change /\ w \in Change /\ ~Adds(r) /\ ~Adds(w)
  BY DEF Change, Adds
<1>6. /\ "READ" \in events <=> r # "none"
      /\ "WRITE" \in events <=> w # "none"
  OBVIOUS
<1> HIDE DEF r, w, c
<1>5. c \in ChangeRec /\ c.fd = fd /\ c.old = old /\ c.read = r /\ c.write = w
  BY <1>1, <1>3, <1>4 DEF ChangeRec
<1>7. /\ "IN" \in Remaining(c) <=> "READ" \in old /\ "READ" \notin events
      /\ "OUT" \in Remaining(c) <=> "WRITE" \in old /\ "WRITE" \notin events
  BY <1>4, <1>5, <1>6, RemainingIs
<1> QED  BY <1>5, <1>7 DEF c, ch


-------------------------------------------------------------------------------
(***************************************************************************)
(* The changelist.                                                         *)
(***************************************************************************)
Got(fd, old) == event_changelist_get_or_construct(fd, old)
Entry(fd, old) == Got(fd, old).list[Got(fd, old).at]

LEMMA EntryIs ==
  ASSUME TypeOK, IndexRight, NEW fd \in Fd, NEW old \in SUBSET {"READ", "WRITE"}
  PROVE  /\ Got(fd, old).list \in Seq(ChangeRec)
         /\ Got(fd, old).at \in 1 .. Len(Got(fd, old).list) /\ Got(fd, old).at \in Nat \ {0}
         /\ Entry(fd, old) \in ChangeRec /\ Entry(fd, old).fd = fd
         /\ idxplus1[fd] # 0 =>
              /\ Got(fd, old).list = changes /\ Got(fd, old).at = idxplus1[fd]
              /\ Entry(fd, old) = changes[idxplus1[fd]]
         /\ idxplus1[fd] = 0 =>
              /\ Len(Got(fd, old).list) = Len(changes) + 1 /\ Got(fd, old).at = Len(changes) + 1
              /\ \A i \in 1 .. Len(changes) : Got(fd, old).list[i] = changes[i]
              /\ Entry(fd, old) = NoChange(fd, old)
<1> DEFINE n == NoChange(fd, old)
           g == Got(fd, old)
<1>0. /\ changes \in Seq(ChangeRec) /\ Len(changes) \in Nat /\ idxplus1 \in [Fd -> Nat]
  BY DEF TypeOK, ChangeRec
<1>1. n \in ChangeRec /\ n.fd = fd
  BY NoChangeIs
<1> HIDE DEF n
<1>2. CASE idxplus1[fd] # 0
  <2>1. g = [list |-> changes, at |-> idxplus1[fd]]
    BY <1>2 DEF Got, event_changelist_get_or_construct
  <2>2. g.list = changes /\ g.at = idxplus1[fd]
    BY <2>1
  <2>3. idxplus1[fd] \in 1 .. Len(changes) /\ changes[idxplus1[fd]].fd = fd
    BY <1>0, <1>2 DEF IndexRight
  <2>4. changes[idxplus1[fd]] \in ChangeRec
    BY <1>0, <2>3
  <2> QED  BY <1>0, <1>2, <2>2, <2>3, <2>4 DEF Entry
<1>3. CASE idxplus1[fd] = 0
  <2> DEFINE l == Append(changes, n)
  <2>1. g = [list |-> l, at |-> Len(changes) + 1]
    BY <1>3 DEF Got, event_changelist_get_or_construct, n
  <2>2. /\ l \in Seq(ChangeRec) /\ Len(l) = Len(changes) + 1 /\ l[Len(changes) + 1] = n
        /\ \A i \in 1 .. Len(changes) : l[i] = changes[i]
    BY <1>0, <1>1
  <2> HIDE DEF l
  <2>3. g.list = l /\ g.at = Len(changes) + 1
    BY <2>1
  <2> QED  BY <1>0, <1>1, <1>3, <2>2, <2>3 DEF Entry, n
<1> QED  BY <1>2, <1>3

LEMMA EntrySet ==
  ASSUME TypeOK, IndexRight, NEW fd \in Fd, NEW old \in SUBSET {"READ", "WRITE"},
         NEW c \in ChangeRec, c.fd = fd, SetChange(fd, Got(fd, old), c)
  PROVE  /\ changes' \in Seq(ChangeRec) /\ idxplus1' \in [Fd -> Nat] /\ IndexRight'
         /\ idxplus1'[fd] # 0 /\ changes'[idxplus1'[fd]] = c /\ kernel' = kernel
         /\ \A g \in Fd \ {fd} :
              /\ idxplus1'[g] = idxplus1[g]
              /\ idxplus1[g] # 0 => changes'[idxplus1'[g]] = changes[idxplus1[g]]
<1> DEFINE l == Got(fd, old).list
           n == Got(fd, old).at
<1>0. /\ changes \in Seq(ChangeRec) /\ Len(changes) \in Nat /\ idxplus1 \in [Fd -> Nat]
  BY DEF TypeOK, ChangeRec
<1>1. /\ l \in Seq(ChangeRec) /\ n \in 1 .. Len(l) /\ n \in Nat \ {0}
      /\ idxplus1[fd] # 0 => l = changes /\ n = idxplus1[fd]
      /\ idxplus1[fd] = 0 => /\ Len(l) = Len(changes) + 1 /\ n = Len(changes) + 1
                             /\ \A i \in 1 .. Len(changes) : l[i] = changes[i]
  BY EntryIs
<1>2. changes' = [l EXCEPT ![n] = c] /\ idxplus1' = [idxplus1 EXCEPT ![fd] = n] /\ kernel' = kernel
  BY DEF SetChange
<1> HIDE DEF l, n
<1>3. /\ changes' \in Seq(ChangeRec) /\ Len(changes') = Len(l)
      /\ \A i \in 1 .. Len(l) : changes'[i] = IF i = n THEN c ELSE l[i]
  BY <1>1, <1>2
<1>4. /\ idxplus1' \in [Fd -> Nat] /\ idxplus1'[fd] = n
      /\ \A g \in Fd \ {fd} : idxplus1'[g] = idxplus1[g]
  BY <1>0, <1>1, <1>2
<1>5. changes'[idxplus1'[fd]] = c /\ idxplus1'[fd] # 0
  BY <1>1, <1>3, <1>4
<1>6. ASSUME NEW g \in Fd \ {fd}, idxplus1[g] # 0
      PROVE  /\ idxplus1'[g] \in 1 .. Len(l) /\ idxplus1'[g] # n
             /\ changes'[idxplus1'[g]] = changes[idxplus1[g]]
             /\ changes[idxplus1[g]].fd = g
  <2>1. idxplus1[g] \in 1 .. Len(changes) /\ changes[idxplus1[g]].fd = g
    BY <1>0, <1>6 DEF IndexRight
  <2>2. idxplus1[g] # n /\ idxplus1[g] \in 1 .. Len(l) /\ l[idxplus1[g]] = changes[idxplus1[g]]
    <3>1. CASE idxplus1[fd] # 0
      <4>1. changes[idxplus1[fd]].fd = fd
        BY <3>1 DEF IndexRight
      <4> QED  BY <1>1, <2>1, <3>1, <4>1
    <3>2. CASE idxplus1[fd] = 0
      BY <1>0, <1>1, <2>1, <3>2
    <3> QED  BY <3>1, <3>2
  <2> QED  BY <1>3, <1>4, <2>1, <2>2
<1>7. IndexRight'
  <2>1. ASSUME NEW g \in Fd, idxplus1'[g] # 0
        PROVE  idxplus1'[g] <= Len(changes') /\ changes'[idxplus1'[g]].fd = g
    <3>1. CASE g = fd
      BY <1>1, <1>3, <1>4, <1>5, <3>1
    <3>2. CASE g # fd
      <4>1. idxplus1[g] # 0
        BY <1>4, <2>1, <3>2
      <4>2. /\ idxplus1'[g] \in 1 .. Len(l) /\ changes'[idxplus1'[g]].fd = g
        BY <1>6, <3>2, <4>1
      <4> QED  BY <1>3, <4>2
    <3> QED  BY <3>1, <3>2
  <2>2. ASSUME NEW i \in 1 .. Len(changes')
        PROVE  idxplus1'[changes'[i].fd] = i
    <3>1. CASE i = n
      BY <1>1, <1>3, <1>4, <2>2, <3>1
    <3>2. CASE i # n
      <4>1. i \in 1 .. Len(l) /\ changes'[i] = l[i]
        BY <1>3, <3>2
      <4>2. i \in 1 .. Len(changes) /\ l[i] = changes[i]
        BY <1>0, <1>1, <3>2, <4>1
      <4>3. idxplus1[changes[i].fd] = i /\ changes[i] \in ChangeRec
        BY <1>0, <4>2 DEF IndexRight
      <4>4. changes[i].fd \in Fd
        BY <4>3 DEF ChangeRec
      <4>5. changes[i].fd # fd
        BY <1>0, <1>1, <3>2, <4>2, <4>3
      <4> QED  BY <1>4, <4>1, <4>2, <4>3, <4>4, <4>5
    <3> QED  BY <3>1, <3>2
  <2> QED  BY <2>1, <2>2 DEF IndexRight
<1> QED  BY <1>2, <1>3, <1>4, <1>5, <1>6, <1>7

\* What PendingInv says of one descriptor, by values.
PendingOK(n, ch, wanted, seen, pollable) ==
  /\ n = 0 /\ pollable => seen = wanted
  /\ n # 0 => Remaining(ch) = wanted
  /\ n # 0 /\ pollable => (seen = InKernel(ch.old) \/ (seen = {} /\ AllChanged(ch)))

LEMMA PendingIs ==
  /\ PendingInv <=> \A fd \in Fd : PendingOK(idxplus1[fd], changes[idxplus1[fd]], Wanted(fd),
                                             Seen(kernel, fd), Pollable(fd))
  /\ PendingInv' <=> \A fd \in Fd : PendingOK(idxplus1'[fd], changes'[idxplus1'[fd]], Wanted(fd)',
                                              Seen(kernel, fd)', Pollable(fd)')
BY DEF PendingInv, PendingOK, Remaining, InKernel, AllChanged


LEMMA PendingElsewhere ==
  ASSUME PendingInv, NEW g \in Fd, idxplus1'[g] = idxplus1[g],
         idxplus1[g] # 0 => changes'[idxplus1'[g]] = changes[idxplus1[g]],
         Wanted(g)' = Wanted(g), Pollable(g)' <=> Pollable(g),
         Pollable(g) => Seen(kernel, g)' = Seen(kernel, g)
  PROVE  PendingOK(idxplus1'[g], changes'[idxplus1'[g]], Wanted(g)', Seen(kernel, g)', Pollable(g)')
<1>1. PendingOK(idxplus1[g], changes[idxplus1[g]], Wanted(g), Seen(kernel, g), Pollable(g))
  BY PendingIs
<1> DEFINE n == idxplus1[g]
           ch == changes[n]
           dh == changes'[idxplus1'[g]]
<1>2. n # 0 => dh = ch
  OBVIOUS
<1> HIDE DEF n, ch, dh
<1>3. PendingOK(n, dh, Wanted(g)', Seen(kernel, g)', Pollable(g)')
  BY <1>1, <1>2 DEF PendingOK, n, ch
<1> QED  BY <1>3 DEF n, dh

\* With the same files.
LEMMA FilesSame ==
  ASSUME file' = file
  PROVE  /\ \A fd : Seen(kernel, fd)' = Seen(kernel', fd) /\ (Pollable(fd)' <=> Pollable(fd))
         /\ KeysRight(kernel)' <=> KeysRight(kernel')
BY DEF Seen, Pollable, KeysRight

LEMMA WantedSame ==
  ASSUME NEW g, \A e : EvFd[e] = g => (e \in inserted' <=> e \in inserted)
  PROVE  Wanted(g)' = Wanted(g)
BY DEF Wanted

LEMMA WantedAfterAdd ==
  ASSUME NEW e \in Event, inserted' = inserted \cup {e}
  PROVE  /\ "IN" \in Wanted(EvFd[e])' <=> "IN" \in Wanted(EvFd[e]) \/ "READ" \in EvEvents[e]
         /\ "OUT" \in Wanted(EvFd[e])' <=> "OUT" \in Wanted(EvFd[e]) \/ "WRITE" \in EvEvents[e]
         /\ \A g \in Fd : g # EvFd[e] => Wanted(g)' = Wanted(g)
<1>1. ASSUME NEW g \in Fd, g # EvFd[e]
      PROVE  Wanted(g)' = Wanted(g)
  BY <1>1, WantedSame
<1> QED  BY <1>1, WantedIs

LEMMA LastOne ==
  ASSUME NEW S, IsFiniteSet(S), NEW e \in S
  PROVE  Cardinality(S) = 1 <=> S \ {e} = {}
<1>1. IsFiniteSet(S \ {e}) /\ Cardinality(S \ {e}) = Cardinality(S) - 1
  BY FS_RemoveElement
<1>2. Cardinality(S) \in Nat /\ Cardinality(S \ {e}) \in Nat /\ (Cardinality(S \ {e}) = 0 <=> S \ {e} = {})
  BY <1>1, FS_CardinalityType, FS_EmptySet
<1> QED  BY <1>1, <1>2

LEMMA WantedAfterDel ==
  ASSUME NEW e \in Event, e \in inserted, inserted' = inserted \ {e}, IsFiniteSet(inserted), ListsRight
  PROVE  LET fd == EvFd[e]
         IN  /\ "IN" \in Wanted(fd)' <=> "IN" \in Wanted(fd) /\ ~("READ" \in EvEvents[e] /\ io[fd].nread = 1)
             /\ "OUT" \in Wanted(fd)' <=> "OUT" \in Wanted(fd) /\ ~("WRITE" \in EvEvents[e] /\ io[fd].nwrite = 1)
             /\ \A g \in Fd : g # fd => Wanted(g)' = Wanted(g)
<1> DEFINE fd == EvFd[e]
<1>0. fd \in Fd
  BY EvmapAssumption
<1>1. ASSUME NEW g \in Fd, g # fd
      PROVE  Wanted(g)' = Wanted(g)
  BY <1>1, WantedSame
<1>2. /\ "IN" \in Wanted(fd) <=> Readers(fd) # {}
      /\ "OUT" \in Wanted(fd) <=> Writers(fd) # {}
      /\ "IN" \in Wanted(fd)' <=> Readers(fd) \ {e} # {}
      /\ "OUT" \in Wanted(fd)' <=> Writers(fd) \ {e} # {}
  BY WantedIs DEF Readers, Writers
<1>3. /\ "READ" \in EvEvents[e] <=> e \in Readers(fd)
      /\ "WRITE" \in EvEvents[e] <=> e \in Writers(fd)
  BY DEF Readers, Writers
<1>4. io[fd].nread = Cardinality(Readers(fd)) /\ io[fd].nwrite = Cardinality(Writers(fd))
  BY <1>0 DEF ListsRight
<1>5. IsFiniteSet(Readers(fd)) /\ IsFiniteSet(Writers(fd))
  BY KindsFinite
<1> HIDE DEF fd
<1>6. /\ e \in Readers(fd) => (io[fd].nread = 1 <=> Readers(fd) \ {e} = {})
      /\ e \in Writers(fd) => (io[fd].nwrite = 1 <=> Writers(fd) \ {e} = {})
  BY <1>4, <1>5, LastOne
<1>7. /\ e \notin Readers(fd) => Readers(fd) \ {e} = Readers(fd)
      /\ e \notin Writers(fd) => Writers(fd) \ {e} = Writers(fd)
  OBVIOUS
<1>8. /\ "IN" \in Wanted(fd)' <=> "IN" \in Wanted(fd) /\ ~("READ" \in EvEvents[e] /\ io[fd].nread = 1)
      /\ "OUT" \in Wanted(fd)' <=> "OUT" \in Wanted(fd) /\ ~("WRITE" \in EvEvents[e] /\ io[fd].nwrite = 1)
  BY <1>2, <1>3, <1>6, <1>7
<1> QED  BY <1>1, <1>8 DEF fd

LEMMA TypeAfter ==
  ASSUME TypeOK, io' \in [Fd -> IoRec], inserted' \subseteq Event, changes' \in Seq(ChangeRec),
         idxplus1' \in [Fd -> Nat], KeysRight(kernel'),
         UNCHANGED <<evsel, file, nevents, pc>>
  PROVE  TypeOK'
<1>1. /\ DOMAIN kernel' \subseteq File \X Fd
      /\ \A x \in DOMAIN kernel' : kernel'[x] \subseteq {"IN", "OUT", "ET"}
  BY DEF KeysRight
<1> QED  BY <1>1 DEF TypeOK, IoRec, ChangeRec

LEMMA TypeNow ==
  ASSUME TypeOK
  PROVE  /\ io \in [Fd -> IoRec] /\ inserted \subseteq Event /\ changes \in Seq(ChangeRec)
         /\ idxplus1 \in [Fd -> Nat] /\ file \in [Fd -> File \cup {NoFile}]
         /\ evsel \in {"epoll", "epoll_changelist"}
BY EvmapAssumption DEF TypeOK, IoRec, ChangeRec

\* Without the changelist no descriptor has an entry.
LEMMA NoEntries ==
  ASSUME TypeOK, IndexRight, changes = <<>>
  PROVE  \A fd \in Fd : idxplus1[fd] = 0
<1>1. Len(changes) = 0 /\ idxplus1 \in [Fd -> Nat]
  BY TypeNow
<1> QED  BY <1>1 DEF IndexRight


\* The operation for a change that adds something is not a deletion.
LEMMA AddOp ==
  ASSUME NEW ch \in ChangeRec, Adds(ch.read) \/ Adds(ch.write)
  PROVE  EpollOp(ch).op # "DEL" /\ EpollOp(ch).events # {}
<1> DEFINE et == IF "addET" \in {ch.read, ch.write} THEN {"ET"} ELSE {}
           o == EpollOp(ch)
<1>1. o = [op |-> IF ch.old = {} THEN "ADD" ELSE "MOD", events |-> Remaining(ch) \cup et]
  BY DEF EpollOp
<1>2. Remaining(ch) # {}
  BY RemainingIs
<1> HIDE DEF et
<1>3. o.op \in {"ADD", "MOD"} /\ o.events = Remaining(ch) \cup et
  BY <1>1
<1> QED  BY <1>2, <1>3

-------------------------------------------------------------------------------
(***************************************************************************)
(* The steps.                                                              *)
(***************************************************************************)
LEMMA AddKeeps ==
  ASSUME MapInv, NEW e \in Event, evmap_io_add(e)
  PROVE  MapInv'
<1> DEFINE fd == EvFd[e]
           old == Old(fd)
           res == {m \in {"READ", "WRITE"} : m \in EvEvents[e] /\ m \notin old}
           events == res \cup (EvEvents[e] \cap {"ET"})
           r == epoll_nochangelist_add(fd, old, events)
<1>0. /\ TypeOK /\ IsFiniteSet(inserted) /\ ListsRight /\ IndexRight /\ MapConsistent
      /\ FilesInv /\ KeysRight(kernel) /\ PendingInv
  BY DEF MapInv, MapConsistent
<1>t. /\ io \in [Fd -> IoRec] /\ inserted \subseteq Event /\ changes \in Seq(ChangeRec)
      /\ idxplus1 \in [Fd -> Nat] /\ file \in [Fd -> File \cup {NoFile}]
      /\ evsel \in {"epoll", "epoll_changelist"}
  BY <1>0, TypeNow
<1>1. /\ fd \in Fd /\ e \notin inserted /\ file[fd] # NoFile
      /\ io[fd].nread + Count(e, "READ") <= MaxCount /\ io[fd].nwrite + Count(e, "WRITE") <= MaxCount
      /\ UNCHANGED <<evsel, file, nevents, pc>>
      /\ EvEvents[e] \cap {"READ", "WRITE"} # {}
  BY EvmapAssumption DEF evmap_io_add, Unchanged
<1>2. \/ /\ res = {}
         /\ AddToList(e)
         /\ UNCHANGED <<changes, idxplus1, kernel>>
      \/ /\ res # {} /\ evsel = "epoll_changelist"
         /\ event_changelist_add(fd, old, events)
         /\ AddToList(e)
      \/ /\ res # {} /\ evsel = "epoll"
         /\ kernel' = r.k
         /\ IF r.ok THEN AddToList(e) ELSE UNCHANGED <<io, inserted>>
         /\ UNCHANGED <<changes, idxplus1>>
  BY DEF evmap_io_add
<1>3. /\ "READ" \in events <=> "READ" \in EvEvents[e] /\ "READ" \notin old
      /\ "WRITE" \in events <=> "WRITE" \in EvEvents[e] /\ "WRITE" \notin old
      /\ "READ" \in events \/ "WRITE" \in events <=> res # {}
  OBVIOUS
<1>4. /\ old \in SUBSET {"READ", "WRITE"}
      /\ "READ" \in old <=> "IN" \in Wanted(fd)
      /\ "WRITE" \in old <=> "OUT" \in Wanted(fd)
      /\ InKernel(old) = Wanted(fd)
  BY <1>0, <1>1, OldIs
<1>5. /\ \A g : Seen(kernel, g)' = Seen(kernel', g) /\ (Pollable(g)' <=> Pollable(g))
      /\ KeysRight(kernel)' <=> KeysRight(kernel')
  BY <1>1, FilesSame
<1>6. AddToList(e) => /\ io' \in [Fd -> IoRec] /\ inserted' \subseteq Event
                      /\ IsFiniteSet(inserted') /\ ListsRight' /\ inserted' = inserted \cup {e}
  BY <1>0, <1>1, <1>t, ListsAdd DEF AddToList
<1>7. AddToList(e) =>
        /\ "IN" \in Wanted(fd)' <=> "IN" \in Wanted(fd) \/ "READ" \in events
        /\ "OUT" \in Wanted(fd)' <=> "OUT" \in Wanted(fd) \/ "WRITE" \in events
        /\ \A g \in Fd : g # fd => Wanted(g)' = Wanted(g)
  <2> SUFFICES ASSUME AddToList(e)
               PROVE  /\ "IN" \in Wanted(fd)' <=> "IN" \in Wanted(fd) \/ "READ" \in events
                      /\ "OUT" \in Wanted(fd)' <=> "OUT" \in Wanted(fd) \/ "WRITE" \in events
                      /\ \A g \in Fd : g # fd => Wanted(g)' = Wanted(g)
    OBVIOUS
  <2>1. inserted' = inserted \cup {e}
    BY DEF AddToList
  <2>2. /\ "IN" \in Wanted(fd)' <=> "IN" \in Wanted(fd) \/ "READ" \in EvEvents[e]
        /\ "OUT" \in Wanted(fd)' <=> "OUT" \in Wanted(fd) \/ "WRITE" \in EvEvents[e]
        /\ \A g \in Fd : g # fd => Wanted(g)' = Wanted(g)
    BY <2>1, WantedAfterAdd
  <2> HIDE DEF fd, old, events
  <2> QED  BY <1>3, <1>4, <2>2
<1> DEFINE FdOK == PendingOK(idxplus1'[fd], changes'[idxplus1'[fd]], Wanted(fd)', Seen(kernel, fd)',
                             Pollable(fd)')
<1>8. CASE /\ res = {} /\ AddToList(e) /\ UNCHANGED <<changes, idxplus1, kernel>>
  <2>1. Wanted(fd)' = Wanted(fd)
    <3> HIDE DEF events
    <3> QED  BY <1>3, <1>7, <1>8, WantedIs, SameWatch
  <2>2. FilesInv'
    <3>1. evsel = "epoll" => file[fd] \notin Unpollable
      <4>1. PICK f \in inserted : EvFd[f] = fd
        <5>1. "IN" \in Wanted(fd) \/ "OUT" \in Wanted(fd)
          BY <1>1, <1>4, <1>8
        <5> QED  BY <5>1, WantedIs
      <4> QED  BY <1>0, <4>1 DEF FilesInv
    <3> QED  BY <1>0, <1>1, <1>6, <1>8, <3>1 DEF FilesInv
  <2> HIDE DEF fd, old, res, events, r
  <2>3. IndexRight'
    BY <1>0, <1>8 DEF IndexRight
  <2>4. PendingInv'
    <3>1. ASSUME NEW g \in Fd
          PROVE  PendingOK(idxplus1'[g], changes'[idxplus1'[g]], Wanted(g)', Seen(kernel, g)', Pollable(g)')
      <4>1. Wanted(g)' = Wanted(g)
        BY <1>7, <1>8, <2>1
      <4>2. Seen(kernel, g)' = Seen(kernel, g) /\ (Pollable(g)' <=> Pollable(g))
        BY <1>5, <1>8
      <4> QED  BY <1>0, <1>8, <4>1, <4>2, PendingElsewhere
    <3> QED  BY <3>1, PendingIs
  <2>5. KeysRight(kernel')
    BY <1>0, <1>8
  <2>6. TypeOK'
    BY <1>0, <1>1, <1>t, <1>6, <1>8, <2>5, TypeAfter
  <2> QED  BY <1>5, <1>6, <1>8, <2>2, <2>3, <2>4, <2>5, <2>6 DEF MapInv, MapConsistent
<1>9. CASE /\ res # {} /\ evsel = "epoll_changelist"
           /\ event_changelist_add(fd, old, events)
           /\ AddToList(e)
  <2> DEFINE ch == Entry(fd, old)
             c == AddChange(ch, events)
  <2>1. SetChange(fd, Got(fd, old), c)
    BY <1>9 DEF event_changelist_add, Got, Entry
  <2>2. FilesInv'
    <3>1. inserted' = inserted \cup {e}
      BY <1>6, <1>9
    <3>2. evsel # "epoll"
      BY <1>9
    <3> QED  BY <1>0, <1>1, <3>1, <3>2 DEF FilesInv
  <2> HIDE DEF fd, old, res, events, r
  <2>3. /\ ch \in ChangeRec /\ ch.fd = fd
        /\ idxplus1[fd] # 0 => ch = changes[idxplus1[fd]]
        /\ idxplus1[fd] = 0 => ch = NoChange(fd, old)
    BY <1>0, <1>1, <1>4, EntryIs
  <2> HIDE DEF ch
  <2>4. /\ Continues(c, ch, events)
        /\ "IN" \in Remaining(c) <=> "IN" \in Remaining(ch) \/ "READ" \in events
        /\ "OUT" \in Remaining(c) <=> "OUT" \in Remaining(ch) \/ "WRITE" \in events
    BY <2>3, AddChangeIs
  <2> HIDE DEF c
  <2>5. /\ changes' \in Seq(ChangeRec) /\ idxplus1' \in [Fd -> Nat] /\ IndexRight'
        /\ idxplus1'[fd] # 0 /\ changes'[idxplus1'[fd]] = c /\ kernel' = kernel
        /\ \A g \in Fd \ {fd} :
             /\ idxplus1'[g] = idxplus1[g]
             /\ idxplus1[g] # 0 => changes'[idxplus1'[g]] = changes[idxplus1[g]]
    BY <1>0, <1>1, <1>4, <2>1, <2>3, <2>4, EntrySet DEF Continues
  <2>6. /\ Remaining(ch) = Wanted(fd)
        /\ Pollable(fd) => (Seen(kernel, fd) = InKernel(ch.old) \/ (Seen(kernel, fd) = {} /\ AllChanged(ch)))
    <3>1. PendingOK(idxplus1[fd], changes[idxplus1[fd]], Wanted(fd), Seen(kernel, fd), Pollable(fd))
      BY <1>0, <1>1, PendingIs
    <3>2. CASE idxplus1[fd] # 0
      BY <2>3, <3>1, <3>2 DEF PendingOK
    <3>3. CASE idxplus1[fd] = 0
      <4>1. NoChange(fd, old).old = old /\ Remaining(NoChange(fd, old)) = InKernel(old)
        BY <1>1, <1>4, NoChangeIs
      <4>2. Pollable(fd) => Seen(kernel, fd) = Wanted(fd)
        BY <3>1, <3>3 DEF PendingOK
      <4> QED  BY <1>4, <2>3, <3>3, <4>1, <4>2
    <3> QED  BY <3>2, <3>3
  <2>7. Remaining(c) = Wanted(fd)'
    BY <1>7, <1>9, <2>4, <2>6, WantedIs, RemainingIs, SameWatch
  <2>8. PendingInv'
    <3>1. ASSUME NEW g \in Fd, g # fd
          PROVE  PendingOK(idxplus1'[g], changes'[idxplus1'[g]], Wanted(g)', Seen(kernel, g)', Pollable(g)')
      <4>1. Wanted(g)' = Wanted(g)
        BY <1>7, <1>9, <3>1
      <4>2. Seen(kernel, g)' = Seen(kernel, g) /\ (Pollable(g)' <=> Pollable(g))
        BY <1>5, <2>5
      <4>3. /\ idxplus1'[g] = idxplus1[g]
            /\ idxplus1[g] # 0 => changes'[idxplus1'[g]] = changes[idxplus1[g]]
        BY <2>5, <3>1
      <4> QED  BY <1>0, <4>1, <4>2, <4>3, PendingElsewhere
    <3>2. PendingOK(idxplus1'[fd], c, Wanted(fd)', Seen(kernel, fd)', Pollable(fd)')
      <4>1. Seen(kernel, fd)' = Seen(kernel, fd) /\ (Pollable(fd)' <=> Pollable(fd))
        BY <1>5, <2>5
      <4>2. c.old = ch.old /\ (AllChanged(ch) => AllChanged(c))
        BY <2>4 DEF Continues
      <4> QED  BY <2>5, <2>6, <2>7, <4>1, <4>2 DEF PendingOK
    <3> QED  BY <2>5, <3>1, <3>2, PendingIs
  <2>9. KeysRight(kernel')
    BY <1>0, <2>5
  <2>10. TypeOK'
    BY <1>0, <1>1, <1>6, <1>9, <2>5, <2>9, TypeAfter
  <2> QED  BY <1>5, <1>6, <1>9, <2>2, <2>5, <2>8, <2>9, <2>10 DEF MapInv, MapConsistent
<1>10. CASE /\ res # {} /\ evsel = "epoll"
            /\ kernel' = r.k
            /\ IF r.ok THEN AddToList(e) ELSE UNCHANGED <<io, inserted>>
            /\ UNCHANGED <<changes, idxplus1>>
  <2> DEFINE ch == NoChange(fd, old)
             c == AddChange(ch, events)
  <2>1. r = epoll_apply_one_change(kernel, c)
    BY DEF epoll_nochangelist_add
  <2>2. ch \in ChangeRec /\ ch.fd = fd /\ ch.old = old /\ Remaining(ch) = InKernel(old)
    BY <1>1, <1>4, NoChangeIs
  <2> HIDE DEF fd, old, res, events, r, ch
  <2>4. /\ Continues(c, ch, events)
        /\ "IN" \in Remaining(c) <=> "IN" \in Remaining(ch) \/ "READ" \in events
        /\ "OUT" \in Remaining(c) <=> "OUT" \in Remaining(ch) \/ "WRITE" \in events
        /\ "READ" \in events \/ "WRITE" \in events => Adds(c.read) \/ Adds(c.write)
    BY <2>2, AddChangeIs
  <2> HIDE DEF c
  <2>5. c \in ChangeRec /\ c.fd = fd /\ c.old = old
    BY <2>2, <2>4 DEF Continues
  <2>6. AfterChange(kernel, kernel', c)
    BY <1>0, <1>t, <1>10, <2>1, <2>5, OneChange
  <2>7. EpollOp(c).op # "DEL" /\ EpollOp(c).events # {}
    BY <1>3, <1>10, <2>4, <2>5, AddOp
  <2>8. (r.ok <=> Pollable(fd)) /\ (~Pollable(fd) => kernel' = kernel)
    <3>1. EpollOp(c).op \in {"ADD", "MOD", "DEL"}
      BY <2>5, OpFacts
    <3>2. ApplyRight(kernel, c)
      BY <1>1, <2>5, <3>1, ApplyFacts
    <3> QED  BY <1>10, <2>1, <2>5, <2>7, <3>2 DEF ApplyRight
  <2>9. \A g \in Fd : idxplus1[g] = 0
    BY <1>0, <1>10, NoEntries DEF FilesInv
  <2>10. Pollable(fd) => Seen(kernel, fd) = Wanted(fd)
    BY <1>0, <1>1, <2>9 DEF PendingInv
  <2>11. IndexRight'
    BY <1>0, <1>10 DEF IndexRight
  <2>12. KeysRight(kernel') /\ \A g \in Fd : g # fd => Seen(kernel', g) = Seen(kernel, g)
    BY <2>5, <2>6 DEF AfterChange
  <2>13. CASE ~Pollable(fd)
    <3>1. UNCHANGED <<io, inserted, changes, idxplus1, kernel>>
      BY <1>10, <2>8, <2>13
    <3>2. ListsRight' /\ FilesInv' /\ PendingInv'
      <4>1. \A g \in Fd : Wanted(g)' = Wanted(g)
        BY <3>1, WantedSame
      <4>2. \A g : Seen(kernel, g)' = Seen(kernel, g) /\ (Pollable(g)' <=> Pollable(g))
        BY <1>5, <3>1
      <4>3. PendingInv'
        BY <1>0, <3>1, <4>1, <4>2, PendingElsewhere, PendingIs
      <4>4. ListsRight'
        BY <1>0, <3>1, ListElsewhere, ListsAt
      <4> QED  BY <1>0, <1>1, <3>1, <4>3, <4>4 DEF FilesInv
    <3>3. TypeOK'
      BY <1>0, <1>1, <1>t, <2>12, <3>1, TypeAfter
    <3>4. IsFiniteSet(inserted')
      BY <1>0, <3>1
    <3> QED  BY <1>5, <2>11, <2>12, <3>2, <3>3, <3>4 DEF MapInv, MapConsistent
  <2>14. CASE Pollable(fd)
    <3>1. AddToList(e)
      BY <1>10, <2>8, <2>14
    <3>2. Seen(kernel', fd) = Remaining(c)
      <4>1. Began(kernel, c)
        BY <1>4, <2>5, <2>10, <2>14 DEF Began
      <4> QED  BY <2>5, <2>6, <2>14, <4>1 DEF AfterChange
    <3>3. Remaining(c) = Wanted(fd)'
      BY <1>4, <1>7, <2>2, <2>4, <3>1, WantedIs, RemainingIs, SameWatch
    <3>4. PendingInv'
      <4>1. ASSUME NEW g \in Fd, g # fd
            PROVE  PendingOK(idxplus1'[g], changes'[idxplus1'[g]], Wanted(g)', Seen(kernel, g)', Pollable(g)')
        <5>1. Wanted(g)' = Wanted(g)
          BY <1>7, <3>1, <4>1
        <5>2. Seen(kernel, g)' = Seen(kernel, g) /\ (Pollable(g)' <=> Pollable(g))
          BY <1>5, <2>12, <4>1
        <5> QED  BY <1>0, <1>10, <5>1, <5>2, PendingElsewhere
      <4>2. PendingOK(idxplus1'[fd], changes'[idxplus1'[fd]], Wanted(fd)', Seen(kernel, fd)', Pollable(fd)')
        <5>1. idxplus1'[fd] = 0 /\ Seen(kernel, fd)' = Wanted(fd)'
          BY <1>1, <1>5, <1>10, <2>9, <3>2, <3>3
        <5> QED  BY <5>1 DEF PendingOK
      <4> QED  BY <4>1, <4>2, PendingIs
    <3>5. FilesInv'
      <4>1. inserted' = inserted \cup {e} /\ EvFd[e] = fd /\ file[fd] \notin Unpollable
        BY <1>6, <2>14, <3>1 DEF Pollable, fd
      <4> QED  BY <1>0, <1>1, <1>10, <4>1 DEF FilesInv
    <3>6. TypeOK'
      BY <1>0, <1>1, <1>t, <1>6, <1>10, <2>12, <3>1, TypeAfter
    <3> QED  BY <1>5, <1>6, <2>11, <2>12, <3>1, <3>4, <3>5, <3>6 DEF MapInv, MapConsistent
  <2> QED  BY <2>13, <2>14
<1> QED  BY <1>2, <1>8, <1>9, <1>10


LEMMA DelKeeps ==
  ASSUME MapInv, NEW e \in Event, evmap_io_del(e)
  PROVE  MapInv'
<1> DEFINE fd == EvFd[e]
           old == Old(fd)
           res == (IF "READ" \in EvEvents[e] /\ io[fd].nread = 1 THEN {"READ"} ELSE {})
                  \cup (IF "WRITE" \in EvEvents[e] /\ io[fd].nwrite = 1 THEN {"WRITE"} ELSE {})
           r == epoll_nochangelist_del(fd, old, res)
<1>0. /\ TypeOK /\ IsFiniteSet(inserted) /\ ListsRight /\ IndexRight /\ MapConsistent
      /\ FilesInv /\ KeysRight(kernel) /\ PendingInv
  BY DEF MapInv, MapConsistent
<1>t. /\ io \in [Fd -> IoRec] /\ inserted \subseteq Event /\ changes \in Seq(ChangeRec)
      /\ idxplus1 \in [Fd -> Nat] /\ file \in [Fd -> File \cup {NoFile}]
      /\ evsel \in {"epoll", "epoll_changelist"}
  BY <1>0, TypeNow
<1>1. /\ fd \in Fd /\ e \in inserted /\ inserted' = inserted \ {e}
      /\ UNCHANGED <<evsel, file, nevents, pc>>
  BY EvmapAssumption DEF evmap_io_del, Unchanged
<1>2. \/ /\ res = {}
         /\ RemoveFromList(e)
         /\ UNCHANGED <<changes, idxplus1, kernel>>
      \/ /\ res # {} /\ evsel = "epoll_changelist"
         /\ event_changelist_del(fd, old, res)
         /\ RemoveFromList(e)
      \/ /\ res # {} /\ evsel = "epoll"
         /\ kernel' = r.k
         /\ IF r.ok THEN RemoveFromList(e) ELSE UNCHANGED io
         /\ UNCHANGED <<changes, idxplus1>>
  BY DEF evmap_io_del
<1>3. /\ "READ" \in res <=> "READ" \in EvEvents[e] /\ io[fd].nread = 1
      /\ "WRITE" \in res <=> "WRITE" \in EvEvents[e] /\ io[fd].nwrite = 1
  OBVIOUS
<1>4. /\ old \in SUBSET {"READ", "WRITE"}
      /\ "READ" \in old <=> "IN" \in Wanted(fd)
      /\ "WRITE" \in old <=> "OUT" \in Wanted(fd)
      /\ InKernel(old) = Wanted(fd)
  BY <1>0, <1>1, OldIs
<1>5. /\ \A g : Seen(kernel, g)' = Seen(kernel', g) /\ (Pollable(g)' <=> Pollable(g))
      /\ KeysRight(kernel)' <=> KeysRight(kernel')
  BY <1>1, FilesSame
<1>6. RemoveFromList(e) => /\ io' \in [Fd -> IoRec] /\ inserted' \subseteq Event
                           /\ IsFiniteSet(inserted') /\ ListsRight'
  BY <1>0, <1>1, <1>t, ListsRemove
<1>7. /\ "IN" \in Wanted(fd)' <=> "IN" \in Wanted(fd) /\ "READ" \notin res
      /\ "OUT" \in Wanted(fd)' <=> "OUT" \in Wanted(fd) /\ "WRITE" \notin res
      /\ \A g \in Fd : g # fd => Wanted(g)' = Wanted(g)
  <2>1. /\ "IN" \in Wanted(fd)' <=> "IN" \in Wanted(fd) /\ ~("READ" \in EvEvents[e] /\ io[fd].nread = 1)
        /\ "OUT" \in Wanted(fd)' <=> "OUT" \in Wanted(fd) /\ ~("WRITE" \in EvEvents[e] /\ io[fd].nwrite = 1)
        /\ \A g \in Fd : g # fd => Wanted(g)' = Wanted(g)
    BY <1>0, <1>1, WantedAfterDel
  <2> HIDE DEF fd, res
  <2> QED  BY <1>3, <2>1
<1>f. FilesInv /\ (evsel' = "epoll" => changes' = <<>>) => FilesInv'
  BY <1>1 DEF FilesInv
<1>8. CASE /\ res = {} /\ RemoveFromList(e) /\ UNCHANGED <<changes, idxplus1, kernel>>
  <2>1. Wanted(fd)' = Wanted(fd)
    <3>1. "READ" \notin res /\ "WRITE" \notin res
      BY <1>8
    <3> HIDE DEF res, fd
    <3> QED  BY <1>7, <3>1, WantedIs, SameWatch
  <2>2. FilesInv'
    BY <1>0, <1>1, <1>f, <1>8 DEF FilesInv
  <2> HIDE DEF fd, old, res, r
  <2>3. IndexRight'
    BY <1>0, <1>8 DEF IndexRight
  <2>4. PendingInv'
    <3>1. ASSUME NEW g \in Fd
          PROVE  PendingOK(idxplus1'[g], changes'[idxplus1'[g]], Wanted(g)', Seen(kernel, g)', Pollable(g)')
      <4>1. Wanted(g)' = Wanted(g)
        BY <1>7, <2>1
      <4>2. Seen(kernel, g)' = Seen(kernel, g) /\ (Pollable(g)' <=> Pollable(g))
        BY <1>5, <1>8
      <4> QED  BY <1>0, <1>8, <4>1, <4>2, PendingElsewhere
    <3> QED  BY <3>1, PendingIs
  <2>5. KeysRight(kernel')
    BY <1>0, <1>8
  <2>6. TypeOK'
    BY <1>0, <1>1, <1>t, <1>6, <1>8, <2>5, TypeAfter
  <2> QED  BY <1>5, <1>6, <1>8, <2>2, <2>3, <2>4, <2>5, <2>6 DEF MapInv, MapConsistent
<1>9. CASE /\ res # {} /\ evsel = "epoll_changelist"
           /\ event_changelist_del(fd, old, res)
           /\ RemoveFromList(e)
  <2> DEFINE ch == Entry(fd, old)
             c == CancelOrDelete(ch, res)
  <2>1. SetChange(fd, Got(fd, old), c)
    BY <1>9 DEF event_changelist_del, Got, Entry
  <2>2. FilesInv'
    BY <1>0, <1>1, <1>f, <1>9
  <2> HIDE DEF fd, old, res, r
  <2>3. /\ ch \in ChangeRec /\ ch.fd = fd
        /\ idxplus1[fd] # 0 => ch = changes[idxplus1[fd]]
        /\ idxplus1[fd] = 0 => ch = NoChange(fd, old)
    BY <1>0, <1>1, <1>4, EntryIs
  <2> HIDE DEF ch
  <2>4. /\ Continues(c, ch, res)
        /\ "IN" \in Remaining(c) <=> "IN" \in Remaining(ch) /\ "READ" \notin res
        /\ "OUT" \in Remaining(c) <=> "OUT" \in Remaining(ch) /\ "WRITE" \notin res
    BY <2>3, CancelOrDeleteIs
  <2> HIDE DEF c
  <2>5. /\ changes' \in Seq(ChangeRec) /\ idxplus1' \in [Fd -> Nat] /\ IndexRight'
        /\ idxplus1'[fd] # 0 /\ changes'[idxplus1'[fd]] = c /\ kernel' = kernel
        /\ \A g \in Fd \ {fd} :
             /\ idxplus1'[g] = idxplus1[g]
             /\ idxplus1[g] # 0 => changes'[idxplus1'[g]] = changes[idxplus1[g]]
    BY <1>0, <1>1, <1>4, <2>1, <2>3, <2>4, EntrySet DEF Continues
  <2>6. /\ Remaining(ch) = Wanted(fd)
        /\ Pollable(fd) => (Seen(kernel, fd) = InKernel(ch.old) \/ (Seen(kernel, fd) = {} /\ AllChanged(ch)))
    <3>1. PendingOK(idxplus1[fd], changes[idxplus1[fd]], Wanted(fd), Seen(kernel, fd), Pollable(fd))
      BY <1>0, <1>1, PendingIs
    <3>2. CASE idxplus1[fd] # 0
      BY <2>3, <3>1, <3>2 DEF PendingOK
    <3>3. CASE idxplus1[fd] = 0
      <4>1. NoChange(fd, old).old = old /\ Remaining(NoChange(fd, old)) = InKernel(old)
        BY <1>1, <1>4, NoChangeIs
      <4>2. Pollable(fd) => Seen(kernel, fd) = Wanted(fd)
        BY <3>1, <3>3 DEF PendingOK
      <4> QED  BY <1>4, <2>3, <3>3, <4>1, <4>2
    <3> QED  BY <3>2, <3>3
  <2>7. Remaining(c) = Wanted(fd)'
    BY <1>7, <2>4, <2>6, WantedIs, RemainingIs, SameWatch
  <2>8. PendingInv'
    <3>1. ASSUME NEW g \in Fd, g # fd
          PROVE  PendingOK(idxplus1'[g], changes'[idxplus1'[g]], Wanted(g)', Seen(kernel, g)', Pollable(g)')
      <4>1. Wanted(g)' = Wanted(g)
        BY <1>7, <3>1
      <4>2. Seen(kernel, g)' = Seen(kernel, g) /\ (Pollable(g)' <=> Pollable(g))
        BY <1>5, <2>5
      <4>3. /\ idxplus1'[g] = idxplus1[g]
            /\ idxplus1[g] # 0 => changes'[idxplus1'[g]] = changes[idxplus1[g]]
        BY <2>5, <3>1
      <4> QED  BY <1>0, <4>1, <4>2, <4>3, PendingElsewhere
    <3>2. PendingOK(idxplus1'[fd], c, Wanted(fd)', Seen(kernel, fd)', Pollable(fd)')
      <4>1. Seen(kernel, fd)' = Seen(kernel, fd) /\ (Pollable(fd)' <=> Pollable(fd))
        BY <1>5, <2>5
      <4>2. c.old = ch.old /\ (AllChanged(ch) => AllChanged(c))
        BY <2>4 DEF Continues
      <4> QED  BY <2>5, <2>6, <2>7, <4>1, <4>2 DEF PendingOK
    <3> QED  BY <2>5, <3>1, <3>2, PendingIs
  <2>9. KeysRight(kernel')
    BY <1>0, <2>5
  <2>10. TypeOK'
    BY <1>0, <1>1, <1>6, <1>9, <2>5, <2>9, TypeAfter
  <2> QED  BY <1>5, <1>6, <1>9, <2>2, <2>5, <2>8, <2>9, <2>10 DEF MapInv, MapConsistent
<1>10. CASE /\ res # {} /\ evsel = "epoll"
            /\ kernel' = r.k
            /\ IF r.ok THEN RemoveFromList(e) ELSE UNCHANGED io
            /\ UNCHANGED <<changes, idxplus1>>
  <2> DEFINE c == DelChange(NoChange(fd, old), res)
  <2>1. r = epoll_apply_one_change(kernel, c)
    BY DEF epoll_nochangelist_del
  <2>2. Pollable(fd)
    BY <1>0, <1>1, <1>10 DEF FilesInv, Pollable
  <2> HIDE DEF fd, old, res, r
  <2>4. /\ c \in ChangeRec /\ c.fd = fd /\ c.old = old
        /\ "IN" \in Remaining(c) <=> "READ" \in old /\ "READ" \notin res
        /\ "OUT" \in Remaining(c) <=> "WRITE" \in old /\ "WRITE" \notin res
    BY <1>1, <1>4, DelChangeIs
  <2> HIDE DEF c
  <2>6. AfterChange(kernel, kernel', c)
    BY <1>0, <1>t, <1>10, <2>1, <2>4, OneChange
  <2>8. r.ok
    <3>1. EpollOp(c).op \in {"ADD", "MOD", "DEL"}
      BY <2>4, OpFacts
    <3>2. ApplyRight(kernel, c)
      BY <1>1, <2>4, <3>1, ApplyFacts
    <3> QED  BY <2>1, <2>2, <2>4, <3>2 DEF ApplyRight
  <2>9. \A g \in Fd : idxplus1[g] = 0
    BY <1>0, <1>10, NoEntries DEF FilesInv
  <2>10. Seen(kernel, fd) = Wanted(fd)
    BY <1>0, <1>1, <2>2, <2>9 DEF PendingInv
  <2>11. IndexRight'
    BY <1>0, <1>10 DEF IndexRight
  <2>12. KeysRight(kernel') /\ \A g \in Fd : g # fd => Seen(kernel', g) = Seen(kernel, g)
    BY <2>4, <2>6 DEF AfterChange
  <2>13. RemoveFromList(e)
    BY <1>10, <2>8
  <2>14. Seen(kernel', fd) = Remaining(c)
    <3>1. Began(kernel, c)
      BY <1>4, <2>4, <2>10 DEF Began
    <3> QED  BY <2>2, <2>4, <2>6, <3>1 DEF AfterChange
  <2>15. Remaining(c) = Wanted(fd)'
    BY <1>4, <1>7, <2>4, WantedIs, RemainingIs, SameWatch
  <2>16. PendingInv'
    <3>1. ASSUME NEW g \in Fd, g # fd
          PROVE  PendingOK(idxplus1'[g], changes'[idxplus1'[g]], Wanted(g)', Seen(kernel, g)', Pollable(g)')
      <4>1. Wanted(g)' = Wanted(g)
        BY <1>7, <3>1
      <4>2. Seen(kernel, g)' = Seen(kernel, g) /\ (Pollable(g)' <=> Pollable(g))
        BY <1>5, <2>12, <3>1
      <4> QED  BY <1>0, <1>10, <4>1, <4>2, PendingElsewhere
    <3>2. PendingOK(idxplus1'[fd], changes'[idxplus1'[fd]], Wanted(fd)', Seen(kernel, fd)', Pollable(fd)')
      <4>1. idxplus1'[fd] = 0 /\ Seen(kernel, fd)' = Wanted(fd)'
        BY <1>1, <1>5, <1>10, <2>9, <2>14, <2>15
      <4> QED  BY <4>1 DEF PendingOK
    <3> QED  BY <3>1, <3>2, PendingIs
  <2>17. FilesInv'
    BY <1>0, <1>1, <1>f, <1>10 DEF FilesInv
  <2>18. TypeOK'
    BY <1>0, <1>1, <1>t, <1>6, <1>10, <2>12, <2>13, TypeAfter
  <2> QED  BY <1>5, <1>6, <2>11, <2>12, <2>13, <2>16, <2>17, <2>18 DEF MapInv, MapConsistent
<1> QED  BY <1>2, <1>8, <1>9, <1>10

\* The steps of dispatch that leave the map, the changelist and the kernel alone.
LEMMA RestKeeps ==
  ASSUME MapInv, UNCHANGED <<evsel, io, inserted, changes, idxplus1, file, kernel>>,
         nevents' \in Nat, pc' \in {"run", "wait", "waited"}
  PROVE  MapInv'
<1>0. /\ TypeOK /\ IsFiniteSet(inserted) /\ ListsRight /\ IndexRight
      /\ FilesInv /\ KeysRight(kernel) /\ PendingInv
  BY DEF MapInv, MapConsistent
<1>1. TypeOK' /\ IsFiniteSet(inserted')
  BY <1>0 DEF TypeOK
<1>2. IndexRight' /\ FilesInv'
  BY <1>0 DEF IndexRight, FilesInv
<1>3. ListsRight'
  BY <1>0, ListElsewhere, ListsAt
<1>4. KeysRight(kernel)'
  BY <1>0, FilesSame
<1>5. PendingInv'
  <2>1. \A g \in Fd : Wanted(g)' = Wanted(g)
    BY WantedSame
  <2>2. \A g : Seen(kernel, g)' = Seen(kernel, g) /\ (Pollable(g)' <=> Pollable(g))
    BY FilesSame
  <2> QED  BY <1>0, <2>1, <2>2, PendingElsewhere, PendingIs
<1> QED  BY <1>1, <1>2, <1>3, <1>4, <1>5 DEF MapInv, MapConsistent

LEMMA BeginsKeeps ==
  ASSUME MapInv, DispatchBegins
  PROVE  MapInv'
<1>0. /\ TypeOK /\ IsFiniteSet(inserted) /\ ListsRight /\ IndexRight /\ MapConsistent
      /\ FilesInv /\ KeysRight(kernel) /\ PendingInv
  BY DEF MapInv, MapConsistent
<1>t. /\ io \in [Fd -> IoRec] /\ inserted \subseteq Event /\ idxplus1 \in [Fd -> Nat]
  BY <1>0, TypeNow
<1>1. /\ kernel' = Watched /\ changes' = <<>> /\ pc' = "wait"
      /\ idxplus1' = [fd \in Fd |-> IF \E i \in 1 .. Len(changes) : changes[i].fd = fd
                                    THEN 0 ELSE idxplus1[fd]]
      /\ UNCHANGED <<evsel, io, inserted, file, nevents>>
  BY DEF DispatchBegins, event_changelist_remove_all, Watched
<1>2. \A fd \in Fd : idxplus1'[fd] = 0
  <2> SUFFICES ASSUME NEW fd \in Fd, idxplus1[fd] # 0
               PROVE  \E i \in 1 .. Len(changes) : changes[i].fd = fd
    BY <1>1
  <2>1. idxplus1[fd] \in 1 .. Len(changes) /\ changes[idxplus1[fd]].fd = fd
    <3>1. Len(changes) \in Nat
      BY <1>0 DEF TypeOK
    <3> QED  BY <1>0, <1>t, <3>1 DEF IndexRight
  <2> QED  BY <2>1
<1>3. KeysRight(kernel') /\ \A fd \in Fd : Pollable(fd) => Seen(kernel', fd) = Wanted(fd)
  BY <1>0, <1>1, ChangesLead
<1>4. idxplus1' \in [Fd -> Nat] /\ changes' \in Seq(ChangeRec) /\ Len(changes') = 0
  BY <1>1, <1>2
<1>5. TypeOK'
  <2>1. /\ DOMAIN kernel' \subseteq File \X Fd
        /\ \A x \in DOMAIN kernel' : kernel'[x] \subseteq {"IN", "OUT", "ET"}
    BY <1>3 DEF KeysRight
  <2> QED  BY <1>0, <1>1, <1>4, <2>1 DEF TypeOK, ChangeRec
<1>6. IndexRight'
  BY <1>2, <1>4 DEF IndexRight
<1>7. ListsRight' /\ FilesInv' /\ IsFiniteSet(inserted')
  <2>1. ListsRight'
    BY <1>0, <1>1, ListElsewhere, ListsAt
  <2>2. FilesInv'
    BY <1>0, <1>1 DEF FilesInv
  <2> QED  BY <1>0, <1>1, <2>1, <2>2
<1>8. KeysRight(kernel)'
  BY <1>1, <1>3, FilesSame
<1>9. PendingInv'
  <2>1. ASSUME NEW fd \in Fd
        PROVE  PendingOK(idxplus1'[fd], changes'[idxplus1'[fd]], Wanted(fd)', Seen(kernel, fd)', Pollable(fd)')
    <3>1. Wanted(fd)' = Wanted(fd)
      BY <1>1, WantedSame
    <3>2. Seen(kernel, fd)' = Seen(kernel', fd) /\ (Pollable(fd)' <=> Pollable(fd))
      BY <1>1, FilesSame
    <3> QED  BY <1>2, <1>3, <3>1, <3>2 DEF PendingOK
  <2> QED  BY <2>1, PendingIs
<1> QED  BY <1>5, <1>6, <1>7, <1>8, <1>9 DEF MapInv, MapConsistent

\* What Open, Dup and Close have in common: the descriptor fd, which no event is
\* on, names something else, and the kernel has no registration for it any more.
Renamed(fd, f) ==
  /\ file' = [file EXCEPT ![fd] = f]
  /\ \A e \in inserted : EvFd[e] # fd
  /\ evsel = "epoll_changelist" => f = NoFile \/ \A g \in Fd : file[g] # f
  /\ kernel' = [x \in DOMAIN kernel' |-> kernel'[x]]
  /\ \A x \in DOMAIN kernel' : x \in DOMAIN kernel /\ x[2] # fd /\ kernel'[x] = kernel[x]
  /\ \A g \in Fd \ {fd} : Key(g) \in DOMAIN kernel => Key(g) \in DOMAIN kernel'

LEMMA RenamedKeeps ==
  ASSUME MapInv, NEW fd \in Fd, NEW f \in File \cup {NoFile}, Renamed(fd, f),
         UNCHANGED <<evsel, io, inserted, changes, idxplus1, nevents, pc>>
  PROVE  MapInv'
<1>0. /\ TypeOK /\ IsFiniteSet(inserted) /\ ListsRight /\ IndexRight
      /\ FilesInv /\ KeysRight(kernel) /\ PendingInv
  BY DEF MapInv, MapConsistent
<1>t. /\ inserted \subseteq Event /\ file \in [Fd -> File \cup {NoFile}]
      /\ evsel \in {"epoll", "epoll_changelist"}
  BY <1>0, TypeNow
<1>1. /\ file' \in [Fd -> File \cup {NoFile}] /\ file'[fd] = f
      /\ \A g \in Fd \ {fd} : file'[g] = file[g]
  BY <1>t DEF Renamed
<1>2. KeysRight(kernel)'
  <2>1. /\ kernel' = [x \in DOMAIN kernel' |-> kernel'[x]] /\ DOMAIN kernel' \subseteq DOMAIN kernel
        /\ \A x \in DOMAIN kernel' : x[2] # fd /\ kernel'[x] = kernel[x]
    BY DEF Renamed
  <2>2. /\ DOMAIN kernel \subseteq File \X Fd
        /\ \A x \in DOMAIN kernel : /\ kernel[x] \subseteq {"IN", "OUT", "ET"} /\ kernel[x] \cap {"IN", "OUT"} # {}
                                    /\ file[x[2]] = x[1] /\ x[1] \notin Unpollable
    BY <1>0 DEF KeysRight
  <2>3. \A x \in DOMAIN kernel' : file'[x[2]] = x[1]
    BY <1>1, <2>1, <2>2
  <2> QED  BY <2>1, <2>2, <2>3 DEF KeysRight
<1>3. TypeOK' /\ IsFiniteSet(inserted')
  <2>1. /\ DOMAIN kernel' \subseteq File \X Fd
        /\ \A x \in DOMAIN kernel' : kernel'[x] \subseteq {"IN", "OUT", "ET"}
    BY <1>2 DEF KeysRight
  <2> QED  BY <1>0, <1>1, <2>1 DEF TypeOK
<1>4. IndexRight' /\ ListsRight'
  <2>1. ListsRight'
    BY <1>0, ListElsewhere, ListsAt
  <2> QED  BY <1>0, <2>1 DEF IndexRight
<1>5. FilesInv'
  <2>1. \A e \in inserted : EvFd[e] # fd /\ EvFd[e] \in Fd
    BY <1>t, EvmapAssumption DEF Renamed
  <2>2. \A e \in inserted : /\ file'[EvFd[e]] # NoFile
                            /\ evsel = "epoll" => file'[EvFd[e]] \notin Unpollable
    BY <1>0, <1>1, <2>1 DEF FilesInv
  <2>3. evsel = "epoll_changelist" => f = NoFile \/ \A g \in Fd : file[g] # f
    BY DEF Renamed
  <2>4. evsel = "epoll_changelist" => \A a, b \in Fd : file[a] = file[b] /\ file[a] # NoFile => a = b
    BY <1>0 DEF FilesInv
  <2>5. evsel = "epoll_changelist" => \A a, b \in Fd : file'[a] = file'[b] /\ file'[a] # NoFile => a = b
    BY <1>1, <2>3, <2>4
  <2> QED  BY <1>0, <2>2, <2>5 DEF FilesInv
<1>6. PendingInv'
  <2>1. ASSUME NEW g \in Fd, g # fd
        PROVE  PendingOK(idxplus1'[g], changes'[idxplus1'[g]], Wanted(g)', Seen(kernel, g)', Pollable(g)')
    <3>1. Wanted(g)' = Wanted(g)
      BY WantedSame
    <3>2. Pollable(g)' <=> Pollable(g)
      BY <1>1, <2>1 DEF Pollable
    <3>3. Seen(kernel, g)' = Seen(kernel, g)
      <4>1. /\ Key(g) \in DOMAIN kernel' <=> Key(g) \in DOMAIN kernel
            /\ Key(g) \in DOMAIN kernel' => kernel'[Key(g)] = kernel[Key(g)]
        BY <2>1 DEF Renamed
      <4>2. <<file'[g], g>> = Key(g) /\ <<file[g], g>> = Key(g)
        BY <1>1, <2>1 DEF Key
      <4> HIDE DEF Key
      <4> QED  BY <4>1, <4>2 DEF Seen
    <3> QED  BY <1>0, <3>1, <3>2, <3>3, PendingElsewhere
  <2>2. PendingOK(idxplus1'[fd], changes'[idxplus1'[fd]], Wanted(fd)', Seen(kernel, fd)', Pollable(fd)')
    <3>1. Wanted(fd) = {} /\ Wanted(fd)' = {}
      BY DEF Wanted, Renamed
    <3>2. Seen(kernel, fd)' = {}
      <4>1. <<file'[fd], fd>> \notin DOMAIN kernel'
        BY DEF Renamed
      <4> QED  BY <4>1 DEF Seen
    <3>3. PendingOK(idxplus1[fd], changes[idxplus1[fd]], Wanted(fd), Seen(kernel, fd), Pollable(fd))
      BY <1>0, PendingIs
    <3> DEFINE n == idxplus1[fd]
               ch == changes[n]
    <3>4. idxplus1'[fd] = n /\ changes'[idxplus1'[fd]] = ch
      OBVIOUS
    <3> HIDE DEF n, ch
    <3>5. n # 0 => Remaining(ch) = {}
      BY <3>1, <3>3 DEF PendingOK, n, ch
    <3>6. Remaining(ch) = {} => AllChanged(ch)
      BY DEF Remaining, AllChanged
    <3> QED  BY <3>1, <3>2, <3>4, <3>5, <3>6 DEF PendingOK
  <2> QED  BY <2>1, <2>2, PendingIs
<1> QED  BY <1>2, <1>3, <1>4, <1>5, <1>6 DEF MapInv, MapConsistent

\* A closed descriptor has no events and no registration.
LEMMA ClosedUnseen ==
  ASSUME MapInv, NEW fd \in Fd, file[fd] = NoFile, NEW f, file' = [file EXCEPT ![fd] = f],
         kernel' = kernel, evsel = "epoll_changelist" => \A g \in Fd : file[g] # f
  PROVE  Renamed(fd, f)
<1>1. \A e \in inserted : EvFd[e] # fd
  BY DEF MapInv, FilesInv
<1>2. /\ DOMAIN kernel \subseteq File \X Fd /\ kernel = [x \in DOMAIN kernel |-> kernel[x]]
      /\ \A x \in DOMAIN kernel : file[x[2]] = x[1]
  BY DEF MapInv, KeysRight
<1>3. \A x \in DOMAIN kernel : x[2] # fd
  BY <1>2, EvmapAssumption
<1> QED  BY <1>1, <1>2, <1>3 DEF Renamed

LEMMA CloseRenames ==
  ASSUME MapInv, NEW fd \in Fd, Close(fd)
  PROVE  Renamed(fd, NoFile)
<1> DEFINE f == file[fd]
<1>0. TypeOK /\ IndexRight /\ FilesInv /\ KeysRight(kernel) /\ PendingInv
  BY DEF MapInv, MapConsistent
<1>t. evsel \in {"epoll", "epoll_changelist"}
  BY <1>0, TypeNow
<1>1. /\ f # NoFile /\ file' = [file EXCEPT ![fd] = NoFile]
      /\ \A e \in inserted : EvFd[e] # fd
      /\ kernel' = IF \E g \in Fd \ {fd} : file[g] = f THEN kernel ELSE Drop(kernel, {f} \X Fd)
  BY DEF Close
<1>2. /\ DOMAIN kernel \subseteq File \X Fd /\ kernel = [x \in DOMAIN kernel |-> kernel[x]]
      /\ \A x \in DOMAIN kernel : file[x[2]] = x[1] /\ x[1] \notin Unpollable /\ kernel[x] \cap {"IN", "OUT"} # {}
  BY <1>0 DEF KeysRight
<1>3. CASE \E g \in Fd \ {fd} : file[g] = f
  <2>1. evsel = "epoll" /\ changes = <<>>
    BY <1>0, <1>1, <1>3, <1>t DEF FilesInv
  <2>2. idxplus1[fd] = 0
    BY <1>0, <2>1, NoEntries
  <2>3. ASSUME NEW x \in DOMAIN kernel, x[2] = fd
        PROVE  FALSE
    <3>1. x = Key(fd) /\ Pollable(fd)
      BY <1>1, <1>2, <2>3 DEF Key, Pollable
    <3>2. Seen(kernel, fd) = {}
      <4>1. Seen(kernel, fd) = Wanted(fd)
        BY <1>0, <2>2, <3>1 DEF PendingInv
      <4>2. Wanted(fd) = {}
        BY <1>1 DEF Wanted
      <4> QED  BY <4>1, <4>2
    <3>3. Seen(kernel, fd) = kernel[x] \ {"ET"}
      BY <3>1 DEF Seen, Key
    <3> QED  BY <1>2, <3>2, <3>3
  <2>4. kernel' = kernel
    BY <1>1, <1>3
  <2> QED  BY <1>1, <1>2, <2>3, <2>4 DEF Renamed
<1>4. CASE ~ \E g \in Fd \ {fd} : file[g] = f
  <2>1. kernel' = [x \in DOMAIN kernel \ ({f} \X Fd) |-> kernel[x]]
    BY <1>1, <1>4 DEF Drop
  <2>2. /\ DOMAIN kernel' = DOMAIN kernel \ ({f} \X Fd) /\ kernel' = [x \in DOMAIN kernel' |-> kernel'[x]]
        /\ \A x \in DOMAIN kernel' : kernel'[x] = kernel[x]
    BY <2>1
  <2>3. \A x \in DOMAIN kernel' : x[2] # fd
    <3> SUFFICES ASSUME NEW x \in DOMAIN kernel', x[2] = fd
                 PROVE  FALSE
      OBVIOUS
    <3>1. x \in DOMAIN kernel /\ x \notin {f} \X Fd
      BY <2>2
    <3>2. x[1] = f /\ x \in File \X Fd
      BY <1>2, <3>1
    <3>3. x \in {f} \X Fd
      BY <3>2
    <3> QED  BY <3>1, <3>3
  <2>4. ASSUME NEW g \in Fd \ {fd}, Key(g) \in DOMAIN kernel
        PROVE  Key(g) \in DOMAIN kernel'
    <3>1. Key(g) \notin {f} \X Fd
      BY <1>4 DEF Key
    <3> QED  BY <2>2, <2>4, <3>1
  <2> HIDE DEF f
  <2> QED  BY <1>1, <2>2, <2>3, <2>4 DEF Renamed
<1> QED  BY <1>3, <1>4

LEMMA MapStep == MapInv /\ [Next]_vars => MapInv'
<1> SUFFICES ASSUME MapInv, [Next]_vars
             PROVE  MapInv'
  OBVIOUS
<1>t. /\ nevents \in Nat /\ pc \in {"run", "wait", "waited"} /\ file \in [Fd -> File \cup {NoFile}]
      /\ evsel \in {"epoll", "epoll_changelist"}
  BY TypeNow DEF MapInv, TypeOK
<1>1. ASSUME NEW e \in Event, evmap_io_add(e) PROVE MapInv'
  BY <1>1, AddKeeps
<1>2. ASSUME NEW e \in Event, evmap_io_del(e) PROVE MapInv'
  BY <1>2, DelKeeps
<1>3. CASE DispatchBegins
  BY <1>3, BeginsKeeps
<1>4. ASSUME NEW keys, epoll_wait(keys) PROVE MapInv'
  BY <1>t, <1>4, RestKeeps DEF epoll_wait
<1>5. CASE DispatchEnds
  <2>1. nevents' = 2 * nevents \/ nevents' = nevents
    BY <1>5 DEF DispatchEnds
  <2>2. nevents' \in Nat
    BY <1>t, <2>1
  <2> QED  BY <1>5, <2>2, RestKeeps DEF DispatchEnds
<1>6. ASSUME NEW fd \in Fd, NEW f \in File, Open(fd, f) PROVE MapInv'
  <2>1. Renamed(fd, f)
    BY <1>6, ClosedUnseen DEF Open
  <2> QED  BY <1>6, <2>1, RenamedKeeps DEF Open, Kept
<1>7. ASSUME NEW fd \in Fd, NEW from \in Fd, Dup(fd, from) PROVE MapInv'
  <2>1. Renamed(fd, file[from])
    BY <1>7, ClosedUnseen DEF Dup
  <2> QED  BY <1>7, <1>t, <2>1, RenamedKeeps DEF Dup, Kept
<1>8. ASSUME NEW fd \in Fd, Close(fd) PROVE MapInv'
  <2>1. Renamed(fd, NoFile)
    BY <1>8, CloseRenames
  <2> QED  BY <1>8, <2>1, RenamedKeeps DEF Close, Kept
<1>9. CASE UNCHANGED vars
  BY <1>t, <1>9, RestKeeps DEF vars
<1> QED  BY <1>1, <1>2, <1>3, <1>4, <1>5, <1>6, <1>7, <1>8, <1>9 DEF Next

LEMMA MapInvHolds == Spec => []MapInv
BY MapInit, MapStep, PTL DEF Spec

\* For any descriptors, files and events: after every sequence of evmap_io_add,
\* evmap_io_del, dispatch and system calls, with a failing epoll_ctl among them,
\* the lists of the map hold the inserted events once, the 16-bit counters count
\* them, and descriptors and changelist entries index each other.
THEOREM MapConsistentHolds == Spec => []MapConsistent
<1>1. MapInv => MapConsistent
  BY InvMatches
<1> QED  BY <1>1, MapInvHolds, PTL

\* For any descriptors, files and events, with the changelist or without: at
\* every moment, applying the pending changes would leave the kernel watching
\* each open descriptor for what its events want and nothing else, although the
\* numbers may have been closed and used again since the changes were noted.
THEOREM KernelMatchesHolds == Spec => []KernelMatches
<1>1. MapInv => KernelMatches
  BY InvMatches
<1> QED  BY <1>1, MapInvHolds, PTL

-------------------------------------------------------------------------------
-------------------------------------------------------------------------------
\* The other backends.
Backends6 == {"poll", "select", "win32", "devpoll", "kqueue", "evport"}

KFields == {"be", "want", "kern", "open", "set", "pos", "rw", "rwpos", "high", "changes", "cl",
            "what", "pend", "size", "out", "resize", "step", "got", "failed", "over"}

\* Directions of each descriptor.
DirsOf == [Other!Number -> SUBSET Other!Dirs]

\* The directions that are wanted with, and without, those of one event.
More(W, fd, E) == [W EXCEPT ![fd] = @ \cup E]
Less(W, fd, E) == [W EXCEPT ![fd] = @ \ E]

\* A descriptor with directions.
FdDirs == [fd : Other!Number, ev : SUBSET Other!Dirs]

Shape(x) ==
  /\ DOMAIN x = KFields /\ x.be \in Backends6
  /\ x.want \in DirsOf /\ x.open \in SUBSET Other!Number
  /\ x.size \in Nat /\ x.resize \in BOOLEAN
  /\ x.failed \in BOOLEAN /\ x.over \in BOOLEAN

\* What the backend makes of the directions W that are wanted: the array of
\* descriptors of poll.
PollOf(x, W) ==
  /\ x.set \in Seq(FdDirs)
  /\ x.pos \in [Other!Number -> Nat]
  /\ \A fd \in Other!Number : x.pos[fd] > 0 <=> W[fd] # {}
  /\ \A fd \in Other!Number : x.pos[fd] > 0 =>
       x.pos[fd] <= Len(x.set) /\ x.set[x.pos[fd]].fd = fd /\ x.set[x.pos[fd]].ev = W[fd]
  /\ \A i \in 1 .. Len(x.set) : x.pos[x.set[i].fd] = i
  /\ Len(x.set) <= x.size
  /\ ~x.resize => x.out = x.size

\* The array of one direction, of the descriptors in W.
PlacesOf(x, d, W) ==
  /\ x.rw[d] \in Seq(Other!Number)
  /\ x.rwpos[d] \in [Other!Number -> Nat]
  /\ \A fd \in Other!Number : x.rwpos[d][fd] > 0 <=> fd \in W
  /\ \A fd \in W : x.rwpos[d][fd] <= Len(x.rw[d]) /\ x.rw[d][x.rwpos[d][fd]] = fd
  /\ \A i \in 1 .. Len(x.rw[d]) : x.rwpos[d][x.rw[d][i]] = i
  /\ Len(x.rw[d]) <= x.size

Win32At(x, D) ==
  /\ x.rw \in [Other!Dirs -> Seq(Other!Number)] /\ x.rwpos \in [Other!Dirs -> [Other!Number -> Nat]]
  /\ x.size # 0 /\ (~x.resize => x.out = x.size)
  /\ \A d \in Other!Dirs : PlacesOf(x, d, D[d])

\* The descriptors that are wanted for each direction.
ByDir(W) == [d \in Other!Dirs |-> {fd \in Other!Number : d \in W[fd]}]

Win32Of(x, W) == Win32At(x, ByDir(W))

\* The sets of bits of select, which are as long as the highest descriptor needs.
SelectOf(x, W) ==
  /\ x.kern = W
  /\ x.high \in Nat /\ x.high < x.size
  /\ \A fd \in Other!Number : W[fd] # {} => fd <= x.high
  /\ ~x.resize => x.out = x.size

\* The queued changes of devpoll lead to what is wanted.
DevpollOf(x, W) ==
  /\ x.kern \in DirsOf
  /\ x.changes \in Seq(FdDirs)
  /\ Other!Written(x.kern, x.changes) = W

\* So do those of kqueue, but for descriptors that were closed.
KqueueOf(x, W) ==
  /\ x.kern \in DirsOf
  /\ x.cl \in [Other!Number -> [Other!Dirs -> {"none", "add", "del"}]]
  /\ x.size # 0 /\ x.out \in Nat \ {0}
  /\ \A fd \in Other!Number :
       /\ {d \in Other!Dirs : x.cl[fd][d] = "add" \/ (d \in x.kern[fd] /\ x.cl[fd][d] # "del")}
          = W[fd]
       /\ fd \notin x.open => W[fd] = {} /\ x.kern[fd] = {}

\* What evport's kernel forgot is pending, or among what it has just reported.
EvportOf(x, W) ==
  /\ x.kern \in DirsOf /\ x.what = W /\ x.size # 0
  /\ x.pend \in [1 .. GetN -> Other!Number \cup {Other!NoFd}]
  /\ x.got \in Seq(Other!Number) /\ Len(x.got) <= GetN
  /\ x.step \in {"lock", "waits", "returned"}
  /\ \A fd \in Other!Number :
       \/ W[fd] \subseteq x.kern[fd]
       \/ x.step = "lock" /\ \E i \in 1 .. GetN : x.pend[i] = fd
       \/ x.step = "returned" /\ \E i \in 1 .. Len(x.got) : x.got[i] = fd

\* What each backend makes of W.
Watching(x, W) ==
  /\ x.be = "poll" => PollOf(x, W)
  /\ x.be = "select" => SelectOf(x, W)
  /\ x.be = "win32" => Win32Of(x, W)
  /\ x.be = "devpoll" => DevpollOf(x, W)
  /\ x.be = "kqueue" => KqueueOf(x, W)
  /\ x.be = "evport" => EvportOf(x, W)

\* The inductive invariant: as long as no deletion failed, the backend watches
\* what is wanted, and no array is ever too short.
BackendInvOf(x) == Shape(x) /\ ~x.over /\ (~x.failed => Watching(x, x.want))
BackendInv == BackendInvOf(k)

\* A backend that serves what is wanted, and what an operation leaves alone.
Serves(x) == Shape(x) /\ ~x.over /\ ~x.failed /\ Watching(x, x.want)

Framed(y, x) ==
  /\ DOMAIN y = KFields
  /\ y.be = x.be /\ y.want = x.want /\ y.open = x.open /\ y.step = x.step /\ y.got = x.got
  /\ y.size \in Nat /\ y.resize \in BOOLEAN
  /\ y.over \in BOOLEAN /\ ~y.over /\ y.failed \in BOOLEAN

\* The states of a loop that applies a function to a state, for i from 1 to n.
Loop(g, S, F, z, n) ==
  /\ g \in [0 .. n -> S]
  /\ \A i \in 0 .. n : g[i] = IF i = 0 THEN z ELSE F[<<g[i - 1], i>>]

\* A loop has states.
LEMMA LoopExists ==
  ASSUME NEW S, NEW F \in [S \X Nat -> S], NEW z \in S, NEW n \in Nat
  PROVE  \E g : Loop(g, S, F, z, n)
<1> DEFINE At(g, i) == IF i = 0 THEN z ELSE F[<<g[i - 1], i>>]
           Up(g, m) == g \in [0 .. m -> S] /\ \A i \in 0 .. m : g[i] = At(g, i)
           P == {m \in Nat : \E g : Up(g, m)}
<1>1. 0 \in P
  <2> DEFINE g == [i \in 0 .. 0 |-> z]
  <2>1. Up(g, 0)
    OBVIOUS
  <2> HIDE DEF g, Up
  <2> QED  BY <2>1
<1>2. ASSUME NEW m \in Nat, m \in P
      PROVE  m + 1 \in P
  <2>1. PICK g : Up(g, m)
    BY <1>2
  <2> DEFINE v == F[<<g[m], m + 1>>]
             h == [i \in 0 .. m + 1 |-> IF i = m + 1 THEN v ELSE g[i]]
  <2>2. v \in S
    BY <2>1
  <2>3. h \in [0 .. m + 1 -> S] /\ h[m + 1] = v /\ \A i \in 0 .. m : h[i] = g[i]
    BY <2>1, <2>2
  <2> HIDE DEF h
  <2>4. ASSUME NEW i \in 0 .. m + 1
        PROVE  h[i] = At(h, i)
    <3>1. CASE i = 0
      <4>1. 0 \in 0 .. m
        OBVIOUS
      <4> QED  BY <2>1, <2>3, <3>1, <4>1
    <3>2. CASE i # 0 /\ i <= m
      <4>1. i - 1 \in 0 .. m /\ i \in 0 .. m
        BY <3>2
      <4> QED  BY <2>1, <2>3, <3>2, <4>1
    <3>3. CASE i = m + 1
      <4>1. i - 1 = m /\ m \in 0 .. m /\ i # 0
        BY <3>3
      <4> QED  BY <2>3, <3>3, <4>1
    <3> QED  BY <3>1, <3>2, <3>3
  <2>5. Up(h, m + 1)
    BY <2>3, <2>4
  <2> HIDE DEF Up
  <2> QED  BY <2>5
<1>3. n \in P
  <2> HIDE DEF P
  <2> QED  BY <1>1, <1>2, NaturalInduction
<1>4. PICK g : Up(g, n)
  BY <1>3
<1>5. Loop(g, S, F, z, n)
  BY <1>4 DEF Loop
<1> QED  BY <1>5

\* A size that is doubled becomes large enough.
LEMMA DoubledFacts ==
  ASSUME NEW n \in Nat \ {0}, NEW need \in Nat
  PROVE  /\ Other!Doubled(n, need) \in Nat
         /\ Other!Doubled(n, need) >= need /\ Other!Doubled(n, need) >= n
<1> DEFINE Step(s) == IF s >= need THEN s ELSE 2 * s
           At(g, i) == IF i = 0 THEN n
                       ELSE IF g[i - 1] >= need THEN g[i - 1] ELSE 2 * g[i - 1]
           f == CHOOSE g : g = [i \in 0 .. need |-> At(g, i)]
           F == [t \in Nat \X Nat |-> Step(t[1])]
<1>1. Other!Doubled(n, need) = f[need]
  BY DEF Other!Doubled
<1>2. F \in [Nat \X Nat -> Nat] /\ \A s, i \in Nat : F[<<s, i>>] = Step(s)
  OBVIOUS
<1>3. PICK g : Loop(g, Nat, F, n, need)
  <2>1. F \in [Nat \X Nat -> Nat] /\ n \in Nat /\ need \in Nat
    BY <1>2
  <2> HIDE DEF F
  <2> QED  BY <2>1, LoopExists
<1>4. g = [i \in 0 .. need |-> At(g, i)]
  <2>0. /\ g \in [0 .. need -> Nat]
        /\ \A i \in 0 .. need : g[i] = IF i = 0 THEN n ELSE F[<<g[i - 1], i>>]
    BY <1>3 DEF Loop
  <2>1. \A i \in 0 .. need : i # 0 => F[<<g[i - 1], i>>] = Step(g[i - 1])
    <3> SUFFICES ASSUME NEW i \in 0 .. need, i # 0
                 PROVE  F[<<g[i - 1], i>>] = Step(g[i - 1])
      OBVIOUS
    <3>1. i - 1 \in 0 .. need /\ i \in Nat
      OBVIOUS
    <3>2. g[i - 1] \in Nat
      BY <2>0, <3>1
    <3> HIDE DEF F
    <3> QED  BY <1>2, <3>1, <3>2
  <2> HIDE DEF F
  <2>2. \A i \in 0 .. need : (IF i = 0 THEN n ELSE F[<<g[i - 1], i>>]) = At(g, i)
    BY <2>1
  <2> QED  BY <2>0, <2>2
<1>5. f = [i \in 0 .. need |-> At(f, i)]
  BY <1>4
<1> HIDE DEF f, F
<1>6. \A i \in 0 .. need : f[i] = At(f, i)
  BY <1>5
<1> DEFINE P == {i \in Nat : i <= need => f[i] \in Nat /\ f[i] >= n /\ (f[i] >= need \/ f[i] >= i)}
<1>7. 0 \in P
  BY <1>6
<1>8. \A i \in Nat : i \in P => i + 1 \in P
  <2> SUFFICES ASSUME NEW i \in Nat, i \in P, i + 1 <= need
               PROVE  i + 1 \in P
    OBVIOUS
  <2>1. i \in 0 .. need /\ i + 1 \in 0 .. need /\ (i + 1) - 1 = i /\ i + 1 # 0
    OBVIOUS
  <2>2. f[i + 1] = Step(f[i])
    BY <1>6, <2>1
  <2>3. f[i] \in Nat /\ f[i] >= n /\ (f[i] >= need \/ f[i] >= i)
    BY <2>1
  <2>4. f[i + 1] \in Nat /\ f[i + 1] >= n /\ (f[i + 1] >= need \/ f[i + 1] >= i + 1)
    BY <2>2, <2>3
  <2> QED  BY <2>4
<1>9. need \in P
  <2> HIDE DEF P
  <2> QED  BY <1>7, <1>8, NaturalInduction
<1> QED  BY <1>1, <1>9

-------------------------------------------------------------------------------
\* devpoll: what the kernel makes of a change, and of a list of them.
Onto(w, c) == [w EXCEPT ![c.fd] = IF c.ev = {} THEN {} ELSE @ \cup c.ev]

WrittenBy(f, kern, list) ==
  /\ f \in [0 .. Len(list) -> DirsOf] /\ f[0] = kern
  /\ \A i \in 1 .. Len(list) : f[i] = Onto(f[i - 1], list[i])
  /\ f[Len(list)] = Other!Written(kern, list)

LEMMA OntoType ==
  ASSUME NEW w \in DirsOf, NEW c \in FdDirs
  PROVE  Onto(w, c) \in DirsOf
BY DEF Onto, DirsOf, FdDirs

\* The kernel's states while it takes the list.
LEMMA WrittenFacts ==
  ASSUME NEW kern \in DirsOf, NEW list \in Seq(FdDirs)
  PROVE  \E f : WrittenBy(f, kern, list)
<1> DEFINE n == Len(list)
           At(g, i) == IF i = 0 THEN kern
                       ELSE [g[i - 1] EXCEPT ![list[i].fd] =
                               IF list[i].ev = {} THEN {} ELSE @ \cup list[i].ev]
           f == CHOOSE g : g = [i \in 0 .. n |-> At(g, i)]
           F == [t \in DirsOf \X Nat |->
                   IF t[2] \in 1 .. n THEN Onto(t[1], list[t[2]]) ELSE t[1]]
<1>1. Other!Written(kern, list) = f[n]
  BY DEF Other!Written
<1>2. n \in Nat /\ \A i \in 1 .. n : list[i] \in FdDirs
  OBVIOUS
<1>3. F \in [DirsOf \X Nat -> DirsOf]
      /\ \A w \in DirsOf, i \in 1 .. n : F[<<w, i>>] = Onto(w, list[i])
  <2>1. \A t \in DirsOf \X Nat :
          (IF t[2] \in 1 .. n THEN Onto(t[1], list[t[2]]) ELSE t[1]) \in DirsOf
    BY <1>2, OntoType
  <2>2. \A i \in 1 .. n : i \in Nat
    BY <1>2
  <2> QED  BY <2>1, <2>2
<1> HIDE DEF F
<1>4. PICK g : Loop(g, DirsOf, F, kern, n)
  <2> HIDE DEF n
  <2> QED  BY <1>2, <1>3, LoopExists
<1>5. /\ g \in [0 .. n -> DirsOf] /\ g[0] = kern
      /\ \A i \in 1 .. n : g[i] = Onto(g[i - 1], list[i])
  <2>1. /\ g \in [0 .. n -> DirsOf]
        /\ \A i \in 0 .. n : g[i] = IF i = 0 THEN kern ELSE F[<<g[i - 1], i>>]
    BY <1>4 DEF Loop
  <2>2. 0 \in 0 .. n /\ \A i \in 1 .. n : i \in 0 .. n /\ i - 1 \in 0 .. n /\ i # 0
    BY <1>2
  <2> HIDE DEF n
  <2> QED  BY <1>3, <2>1, <2>2
<1>6. g = [i \in 0 .. n |-> At(g, i)]
  <2>1. \A i \in 0 .. n : g[i] = At(g, i)
    <3>1. \A i \in 0 .. n : i = 0 \/ i \in 1 .. n
      BY <1>2
    <3> HIDE DEF n
    <3> QED  BY <1>5, <3>1 DEF Onto
  <2> HIDE DEF n, At
  <2> QED  BY <1>5, <2>1
<1>7. f = [i \in 0 .. n |-> At(f, i)]
  <2> HIDE DEF At, n
  <2> QED  BY <1>6
<1> DEFINE P == {i \in Nat : i <= n => f[i] = g[i]}
<1>8. \A i \in 0 .. n : f[i] = At(f, i)
  <2> HIDE DEF At, n, f
  <2> QED  BY <1>7
<1>9. 0 \in P
  <2>1. 0 \in 0 .. n
    BY <1>2
  <2> HIDE DEF f, n
  <2> QED  BY <1>5, <1>8, <2>1
<1>10. \A i \in Nat : i \in P => i + 1 \in P
  <2> HIDE DEF f, n
  <2> SUFFICES ASSUME NEW i \in Nat, i \in P, i + 1 <= n
               PROVE  f[i + 1] = g[i + 1]
    OBVIOUS
  <2>1. i + 1 \in 0 .. n /\ i + 1 \in 1 .. n /\ (i + 1) - 1 = i /\ i + 1 # 0 /\ i <= n
    BY <1>2
  <2>2. f[i] = g[i]
    BY <2>1
  <2>3. f[i + 1] = Onto(f[i], list[i + 1])
    BY <1>8, <2>1 DEF Onto
  <2>4. g[i + 1] = Onto(g[i], list[i + 1])
    BY <1>5, <2>1
  <2> QED  BY <2>2, <2>3, <2>4
<1>11. n \in P
  <2> HIDE DEF P
  <2> QED  BY <1>2, <1>9, <1>10, NaturalInduction
<1>12. f[n] = g[n]
  BY <1>2, <1>11
<1> HIDE DEF f
<1> QED  BY <1>1, <1>5, <1>12 DEF WrittenBy

\* One more change in the list.
LEMMA WrittenAppend ==
  ASSUME NEW kern \in DirsOf, NEW list \in Seq(FdDirs), NEW c \in FdDirs
  PROVE  /\ Other!Written(kern, <<>>) = kern
         /\ Other!Written(kern, list) \in DirsOf
         /\ Other!Written(kern, Append(list, c)) = Onto(Other!Written(kern, list), c)
<1> DEFINE n == Len(list)
           more == Append(list, c)
<1>1. /\ n \in Nat /\ more \in Seq(FdDirs) /\ Len(more) = n + 1 /\ more[n + 1] = c
      /\ \A i \in 1 .. n : more[i] = list[i]
  OBVIOUS
<1> HIDE DEF n, more
<1>2. Other!Written(kern, <<>>) = kern
  <2>1. <<>> \in Seq(FdDirs) /\ Len(<<>>) = 0
    OBVIOUS
  <2>2. PICK f : WrittenBy(f, kern, <<>>)
    BY <2>1, WrittenFacts
  <2> QED  BY <2>1, <2>2 DEF WrittenBy
<1>3. PICK f : WrittenBy(f, kern, list)
  BY WrittenFacts
<1>4. PICK g : WrittenBy(g, kern, more)
  BY <1>1, WrittenFacts
<1>5. /\ f \in [0 .. n -> DirsOf] /\ f[0] = kern /\ f[n] = Other!Written(kern, list)
      /\ \A i \in 1 .. n : f[i] = Onto(f[i - 1], list[i])
  BY <1>3 DEF WrittenBy, n
<1>6. /\ g[0] = kern /\ g[n + 1] = Other!Written(kern, more)
      /\ \A i \in 1 .. n + 1 : g[i] = Onto(g[i - 1], more[i])
  BY <1>1, <1>4 DEF WrittenBy
<1> DEFINE P == {i \in Nat : i <= n => f[i] = g[i]}
<1>7. 0 \in P
  BY <1>5, <1>6
<1>8. \A i \in Nat : i \in P => i + 1 \in P
  <2> SUFFICES ASSUME NEW i \in Nat, i \in P, i + 1 <= n
               PROVE  f[i + 1] = g[i + 1]
    OBVIOUS
  <2>1. i + 1 \in 1 .. n /\ i + 1 \in 1 .. n + 1 /\ (i + 1) - 1 = i /\ i <= n
    BY <1>1
  <2> QED  BY <1>1, <1>5, <1>6, <2>1
<1>9. n \in P
  <2> HIDE DEF P
  <2> QED  BY <1>1, <1>7, <1>8, NaturalInduction
<1>10. g[n + 1] = Onto(g[n], c)
  <2>1. n + 1 \in 1 .. n + 1 /\ (n + 1) - 1 = n
    BY <1>1
  <2> QED  BY <1>1, <1>6, <2>1
<1>11. n \in 0 .. n /\ f[n] = g[n]
  BY <1>1, <1>9
<1> QED  BY <1>2, <1>5, <1>6, <1>10, <1>11 DEF more

\* A descriptor that the kernel loses beforehand has no more in the end.
LEMMA WrittenWithout ==
  ASSUME NEW kern \in DirsOf, NEW list \in Seq(FdDirs), NEW fd \in Other!Number,
         Other!Written(kern, list)[fd] = {}
  PROVE  Other!Written([kern EXCEPT ![fd] = {}], list) = Other!Written(kern, list)
<1> DEFINE n == Len(list)
           less == [kern EXCEPT ![fd] = {}]
           Near(v, w) == v[fd] \subseteq w[fd] /\ \A x \in Other!Number \ {fd} : v[x] = w[x]
<1>1. n \in Nat /\ less \in DirsOf /\ Near(less, kern)
  BY DEF DirsOf
<1> HIDE DEF less
<1>2. PICK f : WrittenBy(f, kern, list)
  BY WrittenFacts
<1>3. PICK g : WrittenBy(g, less, list)
  BY <1>1, WrittenFacts
<1>4. /\ f \in [0 .. n -> DirsOf] /\ f[0] = kern /\ f[n] = Other!Written(kern, list)
      /\ \A i \in 1 .. n : f[i] = Onto(f[i - 1], list[i])
  BY <1>2 DEF WrittenBy
<1>5. /\ g \in [0 .. n -> DirsOf] /\ g[0] = less /\ g[n] = Other!Written(less, list)
      /\ \A i \in 1 .. n : g[i] = Onto(g[i - 1], list[i])
  BY <1>3 DEF WrittenBy
<1>6. \A i \in 1 .. n : list[i] \in FdDirs
  OBVIOUS
<1> HIDE DEF n
<1> DEFINE P == {i \in Nat : i <= n => Near(g[i], f[i])}
<1>7. 0 \in P
  BY <1>1, <1>4, <1>5
<1>8. \A i \in Nat : i \in P => i + 1 \in P
  <2> HIDE DEF Near
  <2> SUFFICES ASSUME NEW i \in Nat, i \in P, i + 1 <= n
               PROVE  Near(g[i + 1], f[i + 1])
    OBVIOUS
  <2>1. i + 1 \in 1 .. n /\ (i + 1) - 1 = i /\ i <= n /\ i \in 0 .. n
    BY <1>1
  <2>2. /\ g[i] \in DirsOf /\ f[i] \in DirsOf /\ Near(g[i], f[i])
        /\ g[i + 1] = Onto(g[i], list[i + 1]) /\ f[i + 1] = Onto(f[i], list[i + 1])
        /\ list[i + 1] \in FdDirs
    BY <1>4, <1>5, <1>6, <2>1
  <2> DEFINE v == g[i]
             w == f[i]
             c == list[i + 1]
  <2>3. v \in DirsOf /\ w \in DirsOf /\ Near(v, w) /\ c \in FdDirs
    BY <2>2
  <2> HIDE DEF v, w, c
  <2>4. Near(Onto(v, c), Onto(w, c))
    BY <2>3 DEF Onto, DirsOf, FdDirs, Near
  <2> QED  BY <2>2, <2>4 DEF v, w, c
<1>9. n \in P
  <2> HIDE DEF P
  <2> QED  BY <1>1, <1>7, <1>8, NaturalInduction
<1>10. n \in 0 .. n /\ Near(g[n], f[n])
  BY <1>1, <1>9
<1>11. g[n] \in DirsOf /\ f[n] \in DirsOf /\ f[n][fd] = {}
  BY <1>4, <1>5, <1>10
<1>12. \A x \in Other!Number : g[n][x] = f[n][x]
  BY <1>10, <1>11
<1>13. g[n] = f[n]
  BY <1>11, <1>12 DEF DirsOf
<1> QED  BY <1>4, <1>5, <1>13 DEF less

-------------------------------------------------------------------------------
\* poll: one entry for each descriptor that is wanted.
LEMMA PollEntries ==
  ASSUME NEW x, NEW W, PollOf(x, W)
  PROVE  /\ x.set \in Seq(FdDirs) /\ Len(x.set) \in Nat
         /\ \A i \in 1 .. Len(x.set) : x.set[i] \in FdDirs
         /\ \A i \in 1 .. Len(x.set) : x.set[i].fd \in Other!Number
         /\ \A fd \in Other!Number : x.pos[fd] \in Nat
         /\ \A fd \in Other!Number : x.pos[fd] > 0 =>
              x.pos[fd] \in 1 .. Len(x.set) /\ x.set[x.pos[fd]].fd = fd
<1>1. x.set \in Seq(FdDirs) /\ x.pos \in [Other!Number -> Nat]
      /\ \A fd \in Other!Number : x.pos[fd] > 0 => x.pos[fd] <= Len(x.set) /\ x.set[x.pos[fd]].fd = fd
  BY DEF PollOf
<1>2. Len(x.set) \in Nat /\ \A i \in 1 .. Len(x.set) : x.set[i] \in FdDirs
  BY <1>1
<1>3. \A c \in FdDirs : c.fd \in Other!Number
  BY DEF FdDirs
<1> QED  BY <1>1, <1>2, <1>3

\* As long as there are descriptors that are wanted.
LEMMA PollCount ==
  ASSUME NEW x, NEW W, PollOf(x, W)
  PROVE  Len(x.set) = Cardinality({fd \in Other!Number : x.pos[fd] > 0})
<1> DEFINE s == [i \in 1 .. Len(x.set) |-> x.set[i].fd]
<1>1. Len(x.set) \in Nat /\ s \in Seq(Other!Number) /\ Len(s) = Len(x.set)
      /\ DOMAIN s = 1 .. Len(x.set)
      /\ \A i \in 1 .. Len(x.set) : s[i] = x.set[i].fd
  <2>1. Len(x.set) \in Nat /\ \A i \in 1 .. Len(x.set) : x.set[i].fd \in Other!Number
    BY PollEntries
  <2>2. s \in [1 .. Len(x.set) -> Other!Number]
    BY <2>1
  <2> HIDE DEF s
  <2>3. s \in Seq(Other!Number) /\ Len(s) = Len(x.set)
    BY <2>1, <2>2
  <2> QED  BY <2>1, <2>3 DEF s
<1> HIDE DEF s
<1>2. IsInjective(s)
  <2> SUFFICES ASSUME NEW a \in 1 .. Len(x.set), NEW b \in 1 .. Len(x.set), s[a] = s[b]
               PROVE  a = b
    BY <1>1 DEF IsInjective
  <2> QED  BY <1>1 DEF PollOf
<1>3. ToSet(s) = {fd \in Other!Number : x.pos[fd] > 0}
  <2>1. ToSet(s) = {s[i] : i \in 1 .. Len(x.set)}
    BY <1>1, ElementsInRange
  <2>2. ASSUME NEW i \in 1 .. Len(x.set) PROVE s[i] \in Other!Number /\ x.pos[s[i]] > 0
    BY <1>1 DEF PollOf
  <2>3. ASSUME NEW fd \in Other!Number, x.pos[fd] > 0
        PROVE  \E i \in 1 .. Len(x.set) : s[i] = fd
    <3>1. x.pos[fd] \in 1 .. Len(x.set) /\ x.set[x.pos[fd]].fd = fd
      BY <2>3, PollEntries
    <3> QED  BY <1>1, <3>1
  <2> QED  BY <2>1, <2>2, <2>3
<1> QED  BY <1>1, <1>2, <1>3, InjectiveLength

\* The array is long enough for one more.
LEMMA PollGrowFacts ==
  ASSUME NEW x, Shape(x), ~x.over, NEW W, PollOf(x, W)
  PROVE  LET y == Other!poll_grow(x)
         IN  /\ Framed(y, x) /\ PollOf(y, W) /\ y.failed = x.failed
             /\ y.set = x.set /\ y.pos = x.pos /\ Len(x.set) + 1 <= y.size
<1> DEFINE y == Other!poll_grow(x)
<1>1. Len(x.set) \in Nat /\ x.size \in Nat /\ Len(x.set) <= x.size /\ Room \in Nat \ {0}
  BY BackendsAssumption DEF Shape, PollOf
<1>2. DOMAIN x = KFields
  BY DEF Shape
<1>3. CASE Len(x.set) + 1 < x.size
  <2>1. y = x
    BY <1>3 DEF Other!poll_grow
  <2> QED  BY <1>1, <1>3, <2>1 DEF Framed, Shape
<1>4. CASE ~(Len(x.set) + 1 < x.size)
  <2> DEFINE v == IF x.size < Room THEN Room ELSE 2 * x.size
  <2>1. y = [x EXCEPT !.size = v, !.resize = TRUE]
    BY <1>2, <1>4 DEF Other!poll_grow, KFields
  <2>2. v \in Nat /\ Len(x.set) + 1 <= v /\ Len(x.set) <= v
    BY <1>1, <1>4
  <2> HIDE DEF v, y
  <2>3. /\ DOMAIN y = KFields /\ y.size = v /\ y.resize = TRUE /\ y.set = x.set /\ y.pos = x.pos
        /\ y.be = x.be /\ y.want = x.want /\ y.open = x.open /\ y.step = x.step /\ y.got = x.got
        /\ y.over = x.over /\ y.failed = x.failed
    BY <1>2, <2>1 DEF KFields
  <2>4. PollOf(y, W)
    BY <2>2, <2>3 DEF PollOf
  <2> QED  BY <2>2, <2>3, <2>4 DEF Framed, Shape, y
<1> QED  BY <1>3, <1>4

\* poll_add.
LEMMA PollAdds ==
  ASSUME NEW x, Serves(x), x.be = "poll", NEW fd \in Other!Number,
         NEW E \in SUBSET Other!Dirs, E # {}
  PROVE  LET y == Other!poll_add(x, fd, E)
         IN  Framed(y, x) /\ ~y.failed /\ PollOf(y, More(x.want, fd, E))
<1> DEFINE g == Other!poll_grow(x)
           W == More(x.want, fd, E)
           i == g.pos[fd]
<1>1. /\ Framed(g, x) /\ PollOf(g, x.want) /\ ~g.failed
      /\ Len(g.set) + 1 <= g.size
  BY PollGrowFacts DEF Serves, Watching
<1>2. x.want \in DirsOf
  BY DEF Serves, Shape
<1>3. Other!poll_add(x, fd, E) = Other!PollEntry(g, fd, E)
  BY DEF Other!poll_add
<1> HIDE DEF g
<1>4. W \in DirsOf /\ W[fd] = x.want[fd] \cup E /\ W[fd] # {}
      /\ \A o \in Other!Number \ {fd} : W[o] = x.want[o]
  BY <1>2 DEF DirsOf, More
<1>5. DOMAIN g = KFields /\ Len(g.set) \in Nat /\ i \in Nat
      /\ (i > 0 => i \in 1 .. Len(g.set))
  BY <1>1, PollEntries DEF Framed
<1>8. \A j \in 1 .. Len(g.set) : g.set[j] \in FdDirs /\ g.set[j].fd \in Other!Number
  BY <1>1, PollEntries
<1> HIDE DEF W
<1>6. CASE i > 0
  <2> DEFINE s == [g.set EXCEPT ![i].ev = @ \cup E]
             y == [g EXCEPT !.set = s]
  <2>1. Other!PollEntry(g, fd, E) = y
    BY <1>5, <1>6 DEF Other!PollEntry, KFields
  <2>2. i \in 1 .. Len(g.set) /\ g.set[i].fd = fd /\ g.set[i].ev = x.want[fd]
        /\ g.set \in Seq(FdDirs)
    BY <1>1, <1>5, <1>6 DEF PollOf
  <2>3. /\ s \in Seq(FdDirs) /\ Len(s) = Len(g.set)
        /\ s[i].fd = fd /\ s[i].ev = W[fd]
        /\ \A j \in 1 .. Len(g.set) : j # i => s[j] = g.set[j]
    <3> DEFINE c == [g.set[i] EXCEPT !.ev = @ \cup E]
    <3>1. c \in FdDirs /\ c.fd = fd /\ c.ev = W[fd]
      BY <1>4, <1>8, <2>2 DEF DirsOf, FdDirs
    <3>2. s = [g.set EXCEPT ![i] = c]
      OBVIOUS
    <3> HIDE DEF c, s
    <3> QED  BY <2>2, <3>1, <3>2
  <2> HIDE DEF s
  <2>4. /\ y.set = s /\ y.pos = g.pos /\ y.size = g.size /\ y.resize = g.resize /\ y.out = g.out
        /\ Framed(y, x) /\ ~y.failed
    BY <1>1, <1>5 DEF Framed, KFields
  <2> HIDE DEF y
  <2>5. ASSUME NEW o \in Other!Number
        PROVE  /\ g.pos[o] > 0 <=> W[o] # {}
               /\ g.pos[o] > 0 => g.pos[o] <= Len(s) /\ s[g.pos[o]].fd = o /\ s[g.pos[o]].ev = W[o]
    <3>1. CASE o = fd
      <4>1. i > 0 /\ W[fd] # {} /\ i <= Len(s) /\ s[i].fd = fd /\ s[i].ev = W[fd]
        BY <1>4, <1>5, <1>6, <2>2, <2>3
      <4> QED  BY <3>1, <4>1
    <3>2. CASE o # fd
      <4>1. W[o] = x.want[o] /\ (g.pos[o] > 0 <=> x.want[o] # {})
        BY <1>1, <1>4, <3>2 DEF PollOf
      <4>2. g.pos[o] > 0 => g.pos[o] \in 1 .. Len(g.set) /\ g.set[g.pos[o]].fd = o
        BY <1>1, PollEntries
      <4>3. g.pos[o] > 0 => g.set[g.pos[o]].ev = x.want[o]
        BY <1>1 DEF PollOf
      <4> QED  BY <1>5, <2>2, <2>3, <3>2, <4>1, <4>2, <4>3
    <3> QED  BY <3>1, <3>2
  <2>6. ASSUME NEW j \in 1 .. Len(s)
        PROVE  g.pos[s[j].fd] = j
    <3>1. s[j].fd = g.set[j].fd /\ j \in 1 .. Len(g.set)
      BY <2>2, <2>3
    <3> QED  BY <1>1, <3>1 DEF PollOf
  <2>7. g.pos \in [Other!Number -> Nat] /\ Len(g.set) <= g.size /\ (~g.resize => g.out = g.size)
    BY <1>1 DEF PollOf
  <2>8. PollOf(y, W)
    BY <2>3, <2>4, <2>5, <2>6, <2>7 DEF PollOf
  <2> QED  BY <1>3, <2>1, <2>4, <2>8 DEF W
<1>7. CASE ~(i > 0)
  <2> DEFINE c == [fd |-> fd, ev |-> E]
             s == Append(g.set, c)
             p == [g.pos EXCEPT ![fd] = Len(g.set) + 1]
             y == [g EXCEPT !.set = s, !.pos = p]
  <2>1. Other!PollEntry(g, fd, E) = y
    BY <1>5, <1>7 DEF Other!PollEntry, KFields
  <2>2. g.set \in Seq(FdDirs) /\ g.pos \in [Other!Number -> Nat]
        /\ x.want[fd] = {}
    BY <1>1, <1>5, <1>7 DEF PollOf
  <2>3. /\ s \in Seq(FdDirs) /\ Len(s) = Len(g.set) + 1
        /\ s[Len(g.set) + 1].fd = fd /\ s[Len(g.set) + 1].ev = W[fd]
        /\ \A j \in 1 .. Len(g.set) : s[j] = g.set[j]
    <3>1. c \in FdDirs /\ c.fd = fd /\ c.ev = W[fd]
      BY <1>4, <2>2 DEF DirsOf, FdDirs
    <3> HIDE DEF c
    <3> QED  BY <1>5, <2>2, <3>1
  <2>4. /\ p \in [Other!Number -> Nat] /\ p[fd] = Len(g.set) + 1
        /\ \A o \in Other!Number \ {fd} : p[o] = g.pos[o]
    BY <1>5, <2>2
  <2> HIDE DEF s, p
  <2>5. /\ y.set = s /\ y.pos = p /\ y.size = g.size /\ y.resize = g.resize /\ y.out = g.out
        /\ Framed(y, x) /\ ~y.failed
    BY <1>1, <1>5 DEF Framed, KFields
  <2> HIDE DEF y
  <2>6. \A j \in 1 .. Len(g.set) : g.set[j].fd # fd /\ g.set[j].fd \in Other!Number
    BY <1>1, <1>5, <1>7, <1>8 DEF PollOf
  <2>7. ASSUME NEW o \in Other!Number
        PROVE  /\ p[o] > 0 <=> W[o] # {}
               /\ p[o] > 0 => p[o] <= Len(s) /\ s[p[o]].fd = o /\ s[p[o]].ev = W[o]
    <3>1. CASE o = fd
      <4>1. /\ p[fd] > 0 /\ W[fd] # {} /\ p[fd] <= Len(s)
            /\ s[p[fd]].fd = fd /\ s[p[fd]].ev = W[fd]
        BY <1>4, <1>5, <2>3, <2>4
      <4> QED  BY <3>1, <4>1
    <3>2. CASE o # fd
      <4>1. W[o] = x.want[o] /\ (g.pos[o] > 0 <=> x.want[o] # {})
        BY <1>1, <1>4, <3>2 DEF PollOf
      <4>2. g.pos[o] > 0 => g.pos[o] \in 1 .. Len(g.set) /\ g.set[g.pos[o]].fd = o
        BY <1>1, PollEntries
      <4>3. g.pos[o] > 0 => g.set[g.pos[o]].ev = x.want[o]
        BY <1>1 DEF PollOf
      <4> QED  BY <1>5, <2>3, <2>4, <3>2, <4>1, <4>2, <4>3
    <3> QED  BY <3>1, <3>2
  <2>8. ASSUME NEW j \in 1 .. Len(s)
        PROVE  p[s[j].fd] = j
    <3>1. CASE j = Len(g.set) + 1
      BY <2>3, <2>4, <3>1
    <3>2. CASE j # Len(g.set) + 1
      <4>1. j \in 1 .. Len(g.set) /\ s[j] = g.set[j]
        BY <1>5, <2>3, <3>2
      <4>2. g.pos[g.set[j].fd] = j
        BY <1>1, <4>1 DEF PollOf
      <4> QED  BY <2>4, <2>6, <4>1, <4>2
    <3> QED  BY <3>1, <3>2
  <2>9. Len(g.set) + 1 <= g.size /\ (~g.resize => g.out = g.size)
    BY <1>1 DEF PollOf
  <2>10. PollOf(y, W)
    BY <2>3, <2>4, <2>5, <2>7, <2>8, <2>9 DEF PollOf
  <2> QED  BY <1>3, <2>1, <2>5, <2>10 DEF W
<1> QED  BY <1>6, <1>7

\* poll_del: the last entry takes the place of one that goes.
LEMMA PollDeletes ==
  ASSUME NEW x, Serves(x), x.be = "poll", NEW fd \in Other!Number,
         NEW E \in SUBSET Other!Dirs, E # {}, E \subseteq x.want[fd]
  PROVE  LET y == Other!poll_del(x, fd, E)
         IN  Framed(y, x) /\ ~y.failed /\ PollOf(y, Less(x.want, fd, E))
<1> DEFINE W == Less(x.want, fd, E)
           i == x.pos[fd]
           n == Len(x.set)
           c == [x.set[i] EXCEPT !.ev = @ \ E]
           s == [x.set EXCEPT ![i] = c]
           y == [x EXCEPT !.set = s]
<1>1. /\ PollOf(x, x.want) /\ ~x.failed /\ x.failed \in BOOLEAN /\ DOMAIN x = KFields
      /\ x.want \in DirsOf /\ Framed(x, x)
  BY DEF Serves, Watching, Shape, Framed
<1>2. W \in DirsOf /\ W[fd] = x.want[fd] \ E
      /\ \A o \in Other!Number \ {fd} : W[o] = x.want[o]
  BY <1>1 DEF DirsOf, Less
<1>3. /\ i > 0 /\ i \in 1 .. n /\ n \in Nat /\ x.set[i].fd = fd /\ x.set[i].ev = x.want[fd]
      /\ x.set \in Seq(FdDirs) /\ \A j \in 1 .. n : x.set[j] \in FdDirs /\ x.set[j].fd \in Other!Number
  <2>1. i > 0 /\ x.set[i].ev = x.want[fd]
    BY <1>1 DEF PollOf
  <2> QED  BY <1>1, <2>1, PollEntries
<1>4. c \in FdDirs /\ c.fd = fd /\ c.ev = W[fd]
  BY <1>2, <1>3 DEF FdDirs, DirsOf
<1> HIDE DEF W
<1>5. /\ s \in Seq(FdDirs) /\ Len(s) = n /\ s[i] = c
      /\ \A j \in 1 .. n : j # i => s[j] = x.set[j]
  <2> HIDE DEF c
  <2> QED  BY <1>3, <1>4
<1>6. /\ y.set = s /\ y.pos = x.pos /\ y.size = x.size /\ y.resize = x.resize /\ y.out = x.out
      /\ Framed(y, x) /\ ~y.failed
  BY <1>1 DEF Framed, KFields
<1>7. Other!poll_del(x, fd, E) = IF c.ev # {} THEN y ELSE Other!PollRemoved(y, fd)
  <2>1. y = [x EXCEPT !.set[x.pos[fd]].ev = @ \ E]
    BY <1>1 DEF KFields
  <2>2. y.set[x.pos[fd]].ev = c.ev
    BY <1>5, <1>6
  <2>3. x.pos[fd] # 0
    BY <1>3
  <2> HIDE DEF y, c
  <2> QED  BY <2>1, <2>2, <2>3 DEF Other!poll_del
<1>8. /\ \A o \in Other!Number : x.pos[o] > 0 => x.pos[o] \in 1 .. n /\ x.set[x.pos[o]].fd = o
      /\ \A o \in Other!Number : x.pos[o] > 0 => x.set[x.pos[o]].ev = x.want[o]
      /\ \A o \in Other!Number : x.pos[o] > 0 <=> x.want[o] # {}
      /\ x.pos \in [Other!Number -> Nat]
      /\ \A j \in 1 .. n : x.pos[x.set[j].fd] = j
      /\ n <= x.size /\ (~x.resize => x.out = x.size)
  <2>1. \A o \in Other!Number : x.pos[o] > 0 => x.pos[o] \in 1 .. n /\ x.set[x.pos[o]].fd = o
    BY <1>1, PollEntries
  <2> QED  BY <1>1, <2>1 DEF PollOf
<1> HIDE DEF c, s, y, i, n
<1>9. CASE c.ev # {}
  <2>1. ASSUME NEW o \in Other!Number
        PROVE  /\ x.pos[o] > 0 <=> W[o] # {}
               /\ x.pos[o] > 0 => x.pos[o] <= Len(s) /\ s[x.pos[o]].fd = o /\ s[x.pos[o]].ev = W[o]
    <3>1. CASE o = fd
      <4>1. x.pos[fd] > 0 /\ W[fd] # {} /\ x.pos[fd] <= Len(s)
            /\ s[x.pos[fd]].fd = fd /\ s[x.pos[fd]].ev = W[fd]
        BY <1>3, <1>4, <1>5, <1>9 DEF i
      <4> QED  BY <3>1, <4>1
    <3>2. CASE o # fd
      <4>1. W[o] = x.want[o]
        BY <1>2, <3>2
      <4>2. x.pos[o] > 0 => x.pos[o] # i /\ x.pos[o] \in 1 .. n
        BY <1>3, <1>8, <3>2
      <4> QED  BY <1>3, <1>5, <1>8, <4>1, <4>2
    <3> QED  BY <3>1, <3>2
  <2>2. ASSUME NEW j \in 1 .. Len(s)
        PROVE  x.pos[s[j].fd] = j
    <3>1. s[j].fd = x.set[j].fd /\ j \in 1 .. n
      BY <1>3, <1>4, <1>5
    <3> QED  BY <1>8, <3>1
  <2>3. PollOf(y, W)
    BY <1>5, <1>6, <1>8, <2>1, <2>2 DEF PollOf
  <2> QED  BY <1>6, <1>7, <1>9, <2>3 DEF W
<1>10. CASE c.ev = {}
  <2> DEFINE last == s[n].fd
             t == SubSeq([s EXCEPT ![i] = s[n]], 1, n - 1)
             p0 == [x.pos EXCEPT ![fd] = 0]
             p == IF i = n THEN p0 ELSE [p0 EXCEPT ![last] = i]
             z == [y EXCEPT !.set = t, !.pos = p]
  <2>1. Other!PollRemoved(y, fd) = z
    <3>1. /\ y.pos[fd] = i /\ Len(y.set) = n /\ y.set = s /\ y.pos = x.pos
      BY <1>5, <1>6 DEF i
    <3>2. DOMAIN y = KFields
      BY <1>6 DEF Framed
    <3> DEFINE y0 == [y EXCEPT !.set = t, !.pos = p0]
               y1 == [y EXCEPT !.set = SubSeq([@ EXCEPT ![i] = y.set[n]], 1, n - 1), !.pos[fd] = 0]
    <3>3. y0 = y1
      BY <3>1, <3>2 DEF KFields
    <3>4. Other!PollRemoved(y, fd) = IF i = n THEN y1 ELSE [y1 EXCEPT !.pos[y.set[n].fd] = i]
      BY <3>1 DEF Other!PollRemoved
    <3>5. Other!PollRemoved(y, fd) = IF i = n THEN y0 ELSE [y0 EXCEPT !.pos[last] = i]
      BY <3>1, <3>3, <3>4
    <3> HIDE DEF t, p0, last
    <3>6. [y0 EXCEPT !.pos[last] = i] = [y EXCEPT !.set = t, !.pos = [p0 EXCEPT ![last] = i]]
      BY <3>2 DEF KFields
    <3> HIDE DEF y0
    <3> QED  BY <3>5, <3>6 DEF y0
  <2>2. /\ t \in Seq(FdDirs) /\ Len(t) = n - 1
        /\ \A j \in 1 .. n - 1 : t[j] = IF j = i THEN s[n] ELSE s[j]
    <3> DEFINE u == [s EXCEPT ![i] = s[n]]
    <3>1. s[n] \in FdDirs
      BY <1>3, <1>5
    <3>2. u \in Seq(FdDirs) /\ Len(u) = n /\ \A j \in 1 .. n : u[j] = IF j = i THEN s[n] ELSE s[j]
      BY <1>3, <1>5, <3>1
    <3> HIDE DEF u
    <3>3. SubSeq(u, 1, n - 1) \in Seq(FdDirs) /\ Len(SubSeq(u, 1, n - 1)) = n - 1
          /\ \A j \in 1 .. n - 1 : SubSeq(u, 1, n - 1)[j] = u[j]
      BY <1>3, <3>2
    <3> QED  BY <1>3, <3>2, <3>3 DEF u
  <2>3. last \in Other!Number /\ last = x.set[n].fd /\ x.pos[last] = n /\ (i # n => last # fd)
    <3>1. last = x.set[n].fd /\ n \in 1 .. n
      BY <1>3, <1>4, <1>5
    <3>2. last \in Other!Number /\ x.pos[last] = n
      BY <1>3, <1>8, <3>1
    <3> QED  BY <3>1, <3>2 DEF i
  <2> HIDE DEF t, last
  <2>4. /\ p \in [Other!Number -> Nat] /\ p[fd] = 0
        /\ i # n => p[last] = i
        /\ \A o \in Other!Number : o # fd /\ o # last => p[o] = x.pos[o]
    BY <1>3, <1>8, <2>3
  <2> HIDE DEF p
  <2>5. /\ z.set = t /\ z.pos = p /\ z.size = x.size /\ z.resize = x.resize /\ z.out = x.out
        /\ Framed(z, x) /\ ~z.failed
    BY <1>6 DEF Framed, KFields
  <2> HIDE DEF z
  <2>6. W[fd] = {}
    BY <1>4, <1>10
  <2>7. ASSUME NEW o \in Other!Number
        PROVE  /\ p[o] > 0 <=> W[o] # {}
               /\ p[o] > 0 => p[o] <= Len(t) /\ t[p[o]].fd = o /\ t[p[o]].ev = W[o]
    <3>1. CASE o = fd
      BY <2>4, <2>6, <3>1
    <3>2. CASE o # fd /\ o = last
      <4>1. i # n
        BY <1>5, <1>4, <3>2 DEF last
      <4>2. p[last] = i /\ i \in 1 .. n - 1 /\ t[i] = x.set[n] /\ W[last] = x.want[last]
        BY <1>2, <1>3, <1>5, <2>2, <2>3, <2>4, <3>2, <4>1, SMTT(30)
      <4>3. x.want[last] # {} /\ x.set[n].fd = last /\ x.set[n].ev = x.want[last]
        BY <1>3, <1>8, <2>3
      <4>4. p[last] > 0 /\ p[last] <= Len(t)
        BY <2>2, <4>2
      <4> QED  BY <3>2, <4>2, <4>3, <4>4
    <3>3. CASE o # fd /\ o # last
      <4>1. p[o] = x.pos[o] /\ W[o] = x.want[o]
        BY <1>2, <2>4, <3>3
      <4>2. x.pos[o] > 0 => x.pos[o] # i /\ x.pos[o] # n /\ x.pos[o] \in 1 .. n - 1
        BY <1>3, <1>8, <2>3, <3>3
      <4>3. x.pos[o] > 0 => t[x.pos[o]] = x.set[x.pos[o]]
        BY <1>3, <1>5, <2>2, <4>2
      <4> QED  BY <1>3, <1>8, <2>2, <4>1, <4>2, <4>3
    <3> QED  BY <3>1, <3>2, <3>3
  <2>8. ASSUME NEW j \in 1 .. Len(t)
        PROVE  p[t[j].fd] = j
    <3>1. j \in 1 .. n - 1 /\ j \in 1 .. n /\ j # n
      BY <1>3, <2>2
    <3>2. CASE j = i
      <4>1. t[j] = s[n] /\ i # n
        BY <2>2, <3>1, <3>2
      <4> QED  BY <2>4, <3>2, <4>1 DEF last
    <3>3. CASE j # i
      <4>1. t[j] = x.set[j] /\ x.pos[x.set[j].fd] = j /\ x.set[j].fd \in Other!Number
        BY <1>3, <1>5, <1>8, <2>2, <3>1, <3>3
      <4>2. x.set[j].fd # fd /\ x.set[j].fd # last
        BY <2>3, <3>1, <3>3, <4>1 DEF i
      <4> QED  BY <2>4, <4>1, <4>2
    <3> QED  BY <3>2, <3>3
  <2>9. Len(t) <= x.size
    <3>1. x.size \in Nat
      BY DEF Serves, Shape
    <3> QED  BY <1>3, <1>8, <2>2, <3>1
  <2>10. PollOf(z, W)
    BY <1>8, <2>2, <2>4, <2>5, <2>7, <2>8, <2>9 DEF PollOf
  <2> QED  BY <1>7, <1>10, <2>1, <2>5, <2>10 DEF W
<1> QED  BY <1>9, <1>10

-------------------------------------------------------------------------------
\* win32: the array of a direction, and where its descriptors are in it.
LEMMA PlacesFacts ==
  ASSUME NEW x, NEW d, NEW W \in SUBSET Other!Number, PlacesOf(x, d, W)
  PROVE  /\ Len(x.rw[d]) \in Nat /\ x.rw[d] \in Seq(Other!Number)
         /\ \A i \in 1 .. Len(x.rw[d]) : x.rw[d][i] \in W
         /\ \A fd \in W : x.rwpos[d][fd] \in 1 .. Len(x.rw[d])
<1>1. /\ x.rw[d] \in Seq(Other!Number) /\ x.rwpos[d] \in [Other!Number -> Nat]
      /\ \A fd \in Other!Number : x.rwpos[d][fd] > 0 <=> fd \in W
      /\ \A fd \in W : x.rwpos[d][fd] <= Len(x.rw[d])
      /\ \A i \in 1 .. Len(x.rw[d]) : x.rwpos[d][x.rw[d][i]] = i
  BY DEF PlacesOf
<1>2. Len(x.rw[d]) \in Nat /\ \A i \in 1 .. Len(x.rw[d]) : x.rw[d][i] \in Other!Number
  BY <1>1
<1>3. ASSUME NEW i \in 1 .. Len(x.rw[d]) PROVE x.rw[d][i] \in W
  <2>1. x.rw[d][i] \in Other!Number /\ x.rwpos[d][x.rw[d][i]] > 0
    BY <1>1, <1>2
  <2> QED  BY <1>1, <2>1
<1>4. ASSUME NEW fd \in W PROVE x.rwpos[d][fd] \in 1 .. Len(x.rw[d])
  <2>1. fd \in Other!Number
    OBVIOUS
  <2>2. x.rwpos[d][fd] \in Nat /\ x.rwpos[d][fd] > 0 /\ x.rwpos[d][fd] <= Len(x.rw[d])
    BY <1>1, <2>1
  <2> QED  BY <1>2, <2>2
<1> QED  BY <1>1, <1>2, <1>3, <1>4

\* It has one entry for each.
LEMMA PlacesCount ==
  ASSUME NEW x, NEW d, NEW W \in SUBSET Other!Number, PlacesOf(x, d, W)
  PROVE  Len(x.rw[d]) = Cardinality(W)
<1> DEFINE s == x.rw[d]
<1>1. /\ s \in Seq(Other!Number) /\ Len(s) \in Nat /\ DOMAIN s = 1 .. Len(s)
      /\ \A i \in 1 .. Len(s) : s[i] \in W
  BY PlacesFacts
<1>2. IsInjective(s)
  <2> SUFFICES ASSUME NEW a \in 1 .. Len(s), NEW b \in 1 .. Len(s), s[a] = s[b]
               PROVE  a = b
    BY <1>1 DEF IsInjective
  <2> QED  BY DEF PlacesOf
<1>3. ToSet(s) = W
  <2>1. ToSet(s) = {s[i] : i \in 1 .. Len(s)}
    BY <1>1, ElementsInRange
  <2>2. \A fd \in W : x.rwpos[d][fd] \in 1 .. Len(s) /\ s[x.rwpos[d][fd]] = fd
    BY PlacesFacts DEF PlacesOf
  <2> QED  BY <1>1, <2>1, <2>2
<1> QED  BY <1>1, <1>2, <1>3, InjectiveLength

\* Another record with the same array.
LEMMA PlacesSame ==
  ASSUME NEW x, NEW y, NEW d, NEW W, PlacesOf(x, d, W),
         y.rw[d] = x.rw[d], y.rwpos[d] = x.rwpos[d], x.size \in Nat, y.size \in Nat, x.size <= y.size
  PROVE  PlacesOf(y, d, W)
<1>1. Len(x.rw[d]) \in Nat
  BY DEF PlacesOf
<1> QED  BY <1>1 DEF PlacesOf

LEMMA Win32Grows ==
  ASSUME NEW x, NEW x0, Framed(x, x0), NEW D, Win32At(x, D), NEW d \in Other!Dirs
  PROVE  LET y == Other!grow_fd_sets(x, d)
         IN  /\ Framed(y, x0) /\ y.failed = x.failed /\ Win32At(y, D)
             /\ y.rw = x.rw /\ y.rwpos = x.rwpos /\ Len(x.rw[d]) + 1 <= y.size
<1> DEFINE y == Other!grow_fd_sets(x, d)
           n == Len(x.rw[d])
<1>1. n \in Nat /\ x.size \in Nat \ {0} /\ n <= x.size /\ DOMAIN x = KFields
  BY DEF Framed, Win32At, PlacesOf
<1>2. CASE n = x.size
  <2>1. y = [x EXCEPT !.size = 2 * x.size, !.resize = TRUE]
    BY <1>1, <1>2 DEF Other!grow_fd_sets, KFields
  <2> HIDE DEF y
  <2>2. /\ y.size = 2 * x.size /\ y.resize = TRUE /\ y.rw = x.rw /\ y.rwpos = x.rwpos
        /\ Framed(y, x0) /\ y.failed = x.failed
    BY <1>1, <2>1 DEF KFields, Framed
  <2>3. \A e \in Other!Dirs : PlacesOf(y, e, D[e])
    <3>1. y.size \in Nat /\ x.size <= y.size
      BY <1>1, <2>2
    <3> QED  BY <1>1, <2>2, <3>1, PlacesSame DEF Win32At
  <2>4. Win32At(y, D)
    BY <1>1, <2>2, <2>3 DEF Win32At
  <2> QED  BY <1>1, <1>2, <2>2, <2>4 DEF y
<1>3. CASE n # x.size
  <2>1. y = x
    BY <1>3 DEF Other!grow_fd_sets
  <2> QED  BY <1>1, <1>3, <2>1
<1> QED  BY <1>2, <1>3

\* do_fd_set.
LEMMA Win32Sets ==
  ASSUME NEW x, NEW x0, Framed(x, x0), NEW D \in [Other!Dirs -> SUBSET Other!Number],
         Win32At(x, D), NEW d \in Other!Dirs, NEW fd \in Other!Number
  PROVE  LET y == Other!do_fd_set(x, fd, d)
         IN  /\ Framed(y, x0) /\ y.failed = x.failed
             /\ Win32At(y, [D EXCEPT ![d] = @ \cup {fd}])
<1> DEFINE g == Other!grow_fd_sets(x, d)
           n == Len(x.rw[d])
           D2 == [D EXCEPT ![d] = @ \cup {fd}]
<1>1. PlacesOf(x, d, D[d]) /\ D[d] \in SUBSET Other!Number
  BY DEF Win32At
<1>2. CASE x.rwpos[d][fd] > 0
  <2>1. fd \in D[d]
    BY <1>1, <1>2 DEF PlacesOf
  <2>2. D2 = D
    BY <2>1
  <2>3. Other!do_fd_set(x, fd, d) = x
    BY <1>2 DEF Other!do_fd_set
  <2> QED  BY <2>2, <2>3
<1>3. CASE ~(x.rwpos[d][fd] > 0)
  <2> DEFINE s == Append(x.rw[d], fd)
             p == [x.rwpos[d] EXCEPT ![fd] = n + 1]
             y == [g EXCEPT !.rw = [x.rw EXCEPT ![d] = s], !.rwpos = [x.rwpos EXCEPT ![d] = p]]
  <2>1. /\ Framed(g, x0) /\ g.failed = x.failed /\ Win32At(g, D)
        /\ g.rw = x.rw /\ g.rwpos = x.rwpos /\ n + 1 <= g.size /\ g.size \in Nat
    <3>1. /\ Framed(g, x0) /\ g.failed = x.failed /\ Win32At(g, D)
          /\ g.rw = x.rw /\ g.rwpos = x.rwpos /\ n + 1 <= g.size
      BY Win32Grows
    <3> HIDE DEF g
    <3> QED  BY <3>1 DEF Framed
  <2>2. n \in Nat /\ x.rw[d] \in Seq(Other!Number) /\ x.rwpos[d] \in [Other!Number -> Nat]
        /\ \A i \in 1 .. n : x.rw[d][i] \in D[d]
    BY <1>1, PlacesFacts DEF PlacesOf
  <2>3. fd \notin D[d]
    BY <1>1, <1>3 DEF PlacesOf
  <2>4. Other!do_fd_set(x, fd, d) = y
    <3> HIDE DEF g
    <3>1. DOMAIN g = KFields
      BY <2>1 DEF Framed
    <3>2. y = [g EXCEPT !.rw[d] = Append(@, fd), !.rwpos[d][fd] = n + 1]
      BY <2>1, <3>1 DEF KFields
    <3>3. Other!do_fd_set(x, fd, d) = [g EXCEPT !.rw[d] = Append(@, fd), !.rwpos[d][fd] = n + 1]
      BY <1>3 DEF Other!do_fd_set, g
    <3> QED  BY <3>2, <3>3
  <2>5. s \in Seq(Other!Number) /\ Len(s) = n + 1 /\ s[n + 1] = fd /\ \A i \in 1 .. n : s[i] = x.rw[d][i]
    BY <2>2
  <2>6. p \in [Other!Number -> Nat] /\ p[fd] = n + 1
        /\ \A o \in Other!Number \ {fd} : p[o] = x.rwpos[d][o]
    BY <2>2
  <2> HIDE DEF s, p, g, n
  <2>7. /\ Framed(y, x0) /\ y.failed = x.failed /\ y.size = g.size /\ y.resize = g.resize /\ y.out = g.out
        /\ y.rw = [x.rw EXCEPT ![d] = s] /\ y.rwpos = [x.rwpos EXCEPT ![d] = p]
    BY <2>1 DEF Framed, KFields
  <2> HIDE DEF y
  <2>8. /\ x.rw \in [Other!Dirs -> Seq(Other!Number)]
        /\ x.rwpos \in [Other!Dirs -> [Other!Number -> Nat]]
        /\ g.size # 0 /\ (~g.resize => g.out = g.size)
    BY <2>1 DEF Win32At
  <2>9. /\ y.rw[d] = s /\ y.rwpos[d] = p /\ y.rw \in [Other!Dirs -> Seq(Other!Number)]
        /\ y.rwpos \in [Other!Dirs -> [Other!Number -> Nat]]
        /\ \A e \in Other!Dirs \ {d} : y.rw[e] = g.rw[e] /\ y.rwpos[e] = g.rwpos[e]
    BY <2>1, <2>5, <2>6, <2>7, <2>8
  <2>10. \A e \in Other!Dirs \ {d} : PlacesOf(y, e, D2[e])
    <3> SUFFICES ASSUME NEW e \in Other!Dirs \ {d} PROVE PlacesOf(y, e, D2[e])
      OBVIOUS
    <3>1. D2[e] = D[e] /\ PlacesOf(g, e, D[e])
      BY <2>1 DEF Win32At
    <3>2. y.rw[e] = g.rw[e] /\ y.rwpos[e] = g.rwpos[e]
      BY <2>9
    <3>3. g.size \in Nat /\ y.size \in Nat /\ g.size <= y.size
      BY <2>1, <2>7
    <3>4. PlacesOf(y, e, D[e])
      BY <3>1, <3>2, <3>3, PlacesSame
    <3> QED  BY <3>1, <3>4
  <2>11. PlacesOf(y, d, D2[d])
    <3>1. D2[d] = D[d] \cup {fd}
      OBVIOUS
    <3>2. ASSUME NEW o \in Other!Number
          PROVE  /\ p[o] > 0 <=> o \in D2[d]
                 /\ o \in D2[d] => p[o] <= Len(s) /\ s[p[o]] = o
      <4>1. CASE o = fd
        BY <2>2, <2>5, <2>6, <3>1, <4>1
      <4>2. CASE o # fd
        <5>1. p[o] = x.rwpos[d][o] /\ (o \in D2[d] <=> o \in D[d])
          BY <2>6, <3>1, <4>2
        <5>2. /\ x.rwpos[d][o] > 0 <=> o \in D[d]
              /\ o \in D[d] => x.rw[d][x.rwpos[d][o]] = o /\ x.rwpos[d][o] \in 1 .. n
          BY <1>1, PlacesFacts DEF PlacesOf, n
        <5> QED  BY <2>2, <2>5, <5>1, <5>2
      <4> QED  BY <4>1, <4>2
    <3>3. ASSUME NEW i \in 1 .. Len(s)
          PROVE  p[s[i]] = i
      <4>1. CASE i = n + 1
        BY <2>5, <2>6, <4>1
      <4>2. CASE i # n + 1
        <5>1. i \in 1 .. n /\ s[i] = x.rw[d][i] /\ x.rw[d][i] \in D[d]
          BY <2>2, <2>5, <4>2
        <5>2. x.rwpos[d][x.rw[d][i]] = i /\ x.rw[d][i] \in Other!Number /\ x.rw[d][i] # fd
          BY <1>1, <2>3, <5>1 DEF PlacesOf, n
        <5> QED  BY <2>6, <5>1, <5>2
      <4> QED  BY <4>1, <4>2
    <3>4. D2[d] \subseteq Other!Number
      BY <1>1, <3>1
    <3> HIDE DEF D2
    <3> QED  BY <2>1, <2>5, <2>6, <2>7, <2>9, <3>2, <3>3, <3>4 DEF PlacesOf
  <2>12. Win32At(y, D2)
    BY <2>7, <2>8, <2>9, <2>10, <2>11 DEF Win32At
  <2> QED  BY <2>4, <2>7, <2>12
<1> QED  BY <1>2, <1>3

\* do_fd_clear.
LEMMA Win32Clears ==
  ASSUME NEW x, NEW x0, Framed(x, x0), NEW D \in [Other!Dirs -> SUBSET Other!Number],
         Win32At(x, D), NEW d \in Other!Dirs, NEW fd \in Other!Number
  PROVE  LET y == Other!do_fd_clear(x, fd, d)
         IN  /\ Framed(y, x0) /\ y.failed = x.failed
             /\ Win32At(y, [D EXCEPT ![d] = @ \ {fd}])
<1> DEFINE r == x.rw[d]
           q == x.rwpos[d]
           n == Len(r)
           i == q[fd]
           last == r[n]
           D2 == [D EXCEPT ![d] = @ \ {fd}]
           p0 == [q EXCEPT ![fd] = 0]
           p == IF i = 0 \/ i = n THEN p0 ELSE [p0 EXCEPT ![last] = i]
           s == IF i = 0 THEN r ELSE IF i = n THEN SubSeq(r, 1, n - 1)
                ELSE SubSeq([r EXCEPT ![i] = last], 1, n - 1)
           y == [x EXCEPT !.rw = [x.rw EXCEPT ![d] = s], !.rwpos = [x.rwpos EXCEPT ![d] = p]]
<1>1. PlacesOf(x, d, D[d]) /\ D[d] \in SUBSET Other!Number /\ DOMAIN x = KFields
      /\ x.rw \in [Other!Dirs -> Seq(Other!Number)] /\ x.rwpos \in [Other!Dirs -> [Other!Number -> Nat]]
      /\ x.size # 0 /\ x.size \in Nat /\ (~x.resize => x.out = x.size)
  BY DEF Win32At, Framed
<1>2. /\ n \in Nat /\ r \in Seq(Other!Number) /\ \A j \in 1 .. n : r[j] \in D[d]
      /\ \A o \in D[d] : q[o] \in 1 .. n
  BY <1>1, PlacesFacts
<1>3. /\ q \in [Other!Number -> Nat] /\ n <= x.size
      /\ \A o \in Other!Number : q[o] > 0 <=> o \in D[d]
      /\ \A o \in D[d] : r[q[o]] = o
      /\ \A j \in 1 .. n : q[r[j]] = j
  BY <1>1 DEF PlacesOf
<1>4. i \in Nat /\ (i > 0 <=> fd \in D[d]) /\ (i > 0 => i \in 1 .. n /\ n \in 1 .. n /\ r[i] = fd)
  <2>1. i \in Nat /\ (i > 0 <=> fd \in D[d])
    BY <1>3
  <2>2. i > 0 => i \in 1 .. n /\ r[i] = fd
    BY <1>2, <1>3, <2>1
  <2> QED  BY <1>2, <2>1, <2>2
<1>5. Other!do_fd_clear(x, fd, d) = y
  <2> DEFINE y0 == [x EXCEPT !.rwpos[d][fd] = 0]
  <2>1. y0 = [x EXCEPT !.rwpos = [x.rwpos EXCEPT ![d] = p0]]
    BY <1>1 DEF KFields
  <2>2. Other!do_fd_clear(x, fd, d) =
          IF i = 0 THEN y0
          ELSE IF i = n THEN [y0 EXCEPT !.rw[d] = SubSeq(@, 1, n - 1)]
          ELSE [y0 EXCEPT !.rw[d] = SubSeq([@ EXCEPT ![i] = last], 1, n - 1), !.rwpos[d][last] = i]
    BY DEF Other!do_fd_clear
  <2> HIDE DEF y0
  <2>3. CASE i = 0
    <3>1. y = y0
      <4>1. s = r /\ p = p0
        BY <2>3
      <4>2. x.rw = [x.rw EXCEPT ![d] = r]
        BY <1>1
      <4> HIDE DEF s, p, p0
      <4>3. y = [x EXCEPT !.rw = x.rw, !.rwpos = [x.rwpos EXCEPT ![d] = p0]]
        BY <4>1, <4>2
      <4> HIDE DEF y
      <4> QED  BY <1>1, <2>1, <4>3 DEF KFields
    <3> QED  BY <2>2, <2>3, <3>1
  <2>4. CASE i # 0 /\ i = n
    <3>1. y = [y0 EXCEPT !.rw[d] = SubSeq(@, 1, n - 1)]
      BY <1>1, <2>1, <2>4 DEF KFields
    <3> QED  BY <2>2, <2>4, <3>1
  <2>5. CASE i # 0 /\ i # n
    <3> DEFINE t == SubSeq([r EXCEPT ![i] = last], 1, n - 1)
    <3>1. y = [y0 EXCEPT !.rw[d] = t, !.rwpos[d][last] = i]
      <4>1. s = t /\ p = [p0 EXCEPT ![last] = i]
        BY <2>5
      <4> HIDE DEF s, t, p, p0, last, i, r, q
      <4> QED  BY <1>1, <2>1, <4>1 DEF KFields
    <3>2. Other!do_fd_clear(x, fd, d) = [y0 EXCEPT !.rw[d] = t, !.rwpos[d][last] = i]
      <4>1. y0.rw[d] = r
        BY <1>1, <2>1 DEF KFields
      <4> QED  BY <2>2, <2>5, <4>1
    <3> HIDE DEF t, y
    <3> QED  BY <3>1, <3>2
  <2> QED  BY <2>3, <2>4, <2>5
<1>6. /\ s \in Seq(Other!Number) /\ Len(s) = (IF i = 0 THEN n ELSE n - 1)
      /\ \A j \in 1 .. Len(s) : s[j] = IF i # 0 /\ j = i THEN last ELSE r[j]
  <2>1. CASE i = 0
    BY <1>2, <2>1
  <2>2. CASE i # 0 /\ i = n
    <3>1. SubSeq(r, 1, n - 1) \in Seq(Other!Number) /\ Len(SubSeq(r, 1, n - 1)) = n - 1
          /\ \A j \in 1 .. n - 1 : SubSeq(r, 1, n - 1)[j] = r[j]
      BY <1>2, <1>4, <2>2
    <3> QED  BY <1>2, <2>2, <3>1
  <2>3. CASE i # 0 /\ i # n
    <3> DEFINE u == [r EXCEPT ![i] = last]
    <3>1. last \in Other!Number
      BY <1>1, <1>2, <1>4, <2>3
    <3>2. u \in Seq(Other!Number) /\ Len(u) = n /\ \A j \in 1 .. n : u[j] = IF j = i THEN last ELSE r[j]
      <4> HIDE DEF last
      <4> QED  BY <1>2, <1>4, <2>3, <3>1
    <3> HIDE DEF u
    <3>3. SubSeq(u, 1, n - 1) \in Seq(Other!Number) /\ Len(SubSeq(u, 1, n - 1)) = n - 1
          /\ \A j \in 1 .. n - 1 : SubSeq(u, 1, n - 1)[j] = u[j]
      BY <1>2, <1>4, <2>3, <3>2
    <3> QED  BY <1>2, <2>3, <3>2, <3>3 DEF u
  <2> QED  BY <2>1, <2>2, <2>3
<1>7. i > 0 => last \in D[d] /\ last \in Other!Number /\ q[last] = n /\ (i # n => last # fd)
  BY <1>1, <1>2, <1>3, <1>4
<1>8. /\ p \in [Other!Number -> Nat] /\ p[fd] = 0
      /\ \A o \in Other!Number \ {fd} :
           p[o] = IF i # 0 /\ i # n /\ o = last THEN i ELSE q[o]
  BY <1>3, <1>4, <1>7
<1>9. D2[d] = D[d] \ {fd} /\ D2[d] \subseteq Other!Number
      /\ \A e \in Other!Dirs \ {d} : D2[e] = D[e]
  BY <1>1
<1> HIDE DEF s, p, D2
<1>10. /\ Framed(y, x0) /\ y.failed = x.failed /\ y.size = x.size /\ y.resize = x.resize /\ y.out = x.out
       /\ y.rw = [x.rw EXCEPT ![d] = s] /\ y.rwpos = [x.rwpos EXCEPT ![d] = p]
  BY <1>1 DEF Framed, KFields
<1> HIDE DEF y
<1>11. /\ y.rw[d] = s /\ y.rwpos[d] = p /\ y.rw \in [Other!Dirs -> Seq(Other!Number)]
       /\ y.rwpos \in [Other!Dirs -> [Other!Number -> Nat]]
       /\ \A e \in Other!Dirs \ {d} : y.rw[e] = x.rw[e] /\ y.rwpos[e] = x.rwpos[e]
  BY <1>1, <1>6, <1>8, <1>10
<1>12. \A e \in Other!Dirs \ {d} : PlacesOf(y, e, D2[e])
  <2> SUFFICES ASSUME NEW e \in Other!Dirs \ {d} PROVE PlacesOf(y, e, D2[e])
    OBVIOUS
  <2>1. D2[e] = D[e] /\ PlacesOf(x, e, D[e]) /\ x.size <= y.size /\ y.size \in Nat
    BY <1>1, <1>9, <1>10 DEF Win32At
  <2> QED  BY <1>1, <1>11, <2>1, PlacesSame
<1> HIDE DEF i, n, q, r, last
<1>13. PlacesOf(y, d, D2[d])
  <2>1. ASSUME NEW o \in Other!Number
        PROVE  /\ p[o] > 0 <=> o \in D2[d]
               /\ o \in D2[d] => p[o] <= Len(s) /\ s[p[o]] = o
    <3>1. CASE o = fd
      BY <1>8, <1>9, <3>1
    <3>2. CASE o # fd /\ i # 0 /\ i # n /\ o = last
      <4>1. p[o] = i /\ o \in D2[d]
        BY <1>4, <1>7, <1>8, <1>9, <3>2
      <4>2. i \in 1 .. Len(s) /\ s[i] = last
        BY <1>2, <1>4, <1>6, <3>2
      <4> QED  BY <3>2, <4>1, <4>2
    <3>3. CASE o # fd /\ ~(i # 0 /\ i # n /\ o = last)
      <4>1. p[o] = q[o] /\ (o \in D2[d] <=> o \in D[d])
        BY <1>8, <1>9, <3>3
      <4>2. /\ q[o] > 0 <=> o \in D[d]
            /\ o \in D[d] => r[q[o]] = o /\ q[o] \in 1 .. n
        BY <1>2, <1>3
      <4>3. o \in D[d] => q[o] # i \/ i = 0
        BY <1>4, <3>3, <4>2
      <4>4. i # 0 /\ o \in D[d] => q[o] # n
        <5>1. i # 0 => r[n] = last /\ n \in 1 .. n /\ (i = n => r[n] = fd)
          BY <1>4 DEF last
        <5> QED  BY <3>3, <4>2, <5>1
      <4>5. o \in D[d] => q[o] \in 1 .. Len(s) /\ s[q[o]] = o
        BY <1>2, <1>4, <1>6, <4>2, <4>3, <4>4
      <4> QED  BY <1>2, <1>6, <4>1, <4>2, <4>5
    <3> QED  BY <3>1, <3>2, <3>3
  <2>2. ASSUME NEW j \in 1 .. Len(s)
        PROVE  p[s[j]] = j
    <3>1. j \in 1 .. n /\ (i # 0 => j # n)
      BY <1>2, <1>4, <1>6
    <3>2. CASE i # 0 /\ j = i
      <4>1. s[j] = last /\ i # n /\ last # fd /\ last \in Other!Number
        BY <1>4, <1>6, <1>7, <3>1, <3>2
      <4> QED  BY <1>8, <3>2, <4>1
    <3>3. CASE ~(i # 0 /\ j = i)
      <4>1. s[j] = r[j] /\ q[r[j]] = j /\ r[j] \in Other!Number
        BY <1>1, <1>2, <1>3, <1>6, <3>1, <3>3
      <4>2. r[j] # fd
        BY <1>4, <3>1, <3>3, <4>1 DEF i
      <4>3. i # 0 => r[j] # last
        BY <1>4, <1>7, <3>1, <4>1
      <4> QED  BY <1>8, <4>1, <4>2, <4>3
    <3> QED  BY <3>2, <3>3
  <2>3. Len(s) <= x.size
    BY <1>1, <1>2, <1>3, <1>6 DEF n, r
  <2> QED  BY <1>6, <1>8, <1>9, <1>10, <1>11, <2>1, <2>2, <2>3 DEF PlacesOf
<1>14. Win32At(y, D2)
  BY <1>1, <1>10, <1>11, <1>12, <1>13 DEF Win32At
<1> QED  BY <1>5, <1>10, <1>14 DEF D2

\* Both directions of an operation on win32.
WithDir(D, fd, E, d) == IF d \in E THEN [D EXCEPT ![d] = @ \cup {fd}] ELSE D
WithoutDir(D, fd, E, d) == IF d \in E THEN [D EXCEPT ![d] = @ \ {fd}] ELSE D

LEMMA ByDirFacts ==
  ASSUME NEW W \in DirsOf, NEW fd \in Other!Number, NEW E \in SUBSET Other!Dirs
  PROVE  /\ ByDir(W) \in [Other!Dirs -> SUBSET Other!Number]
         /\ WithDir(ByDir(W), fd, E, "r") \in [Other!Dirs -> SUBSET Other!Number]
         /\ WithDir(WithDir(ByDir(W), fd, E, "r"), fd, E, "w") = ByDir(More(W, fd, E))
         /\ WithoutDir(ByDir(W), fd, E, "r") \in [Other!Dirs -> SUBSET Other!Number]
         /\ WithoutDir(WithoutDir(ByDir(W), fd, E, "r"), fd, E, "w") = ByDir(Less(W, fd, E))
<1>1. /\ ByDir(W) \in [Other!Dirs -> SUBSET Other!Number]
      /\ \A d \in Other!Dirs : ByDir(W)[d] = {o \in Other!Number : d \in W[o]}
  BY DEF ByDir
<1>2. "r" \in Other!Dirs /\ "w" \in Other!Dirs /\ \A d \in Other!Dirs : d = "r" \/ d = "w"
  BY DEF Other!Dirs
<1> DEFINE V == More(W, fd, E)
           U == Less(W, fd, E)
<1>3. /\ V[fd] = W[fd] \cup E /\ U[fd] = W[fd] \ E
      /\ \A o \in Other!Number \ {fd} : V[o] = W[o] /\ U[o] = W[o]
  BY DEF DirsOf, More, Less
<1> HIDE DEF V, U
<1>4. \A d \in Other!Dirs :
        /\ ByDir(V)[d] = ByDir(W)[d] \cup (IF d \in E THEN {fd} ELSE {})
        /\ ByDir(U)[d] = ByDir(W)[d] \ (IF d \in E THEN {fd} ELSE {})
  BY <1>3 DEF ByDir
<1>5. ByDir(V) \in [Other!Dirs -> SUBSET Other!Number] /\ ByDir(U) \in [Other!Dirs -> SUBSET Other!Number]
  BY DEF ByDir
<1> DEFINE D == ByDir(W)
           A == IF "r" \in E THEN [D EXCEPT !["r"] = @ \cup {fd}] ELSE D
           B == IF "w" \in E THEN [A EXCEPT !["w"] = @ \cup {fd}] ELSE A
           G == IF "r" \in E THEN [D EXCEPT !["r"] = @ \ {fd}] ELSE D
           H == IF "w" \in E THEN [G EXCEPT !["w"] = @ \ {fd}] ELSE G
<1> HIDE DEF D
<1>6. /\ A \in [Other!Dirs -> SUBSET Other!Number] /\ B \in [Other!Dirs -> SUBSET Other!Number]
      /\ G \in [Other!Dirs -> SUBSET Other!Number] /\ H \in [Other!Dirs -> SUBSET Other!Number]
  BY <1>1, <1>2 DEF D
<1>7. /\ B["r"] = D["r"] \cup (IF "r" \in E THEN {fd} ELSE {})
      /\ B["w"] = D["w"] \cup (IF "w" \in E THEN {fd} ELSE {})
      /\ H["r"] = D["r"] \ (IF "r" \in E THEN {fd} ELSE {})
      /\ H["w"] = D["w"] \ (IF "w" \in E THEN {fd} ELSE {})
  BY <1>1, <1>2 DEF D
<1> HIDE DEF B, H
<1>8. B = ByDir(V) /\ H = ByDir(U)
  BY SMTT(30), <1>2, <1>4, <1>5, <1>6, <1>7 DEF D
<1> QED  BY <1>1, <1>6, <1>8 DEF B, H, D, V, U, WithDir, WithoutDir

LEMMA Win32Adds ==
  ASSUME NEW x, Serves(x), x.be = "win32", NEW fd \in Other!Number, NEW E \in SUBSET Other!Dirs
  PROVE  LET y == Other!Each(Other!do_fd_set, x, fd, E)
         IN  Framed(y, x) /\ ~y.failed /\ Win32Of(y, More(x.want, fd, E))
<1> DEFINE D == ByDir(x.want)
           A == WithDir(D, fd, E, "r")
           B == WithDir(A, fd, E, "w")
           z == IF "r" \in E THEN Other!do_fd_set(x, fd, "r") ELSE x
           y == IF "w" \in E THEN Other!do_fd_set(z, fd, "w") ELSE z
<1>1. Framed(x, x) /\ ~x.failed /\ Win32At(x, D) /\ x.want \in DirsOf
  BY DEF Serves, Watching, Shape, Framed, Win32Of
<1>2. /\ D \in [Other!Dirs -> SUBSET Other!Number] /\ A \in [Other!Dirs -> SUBSET Other!Number]
      /\ B = ByDir(More(x.want, fd, E))
  <2> DEFINE W == x.want
  <2>1. W \in DirsOf
    BY <1>1
  <2> HIDE DEF W
  <2>2. /\ ByDir(W) \in [Other!Dirs -> SUBSET Other!Number]
        /\ WithDir(ByDir(W), fd, E, "r") \in [Other!Dirs -> SUBSET Other!Number]
        /\ WithDir(WithDir(ByDir(W), fd, E, "r"), fd, E, "w") = ByDir(More(W, fd, E))
    BY <2>1, ByDirFacts
  <2> QED  BY <2>2 DEF W
<1>3. "r" \in Other!Dirs /\ "w" \in Other!Dirs
  BY DEF Other!Dirs
<1> HIDE DEF D
<1>4. Framed(z, x) /\ ~z.failed /\ Win32At(z, A)
  <2>1. CASE "r" \in E
    <3>1. A = [D EXCEPT !["r"] = @ \cup {fd}] /\ z = Other!do_fd_set(x, fd, "r")
      BY <2>1 DEF WithDir
    <3> QED  BY <1>1, <1>2, <1>3, <3>1, Win32Sets
  <2>2. CASE "r" \notin E
    BY <1>1, <2>2 DEF WithDir
  <2> QED  BY <2>1, <2>2
<1> HIDE DEF A, z
<1>5. Framed(y, x) /\ ~y.failed /\ Win32At(y, B)
  BY <1>2, <1>3, <1>4, Win32Sets DEF WithDir
<1> HIDE DEF B
<1>6. Other!Each(Other!do_fd_set, x, fd, E) = y
  BY DEF Other!Each, z
<1> QED  BY <1>2, <1>5, <1>6 DEF Win32Of

LEMMA Win32Deletes ==
  ASSUME NEW x, Serves(x), x.be = "win32", NEW fd \in Other!Number, NEW E \in SUBSET Other!Dirs
  PROVE  LET y == Other!Each(Other!do_fd_clear, x, fd, E)
         IN  Framed(y, x) /\ ~y.failed /\ Win32Of(y, Less(x.want, fd, E))
<1> DEFINE D == ByDir(x.want)
           A == WithoutDir(D, fd, E, "r")
           B == WithoutDir(A, fd, E, "w")
           z == IF "r" \in E THEN Other!do_fd_clear(x, fd, "r") ELSE x
           y == IF "w" \in E THEN Other!do_fd_clear(z, fd, "w") ELSE z
<1>1. Framed(x, x) /\ ~x.failed /\ Win32At(x, D) /\ x.want \in DirsOf
  BY DEF Serves, Watching, Shape, Framed, Win32Of
<1>2. /\ D \in [Other!Dirs -> SUBSET Other!Number] /\ A \in [Other!Dirs -> SUBSET Other!Number]
      /\ B = ByDir(Less(x.want, fd, E))
  <2> DEFINE W == x.want
  <2>1. W \in DirsOf
    BY <1>1
  <2> HIDE DEF W
  <2>2. /\ ByDir(W) \in [Other!Dirs -> SUBSET Other!Number]
        /\ WithoutDir(ByDir(W), fd, E, "r") \in [Other!Dirs -> SUBSET Other!Number]
        /\ WithoutDir(WithoutDir(ByDir(W), fd, E, "r"), fd, E, "w") = ByDir(Less(W, fd, E))
    BY <2>1, ByDirFacts
  <2> QED  BY <2>2 DEF W
<1>3. "r" \in Other!Dirs /\ "w" \in Other!Dirs
  BY DEF Other!Dirs
<1> HIDE DEF D
<1>4. Framed(z, x) /\ ~z.failed /\ Win32At(z, A)
  <2>1. CASE "r" \in E
    <3>1. A = [D EXCEPT !["r"] = @ \ {fd}] /\ z = Other!do_fd_clear(x, fd, "r")
      BY <2>1 DEF WithoutDir
    <3> QED  BY <1>1, <1>2, <1>3, <3>1, Win32Clears
  <2>2. CASE "r" \notin E
    BY <1>1, <2>2 DEF WithoutDir
  <2> QED  BY <2>1, <2>2
<1> HIDE DEF A, z
<1>5. Framed(y, x) /\ ~y.failed /\ Win32At(y, B)
  BY <1>2, <1>3, <1>4, Win32Clears DEF WithoutDir
<1> HIDE DEF B
<1>6. Other!Each(Other!do_fd_clear, x, fd, E) = y
  BY DEF Other!Each, z
<1> QED  BY <1>2, <1>5, <1>6 DEF Win32Of

-------------------------------------------------------------------------------
\* Descriptors are naturals.
LEMMA NumberIsNat == \A fd \in Other!Number : fd \in Nat /\ fd <= MaxFd
BY BackendsAssumption DEF Other!Number

\* select: the sets of bits are long enough for a descriptor.
LEMMA SelectHighFacts ==
  ASSUME NEW x, Serves(x), x.be = "select", NEW fd \in Other!Number
  PROVE  LET y == Other!SelectHigh(x, fd)
         IN  /\ Framed(y, x) /\ ~y.failed /\ y.kern = x.kern
             /\ y.high \in Nat /\ fd <= y.high /\ x.high <= y.high /\ y.high < y.size
             /\ ~y.resize => y.out = y.size
<1> DEFINE y == Other!SelectHigh(x, fd)
<1>1. /\ DOMAIN x = KFields /\ Framed(x, x) /\ ~x.failed /\ x.size \in Nat
      /\ x.high \in Nat /\ x.high < x.size /\ (~x.resize => x.out = x.size)
  BY DEF Serves, Watching, Shape, Framed, SelectOf
<1>2. fd \in Nat
  BY NumberIsNat
<1>3. CASE ~(x.high < fd)
  <2>1. y = x
    BY <1>3 DEF Other!SelectHigh
  <2> QED  BY <1>1, <1>2, <1>3, <2>1
<1>4. CASE x.high < fd /\ fd < x.size
  <2>1. y = [x EXCEPT !.high = fd]
    BY <1>4 DEF Other!SelectHigh, Other!select_resize
  <2> QED  BY <1>1, <1>2, <1>4, <2>1 DEF KFields, Framed
<1>5. CASE x.high < fd /\ ~(fd < x.size)
  <2> DEFINE m == Other!Doubled(x.size, fd + 1)
  <2>1. y = [[x EXCEPT !.size = m, !.resize = TRUE] EXCEPT !.high = fd]
    BY <1>5 DEF Other!SelectHigh, Other!select_resize
  <2>2. m \in Nat /\ m >= fd + 1
    <3>1. x.size \in Nat \ {0} /\ fd + 1 \in Nat
      BY <1>1, <1>2
    <3> QED  BY <3>1, DoubledFacts
  <2> HIDE DEF m, y
  <2>3. /\ y.size = m /\ y.resize = TRUE /\ y.high = fd /\ y.kern = x.kern /\ ~y.failed /\ Framed(y, x)
    BY <1>1, <2>1, <2>2 DEF KFields, Framed
  <2> QED  BY <1>1, <1>2, <1>5, <2>2, <2>3 DEF y
<1> QED  BY <1>3, <1>4, <1>5

\* select_add.
LEMMA SelectAdds ==
  ASSUME NEW x, Serves(x), x.be = "select", NEW fd \in Other!Number, NEW E \in SUBSET Other!Dirs
  PROVE  LET y == Other!select_add(x, fd, E)
         IN  Framed(y, x) /\ ~y.failed /\ SelectOf(y, More(x.want, fd, E))
<1> DEFINE g == Other!SelectHigh(x, fd)
           ker == [x.kern EXCEPT ![fd] = @ \cup E]
           y == [g EXCEPT !.kern = ker, !.over = FALSE]
<1>1. /\ Framed(g, x) /\ ~g.failed /\ g.kern = x.kern
      /\ g.high \in Nat /\ fd <= g.high /\ x.high <= g.high /\ g.high < g.size
      /\ ~g.resize => g.out = g.size
  BY SelectHighFacts
<1>2. fd \in Nat /\ \A o \in Other!Number : o \in Nat
  BY NumberIsNat
<1>3. x.kern = x.want /\ x.want \in DirsOf /\ x.high \in Nat
      /\ \A o \in Other!Number : x.want[o] # {} => o <= x.high
  BY DEF Serves, Watching, Shape, SelectOf
<1>4. Other!select_add(x, fd, E) = y
  <2> HIDE DEF g
  <2>1. DOMAIN g = KFields /\ ~g.over /\ g.over \in BOOLEAN /\ g.size \in Nat
    BY <1>1 DEF Framed
  <2>2. (g.over \/ fd >= g.size) = FALSE
    BY <1>1, <1>2, <2>1
  <2>3. y = [g EXCEPT !.kern[fd] = @ \cup E, !.over = @ \/ fd >= g.size]
    BY <1>1, <2>1, <2>2 DEF KFields
  <2> QED  BY <2>3 DEF Other!select_add, g
<1> HIDE DEF g
<1>5. ker = More(x.want, fd, E) /\ \A o \in Other!Number \ {fd} : ker[o] = x.want[o]
  BY <1>3 DEF More, DirsOf
<1> HIDE DEF ker
<1>6. /\ Framed(y, x) /\ ~y.failed /\ y.kern = ker /\ y.high = g.high /\ y.size = g.size
      /\ y.resize = g.resize /\ y.out = g.out
  BY <1>1 DEF Framed, KFields
<1> HIDE DEF y
<1>7. \A o \in Other!Number : ker[o] # {} => o <= y.high
  <2> SUFFICES ASSUME NEW o \in Other!Number, ker[o] # {}
               PROVE  o <= y.high
    OBVIOUS
  <2>1. CASE o = fd
    BY <1>1, <1>6, <2>1
  <2>2. CASE o # fd
    BY <1>1, <1>2, <1>3, <1>5, <1>6, <2>2
  <2> QED  BY <2>1, <2>2
<1>8. SelectOf(y, More(x.want, fd, E))
  BY <1>1, <1>5, <1>6, <1>7 DEF SelectOf
<1> QED  BY <1>4, <1>6, <1>8

\* select_del.
LEMMA SelectDeletes ==
  ASSUME NEW x, Serves(x), x.be = "select", NEW fd \in Other!Number,
         NEW E \in SUBSET Other!Dirs, E # {}, E \subseteq x.want[fd]
  PROVE  LET y == Other!select_del(x, fd, E)
         IN  Framed(y, x) /\ ~y.failed /\ SelectOf(y, Less(x.want, fd, E))
<1> DEFINE ker == [x.kern EXCEPT ![fd] = @ \ E]
           y == [x EXCEPT !.kern = ker]
<1>1. /\ DOMAIN x = KFields /\ Framed(x, x) /\ ~x.failed /\ x.size \in Nat
      /\ x.high \in Nat /\ x.high < x.size /\ (~x.resize => x.out = x.size)
      /\ x.kern = x.want /\ x.want \in DirsOf
      /\ \A o \in Other!Number : x.want[o] # {} => o <= x.high
  BY DEF Serves, Watching, Shape, Framed, SelectOf
<1>2. fd \in Nat /\ fd <= x.high
  BY <1>1, NumberIsNat
<1>3. Other!select_del(x, fd, E) = y
  <2>1. Other!select_del(x, fd, E) = [x EXCEPT !.kern[fd] = @ \ E]
    BY <1>1, <1>2 DEF Other!select_del
  <2> QED  BY <1>1, <2>1 DEF KFields
<1>4. ker = Less(x.want, fd, E) /\ \A o \in Other!Number : ker[o] # {} => x.want[o] # {}
  BY <1>1 DEF Less, DirsOf
<1> HIDE DEF ker
<1>5. /\ Framed(y, x) /\ ~y.failed /\ y.kern = ker /\ y.high = x.high /\ y.size = x.size
      /\ y.resize = x.resize /\ y.out = x.out
  BY <1>1 DEF Framed, KFields
<1> HIDE DEF y
<1>6. SelectOf(y, Less(x.want, fd, E))
  BY <1>1, <1>4, <1>5 DEF SelectOf
<1> QED  BY <1>3, <1>5, <1>6

-------------------------------------------------------------------------------
\* devpoll: a change is queued, and the queue is written when it is full.
LEMMA DevpollQueues ==
  ASSUME NEW x, NEW x0, Framed(x, x0), NEW W \in DirsOf, DevpollOf(x, W), NEW fd \in Other!Number,
         NEW E \in SUBSET Other!Dirs
  PROVE  LET y == Other!devpoll_queue(x, fd, E)
         IN  /\ Framed(y, x0) /\ y.failed = x.failed
             /\ DevpollOf(y, Onto(W, [fd |-> fd, ev |-> E]))
<1> DEFINE c == [fd |-> fd, ev |-> E]
           g == IF Len(x.changes) >= Room THEN Other!devpoll_commit(x) ELSE x
           y == [g EXCEPT !.changes = Append(g.changes, c)]
<1>1. DOMAIN x = KFields /\ x.kern \in DirsOf /\ x.changes \in Seq(FdDirs)
      /\ Other!Written(x.kern, x.changes) = W
  BY DEF Framed, DevpollOf
<1>2. c \in FdDirs
  BY DEF FdDirs
<1>3. /\ Framed(g, x0) /\ g.failed = x.failed /\ g.kern \in DirsOf /\ g.changes \in Seq(FdDirs)
      /\ Other!Written(g.kern, g.changes) = W
  <2>1. CASE Len(x.changes) >= Room
    <3>1. g = [x EXCEPT !.kern = Other!Written(x.kern, x.changes), !.changes = <<>>]
      BY <1>1, <2>1 DEF Other!devpoll_commit, KFields
    <3>2. g.kern = W /\ g.changes = <<>> /\ Framed(g, x0) /\ g.failed = x.failed
      BY <1>1, <3>1 DEF Framed, KFields
    <3>3. Other!Written(W, <<>>) = W
      BY <1>1, <1>2, WrittenAppend
    <3>4. <<>> \in Seq(FdDirs)
      OBVIOUS
    <3> HIDE DEF g
    <3> QED  BY <3>2, <3>3, <3>4
  <2>2. CASE ~(Len(x.changes) >= Room)
    BY <1>1, <2>2
  <2> QED  BY <2>1, <2>2
<1>4. Other!devpoll_queue(x, fd, E) = y
  <2>1. DOMAIN g = KFields
    BY <1>3 DEF Framed
  <2> HIDE DEF g
  <2>2. y = [g EXCEPT !.changes = Append(@, c)]
    BY <2>1 DEF KFields
  <2> QED  BY <2>2 DEF Other!devpoll_queue, g
<1> HIDE DEF g, c
<1>5. /\ Framed(y, x0) /\ y.failed = x.failed /\ y.kern = g.kern /\ y.changes = Append(g.changes, c)
  BY <1>3 DEF Framed, KFields
<1> HIDE DEF y
<1>6. Append(g.changes, c) \in Seq(FdDirs)
      /\ Other!Written(g.kern, Append(g.changes, c)) = Onto(W, c)
  BY <1>2, <1>3, WrittenAppend
<1>7. DevpollOf(y, Onto(W, c))
  BY <1>3, <1>5, <1>6 DEF DevpollOf
<1> QED  BY <1>4, <1>5, <1>7 DEF c

LEMMA DevpollAdds ==
  ASSUME NEW x, Serves(x), x.be = "devpoll", NEW fd \in Other!Number,
         NEW E \in SUBSET Other!Dirs, E # {}
  PROVE  LET y == Other!devpoll_queue(x, fd, E)
         IN  Framed(y, x) /\ ~y.failed /\ DevpollOf(y, More(x.want, fd, E))
<1>1. Framed(x, x) /\ ~x.failed /\ DevpollOf(x, x.want) /\ x.want \in DirsOf
  BY DEF Serves, Watching, Shape, Framed
<1>2. Onto(x.want, [fd |-> fd, ev |-> E]) = More(x.want, fd, E)
  BY DEF Onto, More
<1> QED  BY <1>1, <1>2, DevpollQueues

\* devpoll_del: the descriptor goes, and what is left of it is added again.
LEMMA DevpollDeletes ==
  ASSUME NEW x, Serves(x), x.be = "devpoll", NEW fd \in Other!Number,
         NEW E \in SUBSET Other!Dirs, E # {}, E \subseteq x.want[fd]
  PROVE  LET y == Other!devpoll_del(x, fd, E)
         IN  Framed(y, x) /\ ~y.failed /\ DevpollOf(y, Less(x.want, fd, E))
<1> DEFINE W == x.want
           left == W[fd] \ E
           g == Other!devpoll_queue(x, fd, {})
           V == Onto(W, [fd |-> fd, ev |-> {}])
           h == Other!devpoll_queue(g, fd, left)
<1>1. Framed(x, x) /\ ~x.failed /\ DevpollOf(x, W) /\ W \in DirsOf
  BY DEF Serves, Watching, Shape, Framed
<1>2. left \in SUBSET Other!Dirs
  BY <1>1 DEF DirsOf
<1>3. Framed(g, x) /\ g.failed = x.failed /\ DevpollOf(g, V)
  BY <1>1, DevpollQueues
<1>4. V \in DirsOf /\ V = [W EXCEPT ![fd] = {}]
  BY <1>1 DEF Onto, DirsOf
<1>5. Other!devpoll_del(x, fd, E) = IF E # Other!Dirs /\ left # {} THEN h ELSE g
  BY DEF Other!devpoll_del
<1> HIDE DEF V, left, g
<1>6. CASE E # Other!Dirs /\ left # {}
  <2>1. Framed(h, x) /\ h.failed = g.failed /\ DevpollOf(h, Onto(V, [fd |-> fd, ev |-> left]))
    BY <1>2, <1>3, <1>4, DevpollQueues
  <2>2. Onto(V, [fd |-> fd, ev |-> left]) = Less(W, fd, E)
    <3>1. Onto(V, [fd |-> fd, ev |-> left]) = [V EXCEPT ![fd] = @ \cup left]
      BY <1>6 DEF Onto
    <3> QED  BY <1>1, <1>4, <3>1 DEF Less, DirsOf, left
  <2> HIDE DEF h
  <2> QED  BY <1>1, <1>3, <1>5, <1>6, <2>1, <2>2
<1>7. CASE ~(E # Other!Dirs /\ left # {})
  <2>1. left = {}
    BY <1>1, <1>7 DEF left, DirsOf
  <2>2. V = Less(W, fd, E)
    BY <1>1, <1>4, <2>1 DEF Less, DirsOf, left
  <2> QED  BY <1>1, <1>3, <1>5, <1>7, <2>2
<1> QED  BY <1>6, <1>7

-------------------------------------------------------------------------------
\* kqueue: a change of one direction.  Resulting are the directions that the
\* kernel will know once it has taken the changes.
Resulting(x, fd) == {d \in Other!Dirs : x.cl[fd][d] = "add" \/ (d \in x.kern[fd] /\ x.cl[fd][d] # "del")}

ChangeKinds == [Other!Number -> [Other!Dirs -> {"none", "add", "del"}]]

\* A change of the directions E of fd, to add them or to delete them.
ChangedBy(y, x, fd, E, add) ==
  /\ y = x \/ y = [x EXCEPT !.cl = y.cl]
  /\ y.cl \in ChangeKinds
  /\ \A o \in Other!Number, d \in Other!Dirs : o # fd \/ d \notin E => y.cl[o][d] = x.cl[o][d]
  /\ \A d \in E : IF add THEN y.cl[fd][d] = "add"
                  ELSE y.cl[fd][d] = IF d \in x.kern[fd] THEN "del" ELSE "none"

LEMMA OneChanged ==
  ASSUME NEW x, DOMAIN x = KFields, x.cl \in ChangeKinds, NEW fd \in Other!Number,
         NEW d \in Other!Dirs
  PROVE  /\ ChangedBy(Other!ChangeAdd(x, fd, d), x, fd, {d}, TRUE)
         /\ ChangedBy(Other!ChangeDel(x, fd, d), x, fd, {d}, FALSE)
<1> DEFINE v == IF d \in x.kern[fd] THEN "del" ELSE "none"
           a == [x.cl EXCEPT ![fd] = [x.cl[fd] EXCEPT ![d] = "add"]]
           b == [x.cl EXCEPT ![fd] = [x.cl[fd] EXCEPT ![d] = v]]
           y == [x EXCEPT !.cl = a]
           z == [x EXCEPT !.cl = b]
<1>1. Other!ChangeAdd(x, fd, d) = y
  BY DEF Other!ChangeAdd, KFields
<1>2. Other!ChangeDel(x, fd, d) = z
  BY DEF Other!ChangeDel, KFields
<1>3. v \in {"none", "add", "del"}
  OBVIOUS
<1> HIDE DEF v
<1>4. /\ a \in ChangeKinds /\ b \in ChangeKinds /\ a[fd][d] = "add" /\ b[fd][d] = v
      /\ \A o \in Other!Number, e \in Other!Dirs :
           o # fd \/ e # d => a[o][e] = x.cl[o][e] /\ b[o][e] = x.cl[o][e]
  BY <1>3 DEF ChangeKinds
<1> HIDE DEF a, b
<1>5. y.cl = a /\ z.cl = b
  BY DEF KFields
<1>6. ChangedBy(y, x, fd, {d}, TRUE)
  BY <1>4, <1>5 DEF ChangedBy
<1>7. ChangedBy(z, x, fd, {d}, FALSE)
  BY <1>4, <1>5 DEF ChangedBy, v
<1> QED  BY <1>1, <1>2, <1>6, <1>7

\* Both directions.
LEMMA BothChanged ==
  ASSUME NEW x, DOMAIN x = KFields, x.cl \in ChangeKinds, NEW fd \in Other!Number,
         NEW E \in SUBSET Other!Dirs
  PROVE  /\ ChangedBy(Other!Each(Other!ChangeAdd, x, fd, E), x, fd, E, TRUE)
         /\ ChangedBy(Other!Each(Other!ChangeDel, x, fd, E), x, fd, E, FALSE)
<1> DEFINE a == IF "r" \in E THEN Other!ChangeAdd(x, fd, "r") ELSE x
           b == IF "w" \in E THEN Other!ChangeAdd(a, fd, "w") ELSE a
           p == IF "r" \in E THEN Other!ChangeDel(x, fd, "r") ELSE x
           q == IF "w" \in E THEN Other!ChangeDel(p, fd, "w") ELSE p
<1>1. Other!Each(Other!ChangeAdd, x, fd, E) = b /\ Other!Each(Other!ChangeDel, x, fd, E) = q
  BY DEF Other!Each
<1>2. "r" \in Other!Dirs /\ "w" \in Other!Dirs /\ \A d \in Other!Dirs : d = "r" \/ d = "w"
  BY DEF Other!Dirs
<1>4. ChangedBy(a, x, fd, E \cap {"r"}, TRUE) /\ ChangedBy(p, x, fd, E \cap {"r"}, FALSE)
  <2>1. CASE "r" \in E
    <3>1. E \cap {"r"} = {"r"}
      BY <2>1
    <3> QED  BY <1>2, <2>1, <3>1, OneChanged
  <2>2. CASE "r" \notin E
    <3>1. E \cap {"r"} = {}
      BY <2>2
    <3> QED  BY <2>2, <3>1 DEF ChangedBy
  <2> QED  BY <2>1, <2>2
<1> HIDE DEF a, p
<1>5. /\ DOMAIN a = KFields /\ a.cl \in ChangeKinds /\ a.kern = x.kern
      /\ DOMAIN p = KFields /\ p.cl \in ChangeKinds /\ p.kern = x.kern
  <2> DEFINE u == a.cl
             w == p.cl
  <2>1. /\ a = x \/ a = [x EXCEPT !.cl = u]
        /\ p = x \/ p = [x EXCEPT !.cl = w]
        /\ u \in ChangeKinds /\ w \in ChangeKinds
    BY <1>4 DEF ChangedBy
  <2> HIDE DEF u, w
  <2>2. /\ DOMAIN [x EXCEPT !.cl = u] = KFields /\ [x EXCEPT !.cl = u].kern = x.kern
        /\ DOMAIN [x EXCEPT !.cl = w] = KFields /\ [x EXCEPT !.cl = w].kern = x.kern
    BY DEF KFields
  <2> QED  BY <2>1, <2>2 DEF u, w
<1>6. CASE "w" \notin E
  <2>1. E \cap {"r"} = E
    BY <1>2, <1>6
  <2> QED  BY <1>1, <1>4, <1>6, <2>1
<1>7. CASE "w" \in E
  <2>1. ChangedBy(b, a, fd, {"w"}, TRUE) /\ ChangedBy(q, p, fd, {"w"}, FALSE)
    BY <1>2, <1>5, <1>7, OneChanged
  <2> HIDE DEF b, q
  <2>2. /\ b = x \/ b = [x EXCEPT !.cl = b.cl]
        /\ q = x \/ q = [x EXCEPT !.cl = q.cl]
    <3> DEFINE u == a.cl
               w == p.cl
               s == b.cl
               t == q.cl
    <3>1. /\ a = x \/ a = [x EXCEPT !.cl = u]
          /\ p = x \/ p = [x EXCEPT !.cl = w]
          /\ b = a \/ b = [a EXCEPT !.cl = s]
          /\ q = p \/ q = [p EXCEPT !.cl = t]
      BY <1>4, <2>1 DEF ChangedBy
    <3>2. (b = a => s = u) /\ (q = p => t = w)
      OBVIOUS
    <3> HIDE DEF u, w, s, t
    <3>3. /\ [[x EXCEPT !.cl = u] EXCEPT !.cl = s] = [x EXCEPT !.cl = s]
          /\ [[x EXCEPT !.cl = w] EXCEPT !.cl = t] = [x EXCEPT !.cl = t]
      BY DEF KFields
    <3>4. (b = x \/ b = [x EXCEPT !.cl = s]) /\ (q = x \/ q = [x EXCEPT !.cl = t])
      BY <3>1, <3>2, <3>3
    <3> QED  BY <3>4 DEF s, t
  <2>3. ChangedBy(b, x, fd, E, TRUE)
    BY <1>2, <1>4, <1>5, <1>7, <2>1, <2>2 DEF ChangedBy
  <2>4. ChangedBy(q, x, fd, E, FALSE)
    BY <1>2, <1>4, <1>5, <1>7, <2>1, <2>2 DEF ChangedBy
  <2> QED  BY <1>1, <2>3, <2>4
<1> QED  BY <1>6, <1>7

\* The fields that a change leaves alone.
LEMMA ChangeFrame ==
  ASSUME NEW x, NEW y, Serves(x), x.be = "kqueue", NEW fd, NEW E, NEW add,
         ChangedBy(y, x, fd, E, add)
  PROVE  /\ Framed(y, x) /\ ~y.failed /\ y.kern = x.kern
         /\ y.size = x.size /\ y.out = x.out /\ x.kern \in DirsOf /\ x.cl \in ChangeKinds
         /\ x.size # 0 /\ x.out \in Nat \ {0} /\ x.want \in DirsOf
         /\ \A o \in Other!Number : /\ Resulting(x, o) = x.want[o]
                                    /\ o \notin x.open => x.want[o] = {} /\ x.kern[o] = {}
<1>1. DOMAIN x = KFields /\ Framed(x, x) /\ ~x.failed /\ KqueueOf(x, x.want) /\ x.want \in DirsOf
  BY DEF Serves, Watching, Shape, Framed
<1>2. /\ Framed(y, x) /\ ~y.failed /\ y.kern = x.kern
      /\ y.size = x.size /\ y.out = x.out
  <2> DEFINE v == y.cl
  <2>1. y = x \/ y = [x EXCEPT !.cl = v]
    BY DEF ChangedBy
  <2> HIDE DEF v
  <2> QED  BY <1>1, <2>1 DEF Framed, KFields
<1> QED  BY <1>1, <1>2 DEF KqueueOf, Resulting, ChangeKinds

LEMMA KqueueAdds ==
  ASSUME NEW x, Serves(x), x.be = "kqueue", NEW fd \in x.open, NEW E \in SUBSET Other!Dirs
  PROVE  LET y == Other!Each(Other!ChangeAdd, x, fd, E)
         IN  Framed(y, x) /\ ~y.failed /\ KqueueOf(y, More(x.want, fd, E))
<1> DEFINE y == Other!Each(Other!ChangeAdd, x, fd, E)
           v == y.cl
<1>1. DOMAIN x = KFields /\ x.cl \in ChangeKinds /\ fd \in Other!Number /\ x.want \in DirsOf
  BY DEF Serves, Watching, Shape, KqueueOf, ChangeKinds
<1>2. ChangedBy(y, x, fd, E, TRUE)
  BY <1>1, BothChanged
<1> HIDE DEF y
<1>4. /\ Framed(y, x) /\ ~y.failed /\ y.kern = x.kern
      /\ y.size = x.size /\ y.out = x.out /\ x.kern \in DirsOf
      /\ x.size # 0 /\ x.out \in Nat \ {0} /\ y.open = x.open
      /\ \A o \in Other!Number : /\ Resulting(x, o) = x.want[o]
                                 /\ o \notin x.open => x.want[o] = {} /\ x.kern[o] = {}
  <2>1. y.open = x.open
    BY <1>2, ChangeFrame DEF Framed
  <2> QED  BY <1>2, <2>1, ChangeFrame
<1>5. /\ v \in ChangeKinds /\ \A d \in E : v[fd][d] = "add"
      /\ \A o \in Other!Number, d \in Other!Dirs : o # fd \/ d \notin E => v[o][d] = x.cl[o][d]
  BY <1>2, <1>4 DEF ChangedBy
<1>6. /\ More(x.want, fd, E)[fd] = x.want[fd] \cup E
      /\ \A o \in Other!Number \ {fd} : More(x.want, fd, E)[o] = x.want[o]
  BY <1>1 DEF More, DirsOf
<1>7. \A o \in Other!Number : Resulting(y, o) = More(x.want, fd, E)[o]
  <2> SUFFICES ASSUME NEW o \in Other!Number PROVE Resulting(y, o) = More(x.want, fd, E)[o]
    OBVIOUS
  <2>1. CASE o = fd
    <3>1. Resulting(y, fd) = Resulting(x, fd) \cup E
      BY <1>1, <1>4, <1>5 DEF Resulting
    <3> QED  BY <1>1, <1>4, <1>6, <2>1, <3>1
  <2>2. CASE o # fd
    <3>1. Resulting(y, o) = Resulting(x, o)
      BY <1>1, <1>4, <1>5, <2>2 DEF Resulting
    <3> QED  BY <1>4, <1>6, <2>2, <3>1
  <2> QED  BY <2>1, <2>2
<1>8. \A o \in Other!Number : o \notin y.open => More(x.want, fd, E)[o] = {} /\ y.kern[o] = {}
  BY <1>4, <1>6
<1>9. KqueueOf(y, More(x.want, fd, E))
  BY <1>4, <1>5, <1>7, <1>8 DEF KqueueOf, Resulting, ChangeKinds
<1> QED  BY <1>4, <1>9 DEF y

LEMMA KqueueDeletes ==
  ASSUME NEW x, Serves(x), x.be = "kqueue", NEW fd \in Other!Number, NEW E \in SUBSET Other!Dirs
  PROVE  LET y == Other!Each(Other!ChangeDel, x, fd, E)
         IN  Framed(y, x) /\ ~y.failed /\ KqueueOf(y, Less(x.want, fd, E))
<1> DEFINE y == Other!Each(Other!ChangeDel, x, fd, E)
           v == y.cl
<1>1. DOMAIN x = KFields /\ x.cl \in ChangeKinds /\ x.want \in DirsOf
  BY DEF Serves, Watching, Shape, KqueueOf, ChangeKinds
<1>2. ChangedBy(y, x, fd, E, FALSE)
  BY <1>1, BothChanged
<1> HIDE DEF y
<1>4. /\ Framed(y, x) /\ ~y.failed /\ y.kern = x.kern
      /\ y.size = x.size /\ y.out = x.out /\ x.kern \in DirsOf
      /\ x.size # 0 /\ x.out \in Nat \ {0} /\ y.open = x.open
      /\ \A o \in Other!Number : /\ Resulting(x, o) = x.want[o]
                                 /\ o \notin x.open => x.want[o] = {} /\ x.kern[o] = {}
  <2>1. y.open = x.open
    BY <1>2, ChangeFrame DEF Framed
  <2> QED  BY <1>2, <2>1, ChangeFrame
<1>5. /\ v \in ChangeKinds
      /\ \A d \in E : v[fd][d] # "add" /\ (d \in x.kern[fd] => v[fd][d] = "del")
      /\ \A o \in Other!Number, d \in Other!Dirs : o # fd \/ d \notin E => v[o][d] = x.cl[o][d]
  BY <1>2, <1>4 DEF ChangedBy
<1>6. /\ Less(x.want, fd, E)[fd] = x.want[fd] \ E
      /\ \A o \in Other!Number \ {fd} : Less(x.want, fd, E)[o] = x.want[o]
  BY <1>1 DEF Less, DirsOf
<1>7. \A o \in Other!Number : Resulting(y, o) = Less(x.want, fd, E)[o]
  <2> SUFFICES ASSUME NEW o \in Other!Number PROVE Resulting(y, o) = Less(x.want, fd, E)[o]
    OBVIOUS
  <2>1. CASE o = fd
    <3>1. Resulting(y, fd) = Resulting(x, fd) \ E
      BY <1>1, <1>4, <1>5 DEF Resulting
    <3> QED  BY <1>1, <1>4, <1>6, <2>1, <3>1
  <2>2. CASE o # fd
    <3>1. Resulting(y, o) = Resulting(x, o)
      BY <1>1, <1>4, <1>5, <2>2 DEF Resulting
    <3> QED  BY <1>4, <1>6, <2>2, <3>1
  <2> QED  BY <2>1, <2>2
<1>8. \A o \in Other!Number : o \notin y.open => Less(x.want, fd, E)[o] = {} /\ y.kern[o] = {}
  BY <1>4, <1>6
<1>9. KqueueOf(y, Less(x.want, fd, E))
  BY <1>4, <1>5, <1>7, <1>8 DEF KqueueOf, Resulting, ChangeKinds
<1> QED  BY <1>4, <1>9 DEF y

-------------------------------------------------------------------------------
\* evport_add: the descriptor is associated.
LEMMA EvportAdds ==
  ASSUME NEW x, Serves(x), x.be = "evport", NEW fd \in Other!Number,
         NEW E \in SUBSET Other!Dirs, E # {}
  PROVE  LET y == Other!evport_add(x, fd, E)
         IN  Framed(y, x) /\ ~y.failed /\ EvportOf(y, More(x.want, fd, E))
<1> DEFINE W == More(x.want, fd, E)
           g == Other!EvportGrown(x, fd)
           h == [g EXCEPT !.what = W]
           ker == [x.kern EXCEPT ![fd] = W[fd]]
           y == [h EXCEPT !.kern = ker]
<1>1. /\ DOMAIN x = KFields /\ Framed(x, x) /\ ~x.failed /\ x.want \in DirsOf /\ EvportOf(x, x.want)
      /\ x.size \in Nat \ {0} /\ x.kern \in DirsOf /\ x.what = x.want
  BY DEF Serves, Watching, Shape, Framed, EvportOf
<1>2. /\ Framed(g, x) /\ ~g.failed /\ g.size # 0 /\ g.kern = x.kern /\ g.what = x.want /\ g.pend = x.pend
      /\ g.got = x.got /\ g.step = x.step
  <2>1. CASE fd < x.size
    <3>1. g = x
      BY <2>1 DEF Other!EvportGrown
    <3> QED  BY <1>1, <3>1
  <2>2. CASE ~(fd < x.size)
    <3> DEFINE m == Other!Doubled(x.size, fd + 1)
    <3>1. fd + 1 \in Nat
      BY NumberIsNat
    <3>2. m \in Nat \ {0}
      <4>1. m \in Nat /\ m >= x.size
        BY <1>1, <3>1, DoubledFacts
      <4> HIDE DEF m
      <4> QED  BY <1>1, <4>1
    <3>3. g = [x EXCEPT !.size = m]
      BY <2>2 DEF Other!EvportGrown
    <3> HIDE DEF m, g
    <3> QED  BY <1>1, <3>2, <3>3 DEF Framed, KFields
  <2> QED  BY <2>1, <2>2
<1>3. W[fd] = x.want[fd] \cup E /\ W \in DirsOf /\ \A o \in Other!Number \ {fd} : W[o] = x.want[o]
  BY <1>1 DEF More, DirsOf
<1>4. Other!evport_add(x, fd, E) = y
  <2> HIDE DEF g
  <2>1. DOMAIN g = KFields
    BY <1>2 DEF Framed
  <2>2. h = [g EXCEPT !.what[fd] = @ \cup E]
    BY <1>2, <2>1 DEF KFields, More
  <2>3. Other!evport_add(x, fd, E) = Other!reassociate(h, fd)
    BY <2>2 DEF Other!evport_add, g
  <2> HIDE DEF W
  <2>4. h.what = W /\ W[fd] # {} /\ h.kern = x.kern /\ DOMAIN h = KFields
    BY <1>2, <1>3, <2>1 DEF KFields
  <2> HIDE DEF h
  <2>5. Other!reassociate(h, fd) = [h EXCEPT !.kern[fd] = W[fd]]
    BY <2>4 DEF Other!reassociate
  <2>6. [h EXCEPT !.kern[fd] = W[fd]] = y
    BY <2>4 DEF KFields
  <2> QED  BY <2>3, <2>5, <2>6
<1> HIDE DEF W, g
<1>5. ker \in DirsOf /\ ker[fd] = W[fd] /\ \A o \in Other!Number \ {fd} : ker[o] = x.kern[o]
  BY <1>1, <1>3 DEF DirsOf
<1> HIDE DEF ker
<1>6. /\ Framed(y, x) /\ ~y.failed /\ y.size # 0 /\ y.kern = ker /\ y.what = W /\ y.pend = x.pend
      /\ y.got = x.got /\ y.step = x.step
  BY <1>2 DEF Framed, KFields
<1> HIDE DEF y
<1>7. EvportOf(y, W)
  <2>1. ASSUME NEW o \in Other!Number
        PROVE  \/ W[o] \subseteq y.kern[o]
               \/ y.step = "lock" /\ \E i \in 1 .. GetN : y.pend[i] = o
               \/ y.step = "returned" /\ \E i \in 1 .. Len(y.got) : y.got[i] = o
    <3>1. CASE o = fd
      BY <1>5, <1>6, <3>1
    <3>2. CASE o # fd
      BY <1>1, <1>3, <1>5, <1>6, <3>2 DEF EvportOf
    <3> QED  BY <3>1, <3>2
  <2> QED  BY <1>1, <1>5, <1>6, <2>1 DEF EvportOf
<1> QED  BY <1>4, <1>6, <1>7 DEF W

\* evport_del: of a descriptor that is pending only the note is changed, and the
\* call may fail for one that the kernel has just reported.
LEMMA EvportDeletes ==
  ASSUME NEW x, Serves(x), x.be = "evport", NEW fd \in Other!Number,
         NEW E \in SUBSET Other!Dirs, E # {}, E \subseteq x.want[fd]
  PROVE  LET y == Other!evport_del(x, fd, E)
         IN  Framed(y, x) /\ (~y.failed => EvportOf(y, Less(x.want, fd, E)))
<1> DEFINE W == Less(x.want, fd, E)
           h == [x EXCEPT !.what = W]
           at == {i \in 1 .. GetN : x.pend[i] = fd}
           first == CHOOSE i \in at : \A j \in at : i <= j
           y == Other!evport_del(x, fd, E)
<1>1. /\ DOMAIN x = KFields /\ Framed(x, x) /\ ~x.failed /\ x.want \in DirsOf /\ EvportOf(x, x.want)
      /\ x.kern \in DirsOf /\ x.what = x.want /\ x.size # 0
      /\ x.pend \in [1 .. GetN -> Other!Number \cup {Other!NoFd}]
  BY DEF Serves, Watching, Shape, Framed, EvportOf
<1>2. W[fd] = x.want[fd] \ E /\ W \in DirsOf /\ \A o \in Other!Number \ {fd} : W[o] = x.want[o]
  BY <1>1 DEF Less, DirsOf
<1>3. y = IF at = {} THEN IF W[fd] = {} THEN Other!Dissociated(h, fd) ELSE Other!reassociate(h, fd)
          ELSE IF W[fd] = {} THEN [h EXCEPT !.pend[first] = Other!NoFd] ELSE h
  <2>1. h = [x EXCEPT !.what[fd] = @ \ E]
    BY <1>1 DEF KFields, Less
  <2>2. h.what = W
    BY <1>1 DEF KFields
  <2> HIDE DEF h, W
  <2> QED  BY <2>1, <2>2 DEF Other!evport_del
<1> HIDE DEF W, y
<1>4. /\ Framed(h, x) /\ ~h.failed /\ h.kern = x.kern /\ h.what = W /\ h.pend = x.pend /\ h.size # 0
      /\ h.got = x.got /\ h.step = x.step /\ DOMAIN h = KFields
  BY <1>1 DEF Framed, KFields
<1> HIDE DEF h
<1>5. /\ x.got \in Seq(Other!Number) /\ Len(x.got) <= GetN
      /\ x.step \in {"lock", "waits", "returned"}
      /\ \A o \in Other!Number :
           \/ x.want[o] \subseteq x.kern[o]
           \/ x.step = "lock" /\ \E i \in 1 .. GetN : x.pend[i] = o
           \/ x.step = "returned" /\ \E i \in 1 .. Len(x.got) : x.got[i] = o
  BY <1>1 DEF EvportOf
<1>6. ASSUME NEW ker \in DirsOf, \A o \in Other!Number \ {fd} : ker[o] = x.kern[o], W[fd] \subseteq ker[fd],
             y = [h EXCEPT !.kern = ker]
      PROVE  Framed(y, x) /\ EvportOf(y, W)
  <2>1. /\ Framed(y, x) /\ y.kern = ker /\ y.what = W /\ y.pend = x.pend /\ y.size # 0
        /\ y.got = x.got /\ y.step = x.step
    BY <1>4, <1>6 DEF Framed, KFields
  <2>2. ASSUME NEW o \in Other!Number
        PROVE  \/ W[o] \subseteq y.kern[o]
               \/ y.step = "lock" /\ \E i \in 1 .. GetN : y.pend[i] = o
               \/ y.step = "returned" /\ \E i \in 1 .. Len(y.got) : y.got[i] = o
    <3>1. CASE o = fd
      BY <1>6, <2>1, <3>1
    <3>2. CASE o # fd
      BY <1>2, <1>5, <1>6, <2>1, <3>2
    <3> QED  BY <3>1, <3>2
  <2> QED  BY <1>1, <1>5, <1>6, <2>1, <2>2 DEF EvportOf
<1>7. CASE at = {} /\ W[fd] = {}
  <2>1. y = Other!Dissociated(h, fd)
    BY <1>3, <1>7
  <2>2. CASE h.kern[fd] = {} /\ fd \in h.open
    <3>1. y = [h EXCEPT !.failed = TRUE]
      BY <2>1, <2>2 DEF Other!Dissociated
    <3> QED  BY <1>4, <3>1 DEF Framed, KFields, y
  <2>3. CASE ~(h.kern[fd] = {} /\ fd \in h.open)
    <3> DEFINE ker == [x.kern EXCEPT ![fd] = {}]
    <3>1. y = [h EXCEPT !.kern = ker]
      BY <1>4, <2>1, <2>3 DEF Other!Dissociated, KFields
    <3>2. ker \in DirsOf /\ \A o \in Other!Number \ {fd} : ker[o] = x.kern[o]
      BY <1>1 DEF DirsOf
    <3> HIDE DEF ker
    <3>3. Framed(y, x) /\ EvportOf(y, W)
      BY <1>6, <1>7, <3>1, <3>2
    <3> QED  BY <3>3 DEF y, W
  <2> QED  BY <2>2, <2>3
<1>8. CASE at = {} /\ W[fd] # {}
  <2> DEFINE ker == [x.kern EXCEPT ![fd] = W[fd]]
  <2>1. y = Other!reassociate(h, fd)
    BY <1>3, <1>8
  <2>2. y = [h EXCEPT !.kern = ker]
    BY <1>4, <1>8, <2>1 DEF Other!reassociate, KFields
  <2>3. ker \in DirsOf /\ ker[fd] = W[fd] /\ \A o \in Other!Number \ {fd} : ker[o] = x.kern[o]
    BY <1>1, <1>2 DEF DirsOf
  <2> HIDE DEF ker
  <2>4. Framed(y, x) /\ EvportOf(y, W)
    BY <1>6, <2>2, <2>3
  <2> QED  BY <2>4 DEF y, W
<1>9. CASE at # {} /\ W[fd] = {}
  <2> DEFINE p == [x.pend EXCEPT ![first] = Other!NoFd]
  <2>1. first \in at
    <3>1. at \in SUBSET Nat
      BY BackendsAssumption
    <3> DEFINE m == Min(at)
    <3> HIDE DEF at
    <3>2. m \in at /\ \A j \in at : m <= j
      BY <1>9, <3>1, MinOfNaturals
    <3> HIDE DEF m
    <3> QED  BY <3>2
  <2>2. y = [h EXCEPT !.pend = p]
    <3>1. y = [h EXCEPT !.pend[first] = Other!NoFd]
      BY <1>3, <1>9
    <3> HIDE DEF first
    <3> QED  BY <1>4, <3>1 DEF KFields
  <2>3. /\ p \in [1 .. GetN -> Other!Number \cup {Other!NoFd}]
        /\ \A i \in 1 .. GetN : x.pend[i] # fd => p[i] = x.pend[i]
    <3> HIDE DEF first
    <3> QED  BY <1>1, <2>1
  <2> HIDE DEF p
  <2>4. /\ Framed(y, x) /\ y.kern = x.kern /\ y.what = W /\ y.pend = p /\ y.size # 0
        /\ y.got = x.got /\ y.step = x.step
    BY <1>4, <2>2 DEF Framed, KFields
  <2>5. ASSUME NEW o \in Other!Number
        PROVE  \/ W[o] \subseteq y.kern[o]
               \/ y.step = "lock" /\ \E i \in 1 .. GetN : y.pend[i] = o
               \/ y.step = "returned" /\ \E i \in 1 .. Len(y.got) : y.got[i] = o
    <3>1. CASE o = fd
      BY <1>9, <3>1
    <3>2. CASE o # fd
      BY <1>2, <1>5, <2>3, <2>4, <3>2
    <3> QED  BY <3>1, <3>2
  <2>6. EvportOf(y, W)
    BY <1>1, <1>5, <2>3, <2>4, <2>5 DEF EvportOf
  <2> QED  BY <2>4, <2>6 DEF y, W
<1>10. CASE at # {} /\ W[fd] # {}
  <2>1. y = h
    BY <1>3, <1>10
  <2>2. \A o \in Other!Number : W[o] \subseteq x.want[o]
    BY <1>2
  <2>3. EvportOf(y, W)
    BY <1>1, <1>4, <1>5, <2>1, <2>2 DEF EvportOf
  <2> QED  BY <1>4, <2>1, <2>3 DEF y, W
<1> QED  BY <1>7, <1>8, <1>9, <1>10

-------------------------------------------------------------------------------
\* Two records that the invariant does not tell apart, but for what is wanted.
Alike(y, x) ==
  /\ y.be = x.be /\ y.size = x.size /\ y.resize = x.resize /\ y.out = x.out
  /\ y.set = x.set /\ y.pos = x.pos /\ y.rw = x.rw /\ y.rwpos = x.rwpos
  /\ y.high = x.high /\ y.changes = x.changes /\ y.cl = x.cl
  /\ x.be \notin {"poll", "win32"} => y.kern = x.kern
  /\ x.be = "kqueue" => y.open = x.open
  /\ x.be = "evport" => y.what = x.what /\ y.pend = x.pend /\ y.got = x.got /\ y.step = x.step

LEMMA WatchesAlike ==
  ASSUME NEW x, NEW y, NEW W, Alike(y, x), x.be \in Backends6, Watching(x, W)
  PROVE  Watching(y, W)
<1>1. CASE x.be = "poll"
  BY SMTT(30), <1>1 DEF Alike, Watching, PollOf
<1>2. CASE x.be = "win32"
  BY <1>2 DEF Alike, Watching, Win32Of, Win32At, PlacesOf
<1>3. CASE x.be = "select"
  BY <1>3 DEF Alike, Watching, SelectOf
<1>4. CASE x.be = "devpoll"
  BY <1>4 DEF Alike, Watching, DevpollOf
<1>5. CASE x.be = "kqueue"
  BY <1>5 DEF Alike, Watching, KqueueOf
<1>6. CASE x.be = "evport"
  BY <1>6 DEF Alike, Watching, EvportOf
<1> QED  BY <1>1, <1>2, <1>3, <1>4, <1>5, <1>6 DEF Backends6

\* What the backend does when evmap adds.
LEMMA BackendAdds ==
  ASSUME NEW x, Serves(x), NEW fd \in Other!Number, fd \in x.open, NEW E \in SUBSET Other!Dirs, E # {}
  PROVE  LET y == Other!Add(x, fd, E)
         IN  Framed(y, x) /\ ~y.failed /\ Watching(y, More(x.want, fd, E))
<1> DEFINE y == Other!Add(x, fd, E)
           W == More(x.want, fd, E)
<1>0. x.be \in Backends6
  BY DEF Serves, Shape
<1> HIDE DEF W, y
<1>1. CASE x.be = "poll"
  <2>1. y = Other!poll_add(x, fd, E)
    BY <1>1 DEF Other!Add, y
  <2>2. Framed(y, x) /\ ~y.failed /\ PollOf(y, W)
    BY <1>0, <1>1, <2>1, PollAdds DEF W
  <2> QED  BY <1>1, <2>2 DEF Watching, Framed, W, y
<1>2. CASE x.be = "win32"
  <2>1. y = Other!Each(Other!do_fd_set, x, fd, E)
    BY <1>2 DEF Other!Add, y
  <2>2. Framed(y, x) /\ ~y.failed /\ Win32Of(y, W)
    BY <1>0, <1>2, <2>1, Win32Adds DEF W
  <2> QED  BY <1>2, <2>2 DEF Watching, Framed, W, y
<1>3. CASE x.be = "select"
  <2>1. y = Other!select_add(x, fd, E)
    BY <1>3 DEF Other!Add, y
  <2>2. Framed(y, x) /\ ~y.failed /\ SelectOf(y, W)
    BY <1>0, <1>3, <2>1, SelectAdds DEF W
  <2> QED  BY <1>3, <2>2 DEF Watching, Framed, W, y
<1>4. CASE x.be = "devpoll"
  <2>1. y = Other!devpoll_queue(x, fd, E)
    BY <1>4 DEF Other!Add, y
  <2>2. Framed(y, x) /\ ~y.failed /\ DevpollOf(y, W)
    BY <1>0, <1>4, <2>1, DevpollAdds DEF W
  <2> QED  BY <1>4, <2>2 DEF Watching, Framed, W, y
<1>5. CASE x.be = "kqueue"
  <2>1. y = Other!Each(Other!ChangeAdd, x, fd, E)
    BY <1>5 DEF Other!Add, y
  <2>2. Framed(y, x) /\ ~y.failed /\ KqueueOf(y, W)
    BY <1>0, <1>5, <2>1, KqueueAdds DEF W
  <2> QED  BY <1>5, <2>2 DEF Watching, Framed, W, y
<1>6. CASE x.be = "evport"
  <2>1. y = Other!evport_add(x, fd, E)
    BY <1>6 DEF Other!Add, y
  <2>2. Framed(y, x) /\ ~y.failed /\ EvportOf(y, W)
    BY <1>0, <1>6, <2>1, EvportAdds DEF W
  <2> QED  BY <1>6, <2>2 DEF Watching, Framed, W, y
<1> QED  BY <1>0, <1>1, <1>2, <1>3, <1>4, <1>5, <1>6 DEF Backends6

\* And when it deletes.
LEMMA BackendDeletes ==
  ASSUME NEW x, Serves(x), NEW fd \in Other!Number, NEW E \in SUBSET Other!Dirs, E # {},
         E \subseteq x.want[fd]
  PROVE  LET y == Other!Del(x, fd, E)
         IN  Framed(y, x) /\ (~y.failed => Watching(y, Less(x.want, fd, E)))
<1> DEFINE y == Other!Del(x, fd, E)
           W == Less(x.want, fd, E)
<1>0. x.be \in Backends6
  BY DEF Serves, Shape
<1> HIDE DEF W, y
<1>1. CASE x.be = "poll"
  <2>1. y = Other!poll_del(x, fd, E)
    BY <1>1 DEF Other!Del, y
  <2>2. Framed(y, x) /\ PollOf(y, W)
    BY <1>1, <2>1, PollDeletes DEF W
  <2> QED  BY <1>1, <2>2 DEF Watching, Framed, W, y
<1>2. CASE x.be = "win32"
  <2>1. y = Other!Each(Other!do_fd_clear, x, fd, E)
    BY <1>2 DEF Other!Del, y
  <2>2. Framed(y, x) /\ Win32Of(y, W)
    BY <1>2, <2>1, Win32Deletes DEF W
  <2> QED  BY <1>2, <2>2 DEF Watching, Framed, W, y
<1>3. CASE x.be = "select"
  <2>1. y = Other!select_del(x, fd, E)
    BY <1>3 DEF Other!Del, y
  <2>2. Framed(y, x) /\ SelectOf(y, W)
    BY <1>3, <2>1, SelectDeletes DEF W
  <2> QED  BY <1>3, <2>2 DEF Watching, Framed, W, y
<1>4. CASE x.be = "devpoll"
  <2>1. y = Other!devpoll_del(x, fd, E)
    BY <1>4 DEF Other!Del, y
  <2>2. Framed(y, x) /\ DevpollOf(y, W)
    BY <1>4, <2>1, DevpollDeletes DEF W
  <2> QED  BY <1>4, <2>2 DEF Watching, Framed, W, y
<1>5. CASE x.be = "kqueue"
  <2>1. y = Other!Each(Other!ChangeDel, x, fd, E)
    BY <1>5 DEF Other!Del, y
  <2>2. Framed(y, x) /\ KqueueOf(y, W)
    BY <1>5, <2>1, KqueueDeletes DEF W
  <2> QED  BY <1>5, <2>2 DEF Watching, Framed, W, y
<1>6. CASE x.be = "evport"
  <2>1. y = Other!evport_del(x, fd, E)
    BY <1>6 DEF Other!Del, y
  <2>2. Framed(y, x) /\ (~y.failed => EvportOf(y, W))
    BY <1>6, <2>1, EvportDeletes DEF W
  <2> QED  BY <1>6, <2>2 DEF Watching, Framed, W, y
<1> QED  BY <1>0, <1>1, <1>2, <1>3, <1>4, <1>5, <1>6 DEF Backends6

LEMMA EvaddKeeps ==
  ASSUME Serves(k), NEW fd, NEW E \in SUBSET Other!Dirs, Other!Evadd(fd, E)
  PROVE  BackendInvOf(k')
<1> DEFINE y == Other!Add(k, fd, E)
           W == More(k.want, fd, E)
           z == [y EXCEPT !.want = W]
<1>1. E # {} /\ fd \in k.open /\ k' = [y EXCEPT !.want[fd] = @ \cup E]
  BY DEF Other!Evadd
<1>2. Framed(y, k) /\ ~y.failed /\ Watching(y, W)
  <2>1. fd \in Other!Number
    BY <1>1 DEF Serves, Shape
  <2> QED  BY <1>1, <2>1, BackendAdds
<1>3. Shape(k) /\ W \in DirsOf /\ y.be \in Backends6
  <2>1. Shape(k)
    BY DEF Serves
  <2> HIDE DEF y
  <2> QED  BY <1>2, <2>1 DEF Shape, More, DirsOf, Framed
<1> HIDE DEF y
<1>4. k' = z
  BY <1>1, <1>2 DEF Framed, KFields, More
<1> HIDE DEF W
<1>5. /\ z.want = W /\ z.failed = y.failed /\ z.over = y.over /\ z.open = y.open /\ Alike(z, y)
      /\ z.size = y.size /\ z.resize = y.resize /\ z.be = y.be /\ DOMAIN z = KFields
  BY <1>2 DEF Framed, KFields, Alike
<1> HIDE DEF z
<1>6. Watching(z, W)
  BY <1>2, <1>3, <1>5, WatchesAlike
<1>7. Shape(z)
  BY <1>2, <1>3, <1>5 DEF Shape, Framed
<1>8. ~z.over
  BY <1>2, <1>5 DEF Framed
<1>9. BackendInvOf(z)
  BY <1>5, <1>6, <1>7, <1>8 DEF BackendInvOf
<1> QED  BY <1>4, <1>9

LEMMA EvdelKeeps ==
  ASSUME Serves(k), NEW fd \in Other!Number, NEW E \in SUBSET Other!Dirs, Other!Evdel(fd, E)
  PROVE  BackendInvOf(k')
<1> DEFINE y == Other!Del(k, fd, E)
           W == Less(k.want, fd, E)
           V == [k.want EXCEPT ![fd] = IF y.failed THEN @ ELSE @ \ E]
           z == [y EXCEPT !.want = V]
<1>1. E # {} /\ E \subseteq k.want[fd]
      /\ k' = [y EXCEPT !.want[fd] = IF y.failed THEN @ ELSE @ \ E]
  BY DEF Other!Evdel
<1>2. Framed(y, k) /\ (~y.failed => Watching(y, W))
  BY <1>1, BackendDeletes
<1> HIDE DEF y
<1>3. Shape(k) /\ y.be \in Backends6
  <2>1. Shape(k)
    BY DEF Serves
  <2> QED  BY <1>2, <2>1 DEF Shape, Framed
<1>4. V \in DirsOf /\ (~y.failed => V = W)
  BY <1>2, <1>3 DEF Shape, Less, DirsOf, Framed
<1>5. k' = z
  BY <1>1, <1>2 DEF Framed, KFields
<1> HIDE DEF W, V
<1>6. /\ z.want = V /\ z.failed = y.failed /\ z.over = y.over /\ z.open = y.open /\ Alike(z, y)
      /\ z.size = y.size /\ z.resize = y.resize /\ z.be = y.be /\ DOMAIN z = KFields
  BY <1>2 DEF Framed, KFields, Alike
<1> HIDE DEF z
<1>7. ~z.failed => Watching(z, z.want)
  BY <1>2, <1>3, <1>4, <1>6, WatchesAlike
<1>8. Shape(z)
  BY <1>2, <1>3, <1>4, <1>6 DEF Shape, Framed
<1>9. ~z.over
  BY <1>2, <1>6 DEF Framed
<1>10. BackendInvOf(z)
  BY <1>7, <1>8, <1>9 DEF BackendInvOf
<1> QED  BY <1>5, <1>10

-------------------------------------------------------------------------------
\* A step that serves what was wanted, in a record that is like another one but
\* for the step of the loop.
LEMMA ServesInv ==
  ASSUME NEW x, NEW y, Serves(x), Alike(y, x), DOMAIN y = KFields, y.want = x.want,
         y.open \in SUBSET Other!Number, y.failed = x.failed, ~y.over, y.over \in BOOLEAN
  PROVE  BackendInvOf(y)
<1>1. x.be \in Backends6 /\ Watching(x, x.want)
  BY DEF Serves, Shape
<1>2. Watching(y, y.want)
  BY <1>1, WatchesAlike
<1>3. Shape(y)
  BY DEF Shape, Serves, Alike
<1> QED  BY <1>2, <1>3 DEF BackendInvOf

\* poll, select, win32: the copies for the kernel are as large as the arrays.
LEMMA CopiesFacts ==
  ASSUME NEW x, Serves(x), x.be \in {"poll", "select", "win32"}
  PROVE  LET g == Other!CopiesGrown(x)
         IN  /\ Framed(g, x) /\ ~g.failed /\ Watching(g, x.want) /\ g.out = x.size
             /\ g.set = x.set /\ g.high = x.high /\ g.rw = x.rw
<1> DEFINE g == Other!CopiesGrown(x)
<1>1. /\ DOMAIN x = KFields /\ Framed(x, x) /\ ~x.failed /\ Watching(x, x.want)
      /\ x.resize \in BOOLEAN /\ (~x.resize => x.out = x.size)
  BY DEF Serves, Shape, Framed, Watching, PollOf, SelectOf, Win32Of, Win32At
<1>2. CASE ~x.resize
  <2>1. g = x
    BY <1>2 DEF Other!CopiesGrown
  <2> QED  BY <1>1, <1>2, <2>1
<1>3. CASE x.resize
  <2>1. g = [x EXCEPT !.out = x.size, !.resize = FALSE]
    BY <1>1, <1>3 DEF Other!CopiesGrown
  <2> HIDE DEF g
  <2>2. /\ Framed(g, x) /\ ~g.failed /\ g.out = x.size /\ g.set = x.set /\ g.high = x.high /\ g.rw = x.rw
        /\ g.pos = x.pos /\ g.rwpos = x.rwpos /\ g.size = x.size /\ g.be = x.be /\ g.kern = x.kern
    BY <1>1, <2>1 DEF Framed, KFields
  <2>3. CASE x.be = "poll"
    <3>1. PollOf(x, x.want)
      BY <1>1, <2>3 DEF Watching
    <3>2. PollOf(g, x.want)
      BY <2>2, <3>1 DEF PollOf
    <3> QED  BY <2>2, <2>3, <3>2 DEF Watching, g
  <2>4. CASE x.be = "select"
    <3>1. SelectOf(x, x.want)
      BY <1>1, <2>4 DEF Watching
    <3>2. SelectOf(g, x.want)
      BY <2>2, <3>1 DEF SelectOf
    <3> QED  BY <2>2, <2>4, <3>2 DEF Watching, g
  <2>5. CASE x.be = "win32"
    <3>1. Win32Of(x, x.want)
      BY <1>1, <2>5 DEF Watching
    <3>2. Win32Of(g, x.want)
      BY <2>2, <3>1 DEF Win32Of, Win32At, PlacesOf
    <3> QED  BY <2>2, <2>5, <3>2 DEF Watching, g
  <2> QED  BY <2>2, <2>3, <2>4, <2>5 DEF g
<1> QED  BY <1>1, <1>2, <1>3

\* n members fit into the copy.
LEMMA CopiedFits ==
  ASSUME NEW g, NEW x, Framed(g, x), NEW n \in Int, n <= g.out, g.out \in Nat
  PROVE  Other!Copied(g, n) = [g EXCEPT !.over = FALSE]
<1>1. (g.over \/ n > g.out) = FALSE
  BY DEF Framed
<1>2. DOMAIN g = KFields
  BY DEF Framed
<1> QED  BY <1>1, <1>2 DEF Other!Copied, KFields

\* The kernel gets the copies, or the changes.
PreparedRight(y, x) == Framed(y, x) /\ ~y.failed /\ Watching(y, x.want)

LEMMA FitsRight ==
  ASSUME NEW g, NEW x, Serves(x), Framed(g, x), ~g.failed, Watching(g, x.want)
  PROVE  PreparedRight([g EXCEPT !.over = FALSE], x)
         /\ [g EXCEPT !.over = FALSE].out = g.out /\ [g EXCEPT !.over = FALSE].rw = g.rw
<1> DEFINE y == [g EXCEPT !.over = FALSE]
<1>1. Framed(y, x) /\ ~y.failed /\ Alike(y, g) /\ y.out = g.out /\ y.rw = g.rw
  BY DEF Framed, KFields, Alike
<1>2. g.be \in Backends6
  BY DEF Framed, Serves, Shape
<1> HIDE DEF y
<1>3. Watching(y, x.want)
  BY <1>1, <1>2, WatchesAlike
<1> QED  BY <1>1, <1>3 DEF PreparedRight, y

LEMMA CopiesPrepared ==
  ASSUME NEW x, Serves(x), x.be \in {"poll", "select", "win32"}
  PROVE  PreparedRight(Other!Prepared(x), x)
<1> DEFINE g == Other!CopiesGrown(x)
           y == [g EXCEPT !.over = FALSE]
<1>1. /\ Framed(g, x) /\ ~g.failed /\ Watching(g, x.want) /\ g.out = x.size
      /\ g.set = x.set /\ g.high = x.high /\ g.rw = x.rw
  BY CopiesFacts
<1>2. x.size \in Nat /\ Watching(x, x.want)
  BY DEF Serves, Shape
<1> HIDE DEF g
<1>3. PreparedRight(y, x) /\ y.out = g.out /\ y.rw = g.rw
  BY <1>1, FitsRight
<1>4. CASE x.be = "poll"
  <2>1. Len(x.set) \in Int /\ Len(x.set) <= g.out
    BY <1>1, <1>2, <1>4 DEF Watching, PollOf
  <2>2. Other!Copied(g, Len(x.set)) = y
    BY <1>1, <1>2, <2>1, CopiedFits
  <2>3. Other!Prepared(x) = Other!Copied(g, Len(x.set))
    BY <1>4 DEF Other!Prepared, g
  <2> QED  BY <1>3, <2>2, <2>3
<1>5. CASE x.be = "select"
  <2>1. x.high + 1 \in Int /\ x.high + 1 <= g.out
    BY <1>1, <1>2, <1>5 DEF Watching, SelectOf
  <2>2. Other!Copied(g, x.high + 1) = y
    BY <1>1, <1>2, <2>1, CopiedFits
  <2>3. Other!Prepared(x) = Other!Copied(g, x.high + 1)
    BY <1>5 DEF Other!Prepared, g
  <2> QED  BY <1>3, <2>2, <2>3
<1>6. CASE x.be = "win32"
  <2> DEFINE z == [y EXCEPT !.over = FALSE]
  <2>1. /\ Len(x.rw["r"]) \in Int /\ Len(x.rw["r"]) <= g.out
        /\ Len(x.rw["w"]) \in Int /\ Len(x.rw["w"]) <= g.out
    <3>1. \A d \in Other!Dirs : x.rw[d] \in Seq(Other!Number) /\ Len(x.rw[d]) <= x.size
      BY <1>2, <1>6 DEF Watching, Win32Of, Win32At, PlacesOf
    <3>2. "r" \in Other!Dirs /\ "w" \in Other!Dirs
      BY DEF Other!Dirs
    <3> QED  BY <1>1, <3>1, <3>2
  <2>2. Other!Copied(g, Len(x.rw["r"])) = y
    BY <1>1, <1>2, <2>1, CopiedFits
  <2> HIDE DEF y
  <2>3. Other!Copied(y, Len(x.rw["w"])) = z
    BY <1>1, <1>2, <1>3, <2>1, CopiedFits DEF PreparedRight
  <2>4. Other!Prepared(x) = Other!Copied(Other!Copied(g, Len(x.rw["r"])), Len(x.rw["w"]))
    BY <1>6 DEF Other!Prepared, g
  <2>5. PreparedRight(z, x)
    BY <1>3, FitsRight DEF PreparedRight
  <2> QED  BY <2>2, <2>3, <2>4, <2>5
<1> QED  BY <1>4, <1>5, <1>6

LEMMA DevpollPrepared ==
  ASSUME NEW x, Serves(x), x.be = "devpoll"
  PROVE  PreparedRight(Other!Prepared(x), x)
<1> DEFINE y == [x EXCEPT !.kern = Other!Written(x.kern, x.changes), !.changes = <<>>]
<1>1. /\ DOMAIN x = KFields /\ Framed(x, x) /\ ~x.failed /\ x.want \in DirsOf
      /\ x.kern \in DirsOf /\ x.changes \in Seq(FdDirs) /\ Other!Written(x.kern, x.changes) = x.want
  BY DEF Serves, Shape, Framed, Watching, DevpollOf
<1>2. Other!Prepared(x) = y
  BY <1>1 DEF Other!Prepared, Other!devpoll_commit, KFields
<1>3. Framed(y, x) /\ ~y.failed /\ y.kern = x.want /\ y.changes = <<>> /\ y.be = "devpoll"
  BY <1>1 DEF Framed, KFields
<1>4. Other!Written(x.want, <<>>) = x.want /\ <<>> \in Seq(FdDirs)
  <2>1. <<>> \in Seq(FdDirs)
    OBVIOUS
  <2>2. 0 \in Other!Number
    BY BackendsAssumption DEF Other!Number
  <2>3. [fd |-> 0, ev |-> {}] \in FdDirs
    BY <2>2 DEF FdDirs
  <2> QED  BY <1>1, <2>1, <2>3, WrittenAppend
<1> HIDE DEF y
<1>5. DevpollOf(y, x.want)
  BY <1>1, <1>3, <1>4 DEF DevpollOf
<1>6. Watching(y, x.want)
  BY <1>3, <1>5 DEF Watching
<1> QED  BY <1>2, <1>3, <1>6 DEF PreparedRight

\* While the list of changes is built there is room: its length, and the length
\* of the array, after each descriptor.
RoomFor == {b \in [n : Nat, size : Nat \ {0}] : b.n <= b.size /\ (b.size = 1 => b.n = 0)}

LEMMA ChangesFit ==
  ASSUME NEW x, x.size \in Nat \ {0}
  PROVE  Other!ChangesBuilt(x) \in RoomFor
<1> DEFINE Of(i) == Other!ChangesOf(x, i - 1)
           After(b, c) == [n |-> b.n + c, size |-> IF c > 0 /\ b.n >= b.size - 1
                                                     THEN 2 * b.size ELSE b.size]
           z == [n |-> 0, size |-> x.size]
           At(g, i) == IF i = 0 THEN z ELSE After(g[i - 1], Of(i))
           f == CHOOSE g : g = [i \in 0 .. MaxFd + 1 |-> At(g, i)]
           F == [t \in RoomFor \X Nat |-> After(t[1], Of(t[2]))]
<1>1. Other!ChangesBuilt(x) = f[MaxFd + 1]
  BY DEF Other!ChangesBuilt
<1>2. ASSUME NEW b \in RoomFor, NEW c \in {0, 1, 2}
      PROVE  After(b, c) \in RoomFor
  BY DEF RoomFor
<1>3. \A i : Of(i) \in {0, 1, 2}
  BY DEF Other!ChangesOf
<1> HIDE DEF After, Of
<1>4. F \in [RoomFor \X Nat -> RoomFor] /\ \A b \in RoomFor, i \in Nat : F[<<b, i>>] = After(b, Of(i))
  <2>1. \A t \in RoomFor \X Nat : After(t[1], Of(t[2])) \in RoomFor
    BY <1>2, <1>3
  <2> QED  BY <2>1
<1> HIDE DEF F
<1>5. z \in RoomFor /\ MaxFd + 1 \in Nat
  BY BackendsAssumption DEF RoomFor
<1> HIDE DEF z
<1>6. PICK g : Loop(g, RoomFor, F, z, MaxFd + 1)
  BY <1>4, <1>5, LoopExists
<1>7. g \in [0 .. MaxFd + 1 -> RoomFor]
      /\ \A i \in 0 .. MaxFd + 1 : g[i] = IF i = 0 THEN z ELSE F[<<g[i - 1], i>>]
  BY <1>6 DEF Loop
<1>8. \A i \in 0 .. MaxFd + 1 : g[i] = At(g, i)
  <2> SUFFICES ASSUME NEW i \in 0 .. MaxFd + 1, i # 0 PROVE F[<<g[i - 1], i>>] = After(g[i - 1], Of(i))
    BY <1>7
  <2>1. i - 1 \in 0 .. MaxFd + 1 /\ i \in Nat
    BY <1>5
  <2>2. g[i - 1] \in RoomFor
    BY <1>7, <2>1
  <2> QED  BY <1>4, <2>1, <2>2
<1>9. g = [i \in 0 .. MaxFd + 1 |-> At(g, i)]
  BY <1>7, <1>8
<1>10. f = [i \in 0 .. MaxFd + 1 |-> At(f, i)]
  BY <1>9
<1> HIDE DEF f
<1> DEFINE P == {i \in Nat : i <= MaxFd + 1 => f[i] \in RoomFor}
<1>11. \A i \in 0 .. MaxFd + 1 : f[i] = At(f, i)
  BY <1>10
<1>12. 0 \in P
  BY <1>5, <1>11
<1>13. \A i \in Nat : i \in P => i + 1 \in P
  <2> SUFFICES ASSUME NEW i \in Nat, i \in P, i + 1 <= MaxFd + 1
               PROVE  i + 1 \in P
    OBVIOUS
  <2>1. i \in 0 .. MaxFd + 1 /\ i + 1 \in 0 .. MaxFd + 1 /\ (i + 1) - 1 = i /\ i + 1 # 0
    BY <1>5
  <2>2. f[i + 1] = After(f[i], Of(i + 1))
    BY <1>11, <2>1
  <2>3. f[i] \in RoomFor
    BY <1>5, <2>1
  <2> QED  BY <1>2, <1>3, <2>2, <2>3
<1>14. MaxFd + 1 \in P
  <2> HIDE DEF P
  <2> QED  BY <1>5, <1>12, <1>13, NaturalInduction
<1> QED  BY <1>1, <1>5, <1>14

LEMMA KqueuePrepared ==
  ASSUME NEW x, Serves(x), x.be = "kqueue"
  PROVE  PreparedRight(Other!Prepared(x), x)
<1> DEFINE n == Other!NChanges(x)
           g == Other!kq_build_changes_list(x)
           h == Other!kq_grow_events(g, n)
           ker == [fd \in Other!Number |-> Other!Changed(h, fd)]
           none == [fd \in Other!Number |-> [d \in Other!Dirs |-> "none"]]
           y == [h EXCEPT !.kern = ker, !.cl = none, !.over = FALSE]
<1>1. /\ DOMAIN x = KFields /\ Framed(x, x) /\ ~x.failed /\ x.want \in DirsOf /\ x.be = "kqueue"
      /\ x.kern \in DirsOf /\ x.size \in Nat \ {0} /\ x.out \in Nat \ {0}
      /\ \A fd \in Other!Number : /\ Resulting(x, fd) = x.want[fd]
                                  /\ fd \notin x.open => x.want[fd] = {}
  BY DEF Serves, Shape, Framed, Watching, KqueueOf, Resulting
<1>2. n \in Nat /\ Other!ChangesBuilt(x).size \in Nat \ {0} /\ n <= Other!ChangesBuilt(x).size
  BY <1>1, ChangesFit DEF RoomFor, Other!NChanges
<1>3. /\ Framed(g, x) /\ ~g.failed /\ g.size \in Nat \ {0} /\ n <= g.size /\ g.out = x.out
      /\ g.cl = x.cl /\ g.kern = x.kern
  <2> DEFINE m == Other!ChangesBuilt(x).size
  <2>1. g = [x EXCEPT !.size = m]
    BY DEF Other!kq_build_changes_list
  <2>2. m \in Nat \ {0} /\ n <= m
    BY <1>2
  <2> HIDE DEF g, n, m
  <2> QED  BY <1>1, <2>1, <2>2 DEF Framed, KFields
<1> HIDE DEF g
<1> HIDE DEF n
<1>5. /\ Framed(h, x) /\ ~h.failed /\ h.size = g.size /\ h.out \in Nat \ {0} /\ n <= h.out
      /\ h.cl = x.cl /\ h.kern = x.kern
  <2>1. CASE g.out < n
    <3> DEFINE m == Other!Doubled(g.out, n)
    <3>1. g.out \in Nat \ {0}
      BY <1>1, <1>3
    <3>2. m \in Nat /\ m >= n /\ m >= g.out
      BY <1>2, <3>1, DoubledFacts
    <3> HIDE DEF m
    <3>3. m \in Nat \ {0} /\ n <= m
      BY <1>2, <3>1, <3>2
    <3>4. h = [g EXCEPT !.out = m]
      BY <2>1 DEF Other!kq_grow_events, m
    <3> HIDE DEF h
    <3> QED  BY <1>3, <3>3, <3>4 DEF Framed, KFields
  <2>2. CASE ~(g.out < n)
    <3>1. h = g
      BY <2>2 DEF Other!kq_grow_events
    <3> HIDE DEF h
    <3> QED  BY <1>1, <1>2, <1>3, <2>2, <3>1
  <2> QED  BY <2>1, <2>2
<1> HIDE DEF h
<1>7. Other!Submitted(h, n) = y
  <2>1. DOMAIN h = KFields /\ ~h.over /\ h.over \in BOOLEAN
    BY <1>5 DEF Framed
  <2>2. (h.over \/ n > h.size \/ n > h.out) = FALSE
    BY <1>2, <1>3, <1>5, <2>1
  <2> HIDE DEF ker, none
  <2>3. y = [h EXCEPT !.kern = ker, !.cl = none, !.over = h.over \/ n > h.size \/ n > h.out]
    BY <2>1, <2>2 DEF KFields
  <2> QED  BY <2>1, <2>3 DEF Other!Submitted, ker, none, KFields
<1>8. Other!Prepared(x) = y
  BY <1>1, <1>7 DEF Other!Prepared, g, h, n
<1>9. \A fd \in Other!Number : ker[fd] = x.want[fd]
  <2> SUFFICES ASSUME NEW fd \in Other!Number PROVE Other!Changed(h, fd) = x.want[fd]
    OBVIOUS
  <2>1. h.open = x.open
    BY <1>5 DEF Framed
  <2>2. CASE fd \notin x.open
    BY <1>1, <2>1, <2>2 DEF Other!Changed
  <2>3. CASE fd \in x.open
    <3>1. Other!Changed(h, fd) = Resulting(x, fd)
      BY <1>5, <2>1, <2>3 DEF Other!Changed, Resulting
    <3> QED  BY <1>1, <3>1
  <2> QED  BY <2>2, <2>3
<1>10. ker = x.want
  BY <1>1, <1>9 DEF DirsOf
<1>11. /\ none \in ChangeKinds
       /\ \A fd \in Other!Number, d \in Other!Dirs : none[fd][d] = "none"
  BY DEF ChangeKinds
<1> HIDE DEF ker, none
<1>12. /\ Framed(y, x) /\ ~y.failed /\ y.kern = x.want /\ y.cl = none /\ y.size = h.size /\ y.out = h.out
       /\ y.be = "kqueue" /\ y.open = x.open
  BY <1>1, <1>5, <1>10 DEF Framed, KFields
<1> HIDE DEF y
<1>13. \A fd \in Other!Number : Resulting(y, fd) = x.want[fd] /\ (fd \notin y.open => y.kern[fd] = {})
  <2> SUFFICES ASSUME NEW fd \in Other!Number
               PROVE  Resulting(y, fd) = x.want[fd] /\ (fd \notin y.open => y.kern[fd] = {})
    OBVIOUS
  <2>1. x.want[fd] \subseteq Other!Dirs
    BY <1>1 DEF DirsOf
  <2> QED  BY <1>1, <1>11, <1>12, <2>1 DEF Resulting
<1>14. KqueueOf(y, x.want)
  BY <1>1, <1>3, <1>5, <1>11, <1>12, <1>13 DEF KqueueOf, Resulting, ChangeKinds
<1> QED  BY <1>8, <1>12, <1>14 DEF PreparedRight, Watching

\* evport: what is pending is associated again, before it waits.
LEMMA EvportPrepared ==
  ASSUME NEW x, Serves(x), x.be = "evport", x.step = "lock"
  PROVE  LET y == Other!Prepared(x)
         IN  /\ Framed(y, x) /\ ~y.failed /\ y.be = "evport"
             /\ y.kern \in DirsOf /\ y.what = x.want /\ y.size # 0
             /\ y.pend \in [1 .. GetN -> Other!Number \cup {Other!NoFd}]
             /\ y.got \in Seq(Other!Number) /\ Len(y.got) <= GetN
             /\ \A fd \in Other!Number : x.want[fd] \subseteq y.kern[fd]
<1> DEFINE again == {i \in 1 .. GetN : x.pend[i] # Other!NoFd /\ x.what[x.pend[i]] # {}}
           fds == {x.pend[i] : i \in again}
           ker == [fd \in Other!Number |-> IF fd \in fds THEN x.what[fd] ELSE x.kern[fd]]
           p == [i \in 1 .. GetN |-> IF i \in again THEN Other!NoFd ELSE x.pend[i]]
           y == [x EXCEPT !.kern = ker, !.pend = p]
<1>1. /\ DOMAIN x = KFields /\ Framed(x, x) /\ ~x.failed /\ x.want \in DirsOf /\ EvportOf(x, x.want)
      /\ x.kern \in DirsOf /\ x.what = x.want /\ x.size # 0
      /\ x.pend \in [1 .. GetN -> Other!Number \cup {Other!NoFd}]
  BY DEF Serves, Watching, Shape, Framed, EvportOf
<1>2. Other!Prepared(x) = y
  BY <1>1 DEF Other!Prepared, Other!PendingAgain, KFields
<1>3. ker \in DirsOf /\ \A fd \in Other!Number : x.want[fd] \subseteq ker[fd]
  <2>1. ASSUME NEW fd \in Other!Number
        PROVE  /\ ker[fd] = (IF fd \in fds THEN x.what[fd] ELSE x.kern[fd])
               /\ ker[fd] \in SUBSET Other!Dirs
    BY <1>1 DEF DirsOf
  <2>2. ASSUME NEW fd \in Other!Number
        PROVE  x.want[fd] \subseteq ker[fd]
    <3>1. CASE x.want[fd] \subseteq x.kern[fd]
      BY <1>1, <2>1, <3>1
    <3>2. CASE ~(x.want[fd] \subseteq x.kern[fd])
      <4>1. PICK i \in 1 .. GetN : x.pend[i] = fd
        BY <1>1, <3>2 DEF EvportOf
      <4>2. fd # Other!NoFd /\ x.what[fd] # {}
        BY <1>1, <3>2, NumberIsNat DEF Other!NoFd
      <4>3. fd \in fds
        BY <4>1, <4>2
      <4> HIDE DEF fds, ker
      <4> QED  BY <1>1, <2>1, <4>3
    <3> QED  BY <3>1, <3>2
  <2> HIDE DEF fds
  <2> QED  BY <2>1, <2>2 DEF DirsOf
<1>4. p \in [1 .. GetN -> Other!Number \cup {Other!NoFd}]
  BY <1>1
<1> HIDE DEF ker, p
<1>5. /\ Framed(y, x) /\ ~y.failed /\ y.kern = ker /\ y.what = x.want /\ y.pend = p /\ y.size # 0
      /\ y.got = x.got /\ y.be = "evport"
  BY <1>1 DEF Framed, KFields
<1> HIDE DEF y
<1> QED  BY <1>1, <1>2, <1>3, <1>4, <1>5 DEF EvportOf

-------------------------------------------------------------------------------
\* The loop waits, with what it has prepared.
LEMMA BeginKeeps ==
  ASSUME Serves(k), Other!Begin
  PROVE  BackendInvOf(k')
<1> DEFINE y == Other!Prepared(k)
           z == [y EXCEPT !.step = "waits"]
<1>1. k.step = "lock" /\ k' = z
  BY DEF Other!Begin
<1>2. Shape(k) /\ k.be \in Backends6
  BY DEF Serves, Shape
<1>3. CASE k.be # "evport"
  <2>1. PreparedRight(y, k)
    BY <1>2, <1>3, CopiesPrepared, DevpollPrepared, KqueuePrepared DEF Backends6
  <2> HIDE DEF y
  <2>2. Framed(y, k) /\ ~y.failed /\ Watching(y, k.want)
    BY <2>1 DEF PreparedRight
  <2>3. /\ DOMAIN z = KFields /\ z.want = k.want /\ z.open = k.open /\ z.failed = y.failed
        /\ z.over = y.over /\ z.size = y.size /\ z.resize = y.resize /\ z.be = y.be
        /\ (y.be # "evport" => Alike(z, y))
    BY <2>2 DEF Framed, KFields, Alike
  <2>4. y.be = k.be
    BY <2>2 DEF Framed
  <2> HIDE DEF z
  <2>5. Watching(z, z.want)
    BY <1>2, <1>3, <2>2, <2>3, <2>4, WatchesAlike
  <2>6. Shape(z) /\ ~z.over
    BY <1>2, <2>2, <2>3 DEF Shape, Framed
  <2> QED  BY <1>1, <2>5, <2>6 DEF BackendInvOf
<1>4. CASE k.be = "evport"
  <2>1. /\ Framed(y, k) /\ ~y.failed /\ y.be = "evport"
        /\ y.kern \in DirsOf /\ y.what = k.want /\ y.size # 0
        /\ y.pend \in [1 .. GetN -> Other!Number \cup {Other!NoFd}]
        /\ y.got \in Seq(Other!Number) /\ Len(y.got) <= GetN
        /\ \A fd \in Other!Number : k.want[fd] \subseteq y.kern[fd]
    BY <1>1, <1>4, EvportPrepared
  <2> HIDE DEF y
  <2>2. /\ DOMAIN z = KFields /\ z.want = k.want /\ z.open = k.open /\ z.failed = y.failed
        /\ z.over = y.over /\ z.size = y.size /\ z.resize = y.resize /\ z.be = y.be
        /\ z.kern = y.kern /\ z.what = y.what /\ z.pend = y.pend /\ z.got = y.got /\ z.step = "waits"
    BY <2>1 DEF Framed, KFields
  <2> HIDE DEF z
  <2>3. EvportOf(z, z.want)
    BY <2>1, <2>2 DEF EvportOf
  <2>4. Watching(z, z.want)
    BY <2>1, <2>2, <2>3 DEF Watching
  <2>5. Shape(z) /\ ~z.over
    BY <1>2, <2>1, <2>2 DEF Shape, Framed
  <2> QED  BY <1>1, <2>4, <2>5 DEF BackendInvOf
<1> QED  BY <1>3, <1>4

\* The kernel reports descriptors, which evport's forgets.
LEMMA ReturnKeeps ==
  ASSUME Serves(k), Other!Return
  PROVE  BackendInvOf(k')
<1>1. PICK q \in SeqOf(Other!Number, GetN) : k.step = "waits" /\ k' = Other!Returned(k, q)
  BY DEF Other!Return, Other!SeqOf, SeqOf
<1> DEFINE ker == [fd \in Other!Number |->
                     IF k.be = "evport" /\ fd \in Range(q) THEN {} ELSE k.kern[fd]]
           z == [k EXCEPT !.step = "returned", !.got = q, !.kern = ker]
<1>2. /\ Shape(k) /\ k.be \in Backends6 /\ Watching(k, k.want) /\ ~k.failed /\ ~k.over
      /\ DOMAIN k = KFields /\ k.want \in DirsOf
  BY DEF Serves, Shape
<1>3. k' = z
  BY <1>1, <1>2 DEF Other!Returned, Other!Range, Range, KFields
<1>4. q \in Seq(Other!Number) /\ Len(q) <= GetN /\ Range(q) = {q[i] : i \in 1 .. Len(q)}
  <2>1. PICK m \in 0 .. GetN : q \in [1 .. m -> Other!Number]
    BY <1>1 DEF SeqOf
  <2>2. m \in Nat /\ m <= GetN
    BY <2>1, BackendsAssumption
  <2>3. q \in Seq(Other!Number) /\ Len(q) = m /\ DOMAIN q = 1 .. m
    BY <2>1, <2>2
  <2> QED  BY <2>2, <2>3 DEF Range
<1>5. k.be \notin {"poll", "win32", "evport"} => ker = k.kern
  <2>1. k.be \notin {"poll", "win32", "evport"} => k.kern \in DirsOf
    BY <1>2 DEF Backends6, Watching, SelectOf, DevpollOf, KqueueOf
  <2> QED  BY <2>1 DEF DirsOf
<1>6. \A fd \in Other!Number :
        ker[fd] = IF k.be = "evport" /\ fd \in Range(q) THEN {} ELSE k.kern[fd]
  OBVIOUS
<1>7. k.be = "evport" => ker \in DirsOf
  <2>1. k.be = "evport" => k.kern \in DirsOf
    BY <1>2 DEF Watching, EvportOf
  <2> QED  BY <2>1 DEF DirsOf
<1> HIDE DEF ker
<1>8. /\ DOMAIN z = KFields /\ z.want = k.want /\ z.open = k.open /\ z.failed = k.failed
      /\ z.over = k.over /\ z.size = k.size /\ z.resize = k.resize /\ z.be = k.be
      /\ z.step = "returned" /\ z.got = q /\ z.kern = ker /\ z.what = k.what /\ z.pend = k.pend
  BY <1>2 DEF KFields
<1>9. k.be # "evport" => Alike(z, k)
  BY <1>2, <1>5 DEF KFields, Alike
<1> HIDE DEF z
<1>10. Shape(z) /\ ~z.over
  BY <1>2, <1>8 DEF Shape
<1>11. CASE k.be # "evport"
  <2>1. Watching(z, z.want)
    BY <1>2, <1>8, <1>9, <1>11, WatchesAlike
  <2> QED  BY <1>3, <1>10, <2>1 DEF BackendInvOf
<1>12. CASE k.be = "evport"
  <2>1. /\ EvportOf(k, k.want)
        /\ \A fd \in Other!Number : k.want[fd] \subseteq k.kern[fd]
    BY <1>1, <1>2, <1>12 DEF Watching, EvportOf
  <2>2. ASSUME NEW fd \in Other!Number
        PROVE  k.want[fd] \subseteq ker[fd] \/ \E i \in 1 .. Len(q) : q[i] = fd
    BY <1>4, <1>6, <2>1
  <2>3. EvportOf(z, z.want)
    BY <1>4, <1>7, <1>8, <1>12, <2>1, <2>2 DEF EvportOf
  <2>4. Watching(z, z.want)
    BY <1>8, <1>12, <2>3 DEF Watching
  <2> QED  BY <1>3, <1>10, <2>4 DEF BackendInvOf
<1> QED  BY <1>11, <1>12

\* What evport's kernel reported is pending from now on.
LEMMA EndKeeps ==
  ASSUME Serves(k), Other!End
  PROVE  BackendInvOf(k')
<1> DEFINE p == [i \in 1 .. GetN |-> IF i <= Len(k.got) THEN k.got[i] ELSE k.pend[i]]
           z == [k EXCEPT !.step = "lock", !.got = <<>>, !.pend = p]
<1>1. /\ Shape(k) /\ k.be \in Backends6 /\ Watching(k, k.want) /\ ~k.failed /\ ~k.over
      /\ DOMAIN k = KFields /\ k.want \in DirsOf
  BY DEF Serves, Shape
<1>2. k.step = "returned" /\ k' = z
  BY <1>1 DEF Other!End, Other!Dispatched, KFields
<1>3. \A i \in 1 .. GetN : p[i] = IF i <= Len(k.got) THEN k.got[i] ELSE k.pend[i]
  OBVIOUS
<1>4. k.be = "evport" => p \in [1 .. GetN -> Other!Number \cup {Other!NoFd}]
  <2> SUFFICES ASSUME k.be = "evport" PROVE p \in [1 .. GetN -> Other!Number \cup {Other!NoFd}]
    OBVIOUS
  <2>1. k.got \in Seq(Other!Number) /\ k.pend \in [1 .. GetN -> Other!Number \cup {Other!NoFd}]
    BY <1>1 DEF Watching, EvportOf
  <2>2. ASSUME NEW i \in 1 .. GetN, i <= Len(k.got)
        PROVE  k.got[i] \in Other!Number
    <3>1. i \in 1 .. Len(k.got)
      BY <2>1, <2>2, BackendsAssumption
    <3> QED  BY <2>1, <3>1
  <2> QED  BY <2>1, <2>2
<1> HIDE DEF p
<1>5. /\ DOMAIN z = KFields /\ z.want = k.want /\ z.open = k.open /\ z.failed = k.failed
      /\ z.over = k.over /\ z.size = k.size /\ z.resize = k.resize /\ z.be = k.be
      /\ z.step = "lock" /\ z.got = <<>> /\ z.kern = k.kern /\ z.what = k.what /\ z.pend = p
  BY <1>1 DEF KFields
<1>6. k.be # "evport" => Alike(z, k)
  BY <1>1 DEF KFields, Alike
<1> HIDE DEF z
<1>7. Shape(z) /\ ~z.over
  BY <1>1, <1>5 DEF Shape
<1>8. CASE k.be # "evport"
  <2>1. Watching(z, z.want)
    BY <1>1, <1>5, <1>6, <1>8, WatchesAlike
  <2> QED  BY <1>2, <1>7, <2>1 DEF BackendInvOf
<1>9. CASE k.be = "evport"
  <2>1. EvportOf(k, k.want)
    BY <1>1, <1>9 DEF Watching
  <2>2. k.got \in Seq(Other!Number) /\ Len(k.got) \in Nat /\ Len(k.got) <= GetN /\ GetN \in Nat
    BY <2>1, BackendsAssumption DEF EvportOf
  <2>3. ASSUME NEW fd \in Other!Number
        PROVE  k.want[fd] \subseteq k.kern[fd] \/ \E i \in 1 .. GetN : p[i] = fd
    <3>1. CASE k.want[fd] \subseteq k.kern[fd]
      BY <3>1
    <3>2. CASE ~(k.want[fd] \subseteq k.kern[fd])
      <4>1. PICK i \in 1 .. Len(k.got) : k.got[i] = fd
        BY <1>2, <2>1, <3>2 DEF EvportOf
      <4>2. i \in 1 .. GetN /\ i <= Len(k.got)
        BY <2>2, <4>1
      <4> QED  BY <1>3, <4>1, <4>2
    <3> QED  BY <3>1, <3>2
  <2>4. EvportOf(z, z.want)
    <3>1. <<>> \in Seq(Other!Number) /\ Len(<<>>) <= GetN
      BY <2>2
    <3> QED  BY <1>4, <1>5, <1>9, <2>1, <2>3, <3>1 DEF EvportOf
  <2>5. Watching(z, z.want)
    BY <1>5, <1>9, <2>4 DEF Watching
  <2> QED  BY <1>2, <1>7, <2>5 DEF BackendInvOf
<1> QED  BY <1>8, <1>9


\* A descriptor that nobody wants is closed.
LEMMA CloseKeeps ==
  ASSUME Serves(k), NEW fd \in Other!Number, Other!Close(fd)
  PROVE  BackendInvOf(k')
<1> DEFINE ker == [k.kern EXCEPT ![fd] = {}]
           op == k.open \ {fd}
           z == [k EXCEPT !.open = op, !.kern = ker]
<1>1. /\ Shape(k) /\ k.be \in Backends6 /\ Watching(k, k.want) /\ ~k.failed /\ ~k.over
      /\ DOMAIN k = KFields /\ k.want \in DirsOf /\ k.open \in SUBSET Other!Number
  BY DEF Serves, Shape
<1>2. k.want[fd] = {} /\ fd \in k.open /\ k.be \in {"kqueue", "devpoll", "evport"}
      /\ k' = [k EXCEPT !.open = @ \ {fd}, !.kern[fd] = {}]
  BY DEF Other!Close
<1>3. k' = z
  BY <1>1, <1>2 DEF KFields
<1>4. k.kern \in DirsOf
  BY <1>1, <1>2 DEF Watching, DevpollOf, KqueueOf, EvportOf
<1>5. ker \in DirsOf /\ ker[fd] = {} /\ \A o \in Other!Number \ {fd} : ker[o] = k.kern[o]
  BY <1>4 DEF DirsOf
<1>6. op \in SUBSET Other!Number /\ \A o \in Other!Number : o \notin op => o = fd \/ o \notin k.open
  BY <1>1
<1> HIDE DEF ker, op
<1>7. /\ DOMAIN z = KFields /\ z.want = k.want /\ z.open = op /\ z.failed = k.failed
      /\ z.over = k.over /\ z.size = k.size /\ z.resize = k.resize /\ z.be = k.be /\ z.out = k.out
      /\ z.step = k.step /\ z.got = k.got /\ z.kern = ker /\ z.what = k.what /\ z.pend = k.pend
      /\ z.cl = k.cl /\ z.changes = k.changes
  BY <1>1 DEF KFields
<1> HIDE DEF z
<1>8. Shape(z) /\ ~z.over
  BY <1>1, <1>6, <1>7 DEF Shape
<1>9. CASE k.be = "devpoll"
  <2>1. DevpollOf(k, k.want)
    BY <1>1, <1>9 DEF Watching
  <2>2. Other!Written(ker, k.changes) = k.want
    BY <1>2, <1>4, <2>1, WrittenWithout DEF DevpollOf, ker
  <2>3. DevpollOf(z, z.want)
    BY <1>5, <1>7, <2>1, <2>2 DEF DevpollOf
  <2> QED  BY <1>3, <1>7, <1>8, <1>9, <2>3 DEF Watching, BackendInvOf
<1>10. CASE k.be = "kqueue"
  <2>1. KqueueOf(k, k.want)
    BY <1>1, <1>10 DEF Watching
  <2>2. ASSUME NEW o \in Other!Number
        PROVE  Resulting(z, o) = k.want[o] /\ (o \notin z.open => k.want[o] = {} /\ z.kern[o] = {})
    <3>1. Resulting(k, o) = k.want[o] /\ (o \notin k.open => k.want[o] = {} /\ k.kern[o] = {})
      BY <2>1 DEF KqueueOf, Resulting
    <3>2. CASE o # fd
      <4>1. ker[o] = k.kern[o] /\ (o \in op <=> o \in k.open)
        BY <1>5, <3>2 DEF op
      <4> QED  BY <1>7, <3>1, <4>1 DEF Resulting
    <3>3. CASE o = fd
      BY <1>2, <1>5, <1>7, <3>1, <3>3 DEF Resulting
    <3> QED  BY <3>2, <3>3
  <2>3. KqueueOf(z, z.want)
    BY <1>5, <1>7, <2>1, <2>2 DEF KqueueOf, Resulting
  <2> QED  BY <1>3, <1>7, <1>8, <1>10, <2>3 DEF Watching, BackendInvOf
<1>11. CASE k.be = "evport"
  <2>1. EvportOf(k, k.want)
    BY <1>1, <1>11 DEF Watching
  <2>2. ASSUME NEW o \in Other!Number
        PROVE  k.want[o] \subseteq k.kern[o] => k.want[o] \subseteq ker[o]
    BY <1>2, <1>5
  <2>3. EvportOf(z, z.want)
    BY <1>5, <1>7, <2>1, <2>2 DEF EvportOf
  <2> QED  BY <1>3, <1>7, <1>8, <1>11, <2>3 DEF Watching, BackendInvOf
<1> QED  BY <1>2, <1>9, <1>10, <1>11

\* Its number is used again.
LEMMA ReopenKeeps ==
  ASSUME Serves(k), NEW fd \in Other!Number, Other!Reopen(fd)
  PROVE  BackendInvOf(k')
<1> DEFINE op == k.open \cup {fd}
           z == [k EXCEPT !.open = op]
<1>1. /\ Shape(k) /\ k.be \in Backends6 /\ Watching(k, k.want) /\ ~k.failed /\ ~k.over
      /\ DOMAIN k = KFields /\ k.want \in DirsOf /\ k.open \in SUBSET Other!Number
  BY DEF Serves, Shape
<1>2. k' = z
  BY <1>1 DEF Other!Reopen, KFields
<1>3. op \in SUBSET Other!Number /\ k.open \subseteq op
  BY <1>1
<1> HIDE DEF op
<1>4. /\ DOMAIN z = KFields /\ z.want = k.want /\ z.open = op /\ z.failed = k.failed
      /\ z.over = k.over /\ z.size = k.size /\ z.resize = k.resize /\ z.be = k.be /\ z.out = k.out
      /\ z.kern = k.kern /\ z.cl = k.cl
      /\ (k.be # "kqueue" => Alike(z, k))
  BY <1>1 DEF KFields, Alike
<1> HIDE DEF z
<1>5. Shape(z) /\ ~z.over
  BY <1>1, <1>3, <1>4 DEF Shape
<1>6. CASE k.be # "kqueue"
  <2>1. Watching(z, z.want)
    BY <1>1, <1>4, <1>6, WatchesAlike
  <2> QED  BY <1>2, <1>5, <2>1 DEF BackendInvOf
<1>7. CASE k.be = "kqueue"
  <2>1. KqueueOf(k, k.want)
    BY <1>1, <1>7 DEF Watching
  <2>2. KqueueOf(z, z.want)
    BY <1>3, <1>4, <2>1 DEF KqueueOf
  <2> QED  BY <1>2, <1>4, <1>5, <1>7, <2>2 DEF Watching, BackendInvOf
<1> QED  BY <1>6, <1>7

-------------------------------------------------------------------------------
\* A new backend watches nothing.
LEMMA NewBackendRight ==
  ASSUME NEW name \in Backends6
  PROVE  BackendInvOf(Other!NewBackend(name))
<1> DEFINE x == Other!NewBackend(name)
           none == [fd \in Other!Number |-> [d \in Other!Dirs |-> "none"]]
<1>1. /\ DOMAIN x = KFields /\ x.be = name /\ x.want = Other!Nothing /\ x.kern = Other!Nothing
      /\ x.open = Other!Number /\ x.set = <<>> /\ x.pos = [fd \in Other!Number |-> 0]
      /\ x.rw = [d \in Other!Dirs |-> <<>>]
      /\ x.rwpos = [d \in Other!Dirs |-> [fd \in Other!Number |-> 0]] /\ x.high = 0
      /\ x.changes = <<>> /\ x.cl = none /\ x.what = Other!Nothing
      /\ x.pend = [i \in 1 .. GetN |-> Other!NoFd]
      /\ x.size = (IF name = "poll" THEN 0 ELSE Room)
      /\ x.out = (IF name \in {"poll", "select"} THEN 0 ELSE Room)
      /\ x.resize = (name = "select") /\ x.step = "lock" /\ x.got = <<>>
      /\ x.failed = FALSE /\ x.over = FALSE
  BY DEF Other!NewBackend, KFields
<1> HIDE DEF x
<1>2. Other!Nothing \in DirsOf /\ \A fd \in Other!Number : Other!Nothing[fd] = {}
  BY DEF Other!Nothing, DirsOf
<1>3. Room \in Nat \ {0} /\ GetN \in Nat /\ 0 \in Other!Number
  BY BackendsAssumption DEF Other!Number
<1>4. x.size \in Nat /\ x.out \in Nat /\ (name # "poll" => x.size # 0)
  BY <1>1, <1>3
<1>5. Shape(x) /\ ~x.over
  BY <1>1, <1>2, <1>4 DEF Shape
<1>6. CASE name = "poll"
  <2>1. <<>> \in Seq(FdDirs) /\ Len(<<>>) = 0
    OBVIOUS
  <2>2. PollOf(x, x.want)
    BY <1>1, <1>2, <1>6, <2>1 DEF PollOf
  <2> QED  BY <1>1, <1>5, <1>6, <2>2 DEF Watching, BackendInvOf, x
<1>7. CASE name = "select"
  <2>1. SelectOf(x, x.want)
    <3>1. x.kern = x.want /\ x.high = 0 /\ x.size = Room /\ x.resize
      BY <1>1, <1>7
    <3>2. \A fd \in Other!Number : x.want[fd] = {}
      BY <1>1, <1>2
    <3> QED  BY <1>3, <3>1, <3>2 DEF SelectOf
  <2> QED  BY <1>1, <1>5, <1>7, <2>1 DEF Watching, BackendInvOf, x
<1>8. CASE name = "win32"
  <2>1. \A d \in Other!Dirs : ByDir(x.want)[d] = {}
    BY <1>1, <1>2 DEF ByDir
  <2>2. ASSUME NEW d \in Other!Dirs
        PROVE  PlacesOf(x, d, {})
    <3>1. <<>> \in Seq(Other!Number) /\ Len(<<>>) = 0
      OBVIOUS
    <3>2. x.rw[d] = <<>> /\ x.rwpos[d] = [fd \in Other!Number |-> 0]
      BY <1>1
    <3> QED  BY <1>4, <3>1, <3>2 DEF PlacesOf
  <2>3. x.rw \in [Other!Dirs -> Seq(Other!Number)]
    BY <1>1
  <2>4. x.rwpos \in [Other!Dirs -> [Other!Number -> Nat]]
    BY <1>1
  <2>5. Win32At(x, ByDir(x.want))
    BY <1>1, <1>4, <1>8, <2>1, <2>2, <2>3, <2>4 DEF Win32At
  <2> QED  BY <1>1, <1>5, <1>8, <2>5 DEF Watching, BackendInvOf, Win32Of, x
<1>9. CASE name = "devpoll"
  <2>1. <<>> \in Seq(FdDirs)
    OBVIOUS
  <2>2. [fd |-> 0, ev |-> {}] \in FdDirs
    BY <1>3 DEF FdDirs
  <2>3. Other!Written(Other!Nothing, <<>>) = Other!Nothing
    BY <1>2, <2>1, <2>2, WrittenAppend
  <2>4. DevpollOf(x, x.want)
    BY <1>1, <1>2, <2>1, <2>3 DEF DevpollOf
  <2> QED  BY <1>1, <1>5, <1>9, <2>4 DEF Watching, BackendInvOf, x
<1>10. CASE name = "kqueue"
  <2>1. none \in ChangeKinds /\ \A fd \in Other!Number, d \in Other!Dirs : none[fd][d] = "none"
    BY DEF ChangeKinds
  <2> HIDE DEF none
  <2>2. ASSUME NEW fd \in Other!Number
        PROVE  /\ Resulting(x, fd) = {}
               /\ fd \in x.open
    BY <1>1, <1>2, <2>1 DEF Resulting
  <2>3. KqueueOf(x, x.want)
    BY <1>1, <1>2, <1>3, <1>4, <1>10, <2>1, <2>2 DEF KqueueOf, Resulting, ChangeKinds
  <2> QED  BY <1>1, <1>5, <1>10, <2>3 DEF Watching, BackendInvOf, x
<1>11. CASE name = "evport"
  <2>1. <<>> \in Seq(Other!Number) /\ Len(<<>>) <= GetN
    BY <1>3
  <2>2. x.pend \in [1 .. GetN -> Other!Number \cup {Other!NoFd}]
    BY <1>1
  <2>3. EvportOf(x, x.want)
    BY <1>1, <1>2, <1>4, <1>11, <2>1, <2>2 DEF EvportOf
  <2> QED  BY <1>1, <1>5, <1>11, <2>3 DEF Watching, BackendInvOf, x
<1> QED  BY <1>6, <1>7, <1>8, <1>9, <1>10, <1>11 DEF Backends6, x

LEMMA BackendInit == MCInit => BackendInv
<1> SUFFICES ASSUME MCInit PROVE BackendInv
  OBVIOUS
<1>1. CASE part = "epoll"
  <2>1. k = Other!NewBackend("poll") /\ "poll" \in Backends6
    BY <1>1 DEF MCInit, Backends6
  <2> QED  BY <2>1, NewBackendRight DEF BackendInv
<1>2. CASE part = "other"
  <2>1. PICK name \in Names : k = Other!NewBackend(name)
    BY <1>2 DEF MCInit, Other!Init
  <2>2. name \in Backends6
    BY BackendsAssumption DEF Backends6
  <2> QED  BY <2>1, <2>2, NewBackendRight DEF BackendInv
<1> QED  BY <1>1, <1>2, BackendsAssumption DEF MCInit

LEMMA BackendStep == BackendInv /\ [MCNext]_mcVars => BackendInv'
<1> SUFFICES ASSUME BackendInv, [MCNext]_mcVars PROVE BackendInvOf(k')
  BY DEF BackendInv
<1>1. CASE UNCHANGED k
  BY <1>1 DEF BackendInv
<1>2. CASE Other!Next
  <2>1. Serves(k)
    BY <1>2 DEF Other!Next, BackendInv, BackendInvOf, Serves
  <2>2. ASSUME NEW fd \in Other!Number, NEW E \in SUBSET Other!Dirs,
               Other!Evadd(fd, E) \/ Other!Evdel(fd, E)
        PROVE  BackendInvOf(k')
    BY <2>1, <2>2, EvaddKeeps, EvdelKeeps
  <2>3. ASSUME NEW fd \in Other!Number, Other!Close(fd) \/ Other!Reopen(fd)
        PROVE  BackendInvOf(k')
    BY <2>1, <2>3, CloseKeeps, ReopenKeeps
  <2>4. ASSUME Other!Begin \/ Other!Return \/ Other!End
        PROVE  BackendInvOf(k')
    BY <2>1, <2>4, BeginKeeps, ReturnKeeps, EndKeeps
  <2>5. Other!Used \subseteq Other!Number
    BY DEF Other!Used
  <2> QED  BY <1>2, <2>2, <2>3, <2>4, <2>5 DEF Other!Next
<1>3. UNCHANGED k \/ Other!Next
  BY DEF MCNext, mcVars
<1> QED  BY <1>1, <1>2, <1>3

\* The invariant says what is promised of each backend.
LEMMA InvRight == BackendInv => BackendRight
<1> SUFFICES ASSUME BackendInv PROVE Other!BackendRight
  BY DEF BackendRight
<1>1. ~k.over /\ k.be \in Backends6
  BY DEF BackendInv, BackendInvOf, Shape
<1>2. CASE k.failed
  BY <1>1, <1>2 DEF Other!BackendRight
<1>3. CASE ~k.failed
  <2>1. Watching(k, k.want) /\ k.want \in DirsOf /\ k.open \in SUBSET Other!Number
    BY <1>3 DEF BackendInv, BackendInvOf, Shape
  <2>2. CASE k.be = "poll"
    <3>1. PollOf(k, k.want)
      BY <2>1, <2>2 DEF Watching
    <3>2. Len(k.set) = Other!Cardinality({fd \in Other!Number : k.pos[fd] > 0}) /\ Len(k.set) <= k.size
      <4>1. Len(k.set) = Cardinality({fd \in Other!Number : k.pos[fd] > 0})
        BY <3>1, PollCount
      <4>2. Len(k.set) <= k.size
        BY <3>1 DEF PollOf
      <4> QED  BY <4>1, <4>2 DEF Other!Cardinality, Cardinality
    <3>3. ASSUME NEW fd \in Other!Number, k.pos[fd] > 0
          PROVE  k.set[k.pos[fd]] = [fd |-> fd, ev |-> k.want[fd]]
      <4>1. k.pos[fd] \in 1 .. Len(k.set) /\ \A i \in 1 .. Len(k.set) : k.set[i] \in FdDirs
        BY <3>1, <3>3, PollEntries
      <4>2. k.set[k.pos[fd]] \in FdDirs /\ k.set[k.pos[fd]].fd = fd /\ k.set[k.pos[fd]].ev = k.want[fd]
        BY <3>1, <3>3, <4>1 DEF PollOf
      <4> QED  BY <4>2 DEF FdDirs
    <3>4. Other!IndexesRight(k)
      BY <3>1, <3>2, <3>3 DEF PollOf, Other!IndexesRight
    <3> QED  BY <1>1, <2>2, <3>4 DEF Other!BackendRight
  <2>3. CASE k.be = "win32"
    <3> SUFFICES Other!PlacesRight(k)
      BY <1>1, <2>3 DEF Other!BackendRight
    <3> SUFFICES ASSUME NEW d \in Other!Dirs
                 PROVE  /\ \A fd \in Other!Number : d \in k.want[fd] <=> k.rwpos[d][fd] > 0
                        /\ \A fd \in Other!Number :
                             k.rwpos[d][fd] > 0 => k.rw[d][k.rwpos[d][fd]] = fd
                        /\ Len(k.rw[d]) = Other!Cardinality({fd \in Other!Number : d \in k.want[fd]})
                        /\ Len(k.rw[d]) <= k.size
      BY DEF Other!PlacesRight
    <3> DEFINE W == {fd \in Other!Number : d \in k.want[fd]}
    <3>1. PlacesOf(k, d, W) /\ W \in SUBSET Other!Number
      BY <2>1, <2>3 DEF Watching, Win32Of, Win32At, ByDir
    <3>2. Len(k.rw[d]) = Other!Cardinality(W)
      BY <3>1, PlacesCount DEF Other!Cardinality, Cardinality
    <3> QED  BY <3>1, <3>2 DEF PlacesOf
  <2>4. CASE k.be = "select"
    BY <1>1, <2>1, <2>4 DEF Watching, SelectOf, Other!BackendRight
  <2>5. CASE k.be = "devpoll"
    BY <1>1, <2>1, <2>5 DEF Watching, DevpollOf, Other!BackendRight
  <2>6. CASE k.be = "kqueue"
    BY <1>1, <2>1, <2>6 DEF Watching, KqueueOf, Other!Changed, Other!BackendRight
  <2>7. CASE k.be = "evport"
    <3>1. EvportOf(k, k.want) /\ DOMAIN k.got = 1 .. Len(k.got)
      BY <2>1, <2>7 DEF Watching, EvportOf
    <3> QED  BY <1>1, <2>1, <2>7, <3>1 DEF EvportOf, Other!Forgotten, Other!BackendRight
  <2> QED  BY <1>1, <2>2, <2>3, <2>4, <2>5, <2>6, <2>7 DEF Backends6
<1> QED  BY <1>2, <1>3

\* poll, select, kqueue, devpoll, evport and win32select: whatever is added,
\* deleted, closed and opened again, and whenever, the backend watches every
\* descriptor for the directions that are wanted, as soon as what it has queued
\* is handed over, and no array is too short, unless a deletion has failed.
THEOREM BackendRightHolds == MCSpec => []BackendRight
<1>1. MCInit => BackendInv
  BY BackendInit
<1>2. BackendInv /\ [MCNext]_mcVars => BackendInv'
  BY BackendStep
<1>3. BackendInv => BackendRight
  BY InvRight
<1> QED  BY <1>1, <1>2, <1>3, PTL DEF MCSpec
===============================================================================
