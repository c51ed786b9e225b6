-------------------------------- MODULE MCStreams --------------------------------
(***************************************************************************)
(* Parts of a world of bufferevents: a socket, two sockets of a group, a   *)
(* pair, a filter on a socket; or one bufferevent with SSL.                *)
(***************************************************************************)
EXTENDS BevSocket

CONSTANTS Parts, s0, s1, s2, p1, p2, f, below, MaxRecords, OHigh, SslMay

VARIABLES part, o
mcVars == <<part, w, o>>

Ssl == INSTANCE BevOpenssl

Kinds == [b \in Bev |-> CASE b \in {p1, p2} -> "pair" [] b = f -> "filter" [] OTHER -> "socket"]
Links == [b \in Bev |-> CASE b = p1 -> p2 [] b = p2 -> p1 [] b = f -> below [] OTHER -> NoBev]

In == [socket |-> {s0}, limit |-> {s0}, group |-> {s1, s2}, pair |-> {p1, p2}, filter |-> {f, below}]

Configurations == <<[rate |-> 1, max |-> 1], [rate |-> 1, max |-> 2]>>
Mark(l, h) == [low |-> l, high |-> h]
ReadMarks  == {Mark(0, 0), Mark(0, 1), Mark(2, 2)}
WriteMarks == {Mark(0, 0), Mark(1, 0)}

\* What happens in a behaviour: the part, the options and the operations.
Use(p, opt, fd, may) ==
  [p |-> p, opt |-> opt, fd |-> fd, closes |-> FALSE, mark |-> NoMark, may |-> may]

Uses ==
  { Use("socket", "now", TRUE, {"end", "toggle", "write", "marks", "low", "free", "setcb"}),
    Use("socket", "locked", TRUE, {"end", "toggle", "write", "marks", "free"}),
    Use("socket", "unlocked", TRUE, {"end", "write", "free", "setcb"}),
    Use("socket", "now", FALSE, {"end", "toggle", "write", "connect", "timeouts", "disable_hard", "free"}),
    Use("socket", "locked", FALSE, {"end", "toggle", "connect", "free"}),
    Use("pair", "locked", TRUE, {"toggle", "write"}),
    Use("pair", "locked", TRUE, {"write", "marks"}),
    Use("pair", "locked", TRUE, {"write", "flush", "free"}),
    Use("pair", "locked", TRUE, {"write", "timeouts"}),
    Use("pair", "unlocked", TRUE, {"write", "free"}),
    Use("filter", "now", TRUE, {"end", "toggle", "write", "marks", "low", "free", "timeouts"}),
    [Use("filter", "now", TRUE, {"toggle", "write", "flush", "free"}) EXCEPT !.mark = Mark(0, 1)],
    Use("filter", "locked", TRUE, {"toggle", "write", "free"}),
    [Use("filter", "locked", TRUE, {"toggle", "write", "free"}) EXCEPT !.closes = TRUE],
    [Use("filter", "now", TRUE, {"write", "free", "free_both"}) EXCEPT !.closes = TRUE],
    Use("limit", "now", TRUE, {"end", "write"}),
    Use("group", "now", TRUE, {"join"}),
    Use("group", "now", TRUE, {"write"}),
    Use("group", "now", TRUE, {"configure"}) }

\* Who does not change it has enabled reading, or is to be flushed.
Enabled(use) == IF use.may \cap {"toggle", "flush"} = {} THEN Dirs ELSE {"w"}

Start(use) ==
  [b \in Bev |->
     IF b \notin In[use.p] THEN [NewBev EXCEPT !.life = "freed", !.user = FALSE, !.ref = 0]
     ELSE CASE use.p = "socket" -> [NewBev EXCEPT !.fd = use.fd, !.opt = use.opt,
                                                  !.en = Enabled(use), !.ev = Enabled(use)]
            [] use.p = "limit" -> [NewBev EXCEPT !.en = Dirs, !.ev = Dirs]
            [] use.p = "group" -> [NewBev EXCEPT !.group = TRUE, !.en = Dirs, !.ev = Dirs]
            [] use.p = "pair" -> [NewBev EXCEPT !.opt = use.opt, !.en = Enabled(use),
                                                !.tmo = "timeouts" \in use.may]
            [] b = f -> [NewBev EXCEPT !.opt = use.opt, !.closes = use.closes]
            [] b = below -> [NewBev EXCEPT !.cb = "filter", !.ref = 2, !.en = Dirs,
                                           !.ev = {"w"}, !.sus["r"] = {"FILT_READ"},
                                           !.wm = use.mark, !.opt = use.opt]]

\* Members of the group, and partners, are alike.
Alike == Permutations({s1, s2}) \cup Permutations({p1, p2})

InitStreams ==
  \E use \in Uses, members \in {<<s1, s2>>, <<s2, s1>>} :
    /\ use.p \in Parts /\ part = use.p /\ o = Ssl!NewSsl("socket", "handshake")
    /\ w = [bev |-> Start(use), may |-> use.may,
            grp |-> [NewGroup EXCEPT !.members = IF use.p = "group" THEN members ELSE <<>>],
            adding |-> [bev |-> NoBev, sus |-> [d \in Dirs |-> FALSE]], falseEof |-> FALSE]

NoStreams ==
  [bev |-> [b \in Bev |-> [NewBev EXCEPT !.life = "freed", !.user = FALSE, !.ref = 0]],
   may |-> {}, grp |-> NewGroup,
   adding |-> [bev |-> NoBev, sus |-> [d \in Dirs |-> FALSE]], falseEof |-> FALSE]

Init == InitStreams \/ ("ssl" \in Parts /\ part = "ssl" /\ w = NoStreams /\ Ssl!Init)

Only(p) == part = p /\ UNCHANGED <<part, o>>

SocketPart ==
  Only("socket") /\ (Loop(s0) \/ User(s0) \/ Frees(s0) \/ (May("connect") /\ Usable(s0) /\ Connect(s0)))
PairPart   == Only("pair") /\ \E b \in {p1, p2} : Loop(b) \/ User(b) \/ Frees(b)
FilterPart == Only("filter") /\ \E b \in {f, below} : Loop(b) \/ User(b) \/ Frees(b)
LimitPart  ==
  /\ Only("limit") /\ InBounds
  /\ \/ Loop(s0) \/ EnablesOrDisables(s0) \/ Transfers(s0) \/ Limit(s0)
     \/ \E n \in {0, 1, 2} : Refill(s0, n)
GroupPart  ==
  /\ Only("group") /\ InBounds
  /\ \/ \E b \in {s1, s2} : Loop(b) \/ (Usable(b) /\ (Transfers(b) \/ (May("join") /\ Join(b))))
     \/ \E n \in {0, 1, 2}, busy \in BusySets : GroupRefill(n, busy)
     \/ Joined
     \/ May("configure") /\ Group

SslPart == part = "ssl" /\ Ssl!Next /\ UNCHANGED <<part, w>>

Next == SocketPart \/ PairPart \/ FilterPart \/ LimitPart \/ GroupPart \/ SslPart
Spec == Init /\ [][Next]_mcVars
-------------------------------------------------------------------------------
SslProceeds == Ssl!SslProceeds
NoBusyLoop  == Ssl!NoBusyLoop
SslKeepsUp  == Ssl!SslKeepsUp
===============================================================================
