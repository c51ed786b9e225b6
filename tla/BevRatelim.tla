------------------------------- MODULE BevRatelim -------------------------------
(***************************************************************************)
(* bufferevent_ratelim.c: the token bucket of a bufferevent and of a group.*)
(* Time is the number of ticks n since a bucket was last updated.  busy    *)
(* are the members of the group whose lock another thread has.             *)
(***************************************************************************)
EXTENDS Bufferevent

CONSTANTS
  Rates,      \* the configurations [rate, max] for both directions, by number
  GroupRate,  \* the number of the configuration of the group
  MinShares   \* what the user may configure as the least share of a member

\* C division rounds towards 0.
CDiv(a, b) == IF a >= 0 THEN a \div b ELSE -((-a) \div b)

\* The difference is unsigned: a bucket above its maximum goes on growing.
ev_token_bucket_update(lim, c, n) ==
  IF n = 0 THEN lim
  ELSE [d \in Dirs |-> IF lim[d] <= Rates[c].max /\ (Rates[c].max - lim[d]) \div n < Rates[c].rate
                         THEN Rates[c].max ELSE lim[d] + n * Rates[c].rate]

Clip(lim, c) == [d \in Dirs |-> Least(lim[d], Rates[c].max)]
Fresh(c) == [d \in Dirs |-> Rates[c].rate]

NewGroup == [lim |-> Fresh(GroupRate), cfg |-> GroupRate, sus |-> [d \in Dirs |-> FALSE],
             pend |-> [d \in Dirs |-> FALSE], members |-> <<>>,
             share |-> 64, min |-> Least(64, Rates[GroupRate].rate)]

\* The members whose lock nobody else has, in turn.
EachMember(Op(_, _), x, busy) ==
  LET q == x.grp.members
      each[k \in 0 .. Len(q)] ==
        IF k = 0 THEN x ELSE IF q[k] \in busy THEN each[k - 1] ELSE Op(each[k - 1], q[k])
  IN  each[Len(q)]

bufferevent_update_buckets(x, b, n) ==
  IF x.bev[b].cfg = 0 THEN x
  ELSE [x EXCEPT !.bev[b].lim = ev_token_bucket_update(@, x.bev[b].cfg, n)]

\* _bufferevent_get_rlim_max after the bucket was updated: Own is for the
\* bufferevent, a member of a group that is suspended finds it out here.
Share(x, d) ==
  LET s == CDiv(x.grp.lim[d], Len(x.grp.members))
  IN  IF s < x.grp.min THEN x.grp.min ELSE s

MaxToMove(x, b, d, ever) ==
  LET own == IF x.bev[b].cfg # 0 THEN x.bev[b].lim[d] ELSE ever
      all == IF x.bev[b].group
               THEN Least(own, IF x.grp.sus[d] THEN 0 ELSE Share(x, d)) ELSE own
  IN  IF all < 0 THEN 0 ELSE all

FindSuspended(x, b, d) ==
  IF x.bev[b].group /\ x.grp.sus[d] THEN suspend(x, b, d, "BW_GROUP") ELSE x

-------------------------------------------------------------------------------
\* _bev_group_suspend_reading, _bev_group_suspend_writing.
GroupSuspend(x, d, busy) ==
  LET One(y, m) == suspend(y, m, d, "BW_GROUP")
  IN  EachMember(One, [x EXCEPT !.grp.sus[d] = TRUE, !.grp.pend[d] = FALSE], busy)

\* Mutant of GroupUnsuspend: a member that is busy is forgotten.
UnsuspendOnce(x, d, busy) ==
  LET One(y, m) == unsuspend(y, m, d, "BW_GROUP")
  IN  EachMember(One, [x EXCEPT !.grp.sus[d] = FALSE, !.grp.pend[d] = FALSE], busy)

\* _bev_group_unsuspend_reading, _bev_group_unsuspend_writing; members do not
\* disturb each other, so that their random order does not matter.
GroupUnsuspend(x, d, busy) ==
  LET One(y, m) == unsuspend(y, m, d, "BW_GROUP")
      again == \E k \in DOMAIN x.grp.members : x.grp.members[k] \in busy
  IN  EachMember(One, [x EXCEPT !.grp.sus[d] = FALSE, !.grp.pend[d] = again], busy)

Other(d) == IF d = "r" THEN "w" ELSE "r"

\* _bufferevent_decrement_read_buckets, _bufferevent_decrement_write_buckets.
OwnSpent(x, b, d) ==
  IF x.bev[b].lim[d] <= 0 THEN [suspend(x, b, d, "BW") EXCEPT !.bev[b].refill = TRUE]
  ELSE IF "BW" \notin x.bev[b].sus[d] THEN x
  ELSE unsuspend([x EXCEPT !.bev[b].refill = @ /\ "BW" \in x.bev[b].sus[Other(d)]], b, d, "BW")

GroupSpent(x, d, busy) ==
  IF x.grp.lim[d] <= 0 THEN GroupSuspend(x, d, busy)
  ELSE IF x.grp.sus[d] THEN GroupUnsuspend(x, d, busy) ELSE x

DecrementOwn(x, b, d, n) ==
  IF x.bev[b].cfg = 0 THEN x ELSE OwnSpent([x EXCEPT !.bev[b].lim[d] = @ - n], b, d)

DecrementShared(x, b, d, n, busy) ==
  IF x.bev[b].group THEN GroupSpent([x EXCEPT !.grp.lim[d] = @ - n], d, busy) ELSE x

DecrementBuckets(x, b, d, n, busy) == DecrementShared(DecrementOwn(x, b, d, n), b, d, n, busy)

RefillOne(x, b, d) ==
  IF "BW" \in x.bev[b].sus[d] /\ x.bev[b].lim[d] > 0 THEN unsuspend(x, b, d, "BW") ELSE x

\* The timer is added again while something is suspended.
RefillAgain(x, b) == [x EXCEPT !.bev[b].refill = \E d \in Dirs : "BW" \in x.bev[b].sus[d]]

_bev_refill_callback(x, b, n) ==
  IF x.bev[b].cfg = 0 THEN [x EXCEPT !.bev[b].refill = FALSE]
  ELSE RefillAgain(RefillOne(RefillOne(bufferevent_update_buckets(x, b, n), b, "r"), b, "w"), b)

GroupRefillOne(x, d, busy) ==
  IF x.grp.pend[d] \/ (x.grp.sus[d] /\ x.grp.lim[d] >= x.grp.min)
    THEN GroupUnsuspend(x, d, busy) ELSE x

_bev_group_refill_callback(x, n, busy) ==
  GroupRefillOne(GroupRefillOne(
    [x EXCEPT !.grp.lim = ev_token_bucket_update(@, x.grp.cfg, n)], "r", busy), "w", busy)

\* c = 0 is NULL.
LimitOne(x, b, d) ==
  IF x.bev[b].lim[d] > 0 THEN unsuspend(x, b, d, "BW") ELSE suspend(x, b, d, "BW")

LimitOff(x, b) == unsuspend(unsuspend(x, b, "r", "BW"), b, "w", "BW")

bufferevent_set_rate_limit(x, b, c) ==
  IF c = 0 THEN LimitOff([x EXCEPT !.bev[b].cfg = 0, !.bev[b].refill = FALSE], b)
  ELSE IF c = x.bev[b].cfg THEN x
  ELSE RefillAgain(LimitOne(LimitOne(
         [x EXCEPT !.bev[b].cfg = c,
                   !.bev[b].lim = IF x.bev[b].cfg # 0 THEN Clip(@, c) ELSE Fresh(c)],
         b, "r"), b, "w"), b)

bufferevent_rate_limit_group_set_min_share(x, n) ==
  [x EXCEPT !.grp.share = n, !.grp.min = Least(n, Rates[x.grp.cfg].rate)]

bufferevent_rate_limit_group_set_cfg(x, c) ==
  bufferevent_rate_limit_group_set_min_share(
    [x EXCEPT !.grp.cfg = c, !.grp.lim = Clip(@, c)], x.grp.share)

\* bufferevent_add_to_rate_limit_group up to UNLOCK_GROUP: what it has read of
\* the group is used after it, while the lock of the bufferevent is held.
AddToGroup(x, b) ==
  [x EXCEPT !.bev[b].group = TRUE, !.grp.members = Append(@, b),
            !.adding = [bev |-> b, sus |-> x.grp.sus]]

AddedOne(x, d) == IF x.adding.sus[d] THEN suspend(x, x.adding.bev, d, "BW_GROUP") ELSE x
AddedToGroup(x) == [AddedOne(AddedOne(x, "r"), "w") EXCEPT !.adding.bev = NoBev]

LeftGroup(x, b) == unsuspend(unsuspend(x, b, "r", "BW_GROUP"), b, "w", "BW_GROUP")

bufferevent_remove_from_rate_limit_group(x, b) ==
  LeftGroup([x EXCEPT !.bev[b].group = FALSE,
                      !.grp.members = RemoveFirst(@, b)], b)

OwnCrossed(x, b, d) ==
  IF x.bev[b].lim[d] <= 0 THEN [suspend(x, b, d, "BW") EXCEPT !.bev[b].refill = TRUE]
  ELSE unsuspend([x EXCEPT !.bev[b].refill = @ /\ "BW" \in x.bev[b].sus[Other(d)]], b, d, "BW")

\* bufferevent_decrement_read_limit, bufferevent_decrement_write_limit: n may
\* be negative.
DecrementLimit(x, b, d, n) ==
  LET old == x.bev[b].lim[d]
      y == [x EXCEPT !.bev[b].lim[d] = @ - n]
  IN  IF (old > 0) = (old - n > 0) THEN y ELSE OwnCrossed(y, b, d)

\* bufferevent_rate_limit_group_decrement_read, .._write.
DecrementGroup(x, d, n, busy) ==
  LET old == x.grp.lim[d]
      y == [x EXCEPT !.grp.lim[d] = @ - n]
  IN  CASE old > 0 /\ old - n <= 0 -> GroupSuspend(y, d, busy)
        [] old <= 0 /\ old - n > 0 -> GroupUnsuspend(y, d, busy)
        [] OTHER -> y
===============================================================================
