---------------------------- MODULE EventBaseProofs ----------------------------
(***************************************************************************)
(* That the queues of EventBase stay consistent, that its timers stay      *)
(* scheduled, that no wakeup is lost and that priorities are respected.    *)
(***************************************************************************)
EXTENDS EventBase, ProofFacts

-------------------------------------------------------------------------------
LEMMA NoQueueApart == NoQueue \notin CommonQueue
BY BaseAssumption DEF Event

LEMMA BaseHas ==
  ASSUME NEW s \in Base
  PROVE  /\ s.flags \in [Event -> SUBSET Flag] /\ s.pri \in [Event -> Prio] /\ s.tmo \in [Event -> Tv]
         /\ s.io \in [Event -> Tv] /\ s.res \in [Event -> SUBSET {"IO", "TIMEOUT"}]
         /\ s.ncalls \in [Event -> Nat] /\ s.pncalls \in [Event -> BOOLEAN]
         /\ s.activeq \in [Prio -> Seq(Event)] /\ s.ctl \in [CommonQueue -> Seq(Event)]
         /\ s.count \in Int /\ s.nactive \in Int /\ s.continue \in BOOLEAN
         /\ s.running_priority \in Prio \cup {-1}
BY DEF Base

\* What event_queue_insert and event_queue_remove leave alone.
SameFields(s, t) == /\ t.pri = s.pri /\ t.tmo = s.tmo /\ t.io = s.io /\ t.res = s.res
                    /\ t.ncalls = s.ncalls /\ t.pncalls = s.pncalls
                    /\ t.continue = s.continue /\ t.running_priority = s.running_priority

\* The record after an insertion or a removal, whatever the new lists are.
Requeue(s, f, n, na, aq, ct) ==
  [s EXCEPT !.flags = f, !.count = n, !.nactive = na, !.activeq = aq, !.ctl = ct]

Requeued(s, t, f, n, na, aq, ct) ==
  /\ t \in Base /\ SameFields(s, t) /\ t.flags = f /\ t.activeq = aq /\ t.ctl = ct
  /\ t.count = n /\ t.nactive = na

LEMMA QueueFields ==
  ASSUME NEW s \in Base, NEW f \in [Event -> SUBSET Flag], NEW aq \in [Prio -> Seq(Event)],
         NEW ct \in [CommonQueue -> Seq(Event)], NEW n \in Int, NEW na \in Int
  PROVE  Requeued(s, Requeue(s, f, n, na, aq, ct), f, n, na, aq, ct)
<1> DEFINE t == Requeue(s, f, n, na, aq, ct)
<1>1. /\ t.flags = f /\ t.activeq = aq /\ t.ctl = ct /\ t.count = n /\ t.nactive = na
  BY DEF Base, Requeue
<1>2. SameFields(s, t)
  BY DEF Base, Requeue, SameFields
<1>3. t \in Base
  BY DEF Base, Requeue
<1> QED  BY <1>1, <1>2, <1>3 DEF Requeued

LEMMA InsertIs ==
  ASSUME NEW s \in Base, NEW e \in Event
  PROVE  LET fl(q) == [s.flags EXCEPT ![e] = @ \cup {q}]
             n     == s.count + Counted(e)
             c     == s.tmo[e].c
         IN  /\ event_queue_insert(s, e, "INSERTED") =
                  [s EXCEPT !.flags = fl("INSERTED"), !.count = n, !.nactive = s.nactive,
                            !.activeq = s.activeq, !.ctl = s.ctl]
             /\ event_queue_insert(s, e, "ACTIVE") =
                  [s EXCEPT !.flags = fl("ACTIVE"), !.count = n, !.nactive = s.nactive + 1,
                            !.activeq = [s.activeq EXCEPT ![s.pri[e]] = Append(@, e)], !.ctl = s.ctl]
             /\ c = NoQueue => event_queue_insert(s, e, "TIMEOUT") =
                  [s EXCEPT !.flags = fl("TIMEOUT"), !.count = n, !.nactive = s.nactive,
                            !.activeq = s.activeq, !.ctl = s.ctl]
             /\ c # NoQueue => event_queue_insert(s, e, "TIMEOUT") =
                  [s EXCEPT !.flags = fl("TIMEOUT"), !.count = n, !.nactive = s.nactive,
                            !.activeq = s.activeq,
                            !.ctl = [s.ctl EXCEPT ![c] = insert_common_timeout_inorder(s, @, e)]]
<1>1. event_queue_insert(s, e, "INSERTED") =
                  [s EXCEPT !.flags = [s.flags EXCEPT ![e] = @ \cup {"INSERTED"}], !.count = s.count + Counted(e), !.nactive = s.nactive,
                            !.activeq = s.activeq, !.ctl = s.ctl]
  BY DEF event_queue_insert, Base
<1>2. event_queue_insert(s, e, "ACTIVE") =
                  [s EXCEPT !.flags = [s.flags EXCEPT ![e] = @ \cup {"ACTIVE"}], !.count = s.count + Counted(e), !.nactive = s.nactive + 1,
                            !.activeq = [s.activeq EXCEPT ![s.pri[e]] = Append(@, e)], !.ctl = s.ctl]
  BY DEF event_queue_insert, Base
<1>3. ASSUME s.tmo[e].c = NoQueue
      PROVE  event_queue_insert(s, e, "TIMEOUT") =
                  [s EXCEPT !.flags = [s.flags EXCEPT ![e] = @ \cup {"TIMEOUT"}], !.count = s.count + Counted(e), !.nactive = s.nactive,
                            !.activeq = s.activeq, !.ctl = s.ctl]
  BY <1>3 DEF event_queue_insert, Base
<1>4. ASSUME s.tmo[e].c # NoQueue
      PROVE  event_queue_insert(s, e, "TIMEOUT") =
                  [s EXCEPT !.flags = [s.flags EXCEPT ![e] = @ \cup {"TIMEOUT"}], !.count = s.count + Counted(e), !.nactive = s.nactive,
                            !.activeq = s.activeq,
                            !.ctl = [s.ctl EXCEPT ![s.tmo[e].c] = insert_common_timeout_inorder(s, @, e)]]
  BY <1>4 DEF event_queue_insert, Base
<1> QED BY <1>1, <1>2, <1>3, <1>4

\* What remains of a list, whether or not the entry was on it.
LEMMA RemoveIsSeq ==
  ASSUME NEW S, NEW s \in Seq(S), IsInjective(s), NEW e
  PROVE  RemoveFirst(s, e) \in Seq(S)
<1>1. CASE e \in ToSet(s)
  BY <1>1, RemoveFirstFacts
<1>2. CASE e \notin ToSet(s)
  BY <1>2, RemoveAbsent
<1> QED  BY <1>1, <1>2

LEMMA RemoveIs ==
  ASSUME NEW s \in Base, NEW e \in Event
  PROVE  LET fl(q) == [s.flags EXCEPT ![e] = @ \ {q}]
             n     == s.count - Counted(e)
             c     == s.tmo[e].c
         IN  /\ event_queue_remove(s, e, "INSERTED") =
                  [s EXCEPT !.flags = fl("INSERTED"), !.count = n, !.nactive = s.nactive,
                            !.activeq = s.activeq, !.ctl = s.ctl]
             /\ event_queue_remove(s, e, "ACTIVE") =
                  [s EXCEPT !.flags = fl("ACTIVE"), !.count = n, !.nactive = s.nactive - 1,
                            !.activeq = [s.activeq EXCEPT ![s.pri[e]] = RemoveFirst(@, e)], !.ctl = s.ctl]
             /\ c = NoQueue => event_queue_remove(s, e, "TIMEOUT") =
                  [s EXCEPT !.flags = fl("TIMEOUT"), !.count = n, !.nactive = s.nactive,
                            !.activeq = s.activeq, !.ctl = s.ctl]
             /\ c # NoQueue => event_queue_remove(s, e, "TIMEOUT") =
                  [s EXCEPT !.flags = fl("TIMEOUT"), !.count = n, !.nactive = s.nactive,
                            !.activeq = s.activeq,
                            !.ctl = [s.ctl EXCEPT ![c] = RemoveFirst(@, e)]]
<1>1. event_queue_remove(s, e, "INSERTED") =
        [s EXCEPT !.flags = [s.flags EXCEPT ![e] = @ \ {"INSERTED"}], !.count = s.count - Counted(e),
                  !.nactive = s.nactive, !.activeq = s.activeq, !.ctl = s.ctl]
  BY DEF event_queue_remove, TAILQ_REMOVE, Base
<1>2. event_queue_remove(s, e, "ACTIVE") =
        [s EXCEPT !.flags = [s.flags EXCEPT ![e] = @ \ {"ACTIVE"}], !.count = s.count - Counted(e),
                  !.nactive = s.nactive - 1,
                  !.activeq = [s.activeq EXCEPT ![s.pri[e]] = RemoveFirst(@, e)], !.ctl = s.ctl]
  BY DEF event_queue_remove, TAILQ_REMOVE, Base
<1>3. ASSUME s.tmo[e].c = NoQueue
      PROVE  event_queue_remove(s, e, "TIMEOUT") =
        [s EXCEPT !.flags = [s.flags EXCEPT ![e] = @ \ {"TIMEOUT"}], !.count = s.count - Counted(e),
                  !.nactive = s.nactive, !.activeq = s.activeq, !.ctl = s.ctl]
  BY <1>3 DEF event_queue_remove, TAILQ_REMOVE, Base
<1>4. ASSUME s.tmo[e].c # NoQueue
      PROVE  event_queue_remove(s, e, "TIMEOUT") =
        [s EXCEPT !.flags = [s.flags EXCEPT ![e] = @ \ {"TIMEOUT"}], !.count = s.count - Counted(e),
                  !.nactive = s.nactive, !.activeq = s.activeq,
                  !.ctl = [s.ctl EXCEPT ![s.tmo[e].c] = RemoveFirst(@, e)]]
  BY <1>4 DEF event_queue_remove, TAILQ_REMOVE, Base
<1> QED  BY <1>1, <1>2, <1>3, <1>4

-------------------------------------------------------------------------------
(***************************************************************************)
(* The counters.                                                           *)
(***************************************************************************)
Flagged(s) == {e \in Event : s.flags[e] # {}}

LEMMA FlagsFinite ==
  ASSUME NEW s \in Base, IsFiniteSet(Flagged(s))
  PROVE  IsFiniteSet(Active(s)) /\ IsFiniteSet(UserFlags(s)) /\ IsFiniteSet(Heap(s))
<1>1. Active(s) \subseteq Flagged(s) /\ Heap(s) \subseteq Flagged(s)
  BY DEF Active, Heap, Flagged
<1>2. UserFlags(s) \subseteq Flagged(s) \X Flag
  BY DEF UserFlags, Flagged, Event
<1>3. IsFiniteSet(Flag)
  <2>1. Flag = (({} \cup {"INSERTED"}) \cup {"ACTIVE"}) \cup {"TIMEOUT"}
    BY DEF Flag
  <2> QED  BY <2>1, FS_EmptySet, FS_AddElement
<1>4. IsFiniteSet(Flagged(s) \X Flag)
  BY <1>3, FS_Product
<1> QED  BY <1>1, <1>2, <1>4, FS_Subset

\* A flag more.
LEMMA CountUp ==
  ASSUME NEW s \in Base, NEW t \in Base, IsFiniteSet(Flagged(s)), NEW e \in Event, NEW q \in Flag,
         q \notin s.flags[e], t.flags = [s.flags EXCEPT ![e] = @ \cup {q}]
  PROVE  /\ IsFiniteSet(Flagged(t))
         /\ Cardinality(UserFlags(t)) = Cardinality(UserFlags(s)) + Counted(e)
         /\ Active(t) = IF q = "ACTIVE" THEN Active(s) \cup {e} ELSE Active(s)
         /\ Cardinality(Active(t)) = IF q = "ACTIVE" THEN Cardinality(Active(s)) + 1 ELSE Cardinality(Active(s))
         /\ Cardinality(UserFlags(s)) \in Nat /\ Cardinality(Active(s)) \in Nat
<1>0. s.flags \in [Event -> SUBSET Flag]
  BY BaseHas
<1>1. Flagged(t) \subseteq Flagged(s) \cup {e}
  BY <1>0 DEF Flagged
<1>2. IsFiniteSet(Flagged(t))
  BY <1>1, FS_AddElement, FS_Subset
<1>3. IsFiniteSet(Active(s)) /\ IsFiniteSet(UserFlags(s))
  BY FlagsFinite
<1>4. Active(t) = IF q = "ACTIVE" THEN Active(s) \cup {e} ELSE Active(s)
  BY <1>0 DEF Active
<1>5. q = "ACTIVE" => e \notin Active(s)
  BY DEF Active
<1>6. CASE e \in Internal
  <2>1. e \notin UserEvent /\ Counted(e) = 0
    BY <1>6, BaseAssumption DEF Internal, Counted
  <2>2. UserFlags(t) = UserFlags(s)
    <3>1. \A u \in UserEvent : u \in Event /\ t.flags[u] = s.flags[u]
      BY <1>0, <2>1 DEF Event
    <3>2. \A x \in UserEvent \X Flag : x[2] \in t.flags[x[1]] <=> x[2] \in s.flags[x[1]]
      BY <3>1
    <3>3. UserFlags(t) \subseteq UserFlags(s)
      BY <3>2 DEF UserFlags
    <3>4. UserFlags(s) \subseteq UserFlags(t)
      BY <3>2 DEF UserFlags
    <3> QED  BY <3>3, <3>4
  <2>3. /\ Cardinality(UserFlags(s)) \in Nat /\ Cardinality(Active(s)) \in Nat
        /\ q = "ACTIVE" => Cardinality(Active(s) \cup {e}) = Cardinality(Active(s)) + 1
    BY <1>3, <1>5, FS_AddElement, FS_CardinalityType
  <2>4. Cardinality(UserFlags(t)) = Cardinality(UserFlags(s)) + Counted(e)
    BY <2>1, <2>2, <2>3
  <2> QED  BY <1>2, <1>4, <2>3, <2>4
<1>7. CASE e \notin Internal
  <2>1. e \in UserEvent /\ Counted(e) = 1
    BY <1>7 DEF Internal, Counted, Event
  <2>2. <<e, q>> \notin UserFlags(s)
    BY DEF UserFlags
  <2>3. UserFlags(t) = UserFlags(s) \cup {<<e, q>>}
    <3>1. \A x \in UserFlags(t) : x \in UserFlags(s) \cup {<<e, q>>}
      BY <1>0 DEF UserFlags, Event
    <3>2. <<e, q>> \in UserFlags(t)
      BY <1>0, <2>1 DEF UserFlags
    <3>3. \A x \in UserFlags(s) : x \in UserFlags(t)
      BY <1>0 DEF UserFlags, Event
    <3> QED  BY <3>1, <3>2, <3>3
  <2> QED  BY <1>2, <1>3, <1>4, <1>5, <2>1, <2>2, <2>3, FS_AddElement, FS_CardinalityType
<1> QED  BY <1>6, <1>7

\* A flag less.
LEMMA CountDown ==
  ASSUME NEW s \in Base, NEW t \in Base, IsFiniteSet(Flagged(s)), NEW e \in Event, NEW q \in Flag,
         q \in s.flags[e], t.flags = [s.flags EXCEPT ![e] = @ \ {q}]
  PROVE  /\ IsFiniteSet(Flagged(t))
         /\ Cardinality(UserFlags(t)) = Cardinality(UserFlags(s)) - Counted(e)
         /\ Active(t) = IF q = "ACTIVE" THEN Active(s) \ {e} ELSE Active(s)
         /\ Cardinality(Active(t)) = IF q = "ACTIVE" THEN Cardinality(Active(s)) - 1 ELSE Cardinality(Active(s))
<1>0. s.flags \in [Event -> SUBSET Flag] /\ t.flags \in [Event -> SUBSET Flag]
  BY BaseHas
<1>1. s.flags = [t.flags EXCEPT ![e] = @ \cup {q}] /\ q \notin t.flags[e]
  BY <1>0
<1>2. Flagged(t) \subseteq Flagged(s)
  BY <1>0 DEF Flagged
<1>3. IsFiniteSet(Flagged(t))
  BY <1>2, FS_Subset
<1>4. /\ Cardinality(UserFlags(s)) = Cardinality(UserFlags(t)) + Counted(e)
      /\ Cardinality(Active(s)) = IF q = "ACTIVE" THEN Cardinality(Active(t)) + 1 ELSE Cardinality(Active(t))
      /\ Cardinality(UserFlags(t)) \in Nat /\ Cardinality(Active(t)) \in Nat
  BY <1>1, <1>3, CountUp
<1>5. Active(t) = IF q = "ACTIVE" THEN Active(s) \ {e} ELSE Active(s)
  BY <1>0 DEF Active
<1>6. Counted(e) \in Int
  BY DEF Counted
<1> QED  BY <1>3, <1>4, <1>5, <1>6

-------------------------------------------------------------------------------
(***************************************************************************)
(* The lists.                                                              *)
(***************************************************************************)
\* A bounded set of naturals has a greatest element, and Max gives it.
LEMMA MaxOfBounded ==
  ASSUME NEW S \in SUBSET Nat, S # {}, NEW n \in Nat, \A y \in S : y <= n
  PROVE  Max(S) \in S /\ \A y \in S : y <= Max(S)
<1> DEFINE B == {m \in Nat : \A y \in S : y <= m}
<1>1. B \in SUBSET Nat /\ n \in B
  OBVIOUS
<1>2. Min(B) \in B /\ \A m \in B : Min(B) <= m
  BY <1>1, MinOfNaturals
<1> DEFINE k == Min(B)
<1>3. k \in Nat /\ \A y \in S : y <= k
  BY <1>2
<1>4. k \in S
  <2> SUFFICES ASSUME k \notin S PROVE FALSE
    OBVIOUS
  <2>1. PICK y \in S : TRUE
    OBVIOUS
  <2>2. \A z \in S : z <= k - 1
    BY <1>3
  <2>3. k - 1 \in B
    BY <1>3, <2>1, <2>2
  <2> HIDE DEF k, B
  <2> QED  BY <1>2, <1>3, <2>3 DEF k
<1> HIDE DEF k
<1>5. \E x \in S : \A y \in S : x >= y
  BY <1>3, <1>4
<1> QED  BY <1>5 DEF Max

\* The entries of a list are sorted by the due times in s.
SortedBy(s, list) == \A i, j \in 1 .. Len(list) : i < j => s.tmo[list[i]].d <= s.tmo[list[j]].d

LEMMA InorderFacts ==
  ASSUME NEW s \in Base, NEW list \in Seq(Event), IsInjective(list), SortedBy(s, list),
         NEW e \in Event, e \notin ToSet(list)
  PROVE  LET r == insert_common_timeout_inorder(s, list, e)
         IN  /\ r \in Seq(Event) /\ IsInjective(r) /\ SortedBy(s, r)
             /\ ToSet(r) = ToSet(list) \cup {e}
             /\ r # <<>>
<1> DEFINE earlier == {j \in 1 .. Len(list) : s.tmo[list[j]].d <= s.tmo[e].d}
           i == Max(earlier \cup {0})
           r == SubSeq(list, 1, i) \o <<e>> \o SubSeq(list, i + 1, Len(list))
           n == Len(list)
<1>0. /\ n \in Nat /\ \A j \in 1 .. n : list[j] \in Event
      /\ \A x \in Event : s.tmo[x].d \in Int
      /\ DOMAIN list = 1 .. n
      /\ ToSet(list) = {list[j] : j \in 1 .. n}
  <2>1. \A x \in Event : s.tmo[x].d \in Int
    BY BaseHas DEF Tv
  <2> QED  BY <2>1, ElementsInRange
<1>1. r = insert_common_timeout_inorder(s, list, e)
  BY DEF insert_common_timeout_inorder
<1>2. i \in earlier \cup {0} /\ \A j \in earlier : j <= i
  <2>1. earlier \cup {0} \in SUBSET Nat /\ \A y \in earlier \cup {0} : y <= n
    BY <1>0
  <2> HIDE DEF earlier
  <2>2. Max(earlier \cup {0}) \in earlier \cup {0} /\ \A y \in earlier \cup {0} : y <= Max(earlier \cup {0})
    BY <1>0, <2>1, MaxOfBounded
  <2> QED  BY <2>2
<1> HIDE DEF i
<1>3. i \in 0 .. n
  BY <1>0, <1>2
<1>4. \A j \in 1 .. n : j <= i => s.tmo[list[j]].d <= s.tmo[e].d
  <2> SUFFICES ASSUME NEW j \in 1 .. n, j <= i PROVE s.tmo[list[j]].d <= s.tmo[e].d
    OBVIOUS
  <2>1. i \in 1 .. n /\ s.tmo[list[i]].d <= s.tmo[e].d
    BY <1>2, <1>3
  <2>2. j < i => s.tmo[list[j]].d <= s.tmo[list[i]].d
    BY <2>1 DEF SortedBy
  <2>3. s.tmo[list[j]].d \in Int /\ s.tmo[list[i]].d \in Int /\ s.tmo[e].d \in Int
    BY <1>0, <2>1
  <2> QED  BY <1>3, <2>1, <2>2, <2>3
<1>5. \A j \in 1 .. n : j > i => s.tmo[e].d <= s.tmo[list[j]].d
  BY <1>0, <1>2, <1>3
<1>6. /\ r \in Seq(Event) /\ Len(r) = n + 1
      /\ \A j \in 1 .. n + 1 : r[j] = IF j <= i THEN list[j] ELSE IF j = i + 1 THEN e ELSE list[j - 1]
  <2> DEFINE u == SubSeq(list, 1, i)
             v == SubSeq(list, i + 1, n)
             w == u \o <<e>>
  <2>1. u \in Seq(Event) /\ Len(u) = i /\ \A j \in 1 .. i : u[j] = list[j]
    BY <1>0, <1>3
  <2>2. v \in Seq(Event) /\ Len(v) = n - i /\ \A j \in 1 .. n - i : v[j] = list[i + j]
    <3>1. /\ v \in Seq(Event) /\ Len(v) = n - (i + 1) + 1
          /\ \A j \in 1 .. n - (i + 1) + 1 : v[j] = list[(i + 1) + j - 1]
      <4>1. i + 1 \in 1 .. n + 1 /\ n \in (i + 1) - 1 .. n
        BY <1>0, <1>3
      <4> QED  BY <4>1, SubSeqProperties
    <3>2. \A j \in 1 .. n - i : j \in 1 .. n - (i + 1) + 1 /\ (i + 1) + j - 1 = i + j
      BY <1>0, <1>3
    <3>3. n - (i + 1) + 1 = n - i
      BY <1>0, <1>3
    <3> HIDE DEF v
    <3> QED  BY <3>1, <3>2, <3>3
  <2>3. <<e>> \in Seq(Event) /\ Len(<<e>>) = 1 /\ <<e>>[1] = e
    OBVIOUS
  <2> HIDE DEF u, v
  <2>4. w \in Seq(Event) /\ Len(w) = i + 1 /\ \A j \in 1 .. i + 1 : w[j] = IF j <= i THEN list[j] ELSE e
    BY <1>3, <2>1, <2>3
  <2> HIDE DEF w
  <2>5. w \o v \in Seq(Event) /\ Len(w \o v) = n + 1
        /\ \A j \in 1 .. n + 1 : (w \o v)[j] = IF j <= i + 1 THEN w[j] ELSE v[j - (i + 1)]
    <3>1. /\ w \o v \in Seq(Event) /\ Len(w \o v) = Len(w) + Len(v)
          /\ \A j \in 1 .. Len(w) + Len(v) : (w \o v)[j] = IF j <= Len(w) THEN w[j] ELSE v[j - Len(w)]
      BY <2>2, <2>4, ConcatProperties
    <3> QED  BY <1>0, <1>3, <2>2, <2>4, <3>1
  <2>6. r = w \o v
    BY DEF w, u, v
  <2>7. \A j \in 1 .. n + 1 : (w \o v)[j] = IF j <= i THEN list[j] ELSE IF j = i + 1 THEN e ELSE list[j - 1]
    <3> SUFFICES ASSUME NEW j \in 1 .. n + 1
                 PROVE  (w \o v)[j] = IF j <= i THEN list[j] ELSE IF j = i + 1 THEN e ELSE list[j - 1]
      OBVIOUS
    <3>1. CASE j <= i + 1
      <4>1. j \in 1 .. i + 1 /\ (w \o v)[j] = w[j]
        BY <1>0, <1>3, <2>5, <3>1
      <4> QED  BY <1>3, <2>4, <4>1
    <3>2. CASE j > i + 1
      <4>0. (w \o v)[j] = v[j - (i + 1)]
        BY <1>3, <2>5, <3>2
      <4> HIDE DEF n
      <4>1. j - (i + 1) \in 1 .. n - i /\ i + (j - (i + 1)) = j - 1
        BY <1>0, <1>3, <3>2
      <4>2. v[j - (i + 1)] = list[j - 1]
        BY <2>2, <4>1
      <4>3. ~(j <= i) /\ j # i + 1
        BY <1>3, <3>2
      <4> QED  BY <4>0, <4>2, <4>3
    <3>3. j <= i + 1 \/ j > i + 1
      BY <1>0, <1>3
    <3> QED  BY <3>1, <3>2, <3>3
  <2> HIDE DEF r, n
  <2> QED  BY <2>5, <2>6, <2>7
<1> HIDE DEF r, n
<1>7. DOMAIN r = 1 .. n + 1 /\ ToSet(r) = {r[j] : j \in 1 .. n + 1}
  BY <1>6, ElementsInRange
<1>8. ToSet(r) = ToSet(list) \cup {e}
  <2>1. \A j \in 1 .. n + 1 : r[j] \in ToSet(list) \cup {e}
    BY <1>0, <1>3, <1>6
  <2>2. e \in ToSet(r)
    <3>1. i + 1 \in 1 .. n + 1 /\ r[i + 1] = e
      BY <1>0, <1>3, <1>6
    <3> QED  BY <1>7, <3>1
  <2>3. \A j \in 1 .. n : list[j] \in ToSet(r)
    <3> SUFFICES ASSUME NEW j \in 1 .. n PROVE list[j] \in ToSet(r)
      OBVIOUS
    <3>1. CASE j <= i
      <4>1. j \in 1 .. n + 1 /\ r[j] = list[j]
        BY <1>0, <1>3, <1>6, <3>1
      <4> QED  BY <1>7, <4>1
    <3>2. CASE j > i
      <4>1. j + 1 \in 1 .. n + 1 /\ r[j + 1] = list[j]
        BY <1>0, <1>3, <1>6, <3>2
      <4> QED  BY <1>7, <4>1
    <3> QED  BY <1>3, <3>1, <3>2
  <2> QED  BY <1>0, <1>7, <2>1, <2>2, <2>3
<1>9. IsInjective(r)
  <2>1. \A a, c \in 1 .. n : list[a] = list[c] => a = c
    BY <1>0 DEF IsInjective
  <2>2. \A a \in 1 .. n : list[a] # e
    BY <1>0
  <2> SUFFICES ASSUME NEW a \in 1 .. n + 1, NEW c \in 1 .. n + 1, r[a] = r[c]
               PROVE  a = c
    BY <1>7 DEF IsInjective
  <2> QED  BY <1>0, <1>3, <1>6, <2>1, <2>2
<1>10. SortedBy(s, r)
  <2> SUFFICES ASSUME NEW a \in 1 .. n + 1, NEW c \in 1 .. n + 1, a < c
               PROVE  s.tmo[r[a]].d <= s.tmo[r[c]].d
    BY <1>6 DEF SortedBy
  <2>1. \A x, y \in 1 .. n : x < y => s.tmo[list[x]].d <= s.tmo[list[y]].d
    BY DEF SortedBy, n
  <2>2. CASE c <= i
    <3>1. r[a] = list[a] /\ r[c] = list[c] /\ a \in 1 .. n /\ c \in 1 .. n
      BY <1>0, <1>3, <1>6, <2>2
    <3> QED  BY <2>1, <3>1
  <2>3. CASE c = i + 1
    <3>1. r[a] = list[a] /\ r[c] = e /\ a \in 1 .. n /\ a <= i
      BY <1>0, <1>3, <1>6, <2>3
    <3> QED  BY <1>4, <3>1
  <2>4. CASE c > i + 1 /\ a <= i
    <3>1. r[a] = list[a] /\ r[c] = list[c - 1] /\ a \in 1 .. n /\ c - 1 \in 1 .. n /\ a < c - 1
      BY <1>0, <1>3, <1>6, <2>4
    <3> QED  BY <2>1, <3>1
  <2>5. CASE c > i + 1 /\ a = i + 1
    <3>1. r[a] = e /\ r[c] = list[c - 1] /\ c - 1 \in 1 .. n /\ c - 1 > i
      BY <1>0, <1>3, <1>6, <2>5
    <3> QED  BY <1>5, <3>1
  <2>6. CASE c > i + 1 /\ a > i + 1
    <3>1. r[a] = list[a - 1] /\ r[c] = list[c - 1] /\ a - 1 \in 1 .. n /\ c - 1 \in 1 .. n /\ a - 1 < c - 1
      BY <1>0, <1>3, <1>6, <2>6
    <3> QED  BY <2>1, <3>1
  <2> QED  BY <1>0, <1>3, <2>2, <2>3, <2>4, <2>5, <2>6
<1>11. r # <<>>
  BY <1>0, <1>6
<1> QED  BY <1>1, <1>6, <1>8, <1>9, <1>10, <1>11

\* The lists are what the flags, priorities and due times say, in order, and
\* the counters count: from here on the proofs look at the flags only.
GoodLists(s) ==
  /\ s \in Base /\ IsFiniteSet(Flagged(s))
  /\ ActiveListed(s) /\ TimeoutsListed(s) /\ CountsRight(s)
  /\ \A c \in CommonQueue : SortedBy(s, s.ctl[c])

\* The events that wait in queue c.
InQueue(s, c) == {e \in Event : "TIMEOUT" \in s.flags[e] /\ s.tmo[e].c = c}

LEMMA QueueOf ==
  ASSUME NEW s \in Base, NEW e \in Event
  PROVE  /\ s.tmo[e].c \in CommonQueue \cup {NoQueue} /\ s.tmo[e].d \in Int /\ s.pri[e] \in Prio
         /\ s.flags[e] \in SUBSET Flag
BY BaseHas DEF Tv

LEMMA GoodInsertInserted ==
  ASSUME NEW s, GoodLists(s), NEW e \in Event, "INSERTED" \notin s.flags[e]
  PROVE  LET t == event_queue_insert(s, e, "INSERTED")
         IN  /\ GoodLists(t) /\ SameFields(s, t)
             /\ t.flags = [s.flags EXCEPT ![e] = @ \cup {"INSERTED"}]
<1> DEFINE t == event_queue_insert(s, e, "INSERTED")
<1>0. s \in Base
  BY DEF GoodLists
<1>1. /\ s.flags \in [Event -> SUBSET Flag] /\ s.activeq \in [Prio -> Seq(Event)]
      /\ s.ctl \in [CommonQueue -> Seq(Event)] /\ s.count + Counted(e) \in Int /\ s.nactive \in Int
      /\ [s.flags EXCEPT ![e] = @ \cup {"INSERTED"}] \in [Event -> SUBSET Flag]
  BY <1>0, BaseHas DEF Counted, Flag
<1>2. /\ t \in Base /\ SameFields(s, t) /\ t.flags = [s.flags EXCEPT ![e] = @ \cup {"INSERTED"}]
      /\ t.activeq = s.activeq /\ t.ctl = s.ctl
      /\ t.count = s.count + Counted(e) /\ t.nactive = s.nactive
  <2> DEFINE f == [s.flags EXCEPT ![e] = @ \cup {"INSERTED"}]
             n == s.count + Counted(e)
             na == s.nactive
  <2>1. t = Requeue(s, f, n, na, s.activeq, s.ctl)
    BY <1>0, InsertIs DEF Requeue
  <2>2. f \in [Event -> SUBSET Flag] /\ n \in Int /\ na \in Int
    BY <1>1
  <2> HIDE DEF t, f, n, na
  <2>3. Requeued(s, t, f, n, na, s.activeq, s.ctl)
    BY <1>0, <1>1, <2>1, <2>2, QueueFields
  <2> QED  BY <2>3 DEF Requeued, f, n, na
<1> HIDE DEF t
<1>3. /\ IsFiniteSet(Flagged(t)) /\ Active(t) = Active(s)
      /\ Cardinality(UserFlags(t)) = Cardinality(UserFlags(s)) + Counted(e)
  BY <1>0, <1>2, CountUp DEF GoodLists, Flag
<1>4. CountsRight(t)
  BY <1>2, <1>3 DEF GoodLists, CountsRight
<1>5. ActiveListed(t)
  BY <1>2, <1>3 DEF GoodLists, ActiveListed, SameFields
<1>6. TimeoutsListed(t)
  <2>1. \A x \in Event : "TIMEOUT" \in t.flags[x] <=> "TIMEOUT" \in s.flags[x]
    BY <1>1, <1>2
  <2> QED  BY <1>2, <2>1 DEF GoodLists, TimeoutsListed, SameFields
<1>7. \A c \in CommonQueue : SortedBy(t, t.ctl[c])
  BY <1>2 DEF GoodLists, SortedBy, SameFields
<1> QED  BY <1>2, <1>3, <1>4, <1>5, <1>6, <1>7 DEF GoodLists, t

LEMMA GoodInsertActive ==
  ASSUME NEW s, GoodLists(s), NEW e \in Event, "ACTIVE" \notin s.flags[e]
  PROVE  LET t == event_queue_insert(s, e, "ACTIVE")
         IN  /\ GoodLists(t) /\ SameFields(s, t)
             /\ t.flags = [s.flags EXCEPT ![e] = @ \cup {"ACTIVE"}]
<1> DEFINE t == event_queue_insert(s, e, "ACTIVE")
           p == s.pri[e]
           aq == [s.activeq EXCEPT ![p] = Append(@, e)]
<1>0. s \in Base /\ p \in Prio
  BY QueueOf DEF GoodLists
<1>1. /\ s.flags \in [Event -> SUBSET Flag] /\ s.activeq \in [Prio -> Seq(Event)]
      /\ s.ctl \in [CommonQueue -> Seq(Event)] /\ s.count + Counted(e) \in Int /\ s.nactive + 1 \in Int
      /\ [s.flags EXCEPT ![e] = @ \cup {"ACTIVE"}] \in [Event -> SUBSET Flag]
  BY <1>0, BaseHas DEF Counted, Flag
<1>a. /\ aq \in [Prio -> Seq(Event)] /\ aq[p] = Append(s.activeq[p], e)
      /\ \A i \in Prio : i # p => aq[i] = s.activeq[i]
  BY <1>0, <1>1
<1> HIDE DEF aq
<1>2. /\ t \in Base /\ SameFields(s, t) /\ t.flags = [s.flags EXCEPT ![e] = @ \cup {"ACTIVE"}]
      /\ t.activeq = aq /\ t.ctl = s.ctl
      /\ t.count = s.count + Counted(e) /\ t.nactive = s.nactive + 1
  <2> DEFINE f == [s.flags EXCEPT ![e] = @ \cup {"ACTIVE"}]
             n == s.count + Counted(e)
             na == s.nactive + 1
  <2>1. t = Requeue(s, f, n, na, aq, s.ctl)
    BY <1>0, InsertIs DEF aq, Requeue
  <2>2. f \in [Event -> SUBSET Flag] /\ n \in Int /\ na \in Int
    BY <1>1
  <2>4. aq \in [Prio -> Seq(Event)] /\ s.ctl \in [CommonQueue -> Seq(Event)]
    BY <1>1, <1>a
  <2> HIDE DEF t, f, n, na
  <2>3. Requeued(s, t, f, n, na, aq, s.ctl)
    BY <1>0, <2>1, <2>2, <2>4, QueueFields
  <2> QED  BY <2>3 DEF Requeued, f, n, na
<1> HIDE DEF t, p
<1>3. /\ IsFiniteSet(Flagged(t)) /\ Active(t) = Active(s) \cup {e}
      /\ Cardinality(UserFlags(t)) = Cardinality(UserFlags(s)) + Counted(e)
      /\ Cardinality(Active(t)) = Cardinality(Active(s)) + 1
  BY <1>0, <1>2, CountUp DEF GoodLists, Flag
<1>4. CountsRight(t)
  BY <1>2, <1>3 DEF GoodLists, CountsRight
<1>5. ActiveListed(t)
  <2> SUFFICES ASSUME NEW i \in Prio
               PROVE  /\ ToSet(t.activeq[i]) = {x \in Active(t) : t.pri[x] = i}
                      /\ IsInjective(t.activeq[i])
    BY DEF ActiveListed
  <2>0. /\ ToSet(s.activeq[i]) = {x \in Active(s) : s.pri[x] = i} /\ IsInjective(s.activeq[i])
        /\ s.activeq[i] \in Seq(Event)
    BY <1>1 DEF GoodLists, ActiveListed
  <2>1. CASE i # p
    BY <1>2, <1>3, <1>a, <2>0, <2>1 DEF SameFields, p
  <2>2. CASE i = p
    <3>1. e \notin Active(s) /\ s.pri[e] = i
      BY <2>2 DEF Active, p
    <3>2. /\ ToSet(Append(s.activeq[i], e)) = ToSet(s.activeq[i]) \cup {e}
          /\ IsInjective(Append(s.activeq[i], e))
      BY <2>0, <3>1, AppendElements
    <3> QED  BY <1>2, <1>3, <1>a, <2>0, <2>2, <3>1, <3>2, ZenonT(60) DEF SameFields
  <2> QED  BY <2>1, <2>2
<1>6. TimeoutsListed(t)
  <2>1. \A x \in Event : "TIMEOUT" \in t.flags[x] <=> "TIMEOUT" \in s.flags[x]
    BY <1>1, <1>2
  <2> QED  BY <1>2, <2>1 DEF GoodLists, TimeoutsListed, SameFields
<1>7. \A c \in CommonQueue : SortedBy(t, t.ctl[c])
  BY <1>2 DEF GoodLists, SortedBy, SameFields
<1> QED  BY <1>2, <1>3, <1>4, <1>5, <1>6, <1>7 DEF GoodLists, t

LEMMA GoodInsertTimeout ==
  ASSUME NEW s, GoodLists(s), NEW e \in Event, "TIMEOUT" \notin s.flags[e]
  PROVE  LET t == event_queue_insert(s, e, "TIMEOUT")
         IN  /\ GoodLists(t) /\ SameFields(s, t)
             /\ t.flags = [s.flags EXCEPT ![e] = @ \cup {"TIMEOUT"}]
<1> DEFINE t == event_queue_insert(s, e, "TIMEOUT")
           c == s.tmo[e].c
           list == insert_common_timeout_inorder(s, s.ctl[c], e)
           ct == IF c = NoQueue THEN s.ctl ELSE [s.ctl EXCEPT ![c] = list]
<1>0. s \in Base /\ c \in CommonQueue \cup {NoQueue}
  BY QueueOf DEF GoodLists
<1>1. /\ s.flags \in [Event -> SUBSET Flag] /\ s.activeq \in [Prio -> Seq(Event)]
      /\ s.ctl \in [CommonQueue -> Seq(Event)] /\ s.count + Counted(e) \in Int /\ s.nactive \in Int
      /\ [s.flags EXCEPT ![e] = @ \cup {"TIMEOUT"}] \in [Event -> SUBSET Flag]
  BY <1>0, BaseHas DEF Counted, Flag
<1>b. \A q \in CommonQueue : /\ ToSet(s.ctl[q]) = InQueue(s, q) /\ IsInjective(s.ctl[q])
                             /\ SortedBy(s, s.ctl[q]) /\ s.ctl[q] \in Seq(Event)
  BY <1>1 DEF GoodLists, TimeoutsListed, InQueue
<1>c. c # NoQueue => /\ list \in Seq(Event) /\ IsInjective(list) /\ SortedBy(s, list)
                     /\ ToSet(list) = InQueue(s, c) \cup {e}
  <2> SUFFICES ASSUME c \in CommonQueue
               PROVE  /\ list \in Seq(Event) /\ IsInjective(list) /\ SortedBy(s, list)
                      /\ ToSet(list) = InQueue(s, c) \cup {e}
    BY <1>0
  <2>1. e \notin ToSet(s.ctl[c])
    BY <1>b DEF InQueue
  <2> HIDE DEF c
  <2> QED  BY <1>0, <1>b, <2>1, InorderFacts
<1>a. /\ ct \in [CommonQueue -> Seq(Event)]
      /\ \A q \in CommonQueue : ct[q] = IF q = c THEN list ELSE s.ctl[q]
  <2> HIDE DEF list, c
  <2> QED  BY <1>0, <1>1, <1>c, NoQueueApart
<1>2. /\ t \in Base /\ SameFields(s, t) /\ t.flags = [s.flags EXCEPT ![e] = @ \cup {"TIMEOUT"}]
      /\ t.activeq = s.activeq /\ t.ctl = ct
      /\ t.count = s.count + Counted(e) /\ t.nactive = s.nactive
  <2> DEFINE f == [s.flags EXCEPT ![e] = @ \cup {"TIMEOUT"}]
             n == s.count + Counted(e)
             na == s.nactive
  <2>1. t = Requeue(s, f, n, na, s.activeq, ct)
    <3>1. CASE c = NoQueue
      BY <1>0, <3>1, InsertIs DEF Requeue
    <3>2. CASE c # NoQueue
      BY <1>0, <3>2, InsertIs, ZenonT(60) DEF Requeue
    <3> QED  BY <3>1, <3>2
  <2>2. f \in [Event -> SUBSET Flag] /\ n \in Int /\ na \in Int
    BY <1>1
  <2> HIDE DEF ct, t, f, n, na
  <2>4. s.activeq \in [Prio -> Seq(Event)] /\ ct \in [CommonQueue -> Seq(Event)]
    BY <1>1, <1>a
  <2>3. Requeued(s, t, f, n, na, s.activeq, ct)
    BY <1>0, <2>1, <2>2, <2>4, QueueFields
  <2> QED  BY <2>3 DEF Requeued, f, n, na
<1> HIDE DEF t, ct, list
<1>3. /\ IsFiniteSet(Flagged(t)) /\ Active(t) = Active(s)
      /\ Cardinality(UserFlags(t)) = Cardinality(UserFlags(s)) + Counted(e)
  BY <1>0, <1>2, CountUp DEF GoodLists, Flag
<1>4. CountsRight(t)
  BY <1>2, <1>3 DEF GoodLists, CountsRight
<1>5. ActiveListed(t)
  BY <1>2, <1>3 DEF GoodLists, ActiveListed, SameFields
<1>6. ASSUME NEW q \in CommonQueue
      PROVE  ToSet(t.ctl[q]) = InQueue(t, q) /\ IsInjective(t.ctl[q]) /\ SortedBy(t, t.ctl[q])
  <2>1. \A x \in Event : "TIMEOUT" \in t.flags[x] <=> "TIMEOUT" \in s.flags[x] \/ x = e
    BY <1>1, <1>2
  <2>2. InQueue(t, q) = IF q = c THEN InQueue(s, q) \cup {e} ELSE InQueue(s, q)
    BY <1>2, <2>1 DEF InQueue, SameFields
  <2>3. \A l : SortedBy(t, l) <=> SortedBy(s, l)
    BY <1>2 DEF SortedBy, SameFields
  <2> HIDE DEF c
  <2> QED  BY <1>2, <1>a, <1>b, <1>c, <2>2, <2>3, NoQueueApart
<1>7. TimeoutsListed(t)
  BY <1>6 DEF TimeoutsListed, InQueue
<1> QED  BY <1>2, <1>3, <1>4, <1>5, <1>6, <1>7 DEF GoodLists, t

\* A list without one of its entries is still sorted.
LEMMA SortedRest ==
  ASSUME NEW s \in Base, NEW list \in Seq(Event), IsInjective(list), SortedBy(s, list), NEW e \in ToSet(list)
  PROVE  SortedBy(s, RemoveFirst(list, e))
<1> DEFINE I == {j \in 1 .. Len(list) : list[j] = e}
           i == Min(I)
           r == RemoveAt(list, i)
<1>0. Len(list) \in Nat /\ ToSet(list) = {list[j] : j \in 1 .. Len(list)}
  BY ElementsInRange
<1>1. I \in SUBSET Nat /\ I # {}
  BY <1>0
<1>2. i \in 1 .. Len(list)
  <2>1. i \in I
    BY <1>1, MinOfNaturals
  <2> QED  BY <2>1
<1>3. RemoveFirst(list, e) = r
  BY <1>1 DEF RemoveFirst, SelectInSeq
<1> HIDE DEF i
<1>4. /\ r \in Seq(Event) /\ Len(r) = Len(list) - 1
      /\ \A j \in 1 .. Len(list) - 1 : r[j] = IF j < i THEN list[j] ELSE list[j + 1]
  BY <1>2, RemoveAtFacts
<1> HIDE DEF r
<1> SUFFICES ASSUME NEW a \in 1 .. Len(list) - 1, NEW c \in 1 .. Len(list) - 1, a < c
             PROVE  s.tmo[r[a]].d <= s.tmo[r[c]].d
  BY <1>3, <1>4 DEF SortedBy
<1> DEFINE x == IF a < i THEN a ELSE a + 1
           y == IF c < i THEN c ELSE c + 1
<1>5. x \in 1 .. Len(list) /\ y \in 1 .. Len(list) /\ x < y
  BY <1>0, <1>2
<1>6. r[a] = list[x] /\ r[c] = list[y]
  BY <1>4
<1> HIDE DEF x, y
<1> QED  BY <1>5, <1>6 DEF SortedBy

LEMMA GoodRemoveInserted ==
  ASSUME NEW s, GoodLists(s), NEW e \in Event, "INSERTED" \in s.flags[e]
  PROVE  LET t == event_queue_remove(s, e, "INSERTED")
         IN  /\ GoodLists(t) /\ SameFields(s, t)
             /\ t.flags = [s.flags EXCEPT ![e] = @ \ {"INSERTED"}]
<1> DEFINE t == event_queue_remove(s, e, "INSERTED")
<1>0. s \in Base
  BY DEF GoodLists
<1>1. /\ s.flags \in [Event -> SUBSET Flag] /\ s.activeq \in [Prio -> Seq(Event)]
      /\ s.ctl \in [CommonQueue -> Seq(Event)] /\ s.count - Counted(e) \in Int /\ s.nactive \in Int
      /\ [s.flags EXCEPT ![e] = @ \ {"INSERTED"}] \in [Event -> SUBSET Flag]
  BY <1>0, BaseHas DEF Counted
<1>2. /\ t \in Base /\ SameFields(s, t) /\ t.flags = [s.flags EXCEPT ![e] = @ \ {"INSERTED"}]
      /\ t.activeq = s.activeq /\ t.ctl = s.ctl
      /\ t.count = s.count - Counted(e) /\ t.nactive = s.nactive
  <2> DEFINE f == [s.flags EXCEPT ![e] = @ \ {"INSERTED"}]
             n == s.count - Counted(e)
             na == s.nactive
  <2>1. t = Requeue(s, f, n, na, s.activeq, s.ctl)
    BY <1>0, RemoveIs DEF Requeue
  <2>2. f \in [Event -> SUBSET Flag] /\ n \in Int /\ na \in Int
    BY <1>1
  <2> HIDE DEF t, f, n, na
  <2>3. Requeued(s, t, f, n, na, s.activeq, s.ctl)
    BY <1>0, <1>1, <2>1, <2>2, QueueFields
  <2> QED  BY <2>3 DEF Requeued, f, n, na
<1> HIDE DEF t
<1>3. /\ IsFiniteSet(Flagged(t)) /\ Active(t) = Active(s)
      /\ Cardinality(UserFlags(t)) = Cardinality(UserFlags(s)) - Counted(e)
  <2>1. "INSERTED" \in Flag /\ "INSERTED" # "ACTIVE" /\ IsFiniteSet(Flagged(s))
    BY DEF GoodLists, Flag
  <2> QED  BY <1>0, <1>2, <2>1, CountDown
<1>4. CountsRight(t)
  BY <1>2, <1>3 DEF GoodLists, CountsRight
<1>5. ActiveListed(t)
  BY <1>2, <1>3 DEF GoodLists, ActiveListed, SameFields
<1>6. TimeoutsListed(t)
  <2>1. \A x \in Event : "TIMEOUT" \in t.flags[x] <=> "TIMEOUT" \in s.flags[x]
    BY <1>1, <1>2
  <2> QED  BY <1>2, <2>1 DEF GoodLists, TimeoutsListed, SameFields
<1>7. \A c \in CommonQueue : SortedBy(t, t.ctl[c])
  BY <1>2 DEF GoodLists, SortedBy, SameFields
<1> QED  BY <1>2, <1>3, <1>4, <1>5, <1>6, <1>7 DEF GoodLists, t

LEMMA GoodRemoveActive ==
  ASSUME NEW s, GoodLists(s), NEW e \in Event, "ACTIVE" \in s.flags[e]
  PROVE  LET t == event_queue_remove(s, e, "ACTIVE")
         IN  /\ GoodLists(t) /\ SameFields(s, t)
             /\ t.flags = [s.flags EXCEPT ![e] = @ \ {"ACTIVE"}]
<1> DEFINE t == event_queue_remove(s, e, "ACTIVE")
           p == s.pri[e]
           aq == [s.activeq EXCEPT ![p] = RemoveFirst(@, e)]
<1>0. s \in Base /\ p \in Prio
  BY QueueOf DEF GoodLists
<1>1. /\ s.flags \in [Event -> SUBSET Flag] /\ s.activeq \in [Prio -> Seq(Event)]
      /\ s.ctl \in [CommonQueue -> Seq(Event)] /\ s.count - Counted(e) \in Int /\ s.nactive - 1 \in Int
      /\ [s.flags EXCEPT ![e] = @ \ {"ACTIVE"}] \in [Event -> SUBSET Flag]
  BY <1>0, BaseHas DEF Counted
<1>b. e \in Active(s) /\ e \in ToSet(s.activeq[p]) /\ IsInjective(s.activeq[p]) /\ s.activeq[p] \in Seq(Event)
  BY <1>0, <1>1 DEF GoodLists, ActiveListed, Active
<1>c. /\ RemoveFirst(s.activeq[p], e) \in Seq(Event) /\ IsInjective(RemoveFirst(s.activeq[p], e))
      /\ ToSet(RemoveFirst(s.activeq[p], e)) = ToSet(s.activeq[p]) \ {e}
  BY <1>b, RemoveFirstFacts
<1>a. /\ aq \in [Prio -> Seq(Event)] /\ aq[p] = RemoveFirst(s.activeq[p], e)
      /\ \A i \in Prio : i # p => aq[i] = s.activeq[i]
  BY <1>0, <1>1, <1>c
<1> HIDE DEF aq
<1>2. /\ t \in Base /\ SameFields(s, t) /\ t.flags = [s.flags EXCEPT ![e] = @ \ {"ACTIVE"}]
      /\ t.activeq = aq /\ t.ctl = s.ctl
      /\ t.count = s.count - Counted(e) /\ t.nactive = s.nactive - 1
  <2> DEFINE f == [s.flags EXCEPT ![e] = @ \ {"ACTIVE"}]
             n == s.count - Counted(e)
             na == s.nactive - 1
  <2>1. t = Requeue(s, f, n, na, aq, s.ctl)
    BY <1>0, RemoveIs DEF aq, Requeue
  <2>2. f \in [Event -> SUBSET Flag] /\ n \in Int /\ na \in Int
    BY <1>1
  <2>4. aq \in [Prio -> Seq(Event)] /\ s.ctl \in [CommonQueue -> Seq(Event)]
    BY <1>1, <1>a
  <2> HIDE DEF t, f, n, na
  <2>3. Requeued(s, t, f, n, na, aq, s.ctl)
    BY <1>0, <2>1, <2>2, <2>4, QueueFields
  <2> QED  BY <2>3 DEF Requeued, f, n, na
<1> HIDE DEF t, p
<1>3. /\ IsFiniteSet(Flagged(t)) /\ Active(t) = Active(s) \ {e}
      /\ Cardinality(UserFlags(t)) = Cardinality(UserFlags(s)) - Counted(e)
      /\ Cardinality(Active(t)) = Cardinality(Active(s)) - 1
  BY <1>0, <1>2, CountDown, ZenonT(60) DEF GoodLists, Flag
<1>4. CountsRight(t)
  BY <1>2, <1>3 DEF GoodLists, CountsRight
<1>5. ActiveListed(t)
  <2> SUFFICES ASSUME NEW i \in Prio
               PROVE  /\ ToSet(t.activeq[i]) = {x \in Active(t) : t.pri[x] = i}
                      /\ IsInjective(t.activeq[i])
    BY DEF ActiveListed
  <2>0. /\ ToSet(s.activeq[i]) = {x \in Active(s) : s.pri[x] = i} /\ IsInjective(s.activeq[i])
        /\ s.activeq[i] \in Seq(Event)
    BY <1>1 DEF GoodLists, ActiveListed
  <2>1. CASE i # p
    BY <1>2, <1>3, <1>a, <2>0, <2>1 DEF SameFields, p
  <2>2. CASE i = p
    BY <1>2, <1>3, <1>a, <1>c, <2>0, <2>2 DEF SameFields
  <2> QED  BY <2>1, <2>2
<1>6. TimeoutsListed(t)
  <2>1. \A x \in Event : "TIMEOUT" \in t.flags[x] <=> "TIMEOUT" \in s.flags[x]
    BY <1>1, <1>2
  <2> QED  BY <1>2, <2>1 DEF GoodLists, TimeoutsListed, SameFields
<1>7. \A c \in CommonQueue : SortedBy(t, t.ctl[c])
  BY <1>2 DEF GoodLists, SortedBy, SameFields
<1> QED  BY <1>2, <1>3, <1>4, <1>5, <1>6, <1>7 DEF GoodLists, t

LEMMA GoodRemoveTimeout ==
  ASSUME NEW s, GoodLists(s), NEW e \in Event, "TIMEOUT" \in s.flags[e]
  PROVE  LET t == event_queue_remove(s, e, "TIMEOUT")
         IN  /\ GoodLists(t) /\ SameFields(s, t)
             /\ t.flags = [s.flags EXCEPT ![e] = @ \ {"TIMEOUT"}]
<1> DEFINE t == event_queue_remove(s, e, "TIMEOUT")
           c == s.tmo[e].c
           list == RemoveFirst(s.ctl[c], e)
           ct == IF c = NoQueue THEN s.ctl ELSE [s.ctl EXCEPT ![c] = list]
<1>0. s \in Base /\ c \in CommonQueue \cup {NoQueue}
  BY QueueOf DEF GoodLists
<1>1. /\ s.flags \in [Event -> SUBSET Flag] /\ s.activeq \in [Prio -> Seq(Event)]
      /\ s.ctl \in [CommonQueue -> Seq(Event)] /\ s.count - Counted(e) \in Int /\ s.nactive \in Int
      /\ [s.flags EXCEPT ![e] = @ \ {"TIMEOUT"}] \in [Event -> SUBSET Flag]
  BY <1>0, BaseHas DEF Counted
<1>b. \A q \in CommonQueue : /\ ToSet(s.ctl[q]) = InQueue(s, q) /\ IsInjective(s.ctl[q])
                             /\ SortedBy(s, s.ctl[q]) /\ s.ctl[q] \in Seq(Event)
  BY <1>1 DEF GoodLists, TimeoutsListed, InQueue
<1>c. c # NoQueue => /\ list \in Seq(Event) /\ IsInjective(list) /\ SortedBy(s, list)
                     /\ ToSet(list) = InQueue(s, c) \ {e}
  <2> SUFFICES ASSUME c \in CommonQueue
               PROVE  /\ list \in Seq(Event) /\ IsInjective(list) /\ SortedBy(s, list)
                      /\ ToSet(list) = InQueue(s, c) \ {e}
    BY <1>0
  <2>1. e \in ToSet(s.ctl[c])
    BY <1>b DEF InQueue
  <2> HIDE DEF c
  <2> QED  BY <1>0, <1>b, <2>1, RemoveFirstFacts, SortedRest
<1>a. /\ ct \in [CommonQueue -> Seq(Event)]
      /\ \A q \in CommonQueue : ct[q] = IF q = c THEN list ELSE s.ctl[q]
  <2> HIDE DEF list, c
  <2> QED  BY <1>0, <1>1, <1>c, NoQueueApart
<1>2. /\ t \in Base /\ SameFields(s, t) /\ t.flags = [s.flags EXCEPT ![e] = @ \ {"TIMEOUT"}]
      /\ t.activeq = s.activeq /\ t.ctl = ct
      /\ t.count = s.count - Counted(e) /\ t.nactive = s.nactive
  <2> DEFINE f == [s.flags EXCEPT ![e] = @ \ {"TIMEOUT"}]
             n == s.count - Counted(e)
             na == s.nactive
  <2>1. t = Requeue(s, f, n, na, s.activeq, ct)
    <3>1. CASE c = NoQueue
      BY <1>0, <3>1, RemoveIs DEF Requeue
    <3>2. CASE c # NoQueue
      BY <1>0, <3>2, RemoveIs, ZenonT(60) DEF Requeue
    <3> QED  BY <3>1, <3>2
  <2>2. f \in [Event -> SUBSET Flag] /\ n \in Int /\ na \in Int
    BY <1>1
  <2> HIDE DEF ct, t, f, n, na
  <2>4. s.activeq \in [Prio -> Seq(Event)] /\ ct \in [CommonQueue -> Seq(Event)]
    BY <1>1, <1>a
  <2>3. Requeued(s, t, f, n, na, s.activeq, ct)
    BY <1>0, <2>1, <2>2, <2>4, QueueFields
  <2> QED  BY <2>3 DEF Requeued, f, n, na
<1> HIDE DEF t, ct, list
<1>3. /\ IsFiniteSet(Flagged(t)) /\ Active(t) = Active(s)
      /\ Cardinality(UserFlags(t)) = Cardinality(UserFlags(s)) - Counted(e)
  BY <1>0, <1>2, CountDown DEF GoodLists, Flag
<1>4. CountsRight(t)
  BY <1>2, <1>3 DEF GoodLists, CountsRight
<1>5. ActiveListed(t)
  BY <1>2, <1>3 DEF GoodLists, ActiveListed, SameFields
<1>6. ASSUME NEW q \in CommonQueue
      PROVE  ToSet(t.ctl[q]) = InQueue(t, q) /\ IsInjective(t.ctl[q]) /\ SortedBy(t, t.ctl[q])
  <2>1. \A x \in Event : "TIMEOUT" \in t.flags[x] <=> "TIMEOUT" \in s.flags[x] /\ x # e
    BY <1>1, <1>2
  <2>2. InQueue(t, q) = IF q = c THEN InQueue(s, q) \ {e} ELSE InQueue(s, q)
    BY <1>2, <2>1 DEF InQueue, SameFields
  <2>3. \A l : SortedBy(t, l) <=> SortedBy(s, l)
    BY <1>2 DEF SortedBy, SameFields
  <2> HIDE DEF c
  <2> QED  BY <1>2, <1>a, <1>b, <1>c, <2>2, <2>3, NoQueueApart
<1>7. TimeoutsListed(t)
  BY <1>6 DEF TimeoutsListed, InQueue
<1> QED  BY <1>2, <1>3, <1>4, <1>5, <1>6, <1>7 DEF GoodLists, t

-------------------------------------------------------------------------------
(***************************************************************************)
(* What the functions of event.c do to the flags and times of the events.  *)
(***************************************************************************)
LEMMA SameTransitive ==
  ASSUME NEW s, NEW t, NEW u, SameFields(s, t), SameFields(t, u)
  PROVE  SameFields(s, u)
BY DEF SameFields

LEMMA SameReflexive == \A s : SameFields(s, s)
BY DEF SameFields

LEMMA RemoveIfIs ==
  ASSUME NEW s, GoodLists(s), NEW e \in Event, NEW q \in Flag
  PROVE  /\ GoodLists(RemoveIf(s, e, q)) /\ SameFields(s, RemoveIf(s, e, q))
         /\ RemoveIf(s, e, q).flags = [s.flags EXCEPT ![e] = @ \ {q}]
<1>0. s.flags \in [Event -> SUBSET Flag]
  BY BaseHas DEF GoodLists
<1>1. CASE q \notin s.flags[e]
  <2>1. RemoveIf(s, e, q) = s
    BY <1>1 DEF RemoveIf
  <2>2. s.flags = [s.flags EXCEPT ![e] = @ \ {q}]
    BY <1>0, <1>1
  <2> QED  BY <2>1, <2>2, SameReflexive
<1>2. CASE q \in s.flags[e]
  <2>1. RemoveIf(s, e, q) = event_queue_remove(s, e, q)
    BY <1>2 DEF RemoveIf
  <2>2. q \in {"INSERTED", "ACTIVE", "TIMEOUT"}
    BY DEF Flag
  <2>3. CASE q = "INSERTED"
    BY <1>2, <2>1, <2>3, GoodRemoveInserted
  <2>4. CASE q = "ACTIVE"
    BY <1>2, <2>1, <2>4, GoodRemoveActive
  <2>5. CASE q = "TIMEOUT"
    BY <1>2, <2>1, <2>5, GoodRemoveTimeout
  <2> QED  BY <2>2, <2>3, <2>4, <2>5
<1> QED  BY <1>1, <1>2

\* The lists do not care about the other fields, nor about the times and
\* priorities of events that are on none of them.
LEMMA GoodUnlisted ==
  ASSUME NEW s, GoodLists(s), NEW t \in Base, t.flags = s.flags, t.activeq = s.activeq,
         t.ctl = s.ctl, t.count = s.count, t.nactive = s.nactive,
         \A x \in Event : "ACTIVE" \in s.flags[x] => t.pri[x] = s.pri[x],
         \A x \in Event : "TIMEOUT" \in s.flags[x] => t.tmo[x] = s.tmo[x]
  PROVE  GoodLists(t)
<1>1. Active(t) = Active(s) /\ UserFlags(t) = UserFlags(s) /\ Flagged(t) = Flagged(s)
  BY DEF Active, UserFlags, Flagged
<1>2. IsFiniteSet(Flagged(t)) /\ CountsRight(t)
  BY <1>1 DEF GoodLists, CountsRight
<1>3. ActiveListed(t)
  <2>1. \A i : {x \in Active(t) : t.pri[x] = i} = {x \in Active(s) : s.pri[x] = i}
    BY DEF Active
  <2> QED  BY <2>1 DEF GoodLists, ActiveListed
<1>4. \A c : InQueue(t, c) = InQueue(s, c)
  BY DEF InQueue
<1>5. TimeoutsListed(t)
  BY <1>4 DEF GoodLists, TimeoutsListed, InQueue
<1>6. ASSUME NEW c \in CommonQueue
      PROVE  SortedBy(t, t.ctl[c])
  <2>1. /\ s.ctl[c] \in Seq(Event) /\ ToSet(s.ctl[c]) = InQueue(s, c) /\ SortedBy(s, s.ctl[c])
    BY BaseHas DEF GoodLists, TimeoutsListed, InQueue
  <2>2. \A i \in 1 .. Len(s.ctl[c]) : s.ctl[c][i] \in InQueue(s, c)
    BY <2>1, ElementsInRange
  <2>3. \A i \in 1 .. Len(s.ctl[c]) : t.tmo[s.ctl[c][i]] = s.tmo[s.ctl[c][i]]
    BY <2>2 DEF InQueue
  <2> DEFINE l == s.ctl[c]
  <2>4. t.ctl[c] = l /\ SortedBy(s, l) /\ \A i \in 1 .. Len(l) : t.tmo[l[i]] = s.tmo[l[i]]
    BY <2>1, <2>3
  <2> HIDE DEF l
  <2>5. SortedBy(t, l)
    BY <2>4 DEF SortedBy
  <2> QED  BY <2>4, <2>5
<1> QED  BY <1>2, <1>3, <1>5, <1>6 DEF GoodLists

\* The same but for the due times.
SameButTimes(s, t) == /\ t.pri = s.pri /\ t.io = s.io /\ t.res = s.res
                      /\ t.ncalls = s.ncalls /\ t.pncalls = s.pncalls
                      /\ t.continue = s.continue /\ t.running_priority = s.running_priority

\* What is left of the flags of e when it gets a new due time.
FlagsKept(s, e) == s.flags[e] \ (IF "TIMEOUT" \in s.res[e] THEN {"ACTIVE"} ELSE {})

Rescheduled(s, t, e, at) ==
  /\ GoodLists(t) /\ SameButTimes(s, t)
  /\ t.flags = [s.flags EXCEPT ![e] = FlagsKept(s, e) \cup {"TIMEOUT"}]
  /\ t.tmo = [s.tmo EXCEPT ![e] = at]

WithTime(s, e, at) == [s EXCEPT !.tmo[e] = at]
TimeSet(s, t, e, at) == /\ GoodLists(t) /\ SameButTimes(s, t) /\ t.flags = s.flags
                        /\ t.tmo = [s.tmo EXCEPT ![e] = at]

LEMMA SetTime ==
  ASSUME NEW s, GoodLists(s), NEW e \in Event, NEW at \in Tv, "TIMEOUT" \notin s.flags[e]
  PROVE  TimeSet(s, WithTime(s, e, at), e, at)
<1> DEFINE t == WithTime(s, e, at)
           m == [s.tmo EXCEPT ![e] = at]
<1>0. s \in Base /\ s.tmo \in [Event -> Tv]
  BY BaseHas DEF GoodLists
<1>1. t = [s EXCEPT !.tmo = m]
  BY <1>0 DEF Base, WithTime
<1>2. m \in [Event -> Tv] /\ \A x \in Event : x # e => m[x] = s.tmo[x]
  BY <1>0
<1> HIDE DEF t, m
<1>3. t.tmo = m
  BY <1>0, <1>1 DEF Base
<1>4. SameButTimes(s, t)
  BY <1>0, <1>1 DEF Base, SameButTimes
<1>5. /\ t.flags = s.flags /\ t.activeq = s.activeq /\ t.ctl = s.ctl /\ t.count = s.count
      /\ t.nactive = s.nactive
  BY <1>0, <1>1 DEF Base
<1>6. t \in Base
  BY <1>0, <1>1, <1>2 DEF Base
<1>7. /\ \A x \in Event : "ACTIVE" \in s.flags[x] => t.pri[x] = s.pri[x]
      /\ \A x \in Event : "TIMEOUT" \in s.flags[x] => t.tmo[x] = s.tmo[x]
  BY <1>2, <1>3, <1>4 DEF SameButTimes
<1>8. GoodLists(t)
  BY <1>5, <1>6, <1>7, GoodUnlisted
<1> QED  BY <1>3, <1>4, <1>5, <1>8 DEF t, m, TimeSet

LEMMA RescheduleIs ==
  ASSUME NEW s, GoodLists(s), NEW e \in Event, NEW at \in Tv
  PROVE  Rescheduled(s, Reschedule(s, e, at), e, at)
<1> DEFINE t == RemoveIf(s, e, "TIMEOUT")
           u == IF "TIMEOUT" \in t.res[e] THEN RemoveIf(t, e, "ACTIVE") ELSE t
           v == WithTime(u, e, at)
           w == event_queue_insert(v, e, "TIMEOUT")
<1>f. "TIMEOUT" \in Flag /\ "ACTIVE" \in Flag
  BY DEF Flag
<1>0. s.flags \in [Event -> SUBSET Flag] /\ s.tmo \in [Event -> Tv]
  BY BaseHas DEF GoodLists
<1>1. Reschedule(s, e, at) = w
  BY DEF Reschedule, WithTime
<1>2. GoodLists(t) /\ SameFields(s, t) /\ t.flags = [s.flags EXCEPT ![e] = @ \ {"TIMEOUT"}]
  BY <1>f, RemoveIfIs
<1> HIDE DEF t
<1>3. /\ GoodLists(u) /\ SameFields(s, u)
      /\ u.flags = [s.flags EXCEPT ![e] = FlagsKept(s, e) \ {"TIMEOUT"}]
  <2>1. CASE "TIMEOUT" \in s.res[e]
    <3>1. u = RemoveIf(t, e, "ACTIVE")
      BY <1>2, <2>1 DEF SameFields
    <3>2. GoodLists(u) /\ SameFields(t, u) /\ u.flags = [t.flags EXCEPT ![e] = @ \ {"ACTIVE"}]
      BY <1>2, <1>f, <3>1, RemoveIfIs
    <3>3. u.flags = [s.flags EXCEPT ![e] = FlagsKept(s, e) \ {"TIMEOUT"}]
      BY <1>0, <1>2, <2>1, <3>2 DEF FlagsKept
    <3> HIDE DEF u
    <3> QED  BY <1>2, <3>2, <3>3, SameTransitive
  <2>2. CASE "TIMEOUT" \notin s.res[e]
    <3>1. u = t
      BY <1>2, <2>2 DEF SameFields
    <3>2. t.flags = [s.flags EXCEPT ![e] = FlagsKept(s, e) \ {"TIMEOUT"}]
      BY <1>0, <1>2, <2>2 DEF FlagsKept
    <3> QED  BY <1>2, <3>1, <3>2
  <2> QED  BY <2>1, <2>2
<1> HIDE DEF u
<1>4. "TIMEOUT" \notin u.flags[e]
  BY <1>0, <1>3
<1>5. TimeSet(u, v, e, at)
  BY <1>3, <1>4, SetTime
<1> HIDE DEF v
<1>6. GoodLists(w) /\ SameFields(v, w) /\ w.flags = [v.flags EXCEPT ![e] = @ \cup {"TIMEOUT"}]
  BY <1>4, <1>5, GoodInsertTimeout DEF TimeSet
<1> HIDE DEF w
<1>7. w.tmo = [s.tmo EXCEPT ![e] = at] /\ SameButTimes(s, w)
  BY <1>3, <1>5, <1>6 DEF SameFields, SameButTimes, TimeSet
<1>8. w.flags = [s.flags EXCEPT ![e] = FlagsKept(s, e) \cup {"TIMEOUT"}]
  <2>1. w.flags = [u.flags EXCEPT ![e] = @ \cup {"TIMEOUT"}]
    BY <1>5, <1>6 DEF TimeSet
  <2>2. u.flags[e] = FlagsKept(s, e) \ {"TIMEOUT"}
    BY <1>0, <1>3
  <2> HIDE DEF FlagsKept
  <2> QED  BY <1>0, <1>3, <2>1, <2>2
<1> QED  BY <1>1, <1>6, <1>7, <1>8 DEF Rescheduled

\* event_del_internal clears the flags of e.
Deleted(s, t, e) == GoodLists(t) /\ SameFields(s, t) /\ t.flags = [s.flags EXCEPT ![e] = {}]

LEMMA DelIs ==
  ASSUME NEW s, GoodLists(s), NEW e \in Event
  PROVE  Deleted(s, event_del_internal(s, e), e)
<1> DEFINE t == RemoveIf(s, e, "TIMEOUT")
           u == RemoveIf(t, e, "ACTIVE")
           v == RemoveIf(u, e, "INSERTED")
<1>f. "TIMEOUT" \in Flag /\ "ACTIVE" \in Flag /\ "INSERTED" \in Flag
  BY DEF Flag
<1>0. s.flags \in [Event -> SUBSET Flag]
  BY BaseHas DEF GoodLists
<1>1. event_del_internal(s, e) = v
  BY DEF event_del_internal
<1>2. GoodLists(t) /\ SameFields(s, t) /\ t.flags = [s.flags EXCEPT ![e] = @ \ {"TIMEOUT"}]
  BY <1>f, RemoveIfIs
<1> HIDE DEF t
<1>3. GoodLists(u) /\ SameFields(t, u) /\ u.flags = [t.flags EXCEPT ![e] = @ \ {"ACTIVE"}]
  BY <1>2, <1>f, RemoveIfIs
<1> HIDE DEF u
<1>4. GoodLists(v) /\ SameFields(u, v) /\ v.flags = [u.flags EXCEPT ![e] = @ \ {"INSERTED"}]
  BY <1>3, <1>f, RemoveIfIs
<1> HIDE DEF v
<1>5. SameFields(s, v)
  BY <1>2, <1>3, <1>4, SameTransitive
<1>6. v.flags = [s.flags EXCEPT ![e] = {}]
  <2>1. v.flags = [s.flags EXCEPT ![e] = ((s.flags[e] \ {"TIMEOUT"}) \ {"ACTIVE"}) \ {"INSERTED"}]
    BY <1>0, <1>2, <1>3, <1>4
  <2>2. ((s.flags[e] \ {"TIMEOUT"}) \ {"ACTIVE"}) \ {"INSERTED"} = {}
    BY <1>0 DEF Flag
  <2> QED  BY <2>1, <2>2
<1> QED  BY <1>1, <1>4, <1>5, <1>6 DEF Deleted

\* Everything that the lists depend on is the same.
SameLists(s, t) == /\ t.flags = s.flags /\ t.activeq = s.activeq /\ t.ctl = s.ctl /\ t.count = s.count
                   /\ t.nactive = s.nactive /\ t.pri = s.pri /\ t.tmo = s.tmo /\ t.io = s.io

LEMMA GoodSame ==
  ASSUME NEW s, GoodLists(s), NEW t \in Base, SameLists(s, t)
  PROVE  GoodLists(t)
BY GoodUnlisted DEF SameLists

\* event_active_nolock makes e active, or adds to its results.
Activated(s, t, e, r) ==
  /\ GoodLists(t)
  /\ t.pri = s.pri /\ t.tmo = s.tmo /\ t.io = s.io /\ t.running_priority = s.running_priority
  /\ t.flags = [s.flags EXCEPT ![e] = @ \cup {"ACTIVE"}]
  /\ IF "ACTIVE" \in s.flags[e]
       THEN t.res = [s.res EXCEPT ![e] = @ \cup {r}] /\ t.continue = s.continue
       ELSE /\ t.res = [s.res EXCEPT ![e] = {r}]
            /\ t.continue = (s.continue \/ s.pri[e] < s.running_priority)

\* The fields that event_active_nolock sets before it queues the event.
WithResult(s, e, r, n) ==
  [s EXCEPT !.res[e] = {r}, !.continue = @ \/ s.pri[e] < s.running_priority,
            !.ncalls[e] = IF Signal(e) THEN n ELSE @,
            !.pncalls[e] = IF Signal(e) THEN FALSE ELSE @]

LEMMA ActiveIs ==
  ASSUME NEW s, GoodLists(s), NEW e \in Event, NEW r \in {"IO", "TIMEOUT"}, NEW n \in Nat
  PROVE  Activated(s, event_active_nolock(s, e, r, n), e, r)
<1>0. /\ s \in Base /\ s.flags \in [Event -> SUBSET Flag] /\ s.continue \in BOOLEAN
      /\ s.res \in [Event -> SUBSET {"IO", "TIMEOUT"}]
      /\ s.ncalls \in [Event -> Nat] /\ s.pncalls \in [Event -> BOOLEAN]
  BY BaseHas DEF GoodLists
<1>1. CASE "ACTIVE" \in s.flags[e]
  <2> DEFINE m == [s.res EXCEPT ![e] = @ \cup {r}]
             t == [s EXCEPT !.res = m]
  <2>1. event_active_nolock(s, e, r, n) = t
    BY <1>0, <1>1 DEF event_active_nolock, Base
  <2>2. m \in [Event -> SUBSET {"IO", "TIMEOUT"}]
    BY <1>0
  <2> HIDE DEF m
  <2>3. t \in Base
    BY <1>0, <2>2 DEF Base
  <2>4. SameLists(s, t)
    BY <1>0 DEF Base, SameLists
  <2>5. t.res = m /\ t.continue = s.continue /\ t.running_priority = s.running_priority
    BY <1>0 DEF Base
  <2> HIDE DEF t
  <2>6. GoodLists(t)
    BY <2>3, <2>4, GoodSame
  <2>7. s.flags = [s.flags EXCEPT ![e] = @ \cup {"ACTIVE"}]
    BY <1>0, <1>1
  <2> QED  BY <1>1, <2>1, <2>4, <2>5, <2>6, <2>7 DEF m, Activated, SameLists
<1>2. CASE "ACTIVE" \notin s.flags[e]
  <2> DEFINE m == [s.res EXCEPT ![e] = {r}]
             k == s.continue \/ s.pri[e] < s.running_priority
             nc == [s.ncalls EXCEPT ![e] = IF Signal(e) THEN n ELSE @]
             pn == [s.pncalls EXCEPT ![e] = IF Signal(e) THEN FALSE ELSE @]
             t == WithResult(s, e, r, n)
             u == event_queue_insert(t, e, "ACTIVE")
  <2>1. event_active_nolock(s, e, r, n) = u
    BY <1>2 DEF event_active_nolock, WithResult
  <2>2. t = [s EXCEPT !.res = m, !.continue = k, !.ncalls = nc, !.pncalls = pn]
    BY <1>0 DEF WithResult, Base
  <2>3. m \in [Event -> SUBSET {"IO", "TIMEOUT"}]
    BY <1>0
  <2>3a. k \in BOOLEAN
    BY <1>0
  <2>3b. nc \in [Event -> Nat]
    BY <1>0
  <2>3c. pn \in [Event -> BOOLEAN]
    BY <1>0
  <2> HIDE DEF m, k, nc, pn, t
  <2>4. t \in Base
    BY <1>0, <2>2, <2>3, <2>3a, <2>3b, <2>3c DEF Base
  <2>5. SameLists(s, t)
    BY <1>0, <2>2 DEF Base, SameLists
  <2>6. t.res = m /\ t.continue = k /\ t.running_priority = s.running_priority
    BY <1>0, <2>2 DEF Base
  <2>7. GoodLists(t) /\ "ACTIVE" \notin t.flags[e]
    BY <1>2, <2>4, <2>5, GoodSame DEF SameLists
  <2>8. GoodLists(u) /\ SameFields(t, u) /\ u.flags = [t.flags EXCEPT ![e] = @ \cup {"ACTIVE"}]
    BY <2>7, GoodInsertActive
  <2> HIDE DEF u
  <2>9. /\ u.pri = s.pri /\ u.tmo = s.tmo /\ u.io = s.io /\ u.running_priority = s.running_priority
        /\ u.flags = [s.flags EXCEPT ![e] = @ \cup {"ACTIVE"}] /\ u.res = m /\ u.continue = k
    BY <2>5, <2>6, <2>8 DEF SameLists, SameFields
  <2> QED  BY <1>2, <2>1, <2>8, <2>9 DEF Activated, m, k
<1> QED  BY <1>1, <1>2

-------------------------------------------------------------------------------
(***************************************************************************)
(* What the lists and counters say of the flags.                           *)
(***************************************************************************)
LEMMA QueueHead ==
  ASSUME NEW s, GoodLists(s), NEW c \in CommonQueue
  PROVE  /\ s.ctl[c] = <<>> <=> InQueue(s, c) = {}
         /\ s.ctl[c] # <<>> => /\ Head(s.ctl[c]) \in InQueue(s, c)
                               /\ \A f \in InQueue(s, c) : s.tmo[Head(s.ctl[c])].d <= s.tmo[f].d
<1> DEFINE l == s.ctl[c]
<1>1. l \in Seq(Event) /\ ToSet(l) = InQueue(s, c) /\ SortedBy(s, l)
  BY BaseHas DEF GoodLists, TimeoutsListed, InQueue
<1>2. /\ InQueue(s, c) = {l[i] : i \in 1 .. Len(l)} /\ Len(l) \in Nat
      /\ l = <<>> <=> Len(l) = 0
  BY <1>1, ElementsInRange
<1>3. \A x \in InQueue(s, c) : s.tmo[x].d \in Int
  BY QueueOf DEF InQueue, GoodLists
<1> HIDE DEF l
<1>4. l = <<>> <=> InQueue(s, c) = {}
  <2>1. CASE Len(l) = 0
    BY <1>2, <2>1
  <2>2. CASE Len(l) # 0
    <3>1. l # <<>>
      BY <1>2, <2>2
    <3>2. Head(l) \in InQueue(s, c)
      BY <1>1, <3>1, TailFacts
    <3> QED  BY <3>1, <3>2
  <2> QED  BY <2>1, <2>2
<1>5. ASSUME l # <<>>
      PROVE  Head(l) \in InQueue(s, c) /\ \A f \in InQueue(s, c) : s.tmo[Head(l)].d <= s.tmo[f].d
  <2>1. Head(l) = l[1] /\ 1 \in 1 .. Len(l)
    BY <1>1, <1>2, <1>5
  <2>2. l[1] \in InQueue(s, c)
    BY <1>2, <2>1
  <2>3. ASSUME NEW f \in InQueue(s, c)
        PROVE  s.tmo[l[1]].d <= s.tmo[f].d
    <3>1. PICK i \in 1 .. Len(l) : f = l[i]
      BY <1>2
    <3>2. CASE i = 1
      BY <1>3, <2>2, <3>1, <3>2
    <3>3. CASE i > 1
      BY <1>1, <2>1, <3>1, <3>3 DEF SortedBy
    <3> QED  BY <3>1, <3>2, <3>3, <1>2
  <2> QED  BY <2>1, <2>2, <2>3
<1> QED  BY <1>4, <1>5 DEF l

LEMMA ActiveHead ==
  ASSUME NEW s, GoodLists(s), NEW i \in Prio
  PROVE  /\ s.activeq[i] = <<>> <=> \A e \in Active(s) : s.pri[e] # i
         /\ s.activeq[i] # <<>> => Head(s.activeq[i]) \in Active(s) /\ s.pri[Head(s.activeq[i])] = i
<1> DEFINE l == s.activeq[i]
<1>1. l \in Seq(Event) /\ ToSet(l) = {e \in Active(s) : s.pri[e] = i}
  BY BaseHas DEF GoodLists, ActiveListed
<1>2. /\ ToSet(l) = {l[k] : k \in 1 .. Len(l)} /\ Len(l) \in Nat
      /\ l = <<>> <=> Len(l) = 0
  BY <1>1, ElementsInRange
<1> HIDE DEF l
<1>4. l # <<>> => Head(l) \in ToSet(l)
  BY <1>1, TailFacts
<1>3. l = <<>> <=> ToSet(l) = {}
  <2>1. CASE Len(l) = 0
    BY <1>2, <2>1
  <2>2. CASE Len(l) # 0
    BY <1>2, <1>4, <2>2
  <2> QED  BY <2>1, <2>2
<1> QED  BY <1>1, <1>3, <1>4 DEF l

LEMMA Counters ==
  ASSUME NEW s, GoodLists(s)
  PROVE  /\ s.nactive \in Nat /\ s.count \in Nat
         /\ s.nactive = 0 <=> Active(s) = {}
         /\ s.count = 0 <=> UserFlags(s) = {}
<1>1. IsFiniteSet(Active(s)) /\ IsFiniteSet(UserFlags(s))
  BY FlagsFinite DEF GoodLists
<1> QED  BY <1>1, FS_CardinalityType, FS_EmptySet DEF GoodLists, CountsRight

\* No event that waits in the heap is due at a negative time.
LEMMA HeapTop ==
  ASSUME NEW s \in Base, DueInv(s)
  PROVE  Tops(s) = {} <=> Heap(s) = {}
<1>1. \A e \in Heap(s) : s.tmo[e].d \in Nat
  BY BaseAssumption DEF DueInv, Heap
<1>2. ASSUME NEW x \in Heap(s)
      PROVE  Tops(s) # {}
  <2> DEFINE D == {s.tmo[e].d : e \in Heap(s)}
  <2>1. D \in SUBSET Nat /\ D # {}
    BY <1>1, <1>2
  <2>2. Min(D) \in D /\ \A y \in D : Min(D) <= y
    BY <2>1, MinOfNaturals
  <2>3. PICK e \in Heap(s) : Min(D) = s.tmo[e].d
    BY <2>2
  <2> QED  BY <2>2, <2>3 DEF Tops
<1> QED  BY <1>2 DEF Tops

\* The timer of queue c will wake it, or has.
Covered(s, c) == \/ InQueue(s, c) = {} \/ "ACTIVE" \in s.flags[c]
                 \/ "TIMEOUT" \in s.flags[c] /\ \A f \in InQueue(s, c) : s.tmo[c].d <= s.tmo[f].d

LEMMA CoveredIs ==
  ASSUME NEW s, GoodLists(s), NEW c \in CommonQueue
  PROVE  Covered(s, c) <=> s.ctl[c] = <<>> \/ Timed(s, c)
<1>0. c \in Event /\ \A x \in Event : s.tmo[x].d \in Int
  BY QueueOf DEF GoodLists, Event
<1>1. /\ s.ctl[c] = <<>> <=> InQueue(s, c) = {}
      /\ s.ctl[c] # <<>> => /\ Head(s.ctl[c]) \in InQueue(s, c)
                            /\ \A f \in InQueue(s, c) : s.tmo[Head(s.ctl[c])].d <= s.tmo[f].d
  BY QueueHead
<1> DEFINE h == Head(s.ctl[c])
<1> HIDE DEF h
<1>2. s.ctl[c] # <<>> => h \in InQueue(s, c) /\ \A f \in InQueue(s, c) : s.tmo[h].d <= s.tmo[f].d
  BY <1>1 DEF h
<1>3. \A f \in InQueue(s, c) : f \in Event /\ s.tmo[f].d \in Int
  BY <1>0 DEF InQueue
<1>4. Timed(s, c) <=> ("TIMEOUT" \in s.flags[c] /\ s.tmo[c].d <= s.tmo[h].d) \/ "ACTIVE" \in s.flags[c]
  BY DEF Timed, h
<1> QED  BY <1>0, <1>1, <1>2, <1>3, <1>4 DEF Covered

\* The part of the invariant that is about b: the timer of x is not needed.
Sound(s, x) == /\ GoodLists(s) /\ KindsInv(s) /\ DueInv(s)
               /\ \A c \in CommonQueue \ {x} : Covered(s, c)

-------------------------------------------------------------------------------
(***************************************************************************)
(* The operations keep b sound.                                            *)
(***************************************************************************)
LEMMA SoundDel ==
  ASSUME NEW s, NEW x, NEW e \in Event \ CommonQueue, Sound(s, x)
  PROVE  Sound(event_del_internal(s, e), x) /\ Deleted(s, event_del_internal(s, e), e)
<1> DEFINE t == event_del_internal(s, e)
<1>1. Deleted(s, t, e)
  BY DelIs DEF Sound
<1> HIDE DEF t
<1>2. s.flags \in [Event -> SUBSET Flag]
  BY BaseHas DEF Sound, GoodLists
<1>3. /\ GoodLists(t) /\ t.pri = s.pri /\ t.io = s.io /\ t.tmo = s.tmo /\ t.res = s.res
      /\ \A y \in Event : t.flags[y] = IF y = e THEN {} ELSE s.flags[y]
  BY <1>1, <1>2 DEF Deleted, SameFields
<1>4. KindsInv(t)
  BY <1>3 DEF Sound, KindsInv, GoodLists, Flagged, Event
<1>5. DueInv(t)
  BY <1>3 DEF Sound, DueInv
<1>6. ASSUME NEW c \in CommonQueue \ {x}
      PROVE  Covered(t, c)
  <2>1. t.flags[c] = s.flags[c] /\ InQueue(t, c) \subseteq InQueue(s, c)
    BY <1>3 DEF InQueue, Event
  <2> QED  BY <1>3, <2>1 DEF Sound, Covered
<1> QED  BY <1>1, <1>3, <1>4, <1>5, <1>6 DEF t, Sound

LEMMA SoundActive ==
  ASSUME NEW s, NEW x, NEW e \in Event, NEW n \in Nat, Sound(s, x)
  PROVE  LET t == event_active_nolock(s, e, "IO", n)
         IN  Sound(t, x) /\ Activated(s, t, e, "IO")
<1> DEFINE t == event_active_nolock(s, e, "IO", n)
<1>1. Activated(s, t, e, "IO")
  BY ActiveIs DEF Sound
<1> HIDE DEF t
<1>2. s.flags \in [Event -> SUBSET Flag] /\ s.res \in [Event -> SUBSET {"IO", "TIMEOUT"}]
  BY BaseHas DEF Sound, GoodLists
<1>3. GoodLists(t) /\ t.pri = s.pri /\ t.io = s.io /\ t.tmo = s.tmo
  BY <1>1 DEF Activated
<1>3a. t.flags = [s.flags EXCEPT ![e] = @ \cup {"ACTIVE"}]
  BY <1>1 DEF Activated
<1>3b. \A y \in Event : /\ "TIMEOUT" \in t.flags[y] <=> "TIMEOUT" \in s.flags[y]
                        /\ s.flags[y] \subseteq t.flags[y]
                        /\ "ACTIVE" \in t.flags[y] <=> y = e \/ "ACTIVE" \in s.flags[y]
  BY <1>2, <1>3a
<1>3c. \A y \in Event : "TIMEOUT" \in t.res[y] /\ y = e => "ACTIVE" \in s.flags[e] /\ "TIMEOUT" \in s.res[y]
  BY <1>1, <1>2 DEF Activated
<1>3d. \A y \in Event : y # e => t.res[y] = s.res[y]
  BY <1>1, <1>2 DEF Activated
<1>4. KindsInv(t)
  <2>1. IsFiniteSet({y \in Event : t.flags[y] # {}})
    BY <1>3 DEF GoodLists, Flagged
  <2>2. "TIMEOUT" \notin t.flags[th_notify]
    BY <1>3b DEF Sound, KindsInv, Event
  <2> QED  BY <1>3, <2>1, <2>2 DEF Sound, KindsInv
<1>5. DueInv(t)
  BY <1>3, <1>3b, <1>3c, <1>3d DEF Sound, DueInv
<1>6. ASSUME NEW c \in CommonQueue \ {x}
      PROVE  Covered(t, c)
  <2>1. s.flags[c] \subseteq t.flags[c] /\ InQueue(t, c) = InQueue(s, c)
    BY <1>3, <1>3b DEF InQueue, Event
  <2> QED  BY <1>3, <2>1 DEF Sound, Covered
<1> QED  BY <1>1, <1>3, <1>4, <1>5, <1>6 DEF t, Sound

\* timeout_process and common_timeout_callback: e is due, and becomes active.
TimedOut(s, t, e) ==
  /\ t.pri = s.pri /\ t.tmo = s.tmo /\ t.io = s.io /\ t.running_priority = s.running_priority
  /\ t.flags = [s.flags EXCEPT ![e] = {"ACTIVE"}]
  /\ t.continue = (s.continue \/ s.pri[e] < s.running_priority)

LEMMA SoundTimedOut ==
  ASSUME NEW s, NEW x, NEW e \in Event, Sound(s, x), s.tmo[e].d <= MaxTime,
         "TIMEOUT" \in s.flags[e]
  PROVE  LET t == event_active_nolock(event_del_internal(s, e), e, "TIMEOUT", 1)
         IN  Sound(t, x) /\ TimedOut(s, t, e)
<1> DEFINE u == event_del_internal(s, e)
           t == event_active_nolock(u, e, "TIMEOUT", 1)
<1>0. Deleted(s, u, e)
  BY DelIs DEF Sound
<1> HIDE DEF u
<1>1. Activated(u, t, e, "TIMEOUT")
  BY <1>0, ActiveIs DEF Deleted
<1> HIDE DEF t
<1>2. /\ s.flags \in [Event -> SUBSET Flag] /\ s.res \in [Event -> SUBSET {"IO", "TIMEOUT"}]
  BY BaseHas DEF Sound, GoodLists
<1>3. /\ u.pri = s.pri /\ u.io = s.io /\ u.tmo = s.tmo /\ u.res = s.res /\ u.continue = s.continue
      /\ u.running_priority = s.running_priority
      /\ u.flags = [s.flags EXCEPT ![e] = {}] /\ "ACTIVE" \notin u.flags[e]
  BY <1>0, <1>2 DEF Deleted, SameFields
<1>4. /\ GoodLists(t) /\ t.pri = s.pri /\ t.io = s.io /\ t.tmo = s.tmo
      /\ t.running_priority = s.running_priority
      /\ t.flags = [s.flags EXCEPT ![e] = {"ACTIVE"}]
      /\ t.res = [s.res EXCEPT ![e] = {"TIMEOUT"}]
      /\ t.continue = (s.continue \/ s.pri[e] < s.running_priority)
  BY <1>1, <1>2, <1>3 DEF Activated
<1>5. /\ \A y \in Event : t.flags[y] = IF y = e THEN {"ACTIVE"} ELSE s.flags[y]
      /\ \A y \in Event : y # e => t.res[y] = s.res[y]
  BY <1>2, <1>4
<1>6. KindsInv(t)
  BY <1>4, <1>5 DEF Sound, KindsInv, GoodLists, Flagged, Event
<1>7. DueInv(t)
  BY <1>4, <1>5 DEF Sound, DueInv
<1>8. ASSUME NEW c \in CommonQueue \ {x}
      PROVE  Covered(t, c)
  <2>1. InQueue(t, c) \subseteq InQueue(s, c) /\ (c = e \/ t.flags[c] = s.flags[c])
    BY <1>4, <1>5 DEF InQueue, Event
  <2> QED  BY <1>4, <1>5, <2>1 DEF Sound, Covered, Event
<1>9. TimedOut(s, t, e)
  BY <1>4 DEF TimedOut
<1> QED  BY <1>4, <1>6, <1>7, <1>8, <1>9 DEF t, u, Sound

\* Nothing that Sound looks at is different.
SoundFields(s, t) == SameLists(s, t) /\ t.res = s.res

LEMMA SoundSame ==
  ASSUME NEW s, NEW x, Sound(s, x), NEW t \in Base, SoundFields(s, t)
  PROVE  Sound(t, x)
<1>1. GoodLists(t)
  BY GoodSame DEF Sound, SoundFields
<1>2. \A c : InQueue(t, c) = InQueue(s, c)
  BY DEF InQueue, SoundFields, SameLists
<1>3. \A c : Covered(t, c) <=> Covered(s, c)
  BY <1>2 DEF Covered, SoundFields, SameLists
<1>4. KindsInv(t) /\ DueInv(t)
  BY DEF Sound, SoundFields, SameLists, KindsInv, DueInv
<1> QED  BY <1>1, <1>3, <1>4 DEF Sound

-------------------------------------------------------------------------------
(***************************************************************************)
(* event_add_internal.                                                     *)
(***************************************************************************)
LEMMA CtlKept ==
  ASSUME NEW s \in Base, NEW e \in Event, NEW q \in Flag, s.tmo[e].c = NoQueue \/ q # "TIMEOUT"
  PROVE  RemoveIf(s, e, q).ctl = s.ctl /\ event_queue_insert(s, e, q).ctl = s.ctl
<1>1. RemoveIf(s, e, q).ctl = s.ctl
  <2>1. event_queue_remove(s, e, q).ctl = s.ctl
    BY DEF event_queue_remove, Base, Flag
  <2> QED  BY <2>1 DEF RemoveIf
<1>2. event_queue_insert(s, e, q).ctl = s.ctl
  BY DEF event_queue_insert, Base, Flag
<1> QED  BY <1>1, <1>2

LEMMA RescheduleCtl ==
  ASSUME NEW s, GoodLists(s), NEW e \in Event, NEW at \in Tv, s.tmo[e].c = NoQueue, at.c = NoQueue
  PROVE  Reschedule(s, e, at).ctl = s.ctl
<1> DEFINE t == RemoveIf(s, e, "TIMEOUT")
           r == RemoveIf(t, e, "ACTIVE")
           u == IF "TIMEOUT" \in t.res[e] THEN r ELSE t
           v == WithTime(u, e, at)
           w == event_queue_insert(v, e, "TIMEOUT")
<1>f. "TIMEOUT" \in Flag /\ "ACTIVE" \in Flag
  BY DEF Flag
<1>1. Reschedule(s, e, at) = w
  BY DEF Reschedule, WithTime
<1>2. GoodLists(t) /\ SameFields(s, t) /\ t.flags = [s.flags EXCEPT ![e] = @ \ {"TIMEOUT"}]
  BY <1>f, RemoveIfIs
<1>3. t.ctl = s.ctl /\ t \in Base /\ "TIMEOUT" \notin t.flags[e]
  BY <1>2, <1>f, CtlKept, BaseHas DEF GoodLists
<1> HIDE DEF t
<1>4. GoodLists(r) /\ SameFields(t, r) /\ r.flags = [t.flags EXCEPT ![e] = @ \ {"ACTIVE"}]
  BY <1>2, <1>f, RemoveIfIs
<1>5. r.ctl = t.ctl /\ "TIMEOUT" \notin r.flags[e]
  BY <1>3, <1>4, <1>f, CtlKept, BaseHas DEF GoodLists
<1> HIDE DEF r
<1>6. u = r \/ u = t
  OBVIOUS
<1> HIDE DEF u
<1>7. GoodLists(u) /\ u.ctl = s.ctl /\ "TIMEOUT" \notin u.flags[e] /\ u \in Base
  BY <1>2, <1>3, <1>4, <1>5, <1>6 DEF GoodLists
<1>8. TimeSet(u, v, e, at)
  BY <1>7, SetTime
<1>9. v.ctl = u.ctl
  BY <1>7 DEF WithTime, Base
<1>10. u.tmo \in [Event -> Tv]
  BY <1>7, BaseHas
<1> HIDE DEF v
<1>11. v \in Base /\ v.tmo[e].c = NoQueue
  BY <1>8, <1>10 DEF TimeSet, GoodLists
<1>12. w.ctl = v.ctl
  BY <1>11, <1>f, CtlKept
<1> QED  BY <1>1, <1>7, <1>9, <1>12

\* The first branch of event_add_internal.
Inserts(s, e) == IF InsertBranch(s, e) THEN {"INSERTED"} ELSE {}
InsertStep(s, e) == IF InsertBranch(s, e) THEN event_queue_insert(s, e, "INSERTED") ELSE s
Inserted(s, t, e) == GoodLists(t) /\ SameFields(s, t) /\ t.flags = [s.flags EXCEPT ![e] = @ \cup Inserts(s, e)]

LEMMA InsertStepIs ==
  ASSUME NEW s, GoodLists(s), NEW e \in Event
  PROVE  Inserted(s, InsertStep(s, e), e)
<1>0. s.flags \in [Event -> SUBSET Flag]
  BY BaseHas DEF GoodLists
<1>1. CASE InsertBranch(s, e)
  <2>1. "INSERTED" \notin s.flags[e] /\ Inserts(s, e) = {"INSERTED"}
    BY <1>1 DEF InsertBranch, Inserts
  <2>2. InsertStep(s, e) = event_queue_insert(s, e, "INSERTED")
    BY <1>1 DEF InsertStep
  <2>3. /\ GoodLists(InsertStep(s, e)) /\ SameFields(s, InsertStep(s, e))
        /\ InsertStep(s, e).flags = [s.flags EXCEPT ![e] = @ \cup {"INSERTED"}]
    BY <2>1, <2>2, GoodInsertInserted
  <2> QED  BY <2>1, <2>3 DEF Inserted
<1>2. CASE ~InsertBranch(s, e)
  <2>1. InsertStep(s, e) = s /\ Inserts(s, e) = {}
    BY <1>2 DEF InsertStep, Inserts
  <2>2. s.flags = [s.flags EXCEPT ![e] = @ \cup {}]
    BY <1>0
  <2> QED  BY <2>1, <2>2, SameReflexive DEF Inserted
<1> QED  BY <1>1, <1>2

\* The period that a persistent event is given.
Period(s, e, tv, absolute) == IF PersistClosure(e) /\ ~absolute THEN [s.io EXCEPT ![e] = tv] ELSE s.io
WithPeriod(s, e, tv, absolute) == IF PersistClosure(e) /\ ~absolute THEN [s EXCEPT !.io[e] = tv] ELSE s
PeriodSet(s, t, io) == /\ GoodLists(t) /\ t.io = io /\ t.flags = s.flags /\ t.tmo = s.tmo /\ t.pri = s.pri
                       /\ t.res = s.res /\ t.continue = s.continue /\ t.running_priority = s.running_priority

LEMMA PeriodIs ==
  ASSUME NEW s, GoodLists(s), NEW e \in Event, NEW tv \in Tv, NEW absolute \in BOOLEAN
  PROVE  PeriodSet(s, WithPeriod(s, e, tv, absolute), Period(s, e, tv, absolute))
<1> DEFINE t == WithPeriod(s, e, tv, absolute)
           io == Period(s, e, tv, absolute)
<1>0. s \in Base /\ s.io \in [Event -> Tv]
  BY BaseHas DEF GoodLists
<1>1. io \in [Event -> Tv]
  BY <1>0 DEF Period
<1>2. t = [s EXCEPT !.io = io]
  BY <1>0 DEF Period, WithPeriod, Base
<1> HIDE DEF io, t
<1>3. t \in Base
  BY <1>0, <1>1, <1>2 DEF Base
<1>4. t.io = io
  BY <1>0, <1>2 DEF Base
<1>5. /\ t.flags = s.flags /\ t.activeq = s.activeq /\ t.ctl = s.ctl /\ t.count = s.count
      /\ t.nactive = s.nactive /\ t.pri = s.pri /\ t.tmo = s.tmo
  BY <1>0, <1>2 DEF Base
<1>6. t.res = s.res /\ t.continue = s.continue /\ t.running_priority = s.running_priority
  BY <1>0, <1>2 DEF Base
<1>7. GoodLists(t)
  BY <1>3, <1>5, GoodUnlisted
<1> QED  BY <1>4, <1>5, <1>6, <1>7 DEF PeriodSet, io, t

\* e waits for its new due time; the timer of its queue is as it was.
Pending(s, t, e, at, io) ==
  /\ GoodLists(t) /\ t.io = io /\ t.pri = s.pri /\ t.res = s.res
  /\ t.continue = s.continue /\ t.running_priority = s.running_priority
  /\ t.tmo = [s.tmo EXCEPT ![e] = at]
  /\ t.flags = [s.flags EXCEPT ![e] = FlagsKept(s, e) \cup Inserts(s, e) \cup {"TIMEOUT"}]

PendingStep(s, e, tv, absolute, at) == Reschedule(WithPeriod(InsertStep(s, e), e, tv, absolute), e, at)

LEMMA PendingIs ==
  ASSUME NEW s, GoodLists(s), NEW e \in Event, NEW tv \in Tv, NEW absolute \in BOOLEAN, NEW at \in Tv
  PROVE  Pending(s, PendingStep(s, e, tv, absolute, at), e, at, Period(s, e, tv, absolute))
<1> DEFINE t == InsertStep(s, e)
           u == WithPeriod(t, e, tv, absolute)
           v == Reschedule(u, e, at)
<1>0. s.flags \in [Event -> SUBSET Flag]
  BY BaseHas DEF GoodLists
<1>1. Inserted(s, t, e)
  BY InsertStepIs
<1> HIDE DEF t
<1>2. PeriodSet(t, u, Period(t, e, tv, absolute))
  BY <1>1, PeriodIs DEF Inserted
<1> HIDE DEF u
<1>3. Rescheduled(u, v, e, at)
  BY <1>2, RescheduleIs DEF PeriodSet
<1> HIDE DEF v
<1>4. Period(t, e, tv, absolute) = Period(s, e, tv, absolute)
  BY <1>1 DEF Period, Inserted, SameFields
<1>5. /\ GoodLists(v) /\ v.io = Period(s, e, tv, absolute) /\ v.pri = s.pri /\ v.res = s.res
      /\ v.continue = s.continue /\ v.running_priority = s.running_priority
  BY <1>1, <1>2, <1>3, <1>4 DEF Inserted, PeriodSet, Rescheduled, SameFields, SameButTimes
<1>6. v.tmo = [s.tmo EXCEPT ![e] = at]
  BY <1>1, <1>2, <1>3 DEF Inserted, PeriodSet, Rescheduled, SameFields
<1>7. u.flags = [s.flags EXCEPT ![e] = @ \cup Inserts(s, e)] /\ u.res = s.res
  BY <1>1, <1>2 DEF Inserted, PeriodSet, SameFields
<1>8. v.flags = [u.flags EXCEPT ![e] = FlagsKept(u, e) \cup {"TIMEOUT"}]
  BY <1>3 DEF Rescheduled
<1>9. FlagsKept(u, e) \cup {"TIMEOUT"} = FlagsKept(s, e) \cup Inserts(s, e) \cup {"TIMEOUT"}
  <2>1. u.flags[e] = s.flags[e] \cup Inserts(s, e)
    BY <1>0, <1>7
  <2>2. "ACTIVE" \notin Inserts(s, e)
    BY DEF Inserts
  <2>3. FlagsKept(u, e) = FlagsKept(s, e) \cup Inserts(s, e)
    BY <1>7, <2>1, <2>2 DEF FlagsKept
  <2> QED  BY <2>3
<1>10. v.flags = [s.flags EXCEPT ![e] = FlagsKept(s, e) \cup Inserts(s, e) \cup {"TIMEOUT"}]
  <2> DEFINE K == FlagsKept(s, e) \cup Inserts(s, e) \cup {"TIMEOUT"}
             I == Inserts(s, e)
  <2>1. v.flags = [u.flags EXCEPT ![e] = K] /\ u.flags = [s.flags EXCEPT ![e] = @ \cup I]
    BY <1>7, <1>8, <1>9
  <2> HIDE DEF K, I
  <2>2. v.flags = [s.flags EXCEPT ![e] = K]
    BY <1>0, <2>1
  <2> QED  BY <2>2 DEF K
<1> QED  BY <1>5, <1>6, <1>10 DEF PendingStep, Pending, t, u, v

\* e is the first of its queue, whose timer is set to the due time of e.
Leads(s, t, e, at) ==
  /\ "TIMEOUT" \in t.flags[at.c] /\ t.flags[at.c] \subseteq s.flags[at.c] \cup {"TIMEOUT"}
  /\ t.tmo[at.c] = [d |-> at.d, c |-> NoQueue]
  /\ \A f \in InQueue(t, at.c) : at.d <= t.tmo[f].d
  /\ Head(t.ctl[at.c]) = e
\* Another event is due before e in its queue.
Follows(s, t, e, at) ==
  /\ t.flags[at.c] = s.flags[at.c] /\ t.tmo[at.c] = s.tmo[at.c]
  /\ \E f \in InQueue(t, at.c) \ {e} : t.tmo[f].d <= at.d

\* event_add_internal with a timeout.
Added(s, t, e, at, io) ==
  /\ GoodLists(t) /\ t.io = io /\ t.pri = s.pri /\ t.res = s.res
  /\ t.continue = s.continue /\ t.running_priority = s.running_priority
  /\ t.tmo[e] = at /\ t.flags[e] = FlagsKept(s, e) \cup Inserts(s, e) \cup {"TIMEOUT"}
  /\ \A y \in Event \ {e, at.c} : t.flags[y] = s.flags[y] /\ t.tmo[y] = s.tmo[y]
  /\ at.c # NoQueue => Leads(s, t, e, at) \/ Follows(s, t, e, at)

Due(tv, absolute, now) == [d |-> IF absolute THEN tv.d ELSE now + tv.d, c |-> tv.c]

LEMMA AddIs ==
  ASSUME NEW s, GoodLists(s), KindsInv(s), NEW e \in UserEvent, NEW tv \in Tv, tv # NoTv,
         NEW absolute \in BOOLEAN, NEW now \in Int
  PROVE  Added(s, event_add_internal(s, e, tv, absolute, now), e, Due(tv, absolute, now),
               Period(s, e, tv, absolute))
<1> DEFINE at == Due(tv, absolute, now)
           io == Period(s, e, tv, absolute)
           v  == PendingStep(s, e, tv, absolute, at)
           c  == tv.c
           w  == IF c # NoQueue /\ Head(v.ctl[c]) = e THEN common_timeout_schedule(v, c) ELSE v
<1>0. /\ e \in Event /\ s.flags \in [Event -> SUBSET Flag] /\ s.tmo \in [Event -> Tv]
      /\ CommonQueue \subseteq Event
  BY BaseHas DEF Event, GoodLists
<1>1. at \in Tv /\ at = [tv EXCEPT !.d = IF absolute THEN @ ELSE now + @] /\ at.c = c
  BY DEF Tv, Due
<1>2. event_add_internal(s, e, tv, absolute, now) = w
  BY <1>1 DEF event_add_internal, PendingStep, WithPeriod, InsertStep
<1> HIDE DEF at
<1>3. Pending(s, v, e, at, io)
  BY <1>0, <1>1, PendingIs
<1> HIDE DEF v, io
<1>4. /\ GoodLists(v) /\ v.io = io /\ v.pri = s.pri /\ v.res = s.res
      /\ v.continue = s.continue /\ v.running_priority = s.running_priority
      /\ v.tmo[e] = at /\ v.flags[e] = FlagsKept(s, e) \cup Inserts(s, e) \cup {"TIMEOUT"}
      /\ \A y \in Event \ {e} : v.flags[y] = s.flags[y] /\ v.tmo[y] = s.tmo[y]
  BY <1>0, <1>3 DEF Pending
<1>5. CASE c = NoQueue
  <2>1. w = v
    BY <1>5
  <2> QED  BY <1>1, <1>2, <1>4, <1>5, <2>1 DEF Added, at, io
<1>6. CASE c # NoQueue
  <2>1. c \in CommonQueue /\ c \in Event /\ c # e
    BY <1>0, <1>6, BaseAssumption DEF Tv
  <2>2. e \in InQueue(v, c)
    BY <1>0, <1>1, <1>4 DEF InQueue
  <2>3. /\ v.ctl[c] # <<>> /\ Head(v.ctl[c]) \in InQueue(v, c)
        /\ \A f \in InQueue(v, c) : v.tmo[Head(v.ctl[c])].d <= v.tmo[f].d
    BY <1>4, <2>1, <2>2, QueueHead
  <2>4. v.tmo[c].c = NoQueue
    BY <1>4, <2>1 DEF KindsInv
  <2>5. CASE Head(v.ctl[c]) # e
    <3>1. w = v
      BY <2>5
    <3>2. Follows(s, v, e, at)
      BY <1>1, <1>4, <2>1, <2>2, <2>3, <2>5 DEF Follows
    <3> QED  BY <1>1, <1>2, <1>4, <3>1, <3>2 DEF Added, at, io
  <2>6. CASE Head(v.ctl[c]) = e
    <3> DEFINE ct == [d |-> at.d, c |-> NoQueue]
    <3>1. w = Reschedule(v, c, ct)
      BY <1>4, <1>6, <2>6 DEF common_timeout_schedule
    <3>2. ct \in Tv /\ ct.c = NoQueue /\ ct.d = at.d
      BY <1>1 DEF Tv
    <3> HIDE DEF ct
    <3>3. Rescheduled(v, w, c, ct)
      BY <1>4, <2>1, <3>1, <3>2, RescheduleIs
    <3>4. w.ctl = v.ctl
      BY <1>4, <2>1, <2>4, <3>1, <3>2, RescheduleCtl
    <3> HIDE DEF w
    <3>5. v.flags \in [Event -> SUBSET Flag] /\ v.tmo \in [Event -> Tv]
      BY <1>4, BaseHas DEF GoodLists
    <3>6. /\ GoodLists(w) /\ w.io = io /\ w.pri = s.pri /\ w.res = s.res
          /\ w.continue = s.continue /\ w.running_priority = s.running_priority
      BY <1>4, <3>3 DEF Rescheduled, SameButTimes
    <3>7. \A y \in Event \ {c} : w.flags[y] = v.flags[y] /\ w.tmo[y] = v.tmo[y]
      BY <3>3, <3>5 DEF Rescheduled
    <3>8. w.flags[c] = FlagsKept(v, c) \cup {"TIMEOUT"} /\ w.tmo[c] = ct
      BY <2>1, <3>3, <3>5 DEF Rescheduled
    <3>9. InQueue(w, c) \subseteq InQueue(v, c)
      BY <2>1, <3>2, <3>7, <3>8, BaseAssumption DEF InQueue
    <3>10. \A f \in InQueue(w, c) : at.d <= w.tmo[f].d
      <4> SUFFICES ASSUME NEW f \in InQueue(w, c) PROVE at.d <= w.tmo[f].d
        OBVIOUS
      <4>1. f \in InQueue(v, c) /\ f # c /\ f \in Event
        BY <3>2, <3>8, <3>9, <2>1, BaseAssumption DEF InQueue
      <4> QED  BY <1>4, <2>3, <2>6, <3>7, <4>1
    <3>11. Leads(s, w, e, at)
      BY <1>1, <1>4, <2>1, <2>6, <3>4, <3>8, <3>10 DEF Leads, FlagsKept, ct
    <3>12. /\ w.tmo[e] = at /\ w.flags[e] = FlagsKept(s, e) \cup Inserts(s, e) \cup {"TIMEOUT"}
           /\ \A y \in Event \ {e, c} : w.flags[y] = s.flags[y] /\ w.tmo[y] = s.tmo[y]
      BY <1>0, <1>4, <2>1, <3>7
    <3> QED  BY <1>1, <1>2, <3>6, <3>11, <3>12 DEF Added, at, io
  <2> QED  BY <2>5, <2>6
<1> QED  BY <1>5, <1>6

LEMMA SoundInsert ==
  ASSUME NEW s, NEW x, NEW e \in Event, Sound(s, x)
  PROVE  Sound(InsertStep(s, e), x) /\ Inserted(s, InsertStep(s, e), e)
<1> DEFINE t == InsertStep(s, e)
<1>1. Inserted(s, t, e)
  BY InsertStepIs DEF Sound
<1> HIDE DEF t
<1>2. s.flags \in [Event -> SUBSET Flag]
  BY BaseHas DEF Sound, GoodLists
<1>3. GoodLists(t) /\ t.pri = s.pri /\ t.io = s.io /\ t.tmo = s.tmo /\ t.res = s.res
  BY <1>1 DEF Inserted, SameFields
<1>4. \A y \in Event : /\ "TIMEOUT" \in t.flags[y] <=> "TIMEOUT" \in s.flags[y]
                       /\ "ACTIVE" \in t.flags[y] <=> "ACTIVE" \in s.flags[y]
  BY <1>1, <1>2 DEF Inserted, Inserts
<1>5. KindsInv(t)
  <2>1. IsFiniteSet({y \in Event : t.flags[y] # {}})
    BY <1>3 DEF GoodLists, Flagged
  <2>2. "TIMEOUT" \notin t.flags[th_notify]
    BY <1>4 DEF Sound, KindsInv, Event
  <2> QED  BY <1>3, <2>1, <2>2 DEF Sound, KindsInv
<1>6. DueInv(t)
  BY <1>3, <1>4 DEF Sound, DueInv
<1>7. ASSUME NEW c \in CommonQueue \ {x}
      PROVE  Covered(t, c)
  <2>1. InQueue(t, c) = InQueue(s, c)
    BY <1>3, <1>4 DEF InQueue
  <2> QED  BY <1>3, <1>4, <2>1 DEF Sound, Covered, Event
<1> QED  BY <1>1, <1>3, <1>5, <1>6, <1>7 DEF t, Sound

LEMMA SoundAdd ==
  ASSUME NEW s, NEW x, Sound(s, x), NEW e \in UserEvent, NEW tv \in Tv, tv # NoTv,
         NEW absolute \in BOOLEAN, NEW now \in Int, Due(tv, absolute, now).d \in 0 .. 2 * MaxTime,
         absolute \/ tv.d \in 0 .. MaxTime,
         absolute => tv.c = s.io[e].c
  PROVE  LET t == event_add_internal(s, e, tv, absolute, now)
         IN  Sound(t, x) /\ Added(s, t, e, Due(tv, absolute, now), Period(s, e, tv, absolute))
<1> DEFINE t  == event_add_internal(s, e, tv, absolute, now)
           at == Due(tv, absolute, now)
           io == Period(s, e, tv, absolute)
<1>0. /\ e \in Event /\ CommonQueue \subseteq Event /\ e \notin Internal /\ e \notin CommonQueue
      /\ s.io \in [Event -> Tv] /\ s.tmo \in [Event -> Tv] /\ th_notify \in Event /\ e # th_notify
      /\ \A c \in CommonQueue : ~PersistClosure(c)
      /\ th_notify \notin CommonQueue /\ NoQueue \notin CommonQueue /\ NoQueue \notin Event
      /\ s.flags \in [Event -> SUBSET Flag]
  BY BaseHas, BaseAssumption DEF Event, Internal, Sound, GoodLists, PersistClosure, IsPersist
<1>1. Added(s, t, e, at, io)
  BY AddIs DEF Sound
<1>2. at.c = tv.c /\ at.d \in 0 .. 2 * MaxTime /\ at.c \in CommonQueue \cup {NoQueue} /\ at \in Tv
  BY DEF Due, Tv
<1>3. /\ \A y \in Event : y # e => io[y] = s.io[y]
      /\ io[e] = IF PersistClosure(e) /\ ~absolute THEN tv ELSE s.io[e]
  BY <1>0 DEF Period
<1> HIDE DEF t, at, io
<1>4. /\ GoodLists(t) /\ t.io = io /\ t.pri = s.pri /\ t.res = s.res
      /\ t.tmo[e] = at
      /\ \A y \in Event \ {e, at.c} : t.flags[y] = s.flags[y] /\ t.tmo[y] = s.tmo[y]
      /\ at.c # NoQueue => Leads(s, t, e, at) \/ Follows(s, t, e, at)
  BY <1>1 DEF Added
<1>5. /\ "TIMEOUT" \in t.flags[e]
      /\ "ACTIVE" \in t.flags[e] => "TIMEOUT" \notin s.res[e]
  BY <1>1 DEF Added, FlagsKept, Inserts
<1>6. ASSUME at.c \in CommonQueue
      PROVE  /\ t.tmo[at.c].c = NoQueue
             /\ t.tmo[at.c].d = at.d \/ (t.tmo[at.c].d = s.tmo[at.c].d /\ t.flags[at.c] = s.flags[at.c])
  <2>1. at.c # NoQueue /\ s.tmo[at.c].c = NoQueue
    BY <1>0, <1>6 DEF Sound, KindsInv
  <2>2. CASE Leads(s, t, e, at)
    BY <2>2 DEF Leads
  <2>3. CASE Follows(s, t, e, at)
    BY <2>1, <2>3 DEF Follows
  <2> QED  BY <1>4, <2>1, <2>2, <2>3
<1>7. KindsInv(t)
  <2>1. IsFiniteSet({y \in Event : t.flags[y] # {}})
    BY <1>4 DEF GoodLists, Flagged
  <2>2. "TIMEOUT" \notin t.flags[th_notify]
    BY <1>0, <1>2, <1>4 DEF Sound, KindsInv
  <2>3. \A y \in Internal : t.pri[y] = 0 /\ t.io[y].d = 0
    BY <1>0, <1>3, <1>4 DEF Sound, KindsInv, Internal, Event
  <2>4. \A c \in CommonQueue : t.tmo[c].c = NoQueue
    BY <1>0, <1>4, <1>6 DEF Sound, KindsInv
  <2>5. ASSUME NEW y \in Event, t.io[y].d # 0
        PROVE  PersistClosure(y) /\ t.io[y].c = t.tmo[y].c
    <3>1. CASE y = e
      BY <1>0, <1>2, <1>3, <1>4, <2>5, <3>1 DEF Sound, KindsInv
    <3>2. CASE y # e
      <4>1. s.io[y].d # 0 /\ t.io[y] = s.io[y]
        BY <1>3, <1>4, <2>5, <3>2
      <4>2. PersistClosure(y) /\ s.io[y].c = s.tmo[y].c
        BY <4>1 DEF Sound, KindsInv
      <4>3. y # at.c
        BY <1>0, <1>2, <4>2, BaseAssumption DEF Event
      <4> QED  BY <1>4, <3>2, <4>1, <4>2, <4>3
    <3> QED  BY <3>1, <3>2
  <2> QED  BY <2>1, <2>2, <2>3, <2>4, <2>5 DEF KindsInv
<1>8. DueInv(t)
  <2> SUFFICES ASSUME NEW y \in Event
               PROVE  /\ t.io[y].d \in 0 .. MaxTime
                      /\ "TIMEOUT" \in t.flags[y] => t.tmo[y].d \in 0 .. 2 * MaxTime
                      /\ PersistClosure(y) /\ "ACTIVE" \in t.flags[y] /\ "TIMEOUT" \in t.res[y] =>
                           t.tmo[y].d <= MaxTime
    BY DEF DueInv
  <2>0. /\ s.io[y].d \in 0 .. MaxTime
        /\ "TIMEOUT" \in s.flags[y] => s.tmo[y].d \in 0 .. 2 * MaxTime
        /\ PersistClosure(y) /\ "ACTIVE" \in s.flags[y] /\ "TIMEOUT" \in s.res[y] => s.tmo[y].d <= MaxTime
    BY DEF Sound, DueInv
  <2>1. CASE y = e
    BY <1>2, <1>3, <1>4, <1>5, <2>0, <2>1
  <2>2. CASE y # e /\ y = at.c
    <3>1. y \in CommonQueue /\ ~PersistClosure(y)
      BY <1>0, <1>2, <2>2, BaseAssumption DEF Event, PersistClosure, IsPersist
    <3>2. t.io[y].d \in 0 .. MaxTime
      BY <1>3, <1>4, <2>0, <2>2
    <3>3. t.tmo[y].d = at.d \/ (t.tmo[y].d = s.tmo[y].d /\ t.flags[y] = s.flags[y])
      BY <1>6, <2>2, <3>1
    <3> QED  BY <1>2, <2>0, <3>1, <3>2, <3>3
  <2>3. CASE y # e /\ y # at.c
    BY <1>3, <1>4, <2>0, <2>3
  <2> QED  BY <2>1, <2>2, <2>3
<1>9. ASSUME NEW c \in CommonQueue \ {x}
      PROVE  Covered(t, c)
  <2>0. Covered(s, c) /\ c # e /\ c \in Event /\ s.tmo[c].c = NoQueue
    BY <1>0 DEF Sound, KindsInv
  <2>1. CASE c # at.c
    <3>1. t.flags[c] = s.flags[c] /\ t.tmo[c] = s.tmo[c]
      BY <1>4, <2>0, <2>1
    <3>2. \A f \in InQueue(t, c) : f \in InQueue(s, c) /\ t.tmo[f] = s.tmo[f]
      BY <1>0, <1>2, <1>4, <1>6, <2>1 DEF InQueue
    <3> QED  BY <2>0, <3>1, <3>2 DEF Covered
  <2>2. CASE c = at.c /\ Leads(s, t, e, at)
    <3>1. t.tmo[c].d = at.d
      BY <2>2 DEF Leads
    <3> QED  BY <2>2, <3>1 DEF Leads, Covered
  <2>3. CASE c = at.c /\ Follows(s, t, e, at)
    <3>1. t.flags[c] = s.flags[c] /\ t.tmo[c] = s.tmo[c]
      BY <2>3 DEF Follows
    <3>2. PICK f \in InQueue(t, c) \ {e} : t.tmo[f].d <= at.d
      BY <2>3 DEF Follows
    <3>3. \A g \in InQueue(t, c) : g = e \/ (g \in InQueue(s, c) /\ t.tmo[g] = s.tmo[g])
      BY <1>0, <1>4, <2>0, <2>3, <3>1 DEF InQueue
    <3>4. f \in InQueue(s, c) /\ t.tmo[f] = s.tmo[f] /\ f \in Event
      BY <3>2, <3>3 DEF InQueue
    <3>5. CASE "ACTIVE" \in s.flags[c]
      BY <3>1, <3>5 DEF Covered
    <3>6. CASE "TIMEOUT" \in s.flags[c] /\ \A g \in InQueue(s, c) : s.tmo[c].d <= s.tmo[g].d
      <4>1. s.tmo[c].d \in Int /\ s.tmo[f].d \in Int /\ at.d \in Int
        BY <1>0, <1>2, <2>0, <3>4 DEF Tv
      <4>2. t.tmo[c].d <= t.tmo[e].d
        BY <1>4, <3>1, <3>2, <3>4, <3>6, <4>1
      <4>3. \A g \in InQueue(t, c) : t.tmo[c].d <= t.tmo[g].d
        BY <3>1, <3>3, <3>6, <4>2
      <4> QED  BY <3>1, <3>6, <4>3 DEF Covered
    <3> QED  BY <2>0, <3>4, <3>5, <3>6 DEF Covered
  <2> QED  BY <1>0, <1>4, <2>1, <2>2, <2>3
<1> QED  BY <1>1, <1>4, <1>7, <1>8, <1>9 DEF Sound, t, at, io

\* The end of common_timeout_callback: the timer is set to the first event left.
LEMMA SoundSchedule ==
  ASSUME NEW s, NEW c \in CommonQueue, Sound(s, c), s.ctl[c] # <<>>, NEW x
  PROVE  LET t == common_timeout_schedule(s, c)
         IN  /\ Sound(t, x)
             /\ t.continue = s.continue /\ t.running_priority = s.running_priority /\ t.pri = s.pri
             /\ Active(t) \subseteq Active(s)
<1> DEFINE t == common_timeout_schedule(s, c)
           at == [d |-> s.tmo[Head(s.ctl[c])].d, c |-> NoQueue]
<1>0. /\ s.flags \in [Event -> SUBSET Flag] /\ s.tmo \in [Event -> Tv] /\ c \in Event /\ GoodLists(s)
      /\ ~PersistClosure(c) /\ th_notify # c /\ s.tmo[c].c = NoQueue
      /\ NoQueue \notin CommonQueue /\ CommonQueue \subseteq Event
  BY BaseHas, BaseAssumption DEF Sound, GoodLists, Event, PersistClosure, IsPersist, KindsInv
<1>1. /\ Head(s.ctl[c]) \in InQueue(s, c)
      /\ \A f \in InQueue(s, c) : s.tmo[Head(s.ctl[c])].d <= s.tmo[f].d
  BY <1>0, QueueHead
<1>2. at \in Tv /\ at.c = NoQueue /\ at.d = s.tmo[Head(s.ctl[c])].d
  BY <1>0, <1>1 DEF Tv, InQueue
<1>3. at.d \in 0 .. 2 * MaxTime /\ \A f \in InQueue(s, c) : at.d <= s.tmo[f].d
  BY <1>1, <1>2 DEF Sound, DueInv, InQueue
<1>4. t = Reschedule(s, c, at)
  BY DEF common_timeout_schedule
<1> HIDE DEF at
<1>5. Rescheduled(s, t, c, at)
  BY <1>0, <1>2, <1>4, RescheduleIs
<1> HIDE DEF t
<1>6. /\ GoodLists(t) /\ t.io = s.io /\ t.pri = s.pri /\ t.res = s.res
      /\ t.continue = s.continue /\ t.running_priority = s.running_priority
      /\ t.tmo[c] = at /\ "TIMEOUT" \in t.flags[c]
      /\ "ACTIVE" \in t.flags[c] => "ACTIVE" \in s.flags[c]
      /\ \A y \in Event : y # c => t.flags[y] = s.flags[y] /\ t.tmo[y] = s.tmo[y]
  BY <1>0, <1>5 DEF Rescheduled, SameButTimes, FlagsKept
<1>7. KindsInv(t)
  <2>1. IsFiniteSet({y \in Event : t.flags[y] # {}})
    BY <1>6 DEF GoodLists, Flagged
  <2>2. "TIMEOUT" \notin t.flags[th_notify]
    BY <1>0, <1>6 DEF Sound, KindsInv, Event
  <2>3. \A k \in CommonQueue : t.tmo[k].c = NoQueue
    BY <1>0, <1>2, <1>6 DEF Sound, KindsInv
  <2>4. \A y \in Event : t.io[y].d # 0 => PersistClosure(y) /\ t.io[y].c = t.tmo[y].c
    BY <1>0, <1>6 DEF Sound, KindsInv
  <2> QED  BY <1>6, <2>1, <2>2, <2>3, <2>4 DEF Sound, KindsInv
<1>8. DueInv(t)
  BY <1>0, <1>3, <1>6 DEF Sound, DueInv
<1>9. ASSUME NEW k \in CommonQueue
      PROVE  Covered(t, k)
  <2>1. \A f \in InQueue(t, k) : f \in InQueue(s, k) /\ t.tmo[f] = s.tmo[f]
    BY <1>0, <1>2, <1>6, <1>9 DEF InQueue
  <2>2. CASE k = c
    BY <1>3, <1>6, <2>1, <2>2 DEF Covered
  <2>3. CASE k # c
    BY <1>0, <1>6, <2>1, <2>3 DEF Covered, Sound
  <2> QED  BY <2>2, <2>3
<1>10. Active(t) \subseteq Active(s)
  BY <1>6 DEF Active
<1> QED  BY <1>6, <1>7, <1>8, <1>9, <1>10 DEF Sound, t

-------------------------------------------------------------------------------
(***************************************************************************)
(* The rest of the changes that callers and the loop make to b.            *)
(***************************************************************************)

\* e loses some of its flags.  If it is the timer of a queue, the queue is no
\* longer covered.
Shrunk(s, t, e) == /\ GoodLists(t) /\ SameFields(s, t) /\ t.flags[e] \subseteq s.flags[e]
                   /\ \A y \in Event : y # e => t.flags[y] = s.flags[y]

LEMMA SoundShrunk ==
  ASSUME NEW s, NEW t, NEW e \in Event, Sound(s, NoEvent), Shrunk(s, t, e)
  PROVE  Sound(t, e)
<1>1. GoodLists(t) /\ t.pri = s.pri /\ t.io = s.io /\ t.tmo = s.tmo /\ t.res = s.res
  BY DEF Shrunk, SameFields
<1>2. \A y \in Event : t.flags[y] \subseteq s.flags[y]
  BY DEF Shrunk
<1>3. KindsInv(t)
  <2>1. IsFiniteSet({y \in Event : t.flags[y] # {}})
    BY <1>1 DEF GoodLists, Flagged
  <2>2. "TIMEOUT" \notin t.flags[th_notify]
    BY <1>2 DEF Sound, KindsInv, Event
  <2> QED  BY <1>1, <2>1, <2>2 DEF Sound, KindsInv
<1>4. DueInv(t)
  BY <1>1, <1>2 DEF Sound, DueInv
<1>5. ASSUME NEW c \in CommonQueue \ {e}
      PROVE  Covered(t, c)
  <2>1. t.flags[c] = s.flags[c] /\ InQueue(t, c) \subseteq InQueue(s, c) /\ c # NoEvent
    BY <1>1, <1>2, BaseAssumption DEF InQueue, Event, Shrunk
  <2> QED  BY <1>1, <2>1 DEF Sound, Covered
<1> QED  BY <1>1, <1>3, <1>4, <1>5 DEF Sound

\* Which event is exempt matters only if it is the timer of a queue.
LEMMA SoundExempt ==
  ASSUME NEW s, NEW x, NEW y, Sound(s, x), x \notin CommonQueue \/ Covered(s, x)
  PROVE  Sound(s, y)
BY DEF Sound

LEMMA SoundPri ==
  ASSUME NEW s, NEW x, Sound(s, x), NEW e \in UserEvent, NEW p \in Prio, "ACTIVE" \notin s.flags[e]
  PROVE  LET t == [s EXCEPT !.pri[e] = p]
         IN  /\ Sound(t, x) /\ t.flags = s.flags /\ t.tmo = s.tmo
             /\ t.continue = s.continue /\ t.running_priority = s.running_priority
             /\ \A y \in Event : y # e => t.pri[y] = s.pri[y]
<1> DEFINE m == [s.pri EXCEPT ![e] = p]
           t == [s EXCEPT !.pri[e] = p]
<1>0. s \in Base /\ s.pri \in [Event -> Prio] /\ e \in Event /\ e \notin Internal
  BY BaseHas, BaseAssumption DEF Sound, GoodLists, Event, Internal
<1>1. t = [s EXCEPT !.pri = m]
  BY <1>0 DEF Base
<1>2. m \in [Event -> Prio] /\ \A y \in Event : y # e => m[y] = s.pri[y]
  BY <1>0
<1> HIDE DEF t, m
<1>3. t.pri = m /\ t.continue = s.continue /\ t.running_priority = s.running_priority
  BY <1>0, <1>1 DEF Base
<1>4. /\ t.flags = s.flags /\ t.activeq = s.activeq /\ t.ctl = s.ctl /\ t.count = s.count
      /\ t.nactive = s.nactive /\ t.tmo = s.tmo /\ t.io = s.io /\ t.res = s.res
  BY <1>0, <1>1 DEF Base
<1>5. t \in Base
  BY <1>0, <1>1, <1>2 DEF Base
<1>6. GoodLists(t)
  BY <1>2, <1>3, <1>4, <1>5, GoodUnlisted DEF Sound
<1>7. KindsInv(t)
  BY <1>0, <1>2, <1>3, <1>4 DEF Sound, KindsInv, Internal, Event
<1>8. DueInv(t)
  BY <1>4 DEF Sound, DueInv
<1>9. \A c : InQueue(t, c) = InQueue(s, c)
  BY <1>4 DEF InQueue
<1>10. \A c \in CommonQueue \ {x} : Covered(t, c)
  BY <1>4, <1>9 DEF Sound, Covered
<1> QED  BY <1>2, <1>3, <1>4, <1>6, <1>7, <1>8, <1>10 DEF Sound, t

\* event_active_nolock before it waits for a running signal callback.
ActiveWaits(s, e) == [s EXCEPT !.res[e] = {"IO"}, !.continue = @ \/ s.pri[e] < s.running_priority]

LEMMA SoundWaits ==
  ASSUME NEW s, NEW x, Sound(s, x), NEW e \in Event
  PROVE  LET t == ActiveWaits(s, e)
         IN  /\ Sound(t, x) /\ t.flags = s.flags /\ t.tmo = s.tmo /\ t.pri = s.pri
             /\ t.continue = (s.continue \/ s.pri[e] < s.running_priority)
             /\ t.running_priority = s.running_priority
<1> DEFINE m == [s.res EXCEPT ![e] = {"IO"}]
           k == s.continue \/ s.pri[e] < s.running_priority
           t == ActiveWaits(s, e)
<1>0. s \in Base /\ s.res \in [Event -> SUBSET {"IO", "TIMEOUT"}] /\ s.continue \in BOOLEAN
  BY BaseHas DEF Sound, GoodLists
<1>1. t = [s EXCEPT !.res = m, !.continue = k]
  BY <1>0 DEF Base, ActiveWaits
<1>2. m \in [Event -> SUBSET {"IO", "TIMEOUT"}] /\ \A y \in Event : "TIMEOUT" \in m[y] => m[y] = s.res[y]
  BY <1>0
<1>2a. k \in BOOLEAN
  BY <1>0
<1> HIDE DEF t, m, k
<1>3. t.res = m /\ t.continue = k /\ t.running_priority = s.running_priority
  BY <1>0, <1>1 DEF Base
<1>4. SameLists(s, t)
  BY <1>0, <1>1 DEF Base, SameLists
<1>5. t \in Base
  BY <1>0, <1>1, <1>2, <1>2a DEF Base
<1>6. GoodLists(t)
  BY <1>4, <1>5, GoodSame DEF Sound
<1>7. KindsInv(t)
  BY <1>4 DEF Sound, KindsInv, SameLists
<1>8. DueInv(t)
  BY <1>2, <1>3, <1>4 DEF Sound, DueInv, SameLists
<1>9. \A c : InQueue(t, c) = InQueue(s, c)
  BY <1>4 DEF InQueue, SameLists
<1>10. \A c \in CommonQueue \ {x} : Covered(t, c)
  BY <1>4, <1>9 DEF Sound, Covered, SameLists
<1> QED  BY <1>3, <1>4, <1>6, <1>7, <1>8, <1>10 DEF Sound, SameLists, t, k

\* A new number of calls for a signal.
WithCalls(s, e, n, p) == [s EXCEPT !.ncalls[e] = n, !.pncalls[e] = p]

LEMMA SoundCalls ==
  ASSUME NEW s, NEW x, Sound(s, x), NEW e \in Event, NEW n \in Nat, NEW p \in BOOLEAN
  PROVE  LET t == WithCalls(s, e, n, p)
         IN  /\ Sound(t, x) /\ SoundFields(s, t)
             /\ t.continue = s.continue /\ t.running_priority = s.running_priority
<1> DEFINE m == [s.ncalls EXCEPT ![e] = n]
           k == [s.pncalls EXCEPT ![e] = p]
           t == WithCalls(s, e, n, p)
<1>0. s \in Base /\ s.ncalls \in [Event -> Nat] /\ s.pncalls \in [Event -> BOOLEAN]
  BY BaseHas DEF Sound, GoodLists
<1>1. t = [s EXCEPT !.ncalls = m, !.pncalls = k]
  BY <1>0 DEF Base, WithCalls
<1>2. m \in [Event -> Nat]
  BY <1>0
<1>2a. k \in [Event -> BOOLEAN]
  BY <1>0
<1> HIDE DEF t, m, k
<1>3. SoundFields(s, t)
  BY <1>0, <1>1 DEF Base, SameLists, SoundFields
<1>4. t \in Base
  BY <1>0, <1>1, <1>2, <1>2a DEF Base
<1>5. t.continue = s.continue /\ t.running_priority = s.running_priority
  BY <1>0, <1>1 DEF Base
<1> QED  BY <1>3, <1>4, <1>5, SoundSame DEF t

\* The fields of the loop itself.
WithLoop(s, k, r) == [s EXCEPT !.continue = k, !.running_priority = r]

LEMMA SoundLoop ==
  ASSUME NEW s, NEW x, Sound(s, x), NEW k \in BOOLEAN, NEW r \in Prio \cup {-1}
  PROVE  LET t == WithLoop(s, k, r)
         IN  Sound(t, x) /\ SoundFields(s, t) /\ t.continue = k /\ t.running_priority = r
<1> DEFINE t == WithLoop(s, k, r)
<1>0. s \in Base
  BY DEF Sound, GoodLists
<1>1. SoundFields(s, t)
  BY <1>0 DEF Base, SameLists, SoundFields, WithLoop
<1>2. t \in Base
  BY <1>0 DEF Base, WithLoop
<1>3. t.continue = k /\ t.running_priority = r
  BY <1>0 DEF Base, WithLoop
<1> HIDE DEF t
<1> QED  BY <1>1, <1>2, <1>3, SoundSame DEF t

LEMMA AddedActive ==
  ASSUME NEW s, NEW t, NEW e \in Event, NEW at \in Tv, NEW io, Added(s, t, e, at, io)
  PROVE  Active(t) \subseteq Active(s)
<1> SUFFICES ASSUME NEW y \in Event, "ACTIVE" \in t.flags[y] PROVE "ACTIVE" \in s.flags[y]
  BY DEF Active
<1>1. CASE y = e
  <2>1. "ACTIVE" \in FlagsKept(s, e)
    BY <1>1 DEF Added, Inserts
  <2> QED  BY <1>1, <2>1 DEF FlagsKept
<1>2. CASE y # e /\ y = at.c
  <2>1. at.c # NoQueue
    BY <1>2, BaseAssumption
  <2>2. CASE Leads(s, t, e, at)
    BY <1>2, <2>2 DEF Leads
  <2>3. CASE Follows(s, t, e, at)
    BY <1>2, <2>3 DEF Follows
  <2> QED  BY <2>1, <2>2, <2>3 DEF Added
<1>3. CASE y # e /\ y # at.c
  BY <1>3 DEF Added
<1> QED  BY <1>1, <1>2, <1>3

\* The event that Pick takes, with priority q.
Picked(s, e, q) ==
  LET r == IF IsPersist(e) THEN event_queue_remove(s, e, "ACTIVE") ELSE event_del_internal(s, e)
      u == [r EXCEPT !.running_priority = q]
  IN  SignalEnter(PersistRearm(u, e), e)
PickResult(s, t, e, q) ==
  /\ Sound(t, e) /\ t.running_priority = q /\ t.continue = s.continue /\ t.pri = s.pri
  /\ Active(t) \subseteq Active(s) \ {e}

LEMMA SoundPicked ==
  ASSUME NEW s, Sound(s, NoEvent), NEW e \in Active(s), NEW q \in Prio, gettime \in 0 .. MaxTime
  PROVE  PickResult(s, Picked(s, e, q), e, q)
<1> DEFINE r == IF IsPersist(e) THEN event_queue_remove(s, e, "ACTIVE") ELSE event_del_internal(s, e)
           u == [r EXCEPT !.running_priority = q]
           v == PersistRearm(u, e)
           t == SignalEnter(v, e)
<1>0. /\ e \in Event /\ "ACTIVE" \in s.flags[e] /\ s.flags \in [Event -> SUBSET Flag] /\ GoodLists(s)
      /\ NoEvent \notin Event
  BY BaseHas, BaseAssumption DEF Active, Sound, GoodLists
<1>t. Picked(s, e, q) = t
  BY DEF Picked
<1>1. Shrunk(s, r, e) /\ "ACTIVE" \notin r.flags[e]
  <2>1. CASE IsPersist(e)
    <3> DEFINE r1 == event_queue_remove(s, e, "ACTIVE")
    <3>1. GoodLists(r1) /\ SameFields(s, r1) /\ r1.flags = [s.flags EXCEPT ![e] = @ \ {"ACTIVE"}]
      BY <1>0, GoodRemoveActive
    <3>2. r = r1
      BY <2>1
    <3> HIDE DEF r1, r
    <3> QED  BY <1>0, <3>1, <3>2 DEF Shrunk
  <2>2. CASE ~IsPersist(e)
    <3> DEFINE r2 == event_del_internal(s, e)
    <3>1. Deleted(s, r2, e)
      BY <1>0, DelIs
    <3>2. r = r2
      BY <2>2
    <3> HIDE DEF r2, r
    <3> QED  BY <1>0, <3>1, <3>2 DEF Shrunk, Deleted
  <2> QED  BY <2>1, <2>2
<1> HIDE DEF r
<1>2. Sound(r, e)
  BY <1>0, <1>1, SoundShrunk
<1>3. /\ r.pri = s.pri /\ r.continue = s.continue /\ r.res = s.res /\ r.tmo = s.tmo /\ r.io = s.io
      /\ r.continue \in BOOLEAN
      /\ \A y \in Event : "ACTIVE" \in r.flags[y] => "ACTIVE" \in s.flags[y]
  BY <1>0, <1>1, BaseHas DEF Shrunk, SameFields, GoodLists
<1>4. u = WithLoop(r, r.continue, q)
  BY <1>2 DEF WithLoop, Sound, GoodLists, Base
<1> HIDE DEF u
<1>5. Sound(u, e) /\ SoundFields(r, u) /\ u.continue = r.continue /\ u.running_priority = q
  BY <1>2, <1>3, <1>4, SoundLoop
<1>6. /\ u.pri = s.pri /\ u.continue = s.continue /\ u.res = s.res /\ u.tmo = s.tmo /\ u.io = s.io
      /\ Active(u) \subseteq Active(s) \ {e}
  BY <1>0, <1>1, <1>3, <1>5 DEF SoundFields, SameLists, Active
<1>7. PickResult(s, v, e, q)
  <2>1. CASE ~(PersistClosure(e) /\ u.io[e].d # 0)
    <3>1. v = u
      BY <2>1 DEF PersistRearm
    <3> QED  BY <1>5, <1>6, <3>1 DEF PickResult
  <2>2. CASE PersistClosure(e) /\ u.io[e].d # 0
    <3> DEFINE start  == IF "TIMEOUT" \in u.res[e] THEN u.tmo[e].d ELSE gettime
               run_at == IF start + u.io[e].d < gettime THEN gettime + u.io[e].d ELSE start + u.io[e].d
               tv     == [d |-> run_at, c |-> u.io[e].c]
    <3>1. v = event_add_internal(u, e, tv, TRUE, gettime)
      BY <2>2 DEF PersistRearm
    <3>2. e \in UserEvent
      BY <1>0, <1>5, <2>2 DEF Sound, KindsInv, Internal, Event
    <3>3. u.tmo[e] \in Tv /\ u.io[e] \in Tv
      BY <1>0, <1>5, BaseHas DEF Sound, GoodLists
    <3>4. u.tmo[e].d \in Int /\ u.io[e].d \in 0 .. MaxTime
      BY <1>0, <1>5, <3>3 DEF Sound, DueInv, Tv
    <3>5. "TIMEOUT" \in u.res[e] => u.tmo[e].d <= MaxTime
      BY <1>0, <1>6, <2>2 DEF Sound, DueInv
    <3>6. run_at \in 0 .. 2 * MaxTime
      BY <3>4, <3>5, BaseAssumption
    <3> HIDE DEF run_at
    <3>7. tv \in Tv /\ tv # NoTv /\ tv.c = u.io[e].c /\ tv.d = run_at
      BY <3>3, <3>6 DEF Tv, NoTv
    <3>8. Due(tv, TRUE, gettime).d \in 0 .. 2 * MaxTime /\ Due(tv, TRUE, gettime) \in Tv
      BY <3>6, <3>7 DEF Due, Tv
    <3> HIDE DEF tv
    <3>9. Sound(v, e) /\ Added(u, v, e, Due(tv, TRUE, gettime), Period(u, e, tv, TRUE))
      <4>1. gettime \in Int /\ TRUE \in BOOLEAN
        OBVIOUS
      <4> HIDE DEF v
      <4> QED  BY <1>5, <3>1, <3>2, <3>7, <3>8, <4>1, SoundAdd
    <3> HIDE DEF v
    <3>10. Active(v) \subseteq Active(u)
      BY <1>0, <3>8, <3>9, AddedActive
    <3> QED  BY <1>5, <1>6, <3>9, <3>10 DEF PickResult, Added
  <2> QED  BY <2>1, <2>2
<1> HIDE DEF v
<1>8. PickResult(s, t, e, q)
  <2>1. CASE ~Signal(e) \/ v.ncalls[e] = 0
    BY <1>7, <2>1 DEF SignalEnter
  <2>2. CASE Signal(e) /\ v.ncalls[e] # 0
    <3> DEFINE n == v.ncalls[e] - 1
               p == v.ncalls[e] > 1
    <3>1. v.ncalls[e] \in Nat
      BY <1>0, <1>7, BaseHas DEF PickResult, Sound, GoodLists
    <3>2. n \in Nat /\ p \in BOOLEAN
      BY <2>2, <3>1
    <3>3. t = WithCalls(v, e, n, p)
      BY <2>2 DEF SignalEnter, WithCalls
    <3> HIDE DEF n, p, t
    <3>4. /\ Sound(t, e) /\ SoundFields(v, t)
          /\ t.continue = v.continue /\ t.running_priority = v.running_priority
      BY <1>0, <1>7, <3>2, <3>3, SoundCalls DEF PickResult
    <3>5. Active(t) = Active(v) /\ t.pri = v.pri
      BY <3>4 DEF SoundFields, SameLists, Active
    <3> QED  BY <1>7, <3>4, <3>5 DEF PickResult
  <2> QED  BY <2>1, <2>2
<1> HIDE DEF t
<1> QED  BY <1>t, <1>8

-------------------------------------------------------------------------------
(***************************************************************************)
(* The inductive invariant.  The queues are sound, but for the common      *)
(* timeout queue whose timer has fired and is being handled; and what      *)
(* NoLostWakeup says of the counters and lists is said of the flags.       *)
(***************************************************************************)

\* The queue whose timer is being handled.
Handled == IF pc \in {"cb", "ctl"} THEN current_event ELSE NoEvent

Resting == pc = "poll" /\ loop.until > clock /\ notify_fd = 0
\* There is nothing to do, and nothing will be due before the sleep ends.
Quiet(s, dq, brk, vc) ==
  /\ Active(s) = {} /\ dq = <<>> /\ ~brk
  /\ \A e \in Heap(s) : s.tmo[e].d >= loop.target
  /\ loop.until = Inf => vc > 0 \/ UserFlags(s) # {}
RestInv == /\ Resting => Quiet(b, deferq, ebreak, virtual)
           /\ pc = "poll" /\ loop.until = Inf => loop.target = Inf

Inv == /\ TypeOK /\ IsInjective(deferq) /\ Sound(b, Handled)
       /\ LoopInv /\ NotifyInv /\ WaitInv /\ RestInv

LEMMA InvGives == Inv => QueuesConsistent /\ CommonQueueScheduled /\ NoLostWakeup
<1> SUFFICES ASSUME Inv PROVE QueuesConsistent /\ CommonQueueScheduled /\ NoLostWakeup
  OBVIOUS
<1>1. GoodLists(b) /\ KindsInv(b)
  BY DEF Inv, Sound
<1>2. QueuesConsistent
  BY <1>1 DEF Inv, GoodLists, QueuesConsistent
<1>3. CommonQueueScheduled
  <2>1. ASSUME NEW c \in CommonQueue
        PROVE  /\ InOrder(b, c)
               /\ b.ctl[c] = <<>> \/ Timed(b, c) \/ (current_event = c /\ pc \in {"cb", "ctl"})
    <3>1. InOrder(b, c)
      BY <1>1 DEF GoodLists, SortedBy, InOrder
    <3>2. CASE c = Handled
      BY <3>1, <3>2, BaseAssumption DEF Handled, Event
    <3>3. CASE c # Handled
      <4>1. Covered(b, c)
        BY <3>3 DEF Inv, Sound
      <4> QED  BY <1>1, <3>1, <4>1, CoveredIs
    <3> QED  BY <3>2, <3>3
  <2> QED  BY <1>1, <2>1 DEF CommonQueueScheduled, KindsInv
<1>4. NoLostWakeup
  <2> SUFFICES ASSUME Resting
               PROVE  /\ N_ACTIVE_CALLBACKS(b) = 0
                      /\ ~ebreak
                      /\ \A e \in Heap(b) : b.tmo[e].d >= loop.target
                      /\ loop.until = Inf => event_haveevents
    BY DEF NoLostWakeup, Resting
  <2>1. b.nactive = 0 /\ Len(deferq) = 0
    BY <1>1, Counters DEF Inv, RestInv, Quiet
  <2>2. loop.until = Inf => event_haveevents
    <3>1. UserFlags(b) # {} => b.count > 0
      BY <1>1, Counters
    <3> QED  BY <3>1 DEF Inv, RestInv, Quiet, event_haveevents
  <2> QED  BY <2>1, <2>2 DEF Inv, RestInv, Quiet, N_ACTIVE_CALLBACKS
<1> QED  BY <1>2, <1>3, <1>4

LEMMA InitInv == Init => Inv
<1> SUFFICES ASSUME Init PROVE Inv
  OBVIOUS
<1> USE BaseAssumption
<1>0. /\ b.flags = [e \in Event |-> IF e = th_notify THEN {"INSERTED"} ELSE {}]
      /\ b.pri = [e \in Event |-> IF e \in UserEvent THEN InitPri[e] ELSE 0]
      /\ b.tmo = [e \in Event |-> ZeroTv] /\ b.io = [e \in Event |-> ZeroTv]
      /\ b.res = [e \in Event |-> {}]
      /\ b.activeq = [i \in Prio |-> <<>>] /\ b.ctl = [c \in CommonQueue |-> <<>>]
      /\ b.count = 0 /\ b.nactive = 0 /\ b.continue = FALSE /\ b.running_priority = -1
  BY DEF Init
<1>1. ZeroTv \in Tv /\ ZeroTv.d = 0 /\ ZeroTv.c = NoQueue /\ NoTv \in Tv /\ 0 \in Prio
  BY DEF ZeroTv, NoTv, Tv, Prio
<1>2. b \in Base
  <2>1. /\ [e \in Event |-> IF e = th_notify THEN {"INSERTED"} ELSE {}] \in [Event -> SUBSET Flag]
        /\ [e \in Event |-> IF e \in UserEvent THEN InitPri[e] ELSE 0] \in [Event -> Prio]
        /\ [e \in Event |-> ZeroTv] \in [Event -> Tv]
        /\ [e \in Event |-> {}] \in [Event -> SUBSET {"IO", "TIMEOUT"}]
        /\ [e \in Event |-> 0] \in [Event -> Nat]
        /\ [e \in Event |-> FALSE] \in [Event -> BOOLEAN]
        /\ [i \in Prio |-> <<>>] \in [Prio -> Seq(Event)]
        /\ [c \in CommonQueue |-> <<>>] \in [CommonQueue -> Seq(Event)]
    BY <1>1 DEF Flag
  <2> QED  BY <2>1 DEF Init, Base
<1>3. /\ Flagged(b) = {th_notify} /\ Active(b) = {} /\ UserFlags(b) = {}
      /\ \A e \in Event : "TIMEOUT" \notin b.flags[e] /\ "ACTIVE" \notin b.flags[e]
  <2>1. \A e \in Event : "TIMEOUT" \notin b.flags[e] /\ "ACTIVE" \notin b.flags[e]
    BY <1>0
  <2>2. Flagged(b) = {th_notify}
    <3>1. th_notify \in Event
      BY DEF Event
    <3>2. "INSERTED" \in b.flags[th_notify] /\ \A e \in Event : e # th_notify => b.flags[e] = {}
      BY <1>0, <3>1
    <3> QED  BY <3>1, <3>2 DEF Flagged
  <2>3. Active(b) = {}
    BY <2>1 DEF Active
  <2>4. UserFlags(b) = {}
    BY <1>0 DEF UserFlags, Event
  <2> QED  BY <2>1, <2>2, <2>3, <2>4
<1>4. ToSet(<<>>) = {} /\ IsInjective(<<>>) /\ Len(<<>>) = 0
  BY DEF ToSet, IsInjective
<1>5. GoodLists(b)
  <2>1. IsFiniteSet(Flagged(b))
    <3>1. IsFiniteSet({th_notify})
      BY FS_Singleton
    <3> QED  BY <1>3, <3>1
  <2>2. ActiveListed(b)
    BY <1>0, <1>3, <1>4 DEF ActiveListed
  <2>3. TimeoutsListed(b)
    BY <1>0, <1>3, <1>4 DEF TimeoutsListed
  <2>4. CountsRight(b)
    BY <1>0, <1>3, FS_EmptySet DEF CountsRight
  <2>5. \A c \in CommonQueue : SortedBy(b, b.ctl[c])
    BY <1>0, <1>4 DEF SortedBy
  <2> QED  BY <1>2, <2>1, <2>2, <2>3, <2>4, <2>5 DEF GoodLists
<1>6. KindsInv(b)
  <2>1. IsFiniteSet({e \in Event : b.flags[e] # {}})
    BY <1>5 DEF GoodLists, Flagged
  <2> QED  BY <1>0, <1>1, <1>3, <2>1 DEF KindsInv, Event, Internal
<1>7. DueInv(b)
  BY <1>0, <1>1, <1>3 DEF DueInv
<1>8. \A c : Covered(b, c)
  BY <1>3 DEF Covered, InQueue
<1>9. Sound(b, Handled)
  BY <1>5, <1>6, <1>7, <1>8 DEF Sound
<1>10. TypeOK
  <2>1. NotWaiting \in WaitRecord
    BY <1>1 DEF NotWaiting, WaitRecord
  <2>2. IdleLoop \in LoopRecord
    <3>1. {} \in LoopFlags
      BY DEF LoopFlags
    <3>2. 0 \in 0 .. NPrio
      OBVIOUS
    <3> QED  BY <3>1, <3>2 DEF IdleLoop, Unlocked, LoopRecord
  <2>3. 1 \in 1 .. MaxTime /\ 0 \in 0 .. MaxTime /\ 0 \in 0 .. MaxVirtual
    OBVIOUS
  <2>4. loop \in LoopRecord /\ wait \in [Thread -> WaitRecord]
    BY <2>1, <2>2 DEF Init
  <2>5. deferq \in Seq(Deferred)
    <3>1. deferq = <<>>
      BY DEF Init
    <3> QED  BY <3>1
  <2>6. ebreak \in BOOLEAN /\ gotterm \in BOOLEAN /\ is_notify_pending \in BOOLEAN
    BY DEF Init
  <2>7. {ebreak, gotterm, is_notify_pending} \subseteq BOOLEAN
    BY <2>6
  <2> QED  BY <1>2, <2>3, <2>4, <2>5, <2>7 DEF Init, TypeOK
<1>11. LoopInv /\ NotifyInv
  <2>1. pc = "idle" /\ loop.todo = {}
    BY DEF Init, IdleLoop, pc
  <2>2. current_event = NoEvent /\ NoEvent # th_notify /\ notify_fd = 0 /\ is_notify_pending = FALSE
    BY DEF Init, Event
  <2>3. LoopInv
    BY <1>0, <2>1, <2>2 DEF LoopInv, InCallback
  <2>4. NotifyInv
    BY <1>3, <2>1, <2>2 DEF NotifyInv
  <2> QED  BY <2>3, <2>4
<1>12. WaitInv
  BY DEF Init, WaitInv, NotWaiting
<1>13. RestInv
  BY DEF Init, RestInv, Resting, IdleLoop, pc
<1> QED  BY <1>4, <1>9, <1>10, <1>11, <1>12, <1>13 DEF Inv, Init

-------------------------------------------------------------------------------
LEMMA GettimeType == TypeOK => gettime \in 0 .. MaxTime
BY BaseAssumption DEF TypeOK, gettime

\* A call that notifies while the loop is not draining makes the pipe readable.
Notified(cond) ==
  /\ notify_fd' \in {0, 1} /\ is_notify_pending' \in BOOLEAN
  /\ notify_fd' = 1 => is_notify_pending'
  /\ is_notify_pending' /\ notify_fd' = 0 <=> is_notify_pending /\ notify_fd = 0
  /\ notify_fd = 1 => notify_fd' = 1
  /\ cond /\ pc # "drain" => notify_fd' = 1

LEMMA NotifyIs ==
  ASSUME TypeOK, NotifyInv, NEW cond, NotifyIf(cond)
  PROVE  Notified(cond)
<1>0. /\ notify_fd \in {0, 1} /\ is_notify_pending \in BOOLEAN
      /\ notify_fd = 1 => is_notify_pending
      /\ pc = "drain" <=> is_notify_pending /\ notify_fd = 0
  BY DEF TypeOK, NotifyInv
<1>1. CASE cond
  <2>1. is_notify_pending' = TRUE /\ notify_fd' = IF is_notify_pending THEN notify_fd ELSE notify_fd + 1
    BY <1>1 DEF NotifyIf, evthread_notify_base
  <2> QED  BY <1>0, <2>1 DEF Notified
<1>2. CASE ~cond
  <2>1. is_notify_pending' = is_notify_pending /\ notify_fd' = notify_fd
    BY <1>2 DEF NotifyIf
  <2> QED  BY <1>0, <1>2, <2>1 DEF Notified
<1> QED  BY <1>1, <1>2

-------------------------------------------------------------------------------
(***************************************************************************)
(* Calls.  They leave the loop where it is.                                *)
(***************************************************************************)
LEMMA CallKeeps ==
  ASSUME Inv, NEW cond, Notified(cond),
         UNCHANGED <<gotterm, current_event, owner, tv_cache, clock, loop, use>>,
         Sound(b', Handled), b'.running_priority = b.running_priority,
         th_notify \in Active(b') => th_notify \in Active(b),
         ebreak' \in BOOLEAN, lncalls' \in Nat, virtual' \in 0 .. MaxVirtual,
         deferq' \in Seq(Deferred), IsInjective(deferq'),
         wait' \in [Thread -> WaitRecord], WaitInv',
         Resting /\ ~cond => Quiet(b', deferq', ebreak', virtual')
  PROVE  Inv'
<1>1. TypeOK'
  <2>1. b' \in Base
    BY DEF Sound, GoodLists
  <2>2. gotterm \in BOOLEAN /\ is_notify_pending' \in BOOLEAN
    BY DEF Inv, TypeOK, Notified
  <2>3. {ebreak', gotterm', is_notify_pending'} \subseteq BOOLEAN
    BY <2>2
  <2>4. notify_fd' \in {0, 1}
    BY DEF Notified
  <2> QED  BY <2>1, <2>3, <2>4 DEF Inv, TypeOK
<1>2. Handled' = Handled /\ pc' = pc
  BY DEF Handled, pc
<1>3. LoopInv'
  BY <1>2 DEF Inv, LoopInv
<1>4. NotifyInv'
  <2>1. /\ notify_fd' = 1 => is_notify_pending'
        /\ pc = "drain" <=> is_notify_pending' /\ notify_fd' = 0
    BY DEF Inv, NotifyInv, Notified
  <2>2. notify_fd = 1 => notify_fd' = 1
    BY DEF Notified
  <2> QED  BY <1>2, <2>1, <2>2 DEF Inv, NotifyInv
<1>5. RestInv'
  <2>1. Resting' => Resting /\ ~cond
    <3>1. notify_fd \in {0, 1} /\ (notify_fd = 1 => notify_fd' = 1) /\ (cond /\ pc # "drain" => notify_fd' = 1)
      BY DEF Inv, TypeOK, Notified
    <3> QED  BY <1>2, <3>1 DEF Resting
  <2>2. Quiet(b', deferq', ebreak', virtual') => Quiet(b, deferq, ebreak, virtual)'
    BY DEF Quiet, Active, Heap, UserFlags
  <2> QED  BY <1>2, <2>1, <2>2 DEF Inv, RestInv
<1> QED  BY <1>1, <1>2, <1>3, <1>4, <1>5 DEF Inv

\* What a waiting thread holds.
Waits(w) == /\ w.e \in UserEvent /\ w.op \in {"add", "del", "active"}
            /\ w.tv = NoTv \/ (w.tv \in TvArg /\ w.tv.d <= MaxTime)
            /\ w.op = "active" => Signal(w.e)

LEMMA WaitsKept ==
  ASSUME TypeOK, WaitInv, NEW t \in Thread, NEW w \in WaitRecord, owner' = owner,
         wait' = [wait EXCEPT ![t] = w],
         w.st # "none" => owner # t /\ Waits(w)
  PROVE  wait' \in [Thread -> WaitRecord] /\ WaitInv'
<1>1. wait \in [Thread -> WaitRecord]
  BY DEF TypeOK
<1>2. wait' \in [Thread -> WaitRecord]
  BY <1>1
<1>3. ASSUME NEW u \in Thread, wait'[u].st # "none"
      PROVE  owner # u /\ Waits(wait'[u])
  <2>1. CASE u = t
    BY <1>1, <1>3, <2>1
  <2>2. CASE u # t
    <3>1. wait'[u] = wait[u]
      BY <1>1, <2>2
    <3> QED  BY <1>3, <3>1 DEF WaitInv, Waits
  <2> QED  BY <2>1, <2>2
<1> QED  BY <1>2, <1>3 DEF WaitInv, Waits

LEMMA SameWaits == TypeOK /\ WaitInv /\ wait' = wait /\ owner' = owner => wait' \in [Thread -> WaitRecord] /\ WaitInv'
BY DEF TypeOK, WaitInv

LEMMA TvArgType == TvArg \subseteq Tv /\ \A tv \in TvArg : tv.d >= 0 /\ tv # NoTv
<1> USE BaseAssumption
<1> SUFFICES ASSUME NEW tv \in TvArg PROVE tv \in Tv /\ tv.d >= 0 /\ tv # NoTv
  OBVIOUS
<1>1. \/ \E x \in Durations : tv = [d |-> x, c |-> NoQueue]
      \/ \E c \in CommonQueue : tv = [d |-> Duration[c], c |-> c]
  BY DEF TvArg
<1>2. tv \in Tv /\ tv.d >= 0
  <2>1. CASE \E x \in Durations : tv = [d |-> x, c |-> NoQueue]
    <3>1. PICK x \in Durations : tv = [d |-> x, c |-> NoQueue]
      BY <2>1
    <3>2. x \in Nat
      OBVIOUS
    <3> QED  BY <3>1, <3>2 DEF Tv
  <2>2. CASE \E c \in CommonQueue : tv = [d |-> Duration[c], c |-> c]
    BY <2>2 DEF Tv
  <2> QED  BY <1>1, <2>1, <2>2
<1> QED  BY <1>2 DEF NoTv, Tv

LEMMA ArgOk ==
  ASSUME NEW tv \in TvArg, tv.d <= MaxTime
  PROVE  tv \in Tv /\ tv.d \in 0 .. MaxTime
BY TvArgType, BaseAssumption DEF Tv

LEMMA AbortType ==
  ASSUME TypeOK, NEW e, NEW cond, AbortSignalLoop(e, cond)
  PROVE  lncalls' \in Nat
BY DEF TypeOK, AbortSignalLoop

AddResult(t, e, tv) == t = event_add_internal(b, e, tv, FALSE, gettime)

LEMMA AddQuiet ==
  ASSUME Inv, Resting, NEW e \in UserEvent, NEW tv \in Tv, tv # NoTv, NEW top, NEW t,
         AddResult(t, e, tv),
         Added(b, t, e, Due(tv, FALSE, gettime), Period(b, e, tv, FALSE)),
         ~AddNotifies(b, e, tv, gettime, top)
  PROVE  Quiet(t, deferq, ebreak, virtual)
<1> DEFINE at == Due(tv, FALSE, gettime)
<1>0. /\ e \in Event /\ gettime \in 0 .. MaxTime /\ NoQueue \notin Event
      /\ Quiet(b, deferq, ebreak, virtual)
  BY GettimeType, BaseAssumption DEF Inv, RestInv, Event
<1>1. at \in Tv /\ at.c = tv.c /\ at.c \in CommonQueue \cup {NoQueue}
  BY <1>0 DEF Due, Tv
<1> HIDE DEF at
<1>2. /\ t.tmo[e] = at /\ "TIMEOUT" \in t.flags[e] /\ GoodLists(t)
      /\ \A y \in Event \ {e, at.c} : t.flags[y] = b.flags[y] /\ t.tmo[y] = b.tmo[y]
      /\ at.c # NoQueue => Leads(b, t, e, at) \/ Follows(b, t, e, at)
  BY DEF Added, at
<1>3. Active(t) = {}
  <2>1. Added(b, t, e, at, Period(b, e, tv, FALSE))
    BY DEF at
  <2> QED  BY <1>0, <1>1, <2>1, AddedActive DEF Quiet
<1>4. UserFlags(t) # {}
  <2>1. <<e, "TIMEOUT">> \in UserFlags(t)
    BY <1>2 DEF UserFlags, Flag
  <2> QED  BY <2>1
<1>5. /\ \A y \in Heap(b) : b.tmo[y].d >= loop.target
      /\ \A y \in Event : t.tmo[y].d \in Int /\ b.tmo[y].d \in Int
      /\ loop.target \in Int
  BY <1>0, <1>2, QueueOf DEF Quiet, Inv, TypeOK, LoopRecord, GoodLists
<1>6. \A y \in Heap(t) \ {e, at.c} : t.tmo[y].d >= loop.target
  BY <1>2, <1>5 DEF Heap
<1>7. \A y \in Heap(t) : t.tmo[y].d >= loop.target
  <2>1. CASE at.c = NoQueue
    <3>1. e \in Heap(t) /\ ~BecomesTop(t, e)
      BY <1>0, <1>1, <1>2, <2>1 DEF Heap, AddNotifies, AddResult
    <3>2. PICK f \in Heap(t) \ {e} : ~(t.tmo[e].d < t.tmo[f].d)
      BY <3>1 DEF BecomesTop
    <3>3. f # at.c /\ f \in Event
      BY <1>0, <2>1, <3>2 DEF Heap
    <3>4. t.tmo[e].d >= loop.target
      <4>1. t.tmo[f].d >= loop.target
        BY <1>6, <3>2, <3>3
      <4>2. t.tmo[f].d \in Int /\ t.tmo[e].d \in Int
        BY <1>0, <1>5, <3>3
      <4> QED  BY <1>5, <3>2, <4>1, <4>2
    <3>5. \A y \in Heap(t) : y # at.c
      BY <1>0, <2>1 DEF Heap
    <3> QED  BY <1>6, <3>4, <3>5
  <2>2. CASE at.c # NoQueue /\ Leads(b, t, e, at)
    <3>0. at.c \in Event /\ at.c # NoQueue
      BY <1>1, <2>2 DEF Event
    <3>1. at.c \in Heap(t) /\ ~BecomesTop(t, at.c)
      <4>1. Head(t.ctl[tv.c]) = e /\ tv.c # NoQueue
        BY <1>1, <2>2, <3>0 DEF Leads
      <4>2. ~BecomesTop(t, tv.c)
        BY <4>1 DEF AddNotifies, AddResult
      <4>3. t.tmo[at.c].c = NoQueue /\ "TIMEOUT" \in t.flags[at.c]
        BY <2>2 DEF Leads
      <4> QED  BY <1>1, <3>0, <4>2, <4>3 DEF Heap
    <3>2. PICK f \in Heap(t) \ {at.c} : ~(t.tmo[at.c].d < t.tmo[f].d)
      BY <3>1 DEF BecomesTop
    <3>3. \A y \in Heap(t) : y # e /\ y \in Event
      BY <1>2, <2>2 DEF Heap
    <3>4. t.tmo[at.c].d >= loop.target
      <4>1. t.tmo[f].d >= loop.target
        BY <1>6, <3>2, <3>3
      <4>2. t.tmo[f].d \in Int /\ t.tmo[at.c].d \in Int
        BY <1>5, <3>0, <3>2, <3>3
      <4> QED  BY <1>5, <3>2, <4>1, <4>2
    <3> QED  BY <1>6, <3>3, <3>4
  <2>3. CASE at.c # NoQueue /\ Follows(b, t, e, at)
    <3>0. at.c \in Event
      BY <1>1, <2>3 DEF Event
    <3>1. \A y \in Heap(t) : y # e
      BY <1>2, <2>3 DEF Heap
    <3>2. at.c \in Heap(t) => t.tmo[at.c].d >= loop.target
      BY <1>5, <2>3, <3>0 DEF Heap, Follows
    <3> QED  BY <1>6, <3>1, <3>2
  <2> QED  BY <1>2, <2>1, <2>2, <2>3
<1> QED  BY <1>0, <1>3, <1>4, <1>7 DEF Quiet

\* event_add, at once or after the wait.
LEMMA AddKeeps ==
  ASSUME Inv, NEW t \in Thread, NEW e \in UserEvent, NEW tv, tv = NoTv \/ (tv \in Tv /\ tv.d \in 0 .. MaxTime),
         pc = "poll" => owner # t,
         AddNow(t, e, tv), UNCHANGED LoopVars, wait' \in [Thread -> WaitRecord], WaitInv'
  PROVE  Inv'
<1>0. /\ e \in Event /\ gettime \in 0 .. MaxTime /\ Sound(b, Handled)
      /\ th_notify \in Event /\ e # th_notify /\ th_notify \notin CommonQueue
  BY GettimeType, BaseAssumption DEF Inv, Event
<1>1. PICK top : NotifyIf(EVBASE_NEED_NOTIFY(t) /\ AddNotifies(b, e, tv, gettime, top))
  BY DEF AddNow
<1> DEFINE cond == EVBASE_NEED_NOTIFY(t) /\ AddNotifies(b, e, tv, gettime, top)
<1>2. Notified(cond)
  BY <1>1, NotifyIs DEF Inv
<1>3. Resting => EVBASE_NEED_NOTIFY(t)
  BY DEF Resting, EVBASE_NEED_NOTIFY
<1>4. lncalls' \in Nat
  BY AbortType DEF AddNow, Inv
<1>5. /\ UNCHANGED <<gotterm, current_event, owner, tv_cache, clock, loop, use, ebreak, virtual, deferq>>
      /\ ebreak' \in BOOLEAN /\ virtual' \in 0 .. MaxVirtual /\ deferq' \in Seq(Deferred) /\ IsInjective(deferq')
  BY DEF LoopVars, Inv, TypeOK
<1>6. b' = event_add_internal(b, e, tv, FALSE, gettime)
  BY DEF AddNow
<1>7. CASE tv = NoTv
  <2>1. b' = InsertStep(b, e)
    BY <1>6, <1>7 DEF event_add_internal, InsertStep
  <2>2. Sound(b', Handled) /\ Inserted(b, b', e)
    BY <1>0, <2>1, SoundInsert
  <2>3. b'.running_priority = b.running_priority /\ Active(b') = Active(b)
    <3>1. b.flags \in [Event -> SUBSET Flag]
      BY <1>0, BaseHas DEF Sound, GoodLists
    <3> QED  BY <2>2, <3>1 DEF Inserted, SameFields, Active, Inserts
  <2>4. ASSUME Resting, ~cond
        PROVE  Quiet(b', deferq', ebreak', virtual')
    <3>1. ~InsertBranch(b, e)
      BY <1>3, <2>4 DEF AddNotifies
    <3>2. b' = b
      BY <2>1, <3>1 DEF InsertStep
    <3>3. Quiet(b, deferq, ebreak, virtual)
      BY <2>4 DEF Inv, RestInv
    <3> QED  BY <1>5, <3>2, <3>3
  <2> HIDE DEF cond
  <2> QED  BY <1>2, <1>4, <1>5, <2>2, <2>3, <2>4, CallKeeps
<1>8. CASE tv # NoTv
  <2>1. tv \in Tv /\ tv.d \in 0 .. MaxTime /\ tv.d \in Int
    BY <1>8, BaseAssumption DEF Tv
  <2>2. Due(tv, FALSE, gettime).d \in 0 .. 2 * MaxTime /\ Due(tv, FALSE, gettime) \in Tv
    BY <1>0, <2>1, BaseAssumption DEF Due, Tv
  <2>3. gettime \in Int /\ FALSE \in BOOLEAN
    BY <1>0
  <2>4. Sound(b', Handled) /\ Added(b, b', e, Due(tv, FALSE, gettime), Period(b, e, tv, FALSE))
    BY <1>0, <1>6, <1>8, <2>1, <2>2, <2>3, SoundAdd
  <2>5. b'.running_priority = b.running_priority
    BY <2>4 DEF Added
  <2>6. Active(b') \subseteq Active(b)
    BY <1>0, <2>2, <2>4, AddedActive
  <2>7. ASSUME Resting, ~cond
        PROVE  Quiet(b', deferq', ebreak', virtual')
    <3>1. ~AddNotifies(b, e, tv, gettime, top)
      BY <1>3, <2>7
    <3>2. Quiet(b', deferq, ebreak, virtual)
      BY <1>6, <1>8, <2>1, <2>4, <2>7, <3>1, AddQuiet DEF AddResult
    <3> QED  BY <1>5, <3>2
  <2> HIDE DEF cond
  <2>8. th_notify \in Active(b') => th_notify \in Active(b)
    BY <2>6
  <2> QED  BY <1>2, <1>4, <1>5, <2>4, <2>5, <2>7, <2>8, CallKeeps
<1> QED  BY <1>7, <1>8

LEMMA Caller ==
  ASSUME Inv, NEW t, MayCall(t)
  PROVE  t \in Thread /\ wait[t].st = "none" /\ (pc = "poll" => owner # t /\ EVBASE_NEED_NOTIFY(t))
<1>1. t \in Thread
  BY BaseAssumption DEF Inv, TypeOK, MayCall
<1> QED  BY <1>1 DEF MayCall, InUserCallback, EVBASE_NEED_NOTIFY

LEMMA UserOf == Inv => use.events \subseteq UserEvent
BY BaseAssumption DEF Inv, TypeOK

\* A call that changes nothing but what its thread does.
LEMMA WaitKeeps ==
  ASSUME Inv, wait' \in [Thread -> WaitRecord], WaitInv',
         UNCHANGED <<b, lncalls, is_notify_pending, notify_fd>>, UNCHANGED LoopVars
  PROVE  Inv'
<1>1. NotifyIf(FALSE)
  BY DEF NotifyIf
<1>2. Notified(FALSE)
  BY <1>1, NotifyIs DEF Inv
<1>3. /\ UNCHANGED <<gotterm, current_event, owner, tv_cache, clock, loop, use>>
      /\ Sound(b', Handled) /\ b'.running_priority = b.running_priority
      /\ th_notify \in Active(b') => th_notify \in Active(b)
      /\ ebreak' \in BOOLEAN /\ lncalls' \in Nat /\ virtual' \in 0 .. MaxVirtual
      /\ deferq' \in Seq(Deferred) /\ IsInjective(deferq')
  BY DEF LoopVars, Inv, TypeOK
<1>4. Resting => Quiet(b', deferq', ebreak', virtual')
  BY DEF LoopVars, Inv, RestInv
<1> QED  BY <1>2, <1>3, <1>4, CallKeeps

LEMMA CondWaitKeeps ==
  ASSUME Inv, NEW t \in Thread, NEW op \in {"add", "del", "active"}, NEW e \in UserEvent, NEW tv, NEW n \in Nat,
         tv = NoTv \/ (tv \in TvArg /\ tv.d <= MaxTime), op = "active" => Signal(e), owner # t,
         CondWait(t, op, e, tv, n), owner' = owner
  PROVE  wait' \in [Thread -> WaitRecord] /\ WaitInv'
<1> DEFINE w == [st |-> "waiting", op |-> op, e |-> e, tv |-> tv, n |-> n]
<1>1. NoTv \in Tv
  BY DEF NoTv, Tv
<1>2. tv \in Tv
  BY <1>1, TvArgType
<1>3. w \in WaitRecord /\ Waits(w)
  BY <1>2 DEF WaitRecord, Waits
<1>4. wait' = [wait EXCEPT ![t] = w]
  BY DEF CondWait
<1> HIDE DEF w
<1> QED  BY <1>3, <1>4, WaitsKept DEF Inv

LEMMA EventAdd ==
  ASSUME Inv, NEW t, NEW e \in use.events, NEW tv \in use.tvs \cup {NoTv}, event_add(t, e, tv)
  PROVE  Inv'
<1>0. /\ t \in Thread /\ e \in UserEvent /\ gettime \in 0 .. MaxTime /\ (pc = "poll" => owner # t)
      /\ use.until \in 1 .. MaxTime /\ use.tvs \subseteq TvArg
  BY Caller, UserOf, GettimeType, BaseAssumption DEF event_add, Inv, TypeOK
<1>1. tv = NoTv \/ (tv \in TvArg /\ tv.d <= MaxTime)
  <2>1. CASE tv # NoTv
    <3>1. tv \in TvArg /\ tv \in Tv /\ tv.d \in Int
      BY <1>0, <2>1, TvArgType DEF Tv
    <3>2. gettime + tv.d <= use.until
      BY <2>1 DEF event_add
    <3>3. gettime >= 0 /\ gettime \in Int /\ use.until <= MaxTime /\ use.until \in Int /\ MaxTime \in Int
      BY <1>0, BaseAssumption
    <3>4. tv.d <= MaxTime
      BY <3>1, <3>2, <3>3
    <3> QED  BY <3>1, <3>4
  <2> QED  BY <2>1
<1>2. UNCHANGED LoopVars /\ owner' = owner
  BY DEF event_add, LoopVars
<1>3. CASE /\ Signal(e) /\ MustWait(t, e) /\ CondWait(t, "add", e, tv, 0)
           /\ UNCHANGED <<b, lncalls, is_notify_pending, notify_fd>>
  <2>1. owner # t
    BY <1>3 DEF MustWait, EVBASE_IN_THREAD
  <2>2. wait' \in [Thread -> WaitRecord] /\ WaitInv'
    BY <1>0, <1>1, <1>2, <1>3, <2>1, CondWaitKeeps
  <2> QED  BY <1>2, <1>3, <2>2, WaitKeeps
<1>4. CASE AddNow(t, e, tv) /\ UNCHANGED wait
  <2>1. wait' \in [Thread -> WaitRecord] /\ WaitInv'
    BY <1>2, <1>4, SameWaits DEF Inv
  <2>2. tv = NoTv \/ (tv \in Tv /\ tv.d \in 0 .. MaxTime)
    BY <1>1, ArgOk
  <2> QED  BY <1>0, <1>2, <1>4, <2>1, <2>2, AddKeeps
<1> QED  BY <1>3, <1>4 DEF event_add

\* With nothing to wait for but e, e has no flag but INSERTED.
LEMMA DelQuiet ==
  ASSUME Inv, Resting, NEW e \in UserEvent, NEW t, Deleted(b, t, e), "INSERTED" \notin b.flags[e]
  PROVE  Quiet(t, deferq, ebreak, virtual)
<1>0. /\ e \in Event /\ b.flags \in [Event -> SUBSET Flag] /\ Quiet(b, deferq, ebreak, virtual)
      /\ Sound(b, NoEvent)
      /\ loop.until = Inf => loop.target = Inf
  <2>1. Handled = NoEvent
    BY DEF Resting, Handled
  <2> QED  BY <2>1, BaseHas DEF Inv, Sound, GoodLists, Event, RestInv, Resting
<1>1. /\ t.tmo = b.tmo
      /\ \A y \in Event : t.flags[y] \subseteq b.flags[y] /\ (y # e => t.flags[y] = b.flags[y])
  BY <1>0 DEF Deleted, SameFields
<1>2. Active(t) = {}
  BY <1>0, <1>1 DEF Active, Quiet
<1>3. \A y \in Heap(t) : t.tmo[y].d >= loop.target
  BY <1>0, <1>1 DEF Heap, Quiet
<1>4. ASSUME loop.until = Inf, ~(virtual > 0)
      PROVE  UserFlags(t) # {}
  <2>1. Heap(b) = {}
    <3> SUFFICES ASSUME NEW y \in Heap(b) PROVE FALSE
      OBVIOUS
    <3>1. b.tmo[y].d >= loop.target /\ loop.target = 4 * MaxTime
      BY <1>0, <1>4 DEF Quiet, Inf
    <3>2. b.tmo[y].d \in 0 .. 2 * MaxTime
      BY <1>0 DEF Heap, Sound, DueInv
    <3> QED  BY <3>1, <3>2, BaseAssumption
  <2>2. \A y \in Event : "ACTIVE" \notin b.flags[y]
    BY <1>0 DEF Quiet, Active
  <2>3. "TIMEOUT" \notin b.flags[e]
    <3> SUFFICES ASSUME "TIMEOUT" \in b.flags[e] PROVE FALSE
      OBVIOUS
    <3>1. b.tmo[e].c \in CommonQueue
      BY <1>0, <2>1, QueueOf DEF Heap, Sound, GoodLists
    <3> DEFINE c == b.tmo[e].c
    <3>2. e \in InQueue(b, c)
      BY <1>0 DEF InQueue
    <3>3. Covered(b, c) /\ c \in Event /\ b.tmo[c].c = NoQueue
      BY <1>0, <3>1, BaseAssumption DEF Sound, KindsInv, Event
    <3> HIDE DEF c
    <3>4. "TIMEOUT" \in b.flags[c]
      BY <2>2, <3>2, <3>3 DEF Covered
    <3> QED  BY <2>1, <3>3, <3>4 DEF Heap
  <2>4. b.flags[e] = {}
    BY <1>0, <2>2, <2>3 DEF Flag
  <2>5. \A y \in Event : t.flags[y] = b.flags[y]
    BY <1>0, <1>1, <2>4
  <2>6. UserFlags(t) = UserFlags(b)
    BY <2>5 DEF UserFlags, Event
  <2> QED  BY <1>0, <1>4, <2>6 DEF Quiet
<1> QED  BY <1>0, <1>2, <1>3, <1>4 DEF Quiet

LEMMA DelKeeps ==
  ASSUME Inv, NEW t \in Thread, NEW e \in UserEvent, pc = "poll" => owner # t,
         DelNow(t, e), UNCHANGED LoopVars, wait' \in [Thread -> WaitRecord], WaitInv'
  PROVE  Inv'
<1> DEFINE cond == EVBASE_NEED_NOTIFY(t) /\ "INSERTED" \in b.flags[e]
<1>0. /\ e \in Event \ CommonQueue /\ Sound(b, Handled) /\ b' = event_del_internal(b, e)
      /\ b.flags \in [Event -> SUBSET Flag]
  BY BaseAssumption, BaseHas DEF Inv, Event, DelNow, Sound, GoodLists
<1>1. Sound(b', Handled) /\ Deleted(b, b', e)
  BY <1>0, SoundDel
<1>2. Notified(cond)
  BY NotifyIs DEF Inv, DelNow
<1>3. lncalls' \in Nat
  BY AbortType DEF DelNow, Inv
<1>4. /\ UNCHANGED <<gotterm, current_event, owner, tv_cache, clock, loop, use, ebreak, virtual, deferq>>
      /\ ebreak' \in BOOLEAN /\ virtual' \in 0 .. MaxVirtual /\ deferq' \in Seq(Deferred) /\ IsInjective(deferq')
  BY DEF LoopVars, Inv, TypeOK
<1>5. b'.running_priority = b.running_priority /\ (th_notify \in Active(b') => th_notify \in Active(b))
  BY <1>0, <1>1 DEF Deleted, SameFields, Active
<1>6. ASSUME Resting, ~cond
      PROVE  Quiet(b', deferq', ebreak', virtual')
  <2>1. "INSERTED" \notin b.flags[e]
    BY <1>6 DEF Resting, EVBASE_NEED_NOTIFY
  <2>2. Quiet(b', deferq, ebreak, virtual)
    BY <1>1, <1>6, <2>1, DelQuiet
  <2> QED  BY <1>4, <2>2
<1> HIDE DEF cond
<1> QED  BY <1>1, <1>2, <1>3, <1>4, <1>5, <1>6, CallKeeps

LEMMA EventDel ==
  ASSUME Inv, NEW t, NEW e \in use.events, event_del(t, e)
  PROVE  Inv'
<1>0. t \in Thread /\ e \in UserEvent /\ (pc = "poll" => owner # t)
  BY Caller, UserOf DEF event_del
<1>2. UNCHANGED LoopVars /\ owner' = owner
  BY DEF event_del, LoopVars
<1>3. CASE /\ MustWait(t, e) /\ CondWait(t, "del", e, NoTv, 0)
           /\ UNCHANGED <<b, lncalls, is_notify_pending, notify_fd>>
  <2>1. owner # t
    BY <1>3 DEF MustWait, EVBASE_IN_THREAD
  <2>2. wait' \in [Thread -> WaitRecord] /\ WaitInv'
    BY <1>0, <1>2, <1>3, <2>1, CondWaitKeeps
  <2> QED  BY <1>2, <1>3, <2>2, WaitKeeps
<1>4. CASE DelNow(t, e) /\ UNCHANGED wait
  <2>1. wait' \in [Thread -> WaitRecord] /\ WaitInv'
    BY <1>2, <1>4, SameWaits DEF Inv
  <2> QED  BY <1>0, <1>2, <1>4, <2>1, DelKeeps
<1> QED  BY <1>3, <1>4 DEF event_del

LEMMA NcallsType == \A e : NcallsOf(e) \subseteq Nat
BY BaseAssumption DEF NcallsOf

LEMMA LoopVarsKept ==
  ASSUME Inv, UNCHANGED LoopVars
  PROVE  /\ UNCHANGED <<gotterm, current_event, owner, tv_cache, clock, loop, use, ebreak, virtual, deferq>>
         /\ ebreak' \in BOOLEAN /\ virtual' \in 0 .. MaxVirtual /\ deferq' \in Seq(Deferred) /\ IsInjective(deferq')
BY DEF LoopVars, Inv, TypeOK

\* Nothing that decides whether the loop may sleep is different.
LEMMA StillQuiet ==
  ASSUME Inv, UNCHANGED LoopVars, b'.flags = b.flags, b'.tmo = b.tmo, Resting
  PROVE  Quiet(b', deferq', ebreak', virtual')
<1>1. Quiet(b, deferq, ebreak, virtual)
  BY DEF Inv, RestInv
<1>2. deferq' = deferq /\ ebreak' = ebreak /\ virtual' = virtual
  BY DEF LoopVars
<1>3. Active(b') = Active(b) /\ Heap(b') = Heap(b) /\ UserFlags(b') = UserFlags(b)
  BY DEF Active, Heap, UserFlags
<1> QED  BY <1>1, <1>2, <1>3 DEF Quiet

LEMMA EventActive ==
  ASSUME Inv, NEW t, NEW e \in use.events, NEW n \in NcallsOf(e), event_active(t, e, n)
  PROVE  Inv'
<1> DEFINE waits == "ACTIVE" \notin b.flags[e] /\ Signal(e) /\ MustWait(t, e)
<1>0. /\ t \in Thread /\ e \in UserEvent /\ n \in Nat /\ e \in Event /\ Sound(b, Handled)
      /\ (pc = "poll" => owner # t /\ EVBASE_NEED_NOTIFY(t)) /\ th_notify # e
      /\ b.flags \in [Event -> SUBSET Flag] /\ th_notify \in Event
  BY Caller, UserOf, NcallsType, BaseHas, BaseAssumption, ZenonT(60) DEF event_active, Event, Inv, Sound, GoodLists
<1>1. UNCHANGED LoopVars /\ owner' = owner /\ lncalls' \in Nat /\ lncalls' = lncalls
  BY DEF event_active, LoopVars, Inv, TypeOK
<1>2. CASE waits
  <2>0. /\ b' = ActiveWaits(b, e) /\ CondWait(t, "active", e, NoTv, n)
        /\ UNCHANGED <<is_notify_pending, notify_fd>>
    BY <1>2 DEF event_active, ActiveWaits
  <2>1. owner # t /\ Signal(e)
    BY <1>2 DEF MustWait, EVBASE_IN_THREAD
  <2>2. wait' \in [Thread -> WaitRecord] /\ WaitInv'
    BY <1>0, <1>1, <2>0, <2>1, CondWaitKeeps
  <2>3. /\ Sound(b', Handled) /\ b'.flags = b.flags /\ b'.tmo = b.tmo
        /\ b'.running_priority = b.running_priority
    BY <1>0, <2>0, SoundWaits
  <2>4. Notified(FALSE)
    <3>1. NotifyIf(FALSE)
      BY <2>0 DEF NotifyIf
    <3> QED  BY <3>1, NotifyIs DEF Inv
  <2>5. Resting => Quiet(b', deferq', ebreak', virtual')
    BY <1>1, <2>3, StillQuiet
  <2>6. th_notify \in Active(b') => th_notify \in Active(b)
    BY <2>3 DEF Active
  <2> QED  BY <1>1, <2>2, <2>3, <2>4, <2>5, <2>6, LoopVarsKept, CallKeeps
<1>3. CASE ~waits
  <2>0. /\ b' = event_active_nolock(b, e, "IO", n) /\ UNCHANGED wait
        /\ IF "ACTIVE" \in b.flags[e] THEN UNCHANGED <<is_notify_pending, notify_fd>> ELSE WakeForActive(t)
    BY <1>3 DEF event_active
  <2>1. wait' \in [Thread -> WaitRecord] /\ WaitInv'
    BY <1>1, <2>0, SameWaits DEF Inv
  <2>2. Sound(b', Handled) /\ Activated(b, b', e, "IO")
    BY <1>0, <2>0, SoundActive
  <2>3. b'.running_priority = b.running_priority /\ (th_notify \in Active(b') => th_notify \in Active(b))
    BY <1>0, <2>2 DEF Activated, Active
  <2> DEFINE cond == "ACTIVE" \notin b.flags[e] /\ EVBASE_NEED_NOTIFY(t)
  <2>4. NotifyIf(cond)
    BY <2>0 DEF WakeForActive, NotifyIf
  <2>5. Notified(cond)
    BY <2>4, NotifyIs DEF Inv
  <2>6. ~(Resting /\ ~cond)
    <3> SUFFICES ASSUME Resting, "ACTIVE" \in b.flags[e] PROVE FALSE
      BY <1>0 DEF Resting
    <3>1. Active(b) = {}
      BY DEF Inv, RestInv, Quiet
    <3> QED  BY <1>0, <3>1 DEF Active
  <2> HIDE DEF cond
  <2> QED  BY <1>1, <2>1, <2>2, <2>3, <2>5, <2>6, LoopVarsKept, CallKeeps
<1> QED  BY <1>2, <1>3

\* The rest of event_active after the wait.
ActiveResumed(e, n) ==
  LET s == [b EXCEPT !.ncalls[e] = n, !.pncalls[e] = FALSE]
  IN  b' = IF "ACTIVE" \in b.flags[e] THEN s ELSE event_queue_insert(s, e, "ACTIVE")

LEMMA ResumeActive ==
  ASSUME Inv, NEW t \in Thread, owner # t, NEW e \in UserEvent, Signal(e), NEW n \in Nat,
         ActiveResumed(e, n),
         WakeForActive(t), UNCHANGED lncalls, UNCHANGED LoopVars,
         wait' \in [Thread -> WaitRecord], WaitInv'
  PROVE  Inv'
<1> DEFINE s == WithCalls(b, e, n, FALSE)
<1>0. /\ e \in Event /\ Sound(b, Handled) /\ b.flags \in [Event -> SUBSET Flag]
      /\ th_notify # e /\ th_notify \in Event /\ lncalls' \in Nat /\ FALSE \in BOOLEAN
  BY BaseHas, BaseAssumption DEF Event, Inv, TypeOK, Sound, GoodLists
<1>1. b' = IF "ACTIVE" \in b.flags[e] THEN s ELSE event_queue_insert(s, e, "ACTIVE")
  BY DEF WithCalls, ActiveResumed
<1>2. Sound(s, Handled) /\ SoundFields(b, s) /\ s.continue = b.continue /\ s.running_priority = b.running_priority
  BY <1>0, SoundCalls
<1> HIDE DEF s
<1>3. /\ Sound(b', Handled) /\ b'.running_priority = b.running_priority
      /\ th_notify \in Active(b') => th_notify \in Active(b)
  <2>1. CASE "ACTIVE" \in b.flags[e]
    <3>1. b' = s
      BY <1>1, <2>1
    <3> QED  BY <1>2, <3>1 DEF SoundFields, SameLists, Active
  <2>2. CASE "ACTIVE" \notin b.flags[e]
    <3> DEFINE u == event_queue_insert(s, e, "ACTIVE")
    <3>1. b' = u
      BY <1>1, <2>2
    <3>2. s.flags = b.flags /\ GoodLists(s) /\ "ACTIVE" \notin s.flags[e]
      BY <1>2, <2>2 DEF SoundFields, SameLists, Sound
    <3>3. GoodLists(u) /\ SameFields(s, u) /\ u.flags = [s.flags EXCEPT ![e] = @ \cup {"ACTIVE"}]
      BY <1>0, <3>2, GoodInsertActive
    <3> HIDE DEF u
    <3>4. u.pri = s.pri /\ u.io = s.io /\ u.tmo = s.tmo /\ u.res = s.res /\ u.running_priority = b.running_priority
      BY <1>2, <3>3 DEF SameFields
    <3>5. \A y \in Event : /\ "TIMEOUT" \in u.flags[y] <=> "TIMEOUT" \in s.flags[y]
                           /\ "ACTIVE" \in u.flags[y] <=> y = e \/ "ACTIVE" \in s.flags[y]
      BY <1>0, <3>2, <3>3
    <3>6. KindsInv(u)
      <4>1. IsFiniteSet({y \in Event : u.flags[y] # {}})
        BY <3>3 DEF GoodLists, Flagged
      <4>2. "TIMEOUT" \notin u.flags[th_notify]
        BY <1>0, <1>2, <3>5 DEF Sound, KindsInv
      <4> QED  BY <1>2, <3>4, <4>1, <4>2 DEF Sound, KindsInv
    <3>7. DueInv(u)
      <4>1. ~PersistClosure(e)
        BY DEF PersistClosure
      <4> QED  BY <1>2, <3>4, <3>5, <4>1 DEF Sound, DueInv
    <3>8. ASSUME NEW c \in CommonQueue \ {Handled}
          PROVE  Covered(u, c)
      <4>1. InQueue(u, c) = InQueue(s, c) /\ c \in Event
        BY <3>4, <3>5 DEF InQueue, Event
      <4> QED  BY <1>2, <3>4, <3>5, <4>1 DEF Sound, Covered
    <3>9. Sound(u, Handled)
      BY <3>3, <3>6, <3>7, <3>8 DEF Sound
    <3>10. th_notify \in Active(u) => th_notify \in Active(b)
      BY <1>0, <3>2, <3>5 DEF Active
    <3> QED  BY <3>1, <3>4, <3>9, <3>10
  <2> QED  BY <2>1, <2>2
<1>4. Notified(EVBASE_NEED_NOTIFY(t))
  BY NotifyIs DEF Inv, WakeForActive
<1>5. ~(Resting /\ ~EVBASE_NEED_NOTIFY(t))
  BY DEF Resting, EVBASE_NEED_NOTIFY
<1> QED  BY <1>0, <1>3, <1>4, <1>5, LoopVarsKept, CallKeeps

LEMMA ResumeKeeps ==
  ASSUME Inv, NEW t \in Thread, Resume(t)
  PROVE  Inv'
<1> DEFINE w == wait[t]
<1>0. UNCHANGED LoopVars /\ owner' = owner /\ w.st = "woken" /\ wait' = [wait EXCEPT ![t] = NotWaiting]
  BY DEF Resume, LoopVars
<1>1. owner # t /\ Waits(w) /\ w.n \in Nat
  BY <1>0 DEF Inv, TypeOK, WaitRecord, WaitInv, Waits
<1>2. NotWaiting \in WaitRecord /\ NotWaiting.st = "none"
  BY DEF NotWaiting, WaitRecord, NoTv, Tv
<1>3. wait' \in [Thread -> WaitRecord] /\ WaitInv'
  BY <1>0, <1>2, WaitsKept DEF Inv
<1>4. CASE w.op = "add" /\ AddNow(t, w.e, w.tv)
  <2> DEFINE e == w.e
             tv == w.tv
  <2>1. e \in UserEvent /\ (tv = NoTv \/ (tv \in Tv /\ tv.d \in 0 .. MaxTime)) /\ AddNow(t, e, tv)
    BY <1>1, <1>4, ArgOk DEF Waits
  <2> HIDE DEF e, tv
  <2> QED  BY <1>0, <1>1, <1>3, <2>1, AddKeeps
<1>5. CASE w.op = "del" /\ DelNow(t, w.e)
  BY <1>0, <1>1, <1>3, <1>5, DelKeeps DEF Waits
<1>6. CASE /\ w.op = "active"
           /\ LET s == [b EXCEPT !.ncalls[w.e] = w.n, !.pncalls[w.e] = FALSE]
              IN  b' = IF "ACTIVE" \in b.flags[w.e] THEN s ELSE event_queue_insert(s, w.e, "ACTIVE")
           /\ WakeForActive(t)
           /\ UNCHANGED lncalls
  <2> DEFINE e == w.e
             n == w.n
  <2>1. e \in UserEvent /\ Signal(e) /\ n \in Nat
    BY <1>1, <1>6 DEF Waits
  <2>2. ActiveResumed(e, n)
    BY <1>6 DEF ActiveResumed
  <2> HIDE DEF e, n
  <2> QED  BY <1>0, <1>1, <1>3, <1>6, <2>1, <2>2, ResumeActive
<1> QED  BY <1>4, <1>5, <1>6 DEF Resume

LEMMA LoopBreak ==
  ASSUME Inv, NEW t, event_base_loopbreak(t)
  PROVE  Inv'
<1>0. pc = "poll" => EVBASE_NEED_NOTIFY(t)
  BY Caller DEF event_base_loopbreak
<1>1. Notified(EVBASE_NEED_NOTIFY(t))
  BY NotifyIs DEF Inv, event_base_loopbreak
<1>2. ~(Resting /\ ~EVBASE_NEED_NOTIFY(t))
  BY <1>0 DEF Resting
<1>3. /\ UNCHANGED <<gotterm, current_event, owner, tv_cache, clock, loop, use>>
      /\ Sound(b', Handled) /\ b'.running_priority = b.running_priority /\ b' = b
      /\ ebreak' \in BOOLEAN /\ lncalls' \in Nat /\ virtual' \in 0 .. MaxVirtual
      /\ deferq' \in Seq(Deferred) /\ IsInjective(deferq')
  BY DEF event_base_loopbreak, Inv, TypeOK
<1>4. wait' \in [Thread -> WaitRecord] /\ WaitInv'
  BY SameWaits DEF Inv, event_base_loopbreak
<1> QED  BY <1>1, <1>2, <1>3, <1>4, CallKeeps

LEMMA LoopExitCall ==
  ASSUME Inv, NEW t, NEW x \in LoopExit, NEW d \in Durations \cup {0}, event_base_loopexit(t, x, d)
  PROVE  Inv'
<1> DEFINE tv == [d |-> d, c |-> NoQueue]
<1>0. t \in Thread /\ (pc = "poll" => owner # t) /\ gettime \in 0 .. MaxTime
  BY Caller, GettimeType DEF event_base_loopexit, Inv
<1>0a. x \in UserEvent /\ d \in Nat
  <2>1. LoopExit \subseteq UserEvent
    BY BaseAssumption, Zenon
  <2>2. Durations \subseteq Nat
    BY BaseAssumption, Zenon
  <2> QED  BY <2>1, <2>2
<1>0b. use.until \in 1 .. MaxTime
  BY BaseAssumption DEF Inv, TypeOK
<1>1. d <= MaxTime
  <2>1. gettime + d <= use.until
    BY DEF event_base_loopexit
  <2>2. gettime \in Int /\ gettime >= 0 /\ use.until \in Int /\ use.until <= MaxTime /\ MaxTime \in Int
    BY <1>0, <1>0b, BaseAssumption
  <2> QED  BY <1>0a, <2>1, <2>2
<1>2. tv \in Tv /\ tv.d \in 0 .. MaxTime
  BY <1>0a, <1>1, BaseAssumption DEF Tv
<1>3. AddNow(t, x, tv) /\ UNCHANGED LoopVars /\ wait' = wait /\ owner' = owner
  BY DEF event_base_loopexit, LoopVars
<1>4. wait' \in [Thread -> WaitRecord] /\ WaitInv'
  BY <1>3, SameWaits DEF Inv
<1> HIDE DEF tv
<1> QED  BY <1>0, <1>0a, <1>2, <1>3, <1>4, AddKeeps

\* The calls that do not touch the events.
LEMMA CountKeeps ==
  ASSUME Inv, NEW cond, NotifyIf(cond), b' = b, lncalls' = lncalls, wait' = wait, ebreak' = ebreak,
         UNCHANGED <<gotterm, current_event, owner, tv_cache, clock, loop, use>>,
         virtual' \in 0 .. MaxVirtual, deferq' \in Seq(Deferred), IsInjective(deferq'),
         Resting /\ ~cond => Quiet(b', deferq', ebreak', virtual')
  PROVE  Inv'
<1>1. Notified(cond)
  BY NotifyIs DEF Inv
<1>2. /\ Sound(b', Handled) /\ b'.running_priority = b.running_priority
      /\ th_notify \in Active(b') => th_notify \in Active(b)
      /\ ebreak' \in BOOLEAN /\ lncalls' \in Nat
  BY DEF Inv, TypeOK
<1>3. wait' \in [Thread -> WaitRecord] /\ WaitInv'
  BY SameWaits DEF Inv
<1> QED  BY <1>1, <1>2, <1>3, CallKeeps

LEMMA AddVirtual ==
  ASSUME Inv, NEW t, event_base_add_virtual(t)
  PROVE  Inv'
<1>1. NotifyIf(FALSE)
  BY DEF event_base_add_virtual, NotifyIf
<1>2. virtual' \in 0 .. MaxVirtual /\ virtual' = virtual + 1 /\ virtual \in Nat
  BY BaseAssumption DEF event_base_add_virtual, Inv, TypeOK
<1>3. /\ UNCHANGED <<b, lncalls, wait, ebreak, gotterm, current_event, owner, tv_cache, clock, loop, use>>
      /\ deferq' = deferq /\ deferq' \in Seq(Deferred) /\ IsInjective(deferq')
  BY DEF event_base_add_virtual, Inv, TypeOK
<1>4. Resting => Quiet(b', deferq', ebreak', virtual')
  <2> SUFFICES ASSUME Resting PROVE Quiet(b', deferq', ebreak', virtual')
    OBVIOUS
  <2>1. Quiet(b, deferq, ebreak, virtual)
    BY DEF Inv, RestInv
  <2>2. virtual' > 0
    BY <1>2
  <2>3. Quiet(b, deferq, ebreak, virtual')
    BY <2>1, <2>2 DEF Quiet
  <2> QED  BY <1>3, <2>3
<1> QED  BY <1>1, <1>2, <1>3, <1>4, CountKeeps

LEMMA DelVirtual ==
  ASSUME Inv, NEW t, event_base_del_virtual(t)
  PROVE  Inv'
<1> DEFINE cond == virtual = 1 /\ EVBASE_NEED_NOTIFY(t)
<1>0. pc = "poll" => EVBASE_NEED_NOTIFY(t)
  BY Caller DEF event_base_del_virtual
<1>1. NotifyIf(cond)
  BY DEF event_base_del_virtual
<1>2. virtual' \in 0 .. MaxVirtual /\ virtual' = virtual - 1 /\ virtual \in Nat /\ virtual > 0
  BY BaseAssumption DEF event_base_del_virtual, Inv, TypeOK
<1>3. /\ UNCHANGED <<b, lncalls, wait, ebreak, gotterm, current_event, owner, tv_cache, clock, loop, use>>
      /\ deferq' = deferq /\ deferq' \in Seq(Deferred) /\ IsInjective(deferq')
  BY DEF event_base_del_virtual, Inv, TypeOK
<1>4. ASSUME Resting, ~cond PROVE Quiet(b', deferq', ebreak', virtual')
  <2>1. Quiet(b, deferq, ebreak, virtual)
    BY <1>4 DEF Inv, RestInv
  <2>2. virtual # 1
    BY <1>0, <1>4 DEF Resting
  <2>3. virtual' > 0
    BY <1>2, <2>2
  <2>4. Quiet(b, deferq, ebreak, virtual')
    BY <2>1, <2>3 DEF Quiet
  <2> QED  BY <1>3, <2>4
<1> HIDE DEF cond
<1> QED  BY <1>1, <1>2, <1>3, <1>4, CountKeeps

LEMMA DeferredSchedule ==
  ASSUME Inv, NEW t, NEW cb \in Deferred, event_deferred_cb_schedule(t, cb)
  PROVE  Inv'
<1>0. pc = "poll" => EVBASE_NEED_NOTIFY(t)
  BY Caller DEF event_deferred_cb_schedule
<1>1. NotifyIf(EVBASE_NEED_NOTIFY(t)) /\ deferq' = Append(deferq, cb) /\ cb \notin ToSet(deferq)
  BY DEF event_deferred_cb_schedule, Queued
<1>2. deferq \in Seq(Deferred) /\ IsInjective(deferq)
  BY DEF Inv, TypeOK
<1>3. deferq' \in Seq(Deferred) /\ IsInjective(deferq')
  BY <1>1, <1>2, AppendElements
<1>4. /\ UNCHANGED <<b, lncalls, wait, ebreak, gotterm, current_event, owner, tv_cache, clock, loop, use>>
      /\ virtual' \in 0 .. MaxVirtual
  BY DEF event_deferred_cb_schedule, Inv, TypeOK
<1>5. ~(Resting /\ ~EVBASE_NEED_NOTIFY(t))
  BY <1>0 DEF Resting
<1> QED  BY <1>1, <1>3, <1>4, <1>5, CountKeeps

LEMMA DeferredCancel ==
  ASSUME Inv, NEW t, NEW cb \in Deferred, event_deferred_cb_cancel(t, cb)
  PROVE  Inv'
<1>1. /\ NotifyIf(FALSE) /\ deferq' = RemoveFirst(deferq, cb) /\ cb \in ToSet(deferq)
  BY DEF event_deferred_cb_cancel, Queued, NotifyIf, TAILQ_REMOVE
<1>2. deferq \in Seq(Deferred) /\ IsInjective(deferq)
  BY DEF Inv, TypeOK
<1>3. deferq' \in Seq(Deferred) /\ IsInjective(deferq')
  BY <1>1, <1>2, RemoveFirstFacts
<1>4. /\ UNCHANGED <<b, lncalls, wait, ebreak, gotterm, current_event, owner, tv_cache, clock, loop, use>>
      /\ virtual' \in 0 .. MaxVirtual
  BY DEF event_deferred_cb_cancel, Inv, TypeOK
<1>5. ~Resting
  <2> SUFFICES ASSUME Resting PROVE FALSE
    OBVIOUS
  <2>1. deferq = <<>>
    BY DEF Inv, RestInv, Quiet
  <2> QED  BY <1>1, <2>1 DEF ToSet
<1> QED  BY <1>1, <1>3, <1>4, <1>5, CountKeeps

LEMMA PrioritySet ==
  ASSUME Inv, NEW t, NEW e \in use.events, NEW p \in Prio, event_priority_set(t, e, p)
  PROVE  Inv'
<1>0. e \in UserEvent /\ "ACTIVE" \notin b.flags[e] /\ Sound(b, Handled) /\ b' = [b EXCEPT !.pri[e] = p]
  BY UserOf DEF event_priority_set, Inv
<1>1. /\ UNCHANGED LoopVars /\ owner' = owner /\ wait' = wait /\ lncalls' = lncalls /\ lncalls' \in Nat
      /\ NotifyIf(FALSE)
  BY DEF event_priority_set, LoopVars, Inv, TypeOK, NotifyIf
<1>2. /\ Sound(b', Handled) /\ b'.flags = b.flags /\ b'.tmo = b.tmo
      /\ b'.running_priority = b.running_priority
  BY <1>0, SoundPri
<1>3. th_notify \in Active(b') => th_notify \in Active(b)
  BY <1>2 DEF Active
<1>4. Notified(FALSE)
  BY <1>1, NotifyIs DEF Inv
<1>5. Resting => Quiet(b', deferq', ebreak', virtual')
  BY <1>1, <1>2, StillQuiet
<1>6. wait' \in [Thread -> WaitRecord] /\ WaitInv'
  BY <1>1, SameWaits DEF Inv
<1> QED  BY <1>1, <1>2, <1>3, <1>4, <1>5, <1>6, LoopVarsKept, CallKeeps

LEMMA CallStepKeeps ==
  ASSUME Inv, NEW t \in Thread, CallStep(t)
  PROVE  Inv'
BY EventAdd, EventDel, EventActive, PrioritySet, LoopBreak, LoopExitCall, AddVirtual, DelVirtual,
   DeferredSchedule, DeferredCancel DEF CallStep

-------------------------------------------------------------------------------
(***************************************************************************)
(* The steps of the loop.                                                  *)
(***************************************************************************)
LEMMA LoopKeeps ==
  ASSUME Inv, loop' \in LoopRecord, Sound(b', Handled'), LoopInv', NotifyInv', RestInv',
         wait' \in [Thread -> WaitRecord], WaitInv',
         deferq' \in Seq(Deferred), IsInjective(deferq'),
         ebreak' \in BOOLEAN, gotterm' \in BOOLEAN, is_notify_pending' \in BOOLEAN, notify_fd' \in {0, 1},
         current_event' \in Event \cup {NoEvent}, lncalls' \in Nat, owner' \in Thread \cup {NoThread},
         tv_cache' \in 0 .. MaxTime, clock' \in 1 .. MaxTime, virtual' = virtual, use' = use
  PROVE  Inv'
<1>1. b' \in Base
  BY DEF Sound, GoodLists
<1>2. {ebreak', gotterm', is_notify_pending'} \subseteq BOOLEAN
  OBVIOUS
<1>3. TypeOK'
  BY <1>1, <1>2 DEF Inv, TypeOK
<1> QED  BY <1>3 DEF Inv

LEMMA AwakeRest == pc' # "poll" => RestInv'
BY DEF RestInv, Resting

\* What an action that leaves a variable alone leaves of Inv.
LEMMA Kept ==
  ASSUME Inv
  PROVE  /\ loop \in LoopRecord /\ b \in Base /\ Sound(b, Handled)
         /\ ebreak \in BOOLEAN /\ gotterm \in BOOLEAN /\ is_notify_pending \in BOOLEAN /\ notify_fd \in {0, 1}
         /\ current_event \in Event \cup {NoEvent} /\ lncalls \in Nat /\ owner \in Thread \cup {NoThread}
         /\ tv_cache \in 0 .. MaxTime /\ clock \in 1 .. MaxTime /\ 0 \in 0 .. MaxTime
         /\ deferq \in Seq(Deferred) /\ IsInjective(deferq) /\ wait \in [Thread -> WaitRecord]
BY BaseAssumption DEF Inv, TypeOK

LEMMA LoopParts ==
  ASSUME NEW l \in LoopRecord
  PROVE  /\ l.flags \in LoopFlags /\ l.qi \in 0 .. NPrio /\ l.ran \in BOOLEAN /\ l.dcount \in Nat
         /\ l.until \in Int /\ l.target \in Int /\ l.todo \in SUBSET Event
         /\ l.pc \in Unlocked \cup {"top", "io", "scan", "ctl", "looped"}
BY DEF LoopRecord

\* The record of a new iteration.
NewLoop(f) == [IdleLoop EXCEPT !.pc = "top", !.flags = f]

LEMMA IdleLoopType ==
  /\ IdleLoop \in LoopRecord
  /\ \A f \in LoopFlags : NewLoop(f) \in LoopRecord /\ NewLoop(f).pc = "top" /\ NewLoop(f).todo = {}
<1>1. {} \in LoopFlags /\ 0 \in 0 .. NPrio
  BY BaseAssumption DEF LoopFlags
<1>2. IdleLoop \in LoopRecord
  BY <1>1 DEF IdleLoop, LoopRecord, Unlocked
<1>3. ASSUME NEW f \in LoopFlags
      PROVE  NewLoop(f) \in LoopRecord /\ NewLoop(f).pc = "top" /\ NewLoop(f).todo = {}
  <2>1. IdleLoop.todo = {}
    BY DEF IdleLoop
  <2>2. NewLoop(f) \in LoopRecord
    BY <1>2 DEF NewLoop, LoopRecord, Unlocked
  <2>3. NewLoop(f).pc = "top" /\ NewLoop(f).todo = IdleLoop.todo
    BY <1>2 DEF NewLoop, LoopRecord
  <2> QED  BY <2>1, <2>2, <2>3
<1> QED  BY <1>2, <1>3

LEMMA LoopStartKeeps ==
  ASSUME Inv, NEW t \in Thread, NEW f \in use.flags, LoopStart(t, f)
  PROVE  Inv'
<1> USE DEF LoopStart
<1>1. f \in LoopFlags
  BY DEF Inv, TypeOK, LoopFlags
<1>2. loop' \in LoopRecord /\ pc = "idle" /\ pc' = "top" /\ loop'.todo = {}
  BY <1>1, IdleLoopType DEF pc, NewLoop
<1>3. Handled = NoEvent /\ Handled' = NoEvent
  BY <1>2 DEF Handled
<1>4. Sound(b', Handled')
  BY <1>3 DEF Inv
<1>5. LoopInv'
  BY <1>2 DEF Inv, LoopInv, InCallback
<1>6. NotifyInv'
  BY <1>2 DEF Inv, NotifyInv
<1>7. WaitInv'
  BY DEF Inv, WaitInv
<1> QED  BY <1>2, <1>4, <1>5, <1>6, <1>7, Kept, AwakeRest, LoopKeeps

LEMMA TopKeeps ==
  ASSUME Inv, Top
  PROVE  Inv'
<1> DEFINE next   == IF Tops(b) = {} THEN Inf ELSE LET e == CHOOSE e \in Tops(b) : TRUE IN b.tmo[e].d
           nowait == N_ACTIVE_CALLBACKS(b) > 0 \/ "NONBLOCK" \in loop.flags
           until  == IF nowait \/ ~(next > gettime) THEN clock
                     ELSE IF next = Inf THEN Inf ELSE clock + next - gettime
           target == IF nowait THEN 0 ELSE next
           exits  == gotterm \/ ebreak \/ (~event_haveevents /\ N_ACTIVE_CALLBACKS(b) = 0)
<1>0. /\ pc = "top" /\ b' = [b EXCEPT !.continue = FALSE] /\ tv_cache' = 0
      /\ UNCHANGED <<ebreak, gotterm, is_notify_pending, notify_fd, current_event,
                     lncalls, owner, clock, virtual, deferq, wait, use>>
      /\ exits => loop' = IdleLoop
      /\ ~exits => loop' = [loop EXCEPT !.pc = "poll", !.target = target, !.until = until]
  BY DEF Top, ExitLoop
<1>1. /\ Sound(b, NoEvent) /\ b.running_priority \in Prio \cup {-1} /\ b \in Base /\ DueInv(b) /\ GoodLists(b)
      /\ loop.todo = {} /\ b.running_priority = -1 /\ current_event = NoEvent
  BY <1>0, Kept, BaseHas DEF Handled, Inv, LoopInv, InCallback, Sound
<1>2. b' = WithLoop(b, FALSE, b.running_priority)
  BY <1>0, <1>1 DEF WithLoop, Base
<1>3. /\ Sound(b', NoEvent) /\ SoundFields(b, b') /\ b'.running_priority = -1
  BY <1>1, <1>2, SoundLoop
<1>4. next \in Int /\ (next = Inf \/ next <= 2 * MaxTime) /\ \A e \in Heap(b) : b.tmo[e].d >= next
  <2>1. CASE Tops(b) = {}
    <3>1. Heap(b) = {} /\ next = Inf
      BY <1>1, <2>1, HeapTop
    <3> QED  BY <3>1, BaseAssumption DEF Inf
  <2>2. CASE Tops(b) # {}
    <3> DEFINE e == CHOOSE e \in Tops(b) : TRUE
    <3>1. e \in Tops(b) /\ next = b.tmo[e].d
      BY <2>2
    <3> HIDE DEF e
    <3>2. e \in Heap(b) /\ \A f \in Heap(b) : b.tmo[e].d <= b.tmo[f].d
      BY <3>1 DEF Tops
    <3>3. b.tmo[e].d \in 0 .. 2 * MaxTime /\ \A f \in Heap(b) : b.tmo[f].d \in 0 .. 2 * MaxTime
      BY <1>1, <3>2 DEF Heap, DueInv
    <3> HIDE DEF next
    <3> QED  BY <3>1, <3>2, <3>3, BaseAssumption
  <2> QED  BY <2>1, <2>2
<1> HIDE DEF next
<1>5. gettime \in 0 .. MaxTime /\ clock \in 1 .. MaxTime /\ Inf = 4 * MaxTime /\ MaxTime \in Nat \ {0}
  BY GettimeType, Kept, BaseAssumption DEF Inv, Inf
<1>6. target \in Int /\ until \in Int /\ (until = Inf => target = Inf)
  BY <1>4, <1>5
<1>7. until > clock => target = next /\ ~nowait
  BY <1>4, <1>5
<1>8. CASE exits
  <2>1. pc' = "idle" /\ loop' \in LoopRecord /\ loop'.todo = {}
    <3>1. loop' = IdleLoop
      BY <1>0, <1>8
    <3>2. IdleLoop.pc = "idle" /\ IdleLoop.todo = {}
      BY DEF IdleLoop
    <3> QED  BY <3>1, <3>2, IdleLoopType DEF pc
  <2>2. Handled' = NoEvent
    BY <2>1 DEF Handled
  <2>3. LoopInv'
    BY <1>0, <1>1, <1>3, <2>1 DEF LoopInv, InCallback
  <2>4. NotifyInv'
    BY <1>0, <1>1, <1>3, <2>1 DEF Inv, NotifyInv, SoundFields, SameLists, Active
  <2>5. WaitInv'
    BY <1>0 DEF Inv, WaitInv
  <2> HIDE DEF exits
  <2> QED  BY <1>0, <1>3, <2>1, <2>2, <2>3, <2>4, <2>5, Kept, AwakeRest, LoopKeeps
<1>9. CASE ~exits
  <2> HIDE DEF until, target
  <2>1. /\ loop' \in LoopRecord /\ pc' = "poll" /\ loop'.until = until /\ loop'.target = target
        /\ loop'.todo = loop.todo
    BY <1>0, <1>6, <1>9, Kept DEF LoopRecord, pc, Unlocked
  <2>2. Handled' = NoEvent
    BY <2>1 DEF Handled
  <2>3. LoopInv'
    BY <1>0, <1>1, <1>3, <2>1 DEF LoopInv, InCallback
  <2>4. NotifyInv'
    BY <1>0, <1>1, <1>3, <2>1 DEF Inv, NotifyInv, SoundFields, SameLists, Active
  <2>5. WaitInv'
    BY <1>0 DEF Inv, WaitInv
  <2>6. ASSUME until > clock
        PROVE  Quiet(b, deferq, ebreak, virtual)'
    <3>1. target = next /\ ~(N_ACTIVE_CALLBACKS(b) > 0)
      BY <1>7, <2>6
    <3>2. b.nactive \in Nat /\ Len(deferq) \in Nat
      BY <1>1, Counters, Kept
    <3>3. b.nactive = 0 /\ Len(deferq) = 0
      BY <3>1, <3>2 DEF N_ACTIVE_CALLBACKS
    <3>4. Active(b) = {} /\ deferq = <<>>
      BY <1>1, <3>3, Counters, Kept, ElementsInRange
    <3>5. ~ebreak /\ event_haveevents
      BY <1>9, <3>3 DEF N_ACTIVE_CALLBACKS
    <3>6. virtual > 0 \/ UserFlags(b) # {}
      BY <1>1, <3>5, Counters DEF event_haveevents
    <3>7. Active(b') = Active(b) /\ Heap(b') = Heap(b) /\ UserFlags(b') = UserFlags(b) /\ b'.tmo = b.tmo
      BY <1>3 DEF SoundFields, SameLists, Active, Heap, UserFlags
    <3> HIDE DEF exits, nowait
    <3>8. Active(b') = {} /\ deferq' = <<>> /\ ~ebreak' /\ (virtual' > 0 \/ UserFlags(b') # {})
      BY <1>0, <3>4, <3>5, <3>6, <3>7
    <3>9. \A e \in Heap(b') : b'.tmo[e].d >= loop'.target
      BY <1>4, <2>1, <3>1, <3>7
    <3> QED  BY <3>8, <3>9 DEF Quiet
  <2>7. RestInv'
    BY <1>0, <1>6, <2>1, <2>6 DEF RestInv, Resting
  <2> HIDE DEF exits
  <2> QED  BY <1>0, <1>3, <2>1, <2>2, <2>3, <2>4, <2>5, <2>7, Kept, LoopKeeps
<1> QED  BY <1>8, <1>9

LEMMA WaitsStay == Inv /\ wait' = wait /\ owner' = owner => WaitInv'
BY DEF Inv, WaitInv

LEMMA ExitKeeps ==
  ASSUME Inv, ExitLoop, pc \notin InCallback, b.running_priority = -1,
         UNCHANGED <<b, ebreak, gotterm, is_notify_pending, notify_fd, current_event,
                     lncalls, owner, clock, virtual, deferq, wait, use>>
  PROVE  Inv'
<1>1. pc' = "idle" /\ loop' \in LoopRecord /\ loop'.todo = {} /\ tv_cache' = 0
  BY IdleLoopType DEF ExitLoop, IdleLoop, pc
<1>2. Handled = NoEvent /\ Handled' = NoEvent /\ current_event = NoEvent
  BY <1>1 DEF Handled, Inv, LoopInv, InCallback
<1>3. LoopInv'
  BY <1>1, <1>2 DEF LoopInv, InCallback
<1>4. NotifyInv'
  BY <1>1 DEF Inv, NotifyInv, InCallback
<1> QED  BY <1>1, <1>2, <1>3, <1>4, Kept, WaitsStay, AwakeRest, LoopKeeps

LEMMA DispatchKeeps ==
  ASSUME Inv, NEW S \in SUBSET Event, Dispatch(S)
  PROVE  Inv'
<1>0. /\ pc = "poll" /\ S \subseteq Ready
      /\ loop' = [loop EXCEPT !.pc = "io", !.todo = S, !.until = 0, !.target = 0]
      /\ UNCHANGED <<b, ebreak, gotterm, is_notify_pending, notify_fd, current_event,
                     lncalls, owner, clock, virtual, deferq, wait, use>>
  BY DEF Dispatch
<1>1. loop' \in LoopRecord /\ pc' = "io" /\ loop'.todo = S
  <2>1. loop' = [loop EXCEPT !.pc = "io", !.todo = S, !.until = 0, !.target = 0]
    BY <1>0
  <2>2. loop \in LoopRecord /\ 0 \in Int
    BY Kept
  <2>3. loop' \in LoopRecord
    BY <2>1, <2>2 DEF LoopRecord
  <2>4. loop'.pc = "io" /\ loop'.todo = S
    BY <2>1, <2>2 DEF LoopRecord
  <2> QED  BY <2>3, <2>4 DEF pc
<1>2. tv_cache' \in 0 .. MaxTime
  BY Kept, BaseAssumption DEF Dispatch, update_time_cache
<1>3. Handled = NoEvent /\ Handled' = NoEvent /\ current_event = NoEvent /\ b.running_priority = -1
  BY <1>0, <1>1 DEF Handled, Inv, LoopInv, InCallback
<1>4. LoopInv'
  BY <1>0, <1>1, <1>3 DEF LoopInv, InCallback
<1>5. NotifyInv'
  <2>1. th_notify \in S => notify_fd = 1
    BY <1>0, Kept DEF Ready
  <2> QED  BY <1>0, <1>1, <2>1 DEF Inv, NotifyInv
<1> QED  BY <1>0, <1>1, <1>2, <1>3, <1>4, <1>5, Kept, WaitsStay, AwakeRest, LoopKeeps

LEMMA DispatchErrorKeeps ==
  ASSUME Inv, DispatchError
  PROVE  Inv'
<1>1. pc \notin InCallback /\ b.running_priority = -1
  BY DEF DispatchError, Inv, LoopInv, InCallback
<1> QED  BY <1>1, ExitKeeps DEF DispatchError

LEMMA ActivateReadyKeeps ==
  ASSUME Inv, NEW e \in Event, NEW n \in NcallsOf(e), ActivateReady(e, n)
  PROVE  Inv'
<1>0. /\ pc = "io" /\ e \in loop.todo /\ n \in Nat
      /\ b' = event_active_nolock(b, e, "IO", n)
      /\ loop' = [loop EXCEPT !.todo = @ \ {e}]
      /\ UNCHANGED <<ebreak, gotterm, is_notify_pending, notify_fd, current_event,
                     lncalls, owner, tv_cache, clock, virtual, deferq, wait, use>>
  BY NcallsType DEF ActivateReady
<1>1. loop' \in LoopRecord /\ pc' = "io" /\ loop'.todo = loop.todo \ {e}
  BY <1>0, Kept DEF LoopRecord, pc, Unlocked
<1>2. Handled = NoEvent /\ Handled' = NoEvent /\ current_event = NoEvent /\ b.running_priority = -1
  BY <1>0, <1>1 DEF Handled, Inv, LoopInv, InCallback
<1>3. Sound(b', NoEvent) /\ Activated(b, b', e, "IO")
  BY <1>0, <1>2, Kept, SoundActive
<1>4. b.flags \in [Event -> SUBSET Flag] /\ th_notify \in Event /\ th_notify # NoEvent
  BY Kept, BaseHas, BaseAssumption DEF Event
<1>5. b'.running_priority = -1 /\ (th_notify \in Active(b') => th_notify \in Active(b) \/ th_notify = e)
  BY <1>2, <1>3, <1>4 DEF Activated, Active
<1>6. LoopInv'
  BY <1>0, <1>1, <1>2, <1>5 DEF LoopInv, InCallback
<1>7. NotifyInv'
  BY <1>0, <1>1, <1>2, <1>4, <1>5 DEF Inv, NotifyInv
<1> QED  BY <1>0, <1>1, <1>2, <1>3, <1>6, <1>7, Kept, WaitsStay, AwakeRest, LoopKeeps

LEMMA TimeoutKeeps ==
  ASSUME Inv, NEW e \in Event, timeout_process(e)
  PROVE  Inv'
<1>0. /\ pc = "io" /\ loop.todo = {} /\ e \in Tops(b) /\ b.tmo[e].d <= gettime
      /\ b' = event_active_nolock(event_del_internal(b, e), e, "TIMEOUT", 1)
      /\ UNCHANGED <<ebreak, gotterm, is_notify_pending, notify_fd, current_event,
                     owner, tv_cache, clock, virtual, deferq, loop, wait, use>>
  BY DEF timeout_process
<1>1. lncalls' \in Nat /\ gettime \in 0 .. MaxTime
  BY AbortType, GettimeType DEF timeout_process, Inv
<1>2. Handled = NoEvent /\ Handled' = NoEvent /\ current_event = NoEvent /\ b.running_priority = -1 /\ pc' = pc
  BY <1>0 DEF Handled, Inv, LoopInv, InCallback, pc
<1>3. /\ b.flags \in [Event -> SUBSET Flag] /\ th_notify \in Event /\ th_notify # NoEvent
      /\ "TIMEOUT" \in b.flags[e] /\ e # th_notify /\ b.tmo[e].d \in Int
  BY <1>0, Kept, BaseHas, QueueOf, BaseAssumption DEF Event, Tops, Heap, Sound, KindsInv
<1>4. b.tmo[e].d <= MaxTime
  BY <1>0, <1>1, <1>3, BaseAssumption
<1>5. Sound(b', NoEvent) /\ TimedOut(b, b', e)
  BY <1>0, <1>2, <1>3, <1>4, Kept, SoundTimedOut
<1>6. b'.running_priority = -1 /\ (th_notify \in Active(b') => th_notify \in Active(b))
  BY <1>2, <1>3, <1>5 DEF TimedOut, Active
<1>7. LoopInv'
  BY <1>0, <1>2, <1>6 DEF LoopInv, InCallback
<1>8. NotifyInv'
  BY <1>0, <1>2, <1>3, <1>6 DEF Inv, NotifyInv
<1> QED  BY <1>0, <1>1, <1>2, <1>5, <1>7, <1>8, Kept, WaitsStay, AwakeRest, LoopKeeps

LEMMA ProcessOrNotKeeps ==
  ASSUME Inv, ProcessOrNot
  PROVE  Inv'
<1>0. /\ pc = "io" /\ loop.todo = {}
      /\ UNCHANGED <<b, ebreak, gotterm, is_notify_pending, notify_fd, current_event,
                     lncalls, owner, clock, virtual, deferq, wait, use>>
  BY DEF ProcessOrNot
<1>2. Handled = NoEvent /\ current_event = NoEvent /\ b.running_priority = -1 /\ pc \notin InCallback
  BY <1>0 DEF Handled, Inv, LoopInv, InCallback
<1>3. CASE ExitLoop
  BY <1>0, <1>2, <1>3, ExitKeeps
<1>4. CASE /\ tv_cache' = tv_cache
           /\ \/ loop' = [loop EXCEPT !.pc = "scan", !.qi = 0, !.ran = FALSE, !.dcount = 0]
              \/ loop' = [loop EXCEPT !.pc = "top"]
  <2>1. loop' \in LoopRecord /\ pc' \in {"scan", "top"} /\ loop'.todo = {}
    <3>1. loop \in LoopRecord /\ 0 \in 0 .. NPrio
      BY Kept, BaseAssumption
    <3>2. CASE loop' = [loop EXCEPT !.pc = "scan", !.qi = 0, !.ran = FALSE, !.dcount = 0]
      BY <1>0, <3>1, <3>2 DEF LoopRecord, pc, Unlocked
    <3>3. CASE loop' = [loop EXCEPT !.pc = "top"]
      BY <1>0, <3>1, <3>3 DEF LoopRecord, pc, Unlocked
    <3> QED  BY <1>4, <3>2, <3>3
  <2>2. Handled' = NoEvent
    BY <2>1 DEF Handled
  <2>3. LoopInv'
    BY <1>0, <1>2, <2>1 DEF LoopInv, InCallback
  <2>4. NotifyInv'
    BY <1>0, <2>1 DEF Inv, NotifyInv
  <2>5. pc' # "poll"
    BY <2>1
  <2> QED  BY <1>0, <1>2, <1>4, <2>1, <2>2, <2>3, <2>4, <2>5, Kept, WaitsStay, AwakeRest, LoopKeeps
<1> QED  BY <1>3, <1>4 DEF ProcessOrNot

LEMMA NextQueueKeeps ==
  ASSUME Inv, NextQueue
  PROVE  Inv'
<1>0. /\ pc = "scan" /\ loop.qi < NPrio /\ loop' = [loop EXCEPT !.qi = @ + 1]
      /\ UNCHANGED <<b, ebreak, gotterm, is_notify_pending, notify_fd, current_event,
                     lncalls, owner, tv_cache, clock, virtual, deferq, wait, use>>
  BY DEF NextQueue
<1>1. loop' \in LoopRecord /\ pc' = "scan" /\ loop'.todo = loop.todo
  <2>1. loop.qi + 1 \in 0 .. NPrio
    BY <1>0, Kept, LoopParts, BaseAssumption
  <2> QED  BY <1>0, <2>1, Kept DEF LoopRecord, pc
<1>2. Handled = NoEvent /\ Handled' = NoEvent /\ current_event = NoEvent
  BY <1>0, <1>1 DEF Handled, Inv, LoopInv, InCallback
<1>3. LoopInv'
  BY <1>0, <1>1, <1>2 DEF Inv, LoopInv, InCallback
<1>4. NotifyInv'
  BY <1>0, <1>1 DEF Inv, NotifyInv
<1> QED  BY <1>0, <1>1, <1>2, <1>3, <1>4, Kept, WaitsStay, AwakeRest, LoopKeeps

\* The record of a loop that goes to p, with queue q and count r.
AtLoop(l, p, q, r) == [l EXCEPT !.pc = p, !.qi = q, !.ran = r]

LEMMA AtLoopType ==
  ASSUME NEW l \in LoopRecord, NEW p \in Unlocked \cup {"top", "io", "scan", "ctl", "looped"},
         NEW q \in 0 .. NPrio, NEW r \in BOOLEAN
  PROVE  LET m == AtLoop(l, p, q, r)
         IN  /\ m \in LoopRecord /\ m.pc = p /\ m.qi = q /\ m.ran = r /\ m.todo = l.todo
<1>1. AtLoop(l, p, q, r) \in LoopRecord
  BY DEF LoopRecord, AtLoop
<1>2. LET m == AtLoop(l, p, q, r) IN m.pc = p /\ m.qi = q /\ m.ran = r /\ m.todo = l.todo
  BY DEF LoopRecord, AtLoop
<1> QED  BY <1>1, <1>2

LEMMA AtPc ==
  ASSUME NEW l \in LoopRecord, NEW p
  PROVE  [l EXCEPT !.pc = p] = AtLoop(l, p, l.qi, l.ran)
BY DEF LoopRecord, AtLoop

\* What Inv says of a loop that runs a callback.
LEMMA Running ==
  ASSUME Inv, pc \in InCallback
  PROVE  /\ current_event \in Event /\ loop.todo = {} /\ loop.qi \in Prio /\ b.running_priority = loop.qi
         /\ loop.qi \in 0 .. NPrio /\ loop.ran \in BOOLEAN
<1>1. loop.qi \in 0 .. NPrio /\ loop.ran \in BOOLEAN
  BY Kept, LoopParts
<1>2. loop.qi < NPrio /\ current_event # NoEvent /\ b.running_priority = loop.qi /\ loop.todo = {}
  BY DEF Inv, LoopInv, InCallback
<1> QED  BY <1>1, <1>2, Kept, BaseAssumption DEF Prio

LEMMA PickKeeps ==
  ASSUME Inv, Pick
  PROVE  Inv'
<1> DEFINE e == Head(b.activeq[loop.qi])
           p == IF Signal(e) /\ b.ncalls[e] = 0 THEN "cbret" ELSE "cb"
           r == loop.ran \/ e \notin Internal
<1>0. /\ pc = "scan" /\ loop.qi < NPrio /\ b.activeq[loop.qi] # <<>>
      /\ b' = Picked(b, e, loop.qi)
      /\ lncalls' = IF Signal(e) /\ b.ncalls[e] > 0 THEN b.ncalls[e] - 1 ELSE 0
      /\ current_event' = e
      /\ UNCHANGED <<ebreak, gotterm, is_notify_pending, notify_fd, owner, tv_cache,
                     clock, virtual, deferq, wait, use>>
  BY DEF Pick, Picked
<1>1. loop.qi \in 0 .. NPrio /\ loop.qi \in Prio /\ loop.ran \in BOOLEAN
  BY <1>0, Kept, LoopParts, BaseAssumption DEF Prio
<1>2. loop' = AtLoop(loop, p, loop.qi, r)
  <2>1. loop' = [loop EXCEPT !.pc = p, !.ran = r]
    BY DEF Pick
  <2> QED  BY <2>1, Kept DEF LoopRecord, AtLoop
<1>3. Handled = NoEvent /\ current_event = NoEvent /\ loop.todo = {}
  BY <1>0 DEF Handled, Inv, LoopInv, InCallback
<1>4. GoodLists(b) /\ Sound(b, NoEvent) /\ b.ncalls \in [Event -> Nat]
  BY <1>3, Kept, BaseHas DEF Sound
<1>5. e \in Active(b)
  BY <1>0, <1>1, <1>4, ActiveHead
<1> HIDE DEF e
<1>6. e \in Event /\ b.ncalls[e] \in Nat /\ th_notify \in Event /\ NoEvent \notin Event
  BY <1>4, <1>5, BaseAssumption DEF Active, Event
<1>7. PickResult(b, b', e, loop.qi)
  BY <1>0, <1>1, <1>4, <1>5, SoundPicked, GettimeType DEF Inv
<1>8. p \in {"cb", "cbret"} /\ (p = "cbret" => e \notin CommonQueue) /\ r \in BOOLEAN
  BY <1>1, BaseAssumption DEF Signal
<1> HIDE DEF p, r
<1>9. loop' \in LoopRecord /\ pc' = p /\ loop'.qi = loop.qi /\ loop'.todo = {}
  <2>1. loop \in LoopRecord /\ p \in Unlocked \cup {"top", "io", "scan", "ctl", "looped"}
    BY <1>8, Kept DEF Unlocked
  <2>2. loop' \in LoopRecord /\ loop'.pc = p /\ loop'.qi = loop.qi /\ loop'.todo = loop.todo
    BY <1>1, <1>2, <1>8, <2>1, AtLoopType
  <2> QED  BY <1>3, <2>2 DEF pc
<1>10. Sound(b', Handled')
  <2>1. Sound(b', e)
    BY <1>7 DEF PickResult
  <2>2. CASE p = "cb"
    BY <1>0, <1>9, <2>1, <2>2 DEF Handled
  <2>3. CASE p = "cbret"
    BY <1>8, <1>9, <2>1, <2>3, SoundExempt DEF Handled
  <2> QED  BY <1>8, <2>2, <2>3
<1>11. LoopInv'
  <2>1. b'.running_priority = loop.qi /\ current_event' # NoEvent
    BY <1>0, <1>6, <1>7 DEF PickResult
  <2> QED  BY <1>0, <1>8, <1>9, <2>1 DEF LoopInv, InCallback
<1>12. NotifyInv'
  <2>1. Active(b') \subseteq Active(b) \ {e}
    BY <1>7 DEF PickResult
  <2>2. e = th_notify => notify_fd = 1
    BY <1>5 DEF Inv, NotifyInv
  <2>3. /\ notify_fd = 1 => is_notify_pending
        /\ ~(is_notify_pending /\ notify_fd = 0)
        /\ th_notify \in Active(b) => notify_fd = 1
    BY <1>0 DEF Inv, NotifyInv
  <2> QED  BY <1>0, <1>8, <1>9, <2>1, <2>2, <2>3 DEF NotifyInv
<1>13. lncalls' \in Nat
  BY <1>0, <1>6
<1> QED  BY <1>0, <1>6, <1>8, <1>9, <1>10, <1>11, <1>12, <1>13, Kept, WaitsStay, AwakeRest, LoopKeeps

\* The broadcast wakes the waiting threads and changes nothing else of them.
LEMMA BroadcastKeeps ==
  ASSUME Inv, owner' = owner,
         wait' = [t \in Thread |-> IF wait[t].st = "waiting" THEN [wait[t] EXCEPT !.st = "woken"]
                                    ELSE wait[t]]
  PROVE  wait' \in [Thread -> WaitRecord] /\ WaitInv'
<1> DEFINE w(t) == IF wait[t].st = "waiting" THEN [wait[t] EXCEPT !.st = "woken"] ELSE wait[t]
<1>1. \A t \in Thread : /\ w(t) \in WaitRecord /\ w(t).e = wait[t].e /\ w(t).op = wait[t].op
                        /\ w(t).tv = wait[t].tv
                        /\ w(t).st # "none" <=> wait[t].st # "none"
  <2> TAKE t \in Thread
  <2>1. wait[t] \in WaitRecord
    BY Kept
  <2> QED  BY <2>1 DEF WaitRecord
<1>2. wait' = [t \in Thread |-> w(t)]
  OBVIOUS
<1> HIDE DEF w
<1>3. wait' \in [Thread -> WaitRecord] /\ \A t \in Thread : wait'[t] = w(t)
  BY <1>1, <1>2
<1>4. ASSUME NEW t \in Thread, wait'[t].st # "none"
      PROVE  /\ owner # t
             /\ wait'[t].e \in UserEvent /\ wait'[t].op \in {"add", "del", "active"}
             /\ wait'[t].tv = NoTv \/ (wait'[t].tv \in TvArg /\ wait'[t].tv.d <= MaxTime)
             /\ wait'[t].op = "active" => Signal(wait'[t].e)
  BY <1>1, <1>3, <1>4 DEF Inv, WaitInv
<1> QED  BY <1>3, <1>4 DEF WaitInv

LEMMA AfterCallbackKeeps ==
  ASSUME Inv, NEW s, AfterCallback(s), pc \in {"cb", "cbret"}, Sound(s, NoEvent),
         SoundFields(b, s), s.running_priority = b.running_priority,
         pc = "cb" => current_event # th_notify
  PROVE  Inv'
<1>0. /\ current_event' = NoEvent /\ lncalls' = 0
      /\ wait' = [t \in Thread |-> IF wait[t].st = "waiting" THEN [wait[t] EXCEPT !.st = "woken"]
                                    ELSE wait[t]]
      /\ UNCHANGED <<ebreak, gotterm, is_notify_pending, notify_fd, owner, tv_cache,
                     clock, virtual, deferq, use>>
  BY DEF AfterCallback
<1>1. /\ current_event \in Event /\ loop.todo = {} /\ loop.qi \in Prio /\ s.running_priority = loop.qi
      /\ loop.qi \in 0 .. NPrio /\ loop.ran \in BOOLEAN
  BY Running DEF InCallback
<1>2. s \in Base /\ s.continue \in BOOLEAN
  BY BaseHas DEF Sound, GoodLists
<1>3. \E q \in 0 .. NPrio : loop' = AtLoop(loop, IF ebreak THEN "looped" ELSE "scan", q, loop.ran)
  <2>1. CASE ebreak
    <3>1. loop' = [loop EXCEPT !.pc = "looped"]
      BY <2>1 DEF AfterCallback
    <3> QED  BY <1>1, <2>1, <3>1, Kept, AtPc
  <2>2. CASE ~ebreak
    <3> DEFINE q == IF ~s.continue /\ s.activeq[loop.qi] # <<>> THEN loop.qi
                    ELSE IF loop.ran THEN NPrio ELSE loop.qi + 1
    <3>1. loop' = [loop EXCEPT !.pc = "scan", !.qi = q]
      BY <2>2 DEF AfterCallback
    <3>2. q \in 0 .. NPrio
      BY <1>1, BaseAssumption DEF Prio
    <3> HIDE DEF q
    <3>3. loop' = AtLoop(loop, "scan", q, loop.ran)
      BY <3>1, Kept DEF LoopRecord, AtLoop
    <3> QED  BY <2>2, <3>2, <3>3
  <2> QED  BY <2>1, <2>2
<1>4. loop' \in LoopRecord /\ pc' = (IF ebreak THEN "looped" ELSE "scan") /\ loop'.todo = {}
  <2>1. PICK q \in 0 .. NPrio : loop' = AtLoop(loop, IF ebreak THEN "looped" ELSE "scan", q, loop.ran)
    BY <1>3
  <2> DEFINE p == IF ebreak THEN "looped" ELSE "scan"
  <2>2. loop \in LoopRecord /\ p \in Unlocked \cup {"top", "io", "scan", "ctl", "looped"}
    BY Kept
  <2>3. loop' = AtLoop(loop, p, q, loop.ran)
    BY <2>1
  <2> HIDE DEF p
  <2>4. loop' \in LoopRecord /\ loop'.pc = p /\ loop'.todo = loop.todo
    BY <1>1, <2>2, <2>3, AtLoopType
  <2> QED  BY <1>1, <2>4 DEF pc, p
<1>5. /\ Sound(b', NoEvent) /\ b'.flags = s.flags
      /\ ebreak => b'.running_priority = -1
  <2>1. CASE ebreak
    <3>1. b' = [s EXCEPT !.running_priority = -1]
      BY <2>1 DEF AfterCallback
    <3>2. b' = WithLoop(s, s.continue, -1)
      BY <1>2, <3>1 DEF Base, WithLoop
    <3> QED  BY <1>2, <3>2, SoundLoop DEF SoundFields, SameLists
  <2>2. CASE ~ebreak
    BY <2>2 DEF AfterCallback
  <2> QED  BY <2>1, <2>2
<1>6. Handled' = NoEvent /\ pc' # "poll"
  BY <1>0, <1>4 DEF Handled
<1>7. LoopInv'
  BY <1>0, <1>4, <1>5 DEF LoopInv, InCallback
<1>8. NotifyInv'
  <2>1. Active(b') = Active(b)
    BY <1>5 DEF Active, SoundFields, SameLists
  <2>2. /\ notify_fd = 1 => is_notify_pending
        /\ ~(is_notify_pending /\ notify_fd = 0)
        /\ th_notify \in Active(b) => notify_fd = 1
    BY DEF Inv, NotifyInv
  <2>3. NoEvent # th_notify
    BY BaseAssumption DEF Event
  <2> QED  BY <1>0, <1>4, <2>1, <2>2, <2>3 DEF NotifyInv
<1>9. 0 \in Nat
  OBVIOUS
<1> QED  BY <1>0, <1>4, <1>5, <1>6, <1>7, <1>8, <1>9, Kept, BroadcastKeeps, AwakeRest, LoopKeeps

LEMMA CallbackReturnsKeeps ==
  ASSUME Inv, CallbackReturns
  PROVE  Inv'
<1>1. /\ pc \in {"cb", "cbret"} /\ AfterCallback(b)
      /\ pc = "cb" => current_event \in UserEvent
  BY DEF CallbackReturns
<1>2. pc = "cb" => current_event # th_notify /\ current_event \notin CommonQueue
  BY <1>1, BaseAssumption
<1>3. Sound(b, NoEvent)
  <2>1. CASE pc = "cb"
    BY <1>2, <2>1, Kept, SoundExempt DEF Handled
  <2>2. CASE pc = "cbret"
    BY <2>2, Kept DEF Handled
  <2> QED  BY <1>1, <2>1, <2>2
<1>4. SoundFields(b, b)
  BY DEF SoundFields, SameLists
<1> QED  BY <1>1, <1>2, <1>3, <1>4, AfterCallbackKeeps

LEMMA SignalReturnsKeeps ==
  ASSUME Inv, SignalCallReturns
  PROVE  Inv'
<1> DEFINE e == current_event
<1>0. /\ pc = "cb" /\ Signal(e) /\ e \in UserEvent /\ e \notin CommonQueue /\ e # th_notify
      /\ pc \in InCallback /\ pc \in {"cb", "cbret"} /\ Handled = e
  BY BaseAssumption DEF SignalCallReturns, Signal, InCallback, Handled
<1>1. /\ e \in Event /\ Sound(b, e) /\ Sound(b, NoEvent) /\ b \in Base
      /\ b.pncalls \in [Event -> BOOLEAN] /\ b.ncalls \in [Event -> Nat]
      /\ b.pncalls[e] \in BOOLEAN /\ b.ncalls[e] \in Nat /\ lncalls \in Nat
  BY <1>0, Kept, SoundExempt, BaseHas DEF Event
<1>2. CASE /\ lncalls > 0 /\ lncalls' = lncalls - 1
           /\ b' = [b EXCEPT !.ncalls[e] = lncalls - 1, !.pncalls[e] = @ /\ lncalls > 1]
           /\ UNCHANGED <<ebreak, gotterm, is_notify_pending, notify_fd, current_event, owner,
                          tv_cache, clock, virtual, deferq, loop, wait, use>>
  <2> DEFINE k == b.pncalls[e] /\ lncalls > 1
  <2>1. b' = WithCalls(b, e, lncalls - 1, k)
    BY <1>1, <1>2 DEF Base, WithCalls
  <2>2. lncalls - 1 \in Nat /\ k \in BOOLEAN
    BY <1>1, <1>2
  <2> HIDE DEF k
  <2>3. Sound(b', e) /\ SoundFields(b, b') /\ b'.running_priority = b.running_priority
    <3> DEFINE n == lncalls - 1
    <3>1. b' = WithCalls(b, e, n, k) /\ n \in Nat
      BY <2>1, <2>2
    <3> HIDE DEF n, e
    <3> QED  BY <1>1, <2>2, <3>1, SoundCalls
  <2>4. Handled' = e /\ pc' = pc /\ pc' # "poll" /\ loop' = loop /\ Active(b') = Active(b)
    BY <1>0, <1>2, <2>3 DEF Handled, pc, Active, SoundFields, SameLists
  <2>5. LoopInv'
    BY <1>2, <2>3, <2>4 DEF Inv, LoopInv
  <2>6. NotifyInv'
    BY <1>2, <2>4 DEF Inv, NotifyInv
  <2> QED  BY <1>2, <2>2, <2>3, <2>4, <2>5, <2>6, Kept, WaitsStay, AwakeRest, LoopKeeps
<1>3. CASE AfterCallback([b EXCEPT !.pncalls[e] = FALSE])
  <2> DEFINE s == WithCalls(b, e, b.ncalls[e], FALSE)
  <2>1. [b EXCEPT !.pncalls[e] = FALSE] = s
    BY <1>1 DEF Base, WithCalls
  <2>2. AfterCallback(s)
    BY <1>3, <2>1
  <2>3. Sound(s, NoEvent) /\ SoundFields(b, s) /\ s.running_priority = b.running_priority
    BY <1>1, SoundCalls
  <2> HIDE DEF s
  <2> QED  BY <1>0, <2>2, <2>3, AfterCallbackKeeps
<1>4. CASE AfterCallback(b)
  <2>1. SoundFields(b, b)
    BY DEF SoundFields, SameLists
  <2> QED  BY <1>0, <1>1, <1>4, <2>1, AfterCallbackKeeps
<1> QED  BY <1>2, <1>3, <1>4 DEF SignalCallReturns

\* A step of a running callback that leaves the queues as they are.
LEMMA CallbackStep ==
  ASSUME Inv, pc \in {"cb", "drain"}, NEW p \in {"drain", "cbret"},
         loop' = [loop EXCEPT !.pc = p],
         current_event \notin CommonQueue,
         p = "drain" => current_event = th_notify,
         gotterm' \in BOOLEAN, is_notify_pending' \in BOOLEAN, notify_fd' \in {0, 1},
         notify_fd' = 1 => is_notify_pending',
         p = "drain" <=> is_notify_pending' /\ notify_fd' = 0,
         current_event # th_notify => notify_fd' = notify_fd,
         UNCHANGED <<b, ebreak, current_event, lncalls, owner, tv_cache, clock, virtual,
                     deferq, wait, use>>
  PROVE  Inv'
<1>1. /\ current_event \in Event /\ loop.todo = {} /\ loop.qi \in Prio /\ b.running_priority = loop.qi
      /\ loop.qi \in 0 .. NPrio /\ loop.ran \in BOOLEAN
  BY Running DEF InCallback
<1>2. loop' \in LoopRecord /\ pc' = p /\ loop'.todo = {} /\ loop'.qi = loop.qi
  <2>1. loop \in LoopRecord /\ p \in Unlocked \cup {"top", "io", "scan", "ctl", "looped"}
    BY Kept DEF Unlocked
  <2>2. loop' = AtLoop(loop, p, loop.qi, loop.ran)
    BY <2>1, AtPc
  <2>3. loop' \in LoopRecord /\ loop'.pc = p /\ loop'.qi = loop.qi /\ loop'.todo = loop.todo
    BY <1>1, <2>1, <2>2, AtLoopType
  <2> QED  BY <1>1, <2>3 DEF pc
<1>3. Sound(b', Handled') /\ pc' # "poll"
  <2>1. Handled \notin CommonQueue
    BY BaseAssumption DEF Handled, Event
  <2>2. Sound(b, NoEvent)
    BY <2>1, Kept, SoundExempt
  <2> QED  BY <1>2, <2>2 DEF Handled
<1>4. LoopInv'
  <2>1. NoEvent \notin Event /\ loop.qi < NPrio
    BY <1>1, BaseAssumption DEF Prio
  <2> QED  BY <1>1, <1>2, <2>1 DEF LoopInv, InCallback
<1>5. NotifyInv'
  <2>1. /\ th_notify \in Active(b) => notify_fd = 1 /\ current_event # th_notify
    BY DEF Inv, NotifyInv
  <2> QED  BY <1>2, <2>1 DEF NotifyInv
<1> QED  BY <1>1, <1>2, <1>3, <1>4, <1>5, Kept, WaitsStay, AwakeRest, LoopKeeps

LEMMA LoopexitCbKeeps == Inv /\ event_loopexit_cb => Inv'
<1> SUFFICES ASSUME Inv, event_loopexit_cb PROVE Inv'
  OBVIOUS
<1>1. /\ pc = "cb" /\ current_event \in UserEvent /\ loop' = [loop EXCEPT !.pc = "cbret"] /\ gotterm' = TRUE
      /\ UNCHANGED <<b, ebreak, is_notify_pending, notify_fd, current_event, lncalls, owner,
                     tv_cache, clock, virtual, deferq, wait, use>>
  BY BaseAssumption DEF event_loopexit_cb
<1>2. current_event \notin CommonQueue
  BY <1>1, BaseAssumption
<1>3. /\ notify_fd = 1 => is_notify_pending
      /\ ~(is_notify_pending /\ notify_fd = 0)
  BY <1>1 DEF Inv, NotifyInv
<1> QED  BY <1>1, <1>2, <1>3, CallbackStep, Kept

LEMMA DrainKeeps == Inv /\ (evthread_notify_drain \/ DrainClears) => Inv'
<1> SUFFICES ASSUME Inv, evthread_notify_drain \/ DrainClears PROVE Inv'
  OBVIOUS
<1>0. current_event = th_notify /\ current_event \notin CommonQueue /\ pc \in {"cb", "drain"}
  BY BaseAssumption DEF evthread_notify_drain, DrainClears, Inv, LoopInv
<1>1. CASE evthread_notify_drain
  <2>1. /\ pc = "cb" /\ loop' = [loop EXCEPT !.pc = "drain"] /\ notify_fd' = 0
        /\ UNCHANGED <<b, ebreak, gotterm, is_notify_pending, current_event, lncalls, owner,
                       tv_cache, clock, virtual, deferq, wait, use>>
    BY <1>1 DEF evthread_notify_drain
  <2>2. is_notify_pending
    BY <1>0, <2>1 DEF Inv, NotifyInv
  <2> QED  BY <1>0, <2>1, <2>2, CallbackStep, Kept
<1>2. CASE DrainClears
  <2>1. /\ pc = "drain" /\ loop' = [loop EXCEPT !.pc = "cbret"] /\ is_notify_pending' = FALSE
        /\ UNCHANGED <<b, ebreak, gotterm, notify_fd, current_event, lncalls, owner,
                       tv_cache, clock, virtual, deferq, wait, use>>
    BY <1>2 DEF DrainClears
  <2>2. notify_fd = 0
    BY <2>1 DEF Inv, NotifyInv
  <2>3. /\ ~is_notify_pending' /\ is_notify_pending' \in BOOLEAN /\ notify_fd' = 0 /\ notify_fd' \in {0, 1}
        /\ gotterm' \in BOOLEAN
    BY <2>1, <2>2, Kept
  <2>4. /\ notify_fd' = 1 => is_notify_pending'
        /\ "cbret" = "drain" <=> is_notify_pending' /\ notify_fd' = 0
        /\ "cbret" = "drain" => current_event = th_notify
        /\ current_event # th_notify => notify_fd' = notify_fd
    BY <1>0, <2>3
  <2> QED  BY <1>0, <2>1, <2>3, <2>4, CallbackStep
<1> QED  BY <1>1, <1>2

LEMMA MovesTo ==
  ASSUME NEW l \in LoopRecord, NEW p \in Unlocked \cup {"top", "io", "scan", "ctl", "looped"}
  PROVE  LET m == [l EXCEPT !.pc = p]
         IN  m \in LoopRecord /\ m.pc = p /\ m.todo = l.todo /\ m.qi = l.qi /\ m.ran = l.ran
<1>1. [l EXCEPT !.pc = p] = AtLoop(l, p, l.qi, l.ran)
  BY AtPc
<1>2. l.qi \in 0 .. NPrio /\ l.ran \in BOOLEAN
  BY LoopParts
<1> QED  BY <1>1, <1>2, AtLoopType

LEMMA GoesTo ==
  ASSUME Inv, NEW p \in {"ctl", "cbret", "looped", "scan"}, loop' = [loop EXCEPT !.pc = p]
  PROVE  loop' \in LoopRecord /\ pc' = p /\ loop'.todo = loop.todo /\ loop'.qi = loop.qi /\ loop'.ran = loop.ran
<1>1. loop \in LoopRecord /\ p \in Unlocked \cup {"top", "io", "scan", "ctl", "looped"}
  BY Kept DEF Unlocked
<1> QED  BY <1>1, MovesTo DEF pc

LEMMA CommonTimeoutKeeps ==
  ASSUME Inv, common_timeout_callback
  PROVE  Inv'
<1> DEFINE c == current_event
           h == Head(b.ctl[c])
<1>0. /\ pc \in {"cb", "ctl"} /\ c \in CommonQueue
      /\ UNCHANGED <<ebreak, gotterm, is_notify_pending, notify_fd, current_event, lncalls, owner,
                     tv_cache, clock, virtual, deferq, wait, use>>
  BY DEF common_timeout_callback
<1>1. /\ c \in Event /\ loop.todo = {} /\ loop.qi \in Prio /\ b.running_priority = loop.qi
  BY <1>0, Running DEF InCallback
<1>2. c # th_notify /\ c # NoEvent /\ loop.qi < NPrio /\ th_notify \in Event
  BY <1>0, <1>1, BaseAssumption DEF Event, Prio
<1>3. Handled = c /\ Sound(b, c) /\ GoodLists(b) /\ b.flags \in [Event -> SUBSET Flag]
  BY <1>0, Kept, BaseHas DEF Handled, Sound
<1>4. gettime \in 0 .. MaxTime
  BY GettimeType DEF Inv
<1>5. /\ notify_fd = 1 => is_notify_pending
      /\ ~(is_notify_pending /\ notify_fd = 0)
      /\ th_notify \in Active(b) => notify_fd = 1
  BY <1>0 DEF Inv, NotifyInv
<1>6. ASSUME NEW p \in {"ctl", "cbret"}, loop' = [loop EXCEPT !.pc = p], Sound(b', IF p = "ctl" THEN c ELSE NoEvent),
             b'.running_priority = b.running_priority,
             th_notify \in Active(b') => th_notify \in Active(b)
      PROVE  Inv'
  <2>1. loop' \in LoopRecord /\ pc' = p /\ loop'.todo = {} /\ loop'.qi = loop.qi /\ pc' # "poll"
    BY <1>1, <1>6, GoesTo
  <2>2. Sound(b', Handled')
    BY <1>0, <1>6, <2>1 DEF Handled
  <2>3. LoopInv'
    BY <1>0, <1>1, <1>2, <1>6, <2>1 DEF LoopInv, InCallback
  <2>4. NotifyInv'
    BY <1>0, <1>2, <1>5, <1>6, <2>1 DEF NotifyInv
  <2> QED  BY <1>0, <2>1, <2>2, <2>3, <2>4, Kept, WaitsStay, AwakeRest, LoopKeeps
<1>7. CASE b.ctl[c] # <<>> /\ b.tmo[h].d <= gettime
  <2>1. h \in InQueue(b, c)
    BY <1>0, <1>3, <1>7, QueueHead
  <2>2. loop' = [loop EXCEPT !.pc = "ctl"] /\ b' = event_active_nolock(event_del_internal(b, h), h, "TIMEOUT", 1)
    BY <1>7 DEF common_timeout_callback
  <2> HIDE DEF h, c
  <2>3. h \in Event /\ "TIMEOUT" \in b.flags[h] /\ h # th_notify /\ b.tmo[h].d \in Int
    BY <1>3, <2>1, Kept, QueueOf DEF InQueue, Sound, KindsInv
  <2>4. b.tmo[h].d <= MaxTime
    BY <1>4, <1>7, <2>3, BaseAssumption
  <2>5. Sound(b', c) /\ TimedOut(b, b', h)
    BY <1>3, <2>2, <2>3, <2>4, SoundTimedOut
  <2>6. b'.running_priority = b.running_priority /\ (th_notify \in Active(b') => th_notify \in Active(b))
    BY <1>2, <1>3, <2>3, <2>5 DEF TimedOut, Active
  <2> QED  BY <1>6, <2>2, <2>5, <2>6
<1>8. CASE ~(b.ctl[c] # <<>> /\ b.tmo[h].d <= gettime) /\ b.ctl[c] = <<>>
  <2>1. loop' = [loop EXCEPT !.pc = "cbret"] /\ b' = b
    BY <1>8 DEF common_timeout_callback
  <2>2. InQueue(b, c) = {}
    BY <1>0, <1>3, <1>8, QueueHead
  <2>3. Sound(b, NoEvent)
    BY <1>3, <2>2, SoundExempt DEF Covered
  <2> QED  BY <1>6, <2>1, <2>3
<1>9. CASE ~(b.ctl[c] # <<>> /\ b.tmo[h].d <= gettime) /\ b.ctl[c] # <<>>
  <2>1. loop' = [loop EXCEPT !.pc = "cbret"] /\ b' = common_timeout_schedule(b, c)
    BY <1>9 DEF common_timeout_callback
  <2>2. /\ Sound(b', NoEvent) /\ b'.running_priority = b.running_priority
        /\ Active(b') \subseteq Active(b)
    BY <1>0, <1>3, <1>9, <2>1, SoundSchedule
  <2> QED  BY <1>6, <2>1, <2>2
<1> QED  BY <1>7, <1>8, <1>9

\* The loop is between callbacks, and goes on to p.
LEMMA BetweenKeeps ==
  ASSUME Inv, pc \in {"scan", "dcb"}, loop' \in LoopRecord, pc' \in {"scan", "dcb", "looped"},
         loop'.todo = loop.todo,
         \/ b' = b /\ pc' # "looped"
         \/ b' = [b EXCEPT !.running_priority = -1],
         deferq' \in Seq(Deferred), IsInjective(deferq'),
         UNCHANGED <<ebreak, gotterm, is_notify_pending, notify_fd, current_event, lncalls, owner,
                     tv_cache, clock, virtual, wait, use>>
  PROVE  Inv'
<1>1. Handled = NoEvent /\ Handled' = NoEvent /\ current_event = NoEvent /\ pc' # "poll" /\ loop.todo = {}
  BY DEF Handled, Inv, LoopInv, InCallback
<1>2. /\ Sound(b', NoEvent) /\ b'.flags = b.flags
      /\ pc' = "looped" => b'.running_priority = -1
  <2>1. CASE b' = [b EXCEPT !.running_priority = -1]
    <3>1. b.continue \in BOOLEAN /\ b \in Base
      BY Kept, BaseHas
    <3>2. b' = WithLoop(b, b.continue, -1)
      BY <2>1, <3>1 DEF Base, WithLoop
    <3>3. Sound(b', NoEvent) /\ SoundFields(b, b') /\ b'.running_priority = -1
      BY <1>1, <3>1, <3>2, Kept, SoundLoop
    <3> QED  BY <3>3 DEF SoundFields, SameLists
  <2>2. CASE b' = b /\ pc' # "looped"
    BY <1>1, <2>2, Kept
  <2> QED  BY <2>1, <2>2
<1>3. LoopInv'
  BY <1>1, <1>2 DEF LoopInv, InCallback
<1>4. NotifyInv'
  <2>1. Active(b') = Active(b)
    BY <1>2 DEF Active
  <2> QED  BY <1>1, <2>1 DEF Inv, NotifyInv
<1> QED  BY <1>1, <1>2, <1>3, <1>4, Kept, WaitsStay, AwakeRest, LoopKeeps

LEMMA DeferredKeeps == Inv /\ (NextDeferred \/ DeferredReturns) => Inv'
<1> SUFFICES ASSUME Inv, NextDeferred \/ DeferredReturns PROVE Inv'
  OBVIOUS
<1>1. CASE NextDeferred /\ deferq # <<>> /\ loop.dcount < MAX_DEFERRED
  <2>1. /\ pc = "scan" /\ deferq' = Tail(deferq) /\ loop' = [loop EXCEPT !.pc = "dcb", !.dcount = @ + 1] /\ b' = b
        /\ UNCHANGED <<ebreak, gotterm, is_notify_pending, notify_fd, current_event, lncalls, owner,
                       tv_cache, clock, virtual, wait, use>>
    BY <1>1 DEF NextDeferred
  <2>2. loop \in LoopRecord /\ loop.dcount + 1 \in Nat /\ "dcb" \in Unlocked
    BY Kept, LoopParts DEF Unlocked
  <2>3. loop' \in LoopRecord
    BY <2>1, <2>2 DEF LoopRecord
  <2>4. pc' = "dcb" /\ loop'.todo = loop.todo
    BY <2>1, <2>2 DEF LoopRecord, pc
  <2>5. deferq' \in Seq(Deferred) /\ IsInjective(deferq')
    BY <1>1, <2>1, Kept, TailFacts
  <2> QED  BY <2>1, <2>3, <2>4, <2>5, BetweenKeeps
<1>2. CASE NextDeferred /\ ~(deferq # <<>> /\ loop.dcount < MAX_DEFERRED)
  <2>1. /\ pc = "scan" /\ deferq' = deferq /\ loop' = [loop EXCEPT !.pc = "looped"]
        /\ b' = [b EXCEPT !.running_priority = -1]
        /\ UNCHANGED <<ebreak, gotterm, is_notify_pending, notify_fd, current_event, lncalls, owner,
                       tv_cache, clock, virtual, wait, use>>
    BY <1>2 DEF NextDeferred
  <2> QED  BY <2>1, GoesTo, BetweenKeeps, Kept
<1>3. CASE DeferredReturns
  <2>1. /\ pc = "dcb" /\ deferq' = deferq
        /\ \/ b' = [b EXCEPT !.running_priority = -1] /\ loop' = [loop EXCEPT !.pc = "looped"]
           \/ b' = b /\ loop' = [loop EXCEPT !.pc = "scan"]
        /\ UNCHANGED <<ebreak, gotterm, is_notify_pending, notify_fd, current_event, lncalls, owner,
                       tv_cache, clock, virtual, wait, use>>
    BY <1>3 DEF DeferredReturns
  <2>2. CASE b' = [b EXCEPT !.running_priority = -1] /\ loop' = [loop EXCEPT !.pc = "looped"]
    BY <2>1, <2>2, GoesTo, BetweenKeeps, Kept
  <2>3. CASE b' = b /\ loop' = [loop EXCEPT !.pc = "scan"]
    BY <2>1, <2>3, GoesTo, BetweenKeeps, Kept
  <2> QED  BY <2>1, <2>2, <2>3
<1> QED  BY <1>1, <1>2, <1>3

LEMMA LoopedKeeps ==
  ASSUME Inv, Looped
  PROVE  Inv'
<1>0. /\ pc = "looped"
      /\ UNCHANGED <<b, ebreak, gotterm, is_notify_pending, notify_fd, current_event, lncalls, owner,
                     clock, virtual, deferq, wait, use>>
  BY DEF Looped
<1>1. /\ Handled = NoEvent /\ current_event = NoEvent /\ b.running_priority = -1 /\ pc \notin InCallback
  BY <1>0 DEF Handled, Inv, LoopInv, InCallback
<1>2. CASE ExitLoop
  BY <1>0, <1>1, <1>2, ExitKeeps
<1>3. CASE loop' = NewLoop(loop.flags) /\ tv_cache' = tv_cache
  <2>1. loop.flags \in LoopFlags
    BY Kept, LoopParts
  <2>2. loop' \in LoopRecord /\ pc' = "top" /\ loop'.todo = {}
    BY <1>3, <2>1, IdleLoopType DEF pc
  <2>3. Handled' = NoEvent
    BY <2>2 DEF Handled
  <2>4. LoopInv'
    BY <1>0, <1>1, <2>2 DEF LoopInv, InCallback
  <2>5. NotifyInv'
    BY <1>0, <2>2 DEF Inv, NotifyInv
  <2> QED  BY <1>0, <1>1, <1>3, <2>2, <2>3, <2>4, <2>5, Kept, WaitsStay, AwakeRest, LoopKeeps
<1> QED  BY <1>2, <1>3 DEF Looped, NewLoop

LEMMA TickKeeps ==
  ASSUME Inv, Tick
  PROVE  Inv'
<1>0. /\ clock < use.until /\ clock' = clock + 1
      /\ UNCHANGED <<b, ebreak, gotterm, is_notify_pending, notify_fd, current_event, lncalls, owner,
                     tv_cache, virtual, deferq, loop, wait, use>>
  BY DEF Tick
<1>1. use.until \in 1 .. MaxTime
  BY BaseAssumption DEF Inv, TypeOK
<1>2. clock' \in 1 .. MaxTime /\ loop.until \in Int /\ clock \in 1 .. MaxTime
  BY <1>0, <1>1, Kept, LoopParts, BaseAssumption
<1>3. Handled' = Handled /\ pc' = pc
  BY <1>0 DEF Handled, pc
<1>4. RestInv'
  <2>1. Resting' => Resting
    BY <1>0, <1>2, <1>3 DEF Resting
  <2> QED  BY <1>0, <1>3, <2>1 DEF Inv, RestInv, Quiet
<1>5. LoopInv'
  BY <1>0, <1>3 DEF Inv, LoopInv
<1>6. NotifyInv'
  BY <1>0, <1>3 DEF Inv, NotifyInv
<1> QED  BY <1>0, <1>2, <1>3, <1>4, <1>5, <1>6, Kept, WaitsStay, LoopKeeps

LEMMA LoopStepKeeps ==
  ASSUME Inv, LoopStep
  PROVE  Inv'
<1>1. CASE \E e \in Event : \E n \in NcallsOf(e) : ActivateReady(e, n)
  BY <1>1, ActivateReadyKeeps
<1>2. CASE \E e \in Event : timeout_process(e)
  BY <1>2, TimeoutKeeps
<1>3. CASE Top \/ ProcessOrNot \/ NextQueue \/ Pick
  BY <1>3, TopKeeps, ProcessOrNotKeeps, NextQueueKeeps, PickKeeps
<1>4. CASE CallbackReturns \/ SignalCallReturns
  BY <1>4, CallbackReturnsKeeps, SignalReturnsKeeps
<1>5. CASE event_loopexit_cb \/ evthread_notify_drain \/ DrainClears \/ common_timeout_callback
  BY <1>5, LoopexitCbKeeps, DrainKeeps, CommonTimeoutKeeps
<1>6. CASE NextDeferred \/ DeferredReturns \/ Looped
  BY <1>6, DeferredKeeps, LoopedKeeps
<1> QED  BY <1>1, <1>2, <1>3, <1>4, <1>5, <1>6 DEF LoopStep

LEMMA StutterKeeps ==
  ASSUME Inv, UNCHANGED vars
  PROVE  Inv'
<1>1. UNCHANGED <<b, ebreak, gotterm, is_notify_pending, notify_fd, current_event, lncalls, owner,
                  tv_cache, clock, virtual, deferq, loop, wait, use>>
  BY DEF vars
<1>2. Handled' = Handled /\ pc' = pc
  BY <1>1 DEF Handled, pc
<1>3. RestInv'
  BY <1>1, <1>2 DEF Inv, RestInv, Resting, Quiet
<1>4. LoopInv'
  BY <1>1, <1>2 DEF Inv, LoopInv
<1>5. NotifyInv'
  BY <1>1, <1>2 DEF Inv, NotifyInv
<1> QED  BY <1>1, <1>2, <1>3, <1>4, <1>5, Kept, WaitsStay, LoopKeeps

LEMMA NextInv == Inv /\ [Next]_vars => Inv'
<1> SUFFICES ASSUME Inv, [Next]_vars PROVE Inv'
  OBVIOUS
<1>1. CASE LoopStep
  BY <1>1, LoopStepKeeps
<1>2. ASSUME NEW t \in Thread, NEW flags \in use.flags, LoopStart(t, flags)
      PROVE  Inv'
  BY <1>2, LoopStartKeeps
<1>3. ASSUME NEW t \in Thread, CallStep(t) PROVE Inv'
  BY <1>3, CallStepKeeps
<1>4. ASSUME NEW t \in Thread, Resume(t) PROVE Inv'
  BY <1>4, ResumeKeeps
<1>5. ASSUME NEW S \in SUBSET Event, Dispatch(S) PROVE Inv'
  BY <1>5, DispatchKeeps
<1>6. CASE DispatchError
  BY <1>6, DispatchErrorKeeps
<1>7. CASE Tick
  BY <1>7, TickKeeps
<1>8. CASE UNCHANGED vars
  BY <1>8, StutterKeeps
<1> QED  BY <1>1, <1>2, <1>3, <1>4, <1>5, <1>6, <1>7, <1>8 DEF Next

LEMMA SpecInv == Spec => []Inv
BY InitInv, NextInv, PTL DEF Spec

-------------------------------------------------------------------------------
(***************************************************************************)
(* The theorems.                                                           *)
(***************************************************************************)
\* Whatever threads and callbacks add, delete, activate and reprioritise, and
\* wherever the loop is, each list of the base holds exactly the events whose
\* ev_flags, ev_pri and ev_timeout name it, once, and event_count and
\* event_count_active count them: event_queue_insert and event_queue_remove
\* are always called on events that are where they take them to be.
THEOREM QueuesConsistentHolds == Spec => []QueuesConsistent
<1>1. Inv => QueuesConsistent
  BY InvGives
<1> QED  BY <1>1, SpecInv, PTL

\* The events of each common timeout queue stay in the order of their due
\* times, and its one timer is due no later than the first of them, through
\* common_timeout_schedule, common_timeout_callback, and the calls that add
\* and delete events of the queue while they run.
THEOREM CommonQueueScheduledHolds == Spec => []CommonQueueScheduled
<1>1. Inv => CommonQueueScheduled
  BY InvGives
<1> QED  BY <1>1, SpecInv, PTL

\* dispatch never sleeps over work that another thread gave it: evthread_notify_base
\* writes a byte unless is_notify_pending says there is one, and the two halves of
\* evthread_notify_drain leave no moment at which a needed byte is missing.
THEOREM NoLostWakeupHolds == Spec => []NoLostWakeup
<1>1. Inv => NoLostWakeup
  BY InvGives
<1> QED  BY <1>1, SpecInv, PTL

-------------------------------------------------------------------------------
(***************************************************************************)
(* Priorities.                                                             *)
(***************************************************************************)
\* No program calls event_active on a signal event.  Such a call may have to
\* wait for the running callback of the signal, and when it goes on it queues
\* the event without setting event_continue (see the README).
NoSignalActivated == \A u \in Uses : "active" \in u.calls => \A e \in u.events : ~Signal(e)

\* No active event is more important than queue q.
Above(s, q) == \A e \in Active(s) : s.pri[e] >= q

\* What a call may do to the active events: one that is new, or has a new
\* priority, is no more important than what is running, or event_continue is set.
Calm(s, t) ==
  /\ t.running_priority = s.running_priority
  /\ s.continue => t.continue
  /\ t.continue => s.continue \/ \E e \in Event : s.pri[e] < s.running_priority
  /\ \A e \in Active(t) : \/ e \in Active(s) /\ t.pri[e] = s.pri[e]
                          \/ t.continue
                          \/ t.pri[e] >= s.running_priority

NoneActivates == \A t \in Thread : wait[t].st # "none" => wait[t].op # "active"

\* Queues more important than the one being run are empty, or event_continue
\* says that they are not.
PriorityInv ==
  /\ pc \in {"poll", "io"} => ~b.continue
  /\ pc = "scan" /\ loop.qi < NPrio => ~b.continue /\ Above(b, loop.qi)
  /\ pc = "dcb" => loop.qi = NPrio
  /\ pc \in InCallback => /\ b.continue => loop.qi > 0
                          /\ b.continue \/ Above(b, loop.qi)
                          /\ current_event \in Internal => loop.qi = 0
                          /\ loop.ran \/ current_event \in Internal

LEMMA CalmSame ==
  ASSUME NEW s, NEW t, t.running_priority = s.running_priority, t.continue = s.continue,
         t.pri = s.pri, Active(t) \subseteq Active(s)
  PROVE  Calm(s, t)
BY DEF Calm

LEMMA CalmActivated ==
  ASSUME NEW s, GoodLists(s), NEW t, NEW e \in Event, t.pri = s.pri, t.running_priority = s.running_priority,
         s.running_priority \in Int,
         Active(t) \subseteq Active(s) \cup {e},
         \/ t.continue = s.continue /\ e \in Active(s)
         \/ t.continue = (s.continue \/ s.pri[e] < s.running_priority)
  PROVE  Calm(s, t)
<1>1. s.pri[e] \in Int
  BY QueueOf DEF GoodLists, Prio
<1>2. s.continue \in BOOLEAN
  BY BaseHas DEF GoodLists
<1> DEFINE less == s.pri[e] < s.running_priority
           k    == t.continue
<1>3. less \/ t.pri[e] >= s.running_priority
  BY <1>1
<1>4. (k = s.continue /\ e \in Active(s)) \/ k = (s.continue \/ less)
  OBVIOUS
<1> HIDE DEF less, k
<1>5. /\ s.continue => k
      /\ k => s.continue \/ less
      /\ e \in Active(s) \/ k \/ ~less
  BY <1>2, <1>4, Zenon
<1> QED  BY <1>3, <1>5 DEF Calm, less, k

\* A call of another thread, or of a callback, keeps the priorities right.
LEMMA CallPriority ==
  ASSUME Inv, PriorityInv, pc \in Unlocked \cup {"ctl"}, Calm(b, b'),
         current_event' = current_event, loop'.qi = loop.qi, loop'.ran = loop.ran,
         \/ pc' = pc
         \/ pc \in InCallback /\ pc' \in InCallback
  PROVE  PriorityInv'
<1>0. \A e \in Event : b.pri[e] \in Nat /\ b.pri[e] >= 0
  BY Kept, QueueOf, BaseAssumption DEF Prio
<1>1. CASE pc = "poll"
  <2>1. b.running_priority = -1 /\ ~b.continue
    BY <1>1 DEF Inv, LoopInv, InCallback, PriorityInv
  <2>2. ~b'.continue
    <3> SUFFICES ASSUME NEW e \in Event, b.pri[e] < -1 PROVE FALSE
      BY <2>1 DEF Calm
    <3>1. b.pri[e] \in Int /\ b.pri[e] >= 0
      BY <1>0
    <3> QED  BY <3>1
  <2> QED  BY <1>1, <2>2 DEF PriorityInv, InCallback
<1>2. CASE pc \in InCallback
  <2>0. loop.qi \in Int /\ b.running_priority = loop.qi /\ pc' \in InCallback
    BY <1>2, Running DEF Prio
  <2>1. /\ b.continue => loop.qi > 0
        /\ b.continue \/ Above(b, loop.qi)
        /\ current_event \in Internal => loop.qi = 0
        /\ loop.ran \/ current_event \in Internal
    BY <1>2 DEF PriorityInv
  <2>2. b'.continue => loop.qi > 0
    <3> SUFFICES ASSUME NEW e \in Event, b.pri[e] < loop.qi PROVE loop.qi > 0
      BY <2>0, <2>1 DEF Calm
    <3>1. b.pri[e] \in Int /\ b.pri[e] >= 0
      BY <1>0
    <3> QED  BY <2>0, <3>1
  <2>3. b'.continue \/ Above(b', loop.qi)
    BY <2>0, <2>1 DEF Calm, Above
  <2>4. pc' \notin {"poll", "io", "scan", "dcb"}
    BY <2>0 DEF InCallback
  <2> QED  BY <2>1, <2>2, <2>3, <2>4 DEF PriorityInv
<1>3. CASE pc \in {"idle", "dcb"}
  BY <1>3 DEF PriorityInv, InCallback
<1> QED  BY <1>1, <1>2, <1>3 DEF Unlocked, InCallback

LEMMA AddCalm ==
  ASSUME Inv, NEW e \in UserEvent, NEW tv, tv = NoTv \/ tv \in Tv,
         AddResult(b', e, tv)
  PROVE  Calm(b, b')
<1>0. /\ e \in Event /\ gettime \in 0 .. MaxTime /\ gettime \in Int /\ Sound(b, Handled) /\ FALSE \in BOOLEAN
      /\ b.flags \in [Event -> SUBSET Flag] /\ GoodLists(b) /\ KindsInv(b)
  <2>1. gettime \in 0 .. MaxTime /\ Sound(b, Handled) /\ e \in Event /\ b \in Base
    BY GettimeType, Kept DEF Inv, Event
  <2> QED  BY <2>1, BaseHas, BaseAssumption DEF Sound
<1>6. b' = event_add_internal(b, e, tv, FALSE, gettime)
  BY DEF AddResult
<1>7. CASE tv = NoTv
  <2>1. b' = InsertStep(b, e)
    BY <1>6, <1>7 DEF event_add_internal, InsertStep
  <2>2. Inserted(b, b', e)
    BY <1>0, <2>1, SoundInsert
  <2>3. /\ b'.running_priority = b.running_priority /\ Active(b') \subseteq Active(b)
        /\ b'.continue = b.continue /\ b'.pri = b.pri
    BY <1>0, <2>2 DEF Inserted, SameFields, Active, Inserts
  <2> QED  BY <2>3, CalmSame
<1>8. CASE tv # NoTv
  <2>1. tv \in Tv /\ tv.d \in Int
    BY <1>8 DEF Tv
  <2>2. Due(tv, FALSE, gettime) \in Tv
    BY <1>0, <2>1 DEF Due, Tv
  <2>4. Added(b, b', e, Due(tv, FALSE, gettime), Period(b, e, tv, FALSE))
    BY <1>0, <1>6, <1>8, <2>1, AddIs
  <2>5. b'.running_priority = b.running_priority /\ b'.continue = b.continue /\ b'.pri = b.pri
    BY <2>4 DEF Added
  <2>6. Active(b') \subseteq Active(b)
    BY <1>0, <2>2, <2>4, AddedActive
  <2> QED  BY <2>5, <2>6, CalmSame
<1> QED  BY <1>7, <1>8

LEMMA DelCalm ==
  ASSUME Inv, NEW e \in UserEvent, b' = event_del_internal(b, e)
  PROVE  Calm(b, b')
<1>0. e \in Event \ CommonQueue /\ Sound(b, Handled) /\ b.flags \in [Event -> SUBSET Flag]
  BY BaseAssumption, BaseHas DEF Inv, Event, Sound, GoodLists
<1>1. Deleted(b, b', e)
  BY <1>0, SoundDel
<1>2. /\ b'.running_priority = b.running_priority /\ b'.continue = b.continue /\ b'.pri = b.pri
      /\ Active(b') \subseteq Active(b)
  BY <1>0, <1>1 DEF Deleted, SameFields, Active
<1> QED  BY <1>2, CalmSame

LEMMA ActiveCalm ==
  ASSUME Inv, NEW t, NEW e \in use.events, NEW n \in NcallsOf(e), event_active(t, e, n)
  PROVE  Calm(b, b')
<1>0. /\ e \in UserEvent /\ n \in Nat /\ e \in Event /\ Sound(b, Handled) /\ GoodLists(b) /\ b \in Base
      /\ b.flags \in [Event -> SUBSET Flag] /\ b.running_priority \in Int
  <2>1. e \in UserEvent /\ n \in Nat /\ Sound(b, Handled) /\ b \in Base
    BY UserOf, NcallsType, Kept
  <2>2. b.running_priority \in Int
    BY <2>1, BaseHas, BaseAssumption DEF Prio
  <2> QED  BY <2>1, <2>2, BaseHas DEF Sound, Event
<1>1. CASE b' = [b EXCEPT !.res[e] = {"IO"}, !.continue = @ \/ b.pri[e] < b.running_priority]
  <2>1. b' = ActiveWaits(b, e)
    BY <1>1 DEF ActiveWaits
  <2>2. /\ b'.flags = b.flags /\ b'.running_priority = b.running_priority
    BY <1>0, <2>1, SoundWaits
  <2>3. b'.continue = (b.continue \/ b.pri[e] < b.running_priority) /\ b'.pri = b.pri
    BY <1>0, <1>1 DEF Base
  <2>4. Active(b') \subseteq Active(b) \cup {e}
    BY <2>2 DEF Active
  <2> QED  BY <1>0, <2>2, <2>3, <2>4, CalmActivated
<1>2. CASE b' = event_active_nolock(b, e, "IO", n)
  <2>1. Activated(b, b', e, "IO")
    BY <1>0, <1>2, SoundActive
  <2>2. Active(b') \subseteq Active(b) \cup {e} /\ b'.pri = b.pri /\ b'.running_priority = b.running_priority
    BY <1>0, <2>1 DEF Activated, Active
  <2>3. \/ b'.continue = b.continue /\ e \in Active(b)
        \/ b'.continue = (b.continue \/ b.pri[e] < b.running_priority)
    BY <1>0, <2>1 DEF Activated, Active
  <2> QED  BY <1>0, <2>2, <2>3, CalmActivated
<1> QED  BY <1>1, <1>2 DEF event_active

LEMMA PrioritySetCalm ==
  ASSUME Inv, NEW t, NEW e \in use.events, NEW p \in Prio, event_priority_set(t, e, p)
  PROVE  Calm(b, b')
<1>0. e \in UserEvent /\ "ACTIVE" \notin b.flags[e] /\ Sound(b, Handled) /\ b' = [b EXCEPT !.pri[e] = p]
  BY UserOf DEF event_priority_set, Inv
<1>1. /\ b'.flags = b.flags /\ b'.continue = b.continue /\ b'.running_priority = b.running_priority
      /\ \A y \in Event : y # e => b'.pri[y] = b.pri[y]
  BY <1>0, SoundPri
<1>2. \A y \in Active(b') : y \in Active(b) /\ b'.pri[y] = b.pri[y]
  BY <1>0, <1>1 DEF Active
<1> QED  BY <1>1, <1>2 DEF Calm

LEMMA OpKept ==
  ASSUME Inv, NoneActivates, NEW t \in Thread, NEW w, w.st = "none" \/ w.op # "active",
         wait' = [wait EXCEPT ![t] = w]
  PROVE  NoneActivates'
<1>1. wait \in [Thread -> WaitRecord]
  BY Kept
<1>2. \A u \in Thread : wait'[u] = IF u = t THEN w ELSE wait[u]
  BY <1>1
<1> QED  BY <1>2 DEF NoneActivates

LEMMA CondWaitOp ==
  ASSUME Inv, NoneActivates, NEW t \in Thread, NEW op \in {"add", "del"}, NEW e, NEW tv, NEW n,
         CondWait(t, op, e, tv, n)
  PROVE  NoneActivates'
<1> DEFINE w == [st |-> "waiting", op |-> op, e |-> e, tv |-> tv, n |-> n]
<1>1. wait' = [wait EXCEPT ![t] = w] /\ w.op # "active"
  BY DEF CondWait
<1> HIDE DEF w
<1> QED  BY <1>1, OpKept

LEMMA BroadcastOp ==
  ASSUME Inv, NoneActivates,
         wait' = [t \in Thread |-> IF wait[t].st = "waiting" THEN [wait[t] EXCEPT !.st = "woken"]
                                    ELSE wait[t]]
  PROVE  NoneActivates'
<1> SUFFICES ASSUME NEW t \in Thread, wait'[t].st # "none" PROVE wait'[t].op # "active"
  BY DEF NoneActivates
<1>1. wait[t] \in WaitRecord
  BY Kept
<1>2. wait'[t] = IF wait[t].st = "waiting" THEN [wait[t] EXCEPT !.st = "woken"] ELSE wait[t]
  OBVIOUS
<1>3. wait[t].st # "none" /\ wait'[t].op = wait[t].op
  BY <1>1, <1>2 DEF WaitRecord
<1> QED  BY <1>3 DEF NoneActivates

LEMMA CallOp ==
  ASSUME NoSignalActivated, Inv, NoneActivates, NEW t \in Thread, CallStep(t)
  PROVE  NoneActivates'
<1>1. ASSUME NEW e, NEW tv, event_add(t, e, tv) PROVE NoneActivates'
  BY <1>1, CondWaitOp DEF event_add, NoneActivates
<1>2. ASSUME NEW e, event_del(t, e) PROVE NoneActivates'
  BY <1>2, CondWaitOp DEF event_del, NoneActivates
<1>3. ASSUME NEW e \in use.events, NEW n, event_active(t, e, n) PROVE NoneActivates'
  <2>1. "active" \in use.calls /\ use \in Uses
    BY <1>3 DEF event_active, Inv, TypeOK
  <2>2. ~Signal(e)
    BY <2>1 DEF NoSignalActivated
  <2>3. wait' = wait
    BY <1>3, <2>2 DEF event_active
  <2> QED  BY <2>3 DEF NoneActivates
<1>4. CASE wait' = wait
  BY <1>4 DEF NoneActivates
<1>5. ASSUME NEW e, NEW p, event_priority_set(t, e, p) PROVE wait' = wait
  BY <1>5 DEF event_priority_set
<1>6. ASSUME event_base_loopbreak(t) \/ event_base_add_virtual(t) \/ event_base_del_virtual(t) PROVE wait' = wait
  BY <1>6 DEF event_base_loopbreak, event_base_add_virtual, event_base_del_virtual
<1>7. ASSUME NEW x, NEW d, event_base_loopexit(t, x, d) PROVE wait' = wait
  BY <1>7 DEF event_base_loopexit
<1>8. ASSUME NEW cb, event_deferred_cb_schedule(t, cb) \/ event_deferred_cb_cancel(t, cb) PROVE wait' = wait
  BY <1>8 DEF event_deferred_cb_schedule, event_deferred_cb_cancel
<1> QED  BY <1>1, <1>2, <1>3, <1>4, <1>5, <1>6, <1>7, <1>8 DEF CallStep

LEMMA LoopOp ==
  ASSUME Inv, NoneActivates, LoopStep
  PROVE  NoneActivates'
<1>1. CASE wait' = wait
  BY <1>1 DEF NoneActivates
<1>2. ASSUME NEW s, AfterCallback(s) PROVE NoneActivates'
  BY <1>2, BroadcastOp DEF AfterCallback
<1>3. CASE CallbackReturns \/ SignalCallReturns
  BY <1>1, <1>2, <1>3 DEF CallbackReturns, SignalCallReturns
<1>4. ASSUME NEW e, NEW n, ActivateReady(e, n) PROVE wait' = wait
  BY <1>4 DEF ActivateReady
<1>5. ASSUME NEW e, timeout_process(e) PROVE wait' = wait
  BY <1>5 DEF timeout_process
<1>6. ASSUME Top \/ ProcessOrNot \/ NextQueue \/ Pick \/ event_loopexit_cb PROVE wait' = wait
  BY <1>6 DEF Top, ProcessOrNot, NextQueue, Pick, event_loopexit_cb
<1>7. ASSUME evthread_notify_drain \/ DrainClears \/ common_timeout_callback PROVE wait' = wait
  BY <1>7 DEF evthread_notify_drain, DrainClears, common_timeout_callback
<1>8. ASSUME NextDeferred \/ DeferredReturns \/ Looped PROVE wait' = wait
  BY <1>8 DEF NextDeferred, DeferredReturns, Looped
<1> QED  BY <1>1, <1>3, <1>4, <1>5, <1>6, <1>7, <1>8 DEF LoopStep

LEMMA NextOp ==
  ASSUME NoSignalActivated, Inv, NoneActivates, [Next]_vars
  PROVE  NoneActivates'
<1>1. CASE wait' = wait
  BY <1>1 DEF NoneActivates
<1>2. CASE LoopStep
  BY <1>2, LoopOp
<1>3. ASSUME NEW t \in Thread, CallStep(t) PROVE NoneActivates'
  BY <1>3, CallOp
<1>4. ASSUME NEW t \in Thread, Resume(t) PROVE NoneActivates'
  <2>1. wait' = [wait EXCEPT ![t] = NotWaiting] /\ NotWaiting.st = "none"
    BY <1>4 DEF Resume, NotWaiting
  <2> QED  BY <2>1, OpKept
<1>5. ASSUME NEW t, NEW flags, LoopStart(t, flags) PROVE wait' = wait
  BY <1>5 DEF LoopStart
<1>6. ASSUME NEW S, Dispatch(S) PROVE wait' = wait
  BY <1>6 DEF Dispatch
<1>7. ASSUME DispatchError \/ Tick PROVE wait' = wait
  BY <1>7 DEF DispatchError, Tick
<1>8. ASSUME UNCHANGED vars PROVE wait' = wait
  BY <1>8 DEF vars
<1> QED  BY <1>1, <1>2, <1>3, <1>4, <1>5, <1>6, <1>7, <1>8 DEF Next

LEMMA CallStepPriority ==
  ASSUME Inv, PriorityInv, NEW t \in Thread, CallStep(t)
  PROVE  PriorityInv'
<1>0. MayCall(t) => pc \in Unlocked
  BY DEF MayCall, InUserCallback, Unlocked
<1>1. ASSUME MayCall(t), UNCHANGED LoopVars, Calm(b, b') PROVE PriorityInv'
  <2>1. loop' = loop /\ current_event' = current_event /\ pc' = pc
    BY <1>1 DEF LoopVars, pc
  <2> QED  BY <1>0, <1>1, <2>1, CallPriority
<1>2. ASSUME MayCall(t), b' = b, loop' = loop, current_event' = current_event PROVE PriorityInv'
  <2>1. Calm(b, b') /\ pc' = pc
    BY <1>2, CalmSame DEF pc
  <2> QED  BY <1>0, <1>2, <2>1, CallPriority
<1>3. ASSUME NEW e \in use.events, NEW tv \in use.tvs \cup {NoTv}, event_add(t, e, tv) PROVE PriorityInv'
  <2>1. MayCall(t) /\ UNCHANGED LoopVars /\ e \in UserEvent /\ use.tvs \subseteq TvArg
    BY <1>3, UserOf, BaseAssumption DEF event_add, Inv, TypeOK
  <2>2. CASE AddNow(t, e, tv)
    <3>1. AddResult(b', e, tv) /\ (tv = NoTv \/ tv \in Tv)
      BY <2>1, <2>2, TvArgType DEF AddNow, AddResult
    <3> QED  BY <1>1, <2>1, <3>1, AddCalm
  <2>3. CASE b' = b
    BY <1>1, <2>1, <2>3, CalmSame
  <2> QED  BY <1>3, <2>2, <2>3 DEF event_add
<1>4. ASSUME NEW e \in use.events, event_del(t, e) PROVE PriorityInv'
  <2>1. MayCall(t) /\ UNCHANGED LoopVars /\ e \in UserEvent
    BY <1>4, UserOf DEF event_del
  <2>2. CASE DelNow(t, e)
    BY <1>1, <2>1, <2>2, DelCalm DEF DelNow
  <2>3. CASE b' = b
    BY <1>1, <2>1, <2>3, CalmSame
  <2> QED  BY <1>4, <2>2, <2>3 DEF event_del
<1>5. ASSUME NEW e \in use.events, NEW n \in NcallsOf(e), event_active(t, e, n) PROVE PriorityInv'
  <2>1. MayCall(t) /\ UNCHANGED LoopVars
    BY <1>5 DEF event_active
  <2> QED  BY <1>1, <1>5, <2>1, ActiveCalm
<1>6. ASSUME NEW e \in use.events, NEW p \in Prio, event_priority_set(t, e, p) PROVE PriorityInv'
  <2>1. MayCall(t) /\ UNCHANGED LoopVars
    BY <1>6 DEF event_priority_set
  <2> QED  BY <1>1, <1>6, <2>1, PrioritySetCalm
<1>7. ASSUME NEW x \in LoopExit, NEW d \in Durations \cup {0}, event_base_loopexit(t, x, d) PROVE PriorityInv'
  <2> DEFINE tv == [d |-> d, c |-> NoQueue]
  <2>1. MayCall(t) /\ UNCHANGED LoopVars /\ AddResult(b', x, tv)
    BY <1>7 DEF event_base_loopexit, AddNow, AddResult
  <2>2. x \in UserEvent /\ tv \in Tv
    BY BaseAssumption DEF Tv
  <2> HIDE DEF tv
  <2> QED  BY <1>1, <2>1, <2>2, AddCalm
<1>8. ASSUME event_base_loopbreak(t) \/ event_base_add_virtual(t) \/ event_base_del_virtual(t) PROVE PriorityInv'
  BY <1>2, <1>8 DEF event_base_loopbreak, event_base_add_virtual, event_base_del_virtual
<1>9. ASSUME NEW cb, event_deferred_cb_schedule(t, cb) \/ event_deferred_cb_cancel(t, cb) PROVE PriorityInv'
  BY <1>2, <1>9 DEF event_deferred_cb_schedule, event_deferred_cb_cancel
<1> QED  BY <1>3, <1>4, <1>5, <1>6, <1>7, <1>8, <1>9 DEF CallStep

LEMMA ResumePriority ==
  ASSUME Inv, PriorityInv, NoneActivates, NEW t \in Thread, Resume(t)
  PROVE  PriorityInv'
<1> DEFINE w == wait[t]
<1>0. pc \in Unlocked /\ loop' = loop /\ current_event' = current_event /\ pc' = pc
  BY DEF Resume, LoopVars, pc
<1>1. Waits(w) /\ w.op # "active"
  BY DEF Resume, Inv, WaitInv, Waits, NoneActivates
<1>2. CASE AddNow(t, w.e, w.tv)
  <2> DEFINE e == w.e
             tv == w.tv
  <2>1. e \in UserEvent /\ (tv = NoTv \/ tv \in Tv) /\ AddResult(b', e, tv)
    BY <1>1, <1>2, TvArgType DEF Waits, AddNow, AddResult
  <2> HIDE DEF e, tv
  <2> QED  BY <1>0, <2>1, AddCalm, CallPriority
<1>3. CASE DelNow(t, w.e)
  <2>1. w.e \in UserEvent /\ b' = event_del_internal(b, w.e)
    BY <1>1, <1>3 DEF Waits, DelNow
  <2> QED  BY <1>0, <2>1, DelCalm, CallPriority
<1> QED  BY <1>1, <1>2, <1>3 DEF Resume

\* Places of the loop at which nothing is known of the priorities.
LEMMA FreePriority == pc' \in {"idle", "top", "looped"} => PriorityInv'
BY DEF PriorityInv, InCallback

LEMMA QueueEmptied ==
  ASSUME NEW s, GoodLists(s), NEW q \in Prio, Above(s, q), s.activeq[q] = <<>>
  PROVE  Above(s, q + 1)
<1> SUFFICES ASSUME NEW e \in Active(s) PROVE s.pri[e] >= q + 1
  BY DEF Above
<1>1. e \in Event /\ s.pri[e] \in Int /\ q \in Int
  BY QueueOf DEF Active, GoodLists, Prio
<1>2. s.pri[e] # q /\ s.pri[e] >= q
  BY ActiveHead DEF Above
<1> QED  BY <1>1, <1>2

LEMMA BeforeScan ==
  ASSUME Inv, PriorityInv,
         Top \/ (\E S \in SUBSET Event : Dispatch(S)) \/ DispatchError \/ ProcessOrNot \/ Looped
  PROVE  PriorityInv'
<1>0. Inv' /\ loop \in LoopRecord /\ b \in Base
  BY Kept, TopKeeps, DispatchKeeps, DispatchErrorKeeps, ProcessOrNotKeeps, LoopedKeeps
<1>1. CASE ExitLoop
  BY <1>1, FreePriority DEF ExitLoop, IdleLoop, pc
<1>2. ASSUME ~b'.continue, pc' \in {"poll", "io"} PROVE PriorityInv'
  BY <1>2 DEF PriorityInv, InCallback
<1>3. CASE Top
  <2>1. b' = [b EXCEPT !.continue = FALSE]
    BY <1>3 DEF Top
  <2>2. ~b'.continue
    BY <1>0, <2>1 DEF Base
  <2>3. CASE ~ExitLoop
    <3>1. loop'.pc = "poll"
      BY <1>0, <1>3, <2>3 DEF Top, LoopRecord
    <3> QED  BY <1>2, <2>2, <3>1 DEF pc
  <2> QED  BY <1>1, <2>3
<1>4. ASSUME NEW S \in SUBSET Event, Dispatch(S) PROVE PriorityInv'
  <2>1. loop' = [loop EXCEPT !.pc = "io", !.todo = S, !.until = 0, !.target = 0] /\ b' = b /\ pc = "poll"
    BY <1>4 DEF Dispatch
  <2>2. loop'.pc = "io"
    BY <1>0, <2>1 DEF LoopRecord
  <2>3. ~b.continue
    BY <2>1 DEF PriorityInv
  <2> QED  BY <1>2, <2>1, <2>2, <2>3 DEF pc
<1>5. CASE ProcessOrNot
  <2>1. b' = b /\ pc = "io"
    BY <1>5 DEF ProcessOrNot
  <2>2. ~b.continue
    BY <2>1 DEF PriorityInv
  <2>3. CASE loop' = [loop EXCEPT !.pc = "scan", !.qi = 0, !.ran = FALSE, !.dcount = 0]
    <3>1. loop'.pc = "scan" /\ loop'.qi = 0
      BY <1>0, <2>3 DEF LoopRecord
    <3>2. Above(b, 0)
      <4>1. \A e \in Event : b.pri[e] >= 0
        BY <1>0, QueueOf, BaseAssumption DEF Prio
      <4> QED  BY <4>1 DEF Above, Active
    <3> QED  BY <2>1, <2>2, <3>1, <3>2 DEF pc, PriorityInv, InCallback
  <2>4. CASE loop' = [loop EXCEPT !.pc = "top"]
    <3>1. loop'.pc = "top"
      BY <1>0, <2>4 DEF LoopRecord
    <3> QED  BY <3>1, FreePriority DEF pc
  <2> QED  BY <1>1, <1>5, <2>3, <2>4 DEF ProcessOrNot
<1>6. CASE DispatchError
  BY <1>1, <1>6 DEF DispatchError
<1>7. CASE Looped
  <2>1. CASE loop' = [IdleLoop EXCEPT !.pc = "top", !.flags = loop.flags]
    <3>1. loop'.pc = "top"
      BY <2>1 DEF IdleLoop
    <3> QED  BY <3>1, FreePriority DEF pc
  <2> QED  BY <1>1, <1>7, <2>1 DEF Looped
<1> QED  BY <1>3, <1>4, <1>5, <1>6, <1>7

LEMMA IoPriority ==
  ASSUME Inv, PriorityInv, NEW e \in Event,
         (\E n \in NcallsOf(e) : ActivateReady(e, n)) \/ timeout_process(e)
  PROVE  PriorityInv'
<1>0. /\ pc = "io" /\ ~b.continue /\ b.running_priority = -1 /\ Handled = NoEvent /\ b \in Base /\ GoodLists(b)
      /\ loop \in LoopRecord
  BY Kept DEF ActivateReady, timeout_process, PriorityInv, Inv, LoopInv, InCallback, Handled, Sound
<1>1. ~(b.pri[e] < -1)
  <2>1. b.pri[e] \in Int /\ b.pri[e] >= 0
    BY <1>0, QueueOf, BaseAssumption DEF Prio
  <2> QED  BY <2>1
<1>2. ~b'.continue /\ pc' = "io"
  <2>1. ASSUME NEW n \in NcallsOf(e), ActivateReady(e, n)
        PROVE  ~b'.continue /\ pc' = "io"
    <3>1. n \in Nat /\ b' = event_active_nolock(b, e, "IO", n) /\ loop' = [loop EXCEPT !.todo = @ \ {e}]
      BY <2>1, NcallsType DEF ActivateReady
    <3>2. Activated(b, b', e, "IO")
      BY <3>1, Kept, SoundActive
    <3>3. ~b'.continue
      BY <1>0, <1>1, <3>2 DEF Activated
    <3>4. loop'.pc = loop.pc
      BY <1>0, <3>1 DEF LoopRecord
    <3> QED  BY <1>0, <3>3, <3>4 DEF pc
  <2>2. CASE timeout_process(e)
    <3>1. /\ e \in Tops(b) /\ b.tmo[e].d <= gettime /\ loop' = loop
          /\ b' = event_active_nolock(event_del_internal(b, e), e, "TIMEOUT", 1)
      BY <2>2 DEF timeout_process
    <3>2. gettime \in 0 .. MaxTime /\ "TIMEOUT" \in b.flags[e] /\ b.tmo[e].d \in Int
      BY <1>0, <3>1, GettimeType, QueueOf DEF Inv, Tops, Heap
    <3>3. b.tmo[e].d <= MaxTime
      BY <3>1, <3>2, BaseAssumption
    <3>4. TimedOut(b, b', e)
      BY <3>1, <3>2, <3>3, Kept, SoundTimedOut
    <3>5. ~b'.continue
      BY <1>0, <1>1, <3>4 DEF TimedOut
    <3> QED  BY <1>0, <3>1, <3>5 DEF pc
  <2> QED  BY <2>1, <2>2
<1> QED  BY <1>2 DEF PriorityInv, InCallback

LEMMA ScanPriority ==
  ASSUME Inv, PriorityInv, NextQueue \/ Pick
  PROVE  PriorityInv'
<1>0. /\ pc = "scan" /\ loop.qi < NPrio /\ loop \in LoopRecord /\ ~b.continue /\ Above(b, loop.qi)
      /\ GoodLists(b) /\ b.continue \in BOOLEAN /\ Sound(b, NoEvent)
  <2>1. pc = "scan" /\ loop.qi < NPrio /\ loop \in LoopRecord /\ b \in Base
    BY Kept DEF NextQueue, Pick
  <2>2. Handled = NoEvent
    BY <2>1 DEF Handled
  <2> QED  BY <2>1, <2>2, Kept, BaseHas DEF PriorityInv, Sound
<1>1. loop.qi \in Prio /\ loop.qi \in Int /\ loop.ran \in BOOLEAN
  BY <1>0, LoopParts, BaseAssumption DEF Prio
<1>2. CASE NextQueue
  <2>1. b' = b /\ loop' = [loop EXCEPT !.qi = @ + 1] /\ b.activeq[loop.qi] = <<>>
    BY <1>2 DEF NextQueue
  <2>2. loop'.pc = "scan" /\ loop'.qi = loop.qi + 1
    BY <1>0, <2>1 DEF LoopRecord, pc
  <2>3. Above(b, loop.qi + 1)
    BY <1>0, <1>1, <2>1, QueueEmptied
  <2> QED  BY <1>0, <2>1, <2>2, <2>3 DEF PriorityInv, InCallback, pc
<1>3. CASE Pick
  <2> DEFINE e == Head(b.activeq[loop.qi])
             p == IF Signal(e) /\ b.ncalls[e] = 0 THEN "cbret" ELSE "cb"
             r == loop.ran \/ e \notin Internal
  <2>1. /\ b' = Picked(b, e, loop.qi) /\ current_event' = e /\ b.activeq[loop.qi] # <<>>
        /\ loop' = [loop EXCEPT !.pc = p, !.ran = r]
    BY <1>3 DEF Pick, Picked
  <2>2. e \in Active(b) /\ b.pri[e] = loop.qi
    BY <1>0, <1>1, <2>1, ActiveHead
  <2>3. p \in InCallback /\ r \in BOOLEAN /\ (r <=> loop.ran \/ e \notin Internal)
    BY <1>1 DEF InCallback
  <2> HIDE DEF e, p, r
  <2>4. loop'.pc = p /\ loop'.ran = r /\ loop'.qi = loop.qi
    BY <1>0, <2>1 DEF LoopRecord
  <2>5. PickResult(b, b', e, loop.qi)
    BY <1>0, <1>1, <2>1, <2>2, SoundPicked, GettimeType DEF Inv
  <2>6. ~b'.continue /\ Above(b', loop.qi)
    BY <1>0, <2>5 DEF PickResult, Above
  <2>7. e \in Internal => loop.qi = 0
    BY <1>0, <2>2 DEF Sound, KindsInv
  <2>8. pc' \notin {"poll", "io", "scan", "dcb"}
    BY <2>3, <2>4 DEF pc, InCallback
  <2> QED  BY <2>1, <2>3, <2>4, <2>6, <2>7, <2>8 DEF PriorityInv, pc
<1> QED  BY <1>2, <1>3

LEMMA AfterPriority ==
  ASSUME Inv, PriorityInv, NEW s, AfterCallback(s), pc \in {"cb", "cbret"}, Sound(s, NoEvent),
         SoundFields(b, s), s.continue = b.continue
  PROVE  PriorityInv'
<1>1. /\ loop.qi \in Prio /\ loop.ran \in BOOLEAN /\ loop \in LoopRecord /\ loop.qi \in Int /\ NPrio \in Int
  BY Running, Kept, BaseAssumption DEF InCallback, Prio
<1>2. GoodLists(s) /\ s.continue \in BOOLEAN
  BY BaseHas DEF Sound, GoodLists
<1>3. /\ s.continue => loop.qi > 0
      /\ s.continue \/ Above(s, loop.qi)
      /\ ~loop.ran => loop.qi = 0
  BY DEF PriorityInv, InCallback, Above, Active, SoundFields, SameLists
<1>4. CASE ebreak
  <2>1. loop' = [loop EXCEPT !.pc = "looped"]
    BY <1>4 DEF AfterCallback
  <2>2. loop'.pc = "looped"
    BY <1>1, <2>1 DEF LoopRecord
  <2> QED  BY <2>2, FreePriority DEF pc
<1>5. CASE ~ebreak
  <2> DEFINE stay == ~s.continue /\ s.activeq[loop.qi] # <<>>
             q == IF stay THEN loop.qi ELSE IF loop.ran THEN NPrio ELSE loop.qi + 1
  <2>1. loop' = [loop EXCEPT !.pc = "scan", !.qi = q] /\ b' = s
    BY <1>5 DEF AfterCallback
  <2>2. q < NPrio => ~s.continue /\ Above(s, q)
    <3>1. CASE stay
      BY <1>3, <3>1
    <3>2. CASE ~stay /\ loop.ran
      BY <1>1, <3>2
    <3>3. CASE ~stay /\ ~loop.ran
      <4>1. loop.qi = 0 /\ ~s.continue /\ q = loop.qi + 1
        BY <1>3, <3>3
      <4>2. s.activeq[loop.qi] = <<>>
        BY <3>3, <4>1
      <4>3. Above(s, loop.qi + 1)
        BY <1>1, <1>2, <1>3, <4>1, <4>2, QueueEmptied
      <4> QED  BY <4>1, <4>3
    <3> QED  BY <3>1, <3>2, <3>3
  <2> HIDE DEF q
  <2>3. loop'.pc = "scan" /\ loop'.qi = q
    BY <1>1, <2>1 DEF LoopRecord
  <2> QED  BY <2>1, <2>2, <2>3 DEF PriorityInv, InCallback, pc
<1> QED  BY <1>4, <1>5

LEMMA ReturnPriority ==
  ASSUME Inv, PriorityInv, CallbackReturns \/ SignalCallReturns
  PROVE  PriorityInv'
<1> DEFINE e == current_event
<1>0. /\ pc \in {"cb", "cbret"} /\ pc \in InCallback
      /\ pc = "cb" => e \in UserEvent /\ e \notin CommonQueue
  BY BaseAssumption DEF CallbackReturns, SignalCallReturns, Signal, InCallback
<1>1. /\ e \in Event /\ Sound(b, NoEvent) /\ b \in Base /\ lncalls \in Nat
      /\ b.pncalls \in [Event -> BOOLEAN] /\ b.ncalls \in [Event -> Nat] /\ b.ncalls[e] \in Nat
  <2>1. e \in Event
    BY <1>0, Running
  <2>2. CASE pc = "cb"
    BY <1>0, <2>1, <2>2, Kept, SoundExempt, BaseHas DEF Handled
  <2>3. CASE pc = "cbret"
    BY <1>0, <2>1, <2>3, Kept, BaseHas DEF Handled
  <2> QED  BY <1>0, <2>2, <2>3
<1>2. CASE AfterCallback(b)
  <2>1. SoundFields(b, b)
    BY DEF SoundFields, SameLists
  <2> QED  BY <1>0, <1>1, <1>2, <2>1, AfterPriority
<1>3. CASE AfterCallback([b EXCEPT !.pncalls[e] = FALSE])
  <2> DEFINE s == WithCalls(b, e, b.ncalls[e], FALSE)
  <2>1. [b EXCEPT !.pncalls[e] = FALSE] = s
    BY <1>1 DEF Base, WithCalls
  <2>2. AfterCallback(s)
    BY <1>3, <2>1
  <2>3. Sound(s, NoEvent) /\ SoundFields(b, s) /\ s.continue = b.continue
    BY <1>1, SoundCalls
  <2> HIDE DEF s
  <2> QED  BY <1>0, <2>2, <2>3, AfterPriority
<1>4. CASE /\ b' = [b EXCEPT !.ncalls[e] = lncalls - 1, !.pncalls[e] = @ /\ lncalls > 1]
           /\ current_event' = current_event /\ loop' = loop
  <2>1. b'.running_priority = b.running_priority /\ b'.continue = b.continue /\ b'.pri = b.pri /\ b'.flags = b.flags
    BY <1>1, <1>4 DEF Base
  <2>2. Active(b') \subseteq Active(b)
    BY <2>1 DEF Active
  <2>3. Calm(b, b')
    BY <2>1, <2>2, CalmSame
  <2>4. pc' = pc /\ pc \in Unlocked
    BY <1>0, <1>4 DEF pc, Unlocked
  <2> QED  BY <1>4, <2>3, <2>4, CallPriority
<1> QED  BY <1>2, <1>3, <1>4 DEF CallbackReturns, SignalCallReturns

LEMMA InternalPriority ==
  ASSUME Inv, PriorityInv,
         event_loopexit_cb \/ evthread_notify_drain \/ DrainClears \/ common_timeout_callback
  PROVE  PriorityInv'
<1>0. /\ pc \in {"cb", "drain", "ctl"} /\ pc \in InCallback /\ pc \in Unlocked \cup {"ctl"}
      /\ current_event' = current_event /\ loop \in LoopRecord /\ GoodLists(b) /\ b \in Base
  BY Kept DEF event_loopexit_cb, evthread_notify_drain, DrainClears, common_timeout_callback,
              InCallback, Unlocked, Sound
<1>1. PICK p \in {"cbret", "drain", "ctl"} : loop' = [loop EXCEPT !.pc = p]
  BY DEF event_loopexit_cb, evthread_notify_drain, DrainClears, common_timeout_callback
<1>2. loop'.pc = p /\ loop'.qi = loop.qi /\ loop'.ran = loop.ran
  BY <1>0, <1>1 DEF LoopRecord
<1>3. pc' \in InCallback
  BY <1>2 DEF pc, InCallback
<1>4. Calm(b, b')
  <2>1. CASE b' = b
    BY <2>1, CalmSame
  <2>2. CASE common_timeout_callback
    <3> DEFINE c == current_event
               h == Head(b.ctl[c])
    <3>0. c \in CommonQueue /\ Handled = c /\ Sound(b, c) /\ b.running_priority \in Int
      <4>1. c \in CommonQueue /\ Handled = c
        BY <2>2 DEF common_timeout_callback, Handled
      <4>2. b.running_priority \in Int
        BY <1>0, Running DEF Prio
      <4> QED  BY <4>1, <4>2, Kept
    <3>1. CASE b.ctl[c] # <<>> /\ b.tmo[h].d <= gettime
      <4>1. h \in InQueue(b, c)
        BY <1>0, <3>0, <3>1, QueueHead
      <4>2. b' = event_active_nolock(event_del_internal(b, h), h, "TIMEOUT", 1)
        BY <2>2, <3>1 DEF common_timeout_callback
      <4> HIDE DEF h, c
      <4>3. h \in Event /\ "TIMEOUT" \in b.flags[h] /\ b.tmo[h].d \in Int /\ gettime \in 0 .. MaxTime
        BY <1>0, <4>1, QueueOf, GettimeType DEF InQueue, Inv
      <4>4. b.tmo[h].d <= MaxTime
        BY <3>1, <4>3, BaseAssumption
      <4>5. TimedOut(b, b', h)
        BY <3>0, <4>2, <4>3, <4>4, SoundTimedOut
      <4>6. /\ b'.pri = b.pri /\ b'.running_priority = b.running_priority
            /\ b'.continue = (b.continue \/ b.pri[h] < b.running_priority)
        BY <4>5 DEF TimedOut
      <4>7. Active(b') \subseteq Active(b) \cup {h}
        <5>1. b.flags \in [Event -> SUBSET Flag]
          BY <1>0, BaseHas
        <5> QED  BY <4>3, <4>5, <5>1 DEF TimedOut, Active
      <4> QED  BY <1>0, <3>0, <4>3, <4>6, <4>7, CalmActivated
    <3>2. CASE ~(b.ctl[c] # <<>> /\ b.tmo[h].d <= gettime) /\ b.ctl[c] # <<>>
      <4>1. b' = common_timeout_schedule(b, c)
        BY <2>2, <3>2 DEF common_timeout_callback
      <4>2. /\ b'.running_priority = b.running_priority /\ b'.continue = b.continue /\ b'.pri = b.pri
            /\ Active(b') \subseteq Active(b)
        BY <3>0, <3>2, <4>1, SoundSchedule
      <4> QED  BY <4>2, CalmSame
    <3>3. CASE b.ctl[c] = <<>>
      <4>1. b' = b
        BY <2>2, <3>3 DEF common_timeout_callback
      <4> QED  BY <2>1, <4>1
    <3> QED  BY <3>1, <3>2, <3>3
  <2> QED  BY <2>1, <2>2 DEF event_loopexit_cb, evthread_notify_drain, DrainClears
<1> QED  BY <1>0, <1>2, <1>3, <1>4, CallPriority

LEMMA DeferredPriority ==
  ASSUME Inv, PriorityInv, NextDeferred \/ DeferredReturns
  PROVE  PriorityInv'
<1>0. loop \in LoopRecord /\ loop.qi = NPrio /\ NPrio \in Int
  BY Kept, BaseAssumption DEF NextDeferred, DeferredReturns, PriorityInv
<1>1. CASE loop' = [loop EXCEPT !.pc = "looped"]
  <2>1. loop'.pc = "looped"
    BY <1>0, <1>1 DEF LoopRecord
  <2> QED  BY <2>1, FreePriority DEF pc
<1>2. ASSUME loop'.qi = loop.qi, loop'.pc \in {"scan", "dcb"} PROVE PriorityInv'
  BY <1>0, <1>2 DEF pc, PriorityInv, InCallback
<1>3. CASE loop' = [loop EXCEPT !.pc = "dcb", !.dcount = @ + 1]
  <2>1. loop'.pc = "dcb" /\ loop'.qi = loop.qi
    BY <1>0, <1>3 DEF LoopRecord
  <2> QED  BY <1>2, <2>1
<1>4. CASE loop' = [loop EXCEPT !.pc = "scan"]
  <2>1. loop'.pc = "scan" /\ loop'.qi = loop.qi
    BY <1>0, <1>4 DEF LoopRecord
  <2> QED  BY <1>2, <2>1
<1> QED  BY <1>1, <1>3, <1>4 DEF NextDeferred, DeferredReturns

LEMMA NextPriority ==
  ASSUME Inv, PriorityInv, NoneActivates, [Next]_vars
  PROVE  PriorityInv'
<1>1. CASE LoopStep
  <2>1. ASSUME NEW e \in Event, (\E n \in NcallsOf(e) : ActivateReady(e, n)) \/ timeout_process(e)
        PROVE  PriorityInv'
    BY <2>1, IoPriority
  <2> QED  BY <1>1, <2>1, BeforeScan, ScanPriority, ReturnPriority, InternalPriority, DeferredPriority DEF LoopStep
<1>2. ASSUME NEW t \in Thread, NEW flags \in use.flags, LoopStart(t, flags)
      PROVE  PriorityInv'
  <2>1. loop'.pc = "top"
    BY <1>2 DEF LoopStart, IdleLoop
  <2> QED  BY <2>1, FreePriority DEF pc
<1>3. ASSUME NEW t \in Thread, CallStep(t) PROVE PriorityInv'
  BY <1>3, CallStepPriority
<1>4. ASSUME NEW t \in Thread, Resume(t) PROVE PriorityInv'
  BY <1>4, ResumePriority
<1>5. CASE (\E S \in SUBSET Event : Dispatch(S)) \/ DispatchError
  BY <1>5, BeforeScan
<1>6. CASE Tick \/ UNCHANGED vars
  <2>1. b' = b /\ loop' = loop /\ current_event' = current_event
    BY <1>6 DEF Tick, vars
  <2> QED  BY <2>1 DEF PriorityInv, Above, Active, pc
<1> QED  BY <1>1, <1>2, <1>3, <1>4, <1>5, <1>6 DEF Next

\* Only event_process_active_single_queue sets current_event.
LEMMA OnlyPick ==
  ASSUME [Next]_vars, current_event' \notin {NoEvent, current_event}
  PROVE  Pick
<1>1. ASSUME NEW t, CallStep(t) PROVE current_event' = current_event
  BY <1>1 DEF CallStep, event_add, event_del, event_active, event_priority_set, event_base_loopbreak,
     event_base_loopexit, event_base_add_virtual, event_base_del_virtual, event_deferred_cb_schedule,
     event_deferred_cb_cancel, LoopVars
<1>2. ASSUME NEW t, Resume(t) PROVE current_event' = current_event
  BY <1>2 DEF Resume, LoopVars
<1>3. ASSUME NEW t, NEW flags, LoopStart(t, flags) PROVE current_event' = current_event
  BY <1>3 DEF LoopStart
<1>4. ASSUME NEW S, Dispatch(S) PROVE current_event' = current_event
  BY <1>4 DEF Dispatch
<1>5. ASSUME DispatchError \/ Tick PROVE current_event' = current_event
  BY <1>5 DEF DispatchError, Tick
<1>6. ASSUME LoopStep, ~Pick PROVE current_event' \in {NoEvent, current_event}
  <2>1. ASSUME NEW e, NEW n, ActivateReady(e, n) PROVE current_event' = current_event
    BY <2>1 DEF ActivateReady
  <2>2. ASSUME NEW e, timeout_process(e) PROVE current_event' = current_event
    BY <2>2 DEF timeout_process
  <2>3. ASSUME Top \/ ProcessOrNot \/ NextQueue \/ event_loopexit_cb PROVE current_event' = current_event
    BY <2>3 DEF Top, ProcessOrNot, NextQueue, event_loopexit_cb
  <2>4. ASSUME evthread_notify_drain \/ DrainClears \/ common_timeout_callback PROVE current_event' = current_event
    BY <2>4 DEF evthread_notify_drain, DrainClears, common_timeout_callback
  <2>5. ASSUME NextDeferred \/ DeferredReturns \/ Looped PROVE current_event' = current_event
    BY <2>5 DEF NextDeferred, DeferredReturns, Looped
  <2>6. ASSUME CallbackReturns \/ SignalCallReturns PROVE current_event' \in {NoEvent, current_event}
    BY <2>6 DEF CallbackReturns, SignalCallReturns, AfterCallback
  <2> QED  BY <1>6, <2>1, <2>2, <2>3, <2>4, <2>5, <2>6 DEF LoopStep
<1>7. ASSUME UNCHANGED vars PROVE current_event' = current_event
  BY <1>7 DEF vars
<1> QED  BY <1>1, <1>2, <1>3, <1>4, <1>5, <1>6, <1>7 DEF Next

PriorityStep ==
  current_event' \notin {NoEvent, current_event} =>
    \A f \in Event : "ACTIVE" \in b.flags[f] => b.pri[f] >= b.pri[current_event']

LEMMA PickRespects ==
  ASSUME Inv, PriorityInv, [Next]_vars
  PROVE  PriorityStep
<1> SUFFICES ASSUME current_event' \notin {NoEvent, current_event}, NEW f \in Event, "ACTIVE" \in b.flags[f]
             PROVE  b.pri[f] >= b.pri[current_event']
  BY DEF PriorityStep
<1>1. Pick
  BY OnlyPick
<1>2. /\ pc = "scan" /\ loop.qi < NPrio /\ b.activeq[loop.qi] # <<>>
      /\ current_event' = Head(b.activeq[loop.qi])
  BY <1>1 DEF Pick
<1>3. loop.qi \in Prio /\ GoodLists(b)
  BY <1>2, Kept, LoopParts, BaseAssumption DEF Prio, Sound
<1>4. b.pri[current_event'] = loop.qi
  BY <1>2, <1>3, ActiveHead
<1>5. b.pri[f] >= loop.qi
  BY <1>2 DEF PriorityInv, Above, Active
<1> QED  BY <1>4, <1>5

LEMMA InitPriority == Init => PriorityInv /\ NoneActivates
BY DEF Init, PriorityInv, NoneActivates, IdleLoop, InCallback, pc, NotWaiting

\* The loop never starts the callback of an event while a more important one
\* is active, although callbacks and other threads activate events all the
\* time: event_continue, set where an event is activated, sends the loop back to
\* the first queue.  It holds for programs that do not call event_active on
\* signal events (which evmap_signal_active activates, in the loop).
THEOREM PriorityRespectedHolds ==
  ASSUME NoSignalActivated
  PROVE  Spec => PriorityRespected
<1>1. Inv /\ PriorityInv /\ NoneActivates /\ [Next]_vars => (PriorityInv /\ NoneActivates)'
  BY NextPriority, NextOp
<1>2. Inv /\ PriorityInv /\ [Next]_vars => [PriorityStep]_vars
  BY PickRespects
<1>3. PriorityRespected <=> [][PriorityStep]_vars
  BY DEF PriorityRespected, PriorityStep
<1> QED  BY <1>1, <1>2, <1>3, InitPriority, SpecInv, PTL DEF Spec
===============================================================================
