-------------------------------- MODULE DnsProofs --------------------------------
(***************************************************************************)
(* Proofs about the parts of evdns.c: a request of evdns_getaddrinfo tells *)
(* its user once, a server port is freed with the last reference to it,    *)
(* and a call of the resolver has one callback.                            *)
(***************************************************************************)
EXTENDS MCDns, ProofFacts

-------------------------------------------------------------------------------
\* evdns_getaddrinfo.  A step is taken from a state of the invariant.
LEMMA GaiInit == Gai!Init => Gai!GaiInv
BY DEF Gai!Init, Gai!GaiInv, Gai!GaiTypeOK, Gai!UnusedInv, Gai!UsedInv, Gai!FreedInv,
       Gai!Has, Gai!Family

LEMMA StartKeepsGai ==
  ASSUME Gai!GaiInv, NEW ask \in SUBSET Gai!Family, NEW started, NEW cname,
         Gai!evdns_getaddrinfo(ask, started, cname)
  PROVE  Gai!GaiInv'
<1> DEFINE null == cname /\ started # ask
<1> USE DEF Gai!GaiInv, Gai!GaiTypeOK, Gai!evdns_getaddrinfo
<1>1. /\ data = "unused" /\ told = <<>> /\ started \subseteq Gai!Family
      /\ ~timeout /\ pending_result = {} /\ ~user_canceled /\ user_cb
  BY DEF Gai!UnusedInv
<1>2. /\ \A f \in Gai!Family : sub'[f] = IF f \in started /\ ~null THEN "running" ELSE "none"
      /\ UNCHANGED <<result, pending_result, pending_error, timeout, user_canceled,
                     request_done, user_cb>>
  OBVIOUS
<1>3. /\ Gai!GaiTypeOK'
      /\ \A f \in Gai!Family : (Gai!Has(f)' <=> f \in started /\ ~null)
                               /\ result'[f] = "none"
  BY <1>1, <1>2 DEF Gai!Has, Gai!UnusedInv
<1>4. CASE started = {} /\ ~null
  <2>1. told' = <<"fail">> /\ data' = "unused"
    BY <1>1, <1>4
  <2> QED  BY <1>1, <1>2, <1>3, <1>4, <2>1 DEF Gai!UnusedInv, Gai!UsedInv, Gai!FreedInv
<1>5. CASE started # {} /\ ~null
  <2>1. told' = <<>> /\ data' = "used"
    BY <1>1, <1>5
  <2> QED  BY <1>1, <1>2, <1>3, <1>5, <2>1 DEF Gai!UnusedInv, Gai!UsedInv, Gai!FreedInv
<1>6. CASE null
  <2>1. told' = <<>> /\ data' = "null"
    BY <1>1, <1>6
  <2> QED  BY <1>1, <1>2, <1>3, <1>6, <2>1 DEF Gai!UnusedInv, Gai!UsedInv, Gai!FreedInv
<1> QED  BY <1>4, <1>5, <1>6

LEMMA ResolvedKeepsGai ==
  ASSUME Gai!GaiInv, NEW f \in Gai!Family, NEW how \in {"answer", "error"},
         Gai!Resolved(f, how)
  PROVE  Gai!GaiInv'
BY DEF Gai!GaiInv, Gai!GaiTypeOK, Gai!UnusedInv, Gai!UsedInv, Gai!FreedInv,
       Gai!Resolved, Gai!Has, Gai!Family

\* Of the sequences that the user can have been given, only one is empty.
LEMMA ToldFacts ==
  /\ Len(<<>>) = 0
  /\ \A what : Len(<<what>>) = 1 /\ <<what>>[1] = what
OBVIOUS

\* A user who is told for the first time.
LEMMA ToldFirst ==
  \A what \in {"ok", "error", "canceled"} : told = <<>> => Append(told, what) = <<what>>
OBVIOUS

LEMMA TimeoutKeepsGai ==
  ASSUME Gai!GaiInv, Gai!evdns_getaddrinfo_timeout_cb
  PROVE  Gai!GaiInv'
<1> USE DEF Gai!Family, Gai!Has
<1>1. /\ data = "used" /\ timeout /\ user_cb /\ told = <<>>
      /\ \E f \in Gai!Family : Gai!Has(f)
      /\ \E f \in Gai!Family : ~Gai!Has(f)
      /\ user_canceled => pending_result = {}
  BY DEF Gai!GaiInv, Gai!GaiTypeOK, Gai!UsedInv, Gai!evdns_getaddrinfo_timeout_cb
<1>2. /\ sub' \in [Gai!Family -> {"none", "running", "due", "done"}]
      /\ result' \in [Gai!Family -> {"none", "answer", "error", "cancel"}]
      /\ \A f \in Gai!Family : /\ Gai!Has(f)' <=> Gai!Has(f)
                               /\ Gai!Has(f) => sub'[f] = "due"
  BY DEF Gai!GaiInv, Gai!GaiTypeOK, Gai!evdns_getaddrinfo_timeout_cb, Gai!CancelSubs
<1>3. /\ told' = IF pending_result # {} THEN <<"ok">> ELSE <<"error">>
      /\ user_cb' = FALSE /\ data' = "used"
      /\ timeout' = FALSE /\ pending_result' = {}
      /\ UNCHANGED <<pending_error, user_canceled, request_done>>
  BY <1>1, ToldFirst DEF Gai!evdns_getaddrinfo_timeout_cb
<1> QED  BY <1>1, <1>2, <1>3
         DEF Gai!GaiInv, Gai!GaiTypeOK, Gai!UnusedInv, Gai!UsedInv, Gai!FreedInv

LEMMA CancelKeepsGai ==
  ASSUME Gai!GaiInv, Gai!evdns_getaddrinfo_cancel
  PROVE  Gai!GaiInv'
BY DEF Gai!GaiInv, Gai!GaiTypeOK, Gai!UnusedInv, Gai!UsedInv, Gai!FreedInv,
       Gai!evdns_getaddrinfo_cancel, Gai!CancelSubs, Gai!Has, Gai!Family

LEMMA GotResolveKeepsGai ==
  ASSUME Gai!GaiInv, NEW f \in Gai!Family, Gai!evdns_getaddrinfo_gotresolve(f)
  PROVE  Gai!GaiInv'
<1> DEFINE g == Gai!OtherOf(f)
<1> USE DEF Gai!GaiInv, Gai!GaiTypeOK
<1>1. g \in Gai!Family /\ g # f /\ \A x \in Gai!Family : x = f \/ x = g
  BY DEF Gai!OtherOf, Gai!Family
<1>2. Gai!Has(f) /\ data = "used" /\ (data = "used" => data' \in {"used", "freed"})
  BY DEF Gai!evdns_getaddrinfo_gotresolve, Gai!Has, Gai!UnusedInv, Gai!FreedInv,
         Gai!gotresolve_outcome, Gai!Report, Gai!free_getaddrinfo_request
<1>3. /\ sub' \in [Gai!Family -> {"none", "running", "due", "done"}]
      /\ result' \in [Gai!Family -> {"none", "answer", "error", "cancel"}]
      /\ ~Gai!Has(f)' /\ (Gai!Has(g)' <=> Gai!Has(g))
      /\ sub'[g] = sub[g] /\ result'[g] = result[g]
      /\ request_done' \in BOOLEAN
      /\ UNCHANGED <<user_canceled, user_cb>>
  BY <1>1 DEF Gai!evdns_getaddrinfo_gotresolve, Gai!Has
<1> DEFINE how == result[f]
<1>4. CASE how = "cancel" /\ ~user_canceled
  <2>1. ~user_cb /\ told # <<>> /\ ~Gai!Has(g)
    BY <1>1, <1>2, <1>4 DEF Gai!UsedInv
  <2>2. /\ data' = "freed" /\ timeout' = FALSE /\ pending_result' = {}
        /\ UNCHANGED <<pending_error, told>>
    BY <1>4, <2>1 DEF Gai!evdns_getaddrinfo_gotresolve, Gai!free_getaddrinfo_request
  <2> QED  BY <1>1, <1>2, <1>3, <1>4, <2>1, <2>2
           DEF Gai!UnusedInv, Gai!UsedInv, Gai!FreedInv
<1>5. CASE ~(how = "cancel" /\ ~user_canceled) /\ ~user_cb
  <2>1. told # <<>> /\ ~Gai!Has(g)
    BY <1>1, <1>2, <1>5 DEF Gai!UsedInv
  <2>2. /\ data' = "freed" /\ timeout' = FALSE /\ pending_result' = {}
        /\ UNCHANGED <<pending_error, told>>
    BY <1>5, <2>1 DEF Gai!evdns_getaddrinfo_gotresolve, Gai!free_getaddrinfo_request
  <2> QED  BY <1>1, <1>2, <1>3, <1>5, <2>1, <2>2
           DEF Gai!UnusedInv, Gai!UsedInv, Gai!FreedInv
<1>6. CASE ~(how = "cancel" /\ ~user_canceled) /\ user_cb
  <2>1. told = <<>> /\ Gai!gotresolve_outcome(f, how # "answer")
    BY <1>2, <1>6 DEF Gai!UsedInv, Gai!evdns_getaddrinfo_gotresolve
  <2>2. CASE Gai!Has(g)
    <3>1. ~timeout /\ pending_result = {}
      BY <1>1, <1>2, <2>2 DEF Gai!UsedInv
    <3>2. /\ timeout' \in BOOLEAN /\ pending_error' \in BOOLEAN
          /\ pending_result' \in SUBSET Gai!Family
          /\ user_canceled => pending_result' = {}
          /\ UNCHANGED <<data, told>>
      BY <2>1, <2>2, <3>1 DEF Gai!gotresolve_outcome
    <3>3. Gai!UsedInv'
      <4>1. /\ \E x \in Gai!Family : Gai!Has(x)'
            /\ \E x \in Gai!Family : ~Gai!Has(x)'
        BY <1>1, <1>3, <2>2
      <4>2. \A x \in Gai!Family : Gai!Has(x)' => x = g
        BY <1>1, <1>3
      <4>3. /\ user_canceled => sub[g] = "due"
            /\ result[g] = "cancel" => user_canceled
        BY <1>1, <1>2, <1>6, <2>2 DEF Gai!UsedInv
      <4> QED  BY <1>1, <1>3, <1>6, <2>1, <3>2, <4>1, <4>2, <4>3 DEF Gai!UsedInv
    <3> QED  BY <1>2, <1>3, <2>1, <3>2, <3>3 DEF Gai!UnusedInv, Gai!FreedInv
  <2>3. CASE ~Gai!Has(g)
    <3>1. /\ told' \in {<<"ok">>, <<"error">>, <<"canceled">>}
          /\ user_canceled => told' = <<"canceled">>
          /\ data' = "freed" /\ timeout' = FALSE /\ pending_result' = {}
          /\ UNCHANGED pending_error
      BY <2>1, <2>3, ToldFirst
      DEF Gai!gotresolve_outcome, Gai!Report, Gai!free_getaddrinfo_request
    <3>2. told' # <<>> /\ (user_canceled => told' # <<"ok">>)
      <4>1. Len(told') = 1
        BY <3>1, ToldFacts
      <4>2. user_canceled => told'[1] = "canceled"
        BY <3>1, ToldFacts
      <4>3. ASSUME told' = <<>>
            PROVE  FALSE
        <5>1. Len(told') = 0
          BY <4>3, ToldFacts
        <5> QED  BY ONLY <4>1, <5>1
      <4>4. ASSUME user_canceled, told' = <<"ok">>
            PROVE  FALSE
        <5>1. told'[1] = "ok"
          BY <4>4, ToldFacts
        <5> QED  BY <4>2, <4>4, <5>1
      <4> QED  BY <4>3, <4>4
    <3>3. Gai!GaiTypeOK'
      BY <1>3, <3>1
    <3>4. \A x \in Gai!Family : ~Gai!Has(x)'
      BY <1>1, <1>3, <2>3
    <3> QED  BY <1>3, <3>1, <3>2, <3>3, <3>4
             DEF Gai!UnusedInv, Gai!UsedInv, Gai!FreedInv
  <2> QED  BY <2>2, <2>3
<1> QED  BY <1>4, <1>5, <1>6

LEMMA GaiStep == Gai!GaiInv /\ [Gai!Next]_gai => Gai!GaiInv'
<1> SUFFICES ASSUME Gai!GaiInv, [Gai!Next]_gai
             PROVE  Gai!GaiInv'
  OBVIOUS
<1>1. CASE UNCHANGED gai
  BY <1>1 DEF gai, Gai!GaiInv, Gai!GaiTypeOK, Gai!UnusedInv, Gai!UsedInv, Gai!FreedInv,
              Gai!Has
<1>2. CASE Gai!AnswerAtOnce
  BY <1>2 DEF Gai!AnswerAtOnce, Gai!GaiInv, Gai!GaiTypeOK, Gai!UnusedInv, Gai!UsedInv,
              Gai!FreedInv, Gai!Has
<1>3. ASSUME NEW ask \in SUBSET Gai!Family \ {{}}, NEW started \in SUBSET Gai!Family,
             NEW cname \in BOOLEAN, Gai!evdns_getaddrinfo(ask, started, cname)
      PROVE  Gai!GaiInv'
  BY <1>3, StartKeepsGai
<1>4. ASSUME NEW f \in Gai!Family, NEW how \in {"answer", "error"}, Gai!Resolved(f, how)
      PROVE  Gai!GaiInv'
  BY <1>4, ResolvedKeepsGai
<1>5. ASSUME NEW f \in Gai!Family, Gai!evdns_getaddrinfo_gotresolve(f)
      PROVE  Gai!GaiInv'
  BY <1>5, GotResolveKeepsGai
<1>6. CASE Gai!evdns_getaddrinfo_timeout_cb
  BY <1>6, TimeoutKeepsGai
<1>7. CASE Gai!evdns_getaddrinfo_cancel
  BY <1>7, CancelKeepsGai
<1> QED  BY <1>1, <1>2, <1>3, <1>4, <1>5, <1>6, <1>7 DEF Gai!Next

LEMMA GaiInvImplies == Gai!GaiInv => Gai!GaiToldOnce
<1> SUFFICES ASSUME Gai!GaiInv
             PROVE  Gai!GaiToldOnce
  OBVIOUS
<1>1. Len(told) <= 1 /\ (told # <<>> => Len(told) = 1)
  <2>1. told = <<>> \/ \E what : told = <<what>>
    BY DEF Gai!GaiInv, Gai!GaiTypeOK
  <2>2. CASE told = <<>>
    BY <2>2, ToldFacts
  <2>3. CASE \E what : told = <<what>>
    <3>1. Len(told) = 1
      BY <2>3, ToldFacts
    <3> QED  BY <3>1
  <2> QED  BY <2>1, <2>2, <2>3
<1> QED  BY <1>1 DEF Gai!GaiInv, Gai!UsedInv, Gai!FreedInv, Gai!GaiToldOnce

\* The user of evdns_getaddrinfo is told exactly once, in whatever order the two
\* lookups, the timer and his own cancellation come (gotresolve, timeout_cb and
\* cancel of evdns_getaddrinfo), and nothing refers to the request when it is freed.
THEOREM GaiToldOnceHolds == MCSpec => []GaiToldOnce
<1>1. MCInit => Gai!GaiInv
  BY GaiInit DEF MCInit
<1>2. Gai!GaiInv /\ [MCNext]_mcVars => Gai!GaiInv'
  <2> SUFFICES ASSUME Gai!GaiInv, [MCNext]_mcVars
               PROVE  [Gai!Next]_gai
    BY GaiStep
  <2> QED  BY DEF MCNext, mcVars, Resolver, AddrInfo, ServerPort
<1>3. Gai!GaiInv => GaiToldOnce
  BY GaiInvImplies DEF GaiToldOnce
<1> QED  BY <1>1, <1>2, <1>3, PTL DEF MCSpec

-------------------------------------------------------------------------------
\* A server port.  The library's operators are the same in its module.
LEMMA PortLibrary ==
  /\ \A S : Port!IsFiniteSet(S) <=> IsFiniteSet(S)
  /\ \A S : Port!Cardinality(S) = Cardinality(S)
  /\ \A s : Port!IsInjective(s) <=> IsInjective(s)
  /\ \A s : Port!ToSet(s) = ToSet(s)
  /\ \A s : Port!Range(s) = Range(s)
  /\ \A s, e : Port!RemoveFirst(s, e) = RemoveFirst(s, e)
<1>1. \A S : Port!IsFiniteSet(S) <=> IsFiniteSet(S)
  BY DEF Port!IsFiniteSet, IsFiniteSet
<1>2. \A S : Port!Cardinality(S) = Cardinality(S)
  BY <1>1 DEF Port!Cardinality, Cardinality
<1>3. \A s : Port!IsInjective(s) <=> IsInjective(s)
  BY DEF Port!IsInjective, IsInjective
<1>4. \A s : Port!ToSet(s) = ToSet(s) /\ Port!Range(s) = Range(s)
  BY DEF Port!ToSet, ToSet, Port!Range, Range
<1>5. \A s, e : Port!RemoveFirst(s, e) = RemoveFirst(s, e)
  BY DEF Port!RemoveFirst, RemoveFirst, Port!RemoveAt, RemoveAt, Port!SelectInSeq, SelectInSeq, Port!Min, Min
<1> QED  BY <1>1, <1>2, <1>3, <1>4, <1>5

LEMMA PortParts ==
  ASSUME NEW p, NEW s
  PROVE  Port!PortInvOf(p, s) <=>
           /\ p \in Port!PortType /\ s \in [SReq -> Port!Status]
           /\ IsInjective(p.pending) /\ IsFiniteSet(Port!LiveIn(s))
           /\ p.refcnt = (IF p.open THEN 1 ELSE 0) + Cardinality(Port!LiveIn(s))
           /\ p.freed <=> p.refcnt = 0
           /\ p.pending # <<>> => p.write
           /\ ToSet(p.pending) = Port!Waits(s)
BY PortLibrary, Zenon DEF Port!PortInvOf

\* The lemmas are about any port p with the requests s, because one response can
\* be followed by a flush of the responses that wait.
\* A request that is not freed keeps the port.
LEMMA RequestKeepsPort ==
  ASSUME NEW p, NEW s, Port!PortInvOf(p, s), Port!LiveIn(s) # {}
  PROVE  ~p.freed
<1>1. /\ IsFiniteSet(Port!LiveIn(s)) /\ p \in Port!PortType
      /\ p.refcnt = (IF p.open THEN 1 ELSE 0) + Cardinality(Port!LiveIn(s))
      /\ p.freed <=> p.refcnt = 0
  BY PortParts
<1>2. Cardinality(Port!LiveIn(s)) \in Nat \ {0}
  BY <1>1, FS_CardinalityType, FS_EmptySet
<1> QED  BY <1>1, <1>2

\* Giving up the references of n requests that are freed, and are not in the
\* list any more, keeps the count.
LEMMA UnrefKeepsCount ==
  ASSUME NEW p, NEW s, Port!PortInvOf(p, s), ~p.freed,
         NEW Q \in SUBSET Port!LiveIn(s), NEW n \in Nat, Cardinality(Q) = n,
         NEW list \in Seq(SReq), IsInjective(list),
         ToSet(list) = Port!Waits(s) \ Q
  PROVE  Port!PortInvOf(Port!Unref([p EXCEPT !.pending = list], n),
                        [q \in SReq |-> IF q \in Q THEN "freed" ELSE s[q]])
<1> DEFINE t == [q \in SReq |-> IF q \in Q THEN "freed" ELSE s[q]]
           x == Port!Unref([p EXCEPT !.pending = list], n)
<1>1. /\ p \in Port!PortType /\ s \in [SReq -> Port!Status]
      /\ IsFiniteSet(Port!LiveIn(s)) /\ p.refcnt = (IF p.open THEN 1 ELSE 0) + Cardinality(Port!LiveIn(s))
      /\ p.refcnt # 0
      /\ p.pending # <<>> => p.write
      /\ ToSet(p.pending) = Port!Waits(s)
  BY PortParts
<1>2. t \in [SReq -> Port!Status] /\ Port!LiveIn(t) = Port!LiveIn(s) \ Q
      /\ Port!Waits(t) = Port!Waits(s) \ Q
  BY <1>1 DEF Port!Status, Port!LiveIn, Port!Waits
<1>3. /\ IsFiniteSet(Port!LiveIn(t)) /\ Cardinality(Port!LiveIn(t)) = Cardinality(Port!LiveIn(s)) - n
      /\ Cardinality(Port!LiveIn(t)) \in Nat /\ Cardinality(Port!LiveIn(s)) \in Nat
      /\ Cardinality(Port!LiveIn(t)) = 0 => Port!LiveIn(t) = {}
  <2> HIDE DEF t
  <2>1. /\ IsFiniteSet(Port!LiveIn(s) \ Q)
        /\ Cardinality(Port!LiveIn(s) \ Q) = Cardinality(Port!LiveIn(s)) - n
        /\ Cardinality(Port!LiveIn(s) \ Q) \in Nat /\ Cardinality(Port!LiveIn(s)) \in Nat
    BY <1>1, CardinalityWithout
  <2> QED  BY <1>2, <2>1, FS_EmptySet
<1>4. /\ x.open = p.open /\ x.refcnt = p.refcnt - n /\ x.pending = list
      /\ x.freed <=> p.refcnt = n
      /\ x.write <=> p.write /\ p.refcnt # n
      /\ x.refcnt \in Nat => x \in Port!PortType
  BY <1>1 DEF Port!Unref, Port!PortType
<1>5. x.refcnt = (IF x.open THEN 1 ELSE 0) + Cardinality(Port!LiveIn(t)) /\ x.refcnt \in Nat
  BY <1>1, <1>3, <1>4 DEF Port!PortType
<1>6. x \in Port!PortType
  BY <1>4, <1>5 DEF Port!PortType
<1>7. x.freed <=> x.refcnt = 0
  BY <1>1, <1>4 DEF Port!PortType
<1>8. x.pending # <<>> => x.write
  <2> SUFFICES ASSUME list # <<>>
               PROVE  p.write /\ p.refcnt # n
    BY <1>4
  <2>1. PICK q : q \in ToSet(list)
    BY ElementsInRange
  <2>2. q \in Port!LiveIn(t) /\ q \in ToSet(p.pending)
    BY <1>1, <1>2, <2>1 DEF Port!LiveIn, Port!Waits
  <2>3. p.pending # <<>>
    BY <1>1, <2>2, ElementsInRange DEF Port!PortType
  <2>4. Cardinality(Port!LiveIn(t)) # 0
    BY <1>3, <2>2
  <2>5. x.refcnt # 0
    BY <1>3, <1>5, <2>4
  <2> QED  BY <1>1, <1>4, <2>3, <2>5 DEF Port!PortType
<1> HIDE DEF x, t
<1>9. Port!PortInvOf(x, t)
  BY <1>2, <1>3, <1>4, <1>5, <1>6, <1>7, <1>8, PortParts
<1> QED  BY <1>9 DEF x, t

\* server_request_free of a request that the user had.
LEMMA FreeKeepsPort ==
  ASSUME NEW p, NEW s, Port!PortInvOf(p, s), NEW q \in SReq, s[q] = "user"
  PROVE  /\ ~p.freed
         /\ Port!PortInvOf(Port!server_request_free(p, q), [s EXCEPT ![q] = "freed"])
         /\ Port!server_request_free(p, q).pending = p.pending
<1>1. /\ p \in Port!PortType /\ s \in [SReq -> Port!Status]
      /\ IsInjective(p.pending) /\ ToSet(p.pending) = Port!Waits(s)
      /\ p.pending \in Seq(SReq)
  BY PortParts DEF Port!PortType
<1>2. ~p.freed
  BY RequestKeepsPort DEF Port!LiveIn
<1>3. {q} \in SUBSET Port!LiveIn(s) /\ Cardinality({q}) = 1 /\ q \notin Port!Waits(s)
  BY FS_Singleton DEF Port!LiveIn, Port!Waits
<1>4. RemoveFirst(p.pending, q) = p.pending
  BY <1>1, <1>3, RemoveAbsent
<1>5. [s EXCEPT ![q] = "freed"] = [r \in SReq |-> IF r \in {q} THEN "freed" ELSE s[r]]
  BY <1>1
<1>6. Port!server_request_free(p, q) = Port!Unref([p EXCEPT !.pending = p.pending], 1)
  BY <1>1, <1>4, PortLibrary DEF Port!server_request_free, Port!PortType
<1>7. ToSet(p.pending) = Port!Waits(s) \ {q}
  BY <1>1, <1>3
<1>8. Port!server_request_free(p, q).pending = p.pending
  BY <1>1, <1>6 DEF Port!Unref, Port!PortType
<1> QED  BY <1>1, <1>2, <1>3, <1>5, <1>6, <1>7, <1>8, UnrefKeepsCount

\* server_port_flush of k of the responses that wait.
LEMMA FlushKeepsPort ==
  ASSUME NEW p, NEW s, Port!PortInvOf(p, s), ~p.freed, NEW k \in 0 .. Len(p.pending)
  PROVE  LET fl == Port!server_port_flush(p, k)
         IN  Port!PortInvOf(fl.p, [q \in SReq |-> IF q \in fl.done THEN "freed" ELSE s[q]])
<1> DEFINE front == SubSeq(p.pending, 1, k)
           rest  == SubSeq(p.pending, k + 1, Len(p.pending))
           x     == Port!Unref([p EXCEPT !.pending = rest], k)
           t     == [q \in SReq |-> IF q \in ToSet(front) THEN "freed" ELSE s[q]]
           fl    == Port!server_port_flush(p, k)
<1>1. /\ p \in Port!PortType /\ s \in [SReq -> Port!Status] /\ p.pending \in Seq(SReq)
      /\ IsInjective(p.pending) /\ ToSet(p.pending) = Port!Waits(s)
  BY PortParts DEF Port!PortType
<1>2. /\ rest \in Seq(SReq) /\ IsInjective(rest) /\ Len(rest) = Len(p.pending) - k
      /\ ToSet(rest) = Port!Waits(s) \ ToSet(front)
      /\ Cardinality(ToSet(front)) = k
      /\ ToSet(front) \in SUBSET Port!Waits(s)
      /\ Range(front) = ToSet(front)
  <2>1. /\ front \in Seq(SReq) /\ Len(front) = k /\ IsInjective(front)
        /\ rest \in Seq(SReq) /\ Len(rest) = Len(p.pending) - k /\ IsInjective(rest)
        /\ Port!Waits(s) = ToSet(front) \cup ToSet(rest)
        /\ ToSet(front) \cap ToSet(rest) = {}
    BY <1>1, CutFacts
  <2> HIDE DEF front, rest
  <2>2. Cardinality(ToSet(front)) = k
    BY <2>1, InjectiveLength
  <2>3. Range(front) = ToSet(front)
    BY DEF Range, ToSet
  <2> QED  BY <2>1, <2>2, <2>3
<1> HIDE DEF front, rest
<1>3. ToSet(front) \in SUBSET Port!LiveIn(s) /\ k \in Nat
  BY <1>1, <1>2 DEF Port!LiveIn, Port!Waits
<1>4. Port!PortInvOf(x, t)
  BY <1>1, <1>2, <1>3, UnrefKeepsCount
<1>5. fl.done = ToSet(front)
  BY <1>2, PortLibrary DEF Port!server_port_flush, front
<1>6. CASE k = Len(p.pending) /\ ~x.freed
  <2>1. fl.p = [x EXCEPT !.read = TRUE, !.write = FALSE]
    BY <1>6 DEF Port!server_port_flush, rest
  <2>2. x.pending = rest /\ rest = <<>> /\ x \in Port!PortType
    <3>1. x.pending = rest
      BY <1>1 DEF Port!Unref, Port!PortType
    <3>2. Len(rest) = 0
      BY <1>1, <1>2, <1>6
    <3>3. rest = <<>>
      BY <1>2, <3>2, ElementsInRange
    <3> QED  BY <1>4, <3>1, <3>3, PortParts
  <2> HIDE DEF x
  <2>3. /\ fl.p.open = x.open /\ fl.p.refcnt = x.refcnt /\ fl.p.pending = x.pending
        /\ fl.p.freed = x.freed /\ fl.p \in Port!PortType
    BY <2>1, <2>2 DEF Port!PortType
  <2>4. Port!PortInvOf(fl.p, t)
    <3> HIDE DEF fl, t
    <3> QED  BY <1>4, <2>2, <2>3, PortParts
  <2> QED  BY <1>5, <2>4
<1>7. CASE ~(k = Len(p.pending) /\ ~x.freed)
  <2>1. fl.p = x
    BY <1>7 DEF Port!server_port_flush, rest
  <2> QED  BY <1>4, <1>5, <2>1
<1> QED  BY <1>6, <1>7

-------------------------------------------------------------------------------
LEMMA PortInit == Port!Init => Port!PortInv
<1> SUFFICES ASSUME Port!Init
             PROVE  Port!PortInvOf(port, sreq)
  BY DEF Port!PortInv, Port!UseInvOf, Port!Init
<1>1. /\ port \in Port!PortType /\ sreq \in [SReq -> Port!Status]
      /\ port.open /\ port.refcnt = 1 /\ ~port.freed /\ port.pending = <<>>
  BY DEF Port!Init, Port!PortType, Port!Status
<1>2. Port!LiveIn(sreq) = {} /\ Port!Waits(sreq) = {}
  BY DEF Port!Init, Port!LiveIn, Port!Waits
<1>3. IsInjective(<<>>) /\ ToSet(<<>>) = {}
  BY DEF IsInjective, ToSet
<1>4. IsFiniteSet(Port!LiveIn(sreq)) /\ Cardinality(Port!LiveIn(sreq)) = 0
  BY <1>2, FS_EmptySet
<1>5. port.refcnt = (IF port.open THEN 1 ELSE 0) + Cardinality(Port!LiveIn(sreq))
  BY <1>1, <1>4
<1>6. /\ port.freed <=> port.refcnt = 0
      /\ port.pending # <<>> => port.write
  BY <1>1
<1>7. IsInjective(port.pending) /\ ToSet(port.pending) = Port!Waits(sreq)
  BY <1>1, <1>2, <1>3
<1> QED  BY <1>1, <1>4, <1>5, <1>6, <1>7, PortParts

LEMMA ParseKeepsPort ==
  ASSUME Port!PortInv, NEW q \in SReq, Port!request_parse(q)
  PROVE  Port!PortInvOf(port', sreq')
<1>1. /\ port \in Port!PortType /\ sreq \in [SReq -> Port!Status]
      /\ IsInjective(port.pending) /\ IsFiniteSet(Port!LiveIn(sreq))
      /\ port.refcnt = (IF port.open THEN 1 ELSE 0) + Cardinality(Port!LiveIn(sreq))
      /\ port.pending # <<>> => port.write
      /\ ToSet(port.pending) = Port!Waits(sreq)
  BY PortParts DEF Port!PortInv
<1>2. /\ Port!LiveIn(sreq') = Port!LiveIn(sreq) \cup {q} /\ q \notin Port!LiveIn(sreq)
      /\ Port!Waits(sreq') = Port!Waits(sreq)
      /\ sreq' \in [SReq -> Port!Status]
  BY <1>1 DEF Port!request_parse, Port!LiveIn, Port!Waits, Port!Status
<1>3. /\ IsFiniteSet(Port!LiveIn(sreq'))
      /\ Cardinality(Port!LiveIn(sreq')) = Cardinality(Port!LiveIn(sreq)) + 1
      /\ Cardinality(Port!LiveIn(sreq)) \in Nat
  BY <1>1, <1>2, FS_AddElement, FS_CardinalityType
<1>4. /\ port' \in Port!PortType
      /\ port'.refcnt = port.refcnt + 1 /\ port'.open = port.open /\ port.refcnt \in Nat
      /\ ~port'.freed /\ port'.pending = port.pending /\ port'.write = port.write
  <2>1. /\ port' = [port EXCEPT !.refcnt = @ + 1, !.reading = "user"]
        /\ ~port.freed /\ port.refcnt \in Nat
    BY <1>1 DEF Port!request_parse, Port!PortType, Port!PortInv, Port!UseInvOf
  <2>2. port.refcnt + 1 \in Nat /\ "user" \in {"no", "recv", "user"}
    BY <2>1
  <2> QED  BY <1>1, <2>1, <2>2 DEF Port!PortType
<1>5. port'.refcnt = (IF port'.open THEN 1 ELSE 0) + Cardinality(Port!LiveIn(sreq'))
  BY <1>1, <1>3, <1>4
<1>6. port'.freed <=> port'.refcnt = 0
  BY <1>4
<1> QED  BY <1>1, <1>2, <1>3, <1>4, <1>5, <1>6, PortParts DEF Port!PortInv

LEMMA FailKeepsPort ==
  ASSUME Port!PortInv, NEW q \in SReq, Port!respond_fails(q)
  PROVE  Port!PortInvOf(port', sreq')
<1>1. /\ port \in Port!PortType /\ sreq \in [SReq -> Port!Status]
      /\ IsInjective(port.pending) /\ IsFiniteSet(Port!LiveIn(sreq))
      /\ port.refcnt = (IF port.open THEN 1 ELSE 0) + Cardinality(Port!LiveIn(sreq))
      /\ port.freed <=> port.refcnt = 0
      /\ port.pending # <<>> => port.write
      /\ ToSet(port.pending) = Port!Waits(sreq)
      /\ port.pending \in Seq(SReq)
  BY PortParts DEF Port!PortInv, Port!PortType
<1>2. /\ Port!LiveIn(sreq') = Port!LiveIn(sreq) /\ q \notin Port!Waits(sreq)
      /\ Port!Waits(sreq') = Port!Waits(sreq) \cup {q}
      /\ sreq' \in [SReq -> Port!Status]
  BY <1>1 DEF Port!respond_fails, Port!LiveIn, Port!Waits, Port!Status
<1>3. /\ Append(port.pending, q) \in Seq(SReq)
      /\ ToSet(Append(port.pending, q)) = Port!Waits(sreq')
      /\ IsInjective(Append(port.pending, q))
      /\ port.pending = <<>> => <<q>> = Append(port.pending, q)
  BY <1>1, <1>2, AppendElements
<1>4. /\ port' \in Port!PortType
      /\ port'.refcnt = port.refcnt /\ port'.open = port.open
      /\ port'.freed = port.freed /\ port'.pending = Append(port.pending, q) /\ port'.write
  BY <1>1, <1>3 DEF Port!respond_fails, Port!PortType
<1> QED  BY <1>1, <1>2, <1>3, <1>4, PortParts DEF Port!PortInv

LEMMA CloseKeepsPort ==
  ASSUME Port!PortInv, Port!evdns_close_server_port
  PROVE  Port!PortInvOf(port', sreq')
<1>1. /\ port \in Port!PortType /\ sreq \in [SReq -> Port!Status]
      /\ IsInjective(port.pending) /\ IsFiniteSet(Port!LiveIn(sreq))
      /\ port.refcnt = 1 + Cardinality(Port!LiveIn(sreq))
      /\ port.freed <=> port.refcnt = 0
      /\ port.pending # <<>> => port.write
      /\ ToSet(port.pending) = Port!Waits(sreq)
      /\ port.pending \in Seq(SReq)
  BY PortParts DEF Port!PortInv, Port!PortType, Port!evdns_close_server_port
<1>2. /\ Cardinality(Port!LiveIn(sreq)) \in Nat
      /\ Cardinality(Port!LiveIn(sreq)) = 0 => Port!LiveIn(sreq) = {}
  BY <1>1, FS_CardinalityType, FS_EmptySet
<1>3. port.refcnt = 1 => port.pending = <<>>
  BY <1>1, <1>2, ElementsInRange DEF Port!LiveIn, Port!Waits
<1>4. /\ port' \in Port!PortType /\ UNCHANGED sreq
      /\ port'.refcnt = port.refcnt - 1 /\ ~port'.open
      /\ port'.freed <=> port.refcnt = 1
      /\ port'.pending = port.pending
      /\ port.refcnt # 1 => port'.write = port.write
  <2>1. UNCHANGED sreq
    BY DEF Port!evdns_close_server_port
  <2>2. CASE port.refcnt = 1
    <3>1. port' = [port EXCEPT !.open = FALSE, !.refcnt = 0, !.freed = TRUE,
                               !.read = FALSE, !.write = FALSE,
                               !.inside = port.reading = "user"]
      BY <2>2 DEF Port!evdns_close_server_port
    <3>2. 0 \in Nat /\ port.refcnt - 1 = 0
      BY <2>2
    <3>3. port' \in Port!PortType
      BY <1>1, <3>1, <3>2 DEF Port!PortType
    <3>4. /\ port'.refcnt = 0 /\ ~port'.open /\ port'.freed
          /\ port'.pending = port.pending
      BY <1>1, <3>1 DEF Port!PortType
    <3> QED  BY <2>1, <2>2, <3>2, <3>3, <3>4
  <2>3. CASE port.refcnt # 1
    <3>1. port' = [port EXCEPT !.open = FALSE, !.refcnt = @ - 1, !.closing = TRUE]
      BY <2>3 DEF Port!evdns_close_server_port
    <3>2. port.refcnt - 1 \in Nat /\ ~port.freed
      BY <1>1, <1>2
    <3>3. port' \in Port!PortType
      BY <1>1, <3>1, <3>2 DEF Port!PortType
    <3>4. /\ port'.refcnt = port.refcnt - 1 /\ ~port'.open /\ port'.freed = port.freed
          /\ port'.pending = port.pending /\ port'.write = port.write
      BY <1>1, <3>1 DEF Port!PortType
    <3> QED  BY <2>1, <2>3, <3>2, <3>3, <3>4
  <2> QED  BY <2>2, <2>3
<1>5. port'.refcnt = (IF port'.open THEN 1 ELSE 0) + Cardinality(Port!LiveIn(sreq'))
  BY <1>1, <1>2, <1>4
<1>6. port'.freed <=> port'.refcnt = 0
  BY <1>1, <1>2, <1>4
<1> QED  BY <1>1, <1>3, <1>4, <1>5, <1>6, PortParts DEF Port!PortInv

\* To read or unlock the port changes nothing that is counted.
LEMMA UseKeepsPort ==
  ASSUME NEW p, NEW s, Port!PortInvOf(p, s), NEW g \in {"no", "recv", "user"},
         NEW x, x = Port!Use(p) \/ x = [Port!Use(p) EXCEPT !.reading = g]
  PROVE  Port!PortInvOf(x, s)
<1>1. p \in Port!PortType
  BY PortParts
<1>2. /\ x \in Port!PortType /\ x.refcnt = p.refcnt /\ x.open = p.open
      /\ x.freed = p.freed /\ x.pending = p.pending /\ x.write = p.write
  BY <1>1 DEF Port!Use, Port!PortType
<1> QED  BY <1>2, PortParts

\* A response is sent, and then those that wait are tried.
LEMMA SentKeepsPort ==
  ASSUME Port!PortInv, NEW q \in SReq, NEW k, Port!respond_sent(q, k)
  PROVE  Port!PortInvOf(port', sreq')
<1> DEFINE p  == Port!server_request_free(port, q)
           s  == [sreq EXCEPT ![q] = "freed"]
           fl == Port!server_port_flush(p, k)
<1>1. sreq[q] = "user" /\ sreq \in [SReq -> Port!Status]
  BY PortParts DEF Port!PortInv, Port!respond_sent
<1>2. Port!PortInvOf(p, s)
  BY <1>1, FreeKeepsPort DEF Port!PortInv
<1>3. CASE p.pending # <<>> /\ ~p.freed
  <2>1. k \in 0 .. Len(p.pending)
    BY <1>3 DEF Port!respond_sent
  <2>2. port' = Port!Use(fl.p)
        /\ sreq' = [x \in SReq |-> IF x \in fl.done THEN "freed" ELSE s[x]]
    BY <1>1, <1>3 DEF Port!respond_sent
  <2> HIDE DEF p, s
  <2>3. Port!PortInvOf(fl.p, sreq')
    BY <1>2, <1>3, <2>1, <2>2, FlushKeepsPort
  <2> HIDE DEF fl
  <2> QED  BY <2>2, <2>3, UseKeepsPort
<1>4. CASE ~(p.pending # <<>> /\ ~p.freed)
  <2>1. port' = Port!Use(p) /\ sreq' = s
    BY <1>1, <1>4 DEF Port!respond_sent
  <2> HIDE DEF p, s
  <2> QED  BY <1>2, <2>1, UseKeepsPort
<1> QED  BY <1>3, <1>4

LEMMA ReadyKeepsPort ==
  ASSUME Port!PortInv, NEW ev, NEW k, Port!server_port_ready_callback(ev, k)
  PROVE  Port!PortInvOf(port', sreq')
<1> DEFINE p  == [port EXCEPT !.choked = FALSE]
           fl == Port!server_port_flush(p, k)
           x  == IF "write" \in ev THEN fl.p ELSE port
           g  == IF "read" \in ev /\ ~x.freed THEN "recv" ELSE "no"
<1>1. port \in Port!PortType /\ ~port.freed
  BY PortParts DEF Port!PortInv, Port!server_port_ready_callback
<1>2. port' = [Port!Use(x) EXCEPT !.reading = g]
  BY DEF Port!server_port_ready_callback
<1>3. Port!PortInvOf(x, sreq')
  <2>1. CASE "write" \in ev
    <3>1. /\ x = fl.p /\ k \in 0 .. Len(port.pending)
          /\ sreq' = [q \in SReq |-> IF q \in fl.done THEN "freed" ELSE sreq[q]]
      BY <2>1 DEF Port!server_port_ready_callback
    <3>2. /\ p \in Port!PortType /\ p.refcnt = port.refcnt /\ p.open = port.open
          /\ p.freed = port.freed /\ p.pending = port.pending /\ p.write = port.write
      BY <1>1 DEF Port!PortType
    <3> HIDE DEF p, x
    <3>3. Port!PortInvOf(p, sreq)
      BY <3>2, PortParts DEF Port!PortInv
    <3> QED  BY <1>1, <3>1, <3>2, <3>3, FlushKeepsPort
  <2>2. CASE "write" \notin ev
    <3>1. x = port /\ sreq' = [q \in SReq |-> sreq[q]]
      BY <2>2 DEF Port!server_port_ready_callback
    <3>2. sreq' = sreq
      BY <3>1, PortParts DEF Port!PortInv
    <3> QED  BY <3>1, <3>2 DEF Port!PortInv
  <2> QED  BY <2>1, <2>2
<1>4. g \in {"no", "recv", "user"}
  OBVIOUS
<1> HIDE DEF x, g
<1> QED  BY <1>2, <1>3, <1>4, UseKeepsPort

LEMMA ReadStepKeepsPort ==
  ASSUME Port!PortInv, Port!CallbackReturns \/ Port!ReadEnds
  PROVE  Port!PortInvOf(port', sreq')
<1>1. Port!PortInvOf(port, sreq) /\ port \in Port!PortType /\ sreq' = sreq
  BY PortParts DEF Port!PortInv, Port!CallbackReturns, Port!ReadEnds
<1>2. CASE Port!CallbackReturns
  <2> DEFINE g == IF port.freed THEN "no" ELSE "recv"
  <2>1. port' = [Port!Use(port) EXCEPT !.reading = g] /\ g \in {"no", "recv", "user"}
    BY <1>2 DEF Port!CallbackReturns
  <2> HIDE DEF g
  <2> QED  BY <1>1, <2>1, UseKeepsPort
<1>3. CASE Port!ReadEnds
  <2>1. /\ port' \in Port!PortType /\ port'.refcnt = port.refcnt /\ port'.open = port.open
        /\ port'.freed = port.freed /\ port'.pending = port.pending /\ port'.write = port.write
    BY <1>1, <1>3 DEF Port!PortType, Port!ReadEnds
  <2> QED  BY <1>1, <2>1, PortParts
<1> QED  BY <1>2, <1>3

-------------------------------------------------------------------------------
\* The use of a port that was freed.
LEMMA UseUse ==
  ASSUME NEW p \in Port!PortType, Port!UseInvOf(p), p.freed => p.closing \/ p.inside,
         NEW g \in {"no", "recv"}, p.freed => g # "recv",
         NEW x, x = Port!Use(p) \/ x = [Port!Use(p) EXCEPT !.reading = g]
  PROVE  Port!UseInvOf(x)
<1>1. /\ x.open = p.open /\ x.closing = p.closing /\ x.freed = p.freed
      /\ x.inside = p.inside /\ x.read = p.read /\ x.write = p.write
      /\ x.used <=> p.used \/ p.freed
      /\ x.reading = g \/ x.reading = p.reading
  BY DEF Port!Use, Port!PortType
<1> QED  BY <1>1 DEF Port!UseInvOf

\* A port that is freed with a request has no owner.
LEMMA FreedNotOpen ==
  ASSUME NEW p, NEW s, Port!PortInvOf(p, s), p.freed
  PROVE  ~p.open
<1>1. /\ IsFiniteSet(Port!LiveIn(s)) /\ p.refcnt = 0
      /\ p.refcnt = (IF p.open THEN 1 ELSE 0) + Cardinality(Port!LiveIn(s))
  BY PortParts
<1> QED  BY <1>1, FS_CardinalityType

LEMMA UnrefUse ==
  ASSUME NEW p \in Port!PortType, Port!UseInvOf(p), ~p.freed, p.reading # "recv",
         NEW n, NEW list, NEW x, x = Port!Unref([p EXCEPT !.pending = list], n),
         x.freed => ~x.open
  PROVE  /\ Port!UseInvOf(x) /\ (x.freed => x.closing)
         /\ x.reading = p.reading /\ x.used = p.used /\ x.closing = p.closing
         /\ x.inside = p.inside /\ x.open = p.open
<1>1. /\ x.open = p.open /\ x.closing = p.closing /\ x.reading = p.reading
      /\ x.used = p.used /\ x.inside = p.inside
      /\ x.freed <=> p.refcnt = n
      /\ x.read <=> p.read /\ p.refcnt # n
      /\ x.write <=> p.write /\ p.refcnt # n
  BY DEF Port!Unref, Port!PortType
<1> QED  BY <1>1 DEF Port!UseInvOf

LEMMA FlushUse ==
  ASSUME NEW p \in Port!PortType, Port!UseInvOf(p), ~p.freed, p.reading # "recv",
         NEW k \in 0 .. Len(p.pending), NEW s, Port!PortInvOf(p, s)
  PROVE  LET x == Port!server_port_flush(p, k).p
         IN  Port!UseInvOf(x) /\ (x.freed => x.closing) /\ x.reading = p.reading
<1> DEFINE rest == SubSeq(p.pending, k + 1, Len(p.pending))
           y  == Port!Unref([p EXCEPT !.pending = rest], k)
           fl == Port!server_port_flush(p, k)
           t  == [q \in SReq |-> IF q \in fl.done THEN "freed" ELSE s[q]]
<1>1. fl.p = IF k = Len(p.pending) /\ ~y.freed THEN [y EXCEPT !.read = TRUE, !.write = FALSE] ELSE y
  BY DEF Port!server_port_flush
<1>2. Port!PortInvOf(fl.p, t)
  BY FlushKeepsPort
<1>4. fl.p.freed = y.freed /\ fl.p.open = y.open /\ fl.p.closing = y.closing
      /\ fl.p.reading = y.reading /\ fl.p.used = y.used /\ fl.p.inside = y.inside
      /\ (y.freed => fl.p = y)
  BY <1>1 DEF Port!Unref, Port!PortType
<1>5. y.freed => ~y.open
  <2> HIDE DEF y, fl, t
  <2> QED  BY <1>2, <1>4, FreedNotOpen
<1>6. /\ Port!UseInvOf(y) /\ (y.freed => y.closing)
      /\ y.reading = p.reading
  <2> HIDE DEF rest, fl, t
  <2>1. /\ y.open = p.open /\ y.closing = p.closing /\ y.reading = p.reading
        /\ y.used = p.used /\ y.inside = p.inside
        /\ y.freed <=> p.refcnt = k
        /\ y.read <=> p.read /\ p.refcnt # k
        /\ y.write <=> p.write /\ p.refcnt # k
    BY DEF Port!Unref, Port!PortType
  <2> HIDE DEF y
  <2> QED  BY <1>5, <2>1 DEF Port!UseInvOf
<1> HIDE DEF y, fl
<1>7. Port!UseInvOf(fl.p)
  BY <1>4, <1>6 DEF Port!UseInvOf
<1> QED  BY <1>4, <1>6, <1>7 DEF fl

LEMMA UseStep ==
  ASSUME Port!PortInv, Port!Next, Port!PortInvOf(port', sreq')
  PROVE  Port!UseInvOf(port')
<1>1. port \in Port!PortType /\ Port!UseInvOf(port) /\ Port!PortInvOf(port, sreq)
      /\ sreq \in [SReq -> Port!Status]
  BY PortParts DEF Port!PortInv
<1>2. ASSUME NEW q \in SReq, sreq[q] = "user", port.reading # "recv"
      PROVE  LET p == Port!server_request_free(port, q)
             IN  /\ ~port.freed /\ p \in Port!PortType
                 /\ Port!PortInvOf(p, [sreq EXCEPT ![q] = "freed"])
                 /\ Port!UseInvOf(p) /\ (p.freed => p.closing) /\ p.reading # "recv"
  <2> DEFINE p == Port!server_request_free(port, q)
  <2>1. ~port.freed /\ Port!PortInvOf(p, [sreq EXCEPT ![q] = "freed"])
    BY <1>1, <1>2, FreeKeepsPort
  <2>2. p = Port!Unref([port EXCEPT !.pending = Port!RemoveFirst(@, q)], 1)
    BY DEF Port!server_request_free
  <2>3. [port EXCEPT !.pending = Port!RemoveFirst(@, q)]
        = [port EXCEPT !.pending = Port!RemoveFirst(port.pending, q)]
    BY <1>1 DEF Port!PortType
  <2> HIDE DEF p
  <2>4. p.freed => ~p.open
    BY <2>1, FreedNotOpen
  <2>5. p \in Port!PortType
    BY <2>1, PortParts
  <2>6. p = Port!Unref([port EXCEPT !.pending = Port!RemoveFirst(port.pending, q)], 1)
    BY <2>2, <2>3
  <2>7. Port!UseInvOf(p) /\ (p.freed => p.closing) /\ p.reading # "recv"
    BY <1>1, <1>2, <2>1, <2>4, <2>6, UnrefUse
  <2> QED  BY <2>1, <2>5, <2>7 DEF p
<1>3. CASE \E q \in SReq : Port!request_parse(q)
  <2>1. /\ port'.open = port.open /\ port'.closing = port.closing /\ port'.freed = port.freed
        /\ port'.used = port.used /\ port'.inside = port.inside /\ port.reading = "recv"
        /\ port'.read = port.read /\ port'.write = port.write /\ port'.reading = "user"
    BY <1>1, <1>3 DEF Port!request_parse, Port!PortType
  <2> QED  BY <1>1, <2>1 DEF Port!UseInvOf
<1>4. CASE \E q \in SReq : Port!respond_fails(q)
  <2> PICK q \in SReq : Port!respond_fails(q)
    BY <1>4
  <2>1. ~port.freed
    BY <1>1, RequestKeepsPort DEF Port!respond_fails, Port!LiveIn
  <2>2. /\ port'.open = port.open /\ port'.closing = port.closing /\ port'.freed = port.freed
        /\ port'.used = port.used /\ port'.inside = port.inside
    BY <1>1 DEF Port!respond_fails, Port!PortType
  <2> QED  BY <1>1, <2>1, <2>2 DEF Port!UseInvOf
<1>5. CASE \E q \in SReq : Port!respond_full(q)
  BY <1>1, <1>5 DEF Port!respond_full
<1>6. CASE \E q \in SReq : Port!evdns_server_request_drop(q)
  <2> PICK q \in SReq : Port!evdns_server_request_drop(q)
    BY <1>6
  <2> QED  BY <1>2 DEF Port!evdns_server_request_drop, Port!UserRuns
<1>7. CASE \E q \in SReq, k \in 0 .. Port!Cardinality(SReq) : Port!respond_sent(q, k)
  <2> PICK q \in SReq, k \in 0 .. Port!Cardinality(SReq) : Port!respond_sent(q, k)
    BY <1>7
  <2> DEFINE p  == Port!server_request_free(port, q)
             fl == Port!server_port_flush(p, k)
             x  == IF p.pending # <<>> /\ ~p.freed THEN fl.p ELSE p
  <2>1. /\ sreq[q] = "user" /\ port.reading # "recv" /\ port' = Port!Use(x)
        /\ p.pending # <<>> /\ ~p.freed => k \in 0 .. Len(p.pending)
    BY DEF Port!respond_sent, Port!UserRuns
  <2>2. /\ p \in Port!PortType /\ Port!PortInvOf(p, [sreq EXCEPT ![q] = "freed"])
        /\ Port!UseInvOf(p) /\ (p.freed => p.closing) /\ p.reading # "recv"
    BY <1>2, <2>1
  <2> HIDE DEF p
  <2>3. Port!UseInvOf(x) /\ (x.freed => x.closing)
    BY <2>1, <2>2, FlushUse
  <2>4. x \in Port!PortType
    BY <2>1, <2>2, FlushKeepsPort, PortParts
  <2> HIDE DEF x
  <2> QED  BY <2>1, <2>3, <2>4, UseUse
<1>8. CASE \E ev \in Port!Events, k \in 0 .. Port!Cardinality(SReq) : Port!server_port_ready_callback(ev, k)
  <2> PICK ev \in Port!Events, k \in 0 .. Port!Cardinality(SReq) : Port!server_port_ready_callback(ev, k)
    BY <1>8
  <2> DEFINE p  == [port EXCEPT !.choked = FALSE]
             fl == Port!server_port_flush(p, k)
             x  == IF "write" \in ev THEN fl.p ELSE port
             g  == IF "read" \in ev /\ ~x.freed THEN "recv" ELSE "no"
  <2>1. /\ ~port.freed /\ port.reading = "no"
        /\ "write" \in ev => k \in 0 .. Len(port.pending)
        /\ port' = [Port!Use(x) EXCEPT !.reading = g]
    BY DEF Port!server_port_ready_callback
  <2>2. /\ p \in Port!PortType /\ p.refcnt = port.refcnt /\ p.open = port.open
        /\ p.freed = port.freed /\ p.pending = port.pending /\ p.write = port.write
        /\ p.reading = port.reading /\ p.closing = port.closing /\ p.used = port.used
        /\ p.inside = port.inside /\ p.read = port.read
    BY <1>1 DEF Port!PortType
  <2> HIDE DEF p
  <2>3. Port!PortInvOf(p, sreq) /\ Port!UseInvOf(p)
    <3>1. Port!PortInvOf(p, sreq)
      BY <1>1, <2>2, PortParts
    <3> QED  BY <1>1, <2>2, <3>1 DEF Port!UseInvOf
  <2>4. Port!UseInvOf(x) /\ (x.freed => x.closing)
    BY <1>1, <2>1, <2>2, <2>3, FlushUse
  <2>5. x \in Port!PortType
    BY <1>1, <2>1, <2>2, <2>3, FlushKeepsPort, PortParts
  <2>6. g \in {"no", "recv"} /\ (x.freed => g # "recv")
    OBVIOUS
  <2> HIDE DEF x, g
  <2> QED  BY <2>1, <2>4, <2>5, <2>6, UseUse
<1>9. CASE Port!CallbackReturns
  <2> DEFINE g == IF port.freed THEN "no" ELSE "recv"
  <2>1. port.reading = "user" /\ port' = [Port!Use(port) EXCEPT !.reading = g]
        /\ g \in {"no", "recv"} /\ (port.freed => g # "recv")
    BY <1>9 DEF Port!CallbackReturns
  <2>2. port.freed => port.closing \/ port.inside
    BY <1>1, <2>1 DEF Port!UseInvOf
  <2> HIDE DEF g
  <2> QED  BY <1>1, <2>1, <2>2, UseUse
<1>10. CASE Port!ReadEnds
  <2>1. /\ port'.open = port.open /\ port'.closing = port.closing /\ port'.freed = port.freed
        /\ port'.used = port.used /\ port'.inside = port.inside
        /\ port'.read = port.read /\ port'.write = port.write /\ port'.reading = "no"
    BY <1>1, <1>10 DEF Port!ReadEnds, Port!PortType
  <2> QED  BY <1>1, <2>1 DEF Port!UseInvOf
<1>11. CASE Port!evdns_close_server_port
  <2>0. port.open /\ port.reading # "recv"
    BY <1>11 DEF Port!evdns_close_server_port, Port!UserRuns
  <2>1. CASE port.refcnt = 1
    <3>1. port' = [port EXCEPT !.open = FALSE, !.refcnt = 0, !.freed = TRUE,
                               !.read = FALSE, !.write = FALSE,
                               !.inside = port.reading = "user"]
      BY <1>11, <2>1 DEF Port!evdns_close_server_port
    <3>2. /\ port'.closing = port.closing /\ port'.used = port.used /\ port'.reading = port.reading
          /\ port'.freed /\ ~port'.read /\ ~port'.write
          /\ port'.inside <=> port.reading = "user"
      BY <1>1, <3>1 DEF Port!PortType
    <3>3. ~port.used
      BY <1>1, <2>1, PortParts DEF Port!UseInvOf
    <3> QED  BY <1>1, <2>0, <3>2, <3>3 DEF Port!UseInvOf
  <2>2. CASE port.refcnt # 1
    <3>1. port' = [port EXCEPT !.open = FALSE, !.refcnt = @ - 1, !.closing = TRUE]
      BY <1>11, <2>2 DEF Port!evdns_close_server_port
    <3>2. /\ port'.closing /\ port'.freed = port.freed /\ port'.reading = port.reading
          /\ port'.used = port.used /\ port'.read = port.read /\ port'.write = port.write
      BY <1>1, <3>1 DEF Port!PortType
    <3> QED  BY <1>1, <3>2 DEF Port!UseInvOf
  <2> QED  BY <2>1, <2>2
<1> QED  BY <1>3, <1>4, <1>5, <1>6, <1>7, <1>8, <1>9, <1>10, <1>11 DEF Port!Next

LEMMA PortStep == Port!PortInv /\ [Port!Next]_prt => Port!PortInv'
<1> SUFFICES ASSUME Port!PortInv, [Port!Next]_prt
             PROVE  Port!PortInv'
  OBVIOUS
<1>1. CASE UNCHANGED prt
  BY <1>1 DEF prt, Port!PortInv
<1>2. CASE Port!Next
  <2>1. Port!PortInvOf(port', sreq')
    <3>1. ASSUME NEW q \in SReq, Port!respond_full(q)
          PROVE  Port!PortInvOf(port', sreq')
      BY <3>1 DEF Port!respond_full, Port!PortInv
    <3>2. ASSUME NEW q \in SReq, Port!evdns_server_request_drop(q)
          PROVE  Port!PortInvOf(port', sreq')
      BY <3>2, FreeKeepsPort DEF Port!evdns_server_request_drop, Port!PortInv
    <3> QED
      BY <1>2, <3>1, <3>2, ParseKeepsPort, FailKeepsPort, SentKeepsPort, ReadyKeepsPort,
         ReadStepKeepsPort, CloseKeepsPort DEF Port!Next
  <2>2. Port!UseInvOf(port')
    BY <1>2, <2>1, UseStep
  <2> QED  BY <2>1, <2>2 DEF Port!PortInv
<1> QED  BY <1>1, <1>2

\* A server port is counted and freed right for any requests, in whatever order its
\* owner, its users and its socket come, in a ready callback or between; and a call
\* that frees a port uses it afterwards only if the owner closed it while requests were
\* left, or in the user callback (evdns_close_server_port, server_port_flush,
\* server_port_read, evdns_server_request_respond).
THEOREM PortCountedHolds == MCSpec => []PortCounted
<1>1. MCInit => Port!PortInv
  BY PortInit DEF MCInit
<1>2. Port!PortInv /\ [MCNext]_mcVars => Port!PortInv'
  <2> SUFFICES ASSUME Port!PortInv, [MCNext]_mcVars
               PROVE  [Port!Next]_prt
    BY PortStep
  <2> QED  BY DEF MCNext, mcVars, Resolver, AddrInfo, ServerPort
<1>3. Port!PortInv => PortCounted
  <2> SUFFICES ASSUME Port!PortInv
               PROVE  Port!PortCounted
    BY DEF PortCounted
  <2>1. /\ port \in Port!PortType /\ IsFiniteSet(Port!LiveIn(sreq))
        /\ port.refcnt = (IF port.open THEN 1 ELSE 0) + Cardinality(Port!LiveIn(sreq))
        /\ port.freed <=> port.refcnt = 0
        /\ port.pending # <<>> => port.write
        /\ ToSet(port.pending) = Port!Waits(sreq)
        /\ port.pending \in Seq(SReq)
    BY PortParts DEF Port!PortInv, Port!PortType
  <2>2. port.freed => port.pending = <<>>
    <3> SUFFICES ASSUME port.freed, NEW q \in ToSet(port.pending)
                 PROVE  FALSE
      BY <2>1, ElementsInRange
    <3>1. q \in Port!LiveIn(sreq)
      BY <2>1 DEF Port!LiveIn, Port!Waits
    <3>2. port.open => FALSE
      BY <2>1, FS_CardinalityType
    <3>3. Cardinality(Port!LiveIn(sreq)) = 0
      BY <2>1, <3>2, FS_CardinalityType
    <3> QED  BY <2>1, <3>1, <3>3, FS_EmptySet
  <2>3. {q \in SReq : Port!Live(q)} = Port!LiveIn(sreq)
    BY DEF Port!Live, Port!LiveIn
  <2>4. Range(port.pending) = {q \in SReq : sreq[q] = "pending"}
    BY <2>1 DEF Range, ToSet, Port!Waits
  <2>5. /\ port.freed => ~port.read /\ ~port.write
        /\ port.used => port.closing \/ port.inside
    BY DEF Port!PortInv, Port!UseInvOf
  <2> QED  BY <2>1, <2>2, <2>3, <2>4, <2>5, PortLibrary DEF Port!PortCounted
<1> QED  BY <1>1, <1>2, <1>3, PTL DEF MCSpec

-------------------------------------------------------------------------------
\* The resolver: what is due, in flight and waiting of a call is counted.

\* How often x is in the sequence q.
Occ(q, x) == Cardinality({i \in DOMAIN q : q[i] = x})

\* It is a number, and zero exactly if x is not there.
LEMMA OccRange ==
  ASSUME NEW S, NEW q \in Seq(S), NEW x
  PROVE  /\ Occ(q, x) \in Nat
         /\ Occ(q, x) = 0 <=> ~In(x, q)
<1> DEFINE I == {i \in DOMAIN q : q[i] = x}
<1>1. DOMAIN q = 1 .. Len(q) /\ Len(q) \in Nat
  OBVIOUS
<1>2. IsFiniteSet(I) /\ Cardinality(I) \in Nat /\ (Cardinality(I) = 0 <=> I = {})
  <2>1. IsFiniteSet(1 .. Len(q)) /\ I \subseteq 1 .. Len(q)
    BY <1>1, FS_Interval
  <2> HIDE DEF I
  <2> QED  BY <2>1, FS_Subset, FS_CardinalityType, FS_EmptySet
<1>3. I = {} <=> ~In(x, q)
  BY ElementsInRange, <1>1 DEF In
<1> QED  BY <1>2, <1>3 DEF Occ

\* Two lists, one after the other.
LEMMA OccCat ==
  ASSUME NEW S, NEW s \in Seq(S), NEW t \in Seq(S), NEW x
  PROVE  Occ(s \o t, x) = Occ(s, x) + Occ(t, x)
<1> DEFINE m == Len(s)
           n == Len(t)
           q == s \o t
           A == {i \in 1 .. m : s[i] = x}
           C == {i \in 1 .. n : t[i] = x}
           B == {i \in m + 1 .. m + n : q[i] = x}
<1>1. /\ m \in Nat /\ n \in Nat /\ DOMAIN s = 1 .. m /\ DOMAIN t = 1 .. n
      /\ DOMAIN q = 1 .. m + n
      /\ \A i \in 1 .. m : q[i] = s[i]
      /\ \A i \in 1 .. n : q[m + i] = t[i]
  OBVIOUS
<1> HIDE DEF q, m, n
<1>2. {i \in DOMAIN q : q[i] = x} = A \cup B /\ A \cap B = {}
  BY <1>1
<1>3. IsFiniteSet(A) /\ IsFiniteSet(B) /\ IsFiniteSet(C)
  <2>1. /\ IsFiniteSet(1 .. m) /\ IsFiniteSet(1 .. n) /\ IsFiniteSet(m + 1 .. m + n)
    BY <1>1, FS_Interval
  <2>2. A \subseteq 1 .. m /\ C \subseteq 1 .. n /\ B \subseteq m + 1 .. m + n
    BY <1>1
  <2> HIDE DEF A, B, C
  <2> QED  BY <2>1, <2>2, FS_Subset
<1>4. Cardinality(B) = Cardinality(C)
  <2> DEFINE f == [i \in C |-> m + i]
  <2>1. f \in [C -> B] /\ \A i, j \in C : f[i] = f[j] => i = j
    BY <1>1
  <2>2. \A k \in B : \E i \in C : f[i] = k
    <3> SUFFICES ASSUME NEW k \in B
                 PROVE  \E i \in C : f[i] = k
      OBVIOUS
    <3>1. k - m \in 1 .. n /\ m + (k - m) = k
      BY <1>1
    <3>2. k - m \in C
      BY <1>1, <3>1
    <3> QED  BY <3>1, <3>2
  <2> HIDE DEF f, B, C
  <2>3. f \in Bijection(C, B)
    BY <2>1, <2>2, Fun_IsBij
  <2> QED  BY <2>3, <1>3, FS_Bijection DEF ExistsBijection
<1>5. Cardinality(A \cap B) = 0
  BY <1>2, FS_EmptySet
<1>6. Cardinality(A \cup B) = Cardinality(A) + Cardinality(B) - 0
  <2> HIDE DEF A, B
  <2> QED  BY <1>3, <1>5, FS_Union
<1>7. Cardinality(A) \in Nat /\ Cardinality(B) \in Nat
  BY <1>3, FS_CardinalityType
<1>8. Occ(s, x) = Cardinality(A) /\ Occ(t, x) = Cardinality(C) /\ Occ(q, x) = Cardinality(A \cup B)
  BY <1>1, <1>2 DEF Occ
<1> HIDE DEF A, B, C
<1>9. Occ(q, x) = Occ(s, x) + Occ(t, x)
  BY <1>4, <1>6, <1>7, <1>8
<1> QED  BY <1>9 DEF q

\* A list of one element.
LEMMA OccOne ==
  ASSUME NEW y, NEW x
  PROVE  Occ(<<y>>, x) = IF x = y THEN 1 ELSE 0
<1>1. {i \in DOMAIN <<y>> : <<y>>[i] = x} = IF x = y THEN {1} ELSE {}
  OBVIOUS
<1> QED  BY <1>1, FS_EmptySet, FS_Singleton DEF Occ

\* An element at the end.
LEMMA OccAppend ==
  ASSUME NEW S, NEW s \in Seq(S), NEW y \in S, NEW x
  PROVE  /\ Append(s, y) \in Seq(S)
         /\ Occ(Append(s, y), x) = Occ(s, x) + IF x = y THEN 1 ELSE 0
<1>1. Append(s, y) = s \o <<y>> /\ <<y>> \in Seq(S)
  OBVIOUS
<1>2. Occ(s \o <<y>>, x) = Occ(s, x) + Occ(<<y>>, x)
  BY <1>1, OccCat
<1>3. Append(s, y) \in Seq(S)
  OBVIOUS
<1> QED  BY <1>1, <1>2, <1>3, OccOne

\* The first element, and the rest.
LEMMA OccTail ==
  ASSUME NEW S, NEW s \in Seq(S), s # <<>>, NEW x
  PROVE  /\ Tail(s) \in Seq(S) /\ Head(s) \in S
         /\ Occ(s, x) = Occ(Tail(s), x) + IF x = Head(s) THEN 1 ELSE 0
<1>1. s = <<Head(s)>> \o Tail(s) /\ Tail(s) \in Seq(S) /\ Head(s) \in S /\ <<Head(s)>> \in Seq(S)
  OBVIOUS
<1>2. Occ(s, x) = Occ(<<Head(s)>>, x) + Occ(Tail(s), x)
  <2> DEFINE u == <<Head(s)>>
             t == Tail(s)
  <2>1. u \in Seq(S) /\ t \in Seq(S) /\ s = u \o t
    BY <1>1
  <2> HIDE DEF u, t
  <2>2. Occ(u \o t, x) = Occ(u, x) + Occ(t, x)
    BY <2>1, OccCat
  <2>3. Occ(s, x) = Occ(u, x) + Occ(t, x)
    BY <2>1, <2>2
  <2> QED  BY <2>3 DEF u, t
<1>3. Occ(Tail(s), x) \in Nat
  BY <1>1, OccRange
<1> QED  BY <1>1, <1>2, <1>3, OccOne

\* The elements of two sequences, one after the other.
LEMMA CatFacts ==
  ASSUME NEW S, NEW s \in Seq(S), NEW t \in Seq(S)
  PROVE  /\ s \o t \in Seq(S) /\ Len(s \o t) = Len(s) + Len(t)
         /\ \A i \in 1 .. Len(s) : (s \o t)[i] = s[i]
         /\ \A i \in 1 .. Len(t) : (s \o t)[Len(s) + i] = t[i]
OBVIOUS

\* A sequence around its element i.
LEMMA Around ==
  ASSUME NEW S, NEW s \in Seq(S), NEW i \in 1 .. Len(s)
  PROVE  /\ SubSeq(s, 1, i - 1) \in Seq(S) /\ SubSeq(s, i + 1, Len(s)) \in Seq(S)
         /\ <<s[i]>> \in Seq(S)
         /\ Len(SubSeq(s, 1, i - 1)) = i - 1 /\ Len(SubSeq(s, i + 1, Len(s))) = Len(s) - i
         /\ s = (SubSeq(s, 1, i - 1) \o <<s[i]>>) \o SubSeq(s, i + 1, Len(s))
<1> DEFINE a == SubSeq(s, 1, i - 1)
           b == SubSeq(s, i + 1, Len(s))
           e == <<s[i]>>
<1>1. a \in Seq(S) /\ Len(a) = i - 1 /\ \A j \in 1 .. i - 1 : a[j] = s[j]
  OBVIOUS
<1>2. b \in Seq(S) /\ Len(b) = Len(s) - i /\ \A j \in 1 .. Len(s) - i : b[j] = s[i + j]
  OBVIOUS
<1>3. e \in Seq(S) /\ Len(e) = 1 /\ e[1] = s[i]
  OBVIOUS
<1>4. s \in Seq(S) /\ Len(s) \in Nat /\ i \in 1 .. Len(s)
  OBVIOUS
<1> HIDE DEF a, b, e
<1> DEFINE f == a \o e
           t == f \o b
<1>5. f \in Seq(S) /\ Len(f) = i /\ (\A j \in 1 .. i - 1 : f[j] = s[j]) /\ f[i] = s[i]
  <2>1. /\ f \in Seq(S) /\ Len(f) = Len(a) + Len(e)
        /\ \A j \in 1 .. Len(a) : f[j] = a[j]
        /\ \A j \in 1 .. Len(e) : f[Len(a) + j] = e[j]
    <3>1. a \in Seq(S) /\ e \in Seq(S)
      BY <1>1, <1>3
    <3> QED  BY <3>1, CatFacts
  <2>2. i - 1 + 1 = i /\ i - 1 \in Nat
    BY <1>4
  <2> QED  BY <1>1, <1>3, <2>1, <2>2
<1>6. \A j \in 1 .. i : f[j] = s[j]
  BY <1>4, <1>5
<1> HIDE DEF f
<1>7. /\ t \in Seq(S) /\ Len(t) = Len(s) /\ (\A j \in 1 .. i : t[j] = s[j])
      /\ \A j \in i + 1 .. Len(s) : t[j] = b[j - i]
  <2>1. /\ t \in Seq(S) /\ Len(t) = Len(f) + Len(b)
        /\ \A j \in 1 .. Len(f) : t[j] = f[j]
        /\ \A j \in 1 .. Len(b) : t[Len(f) + j] = b[j]
    <3>1. f \in Seq(S) /\ b \in Seq(S)
      BY <1>2, <1>5
    <3> QED  BY <3>1, CatFacts
  <2>2. \A j \in i + 1 .. Len(s) : j - i \in 1 .. Len(b) /\ i + (j - i) = j
    BY <1>2, <1>4
  <2>3. \A j \in i + 1 .. Len(s) : t[j] = b[j - i]
    BY <1>5, <2>1, <2>2
  <2>4. i + (Len(s) - i) = Len(s)
    BY <1>4
  <2> QED  BY <1>2, <1>5, <1>6, <2>1, <2>3, <2>4
<1>8. \A j \in 1 .. Len(s) : t[j] = s[j]
  <2> SUFFICES ASSUME NEW j \in i + 1 .. Len(s)
               PROVE  t[j] = s[j]
    BY <1>4, <1>7
  <2>1. j - i \in 1 .. Len(s) - i /\ i + (j - i) = j
    BY <1>4
  <2> QED  BY <1>2, <1>7, <2>1
<1> HIDE DEF t
<1>9. t = s
  BY <1>4, <1>7, <1>8
<1> QED  BY <1>1, <1>2, <1>3, <1>9 DEF a, b, e, f, t

\* RemoveFirst takes away one element, if it is there.
LEMMA OccRemoveFirst ==
  ASSUME NEW S, NEW s \in Seq(S), NEW y, NEW x
  PROVE  /\ RemoveFirst(s, y) \in Seq(S)
         /\ In(y, s) => Len(RemoveFirst(s, y)) = Len(s) - 1
         /\ ~In(y, s) => RemoveFirst(s, y) = s
         /\ Occ(RemoveFirst(s, y), x) = Occ(s, x) - IF x = y /\ In(y, s) THEN 1 ELSE 0
<1>1. DOMAIN s = 1 .. Len(s) /\ Len(s) \in Nat /\ Occ(s, x) \in Nat
  BY OccRange
<1>2. CASE ~In(y, s)
  <2>1. RemoveFirst(s, y) = s
    BY <1>1, <1>2, ElementsInRange DEF RemoveFirst, In
  <2>2. Occ(s, x) - 0 = Occ(s, x)
    BY <1>1
  <2> QED  BY <1>2, <2>1, <2>2
<1>3. CASE In(y, s)
  <2> DEFINE I == {i \in 1 .. Len(s) : s[i] = y}
             k == Min(I)
             a == SubSeq(s, 1, k - 1)
             b == SubSeq(s, k + 1, Len(s))
  <2>1. I # {} /\ I \in SUBSET Nat
    BY <1>1, <1>3, ElementsInRange DEF In
  <2>2. k \in I
    <3> HIDE DEF I
    <3> QED  BY <2>1, MinOfNaturals
  <2>3. k \in 1 .. Len(s) /\ s[k] = y
    BY <2>2
  <2>4. RemoveFirst(s, y) = a \o b
    <3>1. \E i \in 1 .. Len(s) : s[i] = y
      BY <2>3
    <3>2. SelectInSeq(s, LAMBDA v : v = y) = k
      BY <2>1 DEF SelectInSeq
    <3>3. RemoveFirst(s, y) = RemoveAt(s, k)
      BY <3>1, <3>2 DEF RemoveFirst
    <3> QED  BY <3>3 DEF RemoveAt
  <2> HIDE DEF k
  <2>5. a \in Seq(S) /\ b \in Seq(S) /\ <<y>> \in Seq(S) /\ Len(a) = k - 1 /\ Len(b) = Len(s) - k
    BY <2>3, Around
  <2>6. s = (a \o <<y>>) \o b
    <3>1. s = (a \o <<s[k]>>) \o b
      BY <2>3, Around
    <3> HIDE DEF a, b
    <3> QED  BY <2>3, <3>1
  <2> HIDE DEF a, b
  <2>7. a \o b \in Seq(S) /\ a \o <<y>> \in Seq(S) /\ Len(a \o b) = Len(s) - 1
    <3>1. Len(a \o b) = Len(a) + Len(b)
      BY <2>5
    <3> QED  BY <1>1, <2>3, <2>5, <3>1
  <2>8. /\ Occ(s, x) = (Occ(a, x) + Occ(<<y>>, x)) + Occ(b, x)
        /\ Occ(a \o b, x) = Occ(a, x) + Occ(b, x)
        /\ Occ(a, x) \in Nat /\ Occ(b, x) \in Nat
    <3>1. Occ(s, x) = Occ(a \o <<y>>, x) + Occ(b, x)
      BY <2>5, <2>6, <2>7, OccCat
    <3>2. Occ(a \o <<y>>, x) = Occ(a, x) + Occ(<<y>>, x)
      BY <2>5, OccCat
    <3> QED  BY <2>5, <3>1, <3>2, OccCat, OccRange
  <2> QED  BY <1>3, <2>4, <2>7, <2>8, OccOne
<1> QED  BY <1>2, <1>3

\* The order does not matter.
LEMMA OccReverse ==
  ASSUME NEW S, NEW s \in Seq(S), NEW x
  PROVE  Reverse(s) \in Seq(S) /\ Len(Reverse(s)) = Len(s) /\ Occ(Reverse(s), x) = Occ(s, x)
<1> DEFINE n == Len(s)
           A == {i \in 1 .. n : s[i] = x}
           r == [i \in 1 .. n |-> s[(n - i) + 1]]
           B == {i \in 1 .. n : r[i] = x}
<1>1. DOMAIN s = 1 .. n /\ n \in Nat /\ \A i \in 1 .. n : (n - i) + 1 \in 1 .. n /\ s[i] \in S
  OBVIOUS
<1>2. r \in Seq(S) /\ Len(r) = n /\ r = Reverse(s)
  BY <1>1 DEF Reverse
<1>3. \A i \in 1 .. n : r[i] = s[(n - i) + 1]
  OBVIOUS
<1>4. DOMAIN r = 1 .. n
  OBVIOUS
<1> HIDE DEF r, n
<1>5. IsFiniteSet(A) /\ IsFiniteSet(B)
  BY <1>1, FS_Interval, FS_Subset
<1>6. Cardinality(A) = Cardinality(B)
  <2> DEFINE f == [i \in A |-> (n - i) + 1]
  <2>1. \A i \in A : f[i] = (n - i) + 1
    OBVIOUS
  <2>2. \A i \in A : f[i] \in B
    <3> SUFFICES ASSUME NEW i \in A
                 PROVE  (n - i) + 1 \in B
      OBVIOUS
    <3>1. (n - i) + 1 \in 1 .. n /\ (n - ((n - i) + 1)) + 1 = i
      BY <1>1
    <3> QED  BY <1>3, <3>1
  <2>3. \A i, j \in A : f[i] = f[j] => i = j
    BY <1>1
  <2>4. \A k \in B : \E i \in A : f[i] = k
    <3> SUFFICES ASSUME NEW k \in B
                 PROVE  \E i \in A : f[i] = k
      OBVIOUS
    <3>1. (n - k) + 1 \in 1 .. n /\ (n - ((n - k) + 1)) + 1 = k
      BY <1>1
    <3>2. (n - k) + 1 \in A
      BY <1>3, <3>1
    <3> QED  BY <3>1, <3>2
  <2>5. f \in [A -> B]
    BY <2>2
  <2> HIDE DEF f, A, B
  <2>6. f \in Bijection(A, B)
    BY <2>3, <2>4, <2>5, Fun_IsBij
  <2> QED  BY <2>6, <1>5, FS_Bijection DEF ExistsBijection
<1>7. Occ(s, x) = Cardinality(A)
  BY <1>1 DEF Occ
<1>8. Occ(r, x) = Cardinality(B)
  BY <1>4 DEF Occ
<1> HIDE DEF A, B
<1>9. Len(s) = n
  BY DEF n
<1> QED  BY <1>2, <1>6, <1>7, <1>8, <1>9

Fields == {"alive", "null", "hit", "max", "ring", "ns", "req", "index", "search",
           "inflight", "waiting", "nin", "nwait", "good", "deferred"}
ReqFields == {"ns", "id", "tx", "reissue", "sent", "transmit_me", "timer"}
Errors == {"none", "notexist", "cancel", "failed"}

\* A callback that is due, with an answer to the question that was asked.
Due == {e \in [h : Req, err : Errors, answer : Req \cup {Late}] :
          e.err = "none" => e.answer = e.h}

\* Whose callbacks are due, and what there is of the call h: the callbacks that
\* are due, and the requests in flight and waiting.
Owners(q) == [i \in DOMAIN q |-> q[i].h]
Tot(b, h) == Occ(Owners(b.deferred), h) + Occ(b.inflight, h) + Occ(b.waiting, h)

\* A request that is not in flight has neither a server nor a timer.
Idle(q) == q.ns = NoNs /\ q.timer \in BOOLEAN /\ ~q.timer

ReqsOk(b) ==
  /\ DOMAIN b.req = Req
  /\ \A r \in Req : DOMAIN b.req[r] = ReqFields /\ b.req[r].ns \in NS \cup {NoNs}

\* A call has one request, which has a server when it is in flight.
HandleOk(b, h) ==
  /\ Occ(b.inflight, h) + Occ(b.waiting, h) <= 1
  /\ IF In(h, b.inflight) THEN b.req[h].ns \in NS ELSE Idle(b.req[h])

Well(b) ==
  /\ DOMAIN b = Fields /\ ReqsOk(b)
  /\ b.inflight \in Seq(Req) /\ b.waiting \in Seq(Req) /\ b.ring \in Seq(NS)
  /\ b.deferred \in Seq(Due)
  /\ b.max \in Nat /\ b.nwait \in Int /\ b.nwait <= Len(b.waiting)
  /\ \A h \in Handle : HandleOk(b, h)

\* The base while it has servers.
Ring(b) == Well(b) /\ b.ring # <<>>

\* A step that leaves the lists as they are: a request in flight may be given
\* another server.
SameLists(x, b) ==
  /\ x.inflight = b.inflight /\ x.waiting = b.waiting /\ x.deferred = b.deferred
  /\ x.alive = b.alive /\ x.nwait = b.nwait /\ x.max = b.max
Quiet(x, b) ==
  /\ DOMAIN x = Fields /\ ReqsOk(x) /\ SameLists(x, b)
  /\ x.ring \in Seq(NS) /\ x.ring # <<>>
  /\ \A h \in Handle : IF In(h, b.inflight) THEN x.req[h].ns \in NS ELSE x.req[h] = b.req[h]

\* A base with servers stays so.
LEMMA QuietRing ==
  ASSUME NEW b, NEW x, Ring(b), Quiet(x, b)
  PROVE  Ring(x)
BY DEF Ring, Well, Quiet, SameLists, HandleOk

\* Nothing happens.
LEMMA QuietItself ==
  ASSUME NEW b, Ring(b)
  PROVE  Quiet(b, b)
BY DEF Ring, Well, Quiet, SameLists, HandleOk

\* One step after another.
LEMMA QuietAgain ==
  ASSUME NEW b, NEW x, NEW y, Quiet(x, b), Quiet(y, x)
  PROVE  Quiet(y, b)
BY DEF Quiet, SameLists

\* The state of a server, and a counter, do not matter.
LEMMA ServerSet ==
  ASSUME NEW b, Ring(b), NEW v, NEW g
  PROVE  /\ Quiet([b EXCEPT !.ns = v], b)
         /\ Quiet([b EXCEPT !.ns = v, !.good = g], b)
         /\ Quiet([b EXCEPT !.good = g, !.ns = v], b)
         /\ Quiet([b EXCEPT !.hit = g], b)
         /\ Quiet([b EXCEPT !.null = g], b)
         /\ Quiet([b EXCEPT !.search = g], b)
         /\ Quiet([b EXCEPT !.index = g], b)
         /\ Quiet([b EXCEPT !.search = g, !.index = v], b)
BY DEF Ring, Well, Quiet, SameLists, HandleOk, ReqsOk, Fields

\* A request in flight, or a probe, changes but for losing its server.
LEMMA ReqSet ==
  ASSUME NEW b, Ring(b), NEW r \in Req, (r \in Handle => In(r, b.inflight)), NEW q,
         DOMAIN q = ReqFields, q.ns \in NS \/ q.ns = b.req[r].ns
  PROVE  Quiet([b EXCEPT !.req[r] = q], b)
BY DEF Ring, Well, Quiet, SameLists, HandleOk, ReqsOk, Fields

\* The ring turned to the next server.
LEMMA PickFacts ==
  ASSUME NEW b, Ring(b)
  PROVE  \E t \in Seq(NS), n \in NS :
            t # <<>> /\ nameserver_pick(b) = [b |-> [b EXCEPT !.ring = t], ns |-> n]
<1> DEFINE turn(k) == SubSeq(b.ring, k + 1, Len(b.ring)) \o SubSeq(b.ring, 1, k)
           up == {k \in DOMAIN b.ring : b.ns[b.ring[k]].state = 1}
           low == CHOOSE i \in up : \A j \in up : i <= j
<1>1. b.ring \in Seq(NS) /\ Len(b.ring) \in Nat \ {0} /\ DOMAIN b.ring = 1 .. Len(b.ring)
      /\ b.ring # <<>>
  BY DEF Ring, Well
<1>2. ASSUME NEW k \in 1 .. Len(b.ring)
      PROVE  turn(k) \in Seq(NS) /\ turn(k) # <<>> /\ turn(k)[1] \in NS
  <2> DEFINE s == SubSeq(b.ring, k + 1, Len(b.ring))
             t == SubSeq(b.ring, 1, k)
  <2>1. s \in Seq(NS) /\ t \in Seq(NS) /\ Len(t) = k /\ Len(s) \in Nat
    BY <1>1
  <2>2. turn(k) = s \o t
    OBVIOUS
  <2> HIDE DEF s, t, turn
  <2>3. s \o t \in Seq(NS) /\ Len(s \o t) = Len(s) + Len(t)
    BY <2>1, CatFacts
  <2>4. Len(turn(k)) # 0 /\ turn(k) \in Seq(NS)
    BY <2>1, <2>2, <2>3
  <2> QED  BY <2>4
<1>3. up # {} => low \in up
  <2> SUFFICES ASSUME up # {}
               PROVE  \E i \in up : \A j \in up : i <= j
    OBVIOUS
  <2>1. up \in SUBSET Nat
    BY <1>1
  <2> HIDE DEF up
  <2> QED  BY <2>1, MinOfNaturals
<1>4. \A k \in 1 .. Len(b.ring) : b.ring[k] \in NS
  BY <1>1
<1>5. nameserver_pick(b) =
        IF b.good = 0 THEN [b |-> [b EXCEPT !.ring = turn(1)], ns |-> turn(1)[1]]
        ELSE IF up = {} THEN [b |-> [b EXCEPT !.ring = turn(1)], ns |-> b.ring[1]]
        ELSE [b |-> [b EXCEPT !.ring = turn(low)], ns |-> b.ring[low]]
  BY <1>1 DEF nameserver_pick
<1>6. up # {} => low \in 1 .. Len(b.ring)
  BY <1>1, <1>3
<1> HIDE DEF turn, up, low
<1>7. 1 \in 1 .. Len(b.ring)
  BY <1>1
<1> QED  BY <1>2, <1>4, <1>5, <1>6, <1>7

\* A request is given a server (nameserver_pick in the code of its callers).
LEMMA AssignFacts ==
  ASSUME NEW b, Ring(b), NEW r
  PROVE  \E t \in Seq(NS), n \in NS :
            t # <<>> /\ Assign(b, r) = [[b EXCEPT !.ring = t] EXCEPT !.req[r].ns = n]
<1>1. PICK t \in Seq(NS), n \in NS :
         t # <<>> /\ nameserver_pick(b) = [b |-> [b EXCEPT !.ring = t], ns |-> n]
  BY PickFacts
<1>2. nameserver_pick(b).b = [b EXCEPT !.ring = t] /\ nameserver_pick(b).ns = n
  BY <1>1
<1>3. Assign(b, r) = [[b EXCEPT !.ring = t] EXCEPT !.req[r].ns = n]
  BY <1>2 DEF Assign
<1> QED  BY <1>1, <1>3

\* The ring is turned.
LEMMA RingSet ==
  ASSUME NEW b, Ring(b), NEW t \in Seq(NS), t # <<>>
  PROVE  Quiet([b EXCEPT !.ring = t], b)
BY DEF Ring, Well, Quiet, SameLists, HandleOk, ReqsOk, Fields

\* A request in flight is given another server.
LEMMA AssignKeeps ==
  ASSUME NEW b, Ring(b), NEW r \in Req, (r \in Handle => In(r, b.inflight))
  PROVE  Quiet(Assign(b, r), b)
<1>1. PICK t \in Seq(NS), n \in NS :
         t # <<>> /\ Assign(b, r) = [[b EXCEPT !.ring = t] EXCEPT !.req[r].ns = n]
  BY AssignFacts
<1> DEFINE x == [b EXCEPT !.ring = t]
           q == [x.req[r] EXCEPT !.ns = n]
<1>2. Quiet(x, b)
  BY <1>1, RingSet
<1>3. Assign(b, r) = [x EXCEPT !.req[r] = q]
  BY <1>1
<1> HIDE DEF x
<1>4. Ring(x) /\ (r \in Handle => In(r, x.inflight)) /\ DOMAIN x.req[r] = ReqFields
  BY <1>2, QuietRing DEF Quiet, SameLists, ReqsOk
<1>5. DOMAIN q = ReqFields /\ q.ns = n
  BY <1>4 DEF ReqFields
<1> HIDE DEF q
<1> QED  BY <1>2, <1>3, <1>4, <1>5, ReqSet, QuietAgain

\* A request in flight is sent.
LEMMA SentKeeps ==
  ASSUME NEW b, Ring(b), NEW r \in Req, (r \in Handle => In(r, b.inflight))
  PROVE  Quiet(Sent(b, r), b)
<1> DEFINE q == [b.req[r] EXCEPT !.timer = TRUE, !.tx = @ + 1, !.transmit_me = FALSE]
<1>1. DOMAIN b.req[r] = ReqFields /\ DOMAIN b = Fields /\ DOMAIN b.req = Req
  BY DEF Ring, Well, ReqsOk
<1>2. DOMAIN q = ReqFields /\ q.ns = b.req[r].ns
  BY <1>1 DEF ReqFields
<1>3. Sent(b, r) = [b EXCEPT !.req[r] = q]
  BY <1>1 DEF Sent, Fields
<1> HIDE DEF q
<1> QED  BY <1>2, <1>3, ReqSet

\* The operations that are applied to the members of a list in turn, by name.
Move(x, r, n) == IF x.req[r].tx = 0 /\ x.req[r].ns = n THEN Assign(x, r) ELSE x
Send(x, r, c) == IF x.req[r].transmit_me THEN evdns_request_transmit(x, r, c) ELSE x
Promote(x, c) ==
  LET r == Head(x.waiting)
      y == Assign([x EXCEPT !.waiting = Tail(@), !.nwait = @ - 1, !.nin = @ + 1], r)
      z == [y EXCEPT !.req[r].id = transaction_id_pick(y, c), !.inflight = Append(@, r)]
  IN  IF x.nin < x.max /\ x.nwait > 0 /\ ~x.null
        THEN evdns_transmit(evdns_request_transmit(z, r, c), c) ELSE x
Fail(x, i, heads, c) ==
  LET first == SelectInSeq(x.inflight, LAMBDA y : x.req[y].id % heads = i - 1)
  IN  IF first = 0 THEN x ELSE Finish(x, x.inflight[first], "shutdown", c)
FailAll(x, i, heads, all, c) ==
  LET One(y, r) == Fail(y, i, heads, c) IN Each(One, x, all)
FailWaiting(x, r, c) ==
  IF x.waiting = <<>> THEN x
  ELSE FreeHandle(reply_schedule_callback(x, Head(x.waiting), "shutdown", r),
                  Head(x.waiting), "waiting", c)
Apply(op, x, r, a, c, heads) ==
  CASE op = "move" -> Move(x, r, a)
    [] op = "send" -> Send(x, r, c)
    [] op = "promote" -> Promote(x, c)
    [] op = "fail" -> Fail(x, a, heads, c)
    [] op = "failall" -> FailAll(x, r, heads, a, c)
    [] op = "failwaiting" -> FailWaiting(x, r, c)

States(g, op, z, q, a, c, heads) ==
  g = [k \in 0 .. Len(q) |-> IF k = 0 THEN z ELSE Apply(op, g[k - 1], q[k], a, c, heads)]

\* The states between the members exist.
LEMMA EachExists ==
  ASSUME NEW op, NEW a, NEW c, NEW heads, NEW z, NEW q, Len(q) \in Nat
  PROVE  \E g : States(g, op, z, q, a, c, heads)
<1> DEFINE At(g, k) == IF k = 0 THEN z ELSE Apply(op, g[k - 1], q[k], a, c, heads)
           Up(g, n) == g = [k \in 0 .. n |-> At(g, k)]
           P == {n \in Nat : \E g : Up(g, n)}
<1>1. 0 \in P
  <2> DEFINE g == [k \in 0 .. 0 |-> z]
  <2>1. Up(g, 0)
    OBVIOUS
  <2> HIDE DEF g, Up
  <2> QED  BY <2>1
<1>2. ASSUME NEW n \in Nat, n \in P
      PROVE  n + 1 \in P
  <2>1. PICK g : Up(g, n)
    BY <1>2
  <2>2. \A i \in 0 .. n : g[i] = At(g, i)
    BY <2>1
  <2> DEFINE v == At(g, n + 1)
             h == [k \in 0 .. n + 1 |-> IF k = n + 1 THEN v ELSE g[k]]
  <2>3. \A i \in 0 .. n : h[i] = g[i]
    OBVIOUS
  <2>4. h[n + 1] = v
    OBVIOUS
  <2>5. \A i \in 0 .. n + 1 : h[i] = At(h, i)
    <3> SUFFICES ASSUME NEW i \in 0 .. n + 1
                 PROVE  h[i] = At(h, i)
      OBVIOUS
    <3> HIDE DEF h
    <3>1. CASE i = 0
      BY <2>2, <2>3, <3>1
    <3>2. CASE i # 0 /\ i <= n
      <4>1. i - 1 \in 0 .. n /\ i \in 0 .. n
        BY <3>2
      <4>2. h[i] = At(g, i) /\ h[i - 1] = g[i - 1]
        BY <2>2, <2>3, <4>1
      <4> QED  BY <3>2, <4>2
    <3>3. CASE i = n + 1
      <4>1. i - 1 = n /\ n \in 0 .. n /\ i # 0
        BY <3>3
      <4>2. h[i] = v /\ h[i - 1] = g[n]
        BY <2>3, <2>4, <3>3, <4>1
      <4> QED  BY <3>3, <4>1, <4>2
    <3> QED  BY <3>1, <3>2, <3>3
  <2>6. Up(h, n + 1)
    <3>1. h = [i \in 0 .. n + 1 |-> h[i]]
      OBVIOUS
    <3> HIDE DEF h
    <3> QED  BY <2>5, <3>1
  <2> HIDE DEF h, Up
  <2>7. n + 1 \in Nat /\ \E y : Up(y, n + 1)
    BY <2>6
  <2> QED  BY <2>7
<1>3. \E g : Up(g, Len(q))
  <2>1. Nat \subseteq P
    <3> HIDE DEF P
    <3> QED  BY <1>1, <1>2, NaturalInduction
  <2> QED  BY <2>1
<1> QED  BY <1>3 DEF States

\* What each step keeps, all of them keep.
LEMMA EachQuiet ==
  ASSUME NEW n \in Nat, NEW g, NEW b, Ring(b), Quiet(g[0], b),
         \A k \in 1 .. n : Quiet(g[k - 1], b) => Quiet(g[k], b)
  PROVE  Quiet(g[n], b)
<1> DEFINE P == {k \in Nat : k <= n => Quiet(g[k], b)}
<1>1. 0 \in P
  OBVIOUS
<1>2. ASSUME NEW k \in Nat, k \in P
      PROVE  k + 1 \in P
  <2> SUFFICES ASSUME k + 1 <= n
               PROVE  Quiet(g[k + 1], b)
    OBVIOUS
  <2>1. k + 1 \in 1 .. n /\ (k + 1) - 1 = k /\ k <= n
    OBVIOUS
  <2>2. Quiet(g[k], b)
    BY <1>2, <2>1
  <2> QED  BY <2>1, <2>2
<1>3. Nat \subseteq P
  <2> HIDE DEF P
  <2> QED  BY <1>1, <1>2, NaturalInduction
<1> QED  BY <1>3

MovedAll(z, n) ==
  LET Op(x, r) == IF x.req[r].tx = 0 /\ x.req[r].ns = n THEN Assign(x, r) ELSE x
  IN  Each(Op, z, z.inflight)

\* nameserver_failed moves what the server had to others.
LEMMA MoveAll ==
  ASSUME NEW z, Ring(z), NEW n
  PROVE  Quiet(MovedAll(z, n), z)
<1> DEFINE q == z.inflight
           Op(x, r) == IF x.req[r].tx = 0 /\ x.req[r].ns = n THEN Assign(x, r) ELSE x
           each[i \in 0 .. Len(q)] == IF i = 0 THEN z ELSE Op(each[i - 1], q[i])
           At(g, i) == IF i = 0 THEN z ELSE Op(g[i - 1], q[i])
<1>1. MovedAll(z, n) = each[Len(q)]
  BY DEF Each, MovedAll
<1>2. q \in Seq(Req) /\ Len(q) \in Nat /\ \A k \in 1 .. Len(q) : q[k] \in Req /\ In(q[k], q)
  BY ElementsInRange DEF Ring, Well, In
<1>3. each = [i \in 0 .. Len(q) |-> At(each, i)]
  <2>1. \E g : States(g, "move", z, q, n, 0, 0)
    BY <1>2, EachExists
  <2>2. \E g : g = [i \in 0 .. Len(q) |-> At(g, i)]
    BY <2>1 DEF States, Apply, Move
  <2> QED  BY <2>2
<1> HIDE DEF each
<1>4. \A k \in 0 .. Len(q) : each[k] = At(each, k)
  BY <1>3
<1>5. each[0] = z /\ \A k \in 1 .. Len(q) : each[k] = Op(each[k - 1], q[k])
  BY <1>2, <1>4
<1>6. \A k \in 1 .. Len(q) : Quiet(each[k - 1], z) => Quiet(each[k], z)
  <2> SUFFICES ASSUME NEW k \in 1 .. Len(q), Quiet(each[k - 1], z)
               PROVE  Quiet(each[k], z)
    OBVIOUS
  <2>1. Ring(each[k - 1]) /\ In(q[k], each[k - 1].inflight)
    BY <1>2, QuietRing DEF Quiet, SameLists
  <2>2. Quiet(Assign(each[k - 1], q[k]), z)
    BY <1>2, <2>1, AssignKeeps, QuietAgain
  <2> QED  BY <1>5, <2>2
<1>7. Quiet(each[Len(q)], z)
  <2> HIDE DEF Op, q
  <2> QED  BY <1>2, <1>5, <1>6, QuietItself, EachQuiet
<1> QED  BY <1>1, <1>7

\* nameserver_failed leaves the lists alone.
LEMMA FailedKeeps ==
  ASSUME NEW b, Ring(b), NEW n
  PROVE  Quiet(nameserver_failed(b, n), b)
<1> DEFINE s == [b.ns EXCEPT ![n].state = 0, ![n].timer = TRUE]
           down == [b EXCEPT !.good = @ - 1, !.ns[n].state = 0, !.ns[n].timer = TRUE]
           g == b.good - 1
           all == MovedAll(down, n)
<1>1. DOMAIN b = Fields
  BY DEF Ring, Well
<1>2. down = [b EXCEPT !.good = g, !.ns = s]
  BY <1>1 DEF Fields
<1>3. nameserver_failed(b, n) =
        IF b.ns[n].state = 0 THEN b ELSE IF down.good = 0 THEN down ELSE all
  BY DEF nameserver_failed, MovedAll, Each
<1> HIDE DEF g, s
<1>4. Quiet(down, b)
  BY <1>2, ServerSet
<1> HIDE DEF down
<1>5. Quiet(all, down)
  BY <1>4, QuietRing, MoveAll
<1> HIDE DEF all
<1> QED  BY <1>3, <1>4, <1>5, QuietItself, QuietAgain

\* evdns_request_transmit leaves the lists alone.
LEMMA RequestTransmitKeeps ==
  ASSUME NEW b, Ring(b), NEW r \in Req, (r \in Handle => In(r, b.inflight)), NEW c
  PROVE  Quiet(evdns_request_transmit(b, r, c), b)
<1> DEFINE n == b.req[r].ns
           q == [b.req[r] EXCEPT !.transmit_me = TRUE]
           m == [b EXCEPT !.req[r].transmit_me = TRUE]
           hit == [m EXCEPT !.hit = TRUE]
           sent == Sent(m, r)
           done == [sent.req[r] EXCEPT !.sent = @ \cup {n}]
           choked == [hit.ns EXCEPT ![n].choked = TRUE, ![n].write_waiting = TRUE]
           failed == nameserver_failed(hit, n)
<1>1. DOMAIN b = Fields /\ ReqsOk(b) /\ DOMAIN b.req[r] = ReqFields
  BY DEF Ring, Well, ReqsOk
<1>2. DOMAIN q = ReqFields /\ q.ns = b.req[r].ns
  BY <1>1 DEF ReqFields
<1>3. m = [b EXCEPT !.req[r] = q]
  BY <1>1
<1> HIDE DEF q
<1>4. Quiet(m, b)
  BY <1>2, <1>3, ReqSet
<1> HIDE DEF m
<1>5. Ring(m) /\ (r \in Handle => In(r, m.inflight))
  BY <1>4, QuietRing DEF Quiet, SameLists
<1>6. Quiet(hit, b)
  BY <1>4, <1>5, ServerSet, QuietAgain
<1>7. Quiet([m EXCEPT !.null = TRUE], b)
  BY <1>4, <1>5, ServerSet, QuietAgain
<1> HIDE DEF hit
<1>8. Ring(hit) /\ (r \in Handle => In(r, hit.inflight))
  BY <1>6, QuietRing DEF Quiet, SameLists
<1>9. Quiet([hit EXCEPT !.ns[n].choked = TRUE, !.ns[n].write_waiting = TRUE], b)
  <2>1. DOMAIN hit = Fields
    BY <1>6 DEF Quiet
  <2>2. [hit EXCEPT !.ns[n].choked = TRUE, !.ns[n].write_waiting = TRUE] = [hit EXCEPT !.ns = choked]
    BY <2>1 DEF Fields
  <2> HIDE DEF choked
  <2> QED  BY <2>2, <1>6, <1>8, ServerSet, QuietAgain
<1>10. Quiet(sent, b)
  BY <1>4, <1>5, SentKeeps, QuietAgain
<1> HIDE DEF sent
<1>11. Quiet([sent EXCEPT !.req[r].sent = @ \cup {n}], b)
  <2>1. Ring(sent) /\ (r \in Handle => In(r, sent.inflight)) /\ DOMAIN sent.req[r] = ReqFields
    BY <1>10, QuietRing DEF Quiet, SameLists, ReqsOk
  <2>2. DOMAIN done = ReqFields /\ done.ns = sent.req[r].ns
    BY <2>1 DEF ReqFields
  <2>3. [sent EXCEPT !.req[r].sent = @ \cup {n}] = [sent EXCEPT !.req[r] = done]
    OBVIOUS
  <2> HIDE DEF done
  <2> QED  BY <2>1, <2>2, <2>3, <1>10, ReqSet, QuietAgain
<1>12. Quiet(Sent(failed, r), b)
  <2>1. Quiet(failed, b)
    BY <1>6, <1>8, FailedKeeps, QuietAgain
  <2> HIDE DEF failed
  <2>2. Ring(failed) /\ (r \in Handle => In(r, failed.inflight))
    BY <2>1, QuietRing DEF Quiet, SameLists
  <2> QED  BY <2>1, <2>2, SentKeeps, QuietAgain
<1> DEFINE x == evdns_request_transmit(b, r, c)
           y1 == [m EXCEPT !.null = TRUE]
           y2 == [hit EXCEPT !.ns[n].choked = TRUE, !.ns[n].write_waiting = TRUE]
           y3 == Sent(failed, r)
           y4 == [sent EXCEPT !.req[r].sent = @ \cup {n}]
<1>13. x = IF n = NoNs THEN y1
           ELSE IF b.ns[n].choked THEN m
           ELSE IF c.ns = n /\ c.how = "again" THEN y2
           ELSE IF c.ns = n THEN y3 ELSE y4
  BY DEF evdns_request_transmit, m, hit, sent, failed
<1>14. Quiet(y2, b)
  BY <1>9
<1> HIDE DEF x, y1, y2, y3, y4
<1>15. Quiet(y1, b) /\ Quiet(y3, b) /\ Quiet(y4, b)
  BY <1>7, <1>11, <1>12 DEF y1, y3, y4
<1> QED  BY <1>4, <1>13, <1>14, <1>15 DEF x

\* evdns_transmit leaves the lists alone.
LEMMA TransmitKeeps ==
  ASSUME NEW z, Ring(z), NEW c
  PROVE  Quiet(evdns_transmit(z, c), z)
<1> DEFINE q == z.inflight
           Op(x, r) == IF x.req[r].transmit_me THEN evdns_request_transmit(x, r, c) ELSE x
           each[i \in 0 .. Len(q)] == IF i = 0 THEN z ELSE Op(each[i - 1], q[i])
           At(g, i) == IF i = 0 THEN z ELSE Op(g[i - 1], q[i])
<1>1. evdns_transmit(z, c) = each[Len(q)]
  BY DEF Each, evdns_transmit
<1>2. q \in Seq(Req) /\ Len(q) \in Nat /\ \A k \in 1 .. Len(q) : q[k] \in Req /\ In(q[k], q)
  BY ElementsInRange DEF Ring, Well, In
<1>3. each = [i \in 0 .. Len(q) |-> At(each, i)]
  <2>1. \E g : States(g, "send", z, q, 0, c, 0)
    BY <1>2, EachExists
  <2>2. \E g : g = [i \in 0 .. Len(q) |-> At(g, i)]
    BY <2>1 DEF States, Apply, Send
  <2> QED  BY <2>2
<1> HIDE DEF each
<1>4. \A k \in 0 .. Len(q) : each[k] = At(each, k)
  BY <1>3
<1>5. each[0] = z /\ \A k \in 1 .. Len(q) : each[k] = Op(each[k - 1], q[k])
  BY <1>2, <1>4
<1>6. \A k \in 1 .. Len(q) : Quiet(each[k - 1], z) => Quiet(each[k], z)
  <2> SUFFICES ASSUME NEW k \in 1 .. Len(q), Quiet(each[k - 1], z)
               PROVE  Quiet(each[k], z)
    OBVIOUS
  <2>1. Ring(each[k - 1]) /\ In(q[k], each[k - 1].inflight)
    BY <1>2, QuietRing DEF Quiet, SameLists
  <2>2. Quiet(evdns_request_transmit(each[k - 1], q[k], c), z)
    BY <1>2, <2>1, RequestTransmitKeeps, QuietAgain
  <2> QED  BY <1>5, <2>2
<1>7. Quiet(each[Len(q)], z)
  <2> HIDE DEF Op, q
  <2> QED  BY <1>2, <1>5, <1>6, QuietItself, EachQuiet
<1> QED  BY <1>1, <1>7

\* A step after which there is as much of every call as before; a request in
\* flight stays so, unless it is one of R.
Goes(x, b, R) ==
  /\ Ring(x) /\ x.alive = b.alive
  /\ \A h \in Handle : Tot(x, h) = Tot(b, h) /\ (Live(x, h) => Live(b, h))
  /\ \A h \in Handle \ R : In(h, b.inflight) => In(h, x.inflight)

\* The lists are as they were.
LEMMA QuietGoes ==
  ASSUME NEW b, Ring(b), NEW x, Quiet(x, b), NEW R
  PROVE  Goes(x, b, R)
BY QuietRing DEF Goes, Quiet, SameLists, Tot, Live

\* Nothing happens.
LEMMA GoesItself ==
  ASSUME NEW b, Ring(b), NEW R
  PROVE  Goes(b, b, R)
BY DEF Goes

\* One step after another.
LEMMA GoesAgain ==
  ASSUME NEW b, NEW x, NEW y, NEW R, Goes(x, b, R), Goes(y, x, R)
  PROVE  Goes(y, b, R)
BY DEF Goes

\* What each step keeps, all of them keep.
LEMMA EachGoes ==
  ASSUME NEW n \in Nat, NEW g, NEW b, NEW R, Goes(g[0], b, R),
         \A k \in 1 .. n : Goes(g[k - 1], b, R) => Goes(g[k], b, R)
  PROVE  Goes(g[n], b, R)
<1> DEFINE P == {k \in Nat : k <= n => Goes(g[k], b, R)}
<1>1. 0 \in P
  OBVIOUS
<1>2. ASSUME NEW k \in Nat, k \in P
      PROVE  k + 1 \in P
  <2> SUFFICES ASSUME k + 1 <= n
               PROVE  Goes(g[k + 1], b, R)
    OBVIOUS
  <2>1. k + 1 \in 1 .. n /\ (k + 1) - 1 = k /\ k <= n
    OBVIOUS
  <2>2. Goes(g[k], b, R)
    BY <1>2, <2>1
  <2> QED  BY <2>1, <2>2
<1>3. Nat \subseteq P
  <2> HIDE DEF P
  <2> QED  BY <1>1, <1>2, NaturalInduction
<1> QED  BY <1>3

\* The numbers of a base.
LEMMA Numbers ==
  ASSUME NEW b, Well(b), NEW h
  PROVE  /\ Occ(b.inflight, h) \in Nat /\ Occ(b.waiting, h) \in Nat
         /\ Occ(Owners(b.deferred), h) \in Nat /\ Tot(b, h) \in Nat
         /\ Owners(b.deferred) \in Seq(Req)
         /\ Len(b.waiting) \in Nat /\ Len(b.inflight) \in Nat
         /\ Occ(b.inflight, h) = 0 <=> ~In(h, b.inflight)
         /\ Occ(b.waiting, h) = 0 <=> ~In(h, b.waiting)
<1>1. b.inflight \in Seq(Req) /\ b.waiting \in Seq(Req) /\ b.deferred \in Seq(Due)
  BY DEF Well
<1>2. Owners(b.deferred) \in Seq(Req)
  BY <1>1 DEF Owners, Due
<1>3. Len(b.waiting) \in Nat /\ Len(b.inflight) \in Nat
  BY <1>1
<1> QED  BY <1>1, <1>2, <1>3, OccRange DEF Tot

\* The first waiting request is given a server, and is in flight.
LEMMA PromotedRing ==
  ASSUME NEW x, Ring(x), x.nwait > 0, NEW y, NEW z, NEW t \in Seq(NS), t # <<>>, NEW q,
         y = [x EXCEPT !.waiting = Tail(@), !.nwait = @ - 1, !.nin = @ + 1],
         DOMAIN q = ReqFields, q.ns \in NS, DOMAIN z = Fields,
         z.ring = t, z.req = [x.req EXCEPT ![Head(x.waiting)] = q],
         z.inflight = Append(x.inflight, Head(x.waiting)), z.waiting = Tail(x.waiting),
         z.deferred = x.deferred, z.alive = x.alive, z.nwait = x.nwait - 1, z.max = x.max
  PROVE  Goes(z, x, {}) /\ In(Head(x.waiting), z.inflight) /\ Head(x.waiting) \in Req
<1> DEFINE r == Head(x.waiting)
<1>1. x.waiting \in Seq(Req) /\ x.inflight \in Seq(Req) /\ x.waiting # <<>>
  BY DEF Ring, Well
<1>2. /\ r \in Req /\ z.waiting \in Seq(Req) /\ z.inflight \in Seq(Req)
      /\ Len(z.waiting) = Len(x.waiting) - 1
  BY <1>1
<1>3. \A h : /\ Occ(z.inflight, h) = Occ(x.inflight, h) + IF h = r THEN 1 ELSE 0
             /\ Occ(x.waiting, h) = Occ(z.waiting, h) + IF h = r THEN 1 ELSE 0
             /\ Occ(z.inflight, h) \in Nat /\ Occ(z.waiting, h) \in Nat
             /\ Occ(z.inflight, h) = 0 <=> ~In(h, z.inflight)
  <2> SUFFICES ASSUME NEW h
               PROVE  /\ Occ(z.inflight, h) = Occ(x.inflight, h) + IF h = r THEN 1 ELSE 0
                      /\ Occ(x.waiting, h) = Occ(z.waiting, h) + IF h = r THEN 1 ELSE 0
                      /\ Occ(z.inflight, h) \in Nat /\ Occ(z.waiting, h) \in Nat
                      /\ Occ(z.inflight, h) = 0 <=> ~In(h, z.inflight)
    OBVIOUS
  <2>1. Occ(z.inflight, h) = Occ(x.inflight, h) + IF h = r THEN 1 ELSE 0
    BY <1>1, <1>2, OccAppend
  <2>2. Occ(x.waiting, h) = Occ(z.waiting, h) + IF h = r THEN 1 ELSE 0
    BY <1>1, <1>2, OccTail
  <2>3. /\ Occ(z.inflight, h) \in Nat /\ Occ(z.waiting, h) \in Nat
        /\ Occ(z.inflight, h) = 0 <=> ~In(h, z.inflight)
    BY <1>2, OccRange
  <2> QED  BY <2>1, <2>2, <2>3
<1>4. \A h : /\ Occ(x.inflight, h) \in Nat /\ Occ(x.waiting, h) \in Nat
             /\ Occ(x.inflight, h) = 0 <=> ~In(h, x.inflight)
             /\ Occ(Owners(x.deferred), h) \in Nat
  BY Numbers DEF Ring
<1> HIDE DEF r
<1>5. ReqsOk(z) /\ z.req[r] = q /\ \A s \in Req \ {r} : z.req[s] = x.req[s]
  BY <1>2 DEF Ring, Well, ReqsOk, r
<1>6. \A h \in Handle : In(h, x.inflight) => In(h, z.inflight)
  BY <1>3, <1>4
<1>7. In(r, z.inflight)
  BY <1>3, <1>4
<1>8. \A h \in Handle : HandleOk(z, h)
  <2> SUFFICES ASSUME NEW h \in Handle
               PROVE  HandleOk(z, h)
    OBVIOUS
  <2>1. HandleOk(x, h) /\ h \in Req
    BY DEF Ring, Well, Req
  <2>2. Occ(z.inflight, h) + Occ(z.waiting, h) <= 1
    BY <1>3, <1>4, <2>1 DEF HandleOk
  <2>3. CASE h = r
    BY <1>5, <1>7, <2>2, <2>3 DEF HandleOk
  <2>4. CASE h # r
    <3>1. In(h, z.inflight) <=> In(h, x.inflight)
      BY <1>3, <1>4, <2>4
    <3> QED  BY <1>5, <2>1, <2>2, <2>4, <3>1 DEF HandleOk
  <2> QED  BY <2>3, <2>4
<1>9. Well(z) /\ z.ring # <<>>
  <2>1. z.nwait \in Int /\ z.nwait <= Len(z.waiting)
    <3>1. x.nwait \in Int /\ x.nwait <= Len(x.waiting) /\ Len(x.waiting) \in Nat
      BY <1>1 DEF Ring, Well
    <3> QED  BY <1>2, <3>1
  <2> QED  BY <1>2, <1>5, <1>8, <2>1 DEF Ring, Well
<1>10. \A h \in Handle : Tot(z, h) = Tot(x, h)
  <2> SUFFICES ASSUME NEW h \in Handle
               PROVE  Tot(z, h) = Tot(x, h)
    OBVIOUS
  <2>1. /\ Occ(z.inflight, h) = Occ(x.inflight, h) + IF h = r THEN 1 ELSE 0
        /\ Occ(x.waiting, h) = Occ(z.waiting, h) + IF h = r THEN 1 ELSE 0
        /\ Occ(z.waiting, h) \in Nat
    BY <1>3
  <2>2. Occ(x.inflight, h) \in Nat /\ Occ(Owners(x.deferred), h) \in Nat
    BY <1>4
  <2> QED  BY <2>1, <2>2 DEF Tot
<1>11. \A h \in Handle : Live(z, h) => Live(x, h)
  <2> SUFFICES ASSUME NEW h \in Handle, ~Live(x, h)
               PROVE  ~Live(z, h)
    OBVIOUS
  <2>1. /\ Occ(x.inflight, h) = 0 /\ Occ(x.waiting, h) = 0
        /\ Occ(z.waiting, h) = 0 <=> ~In(h, z.waiting)
    BY <1>1, <1>2, OccRange DEF Live
  <2>2. /\ Occ(z.inflight, h) = Occ(x.inflight, h) + IF h = r THEN 1 ELSE 0
        /\ Occ(x.waiting, h) = Occ(z.waiting, h) + IF h = r THEN 1 ELSE 0
        /\ Occ(z.inflight, h) \in Nat /\ Occ(z.waiting, h) \in Nat
        /\ Occ(z.inflight, h) = 0 <=> ~In(h, z.inflight)
    BY <1>3
  <2>3. h # r
    BY <2>1, <2>2
  <2> QED  BY <2>1, <2>2, <2>3 DEF Live
<1> QED  BY <1>2, <1>6, <1>7, <1>9, <1>10, <1>11 DEF Goes, Ring, r

\* One turn of the loop of evdns_requests_pump_waiting_queue.
LEMMA PromoteKeeps ==
  ASSUME NEW x, Ring(x), NEW c
  PROVE  Goes(Promote(x, c), x, {})
<1> DEFINE r == Head(x.waiting)
           y == [x EXCEPT !.waiting = Tail(@), !.nwait = @ - 1, !.nin = @ + 1]
           a == Assign(y, r)
           z == [a EXCEPT !.req[r].id = transaction_id_pick(a, c), !.inflight = Append(@, r)]
           s == evdns_request_transmit(z, r, c)
           e == evdns_transmit(s, c)
<1>1. Promote(x, c) = IF x.nin < x.max /\ x.nwait > 0 /\ ~x.null THEN e ELSE x
  BY DEF Promote
<1>2. CASE ~(x.nwait > 0)
  BY <1>1, <1>2, GoesItself
<1>3. CASE x.nwait > 0
  <2>1. DOMAIN x = Fields /\ ReqsOk(x) /\ x.waiting \in Seq(Req) /\ x.waiting # <<>> /\ r \in Req
    <3>1. DOMAIN x = Fields /\ ReqsOk(x) /\ x.waiting \in Seq(Req) /\ x.waiting # <<>>
      BY <1>3 DEF Ring, Well
    <3> QED  BY <3>1
  <2>2. Ring(y)
    <3>1. /\ DOMAIN y = Fields /\ y.req = x.req /\ y.inflight = x.inflight
          /\ y.waiting = Tail(x.waiting) /\ y.ring = x.ring /\ y.deferred = x.deferred
          /\ y.max = x.max /\ y.nwait = x.nwait - 1
      BY <2>1 DEF Fields
    <3>2. y.waiting \in Seq(Req) /\ Len(y.waiting) = Len(x.waiting) - 1
      BY <2>1, <3>1
    <3>3. \A h : /\ Occ(x.waiting, h) = Occ(y.waiting, h) + IF h = r THEN 1 ELSE 0
                 /\ Occ(x.inflight, h) \in Nat /\ Occ(y.waiting, h) \in Nat
      <4> SUFFICES ASSUME NEW h
                   PROVE  /\ Occ(x.waiting, h) = Occ(y.waiting, h) + IF h = r THEN 1 ELSE 0
                          /\ Occ(x.inflight, h) \in Nat /\ Occ(y.waiting, h) \in Nat
        OBVIOUS
      <4> HIDE DEF y
      <4>1. Occ(x.waiting, h) = Occ(y.waiting, h) + IF h = r THEN 1 ELSE 0
        BY <2>1, <3>1, OccTail
      <4>2. Occ(x.inflight, h) \in Nat /\ Occ(y.waiting, h) \in Nat
        BY <3>2, OccRange, Numbers DEF Ring
      <4> QED  BY <4>1, <4>2
    <3> HIDE DEF y, r
    <3>4. \A h \in Handle : HandleOk(y, h)
      <4> SUFFICES ASSUME NEW h \in Handle
                   PROVE  HandleOk(y, h)
        OBVIOUS
      <4>1. HandleOk(x, h)
        BY DEF Ring, Well
      <4> QED  BY <3>1, <3>3, <4>1 DEF HandleOk
    <3>5. y.nwait \in Int /\ y.nwait <= Len(y.waiting)
      <4>1. x.nwait \in Int /\ x.nwait <= Len(x.waiting) /\ Len(x.waiting) \in Nat
        BY DEF Ring, Well
      <4> QED  BY <3>1, <3>2, <4>1
    <3> QED  BY <3>1, <3>2, <3>4, <3>5 DEF Ring, Well, ReqsOk
  <2>3. PICK t \in Seq(NS), n \in NS :
           t # <<>> /\ a = [[y EXCEPT !.ring = t] EXCEPT !.req[r].ns = n]
    <3> HIDE DEF y
    <3> QED  BY <2>2, AssignFacts
  <2> HIDE DEF a
  <2> DEFINE i == transaction_id_pick(a, c)
             q == [[x.req[r] EXCEPT !.ns = n] EXCEPT !.id = i]
  <2>4. DOMAIN q = ReqFields /\ q.ns = n
    BY <2>1 DEF ReqsOk, ReqFields
  <2>5. /\ DOMAIN z = Fields /\ z.ring = t
        /\ z.req = [x.req EXCEPT ![r] = q]
        /\ z.inflight = Append(x.inflight, r) /\ z.waiting = Tail(x.waiting)
        /\ z.deferred = x.deferred /\ z.alive = x.alive
        /\ z.nwait = x.nwait - 1 /\ z.max = x.max
    <3> HIDE DEF i
    <3>1. /\ DOMAIN a = Fields /\ a.ring = t /\ a.req = [x.req EXCEPT ![r].ns = n]
          /\ a.inflight = x.inflight /\ a.waiting = Tail(x.waiting)
          /\ a.deferred = x.deferred /\ a.alive = x.alive
          /\ a.nwait = x.nwait - 1 /\ a.max = x.max
      BY <2>1, <2>3 DEF Fields
    <3>2. z = [a EXCEPT !.req[r].id = i, !.inflight = Append(@, r)]
      BY DEF i
    <3> HIDE DEF z
    <3>3. /\ DOMAIN z = Fields /\ z.ring = t /\ z.req = [a.req EXCEPT ![r].id = i]
          /\ z.inflight = Append(x.inflight, r) /\ z.waiting = Tail(x.waiting)
          /\ z.deferred = x.deferred /\ z.alive = x.alive
          /\ z.nwait = x.nwait - 1 /\ z.max = x.max
      BY <3>1, <3>2 DEF Fields
    <3>4. z.req = [x.req EXCEPT ![r] = q]
      <4>1. DOMAIN x.req = Req
        BY <2>1 DEF ReqsOk
      <4> QED  BY <2>1, <3>1, <3>3, <4>1
    <3> QED  BY <3>3, <3>4
  <2> HIDE DEF z, q
  <2>6. Goes(z, x, {}) /\ In(r, z.inflight)
    BY <1>3, <2>3, <2>4, <2>5, PromotedRing
  <2> HIDE DEF r
  <2>7. Quiet(s, z)
    BY <2>1, <2>6, RequestTransmitKeeps DEF Goes
  <2> HIDE DEF s
  <2>8. Quiet(e, s)
    BY <2>6, <2>7, QuietRing, TransmitKeeps DEF Goes
  <2> HIDE DEF e
  <2>9. Goes(e, x, {})
    <3>1. Ring(z) /\ Quiet(e, z)
      BY <2>6, <2>7, <2>8, QuietAgain DEF Goes
    <3>2. Goes(e, z, {})
      BY <3>1, QuietGoes
    <3> QED  BY <2>6, <3>2, GoesAgain
  <2> QED  BY <1>1, <2>9, GoesItself
<1> QED  BY <1>2, <1>3

\* evdns_requests_pump_waiting_queue loses no request and doubles none.
LEMMA PumpKeeps ==
  ASSUME NEW z, Ring(z), NEW c
  PROVE  Goes(evdns_requests_pump_waiting_queue(z, c), z, {})
<1> DEFINE q == z.waiting
           each[i \in 0 .. Len(q)] == IF i = 0 THEN z ELSE Promote(each[i - 1], c)
           At(g, i) == IF i = 0 THEN z ELSE Promote(g[i - 1], c)
<1>1. evdns_requests_pump_waiting_queue(z, c) = each[Len(q)]
  BY DEF Each, evdns_requests_pump_waiting_queue, Promote
<1>2. q \in Seq(Req) /\ Len(q) \in Nat
  BY DEF Ring, Well
<1>3. each = [i \in 0 .. Len(q) |-> At(each, i)]
  <2>1. \E g : States(g, "promote", z, q, 0, c, 0)
    BY <1>2, EachExists
  <2>2. \E g : g = [i \in 0 .. Len(q) |-> At(g, i)]
    BY <2>1 DEF States, Apply
  <2> QED  BY <2>2
<1> HIDE DEF each
<1>4. \A k \in 0 .. Len(q) : each[k] = At(each, k)
  BY <1>3
<1>5. each[0] = z /\ \A k \in 1 .. Len(q) : each[k] = Promote(each[k - 1], c)
  BY <1>2, <1>4
<1>6. \A k \in 1 .. Len(q) : Goes(each[k - 1], z, {}) => Goes(each[k], z, {})
  BY <1>5, PromoteKeeps, GoesAgain DEF Goes
<1>7. Goes(each[Len(q)], z, {})
  <2> HIDE DEF q
  <2> QED  BY <1>2, <1>5, <1>6, GoesItself, EachGoes
<1> QED  BY <1>1, <1>7

\* Nothing goes out when a server was missing.
LEMMA PumpStops ==
  ASSUME NEW z, Len(z.waiting) \in Nat, z.null, NEW c
  PROVE  evdns_requests_pump_waiting_queue(z, c) = z
<1> DEFINE q == z.waiting
           each[i \in 0 .. Len(q)] == IF i = 0 THEN z ELSE Promote(each[i - 1], c)
           At(g, i) == IF i = 0 THEN z ELSE Promote(g[i - 1], c)
           P == {k \in Nat : k <= Len(q) => each[k] = z}
<1>1. evdns_requests_pump_waiting_queue(z, c) = each[Len(q)]
  BY DEF Each, evdns_requests_pump_waiting_queue, Promote
<1>3. each = [i \in 0 .. Len(q) |-> At(each, i)]
  <2>1. \E g : States(g, "promote", z, q, 0, c, 0)
    BY EachExists
  <2>2. \E g : g = [i \in 0 .. Len(q) |-> At(g, i)]
    BY <2>1 DEF States, Apply
  <2> QED  BY <2>2
<1> HIDE DEF each
<1>4. \A k \in 0 .. Len(q) : each[k] = At(each, k)
  BY <1>3
<1>5. each[0] = z /\ \A k \in 1 .. Len(q) : each[k] = Promote(each[k - 1], c)
  BY <1>4
<1>6. Promote(z, c) = z
  BY DEF Promote
<1>7. \A k \in Nat : k \in P => k + 1 \in P
  <2> SUFFICES ASSUME NEW k \in Nat, k \in P, k + 1 <= Len(q)
               PROVE  each[k + 1] = z
    OBVIOUS
  <2>1. k + 1 \in 1 .. Len(q) /\ (k + 1) - 1 = k /\ k <= Len(q)
    OBVIOUS
  <2> QED  BY <1>5, <1>6, <2>1
<1>8. Nat \subseteq P
  <2>1. 0 \in P
    BY <1>5
  <2> HIDE DEF P
  <2> QED  BY <1>7, <2>1, NaturalInduction
<1> QED  BY <1>1, <1>8

Counts(h, r) == IF h = r THEN 1 ELSE 0

\* Without servers, nothing goes out: the first request that would is noticed.
LEMMA PromoteDry ==
  ASSUME NEW x, Well(x), x.ring = <<>>, x.inflight = <<>>, NEW c
  PROVE  LET y == Promote(x, c)
         IN  y = x \/ (y.null /\ DOMAIN y = Fields /\ y.waiting \in Seq(Req))
<1> DEFINE r == Head(x.waiting)
           y == [x EXCEPT !.waiting = Tail(@), !.nwait = @ - 1, !.nin = @ + 1]
           a == Assign(y, r)
           z == [a EXCEPT !.req[r].id = transaction_id_pick(a, c), !.inflight = Append(@, r)]
           s == evdns_request_transmit(z, r, c)
           e == evdns_transmit(s, c)
<1>1. Promote(x, c) = IF x.nin < x.max /\ x.nwait > 0 /\ ~x.null THEN e ELSE x
  BY DEF Promote
<1>2. CASE ~(x.nwait > 0)
  BY <1>1, <1>2
<1>3. CASE x.nwait > 0
  <2>1. DOMAIN x = Fields /\ ReqsOk(x) /\ x.waiting \in Seq(Req) /\ x.waiting # <<>> /\ r \in Req
    <3>1. DOMAIN x = Fields /\ ReqsOk(x) /\ x.waiting \in Seq(Req) /\ x.waiting # <<>>
      BY <1>3 DEF Well
    <3> QED  BY <3>1
  <2>2. /\ DOMAIN y = Fields /\ y.req = x.req /\ y.inflight = <<>>
        /\ y.waiting = Tail(x.waiting) /\ y.ring = <<>>
    BY <2>1 DEF Fields
  <2> HIDE DEF y
  <2>3. a = [y EXCEPT !.req[r].ns = NoNs]
    <3>1. nameserver_pick(y) = [b |-> y, ns |-> NoNs]
      BY <2>2 DEF nameserver_pick
    <3>2. nameserver_pick(y).b = y /\ nameserver_pick(y).ns = NoNs
      BY <3>1
    <3> QED  BY <3>2 DEF Assign
  <2>4. /\ DOMAIN a = Fields /\ a.req = [x.req EXCEPT ![r].ns = NoNs] /\ a.inflight = <<>>
        /\ a.waiting = Tail(x.waiting)
    BY <2>2, <2>3 DEF Fields
  <2> HIDE DEF a
  <2> DEFINE i == transaction_id_pick(a, c)
             q == [[x.req[r] EXCEPT !.ns = NoNs] EXCEPT !.id = i]
  <2>5. /\ DOMAIN z = Fields /\ z.req[r].ns = NoNs /\ z.inflight = <<r>>
        /\ z.waiting = Tail(x.waiting) /\ DOMAIN z.req = Req
        /\ DOMAIN z.req[r] = ReqFields
    <3> HIDE DEF i
    <3>1. z = [a EXCEPT !.req[r].id = i, !.inflight = Append(@, r)]
      BY DEF i
    <3>2. DOMAIN x.req = Req /\ DOMAIN x.req[r] = ReqFields
      BY <2>1 DEF ReqsOk
    <3>3. DOMAIN a.req = Req /\ DOMAIN a.req[r] = ReqFields /\ a.req[r].ns = NoNs
      BY <2>1, <2>4, <3>2 DEF ReqFields
    <3>4. /\ DOMAIN z = Fields /\ z.req = [a.req EXCEPT ![r].id = i]
          /\ z.inflight = Append(<<>>, r) /\ z.waiting = Tail(x.waiting)
      BY <2>4, <3>1 DEF Fields
    <3> HIDE DEF z
    <3>5. Append(<<>>, r) = <<r>>
      OBVIOUS
    <3> QED  BY <2>1, <3>3, <3>4, <3>5 DEF ReqFields
  <2> HIDE DEF z
  <2> DEFINE Transmit(b) == evdns_request_transmit(b, r, c)
  <2>6. ASSUME NEW b, DOMAIN b = Fields, DOMAIN b.req = Req, DOMAIN b.req[r] = ReqFields,
               b.req[r].ns = NoNs
        PROVE  LET t == Transmit(b)
               IN  /\ DOMAIN t = Fields /\ t.null /\ t.inflight = b.inflight
                   /\ t.waiting = b.waiting /\ t.req[r].ns = NoNs
                   /\ DOMAIN t.req = Req /\ DOMAIN t.req[r] = ReqFields
    <3> DEFINE v == [b.req[r] EXCEPT !.transmit_me = TRUE]
               m == [b EXCEPT !.req = [b.req EXCEPT ![r] = v]]
               t == [m EXCEPT !.null = TRUE]
    <3>1. DOMAIN v = ReqFields /\ v.ns = NoNs
      BY <2>6 DEF ReqFields
    <3>2. Transmit(b) = t
      BY <2>6 DEF evdns_request_transmit
    <3> HIDE DEF v, Transmit
    <3>3. /\ DOMAIN t = Fields /\ t.null /\ t.inflight = b.inflight
          /\ t.waiting = b.waiting /\ t.req = [b.req EXCEPT ![r] = v]
      BY <2>6 DEF Fields
    <3> HIDE DEF t
    <3> QED  BY <2>1, <2>6, <3>1, <3>2, <3>3
  <2>7. /\ DOMAIN s = Fields /\ s.null /\ s.inflight = <<r>> /\ s.waiting = Tail(x.waiting)
        /\ s.req[r].ns = NoNs /\ DOMAIN s.req = Req /\ DOMAIN s.req[r] = ReqFields
    BY <2>5, <2>6
  <2> HIDE DEF s
  <2>8. e = Send(s, r, c)
    <3> DEFINE l == <<r>>
               each[k \in 0 .. Len(l)] == IF k = 0 THEN s ELSE Send(each[k - 1], l[k], c)
               At(g, k) == IF k = 0 THEN s ELSE Send(g[k - 1], l[k], c)
    <3>1. e = each[Len(l)]
      BY <2>7 DEF Each, evdns_transmit, Send
    <3>2. Len(l) = 1 /\ l[1] = r
      OBVIOUS
    <3>3. each = [k \in 0 .. Len(l) |-> At(each, k)]
      <4>1. \E g : States(g, "send", s, l, 0, c, 0)
        BY <3>2, EachExists
      <4>2. \E g : g = [k \in 0 .. Len(l) |-> At(g, k)]
        BY <4>1 DEF States, Apply
      <4> QED  BY <4>2
    <3> HIDE DEF each, l
    <3>4. \A k \in 0 .. Len(l) : each[k] = At(each, k)
      BY <3>3
    <3>5. each[0] = s /\ each[1] = Send(each[0], l[1], c)
      BY <3>2, <3>4
    <3> QED  BY <3>1, <3>2, <3>5
  <2>9. e.null /\ DOMAIN e = Fields /\ e.waiting \in Seq(Req)
    <3>1. Tail(x.waiting) \in Seq(Req)
      BY <2>1
    <3>2. LET t == Transmit(s)
          IN  DOMAIN t = Fields /\ t.null /\ t.waiting = s.waiting
      BY <2>6, <2>7
    <3> HIDE DEF e
    <3> QED  BY <2>7, <2>8, <3>1, <3>2 DEF Send
  <2> HIDE DEF e
  <2> QED  BY <1>1, <2>9
<1> QED  BY <1>2, <1>3

\* A base that a missing server was noticed in.
Stopped(x) == x.null /\ DOMAIN x = Fields /\ x.waiting \in Seq(Req)

\* evdns_requests_pump_waiting_queue without servers: nothing moves, or the
\* missing server is noticed.
LEMMA PumpDry ==
  ASSUME NEW z, Well(z), z.ring = <<>>, z.inflight = <<>>, NEW c
  PROVE  \/ evdns_requests_pump_waiting_queue(z, c) = z
         \/ Stopped(evdns_requests_pump_waiting_queue(z, c))
<1> DEFINE q == z.waiting
           each[i \in 0 .. Len(q)] == IF i = 0 THEN z ELSE Promote(each[i - 1], c)
           At(g, i) == IF i = 0 THEN z ELSE Promote(g[i - 1], c)
           P == {k \in Nat : k <= Len(q) => each[k] = z \/ Stopped(each[k])}
<1>1. evdns_requests_pump_waiting_queue(z, c) = each[Len(q)]
  BY DEF Each, evdns_requests_pump_waiting_queue, Promote
<1>2. Len(q) \in Nat
  BY DEF Well
<1>3. each = [i \in 0 .. Len(q) |-> At(each, i)]
  <2>1. \E g : States(g, "promote", z, q, 0, c, 0)
    BY <1>2, EachExists
  <2>2. \E g : g = [i \in 0 .. Len(q) |-> At(g, i)]
    BY <2>1 DEF States, Apply
  <2> QED  BY <2>2
<1> HIDE DEF each
<1>4. \A k \in 0 .. Len(q) : each[k] = At(each, k)
  BY <1>3
<1>5. each[0] = z /\ \A k \in 1 .. Len(q) : each[k] = Promote(each[k - 1], c)
  BY <1>2, <1>4
<1>6. \A x : Stopped(x) => Promote(x, c) = x
  BY DEF Promote, Stopped
<1>7. Promote(z, c) = z \/ Stopped(Promote(z, c))
  BY PromoteDry DEF Stopped
<1>8. \A k \in Nat : k \in P => k + 1 \in P
  <2> SUFFICES ASSUME NEW k \in Nat, k \in P, k + 1 <= Len(q)
               PROVE  each[k + 1] = z \/ Stopped(each[k + 1])
    OBVIOUS
  <2>1. k + 1 \in 1 .. Len(q) /\ (k + 1) - 1 = k /\ k <= Len(q)
    BY <1>2
  <2> QED  BY <1>5, <1>6, <1>7, <2>1
<1>9. Nat \subseteq P
  <2>1. 0 \in P
    BY <1>5
  <2> HIDE DEF P
  <2> QED  BY <1>8, <2>1, NaturalInduction
<1> QED  BY <1>1, <1>2, <1>9

List(b, list) == IF list = "inflight" THEN b.inflight ELSE b.waiting
Lists == {"inflight", "waiting"}

\* The base without the request r, before the next one goes out.
Removed(b, r, list) ==
  LET x == IF list = "inflight"
             THEN [b EXCEPT !.inflight = RemoveFirst(@, r), !.nin = @ - 1]
             ELSE [b EXCEPT !.waiting = RemoveFirst(@, r), !.nwait = @ - 1]
  IN  [x EXCEPT !.req[r] = NoReq]
SearchOver(b, r) == [b EXCEPT !.search = @ \ {r}, !.index[r] = -1]

\* request_finished and the end of a search, in these terms.
LEMMA FinishedIs ==
  ASSUME NEW b, NEW r, NEW list, NEW c
  PROVE  /\ request_finished(b, r, list, c)
              = evdns_requests_pump_waiting_queue(Removed(b, r, list), c)
         /\ FreeHandle(b, r, list, c) = request_finished(SearchOver(b, r), r, list, c)
BY DEF FreeHandle, request_finished, Removed, SearchOver

\* The end of a search touches no list.
LEMMA SearchOverWell ==
  ASSUME NEW b, Well(b), NEW r, NEW x, x = SearchOver(b, r)
  PROVE  /\ Well(x) /\ SameLists(x, b) /\ x.ring = b.ring /\ x.req = b.req
         /\ x.ns = b.ns /\ x.null = b.null
<1> DEFINE s == b.search \ {r}
           i == [b.index EXCEPT ![r] = -1]
<1>1. DOMAIN b = Fields
  BY DEF Well
<1>2. x = [b EXCEPT !.search = s, !.index = i]
  BY <1>1 DEF SearchOver, Fields
<1> HIDE DEF s, i
<1>3. /\ DOMAIN x = Fields /\ SameLists(x, b) /\ x.ring = b.ring /\ x.req = b.req
      /\ x.ns = b.ns /\ x.null = b.null
  BY <1>1, <1>2 DEF Fields, SameLists
<1>4. Well(x)
  BY <1>3 DEF Well, ReqsOk, HandleOk, SameLists
<1> QED  BY <1>3, <1>4

\* The fields of that base.
RemovedFrom(x, b, r, list) ==
  /\ DOMAIN x = Fields /\ x.req = [b.req EXCEPT ![r] = NoReq]
  /\ list = "inflight" => x.inflight = RemoveFirst(b.inflight, r) /\ x.waiting = b.waiting
                            /\ x.nwait = b.nwait
  /\ list = "waiting" => x.waiting = RemoveFirst(b.waiting, r) /\ x.inflight = b.inflight
                           /\ x.nwait = b.nwait - 1
  /\ x.ring = b.ring /\ x.deferred = b.deferred /\ x.alive = b.alive /\ x.max = b.max
  /\ x.null = b.null /\ x.ns = b.ns

\* The fields of the base that the request was removed from.
LEMMA RemovedFields ==
  ASSUME NEW b, DOMAIN b = Fields, NEW r, NEW list \in Lists
  PROVE  RemovedFrom(Removed(b, r, list), b, r, list)
<1> DEFINE li == RemoveFirst(b.inflight, r)
           lw == RemoveFirst(b.waiting, r)
           y1 == [b EXCEPT !.inflight = li, !.nin = @ - 1]
           y2 == [b EXCEPT !.waiting = lw, !.nwait = @ - 1]
           x == Removed(b, r, list)
<1>1. CASE list = "inflight"
  <2>1. x = [[b EXCEPT !.inflight = RemoveFirst(@, r), !.nin = @ - 1] EXCEPT !.req[r] = NoReq]
    BY <1>1 DEF Removed
  <2>2. [b EXCEPT !.inflight = RemoveFirst(@, r), !.nin = @ - 1] = y1
    BY DEF Fields
  <2>3. x = [y1 EXCEPT !.req[r] = NoReq]
    BY <2>1, <2>2
  <2> HIDE DEF x, li
  <2>4. /\ DOMAIN x = Fields /\ x.req = [b.req EXCEPT ![r] = NoReq] /\ x.inflight = li
        /\ x.waiting = b.waiting /\ x.nwait = b.nwait /\ x.ring = b.ring
        /\ x.deferred = b.deferred /\ x.alive = b.alive /\ x.max = b.max
        /\ x.null = b.null /\ x.ns = b.ns
    BY <2>3 DEF Fields
  <2> QED  BY <1>1, <2>4 DEF RemovedFrom, x, li
<1>2. CASE list = "waiting"
  <2>1. x = [[b EXCEPT !.waiting = RemoveFirst(@, r), !.nwait = @ - 1] EXCEPT !.req[r] = NoReq]
    BY <1>2 DEF Removed
  <2>2. [b EXCEPT !.waiting = RemoveFirst(@, r), !.nwait = @ - 1] = y2
    BY DEF Fields
  <2>3. x = [y2 EXCEPT !.req[r] = NoReq]
    BY <2>1, <2>2
  <2> HIDE DEF x, lw
  <2>4. /\ DOMAIN x = Fields /\ x.req = [b.req EXCEPT ![r] = NoReq] /\ x.inflight = b.inflight
        /\ x.waiting = lw /\ x.nwait = b.nwait - 1 /\ x.ring = b.ring
        /\ x.deferred = b.deferred /\ x.alive = b.alive /\ x.max = b.max
        /\ x.null = b.null /\ x.ns = b.ns
    BY <2>3 DEF Fields
  <2> QED  BY <1>2, <2>4 DEF RemovedFrom, x, lw
<1> QED  BY <1>1, <1>2 DEF Lists

\* One request fewer, of its owner only.
LEMMA RemovedWell ==
  ASSUME NEW b, Well(b), NEW r \in Req, NEW list \in Lists,
         r \in Handle => In(r, List(b, list)), NEW x, x = Removed(b, r, list)
  PROVE  /\ Well(x)
         /\ \A h \in Handle : Tot(x, h) = Tot(b, h) - Counts(h, r)
         /\ \A h \in Handle \ {r} : In(h, b.inflight) => In(h, x.inflight)
         /\ \A h \in Handle : Live(x, h) => h # r /\ Live(b, h)
<1>1. /\ b.inflight \in Seq(Req) /\ b.waiting \in Seq(Req) /\ DOMAIN b = Fields
      /\ b.nwait \in Int /\ b.nwait <= Len(b.waiting) /\ ReqsOk(b)
      /\ \A h \in Handle : HandleOk(b, h)
  BY DEF Well
<1>0. RemovedFrom(x, b, r, list)
  BY <1>1, RemovedFields
<1>2. /\ DOMAIN x = Fields /\ x.req = [b.req EXCEPT ![r] = NoReq]
      /\ x.inflight = IF list = "inflight" THEN RemoveFirst(b.inflight, r) ELSE b.inflight
      /\ x.waiting = IF list = "inflight" THEN b.waiting ELSE RemoveFirst(b.waiting, r)
      /\ x.nwait = IF list = "inflight" THEN b.nwait ELSE b.nwait - 1
      /\ x.ring = b.ring /\ x.deferred = b.deferred /\ x.alive = b.alive /\ x.max = b.max
  BY <1>0 DEF RemovedFrom, Lists
<1>3. x.inflight \in Seq(Req) /\ x.waiting \in Seq(Req)
  <2>1. RemoveFirst(b.inflight, r) \in Seq(Req) /\ RemoveFirst(b.waiting, r) \in Seq(Req)
    BY <1>1, OccRemoveFirst
  <2> QED  BY <1>1, <1>2, <2>1
<1>4. x.nwait \in Int /\ x.nwait <= Len(x.waiting)
  <2>1. Len(b.waiting) \in Nat
    BY <1>1
  <2>2. In(r, b.waiting) => Len(RemoveFirst(b.waiting, r)) = Len(b.waiting) - 1
    BY <1>1, OccRemoveFirst
  <2>3. ~In(r, b.waiting) => RemoveFirst(b.waiting, r) = b.waiting
    BY <1>1, OccRemoveFirst
  <2> QED  BY <1>1, <1>2, <2>1, <2>2, <2>3
<1>5. ReqsOk(x) /\ x.req[r] = NoReq /\ \A s \in Req \ {r} : x.req[s] = b.req[s]
  BY <1>1, <1>2 DEF ReqsOk, NoReq, ReqFields
<1>6. ASSUME NEW h \in Handle
      PROVE  /\ Occ(x.inflight, h) \in Nat /\ Occ(x.waiting, h) \in Nat
             /\ Occ(x.inflight, h) = 0 <=> ~In(h, x.inflight)
             /\ Occ(b.inflight, h) \in Nat /\ Occ(b.waiting, h) \in Nat
             /\ Occ(b.inflight, h) = 0 <=> ~In(h, b.inflight)
             /\ Occ(x.inflight, h) + Occ(x.waiting, h)
                  = Occ(b.inflight, h) + Occ(b.waiting, h) - Counts(h, r)
             /\ h # r => Occ(x.inflight, h) = Occ(b.inflight, h)
  <2>1. /\ Occ(x.inflight, h) \in Nat /\ Occ(x.waiting, h) \in Nat
        /\ Occ(x.inflight, h) = 0 <=> ~In(h, x.inflight)
    BY <1>3, OccRange
  <2>2. /\ Occ(b.inflight, h) \in Nat /\ Occ(b.waiting, h) \in Nat
        /\ Occ(b.inflight, h) = 0 <=> ~In(h, b.inflight)
    BY <1>1, OccRange
  <2>3. /\ Occ(RemoveFirst(b.inflight, r), h)
             = Occ(b.inflight, h) - IF h = r /\ In(r, b.inflight) THEN 1 ELSE 0
        /\ Occ(RemoveFirst(b.waiting, r), h)
             = Occ(b.waiting, h) - IF h = r /\ In(r, b.waiting) THEN 1 ELSE 0
    BY <1>1, OccRemoveFirst
  <2>4. CASE h # r
    BY <1>2, <2>1, <2>2, <2>3, <2>4 DEF Counts
  <2>5. CASE h = r /\ list = "inflight"
    <3>1. In(r, b.inflight)
      BY <2>5 DEF List
    <3> QED  BY <1>2, <2>1, <2>2, <2>3, <2>5, <3>1 DEF Counts
  <2>6. CASE h = r /\ list = "waiting"
    <3>1. In(r, b.waiting)
      BY <2>6 DEF List
    <3> QED  BY <1>2, <2>1, <2>2, <2>3, <2>6, <3>1 DEF Counts
  <2> QED  BY <2>4, <2>5, <2>6 DEF Lists
<1>7. ASSUME NEW h \in Handle
      PROVE  HandleOk(x, h)
  <2>1. HandleOk(b, h) /\ h \in Req
    BY <1>1 DEF Req
  <2>2. CASE h = r
    <3>1. Occ(x.inflight, h) + Occ(x.waiting, h) <= 0
      BY <1>6, <2>1, <2>2 DEF HandleOk, Counts
    <3>2. ~In(h, x.inflight)
      BY <1>6, <3>1
    <3>3. Idle(NoReq)
      BY DEF Idle, NoReq
    <3>4. Occ(x.inflight, h) + Occ(x.waiting, h) <= 1
      BY <1>6, <3>1
    <3> QED  BY <1>5, <2>2, <3>2, <3>3, <3>4 DEF HandleOk
  <2>3. CASE h # r
    <3>1. In(h, x.inflight) <=> In(h, b.inflight)
      BY <1>6, <2>3
    <3>2. Occ(x.inflight, h) + Occ(x.waiting, h) <= 1
      BY <1>6, <2>1, <2>3 DEF HandleOk, Counts
    <3> QED  BY <1>5, <2>1, <2>3, <3>1, <3>2 DEF HandleOk
  <2> QED  BY <2>2, <2>3
<1>8. Well(x)
  BY <1>2, <1>3, <1>4, <1>5, <1>7 DEF Well
<1>9. \A h \in Handle : Tot(x, h) = Tot(b, h) - Counts(h, r)
  <2> SUFFICES ASSUME NEW h \in Handle
               PROVE  Tot(x, h) = Tot(b, h) - Counts(h, r)
    OBVIOUS
  <2>1. Occ(Owners(b.deferred), h) \in Nat /\ x.deferred = b.deferred
    BY <1>2, Numbers
  <2>2. Counts(h, r) \in Int
    BY DEF Counts
  <2> QED  BY <1>6, <2>1, <2>2 DEF Tot
<1>10. \A h \in Handle \ {r} : In(h, b.inflight) => In(h, x.inflight)
  BY <1>6
<1>11. \A h \in Handle : Live(x, h) => h # r /\ Live(b, h)
  <2> SUFFICES ASSUME NEW h \in Handle, h = r \/ ~Live(b, h)
               PROVE  ~Live(x, h)
    OBVIOUS
  <2>1. HandleOk(b, h)
    BY <1>1
  <2>2. /\ Occ(x.waiting, h) = 0 <=> ~In(h, x.waiting)
        /\ Occ(b.waiting, h) = 0 <=> ~In(h, b.waiting)
    BY <1>1, <1>3, OccRange
  <2>3. Occ(x.inflight, h) + Occ(x.waiting, h) <= 0
    <3>1. /\ Occ(b.inflight, h) \in Nat /\ Occ(b.waiting, h) \in Nat
          /\ Occ(x.inflight, h) + Occ(x.waiting, h)
               = Occ(b.inflight, h) + Occ(b.waiting, h) - Counts(h, r)
          /\ Occ(b.inflight, h) + Occ(b.waiting, h) <= 1
      BY <1>6, <2>1 DEF HandleOk
    <3>2. CASE h = r
      BY <3>1, <3>2 DEF Counts
    <3>3. CASE h # r /\ ~Live(b, h)
      <4>1. Occ(b.inflight, h) = 0 /\ Occ(b.waiting, h) = 0
        BY <1>6, <2>2, <3>3 DEF Live
      <4> QED  BY <3>1, <3>3, <4>1 DEF Counts
    <3> QED  BY <3>2, <3>3
  <2> QED  BY <1>6, <2>2, <2>3 DEF Live
<1> QED  BY <1>8, <1>9, <1>10, <1>11

\* The request is gone, and others may have gone out.
Left(x, b, r) ==
  /\ Ring(x) /\ x.alive = b.alive
  /\ \A h \in Handle : /\ Tot(x, h) = Tot(b, h) - Counts(h, r)
                       /\ Live(x, h) => h # r /\ Live(b, h)
  /\ \A h \in Handle \ {r} : In(h, b.inflight) => In(h, x.inflight)

\* request_finished.
LEMMA FinishedKeeps ==
  ASSUME NEW b, Ring(b), NEW r \in Req, NEW list \in Lists,
         r \in Handle => In(r, List(b, list)), NEW c
  PROVE  Left(request_finished(b, r, list, c), b, r)
<1> DEFINE x == Removed(b, r, list)
           y == evdns_requests_pump_waiting_queue(x, c)
<1>1. request_finished(b, r, list, c) = y
  BY FinishedIs
<1>2. /\ Well(x) /\ x.ring = b.ring /\ x.alive = b.alive
      /\ \A h \in Handle : Tot(x, h) = Tot(b, h) - Counts(h, r)
      /\ \A h \in Handle \ {r} : In(h, b.inflight) => In(h, x.inflight)
      /\ \A h \in Handle : Live(x, h) => h # r /\ Live(b, h)
  <2>1. DOMAIN b = Fields /\ Well(b)
    BY DEF Ring, Well
  <2> HIDE DEF x
  <2>2. x = Removed(b, r, list)
    BY DEF x
  <2>3. /\ Well(x) /\ \A h \in Handle : Tot(x, h) = Tot(b, h) - Counts(h, r)
        /\ \A h \in Handle \ {r} : In(h, b.inflight) => In(h, x.inflight)
        /\ \A h \in Handle : Live(x, h) => h # r /\ Live(b, h)
    BY <2>1, <2>2, RemovedWell
  <2>4. RemovedFrom(x, b, r, list)
    BY <2>1, <2>2, RemovedFields
  <2> QED  BY <2>3, <2>4 DEF RemovedFrom
<1> HIDE DEF x
<1>3. Ring(x)
  BY <1>2 DEF Ring
<1>4. Goes(y, x, {})
  BY <1>3, PumpKeeps
<1> HIDE DEF y
<1> QED  BY <1>1, <1>2, <1>4 DEF Goes, Left

\* request_finished at the end of a search.
LEMMA FreeHandleKeeps ==
  ASSUME NEW b, Ring(b), NEW r \in Req, NEW list \in Lists,
         r \in Handle => In(r, List(b, list)), NEW c
  PROVE  Left(FreeHandle(b, r, list, c), b, r)
<1> DEFINE x == SearchOver(b, r)
           y == request_finished(x, r, list, c)
<1>1. FreeHandle(b, r, list, c) = y
  BY FinishedIs
<1>2. Well(x) /\ SameLists(x, b) /\ x.ring = b.ring
  BY SearchOverWell DEF Ring
<1> HIDE DEF x
<1>3. Ring(x) /\ List(x, list) = List(b, list)
  BY <1>2 DEF Ring, SameLists, List
<1>4. Left(y, x, r)
  BY <1>3, FinishedKeeps
<1> HIDE DEF y
<1> QED  BY <1>1, <1>2, <1>4 DEF Left, SameLists, Tot, Live

\* A callback is due for the owner of r.
LEMMA ScheduleWell ==
  ASSUME NEW b, Well(b), NEW r \in Req, NEW err, NEW answer \in Req \cup {Late},
         err = "none" => answer = r, NEW x, x = reply_schedule_callback(b, r, err, answer)
  PROVE  /\ Well(x) /\ DOMAIN x = Fields
         /\ \A h \in Handle : Tot(x, h) = Tot(b, h) + Counts(h, r)
         /\ x.inflight = b.inflight /\ x.waiting = b.waiting /\ x.ring = b.ring
         /\ x.alive = b.alive /\ x.req = b.req /\ x.ns = b.ns /\ x.null = b.null
<1> DEFINE e == [h |-> r, err |-> Class(err), answer |-> answer]
<1>1. e \in Due /\ e.h = r
  <2>1. Class(err) \in Errors /\ (Class(err) = "none" => err = "none")
    BY DEF Class, Errors
  <2> QED  BY <2>1 DEF Due
<1>2. x = [b EXCEPT !.deferred = Append(@, e)] /\ DOMAIN b = Fields /\ b.deferred \in Seq(Due)
  BY DEF reply_schedule_callback, Well
<1> HIDE DEF e
<1>3. /\ DOMAIN x = Fields /\ x.deferred = Append(b.deferred, e)
      /\ x.inflight = b.inflight /\ x.waiting = b.waiting /\ x.ring = b.ring
      /\ x.alive = b.alive /\ x.req = b.req /\ x.ns = b.ns /\ x.null = b.null
      /\ x.max = b.max /\ x.nwait = b.nwait
  BY <1>2 DEF Fields
<1>4. x.deferred \in Seq(Due)
  BY <1>1, <1>2, <1>3
<1>5. Well(x)
  BY <1>3, <1>4 DEF Well, ReqsOk, HandleOk
<1>6. Owners(x.deferred) = Append(Owners(b.deferred), r)
  BY <1>1, <1>2, <1>3 DEF Owners
<1>7. \A h \in Handle : Tot(x, h) = Tot(b, h) + Counts(h, r)
  <2> SUFFICES ASSUME NEW h \in Handle
               PROVE  Tot(x, h) = Tot(b, h) + Counts(h, r)
    OBVIOUS
  <2>1. Owners(b.deferred) \in Seq(Req) /\ Occ(Owners(b.deferred), h) \in Nat
        /\ Occ(b.inflight, h) \in Nat /\ Occ(b.waiting, h) \in Nat
    BY Numbers
  <2>2. Occ(Owners(x.deferred), h) = Occ(Owners(b.deferred), h) + Counts(h, r)
    BY <1>6, <2>1, OccAppend DEF Counts
  <2>3. Counts(h, r) \in Int
    BY DEF Counts
  <2> QED  BY <1>3, <2>1, <2>2, <2>3 DEF Tot
<1> QED  BY <1>3, <1>5, <1>7

\* Something is due, and something is gone.
LEMMA EndKeeps ==
  ASSUME NEW b, Ring(b), NEW r \in Req, NEW list \in Lists,
         r \in Handle => In(r, List(b, list)), NEW c,
         NEW err, NEW answer \in Req \cup {Late}, err = "none" => answer = r
  PROVE  Goes(FreeHandle(reply_schedule_callback(b, r, err, answer), r, list, c), b, {r})
<1> DEFINE x == reply_schedule_callback(b, r, err, answer)
           y == FreeHandle(x, r, list, c)
<1>1. /\ Well(x) /\ DOMAIN x = Fields
      /\ \A h \in Handle : Tot(x, h) = Tot(b, h) + Counts(h, r)
      /\ x.inflight = b.inflight /\ x.waiting = b.waiting /\ x.ring = b.ring
      /\ x.alive = b.alive
  <2> HIDE DEF x
  <2>1. x = reply_schedule_callback(b, r, err, answer) /\ Well(b)
    BY DEF x, Ring
  <2> QED  BY <2>1, ScheduleWell
<1> HIDE DEF x
<1>2. Ring(x) /\ (r \in Handle => In(r, List(x, list)))
  BY <1>1 DEF Ring, List
<1>3. Left(y, x, r)
  BY <1>2, FreeHandleKeeps
<1> HIDE DEF y
<1>4. \A h \in Handle : Tot(y, h) = Tot(b, h)
  <2> SUFFICES ASSUME NEW h \in Handle
               PROVE  Tot(y, h) = Tot(b, h)
    OBVIOUS
  <2>1. Tot(b, h) \in Nat
    BY Numbers DEF Ring
  <2>2. Counts(h, r) \in Int
    BY DEF Counts
  <2>3. Tot(x, h) = Tot(b, h) + Counts(h, r) /\ Tot(y, h) = Tot(x, h) - Counts(h, r)
    BY <1>1, <1>3 DEF Left
  <2> QED  BY <2>1, <2>2, <2>3
<1>5. Goes(y, b, {r})
  BY <1>1, <1>3, <1>4 DEF Goes, Left, Live
<1> QED  BY <1>5 DEF x, y

\* A request in flight ends.
LEMMA FinishKeeps ==
  ASSUME NEW b, Ring(b), NEW r \in Req, r \in Handle => In(r, b.inflight), NEW c, NEW err
  PROVE  Goes(Finish(b, r, err, c), b, {r})
BY EndKeeps DEF Finish, List, Lists

\* evdns_cancel_request, on a base that has servers.
LEMMA CancelKeeps ==
  ASSUME NEW b, Ring(b), NEW r, NEW c, NoNs \notin NS
  PROVE  Goes(evdns_cancel_request(b, r, c), b, {r})
<1>1. CASE ~Live(b, r) \/ Pending(b, r)
  BY <1>1, GoesItself DEF evdns_cancel_request
<1>2. CASE Live(b, r) /\ ~Pending(b, r)
  <2> DEFINE list == IF b.req[r].ns # NoNs THEN "inflight" ELSE "waiting"
  <2>1. b.inflight \in Seq(Req) /\ b.waiting \in Seq(Req)
    BY DEF Ring, Well
  <2>2. r \in Req
    BY <1>2, <2>1, ElementsInRange DEF Live, In
  <2>3. r \in Handle => In(r, List(b, list))
    <3> SUFFICES ASSUME r \in Handle
                 PROVE  In(r, List(b, list))
      OBVIOUS
    <3>1. HandleOk(b, r)
      BY DEF Ring, Well
    <3> QED  BY <1>2, <3>1 DEF HandleOk, Idle, Live, List
  <2>4. evdns_cancel_request(b, r, c)
          = FreeHandle(reply_schedule_callback(b, r, "cancel", r), r, list, c)
    BY <1>2 DEF evdns_cancel_request
  <2>5. list \in Lists
    BY DEF Lists
  <2> HIDE DEF list
  <2> QED  BY <2>2, <2>3, <2>4, <2>5, EndKeeps
<1> QED  BY <1>1, <1>2

\* Calls, servers and the absence of one are told apart.
Apart == NoNs \notin NS /\ NoNs \notin Handle /\ Handle \cap NS = {}

\* nameserver_up, which cancels the probe.
LEMMA UpKeeps ==
  ASSUME Apart, NEW b, Ring(b), NEW n, n \notin Handle, NEW c
  PROVE  Goes(nameserver_up(b, n, c), b, {})
<1> DEFINE v == [b.ns EXCEPT ![n].timer = FALSE]
           x == [b EXCEPT !.ns[n].timer = FALSE]
           k == evdns_cancel_request(x, n, c)
           y == IF x.ns[n].probe THEN k ELSE x
           u1 == [y.ns EXCEPT ![n].probe = FALSE]
           u2 == [u1 EXCEPT ![n].state = 1]
           u3 == [u2 EXCEPT ![n].timedout = 0]
           g == y.good + 1
           z == [y EXCEPT !.ns[n].probe = FALSE, !.ns[n].state = 1,
                          !.ns[n].timedout = 0, !.good = @ + 1]
<1>1. nameserver_up(b, n, c) = IF b.ns[n].state = 1 THEN b ELSE z
  BY DEF nameserver_up
<1>2. x = [b EXCEPT !.ns = v]
  OBVIOUS
<1> HIDE DEF x, v
<1>3. Quiet(x, b)
  BY <1>2, ServerSet
<1>4. Goes(k, x, {})
  BY <1>3, QuietRing, CancelKeeps DEF Apart, Goes
<1> HIDE DEF k
<1>5. Goes(y, b, {})
  BY <1>3, <1>4, QuietGoes, GoesAgain
<1> HIDE DEF y
<1>6. Ring(y) /\ DOMAIN y = Fields
  BY <1>5 DEF Goes, Ring, Well
<1>7. z = [y EXCEPT !.ns = u3, !.good = g]
  <2>1. z = [[[y EXCEPT !.ns = u1] EXCEPT !.ns[n].state = 1, !.ns[n].timedout = 0]
               EXCEPT !.good = @ + 1]
    BY DEF u1
  <2>2. [[y EXCEPT !.ns = u1] EXCEPT !.ns[n].state = 1, !.ns[n].timedout = 0]
          = [[y EXCEPT !.ns = u2] EXCEPT !.ns[n].timedout = 0]
    <3> HIDE DEF u1
    <3>1. [[y EXCEPT !.ns = u1] EXCEPT !.ns[n].state = 1] = [y EXCEPT !.ns = u2]
      BY <1>6 DEF Fields
    <3> QED  BY <3>1
  <2>3. [[y EXCEPT !.ns = u2] EXCEPT !.ns[n].timedout = 0] = [y EXCEPT !.ns = u3]
    <3> HIDE DEF u2
    <3> QED  BY <1>6 DEF Fields
  <2>4. z = [[y EXCEPT !.ns = u3] EXCEPT !.good = @ + 1]
    <3> HIDE DEF u1, u2, u3, z
    <3> QED  BY <2>1, <2>2, <2>3
  <2> HIDE DEF z, u3
  <2> QED  BY <1>6, <2>4 DEF Fields
<1> HIDE DEF z, u3, g
<1>8. Quiet(z, y)
  BY <1>6, <1>7, ServerSet
<1>9. Goes(z, b, {})
  BY <1>5, <1>6, <1>8, QuietGoes, GoesAgain
<1> QED  BY <1>1, <1>9, GoesItself

\* A reply shows that the server works.
LEMMA GoodReplyKeeps ==
  ASSUME Apart, NEW b, Ring(b), NEW r \in Req, NEW c
  PROVE  Goes(GoodReply(b, r, c), b, {})
<1> DEFINE n == b.req[r].ns
           v == [b.ns EXCEPT ![n].probe = FALSE]
           x == IF r = n THEN [b EXCEPT !.ns[n].probe = FALSE] ELSE b
<1>1. GoodReply(b, r, c) = nameserver_up(x, n, c)
  BY DEF GoodReply
<1>2. n \notin Handle
  BY DEF Ring, Well, ReqsOk, Apart
<1>3. Quiet(x, b)
  <2>1. [b EXCEPT !.ns[n].probe = FALSE] = [b EXCEPT !.ns = v]
    OBVIOUS
  <2> HIDE DEF v
  <2>2. Quiet([b EXCEPT !.ns = v], b)
    BY ServerSet
  <2> QED  BY <2>1, <2>2, QuietItself
<1> HIDE DEF n, x
<1>4. Goes(nameserver_up(x, n, c), x, {})
  BY <1>2, <1>3, QuietRing, UpKeeps
<1> QED  BY <1>1, <1>3, <1>4, QuietGoes, GoesAgain

\* A request that is made.
NewReq(q) ==
  /\ DOMAIN q = ReqFields /\ q.ns \in NS \cup {NoNs} /\ q.timer \in BOOLEAN /\ ~q.timer

\* request_new, on a base that has servers.
LEMMA NewFacts ==
  ASSUME NEW b, Ring(b), NEW c
  PROVE  Quiet(request_new(b, c).b, b) /\ NewReq(request_new(b, c).req)
<1>1. PICK t \in Seq(NS), n \in NS :
         t # <<>> /\ nameserver_pick(b) = [b |-> [b EXCEPT !.ring = t], ns |-> n]
  BY PickFacts
<1> DEFINE i == transaction_id_pick(b, c)
           q == [NoReq EXCEPT !.ns = n, !.id = i]
           x == [b EXCEPT !.ring = t]
<1>2. nameserver_pick(b).b = x /\ nameserver_pick(b).ns = n
  BY <1>1
<1>3. request_new(b, c) = IF b.nin < b.max THEN [b |-> x, req |-> q] ELSE [b |-> b, req |-> NoReq]
  BY <1>2 DEF request_new
<1>4. Quiet(x, b)
  BY <1>1, RingSet
<1> HIDE DEF i, x
<1>5. NewReq(q) /\ NewReq(NoReq)
  BY DEF NewReq, NoReq, ReqFields
<1> HIDE DEF q
<1> QED  BY <1>3, <1>4, <1>5, QuietItself

\* The base with the new request in a list, before it goes out.
Entered(b, r, new) ==
  LET x == [b EXCEPT !.req[r] = new]
  IN  IF new.ns # NoNs THEN [x EXCEPT !.inflight = Append(@, r), !.nin = @ + 1]
      ELSE [x EXCEPT !.waiting = Append(@, r), !.nwait = @ + 1]

EnteredIn(x, b, r, new) ==
  /\ DOMAIN x = Fields /\ x.req = [b.req EXCEPT ![r] = new]
  /\ new.ns # NoNs => x.inflight = Append(b.inflight, r) /\ x.waiting = b.waiting
                       /\ x.nwait = b.nwait
  /\ new.ns = NoNs => x.waiting = Append(b.waiting, r) /\ x.inflight = b.inflight
                       /\ x.nwait = b.nwait + 1
  /\ x.ring = b.ring /\ x.deferred = b.deferred /\ x.alive = b.alive /\ x.max = b.max
  /\ x.null = b.null /\ x.ns = b.ns

\* The fields of that base.
LEMMA EnteredFields ==
  ASSUME NEW b, DOMAIN b = Fields, NEW r, NEW new
  PROVE  EnteredIn(Entered(b, r, new), b, r, new)
<1> DEFINE y == [b EXCEPT !.req[r] = new]
           li == Append(b.inflight, r)
           lw == Append(b.waiting, r)
           y1 == [y EXCEPT !.inflight = li, !.nin = @ + 1]
           y2 == [y EXCEPT !.waiting = lw, !.nwait = @ + 1]
           x == Entered(b, r, new)
<1>1. x = IF new.ns # NoNs THEN [y EXCEPT !.inflight = Append(@, r), !.nin = @ + 1]
          ELSE [y EXCEPT !.waiting = Append(@, r), !.nwait = @ + 1]
  BY DEF Entered
<1>2. /\ DOMAIN y = Fields /\ y.req = [b.req EXCEPT ![r] = new] /\ y.inflight = b.inflight
      /\ y.waiting = b.waiting /\ y.nwait = b.nwait /\ y.ring = b.ring
      /\ y.deferred = b.deferred /\ y.alive = b.alive /\ y.max = b.max /\ y.null = b.null
      /\ y.ns = b.ns
  BY DEF Fields
<1> HIDE DEF y
<1>3. x = IF new.ns # NoNs THEN y1 ELSE y2
  BY <1>1, <1>2 DEF Fields
<1> HIDE DEF li, lw, x
<1>4. CASE new.ns # NoNs
  <2>1. /\ DOMAIN x = Fields /\ x.req = y.req /\ x.inflight = li /\ x.waiting = y.waiting
        /\ x.nwait = y.nwait /\ x.ring = y.ring /\ x.deferred = y.deferred
        /\ x.alive = y.alive /\ x.max = y.max /\ x.null = y.null /\ x.ns = y.ns
    BY <1>2, <1>3, <1>4 DEF Fields
  <2>2. x.inflight = Append(b.inflight, r)
    BY <2>1 DEF li
  <2>3. x.req = [b.req EXCEPT ![r] = new] /\ x.waiting = b.waiting /\ x.nwait = b.nwait
    BY <1>2, <2>1
  <2>4. /\ x.ring = b.ring /\ x.deferred = b.deferred /\ x.alive = b.alive /\ x.max = b.max
        /\ x.null = b.null /\ x.ns = b.ns
    BY <1>2, <2>1
  <2> QED  BY <1>4, <2>1, <2>2, <2>3, <2>4 DEF EnteredIn, x
<1>5. CASE new.ns = NoNs
  <2>1. /\ DOMAIN x = Fields /\ x.req = y.req /\ x.inflight = y.inflight /\ x.waiting = lw
        /\ x.nwait = y.nwait + 1 /\ x.ring = y.ring /\ x.deferred = y.deferred
        /\ x.alive = y.alive /\ x.max = y.max /\ x.null = y.null /\ x.ns = y.ns
    BY <1>2, <1>3, <1>5 DEF Fields
  <2>2. x.waiting = Append(b.waiting, r)
    BY <2>1 DEF lw
  <2>3. x.req = [b.req EXCEPT ![r] = new] /\ x.inflight = b.inflight /\ x.nwait = b.nwait + 1
    BY <1>2, <2>1
  <2>4. /\ x.ring = b.ring /\ x.deferred = b.deferred /\ x.alive = b.alive /\ x.max = b.max
        /\ x.null = b.null /\ x.ns = b.ns
    BY <1>2, <2>1
  <2> QED  BY <1>5, <2>1, <2>2, <2>3, <2>4 DEF EnteredIn, x
<1> QED  BY <1>4, <1>5 DEF x

\* One request more, of its owner only.
LEMMA EnteredWell ==
  ASSUME Apart, NEW b, Well(b), NEW r \in Req, NEW new, NewReq(new),
         r \in Handle => ~Live(b, r), NEW x, x = Entered(b, r, new)
  PROVE  /\ Well(x)
         /\ \A h \in Handle : Tot(x, h) = Tot(b, h) + Counts(h, r)
         /\ \A h \in Handle : In(h, b.inflight) => In(h, x.inflight)
         /\ \A h \in Handle : Live(x, h) => h = r \/ Live(b, h)
         /\ new.ns # NoNs => In(r, x.inflight)
         /\ new.ns = NoNs => x.inflight = b.inflight
<1>1. /\ b.inflight \in Seq(Req) /\ b.waiting \in Seq(Req) /\ DOMAIN b = Fields
      /\ b.nwait \in Int /\ b.nwait <= Len(b.waiting) /\ ReqsOk(b)
      /\ \A h \in Handle : HandleOk(b, h)
  BY DEF Well
<1>2. /\ DOMAIN x = Fields /\ x.req = [b.req EXCEPT ![r] = new]
      /\ new.ns # NoNs => x.inflight = Append(b.inflight, r) /\ x.waiting = b.waiting
                           /\ x.nwait = b.nwait
      /\ new.ns = NoNs => x.waiting = Append(b.waiting, r) /\ x.inflight = b.inflight
                           /\ x.nwait = b.nwait + 1
      /\ x.ring = b.ring /\ x.deferred = b.deferred /\ x.alive = b.alive /\ x.max = b.max
  <2>1. EnteredIn(x, b, r, new)
    BY <1>1, EnteredFields
  <2> QED  BY <2>1 DEF EnteredIn
<1>3. x.inflight \in Seq(Req) /\ x.waiting \in Seq(Req)
  <2>1. Append(b.inflight, r) \in Seq(Req) /\ Append(b.waiting, r) \in Seq(Req)
    BY <1>1
  <2> QED  BY <1>1, <1>2, <2>1
<1>4. x.nwait \in Int /\ x.nwait <= Len(x.waiting)
  BY <1>1, <1>2
<1>5. ReqsOk(x) /\ x.req[r] = new /\ \A s \in Req \ {r} : x.req[s] = b.req[s]
  BY <1>1, <1>2 DEF ReqsOk, NewReq
<1>6. ASSUME NEW h
      PROVE  /\ Occ(x.inflight, h) \in Nat /\ Occ(x.waiting, h) \in Nat
             /\ Occ(x.inflight, h) = 0 <=> ~In(h, x.inflight)
             /\ Occ(x.waiting, h) = 0 <=> ~In(h, x.waiting)
             /\ Occ(b.inflight, h) \in Nat /\ Occ(b.waiting, h) \in Nat
             /\ Occ(b.inflight, h) = 0 <=> ~In(h, b.inflight)
             /\ Occ(b.waiting, h) = 0 <=> ~In(h, b.waiting)
             /\ Occ(x.inflight, h) = Occ(b.inflight, h)
                                       + (IF new.ns # NoNs THEN Counts(h, r) ELSE 0)
             /\ Occ(x.waiting, h) = Occ(b.waiting, h)
                                       + (IF new.ns # NoNs THEN 0 ELSE Counts(h, r))
  <2>1. /\ Occ(x.inflight, h) \in Nat /\ Occ(x.waiting, h) \in Nat
        /\ Occ(x.inflight, h) = 0 <=> ~In(h, x.inflight)
        /\ Occ(x.waiting, h) = 0 <=> ~In(h, x.waiting)
    BY <1>3, OccRange
  <2>2. /\ Occ(b.inflight, h) \in Nat /\ Occ(b.waiting, h) \in Nat
        /\ Occ(b.inflight, h) = 0 <=> ~In(h, b.inflight)
        /\ Occ(b.waiting, h) = 0 <=> ~In(h, b.waiting)
    BY <1>1, OccRange
  <2>3. /\ Occ(Append(b.inflight, r), h) = Occ(b.inflight, h) + Counts(h, r)
        /\ Occ(Append(b.waiting, r), h) = Occ(b.waiting, h) + Counts(h, r)
    BY <1>1, OccAppend DEF Counts
  <2>4. CASE new.ns # NoNs
    <3>1. x.inflight = Append(b.inflight, r) /\ x.waiting = b.waiting
      BY <1>2, <2>4
    <3> QED  BY <2>1, <2>2, <2>3, <2>4, <3>1
  <2>5. CASE new.ns = NoNs
    <3>1. x.waiting = Append(b.waiting, r) /\ x.inflight = b.inflight
      BY <1>2, <2>5
    <3> QED  BY <2>1, <2>2, <2>3, <2>5, <3>1
  <2> QED  BY <2>4, <2>5
<1>7. ASSUME NEW h \in Handle
      PROVE  HandleOk(x, h)
  <2>1. HandleOk(b, h) /\ h \in Req
    BY <1>1 DEF Req
  <2>2. Counts(h, r) = (IF h = r THEN 1 ELSE 0)
    BY DEF Counts
  <2>3. Occ(x.inflight, h) + Occ(x.waiting, h) <= 1
    <3>1. h = r => Occ(b.inflight, h) = 0 /\ Occ(b.waiting, h) = 0
      BY <1>6 DEF Live
    <3> QED  BY <1>6, <2>1, <2>2, <3>1 DEF HandleOk
  <2>4. CASE h # r
    <3>1. In(h, x.inflight) <=> In(h, b.inflight)
      BY <1>6, <2>2, <2>4
    <3> QED  BY <1>5, <2>1, <2>3, <2>4, <3>1 DEF HandleOk
  <2>5. CASE h = r
    <3>1. In(h, x.inflight) <=> new.ns # NoNs
      BY <1>6, <2>2, <2>5 DEF Live
    <3> QED  BY <1>5, <2>3, <2>5, <3>1 DEF HandleOk, NewReq, Idle
  <2> QED  BY <2>4, <2>5
<1>8. Well(x)
  BY <1>2, <1>3, <1>4, <1>5, <1>7 DEF Well
<1>9. \A h \in Handle : Tot(x, h) = Tot(b, h) + Counts(h, r)
  <2> SUFFICES ASSUME NEW h \in Handle
               PROVE  Tot(x, h) = Tot(b, h) + Counts(h, r)
    OBVIOUS
  <2>1. Occ(Owners(b.deferred), h) \in Nat /\ x.deferred = b.deferred
    BY <1>2, Numbers
  <2>2. Counts(h, r) \in Int
    BY DEF Counts
  <2> QED  BY <1>6, <2>1, <2>2 DEF Tot
<1>10. \A h \in Handle : In(h, b.inflight) => In(h, x.inflight)
  BY <1>6 DEF Counts
<1>11. \A h \in Handle : Live(x, h) => h = r \/ Live(b, h)
  BY <1>6 DEF Counts, Live
<1>12. new.ns # NoNs => In(r, x.inflight)
  BY <1>6 DEF Counts
<1> QED  BY <1>2, <1>8, <1>9, <1>10, <1>11, <1>12

\* request_submit, in these terms.
LEMMA SubmitIs ==
  ASSUME NEW b, NEW r, NEW new, NEW c
  PROVE  request_submit(b, r, new, c)
           = IF new.ns # NoNs THEN evdns_request_transmit(Entered(b, r, new), r, c)
             ELSE Entered(b, r, new)
BY DEF request_submit, Entered

\* request_submit: the owner has one request more.
LEMMA SubmitKeeps ==
  ASSUME Apart, NEW b, Ring(b), NEW r \in Req, NEW new, NewReq(new),
         r \in Handle => ~Live(b, r), NEW c, NEW x, x = request_submit(b, r, new, c)
  PROVE  /\ Ring(x) /\ x.alive = b.alive
         /\ \A h \in Handle : /\ Tot(x, h) = Tot(b, h) + Counts(h, r)
                              /\ Live(x, h) => h = r \/ Live(b, h)
                              /\ In(h, b.inflight) => In(h, x.inflight)
<1> DEFINE y == Entered(b, r, new)
<1>1. /\ Well(y) /\ y.ring = b.ring /\ y.alive = b.alive
      /\ \A h \in Handle : Tot(y, h) = Tot(b, h) + Counts(h, r)
      /\ \A h \in Handle : In(h, b.inflight) => In(h, y.inflight)
      /\ \A h \in Handle : Live(y, h) => h = r \/ Live(b, h)
      /\ new.ns # NoNs => In(r, y.inflight)
  <2> HIDE DEF y
  <2>1. y = Entered(b, r, new) /\ Well(b) /\ DOMAIN b = Fields
    BY DEF Ring, Well, y
  <2>2. y.ring = b.ring /\ y.alive = b.alive
    <3>1. EnteredIn(y, b, r, new)
      BY <2>1, EnteredFields
    <3> QED  BY <3>1 DEF EnteredIn
  <2>3. /\ Well(y)
        /\ \A h \in Handle : Tot(y, h) = Tot(b, h) + Counts(h, r)
        /\ \A h \in Handle : In(h, b.inflight) => In(h, y.inflight)
        /\ \A h \in Handle : Live(y, h) => h = r \/ Live(b, h)
        /\ new.ns # NoNs => In(r, y.inflight)
    BY <2>1, EnteredWell
  <2> QED  BY <2>2, <2>3
<1>2. x = IF new.ns # NoNs THEN evdns_request_transmit(y, r, c) ELSE y
  BY SubmitIs
<1> HIDE DEF y
<1>3. Ring(y)
  BY <1>1 DEF Ring
<1>4. Quiet(x, y)
  BY <1>1, <1>2, <1>3, RequestTransmitKeeps, QuietItself
<1>5. Goes(x, y, {})
  BY <1>3, <1>4, QuietGoes
<1> QED  BY <1>1, <1>5 DEF Goes

\* search_try_next: the next request takes the place of the last one.
LEMMA SearchKeeps ==
  ASSUME Apart, NEW b, Ring(b), NEW r \in Req, r \in Handle => In(r, b.inflight), NEW c
  PROVE  /\ search_try_next(b, r, c).more \in BOOLEAN
         /\ search_try_next(b, r, c).more => Goes(search_try_next(b, r, c).b, b, {r})
         /\ ~search_try_next(b, r, c).more => Quiet(search_try_next(b, r, c).b, b)
<1> DEFINE i == b.index[r] + 1
           last == i >= NumDomains
           v == [b.index EXCEPT ![r] = i]
           x == [b EXCEPT !.index[r] = i]
           new == request_new(x, c)
           o == [new.b EXCEPT !.search = @ \ {r}]
           y == IF last THEN o ELSE new.b
           f == request_finished(y, r, "inflight", c)
           s == request_submit(f, r, new.req, c)
<1>1. search_try_next(b, r, c) = IF last /\ r \in RawFirst THEN [more |-> FALSE, b |-> x]
                                 ELSE IF c.how = "toolong"
                                   THEN [more |-> FALSE, b |-> [x EXCEPT !.hit = TRUE]]
                                 ELSE [more |-> TRUE, b |-> s]
  BY DEF search_try_next
<1>2. x = [b EXCEPT !.index = v]
  OBVIOUS
<1> HIDE DEF x, v
<1>3. Quiet(x, b)
  BY <1>2, ServerSet
<1>4. Ring(x)
  BY <1>3, QuietRing
<1>5. Quiet(new.b, b) /\ NewReq(new.req)
  BY <1>3, <1>4, NewFacts, QuietAgain
<1> HIDE DEF new
<1>6. Quiet(y, b)
  <2> DEFINE g == new.b.search \ {r}
  <2>1. Ring(new.b)
    BY <1>5, QuietRing
  <2>2. o = [new.b EXCEPT !.search = g]
    OBVIOUS
  <2> HIDE DEF g
  <2>3. Quiet([new.b EXCEPT !.search = g], new.b)
    BY <2>1, ServerSet
  <2> QED  BY <1>5, <2>2, <2>3, QuietAgain
<1> HIDE DEF y
<1>7. Ring(y) /\ (r \in Handle => In(r, List(y, "inflight"))) /\ "inflight" \in Lists
  BY <1>6, QuietRing DEF Quiet, SameLists, List, Lists
<1>8. Left(f, y, r)
  BY <1>7, FinishedKeeps
<1> HIDE DEF f
<1>9. Ring(f) /\ (r \in Handle => ~Live(f, r))
  BY <1>8 DEF Left
<1>10. /\ Ring(s) /\ s.alive = f.alive
       /\ \A h \in Handle : /\ Tot(s, h) = Tot(f, h) + Counts(h, r)
                            /\ Live(s, h) => h = r \/ Live(f, h)
                            /\ In(h, f.inflight) => In(h, s.inflight)
  <2> HIDE DEF s
  <2>1. s = request_submit(f, r, new.req, c)
    BY DEF s
  <2> QED  BY <1>5, <1>9, <2>1, SubmitKeeps
<1> HIDE DEF s
<1>11. Goes(y, b, {r})
  BY <1>6, QuietGoes
<1>12. Goes(s, y, {r})
  <2>1. \A h \in Handle : Tot(s, h) = Tot(y, h)
    <3> SUFFICES ASSUME NEW h \in Handle
                 PROVE  Tot(s, h) = Tot(y, h)
      OBVIOUS
    <3>1. Tot(f, h) = Tot(y, h) - Counts(h, r) /\ Tot(s, h) = Tot(f, h) + Counts(h, r)
      BY <1>8, <1>10 DEF Left
    <3>2. Tot(y, h) \in Nat /\ Counts(h, r) \in Int
      BY <1>7, Numbers DEF Ring, Counts
    <3> QED  BY <3>1, <3>2
  <2>2. \A h \in Handle : Live(s, h) => Live(y, h)
    BY <1>7, <1>8, <1>10 DEF Left, List, Live
  <2>3. \A h \in Handle \ {r} : In(h, y.inflight) => In(h, s.inflight)
    BY <1>8, <1>10 DEF Left
  <2> QED  BY <1>8, <1>10, <2>1, <2>2, <2>3 DEF Goes, Left
<1>13. Goes(s, b, {r})
  BY <1>11, <1>12, GoesAgain
<1>14. Quiet([x EXCEPT !.hit = TRUE], b)
  BY <1>3, <1>4, ServerSet, QuietAgain
<1> QED  BY <1>1, <1>3, <1>13, <1>14

\* request_reissue leaves the lists alone.
LEMMA ReissueKeeps ==
  ASSUME NEW b, Ring(b), NEW r \in Req, In(r, b.inflight)
  PROVE  Quiet(request_reissue(b, r).b, b) /\ request_reissue(b, r).again \in BOOLEAN
<1> DEFINE x == Assign(b, r)
           q == [x.req[r] EXCEPT !.reissue = @ + 1, !.tx = 0, !.transmit_me = TRUE]
           y == [x EXCEPT !.req[r].reissue = @ + 1, !.req[r].tx = 0, !.req[r].transmit_me = TRUE]
<1>1. request_reissue(b, r) = IF x.req[r].ns = b.req[r].ns THEN [again |-> FALSE, b |-> x]
                              ELSE [again |-> TRUE, b |-> y]
  BY DEF request_reissue
<1>2. Quiet(x, b)
  BY AssignKeeps
<1> HIDE DEF x
<1>3. Ring(x) /\ In(r, x.inflight) /\ DOMAIN x.req[r] = ReqFields /\ DOMAIN x.req = Req
      /\ DOMAIN x = Fields
  BY <1>2, QuietRing DEF Quiet, SameLists, ReqsOk
<1>4. DOMAIN q = ReqFields /\ q.ns = x.req[r].ns
  BY <1>3 DEF ReqFields
<1>5. y = [x EXCEPT !.req[r] = q]
  BY <1>3 DEF Fields
<1> HIDE DEF q, y
<1>6. Quiet(y, x)
  BY <1>3, <1>4, <1>5, ReqSet
<1> QED  BY <1>1, <1>2, <1>6, QuietAgain

\* reply_handle: the request ends and is due, or goes on.
LEMMA ReplyKeeps ==
  ASSUME Apart, NEW b, Ring(b), NEW r \in Req, In(r, b.inflight), NEW c,
         NEW err, NEW answer \in Req \cup {Late}, err = "none" => answer = r
  PROVE  Goes(reply_handle(b, r, err, answer, c), b, {r})
<1> DEFINE bad == err = "refused" /\ b.req[r].reissue < MaxReissues
           f == nameserver_failed(b, b.req[r].ns)
           re == request_reissue(f, r)
           gr == GoodReply(b, r, c)
           x == IF bad THEN re.b ELSE IF err \in {"refused", "servfail"} THEN b ELSE gr
           t == search_try_next(x, r, c)
           sc == reply_schedule_callback(b, r, err, answer)
           gs == GoodReply(sc, r, c)
           ok == FreeHandle(gs, r, "inflight", c)
           w == IF r \in x.search THEN t.b ELSE x
           fi == Finish(w, r, err, c)
<1>1. reply_handle(b, r, err, answer, c) =
        IF err = "none" THEN ok
        ELSE IF bad /\ re.again THEN x
        ELSE IF r \in x.search /\ t.more THEN t.b ELSE fi
  BY DEF reply_handle
<1>2. CASE err = "none"
  <2>1. /\ Well(sc) /\ \A h \in Handle : Tot(sc, h) = Tot(b, h) + Counts(h, r)
        /\ sc.inflight = b.inflight /\ sc.waiting = b.waiting /\ sc.ring = b.ring
        /\ sc.alive = b.alive
    <3> HIDE DEF sc
    <3>1. sc = reply_schedule_callback(b, r, err, answer) /\ Well(b)
      BY DEF sc, Ring
    <3> QED  BY <3>1, ScheduleWell
  <2> HIDE DEF sc
  <2>2. Ring(sc)
    BY <2>1 DEF Ring
  <2>3. Goes(gs, sc, {})
    BY <2>2, GoodReplyKeeps
  <2> HIDE DEF gs
  <2>4. Ring(gs) /\ (r \in Handle => In(r, List(gs, "inflight"))) /\ "inflight" \in Lists
    BY <2>1, <2>3 DEF Goes, List, Lists
  <2>5. Left(ok, gs, r)
    BY <2>4, FreeHandleKeeps
  <2> HIDE DEF ok
  <2>6. \A h \in Handle : Tot(ok, h) = Tot(b, h)
    <3> SUFFICES ASSUME NEW h \in Handle
                 PROVE  Tot(ok, h) = Tot(b, h)
      OBVIOUS
    <3>1. /\ Tot(sc, h) = Tot(b, h) + Counts(h, r) /\ Tot(gs, h) = Tot(sc, h)
          /\ Tot(ok, h) = Tot(gs, h) - Counts(h, r)
      BY <2>1, <2>3, <2>5 DEF Goes, Left
    <3>2. Tot(b, h) \in Nat /\ Counts(h, r) \in Int
      BY Numbers DEF Ring, Counts
    <3> QED  BY <3>1, <3>2
  <2>7. Goes(ok, b, {r})
    BY <2>1, <2>3, <2>5, <2>6 DEF Goes, Left, Live
  <2> QED  BY <1>1, <1>2, <2>7
<1>3. CASE err # "none"
  <2>1. Goes(x, b, {}) /\ re.again \in BOOLEAN
    <3>1. Quiet(f, b)
      BY FailedKeeps
    <3> HIDE DEF f
    <3>2. Quiet(re.b, b) /\ re.again \in BOOLEAN
      <4>1. Ring(f) /\ In(r, f.inflight)
        BY <3>1, QuietRing DEF Quiet, SameLists
      <4> QED  BY <3>1, <4>1, ReissueKeeps, QuietAgain
    <3> HIDE DEF re
    <3>3. Goes(gr, b, {})
      BY GoodReplyKeeps
    <3> HIDE DEF gr
    <3> QED  BY <3>2, <3>3, QuietGoes, GoesItself
  <2> HIDE DEF x, re
  <2>2. Ring(x) /\ (r \in Handle => In(r, x.inflight)) /\ Goes(x, b, {r})
    BY <2>1 DEF Goes
  <2>3. t.more \in BOOLEAN /\ (t.more => Goes(t.b, x, {r})) /\ (~t.more => Quiet(t.b, x))
    BY <2>2, SearchKeeps
  <2> HIDE DEF t
  <2>4. ASSUME ~(r \in x.search /\ t.more)
        PROVE  Goes(fi, b, {r})
    <3>1. Quiet(w, x)
      BY <2>2, <2>3, <2>4, QuietItself
    <3> HIDE DEF w
    <3>2. Ring(w) /\ (r \in Handle => In(r, w.inflight)) /\ Goes(w, b, {r})
      BY <2>2, <3>1, QuietRing, QuietGoes, GoesAgain DEF Quiet, SameLists
    <3>3. Goes(fi, w, {r})
      BY <3>2, FinishKeeps
    <3> QED  BY <3>2, <3>3, GoesAgain
  <2>5. t.more => Goes(t.b, b, {r})
    BY <2>2, <2>3, GoesAgain
  <2> HIDE DEF fi
  <2> QED  BY <1>1, <1>3, <2>2, <2>4, <2>5
<1> QED  BY <1>2, <1>3

\* reply_parse: only a request that has the id is handled.
LEMMA ParseKeeps ==
  ASSUME Apart, NEW b, Ring(b), NEW id, NEW rcode, NEW asks \in Req \cup {Late}, NEW c
  PROVE  \E R : Goes(reply_parse(b, id, asks, rcode, c), b, R)
<1> DEFINE I == {i \in 1 .. Len(b.inflight) : b.req[b.inflight[i]].id = id}
           first == SelectInSeq(b.inflight, LAMBDA x : b.req[x].id = id)
           r == b.inflight[first]
           err == IF rcode = "none" /\ asks # r THEN "unknown" ELSE rcode
           y == reply_handle(b, r, err, asks, c)
<1>1. reply_parse(b, id, asks, rcode, c) = IF first = 0 THEN b ELSE y
  BY DEF reply_parse
<1>2. first = IF I # {} THEN Min(I) ELSE 0
  BY DEF SelectInSeq
<1>3. b.inflight \in Seq(Req) /\ I \in SUBSET Nat
  BY DEF Ring, Well
<1> HIDE DEF first
<1>4. first # 0 => first \in 1 .. Len(b.inflight)
  <2>1. I # {} => Min(I) \in I
    <3> HIDE DEF I
    <3> QED  BY <1>3, MinOfNaturals
  <2> QED  BY <1>2, <2>1
<1>5. first # 0 => r \in Req /\ In(r, b.inflight)
  BY <1>3, <1>4, ElementsInRange DEF In
<1> HIDE DEF r
<1>6. err = "none" => asks = r
  OBVIOUS
<1> HIDE DEF err
<1>7. first # 0 => Goes(y, b, {r})
  BY <1>5, <1>6, ReplyKeeps
<1> QED  BY <1>1, <1>7, GoesItself

\* The base while it has no servers: nothing is in flight and no timer runs.
Dry(b) ==
  /\ b.inflight = <<>> /\ b.ns = [n \in NS |-> NoServer]
  /\ \A n \in NS : Idle(b.req[n])
  /\ \A i \in DOMAIN b.deferred : b.deferred[i].h \in Handle

ServerFields == {"state", "timedout", "choked", "write_waiting", "probe", "timer"}
Dead(b) ==
  /\ DOMAIN b.ns = NS
  /\ \A n \in NS : /\ DOMAIN b.ns[n] = ServerFields
                   /\ b.ns[n].probe \in BOOLEAN /\ ~b.ns[n].probe

Base(b) ==
  /\ Well(b) /\ b.alive \in BOOLEAN
  /\ b.alive /\ b.ring = <<>> => Dry(b)
  /\ ~b.alive => Dead(b)

DnsInv ==
  /\ Base(d) /\ asked \subseteq Handle /\ got \in [Handle -> Nat]
  /\ aborted \subseteq asked
  /\ \A h \in Handle : got[h] + Tot(d, h) = IF h \in asked \ aborted THEN 1 ELSE 0

\* The record of a failed send is no part of the base.
LEMMA HitOff ==
  ASSUME NEW b, Base(b), NEW x, x = [b EXCEPT !.hit = FALSE]
  PROVE  Base(x) /\ \A h \in Handle : Tot(x, h) = Tot(b, h)
<1>1. DOMAIN b = Fields
  BY DEF Base, Well
<1>2. /\ DOMAIN x = Fields /\ SameLists(x, b) /\ x.ring = b.ring /\ x.req = b.req
      /\ x.ns = b.ns
  BY <1>1 DEF Fields, SameLists
<1>3. Well(x)
  BY <1>2 DEF Base, Well, ReqsOk, HandleOk, SameLists
<1>4. Base(x)
  BY <1>2, <1>3 DEF Base, Dry, Dead, SameLists
<1> QED  BY <1>2, <1>4 DEF Tot, SameLists

\* A step after which there is as much of every call.
LEMMA BaseStep ==
  ASSUME DnsInv, NEW b, Base(b), \A h \in Handle : Tot(b, h) = Tot(d, h),
         NEW c, NEW from, Heard(b, c, from), UNCHANGED <<asked, got>>
  PROVE  DnsInv'
<1>1. d' = [b EXCEPT !.hit = FALSE]
  BY DEF Heard, Met
<1>2. Base(d') /\ \A h \in Handle : Tot(d', h) = Tot(b, h)
  BY <1>1, HitOff
<1> QED  BY <1>2 DEF DnsInv, Heard

\* The same, of a base that has servers.
LEMMA RingStep ==
  ASSUME DnsInv, d.alive, Ring(d), NEW b, NEW R, Goes(b, d, R),
         NEW c, NEW from, Heard(b, c, from), UNCHANGED <<asked, got>>
  PROVE  DnsInv'
<1>1. Base(b)
  BY DEF Goes, Base, Ring, DnsInv
<1> QED  BY <1>1, BaseStep DEF Goes

\* A base that is alive has servers, or is dry.
LEMMA RingOrDry ==
  ASSUME DnsInv, d.alive
  PROVE  Ring(d) \/ (Well(d) /\ d.ring = <<>> /\ Dry(d))
BY DEF DnsInv, Base, Ring

\* A server in the ring.
LEMMA InRing ==
  ASSUME DnsInv, d.alive, NEW n, In(n, d.ring)
  PROVE  Ring(d)
<1>1. d.ring # <<>>
  BY DEF In, Range
<1> QED  BY <1>1, RingOrDry

\* A packet whose id a request has.
LEMMA ReadKeeps ==
  ASSUME Apart, DnsInv, NEW n, NEW r \in Range(d.inflight), NEW asks \in {r, Late}, NEW rcode,
         NEW c, nameserver_read(n, r, asks, rcode, c)
  PROVE  DnsInv'
<1> DEFINE v == [d.ns EXCEPT ![n].timedout = 0]
           b == [d EXCEPT !.ns[n].timedout = 0]
           id == d.req[r].id
           y == reply_parse(b, id, asks, rcode, c)
<1>1. d.alive /\ Heard(y, c, {n}) /\ UNCHANGED <<asked, got>> /\ In(n, d.ring)
  BY DEF nameserver_read
<1>2. Ring(d)
  BY <1>1, InRing
<1>3. asks \in Req \cup {Late}
  <2>1. d.inflight \in Seq(Req)
    BY <1>2 DEF Ring, Well
  <2> QED  BY <2>1, ElementsInRange
<1>4. b = [d EXCEPT !.ns = v]
  OBVIOUS
<1> HIDE DEF b, v
<1>5. Quiet(b, d)
  BY <1>2, <1>4, ServerSet
<1> HIDE DEF id
<1>6. PICK R : Goes(y, b, R)
  BY <1>2, <1>3, <1>5, QuietRing, ParseKeeps
<1> HIDE DEF y
<1>7. Goes(y, d, R)
  BY <1>2, <1>5, <1>6, QuietGoes, GoesAgain
<1> QED  BY <1>1, <1>2, <1>7, RingStep

\* A packet whose id no request has.
LEMMA StrayKeeps ==
  ASSUME DnsInv, NEW n, NEW c, ReadStray(n, c)
  PROVE  DnsInv'
<1> DEFINE v == [d.ns EXCEPT ![n].timedout = 0]
           b == [d EXCEPT !.ns[n].timedout = 0]
<1>1. d.alive /\ Heard(b, c, {n}) /\ UNCHANGED <<asked, got>> /\ In(n, d.ring)
  BY DEF ReadStray
<1>2. Ring(d)
  BY <1>1, InRing
<1>4. b = [d EXCEPT !.ns = v]
  OBVIOUS
<1> HIDE DEF b, v
<1>5. Quiet(b, d)
  BY <1>2, <1>4, ServerSet
<1>6. Goes(b, d, {})
  BY <1>2, <1>5, QuietGoes
<1> QED  BY <1>1, <1>2, <1>6, RingStep

\* recvfrom fails.
LEMMA ReadErrorKeeps ==
  ASSUME DnsInv, NEW n, NEW c, nameserver_read_error(n, c)
  PROVE  DnsInv'
<1> DEFINE b == nameserver_failed(d, n)
<1>1. d.alive /\ Heard(b, c, {}) /\ UNCHANGED <<asked, got>> /\ In(n, d.ring)
  BY DEF nameserver_read_error, Do
<1>2. Ring(d)
  BY <1>1, InRing
<1>3. Goes(b, d, {})
  BY <1>2, FailedKeeps, QuietGoes
<1> HIDE DEF b
<1> QED  BY <1>1, <1>2, <1>3, RingStep

\* A socket can be written to again.
LEMMA ReadyKeeps ==
  ASSUME DnsInv, NEW n \in NS, NEW c, nameserver_ready_callback(n, c)
  PROVE  DnsInv'
<1> DEFINE v == [d.ns EXCEPT ![n].choked = FALSE]
           b == [d EXCEPT !.ns[n].choked = FALSE]
           tried == \E r \in Range(b.inflight) : b.req[r].transmit_me
           t == evdns_transmit(b, c)
           v2 == [b.ns EXCEPT ![n].write_waiting = FALSE]
           u == [b EXCEPT !.ns[n].write_waiting = FALSE]
           y == IF tried THEN t ELSE u
<1>1. d.alive /\ Heard(y, c, {}) /\ UNCHANGED <<asked, got>> /\ d.ns[n].write_waiting
  BY DEF nameserver_ready_callback, Do
<1>2. Ring(d)
  BY <1>1, RingOrDry DEF Dry, NoServer
<1>4. b = [d EXCEPT !.ns = v]
  OBVIOUS
<1> HIDE DEF b, v
<1>5. Quiet(b, d)
  BY <1>2, <1>4, ServerSet
<1>6. Ring(b)
  BY <1>2, <1>5, QuietRing
<1>7. Quiet(t, b)
  BY <1>6, TransmitKeeps
<1>8. u = [b EXCEPT !.ns = v2]
  OBVIOUS
<1> HIDE DEF u, v2, tried, t
<1>9. Quiet(u, b)
  BY <1>6, <1>8, ServerSet
<1>10. Goes(y, d, {})
  BY <1>2, <1>5, <1>7, <1>9, QuietAgain, QuietGoes
<1> HIDE DEF y
<1> QED  BY <1>1, <1>2, <1>10, RingStep

\* The timer of a request expires: it is sent again, or ends.
LEMMA TimeoutKeeps ==
  ASSUME DnsInv, NEW r \in Req, NEW c, evdns_request_timeout_callback(r, c)
  PROVE  DnsInv'
<1> DEFINE n == d.req[r].ns
           late == d.ns[n].timedout + 1
           v0 == [d.ns EXCEPT ![n].timedout = 0]
           b0 == [d EXCEPT !.ns[n].timedout = 0]
           b1 == nameserver_failed(b0, n)
           v2 == [d.ns EXCEPT ![n].timedout = late]
           b2 == [d EXCEPT !.ns[n].timedout = late]
           b == IF late > MaxTimeouts THEN b1 ELSE b2
           q == [b.req[r] EXCEPT !.timer = FALSE]
           x == [b EXCEPT !.req[r].timer = FALSE]
           a == Assign(x, r)
           t == evdns_request_transmit(a, r, c)
           f == Finish(b, r, "timeout", c)
           y == IF b.req[r].tx >= MaxTx THEN f ELSE t
<1>1. d.alive /\ Heard(y, c, {}) /\ UNCHANGED <<asked, got>> /\ d.req[r].timer
  BY DEF evdns_request_timeout_callback, Do
<1>2. Ring(d) /\ (r \in Handle => In(r, d.inflight))
  <2>1. Well(d)
    BY DEF DnsInv, Base
  <2>2. r \in Handle => In(r, d.inflight)
    BY <1>1, <2>1 DEF Well, HandleOk, Idle
  <2>3. d.inflight # <<>> \/ r \in NS
    BY <2>2 DEF Req, In, Range
  <2> QED  BY <1>1, <2>2, <2>3, RingOrDry DEF Dry, Idle
<1>3. Quiet(b, d)
  <2>1. b0 = [d EXCEPT !.ns = v0] /\ b2 = [d EXCEPT !.ns = v2]
    OBVIOUS
  <2> HIDE DEF b0, b2, v0, v2
  <2>2. Quiet(b0, d) /\ Quiet(b2, d)
    BY <1>2, <2>1, ServerSet
  <2>3. Quiet(b1, b0)
    BY <1>2, <2>2, QuietRing, FailedKeeps
  <2> HIDE DEF b1
  <2> QED  BY <2>2, <2>3, QuietAgain
<1> HIDE DEF b
<1>4. Ring(b) /\ (r \in Handle => In(r, b.inflight)) /\ DOMAIN b.req[r] = ReqFields
      /\ DOMAIN b = Fields /\ DOMAIN b.req = Req
  BY <1>2, <1>3, QuietRing DEF Quiet, SameLists, ReqsOk
<1>5. Goes(f, b, {r})
  BY <1>4, FinishKeeps
<1>6. x = [b EXCEPT !.req[r] = q] /\ DOMAIN q = ReqFields /\ q.ns = b.req[r].ns
  BY <1>4 DEF ReqFields
<1> HIDE DEF x, q
<1>7. Quiet(x, b)
  BY <1>4, <1>6, ReqSet
<1>8. Ring(x) /\ (r \in Handle => In(r, x.inflight))
  BY <1>4, <1>7, QuietRing DEF Quiet, SameLists
<1>9. Quiet(a, x)
  BY <1>8, AssignKeeps
<1> HIDE DEF a
<1>10. Ring(a) /\ (r \in Handle => In(r, a.inflight))
  BY <1>8, <1>9, QuietRing DEF Quiet, SameLists
<1>11. Quiet(t, a)
  BY <1>10, RequestTransmitKeeps
<1> HIDE DEF t, f
<1>12. Goes(t, b, {r})
  BY <1>4, <1>7, <1>9, <1>11, QuietAgain, QuietGoes
<1>13. Goes(y, d, {r})
  BY <1>2, <1>3, <1>5, <1>12, QuietGoes, GoesAgain
<1> HIDE DEF y
<1> QED  BY <1>1, <1>2, <1>13, RingStep

\* A probe is a request that no call owns.
LEMMA SendProbeKeeps ==
  ASSUME Apart, DnsInv, NEW n \in NS, NEW c, nameserver_send_probe(n, c)
  PROVE  DnsInv'
<1> DEFINE new == request_new(d, c)
           id == transaction_id_pick(d, c)
           req == [new.req EXCEPT !.ns = n, !.id = id]
           v1 == [new.b.ns EXCEPT ![n].probe = TRUE]
           v == [v1 EXCEPT ![n].timer = FALSE]
           b == [new.b EXCEPT !.ns[n].probe = TRUE, !.ns[n].timer = FALSE]
           y == request_submit(b, n, req, c)
<1>1. d.alive /\ Heard(y, c, {}) /\ UNCHANGED <<asked, got>> /\ d.ns[n].timer
  BY DEF nameserver_send_probe, Do
<1>2. Ring(d)
  BY <1>1, RingOrDry DEF Dry, NoServer
<1>3. Quiet(new.b, d) /\ NewReq(new.req)
  BY <1>2, NewFacts
<1> HIDE DEF new, id
<1>4. NewReq(req)
  BY <1>3 DEF NewReq, ReqFields
<1>5. b = [new.b EXCEPT !.ns = v]
  <2>1. DOMAIN new.b = Fields
    BY <1>3 DEF Quiet
  <2> QED  BY <2>1 DEF Fields
<1> HIDE DEF b, v, v1, req
<1>6. Quiet(b, new.b)
  BY <1>2, <1>3, <1>5, QuietRing, ServerSet
<1>7. Quiet(b, d) /\ Ring(b)
  BY <1>2, <1>3, <1>6, QuietAgain, QuietRing
<1>8. n \in Req /\ n \notin Handle
  BY DEF Apart, Req
<1>9. /\ Ring(y) /\ y.alive = b.alive
      /\ \A h \in Handle : /\ Tot(y, h) = Tot(b, h) + Counts(h, n)
                           /\ Live(y, h) => h = n \/ Live(b, h)
                           /\ In(h, b.inflight) => In(h, y.inflight)
  <2> HIDE DEF y
  <2>1. y = request_submit(b, n, req, c)
    BY DEF y
  <2> QED  BY <1>4, <1>7, <1>8, <2>1, SubmitKeeps
<1> HIDE DEF y
<1>10. Goes(y, b, {})
  <2>1. \A h \in Handle : Tot(y, h) = Tot(b, h)
    <3> SUFFICES ASSUME NEW h \in Handle
                 PROVE  Tot(y, h) = Tot(b, h)
      OBVIOUS
    <3>1. Tot(y, h) = Tot(b, h) + Counts(h, n) /\ Tot(b, h) \in Nat /\ Counts(h, n) = 0
      BY <1>7, <1>8, <1>9, Numbers DEF Ring, Counts
    <3> QED  BY <3>1
  <2> QED  BY <1>8, <1>9, <2>1 DEF Goes
<1>11. Goes(y, d, {})
  BY <1>2, <1>7, <1>10, QuietGoes, GoesAgain
<1> QED  BY <1>1, <1>2, <1>11, RingStep

\* request_new without servers: the request has none either.
LEMMA NewDry ==
  ASSUME NEW b, Well(b), b.ring = <<>>, NEW c
  PROVE  /\ request_new(b, c).b = b
         /\ NewReq(request_new(b, c).req) /\ request_new(b, c).req.ns = NoNs
<1> DEFINE id == transaction_id_pick(b, c)
           p == nameserver_pick(b)
           q == [NoReq EXCEPT !.ns = p.ns, !.id = id]
<1>1. p = [b |-> b, ns |-> NoNs]
  BY DEF nameserver_pick
<1>2. p.b = b /\ p.ns = NoNs
  BY <1>1
<1>3. request_new(b, c) = IF b.nin < b.max THEN [b |-> p.b, req |-> q] ELSE [b |-> b, req |-> NoReq]
  BY DEF request_new
<1> HIDE DEF p, id
<1>4. NewReq(NoReq) /\ NoReq.ns = NoNs /\ NewReq(q) /\ q.ns = NoNs
  BY <1>2 DEF NewReq, NoReq, ReqFields
<1> HIDE DEF q
<1> QED  BY <1>2, <1>3, <1>4

\* A call that was not made has no request yet.
LEMMA NotAsked ==
  ASSUME DnsInv, NEW h \in Handle, h \notin asked
  PROVE  ~Live(d, h) /\ Tot(d, h) = 0
<1>1. Well(d) /\ got[h] \in Nat /\ got[h] + Tot(d, h) = 0
  BY DEF DnsInv, Base
<1>2. /\ Occ(d.inflight, h) \in Nat /\ Occ(d.waiting, h) \in Nat
      /\ Occ(Owners(d.deferred), h) \in Nat /\ Tot(d, h) \in Nat
      /\ Occ(d.inflight, h) = 0 <=> ~In(h, d.inflight)
      /\ Occ(d.waiting, h) = 0 <=> ~In(h, d.waiting)
  BY <1>1, Numbers
<1>3. Tot(d, h) = 0
  BY <1>1, <1>2
<1>4. Occ(d.inflight, h) = 0 /\ Occ(d.waiting, h) = 0
  BY <1>2, <1>3 DEF Tot
<1> QED  BY <1>2, <1>3, <1>4 DEF Live

\* A call makes one request, in flight or waiting.
LEMMA ResolveKeeps ==
  ASSUME Apart, DnsInv, NEW h \in Handle, NEW c, evdns_base_resolve(h, c)
  PROVE  DnsInv'
<1> DEFINE m == request_new(d, c)
           g == m.b.search \cup {h}
           v == [m.b.index EXCEPT ![h] = IF h \in RawFirst THEN -1 ELSE 0]
           x == [m.b EXCEPT !.search = g, !.index = v]
           w == IF h \in Searching /\ NumDomains > 0 THEN x ELSE m.b
           y == request_submit(w, h, m.req, c)
<1>1. /\ d.alive /\ h \notin asked /\ asked' = asked \cup {h} /\ UNCHANGED got
      /\ Heard(y, c, {})
  <2>1. x = [m.b EXCEPT !.search = @ \cup {h},
                        !.index[h] = IF h \in RawFirst THEN -1 ELSE 0]
    OBVIOUS
  <2>2. search_request_new(d, h, c) = request_submit(x, h, m.req, c)
    BY <2>1 DEF search_request_new
  <2> QED  BY <2>2 DEF evdns_base_resolve, Do
<1>2. ~Live(d, h) /\ Tot(d, h) = 0
  BY <1>1, NotAsked
<1>3. h \in Req
  BY DEF Req
<1>4. Base(y) /\ \A k \in Handle : Tot(y, k) = Tot(d, k) + Counts(k, h)
  <2>1. CASE Ring(d)
    <3>1. Quiet(m.b, d) /\ NewReq(m.req)
      BY <2>1, NewFacts
    <3> HIDE DEF m, g, v
    <3>2. Quiet(x, m.b)
      BY <2>1, <3>1, QuietRing, ServerSet
    <3> HIDE DEF x
    <3>3. Quiet(w, d)
      BY <3>1, <3>2, QuietAgain
    <3> HIDE DEF w
    <3>4. Ring(w) /\ ~Live(w, h)
      BY <1>2, <2>1, <3>3, QuietRing DEF Quiet, SameLists, Live
    <3> DEFINE yy == y
    <3> HIDE DEF yy
    <3>5. yy = request_submit(w, h, m.req, c)
      BY DEF yy
    <3>6. Ring(yy) /\ yy.alive = w.alive
          /\ \A k \in Handle : Tot(yy, k) = Tot(w, k) + Counts(k, h)
      BY <1>3, <3>1, <3>4, <3>5, SubmitKeeps
    <3>7. \A k \in Handle : Tot(w, k) = Tot(d, k)
      BY <3>3 DEF Quiet, SameLists, Tot
    <3>8. yy.alive /\ d.alive = yy.alive
      BY <1>1, <3>3, <3>6 DEF Quiet, SameLists
    <3>9. Base(yy)
      BY <3>6, <3>8 DEF Base, Ring, DnsInv
    <3> QED  BY <3>6, <3>7, <3>9 DEF yy
  <2>2. CASE Well(d) /\ d.ring = <<>> /\ Dry(d)
    <3>1. m.b = d /\ NewReq(m.req) /\ m.req.ns = NoNs
      BY <2>2, NewDry
    <3> HIDE DEF m, g, v
    <3>13. x = [m.b EXCEPT !.search = g, !.index = v]
      OBVIOUS
    <3> HIDE DEF x
    <3>14. x = [d EXCEPT !.search = g, !.index = v]
      BY <3>1, <3>13
    <3>15. Well(d)
      BY <2>2
    <3>2. Well(x) /\ SameLists(x, d) /\ x.ring = d.ring /\ x.req = d.req /\ x.ns = d.ns
      BY <3>14, <3>15 DEF Well, SameLists, HandleOk, ReqsOk, Fields
    <3>3. Well(w) /\ SameLists(w, d) /\ w.ring = d.ring /\ w.req = d.req /\ w.ns = d.ns
      BY <2>2, <3>1, <3>2 DEF SameLists
    <3> HIDE DEF w
    <3> DEFINE yy == y
    <3> HIDE DEF yy
    <3>4. yy = Entered(w, h, m.req)
      BY <3>1, SubmitIs DEF yy
    <3>5. ~Live(w, h) /\ DOMAIN w = Fields
      BY <1>2, <3>3 DEF SameLists, Live, Well
    <3>6. Well(yy) /\ \A k \in Handle : Tot(yy, k) = Tot(w, k) + Counts(k, h)
      BY <1>3, <3>1, <3>3, <3>4, <3>5, EnteredWell
    <3>7. EnteredIn(yy, w, h, m.req)
      BY <3>4, <3>5, EnteredFields
    <3>8. yy.req = [d.req EXCEPT ![h] = m.req] /\ yy.inflight = d.inflight
          /\ yy.ring = d.ring /\ yy.ns = d.ns /\ yy.deferred = d.deferred /\ yy.alive = d.alive
      BY <3>1, <3>3, <3>7 DEF EnteredIn, SameLists
    <3>9. \A n \in NS : yy.req[n] = d.req[n]
      <4>1. DOMAIN d.req = Req
        BY <2>2 DEF Well, ReqsOk
      <4> QED  BY <3>8, <4>1 DEF Apart, Req
    <3>10. Dry(yy)
      BY <2>2, <3>8, <3>9 DEF Dry
    <3>11. Base(yy)
      BY <1>1, <3>6, <3>8, <3>10 DEF Base, DnsInv
    <3>12. \A k \in Handle : Tot(w, k) = Tot(d, k)
      BY <3>3 DEF SameLists, Tot
    <3> QED  BY <3>6, <3>11, <3>12 DEF yy
  <2> QED  BY <1>1, <2>1, <2>2, RingOrDry
<1> HIDE DEF y
<1>5. d' = [y EXCEPT !.hit = FALSE]
  BY <1>1 DEF Heard, Met
<1>6. Base(d') /\ \A k \in Handle : Tot(d', k) = Tot(d, k) + Counts(k, h)
  BY <1>4, <1>5, HitOff
<1>7. ASSUME NEW k \in Handle
      PROVE  got[k] + Tot(d', k) = IF k \in asked' \ aborted THEN 1 ELSE 0
  <2>1. got[k] \in Nat /\ Tot(d, k) \in Nat /\ (got[k] + Tot(d, k) = IF k \in asked \ aborted THEN 1 ELSE 0)
        /\ aborted \subseteq asked
    BY Numbers DEF DnsInv, Base
  <2>2. Tot(d', k) = Tot(d, k) + Counts(k, h)
    BY <1>6
  <2>3. CASE k = h
    <3>1. Tot(d', k) = 1 /\ got[k] = 0
      BY <1>1, <2>1, <2>2, <2>3, <1>2 DEF Counts
    <3> QED  BY <1>1, <2>1, <2>3, <3>1
  <2>4. CASE k # h
    <3>1. Tot(d', k) = Tot(d, k)
      BY <2>1, <2>2, <2>4 DEF Counts
    <3> QED  BY <1>1, <2>1, <2>4, <3>1
  <2> QED  BY <2>3, <2>4
<1>8. UNCHANGED aborted
  BY <1>1 DEF Heard
<1> QED  BY <1>1, <1>6, <1>7, <1>8 DEF DnsInv

\* What is left of a base without servers when a waiting request ends.
Ended(y, b, r) ==
  /\ Well(y) /\ y.alive = b.alive /\ \A h \in Handle : Tot(y, h) = Tot(b, h)
  /\ y.ring = <<>> /\ y.inflight = <<>> /\ y.ns = b.ns
  /\ y.req = [b.req EXCEPT ![r] = NoReq]
  /\ \E e : e.h = r /\ y.deferred = Append(b.deferred, e)

\* The end of a waiting request without servers.
LEMMA EndDry ==
  ASSUME NEW b, Well(b), b.ring = <<>>, b.inflight = <<>>,
         NEW r \in Req, In(r, b.waiting), NEW c, NEW err, NEW answer \in Req \cup {Late},
         err = "none" => answer = r,
         NEW y, y = FreeHandle(reply_schedule_callback(b, r, err, answer), r, "waiting", c)
  PROVE  Stopped(y) \/ Ended(y, b, r)
<1> DEFINE s == reply_schedule_callback(b, r, err, answer)
           o == SearchOver(s, r)
           m == Removed(o, r, "waiting")
           e == [h |-> r, err |-> Class(err), answer |-> answer]
<1>1. y = evdns_requests_pump_waiting_queue(m, c)
  BY FinishedIs
<1>2. s.deferred = Append(b.deferred, e) /\ e.h = r
  BY DEF reply_schedule_callback, Well, Fields
<1> DEFINE ss == s
<1> HIDE DEF ss
<1>3. ss = reply_schedule_callback(b, r, err, answer)
  BY DEF ss
<1>4. /\ Well(ss) /\ DOMAIN ss = Fields
      /\ \A h \in Handle : Tot(ss, h) = Tot(b, h) + Counts(h, r)
      /\ ss.inflight = b.inflight /\ ss.waiting = b.waiting /\ ss.ring = b.ring
      /\ ss.alive = b.alive /\ ss.req = b.req /\ ss.ns = b.ns /\ ss.null = b.null
  BY <1>3, ScheduleWell
<1> DEFINE oo == SearchOver(ss, r)
           mm == Removed(oo, r, "waiting")
<1>5. m = mm
  BY <1>3
<1> HIDE DEF oo
<1>6. oo = SearchOver(ss, r)
  BY DEF oo
<1>7. /\ Well(oo) /\ SameLists(oo, ss) /\ oo.ring = ss.ring /\ oo.req = ss.req
      /\ oo.ns = ss.ns /\ oo.null = ss.null
  BY <1>4, <1>6, SearchOverWell
<1>8. "waiting" \in Lists /\ List(oo, "waiting") = oo.waiting /\ oo.waiting = b.waiting
      /\ DOMAIN oo = Fields
  BY <1>4, <1>7 DEF Lists, List, SameLists, Well
<1>9. RemovedFrom(mm, oo, r, "waiting")
  BY <1>8, RemovedFields
<1> HIDE DEF m, mm, s
<1>10. mm = Removed(oo, r, "waiting")
  BY DEF mm
<1>11. Well(mm) /\ \A h \in Handle : Tot(mm, h) = Tot(oo, h) - Counts(h, r)
  BY <1>7, <1>8, <1>10, RemovedWell
<1>12. /\ mm.ring = <<>> /\ mm.inflight = <<>> /\ mm.ns = b.ns /\ mm.alive = b.alive
       /\ mm.req = [b.req EXCEPT ![r] = NoReq] /\ mm.deferred = ss.deferred
  BY <1>4, <1>7, <1>9 DEF RemovedFrom, SameLists
<1>13. \A h \in Handle : Tot(mm, h) = Tot(b, h)
  <2> SUFFICES ASSUME NEW h \in Handle
               PROVE  Tot(mm, h) = Tot(b, h)
    OBVIOUS
  <2>1. Tot(oo, h) = Tot(ss, h)
    BY <1>7 DEF Tot, SameLists
  <2>2. Tot(b, h) \in Nat /\ Counts(h, r) \in Nat
    BY Numbers DEF Counts
  <2>3. Tot(mm, h) = Tot(oo, h) - Counts(h, r) /\ Tot(ss, h) = Tot(b, h) + Counts(h, r)
    BY <1>4, <1>11
  <2> QED  BY <2>1, <2>2, <2>3
<1>14. mm.deferred = Append(b.deferred, e)
  BY <1>2, <1>12 DEF ss
<1> HIDE DEF e
<1>15. Ended(mm, b, r)
  BY <1>2, <1>11, <1>12, <1>13, <1>14 DEF Ended
<1> DEFINE p == evdns_requests_pump_waiting_queue(mm, c)
<1>16. p = mm \/ Stopped(p)
  BY <1>11, <1>12, PumpDry
<1> HIDE DEF p
<1>17. y = p
  BY <1>1, <1>5 DEF p
<1> QED  BY <1>15, <1>16, <1>17

\* The base is still without servers.
LEMMA EndedDry ==
  ASSUME NEW b, Dry(b), Well(b), NEW r \in Handle, Apart, NEW y, Ended(y, b, r)
  PROVE  Dry(y)
<1>1. PICK e : e.h = r /\ y.deferred = Append(b.deferred, e)
  BY DEF Ended
<1>2. DOMAIN b.req = Req /\ b.deferred \in Seq(Due)
  BY DEF Well, ReqsOk
<1>3. \A n \in NS : Idle(y.req[n])
  <2> SUFFICES ASSUME NEW n \in NS
               PROVE  y.req[n] = b.req[n]
    BY DEF Dry
  <2>1. n # r /\ n \in Req
    BY DEF Apart, Req
  <2> QED  BY <1>2, <2>1 DEF Ended
<1>4. \A i \in DOMAIN y.deferred : y.deferred[i].h \in Handle
  <2> SUFFICES ASSUME NEW i \in DOMAIN y.deferred
               PROVE  y.deferred[i].h \in Handle
    OBVIOUS
  <2>1. CASE i = Len(b.deferred) + 1
    <3>1. y.deferred[i] = e
      BY <1>1, <1>2, <2>1
    <3> QED  BY <1>1, <3>1
  <2>2. CASE i # Len(b.deferred) + 1
    <3>1. i \in DOMAIN b.deferred /\ y.deferred[i] = b.deferred[i]
      BY <1>1, <1>2, <2>2
    <3> QED  BY <3>1 DEF Dry
  <2> QED  BY <2>1, <2>2
<1> QED  BY <1>3, <1>4 DEF Dry, Ended

\* A call is cancelled.
LEMMA CancelStep ==
  ASSUME Apart, Careful, DnsInv, NEW h \in Handle, NEW c, Cancel(h, c)
  PROVE  DnsInv'
<1> DEFINE y == evdns_cancel_request(d, h, c)
<1>1. d.alive /\ Live(d, h) /\ ~y.null /\ Heard(y, c, {}) /\ UNCHANGED <<asked, got>>
  BY DEF Cancel, Do
<1>2. CASE Ring(d)
  <2>1. Goes(y, d, {h})
    BY <1>2, CancelKeeps DEF Apart
  <2> HIDE DEF y
  <2> QED  BY <1>1, <1>2, <2>1, RingStep
<1>3. CASE Well(d) /\ d.ring = <<>> /\ Dry(d)
  <2> DEFINE f == FreeHandle(reply_schedule_callback(d, h, "cancel", h), h, "waiting", c)
  <2>1. d.inflight = <<>> /\ ~In(h, d.inflight) /\ In(h, d.waiting) /\ h \in Req
    BY <1>1, <1>3 DEF Dry, In, Range, Live, Req
  <2>2. d.req[h].ns = NoNs
    BY <1>3, <2>1 DEF Well, HandleOk, Idle
  <2>3. y = IF Pending(d, h) THEN d ELSE f
    BY <1>1, <2>2 DEF evdns_cancel_request
  <2> HIDE DEF f, y
  <2>4. Stopped(f) \/ Ended(f, d, h)
    <3>1. f = FreeHandle(reply_schedule_callback(d, h, "cancel", h), h, "waiting", c)
      BY DEF f
    <3> QED  BY <1>3, <2>1, <3>1, EndDry
  <2>5. y = d \/ Ended(y, d, h)
    BY <1>1, <2>3, <2>4 DEF Stopped
  <2>6. CASE y = d
    <3>1. Base(y)
      BY <2>6 DEF DnsInv
    <3> QED  BY <1>1, <2>6, <3>1, BaseStep
  <2>7. CASE Ended(y, d, h)
    <3>1. Dry(y)
      BY <1>3, <2>7, EndedDry
    <3>2. Base(y)
      BY <1>1, <2>7, <3>1 DEF Base, DnsInv, Ended
    <3>3. \A k \in Handle : Tot(y, k) = Tot(d, k)
      BY <2>7 DEF Ended
    <3> QED  BY <1>1, <3>2, <3>3, BaseStep
  <2> QED  BY <2>5, <2>6, <2>7
<1> HIDE DEF y
<1> QED  BY <1>1, <1>2, <1>3, RingOrDry

\* evdns_base_resume.
LEMMA ResumeKeeps ==
  ASSUME Careful, DnsInv, NEW c, evdns_base_resume(c)
  PROVE  DnsInv'
<1> DEFINE y == evdns_requests_pump_waiting_queue(d, c)
<1>1. d.alive /\ ~y.null /\ Heard(y, c, {}) /\ UNCHANGED <<asked, got>>
  BY DEF evdns_base_resume, Do
<1>2. CASE Ring(d)
  <2>1. Goes(y, d, {})
    BY <1>2, PumpKeeps
  <2> HIDE DEF y
  <2> QED  BY <1>1, <1>2, <2>1, RingStep
<1>3. CASE Well(d) /\ d.ring = <<>> /\ Dry(d)
  <2>1. y = d \/ Stopped(y)
    BY <1>3, PumpDry DEF Dry
  <2> HIDE DEF y
  <2>2. y = d
    BY <1>1, <2>1 DEF Stopped
  <2>3. Base(y)
    BY <2>2 DEF DnsInv
  <2> QED  BY <1>1, <2>2, <2>3, BaseStep
<1> HIDE DEF y
<1> QED  BY <1>1, <1>2, <1>3, RingOrDry

\* The limit of requests in flight is set.
LEMMA LimitKeeps ==
  ASSUME DnsInv, NEW limit \in Nat, NEW c, evdns_base_set_max_requests_inflight(limit, c)
  PROVE  DnsInv'
<1> DEFINE m == IF limit < 1 THEN 1 ELSE limit
           y == [d EXCEPT !.max = m]
<1>1. d.alive /\ Heard(y, c, {}) /\ UNCHANGED <<asked, got>>
  BY DEF evdns_base_set_max_requests_inflight, Do
<1>0. m \in Nat
  OBVIOUS
<1> HIDE DEF m
<1>2. DOMAIN d = Fields /\ Base(d)
  BY DEF DnsInv, Base, Well
<1>3. /\ DOMAIN y = Fields /\ y.max = m /\ y.ring = d.ring /\ y.ns = d.ns /\ y.req = d.req
      /\ y.inflight = d.inflight /\ y.waiting = d.waiting /\ y.deferred = d.deferred
      /\ y.nwait = d.nwait /\ y.alive = d.alive
  BY <1>2 DEF Fields
<1> HIDE DEF y
<1>4. Well(y)
  BY <1>0, <1>2, <1>3 DEF Base, Well, ReqsOk, HandleOk
<1>5. Base(y)
  BY <1>2, <1>3, <1>4 DEF Base, Dry, Dead
<1>6. \A h \in Handle : Tot(y, h) = Tot(d, h)
  BY <1>3 DEF Tot
<1> QED  BY <1>1, <1>5, <1>6, BaseStep

\* A server is added before the second one.
LEMMA InsertSecond ==
  ASSUME NEW S, NEW s \in Seq(S), s # <<>>, NEW e \in S
  PROVE  InsertAt(s, 2, e) \in Seq(S) /\ InsertAt(s, 2, e) # <<>>
<1> DEFINE a == SubSeq(s, 1, 1)
           t == SubSeq(s, 2, Len(s))
           b == <<e>>
<1>1. Len(s) \in Nat \ {0}
  OBVIOUS
<1>2. a \in Seq(S) /\ t \in Seq(S) /\ Len(a) = 1 /\ b \in Seq(S) /\ Len(b) = 1 /\ Len(t) \in Nat
  BY <1>1
<1>3. InsertAt(s, 2, e) = (a \o b) \o t
  BY DEF InsertAt
<1> HIDE DEF a, b, t
<1>4. a \o b \in Seq(S) /\ Len(a \o b) = 2
  <2>1. a \o b \in Seq(S) /\ Len(a \o b) = Len(a) + Len(b)
    BY <1>2, CatFacts
  <2> QED  BY <1>2, <2>1
<1> DEFINE ab == a \o b
<1> HIDE DEF ab
<1>5. ab \o t \in Seq(S) /\ Len(ab \o t) = Len(ab) + Len(t) /\ Len(ab) = 2
  BY <1>2, <1>4, CatFacts DEF ab
<1> DEFINE r == ab \o t
<1>6. InsertAt(s, 2, e) = r
  BY <1>3 DEF ab
<1> HIDE DEF r
<1>7. r \in Seq(S) /\ Len(r) # 0
  BY <1>2, <1>5 DEF r
<1> QED  BY <1>6, <1>7

\* A server is added.
LEMMA AddKeeps ==
  ASSUME DnsInv, NEW n \in NS, NEW c, _evdns_nameserver_add_impl(n, c)
  PROVE  DnsInv'
<1> DEFINE t == IF d.ring = <<>> THEN <<n>> ELSE InsertAt(d.ring, 2, n)
           v == [d.ns EXCEPT ![n] = NewServer]
           y == [d EXCEPT !.ring = t, !.ns = v, !.good = @ + 1]
<1>1. d.alive /\ Heard(y, c, {}) /\ UNCHANGED <<asked, got>>
  BY DEF _evdns_nameserver_add_impl, Do
<1>2. DOMAIN d = Fields /\ Base(d) /\ d.ring \in Seq(NS)
  BY DEF DnsInv, Base, Well
<1>3. t \in Seq(NS) /\ t # <<>>
  BY <1>2, InsertSecond
<1> HIDE DEF t, v
<1>4. /\ DOMAIN y = Fields /\ y.max = d.max /\ y.ring = t /\ y.req = d.req
      /\ y.inflight = d.inflight /\ y.waiting = d.waiting /\ y.deferred = d.deferred
      /\ y.nwait = d.nwait /\ y.alive = d.alive
  BY <1>2 DEF Fields
<1> HIDE DEF y
<1>5. Well(y)
  BY <1>2, <1>3, <1>4 DEF Base, Well, ReqsOk, HandleOk
<1>6. Base(y)
  BY <1>1, <1>2, <1>3, <1>4, <1>5 DEF Base
<1>7. \A h \in Handle : Tot(y, h) = Tot(d, h)
  BY <1>4 DEF Tot
<1> QED  BY <1>1, <1>6, <1>7, BaseStep

\* The first callback that is due is taken off.
LEMMA TakenFacts ==
  ASSUME NEW b, Well(b), b.deferred # <<>>, NEW x, x = [b EXCEPT !.deferred = Tail(@)]
  PROVE  /\ Well(x) /\ x.deferred = Tail(b.deferred) /\ Head(b.deferred) \in Due
         /\ x.inflight = b.inflight /\ x.waiting = b.waiting /\ x.ring = b.ring
         /\ x.req = b.req /\ x.ns = b.ns /\ x.alive = b.alive
         /\ \A h \in Handle : Tot(b, h) = Tot(x, h) + Counts(h, Head(b.deferred).h)
<1>1. DOMAIN b = Fields /\ b.deferred \in Seq(Due)
  BY DEF Well
<1>2. Tail(b.deferred) \in Seq(Due) /\ Head(b.deferred) \in Due
  BY <1>1
<1>3. /\ DOMAIN x = Fields /\ x.deferred = Tail(b.deferred)
      /\ x.inflight = b.inflight /\ x.waiting = b.waiting /\ x.ring = b.ring
      /\ x.req = b.req /\ x.ns = b.ns /\ x.alive = b.alive
      /\ x.max = b.max /\ x.nwait = b.nwait
  BY <1>1 DEF Fields
<1>4. Well(x)
  BY <1>2, <1>3 DEF Well, ReqsOk, HandleOk
<1>5. ASSUME NEW h \in Handle
      PROVE  Tot(b, h) = Tot(x, h) + Counts(h, Head(b.deferred).h)
  <2> DEFINE o == Owners(b.deferred)
  <2>1. o \in Seq(Req) /\ Tot(x, h) \in Nat /\ Occ(Owners(x.deferred), h) \in Nat
        /\ Occ(b.inflight, h) \in Nat /\ Occ(b.waiting, h) \in Nat
    BY <1>4, Numbers
  <2>2. Len(b.deferred) \in Nat \ {0} /\ DOMAIN b.deferred = 1 .. Len(b.deferred)
        /\ DOMAIN Tail(b.deferred) = 1 .. Len(b.deferred) - 1
        /\ \A i \in 1 .. Len(b.deferred) - 1 : Tail(b.deferred)[i] = b.deferred[i + 1]
        /\ Head(b.deferred) = b.deferred[1]
    BY <1>1
  <2>3. DOMAIN o = 1 .. Len(b.deferred) /\ \A i \in 1 .. Len(b.deferred) : o[i] = b.deferred[i].h
    BY <2>2 DEF Owners
  <2> DEFINE ot == Owners(Tail(b.deferred))
  <2>4. DOMAIN ot = 1 .. Len(b.deferred) - 1
        /\ \A i \in 1 .. Len(b.deferred) - 1 : ot[i] = b.deferred[i + 1].h
    BY <2>2 DEF Owners
  <2>4a. ot \in Seq(Req)
    BY <1>3, <1>4, Numbers
  <2> HIDE DEF o, ot
  <2>5. Len(o) = Len(b.deferred) /\ o # <<>> /\ Head(o) = o[1]
    BY <2>1, <2>2, <2>3
  <2>6. DOMAIN Tail(o) = 1 .. Len(o) - 1 /\ \A i \in 1 .. Len(o) - 1 : Tail(o)[i] = o[i + 1]
    BY <2>1, <2>5
  <2>6a. Tail(o) \in Seq(Req)
    BY <2>1, <2>5
  <2>7. Tail(o) = ot
    <3>1. Len(Tail(o)) = Len(ot) /\ Len(ot) = Len(b.deferred) - 1
      BY <2>2, <2>4, <2>4a, <2>5, <2>6, <2>6a
    <3>2. \A i \in 1 .. Len(ot) : Tail(o)[i] = ot[i]
      <4> SUFFICES ASSUME NEW i \in 1 .. Len(ot)
                   PROVE  Tail(o)[i] = ot[i]
        OBVIOUS
      <4>1. i \in 1 .. Len(b.deferred) - 1 /\ i + 1 \in 1 .. Len(b.deferred)
        BY <2>2, <3>1
      <4> QED  BY <2>3, <2>4, <2>5, <2>6, <4>1
    <3> QED  BY <2>4a, <2>6a, <3>1, <3>2, SeqEqual
  <2>8. Head(o) = Head(b.deferred).h
    BY <2>2, <2>3, <2>5
  <2>9. Occ(o, h) = Occ(Tail(o), h) + IF h = Head(o) THEN 1 ELSE 0
    BY <2>1, <2>5, OccTail
  <2>10. Occ(o, h) = Occ(Owners(x.deferred), h) + Counts(h, Head(b.deferred).h)
    BY <1>3, <2>7, <2>8, <2>9 DEF Counts, ot
  <2>11. Tot(b, h) = Occ(o, h) + Occ(b.inflight, h) + Occ(b.waiting, h)
         /\ Tot(x, h) = Occ(Owners(x.deferred), h) + Occ(b.inflight, h) + Occ(b.waiting, h)
    BY <1>3 DEF Tot, o
  <2>12. Counts(h, Head(b.deferred).h) \in Nat
    BY DEF Counts
  <2> QED  BY <2>1, <2>10, <2>11, <2>12
<1> QED  BY <1>2, <1>3, <1>4, <1>5

\* The base without its first callback.
LEMMA TakenBase ==
  ASSUME NEW b, Base(b), b.deferred # <<>>, NEW x, x = [b EXCEPT !.deferred = Tail(@)]
  PROVE  Base(x)
<1>1. /\ Well(x) /\ x.deferred = Tail(b.deferred) /\ b.deferred \in Seq(Due)
      /\ x.inflight = b.inflight /\ x.ring = b.ring
      /\ x.req = b.req /\ x.ns = b.ns /\ x.alive = b.alive
  <2>1. Well(b)
    BY DEF Base
  <2> QED  BY <2>1, TakenFacts DEF Well
<1>2. \A i \in DOMAIN x.deferred : i + 1 \in DOMAIN b.deferred
                                   /\ x.deferred[i] = b.deferred[i + 1]
  BY <1>1
<1>3. Dry(b) => Dry(x)
  BY <1>1, <1>2 DEF Dry
<1> QED  BY <1>1, <1>3 DEF Base, Dead

\* A server of a base that was freed: only the server changes.
LEMMA DeadProbe ==
  ASSUME NEW b, Well(b), Dead(b), NEW n \in NS, NEW err, NEW c,
         NEW y, y = nameserver_probe_callback(b, n, err, c)
  PROVE  /\ Well(y) /\ Dead(y) /\ SameLists(y, b)
<1> DEFINE v == [b.ns EXCEPT ![n].probe = FALSE]
           x == [b EXCEPT !.ns[n].probe = FALSE]
           w == [x.ns EXCEPT ![n].timer = (b.ns[n].state = 0)]
           z == [x EXCEPT !.ns[n].timer = b.ns[n].state = 0]
           u == nameserver_up(x, n, c)
<1>1. y = IF err = "cancel" THEN b ELSE IF err \in {"none", "notexist"} THEN u ELSE z
  BY DEF nameserver_probe_callback
<1>2. x = [b EXCEPT !.ns = v] /\ DOMAIN b = Fields
  BY DEF Well
<1>3. /\ DOMAIN v = NS
      /\ \A k \in NS : /\ DOMAIN v[k] = ServerFields
                       /\ v[k].probe \in BOOLEAN /\ ~v[k].probe
  BY DEF Dead, ServerFields
<1> HIDE DEF v, x
<1>4. /\ DOMAIN x = Fields /\ SameLists(x, b) /\ x.ns = v /\ x.req = b.req /\ x.ring = b.ring
  BY <1>2 DEF Fields, SameLists
<1>5. Well(x) /\ Dead(x)
  BY <1>3, <1>4 DEF Well, Dead, SameLists, ReqsOk, HandleOk
<1>6. z = [x EXCEPT !.ns = w]
  OBVIOUS
<1>7. /\ DOMAIN w = NS
      /\ \A k \in NS : /\ DOMAIN w[k] = ServerFields
                       /\ w[k].probe \in BOOLEAN /\ ~w[k].probe
  BY <1>3, <1>4 DEF ServerFields
<1> HIDE DEF w, z
<1>8. /\ DOMAIN z = Fields /\ SameLists(z, x) /\ z.ns = w /\ z.req = x.req /\ z.ring = x.ring
  BY <1>4, <1>6 DEF Fields, SameLists
<1>9. Well(z) /\ Dead(z)
  BY <1>5, <1>7, <1>8 DEF Well, Dead, SameLists, ReqsOk, HandleOk
<1>10. Well(u) /\ Dead(u) /\ SameLists(u, x)
  <2> DEFINE v1 == [x.ns EXCEPT ![n].timer = FALSE]
             x1 == [x EXCEPT !.ns[n].timer = FALSE]
             v2 == [x1.ns EXCEPT ![n].probe = FALSE]
             v3 == [v2 EXCEPT ![n].state = 1]
             v4 == [v3 EXCEPT ![n].timedout = 0]
             y1 == IF x1.ns[n].probe THEN evdns_cancel_request(x1, n, c) ELSE x1
             u1 == [y1 EXCEPT !.ns[n].probe = FALSE, !.ns[n].state = 1,
                              !.ns[n].timedout = 0, !.good = @ + 1]
  <2>1. u = IF x.ns[n].state = 1 THEN x ELSE u1
    BY DEF nameserver_up
  <2>2. x1 = [x EXCEPT !.ns = v1]
    OBVIOUS
  <2>3. /\ DOMAIN v1 = NS
        /\ \A k \in NS : /\ DOMAIN v1[k] = ServerFields
                         /\ v1[k].probe \in BOOLEAN /\ ~v1[k].probe
    BY <1>5 DEF Dead, ServerFields
  <2> HIDE DEF v1, x1
  <2>4. /\ DOMAIN x1 = Fields /\ SameLists(x1, x) /\ x1.ns = v1 /\ x1.req = x.req
        /\ x1.ring = x.ring
    BY <1>4, <2>2 DEF Fields, SameLists
  <2>5. y1 = x1
    BY <2>3, <2>4
  <2>6. u1 = [x1 EXCEPT !.ns[n].probe = FALSE, !.ns[n].state = 1,
                        !.ns[n].timedout = 0, !.good = @ + 1]
    BY <2>5
  <2>7. /\ DOMAIN v2 = NS
        /\ \A k \in NS : /\ DOMAIN v2[k] = ServerFields
                         /\ v2[k].probe \in BOOLEAN /\ ~v2[k].probe
    BY <2>3, <2>4 DEF ServerFields
  <2>8. [[[x1 EXCEPT !.ns[n].probe = FALSE] EXCEPT !.ns[n].state = 1]
           EXCEPT !.ns[n].timedout = 0] = [x1 EXCEPT !.ns = v4]
    <3> HIDE DEF y1, u1
    <3>1. DOMAIN x1 = Fields /\ "ns" \in Fields
      BY <2>4 DEF Fields
    <3>2. [x1 EXCEPT !.ns[n].probe = FALSE] = [x1 EXCEPT !.ns = v2]
      OBVIOUS
    <3> DEFINE x2 == [x1 EXCEPT !.ns = v2]
    <3> HIDE DEF v2
    <3>3. DOMAIN x2 = Fields /\ x2.ns = v2
      BY <3>1
    <3>4. [x2 EXCEPT !.ns[n].state = 1] = [x1 EXCEPT !.ns = v3]
      BY <3>1, <3>3
    <3> DEFINE x3 == [x1 EXCEPT !.ns = v3]
    <3> HIDE DEF v3
    <3>5. DOMAIN x3 = Fields /\ x3.ns = v3
      BY <3>1
    <3>6. [x3 EXCEPT !.ns[n].timedout = 0] = [x1 EXCEPT !.ns = v4]
      BY <3>1, <3>5
    <3> QED  BY <3>2, <3>4, <3>6
  <2> HIDE DEF v2
  <2>9. /\ DOMAIN v3 = NS
        /\ \A k \in NS : /\ DOMAIN v3[k] = ServerFields
                         /\ v3[k].probe \in BOOLEAN /\ ~v3[k].probe
    BY <2>7 DEF ServerFields
  <2> HIDE DEF v3
  <2>10. /\ DOMAIN v4 = NS
         /\ \A k \in NS : /\ DOMAIN v4[k] = ServerFields
                          /\ v4[k].probe \in BOOLEAN /\ ~v4[k].probe
    BY <2>9 DEF ServerFields
  <2> DEFINE x5 == [x1 EXCEPT !.ns = v4]
  <2> DEFINE x3 == [[[x1 EXCEPT !.ns[n].probe = FALSE] EXCEPT !.ns[n].state = 1]
                      EXCEPT !.ns[n].timedout = 0]
  <2> HIDE DEF v4, y1
  <2>11. u1 = [x5 EXCEPT !.good = @ + 1]
    <3>1. u1 = [x3 EXCEPT !.good = x1.good + 1]
      BY <2>5
    <3>2. x3 = x5
      BY <2>8
    <3>3. x5.good = x1.good
      BY <2>4 DEF Fields
    <3> HIDE DEF u1, x3, x5
    <3> QED  BY <3>1, <3>2, <3>3
  <2> HIDE DEF u1, x3
  <2>12. /\ DOMAIN x5 = Fields /\ SameLists(x5, x1) /\ x5.ns = v4 /\ x5.req = x1.req
         /\ x5.ring = x1.ring
    BY <2>4 DEF Fields, SameLists
  <2> HIDE DEF x5
  <2>13. /\ DOMAIN u1 = Fields /\ SameLists(u1, x5) /\ u1.ns = v4 /\ u1.req = x5.req
         /\ u1.ring = x5.ring
    BY <2>11, <2>12 DEF Fields, SameLists
  <2>14. Well(u1) /\ Dead(u1) /\ SameLists(u1, x)
    BY <1>5, <2>4, <2>10, <2>12, <2>13 DEF Well, Dead, SameLists, ReqsOk, HandleOk
  <2>15. SameLists(x, x)
    BY DEF SameLists
  <2> HIDE DEF u
  <2> QED  BY <1>5, <2>1, <2>14, <2>15
<1>11. SameLists(b, b) /\ SameLists(u, b) /\ SameLists(z, b)
  BY <1>4, <1>8, <1>10 DEF SameLists
<1> HIDE DEF u
<1> QED  BY <1>1, <1>9, <1>10, <1>11

\* nameserver_probe_callback, on a base that has servers.
LEMMA ProbeCallbackKeeps ==
  ASSUME Apart, NEW b, Ring(b), NEW n \in NS, NEW err, NEW c
  PROVE  Goes(nameserver_probe_callback(b, n, err, c), b, {})
<1> DEFINE v == [b.ns EXCEPT ![n].probe = FALSE]
           x == [b EXCEPT !.ns[n].probe = FALSE]
           w == [x.ns EXCEPT ![n].timer = (b.ns[n].state = 0)]
           z == [x EXCEPT !.ns[n].timer = b.ns[n].state = 0]
           u == nameserver_up(x, n, c)
           y == nameserver_probe_callback(b, n, err, c)
<1>1. y = IF err = "cancel" THEN b ELSE IF err \in {"none", "notexist"} THEN u ELSE z
  BY DEF nameserver_probe_callback
<1>2. x = [b EXCEPT !.ns = v]
  OBVIOUS
<1> HIDE DEF v, x
<1>3. Quiet(x, b) /\ Ring(x)
  BY <1>2, ServerSet, QuietRing
<1>4. z = [x EXCEPT !.ns = w]
  OBVIOUS
<1> HIDE DEF w, z
<1>5. Quiet(z, b)
  BY <1>3, <1>4, ServerSet, QuietAgain
<1>6. n \notin Handle
  BY DEF Apart
<1>7. Goes(u, b, {})
  BY <1>3, <1>6, UpKeeps, QuietGoes, GoesAgain
<1> HIDE DEF u, y
<1>8. Goes(y, b, {})
  BY <1>1, <1>5, <1>7, QuietGoes, GoesItself
<1> QED  BY <1>8 DEF y

\* A callback that is due is made.
LEMMA RunKeeps ==
  ASSUME Apart, DnsInv, NEW c, reply_run_callback(c)
  PROVE  DnsInv'
<1> DEFINE cb == Head(d.deferred)
           n == cb.h
           x == [d EXCEPT !.deferred = Tail(@)]
           y == nameserver_probe_callback(x, n, cb.err, c)
<1>1. /\ d.deferred # <<>> /\ UNCHANGED asked
      /\ n \in NS => Heard(y, c, {}) /\ UNCHANGED got
      /\ n \notin NS => Heard(x, c, {}) /\ got' = [got EXCEPT ![n] = @ + 1]
  BY DEF reply_run_callback, Do
<1>2. Well(d) /\ Base(d)
  BY DEF DnsInv, Base
<1> DEFINE xx == x
<1> HIDE DEF xx
<1>3. xx = [d EXCEPT !.deferred = Tail(@)]
  BY DEF xx
<1>4. Base(xx)
  BY <1>1, <1>2, <1>3, TakenBase
<1>5. /\ Well(xx) /\ cb \in Due /\ xx.deferred = Tail(d.deferred)
      /\ xx.ring = d.ring /\ xx.alive = d.alive /\ xx.ns = d.ns
      /\ \A h \in Handle : Tot(d, h) = Tot(xx, h) + Counts(h, n)
  BY <1>1, <1>2, <1>3, TakenFacts
<1>6. n \in Req
  BY <1>5 DEF Due
<1>7. CASE n \in NS
  <2> DEFINE e == cb.err
             yy == nameserver_probe_callback(xx, n, e, c)
  <2>1. y = yy
    BY <1>3
  <2> HIDE DEF x, y
  <2>2. \A h \in Handle : Tot(xx, h) = Tot(d, h)
    <3> SUFFICES ASSUME NEW h \in Handle
                 PROVE  Tot(xx, h) = Tot(d, h)
      OBVIOUS
    <3>1. Counts(h, n) = 0 /\ Tot(xx, h) \in Nat
      BY <1>5, <1>7, Numbers DEF Counts, Apart
    <3> QED  BY <1>5, <3>1
  <2>3. Base(yy) /\ \A h \in Handle : Tot(yy, h) = Tot(xx, h)
    <3>1. CASE d.alive /\ Ring(d)
      <4>1. Ring(xx)
        BY <1>5, <3>1 DEF Ring
      <4> HIDE DEF e
      <4>2. Goes(yy, xx, {})
        BY <1>7, <4>1, ProbeCallbackKeeps
      <4> HIDE DEF yy
      <4>3. Base(yy)
        BY <1>5, <3>1, <4>2 DEF Goes, Base, Ring
      <4> QED  BY <4>2, <4>3 DEF Goes
    <3>2. CASE Dry(d)
      <4>1. d.deferred \in Seq(Due) /\ 1 \in DOMAIN d.deferred /\ cb = d.deferred[1]
        BY <1>1, <1>2 DEF Well
      <4>2. n \in Handle
        BY <3>2, <4>1 DEF Dry
      <4> QED  BY <1>7, <4>2 DEF Apart
    <3>3. CASE ~d.alive
      <4> HIDE DEF e
      <4> DEFINE yz == yy
      <4> HIDE DEF yz
      <4>1. yz = nameserver_probe_callback(xx, n, e, c)
        BY DEF yz
      <4>2. Dead(xx)
        BY <1>4, <1>5, <3>3 DEF Base
      <4>3. Well(yz) /\ Dead(yz) /\ SameLists(yz, xx)
        BY <1>5, <1>7, <4>1, <4>2, DeadProbe
      <4>4. Base(yz)
        BY <1>2, <1>5, <3>3, <4>3 DEF Base, SameLists
      <4> QED  BY <4>3, <4>4 DEF yz, Tot, SameLists
    <3> QED  BY <3>1, <3>2, <3>3, RingOrDry
  <2> HIDE DEF yy
  <2>4. Heard(yy, c, {}) /\ UNCHANGED <<asked, got>>
    BY <1>1, <1>7, <2>1
  <2>5. \A h \in Handle : Tot(yy, h) = Tot(d, h)
    BY <2>2, <2>3
  <2> QED  BY <2>3, <2>4, <2>5, BaseStep
<1>8. CASE n \notin NS
  <2>1. n \in Handle
    BY <1>6, <1>8 DEF Req
  <2>2. d' = [xx EXCEPT !.hit = FALSE] /\ got' = [got EXCEPT ![n] = @ + 1]
    BY <1>1, <1>8, <1>3 DEF Heard, Met
  <2>3. Base(d') /\ \A h \in Handle : Tot(d', h) = Tot(xx, h)
    BY <1>4, <2>2, HitOff
  <2> HIDE DEF cb
  <2>4. got' \in [Handle -> Nat]
    BY <2>1, <2>2 DEF DnsInv
  <2>5. ASSUME NEW h \in Handle
        PROVE  got'[h] + Tot(d', h) = IF h \in asked' \ aborted THEN 1 ELSE 0
    <3>1. got[h] \in Nat /\ Tot(xx, h) \in Nat
          /\ got[h] + Tot(d, h) = IF h \in asked \ aborted THEN 1 ELSE 0
      BY <1>5, Numbers DEF DnsInv
    <3>2. got'[h] = got[h] + Counts(h, n)
      BY <2>1, <2>2 DEF DnsInv, Counts
    <3>3. Tot(d, h) = Tot(xx, h) + Counts(h, n) /\ Tot(d', h) = Tot(xx, h)
          /\ Counts(h, n) \in Nat
      BY <1>5, <2>3 DEF Counts
    <3>4. got'[h] + Tot(d', h) = got[h] + Tot(d, h)
      BY <3>1, <3>2, <3>3
    <3> QED  BY <1>1, <3>1, <3>4
  <2>6. UNCHANGED aborted
    BY <1>1, <1>8 DEF Heard
  <2> QED  BY <1>1, <2>3, <2>4, <2>5, <2>6 DEF DnsInv
<1> QED  BY <1>7, <1>8

\* The requests in flight wait again.
LEMMA SuspendKeeps ==
  ASSUME Apart, DnsInv, NEW c, evdns_base_clear_nameservers_and_suspend(c)
  PROVE  DnsInv'
<1> DEFINE w == Reverse(d.inflight) \o d.waiting
           v == [n \in NS |-> NoServer]
           q == [r \in Req |-> NoReq]
           k == d.nwait + Len(d.inflight)
           y == [d EXCEPT !.ring = <<>>, !.ns = v, !.good = 0, !.req = q,
                          !.inflight = <<>>, !.waiting = Reverse(d.inflight) \o @,
                          !.nin = 0, !.nwait = @ + Len(d.inflight)]
<1>1. d.alive /\ d.ring # <<>> /\ NoProbes /\ Heard(y, c, {}) /\ UNCHANGED <<asked, got>>
  BY DEF evdns_base_clear_nameservers_and_suspend, Do
<1>2. Ring(d) /\ DOMAIN d = Fields
  BY <1>1, RingOrDry DEF Ring, Well
<1>3. /\ DOMAIN y = Fields /\ y.ring = <<>> /\ y.ns = v /\ y.req = q /\ y.inflight = <<>>
      /\ y.waiting = w /\ y.nwait = k /\ y.deferred = d.deferred /\ y.alive = d.alive
      /\ y.max = d.max
  BY <1>2 DEF Fields
<1> HIDE DEF y
<1>4. d.inflight \in Seq(Req) /\ d.waiting \in Seq(Req) /\ Well(d)
  BY <1>2 DEF Ring, Well
<1> DEFINE rv == Reverse(d.inflight)
<1>5. rv \in Seq(Req) /\ Len(rv) = Len(d.inflight)
      /\ \A h : Occ(rv, h) = Occ(d.inflight, h)
  BY <1>4, OccReverse
<1> HIDE DEF rv
<1>6. w = rv \o d.waiting
  BY DEF rv
<1> HIDE DEF w
<1>7. w \in Seq(Req) /\ Len(w) = Len(d.inflight) + Len(d.waiting)
      /\ \A h : Occ(w, h) = Occ(d.inflight, h) + Occ(d.waiting, h)
  <2>1. rv \o d.waiting \in Seq(Req) /\ Len(rv \o d.waiting) = Len(rv) + Len(d.waiting)
    BY <1>4, <1>5, CatFacts
  <2>2. ASSUME NEW h
        PROVE  Occ(w, h) = Occ(d.inflight, h) + Occ(d.waiting, h)
    <3>1. Occ(rv \o d.waiting, h) = Occ(rv, h) + Occ(d.waiting, h)
      BY <1>4, <1>5, OccCat
    <3> QED  BY <1>5, <1>6, <3>1
  <2> QED  BY <1>5, <1>6, <2>1, <2>2
<1>8. \A h : Occ(<<>>, h) = 0 /\ ~In(h, <<>>)
  <2>1. <<>> \in Seq(Req)
    OBVIOUS
  <2>2. \A h : ~In(h, <<>>)
    BY DEF In, Range
  <2> QED  BY <2>1, <2>2, OccRange
<1>9. Idle(NoReq) /\ DOMAIN NoReq = ReqFields /\ NoReq.ns = NoNs
  BY DEF Idle, NoReq, ReqFields
<1>10. ReqsOk(y)
  BY <1>3, <1>9 DEF ReqsOk
<1>11. ASSUME NEW h \in Handle
       PROVE  HandleOk(y, h) /\ Tot(y, h) = Tot(d, h)
  <2>1. HandleOk(d, h)
    BY <1>4 DEF Well
  <2>2. Occ(d.inflight, h) \in Nat /\ Occ(d.waiting, h) \in Nat
        /\ Occ(Owners(d.deferred), h) \in Nat
    BY <1>4, Numbers
  <2>3. Occ(y.inflight, h) = 0 /\ ~In(h, y.inflight)
        /\ Occ(y.waiting, h) = Occ(d.inflight, h) + Occ(d.waiting, h)
    BY <1>3, <1>7, <1>8
  <2>4. Idle(y.req[h])
    BY <1>3, <1>9 DEF Req
  <2>5. Occ(d.inflight, h) + Occ(d.waiting, h) <= 1
    BY <2>1 DEF HandleOk
  <2>6. HandleOk(y, h)
    BY <2>2, <2>3, <2>4, <2>5 DEF HandleOk
  <2>7. Tot(y, h) = Tot(d, h)
    BY <1>3, <2>2, <2>3 DEF Tot
  <2> QED  BY <2>6, <2>7
<1>12. Len(d.inflight) \in Nat /\ Len(d.waiting) \in Nat /\ d.nwait \in Int
       /\ d.nwait <= Len(d.waiting) /\ d.max \in Nat /\ d.deferred \in Seq(Due)
  BY <1>4 DEF Well
<1>13. k \in Int /\ k <= Len(w)
  <2>1. Len(w) = Len(d.inflight) + Len(d.waiting)
    BY <1>7
  <2>2. k = d.nwait + Len(d.inflight)
    OBVIOUS
  <2> DEFINE a == Len(d.inflight)
             b == Len(d.waiting)
             e == d.nwait
             l == Len(w)
  <2>3. a \in Nat /\ b \in Nat /\ e \in Int /\ e <= b /\ l = a + b /\ k = e + a
    BY <1>12, <2>1, <2>2
  <2> HIDE DEF a, b, e, k, l
  <2>4. k \in Int /\ k <= l
    BY <2>3
  <2> QED  BY <2>4 DEF l
<1> HIDE DEF k, v, q
<1>14. y.inflight \in Seq(Req) /\ y.ring \in Seq(NS) /\ y.waiting \in Seq(Req)
  BY <1>3, <1>7
<1>15. Well(y)
  BY <1>3, <1>10, <1>11, <1>12, <1>13, <1>14 DEF Well
<1>16. Dry(y)
  <2>1. \A n \in NS : Idle(y.req[n])
    BY <1>3, <1>9 DEF Req, q
  <2>2. ASSUME NEW i \in DOMAIN y.deferred
        PROVE  y.deferred[i].h \in Handle
    <3>1. i \in DOMAIN d.deferred /\ y.deferred[i] = d.deferred[i] /\ d.deferred[i] \in Due
      BY <1>3, <1>12
    <3>2. d.deferred[i].h \in Req
      BY <3>1 DEF Due
    <3>3. d.deferred[i].h \notin NS
      BY <1>1, <3>1 DEF NoProbes, Pending
    <3> QED  BY <3>1, <3>2, <3>3 DEF Req
  <2> QED  BY <1>3, <2>1, <2>2 DEF Dry, v
<1>17. Base(y)
  BY <1>1, <1>3, <1>15, <1>16 DEF Base
<1> QED  BY <1>1, <1>11, <1>17, BaseStep

\* What the requests come to while they fail one after the other: as much is due
\* or left of every call, or a server was missing.
Alive(x, b) ==
  /\ Well(x) /\ x.alive = b.alive /\ \A h \in Handle : Tot(x, h) = Tot(b, h)
  /\ \A h \in Handle : Live(x, h) => Live(b, h)
  /\ x.ring = <<>> => x.inflight = <<>>
Going(x, b) == Stopped(x) \/ Alive(x, b)

\* One step after another.
LEMMA AliveAgain ==
  ASSUME NEW b, NEW x, Alive(x, b), NEW y, Going(y, x)
  PROVE  Going(y, b)
BY DEF Going, Alive

\* A step of a base that has servers.
LEMMA GoesAlive ==
  ASSUME NEW b, NEW x, NEW R, Goes(x, b, R)
  PROVE  Going(x, b)
BY DEF Going, Alive, Goes, Ring

\* What each step keeps, all of them keep.
LEMMA AllGoing ==
  ASSUME NEW n \in Nat, NEW g, NEW b, Going(g[0], b),
         \A k \in 1 .. n : Going(g[k - 1], b) => Going(g[k], b)
  PROVE  Going(g[n], b)
<1> DEFINE P == {k \in Nat : k <= n => Going(g[k], b)}
<1>1. 0 \in P
  OBVIOUS
<1>2. ASSUME NEW k \in Nat, k \in P
      PROVE  k + 1 \in P
  <2> SUFFICES ASSUME k + 1 <= n
               PROVE  Going(g[k + 1], b)
    OBVIOUS
  <2>1. k + 1 \in 1 .. n /\ (k + 1) - 1 = k /\ k <= n
    OBVIOUS
  <2>2. Going(g[k], b)
    BY <1>2, <2>1
  <2> QED  BY <2>1, <2>2
<1>3. Nat \subseteq P
  <2> HIDE DEF P
  <2> QED  BY <1>1, <1>2, NaturalInduction
<1> QED  BY <1>3

\* Where a server was missing, a request that ends changes nothing of that.
LEMMA StoppedEnds ==
  ASSUME NEW x, Stopped(x), NEW r, NEW list \in Lists, NEW err, NEW answer, NEW c
  PROVE  Stopped(FreeHandle(reply_schedule_callback(x, r, err, answer), r, list, c))
<1> DEFINE e == Append(x.deferred, [h |-> r, err |-> Class(err), answer |-> answer])
           s == [x EXCEPT !.deferred = e]
           ss == s.search \ {r}
           i == [s.index EXCEPT ![r] = -1]
           o == [s EXCEPT !.search = ss, !.index = i]
           m == Removed(o, r, list)
           f == FreeHandle(reply_schedule_callback(x, r, err, answer), r, list, c)
           p == evdns_requests_pump_waiting_queue(m, c)
<1>1. s = reply_schedule_callback(x, r, err, answer) /\ DOMAIN x = Fields
  BY DEF reply_schedule_callback, Stopped
<1> HIDE DEF e
<1>2. DOMAIN s = Fields /\ s.null = x.null /\ s.waiting = x.waiting
  BY <1>1 DEF Fields
<1>3. o = SearchOver(s, r)
  BY DEF SearchOver
<1> HIDE DEF s, ss, i
<1>4. DOMAIN o = Fields /\ o.null = x.null /\ o.waiting = x.waiting
  BY <1>2 DEF Fields
<1>5. f = p
  BY <1>1, <1>3, FinishedIs
<1> HIDE DEF o, f
<1>6. RemovedFrom(m, o, r, list)
  BY <1>4, RemovedFields
<1> HIDE DEF m
<1>7. DOMAIN m = Fields /\ m.null /\ m.waiting \in Seq(Req)
  <2>1. x.waiting \in Seq(Req) /\ x.null
    BY DEF Stopped
  <2>2. RemoveFirst(x.waiting, r) \in Seq(Req)
    BY <2>1, OccRemoveFirst
  <2> QED  BY <1>4, <1>6, <2>1, <2>2 DEF RemovedFrom, Lists
<1>8. p = m
  <2>1. Len(m.waiting) \in Nat
    BY <1>7
  <2> QED  BY <1>7, <2>1, PumpStops
<1> HIDE DEF p
<1>9. Stopped(f)
  BY <1>5, <1>7, <1>8 DEF Stopped
<1> QED  BY <1>9 DEF f

\* What ended was not a request before, and nothing else is one now.
LEMMA EndedLive ==
  ASSUME NEW b, Well(b), NEW r \in Req, NEW y, Ended(y, b, r)
  PROVE  \A h \in Handle : Live(y, h) => Live(b, h)
<1> SUFFICES ASSUME NEW h \in Handle, Live(y, h), ~Live(b, h)
             PROVE  FALSE
  OBVIOUS
<1>1. PICK e : e.h = r /\ y.deferred = Append(b.deferred, e)
  BY DEF Ended
<1>2. /\ Well(y) /\ Tot(y, h) = Tot(b, h)
      /\ b.deferred \in Seq(Due) /\ y.deferred \in Seq(Due)
  BY DEF Ended, Well
<1>3. Owners(y.deferred) = Append(Owners(b.deferred), r)
  BY <1>1, <1>2 DEF Owners
<1>4. Occ(Owners(y.deferred), h) >= Occ(Owners(b.deferred), h)
  <2>1. Owners(b.deferred) \in Seq(Req)
    BY <1>2 DEF Owners, Due
  <2>2. Occ(Owners(y.deferred), h) = Occ(Owners(b.deferred), h) + (IF h = r THEN 1 ELSE 0)
    BY <1>3, <2>1, OccAppend
  <2>3. Occ(Owners(b.deferred), h) \in Nat
    BY Numbers
  <2> QED  BY <2>2, <2>3
<1>5. /\ Occ(y.inflight, h) \in Nat /\ Occ(y.waiting, h) \in Nat
      /\ Occ(b.inflight, h) = 0 /\ Occ(b.waiting, h) = 0
      /\ Occ(y.inflight, h) + Occ(y.waiting, h) # 0
      /\ Occ(Owners(y.deferred), h) \in Nat /\ Occ(Owners(b.deferred), h) \in Nat
  BY <1>2, Numbers DEF Live
<1> QED  BY <1>2, <1>4, <1>5 DEF Tot

\* A request of one of the lists fails, if there is one.
LEMMA FailGoing ==
  ASSUME NEW x, NEW b, Going(x, b), NEW i, NEW heads, NEW c
  PROVE  Going(Fail(x, i, heads, c), b)
<1> DEFINE I == {k \in 1 .. Len(x.inflight) : x.req[x.inflight[k]].id % heads = i - 1}
           first == SelectInSeq(x.inflight, LAMBDA y : x.req[y].id % heads = i - 1)
           r == x.inflight[first]
           y == Finish(x, r, "shutdown", c)
           z == Fail(x, i, heads, c)
<1>1. z = IF first = 0 THEN x ELSE y
  BY DEF Fail
<1>2. first = IF I # {} THEN Min(I) ELSE 0
  BY DEF SelectInSeq
<1> HIDE DEF first, z
<1>3. CASE Stopped(x)
  <2>1. y = FreeHandle(reply_schedule_callback(x, r, "shutdown", r), r, "inflight", c)
    BY DEF Finish
  <2> HIDE DEF y, r
  <2>2. Stopped(y)
    BY <1>3, <2>1, StoppedEnds DEF Lists
  <2>3. Going(z, b)
    BY <1>1, <1>3, <2>2 DEF Going
  <2> QED  BY <2>3 DEF z
<1>4. CASE Alive(x, b)
  <2>1. x.inflight \in Seq(Req) /\ Len(x.inflight) \in Nat /\ I \in SUBSET Nat
    BY <1>4 DEF Alive, Well
  <2>2. first # 0 => first \in 1 .. Len(x.inflight)
    <3>1. I # {} => Min(I) \in I
      <4> HIDE DEF I
      <4> QED  BY <2>1, MinOfNaturals
    <3> QED  BY <1>2, <3>1
  <2>3. first # 0 => r \in Req /\ In(r, x.inflight)
    BY <2>1, <2>2, ElementsInRange DEF In
  <2>4. first # 0 => Ring(x)
    <3>1. first # 0 => x.inflight # <<>>
      BY <2>2
    <3> QED  BY <1>4, <3>1 DEF Alive, Ring
  <2> HIDE DEF r
  <2>5. first # 0 => Goes(y, x, {r})
    BY <2>3, <2>4, FinishKeeps
  <2> HIDE DEF y
  <2>6. first # 0 => Going(y, b)
    BY <1>4, <2>5, GoesAlive, AliveAgain
  <2>7. Going(z, b)
    BY <1>1, <2>6
  <2> QED  BY <2>7 DEF z
<1> QED  BY <1>3, <1>4 DEF Going

\* One list of req_heads is emptied.
LEMMA FailAllGoing ==
  ASSUME NEW z, NEW b, Going(z, b), NEW i, NEW heads, NEW all, Len(all) \in Nat, NEW c
  PROVE  Going(FailAll(z, i, heads, all, c), b)
<1> DEFINE each[k \in 0 .. Len(all)] == IF k = 0 THEN z ELSE Fail(each[k - 1], i, heads, c)
           At(g, k) == IF k = 0 THEN z ELSE Fail(g[k - 1], i, heads, c)
<1>1. FailAll(z, i, heads, all, c) = each[Len(all)]
  BY DEF Each, FailAll
<1>3. each = [k \in 0 .. Len(all) |-> At(each, k)]
  <2>1. \E g : States(g, "fail", z, all, i, c, heads)
    BY EachExists
  <2>2. \E g : g = [k \in 0 .. Len(all) |-> At(g, k)]
    BY <2>1 DEF States, Apply
  <2> QED  BY <2>2
<1> HIDE DEF each
<1>4. \A k \in 0 .. Len(all) : each[k] = At(each, k)
  BY <1>3
<1>5. each[0] = z /\ \A k \in 1 .. Len(all) : each[k] = Fail(each[k - 1], i, heads, c)
  BY <1>4
<1>6. \A k \in 1 .. Len(all) : Going(each[k - 1], b) => Going(each[k], b)
  BY <1>5, FailGoing
<1>7. Going(each[Len(all)], b)
  BY <1>5, <1>6, AllGoing
<1> QED  BY <1>1, <1>7

\* The first waiting request fails, if there is one.
LEMMA FailWaitingGoing ==
  ASSUME NEW x, NEW b, Going(x, b), NEW r \in Req, NEW c
  PROVE  Going(FailWaiting(x, r, c), b)
<1> DEFINE h == Head(x.waiting)
           s == reply_schedule_callback(x, h, "shutdown", r)
           y == FreeHandle(s, h, "waiting", c)
           z == FailWaiting(x, r, c)
<1>1. z = IF x.waiting = <<>> THEN x ELSE y
  BY DEF FailWaiting
<1>2. "waiting" \in Lists /\ "shutdown" # "none"
  BY DEF Lists
<1>3. CASE Stopped(x)
  <2> HIDE DEF h
  <2>1. Stopped(y)
    BY <1>2, <1>3, StoppedEnds
  <2> HIDE DEF y, z
  <2>2. Going(z, b)
    BY <1>1, <1>3, <2>1 DEF Going
  <2> QED  BY <2>2 DEF z
<1>4. CASE Alive(x, b) /\ x.waiting # <<>>
  <2>1. x.waiting \in Seq(Req)
    BY <1>4 DEF Alive, Well
  <2>2. h \in Req /\ In(h, x.waiting)
    <3>1. 1 \in 1 .. Len(x.waiting) /\ h = x.waiting[1]
      BY <1>4, <2>1
    <3> QED  BY <2>1, <3>1, ElementsInRange DEF In
  <2>3. In(h, List(x, "waiting"))
    BY <2>2 DEF List
  <2> HIDE DEF h
  <2>4. CASE Ring(x)
    <3>1. Goes(y, x, {h})
      BY <1>2, <2>2, <2>3, <2>4, EndKeeps
    <3> HIDE DEF y, z
    <3>2. Going(z, b)
      BY <1>1, <1>4, <3>1, GoesAlive, AliveAgain
    <3> QED  BY <3>2 DEF z
  <2>5. CASE x.ring = <<>>
    <3>1. Well(x) /\ x.inflight = <<>>
      BY <1>4, <2>5 DEF Alive
    <3> DEFINE yy == y
    <3> HIDE DEF yy
    <3>2. yy = FreeHandle(reply_schedule_callback(x, h, "shutdown", r), h, "waiting", c)
      BY DEF yy
    <3>3. Stopped(yy) \/ Ended(yy, x, h)
      BY <1>2, <2>2, <2>5, <3>1, <3>2, EndDry
    <3>4. Going(yy, x)
      BY <1>4, <2>2, <3>3, EndedLive DEF Going, Alive, Ended
    <3>5. Going(yy, b)
      BY <1>4, <3>4, AliveAgain
    <3>6. z = yy
      BY <1>1, <1>4 DEF yy
    <3> HIDE DEF z
    <3>7. Going(z, b)
      BY <3>5, <3>6
    <3> QED  BY <3>7 DEF z
  <2> QED  BY <1>4, <2>4, <2>5 DEF Alive, Ring
<1>5. CASE x.waiting = <<>>
  BY <1>1, <1>5
<1> QED  BY <1>3, <1>4, <1>5 DEF Going

\* The requests of the lists hs fail, and then those that wait.
Drained(b, heads, hs, all, c) ==
  LET One(x, i) == FailAll(x, i, heads, all, c) IN Each(One, b, hs)
Answered(b, all, c) ==
  LET One(x, r) == FailWaiting(x, r, c) IN Each(One, b, all)

\* All lists of req_heads are emptied in turn.
LEMMA DrainedGoing ==
  ASSUME NEW z, NEW b, Going(z, b), NEW heads, NEW hs, Len(hs) \in Nat,
         NEW all, Len(all) \in Nat, NEW c
  PROVE  Going(Drained(z, heads, hs, all, c), b)
<1> DEFINE each[k \in 0 .. Len(hs)] ==
             IF k = 0 THEN z ELSE FailAll(each[k - 1], hs[k], heads, all, c)
           At(g, k) == IF k = 0 THEN z ELSE FailAll(g[k - 1], hs[k], heads, all, c)
<1>1. Drained(z, heads, hs, all, c) = each[Len(hs)]
  BY DEF Each, Drained
<1>3. each = [k \in 0 .. Len(hs) |-> At(each, k)]
  <2>1. \E g : States(g, "failall", z, hs, all, c, heads)
    BY EachExists
  <2>2. \E g : g = [k \in 0 .. Len(hs) |-> At(g, k)]
    BY <2>1 DEF States, Apply
  <2> QED  BY <2>2
<1> HIDE DEF each
<1>4. \A k \in 0 .. Len(hs) : each[k] = At(each, k)
  BY <1>3
<1>5. each[0] = z
      /\ \A k \in 1 .. Len(hs) : each[k] = FailAll(each[k - 1], hs[k], heads, all, c)
  BY <1>4
<1>6. \A k \in 1 .. Len(hs) : Going(each[k - 1], b) => Going(each[k], b)
  BY <1>5, FailAllGoing
<1>7. Going(each[Len(hs)], b)
  BY <1>5, <1>6, AllGoing
<1> QED  BY <1>1, <1>7

\* And the waiting requests.
LEMMA AnsweredGoing ==
  ASSUME NEW z, NEW b, Going(z, b), NEW all \in Seq(Req), NEW c
  PROVE  Going(Answered(z, all, c), b)
<1> DEFINE each[k \in 0 .. Len(all)] == IF k = 0 THEN z ELSE FailWaiting(each[k - 1], all[k], c)
           At(g, k) == IF k = 0 THEN z ELSE FailWaiting(g[k - 1], all[k], c)
<1>1. Answered(z, all, c) = each[Len(all)]
  BY DEF Each, Answered
<1>2. Len(all) \in Nat /\ \A k \in 1 .. Len(all) : all[k] \in Req
  OBVIOUS
<1>3. each = [k \in 0 .. Len(all) |-> At(each, k)]
  <2>1. \E g : States(g, "failwaiting", z, all, 0, c, 0)
    BY <1>2, EachExists
  <2>2. \E g : g = [k \in 0 .. Len(all) |-> At(g, k)]
    BY <2>1 DEF States, Apply
  <2> QED  BY <2>2
<1> HIDE DEF each
<1>4. \A k \in 0 .. Len(all) : each[k] = At(each, k)
  BY <1>3
<1>5. each[0] = z
      /\ \A k \in 1 .. Len(all) : each[k] = FailWaiting(each[k - 1], all[k], c)
  BY <1>2, <1>4
<1>6. \A k \in 1 .. Len(all) : Going(each[k - 1], b) => Going(each[k], b)
  BY <1>2, <1>5, FailWaitingGoing
<1>7. Going(each[Len(all)], b)
  BY <1>2, <1>5, <1>6, AllGoing
<1> QED  BY <1>1, <1>7

\* The base y is b without servers v, with the callbacks dq due.
EmptyBase(y, b, v, dq) ==
  /\ DOMAIN y = Fields /\ y.ring = <<>> /\ y.ns = v /\ y.req = b.req /\ y.alive = FALSE
  /\ y.inflight = b.inflight /\ y.waiting = b.waiting /\ y.nwait = 0
  /\ y.deferred = dq /\ y.max = b.max

\* A base that is freed has no servers left.
LEMMA FreedBase ==
  ASSUME NEW b, Alive(b, d), DnsInv, NEW y, NEW v,
         v = [n \in NS |-> NoServer],
         NEW dq, dq = b.deferred \/ dq = d.deferred, EmptyBase(y, b, v, dq)
  PROVE  /\ Base(y)
         /\ \A h \in Handle : Tot(y, h) = Occ(Owners(dq), h) + Occ(b.inflight, h)
                                                       + Occ(b.waiting, h)
<1>1. Well(b) /\ DOMAIN b = Fields
  BY DEF Alive, Well
<1>2. /\ DOMAIN y = Fields /\ y.ring = <<>> /\ y.ns = v /\ y.req = b.req /\ y.alive = FALSE
      /\ y.inflight = b.inflight /\ y.waiting = b.waiting /\ y.nwait = 0
      /\ y.deferred = dq /\ y.max = b.max
  BY DEF EmptyBase
<1>3. /\ ReqsOk(b) /\ b.inflight \in Seq(Req) /\ b.waiting \in Seq(Req)
      /\ dq \in Seq(Due) /\ b.max \in Nat /\ \A h \in Handle : HandleOk(b, h)
  BY <1>1 DEF Well, DnsInv, Base
<1>4. ReqsOk(y) /\ \A h \in Handle : HandleOk(y, h)
  BY <1>2, <1>3 DEF ReqsOk, HandleOk
<1>5. y.ring \in Seq(NS) /\ y.nwait \in Int /\ y.nwait <= Len(y.waiting)
  BY <1>2, <1>3
<1>6. Well(y)
  BY <1>2, <1>3, <1>4, <1>5 DEF Well
<1>7. Dead(y)
  <2>1. DOMAIN NoServer = ServerFields /\ NoServer.probe = FALSE
    BY DEF NoServer, ServerFields
  <2>2. DOMAIN v = NS /\ \A n \in NS : v[n] = NoServer
    OBVIOUS
  <2> QED  BY <1>2, <2>1, <2>2 DEF Dead
<1>8. Base(y)
  BY <1>2, <1>6, <1>7 DEF Base
<1> QED  BY <1>2, <1>8 DEF Tot

\* evdns_base_free: every request fails, and its callback is due, or it is dropped.
LEMMA FreeBaseKeeps ==
  ASSUME Careful, DnsInv, NEW fail \in BOOLEAN, NEW c, evdns_base_free(fail, c)
  PROVE  DnsInv'
<1> DEFINE heads == (d.max + PerHead - 1) \div PerHead
           all == d.inflight \o d.waiting
           hs == [i \in 1 .. heads |-> i]
           b == Answered(Drained(d, heads, hs, all, c), all, c)
           v == [n \in NS |-> NoServer]
           dq == IF fail THEN b.deferred ELSE d.deferred
           y == [b EXCEPT !.alive = FALSE, !.nin = 0, !.nwait = 0, !.ring = <<>>, !.good = 0,
                          !.ns = v, !.deferred = IF fail THEN @ ELSE d.deferred]
<1>1. /\ d.alive /\ ~b.null /\ Met(y, c, {}) /\ UNCHANGED <<asked, got>>
      /\ aborted' = aborted \cup {h \in asked : ~fail /\ Live(d, h) /\ ~Live(b, h)}
  BY DEF evdns_base_free, Do, Each, Answered, Drained, FailAll, FailWaiting, Fail
<1>2. Well(d) /\ (d.ring = <<>> => d.inflight = <<>>)
  BY <1>1 DEF DnsInv, Base, Dry
<1>3. heads \in Nat
  <2>1. d.max \in Nat /\ PerHead \in Nat \ {0}
    BY <1>2, DnsAssumption DEF Well
  <2>2. d.max + PerHead - 1 \in Nat
    BY <2>1
  <2> QED  BY <2>1, <2>2
<1> HIDE DEF heads
<1>4. Len(hs) \in Nat
  <2>1. hs \in [1 .. heads -> Nat]
    OBVIOUS
  <2> HIDE DEF hs
  <2>2. hs \in Seq(Nat)
    BY <1>3, <2>1
  <2> QED  BY <2>2
<1>5. all \in Seq(Req) /\ Len(all) \in Nat
  <2>1. d.inflight \in Seq(Req) /\ d.waiting \in Seq(Req)
    BY <1>2 DEF Well
  <2>2. all \in Seq(Req)
    BY <2>1, CatFacts
  <2> HIDE DEF all
  <2> QED  BY <2>2
<1> HIDE DEF all, hs
<1>6. Going(d, d)
  BY <1>2 DEF Going, Alive
<1> DEFINE m == Drained(d, heads, hs, all, c)
<1>7. Going(m, d)
  BY <1>4, <1>5, <1>6, DrainedGoing
<1> HIDE DEF m
<1>8. Going(Answered(m, all, c), d)
  BY <1>5, <1>7, AnsweredGoing
<1>9. b = Answered(m, all, c)
  BY DEF m
<1> HIDE DEF b
<1>10. Alive(b, d)
  BY <1>1, <1>8, <1>9 DEF Going, Stopped
<1> DEFINE vv == v
<1> HIDE DEF vv
<1>11. vv = [n \in NS |-> NoServer]
  BY DEF vv
<1> DEFINE x == [b EXCEPT !.alive = FALSE, !.nin = 0, !.nwait = 0, !.ring = <<>>,
                          !.good = 0, !.ns = vv, !.deferred = dq]
<1>12. y = x
  <2>1. DOMAIN b = Fields
    BY <1>10 DEF Alive, Well
  <2> QED  BY <2>1 DEF vv, Fields
<1> HIDE DEF y
<1>13. dq = b.deferred \/ dq = d.deferred
  OBVIOUS
<1>14. fail => dq = b.deferred
  OBVIOUS
<1>15. ~fail => dq = d.deferred
  OBVIOUS
<1> DEFINE xx == x
<1> HIDE DEF dq, xx, vv
<1>16. xx = [b EXCEPT !.alive = FALSE, !.nin = 0, !.nwait = 0, !.ring = <<>>,
                      !.good = 0, !.ns = vv, !.deferred = dq]
  BY DEF xx
<1>23. EmptyBase(xx, b, vv, dq)
  <2>1. DOMAIN b = Fields
    BY <1>10 DEF Alive, Well
  <2> QED  BY <1>16, <2>1 DEF EmptyBase, Fields
<1>17. /\ Base(xx)
       /\ \A h \in Handle : Tot(xx, h) = Occ(Owners(dq), h) + Occ(b.inflight, h)
                                                        + Occ(b.waiting, h)
  BY <1>10, <1>11, <1>13, <1>23, FreedBase
<1>18. d' = [xx EXCEPT !.hit = FALSE]
  BY <1>1, <1>12 DEF Met, xx
<1>19. Base(d') /\ \A h \in Handle : Tot(d', h) = Tot(xx, h)
  BY <1>17, <1>18, HitOff
<1>20. ASSUME NEW h \in Handle
       PROVE  got[h] + Tot(xx, h) = IF h \in asked \ aborted' THEN 1 ELSE 0
  <2>1. /\ Tot(b, h) = Tot(d, h) /\ (Live(b, h) => Live(d, h)) /\ Well(b) /\ Well(d)
        /\ got[h] \in Nat
    BY <1>2, <1>10 DEF Alive, DnsInv
  <2>2. got[h] + Tot(d, h) = IF h \in asked \ aborted THEN 1 ELSE 0
    BY DEF DnsInv
  <2>3. /\ Occ(b.inflight, h) \in Nat /\ Occ(b.waiting, h) \in Nat
        /\ Occ(d.inflight, h) \in Nat /\ Occ(d.waiting, h) \in Nat
        /\ Occ(Owners(b.deferred), h) \in Nat /\ Occ(Owners(d.deferred), h) \in Nat
        /\ Occ(b.inflight, h) + Occ(b.waiting, h) = IF Live(b, h) THEN 1 ELSE 0
        /\ Occ(d.inflight, h) + Occ(d.waiting, h) = IF Live(d, h) THEN 1 ELSE 0
    <3>1. \A z \in {b, d} : Occ(z.inflight, h) + Occ(z.waiting, h) <= 1
      BY <2>1 DEF Well, HandleOk
    <3>2. \A z \in {b, d} :
            /\ Occ(z.inflight, h) \in Nat /\ Occ(z.waiting, h) \in Nat
            /\ Occ(Owners(z.deferred), h) \in Nat
            /\ Occ(z.inflight, h) = 0 <=> ~In(h, z.inflight)
            /\ Occ(z.waiting, h) = 0 <=> ~In(h, z.waiting)
      BY <2>1, Numbers
    <3> QED  BY <3>1, <3>2 DEF Live
  <2>4. Tot(xx, h) = Occ(Owners(dq), h) + Occ(b.inflight, h) + Occ(b.waiting, h)
    BY <1>17
  <2>5. h \in aborted => ~Live(d, h)
    <3>1. h \in aborted => got[h] + Tot(d, h) = 0
      BY <2>2
    <3> QED  BY <2>1, <2>3, <3>1 DEF Tot
  <2>6. CASE fail
    <3>1. aborted' = aborted
      BY <1>1, <2>6
    <3>2. Tot(xx, h) = Tot(d, h)
      BY <1>14, <2>1, <2>4, <2>6 DEF Tot
    <3> QED  BY <2>2, <3>1, <3>2
  <2>7. CASE ~fail
    <3>1. h \in aborted' <=> h \in aborted \/ (h \in asked /\ Live(d, h) /\ ~Live(b, h))
      BY <1>1, <2>7
    <3>2. Tot(xx, h) = Occ(Owners(d.deferred), h) + (IF Live(b, h) THEN 1 ELSE 0)
      BY <1>15, <2>3, <2>4, <2>7
    <3>3. Tot(d, h) = Occ(Owners(d.deferred), h) + (IF Live(d, h) THEN 1 ELSE 0)
      BY <2>3 DEF Tot
    <3>4. h \notin asked => ~Live(d, h)
      BY <2>1, <2>2, <2>3, <3>3
    <3> QED  BY <2>1, <2>2, <2>3, <2>5, <3>1, <3>2, <3>3, <3>4
  <2> QED  BY <2>6, <2>7
<1>21. aborted' \subseteq asked' /\ asked' \subseteq Handle /\ got' \in [Handle -> Nat]
  BY <1>1 DEF DnsInv
<1>22. \A h \in Handle : got'[h] + Tot(d', h) = IF h \in asked' \ aborted' THEN 1 ELSE 0
  BY <1>1, <1>19, <1>20
<1> QED  BY <1>19, <1>21, <1>22 DEF DnsInv

\* The ring at first.
LEMMA FirstRing ==
  LET q == CHOOSE q \in SetToSeqs(NS) : TRUE
  IN  q \in Seq(NS) /\ (q = <<>> => NS = {})
<1> DEFINE q == CHOOSE s \in SetToSeqs(NS) : TRUE
           D == 1 .. Cardinality(NS)
<1>1. IsFiniteSet(NS)
  BY DnsAssumption
<1>2. PICK n \in Nat : ExistsBijection(1 .. n, NS)
  BY <1>1, FS_NatBijection
<1>3. Cardinality(NS) = n
  BY <1>1, <1>2, FS_CountingElements
<1>4. PICK f : f \in Bijection(1 .. n, NS)
  BY <1>2 DEF ExistsBijection
<1>5. f \in [D -> NS] /\ \A i, j \in D : i # j => f[i] # f[j]
  BY <1>3, <1>4 DEF Bijection, Injection, IsInjective
<1>6. f \in SetToSeqs(NS)
  BY <1>5 DEF SetToSeqs
<1>7. q \in SetToSeqs(NS)
  BY <1>6
<1> HIDE DEF q
<1>8. q \in [D -> NS]
  BY <1>7 DEF SetToSeqs
<1>9. q \in Seq(NS) /\ Len(q) = n
  BY <1>2, <1>3, <1>8
<1>10. q = <<>> => n = 0
  BY <1>9
<1>11. n = 0 => NS = {}
  BY <1>1, <1>3, FS_EmptySet
<1> QED  BY <1>9, <1>10, <1>11 DEF q

\* evdns_base_new with the servers of the configuration.
LEMMA ResolverInit ==
  ASSUME Init
  PROVE  DnsInv
<1> DEFINE q == CHOOSE q \in SetToSeqs(NS) : TRUE
<1>1. q \in Seq(NS) /\ (q = <<>> => NS = {})
  BY FirstRing
<1>2. d.ring = q
  BY DEF Init
<1> HIDE DEF q
<1>3. /\ DOMAIN d = Fields /\ d.alive = TRUE /\ d.max = MaxInflight /\ d.ns = [n \in NS |-> NewServer]
      /\ d.req = [r \in Req |-> NoReq] /\ d.inflight = <<>> /\ d.waiting = <<>>
      /\ d.nwait = 0 /\ d.deferred = <<>>
  BY DEF Init, Fields
<1>4. /\ asked = {} /\ got = [h \in Handle |-> 0] /\ aborted = {}
  BY DEF Init
<1>5. \A h : Occ(<<>>, h) = 0 /\ ~In(h, <<>>)
  <2>1. <<>> \in Seq(Req)
    OBVIOUS
  <2>2. \A h : ~In(h, <<>>)
    BY DEF In, Range
  <2> QED  BY <2>1, <2>2, OccRange
<1>6. DOMAIN NoReq = ReqFields /\ NoReq.ns = NoNs /\ Idle(NoReq)
  BY DEF NoReq, ReqFields, Idle
<1>7. ReqsOk(d) /\ \A h \in Handle : HandleOk(d, h)
  BY <1>3, <1>5, <1>6 DEF ReqsOk, HandleOk, Req
<1>8. Well(d)
  <2>1. d.inflight \in Seq(Req) /\ d.waiting \in Seq(Req) /\ d.deferred \in Seq(Due)
        /\ d.nwait \in Int /\ d.nwait <= Len(d.waiting)
    BY <1>3
  <2>2. d.max \in Nat
    BY <1>3, DnsAssumption
  <2> QED  BY <1>1, <1>2, <1>3, <1>7, <2>1, <2>2 DEF Well
<1>9. d.ring = <<>> => Dry(d)
  BY <1>1, <1>2, <1>3 DEF Dry
<1>10. Base(d)
  BY <1>3, <1>8, <1>9 DEF Base
<1>11. \A h \in Handle : Tot(d, h) = 0
  <2>1. Owners(<<>>) = <<>>
    BY DEF Owners
  <2> QED  BY <1>3, <1>5, <2>1 DEF Tot
<1> QED  BY <1>4, <1>10, <1>11 DEF DnsInv

\* Every step of the resolver.
LEMMA ResolverStep ==
  ASSUME Careful, DnsInv, [Next]_vars
  PROVE  DnsInv'
<1>0. Apart
  BY DnsAssumption DEF Apart
<1>1. CASE UNCHANGED vars
  BY <1>1 DEF vars, DnsInv
<1>2. ASSUME NEW c \in Luck, NEW h \in Handle, evdns_base_resolve(h, c) \/ Cancel(h, c)
      PROVE  DnsInv'
  BY <1>0, <1>2, ResolveKeeps, CancelStep
<1>3. ASSUME NEW c \in Luck, NEW r \in Range(d.inflight), NEW n \in NS, NEW rcode \in Rcode,
             NEW asks \in {r, Late}, nameserver_read(n, r, asks, rcode, c)
      PROVE  DnsInv'
  BY <1>0, <1>3, ReadKeeps
<1>4. ASSUME NEW c \in Luck, NEW n \in NS,
             \/ ReadStray(n, c) \/ nameserver_send_probe(n, c) \/ nameserver_read_error(n, c)
             \/ nameserver_ready_callback(n, c) \/ _evdns_nameserver_add_impl(n, c)
      PROVE  DnsInv'
  BY <1>0, <1>4, StrayKeeps, SendProbeKeeps, ReadErrorKeeps, ReadyKeeps, AddKeeps
<1>5. ASSUME NEW c \in Luck, NEW r \in Req, evdns_request_timeout_callback(r, c)
      PROVE  DnsInv'
  BY <1>5, TimeoutKeeps
<1>6. ASSUME NEW c \in Luck,
             \/ reply_run_callback(c) \/ evdns_base_clear_nameservers_and_suspend(c)
             \/ evdns_base_resume(c)
             \/ \E fail \in BOOLEAN : evdns_base_free(fail, c)
      PROVE  DnsInv'
  BY <1>0, <1>6, RunKeeps, SuspendKeeps, ResumeKeeps, FreeBaseKeeps
<1>7. ASSUME NEW c \in Luck, NEW m \in Limits, evdns_base_set_max_requests_inflight(m, c)
      PROVE  DnsInv'
  <2>1. m \in Nat
    BY DnsAssumption
  <2> QED  BY <1>7, <2>1, LimitKeeps
<1>8. CASE Next
  <2> HIDE DEF DnsInv
  <2> QED  BY <1>2, <1>3, <1>4, <1>5, <1>6, <1>7, <1>8 DEF Next
<1> QED  BY <1>1, <1>8

\* What the invariant says of a call is the property.
LEMMA DnsInvImplies ==
  ASSUME DnsInv
  PROVE  OneCallback
<1>1. Well(d) /\ asked \subseteq Handle
  BY DEF DnsInv, Base
<1>2. ASSUME NEW h \in asked
      PROVE  LET due == Cardinality({i \in DOMAIN d.deferred : d.deferred[i].h = h})
             IN  got[h] + due + (IF Live(d, h) THEN 1 ELSE 0) = IF h \in aborted THEN 0 ELSE 1
  <2> DEFINE due == Cardinality({i \in DOMAIN d.deferred : d.deferred[i].h = h})
  <2>1. Occ(Owners(d.deferred), h) = due
    <3>1. DOMAIN Owners(d.deferred) = DOMAIN d.deferred
          /\ \A i \in DOMAIN d.deferred : Owners(d.deferred)[i] = d.deferred[i].h
      BY DEF Owners
    <3>2. {i \in DOMAIN Owners(d.deferred) : Owners(d.deferred)[i] = h}
            = {i \in DOMAIN d.deferred : d.deferred[i].h = h}
      BY <3>1
    <3> QED  BY <3>2 DEF Occ
  <2> HIDE DEF due
  <2>2. /\ Occ(d.inflight, h) \in Nat /\ Occ(d.waiting, h) \in Nat
        /\ Occ(Owners(d.deferred), h) \in Nat
        /\ Occ(d.inflight, h) = 0 <=> ~In(h, d.inflight)
        /\ Occ(d.waiting, h) = 0 <=> ~In(h, d.waiting)
    BY <1>1, Numbers
  <2>3. Occ(d.inflight, h) + Occ(d.waiting, h) <= 1
    BY <1>1 DEF Well, HandleOk
  <2>4. got[h] \in Nat /\ got[h] + Tot(d, h) = IF h \in aborted THEN 0 ELSE 1
    BY <1>1 DEF DnsInv
  <2>5. Occ(d.inflight, h) + Occ(d.waiting, h) = IF Live(d, h) THEN 1 ELSE 0
    BY <2>2, <2>3 DEF Live
  <2>6. got[h] + due + (IF Live(d, h) THEN 1 ELSE 0) = IF h \in aborted THEN 0 ELSE 1
    BY <2>1, <2>2, <2>4, <2>5 DEF Tot
  <2> QED  BY <2>6 DEF due
<1>3. \A i \in DOMAIN d.deferred :
        d.deferred[i].err = "none" => d.deferred[i].answer = d.deferred[i].h
  <2>1. \A i \in DOMAIN d.deferred : d.deferred[i] \in Due
    BY <1>1 DEF Well
  <2> QED  BY <2>1 DEF Due
<1> QED  BY <1>2, <1>3 DEF OneCallback

\* The user of evdns_base_resolve_* has exactly one callback for a call, and a
\* result answers the question that was asked, for any number of calls, servers,
\* retransmissions, reissues, searches, cancellations and suspensions, and any ids
\* that are used again (reply_handle, evdns_request_timeout_callback,
\* evdns_cancel_request, search_try_next, evdns_base_clear_nameservers_and_suspend
\* and evdns_base_free), when the application avoids the calls that would use a
\* server that was freed.
THEOREM OneCallbackHolds ==
  ASSUME Careful
  PROVE  MCSpec => []OneCallback
<1>1. MCInit => DnsInv
  BY ResolverInit DEF MCInit
<1>2. DnsInv /\ [MCNext]_mcVars => DnsInv'
  <2> SUFFICES ASSUME DnsInv, [MCNext]_mcVars
               PROVE  [Next]_vars
    BY ResolverStep
  <2> QED  BY DEF MCNext, mcVars, Resolver, AddrInfo, ServerPort
<1>3. DnsInv => OneCallback
  BY DnsInvImplies
<1> QED  BY <1>1, <1>2, <1>3, PTL DEF MCSpec
===============================================================================
