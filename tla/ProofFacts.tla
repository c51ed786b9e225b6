------------------------------- MODULE ProofFacts -------------------------------
(***************************************************************************)
(* Facts that the proofs about the components share: induction over finite *)
(* sets and over the naturals, stated for a set and not for an operator,   *)
(* so that they can be used by name; the least element of a set of         *)
(* naturals; and what the operators on lists without repetition do.        *)
(***************************************************************************)
EXTENDS Integers, Sequences, FiniteSets, SequencesExt, FiniteSetTheorems,
        SequenceTheorems, FunctionTheorems, TLAPS

-------------------------------------------------------------------------------
\* Every finite set is in P if the empty set is and one more element keeps a
\* set in P.  (A set outside P that is minimal cannot exist.)
LEMMA FiniteInduction ==
  ASSUME NEW S, IsFiniteSet(S),
         NEW P, {} \in P,
         \A T \in SUBSET S : \A x \in S : T \in P /\ x \notin T => T \cup {x} \in P
  PROVE  S \in P
<1> SUFFICES ASSUME S \notin P
             PROVE  FALSE
  OBVIOUS
<1> DEFINE Bad == {T \in SUBSET S : T \notin P}
<1>1. IsWellFoundedOn(StrictSubsetOrdering(S), SUBSET S)
  BY FS_StrictSubsetOrderingWellFounded, FS_FiniteSubsetsOfFinite
<1>2. Bad # {} /\ Bad \subseteq SUBSET S
  OBVIOUS
<1>3. PICK M \in Bad : \A T \in Bad : <<T, M>> \notin StrictSubsetOrdering(S)
  <2> HIDE DEF Bad
  <2> QED  BY <1>1, <1>2, WFMin
<1>4. PICK x \in M : TRUE
  BY <1>3
<1>5. M \ {x} \in SUBSET S /\ M \ {x} # M /\ M = (M \ {x}) \cup {x}
  BY <1>3, <1>4
<1>6. <<M \ {x}, M>> \in StrictSubsetOrdering(S)
  BY <1>3, <1>5 DEF StrictSubsetOrdering
<1>7. M \ {x} \in P
  BY <1>3, <1>5, <1>6
<1> QED  BY <1>3, <1>4, <1>5, <1>7

\* Induction over the naturals.
LEMMA NaturalInduction ==
  ASSUME NEW P, 0 \in P, \A n \in Nat : n \in P => n + 1 \in P
  PROVE  Nat \subseteq P
<1> SUFFICES ASSUME NEW m \in Nat, m \notin P
             PROVE  FALSE
  OBVIOUS
<1> DEFINE Bad == {T \in SUBSET (0 .. m) : \E k \in 0 .. m : k \notin P /\ T = 0 .. k}
<1>1. IsWellFoundedOn(StrictSubsetOrdering(0 .. m), SUBSET (0 .. m))
  <2>1. IsFiniteSet(0 .. m)
    BY FS_Interval
  <2> QED  BY <2>1, FS_StrictSubsetOrderingWellFounded, FS_FiniteSubsetsOfFinite
<1>2. Bad # {} /\ Bad \subseteq SUBSET (0 .. m)
  <2>1. 0 .. m \in Bad
    OBVIOUS
  <2> QED  BY <2>1
<1>3. PICK M \in Bad : \A T \in Bad : <<T, M>> \notin StrictSubsetOrdering(0 .. m)
  <2> HIDE DEF Bad
  <2> QED  BY <1>1, <1>2, WFMin
<1>4. PICK k \in 0 .. m : k \notin P /\ M = 0 .. k
  BY <1>3
<1>5. k - 1 \in 0 .. m /\ k - 1 \notin P
  <2>1. k - 1 \in Nat /\ k = (k - 1) + 1
    BY <1>4
  <2> QED  BY <1>4, <2>1
<1>6. 0 .. (k - 1) \in Bad
  BY <1>5
<1>7. 0 .. (k - 1) \subseteq 0 .. k /\ k \in 0 .. k /\ k \notin 0 .. (k - 1)
  BY <1>4
<1>8. <<0 .. (k - 1), M>> \in StrictSubsetOrdering(0 .. m)
  BY <1>3, <1>4, <1>6, <1>7 DEF StrictSubsetOrdering
<1> QED  BY <1>3, <1>6, <1>8

\* A set of naturals that is not empty has a least element, and Min gives it.
LEMMA MinOfNaturals ==
  ASSUME NEW S \in SUBSET Nat, S # {}
  PROVE  Min(S) \in S /\ \A y \in S : Min(S) <= y
<1> DEFINE P == {n \in Nat : (\E x \in S : x <= n) =>
                               \E x \in S : \A y \in S : x <= y}
<1>1. 0 \in P
  OBVIOUS
<1>2. ASSUME NEW n \in Nat, n \in P
      PROVE  n + 1 \in P
  <2> SUFFICES ASSUME NEW x \in S, x <= n + 1
               PROVE  \E z \in S : \A y \in S : z <= y
    OBVIOUS
  <2>1. CASE \E y \in S : y <= n
    BY <1>2, <2>1
  <2>2. CASE \A y \in S : ~(y <= n)
    BY <2>2
  <2> QED  BY <2>1, <2>2
<1>3. Nat \subseteq P
  <2> HIDE DEF P
  <2> QED  BY <1>1, <1>2, NaturalInduction
<1>4. \E x \in S : \A y \in S : x <= y
  <2>1. PICK x \in S : x \in P
    BY <1>3
  <2> QED  BY <2>1
<1> QED  BY <1>4 DEF Min

-------------------------------------------------------------------------------
\* The elements of a list.
LEMMA ElementsInRange ==
  ASSUME NEW S, NEW s \in Seq(S)
  PROVE  /\ ToSet(s) = {s[i] : i \in 1 .. Len(s)}
         /\ Range(s) = {s[i] : i \in 1 .. Len(s)}
         /\ ToSet(s) \subseteq S
         /\ Len(s) \in Nat
         /\ s = <<>> <=> Len(s) = 0
         /\ s = <<>> <=> ToSet(s) = {}
<1>1. DOMAIN s = 1 .. Len(s) /\ Len(s) \in Nat /\ (s = <<>> <=> Len(s) = 0)
  OBVIOUS
<1>2. \A i \in 1 .. Len(s) : s[i] \in S
  OBVIOUS
<1>3. ToSet(s) = {s[i] : i \in 1 .. Len(s)} /\ Range(s) = ToSet(s)
  BY <1>1 DEF ToSet, Range
<1>4. Len(s) # 0 => s[1] \in ToSet(s)
  BY <1>1, <1>3
<1>5. Len(s) = 0 => ToSet(s) = {}
  BY <1>1, <1>3
<1> QED  BY <1>1, <1>2, <1>3, <1>4, <1>5

LEMMA AppendElements ==
  ASSUME NEW S, NEW s \in Seq(S), NEW x \in S
  PROVE  /\ Append(s, x) \in Seq(S)
         /\ Append(s, x) # <<>>
         /\ ToSet(Append(s, x)) = ToSet(s) \cup {x}
         /\ IsInjective(s) /\ x \notin ToSet(s) => IsInjective(Append(s, x))
<1> DEFINE t == Append(s, x)
<1>1. /\ DOMAIN t = 1 .. Len(s) + 1 /\ DOMAIN s = 1 .. Len(s) /\ Len(s) \in Nat
      /\ t \in Seq(S) /\ t # <<>>
  OBVIOUS
<1>2. /\ \A i \in 1 .. Len(s) : t[i] = s[i]
      /\ t[Len(s) + 1] = x
  OBVIOUS
<1> HIDE DEF t
<1>3. ToSet(t) \subseteq ToSet(s) \cup {x}
  BY <1>1, <1>2 DEF ToSet
<1>4. ToSet(s) \cup {x} \subseteq ToSet(t)
  BY <1>1, <1>2 DEF ToSet
<1>5. ASSUME IsInjective(s), x \notin ToSet(s)
      PROVE  IsInjective(t)
  <2> SUFFICES ASSUME NEW a \in 1 .. Len(s) + 1, NEW b \in 1 .. Len(s) + 1, t[a] = t[b]
               PROVE  a = b
    BY <1>1 DEF IsInjective
  <2>1. \A i \in 1 .. Len(s) : t[i] \in ToSet(s)
    BY <1>1, <1>2 DEF ToSet
  <2>2. a = Len(s) + 1 <=> b = Len(s) + 1
    BY <1>1, <1>2, <1>5, <2>1
  <2>3. CASE a # Len(s) + 1
    <3>1. a \in 1 .. Len(s) /\ b \in 1 .. Len(s)
      BY <1>1, <2>2, <2>3
    <3> QED  BY <1>1, <1>2, <1>5, <3>1 DEF IsInjective
  <2> QED  BY <2>2, <2>3
<1> QED  BY <1>1, <1>3, <1>4, <1>5 DEF t

LEMMA RemoveAtFacts ==
  ASSUME NEW S, NEW s \in Seq(S), NEW i \in 1 .. Len(s)
  PROVE  /\ RemoveAt(s, i) \in Seq(S)
         /\ Len(RemoveAt(s, i)) = Len(s) - 1
         /\ \A j \in 1 .. Len(s) - 1 : RemoveAt(s, i)[j] = IF j < i THEN s[j] ELSE s[j + 1]
<1> DEFINE a == SubSeq(s, 1, i - 1)
           b == SubSeq(s, i + 1, Len(s))
<1>1. a \in Seq(S) /\ Len(a) = i - 1 /\ \A j \in 1 .. i - 1 : a[j] = s[j]
  OBVIOUS
<1>2. b \in Seq(S) /\ Len(b) = Len(s) - i /\ \A j \in 1 .. Len(s) - i : b[j] = s[i + j]
  OBVIOUS
<1> HIDE DEF a, b
<1>3. /\ a \o b \in Seq(S)
      /\ Len(a \o b) = Len(a) + Len(b)
      /\ \A j \in 1 .. Len(a) + Len(b) :
           (a \o b)[j] = IF j <= Len(a) THEN a[j] ELSE b[j - Len(a)]
  BY <1>1, <1>2, ConcatProperties
<1>4. \A j \in 1 .. Len(s) - 1 : (a \o b)[j] = IF j < i THEN s[j] ELSE s[j + 1]
  BY <1>1, <1>2, <1>3
<1>5. RemoveAt(s, i) = a \o b
  BY DEF RemoveAt, a, b
<1>6. Len(a \o b) = Len(s) - 1
  BY <1>1, <1>2, <1>3
<1> QED  BY <1>3, <1>4, <1>5, <1>6

\* TAILQ_REMOVE: the entry goes, the others stay, in a list without repetition.
LEMMA RemoveFirstFacts ==
  ASSUME NEW S, NEW s \in Seq(S), IsInjective(s), NEW e \in ToSet(s)
  PROVE  /\ RemoveFirst(s, e) \in Seq(S)
         /\ IsInjective(RemoveFirst(s, e))
         /\ ToSet(RemoveFirst(s, e)) = ToSet(s) \ {e}
         /\ Len(RemoveFirst(s, e)) = Len(s) - 1
<1> DEFINE I == {j \in 1 .. Len(s) : s[j] = e}
           i == Min(I)
           t == RemoveAt(s, i)
<1>1. DOMAIN s = 1 .. Len(s) /\ Len(s) \in Nat /\ ToSet(s) = {s[j] : j \in 1 .. Len(s)}
  BY ElementsInRange
<1>2. I # {} /\ I \in SUBSET Nat
  BY <1>1
<1>3. i \in 1 .. Len(s) /\ s[i] = e
  <2> HIDE DEF I
  <2>1. i \in I
    BY <1>2, MinOfNaturals
  <2> QED  BY <2>1 DEF I
<1>4. RemoveFirst(s, e) = t
  BY <1>2 DEF RemoveFirst, SelectInSeq
<1> HIDE DEF i, I
<1>5. /\ t \in Seq(S) /\ Len(t) = Len(s) - 1
      /\ \A j \in 1 .. Len(s) - 1 : t[j] = IF j < i THEN s[j] ELSE s[j + 1]
  BY <1>3, RemoveAtFacts
<1> HIDE DEF t
<1>6. DOMAIN t = 1 .. Len(s) - 1 /\ ToSet(t) = {t[j] : j \in 1 .. Len(s) - 1}
  BY <1>5, ElementsInRange
<1>7. \A a, b \in 1 .. Len(s) : s[a] = s[b] => a = b
  BY <1>1 DEF IsInjective
<1>8. IsInjective(t)
  <2> SUFFICES ASSUME NEW a \in 1 .. Len(s) - 1, NEW b \in 1 .. Len(s) - 1, t[a] = t[b]
               PROVE  a = b
    BY <1>6 DEF IsInjective
  <2> QED  BY <1>1, <1>3, <1>5, <1>7
<1>9. ToSet(t) \subseteq ToSet(s) \ {e}
  <2> SUFFICES ASSUME NEW j \in 1 .. Len(s) - 1
               PROVE  t[j] \in ToSet(s) /\ t[j] # e
    BY <1>6
  <2>1. PICK m \in 1 .. Len(s) : t[j] = s[m] /\ m # i
    BY <1>1, <1>3, <1>5
  <2> QED  BY <1>1, <1>3, <1>7, <2>1
<1>10. ToSet(s) \ {e} \subseteq ToSet(t)
  <2> SUFFICES ASSUME NEW m \in 1 .. Len(s), s[m] # e
               PROVE  \E j \in 1 .. Len(s) - 1 : t[j] = s[m]
    BY <1>1, <1>6
  <2>1. CASE m < i
    <3>1. m \in 1 .. Len(s) - 1 /\ t[m] = s[m]
      BY <1>1, <1>3, <1>5, <2>1
    <3> QED  BY <3>1
  <2>2. CASE m > i
    <3>1. m - 1 \in 1 .. Len(s) - 1 /\ ~(m - 1 < i) /\ (m - 1) + 1 = m
      BY <1>1, <1>3, <2>2
    <3>2. t[m - 1] = s[m]
      BY <1>5, <3>1
    <3> QED  BY <3>1, <3>2
  <2> QED  BY <1>3, <2>1, <2>2
<1> QED  BY <1>4, <1>5, <1>8, <1>9, <1>10

\* TAILQ_FIRST and what is left.
LEMMA TailFacts ==
  ASSUME NEW S, NEW s \in Seq(S), s # <<>>
  PROVE  /\ Head(s) \in S /\ Head(s) \in ToSet(s)
         /\ Tail(s) \in Seq(S)
         /\ Len(Tail(s)) = Len(s) - 1
         /\ ToSet(s) = ToSet(Tail(s)) \cup {Head(s)}
         /\ IsInjective(s) => IsInjective(Tail(s)) /\ Head(s) \notin ToSet(Tail(s))
<1> DEFINE t == Tail(s)
<1>1. /\ t \in Seq(S) /\ Head(s) = s[1] /\ Len(s) \in Nat \ {0} /\ Len(t) = Len(s) - 1
      /\ \A i \in 1 .. Len(s) - 1 : t[i] = s[i + 1]
  OBVIOUS
<1> HIDE DEF t
<1>2. /\ DOMAIN t = 1 .. Len(s) - 1 /\ ToSet(t) = {t[j] : j \in 1 .. Len(s) - 1}
      /\ DOMAIN s = 1 .. Len(s) /\ ToSet(s) = {s[j] : j \in 1 .. Len(s)}
      /\ ToSet(s) \subseteq S
  BY <1>1, ElementsInRange
<1>3. Head(s) \in ToSet(s)
  BY <1>1, <1>2
<1>4. ToSet(t) \subseteq ToSet(s)
  BY <1>1, <1>2
<1>5. ToSet(s) \subseteq ToSet(t) \cup {Head(s)}
  <2> SUFFICES ASSUME NEW m \in 1 .. Len(s), m # 1
               PROVE  s[m] \in ToSet(t)
    BY <1>1, <1>2
  <2>1. m - 1 \in 1 .. Len(s) - 1 /\ t[m - 1] = s[m]
    BY <1>1
  <2> QED  BY <1>2, <2>1
<1>6. ASSUME IsInjective(s)
      PROVE  IsInjective(t) /\ Head(s) \notin ToSet(t)
  <2>1. \A a, b \in 1 .. Len(s) : s[a] = s[b] => a = b
    BY <1>2, <1>6 DEF IsInjective
  <2>2. Head(s) \notin ToSet(t)
    BY <1>1, <1>2, <2>1
  <2>3. \A a, b \in 1 .. Len(s) - 1 : t[a] = t[b] => a = b
    BY <1>1, <2>1
  <2> QED  BY <1>2, <2>2, <2>3 DEF IsInjective
<1> QED  BY <1>1, <1>2, <1>3, <1>4, <1>5, <1>6 DEF t

\* A list without repetition has as many elements as it is long.
LEMMA InjectiveLength ==
  ASSUME NEW S, NEW s \in Seq(S), IsInjective(s)
  PROVE  IsFiniteSet(ToSet(s)) /\ Cardinality(ToSet(s)) = Len(s)
<1>1. /\ DOMAIN s = 1 .. Len(s) /\ Len(s) \in Nat
      /\ ToSet(s) = {s[j] : j \in 1 .. Len(s)}
  BY ElementsInRange
<1>2. s \in [1 .. Len(s) -> ToSet(s)]
  BY <1>1
<1>3. \A a, b \in 1 .. Len(s) : s[a] = s[b] => a = b
  BY <1>1 DEF IsInjective
<1>4. s \in Bijection(1 .. Len(s), ToSet(s))
  BY <1>1, <1>2, <1>3, Fun_IsBij
<1>5. ExistsBijection(1 .. Len(s), ToSet(s))
  BY <1>4 DEF ExistsBijection
<1> QED  BY <1>1, <1>5, FS_CountingElements, FS_NatBijection

\* A list without repetition, cut into two.
LEMMA CutFacts ==
  ASSUME NEW S, NEW s \in Seq(S), IsInjective(s), NEW k \in 0 .. Len(s)
  PROVE  /\ SubSeq(s, 1, k) \in Seq(S) /\ Len(SubSeq(s, 1, k)) = k
         /\ SubSeq(s, k + 1, Len(s)) \in Seq(S)
         /\ Len(SubSeq(s, k + 1, Len(s))) = Len(s) - k
         /\ IsInjective(SubSeq(s, 1, k)) /\ IsInjective(SubSeq(s, k + 1, Len(s)))
         /\ ToSet(s) = ToSet(SubSeq(s, 1, k)) \cup ToSet(SubSeq(s, k + 1, Len(s)))
         /\ ToSet(SubSeq(s, 1, k)) \cap ToSet(SubSeq(s, k + 1, Len(s))) = {}
<1> DEFINE a == SubSeq(s, 1, k)
           b == SubSeq(s, k + 1, Len(s))
<1>1. a \in Seq(S) /\ Len(a) = k /\ \A j \in 1 .. k : a[j] = s[j]
  OBVIOUS
<1>2. b \in Seq(S) /\ Len(b) = Len(s) - k /\ \A j \in 1 .. Len(s) - k : b[j] = s[k + j]
  OBVIOUS
<1> HIDE DEF a, b
<1>3. /\ DOMAIN s = 1 .. Len(s) /\ ToSet(s) = {s[j] : j \in 1 .. Len(s)} /\ Len(s) \in Nat
      /\ DOMAIN a = 1 .. k /\ ToSet(a) = {a[j] : j \in 1 .. k}
      /\ DOMAIN b = 1 .. Len(s) - k /\ ToSet(b) = {b[j] : j \in 1 .. Len(s) - k}
  <2>1. DOMAIN s = 1 .. Len(s) /\ ToSet(s) = {s[j] : j \in 1 .. Len(s)} /\ Len(s) \in Nat
    BY ElementsInRange
  <2>2. DOMAIN a = 1 .. k /\ ToSet(a) = {a[j] : j \in 1 .. k}
    BY <1>1, ElementsInRange
  <2>3. DOMAIN b = 1 .. Len(s) - k /\ ToSet(b) = {b[j] : j \in 1 .. Len(s) - k}
    BY <1>2, ElementsInRange
  <2> QED  BY <2>1, <2>2, <2>3
<1>4. \A x, y \in 1 .. Len(s) : s[x] = s[y] => x = y
  BY <1>3 DEF IsInjective
<1>5. IsInjective(a)
  <2>1. \A x, y \in 1 .. k : a[x] = a[y] => x = y
    BY <1>1, <1>3, <1>4
  <2> QED  BY <1>3, <2>1 DEF IsInjective
<1>6. IsInjective(b)
  <2>1. \A x, y \in 1 .. Len(s) - k : b[x] = b[y] => x = y
    BY <1>2, <1>3, <1>4
  <2> QED  BY <1>3, <2>1 DEF IsInjective
<1>7. ToSet(a) \cap ToSet(b) = {}
  <2>1. \A x \in 1 .. k, y \in 1 .. Len(s) - k : a[x] # b[y]
    BY <1>1, <1>2, <1>3, <1>4
  <2> QED  BY <1>3, <2>1
<1>8. ToSet(a) \subseteq ToSet(s) /\ ToSet(b) \subseteq ToSet(s)
  <2>1. \A j \in 1 .. k : j \in 1 .. Len(s) /\ a[j] = s[j]
    BY <1>1, <1>3
  <2>2. \A j \in 1 .. Len(s) - k : k + j \in 1 .. Len(s) /\ b[j] = s[k + j]
    BY <1>2, <1>3
  <2> QED  BY <1>3, <2>1, <2>2
<1>9. ToSet(s) \subseteq ToSet(a) \cup ToSet(b)
  <2> SUFFICES ASSUME NEW m \in 1 .. Len(s)
               PROVE  s[m] \in ToSet(a) \cup ToSet(b)
    BY <1>3
  <2>1. CASE m <= k
    BY <1>1, <1>3, <2>1
  <2>2. CASE m > k
    <3>1. m - k \in 1 .. Len(s) - k /\ b[m - k] = s[m]
      BY <1>2, <1>3, <2>2
    <3> QED  BY <1>3, <3>1
  <2> QED  BY <2>1, <2>2
<1> QED  BY <1>1, <1>2, <1>5, <1>6, <1>7, <1>8, <1>9 DEF a, b

\* Removing what is not there.
LEMMA RemoveAbsent ==
  ASSUME NEW S, NEW s \in Seq(S), NEW e, e \notin ToSet(s)
  PROVE  RemoveFirst(s, e) = s
<1>1. \A i \in 1 .. Len(s) : s[i] # e
  BY ElementsInRange
<1> QED  BY <1>1 DEF RemoveFirst

\* The cardinality of a finite set without some of its elements.
LEMMA CardinalityWithout ==
  ASSUME NEW S, IsFiniteSet(S), NEW T \in SUBSET S
  PROVE  /\ IsFiniteSet(S \ T) /\ IsFiniteSet(T)
         /\ Cardinality(S \ T) = Cardinality(S) - Cardinality(T)
         /\ Cardinality(S) \in Nat /\ Cardinality(T) \in Nat
         /\ Cardinality(S \ T) \in Nat
         /\ Cardinality(S \ T) = 0 <=> S = T
<1>1. S \cap T = T
  OBVIOUS
<1>2. IsFiniteSet(T) /\ IsFiniteSet(S \ T)
  BY FS_Subset, FS_Difference
<1>3. Cardinality(S \ T) = Cardinality(S) - Cardinality(T)
  BY <1>1, FS_Difference
<1>4. Cardinality(S) \in Nat /\ Cardinality(T) \in Nat /\ Cardinality(S \ T) \in Nat
  BY <1>2, FS_CardinalityType
<1>5. Cardinality(S \ T) = 0 <=> S \ T = {}
  BY <1>2, FS_EmptySet
<1> QED  BY <1>2, <1>3, <1>4, <1>5
===============================================================================
