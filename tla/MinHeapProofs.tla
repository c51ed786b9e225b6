---------------------------- MODULE MinHeapProofs ----------------------------
(***************************************************************************)
(* Proofs about MinHeap, for every set of events and times and every size  *)
(* of the first allocation.                                                *)
(***************************************************************************)
EXTENDS MinHeap, WellFoundedInduction, TLAPS

\* Arithmetic of the implicit tree: a slot comes after its parent.
LEMMA ParentFacts ==
  ASSUME NEW i \in Nat, i > 0
  PROVE  /\ Parent(i) \in Nat
         /\ Parent(i) < i
         /\ i = 2 * Parent(i) + 1 \/ i = 2 * Parent(i) + 2
  BY SMT DEF Parent

\* Every non-empty set of naturals has a least element.
LEMMA LeastNat ==
  ASSUME NEW T \in SUBSET Nat, T # {}
  PROVE  \E x \in T : \A y \in T : x <= y
<1> DEFINE R == OpToRel(<, Nat)
<1>1. R = {ss \in Nat \X Nat : ss[1] < ss[2]}
  BY Zenon DEF OpToRel
<1>2. IsWellFoundedOn(R, Nat)
  BY NatLessThanWellFounded
<1> HIDE DEF R
<1>3. PICK x \in T : \A y \in T : ~(<<y, x>> \in R)
  BY <1>2, WFMin, Zenon
<1>4. \A y \in Nat : y < x => <<y, x>> \in R
  BY <1>1, x \in Nat
<1>5. \A y \in T : x <= y
  <2> TAKE y \in T
  <2>1. x \in Nat /\ y \in Nat
    OBVIOUS
  <2>2. ~(y < x)
    BY <1>3, <1>4, <2>1, Zenon
  <2> QED  BY <2>1, <2>2
<1> QED  BY <1>5

\* The empty heap of Init satisfies the inductive invariant.
LEMMA InvInit == Init => IInv
<1> SUFFICES ASSUME Init PROVE IInv
  OBVIOUS
<1> USE HeapAssumption DEF Init
<1>1. TypeOK  BY DEF TypeOK
<1>2. SlotsOK /\ MembersOK  BY DEF SlotsOK, MembersOK, Slots
<1>3. CallOK /\ HeapOrder /\ HoleOrder
  BY DEF CallOK, HeapOrder, HoleOrder, Slots
<1> QED  BY <1>1, <1>2, <1>3 DEF IInv

\* min_heap_push opens a hole behind the last slot.
LEMMA PushKeepsInv ==
  ASSUME IInv, NEW e \in Event, NEW t \in Time, min_heap_push(e, t)
  PROVE  IInv'
<1> USE HeapAssumption, ParentFacts DEF IInv, TypeOK, min_heap_push, min_heap_reserve
<1>1. /\ Reserved(n + 1) \in Nat
      /\ Reserved(n + 1) >= a
      /\ Reserved(n + 1) >= n + 1
  BY DEF Reserved
<1>2. TypeOK'
  BY <1>1
<1>3. /\ Slots' = 0 .. n - 1
      /\ Slots = 0 .. n - 1
      /\ \A i \in 0 .. n - 1 : p'[i] = p[i]
  <2>1. n \in Nat /\ n' = n + 1 /\ pc = "idle" /\ pc' = "up" /\ hole_index' = n
    OBVIOUS
  <2>2. Slots = 0 .. n - 1
    BY <2>1 DEF Slots
  <2>3. Slots' = 0 .. n - 1
    <3> HIDE DEF min_heap_push, min_heap_reserve, IInv, TypeOK
    <3>1. Slots' = {i \in 0 .. (n + 1) - 1 : i # n}
      BY <2>1 DEF Slots
    <3> QED  BY <2>1, <3>1
  <2>4. \A i \in 0 .. n - 1 : p'[i] = p[i]
    BY <1>1
  <2> QED  BY <2>2, <2>3, <2>4
<1>4. \A i \in 0 .. n - 1 : p[i] \in Event /\ p[i] # e
  BY <1>3 DEF SlotsOK
<1>5. SlotsOK'
  <2> SUFFICES ASSUME NEW i \in 0 .. n - 1
               PROVE  /\ p[i] \in Event
                      /\ min_heap_idx[p[i]] = i
                      /\ p[i] # e /\ p[i] # NoEvent
    BY <1>3 DEF SlotsOK
  <2> QED  BY <1>3, <1>4 DEF SlotsOK
<1>6. MembersOK'
  BY <1>3 DEF MembersOK
<1>7. CallOK'
  BY DEF CallOK
<1>8. HeapOrder'
  <2> SUFFICES ASSUME NEW i \in 0 .. n - 1, i > 0, Parent(i) \in 0 .. n - 1
               PROVE  ev_timeout'[p[Parent(i)]] <= ev_timeout'[p[i]]
    BY <1>3 DEF HeapOrder
  <2>1. ev_timeout[p[Parent(i)]] <= ev_timeout[p[i]]
    BY <1>3 DEF HeapOrder
  <2> QED  BY <1>4, <2>1
<1>9. HoleOrder'
  BY <1>3 DEF HoleOrder
<1> QED  BY <1>2, <1>5, <1>6, <1>7, <1>8, <1>9

\* The order of the heap, read along the path from slot i to the root.
LEMMA TopLemma ==
  ASSUME IInv, pc = "idle"
  PROVE  \A i \in 0 .. n - 1 : ev_timeout[p[0]] <= ev_timeout[p[i]]
<1> USE HeapAssumption DEF IInv, TypeOK
<1> DEFINE Late == {i \in 0 .. n - 1 : ~(ev_timeout[p[0]] <= ev_timeout[p[i]])}
<1> SUFFICES ASSUME Late # {} PROVE FALSE
  OBVIOUS
<1>1. Late \in SUBSET Nat
  OBVIOUS
<1> HIDE DEF Late
<1>2. PICK i \in Late : \A j \in Late : i <= j
  BY <1>1, LeastNat
<1> USE DEF Late
<1>3. \A j \in 0 .. n - 1 : j \in Slots /\ p[j] \in Event
  BY DEF SlotsOK, Slots
<1>4. i # 0
  BY <1>3
<1>5. Parent(i) \in 0 .. n - 1 /\ Parent(i) < i
  BY <1>4, ParentFacts
<1>6. Parent(i) \notin Late
  BY <1>2, <1>5
<1>7. ev_timeout[p[Parent(i)]] <= ev_timeout[p[i]]
  <2>1. i \in Slots /\ Parent(i) \in Slots /\ i > 0
    BY <1>3, <1>4, <1>5
  <2> QED  BY <2>1 DEF HeapOrder
<1> QED  BY <1>3, <1>5, <1>6, <1>7

\* min_heap_pop takes the last event out and opens a hole at the root.
LEMMA PopKeepsInv ==
  ASSUME IInv, min_heap_pop
  PROVE  IInv'
<1> USE HeapAssumption DEF IInv, TypeOK, min_heap_pop
<1>1. /\ Slots = 0 .. n - 1
      /\ Slots' = 1 .. n - 2
  BY DEF Slots
<1>2. \A i \in 0 .. n - 1 : p[i] \in Event /\ min_heap_idx[p[i]] = i
  BY <1>1 DEF SlotsOK
<1>3. TypeOK'
  BY <1>2
<1>4. SlotsOK'
  <2> SUFFICES ASSUME NEW i \in 1 .. n - 2
               PROVE  /\ p[i] \in Event
                      /\ min_heap_idx[p[i]] = i
                      /\ p[i] # p[n - 1] /\ p[i] # p[0]
    BY <1>1 DEF SlotsOK
  <2> QED  BY <1>2
<1>5. MembersOK'
  <2> SUFFICES ASSUME NEW e \in Event, min_heap_idx[e] # -1,
                      e # p[n - 1], e # p[0]
               PROVE  min_heap_idx[e] \in 1 .. n - 2 /\ p[min_heap_idx[e]] = e
    BY <1>1 DEF MembersOK
  <2> QED  BY <1>1, SMTT(30) DEF MembersOK
<1>6. CallOK'
  <2>1. \A e \in InHeap : \E i \in 0 .. n - 1 : p[i] = e
    BY <1>1 DEF MembersOK, InHeap
  <2>2. \A e \in InHeap : ev_timeout[p[0]] <= ev_timeout[e]
    BY <2>1, TopLemma
  <2>3. p[0] \in InHeap /\ p[n - 1] \in InHeap
    BY <1>2 DEF InHeap
  <2>4. p[n - 1] = p[0] <=> n = 1
    BY <1>2
  <2> QED  BY <2>2, <2>3, <2>4 DEF CallOK, InHeap
<1>7. HeapOrder'
  <2> SUFFICES ASSUME NEW i \in 1 .. n - 2, Parent(i) \in 1 .. n - 2
               PROVE  ev_timeout[p[Parent(i)]] <= ev_timeout[p[i]]
    BY <1>1 DEF HeapOrder
  <2>1. i \in Slots /\ Parent(i) \in Slots /\ i > 0
    BY <1>1
  <2> QED  BY <2>1 DEF HeapOrder
<1>8. HoleOrder'
  BY <1>1 DEF HoleOrder
<1> QED  BY <1>3, <1>4, <1>5, <1>6, <1>7, <1>8

\* min_heap_erase opens a hole where the erased event was.
LEMMA EraseKeepsInv ==
  ASSUME IInv, NEW e \in Event, min_heap_erase(e)
  PROVE  IInv'
<1> DEFINE i == min_heap_idx[e]
           last == p[n - 1]
<1> USE HeapAssumption DEF IInv, TypeOK, min_heap_erase, min_heap_elem_greater
<1>1. /\ Slots = 0 .. n - 1
      /\ i \in 0 .. n - 1 /\ p[i] = e
      /\ n \in Nat \ {0}
  BY DEF MembersOK, Slots
<1>2. Slots' = {j \in 0 .. n - 2 : j # i}
  BY DEF Slots
<1>3. \A j \in 0 .. n - 1 : p[j] \in Event /\ min_heap_idx[p[j]] = j
  BY <1>1 DEF SlotsOK
<1>4. \A j \in 0 .. n - 1 : j > 0 =>
        /\ Parent(j) \in 0 .. n - 1
        /\ Parent(j) # j
        /\ ev_timeout[p[Parent(j)]] <= ev_timeout[p[j]]
  <2> TAKE j \in 0 .. n - 1
  <2> HAVE j > 0
  <2>1. Parent(j) \in 0 .. n - 1 /\ Parent(j) # j
    BY ParentFacts, SMTT(30)
  <2>2. j \in Slots /\ Parent(j) \in Slots
    BY <2>1, <1>1
  <2> QED  BY <2>1, <2>2 DEF HeapOrder
<1>5. i = n - 1 <=> last = e
  BY <1>1, <1>3, SMTT(30)
<1>6. pc' = "up" => i > 0 /\ i < n - 1 /\ ev_timeout[last] < ev_timeout[p[Parent(i)]]
  BY <1>1, <1>3, <1>4, <1>5
<1>7. TypeOK'
  BY <1>1, <1>3, <1>6, SMTT(30)
<1>8. SlotsOK'
  <2> SUFFICES ASSUME NEW j \in 0 .. n - 2, j # i
               PROVE  /\ p[j] \in Event
                      /\ min_heap_idx[p[j]] = j
                      /\ p[j] # last /\ p[j] # e
    BY <1>2 DEF SlotsOK
  <2> QED  BY <1>1, <1>3, SMTT(30)
<1>9. MembersOK'
  <2> SUFFICES ASSUME NEW f \in Event, min_heap_idx[f] # -1, f # last, f # e
               PROVE  /\ min_heap_idx[f] \in 0 .. n - 2
                      /\ min_heap_idx[f] # i
                      /\ p[min_heap_idx[f]] = f
    BY <1>2 DEF MembersOK
  <2> QED  BY <1>1, <1>3, SMTT(30) DEF MembersOK
<1>10. CallOK'
  <2>1. last \in InHeap /\ e \in InHeap
    BY <1>1, <1>3 DEF InHeap
  <2> QED  BY <1>1, <1>5, <1>6, <2>1 DEF CallOK, InHeap
<1>11. HeapOrder'
  <2> SUFFICES ASSUME NEW j \in 0 .. n - 2, j > 0
               PROVE  ev_timeout[p[Parent(j)]] <= ev_timeout[p[j]]
    BY <1>2 DEF HeapOrder
  <2> QED  BY <1>4
<1>12. HoleOrder'
  <2>1. pc' = "down" /\ i > 0 => ev_timeout[p[Parent(i)]] <= ev_timeout[last]
    BY <1>1, <1>3, <1>4, SMTT(30)
  <2>2. ASSUME NEW j \in 0 .. n - 2, j # i, j > 0, Parent(j) = i
        PROVE  /\ i > 0 => ev_timeout[p[Parent(i)]] <= ev_timeout[p[j]]
               /\ pc' = "up" => ev_timeout[last] <= ev_timeout[p[j]]
    <3>1. ev_timeout[p[i]] <= ev_timeout[p[j]]
      BY <2>2, <1>4, SMTT(30)
    <3>2. i > 0 => ev_timeout[p[Parent(i)]] <= ev_timeout[p[i]]
      BY <1>1, <1>4
    <3> QED  BY <1>1, <1>3, <1>4, <1>6, <3>1, <3>2, SMTT(30)
  <2> QED  BY <1>2, <2>1, <2>2 DEF HoleOrder
<1> QED  BY <1>7, <1>8, <1>9, <1>10, <1>11, <1>12

\* An iteration of either sift: all but the order of the heap.
LEMMA MoveKeepsPlaces ==
  ASSUME IInv, pc # "idle", hole_index < n,
         NEW c \in Slots, MoveIntoHole(c)
  PROVE  /\ TypeOK' /\ SlotsOK' /\ MembersOK' /\ CallOK'
         /\ Slots' = {i \in 0 .. n - 1 : i # c}
         /\ \A i \in Slots' : /\ i # hole_index => i \in Slots /\ p'[i] = p[i]
                              /\ i = hole_index => p'[i] = p[c]
<1> USE HeapAssumption DEF IInv, TypeOK, MoveIntoHole
<1>1. /\ Slots = {i \in 0 .. n - 1 : i # hole_index}
      /\ Slots' = {i \in 0 .. n - 1 : i # c}
  BY DEF Slots
<1>2. /\ \A i \in Slots' : /\ i # hole_index => i \in Slots /\ p'[i] = p[i]
                           /\ i = hole_index => p'[i] = p[c]
      /\ hole_index \in Slots'
      /\ c \in 0 .. n - 1 /\ c # hole_index
  BY <1>1
<1>3. \A i \in Slots : /\ p[i] \in Event
                       /\ min_heap_idx[p[i]] = i
                       /\ p[i] # moving /\ p[i] # leaving
  BY DEF SlotsOK
<1>4. TypeOK'
  BY <1>1, <1>3
<1>5. SlotsOK'
  <2> SUFFICES ASSUME NEW i \in Slots'
               PROVE  /\ p'[i] \in Event
                      /\ min_heap_idx'[p'[i]] = i
                      /\ p'[i] # moving /\ p'[i] # leaving
    BY DEF SlotsOK
  <2>1. CASE i = hole_index
    BY <1>2, <1>3, <2>1
  <2>2. CASE i # hole_index
    BY <1>1, <1>2, <1>3, <2>2
  <2> QED  BY <2>1, <2>2
<1>6. MembersOK'
  <2> SUFFICES ASSUME NEW f \in Event, min_heap_idx'[f] # -1,
                      f # moving, f # leaving
               PROVE  min_heap_idx'[f] \in Slots' /\ p'[min_heap_idx'[f]] = f
    BY DEF MembersOK
  <2>1. CASE f = p[c]
    BY <1>2, <1>3, <2>1
  <2>2. CASE f # p[c]
    <3>1. min_heap_idx'[f] = min_heap_idx[f]
      BY <2>2, <1>3
    <3>2. min_heap_idx[f] \in Slots /\ p[min_heap_idx[f]] = f
      BY <3>1 DEF MembersOK
    <3> QED  BY <1>1, <1>2, <2>2, <3>1, <3>2
  <2> QED  BY <2>1, <2>2
<1>7. CallOK'
  <2>1. InHeap' = InHeap
    BY <1>2, <1>3 DEF InHeap
  <2>2. min_heap_idx'[moving] = min_heap_idx[moving]
    BY <1>3
  <2>3. moving # leaving
    BY DEF CallOK
  <2> QED  BY <1>2, <2>1, <2>2, <2>3 DEF CallOK
<1> QED  BY <1>1, <1>2, <1>4, <1>5, <1>6, <1>7

\* An iteration of min_heap_shift_up_.
LEMMA UpKeepsInv ==
  ASSUME IInv, min_heap_shift_up_
  PROVE  IInv'
<1> DEFINE c == Parent(hole_index)
<1> USE HeapAssumption DEF IInv, TypeOK, min_heap_shift_up_, UpContinues,
                           min_heap_elem_greater
<1>1. /\ c \in Slots /\ c < hole_index
      /\ Slots = {i \in 0 .. n - 1 : i # hole_index}
      /\ hole_index < n
      /\ MoveIntoHole(c)
  BY ParentFacts DEF Slots
<1>2. /\ TypeOK' /\ SlotsOK' /\ MembersOK' /\ CallOK'
      /\ Slots' = {i \in 0 .. n - 1 : i # c}
      /\ \A i \in Slots' : /\ i # hole_index => i \in Slots /\ p'[i] = p[i]
                           /\ i = hole_index => p'[i] = p[c]
  BY <1>1, MoveKeepsPlaces
<1>3. /\ UNCHANGED <<n, ev_timeout, pc, moving, leaving>>
      /\ hole_index' = c
      /\ ev_timeout[moving] < ev_timeout[p[c]]
  BY <1>1 DEF MoveIntoHole, SlotsOK
<1>4. \A i \in Slots : p[i] \in Event /\ ev_timeout[p[i]] \in Int
  BY DEF SlotsOK
<1>5. \A i \in Slots : i > 0 /\ Parent(i) = hole_index =>
                        ev_timeout[p[c]] <= ev_timeout[p[i]]
  BY DEF HoleOrder
<1>6. HeapOrder'
  <2> SUFFICES ASSUME NEW i \in Slots', i > 0, Parent(i) \in Slots'
               PROVE  ev_timeout[p'[Parent(i)]] <= ev_timeout[p'[i]]
    BY <1>3 DEF HeapOrder
  <2>1. i # hole_index
    BY <1>2
  <2>2. CASE Parent(i) = hole_index
    BY <1>2, <1>5, <2>1, <2>2
  <2>3. CASE Parent(i) # hole_index
    BY <1>2, <2>1, <2>3 DEF HeapOrder
  <2> QED  BY <2>2, <2>3
<1>7. HoleOrder'
  <2> SUFFICES ASSUME NEW i \in Slots', i > 0, Parent(i) = c
               PROVE  /\ c > 0 => ev_timeout[p'[Parent(c)]] <= ev_timeout[p'[i]]
                      /\ ev_timeout[moving] <= ev_timeout[p'[i]]
    BY <1>3 DEF HoleOrder
  <2>1. ev_timeout[p[c]] <= ev_timeout[p'[i]]
    <3>1. CASE i = hole_index
      <4>1. p'[i] = p[c]
        BY <1>2, <3>1
      <4> QED  BY <1>1, <1>4, <4>1
    <3>2. CASE i # hole_index
      BY <1>1, <1>2, <3>2 DEF HeapOrder
    <3> QED  BY <3>1, <3>2
  <2>2. p'[i] \in Event
    BY <1>2 DEF SlotsOK
  <2>3. c > 0 => /\ Parent(c) \in Slots
                 /\ p'[Parent(c)] = p[Parent(c)]
                 /\ ev_timeout[p[Parent(c)]] <= ev_timeout[p[c]]
    <3> HAVE c > 0
    <3>1. Parent(c) \in Nat /\ Parent(c) < c
      BY <1>1, ParentFacts DEF Slots
    <3>2. /\ Parent(c) \in 0 .. n - 1
          /\ Parent(c) # hole_index /\ Parent(c) # c
      BY <1>1, <3>1
    <3>3. Parent(c) \in Slots /\ Parent(c) \in Slots'
      BY <1>1, <1>2, <3>2
    <3> QED  BY <1>1, <1>2, <3>2, <3>3 DEF HeapOrder
  <2>4. /\ ev_timeout[p[c]] \in Int /\ ev_timeout[p'[i]] \in Int
        /\ ev_timeout[moving] \in Int
    BY <1>1, <1>4, <2>2
  <2>5. ev_timeout[moving] <= ev_timeout[p'[i]]
    BY <1>3, <2>1, <2>4
  <2>6. c > 0 => ev_timeout[p'[Parent(c)]] <= ev_timeout[p'[i]]
    <3> HAVE c > 0
    <3>1. ev_timeout[p[Parent(c)]] \in Int
      BY <1>4, <2>3
    <3>2. /\ p'[Parent(c)] = p[Parent(c)]
          /\ ev_timeout[p[Parent(c)]] <= ev_timeout[p[c]]
      BY <2>3
    <3>3. ev_timeout[p[Parent(c)]] <= ev_timeout[p'[i]]
      <4> HIDE DEF IInv, TypeOK, min_heap_shift_up_, UpContinues,
                   min_heap_elem_greater, c
      <4> QED  BY ONLY <2>1, <2>4, <3>1, <3>2
    <3> QED  BY ONLY <3>2, <3>3
  <2> QED  BY <2>5, <2>6
<1> QED  BY <1>2, <1>6, <1>7

\* The child that the sift down compares with is due first among the children.
LEMMA MinChildFacts ==
  ASSUME IInv, pc = "down", 2 * (hole_index + 1) <= n
  PROVE  /\ hole_index < n
         /\ MinChild \in Slots
         /\ MinChild > 0 /\ Parent(MinChild) = hole_index
         /\ \A i \in Slots : i > 0 /\ Parent(i) = hole_index =>
              ev_timeout[p[MinChild]] <= ev_timeout[p[i]]
<1> DEFINE r == 2 * (hole_index + 1)
<1> USE HeapAssumption DEF IInv, TypeOK
<1>1. Slots = {i \in 0 .. n - 1 : i # hole_index}
  BY DEF Slots
<1>2. /\ Parent(r) = hole_index /\ Parent(r - 1) = hole_index
      /\ r \in Nat /\ r > 1
      /\ r - 1 \in Slots
      /\ r # n => r \in Slots
      /\ hole_index < n
  BY <1>1 DEF Parent
<1>3. \A i \in Slots : i > 0 /\ Parent(i) = hole_index => i = r \/ i = r - 1
  <2> TAKE i \in Slots
  <2> HAVE i > 0 /\ Parent(i) = hole_index
  <2>1. i \in Nat
    BY <1>1
  <2>2. i = 2 * hole_index + 1 \/ i = 2 * hole_index + 2
    BY <2>1, ParentFacts
  <2> QED  BY <2>1, <2>2
<1>4. \A i \in Slots : p[i] \in Event /\ ev_timeout[p[i]] \in Int
  BY DEF SlotsOK
<1>5. MinChild = IF r = n \/ ev_timeout[p[r]] > ev_timeout[p[r - 1]]
                   THEN r - 1 ELSE r
  BY DEF MinChild, min_heap_elem_greater
<1>6. r = n => r \notin Slots
  BY <1>1
<1> HIDE DEF r
<1>7. /\ MinChild \in Slots
      /\ MinChild > 0 /\ Parent(MinChild) = hole_index
  BY <1>2, <1>5
<1>8. ASSUME NEW i \in Slots, i = r \/ i = r - 1
      PROVE  ev_timeout[p[MinChild]] <= ev_timeout[p[i]]
  <2>1. CASE r = n
    BY <1>2, <1>4, <1>5, <1>6, <1>8, <2>1
  <2>2. CASE r # n
    BY <1>2, <1>4, <1>5, <1>8, <2>2, SMTT(30)
  <2> QED  BY <2>1, <2>2
<1> QED  BY <1>2, <1>3, <1>7, <1>8

\* An iteration of min_heap_shift_down_.
LEMMA DownKeepsInv ==
  ASSUME IInv, min_heap_shift_down_
  PROVE  IInv'
<1> DEFINE c == MinChild
<1> USE HeapAssumption DEF IInv, TypeOK
<1>1. /\ pc = "down"
      /\ 2 * (hole_index + 1) <= n
      /\ ev_timeout[moving] > ev_timeout[p[c]]
      /\ MoveIntoHole(c)
  BY DEF min_heap_shift_down_, DownContinues, min_heap_elem_greater
<1> HIDE DEF c
<1>2. /\ hole_index < n
      /\ c \in Slots /\ c > 0 /\ Parent(c) = hole_index
      /\ \A i \in Slots : i > 0 /\ Parent(i) = hole_index =>
           ev_timeout[p[c]] <= ev_timeout[p[i]]
  BY <1>1, MinChildFacts DEF c
<1>3. /\ TypeOK' /\ SlotsOK' /\ MembersOK' /\ CallOK'
      /\ Slots' = {i \in 0 .. n - 1 : i # c}
      /\ \A i \in Slots' : /\ i # hole_index => i \in Slots /\ p'[i] = p[i]
                           /\ i = hole_index => p'[i] = p[c]
  BY <1>1, <1>2, MoveKeepsPlaces
<1>4. /\ UNCHANGED <<n, ev_timeout, pc, moving, leaving>>
      /\ hole_index' = c
  BY <1>1 DEF MoveIntoHole
<1>5. /\ Slots = {i \in 0 .. n - 1 : i # hole_index}
      /\ hole_index \in Slots'
  <2>1. Slots = {i \in 0 .. n - 1 : i # hole_index}
    BY <1>1 DEF Slots
  <2>2. hole_index \in 0 .. n - 1 /\ hole_index # c
    BY <1>2, <2>1
  <2> QED  BY <1>3, <2>1, <2>2
<1>6. \A i \in Slots : p[i] \in Event /\ ev_timeout[p[i]] \in Int
  BY DEF SlotsOK
<1>7. HeapOrder'
  <2> SUFFICES ASSUME NEW i \in Slots', i > 0, Parent(i) \in Slots'
               PROVE  ev_timeout[p'[Parent(i)]] <= ev_timeout[p'[i]]
    BY <1>4 DEF HeapOrder
  <2>1. CASE i = hole_index
    <3>1. Parent(i) # hole_index
      BY <1>3, ParentFacts, <2>1
    <3>2. p'[i] = p[c] /\ p'[Parent(i)] = p[Parent(hole_index)]
      BY <1>3, <2>1, <3>1
    <3> QED  BY <1>1, <1>2, <2>1, <3>2 DEF HoleOrder
  <2>2. CASE i # hole_index /\ Parent(i) = hole_index
    <3>1. p'[i] = p[i] /\ p'[Parent(i)] = p[c] /\ i \in Slots
      BY <1>3, <2>2
    <3> QED  BY <1>2, <2>2, <3>1
  <2>3. CASE i # hole_index /\ Parent(i) # hole_index
    BY <1>3, <2>3 DEF HeapOrder
  <2> QED  BY <2>1, <2>2, <2>3
<1>8. HoleOrder'
  <2>1. p'[Parent(c)] = p[c]
    BY <1>2, <1>3, <1>5
  <2>2. ASSUME NEW i \in Slots', i > 0, Parent(i) = c
        PROVE  ev_timeout[p[c]] <= ev_timeout[p'[i]]
    <3>1. i # hole_index
      BY <2>2, <1>2, <1>5, ParentFacts
    <3>2. i \in Slots /\ p'[i] = p[i]
      BY <1>3, <3>1
    <3> QED  BY <1>2, <2>2, <3>2 DEF HeapOrder
  <2>3. ev_timeout[p[c]] <= ev_timeout[moving]
    BY <1>1, <1>2, <1>6
  <2> QED  BY <1>1, <1>4, <2>1, <2>2, <2>3 DEF HoleOrder
<1> QED  BY <1>3, <1>7, <1>8

\* The end of a sift closes the hole.
LEMMA PlaceKeepsInv ==
  ASSUME IInv, Place
  PROVE  IInv'
<1> USE HeapAssumption DEF IInv, TypeOK, Place
<1>1. /\ Slots = {i \in 0 .. n - 1 : i # hole_index}
      /\ Slots' = 0 .. n - 1
      /\ moving \in Event
  BY DEF Slots
<1>2. \A i \in Slots : /\ p[i] \in Event
                       /\ ev_timeout[p[i]] \in Int
                       /\ min_heap_idx[p[i]] = i
                       /\ p[i] # moving /\ p[i] # leaving
  BY DEF SlotsOK
<1>3. \A i \in 0 .. n - 1 : /\ i # hole_index => i \in Slots /\ p'[i] = p[i]
                            /\ i = hole_index => p'[i] = moving
  BY <1>1
<1>4. hole_index < n => moving # leaving
  BY DEF CallOK
<1>5. TypeOK'
  BY <1>1
<1>6. SlotsOK'
  <2> SUFFICES ASSUME NEW i \in 0 .. n - 1
               PROVE  p'[i] \in Event /\ min_heap_idx'[p'[i]] = i
    BY <1>1 DEF SlotsOK
  <2>1. CASE i = hole_index
    BY <1>1, <1>3, <1>4, <2>1
  <2>2. CASE i # hole_index
    BY <1>2, <1>3, <2>2
  <2> QED  BY <2>1, <2>2
<1>7. MembersOK'
  <2> SUFFICES ASSUME NEW f \in Event, min_heap_idx'[f] # -1
               PROVE  min_heap_idx'[f] \in 0 .. n - 1 /\ p'[min_heap_idx'[f]] = f
    BY <1>1 DEF MembersOK
  <2>1. f # leaving
    OBVIOUS
  <2>2. CASE f = moving
    <3>1. hole_index < n
      BY <2>1, <2>2 DEF CallOK
    <3> QED  BY <1>1, <1>3, <2>1, <2>2, <3>1
  <2>3. CASE f # moving
    <3>1. min_heap_idx'[f] = min_heap_idx[f]
      BY <2>1, <2>3
    <3>2. min_heap_idx[f] \in Slots /\ p[min_heap_idx[f]] = f
      BY <2>1, <2>3, <3>1 DEF MembersOK
    <3> QED  BY <1>1, <1>3, <3>1, <3>2
  <2> QED  BY <2>2, <2>3
<1>8. CallOK'
  BY DEF CallOK
<1>9. HeapOrder'
  <2> SUFFICES ASSUME NEW i \in 0 .. n - 1, i > 0, Parent(i) \in 0 .. n - 1
               PROVE  ev_timeout[p'[Parent(i)]] <= ev_timeout[p'[i]]
    BY <1>1 DEF HeapOrder
  <2>1. Parent(i) # i
    BY ParentFacts
  <2>2. CASE i = hole_index
    <3>1. p'[i] = moving /\ p'[Parent(i)] = p[Parent(i)] /\ Parent(i) \in Slots
      BY <1>3, <2>1, <2>2
    <3>2. CASE pc = "up"
      BY <1>1, <1>2, <2>2, <3>1, <3>2 DEF UpContinues, min_heap_elem_greater
    <3>3. CASE pc = "down"
      BY <2>2, <3>1, <3>3 DEF HoleOrder
    <3> QED  BY <3>2, <3>3
  <2>3. CASE i # hole_index /\ Parent(i) = hole_index
    <3>1. p'[i] = p[i] /\ p'[Parent(i)] = moving /\ i \in Slots
      BY <1>3, <2>3
    <3>2. CASE pc = "up"
      BY <2>3, <3>1, <3>2 DEF HoleOrder
    <3>3. CASE pc = "down"
      <4>1. 2 * (hole_index + 1) <= n
        <5>1. i = 2 * hole_index + 1 \/ i = 2 * hole_index + 2
          <6>1. i \in Nat
            OBVIOUS
          <6> QED  BY <2>3, <6>1, ParentFacts
        <5> QED  BY <5>1
      <4>2. ~(ev_timeout[moving] > ev_timeout[p[MinChild]])
        BY <3>3, <4>1 DEF DownContinues, min_heap_elem_greater
      <4>3. MinChild \in Slots /\ ev_timeout[p[MinChild]] <= ev_timeout[p[i]]
        BY <2>3, <3>1, <3>3, <4>1, MinChildFacts
      <4> QED  BY <1>1, <1>2, <3>1, <4>2, <4>3
    <3> QED  BY <3>2, <3>3
  <2>4. CASE i # hole_index /\ Parent(i) # hole_index
    <3>1. /\ p'[i] = p[i] /\ p'[Parent(i)] = p[Parent(i)]
          /\ i \in Slots /\ Parent(i) \in Slots
      BY <1>3, <2>4
    <3> QED  BY <3>1 DEF HeapOrder
  <2> QED  BY <2>2, <2>3, <2>4
<1>10. HoleOrder'
  BY DEF HoleOrder
<1> QED  BY <1>5, <1>6, <1>7, <1>8, <1>9, <1>10

\* timeout_correct changes every key by the same amount.
LEMMA CorrectKeepsInv ==
  ASSUME IInv, NEW off \in Time, timeout_correct(off)
  PROVE  IInv'
<1> USE HeapAssumption DEF IInv, TypeOK, timeout_correct
<1>1. TypeOK'
  OBVIOUS
<1>2. Slots' = Slots /\ Slots = 0 .. n - 1
  BY DEF Slots
<1>3. SlotsOK' /\ MembersOK' /\ CallOK'
  BY <1>2 DEF SlotsOK, MembersOK, CallOK
<1>4. \A i \in Slots : /\ ev_timeout[p[i]] \in Int
                       /\ ev_timeout'[p[i]] = ev_timeout[p[i]] - off
  BY <1>2 DEF SlotsOK
<1>5. HeapOrder'
  <2> SUFFICES ASSUME NEW i \in Slots, i > 0, Parent(i) \in Slots
               PROVE  ev_timeout'[p[Parent(i)]] <= ev_timeout'[p[i]]
    BY <1>2 DEF HeapOrder
  <2>1. ev_timeout[p[Parent(i)]] <= ev_timeout[p[i]]
    BY DEF HeapOrder
  <2>2. \A x, y \in Int : x <= y => x - off <= y - off
    OBVIOUS
  <2>3. /\ ev_timeout[p[Parent(i)]] - off <= ev_timeout[p[i]] - off
    BY <1>4, <2>1, <2>2
  <2> QED  BY <1>4, <2>3
<1>6. HoleOrder'
  BY DEF HoleOrder
<1> QED  BY <1>1, <1>3, <1>5, <1>6

\* Every step keeps the inductive invariant.
LEMMA InvNext == IInv /\ [Next]_vars => IInv'
<1> SUFFICES ASSUME IInv, [Next]_vars PROVE IInv'
  OBVIOUS
<1>1. CASE UNCHANGED vars
  BY <1>1 DEF vars, IInv, TypeOK, SlotsOK, MembersOK, CallOK, HeapOrder,
              HoleOrder, Slots, InHeap
<1>2. CASE Next
  BY <1>2, PushKeepsInv, PopKeepsInv, EraseKeepsInv, UpKeepsInv, DownKeepsInv,
     PlaceKeepsInv, CorrectKeepsInv DEF Next
<1> QED  BY <1>1, <1>2

\* The heap never leaves its inductive invariant.
LEMMA InvHolds == Spec => []IInv
  BY InvInit, InvNext, PTL DEF Spec

\* The slots a sift reads and writes are allocated slots, whatever calls are
\* made (minheap-internal.h, all of it).
THEOREM HeapTypeCorrect == Spec => []TypeOK
<1>1. IInv => TypeOK
  BY DEF IInv
<1> QED  BY <1>1, InvHolds, PTL

\* Between calls min_heap_top is an event that is due first.
THEOREM HeapTopCorrect == Spec => []TopIsEarliest
<1>1. IInv => TopIsEarliest
  <2> SUFFICES ASSUME IInv, pc = "idle", NEW e \in InHeap
               PROVE  n > 0 /\ ev_timeout[p[0]] <= ev_timeout[e]
    BY DEF TopIsEarliest
  <2>1. min_heap_idx[e] \in 0 .. n - 1 /\ p[min_heap_idx[e]] = e
    BY DEF IInv, MembersOK, Slots, InHeap
  <2> QED  BY <2>1, TopLemma DEF IInv, TypeOK
<1> QED  BY <1>1, InvHolds, PTL

\* Between calls every event in the heap knows its slot, and no other does.
THEOREM HeapBackPointers == Spec => []BackPointersExact
<1>1. IInv => BackPointersExact
  BY DEF IInv, TypeOK, BackPointersExact, SlotsOK, MembersOK, Slots, InHeap
<1> QED  BY <1>1, InvHolds, PTL

\* A step of the heap is a step of TimerQueue or leaves its state alone.
LEMMA StepRefines ==
  ASSUME IInv, IInv', [Next]_vars
  PROVE  [Abstract!Next]_(Abstract!vars)
<1> DEFINE q == [e \in InHeap |-> ev_timeout[e]]
<1> USE HeapAssumption
<1>1. CASE UNCHANGED vars
  BY <1>1 DEF vars, Abstract!vars, InHeap
<1>2. ASSUME NEW e \in Event, NEW t \in Time, min_heap_push(e, t)
      PROVE  UNCHANGED <<q, popped>>
  <2>1. InHeap' = InHeap /\ e \notin InHeap
    BY <1>2 DEF min_heap_push, InHeap
  <2>2. \A f \in InHeap : ev_timeout'[f] = ev_timeout[f]
    BY <1>2, <2>1 DEF min_heap_push, IInv, TypeOK, InHeap
  <2> QED  BY <1>2, <2>1, <2>2 DEF min_heap_push
<1>3. ASSUME min_heap_pop \/ (\E e \in Event : min_heap_erase(e))
      PROVE  UNCHANGED <<q, popped>>
  BY <1>3 DEF min_heap_pop, min_heap_erase, InHeap
<1>4. ASSUME NEW c \in Slots, pc # "idle", MoveIntoHole(c), hole_index < n
      PROVE  UNCHANGED <<q, popped>>
  <2>1. InHeap' = InHeap
    BY <1>4 DEF MoveIntoHole, InHeap, IInv, TypeOK, SlotsOK, Slots
  <2> QED  BY <1>4, <2>1 DEF MoveIntoHole
<1>5. ASSUME Place
      PROVE  Abstract!Next
  <2>1. /\ pc # "idle" /\ moving \in Event
        /\ call \in {"push", "pop", "erase"}
        /\ ev_timeout' = ev_timeout
    BY <1>5 DEF Place, IInv, TypeOK, CallOK
  <2>2. CASE call = "push"
    <3>1. /\ leaving = NoEvent /\ moving \notin InHeap /\ ev_timeout[moving] \in Time
          /\ hole_index \in Nat
      BY <1>5, <2>1, <2>2 DEF IInv, TypeOK, CallOK, InHeap
    <3>2. InHeap' = InHeap \cup {moving}
      BY <1>5, <2>1, <3>1 DEF Place, InHeap
    <3>3. popped' = NoEvent
      BY <1>5, <2>2 DEF Place
    <3>4. Abstract!Insert(moving, ev_timeout[moving])
      BY <2>1, <3>1, <3>2, <3>3 DEF Abstract!Insert
    <3>5. \E e \in Event, t \in Time : Abstract!Insert(e, t)
      BY <2>1, <3>1, <3>4 DEF Abstract!Insert
    <3> QED  BY <3>5, Zenon DEF Abstract!Next
  <2>3. CASE call \in {"pop", "erase"}
    <3>1. leaving \in InHeap /\ moving \in InHeap /\ hole_index \in Nat
      BY <1>5, <2>3 DEF IInv, TypeOK, CallOK
    <3>2. InHeap' = InHeap \ {leaving}
      BY <1>5, <2>1, <3>1 DEF Place, InHeap
    <3>3. q' = [f \in DOMAIN q \ {leaving} |-> q[f]]
      BY <2>1, <3>2
    <3>4. CASE call = "pop"
      <4>1. \A f \in InHeap : ev_timeout[leaving] <= ev_timeout[f]
        BY <3>4 DEF IInv, CallOK
      <4>2. popped' = leaving
        BY <1>5, <3>4 DEF Place
      <4>3. Abstract!RemoveEarliest(leaving)
        BY <3>1, <3>3, <4>1, <4>2
           DEF Abstract!RemoveEarliest, Abstract!Earliest, Abstract!Without
      <4>4. \E e \in Event : Abstract!RemoveEarliest(e)
        BY <3>1, <4>3
           DEF InHeap, Abstract!RemoveEarliest, Abstract!Earliest, Abstract!Without
      <4> QED  BY <4>4, Zenon DEF Abstract!Next
    <3>5. CASE call = "erase"
      <4>1. popped' = NoEvent
        BY <1>5, <3>5 DEF Place
      <4>2. Abstract!Remove(leaving)
        BY <3>1, <3>3, <4>1 DEF Abstract!Remove, Abstract!Without
      <4>3. \E e \in Event : Abstract!Remove(e)
        BY <3>1, <4>2 DEF InHeap, Abstract!Remove, Abstract!Without
      <4> QED  BY <4>3, Zenon DEF Abstract!Next
    <3> QED  BY <2>3, <3>4, <3>5
  <2> QED  BY <2>1, <2>2, <2>3
<1>6. ASSUME NEW off \in Time, timeout_correct(off)
      PROVE  Abstract!Next
  <2>1. InHeap' = InHeap /\ popped' = popped
    BY <1>6 DEF timeout_correct, InHeap
  <2>2. \A e \in InHeap : ev_timeout'[e] = ev_timeout[e] - off
    BY <1>6 DEF timeout_correct, InHeap, IInv, MembersOK, Slots
  <2>3. Abstract!Shift(off)
    BY <2>1, <2>2 DEF Abstract!Shift
  <2> QED  BY <2>3 DEF Abstract!Next
<1>7. min_heap_shift_up_ => UNCHANGED <<q, popped>>
  <2> HAVE min_heap_shift_up_
  <2>1. /\ pc # "idle" /\ hole_index < n
        /\ hole_index \in Nat /\ hole_index > 0 /\ n \in Nat
        /\ MoveIntoHole(Parent(hole_index))
    BY DEF min_heap_shift_up_, UpContinues, IInv, TypeOK
  <2>2. Parent(hole_index) \in Slots
    BY <2>1, ParentFacts DEF Slots
  <2> QED  BY <1>4, <2>1, <2>2
<1>8. min_heap_shift_down_ => UNCHANGED <<q, popped>>
  <2> HAVE min_heap_shift_down_
  <2>1. /\ pc = "down" /\ 2 * (hole_index + 1) <= n
        /\ MoveIntoHole(MinChild)
    BY DEF min_heap_shift_down_, DownContinues
  <2>2. MinChild \in Slots /\ hole_index < n
    BY <2>1, MinChildFacts
  <2> QED  BY <1>4, <2>1, <2>2
<1> HIDE DEF q
<1>9. CASE Next
  <2>1. UNCHANGED <<q, popped>> \/ Abstract!Next
    BY <1>2, <1>3, <1>5, <1>6, <1>7, <1>8, <1>9 DEF Next
  <2> QED  BY <2>1 DEF q, Abstract!vars
<1> QED  BY <1>1, <1>9

\* min_heap_push, _pop, _erase and _top together implement TimerQueue.
THEOREM HeapRefinesTimerQueue == Spec => ImplementsTimerQueue
<1>1. Init => Abstract!Init
  BY DEF Init, Abstract!Init, InHeap
<1>2. IInv /\ IInv' /\ [Next]_vars => [Abstract!Next]_(Abstract!vars)
  BY StepRefines
<1> QED  BY <1>1, <1>2, InvHolds, PTL DEF Spec, Abstract!Spec, ImplementsTimerQueue
===============================================================================
