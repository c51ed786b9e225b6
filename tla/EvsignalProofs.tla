----------------------------- MODULE EvsignalProofs -----------------------------
(***************************************************************************)
(* Proofs about Evsignal: for any bases, events and signals, no signal is  *)
(* lost between the handler and the callbacks, the signals with events are *)
(* counted, and the handlers of the process are set and restored.          *)
(***************************************************************************)
EXTENDS Evsignal, ProofFacts

\* The value of UnderWay.
LEMMA UnderWayIs ==
  ASSUME NEW b \in Base, TypeOK
  PROVE  /\ op[b].pc = "none" => UnderWay(b) = 0 /\ ~Locked(b)
         /\ op[b].pc \in {"set_handler", "insert"} => UnderWay(b) = 1 /\ Locked(b)
         /\ op[b].pc = "restore" => UnderWay(b) = -1 /\ Locked(b)
         /\ op[b].pc \in {"none", "set_handler", "insert", "restore"}
BY DEF TypeOK, UnderWay, At, Locked


\* The calls that can hold a lock.
Ops == [pc : {"none", "set_handler", "insert", "restore"}, e : Event \cup {NoEvent}]

LEMMA OpsFacts ==
  /\ NoOp \in Ops /\ NoOp.pc = "none"
  /\ \A e \in Event : /\ [pc |-> "set_handler", e |-> e] \in Ops
                      /\ [pc |-> "restore", e |-> e] \in Ops
  /\ \A o \in Ops : /\ o.pc \in {"none", "set_handler", "insert", "restore"}
                    /\ [o EXCEPT !.pc = "insert"] \in Ops
                    /\ [o EXCEPT !.pc = "insert"].pc = "insert"
                    /\ [o EXCEPT !.pc = "insert"].e = o.e
BY DEF Ops, NoOp

\* One entry of a table of tables changes.
LEMMA EntryChanged ==
  ASSUME NEW S, NEW T, NEW V, NEW f \in [S -> [T -> V]], NEW a \in S, NEW c \in T, NEW v \in V,
         NEW g, g = [f EXCEPT ![a] = [f[a] EXCEPT ![c] = v]]
  PROVE  /\ g \in [S -> [T -> V]]
         /\ \A x \in S : \A y \in T : g[x][y] = IF x = a /\ y = c THEN v ELSE f[x][y]
         /\ \A x \in S : x # a => g[x] = f[x]
<1>1. f[a] \in [T -> V]
  OBVIOUS
<1> DEFINE h == [f[a] EXCEPT ![c] = v]
<1>2. h \in [T -> V] /\ \A y \in T : h[y] = IF y = c THEN v ELSE f[a][y]
  BY <1>1
<1>3. g = [f EXCEPT ![a] = h]
  OBVIOUS
<1> HIDE DEF h
<1>4. g \in [S -> [T -> V]] /\ \A x \in S : g[x] = IF x = a THEN h ELSE f[x]
  BY <1>2, <1>3
<1> QED  BY <1>2, <1>4

\* The parts of the type that the steps change.
LEMMA TypeParts ==
  ASSUME TypeOK
  PROVE  /\ list \in [Base -> [Sig -> SUBSET Event]] /\ op \in [Base -> Ops]
         /\ n_signals_added \in [Base -> Nat]
         /\ sh_old \in [Base -> [Sig -> {"none", "orig", "evsig"}]]
         /\ handler \in [Sig -> {"orig", "evsig"}] /\ evsig_base_n_signals_added \in Int
BY DEF TypeOK, Ops

LEMMA SigInit == Init => SigInv
<1> SUFFICES ASSUME Init
             PROVE  SigInv
  OBVIOUS
<1> USE EvsignalAssumption DEF Init
<1>1. TypeOK
  <2>1. MapTypes
    BY DEF MapTypes
  <2> QED  BY <2>1 DEF TypeOK, NoOp
<1>2. ASSUME NEW b \in Base
      PROVE  ~Locked(b) /\ UnderWay(b) = 0 /\ {s \in Sig : list[b][s] # {}} = {}
  <2>1. op[b].pc = "none" /\ {s \in Sig : list[b][s] # {}} = {}
    BY DEF NoOp
  <2> QED  BY <1>1, <2>1, UnderWayIs
<1>3. LockInv /\ ListInv /\ SignalNotLost
  BY <1>2 DEF LockInv, ListInv, SignalNotLost
<1>5. SavedInv
  <2> SUFFICES ASSUME NEW b \in Base, NEW s \in Sig
               PROVE  sh_old[b][s] = "none" /\ ~Saves(b, s)
    BY DEF SavedInv
  <2>1. sh_old[b][s] = "none" /\ list[b][s] = {} /\ ~At(b, "insert")
    BY DEF At, NoOp
  <2> QED  BY <2>1 DEF Saves
<1>4. CountInv
  <2> SUFFICES ASSUME NEW b \in Base
               PROVE  /\ IsFiniteSet({s \in Sig : list[b][s] # {}})
                      /\ n_signals_added[b] = Cardinality({s \in Sig : list[b][s] # {}})
                                                + UnderWay(b)
    BY DEF CountInv
  <2>1. n_signals_added[b] = 0
    OBVIOUS
  <2> DEFINE W == {s \in Sig : list[b][s] # {}}
  <2>2. W = {} /\ UnderWay(b) = 0
    BY <1>2
  <2> HIDE DEF W
  <2>3. IsFiniteSet(W) /\ n_signals_added[b] = Cardinality(W) + UnderWay(b)
    BY <2>1, <2>2, FS_EmptySet
  <2> QED  BY <2>3 DEF W
<1> QED  BY <1>1, <1>3, <1>4, <1>5 DEF SigInv

\* What the steps do to the entries of the signal maps.
LEMMA MapsStep ==
  ASSUME SigInv, [Next]_vars
  PROVE  MapTypes'
<1>1. MapTypes /\ LockInv
  BY DEF SigInv, TypeOK
<1>2. ASSUME NEW e \in Event, evmap_signal_add(e)  PROVE MapTypes'
  BY <1>1, <1>2, EvsignalAssumption DEF evmap_signal_add, MapTypes
<1>3. ASSUME NEW b \in Base, evsig_add_fails(b)  PROVE MapTypes'
  <2>1. EvSig[op[b].e] \in Sig
    BY <1>1, <1>3, EvsignalAssumption DEF evsig_add_fails, At, LockInv, Locked
  <2> QED  BY <1>1, <1>3, <2>1 DEF evsig_add_fails, MapTypes
<1>4. ASSUME NEW b \in Base, evmap_signal_active(b) \/ evsig_dealloc(b)  PROVE MapTypes'
  BY <1>1, <1>4 DEF evmap_signal_active, evsig_dealloc, MapTypes
<1>5. CASE UNCHANGED <<slots, left, crashed>>
  BY <1>1, <1>5 DEF MapTypes
<1>6. ASSUME NEW b \in Base,
             \/ _evsig_set_handler(b) \/ InsertSignal(b) \/ _evsig_restore_handler(b)
             \/ evsig_cb(b) \/ evsig_set_base(b)
             \/ \E e \in Event : evmap_signal_del(e) \/ RunCallback(e)
             \/ \E s \in Sig : evsig_handler(s)
      PROVE  MapTypes'
  BY <1>5, <1>6 DEF _evsig_set_handler, InsertSignal, _evsig_restore_handler, evsig_cb,
                    evsig_set_base, evmap_signal_del, RunCallback, evsig_handler
<1>7. CASE UNCHANGED vars
  BY <1>5, <1>7 DEF vars
<1>8. ASSUME NEW e \in Event, evmap_signal_del(e)  PROVE MapTypes'
  BY <1>5, <1>8 DEF evmap_signal_del
<1>9. ASSUME NEW s \in Sig, evsig_handler(s)  PROVE MapTypes'
  BY <1>5, <1>9 DEF evsig_handler
<1> QED  BY <1>2, <1>3, <1>4, <1>6, <1>7, <1>8, <1>9 DEF Next, LockedStep, LoopStep

LEMMA TypeStep == SigInv /\ [Next]_vars => TypeOK'
<1> SUFFICES ASSUME SigInv, [Next]_vars
             PROVE  TypeOK'
  OBVIOUS
<1>s. MapTypes'
  BY MapsStep
<1> USE EvsignalAssumption DEF TypeOK
<1>0. TypeOK /\ LockInv /\ CountInv /\ SavedInv
  BY DEF SigInv
<1>t. /\ op \in [Base -> Ops] /\ list \in [Base -> [Sig -> SUBSET Event]]
      /\ sh_old \in [Base -> [Sig -> {"none", "orig", "evsig"}]]
      /\ n_signals_added \in [Base -> Nat]
  BY <1>0, TypeParts
<1>c. ASSUME NEW b \in Base
      PROVE  /\ n_signals_added[b] \in Nat /\ n_signals_added[b] + 1 \in Nat
             /\ op[b].pc \in {"set_handler", "insert"} => n_signals_added[b] - 1 \in Nat
             /\ list[b] \in [Sig -> SUBSET Event]
             /\ (\E s \in Sig : list[b][s] # {}) /\ ~Locked(b) => n_signals_added[b] - 1 \in Nat
  <2> DEFINE W == {s \in Sig : list[b][s] # {}}
  <2>1. /\ IsFiniteSet(W) /\ n_signals_added[b] = Cardinality(W) + UnderWay(b)
    BY <1>0 DEF CountInv
  <2>2. Cardinality(W) \in Nat /\ (Cardinality(W) = 0 <=> W = {})
    BY <2>1, FS_CardinalityType, FS_EmptySet
  <2>3. (\E s \in Sig : list[b][s] # {}) => W # {}
    OBVIOUS
  <2>4. n_signals_added[b] \in Nat /\ list[b] \in [Sig -> SUBSET Event]
    BY <1>0
  <2>5. /\ op[b].pc \in {"set_handler", "insert"} => UnderWay(b) = 1
        /\ ~Locked(b) => UnderWay(b) = 0
    BY <1>0, UnderWayIs DEF Locked
  <2> HIDE DEF W
  <2>6. op[b].pc \in {"set_handler", "insert"} => n_signals_added[b] - 1 \in Nat
    BY <2>1, <2>2, <2>5
  <2>7. W # {} /\ ~Locked(b) => n_signals_added[b] - 1 \in Nat
    BY <2>1, <2>2, <2>5
  <2> QED  BY <2>3, <2>4, <2>6, <2>7
<1>1. ASSUME NEW e \in Event, evmap_signal_add(e)  PROVE TypeOK'
  <2> DEFINE b == EvBase[e]
             s == EvSig[e]
  <2>1. b \in Base /\ s \in Sig /\ b \in alive
    BY <1>1 DEF evmap_signal_add, May
  <2>2. list' \in [Base -> [Sig -> SUBSET Event]]
    <3>1. list' = list \/ list' = [list EXCEPT ![b] = [list[b] EXCEPT ![s] = list[b][s] \cup {e}]]
      BY <1>1 DEF evmap_signal_add
    <3> HIDE DEF b, s, TypeOK
    <3>2. [list[b] EXCEPT ![s] = list[b][s] \cup {e}] \in [Sig -> SUBSET Event]
      BY <1>c, <2>1
    <3> QED  BY <1>t, <2>1, <3>1, <3>2, ZenonT(60)
  <2>3. op' \in [Base -> Ops]
    <3> DEFINE o == [pc |-> "set_handler", e |-> e]
    <3>1. op' = op \/ op' = [op EXCEPT ![b] = o]
      BY <1>1 DEF evmap_signal_add
    <3>2. o \in Ops
      BY OpsFacts
    <3> HIDE DEF b, s, o
    <3> QED  BY <2>1, <1>t, <3>1, <3>2
  <2>4. /\ evsig_base' \in alive \cup {NoBase} /\ evsig_base_n_signals_added' \in Int
        /\ n_signals_added' \in [Base -> Nat]
    <3>1. n_signals_added[b] + 1 \in Nat /\ n_signals_added[b] + 1 \in Int
      BY <1>c, <2>1
    <3>2. \/ UNCHANGED evsigVars
          \/ /\ evsig_base' = b /\ evsig_base_n_signals_added' = n_signals_added[b] + 1
             /\ n_signals_added' = [n_signals_added EXCEPT ![b] = n_signals_added[b] + 1]
      BY <1>1 DEF evmap_signal_add
    <3>3. /\ evsig_base \in alive \cup {NoBase} /\ evsig_base_n_signals_added \in Int
          /\ n_signals_added \in [Base -> Nat]
      BY <1>0
    <3> HIDE DEF b, s, TypeOK
    <3>4. CASE UNCHANGED evsigVars
      BY <3>3, <3>4 DEF evsigVars
    <3> QED  BY <2>1, <3>1, <3>2, <3>3, <3>4
  <2> QED  BY <1>0, <1>1, <1>s, <2>2, <2>3, <2>4 DEF evmap_signal_add, Ops
<1>2. ASSUME NEW e \in Event, evmap_signal_del(e)  PROVE TypeOK'
  <2> DEFINE b == EvBase[e]
             s == EvSig[e]
  <2>1. b \in Base /\ s \in Sig /\ b \in alive /\ ~Locked(b) /\ list[b][s] # {}
    BY <1>2 DEF evmap_signal_del, May
  <2>2. list' \in [Base -> [Sig -> SUBSET Event]]
    <3>1. list' = list \/ list' = [list EXCEPT ![b] = [list[b] EXCEPT ![s] = list[b][s] \ {e}]]
      BY <1>2 DEF evmap_signal_del
    <3> HIDE DEF b, s, TypeOK
    <3>2. [list[b] EXCEPT ![s] = list[b][s] \ {e}] \in [Sig -> SUBSET Event]
      BY <1>c, <2>1
    <3> QED  BY <1>t, <2>1, <3>1, <3>2, ZenonT(60)
  <2>3. op' \in [Base -> Ops]
    <3> DEFINE o == [pc |-> "restore", e |-> e]
    <3>1. op' = op \/ op' = [op EXCEPT ![b] = o]
      BY <1>2 DEF evmap_signal_del
    <3>2. o \in Ops
      BY OpsFacts
    <3> HIDE DEF b, s, o
    <3> QED  BY <2>1, <1>t, <3>1, <3>2
  <2>4. evsig_base_n_signals_added' \in Int /\ n_signals_added' \in [Base -> Nat]
    <3>1. n_signals_added[b] - 1 \in Nat /\ evsig_base_n_signals_added - 1 \in Int
      BY <1>0, <1>c, <2>1
    <3>2. \/ UNCHANGED <<evsig_base_n_signals_added, n_signals_added>>
          \/ /\ evsig_base_n_signals_added' = evsig_base_n_signals_added - 1
             /\ n_signals_added' = [n_signals_added EXCEPT ![b] = n_signals_added[b] - 1]
      BY <1>2 DEF evmap_signal_del
    <3>3. evsig_base_n_signals_added \in Int /\ n_signals_added \in [Base -> Nat]
      BY <1>0
    <3> HIDE DEF b, s, TypeOK
    <3> QED  BY <2>1, <3>1, <3>2, <3>3
  <2> QED  BY <1>0, <1>2, <1>s, <2>2, <2>3, <2>4 DEF evmap_signal_del, Ops
<1>3. ASSUME NEW s \in Sig, evsig_handler(s)  PROVE TypeOK'
  <2> DEFINE b == evsig_base
  <2>1. b \in Base
    BY <1>0, <1>3 DEF evsig_handler
  <2>2. pair' \in [Base -> Seq(Sig)]
    BY <1>0, <1>3, <2>1 DEF evsig_handler
  <2>3. owed' \subseteq Event
    BY <1>0, <1>3, <2>1 DEF evsig_handler, Reached
  <2> QED  BY <1>0, <1>3, <1>s, <2>2, <2>3 DEF evsig_handler, evsigVars
<1>4. ASSUME NEW b \in Base, evsig_add_fails(b)  PROVE TypeOK'
  <2> DEFINE s == EvSig[op[b].e]
  <2>1. /\ op[b].pc \in {"set_handler", "insert"} /\ s \in Sig
        /\ n_signals_added[b] - 1 \in Nat
    BY <1>0, <1>4, <1>c DEF evsig_add_fails, At, LockInv, Locked
  <2>2. sh_old' \in [Base -> [Sig -> {"none", "orig", "evsig"}]]
    <3>1. sh_old' = sh_old \/ sh_old' = [sh_old EXCEPT ![b] = [sh_old[b] EXCEPT ![s] = "none"]]
      BY <1>4 DEF evsig_add_fails
    <3> HIDE DEF s, TypeOK
    <3>2. CASE sh_old' = sh_old
      BY <1>t, <3>2
    <3>3. CASE sh_old' = [sh_old EXCEPT ![b] = [sh_old[b] EXCEPT ![s] = "none"]]
      BY <1>t, <2>1, <3>3, EntryChanged
    <3> QED  BY <3>1, <3>2, <3>3
  <2>3. op' \in [Base -> Ops]
    BY <1>t, <1>4, OpsFacts DEF evsig_add_fails
  <2>5. /\ n_signals_added' \in [Base -> Nat] /\ evsig_base_n_signals_added' \in Int
    BY <1>0, <1>4, <2>1 DEF evsig_add_fails
  <2> QED  BY <1>0, <1>4, <1>s, <2>2, <2>3, <2>5 DEF evsig_add_fails, Ops
<1>5. ASSUME NEW b \in Base, _evsig_set_handler(b)  PROVE TypeOK'
  <2> DEFINE s == EvSig[op[b].e]
  <2>1. s \in Sig /\ handler[s] \in {"orig", "evsig"}
    BY <1>0, <1>5 DEF _evsig_set_handler, At, LockInv, Locked
  <2>2. sh_old' \in [Base -> [Sig -> {"none", "orig", "evsig"}]]
    <3>1. sh_old' = [sh_old EXCEPT ![b] = [sh_old[b] EXCEPT ![s] = handler[s]]]
      BY <1>5 DEF _evsig_set_handler
    <3> HIDE DEF s
    <3> QED  BY <1>0, <2>1, <3>1
  <2>3. op' \in [Base -> Ops]
    <3>1. op' = [op EXCEPT ![b] = [op[b] EXCEPT !.pc = "insert"]]
      BY <1>5 DEF _evsig_set_handler
    <3> QED  BY <1>t, <3>1, OpsFacts
  <2>4. handler' \in [Sig -> {"orig", "evsig"}]
    BY <1>0, <1>5, <2>1 DEF _evsig_set_handler
  <2> QED  BY <1>0, <1>5, <1>s, <2>2, <2>3, <2>4 DEF _evsig_set_handler, evsigVars, Ops
<1>6. ASSUME NEW b \in Base, InsertSignal(b)  PROVE TypeOK'
  BY <1>0, <1>6, <1>s, <1>c DEF InsertSignal, evsigVars, At, LockInv, Locked, NoOp
<1>7. ASSUME NEW b \in Base, _evsig_restore_handler(b)  PROVE TypeOK'
  <2> DEFINE s == EvSig[op[b].e]
  <2>1. s \in Sig /\ list[b][s] # {}
    <3>1. op[b].e \in Event /\ list[b][s] = {op[b].e}
      BY <1>0, <1>7 DEF _evsig_restore_handler, At, LockInv, Locked
    <3> QED  BY <3>1
  <2>2. sh_old[b][s] \in {"orig", "evsig"}
    BY <1>0, <2>1 DEF SavedInv, Saves
  <2>3. sh_old' \in [Base -> [Sig -> {"none", "orig", "evsig"}]]
    <3>1. sh_old' = [sh_old EXCEPT ![b] = [sh_old[b] EXCEPT ![s] = "none"]]
      BY <1>7 DEF _evsig_restore_handler
    <3> HIDE DEF s
    <3> QED  BY <1>0, <2>1, <3>1
  <2>4. list' \in [Base -> [Sig -> SUBSET Event]]
    <3>1. list' = [list EXCEPT ![b] = [list[b] EXCEPT ![s] = {}]]
      BY <1>7 DEF _evsig_restore_handler
    <3> HIDE DEF s
    <3> QED  BY <1>0, <2>1, <3>1
  <2>5. op' \in [Base -> Ops]
    BY <1>t, <1>7, OpsFacts DEF _evsig_restore_handler
  <2>6. handler' \in [Sig -> {"orig", "evsig"}]
    BY <1>0, <1>7, <2>1, <2>2 DEF _evsig_restore_handler
  <2> QED  BY <1>0, <1>7, <1>s, <2>3, <2>4, <2>5, <2>6 DEF _evsig_restore_handler, evsigVars, Ops
<1>8. ASSUME NEW b \in Base, evsig_cb(b)  PROVE TypeOK'
  BY <1>0, <1>8, <1>s, ElementsInRange DEF evsig_cb, evsigVars
<1>9. ASSUME NEW b \in Base, evmap_signal_active(b)  PROVE TypeOK'
  <2>1. active' \subseteq Event
    BY <1>0, <1>9, <1>c DEF evmap_signal_active
  <2>2. caught' \in [Base -> SUBSET Sig]
    BY <1>0, <1>9 DEF evmap_signal_active
  <2> QED  BY <1>0, <1>9, <1>s, <2>1, <2>2 DEF evmap_signal_active, evsigVars
<1>10. ASSUME NEW e \in Event, RunCallback(e)  PROVE TypeOK'
  BY <1>0, <1>10, <1>s DEF RunCallback, evsigVars
<1>11. ASSUME NEW b \in Base, evsig_set_base(b)  PROVE TypeOK'
  BY <1>0, <1>11, <1>s, <1>c DEF evsig_set_base, May
<1>12. ASSUME NEW b \in Base, evsig_dealloc(b)  PROVE TypeOK'
  BY <1>0, <1>12, <1>s DEF evsig_dealloc
<1>13. CASE UNCHANGED vars
  BY <1>0, <1>13, <1>s DEF vars
<1> QED  BY <1>1, <1>2, <1>3, <1>4, <1>5, <1>6, <1>7, <1>8, <1>9, <1>10, <1>11, <1>12, <1>13
         DEF Next, LockedStep, LoopStep


\* The value of UnderWay, before and after a step.
LEMMA UnderWayValue ==
  /\ \A x : UnderWay(x) = IF op[x].pc \in {"set_handler", "insert"} THEN 1
                          ELSE IF op[x].pc = "restore" THEN -1 ELSE 0
  /\ \A x : UnderWay(x)' = IF op'[x].pc \in {"set_handler", "insert"} THEN 1
                           ELSE IF op'[x].pc = "restore" THEN -1 ELSE 0
BY DEF UnderWay, At

CountAt(b) ==
  /\ IsFiniteSet({s \in Sig : list[b][s] # {}})
  /\ n_signals_added[b] = Cardinality({s \in Sig : list[b][s] # {}}) + UnderWay(b)

LEMMA CountIs == (CountInv <=> \A b \in Base : CountAt(b)) /\ (CountInv' <=> \A b \in Base : CountAt(b)')
BY DEF CountInv, CountAt

\* The count after a step that leaves alone which signals of b have events, one
\* that adds the first event of a signal, and one that removes the last.
LEMMA CountKept ==
  ASSUME NEW b \in Base, CountAt(b), n_signals_added[b] \in Int, n_signals_added'[b] \in Int,
         \A t \in Sig : list'[b][t] = {} <=> list[b][t] = {},
         n_signals_added'[b] - UnderWay(b)' = n_signals_added[b] - UnderWay(b)
  PROVE  CountAt(b)'
<1> DEFINE W == {s \in Sig : list[b][s] # {}}
           V == {s \in Sig : list'[b][s] # {}}
<1>1. W = V
  OBVIOUS
<1>2. IsFiniteSet(W) /\ n_signals_added[b] = Cardinality(W) + UnderWay(b)
  BY DEF CountAt
<1>3. UnderWay(b) \in Int /\ UnderWay(b)' \in Int
  BY UnderWayValue
<1>4. Cardinality(W) \in Nat
  BY <1>2, FS_CardinalityType
<1> HIDE DEF W, V
<1>5. IsFiniteSet(V) /\ n_signals_added'[b] = Cardinality(V) + UnderWay(b)'
  BY <1>1, <1>2, <1>3, <1>4
<1> QED  BY <1>5 DEF CountAt, V

LEMMA CountMore ==
  ASSUME NEW b \in Base, CountAt(b), NEW s \in Sig, n_signals_added[b] \in Int,
         n_signals_added'[b] = n_signals_added[b],
         list[b][s] = {}, list'[b][s] # {},
         \A t \in Sig \ {s} : list'[b][t] = {} <=> list[b][t] = {},
         UnderWay(b)' = UnderWay(b) - 1
  PROVE  CountAt(b)'
<1> DEFINE W == {t \in Sig : list[b][t] # {}}
           V == {t \in Sig : list'[b][t] # {}}
<1>1. V = W \cup {s} /\ s \notin W
  OBVIOUS
<1>2. IsFiniteSet(W) /\ n_signals_added[b] = Cardinality(W) + UnderWay(b)
  BY DEF CountAt
<1>3. UnderWay(b) \in Int
  BY UnderWayValue
<1>4. Cardinality(W) \in Nat
  BY <1>2, FS_CardinalityType
<1> HIDE DEF W, V
<1>5. IsFiniteSet(V) /\ Cardinality(V) = Cardinality(W) + 1
  BY <1>1, <1>2, FS_AddElement
<1>6. IsFiniteSet(V) /\ n_signals_added'[b] = Cardinality(V) + UnderWay(b)'
  BY <1>2, <1>3, <1>4, <1>5
<1> QED  BY <1>6 DEF CountAt, V

LEMMA CountLess ==
  ASSUME NEW b \in Base, CountAt(b), NEW s \in Sig, n_signals_added[b] \in Int,
         n_signals_added'[b] = n_signals_added[b],
         list[b][s] # {}, list'[b][s] = {},
         \A t \in Sig \ {s} : list'[b][t] = {} <=> list[b][t] = {},
         UnderWay(b)' = UnderWay(b) + 1
  PROVE  CountAt(b)'
<1> DEFINE W == {t \in Sig : list[b][t] # {}}
           V == {t \in Sig : list'[b][t] # {}}
<1>1. V = W \ {s} /\ s \in W
  OBVIOUS
<1>2. IsFiniteSet(W) /\ n_signals_added[b] = Cardinality(W) + UnderWay(b)
  BY DEF CountAt
<1>3. UnderWay(b) \in Int
  BY UnderWayValue
<1>4. Cardinality(W) \in Nat
  BY <1>2, FS_CardinalityType
<1> HIDE DEF W, V
<1>5. IsFiniteSet(V) /\ Cardinality(V) = Cardinality(W) - 1
  BY <1>1, <1>2, FS_RemoveElement
<1>6. IsFiniteSet(V) /\ n_signals_added'[b] = Cardinality(V) + UnderWay(b)'
  BY <1>2, <1>3, <1>4, <1>5
<1> QED  BY <1>6 DEF CountAt, V

LockAt(b) ==
  Locked(b) =>
    LET e == op[b].e
    IN  /\ b \in alive /\ e \in Event /\ EvBase[e] = b
        /\ At(b, "set_handler") \/ At(b, "insert") => list[b][EvSig[e]] = {}
        /\ At(b, "restore") => list[b][EvSig[e]] = {e}

LEMMA LockIs == (LockInv <=> \A b \in Base : LockAt(b)) /\ (LockInv' <=> \A b \in Base : LockAt(b)')
BY DEF LockInv, LockAt

\* A base whose lists and lock a step leaves alone.
LEMMA LockElsewhere ==
  ASSUME LockInv, NEW x \in Base, op'[x] = op[x], alive' = alive,
         \A t \in Sig : list'[x][t] = list[x][t]
  PROVE  LockAt(x)'
<1>1. LockAt(x)
  BY LockIs
<1>2. op[x].e \in Event => EvSig[op[x].e] \in Sig
  BY EvsignalAssumption
<1> QED  BY <1>1, <1>2 DEF LockAt, Locked, At

LEMMA AddKeeps ==
  ASSUME SigInv, TypeOK', NEW e \in Event, evmap_signal_add(e)
  PROVE  SigInv'
<1> DEFINE b == EvBase[e]
           s == EvSig[e]
<1>0. TypeOK /\ LockInv /\ ListInv /\ CountInv /\ SavedInv /\ SignalNotLost
  BY DEF SigInv
<1>t. /\ list \in [Base -> [Sig -> SUBSET Event]] /\ op \in [Base -> Ops]
      /\ n_signals_added \in [Base -> Nat]
      /\ \A x \in Base : n_signals_added[x] \in Int /\ n_signals_added'[x] \in Int
  BY <1>0, TypeParts, SMTT(30) DEF TypeOK
<1>1. /\ b \in Base /\ s \in Sig /\ b \in alive /\ op[b].pc = "none" /\ e \notin list[b][s]
      /\ UNCHANGED <<handler, signal_added, sh_old, pair, caught, active, alive, owed, left>>
  BY EvsignalAssumption DEF evmap_signal_add, May, Locked
<1>2. CASE list[b][s] # {}
  <2>1. /\ list' = [list EXCEPT ![b] = [list[b] EXCEPT ![s] = list[b][s] \cup {e}]]
        /\ UNCHANGED <<op, evsigVars>>
    BY <1>2 DEF evmap_signal_add
  <2>2. EvBase[e] = b /\ EvSig[e] = s
    OBVIOUS
  <2> HIDE DEF b, s
  <2>3. list[b][s] \cup {e} \in SUBSET Event
    BY <1>1, <1>t
  <2>4. \A x \in Base : \A t \in Sig :
          list'[x][t] = IF x = b /\ t = s THEN list[b][s] \cup {e} ELSE list[x][t]
    BY <1>1, <1>t, <2>1, <2>3, EntryChanged
  <2>5. LockInv'
    <3> SUFFICES ASSUME NEW x \in Base
                 PROVE  LockAt(x)'
      BY LockIs
    <3>1. CASE x # b
      <4>1. op'[x] = op[x] /\ alive' = alive /\ \A t \in Sig : list'[x][t] = list[x][t]
        BY <3>1, <1>1, <2>1, <2>4
      <4> QED  BY <1>0, <4>1, LockElsewhere
    <3>2. CASE x = b
      BY <1>1, <2>1, <3>2 DEF LockAt, Locked
    <3> QED  BY <3>1, <3>2
  <2>6. ListInv'
    BY <1>0, <1>1, <2>1, <2>2, <2>4, EvsignalAssumption DEF ListInv, At, TypeOK
  <2>7. CountInv'
    <3> SUFFICES ASSUME NEW x \in Base
                 PROVE  CountAt(x)'
      BY CountIs
    <3>1. \A t \in Sig : list'[x][t] = {} <=> list[x][t] = {}
      BY <1>2, <2>4
    <3>2. n_signals_added'[x] - UnderWay(x)' = n_signals_added[x] - UnderWay(x)
      BY <2>1, UnderWayValue DEF evsigVars
    <3> QED  BY <1>0, <1>t, <3>1, <3>2, CountIs, CountKept
  <2>8. SavedInv'
    BY <1>0, <1>1, <1>2, <2>1, <2>4 DEF SavedInv, Saves, At
  <2>9. SignalNotLost'
    BY <1>0, <1>1 DEF SignalNotLost
  <2> QED  BY <2>5, <2>6, <2>7, <2>8, <2>9 DEF SigInv
<1>3. CASE list[b][s] = {}
  <2> DEFINE o == [pc |-> "set_handler", e |-> e]
  <2>1. /\ UNCHANGED list
        /\ op' = [op EXCEPT ![b] = o]
        /\ n_signals_added' = [n_signals_added EXCEPT ![b] = n_signals_added[b] + 1]
    BY <1>3 DEF evmap_signal_add
  <2>2. EvBase[e] = b /\ EvSig[e] = s /\ o.pc = "set_handler" /\ o.e = e
    OBVIOUS
  <2> HIDE DEF b, s, o
  <2>4. /\ \A x \in Base : op'[x] = IF x = b THEN o ELSE op[x]
        /\ \A x \in Base : n_signals_added'[x] = IF x = b THEN n_signals_added[b] + 1
                                                 ELSE n_signals_added[x]
    BY <1>1, <1>t, <2>1
  <2>5. LockInv'
    BY SMTT(30), <1>0, <1>1, <1>3, <2>1, <2>2, <2>4 DEF LockInv, Locked, At
  <2>6. ListInv'
    BY <1>0, <1>1, <2>1, <2>2, <2>4, EvsignalAssumption DEF ListInv, At, TypeOK
  <2>7. CountInv'
    <3> SUFFICES ASSUME NEW x \in Base
                 PROVE  CountAt(x)'
      BY CountIs
    <3>1. \A t \in Sig : list'[x][t] = {} <=> list[x][t] = {}
      BY <2>1
    <3>2. n_signals_added'[x] - UnderWay(x)' = n_signals_added[x] - UnderWay(x)
      BY <1>1, <1>t, <2>2, <2>4, UnderWayValue, SMTT(30)
    <3> QED  BY <1>0, <1>t, <3>1, <3>2, CountIs, CountKept
  <2>8. SavedInv'
    BY <1>0, <1>1, <2>1, <2>2, <2>4 DEF SavedInv, Saves, At
  <2>9. SignalNotLost'
    BY <1>0, <1>1 DEF SignalNotLost
  <2> QED  BY <2>5, <2>6, <2>7, <2>8, <2>9 DEF SigInv
<1> QED  BY <1>2, <1>3


LEMMA CountTypes ==
  ASSUME TypeOK, TypeOK'
  PROVE  \A x \in Base : n_signals_added[x] \in Int /\ n_signals_added'[x] \in Int
BY DEF TypeOK

LEMMA DelKeeps ==
  ASSUME SigInv, TypeOK', NEW e \in Event, evmap_signal_del(e)
  PROVE  SigInv'
<1> DEFINE b == EvBase[e]
           s == EvSig[e]
<1>0. TypeOK /\ LockInv /\ ListInv /\ CountInv /\ SavedInv /\ SignalNotLost
  BY DEF SigInv
<1>t. /\ list \in [Base -> [Sig -> SUBSET Event]] /\ op \in [Base -> Ops]
      /\ n_signals_added \in [Base -> Nat]
      /\ sh_old \in [Base -> [Sig -> {"none", "orig", "evsig"}]]
      /\ \A x \in Base : n_signals_added[x] \in Int /\ n_signals_added'[x] \in Int
  BY <1>0, TypeParts, CountTypes
<1>1. /\ b \in Base /\ s \in Sig /\ b \in alive /\ op[b].pc = "none" /\ e \in list[b][s]
      /\ UNCHANGED <<handler, signal_added, sh_old, pair, caught, alive, left>>
      /\ active' = active \ {e} /\ owed' = owed \ {e}
  BY EvsignalAssumption DEF evmap_signal_del, May, Locked
<1>9. SignalNotLost'
  BY <1>0, <1>1 DEF SignalNotLost
<1>2. CASE list[b][s] # {e}
  <2>1. /\ list' = [list EXCEPT ![b] = [list[b] EXCEPT ![s] = list[b][s] \ {e}]]
        /\ UNCHANGED <<op, n_signals_added>>
    BY <1>2 DEF evmap_signal_del
  <2>2. EvBase[e] = b /\ EvSig[e] = s
    OBVIOUS
  <2> HIDE DEF b, s
  <2>3. list[b][s] \ {e} \in SUBSET Event /\ list[b][s] \ {e} # {}
    BY <1>1, <1>2, <1>t
  <2>4. \A x \in Base : \A t \in Sig :
          list'[x][t] = IF x = b /\ t = s THEN list[b][s] \ {e} ELSE list[x][t]
    BY <1>1, <1>t, <2>1, <2>3, EntryChanged
  <2>5. LockInv'
    <3> SUFFICES ASSUME NEW x \in Base
              PROVE  LockAt(x)'
      BY LockIs
    <3>1. CASE x # b
      <4>1. op'[x] = op[x] /\ alive' = alive /\ \A t \in Sig : list'[x][t] = list[x][t]
        BY <3>1, <1>1, <2>1, <2>4
      <4> QED  BY <1>0, <4>1, LockElsewhere
    <3>2. CASE x = b
      <4>1. LockAt(b)'
        BY <1>1, <2>1 DEF LockAt, Locked, At
      <4> QED  BY <3>2, <4>1
    <3> QED  BY <3>1, <3>2
  <2>6. ListInv'
    BY <1>0, <1>1, <2>1, <2>2, <2>4, EvsignalAssumption DEF ListInv, At, TypeOK
  <2>7. CountInv'
    <3> SUFFICES ASSUME NEW x \in Base
                 PROVE  CountAt(x)'
      BY CountIs
    <3>1. \A t \in Sig : list'[x][t] = {} <=> list[x][t] = {}
      BY <1>1, <2>3, <2>4
    <3>2. n_signals_added'[x] - UnderWay(x)' = n_signals_added[x] - UnderWay(x)
      BY <2>1, UnderWayValue
    <3> QED  BY <1>0, <1>t, <3>1, <3>2, CountIs, CountKept
  <2>8. SavedInv'
    BY <1>0, <1>1, <2>1, <2>3, <2>4 DEF SavedInv, Saves, At
  <2> QED  BY <1>9, <2>5, <2>6, <2>7, <2>8 DEF SigInv
<1>3. CASE list[b][s] = {e}
  <2> DEFINE o == [pc |-> "restore", e |-> e]
  <2>1. /\ UNCHANGED list
        /\ op' = [op EXCEPT ![b] = o]
        /\ n_signals_added' = [n_signals_added EXCEPT ![b] = n_signals_added[b] - 1]
    BY <1>3 DEF evmap_signal_del
  <2>2. EvBase[e] = b /\ EvSig[e] = s /\ o.pc = "restore" /\ o.e = e
    OBVIOUS
  <2> HIDE DEF b, s, o
  <2>4. /\ \A x \in Base : op'[x] = IF x = b THEN o ELSE op[x]
        /\ \A x \in Base : n_signals_added'[x] = IF x = b THEN n_signals_added[b] - 1
                                                 ELSE n_signals_added[x]
    BY <1>1, <1>t, <2>1
  <2>5. LockInv'
    BY <1>0, <1>1, <1>3, <2>1, <2>2, <2>4, SMTT(30) DEF LockInv, Locked, At
  <2>6. ListInv'
    BY <1>0, <1>1, <2>1, <2>2, <2>4, EvsignalAssumption DEF ListInv, At, TypeOK
  <2>7. CountInv'
    <3> SUFFICES ASSUME NEW x \in Base
                 PROVE  CountAt(x)'
      BY CountIs
    <3>1. \A t \in Sig : list'[x][t] = {} <=> list[x][t] = {}
      BY <2>1
    <3>2. n_signals_added'[x] - UnderWay(x)' = n_signals_added[x] - UnderWay(x)
      <4>1. CASE x # b
        BY <1>t, <2>4, <4>1, UnderWayValue
      <4>2. CASE x = b
        <5>1. UnderWay(b) = 0 /\ UnderWay(b)' = -1
          BY <1>1, <2>2, <2>4, UnderWayValue
        <5>2. n_signals_added'[b] = n_signals_added[b] - 1 /\ n_signals_added[b] \in Int
          BY <1>1, <1>t, <2>4
        <5> QED  BY <4>2, <5>1, <5>2
      <4> QED  BY <4>1, <4>2
    <3> QED  BY <1>0, <1>t, <3>1, <3>2, CountIs, CountKept
  <2>8. SavedInv'
    BY <1>0, <1>1, <2>1, <2>2, <2>4 DEF SavedInv, Saves, At
  <2> QED  BY <1>9, <2>5, <2>6, <2>7, <2>8 DEF SigInv
<1> QED  BY <1>2, <1>3

LEMMA AddFailsKeeps ==
  ASSUME SigInv, TypeOK', NEW b \in Base, evsig_add_fails(b)
  PROVE  SigInv'
<1>0. TypeOK /\ LockInv /\ ListInv /\ CountInv /\ SavedInv /\ SignalNotLost
  BY DEF SigInv
<1>t. /\ list \in [Base -> [Sig -> SUBSET Event]] /\ op \in [Base -> Ops]
      /\ n_signals_added \in [Base -> Nat]
      /\ sh_old \in [Base -> [Sig -> {"none", "orig", "evsig"}]]
      /\ \A x \in Base : n_signals_added[x] \in Int /\ n_signals_added'[x] \in Int
  BY <1>0, TypeParts, CountTypes
<1>1. /\ op[b].pc \in {"set_handler", "insert"} /\ op' = [op EXCEPT ![b] = NoOp]
      /\ n_signals_added' = [n_signals_added EXCEPT ![b] = n_signals_added[b] - 1]
      /\ UNCHANGED <<handler, signal_added, pair, list, caught, active, alive, owed>>
  BY DEF evsig_add_fails, At
<1>2. /\ \A x \in Base : op'[x] = IF x = b THEN NoOp ELSE op[x]
      /\ \A x \in Base : n_signals_added'[x] = IF x = b THEN n_signals_added[b] - 1
                                               ELSE n_signals_added[x]
  BY <1>1, <1>t
<1>3. LockInv' /\ ListInv' /\ SignalNotLost'
  <2>1. LockInv'
    BY <1>0, <1>1, <1>2, OpsFacts, SMTT(30) DEF LockInv, Locked, At
  <2>2. ListInv'
    BY <1>0, <1>1, <1>2, OpsFacts, EvsignalAssumption DEF ListInv, At, TypeOK
  <2> QED  BY <1>0, <1>1, <2>1, <2>2 DEF SignalNotLost
<1>4. CountInv'
  <2> SUFFICES ASSUME NEW x \in Base
               PROVE  CountAt(x)'
    BY CountIs
  <2>1. \A t \in Sig : list'[x][t] = {} <=> list[x][t] = {}
    BY <1>1
  <2>2. n_signals_added'[x] - UnderWay(x)' = n_signals_added[x] - UnderWay(x)
    <3>1. CASE x # b
      BY <1>2, <1>t, <3>1, UnderWayValue
    <3>2. CASE x = b
      <4>1. UnderWay(b) = 1 /\ UnderWay(b)' = 0
        BY <1>1, <1>2, OpsFacts, UnderWayValue
      <4>2. n_signals_added'[b] = n_signals_added[b] - 1 /\ n_signals_added[b] \in Int
        BY <1>2, <1>t
      <4> QED  BY <3>2, <4>1, <4>2
    <3> QED  BY <3>1, <3>2
  <2> QED  BY <1>0, <1>t, <2>1, <2>2, CountIs, CountKept
<1>5. SavedInv'
  <2> DEFINE s == EvSig[op[b].e]
  <2>1. s \in Sig /\ list[b][s] = {}
    BY <1>0, <1>1, EvsignalAssumption DEF LockInv, Locked, At
  <2>2. \/ op[b].pc = "set_handler" /\ left' = left
           /\ sh_old' = [sh_old EXCEPT ![b] = [sh_old[b] EXCEPT ![s] = "none"]]
        \/ op[b].pc = "insert" /\ left' = left \cup {s} /\ sh_old' = sh_old
    BY DEF evsig_add_fails, At
  <2> HIDE DEF s
  <2>3. CASE op[b].pc = "set_handler" /\ left' = left
             /\ sh_old' = [sh_old EXCEPT ![b] = [sh_old[b] EXCEPT ![s] = "none"]]
    <3>1. \A x \in Base : \A t \in Sig :
            sh_old'[x][t] = IF x = b /\ t = s THEN "none" ELSE sh_old[x][t]
      BY <1>t, <2>1, <2>3, EntryChanged
    <3>2. \A x \in Base : \A t \in Sig : Saves(x, t)' <=> Saves(x, t)
      BY <1>1, <1>2, <2>3, OpsFacts DEF Saves, At
    <3>3. ~Saves(b, s)
      BY <2>1, <2>3 DEF Saves, At
    <3> QED  BY <1>0, <2>3, <3>1, <3>2, <3>3 DEF SavedInv
  <2>4. CASE op[b].pc = "insert" /\ left' = left \cup {s} /\ sh_old' = sh_old
    <3>1. \A x \in Base : \A t \in Sig : /\ Saves(x, t)' => Saves(x, t)
                                         /\ Saves(x, t) => Saves(x, t)' \/ t = s
      BY <1>1, <1>2, <2>4, OpsFacts DEF Saves, At, s
    <3> QED  BY <1>0, <2>4, <3>1 DEF SavedInv
  <2> QED  BY <2>2, <2>3, <2>4
<1> QED  BY <1>3, <1>4, <1>5 DEF SigInv

LEMMA SetHandlerKeeps ==
  ASSUME SigInv, TypeOK', NEW b \in Base, _evsig_set_handler(b)
  PROVE  SigInv'
<1> DEFINE e == op[b].e
           s == EvSig[e]
           o == [op[b] EXCEPT !.pc = "insert"]
<1>0. TypeOK /\ LockInv /\ ListInv /\ CountInv /\ SavedInv /\ SignalNotLost
  BY DEF SigInv
<1>t. /\ list \in [Base -> [Sig -> SUBSET Event]] /\ op \in [Base -> Ops]
      /\ n_signals_added \in [Base -> Nat]
      /\ sh_old \in [Base -> [Sig -> {"none", "orig", "evsig"}]]
      /\ \A x \in Base : n_signals_added[x] \in Int /\ n_signals_added'[x] \in Int
  BY <1>0, TypeParts, CountTypes
<1>1. /\ op[b].pc = "set_handler" /\ op' = [op EXCEPT ![b] = o]
      /\ sh_old' = [sh_old EXCEPT ![b] = [sh_old[b] EXCEPT ![s] = handler[s]]]
      /\ UNCHANGED <<n_signals_added, signal_added, pair, list, caught, active, alive, owed,
                     left>>
  BY DEF _evsig_set_handler, evsigVars, At
<1>2. /\ e \in Event /\ EvBase[e] = b /\ s \in Sig /\ list[b][s] = {} /\ EvSig[e] = s
      /\ handler[s] \in {"orig", "evsig"} /\ op[b].e = e /\ b \in alive
  BY <1>0, <1>1, EvsignalAssumption DEF LockInv, Locked, At, TypeOK
<1>3. o.pc = "insert" /\ o.e = e
  BY <1>t, OpsFacts
<1> HIDE DEF e, s, o
<1>4. /\ \A x \in Base : op'[x] = IF x = b THEN o ELSE op[x]
      /\ \A x \in Base : \A t \in Sig :
           sh_old'[x][t] = IF x = b /\ t = s THEN handler[s] ELSE sh_old[x][t]
  BY <1>1, <1>2, <1>t, EntryChanged
<1>5. LockInv'
  <2> SUFFICES ASSUME NEW x \in Base
            PROVE  LockAt(x)'
    BY LockIs
  <2>1. CASE x # b
    <3>1. op'[x] = op[x] /\ alive' = alive /\ \A t \in Sig : list'[x][t] = list[x][t]
      BY <2>1, <1>1, <1>4
    <3> QED  BY <1>0, <3>1, LockElsewhere
  <2>2. CASE x = b
    <3>1. LockAt(b)'
      BY <1>1, <1>2, <1>3, <1>4 DEF LockAt, Locked, At
    <3> QED  BY <2>2, <3>1
  <2> QED  BY <2>1, <2>2
<1>6. ListInv' /\ SignalNotLost'
  BY <1>0, <1>1, <1>3, <1>4, EvsignalAssumption DEF ListInv, At, TypeOK, SignalNotLost
<1>7. CountInv'
  <2> SUFFICES ASSUME NEW x \in Base
               PROVE  CountAt(x)'
    BY CountIs
  <2>1. \A t \in Sig : list'[x][t] = {} <=> list[x][t] = {}
    BY <1>1
  <2>2. n_signals_added'[x] - UnderWay(x)' = n_signals_added[x] - UnderWay(x)
    BY <1>1, <1>3, <1>4, UnderWayValue
  <2> QED  BY <1>0, <1>t, <2>1, <2>2, CountIs, CountKept
<1>8. SavedInv'
  BY <1>0, <1>1, <1>2, <1>3, <1>4 DEF SavedInv, Saves, At
<1> QED  BY <1>5, <1>6, <1>7, <1>8 DEF SigInv

LEMMA InsertKeeps ==
  ASSUME SigInv, TypeOK', NEW b \in Base, InsertSignal(b)
  PROVE  SigInv'
<1> DEFINE e == op[b].e
           s == EvSig[e]
<1>0. TypeOK /\ LockInv /\ ListInv /\ CountInv /\ SavedInv /\ SignalNotLost
  BY DEF SigInv
<1>t. /\ list \in [Base -> [Sig -> SUBSET Event]] /\ op \in [Base -> Ops]
      /\ n_signals_added \in [Base -> Nat]
      /\ sh_old \in [Base -> [Sig -> {"none", "orig", "evsig"}]]
      /\ \A x \in Base : n_signals_added[x] \in Int /\ n_signals_added'[x] \in Int
  BY <1>0, TypeParts, CountTypes
<1>1. /\ op[b].pc = "insert" /\ op' = [op EXCEPT ![b] = NoOp]
      /\ list' = [list EXCEPT ![b] = [list[b] EXCEPT ![s] = list[b][s] \cup {e}]]
      /\ UNCHANGED <<n_signals_added, handler, sh_old, pair, caught, active, alive, owed,
                     left>>
  BY DEF InsertSignal, evsigVars, At
<1>2. /\ e \in Event /\ EvBase[e] = b /\ s \in Sig /\ list[b][s] = {} /\ EvSig[e] = s
      /\ op[b].e = e /\ list[b][s] \cup {e} = {e} /\ {e} \in SUBSET Event
  BY <1>0, <1>1, EvsignalAssumption DEF LockInv, Locked, At, TypeOK
<1> HIDE DEF e, s
<1>4. /\ \A x \in Base : op'[x] = IF x = b THEN NoOp ELSE op[x]
      /\ \A x \in Base : \A t \in Sig :
           list'[x][t] = IF x = b /\ t = s THEN {e} ELSE list[x][t]
  BY <1>1, <1>2, <1>t, EntryChanged
<1>5. LockInv'
  <2> SUFFICES ASSUME NEW x \in Base
            PROVE  LockAt(x)'
    BY LockIs
  <2>1. CASE x # b
    <3>1. op'[x] = op[x] /\ alive' = alive /\ \A t \in Sig : list'[x][t] = list[x][t]
      BY <2>1, <1>1, <1>4
    <3> QED  BY <1>0, <3>1, LockElsewhere
  <2>2. CASE x = b
    <3>1. LockAt(b)'
      BY <1>4, OpsFacts DEF LockAt, Locked, At
    <3> QED  BY <2>2, <3>1
  <2> QED  BY <2>1, <2>2
<1>6. ListInv' /\ SignalNotLost'
  <2>1. ListInv'
    BY <1>0, <1>1, <1>2, <1>4, OpsFacts, EvsignalAssumption DEF ListInv, At, TypeOK
  <2> QED  BY <1>0, <1>1, <2>1 DEF SignalNotLost
<1>7. CountInv'
  <2> SUFFICES ASSUME NEW x \in Base
               PROVE  CountAt(x)'
    BY CountIs
  <2>1. CASE x # b
    <3>1. \A t \in Sig : list'[x][t] = {} <=> list[x][t] = {}
      BY <1>4, <2>1
    <3>2. n_signals_added'[x] - UnderWay(x)' = n_signals_added[x] - UnderWay(x)
      BY <1>1, <1>4, <2>1, UnderWayValue
    <3> QED  BY <1>0, <1>t, <3>1, <3>2, CountIs, CountKept
  <2>2. CASE x = b
    <3>1. list'[b][s] # {} /\ \A t \in Sig \ {s} : list'[b][t] = {} <=> list[b][t] = {}
      BY <1>2, <1>4
    <3>2. UnderWay(b)' = UnderWay(b) - 1
      BY <1>1, <1>4, OpsFacts, UnderWayValue
    <3>3. CountAt(b)'
      BY <1>0, <1>1, <1>2, <1>t, <3>1, <3>2, CountIs, CountMore, ZenonT(60)
    <3> QED  BY <2>2, <3>3
  <2> QED  BY <2>1, <2>2
<1>8. SavedInv'
  BY <1>0, <1>1, <1>2, <1>4, OpsFacts, SMTT(30) DEF SavedInv, Saves, At
<1> QED  BY <1>5, <1>6, <1>7, <1>8 DEF SigInv

LEMMA RestoreKeeps ==
  ASSUME SigInv, TypeOK', NEW b \in Base, _evsig_restore_handler(b)
  PROVE  SigInv'
<1> DEFINE e == op[b].e
           s == EvSig[e]
<1>0. TypeOK /\ LockInv /\ ListInv /\ CountInv /\ SavedInv /\ SignalNotLost
  BY DEF SigInv
<1>t. /\ list \in [Base -> [Sig -> SUBSET Event]] /\ op \in [Base -> Ops]
      /\ n_signals_added \in [Base -> Nat]
      /\ sh_old \in [Base -> [Sig -> {"none", "orig", "evsig"}]]
      /\ \A x \in Base : n_signals_added[x] \in Int /\ n_signals_added'[x] \in Int
  BY <1>0, TypeParts, CountTypes
<1>1. /\ op[b].pc = "restore" /\ op' = [op EXCEPT ![b] = NoOp]
      /\ list' = [list EXCEPT ![b] = [list[b] EXCEPT ![s] = {}]]
      /\ sh_old' = [sh_old EXCEPT ![b] = [sh_old[b] EXCEPT ![s] = "none"]]
      /\ UNCHANGED <<n_signals_added, pair, caught, active, alive, owed, left>>
  BY DEF _evsig_restore_handler, evsigVars, At
<1>2. /\ e \in Event /\ EvBase[e] = b /\ s \in Sig /\ list[b][s] = {e} /\ EvSig[e] = s
      /\ op[b].e = e /\ {} \in SUBSET Event
  BY <1>0, <1>1, EvsignalAssumption DEF LockInv, Locked, At, TypeOK
<1> HIDE DEF e, s
<1>3. \A x \in Base : \A t \in Sig :
           sh_old'[x][t] = IF x = b /\ t = s THEN "none" ELSE sh_old[x][t]
  BY <1>1, <1>2, <1>t, EntryChanged
<1>4. /\ \A x \in Base : op'[x] = IF x = b THEN NoOp ELSE op[x]
      /\ \A x \in Base : \A t \in Sig :
           list'[x][t] = IF x = b /\ t = s THEN {} ELSE list[x][t]
  BY <1>1, <1>2, <1>t, EntryChanged
<1>5. LockInv'
  <2> SUFFICES ASSUME NEW x \in Base
            PROVE  LockAt(x)'
    BY LockIs
  <2>1. CASE x # b
    <3>1. op'[x] = op[x] /\ alive' = alive /\ \A t \in Sig : list'[x][t] = list[x][t]
      BY <2>1, <1>1, <1>4
    <3> QED  BY <1>0, <3>1, LockElsewhere
  <2>2. CASE x = b
    <3>1. LockAt(b)'
      BY <1>4, OpsFacts DEF LockAt, Locked, At
    <3> QED  BY <2>2, <3>1
  <2> QED  BY <2>1, <2>2
<1>6. ListInv' /\ SignalNotLost'
  <2>1. ListInv'
    BY <1>0, <1>1, <1>2, <1>4, OpsFacts, EvsignalAssumption DEF ListInv, At, TypeOK
  <2> QED  BY <1>0, <1>1, <2>1 DEF SignalNotLost
<1>7. CountInv'
  <2> SUFFICES ASSUME NEW x \in Base
               PROVE  CountAt(x)'
    BY CountIs
  <2>1. CASE x # b
    <3>1. \A t \in Sig : list'[x][t] = {} <=> list[x][t] = {}
      BY <1>4, <2>1
    <3>2. n_signals_added'[x] - UnderWay(x)' = n_signals_added[x] - UnderWay(x)
      BY <1>1, <1>4, <2>1, UnderWayValue
    <3> QED  BY <1>0, <1>t, <3>1, <3>2, CountIs, CountKept
  <2>2. CASE x = b
    <3>1. list[b][s] # {} /\ list'[b][s] = {} /\ \A t \in Sig \ {s} : list'[b][t] = {} <=> list[b][t] = {}
      BY <1>2, <1>4
    <3>2. UnderWay(b)' = UnderWay(b) + 1
      BY <1>1, <1>4, OpsFacts, UnderWayValue
    <3>3. CountAt(b)'
      BY <1>0, <1>1, <1>2, <1>t, <3>1, <3>2, CountIs, CountLess, ZenonT(60)
    <3> QED  BY <2>2, <3>3
  <2> QED  BY <2>1, <2>2
<1>8. SavedInv'
  BY <1>0, <1>1, <1>2, <1>3, <1>4, OpsFacts DEF SavedInv, Saves, At
<1> QED  BY <1>5, <1>6, <1>7, <1>8 DEF SigInv

\* The steps that leave the signal maps alone: those of the signal handler and of
\* the loop, and the choice of the base that signals go to.
LEMMA MapsAlone ==
  ASSUME SigInv, TypeOK', UNCHANGED <<list, op, n_signals_added, sh_old, left>>, alive' = alive,
         \A e \in owed' : LET b == EvBase[e]
                          IN  e \in list[b][EvSig[e]] /\ (At(b, "restore") => op[b].e # e),
         SignalNotLost'
  PROVE  SigInv'
<1>0. TypeOK /\ LockInv /\ ListInv /\ CountInv /\ SavedInv /\ SignalNotLost
  BY DEF SigInv
<1>t. /\ list \in [Base -> [Sig -> SUBSET Event]] /\ op \in [Base -> Ops]
      /\ n_signals_added \in [Base -> Nat]
      /\ sh_old \in [Base -> [Sig -> {"none", "orig", "evsig"}]]
      /\ \A x \in Base : n_signals_added[x] \in Int /\ n_signals_added'[x] \in Int
  BY <1>0, TypeParts, CountTypes
<1>1. LockInv' /\ ListInv' /\ SavedInv'
  <2>1. LockInv'
    BY <1>0 DEF LockInv, Locked, At
  <2>2. ListInv'
    BY <1>0 DEF ListInv, At
  <2>3. SavedInv'
    BY <1>0 DEF SavedInv, Saves, At
  <2> QED  BY <2>1, <2>2, <2>3
<1>2. CountInv'
  <2> SUFFICES ASSUME NEW x \in Base
               PROVE  CountAt(x)'
    BY CountIs
  <2>1. \A t \in Sig : list'[x][t] = {} <=> list[x][t] = {}
    BY <1>t
  <2>2. n_signals_added'[x] - UnderWay(x)' = n_signals_added[x] - UnderWay(x)
    BY <1>t, UnderWayValue
  <2> QED  BY <1>0, <1>t, <2>1, <2>2, CountIs, CountKept
<1> QED  BY <1>1, <1>2 DEF SigInv

LEMMA LoopKeeps ==
  ASSUME SigInv, TypeOK', NEW b \in Base,
         \/ evsig_cb(b) \/ evmap_signal_active(b) \/ evsig_set_base(b) \/ evsig_dealloc(b)
         \/ \E s \in Sig : evsig_handler(s)
         \/ \E e \in Event : RunCallback(e)
         \/ UNCHANGED vars
  PROVE  SigInv'
<1>0. TypeOK /\ LockInv /\ ListInv /\ CountInv /\ SavedInv /\ SignalNotLost
  BY DEF SigInv
<1>t. /\ list \in [Base -> [Sig -> SUBSET Event]] /\ op \in [Base -> Ops]
      /\ n_signals_added \in [Base -> Nat]
      /\ sh_old \in [Base -> [Sig -> {"none", "orig", "evsig"}]]
      /\ \A x \in Base : n_signals_added[x] \in Int /\ n_signals_added'[x] \in Int
  BY <1>0, TypeParts, CountTypes
<1>l. \A e \in owed : LET x == EvBase[e]
                      IN  /\ e \in list[x][EvSig[e]] /\ (At(x, "restore") => op[x].e # e)
                          /\ e \in Event /\ x \in Base /\ EvSig[e] \in Sig
  BY <1>0, EvsignalAssumption DEF ListInv, TypeOK
<1>1. CASE evsig_cb(b)
  <2>1. /\ caught' = [caught EXCEPT ![b] = ToSet(pair[b])]
        /\ pair' = [pair EXCEPT ![b] = <<>>] /\ caught[b] = {}
        /\ UNCHANGED <<list, op, n_signals_added, sh_old, left, alive, owed, active>>
    BY <1>1 DEF evsig_cb, evsigVars
  <2>2. \A x \in Base : ToSet(pair[x]) \cup caught[x] \subseteq ToSet(pair'[x]) \cup caught'[x]
    BY <1>0, <2>1 DEF TypeOK
  <2>3. SignalNotLost'
    BY <1>0, <1>l, <2>1, <2>2 DEF SignalNotLost
  <2> QED  BY <1>l, <2>1, <2>3, MapsAlone
<1>2. CASE evmap_signal_active(b)
  <2>1. /\ \/ /\ active' = active \cup UNION {list[b][s] : s \in caught[b]}
              /\ caught' = [caught EXCEPT ![b] = {}]
           \/ UNCHANGED <<active, caught>>
        /\ UNCHANGED <<pair, list, op, n_signals_added, sh_old, left, alive, owed>>
    BY <1>2 DEF evmap_signal_active, evsigVars
  <2>2. SignalNotLost'
    <3> SUFFICES ASSUME NEW e \in owed
                 PROVE  \/ e \in active'
                        \/ EvSig[e] \in ToSet(pair[EvBase[e]]) \cup caught'[EvBase[e]]
      BY <2>1 DEF SignalNotLost
    <3>1. /\ e \in active \/ EvSig[e] \in ToSet(pair[EvBase[e]]) \cup caught[EvBase[e]]
          /\ e \in list[EvBase[e]][EvSig[e]] /\ EvBase[e] \in Base
      BY <1>0, <1>l DEF SignalNotLost
    <3>2. CASE UNCHANGED <<active, caught>>
      BY <3>1, <3>2
    <3>3. CASE /\ active' = active \cup UNION {list[b][s] : s \in caught[b]}
               /\ caught' = [caught EXCEPT ![b] = {}]
      <4>1. \A x \in Base : x # b => caught'[x] = caught[x]
        BY <1>0, <3>3 DEF TypeOK
      <4>2. EvBase[e] = b /\ EvSig[e] \in caught[b] => e \in active'
        BY <3>1, <3>3
      <4>3. active \subseteq active'
        BY <3>3
      <4> QED  BY <3>1, <4>1, <4>2, <4>3
    <3> QED  BY <2>1, <3>2, <3>3
  <2> QED  BY <1>l, <2>1, <2>2, MapsAlone
<1>3. CASE evsig_set_base(b)
  <2>1. UNCHANGED <<pair, list, op, n_signals_added, sh_old, left, alive, owed, active, caught>>
    BY <1>3 DEF evsig_set_base
  <2>2. SignalNotLost'
    BY <1>0, <2>1 DEF SignalNotLost
  <2> QED  BY <1>l, <2>1, <2>2, MapsAlone
<1>4. ASSUME NEW s \in Sig, evsig_handler(s)  PROVE SigInv'
  <2> DEFINE h == evsig_base
  <2>1. /\ h \in Base /\ pair' = [pair EXCEPT ![h] = Append(pair[h], s)]
        /\ owed' = owed \cup Reached(h, s)
        /\ UNCHANGED <<list, op, n_signals_added, sh_old, left, alive, active, caught>>
    BY <1>0, <1>4 DEF evsig_handler, evsigVars, TypeOK
  <2> HIDE DEF h
  <2>2. /\ ToSet(Append(pair[h], s)) = ToSet(pair[h]) \cup {s}
        /\ pair \in [Base -> Seq(Sig)]
    BY <1>0, <2>1, AppendElements DEF TypeOK
  <2>3. /\ \A x \in Base : ToSet(pair[x]) \subseteq ToSet(pair'[x])
        /\ s \in ToSet(pair'[h])
    BY <2>1, <2>2
  <2>4. \A e \in Reached(h, s) : /\ EvBase[e] = h /\ EvSig[e] = s
                                 /\ e \in list[h][s] /\ (At(h, "restore") => op[h].e # e)
    BY <1>0, <2>1 DEF Reached, ListInv
  <2>5. SignalNotLost'
    BY <1>0, <1>l, <2>1, <2>3, <2>4 DEF SignalNotLost
  <2>6. \A e \in owed' : LET x == EvBase[e]
                         IN  e \in list[x][EvSig[e]] /\ (At(x, "restore") => op[x].e # e)
    BY <1>l, <2>1, <2>4
  <2> QED  BY <2>1, <2>5, <2>6, MapsAlone
<1>5. ASSUME NEW e \in Event, RunCallback(e)  PROVE SigInv'
  <2>1. /\ UNCHANGED <<pair, list, op, n_signals_added, sh_old, left, alive, caught>>
        /\ active' = active \ {e} /\ owed' = owed \ {e}
    BY <1>5 DEF RunCallback, evsigVars
  <2>2. SignalNotLost'
    BY <1>0, <2>1 DEF SignalNotLost
  <2> QED  BY <1>l, <2>1, <2>2, MapsAlone
<1>6. CASE UNCHANGED vars
  <2>1. UNCHANGED <<pair, list, op, n_signals_added, sh_old, left, alive, owed, active, caught>>
    BY <1>6 DEF vars
  <2>2. SignalNotLost'
    BY <1>0, <2>1 DEF SignalNotLost
  <2> QED  BY <1>l, <2>1, <2>2, MapsAlone
<1>7. CASE evsig_dealloc(b)
  <2>1. /\ op[b].pc = "none" /\ (\A s \in Sig : list[b][s] = {}) /\ alive' = alive \ {b}
        /\ sh_old' = [sh_old EXCEPT ![b] = [s \in Sig |-> "none"]]
        /\ pair' = [pair EXCEPT ![b] = <<>>]
        /\ UNCHANGED <<n_signals_added, list, op, caught, active, owed, left>>
    BY <1>7 DEF evsig_dealloc, May, Locked
  <2>2. /\ \A x \in Base : \A s \in Sig : sh_old'[x][s] # "none" => sh_old'[x][s] = sh_old[x][s]
        /\ \A x \in Base \ {b} : sh_old'[x] = sh_old[x]
        /\ \A s \in Sig : ~Saves(b, s)
    BY <1>t, <2>1 DEF Saves, At
  <2>3. \A e \in owed : EvBase[e] # b
    BY <1>l, <2>1
  <2>4. LockInv'
    BY <1>0, <2>1 DEF LockInv, Locked, At
  <2>5. ListInv'
    BY <1>0, <2>1 DEF ListInv, At
  <2>6. SavedInv'
    BY <1>0, <2>1, <2>2 DEF SavedInv, Saves, At
  <2>7. SignalNotLost'
    BY <1>0, <1>l, <2>1, <2>3 DEF SignalNotLost, TypeOK
  <2>8. CountInv'
    <3> SUFFICES ASSUME NEW x \in Base
                 PROVE  CountAt(x)'
      BY CountIs
    <3>1. \A t \in Sig : list'[x][t] = {} <=> list[x][t] = {}
      BY <2>1
    <3>2. n_signals_added'[x] - UnderWay(x)' = n_signals_added[x] - UnderWay(x)
      BY <2>1, UnderWayValue
    <3> QED  BY <1>0, <1>t, <3>1, <3>2, CountIs, CountKept
  <2> QED  BY <2>4, <2>5, <2>6, <2>7, <2>8 DEF SigInv
<1> QED  BY <1>1, <1>2, <1>3, <1>4, <1>5, <1>6, <1>7

LEMMA SigStep == SigInv /\ [Next]_vars => SigInv'
<1> SUFFICES ASSUME SigInv, [Next]_vars
             PROVE  SigInv'
  OBVIOUS
<1>1. TypeOK'
  BY TypeStep
<1>2. CASE Next
  <2>1. CASE \E e \in Event : evmap_signal_add(e) \/ evmap_signal_del(e)
    BY <1>1, <2>1, AddKeeps, DelKeeps
  <2>2. ASSUME NEW s \in Sig, evsig_handler(s)  PROVE SigInv'
    <3>1. evsig_base \in Base
      BY <2>2 DEF SigInv, TypeOK, evsig_handler
    <3> QED  BY <1>1, <2>2, <3>1, LoopKeeps
  <2>3. ASSUME NEW b \in Base,
               LockedStep(b) \/ LoopStep(b) \/ evsig_set_base(b) \/ evsig_dealloc(b)
        PROVE  SigInv'
    <3>1. CASE LockedStep(b)
      BY <1>1, <3>1, AddFailsKeeps, SetHandlerKeeps, InsertKeeps, RestoreKeeps DEF LockedStep
    <3>2. CASE LoopStep(b) \/ evsig_set_base(b) \/ evsig_dealloc(b)
      BY <1>1, <3>2, LoopKeeps DEF LoopStep
    <3> QED  BY <2>3, <3>1, <3>2
  <2> QED  BY <1>2, <2>1, <2>2, <2>3 DEF Next
<1>3. CASE UNCHANGED vars
  <2>1. UNCHANGED <<list, op, n_signals_added, sh_old, left, alive, owed, active, caught, pair>>
    BY <1>3 DEF vars
  <2>2. SignalNotLost'
    BY <2>1 DEF SigInv, SignalNotLost
  <2>3. \A e \in owed' : LET x == EvBase[e]
                         IN  e \in list[x][EvSig[e]] /\ (At(x, "restore") => op[x].e # e)
    BY <2>1 DEF SigInv, ListInv
  <2> QED  BY <1>1, <2>1, <2>2, <2>3, MapsAlone
<1> QED  BY <1>2, <1>3


\* All events of a signal are in one base, as signal.c asks for: its handlers
\* write to the socket pair of one base only.
OneHome == \A e, f \in Event : EvSig[e] = EvSig[f] => EvBase[e] = EvBase[f]

\* A base that has saved a handler has an event of the signal.
LEMMA SavesHome ==
  ASSUME SigInv, OneHome, NEW x \in Base, NEW e \in Event, Saves(x, EvSig[e])
  PROVE  EvBase[e] = x
<1>1. CASE list[x][EvSig[e]] # {}
  <2>1. PICK f \in list[x][EvSig[e]] : TRUE
    BY <1>1
  <2>2. f \in Event /\ EvBase[f] = x /\ EvSig[f] = EvSig[e]
    BY <2>1, EvsignalAssumption DEF SigInv, ListInv, TypeOK
  <2> QED  BY <2>2 DEF OneHome
<1>2. CASE At(x, "insert") /\ EvSig[op[x].e] = EvSig[e]
  <2>1. op[x].e \in Event /\ EvBase[op[x].e] = x
    BY <1>2 DEF SigInv, LockInv, Locked, At
  <2> QED  BY <1>2, <2>1 DEF OneHome
<1> QED  BY <1>1, <1>2 DEF Saves

\* What HandlerInv asks of a signal.
HandlerAt(t) ==
  /\ (\E x \in Base : Saves(x, t)) => handler[t] = "evsig"
  /\ \A x \in Base : sh_old[x][t] # "none" => \E e \in Event : EvBase[e] = x /\ EvSig[e] = t
  /\ t \notin left => /\ \A x \in Base : sh_old[x][t] # "evsig"
                      /\ handler[t] = "evsig" => \E x \in Base : Saves(x, t)

LEMMA HandlerIs ==
  /\ HandlerInv <=> \A t \in Sig : HandlerAt(t)
  /\ HandlerInv' <=> \A t \in Sig : HandlerAt(t)'
BY DEF HandlerInv, HandlerAt

\* A signal that a step leaves alone.
LEMMA HandlerElsewhere ==
  ASSUME NEW t \in Sig, HandlerAt(t), handler'[t] = handler[t],
         t \notin left' => t \notin left,
         \A x \in Base : sh_old'[x][t] \in {"none", sh_old[x][t]},
         \A x \in Base : Saves(x, t)' => Saves(x, t),
         \A x \in Base : Saves(x, t) => Saves(x, t)' \/ t \in left'
  PROVE  HandlerAt(t)'
BY DEF HandlerAt

LEMMA HandlerStep ==
  ASSUME SigInv, SigInv', OneHome, HandlerInv, [Next]_vars
  PROVE  HandlerInv'
<1>0. /\ TypeOK /\ SavedInv /\ SavedInv' /\ LockInv
      /\ sh_old \in [Base -> [Sig -> {"none", "orig", "evsig"}]]
      /\ handler \in [Sig -> {"orig", "evsig"}]
      /\ list \in [Base -> [Sig -> SUBSET Event]] /\ op \in [Base -> Ops]
  BY TypeParts DEF SigInv, TypeOK
<1>h. \A t \in Sig : HandlerAt(t)
  BY HandlerIs
<1>k. SUFFICES ASSUME NEW t \in Sig
               PROVE  HandlerAt(t)'
  BY HandlerIs
<1>1. CASE UNCHANGED <<handler, sh_old, left, list, op>>
  BY <1>h, <1>1, HandlerElsewhere DEF Saves, At
<1>2. ASSUME NEW b \in Base, _evsig_set_handler(b)  PROVE HandlerAt(t)'
  <2> DEFINE e == op[b].e
             s == EvSig[e]
             o == [op[b] EXCEPT !.pc = "insert"]
  <2>1. /\ e \in Event /\ EvBase[e] = b /\ s \in Sig /\ list[b][s] = {} /\ op[b].pc = "set_handler"
    BY <1>0, <1>2, EvsignalAssumption DEF LockInv, Locked, At, _evsig_set_handler
  <2>2. \A x \in Base : ~Saves(x, s)
    <3>1. ~Saves(b, s)
      BY <2>1 DEF Saves, At
    <3> QED  BY <2>1, <3>1, SavesHome
  <2>3. s \notin left => handler[s] = "orig"
    BY <1>0, <1>h, <2>1, <2>2 DEF HandlerAt
  <2>4. /\ handler' = [handler EXCEPT ![s] = "evsig"]
        /\ sh_old' = [sh_old EXCEPT ![b] = [sh_old[b] EXCEPT ![s] = handler[s]]]
        /\ UNCHANGED <<list, left>> /\ op' = [op EXCEPT ![b] = o]
    BY <1>2 DEF _evsig_set_handler
  <2>e. o.pc = "insert" /\ EvSig[o.e] = s
    BY <1>0, OpsFacts
  <2> HIDE DEF e, s, o
  <2>5. \A x \in Base : \A r \in Sig :
          sh_old'[x][r] = IF x = b /\ r = s THEN handler[s] ELSE sh_old[x][r]
    BY <1>0, <2>1, <2>4, EntryChanged
  <2>6. /\ \A r \in Sig : handler'[r] = IF r = s THEN "evsig" ELSE handler[r]
        /\ \A x \in Base : op'[x] = IF x = b THEN o ELSE op[x]
    BY <1>0, <2>1, <2>4
  <2>7. CASE t # s
    <3>1. \A x \in Base : Saves(x, t)' <=> Saves(x, t)
      BY <2>1, <2>4, <2>6, <2>7, <2>e DEF Saves, At
    <3>2. handler'[t] = handler[t] /\ \A x \in Base : sh_old'[x][t] = sh_old[x][t]
      BY <2>5, <2>6, <2>7
    <3> QED  BY <1>h, <2>4, <3>1, <3>2, HandlerElsewhere
  <2>8. CASE t = s
    <3>1. Saves(b, t)' /\ handler'[t] = "evsig"
      BY <2>1, <2>6, <2>8, <2>e DEF Saves, At
    <3>2. t \notin left => \A x \in Base : sh_old'[x][t] # "evsig"
      BY <1>h, <2>1, <2>3, <2>5, <2>8 DEF HandlerAt
    <3>3. \A x \in Base : sh_old'[x][t] # "none" => \E f \in Event : EvBase[f] = x /\ EvSig[f] = t
      BY <1>h, <2>1, <2>2, <2>5, <2>8 DEF HandlerAt, e, s
    <3> QED  BY <2>1, <2>4, <3>1, <3>2, <3>3 DEF HandlerAt
  <2> QED  BY <2>7, <2>8
<1>3. ASSUME NEW b \in Base, _evsig_restore_handler(b)  PROVE HandlerAt(t)'
  <2> DEFINE e == op[b].e
             s == EvSig[e]
  <2>1. /\ e \in Event /\ EvBase[e] = b /\ s \in Sig /\ list[b][s] = {e} /\ op[b].pc = "restore"
    BY <1>0, <1>3, EvsignalAssumption DEF LockInv, Locked, At, _evsig_restore_handler
  <2>2. \A x \in Base : x # b => ~Saves(x, s)
    BY <2>1, SavesHome
  <2>3. s \notin left => sh_old[b][s] = "orig"
    <3>1. Saves(b, s)
      BY <2>1 DEF Saves
    <3>2. sh_old[b][s] \in {"none", "orig", "evsig"} /\ sh_old[b][s] # "none"
      BY <1>0, <2>1, <3>1 DEF SavedInv
    <3> QED  BY <1>h, <2>1, <3>2 DEF HandlerAt
  <2>4. /\ handler' = [handler EXCEPT ![s] = sh_old[b][s]]
        /\ sh_old' = [sh_old EXCEPT ![b] = [sh_old[b] EXCEPT ![s] = "none"]]
        /\ list' = [list EXCEPT ![b] = [list[b] EXCEPT ![s] = {}]]
        /\ UNCHANGED left /\ op' = [op EXCEPT ![b] = NoOp]
    BY <1>3 DEF _evsig_restore_handler
  <2> HIDE DEF e, s
  <2>5. /\ \A x \in Base : \A r \in Sig :
             sh_old'[x][r] = IF x = b /\ r = s THEN "none" ELSE sh_old[x][r]
        /\ \A x \in Base : \A r \in Sig :
             list'[x][r] = IF x = b /\ r = s THEN {} ELSE list[x][r]
    BY <1>0, <2>1, <2>4, EntryChanged
  <2>6. /\ \A r \in Sig : handler'[r] = IF r = s THEN sh_old[b][s] ELSE handler[r]
        /\ \A x \in Base : op'[x] = IF x = b THEN NoOp ELSE op[x]
    BY <1>0, <2>1, <2>4
  <2>s. /\ \A x \in Base : t # s \/ x # b => (Saves(x, t)' <=> Saves(x, t))
        /\ t = s => ~Saves(b, t)'
    <3>1. At(b, "insert")' = FALSE /\ At(b, "insert") = FALSE
      BY <2>1, <2>6, OpsFacts DEF At
    <3>2. \A x \in Base : x # b => op'[x] = op[x]
      BY <2>6
    <3>3. \A x \in Base : x # b => (Saves(x, t)' <=> Saves(x, t))
      BY <2>5, <3>2 DEF Saves, At
    <3>4. /\ t # s => (Saves(b, t)' <=> Saves(b, t))
          /\ t = s => ~Saves(b, t)'
      BY <2>1, <2>5, <3>1 DEF Saves
    <3> QED  BY <3>3, <3>4
  <2>7. CASE t # s
    <3>1. handler'[t] = handler[t] /\ \A x \in Base : sh_old'[x][t] = sh_old[x][t]
      BY <2>5, <2>6, <2>7
    <3> QED  BY <1>h, <2>4, <2>7, <2>s, <3>1, HandlerElsewhere
  <2>8. CASE t = s
    <3>1. \A x \in Base : ~Saves(x, t)'
      BY <2>1, <2>2, <2>8, <2>s
    <3>2. t \notin left => /\ handler'[t] = "orig"
                           /\ \A x \in Base : sh_old'[x][t] # "evsig"
      BY <1>h, <2>1, <2>3, <2>5, <2>6, <2>8 DEF HandlerAt
    <3>3. \A x \in Base : sh_old'[x][t] # "none" => \E f \in Event : EvBase[f] = x /\ EvSig[f] = t
      BY <1>h, <2>1, <2>5, <2>8 DEF HandlerAt
    <3> QED  BY <2>1, <2>4, <3>1, <3>2, <3>3 DEF HandlerAt
  <2> QED  BY <2>7, <2>8
<1>4. ASSUME NEW b \in Base, evsig_dealloc(b)  PROVE HandlerAt(t)'
  <2>1. /\ \A s \in Sig : sh_old[b][s] # "none" => s \in left
        /\ \A s \in Sig : ~Saves(b, s) /\ UNCHANGED <<list, op, left>>
    BY <1>0, <1>4 DEF SavedInv, Saves, At, evsig_dealloc, May, Locked
  <2>2. /\ t \notin left => handler'[t] = handler[t]
        /\ \A x \in Base : sh_old'[x][t] = IF x = b THEN "none" ELSE sh_old[x][t]
        /\ handler'[t] = IF sh_old[b][t] = "none" THEN handler[t] ELSE sh_old[b][t]
    BY <1>0, <1>4, <2>1 DEF evsig_dealloc
  <2>3. \A x \in Base : Saves(x, t)' <=> Saves(x, t)
    BY <2>1 DEF Saves, At
  <2>4. CASE sh_old[b][t] = "none"
    BY <1>h, <2>1, <2>2, <2>3, <2>4, HandlerElsewhere
  <2>5. CASE sh_old[b][t] # "none"
    <3>1. PICK f \in Event : EvBase[f] = b /\ EvSig[f] = t
      BY <1>h, <2>5 DEF HandlerAt
    <3>2. \A x \in Base : ~Saves(x, t)
      BY <2>1, <3>1, SavesHome
    <3>3. t \in left'
      BY <2>1, <2>5
    <3>4. \A x \in Base : sh_old'[x][t] # "none" => \E g \in Event : EvBase[g] = x /\ EvSig[g] = t
      BY <1>h, <2>2 DEF HandlerAt
    <3> QED  BY <2>3, <3>2, <3>3, <3>4 DEF HandlerAt
  <2> QED  BY <2>4, <2>5
<1>5. ASSUME NEW b \in Base, evsig_add_fails(b)  PROVE HandlerAt(t)'
  <2> DEFINE s == EvSig[op[b].e]
  <2>1. s \in Sig /\ list[b][s] = {} /\ op[b].pc \in {"set_handler", "insert"}
    BY <1>0, <1>5, EvsignalAssumption DEF LockInv, Locked, At, evsig_add_fails
  <2>2. /\ \/ op[b].pc = "set_handler" /\ left' = left
              /\ sh_old' = [sh_old EXCEPT ![b] = [sh_old[b] EXCEPT ![s] = "none"]]
           \/ op[b].pc = "insert" /\ left' = left \cup {s} /\ sh_old' = sh_old
        /\ op' = [op EXCEPT ![b] = NoOp] /\ UNCHANGED <<handler, list>>
    BY <1>5 DEF evsig_add_fails, At
  <2>3. /\ \A x \in Base : sh_old'[x][t] \in {"none", sh_old[x][t]}
        /\ \A x \in Base : op'[x] = IF x = b THEN NoOp ELSE op[x]
    BY <1>0, <2>1, <2>2
  <2>4. \A x \in Base : Saves(x, t)' => Saves(x, t)
    BY <2>2, <2>3, OpsFacts DEF Saves, At
  <2>5. (t \notin left' => t \notin left) /\ (t = s /\ op[b].pc = "insert" => t \in left')
    BY <2>2
  <2>6. ASSUME NEW x \in Base, Saves(x, t)
        PROVE  Saves(x, t)' \/ t \in left'
    <3>1. CASE x # b \/ list[x][t] # {}
      BY <2>2, <2>3, <2>6, <3>1 DEF Saves, At
    <3>2. CASE x = b /\ list[x][t] = {}
      BY <2>5, <2>6, <3>2 DEF Saves, At
    <3> QED  BY <3>1, <3>2
  <2> HIDE DEF s
  <2> QED  BY <1>h, <2>2, <2>3, <2>4, <2>5, <2>6, HandlerElsewhere
<1>6. ASSUME NEW b \in Base, InsertSignal(b)  PROVE HandlerAt(t)'
  <2> DEFINE e == op[b].e
             s == EvSig[e]
  <2>1. /\ e \in Event /\ s \in Sig /\ op[b].pc = "insert" /\ UNCHANGED <<handler, sh_old, left>>
        /\ list' = [list EXCEPT ![b] = [list[b] EXCEPT ![s] = list[b][s] \cup {e}]]
        /\ op' = [op EXCEPT ![b] = NoOp]
    BY <1>0, <1>6, EvsignalAssumption DEF LockInv, Locked, At, InsertSignal
  <2> HIDE DEF e
  <2>2. list[b][s] \cup {e} \in SUBSET Event
    BY <1>0, <2>1
  <2>3. /\ \A x \in Base : \A r \in Sig :
             list'[x][r] = IF x = b /\ r = s THEN list[b][s] \cup {e} ELSE list[x][r]
        /\ \A x \in Base : op'[x] = IF x = b THEN NoOp ELSE op[x]
    BY <1>0, <2>1, <2>2, EntryChanged
  <2>4. \A x \in Base : Saves(x, t)' <=> Saves(x, t)
    <3>1. At(b, "insert")' = FALSE /\ At(b, "insert") = TRUE
      BY <2>1, <2>3, OpsFacts DEF At
    <3>2. \A x \in Base : x # b => op'[x] = op[x]
      BY <2>3
    <3> QED  BY <2>3, <3>1, <3>2 DEF Saves, At, e
  <2> QED  BY <1>h, <2>1, <2>4, HandlerElsewhere
<1>7. ASSUME NEW e \in Event, evmap_signal_add(e) \/ evmap_signal_del(e)  PROVE HandlerAt(t)'
  <2> DEFINE b == EvBase[e]
             s == EvSig[e]
  <2>1. /\ b \in Base /\ s \in Sig /\ op[b].pc = "none" /\ UNCHANGED <<handler, sh_old, left>>
    BY <1>7, EvsignalAssumption DEF evmap_signal_add, evmap_signal_del, May, Locked
  <2>2. /\ \/ op' = op \/ \E o : o.pc \in {"set_handler", "restore"} /\ op' = [op EXCEPT ![b] = o]
        /\ \/ list' = list
           \/ /\ list[b][s] # {} /\ e \notin list[b][s]
              /\ list' = [list EXCEPT ![b] = [list[b] EXCEPT ![s] = list[b][s] \cup {e}]]
           \/ /\ list[b][s] # {e} /\ e \in list[b][s]
              /\ list' = [list EXCEPT ![b] = [list[b] EXCEPT ![s] = list[b][s] \ {e}]]
    <3>1. [pc |-> "set_handler", e |-> e].pc = "set_handler" /\ [pc |-> "restore", e |-> e].pc = "restore"
      OBVIOUS
    <3>2. CASE evmap_signal_add(e)
      BY <3>1, <3>2 DEF evmap_signal_add
    <3>3. CASE evmap_signal_del(e)
      BY <3>1, <3>3 DEF evmap_signal_del
    <3> QED  BY <1>7, <3>2, <3>3
  <2> HIDE DEF b, s
  <2>3. \A x \in Base : list'[x][t] = {} <=> list[x][t] = {}
    <3>1. list[b][s] \cup {e} \in SUBSET Event /\ list[b][s] \ {e} \in SUBSET Event
      BY <1>0, <2>1
    <3>2. CASE list' = list
      BY <3>2
    <3>3. CASE list[b][s] # {} /\ list' = [list EXCEPT ![b] = [list[b] EXCEPT ![s] = list[b][s] \cup {e}]]
      BY <1>0, <2>1, <3>1, <3>3, EntryChanged
    <3>4. CASE /\ list[b][s] # {e} /\ e \in list[b][s]
               /\ list' = [list EXCEPT ![b] = [list[b] EXCEPT ![s] = list[b][s] \ {e}]]
      BY <1>0, <2>1, <3>1, <3>4, EntryChanged
    <3> QED  BY <2>2, <3>2, <3>3, <3>4
  <2>4. \A x \in Base : At(x, "insert")' = At(x, "insert") /\ (At(x, "insert") => op'[x] = op[x])
    BY <1>0, <2>1, <2>2 DEF At
  <2>5. \A x \in Base : Saves(x, t)' <=> Saves(x, t)
    BY <2>3, <2>4 DEF Saves
  <2> QED  BY <1>h, <2>1, <2>5, HandlerElsewhere
<1> QED
  <2>1. CASE UNCHANGED vars
    BY <1>1, <2>1 DEF vars
  <2>3. CASE \E s \in Sig : evsig_handler(s)
    BY <1>1, <2>3 DEF evsig_handler
  <2>4. ASSUME NEW b \in Base, LockedStep(b)
        PROVE  HandlerAt(t)'
    BY <1>2, <1>3, <1>5, <1>6, <2>4 DEF LockedStep
  <2>5. ASSUME NEW b \in Base, LoopStep(b) \/ evsig_set_base(b)
        PROVE  HandlerAt(t)'
    BY <1>1, <2>5 DEF LoopStep, evsig_cb, evmap_signal_active, RunCallback, evsig_set_base
  <2> QED  BY <1>4, <1>7, <2>1, <2>3, <2>4, <2>5 DEF Next

\* A signal that the handler has written to a socket pair is never lost on its
\* way through the pair, evsig_cb and the active queue to the callbacks, for any
\* bases, events and signals and any size of the pair, as long as the process
\* lasts: evmap_signal_active ends it when a base reads a signal it has no entry
\* for (NoNullSlotHolds says when that does not happen).
THEOREM SignalNotLostHolds == Spec => []SignalNotLost
<1>1. SigInv => SignalNotLost
  BY DEF SigInv
<1> QED  BY <1>1, SigInit, SigStep, PTL DEF Spec

LEMMA HandlerInit == Init => HandlerInv
<1> SUFFICES ASSUME Init
             PROVE  HandlerInv
  OBVIOUS
<1>1. \A b \in Base : \A s \in Sig : ~Saves(b, s) /\ sh_old[b][s] = "none"
  BY DEF Init, Saves, At, NoOp
<1>2. \A s \in Sig : handler[s] = "orig"
  BY DEF Init
<1> QED  BY <1>1, <1>2 DEF HandlerInv

LEMMA InvRight ==
  ASSUME SigInv, HandlerInv
  PROVE  HandlersRight
<1>1. ASSUME NEW s \in Sig
      PROVE  /\ (\E b \in Base : list[b][s] # {}) => handler[s] = "evsig"
             /\ (\A b \in Base : ~Watched(b, s)) => handler[s] = "orig" \/ s \in left
  <2>1. \A b \in Base : (list[b][s] # {} => Saves(b, s)) /\ (Saves(b, s) => Watched(b, s))
    BY DEF Saves, Watched, Locked, At
  <2>2. handler[s] \in {"orig", "evsig"}
    BY DEF SigInv, TypeOK
  <2> QED  BY <2>1, <2>2 DEF HandlerInv
<1> QED  BY <1>1 DEF SigInv, CountInv, HandlersRight

\* When the events of each signal are in one base: a signal with events has
\* libevent's handler, one without has the disposition it had before unless a
\* failing evsig_add left the handler, and each base counts its signals right,
\* also when a handler could not be set.
THEOREM HandlersRightHolds ==
  ASSUME OneHome
  PROVE  Spec => []HandlersRight
<1>1. Init => SigInv /\ HandlerInv
  BY SigInit, HandlerInit
<1>2. SigInv /\ HandlerInv /\ [Next]_vars => SigInv' /\ HandlerInv'
  BY SigStep, HandlerStep
<1>3. SigInv /\ HandlerInv => HandlersRight
  BY InvRight
<1> QED  BY <1>1, <1>2, <1>3, PTL DEF Spec

-------------------------------------------------------------------------------
\* All signal events are in one base.
OneBaseOnly == \A e, f \in Event : EvBase[e] = EvBase[f]

LEMMA SlotInit == Init => SlotInv
<1> SUFFICES ASSUME Init
             PROVE  SlotInv
  OBVIOUS
<1>1. /\ \A b \in Base : /\ pair[b] = <<>> /\ caught[b] = {} /\ ~Locked(b)
                         /\ \A s \in Sig : list[b][s] = {}
      /\ \A s \in Sig : handler[s] # "evsig"
      /\ ~crashed /\ evsig_base = NoBase
  BY DEF Init, Locked, NoOp
<1> QED  BY <1>1 DEF SlotInv, ToSet

\* A step that adds no signal to a pair or a call, sets no handler and takes no
\* entry from a map.
LEMMA SlotKept ==
  ASSUME SlotInv, ~crashed', evsig_base' \in {evsig_base, NoBase},
         \A b \in Base : /\ slots[b] \subseteq slots'[b]
                         /\ ToSet(pair'[b]) \cup caught'[b] \subseteq ToSet(pair[b]) \cup caught[b]
                         /\ Locked(b)' => Locked(b) /\ op'[b].e = op[b].e
                         /\ \A s \in Sig : list'[b][s] # {} => list[b][s] # {} \/ s \in slots'[b],
         alive' \subseteq alive,
         \A s \in Sig : handler'[s] = "evsig" =>
           \/ handler[s] = "evsig"
           \/ \A e \in Event : EvBase[e] \in alive' => s \in slots'[EvBase[e]]
  PROVE  SlotInv'
BY EvsignalAssumption DEF SlotInv

LEMMA SlotStep ==
  ASSUME SigInv, OneBaseOnly, HandlerInv, SlotInv, [Next]_vars
  PROVE  SlotInv'
<1>0. /\ TypeOK /\ LockInv /\ slots \in [Base -> SUBSET Sig] /\ op \in [Base -> Ops]
      /\ handler \in [Sig -> {"orig", "evsig"}] /\ caught \in [Base -> SUBSET Sig]
      /\ pair \in [Base -> Seq(Sig)] /\ evsig_base \in alive \cup {NoBase}
      /\ list \in [Base -> [Sig -> SUBSET Event]]
  BY TypeParts DEF SigInv, TypeOK, MapTypes
<1>1. CASE UNCHANGED <<handler, evsig_base, pair, op, list, caught, alive, slots, crashed>>
  BY <1>1, SlotKept DEF SlotInv, Locked
<1>2. ASSUME NEW e \in Event, evmap_signal_add(e)  PROVE SlotInv'
  <2> DEFINE b == EvBase[e]
             s == EvSig[e]
             o == [pc |-> "set_handler", e |-> e]
  <2>1. /\ b \in Base /\ s \in Sig /\ op[b].pc = "none" /\ EvBase[e] = b /\ EvSig[e] = s
        /\ o.pc = "set_handler" /\ o.e = e
        /\ slots' = [slots EXCEPT ![b] = slots[b] \cup {s}]
        /\ op' = op \/ op' = [op EXCEPT ![b] = o]
        /\ evsig_base' \in {evsig_base, b}
        /\ UNCHANGED <<handler, pair, caught, alive, crashed>>
    BY <1>2, EvsignalAssumption DEF evmap_signal_add, May, Locked, evsigVars
  <2> HIDE DEF b, s, o
  <2>2. \A x \in Base : /\ slots'[x] = IF x = b THEN slots[b] \cup {s} ELSE slots[x]
                        /\ Locked(x)' => \/ Locked(x) /\ op'[x].e = op[x].e
                                         \/ x = b /\ op'[x].e = e
    BY <1>0, <2>1 DEF Locked
  <2>3. \A x \in Base : slots[x] \subseteq slots'[x]
    BY <2>2
  <2>4. \A x \in Base : Locked(x)' => EvSig[op'[x].e] \in slots'[x]
    BY <2>1, <2>2, <2>3 DEF SlotInv
  <2>5. evsig_base' # NoBase => \E f \in Event : EvBase[f] = evsig_base'
    BY <2>1 DEF SlotInv
  <2>6. \A f \in Event, r \in Sig :
          EvBase[f] \in alive' /\ handler'[r] = "evsig" => r \in slots'[EvBase[f]]
    BY <2>1, <2>3, EvsignalAssumption DEF SlotInv
  <2>7. \A x \in Base, r \in Sig : list'[x][r] # {} => r \in slots'[x]
    <3>1. list' = list \/ list' = [list EXCEPT ![b] = [list[b] EXCEPT ![s] = list[b][s] \cup {e}]]
      BY <1>2 DEF evmap_signal_add, b, s
    <3>2. CASE list' = list
      BY <2>3, <3>2 DEF SlotInv
    <3>3. CASE list' = [list EXCEPT ![b] = [list[b] EXCEPT ![s] = list[b][s] \cup {e}]]
      <4>1. list[b][s] \cup {e} \in SUBSET Event
        BY <1>0, <2>1
      <4>2. \A x \in Base : \A r \in Sig :
              list'[x][r] = IF x = b /\ r = s THEN list[b][s] \cup {e} ELSE list[x][r]
        BY <1>0, <2>1, <3>3, <4>1, EntryChanged
      <4> QED  BY <2>2, <4>2 DEF SlotInv
    <3> QED  BY <3>1, <3>2, <3>3
  <2> QED  BY <2>1, <2>3, <2>4, <2>5, <2>6, <2>7 DEF SlotInv
<1>3. ASSUME NEW s \in Sig, evsig_handler(s)  PROVE SlotInv'
  <2> DEFINE b == evsig_base
  <2>1. /\ b \in Base /\ b \in alive /\ handler[s] = "evsig"
        /\ pair' = [pair EXCEPT ![b] = Append(pair[b], s)]
        /\ UNCHANGED <<handler, evsig_base, op, list, caught, alive, slots, crashed>>
    BY <1>0, <1>3 DEF evsig_handler, evsigVars, TypeOK
  <2>2. s \in slots[b]
    <3>1. PICK e \in Event : EvBase[e] = b
      BY <1>0, <2>1, EvsignalAssumption DEF SlotInv
    <3> QED  BY <2>1, <3>1 DEF SlotInv
  <2> HIDE DEF b
  <2>3. ToSet(Append(pair[b], s)) = ToSet(pair[b]) \cup {s}
    BY <1>0, <2>1, AppendElements
  <2>4. \A x \in Base : ToSet(pair'[x]) \cup caught'[x] \subseteq slots'[x]
    <3>1. \A x \in Base : pair'[x] = IF x = b THEN Append(pair[b], s) ELSE pair[x]
      BY <1>0, <2>1
    <3> QED  BY <2>1, <2>2, <2>3, <3>1 DEF SlotInv
  <2> QED  BY <2>1, <2>4 DEF SlotInv, Locked
<1>4. ASSUME NEW b \in Base, LockedStep(b)  PROVE SlotInv'
  <2> DEFINE s == EvSig[op[b].e]
  <2>1. /\ Locked(b) /\ op[b].e \in Event /\ EvBase[op[b].e] = b /\ s \in Sig
        /\ UNCHANGED <<evsig_base, pair, caught, alive, slots, crashed>>
    BY <1>0, <1>4, EvsignalAssumption
       DEF LockedStep, evsig_add_fails, _evsig_set_handler, InsertSignal, _evsig_restore_handler,
           LockInv, Locked, At, evsigVars
  <2>2. \A e \in Event : EvBase[e] = b
    BY <2>1 DEF OneBaseOnly
  <2>3. s \in slots[b]
    BY <2>1 DEF SlotInv
  <2>4. \A r \in Sig : r # s => handler'[r] = handler[r]
    BY <1>0, <1>4, <2>1
       DEF LockedStep, evsig_add_fails, _evsig_set_handler, InsertSignal, _evsig_restore_handler
  <2>5. \A x \in Base : Locked(x)' => Locked(x) /\ op'[x].e = op[x].e
    <3>1. op' = [op EXCEPT ![b] = NoOp] \/ op' = [op EXCEPT ![b] = [op[b] EXCEPT !.pc = "insert"]]
      BY <1>4 DEF LockedStep, evsig_add_fails, _evsig_set_handler, InsertSignal, _evsig_restore_handler
    <3>2. \A x \in Base : x # b => op'[x] = op[x]
      BY <1>0, <3>1
    <3>3. op'[b] = NoOp \/ op'[b] = [op[b] EXCEPT !.pc = "insert"]
      BY <1>0, <3>1
    <3>4. ~(op'[b].pc # "none") \/ op'[b].e = op[b].e
      BY <1>0, <2>1, <3>3, OpsFacts
    <3> QED  BY <2>1, <3>2, <3>4 DEF Locked
  <2> HIDE DEF s
  <2>6. \A x \in Base : \A r \in Sig : list'[x][r] # {} => list[x][r] # {} \/ r \in slots'[x]
    <3>1. \A x \in Base : \A r \in Sig : x # b \/ r # s => list'[x][r] = list[x][r]
      BY <1>0, <1>4, <2>1
         DEF LockedStep, evsig_add_fails, _evsig_set_handler, InsertSignal, _evsig_restore_handler, s
    <3> QED  BY <2>1, <2>3, <3>1
  <2> QED  BY <2>1, <2>2, <2>3, <2>4, <2>5, <2>6, SlotKept DEF SlotInv
<1>5. ASSUME NEW b \in Base, evsig_cb(b)  PROVE SlotInv'
  <2>1. /\ caught' = [caught EXCEPT ![b] = ToSet(pair[b])]
        /\ pair' = [pair EXCEPT ![b] = <<>>]
        /\ UNCHANGED <<handler, evsig_base, op, list, alive, slots, crashed>>
    BY <1>5 DEF evsig_cb, evsigVars
  <2>2. \A x \in Base : ToSet(pair'[x]) \cup caught'[x] \subseteq ToSet(pair[x]) \cup caught[x]
    <3>1. ToSet(<<>>) = {}
      BY DEF ToSet
    <3> QED  BY <1>0, <2>1, <3>1
  <2> QED  BY <2>1, <2>2, SlotKept DEF SlotInv, Locked
<1>6. ASSUME NEW b \in Base, evmap_signal_active(b)  PROVE SlotInv'
  <2>1. caught[b] \subseteq slots[b]
    BY DEF SlotInv
  <2>2. /\ caught' = [caught EXCEPT ![b] = {}]
        /\ UNCHANGED <<handler, evsig_base, pair, op, list, alive, slots, crashed>>
    BY <1>6, <2>1 DEF evmap_signal_active, evsigVars
  <2>3. \A x \in Base : caught'[x] \subseteq caught[x]
    BY <1>0, <2>2
  <2> QED  BY <2>2, <2>3, SlotKept DEF SlotInv, Locked
<1>7. ASSUME NEW b \in Base, evsig_set_base(b)  PROVE SlotInv'
  <2>1. /\ UNCHANGED <<handler, pair, op, list, caught, alive, slots, crashed>> /\ evsig_base' = b
        /\ b \in alive /\ b \in signal_added /\ n_signals_added[b] > 0 /\ ~Locked(b)
    BY <1>7 DEF evsig_set_base, May
  <2>2. \E e \in Event : EvBase[e] = b
    <3>1. CountAt(b) /\ UnderWay(b) = 0
      BY <1>0, <2>1, CountIs, UnderWayIs DEF SigInv, Locked
    <3>2. {t \in Sig : list[b][t] # {}} # {}
      <4> DEFINE W == {t \in Sig : list[b][t] # {}}
      <4>1. IsFiniteSet(W) /\ n_signals_added[b] = Cardinality(W) + 0
        BY <3>1 DEF CountAt
      <4> HIDE DEF W
      <4>2. W # {}
        BY <2>1, <4>1, FS_EmptySet, FS_CardinalityType
      <4> QED  BY <4>2 DEF W
    <3>3. PICK t \in Sig : list[b][t] # {}
      BY <3>2
    <3>4. PICK e \in list[b][t] : TRUE
      BY <3>3
    <3> QED  BY <1>0, <3>4 DEF SigInv, ListInv, TypeOK
  <2> QED  BY <2>1, <2>2 DEF SlotInv, Locked
<1>8. ASSUME NEW b \in Base, evsig_dealloc(b)  PROVE SlotInv'
  <2>1. /\ alive' = alive \ {b} /\ slots' = [slots EXCEPT ![b] = {}]
        /\ pair' = [pair EXCEPT ![b] = <<>>] /\ caught[b] = {}
        /\ evsig_base' \in {evsig_base, NoBase} /\ ~Locked(b)
        /\ UNCHANGED <<op, list, caught, crashed>> /\ \A s \in Sig : list[b][s] = {}
    BY <1>8 DEF evsig_dealloc, May
  <2>2. \A x \in Base : ToSet(pair'[x]) \cup caught'[x] \subseteq slots'[x]
    <3>1. ToSet(<<>>) = {}
      BY DEF ToSet
    <3> QED  BY <1>0, <2>1, <3>1 DEF SlotInv
  <2>3. \A x \in Base : Locked(x)' => EvSig[op'[x].e] \in slots'[x]
    BY <1>0, <2>1 DEF SlotInv, Locked
  <2>4. \A e \in Event, s \in Sig :
          EvBase[e] \in alive' /\ handler'[s] = "evsig" => s \in slots'[EvBase[e]]
    <3> SUFFICES ASSUME NEW e \in Event, NEW s \in Sig, EvBase[e] \in alive', handler'[s] = "evsig"
                 PROVE  s \in slots'[EvBase[e]]
      OBVIOUS
    <3>1. EvBase[e] # b /\ EvBase[e] \in alive
      BY <2>1
    <3>2. \A f \in Event : EvBase[f] # b
      BY <3>1 DEF OneBaseOnly
    <3>3. sh_old[b][s] = "none"
      BY <3>2 DEF HandlerInv
    <3>4. handler[s] = "evsig"
      BY <1>8, <3>3 DEF evsig_dealloc
    <3>5. slots'[EvBase[e]] = slots[EvBase[e]]
      BY <1>0, <2>1, <3>1, EvsignalAssumption
    <3> QED  BY <3>1, <3>4, <3>5 DEF SlotInv
  <2>5. \A x \in Base, s \in Sig : list'[x][s] # {} => s \in slots'[x]
    BY <1>0, <2>1 DEF SlotInv
  <2> QED  BY <2>1, <2>2, <2>3, <2>4, <2>5 DEF SlotInv
<1>9. ASSUME NEW e \in Event, evmap_signal_del(e)  PROVE SlotInv'
  <2> DEFINE b == EvBase[e]
             s == EvSig[e]
  <2>1. /\ b \in Base /\ b \in alive /\ list[b][s] # {}
        /\ op' = op \/ op' = [op EXCEPT ![b] = [pc |-> "restore", e |-> e]]
        /\ list' = list \/ list' = [list EXCEPT ![b] = [list[b] EXCEPT ![s] = list[b][s] \ {e}]]
        /\ UNCHANGED <<handler, evsig_base, pair, caught, alive, slots, crashed>>
    BY <1>9, EvsignalAssumption DEF evmap_signal_del, May
  <2>2. s \in slots[b]
    BY <2>1, EvsignalAssumption DEF SlotInv
  <2>3. \A x \in Base : Locked(x)' => (Locked(x) /\ op'[x].e = op[x].e) \/ EvSig[op'[x].e] \in slots[x]
    <3>1. [pc |-> "restore", e |-> e].e = e
      OBVIOUS
    <3> QED  BY <1>0, <2>1, <2>2, <3>1 DEF Locked
  <2> HIDE DEF b, s
  <2>4. \A x \in Base : \A r \in Sig : list'[x][r] # {} => list[x][r] # {} \/ r \in slots'[x]
    <3>1. CASE list' = list
      BY <3>1
    <3>2. CASE list' = [list EXCEPT ![b] = [list[b] EXCEPT ![s] = list[b][s] \ {e}]]
      <4>1. s \in Sig /\ list[b][s] \ {e} \in SUBSET Event
        BY <1>0, <2>1, EvsignalAssumption DEF s
      <4> QED  BY <1>0, <2>1, <3>2, <4>1, EntryChanged
    <3> QED  BY <2>1, <3>1, <3>2
  <2> QED  BY <2>1, <2>3, <2>4 DEF SlotInv
<1> QED
  <2>1. CASE UNCHANGED vars
    BY <1>1, <2>1 DEF vars
  <2>2. CASE \E e \in Event : RunCallback(e)
    BY <1>1, <2>2 DEF RunCallback, evsigVars
  <2> QED  BY <1>2, <1>3, <1>4, <1>5, <1>6, <1>7, <1>8, <1>9, <2>1, <2>2 DEF Next, LoopStep

\* No base reads the number of a signal for which its map has no entry, where
\* evmap_signal_active ends the process, as long as all signal events of the
\* process are in one base: whatever signals there are, also when events were
\* deleted or an evsig_add failed in the meantime.
THEOREM NoNullSlotHolds ==
  ASSUME OneBaseOnly
  PROVE  Spec => []NoNullSlot
<1>1. Init => SigInv /\ HandlerInv /\ SlotInv
  BY SigInit, HandlerInit, SlotInit
<1>2. SigInv /\ HandlerInv /\ SlotInv /\ [Next]_vars => SigInv' /\ HandlerInv' /\ SlotInv'
  <2>1. OneHome
    BY DEF OneHome, OneBaseOnly
  <2> QED  BY <2>1, SigStep, HandlerStep, SlotStep
<1>3. SlotInv => NoNullSlot
  BY DEF SlotInv, NoNullSlot
<1> QED  BY <1>1, <1>2, <1>3, PTL DEF Spec
===============================================================================
