------------------------------- MODULE Evsignal -------------------------------
(***************************************************************************)
(* Signal events (signal.c, and the signal half of evmap.c).  A process    *)
(* has one set of signal handlers; the handler writes the number of the    *)
(* signal to the socket pair of the base that evsig_base names, and that   *)
(* base's loop reads the pair and activates the events of the signal.      *)
(*                                                                         *)
(* A signal can arrive between any two steps.  The calls that add and      *)
(* delete events hold the base's lock, which evsig_cb takes before it      *)
(* activates events.  Events are persistent.                               *)
(*                                                                         *)
(* A base that reads the number of a signal for which it never had an      *)
(* event ends the process (evmap_signal_active): nothing happens then.     *)
(***************************************************************************)
EXTENDS Integers, Sequences, FiniteSets, SequencesExt

CONSTANTS
  Base, NoBase,
  Event, NoEvent,
  Sig,
  EvSig,     \* EvSig[e]: the signal of event e
  EvBase,    \* EvBase[e]: the base it is added to
  PairSize,  \* bytes a socket pair holds
  Failing    \* bound: the bases whose pair's own event may fail to be added

ASSUME EvsignalAssumption ==
  /\ NoBase \notin Base /\ NoEvent \notin Event
  /\ EvSig \in [Event -> Sig] /\ EvBase \in [Event -> Base]
  /\ PairSize \in Nat /\ Failing \subseteq Base

VARIABLES
  handler,     \* handler[s]: the process's disposition of s
  evsig_base,
  evsig_base_n_signals_added,
  n_signals_added,  \* sig.ev_n_signals_added of each base
  signal_added,     \* bases with sig.ev_signal_added
  sh_old,      \* sh_old[b][s]: the saved disposition, or "none"
  pair,        \* pair[b]: bytes in the socket pair
  list,        \* list[b][s]: the events of s in b's signal map
  op,          \* op[b]: the add or delete that holds b's lock
  caught,      \* caught[b]: ncaught of a running evsig_cb, or {}
  active,      \* events that are active
  alive,       \* bases that exist
  owed,        \* events with a signal sent and no callback begun since
  slots,       \* slots[b]: the signals with an entry in b's signal map
  left,        \* signals whose handler a failing evsig_add left in place
  crashed      \* evmap_signal_active met a signal without an entry

vars == <<handler, evsig_base, evsig_base_n_signals_added, n_signals_added,
          signal_added, sh_old, pair, list, op, caught, active, alive, owed,
          slots, left, crashed>>

evsigVars == <<evsig_base, evsig_base_n_signals_added, n_signals_added>>

NoOp == [pc |-> "none", e |-> NoEvent]

Init ==
  /\ handler = [s \in Sig |-> "orig"]
  /\ evsig_base = NoBase /\ evsig_base_n_signals_added = 0
  /\ n_signals_added = [b \in Base |-> 0]
  /\ signal_added = {}
  /\ sh_old = [b \in Base |-> [s \in Sig |-> "none"]]
  /\ pair = [b \in Base |-> <<>>]
  /\ list = [b \in Base |-> [s \in Sig |-> {}]]
  /\ op = [b \in Base |-> NoOp]
  /\ caught = [b \in Base |-> {}]
  /\ active = {} /\ owed = {}
  /\ alive = Base
  /\ slots = [b \in Base |-> {}] /\ left = {} /\ crashed = FALSE

-------------------------------------------------------------------------------
Locked(b) == op[b].pc # "none"
May(b) == ~crashed /\ b \in alive /\ ~Locked(b)
At(b, where) == op[b].pc = where

\* event_add of a signal event: the signal gets its entry in the map; only the
\* first event of a signal in a base needs evsig_add, whose first step directs
\* signals to this base.
evmap_signal_add(e) ==
  LET b == EvBase[e]
      s == EvSig[e]
  IN  /\ May(b) /\ e \notin list[b][s]
      /\ IF list[b][s] # {}
           THEN /\ list' = [list EXCEPT ![b][s] = @ \cup {e}]
                /\ UNCHANGED <<op, evsigVars>>
           ELSE /\ evsig_base' = b
                /\ n_signals_added' = [n_signals_added EXCEPT ![b] = @ + 1]
                /\ evsig_base_n_signals_added' = n_signals_added[b] + 1
                /\ op' = [op EXCEPT ![b] = [pc |-> "set_handler", e |-> e]]
                /\ UNCHANGED list
      /\ slots' = [slots EXCEPT ![b] = @ \cup {s}]
      /\ UNCHANGED <<handler, signal_added, sh_old, pair, caught, active, alive, owed,
                     left, crashed>>

\* The error path of evsig_add: _evsig_set_handler fails, for want of memory or
\* because the signal cannot be caught, or the pair's own event cannot be added,
\* and the handler that was set stays.
evsig_add_fails(b) ==
  LET s == EvSig[op[b].e]
  IN  /\ \/ /\ At(b, "set_handler")
            /\ sh_old' = [sh_old EXCEPT ![b][s] = "none"]
            /\ UNCHANGED left
         \/ /\ At(b, "insert") /\ b \in Failing \ signal_added
            /\ left' = left \cup {s}
            /\ UNCHANGED sh_old
      /\ evsig_base_n_signals_added' = evsig_base_n_signals_added - 1
      /\ n_signals_added' = [n_signals_added EXCEPT ![b] = @ - 1]
      /\ op' = [op EXCEPT ![b] = NoOp]
      /\ UNCHANGED <<handler, evsig_base, signal_added, pair, list, caught, active, alive,
                     owed, slots, crashed>>

_evsig_set_handler(b) ==
  LET s == EvSig[op[b].e]
  IN  /\ At(b, "set_handler")
      /\ sh_old' = [sh_old EXCEPT ![b][s] = handler[s]]
      /\ handler' = [handler EXCEPT ![s] = "evsig"]
      /\ op' = [op EXCEPT ![b].pc = "insert"]
      /\ UNCHANGED <<evsigVars, signal_added, pair, list, caught, active, alive, owed,
                     slots, left, crashed>>

\* Mutant of InsertSignal: the pair's own event is not added.
InsertNoSignal(b) ==
  LET e == op[b].e
  IN  /\ At(b, "insert")
      /\ list' = [list EXCEPT ![b][EvSig[e]] = @ \cup {e}]
      /\ op' = [op EXCEPT ![b] = NoOp]
      /\ UNCHANGED <<handler, evsigVars, signal_added, sh_old, pair, caught, active, alive,
                     owed, slots, left, crashed>>

\* The rest of evsig_add, and of evmap_signal_add.
InsertSignal(b) ==
  LET e == op[b].e
  IN  /\ At(b, "insert")
      /\ signal_added' = signal_added \cup {b}
      /\ list' = [list EXCEPT ![b][EvSig[e]] = @ \cup {e}]
      /\ op' = [op EXCEPT ![b] = NoOp]
      /\ UNCHANGED <<handler, evsigVars, sh_old, pair, caught, active, alive, owed, slots,
                     left, crashed>>

\* event_del takes the event from the active queue; the last event of the
\* signal goes through evsig_del.
evmap_signal_del(e) ==
  LET b == EvBase[e]
      s == EvSig[e]
  IN  /\ May(b) /\ e \in list[b][s]
      /\ active' = active \ {e} /\ owed' = owed \ {e}
      /\ IF list[b][s] = {e}
           THEN /\ evsig_base_n_signals_added' = evsig_base_n_signals_added - 1
                /\ n_signals_added' = [n_signals_added EXCEPT ![b] = @ - 1]
                /\ op' = [op EXCEPT ![b] = [pc |-> "restore", e |-> e]]
                /\ UNCHANGED list
           ELSE /\ list' = [list EXCEPT ![b][s] = @ \ {e}]
                /\ UNCHANGED <<op, evsig_base_n_signals_added, n_signals_added>>
      /\ UNCHANGED <<handler, evsig_base, signal_added, sh_old, pair, caught, alive, slots,
                     left, crashed>>

\* Mutant of _evsig_restore_handler: the handler is left in place.
RestoreNothing(b) ==
  LET s == EvSig[op[b].e]
  IN  /\ At(b, "restore")
      /\ sh_old' = [sh_old EXCEPT ![b][s] = "none"]
      /\ list' = [list EXCEPT ![b][s] = {}]
      /\ op' = [op EXCEPT ![b] = NoOp]
      /\ UNCHANGED <<handler, evsigVars, signal_added, pair, caught, active, alive, owed,
                     slots, left, crashed>>

_evsig_restore_handler(b) ==
  LET s == EvSig[op[b].e]
  IN  /\ At(b, "restore")
      /\ handler' = [handler EXCEPT ![s] = sh_old[b][s]]
      /\ sh_old' = [sh_old EXCEPT ![b][s] = "none"]
      /\ list' = [list EXCEPT ![b][s] = {}]
      /\ op' = [op EXCEPT ![b] = NoOp]
      /\ UNCHANGED <<evsigVars, signal_added, pair, caught, active, alive, owed, slots,
                     left, crashed>>

-------------------------------------------------------------------------------
\* The events that a signal sent to b's pair is to reach.
Reached(b, s) == {e \in list[b][s] : ~(At(b, "restore") /\ op[b].e = e)}

\* A signal arrives.  If the pair is full the send fails and nobody is told.
evsig_handler(s) ==
  LET b == evsig_base
  IN  /\ ~crashed /\ handler[s] = "evsig"
      /\ b # NoBase
      /\ Len(pair[b]) < PairSize
      /\ pair' = [pair EXCEPT ![b] = Append(@, s)]
      /\ owed' = owed \cup Reached(b, s)
      /\ UNCHANGED <<handler, evsigVars, signal_added, sh_old, list, op, caught, active, alive,
                     slots, left, crashed>>

\* evsig_cb reads all there is without the lock, in the loop of b ...
evsig_cb(b) ==
  /\ ~crashed /\ b \in signal_added /\ caught[b] = {} /\ pair[b] # <<>>
  /\ caught' = [caught EXCEPT ![b] = ToSet(pair[b])]
  /\ pair' = [pair EXCEPT ![b] = <<>>]
  /\ UNCHANGED <<handler, evsigVars, signal_added, sh_old, list, op, active, alive, owed,
                 slots, left, crashed>>

\* Mutant of evmap_signal_active: only one event of each signal is activated.
ActivateFirst(b) ==
  /\ ~crashed /\ caught[b] # {} /\ ~Locked(b)
  /\ IF caught[b] \subseteq slots[b]
       THEN /\ active' = active \cup {CHOOSE e \in list[b][s] : TRUE :
                                       s \in {x \in caught[b] : list[b][x] # {}}}
            /\ caught' = [caught EXCEPT ![b] = {}]
            /\ UNCHANGED crashed
       ELSE crashed' = TRUE /\ UNCHANGED <<active, caught>>
  /\ UNCHANGED <<handler, evsigVars, signal_added, sh_old, pair, list, op, alive, owed,
                 slots, left>>

\* ... and then activates the events of the signals it read.  One that has no entry
\* in the base's map fails the assertion on its number, or is a null pointer.
evmap_signal_active(b) ==
  /\ ~crashed /\ caught[b] # {} /\ ~Locked(b)
  /\ IF caught[b] \subseteq slots[b]
       THEN /\ active' = active \cup UNION {list[b][s] : s \in caught[b]}
            /\ caught' = [caught EXCEPT ![b] = {}]
            /\ UNCHANGED crashed
       ELSE crashed' = TRUE /\ UNCHANGED <<active, caught>>
  /\ UNCHANGED <<handler, evsigVars, signal_added, sh_old, pair, list, op, alive, owed,
                 slots, left>>

\* The loop takes an active event and calls its callback.
RunCallback(e) ==
  /\ ~crashed /\ e \in active /\ ~Locked(EvBase[e]) /\ caught[EvBase[e]] = {}
  /\ active' = active \ {e}
  /\ owed' = owed \ {e}
  /\ UNCHANGED <<handler, evsigVars, signal_added, sh_old, pair, list, op, caught, alive,
                 slots, left, crashed>>

\* event_base_loop of a base with signals directs signals to it.
evsig_set_base(b) ==
  /\ May(b) /\ b \in signal_added /\ n_signals_added[b] > 0
  /\ evsig_base' = b
  /\ evsig_base_n_signals_added' = n_signals_added[b]
  /\ UNCHANGED <<handler, n_signals_added, signal_added, sh_old, pair, list, op,
                 caught, active, alive, owed, slots, left, crashed>>

\* event_base_free, once it has deleted the events: no loop of b runs.  The
\* handlers that are still saved are restored, and the map is cleared.
evsig_dealloc(b) ==
  /\ May(b) /\ \A s \in Sig : list[b][s] = {}
  /\ caught[b] = {}
  /\ alive' = alive \ {b}
  /\ signal_added' = signal_added \ {b}
  /\ handler' = [s \in Sig |-> IF sh_old[b][s] = "none" THEN handler[s] ELSE sh_old[b][s]]
  /\ sh_old' = [sh_old EXCEPT ![b] = [s \in Sig |-> "none"]]
  /\ pair' = [pair EXCEPT ![b] = <<>>]
  /\ IF evsig_base = b
       THEN evsig_base' = NoBase /\ evsig_base_n_signals_added' = 0
       ELSE UNCHANGED <<evsig_base, evsig_base_n_signals_added>>
  /\ slots' = [slots EXCEPT ![b] = {}]
  /\ UNCHANGED <<n_signals_added, list, op, caught, active, owed, left, crashed>>

LockedStep(b) ==
  /\ ~crashed
  /\ \/ evsig_add_fails(b) \/ _evsig_set_handler(b)
     \/ InsertSignal(b) \/ _evsig_restore_handler(b)

LoopStep(b) == \/ evsig_cb(b) \/ evmap_signal_active(b)
               \/ \E e \in Event : EvBase[e] = b /\ RunCallback(e)

Next ==
  \/ \E e \in Event : evmap_signal_add(e) \/ evmap_signal_del(e)
  \/ \E s \in Sig : evsig_handler(s)
  \/ \E b \in Base : LockedStep(b) \/ LoopStep(b) \/ evsig_set_base(b) \/ evsig_dealloc(b)

Spec == Init /\ [][Next]_vars

\* A call that holds the lock comes to its end, and the loop runs.  Whether a
\* signal arrives or a call is made is up to others; those that keep taking
\* the lock do not keep the loop from getting it for ever.
Fairness == /\ \A b \in Base : /\ WF_vars(LockedStep(b))
                               /\ WF_vars(evsig_cb(b))
                               /\ SF_vars(evmap_signal_active(b))
            /\ \A e \in Event : SF_vars(RunCallback(e))
FairSpec == Spec /\ Fairness

-------------------------------------------------------------------------------
MapTypes == slots \in [Base -> SUBSET Sig] /\ left \subseteq Sig /\ crashed \in BOOLEAN

\* The types of the state: handlers, the socket pair of each base with at most
\* PairSize signals in it, the lists of the signal map and the step under way.
TypeOK ==
  /\ handler \in [Sig -> {"orig", "evsig"}]
  /\ evsig_base \in alive \cup {NoBase}
  /\ evsig_base_n_signals_added \in Int
  /\ n_signals_added \in [Base -> Nat]
  /\ signal_added \subseteq alive
  /\ sh_old \in [Base -> [Sig -> {"none", "orig", "evsig"}]]
  /\ pair \in [Base -> Seq(Sig)]
  /\ list \in [Base -> [Sig -> SUBSET Event]]
  /\ op \in [Base -> [pc : {"none", "set_handler", "insert", "restore"},
                      e : Event \cup {NoEvent}]]
  /\ caught \in [Base -> SUBSET Sig]
  /\ active \subseteq Event /\ owed \subseteq Event /\ alive \subseteq Base
  /\ MapTypes

Watched(b, s) == list[b][s] # {} \/ (Locked(b) /\ EvSig[op[b].e] = s)

\* What the call that holds b's lock has counted and not listed yet.
UnderWay(b) == CASE At(b, "set_handler") \/ At(b, "insert") -> 1
                 [] At(b, "restore") -> -1
                 [] OTHER -> 0

\* While a base has events for a signal its handler is installed, and when no
\* base has, the process has the disposition it had before libevent, unless an
\* evsig_add that failed after setting the handler left it in place.  The base
\* that the handler uses exists, and sig.ev_n_signals_added, on which
\* evsig_set_base and the end of the last signal depend, is the number of
\* signals with events in the base, also when a handler could not be set.
HandlersRight ==
  /\ TypeOK
  /\ \A s \in Sig :
       /\ (\E b \in Base : list[b][s] # {}) => handler[s] = "evsig"
       /\ (\A b \in Base : ~Watched(b, s)) => handler[s] = "orig" \/ s \in left
  /\ \A b \in Base :
       n_signals_added[b] = Cardinality({s \in Sig : list[b][s] # {}}) + UnderWay(b)

\* _evsig_set_handler, comment: the handler is saved "so that we can restore
\* the original handler when we clear the current one".
OriginalRestored ==
  \A s \in Sig : (\A b \in Base : ~Watched(b, s)) => handler[s] = "orig"

\* A signal sent to the pair is in the pair, or read, or its events are active,
\* until their callbacks begin or they are deleted.
SignalNotLost ==
  \A e \in owed : LET b == EvBase[e]
                  IN  \/ e \in active
                      \/ EvSig[e] \in ToSet(pair[b]) \cup caught[b]

\* Each of the events for a signal that was sent is called in the end, or
\* deleted, however often events are added and deleted and signals arrive, unless
\* the process ends because a base is given a signal it has no entry for.
SignalServed == \A e \in Event : e \in owed ~> e \notin owed \/ crashed

\* No base is given the number of a signal for which it has no entry.  It holds as
\* long as all signal events are in one base; with two bases the handler writes
\* every signal to the pair of the base used last, whose map may lack it.
NoNullSlot == ~crashed

-------------------------------------------------------------------------------
\* The inductive invariant, in parts.  A call that holds the lock of a base has an
\* event of that base, which exists: one that is added has no other event of its
\* signal beside it, one that is deleted is the last.
LockInv ==
  \A b \in Base : Locked(b) =>
    LET e == op[b].e
    IN  /\ b \in alive /\ e \in Event /\ EvBase[e] = b
        /\ At(b, "set_handler") \/ At(b, "insert") => list[b][EvSig[e]] = {}
        /\ At(b, "restore") => list[b][EvSig[e]] = {e}

\* The signal map lists events of the base and the signal; an event that a signal
\* is to reach is listed and not being deleted.
ListInv ==
  /\ \A b \in Base, s \in Sig : \A e \in list[b][s] : EvBase[e] = b /\ EvSig[e] = s
  /\ \A e \in owed : LET b == EvBase[e]
                     IN  e \in list[b][EvSig[e]] /\ (At(b, "restore") => op[b].e # e)

CountInv ==
  \A b \in Base :
    /\ IsFiniteSet({s \in Sig : list[b][s] # {}})
    /\ n_signals_added[b] = Cardinality({s \in Sig : list[b][s] # {}}) + UnderWay(b)

\* A base has saved a handler for the signals it has set its own for, and for no
\* others, but for those that a failing evsig_add left.
Saves(b, s) == list[b][s] # {} \/ (At(b, "insert") /\ EvSig[op[b].e] = s)
SavedInv ==
  \A b \in Base, s \in Sig :
    /\ Saves(b, s) => sh_old[b][s] # "none"
    /\ sh_old[b][s] # "none" => Saves(b, s) \/ s \in left

SigInv == TypeOK /\ LockInv /\ ListInv /\ CountInv /\ SavedInv /\ SignalNotLost

\* When the events of a signal are all in one base, the handler is set while it is
\* saved, by a base that has an event for the signal; what was saved is the
\* original, unless a failing evsig_add left a handler.
HandlerInv ==
  \A s \in Sig :
    /\ (\E b \in Base : Saves(b, s)) => handler[s] = "evsig"
    /\ \A b \in Base : sh_old[b][s] # "none" => \E e \in Event : EvBase[e] = b /\ EvSig[e] = s
    /\ s \notin left => /\ \A b \in Base : sh_old[b][s] # "evsig"
                        /\ handler[s] = "evsig" => \E b \in Base : Saves(b, s)

\* When all events are in one base: the signals on their way to a base have an
\* entry in its map, as have those that have events there or that a call is
\* about, and those whose handler is libevent's.
SlotInv ==
  /\ ~crashed
  /\ evsig_base # NoBase => \E e \in Event : EvBase[e] = evsig_base
  /\ \A b \in Base : /\ ToSet(pair[b]) \cup caught[b] \subseteq slots[b]
                     /\ Locked(b) => EvSig[op[b].e] \in slots[b]
                     /\ \A s \in Sig : list[b][s] # {} => s \in slots[b]
  /\ \A e \in Event, s \in Sig :
       EvBase[e] \in alive /\ handler[s] = "evsig" => s \in slots[EvBase[e]]
===============================================================================
