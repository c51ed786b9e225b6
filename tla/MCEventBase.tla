----------------------------- MODULE MCEventBase -----------------------------
(* Instances of EventBase for TLC: the events, and what programs do with them. *)
EXTENDS EventBase, TLC

CONSTANTS rd, tm, pt, sg, xt, q1, main, other

\* rd is a persistent read event, tm a timer, pt a persistent timer, sg a signal
\* and xt the timer of event_base_loopexit.
Kinds   == [e \in UserEvent |-> CASE e = rd -> {"READ"}
                                  [] e = sg -> {"SIGNAL"}
                                  [] OTHER  -> {}]
RdFirst == [e \in UserEvent |-> CASE e = rd -> 0
                                  [] e = xt -> NPrio \div 2
                                  [] OTHER  -> NPrio - 1]
OneUnit == [c \in CommonQueue |-> 1]

Use(events, calls, tvs, threads, flags, until) ==
  [events |-> events, calls |-> calls, tvs |-> tvs, threads |-> threads,
   flags |-> flags, until |-> until]

Both   == {main, other}
Basic  == {"add", "del", "active", "break"}
Plain  == {[d |-> x, c |-> NoQueue] : x \in Durations}
Common == {[d |-> Duration[c], c |-> c] : c \in CommonQueue}

\* Two threads with I/O and a timer; a common timeout queue; priorities and deferred
\* callbacks; virtual events and the ways to leave the loop; signals.
SafetyUses ==
  {Use({rd, tm}, Basic, Plain, Both, {{}}, 2),
   Use({rd, pt}, {"add", "del"}, Common, Both, {{}}, 3),
   Use({rd, tm}, {"add", "active", "defer", "priority", "break", "error"}, {}, {main}, {{}}, 1),
   Use({rd, tm}, {"add", "active", "exit", "virtual", "defer"},
       {}, {main}, {{}, {"ONCE"}, {"NONBLOCK"}}, 1),
   Use({sg}, Basic, Plain, Both, {{}}, 2)}

LiveUses ==
  {Use({rd, sg}, Basic, {}, Both, {{}}, 1),
   Use({rd}, {"defer", "active", "break"}, {}, Both, {{}}, 1)}

OneReader == {Use({rd}, Basic, {}, Both, {{}}, 1)}
OneSignal == {Use({sg}, Basic, {}, Both, {{}}, 1)}

\* event_active on a signal that is more important than the other events.
SgFirst    == [e \in UserEvent |-> IF e = sg THEN 0 ELSE NPrio - 1]
Activating == {Use({sg, tm, pt}, {"active"}, {}, Both, {{}}, 1)}
===============================================================================
