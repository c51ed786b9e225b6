--------------------------- MODULE EvdnsGetaddrinfo ---------------------------
(***************************************************************************)
(* evdns_getaddrinfo: up to two lookups for one name, one for IPv4 and one *)
(* for IPv6.  When the first is done, a short timer limits the wait for    *)
(* the other.  The user may cancel.                                        *)
(*                                                                         *)
(* Of a lookup, this module relies on what Evdns shows: its callback is    *)
(* made once, later, and canceling it does nothing once the callback is    *)
(* due.                                                                    *)
(***************************************************************************)
EXTENDS Integers, Sequences, FiniteSets

Family == {"v4", "v6"}
OtherOf(f) == IF f = "v4" THEN "v6" ELSE "v4"

VARIABLES
  sub,            \* sub[f]: "none", "running", "due" (its callback is), "done"
  result,         \* result[f]: what the callback that is due will be given
  pending_result, \* families whose addresses are kept
  pending_error,
  timeout,        \* the timer of the second lookup is pending
  user_canceled,
  request_done,
  user_cb,        \* FALSE once it was set to NULL
  data,           \* "unused", "used", "freed"; "null" when the handle of a lookup
                  \* that was not started is dereferenced, and the program ends
  told            \* what the user's callback was given, in order

\* r of a subrequest is not NULL.
Has(f) == sub[f] \in {"running", "due"}

Init ==
  /\ sub = [f \in Family |-> "none"] /\ result = [f \in Family |-> "none"]
  /\ pending_result = {} /\ pending_error = FALSE /\ timeout = FALSE
  /\ user_canceled = FALSE /\ request_done = FALSE /\ user_cb = TRUE
  /\ data = "unused" /\ told = <<>>

\* The name is numeric or in the hosts file, or there is no resolver: the user
\* is told at once.
AnswerAtOnce ==
  /\ data = "unused" /\ told = <<>> /\ told' = <<"at once">>
  /\ UNCHANGED <<sub, result, pending_result, pending_error, timeout, user_canceled,
                 request_done, user_cb, data>>

\* The families in "ask" are looked up; the lookups that cannot be started, for
\* a name that is too long, are not in "started".  Each is used nevertheless when
\* the canonical name is wanted.
evdns_getaddrinfo(ask, started, want_cname) ==
  LET null == want_cname /\ started # ask
  IN  /\ data = "unused" /\ told = <<>> /\ started \subseteq ask
      /\ sub' = [f \in Family |-> IF f \in started /\ ~null THEN "running" ELSE "none"]
      /\ IF null THEN data' = "null" /\ UNCHANGED told
         ELSE IF started = {} THEN told' = <<"fail">> /\ UNCHANGED data
         ELSE data' = "used" /\ UNCHANGED told
      /\ UNCHANGED <<result, pending_result, pending_error, timeout, user_canceled,
                     request_done, user_cb>>

\* The resolver has the outcome; the callback is deferred.
Resolved(f, how) ==
  /\ sub[f] = "running"
  /\ sub' = [sub EXCEPT ![f] = "due"] /\ result' = [result EXCEPT ![f] = how]
  /\ UNCHANGED <<pending_result, pending_error, timeout, user_canceled,
                 request_done, user_cb, data, told>>

\* evdns_cancel_request of some families.
CancelSubs(fs) ==
  LET live == {f \in fs : sub[f] = "running"}
  IN  /\ sub' = [f \in Family |-> IF f \in live THEN "due" ELSE sub[f]]
      /\ result' = [f \in Family |-> IF f \in live THEN "cancel" ELSE result[f]]

free_getaddrinfo_request ==
  /\ data' = "freed" /\ timeout' = FALSE /\ pending_result' = {}

\* Mutant of evdns_getaddrinfo_timeout_cb: the callback is not forgotten.
TimeoutKeepsCb ==
  /\ data = "used" /\ timeout
  /\ CancelSubs({f \in Family : Has(f)})
  /\ told' = Append(told, IF pending_result # {} THEN "ok" ELSE "error")
  /\ timeout' = FALSE /\ pending_result' = {}
  /\ UNCHANGED <<pending_error, user_canceled, request_done, data, user_cb>>

\* The second lookup took too long: the user is told of the first.
evdns_getaddrinfo_timeout_cb ==
  LET late == {f \in Family : Has(f)}
  IN  /\ data = "used" /\ timeout
      /\ CancelSubs(late)
      /\ told' = Append(told, IF pending_result # {} THEN "ok" ELSE "error")
      /\ user_cb' = FALSE
      /\ IF late = {} THEN free_getaddrinfo_request
                      ELSE timeout' = FALSE /\ pending_result' = {} /\ UNCHANGED data
      /\ UNCHANGED <<pending_error, user_canceled, request_done>>

\* The user has the given answer, and the request is freed.
Report(what) == told' = Append(told, what) /\ free_getaddrinfo_request

\* The rest of the callback, for a user who was not told yet.
gotresolve_outcome(f, err) ==
  IF Has(OtherOf(f))
    THEN /\ timeout' = (timeout \/ err \/ ~user_canceled)
         /\ pending_error' = (pending_error \/ err)
         /\ pending_result' = IF err \/ user_canceled THEN pending_result ELSE {f}
         /\ UNCHANGED <<data, told>>
    ELSE /\ IF user_canceled THEN Report("canceled")
            ELSE IF ~err \/ pending_result # {} THEN Report("ok") ELSE Report("error")
         /\ UNCHANGED pending_error

\* The deferred callback of a lookup.
evdns_getaddrinfo_gotresolve(f) ==
  LET alone == ~Has(OtherOf(f))
      how == result[f]
  IN  /\ sub[f] = "due"
      /\ sub' = [sub EXCEPT ![f] = "done"] /\ result' = [result EXCEPT ![f] = "none"]
      /\ request_done' = (request_done \/ alone)
      /\ IF how = "cancel" /\ ~user_canceled
           THEN /\ IF alone THEN free_getaddrinfo_request
                            ELSE UNCHANGED <<data, timeout, pending_result>>
                /\ UNCHANGED <<pending_error, told>>
         ELSE IF ~user_cb
           THEN free_getaddrinfo_request /\ UNCHANGED <<pending_error, told>>
         ELSE gotresolve_outcome(f, how # "answer")
      /\ UNCHANGED <<user_canceled, user_cb>>

\* The user cancels; he has not been told yet.
evdns_getaddrinfo_cancel ==
  /\ data = "used" /\ ~request_done /\ told = <<>>
  /\ timeout' = FALSE /\ user_canceled' = TRUE
  /\ CancelSubs({f \in Family : Has(f)})
  /\ UNCHANGED <<pending_result, pending_error, request_done, user_cb, data, told>>

Next ==
  \/ AnswerAtOnce
  \/ \E ask \in SUBSET Family \ {{}}, started \in SUBSET Family, want_cname \in BOOLEAN :
       evdns_getaddrinfo(ask, started, want_cname)
  \/ \E f \in Family : \/ \E how \in {"answer", "error"} : Resolved(f, how)
                       \/ evdns_getaddrinfo_gotresolve(f)
  \/ evdns_getaddrinfo_timeout_cb
  \/ evdns_getaddrinfo_cancel

\* A lookup ends, or a callback that is due is run.
Progress ==
  \E f \in Family : \/ \E how \in {"answer", "error"} : Resolved(f, how)
                    \/ evdns_getaddrinfo_gotresolve(f)
-------------------------------------------------------------------------------
\* The user's callback is made exactly once before the request is freed, whichever
\* of the timer, the lookups and the user comes first, and not with addresses if
\* he had canceled.  The request is not freed while a lookup would still call back
\* into it or its timer is pending (free_getaddrinfo_request), and when the timer
\* runs at most one lookup is late (evdns_getaddrinfo_timeout_cb).
GaiToldOnce ==
  /\ Len(told) <= 1
  /\ data = "freed" => /\ Len(told) = 1 /\ (user_canceled => told # <<"ok">>)
                       /\ ~timeout /\ \A f \in Family : ~Has(f)
  /\ data = "used" /\ timeout => \E f \in Family : ~Has(f)

\* The handle of a lookup that was not started is not used.  It is, if the user
\* wants the canonical name of a name that is too long.
GaiNoNull == data # "null"

\* The inductive invariant: GaiToldOnce with the types, and what it rests on.
GaiTypeOK ==
  /\ sub \in [Family -> {"none", "running", "due", "done"}]
  /\ result \in [Family -> {"none", "answer", "error", "cancel"}]
  /\ pending_result \in SUBSET Family
  /\ pending_error \in BOOLEAN /\ timeout \in BOOLEAN
  /\ user_canceled \in BOOLEAN /\ request_done \in BOOLEAN /\ user_cb \in BOOLEAN
  /\ data \in {"unused", "used", "freed", "null"}
  /\ told \in {<<>>, <<"at once">>, <<"fail">>, <<"ok">>, <<"error">>, <<"canceled">>}

\* Nobody has to be told of a request that does not exist yet.
UnusedInv ==
  data \in {"unused", "null"} =>
    /\ \A f \in Family : ~Has(f) /\ result[f] = "none"
    /\ ~timeout /\ pending_result = {} /\ ~user_canceled /\ user_cb

\* A request in use has a lookup that will end it, and its user has been told
\* exactly if the callback is forgotten.  One lookup is over once something
\* waits for the other, or the user was told; only he or the timer cancels.
UsedInv ==
  data = "used" =>
    /\ \E f \in Family : Has(f)
    /\ told = <<>> <=> user_cb
    /\ timeout => user_cb
    /\ timeout \/ pending_result # {} \/ ~user_cb => \E f \in Family : ~Has(f)
    /\ user_canceled /\ timeout => pending_result = {}
    /\ \A f \in Family : Has(f) /\ user_canceled => sub[f] = "due"
    /\ \A f \in Family : ~user_cb /\ Has(f) => sub[f] = "due"
    /\ \A f \in Family : Has(f) /\ result[f] = "cancel" => user_canceled \/ ~user_cb
    /\ user_canceled => told # <<"ok">>

FreedInv ==
  data = "freed" =>
    /\ told # <<>> /\ ~timeout
    /\ user_canceled => told # <<"ok">>
    /\ \A f \in Family : ~Has(f)

GaiInv == GaiTypeOK /\ UnusedInv /\ UsedInv /\ FreedInv
===============================================================================
