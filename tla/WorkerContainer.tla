-------------------------- MODULE WorkerContainer --------------------------
(***************************************************************************)
(* The broker's register of workers (frontend/worker_container.hpp): one   *)
(* entry per worker identity, indexed by identity, by expiry, by idleness  *)
(* and by the session the worker last worked on.  A container is a         *)
(* function whose domain is the set of registered identities; an index is  *)
(* the set of entries it selects.  Where an ordered_non_unique index       *)
(* leaves the order of equal keys to the history of the container, a       *)
(* lookup is the set of the entries it may return.                         *)
(*                                                                         *)
(* expiry_ is kept as the time that is left until it, in ticks: 0 is       *)
(* "expired".  This orders live entries as the absolute time does; the     *)
(* order of entries that have all expired is left open.                    *)
(*                                                                         *)
(* announced is a history of the entry: set_idle has been called for it,   *)
(* which it is when its worker has said READY or REPLY.                    *)
(***************************************************************************)
EXTENDS Settings, FiniteSets, Functions

worker == [expiry : 0..HeartbeatExpiry, last_worked_session : SessionId, idle : BOOLEAN,
           announced : BOOLEAN]

worker_container == UNION {[ids -> worker] : ids \in SUBSET WorkerId}

-----------------------------------------------------------------------------

NewWorker == [expiry |-> HeartbeatExpiry, last_worked_session |-> NoSession, idle |-> TRUE,
              announced |-> FALSE]

exists(ws, w) == w \in DOMAIN ws

insert(ws, w) == [v \in DOMAIN ws \cup {w} |-> IF v = w THEN NewWorker ELSE ws[v]]

erase(ws, gone) == Restrict(ws, DOMAIN ws \ gone)

idle_workers(ws) == {w \in DOMAIN ws : ws[w].idle}

set_idle(ws, w) == [ws EXCEPT ![w].idle = TRUE, ![w].announced = TRUE]

set_busy(ws, w) == [ws EXCEPT ![w].idle = FALSE]

update_last_worked(ws, w, id) == [ws EXCEPT ![w].last_worked_session = id]

update_expiration(ws, w) == [ws EXCEPT ![w].expiry = HeartbeatExpiry]

(* The first entry of the expiration index, which is sorted by greater<>.  *)
get_next_worker(ws) == {w \in DOMAIN ws : \A v \in DOMAIN ws : ws[v].expiry <= ws[w].expiry}

get_by_last_worked_session(ws, id) == {w \in DOMAIN ws : ws[w].last_worked_session = id}

(* One tick of the clock that expiry_ is compared with.                    *)
Age(ws) == [w \in DOMAIN ws |-> [ws[w] EXCEPT !.expiry = IF @ > 0 THEN @ - 1 ELSE 0]]
=============================================================================
