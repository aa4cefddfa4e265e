---------------------------- MODULE SessionStore ----------------------------
(***************************************************************************)
(* What the session cache owes its callers, as its tests say it            *)
(* (session_cache_test.cpp): a session is there from when it is added      *)
(* until it is closed, replaced by a newer one of its remote, or idle for  *)
(* too long when the store is cleaned; every use gives it the full idle    *)
(* time again; and each call is told whether the session is there.         *)
(***************************************************************************)
EXTENDS Naturals

CONSTANTS Id, RemoteOf, IdleTime,
          Full(_),    \* whether these sessions fill the store
          NoId

VARIABLES sessions,   \* the open sessions, each with the time until which it may be idle
          now,
          answer      \* what the call that ends with this step returns

vars == <<sessions, now, answer>>

(* No call returns.                                                        *)
Silent == [id |-> NoId, yes |-> FALSE]

Init == sessions = {} /\ now = 0 /\ answer = Silent

Others(i) == {s \in sessions : RemoteOf[s.id] # RemoteOf[i]}

InUse(i) == [id |-> i, idle_until |-> now + IdleTime]

Has(i) == \E s \in sessions : s.id = i

Tells(i, yes) == answer' = [id |-> i, yes |-> yes]

Open(i) == ~Has(i) /\ sessions' = Others(i) \cup {InUse(i)} /\ Tells(i, TRUE)

(* A store that is full may refuse a session, and then has given up the    *)
(* one that it was to replace.                                             *)
FailToOpen(i) ==
    /\ ~Has(i) /\ Full(sessions)
    /\ sessions' = Others(i)
    /\ Tells(i, FALSE)

Use(i) == Has(i) /\ sessions' = Others(i) \cup {InUse(i)} /\ Tells(i, TRUE)

Miss(i) == ~Has(i) /\ UNCHANGED sessions /\ Tells(i, FALSE)

Close(i) ==
    /\ sessions' = {s \in sessions : s.id # i}
    /\ IF Has(i) THEN Tells(i, TRUE) ELSE Tells(i, FALSE)

Expire == sessions' = {s \in sessions : s.idle_until >= now} /\ answer' = Silent

Pass == now' \in {now, now + 1} /\ UNCHANGED sessions /\ answer' = Silent

Next ==
    \/ /\ \/ \E i \in Id : Open(i) \/ FailToOpen(i) \/ Use(i) \/ Miss(i) \/ Close(i)
          \/ Expire
       /\ UNCHANGED now
    \/ Pass

Spec == Init /\ [][Next]_vars
=============================================================================
