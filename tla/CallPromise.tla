---------------------------- MODULE CallPromise ----------------------------
(***************************************************************************)
(* What the service of broker and workers promises a client, whatever dies *)
(* or is lost on the way: each worker action of a call is answered at most *)
(* once.  owed counts the actions that may still be answered.  An action   *)
(* may be lost; it is never gained.                                        *)
(***************************************************************************)
EXTENDS Naturals

CONSTANTS Call, MaxActions

VARIABLES asked,      \* worker actions in the call, 0 before it is made
          owed,       \* those that may still be answered
          delivered   \* results the client has been sent

vars == <<asked, owed, delivered>>

Init ==
    /\ asked = [c \in Call |-> 0]
    /\ owed = asked
    /\ delivered = asked

Ask(c, n) ==
    /\ asked[c] = 0
    /\ asked' = [asked EXCEPT ![c] = n]
    /\ owed' = [owed EXCEPT ![c] = n]
    /\ UNCHANGED delivered

Deliver(c, n) ==
    /\ n <= owed[c]
    /\ owed' = [owed EXCEPT ![c] = @ - n]
    /\ delivered' = [delivered EXCEPT ![c] = @ + n]
    /\ UNCHANGED asked

Lose ==
    /\ \E left \in [Call -> 0..MaxActions] :
          /\ \A c \in Call : left[c] <= owed[c]
          /\ owed' = left
    /\ UNCHANGED <<asked, delivered>>

Next ==
    \/ \E c \in Call, n \in 0..MaxActions : Ask(c, n) \/ Deliver(c, n)
    \/ Lose

Spec == Init /\ [][Next]_vars

-----------------------------------------------------------------------------
(* An answer is never given to what was not asked, nor given twice.        *)
AtMostOnce == \A c \in Call : delivered[c] + owed[c] <= asked[c]
=============================================================================
