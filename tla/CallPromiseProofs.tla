------------------------- MODULE CallPromiseProofs -------------------------
(***************************************************************************)
(* CallPromise gives a client at most one answer per action.  Whatever     *)
(* implements it (BrokerSystem, checked as KeepsPromise) inherits this.    *)
(***************************************************************************)
EXTENDS CallPromise, TLAPS

PromiseTypeOK ==
    /\ asked \in [Call -> Nat]
    /\ owed \in [Call -> Nat]
    /\ delivered \in [Call -> Nat]

PromiseInv == PromiseTypeOK /\ AtMostOnce

(* Asking for a call that has nothing yet leaves it owed what it asks.     *)
LEMMA AskInv ==
    ASSUME PromiseInv, NEW c \in Call, NEW n \in 0..MaxActions, Ask(c, n)
    PROVE  PromiseInv'
  <1>1. PromiseTypeOK'
    BY DEF PromiseInv, PromiseTypeOK, Ask
  <1>2. ASSUME NEW d \in Call
        PROVE  delivered'[d] + owed'[d] <= asked'[d]
    <2>1. CASE d = c
      <3>1. delivered[c] = 0
        BY DEF PromiseInv, PromiseTypeOK, AtMostOnce, Ask
      <3>2. delivered'[d] = 0 /\ owed'[d] = n /\ asked'[d] = n
        BY <2>1, <3>1 DEF PromiseInv, PromiseTypeOK, Ask
      <3> QED BY <3>2
    <2>2. CASE d # c
      BY <2>2 DEF PromiseInv, PromiseTypeOK, AtMostOnce, Ask
    <2> QED BY <2>1, <2>2
  <1> QED BY <1>1, <1>2 DEF PromiseInv, AtMostOnce

(* An answer moves what is owed to what is delivered.                      *)
LEMMA DeliverInv ==
    ASSUME PromiseInv, NEW c \in Call, NEW n \in 0..MaxActions, Deliver(c, n)
    PROVE  PromiseInv'
  <1>1. PromiseTypeOK'
    BY DEF PromiseInv, PromiseTypeOK, Deliver
  <1>2. ASSUME NEW d \in Call
        PROVE  delivered'[d] + owed'[d] <= asked'[d]
    <2>1. CASE d = c
      <3>1. delivered'[d] = delivered[c] + n /\ owed'[d] = owed[c] - n /\ asked'[d] = asked[c]
        BY <2>1 DEF PromiseInv, PromiseTypeOK, Deliver
      <3> QED BY <3>1 DEF PromiseInv, PromiseTypeOK, AtMostOnce
    <2>2. CASE d # c
      BY <2>2 DEF PromiseInv, PromiseTypeOK, AtMostOnce, Deliver
    <2> QED BY <2>1, <2>2
  <1> QED BY <1>1, <1>2 DEF PromiseInv, AtMostOnce

(* A loss takes from what is owed and from nothing else.                   *)
LEMMA LoseInv ==
    ASSUME PromiseInv, Lose
    PROVE  PromiseInv'
  <1>1. PICK left \in [Call -> 0..MaxActions] :
            /\ \A c \in Call : left[c] <= owed[c]
            /\ owed' = left /\ UNCHANGED <<asked, delivered>>
    BY DEF Lose
  <1>2. PromiseTypeOK'
    BY <1>1 DEF PromiseInv, PromiseTypeOK
  <1>3. ASSUME NEW c \in Call
        PROVE  delivered'[c] + owed'[c] <= asked'[c]
    <2>1. delivered'[c] = delivered[c] /\ asked'[c] = asked[c] /\ owed'[c] <= owed[c]
      BY <1>1
    <2> QED BY <1>2, <2>1 DEF PromiseInv, PromiseTypeOK, AtMostOnce
  <1> QED BY <1>2, <1>3 DEF PromiseInv, AtMostOnce

(* A client is never given more results for a call than it asked for       *)
(* actions: forwarding a REPLY in worker_process is all the code does for  *)
(* it, and it keeps no record of what was answered.                        *)
THEOREM AnsweredAtMostOnce == Spec => []AtMostOnce
  <1>1. Init => PromiseInv
    BY DEF Init, PromiseInv, PromiseTypeOK, AtMostOnce
  <1>2. PromiseInv /\ [Next]_vars => PromiseInv'
    <2> SUFFICES ASSUME PromiseInv, [Next]_vars
                 PROVE  PromiseInv'
      OBVIOUS
    <2>1. CASE \E c \in Call, n \in 0..MaxActions : Ask(c, n) \/ Deliver(c, n)
      BY <2>1, AskInv, DeliverInv
    <2>2. CASE Lose
      BY <2>2, LoseInv
    <2>3. CASE UNCHANGED vars
      BY <2>3 DEF vars, PromiseInv, PromiseTypeOK, AtMostOnce
    <2> QED BY <2>1, <2>2, <2>3 DEF Next
  <1>3. PromiseInv => AtMostOnce
    BY DEF PromiseInv
  <1> QED BY <1>1, <1>2, <1>3, PTL DEF Spec
=============================================================================
