----------------------------- MODULE CdcmProofs -----------------------------
(***************************************************************************)
(* Proofs about Cdcm: the broker with real worker processes, for any       *)
(* finite number of them, any settings, and any number of deaths.          *)
(***************************************************************************)
EXTENDS Cdcm, BrokerPromiseProofs

-----------------------------------------------------------------------------
(* A queue of postponed actions, and what it holds of one call.            *)
Kept(as, c) == {a \in as : a.reply_to = c}

LEMMA KeptFinite ==
    ASSUME NEW as, IsFiniteSet(as), NEW c
    PROVE  IsFiniteSet(Kept(as, c)) /\ Cardinality(Kept(as, c)) \in Nat
  <1>1. Kept(as, c) \in SUBSET as
    BY DEF Kept
  <1> QED BY <1>1, FS_Subset, FS_CardinalityType

LEMMA OneMore ==
    ASSUME NEW S, IsFiniteSet(S), NEW b
    PROVE  IsFiniteSet(S \cup {b}) /\ Cardinality(S \cup {b}) <= Cardinality(S) + 1
  <1>1. Cardinality(S) \in Nat
    BY FS_CardinalityType
  <1>2. /\ IsFiniteSet(S \cup {b})
        /\ Cardinality(S \cup {b}) = IF b \in S THEN Cardinality(S) ELSE Cardinality(S) + 1
    BY FS_AddElement
  <1> QED BY <1>1, <1>2

LEMMA OneLess ==
    ASSUME NEW S, IsFiniteSet(S), NEW a \in S
    PROVE  IsFiniteSet(S \ {a}) /\ Cardinality(S \ {a}) = Cardinality(S) - 1
  BY FS_RemoveElement

LEMMA KeptAdded ==
    ASSUME NEW as, IsFiniteSet(as), NEW b, NEW c
    PROVE  /\ IsFiniteSet(as \cup {b})
           /\ b.reply_to = c => Cardinality(Kept(as \cup {b}, c)) <= Cardinality(Kept(as, c)) + 1
           /\ b.reply_to # c => Cardinality(Kept(as \cup {b}, c)) = Cardinality(Kept(as, c))
  <1>1. IsFiniteSet(as \cup {b})
    BY OneMore
  <1>2. ASSUME b.reply_to = c
        PROVE  Cardinality(Kept(as \cup {b}, c)) <= Cardinality(Kept(as, c)) + 1
    <2>1. Kept(as \cup {b}, c) = Kept(as, c) \cup {b}
      BY <1>2 DEF Kept
    <2>2. Cardinality(Kept(as, c) \cup {b}) <= Cardinality(Kept(as, c)) + 1
      BY KeptFinite, OneMore
    <2> QED BY <2>1, <2>2, Zenon
  <1>3. ASSUME b.reply_to # c
        PROVE  Cardinality(Kept(as \cup {b}, c)) = Cardinality(Kept(as, c))
    <2>1. Kept(as \cup {b}, c) = Kept(as, c)
      BY <1>3 DEF Kept
    <2> QED BY <2>1, Zenon
  <1> QED BY <1>1, <1>2, <1>3

LEMMA KeptRemoved ==
    ASSUME NEW as, IsFiniteSet(as), NEW a \in as, NEW c
    PROVE  /\ IsFiniteSet(as \ {a})
           /\ a.reply_to = c => Cardinality(Kept(as \ {a}, c)) = Cardinality(Kept(as, c)) - 1
           /\ a.reply_to # c => Cardinality(Kept(as \ {a}, c)) = Cardinality(Kept(as, c))
  <1>1. IsFiniteSet(as \ {a})
    BY OneLess
  <1>2. ASSUME a.reply_to = c
        PROVE  Cardinality(Kept(as \ {a}, c)) = Cardinality(Kept(as, c)) - 1
    <2>1. Kept(as \ {a}, c) = Kept(as, c) \ {a} /\ a \in Kept(as, c)
      BY <1>2 DEF Kept
    <2>2. Cardinality(Kept(as, c) \ {a}) = Cardinality(Kept(as, c)) - 1
      BY <2>1, KeptFinite, OneLess
    <2> QED BY <2>1, <2>2, Zenon
  <1>3. ASSUME a.reply_to # c
        PROVE  Cardinality(Kept(as \ {a}, c)) = Cardinality(Kept(as, c))
    <2>1. ASSUME NEW x \in Kept(as, c) PROVE x \in Kept(as \ {a}, c)
      <3>1. x \in as /\ x.reply_to = c
        BY DEF Kept
      <3>2. x # a
        BY <1>3, <3>1
      <3> QED BY <3>1, <3>2 DEF Kept
    <2>2. Kept(as \ {a}, c) \subseteq Kept(as, c)
      BY DEF Kept
    <2>3. Kept(as \ {a}, c) = Kept(as, c)
      BY <2>1, <2>2, Zenon
    <2> QED BY <2>3, Zenon
  <1> QED BY <1>1, <1>2, <1>3

(* One action in the place of another one of the same call.                *)
LEMMA KeptReplaced ==
    ASSUME NEW as, IsFiniteSet(as), NEW a \in as, NEW b, b.reply_to = a.reply_to, NEW c
    PROVE  /\ IsFiniteSet((as \ {a}) \cup {b})
           /\ Cardinality(Kept((as \ {a}) \cup {b}, c)) <= Cardinality(Kept(as, c))
  <1> DEFINE rest == as \ {a}
             n == Cardinality(Kept(as, c))
             m == Cardinality(Kept(rest, c))
             k == Cardinality(Kept(rest \cup {b}, c))
  <1>1. IsFiniteSet(rest) /\ (a.reply_to = c => m = n - 1) /\ (a.reply_to # c => m = n)
    BY KeptRemoved
  <1>2. IsFiniteSet(rest \cup {b}) /\ (a.reply_to = c => k <= m + 1) /\ (a.reply_to # c => k = m)
    BY <1>1, KeptAdded
  <1>3. n \in Nat /\ m \in Nat /\ k \in Nat
    BY <1>1, <1>2, KeptFinite
  <1> HIDE DEF n, m, k, rest
  <1>4. k <= n
    BY <1>1, <1>2, <1>3
  <1> QED BY <1>2, <1>4 DEF n, k, rest

(* All of them are allowed to run again.                                   *)
Rested(as) == {[a EXCEPT !.rerun = FALSE] : a \in as}

LEMMA KeptRested ==
    ASSUME NEW as \in SUBSET postponed_action, IsFiniteSet(as), NEW c
    PROVE  /\ IsFiniteSet(Rested(as)) /\ Rested(as) \subseteq postponed_action
           /\ Cardinality(Kept(Rested(as), c)) <= Cardinality(Kept(as, c))
  <1>1. ASSUME NEW a \in as
        PROVE  /\ [a EXCEPT !.rerun = FALSE] \in postponed_action
               /\ [a EXCEPT !.rerun = FALSE].reply_to = a.reply_to
    <2> DEFINE ids == {ActionId(d, k) : d \in Call, k \in 1..MaxActions}
               all == [id : ids, reply_to : Call, remaining_runs : 0..Retries, rerun : BOOLEAN]
    <2>1. postponed_action = all
      BY DEF postponed_action
    <2> HIDE DEF all
    <2>2. a \in all
      BY <2>1
    <2> HIDE DEF ids
    <2>3. [a EXCEPT !.rerun = FALSE] \in all /\ [a EXCEPT !.rerun = FALSE].reply_to = a.reply_to
      BY <2>2 DEF all
    <2> QED BY <2>1, <2>3
  <1> DEFINE rest == [a \in as |-> [a EXCEPT !.rerun = FALSE]]
             ours == [a \in Kept(as, c) |-> [a EXCEPT !.rerun = FALSE]]
  <1>2. rest \in Surjection(as, Rested(as))
    BY DEF Rested, Surjection
  <1>3. ours \in Surjection(Kept(as, c), Kept(Rested(as), c))
    BY <1>1 DEF Rested, Surjection, Kept
  <1>4. IsFiniteSet(Kept(as, c))
    BY KeptFinite
  <1>5. Rested(as) \subseteq postponed_action
    BY <1>1 DEF Rested
  <1> HIDE DEF rest, ours
  <1> QED BY <1>2, <1>3, <1>4, <1>5, FS_Surjection

-----------------------------------------------------------------------------
(* One worker: where it is in its loop tells whether it has a socket, how  *)
(* many lives are left and what its request is.                            *)
WorkerOK(m) ==
    /\ m \in message_worker
    /\ IsFiniteSet(m.postponed_actions)
    /\ m.phase \notin {"down", "connect"} => m.identity \in WorkerId
    /\ m.phase \in {"recv", "poll", "beat", "act"} => m.liveness >= 1
    /\ m.phase = "act" => /\ m.request \in Request
                          /\ m.next <= m.request.actions + 1
                          /\ m.results < m.next

(* What InHand counts, of a worker m.                                      *)
Running(m, c) ==
    IF m.phase = "act" /\ m.request.call = c
    THEN m.request.actions - m.next + 1 + m.results ELSE 0

Hand(m, c) == Cardinality(Kept(m.postponed_actions, c)) + Running(m, c)

LEMMA RequestType ==
    ASSUME NEW r \in Request
    PROVE  r.call \in Call /\ r.actions \in 0..MaxActions /\ r.actions \in Nat
  BY RequestAssumption

LEMMA RunningType ==
    ASSUME NEW m, WorkerOK(m), NEW c
    PROVE  Running(m, c) \in Nat
  <1>1. CASE m.phase = "act"
    <2>1. m.request \in Request /\ m.request.actions \in Nat
      BY <1>1, RequestType DEF WorkerOK
    <2>2. m.next \in Nat /\ m.results \in Nat /\ m.next <= m.request.actions + 1
      BY <1>1, RequestAssumption DEF WorkerOK, message_worker
    <2> QED BY <2>1, <2>2 DEF Running
  <1>2. CASE m.phase # "act"
    BY <1>2 DEF Running
  <1> QED BY <1>1, <1>2

LEMMA HandType ==
    ASSUME NEW m, WorkerOK(m), NEW c
    PROVE  Hand(m, c) \in Nat
  BY RunningType, KeptFinite DEF Hand, WorkerOK

LEMMA NotRunningOK ==
    WorkerOK(NotRunning) /\ \A c : Hand(NotRunning, c) = 0
  <1>1. HeartbeatInterval \in -HeartbeatInterval..HeartbeatInterval /\ 0 \in 0..HeartbeatInterval
    BY HeartbeatIntervalAssumption
  <1>2. HeartbeatLiveness \in 0..HeartbeatLiveness
    BY WorkerAssumption
  <1>3. 1 \in 1..MaxActions + 1 /\ 0 \in 0..MaxActions
    BY RequestAssumption
  <1>4. WorkerOK(NotRunning)
    BY <1>1, <1>2, <1>3, FS_EmptySet DEF WorkerOK, NotRunning, message_worker, Phase
  <1>5. ASSUME NEW c PROVE Hand(NotRunning, c) = 0
    <2>1. Kept({}, c) = {}
      BY DEF Kept
    <2>2. Cardinality(Kept({}, c)) = 0
      BY <2>1, FS_EmptySet, Zenon
    <2> QED BY <2>2 DEF Hand, Running, NotRunning
  <1> QED BY <1>4, <1>5

(* A worker whose queue and request stay as they are.                      *)
LEMMA HandStays ==
    ASSUME NEW m, NEW n, n.postponed_actions = m.postponed_actions, NEW c,
           Running(n, c) = Running(m, c)
    PROVE  Hand(n, c) = Hand(m, c)
  BY Zenon DEF Hand

-----------------------------------------------------------------------------
(* A step of worker p alone leaves it in order, and gives it in hand what  *)
(* is added to held.                                                       *)
WorkersOK == mw \in [Process -> message_worker] /\ \A p \in Process : WorkerOK(mw[p])

Alone(p) == mw' = [mw EXCEPT ![p] = mw'[p]] /\ WorkerOK(mw'[p])

InHandAsHeld(p) ==
    \A c \in Call : Hand(mw'[p], c) + held[c] <= Hand(mw[p], c) + held'[c]

HeldType == held \in [Call -> Nat]

(* Steps that touch neither the queue nor a request.                       *)
LEMMA IdleStep ==
    ASSUME NEW p \in Process, WorkersOK, HeldType, UNCHANGED held,
           \/ \E w \in WorkerId : connect_to_broker(p, w)
           \/ TakeHeartbeat(p) \/ TakeDisconnect(p) \/ PollTimeout(p)
           \/ Reconnect(p) \/ HeartbeatIfDue(p) \/ StartWorker(p)
    PROVE  Alone(p) /\ InHandAsHeld(p)
  <1>1. mw \in [Process -> message_worker] /\ WorkerOK(mw[p]) /\ mw[p] \in message_worker
    BY DEF WorkersOK
  <1>2. HeartbeatLiveness \in 0..HeartbeatLiveness /\ HeartbeatLiveness >= 1
    BY WorkerAssumption
  <1>3. HeartbeatInterval \in Nat /\ HeartbeatInterval \in -HeartbeatInterval..HeartbeatInterval
    BY HeartbeatIntervalAssumption
  <1>4. ASSUME mw'[p].postponed_actions = mw[p].postponed_actions,
               mw[p].phase # "act", mw'[p].phase # "act"
        PROVE  InHandAsHeld(p)
    <2>1. ASSUME NEW c \in Call PROVE Hand(mw'[p], c) = Hand(mw[p], c)
      BY <1>4, HandStays DEF Running
    <2>2. ASSUME NEW c \in Call PROVE Hand(mw[p], c) \in Nat /\ held[c] \in Nat
      BY <1>1, HandType DEF HeldType
    <2> QED BY <2>1, <2>2 DEF InHandAsHeld
  <1> USE DEF Alone, WorkerOK, message_worker, Phase
  <1>5. ASSUME NEW w \in WorkerId, connect_to_broker(p, w) PROVE Alone(p) /\ InHandAsHeld(p)
    BY <1>1, <1>2, <1>3, <1>4, <1>5 DEF connect_to_broker
  <1>6. CASE TakeHeartbeat(p)
    BY <1>1, <1>2, <1>4, <1>6 DEF TakeHeartbeat, Takes
  <1>7. CASE TakeDisconnect(p)
    BY <1>1, <1>4, <1>7 DEF TakeDisconnect, Takes
  <1>8. CASE PollTimeout(p)
    BY <1>1, <1>4, <1>8 DEF PollTimeout
  <1>9. CASE Reconnect(p)
    BY <1>1, <1>4, <1>9 DEF Reconnect
  <1>10. CASE HeartbeatIfDue(p)
    BY <1>1, <1>3, <1>4, <1>10 DEF HeartbeatIfDue
  <1>11. CASE StartWorker(p)
    BY <1>1, <1>4, <1>11 DEF StartWorker
  <1> QED BY <1>5, <1>6, <1>7, <1>8, <1>9, <1>10, <1>11

(* Steps that change the queue while no request runs.                      *)
LEMMA QueueStep ==
    ASSUME NEW p \in Process, WorkersOK, NEW bs \in SUBSET postponed_action, IsFiniteSet(bs),
           mw[p].phase = "recv",
           NEW n \in message_worker, n.phase \in {"recv", "poll"}, n.identity = mw[p].identity,
           n.liveness = mw[p].liveness, n.postponed_actions = bs, mw' = [mw EXCEPT ![p] = n]
    PROVE  /\ Alone(p)
           /\ \A c : /\ Hand(mw'[p], c) = Cardinality(Kept(bs, c))
                     /\ Hand(mw[p], c) = Cardinality(Kept(mw[p].postponed_actions, c))
  <1>1. mw \in [Process -> message_worker] /\ WorkerOK(mw[p])
    BY DEF WorkersOK
  <1>2. mw'[p] = n
    BY <1>1
  <1>3. WorkerOK(n)
    BY <1>1 DEF WorkerOK
  <1>4. Alone(p)
    BY <1>2, <1>3 DEF Alone
  <1>5. ASSUME NEW m, m.phase # "act", NEW c, IsFiniteSet(m.postponed_actions)
        PROVE  Hand(m, c) = Cardinality(Kept(m.postponed_actions, c))
    <2>1. Cardinality(Kept(m.postponed_actions, c)) \in Nat
      BY <1>5, KeptFinite
    <2>2. Running(m, c) = 0
      BY <1>5 DEF Running
    <2> QED BY <2>1, <2>2 DEF Hand
  <1>6. ASSUME NEW c PROVE Hand(n, c) = Cardinality(Kept(bs, c))
    BY <1>5
  <1>7. ASSUME NEW c PROVE Hand(mw[p], c) = Cardinality(Kept(mw[p].postponed_actions, c))
    BY <1>1, <1>5 DEF WorkerOK
  <1> QED BY <1>2, <1>4, <1>6, <1>7

LEMMA AgainType ==
    ASSUME NEW a \in postponed_action, a.remaining_runs > 0
    PROVE  /\ [a EXCEPT !.remaining_runs = @ - 1, !.rerun = TRUE] \in postponed_action
           /\ [a EXCEPT !.remaining_runs = @ - 1, !.rerun = TRUE].reply_to = a.reply_to
  <1> DEFINE ids == {ActionId(d, k) : d \in Call, k \in 1..MaxActions}
             all == [id : ids, reply_to : Call, remaining_runs : 0..Retries, rerun : BOOLEAN]
             b == [a EXCEPT !.remaining_runs = @ - 1, !.rerun = TRUE]
  <1>1. postponed_action = all
    BY DEF postponed_action
  <1> HIDE DEF all
  <1>2. a \in all
    BY <1>1
  <1> HIDE DEF ids
  <1>3. a.remaining_runs - 1 \in 0..Retries
    BY <1>2, WorkerAssumption DEF all
  <1>4. b \in all /\ b.reply_to = a.reply_to
    BY <1>2, <1>3 DEF all
  <1> QED BY <1>1, <1>4

(* A pass of handle_postponed_actions, and the poll after it.              *)
LEMMA PostponeAgainStep ==
    ASSUME NEW p \in Process, WorkersOK, HeldType, UNCHANGED held,
           NEW a \in mw[p].postponed_actions, PostponeAgain(p, a)
    PROVE  Alone(p) /\ InHandAsHeld(p)
  <1> DEFINE as == mw[p].postponed_actions
             b == [a EXCEPT !.remaining_runs = @ - 1, !.rerun = TRUE]
             bs == (as \ {a}) \cup {b}
             n == [mw[p] EXCEPT !.postponed_actions = bs]
  <1>1. mw \in [Process -> message_worker] /\ WorkerOK(mw[p]) /\ mw[p] \in message_worker
    BY DEF WorkersOK
  <1>2. as \in SUBSET postponed_action /\ IsFiniteSet(as)
    BY <1>1 DEF WorkerOK, message_worker
  <1>3. b \in postponed_action /\ b.reply_to = a.reply_to
    BY <1>2, AgainType DEF PostponeAgain
  <1>4. mw' = [mw EXCEPT ![p] = n] /\ mw[p].phase = "recv"
    BY <1>1 DEF PostponeAgain
  <1>5. bs \in SUBSET postponed_action
    BY <1>2, <1>3
  <1> HIDE DEF b
  <1>6. IsFiniteSet(bs) /\ \A c : Cardinality(Kept(bs, c)) <= Cardinality(Kept(as, c))
    BY <1>2, <1>3, KeptReplaced
  <1> HIDE DEF bs
  <1>7. /\ n \in message_worker /\ n.phase = "recv" /\ n.identity = mw[p].identity
        /\ n.liveness = mw[p].liveness /\ n.postponed_actions = bs
    BY <1>1, <1>4, <1>5 DEF message_worker
  <1> HIDE DEF n
  <1>8. Alone(p) /\ \A c : /\ Hand(mw'[p], c) = Cardinality(Kept(bs, c))
                          /\ Hand(mw[p], c) = Cardinality(Kept(as, c))
    BY <1>4, <1>5, <1>6, <1>7, QueueStep
  <1>9. InHandAsHeld(p)
    <2>1. ASSUME NEW c \in Call PROVE Hand(mw'[p], c) <= Hand(mw[p], c)
      BY <1>6, <1>8
    <2> QED BY <1>1, <1>8, <2>1, HandType DEF InHandAsHeld, HeldType, Alone
  <1> QED BY <1>8, <1>9

LEMMA AnswerPostponedStep ==
    ASSUME NEW p \in Process, WorkersOK, HeldType,
           NEW a \in mw[p].postponed_actions, AnswerPostponed(p, a), OwesLess(a.reply_to, 1)
    PROVE  Alone(p) /\ InHandAsHeld(p) /\ Hand(mw[p], a.reply_to) >= 1 /\ a.reply_to \in Call
  <1> DEFINE as == mw[p].postponed_actions
             bs == as \ {a}
             n == [mw[p] EXCEPT !.postponed_actions = bs]
  <1>1. mw \in [Process -> message_worker] /\ WorkerOK(mw[p]) /\ mw[p] \in message_worker
    BY DEF WorkersOK
  <1>2. as \in SUBSET postponed_action /\ IsFiniteSet(as) /\ a.reply_to \in Call
    BY <1>1 DEF WorkerOK, message_worker, postponed_action
  <1>3. /\ IsFiniteSet(bs)
        /\ \A c : /\ a.reply_to = c => Cardinality(Kept(bs, c)) = Cardinality(Kept(as, c)) - 1
                  /\ a.reply_to # c => Cardinality(Kept(bs, c)) = Cardinality(Kept(as, c))
    BY <1>2, KeptRemoved
  <1>4. mw' = [mw EXCEPT ![p] = n] /\ mw[p].phase = "recv"
    BY <1>1 DEF AnswerPostponed
  <1>5. bs \in SUBSET postponed_action
    BY <1>2
  <1> HIDE DEF bs
  <1>6. /\ n \in message_worker /\ n.phase = "recv" /\ n.identity = mw[p].identity
        /\ n.liveness = mw[p].liveness /\ n.postponed_actions = bs
    BY <1>1, <1>4, <1>5 DEF message_worker
  <1> HIDE DEF n
  <1>7. Alone(p) /\ \A c : /\ Hand(mw'[p], c) = Cardinality(Kept(bs, c))
                          /\ Hand(mw[p], c) = Cardinality(Kept(as, c))
    BY <1>3, <1>4, <1>5, <1>6, QueueStep
  <1>8. ASSUME NEW c \in Call
        PROVE  /\ Hand(mw'[p], c) \in Nat /\ Hand(mw[p], c) \in Nat
               /\ a.reply_to = c => Hand(mw'[p], c) = Hand(mw[p], c) - 1
               /\ a.reply_to # c => Hand(mw'[p], c) = Hand(mw[p], c)
    BY <1>1, <1>3, <1>7, HandType DEF Alone
  <1>9. ASSUME NEW c \in Call
        PROVE  /\ held[c] \in Nat
               /\ held'[c] = IF c = a.reply_to THEN held[c] - 1 ELSE held[c]
    BY <1>2 DEF HeldType, OwesLess
  <1>10. InHandAsHeld(p)
    BY <1>8, <1>9 DEF InHandAsHeld
  <1>11. Hand(mw[p], a.reply_to) >= 1
    BY <1>2, <1>8
  <1> QED BY <1>2, <1>7, <1>10, <1>11

LEMMA WaitForMessageStep ==
    ASSUME NEW p \in Process, WorkersOK, HeldType, UNCHANGED held, WaitForMessage(p)
    PROVE  Alone(p) /\ InHandAsHeld(p)
  <1> DEFINE as == mw[p].postponed_actions
             bs == Rested(as)
             t == IF as = {} THEN HeartbeatInterval ELSE 0
             n == [mw[p] EXCEPT !.phase = "poll", !.wait = t, !.postponed_actions = bs]
  <1>1. mw \in [Process -> message_worker] /\ WorkerOK(mw[p]) /\ mw[p] \in message_worker
    BY DEF WorkersOK
  <1>2. as \in SUBSET postponed_action /\ IsFiniteSet(as)
    BY <1>1 DEF WorkerOK, message_worker
  <1>3. /\ IsFiniteSet(bs) /\ bs \in SUBSET postponed_action
        /\ \A c : Cardinality(Kept(bs, c)) <= Cardinality(Kept(as, c))
    BY <1>2, KeptRested
  <1>4. mw' = [mw EXCEPT ![p] = n] /\ mw[p].phase = "recv"
    BY <1>1 DEF WaitForMessage, Rested
  <1>5. t \in 0..HeartbeatInterval
    BY HeartbeatIntervalAssumption
  <1> HIDE DEF bs, t
  <1>6. /\ n \in message_worker /\ n.phase = "poll" /\ n.identity = mw[p].identity
        /\ n.liveness = mw[p].liveness /\ n.postponed_actions = bs
    BY <1>1, <1>3, <1>5 DEF message_worker, Phase
  <1> HIDE DEF n
  <1>7. Alone(p) /\ \A c : /\ Hand(mw'[p], c) = Cardinality(Kept(bs, c))
                          /\ Hand(mw[p], c) = Cardinality(Kept(as, c))
    BY <1>3, <1>4, <1>6, QueueStep
  <1>8. InHandAsHeld(p)
    <2>1. ASSUME NEW c \in Call PROVE Hand(mw'[p], c) <= Hand(mw[p], c)
      BY <1>3, <1>7
    <2> QED BY <1>1, <1>7, <2>1, HandType DEF InHandAsHeld, HeldType, Alone
  <1> QED BY <1>7, <1>8

(* worker_loop: what a request asks for is in hand from its arrival until  *)
(* its results are sent or its actions are postponed.                      *)
LEMMA TakeRequestStep ==
    ASSUME NEW p \in Process, WorkersOK, HeldType, TakeRequest(p), CallOf(p) \in Request,
           OwesMore(CallOf(p).call, CallOf(p).actions)
    PROVE  Alone(p) /\ InHandAsHeld(p)
  <1> DEFINE r == CallOf(p)
  <1>1. mw \in [Process -> message_worker] /\ WorkerOK(mw[p]) /\ mw[p] \in message_worker
    BY DEF WorkersOK
  <1>2. r.call \in Call /\ r.actions \in Nat
    BY RequestType, SMTT(60)
  <1>3. /\ mw' = [mw EXCEPT ![p].phase = "act", ![p].liveness = HeartbeatLiveness,
                            ![p].request = r, ![p].next = 1, ![p].results = 0]
        /\ mw[p].phase = "poll"
    BY DEF TakeRequest, Takes, CallOf
  <1>4. /\ HeartbeatLiveness \in 0..HeartbeatLiveness /\ HeartbeatLiveness >= 1
        /\ 1 \in 1..MaxActions + 1 /\ 0 \in 0..MaxActions
    BY WorkerAssumption, RequestAssumption
  <1>5. held' = [held EXCEPT ![r.call] = @ + r.actions]
    BY DEF OwesMore
  <1> HIDE DEF r
  <1>6. r \in Request
    BY DEF r
  <1>7. Alone(p)
    <2>1. /\ mw'[p] \in message_worker /\ mw'[p].phase = "act" /\ mw'[p].request = r
          /\ mw'[p].next = 1 /\ mw'[p].results = 0 /\ mw'[p].liveness = HeartbeatLiveness
          /\ mw'[p].identity = mw[p].identity
          /\ mw'[p].postponed_actions = mw[p].postponed_actions
          /\ mw' = [mw EXCEPT ![p] = mw'[p]]
      BY <1>1, <1>3, <1>4, <1>6 DEF message_worker, Phase
    <2> QED BY <1>1, <1>2, <1>3, <1>4, <1>6, <2>1 DEF Alone, WorkerOK
  <1>8. mw'[p].postponed_actions = mw[p].postponed_actions
    BY <1>1, <1>3 DEF message_worker
  <1>9. ASSUME NEW c
        PROVE  /\ Running(mw[p], c) = 0
               /\ Running(mw'[p], c) = IF r.call = c THEN r.actions ELSE 0
    BY <1>1, <1>2, <1>3 DEF Running, message_worker
  <1>10. ASSUME NEW c \in Call PROVE Hand(mw'[p], c) + held[c] <= Hand(mw[p], c) + held'[c]
    <2> DEFINE k == Cardinality(Kept(mw[p].postponed_actions, c))
    <2>1. k \in Nat
      BY <1>1, KeptFinite DEF WorkerOK
    <2>2. /\ Hand(mw[p], c) = k + Running(mw[p], c)
          /\ Hand(mw'[p], c) = k + Running(mw'[p], c)
      BY <1>8, Zenon DEF Hand
    <2> HIDE DEF k
    <2>3. held[c] \in Nat /\ held'[c] = IF r.call = c THEN held[c] + r.actions ELSE held[c]
      BY <1>2, <1>5 DEF HeldType
    <2> QED BY <1>2, <1>9, <2>1, <2>2, <2>3
  <1> QED BY <1>7, <1>10 DEF InHandAsHeld

LEMMA ActionStep ==
    ASSUME NEW p \in Process, WorkersOK, HeldType, UNCHANGED held,
           ActionDone(p) \/ ActionThrows(p)
    PROVE  Alone(p) /\ InHandAsHeld(p)
  <1> DEFINE r == mw[p].request
  <1>1. mw \in [Process -> message_worker] /\ WorkerOK(mw[p]) /\ mw[p] \in message_worker
    BY DEF WorkersOK
  <1>2. mw[p].phase = "act" /\ mw[p].next <= r.actions
    BY DEF ActionDone, ActionThrows, Acting
  <1>3. r \in Request /\ r.call \in Call /\ r.actions \in 0..MaxActions
    BY <1>1, <1>2, RequestType DEF WorkerOK
  <1>4. mw[p].next \in 1..MaxActions + 1 /\ mw[p].results \in 0..MaxActions
        /\ mw[p].results < mw[p].next /\ MaxActions \in Nat
    BY <1>1, <1>2, RequestAssumption DEF WorkerOK, message_worker
  <1>5. PICK k \in {mw[p].next + 1, r.actions + 1} :
            mw' = [mw EXCEPT ![p].next = k, ![p].results = @ + 1]
    BY <1>1 DEF ActionDone, ActionThrows
  <1>6. k \in 1..MaxActions + 1 /\ k >= mw[p].next + 1 /\ k <= r.actions + 1
        /\ mw[p].results + 1 \in 0..MaxActions
    BY <1>2, <1>3, <1>4
  <1>7. /\ mw'[p] \in message_worker /\ mw'[p].phase = "act" /\ mw'[p].request = r
        /\ mw'[p].next = k /\ mw'[p].results = mw[p].results + 1
        /\ mw'[p].identity = mw[p].identity /\ mw'[p].liveness = mw[p].liveness
        /\ mw'[p].postponed_actions = mw[p].postponed_actions
        /\ mw' = [mw EXCEPT ![p] = mw'[p]]
    BY <1>1, <1>2, <1>5, <1>6 DEF message_worker
  <1> HIDE DEF r
  <1>8. Alone(p)
    BY <1>1, <1>2, <1>3, <1>4, <1>6, <1>7 DEF Alone, WorkerOK
  <1>9. ASSUME NEW c PROVE Running(mw'[p], c) \in Nat /\ Running(mw'[p], c) <= Running(mw[p], c)
    BY <1>1, <1>2, <1>3, <1>4, <1>6, <1>7, <1>8, RunningType DEF Running, Alone, r
  <1>10. ASSUME NEW c \in Call PROVE Hand(mw'[p], c) + held[c] <= Hand(mw[p], c) + held'[c]
    <2> DEFINE n == Cardinality(Kept(mw[p].postponed_actions, c))
    <2>1. n \in Nat /\ Running(mw[p], c) \in Nat
      BY <1>1, KeptFinite, RunningType DEF WorkerOK
    <2>2. /\ Hand(mw[p], c) = n + Running(mw[p], c)
          /\ Hand(mw'[p], c) = n + Running(mw'[p], c)
      BY <1>7, Zenon DEF Hand
    <2> HIDE DEF n
    <2>3. held[c] \in Nat /\ held'[c] = held[c]
      BY DEF HeldType
    <2> QED BY <1>9, <2>1, <2>2, <2>3
  <1> QED BY <1>8, <1>10 DEF InHandAsHeld

LEMMA ActionPostponedStep ==
    ASSUME NEW p \in Process, WorkersOK, HeldType, UNCHANGED held, ActionPostponed(p)
    PROVE  Alone(p) /\ InHandAsHeld(p)
  <1> DEFINE r == mw[p].request
             as == mw[p].postponed_actions
             id == ActionId(r.call, mw[p].next)
             b == [id |-> id, reply_to |-> r.call, remaining_runs |-> Retries, rerun |-> FALSE]
  <1>1. mw \in [Process -> message_worker] /\ WorkerOK(mw[p]) /\ mw[p] \in message_worker
    BY DEF WorkersOK
  <1>2. mw[p].phase = "act" /\ mw[p].next <= r.actions
    BY DEF ActionPostponed, Acting
  <1>3. r \in Request /\ r.call \in Call /\ r.actions \in 0..MaxActions
    BY <1>1, <1>2, RequestType DEF WorkerOK
  <1>4. /\ mw[p].next \in 1..MaxActions + 1 /\ mw[p].results \in 0..MaxActions
        /\ mw[p].results < mw[p].next /\ MaxActions \in Nat
        /\ mw[p].next \in 1..MaxActions /\ mw[p].next + 1 \in 1..MaxActions + 1
    BY <1>1, <1>2, <1>3, RequestAssumption DEF WorkerOK, message_worker
  <1>5. as \in SUBSET postponed_action /\ IsFiniteSet(as)
    BY <1>1 DEF WorkerOK, message_worker
  <1>6. b \in postponed_action
    <2>1. id \in {ActionId(d, k) : d \in Call, k \in 1..MaxActions}
      BY <1>3, <1>4
    <2>2. Retries \in 0..Retries
      BY WorkerAssumption
    <2> HIDE DEF id
    <2> QED BY <1>3, <2>1, <2>2 DEF postponed_action
  <1>7. b.reply_to = r.call
    OBVIOUS
  <1>8. PICK bs \in {as, as \cup {b}} :
            mw' = [mw EXCEPT ![p].next = @ + 1, ![p].postponed_actions = bs]
    BY <1>1 DEF ActionPostponed
  <1> HIDE DEF b, id
  <1>9. /\ bs \in SUBSET postponed_action /\ IsFiniteSet(bs)
        /\ \A c : /\ r.call = c => Cardinality(Kept(bs, c)) <= Cardinality(Kept(as, c)) + 1
                  /\ r.call # c => Cardinality(Kept(bs, c)) = Cardinality(Kept(as, c))
    <2>1. CASE bs = as
      <3>1. \A c : Cardinality(Kept(as, c)) \in Nat
        BY <1>5, KeptFinite
      <3> QED BY <1>5, <2>1, <3>1
    <2>2. CASE bs = as \cup {b}
      <3>1. bs \in SUBSET postponed_action
        BY <1>5, <1>6, <2>2
      <3>2. /\ IsFiniteSet(as \cup {b})
            /\ \A c : /\ r.call = c => Cardinality(Kept(as \cup {b}, c))
                                        <= Cardinality(Kept(as, c)) + 1
                      /\ r.call # c => Cardinality(Kept(as \cup {b}, c)) = Cardinality(Kept(as, c))
        BY <1>5, <1>7, KeptAdded
      <3> QED BY <2>2, <3>1, <3>2, Zenon
    <2> QED BY <1>8, <2>1, <2>2
  <1>10. /\ mw'[p] \in message_worker /\ mw'[p].phase = "act" /\ mw'[p].request = r
         /\ mw'[p].next = mw[p].next + 1 /\ mw'[p].results = mw[p].results
         /\ mw'[p].identity = mw[p].identity /\ mw'[p].liveness = mw[p].liveness
         /\ mw'[p].postponed_actions = bs
         /\ mw' = [mw EXCEPT ![p] = mw'[p]]
    BY <1>1, <1>2, <1>4, <1>8, <1>9 DEF message_worker
  <1> HIDE DEF r
  <1>11. Alone(p)
    BY <1>1, <1>2, <1>3, <1>4, <1>9, <1>10 DEF Alone, WorkerOK
  <1>12. ASSUME NEW c
         PROVE  /\ Running(mw'[p], c) \in Nat /\ Running(mw[p], c) \in Nat
                /\ r.call = c => Running(mw'[p], c) = Running(mw[p], c) - 1
                /\ r.call # c => Running(mw'[p], c) = Running(mw[p], c)
    <2>1. Running(mw'[p], c) \in Nat /\ Running(mw[p], c) \in Nat
      BY <1>1, <1>11, RunningType DEF Alone
    <2> QED BY <1>2, <1>3, <1>4, <1>10, <2>1 DEF Running, r
  <1>13. ASSUME NEW c \in Call PROVE Hand(mw'[p], c) + held[c] <= Hand(mw[p], c) + held'[c]
    <2> DEFINE n == Cardinality(Kept(as, c))
               m == Cardinality(Kept(bs, c))
    <2>1. n \in Nat /\ m \in Nat /\ (r.call = c => m <= n + 1) /\ (r.call # c => m = n)
      BY <1>5, <1>9, KeptFinite
    <2>2. /\ Hand(mw[p], c) = n + Running(mw[p], c)
          /\ Hand(mw'[p], c) = m + Running(mw'[p], c)
      BY <1>10, Zenon DEF Hand
    <2> HIDE DEF n, m
    <2>3. held[c] \in Nat /\ held'[c] = held[c]
      BY DEF HeldType
    <2> QED BY <1>12, <2>1, <2>2, <2>3
  <1> QED BY <1>11, <1>13 DEF InHandAsHeld

LEMMA FinishRequestStep ==
    ASSUME NEW p \in Process, WorkersOK, HeldType, FinishRequest(p),
           OwesLess(mw[p].request.call, mw[p].results)
    PROVE  /\ Alone(p) /\ InHandAsHeld(p)
           /\ mw[p].request.call \in Call /\ mw[p].results \in Nat
           /\ Hand(mw[p], mw[p].request.call) >= mw[p].results
  <1> DEFINE r == mw[p].request
             l == mw[p].results
  <1>1. mw \in [Process -> message_worker] /\ WorkerOK(mw[p]) /\ mw[p] \in message_worker
    BY DEF WorkersOK
  <1>2. /\ mw[p].phase = "act" /\ mw[p].next > r.actions
        /\ mw' = [mw EXCEPT ![p].phase = "recv", ![p].request = NoId,
                            ![p].next = 1, ![p].results = 0]
    BY DEF FinishRequest
  <1>3. r.call \in Call /\ r.actions \in Nat
    BY <1>1, <1>2, RequestType DEF WorkerOK
  <1>4. l \in Nat /\ mw[p].next \in Nat /\ mw[p].next = r.actions + 1
    BY <1>1, <1>2, <1>3, RequestAssumption DEF WorkerOK, message_worker
  <1>5. 1 \in 1..MaxActions + 1 /\ 0 \in 0..MaxActions
    BY RequestAssumption
  <1>6. Alone(p)
    BY <1>1, <1>2, <1>5 DEF Alone, WorkerOK, message_worker, Phase
  <1>7. mw'[p].postponed_actions = mw[p].postponed_actions /\ mw'[p].phase = "recv"
    BY <1>1, <1>2 DEF message_worker, Phase
  <1>8. ASSUME NEW c
        PROVE  Running(mw'[p], c) = 0 /\ Running(mw[p], c) = IF r.call = c THEN l ELSE 0
    BY <1>2, <1>3, <1>4, <1>7 DEF Running
  <1>9. ASSUME NEW c \in Call
        PROVE  /\ Hand(mw[p], c) \in Nat /\ Hand(mw'[p], c) \in Nat
               /\ Hand(mw[p], c) = Hand(mw'[p], c) + (IF r.call = c THEN l ELSE 0)
    <2> DEFINE k == Cardinality(Kept(mw[p].postponed_actions, c))
    <2>1. k \in Nat
      BY <1>1, KeptFinite DEF WorkerOK
    <2>2. /\ Hand(mw[p], c) = k + Running(mw[p], c)
          /\ Hand(mw'[p], c) = k + Running(mw'[p], c)
      BY <1>7, Zenon DEF Hand
    <2> HIDE DEF k, r, l
    <2> QED BY <1>4, <1>8, <2>1, <2>2
  <1>10. ASSUME NEW c \in Call
         PROVE  held[c] \in Nat /\ held'[c] = IF r.call = c THEN held[c] - l ELSE held[c]
    BY <1>3 DEF HeldType, OwesLess
  <1> HIDE DEF r, l
  <1>11. InHandAsHeld(p)
    BY <1>4, <1>9, <1>10 DEF InHandAsHeld
  <1>12. Hand(mw[p], r.call) >= l
    BY <1>3, <1>4, <1>9
  <1> QED BY <1>3, <1>4, <1>6, <1>11, <1>12 DEF r, l

-----------------------------------------------------------------------------
(* What all workers have in hand of a call, as HandsAreClean counts it.    *)
Hands(c) == [p \in Process |-> Hand(mw[p], c)]

LEMMA HandsType ==
    ASSUME WorkersOK, NEW c
    PROVE  Hands(c) \in [Process -> Nat]
  BY HandType DEF Hands, WorkersOK

LEMMA CleanIsSum ==
    HandsAreClean <=> \A c \in Call : Sum(Hands(c), Process) <= held[c]
  <1>1. ASSUME NEW c
        PROVE  UNION {{p} \X (1..InHand(p, c)) : p \in Process} = Pairs(Hands(c), Process)
    BY DEF InHand, Hands, Hand, Running, Kept, Pairs
  <1>2. ASSUME NEW c
        PROVE  Cardinality(UNION {{p} \X (1..InHand(p, c)) : p \in Process}) = Sum(Hands(c), Process)
    BY <1>1, Zenon DEF Sum
  <1> QED BY <1>2 DEF HandsAreClean

(* A step of one worker.                                                   *)
LEMMA WorkersStay ==
    ASSUME WorkersOK, NEW p \in Process, Alone(p)
    PROVE  WorkersOK'
  <1>1. \A q \in Process : WorkerOK(mw'[q])
    BY DEF Alone, WorkersOK
  <1>2. mw' \in [Process -> message_worker]
    BY DEF Alone, WorkersOK, WorkerOK
  <1> QED BY <1>1, <1>2 DEF WorkersOK, WorkerOK

LEMMA CleanStays ==
    ASSUME WorkersOK, HeldType, HandsAreClean, NEW p \in Process, Alone(p), InHandAsHeld(p),
           held' \in [Call -> Nat]
    PROVE  HandsAreClean'
  <1>1. WorkersOK'
    BY WorkersStay
  <1>2. ASSUME NEW c \in Call PROVE Sum(Hands(c), Process)' <= held'[c]
    <2> DEFINE f == Hands(c)
               g == [q \in Process |-> Hand(mw'[q], c)]
    <2>1. Hands(c)' = g
      BY DEF Hands, Hand, Running, Kept
    <2>2. f \in [Process -> Nat] /\ g \in [Process -> Nat]
      BY <1>1, HandType DEF Hands, WorkersOK, Alone, WorkerOK
    <2>3. \A q \in Process \ {p} : g[q] = f[q]
      BY DEF Alone, WorkersOK, Hands
    <2>4. f[p] = Hand(mw[p], c) /\ g[p] = Hand(mw'[p], c)
      BY DEF Hands
    <2> HIDE DEF f, g
    <2>5. Sum(f, Process) \in Nat /\ Sum(g, Process) \in Nat /\ Sum(g, Process) - g[p] = Sum(f, Process) - f[p]
      BY <2>2, <2>3, WorkerAssumption, SumChanges
    <2>6. Sum(f, Process) <= held[c] /\ held[c] \in Nat /\ held'[c] \in Nat
      BY CleanIsSum DEF HeldType, f
    <2>7. g[p] + held[c] <= f[p] + held'[c] /\ f[p] \in Nat /\ g[p] \in Nat
      BY <2>2, <2>4 DEF InHandAsHeld
    <2>8. Sum(g, Process) <= held'[c]
      BY <2>5, <2>6, <2>7
    <2>9. Sum(Hands(c), Process)' = Sum(g, Process)
      BY <2>1 DEF Sum, Pairs
    <2> QED BY <2>8, <2>9
  <1>3. (\A c \in Call : Sum(Hands(c), Process) <= held[c])'
    BY <1>2
  <1> QED BY <1>3, CleanIsSum, PTL

-----------------------------------------------------------------------------
(* The sockets.  A worker that sends or closes has a socket, and what it   *)
(* sends the broker knows.                                                 *)
Known == {m \in FromWorker : m.cmd # "INVALID"}

QueuesType ==
    /\ open \subseteq WorkerId
    /\ internal_in \in [WorkerId -> Seq(Known)]
    /\ internal_out \in [WorkerId -> Seq(ToWorker)]

LEMMA SentType ==
    ASSUME QueuesType, NEW p \in Process, mw[p].identity \in WorkerId,
           NEW m \in Known, SendToBroker(p, m)
    PROVE  internal_in' \in [WorkerId -> Seq(Known)]
  BY AppendProperties DEF SendToBroker, QueuesType

LEMMA ClosedType ==
    ASSUME QueuesType, NEW p \in Process, mw[p].identity \in WorkerId, CloseSocket(p)
    PROVE  QueuesType'
  <1> DEFINE w == mw[p].identity
  <1>1. PICK kept \in 0..Len(internal_in[w]) :
            internal_in' = [internal_in EXCEPT ![w] = SubSeq(@, 1, kept)]
    BY DEF CloseSocket
  <1>2. SubSeq(internal_in[w], 1, kept) \in Seq(Known)
    BY PartType DEF QueuesType
  <1>3. internal_in' \in [WorkerId -> Seq(Known)]
    BY <1>1, <1>2 DEF QueuesType
  <1> QED BY <1>3 DEF CloseSocket, QueuesType

LEMMA TakenType ==
    ASSUME QueuesType, NEW p \in Process, mw[p].identity \in WorkerId, NEW cmd, Takes(p, cmd)
    PROVE  /\ Consumed(p) \in [WorkerId -> Seq(ToWorker)]
           /\ Head(internal_out[mw[p].identity]) \in ToWorker
           /\ Head(internal_out[mw[p].identity]).cmd = cmd
  <1> DEFINE q == internal_out[mw[p].identity]
  <1>1. q \in Seq(ToWorker) /\ q # <<>> /\ Head(q).cmd = cmd
    BY DEF QueuesType, Takes
  <1>2. Head(q) \in ToWorker /\ Tail(q) \in Seq(ToWorker)
    BY <1>1, HeadTailProperties
  <1> QED BY <1>1, <1>2 DEF Consumed, QueuesType

LEMMA RequestTaken ==
    ASSUME QueuesType, WorkersOK, NEW p \in Process, TakeRequest(p)
    PROVE  CallOf(p) \in Request
  <1>1. mw[p].identity \in WorkerId
    BY DEF TakeRequest, Takes, WorkersOK, WorkerOK
  <1>2. /\ Head(internal_out[mw[p].identity]) \in ToWorker
        /\ Head(internal_out[mw[p].identity]).cmd = "REQUEST"
    BY <1>1, TakenType DEF TakeRequest
  <1> QED BY <1>2 DEF ToWorker, CallOf

(* The steps of a worker that leave the socket alone, those that take a    *)
(* message from it and those that send one.                                *)
LEMMA WorkerQueues ==
    ASSUME QueuesType, WorkersOK, NEW p \in Process,
           \/ \E w \in WorkerId : connect_to_broker(p, w)
           \/ \E a \in mw[p].postponed_actions : PostponeAgain(p, a) \/ AnswerPostponed(p, a)
           \/ WaitForMessage(p) \/ TakeHeartbeat(p) \/ TakeRequest(p) \/ TakeDisconnect(p)
           \/ PollTimeout(p) \/ Reconnect(p) \/ HeartbeatIfDue(p)
           \/ ActionDone(p) \/ ActionPostponed(p) \/ ActionThrows(p) \/ FinishRequest(p)
           \/ StartWorker(p)
    PROVE  QueuesType'
  <1>1. /\ mw[p] \in message_worker
        /\ mw[p].phase \notin {"down", "connect"} => mw[p].identity \in WorkerId
    BY DEF WorkersOK, WorkerOK
  <1>2. ASSUME UNCHANGED <<open, internal_in, internal_out>> PROVE QueuesType'
    BY <1>2 DEF QueuesType
  <1>3. ASSUME NEW w \in WorkerId, connect_to_broker(p, w) PROVE QueuesType'
    <2>1. <<[cmd |-> "READY"]>> \in Seq(Known)
      BY DEF FromWorker, Known
    <2> QED BY <1>3, <2>1 DEF connect_to_broker, QueuesType
  <1>4. ASSUME NEW a \in mw[p].postponed_actions, AnswerPostponed(p, a) PROVE QueuesType'
    <2> DEFINE m == [cmd |-> "REPLY", call |-> a.reply_to, results |-> 1]
    <2>1. a \in postponed_action
      BY <1>1 DEF message_worker
    <2>2. a.reply_to \in Call /\ 1 \in 1..MaxActions
      BY <2>1, RequestAssumption DEF postponed_action
    <2>3. m \in Known
      BY <2>2 DEF FromWorker, Known
    <2>4. SendToBroker(p, m) /\ mw[p].identity \in WorkerId
      BY <1>1, <1>4 DEF AnswerPostponed
    <2> HIDE DEF m
    <2>5. internal_in' \in [WorkerId -> Seq(Known)]
      BY <2>3, <2>4, SentType
    <2> QED BY <1>4, <2>5 DEF AnswerPostponed, QueuesType
  <1>5. CASE TakeHeartbeat(p)
    BY <1>1, <1>5, TakenType DEF TakeHeartbeat, Takes, QueuesType
  <1>6. CASE TakeRequest(p)
    BY <1>1, <1>6, TakenType DEF TakeRequest, Takes, QueuesType
  <1>7. CASE TakeDisconnect(p)
    BY <1>1, <1>7, ClosedType DEF TakeDisconnect, Takes
  <1>8. CASE Reconnect(p)
    BY <1>1, <1>8, ClosedType DEF Reconnect
  <1>9. CASE HeartbeatIfDue(p)
    <2>1. [cmd |-> "HEARTBEAT"] \in Known
      BY DEF FromWorker, Known
    <2>2. mw[p].identity \in WorkerId
      BY <1>1, <1>9 DEF HeartbeatIfDue
    <2>3. internal_in' \in [WorkerId -> Seq(Known)]
      BY <1>9, <2>1, <2>2, SentType DEF HeartbeatIfDue, QueuesType
    <2> QED BY <1>9, <2>3 DEF HeartbeatIfDue, QueuesType
  <1>10. CASE FinishRequest(p)
    <2> DEFINE m == [cmd |-> "REPLY", call |-> mw[p].request.call, results |-> mw[p].results]
    <2>1. mw[p].identity \in WorkerId /\ mw[p].phase = "act" /\ mw[p].request \in Request
      BY <1>1, <1>10 DEF FinishRequest, WorkersOK, WorkerOK
    <2>2. mw[p].request.call \in Call /\ mw[p].results \in 0..MaxActions
      BY <1>1, <2>1, RequestType DEF message_worker
    <2>3. mw[p].results > 0 => m \in Known
      BY <2>2, RequestAssumption DEF FromWorker, Known
    <2>4. (mw[p].results > 0 /\ SendToBroker(p, m)) \/ UNCHANGED internal_in
      BY <1>10 DEF FinishRequest
    <2> HIDE DEF m
    <2>5. internal_in' \in [WorkerId -> Seq(Known)]
      BY <2>1, <2>3, <2>4, SentType DEF QueuesType
    <2> QED BY <1>10, <2>5 DEF FinishRequest, QueuesType
  <1>11. CASE WaitForMessage(p) \/ PollTimeout(p) \/ StartWorker(p)
    BY <1>2, <1>11 DEF WaitForMessage, PollTimeout, StartWorker
  <1>12. CASE ActionDone(p) \/ ActionPostponed(p) \/ ActionThrows(p)
    BY <1>2, <1>12 DEF ActionDone, ActionPostponed, ActionThrows
  <1>13. ASSUME NEW a, PostponeAgain(p, a) PROVE QueuesType'
    BY <1>2, <1>13 DEF PostponeAgain
  <1> QED BY <1>3, <1>4, <1>5, <1>6, <1>7, <1>8, <1>9, <1>10, <1>11, <1>12, <1>13

-----------------------------------------------------------------------------
(* The inductive invariant of the service: that of the broker, every       *)
(* worker in order, nothing said that the broker does not know, and no     *)
(* hand with more in it than has been asked for.                           *)
CInv == IInv /\ WorkersOK /\ QueuesType /\ HandsAreClean /\ deaths \in 0..MaxDeaths

LEMMA CInvGives == CInv => QueuesType /\ HeldType
  BY DEF CInv, IInv, TypeOK, HeldType

LEMMA KnownIsFromWorker ==
    ASSUME NEW f \in [WorkerId -> Seq(Known)]
    PROVE  f \in [WorkerId -> Seq(FromWorker)]
  <1>1. ASSUME NEW q \in Seq(Known) PROVE q \in Seq(FromWorker)
    <2>1. Len(q) \in Nat /\ q \in [1..Len(q) -> Known]
      BY LenProperties
    <2>2. q \in [1..Len(q) -> FromWorker]
      BY <2>1 DEF Known
    <2> QED BY <2>1, <2>2, SeqDef
  <1> QED BY <1>1

(* The broker takes messages, and its end takes some of them with it.      *)
LEMMA BrokerQueues ==
    ASSUME QueuesType, SocketsTypeOK',
           \/ BrokerNext \/ ClientNext \/ BrokerCrash \/ UNCHANGED internal_in
    PROVE  QueuesType'
  <1>1. ASSUME internal_in' \in [WorkerId -> Seq(Known)] PROVE QueuesType'
    BY <1>1 DEF SocketsTypeOK, QueuesType
  <1>2. CASE UNCHANGED internal_in
    BY <1>1, <1>2 DEF QueuesType
  <1>3. ASSUME NEW w \in WorkerId, NEW cmd, Receives(w, cmd) PROVE QueuesType'
    <2>1. internal_in[w] \in Seq(Known) /\ internal_in[w] # <<>>
      BY <1>3 DEF QueuesType, Receives
    <2>2. Tail(internal_in[w]) \in Seq(Known)
      BY <2>1, HeadTailProperties
    <2> QED BY <1>1, <1>3, <2>2 DEF QueuesType, Receives
  <1>4. ASSUME NEW w \in WorkerId,
               \/ ProcessReady(w) \/ ProcessReply(w) \/ ProcessHeartbeat(w)
               \/ ProcessDisconnect(w) \/ ProcessInvalid(w)
        PROVE  QueuesType'
    BY <1>3, <1>4 DEF ProcessReady, ProcessReply, ProcessHeartbeat, ProcessDisconnect,
                      ProcessInvalid
  <1>5. ASSUME NEW w, DispatchTo(w) PROVE QueuesType'
    BY <1>2, <1>5 DEF DispatchTo
  <1>6. CASE Poll \/ client_process \/ Timers \/ ClientNext
    BY <1>2, <1>6 DEF Poll, client_process, Timers, ClientNext, ClientSend, socketVars
  <1>7. CASE BrokerCrash
    <2>1. ASSUME NEW w \in WorkerId PROVE Newer(internal_in[w]) \subseteq Seq(Known)
      BY NewerType DEF QueuesType
    <2> QED BY <1>1, <1>7, <2>1 DEF BrokerCrash, EachFrom
  <1> QED BY <1>2, <1>4, <1>5, <1>6, <1>7 DEF BrokerNext

LEMMA AroundBroker ==
    ASSUME IInv, UNCHANGED <<brokerVars, external_in, external_out, sent, crashes>>,
           QueuesType', held' \in [Call -> Nat]
    PROVE  IInv'
  <1>1. BrokerInv'
    BY BrokerUnchanged
  <1>2. SocketsTypeOK'
    <2>1. internal_in' \in [WorkerId -> Seq(FromWorker)]
      BY KnownIsFromWorker DEF QueuesType
    <2> QED BY <2>1 DEF IInv, TypeOK, SocketsTypeOK, QueuesType
  <1> QED BY <1>1, <1>2 DEF IInv, TypeOK, BrokerInv

(* What one worker has in hand is part of what held counts.                *)
LEMMA HandIsHeld ==
    ASSUME CInv, NEW p \in Process, NEW c \in Call
    PROVE  Hand(mw[p], c) <= held[c]
  <1>1. Hands(c) \in [Process -> Nat]
    BY HandsType DEF CInv
  <1>2. Hands(c)[p] <= Sum(Hands(c), Process) /\ Sum(Hands(c), Process) \in Nat /\ Hands(c)[p] \in Nat
    BY <1>1, WorkerAssumption, SumChanges
  <1>3. Sum(Hands(c), Process) <= held[c] /\ held[c] \in Nat
    BY CleanIsSum, CInvGives DEF CInv, HeldType
  <1>4. Hands(c)[p] = Hand(mw[p], c)
    BY DEF Hands
  <1> QED BY <1>2, <1>3, <1>4

LEMMA WorkerStepInv ==
    ASSUME CInv, NEW p \in Process, WorkerStep(p)
    PROVE  CInv'
  <1>1. /\ UNCHANGED <<brokerVars, external_in, external_out, sent, crashes, deaths>>
        /\ QueuesType /\ HeldType /\ WorkersOK
    BY CInvGives DEF CInv, WorkerStep
  <1>2. ASSUME Alone(p), InHandAsHeld(p), QueuesType', held' \in [Call -> Nat]
        PROVE  CInv'
    <2>1. IInv'
      BY <1>1, <1>2, AroundBroker DEF CInv
    <2>2. WorkersOK' /\ HandsAreClean'
      BY <1>1, <1>2, WorkersStay, CleanStays DEF CInv
    <2> QED BY <1>1, <1>2, <2>1, <2>2 DEF CInv
  <1>3. ASSUME UNCHANGED held, Alone(p), InHandAsHeld(p), QueuesType'
        PROVE  CInv'
    BY <1>1, <1>2, <1>3 DEF HeldType
  <1>4. ASSUME NEW w \in WorkerId, connect_to_broker(p, w), UNCHANGED held PROVE CInv'
    BY <1>1, <1>3, <1>4, IdleStep, WorkerQueues
  <1>5. ASSUME NEW a \in mw[p].postponed_actions, PostponeAgain(p, a), UNCHANGED held PROVE CInv'
    BY <1>1, <1>3, <1>5, PostponeAgainStep, WorkerQueues
  <1>6. CASE WaitForMessage(p) /\ UNCHANGED held
    BY <1>1, <1>3, <1>6, WaitForMessageStep, WorkerQueues
  <1>7. CASE /\ \/ TakeHeartbeat(p) \/ TakeDisconnect(p) \/ PollTimeout(p)
                \/ Reconnect(p) \/ HeartbeatIfDue(p) \/ StartWorker(p)
             /\ UNCHANGED held
    BY <1>1, <1>3, <1>7, IdleStep, WorkerQueues
  <1>8. CASE (ActionDone(p) \/ ActionThrows(p)) /\ UNCHANGED held
    BY <1>1, <1>3, <1>8, ActionStep, WorkerQueues
  <1>9. CASE ActionPostponed(p) /\ UNCHANGED held
    BY <1>1, <1>3, <1>9, ActionPostponedStep, WorkerQueues
  <1>10. CASE TakeRequest(p) /\ OwesMore(CallOf(p).call, CallOf(p).actions)
    <2>1. CallOf(p) \in Request
      BY <1>1, <1>10, RequestTaken
    <2>2. CallOf(p).call \in Call /\ CallOf(p).actions \in Nat
      BY <2>1, RequestType
    <2>3. held' \in [Call -> Nat]
      BY <1>1, <1>10, <2>2 DEF OwesMore, HeldType
    <2> QED BY <1>1, <1>2, <1>10, <2>1, <2>3, TakeRequestStep, WorkerQueues
  <1>11. ASSUME NEW a \in mw[p].postponed_actions, AnswerPostponed(p, a), OwesLess(a.reply_to, 1)
         PROVE  CInv'
    <2>1. /\ Alone(p) /\ InHandAsHeld(p)
          /\ Hand(mw[p], a.reply_to) >= 1 /\ a.reply_to \in Call
      BY <1>1, <1>11, AnswerPostponedStep
    <2>2. Hand(mw[p], a.reply_to) <= held[a.reply_to] /\ Hand(mw[p], a.reply_to) \in Nat
      BY <1>1, <2>1, HandIsHeld, HandType DEF WorkersOK
    <2>3. held[a.reply_to] - 1 \in Nat
      BY <1>1, <2>1, <2>2 DEF HeldType
    <2>4. held' \in [Call -> Nat]
      BY <1>1, <1>11, <2>1, <2>3 DEF OwesLess, HeldType
    <2> QED BY <1>1, <1>2, <1>11, <2>1, <2>4, WorkerQueues
  <1>12. CASE FinishRequest(p) /\ OwesLess(mw[p].request.call, mw[p].results)
    <2> DEFINE c == mw[p].request.call
               l == mw[p].results
    <2>1. Alone(p) /\ InHandAsHeld(p) /\ Hand(mw[p], c) >= l /\ c \in Call /\ l \in Nat
      BY <1>1, <1>12, FinishRequestStep
    <2>2. Hand(mw[p], c) <= held[c] /\ Hand(mw[p], c) \in Nat
      BY <1>1, <2>1, HandIsHeld, HandType DEF WorkersOK
    <2>3. held[c] - l \in Nat
      BY <1>1, <2>1, <2>2 DEF HeldType
    <2>4. held' \in [Call -> Nat]
      BY <1>1, <1>12, <2>1, <2>3 DEF OwesLess, HeldType
    <2> QED BY <1>1, <1>2, <1>12, <2>1, <2>4, WorkerQueues
  <1> QED BY <1>4, <1>5, <1>6, <1>7, <1>8, <1>9, <1>10, <1>11, <1>12 DEF WorkerStep

LEMMA WorkerDeathInv ==
    ASSUME CInv, NEW p \in Process, WorkerDeath(p)
    PROVE  CInv'
  <1>1. QueuesType /\ HeldType /\ WorkersOK /\ UNCHANGED held
    BY CInvGives DEF CInv, WorkerDeath, envVars
  <1>2. mw \in [Process -> message_worker] /\ WorkerOK(mw[p]) /\ mw' = [mw EXCEPT ![p] = NotRunning]
    BY <1>1 DEF WorkersOK, WorkerDeath, WorkerDies
  <1>3. Alone(p) /\ mw'[p] = NotRunning
    BY <1>2, NotRunningOK DEF Alone
  <1>4. InHandAsHeld(p)
    <2>1. ASSUME NEW c \in Call
          PROVE  /\ Hand(mw'[p], c) = 0 /\ Hand(mw[p], c) \in Nat
                 /\ held[c] \in Nat /\ held'[c] = held[c]
      BY <1>1, <1>2, <1>3, NotRunningOK, HandType DEF HeldType
    <2> QED BY <2>1 DEF InHandAsHeld
  <1>5. QueuesType'
    <2>1. CASE mw[p].identity # NoId /\ CloseSocket(p)
      <3>1. mw[p].identity \in WorkerId
        BY <1>2, <2>1 DEF WorkerOK, message_worker
      <3> QED BY <1>1, <2>1, <3>1, ClosedType
    <2>2. CASE UNCHANGED <<open, internal_in, internal_out>>
      BY <1>1, <2>2 DEF QueuesType
    <2> QED BY <2>1, <2>2 DEF WorkerDeath, WorkerDies
  <1>6. IInv'
    BY <1>1, <1>5, AroundBroker DEF CInv, WorkerDeath, envVars, HeldType
  <1>7. WorkersOK' /\ HandsAreClean'
    BY <1>1, <1>3, <1>4, WorkersStay, CleanStays DEF CInv, HeldType
  <1>8. deaths' \in 0..MaxDeaths
    BY CdcmAssumption DEF CInv, WorkerDeath
  <1> QED BY <1>5, <1>6, <1>7, <1>8 DEF CInv

(* The broker, the clients and the clock leave the hands alone.            *)
LEMMA HandsUntouched ==
    ASSUME CInv, UNCHANGED held, WorkersOK',
           \A p \in Process : /\ mw'[p].phase = mw[p].phase /\ mw'[p].request = mw[p].request
                              /\ mw'[p].next = mw[p].next /\ mw'[p].results = mw[p].results
                              /\ mw'[p].postponed_actions = mw[p].postponed_actions
    PROVE  HandsAreClean'
  <1>1. ASSUME NEW p \in Process, NEW c PROVE InHand(p, c)' = InHand(p, c)
    BY Zenon DEF InHand
  <1>2. ASSUME NEW c
        PROVE  UNION {{p} \X (1..InHand(p, c)') : p \in Process}
                 = UNION {{p} \X (1..InHand(p, c)) : p \in Process}
    BY <1>1
  <1>3. ASSUME NEW c
        PROVE  Cardinality(UNION {{p} \X (1..InHand(p, c)') : p \in Process})
                 = Cardinality(UNION {{p} \X (1..InHand(p, c)) : p \in Process})
    BY <1>2, Zenon
  <1>4. ASSUME NEW c \in Call
        PROVE  Cardinality(UNION {{p} \X (1..InHand(p, c)) : p \in Process}) <= held[c]
    BY DEF CInv, HandsAreClean
  <1>5. ASSUME NEW c \in Call
        PROVE  Cardinality(UNION {{p} \X (1..InHand(p, c)') : p \in Process}) <= held'[c]
    <2>1. held'[c] = held[c]
      OBVIOUS
    <2> QED BY ONLY <1>3, <1>4, <2>1, c \in Call, Zenon
  <1> QED BY ONLY <1>5, Zenon DEF HandsAreClean

LEMMA CdcmTickInv ==
    ASSUME CInv, CdcmTick
    PROVE  CInv'
  <1>1. IInv /\ Tick
    BY DEF CInv, CdcmTick, Tick, envVars
  <1>2. IInv'
    BY <1>1, TickInv
  <1>3. WorkersOK
    BY DEF CInv
  <1>4. ASSUME NEW p \in Process
        PROVE  /\ WorkerOK(mw'[p])
               /\ mw'[p].phase = mw[p].phase /\ mw'[p].request = mw[p].request
               /\ mw'[p].next = mw[p].next /\ mw'[p].results = mw[p].results
               /\ mw'[p].postponed_actions = mw[p].postponed_actions
    <2>1. WorkerOK(mw[p]) /\ mw[p] \in message_worker
      BY <1>3 DEF WorkersOK
    <2>2. mw'[p] = [mw[p] EXCEPT !.heartbeat_at = Sooner(@), !.wait = Dec(@)]
      BY DEF CdcmTick, WorkersTick
    <2>3. Sooner(mw[p].heartbeat_at) \in -HeartbeatInterval..HeartbeatInterval
      BY <2>1, HeartbeatIntervalAssumption DEF message_worker, Sooner
    <2>4. Dec(mw[p].wait) \in 0..HeartbeatInterval
      BY <2>1, HeartbeatIntervalAssumption DEF message_worker, Dec
    <2>5. /\ mw'[p] \in message_worker
          /\ mw'[p].phase = mw[p].phase /\ mw'[p].request = mw[p].request
          /\ mw'[p].next = mw[p].next /\ mw'[p].results = mw[p].results
          /\ mw'[p].identity = mw[p].identity /\ mw'[p].liveness = mw[p].liveness
          /\ mw'[p].postponed_actions = mw[p].postponed_actions
      BY <2>1, <2>2, <2>3, <2>4 DEF message_worker
    <2> QED BY <2>1, <2>5 DEF WorkerOK
  <1>5. mw' \in [Process -> message_worker]
    BY <1>4 DEF CdcmTick, WorkersTick, WorkerOK
  <1>6. WorkersOK'
    BY <1>4, <1>5 DEF WorkersOK, WorkerOK
  <1>7. HandsAreClean'
    BY <1>4, <1>6, HandsUntouched DEF CdcmTick, envVars
  <1>8. QueuesType'
    BY DEF CInv, QueuesType, CdcmTick, socketVars
  <1> QED BY <1>2, <1>6, <1>7, <1>8 DEF CInv, CdcmTick

LEMMA CdcmInitInv == CdcmInit => CInv
  <1> SUFFICES ASSUME CdcmInit PROVE CInv
    OBVIOUS
  <1>1. IInv
    BY InitInv DEF CdcmInit
  <1>2. WorkersOK
    BY NotRunningOK DEF CdcmInit, WorkerInit, WorkersOK, WorkerOK
  <1>3. ASSUME NEW c \in Call PROVE Sum(Hands(c), Process) <= held[c]
    <2>1. Hands(c) \in [Process -> Nat]
      BY <1>2, HandsType
    <2>2. \A p \in Process : Hands(c)[p] = 0
      BY NotRunningOK DEF CdcmInit, WorkerInit, Hands
    <2>3. Sum(Hands(c), Process) = 0
      BY <2>1, <2>2, SumOfNothing
    <2> QED BY <2>3 DEF CdcmInit, Init
  <1>4. HandsAreClean
    BY <1>3, CleanIsSum
  <1>5. QueuesType
    BY DEF CdcmInit, Init, SocketsInit, QueuesType
  <1> QED BY <1>1, <1>2, <1>4, <1>5, CdcmAssumption DEF CInv, CdcmInit

LEMMA CdcmNextInv == CInv /\ [CdcmNext]_cdcmVars => CInv'
  <1> SUFFICES ASSUME CInv, [CdcmNext]_cdcmVars PROVE CInv'
    OBVIOUS
  <1>1. ASSUME [Next]_vars, UNCHANGED <<mw, deaths, held>>,
               BrokerNext \/ ClientNext \/ BrokerCrash \/ UNCHANGED internal_in
        PROVE  CInv'
    <2>1. IInv'
      BY <1>1, NextInv DEF CInv
    <2>2. WorkersOK'
      BY <1>1 DEF CInv, WorkersOK, WorkerOK
    <2>3. HandsAreClean'
      BY <1>1, <2>2, HandsUntouched
    <2>4. QueuesType'
      BY <1>1, <2>1, BrokerQueues DEF CInv, IInv, TypeOK
    <2> QED BY <1>1, <2>1, <2>2, <2>3, <2>4 DEF CInv
  <1>2. CASE BrokerNext /\ UNCHANGED <<envVars, mw, deaths>>
    BY <1>1, <1>2 DEF Next, Step, envVars
  <1>3. CASE ClientNext /\ UNCHANGED <<mw, deaths>>
    BY <1>1, <1>3 DEF Next, Step, ClientNext, envVars
  <1>4. CASE BrokerCrash /\ UNCHANGED <<mw, deaths>>
    BY <1>1, <1>4 DEF Next, BrokerCrash
  <1>5. ASSUME NEW p \in Process, WorkerStep(p) \/ WorkerDeath(p) PROVE CInv'
    BY <1>5, WorkerStepInv, WorkerDeathInv
  <1>6. CASE CdcmTick
    BY <1>6, CdcmTickInv
  <1>7. CASE UNCHANGED cdcmVars
    BY <1>1, <1>7 DEF cdcmVars, vars, envVars, socketVars
  <1> QED BY <1>2, <1>3, <1>4, <1>5, <1>6, <1>7 DEF CdcmNext

LEMMA CdcmInvariance == CdcmSpec => []CInv
  BY CdcmInitInv, CdcmNextInv, PTL DEF CdcmSpec

-----------------------------------------------------------------------------
(* The broker's data and what every worker_loop works with keep their      *)
(* types: no life below zero, no result past the actions of the request.   *)
THEOREM ServiceTypeCorrect == CdcmSpec => []CdcmTypeOK
  <1>1. CInv => CdcmTypeOK
    BY DEF CInv, IInv, WorkersOK, CdcmTypeOK, WorkerTypeOK
  <1> QED BY <1>1, CdcmInvariance, PTL

(* worker_loop and handle_postponed_actions: whatever dies and whenever,   *)
(* the workers have together in hand no more of a call than was asked of   *)
(* them and has not been answered.                                         *)
THEOREM HandsStayClean == CdcmSpec => []HandsAreClean
  BY CdcmInvariance, PTL DEF CInv

(* What is proved of the broker among any workers holds of it among these: *)
(* no request waits beside an idle worker, and the loop of                 *)
(* service_dispatch never reads through an empty pointer.                  *)
THEOREM ServiceConservesWork == CdcmSpec => [](WorkConserving /\ LoopHasWorkerAndRequest)
  BY CdcmInvariance, PTL DEF CInv, IInv

-----------------------------------------------------------------------------
(* The workers keep to the protocol.  A worker that has a socket has one   *)
(* that is connected, and has it to itself.                                *)
SocketsApart ==
    \A p \in Process : mw[p].identity # NoId =>
        /\ mw[p].identity \in open
        /\ \A q \in Process \ {p} : mw[q].identity # mw[p].identity

LEMMA ApartClosed ==
    ASSUME SocketsApart, WorkersOK, NEW p \in Process, mw[p].identity # NoId, CloseSocket(p),
           Alone(p), mw'[p].identity = NoId
    PROVE  SocketsApart'
  <1>1. \A q \in Process \ {p} : mw'[q] = mw[q]
    BY DEF Alone, WorkersOK
  <1>2. open' = open \ {mw[p].identity}
    BY DEF CloseSocket
  <1> QED BY <1>1, <1>2 DEF SocketsApart

LEMMA BrokerKeepsOpen ==
    ASSUME BrokerNext \/ ClientNext \/ BrokerCrash
    PROVE  open' = open
  <1>1. ASSUME NEW w, ProcessReady(w) \/ ProcessReply(w) \/ ProcessHeartbeat(w)
                      \/ ProcessDisconnect(w) \/ ProcessInvalid(w) \/ DispatchTo(w)
        PROVE  open' = open
    BY <1>1
    DEF ProcessReady, ProcessReply, ProcessHeartbeat, ProcessDisconnect, ProcessInvalid,
        DispatchTo, Receives
  <1>2. CASE Poll \/ client_process \/ Timers
    BY <1>2 DEF Poll, client_process, Timers, socketVars
  <1>3. CASE ClientNext \/ BrokerCrash
    BY <1>3 DEF ClientNext, ClientSend, BrokerCrash
  <1> QED BY <1>1, <1>2, <1>3 DEF BrokerNext

LEMMA WorkerStepApart ==
    ASSUME CInv, SocketsApart, NEW p \in Process, WorkerStep(p)
    PROVE  SocketsApart'
  <1>1. WorkersOK /\ HeldType /\ QueuesType
    BY CInvGives DEF CInv
  <1>2. mw \in [Process -> message_worker] /\ WorkerOK(mw[p]) /\ mw[p] \in message_worker
    BY <1>1 DEF WorkersOK
  <1>3. ASSUME NEW w \in WorkerId, Unremembered(w), connect_to_broker(p, w) PROVE SocketsApart'
    <2>1. mw'[p].identity = w /\ open' = open \cup {w} /\ w \notin open
      BY <1>2, <1>3 DEF connect_to_broker, Unremembered, message_worker
    <2>2. \A q \in Process \ {p} : mw'[q] = mw[q]
      BY <1>2, <1>3 DEF connect_to_broker
    <2> QED BY <2>1, <2>2 DEF SocketsApart
  <1>4. CASE TakeDisconnect(p) /\ UNCHANGED held
    <2>1. mw'[p].identity = NoId /\ CloseSocket(p)
      BY <1>2, <1>4 DEF TakeDisconnect, message_worker
    <2>2. mw[p].identity # NoId
      BY <1>2, <1>4, WorkerAssumption DEF TakeDisconnect, Takes, WorkerOK
    <2> QED BY <1>1, <1>4, <2>1, <2>2, IdleStep, ApartClosed
  <1>5. CASE Reconnect(p) /\ UNCHANGED held
    <2>1. mw'[p].identity = NoId /\ CloseSocket(p)
      BY <1>2, <1>5 DEF Reconnect, message_worker
    <2>2. mw[p].identity # NoId
      BY <1>2, <1>5, WorkerAssumption DEF Reconnect, WorkerOK
    <2> QED BY <1>1, <1>5, <2>1, <2>2, IdleStep, ApartClosed
  <1>6. ASSUME UNCHANGED open, \A q \in Process \ {p} : mw'[q] = mw[q],
               mw'[p].identity = mw[p].identity
        PROVE  SocketsApart'
    BY <1>6 DEF SocketsApart
  <1> USE DEF message_worker
  <1>7. ASSUME NEW a, PostponeAgain(p, a) \/ AnswerPostponed(p, a) PROVE SocketsApart'
    BY <1>2, <1>6, <1>7 DEF PostponeAgain, AnswerPostponed
  <1>8. CASE WaitForMessage(p) \/ TakeHeartbeat(p) \/ TakeRequest(p)
    <2>1. CASE WaitForMessage(p)
      BY <1>2, <1>6, <2>1 DEF WaitForMessage
    <2>2. CASE TakeHeartbeat(p)
      BY <1>2, <1>6, <2>2 DEF TakeHeartbeat
    <2>3. CASE TakeRequest(p)
      BY <1>2, <1>6, <2>3 DEF TakeRequest
    <2> QED BY <1>8, <2>1, <2>2, <2>3
  <1>9. CASE PollTimeout(p) \/ HeartbeatIfDue(p) \/ StartWorker(p)
    <2>1. CASE PollTimeout(p)
      BY <1>2, <1>6, <2>1 DEF PollTimeout
    <2>2. CASE HeartbeatIfDue(p)
      BY <1>2, <1>6, <2>2 DEF HeartbeatIfDue
    <2>3. CASE StartWorker(p)
      BY <1>2, <1>6, <2>3 DEF StartWorker
    <2> QED BY <1>9, <2>1, <2>2, <2>3
  <1>10. CASE ActionDone(p) \/ ActionPostponed(p) \/ ActionThrows(p) \/ FinishRequest(p)
    BY <1>2, <1>6, <1>10 DEF ActionDone, ActionPostponed, ActionThrows, FinishRequest
  <1> QED BY <1>3, <1>4, <1>5, <1>7, <1>8, <1>9, <1>10 DEF WorkerStep

LEMMA ApartInv ==
    ASSUME CInv, SocketsApart, [CdcmNext]_cdcmVars
    PROVE  SocketsApart'
  <1>1. ASSUME UNCHANGED <<open, mw>> PROVE SocketsApart'
    BY <1>1 DEF SocketsApart
  <1>2. CASE (BrokerNext \/ ClientNext \/ BrokerCrash) /\ UNCHANGED mw
    <2>1. open' = open
      BY <1>2, BrokerKeepsOpen
    <2> QED BY <1>1, <1>2, <2>1
  <1>3. ASSUME NEW p \in Process, WorkerDeath(p) PROVE SocketsApart'
    <2>1. WorkersOK /\ mw[p] \in message_worker /\ mw' = [mw EXCEPT ![p] = NotRunning]
      BY <1>3 DEF CInv, WorkersOK, WorkerDeath, WorkerDies
    <2>2. Alone(p) /\ mw'[p].identity = NoId /\ \A q \in Process \ {p} : mw'[q] = mw[q]
      BY <2>1, NotRunningOK DEF Alone, NotRunning, WorkersOK
    <2>3. CASE mw[p].identity # NoId /\ CloseSocket(p)
      BY <2>1, <2>2, <2>3, ApartClosed
    <2>4. CASE mw[p].identity = NoId /\ UNCHANGED open
      BY <2>2, <2>4 DEF SocketsApart
    <2> QED BY <1>3, <2>3, <2>4 DEF WorkerDeath, WorkerDies
  <1>4. CASE CdcmTick
    <2>1. ASSUME NEW p \in Process PROVE mw'[p].identity = mw[p].identity
      BY <1>4 DEF CdcmTick, WorkersTick, CInv, WorkersOK, message_worker
    <2>2. open' = open
      BY <1>4 DEF CdcmTick, socketVars
    <2> QED BY <2>1, <2>2, Zenon DEF SocketsApart
  <1>5. CASE UNCHANGED cdcmVars
    BY <1>1, <1>5 DEF cdcmVars, vars, socketVars
  <1> QED BY <1>2, <1>3, <1>4, <1>5, WorkerStepApart DEF CdcmNext

(* A step of a worker is one of the worker whose socket it has.            *)
LEMMA SentIsSaid ==
    ASSUME SocketsApart, NEW p \in Process, mw[p].identity \in WorkerId,
           NEW m, SendToBroker(p, m)
    PROVE  SaysAnyway(mw[p].identity, m)
  BY WorkerAssumption DEF SocketsApart, SendToBroker, SaysAnyway

LEMMA ClosingIsOne ==
    ASSUME SocketsApart, NEW p \in Process, mw[p].identity \in WorkerId,
           CloseSocket(p), AnnouncedIsSafe,
           UNCHANGED <<brokerVars, external_in, external_out, sent, envVars>>
    PROVE  WorkerNext
  <1> DEFINE w == mw[p].identity
  <1>1. w \in open
    BY WorkerAssumption DEF SocketsApart
  <1>2. PICK kept \in 0..Len(internal_in[w]) : Closes(w, kept)
    BY DEF CloseSocket, Closes, AnnouncedIsSafe
  <1>3. WorkerCloses(w)
    BY <1>1, <1>2 DEF WorkerCloses
  <1> QED BY <1>3 DEF WorkerNext

LEMMA WorkerSimulates ==
    ASSUME CInv, SocketsApart, NEW p \in Process, WorkerStep(p)
    PROVE  [UnboundedNext]_vars
  <1> DEFINE w == mw[p].identity
  <1>1. /\ UNCHANGED <<brokerVars, external_in, external_out, sent, crashes>>
        /\ WorkersOK /\ HeldType /\ QueuesType
    BY CInvGives DEF CInv, WorkerStep
  <1>2. /\ mw[p] \in message_worker /\ WorkerOK(mw[p])
        /\ mw[p].phase \notin {"down", "connect"} => w \in WorkerId
    BY <1>1 DEF WorkersOK, WorkerOK
  <1>3. WorkerNext \/ SpeakNext => UnboundedNext
    BY DEF Next, Step, UnboundedNext
  <1>4. ASSUME UNCHANGED <<open, internal_in, internal_out, held>> PROVE [UnboundedNext]_vars
    BY <1>1, <1>4 DEF vars, socketVars, envVars
  <1>5. ASSUME NEW v \in WorkerId, Unremembered(v), connect_to_broker(p, v), UNCHANGED held
        PROVE  [UnboundedNext]_vars
    <2>1. WorkerOpens(v)
      BY <1>1, <1>5 DEF WorkerOpens, Unremembered, connect_to_broker, envVars
    <2> QED BY <1>3, <2>1 DEF WorkerNext
  <1>6. CASE TakeHeartbeat(p) /\ UNCHANGED held
    <2>1. w \in WorkerId
      BY <1>2, <1>6 DEF TakeHeartbeat, Takes
    <2>2. WorkerTakesHeartbeat(w)
      BY <1>1, <1>6 DEF WorkerTakesHeartbeat, TakeHeartbeat, Takes, Consumed, envVars
    <2> QED BY <1>3, <2>1, <2>2 DEF WorkerNext
  <1>7. CASE TakeRequest(p) /\ OwesMore(CallOf(p).call, CallOf(p).actions)
    <2>1. w \in WorkerId
      BY <1>2, <1>7 DEF TakeRequest, Takes
    <2>2. WorkerTakesRequest(w)
      BY <1>1, <1>7
      DEF WorkerTakesRequest, TakeRequest, Takes, Consumed, OwesMore, CallOf
    <2> QED BY <1>3, <2>1, <2>2 DEF WorkerNext
  <1>8. CASE /\ \/ TakeDisconnect(p) /\ AnnouncedIsSafe
                \/ Reconnect(p) /\ AnnouncedIsSafe
             /\ UNCHANGED held
    <2>1. w \in WorkerId /\ CloseSocket(p) /\ AnnouncedIsSafe
      BY <1>2, <1>8 DEF TakeDisconnect, Takes, Reconnect
    <2>2. WorkerNext
      BY <1>1, <1>8, <2>1, ClosingIsOne DEF envVars
    <2> QED BY <1>3, <2>2
  <1>9. CASE HeartbeatIfDue(p) /\ UNCHANGED held
    <2>1. w \in WorkerId
      BY <1>2, <1>9 DEF HeartbeatIfDue
    <2>2. CASE SendToBroker(p, [cmd |-> "HEARTBEAT"])
      <3>1. SaysAnyway(w, [cmd |-> "HEARTBEAT"])
        BY <2>1, <2>2, SentIsSaid
      <3>2. HeartbeatsAnyway(w)
        BY <1>1, <1>9, <3>1 DEF HeartbeatsAnyway, HeartbeatIfDue, envVars
      <3> QED BY <1>3, <2>1, <3>2 DEF SpeakNext
    <2>3. CASE UNCHANGED internal_in
      BY <1>4, <1>9, <2>3 DEF HeartbeatIfDue
    <2> QED BY <1>9, <2>2, <2>3 DEF HeartbeatIfDue
  <1>10. ASSUME NEW c \in Call, NEW n \in 1..MaxActions, n <= held[c], w \in WorkerId,
                SendToBroker(p, [cmd |-> "REPLY", call |-> c, results |-> n]), OwesLess(c, n),
                UNCHANGED <<open, internal_out>>
         PROVE  [UnboundedNext]_vars
    <2>1. SaysAnyway(w, [cmd |-> "REPLY", call |-> c, results |-> n])
      BY <1>10, SentIsSaid
    <2>2. RepliesAnyway(w, c)
      BY <1>1, <1>10, <2>1 DEF RepliesAnyway, OwesLess
    <2> QED BY <1>3, <1>10, <2>2 DEF SpeakNext
  <1>11. ASSUME NEW a \in mw[p].postponed_actions, AnswerPostponed(p, a), OwesLess(a.reply_to, 1)
         PROVE  [UnboundedNext]_vars
    <2>1. a \in postponed_action /\ w \in WorkerId
      BY <1>2, <1>11 DEF message_worker, AnswerPostponed
    <2>2. 1 \in 1..MaxActions
      BY <2>1, RequestAssumption DEF postponed_action
    <2>3. Hand(mw[p], a.reply_to) >= 1 /\ a.reply_to \in Call
      BY <1>1, <1>11, AnswerPostponedStep
    <2>4. 1 <= held[a.reply_to]
      <3>1. Hand(mw[p], a.reply_to) <= held[a.reply_to] /\ Hand(mw[p], a.reply_to) \in Nat
        BY <1>2, <2>3, HandIsHeld, HandType
      <3> QED BY <1>1, <2>3, <3>1 DEF HeldType
    <2> QED BY <1>10, <1>11, <2>1, <2>2, <2>3, <2>4 DEF AnswerPostponed
  <1>12. CASE FinishRequest(p) /\ OwesLess(mw[p].request.call, mw[p].results)
    <2> DEFINE c == mw[p].request.call
               l == mw[p].results
    <2>1. w \in WorkerId /\ l \in 0..MaxActions
      BY <1>2, <1>12 DEF message_worker, FinishRequest
    <2>2. Hand(mw[p], c) >= l /\ c \in Call /\ l \in Nat
      BY <1>1, <1>12, FinishRequestStep
    <2>3. l <= held[c] /\ held[c] \in Nat
      <3>1. Hand(mw[p], c) <= held[c] /\ Hand(mw[p], c) \in Nat
        BY <1>2, <2>2, HandIsHeld, HandType
      <3> QED BY <1>1, <2>2, <3>1 DEF HeldType
    <2>4. CASE l > 0 /\ SendToBroker(p, [cmd |-> "REPLY", call |-> c, results |-> l])
      <3>1. l \in 1..MaxActions /\ UNCHANGED <<open, internal_out>>
        BY <1>12, <2>1, <2>4, RequestAssumption DEF FinishRequest
      <3> QED BY <1>10, <1>12, <2>1, <2>2, <2>3, <2>4, <3>1
    <2>5. CASE l = 0 /\ UNCHANGED internal_in
      <3>1. held' = held
        BY <1>1, <1>12, <2>3, <2>5 DEF OwesLess, HeldType
      <3> QED BY <1>4, <1>12, <2>5, <3>1 DEF FinishRequest
    <2> QED BY <1>12, <2>4, <2>5 DEF FinishRequest
  <1>13. CASE /\ \/ \E a \in mw[p].postponed_actions : PostponeAgain(p, a)
                 \/ WaitForMessage(p) \/ PollTimeout(p) \/ StartWorker(p)
              /\ UNCHANGED held
    BY <1>4, <1>13 DEF PostponeAgain, WaitForMessage, PollTimeout, StartWorker
  <1>14. CASE (ActionDone(p) \/ ActionPostponed(p) \/ ActionThrows(p)) /\ UNCHANGED held
    BY <1>4, <1>14 DEF ActionDone, ActionPostponed, ActionThrows
  <1> QED BY <1>5, <1>6, <1>7, <1>8, <1>9, <1>11, <1>12, <1>13, <1>14 DEF WorkerStep

LEMMA StepSimulates ==
    ASSUME CInv, SocketsApart, [CdcmNext]_cdcmVars
    PROVE  [UnboundedNext]_vars
  <1>1. CASE BrokerNext /\ UNCHANGED <<envVars, mw, deaths>>
    BY <1>1 DEF UnboundedNext, Next, Step
  <1>2. CASE ClientNext \/ BrokerCrash
    BY <1>2 DEF UnboundedNext, Next, Step
  <1>3. ASSUME NEW p \in Process, WorkerDeath(p) PROVE [UnboundedNext]_vars
    <2>1. /\ UNCHANGED <<brokerVars, external_in, external_out, sent, envVars>>
          /\ AnnouncedIsSafe
      BY <1>3 DEF WorkerDeath
    <2>2. CASE mw[p].identity # NoId /\ CloseSocket(p)
      <3>1. mw[p].identity \in WorkerId
        BY <2>2 DEF CInv, WorkersOK, WorkerOK, message_worker
      <3>2. WorkerNext
        BY <2>1, <2>2, <3>1, ClosingIsOne
      <3> QED BY <3>2 DEF UnboundedNext, Next, Step
    <2>3. CASE UNCHANGED <<open, internal_in, internal_out>>
      BY <2>1, <2>3 DEF vars, socketVars
    <2> QED BY <1>3, <2>2, <2>3 DEF WorkerDeath, WorkerDies
  <1>4. CASE CdcmTick
    BY <1>4 DEF CdcmTick, UnboundedNext, Next, Tick
  <1>5. CASE UNCHANGED cdcmVars
    BY <1>5 DEF cdcmVars
  <1> QED BY <1>1, <1>2, <1>3, <1>4, <1>5, WorkerSimulates DEF CdcmNext

LEMMA WithoutBound ==
    ASSUME MaxQueue = Unbounded, [UnboundedNext]_vars
    PROVE  [Next]_vars
  <1>1. SpeakNext => WorkerNext
    BY DEF SpeakNext, WorkerNext, Room, RepliesAnyway, WorkerReplies, HeartbeatsAnyway,
           WorkerHeartbeats, SaysAnyway, Says
  <1> QED BY <1>1 DEF UnboundedNext, Next, Step

(* connect_to_broker, send_to_broker, recv: the workers say what MDP lets  *)
(* workers say, from a socket of their own, and reply no more than they    *)
(* were asked, so that the service is a BrokerSystem: one whose queues     *)
(* have no bound.                                                          *)
THEOREM ServiceImplementsProtocol ==
    ASSUME MaxQueue = Unbounded
    PROVE  CdcmSpec => ImplementsProtocol
  <1>1. CdcmInit => SocketsApart /\ Init
    BY DEF CdcmInit, WorkerInit, NotRunning, SocketsApart
  <1>2. CInv /\ SocketsApart /\ [CdcmNext]_cdcmVars => SocketsApart'
    BY ApartInv
  <1>3. CInv /\ SocketsApart /\ [CdcmNext]_cdcmVars => [Next]_vars
    BY StepSimulates, WithoutBound
  <1> QED BY <1>1, <1>2, <1>3, CdcmInvariance, PTL DEF CdcmSpec, Spec, ImplementsProtocol

(* Only a READY gets a worker into the register.                           *)
OnlyReadyRegisters ==
    [][\A w \in WorkerId :
          exists(workers, w)' /\ ~exists(workers, w)
          => internal_in[w] # <<>> /\ Head(internal_in[w]).cmd = "READY"]_vars

LEMMA ServiceRegister ==
    ASSUME CInv, SocketsApart, [CdcmNext]_cdcmVars
    PROVE  \A w \in WorkerId :
              exists(workers, w)' /\ ~exists(workers, w)
              => internal_in[w] # <<>> /\ Head(internal_in[w]).cmd = "READY"
  <1>1. IInv /\ QueuesType /\ [UnboundedNext]_vars
    BY StepSimulates DEF CInv
  <1>2. CASE [Next]_vars
    <2> SUFFICES ASSUME NEW w \in WorkerId, exists(workers, w)', ~exists(workers, w)
                 PROVE  internal_in[w] # <<>> /\ Head(internal_in[w]).cmd = "READY"
      OBVIOUS
    <2>1. internal_in[w] # <<>> /\ Head(internal_in[w]).cmd \in {"READY", "INVALID"}
      BY <1>1, <1>2, StepRegister
    <2>2. Head(internal_in[w]) \in Known
      BY <1>1, <2>1, HeadTailProperties DEF QueuesType
    <2> QED BY <2>1, <2>2 DEF Known
  <1>3. CASE SpeakNext
    <2>1. workers' = workers
      BY <1>3 DEF SpeakNext, RepliesAnyway, HeartbeatsAnyway, brokerVars
    <2> QED BY <2>1 DEF exists
  <1> QED BY <1>1, <1>2, <1>3 DEF UnboundedNext

(* worker_process registers the sender of a command it does not know, but  *)
(* no worker of the service ever sends one: here it takes a READY to get   *)
(* into the register, and a worker that has been purged or forgotten stays *)
(* out of it, whatever it answers and beats, until it connects anew.       *)
THEOREM ServiceKeepsRegister == CdcmSpec => OnlyReadyRegisters
  <1>1. CdcmInit => SocketsApart
    BY DEF CdcmInit, WorkerInit, NotRunning, SocketsApart
  <1>2. CInv /\ SocketsApart /\ [CdcmNext]_cdcmVars => SocketsApart'
    BY ApartInv
  <1> QED BY <1>1, <1>2, ServiceRegister, CdcmInvariance, PTL
          DEF CdcmSpec, OnlyReadyRegisters

(* The whole service, with the worker processes as they are and queues of  *)
(* any length, keeps the promise of CallPromise to its clients: recv and   *)
(* handle_postponed_actions answer no action that was not asked of them,   *)
(* and no death of a process, lost socket or purge has one answered again. *)
THEOREM ServiceKeepsPromise == CdcmSpec => KeepsPromise
  <1>1. CdcmInit => PInv /\ Promise!Init /\ SocketsApart
    BY PromiseInit DEF CdcmInit, WorkerInit, NotRunning, SocketsApart
  <1>2. CInv /\ SocketsApart /\ [CdcmNext]_cdcmVars => SocketsApart'
    BY ApartInv
  <1>3. CInv /\ CInv' /\ SocketsApart /\ PInv /\ [CdcmNext]_cdcmVars
            => PInv' /\ [Promise!Next]_(Promise!vars)
    BY StepSimulates, PromiseStep DEF CInv
  <1> QED BY <1>1, <1>2, <1>3, CdcmInvariance, PTL DEF CdcmSpec, KeepsPromise, Promise!Spec
=============================================================================
