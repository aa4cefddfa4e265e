------------------------- MODULE BrokerSystemProofs -------------------------
(***************************************************************************)
(* Proofs about BrokerSystem, for any number of workers, clients and       *)
(* requests, any expiry and interval, and any behaviour of the workers     *)
(* that the protocol allows.                                               *)
(***************************************************************************)
EXTENDS BrokerSystem, SequenceTheorems, TLAPS

(* A container is a function from registered identities to entries.        *)
LEMMA ContainerElim ==
    ASSUME NEW ws \in worker_container
    PROVE  DOMAIN ws \subseteq WorkerId /\ ws \in [DOMAIN ws -> worker]
  BY DEF worker_container

LEMMA ContainerIntro ==
    ASSUME NEW ids \in SUBSET WorkerId, NEW ws \in [ids -> worker]
    PROVE  ws \in worker_container
  BY DEF worker_container

(* What the operations of worker_container leave behind is a container.    *)
LEMMA NewWorkerType == NewWorker \in worker
  BY HeartbeatExpiryAssumption DEF NewWorker, worker, SessionId

LEMMA NoWorkersType == NoWorkers \in worker_container
  <1>1. NoWorkers \in [{} -> worker]
    BY DEF NoWorkers
  <1> QED BY <1>1, ContainerIntro

LEMMA InsertType ==
    ASSUME NEW ws \in worker_container, NEW w \in WorkerId
    PROVE  /\ insert(ws, w) \in worker_container
           /\ DOMAIN insert(ws, w) = DOMAIN ws \cup {w}
           /\ w \notin DOMAIN ws => Waiting(insert(ws, w)) = Waiting(ws)
  <1>1. insert(ws, w) \in [DOMAIN ws \cup {w} -> worker]
    BY ContainerElim, NewWorkerType DEF insert
  <1>2. DOMAIN ws \cup {w} \in SUBSET WorkerId
    BY ContainerElim
  <1>3. /\ \A v \in DOMAIN ws \ {w} : insert(ws, w)[v] = ws[v]
        /\ insert(ws, w)[w].announced = FALSE
    BY DEF insert, NewWorker
  <1>4. DOMAIN insert(ws, w) = DOMAIN ws \cup {w}
    BY DEF insert
  <1>5. w \notin DOMAIN ws => Waiting(insert(ws, w)) = Waiting(ws)
    BY <1>3, <1>4 DEF Waiting, idle_workers
  <1> QED BY <1>1, <1>2, <1>4, <1>5, ContainerIntro

LEMMA EraseType ==
    ASSUME NEW ws \in worker_container, NEW gone
    PROVE  /\ erase(ws, gone) \in worker_container
           /\ DOMAIN erase(ws, gone) = DOMAIN ws \ gone
           /\ \A v \in DOMAIN ws \ gone : erase(ws, gone)[v] = ws[v]
           /\ Waiting(erase(ws, gone)) \subseteq Waiting(ws)
  <1>1. erase(ws, gone) \in [DOMAIN ws \ gone -> worker]
    BY ContainerElim DEF erase, Restrict
  <1>2. DOMAIN ws \ gone \in SUBSET WorkerId
    BY ContainerElim
  <1>3. erase(ws, gone) \in worker_container
    BY <1>1, <1>2, ContainerIntro
  <1>4. /\ DOMAIN erase(ws, gone) = DOMAIN ws \ gone
        /\ \A v \in DOMAIN ws \ gone : erase(ws, gone)[v] = ws[v]
    BY DEF erase, Restrict
  <1> QED BY <1>3, <1>4 DEF Waiting, idle_workers

LEMMA UpdateType ==
    ASSUME NEW ws \in worker_container, NEW w \in DOMAIN ws, NEW id \in SessionId
    PROVE  /\ set_idle(ws, w) \in worker_container
           /\ set_busy(ws, w) \in worker_container
           /\ update_expiration(ws, w) \in worker_container
           /\ update_last_worked(ws, w, id) \in worker_container
           /\ DOMAIN set_idle(ws, w) = DOMAIN ws
           /\ DOMAIN set_busy(ws, w) = DOMAIN ws
           /\ DOMAIN update_expiration(ws, w) = DOMAIN ws
           /\ DOMAIN update_last_worked(ws, w, id) = DOMAIN ws
           /\ Waiting(update_expiration(ws, w)) = Waiting(ws)
  <1> DEFINE ids == DOMAIN ws
  <1>1. ids \in SUBSET WorkerId /\ ws \in [ids -> worker]
    BY ContainerElim
  <1>2. set_idle(ws, w) \in [ids -> worker]
    BY <1>1 DEF set_idle, worker
  <1>3. set_busy(ws, w) \in [ids -> worker]
    BY <1>1 DEF set_busy, worker
  <1>4. update_expiration(ws, w) \in [ids -> worker]
    BY <1>1, HeartbeatExpiryAssumption DEF update_expiration, worker
  <1>5. update_last_worked(ws, w, id) \in [ids -> worker]
    BY <1>1 DEF update_last_worked, worker
  <1>6. \A v \in ids : /\ update_expiration(ws, w)[v].idle = ws[v].idle
                      /\ update_expiration(ws, w)[v].announced = ws[v].announced
    BY <1>1 DEF update_expiration, worker
  <1> HIDE DEF ids
  <1>7. /\ DOMAIN set_idle(ws, w) = ids
        /\ DOMAIN set_busy(ws, w) = ids
        /\ DOMAIN update_expiration(ws, w) = ids
        /\ DOMAIN update_last_worked(ws, w, id) = ids
    BY <1>2, <1>3, <1>4, <1>5
  <1>8. /\ set_idle(ws, w) \in worker_container
        /\ set_busy(ws, w) \in worker_container
        /\ update_expiration(ws, w) \in worker_container
        /\ update_last_worked(ws, w, id) \in worker_container
    BY <1>1, <1>2, <1>3, <1>4, <1>5, ContainerIntro
  <1> QED BY <1>6, <1>7, <1>8 DEF ids, Waiting, idle_workers

LEMMA AgeType ==
    ASSUME NEW ws \in worker_container
    PROVE  /\ Age(ws) \in worker_container
           /\ DOMAIN Age(ws) = DOMAIN ws
           /\ Waiting(Age(ws)) = Waiting(ws)
  <1> DEFINE ids == DOMAIN ws
  <1>1. ids \in SUBSET WorkerId /\ ws \in [ids -> worker]
    BY ContainerElim
  <1>2. ASSUME NEW v \in ids
        PROVE  /\ Age(ws)[v] \in worker /\ Age(ws)[v].idle = ws[v].idle
               /\ Age(ws)[v].announced = ws[v].announced
    BY <1>1, HeartbeatExpiryAssumption DEF Age, worker
  <1>3. Age(ws) \in [ids -> worker]
    BY <1>2 DEF Age
  <1> HIDE DEF ids
  <1>4. Age(ws) \in worker_container
    BY <1>1, <1>3, ContainerIntro
  <1>5. DOMAIN Age(ws) = ids
    BY <1>3
  <1> QED BY <1>2, <1>4, <1>5 DEF ids, Waiting, idle_workers

(* purge_workers adds no worker, idle or busy.                             *)
LEMMA PurgeType ==
    ASSUME NEW ws \in worker_container
    PROVE  /\ purge_workers(ws) \in worker_container
           /\ DOMAIN purge_workers(ws) \subseteq DOMAIN ws
           /\ Waiting(purge_workers(ws)) \subseteq Waiting(ws)
  <1> DEFINE gone == {w \in idle_workers(ws) : ws[w].expiry = 0}
  <1>1. purge_workers(ws) = erase(ws, gone)
    BY DEF purge_workers
  <1> HIDE DEF gone
  <1>2. /\ erase(ws, gone) \in worker_container
        /\ DOMAIN erase(ws, gone) = DOMAIN ws \ gone
        /\ Waiting(erase(ws, gone)) \subseteq Waiting(ws)
    BY EraseType
  <1> QED BY <1>1, <1>2

-----------------------------------------------------------------------------
(* Queues                                                                  *)

LEMMA WithMessageType ==
    ASSUME NEW out \in [WorkerId -> Seq(ToWorker)], NEW w \in WorkerId, NEW m \in ToWorker
    PROVE  WithMessage(out, w, m) \in [WorkerId -> Seq(ToWorker)]
  BY AppendProperties DEF WithMessage

LEMMA WithHeartbeatsType ==
    ASSUME NEW out \in [WorkerId -> Seq(ToWorker)], NEW ws
    PROVE  WithHeartbeats(out, ws) \in [WorkerId -> Seq(ToWorker)]
  <1>1. [cmd |-> "HEARTBEAT"] \in ToWorker
    BY DEF ToWorker
  <1>2. ASSUME NEW w \in WorkerId
        PROVE  Append(out[w], [cmd |-> "HEARTBEAT"]) \in Seq(ToWorker)
    BY <1>1, AppendProperties
  <1> QED BY <1>2 DEF WithHeartbeats

(* Any part of a queue is a queue.                                         *)
LEMMA PartType ==
    ASSUME NEW S, NEW q \in Seq(S), NEW m \in Nat \ {0}, NEW n \in 0..Len(q)
    PROVE  SubSeq(q, m, n) \in Seq(S)
  <1>1. \A i \in m..n : q[i] \in S
    BY ElementOfSeq, LenProperties
  <1> QED BY <1>1, SubSeqProperties

LEMMA OlderType ==
    ASSUME NEW S, NEW q \in Seq(S)
    PROVE  Older(q) \subseteq Seq(S)
  BY PartType DEF Older

LEMMA NewerType ==
    ASSUME NEW S, NEW q \in Seq(S)
    PROVE  Newer(q) \subseteq Seq(S)
  <1>1. Len(q) \in 0..Len(q)
    BY LenProperties
  <1>2. ASSUME NEW k \in 1..Len(q) + 1
        PROVE  k \in Nat \ {0}
    BY LenProperties
  <1> QED BY <1>1, <1>2, PartType DEF Newer

(* What a client has been sent stays a count.                              *)
LEMMA ResultsType ==
    ASSUME NEW out \in [Call -> ClientBox], NEW c \in Call, NEW n \in Nat
    PROVE  [out EXCEPT ![c].results = @ + n] \in [Call -> ClientBox]
  <1>1. out[c] \in [results : Nat, local : Nat, malformed : Nat]
    BY DEF ClientBox
  <1>2. [out[c] EXCEPT !.results = @ + n] \in ClientBox
    BY <1>1 DEF ClientBox
  <1> QED BY <1>2

LEMMA LocalRepliesType ==
    ASSUME NEW out \in [Call -> ClientBox], NEW c \in Call, NEW b \in BOOLEAN, NEW d \in BOOLEAN
    PROVE  [out EXCEPT ![c].malformed = IF b THEN @ + 1 ELSE @,
                       ![c].local = IF d THEN @ + 1 ELSE @] \in [Call -> ClientBox]
  <1>1. out[c] \in [results : Nat, local : Nat, malformed : Nat]
    BY DEF ClientBox
  <1>2. /\ (IF b THEN out[c].malformed + 1 ELSE out[c].malformed) \in Nat
        /\ (IF d THEN out[c].local + 1 ELSE out[c].local) \in Nat
    BY <1>1
  <1>3. [out[c] EXCEPT !.malformed = IF b THEN @ + 1 ELSE @] \in ClientBox
    BY <1>1, <1>2 DEF ClientBox
  <1>4. [out[c] EXCEPT !.malformed = IF b THEN @ + 1 ELSE @,
                       !.local = IF d THEN @ + 1 ELSE @] \in ClientBox
    BY <1>1, <1>2, <1>3 DEF ClientBox
  <1> QED BY <1>4

-----------------------------------------------------------------------------
(* The inductive invariant: in the loop of service_dispatch there are a    *)
(* worker and a request, and outside it no request waits beside an idle    *)
(* worker that has announced itself.                                       *)
IInv == TypeOK /\ WorkConserving /\ LoopHasWorkerAndRequest

(* The broker's half of it.                                                *)
BrokerInv == BrokerTypeOK /\ WorkConserving /\ LoopHasWorkerAndRequest

(* service_dispatch establishes BrokerInv, whatever container and queue it *)
(* is called with.                                                         *)
LEMMA ServiceDispatchInv ==
    ASSUME NEW ws \in worker_container, NEW q \in Seq(Request), NEW id \in SessionId,
           NEW rest \in SUBSET (Stage \ {"dispatch"}),
           heartbeat_at' \in -HeartbeatInterval..HeartbeatInterval,
           service_dispatch(ws, q, id, rest)
    PROVE  BrokerInv'
  <1> DEFINE live == purge_workers(ws)
  <1>1. live \in worker_container
    BY PurgeType
  <1>2. idle_workers(live) \subseteq DOMAIN live /\ Waiting(live) \subseteq idle_workers(live)
    BY DEF idle_workers, Waiting
  <1> HIDE DEF live
  <1>3. /\ workers' = live
        /\ requests' = q
        /\ todo' = IF idle_workers(live) # {} /\ q # <<>> THEN rest \cup {"dispatch"} ELSE rest
        /\ dispatch_id' = IF idle_workers(live) # {} /\ q # <<>> THEN id ELSE EmptyId
    BY DEF service_dispatch, live
  <1>4. EmptyId \in SessionId
    BY DEF SessionId
  <1>5. BrokerTypeOK'
    BY <1>1, <1>3, <1>4 DEF BrokerTypeOK, Stage
  <1>6. CASE idle_workers(live) # {} /\ q # <<>>
    BY <1>2, <1>3, <1>5, <1>6 DEF BrokerInv, WorkConserving, LoopHasWorkerAndRequest
  <1>7. CASE ~(idle_workers(live) # {} /\ q # <<>>)
    BY <1>2, <1>3, <1>5, <1>7 DEF BrokerInv, WorkConserving, LoopHasWorkerAndRequest
  <1> QED BY <1>6, <1>7

(* Erasing workers outside the loop keeps BrokerInv.                       *)
LEMMA EraseInv ==
    ASSUME BrokerInv, NEW gone, workers' = erase(workers, gone),
           requests' = requests, dispatch_id' = dispatch_id,
           todo' \in SUBSET (Stage \ {"dispatch"}), "dispatch" \notin todo,
           heartbeat_at' \in -HeartbeatInterval..HeartbeatInterval
    PROVE  BrokerInv'
  <1>1. workers \in worker_container
    BY DEF BrokerInv, BrokerTypeOK
  <1>2. /\ erase(workers, gone) \in worker_container
        /\ Waiting(erase(workers, gone)) \subseteq Waiting(workers)
    BY <1>1, EraseType
  <1>3. BrokerTypeOK'
    BY <1>2 DEF BrokerInv, BrokerTypeOK
  <1> QED BY <1>2, <1>3 DEF BrokerInv, WorkConserving, LoopHasWorkerAndRequest

-----------------------------------------------------------------------------
(* Each step of the broker keeps the invariant.                            *)

(* A message is taken from the socket before it is handled.                *)
LEMMA ReceivesType ==
    ASSUME TypeOK, NEW w \in WorkerId, NEW cmd, Receives(w, cmd)
    PROVE  /\ Head(internal_in[w]) \in FromWorker
           /\ Head(internal_in[w]).cmd = cmd
           /\ internal_in' \in [WorkerId -> Seq(FromWorker)]
           /\ rest_of_loop \in SUBSET (Stage \ {"dispatch"})
           /\ "dispatch" \notin todo
           /\ heartbeat_at' \in -HeartbeatInterval..HeartbeatInterval
           /\ open' = open /\ external_in' = external_in /\ sent' = sent
  <1>1. internal_in[w] \in Seq(FromWorker) /\ internal_in[w] # <<>>
    BY DEF TypeOK, SocketsTypeOK, Receives
  <1>2. Head(internal_in[w]) \in FromWorker /\ Tail(internal_in[w]) \in Seq(FromWorker)
    BY <1>1, HeadTailProperties
  <1> QED BY <1>2 DEF TypeOK, SocketsTypeOK, BrokerTypeOK, Receives, rest_of_loop

LEMMA DisconnectsInv ==
    ASSUME IInv, NEW w \in WorkerId, NEW cmd, Receives(w, cmd), Disconnects(w)
    PROVE  BrokerInv' /\ internal_out' \in [WorkerId -> Seq(ToWorker)]
  <1>1. [cmd |-> "DISCONNECT"] \in ToWorker
    BY DEF ToWorker
  <1>2. internal_out' \in [WorkerId -> Seq(ToWorker)]
    BY <1>1, WithMessageType DEF IInv, TypeOK, SocketsTypeOK, Disconnects
  <1>3. BrokerInv
    BY DEF IInv, TypeOK, BrokerInv
  <1>4. BrokerInv'
    BY <1>3, EraseInv, ReceivesType DEF Disconnects, KeepsQueue, IInv
  <1> QED BY <1>2, <1>4

LEMMA WorkerWaitingInv ==
    ASSUME IInv, NEW w \in WorkerId, NEW cmd, Receives(w, cmd),
           NEW ws \in worker_container, w \in DOMAIN ws, worker_waiting(ws, w)
    PROVE  BrokerInv'
  <1> DEFINE updated == update_expiration(set_idle(ws, w), w)
  <1>1. EmptyId \in SessionId
    BY DEF SessionId
  <1>2. set_idle(ws, w) \in worker_container /\ w \in DOMAIN set_idle(ws, w)
    BY <1>1, UpdateType
  <1>3. updated \in worker_container
    BY <1>1, <1>2, UpdateType
  <1>4. requests \in Seq(Request)
    BY DEF IInv, TypeOK, BrokerTypeOK
  <1>5. service_dispatch(updated, requests, EmptyId, rest_of_loop)
    BY DEF worker_waiting
  <1> HIDE DEF updated
  <1>6. /\ rest_of_loop \in SUBSET (Stage \ {"dispatch"})
        /\ heartbeat_at' \in -HeartbeatInterval..HeartbeatInterval
    BY ReceivesType DEF IInv
  <1> QED BY <1>1, <1>3, <1>4, <1>5, <1>6, ServiceDispatchInv

(* What is left to show of a message from a worker.                        *)
LEMMA ProcessedInv ==
    ASSUME IInv, NEW w \in WorkerId, NEW cmd, Receives(w, cmd), UNCHANGED envVars,
           BrokerInv', internal_out' \in [WorkerId -> Seq(ToWorker)],
           external_out' \in [Call -> ClientBox]
    PROVE  IInv'
  <1>1. SocketsTypeOK'
    BY ReceivesType DEF IInv, TypeOK, SocketsTypeOK
  <1> QED BY <1>1 DEF IInv, BrokerInv, TypeOK, envVars

LEMMA ProcessReadyInv ==
    ASSUME IInv, NEW w \in WorkerId, ProcessReady(w), UNCHANGED envVars
    PROVE  IInv'
  <1>1. Receives(w, "READY") /\ external_out' \in [Call -> ClientBox]
    BY DEF ProcessReady, IInv, TypeOK, SocketsTypeOK
  <1>2. CASE Disconnects(w)
    BY <1>1, <1>2, DisconnectsInv, ProcessedInv
  <1>3. CASE worker_waiting(insert(workers, w), w) /\ UNCHANGED internal_out
    <2>1. insert(workers, w) \in worker_container /\ w \in DOMAIN insert(workers, w)
      BY InsertType DEF IInv, TypeOK, BrokerTypeOK
    <2>2. BrokerInv'
      BY <1>1, <1>3, <2>1, WorkerWaitingInv
    <2>3. internal_out' \in [WorkerId -> Seq(ToWorker)]
      BY <1>3 DEF IInv, TypeOK, SocketsTypeOK
    <2> QED BY <1>1, <2>2, <2>3, ProcessedInv
  <1> QED BY <1>2, <1>3 DEF ProcessReady

LEMMA ProcessReplyInv ==
    ASSUME IInv, NEW w \in WorkerId, ProcessReply(w), UNCHANGED envVars
    PROVE  IInv'
  <1>1. Receives(w, "REPLY")
    BY DEF ProcessReply
  <1>2. CASE Disconnects(w) /\ UNCHANGED external_out
    <2>1. external_out' \in [Call -> ClientBox]
      BY <1>2 DEF IInv, TypeOK, SocketsTypeOK
    <2> QED BY <1>1, <1>2, <2>1, DisconnectsInv, ProcessedInv
  <1>3. CASE /\ exists(workers, w)
             /\ external_out' = [external_out EXCEPT ![Head(internal_in[w]).call].results
                                   = @ + Head(internal_in[w]).results]
             /\ worker_waiting(workers, w)
             /\ UNCHANGED internal_out
    <2>1. BrokerInv'
      BY <1>1, <1>3, WorkerWaitingInv DEF exists, IInv, TypeOK, BrokerTypeOK
    <2>2. Head(internal_in[w]).call \in Call /\ Head(internal_in[w]).results \in Nat
      <3>1. Head(internal_in[w]) \in FromWorker /\ Head(internal_in[w]).cmd = "REPLY"
        BY <1>1, ReceivesType DEF IInv
      <3>2. Head(internal_in[w]) \in [cmd : {"REPLY"}, call : Call, results : 1..MaxActions]
        BY <3>1 DEF FromWorker
      <3> QED BY <3>2, RequestAssumption
    <2>3. external_out' \in [Call -> ClientBox]
      BY <1>3, <2>2, ResultsType DEF IInv, TypeOK, SocketsTypeOK
    <2>4. internal_out' \in [WorkerId -> Seq(ToWorker)]
      BY <1>3 DEF IInv, TypeOK, SocketsTypeOK
    <2> QED BY <1>1, <2>1, <2>3, <2>4, ProcessedInv
  <1> QED BY <1>2, <1>3 DEF ProcessReply

LEMMA ProcessHeartbeatInv ==
    ASSUME IInv, NEW w \in WorkerId, ProcessHeartbeat(w), UNCHANGED envVars
    PROVE  IInv'
  <1>1. Receives(w, "HEARTBEAT") /\ external_out' \in [Call -> ClientBox]
    BY DEF ProcessHeartbeat, IInv, TypeOK, SocketsTypeOK
  <1>2. CASE Disconnects(w)
    BY <1>1, <1>2, DisconnectsInv, ProcessedInv
  <1>3. CASE /\ exists(workers, w)
             /\ workers' = update_expiration(workers, w)
             /\ KeepsQueue
             /\ UNCHANGED internal_out
    <2>1. NoSession \in SessionId /\ workers \in worker_container /\ w \in DOMAIN workers
      BY <1>3 DEF SessionId, exists, IInv, TypeOK, BrokerTypeOK
    <2>2. /\ workers' \in worker_container
          /\ DOMAIN workers' = DOMAIN workers
          /\ Waiting(workers') = Waiting(workers)
      BY <1>3, <2>1, UpdateType
    <2>3. BrokerInv'
      BY <1>1, <1>3, <2>2, ReceivesType
      DEF KeepsQueue, IInv, BrokerInv, TypeOK, BrokerTypeOK, WorkConserving,
          LoopHasWorkerAndRequest
    <2>4. internal_out' \in [WorkerId -> Seq(ToWorker)]
      BY <1>3 DEF IInv, TypeOK, SocketsTypeOK
    <2> QED BY <1>1, <2>3, <2>4, ProcessedInv
  <1> QED BY <1>2, <1>3 DEF ProcessHeartbeat

LEMMA ProcessDisconnectInv ==
    ASSUME IInv, NEW w \in WorkerId, ProcessDisconnect(w), UNCHANGED envVars
    PROVE  IInv'
  <1>1. /\ Receives(w, "DISCONNECT")
        /\ internal_out' \in [WorkerId -> Seq(ToWorker)]
        /\ external_out' \in [Call -> ClientBox]
    BY DEF ProcessDisconnect, IInv, TypeOK, SocketsTypeOK
  <1>2. BrokerInv
    BY DEF IInv, TypeOK, BrokerInv
  <1>3. BrokerInv'
    BY <1>1, <1>2, EraseInv, ReceivesType DEF ProcessDisconnect, KeepsQueue, IInv
  <1> QED BY <1>1, <1>3, ProcessedInv

(* An entry that an unknown command makes has not announced itself.        *)
LEMMA ProcessInvalidInv ==
    ASSUME IInv, NEW w \in WorkerId, ProcessInvalid(w), UNCHANGED envVars
    PROVE  IInv'
  <1>1. /\ Receives(w, "INVALID")
        /\ internal_out' \in [WorkerId -> Seq(ToWorker)]
        /\ external_out' \in [Call -> ClientBox]
    BY DEF ProcessInvalid, IInv, TypeOK, SocketsTypeOK
  <1>2. workers \in worker_container
    BY DEF IInv, TypeOK, BrokerTypeOK
  <1>3. workers' \in worker_container /\ Waiting(workers') = Waiting(workers)
    <2>1. CASE UNCHANGED workers
      BY <1>2, <2>1
    <2>2. CASE ~exists(workers, w) /\ workers' = insert(workers, w)
      BY <1>2, <2>2, InsertType DEF exists
    <2> QED BY <2>1, <2>2 DEF ProcessInvalid
  <1>4. BrokerInv'
    BY <1>1, <1>3, ReceivesType
    DEF ProcessInvalid, KeepsQueue, IInv, BrokerInv, TypeOK, BrokerTypeOK, WorkConserving,
        LoopHasWorkerAndRequest
  <1> QED BY <1>1, <1>4, ProcessedInv

LEMMA DispatchToInv ==
    ASSUME IInv, NEW w \in WorkerId, DispatchTo(w), UNCHANGED envVars
    PROVE  IInv'
  <1>1. /\ workers \in worker_container /\ requests \in Seq(Request) /\ requests # <<>>
        /\ dispatch_id \in SessionId
    BY DEF IInv, TypeOK, BrokerTypeOK, LoopHasWorkerAndRequest, DispatchTo
  <1>2. Head(requests) \in Request /\ Tail(requests) \in Seq(Request)
    BY <1>1, HeadTailProperties
  <1>3. w \in DOMAIN workers
    BY DEF DispatchTo, Selected, get_by_last_worked_session, get_next_worker, idle_workers
  <1>4. workers' \in worker_container /\ DOMAIN workers' = DOMAIN workers
    <2>1. set_busy(workers, w) \in worker_container
          /\ DOMAIN set_busy(workers, w) = DOMAIN workers
      BY <1>1, <1>3, UpdateType
    <2>2. workers' = update_last_worked(set_busy(workers, w), w, dispatch_id)
      BY DEF DispatchTo
    <2> QED BY <1>1, <1>3, <2>1, <2>2, UpdateType
  <1>5. internal_out' \in [WorkerId -> Seq(ToWorker)]
    <2>1. [cmd |-> "REQUEST", req |-> Head(requests)] \in ToWorker
      BY <1>2 DEF ToWorker
    <2> QED BY <2>1, WithMessageType DEF IInv, TypeOK, SocketsTypeOK, DispatchTo
  <1>6. EmptyId \in SessionId
    BY DEF SessionId
  <1>7. TypeOK'
    BY <1>2, <1>4, <1>5, <1>6 DEF IInv, TypeOK, BrokerTypeOK, SocketsTypeOK, DispatchTo, envVars
  <1>8. WorkConserving' /\ LoopHasWorkerAndRequest'
    BY <1>3, <1>4 DEF DispatchTo, WorkConserving, LoopHasWorkerAndRequest
  <1> QED BY <1>7, <1>8 DEF IInv

LEMMA ClientProcessInv ==
    ASSUME IInv, client_process, UNCHANGED envVars
    PROVE  IInv'
  <1> DEFINE r == Head(external_in)
             rest == todo \ {"external"}
  <1>1. r \in Request /\ Tail(external_in) \in Seq(Request)
    <2>1. external_in \in Seq(Request) /\ external_in # <<>>
      BY DEF IInv, TypeOK, SocketsTypeOK, client_process
    <2> QED BY <2>1, HeadTailProperties
  <1>2. /\ r.call \in Call /\ r.session \in SessionId
        /\ r.malformed \in BOOLEAN /\ r.local \in BOOLEAN
    BY <1>1, RequestAssumption DEF SessionId
  <1>3. external_out' \in [Call -> ClientBox]
    BY <1>2, LocalRepliesType, ZenonT(60) DEF IInv, TypeOK, SocketsTypeOK, client_process
  <1>4. SocketsTypeOK'
    BY <1>1, <1>3 DEF IInv, TypeOK, SocketsTypeOK, client_process
  <1>5. /\ workers \in worker_container /\ requests \in Seq(Request)
        /\ rest \in SUBSET (Stage \ {"dispatch"})
        /\ heartbeat_at' \in -HeartbeatInterval..HeartbeatInterval
    BY DEF IInv, TypeOK, BrokerTypeOK, client_process
  <1>6. CASE service_dispatch(workers, Append(requests, r), r.session, rest)
    <2>1. Append(requests, r) \in Seq(Request)
      BY <1>1, <1>5, AppendProperties
    <2>2. BrokerInv'
      BY <1>2, <1>5, <1>6, <2>1, ServiceDispatchInv
    <2> QED BY <1>4, <2>2 DEF IInv, BrokerInv, TypeOK, envVars
  <1>7. CASE todo' = rest /\ UNCHANGED <<workers, requests, dispatch_id>>
    <2>1. BrokerInv'
      BY <1>5, <1>7 DEF IInv, BrokerInv, TypeOK, BrokerTypeOK, WorkConserving,
                        LoopHasWorkerAndRequest, client_process
    <2> QED BY <1>4, <2>1 DEF IInv, BrokerInv, TypeOK, envVars
  <1> QED BY <1>6, <1>7 DEF client_process

LEMMA PollInv ==
    ASSUME IInv, Poll, UNCHANGED envVars
    PROVE  IInv'
  BY DEF IInv, TypeOK, BrokerTypeOK, SocketsTypeOK, WorkConserving, LoopHasWorkerAndRequest,
         Poll, socketVars, envVars, Stage

LEMMA TimersInv ==
    ASSUME IInv, Timers, UNCHANGED envVars
    PROVE  IInv'
  <1>1. workers \in worker_container /\ heartbeat_at \in -HeartbeatInterval..HeartbeatInterval
    BY DEF IInv, TypeOK, BrokerTypeOK
  <1>2. /\ workers' \in worker_container
        /\ Waiting(workers') \subseteq Waiting(workers)
    BY <1>1, PurgeType DEF Timers
  <1>3. internal_out' \in [WorkerId -> Seq(ToWorker)]
    BY WithHeartbeatsType DEF IInv, TypeOK, SocketsTypeOK, Timers
  <1>4. heartbeat_at' \in -HeartbeatInterval..HeartbeatInterval
    BY <1>1, HeartbeatIntervalAssumption DEF Timers
  <1>5. TypeOK'
    BY <1>2, <1>3, <1>4 DEF IInv, TypeOK, BrokerTypeOK, SocketsTypeOK, Timers, envVars
  <1>6. WorkConserving' /\ LoopHasWorkerAndRequest'
    BY <1>2 DEF IInv, Timers, WorkConserving, LoopHasWorkerAndRequest
  <1> QED BY <1>5, <1>6 DEF IInv

-----------------------------------------------------------------------------
(* The steps around the broker touch its sockets, not its register.        *)

LEMMA BrokerUnchanged ==
    ASSUME IInv, UNCHANGED brokerVars
    PROVE  BrokerInv'
  BY DEF IInv, TypeOK, BrokerInv, BrokerTypeOK, WorkConserving, LoopHasWorkerAndRequest,
         brokerVars

LEMMA WorkerInv ==
    ASSUME IInv, NEW w \in WorkerId,
           \/ WorkerOpens(w) \/ WorkerCloses(w) \/ WorkerLeaves(w)
           \/ WorkerTakesHeartbeat(w) \/ WorkerTakesRequest(w)
           \/ WorkerHeartbeats(w) \/ WorkerGarbles(w) \/ \E c \in Call : WorkerReplies(w, c)
    PROVE  IInv'
  <1>1. /\ open \subseteq WorkerId
        /\ internal_in \in [WorkerId -> Seq(FromWorker)]
        /\ internal_out \in [WorkerId -> Seq(ToWorker)]
        /\ held \in [Call -> Nat]
    BY DEF IInv, TypeOK, SocketsTypeOK
  <1>3. ASSUME UNCHANGED brokerVars, open' \subseteq WorkerId,
               internal_in' \in [WorkerId -> Seq(FromWorker)],
               internal_out' \in [WorkerId -> Seq(ToWorker)],
               held' \in [Call -> Nat],
               UNCHANGED <<external_in, external_out, sent, crashes>>
        PROVE  IInv'
    BY <1>3, BrokerUnchanged DEF IInv, BrokerInv, TypeOK, SocketsTypeOK
  <1>4. ASSUME NEW m \in FromWorker
        PROVE  [internal_in EXCEPT ![w] = Append(@, m)] \in [WorkerId -> Seq(FromWorker)]
    BY <1>1, AppendProperties
  <1>5. ASSUME internal_out[w] # <<>>
        PROVE  /\ Head(internal_out[w]) \in ToWorker
               /\ [internal_out EXCEPT ![w] = Tail(@)] \in [WorkerId -> Seq(ToWorker)]
    BY <1>1, <1>5, HeadTailProperties
  <1>6. CASE WorkerOpens(w)
    <2>1. <<[cmd |-> "READY"]>> \in Seq(FromWorker)
      BY DEF FromWorker
    <2> QED BY <1>1, <1>3, <1>6, <2>1 DEF WorkerOpens, envVars
  <1>7. CASE WorkerCloses(w)
    <2>1. PICK kept \in 0..Len(internal_in[w]) : Closes(w, kept)
      BY <1>7 DEF WorkerCloses
    <2>2. SubSeq(internal_in[w], 1, kept) \in Seq(FromWorker)
      BY <1>1, PartType
    <2> QED BY <1>1, <1>3, <2>1, <2>2 DEF Closes, envVars
  <1>8. CASE WorkerLeaves(w)
    <2>1. [cmd |-> "DISCONNECT"] \in FromWorker
      BY DEF FromWorker
    <2>2. internal_in' \in [WorkerId -> Seq(FromWorker)]
      BY <1>4, <1>8, <2>1 DEF WorkerLeaves
    <2>3. internal_out' \in [WorkerId -> Seq(ToWorker)]
      BY <1>1, <1>8 DEF WorkerLeaves
    <2> QED BY <1>1, <1>3, <1>8, <2>2, <2>3 DEF WorkerLeaves, envVars
  <1>9. CASE WorkerTakesHeartbeat(w)
    BY <1>1, <1>3, <1>5, <1>9 DEF WorkerTakesHeartbeat, envVars
  <1>10. CASE WorkerTakesRequest(w)
    <2> DEFINE r == Head(internal_out[w]).req
    <2>1. Head(internal_out[w]) \in ToWorker /\ Head(internal_out[w]).cmd = "REQUEST"
      BY <1>5, <1>10 DEF WorkerTakesRequest
    <2>2. r \in Request
      BY <2>1 DEF ToWorker
    <2>3. r.call \in Call /\ r.actions \in Nat
      BY <2>2, RequestAssumption
    <2>4. held' = [held EXCEPT ![r.call] = @ + r.actions]
      BY <1>10 DEF WorkerTakesRequest
    <2> HIDE DEF r
    <2>5. held' \in [Call -> Nat]
      BY <1>1, <2>3, <2>4
    <2> QED BY <1>1, <1>3, <1>5, <1>10, <2>5 DEF WorkerTakesRequest
  <1>11. CASE WorkerHeartbeats(w)
    <2>1. [cmd |-> "HEARTBEAT"] \in FromWorker
      BY DEF FromWorker
    <2> QED BY <1>1, <1>3, <1>4, <1>11, <2>1 DEF WorkerHeartbeats, Says, envVars
  <1>12. CASE WorkerGarbles(w)
    <2>1. [cmd |-> "INVALID"] \in FromWorker
      BY DEF FromWorker
    <2> QED BY <1>1, <1>3, <1>4, <1>12, <2>1 DEF WorkerGarbles, Says, envVars
  <1>13. ASSUME NEW c \in Call, WorkerReplies(w, c)
         PROVE  IInv'
    <2>1. PICK n \in 1..MaxActions :
             /\ n <= held[c]
             /\ Says(w, [cmd |-> "REPLY", call |-> c, results |-> n])
             /\ held' = [held EXCEPT ![c] = @ - n]
      BY <1>13 DEF WorkerReplies
    <2>2. [cmd |-> "REPLY", call |-> c, results |-> n] \in FromWorker
      BY DEF FromWorker
    <2>3. held[c] - n \in Nat
      BY <1>1, <2>1, RequestAssumption
    <2>4. held' \in [Call -> Nat]
      BY <1>1, <2>1, <2>3
    <2>5. internal_in' \in [WorkerId -> Seq(FromWorker)]
      BY <1>4, <2>1, <2>2 DEF Says
    <2> QED BY <1>1, <1>3, <1>13, <2>4, <2>5 DEF WorkerReplies
  <1> QED BY <1>6, <1>7, <1>8, <1>9, <1>10, <1>11, <1>12, <1>13

LEMMA ClientSendInv ==
    ASSUME IInv, NEW r \in Request, ClientSend(r), UNCHANGED <<brokerVars, envVars>>
    PROVE  IInv'
  <1>1. Append(external_in, r) \in Seq(Request)
    BY AppendProperties DEF IInv, TypeOK, SocketsTypeOK
  <1> QED BY <1>1, BrokerUnchanged
       DEF ClientSend, IInv, BrokerInv, TypeOK, SocketsTypeOK, envVars

LEMMA TickInv ==
    ASSUME IInv, Tick
    PROVE  IInv'
  <1>1. workers \in worker_container /\ heartbeat_at \in -HeartbeatInterval..HeartbeatInterval
    BY DEF IInv, TypeOK, BrokerTypeOK
  <1>2. /\ workers' \in worker_container /\ DOMAIN workers' = DOMAIN workers
        /\ Waiting(workers') = Waiting(workers)
    BY <1>1, AgeType DEF Tick, BrokerTick
  <1>3. heartbeat_at' \in -HeartbeatInterval..HeartbeatInterval
    BY <1>1, HeartbeatIntervalAssumption DEF Tick, BrokerTick, Sooner
  <1> QED BY <1>2, <1>3
       DEF Tick, BrokerTick, socketVars, envVars, IInv, TypeOK, BrokerTypeOK, SocketsTypeOK,
           WorkConserving, LoopHasWorkerAndRequest

LEMMA BrokerCrashInv ==
    ASSUME IInv, BrokerCrash
    PROVE  IInv'
  <1>1. internal_in' \in [WorkerId -> Seq(FromWorker)]
    <2>1. ASSUME NEW w \in WorkerId
          PROVE  Newer(internal_in[w]) \subseteq Seq(FromWorker)
      BY NewerType DEF IInv, TypeOK, SocketsTypeOK
    <2> QED BY <2>1 DEF BrokerCrash, EachFrom
  <1>2. internal_out' \in [WorkerId -> Seq(ToWorker)]
    <2>1. ASSUME NEW w \in WorkerId
          PROVE  Older(internal_out[w]) \subseteq Seq(ToWorker)
      BY OlderType DEF IInv, TypeOK, SocketsTypeOK
    <2> QED BY <2>1 DEF BrokerCrash, EachFrom
  <1>3. external_in' \in Seq(Request)
    BY NewerType DEF BrokerCrash, IInv, TypeOK, SocketsTypeOK
  <1>4. SocketsTypeOK'
    BY <1>1, <1>2, <1>3 DEF BrokerCrash, IInv, TypeOK, SocketsTypeOK
  <1>5. EmptyId \in SessionId /\ HeartbeatInterval \in -HeartbeatInterval..HeartbeatInterval
    BY HeartbeatIntervalAssumption DEF SessionId
  <1>6. BrokerTypeOK'
    BY <1>5, NoWorkersType DEF BrokerCrash, BrokerTypeOK
  <1>7. TypeOK'
    BY <1>4, <1>6, BoundsAssumption DEF BrokerCrash, IInv, TypeOK
  <1>8. WorkConserving' /\ LoopHasWorkerAndRequest'
    BY DEF BrokerCrash, WorkConserving, LoopHasWorkerAndRequest
  <1> QED BY <1>7, <1>8 DEF IInv

LEMMA InitInv == Init => IInv
  <1> SUFFICES ASSUME Init PROVE IInv
    OBVIOUS
  <1>1. EmptyId \in SessionId /\ HeartbeatInterval \in -HeartbeatInterval..HeartbeatInterval
    BY HeartbeatIntervalAssumption DEF SessionId
  <1>2. BrokerTypeOK
    BY <1>1, NoWorkersType DEF Init, BrokerInit, BrokerTypeOK
  <1>3. SocketsTypeOK
    BY DEF Init, SocketsInit, SocketsTypeOK, ClientBox
  <1>4. TypeOK
    BY <1>2, <1>3, BoundsAssumption DEF Init, TypeOK
  <1> QED BY <1>4 DEF Init, BrokerInit, IInv, WorkConserving, LoopHasWorkerAndRequest

LEMMA NextInv == IInv /\ [Next]_vars => IInv'
  <1> SUFFICES ASSUME IInv, [Next]_vars PROVE IInv'
    OBVIOUS
  <1>1. CASE BrokerNext /\ UNCHANGED envVars
    BY <1>1, PollInv, ProcessReadyInv, ProcessReplyInv, ProcessHeartbeatInv, ProcessDisconnectInv,
       ProcessInvalidInv, DispatchToInv, ClientProcessInv, TimersInv DEF BrokerNext
  <1>2. CASE WorkerNext
    BY <1>2, WorkerInv DEF WorkerNext
  <1>3. CASE ClientNext
    BY <1>3, ClientSendInv DEF ClientNext
  <1>4. CASE Tick
    BY <1>4, TickInv
  <1>5. CASE BrokerCrash
    BY <1>5, BrokerCrashInv
  <1>6. CASE UNCHANGED vars
    BY <1>6, BrokerUnchanged
    DEF vars, socketVars, envVars, IInv, BrokerInv, TypeOK, SocketsTypeOK
  <1> QED BY <1>1, <1>2, <1>3, <1>4, <1>5, <1>6 DEF Next, Step

-----------------------------------------------------------------------------
(* The invariant holds in every reachable state.                           *)
THEOREM Invariance == Spec => []IInv
  BY InitInv, NextInv, PTL DEF Spec

(* The register, the queue and the sockets only ever hold what the code    *)
(* takes them to hold.                                                     *)
THEOREM TypeCorrect == Spec => []TypeOK
  BY Invariance, PTL DEF IInv

(* No request waits in requests_ while a registered worker that has        *)
(* announced itself is idle.                                               *)
THEOREM WorkIsConserved == Spec => []WorkConserving
  BY Invariance, PTL DEF IInv

(* get_next_worker never returns an empty pointer to the loop of           *)
(* service_dispatch, which reads through it unchecked.                     *)
THEOREM LoopNeverReadsNull == Spec => []LoopHasWorkerAndRequest
  BY Invariance, PTL DEF IInv

-----------------------------------------------------------------------------
(* What a step may not do to the register.                                 *)

(* service_dispatch adds no worker.                                        *)
LEMMA ServiceDispatchRegister ==
    ASSUME NEW ws \in worker_container, NEW q, NEW id, NEW rest,
           service_dispatch(ws, q, id, rest)
    PROVE  DOMAIN workers' \subseteq DOMAIN ws
  <1>1. workers' = purge_workers(ws)
    BY DEF service_dispatch
  <1> QED BY <1>1, PurgeType

(* worker_waiting adds none to the container it is called with.            *)
LEMMA WaitingRegister ==
    ASSUME NEW ws \in worker_container, NEW w \in DOMAIN ws, worker_waiting(ws, w)
    PROVE  DOMAIN workers' \subseteq DOMAIN ws
  <1> DEFINE updated == update_expiration(set_idle(ws, w), w)
  <1>1. EmptyId \in SessionId
    BY DEF SessionId
  <1>2. set_idle(ws, w) \in worker_container /\ DOMAIN set_idle(ws, w) = DOMAIN ws
    BY <1>1, UpdateType
  <1>3. updated \in worker_container /\ DOMAIN updated = DOMAIN ws
    BY <1>1, <1>2, UpdateType
  <1>4. service_dispatch(updated, requests, EmptyId, rest_of_loop)
    BY DEF worker_waiting
  <1> HIDE DEF updated
  <1> QED BY <1>3, <1>4, ServiceDispatchRegister

(* The register after a message of w: only READY and an unknown command    *)
(* add a worker, and that is w.                                            *)
Registered(w, cmd) ==
    \A v \in WorkerId : v \in DOMAIN workers' /\ v \notin DOMAIN workers
                       => v = w /\ cmd \in {"READY", "INVALID"}

LEMMA ErasedRegister ==
    ASSUME workers \in worker_container, NEW w \in WorkerId, NEW cmd,
           workers' = erase(workers, {w})
    PROVE  Registered(w, cmd)
  BY EraseType DEF Registered

LEMMA ProcessRegister ==
    ASSUME IInv, NEW w \in WorkerId,
           \/ ProcessReady(w) \/ ProcessReply(w)
           \/ ProcessHeartbeat(w) \/ ProcessDisconnect(w) \/ ProcessInvalid(w)
    PROVE  internal_in[w] # <<>> /\ Registered(w, Head(internal_in[w]).cmd)
  <1>1. workers \in worker_container
    BY DEF IInv, TypeOK, BrokerTypeOK
  <1>2. CASE ProcessReady(w)
    <2>1. Receives(w, "READY")
      BY <1>2 DEF ProcessReady
    <2>2. CASE exists(workers, w) /\ Disconnects(w)
      BY <1>1, <2>1, <2>2, ErasedRegister DEF Disconnects, Receives
    <2>3. CASE ~exists(workers, w) /\ worker_waiting(insert(workers, w), w)
      <3>1. /\ insert(workers, w) \in worker_container
            /\ DOMAIN insert(workers, w) = DOMAIN workers \cup {w}
        BY <1>1, InsertType
      <3>2. DOMAIN workers' \subseteq DOMAIN insert(workers, w)
        BY <2>3, <3>1, WaitingRegister
      <3> QED BY <2>1, <3>1, <3>2 DEF Receives, Registered
    <2> QED BY <1>2, <2>2, <2>3 DEF ProcessReady
  <1>3. CASE ProcessReply(w)
    <2>1. Receives(w, "REPLY")
      BY <1>3 DEF ProcessReply
    <2>2. CASE exists(workers, w) /\ worker_waiting(workers, w)
      BY <1>1, <2>1, <2>2, WaitingRegister DEF Receives, Registered, exists
    <2>3. CASE ~exists(workers, w) /\ Disconnects(w)
      BY <1>1, <2>1, <2>3, ErasedRegister DEF Disconnects, Receives
    <2> QED BY <1>3, <2>2, <2>3 DEF ProcessReply
  <1>4. CASE ProcessHeartbeat(w)
    <2>1. Receives(w, "HEARTBEAT")
      BY <1>4 DEF ProcessHeartbeat
    <2>2. CASE exists(workers, w) /\ workers' = update_expiration(workers, w)
      <3>1. NoSession \in SessionId
        BY DEF SessionId
      <3>2. DOMAIN workers' = DOMAIN workers
        BY <1>1, <2>2, <3>1, UpdateType DEF exists
      <3> QED BY <2>1, <3>2 DEF Receives, Registered
    <2>3. CASE ~exists(workers, w) /\ Disconnects(w)
      BY <1>1, <2>1, <2>3, ErasedRegister DEF Disconnects, Receives
    <2> QED BY <1>4, <2>2, <2>3 DEF ProcessHeartbeat
  <1>5. CASE ProcessDisconnect(w)
    BY <1>1, <1>5, ErasedRegister DEF ProcessDisconnect, Receives
  <1>6. CASE ProcessInvalid(w)
    <2>1. DOMAIN workers' \subseteq DOMAIN workers \cup {w}
      BY <1>1, <1>6, InsertType DEF ProcessInvalid
    <2> QED BY <1>6, <2>1 DEF ProcessInvalid, Receives, Registered
  <1> QED BY <1>2, <1>3, <1>4, <1>5, <1>6

(* Any other step adds no worker.                                          *)
LEMMA OtherRegister ==
    ASSUME IInv,
           \/ Poll \/ client_process \/ Timers \/ Tick \/ WorkerNext \/ ClientNext
           \/ \E w \in WorkerId : DispatchTo(w)
           \/ BrokerCrash \/ UNCHANGED vars
    PROVE  DOMAIN workers' \subseteq DOMAIN workers
  <1>1. workers \in worker_container
    BY DEF IInv, TypeOK, BrokerTypeOK
  <1>2. CASE UNCHANGED workers
    BY <1>2
  <1>3. CASE client_process
    BY <1>1, <1>2, <1>3, ServiceDispatchRegister DEF client_process
  <1>4. CASE Timers
    BY <1>1, <1>2, <1>4, PurgeType DEF Timers
  <1>5. CASE Tick
    BY <1>1, <1>5, AgeType DEF Tick, BrokerTick, Sooner
  <1>6. ASSUME NEW w \in WorkerId, DispatchTo(w)
        PROVE  DOMAIN workers' = DOMAIN workers
    <2>1. w \in DOMAIN workers /\ dispatch_id \in SessionId
      BY <1>6 DEF DispatchTo, Selected, get_by_last_worked_session, get_next_worker,
                  idle_workers, IInv, TypeOK, BrokerTypeOK
    <2>2. set_busy(workers, w) \in worker_container
          /\ DOMAIN set_busy(workers, w) = DOMAIN workers
      BY <1>1, <2>1, UpdateType
    <2>3. workers' = update_last_worked(set_busy(workers, w), w, dispatch_id)
      BY <1>6 DEF DispatchTo
    <2> QED BY <2>1, <2>2, <2>3, UpdateType
  <1>7. CASE Poll \/ WorkerNext \/ ClientNext \/ UNCHANGED vars
    <2>1. UNCHANGED workers
      BY <1>7 DEF Poll, ClientNext, WorkerNext, WorkerOpens, WorkerCloses, Closes, WorkerLeaves,
                  WorkerTakesHeartbeat, WorkerTakesRequest, WorkerHeartbeats, WorkerGarbles,
                  WorkerReplies, vars, brokerVars
    <2> QED BY <1>2, <2>1, SMTT(60)
  <1>8. CASE BrokerCrash
    BY <1>8 DEF BrokerCrash, NoWorkers
  <1> QED BY <1>3, <1>4, <1>5, <1>6, <1>7, <1>8

LEMMA StepRegister ==
    ASSUME IInv, [Next]_vars
    PROVE  \A w \in WorkerId :
              exists(workers, w)' /\ ~exists(workers, w)
              => internal_in[w] # <<>> /\ Head(internal_in[w]).cmd \in {"READY", "INVALID"}
  <1>1. ASSUME NEW w \in WorkerId,
               \/ ProcessReady(w) \/ ProcessReply(w)
               \/ ProcessHeartbeat(w) \/ ProcessDisconnect(w) \/ ProcessInvalid(w)
        PROVE  internal_in[w] # <<>> /\ Registered(w, Head(internal_in[w]).cmd)
    BY <1>1, ProcessRegister
  <1> QED BY <1>1, OtherRegister DEF Next, Step, BrokerNext, Registered, exists

(* A worker that has been forgotten gets back by a READY of its own, or by *)
(* a command that the broker does not know: a REPLY, a HEARTBEAT and a     *)
(* DISCONNECT that come late leave it out, and so does all that others do. *)
THEOREM LateMessagesDoNotRegister == Spec => ForgottenStayForgotten
  BY Invariance, StepRegister, PTL DEF Spec, ForgottenStayForgotten

=============================================================================
