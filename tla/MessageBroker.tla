--------------------------- MODULE MessageBroker ---------------------------
(***************************************************************************)
(* The broker thread (frontend/message_broker.cpp).  broker_loop polls the *)
(* two sockets, handles at most one message of a worker, then at most one  *)
(* of a client, then its timers.  todo holds what is left of the current   *)
(* iteration: "internal", "external" and "timers" in this order, and       *)
(* before any of them "dispatch" while the loop of service_dispatch runs.  *)
(*                                                                         *)
(* The poll waits for input only: its timeout is a count of nanoseconds    *)
(* passed as milliseconds (34 days for 3 s) or negative (for ever), so     *)
(* that timers are looked at after a message and at no other time.         *)
(***************************************************************************)
EXTENDS WorkerContainer, MdpSockets

VARIABLES workers,       \* workers_
          requests,      \* requests_
          todo,          \* stages left of the iteration of broker_loop
          dispatch_id,   \* parameter id of the running service_dispatch
          heartbeat_at   \* ticks until heartbeat_at, negative when it is overdue

brokerVars == <<workers, requests, todo, dispatch_id, heartbeat_at>>

Stage == {"dispatch", "internal", "external", "timers"}

BrokerTypeOK ==
    /\ workers \in worker_container
    /\ requests \in Seq(Request)
    /\ todo \subseteq Stage
    /\ dispatch_id \in SessionId
    /\ heartbeat_at \in -HeartbeatInterval..HeartbeatInterval

NoWorkers == [w \in {} |-> NewWorker]

BrokerInit ==
    /\ workers = NoWorkers
    /\ requests = <<>>
    /\ todo = {}
    /\ dispatch_id = EmptyId
    /\ heartbeat_at = HeartbeatInterval

-----------------------------------------------------------------------------
(* purge_workers: the idle workers that have expired are erased, and not   *)
(* told.                                                                   *)
purge_workers(ws) == erase(ws, {w \in idle_workers(ws) : ws[w].expiry = 0})

(* Fault: the idle workers are looked at before the purge.                 *)
dispatch_before_purge(ws, q, id, rest) ==
    LET loop == idle_workers(ws) # {} /\ q # <<>>
    IN /\ workers' = purge_workers(ws)
       /\ requests' = q
       /\ todo' = IF loop THEN rest \cup {"dispatch"} ELSE rest
       /\ dispatch_id' = IF loop THEN id ELSE EmptyId

(* service_dispatch up to its loop: q is requests_ with the new request    *)
(* queued, rest the stages that follow.  Whether a worker is idle is       *)
(* looked at here, once: the iterator p.first is not moved by the loop.    *)
service_dispatch(ws, q, id, rest) ==
    LET live == purge_workers(ws)
        loop == idle_workers(live) # {} /\ q # <<>>
    IN /\ workers' = live
       /\ requests' = q
       /\ todo' = IF loop THEN rest \cup {"dispatch"} ELSE rest
       /\ dispatch_id' = IF loop THEN id ELSE EmptyId

(* The worker the loop of service_dispatch picks for a request of session  *)
(* id: the one that last worked on it when that one is idle, and else the  *)
(* one whose entry expires last, which may be idle or busy.                *)
Selected(id) ==
    LET last == get_by_last_worked_session(workers, id)
    IN  (last \cap idle_workers(workers))
        \cup (IF last = {} \/ last \ idle_workers(workers) # {}
              THEN get_next_worker(workers) ELSE {})

(* Fault: the request is sent and stays at the front of the queue.         *)
DispatchCopyTo(w) ==
    /\ "dispatch" \in todo
    /\ w \in Selected(Head(requests).session)
    /\ internal_out' = WithMessage(internal_out, w, [cmd |-> "REQUEST", req |-> Head(requests)])
    /\ workers' = update_last_worked(set_busy(workers, w), w, dispatch_id)
    /\ todo' = todo \ {"dispatch"} /\ dispatch_id' = EmptyId
    /\ UNCHANGED <<requests, heartbeat_at, open, internal_in, external_in, external_out, sent>>

(* One iteration of the loop: the front request goes to w.                 *)
DispatchTo(w) ==
    /\ "dispatch" \in todo
    /\ w \in Selected(Head(requests).session)
    /\ internal_out' = WithMessage(internal_out, w, [cmd |-> "REQUEST", req |-> Head(requests)])
    /\ requests' = Tail(requests)
    /\ workers' = update_last_worked(set_busy(workers, w), w, dispatch_id)
    /\ IF Tail(requests) = <<>>
       THEN todo' = todo \ {"dispatch"} /\ dispatch_id' = EmptyId
       ELSE UNCHANGED <<todo, dispatch_id>>
    /\ UNCHANGED <<heartbeat_at, open, internal_in, external_in, external_out, sent>>

-----------------------------------------------------------------------------
(* worker_process: a message of worker w is taken from the socket.         *)
Receives(w, cmd) ==
    /\ "internal" \in todo /\ "dispatch" \notin todo
    /\ internal_in[w] # <<>> /\ Head(internal_in[w]).cmd = cmd
    /\ internal_in' = [internal_in EXCEPT ![w] = Tail(@)]
    /\ UNCHANGED <<heartbeat_at, open, external_in, sent>>

rest_of_loop == todo \ {"internal"}

KeepsQueue == requests' = requests /\ todo' = rest_of_loop /\ UNCHANGED dispatch_id

(* Fault: the queue is not looked at when a worker becomes idle.           *)
only_waiting(ws, w) == workers' = update_expiration(set_idle(ws, w), w) /\ KeepsQueue

(* worker_waiting: idle, alive, and the queue is looked at.                *)
worker_waiting(ws, w) ==
    service_dispatch(update_expiration(set_idle(ws, w), w), requests, EmptyId, rest_of_loop)

(* worker_delete with send_disconnect.                                     *)
Disconnects(w) ==
    /\ workers' = erase(workers, {w})
    /\ internal_out' = WithMessage(internal_out, w, [cmd |-> "DISCONNECT"])
    /\ KeepsQueue

(* READY of a worker the broker knows is not the first of its session.     *)
ProcessReady(w) ==
    /\ Receives(w, "READY")
    /\ \/ /\ exists(workers, w)
          /\ Disconnects(w)
       \/ /\ ~exists(workers, w)
          /\ worker_waiting(insert(workers, w), w)
          /\ UNCHANGED internal_out
    /\ UNCHANGED external_out

(* REPLY: forwarded to the client when the worker is known; otherwise      *)
(* worker_require has registered it only for worker_delete to erase it.    *)
ProcessReply(w) ==
    /\ Receives(w, "REPLY")
    /\ LET m == Head(internal_in[w])
       IN \/ /\ exists(workers, w)
             /\ external_out' = [external_out EXCEPT ![m.call].results = @ + m.results]
             /\ worker_waiting(workers, w)
             /\ UNCHANGED internal_out
          \/ /\ ~exists(workers, w)
             /\ Disconnects(w)
             /\ UNCHANGED external_out

(* Fault: a HEARTBEAT registers a worker that the broker does not know.    *)
HeartbeatRegisters(w) ==
    /\ Receives(w, "HEARTBEAT")
    /\ workers' = IF exists(workers, w) THEN update_expiration(workers, w) ELSE insert(workers, w)
    /\ KeepsQueue
    /\ UNCHANGED <<internal_out, external_out>>

(* HEARTBEAT: an unknown worker is told to disconnect.                     *)
ProcessHeartbeat(w) ==
    /\ Receives(w, "HEARTBEAT")
    /\ \/ /\ exists(workers, w)
          /\ workers' = update_expiration(workers, w)
          /\ KeepsQueue
          /\ UNCHANGED internal_out
       \/ /\ ~exists(workers, w)
          /\ Disconnects(w)
    /\ UNCHANGED external_out

(* DISCONNECT: the worker is erased, known or not, and not told.           *)
ProcessDisconnect(w) ==
    /\ Receives(w, "DISCONNECT")
    /\ workers' = erase(workers, {w})
    /\ KeepsQueue
    /\ UNCHANGED <<internal_out, external_out>>

(* Neither of them.  Of another header: handle_message drops it.  Of       *)
(* another command: worker_require has registered the sender, and this     *)
(* branch neither erases it nor looks at the queue.                        *)
ProcessInvalid(w) ==
    /\ Receives(w, "INVALID")
    /\ \/ UNCHANGED workers
       \/ ~exists(workers, w) /\ workers' = insert(workers, w)
    /\ KeepsQueue
    /\ UNCHANGED <<internal_out, external_out>>

-----------------------------------------------------------------------------
(* client_process: a MALFORMED_MESSAGE reply when parsing threw, and in    *)
(* any case one reply for the local actions that were collected and one    *)
(* request to the workers for the others.                                  *)
client_process ==
    /\ "external" \in todo /\ todo \cap {"internal", "dispatch"} = {}
    /\ external_in # <<>>
    /\ external_in' = Tail(external_in)
    /\ LET r == Head(external_in)
           rest == todo \ {"external"}
       IN /\ external_out' =
               [external_out EXCEPT ![r.call].malformed = IF r.malformed THEN @ + 1 ELSE @,
                                    ![r.call].local = IF r.local THEN @ + 1 ELSE @]
          /\ \/ /\ r.actions > 0
                /\ service_dispatch(workers, Append(requests, r), r.session, rest)
             \/ /\ r.actions = 0
                /\ todo' = rest
                /\ UNCHANGED <<workers, requests, dispatch_id>>
    /\ UNCHANGED <<heartbeat_at, open, internal_in, internal_out, sent>>

-----------------------------------------------------------------------------
(* broker_loop *)
Poll ==
    /\ todo = {}
    /\ LET readable == (IF \E w \in WorkerId : internal_in[w] # <<>> THEN {"internal"} ELSE {})
                       \cup (IF external_in # <<>> THEN {"external"} ELSE {})
       IN readable # {} /\ todo' = readable \cup {"timers"}
    /\ UNCHANGED <<workers, requests, dispatch_id, heartbeat_at, socketVars>>

(* Fault: heartbeat_at moves in every iteration, due or not.               *)
TimersMove ==
    /\ todo = {"timers"}
    /\ todo' = {}
    /\ \/ /\ heartbeat_at <= 0
          /\ workers' = purge_workers(workers)
          /\ internal_out' = WithHeartbeats(internal_out, idle_workers(purge_workers(workers)))
       \/ /\ heartbeat_at > 0
          /\ UNCHANGED <<workers, internal_out>>
    /\ heartbeat_at' = heartbeat_at + HeartbeatInterval
    /\ UNCHANGED <<requests, dispatch_id, open, internal_in, external_in, external_out, sent>>

(* heartbeat_at moves by one interval from when it was due.               *)
Timers ==
    /\ todo = {"timers"}
    /\ todo' = {}
    /\ \/ /\ heartbeat_at <= 0
          /\ workers' = purge_workers(workers)
          /\ internal_out' = WithHeartbeats(internal_out, idle_workers(purge_workers(workers)))
          /\ heartbeat_at' = heartbeat_at + HeartbeatInterval
       \/ /\ heartbeat_at > 0
          /\ UNCHANGED <<workers, internal_out, heartbeat_at>>
    /\ UNCHANGED <<requests, dispatch_id, open, internal_in, external_in, external_out, sent>>

BrokerNext ==
    \/ Poll
    \/ \E w \in WorkerId : \/ ProcessReady(w) \/ ProcessReply(w)
                           \/ ProcessHeartbeat(w) \/ ProcessDisconnect(w)
                           \/ ProcessInvalid(w) \/ DispatchTo(w)
    \/ client_process
    \/ Timers

(* The broker's share of a tick of the clock.                              *)
BrokerTick ==
    /\ workers' = Age(workers)
    /\ heartbeat_at' = Sooner(heartbeat_at)
    /\ UNCHANGED <<requests, todo, dispatch_id>>

=============================================================================
