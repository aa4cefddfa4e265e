--------------------------- MODULE MessageWorker ---------------------------
(***************************************************************************)
(* The worker processes (backend/message_worker.cpp) with their queues of  *)
(* postponed actions (backend/utils/postponed_actions.hpp).                *)
(*                                                                         *)
(* phase is where a process is in worker_loop and recv:                    *)
(*   "down"       not running                                              *)
(*   "connect"    in connect_to_broker, its former socket closed           *)
(*   "recv"       at the head of the loop of recv, in                      *)
(*                handle_postponed_actions                                 *)
(*   "poll"       in zmq::poll                                             *)
(*   "beat"       after the message or the timeout, before the HEARTBEAT   *)
(*   "reconnect"  asleep before it reconnects                              *)
(*   "act"        running the actions of a request                         *)
(* Durations below one tick (action_postpone_dur_, the second between two  *)
(* runs of a postponed action) may end at any time.                        *)
(***************************************************************************)
EXTENDS MdpSockets

CONSTANTS Process,             \* worker processes
          HeartbeatLiveness,   \* heartbeat_liveness_
          Retries,             \* action_retries_on_postpone_
          SharedIds,           \* whether calls number their actions alike
          NoId                 \* no socket

ASSUME WorkerAssumption ==
    /\ IsFiniteSet(Process)
    /\ HeartbeatLiveness \in Nat \ {0}
    /\ Retries \in Nat
    /\ SharedIds \in BOOLEAN
    /\ NoId \notin WorkerId

VARIABLE mw   \* the message_worker of each process

(* Clients choose the id of an action; nothing makes it unique among them. *)
ActionId(c, k) == IF SharedIds THEN <<k>> ELSE <<c, k>>

postponed_action ==
    [id : {ActionId(c, k) : c \in Call, k \in 1..MaxActions}, reply_to : Call,
     remaining_runs : 0..Retries, rerun : BOOLEAN]

Phase == {"down", "connect", "recv", "poll", "beat", "reconnect", "act"}

message_worker ==
    [phase : Phase, identity : WorkerId \cup {NoId},
     liveness : 0..HeartbeatLiveness, heartbeat_at : -HeartbeatInterval..HeartbeatInterval,
     wait : 0..HeartbeatInterval,                        \* timeout of the poll
     request : Request \cup {NoId}, next : 1..MaxActions + 1, results : 0..MaxActions,
     postponed_actions : SUBSET postponed_action]

WorkerTypeOK == mw \in [Process -> message_worker]

NotRunning ==
    [phase |-> "down", identity |-> NoId, liveness |-> HeartbeatLiveness,
     heartbeat_at |-> HeartbeatInterval, wait |-> 0,
     request |-> NoId, next |-> 1, results |-> 0, postponed_actions |-> {}]

WorkerInit == mw = [p \in Process |-> NotRunning]

-----------------------------------------------------------------------------
(* Sockets                                                                 *)

(* send_to_broker *)
SendToBroker(p, m) == internal_in' = [internal_in EXCEPT ![mw[p].identity] = Append(@, m)]

(* The socket is destroyed, with ZMQ_LINGER 0: what has not been read and  *)
(* what has not been passed on goes with it.                               *)
CloseSocket(p) ==
    LET w == mw[p].identity
    IN /\ open' = open \ {w}
       /\ \E kept \in 0..Len(internal_in[w]) :
             internal_in' = [internal_in EXCEPT ![w] = SubSeq(@, 1, kept)]
       /\ internal_out' = [internal_out EXCEPT ![w] = <<>>]

(* A message of the broker at the head of the socket of p.                 *)
Takes(p, cmd) ==
    LET w == mw[p].identity
    IN /\ mw[p].phase = "poll"
       /\ internal_out[w] # <<>> /\ Head(internal_out[w]).cmd = cmd

Consumed(p) == [internal_out EXCEPT ![mw[p].identity] = Tail(@)]

-----------------------------------------------------------------------------
(* Fault: the new socket does not say READY.                               *)
connect_silently(p, w) ==
    /\ mw[p].phase = "connect"
    /\ open' = open \cup {w}
    /\ mw' = [mw EXCEPT ![p].phase = "beat", ![p].identity = w,
                        ![p].liveness = HeartbeatLiveness,
                        ![p].heartbeat_at = HeartbeatInterval]
    /\ UNCHANGED <<internal_in, internal_out>>

(* connect_to_broker: a new socket under a new identity w, and READY.      *)
connect_to_broker(p, w) ==
    /\ mw[p].phase = "connect"
    /\ open' = open \cup {w}
    /\ internal_in' = [internal_in EXCEPT ![w] = <<[cmd |-> "READY"]>>]
    /\ mw' = [mw EXCEPT ![p].phase = "beat", ![p].identity = w,
                        ![p].liveness = HeartbeatLiveness,
                        ![p].heartbeat_at = HeartbeatInterval]
    /\ UNCHANGED internal_out

(* handle_postponed_actions: an action that is due runs again.  It is put  *)
(* off by a second when it is postponed once more and has runs left (so    *)
(* that it is not due again in this pass), and otherwise answered.         *)
PostponeAgain(p, a) ==
    /\ mw[p].phase = "recv"
    /\ a \in mw[p].postponed_actions /\ ~a.rerun /\ a.remaining_runs > 0
    /\ mw' = [mw EXCEPT ![p].postponed_actions =
                 (@ \ {a}) \cup {[a EXCEPT !.remaining_runs = @ - 1, !.rerun = TRUE]}]
    /\ UNCHANGED <<open, internal_in, internal_out>>

(* Fault: the action is answered and stays in the queue.                   *)
AnswerAndKeep(p, a) ==
    /\ mw[p].phase = "recv"
    /\ a \in mw[p].postponed_actions /\ ~a.rerun
    /\ SendToBroker(p, [cmd |-> "REPLY", call |-> a.reply_to, results |-> 1])
    /\ mw' = [mw EXCEPT ![p].postponed_actions = (@ \ {a}) \cup {[a EXCEPT !.rerun = TRUE]}]
    /\ UNCHANGED <<open, internal_out>>

AnswerPostponed(p, a) ==
    /\ mw[p].phase = "recv"
    /\ a \in mw[p].postponed_actions /\ ~a.rerun
    /\ SendToBroker(p, [cmd |-> "REPLY", call |-> a.reply_to, results |-> 1])
    /\ mw' = [mw EXCEPT ![p].postponed_actions = @ \ {a}]
    /\ UNCHANGED <<open, internal_out>>

(* recv waits for heartbeat_, or for the short action_postpone_dur_ while  *)
(* actions are postponed.                                                  *)
WaitForMessage(p) ==
    /\ mw[p].phase = "recv"
    /\ mw' = [mw EXCEPT ![p].phase = "poll",
                        ![p].wait = IF mw[p].postponed_actions = {} THEN HeartbeatInterval ELSE 0,
                        ![p].postponed_actions = {[a EXCEPT !.rerun = FALSE] : a \in @}]
    /\ UNCHANGED <<open, internal_in, internal_out>>

TakeHeartbeat(p) ==
    /\ Takes(p, "HEARTBEAT")
    /\ internal_out' = Consumed(p)
    /\ mw' = [mw EXCEPT ![p].phase = "beat", ![p].liveness = HeartbeatLiveness]
    /\ UNCHANGED <<open, internal_in>>

TakeRequest(p) ==
    /\ Takes(p, "REQUEST")
    /\ internal_out' = Consumed(p)
    /\ mw' = [mw EXCEPT ![p].phase = "act", ![p].liveness = HeartbeatLiveness,
                        ![p].request = Head(internal_out[mw[p].identity]).req,
                        ![p].next = 1, ![p].results = 0]
    /\ UNCHANGED <<open, internal_in>>

TakeDisconnect(p) ==
    /\ Takes(p, "DISCONNECT")
    /\ CloseSocket(p)
    /\ mw' = [mw EXCEPT ![p].phase = "connect", ![p].identity = NoId]

(* Fault: the lives are compared with zero before one is taken.            *)
PollTimeoutTooLate(p) ==
    /\ mw[p].phase = "poll" /\ mw[p].wait = 0
    /\ internal_out[mw[p].identity] = <<>>
    /\ mw' = [mw EXCEPT ![p].liveness = @ - 1,
                        ![p].phase = IF mw[p].liveness = 0 THEN "reconnect" ELSE "beat"]
    /\ UNCHANGED <<open, internal_in, internal_out>>

(* The poll times out: one life less, and none left means the broker is    *)
(* taken for gone.                                                         *)
PollTimeout(p) ==
    /\ mw[p].phase = "poll" /\ mw[p].wait = 0
    /\ internal_out[mw[p].identity] = <<>>
    /\ mw' = [mw EXCEPT ![p].liveness = @ - 1,
                        ![p].phase = IF mw[p].liveness = 1 THEN "reconnect" ELSE "beat"]
    /\ UNCHANGED <<open, internal_in, internal_out>>

Reconnect(p) ==
    /\ mw[p].phase = "reconnect"
    /\ CloseSocket(p)
    /\ mw' = [mw EXCEPT ![p].phase = "connect", ![p].identity = NoId]

(* A HEARTBEAT when it is time; heartbeat_at_ moves by one interval from   *)
(* when it was due.                                                        *)
HeartbeatIfDue(p) ==
    /\ mw[p].phase = "beat"
    /\ \/ /\ mw[p].heartbeat_at <= 0
          /\ SendToBroker(p, [cmd |-> "HEARTBEAT"])
          /\ mw' = [mw EXCEPT ![p].phase = "recv", ![p].heartbeat_at = @ + HeartbeatInterval]
       \/ /\ mw[p].heartbeat_at > 0
          /\ mw' = [mw EXCEPT ![p].phase = "recv"]
          /\ UNCHANGED internal_in
    /\ UNCHANGED <<open, internal_out>>

-----------------------------------------------------------------------------
(* worker_loop: the actions of a request, one after the other.             *)

Acting(p) == mw[p].phase = "act" /\ mw[p].next <= mw[p].request.actions

(* It returns a result; so does an action that the worker does not know.   *)
ActionDone(p) ==
    /\ Acting(p)
    /\ mw' = [mw EXCEPT ![p].next = @ + 1, ![p].results = @ + 1]
    /\ UNCHANGED <<open, internal_in, internal_out>>

(* It is postponed: the queue is keyed by the action's id, and add fails   *)
(* when that id is in it already, which is logged and no more.             *)
ActionPostponed(p) ==
    /\ Acting(p)
    /\ LET id == ActionId(mw[p].request.call, mw[p].next)
           added == [id |-> id, reply_to |-> mw[p].request.call,
                     remaining_runs |-> Retries, rerun |-> FALSE]
       IN mw' = [mw EXCEPT ![p].next = @ + 1,
                           ![p].postponed_actions =
                               IF \E a \in @ : a.id = id THEN @ ELSE @ \cup {added}]
    /\ UNCHANGED <<open, internal_in, internal_out>>

(* It throws: a MALFORMED_MESSAGE result, and the others are not run.      *)
ActionThrows(p) ==
    /\ Acting(p)
    /\ mw' = [mw EXCEPT ![p].next = mw[p].request.actions + 1, ![p].results = @ + 1]
    /\ UNCHANGED <<open, internal_in, internal_out>>

(* Fault: a REPLY is sent although every action was postponed.             *)
FinishWithReply(p) ==
    /\ mw[p].phase = "act" /\ mw[p].next > mw[p].request.actions
    /\ SendToBroker(p, [cmd |-> "REPLY", call |-> mw[p].request.call, results |-> mw[p].results])
    /\ mw' = [mw EXCEPT ![p].phase = "recv", ![p].request = NoId,
                        ![p].next = 1, ![p].results = 0]
    /\ UNCHANGED <<open, internal_out>>

(* The results, if any, are sent when recv is called again.                *)
FinishRequest(p) ==
    /\ mw[p].phase = "act" /\ mw[p].next > mw[p].request.actions
    /\ \/ /\ mw[p].results > 0
          /\ SendToBroker(p, [cmd |-> "REPLY", call |-> mw[p].request.call,
                              results |-> mw[p].results])
       \/ /\ mw[p].results = 0
          /\ UNCHANGED internal_in
    /\ mw' = [mw EXCEPT ![p].phase = "recv", ![p].request = NoId,
                        ![p].next = 1, ![p].results = 0]
    /\ UNCHANGED <<open, internal_out>>

-----------------------------------------------------------------------------
(* The process starts, and dies in whatever phase it is.                   *)
StartWorker(p) ==
    /\ mw[p].phase = "down"
    /\ mw' = [mw EXCEPT ![p].phase = "connect"]
    /\ UNCHANGED <<open, internal_in, internal_out>>

WorkerDies(p) ==
    /\ mw[p].phase # "down"
    /\ \/ mw[p].identity # NoId /\ CloseSocket(p)
       \/ mw[p].identity = NoId /\ UNCHANGED <<open, internal_in, internal_out>>
    /\ mw' = [mw EXCEPT ![p] = NotRunning]

(* The workers' share of a tick of the clock.                              *)
Dec(n) == IF n > 0 THEN n - 1 ELSE 0

WorkersTick ==
    mw' = [p \in Process |-> [mw[p] EXCEPT !.heartbeat_at = Sooner(@), !.wait = Dec(@)]]
=============================================================================
