---------------------------- MODULE BrokerSystem ----------------------------
(***************************************************************************)
(* The broker among clients and workers of which only the protocol is      *)
(* known: a worker says READY when its socket is connected, heartbeats     *)
(* when it likes, answers the requests it holds in one or more REPLYs or   *)
(* not at all, and closes its socket when it is told to DISCONNECT, when   *)
(* it gives the broker up and when it dies.  MessageWorker is one such     *)
(* worker.  Whatever connects to the socket for workers may also say what  *)
(* the broker does not know; MessageWorker never does.  The broker process *)
(* may die too; its supervisor starts it again with nothing in its memory. *)
(***************************************************************************)
EXTENDS MessageBroker

CONSTANTS MaxQueue,     \* bound: messages between the broker and one worker
          Unbounded,    \* in its place: there is no such bound, as in the code
          MaxGarbled,   \* bound: places of a queue, and workers not announced, at an unknown message
          MaxCrashes    \* bound: deaths of the broker

ASSUME BoundsAssumption ==
    /\ MaxQueue \in Nat \cup {Unbounded}
    /\ MaxCrashes \in Nat
    /\ MaxGarbled \in Nat

VARIABLES held,      \* results that workers were asked for and have not sent, per call
          crashes    \* deaths of the broker so far

envVars == <<held, crashes>>
vars == <<brokerVars, socketVars, envVars>>

TypeOK ==
    /\ BrokerTypeOK
    /\ SocketsTypeOK
    /\ held \in [Call -> Nat]
    /\ crashes \in 0..MaxCrashes

Init ==
    /\ BrokerInit
    /\ SocketsInit
    /\ held = [c \in Call |-> 0]
    /\ crashes = 0

-----------------------------------------------------------------------------
(* Workers                                                                 *)

Room(w) == MaxQueue = Unbounded \/ Len(internal_in[w]) + Len(internal_out[w]) < MaxQueue

Says(w, m) ==
    /\ w \in open
    /\ Room(w)
    /\ internal_in' = [internal_in EXCEPT ![w] = Append(@, m)]

(* A socket gets an identity that nothing remembers.                       *)
WorkerOpens(w) ==
    /\ w \notin open /\ ~exists(workers, w)
    /\ internal_in[w] = <<>>
    /\ open' = open \cup {w}
    /\ internal_in' = [internal_in EXCEPT ![w] = <<[cmd |-> "READY"]>>]
    /\ UNCHANGED <<brokerVars, internal_out, external_in, external_out, sent, envVars>>

(* With the socket go the messages it has not read and those it has not    *)
(* passed on; a message that the broker's poll has announced is safe.      *)
Closes(w, kept) ==
    /\ open' = open \ {w}
    /\ internal_in' = [internal_in EXCEPT ![w] = SubSeq(@, 1, kept)]
    /\ "internal" \in todo => \E v \in WorkerId : internal_in'[v] # <<>>
    /\ internal_out' = [internal_out EXCEPT ![w] = <<>>]
    /\ UNCHANGED <<brokerVars, external_in, external_out, sent, envVars>>

WorkerCloses(w) == w \in open /\ \E kept \in 0..Len(internal_in[w]) : Closes(w, kept)

WorkerTakesHeartbeat(w) ==
    /\ internal_out[w] # <<>> /\ Head(internal_out[w]).cmd = "HEARTBEAT"
    /\ internal_out' = [internal_out EXCEPT ![w] = Tail(@)]
    /\ UNCHANGED <<brokerVars, open, internal_in, external_in, external_out, sent, envVars>>

WorkerTakesRequest(w) ==
    /\ internal_out[w] # <<>> /\ Head(internal_out[w]).cmd = "REQUEST"
    /\ LET r == Head(internal_out[w]).req
       IN held' = [held EXCEPT ![r.call] = @ + r.actions]
    /\ internal_out' = [internal_out EXCEPT ![w] = Tail(@)]
    /\ UNCHANGED <<brokerVars, open, internal_in, external_in, external_out, sent, crashes>>

WorkerReplies(w, c) ==
    /\ \E n \in 1..MaxActions :
          /\ n <= held[c]
          /\ Says(w, [cmd |-> "REPLY", call |-> c, results |-> n])
          /\ held' = [held EXCEPT ![c] = @ - n]
    /\ UNCHANGED <<brokerVars, open, internal_out, external_in, external_out, sent, crashes>>

WorkerHeartbeats(w) ==
    /\ Says(w, [cmd |-> "HEARTBEAT"])
    /\ UNCHANGED <<brokerVars, open, internal_out, external_in, external_out, sent, envVars>>

WorkerGarbles(w) ==
    /\ Cardinality({v \in DOMAIN workers : ~workers[v].announced}) < MaxGarbled
    /\ \A v \in WorkerId : Len(internal_in[v]) + Len(internal_out[v]) < MaxGarbled
    /\ Says(w, [cmd |-> "INVALID"])
    /\ UNCHANGED <<brokerVars, open, internal_out, external_in, external_out, sent, envVars>>

(* A worker that leaves of its own accord says so.                         *)
WorkerLeaves(w) ==
    /\ w \in open /\ Room(w)
    /\ open' = open \ {w}
    /\ internal_in' = [internal_in EXCEPT ![w] = Append(@, [cmd |-> "DISCONNECT"])]
    /\ internal_out' = [internal_out EXCEPT ![w] = <<>>]
    /\ UNCHANGED <<brokerVars, external_in, external_out, sent, envVars>>

WorkerNext ==
    \E w \in WorkerId :
        \/ WorkerOpens(w) \/ WorkerCloses(w) \/ WorkerLeaves(w)
        \/ WorkerTakesHeartbeat(w) \/ WorkerTakesRequest(w)
        \/ WorkerHeartbeats(w) \/ WorkerGarbles(w) \/ \E c \in Call : WorkerReplies(w, c)

-----------------------------------------------------------------------------
(* Clients, the clock, and the end of the broker process                   *)

ClientNext == \E r \in Request : ClientSend(r) /\ UNCHANGED <<brokerVars, envVars>>

Tick ==
    /\ BrokerTick
    /\ UNCHANGED <<socketVars, envVars>>

(* What the process had received or not yet passed on dies with it: of a   *)
(* queue towards it the older messages, of a queue from it the newer ones. *)
Newer(q) == {SubSeq(q, k, Len(q)) : k \in 1..Len(q) + 1}
Older(q) == {SubSeq(q, 1, k) : k \in 0..Len(q)}

EachFrom(parts) == {f \in [WorkerId -> UNION {parts[w] : w \in WorkerId}] :
                       \A w \in WorkerId : f[w] \in parts[w]}

BrokerCrash ==
    /\ crashes < MaxCrashes
    /\ crashes' = crashes + 1
    /\ workers' = NoWorkers
    /\ requests' = <<>>
    /\ todo' = {}
    /\ dispatch_id' = EmptyId
    /\ heartbeat_at' = HeartbeatInterval
    /\ internal_in' \in EachFrom([w \in WorkerId |-> Newer(internal_in[w])])
    /\ internal_out' \in EachFrom([w \in WorkerId |-> Older(internal_out[w])])
    /\ external_in' \in Newer(external_in)
    /\ UNCHANGED <<open, external_out, sent, held>>

Step == (BrokerNext /\ UNCHANGED envVars) \/ WorkerNext \/ ClientNext

Next == Step \/ Tick \/ BrokerCrash

Spec == Init /\ [][Next]_vars

-----------------------------------------------------------------------------
(* Properties                                                              *)

(* Workers that are idle and have said so.                                 *)
Waiting(ws) == {w \in idle_workers(ws) : ws[w].announced}

(* A request waits in requests_ only while no registered worker is idle:   *)
(* whichever comes last, the request or the idle worker, service_dispatch  *)
(* runs for it, so that no request is forgotten with a worker free for it. *)
(* Left out are the entries that an unknown command made: no dispatch      *)
(* follows it.                                                             *)
WorkConserving == "dispatch" \notin todo => requests = <<>> \/ Waiting(workers) = {}

(* The loop of service_dispatch reads wrk->identity_ of whatever           *)
(* get_next_worker returns: in the loop the container is never empty, and  *)
(* there is a request at the front of the queue.                           *)
LoopHasWorkerAndRequest == "dispatch" \in todo => DOMAIN workers # {} /\ requests # <<>>

(* Results of the worker actions of call c that are somewhere between the  *)
(* client and the client again, counted one by one where they are.         *)
InRequest(r, c) == IF r.call = c THEN r.actions ELSE 0
InDispatch(m, c) == IF m.cmd = "REQUEST" THEN InRequest(m.req, c) ELSE 0
InReply(m, c) == IF m.cmd = "REPLY" /\ m.call = c THEN m.results ELSE 0

Actions == 1..MaxActions

Count(q, n(_)) == Cardinality({x \in (1..Len(q)) \X Actions : x[2] <= n(q[x[1]])})

AtWorker(w, c) ==
    Count(internal_out[w], LAMBDA m : InDispatch(m, c))
    + Count(internal_in[w], LAMBDA m : InReply(m, c))

Owed(c) ==
    held[c] + Count(external_in, LAMBDA r : InRequest(r, c)) + Count(requests, LAMBDA r : InRequest(r, c))
    + Cardinality(UNION {{w} \X (1..AtWorker(w, c)) : w \in WorkerId})

Asked(c) == Cardinality({x \in sent \X Actions : x[2] <= InRequest(x[1], c)})

Promise == INSTANCE CallPromise WITH
    asked <- [c \in Call |-> Asked(c)],
    owed <- [c \in Call |-> Owed(c)],
    delivered <- [c \in Call |-> external_out[c].results]

(* Whatever dies, expires, is forwarded or is sent to a worker that is not *)
(* there any more, an action of a request is never dispatched or answered  *)
(* a second time: the broker keeps CallPromise.                            *)
KeepsPromise == Promise!Spec

(* A worker that the broker has forgotten is not brought back, with its    *)
(* old requests unknown, by the REPLY or the HEARTBEAT that comes late:    *)
(* worker_require registers the sender of any message, and their branches  *)
(* have to erase it again.  That of an unknown command does not.           *)
ForgottenStayForgotten ==
    [][\A w \in WorkerId :
          exists(workers, w)' /\ ~exists(workers, w)
          => internal_in[w] # <<>> /\ Head(internal_in[w]).cmd \in {"READY", "INVALID"}]_vars

-----------------------------------------------------------------------------
(* What a comment in message_broker.cpp says and the code does not do.     *)

(* A REQUEST is put into the queue towards w.                              *)
Dispatches(w) ==
    /\ Len(internal_out'[w]) > Len(internal_out[w])
    /\ internal_out'[w][Len(internal_out'[w])].cmd = "REQUEST"

(* message_broker.cpp:90 on service_dispatch: "select idle worker".        *)
OnlyIdleAreSelected == [][\A w \in WorkerId : Dispatches(w) => workers[w].idle]_vars
=============================================================================
