----------------------------- MODULE Envelopes -----------------------------
(***************************************************************************)
(* Where the answers go: the frames of many requests, of many clients, on  *)
(* their way through the broker and the workers and back.  What is on the  *)
(* way may overtake, and a request may be answered more than once: by the  *)
(* broker, by a worker at once, and later for actions it has postponed.    *)
(* The text of an answer is that of the request it is for.                 *)
(***************************************************************************)
EXTENDS ZmqMessage

CONSTANTS Client,       \* identities, as the ROUTER socket says them
          Worker,       \* identities that workers have chosen (zmq_helpers::set_id)
          Service,      \* the frame that a client puts in front of the body
          Text          \* bodies

ASSUME IdentityAssumption ==
    \A f \in Client : f \in Seq(0..255) /\ (ByClient(f) \/ ByRouter(f))

ASSUME ServiceAssumption ==
    \A f \in Service : f \in Seq(0..255) /\ (f = Empty \/ ByClient(f) \/ ByRouter(f))

ASSUME TextAssumption == \A f \in Worker \cup Text : f \in Seq(0..255) /\ ByClient(f)

VARIABLES external,     \* frames for the broker, from clients
          requests,     \* of the broker
          internal,     \* frames for workers
          jobs,         \* what workers have been asked and to whom the answer goes
          replies,      \* frames for the broker, from workers
          delivered,    \* what clients are sent in a step
          posted        \* history: what clients have asked

frames_vars == <<external, requests, internal, jobs, replies, delivered, posted>>

FramesInit ==
    /\ external = {} /\ requests = {} /\ internal = {} /\ jobs = {} /\ replies = {}
    /\ delivered = {} /\ posted = {}

ClientSends(id, service, text) ==
    /\ external' = external \cup {Request(id, service, text)}
    /\ posted' = posted \cup {[id |-> id, service |-> service, text |-> text]}
    /\ delivered' = {}
    /\ UNCHANGED <<requests, internal, jobs, replies>>

-----------------------------------------------------------------------------
(* The broker's own answers: one to a message that it cannot take apart,   *)
(* and one for the actions it knows, also those in front of what it cannot *)
(* take apart; msg is unwrapped each time.                                 *)
LocalAnswers(got, malformed, known_actions) ==
    LET text == body(got.msg)
        first == unwrap(got.msg)
        second == unwrap(first.msg)
        to_client(addr) == send_local_to_client(text, got.sender, addr)
        answers == CASE malformed /\ known_actions -> {to_client(first.addr), to_client(second.addr)}
                     [] malformed # known_actions -> {to_client(first.addr)}
                     [] OTHER -> {}
    IN answers \ {<<>>}

(* client_process *)
BrokerReads(f) ==
    LET got == handle_message(f)
    IN /\ got.header = MDPC_CLIENT
       /\ external' = external \ {f}
       /\ \E malformed, known_actions \in BOOLEAN :
              delivered' = {routed(m) : m \in LocalAnswers(got, malformed, known_actions)}
       /\ \/ requests' = requests \cup {for_workers(got.sender, body(got.msg))}
          \/ UNCHANGED requests
       /\ UNCHANGED <<internal, jobs, replies, posted>>

(* service_dispatch *)
Dispatches(msg, worker) ==
    /\ requests' = requests \ {msg}
    /\ internal' = internal \cup {routed(worker_send(worker, MDPW_REQUEST, msg))}
    /\ delivered' = {}
    /\ UNCHANGED <<external, jobs, replies, posted>>

WorkerReads(m) ==
    LET job == take_request(m.frames)
    IN /\ job.command = MDPW_REQUEST
       /\ internal' = internal \ {m}
       /\ jobs' = jobs \cup {[worker |-> m.to, reply_to |-> job.request.addr,
                              text |-> body(job.request.msg)]}
       /\ delivered' = {}
       /\ UNCHANGED <<external, requests, replies, posted>>

(* At once, or when actions that were postponed are tried again.           *)
WorkerAnswers(j) ==
    /\ replies' = replies \cup {from(j.worker, answer(j.text, j.reply_to))}
    /\ jobs' \in {jobs, jobs \ {j}}
    /\ delivered' = {}
    /\ UNCHANGED <<external, requests, internal, posted>>

(* worker_process *)
BrokerReturns(f) ==
    LET back == handle_message(f)
        m == worker_reply(back.msg)
    IN /\ back.header = MDPW_WORKER /\ front(back.msg) = MDPW_REPLY
       /\ replies' = replies \ {f}
       /\ delivered' = IF m = <<>> THEN {} ELSE {routed(m)}
       /\ UNCHANGED <<external, requests, internal, jobs, posted>>

FramesNext ==
    \/ \E id \in Client, service \in Service, text \in Text : ClientSends(id, service, text)
    \/ \E f \in external : BrokerReads(f)
    \/ \E msg \in requests, worker \in Worker : Dispatches(msg, worker)
    \/ \E m \in internal : WorkerReads(m)
    \/ \E j \in jobs : WorkerAnswers(j)
    \/ \E f \in replies : BrokerReturns(f)

FramesSpec == FramesInit /\ [][FramesNext]_frames_vars

-----------------------------------------------------------------------------
(* Every answer is given to the client that asked, whoever else is asking, *)
(* and has the two frames in front of it that the request had, and between *)
(* them and the body a frame that is empty or also from the request.       *)
AnswersGoBack ==
    \A m \in delivered :
        \E r \in posted : /\ m.to = r.id
                        /\ \E f \in {Empty, r.service, r.text} :
                               m.frames = <<Empty, MDPC_CLIENT, f, r.text>>
=============================================================================
