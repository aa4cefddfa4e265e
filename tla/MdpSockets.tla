----------------------------- MODULE MdpSockets -----------------------------
(***************************************************************************)
(* What travels between clients, the broker and the workers, as ZeroMQ     *)
(* carries it: the broker's ROUTER socket for workers (internal_socket_)   *)
(* is a FIFO queue per worker identity in each direction, its ROUTER       *)
(* socket for clients (external_socket_) a FIFO queue of requests.         *)
(* ZeroMQ is a library: it is modelled from what the broker and the        *)
(* workers ask of it.                                                      *)
(*                                                                         *)
(* A request is one message of a client: a header with a session, some     *)
(* actions the broker runs itself ("local") and some that only workers     *)
(* know; "malformed" when parsing it throws after those were collected.    *)
(* What a client gets back is counted per call: results of worker actions, *)
(* local replies, and MALFORMED_MESSAGE replies.                           *)
(***************************************************************************)
EXTENDS Settings, Sequences, FiniteSets

CONSTANTS Call,          \* names of the messages that clients send
          Request,       \* the messages clients may send
          MaxActions     \* bound: worker actions in one request

VARIABLES open,          \* identities of the worker sockets that are connected
          internal_in,   \* worker -> broker, per identity
          internal_out,  \* broker -> worker, per identity
          external_in,   \* client -> broker
          external_out,  \* call -> what the client has been sent for it
          sent           \* requests the clients have sent

socketVars == <<open, internal_in, internal_out, external_in, external_out, sent>>

ASSUME RequestAssumption ==
    /\ MaxActions \in Nat
    /\ Request \subseteq [call : Call, session : SessionId, local : BOOLEAN,
                          actions : 0..MaxActions, malformed : BOOLEAN]

(* An identity is two numbers of 16 bits (zmq_helpers::set_id).            *)
ASSUME WorkerIdAssumption == IsFiniteSet(WorkerId)

(* "INVALID" is any message that is none of the four the broker knows: of  *)
(* another header or of another command.                                   *)
FromWorker == [cmd : {"READY", "HEARTBEAT", "DISCONNECT", "INVALID"}]
              \cup [cmd : {"REPLY"}, call : Call, results : 1..MaxActions]

ToWorker == [cmd : {"HEARTBEAT", "DISCONNECT"}] \cup [cmd : {"REQUEST"}, req : Request]

ClientBox == [results : Nat, local : Nat, malformed : Nat]

SocketsTypeOK ==
    /\ open \subseteq WorkerId
    /\ internal_in \in [WorkerId -> Seq(FromWorker)]
    /\ internal_out \in [WorkerId -> Seq(ToWorker)]
    /\ external_in \in Seq(Request)
    /\ external_out \in [Call -> ClientBox]
    /\ sent \subseteq Request

SocketsInit ==
    /\ open = {}
    /\ internal_in = [w \in WorkerId |-> <<>>]
    /\ internal_out = [w \in WorkerId |-> <<>>]
    /\ external_in = <<>>
    /\ external_out = [c \in Call |-> [results |-> 0, local |-> 0, malformed |-> 0]]
    /\ sent = {}

-----------------------------------------------------------------------------

(* A ROUTER socket drops what it is given for a peer that is not there.    *)
WithMessage(out, w, m) == IF w \in open THEN [out EXCEPT ![w] = Append(@, m)] ELSE out

(* A HEARTBEAT behind an unread HEARTBEAT is not queued twice: a worker    *)
(* does nothing for it but reset its liveness.                             *)
EndsInHeartbeat(q) == q # <<>> /\ q[Len(q)].cmd = "HEARTBEAT"

WithHeartbeats(out, ws) ==
    [w \in WorkerId |-> IF w \in ws \cap open /\ ~EndsInHeartbeat(out[w])
                        THEN Append(out[w], [cmd |-> "HEARTBEAT"]) ELSE out[w]]

(* A client sends a request; each call is sent once.                       *)
ClientSend(r) ==
    /\ \A s \in sent : s.call # r.call
    /\ sent' = sent \cup {r}
    /\ external_in' = Append(external_in, r)
    /\ UNCHANGED <<open, internal_in, internal_out, external_out>>

=============================================================================
