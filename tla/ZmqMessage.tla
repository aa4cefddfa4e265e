----------------------------- MODULE ZmqMessage -----------------------------
(***************************************************************************)
(* Messages of several frames (common/zmq/zmq_message) and the envelopes   *)
(* that the broker and the workers put around them, to bring an answer     *)
(* back to the client it is for.  A frame is a sequence of bytes; a        *)
(* message is a sequence of frames.                                        *)
(***************************************************************************)
EXTENDS Integers, Sequences, SequencesExt

At == 64     \* '@'
uuid_str_len == 17

Empty == <<>>

-----------------------------------------------------------------------------
(* The identities that a ROUTER socket makes up, a zero and 16 bytes, are  *)
(* kept as 33 characters.                                                  *)

hex_char(v) == IF v < 10 THEN 48 + v ELSE 55 + v
(* -1 in the code's table, and 240 or -1 in what it is shifted and added to. *)
hex_to_bin(c) == CASE c \in 48..57 -> c - 48
                   [] c \in 65..70 -> c - 55
                   [] c \in 97..102 -> c - 87
                   [] OTHER -> -1

(* Fault: the halves of a byte change places.                              *)
FaultSwapsHalves(data) ==
    <<At>> \o [k \in 1..32 |-> hex_char(IF k % 2 = 1 THEN data[(k \div 2) + 2] % 16
                                        ELSE data[(k \div 2) + 1] \div 16)]
encode_uuid(data) ==
    <<At>> \o [k \in 1..32 |-> hex_char(IF k % 2 = 1 THEN data[(k \div 2) + 2] \div 16
                                        ELSE data[(k \div 2) + 1] % 16)]

decode_uuid(uuidstr) ==
    <<0>> \o [b \in 1..16 |-> (hex_to_bin(uuidstr[2 * b]) * 16
                               + hex_to_bin(uuidstr[(2 * b) + 1])) % 256]

-----------------------------------------------------------------------------
(* What a socket delivers, and what it is given to deliver.                *)

recv(frames) ==
    [k \in DOMAIN frames |->
        LET f == frames[k]
        IN IF Len(f) = uuid_str_len /\ f[1] = 0 THEN encode_uuid(f) ELSE f]

send(msg) ==
    [k \in DOMAIN msg |->
        LET f == msg[k]
        IN IF Len(f) = 33 /\ f[1] = At THEN decode_uuid(f) ELSE f]

(* A frame as a C string: what is in front of its first zero.              *)
c_str(f) ==
    LET zeros == {k \in DOMAIN f : f[k] = 0}
    IN IF zeros = {} THEN f
       ELSE SubSeq(f, 1, (CHOOSE k \in zeros : \A j \in zeros : k <= j) - 1)

body(msg) == msg[Len(msg)]
body_set(msg, b) == (IF msg = <<>> THEN <<>> ELSE Front(msg)) \o <<c_str(b)>>
push_front(msg, f) == <<c_str(f)>> \o msg
pop_front(msg) == IF msg = <<>> THEN <<>> ELSE Tail(msg)
front(msg) == IF msg = <<>> THEN Empty ELSE msg[1]

wrap(msg, address, delim) == push_front(push_front(msg, delim), address)

(* Fault: the delimiter stays.                                             *)
FaultLeavesDelimiter(msg) == [addr |-> c_str(front(msg)), msg |-> pop_front(msg)]
(* The first frame, and the delimiter behind it if there is one.           *)
unwrap(msg) ==
    LET rest == pop_front(msg)
    IN [addr |-> c_str(front(msg)),
        msg |-> IF rest # <<>> /\ c_str(rest[1]) = Empty THEN Tail(rest) ELSE rest]

-----------------------------------------------------------------------------
(* mdp.hpp *)
MDPC_CLIENT == <<77, 68, 80, 67, 48, 49>>
MDPW_WORKER == <<77, 68, 80, 87, 48, 49>>
MDPW_READY == <<1>>
MDPW_REQUEST == <<2>>
MDPW_REPLY == <<3>>
MDPW_HEARTBEAT == <<4>>
MDPW_DISCONNECT == <<5>>

-----------------------------------------------------------------------------
(* The broker.                                                             *)

(* The sender, the header and the rest of a message; the frame between     *)
(* the first two is dropped whatever it is.                                *)
handle_message(frames) ==
    LET msg == recv(frames)
        headed == pop_front(pop_front(msg))
    IN [sender |-> c_str(front(msg)), header |-> c_str(front(headed)),
        msg |-> pop_front(headed)]

(* client_process: the part of a request for workers, as it is queued.     *)
for_workers(sender, unknown_actions) == wrap(body_set(<<>>, unknown_actions), sender, Empty)

(* worker_send: no option is ever given.                                   *)
worker_send(identity, command, msg) ==
    send(wrap(push_front(push_front(msg, command), MDPW_WORKER), identity, Empty))

(* worker_process, a reply: what is sent to the client, <<>> when the      *)
(* address in it is empty; then the worker does not become idle either.    *)
worker_reply(msg) ==
    LET reply == unwrap(pop_front(msg))
    IN IF reply.addr = Empty THEN <<>>
       ELSE send(wrap(wrap(reply.msg, MDPC_CLIENT, Empty), reply.addr, Empty))

(* Fault: the answer is for the frame behind the client's.                 *)
FaultSwapsAddresses(result, sender, client) ==
    IF client = Empty \/ sender = Empty THEN <<>>
    ELSE send(wrap(wrap(body_set(<<>>, result), MDPC_CLIENT, sender), client, Empty))
send_local_to_client(result, sender, client) ==
    IF client = Empty \/ sender = Empty THEN <<>>
    ELSE send(wrap(wrap(body_set(<<>>, result), MDPC_CLIENT, client), sender, Empty))

-----------------------------------------------------------------------------
(* The worker.                                                             *)

(* A request: the address the answer goes to, and the rest.                *)
take_request(frames) ==
    LET msg == recv(frames)
    IN [command |-> c_str(msg[3]), request |-> unwrap(SubSeq(msg, 4, Len(msg)))]

(* send_to_broker, without option.                                         *)
send_to_broker(command, msg) ==
    send(push_front(push_front(push_front(msg, command), MDPW_WORKER), Empty))

(* An answer, at once or from the queue of postponed actions.              *)
answer(result, reply_to) ==
    send_to_broker(MDPW_REPLY, wrap(<<c_str(result)>>, reply_to, Empty))

(* The ROUTER socket takes the identity off the front of what it is given, *)
(* and puts it in front of what it gets.                                   *)
routed(frames) == [to |-> Head(frames), frames |-> Tail(frames)]
from(identity, frames) == <<identity>> \o frames

-----------------------------------------------------------------------------
(* Properties.  An identity is one that a ROUTER socket made up, or one    *)
(* without zeros that a client chose; it does not look like the text of    *)
(* the former.                                                             *)

ByClient(id) == id # Empty /\ (\A k \in DOMAIN id : id[k] # 0) /\ ~(Len(id) = 33 /\ id[1] = At)
ByRouter(id) == Len(id) = uuid_str_len /\ id[1] = 0

Request(identity, client, b) == from(identity, <<Empty, MDPC_CLIENT, client, b>>)

(* The answer of a worker to a request of a client is given to that client *)
(* and has the two frames in front of its body that clients skip, whoever  *)
(* the client and the worker are.                                          *)
AnswerGoesBack(identity, client, b, worker) ==
    ByClient(identity) \/ ByRouter(identity) =>
        LET got == handle_message(Request(identity, client, b))
            out == routed(worker_send(worker, MDPW_REQUEST, for_workers(got.sender, b)))
            job == take_request(out.frames)
            back == handle_message(from(worker, answer(body(job.request.msg), job.request.addr)))
            last == routed(worker_reply(back.msg))
        IN /\ got.header = MDPC_CLIENT
           /\ out.to = worker
           /\ job.command = MDPW_REQUEST
           /\ back.sender = worker /\ back.header = MDPW_WORKER /\ front(back.msg) = MDPW_REPLY
           /\ last.to = identity
           /\ last.frames = <<Empty, MDPC_CLIENT, Empty, b>>

(* The answer of the broker's own actions is given to the client that      *)
(* asked, with the frame the client put in front of the body.              *)
LocalAnswerGoesBack(identity, client, b) ==
    (ByClient(identity) \/ ByRouter(identity)) /\ client # Empty =>
        LET got == handle_message(Request(identity, client, b))
            last == routed(send_local_to_client(b, got.sender, unwrap(got.msg).addr))
        IN last.to = identity /\ last.frames = <<Empty, MDPC_CLIENT, client, b>>
=============================================================================
