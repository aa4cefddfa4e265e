---------------------------- MODULE LocalActions ----------------------------
(***************************************************************************)
(* What the broker does with the message of a client (client_process and   *)
(* do_act in frontend/message_broker.cpp, the actions in frontend/actions):*)
(* it takes the message apart, runs the actions it knows, one after the    *)
(* other, on the sessions, and passes the others on.  Meanwhile the thread *)
(* of maintenance removes sessions that have expired.                      *)
(*                                                                         *)
(* An action is a record: name, the remote of start_session, and complete: *)
(* it has the parameters that it must have, or asks for what there is.     *)
(***************************************************************************)
EXTENDS Integers, Sequences, FiniteSets

CONSTANTS Id,           \* of sessions
          NoSession,
          Remote,
          Action,       \* the actions that clients may send
          Capacity,     \* sessions the segment has room for
          MaxActions    \* bound: actions in one message

Name == {"start_session", "close_session", "get_cdcm_info", "of workers"}

ASSUME ActionAssumption ==
    Action \subseteq [name : Name, remote : Remote, complete : BOOLEAN]

ASSUME NoSessionAssumption == NoSession \notin Id

session == [id : Id, remote : Remote]

VARIABLES sessions,     \* the cache
          given,        \* history: ids that sessions have had
          stage,        \* of client_process: "parse", "act", or "idle" between two messages
          session_id,   \* in the header of the message
          known,        \* known_actions_msg
          unknown,      \* unknown_actions_msg
          sess,         \* the session that was looked up
          msgs,         \* the answers
          malformed,    \* whether the client was told MALFORMED_MESSAGE
          before,       \* history: the cache when the message came
          expired       \* history: ids that maintenance has removed since

batchVars == <<sessions, given, stage, session_id, known, unknown, sess, msgs, malformed,
               before, expired>>

BatchInit ==
    /\ sessions = {} /\ given = {}
    /\ stage = "idle" /\ session_id = NoSession
    /\ known = <<>> /\ unknown = <<>> /\ sess = NoSession
    /\ msgs = <<>> /\ malformed = FALSE
    /\ before = {} /\ expired = {}

-----------------------------------------------------------------------------
(* A client only knows ids that it was given.                              *)
Receives(id) ==
    /\ stage = "idle" /\ stage' = "parse"
    /\ session_id' = id
    /\ known' = <<>> /\ unknown' = <<>> /\ sess' = NoSession
    /\ msgs' = <<>> /\ malformed' = FALSE
    /\ before' = sessions /\ expired' = {}
    /\ UNCHANGED <<sessions, given>>

Parse(a) ==
    /\ stage = "parse" /\ Len(known) + Len(unknown) < MaxActions
    /\ \/ a.name # "of workers" /\ known' = Append(known, a) /\ UNCHANGED unknown
       \/ a.name = "of workers" /\ unknown' = Append(unknown, a) /\ UNCHANGED known
    /\ UNCHANGED <<sessions, given, stage, session_id, sess, msgs, malformed, before, expired>>

(* After the last action, or at one that throws when it is taken apart, of *)
(* which the client is told: the session is looked up once, before the     *)
(* first action.                                                           *)
GetSession ==
    /\ stage = "parse" /\ stage' = "act"
    /\ malformed' \in BOOLEAN
    /\ sess' = IF \E s \in sessions : s.id = session_id THEN session_id ELSE NoSession
    /\ UNCHANGED <<sessions, given, session_id, known, unknown, msgs, before, expired>>

Answers(code, id) == msgs' = Append(msgs, [code |-> code, session |-> id])

OfOthers(remote) == {s \in sessions : s.remote # remote}

(* Fault: that the session could not be added is not looked at.            *)
AlwaysAdds(a) ==
    \/ ~a.complete /\ Answers("REMOTE_AND_USERNAME_ARE_MANDATORY", NoSession)
                   /\ UNCHANGED <<sessions, given>>
    \/ /\ a.complete
       /\ \E new \in Id \ given :
              /\ given' = given \cup {new}
              /\ sessions' = IF Cardinality(OfOthers(a.remote)) >= Capacity THEN OfOthers(a.remote)
                             ELSE OfOthers(a.remote) \cup {[id |-> new, remote |-> a.remote]}
              /\ Answers("OK", new)

(* The older session of the remote is gone also when there is no room.     *)
start_session(a) ==
    \/ /\ ~a.complete
       /\ Answers("REMOTE_AND_USERNAME_ARE_MANDATORY", NoSession)
       /\ UNCHANGED <<sessions, given>>
    \/ /\ a.complete /\ Cardinality(OfOthers(a.remote)) >= Capacity
       /\ sessions' = OfOthers(a.remote)
       /\ Answers("FAILED_ADDING_NEW_SESSION", NoSession)
       /\ UNCHANGED given
    \/ /\ a.complete /\ Cardinality(OfOthers(a.remote)) < Capacity
       /\ \E new \in Id \ given :
              /\ given' = given \cup {new}
              /\ sessions' = OfOthers(a.remote) \cup {[id |-> new, remote |-> a.remote]}
              /\ Answers("OK", new)

(* That the session is not there any more makes no difference.             *)
close_session ==
    /\ \/ sess = NoSession /\ Answers("SESSION_NOT_FOUND", NoSession) /\ UNCHANGED sessions
       \/ /\ sess # NoSession
          /\ sessions' = {s \in sessions : s.id # sess}
          /\ Answers("OK", NoSession)
    /\ UNCHANGED given

get_cdcm_info(a) ==
    /\ Answers(IF a.complete THEN "OK" ELSE "BAD_PARAMETER", NoSession)
    /\ UNCHANGED <<sessions, given>>

do_act ==
    /\ stage = "act" /\ Len(msgs) < Len(known)
    /\ LET a == known[Len(msgs) + 1]
       IN \/ a.name = "start_session" /\ start_session(a)
          \/ a.name = "close_session" /\ close_session
          \/ a.name = "get_cdcm_info" /\ get_cdcm_info(a)
    /\ UNCHANGED <<stage, session_id, known, unknown, sess, malformed, before, expired>>

(* send_local_to_client, and the others are dispatched.                    *)
Ends ==
    /\ stage = "act" /\ Len(msgs) = Len(known)
    /\ stage' = "idle"
    /\ UNCHANGED <<sessions, given, session_id, known, unknown, sess, msgs, malformed, before, expired>>

(* maintenance: clean.                                                     *)
Expires(s) ==
    /\ sessions' = sessions \ {s}
    /\ expired' = expired \cup {s.id}
    /\ UNCHANGED <<given, stage, session_id, known, unknown, sess, msgs, malformed, before>>

BatchNext ==
    \/ \E id \in given \cup {NoSession} : Receives(id)
    \/ \E a \in Action : Parse(a)
    \/ GetSession \/ do_act \/ Ends
    \/ \E s \in sessions : Expires(s)

BatchSpec == BatchInit /\ [][BatchNext]_batchVars

-----------------------------------------------------------------------------
Answered(k, name) == known[k].name = name /\ msgs[k].code = "OK"

(* The action has been tried, and takes the place of the remote's session. *)
Replaces(k, remote) ==
    known[k].name = "start_session" /\ known[k].complete /\ known[k].remote = remote

(* The cache holds what the answers say, whatever expires meanwhile: a     *)
(* session that was started and not replaced since, none that was closed,  *)
(* none twice for a remote, and every other one that was there.            *)
AnswersTellTheCache ==
    /\ \A k \in 1..Len(msgs) :
          /\ Answered(k, "start_session") =>
                 \/ [id |-> msgs[k].session, remote |-> known[k].remote] \in sessions
                 \/ msgs[k].session \in expired
                 \/ \E j \in k + 1..Len(msgs) : Replaces(j, known[k].remote)
          /\ Answered(k, "close_session") => \A s \in sessions : s.id # session_id
    /\ \A s, t \in sessions : s.remote = t.remote => s = t
    /\ \A s \in before \ sessions :
          \/ s.id \in expired
          \/ \E k \in 1..Len(msgs) : \/ Replaces(k, s.remote)
                                     \/ Answered(k, "close_session") /\ s.id = session_id
=============================================================================
