------------------------------ MODULE Settings ------------------------------
(***************************************************************************)
(* What the broker and the workers share: the names their messages carry   *)
(* and the settings both read (common/singleton_runner/settings.hpp).      *)
(* Durations are in ticks of the clock of the model.                       *)
(***************************************************************************)
EXTENDS Integers

CONSTANTS WorkerId,            \* identities of worker sockets (zmq_helpers::set_id)
          Session,             \* identifiers of sessions
          NoSession,           \* "N/A", the session id of a client without a session
          EmptyId,             \* "", what a header starts with
          HeartbeatExpiry,     \* heartbeat_expiry_
          HeartbeatInterval    \* heartbeat_interval_

ASSUME HeartbeatExpiryAssumption == HeartbeatExpiry \in Nat \ {0}

ASSUME HeartbeatIntervalAssumption == HeartbeatInterval \in Nat

(* A tick later for a heartbeat that is n ticks away.  One that is overdue *)
(* by more than an interval is kept as overdue by one.                     *)
Sooner(n) == IF n > -HeartbeatInterval THEN n - 1 ELSE n

SessionId == Session \cup {NoSession, EmptyId}
=============================================================================
