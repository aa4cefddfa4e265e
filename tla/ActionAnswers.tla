---------------------------- MODULE ActionAnswers ----------------------------
(***************************************************************************)
(* What all actions on an asset have in common: a worker runs one at a     *)
(* time, for the first time or again after it was postponed, and fills in  *)
(* a result_msg (common/protocol/msg_types.hpp).  The asset may change     *)
(* between any two calls that an action makes.  The actions themselves are *)
(* in the modules that extend this one.                                    *)
(***************************************************************************)
EXTENDS Integers, Sequences, FiniteSets, SequencesExt

CONSTANTS Op,           \* the actions
          AssetsOf(_),  \* what an asset may be like, as far as an action sees it
          Mandatory(_), \* the errors of an action that lacks a parameter
          MaxChanges,   \* bound: changes of the asset during an action
          None

VARIABLES op,         \* the action that runs, or ran last
          pc,         \* where it is; "idle", "done": it does not run
          again,      \* it runs from handle_postponed_actions
          work,       \* what it keeps from one call to the next
          answer,     \* its result_msg
          status,     \* what act() returned, or "THROWS", or "DIED"
          asset,      \* the asset
          seen,       \* history: what the asset was like while it ran
          troubled    \* history: a call failed, or it read what it must not

answerVars == <<op, pc, again, work, answer, status, asset, seen, troubled>>

-----------------------------------------------------------------------------
(* Result codes.                                                           *)

ERROR_IN_REQUEST == {"MALFORMED_MESSAGE", "KEY_AND_VALUE_ARE_MANDATORY", "KEY_IS_MANDATORY",
    "BAD_PARAMETER", "PARAM_IS_MANDATORY", "PATH_IS_MANDATORY", "SHARE_NAME_IS_MANDATORY",
    "REMOTE_AND_USERNAME_ARE_MANDATORY", "SHARE_IS_MISSING_IN_KEY"}
CDCM_INTERNAL_ERROR == {"SESSION_NOT_FOUND", "INTERNAL_ERROR", "MEMORY_ALLOCATION_FAILED",
    "READ_FILE_FAILED", "OPEN_KEY_FAILED", "FAILED_ADDING_NEW_SESSION"}
ERROR_WITH_ASSET == {"LIST_FAILED", "GENERAL_ERROR_WITH_ASSET", "VALUE_IS_EMPTY"}

(* Fault: what is no request's and no internal error is none.              *)
FaultMapsToOk(e) ==
    CASE e \in ERROR_IN_REQUEST -> "ERROR_IN_REQUEST"
      [] e \in CDCM_INTERNAL_ERROR -> "CDCM_INTERNAL_ERROR"
      [] OTHER -> "OK"
cdcm_error_mapping(e) ==
    CASE e = "OK" -> "OK"
      [] e \in ERROR_IN_REQUEST -> "ERROR_IN_REQUEST"
      [] e \in CDCM_INTERNAL_ERROR -> "CDCM_INTERNAL_ERROR"
      [] e \in ERROR_WITH_ASSET -> "ERROR_WITH_ASSET"

ErrorText(e) == [error |-> e]

result_msg == [group |-> None, code |-> None, res |-> None]

set_response_for_success(res) == [group |-> "OK", code |-> "OK", res |-> [content |-> res]]

set_response_for_error(e) ==
    [group |-> cdcm_error_mapping(e), code |-> e, res |-> ErrorText(e)]

(* The code of the asset instead of that of the error, unless it is zero.  *)
set_response_for_error_with_unique_code_or_msg(e, code) ==
    [group |-> cdcm_error_mapping(e), code |-> IF code = "0" THEN e ELSE code,
     res |-> ErrorText(code)]

-----------------------------------------------------------------------------
AnswersInit ==
    /\ op = None /\ pc = "idle" /\ again = FALSE /\ work = None
    /\ answer = result_msg /\ status = None
    /\ asset = None /\ seen = {} /\ troubled = FALSE

(* No action runs, the last ended with st.                                 *)
Idle(st) ==
    /\ op' = None /\ pc' = "idle" /\ again' = FALSE /\ work' = None
    /\ answer' = result_msg /\ status' = st
    /\ asset' = None /\ seen' = {}

In(ops, at) == op \in ops /\ pc = at
AtRest == pc \in {"idle", "done"}

(* Every act() begins with the same checks: the session has been found and *)
(* the mandatory parameters are there.  runs: whether it may be run again. *)
Begin(o, runs, first, fresh) ==
    /\ pc = "idle"
    /\ op' = o /\ again' \in runs /\ work' = fresh
    /\ asset' \in AssetsOf(o) /\ seen' = {asset'} /\ troubled' = FALSE
    /\ \/ pc' = first /\ answer' = result_msg /\ status' = None
       \/ /\ pc' = "done" /\ status' = "FAILED"
          /\ \E e \in {"SESSION_NOT_FOUND"} \cup Mandatory(o) : answer' = set_response_for_error(e)

Goes(next, w) ==
    /\ pc' = next /\ work' = w
    /\ UNCHANGED <<op, again, answer, status, asset, seen>>

Returns(st, ans) ==
    /\ pc' = "done" /\ status' = st /\ answer' = ans
    /\ UNCHANGED <<op, again, work, asset, seen>>

Succeeds(res) == Returns("SUCCEEDED", set_response_for_success(res))
Fails(e) == Returns("FAILED", set_response_for_error(e))

(* What an error of the asset is answered with.                            *)
AssetSays(code) ==
    set_response_for_error_with_unique_code_or_msg("GENERAL_ERROR_WITH_ASSET", code)

(* What the question whether something is there is answered with.          *)
Says(yes) == set_response_for_success(IF yes THEN "True" ELSE "False")

Dies == Idle("DIED")

(* The worker takes the result and goes on with its next action.           *)
IsTaken == pc = "done" /\ Idle(None) /\ troubled' = FALSE

(* A first run is caught and answered, another one ends the worker.        *)
Throws ==
    IF again THEN Dies ELSE Returns("THROWS", set_response_for_error("MALFORMED_MESSAGE"))

Fine == UNCHANGED troubled
Trouble == troubled' = TRUE

(* The asset changes while an action runs.                                 *)
Change ==
    /\ ~AtRest
    /\ Cardinality(seen) <= MaxChanges
    /\ asset' \in AssetsOf(op) \ seen
    /\ seen' = seen \cup {asset'}
    /\ UNCHANGED <<op, pc, again, work, answer, status, troubled>>
=============================================================================
