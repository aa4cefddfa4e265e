--------------------------- MODULE RemoteActions ---------------------------
(***************************************************************************)
(* One worker and the actions it runs on an asset, one after the other, of *)
(* all families: what each answers, and what one leaves behind for the     *)
(* next in the process they share.                                         *)
(***************************************************************************)
EXTENDS RegistryActions, PermissionActions, FileActions

(* The codes of missing parameters are errors in the request.              *)
ASSUME RemoteAssumption ==
    /\ \A o \in RegistryOp \cup PermissionOp \cup FileOp : Mandatory(o) \subseteq ERROR_IN_REQUEST
    /\ None \notin {"OK", "ERROR_IN_REQUEST", "CDCM_INTERNAL_ERROR", "ERROR_WITH_ASSET"}

(* What an asset has and what is asked for: the lists are lists, and an    *)
(* offset and a size are numbers, negative ones, or no numbers at all.     *)
ASSUME DataAssumption ==
    /\ \A o \in RegistryOp : \A a \in AssetsOf(o) :
           a.subkeys \in Seq(Range(a.subkeys)) /\ a.values \in Seq(Range(a.values))
    /\ \A o \in PermissionOp \cup FileOp : \A a \in AssetsOf(o) : a.content \in Seq(Range(a.content))
    /\ \A o \in FileOp : \A r \in Requests(o) : {r.offset, r.size} \subseteq Nat \cup {-1, NotANumber}

vars == <<answerVars, first_call, libraryVars>>

Init == AnswersInit /\ PermissionInit /\ FileInit

Died == status' = "DIED"

(* What an action of another family leaves of a process: all of it, unless *)
(* it dies and another one is started.                                     *)
PermissionsOfProcess == first_call' = IF Died THEN None ELSE first_call
LibraryOfProcess ==
    /\ current' = IF Died THEN "none" ELSE current
    /\ leaked' = IF Died THEN {} ELSE leaked

Step ==
    \/ RegistryStep /\ PermissionsOfProcess /\ LibraryOfProcess
    \/ PermissionStep /\ LibraryOfProcess
    \/ FileStep /\ PermissionsOfProcess

Next ==
    \/ RegistryNext /\ PermissionsOfProcess /\ LibraryOfProcess
    \/ PermissionNext /\ LibraryOfProcess
    \/ FileNext /\ PermissionsOfProcess
    \/ (Change \/ IsTaken) /\ UNCHANGED <<first_call, libraryVars>>

(* A call into samba ends, by its own timeout if need be; that it fails,   *)
(* or that a session ends, is not promised.                                *)
Spec == Init /\ [][Next]_vars /\ WF_vars(Step)

-----------------------------------------------------------------------------
Truth(a) ==
    CASE op \in RegistryOp -> RegistryTruth(op, a)
      [] op \in PermissionOp -> PermissionTruth(op, a)
      [] op \in FileOp -> FileTruth(op, work.request, a)

Refused ==
    status = "FAILED" /\ answer.code \in {"SESSION_NOT_FOUND"} \cup Mandatory(op)

Answered == pc = "done" /\ ~Refused

(* An asset that does not change is answered as it is, when no call fails. *)
AnswersAreTrue == Answered /\ ~troubled /\ seen = {asset} => answer = Truth(asset)

(* Whatever fails and changes: an action that answers from one call        *)
(* succeeds with what the asset was like at some time while it ran.        *)
(* "False" above all is never the answer to a call that failed.            *)
OneCall == {"key_exists", "value_exists", "query_value", "file_exists", "list_dir",
            "enumerate_shares"}
SuccessIsTrue ==
    Answered /\ op \in OneCall /\ answer.group = "OK" => \E a \in seen : answer = Truth(a)

(* The codes and the result tell the same: content with OK and only then,  *)
(* and an error otherwise.  enumerate_values is left out: it sets no codes *)
(* when it succeeds.                                                       *)
CodeTellsTheOutcome ==
    pc = "done" /\ op # "enumerate_values" =>
        /\ answer.group # None
        /\ (answer.group = "OK") = (DOMAIN answer.res = {"content"})

(* Between two actions the library is as the first one found it, and the   *)
(* only handles that are lost are those of directories whose listing broke *)
(* off.                                                                    *)
ContextsAreReturned == AtRest => current # "own" /\ leaked \subseteq {"directory"}

(* An action comes to its end, by an answer or by the death of the worker, *)
(* as long as the asset does not change all the time.                      *)
ActionsEnd == ~AtRest ~> AtRest
=============================================================================
