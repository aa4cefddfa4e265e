-------------------------- MODULE PermissionActions --------------------------
(***************************************************************************)
(* The actions over an rpc_client (services/samba_based/rpc): permissions  *)
(* of files, folders and shares (lsa) and of registry keys (registry/      *)
(* registry_client2), and the list of shares (srvsvc).  A descriptor names *)
(* its owner, its group and whom its entries are for by SIDs; each is      *)
(* looked up over a tree of its own, for which the client leaves the tree  *)
(* it is connected to (utils/security_descriptor_utils).                   *)
(***************************************************************************)
EXTENDS ActionAnswers

CONSTANT NameOf       \* the name of each SID

VARIABLE first_call   \* the run in which registry_client2::get_sd made its static "out"

LsaOp == {"ntfs_permissions", "share_permissions"}
DescriptorOp == LsaOp \cup {"registry_permissions"}
PermissionOp == DescriptorOp \cup {"enumerate_shares"}

Share == "share"
IPC == "IPC$"

(* tree: what the client is connected to; saved: what it was before.       *)
PermissionFresh == [tree |-> None, saved |-> None, sids |-> <<>>, names |-> <<>>]

PermissionInit == first_call = None

Keeps == first_call' = IF status' = "DIED" THEN None ELSE first_call

BeginPermission(o) ==
    /\ Begin(o, IF o = "registry_permissions" THEN BOOLEAN ELSE {FALSE}, "connect", PermissionFresh)
    /\ UNCHANGED first_call

-----------------------------------------------------------------------------
(* rpc_client::connect and open_pipe.                                      *)
rpc_connect(tree) == Goes("ask", [work EXCEPT !.tree = tree]) /\ Fine

AssetRefuses(code) == Returns("FAILED", AssetSays(code))

lsa_connect ==
    /\ In(LsaOp, "connect")
    /\ \/ rpc_connect(Share)
       \/ AssetRefuses("werror") /\ Trouble
    /\ UNCHANGED first_call

srvsvc_connect ==
    /\ In({"enumerate_shares"}, "connect")
    /\ \/ rpc_connect(IPC)
       \/ AssetRefuses("werror") /\ Trouble
    /\ UNCHANGED first_call

(* A pipe that is busy is only worth another try to the registry's action. *)
registry_connect ==
    /\ In({"registry_permissions"}, "connect")
    /\ \/ rpc_connect(IPC)
       \/ AssetRefuses("werror") /\ Trouble
       \/ Returns("POSTPONED", AssetSays("pipe_busy")) /\ Trouble
    /\ UNCHANGED first_call

-----------------------------------------------------------------------------
(* A call that fails, because what it is about is not there or otherwise.  *)
Missing == IF asset.present THEN Trouble ELSE Fine

(* lsa_client::get_secdesc: the file is opened, and its handle never       *)
(* closed but with the connection; then it is asked for its descriptor.    *)
ntcreate ==
    /\ In(LsaOp, "ask")
    /\ \/ asset.present /\ Goes("query", work) /\ Fine
       \/ AssetRefuses("ntstatus") /\ Missing
    /\ UNCHANGED first_call

query_security_descriptor ==
    /\ In(LsaOp, "query")
    /\ \/ asset.present /\ Goes("names", [work EXCEPT !.sids = asset.content]) /\ Fine
       \/ AssetRefuses("ntstatus") /\ Missing
    /\ UNCHANGED first_call

enumerate_all_shares ==
    /\ In({"enumerate_shares"}, "ask")
    /\ \/ Succeeds(asset.content) /\ Fine
       \/ AssetRefuses("ntstatus") /\ Trouble
    /\ UNCHANGED first_call

(* registry_openkey: the hive, and then the key.                           *)
winreg_connect ==
    /\ In({"registry_permissions"}, "ask")
    /\ \/ Goes("open_key", work) /\ Fine
       \/ Fails("OPEN_KEY_FAILED") /\ Missing
    /\ UNCHANGED first_call

winreg_open_key ==
    /\ In({"registry_permissions"}, "open_key")
    /\ \/ asset.present /\ Goes("get_sd", work) /\ Fine
       \/ Fails("OPEN_KEY_FAILED") /\ Missing
    /\ UNCHANGED first_call

(* registry_client2::get_sd, up to the descriptor.                         *)
get_sd ==
    /\ In({"registry_permissions"}, "get_sd")
    /\ \/ asset.present /\ Goes("names", [work EXCEPT !.sids = asset.content]) /\ Fine
       \/ Goes("out_failed", work) /\ Trouble
    /\ UNCHANGED first_call

-----------------------------------------------------------------------------
(* SidToString, for one SID after the other.                               *)

sid == work.sids[Len(work.names) + 1]

(* The tree is saved and another one connected; if that fails, the saved   *)
(* one is restored and the SID stays without a name.                       *)
tree_connect ==
    /\ In(DescriptorOp, "names")
    /\ Len(work.names) < Len(work.sids)
    /\ \/ Goes("pipe", [work EXCEPT !.saved = work.tree, !.tree = IPC]) /\ Fine
       \/ Goes("names", [work EXCEPT !.names = Append(work.names, sid)]) /\ Trouble
    /\ UNCHANGED first_call

(* Fault: the tree of the lookup is disconnected and left there.           *)
FaultLeavesTree(name) ==
    Goes("names", [work EXCEPT !.tree = None, !.saved = None,
                               !.names = Append(work.names, name)])
(* fail: the pipe is freed, its tree disconnected, the saved one restored. *)
fail(name) ==
    Goes("names", [work EXCEPT !.tree = work.saved, !.saved = None,
                               !.names = Append(work.names, name)])

(* When the pipe cannot be opened, the pointer to it that is freed has     *)
(* never been set.                                                         *)
open_lsa_pipe ==
    /\ In(DescriptorOp, "pipe")
    /\ \/ Goes("lookup", work) /\ Fine
       \/ fail(sid) /\ Trouble
       \/ Dies /\ Trouble
    /\ Keeps

lookup_sids ==
    /\ In(DescriptorOp, "lookup")
    /\ \/ fail(NameOf[sid]) /\ Fine
       \/ fail(sid) /\ Trouble
    /\ UNCHANGED first_call

named ==
    /\ In(DescriptorOp, "names")
    /\ Len(work.names) = Len(work.sids)
    /\ IF op = "registry_permissions" THEN Goes("out", work) ELSE Succeeds(work.names)
    /\ Fine
    /\ UNCHANGED first_call

-----------------------------------------------------------------------------
Run == IF again THEN "again" ELSE "first"

(* The last of registry_client2::get_sd.  "out" is static: it keeps the    *)
(* addresses of what was on the stack when it was made.  From the other    *)
(* place that act() is called from, they hold something else: any status,  *)
(* and handles that are none.                                              *)
out ==
    /\ op = "registry_permissions" /\ pc \in {"out", "out_failed"}
    /\ LET answered == Succeeds(work.names)
           refused == AssetRefuses("ntstatus")
       IN IF first_call \in {None, Run}
          THEN /\ IF pc = "out" THEN answered ELSE refused
               /\ Fine
               /\ first_call' = Run
          ELSE /\ answered \/ refused \/ Dies
               /\ Trouble
               /\ Keeps

PermissionStep ==
    \/ lsa_connect \/ srvsvc_connect \/ registry_connect
    \/ ntcreate \/ query_security_descriptor \/ enumerate_all_shares
    \/ winreg_connect \/ winreg_open_key \/ get_sd
    \/ tree_connect \/ open_lsa_pipe \/ lookup_sids \/ named \/ out

PermissionNext == (\E o \in PermissionOp : BeginPermission(o)) \/ PermissionStep

-----------------------------------------------------------------------------
(* What an action says of an asset a that stays as it is, when no call     *)
(* fails.                                                                  *)
PermissionTruth(o, a) ==
    CASE o = "enumerate_shares" -> set_response_for_success(a.content)
      [] o \in DescriptorOp /\ a.present ->
             set_response_for_success([k \in DOMAIN a.content |-> NameOf[a.content[k]]])
      [] o = "registry_permissions" /\ ~a.present -> set_response_for_error("OPEN_KEY_FAILED")
      [] o \in LsaOp /\ ~a.present -> AssetSays("ntstatus")

(* Between two lookups, and when the client is closed or its handles are,  *)
(* it is back on the tree that it was connected to, whatever failed.       *)
TreeIsRestored ==
    op \in DescriptorOp /\ pc \in {"names", "out", "out_failed"}
        => work.tree = IF op \in LsaOp THEN Share ELSE IPC
=============================================================================
