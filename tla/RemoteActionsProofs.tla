------------------------ MODULE RemoteActionsProofs ------------------------
(***************************************************************************)
(* Proofs about RemoteActions: what an action leaves behind and what it    *)
(* answers, whatever it is asked for and whatever the asset is like.       *)
(***************************************************************************)
EXTENDS RemoteActions, SequenceTheorems, TLAPS

(* Every step but the first and the last of an action is one of its family *)
(* while it runs, and goes on with it or ends it.                          *)
GoesOn == op' = op \/ pc' = "idle"

LEMMA RegistryStepIsOfRegistry ==
    RegistryStep => op \in RegistryOp /\ GoesOn
  <1> USE DEF GoesOn, In, Goes, Returns, Succeeds, Fails, Throws, Dies, Idle, Listings, RegistryOp
  <1>1. connect => op \in RegistryOp /\ GoesOn
    BY DEF connect
  <1>2. open_key => op \in RegistryOp /\ GoesOn
    BY DEF open_key, AfterOpen, NotOpened
  <1>3. key_get_info => op \in RegistryOp /\ GoesOn
    BY DEF key_get_info
  <1>4. get_subkey => op \in RegistryOp /\ GoesOn
    BY DEF get_subkey
  <1>5. subkeys_listed => op \in RegistryOp /\ GoesOn
    BY DEF subkeys_listed
  <1>6. get_value => op \in RegistryOp /\ GoesOn
    BY DEF get_value
  <1>7. values_listed => op \in RegistryOp /\ GoesOn
    BY DEF values_listed
  <1>8. key_get_value_by_name => op \in RegistryOp /\ GoesOn
    BY DEF key_get_value_by_name
  <1> QED BY <1>1, <1>2, <1>3, <1>4, <1>5, <1>6, <1>7, <1>8 DEF RegistryStep

LEMMA PermissionStepIsOfPermissions ==
    PermissionStep => op \in PermissionOp /\ GoesOn
  <1> USE DEF GoesOn, In, Goes, Returns, Succeeds, Fails, Dies, Idle, AssetRefuses, rpc_connect,
              fail, LsaOp, DescriptorOp, PermissionOp
  <1>1. lsa_connect \/ srvsvc_connect \/ registry_connect => op \in PermissionOp /\ GoesOn
    BY DEF lsa_connect, srvsvc_connect, registry_connect
  <1>2. ntcreate \/ query_security_descriptor \/ enumerate_all_shares
            => op \in PermissionOp /\ GoesOn
    BY DEF ntcreate, query_security_descriptor, enumerate_all_shares
  <1>3. winreg_connect \/ winreg_open_key \/ get_sd => op \in PermissionOp /\ GoesOn
    BY DEF winreg_connect, winreg_open_key, get_sd
  <1>4. tree_connect \/ open_lsa_pipe \/ lookup_sids => op \in PermissionOp /\ GoesOn
    BY DEF tree_connect, open_lsa_pipe, lookup_sids
  <1>5. named \/ out => op \in PermissionOp /\ GoesOn
    BY DEF named, out
  <1> QED BY <1>1, <1>2, <1>3, <1>4, <1>5 DEF PermissionStep

FileCalls == FileStep \/ read_fails \/ session_ends

LEMMA FileStepIsOfFiles ==
    FileCalls => op \in FileOp /\ GoesOn
  <1> USE DEF GoesOn, In, Goes, Returns, Succeeds, Fails, Throws, Dies, Idle, LibraryDies, Unwinds,
              FileOp
  <1>1. range \/ init \/ smbc_auth_fn => op \in FileOp /\ GoesOn
    BY DEF range, init, smbc_auth_fn
  <1>2. open_file => op \in FileOp /\ GoesOn
    BY DEF open_file, Opened, OpenFailed
  <1>3. get_file_info \/ allocate => op \in FileOp /\ GoesOn
    BY DEF get_file_info, allocate
  <1>4. read \/ read_fails => op \in FileOp /\ GoesOn
    BY DEF read, read_fails
  <1>5. open_dir \/ getdents => op \in FileOp /\ GoesOn
    BY DEF open_dir, getdents
  <1>6. session_ends => op \in FileOp /\ GoesOn
    BY DEF session_ends
  <1> QED BY <1>1, <1>2, <1>3, <1>4, <1>5, <1>6 DEF FileCalls, FileStep

LEMMA FamiliesAreApart ==
    /\ RegistryOp \cap DescriptorOp = {} /\ FileOp \cap DescriptorOp = {}
    /\ RegistryOp \cap FileOp = {} /\ PermissionOp \cap FileOp = {}
    /\ DescriptorOp \subseteq PermissionOp
  BY DEF RegistryOp, Listings, DescriptorOp, LsaOp, FileOp, PermissionOp

-----------------------------------------------------------------------------
(* The tree of an rpc_client: while a SID is looked up it is saved.        *)

Home == IF op \in LsaOp THEN Share ELSE IPC

TreeInv ==
    op \in DescriptorOp =>
        /\ pc \notin {"idle", "done"} => {"tree", "saved"} \subseteq DOMAIN work
        /\ pc \notin {"idle", "done", "connect", "pipe", "lookup"} => work.tree = Home
        /\ pc \in {"pipe", "lookup"} => work.saved = Home

LEMMA TreeStays ==
    ASSUME TreeInv, PermissionStep PROVE TreeInv'
  <1> USE DEF TreeInv, Home, In, Goes, Returns, Succeeds, Fails, AssetRefuses, LsaOp, DescriptorOp
  <1>1. CASE lsa_connect \/ registry_connect
    BY <1>1 DEF lsa_connect, registry_connect, rpc_connect
  <1>2. CASE srvsvc_connect \/ enumerate_all_shares
    BY <1>2 DEF srvsvc_connect, enumerate_all_shares, rpc_connect
  <1>3. CASE ntcreate
    BY <1>3 DEF ntcreate
  <1>4. CASE query_security_descriptor
    BY <1>4 DEF query_security_descriptor
  <1>5. CASE winreg_connect \/ winreg_open_key
    BY <1>5 DEF winreg_connect, winreg_open_key
  <1>6. CASE get_sd
    BY <1>6 DEF get_sd
  <1>7. CASE tree_connect
    BY <1>7 DEF tree_connect
  <1>8. CASE open_lsa_pipe
    BY <1>8 DEF open_lsa_pipe, fail, Dies, Idle
  <1>9. CASE lookup_sids
    BY <1>9 DEF lookup_sids, fail
  <1>10. CASE named
    BY <1>10 DEF named
  <1>11. CASE out
    BY <1>11 DEF out, Dies, Idle
  <1> QED BY <1>1, <1>2, <1>3, <1>4, <1>5, <1>6, <1>7, <1>8, <1>9, <1>10, <1>11
          DEF PermissionStep

(* registry_client2, lsa_client and SidToString: whatever call fails, the  *)
(* client is back on its own tree between two lookups and at its end, for  *)
(* any descriptor and any number of SIDs.                                  *)
THEOREM TreeRestored == Spec => []TreeIsRestored
  <1>1. Init => TreeInv
    BY DEF Init, AnswersInit, TreeInv
  <1>2. TreeInv /\ [Next]_vars => TreeInv'
    <2> SUFFICES ASSUME TreeInv, [Next]_vars PROVE TreeInv'
      OBVIOUS
    <2>1. ASSUME op \notin DescriptorOp, GoesOn PROVE TreeInv'
      BY <2>1 DEF GoesOn, TreeInv
    <2>2. CASE RegistryNext
      <3>1. ASSUME NEW o \in RegistryOp, BeginRegistry(o) PROVE TreeInv'
        BY <3>1, FamiliesAreApart DEF BeginRegistry, Begin, TreeInv
      <3> QED BY <2>1, <2>2, <3>1, RegistryStepIsOfRegistry, FamiliesAreApart DEF RegistryNext
    <2>3. CASE PermissionNext
      <3>1. ASSUME NEW o \in PermissionOp, BeginPermission(o) PROVE TreeInv'
        BY <3>1 DEF BeginPermission, Begin, TreeInv, PermissionFresh
      <3> QED BY <2>3, <3>1, TreeStays DEF PermissionNext
    <2>4. CASE FileNext
      <3>1. ASSUME NEW o \in FileOp, BeginFile(o) PROVE TreeInv'
        BY <3>1, FamiliesAreApart DEF BeginFile, Begin, TreeInv
      <3> QED BY <2>1, <2>4, <3>1, FileStepIsOfFiles, FamiliesAreApart DEF FileNext, FileCalls
    <2>5. CASE Change \/ IsTaken
      BY <2>5 DEF Change, IsTaken, Idle, TreeInv, Home
    <2>6. CASE UNCHANGED vars
      BY <2>6 DEF vars, answerVars, TreeInv, Home
    <2> QED BY <2>2, <2>3, <2>4, <2>5, <2>6 DEF Next
  <1>3. TreeInv => TreeIsRestored
    BY DEF TreeInv, TreeIsRestored, Home, DescriptorOp, LsaOp
  <1> QED BY <1>1, <1>2, <1>3, PTL DEF Spec

-----------------------------------------------------------------------------
(* The context of the library: a client that has one of its own, or may    *)
(* have one, keeps that which was there before.                            *)

Clients == {"open", "version", "allocate", "read", "list"}

ContextInv ==
    /\ leaked \subseteq {"directory"}
    /\ current = "own" => op \in FileOp /\ pc \in Clients
    /\ op \in FileOp /\ pc \notin {"idle", "done"} => "old" \in DOMAIN work
    /\ op \in FileOp /\ pc \in Clients => work.old # "own"

LEMMA ContextStays ==
    ASSUME ContextInv, FileCalls PROVE ContextInv'
  <1> USE DEF ContextInv, Clients, In, FileOp, Goes, Returns, Succeeds, Fails, Destructs,
              libraryVars
  <1>1. CASE range
    BY <1>1 DEF range, Throws, Dies, Idle
  <1>2. CASE init
    BY <1>2 DEF init, LibraryDies, Dies, Idle
  <1>3. CASE smbc_auth_fn
    BY <1>3 DEF smbc_auth_fn, LibraryDies, Dies, Idle
  <1>4. CASE open_file
    BY <1>4 DEF open_file, Opened, OpenFailed
  <1>5. ASSUME pc \in Clients, op \in FileOp, Unwinds PROVE ContextInv'
    BY <1>5 DEF Unwinds, Throws, Dies, Idle
  <1>6. CASE get_file_info
    BY <1>5, <1>6 DEF get_file_info
  <1>7. CASE allocate
    BY <1>5, <1>7 DEF allocate
  <1>8. CASE read \/ read_fails
    BY <1>8 DEF read, read_fails
  <1>9. CASE open_dir
    BY <1>9 DEF open_dir
  <1>10. CASE getdents
    BY <1>10 DEF getdents
  <1>11. CASE session_ends
    BY <1>11 DEF session_ends, AtRest
  <1> QED BY <1>1, <1>2, <1>3, <1>4, <1>6, <1>7, <1>8, <1>9, <1>10, <1>11
          DEF FileCalls, FileStep

(* ~smb_client on every way out of an action: the context that was current *)
(* before is put back, and nothing stays open but the directory of a       *)
(* listing that broke off, for any file, size, offset and memory.          *)
THEOREM ContextsReturned == Spec => []ContextsAreReturned
  <1>1. Init => ContextInv
    BY DEF Init, AnswersInit, FileInit, ContextInv, FileOp, Clients
  <1>2. ContextInv /\ [Next]_vars => ContextInv'
    <2> SUFFICES ASSUME ContextInv, [Next]_vars PROVE ContextInv'
      OBVIOUS
    <2>1. ASSUME op \notin FileOp, GoesOn, LibraryOfProcess PROVE ContextInv'
      BY <2>1 DEF GoesOn, ContextInv, LibraryOfProcess, Clients
    <2>2. CASE RegistryNext /\ LibraryOfProcess
      <3>1. ASSUME NEW o \in RegistryOp, BeginRegistry(o) PROVE ContextInv'
        BY <2>2, <3>1, FamiliesAreApart
           DEF BeginRegistry, Begin, LibraryOfProcess, ContextInv, Clients
      <3> QED BY <2>1, <2>2, <3>1, RegistryStepIsOfRegistry, FamiliesAreApart DEF RegistryNext
    <2>3. CASE PermissionNext /\ LibraryOfProcess
      <3>1. ASSUME NEW o \in PermissionOp, BeginPermission(o) PROVE ContextInv'
        BY <2>3, <3>1, FamiliesAreApart
           DEF BeginPermission, Begin, LibraryOfProcess, ContextInv, Clients
      <3> QED BY <2>1, <2>3, <3>1, PermissionStepIsOfPermissions, FamiliesAreApart
              DEF PermissionNext
    <2>4. CASE FileNext
      <3>1. ASSUME NEW o \in FileOp, BeginFile(o) PROVE ContextInv'
        BY <3>1 DEF BeginFile, Begin, FileFresh, libraryVars, ContextInv, Clients
      <3> QED BY <2>4, <3>1, ContextStays DEF FileNext, FileCalls
    <2>5. CASE (Change \/ IsTaken) /\ UNCHANGED libraryVars
      BY <2>5 DEF Change, IsTaken, Idle, libraryVars, ContextInv, Clients
    <2>6. CASE UNCHANGED vars
      BY <2>6 DEF vars, answerVars, libraryVars, ContextInv
    <2> QED BY <2>2, <2>3, <2>4, <2>5, <2>6 DEF Next
  <1>3. ContextInv => ContextsAreReturned
    BY DEF ContextInv, ContextsAreReturned, AtRest, Clients
  <1> QED BY <1>1, <1>2, <1>3, PTL DEF Spec

-----------------------------------------------------------------------------
(* The codes of an answer.                                                 *)

Told(ans) == ans.group # None /\ (ans.group = "OK") = (DOMAIN ans.res = {"content"})

Tells == pc' = "done" /\ op' # "enumerate_values" => Told(answer')

LEMMA SuccessIsTold == ASSUME NEW res PROVE Told(set_response_for_success(res))
  BY RemoteAssumption DEF Told, set_response_for_success

Errors == ERROR_IN_REQUEST \cup CDCM_INTERNAL_ERROR \cup ERROR_WITH_ASSET

LEMMA ErrorsAreMapped ==
    ASSUME NEW e \in Errors
    PROVE  cdcm_error_mapping(e) \in {"ERROR_IN_REQUEST", "CDCM_INTERNAL_ERROR", "ERROR_WITH_ASSET"}
  BY DEF Errors, cdcm_error_mapping, ERROR_IN_REQUEST, CDCM_INTERNAL_ERROR, ERROR_WITH_ASSET

LEMMA ErrorIsTold == ASSUME NEW e \in Errors PROVE Told(set_response_for_error(e))
  BY RemoteAssumption, ErrorsAreMapped DEF Told, set_response_for_error, ErrorText

LEMMA AssetIsTold == ASSUME NEW code PROVE Told(AssetSays(code))
  <1>1. "GENERAL_ERROR_WITH_ASSET" \in Errors
    BY DEF Errors, ERROR_WITH_ASSET
  <1> QED BY <1>1, RemoteAssumption, ErrorsAreMapped
          DEF Told, AssetSays, set_response_for_error_with_unique_code_or_msg, ErrorText

LEMMA KnownErrors ==
    {"VALUE_IS_EMPTY", "OPEN_KEY_FAILED", "MALFORMED_MESSAGE", "BAD_PARAMETER", "READ_FILE_FAILED",
     "SESSION_NOT_FOUND"} \cup ERROR_IN_REQUEST \subseteq Errors
  BY DEF Errors, ERROR_IN_REQUEST, CDCM_INTERNAL_ERROR, ERROR_WITH_ASSET

LEMMA BeginTells ==
    ASSUME NEW o \in RegistryOp \cup PermissionOp \cup FileOp, NEW runs, NEW fresh,
           NEW first \in {"connect", "range", "init"}, Begin(o, runs, first, fresh)
    PROVE  Tells
  BY ErrorIsTold, KnownErrors, RemoteAssumption DEF Begin, Tells

(* The ways to end an action.                                              *)
LEMMA EndsTell ==
    /\ \A res : Succeeds(res) => Tells
    /\ \A e \in Errors : Fails(e) => Tells
    /\ \A st, code : Returns(st, AssetSays(code)) => Tells
    /\ Throws \/ Dies => Tells
  <1>1. ASSUME NEW res, Succeeds(res) PROVE Tells
    BY <1>1, SuccessIsTold DEF Succeeds, Returns, Tells
  <1>2. ASSUME NEW e \in Errors, Fails(e) PROVE Tells
    BY <1>2, ErrorIsTold DEF Fails, Returns, Tells
  <1>3. ASSUME NEW st, NEW code, Returns(st, AssetSays(code)) PROVE Tells
    BY <1>3, AssetIsTold DEF Returns, Tells
  <1>4. CASE Dies
    BY <1>4 DEF Dies, Idle, Tells
  <1>5. CASE Throws
    BY <1>4, <1>5, ErrorIsTold, KnownErrors DEF Throws, Returns, Tells
  <1> QED BY <1>1, <1>2, <1>3, <1>4, <1>5

LEMMA GoesTells == ASSUME NEW next, NEW w, next # "done", Goes(next, w) PROVE Tells
  BY DEF Goes, Tells

LEMMA RegistryTells == RegistryStep => Tells
  <1> USE EndsTell, KnownErrors
  <1>1. connect => Tells
    BY GoesTells DEF connect
  <1>2. open_key => Tells
    BY GoesTells DEF open_key, AfterOpen, NotOpened
  <1>3. key_get_info => Tells
    BY GoesTells DEF key_get_info
  <1>4. get_subkey => Tells
    BY GoesTells DEF get_subkey
  <1>5. subkeys_listed => Tells
    BY GoesTells DEF subkeys_listed
  <1>6. get_value => Tells
    BY GoesTells DEF get_value
  <1>7. values_listed => Tells
    <2>1. ASSUME values_listed, op # "enumerate_key" PROVE Tells
      BY <2>1 DEF values_listed, In, Listings, Returns, Tells
    <2> QED BY <2>1 DEF values_listed
  <1>8. key_get_value_by_name => Tells
    <2>1. ASSUME NEW st, Returns(st, set_response_for_error("VALUE_IS_EMPTY")) PROVE Tells
      BY <2>1, ErrorIsTold DEF Returns, Tells
    <2> QED BY <2>1 DEF key_get_value_by_name
  <1> QED BY <1>1, <1>2, <1>3, <1>4, <1>5, <1>6, <1>7, <1>8 DEF RegistryStep

LEMMA PermissionsTell == PermissionStep => Tells
  <1> USE EndsTell, KnownErrors DEF AssetRefuses
  <1>1. lsa_connect \/ srvsvc_connect \/ registry_connect => Tells
    BY GoesTells DEF lsa_connect, srvsvc_connect, registry_connect, rpc_connect
  <1>2. ntcreate \/ query_security_descriptor \/ enumerate_all_shares => Tells
    BY GoesTells DEF ntcreate, query_security_descriptor, enumerate_all_shares
  <1>3. winreg_connect \/ winreg_open_key \/ get_sd => Tells
    BY GoesTells DEF winreg_connect, winreg_open_key, get_sd
  <1>4. tree_connect \/ open_lsa_pipe \/ lookup_sids => Tells
    BY GoesTells DEF tree_connect, open_lsa_pipe, lookup_sids, fail
  <1>5. named \/ out => Tells
    BY GoesTells DEF named, out
  <1> QED BY <1>1, <1>2, <1>3, <1>4, <1>5 DEF PermissionStep

LEMMA FilesTell == FileCalls => Tells
  <1> USE EndsTell, KnownErrors
  <1>1. range \/ init \/ smbc_auth_fn => Tells
    BY GoesTells DEF range, init, smbc_auth_fn, LibraryDies
  <1>2. open_file => Tells
    BY GoesTells DEF open_file, Opened, OpenFailed
  <1>3. get_file_info \/ allocate => Tells
    BY GoesTells DEF get_file_info, allocate, Unwinds
  <1>4. read \/ read_fails => Tells
    BY GoesTells DEF read, read_fails
  <1>5. open_dir \/ getdents => Tells
    BY GoesTells DEF open_dir, getdents
  <1>6. session_ends => Tells
    BY GoesTells DEF session_ends, AtRest
  <1> QED BY <1>1, <1>2, <1>3, <1>4, <1>5, <1>6 DEF FileCalls, FileStep

(* result_msg: an answer has the code OK when it holds a content, and that *)
(* of an error when it holds an error, for all that actions may say.       *)
THEOREM CodesTellTheOutcome == Spec => []CodeTellsTheOutcome
  <1>1. Init => CodeTellsTheOutcome
    BY DEF Init, AnswersInit, CodeTellsTheOutcome
  <1>2. CodeTellsTheOutcome /\ [Next]_vars => CodeTellsTheOutcome'
    <2> SUFFICES ASSUME CodeTellsTheOutcome, [Next]_vars PROVE CodeTellsTheOutcome'
      OBVIOUS
    <2>1. ASSUME Tells PROVE CodeTellsTheOutcome'
      BY <2>1 DEF Tells, Told, CodeTellsTheOutcome
    <2>2. RegistryNext => Tells
      BY BeginTells, RegistryTells DEF RegistryNext, BeginRegistry
    <2>3. PermissionNext => Tells
      BY BeginTells, PermissionsTell DEF PermissionNext, BeginPermission
    <2>4. FileNext => Tells
      BY BeginTells, FilesTell DEF FileNext, BeginFile, FileCalls
    <2>5. CASE Change \/ IsTaken
      BY <2>5 DEF Change, AtRest, IsTaken, Idle, CodeTellsTheOutcome
    <2>6. CASE UNCHANGED vars
      BY <2>6 DEF vars, answerVars, CodeTellsTheOutcome
    <2> QED BY <2>1, <2>2, <2>3, <2>4, <2>5, <2>6 DEF Next
  <1> QED BY <1>1, <1>2, PTL DEF Spec

-----------------------------------------------------------------------------
(* What is answered.                                                       *)

(* An action that runs has answered nothing and keeps what is its own.     *)
RunInv ==
    ~AtRest =>
        /\ op \in RegistryOp \cup PermissionOp \cup FileOp
        /\ asset \in seen /\ asset \in AssetsOf(op)
        /\ answer = result_msg
        /\ op \in RegistryOp => DOMAIN work = DOMAIN RegistryFresh
        /\ op \in PermissionOp => DOMAIN work = DOMAIN PermissionFresh
        /\ op \in FileOp => /\ DOMAIN work = DOMAIN FileFresh(None)
                            /\ work.request \in Requests(op)
                            /\ ~again

(* The asset has been what it is and no call has failed.                   *)
Steady == ~troubled /\ seen = {asset}

(* What the actions then know of the asset: the listings, up to where they *)
(* are,                                                                    *)
RegistryKnows ==
    op \in RegistryOp =>
        /\ pc \in {"info", "get", "subkeys", "values"} => asset.present
        /\ pc \in {"connect", "open", "info"} => work = RegistryFresh
        /\ pc \in {"subkeys", "values"} => work.num_values = Len(asset.values)
        /\ pc = "subkeys" => /\ work.i \in 0..work.num_subkeys
                             /\ work.num_subkeys = Len(asset.subkeys)
                             /\ work.sub_keys = SubSeq(asset.subkeys, 1, work.i)
                             /\ work.values = <<>>
        /\ pc = "values" => /\ work.i \in 0..work.num_values
                            /\ work.values = SubSeq(asset.values, 1, work.i)
                            /\ op = "enumerate_key" => work.sub_keys = asset.subkeys

(* the names of the SIDs that have been looked up,                         *)
NamesUpTo(n) == [k \in 1..n |-> NameOf[asset.content[k]]]

PermissionKnows ==
    op \in DescriptorOp =>
        /\ pc # "out_failed"
        /\ pc \in {"connect", "ask", "query", "open_key", "get_sd"} => work.names = <<>>
        /\ pc \in {"names", "pipe", "lookup", "out"} =>
               /\ asset.present /\ work.sids = asset.content
               /\ \E n \in 0..Len(asset.content) : /\ work.names = NamesUpTo(n)
                                                   /\ pc \in {"pipe", "lookup"} => n < Len(asset.content)
                                                   /\ pc = "out" => n = Len(asset.content)

(* and the bytes that have been read.                                      *)
FileKnows ==
    op \in FileOp =>
        /\ op = "read_file" /\ pc \notin {"idle", "done", "range"} =>
               work.request.offset \in Nat /\ work.request.size \in Nat
        /\ op = "read_file" /\ pc \in {"range", "init", "open", "allocate"} => work.buff = <<>>
        /\ pc \in {"version", "allocate"} => asset.kind = "file" /\ work.file_size = Len(asset.content)
        /\ pc = "read" =>
               LET offset == work.request.offset
               IN /\ asset.kind = "file"
                  /\ work.sz = BytesWanted(work.request, Len(asset.content)) /\ ~TooMuch(work.sz)
                  /\ \E n \in 0..work.sz :
                         /\ work.buff = SubSeq(asset.content, offset + 1, offset + n)
                         /\ n > 0 => offset + n <= Len(asset.content)

(* A directory that is listed was like that while the action ran.          *)
ListingInv ==
    op = "list_dir" /\ pc \in {"init", "open"} => work.sz = 0
ListedInv ==
    op = "list_dir" /\ pc = "list" =>
        \E a \in seen : /\ a \in AssetsOf(op) /\ a.kind = "dir" /\ work.listing = a.content
                        /\ work.sz \in 0..Len(a.content)

KnowledgeInv ==
    /\ RunInv /\ ListingInv /\ ListedInv
    /\ Steady => RegistryKnows /\ PermissionKnows /\ FileKnows

ActionInv == KnowledgeInv /\ AnswersAreTrue /\ SuccessIsTrue

-----------------------------------------------------------------------------
(* Sequences that are built from the front.                                *)

LEMMA PrefixGrows ==
    ASSUME NEW s, s \in Seq(Range(s)), NEW i \in Nat, i < Len(s)
    PROVE  Append(SubSeq(s, 1, i), s[i + 1]) = SubSeq(s, 1, i + 1)
  <1>1. SubSeq(s, 1, i + 1) = SubSeq(s, 1, i) \o <<s[i + 1]>>
    BY SubSeqRecursiveSecond, i + 1 \in 1..Len(s), 1 \in 1..Len(s), i + 1 - 1 = i
  <1>2. SubSeq(s, 1, i) \in Seq(Range(s)) /\ s[i + 1] \in Range(s)
    BY SubSeqProperties DEF Range
  <1> QED BY <1>1, <1>2, AppendIsConcat

LEMMA WholePrefix ==
    ASSUME NEW s, s \in Seq(Range(s))
    PROVE  SubSeq(s, 1, 0) = <<>> /\ SubSeq(s, 1, Len(s)) = s /\ Len(s) \in Nat
  BY SubSeqEmpty, SubSeqFull

LEMMA TypedData ==
    /\ \A o \in RegistryOp : \A a \in AssetsOf(o) :
           a.subkeys \in Seq(Range(a.subkeys)) /\ a.values \in Seq(Range(a.values))
    /\ \A o \in PermissionOp \cup FileOp : \A a \in AssetsOf(o) : a.content \in Seq(Range(a.content))
    /\ \A o \in FileOp : \A r \in Requests(o) :
           r.offset \in Nat \cup {-1, NotANumber} /\ r.size \in Nat \cup {-1, NotANumber}
  BY DataAssumption

-----------------------------------------------------------------------------
(* The truth, of one family after the other.                               *)

LEMMA TruthOfFamilies ==
    ASSUME NEW a
    PROVE  /\ op \in RegistryOp => Truth(a) = RegistryTruth(op, a)
           /\ op \in PermissionOp => Truth(a) = PermissionTruth(op, a)
           /\ op \in FileOp => Truth(a) = FileTruth(op, work.request, a)
  <1> RegistryOp \cap PermissionOp = {}
    BY DEF RegistryOp, Listings, PermissionOp, DescriptorOp, LsaOp
  <1> QED BY FamiliesAreApart DEF Truth

LEMMA NoErrorIsOK ==
    /\ \A e \in Errors : set_response_for_error(e).group # "OK"
    /\ \A code : AssetSays(code).group # "OK"
  <1>1. "GENERAL_ERROR_WITH_ASSET" \in Errors
    BY DEF Errors, ERROR_WITH_ASSET
  <1> QED BY <1>1, ErrorsAreMapped
          DEF set_response_for_error, AssetSays, set_response_for_error_with_unique_code_or_msg

(* The ways to end an action: it rests, and knows no more than its answer. *)
LEMMA RestKnows == ASSUME pc' \in {"idle", "done"} PROVE KnowledgeInv'
  BY DEF KnowledgeInv, RunInv, AtRest, ListingInv, ListedInv, RegistryKnows, PermissionKnows,
         FileKnows

LEMMA DeathIsNoAnswer == ASSUME Dies PROVE ActionInv'
  <1>1. pc' = "idle"
    BY DEF Dies, Idle
  <1> QED BY <1>1, RestKnows DEF ActionInv, AnswersAreTrue, SuccessIsTrue, Answered

LEMMA AnswerIsRight ==
    ASSUME ActionInv, op \in RegistryOp \cup PermissionOp \cup FileOp,
           NEW st, NEW ans, Returns(st, ans), Fine \/ Trouble,
           Steady /\ Fine => ans = Truth(asset),
           op \in OneCall /\ ans.group = "OK" => \E a \in seen : ans = Truth(a)
    PROVE  ActionInv'
  <1>1. pc' = "done" /\ answer' = ans /\ UNCHANGED <<op, work, asset, seen>>
    BY DEF Returns
  <1>2. \A a : Truth(a)' = Truth(a)
    BY <1>1 DEF Truth
  <1>3. AnswersAreTrue'
    BY <1>1, <1>2 DEF AnswersAreTrue, Steady, Fine, Trouble
  <1>4. SuccessIsTrue'
    BY <1>1, <1>2 DEF SuccessIsTrue
  <1> QED BY <1>1, <1>3, <1>4, RestKnows DEF ActionInv

(* With what the asset is, or was, the answer is right; so is an error     *)
(* that comes from a failure.                                              *)
LEMMA TrueAnswer ==
    ASSUME ActionInv, op \in RegistryOp \cup PermissionOp \cup FileOp,
           NEW a \in seen, NEW st, Returns(st, Truth(a)), Fine \/ Trouble
    PROVE  ActionInv'
  BY AnswerIsRight DEF Steady

LEMMA TrueSuccess ==
    ASSUME ActionInv, op \in RegistryOp \cup PermissionOp \cup FileOp,
           NEW a \in seen, NEW res, Succeeds(res), Fine \/ Trouble,
           Truth(a) = set_response_for_success(res)
    PROVE  ActionInv'
  BY TrueAnswer DEF Succeeds

LEMMA ErrorAnswer ==
    ASSUME ActionInv, op \in RegistryOp \cup PermissionOp \cup FileOp, Trouble
    PROVE  /\ \A st, code : Returns(st, AssetSays(code)) => ActionInv'
           /\ \A st : \A e \in Errors : Returns(st, set_response_for_error(e)) => ActionInv'
           /\ \A e \in Errors : Fails(e) => ActionInv'
           /\ Throws => ActionInv'
  <1>1. Steady /\ Fine => FALSE
    BY DEF Steady, Fine, Trouble
  <1>2. ASSUME NEW st, NEW ans, ans.group # "OK", Returns(st, ans) PROVE ActionInv'
    BY <1>1, <1>2, AnswerIsRight
  <1>3. \A e \in Errors : Fails(e) => ActionInv'
    BY <1>2, NoErrorIsOK DEF Fails
  <1>4. Throws => ActionInv'
    BY <1>2, NoErrorIsOK, DeathIsNoAnswer, KnownErrors DEF Throws
  <1> QED BY <1>2, <1>3, <1>4, NoErrorIsOK

LEMMA LongAnswer ==
    ASSUME ActionInv, op \in RegistryOp \cup PermissionOp \cup FileOp, op \notin OneCall,
           NEW st, NEW ans, Returns(st, ans), Fine \/ Trouble, Steady /\ Fine => ans = Truth(asset)
    PROVE  ActionInv'
  BY AnswerIsRight

(* The ways to go on.                                                      *)
LEMMA GoesRuns ==
    ASSUME ActionInv, ~AtRest, NEW next, next \notin {"idle", "done"}, NEW w, Goes(next, w),
           DOMAIN w = DOMAIN work, op \in FileOp => w.request = work.request
    PROVE  RunInv' /\ AnswersAreTrue' /\ SuccessIsTrue' /\ op' = op
  BY DEF ActionInv, KnowledgeInv, RunInv, Goes, AtRest, AnswersAreTrue, SuccessIsTrue, Answered

LEMMA RegistryGoes ==
    ASSUME ActionInv, op \in RegistryOp, ~AtRest,
           NEW next, next \notin {"idle", "done"}, NEW w, Goes(next, w), DOMAIN w = DOMAIN work,
           Fine \/ Trouble, Steady /\ Fine => RegistryKnows'
    PROVE  ActionInv'
  <1>1. RunInv' /\ AnswersAreTrue' /\ SuccessIsTrue' /\ op' = op
    BY GoesRuns, FamiliesAreApart
  <1>2. op \notin PermissionOp \cup FileOp \cup DescriptorOp /\ op # "list_dir"
    BY FamiliesAreApart
       DEF RegistryOp, Listings, PermissionOp, DescriptorOp, LsaOp, FileOp
  <1>3. Steady' => Steady /\ Fine
    BY DEF Steady, Fine, Trouble, Goes
  <1> QED BY <1>1, <1>2, <1>3 DEF ActionInv, KnowledgeInv, ListingInv, ListedInv, PermissionKnows,
                                  FileKnows

LEMMA PermissionGoes ==
    ASSUME ActionInv, op \in PermissionOp, ~AtRest,
           NEW next, next \notin {"idle", "done"}, NEW w, Goes(next, w), DOMAIN w = DOMAIN work,
           Fine \/ Trouble, Steady /\ Fine => PermissionKnows'
    PROVE  ActionInv'
  <1>1. RunInv' /\ AnswersAreTrue' /\ SuccessIsTrue' /\ op' = op
    BY GoesRuns, FamiliesAreApart
  <1>2. op \notin RegistryOp \cup FileOp /\ op # "list_dir"
    BY FamiliesAreApart
       DEF RegistryOp, Listings, PermissionOp, DescriptorOp, LsaOp, FileOp
  <1>3. Steady' => Steady /\ Fine
    BY DEF Steady, Fine, Trouble, Goes
  <1> QED BY <1>1, <1>2, <1>3 DEF ActionInv, KnowledgeInv, ListingInv, ListedInv, RegistryKnows,
                                  FileKnows

LEMMA FileGoes ==
    ASSUME ActionInv, op \in FileOp, ~AtRest,
           NEW next, next \notin {"idle", "done"}, NEW w, Goes(next, w), DOMAIN w = DOMAIN work,
           w.request = work.request,
           Fine \/ Trouble, ListingInv', ListedInv', Steady /\ Fine => FileKnows'
    PROVE  ActionInv'
  <1>1. RunInv' /\ AnswersAreTrue' /\ SuccessIsTrue' /\ op' = op
    BY GoesRuns
  <1>2. op \notin RegistryOp \cup DescriptorOp
    BY FamiliesAreApart
  <1>3. Steady' => Steady /\ Fine
    BY DEF Steady, Fine, Trouble, Goes
  <1> QED BY <1>1, <1>2, <1>3 DEF ActionInv, KnowledgeInv, RegistryKnows, PermissionKnows

-----------------------------------------------------------------------------
(* The actions on the registry, one call after the other.                  *)

LEMMA ExistenceIsSaid ==
    ASSUME NEW yes
    PROVE  /\ yes => Says(yes) = set_response_for_success("True")
           /\ ~yes => Says(yes) = set_response_for_success("False")
  BY DEF Says

LEMMA RegistryTruths ==
    ASSUME NEW a
    PROVE  /\ RegistryTruth("key_exists", a) = Says(a.present)
           /\ RegistryTruth("value_exists", a) = Says(AskedValues(a) # {})
           /\ \A o \in Listings \cup {"query_value"} :
                  ~a.present => RegistryTruth(o, a) = AssetSays("file_not_found")
           /\ a.present => /\ RegistryTruth("query_value", a) =
                                  IF AskedValues(a) = {} \/ Text(a) = Empty
                                  THEN set_response_for_error("VALUE_IS_EMPTY")
                                  ELSE set_response_for_success(Text(a))
                           /\ RegistryTruth("enumerate_key", a) =
                                  set_response_for_success(<<a.subkeys, a.values>>)
                           /\ RegistryTruth("enumerate_values", a) =
                                  [result_msg EXCEPT !.res = [content |-> <<a.values>>]]
  BY DEF RegistryTruth, Listings

LEMMA OpensARegistryKey ==
    ASSUME ActionInv, connect \/ open_key PROVE ActionInv'
  <1> op \in RegistryOp /\ ~AtRest /\ asset \in seen
    BY DEF ActionInv, KnowledgeInv, RunInv, connect, open_key, In, AtRest
  <1>1. \A a : Truth(a) = RegistryTruth(op, a)
    BY TruthOfFamilies
  <1>2. CASE connect
    <2>1. CASE Goes("open", work) /\ Fine
      <3>1. Steady => RegistryKnows'
        BY <1>2, <2>1 DEF ActionInv, KnowledgeInv, RegistryKnows, Goes, connect, In
      <3> QED BY <2>1, <3>1, RegistryGoes
    <2> QED BY <1>2, <2>1, ErrorAnswer DEF connect
  <1>3. CASE open_key
    <2>1. CASE asset.present /\ Fine /\ AfterOpen
      <3>1. CASE op = "key_exists"
        <4>1. Truth(asset) = set_response_for_success("True")
          BY <1>1, <2>1, <3>1, RegistryTruths, ExistenceIsSaid
        <4>2. Succeeds("True")
          BY <2>1, <3>1 DEF AfterOpen, Listings
        <4> QED BY <2>1, <4>1, <4>2, TrueSuccess
      <3>2. CASE op # "key_exists"
        <4>1. PICK next \in {"info", "get"} : Goes(next, work)
          BY <2>1, <3>2 DEF AfterOpen
        <4>2. Steady => RegistryKnows'
          BY <1>3, <2>1, <4>1 DEF ActionInv, KnowledgeInv, RegistryKnows, Goes, open_key, In
        <4> QED BY <2>1, <4>1, <4>2, RegistryGoes
      <3> QED BY <3>1, <3>2
    <2>2. CASE ~asset.present /\ Fine /\ NotOpened("file_not_found")
      <3>1. CASE op \in {"key_exists", "value_exists"}
        <4>1. AskedValues(asset) = {}
          BY <2>2 DEF AskedValues
        <4>2. Truth(asset) = set_response_for_success("False")
          <5>1. Truth(asset) = Says(FALSE)
            BY <1>1, <2>2, <3>1, <4>1, RegistryTruths DEF Says
          <5> QED BY <5>1, ExistenceIsSaid
        <4>3. Succeeds("False")
          BY <2>2, <3>1 DEF NotOpened, Listings
        <4> QED BY <2>2, <4>2, <4>3, TrueSuccess
      <3>2. CASE op \notin {"key_exists", "value_exists"}
        <4>1. Truth(asset) = AssetSays("file_not_found")
          BY <1>1, <2>2, <3>2, RegistryTruths DEF RegistryOp
        <4>2. PICK st : Returns(st, AssetSays("file_not_found"))
          BY <2>2, <3>2 DEF NotOpened
        <4> QED BY <2>2, <4>1, <4>2, TrueAnswer
      <3> QED BY <3>1, <3>2
    <2>3. CASE NotOpened("werror") /\ Trouble
      <3>1. PICK st : Returns(st, AssetSays("werror"))
        BY <2>3 DEF NotOpened
      <3> QED BY <2>3, <3>1, ErrorAnswer
    <2> QED BY <1>3, <2>1, <2>2, <2>3 DEF open_key
  <1> QED BY <1>2, <1>3

LEMMA NoListingIsOneCall == op \in Listings => op \in RegistryOp /\ op \notin OneCall
  BY DEF Listings, RegistryOp, OneCall

LEMMA ListsSubkeys ==
    ASSUME ActionInv, key_get_info \/ get_subkey \/ subkeys_listed PROVE ActionInv'
  <1> op \in Listings /\ op \in RegistryOp /\ ~AtRest
    BY NoListingIsOneCall DEF key_get_info, get_subkey, subkeys_listed, In, AtRest
  <1>1. DOMAIN work = DOMAIN RegistryFresh
    BY DEF ActionInv, KnowledgeInv, RunInv
  <1>2. asset.subkeys \in Seq(Range(asset.subkeys)) /\ asset.values \in Seq(Range(asset.values))
    BY TypedData DEF ActionInv, KnowledgeInv, RunInv
  <1>3. Len(asset.subkeys) \in Nat /\ Len(asset.values) \in Nat
    BY <1>2
  <1>4. Steady => RegistryKnows
    BY DEF ActionInv, KnowledgeInv
  <1>5. CASE key_get_info
    <2>1. CASE Returns("SUCCEEDED", AssetSays("werror")) /\ Trouble
      BY <2>1, ErrorAnswer
    <2>2. ASSUME asset.present, Fine,
                 Goes(IF op = "enumerate_key" THEN "subkeys" ELSE "values",
                      [work EXCEPT !.num_subkeys = Len(asset.subkeys),
                                   !.num_values = Len(asset.values)])
          PROVE  ActionInv'
      <3> DEFINE next == IF op = "enumerate_key" THEN "subkeys" ELSE "values"
                 w == [work EXCEPT !.num_subkeys = Len(asset.subkeys),
                                   !.num_values = Len(asset.values)]
      <3>1. DOMAIN w = DOMAIN work
        OBVIOUS
      <3>2. ASSUME Steady PROVE RegistryKnows'
        <4>1. work = RegistryFresh
          BY <1>4, <1>5, <3>2 DEF RegistryKnows, key_get_info, In
        <4>2. /\ w.num_subkeys = Len(asset.subkeys) /\ w.num_values = Len(asset.values)
              /\ w.i = 0 /\ w.sub_keys = <<>> /\ w.values = <<>>
          BY <4>1 DEF RegistryFresh
        <4>3. SubSeq(asset.subkeys, 1, 0) = <<>> /\ SubSeq(asset.values, 1, 0) = <<>>
          BY <1>2, WholePrefix
        <4>4. work' = w /\ pc' = next /\ asset' = asset /\ op' = op
          BY <2>2 DEF Goes
        <4>5. pc' = "subkeys" => op' = "enumerate_key"
          BY <4>4
        <4>6. op' = "enumerate_key" => pc' = "subkeys"
          BY <4>4
        <4>7. pc' \in {"subkeys", "values"}
          BY <4>4
        <4> HIDE DEF w, next
        <4>8. asset'.present /\ work'.num_values = Len(asset'.values)
          BY <2>2, <4>2, <4>4
        <4>9. /\ work'.i \in 0..work'.num_subkeys /\ work'.i \in 0..work'.num_values
              /\ work'.num_subkeys = Len(asset'.subkeys) /\ work'.values = <<>>
          BY <1>3, <4>2, <4>4
        <4>10. /\ work'.sub_keys = SubSeq(asset'.subkeys, 1, work'.i)
               /\ work'.values = SubSeq(asset'.values, 1, work'.i)
          BY <4>2, <4>3, <4>4
        <4> QED BY ONLY <4>5, <4>6, <4>7, <4>8, <4>9, <4>10 DEF RegistryKnows
      <3>3. next \notin {"idle", "done"}
        OBVIOUS
      <3> HIDE DEF w, next
      <3> QED BY <2>2, <3>1, <3>2, <3>3, RegistryGoes DEF w, next
    <2> QED BY <1>5, <2>1, <2>2 DEF key_get_info
  <1>6. CASE get_subkey
    <2> DEFINE w(nm) == [work EXCEPT !.i = work.i + 1, !.nm = nm,
                                     !.sub_keys = Append(work.sub_keys, nm)]
    <2>1. \A nm : DOMAIN w(nm) = DOMAIN work
      OBVIOUS
    <2>2. ASSUME asset.present, work.i < Len(asset.subkeys), Fine,
                 Goes("subkeys", w(asset.subkeys[work.i + 1]))
          PROVE  ActionInv'
      <3>1. ASSUME Steady PROVE RegistryKnows'
        <4> DEFINE w1 == w(asset.subkeys[work.i + 1])
        <4>1. /\ work.i \in 0..work.num_subkeys /\ work.num_subkeys = Len(asset.subkeys)
              /\ work.sub_keys = SubSeq(asset.subkeys, 1, work.i) /\ work.values = <<>>
              /\ work.num_values = Len(asset.values)
          BY <1>4, <1>6, <3>1 DEF RegistryKnows, get_subkey, In
        <4>2. /\ w1.i = work.i + 1 /\ w1.num_subkeys = work.num_subkeys
              /\ w1.num_values = work.num_values /\ w1.values = work.values
              /\ w1.sub_keys = Append(work.sub_keys, asset.subkeys[work.i + 1])
          BY <1>1 DEF RegistryFresh
        <4>3. w1.sub_keys = SubSeq(asset.subkeys, 1, w1.i)
          <5>1. work.i \in Nat /\ w1.i = work.i + 1
            BY <1>3, <4>1, <4>2
          <5>2. Append(SubSeq(asset.subkeys, 1, work.i), asset.subkeys[work.i + 1]) =
                    SubSeq(asset.subkeys, 1, work.i + 1)
            BY <1>2, <2>2, <5>1, PrefixGrows
          <5> HIDE DEF w1
          <5> QED BY <4>1, <4>2, <5>1, <5>2
        <4>4. w1.i \in 0..w1.num_subkeys
          BY <1>3, <2>2, <4>1, <4>2
        <4>5. work' = w1 /\ pc' = "subkeys" /\ asset' = asset /\ op' = op
          BY <2>2 DEF Goes
        <4> HIDE DEF w1
        <4> QED BY <2>2, <4>1, <4>2, <4>3, <4>4, <4>5 DEF RegistryKnows
      <3> QED BY <2>1, <2>2, <3>1, RegistryGoes
    <2>3. ASSUME NEW nm, Trouble, Goes("subkeys", w(nm)) PROVE ActionInv'
      BY <2>1, <2>3, RegistryGoes DEF Steady, Fine, Trouble
    <2>4. CASE Throws /\ Trouble
      BY <2>4, ErrorAnswer
    <2> QED BY <1>6, <2>2, <2>3, <2>4 DEF get_subkey
  <1>7. CASE subkeys_listed
    <2> DEFINE w == [work EXCEPT !.i = 0]
    <2>1. DOMAIN w = DOMAIN work
      OBVIOUS
    <2>2. Goes("values", w) /\ Fine
      BY <1>7 DEF subkeys_listed
    <2>3. ASSUME Steady PROVE RegistryKnows'
      <3>1. /\ work.num_subkeys = Len(asset.subkeys) /\ work.i = work.num_subkeys
            /\ work.sub_keys = SubSeq(asset.subkeys, 1, work.i) /\ work.values = <<>>
            /\ work.num_values = Len(asset.values) /\ asset.present
        BY <1>4, <1>7, <2>3 DEF RegistryKnows, subkeys_listed, In
      <3>2. /\ w.i = 0 /\ w.num_values = work.num_values /\ w.values = work.values
            /\ w.sub_keys = work.sub_keys
        BY <1>1 DEF RegistryFresh
      <3>3. w.sub_keys = asset.subkeys /\ w.values = SubSeq(asset.values, 1, 0)
        BY <1>2, <3>1, <3>2, WholePrefix
      <3>4. work' = w /\ pc' = "values" /\ asset' = asset /\ op' = op
        BY <2>2 DEF Goes
      <3> HIDE DEF w
      <3> QED BY <1>3, <3>1, <3>2, <3>3, <3>4 DEF RegistryKnows
    <2> QED BY <2>1, <2>2, <2>3, RegistryGoes
  <1> QED BY <1>5, <1>6, <1>7

LEMMA ListsValues ==
    ASSUME ActionInv, get_value \/ values_listed PROVE ActionInv'
  <1> op \in Listings /\ op \in RegistryOp /\ op \notin OneCall /\ ~AtRest
    BY NoListingIsOneCall DEF get_value, values_listed, In, AtRest
  <1>1. DOMAIN work = DOMAIN RegistryFresh
    BY DEF ActionInv, KnowledgeInv, RunInv
  <1>2. asset.values \in Seq(Range(asset.values))
    BY TypedData DEF ActionInv, KnowledgeInv, RunInv
  <1>3. Len(asset.values) \in Nat
    BY <1>2
  <1>4. ASSUME Steady
        PROVE  /\ asset.present /\ work.num_values = Len(asset.values)
               /\ work.i \in 0..work.num_values /\ work.values = SubSeq(asset.values, 1, work.i)
               /\ op = "enumerate_key" => work.sub_keys = asset.subkeys
    BY <1>4 DEF ActionInv, KnowledgeInv, RegistryKnows, get_value, values_listed, In
  <1>5. CASE get_value
    <2> DEFINE w(v) == [work EXCEPT !.i = work.i + 1, !.values = Append(work.values, v)]
    <2>1. \A v : DOMAIN w(v) = DOMAIN work
      OBVIOUS
    <2>2. ASSUME asset.present, work.i < Len(asset.values), Fine,
                 Goes("values", w(asset.values[work.i + 1]))
          PROVE  ActionInv'
      <3>1. ASSUME Steady PROVE RegistryKnows'
        <4> DEFINE w1 == w(asset.values[work.i + 1])
        <4>1. /\ work.num_values = Len(asset.values) /\ work.i \in 0..work.num_values
              /\ work.values = SubSeq(asset.values, 1, work.i)
              /\ op = "enumerate_key" => work.sub_keys = asset.subkeys
          BY <1>4, <3>1
        <4>2. /\ w1.i = work.i + 1 /\ w1.num_values = work.num_values
              /\ w1.sub_keys = work.sub_keys
              /\ w1.values = Append(work.values, asset.values[work.i + 1])
          BY <1>1 DEF RegistryFresh
        <4>3. work.i \in Nat
          BY <1>3, <4>1
        <4>4. Append(SubSeq(asset.values, 1, work.i), asset.values[work.i + 1]) =
                  SubSeq(asset.values, 1, work.i + 1)
          BY <1>2, <2>2, <4>3, PrefixGrows
        <4>5. work' = w1 /\ pc' = "values" /\ asset' = asset /\ op' = op
          BY <2>2 DEF Goes
        <4> HIDE DEF w1
        <4>6. w1.values = SubSeq(asset.values, 1, w1.i) /\ w1.i \in 0..w1.num_values
          BY <1>3, <2>2, <4>1, <4>2, <4>3, <4>4
        <4> QED BY <2>2, <4>1, <4>2, <4>5, <4>6 DEF RegistryKnows
      <3> QED BY <2>1, <2>2, <3>1, RegistryGoes
    <2>3. ASSUME NEW v, Trouble, Goes("values", w(v)) PROVE ActionInv'
      BY <2>1, <2>3, RegistryGoes DEF Steady, Fine, Trouble
    <2>4. CASE (Throws \/ Dies) /\ Trouble
      BY <2>4, ErrorAnswer, DeathIsNoAnswer
    <2> QED BY <1>5, <2>2, <2>3, <2>4 DEF get_value
  <1>6. CASE values_listed
    <2>1. work.i = work.num_values /\ Fine
      BY <1>6 DEF values_listed
    <2>2. Steady => work.values = asset.values
      BY <1>2, <1>4, <2>1, WholePrefix
    <2>3. Truth(asset) = RegistryTruth(op, asset)
      BY TruthOfFamilies
    <2>4. CASE op = "enumerate_key"
      <3>1. Returns("SUCCEEDED", set_response_for_success(<<work.sub_keys, work.values>>))
        BY <1>6, <2>4 DEF values_listed, Succeeds, Content
      <3>2. Steady => Truth(asset) = set_response_for_success(<<work.sub_keys, work.values>>)
        BY <1>4, <2>2, <2>3, <2>4, RegistryTruths
      <3> QED BY <2>1, <3>1, <3>2, LongAnswer
    <2>5. CASE op # "enumerate_key"
      <3>1. op = "enumerate_values" /\ answer = result_msg
        BY <2>5 DEF Listings, ActionInv, KnowledgeInv, RunInv
      <3>2. Returns("SUCCEEDED", [result_msg EXCEPT !.res = [content |-> <<work.values>>]])
        BY <1>6, <3>1 DEF values_listed, Content
      <3>3. Steady => Truth(asset) = [result_msg EXCEPT !.res = [content |-> <<work.values>>]]
        BY <1>4, <2>2, <2>3, <3>1, RegistryTruths
      <3> QED BY <2>1, <3>2, <3>3, LongAnswer
    <2> QED BY <2>4, <2>5
  <1> QED BY <1>5, <1>6

LEMMA AsksForAValue ==
    ASSUME ActionInv, key_get_value_by_name PROVE ActionInv'
  <1> op \in {"value_exists", "query_value"} /\ op \in RegistryOp /\ ~AtRest /\ asset \in seen
    BY DEF key_get_value_by_name, In, AtRest, RegistryOp, ActionInv, KnowledgeInv, RunInv
  <1>1. Truth(asset) = RegistryTruth(op, asset)
    BY TruthOfFamilies
  <1>2. CASE op = "value_exists"
    <2>1. CASE AskedValues(asset) # {} /\ Fine /\ Succeeds("True")
      <3>1. Truth(asset) = set_response_for_success("True")
        BY <1>1, <1>2, <2>1, RegistryTruths, ExistenceIsSaid
      <3> QED BY <2>1, <3>1, TrueSuccess
    <2>2. CASE AskedValues(asset) = {} /\ Fine /\ Succeeds("False")
      <3>1. Truth(asset) = set_response_for_success("False")
        <4>1. ~(AskedValues(asset) # {})
          BY <2>2
        <4> QED BY <1>1, <1>2, <4>1, RegistryTruths, ExistenceIsSaid
      <3> QED BY <2>2, <3>1, TrueSuccess
    <2>3. CASE Trouble /\ Returns("FAILED", AssetSays("werror"))
      BY <2>3, ErrorAnswer
    <2> QED BY <1>2, <2>1, <2>2, <2>3 DEF key_get_value_by_name
  <1>3. CASE op = "query_value"
    <2> DEFINE empty == set_response_for_error("VALUE_IS_EMPTY")
    <2>1. CASE AskedValues(asset) # {} /\ Text(asset) # Empty /\ Fine /\ Succeeds(Text(asset))
      <3>1. asset.present
        BY <2>1 DEF AskedValues
      <3>2. Truth(asset) = set_response_for_success(Text(asset))
        BY <1>1, <1>3, <2>1, <3>1, RegistryTruths
      <3> QED BY <2>1, <3>2, TrueSuccess
    <2>2. ASSUME Text(asset) = Empty \/ AskedValues(asset) = {}, Fine,
                 Returns("SUCCEEDED", empty) \/ Returns("FAILED", empty)
          PROVE  ActionInv'
      <3>1. Steady => asset.present
        BY <1>3 DEF key_get_value_by_name, In, ActionInv, KnowledgeInv, RegistryKnows
      <3>2. Steady => Truth(asset) = empty
        BY <1>1, <1>3, <2>2, <3>1, RegistryTruths
      <3>3. empty.group # "OK"
        BY NoErrorIsOK, KnownErrors
      <3> QED BY <2>2, <3>2, <3>3, AnswerIsRight
    <2>3. CASE Trouble /\ Fails("VALUE_IS_EMPTY")
      BY <2>3, ErrorAnswer, KnownErrors
    <2> QED BY <1>3, <2>1, <2>2, <2>3 DEF key_get_value_by_name, Fails
  <1> QED BY <1>2, <1>3

LEMMA RegistryIsRight == ActionInv /\ RegistryStep => ActionInv'
  BY OpensARegistryKey, ListsSubkeys, ListsValues, AsksForAValue DEF RegistryStep

-----------------------------------------------------------------------------
(* Permissions and the list of shares.                                     *)

LEMMA PermissionTruths ==
    ASSUME NEW a
    PROVE  /\ PermissionTruth("enumerate_shares", a) = set_response_for_success(a.content)
           /\ \A o \in DescriptorOp : a.present =>
                  PermissionTruth(o, a) =
                      set_response_for_success([k \in DOMAIN a.content |-> NameOf[a.content[k]]])
           /\ ~a.present => PermissionTruth("registry_permissions", a) =
                                set_response_for_error("OPEN_KEY_FAILED")
           /\ \A o \in LsaOp : ~a.present => PermissionTruth(o, a) = AssetSays("ntstatus")
  BY DEF PermissionTruth, DescriptorOp, LsaOp

LEMMA NoDescriptorIsOneCall ==
    /\ op \in DescriptorOp => op \in PermissionOp /\ op \notin OneCall
    /\ op \in LsaOp => op \in DescriptorOp
    /\ op = "registry_permissions" => op \in DescriptorOp
    /\ op = "enumerate_shares" => op \in PermissionOp /\ op \notin DescriptorOp
  BY DEF DescriptorOp, LsaOp, PermissionOp, OneCall

(* The asset has no such thing, or the call about it failed.               *)
LEMMA MissingIsRight ==
    ASSUME ActionInv, op \in PermissionOp, asset \in seen, Missing,
           NEW st, NEW ans, ans.group # "OK", Returns(st, ans),
           ~asset.present => ans = Truth(asset)
    PROVE  ActionInv'
  <1>1. CASE asset.present
    BY <1>1, AnswerIsRight DEF Missing, Steady, Fine, Trouble
  <1>2. CASE ~asset.present
    BY <1>2, TrueAnswer DEF Missing
  <1> QED BY <1>1, <1>2

Early == {"connect", "ask", "query", "open_key", "get_sd"}

LEMMA ClientConnects ==
    ASSUME ActionInv, lsa_connect \/ srvsvc_connect \/ registry_connect PROVE ActionInv'
  <1> op \in PermissionOp /\ pc = "connect" /\ ~AtRest
    BY DEF lsa_connect, srvsvc_connect, registry_connect, In, AtRest, PermissionOp, DescriptorOp, LsaOp
  <1>1. ASSUME NEW tree, rpc_connect(tree) PROVE ActionInv'
    <2> DEFINE w == [work EXCEPT !.tree = tree]
    <2>1. DOMAIN w = DOMAIN work /\ w.names = work.names
      BY DEF ActionInv, KnowledgeInv, RunInv, PermissionFresh
    <2>2. Steady => PermissionKnows'
      BY <1>1, <2>1 DEF ActionInv, KnowledgeInv, PermissionKnows, rpc_connect, Goes
    <2> HIDE DEF w
    <2> QED BY <1>1, <2>1, <2>2, PermissionGoes DEF rpc_connect, w
  <1> QED BY <1>1, ErrorAnswer DEF lsa_connect, srvsvc_connect, registry_connect, AssetRefuses

LEMMA AsksForDescriptor ==
    ASSUME ActionInv,
           \/ ntcreate \/ query_security_descriptor \/ winreg_connect \/ winreg_open_key \/ get_sd
    PROVE  ActionInv'
  <1> op \in DescriptorOp /\ op \in PermissionOp /\ pc \in Early /\ ~AtRest /\ asset \in seen
    BY NoDescriptorIsOneCall
       DEF ntcreate, query_security_descriptor, winreg_connect, winreg_open_key, get_sd, In, AtRest,
           ActionInv, KnowledgeInv, RunInv, Early
  <1>1. Truth(asset) = PermissionTruth(op, asset)
    BY TruthOfFamilies
  <1>2. DOMAIN work = DOMAIN PermissionFresh
    BY DEF ActionInv, KnowledgeInv, RunInv
  <1>3. asset.content \in Seq(Range(asset.content))
    BY TypedData DEF ActionInv, KnowledgeInv, RunInv
  <1>4. ASSUME NEW next \in Early, Goes(next, work), Fine PROVE ActionInv'
    <2>1. Steady => PermissionKnows'
      BY <1>4 DEF ActionInv, KnowledgeInv, PermissionKnows, Goes, Early
    <2> QED BY <1>4, <2>1, PermissionGoes DEF Early
  <1>5. ASSUME asset.present, Goes("names", [work EXCEPT !.sids = asset.content]), Fine
        PROVE  ActionInv'
    <2> DEFINE w == [work EXCEPT !.sids = asset.content]
    <2>1. DOMAIN w = DOMAIN work /\ w.names = work.names /\ w.sids = asset.content
      BY <1>2 DEF PermissionFresh
    <2>2. ASSUME Steady PROVE PermissionKnows'
      <3>1. work.names = <<>>
        BY <2>2 DEF ActionInv, KnowledgeInv, PermissionKnows, Early
      <3>2. pc' = "names" /\ work' = w /\ asset' = asset /\ op' = op
        BY <1>5 DEF Goes
      <3>3. work'.names = <<>> /\ work'.sids = asset'.content /\ asset'.present
        BY <1>5, <2>1, <3>1, <3>2
      <3>4. NamesUpTo(0)' = <<>> /\ 0 \in 0..Len(asset'.content)
        BY <1>3, <3>2 DEF NamesUpTo
      <3> HIDE DEF w
      <3> QED BY <3>2, <3>3, <3>4 DEF PermissionKnows
    <2> HIDE DEF w
    <2> QED BY <1>5, <2>1, <2>2, PermissionGoes DEF w
  <1>6. CASE ntcreate \/ query_security_descriptor
    <2>1. ~asset.present => Truth(asset) = AssetSays("ntstatus")
      BY <1>1, <1>6, PermissionTruths DEF ntcreate, query_security_descriptor, In
    <2>2. CASE AssetRefuses("ntstatus") /\ Missing
      BY <2>1, <2>2, NoErrorIsOK, MissingIsRight DEF AssetRefuses
    <2> QED BY <1>4, <1>5, <1>6, <2>2 DEF ntcreate, query_security_descriptor, Early
  <1>7. CASE winreg_connect \/ winreg_open_key
    <2>1. ~asset.present => Truth(asset) = set_response_for_error("OPEN_KEY_FAILED")
      BY <1>1, <1>7, PermissionTruths DEF winreg_connect, winreg_open_key, In
    <2>2. set_response_for_error("OPEN_KEY_FAILED").group # "OK"
      BY NoErrorIsOK, KnownErrors
    <2>3. CASE Fails("OPEN_KEY_FAILED") /\ Missing
      BY <2>1, <2>2, <2>3, MissingIsRight DEF Fails
    <2> QED BY <1>4, <1>7, <2>3 DEF winreg_connect, winreg_open_key, Early
  <1>8. CASE get_sd
    <2>1. CASE Goes("out_failed", work) /\ Trouble
      BY <2>1, PermissionGoes DEF Steady, Fine, Trouble
    <2> QED BY <1>5, <1>8, <2>1 DEF get_sd
  <1> QED BY <1>6, <1>7, <1>8

LEMMA ListsShares ==
    ASSUME ActionInv, enumerate_all_shares PROVE ActionInv'
  <1> op = "enumerate_shares" /\ op \in PermissionOp /\ ~AtRest /\ asset \in seen
    BY NoDescriptorIsOneCall DEF enumerate_all_shares, In, AtRest, ActionInv, KnowledgeInv, RunInv
  <1>1. Truth(asset) = set_response_for_success(asset.content)
    BY TruthOfFamilies, PermissionTruths
  <1>2. CASE Succeeds(asset.content) /\ Fine
    BY <1>1, <1>2, TrueSuccess
  <1> QED BY <1>2, ErrorAnswer DEF enumerate_all_shares, AssetRefuses

LEMMA NamesGrow ==
    ASSUME NEW n \in Nat
    PROVE  /\ Append(NamesUpTo(n), NameOf[asset.content[n + 1]]) = NamesUpTo(n + 1)
           /\ Len(NamesUpTo(n)) = n
  <1> DEFINE T == {NameOf[asset.content[k]] : k \in 1..n + 1}
             name == NameOf[asset.content[n + 1]]
             longer == Append(NamesUpTo(n), name)
  <1>1. NamesUpTo(n) \in Seq(T) /\ NamesUpTo(n + 1) \in Seq(T) /\ name \in T
    <2>1. \A m \in {n, n + 1} : NamesUpTo(m) \in [1..m -> T] /\ m \in Nat
      BY DEF NamesUpTo
    <2>2. \A m \in Nat : \A f \in [1..m -> T] : f \in Seq(T)
      BY SeqDef
    <2>3. name \in T
      OBVIOUS
    <2> HIDE DEF T, name
    <2> QED BY <2>1, <2>2, <2>3
  <1>2. Len(NamesUpTo(n)) = n /\ Len(NamesUpTo(n + 1)) = n + 1
    <2>1. \A m \in {n, n + 1} : DOMAIN NamesUpTo(m) = 1..m /\ m \in Nat
      BY DEF NamesUpTo
    <2> HIDE DEF T
    <2> QED BY <1>1, <2>1
  <1> HIDE DEF T, name
  <1>3. /\ longer \in Seq(T) /\ Len(longer) = n + 1
        /\ \A k \in 1..n : longer[k] = NamesUpTo(n)[k]
        /\ longer[n + 1] = name
    BY <1>1, <1>2, AppendProperties
  <1>4. \A k \in 1..n + 1 : longer[k] = NamesUpTo(n + 1)[k]
    <2>1. \A k \in 1..n : NamesUpTo(n)[k] = NamesUpTo(n + 1)[k]
      BY DEF NamesUpTo
    <2>2. NamesUpTo(n + 1)[n + 1] = name
      BY DEF NamesUpTo, name
    <2> QED BY <1>3, <2>1, <2>2
  <1> HIDE DEF longer
  <1> QED BY <1>1, <1>2, <1>3, <1>4, SeqEqual DEF longer, name

LEMMA LooksUpNames ==
    ASSUME ActionInv, tree_connect \/ open_lsa_pipe \/ lookup_sids \/ named \/ out
    PROVE  ActionInv'
  <1> op \in DescriptorOp /\ op \in PermissionOp /\ op \notin OneCall /\ ~AtRest
    BY NoDescriptorIsOneCall
       DEF tree_connect, open_lsa_pipe, lookup_sids, named, out, In, AtRest
  <1>1. DOMAIN work = DOMAIN PermissionFresh
    BY DEF ActionInv, KnowledgeInv, RunInv
  <1>2. asset.content \in Seq(Range(asset.content)) /\ Len(asset.content) \in Nat
    BY TypedData DEF ActionInv, KnowledgeInv, RunInv
  <1>3. Steady => PermissionKnows
    BY DEF ActionInv, KnowledgeInv
  <1>4. ASSUME Steady, pc \in {"names", "pipe", "lookup", "out"}
        PROVE  /\ asset.present /\ work.sids = asset.content
               /\ \E n \in Nat : /\ n <= Len(asset.content)
                                 /\ work.names = NamesUpTo(n) /\ Len(work.names) = n
                                 /\ pc \in {"pipe", "lookup"} => n < Len(asset.content)
                                 /\ pc = "out" => n = Len(asset.content)
    <2>1. asset.present /\ work.sids = asset.content
      BY <1>3, <1>4 DEF PermissionKnows
    <2>2. PICK n \in 0..Len(asset.content) :
              /\ work.names = NamesUpTo(n)
              /\ pc \in {"pipe", "lookup"} => n < Len(asset.content)
              /\ pc = "out" => n = Len(asset.content)
      BY <1>3, <1>4 DEF PermissionKnows
    <2>3. n \in Nat /\ n <= Len(asset.content) /\ Len(work.names) = n
      BY <1>2, <2>2, NamesGrow
    <2> QED BY <2>1, <2>2, <2>3
  <1>5. ASSUME NEW next, next \notin {"idle", "done"}, NEW w, DOMAIN w = DOMAIN work,
               Goes(next, w), Trouble
        PROVE  ActionInv'
    BY <1>5, PermissionGoes DEF Steady, Fine, Trouble
  (* The names that are known stay, in the state that follows.             *)
  <1>6. ASSUME asset.present, NEW next \in {"names", "pipe", "lookup", "out"}, NEW w,
               w.sids = asset.content, Goes(next, w), NEW n \in 0..Len(asset.content),
               w.names = NamesUpTo(n), next \in {"pipe", "lookup"} => n < Len(asset.content),
               next = "out" => n = Len(asset.content)
        PROVE  PermissionKnows'
    <2>1. pc' = next /\ work' = w /\ asset' = asset
      BY <1>6 DEF Goes
    <2>2. NamesUpTo(n)' = NamesUpTo(n)
      BY <2>1 DEF NamesUpTo
    <2> QED BY <1>6, <2>1, <2>2 DEF PermissionKnows
  <1>7. ASSUME NEW name, fail(name)
        PROVE  \E w : /\ Goes("names", w) /\ DOMAIN w = DOMAIN work
                      /\ w.sids = work.sids /\ w.names = Append(work.names, name)
    <2> DEFINE w == [work EXCEPT !.tree = work.saved, !.saved = None,
                                 !.names = Append(work.names, name)]
    <2>1. DOMAIN w = DOMAIN work /\ w.sids = work.sids /\ w.names = Append(work.names, name)
      BY <1>1 DEF PermissionFresh
    <2>2. Goes("names", w)
      BY <1>7 DEF fail
    <2> HIDE DEF w
    <2> QED BY <2>1, <2>2
  <1>8. CASE tree_connect
    <2> DEFINE w == [work EXCEPT !.saved = work.tree, !.tree = IPC]
               w2 == [work EXCEPT !.names = Append(work.names, sid)]
    <2>1. DOMAIN w = DOMAIN work /\ w.sids = work.sids /\ w.names = work.names
      BY <1>1 DEF PermissionFresh
    <2>2. DOMAIN w2 = DOMAIN work
      OBVIOUS
    <2>3. pc = "names" /\ Len(work.names) < Len(work.sids)
      BY <1>8 DEF tree_connect, In
    <2>4. (Goes("pipe", w) /\ Fine) \/ (Goes("names", w2) /\ Trouble)
      BY <1>8 DEF tree_connect
    <2> HIDE DEF w, w2
    <2>5. ASSUME Goes("pipe", w), Steady PROVE PermissionKnows'
      BY <1>2, <1>4, <1>6, <2>1, <2>3, <2>5
    <2> QED BY <1>5, <2>1, <2>2, <2>4, <2>5, PermissionGoes
  <1>9. CASE open_lsa_pipe
    <2>1. pc = "pipe"
      BY <1>9 DEF open_lsa_pipe, In
    <2>2. ASSUME Goes("lookup", work), Steady PROVE PermissionKnows'
      BY <1>2, <1>4, <1>6, <2>1, <2>2
    <2>3. CASE Goes("lookup", work) /\ Fine
      BY <2>2, <2>3, PermissionGoes
    <2>4. CASE fail(sid) /\ Trouble
      BY <1>5, <1>7, <2>4
    <2> QED BY <1>9, <2>3, <2>4, DeathIsNoAnswer DEF open_lsa_pipe
  <1>10. CASE lookup_sids
    <2>1. pc = "lookup"
      BY <1>10 DEF lookup_sids, In
    <2>2. CASE fail(NameOf[sid]) /\ Fine
      <3>1. PICK w : /\ Goes("names", w) /\ DOMAIN w = DOMAIN work
                     /\ w.sids = work.sids /\ w.names = Append(work.names, NameOf[sid])
        BY <1>7, <2>2
      <3>2. ASSUME Steady PROVE PermissionKnows'
        <4>1. PICK n \in Nat : /\ n < Len(asset.content)
                               /\ work.names = NamesUpTo(n) /\ Len(work.names) = n
          BY <1>4, <2>1, <3>2
        <4>2. asset.present /\ work.sids = asset.content
          BY <1>4, <2>1, <3>2
        <4>3. NameOf[sid] = NameOf[asset.content[n + 1]]
          BY <4>1, <4>2 DEF sid
        <4>4. w.names = NamesUpTo(n + 1)
          BY <3>1, <4>1, <4>3, NamesGrow
        <4>5. n + 1 \in 0..Len(asset.content)
          BY <1>2, <4>1
        <4> QED BY <1>6, <3>1, <4>2, <4>4, <4>5
      <3> QED BY <2>2, <3>1, <3>2, PermissionGoes
    <2>3. CASE fail(sid) /\ Trouble
      BY <1>5, <1>7, <2>3
    <2> QED BY <1>10, <2>2, <2>3 DEF lookup_sids
  <1>11. ASSUME Steady, pc \in {"names", "out"}, Len(work.names) = Len(work.sids) \/ pc = "out"
         PROVE  Truth(asset) = set_response_for_success(work.names)
    <2>1. asset.present /\ work.names = NamesUpTo(Len(asset.content))
      BY <1>2, <1>4, <1>11
    <2>2. DOMAIN asset.content = 1..Len(asset.content)
      BY <1>2
    <2>3. NamesUpTo(Len(asset.content)) = [k \in DOMAIN asset.content |-> NameOf[asset.content[k]]]
      BY <2>2 DEF NamesUpTo
    <2> QED BY <2>1, <2>3, TruthOfFamilies, PermissionTruths
  <1>12. CASE named
    <2>1. pc = "names" /\ Len(work.names) = Len(work.sids) /\ Fine
      BY <1>12 DEF named, In
    <2>2. CASE Goes("out", work)
      <3>1. ASSUME Steady PROVE PermissionKnows'
        BY <1>2, <1>4, <1>6, <2>1, <2>2, <3>1
      <3> QED BY <2>1, <2>2, <3>1, PermissionGoes
    <2>3. CASE Succeeds(work.names)
      BY <1>11, <2>1, <2>3, LongAnswer DEF Succeeds
    <2> QED BY <1>12, <2>2, <2>3 DEF named
  <1>13. CASE out
    <2>1. pc \in {"out", "out_failed"} /\ (Steady => pc = "out")
      BY <1>3, <1>13 DEF out, PermissionKnows
    <2>2. CASE Succeeds(work.names) /\ (Fine \/ Trouble)
      BY <1>11, <2>1, <2>2, LongAnswer DEF Succeeds
    <2>3. CASE AssetRefuses("ntstatus") /\ (Trouble \/ (Fine /\ pc = "out_failed"))
      BY <2>1, <2>3, NoErrorIsOK, LongAnswer DEF AssetRefuses, Steady, Fine, Trouble
    <2> QED BY <1>13, <2>1, <2>2, <2>3, DeathIsNoAnswer DEF out
  <1> QED BY <1>8, <1>9, <1>10, <1>12, <1>13

LEMMA PermissionsAreRight == ActionInv /\ PermissionStep => ActionInv'
  BY ClientConnects, AsksForDescriptor, ListsShares, LooksUpNames DEF PermissionStep

-----------------------------------------------------------------------------
(* Files and directories.                                                  *)

LEMMA FileTruths ==
    ASSUME NEW r, NEW a
    PROVE  /\ FileTruth("read_file", r, a) = ReadTruth(r, a)
           /\ a.kind \in {"file", "ENOENT"} =>
                  FileTruth("file_exists", r, a) = Says(a.kind = "file")
           /\ a.kind = "dir" => FileTruth("list_dir", r, a) =
                                    set_response_for_success(Matching(Typed(a.content), r.pattern))
           /\ a.kind = "file" => FileTruth("get_file_info", r, a) =
                                     IF a.version = Undefined THEN Thrown
                                     ELSE set_response_for_success(<<Len(a.content), a.version>>)
           /\ a.kind \notin {"file", "ENOENT"} =>
                  FileTruth("file_exists", r, a) = AssetSays(a.kind)
           /\ a.kind # "dir" => FileTruth("list_dir", r, a) = AssetSays(a.kind)
           /\ a.kind # "file" => FileTruth("get_file_info", r, a) = AssetSays(a.kind)
  BY DEF FileTruth

LEMMA ReadTruths ==
    ASSUME NEW a, NEW r, r.offset \in Nat \cup {-1, NotANumber}, r.size \in Nat \cup {-1, NotANumber}
    PROVE  /\ r.offset = NotANumber => ReadTruth(r, a) = Thrown
           /\ r.offset = -1 => ReadTruth(r, a) = set_response_for_error("BAD_PARAMETER")
           /\ r.offset \in Nat /\ r.size = NotANumber => ReadTruth(r, a) = Thrown
           /\ r.offset \in Nat /\ r.size = -1 =>
                  ReadTruth(r, a) = set_response_for_error("BAD_PARAMETER")
           /\ r.offset \in Nat /\ r.size \in Nat /\ a.kind # "file" =>
                  ReadTruth(r, a) = AssetSays(a.kind)
  <1> USE DEF NotANumber
  <1>1. r.offset = NotANumber => ReadTruth(r, a) = Thrown
    BY DEF ReadTruth
  <1>2. r.offset = -1 => ReadTruth(r, a) = set_response_for_error("BAD_PARAMETER")
    BY DEF ReadTruth
  <1>3. r.offset \in Nat /\ r.size = NotANumber => ReadTruth(r, a) = Thrown
    BY DEF ReadTruth
  <1>4. r.offset \in Nat /\ r.size = -1 => ReadTruth(r, a) = set_response_for_error("BAD_PARAMETER")
    BY DEF ReadTruth
  <1>5. r.offset \in Nat /\ r.size \in Nat /\ a.kind # "file" => ReadTruth(r, a) = AssetSays(a.kind)
    BY DEF ReadTruth
  <1> QED BY <1>1, <1>2, <1>3, <1>4, <1>5

(* The bytes that are there: as many as are wanted, or up to the end.      *)
LastByte(r, a) ==
    LET end == r.offset + BytesWanted(r, Len(a.content))
    IN IF end < Len(a.content) THEN end ELSE Len(a.content)

LEMMA ReadTruthOfBytes ==
    ASSUME NEW a, NEW r, r.offset \in Nat, r.size \in Nat, a.kind = "file"
    PROVE  /\ TooMuch(BytesWanted(r, Len(a.content))) => ReadTruth(r, a) = Thrown
           /\ ~TooMuch(BytesWanted(r, Len(a.content))) =>
                  ReadTruth(r, a) =
                      set_response_for_success(SubSeq(a.content, r.offset + 1, LastByte(r, a)))
  <1>1. r.offset >= 0 /\ r.size >= 0 /\ ~(r.offset < 0) /\ r.offset # NotANumber
        /\ r.size # NotANumber /\ r.size # -1
    BY DEF NotANumber
  <1> QED BY <1>1 DEF ReadTruth, LastByte

LEMMA AtFiles ==
    ASSUME ActionInv, op \in FileOp, ~AtRest
    PROVE  /\ DOMAIN work = DOMAIN FileFresh(None)
           /\ work.request.offset \in Nat \cup {-1, NotANumber}
           /\ work.request.size \in Nat \cup {-1, NotANumber}
           /\ asset \in seen
           /\ asset.content \in Seq(Range(asset.content)) /\ Len(asset.content) \in Nat
           /\ \A a : Truth(a) = FileTruth(op, work.request, a)
           /\ Throws => Returns("THROWS", Thrown)
           /\ Steady => FileKnows
  <1>1. /\ asset \in seen /\ asset \in AssetsOf(op) /\ ~again
        /\ DOMAIN work = DOMAIN FileFresh(None) /\ work.request \in Requests(op)
        /\ Steady => FileKnows
    BY DEF ActionInv, KnowledgeInv, RunInv
  <1>2. asset.content \in Seq(Range(asset.content)) /\ Len(asset.content) \in Nat
    BY <1>1, TypedData
  <1>3. Throws => Returns("THROWS", Thrown)
    BY <1>1 DEF Throws, Thrown
  <1> QED BY <1>1, <1>2, <1>3, TypedData, TruthOfFamilies

LEMMA BeginsClient ==
    ASSUME ActionInv, range \/ init \/ smbc_auth_fn PROVE ActionInv'
  <1> op \in FileOp /\ ~AtRest
    BY DEF range, init, smbc_auth_fn, In, AtRest, FileOp
  <1> USE AtFiles
  <1>1. CASE range
    <2> DEFINE r == work.request
    <2>1. op = "read_file" /\ pc = "range" /\ Fine
      BY <1>1 DEF range, In
    <2>2. \A a : Truth(a) = ReadTruth(r, a)
      BY <2>1, FileTruths
    <2>3. ASSUME r.offset = NotANumber \/ (r.offset \in Nat /\ r.size = NotANumber), Throws
          PROVE  ActionInv'
      <3>1. Truth(asset) = Thrown
        BY <2>2, <2>3, ReadTruths
      <3> QED BY <2>1, <2>3, <3>1, TrueAnswer
    <2>4. ASSUME r.offset = -1 \/ (r.offset \in Nat /\ r.size = -1), Fails("BAD_PARAMETER")
          PROVE  ActionInv'
      <3>1. Truth(asset) = set_response_for_error("BAD_PARAMETER")
        BY <2>2, <2>4, ReadTruths
      <3> QED BY <2>1, <2>4, <3>1, TrueAnswer DEF Fails
    <2>5. ASSUME r.offset \in Nat, r.size \in Nat, Goes("init", work) PROVE ActionInv'
      <3>1. Steady => FileKnows'
        BY <2>1, <2>5 DEF FileKnows, Goes
      <3>2. ListingInv' /\ ListedInv'
        BY <2>1, <2>5 DEF ListingInv, ListedInv, Goes
      <3> QED BY <2>1, <2>5, <3>1, <3>2, FileGoes
    <2>6. \/ (r.offset = NotANumber \/ (r.offset \in Nat /\ r.size = NotANumber)) /\ Throws
          \/ (r.offset = -1 \/ (r.offset \in Nat /\ r.size = -1)) /\ Fails("BAD_PARAMETER")
          \/ r.offset \in Nat /\ r.size \in Nat /\ Goes("init", work)
      BY <1>1 DEF range, NotANumber
    <2> QED BY <2>3, <2>4, <2>5, <2>6
  <1>2. CASE init
    <2> DEFINE w(old) == [work EXCEPT !.old = old]
    <2>1. \A old : /\ DOMAIN w(old) = DOMAIN work /\ w(old).request = work.request
                   /\ w(old).sz = work.sz /\ w(old).buff = work.buff
      BY DEF FileFresh
    <2>2. ASSUME NEW old, Goes("open", w(old)), Fine PROVE ActionInv'
      <3> HIDE DEF w
      <3>1. pc = "init"
        BY <1>2 DEF init, In
      <3>2. Steady => FileKnows'
        BY <2>1, <2>2, <3>1 DEF FileKnows, Goes
      <3>3. ListingInv' /\ ListedInv'
        BY <2>1, <2>2, <3>1 DEF ActionInv, KnowledgeInv, ListingInv, ListedInv, Goes
      <3> QED BY <2>1, <2>2, <3>2, <3>3, FileGoes
    <2>3. CASE Trouble /\ Returns("FAILED", AssetSays("-1"))
      BY <2>3, ErrorAnswer
    <2> QED BY <1>2, <2>2, <2>3, DeathIsNoAnswer DEF init, LibraryDies
  <1>3. CASE smbc_auth_fn
    BY <1>3, DeathIsNoAnswer DEF smbc_auth_fn, LibraryDies
  <1> QED BY <1>1, <1>2, <1>3

LEMMA SessionEnds ==
    ASSUME ActionInv, session_ends PROVE ActionInv'
  <1> op \in FileOp /\ ~AtRest
    BY DEF session_ends
  <1> DEFINE w == [work EXCEPT !.session = FALSE]
  <1>1. /\ DOMAIN w = DOMAIN work /\ w.request = work.request /\ w.file_size = work.file_size
        /\ w.sz = work.sz /\ w.buff = work.buff /\ w.listing = work.listing
    BY AtFiles DEF FileFresh
  <1>2. Goes(pc, w) /\ Fine /\ pc \notin {"idle", "done"}
    BY DEF session_ends, AtRest
  <1> HIDE DEF w
  <1>3. pc' = pc /\ op' = op /\ work' = w /\ asset' = asset /\ seen' = seen
    BY <1>2 DEF Goes
  <1>4. Steady => FileKnows'
    BY <1>1, <1>3, AtFiles DEF FileKnows
  <1>5. ListingInv' /\ ListedInv'
    BY <1>1, <1>3 DEF ActionInv, KnowledgeInv, ListingInv, ListedInv
  <1> QED BY <1>1, <1>2, <1>4, <1>5, FileGoes

LEMMA OpensFile ==
    ASSUME ActionInv, open_file PROVE ActionInv'
  <1> op \in FileOp /\ op # "list_dir" /\ pc = "open" /\ ~AtRest
    BY DEF open_file, In, AtRest
  <1> USE AtFiles
  <1>0. Truth(asset) = FileTruth(op, work.request, asset)
    OBVIOUS
  <1>1. ASSUME asset.kind = "file", Opened, Fine PROVE ActionInv'
    <2>1. CASE op = "file_exists"
      <3>1. Truth(asset) = set_response_for_success("True")
        BY <1>1, <2>1, FileTruths, ExistenceIsSaid, ZenonT(60)
      <3> QED BY <1>1, <2>1, <3>1, TrueSuccess DEF Opened
    <2>2. CASE op # "file_exists"
      <3> DEFINE w == [work EXCEPT !.handle = "file", !.file_size = Len(asset.content)]
      <3>1. /\ DOMAIN w = DOMAIN work /\ w.request = work.request
            /\ w.file_size = Len(asset.content) /\ w.buff = work.buff
        BY DEF FileFresh
      <3>2. PICK next \in {"allocate", "version"} : Goes(next, w)
        BY <1>1, <2>2 DEF Opened
      <3> HIDE DEF w
      <3>3. Steady => FileKnows'
        BY <1>1, <3>1, <3>2 DEF FileKnows, Goes
      <3>4. ListingInv' /\ ListedInv'
        BY <3>2 DEF ListingInv, ListedInv, Goes
      <3> QED BY <1>1, <3>1, <3>2, <3>3, <3>4, FileGoes
    <2> QED BY <2>1, <2>2
  <1>2. ASSUME asset.kind # "file", OpenFailed(asset.kind), Fine PROVE ActionInv'
    <2>1. CASE op = "file_exists" /\ asset.kind = "ENOENT"
      <3>1. Truth(asset) = set_response_for_success("False")
        <4>1. Truth(asset) = Says(asset.kind = "file")
          BY ONLY <1>0, <2>1, FileTruths
        <4>2. ~(asset.kind = "file")
          BY <1>2
        <4> QED BY <4>1, <4>2, ExistenceIsSaid
      <3> QED BY <1>2, <2>1, <3>1, TrueSuccess DEF OpenFailed
    <2>2. CASE ~(op = "file_exists" /\ asset.kind = "ENOENT")
      <3>1. Returns("FAILED", AssetSays(asset.kind))
        BY <1>2, <2>2 DEF OpenFailed
      <3>2. op = "read_file" /\ Steady => Truth(asset) = AssetSays(asset.kind)
        <4>1. ASSUME op = "read_file", Steady
              PROVE  work.request.offset \in Nat /\ work.request.size \in Nat
          BY <4>1 DEF FileKnows
        <4>2. op = "read_file" => Truth(asset) = ReadTruth(work.request, asset)
          BY ONLY <1>0, FileTruths
        <4> QED BY <1>2, <4>1, <4>2, ReadTruths
      <3>3. op # "read_file" => Truth(asset) = AssetSays(asset.kind)
        <4>1. op # "read_file" => op \in {"file_exists", "get_file_info"}
          BY DEF FileOp
        <4>2. op = "file_exists" => Truth(asset) = AssetSays(asset.kind)
          BY ONLY <1>0, <1>2, <2>2, FileTruths
        <4>3. op = "get_file_info" => Truth(asset) = AssetSays(asset.kind)
          BY <1>2, FileTruths
        <4> QED BY <4>1, <4>2, <4>3
      <3> QED BY <1>2, <3>1, <3>2, <3>3, NoErrorIsOK, AnswerIsRight
    <2> QED BY <2>1, <2>2
  <1>3. ASSUME NEW errno \in {"errno", "-1"}, OpenFailed(errno), Trouble PROVE ActionInv'
    BY <1>3, ErrorAnswer DEF OpenFailed
  <1> QED BY <1>1, <1>2, <1>3 DEF open_file

LEMMA TellsVersion ==
    ASSUME ActionInv, get_file_info PROVE ActionInv'
  <1> op = "get_file_info" /\ op \in FileOp /\ op \notin OneCall /\ ~AtRest
    BY DEF get_file_info, In, AtRest, FileOp, OneCall
  <1> USE AtFiles
  <1>1. Truth(asset) = FileTruth("get_file_info", work.request, asset)
    OBVIOUS
  <1>2. ASSUME asset.kind = "file", Fine, asset.version = Undefined, Unwinds PROVE ActionInv'
    <2>1. Truth(asset) = Thrown
      BY ONLY <1>1, <1>2, FileTruths
    <2> QED BY <1>2, <2>1, LongAnswer DEF Unwinds
  <1>3. ASSUME asset.kind = "file", Fine, asset.version # Undefined,
               Succeeds(<<work.file_size, asset.version>>)
        PROVE  ActionInv'
    <2>1. Truth(asset) = set_response_for_success(<<Len(asset.content), asset.version>>)
      BY ONLY <1>1, <1>3, FileTruths
    <2>2. Steady => work.file_size = Len(asset.content)
      BY DEF get_file_info, In, FileKnows
    <2> QED BY <1>3, <2>1, <2>2, LongAnswer DEF Succeeds
  <1>4. ASSUME Trouble, NEW res, Succeeds(res) PROVE ActionInv'
    BY <1>4, LongAnswer DEF Succeeds, Steady, Fine, Trouble
  <1> QED BY <1>2, <1>3, <1>4 DEF get_file_info

LEMMA AllocatesMemory ==
    ASSUME ActionInv, allocate PROVE ActionInv'
  <1> op = "read_file" /\ pc = "allocate" /\ op \in FileOp /\ op \notin OneCall /\ ~AtRest /\ Fine
    BY DEF allocate, In, AtRest, FileOp, OneCall
  <1> DEFINE r == work.request
             sz == BytesWanted(r, work.file_size)
             w == [work EXCEPT !.sz = sz]
  <1>1. Truth(asset) = ReadTruth(r, asset)
    BY AtFiles, FileTruths
  <1>2. ASSUME Steady
        PROVE  /\ asset.kind = "file" /\ work.file_size = Len(asset.content) /\ work.buff = <<>>
               /\ r.offset \in Nat /\ r.size \in Nat
    BY <1>2, AtFiles DEF FileKnows
  <1>3. CASE TooMuch(sz)
    <2>1. Steady => Truth(asset) = Thrown
      BY <1>1, <1>2, <1>3, ReadTruthOfBytes
    <2>2. Returns("THROWS", Thrown)
      BY <1>3, AtFiles DEF allocate, Unwinds
    <2> QED BY <2>1, <2>2, LongAnswer
  <1>4. CASE ~TooMuch(sz)
    <2>1. Goes("read", w)
      BY <1>4 DEF allocate
    <2>2. DOMAIN w = DOMAIN work /\ w.request = r /\ w.sz = sz /\ w.buff = work.buff
      BY AtFiles DEF FileFresh
    <2> HIDE DEF w
    <2>3. pc' = "read" /\ op' = op /\ work' = w /\ asset' = asset
      BY <2>1 DEF Goes
    <2>4. ASSUME Steady PROVE FileKnows'
      <3>1. sz = BytesWanted(r, Len(asset.content)) /\ sz \in Nat
        <4>1. sz \in Int /\ ~(sz < 0)
          BY <1>2, <1>4, <2>4, AtFiles DEF BytesWanted, TooMuch
        <4> QED BY <1>2, <2>4, <4>1
      <3>2. work.buff = SubSeq(asset.content, r.offset + 1, r.offset + 0) /\ 0 \in 0..sz
        <4>1. r.offset + 1 \in Int /\ r.offset + 0 \in Int /\ r.offset + 0 < r.offset + 1
          BY <1>2, <2>4
        <4>2. SubSeq(asset.content, r.offset + 1, r.offset + 0) = <<>>
          BY ONLY <4>1, SubSeqEmpty
        <4>3. work.buff = <<>>
          BY <1>2, <2>4
        <4>4. 0 \in 0..sz
          BY <3>1
        <4> HIDE DEF r, sz
        <4> QED BY ONLY <4>2, <4>3, <4>4
      <3> HIDE DEF sz, r
      <3>3. /\ work'.request.offset = r.offset /\ work'.request.size = r.size
            /\ work'.sz = sz /\ work'.buff = work.buff /\ work'.request = r
        BY <2>2, <2>3
      <3>4. \E n \in 0..sz : /\ work.buff = SubSeq(asset.content, r.offset + 1, r.offset + n)
                             /\ n > 0 => r.offset + n <= Len(asset.content)
        <4>1. ~(0 > 0)
          OBVIOUS
        <4> QED BY <3>2, <4>1
      <3> QED BY <1>2, <1>4, <2>3, <2>4, <3>1, <3>3, <3>4 DEF FileKnows
    <2>5. ListingInv' /\ ListedInv'
      BY <2>3 DEF ListingInv, ListedInv
    <2> QED BY <2>1, <2>2, <2>4, <2>5, FileGoes
  <1> QED BY <1>3, <1>4

(* Bytes behind those that have been read, up to those that are wanted or  *)
(* to the end of the file.                                                 *)
LEMMA BytesGrow ==
    ASSUME NEW s, s \in Seq(Range(s)), NEW o \in Nat, NEW n \in Nat, NEW m \in Nat,
           o + n + m <= Len(s)
    PROVE  SubSeq(s, o + 1, o + n) \o SubSeq(s, o + n + 1, o + n + m) = SubSeq(s, o + 1, o + (n + m))
  <1> DEFINE from == o + 1
             to == o + n
             end == o + n + m
  <1>1. Len(s) \in Nat
    OBVIOUS
  <1>2. from \in 1..Len(s) + 1 /\ to \in from - 1..Len(s) /\ end \in to..Len(s) /\ end = o + (n + m)
    BY <1>1
  <1> HIDE DEF from, to, end
  <1>3. SubSeq(s, from, to) \o SubSeq(s, to + 1, end) = SubSeq(s, from, end)
    BY <1>2, ConcatAdjacentSubSeq
  <1> QED BY <1>2, <1>3 DEF from, to, end

LEMMA BytesLength ==
    ASSUME NEW s, s \in Seq(Range(s)), NEW o \in Nat, NEW n \in Nat, n > 0 => o + n <= Len(s)
    PROVE  Len(SubSeq(s, o + 1, o + n)) = n
  <1>1. \A i \in o + 1..o + n : s[i] \in Range(s)
    <2> SUFFICES ASSUME NEW i \in o + 1..o + n PROVE s[i] \in Range(s)
      OBVIOUS
    <2>1. n > 0 /\ i \in 1..Len(s)
      OBVIOUS
    <2> QED BY <2>1 DEF Range
  <1>2. Len(SubSeq(s, o + 1, o + n)) = IF o + 1 <= o + n THEN o + n - (o + 1) + 1 ELSE 0
    BY ONLY <1>1, SubSeqProperties, o \in Nat, n \in Nat, o + 1 \in Int, o + n \in Int
  <1> QED BY <1>2

LEMMA BytesEnd ==
    ASSUME NEW s, s \in Seq(Range(s)), NEW o \in Nat, NEW n \in Nat, NEW sz \in Nat, n <= sz,
           n > 0 => o + n <= Len(s), n = sz \/ o + n >= Len(s)
    PROVE  SubSeq(s, o + 1, o + n) =
               SubSeq(s, o + 1, IF o + sz < Len(s) THEN o + sz ELSE Len(s))
  <1> DEFINE last == IF o + sz < Len(s) THEN o + sz ELSE Len(s)
  <1>1. Len(s) \in Nat /\ last \in Int
    OBVIOUS
  <1>2. CASE n > 0
    <2>1. last = o + n
      BY <1>1, <1>2
    <2> QED BY <2>1
  <1>3. CASE n = 0
    <2>1. last < o + 1 /\ o + n < o + 1 /\ o + n \in Int /\ o + 1 \in Int
      BY <1>1, <1>3
    <2> HIDE DEF last
    <2>2. SubSeq(s, o + 1, o + n) = <<>> /\ SubSeq(s, o + 1, last) = <<>>
      BY ONLY <1>1, <2>1, SubSeqEmpty
    <2> QED BY <2>2 DEF last
  <1> QED BY <1>2, <1>3

LEMMA ReadsFile ==
    ASSUME ActionInv, read \/ read_fails PROVE ActionInv'
  <1> op = "read_file" /\ pc = "read" /\ op \in FileOp /\ op \notin OneCall /\ ~AtRest
    BY DEF read, read_fails, In, AtRest, FileOp, OneCall
  <1> DEFINE r == work.request
             s == asset.content
  <1>1. Truth(asset) = ReadTruth(r, asset)
    BY AtFiles, FileTruths
  <1>2. s \in Seq(Range(s)) /\ Len(s) \in Nat
    BY AtFiles
  <1>3. ASSUME Steady
        PROVE  /\ asset.kind = "file" /\ r.offset \in Nat /\ r.size \in Nat /\ work.sz \in Nat
               /\ work.sz = BytesWanted(r, Len(s)) /\ ~TooMuch(work.sz)
               /\ \E n \in Nat : /\ n <= work.sz
                                 /\ work.buff = SubSeq(s, r.offset + 1, r.offset + n)
                                 /\ n > 0 => r.offset + n <= Len(s)
                                 /\ Len(work.buff) = n
    <2>1. /\ asset.kind = "file" /\ r.offset \in Nat /\ r.size \in Nat
          /\ work.sz = BytesWanted(r, Len(s)) /\ ~TooMuch(work.sz)
      BY <1>3, AtFiles DEF FileKnows
    <2>2. work.sz \in Nat
      <3>1. work.sz \in Int /\ ~(work.sz < 0)
        BY <1>2, <2>1 DEF BytesWanted, TooMuch
      <3> QED BY <3>1
    <2>3. PICK n \in 0..work.sz : /\ work.buff = SubSeq(s, r.offset + 1, r.offset + n)
                                  /\ n > 0 => r.offset + n <= Len(s)
      BY <1>3, AtFiles DEF FileKnows
    <2>4. n \in Nat /\ n <= work.sz
      BY <2>2
    <2>5. Len(work.buff) = n
      BY <1>2, <2>1, <2>3, <2>4, BytesLength
    <2> QED BY <2>1, <2>2, <2>3, <2>4, <2>5
  <1>4. ASSUME NothingLeft, Succeeds(work.buff), Fine PROVE ActionInv'
    <2>1. ASSUME Steady PROVE Truth(asset) = set_response_for_success(work.buff)
      <3>1. PICK n \in Nat : /\ n <= work.sz
                             /\ work.buff = SubSeq(s, r.offset + 1, r.offset + n)
                             /\ n > 0 => r.offset + n <= Len(s)
                             /\ Len(work.buff) = n
        BY <1>3, <2>1
      <3>2. n = work.sz \/ r.offset + n >= Len(s)
        BY <1>4, <3>1 DEF NothingLeft, AtEnd
      <3>3. work.buff = SubSeq(s, r.offset + 1, IF r.offset + work.sz < Len(s)
                                                THEN r.offset + work.sz ELSE Len(s))
        <4>1. r.offset \in Nat /\ work.sz \in Nat
          BY <1>3, <2>1
        <4> HIDE DEF r, s
        <4> QED BY <1>2, <3>1, <3>2, <4>1, BytesEnd
      <3>4. work.buff = SubSeq(s, r.offset + 1, LastByte(r, asset))
        BY <1>3, <2>1, <3>3 DEF LastByte
      <3> QED BY <1>1, <1>3, <2>1, <3>4, ReadTruthOfBytes
    <2> QED BY <1>4, <2>1, LongAnswer DEF Succeeds
  <1>5. ASSUME Len(work.buff) < work.sz, Fine,
               NEW m \in 1..work.sz - Len(work.buff), r.offset + Len(work.buff) + m <= Len(s),
               Goes("read", [work EXCEPT !.buff = work.buff \o
                   SubSeq(s, r.offset + Len(work.buff) + 1, r.offset + Len(work.buff) + m)])
        PROVE  ActionInv'
    <2> DEFINE more == SubSeq(s, r.offset + Len(work.buff) + 1, r.offset + Len(work.buff) + m)
               w == [work EXCEPT !.buff = work.buff \o more]
    <2>1. DOMAIN w = DOMAIN work /\ w.request = r /\ w.sz = work.sz /\ w.buff = work.buff \o more
      BY AtFiles DEF FileFresh
    <2>2. pc' = "read" /\ op' = op /\ work' = w /\ asset' = asset
      BY <1>5 DEF Goes
    <2>3. ASSUME Steady PROVE FileKnows'
      <3>1. PICK n \in Nat : /\ n <= work.sz
                             /\ work.buff = SubSeq(s, r.offset + 1, r.offset + n)
                             /\ n > 0 => r.offset + n <= Len(s)
                             /\ Len(work.buff) = n
        BY <1>3, <2>3
      <3>2. m \in Nat /\ n + m \in 0..work.sz /\ r.offset \in Nat
        <4>1. r.offset \in Nat /\ work.sz \in Nat
          BY <1>3, <2>3
        <4>2. m \in 1..work.sz - n
          BY <1>5, <3>1
        <4> HIDE DEF r, s
        <4> QED BY ONLY <4>1, <4>2, n \in Nat
      <3>3. r.offset + n + m <= Len(s) /\ r.offset + (n + m) <= Len(s)
        <4>1. r.offset + n + m <= Len(s)
          BY <1>5, <3>1
        <4> QED BY <1>2, <3>2, <4>1
      <3>4. w.buff = SubSeq(s, r.offset + 1, r.offset + (n + m))
        <4>1. w.buff = SubSeq(s, r.offset + 1, r.offset + n) \o
                           SubSeq(s, r.offset + n + 1, r.offset + n + m)
          BY <2>1, <3>1
        <4> HIDE DEF w, r, s
        <4> DEFINE o == r.offset
        <4>2. o \in Nat /\ n \in Nat /\ m \in Nat /\ o + n + m <= Len(s)
          BY <3>2, <3>3
        <4>3. w.buff = SubSeq(s, o + 1, o + n) \o SubSeq(s, o + n + 1, o + n + m)
          BY <4>1
        <4> HIDE DEF o
        <4>4. w.buff = SubSeq(s, o + 1, o + (n + m))
          BY ONLY <1>2, <4>2, <4>3, BytesGrow
        <4> QED BY <4>4 DEF o
      <3>5. \E k \in 0..w.sz : /\ w.buff = SubSeq(s, r.offset + 1, r.offset + k)
                               /\ k > 0 => r.offset + k <= Len(s)
        BY <2>1, <3>2, <3>3, <3>4
      <3> HIDE DEF w
      <3> QED BY <1>3, <2>1, <2>2, <2>3, <3>5 DEF FileKnows
    <2>4. ListingInv' /\ ListedInv'
      BY <2>2 DEF ListingInv, ListedInv
    <2> QED BY <1>5, <2>1, <2>3, <2>4, FileGoes
  <1>6. CASE read
    BY <1>4, <1>5, <1>6 DEF read
  <1>7. CASE read_fails
    BY <1>7, ErrorAnswer, KnownErrors DEF read_fails
  <1> QED BY <1>6, <1>7

LEMMA ListsDirectory ==
    ASSUME ActionInv, open_dir \/ getdents PROVE ActionInv'
  <1> op = "list_dir" /\ op \in FileOp /\ ~AtRest
    BY DEF open_dir, getdents, In, AtRest, FileOp
  <1> USE AtFiles
  <1>1. CASE open_dir
    <2>1. pc = "open" /\ work.sz = 0
      BY <1>1 DEF open_dir, In, ActionInv, KnowledgeInv, ListingInv
    <2>2. ASSUME asset.kind = "dir", Fine,
                 Goes("list", [work EXCEPT !.handle = "directory", !.listing = asset.content])
          PROVE  ActionInv'
      <3> DEFINE w == [work EXCEPT !.handle = "directory", !.listing = asset.content]
      <3>1. /\ DOMAIN w = DOMAIN work /\ w.request = work.request
            /\ w.sz = work.sz /\ w.listing = asset.content
        BY DEF FileFresh
      <3>2. pc' = "list" /\ op' = op /\ work' = w /\ asset' = asset /\ seen' = seen
        BY <2>2 DEF Goes
      <3>3. asset \in AssetsOf(op)
        BY DEF ActionInv, KnowledgeInv, RunInv
      <3> HIDE DEF w
      <3>4. ListingInv' /\ FileKnows'
        BY <3>2 DEF ListingInv, FileKnows
      <3>5. ListedInv'
        BY <2>1, <2>2, <3>1, <3>2, <3>3 DEF ListedInv
      <3> QED BY <2>2, <3>1, <3>4, <3>5, FileGoes DEF w
    <2>3. ASSUME asset.kind # "dir", Fine, Returns("FAILED", AssetSays(asset.kind)) PROVE ActionInv'
      <3>1. Truth(asset) = AssetSays(asset.kind)
        <4>1. Truth(asset) = FileTruth(op, work.request, asset)
          OBVIOUS
        <4> QED BY ONLY op = "list_dir", <2>3, <4>1, FileTruths
      <3> QED BY <2>3, <3>1, TrueAnswer
    <2>4. CASE Trouble /\ Returns("FAILED", AssetSays("errno"))
      BY <2>4, ErrorAnswer
    <2> QED BY <1>1, <2>2, <2>3, <2>4 DEF open_dir
  <1>2. CASE getdents
    <2>1. pc = "list"
      BY <1>2 DEF getdents, In
    <2>2. PICK a \in seen : /\ a \in AssetsOf(op) /\ a.kind = "dir" /\ work.listing = a.content
                            /\ work.sz \in 0..Len(a.content)
      BY <2>1 DEF ActionInv, KnowledgeInv, ListedInv
    <2>3. a.content \in Seq(Range(a.content)) /\ Len(a.content) \in Nat
      BY <2>2, TypedData
    <2>4. ASSUME NEW n \in work.sz + 1..Len(work.listing), Goes("list", [work EXCEPT !.sz = n]), Fine
          PROVE  ActionInv'
      <3> DEFINE w == [work EXCEPT !.sz = n]
      <3>1. /\ DOMAIN w = DOMAIN work /\ w.request = work.request
            /\ w.sz = n /\ w.listing = work.listing
        BY DEF FileFresh
      <3>2. pc' = "list" /\ op' = op /\ work' = w /\ asset' = asset /\ seen' = seen
        BY <2>4 DEF Goes
      <3>3. n \in 0..Len(a.content)
        BY <2>2, <2>3, <2>4
      <3> HIDE DEF w
      <3>4. ListingInv' /\ FileKnows'
        BY <3>2 DEF ListingInv, FileKnows
      <3>5. ListedInv'
        BY <2>2, <3>1, <3>2, <3>3 DEF ListedInv
      <3> QED BY <2>4, <3>1, <3>4, <3>5, FileGoes DEF w
    <2>5. ASSUME work.sz = Len(work.listing), Fine,
                 Succeeds(Matching(dirents, work.request.pattern))
          PROVE  ActionInv'
      <3>1. dirents = Typed(a.content)
        BY <2>2, <2>3, <2>5, WholePrefix DEF dirents
      <3>2. Truth(a) = set_response_for_success(Matching(dirents, work.request.pattern))
        BY <2>2, <3>1, FileTruths
      <3> QED BY <2>2, <2>5, <3>2, TrueSuccess
    <2>6. CASE Trouble /\ Returns("FAILED", AssetSays("errno"))
      BY <2>6, ErrorAnswer
    <2> QED BY <1>2, <2>4, <2>5, <2>6 DEF getdents
  <1> QED BY <1>1, <1>2

LEMMA FilesAreRight == ActionInv /\ FileCalls => ActionInv'
  BY BeginsClient, SessionEnds, OpensFile, TellsVersion, AllocatesMemory, ReadsFile, ListsDirectory
     DEF FileCalls, FileStep

-----------------------------------------------------------------------------
(* An action begins: it knows nothing, or is refused.                      *)
LEMMA BeginsRight ==
    ASSUME NEW o \in RegistryOp \cup PermissionOp \cup FileOp, NEW runs, NEW fresh,
           NEW first \in {"connect", "range", "init"}, Begin(o, runs, first, fresh),
           o \in RegistryOp => first = "connect" /\ fresh = RegistryFresh,
           o \in PermissionOp => first = "connect" /\ fresh = PermissionFresh,
           o \in FileOp => /\ first \in {"range", "init"} /\ runs = {FALSE}
                           /\ first = "init" => o # "read_file"
                           /\ \E r \in Requests(o) : fresh = FileFresh(r)
    PROVE  ActionInv'
  <1>1. op' = o /\ asset' \in AssetsOf(o) /\ seen' = {asset'} /\ work' = fresh /\ again' \in runs
    BY DEF Begin
  <1>2. CASE pc' = "done"
    <2>1. PICK e \in {"SESSION_NOT_FOUND"} \cup Mandatory(o) :
              status' = "FAILED" /\ answer' = set_response_for_error(e)
      BY <1>2 DEF Begin
    <2>2. e \in Errors
      BY <2>1, KnownErrors, RemoteAssumption
    <2>3. answer'.code = e /\ answer'.group # "OK"
      BY <2>1, <2>2, NoErrorIsOK DEF set_response_for_error
    <2>4. Refused'
      BY <1>1, <2>1, <2>3 DEF Refused
    <2> QED BY <1>2, <2>4, RestKnows DEF ActionInv, AnswersAreTrue, SuccessIsTrue, Answered
  <1>3. CASE pc' = first
    <2>1. answer' = result_msg
      BY <1>3 DEF Begin
    <2>2. RunInv'
      <3>1. ASSUME o \in FileOp
            PROVE  /\ DOMAIN work' = DOMAIN FileFresh(None) /\ work'.request \in Requests(o)
                   /\ ~again'
        <4>1. PICK r \in Requests(o) : work' = FileFresh(r)
          BY <1>1, <3>1
        <4>2. DOMAIN FileFresh(r) = DOMAIN FileFresh(None) /\ FileFresh(r).request = r
          BY DEF FileFresh
        <4>3. ~again'
          BY <1>1, <3>1
        <4> QED BY <4>1, <4>2, <4>3
      <3> QED BY <1>1, <2>1, <3>1 DEF RunInv
    <2>3. ListingInv' /\ FileKnows'
      <3>1. o \in FileOp => work'.sz = 0 /\ work'.buff = <<>>
        BY <1>1 DEF FileFresh
      <3>2. o = "list_dir" => o \in FileOp
        BY DEF FileOp
      <3> QED BY <1>1, <1>3, <3>1, <3>2 DEF ListingInv, FileKnows
    <2>4. ListedInv'
      BY <1>3 DEF ListedInv
    <2>5. RegistryKnows'
      BY <1>1, <1>3 DEF RegistryKnows
    <2>6. PermissionKnows'
      BY <1>1, <1>3, FamiliesAreApart DEF PermissionKnows, PermissionFresh
    <2>7. pc' # "done"
      BY <1>3
    <2> QED BY <2>2, <2>3, <2>4, <2>5, <2>6, <2>7
            DEF ActionInv, KnowledgeInv, AnswersAreTrue, SuccessIsTrue, Answered
  <1> QED BY <1>2, <1>3 DEF Begin

(* The asset changes, and what is known of it is not steady any more.      *)
LEMMA ChangeIsRight == ASSUME ActionInv, Change PROVE ActionInv'
  <1>1. /\ ~AtRest /\ asset \in seen
        /\ asset' \in AssetsOf(op) \ seen /\ seen' = seen \cup {asset'}
        /\ UNCHANGED <<op, pc, again, work, answer, status, troubled>>
    BY DEF Change, ActionInv, KnowledgeInv, RunInv
  <1>2. ~Steady'
    BY <1>1 DEF Steady
  <1>3. RunInv'
    BY <1>1 DEF ActionInv, KnowledgeInv, RunInv, AtRest
  <1>4. ListingInv' /\ ListedInv'
    BY <1>1 DEF ActionInv, KnowledgeInv, ListingInv, ListedInv
  <1>5. pc' # "done"
    BY <1>1 DEF AtRest
  <1> QED BY <1>2, <1>3, <1>4, <1>5
          DEF ActionInv, KnowledgeInv, AnswersAreTrue, SuccessIsTrue, Answered

LEMMA StutterIsRight == ASSUME ActionInv, UNCHANGED vars PROVE ActionInv'
  <1>1. UNCHANGED answerVars
    BY DEF vars
  <1>2. RunInv' /\ ListingInv' /\ ListedInv'
    BY <1>1 DEF answerVars, ActionInv, KnowledgeInv, RunInv, AtRest, ListingInv, ListedInv
  <1>3. Steady' => Steady
    BY <1>1 DEF answerVars, Steady
  <1>4. Steady => RegistryKnows' /\ FileKnows'
    BY <1>1 DEF answerVars, ActionInv, KnowledgeInv, RegistryKnows, FileKnows
  <1>5. Steady => PermissionKnows'
    <2>1. \A n \in Nat : NamesUpTo(n)' = NamesUpTo(n)
      BY <1>1 DEF answerVars, NamesUpTo
    <2>2. op' = op /\ pc' = pc /\ work' = work /\ asset' = asset
      BY <1>1 DEF answerVars
    <2>3. Steady => PermissionKnows
      BY DEF ActionInv, KnowledgeInv
    <2> QED BY <2>1, <2>2, <2>3 DEF PermissionKnows
  <1>6. AnswersAreTrue' /\ SuccessIsTrue'
    <2>1. \A a : Truth(a)' = Truth(a)
      BY <1>1 DEF answerVars, Truth
    <2>2. Answered' = Answered
      BY <1>1 DEF answerVars, Answered, Refused
    <2> QED BY <1>1, <2>1, <2>2 DEF answerVars, ActionInv, AnswersAreTrue, SuccessIsTrue
  <1> QED BY <1>2, <1>3, <1>4, <1>5, <1>6 DEF ActionInv, KnowledgeInv

THEOREM ActionInvariance == Spec => []ActionInv
  <1>1. Init => ActionInv
    <2> SUFFICES ASSUME Init PROVE ActionInv
      OBVIOUS
    <2>1. pc = "idle"
      BY DEF Init, AnswersInit
    <2> QED BY <2>1 DEF ActionInv, KnowledgeInv, RunInv, AtRest, ListingInv, ListedInv, RegistryKnows,
                        PermissionKnows, FileKnows, AnswersAreTrue, SuccessIsTrue, Answered
  <1>2. ActionInv /\ [Next]_vars => ActionInv'
    <2> SUFFICES ASSUME ActionInv, [Next]_vars PROVE ActionInv'
      OBVIOUS
    <2>1. ASSUME NEW o \in RegistryOp, BeginRegistry(o) PROVE ActionInv'
      <3>1. o \notin PermissionOp /\ o \notin FileOp
        BY DEF RegistryOp, Listings, PermissionOp, DescriptorOp, LsaOp, FileOp
      <3> QED BY <2>1, <3>1, BeginsRight DEF BeginRegistry
    <2>2. ASSUME NEW o \in PermissionOp, BeginPermission(o) PROVE ActionInv'
      <3>1. o \notin RegistryOp /\ o \notin FileOp
        BY DEF RegistryOp, Listings, PermissionOp, DescriptorOp, LsaOp, FileOp
      <3>2. PICK runs : Begin(o, runs, "connect", PermissionFresh)
        BY <2>2 DEF BeginPermission
      <3> QED BY <3>1, <3>2, BeginsRight
    <2>3. ASSUME NEW o \in FileOp, BeginFile(o) PROVE ActionInv'
      <3>1. o \notin RegistryOp /\ o \notin PermissionOp
        BY DEF RegistryOp, Listings, PermissionOp, DescriptorOp, LsaOp, FileOp
      <3>2. PICK r \in Requests(o), first \in {"range", "init"} :
                /\ Begin(o, {FALSE}, first, FileFresh(r))
                /\ first = "init" => o # "read_file"
        BY <2>3 DEF BeginFile
      <3> QED BY <3>1, <3>2, BeginsRight
    <2>4. CASE RegistryNext
      BY <2>1, <2>4, RegistryIsRight DEF RegistryNext
    <2>5. CASE PermissionNext
      BY <2>2, <2>5, PermissionsAreRight DEF PermissionNext
    <2>6. CASE FileNext
      BY <2>3, <2>6, FilesAreRight DEF FileNext, FileCalls
    <2>7. CASE IsTaken
      <3>1. pc' = "idle"
        BY <2>7 DEF IsTaken, Idle
      <3> QED BY <3>1, RestKnows DEF ActionInv, AnswersAreTrue, SuccessIsTrue, Answered
    <2> QED BY <2>4, <2>5, <2>6, <2>7, ChangeIsRight, StutterIsRight DEF Next
  <1> QED BY <1>1, <1>2, PTL DEF Spec

(* An asset that stays as it is, asked with no call failing, is told of as *)
(* it is by every action: all its keys, values, names and entries, in      *)
(* their order, and of a file the bytes that were asked for.               *)
THEOREM AnswersTellTheTruth == Spec => []AnswersAreTrue
  BY ActionInvariance, PTL DEF ActionInv

(* Whatever fails and changes, a success of an action that answers from    *)
(* one call, and "False" above all, is what the asset was like at some     *)
(* time while the action ran.                                              *)
THEOREM SuccessTellsTheTruth == Spec => []SuccessIsTrue
  BY ActionInvariance, PTL DEF ActionInv

=============================================================================
