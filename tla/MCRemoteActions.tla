-------------------------- MODULE MCRemoteActions --------------------------
(* An asset with a key, a share, a descriptor, a file and a directory, each *)
(* in a few shapes.                                                         *)
EXTENDS RemoteActions

MCOp == RegistryOp \cup PermissionOp \cup FileOp

Value(n, t) == [name |-> n, text |-> t]
Keys == {[present |-> FALSE, subkeys |-> <<>>, values |-> <<>>]} \cup
        [present : {TRUE}, subkeys : {<<>>, <<"k">>, <<"k", "l">>},
         values : {<<>>, <<Value("v", "text")>>, <<Value("w", "text"), Value("v", "")>>}]

MCNameOf == [s \in {"S-1", "S-2"} |-> IF s = "S-1" THEN "Alice" ELSE "Users"]
Descriptors == [present : BOOLEAN, content : {<<"S-1">>, <<"S-1", "S-2", "S-1">>}]
Shares == [present : {TRUE}, content : {<<>>, <<"C$", "ADMIN$">>}]

Entry(n, t) == [name |-> n, type |-> t]
Bytes == <<Entry("x", "BYTE"), Entry("y", "BYTE"), Entry("z", "BYTE")>>   \* one type for TLC
Files == [kind : {"ENOENT", "EACCES"}, content : {<<>>}, version : {None}] \cup
         [kind : {"file"}, content : {<<>>, SubSeq(Bytes, 2, 2), Bytes}, version : {None}]
Versions == Files \cup [kind : {"file"}, content : {SubSeq(Bytes, 2, 2)}, version : {"1.2", Undefined}]
Directories == [kind : {"ENOENT"}, content : {<<>>}, version : {None}] \cup
               [kind : {"dir"}, version : {None},
                content : {<<>>, <<Entry("a", "DIR"), Entry("b", "LINK"), Entry("c", "FILE")>>}]

MCAssetsOf(o) ==
    CASE o \in RegistryOp -> Keys
      [] o \in DescriptorOp -> Descriptors
      [] o = "enumerate_shares" -> Shares
      [] o \in {"file_exists", "read_file"} -> Files
      [] o = "get_file_info" -> Versions
      [] o = "list_dir" -> Directories

MCMandatory(o) ==
    CASE o = "value_exists" -> {"KEY_AND_VALUE_ARE_MANDATORY"}
      [] o \in (RegistryOp \ {"value_exists"}) \cup {"registry_permissions"} -> {"KEY_IS_MANDATORY"}
      [] o = "ntfs_permissions" -> {"PATH_IS_MANDATORY", "SHARE_IS_MISSING_IN_KEY"}
      [] o = "share_permissions" -> {"SHARE_NAME_IS_MANDATORY"}
      [] o \in FileOp -> {"PATH_IS_MANDATORY"}
      [] o = "enumerate_shares" -> {}

MCRequests(o) ==
    CASE o = "read_file" -> [offset : {NotANumber, -1, 0, 1, 3, 4}, size : {NotANumber, -1, 0, 2, 9},
                             pattern : {None}]
      [] o = "list_dir" -> [offset : {0}, size : {0}, pattern : {None, {"a", "b"}, {"c"}}]
      [] OTHER -> {[offset |-> 0, size |-> 0, pattern |-> None]}
=============================================================================
