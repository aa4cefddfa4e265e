---------------------------- MODULE FileActions ----------------------------
(***************************************************************************)
(* The actions over an smb_client (services/samba_based/smb), a client of  *)
(* libsmbclient.  The library is used through its "current" context: the   *)
(* client makes one of its own the current one and its destructor puts     *)
(* back the one before, closes what is open in its own and frees it; the   *)
(* library frees a context only when nothing is open in it.                *)
(***************************************************************************)
EXTENDS ActionAnswers

CONSTANTS Requests(_),  \* what is asked for: [offset, size, pattern or None]
          MaxMemory     \* more than that cannot be allocated

VARIABLES current,      \* the library's context: "none", "default" or a client's "own"
          leaked        \* what is open in contexts that nobody has any more

libraryVars == <<current, leaked>>

FileOp == {"file_exists", "get_file_info", "list_dir", "read_file"}

NotANumber == -2        \* of an offset or a size; -1: any negative one
Undefined == "undefined"    \* a version that is no text

(* session: the session of the asset is in the cache; old: old_; handle:   *)
(* remote_fd_ or dh1; sz: bytes to read, or entries that were read;        *)
(* listing: what the library has of the directory.                         *)
FileFresh(r) == [request |-> r, session |-> TRUE, old |-> "none", handle |-> None,
                 file_size |-> 0, sz |-> 0, buff |-> <<>>, listing |-> <<>>]

FileInit == current = "none" /\ leaked = {}

BeginFile(o) ==
    /\ \E r \in Requests(o) :
           Begin(o, {FALSE}, IF o = "read_file" THEN "range" ELSE "init", FileFresh(r))
    /\ UNCHANGED libraryVars

(* The session is closed or expires while the action runs.                 *)
session_ends ==
    /\ op \in FileOp /\ ~AtRest /\ work.session
    /\ Goes(pc, [work EXCEPT !.session = FALSE]) /\ Fine
    /\ UNCHANGED libraryVars

-----------------------------------------------------------------------------
(* ~smb_client, on every way out of an action: smbc_close for a file, then *)
(* the context.  Nothing closes a directory here.                          *)

(* Fault: the context is put back before the file is closed, so that the   *)
(* library looks for the file in the wrong one.                            *)
FaultClosesLast(handle) ==
    /\ current' = work.old
    /\ leaked' = IF handle = None THEN leaked ELSE leaked \cup {handle}
Destructs(handle) ==
    /\ current' = work.old
    /\ leaked' = IF handle = "directory" THEN leaked \cup {handle} ELSE leaked

LibraryDies == Dies /\ current' = "none" /\ leaked' = {}

Unwinds == Throws /\ Destructs(work.handle)

-----------------------------------------------------------------------------
(* The order of the checks in SMB_Read_File::act.                          *)
range ==
    /\ In({"read_file"}, "range")
    /\ LET r == work.request
       IN CASE r.offset = NotANumber -> Throws
            [] r.offset = -1 -> Fails("BAD_PARAMETER")
            [] r.offset >= 0 /\ r.size = NotANumber -> Throws
            [] r.offset >= 0 /\ r.size = -1 -> Fails("BAD_PARAMETER")
            [] OTHER -> Goes("init", work)
    /\ Fine
    /\ UNCHANGED libraryVars

(* smbc_init makes the default context once.  When it cannot, old_ has no  *)
(* value, and the destructor hands it to the library.  Without a context   *)
(* of its own the client works in the default one.                         *)
init ==
    /\ In(FileOp, "init")
    /\ \/ /\ current = "none" /\ Trouble
          /\ \/ Returns("FAILED", AssetSays("-1")) /\ UNCHANGED libraryVars
             \/ LibraryDies
       \/ /\ current' \in {"own", "default"}
          /\ Goes("open", [work EXCEPT !.old = IF current = "none" THEN "default" ELSE current])
          /\ UNCHANGED leaked /\ Fine

(* A new context logs on: smbc_auth_fn uses the session of the remote      *)
(* without looking whether there is one.  The default context may have     *)
(* logged on before.                                                       *)
smbc_auth_fn ==
    /\ In(FileOp, "open")
    /\ ~work.session
    /\ LibraryDies /\ Trouble

LoggedOn == work.session \/ current = "default"

-----------------------------------------------------------------------------
(* open_file                                                               *)

OpenFailed(errno) ==
    IF op = "file_exists" /\ errno = "ENOENT" THEN Succeeds("False")
    ELSE Returns("FAILED", AssetSays(errno))

Opened ==
    IF op = "file_exists" THEN Succeeds("True") /\ Destructs("file")
    ELSE /\ Goes(IF op = "read_file" THEN "allocate" ELSE "version",
                 [work EXCEPT !.handle = "file", !.file_size = Len(asset.content)])
         /\ UNCHANGED libraryVars

open_file ==
    /\ In(FileOp \ {"list_dir"}, "open")
    /\ LoggedOn
    /\ \/ asset.kind = "file" /\ Opened /\ Fine
       \/ asset.kind # "file" /\ OpenFailed(asset.kind) /\ Destructs(None) /\ Fine
       \/ OpenFailed("errno") /\ Destructs(None) /\ Trouble
       \/ asset.kind = "file" /\ OpenFailed("-1") /\ Destructs("file") /\ Trouble

(* The version is told when it can be found; a conversion may throw.       *)
get_file_info ==
    /\ In({"get_file_info"}, "version")
    /\ \/ /\ asset.kind = "file" /\ Fine
          /\ IF asset.version = Undefined THEN Unwinds
             ELSE Succeeds(<<work.file_size, asset.version>>) /\ Destructs("file")
       \/ Succeeds(<<work.file_size, None>>) /\ Destructs("file") /\ Trouble

-----------------------------------------------------------------------------
(* read_file.  Without a size it is the rest of the file, which is less    *)
(* than nothing, and that is very much, behind its end.                    *)

BytesWanted(r, file_size) == IF r.size = 0 THEN file_size - r.offset ELSE r.size
TooMuch(sz) == sz < 0 \/ sz > MaxMemory

allocate ==
    /\ In({"read_file"}, "allocate")
    /\ LET sz == BytesWanted(work.request, work.file_size)
       IN IF TooMuch(sz) THEN Unwinds
          ELSE Goes("read", [work EXCEPT !.sz = sz]) /\ UNCHANGED libraryVars
    /\ Fine

AtEnd == work.request.offset + Len(work.buff) >= Len(asset.content)

(* Fault: an empty read is no end.                                         *)
FaultReadsOn == Len(work.buff) = work.sz
NothingLeft == Len(work.buff) = work.sz \/ AtEnd

read ==
    /\ In({"read_file"}, "read")
    /\ \/ NothingLeft /\ Succeeds(work.buff) /\ Destructs("file") /\ Fine
       \/ /\ Len(work.buff) < work.sz
          /\ LET at == work.request.offset + Len(work.buff)
             IN \E n \in 1..work.sz - Len(work.buff) :
                    /\ at + n <= Len(asset.content)
                    /\ Goes("read", [work EXCEPT !.buff = @ \o SubSeq(asset.content, at + 1, at + n)])
          /\ UNCHANGED libraryVars /\ Fine

read_fails ==
    /\ In({"read_file"}, "read")
    /\ Fails("READ_FILE_FAILED") /\ Destructs("file") /\ Trouble

-----------------------------------------------------------------------------
(* list_dir: directories and files only; each block of entries is a call.  *)

open_dir ==
    /\ In({"list_dir"}, "open")
    /\ LoggedOn
    /\ \/ /\ asset.kind = "dir" /\ Fine
          /\ Goes("list", [work EXCEPT !.handle = "directory", !.listing = asset.content])
          /\ UNCHANGED libraryVars
       \/ /\ asset.kind # "dir" /\ Fine
          /\ Returns("FAILED", AssetSays(asset.kind)) /\ Destructs(None)
       \/ Returns("FAILED", AssetSays("errno")) /\ Destructs(None) /\ Trouble

Typed(entries) == SelectSeq(entries, LAMBDA e : e.type \in {"DIR", "FILE"})
Matching(entries, pattern) ==
    IF pattern = None THEN entries ELSE SelectSeq(entries, LAMBDA e : e.name \in pattern)

(* What list_dir has collected of the entries it has read.                 *)
dirents == Typed(SubSeq(work.listing, 1, work.sz))

getdents ==
    /\ In({"list_dir"}, "list")
    /\ \/ /\ \E n \in work.sz + 1..Len(work.listing) : Goes("list", [work EXCEPT !.sz = n])
          /\ UNCHANGED libraryVars /\ Fine
       \/ /\ work.sz = Len(work.listing) /\ Fine
          /\ Succeeds(Matching(dirents, work.request.pattern)) /\ Destructs(None)
       \/ Returns("FAILED", AssetSays("errno")) /\ Destructs("directory") /\ Trouble

FileStep ==
    \/ range \/ init \/ smbc_auth_fn \/ open_file \/ get_file_info
    \/ allocate \/ read \/ open_dir \/ getdents

FileNext == (\E o \in FileOp : BeginFile(o)) \/ FileStep \/ read_fails \/ session_ends

-----------------------------------------------------------------------------
(* What an action that is asked r says of an asset a that stays as it is,  *)
(* when no call fails.                                                     *)
Thrown == set_response_for_error("MALFORMED_MESSAGE")

ReadTruth(r, a) ==
    LET sz == BytesWanted(r, Len(a.content))
        end == r.offset + sz
    IN CASE r.offset = NotANumber -> Thrown
         [] r.offset # NotANumber /\ (r.offset < 0 \/ r.size = -1) ->
                set_response_for_error("BAD_PARAMETER")
         [] r.offset >= 0 /\ r.size = NotANumber -> Thrown
         [] r.offset >= 0 /\ r.size >= 0 /\ a.kind # "file" -> AssetSays(a.kind)
         [] r.offset >= 0 /\ r.size >= 0 /\ a.kind = "file" ->
                IF TooMuch(sz) THEN Thrown
                ELSE set_response_for_success(
                         SubSeq(a.content, r.offset + 1,
                                IF end < Len(a.content) THEN end ELSE Len(a.content)))

FileTruth(o, r, a) ==
    CASE o = "read_file" -> ReadTruth(r, a)
      [] o = "file_exists" /\ a.kind \in {"file", "ENOENT"} -> Says(a.kind = "file")
      [] o = "list_dir" /\ a.kind = "dir" ->
             set_response_for_success(Matching(Typed(a.content), r.pattern))
      [] o = "get_file_info" /\ a.kind = "file" ->
             IF a.version = Undefined THEN Thrown
             ELSE set_response_for_success(<<Len(a.content), a.version>>)
      [] OTHER -> AssetSays(a.kind)
=============================================================================
