------------------------------ MODULE AssetData ------------------------------
(***************************************************************************)
(* The paths of keys and shares that clients send, as the code takes them  *)
(* apart (registry_utils.cpp, the permission actions).  Paths are          *)
(* sequences of characters.                                                *)
(***************************************************************************)
EXTENDS Integers, Sequences, SequencesExt

Slash == "\\"

First(S) == CHOOSE k \in S : \A j \in S : k <= j
slashes(path) == {k \in 1..Len(path) : path[k] = Slash}

(* The parts between slashes that are not empty.                           *)
RECURSIVE parts(_)
parts(path) ==
    LET k == IF slashes(path) = {} THEN Len(path) + 1 ELSE First(slashes(path))
        first == IF k = 1 THEN <<>> ELSE <<SubSeq(path, 1, k - 1)>>
    IN IF k > Len(path) THEN first ELSE first \o parts(SubSeq(path, k + 1, Len(path)))

join(strs) == FoldLeft(LAMBDA a, b : a \o <<Slash>> \o b, Head(strs), Tail(strs))

(* With a single part there is no hive, and the names of hives do not      *)
(* include the empty one.  Of a path of slashes alone the code takes the   *)
(* first element of an empty vector.                                       *)
Undefined == [undefined |-> TRUE]
FaultKeepsEmpty(path) ==
    IF slashes(path) = {} THEN [hive |-> <<>>, subkey |-> path]
    ELSE LET k == First(slashes(path))
         IN [hive |-> SubSeq(path, 1, k - 1), subkey |-> SubSeq(path, k + 1, Len(path))]
split_hive_key(path) ==
    LET strs == parts(path)
    IN CASE strs = <<>> -> Undefined
         [] Len(strs) = 1 -> [hive |-> <<>>, subkey |-> strs[1]]
         [] OTHER -> [hive |-> strs[1], subkey |-> join(Tail(strs))]

(* A share and a path below it: what is before and behind the first slash. *)
split_share_path(full) ==
    IF slashes(full) = {} THEN [share |-> full, path |-> <<>>]
    ELSE LET k == First(slashes(full))
         IN [share |-> SubSeq(full, 1, k - 1), path |-> SubSeq(full, k + 1, Len(full))]

-----------------------------------------------------------------------------

(* However many slashes a client writes, a key has one hive and one path   *)
(* below it, and writing it with single slashes names the same key.        *)
KeysAreStandard(path) ==
    LET key == split_hive_key(path)
    IN key # Undefined /\ key.hive # <<>> =>
           /\ Slash \notin Range(key.hive)
           /\ key.subkey # <<>> /\ Slash \notin {key.subkey[1], Last(key.subkey)}
           /\ split_hive_key(key.hive \o <<Slash>> \o key.subkey) = key

(* A share and its path are the two sides of one slash of what was asked.  *)
SharesAreSplit(full) ==
    LET s == split_share_path(full)
    IN IF Slash \in Range(full) THEN s.share \o <<Slash>> \o s.path = full ELSE s.share = full
=============================================================================
