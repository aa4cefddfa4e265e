------------------------------ MODULE PeFiles ------------------------------
(***************************************************************************)
(* Executables as linkers lay them out, and what PeContext has to find in  *)
(* them.                                                                   *)
(***************************************************************************)
EXTENDS PeContext, FiniteSets, SequencesExt

-----------------------------------------------------------------------------
(* Resources.  A tree is a sequence of types, each with an id, what of it  *)
(* is named by a text instead (the type, or the first of its names and of  *)
(* its languages), and for each of its names the number of languages.  The *)
(* directory of the types is followed by those of the names, those of the  *)
(* languages, the entries of data, in the order of the tree or in the      *)
(* opposite one, and the texts.  Where a text is read as an entry it is a  *)
(* name, or if its first character is beyond U+7FFF, the offset of one:    *)
(* astray, which may be behind the end of the file.                        *)

Entitled == {{}, {"type"}, {"name", "language"}}

total(ns) == FoldLeft(LAMBDA a, b : a + b, 0, ns)

DirectoryBytes(n) == DirectorySize + n * EntrySize

AllNames(tree) == FlattenSeq([t \in 1..Len(tree) |-> tree[t].names])

Layout(tree, opposite, astray) ==
    LET names == AllNames(tree)
        types == 1..Len(tree)
        before(t) == total([u \in 1..t - 1 |-> Len(tree[u].names)])
        type_of(k) == CHOOSE t \in types : before(t) < k /\ k <= before(t) + Len(tree[t].names)
        name_dir(t) == DirectoryBytes(Len(tree))
                       + total([u \in 1..t - 1 |-> DirectoryBytes(Len(tree[u].names))])
        language_dir(k) == name_dir(Len(tree) + 1)
                           + total([u \in 1..k - 1 |-> DirectoryBytes(names[u])])
        data(k, y) == LET nth == total(SubSeq(names, 1, k - 1)) + y
                      IN language_dir(Len(names) + 1)
                         + DataEntrySize * (IF opposite THEN total(names) - nth ELSE nth - 1)
        text(t) == language_dir(Len(names) + 1) + DataEntrySize * total(names) + 8 * (t - 1)
        entry(level, t, i, id, to) ==
            LET named == level \in tree[t].named /\ i = 1
            IN [kind |-> "entry", is_string |-> named, name |-> IF named THEN text(t) ELSE id,
                is_directory |-> level # "language", to |-> to]
        dir(n) == [kind |-> "directory", entries |-> n]
        stored ==
            {<<0, dir(Len(tree))>>}
            \cup UNION {{<<EntryAt(0, t), entry("type", t, 1, tree[t].id, name_dir(t))>>,
                         <<name_dir(t), dir(Len(tree[t].names))>>,
                         <<text(t), [kind |-> "text", is_string |-> astray # 0, name |-> astray]>>}
                        \cup {<<EntryAt(name_dir(t), i),
                                entry("name", t, i, i, language_dir(before(t) + i))>> :
                                 i \in 1..Len(tree[t].names)} : t \in types}
            \cup UNION {{<<language_dir(k), dir(names[k])>>}
                        \cup {<<EntryAt(language_dir(k), y),
                                entry("language", type_of(k), y, y, data(k, y))>> : y \in 1..names[k]}
                        \cup {<<data(k, y), [kind |-> "data", data |-> <<k, y>>]>> :
                                 y \in 1..names[k]} : k \in 1..Len(names)}
        offsets == {8 * i : i \in 0..(text(Len(tree) + 1) + DataEntrySize) \div 8}
        bytes == [o \in offsets \ {s[1] : s \in stored} |-> [kind |-> "bytes"]]
    IN [o \in {s[1] : s \in stored} |-> (CHOOSE s \in stored : s[1] = o)[2]] @@ bytes

(* Whatever other resources a file has, its version is that of the first   *)
(* language of the first name of the type of versions.  It is not found    *)
(* only if a text that is read as an entry leads out of the file.          *)
FindsVersion(tree, opposite, astray) ==
    LET V == {t \in 1..Len(tree) :
                 tree[t].id = RT_VERSION /\ "type" \notin tree[t].named /\ tree[t].names # <<>>}
        first == CHOOSE t \in V : \A u \in V : t <= u
        found == FindVersion(Layout(tree, opposite, astray))
    IN \/ found = IF V = {} THEN <<>>
                  ELSE <<total([u \in 1..first - 1 |-> Len(tree[u].names)]) + 1, 1>>
       \/ astray = Nowhere /\ found = <<>>

-----------------------------------------------------------------------------
(* Texts.  A table is a sequence of [key, length of the key, length of the *)
(* value], lengths in characters; a version is the fixed part, the table   *)
(* and the block of the languages, which may come before or behind it.  A  *)
(* version without texts has no table.                                     *)

VarFileInfoLength == 68

RECURSIVE Starts(_, _)
Starts(table, o) ==
    IF table = <<>> THEN <<>>
    ELSE LET value == aligned(o + version_info_header_size + 2 * (table[1].key_length + 1))
             end == value + 2 * (table[1].value_length + 1)
         IN <<[at |-> o, value |-> value, end |-> end, k |-> table[1]]>>
            \o Starts(Tail(table), aligned(end))

(* The version of the file and the texts that are wanted are told, and no  *)
(* others, if the version has texts; without any nothing is told.          *)
VersionIsTold(table, has_texts, var_first, wanted) ==
    LET sfi == 92 + IF var_first THEN VarFileInfoLength ELSE 0
        S == Starts(table, sfi + 60)
        end == IF table = <<>> THEN sfi + 60 ELSE Last(S).end
        var == IF var_first THEN 92 ELSE aligned(end)
        size == IF var_first THEN end ELSE var + VarFileInfoLength
        block(length, value_length, name) ==
            [length |-> length, value_length |-> value_length, key |-> name]
        string(o) == {i \in 1..Len(S) : S[i].at = o}
        texts == IF has_texts THEN {sfi, sfi + 36} \cup {S[i].at : i \in 1..Len(S)} ELSE {}
        rec == [o \in texts \cup {var} |->
                  CASE o = var -> block(VarFileInfoLength, 0, "VarFileInfo")
                    [] o = sfi -> block(end - sfi, 0, "StringFileInfo")
                    [] o = sfi + 36 -> block(end - sfi - 36, 0, "table")
                    [] OTHER -> LET i == CHOOSE i \in string(o) : TRUE
                                IN block(S[i].end - o, S[i].k.value_length + 1, S[i].k.key)]
        text == [o \in {S[i].value : i \in 1..Len(S)} |->
                   CHOOSE i \in 1..Len(S) : S[i].value = o]
        dword == [o \in {40 + 8, 40 + 16} |-> IF o = 48 THEN "file version" ELSE "product version"]
    IN extract_info(rec, text, dword, size, wanted) =
           IF ~has_texts THEN {}
           ELSE {[key |-> S[i].k.key, value |-> i] :
                    i \in {j \in 1..Len(S) : S[j].k.key \in wanted \ {"FileVersion"}}}
                \cup {[key |-> "FileVersion", value |-> "file version"]}
=============================================================================
