----------------------------- MODULE PeContext -----------------------------
(***************************************************************************)
(* How get_file_info finds the version of an executable                    *)
(* (backend/utils/pe_context.cpp), once its headers have been read         *)
(* (PeHeaders).  The resource section is a function from offsets to what   *)
(* is stored there: directories, their entries and the entries of data.    *)
(* Offsets and sizes are those of the format, in bytes.                    *)
(***************************************************************************)
EXTENDS Integers, Sequences

-----------------------------------------------------------------------------
(* The resource directory: three levels, types, names and languages.       *)
(* mem[o] is what is stored at offset o of it.                             *)

RT_VERSION == 16
DirectorySize == 16
EntrySize == 8
DataEntrySize == 16

ErrorNode == [root |-> -1, at |-> -1]

(* What the code reads as an entry where something else is stored: the     *)
(* address of some data, whose highest bit is not set, is a name; a text   *)
(* may be anything.                                                        *)
Entry(mem, o) ==
    IF mem[o].kind \in {"entry", "text"} THEN mem[o]
    ELSE [name |-> 0, is_string |-> FALSE, to |-> 0]

EntryAt(dir, i) == dir + DirectorySize + (i - 1) * EntrySize

IsMapped(mem, o) == o \in DOMAIN mem
EntryIsMapped(mem, o) ==
    IsMapped(mem, o) /\ (Entry(mem, o).is_string => IsMapped(mem, Entry(mem, o).name))

(* The first entry of a directory of languages says where its data is; for *)
(* the ones after it the code reads on behind the data before, or at the   *)
(* text that what is there, read as an entry, has for its name.            *)
Language(mem, y, offset, root) ==
    LET entry == Entry(mem, offset)
        at == IF y = 1 THEN entry.to ELSE IF entry.is_string THEN entry.name ELSE offset
    IN IF EntryIsMapped(mem, offset) /\ IsMapped(mem, at) THEN [root |-> root, at |-> at]
       ELSE ErrorNode

RECURSIVE Languages(_, _, _, _, _)
Languages(mem, dir, y, offset, root) ==
    IF y > mem[dir].entries THEN <<>>
    ELSE LET node == Language(mem, y, offset, root)
         IN IF node = ErrorNode THEN <<ErrorNode>>
            ELSE <<node>> \o Languages(mem, dir, y + 1, node.at + DataEntrySize, root)

(* Fault: the entry of the name is taken for that of the type.             *)
RECURSIVE FaultNameIsRoot(_, _, _, _)
FaultNameIsRoot(mem, dir, i, root) ==
    LET at == EntryAt(dir, i)
        to == Entry(mem, at).to
    IN IF i > mem[dir].entries THEN <<>>
       ELSE Languages(mem, to, 1, to + DirectorySize, at) \o FaultNameIsRoot(mem, dir, i + 1, root)
(* The nodes of data below the names of a type, whose entry is the root.   *)
RECURSIVE Names(_, _, _, _)
Names(mem, dir, i, root) ==
    LET at == EntryAt(dir, i)
        to == Entry(mem, at).to
    IN CASE i > mem[dir].entries -> <<>>
         [] i <= mem[dir].entries /\ ~(EntryIsMapped(mem, at) /\ IsMapped(mem, to)) -> <<ErrorNode>>
         [] OTHER -> Languages(mem, to, 1, to + DirectorySize, root) \o Names(mem, dir, i + 1, root)

RECURSIVE Types(_, _)
Types(mem, i) ==
    LET at == EntryAt(0, i)
        to == Entry(mem, at).to
    IN CASE i > mem[0].entries -> <<>>
         [] i <= mem[0].entries /\ ~EntryIsMapped(mem, at) -> <<ErrorNode>>
         [] i <= mem[0].entries /\ EntryIsMapped(mem, at) /\ ~mem[at].is_directory ->
                Types(mem, i + 1)
         [] OTHER -> (IF IsMapped(mem, to) THEN Names(mem, to, 1, at) ELSE <<ErrorNode>>)
                     \o Types(mem, i + 1)

(* A node that cannot be mapped discards all of them.                      *)
discoveryNodesPeres(mem) ==
    LET nodes == Types(mem, 1)
    IN IF \E k \in 1..Len(nodes) : nodes[k] = ErrorNode THEN <<>> ELSE nodes

(* The first data whose type is that of versions.                          *)
FindVersion(mem) ==
    LET nodes == discoveryNodesPeres(mem)
        found == {k \in 1..Len(nodes) : mem[nodes[k].root].name = RT_VERSION}
    IN IF found = {} THEN <<>> ELSE mem[nodes[CHOOSE k \in found : \A j \in found : k <= j].at].data

-----------------------------------------------------------------------------
(* The version resource.  rec[o] is the header of the block at offset o,   *)
(* text[o] the text that begins there, dword[o] a number.                  *)

header_size == 32
fixed_info_size == 52
string_file_version_len == 28
string_table_key_len == 16
version_info_header_size == 6

FaultNoPadding(o) == o
aligned(o) == o + ((4 - (o % 4)) % 4)

wLength(rec, o) == IF o \in DOMAIN rec THEN rec[o].length ELSE 0
key(rec, o) == IF o \in DOMAIN rec THEN rec[o].key ELSE "other"

(* The search for the texts has no bound: where there are none it leaves   *)
(* the resource behind it and reads on, until it happens on such a key or  *)
(* the process dies.                                                       *)
Nowhere == -1

RECURSIVE StringFileInfo(_, _)
StringFileInfo(rec, o) ==
    CASE key(rec, o) = "StringFileInfo" -> o
      [] key(rec, o) # "StringFileInfo" /\ (\A b \in DOMAIN rec : b < o) -> Nowhere
      [] OTHER -> StringFileInfo(rec, IF wLength(rec, o) = 0 THEN o + 2 ELSE o + wLength(rec, o))

RECURSIVE Strings(_, _, _, _, _)
Strings(rec, text, o, end, wanted) ==
    LET vend == o + wLength(rec, o)
        vstart == vend - 2 * rec[o].value_length
        value == vstart - ((4 - (vstart % 4)) % 4)
        this == IF key(rec, o) \in wanted
                THEN {[key |-> key(rec, o),
                       value |-> IF value \in DOMAIN text THEN text[value] ELSE "other"]}
                ELSE {}
    IN IF wLength(rec, o) = 0 \/ vend > end THEN {}
       ELSE this \cup Strings(rec, text, aligned(vend), end, wanted)

(* The version of the file is taken from the fixed part, 16 bytes behind   *)
(* the place where the code begins to count it, whatever the texts say.    *)
extract_info(rec, text, dword, size, wanted) ==
    LET sfi == StringFileInfo(rec, header_size + fixed_info_size + 8)
        table == aligned(sfi + version_info_header_size + string_file_version_len)
        first == aligned(table + version_info_header_size + string_table_key_len)
        strings == Strings(rec, text, first, header_size + size, wanted)
    IN IF sfi = Nowhere THEN {}
       ELSE {s \in strings : s.key # "FileVersion"}
            \cup {[key |-> "FileVersion", value |-> dword[header_size + 16]]}
=============================================================================
