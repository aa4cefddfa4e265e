----------------------------- MODULE PeHeaders -----------------------------
(***************************************************************************)
(* How the headers of a remote executable are read (parse in               *)
(* backend/utils/pe_context.cpp), and what is looked up in them            *)
(* afterwards.  Each piece is mapped before it is looked at; what it says  *)
(* is anything, and is read from the file again whenever a piece that is   *)
(* mapped later overlaps it.  A piece is a record of offset and size.      *)
(***************************************************************************)
EXTENDS Integers, Sequences

CONSTANTS Size,         \* of the file, when it was opened
          Lfanew,       \* what a file may say of itself
          Directories, Sections, HeaderSize,
          Section,      \* headers of sections
          Address       \* of the loaded image

ASSUME HeadersAssumption ==
    /\ Size \in Nat
    /\ Lfanew \subseteq Nat /\ Directories \subseteq Nat
    /\ Sections \subseteq Nat /\ HeaderSize \subseteq Nat /\ Address \subseteq Nat
    /\ Section \subseteq [virtual_address : Nat, virtual_size : Nat, size_of_raw_data : Nat,
                          pointer_to_raw_data : Nat]

MAX_DIRECTORIES == 16
MAX_SECTIONS == 96

VARIABLES parsing,          \* what parse does next, "parsed", or the error that it has returned
          in_memory,        \* the pieces that map_chunk has said to be there
          accessed,         \* the piece that was looked at last
          e_lfanew, image,  \* image: PE32 or PE64
          num_directories, num_sections, sections_ptr,
          looked_up         \* the last conversion: what the sections said, rva and result

headersVars == <<parsing, in_memory, accessed, e_lfanew, image, num_directories, num_sections,
                 sections_ptr, looked_up>>

piece(offset, size) == [offset |-> offset, size |-> size]

Nothing == [sections |-> <<>>, rva |-> 0, ofs |-> 0]

HeadersInit ==
    /\ parsing = "dos_hdr" /\ in_memory = {} /\ accessed = piece(0, 0)
    /\ e_lfanew = 0 /\ image = "PE32"
    /\ num_directories = 0 /\ num_sections = 0 /\ sections_ptr = 0
    /\ looked_up = Nothing

coff_hdr == e_lfanew + 4
optional_hdr == coff_hdr + 20
OptionalHeaderSize(type) == IF type = "PE64" THEN 112 ELSE 96
directories_ptr == optional_hdr + OptionalHeaderSize(image)

-----------------------------------------------------------------------------
(* map_chunk: what is not in the file, or cannot be read, ends the parsing.*)
Maps(offset, size, next, error) ==
    \/ /\ offset + size <= Size
       /\ in_memory' = in_memory \cup {piece(offset, size)}
       /\ parsing' = next
    \/ /\ in_memory' = in_memory
       /\ parsing' = error

Stops(error) == parsing' = error /\ UNCHANGED in_memory

LooksAt(offset, size) == accessed' = piece(offset, size)

MapDosHeader ==
    /\ parsing = "dos_hdr"
    /\ Maps(0, 64, "e_magic", "unreadable")
    /\ UNCHANGED <<accessed, e_lfanew, image, num_directories, num_sections, sections_ptr, looked_up>>

ReadDosHeader ==
    /\ parsing = "e_magic" /\ LooksAt(0, 64)
    /\ \/ Stops("NOT_A_PE_FILE") /\ UNCHANGED e_lfanew
       \/ e_lfanew' \in Lfanew /\ Maps(e_lfanew', 4, "signature", "INVALID_LFANEW")
    /\ UNCHANGED <<image, num_directories, num_sections, sections_ptr, looked_up>>

ReadSignature ==
    /\ parsing = "signature" /\ LooksAt(e_lfanew, 4)
    /\ \/ Stops("INVALID_SIGNATURE")
       \/ Maps(coff_hdr, 20, "coff_hdr", "MISSING_COFF_HEADER")
    /\ UNCHANGED <<e_lfanew, image, num_directories, num_sections, sections_ptr, looked_up>>

ReadCoffHeader ==
    /\ parsing = "coff_hdr" /\ LooksAt(coff_hdr, 20)
    /\ num_sections' \in Sections
    /\ Maps(optional_hdr, 2, "type", "MISSING_OPTIONAL_HEADER")
    /\ UNCHANGED <<e_lfanew, image, num_directories, sections_ptr, looked_up>>

ReadType ==
    /\ parsing = "type" /\ LooksAt(optional_hdr, 2)
    /\ \/ Stops("UNSUPPORTED_IMAGE") /\ UNCHANGED image
       \/ /\ image' \in {"PE32", "PE64"}
          /\ Maps(optional_hdr, OptionalHeaderSize(image'), "optional_hdr", "MISSING_OPTIONAL_HEADER")
    /\ UNCHANGED <<e_lfanew, num_directories, num_sections, sections_ptr, looked_up>>

ReadOptionalHeader ==
    /\ parsing = "optional_hdr" /\ LooksAt(optional_hdr, OptionalHeaderSize(image))
    /\ num_directories' \in Directories
    /\ \/ num_directories' > MAX_DIRECTORIES /\ Stops("TOO_MANY_DIRECTORIES")
       \/ /\ num_directories' <= MAX_DIRECTORIES
          /\ num_sections > MAX_SECTIONS /\ Stops("TOO_MANY_SECTIONS")
       \/ /\ num_directories' <= MAX_DIRECTORIES /\ num_sections <= MAX_SECTIONS
          /\ Maps(directories_ptr, 8 * num_directories', "directories", "ALLOCATION_FAILURE")
    /\ UNCHANGED <<e_lfanew, image, num_sections, sections_ptr, looked_up>>

(* The size of the optional header is looked up only now.                  *)
ReadSections ==
    /\ parsing = "directories" /\ LooksAt(coff_hdr, 20)
    /\ \E size \in HeaderSize :
           /\ sections_ptr' = optional_hdr + size
           /\ Maps(sections_ptr', 40 * num_sections, "parsed", "ALLOCATION_FAILURE")
    /\ UNCHANGED <<e_lfanew, image, num_directories, num_sections, looked_up>>

-----------------------------------------------------------------------------
(* Fault: that there may be none is forgotten.                             *)
FaultNoNull(entry) == num_directories > 0 /\ entry > num_directories - 1
(* The number of the last directory is unsigned, and nothing is greater    *)
(* than that of 0 - 1.                                                     *)
NoDirectory(entry) == num_directories = 0 \/ entry > num_directories - 1

IMAGE_DIRECTORY_ENTRY_RESOURCE == 2

pe_directory_by_entry(entry) ==
    /\ parsing = "parsed" /\ ~NoDirectory(entry)
    /\ LooksAt(directories_ptr + 8 * entry, 8)
    /\ UNCHANGED <<parsing, in_memory, e_lfanew, image, num_directories, num_sections,
                   sections_ptr, looked_up>>

section_size(s) == IF s.virtual_size = 0 THEN s.size_of_raw_data ELSE s.virtual_size

(* Fault: the end of a section counts as in it.                            *)
FaultAtEnd(s, rva) == s.virtual_address <= rva /\ rva <= s.virtual_address + section_size(s)
Around(s, rva) == s.virtual_address <= rva /\ rva < s.virtual_address + section_size(s)

InFile(s, rva) == rva - s.virtual_address + s.pointer_to_raw_data

(* The result, and how many headers of sections were looked at for it.     *)
Converts(sections, rva, ofs, visited) ==
    /\ looked_up' = [sections |-> sections, rva |-> rva, ofs |-> ofs]
    /\ LooksAt(sections_ptr, 40 * visited)

(* Where in the file an address of the loaded image comes from: by the     *)
(* first section around it, or the only one; without any it is itself.     *)
pe_rva2ofs(sections, rva) ==
    /\ parsing = "parsed" /\ Len(sections) = num_sections
    /\ \/ (rva = 0 \/ num_sections = 0) /\ Converts(sections, rva, 0, 0)
       \/ /\ rva # 0
          /\ \E i \in 1..num_sections :
                 /\ Around(sections[i], rva) /\ \A j \in 1..i - 1 : ~Around(sections[j], rva)
                 /\ Converts(sections, rva, InFile(sections[i], rva), i)
       \/ /\ rva # 0 /\ num_sections > 0
          /\ \A i \in 1..num_sections : ~Around(sections[i], rva)
          /\ Converts(sections, rva, IF num_sections = 1 THEN InFile(sections[1], rva) ELSE rva,
                      num_sections)
    /\ UNCHANGED <<parsing, in_memory, e_lfanew, image, num_directories, num_sections, sections_ptr>>

HeadersNext ==
    \/ MapDosHeader \/ ReadDosHeader \/ ReadSignature \/ ReadCoffHeader \/ ReadType
    \/ ReadOptionalHeader \/ ReadSections
    \/ pe_directory_by_entry(IMAGE_DIRECTORY_ENTRY_RESOURCE)
    \/ parsing = "parsed"
       /\ \E sections \in [1..num_sections -> Section], rva \in Address : pe_rva2ofs(sections, rva)

HeadersSpec == HeadersInit /\ [][HeadersNext]_headersVars

-----------------------------------------------------------------------------
(* A piece in memory: one that was mapped, and nothing of it is behind the *)
(* end of the file.                                                        *)
InMemory(p) ==
    p.size = 0 \/ \E m \in in_memory : /\ m.offset <= p.offset
                                       /\ p.offset + p.size <= m.offset + m.size
                                       /\ m.offset + m.size <= Size

(* Positions of a section that the file has bytes for.                     *)
BytesInFile(s) ==
    LET n == section_size(s) IN IF n < s.size_of_raw_data THEN n ELSE s.size_of_raw_data

Apart(sections) ==
    \A i, j \in 1..Len(sections) :
        i < j => sections[i].virtual_address + section_size(sections[i])
                 <= sections[j].virtual_address

(* However few directories and sections a file says that it has, only what *)
(* is in memory is looked at; and an address that a section has bytes in   *)
(* the file for comes from there, when sections do not overlap.            *)
AddressesAreRight ==
    /\ InMemory(accessed)
    /\ Apart(looked_up.sections) /\ looked_up.rva # 0 =>
           \A i \in 1..Len(looked_up.sections) :
               LET s == looked_up.sections[i]
                   k == looked_up.rva - s.virtual_address
               IN k \in 0..BytesInFile(s) - 1 => looked_up.ofs = s.pointer_to_raw_data + k
=============================================================================
