------------------------- MODULE SecurityDescriptor -------------------------
(***************************************************************************)
(* How the access mask of an entry of a security descriptor is put into    *)
(* words (get_access_mask in samba_based/utils/                            *)
(* security_descriptor_utils.cpp).  A mask is the set of the bits that are *)
(* set, and a right, which the code has a word for, is the mask it stands  *)
(* for.  Different rights have different words.                            *)
(***************************************************************************)
EXTENDS Integers

CONSTANT AccessMask     \* the masks that entries have

ASSUME AccessMaskAssumption == AccessMask \subseteq SUBSET (0..31)

Modify == 0..5 \cup {7, 8, 16, 17}
Read == {0, 3, 7, 17}
Write == {1, 2, 4, 8}
Read_And_Execute == {0, 3, 5, 7, 17}
Full_Control == 0..8 \cup 16..20
Reg_Full_Control == 0..5 \cup 16..19
Reg_Read_And_Execute == {0, 3, 4, 17}

(* SHARE_* and FILE_GENERIC_* of samba; a generic right is one bit.        *)
SHARE_ALL_ACCESS == Full_Control
SHARE_READ_ONLY == {0, 3, 5, 7, 17, 20}
GENERIC == 28..31
generic_to_file_generic ==
    [g \in GENERIC |-> CASE g = 28 -> Full_Control
                         [] g = 29 -> {5, 7, 17, 20}
                         [] g = 30 -> {1, 2, 4, 8, 17, 20}
                         [] g = 31 -> {0, 3, 7, 17, 20}]

OneBit(bits) == {{b} : b \in bits}

entity_type == {"NTFS_FILE", "NTFS_DIR", "REGISTRY", "SHARE"}
perm_dir ==
    [et \in entity_type |->
       CASE et = "NTFS_FILE" -> {Full_Control, Modify, Read_And_Execute, Read, Write}
                                \cup OneBit(0..8 \ {6})
         [] et = "NTFS_DIR" -> {Full_Control, Modify, Read_And_Execute, Read, Write}
                               \cup OneBit(0..8)
         [] et = "REGISTRY" -> {Reg_Full_Control, Reg_Read_And_Execute} \cup OneBit(0..5)
         [] et = "SHARE" -> {SHARE_ALL_ACCESS, SHARE_READ_ONLY, {2}}]
STD == OneBit(16..20)

VARIABLES et,       \* what the entry is of
          mask,
          flags,    \* orig_mask: what of the mask no word has been said for
          cont,     \* the rights of perm_dir[et] that the loop has yet to come to
          said,     \* the rights whose words are in the answer
          returned

maskVars == <<et, mask, flags, cont, said, returned>>

AccessMaskInit ==
    /\ et \in entity_type /\ mask \in AccessMask
    /\ flags = mask /\ cont = perm_dir[et]
    /\ said = {} /\ returned = FALSE

-----------------------------------------------------------------------------
FaultIsLess(a, b) == \E i \in b \ a : \A j \in a \ b : j < i
(* std::greater<uint32_t>: the highest bit in which they differ decides.   *)
IsGreater(a, b) == \E i \in a \ b : \A j \in b \ a : j < i

(* The one that a loop over the map comes to next.                         *)
First(rights) == {e \in rights : \A r \in rights \ {e} : IsGreater(e, r)}

FaultAnyBit(bits, e) == e \cap bits # {}
Includes(bits, e) == e \subseteq bits

(* A right that is found takes its bits out of the flags.                  *)
flags_vector(e) ==
    /\ cont' = cont \ {e}
    /\ \/ /\ Includes(flags, e)
          /\ said' = said \cup {e} /\ flags' = flags \ e
       \/ ~Includes(flags, e) /\ UNCHANGED <<said, flags>>
    /\ UNCHANGED <<et, mask, returned>>

new_mask(bits) == UNION {generic_to_file_generic[g] : g \in bits \cap GENERIC}

(* What is left is looked up among the standard rights, and once more with *)
(* what its generic rights mean for a file, of which only the standard     *)
(* rights are looked up.  A mask that none of this has a word for is       *)
(* written as a number.                                                    *)
get_access_mask ==
    /\ cont = {} /\ ~returned
    /\ LET std(bits) == {e \in STD : Includes(bits, e)}
           words == said \cup std(flags) \cup std(new_mask(flags))
       IN said' = IF words = {} THEN {flags} ELSE words
    /\ returned' = TRUE
    /\ UNCHANGED <<et, mask, flags, cont>>

AccessMaskNext == (\E e \in First(cont) : flags_vector(e)) \/ get_access_mask

AccessMaskSpec == AccessMaskInit /\ [][AccessMaskNext]_maskVars

-----------------------------------------------------------------------------
Granted == mask \cup new_mask(mask)

(* Nobody is said to have a right that the mask does not grant; and one    *)
(* that only its generic rights grant is said if it is a standard one.     *)
Honest == \A e \in said : e \subseteq mask \/ (e \in STD /\ e \subseteq Granted)

(* A right that is granted is said, by its own word or by that of a right  *)
(* that includes it.                                                       *)
IsSaid(e) == \E r \in said : e \subseteq r

(* get_access_mask says every right whose own bits the mask has, although  *)
(* a word that is found leaves less for those after it: a wider right is   *)
(* looked for before its parts.  Of what a generic right of the mask       *)
(* stands for it says the standard rights and no other: that GENERIC_READ  *)
(* grants FILE_READ_DATA is not told.                                      *)
RightsAreTold ==
    returned =>
        /\ Honest
        /\ \A e \in perm_dir[et] : e \subseteq mask => IsSaid(e)
        /\ \A e \in STD : e \subseteq Granted => IsSaid(e)
=============================================================================
