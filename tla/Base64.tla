------------------------------- MODULE Base64 -------------------------------
(***************************************************************************)
(* How read_file writes what it has read of a file as text                 *)
(* (base64_encode in samba_based/smb/actions/read_file.cpp).  A letter is  *)
(* its number in the alphabet; three bytes at a time are collected in      *)
(* bitsContainer, whose 32 bits are more than that takes.                  *)
(***************************************************************************)
EXTENDS Integers, Sequences

CONSTANTS FileByte,     \* that files are made of
          MaxBytes      \* bound: bytes that are read of a file

ASSUME BytesAssumption == FileByte \subseteq 0..255 /\ MaxBytes \in Nat

PAD == -1

VARIABLES inBuf,            \* history: the bytes that the loop has taken
          bitsContainer, charCount,
          ret,              \* the letters that have been written
          encoded           \* whether it has returned

base64Vars == <<inBuf, bitsContainer, charCount, ret, encoded>>

Base64Init ==
    /\ inBuf = <<>> /\ bitsContainer = 0 /\ charCount = 0
    /\ ret = <<>> /\ encoded = FALSE

-----------------------------------------------------------------------------
base64_encoded_length(origLen) == ((origLen + 2) \div 3) * 4

(* Six bits at a time, from the left.                                      *)
letters(bits) ==
    LET shifted == bits \div 64
        twice == shifted \div 64
    IN <<(twice \div 64) % 64, twice % 64, shifted % 64, bits % 64>>

FaultKeepsByte(bits) == bits % 256
(* The container after the letters of a triple are written.                *)
AfterTriple(bits) == 0

(* The low byte of the container is 0 when the next byte comes.            *)
TakesByte(currByte) ==
    /\ ~encoded /\ Len(inBuf) < MaxBytes
    /\ inBuf' = Append(inBuf, currByte)
    /\ LET bits == bitsContainer + currByte
       IN \/ /\ charCount = 2
             /\ ret' = ret \o letters(bits)
             /\ bitsContainer' = AfterTriple(bits) /\ charCount' = 0
          \/ /\ charCount < 2
             /\ bitsContainer' = bits * 256 /\ charCount' = charCount + 1
             /\ UNCHANGED ret
    /\ UNCHANGED encoded

FaultPadsOne(bits) ==
    LET l == letters(bits) IN <<l[1], l[2], IF charCount = 1 THEN 0 ELSE l[3], PAD>>
(* What is left of a triple, shifted to its place.                         *)
padded(bits) ==
    LET l == letters(bits) IN <<l[1], l[2], IF charCount = 1 THEN PAD ELSE l[3], PAD>>

(* The container has been shifted once for every byte; what is missing to  *)
(* the second of three is still to do.                                     *)
Returns64 ==
    /\ ~encoded /\ encoded' = TRUE
    /\ \/ charCount = 0 /\ UNCHANGED <<bitsContainer, ret>>
       \/ /\ charCount > 0
          /\ bitsContainer' = bitsContainer * (IF charCount = 1 THEN 256 ELSE 1)
          /\ ret' = ret \o padded(bitsContainer')
    /\ UNCHANGED <<inBuf, charCount>>

Base64Next == (\E currByte \in FileByte : TakesByte(currByte)) \/ Returns64

Base64Spec == Base64Init /\ [][Base64Next]_base64Vars

-----------------------------------------------------------------------------
(* What a reader of the text takes four letters and three bytes for.       *)
ByteAt(k) == IF k <= Len(inBuf) THEN inBuf[k] ELSE 0
Letter(k) == IF ret[k] = PAD THEN 0 ELSE ret[k]
BytesOf(t) == (ByteAt(3 * t + 1) * 256 + ByteAt(3 * t + 2)) * 256 + ByteAt(3 * t + 3)
LettersOf(t) ==
    ((Letter(4 * t + 1) * 64 + Letter(4 * t + 2)) * 64 + Letter(4 * t + 3)) * 64 + Letter(4 * t + 4)

(* read_file: the content of a file can be had back from its text, which   *)
(* has the room the code makes for it.  Every four letters stand for three *)
(* bytes, and the padding tells how many bytes of the last three there are.*)
ContentIsKept ==
    encoded =>
        /\ Len(ret) = base64_encoded_length(Len(inBuf))
        /\ \A t \in 0..(Len(ret) \div 4) - 1 : LettersOf(t) = BytesOf(t)
        /\ \A k \in 1..Len(ret) : ret[k] = PAD <=> 6 * (k - 1) >= 8 * Len(inBuf)
=============================================================================
