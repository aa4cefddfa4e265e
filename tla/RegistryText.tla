---------------------------- MODULE RegistryText ----------------------------
(***************************************************************************)
(* How a text of the registry is told (normalize in samba_based/registry/  *)
(* registry_client.cpp).  The blob has 16 bits to a character, of which    *)
(* the code looks at the low byte alone: it tells that byte, and a         *)
(* character in which it is zero is an end of text, as U+0100.  The loop   *)
(* looks one character ahead, also behind the end of the blob.  What is    *)
(* left of a blob of an odd length counts as a character, as in the code,  *)
(* whose high byte nobody looks at.                                        *)
(***************************************************************************)
EXTENDS Integers, Sequences

CONSTANTS Char,         \* what blobs are made of
          MaxUnits      \* bound: characters of a blob

ASSUME CharAssumption == Char \subseteq [low : 0..255, high : 0..255] /\ MaxUnits \in Nat

EndOfText == 0
NewLine == 10

VARIABLES rv_type,      \* of the value
          data_blob,
          doing,        \* "blob": the asset sends it, "loop", "told"
          place,        \* i: the character that the loop has come to
          value

textVars == <<rv_type, data_blob, doing, place, value>>

TextInit ==
    /\ rv_type \in {"REG_SZ", "REG_EXPAND_SZ", "REG_MULTI_SZ"}
    /\ data_blob = <<>> /\ doing = "blob" /\ place = 1 /\ value = <<>>

Stores(char) ==
    /\ doing = "blob" /\ Len(data_blob) < MaxUnits
    /\ data_blob' = Append(data_blob, char)
    /\ UNCHANGED <<rv_type, doing, place, value>>

Begins ==
    /\ doing = "blob" /\ doing' = "loop"
    /\ UNCHANGED <<rv_type, data_blob, place, value>>

-----------------------------------------------------------------------------
(* data[i]                                                                 *)
Low(k) == data_blob[k].low
IsZero(k) == Low(k) = EndOfText

(* data[i + 2].  What is behind the blob in memory is an end or not.       *)
LooksAhead(k) == IF k < Len(data_blob) THEN {Low(k + 1)} ELSE {EndOfText, 1}

(* Fault: the first end of a text is that of all.                          *)
FaultEndsAtFirst(next) == TRUE
EndsAt(next) == next = EndOfText

(* Each text of REG_MULTI_SZ is a line.                                    *)
line == IF rv_type = "REG_MULTI_SZ" THEN <<NewLine>> ELSE <<>>

Character ==
    /\ doing = "loop" /\ place <= Len(data_blob) /\ ~IsZero(place)
    /\ value' = Append(value, Low(place))
    /\ place' = place + 1
    /\ UNCHANGED <<rv_type, data_blob, doing>>

TextEnds ==
    /\ doing = "loop" /\ place <= Len(data_blob) /\ IsZero(place)
    /\ value' = value \o line
    /\ \E next \in LooksAhead(place) :
           \/ EndsAt(next) /\ doing' = "told" /\ UNCHANGED place
           \/ ~EndsAt(next) /\ place' = place + 1 /\ UNCHANGED doing
    /\ UNCHANGED <<rv_type, data_blob>>

BlobEnds ==
    /\ doing = "loop" /\ place > Len(data_blob)
    /\ doing' = "told"
    /\ UNCHANGED <<rv_type, data_blob, place, value>>

TextNext == (\E char \in Char : Stores(char)) \/ Begins \/ Character \/ TextEnds \/ BlobEnds

TextSpec == TextInit /\ [][TextNext]_textVars

-----------------------------------------------------------------------------
(* Where the texts in the blob are over for the code: at a low byte of     *)
(* zero that another one follows, or nothing.                              *)
Over(k) == IsZero(k) /\ (k = Len(data_blob) \/ IsZero(k + 1))

(* The first n characters have no end among them, and then the texts are   *)
(* over.                                                                   *)
SingleText(n) ==
    /\ \A k \in 1..n : ~IsZero(k)
    /\ n < Len(data_blob) => Over(n + 1)

(* Texts of the registry are told by their low bytes: of several each is a *)
(* line, with none left out, and one is told up to its end.  What lies     *)
(* behind them in memory makes no difference, although the code looks at   *)
(* it.  Texts are told as they are stored if no character of theirs is     *)
(* beyond U+00FF; of others the high bytes are lost, and a low byte of     *)
(* zero ends them early.                                                   *)
LowBytesAreTold ==
    doing = "told" =>
        /\ rv_type = "REG_MULTI_SZ" =>
               /\ Len(value) <= Len(data_blob)
               /\ \A k \in 1..Len(value) :
                      /\ value[k] = IF IsZero(k) THEN NewLine ELSE Low(k)
                      /\ Over(k) => k = Len(value)
               /\ Len(value) < Len(data_blob) => Over(Len(value))
        /\ rv_type # "REG_MULTI_SZ" =>
               \A n \in 0..Len(data_blob) :
                   SingleText(n) => value = [k \in 1..n |-> Low(k)]
=============================================================================
