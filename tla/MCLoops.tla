------------------------------ MODULE MCLoops ------------------------------
(***************************************************************************)
(* Instances of the state machines that know nothing of each other: each   *)
(* behaviour is one of that named by kind, while the others stay as they   *)
(* are at the beginning.                                                   *)
(***************************************************************************)
EXTENDS FileMapper, PeHeaders, SecurityDescriptor, Base64, RegistryText, Plugins,
        LocalActions, Envelopes

VARIABLE kind       \* which of them, or of the inputs of MCAlgorithms

loopVars == <<mapperVars, headersVars, maskVars, base64Vars, textVars, pluginVars, batchVars,
              frames_vars>>

-----------------------------------------------------------------------------
(* Sections whose size is the one in memory or, when that is not given, the*)
(* one in the file, and which may touch or overlap.                        *)
SectionOf(address, virtual_size, raw_size, pointer) ==
    [virtual_address |-> address, virtual_size |-> virtual_size, size_of_raw_data |-> raw_size,
     pointer_to_raw_data |-> pointer]

Headers ==
    {SectionOf(1, 2, 2, 5), SectionOf(1, 0, 2, 9), SectionOf(1, 3, 1, 5), SectionOf(3, 2, 3, 1),
     SectionOf(3, 0, 2, 7), SectionOf(4, 1, 0, 1)}

(* Masks that grant up to three rights: of any kind of entry, standard,    *)
(* generic, or one that the code has no word for.                          *)
Rights ==
    UNION {perm_dir[t] : t \in entity_type} \cup OneBit({6} \cup 16..21 \cup GENERIC)

Masks == {{}} \cup {a \cup b \cup c : a, b, c \in Rights}

(* An end of text, two characters, and two beyond U+00FF, of which one has *)
(* a low byte of zero.                                                     *)
Chars == [low : {0, 1}, high : {0, 1}] \cup {[low |-> 2, high |-> 0]}

(* Actions of a message, complete and not.                                 *)
ActionOf(name, remote, complete) == [name |-> name, remote |-> remote, complete |-> complete]

Actions ==
    {ActionOf("start_session", r, TRUE) : r \in Remote}
    \cup {ActionOf("start_session", "r1", FALSE), ActionOf("close_session", "r1", TRUE),
          ActionOf("of workers", "r1", TRUE)}
    \cup {ActionOf("get_cdcm_info", "r1", c) : c \in BOOLEAN}

(* A client with an identity that the socket made up, with bytes that are  *)
(* the text '@' and whose halves differ, and one that has chosen its own;  *)
(* the second has the same text for its service as for its name.           *)
MadeUp == <<0>> \o [k \in 1..16 |-> IF k % 2 = 1 THEN 64 ELSE 11 * k]

Clients == {MadeUp, <<67>>}
Services == {Empty, <<67>>}
WorkerNames == {<<87, 49>>}
Texts == {<<123>>}

-----------------------------------------------------------------------------
Loops == {"file in memory", "headers", "rights", "base64", "text", "plugins", "batch", "frames"}

(* What is chosen at the beginning is chosen of the one that runs.         *)
LoopsInit ==
    /\ MapperInit /\ HeadersInit /\ Base64Init /\ PluginsInit /\ BatchInit /\ FramesInit
    /\ TextInit /\ (kind # "text" => rv_type = "REG_SZ")
    /\ AccessMaskInit /\ (kind # "rights" => et = "SHARE" /\ mask = {})

LoopsNext ==
    /\ kind \in Loops /\ UNCHANGED kind
    /\ IF kind = "file in memory" THEN MapperNext ELSE UNCHANGED mapperVars
    /\ IF kind = "headers" THEN HeadersNext ELSE UNCHANGED headersVars
    /\ IF kind = "rights" THEN AccessMaskNext ELSE UNCHANGED maskVars
    /\ IF kind = "base64" THEN Base64Next ELSE UNCHANGED base64Vars
    /\ IF kind = "text" THEN TextNext ELSE UNCHANGED textVars
    /\ IF kind = "plugins" THEN PluginsNext ELSE UNCHANGED pluginVars
    /\ IF kind = "batch" THEN BatchNext ELSE UNCHANGED batchVars
    /\ IF kind = "frames" THEN FramesNext ELSE UNCHANGED frames_vars
=============================================================================
