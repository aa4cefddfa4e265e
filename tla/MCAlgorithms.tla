---------------------------- MODULE MCAlgorithms ----------------------------
(***************************************************************************)
(* The algorithms of the code: those that are loops, as MCLoops has them,  *)
(* and the functions that compute without any state, on all inputs up to a *)
(* size: a behaviour takes one kind of input and makes it longer, piece by *)
(* piece.                                                                  *)
(***************************************************************************)
EXTENDS MCLoops

Wild == INSTANCE WildcardLanguage
Asset == INSTANCE AssetData
Pe == INSTANCE PeFiles
Log == INSTANCE Logger
File == INSTANCE SettingsFile WITH Undefined <- -1, EmptyText <- -2

VARIABLE input      \* of the function, if kind is one of inputs

vars == <<loopVars, kind, input>>

-----------------------------------------------------------------------------
(* Bounds.                                                                 *)
Letters == {"a", "b"}
Names == UNION {[1..n -> Letters] : n \in 0..2}
PatternLength == 5
PathLength == 6
ResourceTypes == 2
Modules == [id : 1..4, severity : {Log!NotGiven, 16, 30}, enable : BOOLEAN]
Sink(i, f, e) == [id |-> i, filter |-> f, enable |-> e]
SinksOfFile == {<<>>, <<Sink(Log!file, Log!NoSeverity, TRUE), Sink(4, 1, FALSE)>>,
                <<Sink(Log!file, 1, TRUE), Sink(Log!file, Log!NotGiven, FALSE)>>,
                <<Sink(Log!event_log, 1, TRUE), Sink(Log!file, 16, TRUE)>>, <<Sink(4, 1, TRUE)>>}
Init ==
    /\ \/ kind \in {"pattern", "path", "tree", "table", "modules"} \cup Loops
          /\ input = <<>>
       \/ kind = "settings" /\ input \in {10, 4095, 4096}
    /\ LoopsInit

Grows(k, longest, pieces) ==
    /\ kind = k /\ Len(input) < longest
    /\ \E u \in pieces : input' = Append(input, u)
    /\ UNCHANGED kind /\ UNCHANGED loopVars

TableGrows ==
    /\ kind = "table" /\ Len(input) < 3
    /\ \E u \in [key : {"Other", "ProductName", "FileVersion"}, key_length : 11..12,
                 value_length : 0..2] :
           /\ \A k \in DOMAIN input : input[k].key # u.key
           /\ input' = Append(input, u)
    /\ UNCHANGED kind /\ UNCHANGED loopVars

Next ==
    \/ LoopsNext /\ UNCHANGED input
    \/ Grows("pattern", PatternLength, Wild!cards \cup Letters)
    \/ Grows("path", PathLength, {Asset!Slash} \cup Letters)
    \/ Grows("tree", ResourceTypes, [id : {3, Pe!RT_VERSION}, named : Pe!Entitled,
                                     names : UNION {[1..n -> 1..2] : n \in 0..2}])
    \/ TableGrows
    \/ Grows("modules", 2, Modules)

Spec == Init /\ [][Next]_vars

-----------------------------------------------------------------------------
(* list_dir: a name is kept only if the pattern means it, and, unless      *)
(* alternatives hold what may end in several places, whenever it does; and *)
(* no pattern that a client sends makes the matching throw.                *)
NamesAreMatched ==
    kind = "pattern" =>
        /\ Wild!Splits(input)
        /\ \A s \in Names : Wild!Sound(input, s) /\ Wild!Complete(input, s)

(* Paths of keys and shares are taken apart where they have slashes.       *)
PathsAreSplit ==
    kind = "path" => Asset!KeysAreStandard(input) /\ Asset!SharesAreSplit(input)

(* pe_context finds the version among all resources, with ids or with      *)
(* texts for names, unless what is behind the data of some language and    *)
(* read as its entry leads out of the file; and it tells the texts of it   *)
(* that are wanted and no other.  For a version without texts it reads on  *)
(* behind the resource and tells nothing.                                  *)
VersionIsTold ==
    /\ kind = "tree" => \A o \in BOOLEAN, astray \in {Pe!Nowhere, 0, 8} :
                            Pe!FindsVersion(input, o, astray)
    /\ kind = "table" => \A has_texts, first \in BOOLEAN :
                             Pe!VersionIsTold(input, has_texts, first,
                                              {"ProductName", "FileVersion"})

(* Both configuration files: every name of the installed settings is that  *)
(* of one setting, and a log message is written when module.xml switches   *)
(* its source and severity on, by the number of the source.  With the      *)
(* installed files all settings are read, and all messages but those of    *)
(* the supervisor, whose number is another one there, can be written.      *)
ConfigurationIsTaken ==
    /\ kind = "settings" =>
           /\ \A missing \in SUBSET File!Installed :
                  Cardinality(missing) < 3 => File!SettingsAreRead(input, missing)
           /\ Log!InstalledWrites
    /\ kind = "modules" =>
           \A v \in 1..2, l \in {Log!NotGiven, 30, 32}, s \in SinksOfFile :
               Log!WritesWhatIsEnabled([version |-> v, level |-> l, modules |-> input, sinks |-> s])
=============================================================================
