------------------------------ MODULE Plugins ------------------------------
(***************************************************************************)
(* The actions of a worker (common/dispatcher.hpp): each is in a shared    *)
(* library of the plugins directory (backend/utils/action_manager.cpp,     *)
(* shared_library.hpp).  The dispatcher maps the name of an action to it;  *)
(* the text of the name and the code of the action are in the library that *)
(* registered it, and gone when that is closed.                            *)
(*                                                                         *)
(* An entry of the directory is a record: named (its name is one of a      *)
(* library), kind, and the name of the action that it exports, if any.  A  *)
(* library is known by its place among the entries.                        *)
(***************************************************************************)
EXTENDS Naturals, Sequences

CONSTANTS ActionName,   \* names that actions may have
          NoAction,
          MaxEntries    \* bound: entries of the directory

Entry == [named : BOOLEAN, kind : {"library", "broken", "directory"},
          action : ActionName \cup {NoAction}]

VARIABLES entries,      \* history: of the directory, as far as it has been read
          registered,   \* map_
          libraries     \* sl_vec: the libraries that are kept

pluginVars == <<entries, registered, libraries>>

PluginsInit == entries = <<>> /\ registered = [n \in {} |-> NoAction] /\ libraries = {}

(* open_internal: whether dlopen is called, and finds a library.           *)
opened(entry) == entry.named /\ entry.kind = "library"

(* get("import_action"), which is null unless the library is open.         *)
exports(entry) == opened(entry) /\ entry.action # NoAction

(* map_[name] = t: of an entry that is there already the key stays, and    *)
(* with it the text in the library that came first.                        *)
register1(map, name, k) ==
    [n \in DOMAIN map \cup {name} |->
        IF n # name THEN map[n]
        ELSE [text |-> IF name \in DOMAIN map THEN map[name].text ELSE k, code |-> k]]

find(map, name) == IF name \in DOMAIN map THEN map[name].code ELSE 0

(* Fault: nobody keeps the library, and its handle closes it.              *)
KeepsNoLibrary(entry) ==
    /\ Len(entries) < MaxEntries
    /\ entries' = Append(entries, entry)
    /\ registered' = IF exports(entry) THEN register1(registered, entry.action, Len(entries'))
                     ELSE registered
    /\ UNCHANGED libraries

(* One turn of the loop of load: a library that exports an action is kept; *)
(* any other is closed, and the next one is tried.                         *)
Loads(entry) ==
    /\ Len(entries) < MaxEntries
    /\ entries' = Append(entries, entry)
    /\ \/ /\ exports(entry)
          /\ registered' = register1(registered, entry.action, Len(entries'))
          /\ libraries' = libraries \cup {Len(entries')}
       \/ /\ ~exports(entry)
          /\ UNCHANGED <<registered, libraries>>

PluginsNext == \E entry \in Entry : Loads(entry)

PluginsSpec == PluginsInit /\ [][PluginsNext]_pluginVars

-----------------------------------------------------------------------------
Exporting(name) == {k \in 1..Len(entries) : exports(entries[k]) /\ entries[k].action = name}

(* Whatever else is in the directory: an action that some library exports  *)
(* is found, in the last of them, and what is found can be used: text and  *)
(* code are in libraries that are open.                                    *)
ActionsAreFound ==
    \A name \in ActionName :
        LET k == find(registered, name)
        IN IF Exporting(name) = {} THEN k = 0
           ELSE /\ k \in Exporting(name) /\ \A j \in Exporting(name) : j <= k
                /\ {k, registered[name].text} \subseteq libraries
=============================================================================
