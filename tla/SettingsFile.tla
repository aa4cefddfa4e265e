---------------------------- MODULE SettingsFile ----------------------------
(***************************************************************************)
(* Reading cdcm_settings.json (common/singleton_runner/settings.hpp): each *)
(* setting has a name in the file; one that is not there keeps what its    *)
(* member holds, and only texts have a constructor that gives them a       *)
(* value.                                                                  *)
(***************************************************************************)
EXTENDS Integers, FiniteSets

CONSTANTS Undefined,    \* what nobody has initialized
          EmptyText

cdcm_settings ==
    {"session_cache_size", "session_idle_time", "heartbeat_liveness", "heartbeat_interval",
     "reconnect", "heartbeat_expiry", "action_postpone_dur", "action_retries_on_postpone",
     "worker_processes", "broker_client_listen_ep", "broker_worker_listen_ep",
     "worker_connect_ep", "downloaded_files_path", "maintenance_interval", "plugins_dir",
     "cdcm_version"}

(* Fault: the names that the bindings of the type give.                    *)
FaultNamesOfBinding(setting) == setting
(* The names that are read.                                                *)
NameInFile(setting) ==
    CASE setting = "broker_client_listen_ep" -> "broker_client_listening_ep"
      [] setting = "broker_worker_listen_ep" -> "broker_worker_listening_ep"
      [] setting = "downloaded_files_path" -> "downloaded_file_path"
      [] OTHER -> setting

texts ==
    {"broker_client_listen_ep", "broker_worker_listen_ep", "worker_connect_ep",
     "downloaded_files_path", "plugins_dir", "cdcm_version"}

as(o) ==
    [s \in cdcm_settings |->
       CASE NameInFile(s) \in DOMAIN o -> o[NameInFile(s)]
         [] NameInFile(s) \notin DOMAIN o /\ s \in texts -> EmptyText
         [] OTHER -> Undefined]

(* The file that is installed, as far as its names go.                     *)
Installed ==
    {"session_cache_size", "heartbeat_liveness", "heartbeat_interval", "heartbeat_expiry",
     "maintenance_interval", "reconnect", "action_postpone_dur", "action_retries_on_postpone",
     "session_idle_time", "worker_processes", "broker_worker_listening_ep",
     "broker_client_listening_ep", "worker_connect_ep", "downloaded_file_path", "plugins_dir",
     "cdcm_version"}

(* The bytes of the segment, in MB: the product has 32 bits.               *)
segment_size(settings) == settings["session_cache_size"] % 4096

-----------------------------------------------------------------------------
(* Every name of the installed file is that of one setting: without those  *)
(* in missing there are as many settings that have no value of the file,   *)
(* of which all but texts are undefined.  The segment has the size that is *)
(* given if that is below 4096; one of 4096 has no room at all.            *)
SettingsAreRead(size, missing) ==
    LET settings == as([n \in Installed \ missing |-> IF n = "session_cache_size" THEN size ELSE 0])
        left == {s \in cdcm_settings : settings[s] \in {Undefined, EmptyText}}
    IN /\ Cardinality(left) = Cardinality(missing)
       /\ \A s \in left : settings[s] = Undefined <=> s \notin texts
       /\ "session_cache_size" \notin missing =>
              /\ size < 4096 => segment_size(settings) = size
              /\ size = 4096 => segment_size(settings) = 0
=============================================================================
