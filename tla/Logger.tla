------------------------------- MODULE Logger -------------------------------
(***************************************************************************)
(* Which log messages are written (common/Logger): the configuration in    *)
(* module.xml names sources, each with the severities it may log, and      *)
(* sinks, each with the least severity it takes.  Enumerations are bits,   *)
(* and the number of a source is also an index.                            *)
(***************************************************************************)
EXTENDS Integers, Sequences, SequencesExt, Bitwise

debug1 == 1
debug2 == 2
info == 4
warning == 8
error == 16
all_severity_levels == 31
severity_levels == {debug1, debug2, info, warning, error}

broker == 1
worker == 2
supervisor == 4
tester == 8
sources == {broker, worker, supervisor, tester}

file == 1
event_log == 2

NotGiven == -1
NoSeverity == -2     \* a filter that is none of the words for severities

(* LoggerConfiguration::load.  An unknown version leaves everything empty; *)
(* internal_init does not look at what load returns.  A sink that lacks an *)
(* element makes it throw (ptree_bad_path, which nobody catches); a filter *)
(* that is no severity is info.  The names of modules are not looked at.   *)
load(xml) ==
    LET Given(x, default) == IF x = NotGiven THEN default ELSE x
    IN IF xml.version # 1
       THEN [thrown |-> FALSE, default_level |-> 0, modules |-> <<>>, sinks |-> <<>>]
       ELSE [thrown |-> \E s \in Range(xml.sinks) : s.filter = NotGiven,
             default_level |-> Given(xml.level, 1),
             modules |-> [k \in DOMAIN xml.modules |->
                 [xml.modules[k] EXCEPT !.severity = Given(@, Given(xml.level, 1))]],
             sinks |-> [k \in DOMAIN xml.sinks |-> 
                 [xml.sinks[k] EXCEPT !.filter = IF @ = NoSeverity THEN info ELSE @]]]

enabled(list) == SelectSeq(list, LAMBDA v : v.enable)

register_sinks(conf) == \A v \in Range(enabled(conf.sinks)) : v.id \in {file, event_log}

(* The least severity that each file sink takes.                           *)
add_file_sink(conf) == {v.filter : v \in {u \in Range(enabled(conf.sinks)) : u.id = file}}

(* Fault: modules that are switched off are registered too.                *)
FaultTakesAll(conf) ==
    [ok |-> ~conf.thrown /\ conf.default_level <= all_severity_levels /\ register_sinks(conf),
     supported_sources |-> FoldLeft(LAMBDA s, m : s | m.id, 0, conf.modules),
     source_level |-> FoldLeft(LAMBDA l, m : [l EXCEPT ![m.id] = m.severity],
                               [i \in 0..tester |-> 0], conf.modules),
     filters |-> add_file_sink(conf)]

(* The process ends when this fails.  Ids of modules are within the array. *)
internal_init(conf) ==
    [ok |-> ~conf.thrown /\ conf.default_level <= all_severity_levels /\ register_sinks(conf),
     supported_sources |-> FoldLeft(LAMBDA s, m : s | m.id, 0, enabled(conf.modules)),
     source_level |-> FoldLeft(LAMBDA l, m : [l EXCEPT ![m.id] = m.severity],
                               [i \in 0..tester |-> 0], enabled(conf.modules)),
     filters |-> add_file_sink(conf)]

(* Whether log_event writes the message to a file.                         *)
log_event(logger, severity, source) ==
    /\ logger.supported_sources & source # 0
    /\ logger.source_level[source] & severity # 0
    /\ \E filter \in logger.filters : severity >= filter

-----------------------------------------------------------------------------
(* A message is written when a module that is switched on with its         *)
(* severity has the number of its source for an id (the last such module,  *)
(* if there are two) and some file takes it.  The mask of sources and the  *)
(* array of their levels agree on that, although an id that is no source   *)
(* sets bits of others in the mask.                                        *)
WritesWhatIsEnabled(xml) ==
    LET conf == load(xml)
        logger == internal_init(conf)
        Of(source) == SelectSeq(conf.modules, LAMBDA m : m.enable /\ m.id = source)
        Promised(severity, source) ==
            /\ Of(source) # <<>> /\ Last(Of(source)).severity & severity # 0
            /\ \E v \in Range(conf.sinks) : v.enable /\ v.id = file /\ v.filter <= severity
    IN logger.ok => \A severity \in severity_levels, source \in sources :
                        log_event(logger, severity, source) = Promised(severity, source)

(* Logger/module.xml, whose modules are called broker, worker and          *)
(* supervisor.                                                             *)
Installed ==
    [version |-> 1, level |-> 30,
     modules |-> [k \in 1..3 |-> [id |-> k, severity |-> 30, enable |-> TRUE]],
     sinks |-> <<[id |-> file, filter |-> info, enable |-> TRUE]>>]

(* With the installed file the broker and the workers write what is not    *)
(* for debugging.  The supervisor writes nothing, although the file has a  *)
(* module of its name: the id there is not that of its source.             *)
InstalledWrites ==
    LET logger == internal_init(load(Installed))
    IN /\ logger.ok
       /\ \A severity \in severity_levels, source \in sources :
              log_event(logger, severity, source) <=>
                  source \in {broker, worker} /\ severity >= info
=============================================================================
