----------------------------- MODULE Supervisor -----------------------------
(***************************************************************************)
(* The processes of CDCM and who starts them: cdcm_supervisor removes the  *)
(* shared memory of an earlier run, starts the broker and a pool of        *)
(* workers (supervisor/supervisor.cpp, supervisor/workers_monitor.cpp) and *)
(* starts each again when it has ended.  Every process opens the shared    *)
(* memory first, under its lock (shared_mem_sessions_cache::construct),    *)
(* and takes that lock again and again.  A process that ends with the lock *)
(* leaves it taken: it is a file, and nobody gives it back.                *)
(***************************************************************************)
EXTENDS Integers, FiniteSets

CONSTANTS WorkerName,    \* "1", "2", ... up to worker_processes_
          MaxDeaths,     \* bound: processes that die
          MaxFailures    \* bound: processes that cannot be spawned

broker == "broker"
Name == {broker} \cup WorkerName

ASSUME SupervisorAssumption ==
    /\ IsFiniteSet(WorkerName) /\ broker \notin WorkerName
    /\ MaxDeaths \in Nat /\ MaxFailures \in Nat

VARIABLES supervisor,   \* what cdcm_supervisor is doing
          to_start,     \* whom run() has not come to yet
          child,        \* the process of each name
          on_exit,      \* exit callbacks that io_service has not called yet
          pool,         \* who has an entry: broker_ or a place in workers_pool
          lock,         \* of the shared memory: free, or taken by a process, or lost
          deaths, failures,
          failed        \* history: whose last spawn failed

supervisorVars == <<supervisor, to_start, child, on_exit, pool, lock, deaths, failures, failed>>

Alive == {"opens", "runs", "inside"}

SupervisorTypeOK ==
    /\ supervisor \in {"down", "opens", "starts", "serves"}
    /\ to_start \subseteq Name
    /\ child \in [Name -> Alive \cup {"none"}]
    /\ on_exit \subseteq Name /\ pool \subseteq Name /\ failed \subseteq Name
    /\ lock \in {"free", "taken", "lost"}
    /\ Cardinality({n \in Name : child[n] = "inside"}) = IF lock = "taken" THEN 1 ELSE 0
    /\ deaths \in 0..MaxDeaths /\ failures \in 0..MaxFailures

(* The lock may be what a run before this one has left.                    *)
SupervisorInit ==
    /\ supervisor = "down"
    /\ to_start = {} /\ on_exit = {} /\ pool = {} /\ failed = {}
    /\ child = [n \in Name |-> "none"]
    /\ lock \in {"free", "lost"}
    /\ deaths = 0 /\ failures = 0

-----------------------------------------------------------------------------
(* Fault: the shared memory is left as it is.                              *)
main_removes_nothing ==
    /\ supervisor = "down"
    /\ supervisor' = "opens"
    /\ UNCHANGED <<to_start, child, on_exit, pool, lock, deaths, failures, failed>>

main ==
    /\ supervisor = "down"
    /\ supervisor' = "opens"
    /\ lock' = "free"
    /\ UNCHANGED <<to_start, child, on_exit, pool, deaths, failures, failed>>

open_memory ==
    /\ supervisor = "opens"
    /\ lock = "free"
    /\ supervisor' = "starts"
    /\ to_start' = Name
    /\ UNCHANGED <<child, on_exit, pool, lock, deaths, failures, failed>>

(* A spawn: the process is there, or an exception is logged.               *)
Spawned(n) ==
    /\ child' = [child EXCEPT ![n] = "opens"]
    /\ failed' = failed \ {n}
    /\ UNCHANGED failures
NotSpawned(n) ==
    /\ failures < MaxFailures
    /\ failures' = failures + 1
    /\ failed' = failed \cup {n}
    /\ UNCHANGED child

(* broker_ is what start_broker returns, null if it could not be spawned.  *)
start_broker ==
    \/ Spawned(broker) /\ pool' = pool \cup {broker}
    \/ NotSpawned(broker) /\ pool' = pool \ {broker}

(* Fault: a worker that has a place is taken to be there.                  *)
monitor_once(n) ==
    IF n \in pool THEN UNCHANGED <<pool, child, failed, failures>>
    ELSE \/ Spawned(n) /\ pool' = pool \cup {n}
         \/ NotSpawned(n) /\ UNCHANGED pool
(* A worker that could not be spawned keeps the place it has, if any.      *)
monitor(n) ==
    \/ Spawned(n) /\ pool' = pool \cup {n}
    \/ NotSpawned(n) /\ UNCHANGED pool

start(n) == IF n = broker THEN start_broker ELSE monitor(n)

(* run: the broker first, then the workers one after the other.            *)
run ==
    /\ supervisor = "starts"
    /\ \E n \in to_start :
          /\ broker \in to_start => n = broker
          /\ start(n)
          /\ to_start' = to_start \ {n}
          /\ supervisor' = IF to_start = {n} THEN "serves" ELSE "starts"
    /\ UNCHANGED <<on_exit, lock, deaths>>

(* zmq_helpers::interrupted stays false: the supervisor catches no signal. *)
exit_callback(n) ==
    /\ supervisor = "serves"
    /\ n \in on_exit
    /\ on_exit' = on_exit \ {n}
    /\ start(n)
    /\ UNCHANGED <<supervisor, to_start, lock, deaths>>

(* io_service::run returns when there is nobody left to wait for.  The     *)
(* destructor of the monitor has nothing to terminate then.                *)
returns ==
    /\ supervisor = "serves"
    /\ on_exit = {} /\ \A n \in Name : child[n] = "none"
    /\ supervisor' = "down"
    /\ pool' = {} /\ failed' = {}
    /\ UNCHANGED <<to_start, child, on_exit, lock, deaths, failures>>

-----------------------------------------------------------------------------
(* The processes.                                                          *)

opens(n) ==
    /\ child[n] = "opens" /\ lock = "free"
    /\ child' = [child EXCEPT ![n] = "runs"]
    /\ UNCHANGED <<supervisor, to_start, on_exit, pool, lock, deaths, failures, failed>>

(* Fault: a section that does not wait for the lock.                       *)
enters_anyway(n) ==
    /\ child[n] = "runs"
    /\ child' = [child EXCEPT ![n] = "inside"]
    /\ lock' = "taken"
    /\ UNCHANGED <<supervisor, to_start, on_exit, pool, deaths, failures, failed>>
enters(n) ==
    /\ child[n] = "runs" /\ lock = "free"
    /\ child' = [child EXCEPT ![n] = "inside"]
    /\ lock' = "taken"
    /\ UNCHANGED <<supervisor, to_start, on_exit, pool, deaths, failures, failed>>

leaves(n) ==
    /\ child[n] = "inside"
    /\ child' = [child EXCEPT ![n] = "runs"]
    /\ lock' = "free"
    /\ UNCHANGED <<supervisor, to_start, on_exit, pool, deaths, failures, failed>>

dies(n) ==
    /\ child[n] \in Alive /\ deaths < MaxDeaths
    /\ deaths' = deaths + 1
    /\ child' = [child EXCEPT ![n] = "none"]
    /\ on_exit' = on_exit \cup {n}
    /\ lock' = IF child[n] = "inside" THEN "lost" ELSE lock
    /\ UNCHANGED <<supervisor, to_start, pool, failures, failed>>

(* cdcm.service: "Restart=always"; systemd ends what is left of the        *)
(* service before it starts it again.                                      *)
supervisor_dies ==
    /\ supervisor # "down" /\ deaths < MaxDeaths
    /\ deaths' = deaths + 1
    /\ supervisor' = "down"
    /\ child' = [n \in Name |-> "none"]
    /\ lock' = IF lock = "taken" THEN "lost" ELSE lock
    /\ to_start' = {} /\ on_exit' = {} /\ pool' = {} /\ failed' = {}
    /\ UNCHANGED failures

-----------------------------------------------------------------------------
SupervisorNext ==
    \/ main \/ open_memory \/ run \/ returns \/ supervisor_dies
    \/ \E n \in Name : exit_callback(n) \/ opens(n) \/ enters(n) \/ leaves(n) \/ dies(n)

(* The supervisor is a loop over its callbacks and systemd starts it; a    *)
(* process gets the lock if it asks often enough while others release it,  *)
(* and does not stay inside.                                               *)
SupervisorFairness ==
    /\ WF_supervisorVars(main) /\ SF_supervisorVars(open_memory) /\ WF_supervisorVars(run)
    /\ \A n \in Name :
          /\ WF_supervisorVars(exit_callback(n))
          /\ SF_supervisorVars(opens(n)) /\ WF_supervisorVars(leaves(n))

SupervisorSpec == SupervisorInit /\ [][SupervisorNext]_supervisorVars /\ SupervisorFairness

-----------------------------------------------------------------------------
(* Properties                                                              *)

(* Whatever dies in whatever order, while run() is still starting others   *)
(* or not: nobody is missing whom no callback will start again, except for *)
(* those whose last spawn failed (those the code gives up).                *)
NobodyIsForgotten ==
    supervisor \in {"starts", "serves"} =>
        \A n \in Name : child[n] = "none" => n \in to_start \cup on_exit \cup failed

(* A lost lock does not outlive the run of the supervisor it was lost in   *)
(* (CHANGELOG, CDCM-118): the supervisor that starts over a lost one gets  *)
(* everybody started.                                                      *)
StartIsClean == (supervisor = "down") ~> (supervisor = "serves")

(* As long as the lock is not lost and nobody could not be spawned, every  *)
(* process is past its start again and again, however often it dies.       *)
EveryoneRunsAgain ==
    <>[](lock # "lost" /\ failed = {}) => \A n \in Name : []<>(child[n] = "runs")
=============================================================================
