-------------------------- MODULE SupervisorProofs --------------------------
(***************************************************************************)
(* Proofs about Supervisor, for any set of workers and any number of       *)
(* deaths and of spawns that fail.                                         *)
(***************************************************************************)
EXTENDS Supervisor, FiniteSetTheorems, TLAPS

Inside == {n \in Name : child[n] = "inside"}

Types ==
    /\ supervisor \in {"down", "opens", "starts", "serves"}
    /\ to_start \subseteq Name
    /\ child \in [Name -> Alive \cup {"none"}]
    /\ on_exit \subseteq Name /\ pool \subseteq Name /\ failed \subseteq Name
    /\ lock \in {"free", "taken", "lost"}
    /\ deaths \in 0..MaxDeaths /\ failures \in 0..MaxFailures

(* Before the supervisor has opened the memory nobody else is there: the   *)
(* lock it gives free is not one that somebody holds.                      *)
NobodyBefore == supervisor \in {"down", "opens"} => \A n \in Name : child[n] = "none"

(* The lock is taken when one process is inside, and only then.            *)
OneInside ==
    /\ lock = "taken" => \E n \in Name : Inside = {n}
    /\ lock # "taken" => Inside = {}

(* Whom a step will start is not there, and is started once.               *)
StartedOnce ==
    /\ \A n \in to_start \cup on_exit : child[n] = "none"
    /\ to_start \cap on_exit = {}
    /\ supervisor \in {"down", "opens"} => on_exit = {}

IInv == Types /\ NobodyBefore /\ OneInside /\ StartedOnce

-----------------------------------------------------------------------------

LEMMA BrokerIsNamed == broker \in Name
  BY DEF Name

(* What a spawn changes: the one that is started is on its way or failed.  *)
LEMMA StartChanges ==
    ASSUME IInv, NEW n \in Name, start(n)
    PROVE  /\ failures' \in 0..MaxFailures
           /\ pool' \subseteq Name /\ failed' \subseteq Name
           /\ \/ child' = [child EXCEPT ![n] = "opens"] /\ failed' = failed \ {n}
              \/ child' = child /\ failed' = failed \cup {n}
  <1> USE SupervisorAssumption, BrokerIsNamed DEF IInv, Types
  <1>1. CASE Spawned(n) /\ pool' \subseteq Name
    BY <1>1 DEF Spawned
  <1>2. CASE NotSpawned(n) /\ pool' \subseteq Name
    BY <1>2 DEF NotSpawned
  <1>3. (Spawned(n) \/ NotSpawned(n)) /\ pool' \subseteq Name
    <2>1. CASE n = broker
      BY <2>1 DEF start, start_broker
    <2>2. CASE n # broker
      BY <2>2 DEF start, monitor
    <2> QED BY <2>1, <2>2
  <1> QED BY <1>1, <1>2, <1>3

(* Nobody comes out of a spawn inside a section.                           *)
LEMMA StartInside ==
    ASSUME IInv, NEW n \in Name, start(n), child[n] = "none"
    PROVE  Inside' = Inside
  BY StartChanges DEF Inside, IInv, Types

LEMMA InitInv == SupervisorInit => IInv
  BY SupervisorAssumption
     DEF SupervisorInit, IInv, Types, NobodyBefore, OneInside, StartedOnce, Inside, Alive

(* The steps of the supervisor and of systemd.                             *)
LEMMA SupervisorSteps ==
    ASSUME IInv,
           main \/ open_memory \/ run \/ returns \/ supervisor_dies
           \/ \E n \in Name : exit_callback(n)
    PROVE  IInv'
  <1> USE SupervisorAssumption DEF IInv, Types
  <1>1. CASE main
    BY <1>1 DEF main, NobodyBefore, OneInside, StartedOnce, Inside
  <1>2. CASE open_memory
    BY <1>2 DEF open_memory, NobodyBefore, OneInside, StartedOnce, Inside
  <1>3. CASE run
    <2>1. PICK n \in to_start :
             /\ start(n)
             /\ to_start' = to_start \ {n}
             /\ supervisor' = IF to_start = {n} THEN "serves" ELSE "starts"
      BY <1>3 DEF run
    <2>2. UNCHANGED <<on_exit, lock, deaths>> /\ supervisor = "starts"
      BY <1>3 DEF run
    <2>3. child[n] = "none" /\ n \in Name
      BY DEF StartedOnce
    <2>4. Inside' = Inside
      BY <2>1, <2>3, StartInside
    <2>5. Types'
      BY <2>1, <2>2, <2>3, StartChanges DEF Alive
    <2>6. NobodyBefore'
      BY <2>1 DEF NobodyBefore
    <2>7. OneInside'
      BY <2>2, <2>4 DEF OneInside
    <2>8. StartedOnce'
      BY <2>1, <2>2, <2>3, StartChanges DEF StartedOnce
    <2> QED BY <2>5, <2>6, <2>7, <2>8
  <1>4. CASE returns
    BY <1>4 DEF returns, NobodyBefore, OneInside, StartedOnce, Inside
  <1>5. CASE supervisor_dies
    <2>1. Types'
      BY <1>5 DEF supervisor_dies, Alive
    <2>2. \A m \in Name : child'[m] = "none"
      BY <1>5 DEF supervisor_dies
    <2>3. lock' # "taken" /\ to_start' = {} /\ on_exit' = {}
      BY <1>5 DEF supervisor_dies
    <2> QED BY <2>1, <2>2, <2>3 DEF NobodyBefore, OneInside, StartedOnce, Inside
  <1>6. CASE \E n \in Name : exit_callback(n)
    <2>1. PICK n \in Name : exit_callback(n)
      BY <1>6
    <2>2. /\ start(n) /\ n \in on_exit /\ on_exit' = on_exit \ {n} /\ supervisor = "serves"
          /\ UNCHANGED <<supervisor, to_start, lock, deaths>>
      BY <2>1 DEF exit_callback
    <2>3. child[n] = "none"
      BY <2>2 DEF StartedOnce
    <2>4. Inside' = Inside
      BY <2>2, <2>3, StartInside
    <2>5. Types'
      BY <2>2, StartChanges DEF Alive
    <2>6. OneInside'
      BY <2>2, <2>4 DEF OneInside
    <2>7. StartedOnce'
      BY <2>2, <2>3, StartChanges DEF StartedOnce
    <2> QED BY <2>2, <2>5, <2>6, <2>7 DEF NobodyBefore
  <1> QED BY <1>1, <1>2, <1>3, <1>4, <1>5, <1>6

(* The steps of the processes.                                             *)
LEMMA ProcessSteps ==
    ASSUME IInv, NEW n \in Name, opens(n) \/ enters(n) \/ leaves(n) \/ dies(n)
    PROVE  IInv'
  <1> USE SupervisorAssumption DEF IInv, Types, Alive
  <1>1. CASE opens(n)
    <2>1. Inside' = Inside
      BY <1>1 DEF opens, Inside
    <2>2. Types'
      BY <1>1 DEF opens
    <2> QED BY <1>1, <2>1, <2>2 DEF opens, NobodyBefore, OneInside, StartedOnce
  <1>2. CASE enters(n)
    <2>1. Inside' = {n}
      BY <1>2 DEF enters, Inside, OneInside
    <2>2. Types'
      BY <1>2 DEF enters
    <2> QED BY <1>2, <2>1, <2>2 DEF enters, NobodyBefore, OneInside, StartedOnce
  <1>3. CASE leaves(n)
    <2>1. Inside = {n}
      BY <1>3 DEF leaves, Inside, OneInside
    <2>2. Inside' = {}
      BY <1>3, <2>1 DEF leaves, Inside
    <2>3. Types'
      BY <1>3 DEF leaves
    <2> QED BY <1>3, <2>2, <2>3 DEF leaves, NobodyBefore, OneInside, StartedOnce
  <1>4. CASE dies(n)
    <2>1. Inside' = Inside \ {n}
      BY <1>4 DEF dies, Inside
    <2>2. child[n] = "inside" => Inside' = {}
      BY <2>1 DEF Inside, OneInside
    <2>3. child[n] # "inside" => Inside' = Inside
      BY <2>1 DEF Inside
    <2>4. Types'
      BY <1>4 DEF dies
    <2>5. OneInside'
      BY <1>4, <2>2, <2>3 DEF dies, OneInside
    <2>6. NobodyBefore'
      BY <1>4 DEF dies, NobodyBefore
    <2>7. StartedOnce'
      BY <1>4 DEF dies, StartedOnce, NobodyBefore
    <2> QED BY <2>4, <2>5, <2>6, <2>7
  <1> QED BY <1>1, <1>2, <1>3, <1>4

LEMMA StepInv == IInv /\ [SupervisorNext]_supervisorVars => IInv'
  <1>1. CASE UNCHANGED supervisorVars
    BY <1>1 DEF supervisorVars, IInv, Types, NobodyBefore, OneInside, StartedOnce, Inside
  <1>2. ASSUME IInv, SupervisorNext PROVE IInv'
    BY <1>2, SupervisorSteps, ProcessSteps DEF SupervisorNext
  <1> QED BY <1>1, <1>2

LEMMA Invariance == SupervisorSpec => []IInv
  <1> QED BY InitInv, StepInv, PTL DEF SupervisorSpec

LEMMA InvImpliesType == IInv => SupervisorTypeOK
  <1> SUFFICES ASSUME IInv PROVE SupervisorTypeOK
    OBVIOUS
  <1>1. Cardinality(Inside) = IF lock = "taken" THEN 1 ELSE 0
    <2>1. CASE lock = "taken"
      <3>1. PICK n \in Name : Inside = {n}
        BY <2>1 DEF IInv, OneInside
      <3> QED BY <2>1, <3>1, FS_Singleton
    <2>2. CASE lock # "taken"
      BY <2>2, FS_EmptySet DEF IInv, OneInside
    <2> QED BY <2>1, <2>2
  <1> QED BY <1>1 DEF IInv, Types, SupervisorTypeOK, Inside

(* The state keeps its types, and the lock of the shared memory is held by *)
(* one process at most, however many there are, fail to start or die       *)
(* (workers_monitor, shared_mem_sessions_cache).                           *)
THEOREM SupervisorTypeCorrect == SupervisorSpec => []SupervisorTypeOK
  <1> QED BY Invariance, InvImpliesType, PTL

-----------------------------------------------------------------------------

LEMMA NobodyIsForgottenSteps ==
    IInv /\ NobodyIsForgotten /\ [SupervisorNext]_supervisorVars => NobodyIsForgotten'
  <1> SUFFICES ASSUME IInv, NobodyIsForgotten, [SupervisorNext]_supervisorVars
               PROVE  NobodyIsForgotten'
    OBVIOUS
  <1> USE DEF IInv, Types, NobodyIsForgotten
  <1>1. CASE main \/ returns \/ supervisor_dies
    BY <1>1 DEF main, returns, supervisor_dies
  <1>2. CASE open_memory
    BY <1>2 DEF open_memory
  <1>3. CASE run
    <2>1. PICK n \in to_start : start(n) /\ to_start' = to_start \ {n}
      BY <1>3 DEF run
    <2>2. supervisor = "starts" /\ on_exit' = on_exit /\ n \in Name
      BY <1>3 DEF run
    <2> QED BY <2>1, <2>2, StartChanges
  <1>4. ASSUME NEW n \in Name, exit_callback(n) PROVE NobodyIsForgotten'
    <2>1. /\ start(n) /\ on_exit' = on_exit \ {n}
          /\ UNCHANGED <<supervisor, to_start>>
      BY <1>4 DEF exit_callback
    <2> QED BY <2>1, StartChanges
  <1>5. ASSUME NEW n \in Name, opens(n) \/ enters(n) \/ leaves(n) PROVE NobodyIsForgotten'
    BY <1>5 DEF opens, enters, leaves
  <1>6. ASSUME NEW n \in Name, dies(n) PROVE NobodyIsForgotten'
    BY <1>6 DEF dies
  <1>7. CASE UNCHANGED supervisorVars
    BY <1>7 DEF supervisorVars
  <1> QED BY <1>1, <1>2, <1>3, <1>4, <1>5, <1>6, <1>7 DEF SupervisorNext

(* Whoever is missing while the supervisor serves is about to be started,  *)
(* or his last spawn failed: the exit callbacks of workers_monitor and     *)
(* supervisor lose nobody, whatever dies and in whatever order.            *)
THEOREM NobodyForgotten == SupervisorSpec => []NobodyIsForgotten
  <1>1. SupervisorInit => NobodyIsForgotten
    BY DEF SupervisorInit, NobodyIsForgotten
  <1> QED BY <1>1, Invariance, NobodyIsForgottenSteps, PTL DEF SupervisorSpec
=============================================================================
