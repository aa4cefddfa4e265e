CONSTANTS
    WorkerName = {"1", "2"}
    MaxDeaths = 3
    MaxFailures = 3
SPECIFICATION SupervisorSpec
INVARIANTS SupervisorTypeOK NobodyIsForgotten
PROPERTIES StartIsClean EveryoneRunsAgain
CHECK_DEADLOCK FALSE
