----------------------- MODULE OrchestratorRefinement -----------------------
(***************************************************************************)
(* The orchestrator implements the lifecycle of IssueLifecycle: which      *)
(* phase an issue is in is read off the orchestrator's dictionaries and    *)
(* tasks, and, until the process has started, off the state file.          *)
(***************************************************************************)
EXTENDS Orchestrator

PhaseOnDisk(i) ==
    IF i \in disk.blocked THEN "blocked"
    ELSE IF disk.retry[i] > 0 THEN "waiting"
    ELSE "idle"

PhaseInMemory(i) ==
    IF i \in blocked THEN "blocked"
    ELSE IF IsRunning(i) THEN "working"
    ELSE IF HasTask(i) THEN "cleaning"
    ELSE IF AsksTracker(i) THEN "asking"
    ELSE IF Waits(i) THEN "waiting"
    ELSE IF i \in claimed THEN "stuck"
    ELSE "idle"

Begun == svc \notin {"down", "starting"}
Phase == [i \in Issues |-> IF Begun THEN PhaseInMemory(i) ELSE PhaseOnDisk(i)]

(* The largest limit any configuration sets                                *)
ASSUME MostSlotsAssumption == \E l \in Limits : \A k \in Limits : k <= l
MostSlots == CHOOSE l \in Limits : \A k \in Limits : k <= l

Lifecycle == INSTANCE IssueLifecycle WITH up <- Begun, phase <- Phase, Capacity <- MostSlots

(* Every step of the orchestrator, through dispatches, ends of workers,    *)
(* cleanups, retries, crashes and restarts, is a step of the lifecycle or  *)
(* leaves every issue in its phase, as long as the file can be written:    *)
(* what a start fails to read of it is lost at that start and only there.  *)
RefinesLifecycle == Lifecycle!Spec
=============================================================================
