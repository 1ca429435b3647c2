----------------------------- MODULE RunAttempt -----------------------------
(***************************************************************************)
(* One attempt on an issue: AgentRunner.run_issue of agent_runner.py, the  *)
(* life of the Codex app-server process it starts (CodexAppServerSession   *)
(* of codex_client.py), and the delivery fallback that writes the workpad  *)
(* and moves the issue when the agent could not.  One action is the code   *)
(* between two suspensions.  The orchestrator may cancel the attempt at    *)
(* any of them, and at a later one again.                                  *)
(***************************************************************************)
EXTENDS Naturals, FiniteSets

CONSTANTS
    MaxTurns,   \* agent.max_turns
    MaxLosses,  \* bound on the answers to comments that get lost
    MaxMisses   \* bound on the listings that do not show a workpad

ASSUME TurnsAssumption == MaxTurns \in Nat \ {0}
ASSUME LossesAssumption == MaxLosses \in Nat
ASSUME MissesAssumption == MaxMisses \in Nat

VARIABLES
    pc,         \* where the coroutine is suspended
    turn,       \* turn_number
    proc,       \* the app-server process
    outcome,    \* what run_issue is about to return or raise
    struck,     \* where this attempt was cancelled, and "threadless" and "nested":
                \* see below
    board,      \* is the issue in an active state on the tracker?
    workpads,   \* comments of the issue that are workpads
    found,      \* does the comment to be saved have the id of a workpad?
    losses,     \* comments that were saved but never answered for
    misses      \* listings that did not show a workpad that was there

vars == <<pc, turn, proc, outcome, struck, board, workpads, found, losses, misses>>
world == <<board, workpads, losses, misses>>

BeforeSession == {"plan", "materialize", "before_run", "context"}
InSession == {"turn", "refresh", "list", "comment", "move"}
Places == {"create", "spawn", "start", "stopping", "draining", "after_run", "done"}
              \union BeforeSession \union InSession

TypeOK ==
    /\ pc \in Places
    /\ turn \in 0 .. MaxTurns
    /\ proc \in {"none", "alive", "signalled", "dead"}
    /\ outcome \in {"none", "left", "max_turns", "blocked", "failed", "cancelled"}
    /\ struck \subseteq Places \union {"threadless", "nested"}
    /\ board \in {"active", "left"}
    /\ workpads \in 0 .. MaxLosses + MaxMisses + 1
    /\ found \in BOOLEAN
    /\ losses \in 0 .. MaxLosses
    /\ misses \in 0 .. MaxMisses

Init ==
    /\ pc = "create"
    /\ turn = 0
    /\ proc = "none"
    /\ outcome = "none"
    /\ struck = {}
    /\ board = "active"
    /\ workpads \in {0, 1}
    /\ found = FALSE
    /\ losses = 0
    /\ misses = 0

-----------------------------------------------------------------------------
(* Before the session.  A step that is configured off is passed at once.   *)

Follows == [plan |-> "materialize", materialize |-> "before_run",
            before_run |-> "context", context |-> "spawn"]

(* create_for_issue is awaited outside the try: if it fails, no after_run. *)
Created ==
    /\ pc = "create"
    /\ \/ pc' = "plan" /\ UNCHANGED outcome
       \/ pc' = "done" /\ outcome' = "failed"
    /\ UNCHANGED <<turn, proc, struck, found, world>>

Prepared ==
    /\ pc \in BeforeSession
    /\ pc' = Follows[pc]
    /\ UNCHANGED <<turn, proc, outcome, struck, found, world>>

PreparationFails ==
    /\ pc \in BeforeSession \union {"spawn"}
    /\ pc' = "after_run"
    /\ outcome' = "failed"
    /\ UNCHANGED <<turn, proc, struck, found, world>>

(* The repository plan needs a human.                                      *)
PlanNeedsHuman ==
    /\ pc = "plan"
    /\ pc' = "after_run"
    /\ outcome' = "blocked"
    /\ UNCHANGED <<turn, proc, struck, found, world>>

-----------------------------------------------------------------------------
(* The session *)

(* stop(): a process that still runs is signalled and waited for; then the *)
(* task that reads stderr is cancelled and waited for.                     *)
EnterStop(o) ==
    /\ outcome' = o
    /\ proc' = IF proc = "alive" THEN "signalled" ELSE proc
    /\ pc' = IF proc = "alive" THEN "stopping" ELSE "draining"

Spawned ==
    /\ pc = "spawn"
    /\ pc' = "start"
    /\ proc' = "alive"
    /\ UNCHANGED <<turn, outcome, struck, found, world>>

SessionStarted ==
    /\ pc = "start"
    /\ pc' = "turn"
    /\ turn' = 1
    /\ UNCHANGED <<proc, outcome, struck, found, world>>

(* initialize or thread/start fails or times out: start() stops the        *)
(* process before it raises ...                                            *)
LeakingStartFails ==
    /\ pc = "start"
    /\ outcome' = "failed"
    /\ pc' = "after_run"
    /\ UNCHANGED <<turn, proc, struck, found, world>>

StartFails ==
    /\ pc = "start"
    /\ EnterStop("failed")
    /\ UNCHANGED <<turn, struck, found, world>>

(* ... but not when the answer to thread/start has no thread.id: as        *)
(* __aenter__ raises, __aexit__ never runs.                                *)
ThreadMissing ==
    /\ pc = "start"
    /\ pc' = "after_run"
    /\ outcome' = "failed"
    /\ struck' = struck \union {"threadless"}
    /\ UNCHANGED <<turn, proc, found, world>>

StopWaits ==
    /\ pc = "stopping"
    /\ pc' = "draining"
    /\ proc' = "dead"
    /\ UNCHANGED <<turn, outcome, struck, found, world>>

(* An exception that ended the stderr task is raised here and replaces the *)
(* result of the attempt.                                                  *)
StopDrains ==
    /\ pc = "draining"
    /\ pc' = "after_run"
    /\ outcome' \in {outcome, "failed"}
    /\ UNCHANGED <<turn, proc, struck, found, world>>

(* after_run never changes the result.                                     *)
AfterRun ==
    /\ pc = "after_run"
    /\ pc' = "done"
    /\ UNCHANGED <<turn, proc, outcome, struck, found, world>>

ProcessDies ==
    /\ proc \in {"alive", "signalled"}
    /\ pc \in InSession \union {"start", "stopping"}
    /\ proc' = "dead"
    /\ UNCHANGED <<pc, turn, outcome, struck, found, world>>

-----------------------------------------------------------------------------
(* Turns *)

(* A completed turn may still be read from a server that is dead by now.   *)
TurnEnds ==
    /\ pc = "turn"
    /\ pc' = "refresh"
    /\ UNCHANGED <<turn, proc, outcome, struck, found, world>>

(* The turn fails, is interrupted or times out, or the refresh fails.      *)
TurnFails ==
    /\ pc \in {"turn", "refresh"}
    /\ EnterStop("failed")
    /\ UNCHANGED <<turn, struck, found, world>>

(* What the loop does once it knows the state of the issue                 *)
UnboundedConclude(state) ==
    IF state = "left" THEN EnterStop("left") /\ UNCHANGED turn
    ELSE /\ pc' = "turn"
         /\ turn' = IF turn < MaxTurns THEN turn + 1 ELSE turn
         /\ UNCHANGED <<proc, outcome>>

Conclude(state) ==
    IF state = "left" THEN EnterStop("left") /\ UNCHANGED turn
    ELSE IF turn >= MaxTurns THEN EnterStop("max_turns") /\ UNCHANGED turn
    ELSE /\ pc' = "turn"
         /\ turn' = turn + 1
         /\ UNCHANGED <<proc, outcome>>

(* The state is refreshed (an issue that is not found keeps its old one),  *)
(* and an agent that reported it could not deliver is stood in for.        *)
Refreshed ==
    /\ pc = "refresh"
    /\ \E state \in {board, "active"} :
          \/ Conclude(state)
          \/ state = "active" /\ pc' = "list" /\ UNCHANGED <<turn, proc, outcome>>
    /\ UNCHANGED <<struck, found, world>>

-----------------------------------------------------------------------------
(* The delivery fallback *)

(* The comments are listed, 250 of them and no second page, and of the     *)
(* first workpad among them the id is taken, if it has one.                *)
Listed ==
    /\ pc = "list"
    /\ pc' = "comment"
    /\ \/ found' = (workpads > 0) /\ UNCHANGED misses
       \/ /\ workpads > 0
          /\ misses < MaxMisses
          /\ found' = FALSE
          /\ misses' = misses + 1
    /\ UNCHANGED <<turn, proc, outcome, struck, board, workpads, losses>>

(* Any error ends the fallback; the issue counts as still active.          *)
PressingFallbackFails ==
    /\ pc \in {"list", "comment", "move"}
    /\ IF pc = "comment" THEN pc' = "move" /\ UNCHANGED <<turn, proc, outcome>>
                         ELSE Conclude("active")
    /\ UNCHANGED <<struck, found, world>>

FallbackFails ==
    /\ pc \in {"list", "comment", "move"}
    /\ Conclude("active")
    /\ UNCHANGED <<struck, found, world>>

(* save_comment updates the workpad that was found, or creates one.        *)
DuplicatingWritten == workpads' = workpads + 1
Written == workpads' = IF found THEN workpads ELSE workpads + 1

Commented ==
    /\ pc = "comment"
    /\ Written
    /\ pc' = "move"
    /\ UNCHANGED <<turn, proc, outcome, struck, board, found, losses, misses>>

(* It was written but the answer is lost.  The gateway repeats the call,   *)
(* without looking for the workpad again, up to two times, ...             *)
CommentUnanswered ==
    /\ pc = "comment"
    /\ ~found
    /\ losses < MaxLosses
    /\ losses' = losses + 1
    /\ Written
    /\ \/ UNCHANGED <<pc, turn, proc, outcome>>
       \/ Conclude("active")
    /\ UNCHANGED <<struck, board, found, misses>>

(* ... as it may repeat the move, which has the same effect again.         *)
Moved ==
    /\ pc = "move"
    /\ board' = "left"
    /\ Conclude("left") \/ Conclude("active")
    /\ UNCHANGED <<struck, workpads, found, losses, misses>>

-----------------------------------------------------------------------------
(* Cancellation *)

(* A CancelledError is caught by no `except Exception`.  It is lost only   *)
(* while stop() awaits the stderr task: that of the attempt's own session, *)
(* or of the one the classifier or the planner opens in the planning       *)
(* phase, after which the attempt goes on as if nothing had happened.  A   *)
(* save that was under way may or may not have been done by then.          *)
Struck == struck' = struck \union {pc}

CutEarly ==
    /\ pc \in BeforeSession \union {"create", "spawn", "start", "stopping", "after_run"}
    /\ pc' = IF pc \in {"create", "after_run"} THEN "done" ELSE "after_run"
    /\ outcome' = "cancelled"
    /\ Struck
    /\ UNCHANGED <<turn, proc, found, world>>

SwallowingCutInSession ==
    /\ pc \in InSession
    /\ IF pc \in {"list", "comment", "move"} THEN Conclude("active")
                                             ELSE EnterStop("cancelled") /\ UNCHANGED turn
    /\ Struck
    /\ UNCHANGED <<found, world>>

CutInSession ==
    /\ pc \in InSession
    /\ EnterStop("cancelled")
    /\ Struck
    /\ \/ UNCHANGED world
       \/ /\ pc = "comment" /\ ~found /\ losses < MaxLosses
          /\ Written
          /\ losses' = losses + 1
          /\ UNCHANGED <<board, misses>>
       \/ /\ pc = "move"
          /\ board' = "left"
          /\ UNCHANGED <<workpads, losses, misses>>
    /\ UNCHANGED <<turn, found>>

CutNestedLost ==
    /\ pc = "plan"
    /\ struck' = struck \union {"nested"}
    /\ UNCHANGED <<pc, turn, proc, outcome, found, world>>

CutLost ==
    /\ pc = "draining"
    /\ pc' = "after_run"
    /\ Struck
    /\ UNCHANGED <<turn, proc, outcome, found, world>>

-----------------------------------------------------------------------------
(* The world *)

(* People, or the agent, move the issue.                                   *)
BoardMoves ==
    /\ board' \in {"active", "left"}
    /\ UNCHANGED <<pc, turn, proc, outcome, struck, workpads, found, losses, misses>>

(* The agent writes the first workpad.                                     *)
AgentComments ==
    /\ pc = "turn"
    /\ proc = "alive"
    /\ workpads = 0
    /\ workpads' = 1
    /\ UNCHANGED <<pc, turn, proc, outcome, struck, board, found, losses, misses>>

(* The orchestrator dispatches the issue once more.                        *)
Again ==
    /\ pc = "done"
    /\ board = "active"
    /\ pc' = "create"
    /\ turn' = 0
    /\ proc' = "none"
    /\ outcome' = "none"
    /\ struck' = {}
    /\ found' = FALSE
    /\ UNCHANGED world

Proceed ==
    \/ Created \/ Prepared \/ PreparationFails \/ PlanNeedsHuman
    \/ Spawned \/ SessionStarted \/ StartFails \/ ThreadMissing
    \/ TurnEnds \/ TurnFails \/ Refreshed
    \/ Listed \/ FallbackFails \/ Commented \/ CommentUnanswered \/ Moved
    \/ StopWaits \/ StopDrains \/ AfterRun

Cancelled == CutEarly \/ CutInSession \/ CutNestedLost \/ CutLost

Next ==
    \/ Proceed
    \/ Cancelled
    \/ ProcessDies
    \/ BoardMoves
    \/ AgentComments
    \/ Again

(* Most suspensions have no bound: a hook or a git command whose child     *)
(* holds the pipe is awaited without one after it was killed, a request to *)
(* the app-server waits so long for each line and a server that chats      *)
(* keeps sending some, and the tracker's calls are no better.  What is     *)
(* certain to return is the launch of a process, what the attempt computes *)
(* by itself, the wait for a signalled process, which is killed after 5 s, *)
(* and the cancelled stderr task.                                          *)
Bounded == {"context", "spawn", "stopping", "draining"}
Unbounded == Places \ (Bounded \union {"done"})

Fairness == WF_vars(pc \in Bounded /\ Proceed)
Spec == Init /\ [][Next]_vars /\ Fairness

-----------------------------------------------------------------------------
(* Properties *)

(* An attempt leaves no app-server behind, whatever fails in it, unless it *)
(* is cancelled while the server is being started or stopped, or the       *)
(* server gives no thread.id.                                              *)
AppServerIsReaped ==
    pc \in {"after_run", "done"} =>
        \/ proc \in {"none", "dead"}
        \/ struck \intersect {"start", "stopping", "threadless"} # {}

(* The delivery fallback keeps to one workpad over turns and attempts that *)
(* fail half-way: every further one is due to a save that nobody answered  *)
(* for, or to a listing that did not show the workpad that was there.      *)
WorkpadsAreAccounted == workpads <= 1 + losses + misses

(* WORKFLOW.linear-mcp.example.md asks for exactly one.                    *)
OneWorkpadOnly == workpads <= 1

(* Symphony itself never moves an issue to the hand-off state without a    *)
(* workpad that documents the work, and an attempt ends as "left" only     *)
(* when the issue was seen outside the active states or moved there.       *)
HandoffIsDocumented ==
    [][/\ pc = "move" /\ board' # board /\ pc' # "move" => workpads > 0
       /\ outcome = "none" /\ outcome' = "left" => board' = "left"]_vars

(* A cancelled attempt only cleans up: it starts no turn and writes to the *)
(* tracker no more.  The exception is a cancellation that nested sessions  *)
(* swallowed and that has not been repeated since.                         *)
CancelEndsWork ==
    [][struck \ {"nested"} # {} /\ pc # "done" =>
          UNCHANGED <<turn, workpads>> /\ pc' \notin InSession]_vars

(* Every attempt comes to an end and frees its slot, the issue that never  *)
(* leaves the active states included, unless one call that nothing bounds  *)
(* lasts for ever: no sequence of turns, failures, retried saves and       *)
(* cancellations goes on and on.                                           *)
AttemptEnds ==
    \/ pc = "create" ~> pc = "done"
    \/ \E p \in Unbounded : <>[](pc = p)
=============================================================================
