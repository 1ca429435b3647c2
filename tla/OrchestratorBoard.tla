-------------------------- MODULE OrchestratorBoard --------------------------
(***************************************************************************)
(* The orchestrator beside a board that keeps a state per issue and        *)
(* answers with it.  Orchestrator leaves every answer free, which is right *)
(* for safety; what eventually happens needs answers that agree with each  *)
(* other, and a statement of which calls keep succeeding.                  *)
(***************************************************************************)
EXTENDS Orchestrator

(* A refresh that fails tells of no issue.                                 *)
ASSUME GoneAssumption == "gone" \in Views

VARIABLE board      \* the situation of each issue on the tracker

boardVars == <<vars, board>>
Still == UNCHANGED board

(* A person, or an agent through its own tools, moves an issue.            *)
BoardMoves(i) ==
    /\ \E v \in Views \ {"gone"} : board' = [board EXCEPT ![i] = v]
    /\ UNCHANGED vars

NoAnswer == [i \in Issues |-> "gone"]

(* The steps of Orchestrator, with the board's answer or a TrackerError    *)
Refreshed == TickRefreshed(board)
RefreshFails == TickRefreshed(NoAnswer)
Dispatched == TickDispatch(board)
RetryAnswered(i, h) ==
    \/ RetryReleased(i, h, board[i])
    \/ RetryRequeued(i, h, board[i])
    \/ RetryDispatched(i, h, board[i])

ServiceStep ==
    \/ Load
    \/ Started
    \/ TickStart
    \/ Refreshed
    \/ RefreshFails
    \/ Dispatched
    \/ TickFetchFails
    \/ \E i \in Issues, h \in Handles :
          \/ WorkerStep(i, h)
          \/ TimerFires(i, h)
          \/ RetryAnswered(i, h)
          \/ RetryPollFails(i, h)
          \/ RetryPollRaises(i, h)
    \/ Stop
    \/ StopReturns
    \/ Crash

BoardInit == Init /\ board \in [Issues -> Views \ {"gone"}]
BoardNext ==
    \/ ServiceStep /\ Still
    \/ \E i \in Issues : BoardMoves(i)

(* asyncio runs every ready coroutine and every due timer.  That a worker, *)
(* cancelled or not, and a removal of a workspace end is assumed here:     *)
(* max_turns and the timeouts see to it, unless a process of a hook or of  *)
(* git holds its output for ever, or a server chats on (RunAttempt names   *)
(* these cases).  A request that is made again and again, and a            *)
(* configuration that is validated again and again, succeed now and then.  *)
Fairness ==
    /\ WF_boardVars(Load /\ Still)
    /\ WF_boardVars(Started /\ Still)
    /\ WF_boardVars(TickStart /\ Still)
    /\ WF_boardVars((Refreshed \/ RefreshFails) /\ Still)
    /\ WF_boardVars((Dispatched \/ TickFetchFails) /\ Still)
    /\ SF_boardVars(Refreshed /\ Still)
    /\ SF_boardVars(Dispatched /\ Still)
    /\ SF_boardVars((TickStart \/ Refreshed) /\ tick' = "fetch" /\ Still)
    /\ \A i \in Issues : \A h \in Handles :
          /\ WF_boardVars((\E r \in Results : WorkerEnds(i, h, r)) /\ Still)
          /\ WF_boardVars(HandleWorkerDone(i, h) /\ Still)
          /\ WF_boardVars((CleanupReturns(i, h) \/ CleanupRaises(i, h)) /\ Still)
          /\ WF_boardVars(TimerFires(i, h) /\ Still)
          /\ SF_boardVars(RetryAnswered(i, h) /\ Still)

BoardSpec == BoardInit /\ [][BoardNext]_boardVars /\ Fairness

Up == svc = "run"

(* An issue that leaves the active states for good, while the service      *)
(* stays up, is let go of: its worker is cancelled or its retry dropped,   *)
(* whatever stalls, failed polls and reloads come in between.              *)
LeftIssueIsReleased ==
    \A i \in Issues :
        <>[](Up /\ board[i] \in {"closed", "other"}) => <>[](i \notin claimed \/ i \in blocked)

(* With a slot for everyone, an issue that stays ready for dispatch, while *)
(* the service stays up, is worked on again and again or handed to a       *)
(* human: no sequence of failures, stalls and requeues drops it.           *)
ReadyIssueIsWorkedOn ==
    (\A l \in Limits : Cardinality(Issues) <= l) =>
        \A i \in Issues :
            <>[](Up /\ board[i] = "progress") => []<>(IsRunning(i) \/ i \in blocked)
=============================================================================
