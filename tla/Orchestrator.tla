---------------------------- MODULE Orchestrator ----------------------------
(***************************************************************************)
(* The dispatch core of symphony/orchestrator.py: the tick of the service  *)
(* loop, the workers it starts, the handlers that run when a worker ends,  *)
(* the retry timers, the graceful stop, the state file and the restart.    *)
(*                                                                         *)
(* Everything runs on one asyncio loop, and no body of `async with         *)
(* self._lock` awaits anything, so the lock is never contended: a piece of *)
(* code is interrupted only where it really suspends (a tracker request, a *)
(* sleep, a subprocess, a workspace removal).  One action is the code      *)
(* between two such suspensions, persists included.                        *)
(*                                                                         *)
(* The tracker is external and free: an answer may show any issue in any   *)
(* situation, because people and agents edit the board between two calls.  *)
(***************************************************************************)
EXTENDS Naturals, FiniteSets

CONSTANTS
    Issues,         \* issue ids
    Handles,        \* identities of asyncio tasks: an issue's workers and timers
    NoHandle,       \* the absent task
    Views,          \* the situations of an issue the tracker may answer with
    Limits,         \* values agent.max_concurrent_agents takes over reloads
    StateLimit,     \* agent.max_concurrent_agents_by_state, a partial function
    Rank,           \* position of an issue in sort_for_dispatch
    MaxAttempt,     \* attempts from here on are identified (the delay is capped)
    UntypedErrors,  \* may a call raise something else than TrackerError?
    DiskMayFail     \* may the write of the state file fail?

AllViews == {"todo", "progress", "held", "unlabelled", "other", "closed", "gone"}

ASSUME IssuesAssumption == IsFiniteSet(Issues)
ASSUME HandlesAssumption == NoHandle \notin Handles
ASSUME ViewsAssumption == Views \subseteq AllViews
ASSUME LimitsAssumption == Limits \subseteq Nat /\ Limits # {}
ASSUME StateLimitAssumption == \A s \in DOMAIN StateLimit : StateLimit[s] \in Nat
(* The order is total: `sorted` breaks the remaining ties by position.     *)
ASSUME RankAssumption ==
    /\ Rank \in [Issues -> Nat]
    /\ \A i, j \in Issues : Rank[i] = Rank[j] => i = j
ASSUME AttemptAssumption == MaxAttempt \in Nat \ {0}
ASSUME FaultsAssumption == UntypedErrors \in BOOLEAN /\ DiskMayFail \in BOOLEAN

VARIABLES
    svc,        \* "down", "starting", "run" or "stopping"
    limit,      \* max_concurrent_agents of the configuration now in force
    tick,       \* where the service loop is suspended
    ids,        \* running_ids, read before the refresh request is awaited
    unread,     \* issues the file lists as blocked and the start could not read:
                \* a record for the properties, no step of the code depends on it
    running,    \* state.running: the RunningEntry of an issue
    task,       \* the asyncio tasks that run, or clean up after, a worker
    claimed,    \* state.claimed
    blocked,    \* keys of state.blocked
    completed,  \* keys of state.completed
    retry,      \* state.retry_attempts
    timer,      \* the asyncio tasks that run _retry_after
    disk        \* what the state file holds

memory == <<running, task, claimed, blocked, completed, retry, timer>>
loop == <<svc, limit, tick, ids, unread>>
vars == <<svc, limit, tick, ids, unread, running, task, claimed, blocked,
          completed, retry, timer, disk>>

-----------------------------------------------------------------------------
(* Values *)

(* What run_issue can end with: a normal result, a result that needs a     *)
(* human, or anything the done handler retries (a failed result, a crash,  *)
(* a cancellation).  AgentRunner returns no other kind of result.          *)
Results == {"normal", "blocked", "failed"}

(* A worker task: not there; run_issue executing; ended with the done      *)
(* handler not yet run; the done handler removing the workspace.           *)
TaskStates == {"none", "live", "cleaning"} \union Results

ActiveStates == {"todo", "progress"}
StateOf(v) == IF v = "held" THEN "todo" ELSE v

(* Definitions whose name says what they get wrong (EarlyReleased,         *)
(* LoadForgettingBlocks ...) stand before the one they are a faulty        *)
(* variant of.                                                             *)

Attempts == 0 .. MaxAttempt            \* 0 is attempt=None
NextAttempt(a) == IF a < MaxAttempt THEN a + 1 ELSE a

NoEntry == [task |-> NoHandle, forced |-> "none", cleanup |-> FALSE,
            attempt |-> 0, state |-> "none"]
Entries == [task : Handles \union {NoHandle}, forced : {"none", "retry", "release"},
            cleanup : BOOLEAN, attempt : Attempts, state : ActiveStates \union {"none"}]

NoRetry == [attempt |-> 0, timer |-> NoHandle]
Retries == [attempt : Attempts, timer : Handles \union {NoHandle}]

(* A timer task sleeps, then asks the tracker with the attempt it popped   *)
(* and the slot limit of the configuration it read before asking.          *)
IdleTimer == [st |-> "none", attempt |-> 0, limit |-> 0]
Asleep == [st |-> "asleep", attempt |-> 0, limit |-> 0]
Asking(a, l) == [st |-> "asking", attempt |-> a, limit |-> l]
Timers == [st : {"none", "asleep", "asking"}, attempt : Attempts,
           limit : Limits \union {0}]

IsRunning(i) == running[i].task # NoHandle
Running == {i \in Issues : IsRunning(i)}

TypeOK ==
    /\ svc \in {"down", "starting", "run", "stopping"}
    /\ limit \in Limits
    /\ tick \in {"idle", "refresh", "fetch"}
    /\ ids \subseteq Issues
    /\ unread \subseteq Issues
    /\ running \in [Issues -> Entries]
    /\ task \in [Issues -> [Handles -> TaskStates]]
    /\ claimed \subseteq Issues
    /\ blocked \subseteq Issues
    /\ completed \subseteq Issues
    /\ retry \in [Issues -> Retries]
    /\ timer \in [Issues -> [Handles -> Timers]]
    /\ disk \in [blocked : SUBSET Issues, completed : SUBSET Issues,
                 retry : [Issues -> Attempts]]

-----------------------------------------------------------------------------
(* The state file *)

(* _persist_state_locked writes the retry queue, the blocked and the       *)
(* completed issues, never the running ones; the rename is atomic and an   *)
(* OSError is only logged.                                                 *)
Saved == [blocked |-> blocked, completed |-> completed,
          retry |-> [i \in Issues |-> retry[i].attempt]]
Persist == disk' = Saved' \/ (DiskMayFail /\ UNCHANGED disk)

NothingRuns ==
    /\ running' = [i \in Issues |-> NoEntry]
    /\ task' = [i \in Issues |-> [h \in Handles |-> "none"]]
    /\ timer' = [i \in Issues |-> [h \in Handles |-> IdleTimer]]
    /\ tick' = "idle"
    /\ ids' = {}

Forget ==
    /\ NothingRuns
    /\ unread' = {}
    /\ claimed' = {}
    /\ blocked' = {}
    /\ completed' = {}
    /\ retry' = [i \in Issues |-> NoRetry]

Init ==
    /\ svc = "down"
    /\ limit \in Limits
    /\ tick = "idle"
    /\ ids = {}
    /\ unread = {}
    /\ running = [i \in Issues |-> NoEntry]
    /\ task = [i \in Issues |-> [h \in Handles |-> "none"]]
    /\ claimed = {}
    /\ blocked = {}
    /\ completed = {}
    /\ retry = [i \in Issues |-> NoRetry]
    /\ timer = [i \in Issues |-> [h \in Handles |-> IdleTimer]]
    /\ disk = [blocked |-> {}, completed |-> {}, retry |-> [i \in Issues |-> 0]]

(* __init__ loads the state file; start() then awaits the removal of the   *)
(* workspaces of terminal issues, while no timer exists yet.  A file that  *)
(* cannot be read, or that holds no JSON object, is logged and taken as    *)
(* empty, and an entry of it that does not decode is left out: what is     *)
(* read is any part of what is there.  (A TypeError on an odd value in it  *)
(* ends the process before it has changed anything.)                       *)
DueOnDisk == {i \in Issues : disk.retry[i] > 0}

LoadedRetries(due) ==
    [i \in Issues |-> IF i \in due THEN [attempt |-> disk.retry[i], timer |-> NoHandle]
                      ELSE NoRetry]

LoadForgettingBlocks ==
    /\ svc = "down"
    /\ svc' = "starting"
    /\ limit' \in Limits
    /\ blocked' = {}
    /\ unread' = {}
    /\ completed' \in SUBSET disk.completed
    /\ \E due \in SUBSET DueOnDisk :
          /\ retry' = LoadedRetries(due)
          /\ claimed' = disk.blocked \union due
    /\ UNCHANGED <<tick, ids, running, task, timer, disk>>

LoadSkippingTimers ==
    /\ svc = "down"
    /\ svc' = "run"
    /\ limit' \in Limits
    /\ blocked' \in SUBSET disk.blocked
    /\ unread' = disk.blocked \ blocked'
    /\ completed' \in SUBSET disk.completed
    /\ \E due \in SUBSET DueOnDisk :
          /\ retry' = LoadedRetries(due)
          /\ claimed' = blocked' \union due
    /\ UNCHANGED <<tick, ids, running, task, timer, disk>>

Load ==
    /\ svc = "down"
    /\ svc' = "starting"
    /\ limit' \in Limits
    /\ blocked' \in SUBSET disk.blocked
    /\ unread' = disk.blocked \ blocked'
    /\ completed' \in SUBSET disk.completed
    /\ \E due \in SUBSET DueOnDisk :
          /\ retry' = LoadedRetries(due)
          /\ claimed' = blocked' \union due
    /\ UNCHANGED <<tick, ids, running, task, timer, disk>>

(* _restore_retry_timers_locked gives every loaded entry a timer, and the  *)
(* file is written, whatever could not be read of it.                      *)
Started ==
    /\ svc = "starting"
    /\ svc' = "run"
    /\ \E new \in [Issues -> Handles] :
          LET restored == {i \in Issues : retry[i].attempt > 0}
          IN  /\ retry' = [i \in Issues |->
                              IF i \in restored THEN [retry[i] EXCEPT !.timer = new[i]]
                              ELSE retry[i]]
              /\ timer' = [i \in Issues |-> [h \in Handles |->
                              IF i \in restored /\ h = new[i] THEN Asleep
                              ELSE timer[i][h]]]
    /\ UNCHANGED <<limit, tick, ids, running, task, claimed, blocked, completed>>
    /\ Persist
    /\ unread' = unread \cap disk'.blocked

-----------------------------------------------------------------------------
(* Dispatch *)

(* The slots an issue in state s needs: a global one and one of its state, *)
(* when the issues of occ run, each in the state st gives.                 *)
OffByOneFits(s, lim, occ, st) ==
    /\ Cardinality(occ) <= lim
    /\ Cardinality({j \in occ : st[j] = s})
          <= (IF s \in DOMAIN StateLimit THEN StateLimit[s] ELSE lim)

Fits(s, lim, occ, st) ==
    /\ Cardinality(occ) < lim
    /\ Cardinality({j \in occ : st[j] = s})
          < (IF s \in DOMAIN StateLimit THEN StateLimit[s] ELSE lim)

RunningStates == [j \in Issues |-> running[j].state]

(* is_dispatch_eligible_locked, without the slots and the claim            *)
Wanted(i, v) == v \in ActiveStates /\ i \notin Running \union blocked

(* The issues the loop of tick dispatches on the answer ans: it walks the  *)
(* candidates in the order of sort_for_dispatch, so an issue is chosen     *)
(* after those of lower rank have taken their slots.                       *)
Chosen(picked, ans) ==
    \A i \in Issues :
        LET before == {j \in picked : Rank[j] < Rank[i]}
            st == [j \in Issues |-> IF j \in before THEN StateOf(ans[j])
                                    ELSE running[j].state]
        IN  i \in picked <=>
                /\ Wanted(i, ans[i])
                /\ i \notin claimed
                /\ Fits(StateOf(ans[i]), limit, Running \union before, st)

(* dispatch_issue for every issue of picked, as task new[i], attempt a     *)
Launch(picked, new, a, ans) ==
    /\ running' = [i \in Issues |->
                      IF i \in picked
                      THEN [task |-> new[i], forced |-> "none", cleanup |-> FALSE,
                            attempt |-> a, state |-> StateOf(ans[i])]
                      ELSE running[i]]
    /\ task' = [i \in Issues |-> [h \in Handles |->
                      IF i \in picked /\ h = new[i] THEN "live" ELSE task[i][h]]]
    /\ claimed' = claimed \union picked
    /\ retry' = [i \in Issues |-> IF i \in picked THEN NoRetry ELSE retry[i]]

(* schedule_retry: a new timer task for issue i, the old entry's cancelled. *)
(* `own` is the timer task that is executing the caller, if one is.         *)
ScheduleRetry(i, a, own) ==
    /\ \E new \in Handles :
          /\ timer[i][new].st = "none"
          /\ timer' = [timer EXCEPT ![i] = [h \in Handles |->
                          IF h = new THEN Asleep
                          ELSE IF h \in {own, retry[i].timer} THEN IdleTimer
                          ELSE timer[i][h]]]
          /\ retry' = [retry EXCEPT ![i] = [attempt |-> a, timer |-> new]]
    /\ claimed' = claimed \union {i}

-----------------------------------------------------------------------------
(* The tick *)

Terminated(e, outcome, cleanup) == [e EXCEPT !.forced = outcome, !.cleanup = cleanup]

(* Once the running issues are reconciled: validate_for_dispatch reloads   *)
(* the configuration again, and a ConfigError ends the tick.               *)
Validate ==
    /\ limit' \in Limits
    /\ ids' = {}
    /\ \/ tick' = "fetch" /\ UNCHANGED disk
       \/ tick' = "idle" /\ Persist

(* _reconcile_stalled: runs without a sign of life are cancelled for a     *)
(* retry, also one whose release had been asked for already.               *)
MarkStalled(stalled) ==
    running' = [i \in Issues |-> IF i \in stalled THEN Terminated(running[i], "retry", FALSE)
                                 ELSE running[i]]

(* The configuration is reloaded, stalled runs are cancelled for a retry,  *)
(* and the ids of the running issues are read for the refresh request.     *)
TickStart ==
    /\ svc = "run"
    /\ tick = "idle"
    /\ \E stalled \in SUBSET Running : MarkStalled(stalled)
    /\ UNCHANGED <<svc, unread, task, claimed, blocked, completed, retry, timer>>
    /\ IF Running = {}
       THEN Validate
       ELSE /\ limit' \in Limits
            /\ ids' = Running
            /\ tick' = "refresh"
            /\ UNCHANGED disk

(* What reconcile_running_issues makes of entry e when the answer is v     *)
PoppingReconciled(e, v) ==
    CASE v = "gone" -> e
      [] v \in {"closed", "unlabelled", "other"} -> NoEntry
      [] OTHER -> [e EXCEPT !.state = StateOf(v)]

Reconciled(e, v) ==
    CASE v = "gone" -> e
      [] v = "closed" -> Terminated(e, "release", TRUE)
      [] v \in {"unlabelled", "other"} -> Terminated(e, "release", FALSE)
      [] OTHER -> [e EXCEPT !.state = StateOf(v)]

(* The refresh is answered.  A TrackerError acts as an empty answer.       *)
TickRefreshed(ans) ==
    /\ svc = "run"
    /\ tick = "refresh"
    /\ running' = [i \in Issues |-> IF i \in ids /\ IsRunning(i)
                                    THEN Reconciled(running[i], ans[i])
                                    ELSE running[i]]
    /\ UNCHANGED <<svc, unread, task, claimed, blocked, completed, retry, timer>>
    /\ Validate

(* The candidates are answered: every dispatch of this tick is made.       *)
TickDispatch(ans) ==
    /\ svc = "run"
    /\ tick = "fetch"
    /\ tick' = "idle"
    /\ \E picked \in SUBSET Issues : \E new \in [picked -> Handles] :
          /\ Chosen(picked, ans)
          /\ \A i \in picked : task[i][new[i]] = "none"
          /\ Launch(picked, new, 0, ans)
          /\ timer' = [i \in Issues |-> [h \in Handles |->
                          IF i \in picked /\ h = retry[i].timer THEN IdleTimer
                          ELSE timer[i][h]]]
    /\ UNCHANGED <<svc, limit, ids, unread, blocked, completed>>
    /\ Persist

(* The candidate request fails: the poll is marked failed.                 *)
TickFetchFails ==
    /\ svc = "run"
    /\ tick = "fetch"
    /\ tick' = "idle"
    /\ UNCHANGED <<svc, limit, ids, unread, memory>>
    /\ Persist

-----------------------------------------------------------------------------
(* Workers and their done handlers *)

(* run_issue ends.  The result of a task that was cancelled is never read. *)
WorkerEnds(i, h, result) ==
    /\ task[i][h] = "live"
    /\ running[i].forced # "none" => result = "failed"
    /\ task' = [task EXCEPT ![i][h] = result]
    /\ UNCHANGED <<loop, running, claimed, blocked, completed, retry, timer, disk>>

(* What handle_worker_done does with the entry it popped.                  *)
EarlyReleased(i, h) ==
    /\ running[i].forced = "release"
    /\ task' = [task EXCEPT ![i][h] = IF running[i].cleanup THEN "cleaning" ELSE "none"]
    /\ claimed' = claimed \ {i}
    /\ UNCHANGED <<blocked, completed, retry, timer>>

Released(i, h) ==
    /\ running[i].forced = "release"
    /\ IF running[i].cleanup
       THEN /\ task' = [task EXCEPT ![i][h] = "cleaning"]
            /\ UNCHANGED claimed
       ELSE /\ task' = [task EXCEPT ![i][h] = "none"]
            /\ claimed' = claimed \ {i}
    /\ UNCHANGED <<blocked, completed, retry, timer>>

Retried(i, h) ==
    /\ \/ running[i].forced = "retry"
       \/ running[i].forced = "none" /\ task[i][h] = "failed"
    /\ task' = [task EXCEPT ![i][h] = "none"]
    /\ ScheduleRetry(i, NextAttempt(running[i].attempt), NoHandle)
    /\ UNCHANGED <<blocked, completed>>

Completed(i, h) ==
    /\ running[i].forced = "none"
    /\ task[i][h] = "normal"
    /\ task' = [task EXCEPT ![i][h] = "none"]
    /\ completed' = completed \union {i}
    /\ ScheduleRetry(i, 1, NoHandle)
    /\ UNCHANGED blocked

Blocked(i, h) ==
    /\ running[i].forced = "none"
    /\ task[i][h] = "blocked"
    /\ task' = [task EXCEPT ![i][h] = "none"]
    /\ blocked' = blocked \union {i}
    /\ claimed' = claimed \union {i}
    /\ UNCHANGED <<completed, retry, timer>>

(* The handler persists when it has popped the entry, a completion once    *)
(* more when it is recorded, and each change once more at its end: these   *)
(* are the contents the writes before the last one leave.                  *)
EarlierWrites == {Saved, [Saved EXCEPT !.completed = completed']}

(* handle_worker_done looks the entry up by issue id, whatever task ended, *)
(* and returns at once when there is none.                                 *)
HandleWorkerDone(i, h) ==
    /\ task[i][h] \in Results
    /\ UNCHANGED loop
    /\ running' = [running EXCEPT ![i] = NoEntry]
    /\ IF IsRunning(i)
       THEN /\ Released(i, h) \/ Retried(i, h) \/ Completed(i, h) \/ Blocked(i, h)
            /\ Persist \/ (DiskMayFail /\ disk' \in EarlierWrites)
       ELSE /\ task' = [task EXCEPT ![i][h] = "none"]
            /\ UNCHANGED <<claimed, blocked, completed, retry, timer, disk>>

(* _cleanup_workspace returns, and the claim is dropped only now.          *)
CleanupReturns(i, h) ==
    /\ task[i][h] = "cleaning"
    /\ task' = [task EXCEPT ![i][h] = "none"]
    /\ claimed' = claimed \ {i}
    /\ UNCHANGED <<loop, running, blocked, completed, retry, timer>>
    /\ Persist

(* _cleanup_workspace raises: the handler dies, the claim stays.           *)
CleanupRaises(i, h) ==
    /\ UntypedErrors
    /\ task[i][h] = "cleaning"
    /\ task' = [task EXCEPT ![i][h] = "none"]
    /\ UNCHANGED <<loop, running, claimed, blocked, completed, retry, timer, disk>>

-----------------------------------------------------------------------------
(* Retry timers *)

(* The sleep of _retry_after is over: handle_retry_timer pops whatever     *)
(* entry the issue has and asks the tracker for candidates.                *)
UnsavedTimerFires(i, h) ==
    /\ timer[i][h].st = "asleep"
    /\ retry' = [retry EXCEPT ![i] = NoRetry]
    /\ timer' = [timer EXCEPT ![i][h] =
                    IF retry[i].attempt = 0 THEN IdleTimer
                    ELSE Asking(retry[i].attempt, limit)]
    /\ UNCHANGED <<loop, running, task, claimed, blocked, completed, disk>>

TimerFires(i, h) ==
    /\ timer[i][h].st = "asleep"
    /\ retry' = [retry EXCEPT ![i] = NoRetry]
    /\ timer' = [timer EXCEPT ![i][h] =
                    IF retry[i].attempt = 0 THEN IdleTimer
                    ELSE Asking(retry[i].attempt, limit)]
    /\ UNCHANGED <<loop, running, task, claimed, blocked, completed>>
    /\ IF retry[i].attempt = 0 THEN UNCHANGED disk ELSE Persist

(* The candidates, in which the issue is v, arrive: not among them ...     *)
ClaimKeepingRetryReleased(i, h, v) ==
    /\ timer[i][h].st = "asking"
    /\ v \in {"other", "closed", "gone"}
    /\ timer' = [timer EXCEPT ![i][h] = IdleTimer]
    /\ UNCHANGED <<loop, running, task, claimed, blocked, completed, retry, disk>>

RetryReleased(i, h, v) ==
    /\ timer[i][h].st = "asking"
    /\ v \in {"other", "closed", "gone"}
    /\ timer' = [timer EXCEPT ![i][h] = IdleTimer]
    /\ claimed' = claimed \ {i}
    /\ UNCHANGED <<loop, running, task, blocked, completed, retry>>
    /\ Persist

RetryFits(i, h, v) ==
    /\ Wanted(i, v)
    /\ Fits(StateOf(v), timer[i][h].limit, Running, RunningStates)

(* ... a candidate for which there is no slot, or that is not eligible ... *)
RequeuedAfresh(i, h, v) ==
    /\ timer[i][h].st = "asking"
    /\ v \in {"todo", "progress", "held", "unlabelled"}
    /\ ~RetryFits(i, h, v)
    /\ ScheduleRetry(i, 1, h)
    /\ UNCHANGED <<loop, running, task, blocked, completed>>
    /\ Persist

RetryRequeued(i, h, v) ==
    /\ timer[i][h].st = "asking"
    /\ v \in {"todo", "progress", "held", "unlabelled"}
    /\ ~RetryFits(i, h, v)
    /\ ScheduleRetry(i, timer[i][h].attempt, h)
    /\ UNCHANGED <<loop, running, task, blocked, completed>>
    /\ Persist

(* ... or one that is dispatched by the timer task itself.                 *)
RetryDispatched(i, h, v) ==
    /\ timer[i][h].st = "asking"
    /\ RetryFits(i, h, v)
    /\ \E g \in Handles :
          /\ task[i][g] = "none"
          /\ Launch({i}, [j \in {i} |-> g], timer[i][h].attempt, [j \in {i} |-> v])
    /\ timer' = [timer EXCEPT ![i] = [g \in Handles |->
                    IF g \in {h, retry[i].timer} THEN IdleTimer ELSE timer[i][g]]]
    /\ UNCHANGED <<loop, blocked, completed>>
    /\ Persist

RetryPollFails(i, h) ==
    /\ timer[i][h].st = "asking"
    /\ ScheduleRetry(i, NextAttempt(timer[i][h].attempt), h)
    /\ UNCHANGED <<loop, running, task, blocked, completed>>
    /\ Persist

(* Another exception than TrackerError ends the timer task: the claim is   *)
(* kept by nobody.                                                         *)
RetryPollRaises(i, h) ==
    /\ UntypedErrors
    /\ timer[i][h].st = "asking"
    /\ timer' = [timer EXCEPT ![i][h] = IdleTimer]
    /\ UNCHANGED <<loop, running, task, claimed, blocked, completed, retry, disk>>

-----------------------------------------------------------------------------
(* The end of the process *)

(* stop(): the loop is cancelled, workers are released, timers cancelled.  *)
(* A timer task whose entry is already popped is not found and goes on.    *)
Stop ==
    /\ svc = "run"
    /\ svc' = "stopping"
    /\ tick' = "idle"
    /\ ids' = {}
    /\ running' = [i \in Issues |-> IF IsRunning(i)
                                    THEN [running[i] EXCEPT !.forced = "release"]
                                    ELSE running[i]]
    /\ timer' = [i \in Issues |-> [h \in Handles |->
                    IF h = retry[i].timer THEN IdleTimer ELSE timer[i][h]]]
    /\ UNCHANGED <<limit, unread, task, claimed, blocked, completed, retry, disk>>

(* gather() has seen every cancelled worker end; the state is persisted.   *)
StopReturns ==
    /\ svc = "stopping"
    /\ \A i \in Issues, h \in Handles :
          running[i].forced = "release" => task[i][h] # "live"
    /\ svc' = "down"
    /\ disk' = Saved \/ (DiskMayFail /\ UNCHANGED disk)
    /\ Forget
    /\ UNCHANGED limit

(* The process dies anywhere else.                                         *)
Crash ==
    /\ svc # "down"
    /\ svc' = "down"
    /\ Forget
    /\ UNCHANGED <<limit, disk>>

(* The process dies inside a completing handler, between two writes: the   *)
(* issue may be recorded as completed and its continuation is not.         *)
CrashMidCompletion(i, h) ==
    /\ IsRunning(i)
    /\ running[i].forced = "none"
    /\ task[i][h] = "normal"
    /\ disk' \in {Saved, [Saved EXCEPT !.completed = @ \union {i}]}
    /\ svc' = "down"
    /\ Forget
    /\ UNCHANGED limit

-----------------------------------------------------------------------------
WorkerStep(i, h) ==
    \/ \E r \in Results : WorkerEnds(i, h, r)
    \/ HandleWorkerDone(i, h)
    \/ CleanupReturns(i, h)
    \/ CleanupRaises(i, h)

TimerStep(i, h) ==
    \/ TimerFires(i, h)
    \/ \E v \in Views : \/ RetryReleased(i, h, v)
                        \/ RetryRequeued(i, h, v)
                        \/ RetryDispatched(i, h, v)
    \/ RetryPollFails(i, h)
    \/ RetryPollRaises(i, h)

Next ==
    \/ Load
    \/ Started
    \/ TickStart
    \/ \E ans \in [ids -> Views] : TickRefreshed(ans)
    \/ \E ans \in [Issues -> Views] : TickDispatch(ans)
    \/ TickFetchFails
    \/ \E i \in Issues, h \in Handles :
          WorkerStep(i, h) \/ TimerStep(i, h) \/ CrashMidCompletion(i, h)
    \/ Stop
    \/ StopReturns
    \/ Crash

Spec == Init /\ [][Next]_vars

-----------------------------------------------------------------------------
(* Safety *)

HasTask(i) == \E h \in Handles : task[i][h] # "none"
HasTimer(i) == \E h \in Handles : timer[i][h].st # "none"
AsksTracker(i) == \E h \in Handles : timer[i][h].st = "asking"
Waits(i) == retry[i].attempt > 0

(* An issue is in the hands of one coroutine at most: one worker or its    *)
(* done handler, one timer, or the human it is blocked on.  In particular  *)
(* two workers never share an issue's workspace, and no worker runs in a   *)
(* workspace that a done handler is still removing.                        *)
ExclusiveOwner ==
    \A i \in Issues :
        /\ \A g, h \in Handles :
              /\ task[i][g] # "none" /\ task[i][h] # "none" => g = h
              /\ timer[i][g].st # "none" /\ timer[i][h].st # "none" => g = h
        /\ HasTask(i) => ~HasTimer(i) /\ ~Waits(i)
        /\ AsksTracker(i) => ~Waits(i)
        /\ i \in blocked => ~HasTask(i) /\ ~HasTimer(i) /\ ~Waits(i)

(* handle_worker_done pops by issue id: the entry it finds is always that  *)
(* of the worker whose end it handles, and no worker runs without an entry *)
(* that a later tick could cancel it through.                              *)
HandlerPopsOwnEntry ==
    \A i \in Issues, h \in Handles :
        running[i].task = h <=> task[i][h] \in {"live"} \union Results

(* handle_retry_timer pops by issue id: the entry it finds is always its   *)
(* own; and while the service runs no entry of the retry queue is left     *)
(* without a timer that will take it up.                                   *)
RetryHasItsTimer ==
    \A i \in Issues :
        /\ \A h \in Handles : timer[i][h].st = "asleep" => Waits(i) /\ retry[i].timer = h
        /\ svc = "run" /\ Waits(i) => \E h \in Handles : timer[i][h].st = "asleep"

(* Whatever is going on for an issue, it is claimed, so that no tick       *)
(* dispatches it a second time.                                            *)
ClaimsCoverWork ==
    \A i \in Issues :
        HasTask(i) \/ HasTimer(i) \/ Waits(i) \/ i \in blocked => i \in claimed

(* What makes the above inductive: a retry that is due carries an attempt; *)
(* no task or timer outlives the process; the file never lists an issue    *)
(* both as blocked and as due for a retry.                                 *)
DueRetryHasAttempt ==
    \A i \in Issues, h \in Handles :
        timer[i][h].st = "asking" => timer[i][h].attempt > 0

QuietWhileDown ==
    svc \in {"down", "starting"} => \A i \in Issues : ~HasTask(i) /\ ~HasTimer(i)

FileIsConsistent == \A i \in disk.blocked : disk.retry[i] = 0

Inv ==
    /\ TypeOK
    /\ ExclusiveOwner
    /\ HandlerPopsOwnEntry
    /\ RetryHasItsTimer
    /\ ClaimsCoverWork
    /\ DueRetryHasAttempt
    /\ QuietWhileDown
    /\ FileIsConsistent

(* Without untyped exceptions, the converse of ClaimsCoverWork: a claim is *)
(* always held by something that will end it or by a human's block, so no  *)
(* issue is barred from dispatch until the next restart.                   *)
NoOrphanClaim ==
    ~UntypedErrors =>
        \A i \in claimed : HasTask(i) \/ HasTimer(i) \/ Waits(i) \/ i \in blocked

(* When no write fails, the file holds the queue and the blocked and       *)
(* completed issues as they are at every point where the running process   *)
(* can be interrupted: each handler persists what it changed before it     *)
(* suspends, and the start what it could read.                             *)
FileIsCurrent == svc \in {"run", "stopping"} /\ ~DiskMayFail => disk = Saved

(* A step that dispatches leaves no more workers than the limit its        *)
(* dispatcher read, in all and in the state of each issue it dispatched:   *)
(* the limit now in force for a tick, the one read before the tracker was  *)
(* asked for a retry handler.                                              *)
WithinLimits(lim) ==
    /\ Cardinality(Running') <= lim
    /\ \A i \in Running' \ Running :
          LET s == running'[i].state
          IN  s \in DOMAIN StateLimit =>
                  Cardinality({j \in Running' : running'[j].state = s}) <= StateLimit[s]

SlotsRespected ==
    [][Running' \subseteq Running
       \/ WithinLimits(limit)
       \/ \E i \in Running' \ Running, h \in Handles :
             timer[i][h].st = "asking" /\ WithinLimits(timer[i][h].limit)]_vars

(* An issue the state file records as blocked is never run again, through  *)
(* crashes, restarts and writes that fail: nothing in the code unblocks.   *)
(* The exception is an entry that the start could not read: the issue is   *)
(* as unknown as any other, and may be run, until it is blocked anew.      *)
BlockedStaysBlocked ==
    [][\A i \in disk.blocked \ (unread \ blocked) :
          i \in disk'.blocked /\ ~IsRunning(i)']_vars

(* docs/IMPLEMENTATION.md says that retry state is in memory only, so that *)
(* a restarted service would find an empty retry queue.                    *)
RetryStateIsInMemory == svc = "starting" => \A i \in Issues : ~Waits(i)

(* The attempt an issue is at, in whichever hands it is                    *)
AttemptOf(i) ==
    IF IsRunning(i) THEN running[i].attempt
    ELSE IF Waits(i) THEN retry[i].attempt
    ELSE LET asking == {h \in Handles : timer[i][h].st = "asking"}
         IN  IF asking = {} THEN 0 ELSE timer[i][CHOOSE h \in asking : TRUE].attempt

(* While an issue stays in hand its attempt, hence its backoff, never goes *)
(* back, through requeues for want of a slot, failed polls, stalls and     *)
(* crashes of workers; only a normal end starts it again at 1.             *)
InHands(i) == IsRunning(i) \/ Waits(i) \/ AsksTracker(i)

BackoffNeverShrinks ==
    [][\A i \in Issues :
          InHands(i) /\ InHands(i)' =>
              \/ AttemptOf(i)' >= AttemptOf(i)
              \/ \E h \in Handles : task[i][h] = "normal" /\ task'[i][h] = "none"]_vars
=============================================================================
