------------------------- MODULE OrchestratorProofs -------------------------
(***************************************************************************)
(* Theorems of Orchestrator, for any issues, limits, views and handles,    *)
(* with or without untyped errors, failing reads and failing writes of the *)
(* state file; when no write fails, its refinement of IssueLifecycle; and  *)
(* what of it holds beside a board that answers consistently.              *)
(***************************************************************************)
EXTENDS OrchestratorRefinement, OrchestratorBoard, FiniteSetTheorems, TLAPS

LEMMA NextAttemptType ==
    ASSUME NEW a \in Attempts
    PROVE  NextAttempt(a) \in Attempts /\ 1 \in Attempts
BY AttemptAssumption DEF NextAttempt, Attempts

LEMMA NoEntryType == NoEntry \in Entries /\ NoRetry \in Retries /\ IdleTimer \in Timers
BY AttemptAssumption DEF NoEntry, Entries, NoRetry, Retries, IdleTimer, Timers, Attempts

LEMMA SavedType ==
    ASSUME TypeOK
    PROVE  Saved \in [blocked : SUBSET Issues, completed : SUBSET Issues,
                      retry : [Issues -> Attempts]]
BY DEF TypeOK, Saved, Retries

LEMMA PersistType ==
    ASSUME TypeOK, Persist \/ disk' \in EarlierWrites,
           blocked' \subseteq Issues, completed' \subseteq Issues, retry' \in [Issues -> Retries]
    PROVE  disk' \in [blocked : SUBSET Issues, completed : SUBSET Issues,
                      retry : [Issues -> Attempts]]
<1>1. CASE Persist
  BY <1>1 DEF TypeOK, Persist, Saved, Retries
<1>2. CASE disk' = Saved
  BY <1>2, SavedType
<1>3. CASE disk' = [Saved EXCEPT !.completed = completed']
  BY <1>3, SavedType
<1>. QED  BY <1>1, <1>2, <1>3 DEF EarlierWrites

LEMMA ForgetType ==
    ASSUME Forget
    PROVE  /\ tick' = "idle" /\ ids' = {} /\ unread' = {}
           /\ running' \in [Issues -> Entries]
           /\ task' \in [Issues -> [Handles -> TaskStates]]
           /\ claimed' \subseteq Issues /\ blocked' \subseteq Issues
           /\ completed' \subseteq Issues
           /\ retry' \in [Issues -> Retries]
           /\ timer' \in [Issues -> [Handles -> Timers]]
BY NoEntryType DEF Forget, NothingRuns, TaskStates

LEMMA TaskUpdateType ==
    ASSUME TypeOK, NEW i \in Issues, NEW h \in Handles, NEW s \in TaskStates,
           task' = [task EXCEPT ![i][h] = s]
    PROVE  task' \in [Issues -> [Handles -> TaskStates]]
BY DEF TypeOK

LEMMA ScheduleType ==
    ASSUME TypeOK, NEW i \in Issues, NEW a \in Attempts, NEW own, ScheduleRetry(i, a, own)
    PROVE  /\ timer' \in [Issues -> [Handles -> Timers]]
           /\ retry' \in [Issues -> Retries]
           /\ claimed' \subseteq Issues
<1>1. PICK new \in Handles :
        /\ timer' = [timer EXCEPT ![i] = [h \in Handles |->
                        IF h = new THEN Asleep
                        ELSE IF h \in {own, retry[i].timer} THEN IdleTimer
                        ELSE timer[i][h]]]
        /\ retry' = [retry EXCEPT ![i] = [attempt |-> a, timer |-> new]]
  BY DEF ScheduleRetry
<1>2. Asleep \in Timers /\ IdleTimer \in Timers
  BY AttemptAssumption DEF Asleep, IdleTimer, Timers, Attempts
<1>3. timer' \in [Issues -> [Handles -> Timers]]
  BY <1>1, <1>2 DEF TypeOK
<1>4. [attempt |-> a, timer |-> new] \in Retries
  BY DEF Retries
<1>5. retry' \in [Issues -> Retries]
  BY <1>1, <1>4 DEF TypeOK
<1>. QED  BY <1>3, <1>5 DEF ScheduleRetry, TypeOK

LEMMA LaunchType ==
    ASSUME TypeOK, NEW picked \in SUBSET Issues, NEW new \in [picked -> Handles],
           NEW a \in Attempts, NEW ans,
           \A i \in picked : ans[i] \in ActiveStates,
           Launch(picked, new, a, ans)
    PROVE  /\ running' \in [Issues -> Entries]
           /\ task' \in [Issues -> [Handles -> TaskStates]]
           /\ claimed' \subseteq Issues
           /\ retry' \in [Issues -> Retries]
<1>1. ASSUME NEW i \in picked
      PROVE  [task |-> new[i], forced |-> "none", cleanup |-> FALSE,
              attempt |-> a, state |-> StateOf(ans[i])] \in Entries
  BY <1>1 DEF Entries, ActiveStates, StateOf
<1>2. running' \in [Issues -> Entries]
  BY <1>1 DEF Launch, TypeOK
<1>3. task' \in [Issues -> [Handles -> TaskStates]]
  BY DEF Launch, TypeOK, TaskStates
<1>. QED  BY <1>2, <1>3, NoEntryType DEF Launch, TypeOK

(* A reconciled entry is an entry.                                         *)
LEMMA ReconciledType ==
    ASSUME NEW e \in Entries, NEW v \in Views
    PROVE  Reconciled(e, v) \in Entries
BY ViewsAssumption DEF Reconciled, Terminated, Entries, StateOf, ActiveStates, AllViews

LEMMA ValidateType ==
    ASSUME TypeOK, Validate,
           blocked' \subseteq Issues, completed' \subseteq Issues, retry' \in [Issues -> Retries]
    PROVE  /\ limit' \in Limits
           /\ ids' \subseteq Issues
           /\ tick' \in {"idle", "refresh", "fetch"}
           /\ disk' \in [blocked : SUBSET Issues, completed : SUBSET Issues,
                         retry : [Issues -> Attempts]]
BY PersistType DEF Validate, TypeOK

LEMMA WorkerTyping ==
    ASSUME TypeOK, NEW i \in Issues, NEW h \in Handles, WorkerStep(i, h)
    PROVE  TypeOK'
<1>1. CASE \E r \in Results : WorkerEnds(i, h, r)
  BY <1>1 DEF WorkerEnds, loop, TypeOK, TaskStates
<1>2. CASE HandleWorkerDone(i, h)
  <2>1. running' \in [Issues -> Entries]
    BY <1>2, NoEntryType DEF HandleWorkerDone, TypeOK
  <2>2. CASE ~IsRunning(i)
    <3>1. task' = [task EXCEPT ![i][h] = "none"]
      BY <1>2, <2>2 DEF HandleWorkerDone
    <3>2. task' \in [Issues -> [Handles -> TaskStates]]
      BY <3>1, TaskUpdateType DEF TaskStates
    <3>. QED  BY <1>2, <2>1, <2>2, <3>2 DEF HandleWorkerDone, loop, TypeOK
  <2>3. CASE IsRunning(i)
    <3>1. Persist \/ disk' \in EarlierWrites
      BY <1>2, <2>3 DEF HandleWorkerDone
    <3>2. /\ task' \in [Issues -> [Handles -> TaskStates]]
          /\ claimed' \subseteq Issues /\ blocked' \subseteq Issues
          /\ completed' \subseteq Issues
          /\ retry' \in [Issues -> Retries]
          /\ timer' \in [Issues -> [Handles -> Timers]]
      <4>1. CASE Released(i, h)
        <5>1. CASE running[i].cleanup
          BY <4>1, <5>1, TaskUpdateType DEF Released, TypeOK, TaskStates
        <5>2. CASE ~running[i].cleanup
          BY <4>1, <5>2, TaskUpdateType DEF Released, TypeOK, TaskStates
        <5>. QED  BY <5>1, <5>2
      <4>2. CASE Retried(i, h)
        <5>1. NextAttempt(running[i].attempt) \in Attempts
          BY NextAttemptType DEF TypeOK, Entries
        <5>. QED  BY <4>2, <5>1, ScheduleType DEF Retried, TypeOK, TaskStates
      <4>3. CASE Completed(i, h)
        <5>1. 1 \in Attempts
          BY NextAttemptType DEF TypeOK, Entries
        <5>. QED  BY <4>3, <5>1, ScheduleType DEF Completed, TypeOK, TaskStates
      <4>4. CASE Blocked(i, h)
        BY <4>4 DEF Blocked, TypeOK, TaskStates
      <4>. QED  BY <1>2, <2>3, <4>1, <4>2, <4>3, <4>4 DEF HandleWorkerDone
    <3>. QED  BY <1>2, <2>1, <3>1, <3>2, PersistType DEF HandleWorkerDone, loop, TypeOK
  <2>. QED  BY <2>2, <2>3
<1>3. CASE CleanupReturns(i, h)
  BY <1>3, PersistType DEF CleanupReturns, loop, TypeOK, TaskStates
<1>4. CASE CleanupRaises(i, h)
  BY <1>4 DEF CleanupRaises, loop, TypeOK, TaskStates
<1>. QED  BY <1>1, <1>2, <1>3, <1>4 DEF WorkerStep

LEMMA TimerTyping ==
    ASSUME TypeOK, NEW i \in Issues, NEW h \in Handles, TimerStep(i, h)
    PROVE  TypeOK'
<1>0. /\ timer[i][h] \in Timers
      /\ timer[i][h].attempt \in Attempts
      /\ NextAttempt(timer[i][h].attempt) \in Attempts
  BY NextAttemptType DEF TypeOK, Timers
<1>1. CASE TimerFires(i, h)
  <2>1. IdleTimer \in Timers /\ Asking(retry[i].attempt, limit) \in Timers
    BY NoEntryType DEF TypeOK, Asking, Timers, Retries
  <2>2. timer' \in [Issues -> [Handles -> Timers]] /\ retry' \in [Issues -> Retries]
    BY <1>1, <2>1, NoEntryType DEF TimerFires, TypeOK
  <2>. QED  BY <1>1, <2>2, PersistType DEF TimerFires, loop, TypeOK
<1>2. ASSUME NEW v \in Views, RetryReleased(i, h, v)
      PROVE  TypeOK'
  BY <1>2, NoEntryType, PersistType DEF RetryReleased, loop, TypeOK
<1>3. ASSUME NEW v \in Views, RetryRequeued(i, h, v)
      PROVE  TypeOK'
  BY <1>0, <1>3, ScheduleType, PersistType DEF RetryRequeued, loop, TypeOK
<1>4. ASSUME NEW v \in Views, RetryDispatched(i, h, v)
      PROVE  TypeOK'
  <2>1. PICK g \in Handles :
          Launch({i}, [j \in {i} |-> g], timer[i][h].attempt, [j \in {i} |-> v])
    BY <1>4 DEF RetryDispatched
  <2>2. v \in ActiveStates
    BY <1>4 DEF RetryDispatched, RetryFits, Wanted
  <2>3. /\ running' \in [Issues -> Entries]
        /\ task' \in [Issues -> [Handles -> TaskStates]]
        /\ claimed' \subseteq Issues
        /\ retry' \in [Issues -> Retries]
    <3> DEFINE new == [j \in {i} |-> g]
               ans == [j \in {i} |-> v]
    <3>1. /\ {i} \in SUBSET Issues
          /\ new \in [{i} -> Handles]
          /\ \A j \in {i} : ans[j] \in ActiveStates
          /\ Launch({i}, new, timer[i][h].attempt, ans)
      BY <2>1, <2>2
    <3> HIDE DEF new, ans
    <3>. QED  BY <1>0, <3>1, LaunchType
  <2>4. timer' \in [Issues -> [Handles -> Timers]]
    BY <1>4, NoEntryType DEF RetryDispatched, TypeOK
  <2>. QED  BY <1>4, <2>3, <2>4, PersistType DEF RetryDispatched, loop, TypeOK
<1>5. CASE RetryPollFails(i, h)
  BY <1>0, <1>5, ScheduleType, PersistType DEF RetryPollFails, loop, TypeOK
<1>6. CASE RetryPollRaises(i, h)
  BY <1>6, NoEntryType DEF RetryPollRaises, loop, TypeOK
<1>. QED  BY <1>1, <1>2, <1>3, <1>4, <1>5, <1>6 DEF TimerStep

LEMMA LoopTyping ==
    ASSUME TypeOK,
           \/ TickStart
           \/ \E ans \in [ids -> Views] : TickRefreshed(ans)
           \/ \E ans \in [Issues -> Views] : TickDispatch(ans)
           \/ TickFetchFails
    PROVE  TypeOK'
<1>1. CASE TickStart
  <2>1. PICK stalled \in SUBSET Running :
          running' = [i \in Issues |-> IF i \in stalled
                                       THEN Terminated(running[i], "retry", FALSE)
                                       ELSE running[i]]
    BY <1>1 DEF TickStart, MarkStalled
  <2>2. \A e \in Entries : Terminated(e, "retry", FALSE) \in Entries
    BY DEF Terminated, Entries
  <2>3. running' \in [Issues -> Entries]
    BY <2>1, <2>2 DEF TypeOK
  <2>4. CASE Running = {}
    BY <1>1, <2>3, <2>4, ValidateType DEF TickStart, MarkStalled, TypeOK
  <2>5. CASE Running # {}
    BY <1>1, <2>3, <2>5 DEF TickStart, MarkStalled, TypeOK, Running
  <2>. QED  BY <2>4, <2>5
<1>2. ASSUME NEW ans \in [ids -> Views], TickRefreshed(ans)
      PROVE  TypeOK'
  <2>1. \A i \in ids : Reconciled(running[i], ans[i]) \in Entries
    BY ReconciledType DEF TypeOK
  <2>2. running' \in [Issues -> Entries]
    BY <1>2, <2>1 DEF TickRefreshed, TypeOK
  <2>. QED  BY <1>2, <2>2, ValidateType DEF TickRefreshed, TypeOK
<1>3. ASSUME NEW ans \in [Issues -> Views], TickDispatch(ans)
      PROVE  TypeOK'
  <2>0. PICK picked \in SUBSET Issues : \E new \in [picked -> Handles] :
          /\ Chosen(picked, ans)
          /\ Launch(picked, new, 0, ans)
          /\ timer' = [i \in Issues |-> [h \in Handles |->
                          IF i \in picked /\ h = retry[i].timer THEN IdleTimer
                          ELSE timer[i][h]]]
    BY <1>3 DEF TickDispatch
  <2>1. PICK new \in [picked -> Handles] :
          /\ Chosen(picked, ans)
          /\ Launch(picked, new, 0, ans)
          /\ timer' = [i \in Issues |-> [h \in Handles |->
                          IF i \in picked /\ h = retry[i].timer THEN IdleTimer
                          ELSE timer[i][h]]]
    BY <2>0
  <2>2. \A i \in picked : ans[i] \in ActiveStates
    BY <2>1 DEF Chosen, Wanted
  <2>3. 0 \in Attempts
    BY AttemptAssumption DEF Attempts
  <2>4. /\ running' \in [Issues -> Entries]
        /\ task' \in [Issues -> [Handles -> TaskStates]]
        /\ claimed' \subseteq Issues
        /\ retry' \in [Issues -> Retries]
    BY <2>1, <2>2, <2>3, LaunchType
  <2>5. timer' \in [Issues -> [Handles -> Timers]]
    BY <2>1, NoEntryType DEF TypeOK
  <2>. QED  BY <1>3, <2>4, <2>5, PersistType DEF TickDispatch, TypeOK
<1>4. CASE TickFetchFails
  BY <1>4, PersistType DEF TickFetchFails, memory, TypeOK
<1>. QED  BY <1>1, <1>2, <1>3, <1>4

LEMMA ProcessTyping ==
    ASSUME TypeOK,
           \/ Load \/ Started \/ Stop \/ StopReturns \/ Crash
           \/ \E i \in Issues, h \in Handles : CrashMidCompletion(i, h)
    PROVE  TypeOK'
<1>1. CASE Load
  <2>1. PICK due \in SUBSET DueOnDisk :
          retry' = LoadedRetries(due) /\ claimed' = blocked' \union due
    BY <1>1 DEF Load
  <2>2. due \subseteq Issues
    BY DEF DueOnDisk
  <2>3. retry' \in [Issues -> Retries]
    BY <2>1, NoEntryType DEF LoadedRetries, TypeOK, Retries
  <2>. QED  BY <1>1, <2>1, <2>2, <2>3 DEF Load, TypeOK
<1>2. CASE Started
  <2>1. PICK new \in [Issues -> Handles] :
          LET restored == {i \in Issues : retry[i].attempt > 0}
          IN  /\ retry' = [i \in Issues |->
                              IF i \in restored THEN [retry[i] EXCEPT !.timer = new[i]]
                              ELSE retry[i]]
              /\ timer' = [i \in Issues |-> [h \in Handles |->
                              IF i \in restored /\ h = new[i] THEN Asleep
                              ELSE timer[i][h]]]
    BY <1>2 DEF Started
  <2>2. \A r \in Retries, h \in Handles : [r EXCEPT !.timer = h] \in Retries
    BY DEF Retries
  <2>3. retry' \in [Issues -> Retries]
    BY <2>1, <2>2 DEF TypeOK
  <2>4. Asleep \in Timers
    BY AttemptAssumption DEF Asleep, Timers, Attempts
  <2>5. timer' \in [Issues -> [Handles -> Timers]]
    BY <2>1, <2>4 DEF TypeOK
  <2>. QED  BY <1>2, <2>3, <2>5, PersistType DEF Started, TypeOK
<1>3. CASE Stop
  <2>1. \A e \in Entries : [e EXCEPT !.forced = "release"] \in Entries
    BY DEF Entries
  <2>. QED  BY <1>3, <2>1, NoEntryType DEF Stop, TypeOK
<1>4. CASE StopReturns
  BY <1>4, ForgetType DEF StopReturns, Saved, TypeOK, Retries
<1>5. CASE Crash
  BY <1>5, ForgetType DEF Crash, TypeOK
<1>6. ASSUME NEW i \in Issues, NEW h \in Handles, CrashMidCompletion(i, h)
      PROVE  TypeOK'
  <2>1. disk' \in [blocked : SUBSET Issues, completed : SUBSET Issues,
                   retry : [Issues -> Attempts]]
    <3>1. disk' = Saved \/ disk' = [Saved EXCEPT !.completed = @ \union {i}]
      BY <1>6 DEF CrashMidCompletion
    <3>2. Saved.completed \union {i} \in SUBSET Issues
      BY DEF Saved, TypeOK
    <3>. QED  BY <3>1, <3>2, SavedType
  <2>. QED  BY <1>6, <2>1, ForgetType DEF CrashMidCompletion, TypeOK
<1>. QED  BY <1>1, <1>2, <1>3, <1>4, <1>5, <1>6

LEMMA TypingInit == Init => TypeOK
BY NoEntryType, AttemptAssumption DEF Init, TypeOK, TaskStates, Attempts

LEMMA TypingStep == TypeOK /\ [Next]_vars => TypeOK'
<1>1. ASSUME TypeOK, Next
      PROVE  TypeOK'
  BY <1>1, WorkerTyping, TimerTyping, LoopTyping, ProcessTyping DEF Next
<1>2. ASSUME TypeOK, UNCHANGED vars
      PROVE  TypeOK'
  BY <1>2 DEF vars, TypeOK
<1>. QED  BY <1>1, <1>2

(* The orchestrator's dictionaries and tasks keep their types.             *)
THEOREM Typing == Spec => []TypeOK
BY TypingInit, TypingStep, PTL DEF Spec

-----------------------------------------------------------------------------
(* Ownership.  All invariants but two speak of one issue at a time: Sound  *)
(* is what they say of issue i, and a step leaves Sound alone wherever it  *)
(* leaves the issue alone.                                                 *)

Sound(i) ==
    /\ \A g, h \in Handles : task[i][g] # "none" /\ task[i][h] # "none" => g = h
    /\ \A g, h \in Handles : timer[i][g].st # "none" /\ timer[i][h].st # "none" => g = h
    /\ HasTask(i) => ~HasTimer(i) /\ ~Waits(i)
    /\ AsksTracker(i) => ~Waits(i)
    /\ i \in blocked => ~HasTask(i) /\ ~HasTimer(i) /\ ~Waits(i)
    /\ \A h \in Handles : running[i].task = h <=> task[i][h] \in {"live"} \union Results
    /\ \A h \in Handles : timer[i][h].st = "asleep" => Waits(i) /\ retry[i].timer = h
    /\ svc = "run" /\ Waits(i) => \E h \in Handles : timer[i][h].st = "asleep"
    /\ HasTask(i) \/ HasTimer(i) \/ Waits(i) \/ i \in blocked => i \in claimed
    /\ \A h \in Handles : timer[i][h].st = "asking" => timer[i][h].attempt > 0

LEMMA InvIsSound ==
    Inv <=> TypeOK /\ (\A i \in Issues : Sound(i)) /\ QuietWhileDown /\ FileIsConsistent
BY DEF Inv, Sound, ExclusiveOwner, HandlerPopsOwnEntry, RetryHasItsTimer, ClaimsCoverWork,
       DueRetryHasAttempt

LEMMA InvNext ==
    ASSUME TypeOK', \A i \in Issues : Sound(i)', QuietWhileDown', FileIsConsistent'
    PROVE  Inv'
BY DEF Inv, Sound, ExclusiveOwner, HandlerPopsOwnEntry, RetryHasItsTimer, ClaimsCoverWork,
       DueRetryHasAttempt

LEMMA SoundFrame ==
    ASSUME NEW i \in Issues, Sound(i),
           running'[i] = running[i], task'[i] = task[i], timer'[i] = timer[i],
           retry'[i] = retry[i], i \in claimed' <=> i \in claimed,
           i \in blocked' <=> i \in blocked, svc' = "run" => svc = "run"
    PROVE  Sound(i)'
BY DEF Sound, HasTask, HasTimer, AsksTracker, Waits

(* An issue for which nothing goes on                                      *)
LEMMA SoundIdle ==
    ASSUME NEW i \in Issues, running'[i] = NoEntry, retry'[i].attempt = 0,
           \A h \in Handles : task'[i][h] = "none" /\ timer'[i][h].st = "none",
           i \in blocked' => i \in claimed'
    PROVE  Sound(i)'
BY HandlesAssumption DEF Sound, HasTask, HasTimer, AsksTracker, Waits, NoEntry, Results

(* An issue whose retry has just been scheduled                            *)
LEMMA SoundScheduled ==
    ASSUME TypeOK, NEW i \in Issues, NEW a \in Attempts, a > 0, NEW own,
           ScheduleRetry(i, a, own),
           running'[i].task = NoHandle, i \notin blocked',
           \A h \in Handles : task'[i][h] = "none",
           \A h \in Handles : timer[i][h].st # "none" => h = own
    PROVE  Sound(i)'
<1>1. PICK new \in Handles :
        /\ timer' = [timer EXCEPT ![i] = [h \in Handles |->
                        IF h = new THEN Asleep
                        ELSE IF h \in {own, retry[i].timer} THEN IdleTimer
                        ELSE timer[i][h]]]
        /\ retry' = [retry EXCEPT ![i] = [attempt |-> a, timer |-> new]]
  BY DEF ScheduleRetry
<1>2. retry'[i] = [attempt |-> a, timer |-> new]
  BY <1>1 DEF TypeOK
<1>3. \A h \in Handles : timer'[i][h] = IF h = new THEN Asleep
                                       ELSE IF h \in {own, retry[i].timer} THEN IdleTimer
                                       ELSE timer[i][h]
  BY <1>1 DEF TypeOK
<1>4. /\ timer'[i][new].st = "asleep"
      /\ \A h \in Handles : h # new => timer'[i][h].st = "none"
  BY <1>3 DEF Asleep, IdleTimer
<1>5. i \in claimed'
  BY DEF ScheduleRetry
<1>6. Waits(i)' /\ ~HasTask(i)' /\ ~AsksTracker(i)'
  BY <1>2, <1>4 DEF Waits, HasTask, AsksTracker
<1>. QED
  BY <1>2, <1>4, <1>5, <1>6, HandlesAssumption DEF Sound, Results

(* An issue that has just been dispatched as task g                        *)
LEMMA SoundLaunched ==
    ASSUME NEW i \in Issues, NEW g \in Handles,
           running'[i].task = g, retry'[i] = NoRetry, i \in claimed', i \notin blocked',
           \A h \in Handles : task'[i][h] = (IF h = g THEN "live" ELSE "none"),
           \A h \in Handles : timer'[i][h].st = "none"
    PROVE  Sound(i)'
BY DEF Sound, HasTask, HasTimer, AsksTracker, Waits, NoRetry, Results

(* What is saved is consistent, and so is the file after any write.        *)
LEMMA SavedConsistent ==
    ASSUME Inv
    PROVE  \A i \in Saved.blocked : Saved.retry[i] = 0
<1>1. TypeOK /\ (\A i \in Issues : Sound(i))
  BY InvIsSound
<1>. QED  BY <1>1 DEF Saved, Sound, Waits, TypeOK, Retries, Attempts

LEMMA PersistConsistent ==
    ASSUME Inv, TypeOK', \A i \in Issues : Sound(i)',
           Persist \/ UNCHANGED disk \/ disk' \in EarlierWrites
    PROVE  FileIsConsistent'
<1>1. CASE disk' = Saved'
  BY <1>1 DEF FileIsConsistent, Saved, Sound, Waits, TypeOK, Retries, Attempts
<1>2. CASE UNCHANGED disk
  BY <1>2 DEF FileIsConsistent, Inv
<1>3. CASE disk' \in EarlierWrites
  <2>1. disk'.blocked = Saved.blocked /\ disk'.retry = Saved.retry
    BY <1>3 DEF EarlierWrites, Saved
  <2>. QED  BY <2>1, SavedConsistent DEF FileIsConsistent
<1>. QED  BY <1>1, <1>2, <1>3 DEF Persist

(* What an invariant state says of the handler about to run: the ended     *)
(* task is the issue's only activity, and the entry is its own.            *)
LEMMA EndedTask ==
    ASSUME Inv, NEW i \in Issues, NEW h \in Handles, task[i][h] \in Results
    PROVE  /\ running[i].task = h /\ IsRunning(i)
           /\ \A g \in Handles : g # h => task[i][g] = "none"
           /\ \A g \in Handles : timer[i][g].st = "none"
           /\ retry[i].attempt = 0
           /\ i \in claimed /\ i \notin blocked
<1>1. Sound(i) /\ TypeOK
  BY InvIsSound
<1>2. task[i][h] # "none"
  BY DEF Results
<1>3. HasTask(i)
  BY <1>2 DEF HasTask
<1>4. running[i].task = h
  BY <1>1 DEF Sound
<1>. QED
  BY <1>1, <1>2, <1>3, <1>4, HandlesAssumption
  DEF Sound, HasTimer, Waits, IsRunning, TypeOK, Retries, Attempts

LEMMA AskingTimer ==
    ASSUME Inv, NEW i \in Issues, NEW h \in Handles, timer[i][h].st = "asking"
    PROVE  /\ \A g \in Handles : task[i][g] = "none"
           /\ \A g \in Handles : timer[i][g].st # "none" => g = h
           /\ running[i].task = NoHandle
           /\ retry[i].attempt = 0
           /\ timer[i][h].attempt \in Attempts /\ timer[i][h].attempt > 0
           /\ i \in claimed /\ i \notin blocked
<1>1. Sound(i) /\ TypeOK
  BY InvIsSound
<1>2. HasTimer(i) /\ AsksTracker(i)
  BY DEF HasTimer, AsksTracker
<1>3. \A g \in Handles : task[i][g] = "none"
  BY <1>1, <1>2 DEF Sound, HasTask
<1>4. running[i].task = NoHandle
  BY <1>1, <1>3 DEF Sound, Results, TypeOK, Entries
<1>. QED
  BY <1>1, <1>2, <1>3, <1>4 DEF Sound, Waits, TypeOK, Retries, Timers, Attempts

LEMMA WorkerInv ==
    ASSUME Inv, NEW i \in Issues, NEW h \in Handles, WorkerStep(i, h)
    PROVE  Inv'
<1>0. TypeOK /\ FileIsConsistent /\ QuietWhileDown /\ (\A j \in Issues : Sound(j))
  BY InvIsSound
<1>1. TypeOK'
  BY <1>0, WorkerTyping
<1>2. ASSUME NEW r \in Results, WorkerEnds(i, h, r)
      PROVE  Inv'
  <2>1. \A g \in Handles : task'[i][g] = IF g = h THEN r ELSE task[i][g]
    BY <1>0, <1>2 DEF WorkerEnds, TypeOK
  <2>2. ASSUME NEW j \in Issues PROVE Sound(j)'
    <3>1. CASE j = i
      <4>1. task[i][h] = "live" /\ r # "none"
        BY <1>2 DEF WorkerEnds, Results
      <4>2. HasTask(i)' <=> HasTask(i)
        BY <2>1, <4>1 DEF HasTask
      <4>. QED
        BY <1>0, <1>2, <2>1, <3>1, <4>1, <4>2
        DEF Sound, WorkerEnds, loop, HasTimer, AsksTracker, Waits
    <3>2. CASE j # i
      BY <1>0, <1>2, <3>2, SoundFrame DEF WorkerEnds, loop, TypeOK
    <3>. QED  BY <3>1, <3>2
  <2>3. QuietWhileDown'
    BY <1>0, <1>2 DEF QuietWhileDown, WorkerEnds, HasTask, loop
  <2>4. FileIsConsistent'
    BY <1>0, <1>2 DEF WorkerEnds, FileIsConsistent
  <2>. QED  BY <1>1, <2>2, <2>3, <2>4, InvNext
<1>3. CASE HandleWorkerDone(i, h)
  <2>1. task[i][h] \in Results
    BY <1>3 DEF HandleWorkerDone
  <2>2. /\ running[i].task = h /\ IsRunning(i)
        /\ \A g \in Handles : g # h => task[i][g] = "none"
        /\ \A g \in Handles : timer[i][g].st = "none"
        /\ retry[i].attempt = 0
        /\ i \in claimed /\ i \notin blocked
    BY <2>1, EndedTask
  <2>3. /\ running' = [running EXCEPT ![i] = NoEntry]
        /\ Released(i, h) \/ Retried(i, h) \/ Completed(i, h) \/ Blocked(i, h)
        /\ Persist \/ disk' \in EarlierWrites
        /\ UNCHANGED loop
    BY <1>3, <2>2 DEF HandleWorkerDone
  <2>4. running'[i] = NoEntry /\ (\A j \in Issues : j # i => running'[j] = running[j])
    BY <1>0, <2>3 DEF TypeOK
  <2>5. ASSUME NEW j \in Issues, j # i PROVE Sound(j)'
    <3>1. /\ task'[j] = task[j] /\ timer'[j] = timer[j] /\ retry'[j] = retry[j]
          /\ j \in claimed' <=> j \in claimed
          /\ j \in blocked' <=> j \in blocked
      BY <1>0, <2>3, <2>5
      DEF Released, Retried, Completed, Blocked, ScheduleRetry, TypeOK
    <3>. QED  BY <1>0, <2>3, <2>4, <2>5, <3>1, SoundFrame DEF loop
  <2>6. Sound(i)'
    <3>1. CASE Released(i, h)
      <4>1. CASE running[i].cleanup
        <5>1. \A g \in Handles : task'[i][g] = IF g = h THEN "cleaning" ELSE "none"
          BY <1>0, <2>2, <3>1, <4>1 DEF Released, TypeOK
        <5>. QED
          BY <2>2, <2>4, <3>1, <4>1, <5>1, HandlesAssumption
          DEF Released, Sound, HasTask, HasTimer, AsksTracker, Waits, NoEntry, Results
      <4>2. CASE ~running[i].cleanup
        <5>1. \A g \in Handles : task'[i][g] = "none"
          BY <1>0, <2>2, <3>1, <4>2 DEF Released, TypeOK
        <5>. QED
          BY <2>2, <2>4, <3>1, <4>2, <5>1, SoundIdle DEF Released
      <4>. QED  BY <4>1, <4>2
    <3>2. CASE Retried(i, h)
      <4>1. NextAttempt(running[i].attempt) \in Attempts /\ NextAttempt(running[i].attempt) > 0
        BY <1>0, AttemptAssumption DEF NextAttempt, Attempts, TypeOK, Entries
      <4>2. \A g \in Handles : task'[i][g] = "none"
        BY <1>0, <2>2, <3>2 DEF Retried, TypeOK
      <4>3. ScheduleRetry(i, NextAttempt(running[i].attempt), NoHandle) /\ i \notin blocked'
        BY <2>2, <3>2 DEF Retried
      <4>. QED
        BY <1>0, <2>2, <2>4, <4>1, <4>2, <4>3, SoundScheduled DEF NoEntry
    <3>3. CASE Completed(i, h)
      <4>1. 1 \in Attempts /\ 1 > 0
        BY AttemptAssumption DEF Attempts
      <4>2. \A g \in Handles : task'[i][g] = "none"
        BY <1>0, <2>2, <3>3 DEF Completed, TypeOK
      <4>3. ScheduleRetry(i, 1, NoHandle) /\ i \notin blocked'
        BY <2>2, <3>3 DEF Completed
      <4>. QED
        BY <1>0, <2>2, <2>4, <4>1, <4>2, <4>3, SoundScheduled DEF NoEntry
    <3>4. CASE Blocked(i, h)
      <4>1. \A g \in Handles : task'[i][g] = "none"
        BY <1>0, <2>2, <3>4 DEF Blocked, TypeOK
      <4>. QED  BY <2>2, <2>4, <3>4, <4>1, SoundIdle DEF Blocked
    <3>. QED  BY <2>3, <3>1, <3>2, <3>3, <3>4
  <2>7. \A j \in Issues : Sound(j)'
    BY <2>5, <2>6
  <2>8. QuietWhileDown'
    <3>1. svc \notin {"down", "starting"}
      BY <1>0, <2>1 DEF QuietWhileDown, HasTask, Results
    <3>. QED  BY <2>3, <3>1 DEF QuietWhileDown, loop
  <2>9. FileIsConsistent'
    BY <1>0, <1>1, <2>3, <2>7, PersistConsistent
  <2>. QED  BY <1>1, <2>7, <2>8, <2>9, InvNext
<1>4. CASE CleanupReturns(i, h) \/ CleanupRaises(i, h)
  <2>1. /\ task[i][h] = "cleaning"
        /\ task' = [task EXCEPT ![i][h] = "none"]
        /\ claimed' = claimed \ {i} \/ claimed' = claimed
        /\ UNCHANGED <<loop, running, blocked, completed, retry, timer>>
        /\ Persist \/ UNCHANGED disk
    BY <1>4 DEF CleanupReturns, CleanupRaises
  <2>2. HasTask(i)
    BY <2>1 DEF HasTask
  <2>3. \A g \in Handles : g # h => task[i][g] = "none"
    BY <1>0, <2>1 DEF Sound
  <2>4. \A g \in Handles : task'[i][g] = "none"
    BY <1>0, <2>1, <2>3 DEF TypeOK
  <2>5. Sound(i)'
    BY <1>0, <2>1, <2>2, <2>3, <2>4
    DEF Sound, HasTask, HasTimer, AsksTracker, Waits, Results, loop
  <2>6. ASSUME NEW j \in Issues, j # i PROVE Sound(j)'
    BY <1>0, <2>1, <2>6, SoundFrame DEF loop, TypeOK
  <2>7. QuietWhileDown'
    BY <1>0, <2>1, <2>2 DEF QuietWhileDown, loop
  <2>8. \A j \in Issues : Sound(j)'
    BY <2>5, <2>6
  <2>9. FileIsConsistent'
    BY <1>0, <1>1, <2>1, <2>8, PersistConsistent
  <2>. QED  BY <1>1, <2>7, <2>8, <2>9, InvNext
<1>. QED  BY <1>2, <1>3, <1>4 DEF WorkerStep

LEMMA TimerSound ==
    ASSUME Inv, NEW i \in Issues, NEW h \in Handles, TimerStep(i, h)
    PROVE  \A j \in Issues : Sound(j)'
<1>0. TypeOK /\ (\A j \in Issues : Sound(j))
  BY InvIsSound
<1>1. CASE TimerFires(i, h)
  <2>1. /\ timer[i][h].st = "asleep" /\ UNCHANGED <<loop, running, task, claimed, blocked>>
        /\ retry' = [retry EXCEPT ![i] = NoRetry]
        /\ timer' = [timer EXCEPT ![i][h] =
                        IF retry[i].attempt = 0 THEN IdleTimer
                        ELSE Asking(retry[i].attempt, limit)]
    BY <1>1 DEF TimerFires
  <2>2. Waits(i) /\ HasTimer(i) /\ ~HasTask(i)
    BY <1>0, <2>1 DEF Sound, HasTimer
  <2>3. \A g \in Handles : g # h => timer[i][g].st = "none"
    BY <1>0, <2>1 DEF Sound
  <2>4. \A g \in Handles : timer'[i][g] = IF g = h THEN Asking(retry[i].attempt, limit)
                                         ELSE timer[i][g]
    BY <1>0, <2>1, <2>2 DEF TypeOK, Waits
  <2>5. retry'[i].attempt = 0
    BY <1>0, <2>1 DEF NoRetry, TypeOK
  <2>6. Sound(i)'
    BY <1>0, <2>1, <2>2, <2>3, <2>4, <2>5
    DEF Sound, HasTask, HasTimer, AsksTracker, Waits, Asking
  <2>7. ASSUME NEW j \in Issues, j # i PROVE Sound(j)'
    BY <1>0, <2>1, <2>7, SoundFrame DEF loop, TypeOK
  <2>. QED  BY <2>6, <2>7
<1>2. CASE timer[i][h].st = "asking"
  <2>1. /\ \A g \in Handles : task[i][g] = "none"
        /\ \A g \in Handles : timer[i][g].st # "none" => g = h
        /\ running[i].task = NoHandle
        /\ retry[i].attempt = 0
        /\ timer[i][h].attempt \in Attempts /\ timer[i][h].attempt > 0
        /\ i \in claimed /\ i \notin blocked
    BY <1>2, AskingTimer
  <2>2. ASSUME timer' = [timer EXCEPT ![i][h] = IdleTimer],
               claimed' = claimed \ {i} \/ claimed' = claimed,
               UNCHANGED <<loop, running, task, blocked, completed, retry>>
        PROVE  \A j \in Issues : Sound(j)'
    <3>1. \A g \in Handles : timer'[i][g].st = "none"
      BY <1>0, <2>1, <2>2 DEF TypeOK, IdleTimer
    <3>2. Sound(i)'
      BY <2>1, <2>2, <3>1, HandlesAssumption
      DEF Sound, HasTask, HasTimer, AsksTracker, Waits, Results
    <3>3. ASSUME NEW j \in Issues, j # i PROVE Sound(j)'
      BY <1>0, <2>2, <3>3, SoundFrame DEF loop, TypeOK
    <3>. QED  BY <3>2, <3>3
  <2>3. ASSUME NEW a \in Attempts, a > 0, ScheduleRetry(i, a, h),
               UNCHANGED <<loop, running, task, blocked, completed>>
        PROVE  \A j \in Issues : Sound(j)'
    <3>1. Sound(i)'
      BY <1>0, <2>1, <2>3, SoundScheduled
    <3>2. ASSUME NEW j \in Issues, j # i PROVE Sound(j)'
      BY <1>0, <2>3, <3>2, SoundFrame DEF ScheduleRetry, loop, TypeOK
    <3>. QED  BY <3>1, <3>2
  <2>4. ASSUME NEW v \in Views, RetryReleased(i, h, v)
        PROVE  \A j \in Issues : Sound(j)'
    BY <2>2, <2>4 DEF RetryReleased
  <2>5. ASSUME NEW v \in Views, RetryRequeued(i, h, v)
        PROVE  \A j \in Issues : Sound(j)'
    BY <2>1, <2>3, <2>5 DEF RetryRequeued
  <2>6. ASSUME NEW v \in Views, RetryDispatched(i, h, v)
        PROVE  \A j \in Issues : Sound(j)'
    <3>1. PICK g \in Handles :
            Launch({i}, [j \in {i} |-> g], timer[i][h].attempt, [j \in {i} |-> v])
      BY <2>6 DEF RetryDispatched
    <3>2. \A k \in Handles : task'[i][k] = IF k = g THEN "live" ELSE "none"
      BY <2>1, <3>1 DEF Launch
    <3>3. /\ running'[i].task = g /\ retry'[i] = NoRetry /\ i \in claimed'
          /\ i \notin blocked'
      BY <2>1, <2>6, <3>1 DEF Launch, RetryDispatched
    <3>4. \A k \in Handles : timer'[i][k].st = "none"
      BY <1>0, <2>1, <2>6 DEF RetryDispatched, TypeOK, IdleTimer
    <3>5. Sound(i)'
      BY <3>2, <3>3, <3>4, SoundLaunched
    <3>6. ASSUME NEW j \in Issues, j # i PROVE Sound(j)'
      <4>1. /\ running'[j] = running[j] /\ retry'[j] = retry[j]
            /\ j \in claimed' <=> j \in claimed
        BY <3>1, <3>6 DEF Launch
      <4>2. task'[j] = task[j]
        BY <1>0, <3>1, <3>6 DEF Launch, TypeOK
      <4>. QED
        BY <1>0, <2>6, <3>6, <4>1, <4>2, SoundFrame DEF RetryDispatched, loop, TypeOK
    <3>. QED  BY <3>5, <3>6
  <2>7. CASE RetryPollFails(i, h)
    <3>1. NextAttempt(timer[i][h].attempt) \in Attempts /\ NextAttempt(timer[i][h].attempt) > 0
      BY <2>1, AttemptAssumption DEF NextAttempt, Attempts
    <3>. QED  BY <2>3, <2>7, <3>1 DEF RetryPollFails
  <2>8. CASE RetryPollRaises(i, h)
    BY <2>2, <2>8 DEF RetryPollRaises
  <2>9. CASE TimerFires(i, h)
    BY <1>1, <2>9
  <2>. QED  BY <2>4, <2>5, <2>6, <2>7, <2>8, <2>9 DEF TimerStep
<1>. QED
  BY <1>1, <1>2 DEF TimerStep, RetryReleased, RetryRequeued, RetryDispatched,
                    RetryPollFails, RetryPollRaises

LEMMA TimerInv ==
    ASSUME Inv, NEW i \in Issues, NEW h \in Handles, TimerStep(i, h)
    PROVE  Inv'
<1>1. TypeOK /\ FileIsConsistent /\ QuietWhileDown
  BY InvIsSound
<1>2. /\ timer[i][h].st # "none"
      /\ UNCHANGED loop
      /\ Persist \/ UNCHANGED disk
  BY DEF TimerStep, TimerFires, RetryReleased, RetryRequeued, RetryDispatched,
         RetryPollFails, RetryPollRaises
<1>3. QuietWhileDown'
  BY <1>1, <1>2 DEF QuietWhileDown, HasTimer, loop
<1>4. TypeOK' /\ (\A j \in Issues : Sound(j)')
  BY <1>1, TimerTyping, TimerSound
<1>. QED  BY <1>1, <1>2, <1>3, <1>4, PersistConsistent, InvNext

(* A tick before its dispatches touches no task, timer, claim or queue: it *)
(* only rewrites entries, and never the task an entry names.               *)
LEMMA QuietTickInv ==
    ASSUME Inv, TypeOK', svc' = svc,
           \A i \in Issues : running'[i].task = running[i].task,
           UNCHANGED <<task, claimed, blocked, completed, retry, timer>>,
           Persist \/ UNCHANGED disk
    PROVE  Inv'
<1>1. TypeOK /\ FileIsConsistent /\ QuietWhileDown /\ (\A i \in Issues : Sound(i))
  BY InvIsSound
<1>2. \A i \in Issues : Sound(i)'
  BY <1>1 DEF Sound, HasTask, HasTimer, AsksTracker, Waits
<1>3. QuietWhileDown'
  BY <1>1 DEF QuietWhileDown, HasTask, HasTimer
<1>. QED  BY <1>1, <1>2, <1>3, PersistConsistent, InvNext

LEMMA DispatchInv ==
    ASSUME Inv, NEW ans \in [Issues -> Views], TickDispatch(ans)
    PROVE  Inv'
<1>0. TypeOK /\ FileIsConsistent /\ QuietWhileDown /\ (\A i \in Issues : Sound(i))
  BY InvIsSound
<1>1. PICK picked \in SUBSET Issues : \E new \in [picked -> Handles] :
        /\ Chosen(picked, ans)
        /\ Launch(picked, new, 0, ans)
        /\ timer' = [i \in Issues |-> [h \in Handles |->
                        IF i \in picked /\ h = retry[i].timer THEN IdleTimer
                        ELSE timer[i][h]]]
  BY DEF TickDispatch
<1>2. PICK new \in [picked -> Handles] :
        /\ Chosen(picked, ans)
        /\ Launch(picked, new, 0, ans)
        /\ timer' = [i \in Issues |-> [h \in Handles |->
                        IF i \in picked /\ h = retry[i].timer THEN IdleTimer
                        ELSE timer[i][h]]]
  BY <1>1
<1>3. TypeOK'
  BY <1>0, LoopTyping
<1>4. UNCHANGED <<svc, blocked, completed>> /\ Persist /\ svc = "run"
  BY DEF TickDispatch
<1>5. ASSUME NEW i \in picked PROVE Sound(i)'
  <2>1. i \in Issues /\ i \notin claimed
    BY <1>2 DEF Chosen
  <2>2. /\ ~HasTask(i) /\ ~HasTimer(i) /\ i \notin blocked
    BY <1>0, <2>1 DEF Sound
  <2>3. \A h \in Handles : task'[i][h] = IF h = new[i] THEN "live" ELSE "none"
    BY <1>2, <2>1, <2>2 DEF Launch, HasTask
  <2>4. \A h \in Handles : timer'[i][h].st = "none"
    BY <1>2, <2>1, <2>2 DEF HasTimer, IdleTimer
  <2>5. running'[i].task = new[i] /\ retry'[i] = NoRetry /\ i \in claimed'
    BY <1>2, <2>1 DEF Launch
  <2>. QED  BY <1>4, <2>1, <2>2, <2>3, <2>4, <2>5, SoundLaunched
<1>6. ASSUME NEW i \in Issues, i \notin picked PROVE Sound(i)'
  <2>1. task'[i] = task[i] /\ timer'[i] = timer[i]
    BY <1>0, <1>2, <1>6 DEF Launch, TypeOK
  <2>2. running'[i] = running[i] /\ retry'[i] = retry[i] /\ (i \in claimed' <=> i \in claimed)
    BY <1>2, <1>6 DEF Launch
  <2>. QED  BY <1>0, <1>4, <2>1, <2>2, SoundFrame
<1>7. \A i \in Issues : Sound(i)'
  BY <1>5, <1>6
<1>8. QuietWhileDown'
  BY <1>4 DEF QuietWhileDown
<1>. QED  BY <1>0, <1>3, <1>4, <1>7, <1>8, PersistConsistent, InvNext

(* Neither a tick before its dispatches nor stop() ends an entry, or gives *)
(* it another task or attempt.                                             *)
LEMMA EntriesKept ==
    ASSUME TypeOK,
           \/ TickStart \/ TickFetchFails \/ Stop
           \/ \E ans \in [ids -> Views] : TickRefreshed(ans)
    PROVE  \A i \in Issues : /\ running'[i].task = running[i].task
                             /\ running'[i].attempt = running[i].attempt
<1>1. CASE TickStart
  <2>1. PICK stalled \in SUBSET Running :
          running' = [i \in Issues |-> IF i \in stalled
                                       THEN Terminated(running[i], "retry", FALSE)
                                       ELSE running[i]]
    BY <1>1 DEF TickStart, MarkStalled
  <2>2. \A e \in Entries : /\ Terminated(e, "retry", FALSE).task = e.task
                           /\ Terminated(e, "retry", FALSE).attempt = e.attempt
    BY DEF Terminated, Entries
  <2>. QED  BY <2>1, <2>2 DEF TypeOK
<1>2. ASSUME NEW ans \in [ids -> Views], TickRefreshed(ans)
      PROVE  \A i \in Issues : /\ running'[i].task = running[i].task
                               /\ running'[i].attempt = running[i].attempt
  <2>1. \A e \in Entries, v \in Views : /\ Reconciled(e, v).task = e.task
                                         /\ Reconciled(e, v).attempt = e.attempt
    BY ViewsAssumption DEF Reconciled, Terminated, Entries, AllViews
  <2>. QED  BY <1>2, <2>1 DEF TickRefreshed, TypeOK
<1>3. CASE Stop
  <2>1. \A e \in Entries : /\ [e EXCEPT !.forced = "release"].task = e.task
                           /\ [e EXCEPT !.forced = "release"].attempt = e.attempt
    BY DEF Entries
  <2>. QED  BY <1>3, <2>1 DEF Stop, TypeOK
<1>4. CASE TickFetchFails
  BY <1>4 DEF TickFetchFails, memory
<1>. QED  BY <1>1, <1>2, <1>3, <1>4

LEMMA LoopInv ==
    ASSUME Inv,
           \/ TickStart
           \/ \E ans \in [ids -> Views] : TickRefreshed(ans)
           \/ \E ans \in [Issues -> Views] : TickDispatch(ans)
           \/ TickFetchFails
    PROVE  Inv'
<1>0. TypeOK /\ TypeOK'
  BY InvIsSound, LoopTyping
<1>1. CASE TickStart \/ TickFetchFails \/ \E ans \in [ids -> Views] : TickRefreshed(ans)
  <2>1. \A i \in Issues : running'[i].task = running[i].task
    BY <1>0, <1>1, EntriesKept
  <2>. QED
    BY <1>0, <1>1, <2>1, QuietTickInv
    DEF TickStart, MarkStalled, TickFetchFails, TickRefreshed, Validate, memory
<1>2. CASE \E ans \in [Issues -> Views] : TickDispatch(ans)
  BY <1>2, DispatchInv
<1>. QED  BY <1>1, <1>2

(* After the end of the process nothing goes on for any issue.             *)
LEMMA ForgetInv ==
    ASSUME Inv, TypeOK', Forget, svc' = "down", FileIsConsistent'
    PROVE  Inv'
<1>1. \A i \in Issues : /\ running'[i] = NoEntry /\ retry'[i].attempt = 0
                        /\ \A h \in Handles : task'[i][h] = "none" /\ timer'[i][h].st = "none"
                        /\ i \notin blocked'
  BY DEF Forget, NothingRuns, NoRetry, IdleTimer
<1>2. \A i \in Issues : Sound(i)'
  BY <1>1, SoundIdle
<1>3. QuietWhileDown'
  BY <1>1 DEF QuietWhileDown, HasTask, HasTimer
<1>. QED  BY <1>2, <1>3, InvNext

(* What was loaded is part of what the file holds, and is claimed.         *)
LEMMA LoadedFits ==
    ASSUME Load, NEW i \in Issues
    PROVE  /\ retry'[i].attempt > 0 => retry'[i].attempt = disk.retry[i]
           /\ retry'[i].attempt = 0 \/ retry'[i].attempt > 0
           /\ retry'[i].timer = NoHandle
           /\ i \in blocked' => i \in disk.blocked
           /\ i \in claimed' <=> i \in blocked' \/ retry'[i].attempt > 0
<1>1. PICK due \in SUBSET DueOnDisk :
        retry' = LoadedRetries(due) /\ claimed' = blocked' \union due
  BY DEF Load
<1>2. i \in due => disk.retry[i] > 0
  BY DEF DueOnDisk
<1>3. retry'[i] = IF i \in due THEN [attempt |-> disk.retry[i], timer |-> NoHandle] ELSE NoRetry
  BY <1>1 DEF LoadedRetries
<1>. QED  BY <1>1, <1>2, <1>3 DEF NoRetry, Load

LEMMA ProcessInv ==
    ASSUME Inv,
           \/ Load \/ Started \/ Stop \/ StopReturns \/ Crash
           \/ \E i \in Issues, h \in Handles : CrashMidCompletion(i, h)
    PROVE  Inv'
<1>0. /\ TypeOK /\ FileIsConsistent /\ QuietWhileDown /\ (\A i \in Issues : Sound(i))
      /\ TypeOK'
  BY InvIsSound, ProcessTyping
<1>1. CASE Load
  <2>1. ASSUME NEW i \in Issues PROVE Sound(i)'
    <3>1. ~HasTask(i) /\ ~HasTimer(i)
      BY <1>0, <1>1 DEF QuietWhileDown, Load
    <3>2. i \in blocked' => retry'[i].attempt = 0
      BY <1>0, <1>1, LoadedFits DEF Load, FileIsConsistent
    <3>3. retry'[i].attempt > 0 \/ i \in blocked' => i \in claimed'
      BY <1>1, LoadedFits
    <3>4. UNCHANGED <<running, task, timer>> /\ svc' = "starting"
      BY <1>1 DEF Load
    <3>. QED
      BY <1>0, <3>1, <3>2, <3>3, <3>4
      DEF Sound, HasTask, HasTimer, AsksTracker, Waits, TypeOK, Retries, Attempts
  <2>2. QuietWhileDown'
    BY <1>0, <1>1 DEF Load, QuietWhileDown, HasTask, HasTimer
  <2>3. FileIsConsistent'
    BY <1>0, <1>1 DEF Load, FileIsConsistent
  <2>. QED  BY <1>0, <2>1, <2>2, <2>3, InvNext
<1>2. CASE Started
  <2>1. PICK new \in [Issues -> Handles] :
          LET restored == {i \in Issues : retry[i].attempt > 0}
          IN  /\ retry' = [i \in Issues |->
                              IF i \in restored THEN [retry[i] EXCEPT !.timer = new[i]]
                              ELSE retry[i]]
              /\ timer' = [i \in Issues |-> [h \in Handles |->
                              IF i \in restored /\ h = new[i] THEN Asleep
                              ELSE timer[i][h]]]
    BY <1>2 DEF Started
  <2>2. ASSUME NEW i \in Issues PROVE Sound(i)'
    <3>1. ~HasTask(i) /\ ~HasTimer(i) /\ Sound(i)
      BY <1>0, <1>2 DEF QuietWhileDown, Started
    <3>2. UNCHANGED <<running, task, claimed, blocked>>
      BY <1>2 DEF Started
    <3>3. CASE Waits(i)
      <4>1. retry'[i].attempt = retry[i].attempt /\ retry'[i].timer = new[i]
        BY <1>0, <2>1, <3>3 DEF Waits, TypeOK, Retries
      <4>2. \A h \in Handles : timer'[i][h].st = IF h = new[i] THEN "asleep" ELSE "none"
        BY <2>1, <3>1, <3>3 DEF Waits, HasTimer, Asleep
      <4>. QED
        BY <3>1, <3>2, <3>3, <4>1, <4>2 DEF Sound, HasTask, HasTimer, AsksTracker, Waits
    <3>4. CASE ~Waits(i)
      <4>1. retry'[i] = retry[i] /\ timer'[i] = timer[i]
        BY <1>0, <2>1, <3>4 DEF Waits, TypeOK
      <4>. QED
        BY <3>1, <3>2, <3>4, <4>1 DEF Sound, HasTask, HasTimer, AsksTracker, Waits
    <3>. QED  BY <3>3, <3>4
  <2>3. QuietWhileDown'
    BY <1>2 DEF Started, QuietWhileDown
  <2>4. FileIsConsistent'
    BY <1>0, <1>2, <2>2, PersistConsistent DEF Started
  <2>. QED  BY <1>0, <2>2, <2>3, <2>4, InvNext
<1>3. CASE Stop
  <2>1. ASSUME NEW i \in Issues PROVE Sound(i)'
    <3>1. \A h \in Handles : timer'[i][h] = IF h = retry[i].timer THEN IdleTimer ELSE timer[i][h]
      BY <1>3 DEF Stop
    <3>2. running'[i].task = running[i].task
      BY <1>0, <1>3 DEF Stop, TypeOK, Entries
    <3>3. /\ UNCHANGED <<task, claimed, blocked, retry>> /\ svc' = "stopping"
      BY <1>3 DEF Stop
    <3>. QED
      BY <1>0, <3>1, <3>2, <3>3
      DEF Sound, HasTask, HasTimer, AsksTracker, Waits, IdleTimer
  <2>2. QuietWhileDown' /\ FileIsConsistent'
    BY <1>0, <1>3 DEF Stop, QuietWhileDown, FileIsConsistent
  <2>. QED  BY <1>0, <2>1, <2>2, InvNext
<1>4. CASE StopReturns
  <2>1. FileIsConsistent'
    BY <1>0, <1>4, SavedConsistent DEF StopReturns, FileIsConsistent
  <2>. QED  BY <1>0, <1>4, <2>1, ForgetInv DEF StopReturns
<1>5. CASE Crash
  <2>1. FileIsConsistent'
    BY <1>0, <1>5 DEF Crash, FileIsConsistent
  <2>. QED  BY <1>0, <1>5, <2>1, ForgetInv DEF Crash
<1>6. ASSUME NEW i \in Issues, NEW h \in Handles, CrashMidCompletion(i, h)
      PROVE  Inv'
  <2>1. disk'.blocked = Saved.blocked /\ disk'.retry = Saved.retry
    BY <1>6 DEF CrashMidCompletion, Saved
  <2>2. FileIsConsistent'
    BY <2>1, SavedConsistent DEF FileIsConsistent
  <2>. QED  BY <1>0, <1>6, <2>2, ForgetInv DEF CrashMidCompletion
<1>. QED  BY <1>0, <1>1, <1>2, <1>3, <1>4, <1>5, <1>6

LEMMA InvInit == Init => Inv
<1>. SUFFICES ASSUME Init PROVE Inv
  OBVIOUS
<1>1. TypeOK
  BY TypingInit
<1>2. \A i \in Issues : Sound(i)
  BY HandlesAssumption
  DEF Init, Sound, HasTask, HasTimer, AsksTracker, Waits, NoEntry, NoRetry, IdleTimer, Results
<1>3. QuietWhileDown /\ FileIsConsistent
  BY DEF Init, QuietWhileDown, FileIsConsistent, HasTask, HasTimer, IdleTimer
<1>. QED  BY <1>1, <1>2, <1>3, InvIsSound

LEMMA InvStep == Inv /\ [Next]_vars => Inv'
<1>1. ASSUME Inv, Next PROVE Inv'
  BY <1>1, WorkerInv, TimerInv, LoopInv, ProcessInv DEF Next
<1>2. ASSUME Inv, UNCHANGED vars PROVE Inv'
  BY <1>2 DEF vars, Inv, TypeOK, ExclusiveOwner, HandlerPopsOwnEntry, RetryHasItsTimer,
              ClaimsCoverWork, DueRetryHasAttempt, QuietWhileDown, FileIsConsistent,
              HasTask, HasTimer, AsksTracker, Waits
<1>. QED  BY <1>1, <1>2

(* The inductive invariant holds of every execution.                       *)
THEOREM Invariance == Spec => []Inv
BY InvInit, InvStep, PTL DEF Spec

(* One coroutine at most has an issue in hand, however ticks, done         *)
(* handlers, timers, stops, crashes and tracker answers interleave.        *)
THEOREM Ownership == Spec => []ExclusiveOwner
<1>1. Inv => ExclusiveOwner
  BY DEF Inv
<1>. QED  BY <1>1, Invariance, PTL

(* The done handler's lookup by issue id finds the entry of the worker     *)
(* that ended.                                                             *)
THEOREM OwnEntry == Spec => []HandlerPopsOwnEntry
<1>1. Inv => HandlerPopsOwnEntry
  BY DEF Inv
<1>. QED  BY <1>1, Invariance, PTL

(* While the service runs, every entry of the retry queue has the timer    *)
(* that will take it up, and a timer that wakes up finds its own entry.    *)
THEOREM TimersMatch == Spec => []RetryHasItsTimer
<1>1. Inv => RetryHasItsTimer
  BY DEF Inv
<1>. QED  BY <1>1, Invariance, PTL

(* An issue that is worked on, waits for a retry or is blocked is claimed. *)
THEOREM Claims == Spec => []ClaimsCoverWork
<1>1. Inv => ClaimsCoverWork
  BY DEF Inv
<1>. QED  BY <1>1, Invariance, PTL

-----------------------------------------------------------------------------
(* The state file                                                          *)

LEMMA FileStep ==
    ASSUME TypeOK, FileIsCurrent, [Next]_vars
    PROVE  FileIsCurrent'
<1>. SUFFICES ASSUME ~DiskMayFail, svc' \in {"run", "stopping"} PROVE disk' = Saved'
  BY DEF FileIsCurrent
<1>1. ASSUME UNCHANGED <<svc, blocked, completed, retry, disk>>
      PROVE  disk' = Saved'
  BY <1>1 DEF FileIsCurrent, Saved
<1>2. ASSUME Persist PROVE disk' = Saved'
  BY <1>2 DEF Persist
<1>3. CASE Load
  BY <1>3 DEF Load
<1>4. CASE Started \/ TickFetchFails \/ \E ans \in [Issues -> Views] : TickDispatch(ans)
  BY <1>2, <1>4 DEF Started, TickFetchFails, TickDispatch
<1>5. CASE TickStart \/ \E ans \in [ids -> Views] : TickRefreshed(ans)
  BY <1>1, <1>2, <1>5 DEF TickStart, MarkStalled, TickRefreshed, Validate
<1>6. ASSUME NEW i \in Issues, NEW h \in Handles, WorkerStep(i, h)
      PROVE  disk' = Saved'
  BY <1>1, <1>2, <1>6
  DEF WorkerStep, WorkerEnds, HandleWorkerDone, CleanupReturns, CleanupRaises, loop
<1>7. ASSUME NEW i \in Issues, NEW h \in Handles, TimerStep(i, h)
      PROVE  disk' = Saved'
  <2>1. CASE TimerFires(i, h)
    <3>1. CASE retry[i].attempt = 0
      <4>1. \A j \in Issues : retry'[j].attempt = retry[j].attempt
        BY <2>1, <3>1 DEF TimerFires, TypeOK, NoRetry
      <4>. QED  BY <2>1, <3>1, <4>1 DEF TimerFires, FileIsCurrent, Saved, loop
    <3>. QED  BY <1>2, <2>1, <3>1 DEF TimerFires
  <2>. QED
    BY <1>1, <1>2, <1>7, <2>1
    DEF TimerStep, RetryReleased, RetryRequeued, RetryDispatched, RetryPollFails,
        RetryPollRaises, loop
<1>8. CASE Stop
  BY <1>8 DEF Stop, FileIsCurrent, Saved
<1>9. CASE \/ StopReturns \/ Crash
           \/ \E i \in Issues, h \in Handles : CrashMidCompletion(i, h)
  BY <1>9 DEF StopReturns, Crash, CrashMidCompletion
<1>10. CASE UNCHANGED vars
  BY <1>1, <1>10 DEF vars
<1>. QED
  BY <1>3, <1>4, <1>5, <1>6, <1>7, <1>8, <1>9, <1>10 DEF Next

(* While the disk accepts writes, the state file is never behind the       *)
(* memory at a point where the running process can be interrupted,         *)
(* whatever its start could not read.                                      *)
THEOREM FileFollows == Spec => []FileIsCurrent
<1>1. Init => FileIsCurrent
  BY DEF Init, FileIsCurrent
<1>. QED  BY <1>1, FileStep, Typing, PTL DEF Spec

(* What the file says is blocked is blocked in memory, but for what the    *)
(* start could not read: memory starts from the file and its blocked set   *)
(* never shrinks.  It needs no working disk.                               *)
BlocksAreKnown ==
    IF svc = "down" THEN unread = {} ELSE disk.blocked \subseteq blocked \union unread

LEMMA BlocksWritten ==
    /\ Persist => disk' = disk \/ disk'.blocked = blocked'
    /\ disk' \in EarlierWrites => disk'.blocked = blocked
<1>1. Saved.blocked = blocked
  BY DEF Saved
<1>2. \A c : [Saved EXCEPT !.completed = c].blocked = blocked
  BY DEF Saved
<1>3. Saved'.blocked = blocked'
  BY DEF Saved
<1>. QED  BY <1>1, <1>2, <1>3 DEF Persist, EarlierWrites

LEMMA BlockedSteps ==
    ASSUME Inv, Next
    PROVE  \/ /\ svc # "down" /\ svc' # "down"
              /\ blocked \subseteq blocked'
              /\ disk' = disk \/ disk'.blocked \in {blocked, blocked'}
              /\ unread' \in {unread, unread \cap disk'.blocked}
           \/ /\ svc = "down" /\ svc' # "down" /\ disk' = disk
              /\ blocked' \subseteq disk.blocked /\ unread' = disk.blocked \ blocked'
           \/ /\ svc # "down" /\ svc' = "down" /\ unread' = {}
              /\ disk'.blocked \in {disk.blocked, blocked}
<1>1. CASE Load
  BY <1>1 DEF Load
<1>2. CASE Started \/ TickFetchFails \/ \E ans \in [Issues -> Views] : TickDispatch(ans)
  BY <1>2, BlocksWritten DEF Started, TickFetchFails, TickDispatch, memory
<1>3. CASE TickStart \/ \E ans \in [ids -> Views] : TickRefreshed(ans)
  BY <1>3, BlocksWritten DEF TickStart, MarkStalled, TickRefreshed, Validate
<1>4. ASSUME NEW i \in Issues, NEW h \in Handles, WorkerStep(i, h)
      PROVE  /\ svc # "down" /\ UNCHANGED <<svc, unread>> /\ blocked \subseteq blocked'
             /\ disk' = disk \/ disk'.blocked \in {blocked, blocked'}
  <2>1. task[i][h] # "none"
    BY <1>4 DEF WorkerStep, WorkerEnds, HandleWorkerDone, CleanupReturns, CleanupRaises, Results
  <2>2. svc # "down"
    BY <2>1 DEF Inv, QuietWhileDown, HasTask, HasTimer
  <2>3. /\ UNCHANGED <<svc, unread>> /\ blocked \subseteq blocked'
        /\ disk' = disk \/ disk'.blocked \in {blocked, blocked'}
    BY <1>4, BlocksWritten
    DEF WorkerStep, WorkerEnds, HandleWorkerDone, Released, Retried, Completed, Blocked,
        ScheduleRetry, CleanupReturns, CleanupRaises, loop
  <2>. QED  BY <2>2, <2>3
<1>5. ASSUME NEW i \in Issues, NEW h \in Handles, TimerStep(i, h)
      PROVE  /\ svc # "down" /\ UNCHANGED <<svc, unread>> /\ blocked \subseteq blocked'
             /\ disk' = disk \/ disk'.blocked \in {blocked, blocked'}
  <2>1. timer[i][h].st # "none"
    BY <1>5 DEF TimerStep, TimerFires, RetryReleased, RetryRequeued, RetryDispatched,
               RetryPollFails, RetryPollRaises
  <2>2. svc # "down"
    BY <2>1 DEF Inv, QuietWhileDown, HasTask, HasTimer
  <2>3. /\ UNCHANGED <<svc, unread>> /\ blocked \subseteq blocked'
        /\ disk' = disk \/ disk'.blocked \in {blocked, blocked'}
    BY <1>5, BlocksWritten
    DEF TimerStep, TimerFires, RetryReleased, RetryRequeued, RetryDispatched, RetryPollFails,
        RetryPollRaises, loop
  <2>. QED  BY <2>2, <2>3
<1>6. CASE Stop
  BY <1>6 DEF Stop
<1>7. CASE StopReturns \/ Crash
  BY <1>7 DEF StopReturns, Crash, Saved, Forget
<1>8. ASSUME NEW i \in Issues, NEW h \in Handles, CrashMidCompletion(i, h)
      PROVE  svc # "down" /\ svc' = "down" /\ unread' = {} /\ disk'.blocked = blocked
  <2>1. task[i][h] = "normal"
    BY <1>8 DEF CrashMidCompletion
  <2>2. HasTask(i)
    BY <2>1 DEF HasTask
  <2>3. Saved.blocked = blocked /\ [Saved EXCEPT !.completed = @ \union {i}].blocked = blocked
    BY DEF Saved
  <2>. QED  BY <1>8, <2>2, <2>3 DEF CrashMidCompletion, Forget, Inv, QuietWhileDown
<1>. QED  BY <1>1, <1>2, <1>3, <1>4, <1>5, <1>6, <1>7, <1>8 DEF Next

LEMMA OnlyLoadStarts ==
    ASSUME Inv, Next, svc = "down"
    PROVE  Load
<1>1. \A i \in Issues, h \in Handles : task[i][h] = "none" /\ timer[i][h].st = "none"
  BY DEF Inv, QuietWhileDown, HasTask, HasTimer
<1>2. ASSUME NEW i \in Issues, NEW h \in Handles, WorkerStep(i, h)
      PROVE  FALSE
  BY <1>1, <1>2
  DEF WorkerStep, WorkerEnds, HandleWorkerDone, CleanupReturns, CleanupRaises, Results
<1>3. ASSUME NEW i \in Issues, NEW h \in Handles, TimerStep(i, h)
      PROVE  FALSE
  BY <1>1, <1>3
  DEF TimerStep, TimerFires, RetryReleased, RetryRequeued, RetryDispatched, RetryPollFails,
      RetryPollRaises
<1>4. ASSUME NEW i \in Issues, NEW h \in Handles, CrashMidCompletion(i, h)
      PROVE  FALSE
  BY <1>1, <1>4 DEF CrashMidCompletion
<1>. QED
  BY <1>2, <1>3, <1>4
  DEF Next, Started, TickStart, TickRefreshed, TickDispatch, TickFetchFails, Stop, StopReturns,
      Crash

LEMMA BlocksAreKnownStep ==
    ASSUME Inv, BlocksAreKnown, [Next]_vars
    PROVE  BlocksAreKnown'
<1>1. CASE Next
  BY <1>1, BlockedSteps DEF BlocksAreKnown, Saved
<1>2. CASE UNCHANGED vars
  BY <1>2 DEF BlocksAreKnown, vars
<1>. QED  BY <1>1, <1>2

LEMMA BlockedStep ==
    ASSUME Inv, Inv', BlocksAreKnown, BlocksAreKnown', Next
    PROVE  \A i \in disk.blocked \ (unread \ blocked) : i \in disk'.blocked /\ ~IsRunning(i)'
<1>. SUFFICES ASSUME NEW i \in disk.blocked, i \notin unread \ blocked
              PROVE  i \in disk'.blocked /\ ~IsRunning(i)'
  OBVIOUS
<1>1. i \in Issues
  BY DEF Inv, TypeOK
<1>2. /\ i \in disk'.blocked
      /\ svc # "down" /\ svc' # "down" => i \in blocked'
      /\ svc = "down" => svc' = "starting"
  <2>1. CASE svc = "down"
    <3>1. Load
      BY <2>1, OnlyLoadStarts
    <3>. QED  BY <2>1, <3>1 DEF Load
  <2>2. CASE svc # "down"
    <3>1. i \in blocked
      BY <2>2 DEF BlocksAreKnown
    <3>. QED  BY <2>2, <3>1, BlockedSteps
  <2>. QED  BY <2>1, <2>2
<1>3. ~HasTask(i)'
  <2>1. CASE svc' = "down" \/ svc = "down"
    BY <1>1, <1>2, <2>1 DEF Inv, QuietWhileDown
  <2>2. CASE svc # "down" /\ svc' # "down"
    BY <1>1, <1>2, <2>2 DEF Inv, ExclusiveOwner
  <2>. QED  BY <2>1, <2>2
<1>4. running'[i].task \in Handles \union {NoHandle}
  BY <1>1 DEF Inv, TypeOK, Entries
<1>5. ~IsRunning(i)'
  BY <1>1, <1>3, <1>4 DEF IsRunning, HasTask, Inv, HandlerPopsOwnEntry, Results
<1>. QED  BY <1>2, <1>5

(* What the file records as blocked stays so and is never run, through     *)
(* restarts, crashes and failed writes alike, as long as each start can    *)
(* read it.                                                                *)
THEOREM BlockedForGood == Spec => BlockedStaysBlocked
<1>1. Init => BlocksAreKnown
  BY DEF Init, BlocksAreKnown
<1>2. Inv /\ BlocksAreKnown /\ [Next]_vars => BlocksAreKnown'
  BY BlocksAreKnownStep
<1>3. Inv /\ Inv' /\ BlocksAreKnown /\ BlocksAreKnown' /\ [Next]_vars
        => [\A i \in disk.blocked \ (unread \ blocked) :
               i \in disk'.blocked /\ ~IsRunning(i)']_vars
  BY BlockedStep
<1>. QED  BY <1>1, <1>2, <1>3, Invariance, PTL DEF Spec, BlockedStaysBlocked

-----------------------------------------------------------------------------
(* Retries that name a timer                                               *)

(* An issue without a retry names no timer, so that stop() cancels none    *)
(* that is asking the tracker.                                             *)
EmptyHasNoTimer == \A i \in Issues : ~Waits(i) => retry[i].timer = NoHandle

LEMMA EmptyFrame ==
    ASSUME EmptyHasNoTimer, UNCHANGED retry
    PROVE  EmptyHasNoTimer'
BY DEF EmptyHasNoTimer, Waits

LEMMA ScheduleEmpty ==
    ASSUME TypeOK, EmptyHasNoTimer, NEW i \in Issues, NEW a \in Attempts, a > 0, NEW own,
           ScheduleRetry(i, a, own)
    PROVE  EmptyHasNoTimer'
<1>1. PICK new \in Handles : retry' = [retry EXCEPT ![i] = [attempt |-> a, timer |-> new]]
  BY DEF ScheduleRetry
<1>2. retry'[i] = [attempt |-> a, timer |-> new]
  BY <1>1 DEF TypeOK
<1>3. \A j \in Issues : j # i => retry'[j] = retry[j]
  BY <1>1 DEF TypeOK
<1>4. Waits(i)'
  BY <1>2 DEF Waits
<1>. QED  BY <1>3, <1>4 DEF EmptyHasNoTimer, Waits

LEMMA LaunchEmpty ==
    ASSUME EmptyHasNoTimer, NEW picked \in SUBSET Issues,
           NEW new \in [picked -> Handles], NEW a, NEW ans, Launch(picked, new, a, ans)
    PROVE  EmptyHasNoTimer'
BY DEF Launch, EmptyHasNoTimer, Waits, NoRetry

LEMMA EmptyStep ==
    ASSUME Inv, EmptyHasNoTimer, [Next]_vars
    PROVE  EmptyHasNoTimer'
<1>0. TypeOK
  BY DEF Inv
<1>1. CASE Load
  BY <1>1, LoadedFits DEF EmptyHasNoTimer
<1>2. CASE Started
  <2>1. \A i \in Issues : ~Waits(i) => retry'[i] = retry[i]
    BY <1>2 DEF Started, Waits
  <2>2. \A i \in Issues : retry'[i].attempt = retry[i].attempt
    BY <1>0, <1>2 DEF Started, TypeOK, Retries
  <2>. QED  BY <2>1, <2>2 DEF EmptyHasNoTimer, Waits
<1>3. ASSUME NEW i \in Issues, NEW a \in Attempts, a > 0, NEW own, ScheduleRetry(i, a, own)
      PROVE  EmptyHasNoTimer'
  BY <1>0, <1>3, ScheduleEmpty
<1>4. ASSUME NEW picked \in SUBSET Issues, NEW new \in [picked -> Handles], NEW a, NEW ans,
             Launch(picked, new, a, ans)
      PROVE  EmptyHasNoTimer'
  BY <1>4, LaunchEmpty
<1>5. ASSUME NEW ans \in [Issues -> Views], TickDispatch(ans)
      PROVE  EmptyHasNoTimer'
  <2>1. \E picked \in SUBSET Issues : \E new \in [picked -> Handles] :
          Launch(picked, new, 0, ans)
    BY <1>5 DEF TickDispatch
  <2>. QED  BY <1>4, <2>1
<1>6. ASSUME NEW i \in Issues, NEW h \in Handles, WorkerStep(i, h)
      PROVE  EmptyHasNoTimer'
  <2>1. NextAttempt(running[i].attempt) \in Attempts /\ NextAttempt(running[i].attempt) > 0
        /\ 1 \in Attempts /\ 1 > 0
    BY <1>0, AttemptAssumption DEF NextAttempt, Attempts, TypeOK, Entries
  <2>2. \/ UNCHANGED retry
        \/ ScheduleRetry(i, NextAttempt(running[i].attempt), NoHandle)
        \/ ScheduleRetry(i, 1, NoHandle)
    BY <1>6 DEF WorkerStep, WorkerEnds, HandleWorkerDone, Released, Retried, Completed,
               Blocked, CleanupReturns, CleanupRaises
  <2>. QED  BY <1>3, <2>1, <2>2, EmptyFrame
<1>7. ASSUME NEW i \in Issues, NEW h \in Handles, TimerStep(i, h)
      PROVE  EmptyHasNoTimer'
  <2>1. CASE TimerFires(i, h)
    BY <1>0, <2>1 DEF TimerFires, EmptyHasNoTimer, Waits, NoRetry, TypeOK
  <2>2. ASSUME NEW v \in Views, RetryDispatched(i, h, v)
        PROVE  EmptyHasNoTimer'
    <3>1. PICK g \in Handles :
            Launch({i}, [j \in {i} |-> g], timer[i][h].attempt, [j \in {i} |-> v])
      BY <2>2 DEF RetryDispatched
    <3>. QED  BY <1>4, <3>1
  <2>3. CASE RetryPollFails(i, h)
    <3>1. timer[i][h].attempt \in Attempts
      BY <2>3, AskingTimer DEF RetryPollFails
    <3>2. NextAttempt(timer[i][h].attempt) \in Attempts /\ NextAttempt(timer[i][h].attempt) > 0
      BY <3>1, AttemptAssumption DEF NextAttempt, Attempts
    <3>. QED  BY <1>3, <2>3, <3>2 DEF RetryPollFails
  <2>4. ASSUME NEW v \in Views, RetryRequeued(i, h, v)
        PROVE  EmptyHasNoTimer'
    <3>1. timer[i][h].attempt \in Attempts /\ timer[i][h].attempt > 0
      BY <2>4, AskingTimer DEF RetryRequeued
    <3>. QED  BY <1>3, <2>4, <3>1 DEF RetryRequeued
  <2>5. CASE RetryPollRaises(i, h) \/ \E v \in Views : RetryReleased(i, h, v)
    BY <2>5, EmptyFrame DEF RetryPollRaises, RetryReleased
  <2>. QED  BY <1>7, <2>1, <2>2, <2>3, <2>4, <2>5 DEF TimerStep
<1>8. CASE \/ StopReturns \/ Crash
           \/ \E i \in Issues, h \in Handles : CrashMidCompletion(i, h)
  <2>1. Forget
    BY <1>8 DEF StopReturns, Crash, CrashMidCompletion
  <2>. QED  BY <2>1 DEF Forget, EmptyHasNoTimer, NoRetry
<1>9. CASE \/ TickStart \/ TickFetchFails \/ Stop \/ UNCHANGED vars
           \/ \E ans \in [ids -> Views] : TickRefreshed(ans)
  <2>1. UNCHANGED retry
    BY <1>9 DEF TickStart, TickFetchFails, TickRefreshed, Stop, memory, vars
  <2>. QED  BY <2>1, EmptyFrame
<1>. QED
  BY <1>1, <1>2, <1>5, <1>6, <1>7, <1>8, <1>9 DEF Next

-----------------------------------------------------------------------------
(* Slots                                                                   *)

(* Of some issues, one is dispatched last.                                 *)
LEMMA LastRank ==
    ASSUME NEW S \in SUBSET Issues, S # {}
    PROVE  \E m \in S : \A j \in S : j # m => Rank[j] < Rank[m]
<1> DEFINE above(m) == {j \in S : Rank[j] > Rank[m]}
           Aboves == {above(m) : m \in S}
           R == StrictSubsetOrdering(S)
<1>1. IsFiniteSet(S)
  BY IssuesAssumption, FS_Subset
<1>2. IsWellFoundedOn(R, FiniteSubsetsOf(S))
  BY FS_StrictSubsetOrderingWellFounded
<1>3. Aboves \subseteq FiniteSubsetsOf(S)
  BY <1>1, FS_Subset DEF FiniteSubsetsOf
<1>4. Aboves # {}
  OBVIOUS
<1>5. \E A \in Aboves : \A B \in Aboves : <<B, A>> \notin R
  <2>. HIDE DEF Aboves, R
  <2>. QED  BY <1>2, <1>3, <1>4, WFMin
<1>6. PICK m \in S : \A B \in Aboves : <<B, above(m)>> \notin R
  BY <1>5
<1>7. ASSUME NEW j \in S, j # m
      PROVE  Rank[j] < Rank[m]
  <2>1. Rank[j] \in Nat /\ Rank[m] \in Nat /\ Rank[j] # Rank[m]
    BY <1>7, RankAssumption
  <2>2. CASE Rank[j] > Rank[m]
    <3>1. j \in above(m) /\ j \notin above(j)
      BY <2>1, <2>2
    <3>2. above(j) \subseteq above(m)
      BY <2>1, <2>2, RankAssumption
    <3>3. <<above(j), above(m)>> \in R
      BY <3>1, <3>2 DEF StrictSubsetOrdering
    <3>. QED  BY <1>6, <3>3
  <2>. QED  BY <2>1, <2>2
<1>. QED  BY <1>7

(* A set with room for one more has room for that one.                     *)
LEMMA CardinalityOneMore ==
    ASSUME NEW S \in SUBSET Issues, NEW m, NEW T \in SUBSET (S \union {m}),
           NEW n \in Nat, Cardinality(S) < n
    PROVE  Cardinality(T) <= n
<1>1. IsFiniteSet(S)
  BY IssuesAssumption, FS_Subset
<1>2. /\ IsFiniteSet(S \union {m})
      /\ Cardinality(S \union {m}) \in {Cardinality(S), Cardinality(S) + 1}
  BY <1>1, FS_AddElement
<1>3. Cardinality(S) \in Nat
  BY <1>1, FS_CardinalityType
<1>4. Cardinality(T) <= Cardinality(S \union {m}) /\ Cardinality(T) \in Nat
  BY <1>2, FS_Subset, FS_CardinalityType
<1>. QED  BY <1>2, <1>3, <1>4

(* The entries a dispatch leaves                                           *)
LEMMA LaunchRuns ==
    ASSUME NEW picked \in SUBSET Issues, NEW new \in [picked -> Handles], NEW a, NEW ans,
           Launch(picked, new, a, ans)
    PROVE  /\ Running' = Running \union picked
           /\ \A i \in picked : running'[i].state = StateOf(ans[i])
           /\ \A i \in Issues \ picked : running'[i] = running[i]
BY HandlesAssumption DEF Launch, Running, IsRunning

(* The last issue a tick dispatches has found room for itself after the    *)
(* others, among all issues and among those of its state.                  *)
LEMMA TickSlots ==
    ASSUME TypeOK, NEW ans \in [Issues -> Views], NEW picked \in SUBSET Issues,
           NEW new \in [picked -> Handles], Chosen(picked, ans), Launch(picked, new, 0, ans)
    PROVE  Running' \subseteq Running \/ WithinLimits(limit)
<1> DEFINE before(i) == {j \in picked : Rank[j] < Rank[i]}
           st(i) == [j \in Issues |-> IF j \in before(i) THEN StateOf(ans[j])
                                      ELSE running[j].state]
<1>0. /\ Running' = Running \union picked
      /\ \A i \in picked : running'[i].state = StateOf(ans[i])
      /\ \A i \in Issues \ picked : running'[i] = running[i]
  BY LaunchRuns
<1>1. \A i \in picked : Fits(StateOf(ans[i]), limit, Running \union before(i), st(i))
  BY DEF Chosen
<1>2. Running \subseteq Issues
  BY DEF Running
<1>3. limit \in Nat
  BY LimitsAssumption DEF TypeOK
<1>4. ASSUME picked # {}
      PROVE  Cardinality(Running') <= limit
  <2>1. PICK m \in picked : \A j \in picked : j # m => Rank[j] < Rank[m]
    BY <1>4, LastRank
  <2>2. Cardinality(Running \union before(m)) < limit
    BY <1>1 DEF Fits
  <2>3. Running' \in SUBSET ((Running \union before(m)) \union {m})
    BY <1>0, <2>1
  <2>4. Running \union before(m) \in SUBSET Issues
    BY <1>2
  <2>. QED  BY <1>3, <2>2, <2>3, <2>4, CardinalityOneMore
<1>5. ASSUME NEW i \in picked, StateOf(ans[i]) \in DOMAIN StateLimit
      PROVE  Cardinality({j \in Running' : running'[j].state = StateOf(ans[i])})
                <= StateLimit[StateOf(ans[i])]
  <2> DEFINE s == StateOf(ans[i])
             P == {j \in picked : StateOf(ans[j]) = s}
             T == {j \in Running' : running'[j].state = s}
  <2>1. PICK m \in P : \A j \in P : j # m => Rank[j] < Rank[m]
    <3>1. P \in SUBSET Issues /\ P # {}
      BY <1>5
    <3>. HIDE DEF P
    <3>. QED  BY <3>1, LastRank
  <2> DEFINE S == {j \in Running \union before(m) : st(m)[j] = s}
  <2>2. Cardinality(S) < StateLimit[s]
    BY <1>1, <1>5, <2>1 DEF Fits
  <2>3. StateLimit[s] \in Nat
    BY <1>5, StateLimitAssumption
  <2>4. S \in SUBSET Issues
    BY <1>2
  <2>5. ASSUME NEW j \in T, j # m
        PROVE  j \in S
    <3>1. CASE j \in picked
      <4>1. j \in before(m)
        BY <1>0, <2>1, <2>5, <3>1
      <4>. QED  BY <1>0, <2>5, <3>1, <4>1
    <3>2. CASE j \notin picked
      BY <1>0, <1>2, <2>5, <3>2
    <3>. QED  BY <3>1, <3>2
  <2>6. T \in SUBSET (S \union {m})
    BY <2>5
  <2>. HIDE DEF S, T, s
  <2>7. Cardinality(T) <= StateLimit[s]
    BY <2>2, <2>3, <2>4, <2>6, CardinalityOneMore
  <2>. QED  BY <2>7 DEF T, s
<1>6. CASE picked = {}
  BY <1>0, <1>6
<1>7. CASE picked # {}
  <2>1. \A i \in Running' \ Running : i \in picked
    BY <1>0
  <2>. QED  BY <1>0, <1>4, <1>5, <1>7, <2>1 DEF WithinLimits
<1>. QED  BY <1>6, <1>7

(* A retry handler dispatches one issue, within the limit it had read.     *)
LEMMA RetrySlots ==
    ASSUME TypeOK, NEW i \in Issues, NEW h \in Handles, NEW v \in Views,
           RetryDispatched(i, h, v)
    PROVE  /\ Running' = Running \union {i} /\ i \notin Running
           /\ WithinLimits(timer[i][h].limit)
<1> DEFINE lim == timer[i][h].limit
           s == StateOf(v)
<1>1. PICK g \in Handles :
        Launch({i}, [j \in {i} |-> g], timer[i][h].attempt, [j \in {i} |-> v])
  BY DEF RetryDispatched
<1>2. /\ Running' = Running \union {i}
      /\ running'[i].state = s
      /\ \A j \in Issues \ {i} : running'[j] = running[j]
  <2> DEFINE new == [j \in {i} |-> g]
             ans == [j \in {i} |-> v]
  <2>1. new \in [{i} -> Handles] /\ Launch({i}, new, timer[i][h].attempt, ans)
    BY <1>1
  <2>2. ans[i] = v
    OBVIOUS
  <2>. HIDE DEF new, ans
  <2>. QED  BY <2>1, <2>2, LaunchRuns
<1>3. /\ i \notin Running
      /\ Cardinality(Running) < lim
      /\ Cardinality({j \in Running : RunningStates[j] = s})
            < (IF s \in DOMAIN StateLimit THEN StateLimit[s] ELSE lim)
  BY DEF RetryDispatched, RetryFits, Wanted, Fits
<1>4. lim \in Nat
  <2>1. timer[i][h] \in Timers
    BY DEF TypeOK
  <2>2. lim \in Limits \union {0}
    BY <2>1 DEF Timers
  <2>. HIDE DEF lim
  <2>. QED  BY <2>2, LimitsAssumption
<1>5. Running \in SUBSET Issues
  BY DEF Running
<1>6. Cardinality(Running') <= lim
  <2>. HIDE DEF lim
  <2>. QED  BY <1>2, <1>3, <1>4, <1>5, CardinalityOneMore
<1>7. ASSUME s \in DOMAIN StateLimit
      PROVE  Cardinality({j \in Running' : running'[j].state = s}) <= StateLimit[s]
  <2> DEFINE S == {j \in Running : RunningStates[j] = s}
             T == {j \in Running' : running'[j].state = s}
  <2>1. S \in SUBSET Issues /\ T \in SUBSET (S \union {i})
    BY <1>2, <1>5 DEF RunningStates
  <2>2. StateLimit[s] \in Nat /\ Cardinality(S) < StateLimit[s]
    BY <1>3, <1>7, StateLimitAssumption
  <2>. HIDE DEF S, T, s
  <2>3. Cardinality(T) <= StateLimit[s]
    BY <2>1, <2>2, CardinalityOneMore
  <2>. QED  BY <2>3 DEF T
<1>8. WithinLimits(lim)
  <2>1. \A j \in Running' \ Running : running'[j].state = s
    BY <1>2, <1>3
  <2>2. ASSUME NEW j \in Running' \ Running, running'[j].state \in DOMAIN StateLimit
        PROVE  Cardinality({k \in Running' : running'[k].state = running'[j].state})
                  <= StateLimit[running'[j].state]
    BY <1>7, <2>1, <2>2
  <2>. HIDE DEF lim, s
  <2>. QED  BY <1>6, <2>2 DEF WithinLimits
<1>. QED  BY <1>2, <1>3, <1>8

(* Only dispatches add running issues.                                     *)
LEMMA SlotsStep ==
    ASSUME TypeOK, Next
    PROVE  \/ Running' \subseteq Running
           \/ WithinLimits(limit)
           \/ \E i \in Running' \ Running, h \in Handles :
                 timer[i][h].st = "asking" /\ WithinLimits(timer[i][h].limit)
<1>1. CASE \/ TickStart \/ TickFetchFails \/ Stop
           \/ \E ans \in [ids -> Views] : TickRefreshed(ans)
  BY <1>1, EntriesKept DEF Running, IsRunning
<1>2. CASE Load \/ Started
  BY <1>2 DEF Load, Started, Running, IsRunning
<1>3. ASSUME NEW ans \in [Issues -> Views], TickDispatch(ans)
      PROVE  Running' \subseteq Running \/ WithinLimits(limit)
  <2>1. PICK picked \in SUBSET Issues : \E new \in [picked -> Handles] :
          Chosen(picked, ans) /\ Launch(picked, new, 0, ans)
    BY <1>3 DEF TickDispatch
  <2>. QED  BY <2>1, TickSlots
<1>4. ASSUME NEW i \in Issues, NEW h \in Handles, NEW v \in Views, RetryDispatched(i, h, v)
      PROVE  \E j \in Running' \ Running, g \in Handles :
                timer[j][g].st = "asking" /\ WithinLimits(timer[j][g].limit)
  <2>1. i \in Running' \ Running /\ WithinLimits(timer[i][h].limit)
    BY <1>4, RetrySlots
  <2>2. timer[i][h].st = "asking"
    BY <1>4 DEF RetryDispatched
  <2>. QED  BY <2>1, <2>2
<1>5. ASSUME NEW i \in Issues, NEW h \in Handles, WorkerStep(i, h)
      PROVE  Running' \subseteq Running
  <2>1. running' = running \/ running' = [running EXCEPT ![i] = NoEntry]
    BY <1>5 DEF WorkerStep, WorkerEnds, HandleWorkerDone, CleanupReturns, CleanupRaises
  <2>2. \A j \in Issues : running'[j] \in {running[j], NoEntry}
    BY <2>1 DEF TypeOK
  <2>. QED  BY <2>2 DEF Running, IsRunning, NoEntry
<1>6. ASSUME NEW i \in Issues, NEW h \in Handles, TimerStep(i, h),
             \A v \in Views : ~RetryDispatched(i, h, v)
      PROVE  Running' \subseteq Running
  <2>1. running' = running
    BY <1>6 DEF TimerStep, TimerFires, RetryReleased, RetryRequeued, RetryPollFails,
               RetryPollRaises
  <2>. QED  BY <2>1 DEF Running, IsRunning
<1>7. CASE \/ StopReturns \/ Crash
           \/ \E i \in Issues, h \in Handles : CrashMidCompletion(i, h)
  BY <1>7 DEF StopReturns, Crash, CrashMidCompletion, Forget, NothingRuns, Running,
             IsRunning, NoEntry
<1>. QED
  BY <1>1, <1>2, <1>3, <1>4, <1>5, <1>6, <1>7 DEF Next

(* However many issues one tick dispatches, and whatever limit a reload    *)
(* sets while a retry handler waits for the tracker, a dispatch stays      *)
(* within the limits its dispatcher had read.                              *)
THEOREM DispatchesFit == Spec => SlotsRespected
<1>1. TypeOK /\ [Next]_vars =>
        [Running' \subseteq Running
         \/ WithinLimits(limit)
         \/ \E i \in Running' \ Running, h \in Handles :
               timer[i][h].st = "asking" /\ WithinLimits(timer[i][h].limit)]_vars
  BY SlotsStep
<1>. QED  BY <1>1, Typing, PTL DEF Spec, SlotsRespected

-----------------------------------------------------------------------------
(* The situations of an issue, and what a step makes of them               *)

Free(i) == ~IsRunning(i) /\ ~HasTask(i) /\ ~AsksTracker(i) /\ ~Waits(i) /\ i \notin blocked
Works(i, a) == IsRunning(i) /\ running[i].attempt = a /\ ~Waits(i) /\ i \notin blocked
Cleans(i) == ~IsRunning(i) /\ HasTask(i) /\ ~AsksTracker(i) /\ ~Waits(i) /\ i \notin blocked
Awaits(i, a) ==
    /\ ~IsRunning(i) /\ ~HasTask(i) /\ ~AsksTracker(i) /\ i \notin blocked
    /\ retry[i].attempt = a /\ a > 0
Asks(i, a) ==
    /\ ~IsRunning(i) /\ ~HasTask(i) /\ ~Waits(i) /\ i \notin blocked
    /\ \E h \in Handles : timer[i][h].st = "asking"
                         /\ timer[i][h].attempt = a
                         /\ \A g \in Handles \ {h} : timer[i][g].st # "asking"
BlockedBy(i) == ~IsRunning(i) /\ ~AsksTracker(i) /\ ~Waits(i) /\ i \in blocked

(* A step that leaves an issue in its situation                            *)
Same(i) ==
    /\ running'[i].task = running[i].task
    /\ running'[i].attempt = running[i].attempt
    /\ HasTask(i)' <=> HasTask(i)
    /\ AsksTracker(i)' <=> AsksTracker(i)
    /\ retry'[i].attempt = retry[i].attempt
    /\ ~Waits(i) => timer'[i] = timer[i]
    /\ i \in claimed' <=> i \in claimed
    /\ i \in blocked' <=> i \in blocked

LEMMA SameFrame ==
    ASSUME NEW i \in Issues, running'[i] = running[i], task'[i] = task[i],
           timer'[i] = timer[i], retry'[i] = retry[i],
           i \in claimed' <=> i \in claimed, i \in blocked' <=> i \in blocked
    PROVE  Same(i)
BY DEF Same, HasTask, AsksTracker

LEMMA NextAttemptGrows ==
    ASSUME NEW a \in Attempts
    PROVE  NextAttempt(a) \in Attempts /\ NextAttempt(a) >= a /\ NextAttempt(a) > 0
BY AttemptAssumption DEF NextAttempt, Attempts

LEMMA ScheduledAwaits ==
    ASSUME TypeOK, NEW i \in Issues, NEW a \in Attempts, a > 0, NEW own,
           ScheduleRetry(i, a, own),
           running'[i].task = NoHandle, i \notin blocked',
           \A h \in Handles : task'[i][h] = "none",
           \A h \in Handles : timer[i][h].st # "none" => h = own
    PROVE  /\ Awaits(i, a)'
           /\ \A j \in Issues \ {i} : timer'[j] = timer[j] /\ retry'[j] = retry[j]
<1>1. PICK new \in Handles :
        /\ timer' = [timer EXCEPT ![i] = [h \in Handles |->
                        IF h = new THEN Asleep
                        ELSE IF h \in {own, retry[i].timer} THEN IdleTimer
                        ELSE timer[i][h]]]
        /\ retry' = [retry EXCEPT ![i] = [attempt |-> a, timer |-> new]]
  BY DEF ScheduleRetry
<1>2. retry'[i] = [attempt |-> a, timer |-> new]
  BY <1>1 DEF TypeOK
<1>3. \A h \in Handles : timer'[i][h] = IF h = new THEN Asleep
                                       ELSE IF h \in {own, retry[i].timer} THEN IdleTimer
                                       ELSE timer[i][h]
  BY <1>1 DEF TypeOK
<1>4. \A h \in Handles : timer'[i][h].st # "asking"
  BY <1>3 DEF Asleep, IdleTimer
<1>5. \A j \in Issues \ {i} : timer'[j] = timer[j] /\ retry'[j] = retry[j]
  BY <1>1 DEF TypeOK
<1>6. retry'[i].attempt = a
  BY <1>2
<1>. QED  BY <1>4, <1>5, <1>6 DEF Awaits, IsRunning, HasTask, AsksTracker

(* What a worker step makes of its issue; the others stay as they are.     *)
LEMMA WorkerMoves ==
    ASSUME Inv, NEW i \in Issues, NEW h \in Handles, WorkerStep(i, h)
    PROVE  /\ \A j \in Issues \ {i} : Same(j)
           /\ \/ Same(i)
              \/ \E a \in Attempts :
                    /\ Works(i, a)
                    /\ \/ Free(i)' /\ i \notin claimed'
                       \/ Cleans(i)'
                       \/ BlockedBy(i)'
                       \/ \E b \in Attempts : b >= a /\ Awaits(i, b)'
                       \/ Awaits(i, 1)' /\ task[i][h] = "normal" /\ task'[i][h] = "none"
              \/ Cleans(i) /\ Free(i)' /\ (i \notin claimed' \/ UntypedErrors)
<1>0. TypeOK /\ (\A j \in Issues : Sound(j))
  BY InvIsSound
<1>1. ASSUME NEW r \in Results, WorkerEnds(i, h, r)
      PROVE  \A j \in Issues : Same(j)
  <2>1. \A g \in Handles : task'[i][g] = IF g = h THEN r ELSE task[i][g]
    BY <1>0, <1>1 DEF WorkerEnds, TypeOK
  <2>2. task[i][h] # "none" /\ r # "none"
    BY <1>1 DEF WorkerEnds, Results
  <2>3. HasTask(i)' <=> HasTask(i)
    BY <2>1, <2>2 DEF HasTask
  <2>4. Same(i)
    BY <1>1, <2>3 DEF WorkerEnds, Same, AsksTracker
  <2>5. \A j \in Issues \ {i} : task'[j] = task[j]
    BY <1>0, <1>1 DEF WorkerEnds, TypeOK
  <2>. QED  BY <1>1, <2>4, <2>5, SameFrame DEF WorkerEnds
<1>2. CASE HandleWorkerDone(i, h)
  <2> DEFINE a == running[i].attempt
  <2>1. task[i][h] \in Results
    BY <1>2 DEF HandleWorkerDone
  <2>2. /\ running[i].task = h /\ IsRunning(i)
        /\ \A g \in Handles : g # h => task[i][g] = "none"
        /\ \A g \in Handles : timer[i][g].st = "none"
        /\ retry[i].attempt = 0
        /\ i \in claimed /\ i \notin blocked
    BY <2>1, EndedTask
  <2>3. /\ running' = [running EXCEPT ![i] = NoEntry]
        /\ Released(i, h) \/ Retried(i, h) \/ Completed(i, h) \/ Blocked(i, h)
    BY <1>2, <2>2 DEF HandleWorkerDone
  <2>4. running'[i].task = NoHandle /\ (\A j \in Issues \ {i} : running'[j] = running[j])
    BY <1>0, <2>3 DEF TypeOK, NoEntry
  <2>5. ASSUME NEW j \in Issues \ {i} PROVE Same(j)
    <3>1. /\ task'[j] = task[j] /\ timer'[j] = timer[j] /\ retry'[j] = retry[j]
          /\ j \in claimed' <=> j \in claimed
          /\ j \in blocked' <=> j \in blocked
      BY <1>0, <2>3, <2>5
      DEF Released, Retried, Completed, Blocked, ScheduleRetry, TypeOK
    <3>. QED  BY <2>4, <3>1, SameFrame
  <2>6. Works(i, a) /\ a \in Attempts
    BY <1>0, <2>2 DEF Works, Waits, TypeOK, Entries
  <2>7. CASE Released(i, h)
    <3>1. ~AsksTracker(i)' /\ ~Waits(i)' /\ i \notin blocked' /\ ~IsRunning(i)'
      BY <2>2, <2>4, <2>7 DEF Released, AsksTracker, Waits, IsRunning
    <3>2. CASE running[i].cleanup
      <4>1. task'[i][h] = "cleaning"
        BY <1>0, <2>7, <3>2 DEF Released, TypeOK
      <4>. QED  BY <2>5, <2>6, <3>1, <4>1 DEF Cleans, HasTask
    <3>3. CASE ~running[i].cleanup
      <4>1. \A g \in Handles : task'[i][g] = "none"
        BY <1>0, <2>2, <2>7, <3>3 DEF Released, TypeOK
      <4>2. i \notin claimed'
        BY <2>7, <3>3 DEF Released
      <4>. QED  BY <2>5, <2>6, <3>1, <4>1, <4>2 DEF Free, HasTask
    <3>. QED  BY <3>2, <3>3
  <2>8. ASSUME NEW b \in Attempts, b > 0, ScheduleRetry(i, b, NoHandle), UNCHANGED blocked,
               task' = [task EXCEPT ![i][h] = "none"]
        PROVE  Awaits(i, b)'
    <3>1. \A g \in Handles : task'[i][g] = "none"
      BY <1>0, <2>2, <2>8 DEF TypeOK
    <3>. QED  BY <1>0, <2>2, <2>4, <2>8, <3>1, ScheduledAwaits
  <2>9. CASE Retried(i, h)
    <3>1. PICK b \in Attempts : b = NextAttempt(a) /\ b >= a /\ b > 0
      BY <2>6, NextAttemptGrows
    <3>2. Awaits(i, b)'
      BY <2>8, <2>9, <3>1 DEF Retried
    <3>. HIDE DEF a
    <3>. QED  BY <2>5, <2>6, <3>1, <3>2
  <2>10. CASE Completed(i, h)
    <3>1. 1 \in Attempts /\ 1 > 0
      BY AttemptAssumption DEF Attempts
    <3>2. Awaits(i, 1)'
      BY <2>8, <2>10, <3>1 DEF Completed
    <3>3. task[i][h] = "normal" /\ task'[i][h] = "none"
      BY <1>0, <2>10 DEF Completed, TypeOK
    <3>. QED  BY <2>5, <2>6, <3>2, <3>3
  <2>11. CASE Blocked(i, h)
    <3>1. BlockedBy(i)'
      BY <2>2, <2>4, <2>11 DEF Blocked, BlockedBy, IsRunning, AsksTracker, Waits
    <3>. QED  BY <2>5, <2>6, <3>1
  <2>. QED  BY <2>3, <2>7, <2>9, <2>10, <2>11
<1>3. CASE CleanupReturns(i, h) \/ CleanupRaises(i, h)
  <2>1. /\ task[i][h] = "cleaning"
        /\ task' = [task EXCEPT ![i][h] = "none"]
        /\ claimed' = claimed \ {i} \/ (claimed' = claimed /\ UntypedErrors)
        /\ UNCHANGED <<running, blocked, retry, timer>>
    BY <1>3 DEF CleanupReturns, CleanupRaises
  <2>2. HasTask(i)
    BY <2>1 DEF HasTask
  <2>3. \A g \in Handles : g # h => task[i][g] = "none"
    BY <1>0, <2>1 DEF Sound
  <2>4. \A g \in Handles : task'[i][g] = "none"
    BY <1>0, <2>1, <2>3 DEF TypeOK
  <2>5. running[i].task \notin Handles
    BY <1>0, <2>1, <2>3 DEF Sound, Results
  <2>6. ~IsRunning(i)
    BY <1>0, <2>5 DEF IsRunning, TypeOK, Entries
  <2>7. Cleans(i)
    BY <1>0, <2>2, <2>6 DEF Sound, Cleans, HasTimer, AsksTracker
  <2>8. Free(i)'
    BY <2>1, <2>4, <2>7 DEF Cleans, Free, HasTask, IsRunning, AsksTracker, Waits
  <2>9. \A j \in Issues \ {i} : task'[j] = task[j]
    BY <1>0, <2>1 DEF TypeOK
  <2>. QED  BY <2>1, <2>7, <2>8, <2>9, SameFrame
<1>. QED  BY <1>1, <1>2, <1>3 DEF WorkerStep

(* What a timer step makes of its issue; the others stay as they are.      *)
LEMMA TimerMoves ==
    ASSUME Inv, NEW i \in Issues, NEW h \in Handles, TimerStep(i, h)
    PROVE  /\ \A j \in Issues \ {i} : Same(j)
           /\ \E a \in Attempts :
                \/ Awaits(i, a) /\ Asks(i, a)'
                \/ /\ Asks(i, a)
                   /\ \/ Free(i)' /\ (i \notin claimed' \/ UntypedErrors)
                      \/ \E b \in Attempts : b >= a /\ Awaits(i, b)'
                      \/ /\ Works(i, a)'
                         /\ \E v \in Views : RetryDispatched(i, h, v)
<1>0. TypeOK /\ (\A j \in Issues : Sound(j))
  BY InvIsSound
<1>1. CASE TimerFires(i, h)
  <2>1. /\ timer[i][h].st = "asleep" /\ UNCHANGED <<running, task, claimed, blocked>>
        /\ retry' = [retry EXCEPT ![i] = NoRetry]
        /\ timer' = [timer EXCEPT ![i][h] =
                        IF retry[i].attempt = 0 THEN IdleTimer
                        ELSE Asking(retry[i].attempt, limit)]
    BY <1>1 DEF TimerFires
  <2>2. Waits(i) /\ HasTimer(i) /\ ~HasTask(i) /\ i \notin blocked
    BY <1>0, <2>1 DEF Sound, HasTimer
  <2>3. \A g \in Handles : g # h => timer[i][g].st = "none"
    BY <1>0, <2>1 DEF Sound
  <2>4. ~IsRunning(i)
    <3>1. running[i].task \notin Handles
      BY <1>0, <2>2 DEF Sound, HasTask, Results
    <3>. QED  BY <1>0, <3>1 DEF IsRunning, TypeOK, Entries
  <2>5. PICK a \in Attempts : a = retry[i].attempt /\ a > 0
    BY <1>0, <2>2 DEF Waits, TypeOK, Retries
  <2>6. Awaits(i, a)
    BY <2>1, <2>2, <2>3, <2>4, <2>5 DEF Awaits, AsksTracker
  <2>7. timer'[i][h] = Asking(a, limit) /\ \A g \in Handles \ {h} : timer'[i][g] = timer[i][g]
    BY <1>0, <2>1, <2>5 DEF TypeOK
  <2>8. retry'[i].attempt = 0
    BY <1>0, <2>1 DEF NoRetry, TypeOK
  <2>9. Asks(i, a)'
    BY <2>1, <2>2, <2>3, <2>4, <2>7, <2>8 DEF Asks, IsRunning, HasTask, Waits, Asking
  <2>10. ASSUME NEW j \in Issues \ {i} PROVE Same(j)
    BY <1>0, <2>1, <2>10, SameFrame DEF TypeOK
  <2>. QED  BY <2>6, <2>9, <2>10
<1>2. CASE timer[i][h].st = "asking"
  <2>1. /\ \A g \in Handles : task[i][g] = "none"
        /\ \A g \in Handles : timer[i][g].st # "none" => g = h
        /\ running[i].task = NoHandle
        /\ retry[i].attempt = 0
        /\ timer[i][h].attempt \in Attempts /\ timer[i][h].attempt > 0
        /\ i \in claimed /\ i \notin blocked
    BY <1>2, AskingTimer
  <2>2. PICK a \in Attempts : a = timer[i][h].attempt /\ a > 0
    BY <2>1
  <2>3. Asks(i, a)
    BY <1>2, <2>1, <2>2 DEF Asks, IsRunning, HasTask, Waits
  <2>4. ASSUME timer' = [timer EXCEPT ![i][h] = IdleTimer],
               claimed' = claimed \ {i} \/ (claimed' = claimed /\ UntypedErrors),
               UNCHANGED <<running, task, blocked, retry>>
        PROVE  /\ Free(i)' /\ (i \notin claimed' \/ UntypedErrors)
               /\ \A j \in Issues \ {i} : Same(j)
    <3>1. \A g \in Handles : timer'[i][g].st # "asking"
      BY <1>0, <2>1, <2>4 DEF TypeOK, IdleTimer
    <3>2. Free(i)'
      BY <2>1, <2>4, <3>1 DEF Free, IsRunning, HasTask, AsksTracker, Waits
    <3>3. ASSUME NEW j \in Issues \ {i} PROVE Same(j)
      BY <1>0, <2>4, <3>3, SameFrame DEF TypeOK
    <3>. QED  BY <2>4, <3>2, <3>3
  <2>5. ASSUME NEW b \in Attempts, b > 0, ScheduleRetry(i, b, h),
               UNCHANGED <<running, task, blocked>>
        PROVE  Awaits(i, b)' /\ \A j \in Issues \ {i} : Same(j)
    <3>1. /\ Awaits(i, b)'
          /\ \A j \in Issues \ {i} : timer'[j] = timer[j] /\ retry'[j] = retry[j]
      BY <1>0, <2>1, <2>5, ScheduledAwaits
    <3>2. ASSUME NEW j \in Issues \ {i} PROVE Same(j)
      BY <2>5, <3>1, <3>2, SameFrame DEF ScheduleRetry
    <3>. QED  BY <3>1, <3>2
  <2>6. CASE RetryPollRaises(i, h) \/ \E v \in Views : RetryReleased(i, h, v)
    BY <2>3, <2>4, <2>6 DEF RetryPollRaises, RetryReleased
  <2>7. ASSUME NEW v \in Views, RetryRequeued(i, h, v)
        PROVE  Awaits(i, a)' /\ \A j \in Issues \ {i} : Same(j)
    BY <2>2, <2>5, <2>7 DEF RetryRequeued
  <2>8. ASSUME RetryPollFails(i, h)
        PROVE  /\ \E b \in Attempts : b >= a /\ Awaits(i, b)'
               /\ \A j \in Issues \ {i} : Same(j)
    <3>1. PICK b \in Attempts : b = NextAttempt(a) /\ b >= a /\ b > 0
      BY NextAttemptGrows
    <3>. QED  BY <2>2, <2>5, <2>8, <3>1 DEF RetryPollFails
  <2>9. ASSUME NEW v \in Views, RetryDispatched(i, h, v)
        PROVE  Works(i, a)' /\ \A j \in Issues \ {i} : Same(j)
    <3>1. PICK g \in Handles :
            Launch({i}, [j \in {i} |-> g], timer[i][h].attempt, [j \in {i} |-> v])
      BY <2>9 DEF RetryDispatched
    <3>2. running'[i].task = g /\ running'[i].attempt = a /\ retry'[i] = NoRetry
      BY <2>2, <3>1 DEF Launch
    <3>3. Works(i, a)'
      BY <2>1, <2>9, <3>2, HandlesAssumption
      DEF Works, IsRunning, Waits, NoRetry, RetryDispatched
    <3>4. ASSUME NEW j \in Issues \ {i} PROVE Same(j)
      <4>1. /\ running'[j] = running[j] /\ retry'[j] = retry[j]
            /\ j \in claimed' <=> j \in claimed
        BY <3>1, <3>4 DEF Launch
      <4>2. task'[j] = task[j]
        BY <1>0, <3>1, <3>4 DEF Launch, TypeOK
      <4>. QED  BY <1>0, <2>9, <3>4, <4>1, <4>2, SameFrame DEF RetryDispatched, TypeOK
    <3>. QED  BY <3>3, <3>4
  <2>10. \A c \in Attempts : c >= c
    BY DEF Attempts
  <2>11. CASE TimerFires(i, h)
    BY <1>2, <2>11 DEF TimerFires
  <2>. QED  BY <2>3, <2>6, <2>4, <2>7, <2>8, <2>9, <2>10, <2>11 DEF TimerStep
<1>. QED
  BY <1>1, <1>2 DEF TimerStep, RetryReleased, RetryRequeued, RetryDispatched,
                    RetryPollFails, RetryPollRaises

(* The start of the timers, a tick before its dispatches, and stop() leave *)
(* every issue in its situation.                                           *)
LEMMA QuietMoves ==
    ASSUME Inv, EmptyHasNoTimer,
           \/ Started \/ TickStart \/ TickFetchFails \/ Stop
           \/ \E ans \in [ids -> Views] : TickRefreshed(ans)
    PROVE  \A i \in Issues : Same(i)
<1>0. TypeOK
  BY DEF Inv
<1>1. CASE Started
  <2>1. /\ \A i \in Issues : retry'[i].attempt = retry[i].attempt
        /\ \A i \in Issues : ~Waits(i) => timer'[i] = timer[i]
    BY <1>0, <1>1 DEF Started, TypeOK, Retries, Waits
  <2>2. \A i \in Issues, h \in Handles : timer[i][h].st = "none" /\ timer'[i][h].st # "asking"
    BY <1>1 DEF Started, Inv, QuietWhileDown, HasTimer, Asleep
  <2>3. UNCHANGED <<running, task, claimed, blocked>>
    BY <1>1 DEF Started
  <2>. QED  BY <2>1, <2>2, <2>3 DEF Same, HasTask, AsksTracker
<1>2. CASE \/ TickStart \/ TickFetchFails
           \/ \E ans \in [ids -> Views] : TickRefreshed(ans)
  <2>1. UNCHANGED <<task, timer, retry, claimed, blocked>>
    BY <1>2 DEF TickStart, TickFetchFails, TickRefreshed, memory
  <2>. QED  BY <1>0, <1>2, <2>1, EntriesKept DEF Same, HasTask, AsksTracker
<1>3. CASE Stop
  <2>1. /\ UNCHANGED <<task, claimed, blocked, retry>>
        /\ \A i \in Issues :
             timer'[i] = [h \in Handles |-> IF h = retry[i].timer THEN IdleTimer
                                            ELSE timer[i][h]]
    BY <1>3 DEF Stop
  <2>2. ASSUME NEW i \in Issues, ~Waits(i)
        PROVE  timer'[i] = timer[i]
    <3>1. \A h \in Handles : h # retry[i].timer
      BY <2>2, HandlesAssumption DEF EmptyHasNoTimer
    <3>2. timer'[i] = [h \in Handles |-> timer[i][h]]
      BY <2>1, <3>1
    <3>3. timer[i] \in [Handles -> Timers]
      BY <1>0 DEF TypeOK
    <3>. QED  BY <3>2, <3>3
  <2>3. ASSUME NEW i \in Issues
        PROVE  AsksTracker(i)' <=> AsksTracker(i)
    <3>1. CASE Waits(i)
      <4>1. ~AsksTracker(i)
        BY <3>1 DEF Inv, ExclusiveOwner
      <4>2. \A h \in Handles : timer'[i][h] = IdleTimer \/ timer'[i][h] = timer[i][h]
        BY <2>1
      <4>. QED  BY <4>1, <4>2 DEF AsksTracker, IdleTimer
    <3>2. CASE ~Waits(i)
      BY <2>2, <3>2 DEF AsksTracker
    <3>. QED  BY <3>1, <3>2
  <2>. QED  BY <1>0, <1>3, <2>1, <2>2, <2>3, EntriesKept DEF Same, HasTask
<1>. QED  BY <1>1, <1>2, <1>3

(* A tick takes free issues in hand, at attempt 0.                         *)
LEMMA DispatchMoves ==
    ASSUME Inv, NEW ans \in [Issues -> Views], TickDispatch(ans)
    PROVE  \E picked \in SUBSET Issues :
              /\ \A i \in picked : Free(i) /\ i \notin claimed /\ Works(i, 0)'
              /\ \A i \in Issues \ picked : Same(i)
              /\ Running' = Running \union picked
              /\ picked # {} => WithinLimits(limit)
<1>0. TypeOK /\ (\A i \in Issues : Sound(i))
  BY InvIsSound
<1>1. PICK picked \in SUBSET Issues : \E new \in [picked -> Handles] :
        /\ Chosen(picked, ans)
        /\ Launch(picked, new, 0, ans)
        /\ timer' = [i \in Issues |-> [h \in Handles |->
                        IF i \in picked /\ h = retry[i].timer THEN IdleTimer
                        ELSE timer[i][h]]]
  BY DEF TickDispatch
<1>2. PICK new \in [picked -> Handles] : Chosen(picked, ans) /\ Launch(picked, new, 0, ans)
  BY <1>1
<1>3. UNCHANGED blocked
  BY DEF TickDispatch
<1>4. ASSUME NEW i \in picked PROVE Free(i) /\ i \notin claimed /\ Works(i, 0)'
  <2>1. i \in Issues /\ i \notin claimed /\ i \notin Running
    BY <1>2 DEF Chosen, Wanted
  <2>2. ~HasTask(i) /\ ~HasTimer(i) /\ ~Waits(i) /\ i \notin blocked /\ ~IsRunning(i)
    BY <1>0, <2>1 DEF Sound, Running
  <2>3. running'[i].task = new[i] /\ running'[i].attempt = 0 /\ retry'[i] = NoRetry
    BY <1>2, <2>1 DEF Launch
  <2>4. Works(i, 0)'
    BY <1>3, <2>2, <2>3, HandlesAssumption DEF Works, IsRunning, Waits, NoRetry
  <2>. QED  BY <2>1, <2>2, <2>4 DEF Free, HasTimer, AsksTracker
<1>5. ASSUME NEW i \in Issues \ picked PROVE Same(i)
  <2>1. task'[i] = task[i] /\ timer'[i] = timer[i]
    BY <1>0, <1>1, <1>2, <1>5 DEF Launch, TypeOK
  <2>2. running'[i] = running[i] /\ retry'[i] = retry[i] /\ (i \in claimed' <=> i \in claimed)
    BY <1>2, <1>5 DEF Launch
  <2>. QED  BY <1>3, <2>1, <2>2, SameFrame
<1>6. Running' = Running \union picked
  BY <1>2, LaunchRuns
<1>7. picked # {} => WithinLimits(limit)
  <2>1. Running' \subseteq Running \/ WithinLimits(limit)
    BY <1>0, <1>2, TickSlots
  <2>2. picked \intersect Running = {}
    BY <1>4 DEF Free, Running
  <2>. QED  BY <1>6, <2>1, <2>2
<1>. QED  BY <1>4, <1>5, <1>6, <1>7

-----------------------------------------------------------------------------
(* Claims that somebody holds                                              *)

(* An issue is free when none of its activities goes on.                   *)
LEMMA FreeIsFree ==
    ASSUME Inv, NEW i \in Issues
    PROVE  HasTask(i) \/ HasTimer(i) \/ Waits(i) \/ i \in blocked <=> ~Free(i)
<1>1. TypeOK /\ Sound(i)
  BY InvIsSound
<1>2. HasTimer(i) => AsksTracker(i) \/ Waits(i)
  BY <1>1 DEF HasTimer, AsksTracker, Sound, TypeOK, Timers
<1>3. AsksTracker(i) => HasTimer(i)
  BY DEF AsksTracker, HasTimer
<1>4. IsRunning(i) => HasTask(i)
  BY <1>1 DEF Sound, IsRunning, HasTask, Results, TypeOK, Entries
<1>. QED  BY <1>2, <1>3, <1>4 DEF Free

LEMMA FreeKept ==
    ASSUME NEW i \in Issues, Same(i)
    PROVE  Free(i)' <=> Free(i)
BY DEF Same, Free, IsRunning, Waits

(* A claim is dropped with the activity it covered.                        *)
LEMMA ClaimStep ==
    ASSUME Inv, ~UntypedErrors, EmptyHasNoTimer, \A i \in claimed : ~Free(i), [Next]_vars,
           NEW i \in claimed'
    PROVE  ~Free(i)'
<1>0. i \in Issues
  BY InvStep DEF Inv, TypeOK
<1>1. CASE Same(i)
  BY <1>0, <1>1, FreeKept DEF Same
<1>2. CASE Load
  BY <1>0, <1>2, LoadedFits DEF Free, Waits
<1>3. ASSUME NEW k \in Issues, NEW h \in Handles, WorkerStep(k, h) \/ TimerStep(k, h), ~Same(i)
      PROVE  ~Free(i)'
  <2>1. k = i
    BY <1>0, <1>3, WorkerMoves, TimerMoves
  <2>2. \/ Free(i)' /\ i \notin claimed'
        \/ \E b : Works(i, b)' \/ Awaits(i, b)' \/ Asks(i, b)'
        \/ Cleans(i)' \/ BlockedBy(i)'
    BY <1>0, <1>3, <2>1, WorkerMoves, TimerMoves
  <2>. QED  BY <2>2 DEF Free, Works, Awaits, Asks, Cleans, BlockedBy, Waits, AsksTracker
<1>4. CASE \E ans \in [Issues -> Views] : TickDispatch(ans)
  BY <1>0, <1>1, <1>4, DispatchMoves DEF Works, Free
<1>5. CASE \/ Started \/ TickStart \/ TickFetchFails \/ Stop
           \/ \E ans \in [ids -> Views] : TickRefreshed(ans)
  BY <1>0, <1>1, <1>5, QuietMoves
<1>6. CASE \/ StopReturns \/ Crash
           \/ \E k \in Issues, h \in Handles : CrashMidCompletion(k, h)
  BY <1>6 DEF StopReturns, Crash, CrashMidCompletion, Forget
<1>7. CASE UNCHANGED vars
  BY <1>7 DEF vars, Free, IsRunning, HasTask, AsksTracker, Waits
<1>. QED  BY <1>1, <1>2, <1>3, <1>4, <1>5, <1>6, <1>7 DEF Next

(* If no exception goes unhandled, whatever is claimed is held: by a       *)
(* worker, by a timer, by a retry that a restart takes up, or by a human.  *)
THEOREM NoOrphans == Spec => []NoOrphanClaim
<1> DEFINE HeldInv == ~UntypedErrors => \A i \in claimed : ~Free(i)
<1>1. Init => EmptyHasNoTimer /\ HeldInv
  BY DEF Init, EmptyHasNoTimer, NoRetry
<1>2. Inv /\ EmptyHasNoTimer /\ [Next]_vars => EmptyHasNoTimer'
  BY EmptyStep
<1>3. Inv /\ EmptyHasNoTimer /\ HeldInv /\ [Next]_vars => HeldInv'
  BY ClaimStep
<1>4. Inv /\ HeldInv => NoOrphanClaim
  BY FreeIsFree DEF NoOrphanClaim, Inv, TypeOK
<1>. QED  BY <1>1, <1>2, <1>3, <1>4, Invariance, PTL DEF Spec

-----------------------------------------------------------------------------
(* Attempts                                                                *)

(* While the process is down its retry queue is empty, and only its end    *)
(* brings it down.                                                         *)
DownIsEmpty == svc = "down" => \A i \in Issues : retry[i] = NoRetry

LEMMA LiveStep ==
    ASSUME Inv, NEW i \in Issues, NEW h \in Handles, WorkerStep(i, h) \/ TimerStep(i, h)
    PROVE  svc # "down" /\ Begun /\ svc' = svc
<1>1. task[i][h] # "none" \/ timer[i][h].st # "none"
  BY DEF WorkerStep, WorkerEnds, HandleWorkerDone, CleanupReturns, CleanupRaises, Results,
         TimerStep, TimerFires, RetryReleased, RetryRequeued, RetryDispatched,
         RetryPollFails, RetryPollRaises
<1>2. svc # "down" /\ Begun
  BY <1>1 DEF Begun, Inv, QuietWhileDown, HasTask, HasTimer
<1>3. svc' = svc
  BY DEF loop, WorkerStep, WorkerEnds, HandleWorkerDone, CleanupReturns, CleanupRaises,
         TimerStep, TimerFires, RetryReleased, RetryRequeued, RetryDispatched,
         RetryPollFails, RetryPollRaises
<1>. QED  BY <1>2, <1>3

LEMMA EndStep ==
    ASSUME Inv, \/ StopReturns \/ Crash
                \/ \E i \in Issues, h \in Handles : CrashMidCompletion(i, h)
    PROVE  svc # "down" /\ svc' = "down" /\ Forget
<1>1. ASSUME NEW i \in Issues, NEW h \in Handles, CrashMidCompletion(i, h)
      PROVE  svc # "down" /\ svc' = "down" /\ Forget
  <2>1. HasTask(i)
    BY <1>1 DEF CrashMidCompletion, HasTask
  <2>. QED  BY <1>1, <2>1 DEF CrashMidCompletion, Inv, QuietWhileDown
<1>. QED  BY <1>1 DEF StopReturns, Crash

LEMMA DownStep ==
    ASSUME Inv, DownIsEmpty, [Next]_vars
    PROVE  DownIsEmpty'
<1>1. CASE Load \/ Started \/ Stop
  BY <1>1 DEF DownIsEmpty, Load, Started, Stop
<1>2. CASE \/ TickStart \/ TickFetchFails
           \/ \E ans \in [ids -> Views] : TickRefreshed(ans)
           \/ \E ans \in [Issues -> Views] : TickDispatch(ans)
  BY <1>2 DEF DownIsEmpty, TickStart, TickFetchFails, TickRefreshed, TickDispatch
<1>3. ASSUME NEW i \in Issues, NEW h \in Handles, WorkerStep(i, h) \/ TimerStep(i, h)
      PROVE  DownIsEmpty'
  BY <1>3, LiveStep DEF DownIsEmpty
<1>4. CASE \/ StopReturns \/ Crash
           \/ \E i \in Issues, h \in Handles : CrashMidCompletion(i, h)
  BY <1>4, EndStep DEF DownIsEmpty, Forget
<1>5. CASE UNCHANGED vars
  BY <1>5 DEF DownIsEmpty, vars
<1>. QED  BY <1>1, <1>2, <1>3, <1>4, <1>5 DEF Next

(* The attempt an issue is at, by its situation                            *)
LEMMA AttemptNow ==
    ASSUME NEW i \in Issues, NEW a, Works(i, a) \/ Awaits(i, a) \/ Asks(i, a)
    PROVE  AttemptOf(i) = a
<1>1. CASE Works(i, a)
  BY <1>1 DEF Works, AttemptOf
<1>2. CASE Awaits(i, a)
  BY <1>2 DEF Awaits, AttemptOf, Waits
<1>3. CASE Asks(i, a)
  <2>1. PICK h \in Handles : /\ timer[i][h].st = "asking" /\ timer[i][h].attempt = a
                             /\ \A g \in Handles \ {h} : timer[i][g].st # "asking"
    BY <1>3 DEF Asks
  <2>2. {g \in Handles : timer[i][g].st = "asking"} = {h}
    BY <2>1
  <2>. QED  BY <1>3, <2>1, <2>2 DEF Asks, AttemptOf
<1>. QED  BY <1>1, <1>2, <1>3

LEMMA AttemptNext ==
    ASSUME NEW i \in Issues, NEW a, Works(i, a)' \/ Awaits(i, a)' \/ Asks(i, a)'
    PROVE  AttemptOf(i)' = a
<1>1. CASE Works(i, a)'
  BY <1>1 DEF Works, AttemptOf
<1>2. CASE Awaits(i, a)'
  BY <1>2 DEF Awaits, AttemptOf, Waits
<1>3. CASE Asks(i, a)'
  <2>1. PICK h \in Handles : /\ timer'[i][h].st = "asking" /\ timer'[i][h].attempt = a
                             /\ \A g \in Handles \ {h} : timer'[i][g].st # "asking"
    BY <1>3 DEF Asks
  <2>2. {g \in Handles : timer'[i][g].st = "asking"} = {h}
    BY <2>1
  <2>. QED  BY <1>3, <2>1, <2>2 DEF Asks, AttemptOf
<1>. QED  BY <1>1, <1>2, <1>3

LEMMA AttemptKept ==
    ASSUME TypeOK, NEW i \in Issues, Same(i), InHands(i)
    PROVE  AttemptOf(i)' >= AttemptOf(i)
<1>1. IsRunning(i)' <=> IsRunning(i)
  BY DEF Same, IsRunning
<1>2. Waits(i)' <=> Waits(i)
  BY DEF Same, Waits
<1>3. CASE IsRunning(i)
  BY <1>1, <1>3 DEF Same, AttemptOf, TypeOK, Entries, Attempts
<1>4. CASE ~IsRunning(i) /\ Waits(i)
  BY <1>1, <1>2, <1>4 DEF Same, AttemptOf, TypeOK, Retries, Attempts
<1>5. CASE ~IsRunning(i) /\ ~Waits(i)
  <2> DEFINE asking == {h \in Handles : timer[i][h].st = "asking"}
  <2>1. timer'[i] = timer[i]
    BY <1>5 DEF Same
  <2>2. asking # {}
    BY <1>5 DEF InHands, AsksTracker
  <2>3. PICK h \in Handles : h = CHOOSE g \in asking : TRUE
    BY <2>2
  <2>4. AttemptOf(i) = timer[i][h].attempt
    BY <1>5, <2>2, <2>3 DEF AttemptOf
  <2>5. AttemptOf(i)' = timer[i][h].attempt
    BY <1>1, <1>2, <1>5, <2>1, <2>2, <2>3 DEF AttemptOf
  <2>6. timer[i][h].attempt \in Attempts
    BY DEF TypeOK, Timers
  <2>. QED  BY <2>4, <2>5, <2>6 DEF Attempts
<1>. QED  BY <1>3, <1>4, <1>5

(* An issue in hand before and after a step carries its attempt over.      *)
LEMMA BackoffStep ==
    ASSUME Inv, EmptyHasNoTimer, DownIsEmpty, Next,
           NEW i \in Issues, InHands(i), InHands(i)'
    PROVE  \/ AttemptOf(i)' >= AttemptOf(i)
           \/ \E h \in Handles : task[i][h] = "normal" /\ task'[i][h] = "none"
<1>0. TypeOK
  BY DEF Inv
<1>1. ~Free(i) /\ ~Free(i)' /\ ~Cleans(i) /\ ~Cleans(i)' /\ ~BlockedBy(i)'
  BY DEF Free, Cleans, BlockedBy, InHands
<1>2. CASE Same(i)
  BY <1>0, <1>2, AttemptKept
<1>3. ASSUME NEW k \in Issues, NEW h \in Handles, WorkerStep(k, h), ~Same(i)
      PROVE  \/ AttemptOf(i)' >= AttemptOf(i)
             \/ task[i][h] = "normal" /\ task'[i][h] = "none"
  <2>1. k = i
    BY <1>3, WorkerMoves
  <2>2. ASSUME ~(task[i][h] = "normal" /\ task'[i][h] = "none")
        PROVE  \E a, b \in Attempts : b >= a /\ Works(i, a) /\ Awaits(i, b)'
    BY <1>1, <1>3, <2>1, <2>2, WorkerMoves
  <2>. QED  BY <2>2, AttemptNow, AttemptNext
<1>4. ASSUME NEW k \in Issues, NEW h \in Handles, TimerStep(k, h), ~Same(i)
      PROVE  AttemptOf(i)' >= AttemptOf(i)
  <2>1. k = i
    BY <1>4, TimerMoves
  <2>2. \E a, b \in Attempts : /\ b >= a
                               /\ Awaits(i, a) \/ Asks(i, a)
                               /\ Asks(i, b)' \/ Awaits(i, b)' \/ Works(i, b)'
    <3>1. \A a \in Attempts : a >= a
      BY DEF Attempts
    <3>. QED  BY <1>1, <1>4, <2>1, <3>1, TimerMoves
  <2>. QED  BY <2>2, AttemptNow, AttemptNext
<1>5. CASE svc = "down"
  <2>1. ~HasTask(i) /\ ~HasTimer(i) /\ ~Waits(i)
    BY <1>5 DEF Inv, QuietWhileDown, DownIsEmpty, Waits, NoRetry
  <2>2. running[i].task \notin Handles
    BY <2>1 DEF Inv, HandlerPopsOwnEntry, HasTask, Results
  <2>3. ~IsRunning(i)
    BY <1>0, <2>2 DEF IsRunning, TypeOK, Entries
  <2>. QED  BY <2>1, <2>3 DEF InHands, HasTimer, AsksTracker
<1>6. CASE Forget
  BY <1>6 DEF Forget, NothingRuns, InHands, IsRunning, Waits, AsksTracker, NoEntry, NoRetry,
             IdleTimer
<1>7. CASE \/ Started \/ TickStart \/ TickFetchFails \/ Stop
           \/ \E ans \in [ids -> Views] : TickRefreshed(ans)
  BY <1>2, <1>7, QuietMoves
<1>8. CASE \E ans \in [Issues -> Views] : TickDispatch(ans)
  BY <1>1, <1>2, <1>8, DispatchMoves
<1>9. CASE Load \/ StopReturns \/ Crash
           \/ \E k \in Issues, h \in Handles : CrashMidCompletion(k, h)
  BY <1>5, <1>6, <1>9 DEF Load, StopReturns, Crash, CrashMidCompletion
<1>. QED
  BY <1>2, <1>3, <1>4, <1>7, <1>8, <1>9 DEF Next

(* While an issue stays in hand its attempt never goes back, whichever of  *)
(* the entry, the queue and the timer carries it; a normal end alone       *)
(* starts it again.                                                        *)
THEOREM AttemptsGrow == Spec => BackoffNeverShrinks
<1>1. Init => EmptyHasNoTimer /\ DownIsEmpty
  BY DEF Init, EmptyHasNoTimer, DownIsEmpty, NoRetry
<1>2. Inv /\ EmptyHasNoTimer /\ DownIsEmpty /\ [Next]_vars => EmptyHasNoTimer' /\ DownIsEmpty'
  BY EmptyStep, DownStep
<1>3. Inv /\ EmptyHasNoTimer /\ DownIsEmpty /\ [Next]_vars =>
        [\A i \in Issues :
            InHands(i) /\ InHands(i)' =>
                \/ AttemptOf(i)' >= AttemptOf(i)
                \/ \E h \in Handles : task[i][h] = "normal" /\ task'[i][h] = "none"]_vars
  BY BackoffStep
<1>. QED  BY <1>1, <1>2, <1>3, Invariance, PTL DEF Spec, BackoffNeverShrinks

-----------------------------------------------------------------------------
(* The lifecycle                                                           *)

(* The phase of an issue, by its situation                                 *)
LEMMA PhaseNow ==
    ASSUME NEW i \in Issues
    PROVE  /\ \A a : Works(i, a) => PhaseInMemory(i) = "working"
           /\ Cleans(i) => PhaseInMemory(i) = "cleaning"
           /\ \A a : Awaits(i, a) => PhaseInMemory(i) = "waiting"
           /\ \A a : Asks(i, a) => PhaseInMemory(i) = "asking"
           /\ Free(i) => PhaseInMemory(i) = IF i \in claimed THEN "stuck" ELSE "idle"
BY DEF PhaseInMemory, Works, Cleans, Awaits, Asks, Free, Waits, AsksTracker

LEMMA PhaseNext ==
    ASSUME NEW i \in Issues
    PROVE  /\ \A a : Works(i, a)' => PhaseInMemory(i)' = "working"
           /\ Cleans(i)' => PhaseInMemory(i)' = "cleaning"
           /\ \A a : Awaits(i, a)' => PhaseInMemory(i)' = "waiting"
           /\ \A a : Asks(i, a)' => PhaseInMemory(i)' = "asking"
           /\ Free(i)' => PhaseInMemory(i)' = IF i \in claimed' THEN "stuck" ELSE "idle"
           /\ BlockedBy(i)' => PhaseInMemory(i)' = "blocked"
BY DEF PhaseInMemory, Works, Cleans, Awaits, Asks, Free, BlockedBy, Waits, AsksTracker

LEMMA PhaseKept ==
    ASSUME NEW i \in Issues, Same(i)
    PROVE  PhaseInMemory(i)' = PhaseInMemory(i)
<1>1. /\ IsRunning(i)' <=> IsRunning(i)
      /\ Waits(i)' <=> Waits(i)
  BY DEF Same, IsRunning, Waits
<1>. QED  BY <1>1 DEF Same, PhaseInMemory

(* A step inside the process that concerns one issue                       *)
LEMMA OnePhaseMoves ==
    ASSUME Begun, Begun', NEW k \in Issues,
           \A j \in Issues \ {k} : Same(j), NEW from, NEW to,
           PhaseInMemory(k) \in from, PhaseInMemory(k)' \in to
    PROVE  Lifecycle!Move(k, from, to)
<1>1. \A j \in Issues \ {k} : PhaseInMemory(j)' = PhaseInMemory(j)
  BY PhaseKept
<1>2. Phase = [j \in Issues |-> PhaseInMemory(j)]
  BY DEF Phase
<1>3. Phase' = [j \in Issues |-> PhaseInMemory(j)']
  BY DEF Phase
<1>4. Phase' = [Phase EXCEPT ![k] = PhaseInMemory(k)']
  BY <1>1, <1>2, <1>3
<1>5. Begun' = Begun
  BY DEF Begun
<1>. QED  BY <1>2, <1>4, <1>5 DEF Lifecycle!Move

LEMMA AllPhasesKept ==
    ASSUME Begun, Begun', \A j \in Issues : Same(j)
    PROVE  Phase' = Phase /\ Begun' = Begun
<1>1. \A j \in Issues : PhaseInMemory(j)' = PhaseInMemory(j)
  BY PhaseKept
<1>2. Begun' = Begun
  BY DEF Begun
<1>. QED  BY <1>1, <1>2 DEF Phase

LEMMA RunningHasTask ==
    ASSUME Inv, NEW i \in Issues, IsRunning(i)
    PROVE  HasTask(i) /\ ~Waits(i) /\ ~AsksTracker(i) /\ i \notin blocked
<1>1. running[i].task \in Handles
  BY DEF Inv, TypeOK, Entries, IsRunning
<1>2. HasTask(i)
  BY <1>1 DEF Inv, HandlerPopsOwnEntry, HasTask, Results
<1>. QED  BY <1>2 DEF Inv, ExclusiveOwner, HasTimer, AsksTracker

(* The workers of the lifecycle are the running entries.                   *)
LEMMA WorkingIsRunning ==
    ASSUME Inv, Begun
    PROVE  Lifecycle!In("working") = Running
<1>1. \A i \in Issues : Phase[i] = "working" <=> IsRunning(i)
  BY RunningHasTask DEF Phase, PhaseInMemory
<1>. QED  BY <1>1 DEF Lifecycle!In, Running

LEMMA MostSlotsBounds ==
    /\ MostSlots \in Nat
    /\ \A l \in Limits \union {0} : l \in Nat /\ l <= MostSlots
<1>1. MostSlots \in Limits /\ \A k \in Limits : k <= MostSlots
  BY MostSlotsAssumption DEF MostSlots
<1>. QED  BY <1>1, LimitsAssumption

(* The lifecycle counts as the orchestrator does.                          *)
LEMMA SameCardinality ==
    ASSUME NEW S
    PROVE  Lifecycle!Cardinality(S) = Cardinality(S)
BY DEF Lifecycle!Cardinality, Cardinality

(* Every step is a step of the lifecycle or none: of a worker, of a timer, *)
(* of a tick, of a start and of an end of the process.                     *)
LEMMA WorkerRefines ==
    ASSUME Inv, NEW i \in Issues, NEW h \in Handles, WorkerStep(i, h),
           Begun, Begun'
    PROVE  \/ Phase' = Phase /\ Begun' = Begun
           \/ Lifecycle!Finish(i) \/ Lifecycle!CleanupEnds(i)
<1>1. \A j \in Issues \ {i} : Same(j)
  BY WorkerMoves
<1>2. CASE Same(i)
  BY <1>1, <1>2, AllPhasesKept
<1>3. CASE Cleans(i) /\ Free(i)'
  BY <1>1, <1>3, PhaseNow, PhaseNext, OnePhaseMoves DEF Lifecycle!CleanupEnds
<1>4. ASSUME ~Same(i), ~(Cleans(i) /\ Free(i)')
      PROVE  Lifecycle!Finish(i)
  <2>1. PhaseInMemory(i) = "working"
    BY <1>4, WorkerMoves, PhaseNow
  <2>2. PhaseInMemory(i)' \in {"idle", "cleaning", "waiting", "blocked"}
    BY <1>4, WorkerMoves, PhaseNext
  <2>. QED  BY <1>1, <2>1, <2>2, OnePhaseMoves DEF Lifecycle!Finish
<1>. QED  BY <1>2, <1>3, <1>4

LEMMA TimerRefines ==
    ASSUME Inv, NEW i \in Issues, NEW h \in Handles, TimerStep(i, h),
           Begun, Begun'
    PROVE  \/ Lifecycle!RetryDue(i) \/ Lifecycle!RetryAnswered(i) \/ Lifecycle!Redispatch(i)
<1>1. \A j \in Issues \ {i} : Same(j)
  BY TimerMoves
<1>2. PICK a \in Attempts :
        \/ Awaits(i, a) /\ Asks(i, a)'
        \/ /\ Asks(i, a)
           /\ \/ Free(i)'
              \/ \E b \in Attempts : b >= a /\ Awaits(i, b)'
              \/ /\ Works(i, a)'
                 /\ \E v \in Views : RetryDispatched(i, h, v)
  BY TimerMoves
<1>3. CASE Awaits(i, a) /\ Asks(i, a)'
  BY <1>1, <1>3, PhaseNow, PhaseNext, OnePhaseMoves DEF Lifecycle!RetryDue
<1>4. CASE Asks(i, a) /\ (Free(i)' \/ \E b \in Attempts : Awaits(i, b)')
  <2>1. PhaseInMemory(i) = "asking"
    BY <1>4, PhaseNow
  <2>2. PhaseInMemory(i)' \in {"idle", "waiting", "stuck"}
    BY <1>4, PhaseNext
  <2>. QED  BY <1>1, <2>1, <2>2, OnePhaseMoves DEF Lifecycle!RetryAnswered
<1>5. ASSUME NEW v \in Views, Asks(i, a), Works(i, a)', RetryDispatched(i, h, v)
      PROVE  Lifecycle!Redispatch(i)
  <2>1. Lifecycle!Move(i, {"asking"}, {"working"})
    BY <1>1, <1>5, PhaseNow, PhaseNext, OnePhaseMoves
  <2>2. Cardinality(Running) < timer[i][h].limit
    BY <1>5 DEF RetryDispatched, RetryFits, Fits
  <2>3. timer[i][h].limit \in Limits \union {0}
    BY DEF Inv, TypeOK, Timers
  <2>4. Cardinality(Running) \in Nat
    BY IssuesAssumption, FS_Subset, FS_CardinalityType DEF Running
  <2>5. Cardinality(Running) < MostSlots
    BY <2>2, <2>3, <2>4, MostSlotsBounds
  <2>. QED  BY <2>1, <2>5, WorkingIsRunning, SameCardinality DEF Lifecycle!Redispatch
<1>. QED  BY <1>2, <1>3, <1>4, <1>5

LEMMA DispatchRefines ==
    ASSUME Inv, NEW ans \in [Issues -> Views], TickDispatch(ans), Begun, Begun'
    PROVE  \/ Phase' = Phase /\ Begun' = Begun
           \/ \E S \in SUBSET Issues : Lifecycle!Dispatch(S)
<1>1. PICK picked \in SUBSET Issues :
        /\ \A i \in picked : Free(i) /\ i \notin claimed /\ Works(i, 0)'
        /\ \A i \in Issues \ picked : Same(i)
        /\ Running' = Running \union picked
        /\ picked # {} => WithinLimits(limit)
  BY DispatchMoves
<1>2. CASE picked = {}
  BY <1>1, <1>2, AllPhasesKept
<1>3. CASE picked # {}
  <2>1. \A i \in picked : PhaseInMemory(i) = "idle" /\ PhaseInMemory(i)' = "working"
    BY <1>1, PhaseNow, PhaseNext
  <2>2. \A i \in Issues \ picked : PhaseInMemory(i)' = PhaseInMemory(i)
    BY <1>1, PhaseKept
  <2>3. Phase' = [i \in Issues |-> IF i \in picked THEN "working" ELSE Phase[i]]
    BY <2>1, <2>2 DEF Phase
  <2>4. picked \subseteq Lifecycle!In("idle")
    BY <2>1 DEF Phase, Lifecycle!In
  <2>5. Cardinality(Running \union picked) <= limit
    BY <1>1, <1>3 DEF WithinLimits
  <2>6. limit \in Limits
    BY DEF Inv, TypeOK
  <2>7. Cardinality(Running \union picked) \in Nat
    BY IssuesAssumption, FS_Subset, FS_CardinalityType DEF Running
  <2>8. Cardinality(Running \union picked) <= MostSlots
    BY <2>5, <2>6, <2>7, MostSlotsBounds
  <2>9. Lifecycle!Dispatch(picked)
    <3>1. Begun' = Begun
      BY DEF Begun
    <3>. QED
      BY <1>3, <2>3, <2>4, <2>8, <3>1, WorkingIsRunning, SameCardinality DEF Lifecycle!Dispatch
  <2>. QED  BY <2>9
<1>. QED  BY <1>2, <1>3

(* Before it starts, the process holds part of what the file lists.        *)
StartingFits ==
    svc = "starting" =>
        \A i \in Issues : /\ i \in blocked => i \in disk.blocked
                          /\ Waits(i) => disk.retry[i] > 0
                          /\ i \in claimed => i \in blocked \/ Waits(i)

LEMMA StartingFitsStep ==
    ASSUME Inv, StartingFits, [Next]_vars
    PROVE  StartingFits'
<1>. SUFFICES ASSUME svc' = "starting" PROVE StartingFits'
  BY DEF StartingFits
<1>1. CASE Load
  <2>1. disk' = disk
    BY <1>1 DEF Load
  <2>. QED  BY <1>1, <2>1, LoadedFits DEF StartingFits, Waits
<1>2. CASE UNCHANGED vars
  BY <1>2 DEF StartingFits, vars, Waits
<1>3. ASSUME NEW i \in Issues, NEW h \in Handles, WorkerStep(i, h) \/ TimerStep(i, h)
      PROVE  FALSE
  BY <1>3, LiveStep DEF Begun
<1>. QED
  BY <1>1, <1>2, <1>3
  DEF Next, Started, TickStart, TickRefreshed, TickDispatch, TickFetchFails, Stop, StopReturns,
      Crash, CrashMidCompletion

(* A start keeps the phase of each issue, or loses it with its entry.      *)
LEMMA StartRefines ==
    ASSUME Inv, EmptyHasNoTimer, StartingFits, Started
    PROVE  \E S \in SUBSET Issues : Lifecycle!Start(S)
<1> DEFINE lost == {i \in Issues : PhaseInMemory(i) # PhaseOnDisk(i)}
<1>1. svc = "starting" /\ ~Begun /\ Begun' = TRUE
  BY DEF Started, Begun
<1>2. ASSUME NEW i \in Issues
      PROVE  /\ PhaseInMemory(i)' = PhaseInMemory(i)
             /\ PhaseInMemory(i) \in {PhaseOnDisk(i), "idle"}
             /\ PhaseOnDisk(i) \in {"blocked", "waiting", "idle"}
  <2>1. ~HasTask(i) /\ ~HasTimer(i)
    BY <1>1 DEF Inv, QuietWhileDown
  <2>2. ~IsRunning(i) /\ ~AsksTracker(i)
    BY <2>1, RunningHasTask DEF HasTimer, AsksTracker
  <2>3. i \in disk.blocked => ~(disk.retry[i] > 0)
    BY DEF Inv, FileIsConsistent
  <2>4. PhaseInMemory(i)' = PhaseInMemory(i)
    BY QuietMoves, PhaseKept
  <2>. QED
    BY <1>1, <2>1, <2>2, <2>3, <2>4 DEF StartingFits, PhaseInMemory, PhaseOnDisk
<1>3. Phase = [i \in Issues |-> PhaseOnDisk(i)] /\ Phase' = [i \in Issues |-> PhaseInMemory(i)']
  BY <1>1 DEF Phase
<1>4. Phase' = [i \in Issues |-> IF i \in lost THEN "idle" ELSE Phase[i]]
  BY <1>2, <1>3
<1>5. lost \subseteq Lifecycle!In("waiting") \union Lifecycle!In("blocked")
  BY <1>2, <1>3 DEF Lifecycle!In
<1>. QED  BY <1>1, <1>4, <1>5 DEF Lifecycle!Start

(* The end of the process is an end of the lifecycle's: the file it leaves *)
(* holds the waiting and the blocked issues.                               *)
LEMMA EndRefines ==
    ASSUME Inv, Begun, svc' = "down",
           disk'.blocked = blocked, \A i \in Issues : disk'.retry[i] = retry[i].attempt
    PROVE  Lifecycle!End
<1>1. ASSUME NEW i \in Issues
      PROVE  PhaseOnDisk(i)' = Lifecycle!Survives(PhaseInMemory(i))
  <2>1. PhaseOnDisk(i)' = IF i \in blocked THEN "blocked"
                          ELSE IF Waits(i) THEN "waiting" ELSE "idle"
    BY DEF PhaseOnDisk, Waits
  <2>2. Waits(i) => ~IsRunning(i) /\ ~HasTask(i) /\ ~AsksTracker(i)
    BY RunningHasTask DEF Inv, ExclusiveOwner
  <2>. QED  BY <2>1, <2>2 DEF PhaseInMemory, Lifecycle!Survives
<1>2. Begun' = FALSE
  BY DEF Begun
<1>. QED  BY <1>1, <1>2 DEF Phase, Lifecycle!End

LEMMA RefinementStep ==
    ASSUME Inv, EmptyHasNoTimer, StartingFits, FileIsCurrent, ~DiskMayFail, [Next]_vars
    PROVE  [Lifecycle!Next]_<<Begun, Phase>>
<1>1. ASSUME NEW i \in Issues, NEW h \in Handles, WorkerStep(i, h) \/ TimerStep(i, h)
      PROVE  [Lifecycle!Next]_<<Begun, Phase>>
  <2>1. Begun /\ Begun'
    BY <1>1, LiveStep DEF Begun
  <2>. QED  BY <1>1, <2>1, WorkerRefines, TimerRefines DEF Lifecycle!Next
<1>2. ASSUME NEW ans \in [Issues -> Views], TickDispatch(ans)
      PROVE  [Lifecycle!Next]_<<Begun, Phase>>
  <2>1. Begun /\ Begun'
    BY <1>2 DEF TickDispatch, Begun
  <2>. QED  BY <1>2, <2>1, DispatchRefines DEF Lifecycle!Next
<1>3. CASE \/ TickStart \/ TickFetchFails \/ Stop
           \/ \E ans \in [ids -> Views] : TickRefreshed(ans)
  <2>1. Begun /\ Begun'
    BY <1>3 DEF TickStart, TickFetchFails, Stop, TickRefreshed, Begun
  <2>. QED  BY <1>3, <2>1, QuietMoves, AllPhasesKept
<1>4. CASE Started
  BY <1>4, StartRefines DEF Lifecycle!Next
<1>5. CASE Load
  <2>1. Begun' = Begun /\ ~Begun /\ disk' = disk
    BY <1>5 DEF Load, Begun
  <2>. QED  BY <2>1 DEF Phase, PhaseOnDisk
<1>6. CASE \/ StopReturns \/ Crash
           \/ \E i \in Issues, h \in Handles : CrashMidCompletion(i, h)
  <2>1. svc # "down" /\ svc' = "down"
    BY <1>6, EndStep
  <2>2. CASE Begun
    <3>1. svc \in {"run", "stopping"}
      BY <2>2 DEF Begun, Inv, TypeOK
    <3>2. disk'.blocked = Saved.blocked /\ disk'.retry = Saved.retry
      BY <1>6, <3>1 DEF StopReturns, Crash, CrashMidCompletion, FileIsCurrent, Saved
    <3>3. Lifecycle!End
      BY <2>1, <2>2, <3>2, EndRefines DEF Saved
    <3>. QED  BY <3>3 DEF Lifecycle!Next
  <2>3. CASE ~Begun
    <3>1. svc = "starting"
      BY <2>1, <2>3 DEF Begun
    <3>2. Crash
      <4>1. ASSUME NEW i \in Issues, NEW h \in Handles, CrashMidCompletion(i, h)
            PROVE  FALSE
        BY <3>1, <4>1 DEF CrashMidCompletion, Inv, QuietWhileDown, HasTask
      <4>. QED  BY <1>6, <3>1, <4>1 DEF StopReturns
    <3>3. Begun' = Begun /\ disk' = disk
      BY <2>1, <2>3, <3>2 DEF Begun, Crash
    <3>. QED  BY <2>3, <3>3 DEF Phase, PhaseOnDisk
  <2>. QED  BY <2>2, <2>3
<1>7. CASE UNCHANGED vars
  BY <1>7
  DEF vars, Begun, Phase, PhaseInMemory, PhaseOnDisk, IsRunning, HasTask, AsksTracker, Waits
<1>. QED  BY <1>1, <1>2, <1>3, <1>4, <1>5, <1>6, <1>7 DEF Next

(* While the file can be written, the orchestrator implements the          *)
(* lifecycle: whatever its coroutines do to its dictionaries, each issue   *)
(* moves between the phases of IssueLifecycle only, work starts from two   *)
(* of them and within the largest limit, an end of the process keeps       *)
(* exactly the waiting and the blocked issues, and what a failing read     *)
(* loses of them is lost at a start and nowhere else.                      *)
THEOREM Refinement == ~DiskMayFail => (Spec => RefinesLifecycle)
<1>. SUFFICES ASSUME ~DiskMayFail PROVE Spec => RefinesLifecycle
  OBVIOUS
<1>1. Init => EmptyHasNoTimer /\ StartingFits
  BY DEF Init, EmptyHasNoTimer, StartingFits, NoRetry
<1>2. Inv /\ EmptyHasNoTimer /\ StartingFits /\ [Next]_vars
        => EmptyHasNoTimer' /\ StartingFits'
  BY EmptyStep, StartingFitsStep
<1>3. Init => Lifecycle!Init
  BY DEF Init, Lifecycle!Init, Begun, Phase, PhaseOnDisk
<1>4. Inv /\ EmptyHasNoTimer /\ StartingFits /\ FileIsCurrent /\ [Next]_vars
        => [Lifecycle!Next]_<<Begun, Phase>>
  BY RefinementStep
<1>. QED  BY <1>1, <1>2, <1>3, <1>4, Invariance, FileFollows, PTL
          DEF Spec, RefinesLifecycle, Lifecycle!Spec

-----------------------------------------------------------------------------
(* Beside the board                                                        *)

BoardFits == TypeOK /\ board \in [Issues -> Views \ {"gone"}]

LEMMA RefreshIsKnown ==
    ASSUME TypeOK, NEW ans \in [Issues -> Views], TickRefreshed(ans)
    PROVE  \E few \in [ids -> Views] : TickRefreshed(few)
<1> DEFINE few == [i \in ids |-> ans[i]]
<1>1. few \in [ids -> Views]
  BY DEF TypeOK
<1>2. [i \in Issues |-> IF i \in ids /\ IsRunning(i) THEN Reconciled(running[i], ans[i])
                        ELSE running[i]]
        = [i \in Issues |-> IF i \in ids /\ IsRunning(i) THEN Reconciled(running[i], few[i])
                            ELSE running[i]]
  OBVIOUS
<1>3. TickRefreshed(few)
  <2>. HIDE DEF few
  <2>. QED  BY <1>2 DEF TickRefreshed
<1>. QED  BY <1>1, <1>3

(* With the board's answers, and with its silence, each step is one that   *)
(* free answers allow.                                                     *)
LEMMA ServiceStepIsKnown ==
    ASSUME BoardFits, ServiceStep
    PROVE  Next
<1>1. board \in [Issues -> Views] /\ NoAnswer \in [Issues -> Views]
  BY GoneAssumption DEF BoardFits, NoAnswer
<1>2. CASE Refreshed \/ RefreshFails
  BY <1>1, <1>2, RefreshIsKnown DEF Refreshed, RefreshFails, BoardFits, Next
<1>3. CASE Dispatched
  BY <1>1, <1>3 DEF Dispatched, Next
<1>4. ASSUME NEW i \in Issues, NEW h \in Handles,
             \/ WorkerStep(i, h)
             \/ TimerFires(i, h)
             \/ RetryAnswered(i, h)
             \/ RetryPollFails(i, h)
             \/ RetryPollRaises(i, h)
      PROVE  Next
  <2>1. board[i] \in Views
    BY <1>1
  <2>2. WorkerStep(i, h) \/ TimerStep(i, h)
    BY <1>4, <2>1 DEF RetryAnswered, TimerStep
  <2>. QED  BY <2>2 DEF Next
<1>5. CASE Load \/ Started \/ TickStart \/ TickFetchFails \/ Stop \/ StopReturns \/ Crash
  BY <1>5 DEF Next
<1>. QED  BY <1>2, <1>3, <1>4, <1>5 DEF ServiceStep

LEMMA BoardStepIsKnown ==
    ASSUME BoardFits, [BoardNext]_boardVars
    PROVE  [Next]_vars /\ BoardFits'
<1>1. [Next]_vars
  BY ServiceStepIsKnown DEF BoardNext, BoardMoves, boardVars
<1>2. TypeOK'
  BY <1>1, TypingStep DEF BoardFits
<1>3. board' \in [Issues -> Views \ {"gone"}]
  BY DEF BoardFits, BoardNext, BoardMoves, Still, boardVars
<1>. QED  BY <1>1, <1>2, <1>3 DEF BoardFits

(* Whatever the board does, the orchestrator beside it behaves as          *)
(* Orchestrator says, whose theorems therefore hold of it.                 *)
THEOREM BoardIsKnown == BoardSpec => Spec
<1>1. BoardInit => Init /\ BoardFits
  BY TypingInit DEF BoardInit, BoardFits
<1>2. BoardFits /\ [BoardNext]_boardVars => [Next]_vars /\ BoardFits'
  BY BoardStepIsKnown
<1>. QED  BY <1>1, <1>2, PTL DEF BoardSpec, Spec

(* Beside the board too, every claim has a worker, a timer, a retry or a   *)
(* human behind it, unless an untyped exception took it.                   *)
THEOREM BoardLeavesNoOrphans == BoardSpec => []NoOrphanClaim
BY BoardIsKnown, NoOrphans, PTL

(* Beside the board too, the attempt of an issue in hand never goes back   *)
(* but after a normal end.                                                 *)
THEOREM BoardKeepsAttempts == BoardSpec => BackoffNeverShrinks
BY BoardIsKnown, AttemptsGrow, PTL
=============================================================================
