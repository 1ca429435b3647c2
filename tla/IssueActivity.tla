---------------------------- MODULE IssueActivity ----------------------------
(***************************************************************************)
(* What the orchestrator keeps of the events of a worker: the activity of  *)
(* its RunningEntry, the summaries of it that a second Codex session       *)
(* writes in a task of its own, and the token totals (orchestrator.py,     *)
(* handle_codex_event to _apply_usage_locked).  One issue, whose runs      *)
(* follow one another; issues share the totals only, and each adds to them *)
(* by itself.  A summary task looks the entry up by the id of the issue    *)
(* again when its answer has come, and the table of these tasks has one    *)
(* place for an issue, which the callback of any of them clears.           *)
(***************************************************************************)
EXTENDS Naturals, Sequences, FiniteSets

CONSTANTS
    MaxRuns,        \* runs of the issue
    MaxTasks,       \* summary tasks alive at a time
    MaxRevision,    \* bound on the activity of a run
    MaxTokens,      \* bound on the counter a run reports
    Window          \* recent_activity[-100:]

ASSUME RunsAssumption == MaxRuns \in Nat \ {0}
ASSUME TasksAssumption == MaxTasks \in Nat \ {0}
ASSUME BoundsAssumption == MaxRevision \in Nat /\ MaxTokens \in Nat /\ Window \in Nat \ {0}

Runs == 1 .. MaxRuns
Tasks == 1 .. MaxTasks
Nobody == 0                 \* no run, no task, no text

VARIABLES
    service,    \* "up", "stopping", the same with a retry timer that stop()
                \* has not found ("late"), or "down"
    run,        \* the run dispatched last
    worker,     \* is its worker alive, "ended" or handled ("none")?
    entry,      \* its RunningEntry, while worker # "none"
    task,       \* the summary tasks
    place,      \* _summary_tasks[issue_id]
    totals,     \* codex_totals
    saved,      \* codex_totals in the state file
    peak,       \* the highest count each run reported
    lost,       \* "unsaved" if counts went with a process, "unread" with a file
    displaced   \* tasks that lost their place to another task

activityVars == <<service, run, worker, entry, task, place, totals, saved, peak, lost, displaced>>
books == <<totals, saved, peak, lost>>
summaries == <<task, place, displaced>>

Idle == [at |-> "none", by |-> Nobody, of |-> Nobody, revision |-> 0]
NewEntry == [activity |-> <<>>, revision |-> 0, summarized |-> 0, pending |-> FALSE,
             text |-> Nobody, cooling |-> FALSE, reported |-> 0, crossed |-> FALSE]

(* by: the run whose event created the task; of: the run it summarizes;    *)
(* text: the run the shown summary is of; cooling: the interval since the  *)
(* last summary is not over; crossed: a task of another run served it.     *)
ActivityTypeOK ==
    /\ service \in {"up", "stopping", "late", "down"}
    /\ run \in 0 .. MaxRuns
    /\ worker \in {"alive", "struck", "ended", "none"}
    /\ entry \in [activity : Seq({"talk", "work"}), revision : 0 .. MaxRevision,
                  summarized : 0 .. MaxRevision, pending : BOOLEAN, text : 0 .. MaxRuns,
                  cooling : BOOLEAN, reported : 0 .. MaxTokens, crossed : BOOLEAN]
    /\ Len(entry.activity) <= Window
    /\ task \in [Tasks -> [at : {"none", "new", "asked", "struck", "ended"},
                           by : 0 .. MaxRuns, of : 0 .. MaxRuns, revision : 0 .. MaxRevision]]
    /\ place \in 0 .. MaxTasks
    /\ totals \in 0 .. MaxRuns * MaxTokens
    /\ saved \in 0 .. MaxRuns * MaxTokens
    /\ peak \in [Runs -> 0 .. MaxTokens]
    /\ lost \subseteq {"unsaved", "unread"}
    /\ displaced \subseteq Tasks

ActivityInit ==
    /\ service = "up"
    /\ run = 0
    /\ worker = "none"
    /\ entry = NewEntry
    /\ task = [t \in Tasks |-> Idle]
    /\ place = Nobody
    /\ totals = 0
    /\ saved = 0
    /\ peak = [r \in Runs |-> 0]
    /\ lost = {}
    /\ displaced = {}

-----------------------------------------------------------------------------
(* Runs *)

InRunning == worker # "none"

(* The file is replaced as a whole, or not at all when writing fails.      *)
Persisted == saved' \in {totals', saved}

(* The late timer of a stopping service dispatches once.                   *)
Dispatch ==
    /\ service \in {"up", "late"} /\ ~InRunning /\ run < MaxRuns
    /\ service' = IF service = "late" THEN "stopping" ELSE service
    /\ run' = run + 1
    /\ worker' = "alive"
    /\ entry' = NewEntry
    /\ UNCHANGED <<totals, peak, lost, summaries>>
    /\ Persisted

WorkerEnds ==
    /\ worker \in {"alive", "struck"}
    /\ worker' = "ended"
    /\ UNCHANGED <<service, run, entry, books, summaries>>

(* handle_worker_done pops the entry and saves.                            *)
WorkerDone ==
    /\ worker = "ended" /\ service # "down"
    /\ worker' = "none"
    /\ entry' = NewEntry
    /\ UNCHANGED <<service, run, totals, peak, lost, summaries>>
    /\ Persisted

-----------------------------------------------------------------------------
(* An event of the worker *)

Larger(a, b) == IF a > b THEN a ELSE b

(* Faulty: adds what the event reports more than the event before it.      *)
UsageSinceLastEvent(e, n) ==
    [growth |-> IF n > e.reported THEN n - e.reported ELSE 0, reported |-> n]

(* The counter is absolute: its growth over the highest value is added.    *)
Usage(e, n) ==
    [growth |-> IF n > e.reported THEN n - e.reported ELSE 0,
     reported |-> Larger(e.reported, n)]

LastOf(s, n) == IF Len(s) > n THEN SubSeq(s, Len(s) - n + 1, Len(s)) ELSE s

(* Faulty: never trims the list.                                           *)
RecordedUntrimmed(e, kind) ==
    IF kind = "silent" THEN e
    ELSE [e EXCEPT !.activity = Append(@, kind), !.revision = @ + 1]

(* _record_activity_locked: an event without a message leaves no trace.    *)
Recorded(e, kind) ==
    IF kind = "silent" THEN e
    ELSE [e EXCEPT !.activity = LastOf(Append(@, kind), Window), !.revision = @ + 1]

HasWorkSignal(activity) == \E k \in DOMAIN activity : activity[k] = "work"

(* Faulty: asks for a summary although one is being written.               *)
WantsAnotherSummary(e) ==
    /\ e.revision > e.summarized
    /\ HasWorkSignal(e.activity)
    /\ e.text = Nobody \/ ~e.cooling

WantsSummary(e) ==
    /\ ~e.pending
    /\ e.revision > e.summarized
    /\ HasWorkSignal(e.activity)
    /\ e.text = Nobody \/ ~e.cooling

(* Tasks are created at will; their names are used again.                  *)
LeastIdle(t) == task[t] = Idle /\ \A u \in 1 .. t - 1 : task[u] # Idle

(* Faulty: starts the task without putting it into the table.              *)
StartedUntracked(t) ==
    /\ task' = [task EXCEPT ![t] = [Idle EXCEPT !.at = "new", !.by = run]]
    /\ UNCHANGED <<place, displaced>>

Started(t) ==
    /\ task' = [task EXCEPT ![t] = [Idle EXCEPT !.at = "new", !.by = run]]
    /\ place' = t
    /\ displaced' = IF place = Nobody THEN displaced ELSE displaced \union {place}

(* handle_codex_event, from the lock on: the worker is in it, so the entry *)
(* it finds is that of its own run.  A cancelled one still tells that its  *)
(* app-server has stopped.  n: the reported count, if one is.              *)
Event(kind, counts, n) ==
    /\ worker \in {"alive", "struck"} /\ service # "down"
    /\ kind # "silent" => entry.revision < MaxRevision
    /\ LET usage == IF counts THEN Usage(entry, n)
                    ELSE [growth |-> 0, reported |-> entry.reported]
           noted == Recorded([entry EXCEPT !.reported = usage.reported], kind)
       IN /\ totals' = totals + usage.growth
          /\ IF WantsSummary(noted)
             THEN /\ entry' = [noted EXCEPT !.pending = TRUE]
                  /\ \E t \in Tasks : LeastIdle(t) /\ Started(t)
             ELSE entry' = noted /\ UNCHANGED summaries
    /\ peak' = IF counts THEN [peak EXCEPT ![run] = Larger(@, n)] ELSE peak
    /\ IF counts THEN Persisted ELSE UNCHANGED saved
    /\ UNCHANGED <<service, run, worker, lost>>

CodexEvent == \E kind \in {"silent", "talk", "work"}, n \in 0 .. MaxTokens :
    \/ Event(kind, FALSE, 0)
    \/ Event(kind, TRUE, n)

IntervalOver ==
    /\ InRunning /\ entry.cooling
    /\ entry' = [entry EXCEPT !.cooling = FALSE]
    /\ UNCHANGED <<service, run, worker, books, summaries>>

-----------------------------------------------------------------------------
(* A summary task *)

(* It reads the entry, or returns at once when the issue runs no more.     *)
SummaryStarts(t) ==
    /\ task[t].at = "new"
    /\ IF InRunning
       THEN /\ task' = [task EXCEPT ![t] = [@ EXCEPT !.at = "asked", !.of = run,
                                                     !.revision = entry.revision]]
            /\ entry' = [entry EXCEPT !.crossed = @ \/ task[t].by # run]
       ELSE /\ task' = [task EXCEPT ![t].at = "ended"]
            /\ UNCHANGED entry
    /\ UNCHANGED <<service, run, worker, place, books, displaced>>

(* The handler of a failed summary, and _apply_summary_locked.             *)
WithFailure(e, t) ==
    [e EXCEPT !.pending = FALSE, !.summarized = Larger(@, task[t].revision),
              !.cooling = TRUE, !.crossed = @ \/ task[t].of # run]

WithSummary(e, t) ==
    [WithFailure(e, t) EXCEPT !.pending = FALSE, !.text = task[t].of]

(* The answer goes to whatever entry the issue has by now, if it has one.  *)
(* That of a cancelled task does too when its session's stop() has         *)
(* swallowed the cancellation.                                             *)
SummaryAnswers(t) ==
    /\ task[t].at = "asked" \/ (task[t].at = "struck" /\ task[t].of # Nobody)
    /\ task' = [task EXCEPT ![t].at = "ended"]
    /\ IF InRunning
       THEN entry' \in {WithSummary(entry, t), WithFailure(entry, t)}
       ELSE UNCHANGED entry
    /\ UNCHANGED <<service, run, worker, place, books, displaced>>

SummaryCancelled(t) ==
    /\ task[t].at = "struck"
    /\ task' = [task EXCEPT ![t].at = "ended"]
    /\ UNCHANGED <<service, run, worker, entry, place, books, displaced>>

(* The done callback pops the key, whoever has the place.                  *)
SummaryDone(t) ==
    /\ task[t].at = "ended"
    /\ task' = [task EXCEPT ![t] = Idle]
    /\ place' = Nobody
    /\ displaced' = IF place \in {t, Nobody} THEN displaced \ {t}
                    ELSE (displaced \ {t}) \union {place}
    /\ UNCHANGED <<service, run, worker, entry, books>>

SummaryStep(t) ==
    SummaryStarts(t) \/ SummaryAnswers(t) \/ SummaryCancelled(t) \/ SummaryDone(t)

-----------------------------------------------------------------------------
(* The service ends and starts *)

Strike(t) == IF task[t].at \in {"new", "asked"} THEN [task EXCEPT ![t].at = "struck"] ELSE task

(* stop(): cancels the worker and the tasks it finds, awaits them, saves.  *)
(* It does not find a retry timer that is asking the tracker.              *)
Stop ==
    /\ service = "up"
    /\ service' \in IF InRunning THEN {"stopping"} ELSE {"stopping", "late"}
    /\ worker' = IF worker = "alive" THEN "struck" ELSE worker
    /\ task' = IF place = Nobody THEN task ELSE Strike(place)
    /\ place' = Nobody
    /\ UNCHANGED <<run, entry, books, displaced>>

Gone ==
    /\ service' = "down"
    /\ worker' = "none"
    /\ entry' = NewEntry
    /\ task' = [t \in Tasks |-> Idle]
    /\ place' = Nobody
    /\ displaced' = {}
    /\ lost' = IF saved' = totals THEN lost ELSE lost \union {"unsaved"}

Stopped ==
    /\ service \in {"stopping", "late"}
    /\ worker # "struck"
    /\ \A t \in Tasks : task[t].at # "struck"
    /\ UNCHANGED <<run, totals, peak>>
    /\ Persisted
    /\ Gone

Crash ==
    /\ service # "down"
    /\ UNCHANGED <<run, totals, saved, peak>>
    /\ Gone

(* A file that cannot be read is ignored: everything begins at zero.       *)
Restart ==
    /\ service = "down"
    /\ service' = "up"
    /\ \/ totals' = saved /\ UNCHANGED lost
       \/ totals' = 0 /\ lost' = lost \union {"unread"}
    /\ UNCHANGED <<run, worker, entry, saved, peak, summaries>>

ActivityNext ==
    \/ Dispatch \/ WorkerEnds \/ WorkerDone \/ CodexEvent \/ IntervalOver
    \/ Stop \/ Stopped \/ Crash \/ Restart
    \/ \E t \in Tasks : SummaryStep(t)

ActivitySpec == ActivityInit /\ [][ActivityNext]_activityVars

-----------------------------------------------------------------------------
(* Properties *)

Alive(t) == task[t].at \in {"new", "asked", "struck"}

(* No token is counted twice, whatever falls, rises again or is restarted, *)
(* and none is missed, but for those a process had not saved when it went  *)
(* or that were in a file it could not read.  reported: the sums of what   *)
(* the first runs reported.                                                *)
TokensCountOnce ==
    \E reported \in [0 .. MaxRuns -> 0 .. MaxRuns * MaxTokens] :
       /\ reported[0] = 0
       /\ \A r \in Runs : reported[r] = reported[r - 1] + peak[r]
       /\ totals <= reported[MaxRuns]
       /\ lost = {} => totals = reported[MaxRuns]

(* The flag shown with a card says what it says: a summary of the run is   *)
(* being written if and only if it is pending, and then one only; unless a *)
(* task that an earlier run began has served the entry.                    *)
PendingIsTrue ==
    service = "up" /\ InRunning /\ ~entry.crossed =>
        LET writing == {t \in Tasks : Alive(t) /\ task[t].by = run}
        IN Cardinality(writing) = IF entry.pending THEN 1 ELSE 0

(* stop() ends every summary task, but for those whose place in the table  *)
(* another task of the issue took, or emptied in its callback, and but for *)
(* one that is in the table again: an event of a worker it had cancelled,  *)
(* or of a late timer's worker, began it when stop() had gone through the  *)
(* table.                                                                  *)
StopEndsSummaries ==
    [][Stopped => \A t \in Tasks : Alive(t) => t \in displaced \/ t = place]_activityVars

(* README.md: the summary is one over the recent events of the agent whose *)
(* card it is on.  Not so when the run it was begun for has been replaced. *)
CardShowsOwnRun == InRunning => entry.text \in {Nobody, run}
=============================================================================
