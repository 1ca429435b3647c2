# Symphony in TLA+

A verification project for `symphony/`, the service that polls Linear, runs one
Codex agent per issue in a workspace of its own, and moves reviewed issues to
Done. It consists of TLA+ modules translated from the Python source, TLC
configurations that check them on small instances, and TLAPS proofs of the
central properties for every value of the constants. `PROJECT.json` lists the
components, the runs, the line ranges each definition translates, the mutants
(a plausible bug per property, with which the property fails), the hazards
and the theorems.

To check: `tlc -config MCOrchestrator_owner.cfg MCOrchestrator` (and likewise
for each run below), `tlapm OrchestratorProofs.tla`.

## 1. The system

### Components, their state and operations

| part | source | state | operations |
| --- | --- | --- | --- |
| orchestrator | `orchestrator.py`, `models.py` | `running`, `claimed`, `blocked`, `completed`, `retry_attempts`, one asyncio task per worker and per retry timer, the file `.symphony-state.json` | `start`, `tick` (reload, stalls, refresh, validate, review gate, dispatch), `dispatch_issue`, `handle_worker_done`, `terminate_running_issue`, `schedule_retry`, `handle_retry_timer`, `stop` |
| review gate | `orchestrator.py:192-277`, `review.py` | the PRs seen in one evaluation | `reconcile_review_issues`, `evaluate` |
| agent runner | `agent_runner.py` | turn number, current state of the issue | `run_issue`, `_try_delivery_fallback` |
| Codex session | `codex_client.py` | the app-server process, its pipe, request ids, captured text | `start`, `stop`, `run_turn`, `_request`, `_wait_for_turn`, `_handle_server_request` |
| configuration | `config.py`, `workflow.py` | workflow and configuration in force, last reload error | `load_startup`, `reload_if_changed`, `validate_for_dispatch` |
| workspaces | `workspace.py` | directories, checkouts, guards, quarantine | `create_for_issue`, `materialize_repo_plan`, hooks, `remove_for_identifier` |
| tracker clients | `tracker.py` | none but request ids | the list of candidates page by page, hydration of Todo issues, refresh, comment, move; the MCP gateway's calls with a server process each |
| summaries, totals | `dashboard_summary.py`, `orchestrator.py:497-647` | activity, summary tasks, token totals | `handle_codex_event`, `_summarize_running_issue`, `_apply_usage_locked` |
| planner, context | `repo_planner.py`, `coding_context.py`, `workspace.py`, `orchestrator.py:1398-1439` | the plan of the attempt, what lies in its directories | `classify_coding_issue`, `plan_repositories`, `_normalize_plan`, `materialize_repo_plan`, `_repo_deviation_from_event` |
| service loop | `cli.py`, `http_server.py`, `orchestrator.py:53-95` | the refresh event, restored timers, open connections | `async_main`, `--once`, `start`, `stop`, `POST /api/v1/refresh` |
| templates, logging, utilities | the rest | none | text |

### How they interact

Everything runs on one asyncio loop. The service loop runs `tick`; a dispatch
creates a task for `AgentRunner.run_issue`, whose done callback creates another
task for `handle_worker_done`; a retry is a task that sleeps and then dispatches
by itself. These coroutines share the orchestrator's dictionaries. The bodies of
`async with self._lock` never await, so the lock is never contended, and the
places where a coroutine really suspends (tracker requests, sleeps,
subprocesses) are the only ones where others run. The models' actions are the
pieces of code between two such places. Issue ids, not tasks, are the keys by
which handlers find their entries. The runner calls the workspace manager, the
planner, a Codex session and the tracker, in this order. The configuration is
re-read by every tick, and `validate_for_dispatch` re-reads it within a tick.
Events of a worker come in through a callback, under the lock, and may start a
summary task, which finds the entry of the issue by its id when its answer has
come. The status server's handlers run on the same loop and set the event the
service loop waits for. Every tracker operation over MCP starts, and must end, a
process of its own.

### What is hard

Ends of workers against ticks, stalls and timers; entries found by id after a
suspension; a state file written at many places, with crashes between them,
writes that may fail and starts that cannot read it; cancellation at any
suspension of a long attempt; processes that outlive the coroutine that started
them; requests repeated after their answer was lost; a server that numbers
requests like the client and whose lines overtake each other; PRs that change
while they are read; a configuration file edited between two system calls; git
commands interrupted half-way; lists read in pages while people move issues;
summaries that arrive for a run that has been replaced; counters that fall and
rise again; clients that never finish a request; repository plans that change
while checkouts stay. `PROJECT.json` lists these as hazards, each at its line.

### What makes each part correct

- orchestrator: one owner per issue; every handler finds its own entry;
  everything going on is claimed and every claim is held by somebody; slots are
  respected; blocks are kept while their entries can be read; the file follows
  memory; an issue that left is
  released and a ready one worked on; the backoff does not shrink.
- review gate: Done only after the merge of everything linked; and then, Done.
- runner: no process left behind; one workpad, as far as listings show it; no
  hand-off without it; no work after a cancellation that reached the attempt;
  no endless sequence of steps.
- session: a turn reported as completed is; nobody waits for ever; text is
  captured once; a completion is not overlooked.
- configuration: only valid texts in force; the file is followed, and blocks
  dispatch when it is invalid.
- workspaces: guarded pushes only to the branch of the issue; no work lost; no
  failure makes a workspace unusable.
- tracker clients: a list misses nobody who stays, and is never untrue; a tool is
  not run again once its answer came; no app-server is left; a call ends.
- summaries, totals: pending means that a summary is being written; `stop` ends
  the tasks; a token counts once.
- planner: whatever a model answers, the plan is sound or blocked; an agent finds
  what the plan says; changes outside of it are reported.
- service loop: no accepted refresh is lost; cleanup is alone in the workspaces;
  `stop` leaves nothing behind, and ends.

## 2. The modules

| module | models | role |
| --- | --- | --- |
| `Orchestrator` | the orchestrator | the core; safety properties |
| `IssueLifecycle` | | abstract specification: what the orchestrator promises for an issue |
| `OrchestratorRefinement` | | refinement mapping, `Lifecycle!Spec` as a property |
| `OrchestratorBoard` | the orchestrator beside the tracker's board | liveness |
| `MCOrchestrator`, `MCOrchestratorBoard` | | constants for TLC |
| `OrchestratorProofs` | | TLAPS proofs |
| `ReviewGate`, `MCReviewGate`, `ReviewGateProofs` | the review gate | safety, liveness, proofs |
| `RunAttempt`, `RunAttemptProofs` | runner, session life, delivery fallback | safety, liveness, proofs |
| `CodexTurn`, `CodexTurnProofs` | turns of a session | safety, liveness, proofs |
| `ConfigReload` | configuration manager and workflow file | safety, liveness, proofs in `ServiceLoopProofs` |
| `RepoWorkspace`, `RepoWorkspaceProofs` | workspace manager | safety, liveness, proofs |
| `TrackerGateway`, `TrackerGatewayProofs` | a call of the MCP gateway | safety, liveness, proofs |
| `ServiceLoop`, `ServiceLoopProofs` | process, loop, status server | safety, liveness, proofs |
| `IssueActivity` | events, summaries, token totals | safety, proofs in `CodexTurnProofs` |
| `IssueListing` | the fetch of candidates | safety, proofs in `ListingAndPlanningProofs` |
| `RepoPlanning`, `MCRepoPlanning` | plan, checkouts per plan, watch on changes | safety, proofs in `ListingAndPlanningProofs` |
| `Selections` | list comprehensions with a condition | used by `IssueListing` and `RepoPlanning` |
| `ListingAndPlanningProofs` | | TLAPS proofs |

`IssueActivity`, `IssueListing` and `ConfigReload` share a module of proofs with
another component each. The names of their state, steps and specification carry
a prefix (`ListingInit`, `reloadVars`), so that the two can be extended together.

Definitions whose names say what they get wrong (`EarlyReleased`,
`OffByOneFits`, ...) stand right before the definition they are a faulty variant
of. They are used by mutants only, to show that a property would notice the bug.

### Orchestrator

`running[i]` is the `RunningEntry` of issue `i` (`NoEntry` when the dictionary
has none), with the fields that decide something: the task, `forced_outcome`,
`cleanup_workspace`, `retry_attempt` and the state of the issue. `task[i][h]` is
what the asyncio task `h` does for `i`: executing `run_issue` (`live`), ended
with its handler still to run (a result), or removing the workspace in the
handler (`cleaning`). `timer[i][h]` is a `_retry_after` task, asleep or asking
the tracker with the attempt it popped and the limit it read. `disk` is the
state file. Identities of tasks matter since handlers find entries by issue id;
two per issue are enough to tell an old one from a new one, and `ExclusiveOwner`
shows that more are never in use.

`TickStart`, `TickRefreshed` and `TickDispatch`/`TickFetchFails` are the three
pieces of `tick`. Every piece that reads the configuration lets `limit` take any
value of `Limits`, which stands for a reload. `TickDispatch` makes all dispatches
of the tick in the order of `Rank` (`sort_for_dispatch`), which `Chosen` states
without a loop. Nothing suspends between them. `HandleWorkerDone` is
`handle_worker_done`, with `Released`, `Retried`, `Completed` and `Blocked` for
its branches; `AgentRunResult`s that are neither normal, blocked nor retryable do
not occur, as no return of `run_issue` builds one. `Persist` writes the file or,
if `DiskMayFail`, does not; `Load` reads any part of it. The code takes a file
that it cannot read or decode, or that is no JSON object, as empty, and leaves
out entries that do not decode; `start` then writes the file anew. A root of the
workspaces that was moved has the same effect. `unread` remembers the blocks lost
in this way, for `BlockedStaysBlocked`; no step depends on it. (Bytes that are no
UTF-8, or an odd value where a number is expected, raise an exception that
nothing catches and the process ends before it has changed anything.)
`EarlierWrites` covers a handler of which a later write fails. `Crash` and
`CrashMidCompletion` cover a death anywhere, with the file as the last completed
write left it. `UntypedErrors` allows exceptions other than `TrackerError` where
the code has no handler for them.

The views an issue may be shown in: `todo` and `progress` are active, `held` is
a Todo issue with an unfinished blocker, `unlabelled` lacks a required label,
`other` and `closed` are inactive and terminal, `gone` is not in the answer.
Answers are free in `Orchestrator`; `OrchestratorBoard` adds a board that gives
consistent ones.

`IssueLifecycle` is the abstract specification. Its process is `up` or not:
`Start` sends the issues whose entries are lost back to `idle`, `End` keeps what
waits or is blocked. Under the refinement mapping it starts when the
orchestrator's `start` has restored the timers and written the file; up to then
the phases are those of the file, from then on those of memory.

### ReviewGate

One evaluation of one issue: fetch, hydrate, comments, a request per linked PR
(`urls`), a request per branch (`branches`), a request per dependency (`refs`),
then the decision and the save. Each is an action, and people merge, retarget
and move the issue between any two. `required` holds what was seen of each PR at
the time of its request. Issues are evaluated one after the other and share
nothing, so one issue is enough. A closed PR is modelled as an open one, since
both block the gate. The order in which equal requests are made is left free.

### RunAttempt

`pc` is the suspension `run_issue` is at, including those inside
`CodexAppServerSession.start`, `stop` and `_try_delivery_fallback`. `Cut...`
actions cancel the attempt at it, also repeatedly. `struck` records where an
attempt was cancelled, for the exceptions `AppServerIsReaped` makes. Sessions the
planner or the classifier open during preparation are part of `plan` and their
processes are not tracked; but their `stop()` may swallow a cancellation while it
awaits its stderr task, after which the attempt goes on (`CutNestedLost`).
`Listed` may miss a workpad that is there, as the fallback lists 250 comments and
no second page, and takes a workpad without id for none. Attempts follow each
other while the issue is active (`Again`), and the tracker's comments outlive
them. That attempts do not overlap is `ExclusiveOwner`.

### CodexTurn

The pipe is a sequence of lines. The client consumes one per step, either in
`_request` or in `_wait_for_turn`; the server writes what the protocol allows,
with request ids from the same numbers as the client's. The two requests at the
start of a session (`initialize`, `thread/start`) have the form of the first
phase of a turn and are not repeated in the model.

### ConfigReload

Between any two system calls of a reload (`stat`, read, `stat`) people may save
the file, save it twice within one tick of the clock, move it away, or move an
old version back. Texts are valid or not.

### RepoWorkspace

The workspace of one issue over many attempts and removals, command by command. A
checkout is absent, partial (not the configured remote, or not yet), unprepared
or prepared. Cancelled clones stay at work as `orphans`, or as `adrift` once
their directory was moved to quarantine or removed: git cleans up by path, and
may then delete what a later attempt has put there. A command or hook that its
timeout has killed is `killed` until its output ends, which a child may prevent.
The agent works in, and pushes from, any checkout in the workspace, those of
earlier plans included, with or without `--no-verify`; `push` is its last push.
It does not edit `.git/hooks`, and one that did would have no guard. Quarantine
is enabled, as is the default of `quarantine_on_mismatch`; `RepoPlanning` has it
off, too.

### TrackerGateway

One call of `CodexMcpGateway.call_tool`: `pc` is the suspension it is at, in the
three requests, in the reading of stderr, in the end of the process, in the sleep
before another attempt. An answer that is not JSON counts as lost. `verdict` is
what the attempt has come to and decides, once the `finally` is through, whether
there is another. The app-server, its child that may keep stderr open, and the
tool are external: a tool may run and its answer be lost. `Cancel` may strike at
every suspension. Calls share only `_next_id`, which gives each its own ids.

### IssueListing

`LinearClient` asks for all states in one pass, `LinearMcpClient` for one state
after the other and then again for each Todo issue; `client` chooses. `ReadPage`,
`Hydrate` and `Return` are the code between two requests, and `Move` changes the
board between them, but for `MaxMoves` issues at most. A cursor is the last issue
of a page. `was` remembers each issue's states during the fetch, which is what
the answer is measured by.

### IssueActivity

One issue, whose runs follow each other; issues share only the totals, to which
each adds by itself. `Event` is `handle_codex_event` under the lock. A summary
task goes from `new` over `asked` to `ended`, and its done callback is a step of
its own (`SummaryDone`); `place` is `_summary_tasks[issue_id]`, which has one
place for however many tasks. `by` and `of` say for which run a task was begun
and which run it read, `crossed` marks an entry that a task of another run has
served. `peak`, `lost` and `displaced` are history variables for the properties.
A worker is in its event handler when it emits, so an event finds its own entry.
A worker that `stop` has cancelled still tells that its app-server has stopped,
and a timer that `stop` has not found (`late`) may dispatch another; the events
of either may begin a summary task after `stop` has gone through the table.

### RepoPlanning

Attempt after attempt in one workspace. The classification, the answer of the
planning model and the ranking by the rules are free; `Normalized`, `ByRules` and
the fallbacks are the code's. `holds` says which repository is checked out in
each directory, whatever plan put it there; how a checkout is made and fails is
`RepoWorkspace`. `FileChange` is the watch on `fileChange` events, as far as they
carry a `path`, a `filePath` or a `file` (`orchestrator.py:1412-1418`).

### ServiceLoop

`main` is where `async_main` is suspended, from the start of the status server
over the cleanup, the ticks and waits of the loop, to `stop()`, the closing of
the server and, as `cancelling`, the end of `asyncio.run`, which cancels what is
left and waits for it. `awaited` says that `stop()` or this last step waits for
the worker, or the timer, of the issue. What a tick does is `Orchestrator`'s;
here it ends or raises. One issue stands for what the loop starts: it is filed
with a retry, has a timer, is asked about, or has a worker. Connections wait for
a request or for their answer to be read, for as long as they like.

## 3. The runs

| run | instance | shows |
| --- | --- | --- |
| `owner` | 2 issues, 2 handles, limits 1 or 2, 1 slot for Todo, untyped errors, crashes | ownership, own entries, slots, blocks; implements `IssueLifecycle` |
| `board` | 1 issue, 2 handles, 2 attempts identified, writes may fail | no orphan claims; liveness of release and of work; backoff |
| `gate` | 4 PRs, a cycle of two, 2 branches, cap 4 | the gate, all sources answering |
| `attempt` | 2 turns, 2 lost answers, 1 missed listing | attempts, cancellation, delivery |
| `turn` | 2 turns, 2 messages, pipe of 3 | the protocol of a turn |
| `reload` | 2 valid texts, 1 invalid, 3 stamps | the file is followed |
| `workspace` | 2 repositories, one with a local source, 2 branches | setups interrupted and resumed |
| `activity` | 2 runs, 3 summary tasks, 2 activities, counter up to 1, window of 1 | summaries and totals |
| `listing` | 3 issues, pages of 1, 2 issues that move | lists on a board that moves |
| `gateway` | 3 attempts, as in the code | a call of a tool |
| `service` | 2 clients | start, polling, stop |
| `planning` | 3 repositories, 2 with one name, 2 secondary, 1 read-only | plans, checkouts, watch |

A run checks liveness properties, which are not proved, and of the proved ones
those that say most; a mutant shows each to be at stake. `IssueActivity` and
`IssueListing` have their type invariants among them, as those bound counters
and sequences; the other type invariants, and what else is a theorem (section
4), are not repeated in the runs.

Further configurations, not among the runs of `PROJECT.json`:

| configuration | what TLC answers |
| --- | --- |
| `MCOrchestrator_slots.cfg` | holds: three issues compete for two slots and one of the Todo state |
| `MCOrchestrator_memory.cfg`, `MCReviewGate_docs.cfg`, `RunAttempt_docs.cfg`, `RepoWorkspace_docs.cfg`, `RepoWorkspace_guard.cfg`, `IssueActivity_docs.cfg`, `MCRepoPlanning_context.cfg`, `MCRepoPlanning_paths.cfg` | violated: a statement of a document the code does not keep (section 5) |

**Bounds.** `MaxAttempt` identifies attempts from 1 (or 2) on: the delay is
capped, and no guard compares attempts. Ownership is a matter of one issue and
two tasks; two issues are needed for slots and for a tick that dispatches some
of them, and with a limit of 2 and one slot for Todo either limit may be the one
that bites. One issue is enough for `board`, whose properties are about an issue
that has its slot. A cap of 4 in the gate is reached in some executions and not
in others, as is 50 in the code. A pipe of 3 holds a response, a line that
overtakes it and one that follows. Three stamps suffice for a loaded version, a
newer one, and one in between. Two repositories suffice for a setup that ended
between two of them. Three summary tasks are one in the table, one that lost its
place and one more; a window of 1 is full at once; a counter of 0 and 1 falls and
rises again, and starts anew with the second run. Pages of 1 put a page boundary
behind every issue; with three issues one can leave before and one come in behind
the third. Two repositories with the same last part of their slug are what the
directories can confuse. Handles are symmetric and declared so in `owner`, which
has no liveness. Deadlock is checked in every run.

**Fairness.** `OrchestratorBoard`: asyncio runs ready coroutines and due timers
(weak fairness of each handler). That a worker, cancelled or not, and a removal
of a workspace end is assumed: `max_turns` and the timeouts see to it, unless one
of the calls `AttemptEnds` names lasts for ever. Requests that are repeated, and
validations that are repeated, succeed now and then (strong fairness), as
otherwise nothing can be promised. There is none on people, crashes or stops, nor
on writes of the state file, and both liveness properties assume that the service
stays up. `ReviewGate`: the gate's next step happens (`WF_vars(GateStep)`; that
`gh`, which is run without a timeout, ends is assumed, `review.py:121-129`), and
`MergedIssueIsFinished` assumes that failures end. `RunAttempt`: most suspensions
have no bound of their own. A command or hook that was killed at its timeout is
awaited until its output ends (`workspace.py:234-235`, `487-488`), a request to
the app-server has a timeout for each line only (`codex_client.py:182-197`), and
so have the tracker's calls (`tracker.py:535-543`). Weak fairness holds where the
code is certain to go on (`Bounded`); everywhere else `AttemptEnds` makes staying
there for ever an exception, and so excludes endless sequences of steps, not
endless calls. `CodexTurn`: the client reads what is there and deadlines pass;
none for the server. `ConfigReload`: the service reloads at every tick.
`RepoWorkspace`: an open issue is attempted again, and commands and hooks have
timeouts; none for the wait after a kill and for removals, which `SetupRecovers`
excepts, nor for the agent. `TrackerGateway`: the gateway's next step, as it has
a timeout per line, with the exceptions `CallEnds` names; none for the server.
`ServiceLoop`: the stop, the closing of the server and the exit go on when
nothing is awaited any more; none for polls, workers or clients, which `StopEnds`
excepts. `IssueActivity`, `IssueListing` and `RepoPlanning` state no fairness,
since their properties are safety properties.

## 4. What is proved

Every safety property and every action property of the runs is a theorem, for
every value of the constants that the named assumptions admit. What is added to
a property to make it inductive was checked by TLC before it was proved.

### `OrchestratorProofs`

For any finite set of issues, any handles, limits and faults. The assumptions
are named in `Orchestrator` and `OrchestratorRefinement`: the absent task is no
task, limits are natural numbers and have a largest, `MaxAttempt` is positive,
ranks are distinct (`sorted` breaks ties by position), and the like.

- `Typing`: `Spec => []TypeOK`.
- `Invariance`: `Spec => []Inv`. `Inv` joins `ExclusiveOwner`,
  `HandlerPopsOwnEntry`, `RetryHasItsTimer` and `ClaimsCoverWork`, none of which
  is inductive alone: a second worker is excluded because the issue is claimed,
  claims are complete because handlers find their own entries, and they do
  because nobody else is in charge. What has to be added is that a due retry
  carries an attempt (`DueRetryHasAttempt`: 0 marks an empty entry), that nothing
  runs while the process is down (`QuietWhileDown`, for the restart), and that
  the file never lists an issue as both blocked and waiting (`FileIsConsistent`,
  for what the restart makes of any part of it). The proof restates `Inv` issue
  by issue (`Sound(i)`), has lemmas for the recurring situations (an idle issue,
  one just scheduled, one just dispatched, an untouched one), and goes through
  the actions one by one. `Ownership`, `OwnEntry`, `TimersMatch` and `Claims`
  follow.
- `FileFollows`: the file agrees with the memory of a process that has started
  when writes succeed, whatever the start could read.
- `BlockedForGood`: the action property `BlockedStaysBlocked`, from `Inv` and the
  invariant that blocks in the file are in memory, or `unread`, while the process
  is up.
- `DispatchesFit`: `SlotsRespected`. `Chosen` says of each issue that the ones
  picked before it leave it a slot; the property is about how many run once all
  are picked. One is picked last (`LastRank`, which is where issues must be finite
  and ranks distinct), and all others were counted when it was let in
  (`LaunchRuns`, `CardinalityOneMore`). The argument is made once for all that
  run and once for those in each state that has a limit of its own.
- `NoOrphans`: `NoOrphanClaim`. Every claim has a worker, a timer, a retry or a
  block (`Held`). Scheduling and stopping cancel the timer a retry entry names,
  so it has to be known that an empty entry names none (`EmptyHasNoTimer`): a
  timer that is asking the tracker, and has emptied the entry, is never
  cancelled and holds the claim.
- `AttemptsGrow`: `BackoffNeverShrinks`. At each step an issue is in one of the
  situations `Free`, `Works`, `Cleans`, `Awaits`, `Asks`, `BlockedBy` and goes to
  another, or stays as it is (`Same`). `WorkerMoves`, `TimerMoves` and
  `DispatchMoves` say where each handler takes it and with which attempt.
- `Refinement`: `~DiskMayFail => (Spec => RefinesLifecycle)`. The situations are
  the phases of `IssueLifecycle`, so each handler is a step of the lifecycle for
  its issue and a stutter for the others, and a tick with all its dispatches is
  one step that starts several. Until the process has started the phases are
  those of the file, which is why writes must succeed: `FileIsCurrent` makes the
  phases before and after a death agree. The step that ends the start is `Start`
  with the issues whose entries could not be read. Of a state file that could not
  be written the refinement is not claimed.
- `BoardIsKnown`: `BoardSpec => Spec`. Each step beside the board is one of
  `Orchestrator`'s with the board's answers, or with a silence that tells of no
  issue (`GoneAssumption`), so that every theorem above holds beside the board:
  `BoardLeavesNoOrphans` and `BoardKeepsAttempts` are the two `board` checks.

### `ReviewGateProofs`

For any PRs, dependencies, branches and cap: `GateInvariance` (types,
`MergesAreFinal`, `NothingForgotten`, from which `GateTyping` and `MergesFinal`)
and `GateSoundness`: when the gate is about to save with an empty queue, the PRs
seen contain the links and are closed under dependencies, hence contain
`LinkedPRs`, and all were seen merged, which is final. The induction over paths
of dependencies is avoided by defining `LinkedPRs` as the least closed set.

### `RunAttemptProofs`

For any number of turns and losses: `AttemptTyping`, `ServerReaped` and
`OneWorkpad`. The invariant says at each suspension in which state the process
can be, and that `found` is only false while a workpad is saved if there was none
or losses and missed listings account for it. From it follow two action
properties: `HandoffDocumented` (`HandoffIsDocumented`), with the invariant that
an attempt about to move its issue has a workpad (`MoveIsDocumented`), and
`CancelIsFinal` (`CancelEndsWork`), with the invariant that an attempt that a
cancellation has reached is on its way out (`CancelledLeaves`).

### `CodexTurnProofs`

Turns, for any number of turns and messages and a pipe of any size:
`TurnTyping`, `NoStandoff`, `FaithfulText`, `RealTurns`, `CompletionsSeen`. The
invariant is about which lines are in the pipe and which follows which, never
about positions: no delta of a message follows another text of it, and no text a
turn's completion (`PipeInv`); no delta of a captured message is still to come
(`TextInv`); what the server has said is in the pipe, behind the response, or
captured (`SpokenInv`); so is a completion, unless it overtook the response
(`CompletedInv`).

Activity, for any number of runs and tasks, any window and any counters:
`ActivityTyping`, `TokensCount`, `PendingTells`, `StopFindsSummaries`. The
invariant says which tasks there can be while the service is up, stopping or down
(`ServiceFits`), about which run a task asks (`TasksFitRuns`), that an entry no
other run's task has served is pending exactly if one task of its run is at work
(`PendingHasItsTask`), that a task `stop` does not find was displaced, or is in
the table again (`LostTasksAreDisplaced`), and that the counter of an entry is
the highest count of its run (`CountsFit`). The sum of peaks that the totals are
compared with is given by its partial sums: `BooksAreRight` says that there is a
function of them that fits, so that no induction over the runs is needed.

### `ListingAndPlanningProofs`

What a comprehension makes of a list is defined in `Selections` by the one
increasing enumeration of the positions it keeps, instead of by recursion. That
there is one (`OrderingExists`), that it is increasing and complete
(`InOrderProperties`, `PickedProperties`), is shown by taking a smallest
counterexample (`Least`: strict inclusion of finite sets is well-founded), since
induction over data is not available.

The candidate list, for any number of issues, any page size and any moves:
`ListingTyping` and `AnswersAreUsable`. What nobody moves is read as soon as the
passes and pages have gone over it (`SteadyIsRead`); a record tells a state its
issue was in (`RecordsAreTrue`); no issue is named twice, since a single list is
read in order and a list made of passes is deduplicated (`NoneTwice`); and Todo
issues without blockers are still to be asked for (`BlockersToCome`).

Plans, for any finite catalogue that does not contain the marks for an unknown
and for no repository, any directories and caps: `PlansAreSound`,
`ReposAreFound`, `DeviationsSeen`. A plan is sound if `Normalized` or `ByRules`
made it (`NormalizedIsSound`, `ByRulesIsSound`, part by part). The invariant adds
that a checkout is in the directory of its repository (`HeldInPlace`), that those
come past so far are checked out (`EnsuredSoFar`) and that only agents change
files (`Phased`). `WatchIsRight` is what `fileChange` makes of a path.

### `RepoWorkspaceProofs`

For any repositories and branches: `WorkspaceTyping`, `PushesStay` and
`WorkStays`. A push from a planned checkout that git lets the guard see is
refused unless the branch is the issue's; the guard is set up before the agent
starts. The proof needs that no clone left running works on the checkout in hand
(`CurrentFitsStep`, from `OrphansShow`) and that each repository done with has
its guard, or was taken away by an old clone (`DoneIsGuarded`). `WorkStays` is
the action property `WorkIsKept`: outside of a removal, work leaves its directory
only into quarantine or with a clone that was left running, in place or adrift
(`WorkStep`).

### `ServiceLoopProofs`

The loop, for any clients: `ServiceTyping`, `RefreshKept`, `CleanupAlone`,
`StopIsThorough`, from `IssueFitsPlace`: no timer before `start` restored it, and
after `stop` only what it could not find.

The configuration, for any texts and stamps: `ReloadTyping` and
`OnlyGoodInForce`, from `TextWasThere`: a text that was read was in the file.

### `TrackerGatewayProofs`

For any number of attempts: `GatewayTyping`, `ServerEnded`, `RunsAccounted`,
`RefusalTold`, from which state the server is in at each place
(`ServerFitsPlace`), which verdict goes with it (`VerdictFitsPlace`) and that each
run of the tool is the first, this attempt's or a lost one (`RunsMatch`).

### Model-checked only

The liveness properties: `LeftIssueIsReleased`, `ReadyIssueIsWorkedOn`,
`MergedIssueIsFinished`, `AttemptEnds`, `TurnEnds`, `FileIsFollowed`,
`SetupRecovers`, `CallEnds`, `StopEnds`. They need fairness, hence `ENABLED`,
which is out of the prover's reach. Of an orchestrator whose state file cannot be
written, TLC checks what `board` lists.

## 5. Where documents and code disagree

Each of these is shown by a configuration of its own, with a counterexample.

1. `docs/IMPLEMENTATION.md:30` says that "retry/running state is in-memory"; the
   retry queue is written to a file at every change and restored
   (`orchestrator.py:680-737`; `MCOrchestrator_memory.cfg`; the test
   `test_runtime_state_persists_across_orchestrator_restart` agrees with the
   code).
2. `docs/IMPLEMENTATION.md:13` says that issues move to Done only after required
   PRs are merged; sources that fail count as empty (`orchestrator.py:207-226`,
   `review.py:97-117`), and the PRs only they link are not required
   (`MCReviewGate_docs.cfg`). With sources that answer and a cap that is not
   reached the rule holds and is proved.
3. `README.md:46` says that each planned repository is checked out on a prepared
   branch; after an interrupted preparation it is not (`workspace.py:193-216`;
   `RepoWorkspace_docs.cfg`). The push guard of the planned repositories still
   confines pushes.
4. `README.md:18` says that a card shows a summary of recent events of its agent.
   `_summarize_running_issue` finds the entry by issue id after its answer
   (`orchestrator.py:610-617`): a run that has replaced another gets the summary
   of the old one's events, and with its revision, so that it is not summarized
   until it has had more events than the old one (`IssueActivity_docs.cfg`).
5. The prompt of `repo_planner.py:73` says "Do not edit read-only context repos".
   A repository that the planner gives both as secondary and as read-only context
   stays in both lists (`repo_planner.py:272-274`), and `edit_allowed_slugs`
   (`models.py:125-126`) contains it: a change there is not reported
   (`MCRepoPlanning_context.cfg`).
6. `README.md:46` again: of two planned repositories with the same name and
   different owners the second finds the first in its directory
   (`workspace.py:196-197`), and every attempt quarantines what the one before has
   cloned and fails at the same place (`MCRepoPlanning_paths.cfg`).
7. `WORKFLOW.linear-mcp.example.md:155` asks for "exactly one persistent Linear
   comment". The delivery fallback looks for it in the first 250 comments
   (`tracker.py:303-317`) and passes over one without id
   (`agent_runner.py:304-305`): it then writes a second one
   (`RunAttempt_docs.cfg`), as it does when an answer is lost.
8. `README.md:48` says that agents work across repositories "without accidentally
   pushing inherited local branches". A checkout whose preparation failed before
   the guard was installed (`workspace.py:242-243`) stays in the workspace; when
   a later plan leaves its repository out, nothing installs the guard any more,
   and a push from it goes wherever it is told (`RepoWorkspace_guard.cfg`).

Behaviours the properties name as exceptions, beside those: an untyped exception
strands a claim until the restart (`NoOrphanClaim` excludes them; `stuck` in
`IssueLifecycle`); a block whose entry in the state file cannot be read is
forgotten, and the issue run again (`BlockedStaysBlocked`; `Start` in
`IssueLifecycle`); a cancellation that the session of the classifier or the
planner swallows lets the attempt go on (`CancelEndsWork`); a cancellation during
start or stop, or a missing `thread.id`, leaves an app-server running
(`AppServerIsReaped`); a completion that overtakes the response to `turn/start`
is lost (`CompletionIsSeen`); an edit between the read and the stamp of a load is
not seen, and an error outlives the return of the loaded version
(`FileIsFollowed`); a save whose answer is lost may be repeated as a second
workpad (`WorkpadsAreAccounted`); `git push --no-verify` passes the guard by
(`PushesStayOnIssueBranch`); a clone left running may take a checkout with it,
also after the workspace was moved (`WorkIsKept`); a summary task whose place
another has taken or emptied survives `stop`, and so does one that a cancelled or
late worker's event begins (`StopEndsSummaries`); a timer that is asking the
tracker is not found by `stop` (`StoppedIsStill`); an open connection, or a
cancelled worker that does not end, can keep the process from ending
(`StopEnds`), the output of a killed command a workspace (`SetupRecovers`), a
call without a bound an attempt (`AttemptEnds`), and a chatting server or an open
stderr a gateway call (`CallEnds`); a cancelled gateway call may leave its server
if its end was awaited (`NoServerIsLeft`).

## 6. Not modelled, and the plan

Not modelled:

- rendering: the JSON views and the page of the status server, templates, logs,
  the texts of prompts; argument parsing; parsing and normalisation of payloads,
  where no property tells the results apart;
- a drain of stdin that never returns (`codex_client.py:206`): writes of the
  client succeed at once; the stall check of the orchestrator ends such a session;
- `after_create` is not run again when its first run failed or its directory was
  quarantined (`workspace.py:41`): `RepoWorkspace` behaves so, but what the hook
  sets up is the operator's, and no property speaks of it;
- an issue moved during a fetch from a state listed later to one listed earlier is
  on no page, and a retry handler takes it for gone: `AnswerIsUsable` is about
  those nobody moves, and answers may miss an issue in `Orchestrator`; a tracker
  that repeats a cursor for ever would keep a fetch going;
- with `context.coding` disabled every issue is classified as no coding task, so
  that planning is off without a word (`coding_context.py:36`): `Classified` has
  it, and nothing says which setting should win; `fallback: block` blocks only
  with `block_on_needs_human`;
- counters of two sessions of one run share one high-water mark
  (`orchestrator.py:634`): tokens of the second below the mark of the first are
  not counted. `TokensCountOnce` speaks of the counter of a run;
- the list of deviations is cut to its last twenty;
- `repo-plan.json` is written for people. `.symphony-workspace.json` is read
  again by the review gate, for the branches whose PRs it looks for
  (`review.py:254-275`), and for the agent's prompt
  (`repo_planner.py:83-111`). Its contents are not modelled: in `ReviewGate`,
  `OnBranch` are the branches it names, and one that cannot be read names none;
- the limits of single states are constants in `Orchestrator`; only the limit of
  all slots changes with reloads;
- a message that comes only as an item after an earlier one was captured may be
  missing from the text of a turn: `TextIsFaithful` speaks of repetitions and of
  an empty text; items without a slug in the answer of a planner are dropped
  without a word (`repo_planner.py:244-248`), and `PlanIsSound` is about the plan
  that results.

Built so far, in this order: `Orchestrator` with its proofs, lifecycle and
board; `ReviewGate`; `RunAttempt`; `CodexTurn`; `ConfigReload`; `RepoWorkspace`;
`IssueActivity`; `IssueListing`; `TrackerGateway`; `ServiceLoop`; `RepoPlanning`.

Next, in this order:

1. A composition of `Orchestrator` and `RunAttempt` in which the worker's result
   and its cancellation are those of the attempt.
2. An abstract specification of the tracker's side of an attempt (comments and
   moves of an issue), for `RunAttempt` and `TrackerGateway` to implement.
