----------------------------- MODULE ServiceLoop -----------------------------
(***************************************************************************)
(* The process around the orchestrator: async_main of cli.py, the loop of  *)
(* Orchestrator.start with its refresh event, and StatusHTTPServer of      *)
(* http_server.py, whose handlers share the event loop with it.  What a    *)
(* poll does is left to Orchestrator; here it ends, or raises.  One issue  *)
(* stands for the workers, with their summaries, and the retries that the  *)
(* loop starts and that end with it.                                       *)
(***************************************************************************)
EXTENDS Naturals

CONSTANT Clients    \* those who connect to the status server

VARIABLES
    main,       \* where async_main is suspended
    once,       \* --once
    serving,    \* is there a status server?
    waits,      \* does Server.wait_closed wait for open connections?  Python
                \* does since 3.12.1, and pyproject.toml admits 3.11 as well
    event,      \* _refresh_event
    owed,       \* was a refresh accepted since the last poll began?
    issue,      \* "filed" in the state file with a retry, with a "timer", in
                \* the hands of a timer that is "asking" or of a "worker", or
                \* "free"
    late,       \* was a timer asking when stop() looked for timers?
    awaited,    \* does the end wait for the issue's worker, or its timer?
    client      \* the connections

modes == <<once, serving, waits>>
vars == <<main, modes, event, owed, issue, late, awaited, client>>

Places == {"boot", "cleanup", "tick", "wait", "stop", "closing", "cancelling", "exited"}

TypeOK ==
    /\ main \in Places
    /\ once \in BOOLEAN /\ serving \in BOOLEAN /\ waits \in BOOLEAN
    /\ event \in BOOLEAN /\ owed \in BOOLEAN
    /\ issue \in {"filed", "timer", "asking", "worker", "free"}
    /\ late \in BOOLEAN /\ awaited \in BOOLEAN
    /\ client \in [Clients -> {"away", "reading", "writing"}]

Started ==
    /\ main = "boot"
    /\ once \in BOOLEAN /\ serving \in BOOLEAN /\ waits \in BOOLEAN
    /\ event = FALSE
    /\ owed = FALSE
    /\ issue \in {"filed", "free"}
    /\ late = FALSE /\ awaited = FALSE
    /\ client = [c \in Clients |-> "away"]

Init == Started

-----------------------------------------------------------------------------
(* Start *)

(* __init__ has loaded the retries of the file, whose timers are for later. *)
(* The status server starts before everything else, or its port is in use. *)
Boot ==
    /\ main = "boot"
    /\ main' \in IF serving THEN {"cleanup", "exited"} ELSE {"cleanup"}
    /\ UNCHANGED <<issue, modes, event, owed, late, awaited, client>>

(* The event is cleared before the poll it asks for begins.                *)
BeginPoll ==
    /\ main' = "tick"
    /\ event' = FALSE
    /\ owed' = FALSE

(* startup_terminal_workspace_cleanup is over: start() starts the timers   *)
(* of the restored retries and asks for a poll.  --once goes straight to   *)
(* its one tick, and leaves the retries where they are.                    *)
CleanupDone ==
    /\ main = "cleanup"
    /\ IF once THEN main' = "tick" /\ UNCHANGED <<event, owed, issue>>
       ELSE BeginPoll /\ issue' = IF issue = "filed" THEN "timer" ELSE issue
    /\ UNCHANGED <<modes, late, awaited, client>>

-----------------------------------------------------------------------------
(* The loop *)

(* Faulty: clears the event when the poll is over.                         *)
PolledClearing == main' = "wait" /\ event' = FALSE

Polled == main' = "wait" /\ UNCHANGED event

TickEnds ==
    /\ main = "tick" /\ ~once
    /\ Polled
    /\ UNCHANGED <<modes, owed, issue, late, awaited, client>>

(* wait_for returns when the event is set ...                              *)
WakeUp ==
    /\ main = "wait" /\ event
    /\ BeginPoll
    /\ UNCHANGED <<modes, issue, late, awaited, client>>

(* ... and after the poll interval the loop sets it itself.                *)
IntervalOver ==
    /\ main = "wait" /\ ~event
    /\ BeginPoll
    /\ UNCHANGED <<modes, issue, late, awaited, client>>

(* tick() dispatches the issue; its worker ends, and it may be tried again. *)
Dispatch ==
    /\ main = "tick" /\ issue = "free"
    /\ issue' = "worker"
    /\ UNCHANGED <<main, modes, event, owed, late, awaited, client>>

(* The timer takes the retry off the file, and asks the tracker.           *)
TimerFires ==
    /\ main # "exited" /\ issue = "timer"
    /\ issue' = "asking"
    /\ UNCHANGED <<main, modes, event, owed, late, awaited, client>>

TimerAnswered ==
    /\ main # "exited" /\ issue = "asking"
    /\ issue' \in {"worker", "timer", "free"}
    /\ awaited' = FALSE
    /\ UNCHANGED <<main, modes, event, owed, late, client>>

(* A worker that stop() has found is released; one that a late timer sent  *)
(* out afterwards ends like any other.                                     *)
WorkerEnds ==
    /\ main # "exited" /\ issue = "worker"
    /\ issue' \in IF main = "stop" /\ awaited THEN {"free"} ELSE {"free", "timer"}
    /\ awaited' = FALSE
    /\ UNCHANGED <<main, modes, event, owed, late, client>>

-----------------------------------------------------------------------------
(* The end *)

(* Faulty: the timers go on.                                               *)
StopSparingTimers ==
    /\ main' = "stop"
    /\ event' = TRUE
    /\ late' = (issue = "asking")
    /\ awaited' = (issue = "worker")
    /\ UNCHANGED issue

(* stop() sets the event, cancels the timers, whose retries stay in the    *)
(* file, and the workers, which it awaits.  A timer that is asking has no  *)
(* entry in retry_attempts any more and is not found.                      *)
Stop ==
    /\ main' = "stop"
    /\ event' = TRUE
    /\ late' = (issue = "asking")
    /\ awaited' = (issue = "worker")
    /\ issue' = IF issue = "timer" THEN "filed" ELSE issue

(* The finally of async_main: after the tick of --once, or an interrupt or *)
(* an exception no handler is for, at any suspension.                      *)
Leave ==
    /\ main \in {"cleanup", "tick", "wait"}
    /\ Stop
    /\ UNCHANGED <<modes, owed, client>>

OnceEnds == once /\ main = "tick" /\ Leave

(* asyncio.run cancels the tasks that are left, and waits for them: a      *)
(* handler that was reading ends, one with an answer to deliver may wait   *)
(* for its client (writer.wait_closed).                                    *)
Cancelling ==
    /\ main' = "cancelling"
    /\ issue' = IF issue = "timer" THEN "filed" ELSE issue
    /\ awaited' = (issue \in {"asking", "worker"})
    /\ \E stuck \in SUBSET {c \in Clients : client[c] = "writing"} :
          client' = [c \in Clients |-> IF c \in stuck THEN "writing" ELSE "away"]

Stopped ==
    /\ main = "stop"
    /\ ~awaited
    /\ IF serving THEN main' = "closing" /\ UNCHANGED <<issue, awaited, client>>
       ELSE Cancelling
    /\ UNCHANGED <<modes, event, owed, late>>

Nobody == [c \in Clients |-> "away"]

(* Faulty: waits for the clients in any version.                           *)
ClosedAfterClients ==
    /\ main = "closing"
    /\ client = Nobody
    /\ Cancelling
    /\ UNCHANGED <<modes, event, owed, late>>

(* StatusHTTPServer.stop: close(), wait_closed().                          *)
Closed ==
    /\ main = "closing"
    /\ waits => client = Nobody
    /\ Cancelling
    /\ UNCHANGED <<modes, event, owed, late>>

(* What remains when the event loop is gone.                               *)
Left(i) == CASE i = "timer" -> "filed" [] i \in {"asking", "worker"} -> "free"
             [] OTHER -> i

Gone ==
    /\ main' = "exited"
    /\ client' = Nobody
    /\ issue' = Left(issue)
    /\ awaited' = FALSE
    /\ UNCHANGED <<modes, event, owed, late>>

Exit == main = "cancelling" /\ ~awaited /\ client = Nobody /\ Gone

(* SIGTERM, a second interrupt, a crash.                                   *)
Die == main # "exited" /\ Gone

StartAgain ==
    /\ main = "exited"
    /\ main' = "boot"
    /\ once' \in BOOLEAN
    /\ event' = FALSE
    /\ owed' = FALSE
    /\ late' = FALSE
    /\ UNCHANGED <<serving, waits, issue, awaited, client>>

-----------------------------------------------------------------------------
(* The status server: handlers read without a timeout *)

Connect(c) ==
    /\ serving /\ main \in {"cleanup", "tick", "wait", "stop"}
    /\ client[c] = "away"
    /\ client' = [client EXCEPT ![c] = "reading"]
    /\ UNCHANGED <<main, modes, event, owed, issue, late, awaited>>

Reading(c) == client[c] = "reading" /\ main # "exited"

(* A page, a snapshot or an error: nothing of the service changes.         *)
RequestOther(c) ==
    /\ Reading(c)
    /\ client' = [client EXCEPT ![c] = "writing"]
    /\ UNCHANGED <<main, modes, event, owed, issue, late, awaited>>

(* POST /api/v1/refresh is request_refresh(), and 202 Accepted.            *)
RequestRefresh(c) ==
    /\ Reading(c)
    /\ client' = [client EXCEPT ![c] = "writing"]
    /\ event' = TRUE
    /\ owed' = TRUE
    /\ UNCHANGED <<main, modes, issue, late, awaited>>

(* The answer is taken, or the client goes away.                           *)
Disconnect(c) ==
    /\ client[c] # "away"
    /\ client' = [client EXCEPT ![c] = "away"]
    /\ UNCHANGED <<main, modes, event, owed, issue, late, awaited>>

Loop == CleanupDone \/ TickEnds \/ WakeUp \/ IntervalOver \/ OnceEnds

Next ==
    \/ Boot \/ Loop \/ Dispatch \/ TimerFires \/ TimerAnswered \/ WorkerEnds
    \/ Leave \/ Stopped \/ Closed \/ Exit \/ Die \/ StartAgain
    \/ \E c \in Clients :
          Connect(c) \/ RequestOther(c) \/ RequestRefresh(c) \/ Disconnect(c)

(* The event loop goes on when nothing is awaited any more.  Nothing makes *)
(* a poll, a worker or a client end: a cancelled worker may swallow the    *)
(* cancellation, or run a hook whose children hold its output for ever.    *)
Fairness == WF_vars(Stopped) /\ WF_vars(Closed) /\ WF_vars(Exit)

Spec == Init /\ [][Next]_vars /\ Fairness

-----------------------------------------------------------------------------
(* Properties *)

Looping == main \in {"tick", "wait"} /\ ~once

(* A refresh that was accepted, whenever it came in, is not lost between   *)
(* two polls: it need not wait for the interval.                           *)
RefreshIsNotLost == Looping /\ owed => event

(* While startup removes the workspaces of closed issues no worker is in   *)
(* one, though retries were restored from the file before.                 *)
CleanupIsAlone == main \in {"boot", "cleanup"} => issue # "worker"

(* Everything stop() finds is still after it, while the connections are    *)
(* closed: no worker and no timer.  Only a timer that had taken its retry  *)
(* off the list just before, and was asking the tracker, is not found, and *)
(* may yet start a worker.                                                 *)
StoppedIsStill ==
    main \in {"closing", "cancelling"} /\ ~late => issue \in {"filed", "free"}

(* A stop comes to its end, unless a cancelled worker, or timer, does not; *)
(* Python waits for the connections and a client keeps one open, as no     *)
(* handler has a timeout; or a client does not take its answer.            *)
StopEnds ==
    \/ main = "stop" ~> main = "exited"
    \/ <>[]awaited
    \/ <>[](main = "closing" /\ waits /\ client # Nobody)
    \/ \E c \in Clients : <>[](main = "cancelling" /\ client[c] = "writing")
=============================================================================
