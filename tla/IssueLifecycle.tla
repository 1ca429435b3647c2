--------------------------- MODULE IssueLifecycle ---------------------------
(***************************************************************************)
(* What the orchestrator promises for an issue, without coroutines, tasks, *)
(* timers, dictionaries or files: an issue is in one phase at a time, work *)
(* on it starts from two phases only and never beyond the capacity, a      *)
(* block is for ever while the process runs, its end keeps waiting and     *)
(* blocked issues and sends every other one back to the tracker, and so    *)
(* does the next start those that it cannot read.                          *)
(***************************************************************************)
EXTENDS Naturals, FiniteSets

CONSTANTS
    Issues,
    Capacity    \* the most workers there may ever be, a natural number

VARIABLES
    up,         \* has the process started?
    phase       \* the phase of each issue

(* idle      nothing is going on: the next tick may dispatch the issue     *)
(* working   a worker runs, or its end is not yet handled                  *)
(* cleaning  the workspace is being removed                                *)
(* waiting   a retry is scheduled                                          *)
(* asking    the retry is due and the tracker is being asked               *)
(* blocked   a human is needed                                             *)
(* stuck     claimed by nobody, after an error nothing caught              *)
Phases == {"idle", "working", "cleaning", "waiting", "asking", "blocked", "stuck"}

In(p) == {i \in Issues : phase[i] = p}

Init == up = FALSE /\ phase = [i \in Issues |-> "idle"]

(* The start: what is known of some waiting and blocked issues is lost.    *)
Start(lost) ==
    /\ ~up
    /\ up' = TRUE
    /\ lost \subseteq In("waiting") \union In("blocked")
    /\ phase' = [i \in Issues |-> IF i \in lost THEN "idle" ELSE phase[i]]

Move(i, from, to) ==
    /\ up
    /\ UNCHANGED up
    /\ phase[i] \in from
    /\ \E p \in to : phase' = [phase EXCEPT ![i] = p]

(* A tick starts work on some idle issues at once.                         *)
Dispatch(S) ==
    /\ up
    /\ UNCHANGED up
    /\ S # {}
    /\ S \subseteq In("idle")
    /\ Cardinality(In("working") \union S) <= Capacity
    /\ phase' = [i \in Issues |-> IF i \in S THEN "working" ELSE phase[i]]

Redispatch(i) ==
    /\ Cardinality(In("working")) < Capacity
    /\ Move(i, {"asking"}, {"working"})

Finish(i) == Move(i, {"working"}, {"idle", "cleaning", "waiting", "blocked"})
CleanupEnds(i) == Move(i, {"cleaning"}, {"idle", "stuck"})
RetryDue(i) == Move(i, {"waiting"}, {"asking"})
RetryAnswered(i) == Move(i, {"asking"}, {"idle", "waiting", "stuck"})

(* The end of the process, orderly or not                                  *)
Survives(p) == IF p \in {"waiting", "blocked"} THEN p ELSE "idle"
End ==
    /\ up
    /\ up' = FALSE
    /\ phase' = [i \in Issues |-> Survives(phase[i])]

(* Each of these changes the state.                                        *)
Next ==
    /\ <<up, phase>>' # <<up, phase>>
    /\ \/ \E S \in SUBSET Issues : Start(S) \/ Dispatch(S)
       \/ \E i \in Issues :
             \/ Redispatch(i)
             \/ Finish(i)
             \/ CleanupEnds(i)
             \/ RetryDue(i)
             \/ RetryAnswered(i)
       \/ End

Spec == Init /\ [][Next]_<<up, phase>>
=============================================================================
