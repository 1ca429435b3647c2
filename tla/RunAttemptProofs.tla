-------------------------- MODULE RunAttemptProofs --------------------------
(***************************************************************************)
(* Theorems of RunAttempt, for any number of turns, of lost answers and of *)
(* listings that do not show a workpad.                                    *)
(***************************************************************************)
EXTENDS RunAttempt, TLAPS

(* Which state the server process is in at each place of the attempt       *)
ProcFitsPlace ==
    /\ pc \in BeforeSession \union {"create", "spawn"} => proc = "none"
    /\ pc \in InSession \union {"start"} => proc \in {"alive", "dead"}
    /\ pc = "stopping" => proc \in {"signalled", "dead"}
    /\ pc = "draining" => proc = "dead"

(* No workpad was listed: then none is there but by lost saves since, or   *)
(* one was missed.                                                         *)
CommentIsFresh == pc = "comment" /\ ~found => workpads <= losses + misses

AttemptInv ==
    /\ TypeOK
    /\ ProcFitsPlace
    /\ AppServerIsReaped
    /\ CommentIsFresh
    /\ WorkpadsAreAccounted

(* Every step falls in one of these groups; the proofs go through them.    *)
BeforeStep == Created \/ Prepared \/ PreparationFails \/ PlanNeedsHuman \/ Spawned
StartStep == SessionStarted \/ StartFails \/ ThreadMissing
TurnStep == TurnEnds \/ TurnFails \/ Refreshed
FallbackStep == Listed \/ FallbackFails \/ Commented \/ CommentUnanswered \/ Moved
StopStep == StopWaits \/ StopDrains \/ AfterRun \/ ProcessDies
WorldStep == BoardMoves \/ AgentComments \/ Again

LEMMA StepGroups ==
    ASSUME [Next]_vars
    PROVE  \/ BeforeStep \/ StartStep \/ TurnStep \/ FallbackStep \/ StopStep
           \/ Cancelled \/ WorldStep \/ UNCHANGED vars
BY DEF Next, Proceed, BeforeStep, StartStep, TurnStep, FallbackStep, StopStep, WorldStep

(* Leaving the session or going on with it moves to a place that fits.     *)
LEMMA StopIsEntered ==
    ASSUME TypeOK, ProcFitsPlace, pc \in InSession \union {"start"}, NEW o, EnterStop(o)
    PROVE  \/ pc' = "stopping" /\ proc' = "signalled"
           \/ pc' = "draining" /\ proc' = "dead"
BY DEF EnterStop, ProcFitsPlace, TypeOK

LEMMA Concluded ==
    ASSUME TypeOK, ProcFitsPlace, pc \in InSession, NEW s, Conclude(s)
    PROVE  /\ \/ pc' = "stopping" /\ proc' = "signalled" /\ outcome' \in {"left", "max_turns"}
              \/ pc' = "draining" /\ proc' = "dead" /\ outcome' \in {"left", "max_turns"}
              \/ pc' = "turn" /\ proc' = proc /\ outcome' = outcome
           /\ turn' \in 0 .. MaxTurns
<1>. USE TurnsAssumption
<1>1. CASE s = "left"
  BY <1>1, StopIsEntered DEF Conclude, EnterStop, TypeOK
<1>2. CASE s # "left" /\ turn >= MaxTurns
  BY <1>2, StopIsEntered DEF Conclude, EnterStop, TypeOK
<1>3. CASE s # "left" /\ ~(turn >= MaxTurns)
  BY <1>3 DEF Conclude, TypeOK
<1>. QED  BY <1>1, <1>2, <1>3

LEMMA AttemptTypingStep ==
    ASSUME TypeOK, ProcFitsPlace, CommentIsFresh, WorkpadsAreAccounted, [Next]_vars
    PROVE  TypeOK'
<1>. USE TurnsAssumption, LossesAssumption, MissesAssumption
     DEF Places, BeforeSession, InSession, world
<1>1. CASE BeforeStep
  <2>1. CASE Prepared
    <3>1. Follows[pc] \in Places
      BY <2>1 DEF Prepared, Follows
    <3>. QED  BY <2>1, <3>1 DEF Prepared, TypeOK
  <2>2. CASE ~Prepared
    BY <1>1, <2>2 DEF BeforeStep, Created, PreparationFails, PlanNeedsHuman, Spawned, TypeOK
  <2>. QED  BY <2>1, <2>2
<1>2. CASE StartStep
  <2>1. CASE StartFails
    BY <2>1, StopIsEntered DEF StartFails, EnterStop, TypeOK
  <2>2. CASE SessionStarted
    BY <2>2 DEF SessionStarted, TypeOK
  <2>3. CASE ThreadMissing
    BY <2>3 DEF ThreadMissing, TypeOK
  <2>. QED  BY <1>2, <2>1, <2>2, <2>3 DEF StartStep
<1>3. CASE TurnStep
  <2>1. CASE TurnFails
    BY <2>1, StopIsEntered DEF TurnFails, EnterStop, TypeOK
  <2>2. CASE Refreshed
    BY <2>2, Concluded DEF Refreshed, TypeOK
  <2>. QED  BY <1>3, <2>1, <2>2 DEF TurnStep, TurnEnds, TypeOK
<1>4. CASE FallbackStep
  <2>1. CASE Listed
    <3>1. found' \in BOOLEAN
      <4>1. found' = (workpads > 0) \/ found' = FALSE
        BY <2>1 DEF Listed
      <4>2. CASE found' = (workpads > 0)
        BY <4>2, SMT
      <4>3. CASE found' = FALSE
        BY <4>3
      <4>. QED  BY <4>1, <4>2, <4>3
    <3>2. misses' \in 0 .. MaxMisses
      BY <2>1 DEF Listed, TypeOK
    <3>. QED  BY <2>1, <3>1, <3>2 DEF Listed, TypeOK
  <2>2. CASE FallbackFails \/ Moved
    BY <2>2, Concluded DEF FallbackFails, Moved, TypeOK
  <2>3. CASE Commented
    BY <2>3 DEF Commented, Written, CommentIsFresh, TypeOK
  <2>4. CASE CommentUnanswered
    <3>1. workpads' \in 0 .. MaxLosses + MaxMisses + 1 /\ losses' \in 0 .. MaxLosses
      BY <2>4 DEF CommentUnanswered, Written, CommentIsFresh, TypeOK
    <3>2. /\ pc' \in Places /\ turn' \in 0 .. MaxTurns
          /\ proc' \in {"none", "alive", "signalled", "dead"}
          /\ outcome' \in {"none", "left", "max_turns", "blocked", "failed", "cancelled"}
      BY <2>4, Concluded DEF CommentUnanswered, TypeOK
    <3>. QED  BY <2>4, <3>1, <3>2 DEF CommentUnanswered, TypeOK
  <2>. QED  BY <1>4, <2>1, <2>2, <2>3, <2>4 DEF FallbackStep
<1>5. CASE StopStep
  BY <1>5 DEF StopStep, StopWaits, StopDrains, AfterRun, ProcessDies, TypeOK
<1>6. CASE Cancelled
  <2>1. CASE CutEarly \/ CutNestedLost \/ CutLost
    BY <2>1 DEF CutEarly, CutNestedLost, CutLost, Struck, TypeOK
  <2>2. CASE CutInSession
    <3>1. workpads' \in 0 .. MaxLosses + MaxMisses + 1 /\ losses' \in 0 .. MaxLosses
          /\ board' \in {"active", "left"}
      BY <2>2 DEF CutInSession, Written, CommentIsFresh, TypeOK
    <3>. QED  BY <2>2, <3>1, StopIsEntered DEF CutInSession, Struck, EnterStop, TypeOK
  <2>. QED  BY <1>6, <2>1, <2>2 DEF Cancelled
<1>7. CASE WorldStep
  <2>1. CASE BoardMoves
    BY <2>1 DEF BoardMoves, TypeOK
  <2>2. CASE AgentComments
    <3>1. workpads' \in 0 .. MaxLosses + MaxMisses + 1
      BY <2>2 DEF AgentComments
    <3>. QED  BY <2>2, <3>1 DEF AgentComments, TypeOK
  <2>3. CASE Again
    <3>1. turn' \in 0 .. MaxTurns
      BY <2>3 DEF Again
    <3>. QED  BY <2>3, <3>1 DEF Again, TypeOK
  <2>. QED  BY <1>7, <2>1, <2>2, <2>3 DEF WorldStep
<1>8. CASE UNCHANGED vars
  BY <1>8 DEF vars, TypeOK
<1>. QED  BY <1>1, <1>2, <1>3, <1>4, <1>5, <1>6, <1>7, <1>8, StepGroups

LEMMA ProcessStep ==
    ASSUME TypeOK, ProcFitsPlace, AppServerIsReaped, [Next]_vars
    PROVE  ProcFitsPlace' /\ AppServerIsReaped'
<1>. USE DEF BeforeSession, InSession, world
<1>1. CASE BeforeStep
  BY <1>1 DEF BeforeStep, Created, Prepared, Follows, PreparationFails, PlanNeedsHuman,
              Spawned, ProcFitsPlace, AppServerIsReaped
<1>2. CASE StartStep
  <2>1. CASE StartFails
    BY <2>1, StopIsEntered DEF StartFails, ProcFitsPlace, AppServerIsReaped
  <2>. QED  BY <1>2, <2>1 DEF StartStep, SessionStarted, ThreadMissing, ProcFitsPlace,
                              AppServerIsReaped
<1>3. CASE TurnStep
  <2>1. CASE TurnFails
    BY <2>1, StopIsEntered DEF TurnFails, ProcFitsPlace, AppServerIsReaped
  <2>2. CASE Refreshed
    BY <2>2, Concluded DEF Refreshed, ProcFitsPlace, AppServerIsReaped
  <2>. QED  BY <1>3, <2>1, <2>2 DEF TurnStep, TurnEnds, ProcFitsPlace, AppServerIsReaped
<1>4. CASE FallbackStep
  BY <1>4, Concluded DEF FallbackStep, Listed, FallbackFails, Commented, CommentUnanswered,
                         Moved, ProcFitsPlace, AppServerIsReaped
<1>5. CASE StopStep
  BY <1>5 DEF StopStep, StopWaits, StopDrains, AfterRun, ProcessDies, ProcFitsPlace,
              AppServerIsReaped
<1>6. CASE Cancelled
  <2>1. CASE CutEarly \/ CutNestedLost \/ CutLost
    BY <2>1
    DEF CutEarly, CutNestedLost, CutLost, Struck, ProcFitsPlace, AppServerIsReaped, TypeOK
  <2>2. CASE CutInSession
    BY <2>2, StopIsEntered DEF CutInSession, ProcFitsPlace, AppServerIsReaped
  <2>. QED  BY <1>6, <2>1, <2>2 DEF Cancelled
<1>7. CASE WorldStep
  BY <1>7 DEF WorldStep, BoardMoves, AgentComments, Again, ProcFitsPlace, AppServerIsReaped
<1>8. CASE UNCHANGED vars
  BY <1>8 DEF vars, ProcFitsPlace, AppServerIsReaped
<1>. QED  BY <1>1, <1>2, <1>3, <1>4, <1>5, <1>6, <1>7, <1>8, StepGroups

LEMMA WorkpadStep ==
    ASSUME TypeOK, ProcFitsPlace, CommentIsFresh, WorkpadsAreAccounted, [Next]_vars
    PROVE  CommentIsFresh' /\ WorkpadsAreAccounted'
<1>. USE DEF BeforeSession, InSession, world
<1>1. CASE BeforeStep
  BY <1>1 DEF BeforeStep, Created, Prepared, Follows, PreparationFails, PlanNeedsHuman,
              Spawned, CommentIsFresh, WorkpadsAreAccounted
<1>2. CASE StartStep
  <2>1. CASE StartFails
    BY <2>1, StopIsEntered DEF StartFails, CommentIsFresh, WorkpadsAreAccounted
  <2>. QED  BY <1>2, <2>1 DEF StartStep, SessionStarted, ThreadMissing, CommentIsFresh,
                              WorkpadsAreAccounted
<1>3. CASE TurnStep
  <2>1. CASE TurnFails
    BY <2>1, StopIsEntered DEF TurnFails, CommentIsFresh, WorkpadsAreAccounted
  <2>2. CASE Refreshed
    BY <2>2, Concluded DEF Refreshed, CommentIsFresh, WorkpadsAreAccounted
  <2>. QED  BY <1>3, <2>1, <2>2 DEF TurnStep, TurnEnds, CommentIsFresh, WorkpadsAreAccounted
<1>4. CASE FallbackStep
  <2>1. CASE Listed
    <3>1. /\ workpads \in Nat /\ losses \in Nat /\ misses \in Nat
          /\ workpads' = workpads /\ losses' = losses
      BY <2>1, LossesAssumption, MissesAssumption DEF Listed, TypeOK
    <3>2. CASE found' = (workpads > 0) /\ UNCHANGED misses
      <4>1. ~found' => ~(workpads > 0)
        BY <3>2, Zenon
      <4>. QED  BY <3>1, <3>2, <4>1 DEF CommentIsFresh, WorkpadsAreAccounted
    <3>3. CASE misses' = misses + 1
      BY <3>1, <3>3 DEF CommentIsFresh, WorkpadsAreAccounted
    <3>. QED  BY <2>1, <3>2, <3>3 DEF Listed
  <2>2. CASE FallbackFails \/ Moved
    BY <2>2, Concluded DEF FallbackFails, Moved, CommentIsFresh, WorkpadsAreAccounted
  <2>3. CASE Commented
    BY <2>3 DEF Commented, Written, CommentIsFresh, WorkpadsAreAccounted, TypeOK
  <2>4. CASE CommentUnanswered
    BY <2>4 DEF CommentUnanswered, Written, CommentIsFresh, WorkpadsAreAccounted, TypeOK
  <2>. QED  BY <1>4, <2>1, <2>2, <2>3, <2>4 DEF FallbackStep
<1>5. CASE StopStep
  BY <1>5 DEF StopStep, StopWaits, StopDrains, AfterRun, ProcessDies, CommentIsFresh,
              WorkpadsAreAccounted
<1>6. CASE Cancelled
  <2>1. CASE CutEarly \/ CutNestedLost \/ CutLost
    BY <2>1 DEF CutEarly, CutNestedLost, CutLost, CommentIsFresh, WorkpadsAreAccounted
  <2>2. CASE CutInSession
    <3>1. pc' # "comment"
      BY <2>2, StopIsEntered DEF CutInSession
    <3>2. workpads' <= 1 + losses' + misses'
      BY <2>2, LossesAssumption, MissesAssumption DEF CutInSession, Written, CommentIsFresh, WorkpadsAreAccounted, TypeOK
    <3>. QED  BY <3>1, <3>2 DEF CommentIsFresh, WorkpadsAreAccounted
  <2>. QED  BY <1>6, <2>1, <2>2 DEF Cancelled
<1>7. CASE WorldStep
  BY <1>7 DEF WorldStep, BoardMoves, AgentComments, Again, CommentIsFresh,
              WorkpadsAreAccounted, TypeOK
<1>8. CASE UNCHANGED vars
  BY <1>8 DEF vars, CommentIsFresh, WorkpadsAreAccounted
<1>. QED  BY <1>1, <1>2, <1>3, <1>4, <1>5, <1>6, <1>7, <1>8, StepGroups

LEMMA AttemptInvInit == Init => AttemptInv
<1>. SUFFICES ASSUME Init PROVE AttemptInv
  OBVIOUS
<1>. USE DEF Init
<1>1. turn \in 0 .. MaxTurns /\ losses \in 0 .. MaxLosses
  BY TurnsAssumption, LossesAssumption
<1>2. /\ workpads \in 0 .. MaxLosses + MaxMisses + 1 /\ misses \in 0 .. MaxMisses
      /\ workpads <= 1 + losses + misses
  BY LossesAssumption, MissesAssumption
<1>3. TypeOK
  BY <1>1, <1>2 DEF TypeOK, Places, BeforeSession, InSession
<1>. QED
  BY <1>2, <1>3 DEF AttemptInv, ProcFitsPlace, BeforeSession, InSession, AppServerIsReaped,
                    CommentIsFresh, WorkpadsAreAccounted

LEMMA AttemptInvStep == AttemptInv /\ [Next]_vars => AttemptInv'
BY AttemptTypingStep, ProcessStep, WorkpadStep DEF AttemptInv

(* The variables of an attempt keep their types, through every failure,    *)
(* cancellation and new attempt.                                           *)
THEOREM AttemptTyping == Spec => []TypeOK
BY AttemptInvInit, AttemptInvStep, PTL DEF Spec, AttemptInv

(* An attempt leaves no app-server behind but in the three named cases,    *)
(* whatever fails and wherever it is cancelled.                            *)
THEOREM ServerReaped == Spec => []AppServerIsReaped
BY AttemptInvInit, AttemptInvStep, PTL DEF Spec, AttemptInv

(* Over any number of turns and attempts, the fallback makes no workpad    *)
(* beside the first but by saves whose answers were lost and after         *)
(* listings that did not show the one that was there.                      *)
THEOREM OneWorkpad == Spec => [](TypeOK /\ WorkpadsAreAccounted)
BY AttemptInvInit, AttemptInvStep, PTL DEF Spec, AttemptInv

-----------------------------------------------------------------------------
(* The hand-off and the cancellation                                       *)

(* The fallback moves the issue only after a workpad was found or written, *)
(* and no step removes one.                                                *)
MoveIsDocumented ==
    /\ pc = "comment" /\ found => workpads > 0
    /\ pc = "move" => workpads > 0

(* A cancelled attempt is on its way out, unless a nested session has      *)
(* swallowed the cancellation.                                             *)
CancelledLeaves ==
    struck \ {"nested"} # {} => pc \in {"stopping", "draining", "after_run", "done"}

LEMMA WorkpadsStay ==
    ASSUME TypeOK, [Next]_vars
    PROVE  workpads' \in Nat /\ workpads' >= workpads
<1>1. workpads \in Nat
  BY LossesAssumption, MissesAssumption DEF TypeOK
<1>2. workpads' \in {workpads, workpads + 1}
  BY <1>1 DEF Next, Proceed, Cancelled, Created, Prepared, PreparationFails, PlanNeedsHuman,
              Spawned, SessionStarted, StartFails, ThreadMissing, TurnEnds, TurnFails,
              Refreshed, Listed, FallbackFails, Commented, CommentUnanswered, Moved, Written,
              StopWaits, StopDrains, AfterRun, CutEarly, CutInSession, CutNestedLost, CutLost, ProcessDies,
              BoardMoves, AgentComments, Again, world, vars
<1>. QED  BY <1>1, <1>2

(* The only ways to the two suspensions the invariant speaks of            *)
LEMMA WaysToMove ==
    ASSUME TypeOK, ProcFitsPlace, [Next]_vars
    PROVE  /\ pc' = "comment" => \/ pc = "comment" /\ found' = found
                                 \/ Listed
           /\ pc' = "move" => pc = "move" \/ Commented
<1>. USE DEF BeforeSession, InSession
<1>1. CASE BeforeStep
  BY <1>1 DEF BeforeStep, Created, Prepared, Follows, PreparationFails, PlanNeedsHuman, Spawned
<1>2. CASE StartStep
  BY <1>2, StopIsEntered DEF StartStep, SessionStarted, StartFails, ThreadMissing
<1>3. CASE TurnStep
  <2>1. CASE TurnFails
    BY <2>1, StopIsEntered DEF TurnFails
  <2>2. CASE Refreshed
    BY <2>2, Concluded DEF Refreshed
  <2>. QED  BY <1>3, <2>1, <2>2 DEF TurnStep, TurnEnds
<1>4. CASE FallbackStep
  <2>1. CASE Listed
    BY <2>1 DEF Listed
  <2>2. CASE FallbackFails
    <3>1. pc' \notin {"comment", "move"}
      BY <2>2, Concluded DEF FallbackFails
    <3>. QED  BY <3>1
  <2>3. CASE Commented
    BY <2>3 DEF Commented
  <2>4. CASE CommentUnanswered
    <3>1. CASE Conclude("active")
      <4>1. pc' \notin {"comment", "move"}
        BY <2>4, <3>1, Concluded DEF CommentUnanswered
      <4>. QED  BY <4>1
    <3>2. CASE UNCHANGED <<pc, turn, proc, outcome>>
      BY <2>4, <3>2 DEF CommentUnanswered
    <3>. QED  BY <2>4, <3>1, <3>2 DEF CommentUnanswered
  <2>5. CASE Moved
    <3>1. pc' \notin {"comment", "move"}
      BY <2>5, Concluded DEF Moved
    <3>. QED  BY <3>1
  <2>. QED  BY <1>4, <2>1, <2>2, <2>3, <2>4, <2>5 DEF FallbackStep
<1>5. CASE StopStep
  BY <1>5 DEF StopStep, StopWaits, StopDrains, AfterRun, ProcessDies
<1>6. CASE Cancelled
  BY <1>6, StopIsEntered DEF Cancelled, CutEarly, CutInSession, CutNestedLost, CutLost
<1>7. CASE WorldStep
  BY <1>7 DEF WorldStep, BoardMoves, AgentComments, Again
<1>8. CASE UNCHANGED vars
  BY <1>8 DEF vars
<1>. QED  BY <1>1, <1>2, <1>3, <1>4, <1>5, <1>6, <1>7, <1>8, StepGroups

LEMMA DocumentedStep ==
    ASSUME TypeOK, ProcFitsPlace, MoveIsDocumented, [Next]_vars
    PROVE  MoveIsDocumented'
<1>1. workpads \in Nat /\ workpads' \in Nat /\ workpads' >= workpads
  BY WorkpadsStay, LossesAssumption, MissesAssumption DEF TypeOK
<1>2. ASSUME pc' = "comment", found'
      PROVE  workpads' > 0
  <2>1. CASE Listed
    <3>1. (found' = (workpads > 0) \/ found' = FALSE) /\ workpads' = workpads
      BY <2>1 DEF Listed
    <3>2. workpads > 0
      BY <1>2, <3>1, Zenon
    <3>. QED  BY <3>1, <3>2
  <2>2. CASE pc = "comment" /\ found' = found
    <3>1. workpads > 0
      BY <1>2, <2>2 DEF MoveIsDocumented
    <3>. QED  BY <1>1, <3>1
  <2>. QED  BY <1>2, <2>1, <2>2, WaysToMove
<1>3. ASSUME pc' = "move"
      PROVE  workpads' > 0
  <2>1. CASE Commented
    <3>1. CASE found
      BY <1>1, <2>1, <3>1 DEF Commented, MoveIsDocumented
    <3>2. CASE ~found
      BY <1>1, <2>1, <3>2 DEF Commented, Written
    <3>. QED  BY <3>1, <3>2
  <2>2. CASE pc = "move"
    BY <1>1, <2>2 DEF MoveIsDocumented
  <2>. QED  BY <1>3, <2>1, <2>2, WaysToMove
<1>. QED  BY <1>2, <1>3 DEF MoveIsDocumented

LEMMA ConcludedLeft ==
    ASSUME NEW s, Conclude(s), outcome = "none", outcome' = "left"
    PROVE  s = "left"
BY DEF Conclude, EnterStop

LEMMA HandoffStep ==
    ASSUME TypeOK, MoveIsDocumented, Next
    PROVE  /\ pc = "move" /\ board' # board /\ pc' # "move" => workpads > 0
           /\ outcome = "none" /\ outcome' = "left" => board' = "left"
<1>1. pc = "move" => workpads > 0
  BY DEF MoveIsDocumented
<1>2. ASSUME outcome = "none", outcome' = "left"
      PROVE  board' = "left"
  <2>1. CASE Refreshed
    BY <1>2, <2>1, ConcludedLeft DEF Refreshed, world
  <2>2. CASE Moved
    BY <2>2 DEF Moved
  <2>3. CASE FallbackFails \/ CommentUnanswered
    BY <1>2, <2>3, ConcludedLeft DEF FallbackFails, CommentUnanswered
  <2>4. CASE StartFails \/ TurnFails \/ CutInSession
    BY <1>2, <2>4 DEF StartFails, TurnFails, CutInSession, EnterStop
  <2>. QED
    BY <1>2, <2>1, <2>2, <2>3, <2>4
    DEF Next, Proceed, Cancelled, Created, Prepared, PreparationFails, PlanNeedsHuman,
        Spawned, SessionStarted, ThreadMissing, TurnEnds, Listed, Commented,
        StopWaits, StopDrains, AfterRun, CutEarly, CutNestedLost, CutLost, ProcessDies,
        BoardMoves, AgentComments, Again
<1>. QED  BY <1>1, <1>2

LEMMA LeavingStep ==
    ASSUME TypeOK, ProcFitsPlace, CancelledLeaves, [Next]_vars
    PROVE  /\ CancelledLeaves'
           /\ struck \ {"nested"} # {} /\ pc # "done" =>
                 UNCHANGED <<turn, workpads>> /\ pc' \notin InSession
<1>. USE DEF BeforeSession, InSession, world, CancelledLeaves
<1>1. CASE BeforeStep
  BY <1>1 DEF BeforeStep, Created, Prepared, PreparationFails, PlanNeedsHuman, Spawned
<1>2. CASE StartStep
  BY <1>2 DEF StartStep, SessionStarted, StartFails, ThreadMissing
<1>3. CASE TurnStep
  BY <1>3 DEF TurnStep, TurnEnds, TurnFails, Refreshed
<1>4. CASE FallbackStep
  BY <1>4 DEF FallbackStep, Listed, FallbackFails, Commented, CommentUnanswered, Moved
<1>5. CASE StopStep
  BY <1>5 DEF StopStep, StopWaits, StopDrains, AfterRun, ProcessDies
<1>6. CASE Cancelled
  <2>1. CASE CutInSession
    BY <2>1, StopIsEntered DEF CutInSession
  <2>2. CASE CutEarly \/ CutNestedLost \/ CutLost
    BY <2>2 DEF CutEarly, CutNestedLost, CutLost
  <2>. QED  BY <1>6, <2>1, <2>2 DEF Cancelled
<1>7. CASE WorldStep
  BY <1>7 DEF WorldStep, BoardMoves, AgentComments, Again
<1>8. CASE UNCHANGED vars
  BY <1>8 DEF vars
<1>. QED  BY <1>1, <1>2, <1>3, <1>4, <1>5, <1>6, <1>7, <1>8, StepGroups

(* Over turns, lost answers, other people's moves and new attempts, the    *)
(* fallback never hands an issue off without a workpad, and no attempt     *)
(* ends as "left" on an issue that is still active.                        *)
THEOREM HandoffDocumented == Spec => HandoffIsDocumented
<1>1. Init => MoveIsDocumented
  BY DEF Init, MoveIsDocumented
<1>2. AttemptInv /\ MoveIsDocumented /\ [Next]_vars => MoveIsDocumented'
  BY DocumentedStep DEF AttemptInv
<1>3. AttemptInv /\ MoveIsDocumented /\ [Next]_vars =>
        [/\ pc = "move" /\ board' # board /\ pc' # "move" => workpads > 0
         /\ outcome = "none" /\ outcome' = "left" => board' = "left"]_vars
  BY HandoffStep DEF AttemptInv
<1>. QED  BY <1>1, <1>2, <1>3, AttemptInvInit, AttemptInvStep, PTL DEF Spec, HandoffIsDocumented

(* Wherever a cancellation strikes, and however often, what follows is     *)
(* only the way out, unless each one so far was swallowed while a session  *)
(* nested in the planning phase was closed.                                *)
THEOREM CancelIsFinal == Spec => CancelEndsWork
<1>1. Init => CancelledLeaves
  BY DEF Init, CancelledLeaves
<1>2. AttemptInv /\ CancelledLeaves /\ [Next]_vars => CancelledLeaves'
  BY LeavingStep DEF AttemptInv
<1>3. AttemptInv /\ CancelledLeaves /\ [Next]_vars =>
        [struck \ {"nested"} # {} /\ pc # "done" =>
            UNCHANGED <<turn, workpads>> /\ pc' \notin InSession]_vars
  BY LeavingStep DEF AttemptInv
<1>. QED  BY <1>1, <1>2, <1>3, AttemptInvInit, AttemptInvStep, PTL DEF Spec, CancelEndsWork
=============================================================================
