-------------------------- MODULE ServiceLoopProofs --------------------------
(***************************************************************************)
(* Theorems of ServiceLoop, for any number of clients, and of ConfigReload, *)
(* for any texts and any number of stamps: what every tick of the service  *)
(* begins with.                                                            *)
(***************************************************************************)
EXTENDS ServiceLoop, ConfigReload, TLAPS

-----------------------------------------------------------------------------
(* The service loop *)

Still == {"filed", "free"}

(* No timer before start() has restored it, none after the process went;   *)
(* what stop() found is cancelled, and its worker is awaited.              *)
IssueFitsPlace ==
    /\ main \in {"boot", "cleanup", "exited"} => issue \in Still
    /\ main = "stop" /\ ~late => issue \in Still \/ (issue = "worker" /\ awaited)
    /\ main \in {"closing", "cancelling"} /\ ~late => issue \in Still

ServiceInv == TypeOK /\ IssueFitsPlace /\ RefreshIsNotLost

(* Every step falls in one of these groups; the proofs go through them.    *)
ClientStep == \E c \in Clients :
                 Connect(c) \/ RequestOther(c) \/ RequestRefresh(c) \/ Disconnect(c)
IssueStep == Dispatch \/ TimerFires \/ TimerAnswered \/ WorkerEnds
LoopStep == Boot \/ CleanupDone \/ TickEnds \/ WakeUp \/ IntervalOver
EndStep == Leave \/ Stopped \/ Closed \/ Exit \/ Die \/ StartAgain

LEMMA StepGroups ==
    ASSUME [Next]_vars
    PROVE  ClientStep \/ IssueStep \/ LoopStep \/ EndStep \/ UNCHANGED vars
BY DEF Next, Loop, OnceEnds, ClientStep, IssueStep, LoopStep, EndStep

(* A process that is gone leaves a retry in the file or nothing.           *)
LEMMA LeftIsStill == ASSUME TypeOK PROVE Left(issue) \in Still
BY DEF Left, Still, TypeOK

(* The last cancellation leaves the clients that wait for an answer.       *)
LEMMA CancellingEffect ==
    ASSUME TypeOK, Cancelling
    PROVE  /\ main' = "cancelling" /\ awaited' \in BOOLEAN
           /\ issue' = IF issue = "timer" THEN "filed" ELSE issue
           /\ client' \in [Clients -> {"away", "reading", "writing"}]
BY DEF Cancelling

(* A step of a client moves that client, and at most sets the event.       *)
LEMMA ClientsTyping ==
    ASSUME TypeOK, ClientStep
    PROVE  /\ client' \in [Clients -> {"away", "reading", "writing"}]
           /\ UNCHANGED <<main, modes, issue, late, awaited>>
           /\ \/ UNCHANGED <<event, owed>>
              \/ event' = TRUE /\ owed' = TRUE
<1>1. PICK c \in Clients :
         Connect(c) \/ RequestOther(c) \/ RequestRefresh(c) \/ Disconnect(c)
  BY DEF ClientStep
<1>. QED  BY <1>1 DEF Connect, RequestOther, RequestRefresh, Disconnect, TypeOK

LEMMA ServiceTypingStep ==
    ASSUME ServiceInv, [Next]_vars
    PROVE  TypeOK'
<1>. USE DEF ServiceInv, modes, Places
<1>1. CASE ClientStep
  <2>1. /\ client' \in [Clients -> {"away", "reading", "writing"}]
        /\ UNCHANGED <<main, once, serving, waits, issue, late, awaited>>
    BY <1>1, ClientsTyping
  <2>2. event' \in BOOLEAN /\ owed' \in BOOLEAN
    BY <1>1, ClientsTyping DEF TypeOK
  <2>. QED  BY <2>1, <2>2 DEF TypeOK
<1>2. CASE IssueStep
  BY <1>2 DEF IssueStep, Dispatch, TimerFires, TimerAnswered, WorkerEnds, TypeOK
<1>3. CASE LoopStep
  BY <1>3 DEF LoopStep, Boot, CleanupDone, BeginPoll, TickEnds, Polled,
              WakeUp, IntervalOver, TypeOK
<1>4. CASE EndStep
  <2>1. CASE Leave
    BY <2>1 DEF Leave, Stop, TypeOK
  <2>2. CASE Stopped
    BY <2>2, CancellingEffect DEF Stopped, TypeOK
  <2>3. CASE Closed
    BY <2>3, CancellingEffect DEF Closed, TypeOK
  <2>3a. CASE Exit \/ Die
    BY <2>3a, LeftIsStill DEF Exit, Die, Gone, Nobody, Still, TypeOK
  <2>4. CASE StartAgain
    BY <2>4 DEF StartAgain, TypeOK
  <2>. QED  BY <1>4, <2>1, <2>2, <2>3, <2>3a, <2>4 DEF EndStep
<1>5. CASE UNCHANGED vars
  BY <1>5 DEF vars, TypeOK
<1>. QED  BY <1>1, <1>2, <1>3, <1>4, <1>5, StepGroups

LEMMA IssueFitsPlaceStep ==
    ASSUME ServiceInv, [Next]_vars
    PROVE  IssueFitsPlace'
<1>. USE DEF ServiceInv, modes, Still
<1>1. CASE ClientStep
  BY <1>1, ClientsTyping DEF IssueFitsPlace
<1>2. CASE IssueStep
  <2>1. CASE WorkerEnds
    BY <2>1 DEF WorkerEnds, IssueFitsPlace, TypeOK
  <2>2. CASE ~WorkerEnds
    BY <1>2, <2>2 DEF IssueStep, Dispatch, TimerFires, TimerAnswered, IssueFitsPlace, TypeOK
  <2>. QED  BY <2>1, <2>2
<1>3. CASE LoopStep
  BY <1>3 DEF LoopStep, Boot, CleanupDone, BeginPoll, TickEnds, Polled,
              WakeUp, IntervalOver, IssueFitsPlace, TypeOK
<1>4. CASE EndStep
  <2>1. CASE Leave
    <3>1. main' = "stop" /\ late' = (issue = "asking") /\ awaited' = (issue = "worker")
          /\ issue' = IF issue = "timer" THEN "filed" ELSE issue
      BY <2>1 DEF Leave, Stop
    <3>. QED  BY <3>1 DEF IssueFitsPlace, TypeOK
  <2>2. CASE Stopped \/ Closed
    BY <2>2, CancellingEffect DEF Stopped, Closed, IssueFitsPlace
  <2>3. CASE Exit \/ Die
    BY <2>3, LeftIsStill DEF Exit, Die, Gone, IssueFitsPlace
  <2>4. CASE StartAgain
    BY <2>4 DEF StartAgain, IssueFitsPlace
  <2>. QED  BY <1>4, <2>1, <2>2, <2>3, <2>4 DEF EndStep
<1>5. CASE UNCHANGED vars
  BY <1>5 DEF vars, IssueFitsPlace
<1>. QED  BY <1>1, <1>2, <1>3, <1>4, <1>5, StepGroups

(* The event is cleared only where a poll begins, which serves all that    *)
(* was asked for.                                                          *)
LEMMA RefreshStep ==
    ASSUME ServiceInv, [Next]_vars
    PROVE  RefreshIsNotLost'
<1>. USE DEF ServiceInv, modes, RefreshIsNotLost, Looping
<1>1. CASE ClientStep
  BY <1>1, ClientsTyping
<1>2. CASE IssueStep
  BY <1>2 DEF IssueStep, Dispatch, TimerFires, TimerAnswered, WorkerEnds
<1>3. CASE LoopStep
  BY <1>3 DEF LoopStep, Boot, CleanupDone, BeginPoll, TickEnds, Polled, WakeUp, IntervalOver
<1>4. CASE EndStep
  BY <1>4 DEF EndStep, Leave, Stop, Stopped, Closed, Cancelling, Exit, Die, Gone, StartAgain
<1>5. CASE UNCHANGED vars
  BY <1>5 DEF vars
<1>. QED  BY <1>1, <1>2, <1>3, <1>4, <1>5, StepGroups

LEMMA ServiceInvInit == Init => ServiceInv
BY DEF Init, Started, ServiceInv, TypeOK, Places, IssueFitsPlace, Still,
       RefreshIsNotLost, Looping

LEMMA ServiceInvStep == ServiceInv /\ [Next]_vars => ServiceInv'
BY ServiceTypingStep, IssueFitsPlaceStep, RefreshStep DEF ServiceInv

(* The variables of the service keep their types.                          *)
THEOREM ServiceTyping == Spec => []TypeOK
<1>1. ServiceInv => TypeOK
  BY DEF ServiceInv
<1>. QED  BY <1>1, ServiceInvInit, ServiceInvStep, PTL DEF Spec

(* A refresh that the status server accepted is not lost between two polls. *)
THEOREM RefreshKept == Spec => []RefreshIsNotLost
<1>1. ServiceInv => RefreshIsNotLost
  BY DEF ServiceInv
<1>. QED  BY <1>1, ServiceInvInit, ServiceInvStep, PTL DEF Spec

(* The removal of workspaces at startup has no worker beside it.           *)
THEOREM CleanupAlone == Spec => []CleanupIsAlone
<1>1. ServiceInv => CleanupIsAlone
  BY DEF ServiceInv, IssueFitsPlace, Still, CleanupIsAlone
<1>. QED  BY <1>1, ServiceInvInit, ServiceInvStep, PTL DEF Spec

(* After stop() nothing goes on that it could find.                        *)
THEOREM StopIsThorough == Spec => []StoppedIsStill
<1>1. ServiceInv => StoppedIsStill
  BY DEF ServiceInv, IssueFitsPlace, Still, StoppedIsStill
<1>. QED  BY <1>1, ServiceInvInit, ServiceInvStep, PTL DEF Spec

-----------------------------------------------------------------------------
(* The configuration in force *)

(* A text that was read was in the file, and the file is not forgotten.    *)
TextWasThere ==
    /\ file # Missing => file \in past
    /\ pc = "stamp" => text \in Texts /\ \E v \in past : v.text = text

ReloadInv == ReloadTypeOK /\ TextWasThere /\ LastKnownGoodIsKept

LEMMA FailsKeeps ==
    ASSUME ReloadInv, Fails, UNCHANGED <<file, past>>
    PROVE  ReloadInv'
<1>. USE DEF ReloadInv, Fails
<1>1. ReloadTypeOK'
  <2>1. error' \in BOOLEAN
    BY DEF HasLoaded
  <2>. QED  BY <2>1 DEF ReloadTypeOK
<1>2. TextWasThere'
  BY DEF TextWasThere
<1>3. LastKnownGoodIsKept'
  BY DEF LastKnownGoodIsKept, HasLoaded
<1>. QED  BY <1>1, <1>2, <1>3

LEMMA ManagerKeeps ==
    ASSUME ReloadInv, Manager
    PROVE  ReloadInv'
<1>1. CASE Look
  <2>1. CASE Fails
    BY <1>1, <2>1, FailsKeeps DEF Look
  <2>2. CASE ~Fails
    <3>1. pc' = "read" /\ UNCHANGED <<loaded, error, text, file, past>>
      BY <1>1, <2>2 DEF Look
    <3>. QED  BY <3>1 DEF ReloadInv, ReloadTypeOK, TextWasThere, LastKnownGoodIsKept, HasLoaded
  <2>. QED  BY <2>1, <2>2
<1>2. CASE Read
  <2>1. CASE file = Missing
    BY <1>2, <2>1, FailsKeeps DEF Read
  <2>2. CASE file # Missing
    <3>1. pc' = "stamp" /\ text' = file.text /\ UNCHANGED <<loaded, error, file, past>>
      BY <1>2, <2>2 DEF Read
    <3>2. file \in Versions /\ file \in past
      BY <2>2 DEF ReloadInv, ReloadTypeOK, TextWasThere
    <3>3. file.text \in Texts
      BY <3>2 DEF Versions
    <3>. QED  BY <3>1, <3>2, <3>3
              DEF ReloadInv, ReloadTypeOK, TextWasThere, LastKnownGoodIsKept, HasLoaded
  <2>. QED  BY <2>1, <2>2
<1>3. CASE Stamp
  <2>1. CASE ~Valid(text)
    BY <1>3, <2>1, FailsKeeps DEF Stamp
  <2>2. CASE Valid(text)
    <3>1. /\ pc = "stamp" /\ pc' = "idle" /\ text' = "none" /\ error' = FALSE
          /\ loaded' = [text |-> text, stamp |-> file.stamp]
          /\ UNCHANGED <<file, past>>
      BY <1>3, <2>2 DEF Stamp
    <3>2. text \in Good /\ \E v \in past : v.text = text
      BY <2>2, <3>1 DEF Valid, ReloadInv, TextWasThere
    <3>3. file.stamp \in 0 .. MaxStamp
      BY StampAssumption DEF ReloadInv, ReloadTypeOK, Versions, Missing
    <3>4. ReloadTypeOK'
      BY <3>1, <3>2, <3>3 DEF ReloadInv, ReloadTypeOK, Texts
    <3>5. TextWasThere'
      BY <3>1 DEF ReloadInv, TextWasThere
    <3>6. LastKnownGoodIsKept'
      BY <3>1, <3>2 DEF LastKnownGoodIsKept
    <3>. QED  BY <3>4, <3>5, <3>6 DEF ReloadInv
  <2>. QED  BY <2>1, <2>2
<1>. QED  BY <1>1, <1>2, <1>3 DEF Manager

(* Whatever people put in its place, the file is a version or missing.     *)
LEMMA PeoplePut ==
    ASSUME ReloadInv, People
    PROVE  \E v \in Versions \union {Missing} : Put(v)
<1>1. CASE SaveAtOnce
  <2>1. PICK t \in Texts : Put([file EXCEPT !.text = t])
    BY <1>1 DEF SaveAtOnce
  <2>2. file \in Versions
    BY <1>1 DEF SaveAtOnce, ReloadInv, ReloadTypeOK
  <2>3. [file EXCEPT !.text = t] \in Versions
    BY <2>1, <2>2 DEF Versions
  <2>. QED  BY <2>1, <2>3
<1>2. CASE Save \/ MoveAway \/ MoveBack
  BY <1>2 DEF Save, MoveAway, MoveBack, ReloadInv, ReloadTypeOK
<1>. QED  BY <1>1, <1>2 DEF People

LEMMA PeopleKeep ==
    ASSUME ReloadInv, People
    PROVE  ReloadInv'
<1>1. PICK v \in Versions \union {Missing} : Put(v)
  BY PeoplePut
<1>2. /\ file' = v /\ past' = past \union ({v} \ {Missing})
      /\ UNCHANGED <<loaded, error, pc, text>>
  BY <1>1 DEF Put, manager
<1>3. ReloadTypeOK'
  BY <1>1, <1>2 DEF ReloadInv, ReloadTypeOK
<1>4. TextWasThere'
  BY <1>2 DEF ReloadInv, TextWasThere
<1>5. LastKnownGoodIsKept'
  BY <1>2 DEF ReloadInv, LastKnownGoodIsKept, HasLoaded
<1>. QED  BY <1>3, <1>4, <1>5 DEF ReloadInv

LEMMA ReloadInvInit == ReloadInit => ReloadInv
<1>. SUFFICES ASSUME ReloadInit PROVE ReloadInv
  OBVIOUS
<1>1. PICK t \in Texts : file = [text |-> t, stamp |-> 1]
  BY DEF ReloadInit
<1>2. file \in Versions
  BY <1>1, StampAssumption DEF Versions
<1>. QED  BY <1>2 DEF ReloadInit, ReloadInv, ReloadTypeOK, TextWasThere, LastKnownGoodIsKept, HasLoaded

LEMMA ReloadInvStep == ReloadInv /\ [ReloadNext]_reloadVars => ReloadInv'
<1>1. ASSUME ReloadInv, UNCHANGED reloadVars PROVE ReloadInv'
  BY <1>1 DEF reloadVars, manager, ReloadInv, ReloadTypeOK, TextWasThere, LastKnownGoodIsKept, HasLoaded
<1>. QED  BY <1>1, ManagerKeeps, PeopleKeep DEF ReloadNext

(* The variables of the configuration manager keep their types.            *)
THEOREM ReloadTyping == ReloadSpec => []ReloadTypeOK
<1>1. ReloadInv => ReloadTypeOK
  BY DEF ReloadInv
<1>. QED  BY <1>1, ReloadInvInit, ReloadInvStep, PTL DEF ReloadSpec

(* What is in force was in the file and is valid, whatever is done to the  *)
(* file between any two system calls of a reload.                          *)
THEOREM OnlyGoodInForce == ReloadSpec => []LastKnownGoodIsKept
<1>1. ReloadInv => LastKnownGoodIsKept
  BY DEF ReloadInv
<1>. QED  BY <1>1, ReloadInvInit, ReloadInvStep, PTL DEF ReloadSpec
=============================================================================
