------------------------ MODULE TrackerGatewayProofs ------------------------
(***************************************************************************)
(* Theorems of TrackerGateway, for any number of attempts.                 *)
(***************************************************************************)
EXTENDS TrackerGateway, TLAPS

(* Which state the app-server is in at each place of the call.             *)
ServerFitsPlace ==
    /\ pc \in Requests => server \in {"alive", "exited"}
    /\ pc = "stderr" => server = "exited"
    /\ pc = "terminate" => server \in {"signalled", "dead"}
    /\ pc = "kill" => server = "killed"
    /\ pc \in {"sleep", "spawn"} => server \in {"none", "exited", "dead"}

(* What has been concluded at each place, and what a retry stands on.      *)
VerdictFitsPlace ==
    /\ pc \in Requests \union {"stderr", "spawn"} => verdict = "none"
    /\ pc = "sleep" => verdict = "again"
    /\ verdict = "again" => attempt < Attempts

(* Where the runs of the tool stand: all but the one of this attempt were  *)
(* lost, and so was that one if the call is made anew.                     *)
RunsMatch ==
    /\ ran => asked
    /\ asked => pc \notin {"spawn", "initialize", "thread"}
    /\ runs = lost \/ (ran /\ runs = lost + 1)
    /\ ran /\ pc \in {"tool", "stderr"} => runs = lost + 1
    /\ verdict = "again" => runs = lost
    /\ runs <= attempt
    /\ ~ran => runs < attempt

GatewayInv ==
    /\ TypeOK
    /\ ServerFitsPlace
    /\ NoServerIsLeft
    /\ VerdictFitsPlace
    /\ RefusalIsTold
    /\ RunsMatch

(* Every step falls in one of these groups; the proofs go through them.    *)
ReadStep ==
    \/ ReadFails \/ ReadFailsUntyped \/ ReadEnd \/ StderrRead
    \/ \E line \in Lines : ReadOther(line) \/ ReadResponse(line) \/ ReadAnswer(line)
CallStep == Spawn \/ Terminated \/ Kill \/ Killed \/ Retry \/ Cancel \/ CallAgain
ServerStep == ToolRuns \/ ServerExits \/ ServerObeys \/ ServerChats

LEMMA StepGroups ==
    ASSUME [Next]_vars
    PROVE  ReadStep \/ CallStep \/ ServerStep \/ UNCHANGED vars
BY DEF Next, Gateway, ReadStep, CallStep, ServerStep

Verdicts == {"answer", "again", "raise", "untyped", "cancelled"}

(* The finally: the server is signalled, or is gone and the call goes on.  *)
LEMMA FinallyEnds ==
    ASSUME TypeOK, ServerFitsPlace, pc \in Requests \union {"stderr"},
           NEW v \in Verdicts, Finally(v)
    PROVE  /\ verdict' = v
           /\ \/ pc' = "terminate" /\ server' = "signalled"
              \/ pc' = "sleep" /\ server' = "exited" /\ v = "again"
              \/ pc' = "ended" /\ server' = "exited" /\ v # "again"
BY DEF Finally, Conclude, ServerFitsPlace, TypeOK

LEMMA VerdictKinds ==
    ASSUME TypeOK, NEW b \in BOOLEAN
    PROVE  /\ VerdictOf(b) \in {"again", "raise"}
           /\ VerdictOf(b) = "again" => b /\ attempt < Attempts
BY DEF VerdictOf

(* What a step that reads a line or fails to do so may come to.            *)
Concludes(v) ==
    /\ verdict' = v
    /\ \/ pc' = "terminate" /\ server' = "signalled"
       \/ pc' = "sleep" /\ server' = "exited" /\ v = "again"
       \/ pc' = "ended" /\ server' = "exited" /\ v # "again"

ReadsOn == pc \in Requests /\ UNCHANGED <<pc, verdict, server, asked, lost, refused>>

SeesEnd == /\ pc \in Requests /\ server = "exited" /\ pc' = "stderr"
           /\ UNCHANGED <<verdict, server, asked, lost, refused>>

Advances == /\ pc \in {"initialize", "thread"} /\ pc' \in {"thread", "tool"}
            /\ asked' = (pc' = "tool")
            /\ UNCHANGED <<verdict, server, lost, refused>>

Breaks == /\ pc \in {"initialize", "thread"} /\ pc' = "ended"
          /\ verdict' = "untyped" /\ server' = "exited"
          /\ UNCHANGED <<asked, lost, refused>>

FailsOrRetries ==
    /\ pc \in Requests \union {"stderr"}
    /\ lost' = IF ran THEN lost + 1 ELSE lost
    /\ Concludes("raise") \/ (Concludes("again") /\ attempt < Attempts)
    /\ UNCHANGED <<asked, refused>>

EndsCall == /\ pc \in Requests
            /\ Concludes("answer") \/ Concludes("untyped")
            /\ UNCHANGED <<asked, lost, refused>>

IsRefused == /\ pc = "tool" /\ ~ran
             /\ Concludes("raise") /\ refused' = TRUE
             /\ UNCHANGED <<asked, lost>>

LEMMA ReadStepEffect ==
    ASSUME GatewayInv, ReadStep
    PROVE  /\ UNCHANGED <<attempt, chats, holds, ran, runs, struck>>
           /\ \/ ReadsOn \/ SeesEnd \/ Advances \/ Breaks
              \/ FailsOrRetries \/ EndsCall \/ IsRefused
<1>. USE DEF GatewayInv, tool, call, Verdicts
<1>1. ASSUME NEW v \in Verdicts, Finally(v), pc \in Requests \union {"stderr"}
      PROVE  Concludes(v)
  BY <1>1, FinallyEnds DEF Concludes
<1>2. ASSUME Fail(TRUE), pc \in Requests \union {"stderr"}, UNCHANGED <<asked, refused>>
      PROVE  FailsOrRetries
  <2>1. Concludes(VerdictOf(TRUE))
    BY <1>1, <1>2, VerdictKinds DEF Fail
  <2>. QED  BY <1>2, <2>1, VerdictKinds DEF Fail, FailsOrRetries
<1>3. CASE ReadFails \/ StderrRead
  BY <1>2, <1>3 DEF ReadFails, StderrRead
<1>4. CASE ReadFailsUntyped
  BY <1>1, <1>4 DEF ReadFailsUntyped, EndsCall
<1>5. CASE ReadEnd
  BY <1>5 DEF ReadEnd, SeesEnd
<1>6. ASSUME NEW line \in Lines, ReadOther(line)
      PROVE  UNCHANGED <<attempt, chats, holds, ran, runs, struck>> /\ ReadsOn
  BY <1>6 DEF ReadOther, IsResponse, Lines, ReadsOn
<1>7. ASSUME NEW line \in Lines, ReadResponse(line)
      PROVE  /\ UNCHANGED <<attempt, chats, holds, ran, runs, struck>>
             /\ FailsOrRetries \/ Advances \/ Breaks
  <2>1. CASE line.body = "error"
    <3>1. /\ pc \in {"initialize", "thread"} /\ Finally(VerdictOf(TRUE))
          /\ UNCHANGED <<attempt, chats, holds, struck, tool>>
      BY <1>7, <2>1 DEF ReadResponse
    <3>2. ~ran
      BY <3>1 DEF RunsMatch
    <3>3. Fail(TRUE)
      BY <3>1, <3>2 DEF Fail
    <3>. QED  BY <1>2, <3>1, <3>3 DEF Requests
  <2>2. CASE line.body # "error"
    BY <1>7, <2>2 DEF ReadResponse, Advances, Breaks
  <2>. QED  BY <2>1, <2>2
<1>8. ASSUME NEW line \in Lines, ReadAnswer(line)
      PROVE  /\ UNCHANGED <<attempt, chats, holds, ran, runs, struck>>
             /\ FailsOrRetries \/ EndsCall \/ IsRefused
  <2>1. pc = "tool" /\ pc \in Requests
        /\ UNCHANGED <<attempt, chats, holds, asked, ran, runs, struck>>
    BY <1>8 DEF ReadAnswer, Requests
  <2>2. CASE line.body = "result"
    <3>1. Finally("answer") /\ UNCHANGED <<lost, refused>>
      BY <1>8, <2>2 DEF ReadAnswer
    <3>. QED  BY <1>1, <2>1, <3>1 DEF EndsCall
  <2>3. CASE line.body = "refusal"
    <3>1. Finally(VerdictOf(FALSE)) /\ UNCHANGED lost /\ refused' = TRUE /\ ~ran
      BY <1>8, <2>1, <2>3 DEF ReadAnswer, Fail, Written
    <3>2. VerdictOf(FALSE) = "raise"
      BY DEF VerdictOf
    <3>. QED  BY <1>1, <2>1, <3>1, <3>2 DEF IsRefused
  <2>4. CASE line.body \notin {"result", "refusal"}
    <3>1. Fail(TRUE) /\ UNCHANGED refused
      BY <1>8, <2>4 DEF ReadAnswer
    <3>. QED  BY <1>2, <2>1, <3>1
  <2>. QED  BY <2>1, <2>2, <2>3, <2>4
<1>. QED  BY <1>3, <1>4, <1>5, <1>6, <1>7, <1>8
          DEF ReadStep, ReadFails, StderrRead, ReadFailsUntyped, ReadEnd

LEMMA GatewayTypingStep ==
    ASSUME GatewayInv, [Next]_vars
    PROVE  TypeOK'
<1>. USE AttemptsAssumption DEF GatewayInv, Requests, Waits, TypeOK
<1>1. CASE ReadStep
  <2>1. CASE FailsOrRetries
    <3>1. lost' \in 0 .. Attempts
      BY <2>1 DEF FailsOrRetries, RunsMatch
    <3>. QED  BY <1>1, <2>1, <3>1, ReadStepEffect DEF FailsOrRetries, Concludes
  <2>2. CASE ReadsOn \/ SeesEnd \/ Advances \/ Breaks
    <3>1. CASE ReadsOn \/ SeesEnd
      BY <1>1, <3>1, ReadStepEffect DEF ReadsOn, SeesEnd
    <3>2. CASE Advances
      BY <1>1, <3>2, ReadStepEffect DEF Advances
    <3>3. CASE Breaks
      BY <1>1, <3>3, ReadStepEffect DEF Breaks
    <3>. QED  BY <2>2, <3>1, <3>2, <3>3
  <2>3. CASE EndsCall
    BY <1>1, <2>3, ReadStepEffect DEF EndsCall, Concludes
  <2>4. CASE IsRefused
    BY <1>1, <2>4, ReadStepEffect DEF IsRefused, Concludes
  <2>. QED  BY <1>1, <2>1, <2>2, <2>3, <2>4, ReadStepEffect
<1>2. CASE CallStep
  <2>1. CASE Spawn \/ Terminated \/ Kill \/ Killed
    BY <2>1 DEF Spawn, Terminated, Kill, Killed, Conclude, call, tool
  <2>2. CASE Retry
    <3>1. attempt' \in 1 .. Attempts
      BY <2>2 DEF Retry, VerdictFitsPlace
    <3>. QED  BY <2>2, <3>1 DEF Retry
  <2>3. CASE Cancel
    BY <2>3 DEF Cancel, Finally, Conclude, tool
  <2>4. CASE CallAgain
    <3>1. attempt' \in 1 .. Attempts /\ runs' \in 0 .. Attempts /\ lost' \in 0 .. Attempts
      BY <2>4 DEF CallAgain
    <3>. QED  BY <2>4, <3>1 DEF CallAgain
  <2>. QED  BY <1>2, <2>1, <2>2, <2>3, <2>4 DEF CallStep
<1>3. CASE ServerStep
  <2>1. CASE ToolRuns
    <3>1. runs' \in 0 .. Attempts /\ lost' \in 0 .. Attempts
      BY <2>1 DEF ToolRuns, RunsMatch
    <3>. QED  BY <2>1, <3>1 DEF ToolRuns, call
  <2>2. CASE ServerExits
    BY <2>2 DEF ServerExits, call, tool
  <2>3. CASE ServerObeys
    BY <2>3 DEF ServerObeys, call, tool
  <2>4. CASE ServerChats
    BY <2>4 DEF ServerChats, call, tool
  <2>. QED  BY <1>3, <2>1, <2>2, <2>3, <2>4 DEF ServerStep
<1>4. CASE UNCHANGED vars
  BY <1>4 DEF vars, call, tool
<1>. QED  BY <1>1, <1>2, <1>3, <1>4, StepGroups

LEMMA ServerStepFits ==
    ASSUME GatewayInv, [Next]_vars
    PROVE  ServerFitsPlace' /\ NoServerIsLeft'
<1>. USE DEF GatewayInv, ServerFitsPlace, NoServerIsLeft, Requests, Waits
<1>1. CASE ReadStep
  BY <1>1, ReadStepEffect
     DEF ReadsOn, SeesEnd, Advances, Breaks, FailsOrRetries, EndsCall, IsRefused, Concludes
<1>2. CASE CallStep
  <2>1. CASE Cancel
    BY <2>1 DEF Cancel, Finally, Conclude, TypeOK
  <2>2. CASE ~Cancel
    BY <1>2, <2>2 DEF CallStep, Spawn, Terminated, Kill, Killed, Retry, CallAgain,
                      Conclude, TypeOK
  <2>. QED  BY <2>1, <2>2
<1>3. CASE ServerStep
  BY <1>3 DEF ServerStep, ToolRuns, ServerExits, ServerObeys, ServerChats, call, tool
<1>4. CASE UNCHANGED vars
  BY <1>4 DEF vars, call
<1>. QED  BY <1>1, <1>2, <1>3, <1>4, StepGroups

LEMMA VerdictStepFits ==
    ASSUME GatewayInv, [Next]_vars
    PROVE  VerdictFitsPlace' /\ RefusalIsTold'
<1>. USE DEF GatewayInv, VerdictFitsPlace, RefusalIsTold, Requests, Waits
<1>1. CASE ReadStep
  <2>1. verdict = "none" /\ ~refused
    BY <1>1, ReadStepEffect
       DEF ReadsOn, SeesEnd, Advances, Breaks, FailsOrRetries, EndsCall, IsRefused
  <2>2. CASE FailsOrRetries
    BY <1>1, <2>1, <2>2, ReadStepEffect DEF FailsOrRetries, Concludes
  <2>3. CASE ReadsOn \/ SeesEnd \/ Advances \/ Breaks
    BY <1>1, <2>1, <2>3, ReadStepEffect DEF ReadsOn, SeesEnd, Advances, Breaks
  <2>4. CASE EndsCall \/ IsRefused
    BY <1>1, <2>1, <2>4, ReadStepEffect DEF EndsCall, IsRefused, Concludes
  <2>. QED  BY <1>1, <2>2, <2>3, <2>4, ReadStepEffect
<1>2. CASE CallStep
  <2>1. CASE Cancel
    BY <2>1 DEF Cancel, Finally, Conclude, tool
  <2>2. CASE ~Cancel
    BY <1>2, <2>2 DEF CallStep, Spawn, Terminated, Kill, Killed, Retry, CallAgain,
                      Conclude, tool
  <2>. QED  BY <2>1, <2>2
<1>3. CASE ServerStep
  BY <1>3 DEF ServerStep, ToolRuns, ServerExits, ServerObeys, ServerChats, call, tool
<1>4. CASE UNCHANGED vars
  BY <1>4 DEF vars, call, tool
<1>. QED  BY <1>1, <1>2, <1>3, <1>4, StepGroups

LEMMA RunsStepMatch ==
    ASSUME GatewayInv, [Next]_vars
    PROVE  RunsMatch'
<1>. USE AttemptsAssumption DEF GatewayInv, RunsMatch, Requests, TypeOK
<1>1. CASE ReadStep
  <2>1. verdict = "none" /\ (ran => pc \in {"tool", "stderr"})
    BY <1>1, ReadStepEffect DEF VerdictFitsPlace,
       ReadsOn, SeesEnd, Advances, Breaks, FailsOrRetries, EndsCall, IsRefused
  <2>2. CASE FailsOrRetries
    BY <1>1, <2>1, <2>2, ReadStepEffect DEF FailsOrRetries, Concludes
  <2>3. CASE ReadsOn \/ SeesEnd
    BY <1>1, <2>1, <2>3, ReadStepEffect DEF ReadsOn, SeesEnd
  <2>4. CASE Advances \/ Breaks
    BY <1>1, <2>1, <2>4, ReadStepEffect DEF Advances, Breaks
  <2>5. CASE EndsCall
    BY <1>1, <2>1, <2>5, ReadStepEffect DEF EndsCall, Concludes
  <2>6. CASE IsRefused
    BY <1>1, <2>1, <2>6, ReadStepEffect DEF IsRefused, Concludes
  <2>. QED  BY <1>1, <2>2, <2>3, <2>4, <2>5, <2>6, ReadStepEffect
<1>2. CASE CallStep
  <2>1. CASE Cancel
    BY <2>1 DEF Cancel, Finally, Conclude, tool
  <2>2. CASE Retry
    BY <2>2 DEF Retry, VerdictFitsPlace
  <2>3. CASE Spawn \/ Terminated \/ Kill \/ Killed \/ CallAgain
    BY <2>3 DEF Spawn, Terminated, Kill, Killed, CallAgain, Conclude, tool
  <2>. QED  BY <1>2, <2>1, <2>2, <2>3 DEF CallStep
<1>3. CASE ServerStep
  <2>1. CASE ToolRuns
    <3>1. pc # "stderr" /\ (pc = "tool" => verdict = "none")
      BY <2>1 DEF ToolRuns, ServerFitsPlace, VerdictFitsPlace
    <3>. QED  BY <2>1, <3>1 DEF ToolRuns, call
  <2>2. CASE ServerExits \/ ServerObeys \/ ServerChats
    BY <2>2 DEF ServerExits, ServerObeys, ServerChats, call, tool
  <2>. QED  BY <1>3, <2>1, <2>2 DEF ServerStep
<1>4. CASE UNCHANGED vars
  BY <1>4 DEF vars, call, tool
<1>. QED  BY <1>1, <1>2, <1>3, <1>4, StepGroups

LEMMA GatewayInvInit == Init => GatewayInv
<1>. SUFFICES ASSUME Init PROVE GatewayInv
  OBVIOUS
<1>. USE AttemptsAssumption DEF Init, Requests
<1>1. TypeOK
  <2>1. attempt \in 1 .. Attempts /\ runs \in 0 .. Attempts /\ lost \in 0 .. Attempts
    OBVIOUS
  <2>. QED  BY <2>1 DEF TypeOK, Waits
<1>2. ServerFitsPlace /\ NoServerIsLeft /\ VerdictFitsPlace /\ RefusalIsTold
  BY DEF ServerFitsPlace, NoServerIsLeft, VerdictFitsPlace, RefusalIsTold
<1>3. RunsMatch
  BY DEF RunsMatch
<1>. QED  BY <1>1, <1>2, <1>3 DEF GatewayInv

LEMMA GatewayInvStep == GatewayInv /\ [Next]_vars => GatewayInv'
BY GatewayTypingStep, ServerStepFits, VerdictStepFits, RunsStepMatch DEF GatewayInv

(* Every variable of a call keeps its type, however often it is retried.   *)
THEOREM GatewayTyping == Spec => []TypeOK
<1>1. GatewayInv => TypeOK
  BY DEF GatewayInv
<1>. QED  BY <1>1, GatewayInvInit, GatewayInvStep, PTL DEF Spec

(* Once an attempt is over its app-server is gone, unless the call was     *)
(* cancelled while it awaited that.                                        *)
THEOREM ServerEnded == Spec => []NoServerIsLeft
<1>1. GatewayInv => NoServerIsLeft
  BY DEF GatewayInv
<1>. QED  BY <1>1, GatewayInvInit, GatewayInvStep, PTL DEF Spec

(* A tool runs once, and once more for each answer that was lost.          *)
THEOREM RunsAccounted == Spec => []RunsAreAccounted
<1>1. GatewayInv => RunsAreAccounted
  BY DEF GatewayInv, RunsMatch, RunsAreAccounted, TypeOK
<1>. QED  BY <1>1, GatewayInvInit, GatewayInvStep, PTL DEF Spec

(* A refusal is passed on, and the tool is not asked again.                *)
THEOREM RefusalTold == Spec => []RefusalIsTold
<1>1. GatewayInv => RefusalIsTold
  BY DEF GatewayInv
<1>. QED  BY <1>1, GatewayInvInit, GatewayInvStep, PTL DEF Spec
=============================================================================
