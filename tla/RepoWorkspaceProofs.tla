------------------------- MODULE RepoWorkspaceProofs -------------------------
(***************************************************************************)
(* Theorems of RepoWorkspace, for any repositories and branches.           *)
(***************************************************************************)
EXTENDS RepoWorkspace, TLAPS

(* A clone that was left running has made its directory.                   *)
OrphansShow == \A r \in orphans : checkout[r] # "absent"

(* What the checkout in hand is at each step of git: nobody else works on  *)
(* one that this attempt has cloned, but it may be taken away.             *)
CurrentFitsStep ==
    /\ pc \in GitSteps => todo # {}
    /\ pc \in {"clone", "set_remote", "fetch", "checkout", "configure"} => Current \notin orphans
    /\ pc = "clone" => checkout[Current] = "absent"
    /\ pc \in {"fetch", "checkout", "configure", "branch_read"} =>
          Matches(Current) \/ checkout[Current] = "absent"

(* A planned repository that is done with has its guard.                   *)
DoneIsGuarded ==
    /\ pc = "agent" => todo = {}
    /\ pc \in GitSteps \union {"ensure", "agent"} =>
          \A r \in plan \ todo : checkout[r] = "absent" \/ (Matches(r) /\ r \in guarded)

WorkspaceInv ==
    TypeOK /\ OrphansShow /\ CurrentFitsStep /\ DoneIsGuarded /\ PushesStayOnIssueBranch

(* Every step falls in one of these groups; the proofs go through them.    *)
SetupStep == Create \/ Hooked \/ Ensure \/ \E p \in SUBSET Repos : Plan(p)
GitStep == GitDone \/ Configured \/ BranchRead
GivenUp == Vanished \/ Reaped \/ Trouble
AgentStep ==
    \/ AgentStrays \/ AgentEnds
    \/ \E r \in Repos : AgentWorks(r)
    \/ \E r \in Repos, verified \in BOOLEAN, current, remote \in Branches,
          local \in Branches \union {"HEAD"} : AgentPushes(r, verified, current, local, remote)
OrphanStep == \E r \in Repos : OrphanEnds(r) \/ AdriftFails(r)
RemovalStep == RemoveStarts \/ Removed

LEMMA StepGroups ==
    ASSUME [Next]_vars
    PROVE  SetupStep \/ GitStep \/ GivenUp \/ AgentStep \/ OrphanStep \/ RemovalStep
           \/ UNCHANGED vars
BY DEF Next, Attempt, SetupStep, GitStep, GivenUp, AgentStep, OrphanStep, RemovalStep

LEMMA CurrentIsPlanned == ASSUME TypeOK, todo # {} PROVE Current \in todo /\ Current \in Repos
BY DEF Current, TypeOK

(* What git leaves at the checkout in hand, and nowhere else.              *)
LEMMA GitEffects ==
    ASSUME WorkspaceInv, pc \in GitSteps, GitEffect
    PROVE  /\ checkout' \in [Repos -> Checkouts]
           /\ \A r \in Repos : r # Current => checkout'[r] = checkout[r]
           /\ checkout[Current] # "absent" \/ pc = "clone" => checkout'[Current] # "absent"
           /\ pc \in {"set_remote", "fetch", "checkout"} =>
                 checkout'[Current] \in {"absent", "unprepared", "prepared"}
           /\ pc = "clone" => checkout'[Current] = CloneOf(Current)
<1>1. Current \in Repos
  BY CurrentIsPlanned DEF WorkspaceInv, CurrentFitsStep
<1>. USE DEF WorkspaceInv, GitSteps, GitEffect, Becomes, CloneOf, Checkouts, InPlace
<1>2. CASE pc \in {"clone", "set_remote", "checkout"}
  BY <1>1, <1>2 DEF TypeOK
<1>3. CASE pc \notin {"clone", "set_remote", "checkout"}
  BY <1>1, <1>3 DEF TypeOK, CurrentFitsStep, Matches
<1>. QED  BY <1>2, <1>3

LEMMA SetAsideEffect ==
    ASSUME WorkspaceInv, SetAside
    PROVE  /\ root' = "clean" /\ checkout' = NoCheckouts /\ guarded' = {} /\ orphans' = {}
           /\ adrift' \subseteq Repos /\ saved' \subseteq Repos /\ work' = {}
           /\ UNCHANGED <<dir, push>>
BY DEF SetAside, WorkspaceInv, TypeOK

LEMMA SetupKeeps ==
    ASSUME WorkspaceInv, SetupStep
    PROVE  WorkspaceInv'
<1>. USE DEF WorkspaceInv, GitSteps, OrphansShow, PushesStayOnIssueBranch, Matches
<1>1. CASE Create
  BY <1>1 DEF Create, TypeOK, CurrentFitsStep, DoneIsGuarded, agent, Current
<1>2. CASE Hooked
  BY <1>2 DEF Hooked, TypeOK, CurrentFitsStep, DoneIsGuarded, agent, disk, Current
<1>3. CASE Ensure
  <2>1. UNCHANGED <<plan, todo, dir, root, repos, checkout, guarded, orphans, adrift, work, saved, push>>
    BY <1>3 DEF Ensure, disk, agent
  <2>2. /\ pc = "ensure"
        /\ pc' \in {"agent", "clone", "branch_read", "idle"}
        /\ pc' = "agent" <=> todo = {}
        /\ pc' = "clone" => checkout[Current] = "absent"
        /\ pc' = "branch_read" => Matches(Current)
    BY <1>3 DEF Ensure
  <2>3. pc' = "clone" => Current \notin orphans
    BY <2>2
  <2>. QED  BY <2>1, <2>2, <2>3 DEF TypeOK, CurrentFitsStep, DoneIsGuarded, Current
<1>4. CASE \E p \in SUBSET Repos : Plan(p)
  <2>1. PICK p \in SUBSET Repos : Plan(p)
    BY <1>4
  <2>2. CASE p = {}
    BY <2>1, <2>2 DEF Plan, TypeOK, CurrentFitsStep, DoneIsGuarded, agent, disk
  <2>3. CASE p # {} /\ NeedsQuarantine(p)
    <3>1. /\ pc' = "ensure" /\ plan' = p /\ todo' = p /\ repos' = TRUE /\ SetAside
      BY <2>1, <2>3 DEF Plan
    <3>2. NoCheckouts \in [Repos -> Checkouts]
      BY DEF NoCheckouts, Checkouts
    <3>. QED  BY <3>1, <3>2, SetAsideEffect DEF TypeOK, CurrentFitsStep, DoneIsGuarded
  <2>4. CASE p # {} /\ ~NeedsQuarantine(p)
    <3>1. /\ pc' = "ensure" /\ plan' = p /\ todo' = p /\ repos' = TRUE
          /\ UNCHANGED <<dir, root, checkout, guarded, orphans, adrift, work, saved, push>>
      BY <2>1, <2>4 DEF Plan, agent
    <3>. QED  BY <3>1 DEF TypeOK, CurrentFitsStep, DoneIsGuarded
  <2>. QED  BY <2>2, <2>3, <2>4
<1>. QED  BY <1>1, <1>2, <1>3, <1>4 DEF SetupStep

LEMMA GitKeeps ==
    ASSUME WorkspaceInv, GitStep
    PROVE  WorkspaceInv'
<1>. USE DEF WorkspaceInv, OrphansShow, PushesStayOnIssueBranch, Matches
<1>1. todo # {} /\ Current \in todo /\ Current \in Repos
  BY CurrentIsPlanned DEF GitStep, GitDone, Configured, BranchRead, CurrentFitsStep, GitSteps
<1>2. CASE GitDone
  <2>1. /\ UNCHANGED <<plan, todo, dir, root, repos, guarded, orphans, adrift, work, saved, push>>
        /\ pc \in {"clone", "set_remote", "fetch", "checkout"} /\ GitEffect
        /\ pc = "clone" \/ checkout[Current] # "absent"
        /\ pc' = Continuation
    BY <1>2 DEF GitDone, agent, InPlace
  <2>2. pc \in GitSteps
    BY <2>1 DEF GitSteps
  <2>3. Current' = Current
    BY <2>1 DEF Current
  <2>4. /\ pc' \in {"set_remote", "fetch", "checkout", "configure"}
        /\ pc = "clone" /\ pc' = "fetch" => CloneOf(Current) = "unprepared"
    BY <2>1 DEF Continuation, CloneOf
  <2>5. TypeOK'
    BY <2>1, <2>2, <2>4, GitEffects DEF TypeOK, GitSteps
  <2>6. OrphansShow'
    BY <2>1, <2>2, GitEffects DEF TypeOK, CurrentFitsStep
  <2>7. CurrentFitsStep'
    BY <1>1, <2>1, <2>2, <2>3, <2>4, GitEffects DEF CurrentFitsStep, GitSteps, Continuation
  <2>8. DoneIsGuarded'
    BY <1>1, <2>1, <2>2, <2>4, GitEffects DEF DoneIsGuarded, GitSteps, TypeOK
  <2>. QED  BY <2>1, <2>5, <2>6, <2>7, <2>8
<1>3. CASE Configured \/ BranchRead
  <2>1. /\ pc' = "ensure" /\ todo' = todo \ {Current} /\ guarded' = guarded \union {Current}
        /\ pc \in {"configure", "branch_read"}
        /\ UNCHANGED <<plan, dir, root, repos, checkout, orphans, adrift, work, saved, push>>
    BY <1>3 DEF Configured, BranchRead, GuardInstalled, agent
  <2>2. checkout[Current] = "absent" \/ Matches(Current)
    BY <2>1 DEF CurrentFitsStep
  <2>3. TypeOK'
    BY <1>1, <2>1 DEF TypeOK
  <2>4. DoneIsGuarded'
    BY <1>1, <2>1, <2>2 DEF DoneIsGuarded, GitSteps
  <2>5. CurrentFitsStep'
    BY <2>1 DEF CurrentFitsStep, GitSteps
  <2>. QED  BY <2>1, <2>3, <2>4, <2>5
<1>. QED  BY <1>2, <1>3 DEF GitStep

LEMMA GivenUpKeeps ==
    ASSUME WorkspaceInv, GivenUp
    PROVE  WorkspaceInv'
<1>. USE DEF WorkspaceInv, OrphansShow, PushesStayOnIssueBranch
<1>1. /\ pc' \in {"idle", "killed"}
      /\ UNCHANGED <<plan, todo, dir, root, repos, guarded, adrift, work, saved, push>>
  BY DEF GivenUp, Vanished, Reaped, Trouble, Fails, KilledAtTimeout, Cancelled, disk, agent
<1>2. CurrentFitsStep' /\ DoneIsGuarded'
  BY <1>1 DEF CurrentFitsStep, DoneIsGuarded, GitSteps
<1>3. CASE UNCHANGED <<checkout, orphans>>
  BY <1>1, <1>2, <1>3 DEF TypeOK
<1>4. CASE pc \in GitSteps /\ GitEffect /\ UNCHANGED orphans
  BY <1>1, <1>2, <1>4, GitEffects DEF TypeOK
<1>5. CASE pc = "clone" /\ Becomes("partial") /\ UNCHANGED orphans
  BY <1>1, <1>2, <1>5, CurrentIsPlanned DEF TypeOK, Becomes, Checkouts, CurrentFitsStep, GitSteps
<1>6. ASSUME pc = "clone", NEW state \in {"partial", CloneOf(Current)}, Becomes(state),
             orphans' = orphans \union {Current}
      PROVE  WorkspaceInv'
  BY <1>1, <1>2, <1>6, CurrentIsPlanned
     DEF TypeOK, Becomes, Checkouts, CloneOf, CurrentFitsStep, GitSteps
<1>. QED  BY <1>3, <1>4, <1>5, <1>6
          DEF GivenUp, Vanished, Reaped, Trouble, Fails, KilledAtTimeout, Cancelled, disk,
              GitEffect, GitSteps

(* The planned checkouts the agent can push from are guarded.              *)
LEMMA AgentKeeps ==
    ASSUME WorkspaceInv, AgentStep
    PROVE  WorkspaceInv'
<1>. USE DEF WorkspaceInv, OrphansShow, CurrentFitsStep, DoneIsGuarded, GitSteps, Matches,
             PushesStayOnIssueBranch
<1>1. CASE AgentStrays
  BY <1>1 DEF AgentStrays, TypeOK, agent
<1>2. CASE AgentEnds
  BY <1>2 DEF AgentEnds, TypeOK, disk, NoPush, Pushes, Branches
<1>3. ASSUME NEW r \in Repos, AgentWorks(r) PROVE WorkspaceInv'
  BY <1>3 DEF AgentWorks, TypeOK, disk
<1>4. ASSUME NEW r \in Repos, NEW verified \in BOOLEAN,
             NEW current \in Branches, NEW remote \in Branches,
             NEW local \in Branches \union {"HEAD"},
             AgentPushes(r, verified, current, local, remote)
      PROVE  WorkspaceInv'
  <2>1. /\ pc = "agent" /\ checkout[r] # "absent"
        /\ push' = [branch |-> remote, planned |-> r \in plan, verified |-> verified]
        /\ UNCHANGED <<pc, plan, todo, dir, root, repos, checkout, guarded, orphans, adrift,
                       work, saved>>
    BY <1>4 DEF AgentPushes, disk
  <2>2. r \in plan => r \in guarded
    BY <2>1
  <2>3. r \in plan /\ verified => remote = Expected
    BY <1>4, <2>2 DEF AgentPushes, GuardAllows
  <2>4. push' \in Pushes
    BY <2>1 DEF Pushes
  <2>5. PushesStayOnIssueBranch'
    BY <2>1, <2>3
  <2>6. (TypeOK /\ OrphansShow /\ CurrentFitsStep /\ DoneIsGuarded)'
    BY <2>1, <2>4 DEF TypeOK
  <2>. QED  BY <2>5, <2>6
<1>. QED  BY <1>1, <1>2, <1>3, <1>4 DEF AgentStep

LEMMA OrphanKeeps ==
    ASSUME WorkspaceInv, OrphanStep
    PROVE  WorkspaceInv'
<1>. USE DEF WorkspaceInv, OrphansShow, PushesStayOnIssueBranch
<1>1. PICK r \in Repos : OrphanEnds(r) \/ AdriftFails(r)
  BY DEF OrphanStep
<1>2. /\ adrift' \subseteq adrift
      /\ UNCHANGED <<pc, plan, todo, dir, root, repos, saved, push>>
      /\ \/ /\ r \in orphans /\ orphans' = orphans \ {r}
            /\ checkout[r] = "partial" /\ checkout' = [checkout EXCEPT ![r] = CloneOf(r)]
            /\ UNCHANGED <<guarded, work>>
         \/ /\ orphans' \subseteq orphans
            /\ UNCHANGED <<checkout, guarded, work>>
         \/ /\ orphans' = orphans \ {r}
            /\ checkout' = [checkout EXCEPT ![r] = "absent"]
            /\ guarded' = guarded \ {r} /\ work' = work \ {r}
  BY <1>1 DEF OrphanEnds, AdriftFails, TakenAway
<1>3. TypeOK'
  BY <1>2 DEF TypeOK, CloneOf, Checkouts
<1>4. OrphansShow'
  BY <1>2 DEF TypeOK
<1>5. Current' = Current
  BY <1>2 DEF Current
<1>6. CurrentFitsStep'
  <2>1. CASE pc \notin GitSteps
    BY <1>2, <2>1 DEF CurrentFitsStep, GitSteps
  <2>2. CASE pc \in GitSteps
    <3>1. Current \in Repos
      BY <2>2, CurrentIsPlanned DEF CurrentFitsStep
    <3>2. CASE Current # r
      BY <1>2, <1>5, <3>1, <3>2 DEF CurrentFitsStep, TypeOK, Matches
    <3>3. CASE Current = r
      BY <1>2, <1>5, <2>2, <3>1, <3>3 DEF CurrentFitsStep, TypeOK, Matches, GitSteps
    <3>. QED  BY <3>2, <3>3
  <2>. QED  BY <2>1, <2>2
<1>7. DoneIsGuarded'
  BY <1>2 DEF DoneIsGuarded, TypeOK, Matches
<1>. QED  BY <1>2, <1>3, <1>4, <1>6, <1>7

LEMMA RemovalKeeps ==
    ASSUME WorkspaceInv, RemovalStep
    PROVE  WorkspaceInv'
<1>. USE DEF WorkspaceInv, OrphansShow, CurrentFitsStep, DoneIsGuarded, GitSteps,
             PushesStayOnIssueBranch
<1>1. CASE RemoveStarts
  BY <1>1 DEF RemoveStarts, TypeOK, disk, agent
<1>2. CASE Removed
  BY <1>2 DEF Removed, TypeOK, Checkouts
<1>. QED  BY <1>1, <1>2 DEF RemovalStep

LEMMA WorkspaceInvInit == Init => WorkspaceInv
<1>1. NoPush \in Pushes /\ NoPush.branch = Expected
  BY DEF NoPush, Pushes, Branches
<1>2. NoCheckouts \in [Repos -> Checkouts]
  BY DEF NoCheckouts, Checkouts
<1>. QED  BY <1>1, <1>2 DEF Init, WorkspaceInv, TypeOK, OrphansShow, CurrentFitsStep,
                            DoneIsGuarded, GitSteps, PushesStayOnIssueBranch

LEMMA WorkspaceInvStep == WorkspaceInv /\ [Next]_vars => WorkspaceInv'
<1>1. ASSUME WorkspaceInv, UNCHANGED vars PROVE WorkspaceInv'
  BY <1>1 DEF vars, disk, agent, WorkspaceInv, TypeOK, OrphansShow, CurrentFitsStep,
              DoneIsGuarded, PushesStayOnIssueBranch, Current, Matches
<1>. QED  BY <1>1, StepGroups, SetupKeeps, GitKeeps, GivenUpKeeps, AgentKeeps, OrphanKeeps,
             RemovalKeeps

(* The variables of the workspace keep their types.                        *)
THEOREM WorkspaceTyping == Spec => []TypeOK
<1>1. WorkspaceInv => TypeOK
  BY DEF WorkspaceInv
<1>. QED  BY <1>1, WorkspaceInvInit, WorkspaceInvStep, PTL DEF Spec

(* Whatever failed, was killed or was left running before, and whatever    *)
(* earlier plans have left in the workspace: a push from a checkout of the *)
(* plan goes to the branch of the issue, unless the agent tells git to     *)
(* pass over the guard.                                                    *)
THEOREM PushesStay == Spec => []PushesStayOnIssueBranch
<1>1. WorkspaceInv => PushesStayOnIssueBranch
  BY DEF WorkspaceInv
<1>. QED  BY <1>1, WorkspaceInvInit, WorkspaceInvStep, PTL DEF Spec

-----------------------------------------------------------------------------
(* The work of the agent *)

(* A step takes work out of the workspace only in quarantine, with the     *)
(* checkout of a clone left running that fails, or in a removal.           *)
LEMMA WorkStep ==
    ASSUME [Next]_vars, pc # "removing", NEW r \in work \ work'
    PROVE  r \in saved' \/ r \in orphans \ orphans' \/ r \in adrift \ adrift'
<1>1. CASE SetupStep
  <2>1. PICK p \in SUBSET Repos : Plan(p)
    BY <1>1 DEF SetupStep, Create, Hooked, Ensure, agent
  <2>2. SetAside
    BY <2>1 DEF Plan, agent
  <2>. QED  BY <2>2 DEF SetAside
<1>2. CASE GitStep
  BY <1>2 DEF GitStep, GitDone, Configured, BranchRead, agent
<1>3. CASE GivenUp
  BY <1>3 DEF GivenUp, Vanished, Reaped, Trouble, Fails, KilledAtTimeout, Cancelled, agent
<1>4. CASE AgentStep
  BY <1>4 DEF AgentStep, AgentStrays, AgentEnds, AgentWorks, AgentPushes, agent
<1>5. CASE OrphanStep
  <2>1. PICK q \in Repos : OrphanEnds(q) \/ AdriftFails(q)
    BY <1>5 DEF OrphanStep
  <2>2. /\ q \in orphans \ orphans' \/ q \in adrift \ adrift'
        /\ work' = work \/ work' = work \ {q}
    BY <2>1 DEF OrphanEnds, AdriftFails, TakenAway
  <2>. QED  BY <2>2
<1>6. CASE RemovalStep
  BY <1>6 DEF RemovalStep, RemoveStarts, Removed, agent
<1>7. CASE UNCHANGED vars
  BY <1>7 DEF vars, agent
<1>. QED  BY <1>1, <1>2, <1>3, <1>4, <1>5, <1>6, <1>7, StepGroups

(* What the agent made stays in the workspace until it lies in quarantine  *)
(* or the issue is closed, for any repositories and any plans, unless a    *)
(* clone that was left running takes it along.                             *)
THEOREM WorkStays == Spec => WorkIsKept
<1>1. [Next]_vars => [pc # "removing" =>
          \A r \in work \ work' :
             r \in saved' \/ r \in orphans \ orphans' \/ r \in adrift \ adrift']_vars
  BY WorkStep
<1>. QED  BY <1>1, PTL DEF Spec, WorkIsKept
=============================================================================
