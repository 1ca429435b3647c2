-------------------------- MODULE ReviewGateProofs --------------------------
(***************************************************************************)
(* Theorems of ReviewGate, for any PRs, links, dependencies and cap.       *)
(***************************************************************************)
EXTENDS ReviewGate, TLAPS

GateInv == TypeOK /\ MergesAreFinal /\ NothingForgotten

LEMMA GateTypingStep ==
    ASSUME TypeOK, [Next]_vars
    PROVE  TypeOK'
<1>. USE SourcesAssumption, DepsAssumption
<1>1. ASSUME Rest PROVE required' = Nothing /\ Nothing \in [PRs -> Standings \union {"unseen"}]
  BY <1>1 DEF Rest, Nothing
<1>2. CASE Fetch \/ Hydrate \/ Comments
  BY <1>2 DEF Fetch, Hydrate, Comments, world, Stages, TypeOK
<1>3. CASE LoadMetadata \/ \E B \in OnBranch : ListBranch(B)
  BY <1>3 DEF LoadMetadata, ListBranch, world, Stages, TypeOK
<1>4. CASE Evaluate \/ Save \/ SaveFails \/ Interrupted
  BY <1>1, <1>4 DEF Evaluate, Gathered, Following, Save, SaveFails, Interrupted, Rest, world, Stages, TypeOK
<1>5. ASSUME NEW p \in PRs,
             ViewUrl(p) \/ UrlFails(p) \/ Dequeue(p) \/ ViewRef(p) \/ RefFails(p)
      PROVE  TypeOK'
  BY <1>5 DEF ViewUrl, UrlFails, Dequeue, ViewRef, RefFails, AddRequired, world, TypeOK
<1>6. CASE MoveIssue
  BY <1>6 DEF MoveIssue, gate, TypeOK
<1>7. ASSUME NEW p \in PRs, Merge(p) \/ Retarget(p)
      PROVE  TypeOK'
  BY <1>7 DEF Merge, Retarget, gate, TypeOK, Standings
<1>8. CASE UNCHANGED vars
  BY <1>8 DEF vars, TypeOK
<1>. QED  BY <1>2, <1>3, <1>4, <1>5, <1>6, <1>7, <1>8 DEF Next, GateStep

LEMMA MergesAreFinalStep ==
    ASSUME TypeOK, MergesAreFinal, [Next]_vars
    PROVE  MergesAreFinal'
<1>1. CASE Fetch \/ Hydrate \/ Comments \/ MoveIssue \/ UNCHANGED vars
  BY <1>1 DEF Fetch, Hydrate, Comments, MoveIssue, world, gate, vars, MergesAreFinal
<1>2. CASE LoadMetadata \/ \E B \in OnBranch : ListBranch(B)
  BY <1>2 DEF LoadMetadata, ListBranch, world, MergesAreFinal
<1>3. CASE Evaluate \/ Save \/ SaveFails \/ Interrupted
  BY <1>3 DEF Evaluate, Save, SaveFails, Interrupted, Rest, Nothing, world, MergesAreFinal
<1>4. ASSUME NEW p \in PRs,
             ViewUrl(p) \/ UrlFails(p) \/ Dequeue(p) \/ ViewRef(p) \/ RefFails(p)
      PROVE  MergesAreFinal'
  BY <1>4 DEF ViewUrl, UrlFails, Dequeue, ViewRef, RefFails, AddRequired, world, TypeOK,
              MergesAreFinal
<1>5. ASSUME NEW p \in PRs, Merge(p) \/ Retarget(p)
      PROVE  MergesAreFinal'
  BY <1>5 DEF Merge, Retarget, gate, TypeOK, MergesAreFinal
<1>. QED  BY <1>1, <1>2, <1>3, <1>4, <1>5 DEF Next, GateStep

LEMMA NothingForgottenStep ==
    ASSUME TypeOK, NothingForgotten, [Next]_vars
    PROVE  NothingForgotten'
<1>. SUFFICES ASSUME ~SourcesMayFail PROVE NothingForgotten'
  BY DEF NothingForgotten
<1>1. CASE Fetch \/ Hydrate \/ Comments
  BY <1>1 DEF Fetch, Hydrate, Comments, world, NothingForgotten, Seen, TypeOK
<1>2. CASE LoadMetadata
  BY <1>2 DEF LoadMetadata, world, NothingForgotten, Seen
<1>0. ASSUME NEW B \in OnBranch, ListBranch(B)
      PROVE  NothingForgotten'
  BY <1>0 DEF ListBranch, world, NothingForgotten, Seen, TypeOK
<1>3. CASE Save \/ SaveFails \/ Interrupted \/ (Evaluate /\ ~Ready)
  BY <1>3 DEF Evaluate, Save, SaveFails, Interrupted, Rest, Nothing, Seen, NothingForgotten
<1>4. CASE Evaluate /\ Ready
  BY <1>4 DEF Evaluate, Gathered, Following, NothingForgotten, Ready, Seen
<1>5. ASSUME NEW p \in PRs, ViewUrl(p)
      PROVE  NothingForgotten'
  <2>1. Seen' = Seen \union {p}
    BY <1>5 DEF ViewUrl, AddRequired, Seen, TypeOK, Standings
  <2>. QED  BY <1>5, <2>1 DEF ViewUrl, AddRequired, world, NothingForgotten
<1>6. ASSUME NEW p \in PRs, ViewRef(p)
      PROVE  NothingForgotten'
  <2>1. Seen' = Seen \union {p}
    BY <1>6 DEF ViewRef, AddRequired, Seen, TypeOK, Standings
  <2>. QED  BY <1>6, <2>1 DEF ViewRef, AddRequired, world, NothingForgotten
<1>7. ASSUME NEW p \in PRs, UrlFails(p) \/ RefFails(p)
      PROVE  NothingForgotten'
  BY <1>7 DEF UrlFails, RefFails, world, NothingForgotten, Seen
<1>8. ASSUME NEW p \in PRs, Dequeue(p)
      PROVE  NothingForgotten'
  BY <1>8 DEF Dequeue, Following, world, NothingForgotten, Seen
<1>9. CASE MoveIssue \/ UNCHANGED vars \/ \E p \in PRs : Merge(p) \/ Retarget(p)
  BY <1>9 DEF MoveIssue, Merge, Retarget, gate, vars, NothingForgotten, Seen, Ready
<1>. QED
  BY <1>0, <1>1, <1>2, <1>3, <1>4, <1>5, <1>6, <1>7, <1>8, <1>9 DEF Next, GateStep

LEMMA GateInvInit == Init => GateInv
BY DEF Init, GateInv, TypeOK, MergesAreFinal, NothingForgotten, Nothing, Seen, Stages

LEMMA GateInvStep == GateInv /\ [Next]_vars => GateInv'
BY GateTypingStep, MergesAreFinalStep, NothingForgottenStep DEF GateInv

(* What the gate takes for merged is merged, and no link it read is lost.  *)
THEOREM GateInvariance == Spec => [](TypeOK /\ MergesAreFinal /\ NothingForgotten)
BY GateInvInit, GateInvStep, PTL DEF Spec, GateInv

(* The variables of the gate and of the PRs keep their types.              *)
THEOREM GateTyping == Spec => []TypeOK
BY GateInvInit, GateInvStep, PTL DEF Spec, GateInv

(* A PR that the gate has noted as merged is merged from then on, whatever *)
(* GitHub does to the others and whenever the gate reads them.             *)
THEOREM MergesFinal == Spec => []MergesAreFinal
BY GateInvInit, GateInvStep, PTL DEF Spec, GateInv

(* In a state about to move the issue, the PRs seen are merged; with an    *)
(* empty queue they include the linked ones, as they contain the initial   *)
(* ones and are closed under dependencies.                                 *)
LEMMA ReadyCoversLinked ==
    ASSUME GateInv, stage = "save", queue = {}, ~SourcesMayFail
    PROVE  \A p \in LinkedPRs : pr[p] = "merged"
<1>1. /\ refs = {} /\ Ready /\ urls = {}
      /\ Attached \union InWorkpad \subseteq urls \union Seen \union unresolved
      /\ \A p \in Seen \ queue : Deps[p] \subseteq Seen \union unresolved \union refs
  BY DEF GateInv, NothingForgotten
<1>2. unresolved = {} /\ \A p \in Seen : required[p] = "merged"
  BY <1>1 DEF Ready
<1>3. Attached \union InWorkpad \subseteq Seen
  BY <1>1, <1>2
<1>4. ClosedUnderDeps(Seen)
  BY <1>1, <1>2 DEF ClosedUnderDeps
<1>5. Seen \in SUBSET PRs
  BY DEF Seen
<1>6. LinkedPRs \subseteq Seen
  BY <1>3, <1>4, <1>5 DEF LinkedPRs
<1>. QED  BY <1>2, <1>5, <1>6 DEF GateInv, MergesAreFinal

(* The gate moves an issue to Done only when all linked PRs and all their  *)
(* dependencies are merged into the base branch, as long as every source   *)
(* answered and the cap was not reached.                                   *)
THEOREM GateSoundness == Spec => GateIsSound
<1>1. GateInv => (MovesToDone /\ queue = {} /\ ~SourcesMayFail
                    => \A p \in LinkedPRs : pr[p] = "merged")
  BY ReadyCoversLinked DEF MovesToDone
<1>2. Spec => []GateInv
  BY GateInvInit, GateInvStep, PTL DEF Spec
<1>. QED  BY <1>1, <1>2, PTL DEF GateIsSound
=============================================================================
