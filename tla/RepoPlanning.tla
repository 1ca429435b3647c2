---------------------------- MODULE RepoPlanning ----------------------------
(***************************************************************************)
(* The repository plan of an issue, from the planner to the watch on what  *)
(* the agent changes: plan_repositories of repo_planner.py, the block in   *)
(* agent_runner.py, the directories materialize_repo_plan gives the        *)
(* planned repositories, and _repo_deviation_from_event of orchestrator.py. *)
(* An issue is attempted again and again in one workspace, each time under *)
(* a plan of its own.  How a single checkout is made, and what fails       *)
(* there, is RepoWorkspace.                                                *)
(*                                                                         *)
(* What a model, a person or a text decides is free: the answers of the    *)
(* LLM planner, and the scores of the rules.                               *)
(***************************************************************************)
EXTENDS Naturals, Sequences, FiniteSets, Selections

CONSTANTS
    Repos,          \* slugs of the catalogue, repositories.known
    Unknown,        \* any slug that is not in it
    Dir,            \* path_name: the last part of a slug
    Elsewhere,      \* any path that is not below repos/
    MaxSecondary,   \* bound on the secondary repositories of an answer
    MaxContext      \* bound on its read-only ones

None == "none"

ASSUME CatalogueAssumption == IsFiniteSet(Repos) /\ {Unknown, None} \cap Repos = {}
ASSUME DirAssumption == DOMAIN Dir = Repos /\ \A r \in Repos : Dir[r] # Elsewhere
ASSUME BoundsAssumption == MaxSecondary \in Nat /\ MaxContext \in Nat

Dirs == {Dir[r] : r \in Repos}

VARIABLES
    config,     \* of the attempt: see Configs
    pc,         \* where the attempt stands
    plan,       \* its RepoPlan, which the RunningEntry has too
    doubts,     \* what made the plan one for a human
    todo,       \* how many items of the plan are to be checked out yet
    holds,      \* the repository checked out at repos/<directory>
    changed,    \* where the agent of this attempt has changed files
    reported    \* which of these are in repo_deviations

vars == <<config, pc, plan, doubts, todo, holds, changed, reported>>

(* context.coding.enabled; the two planners; repositories.fallback;        *)
(* block_on_needs_human; quarantine_on_mismatch.                           *)
Configs == [coding : BOOLEAN, planner : {"rules", "llm"},
            fallback : {"rules", "block"}, block : BOOLEAN, quarantine : BOOLEAN]

RepoPlanItems == [slug : Repos, role : {"primary", "secondary", "read_only_context"},
                  edit : BOOLEAN]

Item(r, role, edit) ==
    [slug |-> r, role |-> role, edit |-> edit /\ role # "read_only_context"]

(* A plan's items are those of all_repos(), in its order.                  *)
RepoPlans == [coding : BOOLEAN, human : BOOLEAN, items : Seq(RepoPlanItems)]

NoPlan == [coding |-> FALSE, human |-> FALSE, items |-> <<>>]

HasPrimary(items) == \E k \in DOMAIN items : items[k].role = "primary"

TypeOK ==
    /\ config \in Configs
    /\ pc \in {"idle", "plan", "prepare", "ensure", "agent", "blocked", "failed",
               "mismatch"}
    /\ plan \in RepoPlans
    /\ doubts \subseteq {"asked", "unknown", "no primary", "no match", "tie", "broken"}
    /\ todo \in 0 .. Len(plan.items)
    /\ holds \in [Dirs -> Repos \union {None}]
    /\ changed \subseteq Dirs \union {Elsewhere}
    /\ reported \subseteq changed

NothingHeld == [d \in Dirs |-> None]

Init ==
    /\ config \in Configs
    /\ pc = "idle"
    /\ plan = NoPlan
    /\ doubts = {}
    /\ todo = 0
    /\ holds = NothingHeld
    /\ changed = {} /\ reported = {}

-----------------------------------------------------------------------------
(* The plan *)

(* classify_coding_issue: what always, the rules, a model, or the fallback *)
(* can come to.  Without a coding context no issue is a coding task, and   *)
(* then none gets repositories, although planning is enabled.              *)
Classified == IF config.coding THEN BOOLEAN ELSE {FALSE}

UpTo(n, S) == UNION {[1 .. k -> S] : k \in 0 .. n}

Slugs == Repos \union {Unknown}

(* What the LLM planner may answer, entries without a slug left out.       *)
Answers == [coding : BOOLEAN, human : BOOLEAN,
            primary : Slugs \union {None}, edit : BOOLEAN,
            secondary : UpTo(MaxSecondary, [slug : Slugs, edit : BOOLEAN]),
            context : UpTo(MaxContext, Slugs)]

(* _dedupe_items: of each repository the first item is kept.               *)
NotDeduped(items) == items

Deduped(items) ==
    Picked(items, {k \in DOMAIN items : \A j \in 1 .. k - 1 : items[j].slug # items[k].slug})

(* parse_item for a list: unknown slugs are dropped, and remembered.       *)
Listed(entries, role) ==
    LET known == Picked(entries, {k \in DOMAIN entries : entries[k].slug \in Repos})
    IN  Deduped([k \in DOMAIN known |-> Item(known[k].slug, role, known[k].edit)])

(* The primary repository is taken out of the lists.                       *)
Others(items, primary) == Picked(items, {k \in DOMAIN items : items[k].slug # primary})

Mentioned(a) == {a.primary} \union {a.secondary[k].slug : k \in DOMAIN a.secondary}
                            \union {a.context[k] : k \in DOMAIN a.context}

DoubtsIn(a) ==
    (IF a.human THEN {"asked"} ELSE {})
        \union (IF a.coding /\ a.primary \notin Repos THEN {"no primary"} ELSE {})
        \union (IF Unknown \in Mentioned(a) THEN {"unknown"} ELSE {})

(* Faulty: what is unknown is only dropped.                                *)
TrustingHuman(a) == a.human \/ (a.coding /\ a.primary \notin Repos)

Human(a) == \/ a.human
            \/ a.coding /\ a.primary \notin Repos
            \/ Unknown \in Mentioned(a)

(* _normalize_plan *)
Normalized(a) ==
    LET primary == IF a.primary \in Repos
                   THEN <<Item(a.primary, "primary", a.edit)>> ELSE <<>>
        context == [k \in DOMAIN a.context |-> [slug |-> a.context[k], edit |-> FALSE]]
    IN  [coding |-> a.coding, human |-> Human(a),
         items |-> primary \o Others(Listed(a.secondary, "secondary"), a.primary)
                           \o Others(Listed(context, "read_only_context"), a.primary)]

(* _plan_with_rules: the repositories that score, best first; three of     *)
(* them come after the primary one.                                        *)
ByRules(scored, tie) ==
    [coding |-> TRUE, human |-> scored = <<>> \/ tie,
     items |-> [k \in 1 .. (IF Len(scored) > 4 THEN 4 ELSE Len(scored)) |->
                   Item(scored[k], IF k = 1 THEN "primary" ELSE "secondary", TRUE)]]

Rankings == {s \in UpTo(Cardinality(Repos), Repos) :
                \A j, k \in DOMAIN s : s[j] = s[k] => j = k}

(* The event repo_plan_created hands the plan to the RunningEntry, then    *)
(* run_issue looks whether a human has to decide.                          *)
BlockedBy(p) == config.block /\ p.human

Emitted(p, why) ==
    /\ plan' = p
    /\ doubts' = why
    /\ pc' = IF BlockedBy(p) THEN "blocked" ELSE "prepare"
    /\ UNCHANGED <<config, todo, holds, changed, reported>>

(* The attempt reads its configuration, and a new RunningEntry is there.   *)
Begin ==
    /\ pc = "idle"
    /\ config' \in Configs
    /\ pc' = "plan"
    /\ UNCHANGED <<plan, doubts, todo, holds, changed, reported>>

NotCoding ==
    /\ pc = "plan"
    /\ FALSE \in Classified
    /\ Emitted(NoPlan, {})

PlannedByLlm ==
    /\ pc = "plan"
    /\ TRUE \in Classified
    /\ config.planner = "llm"
    /\ \E a \in Answers : Emitted(Normalized(a), DoubtsIn(a))

(* The session, or its answer, is broken: fallback.                        *)
PlannerBlocks ==
    /\ pc = "plan"
    /\ TRUE \in Classified
    /\ config.planner = "llm" /\ config.fallback = "block"
    /\ Emitted([coding |-> TRUE, human |-> TRUE, items |-> <<>>], {"broken"})

PlannedByRules ==
    /\ pc = "plan"
    /\ TRUE \in Classified
    /\ config.planner = "llm" => config.fallback = "rules"
    /\ \E s \in Rankings, tie \in BOOLEAN :
          /\ tie => Len(s) > 1
          /\ Emitted(ByRules(s, tie),
                     IF s = <<>> THEN {"no match"} ELSE IF tie THEN {"tie"} ELSE {})

-----------------------------------------------------------------------------
(* The checkouts *)

Materialized(p) == p.coding /\ HasPrimary(p.items)

(* Faulty: any checkout in the right place will do.                        *)
Exists(x) == holds[Dir[x.slug]] # None

(* _repo_checkout_matches *)
Matches(x) == holds[Dir[x.slug]] = x.slug

(* A checkout of another repository is in the way, or there is no checkout *)
(* yet but something else, of after_create or of an agent without a plan.  *)
NeedsQuarantine(other) ==
    \/ \E k \in DOMAIN plan.items :
          holds[Dir[plan.items[k].slug]] # None /\ ~Matches(plan.items[k])
    \/ other /\ holds = NothingHeld

(* materialize_repo_plan, up to its first checkout.                        *)
Prepare ==
    /\ pc = "prepare"
    /\ \E other \in BOOLEAN :
       IF ~Materialized(plan) THEN pc' = "agent" /\ UNCHANGED <<todo, holds>>
       ELSE IF ~NeedsQuarantine(other)
       THEN pc' = "ensure" /\ todo' = Len(plan.items) /\ UNCHANGED holds
       ELSE IF config.quarantine
       THEN pc' = "ensure" /\ todo' = Len(plan.items) /\ holds' = NothingHeld
       ELSE pc' = "mismatch" /\ UNCHANGED <<todo, holds>>
    /\ UNCHANGED <<config, plan, doubts, changed, reported>>

Current == plan.items[Len(plan.items) + 1 - todo]

(* _ensure_repo_checkout *)
Ensure ==
    /\ pc = "ensure" /\ todo > 0
    /\ IF holds[Dir[Current.slug]] = None
       THEN /\ holds' = [holds EXCEPT ![Dir[Current.slug]] = Current.slug]
            /\ todo' = todo - 1 /\ UNCHANGED pc
       ELSE IF Matches(Current)
       THEN todo' = todo - 1 /\ UNCHANGED <<pc, holds>>
       ELSE pc' = "mismatch" /\ UNCHANGED <<todo, holds>>
    /\ UNCHANGED <<config, plan, doubts, changed, reported>>

AllEnsured ==
    /\ pc = "ensure" /\ todo = 0
    /\ pc' = "agent"
    /\ UNCHANGED <<config, plan, doubts, todo, holds, changed, reported>>

-----------------------------------------------------------------------------
(* The watch *)

(* Faulty: what is planned may be changed.                                 *)
PlannedSlugs == {plan.items[k].slug : k \in DOMAIN plan.items}

EditAllowedSlugs == {plan.items[k].slug : k \in {j \in DOMAIN plan.items :
                        plan.items[j].edit /\ plan.items[j].role # "read_only_context"}}

(* _repo_slug_for_path: the first planned repository of the directory.     *)
SlugAt(d) ==
    LET here == {k \in DOMAIN plan.items : Dir[plan.items[k].slug] = d}
    IN  IF d = Elsewhere \/ here = {} THEN None
        ELSE plan.items[CHOOSE k \in here : \A j \in here : k <= j].slug

(* A fileChange event: repo_deviations names each deviation once.          *)
FileChange(d) ==
    /\ pc = "agent"
    /\ changed' = changed \union {d}
    /\ reported' = IF SlugAt(d) \in EditAllowedSlugs THEN reported
                   ELSE reported \union {d}
    /\ UNCHANGED <<config, pc, plan, doubts, todo, holds>>

-----------------------------------------------------------------------------
(* The end of an attempt: in any state, well or not, by a cancellation or  *)
(* by the human who releases a blocked issue.  The workspace stays, the    *)
(* entry with its plan does not.                                           *)
End ==
    /\ pc # "idle"
    /\ pc' = "idle"
    /\ plan' = NoPlan
    /\ doubts' = {}
    /\ todo' = 0
    /\ changed' = {} /\ reported' = {}
    /\ UNCHANGED <<config, holds>>

Planning == NotCoding \/ PlannedByLlm \/ PlannerBlocks \/ PlannedByRules

Next ==
    \/ Begin \/ Planning \/ Prepare \/ Ensure \/ AllEnsured
    \/ \E d \in Dirs \union {Elsewhere} : FileChange(d)
    \/ End

Spec == Init /\ [][Next]_vars

-----------------------------------------------------------------------------
(* Properties *)

(* With block_on_needs_human, no agent starts on a plan there was any      *)
(* doubt about: a tie, no match, no primary or an unknown repository, a    *)
(* broken planner with nothing to fall back on, or the planner's own word. *)
DoubtMeansBlock ==
    pc \in {"prepare", "ensure", "agent"} /\ config.block => doubts = {}

(* No repository is there twice in a role, the primary one has no second   *)
(* role, and read-only context is not to be edited.                        *)
RolesAreSound(items) ==
    /\ \A j, k \in DOMAIN items :
          j # k /\ items[j].slug = items[k].slug =>
              items[j].role # items[k].role /\ "primary" \notin {items[j].role, items[k].role}
    /\ \A k \in DOMAIN items : items[k].role = "read_only_context" => ~items[k].edit

(* Whatever a planner answers: only repositories of the catalogue are      *)
(* planned (the type of plan), in sound roles; a coding plan without a     *)
(* primary repository is one for a human, and doubt blocks.                *)
PlanIsSound ==
    /\ TypeOK
    /\ RolesAreSound(plan.items)
    /\ plan.coding /\ ~HasPrimary(plan.items) => plan.human
    /\ DoubtMeansBlock

(* An agent finds each repository of a coding plan in the directory the    *)
(* plan names for it, whatever earlier plans have left in the workspace.   *)
AgentFindsItsRepos ==
    pc = "agent" /\ Materialized(plan) =>
        \A k \in DOMAIN plan.items : holds[Dir[plan.items[k].slug]] = plan.items[k].slug

(* A change is reported exactly if it is not in a checkout of a repository *)
(* the plan lets the agent edit: also one in the checkout of an earlier    *)
(* plan, and one of another repository with the same directory.            *)
DeviationsAreSeen ==
    Materialized(plan) =>
        reported = {d \in changed :
            ~\E k \in DOMAIN plan.items : /\ d # Elsewhere
                                          /\ holds[d] = plan.items[k].slug
                                          /\ plan.items[k].edit}

(* The prompt of repo_planner.py: "Do not edit read-only context repos":   *)
(* a change in one that the plan lists as such is reported.                *)
ReadOnlyIsWatched ==
    Materialized(plan) =>
        \A k \in DOMAIN plan.items :
            plan.items[k].role = "read_only_context" /\ Dir[plan.items[k].slug] \in changed
                => Dir[plan.items[k].slug] \in reported

(* README.md: "Each planned repo is checked out on a Symphony-prepared     *)
(* branch derived from the issue key and repo name": with quarantine on, no *)
(* plan fails because of what lies in the workspace.                       *)
PlannedReposAreCheckedOut == config.quarantine => pc # "mismatch"
=============================================================================
