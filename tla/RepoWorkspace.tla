---------------------------- MODULE RepoWorkspace ----------------------------
(***************************************************************************)
(* The workspace of one issue over its attempts: WorkspaceManager of       *)
(* workspace.py creates the directory, moves one that does not fit the     *)
(* repository plan into quarantine, clones the planned repositories,       *)
(* prepares their branches, and removes everything when the issue is       *)
(* closed.  Each git command is a suspension: it may fail, run into its    *)
(* timeout and be killed, or be left running when the attempt is cancelled. *)
(* That one attempt or removal at a time works on the directory is what    *)
(* Orchestrator shows (ExclusiveOwner).                                    *)
(***************************************************************************)
EXTENDS Naturals, FiniteSets

CONSTANTS
    Repos,          \* the configured repositories
    LocalSource,    \* those cloned from local_path and then given their remote_url
    Expected,       \* _expected_branch_name of the issue in a repository
    OtherBranches   \* any other branches

ASSUME SourceAssumption == LocalSource \subseteq Repos
ASSUME BranchAssumption == Expected \notin OtherBranches

Branches == {Expected} \union OtherBranches

VARIABLES
    pc,         \* where the attempt, or the removal, is suspended
    plan,       \* the repositories of the attempt's plan
    todo,       \* those whose checkout is still to be ensured
    dir,        \* does the workspace directory exist?
    root,       \* what lies in it beside repos/: nothing, strays, or a .git
    repos,      \* does repos/ exist?
    checkout,   \* what lies at repos/<name>: see Checkouts
    guarded,    \* repositories with the pre-push guard
    orphans,    \* repositories a cancelled clone is still working on
    adrift,     \* those whose cancelled clone has lost its directory
    work,       \* repositories with work of the agent
    saved,      \* repositories whose work lies in quarantine
    push        \* the last push of the agent at work

disk == <<dir, root, repos, checkout, guarded, orphans, adrift>>
agent == <<work, saved, push>>
vars == <<pc, plan, todo, disk, agent>>

(* A partial checkout has not the configured remote (yet); an unprepared   *)
(* one has it, but was not put on the expected branch by Symphony.         *)
Checkouts == {"absent", "partial", "unprepared", "prepared"}
GitSteps == {"clone", "set_remote", "fetch", "checkout", "configure", "branch_read"}

(* A push names its remote branch, whether the repository is in the plan,  *)
(* and whether git ran the hook (git push --no-verify does not).           *)
NoPush == [branch |-> Expected, planned |-> TRUE, verified |-> TRUE]
Pushes == [branch : Branches, planned : BOOLEAN, verified : BOOLEAN]

TypeOK ==
    /\ pc \in {"idle", "after_create", "plan", "ensure", "agent", "killed", "removing"}
              \union GitSteps
    /\ plan \subseteq Repos
    /\ todo \subseteq plan
    /\ dir \in BOOLEAN /\ repos \in BOOLEAN
    /\ root \in {"clean", "stray", "git"}
    /\ checkout \in [Repos -> Checkouts]
    /\ guarded \subseteq Repos /\ orphans \subseteq Repos /\ adrift \subseteq Repos
    /\ work \subseteq Repos /\ saved \subseteq Repos
    /\ push \in Pushes

NoCheckouts == [r \in Repos |-> "absent"]

Init ==
    /\ pc = "idle"
    /\ plan = {} /\ todo = {}
    /\ dir = FALSE /\ root = "clean" /\ repos = FALSE
    /\ checkout = NoCheckouts
    /\ guarded = {} /\ orphans = {} /\ adrift = {}
    /\ work = {} /\ saved = {} /\ push = NoPush

-----------------------------------------------------------------------------
(* Creation and quarantine *)

(* create_for_issue: the hook after_create runs only for a new directory.  *)
Create ==
    /\ pc = "idle"
    /\ dir' = TRUE
    /\ pc' = IF dir THEN "plan" ELSE "after_create"
    /\ UNCHANGED <<plan, todo, root, repos, checkout, guarded, orphans, adrift, agent>>

Hooked ==
    /\ pc = "after_create"
    /\ pc' = "plan"
    /\ UNCHANGED <<plan, todo, disk, agent>>

Matches(r) == checkout[r] \in {"unprepared", "prepared"}

(* _workspace_requires_quarantine                                          *)
MismatchBlindQuarantine(p) ==
    \/ root = "git"
    \/ root = "stray" /\ ~repos

NeedsQuarantine(p) ==
    \/ root = "git"
    \/ root = "stray" /\ ~repos
    \/ \E r \in p : checkout[r] # "absent" /\ ~Matches(r)

(* _quarantine_workspace renames the directory to a new name, and a new    *)
(* one is made.  A clone still at work there can only fail.                *)
DiscardingSetAside ==
    /\ root' = "clean"
    /\ checkout' = NoCheckouts
    /\ guarded' = {}
    /\ orphans' = {}
    /\ adrift' = adrift \union orphans
    /\ work' = {}
    /\ UNCHANGED <<dir, saved, push>>

SetAside ==
    /\ root' = "clean"
    /\ checkout' = NoCheckouts
    /\ guarded' = {}
    /\ orphans' = {}
    /\ adrift' = adrift \union orphans
    /\ saved' = saved \union work
    /\ work' = {}
    /\ UNCHANGED <<dir, push>>

(* materialize_repo_plan; a plan without repositories leaves it all alone. *)
Plan(p) ==
    /\ pc = "plan"
    /\ plan' = p
    /\ todo' = p
    /\ IF p = {}
       THEN pc' = "agent" /\ UNCHANGED <<disk, agent>>
       ELSE /\ pc' = "ensure"
            /\ repos' = TRUE
            /\ IF NeedsQuarantine(p) THEN SetAside
               ELSE UNCHANGED <<dir, root, checkout, guarded, orphans, adrift, agent>>

-----------------------------------------------------------------------------
(* The checkouts, one repository of todo after the other *)

Current == CHOOSE r \in todo : TRUE
InPlace == checkout[Current] # "absent"
GuardInstalled == guarded' = guarded \union {Current}

(* _ensure_repo_checkout: what exists is taken as it is, if it matches.    *)
Ensure ==
    /\ pc = "ensure"
    /\ pc' = IF todo = {} THEN "agent"
             ELSE IF checkout[Current] = "absent" THEN "clone"
             ELSE IF Matches(Current) THEN "branch_read"
             ELSE "idle"
    /\ UNCHANGED <<plan, todo, disk, agent>>

UnguardedBranchRead ==
    /\ pc = "branch_read"
    /\ InPlace
    /\ pc' = "ensure"
    /\ todo' = todo \ {Current}
    /\ UNCHANGED <<plan, disk, agent>>

BranchRead ==
    /\ pc = "branch_read"
    /\ InPlace
    /\ GuardInstalled
    /\ pc' = "ensure"
    /\ todo' = todo \ {Current}
    /\ UNCHANGED <<plan, dir, root, repos, checkout, orphans, adrift, agent>>

Becomes(state) == checkout' = [checkout EXCEPT ![Current] = state]
CloneOf(r) == IF r \in LocalSource THEN "partial" ELSE "unprepared"

GitEffect ==
    IF pc = "clone" THEN Becomes(CloneOf(Current))
    ELSE IF pc = "set_remote" /\ InPlace THEN Becomes("unprepared")
    ELSE IF pc = "checkout" /\ InPlace THEN Becomes("prepared")
    ELSE UNCHANGED checkout

Continuation ==
    CASE pc = "clone" -> IF Current \in LocalSource THEN "set_remote" ELSE "fetch"
      [] pc = "set_remote" -> "fetch"
      [] pc = "fetch" -> "checkout"
      [] pc = "checkout" -> "configure"

GitDone ==
    /\ pc \in {"clone", "set_remote", "fetch", "checkout"}
    /\ pc = "clone" \/ InPlace
    /\ GitEffect
    /\ pc' = Continuation
    /\ UNCHANGED <<plan, todo, dir, root, repos, guarded, orphans, adrift, agent>>

Configured ==
    /\ pc = "configure"
    /\ InPlace
    /\ GuardInstalled
    /\ pc' = "ensure"
    /\ todo' = todo \ {Current}
    /\ UNCHANGED <<plan, dir, root, repos, checkout, orphans, adrift, agent>>

(* An old clone has taken the checkout away: the command fails, or the     *)
(* guard has no .git to go to.                                             *)
Vanished ==
    /\ pc \in GitSteps \ {"clone"}
    /\ ~InPlace
    /\ pc' = "idle"
    /\ UNCHANGED <<plan, todo, disk, agent>>

-----------------------------------------------------------------------------
(* What goes wrong *)

(* A hook or a git command fails: the attempt ends, and nothing is undone, *)
(* but that git removes what a failing clone has made.                     *)
Fails ==
    /\ pc \in {"after_create"} \union GitSteps
    /\ pc' = "idle"
    /\ UNCHANGED <<plan, todo, disk, agent>>

(* A timeout kills the hook or the command half-way; the attempt then      *)
(* waits until no process holds its output any more.                       *)
KilledAtTimeout ==
    /\ pc \in {"after_create"} \union GitSteps
    /\ pc' = "killed"
    /\ GitEffect \/ (pc = "clone" /\ Becomes("partial"))
    /\ UNCHANGED <<plan, todo, dir, root, repos, guarded, orphans, adrift, agent>>

Reaped ==
    /\ pc = "killed"
    /\ pc' = "idle"
    /\ UNCHANGED <<plan, todo, disk, agent>>

(* A cancelled attempt leaves the command running.                         *)
Cancelled ==
    /\ pc \in {"after_create", "plan", "killed"} \union GitSteps
    /\ pc' = "idle"
    /\ IF pc = "clone"
       THEN /\ \E state \in {"partial", CloneOf(Current)} : Becomes(state)
            /\ orphans' = orphans \union {Current}
       ELSE GitEffect /\ UNCHANGED orphans
    /\ UNCHANGED <<plan, todo, dir, root, repos, guarded, adrift, agent>>

TakenAway(r) ==
    /\ checkout' = [checkout EXCEPT ![r] = "absent"]
    /\ guarded' = guarded \ {r}
    /\ work' = work \ {r}

OrphanEnds(r) ==
    /\ r \in orphans
    /\ orphans' = orphans \ {r}
    /\ \/ /\ checkout[r] = "partial"
          /\ checkout' = [checkout EXCEPT ![r] = CloneOf(r)]
          /\ UNCHANGED <<guarded, work>>
       \/ UNCHANGED <<checkout, guarded, work>>
       \/ TakenAway(r)
    /\ UNCHANGED <<pc, plan, todo, dir, root, repos, adrift, saved, push>>

(* The workspace it cloned into was moved or removed: it fails, and what   *)
(* it removes by its path is what a later attempt has put there, perhaps   *)
(* from under another clone.  Several at one path count as one.            *)
AdriftFails(r) ==
    /\ r \in adrift
    /\ \/ /\ adrift' = adrift \ {r}
          /\ UNCHANGED <<checkout, guarded, work, orphans>>
       \/ /\ TakenAway(r)
          /\ orphans' = orphans \ {r}
          /\ adrift' = IF r \in orphans THEN adrift ELSE adrift \ {r}
    /\ UNCHANGED <<pc, plan, todo, dir, root, repos, saved, push>>

-----------------------------------------------------------------------------
(* The agent *)

(* It has the workspace to itself: checkouts that earlier plans have left  *)
(* there are within its reach too.                                         *)
AgentWorks(r) ==
    /\ pc = "agent"
    /\ checkout[r] # "absent"
    /\ work' = work \union {r}
    /\ UNCHANGED <<pc, plan, todo, disk, saved, push>>

(* It may leave files, or a clone, in the root.                            *)
AgentStrays ==
    /\ pc = "agent"
    /\ root' \in {"stray", "git"}
    /\ UNCHANGED <<pc, plan, todo, dir, repos, checkout, guarded, orphans, adrift, agent>>

(* The pre-push guard, called with the branch checked out, the local ref   *)
(* and the remote ref of a push (never a deletion)                         *)
GuardAllows(current, local, remote) ==
    /\ current = Expected
    /\ local \in {Expected, "HEAD"}
    /\ remote = Expected

AgentPushes(r, verified, current, local, remote) ==
    /\ pc = "agent"
    /\ checkout[r] # "absent"
    /\ r \in guarded /\ verified => GuardAllows(current, local, remote)
    /\ push' = [branch |-> remote, planned |-> r \in plan, verified |-> verified]
    /\ UNCHANGED <<pc, plan, todo, disk, work, saved>>

(* It ends, fails or is cancelled.                                         *)
AgentEnds ==
    /\ pc = "agent"
    /\ pc' = "idle"
    /\ push' = NoPush
    /\ UNCHANGED <<plan, todo, disk, work, saved>>

-----------------------------------------------------------------------------
(* remove_for_identifier, for an issue that is closed *)

RemoveStarts ==
    /\ pc = "idle"
    /\ dir
    /\ pc' = "removing"
    /\ UNCHANGED <<plan, todo, disk, agent>>

(* before_remove has ended, well or not; the tree is removed, or, when     *)
(* rmtree raises, part of it.                                              *)
Removed ==
    /\ pc = "removing"
    /\ pc' = "idle"
    /\ \E left \in SUBSET {r \in Repos : checkout[r] # "absent"} :
          /\ checkout' = [r \in Repos |-> IF r \in left THEN checkout[r] ELSE "absent"]
          /\ guarded' = guarded \intersect left
          /\ work' = work \intersect left
          /\ dir' = (left # {})
          /\ repos' = (left # {})
          /\ orphans' \in SUBSET (orphans \intersect left)
    /\ root' = "clean"
    /\ adrift' = adrift \union (orphans \ orphans')
    /\ UNCHANGED <<plan, todo, saved, push>>

Attempt ==
    \/ Create \/ Hooked \/ Ensure \/ BranchRead \/ GitDone \/ Configured \/ Vanished
    \/ \E p \in SUBSET Repos : Plan(p)

Trouble == Fails \/ KilledAtTimeout \/ Cancelled

Next ==
    \/ Attempt
    \/ Trouble
    \/ Reaped
    \/ \E r \in Repos : OrphanEnds(r) \/ AdriftFails(r) \/ AgentWorks(r)
    \/ \E r \in Repos, verified \in BOOLEAN, current, remote \in Branches,
          local \in Branches \union {"HEAD"} : AgentPushes(r, verified, current, local, remote)
    \/ AgentStrays
    \/ AgentEnds
    \/ RemoveStarts
    \/ Removed

(* An issue that is not closed is attempted again, and commands and hooks  *)
(* have timeouts.  Nothing bounds the wait for a killed one's output,      *)
(* before_remove included, and nothing is assumed of the agent.            *)
Spec == Init /\ [][Next]_vars /\ WF_vars(Attempt)

-----------------------------------------------------------------------------
(* Properties *)

(* README.md: "Each planned repo is checked out on a Symphony-prepared     *)
(* branch".                                                                *)
AgentFindsPreparedBranch ==
    pc = "agent" => \A r \in plan : checkout[r] = "prepared"

(* README.md: "Agents can work across repos without accidentally pushing   *)
(* inherited local branches".                                              *)
NoAccidentalPush == push.verified => push.branch = Expected

(* Whatever failed before it, a push that git lets the hook see, from a    *)
(* checkout of the plan, goes to the issue's branch and nowhere else.      *)
(* Elsewhere go only pushes with --no-verify, and pushes from a checkout   *)
(* that an earlier plan has left without its guard.                        *)
PushesStayOnIssueBranch == push.planned /\ push.verified => push.branch = Expected

(* Work of the agent is not lost to a later attempt: it is there until it  *)
(* lies in quarantine or the issue is closed, unless a clone that a        *)
(* cancelled attempt left running fails and takes the checkout with it.    *)
WorkIsKept ==
    [][pc # "removing" =>
          \A r \in work \ work' :
             r \in saved' \/ r \in orphans \ orphans' \/ r \in adrift \ adrift']_vars

(* No history of failures makes the workspace unusable: when commands no   *)
(* longer fail and the issue is open, an agent runs in it again and again, *)
(* unless the output of a killed command, or the removal's hook, holds the *)
(* attempt up for ever.                                                    *)
SetupRecovers ==
    <>[][~Trouble /\ ~RemoveStarts]_vars =>
       []<>(pc = "agent") \/ <>[](pc \in {"killed", "removing"})
=============================================================================
