----------------------------- MODULE ReviewGate -----------------------------
(***************************************************************************)
(* The review gate: reconcile_review_issues of symphony/orchestrator.py    *)
(* and ReviewPullRequestResolver.evaluate of symphony/review.py, for one   *)
(* issue under review.  Each tick evaluates the issue once more: it gathers*)
(* the pull requests (PRs) the issue, its workpad and its branch name,     *)
(* follows the dependencies their bodies name, and moves the issue to Done *)
(* when what it saw allows it.  Every request is a suspension at which     *)
(* people may merge or retarget a PR or move the issue.                    *)
(***************************************************************************)
EXTENDS Naturals, FiniteSets

CONSTANTS
    PRs,            \* the pull requests of the code host
    Attached,       \* those the issue's attachments link
    InWorkpad,      \* those a workpad comment of the issue links
    OnBranch,       \* for each repository of the issue, those opened from its branch
    Deps,           \* the PRs that the body of a PR names
    Cap,            \* MAX_DEPENDENCY_PRS
    SourcesMayFail  \* may a request for attachments, comments or branches fail?

ASSUME SourcesAssumption ==
    /\ Attached \subseteq PRs
    /\ InWorkpad \subseteq PRs
    /\ OnBranch \subseteq SUBSET PRs
ASSUME DepsAssumption == Deps \in [PRs -> SUBSET PRs]
ASSUME FaultAssumption == SourcesMayFail \in BOOLEAN

VARIABLES
    pr,         \* where each PR stands: see Standings
    board,      \* the state of the issue: "review", "done" or "other"
    stage,      \* where the gate is suspended
    urls,       \* initial PRs still to be looked up
    branches,   \* branches whose PRs are still to be listed
    required,   \* what was seen of each PR looked up, or "unseen"
    unresolved, \* PRs whose look-up failed
    queue,      \* required PRs whose dependencies are still to be followed
    refs        \* dependencies of the current PR still to be looked up

vars == <<pr, board, stage, urls, branches, required, unresolved, queue, refs>>
gate == <<stage, urls, branches, required, unresolved, queue, refs>>
world == <<pr, board>>

(* A PR is open or merged, and targets the configured base branch or not;  *)
(* a PR that is closed blocks the gate as an open one does.                *)
Standings == {"open", "merged", "openElsewhere", "mergedElsewhere"}
Stages == {"idle", "hydrate", "comments", "urls", "deps", "save"}

Seen == {p \in PRs : required[p] # "unseen"}

TypeOK ==
    /\ pr \in [PRs -> Standings]
    /\ board \in {"review", "done", "other"}
    /\ stage \in Stages
    /\ urls \subseteq PRs
    /\ branches \subseteq OnBranch
    /\ required \in [PRs -> Standings \union {"unseen"}]
    /\ unresolved \subseteq PRs
    /\ queue \subseteq PRs
    /\ refs \subseteq PRs

Nothing == [p \in PRs |-> "unseen"]

Init ==
    /\ pr \in [PRs -> Standings]
    /\ board \in {"review", "other"}
    /\ stage = "idle"
    /\ urls = {}
    /\ branches = {}
    /\ required = Nothing
    /\ unresolved = {}
    /\ queue = {}
    /\ refs = {}

-----------------------------------------------------------------------------
(* The gate *)

(* The evaluation is over, or is abandoned.                                *)
Rest ==
    /\ stage' = "idle"
    /\ urls' = {}
    /\ branches' = {}
    /\ required' = Nothing
    /\ unresolved' = {}
    /\ queue' = {}
    /\ refs' = {}

(* fetch_issues_by_states finds the issue in a review state.               *)
Fetch ==
    /\ stage = "idle"
    /\ board = "review"
    /\ stage' = "hydrate"
    /\ UNCHANGED <<world, urls, branches, required, unresolved, queue, refs>>

(* fetch_issue_states_by_ids returns the issue with its attachments; when  *)
(* it fails, the answer of the list request is used as it is.  The state   *)
(* of the issue is not looked at again.                                    *)
Hydrate ==
    /\ stage = "hydrate"
    /\ stage' = "comments"
    /\ urls' = Attached \/ (SourcesMayFail /\ urls' = {})
    /\ UNCHANGED <<world, branches, required, unresolved, queue, refs>>

(* list_issue_comments; any failure counts as no comments.                 *)
Comments ==
    /\ stage = "comments"
    /\ stage' = "urls"
    /\ urls' = urls \union InWorkpad \/ (SourcesMayFail /\ urls' = urls)
    /\ UNCHANGED <<world, branches, required, unresolved, queue, refs>>

(* _add_required                                                           *)
AddRequired(p) ==
    /\ required' = [required EXCEPT ![p] = pr[p]]
    /\ queue' = queue \union {p}

(* view_pr_url answers for an initial PR ...                               *)
ViewUrl(p) ==
    /\ stage = "urls"
    /\ p \in urls
    /\ urls' = urls \ {p}
    /\ AddRequired(p)
    /\ UNCHANGED <<world, stage, branches, unresolved, refs>>

(* ... or gives nothing.                                                   *)
UrlFails(p) ==
    /\ stage = "urls"
    /\ p \in urls
    /\ urls' = urls \ {p}
    /\ unresolved' = unresolved \union {p}
    /\ UNCHANGED <<world, stage, branches, required, queue, refs>>

(* The metadata of the workspace name the branches; unreadable, they name  *)
(* none.                                                                   *)
LoadMetadata ==
    /\ stage = "urls"
    /\ urls = {}
    /\ stage' = "deps"
    /\ branches' = OnBranch \/ (SourcesMayFail /\ branches' = {})
    /\ UNCHANGED <<world, urls, required, unresolved, queue, refs>>

(* list_prs_for_branch lists the PRs of a branch that target the base      *)
(* branch; a request that fails lists none.                                *)
ListBranch(B) ==
    /\ stage = "deps"
    /\ B \in branches
    /\ branches' = branches \ {B}
    /\ LET listed == {p \in B : pr[p] \in {"open", "merged"}} \ Seen
       IN  \/ /\ required' = [p \in PRs |-> IF p \in listed THEN pr[p] ELSE required[p]]
              /\ queue' = queue \union listed
           \/ SourcesMayFail /\ UNCHANGED <<required, queue>>
    /\ UNCHANGED <<world, stage, urls, unresolved, refs>>

Following == stage = "deps" /\ branches = {} /\ refs = {}

(* A PR that fails both as a link and as a dependency counts twice in the  *)
(* code and once here; one failure has closed the gate already.            *)
RoomLeft == Cardinality(Seen) + Cardinality(unresolved) < Cap

(* The next required PR, and the dependencies it names that are not        *)
(* required yet.                                                           *)
ShallowDequeue(p) ==
    /\ Following
    /\ p \in queue
    /\ RoomLeft
    /\ queue' = queue \ {p}
    /\ refs' = IF p \in Attached THEN Deps[p] \ Seen ELSE {}
    /\ UNCHANGED <<world, stage, urls, branches, required, unresolved>>

EndlessDequeue(p) ==
    /\ Following
    /\ p \in queue
    /\ RoomLeft
    /\ refs' = Deps[p] \ Seen
    /\ UNCHANGED <<world, stage, urls, branches, required, unresolved, queue>>

Dequeue(p) ==
    /\ Following
    /\ p \in queue
    /\ RoomLeft
    /\ queue' = queue \ {p}
    /\ refs' = Deps[p] \ Seen
    /\ UNCHANGED <<world, stage, urls, branches, required, unresolved>>

ViewRef(p) ==
    /\ stage = "deps"
    /\ p \in refs
    /\ refs' = refs \ {p}
    /\ AddRequired(p)
    /\ UNCHANGED <<world, stage, urls, branches, unresolved>>

RefFails(p) ==
    /\ stage = "deps"
    /\ p \in refs
    /\ refs' = refs \ {p}
    /\ unresolved' = unresolved \union {p}
    /\ UNCHANGED <<world, stage, urls, branches, required, queue>>

(* _merge_blockers                                                         *)
Ready ==
    /\ Seen # {}
    /\ unresolved = {}
    /\ \A p \in Seen : required[p] = "merged"

(* The loop over the dependencies ends: the queue is empty, or the number  *)
(* of PRs has reached the cap.                                             *)
Gathered == Following /\ (queue = {} \/ ~RoomLeft)

Evaluate ==
    /\ Gathered
    /\ IF Ready
       THEN /\ stage' = "save"
            /\ UNCHANGED <<urls, branches, required, unresolved, queue, refs>>
       ELSE Rest
    /\ UNCHANGED world

(* save_issue_state moves the issue, whatever state it is in by now ...    *)
Save ==
    /\ stage = "save"
    /\ board' = "done"
    /\ Rest
    /\ UNCHANGED pr

(* ... or fails, and the next tick starts again.                           *)
SaveFails ==
    /\ stage = "save"
    /\ Rest
    /\ UNCHANGED world

(* The service stops, or another request of the tick fails.                *)
Interrupted ==
    /\ stage # "idle"
    /\ ~Gathered
    /\ Rest
    /\ UNCHANGED world

-----------------------------------------------------------------------------
(* People *)

(* A merge is final.                                                       *)
Merge(p) ==
    /\ \/ pr[p] = "open" /\ pr' = [pr EXCEPT ![p] = "merged"]
       \/ pr[p] = "openElsewhere" /\ pr' = [pr EXCEPT ![p] = "mergedElsewhere"]
    /\ UNCHANGED <<board, gate>>

Retarget(p) ==
    /\ \/ pr[p] = "open" /\ pr' = [pr EXCEPT ![p] = "openElsewhere"]
       \/ pr[p] = "openElsewhere" /\ pr' = [pr EXCEPT ![p] = "open"]
    /\ UNCHANGED <<board, gate>>

MoveIssue ==
    /\ board' \in {"review", "other"}
    /\ UNCHANGED <<pr, gate>>

GateStep ==
    \/ Fetch \/ Hydrate \/ Comments \/ LoadMetadata \/ Evaluate \/ Save \/ SaveFails
    \/ \E B \in OnBranch : ListBranch(B)
    \/ \E p \in PRs : ViewUrl(p) \/ UrlFails(p) \/ Dequeue(p) \/ ViewRef(p) \/ RefFails(p)

Next ==
    \/ GateStep
    \/ Interrupted
    \/ MoveIssue
    \/ \E p \in PRs : Merge(p) \/ Retarget(p)

Spec == Init /\ [][Next]_vars

(* The loop of the service ticks again and again, and a request ends.      *)
FairSpec == Spec /\ WF_vars(GateStep)

-----------------------------------------------------------------------------
(* Properties *)

(* The PRs the issue and its workpad link, and all that these depend on    *)
ClosedUnderDeps(S) == \A p \in S : Deps[p] \subseteq S
LinkedPRs ==
    {p \in PRs : \A S \in SUBSET PRs :
        Attached \union InWorkpad \subseteq S /\ ClosedUnderDeps(S) => p \in S}

MovesToDone == stage = "save" /\ board' = "done"

(* docs/IMPLEMENTATION.md: "moves Linear issues to `Done` only after       *)
(* required GitHub PRs are merged into the configured base branch".        *)
DoneOnlyAfterMerge == [][MovesToDone => \A p \in LinkedPRs : pr[p] = "merged"]_vars

(* What makes the gate sound although it reads PR after PR while people    *)
(* merge and retarget them: a PR seen as merged stays so, which covers all *)
(* that was seen even when the cap was reached, ...                        *)
MergesAreFinal == \A p \in PRs : required[p] = "merged" => pr[p] = "merged"

(* ... and no link is forgotten: once the initial PRs are looked up, every *)
(* one is required or unresolved, and so is every dependency of a required *)
(* PR that has left the queue, but for the ones being looked up.           *)
NothingForgotten ==
    ~SourcesMayFail =>
        /\ stage = "comments" => Attached \subseteq urls
        /\ stage \in {"urls", "deps", "save"} =>
              Attached \union InWorkpad \subseteq urls \union Seen \union unresolved
        /\ stage \in {"deps", "save"} => urls = {}
        /\ \A p \in Seen \ queue : Deps[p] \subseteq Seen \union unresolved \union refs
        /\ stage = "save" => refs = {} /\ Ready

(* When every source answers and the cap was not reached, DoneOnlyAfter-   *)
(* Merge holds, however the merges, retargetings and requests interleave.  *)
GateIsSound ==
    [][MovesToDone /\ queue = {} /\ ~SourcesMayFail
          => \A p \in LinkedPRs : pr[p] = "merged"]_vars

Trouble ==
    \/ SaveFails
    \/ Interrupted
    \/ \E p \in PRs : UrlFails(p) \/ RefFails(p)

(* An issue that stays under review with all its PRs merged is moved to    *)
(* Done, if requests fail and ticks are cut short finitely often: the walk *)
(* over the dependencies, cyclic ones included, comes to an end.           *)
MergedIssueIsFinished ==
    <>[][~Trouble]_vars => ~<>[](board = "review" /\ \A p \in PRs : pr[p] = "merged")
=============================================================================
