---------------------------- MODULE IssueListing ----------------------------
(***************************************************************************)
(* The list of candidate issues that tick and the retry timers ask for:    *)
(* LinearClient._fetch_by_states and LinearMcpClient.fetch_candidate_issues *)
(* of tracker.py.  A list comes in pages, one request each; the MCP client *)
(* asks for one state after the other, and its lists do not tell what      *)
(* blocks an issue, so that it asks once more for each issue in Todo.      *)
(* People move issues on the board between any two requests.  The board    *)
(* and its pages are external: a cursor is the last issue of a page, and   *)
(* the next page holds what then follows it.                               *)
(***************************************************************************)
EXTENDS Naturals, Sequences, FiniteSets, Selections

CONSTANTS
    IssueCount,     \* issues, in the order of their lists
    PageSize,       \* LINEAR_PAGE_SIZE
    MaxMoves        \* bound on the moves during one fetch

ASSUME CountAssumption == IssueCount \in Nat \ {0}
ASSUME PageAssumption == PageSize \in Nat \ {0}
ASSUME MovesAssumption == MaxMoves \in Nat

Issues == 1 .. IssueCount
States == {"Todo", "In Progress", "Done"}
Active == {"Todo", "In Progress"}       \* tracker.active_states

VARIABLES
    client,     \* which of the two is used: see make_tracker
    at,         \* "idle", "list", "hydrate", "done" or "failed"
    pass,       \* the pass it is in
    cursor,     \* the issue the last page ended with, 0 for none
    found,      \* issues: what was read, in order
    next,       \* the index _hydrate_todo_blockers has come to
    board,      \* the state of each issue
    moved,      \* issues moved since the fetch began
    was         \* the states each issue was in since the fetch began

fetch == <<client, at, pass, cursor, found, next>>
people == <<board, moved, was>>
listingVars == <<fetch, people>>

(* What is asked for in each pass of fetch_candidate_issues; LinearClient  *)
(* asks for all states at once.                                            *)
PerState == client = "linear_mcp"
Passes == IF PerState THEN <<{"Todo"}, {"In Progress"}>> ELSE <<Active>>

(* related: does the record tell what blocks the issue?                    *)
Records == [issue : Issues, state : States, related : BOOLEAN]

ListingTypeOK ==
    /\ client \in {"linear", "linear_mcp"}
    /\ at \in {"idle", "list", "hydrate", "done", "failed"}
    /\ pass \in 1 .. Len(Passes)
    /\ cursor \in 0 .. IssueCount
    /\ found \in Seq(Records)
    /\ next \in 1 .. Len(found) + 1
    /\ board \in [Issues -> States]
    /\ moved \subseteq Issues
    /\ was \in [Issues -> SUBSET States]

ListingInit ==
    /\ client \in {"linear", "linear_mcp"}
    /\ at = "idle"
    /\ pass = 1
    /\ cursor = 0
    /\ found = <<>>
    /\ next = 1
    /\ board \in [Issues -> States]
    /\ moved = {}
    /\ was = [i \in Issues |-> {board[i]}]

-----------------------------------------------------------------------------
(* External: the board and what it answers *)

Move(i, s) ==
    /\ at # "idle" /\ at \notin {"done", "failed"}
    /\ s # board[i]
    /\ Cardinality(moved) < MaxMoves \/ i \in moved
    /\ board' = [board EXCEPT ![i] = s]
    /\ moved' = moved \union {i}
    /\ was' = [was EXCEPT ![i] = @ \union {s}]
    /\ UNCHANGED fetch

(* The issues that follow a cursor; a page is the first PageSize of them.  *)
Following(states, after) == {i \in Issues : i > after /\ board[i] \in states}

(* Only GraphQL answers lists with relations.                              *)
RecordOf(i) == [issue |-> i, state |-> board[i], related |-> ~PerState]

-----------------------------------------------------------------------------
(* The fetch *)

BeginFetch ==
    /\ at \in {"idle", "done", "failed"}
    /\ at' = "list"
    /\ pass' = 1
    /\ cursor' = 0
    /\ found' = <<>>
    /\ next' = 1
    /\ moved' = {}
    /\ was' = [i \in Issues |-> {board[i]}]
    /\ UNCHANGED <<client, board>>

(* Faulty: a pass begins where the one before it stopped.                  *)
AfterLastPageKeepingCursor(last) ==
    /\ cursor' = last
    /\ IF pass < Len(Passes) THEN pass' = pass + 1 /\ UNCHANGED at
       ELSE at' = "hydrate" /\ UNCHANGED pass

AfterLastPage(last) ==
    /\ cursor' = 0
    /\ IF pass < Len(Passes) THEN pass' = pass + 1 /\ UNCHANGED at
       ELSE at' = "hydrate" /\ UNCHANGED pass

(* One page: its nodes are added, and hasNextPage decides what comes.      *)
ReadPage ==
    /\ at = "list"
    /\ LET rest == Following(Passes[pass], cursor)
           size == IF Cardinality(rest) < PageSize THEN Cardinality(rest) ELSE PageSize
           page == [k \in 1 .. size |-> RecordOf(InOrder(rest)[k])]
       IN /\ found' = found \o page
          /\ IF Cardinality(rest) > PageSize
             THEN cursor' = page[size].issue /\ UNCHANGED <<at, pass>>
             ELSE AfterLastPage(cursor)
    /\ UNCHANGED <<client, next, people>>

InTodoFrom(k) == {j \in DOMAIN found : j >= k /\ found[j].state = "Todo"}

(* Faulty: passes over the issue after each one it asks for.               *)
AfterNext(k) == k + 2

Onward(k) == k + 1

(* _hydrate_todo_blockers: the issue is asked for by its identifier, and   *)
(* what has become of it since stands in the list, whatever its state is.  *)
Hydrate ==
    /\ at = "hydrate" /\ PerState
    /\ InTodoFrom(next) # {}
    /\ LET k == CHOOSE j \in InTodoFrom(next) : \A h \in InTodoFrom(next) : j <= h
       IN /\ found' = [found EXCEPT ![k] = [RecordOf(@.issue) EXCEPT !.related = TRUE]]
          /\ next' = Onward(k)
    /\ UNCHANGED <<client, at, pass, cursor, people>>

(* Faulty: returns the list as it is.                                      *)
NotDedupedIssues(s) == s

(* _dedupe_issues keeps the first record of each issue.                    *)
DedupedIssues(s) ==
    Picked(s, {k \in DOMAIN s : \A j \in 1 .. k - 1 : s[j].issue # s[k].issue})

Return ==
    /\ at = "hydrate"
    /\ PerState => InTodoFrom(next) = {}
    /\ at' = "done"
    /\ found' = IF PerState THEN DedupedIssues(found) ELSE found
    /\ next' = 1
    /\ UNCHANGED <<client, pass, cursor, people>>

(* Any request may fail: a TrackerError, and nothing is returned.          *)
FetchFails ==
    /\ at \in {"list", "hydrate"}
    /\ at' = "failed"
    /\ found' = <<>>
    /\ next' = 1
    /\ UNCHANGED <<client, pass, cursor, people>>

Fetching == ReadPage \/ Hydrate \/ Return

ListingNext ==
    \/ BeginFetch \/ Fetching \/ FetchFails
    \/ \E i \in Issues, s \in States : Move(i, s)

ListingSpec == ListingInit /\ [][ListingNext]_listingVars

-----------------------------------------------------------------------------
(* Properties *)

(* An active issue nobody moves during the fetch is among the candidates,  *)
(* as it is; issues that come and go around it on the pages do not hide it.*)
SteadyIssueIsListed ==
    at = "done" =>
        \A i \in Issues \ moved : board[i] \in Active =>
            \E k \in DOMAIN found : found[k].issue = i /\ found[k].state = board[i]

(* No issue is a candidate twice, though one that is moved on may be read  *)
(* in two lists, and none is given a state it was not in meanwhile.        *)
AnswerIsAccurate ==
    at = "done" =>
        /\ \A j, k \in DOMAIN found : found[j].issue = found[k].issue => j = k
        /\ \A k \in DOMAIN found : found[k].state \in was[found[k].issue]

(* Nothing is offered for dispatch as Todo without its blockers: the issue *)
(* would be taken for unblocked.                                           *)
TodoKnowsItsBlockers ==
    at = "done" => \A k \in DOMAIN found : found[k].state = "Todo" => found[k].related

(* What tick may build on, whoever moves what between the requests: nobody *)
(* who stays is missing, nothing is there twice or untrue, and no Todo     *)
(* issue comes without its blockers.                                       *)
AnswerIsUsable == SteadyIssueIsListed /\ AnswerIsAccurate /\ TodoKnowsItsBlockers
=============================================================================
