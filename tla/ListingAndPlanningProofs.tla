---------------------- MODULE ListingAndPlanningProofs ----------------------
(***************************************************************************)
(* Proofs about the two components that go through lists: the candidate    *)
(* list of tracker.py (IssueListing) and the repository plan (RepoPlanning). *)
(* First what a comprehension makes of a list, for both (Selections).      *)
(***************************************************************************)
EXTENDS IssueListing, RepoPlanning, FiniteSetTheorems, SequenceTheorems, TLAPS

-----------------------------------------------------------------------------
(* Selections *)

(* A set of numbers that has a member has a least one.                     *)
LEMMA Least ==
    ASSUME NEW S \in SUBSET Nat, S # {}
    PROVE  \E m \in S : \A j \in S : m <= j
<1>. DEFINE below(m) == {j \in S : j < m}
            Belows == {below(m) : m \in S}
            R == StrictSubsetOrdering(Nat)
<1>1. IsWellFoundedOn(R, FiniteSubsetsOf(Nat))
  BY FS_StrictSubsetOrderingWellFounded
<1>2. Belows \subseteq FiniteSubsetsOf(Nat)
  <2>. SUFFICES ASSUME NEW m \in S PROVE below(m) \in FiniteSubsetsOf(Nat)
    OBVIOUS
  <2>0. m \in Nat
    OBVIOUS
  <2>1. below(m) \in SUBSET Nat /\ \A j \in below(m) : j <= m
    <3>1. \A j \in below(m) : j \in Nat /\ j < m
      OBVIOUS
    <3>. HIDE DEF below
    <3>. QED  BY <2>0, <3>1
  <2>2. IsFiniteSet(below(m))
    BY <2>0, <2>1, FS_BoundedSetOfNaturals
  <2>. QED  BY <2>1, <2>2 DEF FiniteSubsetsOf
<1>3. Belows # {}
  OBVIOUS
<1>4. \E A \in Belows : \A B \in Belows : <<B, A>> \notin R
  <2>. HIDE DEF Belows, R
  <2>. QED  BY <1>1, <1>2, <1>3, WFMin
<1>5. PICK m \in S : \A B \in Belows : <<B, below(m)>> \notin R
  BY <1>4
<1>6. ASSUME NEW j \in S, j < m PROVE FALSE
  <2>1. j \in Nat /\ m \in Nat /\ \A x \in S : x \in Nat
    BY <1>6
  <2>1a. j \in below(m) /\ j \notin below(j)
    BY <1>6, <2>1
  <2>1b. \A x \in S : x < j => x < m
    BY <1>6, <2>1
  <2>1c. below(j) \subseteq below(m) /\ below(j) \subseteq Nat /\ below(m) \subseteq Nat
    BY <2>1, <2>1b
  <2>2. <<below(j), below(m)>> \in R
    <3>. HIDE DEF below
    <3>. QED  BY <2>1a, <2>1c DEF StrictSubsetOrdering
  <2>. QED  BY <1>5, <2>2
<1>7. \A j \in S : j \in Nat /\ m \in Nat
  OBVIOUS
<1>. QED  BY <1>6, <1>7

(* e runs through S from its least member to its greatest.                 *)
Orders(e, S) ==
    /\ e \in [1 .. Cardinality(S) -> S]
    /\ \A j, k \in 1 .. Cardinality(S) : j < k => e[j] < e[k]
    /\ \A i \in S : \E k \in 1 .. Cardinality(S) : e[k] = i

(* What is right for all smaller sets of numbers is right for a set ...    *)
LEMMA OrderingGrows ==
    ASSUME NEW S \in SUBSET Nat, IsFiniteSet(S), S # {},
           \A T \in SUBSET Nat : IsFiniteSet(T) /\ Cardinality(T) < Cardinality(S)
                                   => \E e : Orders(e, T)
    PROVE  \E e : Orders(e, S)
<1>1. PICK m \in S : \A j \in S : m <= j
  BY Least
<1>. DEFINE T == S \ {m}
<1>2. /\ T \in SUBSET Nat /\ IsFiniteSet(T)
      /\ Cardinality(S) \in Nat /\ Cardinality(T) \in Nat
      /\ Cardinality(S) = Cardinality(T) + 1
  <2>1. IsFiniteSet(T) /\ Cardinality(T) = Cardinality(S) - 1
    BY <1>1, FS_RemoveElement
  <2>2. Cardinality(S) \in Nat /\ Cardinality(T) \in Nat
    BY <2>1, FS_CardinalityType
  <2>3. T \in SUBSET Nat
    OBVIOUS
  <2>. HIDE DEF T
  <2>. QED  BY <2>1, <2>2, <2>3
<1>3. \A j \in T : m < j
  BY <1>1
<1>4. S = T \union {m}
  BY <1>1
<1>. HIDE DEF T
<1>5. PICK e : Orders(e, T)
  BY <1>2
<1>. DEFINE f == [k \in 1 .. Cardinality(S) |-> IF k = 1 THEN m ELSE e[k - 1]]
<1>6. \A k \in 1 .. Cardinality(S) : k # 1 => k - 1 \in 1 .. Cardinality(T) /\ f[k] = e[k - 1]
                                                /\ e[k - 1] \in T
  BY <1>2, <1>5 DEF Orders
<1>7. f[1] = m
  BY <1>2
<1>8. f \in [1 .. Cardinality(S) -> S]
  BY <1>4, <1>6, <1>7
<1>9. \A j, k \in 1 .. Cardinality(S) : j < k => f[j] < f[k]
  <2>. SUFFICES ASSUME NEW j \in 1 .. Cardinality(S), NEW k \in 1 .. Cardinality(S), j < k
                PROVE  f[j] < f[k]
    OBVIOUS
  <2>1. CASE j = 1
    <3>1. k # 1 /\ f[k] \in T
      BY <1>6, <2>1
    <3>. QED  BY <1>3, <1>7, <2>1, <3>1
  <2>2. CASE j # 1
    <3>1. j - 1 < k - 1 /\ k # 1
      BY <1>2, <2>2
    <3>. QED  BY <1>5, <1>6, <2>2, <3>1 DEF Orders
  <2>. QED  BY <2>1, <2>2
<1>10. \A i \in S : \E k \in 1 .. Cardinality(S) : f[k] = i
  <2>. SUFFICES ASSUME NEW i \in S PROVE \E k \in 1 .. Cardinality(S) : f[k] = i
    OBVIOUS
  <2>1. CASE i = m
    BY <1>2, <1>7, <2>1
  <2>2. CASE i # m
    <3>1. PICK k \in 1 .. Cardinality(T) : e[k] = i
      BY <1>4, <1>5, <2>2 DEF Orders
    <3>2. k + 1 \in 1 .. Cardinality(S) /\ k + 1 # 1 /\ (k + 1) - 1 = k
      BY <1>2
    <3>. QED  BY <1>6, <3>1, <3>2
  <2>. QED  BY <2>1, <2>2
<1>. HIDE DEF f
<1>11. Orders(f, S)
  BY <1>8, <1>9, <1>10 DEF Orders
<1>. QED  BY <1>11

(* ... and so for each: every finite set of numbers can be put in order.   *)
LEMMA OrderingExists ==
    ASSUME NEW S \in SUBSET Nat, IsFiniteSet(S)
    PROVE  \E e : Orders(e, S)
<1>. DEFINE Bad == {n \in Nat : \E T \in SUBSET Nat :
                        IsFiniteSet(T) /\ Cardinality(T) = n /\ ~\E e : Orders(e, T)}
<1>1. Bad = {}
  <2>. SUFFICES ASSUME Bad # {} PROVE FALSE
    OBVIOUS
  <2>1. PICK n \in Bad : \A j \in Bad : n <= j
    <3>1. Bad \in SUBSET Nat
      OBVIOUS
    <3>. HIDE DEF Bad
    <3>. QED  BY <3>1, Least
  <2>2. PICK T \in SUBSET Nat : IsFiniteSet(T) /\ Cardinality(T) = n /\ ~\E e : Orders(e, T)
    BY <2>1
  <2>3. CASE T = {}
    <3>. DEFINE e == [k \in 1 .. 0 |-> 0]
    <3>1. Cardinality(T) = 0
      BY <2>3, FS_EmptySet
    <3>2. 1 .. 0 = {}
      OBVIOUS
    <3>3. e \in [1 .. 0 -> {}]
      BY <3>2
    <3>. HIDE DEF e
    <3>4. Orders(e, T)
      BY <2>3, <3>1, <3>2, <3>3 DEF Orders
    <3>. QED  BY <2>2, <3>4
  <2>4. CASE T # {}
    <3>1. ASSUME NEW U \in SUBSET Nat, IsFiniteSet(U), Cardinality(U) < Cardinality(T)
          PROVE  \E e : Orders(e, U)
      <4>1. Cardinality(U) \in Nat /\ n \in Nat /\ ~(n <= Cardinality(U))
        BY <2>1, <2>2, <3>1, FS_CardinalityType
      <4>2. Cardinality(U) \notin Bad
        BY <2>1, <4>1
      <4>. QED  BY <3>1, <4>1, <4>2
    <3>. QED  BY <2>2, <2>4, <3>1, OrderingGrows
  <2>. QED  BY <2>3, <2>4
<1>2. Cardinality(S) \in Nat
  BY FS_CardinalityType
<1>. QED  BY <1>1, <1>2

LEMMA InOrderProperties ==
    ASSUME NEW S \in SUBSET Nat, IsFiniteSet(S)
    PROVE  Orders(InOrder(S), S) /\ Cardinality(S) \in Nat
<1>1. PICK e : Orders(e, S)
  BY OrderingExists
<1>2. \E f \in [1 .. Cardinality(S) -> S] :
         /\ \A j, k \in 1 .. Cardinality(S) : j < k => f[j] < f[k]
         /\ \A i \in S : \E k \in 1 .. Cardinality(S) : f[k] = i
  BY <1>1 DEF Orders
<1>. QED  BY <1>2, FS_CardinalityType DEF InOrder, Orders

(* What is picked from a sequence are its elements at different positions  *)
LEMMA PickedProperties ==
    ASSUME NEW T, NEW s \in Seq(T), NEW S \in SUBSET (1 .. Len(s))
    PROVE  /\ Picked(s, S) \in Seq(T)
           /\ Len(Picked(s, S)) = Cardinality(S)
           /\ \E e : /\ Orders(e, S)
                     /\ \A k \in 1 .. Cardinality(S) : Picked(s, S)[k] = s[e[k]]
<1>1. s \in [1 .. Len(s) -> T] /\ Len(s) \in Nat
  BY LenProperties
<1>2. IsFiniteSet(S) /\ S \in SUBSET Nat
  <2>1. IsFiniteSet(1 .. Len(s)) /\ 1 .. Len(s) \in SUBSET Nat
    BY <1>1, FS_Interval
  <2>. QED  BY <2>1, FS_Subset
<1>3. Orders(InOrder(S), S) /\ Cardinality(S) \in Nat
  BY <1>2, InOrderProperties
<1>4. \A k \in 1 .. Cardinality(S) : Picked(s, S)[k] = s[InOrder(S)[k]] /\ s[InOrder(S)[k]] \in T
  BY <1>1, <1>3 DEF Picked, Orders
<1>5. Picked(s, S) = [k \in 1 .. Cardinality(S) |-> s[InOrder(S)[k]]]
  BY DEF Picked
<1>6. Picked(s, S) \in [1 .. Cardinality(S) -> T]
  BY <1>4, <1>5
<1>7. Picked(s, S) \in Seq(T) /\ Len(Picked(s, S)) = Cardinality(S)
  BY <1>3, <1>6
<1>. QED  BY <1>3, <1>4, <1>7

(* The same, as it is used: different positions of what is picked come     *)
(* from different positions.                                               *)
LEMMA PickedFrom ==
    ASSUME NEW T, NEW s \in Seq(T), NEW S \in SUBSET (1 .. Len(s))
    PROVE  \E p, e : /\ p = Picked(s, S)
                     /\ p \in Seq(T) /\ Len(p) \in Nat /\ DOMAIN p = 1 .. Len(p)
                     /\ \A k \in DOMAIN p : e[k] \in S /\ p[k] = s[e[k]]
                     /\ \A j, k \in DOMAIN p : j # k => e[j] # e[k]
<1>1. PICK p, e : /\ p = Picked(s, S) /\ p \in Seq(T) /\ Len(p) = Cardinality(S)
                  /\ Orders(e, S)
                  /\ \A k \in 1 .. Cardinality(S) : p[k] = s[e[k]]
  BY PickedProperties
<1>2. Len(p) \in Nat /\ DOMAIN p = 1 .. Len(p)
  BY <1>1, LenProperties
<1>3. \A k \in DOMAIN p : e[k] \in S /\ p[k] = s[e[k]]
  BY <1>1, <1>2 DEF Orders
<1>4. ASSUME NEW j \in DOMAIN p, NEW k \in DOMAIN p, j # k PROVE e[j] # e[k]
  <2>1. j < k \/ k < j
    BY <1>2, <1>4
  <2>2. e[j] \in Nat /\ e[k] \in Nat
    <3>1. \A i \in S : i \in Nat
      BY LenProperties
    <3>. QED  BY <1>3, <3>1
  <2>3. e[j] < e[k] \/ e[k] < e[j]
    BY <1>1, <1>2, <2>1 DEF Orders
  <2>. QED  BY <2>2, <2>3
<1>5. /\ p = Picked(s, S)
      /\ p \in Seq(T) /\ Len(p) \in Nat /\ DOMAIN p = 1 .. Len(p)
      /\ \A k \in DOMAIN p : e[k] \in S /\ p[k] = s[e[k]]
      /\ \A j, k \in DOMAIN p : j # k => e[j] # e[k]
  BY <1>1, <1>2, <1>3, <1>4
<1>. WITNESS p, e
<1>. QED  BY <1>5

-----------------------------------------------------------------------------
(* The candidate list: the invariant of a fetch *)

Read(i) == \E k \in DOMAIN found : found[k].issue = i /\ found[k].state = board[i]
Steady(i) == i \notin moved /\ board[i] \in Active
Passed(i) == \/ board[i] \in Passes[pass] /\ i <= cursor
             \/ \E p \in 1 .. pass - 1 : board[i] \in Passes[p]

(* What stays in place is read as the passes and their pages go over it.   *)
SteadyIsRead ==
    /\ at = "list" => \A i \in Issues : Steady(i) /\ Passed(i) => Read(i)
    /\ at \in {"hydrate", "done"} => \A i \in Issues : Steady(i) => Read(i)

(* A record tells a state its issue was in, and the present one if nobody  *)
(* has moved it.                                                           *)
RecordsAreTrue ==
    /\ \A i \in Issues : board[i] \in was[i]
    /\ \A k \in DOMAIN found :
          /\ found[k].state \in was[found[k].issue]
          /\ found[k].issue \notin moved => found[k].state = board[found[k].issue]

(* A single list is read in its order, and an answer names no issue twice. *)
NoneTwice ==
    /\ ~PerState => \A j, k \in DOMAIN found : j < k => found[j].issue < found[k].issue
    /\ ~PerState /\ at = "list" => \A k \in DOMAIN found : found[k].issue <= cursor
    /\ at = "done" => \A j, k \in DOMAIN found : found[j].issue = found[k].issue => j = k

(* The Todo issues that lack their blockers are still to be asked for.     *)
BlockersToCome ==
    /\ ~PerState => \A k \in DOMAIN found : found[k].related
    /\ at = "list" => next = 1
    /\ at = "hydrate" => \A k \in DOMAIN found :
                            found[k].state = "Todo" /\ k < next => found[k].related
    /\ at = "done" => TodoKnowsItsBlockers

ListingInv ==
    ListingTypeOK /\ SteadyIsRead /\ RecordsAreTrue /\ NoneTwice /\ BlockersToCome

(* The passes are two, one for each state, or a single one for both.       *)
LEMMA PassesAre ==
    \/ PerState /\ Len(Passes) = 2 /\ Passes[1] = {"Todo"} /\ Passes[2] = {"In Progress"}
    \/ ~PerState /\ Len(Passes) = 1 /\ Passes[1] = Active
<1>1. CASE PerState
  <2>1. Passes = <<{"Todo"}, {"In Progress"}>>
    BY <1>1 DEF Passes
  <2>. QED  BY <1>1, <2>1
<1>2. CASE ~PerState
  <2>1. Passes = <<Active>>
    BY <1>2 DEF Passes
  <2>. QED  BY <1>2, <2>1
<1>. QED  BY <1>1, <1>2

LEMMA PassesCount == Len(Passes) \in {1, 2} /\ Len(Passes) \in Nat
<1>1. Len(Passes) = 1 \/ Len(Passes) = 2
  BY PassesAre
<1>. QED  BY <1>1

LEMMA FoundTyped ==
    ASSUME ListingTypeOK
    PROVE  /\ found \in Seq(Records) /\ Len(found) \in Nat /\ DOMAIN found = 1 .. Len(found)
           /\ \A k \in 1 .. Len(found) : found[k] \in Records
<1>1. found \in Seq(Records)
  BY DEF ListingTypeOK
<1>. QED  BY <1>1, LenProperties, ElementOfSeq

(* The page that is read: it goes on where the last one ended, and leaves  *)
(* nothing out up to where it ends itself.                                 *)
PageOf(page) ==
    /\ page \in Seq(Records)
    /\ found' = found \o page
    /\ \A k \in 1 .. Len(page) : /\ page[k] = RecordOf(page[k].issue)
                                 /\ page[k].issue > cursor
                                 /\ board[page[k].issue] \in Passes[pass]
    /\ \A j, k \in 1 .. Len(page) : j < k => page[j].issue < page[k].issue
    /\ \/ /\ Len(page) >= 1 /\ cursor' = page[Len(page)].issue /\ UNCHANGED <<at, pass>>
          /\ \A i \in Issues : board[i] \in Passes[pass] /\ i > cursor /\ i <= cursor' =>
                \E k \in 1 .. Len(page) : page[k].issue = i
       \/ /\ AfterLastPage(cursor)
          /\ \A i \in Issues : board[i] \in Passes[pass] /\ i > cursor =>
                \E k \in 1 .. Len(page) : page[k].issue = i

LEMMA PageIsRead ==
    ASSUME ListingTypeOK, ReadPage
    PROVE  \E page : PageOf(page)
<1>. DEFINE rest == Following(Passes[pass], cursor)
            size == IF Cardinality(rest) < PageSize THEN Cardinality(rest) ELSE PageSize
            page == [k \in 1 .. size |-> RecordOf(InOrder(rest)[k])]
<1>1. /\ found' = found \o page
      /\ IF Cardinality(rest) > PageSize
         THEN cursor' = page[size].issue /\ UNCHANGED <<at, pass>>
         ELSE AfterLastPage(cursor)
  BY DEF ReadPage
<1>2. \A i : i \in rest <=> i \in Issues /\ i > cursor /\ board[i] \in Passes[pass]
  BY DEF Following
<1>3. rest \in SUBSET Nat /\ IsFiniteSet(rest)
  <2>1. IsFiniteSet(1 .. IssueCount) /\ 1 .. IssueCount \in SUBSET Nat
    BY CountAssumption, FS_Interval
  <2>2. rest \in SUBSET (1 .. IssueCount)
    BY DEF Following, Issues
  <2>. QED  BY <2>1, <2>2, FS_Subset
<1>. HIDE DEF rest
<1>4. Orders(InOrder(rest), rest) /\ Cardinality(rest) \in Nat
  BY <1>3, InOrderProperties
<1>5. PICK e : e = InOrder(rest)
  OBVIOUS
<1>6. size \in Nat /\ size <= Cardinality(rest) /\ PageSize \in Nat \ {0}
  BY <1>4, PageAssumption
<1>7. \A k \in 1 .. size : /\ k \in 1 .. Cardinality(rest)
                           /\ e[k] \in rest /\ page[k] = RecordOf(e[k])
  BY <1>4, <1>5, <1>6 DEF Orders
<1>8. \A i \in Issues : RecordOf(i) \in Records /\ RecordOf(i).issue = i
  <2>1. board \in [Issues -> States] /\ (~PerState) \in BOOLEAN
    BY DEF ListingTypeOK
  <2>. QED  BY <2>1 DEF RecordOf, Records
<1>9. \A k \in 1 .. size : /\ page[k] \in Records
                           /\ page[k].issue = e[k] /\ page[k] = RecordOf(page[k].issue)
                           /\ page[k].issue > cursor /\ board[page[k].issue] \in Passes[pass]
  <2>. HIDE DEF page, size
  <2>. SUFFICES ASSUME NEW k \in 1 .. size
                PROVE  /\ page[k] \in Records
                       /\ page[k].issue = e[k] /\ page[k] = RecordOf(page[k].issue)
                       /\ page[k].issue > cursor /\ board[page[k].issue] \in Passes[pass]
    OBVIOUS
  <2>1. e[k] \in Issues /\ e[k] > cursor /\ board[e[k]] \in Passes[pass]
        /\ page[k] = RecordOf(e[k])
    BY <1>2, <1>7
  <2>2. RecordOf(e[k]) \in Records /\ RecordOf(e[k]).issue = e[k]
    BY <1>8, <2>1
  <2>. QED  BY <2>1, <2>2
<1>10. page \in Seq(Records) /\ Len(page) = size
  <2>1. page \in [1 .. size -> Records]
    BY <1>9
  <2>. QED  BY <1>6, <2>1
<1>11. \A j, k \in 1 .. size : j < k => page[j].issue < page[k].issue
  BY <1>4, <1>5, <1>7, <1>9 DEF Orders
<1>12. ASSUME NEW i \in Issues, board[i] \in Passes[pass], i > cursor
       PROVE  \E k \in 1 .. Cardinality(rest) : e[k] = i
  BY <1>2, <1>4, <1>5, <1>12 DEF Orders
<1>. HIDE DEF page
<1>13. CASE Cardinality(rest) > PageSize
  <2>1. size = PageSize /\ size >= 1 /\ cursor' = page[size].issue /\ UNCHANGED <<at, pass>>
    BY <1>1, <1>4, <1>6, <1>13
  <2>2. ASSUME NEW i \in Issues, board[i] \in Passes[pass], i > cursor, i <= cursor'
        PROVE  \E k \in 1 .. size : page[k].issue = i
    <3>1. PICK k \in 1 .. Cardinality(rest) : e[k] = i
      BY <1>12, <2>2
    <3>2. size \in 1 .. Cardinality(rest) /\ cursor' = e[size] /\ e[size] \in Nat /\ i \in Nat
      BY <1>3, <1>6, <1>7, <1>9, <2>1, CountAssumption DEF Issues
    <3>3. ~(size < k)
      BY <1>4, <1>5, <2>2, <3>1, <3>2 DEF Orders
    <3>4. k \in 1 .. size
      BY <1>4, <3>2, <3>3
    <3>. QED  BY <1>9, <3>1, <3>4
  <2>. QED  BY <1>1, <1>9, <1>10, <1>11, <2>1, <2>2 DEF PageOf
<1>14. CASE ~(Cardinality(rest) > PageSize)
  <2>1. size = Cardinality(rest) /\ AfterLastPage(cursor)
    BY <1>1, <1>4, <1>6, <1>14
  <2>2. \A i \in Issues : board[i] \in Passes[pass] /\ i > cursor =>
            \E k \in 1 .. size : page[k].issue = i
    BY <1>9, <1>12, <2>1
  <2>. QED  BY <1>1, <1>9, <1>10, <1>11, <2>1, <2>2 DEF PageOf
<1>. QED  BY <1>13, <1>14

(* What the page adds to the records                                       *)
LEMMA PageIsAdded ==
    ASSUME ListingTypeOK, NEW page, PageOf(page)
    PROVE  /\ found' \in Seq(Records) /\ Len(found') = Len(found) + Len(page)
           /\ Len(page) \in Nat
           /\ DOMAIN found' = 1 .. Len(found) + Len(page)
           /\ \A k \in 1 .. Len(found) : found'[k] = found[k]
           /\ \A k \in 1 .. Len(page) : /\ found'[Len(found) + k] = page[k]
                                        /\ Len(found) + k \in 1 .. Len(found) + Len(page)
           /\ \A k \in 1 .. Len(found) + Len(page) :
                 \/ k \in 1 .. Len(found) /\ found'[k] = found[k]
                 \/ k > Len(found) /\ k - Len(found) \in 1 .. Len(page)
                    /\ found'[k] = page[k - Len(found)]
<1>1. /\ page \in Seq(Records) /\ Len(page) \in Nat
      /\ found \in Seq(Records) /\ Len(found) \in Nat /\ found' = found \o page
  BY FoundTyped, LenProperties DEF PageOf
<1>2. /\ found' \in Seq(Records) /\ Len(found') = Len(found) + Len(page)
      /\ \A k \in 1 .. Len(found) + Len(page) :
            found'[k] = IF k <= Len(found) THEN found[k] ELSE page[k - Len(found)]
  BY <1>1, ConcatProperties
<1>3. DOMAIN found' = 1 .. Len(found) + Len(page)
  BY <1>2, LenProperties
<1>4. \A k \in 1 .. Len(found) : k \in 1 .. Len(found) + Len(page) /\ k <= Len(found)
  BY <1>1
<1>5. \A k \in 1 .. Len(page) : /\ Len(found) + k \in 1 .. Len(found) + Len(page)
                                /\ ~(Len(found) + k <= Len(found))
                                /\ (Len(found) + k) - Len(found) = k
  BY <1>1
<1>6. \A k \in 1 .. Len(found) + Len(page) :
         \/ k \in 1 .. Len(found)
         \/ k > Len(found) /\ ~(k <= Len(found)) /\ k - Len(found) \in 1 .. Len(page)
  BY <1>1
<1>. QED  BY <1>1, <1>2, <1>3, <1>4, <1>5, <1>6

LEMMA RecordIsTrue ==
    ASSUME ListingTypeOK, NEW i \in Issues
    PROVE  /\ RecordOf(i).issue = i /\ RecordOf(i).state = board[i]
           /\ RecordOf(i).related <=> ~PerState
           /\ RecordOf(i) \in Records
<1>1. board \in [Issues -> States] /\ (~PerState) \in BOOLEAN
  BY DEF ListingTypeOK
<1>. QED  BY <1>1 DEF RecordOf, Records

LEMMA ReadPageKeeps ==
    ASSUME ListingInv, ReadPage
    PROVE  ListingInv'
<1>0. /\ ListingTypeOK /\ SteadyIsRead /\ RecordsAreTrue /\ NoneTwice /\ BlockersToCome
      /\ at = "list" /\ UNCHANGED <<client, next, board, moved, was>> /\ pass \in Nat
      /\ pass <= Len(Passes) /\ pass >= 1
  <2>1. Len(Passes) \in Nat
    BY PassesCount
  <2>. QED  BY <2>1 DEF ListingInv, ReadPage, people, ListingTypeOK
<1>1. PICK page : PageOf(page)
  BY <1>0, PageIsRead
<1>2. /\ found' \in Seq(Records) /\ Len(found') = Len(found) + Len(page)
      /\ Len(page) \in Nat /\ Len(found) \in Nat
      /\ DOMAIN found' = 1 .. Len(found) + Len(page) /\ DOMAIN found = 1 .. Len(found)
      /\ \A k \in 1 .. Len(found) : found'[k] = found[k] /\ found[k] \in Records
      /\ \A k \in 1 .. Len(found) + Len(page) :
            \/ k \in 1 .. Len(found) /\ found'[k] = found[k]
            \/ k > Len(found) /\ k - Len(found) \in 1 .. Len(page)
               /\ found'[k] = page[k - Len(found)]
  BY <1>0, <1>1, PageIsAdded, FoundTyped
<1>2a. \A k \in 1 .. Len(found) : k \in DOMAIN found'
  BY <1>2
<1>3. /\ PerState' = PerState /\ Passes' = Passes
      /\ \A i : RecordOf(i)' = RecordOf(i)
  BY <1>0 DEF PerState, Passes, RecordOf
<1>4. \A k \in 1 .. Len(page) :
         /\ page[k].issue \in Issues /\ page[k].state = board[page[k].issue]
         /\ page[k].related <=> ~PerState
         /\ page[k].issue > cursor
  <2>. SUFFICES ASSUME NEW k \in 1 .. Len(page)
                PROVE  /\ page[k].issue \in Issues /\ page[k].state = board[page[k].issue]
                       /\ page[k].related <=> ~PerState
                       /\ page[k].issue > cursor
    OBVIOUS
  <2>1. page[k] \in Records /\ page[k] = RecordOf(page[k].issue) /\ page[k].issue > cursor
    BY <1>1, ElementOfSeq DEF PageOf
  <2>2. page[k].issue \in Issues
    BY <2>1 DEF Records
  <2>. QED  BY <1>0, <2>1, <2>2, RecordIsTrue
<1>5. RecordsAreTrue'
  <2>1. \A k \in 1 .. Len(page) : /\ page[k].state \in was[page[k].issue]
                                  /\ page[k].state = board[page[k].issue]
    BY <1>0, <1>4 DEF RecordsAreTrue
  <2>2. \A k \in 1 .. Len(found) :
           /\ found[k].state \in was[found[k].issue]
           /\ found[k].issue \notin moved => found[k].state = board[found[k].issue]
    BY <1>0, <1>2 DEF RecordsAreTrue
  <2>3. \A k \in DOMAIN found' :
           /\ found'[k].state \in was[found'[k].issue]
           /\ found'[k].issue \notin moved => found'[k].state = board[found'[k].issue]
    BY <1>2, <2>1, <2>2
  <2>4. \A i \in Issues : board[i] \in was[i]
    BY <1>0 DEF RecordsAreTrue
  <2>. QED  BY <1>0, <2>3, <2>4 DEF RecordsAreTrue
<1>6. CASE /\ Len(page) >= 1 /\ cursor' = page[Len(page)].issue /\ UNCHANGED <<at, pass>>
           /\ \A i \in Issues : board[i] \in Passes[pass] /\ i > cursor /\ i <= cursor' =>
                 \E k \in 1 .. Len(page) : page[k].issue = i
  <2>1. cursor' \in Issues /\ cursor' \in 0 .. IssueCount /\ cursor' > cursor
    BY <1>2, <1>4, <1>6 DEF Issues
  <2>2. ListingTypeOK'
    <3>1. next = 1 /\ next' \in 1 .. Len(found') + 1
      BY <1>0, <1>2 DEF BlockersToCome
    <3>. QED  BY <1>0, <1>2, <1>3, <1>6, <2>1, <3>1 DEF ListingTypeOK
  <2>3. SteadyIsRead'
    <3>. SUFFICES ASSUME NEW i \in Issues, Steady(i), Passed(i)' PROVE Read(i)'
      BY <1>0, <1>6 DEF SteadyIsRead, Steady
    <3>1. CASE Passed(i)
      BY <1>0, <1>2, <1>2a, <3>1 DEF SteadyIsRead, Read
    <3>2. CASE ~Passed(i)
      <4>1. board[i] \in Passes[pass] /\ i <= cursor' /\ ~(i <= cursor)
        BY <1>0, <1>3, <1>6, <3>2 DEF Passed
      <4>2. i > cursor
        BY <1>0, <4>1 DEF ListingTypeOK, Issues
      <4>3. PICK k \in 1 .. Len(page) : page[k].issue = i
        BY <1>6, <4>1, <4>2
      <4>4. found'[Len(found) + k] = page[k] /\ Len(found) + k \in DOMAIN found'
        BY <1>0, <1>1, <1>2, PageIsAdded
      <4>. QED  BY <1>0, <1>4, <4>3, <4>4 DEF Read
    <3>. QED  BY <3>1, <3>2
  <2>4. NoneTwice'
    <3>. SUFFICES ASSUME ~PerState
                  PROVE  /\ \A j, k \in DOMAIN found' : j < k => found'[j].issue < found'[k].issue
                         /\ \A k \in DOMAIN found' : found'[k].issue <= cursor'
      BY <1>0, <1>3, <1>6 DEF NoneTwice
    <3>1. \A k \in 1 .. Len(found) : found[k].issue <= cursor /\ found[k].issue \in Nat
      BY <1>0, <1>2, CountAssumption DEF NoneTwice, Records, Issues
    <3>2. cursor \in Nat /\ cursor' \in Nat
      BY <1>0, <2>1 DEF ListingTypeOK
    <3>3. \A k \in 1 .. Len(page) : /\ page[k].issue \in Nat /\ cursor < page[k].issue
                                    /\ page[k].issue <= cursor'
      <4>. SUFFICES ASSUME NEW k \in 1 .. Len(page)
                    PROVE  /\ page[k].issue \in Nat /\ cursor < page[k].issue
                           /\ page[k].issue <= cursor'
        OBVIOUS
      <4>1. page[k].issue \in Nat /\ cursor < page[k].issue
        BY <1>4, <3>2 DEF Issues
      <4>2. CASE k = Len(page)
        BY <1>6, <4>1, <4>2
      <4>3. CASE k # Len(page)
        <5>1. k < Len(page) /\ Len(page) \in 1 .. Len(page)
          BY <1>2, <4>3
        <5>2. page[k].issue < page[Len(page)].issue
          BY <1>1, <5>1 DEF PageOf
        <5>. QED  BY <1>6, <3>2, <4>1, <5>2
      <4>. QED  BY <4>1, <4>2, <4>3
    <3>4. \A k \in DOMAIN found' : found'[k].issue <= cursor'
      <4>. SUFFICES ASSUME NEW k \in DOMAIN found' PROVE found'[k].issue <= cursor'
        OBVIOUS
      <4>1. CASE k \in 1 .. Len(found) /\ found'[k] = found[k]
        <5>1. found[k].issue <= cursor /\ found[k].issue \in Nat
          BY <3>1, <4>1
        <5>. QED  BY <2>1, <3>2, <4>1, <5>1
      <4>2. CASE k - Len(found) \in 1 .. Len(page) /\ found'[k] = page[k - Len(found)]
        BY <3>3, <4>2
      <4>. QED  BY <1>2, <4>1, <4>2
    <3>5. ASSUME NEW j \in DOMAIN found', NEW k \in DOMAIN found', j < k
          PROVE  found'[j].issue < found'[k].issue
      <4>1. CASE k \in 1 .. Len(found)
        <5>1. j \in 1 .. Len(found)
          BY <1>2, <3>5, <4>1
        <5>. QED  BY <1>0, <1>2, <3>5, <4>1, <5>1 DEF NoneTwice
      <4>2. CASE k \notin 1 .. Len(found) /\ j \in 1 .. Len(found)
        BY <1>2, <3>1, <3>2, <3>3, <4>2
      <4>3. CASE k \notin 1 .. Len(found) /\ j \notin 1 .. Len(found)
        <5>1. /\ j - Len(found) \in 1 .. Len(page) /\ found'[j] = page[j - Len(found)]
              /\ k - Len(found) \in 1 .. Len(page) /\ found'[k] = page[k - Len(found)]
          BY <1>2, <4>3
        <5>2. j - Len(found) < k - Len(found)
          BY <1>2, <3>5
        <5>. QED  BY <1>1, <5>1, <5>2 DEF PageOf
      <4>. QED  BY <4>1, <4>2, <4>3
    <3>. QED  BY <3>4, <3>5
  <2>6. BlockersToCome'
    BY <1>0, <1>2, <1>3, <1>4, <1>6 DEF BlockersToCome
  <2>. QED  BY <1>5, <2>2, <2>3, <2>4, <2>6 DEF ListingInv
<1>7. CASE /\ AfterLastPage(cursor)
           /\ \A i \in Issues : board[i] \in Passes[pass] /\ i > cursor =>
                 \E k \in 1 .. Len(page) : page[k].issue = i
  <2>1. /\ cursor' = 0
        /\ IF pass < Len(Passes) THEN pass' = pass + 1 /\ at' = "list"
           ELSE at' = "hydrate" /\ pass' = pass
    BY <1>0, <1>7 DEF AfterLastPage
  <2>2. ListingTypeOK'
    <3>1. next = 1 /\ next' \in 1 .. Len(found') + 1
      BY <1>0, <1>2 DEF BlockersToCome
    <3>2. pass' \in 1 .. Len(Passes)
      BY <1>0, <2>1, PassesCount
    <3>3. at' \in {"list", "hydrate"}
      BY <2>1
    <3>. QED  BY <1>0, <1>2, <1>3, <2>1, <3>1, <3>2, <3>3, CountAssumption DEF ListingTypeOK
  <2>3. \A i \in Issues : Steady(i) /\ Passed(i) => Read(i)'
    BY <1>0, <1>2, <1>2a DEF SteadyIsRead, Read
  <2>4. \A i \in Issues : Steady(i) /\ board[i] \in Passes[pass] => Read(i)'
    <3>. SUFFICES ASSUME NEW i \in Issues, Steady(i), board[i] \in Passes[pass] PROVE Read(i)'
      OBVIOUS
    <3>1. CASE i <= cursor
      BY <2>3, <3>1 DEF Passed
    <3>2. CASE ~(i <= cursor)
      <4>1. i > cursor
        BY <1>0, <3>2 DEF ListingTypeOK, Issues
      <4>2. PICK k \in 1 .. Len(page) : page[k].issue = i
        BY <1>7, <4>1
      <4>3. found'[Len(found) + k] = page[k] /\ Len(found) + k \in DOMAIN found'
        BY <1>0, <1>1, <1>2, PageIsAdded
      <4>. QED  BY <1>0, <1>4, <4>2, <4>3 DEF Read
    <3>. QED  BY <3>1, <3>2
  <2>5. SteadyIsRead'
    <3>1. CASE pass < Len(Passes)
      <4>. SUFFICES ASSUME NEW i \in Issues, Steady(i), Passed(i)' PROVE Read(i)'
        BY <1>0, <2>1, <3>1 DEF SteadyIsRead, Steady
      <4>1. ~(i <= 0)
        BY CountAssumption DEF Issues
      <4>2. PICK p \in 1 .. pass' - 1 : board[i] \in Passes[p]
        BY <1>0, <1>3, <2>1, <4>1 DEF Passed
      <4>3. p = pass \/ p \in 1 .. pass - 1
        BY <1>0, <2>1, <3>1, <4>2
      <4>. QED  BY <2>3, <2>4, <4>2, <4>3 DEF Passed
    <3>2. CASE ~(pass < Len(Passes))
      <4>. SUFFICES ASSUME NEW i \in Issues, Steady(i) PROVE Read(i)'
        BY <1>0, <2>1, <3>2 DEF SteadyIsRead, Steady
      <4>1. pass = Len(Passes)
        BY <1>0, <3>2, PassesCount
      <4>2. board[i] \in Passes[pass] \/ \E p \in 1 .. pass - 1 : board[i] \in Passes[p]
        <5>1. board[i] = "Todo" \/ board[i] = "In Progress"
          BY DEF Steady, Active
        <5>2. CASE PerState
          <6>1. Passes[1] = {"Todo"} /\ Passes[2] = {"In Progress"} /\ pass = 2
            BY <4>1, <5>2, PassesAre
          <6>2. ASSUME NEW n, n = 2 PROVE 1 \in 1 .. n - 1
            BY <6>2
          <6>3. 1 \in 1 .. pass - 1
            BY <6>1, <6>2
          <6>. QED  BY <5>1, <6>1, <6>3
        <5>3. CASE ~PerState
          <6>1. Passes[1] = Active /\ pass = 1
            BY <4>1, <5>3, PassesAre
          <6>. QED  BY <6>1 DEF Steady
        <5>. QED  BY <5>2, <5>3
      <4>. QED  BY <2>3, <2>4, <4>2 DEF Passed
    <3>. QED  BY <3>1, <3>2
  <2>6. NoneTwice'
    <3>. SUFFICES ASSUME ~PerState
                  PROVE  /\ \A j, k \in DOMAIN found' : j < k => found'[j].issue < found'[k].issue
                         /\ at' = "hydrate"
      BY <1>3, <2>1 DEF NoneTwice
    <3>0. at' = "hydrate"
      <4>1. Len(Passes) = 1
        BY PassesAre
      <4>2. ~(pass < Len(Passes))
        BY <1>0, <4>1
      <4>. QED  BY <2>1, <4>2
    <3>1. \A k \in 1 .. Len(found) : found[k].issue <= cursor /\ found[k].issue \in Nat
      BY <1>0, <1>2, CountAssumption DEF NoneTwice, Records, Issues
    <3>2. cursor \in Nat
      BY <1>0 DEF ListingTypeOK
    <3>3. \A k \in 1 .. Len(page) : page[k].issue \in Nat /\ cursor < page[k].issue
      BY <1>4, <3>2 DEF Issues
    <3>5. ASSUME NEW j \in DOMAIN found', NEW k \in DOMAIN found', j < k
          PROVE  found'[j].issue < found'[k].issue
      <4>1. CASE k \in 1 .. Len(found)
        <5>1. j \in 1 .. Len(found)
          BY <1>2, <3>5, <4>1
        <5>. QED  BY <1>0, <1>2, <3>5, <4>1, <5>1 DEF NoneTwice
      <4>2. CASE k \notin 1 .. Len(found) /\ j \in 1 .. Len(found)
        BY <1>2, <3>1, <3>2, <3>3, <4>2
      <4>3. CASE k \notin 1 .. Len(found) /\ j \notin 1 .. Len(found)
        <5>1. /\ j - Len(found) \in 1 .. Len(page) /\ found'[j] = page[j - Len(found)]
              /\ k - Len(found) \in 1 .. Len(page) /\ found'[k] = page[k - Len(found)]
          BY <1>2, <4>3
        <5>2. j - Len(found) < k - Len(found)
          BY <1>2, <3>5
        <5>. QED  BY <1>1, <5>1, <5>2 DEF PageOf
      <4>. QED  BY <4>1, <4>2, <4>3
    <3>. QED  BY <3>0, <3>5
  <2>8. BlockersToCome'
    <3>1. next' = 1 /\ at' \in {"list", "hydrate"}
      BY <1>0, <2>1 DEF BlockersToCome
    <3>2. ~PerState => \A k \in DOMAIN found' : found'[k].related
      BY <1>0, <1>2, <1>4 DEF BlockersToCome
    <3>3. \A k \in DOMAIN found' : ~(k < 1)
      BY <1>2
    <3>. QED  BY <1>3, <3>1, <3>2, <3>3 DEF BlockersToCome
  <2>. QED  BY <1>5, <2>2, <2>5, <2>6, <2>8 DEF ListingInv
<1>. QED  BY <1>1, <1>6, <1>7 DEF PageOf

LEMMA HydrateKeeps ==
    ASSUME ListingInv, Hydrate
    PROVE  ListingInv'
<1>0. /\ ListingTypeOK /\ SteadyIsRead /\ RecordsAreTrue /\ BlockersToCome
      /\ at = "hydrate" /\ PerState
      /\ UNCHANGED <<client, at, pass, cursor, board, moved, was>>
  BY DEF ListingInv, Hydrate, people
<1>1. PICK k \in InTodoFrom(next) :
         /\ \A h \in InTodoFrom(next) : k <= h
         /\ found' = [found EXCEPT ![k] = [RecordOf(@.issue) EXCEPT !.related = TRUE]]
         /\ next' = k + 1
  <2>1. InTodoFrom(next) \in SUBSET Nat /\ InTodoFrom(next) # {}
    BY <1>0, FoundTyped DEF InTodoFrom, Hydrate
  <2>2. \E k \in InTodoFrom(next) : \A h \in InTodoFrom(next) : k <= h
    BY <2>1, Least
  <2>. QED  BY <2>2 DEF Hydrate, Onward
<1>2. /\ found \in Seq(Records) /\ Len(found) \in Nat /\ DOMAIN found = 1 .. Len(found)
      /\ \A j \in 1 .. Len(found) : found[j] \in Records
  BY <1>0, FoundTyped
<1>3. k \in 1 .. Len(found) /\ k >= next /\ found[k].state = "Todo" /\ next \in Nat
  BY <1>0, <1>1, <1>2 DEF InTodoFrom, ListingTypeOK
<1>. DEFINE new == [RecordOf(found[k].issue) EXCEPT !.related = TRUE]
<1>4. /\ new \in Records /\ new.issue = found[k].issue /\ found[k].issue \in Issues
      /\ new.state = board[found[k].issue] /\ new.related = TRUE
  <2>1. found[k].issue \in Issues
    BY <1>2, <1>3 DEF Records
  <2>2. board \in [Issues -> States]
    BY <1>0 DEF ListingTypeOK
  <2>. QED  BY <2>1, <2>2 DEF RecordOf, Records
<1>. HIDE DEF new
<1>5. /\ found' \in Seq(Records) /\ Len(found') = Len(found)
      /\ DOMAIN found' = 1 .. Len(found)
      /\ found'[k] = new /\ \A j \in 1 .. Len(found) : j # k => found'[j] = found[j]
  <2>1. found' = [found EXCEPT ![k] = new]
    BY <1>1 DEF new
  <2>. QED  BY <1>2, <1>3, <1>4, <2>1, ExceptSeq, LenProperties
<1>6. PerState' /\ PerState /\ Passes' = Passes
  BY <1>0 DEF PerState, Passes
<1>7. ListingTypeOK'
  <2>1. next' \in 1 .. Len(found') + 1
    BY <1>1, <1>2, <1>3, <1>5
  <2>. QED  BY <1>0, <1>5, <1>6, <2>1 DEF ListingTypeOK
<1>8. \A i : Steady(i) => Read(i)' \/ ~Read(i)
  <2>. SUFFICES ASSUME NEW i, Steady(i), NEW j \in DOMAIN found, found[j].issue = i,
                       found[j].state = board[i]
                PROVE  Read(i)'
    BY DEF Read
  <2>1. found'[j].issue = i /\ found'[j].state = board[i] /\ j \in DOMAIN found'
    BY <1>2, <1>3, <1>4, <1>5
  <2>. QED  BY <1>0, <2>1 DEF Read
<1>9. SteadyIsRead'
  BY <1>0, <1>8 DEF SteadyIsRead, Steady
<1>10. RecordsAreTrue'
  <2>1. \A j \in 1 .. Len(found) :
           /\ found[j].state \in was[found[j].issue]
           /\ found[j].issue \notin moved => found[j].state = board[found[j].issue]
    BY <1>0, <1>2 DEF RecordsAreTrue
  <2>2. new.state \in was[new.issue] /\ new.state = board[new.issue]
    BY <1>0, <1>4 DEF RecordsAreTrue
  <2>3. \A j \in DOMAIN found' :
           /\ found'[j].state \in was[found'[j].issue]
           /\ found'[j].issue \notin moved => found'[j].state = board[found'[j].issue]
    BY <1>5, <2>1, <2>2
  <2>. QED  BY <1>0, <2>3 DEF RecordsAreTrue
<1>11. NoneTwice'
  BY <1>0, <1>6 DEF NoneTwice
<1>12. BlockersToCome'
  <2>1. ASSUME NEW j \in DOMAIN found', found'[j].state = "Todo", j < next'
        PROVE  found'[j].related
    <3>1. j \in 1 .. Len(found) /\ j <= k
      BY <1>1, <1>2, <1>3, <1>5, <2>1
    <3>2. CASE j = k
      BY <1>4, <1>5, <3>2
    <3>3. CASE j # k /\ j < next
      BY <1>0, <1>2, <1>5, <2>1, <3>1, <3>3 DEF BlockersToCome
    <3>4. CASE j # k /\ ~(j < next)
      <4>1. j >= next /\ ~(k <= j)
        BY <1>2, <1>3, <3>1, <3>4
      <4>2. j \in InTodoFrom(next)
        BY <1>2, <1>5, <2>1, <3>1, <3>4, <4>1 DEF InTodoFrom
      <4>. QED  BY <1>1, <4>1, <4>2
    <3>. QED  BY <3>2, <3>3, <3>4
  <2>. QED  BY <1>0, <1>6, <2>1 DEF BlockersToCome
<1>. QED  BY <1>7, <1>9, <1>10, <1>11, <1>12 DEF ListingInv

(* _dedupe_issues: its records are among those of the list, the issues are *)
(* all there, and each is there once, as the first record tells it.        *)
LEMMA DedupedProperties ==
    ASSUME NEW s \in Seq(Records)
    PROVE  /\ DedupedIssues(s) \in Seq(Records)
           /\ \A k \in DOMAIN DedupedIssues(s) : \E j \in DOMAIN s : DedupedIssues(s)[k] = s[j]
           /\ \A j, k \in DOMAIN DedupedIssues(s) :
                 DedupedIssues(s)[j].issue = DedupedIssues(s)[k].issue => j = k
           /\ \A j \in DOMAIN s : \E k \in DOMAIN DedupedIssues(s) :
                 DedupedIssues(s)[k].issue = s[j].issue
<1>. DEFINE firsts == {k \in DOMAIN s : \A j \in 1 .. k - 1 : s[j].issue # s[k].issue}
<1>1. Len(s) \in Nat /\ DOMAIN s = 1 .. Len(s)
  BY LenProperties
<1>2. firsts \in SUBSET (1 .. Len(s)) /\ DedupedIssues(s) = Picked(s, firsts)
  BY <1>1 DEF DedupedIssues
<1>3. \A k \in firsts : \A j \in 1 .. k - 1 : s[j].issue # s[k].issue
  OBVIOUS
<1>4. ASSUME NEW j \in DOMAIN s
      PROVE  \E k \in firsts : s[k].issue = s[j].issue
  <2>. DEFINE same == {k \in DOMAIN s : s[k].issue = s[j].issue}
  <2>1. same \in SUBSET Nat /\ same # {}
    BY <1>1
  <2>2. PICK m \in same : \A k \in same : m <= k
    BY <2>1, Least
  <2>3. m \in DOMAIN s /\ m \in Nat /\ s[m].issue = s[j].issue
    BY <2>1, <2>2
  <2>4. ASSUME NEW h \in 1 .. m - 1 PROVE s[h].issue # s[m].issue
    <3>1. h \in DOMAIN s /\ ~(m <= h)
      BY <1>1, <2>3
    <3>2. h \notin same
      BY <2>2, <3>1
    <3>. QED  BY <2>3, <3>1, <3>2
  <2>5. m \in firsts
    BY <2>3, <2>4
  <2>. QED  BY <2>3, <2>5
<1>. HIDE DEF firsts
<1>5. PICK d, e : /\ d = DedupedIssues(s) /\ d \in Seq(Records) /\ Len(d) = Cardinality(firsts)
                  /\ Orders(e, firsts)
                  /\ \A k \in 1 .. Cardinality(firsts) : d[k] = s[e[k]]
  BY <1>2, PickedProperties
<1>6. DOMAIN d = 1 .. Cardinality(firsts) /\ Cardinality(firsts) \in Nat
  BY <1>5, LenProperties
<1>7. \A k \in DOMAIN d : d[k] = s[e[k]] /\ e[k] \in firsts /\ e[k] \in DOMAIN s /\ e[k] \in Nat
  <2>. SUFFICES ASSUME NEW k \in DOMAIN d
                PROVE  d[k] = s[e[k]] /\ e[k] \in firsts /\ e[k] \in DOMAIN s /\ e[k] \in Nat
    OBVIOUS
  <2>1. k \in 1 .. Cardinality(firsts) /\ e[k] \in firsts
    BY <1>5, <1>6 DEF Orders
  <2>2. e[k] \in 1 .. Len(s)
    BY <1>2, <2>1
  <2>. QED  BY <1>1, <1>5, <2>1, <2>2
<1>8. ASSUME NEW j \in DOMAIN d, NEW k \in DOMAIN d, j < k PROVE d[j].issue # d[k].issue
  <2>1. e[j] < e[k] /\ e[j] \in 1 .. Len(s)
    BY <1>1, <1>5, <1>6, <1>7, <1>8 DEF Orders
  <2>2. e[j] \in 1 .. e[k] - 1
    BY <1>7, <2>1
  <2>. QED  BY <1>3, <1>7, <2>2
<1>9. ASSUME NEW j \in DOMAIN d, NEW k \in DOMAIN d, d[j].issue = d[k].issue PROVE j = k
  <2>1. ~(j < k) /\ ~(k < j)
    BY <1>8, <1>9
  <2>. QED  BY <1>6, <2>1
<1>10. ASSUME NEW j \in DOMAIN s PROVE \E k \in DOMAIN d : d[k].issue = s[j].issue
  <2>1. PICK m \in firsts : s[m].issue = s[j].issue
    BY <1>4
  <2>2. PICK k \in 1 .. Cardinality(firsts) : e[k] = m
    BY <1>5 DEF Orders
  <2>. QED  BY <1>6, <1>7, <2>1, <2>2
<1>. QED  BY <1>5, <1>7, <1>9, <1>10

LEMMA ReturnKeeps ==
    ASSUME ListingInv, Return
    PROVE  ListingInv'
<1>0. /\ ListingTypeOK /\ SteadyIsRead /\ RecordsAreTrue /\ NoneTwice /\ BlockersToCome
      /\ at = "hydrate" /\ at' = "done" /\ next' = 1
      /\ UNCHANGED <<client, pass, cursor, board, moved, was>>
      /\ PerState => InTodoFrom(next) = {}
      /\ found' = IF PerState THEN DedupedIssues(found) ELSE found
  BY DEF ListingInv, Return, people
<1>1. /\ found \in Seq(Records) /\ Len(found) \in Nat /\ DOMAIN found = 1 .. Len(found)
      /\ \A j \in 1 .. Len(found) : found[j] \in Records
  BY <1>0, FoundTyped
<1>2. /\ found' \in Seq(Records)
      /\ \A k \in DOMAIN found' : \E j \in DOMAIN found : found'[k] = found[j]
      /\ \A j, k \in DOMAIN found' : found'[j].issue = found'[k].issue => j = k
      /\ \A j \in DOMAIN found : \E k \in DOMAIN found' : found'[k].issue = found[j].issue
  <2>1. CASE PerState
    <3>1. found' = DedupedIssues(found)
      BY <1>0, <2>1
    <3>2. PICK s : s = found
      OBVIOUS
    <3>3. s \in Seq(Records)
      BY <1>1, <3>2
    <3>4. /\ DedupedIssues(s) \in Seq(Records)
          /\ \A k \in DOMAIN DedupedIssues(s) : \E j \in DOMAIN s : DedupedIssues(s)[k] = s[j]
          /\ \A j, k \in DOMAIN DedupedIssues(s) :
                DedupedIssues(s)[j].issue = DedupedIssues(s)[k].issue => j = k
          /\ \A j \in DOMAIN s : \E k \in DOMAIN DedupedIssues(s) :
                DedupedIssues(s)[k].issue = s[j].issue
      BY <3>3, DedupedProperties
    <3>. QED  BY <3>1, <3>2, <3>4
  <2>2. CASE ~PerState
    <3>1. found' = found
      BY <1>0, <2>2
    <3>2. \A j, k \in DOMAIN found : j < k => found[j].issue < found[k].issue
      BY <1>0, <2>2 DEF NoneTwice
    <3>3. ASSUME NEW j \in DOMAIN found, NEW k \in DOMAIN found, found[j].issue = found[k].issue
          PROVE  j = k
      <4>1. found[j].issue \in Nat
        BY <1>1 DEF Records, Issues
      <4>2. ~(j < k) /\ ~(k < j)
        BY <3>2, <3>3, <4>1
      <4>. QED  BY <1>1, <4>2
    <3>. QED  BY <1>1, <3>1, <3>3
  <2>. QED  BY <2>1, <2>2
<1>3. Len(found') \in Nat /\ PerState' = PerState /\ Passes' = Passes
  BY <1>0, <1>2, LenProperties DEF PerState, Passes
<1>4. ListingTypeOK'
  BY <1>0, <1>2, <1>3 DEF ListingTypeOK
<1>5. \A k \in DOMAIN found' :
         /\ found'[k].state \in was[found'[k].issue]
         /\ found'[k].issue \notin moved => found'[k].state = board[found'[k].issue]
  BY <1>0, <1>2 DEF RecordsAreTrue
<1>6. RecordsAreTrue'
  BY <1>0, <1>5 DEF RecordsAreTrue
<1>7. ASSUME NEW i \in Issues, Steady(i) PROVE Read(i)'
  <2>1. PICK j \in DOMAIN found : found[j].issue = i
    BY <1>0, <1>7 DEF SteadyIsRead, Read
  <2>2. PICK k \in DOMAIN found' : found'[k].issue = i
    BY <1>2, <2>1
  <2>3. found'[k].state = board[i]
    BY <1>5, <1>7, <2>2 DEF Steady
  <2>. QED  BY <1>0, <2>2, <2>3 DEF Read
<1>8. SteadyIsRead'
  BY <1>0, <1>7 DEF SteadyIsRead, Steady
<1>9. \A j \in DOMAIN found : found[j].state = "Todo" => found[j].related
  <2>. SUFFICES ASSUME NEW j \in DOMAIN found, found[j].state = "Todo"
                PROVE  found[j].related
    OBVIOUS
  <2>1. CASE ~PerState
    BY <1>0, <2>1 DEF BlockersToCome
  <2>2. CASE PerState
    <3>1. ~(j >= next)
      BY <1>0, <2>2 DEF InTodoFrom
    <3>2. j < next
      BY <1>0, <1>1, <3>1 DEF ListingTypeOK
    <3>. QED  BY <1>0, <3>2 DEF BlockersToCome
  <2>. QED  BY <2>1, <2>2
<1>10. \A k \in DOMAIN found' : found'[k].state = "Todo" => found'[k].related
  BY <1>2, <1>9
<1>11. ~PerState => found' = found
  BY <1>0
<1>12. BlockersToCome'
  BY <1>0, <1>3, <1>10, <1>11 DEF BlockersToCome, TodoKnowsItsBlockers
<1>13. NoneTwice'
  BY <1>0, <1>2, <1>3, <1>11 DEF NoneTwice
<1>. QED  BY <1>4, <1>6, <1>8, <1>12, <1>13 DEF ListingInv

(* An empty list satisfies what is said about its records.                 *)
LEMMA NothingFound ==
    ASSUME ListingTypeOK', found' = <<>>, next' = 1,
           \/ at' \in {"idle", "failed"}
           \/ at' = "list" /\ pass' = 1 /\ cursor' = 0,
           \A i \in Issues : board'[i] \in was'[i]
    PROVE  ListingInv'
<1>1. DOMAIN found' = {}
  OBVIOUS
<1>2. SteadyIsRead'
  <2>1. CASE at' = "list"
    <3>1. \A i \in Issues : ~(i <= 0)
      BY CountAssumption DEF Issues
    <3>2. 1 .. pass' - 1 = {}
      BY <2>1
    <3>3. \A i \in Issues : ~Passed(i)'
      BY <2>1, <3>1, <3>2 DEF Passed
    <3>. QED  BY <2>1, <3>3 DEF SteadyIsRead
  <2>2. CASE at' # "list"
    BY <2>2 DEF SteadyIsRead
  <2>. QED  BY <2>1, <2>2
<1>3. RecordsAreTrue'
  BY <1>1 DEF RecordsAreTrue
<1>4. NoneTwice'
  BY <1>1 DEF NoneTwice
<1>5. BlockersToCome'
  BY <1>1 DEF BlockersToCome
<1>. QED  BY <1>2, <1>3, <1>4, <1>5 DEF ListingInv

LEMMA FetchFailsKeeps ==
    ASSUME ListingInv, FetchFails
    PROVE  ListingInv'
<1>1. ListingTypeOK'
  <2>1. Passes' = Passes /\ found' \in Seq(Records) /\ Len(found') = 0
    BY DEF FetchFails, Passes, PerState
  <2>2. next' \in 1 .. Len(found') + 1
    BY <2>1 DEF FetchFails
  <2>. QED  BY <2>1, <2>2 DEF ListingInv, ListingTypeOK, FetchFails, people
<1>2. \A i \in Issues : board'[i] \in was'[i]
  BY DEF ListingInv, RecordsAreTrue, FetchFails, people
<1>. QED  BY <1>1, <1>2, NothingFound DEF FetchFails

LEMMA BeginFetchKeeps ==
    ASSUME ListingInv, BeginFetch
    PROVE  ListingInv'
<1>1. ListingTypeOK'
  <2>1. Passes' = Passes /\ found' \in Seq(Records) /\ Len(found') = 0
    BY DEF BeginFetch, Passes, PerState
  <2>2. next' \in 1 .. Len(found') + 1
    BY <2>1 DEF BeginFetch
  <2>3. pass' \in 1 .. Len(Passes)
    <3>1. 1 \in 1 .. Len(Passes)
      BY PassesCount
    <3>. QED  BY <3>1 DEF BeginFetch
  <2>4. cursor' \in 0 .. IssueCount
    BY CountAssumption DEF BeginFetch
  <2>5. was' \in [Issues -> SUBSET States]
    BY DEF ListingInv, ListingTypeOK, BeginFetch
  <2>. QED  BY <2>1, <2>2, <2>3, <2>4, <2>5 DEF ListingInv, ListingTypeOK, BeginFetch
<1>2. \A i \in Issues : board'[i] \in was'[i]
  BY DEF BeginFetch
<1>. QED  BY <1>1, <1>2, NothingFound DEF BeginFetch

LEMMA MoveKeeps ==
    ASSUME ListingInv, NEW i \in Issues, NEW s \in States, Move(i, s)
    PROVE  ListingInv'
<1>0. /\ ListingTypeOK /\ SteadyIsRead /\ RecordsAreTrue /\ NoneTwice /\ BlockersToCome
      /\ at \notin {"idle", "done", "failed"}
      /\ UNCHANGED <<client, at, pass, cursor, found, next>>
      /\ board' = [board EXCEPT ![i] = s]
      /\ moved' = moved \union {i}
      /\ was' = [was EXCEPT ![i] = @ \union {s}]
      /\ board \in [Issues -> States] /\ was \in [Issues -> SUBSET States]
  BY DEF ListingInv, ListingTypeOK, Move, fetch
<1>1. /\ \A j \in Issues : j # i => board'[j] = board[j]
      /\ \A j \in Issues : was[j] \subseteq was'[j]
      /\ board'[i] = s /\ s \in was'[i]
  BY <1>0
<1>2. PerState' = PerState /\ Passes' = Passes /\ DOMAIN found' = DOMAIN found
  BY <1>0 DEF PerState, Passes
<1>3. ListingTypeOK'
  BY <1>0, <1>2 DEF ListingTypeOK
<1>4. \A j \in Issues : Steady(j)' => j # i /\ Steady(j) /\ board'[j] = board[j]
  BY <1>0, <1>1 DEF Steady
<1>5. \A j \in Issues : Steady(j)' => (Read(j)' <=> Read(j)) /\ (Passed(j)' <=> Passed(j))
  BY <1>0, <1>2, <1>4 DEF Read, Passed
<1>6. SteadyIsRead'
  BY <1>0, <1>4, <1>5 DEF SteadyIsRead
<1>7. RecordsAreTrue'
  <2>1. \A k \in DOMAIN found : found[k].issue \in Issues
    BY <1>0, FoundTyped DEF Records
  <2>2. \A k \in DOMAIN found' :
           /\ found[k].state \in was'[found[k].issue]
           /\ found[k].issue \notin moved' => found[k].state = board'[found[k].issue]
    BY <1>0, <1>1, <2>1 DEF RecordsAreTrue
  <2>3. \A j \in Issues : board'[j] \in was'[j]
    BY <1>0, <1>1 DEF RecordsAreTrue
  <2>. QED  BY <1>0, <2>2, <2>3 DEF RecordsAreTrue
<1>8. NoneTwice'
  BY <1>0, <1>2 DEF NoneTwice
<1>9. BlockersToCome'
  BY <1>0, <1>2 DEF BlockersToCome
<1>. QED  BY <1>3, <1>6, <1>7, <1>8, <1>9 DEF ListingInv

LEMMA ListingInvInit == ListingInit => ListingInv
<1>. SUFFICES ASSUME ListingInit PROVE ListingInv
  OBVIOUS
<1>1. found \in Seq(Records) /\ Len(found) = 0 /\ DOMAIN found = {} /\ at = "idle"
  BY DEF ListingInit
<1>2. ListingTypeOK
  <2>1. next \in 1 .. Len(found) + 1
    BY <1>1 DEF ListingInit
  <2>2. pass \in 1 .. Len(Passes)
    <3>1. 1 \in 1 .. Len(Passes)
      BY PassesCount
    <3>. QED  BY <3>1 DEF ListingInit
  <2>3. cursor \in 0 .. IssueCount
    BY CountAssumption DEF ListingInit
  <2>4. was \in [Issues -> SUBSET States]
    BY DEF ListingInit
  <2>. QED  BY <1>1, <2>1, <2>2, <2>3, <2>4 DEF ListingInit, ListingTypeOK
<1>3. SteadyIsRead
  BY <1>1 DEF SteadyIsRead
<1>4. RecordsAreTrue
  BY <1>1 DEF RecordsAreTrue, ListingInit
<1>5. NoneTwice
  BY <1>1 DEF NoneTwice
<1>6. BlockersToCome
  BY <1>1 DEF BlockersToCome
<1>. QED  BY <1>2, <1>3, <1>4, <1>5, <1>6 DEF ListingInv

LEMMA ListingStutters ==
    ASSUME ListingInv, UNCHANGED listingVars
    PROVE  ListingInv'
<1>. USE DEF listingVars, fetch, people
<1>1. PerState' = PerState /\ Passes' = Passes
  BY DEF PerState, Passes
<1>2. ListingTypeOK'
  BY <1>1 DEF ListingInv, ListingTypeOK
<1>3. SteadyIsRead'
  BY <1>1 DEF ListingInv, SteadyIsRead, Steady, Read, Passed
<1>4. RecordsAreTrue'
  BY DEF ListingInv, RecordsAreTrue
<1>5. NoneTwice'
  BY <1>1 DEF ListingInv, NoneTwice
<1>6. BlockersToCome'
  BY <1>1 DEF ListingInv, BlockersToCome, TodoKnowsItsBlockers
<1>. QED  BY <1>2, <1>3, <1>4, <1>5, <1>6 DEF ListingInv

LEMMA ListingInvStep == ListingInv /\ [ListingNext]_listingVars => ListingInv'
<1>. SUFFICES ASSUME ListingInv, [ListingNext]_listingVars PROVE ListingInv'
  OBVIOUS
<1>1. CASE BeginFetch
  BY <1>1, BeginFetchKeeps
<1>2. CASE ReadPage
  BY <1>2, ReadPageKeeps
<1>3. CASE Hydrate
  BY <1>3, HydrateKeeps
<1>4. CASE Return
  BY <1>4, ReturnKeeps
<1>5. CASE FetchFails
  BY <1>5, FetchFailsKeeps
<1>6. ASSUME NEW i \in Issues, NEW s \in States, Move(i, s) PROVE ListingInv'
  BY <1>6, MoveKeeps
<1>7. CASE UNCHANGED listingVars
  BY <1>7, ListingStutters
<1>. QED  BY <1>1, <1>2, <1>3, <1>4, <1>5, <1>6, <1>7 DEF ListingNext, Fetching

LEMMA ListingAlways == ListingSpec => []ListingInv
BY ListingInvInit, ListingInvStep, PTL DEF ListingSpec

(* The fetch keeps to its passes, and its index to the list.               *)
THEOREM ListingTyping == ListingSpec => []ListingTypeOK
<1>1. ListingInv => ListingTypeOK
  BY DEF ListingInv
<1>. QED  BY <1>1, ListingAlways, PTL

(* However long the lists are, however large the pages and whoever moves   *)
(* what between the requests: what tick gets from the tracker leaves out   *)
(* nobody who stays, names nobody twice, tells no state that was not, and  *)
(* has the blockers of each Todo issue.                                    *)
THEOREM AnswersAreUsable == ListingSpec => []AnswerIsUsable
<1>1. ListingInv => AnswerIsUsable
  <2>. SUFFICES ASSUME ListingInv, at = "done" PROVE AnswerIsUsable
    BY DEF AnswerIsUsable, SteadyIssueIsListed, AnswerIsAccurate, TodoKnowsItsBlockers
  <2>1. SteadyIssueIsListed
    BY DEF ListingInv, SteadyIsRead, SteadyIssueIsListed, Steady, Read
  <2>2. AnswerIsAccurate
    BY DEF ListingInv, NoneTwice, RecordsAreTrue, AnswerIsAccurate
  <2>3. TodoKnowsItsBlockers
    BY DEF ListingInv, BlockersToCome
  <2>. QED  BY <2>1, <2>2, <2>3 DEF AnswerIsUsable
<1>. QED  BY <1>1, ListingAlways, PTL

-----------------------------------------------------------------------------
(* The repository plan: what a planner's answer becomes *)

(* The items of one role, one for a repository.                            *)
PartOf(items, role) ==
    /\ items \in Seq(RepoPlanItems)
    /\ \A k \in DOMAIN items :
          items[k].role = role /\ (role = "read_only_context" => ~items[k].edit)
    /\ \A j, k \in DOMAIN items : j # k => items[j].slug # items[k].slug

LEMMA ItemIsTyped ==
    ASSUME NEW r \in Repos, NEW role \in {"primary", "secondary", "read_only_context"},
           NEW edit \in BOOLEAN
    PROVE  /\ Item(r, role, edit) \in RepoPlanItems
           /\ Item(r, role, edit).slug = r /\ Item(r, role, edit).role = role
           /\ role = "read_only_context" => ~Item(r, role, edit).edit
<1>1. PICK b \in BOOLEAN : b = (edit /\ role # "read_only_context")
  OBVIOUS
<1>2. Item(r, role, edit) = [slug |-> r, role |-> role, edit |-> b]
  BY <1>1 DEF Item
<1>3. role = "read_only_context" => ~b
  BY <1>1
<1>. QED  BY <1>2, <1>3 DEF RepoPlanItems

LEMMA DedupedPart ==
    ASSUME NEW s \in Seq(RepoPlanItems), NEW role,
           \A k \in DOMAIN s :
              s[k].role = role /\ (role = "read_only_context" => ~s[k].edit)
    PROVE  PartOf(Deduped(s), role)
<1>. DEFINE firsts == {k \in DOMAIN s : \A j \in 1 .. k - 1 : s[j].slug # s[k].slug}
<1>1. Len(s) \in Nat /\ DOMAIN s = 1 .. Len(s)
  BY LenProperties
<1>2. firsts \in SUBSET (1 .. Len(s)) /\ Deduped(s) = Picked(s, firsts)
  BY <1>1 DEF Deduped
<1>3. \A k \in firsts : \A j \in 1 .. k - 1 : s[j].slug # s[k].slug
  OBVIOUS
<1>. HIDE DEF firsts
<1>4. PICK p, e : /\ p = Picked(s, firsts) /\ p \in Seq(RepoPlanItems)
                  /\ \A k \in DOMAIN p : e[k] \in firsts /\ p[k] = s[e[k]]
                  /\ \A j, k \in DOMAIN p : j # k => e[j] # e[k]
  BY <1>2, PickedFrom
<1>5. \A k \in DOMAIN p : e[k] \in 1 .. Len(s) /\ e[k] \in DOMAIN s
  BY <1>1, <1>2, <1>4
<1>6. \A k \in DOMAIN p :
         p[k].role = role /\ (role = "read_only_context" => ~p[k].edit)
  BY <1>4, <1>5
<1>7. ASSUME NEW j \in DOMAIN p, NEW k \in DOMAIN p, j # k PROVE p[j].slug # p[k].slug
  <2>1. e[j] # e[k] /\ e[j] \in 1 .. Len(s) /\ e[k] \in 1 .. Len(s)
    BY <1>4, <1>5, <1>7
  <2>2. e[j] \in 1 .. e[k] - 1 \/ e[k] \in 1 .. e[j] - 1
    BY <1>1, <2>1
  <2>. QED  BY <1>3, <1>4, <2>2
<1>8. PartOf(p, role)
  BY <1>4, <1>6, <1>7 DEF PartOf
<1>. QED  BY <1>2, <1>4, <1>8

(* What the model lists for a role gives items of that role.               *)
LEMMA ListedPart ==
    ASSUME NEW entries \in Seq([slug : Slugs, edit : BOOLEAN]),
           NEW role \in {"secondary", "read_only_context"}
    PROVE  PartOf(Listed(entries, role), role)
<1>. DEFINE S == {k \in DOMAIN entries : entries[k].slug \in Repos}
            T == [slug : Slugs, edit : BOOLEAN]
<1>1. S \in SUBSET (1 .. Len(entries))
  BY LenProperties
<1>2. \A j \in S : entries[j] \in T /\ entries[j].slug \in Repos
  BY <1>1, ElementOfSeq
<1>. HIDE DEF S, T
<1>3. PICK known, e : /\ known = Picked(entries, S)
                      /\ Len(known) \in Nat /\ DOMAIN known = 1 .. Len(known)
                      /\ \A k \in DOMAIN known : e[k] \in S /\ known[k] = entries[e[k]]
  <2>1. entries \in Seq(T)
    BY DEF T
  <2>. QED  BY <1>1, <2>1, PickedFrom
<1>4. \A k \in DOMAIN known : known[k].slug \in Repos /\ known[k].edit \in BOOLEAN
  BY <1>2, <1>3 DEF T
<1>. DEFINE items == [k \in DOMAIN known |-> Item(known[k].slug, role, known[k].edit)]
<1>5. \A k \in DOMAIN known :
         /\ items[k] \in RepoPlanItems
         /\ items[k].role = role /\ (role = "read_only_context" => ~items[k].edit)
  BY <1>4, ItemIsTyped
<1>6. items \in Seq(RepoPlanItems) /\ DOMAIN items = DOMAIN known
  <2>1. items \in [1 .. Len(known) -> RepoPlanItems]
    BY <1>3, <1>5
  <2>. QED  BY <1>3, <2>1
<1>7. Listed(entries, role) = Deduped(items)
  BY <1>3 DEF Listed, S
<1>. HIDE DEF items
<1>8. PartOf(Deduped(items), role)
  BY <1>5, <1>6, DedupedPart
<1>. QED  BY <1>7, <1>8

LEMMA OthersPart ==
    ASSUME NEW items, NEW role, NEW primary, PartOf(items, role)
    PROVE  /\ PartOf(Others(items, primary), role)
           /\ \A k \in DOMAIN Others(items, primary) : Others(items, primary)[k].slug # primary
<1>. DEFINE S == {k \in DOMAIN items : items[k].slug # primary}
<1>0. items \in Seq(RepoPlanItems)
  BY DEF PartOf
<1>1. S \in SUBSET (1 .. Len(items)) /\ S \in SUBSET DOMAIN items
  BY <1>0, LenProperties
<1>2. \A k \in S : items[k].slug # primary
  OBVIOUS
<1>3. Others(items, primary) = Picked(items, S)
  BY DEF Others
<1>. HIDE DEF S
<1>4. PICK p, e : /\ p = Picked(items, S)
                  /\ p \in Seq(RepoPlanItems) /\ Len(p) \in Nat /\ DOMAIN p = 1 .. Len(p)
                  /\ \A k \in DOMAIN p : e[k] \in S /\ p[k] = items[e[k]]
                  /\ \A j, k \in DOMAIN p : j # k => e[j] # e[k]
  BY <1>0, <1>1, PickedFrom
<1>5. PartOf(p, role)
  BY <1>1, <1>4 DEF PartOf
<1>6. \A k \in DOMAIN p : p[k].slug # primary
  BY <1>2, <1>4
<1>. QED  BY <1>3, <1>4, <1>5, <1>6

LEMMA PartIsSound ==
    ASSUME NEW items, NEW role, PartOf(items, role)
    PROVE  RolesAreSound(items)
<1>1. \A j, k \in DOMAIN items : j # k => items[j].slug # items[k].slug
  BY DEF PartOf
<1>2. \A k \in DOMAIN items : items[k].role = "read_only_context" => ~items[k].edit
  BY DEF PartOf
<1>. QED  BY <1>1, <1>2 DEF RolesAreSound

(* The elements of two lists that are put together                         *)
LEMMA Joined ==
    ASSUME NEW T, NEW s \in Seq(T), NEW t \in Seq(T), NEW u, u = s \o t
    PROVE  /\ u \in Seq(T) /\ Len(u) = Len(s) + Len(t)
           /\ \A k \in DOMAIN s : k \in DOMAIN u /\ u[k] = s[k]
           /\ \A k \in DOMAIN u :
                 \/ k \in DOMAIN s /\ u[k] = s[k]
                 \/ k - Len(s) \in DOMAIN t /\ u[k] = t[k - Len(s)] /\ k \notin DOMAIN s
<1>1. /\ Len(s) \in Nat /\ DOMAIN s = 1 .. Len(s)
      /\ Len(t) \in Nat /\ DOMAIN t = 1 .. Len(t)
  BY LenProperties
<1>3. /\ u \in Seq(T) /\ Len(u) = Len(s) + Len(t)
      /\ \A k \in 1 .. Len(s) + Len(t) : u[k] = IF k <= Len(s) THEN s[k] ELSE t[k - Len(s)]
  BY ConcatProperties
<1>4. DOMAIN u = 1 .. Len(s) + Len(t)
  BY <1>3, LenProperties
<1>5. \A k \in 1 .. Len(s) : k \in 1 .. Len(s) + Len(t) /\ k <= Len(s)
  BY <1>1
<1>6. \A k \in 1 .. Len(s) + Len(t) :
         \/ k \in 1 .. Len(s) /\ k <= Len(s)
         \/ k - Len(s) \in 1 .. Len(t) /\ ~(k <= Len(s)) /\ k \notin 1 .. Len(s)
  BY <1>1
<1>. QED  BY <1>1, <1>3, <1>4, <1>5, <1>6

LEMMA JoinedIsSound ==
    ASSUME NEW s \in Seq(RepoPlanItems), NEW t \in Seq(RepoPlanItems),
           RolesAreSound(s), RolesAreSound(t),
           \A j \in DOMAIN s, k \in DOMAIN t : s[j].slug = t[k].slug =>
              s[j].role # t[k].role /\ "primary" \notin {s[j].role, t[k].role}
    PROVE  s \o t \in Seq(RepoPlanItems) /\ RolesAreSound(s \o t)
<1>. DEFINE T == RepoPlanItems
<1>0. PICK u : u = s \o t
  OBVIOUS
<1>1. /\ u \in Seq(T)
      /\ \A k \in DOMAIN u :
            \/ k \in DOMAIN s /\ u[k] = s[k]
            \/ k - Len(s) \in DOMAIN t /\ u[k] = t[k - Len(s)] /\ k \notin DOMAIN s
  BY <1>0, Joined
<1>2. Len(s) \in Nat /\ \A k \in DOMAIN u : k \in Nat
  BY <1>1, LenProperties
<1>3. ASSUME NEW j \in DOMAIN u, NEW k \in DOMAIN u, j # k, u[j].slug = u[k].slug
      PROVE  u[j].role # u[k].role /\ "primary" \notin {u[j].role, u[k].role}
  <2>1. CASE j \in DOMAIN s /\ k \in DOMAIN s
    BY <1>1, <1>3, <2>1 DEF RolesAreSound
  <2>2. CASE j \in DOMAIN s /\ k \notin DOMAIN s
    BY <1>1, <1>3, <2>2
  <2>3. CASE j \notin DOMAIN s /\ k \in DOMAIN s
    BY <1>1, <1>3, <2>3
  <2>4. CASE j \notin DOMAIN s /\ k \notin DOMAIN s
    <3>1. j - Len(s) # k - Len(s)
      BY <1>2, <1>3
    <3>. QED  BY <1>1, <1>3, <2>4, <3>1 DEF RolesAreSound
  <2>. QED  BY <2>1, <2>2, <2>3, <2>4
<1>4. \A k \in DOMAIN u : u[k].role = "read_only_context" => ~u[k].edit
  BY <1>1 DEF RolesAreSound
<1>5. RolesAreSound(u)
  BY <1>3, <1>4 DEF RolesAreSound
<1>. QED  BY <1>0, <1>1, <1>5

LEMMA UpToAreSequences ==
    ASSUME NEW n \in Nat, NEW S, NEW s \in UpTo(n, S)
    PROVE  s \in Seq(S) /\ Len(s) <= n
<1>1. PICK k \in 0 .. n : s \in [1 .. k -> S]
  BY DEF UpTo
<1>2. k \in Nat /\ k <= n
  BY <1>1
<1>. QED  BY <1>1, <1>2

(* What a plan must be for an attempt to go on with it                     *)
SoundPlan(p) ==
    /\ p \in RepoPlans
    /\ RolesAreSound(p.items)
    /\ p.coding /\ ~HasPrimary(p.items) => p.human

(* _normalize_plan makes a sound plan of any answer.                       *)
LEMMA NormalizedIsSound ==
    ASSUME NEW a \in Answers
    PROVE  SoundPlan(Normalized(a)) /\ Normalized(a).human = Human(a)
<1>1. /\ a.coding \in BOOLEAN /\ a.human \in BOOLEAN /\ a.edit \in BOOLEAN
      /\ a.primary \in Slugs \union {None}
      /\ a.secondary \in UpTo(MaxSecondary, [slug : Slugs, edit : BOOLEAN])
      /\ a.context \in UpTo(MaxContext, Slugs)
  BY DEF Answers
<1>. DEFINE P == IF a.primary \in Repos THEN <<Item(a.primary, "primary", a.edit)>> ELSE <<>>
            context == [k \in DOMAIN a.context |-> [slug |-> a.context[k], edit |-> FALSE]]
            S == Others(Listed(a.secondary, "secondary"), a.primary)
            C == Others(Listed(context, "read_only_context"), a.primary)
<1>2. a.secondary \in Seq([slug : Slugs, edit : BOOLEAN])
  BY <1>1, UpToAreSequences, BoundsAssumption
<1>3. context \in Seq([slug : Slugs, edit : BOOLEAN])
  <2>1. a.context \in Seq(Slugs)
    BY <1>1, UpToAreSequences, BoundsAssumption
  <2>2. Len(a.context) \in Nat /\ DOMAIN a.context = 1 .. Len(a.context)
        /\ \A k \in DOMAIN a.context : a.context[k] \in Slugs
    BY <2>1, LenProperties, ElementOfSeq
  <2>3. context \in [1 .. Len(a.context) -> [slug : Slugs, edit : BOOLEAN]]
    BY <2>2
  <2>. QED  BY <2>2, <2>3
<1>4. /\ P \in Seq(RepoPlanItems) /\ RolesAreSound(P)
      /\ \A k \in DOMAIN P : P[k].slug = a.primary /\ P[k].role = "primary"
      /\ (a.primary \in Repos => 1 \in DOMAIN P)
  <2>1. CASE a.primary \in Repos
    <3>1. PICK x : x = Item(a.primary, "primary", a.edit)
      OBVIOUS
    <3>2. x \in RepoPlanItems /\ x.slug = a.primary /\ x.role = "primary"
      BY <1>1, <2>1, <3>1, ItemIsTyped
    <3>3. P = <<x>>
      BY <2>1, <3>1
    <3>4. DOMAIN <<x>> = {1} /\ <<x>>[1] = x /\ <<x>> \in Seq(RepoPlanItems)
      BY <3>2
    <3>5. RolesAreSound(<<x>>)
      BY <3>2, <3>4 DEF RolesAreSound
    <3>. HIDE DEF P
    <3>. QED  BY <3>2, <3>3, <3>4, <3>5
  <2>2. CASE a.primary \notin Repos
    <3>1. P = <<>> /\ DOMAIN <<>> = {} /\ <<>> \in Seq(RepoPlanItems)
      BY <2>2
    <3>2. RolesAreSound(<<>>)
      BY <3>1 DEF RolesAreSound
    <3>. HIDE DEF P
    <3>. QED  BY <2>2, <3>1, <3>2
  <2>. QED  BY <2>1, <2>2
<1>5. PartOf(S, "secondary") /\ \A k \in DOMAIN S : S[k].slug # a.primary
  <2>1. PartOf(Listed(a.secondary, "secondary"), "secondary")
    BY <1>2, ListedPart
  <2>. QED  BY <2>1, OthersPart
<1>6. PartOf(C, "read_only_context") /\ \A k \in DOMAIN C : C[k].slug # a.primary
  <2>. HIDE DEF context
  <2>1. PartOf(Listed(context, "read_only_context"), "read_only_context")
    BY <1>3, ListedPart
  <2>. QED  BY <2>1, OthersPart
<1>7. Normalized(a) = [coding |-> a.coding, human |-> Human(a), items |-> P \o S \o C]
  BY DEF Normalized
<1>. HIDE DEF P, S, C, context
<1>8. /\ S \in Seq(RepoPlanItems) /\ C \in Seq(RepoPlanItems)
      /\ RolesAreSound(S) /\ RolesAreSound(C)
  BY <1>5, <1>6, PartIsSound DEF PartOf
<1>9. PICK u : u = P \o S
  OBVIOUS
<1>10. u \in Seq(RepoPlanItems) /\ RolesAreSound(u)
  <2>1. \A j \in DOMAIN P, k \in DOMAIN S : P[j].slug # S[k].slug
    BY <1>4, <1>5
  <2>. QED  BY <1>4, <1>8, <1>9, <2>1, JoinedIsSound
<1>11. /\ \A k \in DOMAIN P : k \in DOMAIN u /\ u[k] = P[k]
       /\ \A k \in DOMAIN u :
             \/ k \in DOMAIN P /\ u[k] = P[k]
             \/ k - Len(P) \in DOMAIN S /\ u[k] = S[k - Len(P)] /\ k \notin DOMAIN P
  BY <1>4, <1>8, <1>9, Joined
<1>12. PICK w : w = u \o C
  OBVIOUS
<1>13. w \in Seq(RepoPlanItems) /\ RolesAreSound(w)
  <2>1. \A j \in DOMAIN u : \/ u[j].slug = a.primary
                            \/ u[j].role = "secondary"
    BY <1>4, <1>5, <1>11 DEF PartOf
  <2>2. \A k \in DOMAIN C : C[k].slug # a.primary /\ C[k].role = "read_only_context"
    BY <1>6 DEF PartOf
  <2>3. \A j \in DOMAIN u, k \in DOMAIN C : u[j].slug = C[k].slug =>
           u[j].role # C[k].role /\ "primary" \notin {u[j].role, C[k].role}
    BY <2>1, <2>2
  <2>. QED  BY <1>8, <1>10, <1>12, <2>3, JoinedIsSound
<1>14. a.primary \in Repos => HasPrimary(w)
  <2>. SUFFICES ASSUME a.primary \in Repos PROVE HasPrimary(w)
    OBVIOUS
  <2>1. 1 \in DOMAIN P /\ P[1].role = "primary"
    BY <1>4
  <2>2. 1 \in DOMAIN u /\ u[1] = P[1]
    BY <1>11, <2>1
  <2>3. \A k \in DOMAIN u : k \in DOMAIN w /\ w[k] = u[k]
    BY <1>8, <1>10, <1>12, Joined
  <2>. QED  BY <2>1, <2>2, <2>3 DEF HasPrimary
<1>15. PICK h \in BOOLEAN : h = Human(a)
  BY <1>1 DEF Human
<1>16. a.coding /\ a.primary \notin Repos => h
  BY <1>15 DEF Human
<1>17. Normalized(a) = [coding |-> a.coding, human |-> h, items |-> w]
  BY <1>7, <1>9, <1>12, <1>15
<1>18. SoundPlan(Normalized(a))
  BY <1>1, <1>13, <1>14, <1>16, <1>17 DEF SoundPlan, RepoPlans
<1>. QED  BY <1>15, <1>17, <1>18

LEMMA DoubtsAreNamed ==
    ASSUME NEW a \in Answers, ~Human(a)
    PROVE  DoubtsIn(a) = {}
BY DEF Human, DoubtsIn

(* The rules rank repositories, the best one first.                        *)
LEMMA ByRulesIsSound ==
    ASSUME NEW s \in Rankings, NEW tie \in BOOLEAN
    PROVE  SoundPlan(ByRules(s, tie)) /\ (ByRules(s, tie).human <=> s = <<>> \/ tie)
<1>1. /\ s \in Seq(Repos) /\ Len(s) \in Nat /\ DOMAIN s = 1 .. Len(s)
      /\ \A k \in DOMAIN s : s[k] \in Repos
      /\ \A j, k \in DOMAIN s : s[j] = s[k] => j = k
  <2>1. Cardinality(Repos) \in Nat
    BY CatalogueAssumption, FS_CardinalityType
  <2>2. s \in Seq(Repos) /\ \A j, k \in DOMAIN s : s[j] = s[k] => j = k
    BY <2>1, UpToAreSequences DEF Rankings
  <2>. QED  BY <2>2, LenProperties, ElementOfSeq
<1>. DEFINE n == IF Len(s) > 4 THEN 4 ELSE Len(s)
            role(k) == IF k = 1 THEN "primary" ELSE "secondary"
            items == [k \in 1 .. n |-> Item(s[k], role(k), TRUE)]
<1>2. n \in Nat /\ \A k \in 1 .. n : k \in DOMAIN s /\ k \in Nat
  BY <1>1
<1>3. s # <<>> => 1 \in 1 .. n
  BY <1>1
<1>4. ByRules(s, tie) = [coding |-> TRUE, human |-> s = <<>> \/ tie, items |-> items]
  BY DEF ByRules
<1>. HIDE DEF n
<1>5. \A k \in 1 .. n : /\ items[k] \in RepoPlanItems
                        /\ items[k].slug = s[k] /\ items[k].role = role(k)
  <2>. SUFFICES ASSUME NEW k \in 1 .. n
                PROVE  /\ items[k] \in RepoPlanItems
                       /\ items[k].slug = s[k] /\ items[k].role = role(k)
    OBVIOUS
  <2>1. role(k) \in {"primary", "secondary", "read_only_context"} /\ s[k] \in Repos
    BY <1>1, <1>2
  <2>2. PICK x, c : x = s[k] /\ c = role(k)
    OBVIOUS
  <2>3. items[k] = Item(x, c, TRUE)
    BY <2>2
  <2>4. /\ Item(x, c, TRUE) \in RepoPlanItems
        /\ Item(x, c, TRUE).slug = x /\ Item(x, c, TRUE).role = c
    <3>1. x \in Repos /\ c \in {"primary", "secondary", "read_only_context"} /\ TRUE \in BOOLEAN
      BY <2>1, <2>2
    <3>. QED  BY <3>1, ItemIsTyped
  <2>. HIDE DEF role, items
  <2>. QED  BY <2>2, <2>3, <2>4
<1>6. items \in Seq(RepoPlanItems) /\ DOMAIN items = 1 .. n
  <2>1. items = [k \in 1 .. n |-> items[k]] /\ DOMAIN items = 1 .. n
    OBVIOUS
  <2>. HIDE DEF items, role
  <2>2. items \in [1 .. n -> RepoPlanItems]
    BY <1>5, <2>1
  <2>. QED  BY <1>2, <2>1, <2>2
<1>. HIDE DEF items
<1>7. RolesAreSound(items)
  <2>1. \A j, k \in 1 .. n : j # k => items[j].slug # items[k].slug
    BY <1>1, <1>2, <1>5
  <2>2. \A k \in 1 .. n : items[k].role # "read_only_context"
    BY <1>5
  <2>. QED  BY <1>6, <2>1, <2>2 DEF RolesAreSound
<1>8. s # <<>> => HasPrimary(items)
  BY <1>3, <1>5, <1>6 DEF HasPrimary
<1>9. PICK h \in BOOLEAN : h = (s = <<>> \/ tie)
  OBVIOUS
<1>10. ByRules(s, tie) = [coding |-> TRUE, human |-> h, items |-> items]
  BY <1>4, <1>9
<1>11. s = <<>> => h
  BY <1>9
<1>12. SoundPlan(ByRules(s, tie))
  BY <1>6, <1>7, <1>8, <1>10, <1>11 DEF SoundPlan, RepoPlans
<1>13. ByRules(s, tie).human = h
  BY <1>10
<1>. QED  BY <1>9, <1>12, <1>13

LEMMA NoItemsAreSound ==
    ASSUME NEW c \in BOOLEAN, NEW h \in BOOLEAN, c => h
    PROVE  SoundPlan([coding |-> c, human |-> h, items |-> <<>>])
<1>1. <<>> \in Seq(RepoPlanItems) /\ DOMAIN <<>> = {}
  OBVIOUS
<1>2. RolesAreSound(<<>>)
  BY <1>1 DEF RolesAreSound
<1>. QED  BY <1>1, <1>2 DEF SoundPlan, RepoPlans

(* Only an agent changes files, and repositories are checked out for a     *)
(* plan that has a primary one.                                            *)
Phased ==
    /\ pc # "agent" => changed = {}
    /\ pc = "ensure" => Materialized(plan)
    /\ pc \in {"idle", "plan"} => todo = 0

(* A checkout is in the directory of its repository.                       *)
HeldInPlace == \A d \in Dirs : holds[d] # None => Dir[holds[d]] = d

Ensured(k) == holds[Dir[plan.items[k].slug]] = plan.items[k].slug

(* The items that materialize_repo_plan has come past are checked out.     *)
EnsuredSoFar ==
    pc = "ensure" => \A k \in 1 .. Len(plan.items) - todo : Ensured(k)

PlanningInv ==
    /\ PlanIsSound /\ Phased /\ HeldInPlace /\ EnsuredSoFar
    /\ AgentFindsItsRepos /\ DeviationsAreSeen

LEMMA PlanTyped ==
    ASSUME TypeOK
    PROVE  /\ plan \in RepoPlans /\ plan.coding \in BOOLEAN /\ plan.human \in BOOLEAN
           /\ plan.items \in Seq(RepoPlanItems) /\ Len(plan.items) \in Nat
           /\ DOMAIN plan.items = 1 .. Len(plan.items)
           /\ \A k \in DOMAIN plan.items : /\ plan.items[k] \in RepoPlanItems
                                           /\ plan.items[k].slug \in Repos
                                           /\ Dir[plan.items[k].slug] \in Dirs
<1>1. plan \in RepoPlans
  BY DEF TypeOK
<1>2. plan.coding \in BOOLEAN /\ plan.human \in BOOLEAN /\ plan.items \in Seq(RepoPlanItems)
  BY <1>1 DEF RepoPlans
<1>3. /\ Len(plan.items) \in Nat /\ DOMAIN plan.items = 1 .. Len(plan.items)
      /\ \A k \in DOMAIN plan.items : plan.items[k] \in RepoPlanItems
  BY <1>2, LenProperties, ElementOfSeq
<1>4. \A k \in DOMAIN plan.items : plan.items[k].slug \in Repos
  BY <1>3 DEF RepoPlanItems
<1>5. \A r \in Repos : Dir[r] \in Dirs
  BY DEF Dirs
<1>. QED  BY <1>1, <1>2, <1>3, <1>4, <1>5

(* Where no plan is being carried out, little has to be shown.             *)
LEMMA NothingUnderWay ==
    ASSUME TypeOK', SoundPlan(plan'), DoubtMeansBlock',
           pc' \notin {"ensure", "agent"}, todo' = 0, changed' = {},
           HeldInPlace'
    PROVE  PlanningInv'
<1>1. PlanIsSound'
  BY DEF SoundPlan, PlanIsSound
<1>2. Phased'
  BY DEF Phased
<1>3. EnsuredSoFar' /\ AgentFindsItsRepos'
  BY DEF EnsuredSoFar, AgentFindsItsRepos
<1>4. DeviationsAreSeen'
  <2>1. reported' = {}
    BY DEF TypeOK
  <2>. QED  BY <2>1 DEF DeviationsAreSeen
<1>. QED  BY <1>1, <1>2, <1>3, <1>4 DEF PlanningInv

LEMMA PlanningInvInit == Init => PlanningInv
<1>. SUFFICES ASSUME Init PROVE PlanningInv
  OBVIOUS
<1>1. SoundPlan(plan) /\ plan \in RepoPlans /\ plan.items = <<>>
  <2>1. SoundPlan(NoPlan)
    BY NoItemsAreSound DEF NoPlan
  <2>. QED  BY <2>1 DEF Init, SoundPlan, NoPlan
<1>2. holds \in [Dirs -> Repos \union {None}] /\ \A d \in Dirs : holds[d] = None
  BY DEF Init, NothingHeld
<1>3. TypeOK
  <2>1. todo \in 0 .. Len(plan.items)
    BY <1>1 DEF Init
  <2>. QED  BY <1>1, <1>2, <2>1 DEF Init, TypeOK
<1>4. PlanIsSound
  BY <1>1, <1>3 DEF Init, PlanIsSound, SoundPlan, DoubtMeansBlock
<1>5. Phased /\ EnsuredSoFar /\ AgentFindsItsRepos
  BY DEF Init, Phased, EnsuredSoFar, AgentFindsItsRepos
<1>6. HeldInPlace
  BY <1>2 DEF HeldInPlace
<1>7. DeviationsAreSeen
  BY DEF Init, DeviationsAreSeen
<1>. QED  BY <1>4, <1>5, <1>6, <1>7 DEF PlanningInv

LEMMA BeginKeeps ==
    ASSUME PlanningInv, Begin
    PROVE  PlanningInv'
<1>1. /\ PlanIsSound /\ Phased /\ HeldInPlace /\ TypeOK
      /\ config' \in Configs /\ pc = "idle" /\ pc' = "plan"
      /\ UNCHANGED <<plan, doubts, todo, holds, changed, reported>>
  BY DEF PlanningInv, PlanIsSound, Begin
<1>2. TypeOK'
  BY <1>1 DEF TypeOK
<1>3. SoundPlan(plan')
  BY <1>1 DEF PlanIsSound, SoundPlan, TypeOK
<1>4. todo' = 0 /\ changed' = {}
  BY <1>1 DEF Phased
<1>5. DoubtMeansBlock' /\ HeldInPlace'
  BY <1>1 DEF DoubtMeansBlock, HeldInPlace
<1>. QED  BY <1>1, <1>2, <1>3, <1>4, <1>5, NothingUnderWay

LEMMA NothingDone ==
    ASSUME NEW n \in Nat
    PROVE  0 \in 0 .. n
OBVIOUS

LEMMA EmittedKeeps ==
    ASSUME PlanningInv, pc = "plan", NEW p, SoundPlan(p),
           NEW why \in SUBSET {"asked", "unknown", "no primary", "no match", "tie", "broken"},
           ~p.human => why = {},
           Emitted(p, why)
    PROVE  PlanningInv'
<1>1. /\ PlanIsSound /\ Phased /\ HeldInPlace /\ TypeOK
      /\ plan' = p /\ doubts' = why
      /\ pc' = IF BlockedBy(p) THEN "blocked" ELSE "prepare"
      /\ UNCHANGED <<config, todo, holds, changed, reported>>
  BY DEF PlanningInv, PlanIsSound, Emitted
<1>2. todo' = 0 /\ changed' = {}
  BY <1>1 DEF Phased
<1>3. TypeOK'
  <2>1. p \in RepoPlans /\ p.items \in Seq(RepoPlanItems)
    BY DEF SoundPlan, RepoPlans
  <2>2. Len(p.items) \in Nat
    BY <2>1, LenProperties
  <2>3. todo' \in 0 .. Len(plan'.items)
    <3>1. 0 \in 0 .. Len(p.items)
      BY <2>2, NothingDone
    <3>. QED  BY <1>1, <1>2, <3>1
  <2>4. pc' \in {"blocked", "prepare"}
    BY <1>1
  <2>. QED  BY <1>1, <2>1, <2>3, <2>4 DEF TypeOK
<1>4. DoubtMeansBlock'
  BY <1>1 DEF DoubtMeansBlock, BlockedBy
<1>5. HeldInPlace' /\ SoundPlan(plan') /\ pc' \notin {"ensure", "agent"}
  BY <1>1 DEF HeldInPlace
<1>. QED  BY <1>2, <1>3, <1>4, <1>5, NothingUnderWay

LEMMA PlanningKeeps ==
    ASSUME PlanningInv, Planning
    PROVE  PlanningInv'
<1>1. CASE NotCoding
  <2>1. SoundPlan(NoPlan)
    BY NoItemsAreSound DEF NoPlan
  <2>. QED  BY <1>1, <2>1, EmittedKeeps DEF NotCoding
<1>2. CASE PlannedByLlm
  <2>1. PICK a \in Answers : Emitted(Normalized(a), DoubtsIn(a))
    BY <1>2 DEF PlannedByLlm
  <2>2. SoundPlan(Normalized(a)) /\ (~Normalized(a).human => DoubtsIn(a) = {})
    BY NormalizedIsSound, DoubtsAreNamed
  <2>3. DoubtsIn(a) \in SUBSET {"asked", "unknown", "no primary", "no match", "tie", "broken"}
    BY DEF DoubtsIn
  <2>. QED  BY <1>2, <2>1, <2>2, <2>3, EmittedKeeps DEF PlannedByLlm
<1>3. CASE PlannerBlocks
  <2>1. PICK p : p = [coding |-> TRUE, human |-> TRUE, items |-> <<>>]
    OBVIOUS
  <2>2. SoundPlan(p) /\ p.human
    BY <2>1, NoItemsAreSound
  <2>3. Emitted(p, {"broken"}) /\ pc = "plan"
    BY <1>3, <2>1 DEF PlannerBlocks
  <2>. QED  BY <2>2, <2>3, EmittedKeeps
<1>4. CASE PlannedByRules
  <2>1. PICK s \in Rankings, tie \in BOOLEAN :
           Emitted(ByRules(s, tie),
                   IF s = <<>> THEN {"no match"} ELSE IF tie THEN {"tie"} ELSE {})
    BY <1>4 DEF PlannedByRules
  <2>2. PICK why : why = IF s = <<>> THEN {"no match"} ELSE IF tie THEN {"tie"} ELSE {}
    OBVIOUS
  <2>3. SoundPlan(ByRules(s, tie)) /\ (ByRules(s, tie).human <=> s = <<>> \/ tie)
    BY ByRulesIsSound
  <2>4. /\ why \in SUBSET {"asked", "unknown", "no primary", "no match", "tie", "broken"}
        /\ ~ByRules(s, tie).human => why = {}
    BY <2>2, <2>3
  <2>5. Emitted(ByRules(s, tie), why) /\ pc = "plan"
    BY <1>4, <2>1, <2>2 DEF PlannedByRules
  <2>. QED  BY <2>3, <2>4, <2>5, EmittedKeeps
<1>. QED  BY <1>1, <1>2, <1>3, <1>4 DEF Planning

(* What the steps of an attempt with its plan leave alone                  *)
LEMMA PlanStays ==
    ASSUME PlanningInv, UNCHANGED <<config, plan, doubts>>, TypeOK',
           pc' \in {"prepare", "ensure", "agent"} => pc \in {"prepare", "ensure", "agent"}
    PROVE  PlanIsSound'
<1>1. PlanIsSound
  BY DEF PlanningInv
<1>2. DoubtMeansBlock'
  BY <1>1 DEF PlanIsSound, DoubtMeansBlock
<1>. QED  BY <1>1, <1>2 DEF PlanIsSound

LEMMA PrepareKeeps ==
    ASSUME PlanningInv, Prepare
    PROVE  PlanningInv'
<1>1. /\ TypeOK /\ Phased /\ HeldInPlace /\ pc = "prepare"
      /\ UNCHANGED <<config, plan, doubts, changed, reported>>
      /\ changed = {} /\ reported = {}
  BY DEF PlanningInv, PlanIsSound, Prepare, Phased, TypeOK
<1>2. \/ ~Materialized(plan) /\ pc' = "agent" /\ UNCHANGED <<todo, holds>>
      \/ Materialized(plan) /\ pc' = "ensure" /\ todo' = Len(plan.items)
         /\ (holds' = holds \/ holds' = NothingHeld)
      \/ pc' = "mismatch" /\ UNCHANGED <<todo, holds>>
  BY DEF Prepare
<1>3. holds' \in [Dirs -> Repos \union {None}] /\ HeldInPlace'
  <2>1. CASE holds' = holds
    BY <1>1, <2>1 DEF TypeOK, HeldInPlace
  <2>2. CASE holds' = NothingHeld
    BY <2>2 DEF NothingHeld, HeldInPlace
  <2>. QED  BY <1>2, <2>1, <2>2
<1>4. TypeOK'
  <2>1. todo' \in 0 .. Len(plan.items)
    <3>1. todo \in 0 .. Len(plan.items)
      BY <1>1 DEF TypeOK
    <3>2. Len(plan.items) \in 0 .. Len(plan.items)
      <4>1. ASSUME NEW n \in Nat PROVE n \in 0 .. n
        OBVIOUS
      <4>. QED  BY <1>1, <4>1, PlanTyped
    <3>. QED  BY <1>2, <3>1, <3>2
  <2>2. pc' \in {"agent", "ensure", "mismatch"}
    BY <1>2
  <2>. QED  BY <1>1, <1>3, <2>1, <2>2 DEF TypeOK
<1>5. PlanIsSound'
  BY <1>1, <1>4, PlanStays
<1>6. Phased'
  BY <1>1, <1>2 DEF Phased
<1>7. EnsuredSoFar'
  <2>1. CASE pc' = "ensure"
    <3>1. todo' = Len(plan'.items) /\ Len(plan'.items) \in Nat
      BY <1>1, <1>2, <2>1, PlanTyped
    <3>2. 1 .. Len(plan'.items) - todo' = {}
      BY <3>1
    <3>. QED  BY <3>2 DEF EnsuredSoFar
  <2>. QED  BY <2>1 DEF EnsuredSoFar
<1>8. AgentFindsItsRepos'
  BY <1>1, <1>2 DEF AgentFindsItsRepos
<1>9. DeviationsAreSeen'
  BY <1>1 DEF DeviationsAreSeen
<1>. QED  BY <1>3, <1>5, <1>6, <1>7, <1>8, <1>9 DEF PlanningInv

LEMMA EnsureKeeps ==
    ASSUME PlanningInv, Ensure
    PROVE  PlanningInv'
<1>1. /\ TypeOK /\ Phased /\ HeldInPlace /\ EnsuredSoFar /\ pc = "ensure" /\ todo > 0
      /\ UNCHANGED <<config, plan, doubts, changed, reported>>
      /\ changed = {} /\ reported = {}
  BY DEF PlanningInv, PlanIsSound, Ensure, Phased, TypeOK
<1>. DEFINE c == Len(plan.items) + 1 - todo
            slug == plan.items[c].slug
            dir == Dir[slug]
<1>2. /\ todo \in Nat /\ todo <= Len(plan.items) /\ Len(plan.items) \in Nat
      /\ c \in DOMAIN plan.items
  <2>1. todo \in 0 .. Len(plan.items)
    BY <1>1 DEF TypeOK
  <2>. QED  BY <1>1, <2>1, PlanTyped
<1>3. slug \in Repos /\ dir \in Dirs /\ slug # None
  <2>1. slug \in Repos /\ dir \in Dirs
    BY <1>1, <1>2, PlanTyped
  <2>. QED  BY <2>1, CatalogueAssumption
<1>4. Current = plan.items[c]
  BY DEF Current
<1>5. \/ /\ holds[dir] = None /\ holds' = [holds EXCEPT ![dir] = slug]
         /\ todo' = todo - 1 /\ pc' = pc
      \/ holds[dir] = slug /\ holds' = holds /\ todo' = todo - 1 /\ pc' = pc
      \/ holds' = holds /\ todo' = todo /\ pc' = "mismatch"
  BY <1>4 DEF Ensure, Matches
<1>. HIDE DEF c
<1>6. holds \in [Dirs -> Repos \union {None}]
  BY <1>1 DEF TypeOK
<1>7. holds' \in [Dirs -> Repos \union {None}] /\ HeldInPlace'
  <2>1. CASE holds' = [holds EXCEPT ![dir] = slug]
    <3>1. holds' \in [Dirs -> Repos \union {None}]
      BY <1>3, <1>6, <2>1
    <3>2. \A d \in Dirs : holds'[d] = IF d = dir THEN slug ELSE holds[d]
      BY <1>6, <2>1
    <3>3. \A d \in Dirs : holds'[d] # None => Dir[holds'[d]] = d
      BY <1>1, <3>2 DEF HeldInPlace
    <3>. QED  BY <3>1, <3>3 DEF HeldInPlace
  <2>2. CASE holds' = holds
    BY <1>1, <1>6, <2>2 DEF HeldInPlace
  <2>. QED  BY <1>5, <2>1, <2>2
<1>8. TypeOK'
  <2>1. todo' \in 0 .. Len(plan.items)
    BY <1>1, <1>2, <1>5
  <2>2. pc' \in {"ensure", "mismatch"}
    BY <1>1, <1>5
  <2>. QED  BY <1>1, <1>7, <2>1, <2>2 DEF TypeOK
<1>9. PlanIsSound'
  BY <1>1, <1>8, PlanStays
<1>10. Phased'
  BY <1>1, <1>5 DEF Phased
<1>11. EnsuredSoFar'
  <2>. SUFFICES ASSUME pc' = "ensure", NEW k \in 1 .. Len(plan.items) - todo'
                PROVE  Ensured(k)'
    BY <1>1 DEF EnsuredSoFar
  <2>1. todo' = todo - 1
    BY <1>5
  <2>2. k = c \/ k \in 1 .. Len(plan.items) - todo
    BY <1>2, <2>1 DEF c
  <2>3. holds'[dir] = slug
    BY <1>3, <1>5, <1>6
  <2>4. CASE k = c
    BY <1>1, <2>3, <2>4 DEF Ensured
  <2>5. CASE k \in 1 .. Len(plan.items) - todo
    <3>1. Ensured(k) /\ k \in DOMAIN plan.items
      <4>1. Ensured(k)
        BY <1>1, <2>5 DEF EnsuredSoFar
      <4>2. k \in 1 .. Len(plan.items)
        BY <1>2, <2>5
      <4>. QED  BY <1>1, <4>1, <4>2, PlanTyped
    <3>2. /\ plan.items[k].slug \in Repos /\ Dir[plan.items[k].slug] \in Dirs
          /\ plan.items[k].slug # None
      BY <1>1, <3>1, PlanTyped, CatalogueAssumption
    <3>3. CASE holds' = holds
      BY <1>1, <3>1, <3>3 DEF Ensured
    <3>4. CASE holds[dir] = None /\ holds' = [holds EXCEPT ![dir] = slug]
      <4>1. Dir[plan.items[k].slug] # dir
        BY <3>1, <3>2, <3>4 DEF Ensured
      <4>2. holds'[Dir[plan.items[k].slug]] = holds[Dir[plan.items[k].slug]]
        BY <1>6, <3>2, <3>4, <4>1
      <4>. QED  BY <1>1, <3>1, <4>2 DEF Ensured
    <3>. QED  BY <1>5, <3>3, <3>4
  <2>. QED  BY <2>2, <2>4, <2>5
<1>12. AgentFindsItsRepos'
  BY <1>1, <1>5 DEF AgentFindsItsRepos
<1>13. DeviationsAreSeen'
  BY <1>1 DEF DeviationsAreSeen
<1>. QED  BY <1>7, <1>9, <1>10, <1>11, <1>12, <1>13 DEF PlanningInv

LEMMA AllEnsuredKeeps ==
    ASSUME PlanningInv, AllEnsured
    PROVE  PlanningInv'
<1>1. /\ TypeOK /\ Phased /\ HeldInPlace /\ EnsuredSoFar /\ pc = "ensure" /\ todo = 0
      /\ pc' = "agent"
      /\ UNCHANGED <<config, plan, doubts, todo, holds, changed, reported>>
      /\ changed = {} /\ reported = {}
  BY DEF PlanningInv, PlanIsSound, AllEnsured, Phased, TypeOK
<1>2. TypeOK'
  BY <1>1 DEF TypeOK
<1>3. PlanIsSound'
  BY <1>1, <1>2, PlanStays
<1>4. Phased' /\ HeldInPlace' /\ EnsuredSoFar' /\ DeviationsAreSeen'
  BY <1>1 DEF Phased, HeldInPlace, EnsuredSoFar, DeviationsAreSeen
<1>5. AgentFindsItsRepos'
  <2>1. \A k \in DOMAIN plan.items : k \in 1 .. Len(plan.items) - todo
    BY <1>1, PlanTyped
  <2>2. \A k \in DOMAIN plan.items : Ensured(k)
    BY <1>1, <2>1 DEF EnsuredSoFar
  <2>. QED  BY <1>1, <2>2 DEF AgentFindsItsRepos, Ensured
<1>. QED  BY <1>3, <1>4, <1>5 DEF PlanningInv

(* _repo_slug_for_path finds what is checked out there, if it is planned.  *)
LEMMA SlugAtIsHeld ==
    ASSUME PlanningInv, pc = "agent", Materialized(plan), NEW d \in Dirs
    PROVE  /\ SlugAt(d) # None => SlugAt(d) = holds[d]
           /\ \A k \in DOMAIN plan.items : plan.items[k].slug = holds[d] =>
                 SlugAt(d) = holds[d]
<1>. DEFINE here == {k \in DOMAIN plan.items : Dir[plan.items[k].slug] = d}
<1>1. TypeOK /\ HeldInPlace /\ AgentFindsItsRepos
  BY DEF PlanningInv, PlanIsSound
<1>2. d # Elsewhere
  BY DirAssumption DEF Dirs
<1>3. \A k \in here : plan.items[k].slug = holds[d]
  BY <1>1 DEF AgentFindsItsRepos
<1>4. ASSUME NEW k \in DOMAIN plan.items, plan.items[k].slug = holds[d] PROVE k \in here
  <2>1. holds[d] # None
    BY <1>1, <1>4, PlanTyped, CatalogueAssumption
  <2>2. Dir[holds[d]] = d
    BY <1>1, <2>1 DEF HeldInPlace
  <2>. QED  BY <1>4, <2>2
<1>5. here # {} => SlugAt(d) = holds[d]
  <2>. SUFFICES ASSUME here # {} PROVE SlugAt(d) = holds[d]
    OBVIOUS
  <2>1. here \in SUBSET Nat
    BY <1>1, PlanTyped
  <2>2. \E m \in here : \A j \in here : m <= j
    BY <2>1, Least
  <2>3. PICK m : m = (CHOOSE k \in here : \A j \in here : k <= j)
    OBVIOUS
  <2>4. m \in here
    BY <2>2, <2>3
  <2>5. SlugAt(d) = plan.items[m].slug
    BY <1>2, <2>3 DEF SlugAt
  <2>. QED  BY <1>3, <2>4, <2>5
<1>6. here = {} => SlugAt(d) = None
  BY DEF SlugAt
<1>. QED  BY <1>4, <1>5, <1>6

Allowed(d) == \E k \in DOMAIN plan.items : /\ d # Elsewhere
                                           /\ holds[d] = plan.items[k].slug
                                           /\ plan.items[k].edit

(* The watch asks by the name of the directory, and finds out whether the  *)
(* agent may edit what is checked out in it.                               *)
LEMMA WatchIsRight ==
    ASSUME PlanningInv, pc = "agent", Materialized(plan), NEW d \in Dirs \union {Elsewhere}
    PROVE  SlugAt(d) \in EditAllowedSlugs <=> Allowed(d)
<1>1. TypeOK /\ RolesAreSound(plan.items)
  BY DEF PlanningInv, PlanIsSound
<1>2. None \notin EditAllowedSlugs
  BY <1>1, PlanTyped, CatalogueAssumption DEF EditAllowedSlugs
<1>3. CASE d = Elsewhere
  <2>1. SlugAt(d) = None
    BY <1>3 DEF SlugAt
  <2>2. ~Allowed(d)
    BY <1>3 DEF Allowed
  <2>. QED  BY <1>2, <2>1, <2>2
<1>4. CASE d \in Dirs
  <2>1. d # Elsewhere
    BY <1>4, DirAssumption DEF Dirs
  <2>2. /\ SlugAt(d) # None => SlugAt(d) = holds[d]
        /\ \A k \in DOMAIN plan.items : plan.items[k].slug = holds[d] => SlugAt(d) = holds[d]
    BY <1>4, SlugAtIsHeld
  <2>3. ASSUME SlugAt(d) \in EditAllowedSlugs PROVE Allowed(d)
    <3>1. SlugAt(d) = holds[d]
      BY <1>2, <2>2, <2>3
    <3>2. PICK k \in DOMAIN plan.items : plan.items[k].slug = SlugAt(d) /\ plan.items[k].edit
      BY <2>3 DEF EditAllowedSlugs
    <3>. QED  BY <2>1, <3>1, <3>2 DEF Allowed
  <2>4. ASSUME Allowed(d) PROVE SlugAt(d) \in EditAllowedSlugs
    <3>1. PICK k \in DOMAIN plan.items : holds[d] = plan.items[k].slug /\ plan.items[k].edit
      BY <2>4 DEF Allowed
    <3>2. plan.items[k].role # "read_only_context"
      BY <1>1, <3>1 DEF RolesAreSound
    <3>3. plan.items[k].slug \in EditAllowedSlugs
      BY <3>1, <3>2 DEF EditAllowedSlugs
    <3>. QED  BY <2>2, <3>1, <3>3
  <2>. QED  BY <2>3, <2>4
<1>. QED  BY <1>3, <1>4

LEMMA FileChangeKeeps ==
    ASSUME PlanningInv, NEW d \in Dirs \union {Elsewhere}, FileChange(d)
    PROVE  PlanningInv'
<1>1. /\ TypeOK /\ Phased /\ HeldInPlace /\ EnsuredSoFar /\ AgentFindsItsRepos
      /\ DeviationsAreSeen /\ pc = "agent"
      /\ UNCHANGED <<config, pc, plan, doubts, todo, holds>>
      /\ changed' = changed \union {d}
      /\ reported' = IF SlugAt(d) \in EditAllowedSlugs THEN reported
                     ELSE reported \union {d}
  BY DEF PlanningInv, PlanIsSound, FileChange
<1>2. TypeOK'
  <2>1. changed' \subseteq Dirs \union {Elsewhere} /\ reported' \subseteq changed'
    BY <1>1 DEF TypeOK
  <2>. QED  BY <1>1, <2>1 DEF TypeOK
<1>3. PlanIsSound'
  BY <1>1, <1>2, PlanStays
<1>4. Phased' /\ HeldInPlace' /\ EnsuredSoFar' /\ AgentFindsItsRepos'
  BY <1>1 DEF Phased, HeldInPlace, EnsuredSoFar, Ensured, AgentFindsItsRepos
<1>5. DeviationsAreSeen'
  <2>. SUFFICES ASSUME Materialized(plan)
                PROVE  reported' = {x \in changed' : ~Allowed(x)}
    BY <1>1 DEF DeviationsAreSeen, Allowed
  <2>1. reported = {x \in changed : ~Allowed(x)}
    BY <1>1 DEF DeviationsAreSeen, Allowed
  <2>2. SlugAt(d) \in EditAllowedSlugs <=> Allowed(d)
    BY <1>1, WatchIsRight
  <2>. QED  BY <1>1, <2>1, <2>2
<1>. QED  BY <1>3, <1>4, <1>5 DEF PlanningInv

LEMMA EndKeeps ==
    ASSUME PlanningInv, End
    PROVE  PlanningInv'
<1>1. /\ TypeOK /\ HeldInPlace
      /\ pc' = "idle" /\ plan' = NoPlan /\ doubts' = {} /\ todo' = 0
      /\ changed' = {} /\ reported' = {} /\ UNCHANGED <<config, holds>>
  BY DEF PlanningInv, PlanIsSound, End
<1>2. SoundPlan(NoPlan) /\ NoPlan \in RepoPlans /\ NoPlan.items = <<>>
  <2>1. SoundPlan(NoPlan)
    BY NoItemsAreSound DEF NoPlan
  <2>. QED  BY <2>1 DEF SoundPlan, NoPlan
<1>3. TypeOK'
  <2>1. todo' \in 0 .. Len(plan'.items)
    BY <1>1, <1>2
  <2>. QED  BY <1>1, <1>2, <2>1 DEF TypeOK
<1>4. DoubtMeansBlock' /\ HeldInPlace' /\ SoundPlan(plan')
  BY <1>1, <1>2 DEF DoubtMeansBlock, HeldInPlace
<1>. QED  BY <1>1, <1>3, <1>4, NothingUnderWay

LEMMA PlanningInvStep == PlanningInv /\ [Next]_vars => PlanningInv'
<1>. SUFFICES ASSUME PlanningInv, [Next]_vars PROVE PlanningInv'
  OBVIOUS
<1>1. CASE Begin
  BY <1>1, BeginKeeps
<1>2. CASE Planning
  BY <1>2, PlanningKeeps
<1>3. CASE Prepare
  BY <1>3, PrepareKeeps
<1>4. CASE Ensure
  BY <1>4, EnsureKeeps
<1>5. CASE AllEnsured
  BY <1>5, AllEnsuredKeeps
<1>6. ASSUME NEW d \in Dirs \union {Elsewhere}, FileChange(d) PROVE PlanningInv'
  BY <1>6, FileChangeKeeps
<1>7. CASE End
  BY <1>7, EndKeeps
<1>8. CASE UNCHANGED vars
  <2>1. PlanIsSound'
    BY <1>8 DEF PlanningInv, vars, PlanIsSound, TypeOK, DoubtMeansBlock
  <2>2. Phased' /\ HeldInPlace' /\ EnsuredSoFar' /\ AgentFindsItsRepos' /\ DeviationsAreSeen'
    BY <1>8 DEF PlanningInv, vars, Phased, HeldInPlace, EnsuredSoFar, Ensured,
                AgentFindsItsRepos, DeviationsAreSeen
  <2>. QED  BY <2>1, <2>2 DEF PlanningInv
<1>. QED  BY <1>1, <1>2, <1>3, <1>4, <1>5, <1>6, <1>7, <1>8 DEF Next

LEMMA PlanningAlways == Spec => []PlanningInv
BY PlanningInvInit, PlanningInvStep, PTL DEF Spec

(* Whatever the planning model answers, and however the rules score a      *)
(* catalogue of any size: only its repositories are planned, each in roles *)
(* that go together, and a plan there is doubt about waits for a human.    *)
THEOREM PlansAreSound == Spec => []PlanIsSound
<1>1. PlanningInv => PlanIsSound
  BY DEF PlanningInv
<1>. QED  BY <1>1, PlanningAlways, PTL

(* After any number of attempts with other plans in the same workspace, an *)
(* agent finds the repositories of its own plan, each in its directory.    *)
THEOREM ReposAreFound == Spec => []AgentFindsItsRepos
<1>1. PlanningInv => AgentFindsItsRepos
  BY DEF PlanningInv
<1>. QED  BY <1>1, PlanningAlways, PTL

(* A change outside of the checkouts that the plan lets the agent edit is  *)
(* in repo_deviations, and no other, although the watch only compares the  *)
(* names of directories and several repositories may share one.            *)
THEOREM DeviationsSeen == Spec => []DeviationsAreSeen
<1>1. PlanningInv => DeviationsAreSeen
  BY DEF PlanningInv
<1>. QED  BY <1>1, PlanningAlways, PTL
=============================================================================
