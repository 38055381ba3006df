------------------------- MODULE TorrentPollerProofs -------------------------
(***************************************************************************)
(* Theorems about TorrentPoller for any number of reports, ticks, pages,   *)
(* faults and truncates: the cursor is never ahead of ClickHouse, a report *)
(* is written more than once only for the two reasons there are, and no    *)
(* report is left behind the overlap.                                      *)
(***************************************************************************)
EXTENDS TorrentPoller, FiniteSetTheorems, WellFoundedInduction, TLAPS

\* The reports this poll ends with in the table, if its insert succeeds.
All == table \cup Collected

\* The listed reports this poll has looked at, or was not to look at.
Covered == IF phase = "fetch" THEN {r \in listed : Position(r) < page * PageSize} ELSE listed

\* The list is in the order of time and nothing is from the future.
Ordered ==
    /\ \A r \in listed \cup opened : r.id < nextId /\ r.at <= now
    /\ \A q, r \in listed \cup opened : (q.id = r.id => q = r) /\ (q.id < r.id => q.at <= r.at)
    /\ \A r \in opened : now <= r.at + CommitDelay
    /\ \A r \in All : r.at <= now

\* What the process remembers agrees with the table.
Memory ==
    /\ stored \subseteq table
    /\ since <= LatestOf(table)
    /\ ~resumed => since = 0 /\ stored = {} /\ table \subseteq unmarked
    /\ \A r \in table \ unmarked : r \in stored \/ r.at < since - Overlap

\* What a poll has collected is from behind the cutoff, and new when it is
\* inserted.
Polling ==
    /\ phase \in {"fetch", "insert"} => resumed
    /\ phase \notin {"fetch", "insert"} => Collected = {}
    /\ phase = "fetch" => page < MaxPages
    /\ phase # "fetch" => page = 0
    /\ \A r \in Collected : since = 0 \/ r.at >= since - Overlap
    /\ phase = "insert" => Collected \cap stored = {}

\* A report is collected once, and once more for every report committed since
\* at most; one that lies ahead of the next page, where it can be collected
\* again, has been moved there by one that is not accounted for yet.
Repeats ==
    /\ page = 0 /\ phase = "fetch" => Collected = {}
    /\ \A r \in Collected :
          /\ out[r] <= 1 + shifts
          /\ phase = "fetch" /\ page * PageSize <= Position(r) => out[r] <= shifts

\* NothingLeftBehind as the poll goes on: a report it has passed is collected,
\* stored, or so late that it lies inside the overlap.
CoveredIsKept == \A r \in Covered : r \in All \/ r.at >= LatestOf(All) - Overlap \/ capped

\* The inductive invariant.
Inv ==
    /\ TypeOK
    /\ Ordered
    /\ Memory
    /\ Polling
    /\ Repeats
    /\ CoveredIsKept
    /\ NothingLeftBehind

-----------------------------------------------------------------------------
(* Reports and LatestOf *)

LEMMA ReportFields ==
    ASSUME NEW r \in Reports
    PROVE  r.id \in Nat /\ r.at \in Nat /\ 1 <= r.at /\ r.at <= MaxTime
BY BoundsAssumption DEF Reports

LEMMA ReportsFinite == IsFiniteSet(Reports)
<1> DEFINE Pairs == (1 .. MaxId) \X (1 .. MaxTime)
<1> DEFINE f == [r \in Reports |-> <<r.id, r.at>>]
<1>1. IsFiniteSet(Pairs)
  <2>1. IsFiniteSet(1 .. MaxId) /\ IsFiniteSet(1 .. MaxTime)
    BY FS_Interval, BoundsAssumption
  <2> QED BY <2>1, FS_Product
<1>2. f \in Injection(Reports, Pairs)
  <2>1. f \in [Reports -> Pairs]
    BY DEF Reports
  <2>2. ASSUME NEW q \in Reports, NEW r \in Reports, f[q] = f[r] PROVE q = r
    BY <2>2 DEF Reports
  <2> QED BY <2>1, <2>2 DEF Injection, IsInjective
<1> QED BY <1>1, <1>2, FS_Injection

\* A set of numbers that is not empty has a smallest element.
LEMMA MinExists ==
    ASSUME NEW T \in SUBSET Nat, T # {}
    PROVE  \E x \in T : \A y \in T : x <= y
<1>1. PICK x \in T : \A y \in T : ~ (<<y, x>> \in OpToRel(<, Nat))
  BY NatLessThanWellFounded, WFMin
<1>2. \A y \in T : ~ (y < x)
  BY <1>1 DEF OpToRel
<1> QED BY <1>2

LEMMA LatestOfSpec ==
    ASSUME NEW S \in SUBSET Reports
    PROVE  /\ LatestOf(S) \in 0 .. MaxTime
           /\ \A r \in S : r.at <= LatestOf(S)
           /\ S = {} => LatestOf(S) = 0
           /\ S # {} => \E r \in S : r.at = LatestOf(S)
<1>1. CASE S = {}
  BY <1>1, BoundsAssumption DEF LatestOf
<1>2. CASE S # {}
  <2> DEFINE IsLatest(t) == (\E r \in S : r.at = t) /\ (\A r \in S : r.at <= t)
  <2>1. \E t \in 1 .. MaxTime : IsLatest(t)
    <3> DEFINE T == {MaxTime - r.at : r \in S}
    <3>1. T \in SUBSET Nat /\ T # {}
      BY <1>2, ReportFields, BoundsAssumption
    <3>2. PICK x \in T : \A y \in T : x <= y
      BY <3>1, MinExists
    <3>3. PICK r \in S : x = MaxTime - r.at
      OBVIOUS
    <3>4. \A q \in S : MaxTime - r.at <= MaxTime - q.at
      BY <3>2, <3>3
    <3>5. \A q \in S : q.at <= r.at
      BY <3>4, ReportFields, BoundsAssumption
    <3>6. r.at \in 1 .. MaxTime
      BY ReportFields, BoundsAssumption
    <3> QED BY <3>5, <3>6
  <2>2. LatestOf(S) = CHOOSE t \in 1 .. MaxTime : IsLatest(t)
    BY <1>2 DEF LatestOf
  <2>3. LatestOf(S) \in 1 .. MaxTime /\ IsLatest(LatestOf(S))
    BY <2>1, <2>2
  <2> QED BY <1>2, <2>3, BoundsAssumption
<1> QED BY <1>1, <1>2

LEMMA LatestOfLeast ==
    ASSUME NEW S \in SUBSET Reports, NEW b \in Nat, \A r \in S : r.at <= b
    PROVE  LatestOf(S) <= b
BY LatestOfSpec

LEMMA LatestOfGrows ==
    ASSUME NEW T \in SUBSET Reports, NEW S \in SUBSET T
    PROVE  LatestOf(S) <= LatestOf(T)
<1>1. LatestOf(T) \in Nat /\ \A r \in S : r.at <= LatestOf(T)
  BY LatestOfSpec
<1> QED BY <1>1, LatestOfLeast

-----------------------------------------------------------------------------
(* The pages *)

LEMMA PositionType ==
    ASSUME TypeOK, NEW r
    PROVE  Position(r) \in Nat
<1> DEFINE Newer == {q \in listed : q.id > r.id}
<1>1. IsFiniteSet(Newer)
  BY ReportsFinite, FS_Subset DEF TypeOK
<1> QED BY <1>1, FS_CardinalityType DEF Position

\* The list is sorted by id.
LEMMA PositionOrder ==
    ASSUME TypeOK, NEW q \in listed, NEW r \in listed, q.id < r.id
    PROVE  Position(r) < Position(q)
<1> DEFINE Newer(s) == {p \in listed : p.id > s.id}
<1>1. IsFiniteSet(Newer(q))
  BY ReportsFinite, FS_Subset DEF TypeOK
<1>2. Newer(r) \subseteq Newer(q) /\ Newer(r) # Newer(q)
  <2>1. \A p \in listed : p.id \in Nat
    BY ReportFields DEF TypeOK
  <2>2. r \in Newer(q) /\ r \notin Newer(r)
    BY <2>1
  <2> QED BY <2>1, <2>2
<1>3. Cardinality(Newer(r)) <= Cardinality(Newer(q)) /\ Cardinality(Newer(r)) # Cardinality(Newer(q))
  BY <1>1, <1>2, FS_Subset
<1>4. Position(r) \in Nat /\ Position(q) \in Nat
  BY PositionType
<1> QED BY <1>3, <1>4 DEF Position

LEMMA PositionOrderInverse ==
    ASSUME TypeOK, NEW q \in listed, NEW r \in listed, Position(r) < Position(q)
    PROVE  q.id < r.id
<1>1. q.id \in Nat /\ r.id \in Nat /\ Position(q) \in Nat /\ Position(r) \in Nat
  BY ReportFields, PositionType DEF TypeOK
<1>2. CASE q.id = r.id
  <2>1. Position(q) = Position(r)
    BY <1>2 DEF Position
  <2> QED BY <1>1, <2>1
<1>3. CASE r.id < q.id
  <2>1. Position(q) < Position(r)
    BY <1>3, PositionOrder
  <2> QED BY <1>1, <2>1
<1> QED BY <1>1, <1>2, <1>3

LEMMA PositionBound ==
    ASSUME TypeOK, NEW r \in listed
    PROVE  Position(r) < Cardinality(listed) /\ Cardinality(listed) \in Nat
<1> DEFINE Newer == {q \in listed : q.id > r.id}
<1>1. IsFiniteSet(listed) /\ Cardinality(listed) \in Nat
  BY ReportsFinite, FS_Subset, FS_CardinalityType DEF TypeOK
<1>2. r \notin Newer
  BY ReportFields DEF TypeOK
<1>3. Cardinality(Newer) <= Cardinality(listed) /\ Cardinality(Newer) # Cardinality(listed)
  BY <1>1, <1>2, FS_Subset
<1> QED BY <1>1, <1>3, PositionType DEF Position

\* The reports before position a are at most a.
LEMMA BeforePosition ==
    ASSUME TypeOK, \A q, r \in listed : q.id = r.id => q = r, NEW a \in Nat
    PROVE  LET W == {r \in listed : Position(r) < a}
           IN  IsFiniteSet(W) /\ Cardinality(W) \in Nat /\ Cardinality(W) <= a
<1> DEFINE W == {r \in listed : Position(r) < a}
<1>1. IsFiniteSet(listed)
  BY ReportsFinite, FS_Subset DEF TypeOK
<1>2. IsFiniteSet(W) /\ Cardinality(W) \in Nat
  BY <1>1, FS_Subset, FS_CardinalityType
<1>3. CASE W = {}
  BY <1>2, <1>3, FS_EmptySet
<1>4. CASE W # {}
  <2> DEFINE I == {r.id : r \in W}
  <2>1. I \in SUBSET Nat /\ I # {}
    BY <1>4, ReportFields DEF TypeOK
  <2>2. PICK x \in I : \A y \in I : x <= y
    BY <2>1, MinExists
  <2>3. PICK w \in W : x = w.id
    OBVIOUS
  <2> DEFINE Newer == {q \in listed : q.id > w.id}
  <2>4. W \subseteq Newer \cup {w}
    <3> SUFFICES ASSUME NEW r \in W, r # w PROVE r.id > w.id
      OBVIOUS
    <3>1. w.id <= r.id /\ r.id # w.id
      BY <2>2, <2>3
    <3>2. r.id \in Nat /\ w.id \in Nat
      BY ReportFields DEF TypeOK
    <3> QED BY <3>1, <3>2
  <2>5. IsFiniteSet(Newer) /\ Cardinality(Newer) = Position(w)
    BY <1>1, FS_Subset DEF Position
  <2>6. w \notin Newer
    BY ReportFields DEF TypeOK
  <2>7. IsFiniteSet(Newer \cup {w}) /\ Cardinality(Newer \cup {w}) = Position(w) + 1
    BY <2>5, <2>6, FS_AddElement
  <2>8. Cardinality(W) <= Position(w) + 1
    BY <2>4, <2>7, FS_Subset
  <2>9. Position(w) \in Nat /\ Position(w) < a
    BY PositionType
  <2> QED BY <1>2, <2>8, <2>9
<1> QED BY <1>2, <1>3, <1>4

\* A position that is taken has every position before it taken as well.
LEMMA UpToPosition ==
    ASSUME TypeOK, NEW b \in Nat, NEW r0 \in listed, b <= Position(r0)
    PROVE  LET U == {r \in listed : Position(r) < b}
           IN  b <= Cardinality(U)
<1> DEFINE U == {r \in listed : Position(r) < b}
<1> DEFINE P == {Position(r) : r \in listed \ U}
<1>1. IsFiniteSet(U) /\ Cardinality(U) \in Nat
  BY ReportsFinite, FS_Subset, FS_CardinalityType DEF TypeOK
<1>2. P \in SUBSET Nat /\ P # {}
  <2>1. r0 \in listed \ U
    BY PositionType
  <2> QED BY <2>1, PositionType
<1>3. PICK x \in P : \A y \in P : x <= y
  BY <1>2, MinExists
<1>4. PICK r1 \in listed \ U : x = Position(r1)
  OBVIOUS
<1> DEFINE Newer == {q \in listed : q.id > r1.id}
<1>5. Newer \subseteq U
  <2> SUFFICES ASSUME NEW q \in Newer, q \notin U PROVE FALSE
    OBVIOUS
  <2>1. r1.id < q.id
    BY ReportFields DEF TypeOK
  <2>2. Position(q) < Position(r1)
    BY <2>1, PositionOrder
  <2>3. Position(r1) <= Position(q)
    BY <1>3, <1>4
  <2> QED BY <2>2, <2>3, PositionType
<1>6. Position(r1) <= Cardinality(U)
  BY <1>1, <1>5, FS_Subset DEF Position
<1>7. Position(r1) \in Nat /\ b <= Position(r1)
  BY PositionType
<1> QED BY <1>1, <1>6, <1>7

\* A page that is not full is the end of the list.
LEMMA ShortPageIsLast ==
    ASSUME TypeOK, \A q, r \in listed : q.id = r.id => q = r, NEW n \in Nat,
           Cardinality(PageOf(n)) < PageSize, NEW r0 \in listed
    PROVE  Position(r0) < (n + 1) * PageSize
<1> SUFFICES ASSUME ~ (Position(r0) < (n + 1) * PageSize) PROVE FALSE
  OBVIOUS
<1> DEFINE a == n * PageSize
<1> DEFINE b == (n + 1) * PageSize
<1>1. a \in Nat /\ b \in Nat /\ b = a + PageSize
  BY BoundsAssumption
<1> DEFINE W == {r \in listed : Position(r) < a}
<1> DEFINE U == {r \in listed : Position(r) < b}
<1>2. b <= Position(r0)
  BY <1>1, PositionType
<1> HIDE DEF a, b
<1>3. b <= Cardinality(U)
  BY <1>1, <1>2, UpToPosition
<1>4. IsFiniteSet(W) /\ Cardinality(W) \in Nat /\ Cardinality(W) <= a
  BY <1>1, BeforePosition
<1>5. IsFiniteSet(PageOf(n)) /\ Cardinality(PageOf(n)) \in Nat
  BY ReportsFinite, FS_Subset, FS_CardinalityType DEF TypeOK, PageOf
<1>6. U \subseteq W \cup PageOf(n)
  <2>1. \A r \in listed : Position(r) < b /\ ~ (Position(r) < a) => r \in PageOf(n)
    BY <1>1, PositionType DEF PageOf, a, b
  <2> QED BY <2>1
<1>7. /\ IsFiniteSet(W \cup PageOf(n))
      /\ Cardinality(W \cup PageOf(n)) <= Cardinality(W) + Cardinality(PageOf(n))
      /\ Cardinality(W \cup PageOf(n)) \in Nat
  <2>1. Cardinality(W \cap PageOf(n)) \in Nat
    BY <1>4, FS_Intersection, FS_CardinalityType
  <2>2. /\ IsFiniteSet(W \cup PageOf(n))
        /\ Cardinality(W \cup PageOf(n))
             = Cardinality(W) + Cardinality(PageOf(n)) - Cardinality(W \cap PageOf(n))
    BY <1>4, <1>5, FS_Union
  <2>3. Cardinality(W \cup PageOf(n)) \in Nat
    BY <2>2, FS_CardinalityType
  <2> HIDE DEF W
  <2> QED BY <1>4, <1>5, <2>1, <2>2, <2>3
<1>8. Cardinality(U) <= Cardinality(W \cup PageOf(n)) /\ Cardinality(U) \in Nat
  BY <1>6, <1>7, FS_Subset, FS_CardinalityType
<1> QED BY <1>1, <1>3, <1>4, <1>5, <1>7, <1>8, BoundsAssumption

-----------------------------------------------------------------------------
(* The panel's steps *)

LEMMA InvInit == Init => Inv
<1> SUFFICES ASSUME Init PROVE Inv
  OBVIOUS
<1> USE DEF Init
<1>1. TypeOK
  <2>1. /\ now \in 1 .. MaxTime /\ nextId \in 1 .. MaxId + 1 /\ since \in 0 .. MaxTime
        /\ page \in 0 .. MaxPages /\ faults \in 0 .. MaxFaults /\ truncates \in 0 .. MaxTruncates
    BY BoundsAssumption
  <2>2. resumed \in BOOLEAN /\ capped \in BOOLEAN
    OBVIOUS
  <2>3. out \in [Reports -> Nat]
    BY DEF NoReports
  <2> QED BY <2>1, <2>2, <2>3 DEF TypeOK
<1>2. LatestOf({}) = 0
  BY LatestOfSpec
<1>0. Collected = {}
  BY DEF Collected, NoReports
<1>3. Ordered /\ Memory /\ Polling /\ Repeats
  BY <1>0, <1>2 DEF Ordered, Memory, Polling, Repeats, All
<1>4. CoveredIsKept /\ NothingLeftBehind
  BY DEF CoveredIsKept, NothingLeftBehind, Covered
<1> QED BY <1>1, <1>3, <1>4 DEF Inv

\* A report is collected or not, whatever the slice.
LEMMA CollectedType == Collected \in SUBSET Reports
BY DEF Collected

\* What every step needs: the latest report of the table, and of the table and
\* the collected ones together, is not from the future.
LEMMA LatestIsPast ==
    ASSUME Inv
    PROVE  /\ now \in Nat /\ Overlap \in Nat /\ since \in Nat
           /\ LatestOf(table) \in Nat /\ LatestOf(All) \in Nat
           /\ LatestOf(table) <= LatestOf(All)
           /\ LatestOf(All) <= now
<1>1. table \in SUBSET Reports /\ All \in SUBSET Reports /\ table \subseteq All
  BY CollectedType DEF Inv, TypeOK, All
<1>2. now \in Nat /\ \A r \in All : r.at <= now
  BY BoundsAssumption DEF Inv, TypeOK, Ordered
<1>3. LatestOf(table) \in Nat /\ LatestOf(All) \in Nat
  BY <1>1, LatestOfSpec, BoundsAssumption
<1>4. LatestOf(table) <= LatestOf(All)
  BY <1>1, LatestOfGrows
<1>5. LatestOf(All) <= now
  BY <1>1, <1>2, LatestOfLeast
<1>6. since \in Nat
  BY BoundsAssumption DEF Inv, TypeOK
<1> QED BY <1>2, <1>3, <1>4, <1>5, <1>6, OverlapAssumption

\* A step of the panel does not touch the table nor the process.
PanelStep == UNCHANGED <<table, memory, poll>> /\ UNCHANGED <<capped, unmarked, faults>>

LEMMA PanelKeepsProcess ==
    ASSUME Inv, PanelStep
    PROVE  Memory' /\ Polling' /\ All' = All
BY DEF Inv, PanelStep, Memory, Polling, All, Collected, memory, poll

LEMMA TickKeepsInv == ASSUME Inv, Tick PROVE Inv'
<1>0. PanelStep
  BY DEF Tick, PanelStep, history
<1>1. TypeOK'
  BY BoundsAssumption DEF Inv, TypeOK, Tick, memory, poll, history
<1>2. Ordered'
  <2>1. now \in Nat /\ now' = now + 1 /\ listed' = listed /\ opened' = opened /\ nextId' = nextId
    BY BoundsAssumption DEF Inv, TypeOK, Tick
  <2>2. All' = All
    BY <1>0, PanelKeepsProcess
  <2>3. \A r \in listed \cup opened \cup All : r.at <= now + 1
    <3>1. \A r \in listed \cup opened \cup All : r.at \in Nat /\ r.at <= now
      BY ReportFields, CollectedType DEF Inv, TypeOK, Ordered, All
    <3> QED BY <2>1, <3>1
  <2>4. \A r \in opened : now + 1 <= r.at + CommitDelay
    <3>1. \A r \in opened : r.at \in Nat /\ now < r.at + CommitDelay
      BY ReportFields DEF Inv, TypeOK, Tick
    <3> QED BY <2>1, <3>1, OverlapAssumption
  <2> QED BY <2>1, <2>2, <2>3, <2>4 DEF Inv, Ordered
<1>3. CoveredIsKept' /\ NothingLeftBehind'
  BY <1>0 DEF Inv, CoveredIsKept, NothingLeftBehind, Covered, Position, All, Collected, Tick, PanelStep, poll
<1>4. Repeats'
  BY <1>0 DEF Inv, Repeats, Position, Collected, Tick, PanelStep, poll, history
<1> QED BY <1>0, <1>1, <1>2, <1>3, <1>4, PanelKeepsProcess DEF Inv

LEMMA TakeIdKeepsInv == ASSUME Inv, TakeId PROVE Inv'
<1> DEFINE new == [id |-> nextId, at |-> now]
<1>0. PanelStep
  BY DEF TakeId, PanelStep, history
<1>1. new \in Reports /\ new.id = nextId /\ new.at = now /\ nextId \in Nat /\ now \in Nat
  BY BoundsAssumption DEF Inv, TypeOK, TakeId, Reports
<1>2. opened' = opened \cup {new} /\ listed' = listed /\ nextId' = nextId + 1 /\ now' = now
  BY DEF TakeId
<1>3. TypeOK'
  BY <1>1, <1>2, BoundsAssumption DEF Inv, TypeOK, TakeId, memory, poll, history
<1> HIDE DEF new
<1>4. Ordered'
  <2>1. \A r \in listed \cup opened : r.id \in Nat /\ r.at \in Nat /\ r.id < nextId /\ r.at <= now
    BY ReportFields DEF Inv, TypeOK, Ordered
  <2>2. (\A r \in listed \cup opened : r.id < nextId /\ r.at <= now)'
    BY <1>1, <1>2, <2>1
  <2>3. (\A q, r \in listed \cup opened : (q.id = r.id => q = r) /\ (q.id < r.id => q.at <= r.at))'
    <3> SUFFICES ASSUME NEW q \in listed \cup opened \cup {new}, NEW r \in listed \cup opened \cup {new}
                 PROVE  (q.id = r.id => q = r) /\ (q.id < r.id => q.at <= r.at)
      BY <1>2
    <3>1. CASE q \in listed \cup opened /\ r \in listed \cup opened
      BY <3>1 DEF Inv, Ordered
    <3>2. CASE q \in listed \cup opened /\ r = new
      BY <1>1, <2>1, <3>2
    <3>3. CASE q = new /\ r \in listed \cup opened
      BY <1>1, <2>1, <3>3
    <3>4. CASE q = new /\ r = new
      BY <1>1, <3>4
    <3> QED BY <3>1, <3>2, <3>3, <3>4
  <2>4. (\A r \in opened : now <= r.at + CommitDelay)'
    BY <1>1, <1>2, OverlapAssumption DEF Inv, Ordered
  <2>5. (\A r \in All : r.at <= now)'
    BY <1>0, <1>2, PanelKeepsProcess DEF Inv, Ordered
  <2> QED BY <2>2, <2>3, <2>4, <2>5 DEF Ordered
<1>5. CoveredIsKept' /\ NothingLeftBehind'
  BY <1>0, <1>2 DEF Inv, CoveredIsKept, NothingLeftBehind, Covered, Position, All, Collected, PanelStep, poll
<1>6. Repeats'
  BY <1>0, <1>2 DEF Inv, Repeats, Position, Collected, TakeId, PanelStep, poll, history
<1> QED BY <1>0, <1>3, <1>4, <1>5, <1>6, PanelKeepsProcess DEF Inv

\* A report that is committed late is still inside the overlap; it moves the
\* reports behind it to later positions, never to earlier ones.
LEMMA CommitKeepsInv == ASSUME Inv, Commit PROVE Inv'
<1>1. PICK new \in opened : opened' = opened \ {new} /\ listed' = listed \cup {new}
  BY DEF Commit
<1>2. PanelStep /\ now' = now /\ nextId' = nextId
  BY DEF Commit, PanelStep
<1>3. TypeOK'
  <2>1. shifts' \in Nat
    BY DEF Inv, TypeOK, Commit
  <2> QED BY <1>1, <2>1 DEF Inv, TypeOK, Commit, memory, poll
<1>4. Ordered'
  <2>1. (listed \cup opened)' = listed \cup opened /\ opened' \subseteq opened /\ All' = All
    BY <1>1, <1>2, PanelKeepsProcess
  <2> QED BY <1>2, <2>1 DEF Inv, Ordered
<1>5. new.at \in Nat /\ now - Overlap <= new.at
  <2>1. new.at \in Nat /\ now <= new.at + CommitDelay
    BY ReportFields DEF Inv, TypeOK, Ordered
  <2> QED BY <2>1, LatestIsPast, OverlapAssumption
<1>6. \A r \in Reports : /\ Position(r)' \in Nat /\ Position(r) \in Nat
                        /\ Position(r) <= Position(r)' /\ Position(r)' <= Position(r) + 1
  <2> SUFFICES ASSUME NEW r \in Reports
               PROVE  /\ Position(r)' \in Nat /\ Position(r) \in Nat
                      /\ Position(r) <= Position(r)' /\ Position(r)' <= Position(r) + 1
    OBVIOUS
  <2> DEFINE Newer == {q \in listed : q.id > r.id}
  <2> DEFINE Later == {q \in listed \cup {new} : q.id > r.id}
  <2>1. IsFiniteSet(Later)
    BY ReportsFinite, FS_Subset DEF Inv, TypeOK
  <2>2. Newer \subseteq Later /\ Later \subseteq Newer \cup {new}
    OBVIOUS
  <2>3. Cardinality(Newer) <= Cardinality(Later) /\ Cardinality(Later) \in Nat
    BY <2>1, <2>2, FS_Subset, FS_CardinalityType
  <2>6. Cardinality(Later) <= Cardinality(Newer) + 1
    <3>1. IsFiniteSet(Newer) /\ Cardinality(Newer) \in Nat
      BY <2>1, <2>2, FS_Subset, FS_CardinalityType
    <3>2. /\ IsFiniteSet(Newer \cup {new})
          /\ Cardinality(Newer \cup {new}) <= Cardinality(Newer) + 1
          /\ Cardinality(Newer \cup {new}) \in Nat
      <4> HIDE DEF Newer
      <4>1. /\ IsFiniteSet(Newer \cup {new})
            /\ \/ Cardinality(Newer \cup {new}) = Cardinality(Newer)
               \/ Cardinality(Newer \cup {new}) = Cardinality(Newer) + 1
        BY <3>1, FS_AddElement
      <4> QED BY <3>1, <4>1
    <3>3. Cardinality(Later) <= Cardinality(Newer \cup {new})
      BY <2>2, <3>2, FS_Subset
    <3> QED BY <2>3, <3>1, <3>2, <3>3
  <2>4. Position(r)' = Cardinality(Later)
    BY <1>1 DEF Position
  <2>5. Position(r) = Cardinality(Newer) /\ Position(r) \in Nat
    BY PositionType DEF Position, Inv
  <2> QED BY <2>3, <2>4, <2>5, <2>6
<1>7. CoveredIsKept'
  <2> SUFFICES ASSUME NEW r \in Covered'
               PROVE  r \in All \/ r.at >= LatestOf(All) - Overlap \/ capped
    BY <1>2, PanelKeepsProcess DEF CoveredIsKept, PanelStep
  <2>1. CASE r = new
    BY <1>5, <2>1, LatestIsPast
  <2>2. CASE r # new
    <3>1. r \in listed
      BY <1>1, <2>2 DEF Covered
    <3>2. r \in Covered
      <4>1. CASE phase = "fetch"
        <5>1. Position(r)' < page * PageSize
          BY <1>2, <4>1 DEF Covered, PanelStep, poll
        <5>2. page * PageSize \in Nat
          BY BoundsAssumption DEF Inv, TypeOK
        <5>3. Position(r) < page * PageSize
          BY <1>6, <3>1, <5>1, <5>2 DEF Inv, TypeOK
        <5> QED BY <3>1, <4>1, <5>3 DEF Covered
      <4>2. CASE phase # "fetch"
        BY <3>1, <4>2 DEF Covered
      <4> QED BY <4>1, <4>2
    <3> QED BY <3>2 DEF Inv, CoveredIsKept
  <2> QED BY <2>1, <2>2
<1>8. NothingLeftBehind'
  <2>1. ~ (new.at < LatestOf(table) - Overlap)
    BY <1>5, LatestIsPast
  <2> QED BY <1>1, <1>2, <2>1 DEF Inv, NothingLeftBehind, PanelStep
<1>9. Repeats'
  <2>1. /\ phase' = phase /\ page' = page /\ out' = out /\ Collected' = Collected
        /\ page \in Nat /\ shifts \in Nat /\ PageSize \in Nat
        /\ shifts' = IF page > 0 THEN shifts + 1 ELSE shifts
    BY <1>2, BoundsAssumption DEF Commit, PanelStep, poll, Collected, Inv, TypeOK
  <2>2. \A r \in Collected : out[r] \in Nat /\ r \in Reports
    BY DEF Inv, TypeOK, Collected
  <2>3. page * PageSize \in Nat
    BY <2>1
  <2>4. ASSUME NEW r \in Collected, phase = "fetch", page * PageSize <= Position(r)'
        PROVE  out[r] <= shifts'
    <3>1. page > 0
      BY <2>1, <2>4 DEF Inv, Repeats
    <3>2. out[r] <= 1 + shifts
      BY DEF Inv, Repeats
    <3> QED BY <2>1, <2>2, <3>1, <3>2
  <2>5. ASSUME NEW r \in Collected PROVE out[r] <= 1 + shifts'
    <3>1. out[r] <= 1 + shifts
      BY DEF Inv, Repeats
    <3> QED BY <2>1, <2>2, <3>1
  <2>6. page = 0 /\ phase = "fetch" => Collected = {}
    BY DEF Inv, Repeats
  <2> QED BY <2>1, <2>4, <2>5, <2>6 DEF Repeats
<1> QED BY <1>2, <1>3, <1>4, <1>7, <1>8, <1>9, PanelKeepsProcess DEF Inv

LEMMA TruncateKeepsInv == ASSUME Inv, Truncate PROVE Inv'
<1>0. PanelStep
  BY DEF Truncate, PanelStep
<1>1. TypeOK'
  BY BoundsAssumption DEF Inv, TypeOK, Truncate, memory, poll
<1>2. Ordered'
  <2>1. \A r \in All : r.at <= now'
    <3>1. \A r \in All : r.at \in Nat /\ r.at <= now
      BY ReportFields, CollectedType DEF Inv, TypeOK, Ordered, All
    <3> QED BY <3>1, LatestIsPast DEF Truncate
  <2> QED BY <1>0, <2>1, PanelKeepsProcess DEF Truncate, Ordered
<1>3. CoveredIsKept' /\ NothingLeftBehind'
  BY DEF Truncate, CoveredIsKept, NothingLeftBehind, Covered
<1>4. Repeats'
  <2>1. /\ phase' = phase /\ page' = page /\ out' = out /\ Collected' = Collected
        /\ shifts' = shifts
    BY <1>0 DEF Truncate, PanelStep, poll, Collected
  <2>2. \A r : Position(r)' = 0
    BY FS_EmptySet DEF Truncate, Position
  <2>3. ASSUME NEW r \in Collected, phase = "fetch", page * PageSize <= 0 PROVE FALSE
    <3>1. page \in Nat /\ PageSize \in Nat \ {0}
      BY BoundsAssumption DEF Inv, TypeOK
    <3>2. page = 0
      BY <2>3, <3>1
    <3> QED BY <2>3, <3>2 DEF Inv, Repeats
  <2> QED BY <2>1, <2>2, <2>3 DEF Inv, Repeats
<1> QED BY <1>0, <1>1, <1>2, <1>3, <1>4, PanelKeepsProcess DEF Inv

-----------------------------------------------------------------------------
(* The process *)

\* A step of the process does not touch the panel.
LEMMA SamePositions ==
    ASSUME UNCHANGED listed
    PROVE  \A r : Position(r)' = Position(r)
BY DEF Position

LEMMA FaultType ==
    ASSUME TypeOK, Fault
    PROVE  faults' \in 0 .. MaxFaults
BY BoundsAssumption DEF TypeOK, Fault

\* When a poll ends or begins, nothing is collected.
LEMMA NoPollEffect ==
    ASSUME NoPoll
    PROVE  /\ Collected' = {} /\ Repeats'
           /\ page' = 0 /\ page' \in 0 .. MaxPages
           /\ out' \in [Reports -> Nat] /\ shifts' \in Nat
<1>1. out' = NoReports /\ page' = 0 /\ shifts' = 0
  BY DEF NoPoll
<1>2. Collected' = {}
  BY <1>1 DEF Collected, NoReports
<1>3. out' \in [Reports -> Nat] /\ page' \in 0 .. MaxPages
  BY <1>1, BoundsAssumption DEF NoReports
<1> QED BY <1>1, <1>2, <1>3 DEF Repeats

\* Outside a poll what is kept of the listed reports is what the table alone
\* keeps.
LEMMA KeptOutsidePolls ==
    ASSUME TypeOK', NothingLeftBehind', phase' \notin {"fetch", "insert"}, Collected' = {}
    PROVE  CoveredIsKept'
<1>1. All' = table' /\ Covered' = listed'
  BY DEF All, Covered
<1>2. LatestOf(table') \in Nat /\ Overlap \in Nat
  BY LatestOfSpec, BoundsAssumption, OverlapAssumption DEF TypeOK
<1>3. \A r \in listed' : r.at \in Nat
  BY ReportFields DEF TypeOK
<1> QED BY <1>1, <1>2, <1>3 DEF CoveredIsKept, NothingLeftBehind

LEMMA BootKeepsInv == ASSUME Inv, Boot PROVE Inv'
<1>1. TypeOK'
  BY DEF Inv, TypeOK, Boot, panel, memory, history
<1>2. Ordered' /\ Memory' /\ NothingLeftBehind'
  BY DEF Inv, Ordered, Memory, NothingLeftBehind, All, Collected, Boot, panel, memory, history
<1>3. Polling' /\ Repeats' /\ phase' = "idle" /\ Collected' = {}
  BY DEF Inv, Polling, Repeats, Collected, Boot, memory
<1>4. CoveredIsKept'
  BY <1>1, <1>2, <1>3, KeptOutsidePolls
<1> QED BY <1>1, <1>2, <1>3, <1>4 DEF Inv

\* When the rows of a poll arrive in the table, no report is left behind: that
\* is what CoveredIsKept says once every page has been read.
LEMMA BatchArrives ==
    ASSUME Inv, phase = "insert", listed' = listed, table' = All, capped' = capped
    PROVE  NothingLeftBehind'
<1>1. Covered = listed
  BY DEF Covered
<1>2. \A r \in listed : r.at \in Nat
  BY ReportFields DEF Inv, TypeOK
<1> QED BY <1>1, <1>2, LatestIsPast DEF Inv, CoveredIsKept, NothingLeftBehind

LEMMA CrashKeepsInv == ASSUME Inv, Crash PROVE Inv'
<1>1. table' = table \/ (phase = "insert" /\ table' = All)
  BY DEF Crash, All
<1>2. table' \in SUBSET Reports /\ table' \subseteq All
  BY <1>1, CollectedType DEF Inv, TypeOK, All
<1>0. Collected' = {} /\ Repeats' /\ page' = 0 /\ page' \in 0 .. MaxPages
      /\ out' \in [Reports -> Nat] /\ shifts' \in Nat
  BY NoPollEffect DEF Crash, Forget
<1>3. TypeOK'
  <2>1. since' \in 0 .. MaxTime
    BY BoundsAssumption DEF Crash, Forget
  <2>2. faults' \in 0 .. MaxFaults
    BY FaultType DEF Inv, Crash
  <2> QED BY <1>0, <1>2, <2>1, <2>2 DEF Inv, TypeOK, Crash, Forget, panel
<1>4. Ordered'
  BY <1>0, <1>2 DEF Inv, Ordered, All, Crash, Forget, panel
<1>5. Memory'
  <2>1. 0 <= LatestOf(table')
    BY <1>2, LatestOfSpec, BoundsAssumption
  <2> QED BY <2>1 DEF Memory, Crash, Forget
<1>6. Polling'
  BY <1>0 DEF Polling, Crash
<1>7. NothingLeftBehind'
  <2>1. CASE table' = table
    BY <2>1 DEF Inv, NothingLeftBehind, Crash, panel
  <2>2. CASE phase = "insert" /\ table' = All
    BY <2>2, BatchArrives DEF Crash, panel
  <2> QED BY <1>1, <2>1, <2>2
<1>8. CoveredIsKept'
  <2>1. phase' = "down"
    BY DEF Crash
  <2> QED BY <1>0, <1>3, <1>7, <2>1, KeptOutsidePolls
<1> QED BY <1>0, <1>3, <1>4, <1>5, <1>6, <1>7, <1>8 DEF Inv

LEMMA StartPollKeepsInv == ASSUME Inv, StartPoll PROVE Inv'
<1>1. since' = since \/ (~resumed /\ since' = LatestOf(table))
  BY DEF StartPoll
<1>0. Collected' = {} /\ Repeats' /\ page' = 0 /\ page' \in 0 .. MaxPages
      /\ out' \in [Reports -> Nat] /\ shifts' \in Nat
  BY NoPollEffect DEF StartPoll
<1>2. TypeOK'
  <2>1. LatestOf(table) \in 0 .. MaxTime
    BY LatestOfSpec, BoundsAssumption DEF Inv, TypeOK
  <2> QED BY <1>0, <1>1, <2>1 DEF Inv, TypeOK, StartPoll, panel
<1>3. Ordered'
  BY <1>0 DEF Inv, Ordered, All, StartPoll, panel
<1>4. Memory'
  <2>1. table' = table /\ stored' = stored /\ unmarked' = unmarked /\ resumed' = TRUE
    BY DEF StartPoll
  <2>2. CASE since' = since
    BY <2>1, <2>2 DEF Inv, Memory
  <2>3. CASE ~resumed /\ since' = LatestOf(table)
    <3>1. since' <= LatestOf(table)
      BY <2>3, LatestIsPast
    <3> QED BY <2>1, <2>3, <3>1 DEF Inv, Memory
  <2> QED BY <1>1, <2>2, <2>3
<1>5. Polling'
  BY <1>0, BoundsAssumption DEF Polling, StartPoll
<1>6. NothingLeftBehind'
  BY DEF Inv, NothingLeftBehind, StartPoll, panel
<1>7. CoveredIsKept'
  <2>1. phase' = "fetch" /\ page' = 0 /\ listed' = listed
    BY <1>0 DEF StartPoll, panel
  <2>2. page' * PageSize = 0
    BY <2>1, BoundsAssumption
  <2>3. \A r : Position(r)' = Position(r)
    BY <2>1, SamePositions
  <2>4. Covered' = {}
    <3> SUFFICES ASSUME NEW r \in Covered' PROVE FALSE
      OBVIOUS
    <3>1. Position(r)' < 0
      BY <2>1, <2>2 DEF Covered
    <3>2. Position(r) \in Nat
      BY PositionType DEF Inv
    <3> QED BY <2>3, <3>1, <3>2
  <2> QED BY <2>4 DEF CoveredIsKept
<1> QED BY <1>0, <1>2, <1>3, <1>4, <1>5, <1>6, <1>7 DEF Inv

LEMMA PollFailsKeepsInv == ASSUME Inv, PollFails PROVE Inv'
<1>0. Collected' = {} /\ Repeats' /\ page' = 0 /\ page' \in 0 .. MaxPages
      /\ out' \in [Reports -> Nat] /\ shifts' \in Nat
  BY NoPollEffect DEF PollFails
<1>1. TypeOK'
  <2>1. faults' \in 0 .. MaxFaults
    BY FaultType DEF Inv, PollFails
  <2> QED BY <1>0, <2>1 DEF Inv, TypeOK, PollFails, panel, memory
<1>2. Ordered'
  BY <1>0 DEF Inv, Ordered, All, PollFails, panel
<1>3. Memory' /\ Polling' /\ NothingLeftBehind'
  BY <1>0 DEF Inv, Memory, Polling, NothingLeftBehind, PollFails, panel, memory
<1>4. CoveredIsKept'
  <2>1. phase' = "idle"
    BY DEF PollFails
  <2> QED BY <1>0, <1>1, <1>3, <2>1, KeptOutsidePolls
<1> QED BY <1>0, <1>1, <1>2, <1>3, <1>4 DEF Inv

\* The cursor and the seen set after a batch.
LEMMA MarkStoredEffect ==
    ASSUME Inv, MarkStored(Collected)
    PROVE  /\ since' \in 0 .. MaxTime /\ since <= since'
           /\ since' <= LatestOf(All)
           /\ stored' \subseteq All
           /\ \A r \in stored \cup Collected : r \in stored' \/ r.at < since' - Overlap
<1>1. Collected \in SUBSET Reports /\ Collected \subseteq All /\ All \in SUBSET Reports /\ stored \subseteq All
  BY CollectedType DEF Inv, TypeOK, Memory, All
<1>2. LatestOf(Collected) \in 0 .. MaxTime /\ LatestOf(Collected) <= LatestOf(All)
  BY <1>1, LatestOfSpec, LatestOfGrows
<1>3. since <= LatestOf(All) /\ since \in 0 .. MaxTime
  <2>1. since <= LatestOf(table) /\ since \in 0 .. MaxTime
    BY DEF Inv, TypeOK, Memory
  <2> QED BY <2>1, LatestIsPast
<1>4. since' = IF LatestOf(Collected) > since THEN LatestOf(Collected) ELSE since
  BY DEF MarkStored
<1>5. since' \in 0 .. MaxTime /\ since <= since' /\ since' <= LatestOf(All)
  BY <1>2, <1>3, <1>4, BoundsAssumption
<1>6. stored' = {r \in stored \cup Collected : r.at >= since' - Overlap}
  BY DEF MarkStored
<1>7. \A r \in stored \cup Collected : r \in stored' \/ r.at < since' - Overlap
  <2>1. \A r \in stored \cup Collected : r.at \in Nat
    BY <1>1, ReportFields DEF Inv, TypeOK
  <2> QED BY <1>5, <1>6, <2>1, OverlapAssumption, BoundsAssumption
<1> QED BY <1>1, <1>5, <1>6, <1>7

LEMMA InsertRowsKeepsInv == ASSUME Inv, InsertRows PROVE Inv'
<1>1. phase = "insert" /\ table' = All /\ MarkStored(Collected) /\ resumed' = resumed
  BY DEF InsertRows, All
<1>0. Collected' = {} /\ Repeats' /\ page' = 0 /\ page' \in 0 .. MaxPages
      /\ out' \in [Reports -> Nat] /\ shifts' \in Nat
  BY NoPollEffect DEF InsertRows
<1>2. TypeOK'
  BY <1>0, <1>1, MarkStoredEffect, CollectedType DEF Inv, TypeOK, InsertRows, panel, All
<1>3. Ordered'
  BY <1>0 DEF Inv, Ordered, All, InsertRows, panel
<1>4. Memory'
  <2>1. resumed
    BY <1>1 DEF Inv, Polling
  <2>2. ASSUME NEW r \in table' \ unmarked' PROVE r \in stored' \/ r.at < since' - Overlap
    <3>1. CASE r \in Collected
      BY <1>1, <3>1, MarkStoredEffect
    <3>2. CASE r \notin Collected
      <4>1. r \in table \ unmarked
        BY <1>1, <3>2 DEF InsertRows, All
      <4>2. r \in stored \/ r.at < since - Overlap
        BY <4>1 DEF Inv, Memory
      <4>3. r.at \in Nat
        BY <4>1, ReportFields DEF Inv, TypeOK
      <4>4. since <= since' /\ since' \in Nat /\ since \in Nat /\ Overlap \in Nat
        BY <1>1, MarkStoredEffect, LatestIsPast, BoundsAssumption
      <4>5. r.at < since - Overlap => r.at < since' - Overlap
        BY <4>3, <4>4
      <4> QED BY <1>1, <4>2, <4>5, MarkStoredEffect
    <3> QED BY <3>1, <3>2
  <2> QED BY <1>1, <2>1, <2>2, MarkStoredEffect DEF Memory
<1>5. Polling'
  BY <1>0 DEF Polling, InsertRows
<1>6. NothingLeftBehind'
  BY <1>1, BatchArrives DEF InsertRows, panel
<1>7. CoveredIsKept'
  <2>1. phase' = "idle"
    BY DEF InsertRows
  <2> QED BY <1>0, <1>2, <1>6, <2>1, KeptOutsidePolls
<1> QED BY <1>0, <1>2, <1>3, <1>4, <1>5, <1>6, <1>7 DEF Inv

LEMMA InsertFailsKeepsInv == ASSUME Inv, InsertFails PROVE Inv'
<1>1. /\ phase = "insert"
      /\ \/ table' = All /\ unmarked' = unmarked \cup Collected
         \/ table' = table /\ unmarked' = unmarked
  BY DEF InsertFails, All
<1>0. Collected' = {} /\ Repeats' /\ page' = 0 /\ page' \in 0 .. MaxPages
      /\ out' \in [Reports -> Nat] /\ shifts' \in Nat
  BY NoPollEffect DEF InsertFails
<1>2. table' \in SUBSET Reports /\ table' \subseteq All /\ table \subseteq table'
  BY <1>1, CollectedType DEF Inv, TypeOK, All
<1>3. TypeOK'
  <2>1. faults' \in 0 .. MaxFaults
    BY FaultType DEF Inv, InsertFails
  <2>2. unmarked' \subseteq Reports
    BY <1>1, CollectedType DEF Inv, TypeOK
  <2> QED BY <1>0, <1>2, <2>1, <2>2 DEF Inv, TypeOK, InsertFails, panel, memory
<1>4. Ordered'
  BY <1>0, <1>2 DEF Inv, Ordered, All, InsertFails, panel
<1>5. Memory'
  <2>1. LatestOf(table) <= LatestOf(table') /\ LatestOf(table') \in Nat
    BY <1>2, LatestOfGrows, LatestOfSpec, BoundsAssumption
  <2>2. since' <= LatestOf(table')
    BY <2>1, LatestIsPast DEF Inv, Memory, InsertFails, memory
  <2>3. resumed
    BY <1>1 DEF Inv, Polling
  <2>4. table' \ unmarked' \subseteq table \ unmarked
    BY <1>1 DEF All
  <2> QED BY <1>2, <2>2, <2>3, <2>4 DEF Inv, Memory, InsertFails, memory
<1>6. Polling'
  BY <1>0 DEF Polling, InsertFails
<1>7. NothingLeftBehind'
  <2>1. CASE table' = table
    BY <2>1 DEF Inv, NothingLeftBehind, InsertFails, panel
  <2>2. CASE table' = All
    BY <1>1, <2>2, BatchArrives DEF InsertFails, panel
  <2> QED BY <1>1, <2>1, <2>2
<1>8. CoveredIsKept'
  <2>1. phase' = "idle"
    BY DEF InsertFails
  <2> QED BY <1>0, <1>3, <1>7, <2>1, KeptOutsidePolls
<1> QED BY <1>0, <1>3, <1>4, <1>5, <1>6, <1>7, <1>8 DEF Inv

-----------------------------------------------------------------------------
(* FetchPage *)

\* A report of a page is taken, or it is behind the cutoff and so was kept
\* before.
LEMMA PageIsKept ==
    ASSUME Inv, NEW q \in listed, TooOld(q), NEW r \in listed, r.id <= q.id
    PROVE  r \in table \/ capped
<1>1. r.id \in Nat /\ q.id \in Nat /\ r.at \in Nat /\ q.at \in Nat
  BY ReportFields DEF Inv, TypeOK
<1>2. r.at <= q.at
  BY <1>1 DEF Inv, Ordered
<1>3. q.at < since - Overlap /\ since <= LatestOf(table)
  BY DEF Inv, Memory, TooOld
<1>4. r.at < LatestOf(table) - Overlap
  BY <1>1, <1>2, <1>3, LatestIsPast
<1> QED BY <1>4 DEF Inv, NothingLeftBehind

\* What is collected from a page never pushes a report of an earlier page out
\* of the overlap: the list is in the order of time.
LEMMA EarlierPagesAreKept ==
    ASSUME Inv, NEW F \in SUBSET listed, NEW r \in listed,
           \A f \in F : Position(r) < Position(f),
           r \in All \/ r.at >= LatestOf(All) - Overlap \/ capped
    PROVE  r \in All \cup F \/ r.at >= LatestOf(All \cup F) - Overlap \/ capped
<1>1. All \cup F \in SUBSET Reports /\ All \in SUBSET Reports
  BY CollectedType DEF Inv, TypeOK, All
<1>2. r.at \in Nat /\ \A f \in F : f.at \in Nat
  BY ReportFields DEF Inv, TypeOK
<1>3. \A f \in F : f.at <= r.at
  <2> SUFFICES ASSUME NEW f \in F PROVE f.at <= r.at
    OBVIOUS
  <2>1. f.id < r.id
    BY PositionOrderInverse DEF Inv
  <2> QED BY <2>1 DEF Inv, Ordered
<1>4. LatestOf(All \cup F) <= LatestOf(All) \/ LatestOf(All \cup F) <= r.at
  <2>1. CASE \E q \in All \cup F : q.at = LatestOf(All \cup F)
    <3>1. PICK q \in All \cup F : q.at = LatestOf(All \cup F)
      BY <2>1
    <3>2. CASE q \in All
      BY <1>1, <3>1, <3>2, LatestOfSpec
    <3>3. CASE q \in F
      BY <1>3, <3>1, <3>3
    <3> QED BY <3>2, <3>3
  <2>2. CASE All \cup F = {}
    BY <1>1, <1>2, <2>2, LatestOfSpec
  <2> QED BY <1>1, <2>1, <2>2, LatestOfSpec
<1>5. LatestOf(All \cup F) \in Nat /\ LatestOf(All) \in Nat /\ Overlap \in Nat
  BY <1>1, LatestOfSpec, BoundsAssumption, LatestIsPast
<1> QED BY <1>2, <1>4, <1>5

LEMMA FetchPageKeepsInv == ASSUME Inv, FetchPage PROVE Inv'
<1> DEFINE batch == PageOf(page)
<1> DEFINE fresh == Fresh(batch)
<1> DEFINE read == Appended(out, fresh)
<1> DEFINE last == LastPage(page, batch)
<1> DEFINE full == page + 1 = MaxPages
<1> DEFINE a == page * PageSize
<1> DEFINE b == (page + 1) * PageSize
<1>1. /\ phase = "fetch" /\ resumed /\ page \in Nat /\ page < MaxPages /\ MaxPages \in Nat
      /\ capped' = (capped \/ (full /\ ~last))
  BY BoundsAssumption DEF FetchPage, Inv, TypeOK, Polling
<1>2. /\ UNCHANGED <<now, nextId, opened, listed, table, resumed, since, stored, unmarked, faults, truncates>>
      /\ capped => capped'
  BY <1>1 DEF FetchPage, panel, memory
<1>3. \/ /\ ~last /\ ~full
         /\ out' = read /\ page' = page + 1 /\ phase' = "fetch" /\ shifts' = shifts
      \/ /\ last \/ full
         /\ out' = Unseen(read) /\ page' = 0
         /\ \/ out' = NoReports /\ phase' = "idle" /\ shifts' = 0
            \/ phase' = "insert" /\ shifts' = shifts
  BY <1>1 DEF FetchPage
<1>4. fresh \subseteq batch /\ batch \subseteq listed /\ listed \subseteq Reports
  BY DEF Fresh, PageOf, Inv, TypeOK
<1>5. a \in Nat /\ b \in Nat /\ b = a + PageSize /\ PageSize \in Nat
  BY <1>1, BoundsAssumption
<1>6. \A r \in listed : Position(r) \in Nat /\ (r \in batch <=> a <= Position(r) /\ Position(r) < b)
  BY PositionType DEF PageOf, Inv
<1>7. Covered = {r \in listed : Position(r) < a}
  BY <1>1 DEF Covered
<1>8. \A r \in batch : r \in fresh \/ \E q \in batch : TooOld(q) /\ q.id >= r.id
  BY DEF Fresh
<1>9. last <=> \/ \E r \in batch : TooOld(r)
               \/ Cardinality(batch) < PageSize
               \/ b >= Cardinality(listed)
  BY DEF LastPage
<1>10. \A r \in fresh : since = 0 \/ r.at >= since - Overlap
  <2>1. \A r \in fresh : r.id \in Nat /\ r.at \in Nat
    BY <1>4, ReportFields
  <2>2. \A r \in fresh : ~TooOld(r)
    BY <2>1 DEF Fresh
  <2> QED BY <2>1, <2>2, LatestIsPast DEF TooOld
<1>11. \A r : Position(r)' = Position(r)
  BY <1>2, SamePositions
<1>30. /\ read \in [Reports -> Nat] /\ fresh \subseteq Reports
       /\ \A r \in Reports : read[r] = IF r \in fresh THEN out[r] + 1 ELSE out[r]
  BY <1>4 DEF Appended, Inv, TypeOK
<1>31. {r \in Reports : read[r] > 0} = Collected \cup fresh
  <2>1. \A r \in Reports : out[r] \in Nat
    BY DEF Inv, TypeOK
  <2> HIDE DEF read, fresh
  <2> QED BY <1>30, <2>1 DEF Collected
<1>32. /\ Unseen(read) \in [Reports -> Nat]
       /\ {r \in Reports : Unseen(read)[r] > 0} = (Collected \cup fresh) \ stored
  <2> HIDE DEF read, fresh
  <2> QED BY <1>30, <1>31 DEF Unseen
<1>33. \/ ~last /\ ~full /\ Collected' = Collected \cup fresh
       \/ (last \/ full) /\ Collected' = (Collected \cup fresh) \ stored
  <2> HIDE DEF read, fresh, last, full
  <2> QED BY <1>3, <1>31, <1>32 DEF Collected
<1>34. out' = NoReports => Collected' = {}
  BY DEF Collected, NoReports
<1>12. All' = All \cup fresh
  <2> HIDE DEF read, fresh, last, full
  <2> QED BY <1>2, <1>33 DEF All, Inv, Memory
<1>13. ~last => fresh = batch
  BY <1>8, <1>9, <1>4
<1>14. Cardinality(batch) < PageSize => \A r \in listed : Position(r) < b
  BY <1>1, ShortPageIsLast DEF Inv, Ordered
<1> HIDE DEF batch, fresh, read, last, full, a, b
<1>15. TypeOK'
  <2>1. out' \in [Reports -> Nat] /\ shifts' \in Nat
    BY <1>3, <1>30, <1>32 DEF Inv, TypeOK
  <2>2. page' \in 0 .. MaxPages
    <3>1. 0 \in 0 .. MaxPages /\ page + 1 \in 0 .. MaxPages
      BY <1>1
    <3> QED BY <1>3, <3>1
  <2>3. phase' \in {"down", "idle", "fetch", "insert"}
    BY <1>3
  <2>4. capped' \in BOOLEAN
    BY <1>1
  <2> QED BY <1>2, <2>1, <2>2, <2>3, <2>4 DEF Inv, TypeOK
<1>16. Ordered'
  <2>1. \A r \in fresh : r.at <= now
    BY <1>4 DEF Inv, Ordered
  <2> QED BY <1>2, <1>12, <2>1 DEF Inv, Ordered
<1>17. Memory'
  BY <1>2 DEF Inv, Memory
<1>18. Polling'
  <2>1. \A r \in Collected' : since = 0 \/ r.at >= since - Overlap
    BY <1>10, <1>33 DEF Inv, Polling
  <2>2. phase' = "fetch" => page' < MaxPages
    <3>1. ~full => page + 1 < MaxPages
      BY <1>1 DEF full
    <3> QED BY <1>3, <3>1
  <2>3. phase' \notin {"fetch", "insert"} => Collected' = {}
    BY <1>3, <1>34
  <2>4. phase' = "insert" => Collected' \cap stored = {}
    BY <1>3, <1>33
  <2>5. phase' # "fetch" => page' = 0
    BY <1>3
  <2> QED BY <1>1, <1>2, <2>1, <2>2, <2>3, <2>4, <2>5 DEF Polling
<1>24. Repeats'
  <2>1. \A r \in Reports : out[r] \in Nat /\ shifts \in Nat
    BY DEF Inv, TypeOK
  <2>2. ASSUME NEW r \in Collected \cup fresh PROVE read[r] <= 1 + shifts
    <3>1. CASE r \notin Collected
      <4>1. r \in Reports /\ out[r] = 0 /\ read[r] = out[r] + 1
        BY <1>30, <2>1, <2>2, <3>1 DEF Collected
      <4> QED BY <2>1, <4>1
    <3>2. CASE r \in Collected /\ r \in fresh
      <4>1. page * PageSize <= Position(r)
        BY <1>4, <1>6, <3>2 DEF a
      <4>2. out[r] <= shifts /\ r \in Reports
        BY <1>1, <3>2, <4>1, CollectedType DEF Inv, Repeats
      <4> QED BY <1>30, <2>1, <3>2, <4>2
    <3>3. CASE r \in Collected /\ r \notin fresh
      <4>1. out[r] <= 1 + shifts /\ r \in Reports
        BY <3>3, CollectedType DEF Inv, Repeats
      <4> QED BY <1>30, <3>3, <4>1
    <3> QED BY <2>2, <3>1, <3>2, <3>3
  <2>3. ASSUME NEW r \in Collected \cup fresh, b <= Position(r) PROVE read[r] <= shifts
    <3>1. r \notin fresh
      <4>1. r \in fresh => Position(r) < b /\ Position(r) \in Nat
        BY <1>4, <1>6
      <4> QED BY <1>5, <2>3, <4>1
    <3>2. r \in Collected /\ r \in Reports
      BY <2>3, <3>1, CollectedType
    <3>3. page * PageSize <= Position(r)
      <4>1. Position(r) \in Nat
        BY PositionType DEF Inv
      <4> QED BY <1>5, <2>3, <4>1 DEF a
    <3>4. out[r] <= shifts
      BY <1>1, <3>2, <3>3 DEF Inv, Repeats
    <3> QED BY <1>30, <3>1, <3>2, <3>4
  <2>4. CASE ~last /\ ~full
    <3>1. out' = read /\ page' = page + 1 /\ shifts' = shifts /\ Collected' = Collected \cup fresh
      BY <1>3, <1>33, <2>4
    <3>2. page' # 0 /\ page' * PageSize = b
      BY <1>1, <3>1 DEF b
    <3> QED BY <1>11, <2>2, <2>3, <3>1, <3>2 DEF Repeats
  <2>5. CASE last \/ full
    <3>1. \A r \in Collected' : r \in Collected \cup fresh /\ r \in Reports /\ r \notin stored
      BY <1>33, <1>30, <2>5, CollectedType
    <3>2. ASSUME NEW r \in Collected' PROVE out'[r] <= 1 + shifts'
      <4>1. out'[r] = read[r] /\ shifts' = shifts
        BY <1>3, <1>34, <2>5, <3>1, <3>2 DEF Unseen
      <4> QED BY <2>2, <3>1, <3>2, <4>1
    <3>3. phase' # "fetch"
      BY <1>3, <2>5
    <3> QED BY <3>2, <3>3 DEF Repeats
  <2> QED BY <2>4, <2>5
<1>19. NothingLeftBehind'
  BY <1>2 DEF Inv, NothingLeftBehind
<1>20. ASSUME NEW r \in Covered PROVE r \in All' \/ r.at >= LatestOf(All') - Overlap \/ capped
  <2>1. \A f \in fresh : Position(r) < Position(f)
    <3>1. r \in listed /\ Position(r) \in Nat /\ Position(r) < a
      BY <1>6, <1>7
    <3>2. \A f \in fresh : a <= Position(f) /\ Position(f) \in Nat
      BY <1>4, <1>6
    <3> QED BY <1>5, <3>1, <3>2
  <2>2. fresh \in SUBSET listed /\ r \in listed
    BY <1>4, <1>7
  <2>3. r \in All \/ r.at >= LatestOf(All) - Overlap \/ capped
    BY DEF Inv, CoveredIsKept
  <2> QED BY <1>12, <2>1, <2>2, <2>3, EarlierPagesAreKept
<1>21. ASSUME NEW r \in batch PROVE r \in All' \/ capped
  <2>1. CASE r \in fresh
    BY <1>12, <2>1
  <2>2. CASE \E q \in batch : TooOld(q) /\ q.id >= r.id
    <3>1. PICK q \in batch : TooOld(q) /\ q.id >= r.id
      BY <2>2
    <3>2. r.id <= q.id
      BY <1>4, <3>1, ReportFields
    <3>3. r \in table \/ capped
      BY <1>4, <3>1, <3>2, PageIsKept
    <3> QED BY <1>12, <3>3 DEF All
  <2> QED BY <1>8, <2>1, <2>2
<1>22. ASSUME last, NEW r \in listed, b <= Position(r) PROVE r \in All' \/ capped
  <2>1. CASE \E q \in batch : TooOld(q)
    <3>1. PICK q \in batch : TooOld(q)
      BY <2>1
    <3>2. q \in listed /\ Position(q) < Position(r)
      BY <1>4, <1>5, <1>6, <1>22
    <3>3. r.id < q.id
      BY <3>2, PositionOrderInverse DEF Inv
    <3>4. r.id <= q.id
      BY <1>4, <3>2, <3>3, ReportFields
    <3>5. r \in table \/ capped
      BY <3>1, <3>2, <3>4, PageIsKept
    <3> QED BY <1>12, <3>5 DEF All
  <2>2. CASE Cardinality(batch) < PageSize
    BY <1>5, <1>6, <1>14, <1>22, <2>2
  <2>3. CASE b >= Cardinality(listed)
    <3>1. Position(r) < Cardinality(listed) /\ Cardinality(listed) \in Nat
      BY PositionBound DEF Inv
    <3> QED BY <1>5, <1>6, <1>22, <2>3, <3>1
  <2> QED BY <1>9, <1>22, <2>1, <2>2, <2>3
<1>23. CoveredIsKept'
  <2> SUFFICES ASSUME NEW r \in Covered'
               PROVE  r \in All' \/ r.at >= LatestOf(All') - Overlap \/ capped'
    BY DEF CoveredIsKept
  <2>1. r \in listed
    BY <1>2 DEF Covered
  <2>2. CASE r \in Covered \/ r \in batch
    BY <1>2, <1>20, <1>21, <2>2
  <2>3. CASE r \notin Covered /\ r \notin batch
    <3>1. b <= Position(r)
      BY <1>5, <1>6, <1>7, <2>1, <2>3
    <3>2. CASE ~last /\ ~full
      <4>1. phase' = "fetch" /\ page' = page + 1
        BY <1>3, <3>2
      <4>2. Position(r) < b
        BY <1>11, <4>1 DEF Covered, b
      <4> QED BY <1>5, <1>6, <2>1, <3>1, <4>2
    <3>3. CASE last
      BY <1>2, <1>22, <2>1, <3>1, <3>3
    <3>4. CASE full /\ ~last
      BY <1>1, <3>4
    <3> QED BY <3>2, <3>3, <3>4
  <2> QED BY <2>2, <2>3
<1> QED BY <1>15, <1>16, <1>17, <1>18, <1>19, <1>23, <1>24 DEF Inv

-----------------------------------------------------------------------------
(* Theorems *)

LEMMA StutterKeepsInv == ASSUME Inv, UNCHANGED vars PROVE Inv'
<1>1. TypeOK' /\ Ordered' /\ Memory' /\ Polling' /\ NothingLeftBehind'
  BY DEF Inv, TypeOK, Ordered, Memory, Polling, NothingLeftBehind, All, Collected,
         vars, panel, memory, poll, history
<1>2. CoveredIsKept' /\ Repeats'
  BY DEF Inv, CoveredIsKept, Covered, Repeats, Position, All, Collected, vars, panel, poll, history
<1> QED BY <1>1, <1>2 DEF Inv

\* The invariant holds of every behaviour.
THEOREM Invariance == Spec => []Inv
<1>1. Init => Inv
  BY InvInit
<1>2. ASSUME Inv, [Next]_vars PROVE Inv'
  BY <1>2, TickKeepsInv, TakeIdKeepsInv, CommitKeepsInv, TruncateKeepsInv, BootKeepsInv,
     CrashKeepsInv, StartPollKeepsInv, FetchPageKeepsInv, InsertRowsKeepsInv,
     PollFailsKeepsInv, InsertFailsKeepsInv, StutterKeepsInv DEF Next, Poll
<1> QED BY <1>1, <1>2, PTL DEF Spec

\* Every variable keeps its type.
THEOREM TypeCorrect == Spec => []TypeOK
<1>1. Inv => TypeOK
  BY DEF Inv
<1> QED BY <1>1, Invariance, PTL

\* The cursor never runs ahead of ClickHouse.
THEOREM CursorNeverAhead == Spec => []CursorIsStored
<1>1. Inv => CursorIsStored
  BY DEF Inv, Memory, CursorIsStored
<1> QED BY <1>1, Invariance, PTL

\* No report is left behind the overlap, however late it was committed and
\* whatever moved the pages.
THEOREM NoReportLeftBehind == Spec => []NothingLeftBehind
<1>1. Inv => NothingLeftBehind
  BY DEF Inv
<1> QED BY <1>1, Invariance, PTL

\* A report is written by a later insert again only where a failed insert or a
\* restart left it unmarked, and by one insert more than once only as often as
\* reports were committed while its pages were read.
THEOREM RewritesHaveReasons == Spec => RewritesAreExplained
<1>1. ASSUME Inv
      PROVE  [InsertRows => /\ Collected \cap table \subseteq unmarked
                            /\ \A r \in Collected : out[r] <= 1 + shifts]_vars
  <2> SUFFICES ASSUME InsertRows
               PROVE  /\ Collected \cap table \subseteq unmarked
                      /\ \A r \in Collected : out[r] <= 1 + shifts
    OBVIOUS
  <2>1. ASSUME NEW r \in Collected \cap table, r \notin unmarked PROVE FALSE
    <3>1. Collected \cap stored = {} /\ (since = 0 \/ r.at >= since - Overlap)
      BY <1>1, <2>1 DEF InsertRows, Inv, Polling
    <3>2. r.at < since - Overlap
      BY <1>1, <2>1, <3>1 DEF Inv, Memory
    <3>3. r.at \in Nat /\ 1 <= r.at
      BY <1>1, <2>1, ReportFields DEF Inv, TypeOK
    <3> QED BY <1>1, <3>1, <3>2, <3>3, LatestIsPast
  <2>2. \A r \in Collected : out[r] <= 1 + shifts
    BY <1>1 DEF Inv, Repeats
  <2> QED BY <2>1, <2>2
<1> QED BY <1>1, Invariance, PTL DEF RewritesAreExplained
===============================================================================
