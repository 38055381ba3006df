------------------------- MODULE StreamAccountsProofs -------------------------
(***************************************************************************)
(* Theorems about the two quantities StreamConsumer bounds, for any number *)
(* of replicas, entries, faults and stops: the copies of an entry in       *)
(* ClickHouse and the rows a worker holds in memory.  Both are sums, so    *)
(* the module starts with what it needs to know of SumFunction: induction  *)
(* over the finite sets, as the absence of a smallest counterexample.      *)
(***************************************************************************)
EXTENDS StreamConsumerProofs, WellFoundedInduction

-----------------------------------------------------------------------------
(* Induction *)

\* A set of numbers that is not empty has a least element.
LEMMA SmallestNumber ==
    ASSUME NEW T, T \subseteq Nat, T # {}
    PROVE  \E x \in T : \A y \in T : ~ (y < x)
<1> DEFINE Less == OpToRel(<, Nat)
<1>1. IsWellFoundedOn(Less, Nat)
  BY NatLessThanWellFounded
<1> HIDE DEF Less
<1>2. PICK x \in T : \A y \in T : <<y, x>> \notin Less
  BY <1>1, WFMin
<1>3. \A y \in T : <<y, x>> \in Less <=> y < x
  BY DEF Less, OpToRel
<1> QED BY <1>2, <1>3

\* A set that holds 0 and with each number the next holds them all.
LEMMA NaturalsByInduction ==
    ASSUME NEW Good, 0 \in Good, \A n \in Nat : n \in Good => n + 1 \in Good
    PROVE  Nat \subseteq Good
<1> SUFFICES ASSUME Nat \ Good # {} PROVE FALSE
  OBVIOUS
<1>1. PICK x \in Nat \ Good : \A y \in Nat \ Good : ~(y < x)
  BY SmallestNumber
<1>2. x - 1 \in Nat
  BY <1>1
<1> QED BY <1>1, <1>2

\* A family that grows element by element holds every finite set.
LEMMA SubsetsByInduction ==
    ASSUME NEW S, IsFiniteSet(S), NEW Good,
           {} \in Good,
           \A T \in SUBSET S : T # {} /\ (\A x \in T : T \ {x} \in Good) => T \in Good
    PROVE  SUBSET S \subseteq Good
<1> DEFINE Bad == (SUBSET S) \ Good
<1> SUFFICES ASSUME Bad # {} PROVE FALSE
  OBVIOUS
<1>1. IsWellFoundedOn(StrictSubsetOrdering(S), SUBSET S)
  BY FS_StrictSubsetOrderingWellFounded, FS_FiniteSubsetsOfFinite
<1>2. PICK T \in Bad : \A U \in Bad : <<U, T>> \notin StrictSubsetOrdering(S)
  <2>1. Bad \subseteq SUBSET S
    OBVIOUS
  <2> HIDE DEF Bad
  <2> QED BY <1>1, <2>1, WFMin
<1>3. PICK x \in T : T \ {x} \notin Good
  BY <1>2
<1>4. T \ {x} \in Bad /\ T \ {x} \subseteq T /\ T \ {x} # T
  BY <1>2, <1>3
<1>5. <<T \ {x}, T>> \in StrictSubsetOrdering(S)
  BY <1>2, <1>4 DEF StrictSubsetOrdering
<1> QED BY <1>2, <1>4, <1>5

Pick(s) == CHOOSE x \in s : TRUE
Part(f, g, s) == IF s = {} THEN 0 ELSE f[Pick(s)] + g[s \ {Pick(s)}]

IsTable(g, f, S) == g = [s \in SUBSET S |-> Part(f, g, s)]

\* SumFunction in terms of its table.
LEMMA SumUnfolded ==
    ASSUME NEW f
    PROVE  SumFunction(f) = (CHOOSE g : IsTable(g, f, DOMAIN f))[DOMAIN f]
BY DEF IsTable, SumFunction, SumFunctionOnSet, FoldFunction, FoldFunctionOnSet, MapThenFoldSet, Part, Pick

\* For every n there is a table of the totals over at most n indices.
LEMMA TableExists ==
    ASSUME NEW S, IsFiniteSet(S), NEW f
    PROVE  \E g : IsTable(g, f, S)
<1> USE DEF IsTable
<1> DEFINE Small(n) == {s \in SUBSET S : Cardinality(s) <= n}
           Good == {n \in Nat : \E g : g = [s \in Small(n) |-> Part(f, g, s)]}
<1>a. \A s \in SUBSET S : IsFiniteSet(s) /\ Cardinality(s) \in Nat
  BY FS_Subset, FS_CardinalityType
<1>b. \A s \in SUBSET S : s # {} => /\ Pick(s) \in s
                                    /\ s \ {Pick(s)} \in SUBSET S
                                    /\ Cardinality(s \ {Pick(s)}) = Cardinality(s) - 1
  BY <1>a, FS_RemoveElement DEF Pick
<1>1. 0 \in Good
  <2>1. \A s \in Small(0) : s = {}
    BY <1>a, FS_EmptySet
  <2>2. [s \in Small(0) |-> 0] = [s \in Small(0) |-> Part(f, [t \in Small(0) |-> 0], s)]
    BY <2>1 DEF Part
  <2> QED BY <2>2
<1>2. ASSUME NEW n \in Nat, n \in Good
      PROVE  n + 1 \in Good
  <2>1. PICK g : g = [s \in Small(n) |-> Part(f, g, s)]
    BY <1>2
  <2> DEFINE h == [s \in Small(n + 1) |-> Part(f, g, s)]
  <2>2. \A s \in Small(n) : s \in Small(n + 1) /\ h[s] = g[s]
    <3> TAKE s \in Small(n)
    <3>1. s \in Small(n + 1)
      BY <1>a
    <3>2. g[s] = Part(f, g, s)
      BY <2>1
    <3> QED BY <3>1, <3>2
  <2>3. \A s \in Small(n + 1) : Part(f, h, s) = Part(f, g, s)
    <3> TAKE s \in Small(n + 1)
    <3>1. CASE s = {}
      BY <3>1 DEF Part
    <3>2. CASE s # {}
      <4>1. s \ {Pick(s)} \in Small(n)
        BY <1>a, <1>b, <3>2
      <4>2. h[s \ {Pick(s)}] = g[s \ {Pick(s)}]
        BY <4>1, <2>2
      <4> HIDE DEF h
      <4> QED BY <4>2 DEF Part
    <3> QED BY <3>1, <3>2
  <2>4. h = [s \in Small(n + 1) |-> Part(f, h, s)]
    BY <2>3
  <2> HIDE DEF h
  <2> QED BY <2>4
<1>3. Cardinality(S) \in Good
  <2> HIDE DEF Good
  <2>1. Nat \subseteq Good
    BY <1>1, <1>2, NaturalsByInduction
  <2> QED BY <2>1, FS_CardinalityType
<1>4. Small(Cardinality(S)) = SUBSET S
  BY <1>a, FS_Subset
<1> QED BY <1>3, <1>4

\* A sum over a set that is not empty is one part and the sum over the rest.
LEMMA SumTable ==
    ASSUME NEW S, IsFiniteSet(S), NEW f \in [S -> Nat]
    PROVE  \E g \in [SUBSET S -> Nat] :
             /\ g[{}] = 0
             /\ \A T \in SUBSET S : T # {} => g[T] = f[Pick(T)] + g[T \ {Pick(T)}]
             /\ SumFunction(f) = g[S]
<1>1. DOMAIN f = S
  OBVIOUS
<1> DEFINE g == CHOOSE t : IsTable(t, f, S)
<1>2. IsTable(g, f, S) /\ SumFunction(f) = g[S]
  <2>1. IsTable(g, f, S)
    BY TableExists
  <2>2. SumFunction(f) = g[S]
    BY <1>1, SumUnfolded
  <2> QED BY <2>1, <2>2
<1>3. g = [s \in SUBSET S |-> Part(f, g, s)]
  BY <1>2 DEF IsTable
<1>4. SumFunction(f) = g[S]
  BY <1>2
<1> HIDE DEF g
<1>5. \A T \in SUBSET S : g[T] = Part(f, g, T)
  BY <1>3
<1>6. g[{}] = 0 /\ \A T \in SUBSET S : T # {} => g[T] = f[Pick(T)] + g[T \ {Pick(T)}]
  BY <1>5 DEF Part
<1>7. g \in [SUBSET S -> Nat]
  <2> DEFINE Good == {T \in SUBSET S : g[T] \in Nat}
  <2>1. {} \in Good
    BY <1>6
  <2>2. ASSUME NEW T \in SUBSET S, T # {}, \A x \in T : T \ {x} \in Good
        PROVE  T \in Good
    <3>1. Pick(T) \in T
      BY <2>2 DEF Pick
    <3>2. f[Pick(T)] \in Nat /\ g[T \ {Pick(T)}] \in Nat
      BY <2>2, <3>1
    <3>3. g[T] = f[Pick(T)] + g[T \ {Pick(T)}]
      BY <1>6, <2>2
    <3> QED BY <2>2, <3>2, <3>3
  <2>3. SUBSET S \subseteq Good
    <3> HIDE DEF Good
    <3> QED BY <2>1, <2>2, SubsetsByInduction
  <2> QED BY <1>3, <2>3
<1> QED BY <1>4, <1>6, <1>7

\* A sum of numbers is a number.
LEMMA SumType ==
    ASSUME NEW S, IsFiniteSet(S), NEW f \in [S -> Nat]
    PROVE  SumFunction(f) \in Nat
<1>1. PICK g \in [SUBSET S -> Nat] : SumFunction(f) = g[S]
  BY SumTable
<1> QED BY <1>1

\* A sum of nothing but 0 is 0.
LEMMA SumZero ==
    ASSUME NEW S, IsFiniteSet(S), NEW f \in [S -> Nat], \A x \in S : f[x] = 0
    PROVE  SumFunction(f) = 0
<1>1. PICK g \in [SUBSET S -> Nat] :
             /\ g[{}] = 0
             /\ \A T \in SUBSET S : T # {} => g[T] = f[Pick(T)] + g[T \ {Pick(T)}]
             /\ SumFunction(f) = g[S]
  BY SumTable
<1> DEFINE Good == {T \in SUBSET S : g[T] = 0}
<1>2. {} \in Good
  BY <1>1
<1>3. ASSUME NEW T \in SUBSET S, T # {}, \A x \in T : T \ {x} \in Good
      PROVE  T \in Good
  <2>1. Pick(T) \in T
    BY <1>3 DEF Pick
  <2>2. f[Pick(T)] = 0 /\ g[T \ {Pick(T)}] = 0
    BY <1>3, <2>1
  <2>3. g[T] = f[Pick(T)] + g[T \ {Pick(T)}]
    BY <1>1, <1>3
  <2> QED BY <1>3, <2>2, <2>3
<1>4. SUBSET S \subseteq Good
  <2> HIDE DEF Good
  <2> QED BY <1>2, <1>3, SubsetsByInduction
<1> QED BY <1>1, <1>4

\* One more here and there: no more than one for each member of B.
LEMMA SumGrows ==
    ASSUME NEW S, IsFiniteSet(S), NEW B \in SUBSET S,
           NEW f \in [S -> Nat], NEW h \in [S -> Nat],
           \A x \in S : h[x] <= f[x] + (IF x \in B THEN 1 ELSE 0)
    PROVE  SumFunction(h) <= SumFunction(f) + Cardinality(B)
<1>1. PICK tf \in [SUBSET S -> Nat] :
             /\ tf[{}] = 0
             /\ \A T \in SUBSET S : T # {} => tf[T] = f[Pick(T)] + tf[T \ {Pick(T)}]
             /\ SumFunction(f) = tf[S]
  BY SumTable
<1>2. PICK th \in [SUBSET S -> Nat] :
             /\ th[{}] = 0
             /\ \A T \in SUBSET S : T # {} => th[T] = h[Pick(T)] + th[T \ {Pick(T)}]
             /\ SumFunction(h) = th[S]
  BY SumTable
<1> DEFINE Good == {T \in SUBSET S : th[T] <= tf[T] + Cardinality(B \cap T)}
<1>3. {} \in Good
  <2>1. B \cap {} = {}
    OBVIOUS
  <2> QED BY <1>1, <1>2, <2>1, FS_EmptySet
<1>4. ASSUME NEW T \in SUBSET S, T # {}, \A x \in T : T \ {x} \in Good
      PROVE  T \in Good
  <2> DEFINE x == Pick(T)
             Rest == T \ {x}
  <2>1. x \in T /\ x \in S /\ Rest \in SUBSET S
    BY <1>4 DEF Pick
  <2>2. th[Rest] <= tf[Rest] + Cardinality(B \cap Rest)
    BY <1>4, <2>1
  <2>3. IsFiniteSet(B \cap T) /\ B \cap Rest = (B \cap T) \ {x}
    BY FS_Subset
  <2>4. /\ Cardinality(B \cap T) \in Nat
        /\ Cardinality(B \cap Rest) = IF x \in B THEN Cardinality(B \cap T) - 1
                                                 ELSE Cardinality(B \cap T)
    <3>1. x \in B \cap T <=> x \in B
      BY <2>1
    <3> DEFINE C == B \cap T
    <3> HIDE DEF C
    <3>2. IsFiniteSet(C)
      BY <2>3 DEF C
    <3>3. /\ Cardinality(C) \in Nat
          /\ Cardinality(C \ {x}) = IF x \in C THEN Cardinality(C) - 1 ELSE Cardinality(C)
      <4> HIDE DEF x
      <4> QED BY <3>2, FS_RemoveElement, FS_CardinalityType
    <3> QED BY <2>3, <3>1, <3>3 DEF C
  <2>5. h[x] <= f[x] + (IF x \in B THEN 1 ELSE 0) /\ h[x] \in Nat /\ f[x] \in Nat
    BY <2>1
  <2>6. tf[T] = f[x] + tf[Rest] /\ th[T] = h[x] + th[Rest]
    BY <1>1, <1>2, <1>4
  <2>7. tf[Rest] \in Nat /\ th[Rest] \in Nat
    BY <2>1
  <2> HIDE DEF x, Rest
  <2>8. th[T] <= tf[T] + Cardinality(B \cap T)
    BY <2>2, <2>4, <2>5, <2>6, <2>7
  <2> QED BY <2>8
<1>5. SUBSET S \subseteq Good
  <2> HIDE DEF Good
  <2> QED BY <1>3, <1>4, SubsetsByInduction
<1>6. S \in Good /\ B \cap S = B
  BY <1>5
<1> QED BY <1>1, <1>2, <1>6

\* Only x gains.
LEMMA SumShifts ==
    ASSUME NEW S, IsFiniteSet(S), NEW x \in S,
           NEW f \in [S -> Nat], NEW h \in [S -> Nat],
           \A y \in S : y # x => h[y] <= f[y]
    PROVE  SumFunction(h) + f[x] <= SumFunction(f) + h[x]
<1>1. PICK tf \in [SUBSET S -> Nat] :
             /\ tf[{}] = 0
             /\ \A T \in SUBSET S : T # {} => tf[T] = f[Pick(T)] + tf[T \ {Pick(T)}]
             /\ SumFunction(f) = tf[S]
  BY SumTable
<1>2. PICK th \in [SUBSET S -> Nat] :
             /\ th[{}] = 0
             /\ \A T \in SUBSET S : T # {} => th[T] = h[Pick(T)] + th[T \ {Pick(T)}]
             /\ SumFunction(h) = th[S]
  BY SumTable
<1> DEFINE Good == {T \in SUBSET S : IF x \in T THEN th[T] + f[x] <= tf[T] + h[x]
                                                ELSE th[T] <= tf[T]}
<1>3. {} \in Good
  BY <1>1, <1>2
<1>4. ASSUME NEW T \in SUBSET S, T # {}, \A y \in T : T \ {y} \in Good
      PROVE  T \in Good
  <2> DEFINE y == Pick(T)
             Rest == T \ {y}
  <2>1. y \in T /\ y \in S /\ Rest \in SUBSET S
    BY <1>4 DEF Pick
  <2>2. Rest \in Good
    BY <1>4, <2>1
  <2>3. tf[T] = f[y] + tf[Rest] /\ th[T] = h[y] + th[Rest]
    BY <1>1, <1>2, <1>4
  <2>4. /\ tf[Rest] \in Nat /\ th[Rest] \in Nat /\ f[x] \in Nat /\ h[x] \in Nat
        /\ f[y] \in Nat /\ h[y] \in Nat
    BY <2>1
  <2>5. x \in Rest <=> x \in T /\ x # y
    OBVIOUS
  <2>6. x = y => x \in T
    BY <2>1
  <2>7. y # x => h[y] <= f[y]
    BY <2>1
  <2>8. IF x \in Rest THEN th[Rest] + f[x] <= tf[Rest] + h[x] ELSE th[Rest] <= tf[Rest]
    BY <2>2
  <2> HIDE DEF y, Rest, Good
  <2>9. IF x \in T THEN th[T] + f[x] <= tf[T] + h[x] ELSE th[T] <= tf[T]
    BY <2>3, <2>4, <2>5, <2>6, <2>7, <2>8
  <2> QED BY <2>9 DEF Good
<1>5. SUBSET S \subseteq Good
  <2> HIDE DEF Good
  <2> QED BY <1>3, <1>4, SubsetsByInduction
<1>6. S \in Good
  BY <1>5
<1> QED BY <1>1, <1>2, <1>6
-----------------------------------------------------------------------------
(* Buffers at the boundaries of Run *)

Clean == RowsArePending /\ HeldWasDelivered /\ BoundariesAreClean

\* What a worker does to its buffer, entry by entry.
LEMMA ConsumeIs ==
    ASSUME TypeOK, NEW c \in Consumers, NEW B \in SUBSET Ids, Consume(c, B)
    PROVE  /\ pending'[c] = pending[c] \cup B
           /\ \A i \in Ids :
                rows'[c][i] = IF i \in B /\ Decodable(i) /\ trimmed < i
                              THEN Saturated(rows[c][i] + 1) ELSE rows[c][i]
           /\ \A d \in Consumers : d # c => rows'[d] = rows[d] /\ pending'[d] = pending[d]
BY DEF Consume, TypeOK

\* What dropBuffer changes.
LEMMA DropBufferIs ==
    ASSUME TypeOK, NEW c \in Consumers, DropBuffer(c)
    PROVE  /\ pending'[c] = {}
           /\ \A i \in Ids : rows'[c][i] = 0
           /\ \A d \in Consumers : d # c => rows'[d] = rows[d] /\ pending'[d] = pending[d]
BY DEF DropBuffer, TypeOK, Empty

\* What a change of place changes.
LEMMA GoToIs ==
    ASSUME TypeOK, NEW c \in Consumers, NEW p, NEW t, GoTo(c, p, t)
    PROVE  /\ pc'[c] = p
           /\ \A d \in Consumers : d # c => pc'[d] = pc[d]
BY DEF GoTo, TypeOK

\* A bounded counter never counts too much.
LEMMA SaturatedBelow ==
    ASSUME NEW n \in Nat
    PROVE  Saturated(n) \in Nat /\ Saturated(n) <= n
BY BoundsAssumption DEF Saturated

\* The group's last-delivered id never falls back.
LEMMA CursorAdvances ==
    ASSUME Inv, TypeOK', [Next]_vars
    PROVE  lastDelivered <= lastDelivered'
<1> USE DEF Inv
<1>0. lastDelivered \in Nat
  BY BoundsAssumption DEF TypeOK
<1>1. ASSUME NEW c \in Consumers, EnsureGroup(c)
      PROVE  lastDelivered <= lastDelivered'
  <2>1. \/ UNCHANGED lastDelivered
        \/ ~group /\ lastDelivered' \in {0, published}
    BY <1>1 DEF EnsureGroup, CreateGroup
  <2>2. published \in Nat
    BY BoundsAssumption DEF TypeOK
  <2> QED BY <1>0, <2>1, <2>2 DEF Custody, LogOrder
<1>2. ASSUME NEW c \in Consumers, ReadOnce(c)
      PROVE  lastDelivered <= lastDelivered'
  <2>1. CASE ReadGroup(c, FirstN(Undelivered))
    BY <1>2, <2>1, ReadGroupSkipsTrimmed DEF ReadOnce, Custody
  <2>2. CASE UNCHANGED lastDelivered
    BY <1>0, <2>2
  <2> QED BY <1>2, <2>1, <2>2 DEF ReadOnce
<1>3. CASE UNCHANGED lastDelivered
  BY <1>0, <1>3
<1>4. \/ \E c \in Consumers : EnsureGroup(c) \/ ReadOnce(c)
      \/ UNCHANGED lastDelivered
  BY DEF Next, Work, vars, redis, Publish, GoesIdle, Boot, Cancel, Crash, RecoverRead,
         SelectDefault, ClaimStale, StopSeen, InsertRows, InsertFails, Ack
<1> QED BY <1>1, <1>2, <1>3, <1>4

\* A worker takes a reply in: the entries were delivered, so all stays clean.
LEMMA ConsumeKeepsClean ==
    ASSUME TypeOK, TypeOK', Clean, lastDelivered <= lastDelivered',
           NEW c \in Consumers, NEW B \in SUBSET Ids, Consume(c, B),
           \A i \in B : i <= lastDelivered',
           pc'[c] \notin {"down", "ensureGroup", "recover", "stopped"},
           \A d \in Consumers : d # c => pc'[d] = pc[d]
    PROVE  Clean'
<1> USE DEF Clean
<1>1. /\ pending'[c] = pending[c] \cup B
      /\ \A i \in Ids : rows'[c][i] = IF i \in B /\ Decodable(i) /\ trimmed < i
                                      THEN Saturated(rows[c][i] + 1) ELSE rows[c][i]
      /\ \A d \in Consumers : d # c => rows'[d] = rows[d] /\ pending'[d] = pending[d]
  BY ConsumeIs
<1>2. RowsArePending'
  BY <1>1 DEF RowsArePending
<1>3. /\ lastDelivered \in Int /\ lastDelivered' \in Int
      /\ \A d \in Consumers : pending[d] \subseteq Int
  BY BoundsAssumption DEF TypeOK, Ids
<1>4. \A d \in Consumers : \A i \in pending[d] : i <= lastDelivered'
  BY <1>3 DEF HeldWasDelivered
<1>5. HeldWasDelivered'
  BY <1>1, <1>4 DEF HeldWasDelivered
<1>6. BoundariesAreClean'
  BY <1>1 DEF BoundariesAreClean
<1> QED BY <1>2, <1>5, <1>6

\* A worker lets go of its buffer.
LEMMA DropKeepsClean ==
    ASSUME TypeOK, TypeOK', Clean, UNCHANGED lastDelivered,
           NEW c \in Consumers, DropBuffer(c),
           \A d \in Consumers : d # c => pc'[d] = pc[d]
    PROVE  Clean'
<1>1. /\ pending'[c] = {}
      /\ \A i \in Ids : rows'[c][i] = 0
      /\ \A d \in Consumers : d # c => rows'[d] = rows[d] /\ pending'[d] = pending[d]
  BY DropBufferIs
<1> QED BY <1>1 DEF Clean, RowsArePending, HeldWasDelivered, BoundariesAreClean

\* A worker moves on with the buffer it has.
LEMMA MoveKeepsClean ==
    ASSUME TypeOK, TypeOK', Clean, lastDelivered <= lastDelivered', UNCHANGED buffer,
           \A d \in Consumers : \/ pc'[d] = pc[d] \/ pending[d] = {}
                                \/ pc'[d] \notin {"down", "ensureGroup", "recover", "stopped"}
    PROVE  Clean'
<1>1. /\ lastDelivered \in Int /\ lastDelivered' \in Int
      /\ \A d \in Consumers : pending[d] \subseteq Int
  BY BoundsAssumption DEF TypeOK, Ids
<1>2. \A d \in Consumers : \A i \in pending[d] : i <= lastDelivered'
  BY <1>1 DEF Clean, HeldWasDelivered
<1> QED BY <1>2 DEF Clean, RowsArePending, HeldWasDelivered, BoundariesAreClean, buffer

\* There are no rows at first, and no worker runs.
LEMMA CleanInit == Init => Clean
BY DEF Init, Clean, RowsArePending, HeldWasDelivered, BoundariesAreClean, Empty, Ids

\* A step of the workers keeps rows with the entries they are of.
LEMMA CleanStep ==
    ASSUME Inv, Clean, TypeOK', [Next]_vars
    PROVE  Clean'
<1> USE DEF Inv
<1>0. lastDelivered <= lastDelivered' /\ TypeOK
  BY CursorAdvances
<1>1. CASE Publish \/ (\E i \in Ids : GoesIdle(i)) \/ UNCHANGED vars
  <2>1. UNCHANGED buffer /\ pc' = pc
    BY <1>1 DEF Publish, GoesIdle, vars, control
  <2> QED BY <1>0, <2>1, MoveKeepsClean
<1>2. ASSUME NEW c \in Consumers,
             Boot(c) \/ Cancel(c) \/ EnsureGroup(c) \/ SelectDefault(c) \/ StopSeen(c) \/ InsertRows(c)
      PROVE  Clean'
  <2>1. UNCHANGED buffer
    BY <1>2 DEF Boot, Cancel, EnsureGroup, SelectDefault, StopSeen, InsertRows
  <2>2. \A d \in Consumers : d # c => pc'[d] = pc[d]
    BY <1>2 DEF Boot, Cancel, EnsureGroup, SelectDefault, StopSeen, InsertRows, GoTo, TypeOK
  <2>3. \/ pc'[c] = pc[c] \/ pending[c] = {}
        \/ pc'[c] \notin {"down", "ensureGroup", "recover", "stopped"}
    BY <1>2 DEF Boot, Cancel, EnsureGroup, SelectDefault, StopSeen, InsertRows, GoTo, TypeOK,
                Clean, BoundariesAreClean
  <2> QED BY <1>0, <2>1, <2>2, <2>3, MoveKeepsClean
<1>3. ASSUME NEW c \in Consumers, Crash(c) \/ InsertFails(c) \/ Ack(c)
      PROVE  Clean'
  <2>1. DropBuffer(c) /\ UNCHANGED lastDelivered
    BY <1>3 DEF Crash, InsertFails, Ack, redis
  <2>2. \A d \in Consumers : d # c => pc'[d] = pc[d]
    BY <1>3 DEF Crash, InsertFails, Ack, GoTo, TypeOK
  <2> QED BY <1>0, <2>1, <2>2, DropKeepsClean
<1>4. ASSUME NEW c \in Consumers, RecoverRead(c)
      PROVE  Clean'
  <2> DEFINE batch == FirstN(PendingOf(c))
  <2>1. \A d \in Consumers : d # c => pc'[d] = pc[d]
    BY <1>4 DEF RecoverRead, GoTo, TypeOK
  <2>2. CASE Consume(c, batch) /\ GoTo(c, "insert", "recover")
    <3>1. batch \in SUBSET Ids /\ \A i \in batch : owner[i] = c
      BY FirstNSubset DEF PendingOf
    <3>2. \A i \in batch : i <= lastDelivered
      BY <3>1, ConsumersAssumption DEF Custody, PendingWasDelivered, Delivered
    <3>3. lastDelivered' = lastDelivered
      BY <1>4 DEF RecoverRead
    <3>4. pc'[c] = "insert"
      BY <2>2 DEF GoTo, TypeOK
    <3> QED BY <1>0, <2>1, <2>2, <3>1, <3>2, <3>3, <3>4, ConsumeKeepsClean
  <2>3. CASE UNCHANGED buffer /\ GoTo(c, "loop", "none")
    <3>1. pc'[c] = "loop"
      BY <2>3 DEF GoTo, TypeOK
    <3> QED BY <1>0, <2>1, <2>3, <3>1, MoveKeepsClean
  <2> QED BY <1>4, <2>2, <2>3 DEF RecoverRead
<1>5. ASSUME NEW c \in Consumers, ClaimStale(c)
      PROVE  Clean'
  <2> DEFINE scanned == FirstN({i \in Ids : owner[i] # Nobody /\ (i \in stale \/ i <= trimmed)})
             claimed == {i \in scanned : trimmed < i}
  <2>1. /\ pc'[c] = "read"
        /\ \A d \in Consumers : d # c => pc'[d] = pc[d]
        /\ lastDelivered' = lastDelivered
    BY <1>5 DEF ClaimStale, GoTo, TypeOK
  <2>2. CASE Consume(c, claimed)
    <3>1. claimed \in SUBSET Ids /\ \A i \in claimed : owner[i] # Nobody
      BY FirstNSubset
    <3>2. \A i \in claimed : i <= lastDelivered
      BY <3>1 DEF Custody, PendingWasDelivered, Delivered
    <3> QED BY <1>0, <2>1, <2>2, <3>1, <3>2, ConsumeKeepsClean
  <2>3. CASE UNCHANGED buffer
    BY <1>0, <2>1, <2>3, MoveKeepsClean
  <2> QED BY <1>5, <2>2, <2>3 DEF ClaimStale
<1>6. ASSUME NEW c \in Consumers, ReadOnce(c)
      PROVE  Clean'
  <2> DEFINE batch == FirstN(Undelivered)
  <2>1. /\ pc'[c] \in {"loop", "insert"}
        /\ \A d \in Consumers : d # c => pc'[d] = pc[d]
    BY <1>6 DEF ReadOnce, MaybeFlush, GoTo, TypeOK
  <2>2. CASE Consume(c, batch) /\ ReadGroup(c, batch)
    <3>1. batch \in SUBSET Ids
      BY FirstNSubset DEF Undelivered
    <3>2. \A i \in batch : i <= lastDelivered'
      BY <2>2 DEF ReadGroup
    <3> QED BY <1>0, <2>1, <2>2, <3>1, <3>2, ConsumeKeepsClean
  <2>3. CASE UNCHANGED buffer
    BY <1>0, <2>1, <2>3, MoveKeepsClean
  <2> QED BY <1>6, <2>2, <2>3 DEF ReadOnce
<1> QED
  BY <1>1, <1>2, <1>3, <1>4, <1>5, <1>6 DEF Next, Work

-----------------------------------------------------------------------------
(* Every copy is paid for *)

\* What c may still add to the copies of i, and whether i can be handed out.
Due(c, i) ==
    (IF pc[c] = "ack" THEN 0 ELSE rows[c][i])
    + (IF cancelled[c] /\ (i \in pending[c] \/ lastDelivered < i) THEN 1 ELSE 0)
Chance(i) == IF Obtainable(i) THEN 1 ELSE 0

Accounted(i) == copies[i] + SumFunction(Prospects(i)) + Chance(i) <= 1 + faults + stops

\* A step of c pays for what it adds to the account of i.
Paid(c, i) ==
    copies'[i] + Due(c, i)' + Chance(i)' + faults + stops
        <= copies[i] + Due(c, i) + Chance(i) + faults' + stops'

\* c leaves the other workers alone.
Alone(c) ==
    \A d \in Consumers : d # c =>
        pc'[d] = pc[d] /\ rows'[d] = rows[d] /\ pending'[d] = pending[d] /\ cancelled'[d] = cancelled[d]

\* Only the acting worker's place, buffer and context change.
LEMMA ActorIsAlone ==
    ASSUME TypeOK, NEW c \in Consumers, Boot(c) \/ Cancel(c) \/ Crash(c) \/ Work(c)
    PROVE  Alone(c)
<1>1. ASSUME NEW d \in Consumers, d # c
      PROVE  pc'[d] = pc[d] /\ cancelled'[d] = cancelled[d]
  BY <1>1
  DEF TypeOK, Boot, Cancel, Crash, Work, EnsureGroup, RecoverRead, SelectDefault, ClaimStale,
      StopSeen, ReadOnce, MaybeFlush, InsertRows, InsertFails, Ack, GoTo
<1>2. UNCHANGED buffer \/ DropBuffer(c) \/ (\E S \in SUBSET Ids : Consume(c, S))
  <2>1. FirstN(Undelivered) \in SUBSET Ids /\ FirstN(PendingOf(c)) \in SUBSET Ids
    BY FirstNSubset DEF Undelivered, PendingOf
  <2>2. {j \in FirstN({k \in Ids : owner[k] # Nobody /\ (k \in stale \/ k <= trimmed)}) :
             trimmed < j} \in SUBSET Ids
    BY FirstNSubset
  <2> QED BY <2>1, <2>2
      DEF Boot, Cancel, Crash, Work, EnsureGroup, RecoverRead, SelectDefault, ClaimStale,
          StopSeen, ReadOnce, InsertRows, InsertFails, Ack
<1>3. ASSUME NEW d \in Consumers, d # c
      PROVE  rows'[d] = rows[d] /\ pending'[d] = pending[d]
  BY <1>2, <1>3 DEF TypeOK, Consume, DropBuffer, buffer
<1> QED BY <1>1, <1>3 DEF Alone

\* The types of what is counted.
LEMMA AccountTypes ==
    ASSUME TypeOK, NEW i \in Ids
    PROVE  /\ copies[i] \in Nat /\ faults \in Nat /\ stops \in Nat /\ Chance(i) \in {0, 1}
           /\ i \in Int /\ trimmed \in Int /\ lastDelivered \in Int
           /\ \A c \in Consumers : rows[c][i] \in Nat /\ Due(c, i) \in Nat
<1>1. copies[i] \in Nat /\ faults \in Nat /\ stops \in Nat /\ Chance(i) \in {0, 1}
  BY BoundsAssumption DEF TypeOK, Chance
<1>2. i \in Int /\ trimmed \in Int /\ lastDelivered \in Int
  BY BoundsAssumption DEF TypeOK, Ids
<1>3. \A c \in Consumers : rows[c][i] \in Nat
  BY BoundsAssumption DEF TypeOK
<1> QED BY <1>1, <1>2, <1>3 DEF Due

\* The same after a step.
LEMMA AccountTypesNext ==
    ASSUME TypeOK', NEW i \in Ids
    PROVE  /\ copies'[i] \in Nat /\ faults' \in Nat /\ stops' \in Nat /\ Chance(i)' \in {0, 1}
           /\ i \in Int /\ trimmed' \in Int /\ lastDelivered' \in Int
           /\ \A c \in Consumers : rows'[c][i] \in Nat /\ Due(c, i)' \in Nat
<1>1. copies'[i] \in Nat /\ faults' \in Nat /\ stops' \in Nat /\ Chance(i)' \in {0, 1}
  BY BoundsAssumption DEF TypeOK, Chance
<1>2. i \in Int /\ trimmed' \in Int /\ lastDelivered' \in Int
  BY BoundsAssumption DEF TypeOK, Ids
<1>3. \A c \in Consumers : rows'[c][i] \in Nat
  BY BoundsAssumption DEF TypeOK
<1> QED BY <1>1, <1>2, <1>3 DEF Due

\* The prospects of an entry, unfolded.
LEMMA ProspectsAre ==
    ASSUME TypeOK, NEW i \in Ids
    PROVE  /\ Prospects(i) \in [Consumers -> Nat]
           /\ \A c \in Consumers : Prospects(i)[c] = Due(c, i)
BY AccountTypes DEF Prospects, Due

\* The same after a step.
LEMMA ProspectsAreNext ==
    ASSUME TypeOK', NEW i \in Ids
    PROVE  /\ Prospects(i)' \in [Consumers -> Nat]
           /\ \A c \in Consumers : Prospects(i)'[c] = Due(c, i)'
BY AccountTypesNext DEF Prospects, Due

\* If the worker that moves pays for what its step adds, the account of the entry holds.
LEMMA PaidIsAccounted ==
    ASSUME TypeOK, TypeOK', lastDelivered <= lastDelivered',
           NEW c \in Consumers, Alone(c), NEW i \in Ids, Paid(c, i), Accounted(i)
    PROVE  Accounted(i)'
<1> DEFINE before == Prospects(i)
           after  == Prospects(i)'
<1>1. /\ before \in [Consumers -> Nat]
      /\ \A d \in Consumers : before[d] = Due(d, i)
  BY ProspectsAre
<1>2. /\ after \in [Consumers -> Nat]
      /\ \A d \in Consumers : after[d] = Due(d, i)'
  BY ProspectsAreNext
<1>3. \A d \in Consumers : d # c => after[d] <= before[d]
  <2> SUFFICES ASSUME NEW d \in Consumers, d # c
               PROVE  Due(d, i)' <= Due(d, i)
    BY <1>1, <1>2
  <2>1. /\ pc'[d] = pc[d] /\ rows'[d] = rows[d] /\ pending'[d] = pending[d]
        /\ cancelled'[d] = cancelled[d]
    BY DEF Alone
  <2>2. rows[d][i] \in Nat /\ i \in Int /\ lastDelivered \in Int /\ lastDelivered' \in Int
    BY AccountTypes, BoundsAssumption DEF TypeOK
  <2> QED BY <2>1, <2>2 DEF Due
<1>4. SumFunction(after) + before[c] <= SumFunction(before) + after[c]
  <2> HIDE DEF before, after
  <2> QED BY <1>1, <1>2, <1>3, SumShifts, ConsumersAssumption
<1>5. SumFunction(before) \in Nat /\ SumFunction(after) \in Nat
  <2> HIDE DEF before, after
  <2> QED BY <1>1, <1>2, SumType, ConsumersAssumption
<1>6. /\ copies[i] \in Nat /\ faults \in Nat /\ stops \in Nat /\ Chance(i) \in {0, 1}
      /\ Due(c, i) \in Nat
  BY AccountTypes
<1>7. /\ copies'[i] \in Nat /\ faults' \in Nat /\ stops' \in Nat /\ Chance(i)' \in {0, 1}
      /\ Due(c, i)' \in Nat
  BY AccountTypesNext
<1>8. copies'[i] + SumFunction(after) + Chance(i)' <= 1 + faults' + stops'
  <2>1. before[c] = Due(c, i) /\ after[c] = Due(c, i)'
    BY <1>1, <1>2
  <2>2. copies[i] + SumFunction(before) + Chance(i) <= 1 + faults + stops
    BY DEF Accounted
  <2> HIDE DEF before, after
  <2> QED BY <1>4, <1>5, <1>6, <1>7, <2>1, <2>2 DEF Paid
<1> QED BY <1>8 DEF Accounted

\* What can be handed out depends on the pending list and on who holds it.
LEMMA SameChance ==
    ASSUME NEW i \in Ids, UNCHANGED <<trimmed, lastDelivered, owner, stale, pending>>
    PROVE  Chance(i)' = Chance(i)
BY DEF Chance, Obtainable, Abandoned

\* A start adds no prospect.
LEMMA BootPaid ==
    ASSUME TypeOK, TypeOK', NEW c \in Consumers, Boot(c), NEW i \in Ids
    PROVE  Paid(c, i)
<1>1. Chance(i)' = Chance(i)
  BY SameChance DEF Boot, redis, buffer
<1>2. /\ pc[c] # "ack" /\ pc'[c] # "ack" /\ ~cancelled'[c] /\ rows'[c][i] = rows[c][i]
      /\ copies' = copies /\ faults' = faults /\ stops' = stops
  BY DEF Boot, GoTo, TypeOK, buffer, budgets
<1>3. Due(c, i)' <= Due(c, i)
  BY <1>2, AccountTypes DEF Due
<1>4. Due(c, i)' \in Nat
  BY AccountTypesNext
<1> QED BY <1>1, <1>2, <1>3, <1>4, AccountTypes DEF Paid

\* A stop signal pays for one more copy.
LEMMA CancelPaid ==
    ASSUME TypeOK, TypeOK', NEW c \in Consumers, Cancel(c), NEW i \in Ids
    PROVE  Paid(c, i)
<1>1. Chance(i)' = Chance(i)
  BY SameChance DEF Cancel, redis, buffer
<1>2. /\ pc'[c] = pc[c] /\ rows'[c][i] = rows[c][i]
      /\ copies' = copies /\ faults' = faults /\ stops' = stops + 1
  BY DEF Cancel, buffer
<1>3. Due(c, i)' <= Due(c, i) + 1
  BY <1>2, AccountTypes DEF Due
<1>4. Due(c, i)' \in Nat
  BY AccountTypesNext
<1> QED BY <1>1, <1>2, <1>3, <1>4, AccountTypes DEF Paid

\* A crash is a fault, which pays for the entries it leaves behind.
LEMMA CrashPaid ==
    ASSUME TypeOK, TypeOK', NEW c \in Consumers, Crash(c), NEW i \in Ids
    PROVE  Paid(c, i)
<1>1. Chance(i)' \in {0, 1}
  BY AccountTypesNext
<1>2. /\ rows'[c][i] = 0 /\ ~cancelled'[c]
      /\ copies' = copies /\ faults' = faults + 1 /\ stops' = stops
  BY DropBufferIs DEF Crash, Fault, TypeOK
<1>3. Due(c, i)' = 0
  BY <1>2 DEF Due
<1> QED BY <1>1, <1>2, <1>3, AccountTypes DEF Paid

\* Steps of c that leave its buffer and the pending list as they are.
LEMMA MovePaid ==
    ASSUME TypeOK, TypeOK', NEW c \in Consumers, NEW i \in Ids,
           UNCHANGED <<trimmed, owner, stale, copies, rows, pending, cancelled, stops>>,
           lastDelivered <= lastDelivered', faults' = faults \/ faults' = faults + 1,
           pc[c] # "ack", pc'[c] # "ack"
    PROVE  Paid(c, i)
<1>1. /\ i \in Int /\ trimmed \in Int /\ lastDelivered \in Int /\ lastDelivered' \in Int
      /\ rows[c][i] \in Nat /\ copies[i] \in Nat /\ faults \in Nat /\ stops \in Nat
  BY AccountTypes, BoundsAssumption DEF TypeOK
<1>2. Obtainable(i)' => Obtainable(i)
  BY <1>1 DEF Obtainable, Abandoned
<1>3. Chance(i)' <= Chance(i) /\ Chance(i) \in {0, 1} /\ Chance(i)' \in {0, 1}
  BY <1>2 DEF Chance
<1>4. Due(c, i)' <= Due(c, i) /\ Due(c, i) \in Nat /\ Due(c, i)' \in Nat
  BY <1>1 DEF Due
<1> QED BY <1>1, <1>3, <1>4 DEF Paid

\* A reply whose entries could all be handed out: taking one in uses that up.
LEMMA ConsumePaid ==
    ASSUME Inv, Clean, TypeOK', NEW c \in Consumers, NEW B \in SUBSET Ids, Consume(c, B),
           NEW i \in Ids,
           UNCHANGED <<trimmed, copies, cancelled, faults, stops>>,
           lastDelivered <= lastDelivered', pc[c] # "ack", pc'[c] # "ack",
           i \in B /\ trimmed < i => Obtainable(i),
           i \in B => /\ owner'[i] = c /\ i \notin stale' /\ i <= lastDelivered'
                      /\ cancelled[c] => lastDelivered < i,
           i \notin B => \/ owner'[i] = owner[i] /\ (i \in stale' => i \in stale)
                         \/ i <= trimmed
    PROVE  Paid(c, i)
<1> USE DEF Inv
<1>0. /\ i \in Int /\ trimmed \in Int /\ lastDelivered \in Int /\ lastDelivered' \in Int
      /\ rows[c][i] \in Nat /\ copies[i] \in Nat /\ faults \in Nat /\ stops \in Nat
      /\ Due(c, i) \in Nat /\ Chance(i) \in {0, 1}
  BY AccountTypes, BoundsAssumption DEF TypeOK
<1>1. /\ pending'[c] = pending[c] \cup B
      /\ rows'[c][i] = IF i \in B /\ Decodable(i) /\ trimmed < i
                       THEN Saturated(rows[c][i] + 1) ELSE rows[c][i]
      /\ \A d \in Consumers : d # c => pending'[d] = pending[d]
  BY ConsumeIs
<1>2. Saturated(rows[c][i] + 1) \in Nat /\ Saturated(rows[c][i] + 1) <= rows[c][i] + 1
  BY <1>0, SaturatedBelow
<1>3. CASE i \in B
  <2>1. ~Obtainable(i)'
    BY <1>0, <1>1, <1>3 DEF Obtainable, Abandoned
  <2>2. Chance(i)' = 0
    BY <2>1 DEF Chance
  <2>3. trimmed < i => Chance(i) = 1
    BY <1>3 DEF Chance
  <2>4. /\ Due(c, i)' \in Nat
        /\ trimmed < i => Due(c, i)' <= Due(c, i) + 1
        /\ ~(trimmed < i) => Due(c, i)' <= Due(c, i)
    BY <1>0, <1>1, <1>2, <1>3 DEF Due
  <2> QED BY <1>0, <2>2, <2>3, <2>4 DEF Paid
<1>4. CASE i \notin B
  <2>1. Obtainable(i)' => Obtainable(i)
    <3>1. \A d \in Consumers : i \in pending'[d] <=> i \in pending[d]
      BY <1>1, <1>4
    <3>2. owner[i] # Nobody => owner[i] \in Consumers
      BY DEF TypeOK
    <3>3. CASE owner'[i] = owner[i] /\ (i \in stale' => i \in stale)
      BY <1>0, <3>1, <3>2, <3>3 DEF Obtainable, Abandoned
    <3>4. CASE i <= trimmed
      BY <1>0, <3>4 DEF Obtainable
    <3> QED BY <1>4, <3>3, <3>4
  <2>2. Chance(i)' <= Chance(i) /\ Chance(i)' \in {0, 1}
    BY <2>1 DEF Chance
  <2>3. Due(c, i)' \in Nat /\ Due(c, i)' <= Due(c, i)
    BY <1>0, <1>1, <1>4 DEF Due
  <2> QED BY <1>0, <2>2, <2>3 DEF Paid
<1> QED BY <1>3, <1>4

\* A recovery takes back entries that can be obtained again.
LEMMA RecoverReadPaid ==
    ASSUME Inv, Clean, TypeOK', NEW c \in Consumers, RecoverRead(c), NEW i \in Ids
    PROVE  Paid(c, i)
<1> USE DEF Inv
<1> DEFINE batch == FirstN(PendingOf(c))
<1>1. /\ pc[c] = "recover" /\ pc'[c] # "ack" /\ pending[c] = {}
      /\ UNCHANGED <<trimmed, lastDelivered, copies, cancelled, stops>>
  BY DEF RecoverRead, GoTo, TypeOK, Clean, BoundariesAreClean
<1>2. i \in Int /\ lastDelivered \in Int
  BY AccountTypes
<1>3. CASE ~cancelled[c] /\ Assign(c, batch) /\ Consume(c, batch) /\ UNCHANGED faults
  <2>1. batch \in SUBSET Ids /\ \A j \in batch : owner[j] = c
    BY FirstNSubset DEF PendingOf
  <2>2. i \in batch /\ trimmed < i => Obtainable(i)
    BY <1>1, <2>1, ConsumersAssumption DEF Obtainable, Abandoned
  <2>3. i \in batch => i <= lastDelivered
    BY <2>1, ConsumersAssumption DEF Custody, PendingWasDelivered, Delivered
  <2>4. /\ owner'[i] = IF i \in batch THEN c ELSE owner[i]
        /\ i \in stale' <=> i \in stale /\ i \notin batch
    BY <1>3 DEF Assign
  <2> QED BY <1>1, <1>2, <1>3, <2>1, <2>2, <2>3, <2>4, ConsumePaid
<1>4. CASE UNCHANGED <<owner, stale, buffer>> /\ (faults' = faults \/ faults' = faults + 1)
  <2>1. lastDelivered <= lastDelivered'
    BY <1>1, <1>2
  <2> QED BY <1>1, <1>4, <2>1, MovePaid DEF buffer
<1> QED BY <1>3, <1>4 DEF RecoverRead, CallFails, Fault

\* A claim takes an entry that can be obtained: what it adds was counted.
LEMMA ClaimStalePaid ==
    ASSUME Inv, Clean, TypeOK', NEW c \in Consumers, ClaimStale(c), NEW i \in Ids
    PROVE  Paid(c, i)
<1> USE DEF Inv
<1> DEFINE scanned == FirstN({j \in Ids : owner[j] # Nobody /\ (j \in stale \/ j <= trimmed)})
           claimed == {j \in scanned : trimmed < j}
<1>1. /\ pc[c] = "loop" /\ pc'[c] # "ack"
      /\ UNCHANGED <<trimmed, lastDelivered, copies, cancelled, stops>>
  BY DEF ClaimStale, GoTo, TypeOK
<1>2. /\ i \in Int /\ lastDelivered \in Int /\ trimmed \in Int
      /\ copies[i] \in Nat /\ faults \in Nat /\ stops \in Nat
      /\ Chance(i) \in {0, 1} /\ Chance(i)' \in {0, 1} /\ Due(c, i) \in Nat
  BY AccountTypes, AccountTypesNext
<1>3. CASE ~cancelled[c] /\ AutoClaim(c, scanned) /\ Consume(c, claimed) /\ UNCHANGED faults
  <2>1. /\ claimed \in SUBSET Ids
        /\ \A j \in scanned : j \in Ids /\ owner[j] # Nobody /\ (j \in stale \/ j <= trimmed)
    BY FirstNSubset
  <2>2. i \in claimed => Obtainable(i)
    BY <1>2, <2>1 DEF Obtainable
  <2>3. i \in claimed => i <= lastDelivered
    BY <2>1 DEF Custody, PendingWasDelivered, Delivered
  <2>4. i \in claimed => owner'[i] = c /\ i \notin stale'
    BY <1>2, <1>3 DEF AutoClaim
  <2>5. i \notin claimed => \/ owner'[i] = owner[i] /\ (i \in stale' => i \in stale)
                            \/ i <= trimmed
    BY <1>2, <1>3 DEF AutoClaim
  <2> HIDE DEF claimed
  <2> QED BY <1>1, <1>2, <1>3, <2>1, <2>2, <2>3, <2>4, <2>5, ConsumePaid
<1>4. CASE Fault /\ UNCHANGED buffer
  <2>1. Due(c, i)' = Due(c, i)
    BY <1>1, <1>4 DEF Due, buffer
  <2> QED BY <1>1, <1>2, <1>4, <2>1 DEF Paid, Fault
<1>5. CASE UNCHANGED <<owner, stale, buffer>> /\ (faults' = faults \/ faults' = faults + 1)
  <2>1. lastDelivered <= lastDelivered'
    BY <1>1, <1>2
  <2> QED BY <1>1, <1>5, <2>1, MovePaid DEF buffer
<1> QED BY <1>3, <1>4, <1>5 DEF ClaimStale, CallFails, Fault

\* A first delivery takes entries that were still to be delivered.
LEMMA ReadOncePaid ==
    ASSUME Inv, Clean, TypeOK', lastDelivered <= lastDelivered',
           NEW c \in Consumers, ReadOnce(c), NEW i \in Ids
    PROVE  Paid(c, i)
<1> USE DEF Inv
<1> DEFINE batch == FirstN(Undelivered)
<1>1. /\ pc[c] = "read" /\ pc'[c] # "ack"
      /\ UNCHANGED <<trimmed, copies, cancelled, stops>>
  BY DEF ReadOnce, MaybeFlush, GoTo, TypeOK
<1>2. /\ i \in Int /\ lastDelivered \in Int /\ trimmed \in Int /\ lastDelivered' \in Int
      /\ copies[i] \in Nat /\ faults \in Nat /\ stops \in Nat /\ rows[c][i] \in Nat
      /\ Chance(i) \in {0, 1} /\ Chance(i)' \in {0, 1} /\ Due(c, i) \in Nat
  BY AccountTypes, AccountTypesNext
<1>3. CASE ReadGroup(c, batch) /\ Consume(c, batch) /\ UNCHANGED faults
  <2>1. batch \in SUBSET Ids /\ \A j \in batch : lastDelivered < j /\ trimmed < j
    BY FirstNSubset DEF Undelivered
  <2>2. i \in batch => Obtainable(i) /\ lastDelivered < i
    BY <2>1 DEF Obtainable
  <2>3. /\ owner'[i] = IF i \in batch THEN c ELSE owner[i]
        /\ i \in stale' <=> i \in stale /\ i \notin batch
        /\ i \in batch => i <= lastDelivered'
    BY <1>3 DEF ReadGroup, Assign
  <2> HIDE DEF batch
  <2> QED BY <1>1, <1>2, <1>3, <2>1, <2>2, <2>3, ConsumePaid
<1>4. CASE Fault /\ UNCHANGED buffer
  <2>1. Due(c, i)' <= Due(c, i) /\ Due(c, i)' \in Nat
    BY <1>1, <1>2, <1>4 DEF Due, buffer
  <2> QED BY <1>1, <1>2, <1>4, <2>1 DEF Paid, Fault
<1>5. CASE UNCHANGED <<owner, stale, buffer>> /\ (faults' = faults \/ faults' = faults + 1)
  BY <1>1, <1>5, MovePaid DEF buffer
<1> QED BY <1>3, <1>4, <1>5 DEF ReadOnce, CallFails, Fault

\* An insert turns a prospect into a copy.
LEMMA InsertRowsPaid ==
    ASSUME TypeOK, TypeOK', NEW c \in Consumers, InsertRows(c), NEW i \in Ids
    PROVE  Paid(c, i)
<1>1. Chance(i)' = Chance(i)
  BY SameChance DEF InsertRows, redis, buffer
<1>2. /\ pc[c] = "insert" /\ pc'[c] = "ack"
      /\ UNCHANGED <<rows, pending, cancelled, lastDelivered, faults, stops>>
  BY DEF InsertRows, GoTo, TypeOK, redis, buffer, budgets
<1>3. copies'[i] <= copies[i] + rows[c][i] /\ copies'[i] \in Nat
  BY AccountTypes, SaturatedBelow DEF InsertRows, Store
<1>4. Due(c, i) = Due(c, i)' + rows[c][i] /\ Due(c, i)' \in Nat
  BY <1>2, AccountTypes, AccountTypesNext DEF Due
<1> QED BY <1>1, <1>2, <1>3, <1>4, AccountTypes DEF Paid

\* After c lets go of its buffer it can come back only to what it had pending.
LEMMA DropBufferChance ==
    ASSUME TypeOK, TypeOK', Clean, NEW c \in Consumers, DropBuffer(c), NEW i \in Ids,
           UNCHANGED <<trimmed, lastDelivered, owner, stale>>
    PROVE  /\ i \notin pending[c] => Chance(i)' = Chance(i)
           /\ ~(trimmed < i) => Chance(i)' = 0
           /\ i \in pending[c] => ~(lastDelivered < i)
<1>1. /\ pending'[c] = {}
      /\ \A d \in Consumers : d # c => pending'[d] = pending[d]
  BY DropBufferIs
<1>2. ASSUME i \notin pending[c]
      PROVE  Chance(i)' = Chance(i)
  <2>1. \A d \in Consumers : i \in pending'[d] <=> i \in pending[d]
    BY <1>1, <1>2
  <2>2. owner[i] # Nobody => owner[i] \in Consumers
    BY DEF TypeOK
  <2>3. Abandoned(i)' <=> Abandoned(i)
    BY <2>1, <2>2 DEF Abandoned
  <2>4. Obtainable(i)' <=> Obtainable(i)
    BY <2>3 DEF Obtainable
  <2> QED BY <2>4 DEF Chance
<1>3. ~(trimmed < i) => Chance(i)' = 0
  BY DEF Chance, Obtainable
<1>4. i \in pending[c] => ~(lastDelivered < i)
  BY AccountTypes DEF Clean, HeldWasDelivered
<1> QED BY <1>2, <1>3, <1>4

\* A failed insert stores nothing, or is a fault or follows a stop, which pay for it.
LEMMA InsertFailsPaid ==
    ASSUME Inv, Clean, TypeOK', NEW c \in Consumers, InsertFails(c), NEW i \in Ids, Decodable(i)
    PROVE  Paid(c, i)
<1> USE DEF Inv
<1>1. /\ pc[c] = "insert" /\ pc'[c] # "ack" /\ DropBuffer(c)
      /\ UNCHANGED <<trimmed, lastDelivered, owner, stale, cancelled, stops>>
  BY DEF InsertFails, GoTo, AfterFailure, TypeOK, redis
<1>2. rows'[c][i] = 0 /\ pending'[c] = {}
  BY <1>1, DropBufferIs
<1>3. /\ i \notin pending[c] => Chance(i)' = Chance(i)
      /\ ~(trimmed < i) => Chance(i)' = 0
      /\ i \in pending[c] => ~(lastDelivered < i)
  BY <1>1, DropBufferChance
<1>4. /\ copies[i] \in Nat /\ rows[c][i] \in Nat /\ faults \in Nat /\ stops \in Nat
      /\ Chance(i) \in {0, 1} /\ Chance(i)' \in {0, 1} /\ copies'[i] \in Nat
      /\ Due(c, i) \in Nat /\ Due(c, i)' \in Nat
  BY AccountTypes, AccountTypesNext
<1>5. i \in pending[c] /\ trimmed < i => rows[c][i] >= 1
  BY <1>4, AccountTypes DEF Custody, PendingHasRows
<1>6. copies'[i] <= copies[i] + rows[c][i]
  <2>1. CASE Store(c)
    BY <1>4, <2>1, SaturatedBelow DEF Store
  <2>2. CASE UNCHANGED copies
    BY <1>4, <2>2
  <2> QED BY <2>1, <2>2 DEF InsertFails
<1>7. CASE UNCHANGED copies
  <2>1. Chance(i)' <= Chance(i) + rows[c][i]
    BY <1>3, <1>4, <1>5
  <2>2. Due(c, i)' + rows[c][i] <= Due(c, i)
    BY <1>1, <1>2, <1>4 DEF Due
  <2>3. faults' >= faults /\ faults' \in Nat
    BY <1>4 DEF InsertFails, Fault
  <2> QED BY <1>1, <1>4, <1>7, <2>1, <2>2, <2>3 DEF Paid
<1>8. CASE Fault
  <2>1. Due(c, i)' + rows[c][i] <= Due(c, i)
    BY <1>1, <1>2, <1>4 DEF Due
  <2> QED BY <1>1, <1>4, <1>6, <1>8, <2>1 DEF Paid, Fault
<1>9. CASE Aborted(c) /\ UNCHANGED faults
  <2>1. Chance(i)' + Due(c, i)' + rows[c][i] <= Chance(i) + Due(c, i)
    BY <1>1, <1>2, <1>3, <1>4, <1>9 DEF Due, Aborted
  <2> QED BY <1>1, <1>4, <1>6, <1>9, <2>1 DEF Paid
<1> QED BY <1>7, <1>8, <1>9 DEF InsertFails

\* What is acknowledged is not obtained again; if the call fails, a fault or a stop pays.
LEMMA AckPaid ==
    ASSUME Inv, Clean, TypeOK', NEW c \in Consumers, Ack(c), NEW i \in Ids
    PROVE  Paid(c, i)
<1> USE DEF Inv
<1>1. /\ pc[c] = "ack" /\ pc'[c] # "ack" /\ DropBuffer(c)
      /\ UNCHANGED <<trimmed, lastDelivered, copies, cancelled, stops>>
  BY DEF Ack, GoTo, AfterFlush, TypeOK
<1>2. /\ rows'[c][i] = 0 /\ pending'[c] = {}
      /\ \A d \in Consumers : d # c => pending'[d] = pending[d]
  BY <1>1, DropBufferIs
<1>3. /\ copies[i] \in Nat /\ rows[c][i] \in Nat /\ faults \in Nat /\ stops \in Nat
      /\ Chance(i) \in {0, 1} /\ Chance(i)' \in {0, 1}
      /\ Due(c, i) \in Nat /\ Due(c, i)' \in Nat
      /\ i \in Int /\ lastDelivered \in Int /\ trimmed \in Int
  BY AccountTypes, AccountTypesNext
<1>4. Due(c, i)' <= Due(c, i)
  BY <1>1, <1>2, <1>3 DEF Due
<1>5. i \in pending[c] => i <= lastDelivered
  BY DEF Clean, HeldWasDelivered
<1>6. CASE /\ owner' = [j \in Ids |-> IF j \in pending[c] THEN Nobody ELSE owner[j]]
           /\ stale' = stale \ pending[c]
           /\ UNCHANGED faults
  <2>1. CASE i \in pending[c]
    <3>1. ~Obtainable(i)'
      BY <1>1, <1>3, <1>5, <1>6, <2>1 DEF Obtainable, Abandoned
    <3> QED BY <1>1, <1>3, <1>4, <1>6, <3>1 DEF Paid, Chance
  <2>2. CASE i \notin pending[c]
    <3>1. owner'[i] = owner[i] /\ (i \in stale' => i \in stale)
      BY <1>6, <2>2
    <3>2. \A d \in Consumers : i \in pending'[d] <=> i \in pending[d]
      BY <1>2, <2>2
    <3>3. owner[i] # Nobody => owner[i] \in Consumers
      BY DEF TypeOK
    <3>4. Obtainable(i)' => Obtainable(i)
      BY <1>1, <3>1, <3>2, <3>3 DEF Obtainable, Abandoned
    <3> QED BY <1>1, <1>3, <1>4, <1>6, <3>4 DEF Paid, Chance
  <2> QED BY <2>1, <2>2
<1>7. CASE Fault
  BY <1>1, <1>3, <1>4, <1>7 DEF Paid, Fault
<1>8. CASE Aborted(c) /\ UNCHANGED <<owner, stale, faults>>
  <2>1. /\ i \notin pending[c] => Chance(i)' = Chance(i)
        /\ i \in pending[c] => ~(lastDelivered < i)
    BY <1>1, <1>8, DropBufferChance
  <2>2. Chance(i)' + Due(c, i)' <= Chance(i) + Due(c, i)
    BY <1>1, <1>2, <1>3, <1>8, <2>1 DEF Due, Aborted
  <2> QED BY <1>1, <1>3, <1>8, <2>2 DEF Paid
<1> QED BY <1>6, <1>7, <1>8 DEF Ack

\* Time and the panel: an entry its owner still holds goes stale at the price of
\* a fault, the rest hands out nothing new.
LEMMA WorldAccounted ==
    ASSUME TypeOK, TypeOK', Publish \/ (\E j \in Ids : GoesIdle(j)) \/ UNCHANGED vars,
           NEW i \in Ids, Accounted(i)
    PROVE  Accounted(i)'
<1>1. UNCHANGED <<pc, rows, cancelled, pending, lastDelivered, copies, stops>>
  BY DEF Publish, GoesIdle, vars, control, buffer, budgets, redis
<1>2. SumFunction(Prospects(i))' = SumFunction(Prospects(i))
  BY <1>1 DEF Prospects
<1>3. SumFunction(Prospects(i)) \in Nat
  BY ProspectsAre, SumType, ConsumersAssumption
<1>4. /\ copies[i] \in Nat /\ faults \in Nat /\ stops \in Nat
      /\ Chance(i) \in {0, 1} /\ Chance(i)' \in {0, 1}
  BY AccountTypes, AccountTypesNext
<1>5. Chance(i)' + faults <= Chance(i) + faults'
  <2>1. CASE Publish
    <3>1. trimmed <= trimmed' /\ trimmed \in Int /\ trimmed' \in Int /\ i \in Int
      BY <2>1, BoundsAssumption DEF Publish, TypeOK, Ids
    <3>2. Obtainable(i)' => Obtainable(i)
      BY <2>1, <3>1 DEF Publish, Obtainable, Abandoned, buffer
    <3> QED BY <1>4, <2>1, <3>2 DEF Chance, Publish, budgets
  <2>2. ASSUME NEW j \in Ids, GoesIdle(j)
        PROVE  Chance(i)' + faults <= Chance(i) + faults'
    <3>1. CASE faults' = faults + 1
      BY <1>4, <3>1
    <3>2. CASE Abandoned(j) /\ UNCHANGED faults
      <4>1. Obtainable(i)' => Obtainable(i)
        BY <2>2, <3>2 DEF GoesIdle, Obtainable, Abandoned, buffer
      <4> QED BY <1>4, <3>2, <4>1 DEF Chance
    <3> QED BY <2>2, <3>1, <3>2 DEF GoesIdle, Fault
  <2>3. CASE UNCHANGED vars
    BY <1>4, <2>3, SameChance DEF vars, redis, buffer, budgets
  <2> QED BY <2>1, <2>2, <2>3
<1>6. copies'[i] + SumFunction(Prospects(i))' + Chance(i)' <= 1 + faults' + stops'
  <2> DEFINE n == SumFunction(Prospects(i))
  <2>1. copies[i] + n + Chance(i) <= 1 + faults + stops
    BY DEF Accounted
  <2>2. n' = n /\ n \in Nat
    BY <1>2, <1>3
  <2>3. faults' \in Nat
    BY AccountTypesNext
  <2> HIDE DEF n
  <2>4. copies'[i] + n' + Chance(i)' <= 1 + faults' + stops'
    BY <1>1, <1>4, <1>5, <2>1, <2>2, <2>3
  <2> QED BY <2>4 DEF n
<1> QED BY <1>6 DEF Accounted

\* There is no copy at first.
LEMMA CopiesInit == Init => CopiesAccounted
<1> SUFFICES ASSUME Init, NEW i \in Ids
             PROVE  copies[i] + SumFunction(Prospects(i)) + (IF Obtainable(i) THEN 1 ELSE 0)
                        <= 1 + faults + stops
  BY DEF CopiesAccounted
<1>1. TypeOK
  BY TypeInit
<1>2. \A c \in Consumers : Prospects(i)[c] = 0
  BY DEF Init, Prospects, Empty
<1>3. SumFunction(Prospects(i)) = 0
  BY <1>1, <1>2, ProspectsAre, SumZero, ConsumersAssumption
<1> QED BY <1>3 DEF Init, Empty

\* Every step keeps the account of the copies.
LEMMA CopiesStep ==
    ASSUME Inv, Clean, CopiesAccounted, TypeOK', [Next]_vars
    PROVE  CopiesAccounted'
<1> SUFFICES ASSUME NEW i \in Ids, Decodable(i)
             PROVE  Accounted(i)'
  BY DEF CopiesAccounted, Accounted, Chance, Decodable
<1>1. Accounted(i)
  BY DEF CopiesAccounted, Accounted, Chance
<1>2. TypeOK /\ lastDelivered <= lastDelivered' /\ lastDelivered \in Int
  BY CursorAdvances, AccountTypes DEF Inv
<1>3. ASSUME NEW c \in Consumers, Boot(c) \/ Cancel(c) \/ Crash(c) \/ Work(c)
      PROVE  Accounted(i)'
  <2>1. Alone(c)
    BY <1>2, <1>3, ActorIsAlone
  <2>2. CASE Boot(c) \/ Cancel(c) \/ Crash(c)
    BY <1>2, <2>2, BootPaid, CancelPaid, CrashPaid, <1>1, <2>1, PaidIsAccounted
  <2>3. CASE EnsureGroup(c)
    <3>1. /\ UNCHANGED <<trimmed, owner, stale, copies, rows, pending, cancelled, stops>>
          /\ pc[c] # "ack" /\ pc'[c] # "ack"
          /\ faults' = faults \/ faults' = faults + 1
      BY <1>2, <2>3 DEF EnsureGroup, buffer, GoTo, TypeOK, CallFails, Fault
    <3> QED BY <1>1, <1>2, <2>1, <3>1, MovePaid, PaidIsAccounted
  <2>4. CASE SelectDefault(c) \/ StopSeen(c)
    <3>1. /\ UNCHANGED <<trimmed, owner, stale, copies, rows, pending, cancelled, stops, faults>>
          /\ pc[c] # "ack" /\ pc'[c] # "ack"
      BY <1>2, <2>4 DEF SelectDefault, StopSeen, redis, buffer, budgets, GoTo, TypeOK
    <3> QED BY <1>1, <1>2, <2>1, <3>1, MovePaid, PaidIsAccounted
  <2>5. CASE RecoverRead(c) \/ ClaimStale(c) \/ ReadOnce(c) \/ InsertRows(c) \/ InsertFails(c) \/ Ack(c)
    <3>1. Paid(c, i)
      BY <1>2, <2>5, RecoverReadPaid, ClaimStalePaid, ReadOncePaid, InsertRowsPaid,
         InsertFailsPaid, AckPaid
    <3> QED BY <1>1, <1>2, <2>1, <3>1, PaidIsAccounted
  <2> QED BY <1>3, <2>2, <2>3, <2>4, <2>5 DEF Work
<1>4. CASE Publish \/ (\E j \in Ids : GoesIdle(j)) \/ UNCHANGED vars
  BY <1>1, <1>2, <1>4, WorldAccounted
<1> QED BY <1>3, <1>4 DEF Next

-----------------------------------------------------------------------------
(* Buffers stay near FLUSH_MAX_ROWS *)

\* The ids are a finite set.
LEMMA IdsFinite == IsFiniteSet(Ids) /\ Ids \subseteq Int
<1>1. IsFiniteSet(1 .. MaxId)
  BY FS_Interval, BoundsAssumption
<1> QED BY <1>1, BoundsAssumption DEF Ids

\* A reply carries at most Count entries.
LEMMA FirstNSize ==
    ASSUME NEW S, S \subseteq Ids
    PROVE  IsFiniteSet(FirstN(S)) /\ Cardinality(FirstN(S)) <= Count
<1> DEFINE Below(i) == {j \in S : j < i}
           rank == [i \in FirstN(S) |-> Cardinality(Below(i))]
<1>1. S \subseteq Int /\ FirstN(S) \subseteq S /\ IsFiniteSet(S)
  <2>1. IsFiniteSet(S)
    BY IdsFinite, FS_Subset
  <2> QED BY <2>1, IdsFinite, FirstNSubset
<1>2. \A i \in S : IsFiniteSet(Below(i)) /\ Cardinality(Below(i)) \in Nat
  BY <1>1, FS_Subset, FS_CardinalityType
<1>3. rank \in [FirstN(S) -> 0 .. Count - 1]
  <2>1. \A i \in FirstN(S) : Cardinality(Below(i)) \in Nat /\ Cardinality(Below(i)) < Count
    BY <1>1, <1>2 DEF FirstN
  <2> QED BY <2>1, BoundsAssumption
<1>4. ASSUME NEW i \in S, NEW j \in S, i < j
      PROVE  Cardinality(Below(i)) < Cardinality(Below(j))
  <2>1. Below(i) \cup {i} \subseteq Below(j) /\ i \notin Below(i)
    <3>1. i \in Int /\ j \in Int
      BY <1>1
    <3>2. \A k \in Below(i) : k \in S /\ k < j
      <4> TAKE k \in Below(i)
      <4>1. k \in S /\ k < i /\ k \in Int
        BY <1>1
      <4> QED BY <1>4, <3>1, <4>1
    <3>3. ~(i < i) /\ i \in Below(j)
      BY <1>4, <3>1
    <3> QED BY <3>2, <3>3
  <2>2. Cardinality(Below(i) \cup {i}) = Cardinality(Below(i)) + 1
    <3>1. IsFiniteSet(Below(i)) /\ i \notin Below(i)
      BY <1>2, <2>1
    <3> HIDE DEF Below
    <3> QED BY <3>1, FS_AddElement
  <2>3. Cardinality(Below(i) \cup {i}) <= Cardinality(Below(j))
    <3>1. IsFiniteSet(Below(j)) /\ Below(i) \cup {i} \in SUBSET Below(j)
      BY <1>2, <2>1
    <3> HIDE DEF Below
    <3> QED BY <3>1, FS_Subset
  <2> QED BY <1>2, <2>2, <2>3
<1>5. \A i, j \in FirstN(S) : rank[i] = rank[j] => i = j
  <2> SUFFICES ASSUME NEW i \in FirstN(S), NEW j \in FirstN(S), i # j
               PROVE  rank[i] # rank[j]
    OBVIOUS
  <2>1. i \in S /\ j \in S
    BY <1>1
  <2>2. i \in Int /\ j \in Int
    BY <1>1, <2>1
  <2>3. Cardinality(Below(i)) # Cardinality(Below(j))
    <3>1. Cardinality(Below(i)) \in Nat /\ Cardinality(Below(j)) \in Nat
      BY <1>2, <2>1
    <3>2. i < j \/ j < i
      BY <2>2
    <3>3. CASE i < j
      BY <1>4, <2>1, <3>1, <3>3
    <3>4. CASE j < i
      BY <1>4, <2>1, <3>1, <3>4
    <3> QED BY <3>2, <3>3, <3>4
  <2> QED BY <2>3
<1>6. rank \in Injection(FirstN(S), 0 .. Count - 1)
  BY <1>3, <1>5 DEF Injection, IsInjective
<1>7. IsFiniteSet(0 .. Count - 1) /\ Cardinality(0 .. Count - 1) = Count
  BY FS_Interval, BoundsAssumption
<1> HIDE DEF rank
<1> QED BY <1>6, <1>7, FS_Injection

\* A number of rows is a number.
LEMMA RowCountType ==
    ASSUME TypeOK, NEW c \in Consumers
    PROVE  RowCount(rows[c]) \in Nat
<1>1. rows[c] \in [Ids -> Nat]
  BY BoundsAssumption DEF TypeOK
<1> QED BY <1>1, IdsFinite, SumType DEF RowCount

\* The same after a step.
LEMMA RowCountNext ==
    ASSUME TypeOK', NEW c \in Consumers
    PROVE  /\ RowCount(rows'[c]) \in Nat
           /\ (\A i \in Ids : rows'[c][i] = 0) => RowCount(rows'[c]) = 0
<1>1. rows'[c] \in [Ids -> Nat]
  BY BoundsAssumption DEF TypeOK
<1> QED BY <1>1, IdsFinite, SumType, SumZero DEF RowCount

\* A reply adds at most one row for each of its entries.
LEMMA ConsumeGrows ==
    ASSUME TypeOK, TypeOK', NEW c \in Consumers, NEW B \in SUBSET Ids, Consume(c, B),
           Cardinality(B) <= Count
    PROVE  RowCount(rows'[c]) <= RowCount(rows[c]) + Count
<1> DEFINE f == rows[c]
           h == rows'[c]
<1>1. f \in [Ids -> Nat] /\ h \in [Ids -> Nat] /\ IsFiniteSet(Ids)
  <2>1. f \in [Ids -> Nat] /\ h \in [Ids -> Nat]
    BY BoundsAssumption DEF TypeOK
  <2> QED BY <2>1, IdsFinite
<1>2. \A i \in Ids : h[i] <= f[i] + (IF i \in B THEN 1 ELSE 0)
  <2> TAKE i \in Ids
  <2>1. h[i] = IF i \in B /\ Decodable(i) /\ trimmed < i THEN Saturated(f[i] + 1) ELSE f[i]
    BY ConsumeIs
  <2>2. f[i] \in Nat
    BY <1>1
  <2> HIDE DEF f, h
  <2>3. Saturated(f[i] + 1) <= f[i] + 1
    BY <2>2, SaturatedBelow
  <2> QED BY <2>1, <2>2, <2>3
<1>3. Cardinality(B) \in Nat
  BY <1>1, FS_Subset, FS_CardinalityType
<1>4. SumFunction(h) <= SumFunction(f) + Cardinality(B) /\ SumFunction(h) \in Nat /\ SumFunction(f) \in Nat
  <2> HIDE DEF f, h
  <2> QED BY <1>1, <1>2, SumGrows, SumType
<1>5. SumFunction(h) <= SumFunction(f) + Count
  <2> HIDE DEF f, h
  <2> QED BY <1>3, <1>4, BoundsAssumption
<1> QED BY <1>5 DEF RowCount

Snug(c) == RowCount(rows[c]) < FlushMaxRows + Overhang(c) * Count

\* The types of what the bound of a buffer is made of.
LEMMA OverhangTypes ==
    ASSUME TypeOK, TypeOK', NEW c \in Consumers
    PROVE  /\ Overhang(c) \in Nat /\ Overhang(c)' \in Nat
           /\ faults \in Nat /\ faults' \in Nat
           /\ Count \in Nat \ {0} /\ FlushMaxRows \in Nat \ {0}
BY BoundsAssumption DEF TypeOK, Overhang

\* A product grows with its factor.
LEMMA ProductGrows ==
    ASSUME NEW a \in Nat, NEW b \in Nat, NEW k \in Nat
    PROVE  /\ a * k \in Nat /\ b * k \in Nat
           /\ a <= b => a * k <= b * k
           /\ a + 1 <= b => a * k + k <= b * k
<1>1. a * k \in Nat /\ b * k \in Nat
  OBVIOUS
<1>2. ASSUME a <= b PROVE a * k <= b * k
  BY <1>2
<1>3. ASSUME a + 1 <= b PROVE a * k + k <= b * k
  <2>1. (a + 1) * k <= b * k
    BY <1>3
  <2>2. (a + 1) * k = a * k + k
    OBVIOUS
  <2> QED BY <2>1, <2>2
<1> QED BY <1>1, <1>2, <1>3

\* The buffer did not grow, and no less may be held than before.
LEMMA SnugSame ==
    ASSUME TypeOK, TypeOK', NEW c \in Consumers, Snug(c), rows'[c] = rows[c],
           Overhang(c) <= Overhang(c)'
    PROVE  Snug(c)'
<1>1. Overhang(c) * Count <= Overhang(c)' * Count /\ Overhang(c) * Count \in Nat /\ Overhang(c)' * Count \in Nat
  BY OverhangTypes, ProductGrows
<1>2. RowCount(rows[c]) \in Nat
  BY RowCountType
<1>3. RowCount(rows'[c]) < FlushMaxRows + Overhang(c)' * Count
  BY <1>1, <1>2, OverhangTypes DEF Snug
<1> QED BY <1>3 DEF Snug

\* The buffer took in one reply, and one more may be held than before.
LEMMA SnugGrown ==
    ASSUME TypeOK, TypeOK', NEW c \in Consumers, Snug(c), NEW B \in SUBSET Ids, Consume(c, B),
           Cardinality(B) <= Count, Overhang(c) + 1 <= Overhang(c)'
    PROVE  Snug(c)'
<1>1. Overhang(c) * Count + Count <= Overhang(c)' * Count /\ Overhang(c) * Count \in Nat /\ Overhang(c)' * Count \in Nat
  BY OverhangTypes, ProductGrows
<1>2. RowCount(rows[c]) \in Nat /\ RowCount(rows'[c]) \in Nat
  BY RowCountType, RowCountNext
<1>3. RowCount(rows'[c]) <= RowCount(rows[c]) + Count
  BY ConsumeGrows
<1>4. RowCount(rows'[c]) < FlushMaxRows + Overhang(c)' * Count
  BY <1>1, <1>2, <1>3, OverhangTypes DEF Snug
<1> QED BY <1>4 DEF Snug

\* Below FLUSH_MAX_ROWS nothing more needs to be known; an empty buffer is.
LEMMA SnugShort ==
    ASSUME TypeOK, TypeOK', NEW c \in Consumers, RowCount(rows'[c]) < FlushMaxRows
    PROVE  Snug(c)'
<1>1. Overhang(c)' * Count \in Nat
  BY OverhangTypes, ProductGrows
<1>2. RowCount(rows'[c]) < FlushMaxRows + Overhang(c)' * Count
  BY <1>1, RowCountNext, OverhangTypes
<1> QED BY <1>2 DEF Snug

\* An empty buffer is within the bound.
LEMMA SnugEmpty ==
    ASSUME TypeOK, TypeOK', NEW c \in Consumers, \A i \in Ids : rows'[c][i] = 0
    PROVE  Snug(c)'
BY RowCountNext, SnugShort, OverhangTypes

\* Nothing pending, nothing held.
LEMMA CleanIsEmpty ==
    ASSUME TypeOK, Clean, NEW c \in Consumers, pending[c] = {}
    PROVE  \A i \in Ids : rows[c][i] = 0
BY AccountTypes DEF Clean, RowsArePending

\* A clean buffer is empty, after a step as before it.
LEMMA CleanIsEmptyNext ==
    ASSUME TypeOK', Clean', NEW c \in Consumers, pending'[c] = {}
    PROVE  \A i \in Ids : rows'[c][i] = 0
BY AccountTypesNext DEF Clean, RowsArePending

\* Every buffer is empty at first.
LEMMA BufferInit == Init => BufferAccounted
<1> SUFFICES ASSUME Init, NEW c \in Consumers
             PROVE  RowCount(rows[c]) < FlushMaxRows + Overhang(c) * Count
  BY DEF BufferAccounted
<1>1. Empty \in [Ids -> Nat] /\ \A i \in Ids : Empty[i] = 0
  BY DEF Empty
<1>2. SumFunction(Empty) = 0
  BY <1>1, IdsFinite, SumZero
<1>3. rows[c] = Empty /\ Overhang(c) = 0
  BY DEF Init, Overhang
<1> QED BY <1>2, <1>3, BoundsAssumption DEF RowCount

\* The worker that takes the step.
LEMMA ActorSnug ==
    ASSUME Inv, Clean, Clean', TypeOK', NEW c \in Consumers, Snug(c),
           Boot(c) \/ Cancel(c) \/ Crash(c) \/ Work(c)
    PROVE  Snug(c)'
<1> USE DEF Inv
<1>1. CASE Boot(c) \/ EnsureGroup(c)
  <2>1. pending[c] = {} /\ UNCHANGED rows
    BY <1>1 DEF Boot, EnsureGroup, buffer, Clean, BoundariesAreClean
  <2> QED BY <2>1, CleanIsEmpty, SnugEmpty
<1>2. CASE Cancel(c)
  <2>1. /\ pc'[c] = pc[c] /\ rows'[c] = rows[c] /\ faults' = faults
        /\ cancelled'[c] /\ ~cancelled[c]
    BY <1>2 DEF Cancel, buffer, TypeOK
  <2>2. Overhang(c) <= Overhang(c)'
    BY <2>1, OverhangTypes DEF Overhang
  <2> QED BY <2>1, <2>2, SnugSame
<1>3. CASE Crash(c) \/ InsertFails(c) \/ Ack(c)
  BY <1>3, DropBufferIs, SnugEmpty DEF Crash, InsertFails, Ack
<1>4. CASE RecoverRead(c)
  <2> DEFINE batch == FirstN(PendingOf(c))
  <2>1. pending[c] = {} /\ pc[c] = "recover"
    BY <1>4 DEF RecoverRead, Clean, BoundariesAreClean
  <2>2. CASE UNCHANGED buffer
    BY <2>1, <2>2, CleanIsEmpty, SnugEmpty DEF buffer
  <2>3. CASE Consume(c, batch) /\ GoTo(c, "insert", "recover") /\ UNCHANGED faults
    <3>1. batch \in SUBSET Ids /\ Cardinality(batch) <= Count
      BY FirstNSubset, FirstNSize DEF PendingOf
    <3>2. pc'[c] = "insert"
      BY <2>3, GoToIs
    <3>3. Overhang(c) + 1 <= Overhang(c)'
      BY <2>1, <3>2, OverhangTypes DEF Overhang
    <3> QED BY <2>3, <3>1, <3>3, SnugGrown
  <2> QED BY <1>4, <2>2, <2>3 DEF RecoverRead
<1>5. CASE SelectDefault(c)
  <2>1. /\ pc[c] = "loop" /\ ~cancelled[c] /\ pc'[c] = "read" /\ faults' = faults
        /\ rows'[c] = rows[c]
    BY <1>5, GoToIs DEF SelectDefault, budgets, buffer
  <2>2. Overhang(c) <= Overhang(c)'
    BY <2>1, OverhangTypes DEF Overhang
  <2> QED BY <2>1, <2>2, SnugSame
<1>6. CASE StopSeen(c)
  <2>1. /\ pc[c] = "loop" /\ faults' = faults /\ UNCHANGED rows
        /\ pending[c] = {} \/ pc'[c] = "insert"
    BY <1>6 DEF StopSeen, GoTo, TypeOK, budgets, buffer
  <2>2. CASE pending[c] = {}
    BY <2>1, <2>2, CleanIsEmpty, SnugEmpty
  <2>3. CASE pc'[c] = "insert"
    <3>1. Overhang(c) <= Overhang(c)'
      BY <2>1, <2>3, OverhangTypes DEF Overhang
    <3> QED BY <2>1, <3>1, SnugSame
  <2> QED BY <2>1, <2>2, <2>3
<1>7. CASE ClaimStale(c)
  <2> DEFINE scanned == FirstN({i \in Ids : owner[i] # Nobody /\ (i \in stale \/ i <= trimmed)})
             claimed == {i \in scanned : trimmed < i}
  <2>1. pc[c] = "loop" /\ pc'[c] = "read" /\ UNCHANGED cancelled
    BY <1>7, GoToIs DEF ClaimStale
  <2>2. CASE ~cancelled[c] /\ Consume(c, claimed) /\ UNCHANGED faults
    <3>1. claimed \in SUBSET Ids /\ Cardinality(claimed) <= Count
      <4>1. scanned \in SUBSET Ids /\ IsFiniteSet(scanned) /\ Cardinality(scanned) <= Count
        BY FirstNSubset, FirstNSize
      <4>2. claimed \in SUBSET scanned
        OBVIOUS
      <4> HIDE DEF scanned, claimed
      <4>3. /\ Cardinality(claimed) <= Cardinality(scanned)
            /\ Cardinality(claimed) \in Nat /\ Cardinality(scanned) \in Nat
        BY <4>1, <4>2, FS_Subset, FS_CardinalityType
      <4> QED BY <4>1, <4>2, <4>3, BoundsAssumption
    <3>2. Overhang(c) + 1 <= Overhang(c)'
      BY <2>1, <2>2, OverhangTypes DEF Overhang
    <3> HIDE DEF claimed
    <3> QED BY <2>2, <3>1, <3>2, SnugGrown
  <2>3. CASE UNCHANGED buffer /\ (faults' = faults \/ faults' = faults + 1)
    <3>1. Overhang(c) <= Overhang(c)'
      BY <2>1, <2>3, OverhangTypes DEF Overhang
    <3> QED BY <2>3, <3>1, SnugSame DEF buffer
  <2> QED BY <1>7, <2>2, <2>3 DEF ClaimStale, CallFails, Fault
<1>8. CASE ReadOnce(c)
  <2> DEFINE batch == FirstN(Undelivered)
  <2>1. pc[c] = "read" /\ UNCHANGED cancelled
    BY <1>8 DEF ReadOnce
  <2>2. CASE Consume(c, batch) /\ MaybeFlush(c, batch = {}) /\ UNCHANGED faults
    <3>1. batch \in SUBSET Ids /\ Cardinality(batch) <= Count
      BY FirstNSubset, FirstNSize DEF Undelivered
    <3>2. CASE pending'[c] = {}
      BY <3>2, CleanIsEmptyNext, SnugEmpty
    <3>3. CASE pc'[c] = "insert"
      <4>1. Overhang(c) + 1 <= Overhang(c)'
        BY <2>1, <2>2, <3>3, OverhangTypes DEF Overhang
      <4> QED BY <2>2, <3>1, <4>1, SnugGrown
    <3>4. CASE ~(RowCount(rows'[c]) >= FlushMaxRows)
      BY <3>4, RowCountNext, OverhangTypes, SnugShort
    <3>5. \/ pending'[c] = {}
          \/ pc'[c] = "insert"
          \/ ~(RowCount(rows'[c]) >= FlushMaxRows)
      BY <2>2, GoToIs DEF MaybeFlush
    <3> QED BY <3>2, <3>3, <3>4, <3>5
  <2>3. CASE GoTo(c, "loop", "none") /\ UNCHANGED buffer /\ (Fault \/ CallFails(c))
    <3>1. pc'[c] = "loop" /\ rows'[c] = rows[c]
      BY <2>3, GoToIs DEF buffer
    <3>2. faults' = faults + 1 \/ (cancelled[c] /\ faults' = faults)
      BY <2>3 DEF Fault, CallFails
    <3>3. Overhang(c) <= Overhang(c)'
      BY <2>1, <3>1, <3>2, OverhangTypes DEF Overhang
    <3> QED BY <3>1, <3>3, SnugSame
  <2> QED BY <1>8, <2>2, <2>3 DEF ReadOnce
<1>9. CASE InsertRows(c)
  <2>1. pc[c] = "insert" /\ pc'[c] = "ack" /\ rows'[c] = rows[c] /\ faults' = faults
    BY <1>9, GoToIs DEF InsertRows, buffer, budgets
  <2>2. Overhang(c) <= Overhang(c)'
    BY <2>1, OverhangTypes DEF Overhang
  <2> QED BY <2>1, <2>2, SnugSame
<1> QED BY <1>1, <1>2, <1>3, <1>4, <1>5, <1>6, <1>7, <1>8, <1>9 DEF Work

\* Faults are never taken back.
LEMMA FaultsGrow ==
    ASSUME TypeOK, [Next]_vars
    PROVE  faults' = faults \/ faults' = faults + 1
BY DEF Next, Work, vars, budgets, Publish, GoesIdle, Boot, Cancel, Crash, EnsureGroup, RecoverRead,
       SelectDefault, ClaimStale, StopSeen, ReadOnce, InsertRows, InsertFails, Ack, CallFails, Fault

\* Every step keeps the account of the buffers.
LEMMA BufferStep ==
    ASSUME Inv, Clean, Clean', BufferAccounted, TypeOK', [Next]_vars
    PROVE  BufferAccounted'
<1> SUFFICES ASSUME NEW d \in Consumers
             PROVE  Snug(d)'
  BY DEF BufferAccounted, Snug
<1>1. Snug(d) /\ TypeOK
  BY DEF BufferAccounted, Snug, Inv
<1>2. CASE pc'[d] = pc[d] /\ rows'[d] = rows[d] /\ cancelled'[d] = cancelled[d]
  <2>1. Overhang(d) <= Overhang(d)'
    BY <1>1, <1>2, FaultsGrow, OverhangTypes DEF Overhang
  <2> QED BY <1>1, <1>2, <2>1, SnugSame
<1>3. ASSUME NEW c \in Consumers, Boot(c) \/ Cancel(c) \/ Crash(c) \/ Work(c)
      PROVE  Snug(d)'
  BY <1>1, <1>2, <1>3, ActorSnug, ActorIsAlone DEF Alone
<1>4. CASE Publish \/ (\E j \in Ids : GoesIdle(j)) \/ UNCHANGED vars
  BY <1>2, <1>4 DEF Publish, GoesIdle, vars, control, buffer
<1> QED BY <1>3, <1>4 DEF Next

-----------------------------------------------------------------------------
(* Theorems *)

\* The inductive invariant: custody of the entries, clean boundaries, and the
\* two accounts.
AInv == Inv /\ Clean /\ CopiesAccounted /\ BufferAccounted

\* The accounts hold at first.
LEMMA AInvInit == Init => AInv
BY InvInit, CleanInit, CopiesInit, BufferInit DEF AInv

\* Every step keeps them.
LEMMA AInvStep == AInv /\ [Next]_vars => AInv'
<1> SUFFICES ASSUME AInv, [Next]_vars PROVE AInv'
  OBVIOUS
<1>1. Inv' /\ TypeOK'
  BY InvStep DEF AInv, Inv
<1>2. Clean'
  BY <1>1, CleanStep DEF AInv
<1>3. CopiesAccounted'
  BY <1>1, CopiesStep DEF AInv
<1>4. BufferAccounted'
  BY <1>1, <1>2, BufferStep DEF AInv
<1> QED BY <1>1, <1>2, <1>3, <1>4 DEF AInv

\* The account of every copy of a row and of every buffer is right throughout.
THEOREM BookkeepingHolds == Spec => []Bookkeeping
<1>1. Init => AInv
  BY AInvInit
<1>2. AInv /\ [Next]_vars => AInv'
  BY AInvStep
<1>3. AInv => Bookkeeping
  BY DEF AInv, Inv, Clean, Bookkeeping
<1> QED BY <1>1, <1>2, <1>3, PTL DEF Spec

\* An entry is stored at most once more than there were failed calls, crashes,
\* stalls and stops, whatever the replicas claim from each other.
THEOREM DuplicatesHaveACause == Spec => []DuplicatesPaidFor
<1>1. Init => AInv
  BY AInvInit
<1>2. AInv /\ [Next]_vars => AInv'
  BY AInvStep
<1>3. AInv => DuplicatesPaidFor
  <2> SUFFICES ASSUME AInv, NEW i \in Ids
               PROVE  copies[i] <= 1 + faults + stops
    BY DEF DuplicatesPaidFor
  <2>1. TypeOK
    BY DEF AInv, Inv
  <2>2. copies[i] \in Nat /\ faults \in Nat /\ stops \in Nat /\ Chance(i) \in {0, 1}
    BY <2>1, AccountTypes
  <2>3. CASE Decodable(i)
    <3>1. SumFunction(Prospects(i)) \in Nat
      BY <2>1, ProspectsAre, SumType, ConsumersAssumption
    <3>2. copies[i] + SumFunction(Prospects(i)) + Chance(i) <= 1 + faults + stops
      BY <2>3 DEF AInv, CopiesAccounted, Chance
    <3> QED BY <2>2, <3>1, <3>2
  <2>4. CASE ~Decodable(i)
    <3>1. ~(copies[i] > 0)
      BY <2>4 DEF AInv, Inv, Custody, RowsArePublished
    <3> QED BY <2>2, <3>1
  <2> QED BY <2>3, <2>4
<1> QED BY <1>1, <1>2, <1>3, PTL DEF Spec

\* A worker's buffer stays below FLUSH_MAX_ROWS and two batches, and one batch
\* more for each fault.
THEOREM BufferStaysBounded == Spec => []BufferBounded
<1>1. Init => AInv
  BY AInvInit
<1>2. AInv /\ [Next]_vars => AInv'
  BY AInvStep
<1>3. AInv => BufferBounded
  <2> SUFFICES ASSUME AInv, NEW c \in Consumers
               PROVE  RowCount(rows[c]) < FlushMaxRows + (2 + faults) * Count
    BY DEF BufferBounded
  <2>1. TypeOK /\ RowCount(rows[c]) < FlushMaxRows + Overhang(c) * Count
    BY DEF AInv, Inv, BufferAccounted
  <2>2. /\ Overhang(c) \in Nat /\ Overhang(c) <= 2 + faults /\ 2 + faults \in Nat
        /\ Count \in Nat /\ FlushMaxRows \in Nat
    BY <2>1, BoundsAssumption DEF TypeOK, Overhang
  <2>3. /\ Overhang(c) * Count <= (2 + faults) * Count
        /\ Overhang(c) * Count \in Nat /\ (2 + faults) * Count \in Nat
    BY <2>2, ProductGrows
  <2>4. RowCount(rows[c]) \in Nat
    BY <2>1, RowCountType
  <2> QED BY <2>1, <2>2, <2>3, <2>4
<1> QED BY <1>1, <1>2, <1>3, PTL DEF Spec
-----------------------------------------------------------------------------
(* What recovery and shutdown come to an end by *)

\* c is in recoverOwnPending, and what it has still to do there.
Recovering(c) == pc[c] = "recover" \/ (pc[c] \in {"insert", "ack"} /\ task[c] = "recover")
ToRecover(c) == PendingOf(c) \cup pending[c]

\* Recovery takes on nothing new, and each round of it that is neither disturbed
\* by a fault nor cut off takes something off its list.
RecoveryShrinks ==
    [][\A c \in Consumers : Recovering(c) /\ Recovering(c)' =>
         /\ ToRecover(c)' \subseteq ToRecover(c)
         /\ pc[c] = "ack" /\ pc'[c] = "recover" =>
              ToRecover(c)' # ToRecover(c) \/ faults' > faults \/ cancelled[c]]_vars

\* Steps from a place of Run to its return once ctx is cancelled.
Distance(c) ==
    CASE pc[c] \in {"down", "stopped"}           -> 0
      [] pc[c] = "ack" /\ task[c] = "final"      -> 1
      [] pc[c] = "insert" /\ task[c] = "final"   -> 2
      [] pc[c] = "loop"                          -> 3
      [] pc[c] = "recover"                       -> 4
      [] pc[c] = "ack" /\ task[c] # "final"      -> 5
      [] pc[c] = "ensureGroup"                   -> 5
      [] pc[c] = "insert" /\ task[c] # "final"   -> 6
      [] pc[c] = "read"                          -> 7

\* Every step of a worker whose ctx is cancelled brings it closer to its return,
\* but for one: the select may still take the ticker.
ShutdownAdvances ==
    [][\A c \in Consumers : cancelled[c] /\ pc[c] \notin {"down", "stopped"} =>
         \/ UNCHANGED <<pc[c], task[c]>>
         \/ Distance(c)' < Distance(c)
         \/ ClaimStale(c)]_vars

\* A flush has something to acknowledge.
FlushHolds == \A c \in Consumers : pc[c] \in {"insert", "ack"} => pending[c] # {}

\* No flush is under way at first.
LEMMA FlushInit == Init => FlushHolds
BY DEF Init, FlushHolds

\* A flush begins with something queued, and drops it only when it ends.
LEMMA FlushStep ==
    ASSUME TypeOK, FlushHolds, [Next]_vars
    PROVE  FlushHolds'
<1>1. CASE Publish \/ (\E i \in Ids : GoesIdle(i)) \/ UNCHANGED vars
  BY <1>1 DEF Publish, GoesIdle, vars, control, buffer, FlushHolds
<1>2. ASSUME NEW c \in Consumers, Boot(c) \/ Cancel(c) \/ Crash(c) \/ Work(c)
      PROVE  FlushHolds'
  <2>1. pc'[c] \in {"insert", "ack"} => pending'[c] # {}
    <3>1. CASE Boot(c) \/ Crash(c) \/ EnsureGroup(c) \/ SelectDefault(c) \/ ClaimStale(c)
               \/ InsertFails(c) \/ Ack(c)
      BY <3>1 DEF Boot, Crash, EnsureGroup, SelectDefault, ClaimStale, InsertFails, Ack, GoTo,
                  AfterFlush, AfterFailure, TypeOK
    <3>2. CASE Cancel(c) \/ StopSeen(c) \/ InsertRows(c)
      BY <3>2 DEF Cancel, StopSeen, InsertRows, GoTo, TypeOK, FlushHolds, buffer
    <3>3. CASE RecoverRead(c)
      BY <3>3 DEF RecoverRead, Consume, GoTo, TypeOK
    <3>4. CASE ReadOnce(c)
      BY <3>4 DEF ReadOnce, MaybeFlush, GoTo, TypeOK
    <3> QED BY <1>2, <3>1, <3>2, <3>3, <3>4 DEF Work
  <2> QED BY <1>2, <2>1, ActorIsAlone DEF Alone, FlushHolds
<1> QED BY <1>1, <1>2 DEF Next

\* Whatever a worker does, an entry stays with its owner, comes to this worker
\* or is acknowledged.
LEMMA OwnerMoves ==
    ASSUME TypeOK, NEW d \in Consumers, Boot(d) \/ Cancel(d) \/ Crash(d) \/ Work(d), NEW i \in Ids
    PROVE  owner'[i] \in {owner[i], d, Nobody}
BY DEF TypeOK, Boot, Cancel, Crash, Work, EnsureGroup, RecoverRead, SelectDefault, ClaimStale,
       StopSeen, ReadOnce, InsertRows, InsertFails, Ack, Assign, AutoClaim, ReadGroup, redis

\* One step of a recovery.
LEMMA RecoveryStep ==
    ASSUME TypeOK, FlushHolds, NEW c \in Consumers, Recovering(c), Recovering(c)', [Next]_vars
    PROVE  /\ ToRecover(c)' \subseteq ToRecover(c)
           /\ pc[c] = "ack" /\ pc'[c] = "recover" =>
                ToRecover(c)' # ToRecover(c) \/ faults' > faults \/ cancelled[c]
<1>1. CASE Publish \/ (\E i \in Ids : GoesIdle(i)) \/ UNCHANGED vars
  BY <1>1 DEF Publish, GoesIdle, vars, control, buffer, redis, ToRecover, PendingOf
<1>2. ASSUME NEW d \in Consumers, d # c, Boot(d) \/ Cancel(d) \/ Crash(d) \/ Work(d)
      PROVE  ToRecover(c)' \subseteq ToRecover(c) /\ pc'[c] = pc[c]
  <2>1. pending'[c] = pending[c] /\ pc'[c] = pc[c]
    BY <1>2, ActorIsAlone DEF Alone
  <2>2. \A i \in Ids : owner'[i] = c => owner[i] = c
    BY <1>2, OwnerMoves, ConsumersAssumption
  <2> QED BY <2>1, <2>2 DEF ToRecover, PendingOf
<1>3. CASE Boot(c) \/ Crash(c) \/ EnsureGroup(c) \/ SelectDefault(c) \/ ClaimStale(c)
           \/ StopSeen(c) \/ ReadOnce(c) \/ InsertFails(c)
  BY <1>3 DEF Boot, Crash, EnsureGroup, SelectDefault, ClaimStale, StopSeen, ReadOnce, MaybeFlush,
              InsertFails, AfterFailure, GoTo, Recovering, TypeOK
<1>4. CASE Cancel(c) \/ InsertRows(c)
  BY <1>4 DEF Cancel, InsertRows, GoTo, TypeOK, ToRecover, PendingOf, redis, buffer
<1>5. CASE RecoverRead(c)
  <2> DEFINE batch == FirstN(PendingOf(c))
  <2>1. batch \subseteq PendingOf(c)
    BY DEF FirstN
  <2>2. pc[c] = "recover" /\ Assign(c, batch) /\ Consume(c, batch)
    BY <1>5 DEF RecoverRead, GoTo, Recovering, TypeOK
  <2>3. \A i \in Ids : owner'[i] = owner[i]
    BY <2>1, <2>2 DEF Assign, PendingOf
  <2>4. pending'[c] = pending[c] \cup batch
    BY <2>2 DEF Consume, TypeOK
  <2> QED BY <2>1, <2>2, <2>3, <2>4 DEF ToRecover, PendingOf
<1>6. CASE Ack(c)
  <2>1. pc[c] = "ack" /\ pending'[c] = {} /\ pending[c] # {}
    BY <1>6, DropBufferIs DEF Ack, FlushHolds
  <2>2. \A i \in Ids : owner'[i] = owner[i] \/ owner'[i] = Nobody
    BY <1>6 DEF Ack
  <2>3. ToRecover(c)' \subseteq ToRecover(c)
    BY <2>1, <2>2, ConsumersAssumption DEF ToRecover, PendingOf
  <2>4. CASE ~Aborted(c) /\ owner' = [i \in Ids |-> IF i \in pending[c] THEN Nobody ELSE owner[i]]
    <3>1. PICK i \in Ids : i \in pending[c]
      BY <2>1 DEF TypeOK
    <3>2. i \in ToRecover(c) /\ i \notin ToRecover(c)'
      BY <2>1, <2>4, <3>1, ConsumersAssumption DEF ToRecover, PendingOf
    <3> QED BY <2>3, <3>2
  <2>5. CASE cancelled[c]
    BY <2>3, <2>5
  <2>6. CASE Fault
    BY <2>3, <2>6, BoundsAssumption DEF Fault, TypeOK
  <2> QED BY <1>6, <2>4, <2>5, <2>6 DEF Ack, Aborted
<1> QED BY <1>1, <1>2, <1>3, <1>4, <1>5, <1>6 DEF Next, Work

\* recoverOwnPending works off what it found: while a worker recovers, nothing is
\* added to its list, and every round shortens it or meets a fault or a stop.
THEOREM RecoveryIsBounded == Spec => RecoveryShrinks
<1>1. Init => TypeOK /\ FlushHolds
  BY TypeInit, FlushInit
<1>2. TypeOK /\ FlushHolds /\ [Next]_vars => TypeOK' /\ FlushHolds'
  BY TypeStep, FlushStep
<1>3. TypeOK /\ FlushHolds /\ [Next]_vars =>
        [\A c \in Consumers : Recovering(c) /\ Recovering(c)' =>
           /\ ToRecover(c)' \subseteq ToRecover(c)
           /\ pc[c] = "ack" /\ pc'[c] = "recover" =>
                ToRecover(c)' # ToRecover(c) \/ faults' > faults \/ cancelled[c]]_vars
  BY RecoveryStep
<1> QED BY <1>1, <1>2, <1>3, PTL DEF Spec, RecoveryShrinks

\* The next place of a worker whose ctx is cancelled.
LEMMA CancelledStep ==
    ASSUME TypeOK, NEW c \in Consumers, cancelled[c], Boot(c) \/ Cancel(c) \/ Crash(c) \/ Work(c),
           pc[c] \notin {"down", "stopped"}
    PROVE  Distance(c)' < Distance(c) \/ ClaimStale(c)
<1>1. CASE Boot(c) \/ Cancel(c) \/ Crash(c)
  BY <1>1 DEF Boot, Cancel, Crash, GoTo, TypeOK, Distance, Places
<1>2. CASE EnsureGroup(c) \/ RecoverRead(c) \/ StopSeen(c) \/ SelectDefault(c)
  BY <1>2 DEF EnsureGroup, RecoverRead, StopSeen, SelectDefault, GoTo, TypeOK, Distance
<1>3. CASE ReadOnce(c)
  BY <1>3 DEF ReadOnce, MaybeFlush, GoTo, TypeOK, Distance
<1>4. CASE InsertRows(c) \/ InsertFails(c)
  BY <1>4 DEF InsertRows, InsertFails, AfterFailure, GoTo, TypeOK, Distance
<1>5. CASE Ack(c)
  BY <1>5 DEF Ack, AfterFlush, GoTo, TypeOK, Distance
<1> QED BY <1>1, <1>2, <1>3, <1>4, <1>5 DEF Work

\* Run returns after ctx is cancelled: each step of the worker is one towards its
\* return, so only a select that took the ticker for ever could keep it.
THEOREM ShutdownIsBounded == Spec => ShutdownAdvances
<1>1. Init => TypeOK
  BY TypeInit
<1>2. TypeOK /\ [Next]_vars => TypeOK'
  BY TypeStep
<1>3. TypeOK /\ [Next]_vars =>
        [\A c \in Consumers : cancelled[c] /\ pc[c] \notin {"down", "stopped"} =>
           \/ UNCHANGED <<pc[c], task[c]>>
           \/ Distance(c)' < Distance(c)
           \/ ClaimStale(c)]_vars
  <2> SUFFICES ASSUME TypeOK, [Next]_vars, NEW c \in Consumers, cancelled[c], pc[c] \notin {"down", "stopped"}
               PROVE  \/ UNCHANGED <<pc[c], task[c]>>
                      \/ Distance(c)' < Distance(c)
                      \/ ClaimStale(c)
    OBVIOUS
  <2>1. CASE Publish \/ (\E i \in Ids : GoesIdle(i)) \/ UNCHANGED vars
    BY <2>1 DEF Publish, GoesIdle, vars, control
  <2>2. ASSUME NEW d \in Consumers, d # c, Boot(d) \/ Cancel(d) \/ Crash(d) \/ Work(d)
        PROVE  UNCHANGED <<pc[c], task[c]>>
    BY <2>2 DEF TypeOK, Boot, Cancel, Crash, Work, EnsureGroup, RecoverRead, SelectDefault,
                ClaimStale, StopSeen, ReadOnce, MaybeFlush, InsertRows, InsertFails, Ack, GoTo
  <2> QED BY <2>1, <2>2, CancelledStep DEF Next
<1> QED BY <1>1, <1>2, <1>3, PTL DEF Spec, ShutdownAdvances
===============================================================================
