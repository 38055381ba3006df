------------------------ MODULE StreamConsumerProofs ------------------------
(***************************************************************************)
(* Theorems about StreamConsumer for any number of replicas, entries and   *)
(* faults: type correctness, at-least-once, and that the component         *)
(* implements Delivery.                                                    *)
(***************************************************************************)
EXTENDS StreamConsumer, FiniteSetTheorems, TLAPS

-----------------------------------------------------------------------------
(* FirstN *)

\* A reply holds only entries it was taken from.
LEMMA FirstNSubset ==
    ASSUME NEW S
    PROVE  FirstN(S) \subseteq S
BY DEF FirstN

\* A reply skips nothing: with an entry it holds every smaller one.
LEMMA FirstNPrefix ==
    ASSUME NEW S, S \subseteq Ids, NEW i \in FirstN(S), NEW j \in S, j < i
    PROVE  j \in FirstN(S)
<1> DEFINE Below(k) == {m \in S : m < k}
<1>1. IsFiniteSet(Below(i))
  <2>1. IsFiniteSet(Ids)
    BY FS_Interval, BoundsAssumption DEF Ids
  <2>2. Below(i) \subseteq Ids
    OBVIOUS
  <2> QED BY <2>1, <2>2, FS_Subset
<1>2. Below(j) \subseteq Below(i)
  <2>1. i \in S
    BY FirstNSubset
  <2>2. S \subseteq Int
    BY BoundsAssumption DEF Ids
  <2>3. \A m \in S : m < j => m < i
    BY <2>1, <2>2
  <2> QED BY <2>3
<1>3. /\ Cardinality(Below(j)) <= Cardinality(Below(i))
      /\ Cardinality(Below(i)) \in Nat
      /\ Cardinality(Below(j)) \in Nat
  BY <1>1, <1>2, FS_Subset, FS_CardinalityType
<1>4. Cardinality(Below(i)) < Count
  BY DEF FirstN
<1>5. Cardinality(Below(j)) < Count
  BY <1>3, <1>4, BoundsAssumption
<1> QED BY <1>5 DEF FirstN

-----------------------------------------------------------------------------
(* Types *)

LEMMA SaturatedType ==
    ASSUME NEW n \in Nat
    PROVE  /\ Saturated(n) \in 0 .. MaxCopies
           /\ n > 0 => Saturated(n) > 0
BY BoundsAssumption DEF Saturated

LEMMA GoToType ==
    ASSUME TypeOK, NEW c \in Consumers, NEW p \in Places, NEW t \in Tasks, GoTo(c, p, t)
    PROVE  pc' \in [Consumers -> Places] /\ task' \in [Consumers -> Tasks]
BY DEF TypeOK, GoTo

LEMMA FaultType ==
    ASSUME TypeOK, Fault
    PROVE  faults' \in 0 .. MaxFaults
BY BoundsAssumption DEF TypeOK, Fault

LEMMA CallFailsType ==
    ASSUME TypeOK, NEW c \in Consumers, CallFails(c)
    PROVE  faults' \in 0 .. MaxFaults
BY FaultType DEF TypeOK, CallFails

LEMMA ConsumeType ==
    ASSUME TypeOK, NEW c \in Consumers, NEW B \in SUBSET Ids, Consume(c, B)
    PROVE  /\ rows' \in [Consumers -> [Ids -> 0 .. MaxCopies]]
           /\ pending' \in [Consumers -> SUBSET Ids]
<1>1. \A i \in Ids : Saturated(rows[c][i] + 1) \in 0 .. MaxCopies
  BY SaturatedType, BoundsAssumption DEF TypeOK
<1> QED BY <1>1 DEF TypeOK, Consume

LEMMA DropBufferType ==
    ASSUME TypeOK, NEW c \in Consumers, DropBuffer(c)
    PROVE  /\ rows' \in [Consumers -> [Ids -> 0 .. MaxCopies]]
           /\ pending' \in [Consumers -> SUBSET Ids]
BY BoundsAssumption DEF TypeOK, DropBuffer, Empty

LEMMA AssignType ==
    ASSUME TypeOK, NEW c \in Consumers, NEW B \in SUBSET Ids, Assign(c, B)
    PROVE  owner' \in [Ids -> Consumers \cup {Nobody}] /\ stale' \subseteq Ids
BY DEF TypeOK, Assign

LEMMA AutoClaimType ==
    ASSUME TypeOK, NEW c \in Consumers, NEW B \in SUBSET Ids, AutoClaim(c, B)
    PROVE  owner' \in [Ids -> Consumers \cup {Nobody}] /\ stale' \subseteq Ids
BY DEF TypeOK, AutoClaim

LEMMA ReadGroupType ==
    ASSUME TypeOK, NEW c \in Consumers, ReadGroup(c, FirstN(Undelivered))
    PROVE  /\ owner' \in [Ids -> Consumers \cup {Nobody}]
           /\ stale' \subseteq Ids
           /\ lastDelivered' \in 0 .. MaxId
           /\ FirstN(Undelivered) \subseteq Ids
<1>1. FirstN(Undelivered) \subseteq Ids
  BY FirstNSubset DEF Undelivered
<1> DEFINE B == FirstN(Undelivered)
<1>2. owner' \in [Ids -> Consumers \cup {Nobody}] /\ stale' \subseteq Ids
  <2>1. B \in SUBSET Ids /\ Assign(c, B)
    BY <1>1 DEF ReadGroup
  <2> QED BY <2>1, AssignType
<1>3. lastDelivered' \in 0 .. MaxId
  <2>1. lastDelivered' \in Ids \/ lastDelivered' = lastDelivered
    BY <1>1 DEF ReadGroup
  <2> QED BY <2>1, BoundsAssumption DEF TypeOK, Ids
<1> QED BY <1>1, <1>2, <1>3

LEMMA StoreType ==
    ASSUME TypeOK, NEW c \in Consumers, Store(c)
    PROVE  copies' \in [Ids -> 0 .. MaxCopies]
<1>1. \A i \in Ids : Saturated(copies[i] + rows[c][i]) \in 0 .. MaxCopies
  BY SaturatedType, BoundsAssumption DEF TypeOK
<1> QED BY <1>1 DEF Store

LEMMA CreateGroupType ==
    ASSUME TypeOK, CreateGroup
    PROVE  group' \in BOOLEAN /\ start' \in 0 .. MaxId /\ lastDelivered' \in 0 .. MaxId
BY BoundsAssumption DEF TypeOK, CreateGroup

LEMMA TypeInit == Init => TypeOK
<1> SUFFICES ASSUME Init PROVE TypeOK
  OBVIOUS
<1> USE DEF Init
<1>1. group \in BOOLEAN /\ cancelled \in [Consumers -> BOOLEAN]
  OBVIOUS
<1>2. pc \in [Consumers -> Places] /\ task \in [Consumers -> Tasks]
  BY DEF Places, Tasks
<1>3. copies \in [Ids -> 0 .. MaxCopies] /\ rows \in [Consumers -> [Ids -> 0 .. MaxCopies]]
  BY BoundsAssumption DEF Empty
<1>4. /\ published \in 0 .. MaxId /\ trimmed \in 0 .. MaxId /\ start \in 0 .. MaxId
      /\ lastDelivered \in 0 .. MaxId /\ faults \in 0 .. MaxFaults /\ stops \in 0 .. MaxStops
  BY BoundsAssumption
<1> QED BY <1>1, <1>2, <1>3, <1>4 DEF TypeOK

LEMMA TypeStep == TypeOK /\ [Next]_vars => TypeOK'
<1> SUFFICES ASSUME TypeOK, [Next]_vars
             PROVE  TypeOK'
  OBVIOUS
<1> USE DEF redis, buffer, control, budgets
<1>1. CASE Publish
  <2>1. trimmed' \in 0 .. MaxId /\ published' \in 0 .. MaxId
    BY <1>1, BoundsAssumption DEF TypeOK, Publish
  <2> QED BY <1>1, <2>1 DEF TypeOK, Publish
<1>2. ASSUME NEW i \in Ids, GoesIdle(i)
      PROVE  TypeOK'
  <2>1. faults' \in 0 .. MaxFaults
    BY <1>2, FaultType DEF TypeOK, GoesIdle
  <2> QED BY <1>2, <2>1 DEF TypeOK, GoesIdle
<1>3. ASSUME NEW c \in Consumers, Boot(c)
      PROVE  TypeOK'
  <2>1. pc' \in [Consumers -> Places] /\ task' \in [Consumers -> Tasks]
    BY <1>3, GoToType DEF Boot, Places, Tasks
  <2> QED BY <1>3, <2>1 DEF TypeOK, Boot
<1>4. ASSUME NEW c \in Consumers, Cancel(c)
      PROVE  TypeOK'
  BY <1>4, BoundsAssumption DEF TypeOK, Cancel
<1>5. ASSUME NEW c \in Consumers, Crash(c)
      PROVE  TypeOK'
  <2>1. pc' \in [Consumers -> Places] /\ task' \in [Consumers -> Tasks]
    BY <1>5, GoToType DEF Crash, Places, Tasks
  <2> QED BY <1>5, <2>1, FaultType, DropBufferType DEF TypeOK, Crash
<1>6. ASSUME NEW c \in Consumers, EnsureGroup(c)
      PROVE  TypeOK'
  <2>1. /\ group' \in BOOLEAN
        /\ start' \in 0 .. MaxId
        /\ lastDelivered' \in 0 .. MaxId
    BY <1>6, CreateGroupType DEF TypeOK, EnsureGroup
  <2>2. faults' \in 0 .. MaxFaults
    BY <1>6, CallFailsType DEF TypeOK, EnsureGroup
  <2>3. pc' \in [Consumers -> Places] /\ task' \in [Consumers -> Tasks]
    BY <1>6, GoToType DEF EnsureGroup, Places, Tasks
  <2> QED BY <1>6, <2>1, <2>2, <2>3 DEF TypeOK, EnsureGroup
<1>7. ASSUME NEW c \in Consumers, RecoverRead(c)
      PROVE  TypeOK'
  <2>1. FirstN(PendingOf(c)) \in SUBSET Ids
    BY FirstNSubset DEF PendingOf
  <2>2. owner' \in [Ids -> Consumers \cup {Nobody}] /\ stale' \subseteq Ids
    BY <1>7, <2>1, AssignType DEF TypeOK, RecoverRead
  <2>3. /\ rows' \in [Consumers -> [Ids -> 0 .. MaxCopies]]
        /\ pending' \in [Consumers -> SUBSET Ids]
    BY <1>7, <2>1, ConsumeType DEF TypeOK, RecoverRead
  <2>4. faults' \in 0 .. MaxFaults
    BY <1>7, CallFailsType DEF TypeOK, RecoverRead
  <2>5. pc' \in [Consumers -> Places] /\ task' \in [Consumers -> Tasks]
    BY <1>7, GoToType DEF RecoverRead, Places, Tasks
  <2> QED BY <1>7, <2>2, <2>3, <2>4, <2>5 DEF TypeOK, RecoverRead
<1>8. ASSUME NEW c \in Consumers, SelectDefault(c) \/ StopSeen(c)
      PROVE  TypeOK'
  <2>1. pc' \in [Consumers -> Places] /\ task' \in [Consumers -> Tasks]
    BY <1>8, GoToType DEF SelectDefault, StopSeen, Places, Tasks
  <2> QED BY <1>8, <2>1 DEF TypeOK, SelectDefault, StopSeen
<1>9. ASSUME NEW c \in Consumers, ClaimStale(c)
      PROVE  TypeOK'
  <2> DEFINE scanned == FirstN({i \in Ids : owner[i] # Nobody /\ (i \in stale \/ i <= trimmed)})
  <2>1. scanned \in SUBSET Ids /\ {i \in scanned : trimmed < i} \in SUBSET Ids
    BY FirstNSubset
  <2>2. owner' \in [Ids -> Consumers \cup {Nobody}] /\ stale' \subseteq Ids
    BY <1>9, <2>1, AutoClaimType DEF TypeOK, ClaimStale
  <2>3. /\ rows' \in [Consumers -> [Ids -> 0 .. MaxCopies]]
        /\ pending' \in [Consumers -> SUBSET Ids]
    BY <1>9, <2>1, ConsumeType DEF TypeOK, ClaimStale
  <2>4. faults' \in 0 .. MaxFaults
    BY <1>9, CallFailsType, FaultType DEF TypeOK, ClaimStale
  <2>5. pc' \in [Consumers -> Places] /\ task' \in [Consumers -> Tasks]
    BY <1>9, GoToType DEF ClaimStale, Places, Tasks
  <2> QED BY <1>9, <2>2, <2>3, <2>4, <2>5 DEF TypeOK, ClaimStale
<1>10. ASSUME NEW c \in Consumers, ReadOnce(c)
       PROVE  TypeOK'
  <2>1. /\ owner' \in [Ids -> Consumers \cup {Nobody}]
        /\ stale' \subseteq Ids
        /\ lastDelivered' \in 0 .. MaxId
    BY <1>10, ReadGroupType DEF TypeOK, ReadOnce
  <2>2. FirstN(Undelivered) \in SUBSET Ids
    BY FirstNSubset DEF Undelivered
  <2>3. /\ rows' \in [Consumers -> [Ids -> 0 .. MaxCopies]]
        /\ pending' \in [Consumers -> SUBSET Ids]
    BY <1>10, <2>2, ConsumeType DEF TypeOK, ReadOnce
  <2>4. faults' \in 0 .. MaxFaults
    BY <1>10, CallFailsType, FaultType DEF TypeOK, ReadOnce
  <2>5. pc' \in [Consumers -> Places] /\ task' \in [Consumers -> Tasks]
    BY <1>10, GoToType DEF ReadOnce, MaybeFlush, Places, Tasks
  <2> QED BY <1>10, <2>1, <2>3, <2>4, <2>5 DEF TypeOK, ReadOnce
<1>11. ASSUME NEW c \in Consumers, InsertRows(c)
       PROVE  TypeOK'
  <2>1. task[c] \in Tasks
    BY DEF TypeOK
  <2>2. pc' \in [Consumers -> Places] /\ task' \in [Consumers -> Tasks]
    BY <1>11, <2>1, GoToType DEF InsertRows, Places
  <2> QED BY <1>11, <2>2, StoreType DEF TypeOK, InsertRows
<1>12. ASSUME NEW c \in Consumers, InsertFails(c)
       PROVE  TypeOK'
  <2>1. AfterFailure(c) \in Places /\ "none" \in Tasks
    BY DEF AfterFailure, Places, Tasks
  <2>2. pc' \in [Consumers -> Places] /\ task' \in [Consumers -> Tasks]
    BY <1>12, <2>1, GoToType DEF InsertFails
  <2>3. copies' \in [Ids -> 0 .. MaxCopies]
    BY <1>12, StoreType DEF TypeOK, InsertFails
  <2>4. faults' \in 0 .. MaxFaults
    BY <1>12, FaultType DEF TypeOK, InsertFails
  <2> QED BY <1>12, <2>2, <2>3, <2>4, DropBufferType DEF TypeOK, InsertFails
<1>13. ASSUME NEW c \in Consumers, Ack(c)
       PROVE  TypeOK'
  <2>1. AfterFlush(c) \in Places /\ "none" \in Tasks
    BY DEF AfterFlush, Places, Tasks
  <2>2. pc' \in [Consumers -> Places] /\ task' \in [Consumers -> Tasks]
    BY <1>13, <2>1, GoToType DEF Ack
  <2>3. owner' \in [Ids -> Consumers \cup {Nobody}] /\ stale' \subseteq Ids
    BY <1>13 DEF TypeOK, Ack
  <2>4. faults' \in 0 .. MaxFaults
    BY <1>13, FaultType DEF TypeOK, Ack
  <2> QED BY <1>13, <2>2, <2>3, <2>4, DropBufferType DEF TypeOK, Ack
<1>14. CASE UNCHANGED vars
  BY <1>14 DEF TypeOK, vars
<1> QED
  BY <1>1, <1>2, <1>3, <1>4, <1>5, <1>6, <1>7, <1>8, <1>9, <1>10, <1>11, <1>12, <1>13, <1>14
  DEF Next, Work

\* Every variable keeps its type in every behaviour.
THEOREM TypeCorrect == Spec => []TypeOK
<1>1. Init => TypeOK
  BY TypeInit
<1>2. TypeOK /\ [Next]_vars => TypeOK'
  BY TypeStep
<1> QED BY <1>1, <1>2, PTL DEF Spec

-----------------------------------------------------------------------------
(* At-least-once *)

\* The inductive invariant: AckedIsStored alone is not inductive, because the
\* XACK step must know that the batch was stored and the insert step that the
\* batch holds rows of everything it will acknowledge.
Inv == TypeOK /\ Custody /\ AckedIsStored

LEMMA InvInit == Init => Inv
<1> SUFFICES ASSUME Init PROVE Inv
  OBVIOUS
<1>1. TypeOK
  BY TypeInit
<1>2. /\ LogOrder /\ GroupBeforeWork /\ PendingWasDelivered /\ RowsArePublished /\ PendingHasRows
      /\ AckAfterStore /\ AckedIsStored
  BY DEF Init, LogOrder, GroupBeforeWork, PendingWasDelivered, RowsArePublished, PendingHasRows,
         AckAfterStore, AckedIsStored, Delivered, Empty, Ids
<1> QED BY <1>1, <1>2 DEF Inv, Custody

\* What is safe stays safe while nothing leaves the table or returns to the log.
LEMMA SafeStays ==
    ASSUME TypeOK, trimmed' \in Int, trimmed <= trimmed',
           NEW i \in Ids, copies[i] > 0 => copies'[i] > 0, Safe(i)
    PROVE  Safe(i)'
BY BoundsAssumption DEF TypeOK, Safe, Ids, Decodable

LEMMA GoToNotAck ==
    ASSUME TypeOK, NEW c \in Consumers, NEW p, p # "ack", NEW t, GoTo(c, p, t)
    PROVE  \A d \in Consumers : pc'[d] = "ack" => d # c /\ pc[d] = "ack"
BY DEF TypeOK, GoTo

\* Steps that only move a worker about keep the invariant.
LEMMA ControlKeepsInv ==
    ASSUME Inv, TypeOK', UNCHANGED <<redis, copies, buffer>>,
           \A d \in Consumers : pc'[d] = "ack" => pc[d] = "ack", GroupBeforeWork'
    PROVE  Inv'
BY DEF Inv, Custody, LogOrder, PendingWasDelivered, RowsArePublished, PendingHasRows,
       AckAfterStore, AckedIsStored, Safe, Delivered, redis, buffer

\* Decoding a reply keeps held rows and queued ids in step.
LEMMA ConsumeKeepsRows ==
    ASSUME TypeOK, RowsArePublished, PendingHasRows, UNCHANGED <<published, trimmed, copies>>,
           NEW c \in Consumers, NEW B \in SUBSET Ids, \A i \in B : i <= published,
           Consume(c, B)
    PROVE  /\ RowsArePublished'
           /\ PendingHasRows'
           /\ \A d \in Consumers : d # c => pending'[d] = pending[d]
<1>1. \A i \in Ids : Saturated(rows[c][i] + 1) > 0
  BY SaturatedType, BoundsAssumption DEF TypeOK
<1>2. \A d \in Consumers : d # c => rows'[d] = rows[d] /\ pending'[d] = pending[d]
  BY DEF Consume, TypeOK
<1>3. /\ pending'[c] = pending[c] \cup B
      /\ \A i \in Ids : rows'[c][i] = IF i \in B /\ Decodable(i) /\ trimmed < i
                                      THEN Saturated(rows[c][i] + 1) ELSE rows[c][i]
  BY DEF Consume, TypeOK
<1>4. RowsArePublished'
  BY <1>2, <1>3 DEF RowsArePublished, Decodable
<1>5. PendingHasRows'
  <2>1. ASSUME NEW i \in pending'[c]
        PROVE  rows'[c][i] > 0 \/ ~Decodable(i) \/ i <= trimmed
    <3>a. i \in Ids
      BY <1>3 DEF TypeOK
    <3>1. i \in Ids /\ trimmed \in Int /\ i \in Int
      BY <3>a, BoundsAssumption DEF TypeOK, Ids
    <3>2. CASE i \in B /\ Decodable(i) /\ trimmed < i
      BY <1>1, <1>3, <3>1, <3>2
    <3>3. CASE i \in pending[c] /\ ~(i \in B /\ Decodable(i) /\ trimmed < i)
      BY <1>3, <3>1, <3>3 DEF PendingHasRows
    <3> QED BY <1>3, <3>1, <3>2, <3>3
  <2> QED BY <1>2, <2>1 DEF PendingHasRows, Decodable
<1> QED BY <1>2, <1>4, <1>5

LEMMA DropBufferKeepsRows ==
    ASSUME TypeOK, RowsArePublished, PendingHasRows, UNCHANGED <<published, trimmed>>,
           NEW c \in Consumers, DropBuffer(c),
           \A i \in Ids : copies'[i] > 0 => Decodable(i) /\ i <= published
    PROVE  /\ RowsArePublished'
           /\ PendingHasRows'
           /\ \A d \in Consumers : d # c => pending'[d] = pending[d]
<1>1. \A d \in Consumers : d # c => rows'[d] = rows[d] /\ pending'[d] = pending[d]
  BY DEF DropBuffer, TypeOK
<1>2. pending'[c] = {} /\ \A i \in Ids : rows'[c][i] = 0
  BY DEF DropBuffer, TypeOK, Empty
<1>3. RowsArePublished'
  BY <1>1, <1>2 DEF RowsArePublished, Decodable
<1>4. PendingHasRows'
  BY <1>1, <1>2 DEF PendingHasRows, Decodable
<1> QED BY <1>1, <1>3, <1>4

\* An insert stores every row the worker holds and unstores none.
LEMMA StoreAdds ==
    ASSUME TypeOK, RowsArePublished, NEW c \in Consumers, Store(c)
    PROVE  \A i \in Ids : /\ copies[i] > 0 \/ rows[c][i] > 0 => copies'[i] > 0
                          /\ copies'[i] > 0 => Decodable(i) /\ i <= published
<1> TAKE i \in Ids
<1>1. copies[i] \in Nat /\ rows[c][i] \in Nat
  BY BoundsAssumption DEF TypeOK
<1>2. copies'[i] = Saturated(copies[i] + rows[c][i])
  BY DEF Store
<1>3. copies[i] > 0 \/ rows[c][i] > 0 => copies'[i] > 0
  BY <1>1, <1>2, SaturatedType
<1>4. copies'[i] > 0 => copies[i] > 0 \/ rows[c][i] > 0
  BY <1>1, <1>2, BoundsAssumption DEF Saturated
<1> QED BY <1>3, <1>4 DEF RowsArePublished

LEMMA PublishKeepsInv ==
    ASSUME Inv, TypeOK', Publish
    PROVE  Inv'
<1> USE DEF Inv, Custody, control, buffer, budgets
<1>1. /\ published' = published + 1 /\ trimmed <= trimmed' /\ trimmed' <= published'
      /\ published \in Nat /\ trimmed \in Nat /\ trimmed' \in Nat
  BY BoundsAssumption DEF TypeOK, Publish, LogOrder
<1>2. Ids \subseteq Int
  BY BoundsAssumption DEF Ids
<1>3. \A i \in Ids : Safe(i) => Safe(i)'
  BY <1>1, SafeStays DEF Publish
<1>4. LogOrder'
  BY <1>1, BoundsAssumption DEF LogOrder, Publish, TypeOK
<1>5. PendingWasDelivered' /\ AckedIsStored'
  BY <1>3 DEF PendingWasDelivered, AckedIsStored, Delivered, Publish
<1>6. RowsArePublished'
  <2>1. \A i \in Ids : i <= published => i <= published'
    BY <1>1, <1>2
  <2>2. UNCHANGED <<rows, copies>>
    BY DEF Publish
  <2> QED BY <2>1, <2>2 DEF RowsArePublished, Decodable
<1>7. PendingHasRows'
  BY <1>1, <1>2 DEF PendingHasRows, Publish, Decodable, TypeOK
<1>8. AckAfterStore'
  BY <1>3 DEF AckAfterStore, Publish, TypeOK
<1>9. GroupBeforeWork'
  BY DEF GroupBeforeWork, Publish
<1> QED BY <1>4, <1>5, <1>6, <1>7, <1>8, <1>9

LEMMA GoesIdleKeepsInv ==
    ASSUME Inv, TypeOK', NEW i \in Ids, GoesIdle(i)
    PROVE  Inv'
BY DEF Inv, Custody, LogOrder, PendingWasDelivered, RowsArePublished, PendingHasRows,
       AckAfterStore, AckedIsStored, Safe, Delivered, GroupBeforeWork, GoesIdle, buffer, control

LEMMA CrashKeepsInv ==
    ASSUME Inv, TypeOK', NEW c \in Consumers, Crash(c)
    PROVE  Inv'
<1> USE DEF Inv, Custody, redis
<1>1. /\ RowsArePublished' /\ PendingHasRows'
      /\ \A d \in Consumers : d # c => pending'[d] = pending[d]
  <2>1. UNCHANGED <<published, trimmed, copies>> /\ DropBuffer(c)
    BY DEF Crash
  <2> QED BY <2>1, DropBufferKeepsRows DEF RowsArePublished
<1>2. \A d \in Consumers : pc'[d] = "ack" => d # c /\ pc[d] = "ack"
  <2>1. GoTo(c, "down", "none")
    BY DEF Crash
  <2> QED BY <2>1, GoToNotAck
<1>3. AckAfterStore'
  BY <1>1, <1>2 DEF Crash, AckAfterStore, Safe, Decodable
<1>4. LogOrder' /\ PendingWasDelivered' /\ AckedIsStored'
  BY DEF Crash, LogOrder, PendingWasDelivered, AckedIsStored, Delivered, Safe, Decodable
<1>5. GroupBeforeWork'
  BY DEF Crash, GoTo, GroupBeforeWork, TypeOK
<1> QED BY <1>1, <1>3, <1>4, <1>5

LEMMA EnsureGroupKeepsInv ==
    ASSUME Inv, TypeOK', NEW c \in Consumers, EnsureGroup(c)
    PROVE  Inv'
<1> USE DEF Inv, Custody, buffer
<1>1. \/ UNCHANGED <<start, lastDelivered>> /\ (group => group')
      \/ ~group /\ group' /\ start' = lastDelivered' /\ start' \in {0, published}
  BY DEF EnsureGroup, CreateGroup
<1>2. UNCHANGED <<published, trimmed, owner, copies, rows, pending>>
  BY DEF EnsureGroup
<1>3. \A d \in Consumers : pc'[d] = "ack" => d # c /\ pc[d] = "ack"
  <2>1. \E p \in Places \ {"ack"} : GoTo(c, p, "none")
    BY DEF EnsureGroup, Places
  <2> QED BY <2>1, GoToNotAck
<1>4. LogOrder'
  BY <1>1, <1>2 DEF LogOrder, TypeOK
<1>5. ~group => \A i \in Ids : owner[i] = Nobody
  BY BoundsAssumption DEF LogOrder, PendingWasDelivered, Delivered, Ids, TypeOK
<1>6. PendingWasDelivered' /\ AckedIsStored'
  <2>1. CASE UNCHANGED <<start, lastDelivered>>
    BY <1>2, <2>1 DEF PendingWasDelivered, AckedIsStored, Delivered, Safe, Decodable
  <2>2. CASE ~group /\ start' = lastDelivered'
    <3>1. Delivered' = {}
      BY <2>2, BoundsAssumption DEF Delivered, TypeOK, Ids
    <3> QED BY <1>2, <1>5, <2>2, <3>1 DEF PendingWasDelivered, AckedIsStored
  <2> QED BY <1>1, <2>1, <2>2
<1>7. RowsArePublished' /\ PendingHasRows'
  BY <1>2 DEF RowsArePublished, PendingHasRows, Decodable
<1>8. AckAfterStore'
  BY <1>2, <1>3 DEF AckAfterStore, Safe, Decodable
<1>9. GroupBeforeWork'
  BY <1>1 DEF EnsureGroup, CreateGroup, GoTo, GroupBeforeWork, TypeOK
<1> QED BY <1>4, <1>6, <1>7, <1>8, <1>9

LEMMA PendingIsPublished ==
    ASSUME TypeOK, LogOrder, PendingWasDelivered, NEW i \in Ids, owner[i] # Nobody
    PROVE  i <= published
<1>1. i <= lastDelivered /\ lastDelivered <= published
  BY DEF PendingWasDelivered, Delivered, LogOrder
<1>2. i \in Int /\ lastDelivered \in Int /\ published \in Int
  BY BoundsAssumption DEF TypeOK, Ids
<1> QED BY <1>1, <1>2

LEMMA WorkHasGroup ==
    ASSUME GroupBeforeWork, NEW c \in Consumers,
           pc[c] \in {"recover", "loop", "read", "insert", "ack"}
    PROVE  group
BY DEF GroupBeforeWork

LEMMA RecoverReadKeepsInv ==
    ASSUME Inv, TypeOK', NEW c \in Consumers, RecoverRead(c)
    PROVE  Inv'
<1> USE DEF Inv, Custody, buffer
<1> DEFINE batch == FirstN(PendingOf(c))
<1>1. batch \in SUBSET Ids /\ \A i \in batch : owner[i] = c
  BY FirstNSubset DEF PendingOf
<1>2. UNCHANGED <<published, trimmed, group, start, lastDelivered, copies>>
  BY DEF RecoverRead
<1>3. \A i \in Ids : owner'[i] = owner[i]
  BY <1>1 DEF RecoverRead, Assign
<1>4. \A d \in Consumers : pc'[d] = "ack" => d # c /\ pc[d] = "ack"
  <2>1. \E p \in Places \ {"ack"}, t \in Tasks : GoTo(c, p, t)
    BY DEF RecoverRead, Places, Tasks
  <2> QED BY <2>1, GoToNotAck
<1>5. /\ RowsArePublished' /\ PendingHasRows'
      /\ \A d \in Consumers : d # c => pending'[d] = pending[d]
  <2>1. CASE Consume(c, batch)
    <3>1. \A i \in batch : i <= published
      BY <1>1, ConsumersAssumption, PendingIsPublished
    <3> QED BY <1>1, <1>2, <2>1, <3>1, ConsumeKeepsRows
  <2>2. CASE UNCHANGED buffer
    BY <1>2, <2>2 DEF RowsArePublished, PendingHasRows, Decodable
  <2> QED BY <2>1, <2>2 DEF RecoverRead
<1>6. LogOrder' /\ PendingWasDelivered' /\ AckedIsStored'
  BY <1>2, <1>3 DEF LogOrder, PendingWasDelivered, AckedIsStored, Delivered, Safe, Decodable
<1>7. AckAfterStore'
  BY <1>2, <1>4, <1>5 DEF AckAfterStore, Safe, Decodable
<1>8. GroupBeforeWork'
  BY <1>2, WorkHasGroup DEF RecoverRead, GroupBeforeWork
<1> QED BY <1>5, <1>6, <1>7, <1>8

LEMMA ClaimStaleKeepsInv ==
    ASSUME Inv, TypeOK', NEW c \in Consumers, ClaimStale(c)
    PROVE  Inv'
<1> USE DEF Inv, Custody, buffer
<1> DEFINE scanned == FirstN({i \in Ids : owner[i] # Nobody /\ (i \in stale \/ i <= trimmed)})
           claimed == {i \in scanned : trimmed < i}
<1>1. scanned \in SUBSET Ids /\ claimed \in SUBSET Ids /\ \A i \in scanned : owner[i] # Nobody
  BY FirstNSubset
<1>2. UNCHANGED <<published, trimmed, group, start, lastDelivered, copies>>
  BY DEF ClaimStale
<1>3. \A i \in Ids : /\ owner[i] = Nobody => owner'[i] = Nobody
                     /\ owner[i] # Nobody /\ owner'[i] = Nobody => i <= trimmed
  BY <1>1, ConsumersAssumption DEF ClaimStale, AutoClaim, TypeOK
<1>4. \A d \in Consumers : pc'[d] = "ack" => d # c /\ pc[d] = "ack"
  <2>1. GoTo(c, "read", "none")
    BY DEF ClaimStale
  <2> QED BY <2>1, GoToNotAck
<1>5. /\ RowsArePublished' /\ PendingHasRows'
      /\ \A d \in Consumers : d # c => pending'[d] = pending[d]
  <2>1. CASE Consume(c, claimed)
    <3>1. \A i \in claimed : i <= published
      BY <1>1, PendingIsPublished
    <3> QED BY <1>1, <1>2, <2>1, <3>1, ConsumeKeepsRows
  <2>2. CASE UNCHANGED buffer
    BY <1>2, <2>2 DEF RowsArePublished, PendingHasRows, Decodable
  <2> QED BY <2>1, <2>2 DEF ClaimStale
<1>6. LogOrder' /\ PendingWasDelivered'
  BY <1>2, <1>3 DEF LogOrder, PendingWasDelivered, Delivered
<1>7. AckedIsStored'
  BY <1>2, <1>3 DEF AckedIsStored, Delivered, Safe, Decodable
<1>8. AckAfterStore'
  BY <1>2, <1>4, <1>5 DEF AckAfterStore, Safe, Decodable
<1>9. GroupBeforeWork'
  BY <1>2, WorkHasGroup DEF ClaimStale, GroupBeforeWork
<1> QED BY <1>5, <1>6, <1>7, <1>8, <1>9

\* What XREADGROUP ">" passes over was trimmed.
LEMMA ReadGroupSkipsTrimmed ==
    ASSUME TypeOK, TypeOK', LogOrder, NEW c \in Consumers, UNCHANGED <<trimmed, published, start>>,
           ReadGroup(c, FirstN(Undelivered))
    PROVE  /\ lastDelivered <= lastDelivered' /\ lastDelivered' <= published
           /\ \A i \in Ids : lastDelivered < i /\ i <= lastDelivered' =>
                                  i <= trimmed \/ i \in FirstN(Undelivered)
<1> DEFINE batch == FirstN(Undelivered)
<1>1. batch \subseteq Undelivered /\ Undelivered \subseteq Ids /\ Ids \subseteq Int
  BY FirstNSubset, BoundsAssumption DEF Undelivered, Ids
<1>2. lastDelivered \in Int /\ published \in Int /\ trimmed \in Int /\ lastDelivered' \in Int
  BY BoundsAssumption DEF TypeOK
<1>3. CASE batch = {}
  BY <1>2, <1>3, <1>1 DEF ReadGroup, LogOrder
<1>4. CASE batch # {}
  <2>1. lastDelivered' \in batch
    BY <1>4 DEF ReadGroup
  <2>2. lastDelivered < lastDelivered' /\ lastDelivered' <= published
    BY <1>1, <2>1 DEF Undelivered
  <2>3. ASSUME NEW i \in Ids, lastDelivered < i, i <= lastDelivered', ~(i <= trimmed)
        PROVE  i \in batch
    <3>1. i \in Undelivered
      BY <1>1, <1>2, <2>2, <2>3 DEF Undelivered
    <3>2. CASE i < lastDelivered'
      BY <1>1, <2>1, <3>1, <3>2, FirstNPrefix
    <3>3. CASE i = lastDelivered'
      BY <2>1, <3>3
    <3> QED BY <1>1, <1>2, <2>3, <3>2, <3>3
  <2> QED BY <1>2, <2>2, <2>3
<1> QED BY <1>3, <1>4

LEMMA ReadOnceKeepsInv ==
    ASSUME Inv, TypeOK', NEW c \in Consumers, ReadOnce(c)
    PROVE  Inv'
<1> USE DEF Inv, Custody, buffer
<1> DEFINE batch == FirstN(Undelivered)
<1>1. /\ batch \in SUBSET Ids
      /\ \A i \in batch : lastDelivered < i /\ i <= published
  BY FirstNSubset DEF Undelivered
<1>2. UNCHANGED <<published, trimmed, group, start, copies>>
  BY DEF ReadOnce
<1>3. /\ \A d \in Consumers : pc'[d] = "ack" => d # c /\ pc[d] = "ack"
      /\ pc[c] = "read"
  <2>1. \E p \in Places \ {"ack"}, t \in Tasks : GoTo(c, p, t)
    BY DEF ReadOnce, MaybeFlush, Places, Tasks
  <2> QED BY <2>1, GoToNotAck DEF ReadOnce
<1>4. /\ RowsArePublished' /\ PendingHasRows'
      /\ \A d \in Consumers : d # c => pending'[d] = pending[d]
  <2>1. CASE Consume(c, batch)
    BY <1>1, <1>2, <2>1, ConsumeKeepsRows
  <2>2. CASE UNCHANGED buffer
    BY <1>2, <2>2 DEF RowsArePublished, PendingHasRows, Decodable
  <2> QED BY <2>1, <2>2 DEF ReadOnce
<1>5. LogOrder' /\ PendingWasDelivered' /\ AckedIsStored'
  <2>1. CASE ReadGroup(c, batch)
    <3>1. /\ lastDelivered <= lastDelivered' /\ lastDelivered' <= published
          /\ \A i \in Ids : lastDelivered < i /\ i <= lastDelivered' => i <= trimmed \/ i \in batch
      BY <1>2, <2>1, ReadGroupSkipsTrimmed
    <3>2. /\ start \in Int /\ lastDelivered \in Int /\ lastDelivered' \in Int /\ published \in Int
          /\ start <= lastDelivered
      BY BoundsAssumption DEF TypeOK, LogOrder
    <3>3. \A i \in batch : i <= lastDelivered'
      BY <2>1 DEF ReadGroup
    <3>4. \A i \in Ids : owner'[i] = IF i \in batch THEN c ELSE owner[i]
      BY <2>1 DEF ReadGroup, Assign
    <3>5. Ids \subseteq Int
      BY BoundsAssumption DEF Ids
    <3>6. LogOrder'
      <4>1. group
        BY WorkHasGroup DEF ReadOnce
      <4> QED BY <1>2, <3>1, <3>2, <4>1 DEF LogOrder
    <3>7. PendingWasDelivered'
      BY <1>1, <1>2, <3>1, <3>2, <3>3, <3>4, <3>5 DEF PendingWasDelivered, Delivered
    <3>8. AckedIsStored'
      BY <1>2, <3>1, <3>2, <3>4, <3>5, ConsumersAssumption
      DEF AckedIsStored, Delivered, Safe, Decodable
    <3> QED BY <3>6, <3>7, <3>8
  <2>2. CASE UNCHANGED <<owner, lastDelivered>>
    BY <1>2, <2>2 DEF LogOrder, PendingWasDelivered, AckedIsStored, Delivered, Safe, Decodable
  <2> QED BY <2>1, <2>2 DEF ReadOnce
<1>6. AckAfterStore'
  BY <1>2, <1>3, <1>4 DEF AckAfterStore, Safe, Decodable
<1>7. GroupBeforeWork'
  BY <1>2, WorkHasGroup DEF ReadOnce, GroupBeforeWork
<1> QED BY <1>4, <1>5, <1>6, <1>7

LEMMA InsertRowsKeepsInv ==
    ASSUME Inv, TypeOK', NEW c \in Consumers, InsertRows(c)
    PROVE  Inv'
<1> USE DEF Inv, Custody, redis, buffer
<1>1. UNCHANGED <<published, trimmed, group, start, lastDelivered, owner, rows, pending>>
  BY DEF InsertRows
<1>2. \A i \in Ids : /\ copies[i] > 0 \/ rows[c][i] > 0 => copies'[i] > 0
                     /\ copies'[i] > 0 => Decodable(i) /\ i <= published
  BY StoreAdds DEF InsertRows
<1>3. \A i \in Ids : Safe(i) => Safe(i)'
  BY <1>1, <1>2 DEF Safe, Decodable
<1>4. \A i \in pending[c] : Safe(i)'
  BY <1>1, <1>2 DEF PendingHasRows, Safe, Decodable, TypeOK
<1>5. LogOrder' /\ PendingWasDelivered' /\ PendingHasRows' /\ AckedIsStored'
  BY <1>1, <1>3 DEF LogOrder, PendingWasDelivered, PendingHasRows, AckedIsStored, Delivered, Decodable
<1>6. RowsArePublished'
  BY <1>1, <1>2 DEF RowsArePublished, Decodable
<1>7. AckAfterStore'
  <2>1. \A d \in Consumers : d # c => pc'[d] = pc[d]
    BY DEF InsertRows, GoTo, TypeOK
  <2> QED BY <1>1, <1>3, <1>4, <2>1 DEF AckAfterStore, TypeOK
<1>8. GroupBeforeWork'
  BY <1>1, WorkHasGroup DEF InsertRows, GroupBeforeWork
<1> QED BY <1>5, <1>6, <1>7, <1>8

LEMMA InsertFailsKeepsInv ==
    ASSUME Inv, TypeOK', NEW c \in Consumers, InsertFails(c)
    PROVE  Inv'
<1> USE DEF Inv, Custody, redis
<1>1. UNCHANGED <<published, trimmed, group, start, lastDelivered, owner>> /\ DropBuffer(c)
  BY DEF InsertFails
<1>2. \A i \in Ids : /\ copies[i] > 0 => copies'[i] > 0
                     /\ copies'[i] > 0 => Decodable(i) /\ i <= published
  <2>1. CASE Store(c)
    BY <2>1, StoreAdds
  <2>2. CASE UNCHANGED copies
    BY <2>2 DEF RowsArePublished
  <2> QED BY <2>1, <2>2 DEF InsertFails
<1>3. \A i \in Ids : Safe(i) => Safe(i)'
  BY <1>1, <1>2 DEF Safe, Decodable
<1>4. /\ RowsArePublished' /\ PendingHasRows'
      /\ \A d \in Consumers : d # c => pending'[d] = pending[d]
  BY <1>1, <1>2, DropBufferKeepsRows
<1>5. \A d \in Consumers : pc'[d] = "ack" => d # c /\ pc[d] = "ack"
  <2>1. AfterFailure(c) # "ack" /\ GoTo(c, AfterFailure(c), "none")
    BY DEF InsertFails, AfterFailure
  <2> QED BY <2>1, GoToNotAck
<1>6. LogOrder' /\ PendingWasDelivered' /\ AckedIsStored'
  BY <1>1, <1>3 DEF LogOrder, PendingWasDelivered, AckedIsStored, Delivered
<1>7. AckAfterStore'
  BY <1>3, <1>4, <1>5 DEF AckAfterStore, TypeOK
<1>8. GroupBeforeWork'
  BY <1>1, WorkHasGroup DEF InsertFails, GroupBeforeWork
<1> QED BY <1>4, <1>6, <1>7, <1>8

LEMMA AckKeepsInv ==
    ASSUME Inv, TypeOK', NEW c \in Consumers, Ack(c)
    PROVE  Inv'
<1> USE DEF Inv, Custody
<1>1. UNCHANGED <<published, trimmed, group, start, lastDelivered, copies>> /\ DropBuffer(c)
  BY DEF Ack
<1>2. \A i \in Ids : owner'[i] = owner[i] \/ (i \in pending[c] /\ owner'[i] = Nobody)
  BY DEF Ack, TypeOK
<1>3. \A i \in pending[c] : Safe(i)
  BY DEF Ack, AckAfterStore
<1>4. /\ RowsArePublished' /\ PendingHasRows'
      /\ \A d \in Consumers : d # c => pending'[d] = pending[d]
  BY <1>1, DropBufferKeepsRows DEF RowsArePublished
<1>5. \A d \in Consumers : pc'[d] = "ack" => d # c /\ pc[d] = "ack"
  <2>1. AfterFlush(c) # "ack" /\ GoTo(c, AfterFlush(c), "none")
    BY DEF Ack, AfterFlush
  <2> QED BY <2>1, GoToNotAck
<1>6. LogOrder' /\ PendingWasDelivered'
  BY <1>1, <1>2 DEF LogOrder, PendingWasDelivered, Delivered
<1>7. AckedIsStored'
  BY <1>1, <1>2, <1>3 DEF AckedIsStored, Delivered, Safe, Decodable
<1>8. AckAfterStore'
  BY <1>1, <1>4, <1>5 DEF AckAfterStore, Safe, Decodable
<1>9. GroupBeforeWork'
  BY <1>1, WorkHasGroup DEF Ack, GroupBeforeWork
<1> QED BY <1>4, <1>6, <1>7, <1>8, <1>9

LEMMA InvStep == Inv /\ [Next]_vars => Inv'
<1> SUFFICES ASSUME Inv, [Next]_vars PROVE Inv'
  OBVIOUS
<1>1. TypeOK /\ TypeOK'
  BY TypeStep DEF Inv
<1>2. ASSUME NEW c \in Consumers, Boot(c) \/ Cancel(c) \/ SelectDefault(c) \/ StopSeen(c)
      PROVE  Inv'
  <2>1. UNCHANGED <<redis, copies, buffer>>
    BY <1>2 DEF Boot, Cancel, SelectDefault, StopSeen
  <2>2. \A d \in Consumers : pc'[d] = "ack" => pc[d] = "ack"
    BY <1>1, <1>2 DEF Boot, Cancel, SelectDefault, StopSeen, GoTo, TypeOK
  <2>3. GroupBeforeWork'
    BY <1>1, <1>2, <2>1 DEF Boot, Cancel, SelectDefault, StopSeen, GoTo, TypeOK,
       GroupBeforeWork, Inv, Custody, redis
  <2> QED BY <1>1, <2>1, <2>2, <2>3, ControlKeepsInv
<1>3. CASE UNCHANGED vars
  <2>1. UNCHANGED <<redis, copies, buffer>> /\ pc' = pc
    BY <1>3 DEF vars, control
  <2>2. GroupBeforeWork'
    BY <2>1 DEF GroupBeforeWork, Inv, Custody, redis
  <2> QED BY <1>1, <2>1, <2>2, ControlKeepsInv
<1> QED
  BY <1>1, <1>2, <1>3, PublishKeepsInv, GoesIdleKeepsInv, CrashKeepsInv, EnsureGroupKeepsInv,
     RecoverReadKeepsInv, ClaimStaleKeepsInv, ReadOnceKeepsInv, InsertRowsKeepsInv,
     InsertFailsKeepsInv, AckKeepsInv
  DEF Next, Work

\* An entry is taken off the pending list only when its rows are in ClickHouse,
\* it has none, or it is gone from the stream.
THEOREM AtLeastOnce == Spec => []AckedIsStored
<1>1. Init => Inv
  BY InvInit
<1>2. Inv /\ [Next]_vars => Inv'
  BY InvStep
<1>3. Inv => AckedIsStored
  BY DEF Inv
<1> QED BY <1>1, <1>2, <1>3, PTL DEF Spec

-----------------------------------------------------------------------------
(* The component implements Delivery *)

Settled == {i \in Delivered : owner[i] = Nobody}

\* No step makes a settled entry deliverable again.
LEMMA SettledStays ==
    ASSUME Inv, [Next]_vars
    PROVE  Settled \subseteq Settled'
<1> USE DEF Inv, Custody, redis
<1>0. TypeOK /\ TypeOK'
  BY TypeStep
<1>1. CASE UNCHANGED <<start, lastDelivered, owner>>
  BY <1>1 DEF Settled, Delivered
<1>2. ASSUME NEW c \in Consumers, EnsureGroup(c)
      PROVE  Settled \subseteq Settled'
  <2>1. CASE group
    BY <1>2, <2>1 DEF EnsureGroup, CreateGroup, Settled, Delivered
  <2>2. CASE ~group
    <3>1. Delivered = {}
      BY <2>2, BoundsAssumption DEF LogOrder, Delivered, TypeOK, Ids
    <3> QED BY <3>1 DEF Settled
  <2> QED BY <2>1, <2>2
<1>3. ASSUME NEW c \in Consumers, RecoverRead(c)
      PROVE  Settled \subseteq Settled'
  <2>1. \A i \in FirstN(PendingOf(c)) : owner[i] = c
    BY FirstNSubset DEF PendingOf
  <2> QED BY <1>3, <2>1, ConsumersAssumption DEF RecoverRead, Assign, Settled, Delivered
<1>4. ASSUME NEW c \in Consumers, ClaimStale(c)
      PROVE  Settled \subseteq Settled'
  <2> DEFINE scanned == FirstN({i \in Ids : owner[i] # Nobody /\ (i \in stale \/ i <= trimmed)})
  <2>1. \A i \in scanned : owner[i] # Nobody
    BY FirstNSubset
  <2> QED BY <1>4, <2>1 DEF ClaimStale, AutoClaim, Settled, Delivered
<1>5. ASSUME NEW c \in Consumers, ReadOnce(c)
      PROVE  Settled \subseteq Settled'
  <2> DEFINE batch == FirstN(Undelivered)
  <2>1. CASE ReadGroup(c, batch)
    <3>1. \A i \in batch : lastDelivered < i
      BY FirstNSubset DEF Undelivered
    <3>2. lastDelivered <= lastDelivered'
      BY <1>0, <1>5, <2>1, ReadGroupSkipsTrimmed DEF ReadOnce
    <3>3. /\ Ids \subseteq Int /\ lastDelivered \in Int /\ lastDelivered' \in Int
          /\ start' = start
      BY <1>0, <1>5, BoundsAssumption DEF TypeOK, Ids, ReadOnce
    <3>4. \A i \in Ids : i <= lastDelivered => i \notin batch /\ i <= lastDelivered'
      BY <3>1, <3>2, <3>3
    <3> QED BY <2>1, <3>3, <3>4 DEF ReadGroup, Assign, Settled, Delivered
  <2>2. CASE UNCHANGED <<owner, lastDelivered>>
    BY <1>5, <2>2 DEF ReadOnce, Settled, Delivered
  <2> QED BY <1>5, <2>1, <2>2 DEF ReadOnce
<1>6. ASSUME NEW c \in Consumers, Ack(c)
      PROVE  Settled \subseteq Settled'
  BY <1>6 DEF Ack, Settled, Delivered
<1>7. ASSUME NEW c \in Consumers,
             \/ Boot(c) \/ Cancel(c) \/ Crash(c) \/ SelectDefault(c) \/ StopSeen(c)
             \/ InsertRows(c) \/ InsertFails(c)
      PROVE  UNCHANGED <<start, lastDelivered, owner>>
  BY <1>7 DEF Boot, Cancel, Crash, SelectDefault, StopSeen, InsertRows, InsertFails
<1>8. Publish \/ (\E i \in Ids : GoesIdle(i)) \/ UNCHANGED vars
      => UNCHANGED <<start, lastDelivered, owner>>
  BY DEF Publish, GoesIdle, vars
<1> QED
  BY <1>1, <1>2, <1>3, <1>4, <1>5, <1>6, <1>7, <1>8 DEF Next, Work

LEMMA PromiseInit == Init => Promise!Init
BY BoundsAssumption DEF Init, Promise!Init, Empty, Delivered, Ids

LEMMA PromiseStep ==
    ASSUME Inv, Inv', [Next]_vars
    PROVE  [Promise!Next]_(Promise!vars)
<1> DEFINE committed == {i \in Ids : copies[i] > 0}
<1>1. Settled \subseteq Settled'
  BY SettledStays
<1>2. CASE Publish
  <2>1. /\ published < MaxId /\ published' = published + 1
        /\ trimmed' \in trimmed .. published'
    BY <1>2, BoundsAssumption DEF Inv, Custody, LogOrder, TypeOK, Publish
  <2>2. committed' = committed /\ Settled' = Settled
    BY <1>2 DEF Publish, Settled, Delivered
  <2>3. Promise!Produce
    BY <2>1, <2>2 DEF Promise!Produce, Settled
  <2> QED BY <2>3 DEF Promise!Next
<1>3. ASSUME NEW c \in Consumers, InsertRows(c) \/ InsertFails(c)
      PROVE  Promise!Commit
  <2>1. Store(c) \/ UNCHANGED copies
    BY <1>3 DEF InsertRows, InsertFails
  <2>2. /\ UNCHANGED <<published, trimmed>>
        /\ Settled' = Settled
    BY <1>3 DEF InsertRows, InsertFails, redis, Settled, Delivered
  <2>3. committed \subseteq committed'
    BY <2>1, StoreAdds DEF Inv, Custody
  <2>4. committed' \subseteq {i \in Ids : Decodable(i)} \cap (1 .. published)
    <3>1. \A i \in Ids : copies'[i] > 0 => Decodable(i) /\ i <= published
      BY <2>2 DEF Inv, Custody, RowsArePublished, Decodable
    <3> QED BY <3>1, BoundsAssumption DEF Ids, Inv, TypeOK
  <2> QED BY <2>2, <2>3, <2>4 DEF Promise!Commit, Settled
<1>4. CASE UNCHANGED <<published, trimmed, copies>>
  <2>1. Settled' \subseteq Ids
    BY DEF Settled, Delivered
  <2>2. \A i \in Settled' : i \in committed \/ i \notin {j \in Ids : Decodable(j)} \/ i <= trimmed
    BY <1>4, <2>1 DEF Inv, AckedIsStored, Safe, Settled, Decodable
  <2>3. committed' = committed
    BY <1>4
  <2>4. Promise!Settle
    BY <1>1, <1>4, <2>1, <2>2, <2>3 DEF Promise!Settle, Promise!Entries, Settled, Ids
  <2> QED BY <2>4 DEF Promise!Next
<1>5. \/ Publish
      \/ \E c \in Consumers : InsertRows(c) \/ InsertFails(c)
      \/ UNCHANGED <<published, trimmed, copies>>
  BY DEF Next, Work, vars, redis, GoesIdle, Boot, Cancel, Crash, EnsureGroup, RecoverRead,
         SelectDefault, ClaimStale, StopSeen, ReadOnce, Ack
<1> QED BY <1>2, <1>3, <1>4, <1>5 DEF Promise!Next

\* Workers, group and table implement at-least-once delivery of the stream:
\* nothing is settled before its rows are committed, and neither is undone.
THEOREM ImplementsDelivery == Spec => KeepsPromise
<1>1. Init => Inv
  BY InvInit
<1>2. Inv /\ [Next]_vars => Inv'
  BY InvStep
<1>3. Init => Promise!Init
  BY PromiseInit
<1>4. Inv /\ Inv' /\ [Next]_vars => [Promise!Next]_(Promise!vars)
  BY PromiseStep
<1> QED BY <1>1, <1>2, <1>3, <1>4, PTL DEF Spec, KeepsPromise, Promise!Spec
=============================================================================
