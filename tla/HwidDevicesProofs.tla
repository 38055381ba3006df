------------------------- MODULE HwidDevicesProofs --------------------------
(***************************************************************************)
(* Theorems about HwidDevices for any replicas, devices, page size and     *)
(* limit: a refresh shows the list whatever was bound while it paged, and  *)
(* a list that lands late shows nothing.                                   *)
(***************************************************************************)
EXTENDS HwidDevices, TLAPS, SequenceTheorems, FiniteSetTheorems

\* What a refresh collected was bound at some moment of it, and as long as no
\* device was unbound, every device in front of the offset that was there all
\* along is collected.
Paging(s) ==
    /\ Active(s) => got[s] \subseteq seen[s] /\ ToSet(bound) \subseteq seen[s]
    /\ Active(s) => kept[s] \subseteq ToSet(bound)
    /\ ~Active(s) => got[s] = {} /\ start[s] = 0
    /\ phase[s] = "fetch" /\ ~shrunk[s] =>
        \A i \in DOMAIN bound : i <= start[s] /\ bound[i] \in kept[s] => bound[i] \in got[s]
    /\ phase[s] = "insert" /\ ~shrunk[s] => kept[s] \subseteq got[s]
    /\ phase[s] = "insert" => syncedAt[s] \in 1 .. now

\* The inductive invariant.
Inv == TypeOK /\ \A s \in Syncers : Paging(s)

-----------------------------------------------------------------------------
(* Sequences *)

LEMMA Bounds ==
    /\ PageSize \in Nat \ {0} /\ MaxTime \in Nat \ {0}
    /\ MaxPages \in Nat /\ MaxChanges \in Nat
    /\ IsFiniteSet(Devices)
BY BoundsAssumption

\* Concatenation under a name of its own, to be used by its lemma only.
Join(a, b) == a \o b

LEMMA Joined ==
    ASSUME NEW a \in Seq(Devices), NEW b \in Seq(Devices)
    PROVE  /\ Join(a, b) \in Seq(Devices)
           /\ Len(Join(a, b)) = Len(a) + Len(b)
           /\ \A j \in 1 .. Len(a) + Len(b) : Join(a, b)[j] =
                     IF j <= Len(a) THEN a[j] ELSE b[j - Len(a)]
BY ConcatProperties, Zenon DEF Join

LEMMA InsertedSeq ==
    ASSUME NEW list \in Seq(Devices), NEW d \in Devices, NEW i \in 1 .. Len(list) + 1
    PROVE  /\ InsertAt(list, i, d) \in Seq(Devices)
           /\ Len(InsertAt(list, i, d)) = Len(list) + 1
           /\ \A j \in 1 .. Len(list) + 1 : InsertAt(list, i, d)[j] =
                IF j < i THEN list[j] ELSE IF j = i THEN d ELSE list[j - 1]
<1> DEFINE front == SubSeq(list, 1, i - 1)
           back == SubSeq(list, i, Len(list))
           ahead == Join(front, <<d>>)
<1> HIDE DEF front, back, ahead
<1>1. Len(list) \in Nat /\ i \in Int /\ (\A j \in 1 .. Len(list) : list[j] \in Devices)
  BY LenProperties, ElementOfSeq
<1>2. /\ front \in Seq(Devices) /\ Len(front) = i - 1
      /\ \A j \in 1 .. i - 1 : front[j] = list[j]
  <2>1. \A j \in 1 .. i - 1 : list[j] \in Devices
    BY <1>1
  <2>2. 1 \in Int /\ i - 1 \in Int
    BY <1>1
  <2>3. /\ front \in Seq(Devices)
        /\ Len(front) = IF 1 <= i - 1 THEN (i - 1) - 1 + 1 ELSE 0
        /\ \A j \in 1 .. (i - 1) - 1 + 1 : front[j] = list[1 + j - 1]
    BY <2>1, <2>2, SubSeqProperties DEF front
  <2> QED BY <2>3, <1>1
<1>3. /\ back \in Seq(Devices) /\ Len(back) = Len(list) - i + 1
      /\ \A j \in 1 .. Len(list) - i + 1 : back[j] = list[i + j - 1]
  <2>1. \A j \in i .. Len(list) : list[j] \in Devices
    BY <1>1
  <2>2. /\ back \in Seq(Devices)
        /\ Len(back) = IF i <= Len(list) THEN Len(list) - i + 1 ELSE 0
        /\ \A j \in 1 .. Len(list) - i + 1 : back[j] = list[i + j - 1]
    BY <1>1, <2>1, SubSeqProperties DEF back
  <2> QED BY <2>2, <1>1
<1>4. /\ <<d>> \in Seq(Devices) /\ Len(<<d>>) = 1 /\ <<d>>[1] = d
  OBVIOUS
<1>5. /\ ahead \in Seq(Devices) /\ Len(ahead) = (i - 1) + 1
      /\ \A j \in 1 .. (i - 1) + 1 : ahead[j] = IF j <= i - 1 THEN front[j] ELSE <<d>>[j - (i - 1)]
  <2>1. front \in Seq(Devices) /\ <<d>> \in Seq(Devices)
    BY <1>2, <1>3, <1>4
  <2>2. /\ ahead \in Seq(Devices) /\ Len(ahead) = Len(front) + Len(<<d>>)
        /\ \A j \in 1 .. Len(front) + Len(<<d>>) :
              ahead[j] = IF j <= Len(front) THEN front[j] ELSE <<d>>[j - Len(front)]
    BY <2>1, Joined DEF ahead
  <2> QED BY <1>2, <1>4, <2>2
<1> DEFINE whole == Join(ahead, back)
<1> HIDE DEF whole
<1>6. /\ whole \in Seq(Devices) /\ Len(whole) = i + (Len(list) - i + 1)
      /\ \A j \in 1 .. i + (Len(list) - i + 1) :
            whole[j] = IF j <= i THEN ahead[j] ELSE back[j - i]
  <2>1. ahead \in Seq(Devices) /\ back \in Seq(Devices)
    BY <1>2, <1>3, <1>4, <1>5
  <2>2. /\ whole \in Seq(Devices) /\ Len(whole) = Len(ahead) + Len(back)
        /\ \A j \in 1 .. Len(ahead) + Len(back) :
              whole[j] = IF j <= Len(ahead) THEN ahead[j] ELSE back[j - Len(ahead)]
    BY <2>1, Joined DEF whole
  <2>3. Len(ahead) = i
    BY <1>1, <1>5
  <2> QED BY <1>3, <2>2, <2>3
<1>7. ASSUME NEW j \in 1 .. Len(list) + 1
      PROVE  whole[j] = IF j < i THEN list[j] ELSE IF j = i THEN d ELSE list[j - 1]
  <2>1. j \in 1 .. i + (Len(list) - i + 1)
    BY <1>1
  <2>2. CASE j < i
    BY <1>1, <1>2, <1>5, <1>6, <2>1, <2>2
  <2>3. CASE j = i
    <3>1. whole[i] = ahead[i] /\ ahead[i] = <<d>>[i - (i - 1)] /\ i - (i - 1) = 1
      BY <1>1, <1>5, <1>6, <2>1, <2>3
    <3> QED BY <1>1, <1>4, <2>3, <3>1
  <2>4. CASE j > i
    <3>1. j - i \in 1 .. Len(list) - i + 1 /\ i + (j - i) - 1 = j - 1
      BY <1>1, <2>4
    <3> QED BY <1>1, <1>3, <1>6, <2>1, <2>4, <3>1
  <2> QED BY <1>1, <2>2, <2>3, <2>4
<1>8. InsertAt(list, i, d) = whole
  BY Zenon DEF InsertAt, Join, whole, ahead, front, back
<1>9. Len(whole) = Len(list) + 1
  BY <1>1, <1>6
<1> QED BY <1>6, <1>7, <1>8, <1>9, Zenon

LEMMA RemovedSeq ==
    ASSUME NEW list \in Seq(Devices), NEW i \in 1 .. Len(list)
    PROVE  /\ RemoveAt(list, i) \in Seq(Devices)
           /\ Len(RemoveAt(list, i)) = Len(list) - 1
           /\ \A j \in 1 .. Len(list) - 1 : RemoveAt(list, i)[j] =
                IF j < i THEN list[j] ELSE list[j + 1]
<1> DEFINE front == SubSeq(list, 1, i - 1)
           back == SubSeq(list, i + 1, Len(list))
<1> HIDE DEF front, back
<1>1. Len(list) \in Nat /\ i \in Int /\ (\A j \in 1 .. Len(list) : list[j] \in Devices)
  BY LenProperties, ElementOfSeq
<1>2. /\ front \in Seq(Devices) /\ Len(front) = i - 1
      /\ \A j \in 1 .. i - 1 : front[j] = list[j]
  <2>1. \A j \in 1 .. i - 1 : list[j] \in Devices
    BY <1>1
  <2>2. 1 \in Int /\ i - 1 \in Int
    BY <1>1
  <2>3. /\ front \in Seq(Devices)
        /\ Len(front) = IF 1 <= i - 1 THEN (i - 1) - 1 + 1 ELSE 0
        /\ \A j \in 1 .. (i - 1) - 1 + 1 : front[j] = list[1 + j - 1]
    BY <2>1, <2>2, SubSeqProperties DEF front
  <2> QED BY <2>3, <1>1
<1>3. /\ back \in Seq(Devices) /\ Len(back) = Len(list) - i
      /\ \A j \in 1 .. Len(list) - i : back[j] = list[i + j]
  <2>1. \A j \in i + 1 .. Len(list) : list[j] \in Devices
    BY <1>1
  <2>2. i + 1 \in Int
    BY <1>1
  <2>3. /\ back \in Seq(Devices)
        /\ Len(back) = IF i + 1 <= Len(list) THEN Len(list) - (i + 1) + 1 ELSE 0
        /\ \A j \in 1 .. Len(list) - (i + 1) + 1 : back[j] = list[(i + 1) + j - 1]
    BY <1>1, <2>1, <2>2, SubSeqProperties DEF back
  <2> QED BY <2>3, <1>1
<1> DEFINE whole == Join(front, back)
<1> HIDE DEF whole
<1>4. /\ whole \in Seq(Devices) /\ Len(whole) = (i - 1) + (Len(list) - i)
      /\ \A j \in 1 .. (i - 1) + (Len(list) - i) :
            whole[j] = IF j <= i - 1 THEN front[j] ELSE back[j - (i - 1)]
  <2>1. front \in Seq(Devices) /\ back \in Seq(Devices)
    BY <1>2, <1>3
  <2>2. /\ whole \in Seq(Devices) /\ Len(whole) = Len(front) + Len(back)
        /\ \A j \in 1 .. Len(front) + Len(back) :
              whole[j] = IF j <= Len(front) THEN front[j] ELSE back[j - Len(front)]
    BY <2>1, Joined DEF whole
  <2> QED BY <1>2, <1>3, <2>2
<1>5. ASSUME NEW j \in 1 .. Len(list) - 1
      PROVE  whole[j] = IF j < i THEN list[j] ELSE list[j + 1]
  <2>1. j \in 1 .. (i - 1) + (Len(list) - i)
    BY <1>1
  <2>2. CASE j < i
    BY <1>1, <1>2, <1>4, <2>1, <2>2
  <2>3. CASE j >= i
    <3>1. j - (i - 1) \in 1 .. Len(list) - i /\ i + (j - (i - 1)) = j + 1
      BY <1>1, <2>3
    <3> QED BY <1>1, <1>3, <1>4, <2>1, <2>3, <3>1
  <2> QED BY <1>1, <2>2, <2>3
<1>6. RemoveAt(list, i) = whole
  BY Zenon DEF RemoveAt, Join, whole, front, back
<1>7. Len(whole) = Len(list) - 1
  BY <1>1, <1>4
<1> QED BY <1>4, <1>5, <1>6, <1>7, Zenon

LEMMA MinOfTwo ==
    ASSUME NEW a \in Int, NEW b \in Int
    PROVE  Min({a, b}) = IF a <= b THEN a ELSE b
BY DEF Min

\* A page is the part of the list behind the offset, up to PageSize long.
LEMMA BatchIs ==
    ASSUME TypeOK, NEW s \in Syncers
    PROVE  /\ Len(Batch(s)) \in Nat /\ start[s] \in Nat /\ Len(bound) \in Nat
           /\ start[s] < Len(bound) => Len(Batch(s)) > 0 /\ Start(s) <= Len(bound)
           /\ start[s] >= Len(bound) => Len(Batch(s)) = 0
           /\ \A i \in start[s] + 1 .. Start(s) : bound[i] \in ToSet(Batch(s))
           /\ ToSet(Batch(s)) \subseteq ToSet(bound)
<1>1. PICK l : l = Len(bound)
  OBVIOUS
<1>2. PICK b : b = start[s]
  OBVIOUS
<1>3. PICK m : m = Min({b + PageSize, l})
  OBVIOUS
<1>4. l \in Nat /\ b \in Nat /\ PageSize \in Nat \ {0}
  BY <1>1, <1>2, Bounds, LenProperties DEF TypeOK
<1>5. /\ DOMAIN bound = 1 .. l
      /\ \A j \in 1 .. l : bound[j] \in Devices
  BY <1>1, LenProperties, ElementOfSeq DEF TypeOK
<1>6. m = IF b + PageSize <= l THEN b + PageSize ELSE l
  BY <1>3, <1>4, MinOfTwo
<1>7. m \in Nat /\ m <= l /\ (b < l => b < m) /\ (b >= l => m = l)
  BY <1>4, <1>6
<1>8. /\ Len(Batch(s)) = IF b + 1 <= m THEN m - (b + 1) + 1 ELSE 0
      /\ Batch(s) \in Seq(Devices)
      /\ \A j \in 1 .. m - (b + 1) + 1 : Batch(s)[j] = bound[(b + 1) + j - 1]
  <2>1. \A j \in b + 1 .. m : bound[j] \in Devices
    BY <1>4, <1>5, <1>7
  <2>2. b + 1 \in Int /\ m \in Int
    BY <1>4, <1>7
  <2>3. Batch(s) = SubSeq(bound, b + 1, m)
    BY <1>1, <1>2, <1>3 DEF Batch
  <2>4. PICK f, batch : f = b + 1 /\ batch = Batch(s)
    OBVIOUS
  <2>5. /\ batch \in Seq(Devices)
        /\ Len(batch) = IF f <= m THEN m - f + 1 ELSE 0
        /\ \A j \in 1 .. m - f + 1 : batch[j] = bound[f + j - 1]
    BY <2>1, <2>2, <2>3, <2>4, SubSeqProperties
  <2> QED BY <2>4, <2>5, Zenon
<1>9. PICK n : n = Len(Batch(s))
  OBVIOUS
<1>10. /\ n = (IF b + 1 <= m THEN m - b ELSE 0) /\ n \in Nat
       /\ DOMAIN Batch(s) = 1 .. n
       /\ Start(s) = b + n
  BY <1>2, <1>4, <1>7, <1>8, <1>9, LenProperties DEF Start
<1>11. ASSUME NEW j \in 1 .. n PROVE Batch(s)[j] = bound[b + j] /\ b + j \in 1 .. l
  <2>1. j \in 1 .. m - (b + 1) + 1 /\ (b + 1) + j - 1 = b + j /\ b + j \in 1 .. l
    BY <1>4, <1>7, <1>10
  <2> QED BY <1>8, <2>1
<1>12. ASSUME NEW i \in b + 1 .. Start(s) PROVE bound[i] \in ToSet(Batch(s))
  <2>1. i - b \in 1 .. n /\ b + (i - b) = i
    BY <1>4, <1>10
  <2>2. Batch(s)[i - b] = bound[i]
    BY <1>11, <2>1
  <2> QED BY <1>10, <2>1, <2>2 DEF ToSet
<1>13. ToSet(Batch(s)) \subseteq ToSet(bound)
  BY <1>5, <1>10, <1>11 DEF ToSet
<1>14. (b < l => n > 0 /\ Start(s) <= l) /\ (b >= l => n = 0)
  BY <1>4, <1>7, <1>10
<1> QED BY <1>1, <1>2, <1>4, <1>9, <1>10, <1>12, <1>13, <1>14

-----------------------------------------------------------------------------
(* The invariant holds initially *)

LEMMA InvInit == Init => Inv
<1> SUFFICES ASSUME Init PROVE Inv
  OBVIOUS
<1>1. bound \in Seq(Devices) /\ IsInjective(bound)
  <2>1. PICK D \in SUBSET Devices : bound \in SetToSeqs(D)
    BY DEF Init, SetToAllKPermutations
  <2>2. IsFiniteSet(D)
    BY <2>1, Bounds, FS_Subset
  <2>3. PICK n \in Nat : n = Cardinality(D)
    BY <2>2, FS_CardinalityType
  <2>4. /\ bound \in [1 .. n -> D]
        /\ \A i, j \in 1 .. n : i # j => bound[i] # bound[j]
    BY <2>1, <2>3, Zenon DEF SetToSeqs
  <2>5. bound \in [1 .. n -> Devices]
    BY <2>4
  <2>6. bound \in Seq(Devices)
    BY <2>5, SeqDef
  <2>7. DOMAIN bound = 1 .. n
    BY <2>4
  <2> QED BY <2>4, <2>6, <2>7, Zenon DEF IsInjective
<1>2. now = 1 /\ changes = 0 /\ 1 \in 1 .. MaxTime /\ 0 \in 0 .. MaxChanges /\ 0 \in 0 .. now
      /\ 0 \in 0 .. MaxPages
  BY Bounds DEF Init
<1>3. TypeOK
  BY <1>1, <1>2, Zenon DEF Init, TypeOK
<1>4. \A s \in Syncers : Paging(s)
  BY DEF Init, Paging, Active
<1> QED BY <1>3, <1>4 DEF Inv

-----------------------------------------------------------------------------
(* The panel's list *)

LEMMA BindList ==
    ASSUME TypeOK, NEW d \in Devices \ ToSet(bound), NEW i \in 1 .. Len(bound) + 1,
           bound' = InsertAt(bound, i, d)
    PROVE  /\ bound' \in Seq(Devices) /\ IsInjective(bound')
           /\ ToSet(bound') = ToSet(bound) \cup {d}
           /\ \A j \in DOMAIN bound' : bound'[j] = d \/
                \E k \in DOMAIN bound : k <= j /\ bound'[j] = bound[k]
<1>1. PICK l \in Nat : l = Len(bound) /\ DOMAIN bound = 1 .. l
  BY LenProperties DEF TypeOK
<1>2. /\ bound' \in Seq(Devices) /\ Len(bound') = l + 1
      /\ \A j \in 1 .. l + 1 :
            bound'[j] = IF j < i THEN bound[j] ELSE IF j = i THEN d ELSE bound[j - 1]
  <2>1. bound \in Seq(Devices) /\ d \in Devices
    BY DEF TypeOK
  <2>2. /\ InsertAt(bound, i, d) \in Seq(Devices)
        /\ Len(InsertAt(bound, i, d)) = Len(bound) + 1
        /\ \A j \in 1 .. Len(bound) + 1 : InsertAt(bound, i, d)[j] =
                IF j < i THEN bound[j] ELSE IF j = i THEN d ELSE bound[j - 1]
    BY <2>1, InsertedSeq, Zenon
  <2> QED BY <1>1, <2>2, Zenon
<1>3. DOMAIN bound' = 1 .. l + 1
  BY <1>2, LenProperties
<1>4. i \in 1 .. l + 1 /\ (\A k \in 1 .. l : bound[k] # d)
  BY <1>1 DEF ToSet
<1>5. \A j, k \in 1 .. l : bound[j] = bound[k] => j = k
  BY <1>1 DEF TypeOK, IsInjective
<1>6. ASSUME NEW j \in 1 .. l + 1
      PROVE  \/ j = i /\ bound'[j] = d
             \/ j < i /\ j \in 1 .. l /\ bound'[j] = bound[j]
             \/ j > i /\ j - 1 \in 1 .. l /\ bound'[j] = bound[j - 1]
  BY <1>1, <1>2, <1>4
<1>7. ASSUME NEW j \in 1 .. l + 1, NEW k \in 1 .. l + 1, bound'[j] = bound'[k]
      PROVE  j = k
  <2>1. CASE j = i \/ k = i
    BY <1>4, <1>6, <1>7, <2>1
  <2>2. CASE j # i /\ k # i
    <3>1. PICK a \in 1 .. l : bound'[j] = bound[a] /\ a = (IF j < i THEN j ELSE j - 1)
      BY <1>4, <1>6, <2>2
    <3>2. PICK b \in 1 .. l : bound'[k] = bound[b] /\ b = (IF k < i THEN k ELSE k - 1)
      BY <1>4, <1>6, <2>2
    <3>3. a = b
      BY <1>5, <1>7, <3>1, <3>2
    <3> QED BY <1>4, <2>2, <3>1, <3>2, <3>3
  <2> QED BY <2>1, <2>2
<1>8. IsInjective(bound')
  BY <1>3, <1>7 DEF IsInjective
<1>9. \A j \in 1 .. l + 1 : bound'[j] = d \/ \E k \in 1 .. l : k <= j /\ bound'[j] = bound[k]
  BY <1>1, <1>6
<1>10. ASSUME NEW k \in 1 .. l PROVE \E j \in 1 .. l + 1 : bound'[j] = bound[k]
  <2>1. CASE k < i
    BY <1>1, <1>2, <2>1
  <2>2. CASE k >= i
    <3>1. k + 1 \in 1 .. l + 1 /\ ~(k + 1 < i) /\ k + 1 # i /\ (k + 1) - 1 = k
      BY <1>1, <1>4, <2>2
    <3> QED BY <1>2, <3>1
  <2> QED BY <1>1, <1>4, <2>1, <2>2
<1>11. bound'[i] = d
  BY <1>2, <1>4
<1>12. ToSet(bound') = ToSet(bound) \cup {d}
  <2>1. ToSet(bound') = {bound'[j] : j \in 1 .. l + 1} /\ ToSet(bound) = {bound[k] : k \in 1 .. l}
    BY <1>1, <1>3 DEF ToSet
  <2>2. ToSet(bound') \subseteq ToSet(bound) \cup {d}
    BY <1>9, <2>1
  <2>3. ToSet(bound) \subseteq ToSet(bound')
    BY <1>10, <2>1
  <2>4. d \in ToSet(bound')
    BY <1>4, <1>11, <2>1
  <2> QED BY <2>2, <2>3, <2>4
<1> QED BY <1>1, <1>2, <1>3, <1>8, <1>9, <1>12

LEMMA UnbindList ==
    ASSUME TypeOK, NEW i \in DOMAIN bound, bound' = RemoveAt(bound, i)
    PROVE  /\ bound' \in Seq(Devices) /\ IsInjective(bound')
           /\ ToSet(bound) \ {bound[i]} \subseteq ToSet(bound')
           /\ ToSet(bound') \subseteq ToSet(bound)
<1>1. PICK l \in Nat : l = Len(bound) /\ DOMAIN bound = 1 .. l
  BY LenProperties DEF TypeOK
<1>2. /\ bound' \in Seq(Devices) /\ Len(bound') = l - 1
      /\ \A j \in 1 .. l - 1 : bound'[j] = IF j < i THEN bound[j] ELSE bound[j + 1]
  BY <1>1, RemovedSeq DEF TypeOK
<1>3. DOMAIN bound' = 1 .. l - 1 /\ i \in 1 .. l
  BY <1>1, <1>2, LenProperties
<1>4. \A j, k \in 1 .. l : bound[j] = bound[k] => j = k
  BY <1>1 DEF TypeOK, IsInjective
<1>5. ASSUME NEW j \in 1 .. l - 1
      PROVE  \E a \in 1 .. l : bound'[j] = bound[a] /\ a = (IF j < i THEN j ELSE j + 1)
  BY <1>1, <1>2, <1>3
<1>6. ASSUME NEW j \in 1 .. l - 1, NEW k \in 1 .. l - 1, bound'[j] = bound'[k]
      PROVE  j = k
  <2>1. PICK a \in 1 .. l : bound'[j] = bound[a] /\ a = (IF j < i THEN j ELSE j + 1)
    BY <1>5
  <2>2. PICK b \in 1 .. l : bound'[k] = bound[b] /\ b = (IF k < i THEN k ELSE k + 1)
    BY <1>5
  <2>3. a = b
    BY <1>4, <1>6, <2>1, <2>2
  <2> QED BY <1>3, <2>1, <2>2, <2>3
<1>7. IsInjective(bound')
  BY <1>3, <1>6 DEF IsInjective
<1>8. ASSUME NEW k \in 1 .. l, k # i PROVE \E j \in 1 .. l - 1 : bound'[j] = bound[k]
  <2>1. CASE k < i
    BY <1>1, <1>2, <1>3, <2>1
  <2>2. CASE k > i
    <3>1. k - 1 \in 1 .. l - 1 /\ ~(k - 1 < i) /\ (k - 1) + 1 = k
      BY <1>1, <1>3, <2>2
    <3> QED BY <1>2, <3>1
  <2> QED BY <1>3, <1>8, <2>1, <2>2
<1>9. ToSet(bound) \ {bound[i]} \subseteq ToSet(bound')
  BY <1>1, <1>3, <1>8 DEF ToSet
<1>10. ToSet(bound') \subseteq ToSet(bound)
  BY <1>1, <1>3, <1>5 DEF ToSet
<1> QED BY <1>2, <1>7, <1>9, <1>10

-----------------------------------------------------------------------------
(* The invariant is preserved *)

LEMMA DoneTypes ==
    ASSUME TypeOK, NEW s \in Syncers, Done(s)
    PROVE  /\ phase' \in [Syncers -> {"idle", "fetch", "insert"}]
           /\ page' \in [Syncers -> 0 .. MaxPages]
           /\ start' \in [Syncers -> Nat]
           /\ got' \in [Syncers -> SUBSET Devices]
           /\ syncedAt' \in [Syncers -> 0 .. now]
           /\ kept' \in [Syncers -> SUBSET Devices]
           /\ seen' \in [Syncers -> SUBSET Devices]
           /\ shrunk' \in [Syncers -> BOOLEAN]
<1>1. 0 \in 0 .. MaxPages /\ 0 \in Nat /\ 0 \in 0 .. now
  BY Bounds DEF TypeOK
<1> QED BY <1>1 DEF Done, TypeOK

LEMMA StoredType ==
    ASSUME TypeOK, NEW s \in Syncers
    PROVE  Stored(s) \in [Devices -> 0 .. now]
BY DEF TypeOK, Stored

LEMMA BoundDevices == TypeOK => ToSet(bound) \subseteq Devices
BY LenProperties, ElementOfSeq DEF TypeOK, ToSet

LEMMA TypesNext == TypeOK /\ [Next]_vars => TypeOK'
<1> SUFFICES ASSUME TypeOK, [Next]_vars PROVE TypeOK'
  OBVIOUS
<1> USE DEF panel, refresh, history
<1>1. CASE Bind
  <2>1. PICK d \in Devices \ ToSet(bound), i \in 1 .. Len(bound) + 1 :
          /\ bound' = InsertAt(bound, i, d)
          /\ seen' = [s \in Syncers |-> IF Active(s) THEN seen[s] \cup {d} ELSE seen[s]]
    BY <1>1 DEF Bind
  <2>2. bound' \in Seq(Devices) /\ IsInjective(bound')
    BY <2>1, BindList
  <2>3. seen' \in [Syncers -> SUBSET Devices]
    BY <2>1 DEF TypeOK
  <2>4. changes' \in 0 .. MaxChanges
    BY <1>1, Bounds DEF Bind, TypeOK
  <2> QED BY <1>1, <2>2, <2>3, <2>4 DEF Bind, TypeOK
<1>2. CASE Unbind
  <2>1. PICK i \in DOMAIN bound :
          /\ bound' = RemoveAt(bound, i)
          /\ kept' = [s \in Syncers |-> kept[s] \ {bound[i]}]
    BY <1>2 DEF Unbind
  <2>2. bound' \in Seq(Devices) /\ IsInjective(bound')
    BY <2>1, UnbindList
  <2>3. kept' \in [Syncers -> SUBSET Devices]
    BY <2>1 DEF TypeOK
  <2>4. changes' \in 0 .. MaxChanges
    BY <1>2, Bounds DEF Unbind, TypeOK
  <2>5. shrunk' \in [Syncers -> BOOLEAN]
    BY <1>2 DEF Unbind, Active
  <2> QED BY <1>2, <2>2, <2>3, <2>4, <2>5 DEF Unbind, TypeOK
<1>3. CASE Expire
  <2>1. dim' \in [Devices -> 0 .. now]
    BY <1>3 DEF Expire, TypeOK
  <2> QED BY <1>3, <2>1 DEF Expire, TypeOK
<1>4. ASSUME NEW s \in Syncers, StartRefresh(s) PROVE TypeOK'
  <2>1. phase' \in [Syncers -> {"idle", "fetch", "insert"}]
    BY <1>4 DEF StartRefresh, TypeOK
  <2>2. kept' \in [Syncers -> SUBSET Devices] /\ seen' \in [Syncers -> SUBSET Devices]
    BY <1>4, BoundDevices DEF StartRefresh, TypeOK
  <2> QED BY <1>4, <2>1, <2>2 DEF StartRefresh, TypeOK
<1>5. ASSUME NEW s \in Syncers, FetchPage(s) PROVE TypeOK'
  <2>1. page' \in [Syncers -> 0 .. MaxPages]
    BY <1>5, Bounds DEF FetchPage, TypeOK
  <2>2. Start(s) \in Nat
    BY BatchIs DEF Start
  <2>3. start' \in [Syncers -> Nat]
    BY <1>5, <2>2 DEF FetchPage, TypeOK
  <2>4. got' \in [Syncers -> SUBSET Devices]
    BY <1>5, BatchIs, BoundDevices DEF FetchPage, TypeOK
  <2> QED BY <1>5, <2>1, <2>3, <2>4 DEF FetchPage, TypeOK
<1>6. ASSUME NEW s \in Syncers, FetchLastPage(s) PROVE TypeOK'
  <2>1. PICK t \in {now, now + 1} :
          t <= MaxTime /\ now' = t /\ syncedAt' = [syncedAt EXCEPT ![s] = t]
    BY <1>6 DEF FetchLastPage
  <2>2. now' \in 1 .. MaxTime /\ 0 .. now \subseteq 0 .. now' /\ t \in 0 .. now'
    BY <2>1, Bounds DEF TypeOK
  <2>3. syncedAt' \in [Syncers -> 0 .. now']
    BY <2>1, <2>2 DEF TypeOK
  <2>4. dim' \in [Devices -> 0 .. now']
    BY <1>6, <2>2 DEF FetchLastPage, TypeOK
  <2>5. Start(s) \in Nat
    BY BatchIs DEF Start
  <2>6. start' \in [Syncers -> Nat]
    BY <1>6, <2>5 DEF FetchLastPage, TypeOK
  <2>7. got' \in [Syncers -> SUBSET Devices]
    BY <1>6, BatchIs, BoundDevices DEF FetchLastPage, TypeOK
  <2>8. phase' \in [Syncers -> {"idle", "fetch", "insert"}]
    BY <1>6 DEF FetchLastPage, TypeOK
  <2> QED BY <1>6, <2>2, <2>3, <2>4, <2>6, <2>7, <2>8 DEF FetchLastPage, TypeOK
<1>7. ASSUME NEW s \in Syncers, FetchNothing(s) \/ FetchFails(s) PROVE TypeOK'
  <2>1. Done(s) /\ UNCHANGED <<panel, now, dim>>
    BY <1>7 DEF FetchNothing, FetchFails
  <2> QED BY <2>1, DoneTypes DEF TypeOK
<1>8. ASSUME NEW s \in Syncers, Insert(s) \/ InsertFails(s) PROVE TypeOK'
  <2>1. Done(s) /\ UNCHANGED <<panel, now>> /\ dim' \in {dim, Stored(s)}
    BY <1>8 DEF Insert, InsertFails
  <2>2. dim' \in [Devices -> 0 .. now]
    BY <2>1, StoredType DEF TypeOK
  <2> QED BY <2>1, <2>2, DoneTypes DEF TypeOK
<1>9. CASE UNCHANGED vars
  BY <1>9 DEF vars, TypeOK
<1> QED BY <1>1, <1>2, <1>3, <1>4, <1>5, <1>6, <1>7, <1>8, <1>9 DEF Next

\* The page that is read puts every device between the offsets into got.
LEMMA PageCollects ==
    ASSUME TypeOK, NEW s \in Syncers, Paging(s), phase[s] = "fetch", ~shrunk[s],
           NEW i \in DOMAIN bound, i <= Start(s), bound[i] \in kept[s]
    PROVE  bound[i] \in got[s] \cup ToSet(Batch(s))
<1>1. PICK b \in Nat : b = start[s] /\ DOMAIN bound = 1 .. Len(bound)
  BY LenProperties DEF TypeOK
<1>2. CASE i <= b
  BY <1>1, <1>2 DEF Paging
<1>3. CASE i > b
  <2>1. i \in b + 1 .. Start(s)
    BY <1>1, <1>3, BatchIs DEF Start
  <2> QED BY <1>1, <2>1, BatchIs
<1> QED BY <1>1, <1>2, <1>3, BatchIs

LEMMA PagingNext ==
    ASSUME TypeOK, [Next]_vars, NEW q \in Syncers, Paging(q)
    PROVE  Paging(q)'
<1> USE DEF Active, panel, refresh, history
<1>1. CASE Bind
  <2>1. PICK d \in Devices \ ToSet(bound), i \in 1 .. Len(bound) + 1 :
          /\ bound' = InsertAt(bound, i, d)
          /\ seen' = [s \in Syncers |-> IF Active(s) THEN seen[s] \cup {d} ELSE seen[s]]
    BY <1>1 DEF Bind
  <2>2. /\ ToSet(bound') = ToSet(bound) \cup {d}
        /\ \A j \in DOMAIN bound' : bound'[j] = d \/
                \E k \in DOMAIN bound : k <= j /\ bound'[j] = bound[k]
        /\ DOMAIN bound = 1 .. Len(bound) /\ DOMAIN bound' = 1 .. Len(bound')
    BY <2>1, BindList, LenProperties DEF TypeOK
  <2>3. UNCHANGED <<now, phase, start, got, syncedAt, kept, shrunk>>
    BY <1>1 DEF Bind
  <2>4. Active(q) => got[q] \subseteq seen'[q] /\ ToSet(bound') \subseteq seen'[q]
                     /\ kept[q] \subseteq ToSet(bound') /\ d \notin kept[q]
    BY <2>1, <2>2 DEF Paging
  <2>5. ASSUME phase[q] = "fetch", ~shrunk[q], NEW j \in DOMAIN bound',
               j <= start[q], bound'[j] \in kept[q]
        PROVE  bound'[j] \in got[q]
    <3>1. bound'[j] # d
      BY <2>4, <2>5
    <3>2. PICK k \in DOMAIN bound : k <= j /\ bound'[j] = bound[k]
      BY <2>2, <3>1
    <3>3. k <= start[q]
      BY <2>2, <2>5, <3>2 DEF TypeOK
    <3> QED BY <2>5, <3>2, <3>3 DEF Paging
  <2> QED BY <2>3, <2>4, <2>5 DEF Paging
<1>2. CASE Unbind
  <2>1. PICK i \in DOMAIN bound :
          /\ bound' = RemoveAt(bound, i)
          /\ kept' = [s \in Syncers |-> kept[s] \ {bound[i]}]
    BY <1>2 DEF Unbind
  <2>2. ToSet(bound) \ {bound[i]} \subseteq ToSet(bound') /\ ToSet(bound') \subseteq ToSet(bound)
    BY <2>1, UnbindList
  <2>3. shrunk'[q] = Active(q) /\ kept'[q] = kept[q] \ {bound[i]}
    BY <1>2, <2>1 DEF Unbind
  <2>4. UNCHANGED <<now, phase, start, got, syncedAt, seen>>
    BY <1>2 DEF Unbind
  <2> QED BY <2>2, <2>3, <2>4 DEF Paging
<1>3. CASE Expire \/ UNCHANGED vars
  BY <1>3 DEF Expire, Paging, vars
<1>4. ASSUME NEW s \in Syncers, StartRefresh(s) PROVE Paging(q)'
  <2>1. CASE s = q
    <3>1. /\ phase'[q] = "fetch" /\ kept'[q] = ToSet(bound) /\ seen'[q] = ToSet(bound)
          /\ UNCHANGED <<bound, start, got, shrunk>>
      BY <1>4, <2>1 DEF StartRefresh, TypeOK
    <3>2. got[q] = {} /\ start[q] = 0
      BY <1>4, <2>1 DEF StartRefresh, Paging
    <3>3. \A i \in DOMAIN bound : ~(i <= 0)
      BY LenProperties DEF TypeOK
    <3> QED BY <3>1, <3>2, <3>3 DEF Paging
  <2>2. CASE s # q
    BY <1>4, <2>2 DEF StartRefresh, TypeOK, Paging
  <2> QED BY <2>1, <2>2
<1>5. ASSUME NEW s \in Syncers, FetchPage(s) PROVE Paging(q)'
  <2>1. CASE s = q
    <3>1. /\ phase'[q] = "fetch" /\ start'[q] = Start(q)
          /\ got'[q] = got[q] \cup ToSet(Batch(q))
          /\ UNCHANGED <<bound, kept, seen, shrunk>> /\ phase[q] = "fetch"
      BY <1>5, <2>1 DEF FetchPage, TypeOK
    <3>2. got'[q] \subseteq seen[q]
      BY <3>1, BatchIs DEF Paging
    <3> QED BY <3>1, <3>2, PageCollects DEF Paging
  <2>2. CASE s # q
    BY <1>5, <2>2 DEF FetchPage, TypeOK, Paging
  <2> QED BY <2>1, <2>2
<1>6. ASSUME NEW s \in Syncers, FetchLastPage(s) PROVE Paging(q)'
  <2>1. PICK t \in {now, now + 1} : now' = t /\ syncedAt' = [syncedAt EXCEPT ![s] = t]
    BY <1>6 DEF FetchLastPage
  <2>2. now' \in Nat /\ now' >= 1 /\ now' >= now
    BY <2>1 DEF TypeOK
  <2>3. CASE s = q
    <3>1. /\ phase'[q] = "insert" /\ syncedAt'[q] = now'
          /\ got'[q] = got[q] \cup ToSet(Batch(q))
          /\ UNCHANGED <<bound, kept, seen, shrunk>> /\ phase[q] = "fetch"
      BY <1>6, <2>1, <2>3 DEF FetchLastPage, TypeOK
    <3>2. got'[q] \subseteq seen[q]
      BY <3>1, BatchIs DEF Paging
    <3>3. DOMAIN bound = 1 .. Len(bound) /\ Start(q) >= Len(bound)
      <4>1. DOMAIN bound = 1 .. Len(bound) /\ Len(bound) \in Nat /\ start[q] \in Nat
        BY LenProperties DEF TypeOK
      <4>2. Len(Batch(q)) = 0 \/ Start(q) >= Len(bound)
        BY <1>6, <2>3 DEF FetchLastPage, ReadsLastPage
      <4>3. CASE Len(Batch(q)) = 0
        <5>1. ~(start[q] < Len(bound))
          BY <4>3, BatchIs
        <5>2. Start(q) = start[q]
          BY <4>1, <4>3 DEF Start
        <5> QED BY <4>1, <5>1, <5>2
      <4> QED BY <4>1, <4>2, <4>3
    <3>4. ASSUME ~shrunk[q] PROVE kept[q] \subseteq got'[q]
      <4>1. ASSUME NEW d \in kept[q] PROVE d \in got'[q]
        <5>1. PICK i \in DOMAIN bound : d = bound[i]
          BY <3>1 DEF Paging, ToSet
        <5>2. i <= Start(q)
          BY <3>3, BatchIs DEF Start
        <5> QED BY <3>1, <3>4, <4>1, <5>1, <5>2, PageCollects
      <4> QED BY <4>1
    <3> QED BY <2>2, <3>1, <3>2, <3>4 DEF Paging
  <2>4. CASE s # q
    <3>1. /\ phase'[q] = phase[q] /\ start'[q] = start[q] /\ got'[q] = got[q]
          /\ syncedAt'[q] = syncedAt[q] /\ UNCHANGED <<bound, kept, seen, shrunk>>
      BY <1>6, <2>1, <2>4 DEF FetchLastPage, TypeOK
    <3>2. 1 .. now \subseteq 1 .. now'
      BY <2>2 DEF TypeOK
    <3> QED BY <3>1, <3>2 DEF Paging
  <2> QED BY <2>3, <2>4
<1>7. ASSUME NEW s \in Syncers, FetchNothing(s) \/ FetchFails(s) \/ Insert(s) \/ InsertFails(s)
      PROVE  Paging(q)'
  <2>1. Done(s) /\ UNCHANGED <<panel, now>>
    BY <1>7 DEF FetchNothing, FetchFails, Insert, InsertFails
  <2> QED BY <2>1 DEF Done, TypeOK, Paging
<1> QED BY <1>1, <1>2, <1>3, <1>4, <1>5, <1>6, <1>7 DEF Next

-----------------------------------------------------------------------------

LEMMA Invariance == Spec => []Inv
<1>1. Inv /\ [Next]_vars => Inv'
  BY TypesNext, PagingNext DEF Inv
<1> QED BY <1>1, InvInit, PTL DEF Spec

\* Every variable keeps its type: no refresh asks for a page past the limit.
THEOREM TypeCorrect == Spec => []TypeOK
<1>1. Inv => TypeOK
  BY DEF Inv
<1> QED BY <1>1, Invariance, PTL

\* Only the end of an insert takes a replica from inserting to waiting.
LEMMA InsertEnds ==
    ASSUME TypeOK, [Next]_vars, NEW s \in Syncers, phase[s] = "insert", phase'[s] = "idle"
    PROVE  dim' \in {dim, Stored(s)}
<1>1. ASSUME NEW q \in Syncers, q # s,
             FetchPage(q) \/ StartRefresh(q) \/ FetchLastPage(q) \/ FetchNothing(q)
                \/ FetchFails(q) \/ Insert(q) \/ InsertFails(q)
      PROVE  FALSE
  BY <1>1 DEF FetchPage, StartRefresh, FetchLastPage, FetchNothing, FetchFails, Insert,
              InsertFails, Done, TypeOK
<1>2. CASE Bind \/ Unbind \/ Expire \/ UNCHANGED vars
  BY <1>2 DEF Bind, Unbind, Expire, vars, refresh
<1>3. CASE Insert(s) \/ InsertFails(s)
  BY <1>3 DEF Insert, InsertFails
<1>4. CASE FetchPage(s) \/ StartRefresh(s) \/ FetchLastPage(s) \/ FetchNothing(s) \/ FetchFails(s)
  BY <1>4 DEF FetchPage, StartRefresh, FetchLastPage, FetchNothing, FetchFails, Active
<1> QED BY <1>1, <1>2, <1>3, <1>4 DEF Next

\* hwid.go:55-58: when the newest refresh is stored, the view shows only devices
\* that were bound at some moment of it and, unless one was unbound meanwhile,
\* every device that was bound all along; for any page size and any list.
THEOREM RefreshesShowTheList == Spec => RefreshShowsTheList
<1> DEFINE Shows ==
      \A s \in Syncers :
        phase[s] = "insert" /\ dim' # dim /\ phase'[s] = "idle"
            /\ (\A d \in Devices : dim[d] < syncedAt[s])
        => /\ View' \subseteq seen[s]
           /\ ~shrunk[s] => kept[s] \subseteq View'
<1>1. Inv /\ [Next]_vars => [Shows]_vars
  <2> SUFFICES ASSUME Inv, [Next]_vars, NEW s \in Syncers,
                      phase[s] = "insert", dim' # dim, phase'[s] = "idle",
                      \A d \in Devices : dim[d] < syncedAt[s]
               PROVE  /\ View' \subseteq seen[s]
                      /\ ~shrunk[s] => kept[s] \subseteq View'
    OBVIOUS
  <2>1. TypeOK /\ Paging(s)
    BY DEF Inv
  <2>2. dim' = Stored(s)
    BY <2>1, InsertEnds
  <2>3. /\ got[s] \subseteq Devices /\ kept[s] \subseteq Devices
        /\ syncedAt[s] \in Nat /\ syncedAt[s] # 0
        /\ \A d \in Devices : dim[d] \in Nat
    BY <2>1 DEF TypeOK, Paging
  <2>4. \A d \in Devices : dim'[d] = IF d \in got[s] THEN syncedAt[s] ELSE dim[d]
    BY <2>2, <2>3 DEF Stored
  <2>5. PICK e \in Devices : e \in got[s]
    <3>1. CASE \A d \in Devices : d \notin got[s]
      <4>1. Stored(s) = [d \in Devices |-> dim[d]]
        BY <3>1 DEF Stored
      <4>2. dim = [d \in Devices |-> dim[d]]
        BY <2>1 DEF TypeOK
      <4> QED BY <2>2, <4>1, <4>2
    <3> QED BY <3>1
  <2>6. View' = {d \in Devices : dim'[d] # 0 /\ \A c \in Devices : dim'[c] <= dim'[d]}
    BY DEF View
  <2>7. ASSUME NEW d \in View' PROVE d \in got[s]
    BY <2>3, <2>4, <2>5, <2>6, <2>7
  <2>8. ASSUME NEW d \in got[s] PROVE d \in View'
    BY <2>3, <2>4, <2>6, <2>8
  <2>9. got[s] \subseteq seen[s] /\ (~shrunk[s] => kept[s] \subseteq got[s])
    BY <2>1 DEF Paging, Active
  <2> QED BY <2>7, <2>8, <2>9
<1> QED BY <1>1, Invariance, PTL DEF Spec, RefreshShowsTheList

\* hwid.go:67-74: a list that was stamped before rows the table already holds
\* changes nothing that is shown, whether its insert reports an error or not.
THEOREM LateListsAreHidden == Spec => LateListIsHidden
<1> DEFINE Hidden ==
      \A s \in Syncers :
        phase[s] = "insert" /\ phase'[s] = "idle" /\ (\E d \in Devices : dim[d] > syncedAt[s])
        => View' = View
<1>1. Inv /\ [Next]_vars => [Hidden]_vars
  <2> SUFFICES ASSUME Inv, [Next]_vars, NEW s \in Syncers,
                      phase[s] = "insert", phase'[s] = "idle",
                      NEW w \in Devices, dim[w] > syncedAt[s]
               PROVE  View' = View
    OBVIOUS
  <2>1. TypeOK
    BY DEF Inv
  <2>2. dim' \in {dim, Stored(s)}
    BY <2>1, InsertEnds
  <2>3. View' = {d \in Devices : dim'[d] # 0 /\ \A c \in Devices : dim'[c] <= dim'[d]}
    BY DEF View
  <2>4. CASE dim' = dim
    BY <2>3, <2>4 DEF View
  <2>5. CASE dim' = Stored(s)
    <3>1. /\ syncedAt[s] \in Nat
          /\ \A d \in Devices : dim[d] \in Nat
          /\ \A d \in Devices : dim'[d] = dim[d] \/ (dim'[d] = syncedAt[s] /\ dim[d] < syncedAt[s])
      BY <2>1, <2>5 DEF TypeOK, Stored
    <3>2. dim'[w] = dim[w]
      BY <3>1
    <3>3. ASSUME NEW d \in View PROVE d \in View'
      <4>1. d \in Devices /\ dim[d] >= dim[w] /\ dim'[d] = dim[d]
        BY <3>1, <3>3 DEF View
      <4> QED BY <2>3, <3>1, <3>3, <4>1 DEF View
    <3>4. ASSUME NEW d \in View' PROVE d \in View
      <4>1. d \in Devices /\ dim'[d] >= dim[w] /\ dim'[d] = dim[d]
        BY <2>3, <3>1, <3>2, <3>4
      <4> QED BY <2>3, <3>1, <3>4, <4>1 DEF View
    <3> QED BY <3>3, <3>4
  <2> QED BY <2>2, <2>4, <2>5
<1> QED BY <1>1, Invariance, PTL DEF Spec, LateListIsHidden
=============================================================================
