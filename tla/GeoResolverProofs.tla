-------------------------- MODULE GeoResolverProofs --------------------------
(***************************************************************************)
(* Theorems about GeoResolver for any number of lookups and opens: the     *)
(* readers in use are open, none is leaked and none is lost to a failed    *)
(* open.                                                                   *)
(***************************************************************************)
EXTENDS GeoResolver, TLAPS

Opening == watch \in {"openASN", "swap"}
Closing == watch \in {"closeCity", "closeASN"}

\* The readers of kind k that reload has yet to close.
ToClose(k) == IF watch = "closeCity" \/ (watch = "closeASN" /\ k = "asn")
              THEN {replaced[k]} ELSE {}

\* Nothing carries a number that was not handed out, and a closed reader is out
\* of use.
Numbered(k) ==
    /\ current[k] <= opened[k]
    /\ fresh[k] <= opened[k]
    /\ closed[k] \subseteq 1 .. opened[k]
    /\ current[k] \notin closed[k]

\* What reload opened is new until the swap; after it, either it is in use and
\* replaced another reader, or the open failed and nothing changed.
Swapped(k) ==
    /\ watch \in {"wait", "returned"} => fresh[k] = 0
    /\ watch = "openASN" /\ k = "asn" => fresh[k] = 0
    /\ Opening /\ fresh[k] # 0 => fresh[k] \notin closed[k] /\ current[k] < fresh[k]
    /\ Closing /\ fresh[k] # 0 => current[k] = fresh[k] /\ replaced[k] # fresh[k]
    /\ Closing /\ fresh[k] = 0 => replaced[k] = current[k]
    /\ Closing => replaced[k] <= opened[k]

\* Every reader is closed, in use, or in the hands of reload.
Accounted(k) ==
    \A r \in 1 .. opened[k] :
        \/ r \in closed[k]
        \/ r = current[k]
        \/ r = fresh[k]
        \/ r \in ToClose(k)

\* The inductive invariant.
Inv ==
    /\ TypeOK
    /\ finished => watch = "returned"
    /\ \A k \in Kinds : Numbered(k) /\ Swapped(k) /\ Accounted(k)

-----------------------------------------------------------------------------

\* The values of TypeOK for one kind.
LEMMA KindTypes ==
    ASSUME TypeOK, NEW k \in Kinds
    PROVE  /\ opened[k] \in Nat /\ opened[k] <= MaxOpens
           /\ current[k] \in Nat /\ fresh[k] \in Nat /\ replaced[k] \in Nat
           /\ closed[k] \subseteq 1 .. MaxOpens
BY BoundsAssumption DEF TypeOK, Readers

LEMMA InvInit == Init => Inv
<1> SUFFICES ASSUME Init PROVE Inv
  OBVIOUS
<1>1. opened \in [Kinds -> Readers] /\ \A k \in Kinds : opened[k] \in Nat /\ opened[k] <= 1
  BY BoundsAssumption DEF Init, Readers
<1>2. TypeOK
  <2>1. Nil \in [Kinds -> Readers]
    BY BoundsAssumption DEF Nil, Readers
  <2>2. held \in [Lookups -> [Kinds -> Readers]]
    BY <2>1 DEF Init
  <2>3. closed \in [Kinds -> SUBSET (1 .. MaxOpens)]
    BY DEF Init
  <2>4. watch \in WatchPlaces /\ place \in [Lookups -> LookupPlaces]
    BY DEF Init, WatchPlaces, LookupPlaces
  <2> QED BY <1>1, <2>1, <2>2, <2>3, <2>4 DEF Init, TypeOK
<1>3. ASSUME NEW k \in Kinds PROVE Numbered(k) /\ Swapped(k) /\ Accounted(k)
  <2>1. opened[k] \in Nat /\ opened[k] <= 1 /\ current[k] = opened[k] /\ closed[k] = {} /\ fresh[k] = 0
    BY <1>1 DEF Init, Nil
  <2>2. watch \in {"wait", "returned"}
    BY DEF Init
  <2>3. \A r \in 1 .. opened[k] : r = current[k]
    BY <2>1
  <2> QED BY <2>1, <2>2, <2>3 DEF Numbered, Swapped, Accounted, Opening, Closing
<1> QED BY <1>2, <1>3 DEF Init, Inv

\* OpenDB of one kind: the reader it returns is nil or a number nobody has.
LEMMA OpenDBEffect ==
    ASSUME TypeOK, NEW k \in Kinds, OpenDB(k)
    PROVE  /\ opened' \in [Kinds -> Readers] /\ fresh' \in [Kinds -> Readers]
           /\ \A j \in Kinds \ {k} : opened'[j] = opened[j] /\ fresh'[j] = fresh[j]
           /\ \/ fresh'[k] = 0 /\ opened'[k] = opened[k]
              \/ fresh'[k] = opened[k] + 1 /\ opened'[k] = opened[k] + 1
<1>1. opened \in [Kinds -> Readers] /\ fresh \in [Kinds -> Readers] /\ 0 \in Readers
  BY BoundsAssumption DEF TypeOK, Readers
<1>2. CASE opened' = [opened EXCEPT ![k] = @ + 1] /\ fresh' = [fresh EXCEPT ![k] = opened'[k]]
           /\ opened[k] < MaxOpens
  <2>1. opened[k] + 1 \in Readers
    BY <1>1, <1>2, BoundsAssumption DEF Readers
  <2> QED BY <1>1, <1>2, <2>1
<1>3. CASE fresh' = [fresh EXCEPT ![k] = 0] /\ opened' = opened
  BY <1>1, <1>3
<1> QED BY <1>2, <1>3 DEF OpenDB

\* CloseReplaced of one kind.
LEMMA CloseReplacedEffect ==
    ASSUME TypeOK, NEW k \in Kinds, CloseReplaced(k)
    PROVE  /\ closed' \in [Kinds -> SUBSET (1 .. MaxOpens)]
           /\ \A j \in Kinds \ {k} : closed'[j] = closed[j]
           /\ fresh[k] # 0 /\ replaced[k] # 0 => closed'[k] = closed[k] \cup {replaced[k]}
           /\ fresh[k] = 0 \/ replaced[k] = 0 => closed'[k] = closed[k]
<1>1. closed \in [Kinds -> SUBSET (1 .. MaxOpens)] /\ replaced[k] \in 0 .. MaxOpens
  BY DEF TypeOK, Readers
<1>2. replaced[k] # 0 => replaced[k] \in 1 .. MaxOpens
  BY <1>1, BoundsAssumption
<1> QED BY <1>1, <1>2 DEF CloseReplaced

\* A reload's open keeps the invariant of a kind it does not open.
LEMMA OtherKindKept ==
    ASSUME Inv, NEW k \in Kinds,
           opened'[k] = opened[k], fresh'[k] = fresh[k], current'[k] = current[k],
           closed'[k] = closed[k], replaced'[k] = replaced[k],
           \/ watch = "wait" /\ watch' = "openASN"
           \/ watch = "openASN" /\ watch' = "swap"
           \/ watch = "wait" /\ watch' = "returned"
           \/ watch = "closeCity" /\ watch' = "closeASN" /\ k = "asn"
    PROVE  (Numbered(k) /\ Swapped(k) /\ Accounted(k))'
BY DEF Inv, Numbered, Swapped, Accounted, Opening, Closing, ToClose

\* A reload's open keeps the invariant of the kind it opens.
LEMMA OpenedKindKept ==
    ASSUME Inv, NEW k \in Kinds, OpenDB(k), fresh[k] = 0, fresh'[k] \in Nat,
           current'[k] = current[k], closed'[k] = closed[k],
           \/ watch = "wait" /\ watch' = "openASN" /\ k = "city"
           \/ watch = "openASN" /\ watch' = "swap"
    PROVE  (Numbered(k) /\ Swapped(k) /\ Accounted(k))'
<1>1. \/ fresh'[k] = 0 /\ opened'[k] = opened[k]
      \/ fresh'[k] = opened[k] + 1 /\ opened'[k] = opened[k] + 1
  BY OpenDBEffect DEF Inv
<1>2. /\ opened[k] \in Nat /\ current[k] \in Nat /\ closed[k] \subseteq 1 .. opened[k]
      /\ current[k] <= opened[k] /\ current[k] \notin closed[k]
  BY KindTypes DEF Inv, Numbered
<1>3. Numbered(k)'
  BY <1>1, <1>2 DEF Numbered
<1>4. Swapped(k)'
  BY <1>1, <1>2 DEF Swapped, Opening, Closing
<1>5. Accounted(k)'
  <2>1. \A r \in 1 .. opened[k] : r \in closed[k] \/ r = current[k]
    <3>1. ToClose(k) = {}
      BY DEF ToClose
    <3> QED BY <3>1, <1>2 DEF Inv, Accounted
  <2>2. \A r \in 1 .. opened'[k] : r \in 1 .. opened[k] \/ r = fresh'[k]
    BY <1>1, <1>2
  <2> QED BY <2>1, <2>2 DEF Accounted
<1> QED BY <1>3, <1>4, <1>5

\* Closing the replaced reader of a kind, which ends its part of the reload.
LEMMA ClosedKindKept ==
    ASSUME Inv, NEW k \in Kinds, CloseReplaced(k),
           opened'[k] = opened[k], current'[k] = current[k], replaced'[k] = replaced[k] \/ watch' = "wait",
           \/ watch = "closeCity" /\ watch' = "closeASN" /\ k = "city" /\ fresh'[k] = fresh[k]
           \/ watch = "closeASN" /\ watch' = "wait" /\ fresh'[k] = 0 /\ k = "asn"
    PROVE  (Numbered(k) /\ Swapped(k) /\ Accounted(k))'
<1>1. /\ fresh[k] # 0 /\ replaced[k] # 0 => closed'[k] = closed[k] \cup {replaced[k]}
      /\ fresh[k] = 0 \/ replaced[k] = 0 => closed'[k] = closed[k]
  BY CloseReplacedEffect DEF Inv
<1>2. /\ opened[k] \in Nat /\ current[k] \in Nat /\ fresh[k] \in Nat /\ replaced[k] \in Nat
      /\ closed[k] \subseteq 1 .. opened[k]
      /\ current[k] <= opened[k] /\ current[k] \notin closed[k] /\ fresh[k] <= opened[k]
  BY KindTypes DEF Inv, Numbered
<1>3. /\ fresh[k] # 0 => current[k] = fresh[k] /\ replaced[k] # fresh[k] /\ replaced[k] <= opened[k]
      /\ fresh[k] = 0 => replaced[k] = current[k]
  BY <1>2 DEF Inv, Swapped, Closing
<1>4. Numbered(k)'
  BY <1>1, <1>2, <1>3 DEF Numbered
<1>5. Swapped(k)'
  BY <1>2, <1>3 DEF Swapped, Opening, Closing
<1>6. Accounted(k)'
  <2>1. \A r \in 1 .. opened[k] : r \in closed[k] \/ r = current[k] \/ r = fresh[k] \/ r = replaced[k]
    BY DEF Inv, Accounted, ToClose
  <2>2. \A r \in 1 .. opened[k] : r = replaced[k] => r \in closed'[k] \/ r = current[k]
    BY <1>1, <1>2, <1>3
  <2>3. \A r \in 1 .. opened[k] : r = fresh[k] => r = current[k]
    BY <1>2, <1>3
  <2>4. closed[k] \subseteq closed'[k]
    BY <1>1
  <2> QED BY <2>1, <2>2, <2>3, <2>4 DEF Accounted
<1> QED BY <1>4, <1>5, <1>6

\* Steps of Watch and reload.
LEMMA WatchKeepsInv == ASSUME Inv, Watch PROVE Inv'
<1> USE DEF Kinds
<1>0. TypeOK
  BY DEF Inv
<1>1. CASE OpenCity
  <2>0. OpenDB("city")
    BY <1>1 DEF OpenCity
  <2>1. TypeOK'
    BY <1>0, <1>1, <2>0, OpenDBEffect DEF TypeOK, OpenCity, lookups, WatchPlaces
  <2>2. (Numbered("city") /\ Swapped("city") /\ Accounted("city"))'
    <3>1. fresh["city"] = 0
      BY <1>1 DEF OpenCity, Inv, Swapped
    <3>2. fresh'["city"] \in Nat
      BY <2>1, BoundsAssumption DEF TypeOK, Readers
    <3> QED BY <1>1, <2>0, <3>1, <3>2, OpenedKindKept DEF OpenCity
  <2>3. (Numbered("asn") /\ Swapped("asn") /\ Accounted("asn"))'
    <3>1. opened'["asn"] = opened["asn"] /\ fresh'["asn"] = fresh["asn"]
      BY <1>0, <2>0, OpenDBEffect
    <3> QED BY <1>1, <3>1, OtherKindKept DEF OpenCity
  <2> QED BY <1>1, <2>1, <2>2, <2>3 DEF Inv, OpenCity
<1>2. CASE OpenASN
  <2>0. OpenDB("asn")
    BY <1>2 DEF OpenASN
  <2>1. TypeOK'
    BY <1>0, <1>2, <2>0, OpenDBEffect DEF TypeOK, OpenASN, lookups, WatchPlaces
  <2>2. (Numbered("asn") /\ Swapped("asn") /\ Accounted("asn"))'
    <3>1. fresh["asn"] = 0
      BY <1>2 DEF OpenASN, Inv, Swapped
    <3>2. fresh'["asn"] \in Nat
      BY <2>1, BoundsAssumption DEF TypeOK, Readers
    <3> QED BY <1>2, <2>0, <3>1, <3>2, OpenedKindKept DEF OpenASN
  <2>3. (Numbered("city") /\ Swapped("city") /\ Accounted("city"))'
    <3>1. opened'["city"] = opened["city"] /\ fresh'["city"] = fresh["city"]
      BY <1>0, <2>0, OpenDBEffect
    <3> QED BY <1>2, <3>1, OtherKindKept DEF OpenASN
  <2> QED BY <1>2, <2>1, <2>2, <2>3 DEF Inv, OpenASN
<1>3. CASE Swap
  <2>1. TypeOK'
    BY <1>0, <1>3 DEF TypeOK, Swap, lookups, WatchPlaces
  <2>2. ASSUME NEW k \in Kinds PROVE (Numbered(k) /\ Swapped(k) /\ Accounted(k))'
    <3>1. /\ opened'[k] = opened[k] /\ closed'[k] = closed[k] /\ fresh'[k] = fresh[k]
          /\ replaced'[k] = current[k]
          /\ current'[k] = IF fresh[k] # 0 THEN fresh[k] ELSE current[k]
          /\ watch = "swap" /\ watch' = "closeCity"
      BY <1>3 DEF Swap
    <3>2. /\ opened[k] \in Nat /\ current[k] \in Nat /\ fresh[k] \in Nat
          /\ closed[k] \subseteq 1 .. opened[k]
          /\ current[k] <= opened[k] /\ current[k] \notin closed[k] /\ fresh[k] <= opened[k]
      BY <1>0, KindTypes DEF Inv, Numbered
    <3>3. fresh[k] # 0 => fresh[k] \notin closed[k] /\ current[k] < fresh[k]
      BY <3>1 DEF Inv, Swapped, Opening
    <3>4. \A r \in 1 .. opened[k] : r \in closed[k] \/ r = current[k] \/ r = fresh[k]
      BY <3>1 DEF Inv, Accounted, ToClose
    <3>5. Numbered(k)'
      BY <3>1, <3>2, <3>3 DEF Numbered
    <3>6. Swapped(k)'
      BY <3>1, <3>2, <3>3 DEF Swapped, Opening, Closing
    <3>7. Accounted(k)'
      BY <3>1, <3>4 DEF Accounted, ToClose
    <3> QED BY <3>5, <3>6, <3>7
  <2> QED BY <1>3, <2>1, <2>2 DEF Inv, Swap
<1>4. CASE CloseCity
  <2>0. CloseReplaced("city")
    BY <1>4 DEF CloseCity
  <2>1. TypeOK'
    BY <1>0, <1>4, <2>0, CloseReplacedEffect DEF TypeOK, CloseCity, lookups, WatchPlaces
  <2>2. (Numbered("city") /\ Swapped("city") /\ Accounted("city"))'
    BY <1>4, <2>0, ClosedKindKept DEF CloseCity
  <2>3. (Numbered("asn") /\ Swapped("asn") /\ Accounted("asn"))'
    <3>1. closed'["asn"] = closed["asn"]
      BY <1>0, <2>0, CloseReplacedEffect
    <3> QED BY <1>4, <3>1, OtherKindKept DEF CloseCity
  <2> QED BY <1>4, <2>1, <2>2, <2>3 DEF Inv, CloseCity
<1>5. CASE CloseASN
  <2>0. CloseReplaced("asn") /\ \A k \in Kinds : fresh'[k] = 0
    BY <1>5 DEF CloseASN, Nil
  <2>1. TypeOK'
    <3>1. Nil \in [Kinds -> Readers]
      BY BoundsAssumption DEF Nil, Readers
    <3> QED BY <1>0, <1>5, <2>0, <3>1, CloseReplacedEffect
            DEF TypeOK, CloseASN, lookups, WatchPlaces
  <2>2. (Numbered("asn") /\ Swapped("asn") /\ Accounted("asn"))'
    BY <1>5, <2>0, ClosedKindKept DEF CloseASN
  <2>3. (Numbered("city") /\ Swapped("city") /\ Accounted("city"))'
    <3>1. /\ closed'["city"] = closed["city"] /\ opened'["city"] = opened["city"]
          /\ current'["city"] = current["city"] /\ fresh'["city"] = 0
          /\ watch = "closeASN" /\ watch' = "wait"
      BY <1>0, <1>5, <2>0, CloseReplacedEffect DEF CloseASN
    <3>2. opened["city"] \in Nat /\ 0 <= opened["city"]
      BY <1>0, KindTypes
    <3>3. Numbered("city")'
      BY <3>1, <3>2 DEF Inv, Numbered
    <3>4. Swapped("city")'
      BY <3>1 DEF Swapped, Opening, Closing
    <3>5. Accounted("city")'
      <4>1. \A r \in 1 .. opened["city"] : r \in closed["city"] \/ r = current["city"] \/ r = fresh["city"]
        BY <3>1 DEF Inv, Accounted, ToClose
      <4>2. fresh["city"] # 0 => fresh["city"] = current["city"]
        BY <3>1 DEF Inv, Swapped, Closing
      <4>3. \A r \in 1 .. opened["city"] : r # 0
        BY <3>2
      <4> QED BY <3>1, <4>1, <4>2, <4>3 DEF Accounted
    <3> QED BY <3>3, <3>4, <3>5
  <2> QED BY <1>5, <2>1, <2>2, <2>3 DEF Inv, CloseASN
<1>6. CASE WatchReturns
  <2>1. TypeOK'
    BY <1>0, <1>6 DEF TypeOK, WatchReturns, lookups, WatchPlaces
  <2>2. ASSUME NEW k \in Kinds PROVE (Numbered(k) /\ Swapped(k) /\ Accounted(k))'
    BY <1>6, OtherKindKept DEF WatchReturns
  <2> QED BY <1>6, <2>1, <2>2 DEF Inv, WatchReturns
<1> QED BY <1>1, <1>2, <1>3, <1>4, <1>5, <1>6 DEF Watch

\* Lookups leave the readers alone.
LEMMA LookupKeepsInv == ASSUME Inv, NEW l \in Lookups, Lookup(l) PROVE Inv'
<1>1. UNCHANGED <<opened, closed, current, reload, ctxDone, finished>>
  BY DEF Lookup, Begin, EnterCity, LeaveCity, EnterASN, LeaveASN, Step
<1>2. place' \in [Lookups -> LookupPlaces]
  BY DEF Inv, TypeOK, Lookup, Begin, EnterCity, LeaveCity, EnterASN, LeaveASN, Step, At, LookupPlaces
<1>3. held' \in [Lookups -> [Kinds -> Readers]]
  <2>1. Nil \in [Kinds -> Readers] /\ current \in [Kinds -> Readers]
        /\ held \in [Lookups -> [Kinds -> Readers]]
    BY BoundsAssumption DEF Nil, Readers, Inv, TypeOK
  <2>2. \/ held' = held
        \/ held' = [held EXCEPT ![l] = current]
        \/ held' = [held EXCEPT ![l] = Nil]
    BY DEF Lookup, Begin, EnterCity, LeaveCity, EnterASN, LeaveASN
  <2> QED BY <2>1, <2>2
<1>4. TypeOK'
  BY <1>1, <1>2, <1>3 DEF Inv, TypeOK, reload
<1> QED BY <1>1, <1>4 DEF Inv, reload, Numbered, Swapped, Accounted, Opening, Closing, ToClose

\* Resolver.Close.
LEMMA CloseKeepsInv == ASSUME Inv, Close PROVE Inv'
<1>0. TypeOK /\ watch = "returned"
  BY DEF Inv, Close
<1>1. TypeOK'
  <2>1. closed' \in [Kinds -> SUBSET (1 .. MaxOpens)]
    <3>1. \A k \in Kinds : current[k] # 0 => current[k] \in 1 .. MaxOpens
      BY <1>0, BoundsAssumption DEF TypeOK, Readers
    <3> QED BY <1>0, <3>1 DEF Close, TypeOK
  <2>2. current' \in [Kinds -> Readers]
    BY BoundsAssumption DEF Close, Nil, Readers
  <2> QED BY <1>0, <2>1, <2>2 DEF Close, TypeOK, reload, lookups
<1>2. ASSUME NEW k \in Kinds PROVE (Numbered(k) /\ Swapped(k) /\ Accounted(k))'
  <2>1. /\ opened'[k] = opened[k] /\ current'[k] = 0 /\ fresh'[k] = fresh[k]
        /\ closed'[k] = IF current[k] # 0 THEN closed[k] \cup {current[k]} ELSE closed[k]
        /\ watch' = "returned" /\ fresh[k] = 0
    BY <1>0 DEF Close, Nil, reload, Inv, Swapped
  <2>2. /\ opened[k] \in Nat /\ current[k] \in Nat /\ current[k] <= opened[k]
        /\ closed[k] \subseteq 1 .. opened[k]
    BY <1>0, KindTypes DEF Inv, Numbered
  <2>3. \A r \in 1 .. opened[k] : r \in closed[k] \/ r = current[k]
    BY <1>0, <2>1, <2>2 DEF Inv, Accounted, ToClose
  <2>4. Numbered(k)'
    BY <2>1, <2>2 DEF Numbered
  <2>5. Swapped(k)'
    BY <2>1 DEF Swapped, Opening, Closing
  <2>6. Accounted(k)'
    BY <2>1, <2>2, <2>3 DEF Accounted
  <2> QED BY <2>4, <2>5, <2>6
<1> QED BY <1>0, <1>1, <1>2 DEF Inv, Close, reload

LEMMA CancelKeepsInv == ASSUME Inv, Cancel PROVE Inv'
BY DEF Inv, TypeOK, Cancel, reload, lookups, Numbered, Swapped, Accounted, Opening, Closing, ToClose

LEMMA StutterKeepsInv == ASSUME Inv, UNCHANGED vars PROVE Inv'
BY DEF Inv, TypeOK, vars, reload, lookups, Numbered, Swapped, Accounted, Opening, Closing, ToClose

\* The invariant holds of every behaviour.
THEOREM Invariance == Spec => []Inv
<1>1. Init => Inv
  BY InvInit
<1>2. Inv /\ [Next]_vars => Inv'
  BY WatchKeepsInv, LookupKeepsInv, CloseKeepsInv, CancelKeepsInv, StutterKeepsInv DEF Next
<1> QED BY <1>1, <1>2, PTL DEF Spec

-----------------------------------------------------------------------------

\* Every variable keeps its type.
THEOREM TypeCorrect == Spec => []TypeOK
<1>1. Inv => TypeOK
  BY DEF Inv
<1> QED BY <1>1, Invariance, PTL

\* The readers in use are open: rotation never closes the one it keeps.
THEOREM CurrentStaysOpen == Spec => []CurrentIsOpen
<1>1. Inv => CurrentIsOpen
  BY DEF Inv, Numbered, CurrentIsOpen
<1> QED BY <1>1, Invariance, PTL

\* Between reloads and after shutdown every reader out of use has been closed.
THEOREM NothingLeaks == Spec => []NoReaderLeaked
<1>1. Inv => NoReaderLeaked
  <2> SUFFICES ASSUME Inv, watch \in {"wait", "returned"},
                      NEW k \in Kinds, NEW r \in 1 .. opened[k], r # current[k]
               PROVE  r \in closed[k]
    BY DEF NoReaderLeaked
  <2>1. opened[k] \in Nat /\ fresh[k] = 0 /\ ToClose(k) = {}
    BY KindTypes DEF Inv, Swapped, ToClose
  <2> QED BY <2>1 DEF Inv, Accounted
<1> QED BY <1>1, Invariance, PTL

\* Until shutdown a reader in use is only ever replaced by another reader.
THEOREM FailedOpensAreHarmless == Spec => NeverDegrades
<1> DEFINE Keeps == \A k \in Kinds : current[k] # 0 /\ ~finished' => current'[k] # 0
<1>1. Inv /\ [Next]_vars => [Keeps]_vars
  <2> SUFFICES ASSUME Inv, Next, NEW k \in Kinds, current[k] # 0, ~finished'
               PROVE  current'[k] # 0
    OBVIOUS
  <2>1. CASE Swap
    BY <2>1 DEF Swap
  <2>2. CASE Watch /\ ~Swap
    BY <2>2 DEF Watch, OpenCity, OpenASN, CloseCity, CloseASN, WatchReturns
  <2>3. CASE Cancel
    BY <2>3 DEF Cancel
  <2>4. CASE Close
    BY <2>4 DEF Close
  <2>5. ASSUME NEW l \in Lookups, Lookup(l) PROVE current'[k] # 0
    BY <2>5 DEF Lookup, Begin, EnterCity, LeaveCity, EnterASN, LeaveASN, Step
  <2> QED BY <2>1, <2>2, <2>3, <2>4, <2>5 DEF Next
<1> QED BY <1>1, Invariance, PTL DEF Spec, NeverDegrades
===============================================================================
