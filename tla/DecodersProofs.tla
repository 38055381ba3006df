---------------------------- MODULE DecodersProofs ----------------------------
(***************************************************************************)
(* Theorems about the decoders, for any messages, own addresses and        *)
(* readers: the rows an entry gives are those its message stands for, and  *)
(* their labels do not depend on how an address or a client name is        *)
(* spelled.  The module starts with what it needs to know of FlattenSeq,   *)
(* by induction as the absence of a smallest counterexample.               *)
(***************************************************************************)
EXTENDS Decoders, WellFoundedInduction, TLAPS

-----------------------------------------------------------------------------
(* Induction *)

\* A set of numbers that is not empty has a least element.
LEMMA LeastNumber ==
    ASSUME NEW T, T \subseteq Nat, T # {}
    PROVE  \E x \in T : \A y \in T : x <= y
<1> DEFINE Less == OpToRel(<, Nat)
<1>1. IsWellFoundedOn(Less, Nat)
  BY NatLessThanWellFounded
<1> HIDE DEF Less
<1>2. PICK x \in T : \A y \in T : <<y, x>> \notin Less
  BY <1>1, WFMin
<1>3. \A y \in T : <<y, x>> \in Less <=> y < x
  BY DEF Less, OpToRel
<1>4. \A y \in T : ~(y < x)
  BY <1>2, <1>3
<1>5. x \in Nat /\ \A y \in T : y \in Nat /\ (~(y < x) => x <= y)
  OBVIOUS
<1> QED BY <1>4, <1>5

\* A set that holds 0 and with each number the next holds them all.
LEMMA NumbersByInduction ==
    ASSUME NEW Good, 0 \in Good, \A n \in Nat : n \in Good => n + 1 \in Good
    PROVE  Nat \subseteq Good
<1> SUFFICES ASSUME Nat \ Good # {} PROVE FALSE
  OBVIOUS
<1>1. PICK x \in Nat \ Good : \A y \in Nat \ Good : x <= y
  BY LeastNumber
<1>2. x - 1 \in Nat
  BY <1>1
<1> QED BY <1>1, <1>2

-----------------------------------------------------------------------------
(* FlattenSeq *)

\* The i-th entry of the table FlattenSeq builds, from those before it.
Grown(t, ss, i) == IF i = 1 THEN ss[i] ELSE t[i - 1] \o ss[i]
IsGrowth(t, ss, n) == t = [i \in 1 .. n |-> Grown(t, ss, i)]

\* FlattenSeq in terms of its table.
LEMMA FlattenUnfolded ==
    ASSUME NEW ss, Len(ss) # 0
    PROVE  Seqs!FlattenSeq(ss) = (CHOOSE t : IsGrowth(t, ss, Len(ss)))[Len(ss)]
BY DEF Seqs!FlattenSeq, IsGrowth, Grown

\* FlattenSeq is well defined.
LEMMA GrowthExists ==
    ASSUME NEW ss, NEW n \in Nat
    PROVE  \E t : IsGrowth(t, ss, n)
<1> DEFINE Good == {k \in Nat : \E t : IsGrowth(t, ss, k)}
<1>1. 0 \in Good
  <2> DEFINE t == [i \in 1 .. 0 |-> ss[i]]
  <2>1. t = [i \in 1 .. 0 |-> Grown(t, ss, i)]
    OBVIOUS
  <2> QED BY <2>1 DEF IsGrowth
<1>2. ASSUME NEW k \in Nat, k \in Good
      PROVE  k + 1 \in Good
  <2>1. PICK t : t = [i \in 1 .. k |-> Grown(t, ss, i)]
    BY <1>2 DEF IsGrowth
  <2> DEFINE u == [i \in 1 .. k + 1 |-> Grown(t, ss, i)]
  <2>2. \A i \in 1 .. k : u[i] = t[i]
    BY <2>1
  <2>3. \A i \in 1 .. k + 1 : Grown(u, ss, i) = Grown(t, ss, i)
    <3> TAKE i \in 1 .. k + 1
    <3>1. i # 1 => u[i - 1] = t[i - 1]
      BY <2>2
    <3> HIDE DEF u
    <3> QED BY <3>1 DEF Grown
  <2>4. u = [i \in 1 .. k + 1 |-> Grown(u, ss, i)]
    BY <2>3
  <2> HIDE DEF u
  <2> QED BY <2>4 DEF IsGrowth
<1> HIDE DEF Good
<1>3. Nat \subseteq Good
  BY <1>1, <1>2, NumbersByInduction
<1> QED BY <1>3 DEF Good

\* What FlattenSeq returns, as the last of a row of growing sequences.
LEMMA FlattenTable ==
    ASSUME NEW T, NEW ss \in Seq(Seq(T)), ss # <<>>
    PROVE  \E t \in [1 .. Len(ss) -> Seq(T)] :
             /\ t[1] = ss[1]
             /\ \A i \in 2 .. Len(ss) : t[i] = t[i - 1] \o ss[i]
             /\ Seqs!FlattenSeq(ss) = t[Len(ss)]
<1> DEFINE n == Len(ss)
           t == CHOOSE u : IsGrowth(u, ss, n)
<1>1. n \in Nat \ {0}
  OBVIOUS
<1>2. Seqs!FlattenSeq(ss) = t[n]
  BY <1>1, FlattenUnfolded
<1>3. t = [i \in 1 .. n |-> Grown(t, ss, i)]
  <2>1. IsGrowth(t, ss, n)
    BY <1>1, GrowthExists
  <2> QED BY <2>1 DEF IsGrowth
<1> HIDE DEF t
<1>4. \A i \in 1 .. n : t[i] = Grown(t, ss, i)
  BY <1>3
<1>5. t[1] = ss[1] /\ \A i \in 2 .. n : t[i] = t[i - 1] \o ss[i]
  <2>1. t[1] = ss[1]
    BY <1>1, <1>4 DEF Grown
  <2>2. ASSUME NEW i \in 2 .. n
        PROVE  t[i] = t[i - 1] \o ss[i]
    <3>1. i \in 1 .. n /\ i # 1
      BY <1>1
    <3> QED BY <3>1, <1>4 DEF Grown
  <2> QED BY <2>1, <2>2
<1>6. \A i \in 1 .. n : t[i] \in Seq(T)
  <2> DEFINE Good == {k \in Nat : k + 1 \in 1 .. n => t[k + 1] \in Seq(T)}
  <2>1. 0 \in Good
    BY <1>1, <1>5
  <2>2. ASSUME NEW k \in Nat, k \in Good
        PROVE  k + 1 \in Good
    <3> SUFFICES ASSUME k + 2 \in 1 .. n PROVE t[k + 2] \in Seq(T)
      OBVIOUS
    <3>1. t[k + 1] \in Seq(T)
      BY <2>2
    <3>2. t[k + 2] = t[k + 1] \o ss[k + 2]
      <4>1. k + 2 \in 2 .. n /\ (k + 2) - 1 = k + 1
        OBVIOUS
      <4> QED BY <4>1, <1>5
    <3> QED BY <3>1, <3>2
  <2> HIDE DEF Good
  <2>3. Nat \subseteq Good
    BY <2>1, <2>2, NumbersByInduction
  <2> TAKE i \in 1 .. n
  <2>4. i - 1 \in Good
    BY <2>3
  <2> QED BY <2>4 DEF Good
<1> QED BY <1>2, <1>3, <1>5, <1>6

\* Sequences of one length, whose elements are paired one by one.
Alike(s, t, Paired) == Len(s) = Len(t) /\ \A j \in 1 .. Len(s) : <<s[j], t[j]>> \in Paired

\* Sequences of alike sequences flatten to alike sequences.
LEMMA FlattenAlike ==
    ASSUME NEW A, NEW ss \in Seq(Seq(A)),
           NEW B, NEW tt \in Seq(Seq(B)),
           NEW Paired,
           Len(ss) = Len(tt),
           \A i \in 1 .. Len(ss) : Alike(ss[i], tt[i], Paired)
    PROVE  /\ Seqs!FlattenSeq(ss) \in Seq(A)
           /\ Seqs!FlattenSeq(tt) \in Seq(B)
           /\ Alike(Seqs!FlattenSeq(ss), Seqs!FlattenSeq(tt), Paired)
<1> USE DEF Alike
<1>1. CASE ss = <<>>
  <2>1. Len(ss) = 0 /\ Len(tt) = 0 /\ tt = <<>>
    BY <1>1
  <2>2. Seqs!FlattenSeq(ss) = <<>> /\ Seqs!FlattenSeq(tt) = <<>>
    BY <1>1, <2>1 DEF Seqs!FlattenSeq
  <2> QED BY <2>2
<1>2. CASE ss # <<>>
  <2> DEFINE n == Len(ss)
  <2>0. n \in Nat \ {0} /\ tt # <<>>
    BY <1>2
  <2>n. n = Len(tt)
    OBVIOUS
  <2>1. PICK t \in [1 .. n -> Seq(A)] :
             /\ t[1] = ss[1]
             /\ \A i \in 2 .. n : t[i] = t[i - 1] \o ss[i]
             /\ Seqs!FlattenSeq(ss) = t[n]
    BY <1>2, FlattenTable
  <2> HIDE DEF n
  <2>2. PICK u \in [1 .. n -> Seq(B)] :
             /\ u[1] = tt[1]
             /\ \A i \in 2 .. n : u[i] = u[i - 1] \o tt[i]
             /\ Seqs!FlattenSeq(tt) = u[n]
    BY <2>0, <2>n, FlattenTable
  <2> DEFINE Good == {k \in Nat : k + 1 \in 1 .. n => Alike(t[k + 1], u[k + 1], Paired)}
  <2>3. 0 \in Good
    BY <2>0, <2>1, <2>2
  <2>4. ASSUME NEW k \in Nat, k \in Good
        PROVE  k + 1 \in Good
    <3> SUFFICES ASSUME k + 2 \in 1 .. n PROVE Alike(t[k + 2], u[k + 2], Paired)
      OBVIOUS
    <3> DEFINE a == t[k + 1]
               b == u[k + 1]
               x == ss[k + 2]
               y == tt[k + 2]
    <3>0. k + 1 \in 1 .. n /\ k + 2 \in 2 .. n /\ (k + 2) - 1 = k + 1
      BY <2>0
    <3>1. a \in Seq(A) /\ b \in Seq(B) /\ x \in Seq(A) /\ y \in Seq(B)
      <4>1. k + 2 \in 1 .. Len(ss) /\ k + 2 \in 1 .. Len(tt)
        BY <2>n DEF n
      <4>2. x \in Seq(A)
        BY <4>1
      <4>3. y \in Seq(B)
        BY <4>1
      <4> QED BY <3>0, <4>2, <4>3
    <3>2. Len(a) = Len(b) /\ \A i \in 1 .. Len(a) : <<a[i], b[i]>> \in Paired
      BY <2>4, <3>0
    <3>3. Len(x) = Len(y) /\ \A i \in 1 .. Len(x) : <<x[i], y[i]>> \in Paired
      BY <3>0 DEF n
    <3>4. t[k + 2] = a \o x /\ u[k + 2] = b \o y
      BY <2>1, <2>2, <3>0
    <3> HIDE DEF a, b, x, y
    <3>5. Len(a \o x) = Len(a) + Len(x) /\ Len(b \o y) = Len(b) + Len(y) /\ Len(a \o x) = Len(b \o y)
      <4>1. Len(a \o x) = Len(a) + Len(x)
        BY <3>1
      <4>2. Len(b \o y) = Len(b) + Len(y)
        BY <3>1
      <4> QED BY <4>1, <4>2, <3>2, <3>3
    <3>6. \A i \in 1 .. Len(a \o x) : <<(a \o x)[i], (b \o y)[i]>> \in Paired
      <4> TAKE i \in 1 .. Len(a \o x)
      <4>0. i \in 1 .. Len(a) + Len(x) /\ Len(a) \in Nat /\ Len(x) \in Nat
        BY <3>1, <3>5
      <4>1. CASE i <= Len(a)
        <5>1. i \in 1 .. Len(a) /\ i \in 1 .. Len(b)
          BY <4>0, <4>1, <3>2
        <5>2. (a \o x)[i] = a[i]
          BY <5>1, <3>1
        <5>3. (b \o y)[i] = b[i]
          BY <5>1, <3>1
        <5>4. <<a[i], b[i]>> \in Paired
          BY <5>1, <3>2
        <5> QED BY <5>2, <5>3, <5>4
      <4>2. CASE i > Len(a)
        <5>1. i - Len(a) \in 1 .. Len(x)
          BY <4>0, <4>2
        <5>2. (a \o x)[i] = x[i - Len(a)]
          BY <4>0, <4>2, <3>1
        <5>3. (b \o y)[i] = y[i - Len(a)]
          BY <4>0, <4>2, <3>1, <3>2, <3>3
        <5>4. <<x[i - Len(a)], y[i - Len(a)]>> \in Paired
          BY <5>1, <3>3
        <5> QED BY <5>2, <5>3, <5>4
      <4>3. i <= Len(a) \/ i > Len(a)
        BY <4>0
      <4> QED BY <4>1, <4>2, <4>3
    <3> QED BY <3>4, <3>5, <3>6
  <2> HIDE DEF Good
  <2>5. Nat \subseteq Good
    BY <2>3, <2>4, NumbersByInduction
  <2>6. n - 1 \in Good
    BY <2>0, <2>5
  <2>7. Alike(t[n], u[n], Paired)
    BY <2>0, <2>6 DEF Good
  <2> QED BY <2>0, <2>1, <2>2, <2>7
<1> QED BY <1>1, <1>2

\* A sequence cut into single elements is put together again.
LEMMA FlattenSingles ==
    ASSUME NEW A, NEW s \in Seq(A)
    PROVE  Seqs!FlattenSeq([i \in DOMAIN s |-> <<s[i]>>]) = s
<1> DEFINE ss == [i \in DOMAIN s |-> <<s[i]>>]
<1>0. ss \in Seq(Seq(A)) /\ Len(ss) = Len(s)
  <2>1. DOMAIN s = 1 .. Len(s) /\ Len(s) \in Nat /\ \A i \in DOMAIN s : <<s[i]>> \in Seq(A)
    OBVIOUS
  <2>2. ss \in [1 .. Len(s) -> Seq(A)]
    BY <2>1
  <2> HIDE DEF ss
  <2> QED BY <2>1, <2>2
<1>s. \A i \in 1 .. Len(s) : ss[i] = <<s[i]>> /\ s[i] \in A
  OBVIOUS
<1>1. CASE s = <<>>
  <2>1. ss = <<>> /\ Len(ss) = 0
    BY <1>0, <1>1
  <2> HIDE DEF ss
  <2> QED BY <1>1, <2>1 DEF Seqs!FlattenSeq
<1>2. CASE s # <<>>
  <2> DEFINE n == Len(s)
  <2>0. n \in Nat \ {0} /\ ss # <<>>
    BY <1>0, <1>2
  <2>1. PICK t \in [1 .. n -> Seq(A)] :
             /\ t[1] = ss[1]
             /\ \A i \in 2 .. n : t[i] = t[i - 1] \o ss[i]
             /\ Seqs!FlattenSeq(ss) = t[n]
    <3>1. n = Len(ss)
      BY <1>0
    <3> HIDE DEF ss, n
    <3> QED BY <1>0, <2>0, <3>1, FlattenTable
  <2> HIDE DEF ss
  <2> DEFINE Head1(i) == /\ Len(t[i]) = i
                         /\ \A k \in 1 .. i : t[i][k] = s[k]
             Good == {k \in Nat : k + 1 \in 1 .. n => Head1(k + 1)}
  <2>2. 0 \in Good
    <3>1. t[1] = <<s[1]>>
      BY <2>0, <2>1, <1>s
    <3>2. Len(<<s[1]>>) = 1 /\ <<s[1]>>[1] = s[1]
      OBVIOUS
    <3>3. Head1(1)
      BY <3>1, <3>2
    <3> HIDE DEF Head1
    <3> QED BY <3>3
  <2>3. ASSUME NEW k \in Nat, k \in Good
        PROVE  k + 1 \in Good
    <3> SUFFICES ASSUME k + 2 \in 1 .. n PROVE Head1(k + 2)
      OBVIOUS
    <3> DEFINE a == t[k + 1]
    <3>1. a \in Seq(A) /\ Len(a) = k + 1 /\ \A i \in 1 .. k + 1 : a[i] = s[i]
      BY <2>3
    <3>2. t[k + 2] = a \o <<s[k + 2]>> /\ s[k + 2] \in A
      <4>1. k + 2 \in 2 .. n /\ (k + 2) - 1 = k + 1
        OBVIOUS
      <4> QED BY <4>1, <2>1, <1>s
    <3> HIDE DEF a
    <3>3. Len(a \o <<s[k + 2]>>) = k + 2
      BY <3>1, <3>2
    <3>4. \A i \in 1 .. k + 2 : (a \o <<s[k + 2]>>)[i] = s[i]
      BY <3>1, <3>2
    <3> QED BY <3>2, <3>3, <3>4
  <2> HIDE DEF Good
  <2>4. Nat \subseteq Good
    BY <2>2, <2>3, NumbersByInduction
  <2>5. n - 1 \in Good
    BY <2>0, <2>4
  <2>6. Head1(n)
    BY <2>0, <2>5 DEF Good
  <2>7. t[n] = s
    BY <2>0, <2>6
  <2>8. Seqs!FlattenSeq(ss) = s
    BY <1>0, <2>1, <2>7
  <2> QED BY <2>8 DEF ss
<1> QED BY <1>1, <1>2

\* Flattening sequences of elements of a set gives one.
LEMMA FlattenType ==
    ASSUME NEW A, NEW ss \in Seq(Seq(A))
    PROVE  Seqs!FlattenSeq(ss) \in Seq(A)
<1>1. \A i \in 1 .. Len(ss) : Alike(ss[i], ss[i], A \X A)
  <2> TAKE i \in 1 .. Len(ss)
  <2>1. ss[i] \in Seq(A)
    OBVIOUS
  <2> QED BY <2>1 DEF Alike
<1> QED BY <1>1, FlattenAlike

-----------------------------------------------------------------------------
(* Texts and entries *)

\* A bad text reads neither as a number nor as a time, and is no list.
LEMMA BadTexts ==
    ASSUME NEW bad \in Bad
    PROVE  /\ ~IsUint(bad)
           /\ ~IsTime(bad)
           /\ \A as \in {"packed", "json", "agent", "address"} : ~Reads(bad, as)
<1>1. bad = <<>> \/ bad = <<"junk">> \/ bad = <<"numeral", MaxUint + 1>>
  BY DEF Bad, Empty, Junk, Numeral
<1>2. ~(MaxUint + 1 <= MaxUint)
  BY MaxUintAssumption
<1> QED BY <1>1, <1>2 DEF IsUint, IsTime, Reads, Empty

\* In what ways an entry is spoilt.
LEMMA SpoiltCases ==
    ASSUME NEW f, NEW g \in Spoilt(f)
    PROVE  \/ g = <<>>
           \/ \E key \in DOMAIN f : g = Restrict(f, DOMAIN f \ {key})
           \/ \E key \in DOMAIN f, bad \in Bad : g = [f EXCEPT ![key] = bad]
           \/ "records" \in DOMAIN f /\ \E r \in SpoiltRecords(f["records"][2]) : g = [f EXCEPT !["records"] = Packed(r)]
           \/ "users" \in DOMAIN f /\ \E u \in SpoiltUsers(f["users"][2]) : g = [f EXCEPT !["users"] = Json(u)]
<1>1. \/ g = <<>>
      \/ g \in SpoiltFields(f)
      \/ g \in {[f EXCEPT !["records"] = Packed(r)] :
                    r \in IF "records" \in DOMAIN f THEN SpoiltRecords(f["records"][2]) ELSE {}}
      \/ g \in {[f EXCEPT !["users"] = Json(u)] :
                    u \in IF "users" \in DOMAIN f THEN SpoiltUsers(f["users"][2]) ELSE {}}
  BY DEF Spoilt
<1>2. CASE g \in SpoiltFields(f)
  BY <1>2 DEF SpoiltFields
<1>3. CASE g \in {[f EXCEPT !["records"] = Packed(r)] :
                    r \in IF "records" \in DOMAIN f THEN SpoiltRecords(f["records"][2]) ELSE {}}
  BY <1>3
<1>4. CASE g \in {[f EXCEPT !["users"] = Json(u)] :
                    u \in IF "users" \in DOMAIN f THEN SpoiltUsers(f["users"][2]) ELSE {}}
  BY <1>4
<1> QED BY <1>1, <1>2, <1>3, <1>4

\* A text of a spoilt entry is as it was, or bad.
LEMMA SpoiltText ==
    ASSUME NEW f, NEW g \in Spoilt(f), NEW key, key \notin {"records", "users"}
    PROVE  Str(g, key) = Str(f, key) \/ Str(g, key) \in Bad
<1>0. Empty \in Bad
  BY DEF Bad
<1>1. CASE g = <<>>
  <2>1. DOMAIN g = {}
    BY <1>1
  <2> QED BY <1>0, <2>1 DEF Str
<1>2. CASE \E k \in DOMAIN f : g = Restrict(f, DOMAIN f \ {k})
  BY <1>0, <1>2 DEF Str, Restrict
<1>3. CASE \E k \in DOMAIN f, bad \in Bad : g = [f EXCEPT ![k] = bad]
  BY <1>3 DEF Str
<1>4. CASE \E r : g = [f EXCEPT !["records"] = r]
  BY <1>4 DEF Str
<1>5. CASE \E u : g = [f EXCEPT !["users"] = u]
  BY <1>5 DEF Str
<1> QED BY <1>1, <1>2, <1>3, <1>4, <1>5, SpoiltCases

-----------------------------------------------------------------------------
(* Usage reports *)

\* A number's text reads as one.
LEMMA UintTexts ==
    ASSUME NEW text \in Uints
    PROVE  IsUint(text) /\ text # Empty
BY DEF Uints, IsUint, Numeral, Reads, Empty

\* All fields of a usage report are written.
LEMMA EncodedUsage ==
    ASSUME NEW m \in Messages, m.stream = "user_usage", NEW version
    PROVE  /\ Encode(m, version) = [v |-> Numeral(1), nodeId |-> m.node, ts |-> m.ts, records |-> Packed(m.records)]
           /\ m.node \in Uints /\ IsTime(m.ts) /\ m.records \in Seq(Uints \X Uints) \ {<<>>}
<1>1. m.node \in Uints /\ IsTime(m.ts) /\ m.records \in Seq(Uints \X Uints) \ {<<>>}
  BY PanelAssumption DEF MessagesAssumption
<1> DEFINE F == [v |-> Numeral(1), nodeId |-> m.node, ts |-> m.ts, records |-> Packed(m.records)]
<1>2. Fields(m, version) = F
  BY DEF Fields
<1>3. \A key \in DOMAIN F : F[key] # Empty
  BY <1>1, UintTexts DEF Numeral, Packed, Empty, IsTime, Reads
<1>4. Encode(m, version) = [key \in {k \in DOMAIN F : F[k] # Empty} |-> F[key]]
  BY <1>2 DEF Encode, RestrictValues, Restrict
<1>5. {k \in DOMAIN F : F[k] # Empty} = DOMAIN F
  BY <1>3
<1>6. Encode(m, version) = [key \in DOMAIN F |-> F[key]]
  BY <1>4, <1>5
<1> QED BY <1>1, <1>6

\* A report's records come apart as they were packed.
LEMMA SegmentsKept ==
    ASSUME NEW A, NEW records \in Seq(A), \A i \in DOMAIN records : records[i] # <<>>
    PROVE  Segments(Packed(records)) = records
<1>1. Packed(records)[2] = records
  BY DEF Packed
<1>2. [i \in DOMAIN records |-> IF records[i] = <<>> THEN <<>> ELSE <<records[i]>>]
        = [i \in DOMAIN records |-> <<records[i]>>]
  OBVIOUS
<1> QED BY <1>1, <1>2, FlattenSingles DEF Segments

\* A record is a user and its bytes.
LEMMA RecordsArePairs ==
    ASSUME NEW records \in Seq(Uints \X Uints), NEW i \in DOMAIN records
    PROVE  records[i] # <<>> /\ Len(records[i]) = 2 /\ \A part \in {1, 2} : IsUint(records[i][part])
<1>1. records[i] \in Uints \X Uints
  OBVIOUS
<1>2. PICK a \in Uints, b \in Uints : records[i] = <<a, b>>
  BY <1>1
<1> QED BY <1>2, UintTexts

\* One bad segment refuses the report.
LEMMA BadSegmentRefused ==
    ASSUME NEW records \in Seq(Uints \X Uints), NEW r \in SpoiltRecords(records)
    PROVE  ~RecordsAccepted(Packed(r))
<1>1. PICK i \in DOMAIN records, s \in BadSegments : r = [records EXCEPT ![i] = s]
  BY DEF SpoiltRecords
<1>2. s # <<>> /\ (Len(s) # 2 \/ ~IsUint(s[1]) \/ ~IsUint(s[2]))
  <2>1. ~IsUint(Junk) /\ ~IsUint(Numeral(MaxUint + 1))
    BY BadTexts DEF Bad
  <2>2. CASE s = <<Numeral(1)>>
    BY <2>2
  <2>3. CASE s = <<Junk, Numeral(1)>>
    BY <2>1, <2>3
  <2>4. CASE s = <<Numeral(1), Numeral(MaxUint + 1)>>
    BY <2>1, <2>4
  <2>5. CASE s = <<Numeral(1), Numeral(1), Numeral(1)>>
    BY <2>5
  <2> QED BY <2>2, <2>3, <2>4, <2>5 DEF BadSegments
<1>3. r \in Seq((Uints \X Uints) \cup {s}) /\ DOMAIN r = DOMAIN records /\ r[i] = s
  BY <1>1
<1>4. \A j \in DOMAIN r : r[j] # <<>>
  BY <1>1, <1>2, RecordsArePairs
<1>5. Segments(Packed(r)) = r
  BY <1>3, <1>4, SegmentsKept
<1> QED BY <1>2, <1>3, <1>5 DEF RecordsAccepted

\* The records that are left of a report are records; if none is gone, all are left.
LEMMA RecordsKept ==
    ASSUME NEW m \in Messages, m.stream = "user_usage", NEW gone
    PROVE  /\ KeptRecords(m, gone) \in Seq(Uints \X Uints)
           /\ gone = {} => KeptRecords(m, gone) = m.records
<1> DEFINE A == Uints \X Uints
           ss == [i \in DOMAIN m.records |-> IF i \in gone THEN <<>> ELSE <<m.records[i]>>]
<1>1. m.records \in Seq(A)
  BY EncodedUsage
<1>2. DOMAIN m.records = 1 .. Len(m.records) /\ Len(m.records) \in Nat /\ \A i \in DOMAIN m.records : m.records[i] \in A
  BY <1>1
<1> HIDE DEF A
<1>3. ss \in [1 .. Len(m.records) -> Seq(A)]
  BY <1>2
<1>4. KeptRecords(m, gone) = Seqs!FlattenSeq(ss)
  BY DEF KeptRecords
<1>5. gone = {} => ss = [i \in DOMAIN m.records |-> <<m.records[i]>>]
  OBVIOUS
<1> HIDE DEF ss
<1>6. ss \in Seq(Seq(A))
  BY <1>2, <1>3
<1>7. KeptRecords(m, gone) \in Seq(A)
  BY <1>4, <1>6, FlattenType
<1>8. gone = {} => KeptRecords(m, gone) = m.records
  BY <1>1, <1>4, <1>5, FlattenSingles
<1> QED BY <1>7, <1>8 DEF A

\* Emptied records are skipped.
LEMMA SegmentsLeft ==
    ASSUME NEW m \in Messages, m.stream = "user_usage", NEW gone
    PROVE  Segments(Packed(EmptiedRecords(m, gone))) = KeptRecords(m, gone)
<1> DEFINE r == EmptiedRecords(m, gone)
<1>1. m.records \in Seq(Uints \X Uints)
  BY EncodedUsage
<1>2. DOMAIN r = DOMAIN m.records /\ \A i \in DOMAIN m.records : r[i] = IF i \in gone THEN <<>> ELSE m.records[i]
  BY DEF EmptiedRecords
<1>3. \A i \in DOMAIN m.records : m.records[i] # <<>>
  BY <1>1, RecordsArePairs
<1> HIDE DEF r
<1>4. [i \in DOMAIN r |-> IF r[i] = <<>> THEN <<>> ELSE <<r[i]>>]
        = [i \in DOMAIN m.records |-> IF i \in gone THEN <<>> ELSE <<m.records[i]>>]
  BY <1>2, <1>3
<1>5. Packed(r)[2] = r
  BY DEF Packed
<1> QED BY <1>4, <1>5 DEF Segments, KeptRecords, r

\* A report says what its records are.
LEMMA UsageSays ==
    ASSUME NEW m \in Messages, m.stream = "user_usage", NEW version, NEW gone, NEW f,
           f["ts"] = m.ts, f["nodeId"] = m.node,
           Segments(f["records"]) = KeptRecords(m, gone)
    PROVE  UserUsage(f) = Said(m, version, gone)
BY DEF UserUsage, Said

\* An entry as the panel wrote it is accepted and says what the panel meant.
LEMMA UsageRead ==
    ASSUME NEW m \in Messages, m.stream = "user_usage", NEW version
    PROVE  /\ UserUsageAccepted(Encode(m, version))
           /\ UserUsage(Encode(m, version)) = Said(m, version, {})
<1> DEFINE f == Encode(m, version)
<1>1. /\ f = [v |-> Numeral(1), nodeId |-> m.node, ts |-> m.ts, records |-> Packed(m.records)]
      /\ m.node \in Uints /\ IsTime(m.ts) /\ m.records \in Seq(Uints \X Uints) \ {<<>>}
  BY EncodedUsage
<1> HIDE DEF f
<1>2. /\ Str(f, "v") = Numeral(1)
      /\ Str(f, "nodeId") = m.node /\ f["nodeId"] = m.node
      /\ Str(f, "ts") = m.ts /\ f["ts"] = m.ts
      /\ Str(f, "records") = Packed(m.records) /\ f["records"] = Packed(m.records)
  BY <1>1 DEF Str
<1>3. Segments(Packed(m.records)) = m.records
  BY <1>1, SegmentsKept, RecordsArePairs
<1>4. RecordsAccepted(Packed(m.records))
  <2>1. Reads(Packed(m.records), "packed")
    BY DEF Reads, Packed, Empty
  <2> QED BY <1>1, <1>3, <2>1, RecordsArePairs DEF RecordsAccepted
<1>5. UserUsageAccepted(f)
  BY <1>1, <1>2, <1>4, UintTexts DEF UserUsageAccepted, CheckVersion
<1>6. UserUsage(f) = Said(m, version, {})
  BY <1>2, <1>3, RecordsKept, UsageSays
<1> QED BY <1>5, <1>6 DEF f

\* One with emptied records says what the others are, if it is accepted.
LEMMA UsageEmptied ==
    ASSUME NEW m \in Messages, m.stream = "user_usage", NEW version, NEW gone,
           NEW g \in Emptied(m, Encode(m, version), gone)
    PROVE  UserUsage(g) = Said(m, version, gone)
<1> DEFINE f == Encode(m, version)
<1>1. f = [v |-> Numeral(1), nodeId |-> m.node, ts |-> m.ts, records |-> Packed(m.records)]
  BY EncodedUsage
<1>2. g = [f EXCEPT !["records"] = Packed(EmptiedRecords(m, gone))]
  BY DEF Emptied
<1> HIDE DEF f
<1>3. g["ts"] = m.ts /\ g["nodeId"] = m.node /\ g["records"] = Packed(EmptiedRecords(m, gone))
  BY <1>1, <1>2
<1> QED BY <1>3, SegmentsLeft, UsageSays

\* One that is spoilt is refused, or says the same.
LEMMA UsageSpoilt ==
    ASSUME NEW m \in Messages, m.stream = "user_usage", NEW version,
           NEW g \in Spoilt(Encode(m, version)), UserUsageAccepted(g)
    PROVE  UserUsage(g) = UserUsage(Encode(m, version))
<1> DEFINE f == Encode(m, version)
<1>1. /\ f = [v |-> Numeral(1), nodeId |-> m.node, ts |-> m.ts, records |-> Packed(m.records)]
      /\ m.node \in Uints /\ IsTime(m.ts) /\ m.records \in Seq(Uints \X Uints) \ {<<>>}
  BY EncodedUsage
<1>0. g \in Spoilt(f)
  OBVIOUS
<1> HIDE DEF f
<1>2. Str(g, "nodeId") = Str(f, "nodeId") /\ Str(g, "ts") = Str(f, "ts")
  BY <1>0, SpoiltText, BadTexts DEF UserUsageAccepted
<1>3. "nodeId" \in DOMAIN g /\ "ts" \in DOMAIN g /\ "records" \in DOMAIN g /\ Reads(g["records"], "packed")
      /\ RecordsAccepted(g["records"])
  BY DEF UserUsageAccepted, RecordsAccepted, Str, IsUint, IsTime, Reads
<1>4. g["nodeId"] = f["nodeId"] /\ g["ts"] = f["ts"]
  BY <1>1, <1>2, <1>3 DEF Str
<1>5. g["records"] = f["records"]
  <2>1. CASE g = <<>>
    BY <2>1, <1>3
  <2>2. CASE \E key \in DOMAIN f : g = Restrict(f, DOMAIN f \ {key})
    BY <2>2, <1>3 DEF Restrict
  <2>3. CASE \E key \in DOMAIN f, bad \in Bad : g = [f EXCEPT ![key] = bad]
    BY <2>3, <1>3, BadTexts
  <2>4. ASSUME NEW r \in SpoiltRecords(f["records"][2]), g = [f EXCEPT !["records"] = Packed(r)]
        PROVE  FALSE
    <3>1. f["records"][2] = m.records /\ g["records"] = Packed(r) /\ Packed(r)[2] = r
      BY <1>1, <2>4 DEF Packed
    <3> QED BY <1>1, <1>3, <2>4, <3>1, BadSegmentRefused
  <2>5. "users" \notin DOMAIN f
    BY <1>1
  <2> QED BY <2>1, <2>2, <2>3, <2>4, <2>5, <1>0, SpoiltCases
<1> QED BY <1>4, <1>5 DEF UserUsage, f

-----------------------------------------------------------------------------
(* Snapshots *)

\* What the panel may mean by a snapshot.
LEMMA MessageOfSnapshot ==
    ASSUME NEW m \in Messages, m.stream = "node_connections"
    PROVE  /\ m.node \in Uints
           /\ IsTime(m.ts)
           /\ m.users \in Seq(Uints)
           /\ m.seen \in Seq(Range(m.seen))
           /\ m.seen = Seqs!FlattenSeq([i \in DOMAIN m.users |-> SeenOf(m, m.users[i])])
           /\ \A s \in Range(m.seen) : IsTime(s.seen) /\ IsSpelled(s.ip)
<1>1. /\ m.node \in Uints
      /\ IsTime(m.ts)
      /\ m.users \in Seq(Uints)
      /\ m.seen \in Seq(Range(m.seen))
      /\ m.seen = Seqs!FlattenSeq([i \in DOMAIN m.users |-> SeenOf(m, m.users[i])])
      /\ \A k \in DOMAIN m.seen : IsTime(m.seen[k].seen) /\ IsSpelled(m.seen[k].ip)
  BY PanelAssumption DEF MessagesAssumption
<1> QED BY <1>1 DEF Range

\* What was seen of one user.
LEMMA SeenOfOne ==
    ASSUME NEW m \in Messages, m.stream = "node_connections", NEW user
    PROVE  SeenOf(m, user) \in Seq({s \in Range(m.seen) : s.user = user})
<1> DEFINE A == {s \in Range(m.seen) : s.user = user}
           ss == [k \in DOMAIN m.seen |-> IF m.seen[k].user = user THEN <<m.seen[k]>> ELSE <<>>]
<1>1. m.seen \in Seq(Range(m.seen))
  BY MessageOfSnapshot
<1>2. \A k \in DOMAIN m.seen : m.seen[k].user = user => m.seen[k] \in A
  BY DEF Range
<1> HIDE DEF A
<1>3. \A k \in DOMAIN m.seen : ss[k] \in Seq(A)
  <2> TAKE k \in DOMAIN m.seen
  <2>1. CASE m.seen[k].user = user
    <3>1. ss[k] = <<m.seen[k]>> /\ m.seen[k] \in A
      BY <1>2, <2>1
    <3> QED BY <3>1
  <2>2. CASE m.seen[k].user # user
    <3>1. ss[k] = <<>>
      BY <2>2
    <3> QED BY <3>1
  <2> QED BY <2>1, <2>2
<1>4. ss \in [1 .. Len(m.seen) -> Seq(A)] /\ Len(m.seen) \in Nat
  <2>1. DOMAIN m.seen = 1 .. Len(m.seen) /\ Len(m.seen) \in Nat
    BY <1>1
  <2> QED BY <2>1, <1>3
<1>5. SeenOf(m, user) = Seqs!FlattenSeq(ss)
  BY DEF SeenOf
<1> HIDE DEF ss
<1>6. ss \in Seq(Seq(A))
  BY <1>4
<1>7. SeenOf(m, user) \in Seq(A)
  BY <1>5, <1>6, FlattenType
<1> QED BY <1>7 DEF A

\* All fields of a snapshot are written.
LEMMA EncodedSnapshot ==
    ASSUME NEW m \in Messages, m.stream = "node_connections", NEW version
    PROVE  Encode(m, version) = [v |-> Numeral(1), nodeId |-> m.node, ts |-> m.ts, users |-> Json(Grouped(m))]
<1>1. m.node \in Uints /\ IsTime(m.ts)
  BY MessageOfSnapshot
<1> DEFINE F == [v |-> Numeral(1), nodeId |-> m.node, ts |-> m.ts, users |-> Json(Grouped(m))]
<1>2. Fields(m, version) = F
  BY DEF Fields
<1>3. \A key \in DOMAIN F : F[key] # Empty
  BY <1>1, UintTexts DEF Numeral, Json, Empty, IsTime, Reads
<1>4. Encode(m, version) = [key \in {k \in DOMAIN F : F[k] # Empty} |-> F[key]]
  BY <1>2 DEF Encode, RestrictValues, Restrict
<1>5. {k \in DOMAIN F : F[k] # Empty} = DOMAIN F
  BY <1>3
<1>6. Encode(m, version) = [key \in DOMAIN F |-> F[key]]
  BY <1>4, <1>5
<1> QED BY <1>6

\* The i-th user of a snapshot and its addresses.
LEMMA GroupedUser ==
    ASSUME NEW m \in Messages, m.stream = "node_connections", NEW i \in DOMAIN m.users
    PROVE  /\ DOMAIN Grouped(m) = DOMAIN m.users
           /\ Grouped(m)[i].userId = m.users[i]
           /\ m.users[i] \in Uints
           /\ DOMAIN Grouped(m)[i].ips = DOMAIN SeenOf(m, m.users[i])
           /\ \A j \in DOMAIN SeenOf(m, m.users[i]) :
                /\ Grouped(m)[i].ips[j].ip = SeenOf(m, m.users[i])[j].ip
                /\ Grouped(m)[i].ips[j].lastSeen = SeenOf(m, m.users[i])[j].seen
                /\ SeenOf(m, m.users[i])[j] \in Range(m.seen)
                /\ SeenOf(m, m.users[i])[j].user = m.users[i]
<1>1. m.users[i] \in Uints
  <2>1. m.users \in Seq(Uints)
    BY MessageOfSnapshot
  <2> QED BY <2>1
<1> DEFINE its == SeenOf(m, m.users[i])
<1>2. Grouped(m)[i] = [userId |-> m.users[i], ips |-> [j \in DOMAIN its |-> [ip |-> its[j].ip, lastSeen |-> its[j].seen]]]
  BY DEF Grouped
<1>3. \A j \in DOMAIN its : its[j] \in Range(m.seen) /\ its[j].user = m.users[i]
  <2>1. its \in Seq({s \in Range(m.seen) : s.user = m.users[i]})
    BY SeenOfOne
  <2> QED BY <2>1
<1>4. DOMAIN Grouped(m) = DOMAIN m.users
  BY DEF Grouped
<1> HIDE DEF its
<1> QED BY <1>1, <1>2, <1>3, <1>4 DEF its

\* What is left of what was seen is a sequence of it.
LEMMA SeenKept ==
    ASSUME NEW m \in Messages, m.stream = "node_connections", NEW gone
    PROVE  KeptSeen(m, gone) \in Seq(Range(m.seen))
<1> DEFINE A == Range(m.seen)
           ss == [i \in DOMAIN m.users |-> IF i \in gone THEN <<>> ELSE SeenOf(m, m.users[i])]
<1>1. DOMAIN m.users = 1 .. Len(m.users) /\ Len(m.users) \in Nat
  <2>1. m.users \in Seq(Uints)
    BY MessageOfSnapshot
  <2> QED BY <2>1
<1>2. \A i \in DOMAIN m.users : ss[i] \in Seq(A)
  <2> TAKE i \in DOMAIN m.users
  <2>1. SeenOf(m, m.users[i]) \in Seq(A)
    <3>1. SeenOf(m, m.users[i]) \in Seq({s \in A : s.user = m.users[i]})
      BY SeenOfOne
    <3> QED BY <3>1
  <2>2. ss[i] = IF i \in gone THEN <<>> ELSE SeenOf(m, m.users[i])
    OBVIOUS
  <2>3. <<>> \in Seq(A)
    OBVIOUS
  <2> HIDE DEF ss, A
  <2> QED BY <2>1, <2>2, <2>3
<1>3. ss \in [1 .. Len(m.users) -> Seq(A)]
  BY <1>1, <1>2
<1>4. KeptSeen(m, gone) = Seqs!FlattenSeq(ss)
  BY DEF KeptSeen
<1> HIDE DEF A, ss
<1>5. ss \in Seq(Seq(A))
  BY <1>1, <1>3
<1> QED BY <1>4, <1>5, FlattenType DEF A

\* The rows of a snapshot are those of what is left, user by user.
LEMMA SnapshotSays ==
    ASSUME NEW m \in Messages, m.stream = "node_connections", NEW version, NEW gone, NEW f,
           f["ts"] = m.ts, f["nodeId"] = m.node, f["users"] = Json(EmptiedUsers(m, gone))
    PROVE  NodeConnections(f) = Said(m, version, gone)
<1> DEFINE V == EmptiedUsers(m, gone)
           Row(s) == [ts |-> m.ts, node |-> m.node, user |-> s.user, ip |-> s.ip, seen |-> s.seen]
           its(i) == IF i \in gone THEN <<>> ELSE SeenOf(m, m.users[i])
           ss == [i \in DOMAIN m.users |-> its(i)]
           tt == [i \in DOMAIN m.users |-> [j \in DOMAIN its(i) |-> Row(its(i)[j])]]
           A == Range(m.seen)
           B == {Row(s) : s \in A}
           Paired == {<<s, Row(s)>> : s \in A}
<1>1. f["users"][2] = V
  BY DEF Json
<1>2. m.users \in Seq(Uints) /\ m.seen \in Seq(Range(m.seen))
  BY MessageOfSnapshot
<1>3. DOMAIN V = DOMAIN m.users
  BY DEF EmptiedUsers
<1>4. ASSUME NEW i \in DOMAIN m.users
      PROVE  /\ V[i].userId = m.users[i]
             /\ DOMAIN V[i].ips = DOMAIN its(i)
             /\ \A j \in DOMAIN its(i) :
                    V[i].ips[j].ip = its(i)[j].ip /\ V[i].ips[j].lastSeen = its(i)[j].seen /\ its(i)[j].user = m.users[i]
  <2>1. Grouped(m)[i] = [userId |-> m.users[i], ips |-> Grouped(m)[i].ips]
    BY DEF Grouped
  <2>2. V[i] = [userId |-> m.users[i], ips |-> IF i \in gone THEN <<>> ELSE Grouped(m)[i].ips]
    <3>1. V[i] = [Grouped(m)[i] EXCEPT !.ips = IF i \in gone THEN <<>> ELSE @]
      BY DEF EmptiedUsers
    <3> QED BY <2>1, <3>1
  <2>3. CASE i \in gone
    BY <2>2, <2>3
  <2>4. CASE i \notin gone
    <3>1. /\ DOMAIN Grouped(m)[i].ips = DOMAIN SeenOf(m, m.users[i])
          /\ \A j \in DOMAIN SeenOf(m, m.users[i]) :
                /\ Grouped(m)[i].ips[j].ip = SeenOf(m, m.users[i])[j].ip
                /\ Grouped(m)[i].ips[j].lastSeen = SeenOf(m, m.users[i])[j].seen
                /\ SeenOf(m, m.users[i])[j].user = m.users[i]
      BY GroupedUser
    <3>2. its(i) = SeenOf(m, m.users[i]) /\ V[i] = [userId |-> m.users[i], ips |-> Grouped(m)[i].ips]
      BY <2>2, <2>4
    <3> HIDE DEF V, its
    <3> QED BY <3>1, <3>2
  <2> QED BY <2>3, <2>4
<1> HIDE DEF V
<1>5. NodeConnections(f) = Seqs!FlattenSeq(tt)
  <2>1. ASSUME NEW i \in DOMAIN m.users
        PROVE  [j \in DOMAIN V[i].ips |->
                    [ts |-> m.ts, node |-> m.node, user |-> V[i].userId, ip |-> V[i].ips[j].ip, seen |-> V[i].ips[j].lastSeen]]
                  = tt[i]
    <3>1. tt[i] = [j \in DOMAIN its(i) |-> Row(its(i)[j])]
      OBVIOUS
    <3> HIDE DEF tt, its
    <3> QED BY <1>4, <3>1
  <2>2. [i \in DOMAIN V |-> [j \in DOMAIN V[i].ips |->
            [ts |-> m.ts, node |-> m.node, user |-> V[i].userId, ip |-> V[i].ips[j].ip, seen |-> V[i].ips[j].lastSeen]]]
          = tt
    <3> HIDE DEF its
    <3> QED BY <1>3, <2>1
  <2> HIDE DEF tt
  <2> QED BY <1>1, <2>2 DEF NodeConnections
<1>6. \A i \in DOMAIN m.users : ss[i] \in Seq(A)
  <2> TAKE i \in DOMAIN m.users
  <2>1. SeenOf(m, m.users[i]) \in Seq(A)
    <3>1. SeenOf(m, m.users[i]) \in Seq({s \in A : s.user = m.users[i]})
      BY SeenOfOne
    <3> QED BY <3>1
  <2>2. ss[i] = IF i \in gone THEN <<>> ELSE SeenOf(m, m.users[i])
    OBVIOUS
  <2>3. <<>> \in Seq(A)
    OBVIOUS
  <2> HIDE DEF ss, A, its
  <2> QED BY <2>1, <2>2, <2>3
<1>7. ASSUME NEW i \in DOMAIN m.users
      PROVE  /\ tt[i] \in Seq(B)
             /\ Len(ss[i]) = Len(tt[i])
             /\ \A j \in 1 .. Len(ss[i]) : <<ss[i][j], tt[i][j]>> \in Paired
  <2>1. ss[i] \in Seq(A)
    BY <1>6
  <2>2. tt[i] = [j \in 1 .. Len(ss[i]) |-> Row(ss[i][j])] /\ Len(ss[i]) \in Nat
    <3>1. ss[i] = its(i) /\ tt[i] = [j \in DOMAIN its(i) |-> Row(its(i)[j])]
      OBVIOUS
    <3> HIDE DEF ss, tt, its, Row, A
    <3> QED BY <2>1, <3>1
  <2>3. \A j \in 1 .. Len(ss[i]) : ss[i][j] \in A
    BY <2>1
  <2> HIDE DEF ss, tt, A, Row
  <2>4. \A j \in 1 .. Len(ss[i]) : tt[i][j] = Row(ss[i][j]) /\ Row(ss[i][j]) \in B
    BY <2>2, <2>3
  <2>5. tt[i] \in [1 .. Len(ss[i]) -> B] /\ Len(tt[i]) = Len(ss[i])
    <3>1. DOMAIN tt[i] = 1 .. Len(ss[i]) /\ tt[i] = [j \in 1 .. Len(ss[i]) |-> tt[i][j]]
      BY <2>2
    <3>2. tt[i] \in [1 .. Len(ss[i]) -> B]
      BY <3>1, <2>4
    <3> QED BY <2>2, <3>1, <3>2
  <2>6. \A j \in 1 .. Len(ss[i]) : <<ss[i][j], Row(ss[i][j])>> \in Paired
    BY <2>3
  <2> HIDE DEF B, Paired
  <2> QED BY <2>2, <2>4, <2>5, <2>6
<1>8. Len(ss) = Len(tt) /\ ss \in Seq(Seq(A)) /\ tt \in Seq(Seq(B)) /\ DOMAIN m.users = 1 .. Len(ss)
  <2>1. DOMAIN m.users = 1 .. Len(m.users) /\ Len(m.users) \in Nat
    BY <1>2
  <2>2. ss \in [1 .. Len(m.users) -> Seq(A)]
    <3> HIDE DEF its
    <3> QED BY <1>6, <2>1
  <2>3. tt \in [1 .. Len(m.users) -> Seq(B)]
    <3> HIDE DEF its, Row
    <3> QED BY <1>7, <2>1
  <2> HIDE DEF ss, tt, A, B
  <2> QED BY <2>1, <2>2, <2>3
<1>9. KeptSeen(m, gone) = Seqs!FlattenSeq(ss)
  BY DEF KeptSeen
<1> DEFINE kept == KeptSeen(m, gone)
<1>10. /\ Seqs!FlattenSeq(tt) \in Seq(B)
       /\ Len(kept) = Len(Seqs!FlattenSeq(tt))
       /\ \A k \in 1 .. Len(kept) : <<kept[k], Seqs!FlattenSeq(tt)[k]>> \in Paired
  <2>0. Len(ss) = Len(tt) /\ ss \in Seq(Seq(A)) /\ tt \in Seq(Seq(B))
    BY <1>8
  <2> HIDE DEF ss, tt, its, Row, A, B, Paired, kept
  <2>1. \A i \in 1 .. Len(ss) : Alike(ss[i], tt[i], Paired)
    BY <1>7, <1>8 DEF Alike
  <2>2. Seqs!FlattenSeq(tt) \in Seq(B) /\ Alike(Seqs!FlattenSeq(ss), Seqs!FlattenSeq(tt), Paired)
    BY <2>0, <2>1, FlattenAlike
  <2> QED BY <2>2, <1>9 DEF Alike, kept
<1>11. \A k \in 1 .. Len(kept) : Seqs!FlattenSeq(tt)[k] = Row(kept[k])
  <2> HIDE DEF tt, kept
  <2> QED BY <1>10
<1>12. DOMAIN kept = 1 .. Len(kept) /\ Len(kept) \in Nat
  <2>1. kept \in Seq(A)
    BY SeenKept
  <2> HIDE DEF kept, A
  <2> QED BY <2>1
<1>13. Said(m, version, gone) = [k \in 1 .. Len(kept) |-> Row(kept[k])]
  BY <1>12 DEF Said
<1> QED
  <2> HIDE DEF tt, B, kept
  <2> QED BY <1>5, <1>10, <1>11, <1>12, <1>13

\* With no user gone the users are those the panel listed.
LEMMA NoUserGone ==
    ASSUME NEW m
    PROVE  EmptiedUsers(m, {}) = Grouped(m)
<1>1. \A i \in DOMAIN m.users : Grouped(m)[i] = [userId |-> m.users[i], ips |-> Grouped(m)[i].ips]
  BY DEF Grouped
<1>2. \A i \in DOMAIN m.users : [Grouped(m)[i] EXCEPT !.ips = IF i \in {} THEN <<>> ELSE @] = Grouped(m)[i]
  BY <1>1
<1>3. Grouped(m) = [i \in DOMAIN m.users |-> Grouped(m)[i]]
  BY DEF Grouped
<1> HIDE DEF Grouped
<1> QED BY <1>2, <1>3 DEF EmptiedUsers

\* A snapshot as the panel wrote it is accepted and says what the panel meant.
LEMMA SnapshotRead ==
    ASSUME NEW m \in Messages, m.stream = "node_connections", NEW version
    PROVE  /\ NodeConnectionsAccepted(Encode(m, version))
           /\ NodeConnections(Encode(m, version)) = Said(m, version, {})
<1> DEFINE f == Encode(m, version)
           U == Grouped(m)
<1>1. f = [v |-> Numeral(1), nodeId |-> m.node, ts |-> m.ts, users |-> Json(U)]
  BY EncodedSnapshot
<1> HIDE DEF f
<1>2. /\ Str(f, "v") = Numeral(1)
      /\ Str(f, "nodeId") = m.node /\ f["nodeId"] = m.node
      /\ Str(f, "ts") = m.ts /\ f["ts"] = m.ts
      /\ Str(f, "users") = Json(U) /\ f["users"] = Json(U) /\ Json(U)[2] = U
      /\ Reads(Json(U), "json")
  BY <1>1 DEF Str, Json, Reads, Empty
<1>3. /\ m.node \in Uints
      /\ IsTime(m.ts)
      /\ m.users \in Seq(Uints)
      /\ \A s \in Range(m.seen) : IsTime(s.seen)
  BY MessageOfSnapshot
<1>4. NodeConnectionsAccepted(f)
  <2>1. ASSUME NEW i \in DOMAIN U
        PROVE  IsUint(U[i].userId) /\ \A j \in DOMAIN U[i].ips : IsTime(U[i].ips[j].lastSeen)
    <3>1. i \in DOMAIN m.users
      BY DEF Grouped
    <3>2. /\ U[i].userId \in Uints
          /\ DOMAIN U[i].ips = DOMAIN SeenOf(m, m.users[i])
          /\ \A j \in DOMAIN SeenOf(m, m.users[i]) :
                U[i].ips[j].lastSeen = SeenOf(m, m.users[i])[j].seen /\ SeenOf(m, m.users[i])[j] \in Range(m.seen)
      <4>1. m.users[i] \in Uints
        BY <3>1, <1>3
      <4> QED BY <3>1, <4>1, GroupedUser
    <3> HIDE DEF U
    <3> QED BY <3>2, <1>3, UintTexts
  <2> HIDE DEF U
  <2> QED BY <1>2, <1>3, <2>1, UintTexts DEF NodeConnectionsAccepted, CheckVersion
<1>5. NodeConnections(f) = Said(m, version, {})
  <2>1. f["users"] = Json(EmptiedUsers(m, {}))
    BY <1>2, NoUserGone
  <2> HIDE DEF U
  <2> QED BY <1>2, <2>1, SnapshotSays
<1> QED BY <1>4, <1>5 DEF f

\* One in which users are without their addresses, or the array of users is
\* null, says what is left.
LEMMA SnapshotEmptied ==
    ASSUME NEW m \in Messages, m.stream = "node_connections", NEW version, NEW gone,
           NEW g \in Emptied(m, Encode(m, version), gone)
    PROVE  NodeConnections(g) = Said(m, version, gone)
<1> DEFINE f == Encode(m, version)
<1>1. f = [v |-> Numeral(1), nodeId |-> m.node, ts |-> m.ts, users |-> Json(Grouped(m))]
  BY EncodedSnapshot
<1>2. \/ g = [f EXCEPT !["users"] = Json(EmptiedUsers(m, gone))]
      \/ gone = DOMAIN m.users /\ g = [f EXCEPT !["users"] = Json(<<>>)]
  BY DEF Emptied
<1> HIDE DEF f
<1>3. CASE g = [f EXCEPT !["users"] = Json(EmptiedUsers(m, gone))]
  <2>1. g["ts"] = m.ts /\ g["nodeId"] = m.node /\ g["users"] = Json(EmptiedUsers(m, gone))
    BY <1>1, <1>3
  <2> QED BY <2>1, SnapshotSays
<1>4. CASE gone = DOMAIN m.users /\ g = [f EXCEPT !["users"] = Json(<<>>)]
  <2>1. g["users"][2] = <<>>
    BY <1>1, <1>4 DEF Json
  <2>2. \A ss : ss \in Seq(Seq({})) => Seqs!FlattenSeq(ss) = <<>>
    <3>1. ASSUME NEW ss \in Seq(Seq({})) PROVE Seqs!FlattenSeq(ss) = <<>>
      <4>1. Seqs!FlattenSeq(ss) \in Seq({})
        BY FlattenType
      <4> QED BY <4>1
    <3> QED BY <3>1
  <2>3. NodeConnections(g) = <<>>
    <3> DEFINE Of(u) == [j \in DOMAIN u.ips |->
                            [ts |-> g["ts"], node |-> g["nodeId"], user |-> u.userId,
                             ip |-> u.ips[j].ip, seen |-> u.ips[j].lastSeen]]
               ss == [i \in DOMAIN g["users"][2] |-> Of(g["users"][2][i])]
    <3>1. NodeConnections(g) = Seqs!FlattenSeq(ss)
      BY DEF NodeConnections
    <3>2. DOMAIN ss = {}
      BY <2>1
    <3> HIDE DEF ss
    <3>3. ss = <<>>
      <4>1. ss = [i \in DOMAIN ss |-> ss[i]]
        BY DEF ss
      <4> QED BY <3>2, <4>1
    <3>4. <<>> \in Seq(Seq({}))
      OBVIOUS
    <3> QED BY <2>2, <3>1, <3>3, <3>4
  <2>4. KeptSeen(m, gone) = <<>>
    <3> DEFINE ss == [i \in DOMAIN m.users |-> IF i \in gone THEN <<>> ELSE SeenOf(m, m.users[i])]
    <3>1. ss = [i \in DOMAIN m.users |-> <<>>]
      BY <1>4
    <3>2. DOMAIN m.users = 1 .. Len(m.users) /\ Len(m.users) \in Nat
      <4>1. m.users \in Seq(Uints)
        BY MessageOfSnapshot
      <4> QED BY <4>1
    <3>3. KeptSeen(m, gone) = Seqs!FlattenSeq(ss)
      BY DEF KeptSeen
    <3> HIDE DEF ss
    <3>4. ss \in Seq(Seq({}))
      BY <3>1, <3>2
    <3> QED BY <2>2, <3>3, <3>4
  <2>5. Said(m, version, gone) = <<>>
    <3>1. Said(m, version, gone) = [i \in DOMAIN KeptSeen(m, gone) |->
              [ts |-> m.ts, node |-> m.node, user |-> KeptSeen(m, gone)[i].user,
               ip |-> KeptSeen(m, gone)[i].ip, seen |-> KeptSeen(m, gone)[i].seen]]
      BY DEF Said
    <3>2. DOMAIN KeptSeen(m, gone) = {}
      BY <2>4
    <3> QED BY <3>1, <3>2
  <2> QED BY <2>3, <2>5
<1> QED BY <1>2, <1>3, <1>4

\* One bad user or time refuses the snapshot.
LEMMA BadUserRefused ==
    ASSUME NEW m \in Messages, m.stream = "node_connections", NEW u \in SpoiltUsers(Grouped(m))
    PROVE  \E i \in DOMAIN u : ~IsUint(u[i].userId) \/ \E j \in DOMAIN u[i].ips : ~IsTime(u[i].ips[j].lastSeen)
<1> DEFINE U == Grouped(m)
<1>1. CASE \E i \in DOMAIN U, bad \in Bad : u = [U EXCEPT ![i].userId = bad]
  <2>1. PICK i \in DOMAIN U, bad \in Bad : u = [U EXCEPT ![i].userId = bad]
    BY <1>1
  <2>2. U[i] = [userId |-> m.users[i], ips |-> U[i].ips]
    BY DEF Grouped
  <2> HIDE DEF U
  <2>3. i \in DOMAIN u /\ u[i].userId = bad
    BY <2>1, <2>2
  <2> QED BY <2>3, BadTexts
<1>2. CASE \E i \in DOMAIN U : \E j \in DOMAIN U[i].ips : u = [U EXCEPT ![i].ips[j].lastSeen = Junk]
  <2>0. PICK i \in DOMAIN U : \E j \in DOMAIN U[i].ips : u = [U EXCEPT ![i].ips[j].lastSeen = Junk]
    BY <1>2
  <2>1. PICK j \in DOMAIN U[i].ips : u = [U EXCEPT ![i].ips[j].lastSeen = Junk]
    BY <2>0
  <2>2. /\ U[i] = [userId |-> m.users[i], ips |-> U[i].ips]
        /\ U[i].ips = [k \in DOMAIN U[i].ips |-> U[i].ips[k]]
        /\ U[i].ips[j] = [ip |-> U[i].ips[j].ip, lastSeen |-> U[i].ips[j].lastSeen]
    BY DEF Grouped
  <2> HIDE DEF U
  <2>3. i \in DOMAIN u /\ u[i] = [U[i] EXCEPT !.ips[j].lastSeen = Junk]
    BY <2>1
  <2>4. u[i].ips = [U[i].ips EXCEPT ![j].lastSeen = Junk]
    BY <2>2, <2>3
  <2>5. j \in DOMAIN u[i].ips /\ u[i].ips[j].lastSeen = Junk
    BY <2>2, <2>4
  <2> QED BY <2>3, <2>5, BadTexts DEF Bad
<1> HIDE DEF U
<1>3. \/ u \in {[U EXCEPT ![i].userId = bad] : i \in DOMAIN U, bad \in Bad}
      \/ u \in UNION {{[U EXCEPT ![i].ips[j].lastSeen = Junk] : j \in DOMAIN U[i].ips} : i \in DOMAIN U}
  BY DEF SpoiltUsers, U
<1> QED BY <1>1, <1>2, <1>3

\* One that is spoilt is refused, or says the same.
LEMMA SnapshotSpoilt ==
    ASSUME NEW m \in Messages, m.stream = "node_connections", NEW version,
           NEW g \in Spoilt(Encode(m, version)), NodeConnectionsAccepted(g)
    PROVE  NodeConnections(g) = NodeConnections(Encode(m, version))
<1> DEFINE f == Encode(m, version)
           U == Grouped(m)
<1>0. g \in Spoilt(f)
  OBVIOUS
<1>1. f = [v |-> Numeral(1), nodeId |-> m.node, ts |-> m.ts, users |-> Json(U)]
  BY EncodedSnapshot
<1> HIDE DEF f, U
<1>2. Str(g, "nodeId") = Str(f, "nodeId") /\ Str(g, "ts") = Str(f, "ts")
  BY <1>0, SpoiltText, BadTexts DEF NodeConnectionsAccepted
<1>3. "nodeId" \in DOMAIN g /\ "ts" \in DOMAIN g /\ "users" \in DOMAIN g /\ Reads(g["users"], "json")
  BY DEF NodeConnectionsAccepted, Str, IsUint, IsTime, Reads
<1>4. g["nodeId"] = f["nodeId"] /\ g["ts"] = f["ts"]
  BY <1>1, <1>2, <1>3 DEF Str
<1>5. g["users"] = f["users"]
  <2>1. CASE g = <<>>
    BY <2>1, <1>3
  <2>2. CASE \E key \in DOMAIN f : g = Restrict(f, DOMAIN f \ {key})
    BY <2>2, <1>3 DEF Restrict
  <2>3. CASE \E key \in DOMAIN f, bad \in Bad : g = [f EXCEPT ![key] = bad]
    BY <2>3, <1>3, BadTexts
  <2>4. ASSUME NEW u \in SpoiltUsers(f["users"][2]), g = [f EXCEPT !["users"] = Json(u)]
        PROVE  FALSE
    <3>1. f["users"][2] = Grouped(m) /\ g["users"][2] = u
      BY <1>1, <2>4 DEF Json, U
    <3>2. \E i \in DOMAIN u : ~IsUint(u[i].userId) \/ \E j \in DOMAIN u[i].ips : ~IsTime(u[i].ips[j].lastSeen)
      BY <2>4, <3>1, BadUserRefused
    <3> QED BY <3>1, <3>2 DEF NodeConnectionsAccepted
  <2>5. "records" \notin DOMAIN f
    BY <1>1
  <2> QED BY <2>1, <2>2, <2>3, <2>4, <2>5, <1>0, SpoiltCases
<1> QED BY <1>4, <1>5 DEF NodeConnections, f

-----------------------------------------------------------------------------
(* Subscription requests *)

\* A field the panel writes; one without a text is as good as none.
LEMMA EncodedText ==
    ASSUME NEW m, NEW version, NEW key
    PROVE  Str(Encode(m, version), key)
             = IF key \in DOMAIN Fields(m, version) THEN Fields(m, version)[key] ELSE Empty
<1> DEFINE F == Fields(m, version)
<1>1. Encode(m, version) = [k \in {x \in DOMAIN F : F[x] # Empty} |-> F[k]]
  BY DEF Encode, RestrictValues, Restrict
<1> HIDE DEF F
<1>2. Str(Encode(m, version), key) = IF key \in DOMAIN F THEN F[key] ELSE Empty
  BY <1>1 DEF Str
<1> QED BY <1>2 DEF F

\* What the panel may mean by a request.
LEMMA MessageOfRequest ==
    ASSUME NEW m \in Messages, m.stream = "sub_requests"
    PROVE  /\ m.user \in Uints
           /\ IsTime(m.ts)
           /\ Reads(m.agent, "agent") => m.agent[2] \subseteq Range(Rules)
BY PanelAssumption DEF MessagesAssumption

\* A field of a request reads as it was meant.
LEMMA RequestText ==
    ASSUME NEW m \in Messages, m.stream = "sub_requests", NEW version \in Versions
    PROVE  LET f == Encode(m, version)
           IN  /\ Str(f, "v") = Numeral(1)
               /\ Str(f, "userId") = m.user
               /\ Str(f, "requestAt") = m.ts
               /\ Str(f, "requestIp") = m.ip
               /\ Str(f, "userAgent") = m.agent
               /\ FirstStr(f, "srrResponseType", "ssrResponseType") = IF version = "3.0.0" THEN Empty ELSE m.response
               /\ Str(f, "srrRuleName") = IF version = "3.0.0" THEN Empty ELSE m.rule
<1> DEFINE f == Encode(m, version)
           F == [v |-> Numeral(1), userId |-> m.user, requestAt |-> m.ts, requestIp |-> m.ip, userAgent |-> m.agent,
                 srrResponseType |-> IF version = "3.4.4" THEN m.response ELSE Empty,
                 ssrResponseType |-> IF version = "3.1.0" THEN m.response ELSE Empty,
                 srrRuleName |-> IF version = "3.0.0" THEN Empty ELSE m.rule]
<1>1. Fields(m, version) = F
  BY DEF Fields
<1>2. \A key \in DOMAIN F : Str(f, key) = F[key]
  BY <1>1, EncodedText
<1> HIDE DEF f
<1>3. /\ Str(f, "srrResponseType") = IF version = "3.4.4" THEN m.response ELSE Empty
      /\ Str(f, "ssrResponseType") = IF version = "3.1.0" THEN m.response ELSE Empty
  BY <1>2
<1>4. FirstStr(f, "srrResponseType", "ssrResponseType") = IF version = "3.0.0" THEN Empty ELSE m.response
  BY <1>3 DEF FirstStr, Versions
<1>5. /\ Str(f, "v") = Numeral(1)
      /\ Str(f, "userId") = m.user
      /\ Str(f, "requestAt") = m.ts
      /\ Str(f, "requestIp") = m.ip
      /\ Str(f, "userAgent") = m.agent
      /\ Str(f, "srrRuleName") = IF version = "3.0.0" THEN Empty ELSE m.rule
  BY <1>2
<1> QED BY <1>4, <1>5 DEF f

\* An accepted request has a user and a time, not the empty text for them.
LEMMA AcceptedRequest ==
    ASSUME NEW f, SubRequestAccepted(f)
    PROVE  f["requestAt"] = Str(f, "requestAt") /\ f["userId"] = Str(f, "userId")
BY DEF SubRequestAccepted, Str, IsUint, IsTime, Reads

\* The panel's entry gives the request it meant, in every version's spelling.
LEMMA RequestRead ==
    ASSUME NEW m \in Messages, m.stream = "sub_requests", NEW version \in Versions
    PROVE  /\ SubRequestAccepted(Encode(m, version))
           /\ SubRequest(Encode(m, version)) = Said(m, version, {})
<1> DEFINE f == Encode(m, version)
<1>1. /\ Str(f, "v") = Numeral(1)
      /\ Str(f, "userId") = m.user
      /\ Str(f, "requestAt") = m.ts
      /\ Str(f, "requestIp") = m.ip
      /\ Str(f, "userAgent") = m.agent
      /\ FirstStr(f, "srrResponseType", "ssrResponseType") = IF version = "3.0.0" THEN Empty ELSE m.response
      /\ Str(f, "srrRuleName") = IF version = "3.0.0" THEN Empty ELSE m.rule
  BY RequestText
<1> HIDE DEF f
<1>2. SubRequestAccepted(f)
  BY <1>1, MessageOfRequest, UintTexts DEF SubRequestAccepted, CheckVersion
<1>3. f["requestAt"] = m.ts /\ f["userId"] = m.user
  BY <1>1, <1>2, AcceptedRequest
<1>4. SubRequest(f) = Said(m, version, {})
  BY <1>1, <1>3 DEF SubRequest, Said
<1> QED BY <1>2, <1>4 DEF f

\* A spoilt one that is accepted keeps its user and its time; what else it says
\* is as it was, or bad.
LEMMA RequestSpoilt ==
    ASSUME NEW m \in Messages, m.stream = "sub_requests", NEW version \in Versions,
           NEW g \in Spoilt(Encode(m, version)), SubRequestAccepted(g)
    PROVE  /\ SubRequest(g)[1].ts = m.ts
           /\ SubRequest(g)[1].user = m.user
           /\ SubRequest(g)[1].agent = m.agent \/ SubRequest(g)[1].agent \in Bad
<1>1. Str(g, "userId") = m.user /\ Str(g, "requestAt") = m.ts
  BY SpoiltText, BadTexts, RequestText DEF SubRequestAccepted
<1>2. Str(g, "userAgent") = m.agent \/ Str(g, "userAgent") \in Bad
  BY SpoiltText, RequestText
<1>3. g["requestAt"] = m.ts /\ g["userId"] = m.user
  BY <1>1, AcceptedRequest
<1> QED BY <1>2, <1>3 DEF SubRequest

-----------------------------------------------------------------------------
(* Addresses *)

\* Unmapping leaves the two families there are.
LEMMA UnmapFamily ==
    ASSUME NEW a, a.family \in Families
    PROVE  /\ a.family = "4in6" => Unmap(a) = [family |-> "v4", bits |-> <<a.bits[4], a.bits[5]>>]
           /\ a.family # "4in6" => Unmap(a) = a
           /\ Unmap(a).family \in {"v4", "v6"}
           /\ Unmap(a).family = "v6" <=> a.family = "v6"
BY DEF Unmap, V4, Families

\* A prefix of one piece.
LEMMA FirstPiece ==
    ASSUME NEW bits
    PROVE  SubSeq(bits, 1, 1) = <<bits[1]>>
<1>1. SubSeq(bits, 1, 1) = [i \in 1 .. 1 |-> bits[i]]
  OBVIOUS
<1>2. <<bits[1]>> = [i \in 1 .. 1 |-> bits[i]]
  <2>1. 1 .. 1 = {1}
    OBVIOUS
  <2>2. [i \in {1} |-> bits[i]] = [i \in {1} |-> <<bits[1]>>[i]]
    OBVIOUS
  <2> QED BY <2>1, <2>2
<1> QED BY <1>1, <1>2

\* Two prefixes are equal exactly if the blocks are.
LEMMA PrefixIsBlock ==
    ASSUME NEW a, a.family \in Families, NEW b, b.family \in Families
    PROVE  Prefix(a) = Prefix(b) <=> Block(a) = Block(b)
<1> DEFINE x == Unmap(a)
           y == Unmap(b)
<1>1. /\ x.family \in {"v4", "v6"} /\ (x.family = "v6" <=> a.family = "v6")
      /\ y.family \in {"v4", "v6"} /\ (y.family = "v6" <=> b.family = "v6")
      /\ (a.family = "v6" => x = a) /\ (b.family = "v6" => y = b)
  BY UnmapFamily
<1>2. Prefix(a) = [family |-> x.family, bits |-> SubSeq(x.bits, 1, IF a.family = "v6" THEN 2 ELSE 1)]
  BY DEF Prefix
<1>3. Prefix(b) = [family |-> y.family, bits |-> SubSeq(y.bits, 1, IF b.family = "v6" THEN 2 ELSE 1)]
  BY DEF Prefix
<1>4. Block(a) = IF a.family = "v6" THEN SubSeq(x.bits, 1, 2) ELSE <<x.bits[1]>>
  BY <1>1 DEF Block
<1>5. Block(b) = IF b.family = "v6" THEN SubSeq(y.bits, 1, 2) ELSE <<y.bits[1]>>
  BY <1>1 DEF Block
<1>6. SubSeq(x.bits, 1, 1) = <<x.bits[1]>> /\ SubSeq(y.bits, 1, 1) = <<y.bits[1]>>
  BY FirstPiece
<1>7. Len(SubSeq(x.bits, 1, 2)) = 2 /\ Len(SubSeq(y.bits, 1, 2)) = 2
  OBVIOUS
<1>8. <<x.bits[1]>> # SubSeq(y.bits, 1, 2) /\ <<y.bits[1]>> # SubSeq(x.bits, 1, 2)
  <2>1. Len(<<x.bits[1]>>) = 1 /\ Len(<<y.bits[1]>>) = 1
    OBVIOUS
  <2> QED BY <2>1, <1>7
<1> HIDE DEF x, y
<1>9. CASE a.family = "v6" /\ b.family = "v6"
  BY <1>1, <1>2, <1>3, <1>4, <1>5, <1>9
<1>10. CASE a.family # "v6" /\ b.family # "v6"
  BY <1>1, <1>2, <1>3, <1>4, <1>5, <1>6, <1>10
<1>11. CASE a.family = "v6" /\ b.family # "v6"
  <2>1. Prefix(a).family # Prefix(b).family
    BY <1>1, <1>2, <1>3, <1>11
  <2> QED BY <2>1, <1>4, <1>5, <1>8, <1>11
<1>12. CASE a.family # "v6" /\ b.family = "v6"
  <2>1. Prefix(a).family # Prefix(b).family
    BY <1>1, <1>2, <1>3, <1>12
  <2> QED BY <2>1, <1>4, <1>5, <1>8, <1>12
<1> QED BY <1>9, <1>10, <1>11, <1>12

\* How an address is written does not matter to what is looked up.
LEMMA SpellingLookedUp ==
    ASSUME NEW r, IsAddress(r), IsSpelled(r), NEW s, IsAddress(s), IsSpelled(s),
           Unmap(ParseAddr(r)) = Unmap(ParseAddr(s)), NEW readers, NEW set
    PROVE  Lookup(r, readers) = Lookup(s, readers) /\ Contains(set, r) = Contains(set, s)
<1> DEFINE a == ParseAddr(r)
           b == ParseAddr(s)
<1>1. a.family \in Families /\ b.family \in Families /\ Unmap(a) = Unmap(b)
  BY DEF IsSpelled
<1>2. a.family = "v6" <=> b.family = "v6"
  BY <1>1, UnmapFamily
<1>3. Prefix(a) = Prefix(b)
  BY <1>1, <1>2 DEF Prefix
<1>4. IsLocal(a) = IsLocal(b)
  BY <1>1 DEF IsLocal
<1>5. \A reader, default : Held(reader, a, default) = Held(reader, b, default)
  BY <1>1 DEF Held
<1>6. Contains(set, r) = Contains(set, s)
  BY <1>1 DEF Contains
<1> HIDE DEF a, b
<1>7. Lookup(r, readers) = Lookup(s, readers)
  BY <1>3, <1>4, <1>5 DEF Lookup, a, b
<1> QED BY <1>6, <1>7

\* The prefix is that of the address, whatever the readers hold.
LEMMA PrefixLookedUp ==
    ASSUME NEW r, IsAddress(r), NEW readers
    PROVE  Lookup(r, readers).prefix = Prefix(ParseAddr(r))
BY DEF Lookup

\* The own-address set holds addresses in their short form.
LEMMA OwnSetFamilies ==
    ASSUME NEW texts \in OwnTexts
    PROVE  \A address \in SetOf(texts) : address.family \in {"v4", "v6"}
<1> TAKE address \in SetOf(texts)
<1>1. PICK t \in texts : IsAddress(t) /\ address = Unmap(ParseAddr(t))
  BY DEF SetOf
<1>2. ParseAddr(t).family \in Families
  BY <1>1, PanelAssumption DEF OwnTextsAssumption, IsSpelled
<1> QED BY <1>1, <1>2, UnmapFamily

-----------------------------------------------------------------------------
(* User agents *)

\* Which of the four lists the i-th rule is of.
RankAt(i) == IF i <= 29 THEN 1 ELSE IF i <= 44 THEN 2 ELSE IF i <= 48 THEN 3 ELSE 4

\* How many rules each kind has.
LEMMA Lengths == /\ DOMAIN Clients = 1 .. 29 /\ Len(Clients) = 29
                 /\ DOMAIN Scripts = 1 .. 15 /\ Len(Scripts) = 15
                 /\ DOMAIN Bots = 1 .. 4 /\ Len(Bots) = 4
                 /\ DOMAIN Browsers = 1 .. 7 /\ Len(Browsers) = 7
BY DEF Clients, Scripts, Bots, Browsers

\* The needles of all lists.
Needle == Range(Clients) \cup Range(Scripts) \cup Range(Bots) \cup Range(Browsers)

\* The lists of needles are sequences.
LEMMA ListsAreSequences == /\ Clients \in Seq(Needle) /\ Scripts \in Seq(Needle)
                           /\ Bots \in Seq(Needle) /\ Browsers \in Seq(Needle)
<1>1. ASSUME NEW s, NEW n \in Nat, s = [i \in 1 .. n |-> s[i]], Range(s) \subseteq Needle
      PROVE  s \in Seq(Needle)
  <2>1. \A i \in 1 .. n : s[i] \in Needle
    BY <1>1 DEF Range
  <2>2. s \in [1 .. n -> Needle]
    BY <1>1, <2>1
  <2> QED BY <2>2
<1>2. Clients = [i \in 1 .. 29 |-> Clients[i]]
  BY DEF Clients
<1>3. Scripts = [i \in 1 .. 15 |-> Scripts[i]]
  BY DEF Scripts
<1>4. Bots = [i \in 1 .. 4 |-> Bots[i]]
  BY DEF Bots
<1>5. Browsers = [i \in 1 .. 7 |-> Browsers[i]]
  BY DEF Browsers
<1>6. /\ Range(Clients) \subseteq Needle /\ Range(Scripts) \subseteq Needle
      /\ Range(Bots) \subseteq Needle /\ Range(Browsers) \subseteq Needle
  BY DEF Needle
<1> QED BY <1>1, <1>2, <1>3, <1>4, <1>5, <1>6

\* The elements of two sequences put together.
LEMMA Joined ==
    ASSUME NEW A, NEW s \in Seq(A), NEW t \in Seq(A)
    PROVE  /\ s \o t \in Seq(A)
           /\ Len(s \o t) = Len(s) + Len(t)
           /\ \A i \in 1 .. Len(s) : (s \o t)[i] = s[i]
           /\ \A i \in Len(s) + 1 .. Len(s) + Len(t) : (s \o t)[i] = t[i - Len(s)]
<1>1. s \o t \in Seq(A)
  OBVIOUS
<1>2. Len(s \o t) = Len(s) + Len(t)
  OBVIOUS
<1>3. \A i \in 1 .. Len(s) : (s \o t)[i] = s[i]
  OBVIOUS
<1>4. \A i \in Len(s) + 1 .. Len(s) + Len(t) : (s \o t)[i] = t[i - Len(s)]
  OBVIOUS
<1> QED BY <1>1, <1>2, <1>3, <1>4

\* The rules are the four lists, one behind the other.
LEMMA RulesAt ==
    /\ DOMAIN Rules = 1 .. 55
    /\ \A i \in 1 .. 29 : Rules[i] = Clients[i]
    /\ \A i \in 30 .. 44 : Rules[i] = Scripts[i - 29]
    /\ \A i \in 45 .. 48 : Rules[i] = Bots[i - 44]
    /\ \A i \in 49 .. 55 : Rules[i] = Browsers[i - 48]
<1> DEFINE two == Clients \o Scripts
           three == two \o Bots
<1>0. 29 + 15 = 44 /\ 44 + 4 = 48 /\ 48 + 7 = 55 /\ 29 + 1 = 30 /\ 44 + 1 = 45 /\ 48 + 1 = 49
  OBVIOUS
<1>1. /\ two \in Seq(Needle) /\ Len(two) = Len(Clients) + Len(Scripts)
      /\ \A i \in 1 .. Len(Clients) : two[i] = Clients[i]
      /\ \A i \in Len(Clients) + 1 .. Len(Clients) + Len(Scripts) : two[i] = Scripts[i - Len(Clients)]
  BY Joined, ListsAreSequences
<1> HIDE DEF two
<1>2. /\ Len(two) = 44
      /\ \A i \in 1 .. 29 : two[i] = Clients[i]
      /\ \A i \in 30 .. 44 : two[i] = Scripts[i - 29]
  BY <1>0, <1>1, Lengths
<1>3. /\ three \in Seq(Needle) /\ Len(three) = Len(two) + Len(Bots)
      /\ \A i \in 1 .. Len(two) : three[i] = two[i]
      /\ \A i \in Len(two) + 1 .. Len(two) + Len(Bots) : three[i] = Bots[i - Len(two)]
  <2>1. two \in Seq(Needle)
    BY <1>1
  <2> QED BY <2>1, Joined, ListsAreSequences
<1>4. Rules = three \o Browsers
  BY DEF Rules, two
<1> HIDE DEF three
<1>5. /\ Len(three) = 48
      /\ \A i \in 1 .. 44 : three[i] = two[i]
      /\ \A i \in 45 .. 48 : three[i] = Bots[i - 44]
  BY <1>0, <1>2, <1>3, Lengths
<1>6. /\ Rules \in Seq(Needle) /\ Len(Rules) = Len(three) + Len(Browsers)
      /\ \A i \in 1 .. Len(three) : Rules[i] = three[i]
      /\ \A i \in Len(three) + 1 .. Len(three) + Len(Browsers) : Rules[i] = Browsers[i - Len(three)]
  <2>1. three \in Seq(Needle)
    BY <1>3
  <2> QED BY <2>1, <1>4, Joined, ListsAreSequences
<1>7. /\ Len(Rules) = 55
      /\ \A i \in 1 .. 48 : Rules[i] = three[i]
      /\ \A i \in 49 .. 55 : Rules[i] = Browsers[i - 48]
  BY <1>0, <1>5, <1>6, Lengths
<1>8. \A i \in 1 .. 29 : Rules[i] = Clients[i]
  BY <1>2, <1>5, <1>7
<1>9. \A i \in 30 .. 44 : Rules[i] = Scripts[i - 29]
  <2> TAKE i \in 30 .. 44
  <2>1. i \in 1 .. 44 /\ i \in 1 .. 48
    OBVIOUS
  <2> QED BY <2>1, <1>2, <1>5, <1>7
<1>10. \A i \in 45 .. 48 : Rules[i] = Bots[i - 44]
  <2> TAKE i \in 45 .. 48
  <2>1. i \in 1 .. 48
    OBVIOUS
  <2> QED BY <2>1, <1>5, <1>7
<1>11. DOMAIN Rules = 1 .. 55
  <2>1. Rules \in Seq(Needle) /\ Len(Rules) = 55
    BY <1>6, <1>7
  <2> QED BY <2>1
<1> QED BY <1>7, <1>8, <1>9, <1>10, <1>11

\* No needle is on two lists.
LEMMA ListsAreApart ==
    /\ \A i \in 1 .. 15, j \in 1 .. 29 : Scripts[i] # Clients[j]
    /\ \A i \in 1 .. 4, j \in 1 .. 29 : Bots[i] # Clients[j]
    /\ \A i \in 1 .. 4, j \in 1 .. 15 : Bots[i] # Scripts[j]
    /\ \A i \in 1 .. 7, j \in 1 .. 29 : Browsers[i] # Clients[j]
    /\ \A i \in 1 .. 7, j \in 1 .. 15 : Browsers[i] # Scripts[j]
    /\ \A i \in 1 .. 7, j \in 1 .. 4 : Browsers[i] # Bots[j]
BY DEF Clients, Scripts, Bots, Browsers

\* A needle is of the kind of the list it is on.
LEMMA KindOfRule ==
    ASSUME NEW i \in 1 .. 55
    PROVE  KindOf(Rules[i]) = Ranks[RankAt(i)]
<1> DEFINE n == Rules[i]
<1>r. Ranks[1] = "client" /\ Ranks[2] = "script" /\ Ranks[3] = "bot" /\ Ranks[4] = "browser"
  BY DEF Ranks
<1>1. CASE i \in 1 .. 29
  <2>1. n \in Range(Clients)
    BY <1>1, RulesAt, Lengths DEF Range
  <2>2. n \notin Range(Scripts) /\ n \notin Range(Bots) /\ n \notin Range(Browsers)
    <3>1. n = Clients[i]
      BY <1>1, RulesAt
    <3> HIDE DEF n
    <3> QED BY <1>1, <3>1, Lengths, ListsAreApart DEF Range
  <2> HIDE DEF n
  <2>3. KindOf(n) = "client"
    BY <2>1, <2>2 DEF KindOf
  <2> QED BY <1>1, <1>r, <2>3 DEF n, RankAt
<1>2. CASE i \in 30 .. 44
  <2>1. n \in Range(Scripts)
    BY <1>2, RulesAt, Lengths DEF Range
  <2>2. n \notin Range(Clients) /\ n \notin Range(Bots) /\ n \notin Range(Browsers)
    <3>1. n = Scripts[i - 29] /\ i - 29 \in 1 .. 15
      BY <1>2, RulesAt
    <3> HIDE DEF n
    <3> QED BY <3>1, Lengths, ListsAreApart DEF Range
  <2> HIDE DEF n
  <2>3. KindOf(n) = "script"
    BY <2>1, <2>2 DEF KindOf
  <2> QED BY <1>2, <1>r, <2>3 DEF n, RankAt
<1>3. CASE i \in 45 .. 48
  <2>1. n \in Range(Bots)
    BY <1>3, RulesAt, Lengths DEF Range
  <2>2. n \notin Range(Clients) /\ n \notin Range(Scripts) /\ n \notin Range(Browsers)
    <3>1. n = Bots[i - 44] /\ i - 44 \in 1 .. 4
      BY <1>3, RulesAt
    <3> HIDE DEF n
    <3> QED BY <3>1, Lengths, ListsAreApart DEF Range
  <2> HIDE DEF n
  <2>3. KindOf(n) = "bot"
    BY <2>1, <2>2 DEF KindOf
  <2> QED BY <1>3, <1>r, <2>3 DEF n, RankAt
<1>4. CASE i \in 49 .. 55
  <2>1. n \in Range(Browsers)
    BY <1>4, RulesAt, Lengths DEF Range
  <2>2. n \notin Range(Clients) /\ n \notin Range(Scripts) /\ n \notin Range(Bots)
    <3>1. n = Browsers[i - 48] /\ i - 48 \in 1 .. 7
      BY <1>4, RulesAt
    <3> HIDE DEF n
    <3> QED BY <3>1, Lengths, ListsAreApart DEF Range
  <2> HIDE DEF n
  <2>3. KindOf(n) = "browser"
    BY <2>1, <2>2 DEF KindOf
  <2> QED BY <1>4, <1>r, <2>3 DEF n, RankAt
<1> QED BY <1>1, <1>2, <1>3, <1>4

\* A needle comes after those it is inside of.
LEMMA LongerNamesFirst ==
    ASSUME NEW p \in Inside, NEW i \in 1 .. 55, Rules[i] = p[1]
    PROVE  \E j \in 1 .. 55 : Rules[j] = p[2] /\ j < i
<1>1. /\ Clients[4] = "v2rayng" /\ Clients[14] = "clash-verge" /\ Clients[15] = "clashx"
      /\ \A k \in 1 .. 4 : Clients[k] # "v2rayn"
      /\ \A k \in 1 .. 15 : Clients[k] # "clash"
      /\ \A k \in 1 .. 29 : Clients[k] # "bot"
  BY DEF Clients
<1>2. \A k \in 1 .. 15 : Scripts[k] # "bot"
  BY DEF Scripts
<1>3. Bots[1] = "telegrambot" /\ Bots[1] # "bot"
  BY DEF Bots
<1>4. /\ Rules[4] = "v2rayng" /\ Rules[14] = "clash-verge" /\ Rules[15] = "clashx" /\ Rules[45] = "telegrambot"
      /\ \A k \in 1 .. 4 : Rules[k] # "v2rayn"
      /\ \A k \in 1 .. 15 : Rules[k] # "clash"
  BY <1>1, <1>3, RulesAt
<1>5. \A k \in 1 .. 45 : Rules[k] # "bot"
  <2> TAKE k \in 1 .. 45
  <2>1. k \in 1 .. 29 \/ k \in 30 .. 44 \/ k = 45
    OBVIOUS
  <2> QED BY <2>1, <1>1, <1>2, <1>4, RulesAt
<1>6. CASE p = <<"v2rayn", "v2rayng">>
  BY <1>4, <1>6
<1>7. CASE p = <<"clash", "clash-verge">>
  BY <1>4, <1>7
<1>8. CASE p = <<"clash", "clashx">>
  BY <1>4, <1>8
<1>9. CASE p = <<"bot", "telegrambot">>
  BY <1>4, <1>5, <1>9
<1> QED BY <1>6, <1>7, <1>8, <1>9 DEF Inside

\* Earlier rules are of no lesser kind.
LEMMA RanksInOrder ==
    ASSUME NEW i \in 1 .. 55, NEW j \in 1 .. 55, i <= j
    PROVE  RankAt(i) \in 1 .. 4 /\ RankAt(j) \in 1 .. 4 /\ RankAt(i) <= RankAt(j)
BY DEF RankAt

\* The four kinds differ.
LEMMA RanksDiffer ==
    ASSUME NEW q \in DOMAIN Ranks, NEW r \in DOMAIN Ranks, Ranks[q] = Ranks[r]
    PROVE  q = r
BY DEF Ranks

\* The first rule that matches names a needle of the text, none of whose longer
\* forms is there, and of the foremost kind of those that are there.
LEMMA FirstRule ==
    ASSUME NEW raw, Reads(raw, "agent"), raw[2] \subseteq Range(Rules), raw[2] # {}
    PROVE  /\ Classify(raw).family \in raw[2]
           /\ ~\E n \in raw[2] : <<Classify(raw).family, n>> \in Inside
           /\ \A n \in raw[2] : \A r \in DOMAIN Ranks :
                KindOf(n) = Ranks[r] => \E q \in 1 .. r : Classify(raw).kind = Ranks[q]
<1> DEFINE hits == {i \in 1 .. 55 : Rules[i] \in raw[2]}
           first == Min(hits)
<1>1. \A n \in raw[2] : \E j \in hits : Rules[j] = n
  BY RulesAt DEF Range
<1>2. first \in hits /\ \A j \in hits : first <= j
  <2>1. hits \subseteq Nat /\ hits # {}
    BY <1>1
  <2> HIDE DEF hits
  <2>2. \E x \in hits : \A y \in hits : x <= y
    BY <2>1, LeastNumber
  <2> QED BY <2>2 DEF Min
<1>3. Classify(raw) = [family |-> Rules[first], kind |-> KindOf(Rules[first])]
  <2>1. hits = IF Reads(raw, "agent") THEN {i \in DOMAIN Rules : Rules[i] \in raw[2]} ELSE {}
    BY RulesAt
  <2>2. hits # {} /\ raw # Empty
    BY <1>2 DEF Reads
  <2> HIDE DEF hits
  <2> QED BY <2>1, <2>2 DEF Classify
<1>4. first \in 1 .. 55 /\ Rules[first] \in raw[2]
  BY <1>2
<1> HIDE DEF first
<1>5. ASSUME NEW n \in raw[2], <<Rules[first], n>> \in Inside
      PROVE  FALSE
  <2>1. PICK j \in 1 .. 55 : Rules[j] = n /\ j < first
    <3>1. \E j \in 1 .. 55 : Rules[j] = <<Rules[first], n>>[2] /\ j < first
      BY <1>4, <1>5, LongerNamesFirst
    <3> QED BY <3>1
  <2>2. j \in hits
    BY <2>1
  <2> HIDE DEF hits
  <2> QED BY <1>2, <1>4, <2>1, <2>2
<1>6. ASSUME NEW n \in raw[2], NEW r \in DOMAIN Ranks, KindOf(n) = Ranks[r]
      PROVE  \E q \in 1 .. r : KindOf(Rules[first]) = Ranks[q]
  <2>1. PICK j \in hits : Rules[j] = n
    BY <1>1
  <2>2. j \in 1 .. 55 /\ first <= j
    BY <1>2
  <2>3. RankAt(first) \in 1 .. 4 /\ RankAt(j) \in 1 .. 4 /\ RankAt(first) <= RankAt(j)
    BY <1>4, <2>2, RanksInOrder
  <2>4. KindOf(n) = Ranks[RankAt(j)] /\ KindOf(Rules[first]) = Ranks[RankAt(first)]
    BY <1>4, <2>1, <2>2, KindOfRule
  <2>5. DOMAIN Ranks = 1 .. 4
    BY DEF Ranks
  <2>6. r = RankAt(j)
    BY <1>6, <2>3, <2>4, <2>5, RanksDiffer
  <2> QED BY <2>3, <2>4, <2>6
<1>7. Classify(raw).family = Rules[first] /\ Classify(raw).kind = KindOf(Rules[first])
  BY <1>3
<1> HIDE DEF hits
<1> QED BY <1>4, <1>5, <1>6, <1>7

-----------------------------------------------------------------------------
(* The invariant *)

\* The entry is the panel's, or one thing in it is wrong, or parts of it are empty.
EntryKnown ==
    /\ message = NoMessage => ~spoilt /\ at = "idle"
    /\ ~spoilt => lost = {}
    /\ message # NoMessage =>
        LET f == Encode(message, written)
        IN  IF spoilt THEN \/ entry \in Spoilt(f) /\ lost = {}
                           \/ entry \in Emptied(message, f, lost)
                      ELSE entry = f

\* The rows so far are the first ones of those parsed, labelled; the others wait.
Labelled(row) ==
    /\ message.stream = "sub_requests" => row.client = Classify(row.agent)
    /\ message.stream = "node_connections" =>
        /\ IsAddress(row.ip) => row.geo.prefix = Prefix(ParseAddr(row.ip))
        /\ ~swapped => row.geo = Lookup(row.ip, geo) /\ row.infra = Contains(own, row.ip)

Extends(row, p) ==
    /\ DOMAIN p \subseteq DOMAIN row
    /\ DOMAIN row \subseteq DOMAIN p \cup {"geo", "client", "infra"}
    /\ \A key \in DOMAIN p : row[key] = p[key]

Decoding ==
    /\ Accepted
    /\ message # NoMessage
    /\ rows \in Seq(Range(rows))
    /\ parsed \in Seq(Range(parsed))
    /\ Len(rows) + Len(parsed) = Len(Parsed)
    /\ \A i \in 1 .. Len(rows) : Extends(rows[i], Parsed[i]) /\ Labelled(rows[i])
    /\ \A i \in 1 .. Len(parsed) : parsed[i] = Parsed[Len(rows) + i]

RowsKnown ==
    /\ at \in {"idle", "malformed"} => rows = <<>>
    /\ at = "malformed" => message # NoMessage /\ ~Accepted
    /\ at \in {"enriching", "rows"} => Decoding

DInv == TypeOK /\ EntryKnown /\ RowsKnown

-----------------------------------------------------------------------------
(* What an entry gives *)

\* The columns of a row before it is labelled.
Columns(stream) ==
    CASE stream = "user_usage"       -> {"ts", "node", "user", "bytes"}
      [] stream = "sub_requests"     -> {"ts", "user", "ip", "agent", "response", "rule"}
      [] stream = "node_connections" -> {"ts", "node", "user", "ip", "seen"}

\* A message is of one of the three streams.
LEMMA Streams ==
    ASSUME NEW m \in Messages
    PROVE  /\ m.stream \in {"user_usage", "sub_requests", "node_connections"}
           /\ m # NoMessage
<1>1. m.stream \in {"user_usage", "sub_requests", "node_connections"}
  BY PanelAssumption DEF MessagesAssumption
<1>2. NoMessage.stream = "none"
  BY DEF NoMessage
<1> QED BY <1>1, <1>2

\* What a message says is a sequence of rows.
LEMMA SaidRows ==
    ASSUME NEW m \in Messages, NEW version, NEW gone
    PROVE  /\ Said(m, version, gone) \in Seq(Range(Said(m, version, gone)))
           /\ \A i \in 1 .. Len(Said(m, version, gone)) : DOMAIN Said(m, version, gone)[i] = Columns(m.stream)
<1>0. ASSUME NEW s, NEW n \in Nat, s = [i \in 1 .. n |-> s[i]]
      PROVE  s \in Seq(Range(s)) /\ Len(s) = n
  <2>1. \A i \in 1 .. n : s[i] \in Range(s)
    BY <1>0 DEF Range
  <2>2. s \in [1 .. n -> Range(s)]
    BY <1>0, <2>1
  <2> QED BY <2>2
<1> DEFINE s == Said(m, version, gone)
<1>1. CASE m.stream = "user_usage"
  <2> DEFINE kept == KeptRecords(m, gone)
  <2>1. kept \in Seq(Uints \X Uints)
    BY <1>1, RecordsKept
  <2> HIDE DEF kept
  <2>2. DOMAIN kept = 1 .. Len(kept) /\ Len(kept) \in Nat
    BY <2>1
  <2>3. s = [i \in 1 .. Len(kept) |->
              [ts |-> m.ts, node |-> m.node, user |-> kept[i][1], bytes |-> kept[i][2]]]
    BY <1>1, <2>2 DEF Said, kept
  <2> HIDE DEF s
  <2>4. s = [i \in 1 .. Len(kept) |-> s[i]]
    BY <2>3
  <2>5. \A i \in 1 .. Len(kept) : DOMAIN s[i] = {"ts", "node", "user", "bytes"}
    BY <2>3
  <2> QED BY <1>0, <1>1, <2>2, <2>4, <2>5 DEF Columns, s
<1>2. CASE m.stream = "sub_requests"
  <2>1. PICK r : /\ s = <<r>>
                 /\ DOMAIN r = {"ts", "user", "ip", "agent", "response", "rule"}
    BY <1>2 DEF Said
  <2> HIDE DEF s
  <2>2. s = [i \in 1 .. 1 |-> s[i]] /\ s[1] = r
    BY <2>1
  <2>3. \A i \in 1 .. 1 : DOMAIN s[i] = Columns(m.stream)
    BY <1>2, <2>1, <2>2 DEF Columns
  <2>4. s \in Seq(Range(s)) /\ Len(s) = 1
    BY <1>0, <2>2
  <2> QED BY <2>3, <2>4 DEF s
<1>3. CASE m.stream = "node_connections"
  <2> DEFINE kept == KeptSeen(m, gone)
  <2>1. kept \in Seq(Range(m.seen))
    BY <1>3, SeenKept
  <2> HIDE DEF kept
  <2>2. DOMAIN kept = 1 .. Len(kept) /\ Len(kept) \in Nat
    BY <2>1
  <2>3. s = [i \in 1 .. Len(kept) |->
              [ts |-> m.ts, node |-> m.node, user |-> kept[i].user, ip |-> kept[i].ip, seen |-> kept[i].seen]]
    BY <1>3, <2>2 DEF Said, kept
  <2> HIDE DEF s
  <2>4. s = [i \in 1 .. Len(kept) |-> s[i]]
    BY <2>3
  <2>5. \A i \in 1 .. Len(kept) : DOMAIN s[i] = {"ts", "node", "user", "ip", "seen"}
    BY <2>3
  <2> QED BY <1>0, <1>3, <2>2, <2>4, <2>5 DEF Columns, s
<1> QED BY <1>1, <1>2, <1>3, Streams

\* As the panel wrote it, an entry is accepted and gives what was said.
LEMMA IntactEntry ==
    ASSUME TypeOK, EntryKnown, message # NoMessage, ~spoilt
    PROVE  Accepted /\ Parsed = Said(message, written, lost)
<1>1. message \in Messages /\ written \in Versions /\ entry = Encode(message, written) /\ lost = {}
  BY DEF TypeOK, EntryKnown
<1>2. CASE message.stream = "user_usage"
  BY <1>1, <1>2, UsageRead DEF Accepted, Parsed
<1>3. CASE message.stream = "sub_requests"
  BY <1>1, <1>3, RequestRead DEF Accepted, Parsed
<1>4. CASE message.stream = "node_connections"
  BY <1>1, <1>4, SnapshotRead DEF Accepted, Parsed
<1> QED BY <1>1, <1>2, <1>3, <1>4, Streams

\* Spoilt, it is refused or gives the rows of what is left, with the same in them
\* but for what a request may be without.
LEMMA SpoiltEntry ==
    ASSUME TypeOK, EntryKnown, message # NoMessage, spoilt, Accepted
    PROVE  IF message.stream = "sub_requests"
             THEN /\ Parsed = <<Parsed[1]>>
                  /\ DOMAIN Parsed[1] = Columns("sub_requests")
                  /\ Parsed[1].ts = message.ts
                  /\ Parsed[1].user = message.user
                  /\ Parsed[1].agent = message.agent \/ Parsed[1].agent \in Bad
             ELSE Parsed = Said(message, written, lost)
<1> DEFINE f == Encode(message, written)
<1>1. message \in Messages /\ written \in Versions
  BY DEF TypeOK
<1>0. (entry \in Spoilt(f) /\ lost = {}) \/ entry \in Emptied(message, f, lost)
  BY DEF EntryKnown
<1>2. CASE message.stream = "user_usage"
  <2>1. UserUsageAccepted(entry) /\ Parsed = UserUsage(entry)
    BY <1>2 DEF Accepted, Parsed
  <2>2. UserUsage(entry) = Said(message, written, lost)
    BY <1>0, <1>1, <1>2, <2>1, UsageRead, UsageSpoilt, UsageEmptied
  <2> QED BY <1>2, <2>1, <2>2
<1>3. CASE message.stream = "sub_requests"
  <2>1. SubRequestAccepted(entry) /\ Parsed = SubRequest(entry)
    BY <1>3 DEF Accepted, Parsed
  <2>4. entry \in Spoilt(f)
    BY <1>0, <1>3 DEF Emptied
  <2>2. /\ SubRequest(entry)[1].ts = message.ts
        /\ SubRequest(entry)[1].user = message.user
        /\ SubRequest(entry)[1].agent = message.agent \/ SubRequest(entry)[1].agent \in Bad
    BY <1>1, <1>3, <2>1, <2>4, RequestSpoilt
  <2>3. SubRequest(entry) = <<SubRequest(entry)[1]>> /\ DOMAIN SubRequest(entry)[1] = Columns("sub_requests")
    BY DEF SubRequest, Columns
  <2> QED BY <1>3, <2>1, <2>2, <2>3
<1>4. CASE message.stream = "node_connections"
  <2>1. NodeConnectionsAccepted(entry) /\ Parsed = NodeConnections(entry)
    BY <1>4 DEF Accepted, Parsed
  <2>2. NodeConnections(entry) = Said(message, written, lost)
    BY <1>0, <1>1, <1>4, <2>1, SnapshotRead, SnapshotSpoilt, SnapshotEmptied
  <2> QED BY <1>4, <2>1, <2>2
<1> QED BY <1>1, <1>2, <1>3, <1>4, Streams

\* In either case.
LEMMA ParsedRows ==
    ASSUME TypeOK, EntryKnown, message # NoMessage, Accepted
    PROVE  /\ Parsed \in Seq(Range(Parsed))
           /\ Len(Parsed) = Len(Said(message, written, lost))
           /\ \A i \in 1 .. Len(Parsed) : DOMAIN Parsed[i] = Columns(message.stream)
<1>0. message \in Messages
  BY DEF TypeOK
<1>1. CASE Parsed = Said(message, written, lost)
  BY <1>0, <1>1, SaidRows
<1>2. CASE message.stream = "sub_requests" /\ spoilt
  <2>1. Parsed = <<Parsed[1]>> /\ DOMAIN Parsed[1] = Columns("sub_requests")
    BY <1>2, SpoiltEntry
  <2>2. Len(Said(message, written, lost)) = 1
    BY <1>2 DEF Said
  <2>3. ASSUME NEW r PROVE Len(<<r>>) = 1 /\ <<r>> \in Seq(Range(<<r>>))
    BY DEF Range
  <2>4. Len(Parsed) = 1 /\ Parsed \in Seq(Range(Parsed))
    <3>1. Len(<<Parsed[1]>>) = 1 /\ <<Parsed[1]>> \in Seq(Range(<<Parsed[1]>>))
      BY <2>3
    <3> QED BY <2>1, <3>1, Zenon
  <2> QED BY <1>2, <2>1, <2>2, <2>4
<1> QED BY <1>1, <1>2, IntactEntry, SpoiltEntry

-----------------------------------------------------------------------------
(* The steps *)

\* At first there is no entry and there are no rows.
LEMMA InitialInvariant == Init => DInv
<1> SUFFICES ASSUME Init PROVE DInv
  OBVIOUS
<1>1. TypeOK
  BY DEF Init, TypeOK
<1>2. EntryKnown
  BY DEF Init, EntryKnown
<1>3. RowsKnown
  BY DEF Init, RowsKnown
<1> QED BY <1>1, <1>2, <1>3 DEF DInv

\* What depends on the message and the entry alone.
LEMMA SameEntry ==
    ASSUME message' = message, entry' = entry
    PROVE  Accepted' = Accepted /\ Parsed' = Parsed
BY DEF Accepted, Parsed

\* A message appears: nothing is decoded yet.
LEMMA PublishStep == DInv /\ Publish => DInv'
<1> SUFFICES ASSUME DInv, Publish PROVE DInv'
  OBVIOUS
<1>1. message = NoMessage /\ message' \in Messages /\ entry' = Encode(message', written)
      /\ UNCHANGED <<written, spoilt, lost, own, geo, at, parsed, rows, swapped>>
  BY DEF Publish, sources, decode
<1>2. at = "idle" /\ ~spoilt /\ lost = {}
  BY <1>1 DEF DInv, EntryKnown
<1>3. TypeOK'
  BY <1>1 DEF DInv, TypeOK
<1>4. EntryKnown'
  BY <1>1, <1>2, Streams DEF EntryKnown
<1>5. RowsKnown'
  BY <1>1, <1>2 DEF DInv, RowsKnown
<1> QED BY <1>3, <1>4, <1>5 DEF DInv

\* What was decoded of the entry is forgotten with it.
LEMMA SpoilStep == DInv /\ Spoil => DInv'
<1> SUFFICES ASSUME DInv, Spoil PROVE DInv'
  OBVIOUS
<1>1. TypeOK'
  <2>1. lost' \subseteq Nat
    <3>1. message \in Messages
      BY DEF DInv, Spoil, TypeOK
    <3>2. Parts(message) \subseteq Nat
      <4>1. CASE message.stream = "user_usage"
        <5>1. message.records \in Seq(Uints \X Uints)
          BY <3>1, <4>1, EncodedUsage
        <5>2. DOMAIN message.records \subseteq Nat
          BY <5>1
        <5> QED BY <4>1, <5>2 DEF Parts
      <4>2. CASE message.stream = "sub_requests"
        BY <4>2 DEF Parts
      <4>3. CASE message.stream = "node_connections"
        <5>1. message.users \in Seq(Uints)
          BY <3>1, <4>3, MessageOfSnapshot
        <5>2. DOMAIN message.users \subseteq Nat
          BY <5>1
        <5> QED BY <4>3, <5>2 DEF Parts
      <4> QED BY <3>1, <4>1, <4>2, <4>3, Streams
    <3> QED BY <3>2 DEF Spoil
  <2> QED BY <2>1 DEF DInv, Spoil, TypeOK, sources
<1>2. EntryKnown'
  <2>1. message # NoMessage /\ entry = Encode(message, written)
    BY DEF DInv, Spoil, EntryKnown
  <2>2. \/ entry' \in Spoilt(entry) /\ lost' = {}
        \/ entry' \in Emptied(message, entry, lost')
    BY DEF Spoil
  <2> QED BY <2>1, <2>2 DEF Spoil, EntryKnown
<1>3. RowsKnown'
  BY DEF Spoil, RowsKnown
<1> QED BY <1>1, <1>2, <1>3 DEF DInv

\* The sources of the labels change under a snapshot: its rows keep what they have.
LEMMA SourceStep == DInv /\ (RefreshNodes \/ Reload) => DInv'
<1> SUFFICES ASSUME DInv, RefreshNodes \/ Reload PROVE DInv'
  OBVIOUS
<1>1. /\ UNCHANGED <<message, written, entry, spoilt, lost, at, parsed, rows>>
      /\ swapped' = TRUE
      /\ own' = own \/ \E texts \in OwnTexts : own' = SetOf(texts)
      /\ geo' \in Readers
  BY DEF RefreshNodes, Reload, input, DInv, TypeOK
<1>2. TypeOK'
  BY <1>1, OwnSetFamilies DEF DInv, TypeOK
<1>3. EntryKnown'
  BY <1>1 DEF DInv, EntryKnown
<1>4. Accepted' = Accepted /\ Parsed' = Parsed
  BY <1>1, SameEntry
<1>5. Decoding => Decoding'
  BY <1>1, <1>4 DEF Decoding, Labelled
<1>6. RowsKnown'
  BY <1>1, <1>4, <1>5 DEF DInv, RowsKnown
<1> QED BY <1>2, <1>3, <1>6 DEF DInv

\* The rows Decode parses are those the entry stands for.
LEMMA DecodeStep == DInv /\ Decode => DInv'
<1> SUFFICES ASSUME DInv, Decode PROVE DInv'
  OBVIOUS
<1>1. /\ UNCHANGED <<message, written, entry, spoilt, lost, own, geo>>
      /\ message # NoMessage
      /\ at' = IF Accepted THEN "enriching" ELSE "malformed"
      /\ parsed' = IF Accepted THEN Parsed ELSE <<>>
      /\ rows' = <<>>
      /\ swapped' = FALSE
  BY DEF Decode, input, sources
<1>2. TypeOK'
  BY <1>1 DEF DInv, TypeOK
<1>3. EntryKnown'
  BY <1>1 DEF DInv, EntryKnown
<1>4. Accepted' = Accepted /\ Parsed' = Parsed
  BY <1>1, SameEntry
<1>5. Accepted => Decoding'
  <2> SUFFICES ASSUME Accepted PROVE Decoding'
    OBVIOUS
  <2>1. Parsed \in Seq(Range(Parsed))
    BY <1>1, ParsedRows DEF DInv
  <2>2. <<>> \in Seq(Range(<<>>)) /\ Len(<<>>) = 0
    OBVIOUS
  <2>3. Len(Parsed) \in Nat /\ \A i \in 1 .. Len(Parsed) : 0 + i = i
    BY <2>1
  <2> QED BY <1>1, <1>4, <2>1, <2>2, <2>3 DEF Decoding
<1>6. RowsKnown'
  BY <1>1, <1>4, <1>5 DEF RowsKnown
<1> QED BY <1>2, <1>3, <1>6 DEF DInv

\* A sequence with one more element.
LEMMA Appended ==
    ASSUME NEW s, s \in Seq(Range(s)), NEW e
    PROVE  /\ Append(s, e) \in Seq(Range(Append(s, e)))
           /\ Len(Append(s, e)) = Len(s) + 1
           /\ \A i \in 1 .. Len(s) : Append(s, e)[i] = s[i]
           /\ Append(s, e)[Len(s) + 1] = e
<1> DEFINE A == Range(s) \cup {e}
           t == Append(s, e)
<1>1. s \in Seq(A)
  OBVIOUS
<1>2. /\ t \in Seq(A)
      /\ Len(t) = Len(s) + 1
      /\ \A i \in 1 .. Len(s) : t[i] = s[i]
      /\ t[Len(s) + 1] = e
  <2> HIDE DEF A
  <2>1. e \in A
    BY DEF A
  <2> QED BY <1>1, <2>1
<1> HIDE DEF t
<1>3. \A i \in 1 .. Len(t) : t[i] \in Range(t)
  BY <1>2 DEF Range
<1>4. t \in Seq(Range(t))
  BY <1>2, <1>3
<1> QED BY <1>2, <1>4 DEF t

\* A sequence without its first element.
LEMMA TailOf ==
    ASSUME NEW s, s \in Seq(Range(s)), s # <<>>
    PROVE  /\ Tail(s) \in Seq(Range(Tail(s)))
           /\ Len(Tail(s)) = Len(s) - 1
           /\ \A i \in 1 .. Len(s) - 1 : Tail(s)[i] = s[i + 1]
           /\ Head(s) = s[1]
           /\ Len(s) >= 1
<1> DEFINE t == Tail(s)
<1>1. /\ t \in Seq(Range(s))
      /\ Len(t) = Len(s) - 1
      /\ \A i \in 1 .. Len(s) - 1 : t[i] = s[i + 1]
      /\ Head(s) = s[1]
      /\ Len(s) >= 1
  OBVIOUS
<1> HIDE DEF t
<1>2. \A i \in 1 .. Len(t) : t[i] \in Range(t)
  BY <1>1 DEF Range
<1>3. t \in Seq(Range(t))
  BY <1>1, <1>2
<1> QED BY <1>1, <1>3 DEF t

\* A row is labelled and joins the others.
LEMMA LabelledRow ==
    ASSUME NEW p, DOMAIN p = Columns(message.stream), message \in Messages
    PROVE  Extends(With(p, Added(p)), p) /\ Labelled(With(p, Added(p)))
<1>1. CASE message.stream = "user_usage"
  <2>1. DOMAIN Added(p) = {}
    BY <1>1 DEF Added
  <2> QED BY <1>1, <2>1 DEF With, Extends, Labelled
<1>2. CASE message.stream = "sub_requests"
  <2>1. DOMAIN p = {"ts", "user", "ip", "agent", "response", "rule"}
    BY <1>2 DEF Columns
  <2>2. Added(p) = [geo |-> Lookup(p.ip, geo), client |-> Classify(p.agent)]
    BY <1>2 DEF Added
  <2> QED BY <1>2, <2>1, <2>2 DEF With, Extends, Labelled
<1>3. CASE message.stream = "node_connections"
  <2>1. DOMAIN p = {"ts", "node", "user", "ip", "seen"}
    BY <1>3 DEF Columns
  <2>2. Added(p) = [geo |-> Lookup(p.ip, geo), infra |-> Contains(own, p.ip)]
    BY <1>3 DEF Added
  <2>3. IsAddress(p.ip) => Lookup(p.ip, geo).prefix = Prefix(ParseAddr(p.ip))
    BY PrefixLookedUp
  <2> QED BY <1>3, <2>1, <2>2, <2>3 DEF With, Extends, Labelled
<1> QED BY <1>1, <1>2, <1>3, Streams

\* One more row is labelled, the others stay.
LEMMA EnrichStep == DInv /\ Enrich => DInv'
<1> SUFFICES ASSUME DInv, Enrich PROVE DInv'
  OBVIOUS
<1> DEFINE p == Head(parsed)
           row == With(p, Added(p))
<1>1. /\ UNCHANGED <<message, written, entry, spoilt, lost, own, geo, at, swapped>>
      /\ at = "enriching"
      /\ parsed # <<>>
      /\ rows' = Append(rows, row)
      /\ parsed' = Tail(parsed)
  BY DEF Enrich, input, sources
<1>2. TypeOK'
  BY <1>1 DEF DInv, TypeOK
<1>3. EntryKnown'
  BY <1>1 DEF DInv, EntryKnown
<1>4. Accepted' = Accepted /\ Parsed' = Parsed
  BY <1>1, SameEntry
<1>5. Decoding /\ message \in Messages
  BY <1>1 DEF DInv, RowsKnown, Decoding, TypeOK
<1>6. DOMAIN p = Columns(message.stream) /\ p = Parsed[Len(rows) + 1]
  <2>1. Len(rows) \in Nat /\ Len(parsed) \in Nat /\ Len(parsed) >= 1 /\ p = parsed[1]
    BY <1>1, <1>5, TailOf DEF Decoding
  <2>2. p = Parsed[Len(rows) + 1] /\ Len(rows) + 1 \in 1 .. Len(Parsed)
    BY <1>5, <2>1 DEF Decoding
  <2> QED BY <1>5, <2>2, ParsedRows DEF DInv, Decoding
<1>7. Extends(row, p) /\ Labelled(row)
  BY <1>5, <1>6, LabelledRow
<1> HIDE DEF p, row
<1>8. Decoding'
  <2> DEFINE n == Len(rows)
  <2>1. n \in Nat /\ Len(parsed) \in Nat
    BY <1>5 DEF Decoding
  <2>2. /\ rows' \in Seq(Range(rows'))
        /\ Len(rows') = n + 1
        /\ \A i \in 1 .. n : rows'[i] = rows[i]
        /\ rows'[n + 1] = row
    BY <1>1, <1>5, Appended DEF Decoding
  <2>3. /\ parsed' \in Seq(Range(parsed'))
        /\ Len(parsed') = Len(parsed) - 1
        /\ \A i \in 1 .. Len(parsed) - 1 : parsed'[i] = parsed[i + 1]
    BY <1>1, <1>5, TailOf DEF Decoding
  <2>4. Len(rows') + Len(parsed') = Len(Parsed)
    <3>1. n + Len(parsed) = Len(Parsed)
      BY <1>5 DEF Decoding
    <3>2. (n + 1) + (Len(parsed) - 1) = n + Len(parsed)
      BY <2>1
    <3> QED BY <2>2, <2>3, <3>1, <3>2
  <2>5. ASSUME NEW i \in 1 .. Len(rows')
        PROVE  Extends(rows'[i], Parsed[i]) /\ Labelled(rows'[i])
    <3>1. CASE i \in 1 .. n
      BY <1>5, <2>2, <3>1 DEF Decoding
    <3>2. CASE i = n + 1
      BY <1>6, <1>7, <2>2, <3>2
    <3> QED BY <2>1, <2>2, <3>1, <3>2
  <2>6. ASSUME NEW i \in 1 .. Len(parsed')
        PROVE  parsed'[i] = Parsed[Len(rows') + i]
    <3>1. i + 1 \in 1 .. Len(parsed) /\ i \in 1 .. Len(parsed) - 1 /\ n + (i + 1) = (n + 1) + i
      BY <2>1, <2>3
    <3>2. parsed[i + 1] = Parsed[n + (i + 1)]
      BY <1>5, <3>1 DEF Decoding
    <3> QED BY <2>2, <2>3, <3>1, <3>2
  <2>7. \A r : Labelled(r) => Labelled(r)'
    BY <1>1 DEF Labelled
  <2> QED BY <1>1, <1>4, <1>5, <2>2, <2>3, <2>4, <2>5, <2>6 DEF Decoding, Labelled
<1>9. RowsKnown'
  BY <1>1, <1>8 DEF RowsKnown
<1> QED BY <1>2, <1>3, <1>9 DEF DInv

\* Decode returns when no row waits.
LEMMA ReturnStep == DInv /\ Return => DInv'
<1> SUFFICES ASSUME DInv, Return PROVE DInv'
  OBVIOUS
<1>1. /\ UNCHANGED <<message, written, entry, spoilt, lost, own, geo, parsed, rows, swapped>>
      /\ at = "enriching" /\ parsed = <<>> /\ at' = "rows"
  BY DEF Return, input, sources
<1>2. TypeOK'
  BY <1>1 DEF DInv, TypeOK
<1>3. EntryKnown'
  BY <1>1 DEF DInv, EntryKnown
<1>4. Accepted' = Accepted /\ Parsed' = Parsed
  BY <1>1, SameEntry
<1>5. Decoding'
  BY <1>1, <1>4 DEF DInv, RowsKnown, Decoding, Labelled
<1>6. RowsKnown'
  BY <1>1, <1>5 DEF RowsKnown
<1> QED BY <1>2, <1>3, <1>6 DEF DInv

\* Nothing changes.
LEMMA StutterStep == DInv /\ UNCHANGED vars => DInv'
<1> SUFFICES ASSUME DInv, UNCHANGED vars PROVE DInv'
  OBVIOUS
<1>1. UNCHANGED <<message, written, entry, spoilt, lost, own, geo, at, parsed, rows, swapped>>
  BY DEF vars, input, sources, decode
<1>2. Accepted' = Accepted /\ Parsed' = Parsed
  BY <1>1, SameEntry
<1>3. TypeOK'
  BY <1>1 DEF DInv, TypeOK
<1>4. EntryKnown'
  BY <1>1 DEF DInv, EntryKnown
<1>5. RowsKnown'
  BY <1>1, <1>2 DEF DInv, RowsKnown, Decoding, Labelled
<1> QED BY <1>3, <1>4, <1>5 DEF DInv

\* In every reachable state the entry is what the panel wrote or a spoilt form of
\* it, and the rows enriched and those that wait are, in order, the ones parsed.
THEOREM Invariance == Spec => []DInv
<1>1. Init => DInv
  BY InitialInvariant
<1>2. DInv /\ [Next]_vars => DInv'
  BY PublishStep, SpoilStep, SourceStep, DecodeStep, EnrichStep, ReturnStep, StutterStep DEF Next
<1> QED BY <1>1, <1>2, PTL DEF Spec

-----------------------------------------------------------------------------
(* The properties *)

\* Every reachable state is well-typed: among other things, the own-address set
\* never holds a mapped address, and rows wait only while Decode runs.
THEOREM TypeCorrect == Spec => []TypeOK
BY Invariance, PTL DEF DInv

\* A row that extends another keeps what no row may be without, and all of its fields.
LEMMA CoreOfRow ==
    ASSUME NEW row, NEW p, Extends(row, p)
    PROVE  /\ Core(row) = Core(p)
           /\ p = [key \in DOMAIN p |-> p[key]] => Restrict(row, DOMAIN p) = p
<1>1. DOMAIN row \cap {"ts", "node", "user", "bytes", "seen"} = DOMAIN p \cap {"ts", "node", "user", "bytes", "seen"}
  BY DEF Extends
<1>2. \A key \in DOMAIN p : row[key] = p[key]
  BY DEF Extends
<1>3. Core(row) = Core(p)
  BY <1>1, <1>2 DEF Core, Restrict
<1>4. Restrict(row, DOMAIN p) = [key \in DOMAIN p |-> p[key]]
  BY <1>2 DEF Restrict
<1> QED BY <1>3, <1>4

\* What each row says is a record of the stream's fields.
LEMMA SaidAreRecords ==
    ASSUME NEW m \in Messages, NEW version, NEW gone
    PROVE  \A i \in 1 .. Len(Said(m, version, gone)) :
               Said(m, version, gone)[i] = [key \in DOMAIN Said(m, version, gone)[i] |-> Said(m, version, gone)[i][key]]
<1> TAKE i \in 1 .. Len(Said(m, version, gone))
<1>0. i \in DOMAIN Said(m, version, gone)
  <2>1. Said(m, version, gone) \in Seq(Range(Said(m, version, gone)))
    BY SaidRows
  <2> QED BY <2>1
<1>1. CASE m.stream = "user_usage"
  BY <1>0, <1>1 DEF Said
<1>2. CASE m.stream = "sub_requests"
  <2>1. PICK r : Said(m, version, gone) = <<r>> /\ r = [key \in DOMAIN r |-> r[key]]
    BY <1>2 DEF Said
  <2>2. Said(m, version, gone)[i] = r
    BY <1>0, <2>1
  <2> QED BY <2>1, <2>2
<1>3. CASE m.stream = "node_connections"
  BY <1>0, <1>3 DEF Said
<1> QED BY <1>1, <1>2, <1>3, Streams

\* An entry gives every row the panel meant and no other, whatever version wrote
\* it; one with something unreadable or missing gives all of its rows or none;
\* one with emptied parts gives the rows of the others, each as it was meant.
THEOREM RowsAreAsSaid == Spec => []RowsAsSaid
<1>1. ASSUME DInv PROVE RowsAsSaid
  <2> DEFINE said == Said(message, written, lost)
  <2>1. ASSUME at = "malformed" PROVE spoilt
    BY <1>1, <2>1, IntactEntry DEF DInv, RowsKnown
  <2>2. ASSUME at = "rows"
        PROVE  /\ Len(rows) = Len(said)
               /\ \A i \in DOMAIN said :
                    IF spoilt THEN Core(rows[i]) = Core(said[i])
                              ELSE Restrict(rows[i], DOMAIN said[i]) = said[i]
    <3>1. /\ Decoding /\ TypeOK /\ EntryKnown /\ message # NoMessage /\ Accepted /\ parsed = <<>>
          /\ message \in Messages
      BY <1>1, <2>2 DEF DInv, RowsKnown, Decoding, TypeOK
    <3>2. Parsed \in Seq(Range(Parsed)) /\ Len(Parsed) = Len(said)
      BY <3>1, ParsedRows
    <3>3. Len(rows) = Len(said)
      BY <3>1, <3>2 DEF Decoding
    <3>4. said \in Seq(Range(said)) /\ DOMAIN said = 1 .. Len(said)
      BY <3>1, SaidRows
    <3>5. ASSUME NEW i \in DOMAIN said
          PROVE  IF spoilt THEN Core(rows[i]) = Core(said[i])
                           ELSE Restrict(rows[i], DOMAIN said[i]) = said[i]
      <4>1. Extends(rows[i], Parsed[i])
        BY <3>1, <3>3, <3>4 DEF Decoding
      <4>2. CASE Parsed = said
        <5>1. Extends(rows[i], said[i])
          BY <4>1, <4>2
        <5>2. said[i] = [key \in DOMAIN said[i] |-> said[i][key]]
          <6>1. \A k \in 1 .. Len(said) : said[k] = [key \in DOMAIN said[k] |-> said[k][key]]
            BY <3>1, SaidAreRecords
          <6> HIDE DEF said
          <6> QED BY <3>4, <6>1
        <5> HIDE DEF said
        <5> QED BY <5>1, <5>2, CoreOfRow
      <4>3. CASE spoilt /\ message.stream = "sub_requests"
        <5>1. said[i].ts = message.ts /\ said[i].user = message.user
              /\ DOMAIN said[i] = {"ts", "user", "ip", "agent", "response", "rule"} /\ i = 1
          BY <4>3 DEF Said
        <5>2. /\ DOMAIN Parsed[1] = {"ts", "user", "ip", "agent", "response", "rule"}
              /\ Parsed[1].ts = message.ts
              /\ Parsed[1].user = message.user
          BY <3>1, <4>3, SpoiltEntry DEF Columns
        <5> HIDE DEF said
        <5>3. Core(Parsed[i]) = Core(said[i])
          BY <5>1, <5>2 DEF Core, Restrict
        <5>4. Core(rows[i]) = Core(Parsed[i])
          BY <4>1, CoreOfRow
        <5> QED BY <4>3, <5>3, <5>4
      <4> QED BY <3>1, <4>2, <4>3, IntactEntry, SpoiltEntry
    <3> QED BY <3>3, <3>5
  <2> QED BY <2>1, <2>2 DEF RowsAsSaid
<1> QED BY <1>1, Invariance, PTL

\* Whether Decode is at work or has returned, the rows there are are labelled.
LEMMA RowsLabelled ==
    ASSUME DInv, NEW i \in DOMAIN rows
    PROVE  /\ Decoding /\ message # NoMessage /\ Accepted /\ message \in Messages
           /\ Extends(rows[i], Parsed[i]) /\ Labelled(rows[i])
           /\ i \in 1 .. Len(Parsed)
<1>1. rows # <<>>
  OBVIOUS
<1>2. Decoding
  BY <1>1 DEF DInv, RowsKnown, TypeOK
<1>3. i \in 1 .. Len(rows) /\ Len(rows) \in Nat /\ Len(parsed) \in Nat
  BY <1>2 DEF Decoding
<1>4. i \in 1 .. Len(Parsed)
  BY <1>2, <1>3 DEF Decoding
<1> QED BY <1>2, <1>3, <1>4 DEF Decoding, DInv, TypeOK

\* An address of a snapshot's row is one the panel wrote.
LEMMA RowsSpelled ==
    ASSUME DInv, message.stream = "node_connections", NEW i \in DOMAIN rows
    PROVE  IsSpelled(rows[i].ip)
<1>1. /\ message # NoMessage /\ Accepted /\ message \in Messages
      /\ Extends(rows[i], Parsed[i])
      /\ i \in 1 .. Len(Parsed)
  BY RowsLabelled
<1>2. Parsed = Said(message, written, lost)
  BY <1>1, IntactEntry, SpoiltEntry DEF DInv
<1>3. DOMAIN Parsed[i] = {"ts", "node", "user", "ip", "seen"}
  BY <1>1, ParsedRows DEF DInv, Columns
<1>4. rows[i].ip = Parsed[i].ip
  BY <1>1, <1>3 DEF Extends
<1> DEFINE kept == KeptSeen(message, lost)
<1>5. kept \in Seq(Range(message.seen)) /\ \A s \in Range(message.seen) : IsSpelled(s.ip)
  BY <1>1, MessageOfSnapshot, SeenKept
<1>6. Parsed = [k \in DOMAIN kept |->
                  [ts |-> message.ts, node |-> message.node, user |-> kept[k].user,
                   ip |-> kept[k].ip, seen |-> kept[k].seen]]
  BY <1>2 DEF Said
<1> HIDE DEF kept
<1>7. i \in DOMAIN kept
  <2>1. Len(Parsed) = Len(kept)
    BY <1>5, <1>6
  <2> QED BY <1>1, <1>5, <2>1
<1>8. Parsed[i].ip = kept[i].ip /\ kept[i] \in Range(message.seen)
  BY <1>5, <1>6, <1>7
<1> QED BY <1>4, <1>5, <1>8

\* Rows of a snapshot have one prefix exactly if their addresses are of one
\* block, and an address gets the same labels however it is written.
THEOREM SpellingDoesNotMatter == Spec => []SpellingIrrelevant
<1>1. ASSUME DInv PROVE SpellingIrrelevant
  <2> SUFFICES ASSUME message.stream = "node_connections",
                      NEW i \in DOMAIN rows, NEW j \in DOMAIN rows,
                      IsAddress(rows[i].ip), IsAddress(rows[j].ip)
               PROVE  /\ rows[i].geo.prefix = rows[j].geo.prefix
                            <=> Block(ParseAddr(rows[i].ip)) = Block(ParseAddr(rows[j].ip))
                      /\ Unmap(ParseAddr(rows[i].ip)) = Unmap(ParseAddr(rows[j].ip)) /\ ~swapped =>
                            rows[i].geo = rows[j].geo /\ rows[i].infra = rows[j].infra
    BY DEF SpellingIrrelevant
  <2>1. Labelled(rows[i]) /\ Labelled(rows[j])
    BY <1>1, RowsLabelled
  <2>2. IsSpelled(rows[i].ip) /\ IsSpelled(rows[j].ip)
    BY <1>1, RowsSpelled
  <2>3. rows[i].geo.prefix = Prefix(ParseAddr(rows[i].ip)) /\ rows[j].geo.prefix = Prefix(ParseAddr(rows[j].ip))
    BY <2>1 DEF Labelled
  <2>4. ParseAddr(rows[i].ip).family \in Families /\ ParseAddr(rows[j].ip).family \in Families
    BY <2>2 DEF IsSpelled
  <2>5. rows[i].geo.prefix = rows[j].geo.prefix <=> Block(ParseAddr(rows[i].ip)) = Block(ParseAddr(rows[j].ip))
    BY <2>3, <2>4, PrefixIsBlock
  <2>6. ASSUME Unmap(ParseAddr(rows[i].ip)) = Unmap(ParseAddr(rows[j].ip)), ~swapped
        PROVE  rows[i].geo = rows[j].geo /\ rows[i].infra = rows[j].infra
    <3>1. /\ rows[i].geo = Lookup(rows[i].ip, geo) /\ rows[i].infra = Contains(own, rows[i].ip)
          /\ rows[j].geo = Lookup(rows[j].ip, geo) /\ rows[j].infra = Contains(own, rows[j].ip)
      BY <2>1, <2>6 DEF Labelled
    <3>2. Lookup(rows[i].ip, geo) = Lookup(rows[j].ip, geo) /\ Contains(own, rows[i].ip) = Contains(own, rows[j].ip)
      BY <2>2, <2>6, SpellingLookedUp
    <3> QED BY <3>1, <3>2
  <2> QED BY <2>5, <2>6
<1> QED BY <1>1, Invariance, PTL

\* A client is told by its own name and as the foremost kind it claims to be.
THEOREM ClientsAreRecognised == Spec => []ClientRecognised
<1>1. ASSUME DInv PROVE ClientRecognised
  <2> SUFFICES ASSUME message.stream = "sub_requests", NEW i \in DOMAIN rows,
                      Reads(rows[i].agent, "agent"), rows[i].agent[2] # {}
               PROVE  /\ rows[i].client.family \in rows[i].agent[2]
                      /\ ~\E n \in rows[i].agent[2] : <<rows[i].client.family, n>> \in Inside
                      /\ \A n \in rows[i].agent[2] : \A r \in DOMAIN Ranks :
                            KindOf(n) = Ranks[r] => \E q \in 1 .. r : rows[i].client.kind = Ranks[q]
    BY DEF ClientRecognised
  <2>1. /\ message # NoMessage /\ Accepted /\ message \in Messages
        /\ Extends(rows[i], Parsed[i]) /\ Labelled(rows[i])
        /\ i \in 1 .. Len(Parsed)
    BY <1>1, RowsLabelled
  <2>2. rows[i].client = Classify(rows[i].agent)
    BY <2>1 DEF Labelled
  <2>3. rows[i].agent = message.agent
    <3>1. Len(Parsed) = 1 /\ DOMAIN Parsed[i] = {"ts", "user", "ip", "agent", "response", "rule"}
      <4>1. Len(Said(message, written, lost)) = 1
        BY DEF Said
      <4> QED BY <1>1, <2>1, <4>1, ParsedRows DEF DInv, Columns
    <3>2. i = 1 /\ rows[i].agent = Parsed[1].agent
      BY <2>1, <3>1 DEF Extends
    <3>3. Parsed[1].agent = message.agent \/ Parsed[1].agent \in Bad
      <4>1. CASE spoilt
        BY <1>1, <2>1, <4>1, SpoiltEntry DEF DInv
      <4>2. CASE ~spoilt
        <5>1. Parsed = Said(message, written, lost)
          BY <1>1, <2>1, <4>2, IntactEntry DEF DInv
        <5> QED BY <5>1 DEF Said
      <4> QED BY <4>1, <4>2
    <3> QED BY <3>2, <3>3, BadTexts
  <2>4. rows[i].agent[2] \subseteq Range(Rules)
    BY <2>1, <2>3, MessageOfRequest
  <2> DEFINE raw == rows[i].agent
  <2>5. /\ Classify(raw).family \in raw[2]
        /\ ~\E n \in raw[2] : <<Classify(raw).family, n>> \in Inside
        /\ \A n \in raw[2] : \A r \in DOMAIN Ranks :
             KindOf(n) = Ranks[r] => \E q \in 1 .. r : Classify(raw).kind = Ranks[q]
    <3>1. Reads(raw, "agent") /\ raw[2] # {} /\ raw[2] \subseteq Range(Rules)
      BY <2>4
    <3> HIDE DEF raw
    <3> QED BY <3>1, FirstRule
  <2> QED BY <2>2, <2>5
<1> QED BY <1>1, Invariance, PTL
=============================================================================
