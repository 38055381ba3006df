------------------------- MODULE DictionariesProofs -------------------------
(***************************************************************************)
(* Theorems about Dictionaries for any replicas, users, nodes, pages and   *)
(* faults: a finished refresh stands, no user is skipped, and the panel's  *)
(* own addresses are recognised.                                           *)
(***************************************************************************)
EXTENDS Dictionaries, TLAPS, FiniteSetTheorems

\* What a refresh holds was read after it took its stamp.
Timely(s) ==
    /\ phase[s] \in {"resolve", "insertNodes"} => listedAt[s] >= began[s]
    /\ \A u \in Users : rows[s][u] # 0 => rows[s][u] >= began[s]

\* A row was read after it was stamped, and is stamped no earlier than any
\* finished refresh of its key began.
Stamped ==
    /\ \A u \in Users :
        dimUsers[u].asOf >= dimUsers[u].stamp /\ dimUsers[u].stamp >= userFloor[u]
    /\ \A n \in Nodes :
        dimNodes[n].asOf >= dimNodes[n].stamp /\ dimNodes[n].stamp >= nodeFloor[n]

\* Every user that stays is behind the cursor and collected, or still to come.
Collected(s) ==
    /\ kept[s] \subseteq users
    /\ phase[s] \notin {"users", "insertUsers"} => rows[s] = NoRows /\ cursor[s] = 0
    /\ phase[s] = "users" => \A u \in kept[s] : u <= cursor[s] => rows[s][u] # 0
    /\ phase[s] = "insertUsers" => \A u \in kept[s] : rows[s][u] # 0

\* The inductive invariant.
Inv ==
    /\ TypeOK
    /\ \A s \in Syncers : Timely(s) /\ Collected(s)
    /\ Stamped
    /\ OwnAddressesRecognised

-----------------------------------------------------------------------------
(* What the operators return *)

LEMMA Bounds ==
    /\ MaxUser \in Nat /\ MaxPages \in Nat /\ MaxFaults \in Nat
    /\ PageSize \in Nat \ {0} /\ MaxTime \in Nat \ {0}
BY BoundsAssumption

LEMMA BatchIsOfUsers ==
    ASSUME NEW s \in Syncers, TypeOK
    PROVE  Batch(s) \subseteq Users /\ Batch(s) \subseteq users
BY DEF Batch, After, TypeOK

\* A page that holds a user holds every smaller one after the cursor.
LEMMA BatchIsPrefix ==
    ASSUME NEW s \in Syncers, TypeOK,
           NEW c \in Batch(s), NEW u \in After(s), u <= c
    PROVE  u \in Batch(s)
<1> DEFINE UpTo(w) == {v \in After(s) : v <= w}
<1>1. After(s) \subseteq 1 .. MaxUser
  BY DEF After, TypeOK, Users
<1>2. IsFiniteSet(1 .. MaxUser)
  BY Bounds, FS_Interval
<1>3. IsFiniteSet(UpTo(c))
  BY <1>1, <1>2, FS_Subset
<1>4. UpTo(u) \subseteq UpTo(c)
  BY <1>1 DEF Batch
<1>5. Cardinality(UpTo(u)) <= Cardinality(UpTo(c))
  BY <1>3, <1>4, FS_Subset
<1>6. Cardinality(UpTo(c)) <= PageSize
  BY DEF Batch
<1>7. Cardinality(UpTo(u)) \in Nat /\ Cardinality(UpTo(c)) \in Nat /\ PageSize \in Nat
  BY <1>3, <1>4, FS_Subset, FS_CardinalityType, Bounds
<1>8. Cardinality(UpTo(u)) <= PageSize
  BY <1>5, <1>6, <1>7
<1> QED BY <1>8 DEF Batch

LEMMA ReadTypes ==
    ASSUME NEW s \in Syncers, TypeOK
    PROVE  /\ Read(s) \in [Users -> 0 .. now]
           /\ \A u \in Users : Read(s)[u] = IF u \in Batch(s) THEN now ELSE rows[s][u]
<1>1. now \in 0 .. now /\ rows[s] \in [Users -> 0 .. now]
  BY DEF TypeOK
<1> QED BY <1>1 DEF Read

LEMMA NoRowsType == TypeOK => NoRows \in [Users -> 0 .. now]
BY DEF TypeOK, NoRows

\* A merge of two rows keeps the newer stamp.
LEMMA NewestRow ==
    ASSUME TypeOK, NEW row \in [stamp : 0 .. now, asOf : 0 .. now],
           NEW stamp \in 0 .. now, NEW asOf \in 0 .. now
    PROVE  /\ Newest(row, stamp, asOf) \in [stamp : 0 .. now, asOf : 0 .. now]
           /\ Newest(row, stamp, asOf).stamp >= row.stamp
           /\ Newest(row, stamp, asOf).stamp >= stamp
           /\ asOf >= stamp /\ row.asOf >= row.stamp =>
                Newest(row, stamp, asOf).asOf >= Newest(row, stamp, asOf).stamp
BY DEF TypeOK, Newest

-----------------------------------------------------------------------------
(* The invariant holds initially *)

LEMMA InvInit == Init => Inv
<1> SUFFICES ASSUME Init PROVE Inv
  OBVIOUS
<1>1. now \in 1 .. MaxTime
  BY Bounds DEF Init
<1>2. NoRow \in [stamp : 0 .. now, asOf : 0 .. now] /\ NoList \in Lists
  BY DEF Init, NoRow, NoList, Lists
<1>3. TypeOK
  BY <1>1, <1>2, Bounds DEF Init, TypeOK, NoRows
<1>4. \A s \in Syncers : Timely(s) /\ Collected(s)
  BY DEF Init, Timely, Collected, NoRows, Users
<1>5. Stamped /\ OwnAddressesRecognised
  BY DEF Init, Stamped, NoRow, OwnAddressesRecognised
<1> QED BY <1>3, <1>4, <1>5 DEF Inv

-----------------------------------------------------------------------------
(* Types *)

LEMMA RestTypes ==
    ASSUME TypeOK, NEW s \in Syncers, Rest(s), now' = now, users' = users
    PROVE  /\ phase' \in [Syncers -> {"idle", "nodes", "resolve", "insertNodes", "users", "insertUsers"}]
           /\ began' \in [Syncers -> 0 .. now]
           /\ list' \in [Syncers -> Lists]
           /\ listedAt' \in [Syncers -> 0 .. now]
           /\ rows' \in [Syncers -> [Users -> 0 .. now]]
           /\ cursor' \in [Syncers -> 0 .. MaxUser]
           /\ page' \in [Syncers -> 0 .. MaxPages + 1]
           /\ kept' \in [Syncers -> SUBSET Users]
<1>1. NoList \in Lists
  BY DEF NoList, Lists
<1>2. 0 \in 0 .. now /\ 0 \in 0 .. MaxUser /\ 0 \in 0 .. MaxPages + 1
  BY Bounds DEF TypeOK
<1> QED BY <1>1, <1>2, NoRowsType DEF TypeOK, Rest

LEMMA BeginUsersTypes ==
    ASSUME TypeOK, NEW s \in Syncers, BeginUsers(s)
    PROVE  /\ phase' \in [Syncers -> {"idle", "nodes", "resolve", "insertNodes", "users", "insertUsers"}]
           /\ began' \in [Syncers -> 0 .. now]
           /\ list' \in [Syncers -> Lists]
           /\ listedAt' \in [Syncers -> 0 .. now]
           /\ kept' \in [Syncers -> SUBSET Users]
           /\ UNCHANGED <<rows, cursor, page>>
<1>1. NoList \in Lists
  BY DEF NoList, Lists
<1>2. 0 \in 0 .. now /\ now \in 0 .. now
  BY DEF TypeOK
<1> QED BY <1>1, <1>2 DEF TypeOK, BeginUsers

LEMMA StoreUsersTypes ==
    ASSUME TypeOK, NEW s \in Syncers, StoreUsers(s)
    PROVE  dimUsers' \in [Users -> [stamp : 0 .. now, asOf : 0 .. now]]
<1> SUFFICES ASSUME NEW u \in Users
             PROVE  Newest(dimUsers[u], began[s], rows[s][u]) \in [stamp : 0 .. now, asOf : 0 .. now]
  BY DEF StoreUsers, TypeOK
<1>1. /\ dimUsers[u] \in [stamp : 0 .. now, asOf : 0 .. now]
      /\ began[s] \in 0 .. now /\ rows[s][u] \in 0 .. now
  BY DEF TypeOK
<1> QED BY <1>1, NewestRow

LEMMA StoreNodesTypes ==
    ASSUME TypeOK, NEW s \in Syncers, StoreNodes(s)
    PROVE  dimNodes' \in [Nodes -> [stamp : 0 .. now, asOf : 0 .. now]]
<1> SUFFICES ASSUME NEW n \in Nodes
             PROVE  Newest(dimNodes[n], began[s], listedAt[s]) \in [stamp : 0 .. now, asOf : 0 .. now]
  BY DEF StoreNodes, TypeOK
<1>1. /\ dimNodes[n] \in [stamp : 0 .. now, asOf : 0 .. now]
      /\ began[s] \in 0 .. now /\ listedAt[s] \in 0 .. now
  BY DEF TypeOK
<1> QED BY <1>1, NewestRow

LEMMA TypesNext == TypeOK /\ [Next]_vars => TypeOK'
<1> SUFFICES ASSUME TypeOK, [Next]_vars PROVE TypeOK'
  OBVIOUS
<1> USE DEF panel, tables, sync, addresses
<1>1. CASE Tick
  <2>1. now' = now + 1 /\ now' \in 1 .. MaxTime /\ now \in Nat
    BY <1>1, Bounds DEF Tick, TypeOK
  <2>2. 0 .. now \subseteq 0 .. now'
    BY <2>1
  <2>3. [stamp : 0 .. now, asOf : 0 .. now] \subseteq [stamp : 0 .. now', asOf : 0 .. now']
    BY <2>2
  <2>4. /\ dimUsers' \in [Users -> [stamp : 0 .. now', asOf : 0 .. now']]
        /\ dimNodes' \in [Nodes -> [stamp : 0 .. now', asOf : 0 .. now']]
    BY <2>3, <1>1 DEF Tick, TypeOK
  <2>5. /\ began' \in [Syncers -> 0 .. now']
        /\ listedAt' \in [Syncers -> 0 .. now']
        /\ userFloor' \in [Users -> 0 .. now']
        /\ nodeFloor' \in [Nodes -> 0 .. now']
    BY <2>2, <1>1 DEF Tick, TypeOK
  <2>6. rows' \in [Syncers -> [Users -> 0 .. now']]
    BY <2>2, <1>1 DEF Tick, TypeOK
  <2> QED BY <2>1, <2>4, <2>5, <2>6, <1>1 DEF Tick, TypeOK
<1>2. CASE ChangeUsers
  <2>1. users' \subseteq Users
    BY <1>2 DEF ChangeUsers, TypeOK
  <2>2. kept' \in [Syncers -> SUBSET Users]
    BY <1>2 DEF ChangeUsers, TypeOK
  <2> QED BY <2>1, <2>2, <1>2 DEF ChangeUsers, TypeOK
<1>3. ASSUME NEW s \in Syncers, StartSync(s) PROVE TypeOK'
  <2>1. now \in 0 .. now
    BY DEF TypeOK
  <2> QED BY <2>1, <1>3 DEF StartSync, TypeOK
<1>4. ASSUME NEW s \in Syncers, FetchNodes(s) PROVE TypeOK'
  <2>1. now \in 0 .. now
    BY DEF TypeOK
  <2>2. list' \in [Syncers -> Lists]
    BY <1>4 DEF FetchNodes, TypeOK
  <2>3. listedAt' \in [Syncers -> 0 .. now]
    BY <2>1, <1>4 DEF FetchNodes, TypeOK
  <2>4. phase' \in [Syncers -> {"idle", "nodes", "resolve", "insertNodes", "users", "insertUsers"}]
    BY <1>4 DEF FetchNodes, TypeOK
  <2> QED BY <2>2, <2>3, <2>4, <1>4 DEF FetchNodes, TypeOK
<1>5. ASSUME NEW s \in Syncers, FetchNodesFails(s) PROVE TypeOK'
  <2>1. BeginUsers(s)
    BY <1>5 DEF FetchNodesFails
  <2> QED BY <2>1, <1>5, BeginUsersTypes DEF FetchNodesFails, TypeOK
<1>6. ASSUME NEW s \in Syncers, ReplaceAddresses(s) PROVE TypeOK'
  <2>1. infra' \in [Syncers -> SUBSET Nodes]
    BY <1>6 DEF ReplaceAddresses, NodeAddresses, TypeOK, Lists
  <2>2. loaded' \in [Syncers -> BOOLEAN]
    BY <1>6 DEF ReplaceAddresses, TypeOK
  <2>3. known' \in [Syncers -> SUBSET Nodes]
    BY <1>6 DEF ReplaceAddresses, TypeOK, Lists
  <2>4. CASE BeginUsers(s)
    BY <2>1, <2>2, <2>3, <2>4, <1>6, BeginUsersTypes DEF ReplaceAddresses, TypeOK
  <2>5. CASE ~BeginUsers(s)
    <3>1. phase' = [phase EXCEPT ![s] = "insertNodes"]
          /\ UNCHANGED <<began, list, listedAt, rows, cursor, page, kept>>
      BY <2>5, <1>6 DEF ReplaceAddresses
    <3>2. UNCHANGED <<panel, tables, faults>>
      BY <1>6 DEF ReplaceAddresses
    <3> QED BY <3>1, <3>2, <2>1, <2>2, <2>3 DEF TypeOK
  <2> QED BY <2>4, <2>5
<1>7. ASSUME NEW s \in Syncers, InsertNodes(s) PROVE TypeOK'
  <2>1. BeginUsers(s) /\ StoreNodes(s) /\ UNCHANGED <<panel, dimUsers, userFloor, addresses, faults>>
    BY <1>7 DEF InsertNodes
  <2>2. nodeFloor' \in [Nodes -> 0 .. now]
    BY <1>7 DEF InsertNodes, TypeOK
  <2> QED BY <2>1, <2>2, BeginUsersTypes, StoreNodesTypes DEF TypeOK
<1>8. ASSUME NEW s \in Syncers, InsertNodesFails(s) PROVE TypeOK'
  <2>1. BeginUsers(s) /\ UNCHANGED <<panel, dimUsers, userFloor, nodeFloor, addresses, faults>>
    BY <1>8 DEF InsertNodesFails
  <2>2. dimNodes' \in [Nodes -> [stamp : 0 .. now, asOf : 0 .. now]]
    BY <1>8, StoreNodesTypes DEF InsertNodesFails, TypeOK
  <2> QED BY <2>1, <2>2, BeginUsersTypes DEF TypeOK
<1>9. ASSUME NEW s \in Syncers, FetchUsers(s) PROVE TypeOK'
  <2>1. rows' \in [Syncers -> [Users -> 0 .. now]]
    BY <1>9, ReadTypes DEF FetchUsers, TypeOK
  <2>2. cursor' \in [Syncers -> 0 .. MaxUser]
    <3>1. PICK c \in Batch(s) : cursor' = [cursor EXCEPT ![s] = c]
      BY <1>9 DEF FetchUsers
    <3>2. c \in 0 .. MaxUser
      BY BatchIsOfUsers, Bounds DEF Users
    <3> QED BY <3>1, <3>2 DEF TypeOK
  <2>3. page' \in [Syncers -> 0 .. MaxPages + 1]
    BY <1>9, Bounds DEF FetchUsers, TypeOK
  <2> QED BY <2>1, <2>2, <2>3, <1>9 DEF FetchUsers, TypeOK
<1>10. ASSUME NEW s \in Syncers, FetchLastUsers(s) PROVE TypeOK'
  <2>1. rows' \in [Syncers -> [Users -> 0 .. now]]
    BY <1>10, ReadTypes DEF FetchLastUsers, TypeOK
  <2>2. phase' \in [Syncers -> {"idle", "nodes", "resolve", "insertNodes", "users", "insertUsers"}]
    BY <1>10 DEF FetchLastUsers, TypeOK
  <2> QED BY <2>1, <2>2, <1>10 DEF FetchLastUsers, TypeOK
<1>11. ASSUME NEW s \in Syncers, FetchNoUsers(s) \/ TooManyPages(s) PROVE TypeOK'
  <2>1. Rest(s) /\ UNCHANGED <<panel, tables, addresses, faults>>
    BY <1>11 DEF FetchNoUsers, TooManyPages
  <2> QED BY <2>1, RestTypes DEF TypeOK
<1>12. ASSUME NEW s \in Syncers, FetchUsersFails(s) PROVE TypeOK'
  <2>1. Rest(s) /\ UNCHANGED <<panel, tables, addresses>>
    BY <1>12 DEF FetchUsersFails
  <2>2. faults' \in 0 .. MaxFaults
    BY <1>12, Bounds DEF FetchUsersFails, Fault, TypeOK
  <2> QED BY <2>1, <2>2, RestTypes DEF TypeOK
<1>13. ASSUME NEW s \in Syncers, InsertUsers(s) PROVE TypeOK'
  <2>1. Rest(s) /\ StoreUsers(s) /\ UNCHANGED <<panel, dimNodes, nodeFloor, addresses, faults>>
    BY <1>13 DEF InsertUsers
  <2>2. userFloor' \in [Users -> 0 .. now]
    BY <1>13 DEF InsertUsers, TypeOK
  <2> QED BY <2>1, <2>2, RestTypes, StoreUsersTypes DEF TypeOK
<1>14. ASSUME NEW s \in Syncers, InsertUsersFails(s) PROVE TypeOK'
  <2>1. Rest(s) /\ UNCHANGED <<panel, dimNodes, userFloor, nodeFloor, addresses>>
    BY <1>14 DEF InsertUsersFails
  <2>2. faults' \in 0 .. MaxFaults
    BY <1>14, Bounds DEF InsertUsersFails, Fault, TypeOK
  <2>3. dimUsers' \in [Users -> [stamp : 0 .. now, asOf : 0 .. now]]
    BY <1>14, StoreUsersTypes DEF InsertUsersFails, TypeOK
  <2> QED BY <2>1, <2>2, <2>3, RestTypes DEF TypeOK
<1>15. ASSUME NEW s \in Syncers, Crash(s) PROVE TypeOK'
  <2>1. Rest(s) /\ UNCHANGED <<panel, tables>>
    BY <1>15 DEF Crash
  <2>2. faults' \in 0 .. MaxFaults
    BY <1>15, Bounds DEF Crash, Fault, TypeOK
  <2>3. /\ loaded' \in [Syncers -> BOOLEAN]
        /\ infra' \in [Syncers -> SUBSET Nodes]
        /\ known' \in [Syncers -> SUBSET Nodes]
    BY <1>15 DEF Crash, TypeOK
  <2> QED BY <2>1, <2>2, <2>3, RestTypes DEF TypeOK
<1>16. CASE UNCHANGED vars
  BY <1>16 DEF vars, TypeOK
<1> QED
  BY <1>1, <1>2, <1>3, <1>4, <1>5, <1>6, <1>7, <1>8, <1>9, <1>10, <1>11, <1>12,
     <1>13, <1>14, <1>15, <1>16 DEF Next, SyncNodes, SyncUsers

-----------------------------------------------------------------------------
(* What the actions have in common *)

\* The steps that end a replica's work on the users, or its life.
Resting(s) ==
    \/ FetchNoUsers(s)
    \/ TooManyPages(s)
    \/ FetchUsersFails(s)
    \/ InsertUsers(s)
    \/ InsertUsersFails(s)
    \/ Crash(s)

\* The steps that go on to the users.
Beginning(s) ==
    \/ FetchNodesFails(s)
    \/ ReplaceAddresses(s) /\ BeginUsers(s)
    \/ InsertNodes(s)
    \/ InsertNodesFails(s)

LEMMA RestingRests ==
    ASSUME NEW s \in Syncers, Resting(s)
    PROVE  Rest(s) /\ UNCHANGED panel
BY DEF Resting, FetchNoUsers, TooManyPages, FetchUsersFails, InsertUsers,
       InsertUsersFails, Crash

LEMMA BeginningBegins ==
    ASSUME NEW s \in Syncers, Beginning(s)
    PROVE  BeginUsers(s) /\ UNCHANGED panel /\ phase[s] \notin {"users", "insertUsers"}
BY DEF Beginning, FetchNodesFails, ReplaceAddresses, InsertNodes, InsertNodesFails

LEMMA ReplacedOnly ==
    ASSUME NEW s \in Syncers, ReplaceAddresses(s), ~BeginUsers(s)
    PROVE  /\ phase' = [phase EXCEPT ![s] = "insertNodes"] /\ phase[s] = "resolve"
           /\ UNCHANGED <<panel, began, list, listedAt, rows, cursor, page, kept>>
BY DEF ReplaceAddresses

\* Only inserts change the tables.
LEMMA TablesChange ==
    ASSUME [Next]_vars
    PROVE  \/ UNCHANGED tables
           \/ \E s \in Syncers :
                \/ InsertNodes(s) \/ InsertNodesFails(s)
                \/ InsertUsers(s) \/ InsertUsersFails(s)
BY DEF Next, vars, SyncNodes, SyncUsers, Tick, ChangeUsers, StartSync, FetchNodes,
       FetchNodesFails, ReplaceAddresses, FetchUsers, FetchLastUsers, FetchNoUsers,
       TooManyPages, FetchUsersFails, Crash

-----------------------------------------------------------------------------
(* The order of stamp, read and write *)

LEMMA TimelyNext ==
    ASSUME TypeOK, [Next]_vars, NEW q \in Syncers, Timely(q), Collected(q)
    PROVE  Timely(q)'
<1> USE DEF Timely
<1>1. ASSUME UNCHANGED <<phase, began, listedAt, rows>> PROVE Timely(q)'
  BY <1>1
<1>2. CASE Tick \/ ChangeUsers \/ UNCHANGED vars
  BY <1>1, <1>2 DEF Tick, ChangeUsers, vars, sync
<1>3. ASSUME NEW s \in Syncers, StartSync(s) PROVE Timely(q)'
  BY <1>3 DEF StartSync, Collected, NoRows, TypeOK
<1>4. ASSUME NEW s \in Syncers, FetchNodes(s) PROVE Timely(q)'
  BY <1>4 DEF FetchNodes, TypeOK
<1>5. ASSUME NEW s \in Syncers, Beginning(s) PROVE Timely(q)'
  BY <1>5, BeginningBegins DEF BeginUsers, Collected, NoRows, TypeOK
<1>6. ASSUME NEW s \in Syncers, ReplaceAddresses(s), ~BeginUsers(s) PROVE Timely(q)'
  BY <1>6, ReplacedOnly DEF TypeOK
<1>7. ASSUME NEW s \in Syncers, FetchUsers(s) \/ FetchLastUsers(s) PROVE Timely(q)'
  <2>1. /\ phase'[s] \in {"users", "insertUsers"}
        /\ rows' = [rows EXCEPT ![s] = Read(s)]
        /\ UNCHANGED <<began, listedAt>>
        /\ s # q => phase'[q] = phase[q]
    BY <1>7 DEF FetchUsers, FetchLastUsers, TypeOK
  <2>2. CASE s = q
    <3>1. \A u \in Users : rows'[q][u] = IF u \in Batch(s) THEN now ELSE rows[q][u]
      BY <2>1, <2>2, ReadTypes DEF TypeOK
    <3>2. now >= began[q] /\ began'[q] = began[q] /\ phase'[q] \in {"users", "insertUsers"}
      BY <2>1, <2>2 DEF TypeOK
    <3> QED BY <3>1, <3>2
  <2>3. CASE s # q
    BY <2>1, <2>3 DEF TypeOK
  <2> QED BY <2>2, <2>3
<1>8. ASSUME NEW s \in Syncers, Resting(s) PROVE Timely(q)'
  BY <1>8, RestingRests DEF Rest, NoRows, TypeOK
<1> QED
  BY <1>2, <1>3, <1>4, <1>5, <1>6, <1>7, <1>8
  DEF Next, SyncNodes, SyncUsers, Resting, Beginning

LEMMA StoreUsersStamped ==
    ASSUME TypeOK, Stamped, NEW s \in Syncers, Timely(s), StoreUsers(s), NEW u \in Users
    PROVE  /\ dimUsers'[u].asOf >= dimUsers'[u].stamp
           /\ dimUsers'[u].stamp >= dimUsers[u].stamp
           /\ rows[s][u] # 0 => dimUsers'[u].stamp >= began[s]
<1>1. /\ dimUsers[u] \in [stamp : 0 .. now, asOf : 0 .. now]
      /\ began[s] \in 0 .. now /\ rows[s][u] \in 0 .. now
      /\ dimUsers[u].asOf >= dimUsers[u].stamp
      /\ rows[s][u] # 0 => rows[s][u] >= began[s]
  BY DEF TypeOK, Timely, Stamped
<1>2. CASE rows[s][u] # 0
  <2>1. dimUsers'[u] = Newest(dimUsers[u], began[s], rows[s][u])
    BY <1>2 DEF StoreUsers
  <2> QED BY <1>1, <1>2, <2>1, NewestRow
<1>3. CASE rows[s][u] = 0
  BY <1>1, <1>3 DEF StoreUsers
<1> QED BY <1>2, <1>3

LEMMA StoreNodesStamped ==
    ASSUME TypeOK, Stamped, NEW s \in Syncers, Timely(s), phase[s] = "insertNodes",
           StoreNodes(s), NEW n \in Nodes
    PROVE  /\ dimNodes'[n].asOf >= dimNodes'[n].stamp
           /\ dimNodes'[n].stamp >= dimNodes[n].stamp
           /\ n \in list[s].numbered => dimNodes'[n].stamp >= began[s]
<1>1. /\ dimNodes[n] \in [stamp : 0 .. now, asOf : 0 .. now]
      /\ began[s] \in 0 .. now /\ listedAt[s] \in 0 .. now
      /\ dimNodes[n].asOf >= dimNodes[n].stamp
      /\ listedAt[s] >= began[s]
  BY DEF TypeOK, Timely, Stamped
<1>2. CASE n \in list[s].numbered
  <2>1. dimNodes'[n] = Newest(dimNodes[n], began[s], listedAt[s])
    BY <1>2 DEF StoreNodes
  <2> QED BY <1>1, <1>2, <2>1, NewestRow
<1>3. CASE n \notin list[s].numbered
  BY <1>1, <1>3 DEF StoreNodes
<1> QED BY <1>2, <1>3

LEMMA StampedNext ==
    ASSUME TypeOK, TypeOK', Stamped, \A s \in Syncers : Timely(s), [Next]_vars
    PROVE  Stamped'
<1>1. CASE UNCHANGED tables
  BY <1>1 DEF Stamped, tables
<1> DEFINE UsersStamped == \A u \in Users :
             dimUsers[u].asOf >= dimUsers[u].stamp /\ dimUsers[u].stamp >= userFloor[u]
           NodesStamped == \A n \in Nodes :
             dimNodes[n].asOf >= dimNodes[n].stamp /\ dimNodes[n].stamp >= nodeFloor[n]
<1>2. /\ Stamped <=> UsersStamped /\ NodesStamped
      /\ Stamped' <=> UsersStamped' /\ NodesStamped'
  BY DEF Stamped
<1>3. ASSUME NEW s \in Syncers, InsertNodes(s) \/ InsertNodesFails(s) PROVE Stamped'
  <2>1. UNCHANGED <<dimUsers, userFloor>>
    BY <1>3 DEF InsertNodes, InsertNodesFails
  <2>2. UsersStamped'
    BY <1>2, <2>1
  <2>3. ASSUME NEW n \in Nodes
        PROVE  dimNodes'[n].asOf >= dimNodes'[n].stamp /\ dimNodes'[n].stamp >= nodeFloor'[n]
    <3>1. /\ dimNodes[n].stamp \in Nat /\ dimNodes'[n].stamp \in Nat
          /\ nodeFloor[n] \in Nat /\ began[s] \in Nat
          /\ dimNodes[n].stamp >= nodeFloor[n] /\ dimNodes[n].asOf >= dimNodes[n].stamp
      BY DEF TypeOK, Stamped
    <3>2. CASE InsertNodes(s)
      <4>1. phase[s] = "insertNodes" /\ StoreNodes(s)
        BY <3>2 DEF InsertNodes
      <4>2. nodeFloor'[n] = IF n \in list[s].numbered /\ began[s] > nodeFloor[n]
                            THEN began[s] ELSE nodeFloor[n]
        BY <3>2 DEF InsertNodes
      <4> QED BY <3>1, <4>1, <4>2, StoreNodesStamped
    <3>3. CASE InsertNodesFails(s)
      <4>1. phase[s] = "insertNodes" /\ nodeFloor' = nodeFloor
            /\ (StoreNodes(s) \/ dimNodes' = dimNodes)
        BY <3>3 DEF InsertNodesFails
      <4> QED BY <3>1, <4>1, StoreNodesStamped
    <3> QED BY <1>3, <3>2, <3>3
  <2> QED BY <1>2, <2>2, <2>3
<1>4. ASSUME NEW s \in Syncers, InsertUsers(s) \/ InsertUsersFails(s) PROVE Stamped'
  <2>1. UNCHANGED <<dimNodes, nodeFloor>>
    BY <1>4 DEF InsertUsers, InsertUsersFails
  <2>2. NodesStamped'
    BY <1>2, <2>1
  <2>3. ASSUME NEW u \in Users
        PROVE  dimUsers'[u].asOf >= dimUsers'[u].stamp /\ dimUsers'[u].stamp >= userFloor'[u]
    <3>1. /\ dimUsers[u].stamp \in Nat /\ dimUsers'[u].stamp \in Nat
          /\ userFloor[u] \in Nat /\ began[s] \in Nat
          /\ dimUsers[u].stamp >= userFloor[u] /\ dimUsers[u].asOf >= dimUsers[u].stamp
      BY DEF TypeOK, Stamped
    <3>2. CASE InsertUsers(s)
      <4>1. StoreUsers(s)
        BY <3>2 DEF InsertUsers
      <4>2. userFloor'[u] = IF rows[s][u] # 0 /\ began[s] > userFloor[u]
                            THEN began[s] ELSE userFloor[u]
        BY <3>2 DEF InsertUsers
      <4> QED BY <3>1, <4>1, <4>2, StoreUsersStamped
    <3>3. CASE InsertUsersFails(s)
      <4>1. userFloor' = userFloor /\ (StoreUsers(s) \/ dimUsers' = dimUsers)
        BY <3>3 DEF InsertUsersFails
      <4> QED BY <3>1, <4>1, StoreUsersStamped
    <3> QED BY <1>4, <3>2, <3>3
  <2> QED BY <1>2, <2>2, <2>3
<1> QED BY <1>1, <1>3, <1>4, TablesChange

-----------------------------------------------------------------------------
(* The pages *)

LEMMA CollectedNext ==
    ASSUME TypeOK, [Next]_vars, NEW q \in Syncers, Collected(q)
    PROVE  Collected(q)'
<1> USE DEF Collected
<1>1. CASE Tick \/ UNCHANGED vars
  BY <1>1 DEF Tick, vars, sync, panel
<1>2. CASE ChangeUsers
  BY <1>2 DEF ChangeUsers, TypeOK
<1>3. ASSUME NEW s \in Syncers, StartSync(s) \/ FetchNodes(s) PROVE Collected(q)'
  BY <1>3 DEF StartSync, FetchNodes, TypeOK, panel
<1>4. ASSUME NEW s \in Syncers, Beginning(s) PROVE Collected(q)'
  <2>1. /\ BeginUsers(s) /\ UNCHANGED <<panel, rows, cursor>>
        /\ phase[s] \notin {"users", "insertUsers"}
    BY <1>4, BeginningBegins DEF BeginUsers
  <2>2. CASE s = q
    <3>1. phase'[q] = "users" /\ kept'[q] = users /\ users' = users /\ cursor'[q] = 0
      BY <2>1, <2>2 DEF BeginUsers, TypeOK, panel
    <3>2. \A u \in Users : ~(u <= 0)
      BY Bounds DEF Users
    <3>3. users \subseteq Users
      BY DEF TypeOK
    <3> QED BY <3>1, <3>2, <3>3
  <2>3. CASE s # q
    BY <2>1, <2>3 DEF BeginUsers, TypeOK, panel
  <2> QED BY <2>2, <2>3
<1>5. ASSUME NEW s \in Syncers, ReplaceAddresses(s), ~BeginUsers(s) PROVE Collected(q)'
  BY <1>5, ReplacedOnly DEF TypeOK, panel
<1>6. ASSUME NEW s \in Syncers, FetchUsers(s) PROVE Collected(q)'
  <2>1. PICK c \in Batch(s) : cursor' = [cursor EXCEPT ![s] = c]
    BY <1>6 DEF FetchUsers
  <2>2. /\ phase[s] = "users" /\ rows' = [rows EXCEPT ![s] = Read(s)]
        /\ UNCHANGED <<users, phase, kept>>
    BY <1>6 DEF FetchUsers, panel
  <2>3. CASE s = q
    <3>1. ASSUME NEW u \in kept[q], u <= c PROVE rows'[q][u] # 0
      <4>1. u \in users /\ u \in Users /\ now # 0
        BY DEF TypeOK
      <4>2. CASE u <= cursor[q]
        BY <2>2, <2>3, <4>1, <4>2, ReadTypes DEF TypeOK
      <4>3. CASE u > cursor[q]
        <5>1. u \in Batch(s)
          BY <2>3, <3>1, <4>1, <4>3, BatchIsPrefix DEF After
        <5> QED BY <2>2, <2>3, <4>1, <5>1, ReadTypes DEF TypeOK
      <4> QED BY <4>1, <4>2, <4>3 DEF TypeOK, Users
    <3> QED BY <2>1, <2>2, <2>3, <3>1 DEF TypeOK
  <2>4. CASE s # q
    BY <2>1, <2>2, <2>4 DEF TypeOK
  <2> QED BY <2>3, <2>4
<1>7. ASSUME NEW s \in Syncers, FetchLastUsers(s) PROVE Collected(q)'
  <2>1. /\ phase[s] = "users" /\ phase' = [phase EXCEPT ![s] = "insertUsers"]
        /\ rows' = [rows EXCEPT ![s] = Read(s)]
        /\ UNCHANGED <<users, kept, cursor>> /\ After(s) = Batch(s)
    BY <1>7 DEF FetchLastUsers, panel, HasMore
  <2>2. CASE s = q
    <3>1. ASSUME NEW u \in kept[q] PROVE rows'[q][u] # 0
      <4>1. u \in users /\ u \in Users /\ now # 0
        BY DEF TypeOK
      <4>2. CASE u <= cursor[q]
        BY <2>1, <2>2, <4>1, <4>2, ReadTypes DEF TypeOK
      <4>3. CASE u > cursor[q]
        <5>1. u \in Batch(s)
          BY <2>1, <2>2, <4>1, <4>3 DEF After
        <5> QED BY <2>1, <2>2, <4>1, <5>1, ReadTypes DEF TypeOK
      <4> QED BY <4>1, <4>2, <4>3 DEF TypeOK, Users
    <3> QED BY <2>1, <2>2, <3>1 DEF TypeOK
  <2>3. CASE s # q
    BY <2>1, <2>3 DEF TypeOK
  <2> QED BY <2>2, <2>3
<1>8. ASSUME NEW s \in Syncers, Resting(s) PROVE Collected(q)'
  BY <1>8, RestingRests DEF Rest, TypeOK, panel
<1> QED
  BY <1>1, <1>2, <1>3, <1>4, <1>5, <1>6, <1>7, <1>8
  DEF Next, SyncNodes, SyncUsers, Resting, Beginning

-----------------------------------------------------------------------------
(* The address set *)

LEMMA AddressesNext ==
    ASSUME TypeOK, OwnAddressesRecognised, [Next]_vars
    PROVE  OwnAddressesRecognised'
<1> USE DEF OwnAddressesRecognised, Contains
<1>1. CASE UNCHANGED addresses
  BY <1>1 DEF addresses
<1>2. ASSUME NEW s \in Syncers, ReplaceAddresses(s) PROVE OwnAddressesRecognised'
  <2>1. PICK resolved \in SUBSET (list[s].nodes \ list[s].literal) :
            infra' = [infra EXCEPT ![s] = NodeAddresses(s, resolved)]
    BY <1>2 DEF ReplaceAddresses
  <2>2. loaded' = [loaded EXCEPT ![s] = TRUE]
    BY <1>2 DEF ReplaceAddresses
  <2>3. known' = [known EXCEPT ![s] = (IF loaded[s] THEN known[s] ELSE Nodes) \cap list[s].literal]
    BY <1>2 DEF ReplaceAddresses
  <2> QED BY <2>1, <2>2, <2>3 DEF NodeAddresses, TypeOK
<1>3. ASSUME NEW s \in Syncers, Crash(s) PROVE OwnAddressesRecognised'
  BY <1>3 DEF Crash, TypeOK
<1> QED
  BY <1>1, <1>2, <1>3
  DEF Next, vars, SyncNodes, SyncUsers, Tick, ChangeUsers, StartSync, FetchNodes,
      FetchNodesFails, InsertNodes, InsertNodesFails, FetchUsers, FetchLastUsers,
      FetchNoUsers, TooManyPages, FetchUsersFails, InsertUsers, InsertUsersFails

-----------------------------------------------------------------------------

LEMMA Invariance == Spec => []Inv
<1>1. Inv /\ [Next]_vars => Inv'
  BY TypesNext, TimelyNext, StampedNext, CollectedNext, AddressesNext DEF Inv
<1> QED BY <1>1, InvInit, PTL DEF Spec

\* Every variable keeps its type; TypeOK bounds each time by the clock.
THEOREM TypeCorrect == Spec => []TypeOK
<1>1. Inv => TypeOK
  BY DEF Inv
<1> QED BY <1>1, Invariance, PTL

\* dict.go:404,532: because the clock is read before the first request, a refresh
\* never undoes a finished one with data read before that one began.
THEOREM FinishedRefreshesStand == Spec => []FinishedRefreshStands
<1>1. Inv => FinishedRefreshStands
  <2> SUFFICES ASSUME Inv PROVE FinishedRefreshStands
    OBVIOUS
  <2>1. \A u \in Users : /\ dimUsers[u].asOf \in Nat /\ dimUsers[u].stamp \in Nat
                         /\ userFloor[u] \in Nat
    BY DEF Inv, TypeOK
  <2>2. \A n \in Nodes : /\ dimNodes[n].asOf \in Nat /\ dimNodes[n].stamp \in Nat
                         /\ nodeFloor[n] \in Nat
    BY DEF Inv, TypeOK
  <2> QED BY <2>1, <2>2 DEF Inv, Stamped, FinishedRefreshStands
<1> QED BY <1>1, Invariance, PTL

\* dict.go:408-423: a user that exists all through the refresh is among its rows,
\* whatever the page size and however many users come and go between the pages.
THEOREM UsersAreNotSkipped == Spec => []NoUserSkipped
<1>1. Inv => NoUserSkipped
  BY DEF Inv, Collected, NoUserSkipped
<1> QED BY <1>1, Invariance, PTL

\* infra.go:45-87: an address that every list handled so far gives literally is
\* recognised as the panel's own.
THEOREM OwnAddressesStay == Spec => []OwnAddressesRecognised
<1>1. Inv => OwnAddressesRecognised
  BY DEF Inv
<1> QED BY <1>1, Invariance, PTL
=============================================================================
