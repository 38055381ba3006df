---------------------------- MODULE Dictionaries ----------------------------
(***************************************************************************)
(* The user and node dictionaries (internal/dict/dict.go) and the set of   *)
(* the panel's own addresses (internal/dict/infra.go). Every replica reads *)
(* the node list, replaces its address set, writes dim_nodes, then pages   *)
(* through the users and writes dim_users; a part that fails does not stop *)
(* the next. The panel's data changes with every tick of the clock, so     *)
(* what a read returned is the time it was read.                           *)
(***************************************************************************)
EXTENDS Naturals, FiniteSets

CONSTANTS
    Syncers,    \* replicas of the exporter
    MaxUser,    \* user ids are 1 .. MaxUser, served in that order
    PageSize,   \* users per page of /api/users/stream
    MaxPages,   \* the last page that may be followed by another
    Nodes,      \* nodes the panel may list; a node stands for its address, too
    MaxTime,    \* bound: ticks of the clock
    MaxFaults   \* bound: crashes, and failures while users are refreshed

ASSUME SyncersAssumption == IsFiniteSet(Syncers)
ASSUME BoundsAssumption ==
    /\ {PageSize, MaxTime} \subseteq Nat \ {0}
    /\ {MaxUser, MaxPages, MaxFaults} \subseteq Nat

VARIABLES
    now,        \* the clock
    users,      \* the users the panel has
    dimUsers,   \* dim_users FINAL: per user updated_at and when its data was read
    dimNodes,   \* dim_nodes FINAL, likewise
    phase,      \* where a replica's syncAll is
    began,      \* the local variable now of syncNodes and syncUsers
    list,       \* the node list being processed, see Lists
    listedAt,   \* when it was read
    rows,       \* user rows so far: when each user was read, or 0
    cursor,     \* the last user id read
    page,       \* the loop variable of syncUsers
    loaded,     \* whether the address set was ever filled
    infra,      \* the address set
    faults,     \* faults so far
    kept,       \* history: users that existed all through the refresh
    known,      \* history: addresses given literally in every list handled
    userFloor,  \* history: when the last stored refresh of a user began
    nodeFloor   \* history: when the last stored refresh of a node began

panel == <<now, users>>
tables == <<dimUsers, dimNodes, userFloor, nodeFloor>>
sync == <<phase, began, list, listedAt, rows, cursor, page, kept>>
addresses == <<loaded, infra, known>>
vars == <<panel, tables, sync, addresses, faults>>

Users == 1 .. MaxUser
Times == 0 .. MaxTime
NoRow == [stamp |-> 0, asOf |-> 0]
NoRows == [u \in Users |-> 0]

\* What matters of an answer to /api/nodes: the nodes in it, those whose address
\* is given literally (in ips, or as the address itself; the others have a host
\* name), and those with a numeric id.
Lists == {l \in [nodes : SUBSET Nodes, literal : SUBSET Nodes, numbered : SUBSET Nodes] :
            l.literal \cup l.numbered \subseteq l.nodes}
NoList == [nodes |-> {}, literal |-> {}, numbered |-> {}]

\* IPSet.Contains for an address of the panel.
Contains(s, a) == loaded[s] /\ a \in infra[s]

-----------------------------------------------------------------------------

Init ==
    /\ now = 1
    /\ users \in SUBSET Users
    /\ dimUsers = [u \in Users |-> NoRow]
    /\ dimNodes = [n \in Nodes |-> NoRow]
    /\ phase = [s \in Syncers |-> "idle"]
    /\ began = [s \in Syncers |-> 0]
    /\ list = [s \in Syncers |-> NoList]
    /\ listedAt = [s \in Syncers |-> 0]
    /\ rows = [s \in Syncers |-> NoRows]
    /\ cursor = [s \in Syncers |-> 0]
    /\ page = [s \in Syncers |-> 0]
    /\ loaded = [s \in Syncers |-> FALSE]
    /\ infra = [s \in Syncers |-> {}]
    /\ faults = 0
    /\ kept = [s \in Syncers |-> {}]
    /\ known = [s \in Syncers |-> {}]
    /\ userFloor = [u \in Users |-> 0]
    /\ nodeFloor = [n \in Nodes |-> 0]

(* The panel *)

Tick ==
    /\ now < MaxTime
    /\ now' = now + 1
    /\ UNCHANGED <<users, tables, sync, addresses, faults>>

ChangeUsers ==
    /\ \E u \in Users :
        /\ users' = IF u \in users THEN users \ {u} ELSE users \cup {u}
        /\ kept' = [s \in Syncers |-> kept[s] \ {u}]
    /\ UNCHANGED <<now, tables, phase, began, list, listedAt, rows, cursor, page,
                   addresses, faults>>

(* Moving on *)

\* syncUsers begins: it reads the clock before its first request.
BeginUsers(s) ==
    /\ phase' = [phase EXCEPT ![s] = "users"]
    /\ began' = [began EXCEPT ![s] = now]
    /\ list' = [list EXCEPT ![s] = NoList]
    /\ listedAt' = [listedAt EXCEPT ![s] = 0]
    /\ kept' = [kept EXCEPT ![s] = users]
    /\ UNCHANGED <<rows, cursor, page>>

\* syncAll is over, or the process died; the devices are in HwidDevices.
Rest(s) ==
    /\ phase' = [phase EXCEPT ![s] = "idle"]
    /\ began' = [began EXCEPT ![s] = 0]
    /\ list' = [list EXCEPT ![s] = NoList]
    /\ listedAt' = [listedAt EXCEPT ![s] = 0]
    /\ rows' = [rows EXCEPT ![s] = NoRows]
    /\ cursor' = [cursor EXCEPT ![s] = 0]
    /\ page' = [page EXCEPT ![s] = 0]
    /\ kept' = [kept EXCEPT ![s] = {}]

Fault == faults < MaxFaults /\ faults' = faults + 1

\* ReplacingMergeTree(updated_at): of the rows of a key the one with the newest
\* updated_at stays, of equal ones the last.
Newest(row, stamp, asOf) ==
    IF stamp >= row.stamp THEN [stamp |-> stamp, asOf |-> asOf] ELSE row

(* Nodes *)

StartSync(s) ==
    /\ phase[s] = "idle"
    /\ phase' = [phase EXCEPT ![s] = "nodes"]
    /\ began' = [began EXCEPT ![s] = now]
    /\ UNCHANGED <<panel, tables, list, listedAt, rows, cursor, page, kept, addresses, faults>>

\* The panel's list may be any: nodes come, go and change in no way that matters.
FetchNodes(s) ==
    /\ phase[s] = "nodes"
    /\ phase' = [phase EXCEPT ![s] = "resolve"]
    /\ \E l \in Lists : list' = [list EXCEPT ![s] = l]
    /\ listedAt' = [listedAt EXCEPT ![s] = now]
    /\ UNCHANGED <<panel, tables, began, rows, cursor, page, kept, addresses, faults>>

\* Mutant of FetchNodesFails: a failed part ends syncAll.
FetchNodesFailsAll(s) ==
    /\ phase[s] = "nodes"
    /\ Rest(s)
    /\ UNCHANGED <<panel, tables, addresses, faults>>

FetchNodesFails(s) ==
    /\ phase[s] = "nodes"
    /\ BeginUsers(s)
    /\ UNCHANGED <<panel, tables, addresses, faults>>

\* The addresses given literally, and those of the host names that resolve.
NodeAddresses(s, resolved) == list[s].literal \cup resolved

\* Mutant of ReplaceAddresses: ids are checked first.
ReplaceNumbered(s) ==
    /\ phase[s] = "resolve"
    /\ loaded' = [loaded EXCEPT ![s] = TRUE]
    /\ known' = [known EXCEPT ![s] = (IF loaded[s] THEN @ ELSE Nodes) \cap list[s].literal]
    /\ IF list[s].numbered = {}
       THEN BeginUsers(s) /\ UNCHANGED infra
       ELSE /\ phase' = [phase EXCEPT ![s] = "insertNodes"]
            /\ \E resolved \in SUBSET (list[s].nodes \ list[s].literal) :
                    infra' = [infra EXCEPT ![s] = NodeAddresses(s, resolved)]
            /\ UNCHANGED <<began, list, listedAt, rows, cursor, page, kept>>
    /\ UNCHANGED <<panel, tables, faults>>

\* The set is replaced before anything is written, and whatever is written. With
\* no numbered node nothing is: that is an error unless the list is empty.
ReplaceAddresses(s) ==
    /\ phase[s] = "resolve"
    /\ \E resolved \in SUBSET (list[s].nodes \ list[s].literal) :
        infra' = [infra EXCEPT ![s] = NodeAddresses(s, resolved)]
    /\ loaded' = [loaded EXCEPT ![s] = TRUE]
    /\ known' = [known EXCEPT ![s] = (IF loaded[s] THEN @ ELSE Nodes) \cap list[s].literal]
    /\ IF list[s].numbered = {}
       THEN BeginUsers(s)
       ELSE /\ phase' = [phase EXCEPT ![s] = "insertNodes"]
            /\ UNCHANGED <<began, list, listedAt, rows, cursor, page, kept>>
    /\ UNCHANGED <<panel, tables, faults>>

StoreNodes(s) ==
    dimNodes' = [n \in Nodes |->
        IF n \in list[s].numbered THEN Newest(dimNodes[n], began[s], listedAt[s]) ELSE dimNodes[n]]

InsertNodes(s) ==
    /\ phase[s] = "insertNodes"
    /\ StoreNodes(s)
    /\ nodeFloor' = [n \in Nodes |->
            IF n \in list[s].numbered /\ began[s] > nodeFloor[n] THEN began[s] ELSE nodeFloor[n]]
    /\ BeginUsers(s)
    /\ UNCHANGED <<panel, dimUsers, userFloor, addresses, faults>>

\* Insert returns an error; the rows may be stored.
InsertNodesFails(s) ==
    /\ phase[s] = "insertNodes"
    /\ StoreNodes(s) \/ UNCHANGED dimNodes
    /\ BeginUsers(s)
    /\ UNCHANGED <<panel, dimUsers, userFloor, nodeFloor, addresses, faults>>

(* Users *)

\* A page: the next users after the cursor, and whether there are more.
After(s) == {u \in users : u > cursor[s]}
Batch(s) == {u \in After(s) : Cardinality({v \in After(s) : v <= u}) <= PageSize}
HasMore(s) == After(s) # Batch(s)

Read(s) == [u \in Users |-> IF u \in Batch(s) THEN now ELSE rows[s][u]]

\* Mutant of FetchUsers: no limit on pages.
FetchUsersUnlimited(s) ==
    /\ phase[s] = "users"
    /\ HasMore(s)
    /\ rows' = [rows EXCEPT ![s] = Read(s)]
    /\ \E u \in Batch(s) :
        /\ \A v \in Batch(s) : v <= u
        /\ cursor' = [cursor EXCEPT ![s] = u]
    /\ page' = [page EXCEPT ![s] = @ + 1]
    /\ UNCHANGED <<panel, tables, phase, began, list, listedAt, kept, addresses, faults>>

FetchUsers(s) ==
    /\ phase[s] = "users"
    /\ HasMore(s)
    /\ page[s] <= MaxPages
    /\ rows' = [rows EXCEPT ![s] = Read(s)]
    /\ \E u \in Batch(s) :
        /\ \A v \in Batch(s) : v <= u
        /\ cursor' = [cursor EXCEPT ![s] = u]
    /\ page' = [page EXCEPT ![s] = @ + 1]
    /\ UNCHANGED <<panel, tables, phase, began, list, listedAt, kept, addresses, faults>>

\* Mutant of FetchLastUsers: the loop ends before the last page is appended.
DropsLastPage(s) ==
    /\ phase[s] = "users"
    /\ ~HasMore(s)
    /\ Read(s) # NoRows
    /\ phase' = [phase EXCEPT ![s] = "insertUsers"]
    /\ UNCHANGED <<panel, tables, began, list, listedAt, rows, cursor, page, kept, addresses, faults>>

FetchLastUsers(s) ==
    /\ phase[s] = "users"
    /\ ~HasMore(s)
    /\ Read(s) # NoRows
    /\ phase' = [phase EXCEPT ![s] = "insertUsers"]
    /\ rows' = [rows EXCEPT ![s] = Read(s)]
    /\ UNCHANGED <<panel, tables, began, list, listedAt, cursor, page, kept, addresses, faults>>

\* No users: nothing is written.
FetchNoUsers(s) ==
    /\ phase[s] = "users"
    /\ ~HasMore(s)
    /\ Read(s) = NoRows
    /\ Rest(s)
    /\ UNCHANGED <<panel, tables, addresses, faults>>

\* The users stream does not terminate.
TooManyPages(s) ==
    /\ phase[s] = "users"
    /\ HasMore(s)
    /\ page[s] > MaxPages
    /\ Rest(s)
    /\ UNCHANGED <<panel, tables, addresses, faults>>

FetchUsersFails(s) ==
    /\ phase[s] = "users"
    /\ Fault
    /\ Rest(s)
    /\ UNCHANGED <<panel, tables, addresses>>

\* Mutant of StoreUsers: updated_at is the time of the insert.
StampedAtInsert(s) ==
    dimUsers' = [u \in Users |->
        IF rows[s][u] # 0 THEN Newest(dimUsers[u], now, rows[s][u]) ELSE dimUsers[u]]

StoreUsers(s) ==
    dimUsers' = [u \in Users |->
        IF rows[s][u] # 0 THEN Newest(dimUsers[u], began[s], rows[s][u]) ELSE dimUsers[u]]

InsertUsers(s) ==
    /\ phase[s] = "insertUsers"
    /\ StoreUsers(s)
    /\ userFloor' = [u \in Users |->
            IF rows[s][u] # 0 /\ began[s] > userFloor[u] THEN began[s] ELSE userFloor[u]]
    /\ Rest(s)
    /\ UNCHANGED <<panel, dimNodes, nodeFloor, addresses, faults>>

InsertUsersFails(s) ==
    /\ phase[s] = "insertUsers"
    /\ Fault
    /\ StoreUsers(s) \/ UNCHANGED dimUsers
    /\ Rest(s)
    /\ UNCHANGED <<panel, dimNodes, userFloor, nodeFloor, addresses>>

\* The process dies and starts again, with an empty address set.
Crash(s) ==
    /\ Fault
    /\ Rest(s)
    /\ loaded' = [loaded EXCEPT ![s] = FALSE]
    /\ infra' = [infra EXCEPT ![s] = {}]
    /\ known' = [known EXCEPT ![s] = {}]
    /\ UNCHANGED <<panel, tables>>

-----------------------------------------------------------------------------

SyncNodes(s) ==
    \/ StartSync(s)
    \/ FetchNodes(s)
    \/ FetchNodesFails(s)
    \/ ReplaceAddresses(s)
    \/ InsertNodes(s)
    \/ InsertNodesFails(s)

SyncUsers(s) ==
    \/ FetchUsers(s)
    \/ FetchLastUsers(s)
    \/ FetchNoUsers(s)
    \/ TooManyPages(s)
    \/ InsertUsers(s)

Next ==
    \/ Tick
    \/ ChangeUsers
    \/ \E s \in Syncers :
        \/ SyncNodes(s)
        \/ SyncUsers(s)
        \/ FetchUsersFails(s)
        \/ InsertUsersFails(s)
        \/ Crash(s)

\* The ticker fires for ever and every call has a timeout. Nodes may fail each
\* time; failures of the users' part are as many as MaxFaults.
Fairness == \A s \in Syncers : WF_vars(SyncNodes(s)) /\ WF_vars(SyncUsers(s))

Spec == Init /\ [][Next]_vars /\ Fairness

-----------------------------------------------------------------------------
(* Properties *)

TypeOK ==
    /\ now \in 1 .. MaxTime
    /\ users \subseteq Users
    /\ dimUsers \in [Users -> [stamp : 0 .. now, asOf : 0 .. now]]
    /\ dimNodes \in [Nodes -> [stamp : 0 .. now, asOf : 0 .. now]]
    /\ phase \in [Syncers -> {"idle", "nodes", "resolve", "insertNodes", "users", "insertUsers"}]
    /\ began \in [Syncers -> 0 .. now]
    /\ list \in [Syncers -> Lists]
    /\ listedAt \in [Syncers -> 0 .. now]
    /\ rows \in [Syncers -> [Users -> 0 .. now]]
    /\ cursor \in [Syncers -> 0 .. MaxUser]
    /\ page \in [Syncers -> 0 .. MaxPages + 1]
    /\ loaded \in [Syncers -> BOOLEAN]
    /\ infra \in [Syncers -> SUBSET Nodes]
    /\ faults \in 0 .. MaxFaults
    /\ kept \in [Syncers -> SUBSET Users]
    /\ known \in [Syncers -> SUBSET Nodes]
    /\ userFloor \in [Users -> 0 .. now]
    /\ nodeFloor \in [Nodes -> 0 .. now]

\* dict.go:404,532: the clock is read before the first request. So replicas that
\* refresh at once may write in any order, and still no row ends older than any
\* finished refresh of it: a refresh that began earlier never undoes a later one
\* with what it read before that one began.
FinishedRefreshStands ==
    /\ \A u \in Users : dimUsers[u].asOf >= userFloor[u]
    /\ \A n \in Nodes : dimNodes[n].asOf >= nodeFloor[n]

\* dict.go:408-423: users come and go between pages, but every user that exists
\* all through the refresh is among the rows that are inserted.
NoUserSkipped ==
    \A s \in Syncers, u \in Users :
        phase[s] = "insertUsers" /\ u \in kept[s] => rows[s][u] # 0

\* infra.go:45-87, dict.go:539: once a node list was handled, an address that is
\* given literally in every list is recognised as the panel's own, whether host
\* names resolve, nodes have ids or rows can be stored or not.
OwnAddressesRecognised == \A s \in Syncers : \A a \in known[s] : Contains(s, a)

\* dict.go:117-136: a user that stays gets its name in dim_users, even if the node
\* refresh before it fails every time, unless there are again and again more users
\* than the pages allow.
Overflows == \E s \in Syncers : phase[s] = "users" /\ HasMore(s) /\ page[s] > MaxPages

EveryUserNamed ==
    \A u \in Users : <>[](u \in users) => <>(dimUsers[u].stamp # 0) \/ []<>Overflows
=============================================================================
