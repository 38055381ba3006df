---------------------------- MODULE HwidDevices ----------------------------
(***************************************************************************)
(* The HWID device list (internal/dict/hwid.go): every refresh pages       *)
(* through the panel's list by offset and writes what it collected under   *)
(* one synced_at; v_hwid_devices shows the rows of the newest synced_at.   *)
(* Several replicas may refresh at once, and users bind and unbind devices *)
(* between any two requests.                                               *)
(***************************************************************************)
EXTENDS Naturals, Sequences, FiniteSets, SequencesExt, FiniteSetsExt

CONSTANTS
    Syncers,    \* replicas of the exporter
    Devices,    \* devices users may bind
    PageSize,   \* hwidPageSize
    MaxPages,   \* the last page number a refresh may ask for
    MaxTime,    \* bound: distinct values of synced_at
    MaxChanges  \* bound: devices bound or unbound

ASSUME SyncersAssumption == Syncers # {} /\ IsFiniteSet(Syncers)
ASSUME BoundsAssumption ==
    /\ IsFiniteSet(Devices)
    /\ {PageSize, MaxTime} \subseteq Nat \ {0}
    /\ {MaxPages, MaxChanges} \subseteq Nat

VARIABLES
    bound,      \* the panel's device list, in the order it is served
    changes,    \* how often it changed
    now,        \* the clock, as far as synced_at tells
    dim,        \* dim_hwid_devices FINAL: synced_at of a device's row, or 0
    phase,      \* what a replica's refresh is doing: idle, fetch or insert
    page,       \* the loop variable of fetchHwidDevices
    start,      \* len(out), the offset of the next page
    got,        \* the devices in out
    syncedAt,   \* the synced_at of the rows to insert
    kept,       \* history: devices bound all through the refresh
    seen,       \* history: devices bound at some moment of the refresh
    shrunk      \* history: whether one was unbound during the refresh

panel == <<bound, changes>>
refresh == <<phase, page, start, got, syncedAt>>
history == <<kept, seen, shrunk>>
vars == <<panel, now, dim, refresh, history>>

Active(s) == phase[s] # "idle"

\* v_hwid_devices.
View == {d \in Devices : dim[d] # 0 /\ \A e \in Devices : dim[e] <= dim[d]}

-----------------------------------------------------------------------------

Init ==
    /\ bound \in SetToAllKPermutations(Devices)
    /\ changes = 0
    /\ now = 1
    /\ dim = [d \in Devices |-> 0]
    /\ phase = [s \in Syncers |-> "idle"]
    /\ page = [s \in Syncers |-> 0]
    /\ start = [s \in Syncers |-> 0]
    /\ got = [s \in Syncers |-> {}]
    /\ syncedAt = [s \in Syncers |-> 0]
    /\ kept = [s \in Syncers |-> {}]
    /\ seen = [s \in Syncers |-> {}]
    /\ shrunk = [s \in Syncers |-> FALSE]

(* The panel. Where a new device appears in the list is up to it. *)

Bind ==
    /\ changes < MaxChanges
    /\ \E d \in Devices \ ToSet(bound), i \in 1 .. Len(bound) + 1 :
        /\ bound' = InsertAt(bound, i, d)
        /\ seen' = [s \in Syncers |-> IF Active(s) THEN seen[s] \cup {d} ELSE seen[s]]
    /\ changes' = changes + 1
    /\ UNCHANGED <<now, dim, refresh, kept, shrunk>>

Unbind ==
    /\ changes < MaxChanges
    /\ \E i \in DOMAIN bound :
        /\ bound' = RemoveAt(bound, i)
        /\ kept' = [s \in Syncers |-> kept[s] \ {bound[i]}]
    /\ shrunk' = [s \in Syncers |-> Active(s)]
    /\ changes' = changes + 1
    /\ UNCHANGED <<now, dim, refresh, seen>>

(* A refresh *)

\* Back to waiting for the ticker; what the refresh collected is garbage.
Done(s) ==
    /\ phase' = [phase EXCEPT ![s] = "idle"]
    /\ page' = [page EXCEPT ![s] = 0]
    /\ start' = [start EXCEPT ![s] = 0]
    /\ got' = [got EXCEPT ![s] = {}]
    /\ syncedAt' = [syncedAt EXCEPT ![s] = 0]
    /\ kept' = [kept EXCEPT ![s] = {}]
    /\ seen' = [seen EXCEPT ![s] = {}]
    /\ shrunk' = [shrunk EXCEPT ![s] = FALSE]

StartRefresh(s) ==
    /\ ~Active(s)
    /\ phase' = [phase EXCEPT ![s] = "fetch"]
    /\ kept' = [kept EXCEPT ![s] = ToSet(bound)]
    /\ seen' = [seen EXCEPT ![s] = ToSet(bound)]
    /\ UNCHANGED <<panel, now, dim, page, start, got, syncedAt, shrunk>>

\* The panel's answer to start=len(out)&size=PageSize.
Batch(s) == SubSeq(bound, start[s] + 1, Min({start[s] + PageSize, Len(bound)}))
Start(s) == start[s] + Len(Batch(s))

\* Mutant of ReadsLastPage: stops at a page without a new device.
StopsAtOldPage(s) == ToSet(Batch(s)) \subseteq got[s]

\* The end of the list: an empty page, or everything it says it has.
ReadsLastPage(s) == Len(Batch(s)) = 0 \/ Start(s) >= Len(bound)

\* Mutant of FetchPage: no limit on pages.
FetchPageUnlimited(s) ==
    /\ phase[s] = "fetch"
    /\ ~ReadsLastPage(s)
    /\ page' = [page EXCEPT ![s] = @ + 1]
    /\ start' = [start EXCEPT ![s] = Start(s)]
    /\ got' = [got EXCEPT ![s] = @ \cup ToSet(Batch(s))]
    /\ UNCHANGED <<panel, now, dim, phase, syncedAt, history>>

FetchPage(s) ==
    /\ phase[s] = "fetch"
    /\ ~ReadsLastPage(s)
    /\ page[s] < MaxPages
    /\ page' = [page EXCEPT ![s] = @ + 1]
    /\ start' = [start EXCEPT ![s] = Start(s)]
    /\ got' = [got EXCEPT ![s] = @ \cup ToSet(Batch(s))]
    /\ UNCHANGED <<panel, now, dim, phase, syncedAt, history>>

\* The list is complete. time.Now() is read only now; another replica may read
\* the same millisecond.
FetchLastPage(s) ==
    /\ phase[s] = "fetch"
    /\ ReadsLastPage(s)
    /\ Start(s) > 0
    /\ phase' = [phase EXCEPT ![s] = "insert"]
    /\ start' = [start EXCEPT ![s] = Start(s)]
    /\ got' = [got EXCEPT ![s] = @ \cup ToSet(Batch(s))]
    /\ \E t \in {now, now + 1} :
        /\ t <= MaxTime
        /\ now' = t
        /\ syncedAt' = [syncedAt EXCEPT ![s] = t]
    /\ UNCHANGED <<panel, dim, page, history>>

\* An empty list writes nothing.
FetchNothing(s) ==
    /\ phase[s] = "fetch"
    /\ ReadsLastPage(s)
    /\ Start(s) = 0
    /\ Done(s)
    /\ UNCHANGED <<panel, now, dim>>

\* Too many pages, a request that fails, ctx cancelled, or the process dies.
FetchFails(s) ==
    /\ phase[s] = "fetch"
    /\ Done(s)
    /\ UNCHANGED <<panel, now, dim>>

\* Mutant of Stored: the last insert wins, as in a table without synced_at as its
\* version.
StoredLast(s) == [d \in Devices |-> IF d \in got[s] THEN syncedAt[s] ELSE dim[d]]

\* ReplacingMergeTree(synced_at) keeps the newest row of a device.
Stored(s) == [d \in Devices |-> IF d \in got[s] /\ syncedAt[s] > dim[d] THEN syncedAt[s] ELSE dim[d]]

Insert(s) ==
    /\ phase[s] = "insert"
    /\ dim' = Stored(s)
    /\ Done(s)
    /\ UNCHANGED <<panel, now>>

\* Insert returns an error, or the process dies; the rows may be stored.
InsertFails(s) ==
    /\ phase[s] = "insert"
    /\ dim' \in {dim, Stored(s)}
    /\ Done(s)
    /\ UNCHANGED <<panel, now>>

(* ClickHouse: the TTL clears rows that are more than a day old, oldest first. *)

Expire ==
    /\ \E t \in 1 .. now :
        /\ \E d \in Devices : dim[d] \in 1 .. t
        /\ dim' = [d \in Devices |-> IF dim[d] <= t THEN 0 ELSE dim[d]]
    /\ UNCHANGED <<panel, now, refresh, history>>

-----------------------------------------------------------------------------

Next ==
    \/ Bind
    \/ Unbind
    \/ Expire
    \/ \E s \in Syncers :
        \/ StartRefresh(s)
        \/ FetchPage(s)
        \/ FetchLastPage(s)
        \/ FetchNothing(s)
        \/ FetchFails(s)
        \/ Insert(s)
        \/ InsertFails(s)

Spec == Init /\ [][Next]_vars

-----------------------------------------------------------------------------
(* Properties *)

TypeOK ==
    /\ bound \in Seq(Devices) /\ IsInjective(bound)
    /\ changes \in 0 .. MaxChanges
    /\ now \in 1 .. MaxTime
    /\ dim \in [Devices -> 0 .. now]
    /\ phase \in [Syncers -> {"idle", "fetch", "insert"}]
    /\ page \in [Syncers -> 0 .. MaxPages]
    /\ start \in [Syncers -> Nat]
    /\ got \in [Syncers -> SUBSET Devices]
    /\ syncedAt \in [Syncers -> 0 .. now]
    /\ kept \in [Syncers -> SUBSET Devices]
    /\ seen \in [Syncers -> SUBSET Devices]
    /\ shrunk \in [Syncers -> BOOLEAN]

\* hwid.go:55-58: synced_at tells the current list from devices deleted since.
\* When the newest refresh is stored, the view shows no device that was unbound
\* before it began, and, unless one was unbound while it paged, every device that
\* was bound all along: devices bound meanwhile shift the pages and the total,
\* but hide nothing.
RefreshShowsTheList ==
    [][\A s \in Syncers :
        phase[s] = "insert" /\ dim' # dim /\ phase'[s] = "idle"
            /\ (\A d \in Devices : dim[d] < syncedAt[s])
        => /\ View' \subseteq seen[s]
           /\ ~shrunk[s] => kept[s] \subseteq View']_vars

\* hwid.go:67-74: two replicas may insert in the other order than they stamped
\* their lists. The older list, when it lands late, changes nothing that is
\* shown: it neither brings a deleted device back nor takes a row from the newer.
LateListIsHidden ==
    [][\A s \in Syncers :
        phase[s] = "insert" /\ phase'[s] = "idle" /\ (\E d \in Devices : dim[d] > syncedAt[s])
        => View' = View]_vars

\* 01_tables.sql:144-146: "Each refresh writes the whole list under one synced_at,
\* so a device deleted in the panel is simply absent from the newest sync". So
\* after a refresh without an error no device is shown that was unbound before it
\* began. Not so for the last device: an empty list is not written.
DeletedAreAbsent ==
    [][\A s \in Syncers : FetchNothing(s) \/ Insert(s) => View' \subseteq seen[s]]_vars
=============================================================================
