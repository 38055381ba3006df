---------------------------- MODULE TorrentPoller ----------------------------
(***************************************************************************)
(* The Torrent Blocker poller (internal/dict/torrent.go): it pages through *)
(* the panel's report list, newest first, down to a short overlap behind   *)
(* its cursor, and writes the reports it has not written yet.  The panel   *)
(* commits reports, late and out of order, and truncates the list while    *)
(* the pages are being read.                                               *)
(*                                                                         *)
(* Time is a counter of ticks; 0 is Go's zero time, "no cursor".  A report *)
(* is its id and its createdAt, which together are torrentKey.  The slice  *)
(* a poll collects is how often each report is in it: nothing depends on   *)
(* its order.                                                              *)
(***************************************************************************)
EXTENDS Integers, FiniteSets

CONSTANTS
    MaxId,        \* bound: reports between two truncates
    MaxTime,      \* bound: ticks
    Overlap,      \* torrentOverlap
    CommitDelay,  \* the longest the panel takes to commit a report
    PageSize,     \* torrentPageSize
    MaxPages,     \* torrentMaxPages
    MaxFaults,    \* bound: failed calls and crashes
    MaxTruncates  \* bound: truncates of the report list

ASSUME BoundsAssumption ==
    /\ MaxId \in Nat
    /\ MaxTime \in Nat \ {0}
    /\ PageSize \in Nat \ {0}
    /\ MaxPages \in Nat \ {0}
    /\ MaxFaults \in Nat
    /\ MaxTruncates \in Nat

\* "a slow transaction can land a report just behind one already seen"
\* (torrent.go:18-20): the overlap is chosen to cover it.
ASSUME OverlapAssumption ==
    /\ Overlap \in Nat
    /\ CommitDelay \in Nat
    /\ CommitDelay <= Overlap

Reports == [id : 1 .. MaxId, at : 1 .. MaxTime]

VARIABLES
    \* the panel
    now,
    nextId,     \* next value of the id sequence
    opened,     \* reports with an id whose transaction is not committed
    listed,     \* committed reports, what the API lists
    \* ClickHouse
    table,      \* reports with a row in torrent_reports
    \* Syncer
    phase,      \* "down", "idle" between polls, "fetch", "insert"
    resumed,    \* torrentResume
    since,      \* torrentSince
    stored,     \* torrentStored
    page,       \* next page to request
    out,        \* times this poll collected each report, then the unseen ones
    \* history
    shifts,     \* reports committed since this poll read its first page
    capped,     \* a poll ran into MaxPages and skipped older reports
    unmarked,   \* reports in the table this process may not know it wrote
    faults,
    truncates

panel   == <<now, nextId, opened, listed>>
memory  == <<resumed, since, stored>>
poll    == <<phase, page, out>>
history == <<capped, unmarked, shifts, faults, truncates>>
vars    == <<panel, table, memory, poll, history>>

\* The reports that are in the slice, and the slice without any.
Collected == {r \in Reports : out[r] > 0}
NoReports == [r \in Reports |-> 0]

TypeOK ==
    /\ now \in 1 .. MaxTime
    /\ nextId \in 1 .. MaxId + 1
    /\ opened \subseteq Reports
    /\ listed \subseteq Reports
    /\ table \subseteq Reports
    /\ phase \in {"down", "idle", "fetch", "insert"}
    /\ resumed \in BOOLEAN
    /\ since \in 0 .. MaxTime
    /\ stored \subseteq Reports
    /\ page \in 0 .. MaxPages
    /\ out \in [Reports -> Nat]
    /\ shifts \in Nat
    /\ capped \in BOOLEAN
    /\ unmarked \subseteq Reports
    /\ faults \in 0 .. MaxFaults
    /\ truncates \in 0 .. MaxTruncates

Init ==
    /\ now = 1
    /\ nextId = 1
    /\ opened = {}
    /\ listed = {}
    /\ table = {}
    /\ phase = "down"
    /\ resumed = FALSE
    /\ since = 0
    /\ stored = {}
    /\ page = 0
    /\ out = NoReports
    /\ capped = FALSE
    /\ unmarked = {}
    /\ shifts = 0
    /\ faults = 0
    /\ truncates = 0

-------------------------------------------------------------------------------
(* The panel *)

\* Time passes, but no transaction stays open longer than CommitDelay.
Tick ==
    /\ now < MaxTime
    /\ \A r \in opened : now < r.at + CommitDelay
    /\ now' = now + 1
    /\ UNCHANGED <<nextId, opened, listed, table, memory, poll, history>>

\* A report takes its id and its createdAt.
TakeId ==
    /\ nextId <= MaxId
    /\ nextId' = nextId + 1
    /\ opened' = opened \cup {[id |-> nextId, at |-> now]}
    /\ UNCHANGED <<now, listed, table, memory, poll, history>>

\* A report appears in the list; behind it every page moves by one.
Commit ==
    /\ \E r \in opened :
          /\ opened' = opened \ {r}
          /\ listed' = listed \cup {r}
    /\ shifts' = IF page > 0 THEN shifts + 1 ELSE shifts
    /\ UNCHANGED <<now, nextId, table, memory, poll, capped, unmarked, faults, truncates>>

\* The list is emptied and the ids start over; the clock goes on.
Truncate ==
    /\ truncates < MaxTruncates
    /\ opened = {}
    /\ now < MaxTime
    /\ truncates' = truncates + 1
    /\ now' = now + 1
    /\ nextId' = 1
    /\ listed' = {}
    /\ UNCHANGED <<opened, table, memory, poll, capped, unmarked, shifts, faults>>

-------------------------------------------------------------------------------
(* Process life cycle *)

Fault == faults < MaxFaults /\ faults' = faults + 1

NoPoll == page' = 0 /\ out' = NoReports /\ shifts' = 0

Forget ==
    /\ resumed' = FALSE
    /\ since' = 0
    /\ stored' = {}
    /\ NoPoll

Boot ==
    /\ phase = "down"
    /\ phase' = "idle"
    /\ UNCHANGED <<panel, table, memory, page, out, history>>

\* The process ends, possibly while ClickHouse is storing the batch.
Crash ==
    /\ phase # "down"
    /\ Fault
    /\ phase' = "down"
    /\ Forget
    /\ table' \in {table} \cup (IF phase = "insert" THEN {table \cup Collected} ELSE {})
    /\ unmarked' = table'
    /\ UNCHANGED <<panel, capped, truncates>>

-------------------------------------------------------------------------------
(* pollTorrentReports *)

LatestOf(reports) ==
    IF reports = {} THEN 0
    ELSE CHOOSE t \in 1 .. MaxTime : /\ \E r \in reports : r.at = t
                                     /\ \A r \in reports : r.at <= t

\* A poll begins; the first of a process reads the cursor back from ClickHouse.
StartPoll ==
    /\ phase = "idle"
    /\ phase' = "fetch"
    /\ resumed' = TRUE
    /\ since' = IF resumed THEN since ELSE LatestOf(table)
    /\ NoPoll
    /\ UNCHANGED <<panel, table, stored, capped, unmarked, faults, truncates>>

\* A query or a request fails, and the poll with it: pages read so far are lost.
PollFails ==
    /\ phase \in {"idle", "fetch"}
    /\ Fault
    /\ phase' = "idle"
    /\ NoPoll
    /\ UNCHANGED <<panel, table, memory, capped, unmarked, truncates>>

\* Position of a report in the list, newest id first.
Position(r) == Cardinality({q \in listed : q.id > r.id})

\* The records of page n.
PageOf(n) == {r \in listed : n * PageSize <= Position(r) /\ Position(r) < (n + 1) * PageSize}

\* Mutant of TooOld: nothing behind the cursor is read again.
TooOldNoOverlap(r) == since # 0 /\ r.at < since

\* A report behind the cutoff; without a cursor there is no cutoff.
TooOld(r) == since # 0 /\ r.at < since - Overlap

\* The records of a page before the first one behind the cutoff.
Fresh(batch) == {r \in batch : \A q \in batch : q.id >= r.id => ~TooOld(q)}

\* Mutant of LastPage: one request per poll.
FirstPageOnly(n, batch) == TRUE

\* Paging ends at a report behind the cutoff or at the end of the list.
LastPage(n, batch) ==
    \/ \E r \in batch : TooOld(r)
    \/ Cardinality(batch) < PageSize
    \/ (n + 1) * PageSize >= Cardinality(listed)

\* The slice with a batch appended: a report that an earlier page held too is
\* in it once more.
Appended(slice, batch) == [r \in Reports |-> slice[r] + (IF r \in batch THEN 1 ELSE 0)]

\* unseenTorrentReports drops what earlier polls stored, and leaves a report
\* that is in the slice twice there twice.
Unseen(slice) == [r \in Reports |-> IF r \in stored THEN 0 ELSE slice[r]]

\* One request of fetchTorrentReports; after the last one, the reports this
\* process already wrote are dropped.
FetchPage ==
    LET batch == PageOf(page)
        read  == Appended(out, Fresh(batch))
        last  == LastPage(page, batch)
        full  == page + 1 = MaxPages
    IN  /\ phase = "fetch"
        /\ IF last \/ full
           THEN /\ out' = Unseen(read)
                /\ phase' = IF out' = NoReports THEN "idle" ELSE "insert"
                /\ page' = 0
                /\ shifts' = IF out' = NoReports THEN 0 ELSE shifts
           ELSE /\ out' = read
                /\ page' = page + 1
                /\ UNCHANGED <<phase, shifts>>
        /\ capped' = (capped \/ (full /\ ~last))
        /\ UNCHANGED <<panel, table, memory, unmarked, faults, truncates>>

\* Mutants of MarkStored: the reports are not remembered, or the cursor is set
\* just past the newest.
MarkCursorOnly(reports) ==
    /\ since' = IF LatestOf(reports) > since THEN LatestOf(reports) ELSE since
    /\ stored' = {}
MarkPast(reports) ==
    /\ since' = IF LatestOf(reports) > since THEN LatestOf(reports) + 1 ELSE since
    /\ stored' = {r \in stored \cup reports : r.at >= since' - Overlap}

\* markTorrentReportsStored: the cursor moves past the batch and what fell out
\* of the overlap is forgotten.
MarkStored(reports) ==
    /\ since' = IF LatestOf(reports) > since THEN LatestOf(reports) ELSE since
    /\ stored' = {r \in stored \cup reports : r.at >= since' - Overlap}

InsertRows ==
    /\ phase = "insert"
    /\ table' = table \cup Collected
    /\ MarkStored(Collected)
    /\ phase' = "idle"
    /\ NoPoll
    /\ unmarked' = unmarked \ Collected
    /\ UNCHANGED <<panel, resumed, capped, faults, truncates>>

\* Mutant of InsertFails: the batch is marked although it may not be stored.
MarkOnFailure ==
    /\ phase = "insert"
    /\ Fault
    /\ \/ table' = table \cup Collected /\ unmarked' = unmarked \cup Collected
       \/ UNCHANGED <<table, unmarked>>
    /\ MarkStored(Collected)
    /\ phase' = "idle"
    /\ NoPoll
    /\ UNCHANGED <<panel, resumed, capped, truncates>>

\* The insert fails, its rows stored or not; the cursor stays.
InsertFails ==
    /\ phase = "insert"
    /\ Fault
    /\ \/ table' = table \cup Collected /\ unmarked' = unmarked \cup Collected
       \/ UNCHANGED <<table, unmarked>>
    /\ phase' = "idle"
    /\ NoPoll
    /\ UNCHANGED <<panel, memory, capped, truncates>>

-------------------------------------------------------------------------------

Poll == StartPoll \/ FetchPage \/ InsertRows

Next ==
    \/ Tick \/ TakeId \/ Commit \/ Truncate
    \/ Boot \/ Crash
    \/ Poll \/ PollFails \/ InsertFails

Spec == Init /\ [][Next]_vars

\* The ticker starts polls for ever and a poll's calls time out (30 s); a
\* process that died is restarted.
Fairness == WF_vars(Poll) /\ WF_vars(Boot)

FairSpec == Spec /\ Fairness

-------------------------------------------------------------------------------
(* Properties *)

\* No report is left behind: one the panel lists that lies behind the overlap,
\* where no later poll of this or the next process looks, is in ClickHouse,
\* however late it was committed and whatever shifted the pages while they were
\* read.  (Unless a poll hit torrentMaxPages, which gives up older reports.)
NothingLeftBehind ==
    \A r \in listed :
        r.at < LatestOf(table) - Overlap => r \in table \/ capped

\* The cursor never runs ahead of what is stored, so a crash at any point does
\* not skip what the process had only fetched.
CursorIsStored == resumed => since <= LatestOf(table)

\* The poller writes a report more than once for two reasons only.  A later
\* insert repeats it if a failed insert or a restart left it unmarked ("after a
\* restart the overlap is written once more", torrent.go:140-141), and then
\* once.  One insert repeats it, with nothing failing, because reports that are
\* committed between two page requests move it to a later page, which is read
\* and collected again (torrent.go:198-203); each of them adds one row at most.
RewritesAreExplained ==
    [][InsertRows => /\ Collected \cap table \subseteq unmarked
                     /\ \A r \in Collected : out[r] <= 1 + shifts]_vars

\* Every report the panel lists is stored in the end, unless it is truncated
\* away first or given up at torrentMaxPages.
EverythingPolled == \A r \in Reports : r \in listed ~> (r \in table \/ r \notin listed \/ capped)
===============================================================================
