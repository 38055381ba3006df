---------------------------- MODULE StreamConsumer ----------------------------
(***************************************************************************)
(* One Redis stream, its consumer group, the replica workers that read it  *)
(* (internal/consumer/consumer.go) and the ClickHouse table they fill.     *)
(* Streams do not share groups or tables, so one stream is the whole story *)
(* and each replica runs one worker of it.                                 *)
(*                                                                         *)
(* A step is one external call with the local work that follows it up to   *)
(* the next call.  Entries are their position in the stream; the row data  *)
(* is abstracted to which entry a row came from.  Every external call may  *)
(* fail before or after it took effect; such failures, crashes and stalls  *)
(* draw on the budget MaxFaults.                                           *)
(***************************************************************************)
EXTENDS Integers, FiniteSets, Functions

CONSTANTS
    Consumers,          \* consumer names (REDIS_CONSUMER), one worker each
    Nobody,             \* owner of an entry that is in nobody's pending list
    MaxId,              \* bound: entries the panel publishes
    MaxLen,             \* bound of the panel's MAXLEN: older entries may go
    Decoded,            \* what Decode and Insert make of each entry
    StartFromBeginning, \* REDIS_START_FROM_BEGINNING
    Count,              \* REDIS_BATCH
    FlushMaxRows,       \* FLUSH_MAX_ROWS
    MaxCopies,          \* bound: copies of an entry are counted up to here
    MaxFaults,          \* bound: failed calls, crashes and stalls
    MaxStops            \* bound: graceful stops (SIGTERM)

Ids == 1 .. MaxId

\* "rows": decodes to rows ClickHouse takes; "refused": decodes to a row that
\* fails batch.Append or Send every time; "none": a well-formed entry without
\* rows (an empty snapshot); "malformed": Decode returns an error.
Kinds == {"rows", "refused", "none", "malformed"}

ASSUME ConsumersAssumption == IsFiniteSet(Consumers) /\ Nobody \notin Consumers

ASSUME BoundsAssumption ==
    /\ MaxId \in Nat
    /\ MaxLen \in Nat \ {0}
    /\ Count \in Nat \ {0}
    /\ FlushMaxRows \in Nat \ {0}
    /\ MaxCopies \in Nat \ {0}
    /\ FlushMaxRows <= MaxCopies
    /\ MaxFaults \in Nat
    /\ MaxStops \in Nat

ASSUME InputAssumption ==
    /\ Decoded \in [Ids -> Kinds]
    /\ StartFromBeginning \in BOOLEAN

VARIABLES
    \* Redis
    published,     \* entries the panel has added so far
    trimmed,       \* entries 1..trimmed were removed by MAXLEN
    group,         \* the consumer group exists
    start,         \* last-delivered id the group was created with
    lastDelivered, \* the group's last-delivered id
    owner,         \* pending entries list: who an entry is assigned to
    stale,         \* entries whose idle time exceeds ClaimMinIdle
    \* ClickHouse
    copies,        \* rows stored per entry, counted up to MaxCopies
    \* workers
    pc,            \* where Run is
    task,          \* which caller of flush the worker is in
    cancelled,     \* the worker's ctx is cancelled
    rows,          \* Worker.rows: rows held per entry, up to MaxCopies
    pending,       \* Worker.pending: ids to acknowledge after the insert
    \* budgets
    faults,
    stops

redis   == <<published, trimmed, group, start, lastDelivered, owner, stale>>
buffer  == <<rows, pending>>
control == <<pc, task, cancelled>>
budgets == <<faults, stops>>
vars    == <<redis, copies, control, buffer, budgets>>

Places == {"down", "ensureGroup", "recover", "loop", "read", "insert", "ack",
           "stopped"}
Tasks  == {"none", "recover", "live", "final"}

TypeOK ==
    /\ published \in 0 .. MaxId
    /\ trimmed \in 0 .. MaxId
    /\ group \in BOOLEAN
    /\ start \in 0 .. MaxId
    /\ lastDelivered \in 0 .. MaxId
    /\ owner \in [Ids -> Consumers \cup {Nobody}]
    /\ stale \subseteq Ids
    /\ copies \in [Ids -> 0 .. MaxCopies]
    /\ pc \in [Consumers -> Places]
    /\ task \in [Consumers -> Tasks]
    /\ cancelled \in [Consumers -> BOOLEAN]
    /\ rows \in [Consumers -> [Ids -> 0 .. MaxCopies]]
    /\ pending \in [Consumers -> SUBSET Ids]
    /\ faults \in 0 .. MaxFaults
    /\ stops \in 0 .. MaxStops

Empty == [i \in Ids |-> 0]

Init ==
    /\ published = 0
    /\ trimmed = 0
    /\ group = FALSE
    /\ start = 0
    /\ lastDelivered = 0
    /\ owner = [i \in Ids |-> Nobody]
    /\ stale = {}
    /\ copies = Empty
    /\ pc = [c \in Consumers |-> "down"]
    /\ task = [c \in Consumers |-> "none"]
    /\ cancelled = [c \in Consumers |-> FALSE]
    /\ rows = [c \in Consumers |-> Empty]
    /\ pending = [c \in Consumers |-> {}]
    /\ faults = 0
    /\ stops = 0

-------------------------------------------------------------------------------
(* Helpers *)

Saturated(n) == IF n > MaxCopies THEN MaxCopies ELSE n

\* The Count smallest entries of S: what one reply carries.
FirstN(S) == {i \in S : Cardinality({j \in S : j < i}) < Count}

\* Decode succeeds and yields rows.
Decodable(i) == Decoded[i] \in {"rows", "refused"}

\* len(w.rows)
RowCount(bag) == SumFunction(bag)

PendingOf(c) == {i \in Ids : owner[i] = c}
Undelivered  == {i \in Ids : lastDelivered < i /\ trimmed < i /\ i <= published}
Delivered    == {i \in Ids : start < i /\ i <= lastDelivered}

GoTo(c, place, why) ==
    /\ pc' = [pc EXCEPT ![c] = place]
    /\ task' = [task EXCEPT ![c] = why]

Fault == faults < MaxFaults /\ faults' = faults + 1

\* A call made on a cancelled ctx fails by itself, before it is sent; any other
\* failure is a fault.  (One already waiting for its reply still gets it: only
\* XREADGROUP ">" with BLOCK waits, see ReadOnce.)
CallFails(c) == IF cancelled[c] THEN UNCHANGED faults ELSE Fault

\* Mutant of Assign: XREADGROUP with NOACK, so nothing becomes pending.
AssignNoAck(c, entries) == UNCHANGED <<owner, stale>>

\* Redis assigns entries to a consumer and restarts their idle time.
Assign(c, entries) ==
    /\ owner' = [i \in Ids |-> IF i \in entries THEN c ELSE owner[i]]
    /\ stale' = stale \ entries

\* Mutant of Consume: only entries that decode to rows are queued for
\* acknowledgement.
ConsumeRowsOnly(c, entries) ==
    LET decoded == {i \in entries : Decodable(i) /\ trimmed < i}
    IN  /\ rows' = [rows EXCEPT ![c] =
                      [i \in Ids |-> IF i \in decoded THEN Saturated(@[i] + 1)
                                                      ELSE @[i]]]
        /\ pending' = [pending EXCEPT ![c] = @ \cup decoded]

\* consume, for every message of a reply.  A trimmed entry is re-read without
\* fields, which no decoder accepts; an entry that fails to decode is only
\* queued for acknowledgement.
Consume(c, entries) ==
    LET decoded == {i \in entries : Decodable(i) /\ trimmed < i}
    IN  /\ rows' = [rows EXCEPT ![c] =
                      [i \in Ids |-> IF i \in decoded THEN Saturated(@[i] + 1)
                                                      ELSE @[i]]]
        /\ pending' = [pending EXCEPT ![c] = @ \cup entries]

\* Mutants of DropBuffer: one of the two slices is not reset.
DropPendingOnly(c) == pending' = [pending EXCEPT ![c] = {}] /\ UNCHANGED rows
DropRowsOnly(c)    == rows' = [rows EXCEPT ![c] = Empty] /\ UNCHANGED pending

DropBuffer(c) ==
    /\ rows' = [rows EXCEPT ![c] = Empty]
    /\ pending' = [pending EXCEPT ![c] = {}]

-------------------------------------------------------------------------------
(* The panel and time *)

\* XADD with an approximate MAXLEN: Redis may drop entries beyond the limit.
Publish ==
    /\ published < MaxId
    /\ published' = published + 1
    /\ trimmed' \in {trimmed} \cup (trimmed .. published + 1 - MaxLen)
    /\ UNCHANGED <<group, start, lastDelivered, owner, stale, copies, control, buffer, budgets>>

\* The owner of a pending entry does not hold it in memory.
Abandoned(i) == owner[i] # Nobody /\ i \notin pending[owner[i]]

\* A pending entry has been idle for ClaimMinIdle.  An owner that still holds
\* it can only be that late when it is stalled (a slow insert, a read outage).
\* This takes FLUSH_INTERVAL and REDIS_BLOCK together to stay below
\* REDIS_CLAIM_MIN_IDLE, as their defaults do (5 s and 5 s against 60 s); Load
\* does not check it, and where they do not, workers claim from one another what
\* they are about to insert.
GoesIdle(i) ==
    /\ owner[i] # Nobody
    /\ i \notin stale
    /\ stale' = stale \cup {i}
    /\ IF Abandoned(i) THEN UNCHANGED faults ELSE Fault
    /\ UNCHANGED <<published, trimmed, group, start, lastDelivered, owner, copies,
                   control, buffer, stops>>

-------------------------------------------------------------------------------
(* Process life cycle *)

\* The process starts, or is started again by its restart policy.
Boot(c) ==
    /\ pc[c] \in {"down", "stopped"}
    /\ GoTo(c, "ensureGroup", "none")
    /\ cancelled' = [cancelled EXCEPT ![c] = FALSE]
    /\ UNCHANGED <<redis, copies, buffer, budgets>>

\* SIGTERM cancels ctx.
Cancel(c) ==
    /\ pc[c] \notin {"down", "stopped"}
    /\ ~cancelled[c]
    /\ stops < MaxStops
    /\ stops' = stops + 1
    /\ cancelled' = [cancelled EXCEPT ![c] = TRUE]
    /\ UNCHANGED <<redis, copies, pc, task, buffer, faults>>

\* The process dies: what it held in memory is gone.
Crash(c) ==
    /\ pc[c] \notin {"down", "stopped"}
    /\ Fault
    /\ GoTo(c, "down", "none")
    /\ cancelled' = [cancelled EXCEPT ![c] = FALSE]
    /\ DropBuffer(c)
    /\ UNCHANGED <<redis, copies, stops>>

-------------------------------------------------------------------------------
(* Worker.Run *)

\* Mutant of CreateGroup: the group starts at the id the next entry will get and
\* not at "$", so that it never hands that entry out.
CreateGroupAtNext ==
    /\ group' = TRUE
    /\ IF group THEN UNCHANGED <<start, lastDelivered>>
       ELSE /\ start' = IF StartFromBeginning THEN 0 ELSE published + 1
            /\ lastDelivered' = start'

\* XGROUP CREATE at "0" or "$"; a group that is there already is left as it is.
CreateGroup ==
    /\ group' = TRUE
    /\ IF group THEN UNCHANGED <<start, lastDelivered>>     \* BUSYGROUP
       ELSE /\ start' = IF StartFromBeginning THEN 0 ELSE published
            /\ lastDelivered' = start'

\* ensureGroup.  An error ends Run and with it the process.
EnsureGroup(c) ==
    /\ pc[c] = "ensureGroup"
    /\ \/ CreateGroup /\ GoTo(c, "recover", "none") /\ UNCHANGED faults
       \/ /\ CreateGroup \/ UNCHANGED <<group, start, lastDelivered>>
          /\ CallFails(c)
          /\ GoTo(c, IF cancelled[c] THEN "stopped" ELSE "down", "none")
    /\ UNCHANGED <<published, trimmed, owner, stale, copies, cancelled, buffer, stops>>

\* recoverOwnPending: read the consumer's own pending entries from the start of
\* its list, trimmed ones included, and flush them; repeat until none are left.
RecoverRead(c) ==
    LET batch == FirstN(PendingOf(c))
    IN  /\ pc[c] = "recover"
        /\ \/ /\ batch = {}
              /\ GoTo(c, "loop", "none")
              /\ UNCHANGED <<owner, stale, buffer, faults>>
           \/ /\ batch # {}
              /\ ~cancelled[c]
              /\ Assign(c, batch)
              /\ Consume(c, batch)
              /\ GoTo(c, "insert", "recover")
              /\ UNCHANGED faults
           \/ /\ CallFails(c)
              /\ GoTo(c, "loop", "none")
              /\ UNCHANGED <<owner, stale, buffer>>
        /\ UNCHANGED <<published, trimmed, group, start, lastDelivered, copies, cancelled, stops>>

\* Mutant of StopSeen: the loop only ends once nothing is held.
StopWhenEmpty(c) ==
    /\ pc[c] = "loop"
    /\ cancelled[c]
    /\ pending[c] = {}
    /\ GoTo(c, "stopped", "none")
    /\ UNCHANGED <<redis, copies, cancelled, buffer, budgets>>

\* The loop's select sees ctx.Done: one last flush, on a context of its own.
StopSeen(c) ==
    /\ pc[c] = "loop"
    /\ cancelled[c]
    /\ IF pending[c] = {} THEN GoTo(c, "stopped", "none") ELSE GoTo(c, "insert", "final")
    /\ UNCHANGED <<redis, copies, cancelled, buffer, budgets>>

\* The select finds neither ctx.Done nor the ticker ready.
SelectDefault(c) ==
    /\ pc[c] = "loop"
    /\ ~cancelled[c]
    /\ GoTo(c, "read", "none")
    /\ UNCHANGED <<redis, copies, cancelled, buffer, budgets>>

\* XAUTOCLAIM from "0": the first Count pending entries that are stale, or no
\* longer in the stream; the latter leave the pending list, the former are
\* assigned to c, whoever had them.
AutoClaim(c, scanned) ==
    LET gone == {i \in scanned : i <= trimmed}
    IN  /\ owner' = [i \in Ids |-> IF i \in gone THEN Nobody
                                   ELSE IF i \in scanned THEN c ELSE owner[i]]
        /\ stale' = stale \ scanned

\* Mutant of ClaimStale: entries of other consumers are left to them.
ClaimOwnStale(c) ==
    LET scanned == FirstN({i \in Ids : owner[i] = c /\ (i \in stale \/ i <= trimmed)})
    IN  /\ pc[c] = "loop"
        /\ ~cancelled[c]
        /\ AutoClaim(c, scanned)
        /\ Consume(c, {i \in scanned : trimmed < i})
        /\ GoTo(c, "read", "none")
        /\ UNCHANGED <<published, trimmed, group, start, lastDelivered, copies, cancelled, budgets>>

\* claimStale, when the select takes the ticker; the loop then reads on.  With
\* ctx cancelled the select may still pick the ticker, but the call fails.
ClaimStale(c) ==
    LET scanned == FirstN({i \in Ids : owner[i] # Nobody /\ (i \in stale \/ i <= trimmed)})
    IN  /\ pc[c] = "loop"
        /\ \/ /\ ~cancelled[c]
              /\ AutoClaim(c, scanned)
              /\ Consume(c, {i \in scanned : trimmed < i})
              /\ UNCHANGED faults
           \/ /\ ~cancelled[c]      \* the reply is lost
              /\ AutoClaim(c, scanned)
              /\ Fault
              /\ UNCHANGED buffer
           \/ /\ CallFails(c)
              /\ UNCHANGED <<owner, stale, buffer>>
        /\ GoTo(c, "read", "none")
        /\ UNCHANGED <<published, trimmed, group, start, lastDelivered, copies, cancelled, stops>>

\* Mutant of MaybeFlush: no check of FlushMaxRows.
FlushOnTimeOnly(c, idle) ==
    \/ pending'[c] = {} /\ GoTo(c, "loop", "none")
    \/ pending'[c] # {} /\ GoTo(c, "insert", "live")
    \/ pending'[c] # {} /\ ~idle /\ GoTo(c, "loop", "none")

\* maybeFlush: flush when the buffer is full, the read came back empty, or
\* FlushInterval has passed (which the model lets happen at any time).
MaybeFlush(c, idle) ==
    LET full == RowCount(rows'[c]) >= FlushMaxRows
    IN  \/ pending'[c] = {} /\ GoTo(c, "loop", "none")
        \/ pending'[c] # {} /\ GoTo(c, "insert", "live")
        \/ pending'[c] # {} /\ ~idle /\ ~full /\ GoTo(c, "loop", "none")

\* XREADGROUP ">" hands entries to c and moves the group's last-delivered id.
ReadGroup(c, entries) ==
    /\ Assign(c, entries)
    /\ IF entries = {} THEN UNCHANGED lastDelivered
       ELSE /\ lastDelivered' \in entries
            /\ \A i \in entries : i <= lastDelivered'

\* readOnce and the rest of the iteration.  After an error the loop goes on
\* without a flush.
ReadOnce(c) ==
    LET batch == FirstN(Undelivered)
    IN  /\ pc[c] = "read"
        /\ \/ /\ ReadGroup(c, batch)
              /\ Consume(c, batch)
              /\ MaybeFlush(c, batch = {})
              /\ UNCHANGED faults
           \/ /\ ReadGroup(c, batch)    \* the reply is lost
              /\ Fault
              /\ GoTo(c, "loop", "none")
              /\ UNCHANGED buffer
           \/ /\ CallFails(c)
              /\ GoTo(c, "loop", "none")
              /\ UNCHANGED <<owner, stale, lastDelivered, buffer>>
        /\ UNCHANGED <<published, trimmed, group, start, copies, cancelled, stops>>

-------------------------------------------------------------------------------
(* flush *)

\* The final flush runs on a context of its own, the others on ctx.
Aborted(c) == cancelled[c] /\ task[c] # "final"

\* Where the caller of flush goes on after success and after an error.
AfterFlush(c)  == CASE task[c] = "recover" -> "recover"
                    [] task[c] = "final"   -> "stopped"
                    [] OTHER               -> "loop"
AfterFailure(c) == IF task[c] = "final" THEN "stopped" ELSE "loop"

Store(c) == copies' = [i \in Ids |-> Saturated(copies[i] + rows[c][i])]

Refused(c) == \E i \in Ids : rows[c][i] > 0 /\ Decoded[i] = "refused"

\* sink.Insert: one batch, all or nothing; no call at all without rows.
InsertRows(c) ==
    /\ pc[c] = "insert"
    /\ ~Refused(c)
    /\ Store(c)
    /\ GoTo(c, "ack", task[c])
    /\ UNCHANGED <<redis, cancelled, buffer, budgets>>

\* Mutant of InsertFails: flush ignores the error and acknowledges the batch.
InsertErrorIgnored(c) ==
    /\ pc[c] = "insert"
    /\ rows[c] # Empty
    /\ Refused(c) \/ Aborted(c) \/ faults < MaxFaults
    /\ GoTo(c, "ack", task[c])
    /\ UNCHANGED <<redis, copies, cancelled, buffer, budgets>>

\* The insert fails; the rows may be stored all the same unless a row was
\* refused.  Every caller then lets go of the batch.
InsertFails(c) ==
    /\ pc[c] = "insert"
    /\ rows[c] # Empty
    /\ \/ Refused(c) /\ UNCHANGED <<copies, faults>>
       \/ /\ ~Refused(c)
          /\ Store(c) \/ UNCHANGED copies
          /\ IF Aborted(c) THEN UNCHANGED faults ELSE Fault
    /\ DropBuffer(c)
    /\ GoTo(c, AfterFailure(c), "none")
    /\ UNCHANGED <<redis, cancelled, stops>>

\* XACK takes the entries off the pending list, whoever owns them by now.  Its
\* failure is only logged.
Ack(c) ==
    /\ pc[c] = "ack"
    /\ \/ /\ ~Aborted(c)
          /\ owner' = [i \in Ids |-> IF i \in pending[c] THEN Nobody ELSE owner[i]]
          /\ stale' = stale \ pending[c]
          /\ UNCHANGED faults
       \/ /\ IF Aborted(c) THEN UNCHANGED faults ELSE Fault
          /\ UNCHANGED <<owner, stale>>
    /\ DropBuffer(c)
    /\ GoTo(c, AfterFlush(c), "none")
    /\ UNCHANGED <<published, trimmed, group, start, lastDelivered, copies, cancelled, stops>>

-------------------------------------------------------------------------------

Work(c) ==
    \/ EnsureGroup(c)
    \/ RecoverRead(c)
    \/ SelectDefault(c)
    \/ ClaimStale(c)
    \/ StopSeen(c)
    \/ ReadOnce(c)
    \/ InsertRows(c)
    \/ InsertFails(c)
    \/ Ack(c)

Next ==
    \/ Publish
    \/ \E i \in Ids : GoesIdle(i)
    \/ \E c \in Consumers : Boot(c) \/ Cancel(c) \/ Crash(c) \/ Work(c)

Spec == Init /\ [][Next]_vars

(***************************************************************************)
(* Fairness.  A running worker keeps going: its calls answer or fail.  The *)
(* inserts, the acknowledgements and the live read have deadlines; the     *)
(* recovery read is XREADGROUP with BLOCK 0, which Redis answers at once   *)
(* for a history read but for which go-redis sets no read deadline, so the *)
(* worker relies on TCP there to notice a Redis that is gone.  A pending   *)
(* entry its owner let go of ages.  The ticker of claimStale fires every   *)
(* ClaimMinIdle and the select always takes a ready case, at random among  *)
(* several, so the claim and the stop are not passed over for ever.  A     *)
(* process that died is restarted; one that was stopped need not be.       *)
(***************************************************************************)
Fairness ==
    /\ \A c \in Consumers :
         /\ WF_vars(Work(c))
         /\ SF_vars(ClaimStale(c))
         /\ SF_vars(StopSeen(c))
         /\ WF_vars(pc[c] = "down" /\ Boot(c))
    /\ \A i \in Ids : WF_vars(Abandoned(i) /\ GoesIdle(i))

FairSpec == Spec /\ Fairness

-------------------------------------------------------------------------------
(* Properties *)

\* Nothing is lost if the entry is never delivered again: its rows are in
\* ClickHouse, or it has none, or the panel trimmed it.
Safe(i) == copies[i] > 0 \/ ~Decodable(i) \/ i <= trimmed

\* At-least-once: an entry the group has handed out and nobody has pending any
\* more is in ClickHouse, unless it has no rows, was malformed, or the panel
\* trimmed it.  No order of crashes, claims, failed inserts and failed acks
\* may acknowledge an entry before its rows are stored.
AckedIsStored == \A i \in Delivered : owner[i] = Nobody => Safe(i)

LogOrder ==
    /\ start <= lastDelivered /\ lastDelivered <= published /\ trimmed <= published
    /\ ~group => lastDelivered = 0

GroupBeforeWork ==
    \A c \in Consumers : pc[c] \notin {"down", "stopped", "ensureGroup"} => group

PendingWasDelivered == \A i \in Ids : owner[i] # Nobody => i \in Delivered

RowsArePublished ==
    \A i \in Ids :
        copies[i] > 0 \/ (\E c \in Consumers : rows[c][i] > 0) => Decodable(i) /\ i <= published

PendingHasRows ==
    \A c \in Consumers : \A i \in pending[c] : rows[c][i] > 0 \/ ~Decodable(i) \/ i <= trimmed

AckAfterStore == \A c \in Consumers : pc[c] = "ack" => \A i \in pending[c] : Safe(i)

\* Why that holds: what a worker is about to acknowledge it also holds rows of,
\* and once it has come to the XACK those rows are stored; rows, whether held
\* or stored, come from entries that were published.
Custody ==
    /\ LogOrder
    /\ GroupBeforeWork
    /\ PendingWasDelivered
    /\ RowsArePublished
    /\ PendingHasRows
    /\ AckAfterStore

RowsArePending == \A c \in Consumers : \A i \in Ids : rows[c][i] > 0 => i \in pending[c]

\* XREADGROUP ">" never returns what a worker already holds.
HeldWasDelivered == \A c \in Consumers : \A i \in pending[c] : i <= lastDelivered

\* A worker comes to recoverOwnPending, and leaves Run, with an empty buffer.
BoundariesAreClean ==
    \A c \in Consumers :
        pc[c] \in {"down", "ensureGroup", "recover", "stopped"} => pending[c] = {}

\* A worker can be handed i: it was never delivered, or XAUTOCLAIM or the
\* recovery of its owner can return it.
Obtainable(i) ==
    /\ trimmed < i
    /\ \/ lastDelivered < i
       \/ owner[i] # Nobody /\ (i \in stale \/ Abandoned(i))

\* Rows of i that c has yet to insert, and one more if c, being stopped, may
\* still let go of i after its rows are stored.
Prospects(i) ==
    [c \in Consumers |->
        (IF pc[c] = "ack" THEN 0 ELSE rows[c][i])
        + (IF cancelled[c] /\ (i \in pending[c] \/ lastDelivered < i) THEN 1 ELSE 0)]

\* The copies of an entry that are stored, held or still to come have all been
\* paid for.
CopiesAccounted ==
    \A i \in Ids : Decodable(i) =>
        copies[i] + SumFunction(Prospects(i)) + (IF Obtainable(i) THEN 1 ELSE 0)
            <= 1 + faults + stops

\* Batches that may be held beyond a buffer just short of FLUSH_MAX_ROWS, by the
\* place of the worker: reads that failed each left one claim behind.
Overhang(c) ==
    CASE pc[c] \in {"insert", "ack"} -> 2 + faults
      [] pc[c] = "read"              -> 1 + faults
      [] pc[c] = "loop"              -> IF cancelled[c] THEN 1 + faults ELSE faults
      [] OTHER                       -> 0

BufferAccounted ==
    \A c \in Consumers : RowCount(rows[c]) < FlushMaxRows + Overhang(c) * Count

\* The account of every copy of a row, in the table, in a buffer or still to be
\* handed out, and of every buffer.
Bookkeeping ==
    /\ Custody
    /\ RowsArePending
    /\ HeldWasDelivered
    /\ BoundariesAreClean
    /\ CopiesAccounted
    /\ BufferAccounted

\* Duplicates have a cause: beyond the first, every copy of an entry in
\* ClickHouse is paid for by a failed call, a crash, a stall or a stop of its
\* own.  In particular nothing is stored twice while nothing fails.
DuplicatesPaidFor == \A i \in Ids : copies[i] <= 1 + faults + stops

\* What a worker holds in memory stays near FLUSH_MAX_ROWS: one claim and one
\* read can come on top of a buffer just below it, and each failed read lets
\* one more claim in, since an error skips maybeFlush.
BufferBounded ==
    \A c \in Consumers : RowCount(rows[c]) < FlushMaxRows + (2 + faults) * Count

\* Every entry published to the stream ends settled: its rows are stored (or it
\* has none) and no consumer has it pending, or the panel trimmed it, even when
\* one replica is stopped for good with entries assigned to it.
EverythingSettled ==
    \A i \in Ids :
        (i <= published /\ start < i /\ group)
            ~> (i <= trimmed \/ (i <= lastDelivered /\ owner[i] = Nobody))

\* Run returns after ctx is cancelled, whatever it was doing.
ShutdownTerminates ==
    \A c \in Consumers : cancelled[c] ~> pc[c] \in {"stopped", "down"}

\* recoverOwnPending comes to an end and live reading starts.
RecoveryEnds ==
    \A c \in Consumers : pc[c] = "recover" ~> pc[c] \in {"loop", "stopped", "down"}

\* "A malformed entry must not wedge the stream" (consumer.go:213): entries with
\* rows ClickHouse accepts are stored, whatever shares the stream with them.
GoodEntriesStored ==
    \A i \in Ids :
        (i <= published /\ Decoded[i] = "rows" /\ start < i /\ group)
            ~> (i <= trimmed \/ copies[i] > 0)

\* What the exporter promises of a stream, with this state seen through it.
Promise == INSTANCE Delivery WITH
    Storable  <- {i \in Ids : Decodable(i)},
    available <- published,
    gone      <- trimmed,
    committed <- {i \in Ids : copies[i] > 0},
    settled   <- {i \in Delivered : owner[i] = Nobody}

\* The workers, the group and the table together implement at-least-once
\* delivery: an entry is settled only after its rows are committed, what is
\* settled or committed stays so, and nothing is committed that the panel has
\* not published.
KeepsPromise == Promise!Spec
===============================================================================
