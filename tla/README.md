# remnanode-exporter in TLA+

remnanode-exporter moves events from Redis streams, which the Remnawave panel
and its nodes fill, into ClickHouse, and polls the panel's API for what has no
stream (users, nodes, HWID devices, Torrent Blocker reports). This directory
holds TLA+ models of it, the TLC runs that check them on small instances, and
TLAPS proofs of the most important results for every size.

## 1. The system

| component | state it keeps | operations | talks to |
|---|---|---|---|
| stream workers (`internal/consumer/consumer.go`) | per stream: consumer group, pending entries list, idle times (Redis); `rows`, `pending`, `lastFlush` (memory) | `Run`, `ensureGroup`, `recoverOwnPending`, `claimStale`, `readOnce`, `maybeFlush`, `flush` | Redis, decoders, sink |
| decoders (`consumer/handlers.go`, `model/model.go`, `ua/ua.go`) | none | `Decode` of three streams, `Insert` | resolver, own-address set, sink |
| sink (`sink/clickhouse.go`) | connection pool | `Connect`, `EnsureDatabase`, `Insert`, `Exec`, `Close` | ClickHouse |
| Torrent Blocker poller (`dict/torrent.go`) | `torrentResume`, `torrentSince`, `torrentStored` (memory); newest stored report (ClickHouse) | `pollTorrentReports`, `fetchTorrentReports`, `markTorrentReportsStored` | panel API, resolver, sink |
| dimension sync (`dict/dict.go`, `dict/hwid.go`) | none of its own; dimension tables | `syncNodes`, `syncUsers`, `syncHwidDevices` | panel API, sink |
| own-address set (`dict/infra.go`) | a set of addresses behind an atomic pointer | replaced by each node refresh, read by the connection decoder | DNS |
| GeoIP resolver (`geoip/geoip.go`) | two readers behind an RWMutex | `reload`, `Watch`, `Lookup`, `Close` | files on disk |
| process (`cmd/remnanode-exporter/main.go`) | ctx, `errs`, wait group | start-up, `waitFor`, shutdown | all of the above |
| schema (`internal/schema`) | ClickHouse tables and views | `Apply` | ClickHouse |
| configuration, metrics | environment; counters | `Load`; increments | - |

Goroutines: one worker per stream, the syncer (dictionaries, devices and
reports, one after the other in one select loop), the resolver's `Watch` and the
metrics server, all under one ctx. Several replicas of the process may share the
consumer groups.

What makes it hard:

* **at-least-once**: an entry may be acknowledged only after its rows are in
  ClickHouse, over any order of crashes, lost replies, failed inserts and acks,
  claims by other replicas, trimming by the panel and a shutdown mid-flush;
* **a failed flush forgets its batch** and relies on the claim to bring it back;
* **polling a list that moves**: reports commit late, new ones shift the pages,
  the panel truncates the list and restarts the ids;
* **readers closed under a lookup**: `Lookup` uses pointers after unlocking;
* **last-writer-wins dimensions** refreshed by several replicas, and dimension
  sets that are empty before the first refresh;
* **a schema upgraded in place**, statement by statement, by replicas that may be
  interrupted or overlap, while an older one goes on inserting;
* **goroutines that fail while others go on**: one channel, one select and one wait
  group decide whether anyone notices and whether the process ends;
* **three spellings of a payload** and two of an address, mixed in one stream.

What makes each part correct:

* workers: nothing acknowledged unstored, nothing stuck, duplicates only from a
  failure, memory bounded, shutdown and recovery end;
* poller: no report left behind the cursor; none written again but after a failed
  insert or a restart, or within one insert when new reports shifted the pages;
* resolver: rotation never loses, leaks or closes a reader in use;
* dimension sync: the views show the panel's last list; own-address set: infra
  traffic is never counted as a subscriber's; life cycle: an error of any part
  ends the process, and it does end; schema: `Apply` may be repeated anywhere;
* decoders: an entry gives all of its rows or none, but for emptied records and users
  without addresses, which cost their own rows; an address or client gets the same
  label however it is written.

## 2. Modules

| module | models | built on |
|---|---|---|
| `Delivery` | what is promised of one stream: a log, what is committed, what is settled | - |
| `StreamConsumer` | one stream: Redis, the table, one worker per replica | instantiates `Delivery` |
| `StreamConsumerProofs` | theorems about it: types, at-least-once, the refinement | `StreamConsumer` |
| `StreamAccountsProofs` | theorems about the copies it stores and the rows it holds | `StreamConsumerProofs` |
| `TorrentPoller` | the poller, the panel's report list, the table | - |
| `GeoResolver` | the two readers, `Watch`, lookups, shutdown | - |
| `TorrentPollerProofs` | theorems about it | `TorrentPoller` |
| `GeoResolverProofs` | theorems about it | `GeoResolver` |
| `HwidDevices` | the HWID device list: paging, the table, its view | - |
| `Dictionaries` | users, nodes and the own-address set under `syncAll` | - |
| `DictionariesProofs`, `HwidDevicesProofs` | theorems about these two | `Dictionaries`, `HwidDevices` |
| `Schema` | the statements of `Apply` and the databases of older exporters | - |
| `Config` | the settings `Load` reads and checks | - |
| `Lifecycle` | `run`, its goroutines and restarts, over settings, a database and dependencies | `Config`; `Schema` in its instance |
| `LifecycleProofs` | theorems about it, for any schema that meets two assumptions | `Lifecycle` |
| `Messages` | what the payload of each stream must be and says | - |
| `Enrichment` | `Lookup`, `Prefix`, `Contains`, `Classify` | `Messages` |
| `Decoders` | entries of several panel versions, spoilt or not, decoded row by row | `Enrichment` |
| `DecodersProofs` | theorems about it | `Decoders` |
| `MC*` | instances for TLC | the module of that name |

### StreamConsumer

Streams share neither groups nor tables, so one stream is the whole story. An
entry is its position in the stream; its payload is reduced to what the code
tells apart (`Decoded`): *rows*, *none* (well-formed, nothing to store),
*malformed* (`Decode` returns an error), *refused* (`Decode` accepts it, but
`Append` or `Send` rejects the row every time).

| variables | code |
|---|---|
| `published`, `trimmed` | the stream and its MAXLEN |
| `group`, `start`, `lastDelivered`, `owner`, `stale` | the consumer group: creation id, last-delivered id, pending list, idle time against `REDIS_CLAIM_MIN_IDLE` |
| `copies` | rows in ClickHouse per entry |
| `pc`, `task` | where `Run` is; which of its three callers `flush` returns to |
| `cancelled` | ctx |
| `rows`, `pending` | the worker's two slices |

A step is one external call with the local work up to the next one, so other
replicas, the panel and crashes interleave between any two calls: between insert
and XACK, between a claim and the read after it. `maybeFlush` sits inside
`ReadOnce` because nothing is called between them. Each call may fail before or
after it took effect.

Points a reader should know:

* With ctx cancelled, go-redis fails a call unsent; the exception is an
  XREADGROUP that already waits for its reply. An insert on a cancelled ctx may
  have gone either way. The final flush has a context of its own and is only
  subject to ordinary failures.
* XAUTOCLAIM scans from `0`, takes entries from any owner, the caller included,
  and drops pending entries that were trimmed. XREADGROUP of the own pending
  list returns trimmed entries without fields; no decoder accepts these.
* An entry a worker still holds becomes claimable only when that worker is late
  by `REDIS_CLAIM_MIN_IDLE`; such a stall costs one of `MaxFaults`, as failed
  calls and crashes do. An entry nobody holds ages for free. This presumes that
  `FLUSH_INTERVAL` and `REDIS_BLOCK` together are below `REDIS_CLAIM_MIN_IDLE`, as their
  defaults are (5 s, 5 s and 1 min). `Load` does not check it; set the other way round,
  replicas claim from one another what they are about to insert, and
  `DuplicatesPaidFor` says nothing of that.
* Rows per entry weigh one (a snapshot that yields many rows is one weight), and
  counts saturate at `MaxCopies`.
* `reportPending` only sets a gauge and is left out. Redis does not lose data.

### TorrentPoller

Time is a counter of ticks with 0 as Go's zero time. A report is its id and
createdAt. A report takes both in one step (`TakeId`) and is listed when its
transaction commits, at most `CommitDelay` later, in any order. `torrent.go:18-20`
picks the overlap to cover such slow transactions; this is `OverlapAssumption`.
One action per request or query: `StartPoll` (cursor, read back from ClickHouse on
the first poll of a process), `FetchPage`, `InsertRows`; `PollFails`,
`InsertFails` (stored or not) and `Crash` at any point. The slice a poll collects is
how often it holds each report (`out`): a report committed between two requests moves
the last one of a page to the next, where it is appended again, and
`unseenTorrentReports` drops only what earlier polls stored, so one insert may write a
report more than once. Inserts are atomic, one process polls, and createdAt is always
readable. `capped`, `unmarked` and `shifts` are history: whether a poll gave up at the
page cap, which stored reports this process may not know it wrote, and how many
reports were committed since the poll read its first page.

### GeoResolver

A reader is the number of the open that made it. `reload` is five steps
(open city, open ASN, the section under the lock, two closes), so lookups
interleave with each. `Lookup` copies both pointers, then enters and leaves each
reader. What a lookup finds in the readers it copied is `Lookup` of `Enrichment`.

### HwidDevices

The panel's list is a sequence; a device is bound at any position and unbound from
any. `StartRefresh`, `FetchPage` / `FetchLastPage` / `FetchNothing` (one request
each, offset `start` = `len(out)`, total as of this request), `Insert`, and their
failures (`FetchFails`, `InsertFails`: stored or not), which also stand for the page
limit, a cancelled ctx and a crash, for a refresh keeps nothing. `synced_at` is read
with the last page; two replicas may read the same millisecond. `dim` is the table
under FINAL, `View` is `v_hwid_devices`, and `Expire` is the TTL, which clears the
oldest rows first. A row is its device and its stamp. `kept`, `seen` and `shrunk` are
history.

### Dictionaries

`syncAll` as one loop per replica: `StartSync`, `FetchNodes`, `ReplaceAddresses`,
`InsertNodes`, then `FetchUsers` page by page, `InsertUsers`; the devices are in
`HwidDevices`. The panel's data changes with every tick, so the content of a row is
the time it was read (`asOf`), next to the `updated_at` it carries (`stamp`). The
node list may be any at each request (`Lists`), with literal addresses and host names
that may or may not resolve, with and without numeric ids. The address set is one per
process and empty after a `Crash`. Users are served in the order of their ids after a
cursor, as the panel's opaque cursor is used. `kept`, `known`, `userFloor` and
`nodeFloor` are history. All replicas read one clock: that the later stamp was read
later, on which `FinishedRefreshStands` rests, needs the hosts' clocks to agree.
Without panel credentials nothing of this runs.

### Schema, Config, Lifecycle

A database is a set of facts: an object exists, a later column exists, a view has
the query of this version. A statement needs some and gives some; `CREATE ... IF NOT
EXISTS` leaves an existing object as it is, so its later columns come from the
`ALTER`s. `SchemaStatements` are the statements of the three files in order; `Since`
names what came with each feature, and an old database is the current one without
some of them. That ClickHouse analyses a materialised view against its target before
`IF NOT EXISTS` applies is what `02_rollups.sql:105-108` says.

`ParseEnvironment` takes the variables that are set to the settings (`Setting`: what
is unreadable leaves the default without an error) and `Accepted` is what `Load`
checks.

| variables of `Lifecycle` | code |
|---|---|
| `environment`, `up`, `db` | what the containers are given, what answers, ClickHouse |
| `pc`, `next` | where `run` is; the loop of `Apply` |
| `open` | the clients with a deferred `Close` |
| `task` | the goroutines: starting, running, sending an error, gone |
| `errs`, `cancelled` | the channel and ctx |
| `exit`, `asked` | how the process ended; history: it was signalled |

`Run` has one action per call of `run` that can block or fail, `Work` one per step of
a goroutine that `run` can notice. A failing statement may have been carried out. A
panic of a goroutine ends the process. A worker whose `ensureGroup` failed sends its
error; `SeeDone` and `ReceiveError` are the two cases of the select, and `Return` is
`wg.Wait` with the deferred calls. After an error `stop()` has given the signal its
default action back, so it kills. Left out: the pauses of `waitFor`, the metrics
server, and what goroutines do while they run, which is in the other modules.

### Messages, Enrichment, Decoders

A text is what it reads as: a number, a time, packed records, a JSON array, an
address, a set of User-Agent needles, or nothing. `Messages` has for each stream the
condition for a payload to be accepted and the rows it then says. `Enrichment` has
addresses as a family and bits cut where blocks end, so a mapped address is its v4
form behind fixed bits; `Rules` is the table of `ua.go` in its order.

In `Decoders` a panel of some version writes a message as `Fields`, of which the entry
has those that are not empty (`Encode`). `Spoil` damages the entry in one of two ways:

* one thing the entry cannot do without is gone, unreadable or out of range (`Spoilt`):
  a field, a part of a record, a user or a time deep in a snapshot, or all fields;
* some of its parts are empty though nothing is unreadable (`Emptied`): records without
  a text, which `parseRecords` passes over, users whose `ips` are missing or null, which
  decode as users without addresses, a null for the array of users. What was emptied is
  kept in `lost`, a history variable.

`Decode`, `Enrich`, `Return` take the entry apart row by row, between which the
own-address set and the readers are replaced. `Said` is what the panel meant, without
the parts that were emptied. In the first case `RowsAsSaid` demands all rows or none. In
the second the code does store a part and acknowledge the entry; the property admits
that and demands that the other records and users lose nothing.
JSON syntax, time formats and text wording are not modelled.

## 3. Runs

Every run is complete: TLC explores all reachable states of its instance.

| run | instance | what it shows |
|---|---|---|
| `consumer_replicas` | 2 replicas, 5 entries (the second refused, the third malformed), MAXLEN 4, batch 1, flush at 2, 1 fault, symmetry | `AckedIsStored`, `Bookkeeping`, `BufferBounded` |
| `consumer_delivery` | 2 replicas, 2 entries (the second empty), 1 fault, 1 stop, fairness | `DuplicatesPaidFor`, `KeepsPromise` (refines `Delivery`), `EverythingSettled`, `ShutdownTerminates`, `RecoveryEnds` |
| `consumer_poison` | 1 worker, a refused entry before a good one, no faults, fairness | `GoodEntriesStored` is violated, see findings |
| `torrent_poller` | 3 ids, 3 ticks, 3 pages of 1, 1 fault, 1 truncate, fairness | `NothingLeftBehind`, `CursorIsStored`, `RewritesAreExplained`, `EverythingPolled` |
| `geo_rotation` | 2 lookups, each file opened up to 3 times | `CurrentIsOpen`, `NoReaderLeaked`, `NeverDegrades` |
| `geo_use_after_close` | 1 lookup, 2 opens | `ReadersInUseAreOpen` is violated, see findings |
| `hwid_devices` | 2 replicas, 4 devices, pages of 1, 2 changes, 3 stamps | `RefreshShowsTheList`, `LateListIsHidden` |
| `hwid_last_device` | 1 replica, 2 devices | `DeletedAreAbsent` is violated, see findings |
| `dictionaries_replicas` | 2 replicas, 1 user, 1 node, 2 ticks, 1 fault | `FinishedRefreshStands` |
| `dictionaries_restart` | 1 replica, 3 users in pages of 1 with a limit of 2 pages, 1 node, 2 faults, fairness | `NoUserSkipped`, `OwnAddressesRecognised`, `EveryUserNamed` |
| `lifecycle` | 2 replicas, 2 streams, all 30 statements on a new and on the oldest database, 4 environments, 1 outage, signal or kill, fairness | `ClosedLast`, `NobodyStuckSending`, `NoWorkerMissed`, `CleanExitWasAsked`, `ServedDatabase`, `StatementsApply`, `InsertsGoThrough`, `ShutdownEnds`, `ComesUp` |
| `decoders` | 3 panel versions; one usage batch of 3 records, requests with pairs of 12 client names, snapshots with pairs of 8 address texts; 2 address lists, 2 pairs of readers | `RowsAsSaid`, `SpellingIrrelevant`, `ClientRecognised` |

**Why the bounds are enough.** Two replicas give a claimer and an owner; a third
only claims like the second. Five entries of one each per read are enough for a
refused entry to keep its batch coming back while good ones are read on, for a trim
behind a pending entry, and for the buffer to reach its bound: it is reached, and one
less is violated. The fault is a lost reply, a failed insert or ack that took effect
or not, a stall or a crash; every longer chain is covered for the proved properties
by the theorems. `MaxCopies` is above the number of copies one fault can pay for, so
`DuplicatesPaidFor` is not met by saturation alone. `consumer_delivery` adds a stop,
which lets an aborted insert store its rows without a fault; that is why
`DuplicatesPaidFor` is checked there.
For the poller, three ids and three ticks with an overlap of one leave room for a
report to commit behind a stored one, for a truncate, and for a commit between two
page requests, which makes a poll collect a report twice. Three pages of one cover all
three reports, so no poll of this run gives up at the page cap (`capped` stays FALSE);
that case is covered by the theorem `NoReportLeftBehind` alone. A second fault adds only
repetitions of a retry, and the theorems cover all sizes of the safety part.
Three opens let a reader be replaced twice while one lookup holds the first. For the
devices, four devices exceed the page limit, so that it is reached, and three are
enough for a device to be bound in front of, inside and behind what was read; three
stamps let a list land after two newer ones. For the dictionaries, two ticks are
enough for a replica to begin first, read first and write last; the code treats users
and addresses each on its own, so one of each suffices there, and three users make
the page limit reachable. For the life cycle, two streams fail together or one at a
time, two replicas overlap in `Apply` at every pair of statements, and the
environments are the defaults with an unreadable value, `REDIS_BLOCK` and
`GEOIP_RELOAD_INTERVAL` off, and two that `Load` refuses. For the decoders, rows are
independent but for their order, so two users and two addresses show every pair.

**Fairness.** `StreamConsumer`: weak fairness of a worker's steps: its calls answer or
fail. Inserts, acks and the live read have deadlines (`REDIS_BLOCK` must be positive,
as its default is). The recovery read (`consumer.go:170-175`) leaves Block at zero, for
which go-redis sends BLOCK 0 and sets no read deadline; Redis answers a read of the own
pending list at once, but of a connection that is silently lost there only TCP tells
the worker. Strong fairness is assumed of the claim and of the stop, because both are
cases of one select, the ticker fires for ever and Go picks among ready cases at
random; a process that died restarts (`restart: unless-stopped`), one that was stopped
need not; an entry nobody holds ages. `TorrentPoller`: weak fairness of the poll, whose
ticker and client timeout keep it going, and of the restart. `Dictionaries`: weak fairness of a
replica's two parts, where a node refresh may fail every time and other faults are
bounded. `Lifecycle`: weak fairness of a replica's `Run` (its container is restarted,
its calls have deadlines or ctx) and of its `Work` (goroutines return from their
calls, but for a read with `REDIS_BLOCK=0`); `ComesUp` assumes besides that the
dependencies stay up in the end. Nothing is assumed of the panel, of failures or of
stops. `geo_rotation` and `geo_use_after_close` do not check for deadlock because a
process that was shut down stops, and `lifecycle` because a process that serves has
no step left in that model; all other runs do.

## 4. Proofs

Every safety property of the passing runs, invariant or action property, is the
statement of a theorem; the runs say that it holds on a small instance, the theorem
for every value of the constants.

For every number of replicas, entries, faults and batch size, from the named
assumptions on the constants only (`ConsumersAssumption`: the replicas are finitely
many; `BoundsAssumption`, `InputAssumption`), `StreamConsumerProofs` shows:

* `TypeCorrect`: `Spec => []TypeOK`;
* `AtLeastOnce`: `Spec => []AckedIsStored`;
* `ImplementsDelivery`: `Spec => KeepsPromise`, that is, with the mapping
  published/available, trimmed/gone, stored/committed, handed out and no longer
  pending/settled, every step is a step of `Delivery` or leaves it unchanged.

`AckedIsStored` is not inductive: it says nothing of what a worker holds, and the
XACK acknowledges exactly that. The invariant adds `Custody`: a worker that
queued an entry for acknowledgement also holds rows of it (or it has none, or was
trimmed), and once its `pc` is at the XACK these rows are stored. That survives a
claim by another replica because it speaks of the entry, not of its owner. That
entries before the last-delivered id were handed out rests on one lemma about
replies: a reply that holds an entry holds every smaller one it could have held
(`FirstNPrefix`), so reading never jumps over an entry.

`StreamAccountsProofs`, from the same assumptions:

* `BookkeepingHolds`: `Spec => []Bookkeeping`;
* `DuplicatesHaveACause` (`DuplicatesPaidFor`) and `BufferStaysBounded`
  (`BufferBounded`).

Neither bound is inductive, for each speaks of a total at one moment. `Bookkeeping` is
the books behind them. `CopiesAccounted` counts for an entry the copies in the table,
the rows workers have yet to insert, one for each worker that is being stopped and may
let go of it after its rows are stored (`Prospects`), and one if it can still be handed
out (`Obtainable`): all these together are at most one and the faults and stops so far.
Each step is shown to pay for what it adds (`Paid`, one lemma per action): a delivery
turns the chance of a copy into a row, an insert turns rows into copies, an ack ends
the chance, and a failure that leaves both a copy and a chance is a fault, or follows
a stop. `BufferAccounted` says by the place of a worker how many batches it may hold
beyond a buffer that is just short of `FLUSH_MAX_ROWS` (`Overhang`): one claim and one
read, and one claim more for each read that failed, because an error skips
`maybeFlush`. Both need that rows are only held of entries queued for acknowledgement
(`RowsArePending`), that these were delivered (`HeldWasDelivered`) and that a buffer is
empty where the code has dropped or flushed it (`BoundariesAreClean`).

Totals are `SumFunction` over workers or entries. What is needed of it (it changes by
no more than what one summand does if no other grows, `SumShifts`, and by no more than
the number of summands that grow by one, `SumGrows`) is proved from its definition,
with induction over finite sets as the absence of a smallest counterexample (`WFMin`),
which takes no operator as a parameter.

Two more theorems give what `RecoveryEnds` and `ShutdownTerminates` rest on besides
fairness. `RecoveryIsBounded`: while a worker recovers, what it has pending or in its
buffer never grows, and each round takes something off unless a fault or a stop
disturbs it. `ShutdownIsBounded`: once ctx is cancelled each step of a worker brings it
closer to its return (`Distance`), but for a select that takes the ticker; this is why
the stop needs strong fairness.

`TorrentPollerProofs`, for every number of ids, ticks, pages and page size and
every `CommitDelay <= Overlap` (`BoundsAssumption`, `OverlapAssumption`):

* `TypeCorrect`, `CursorNeverAhead` (`CursorIsStored`), `NoReportLeftBehind`
  (`NothingLeftBehind`) and `RewritesHaveReasons` (`RewritesAreExplained`).

The invariant is `TypeOK /\ Ordered /\ Memory /\ Polling /\ Repeats /\
CoveredIsKept /\ NothingLeftBehind`. `CoveredIsKept` says of the middle of a poll what
`NothingLeftBehind` says of its end: a listed report at a position the poll has
passed is collected, stored, or lies within the overlap of the newest report it
would then know. It survives a late commit because that commit is at most
`CommitDelay` behind the clock, hence behind nothing the poll can know by more than
the overlap; it survives a page shift because new reports only move old ones to
later positions, which the poll has not passed; a record older than the cutoff ends
the poll, and everything behind it is older still, so `NothingLeftBehind` covered it
before. A page shorter than `PageSize` is the end of the list, which is a counting
argument over the positions (`ShortPageIsLast`). Without `OverlapAssumption` exactly
the step of the late commit fails. `Repeats` bounds how often a slice holds a report:
one that was collected lies in front of the next page unless a commit has moved it
there, so each commit since the first page adds at most one.

`GeoResolverProofs`, for any set of lookups and any number of opens:
`CurrentStaysOpen` (`CurrentIsOpen`), `NothingLeaks` (`NoReaderLeaked`) and
`FailedOpensAreHarmless` (`NeverDegrades`). The invariant follows one reload through
its five steps (`Swapped`: what it opened is new until the swap; after it, the open
either took effect on both sides or on neither) and accounts for every number handed
out (`Accounted`: closed, in use, or in the hands of the reload).

There, too, `TypeCorrect`.

`LifecycleProofs`, for any replicas, streams, environments and number of faults, and
for any schema and databases that meet two assumptions, which TLC evaluates on the
real ones: `SchemaAssumption` (each column an existing table may lack has an `ALTER`)
and `OrderAssumption` (a statement only needs what the statements before it see to for
certain, and a view gets its query only behind everything the query uses).

* `ClientsOutliveGoroutines` (`ClosedLast`), `ErrorsFit` (`NobodyStuckSending`),
  `WorkersAreMissed` (`NoWorkerMissed`), `CleanExitIsAsked` (`CleanExitWasAsked`),
  `TypeCorrect`: the invariant says what belongs to each stage of `run` (`Placed`), that
  an error in the channel is of a worker that is gone (`Reported`), so with room for
  all workers there is always room for one that still has to send, and that before
  `run` takes an error only a signal cancels ctx (`Asked`);
* `WaitIsNeverStuck` (`WaitEnds`): while `run` waits, every goroutine has returned or
  one of them has a step to take, and `ShutdownIsBounded`: once ctx is done each step of
  a process but a further signal takes `run` to a later stage or one goroutine on. They
  are what `ShutdownEnds` rests on besides fairness;
* `SettingsAreSound`: with a positive claim interval no setting makes a ticker panic;
* `ServedOnWholeSchema` (`ServedDatabase`), `StatementsAlwaysApply` (`StatementsApply`)
  and `OldInsertsGoThrough` (`InsertsGoThrough`): facts only grow, objects lack at most
  columns with an `ALTER` (`Solid`), and a replica at its i-th statement has behind it
  what the statements before certainly give (`Certain`), whoever ran them.

`DictionariesProofs`, for any replicas, users, nodes, page size and limits:
`FinishedRefreshesStand` (`FinishedRefreshStands`: what a refresh holds was read after
its stamp, so every row is at least as fresh as its stamp says, and the newest stamp
wins), `UsersAreNotSkipped` (`NoUserSkipped`: a user that stays is behind the cursor
and collected, or still to come; that a page is the first users after the cursor is a
counting lemma, `BatchIsPrefix`), `OwnAddressesStay` (`OwnAddressesRecognised`) and
`TypeCorrect`.

`HwidDevicesProofs`, for any replicas, devices, page size and stamps:
`RefreshesShowTheList` (`RefreshShowsTheList`), `LateListsAreHidden`
(`LateListIsHidden`) and `TypeCorrect`. The invariant (`Paging`) says of the middle of
a refresh that everything collected was in the list, and that while nothing was
unbound every device in front of the offset that was there all along is collected: a
device bound in between only moves others to later positions.

`DecodersProofs`, for any set of messages, of address lists and of readers, and reports
and snapshots of any length:

* `TypeCorrect` (`TypeOK`); `RowsAreAsSaid` (`RowsAsSaid`), `SpellingDoesNotMatter`
  (`SpellingIrrelevant`) and `ClientsAreRecognised` (`ClientRecognised`).

The invariant is `TypeOK /\ EntryKnown /\ RowsKnown`: the entry is what the panel
encodes or that, spoilt; the rows enriched so far extend the first of those parsed, the
others wait in order, and a row of a snapshot carries the labels of the present sources
unless these were replaced since. It leaves four questions about operators:

* what an entry gives: as the panel wrote it, it is accepted and says what was meant, in
  every version's spelling (`UsageRead`, `RequestRead`, `SnapshotRead`); spoilt, it is
  refused or says the same but for fields a request may be without (`UsageSpoilt`,
  `RequestSpoilt`, `SnapshotSpoilt`); emptied in parts, it says what is left
  (`UsageEmptied`, `SnapshotEmptied`). That a report and a snapshot come apart as they
  were packed rests on `FlattenSeq`, about which `FlattenTable`, `FlattenAlike`,
  `FlattenSingles` and `FlattenType` are proved by induction on its length;
* that two prefixes are equal exactly if the blocks are (`PrefixIsBlock`), a mapped
  address being of the block of its v4 form;
* that a lookup only depends on the unmapped address (`SpellingLookedUp`);
* that the first rule that matches is of the foremost kind and names no needle inside
  another one of the text (`FirstRule`), from the order of the 55 rules: whatever is
  inside a needle comes after it (`LongerNamesFirst`), and clients come before scripts,
  these before bots, and these before browsers (`KindOfRule`).

The assumptions are `MaxUintAssumption` (a natural number) and `PanelAssumption`, which
TLC evaluates on the messages of the run. It says what the panel and the nodes write: a
report has at least one record of two numbers; ids are numbers and times are times; a
snapshot lists what was seen user by user; a User-Agent is told by needles of the
table; an address text that parses has one of the three families `netip.ParseAddr`
gives. Any text may be an address text, and it need not parse. That real panels write
this is what `model.go` and its tests take for granted; entries that are not so are
`Spoilt` or `Emptied` ones.

**Only model-checked.** Liveness (`EverythingSettled`, `ShutdownTerminates`,
`RecoveryEnds`, `EverythingPolled`, `EveryUserNamed`, `ShutdownEnds`, `ComesUp`) is
out of the prover's reach, which has no ENABLED; for workers and process the theorems
named above are its safety half.

## 5. Findings

* **A refused row wedges the good entries around it** (`consumer_poison`).
  `consumer.go:213` and `README.md:281` promise that a malformed entry does not
  block the stream. This holds for entries `Decode` rejects. An entry that decodes
  but whose row ClickHouse refuses fails its whole batch every time; the batch is
  claimed again from the head of the pending list, again with the same good
  entries in it.
* **A lookup can be inside a reader that is closed** (`geo_use_after_close`).
  `geoip.go:4-5` says files are rotated under a running process; `reload` closes
  the replaced readers without waiting for lookups that copied their pointers.
* **The last device never disappears from the view** (`hwid_last_device`).
  `01_tables.sql:144-146` says each refresh writes the whole list, so a deleted device
  is absent from the newest sync; `hwid.go:64` writes nothing for an empty list, and
  the view shows the old rows until the TTL.

Two more behaviours are not contradicted by any text and are kept as hazards: a
device that is unbound while a refresh pages can hide another one until the next
refresh, and of two replicas the one with the older device list may stamp it later
(`synced_at` is read after the pages, `updated_at` of users and nodes before).

One text differs from the code without a run of its own: `geoip.go:160-161` says that
an unparseable address still carries a `Prefix`, and `Lookup` returns an empty `Info`
for it (`geoip.go:164-166`), as `Lookup` of `Enrichment` does.

## 6. Not modelled, and the plan

Left out: wording and logging, metrics and the health endpoint, the dashboards and
compose files, the aggregation and scores in the SQL of rollups and views (evaluated
by ClickHouse), splitting SQL files into statements, the preflight checks of the
dictionary sync (they only log), and names, paths and credentials in the settings.

In order, for later:

1. `TorrentPoller`: inserts that span monthly partitions and are stored in part
   before a crash; reports with an unreadable createdAt.
2. Rows decoded before the first node list, against `02_rollups.sql:28-29` ("counted
   as infra_ips and never as a hosting address").
3. Loss of the consumer group while workers run.
