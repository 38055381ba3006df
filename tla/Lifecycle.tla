----------------------------- MODULE Lifecycle ------------------------------
(***************************************************************************)
(* The life of the process (cmd/remnanode-exporter/main.go): run loads the *)
(* settings, waits for ClickHouse, applies the schema, waits for Redis,    *)
(* starts one goroutine per stream, one that watches the GeoIP files and   *)
(* one that syncs the dictionaries, and ends with the first error or       *)
(* signal once all of them have returned. The container is restarted       *)
(* whenever its process ends. Replicas share the database, which an older  *)
(* exporter may have left.                                                 *)
(*                                                                         *)
(* Left out: the growing pauses of waitFor, the metrics server, and what   *)
(* the goroutines do while they run (StreamConsumer, GeoResolver,          *)
(* Dictionaries, HwidDevices, TorrentPoller).                              *)
(***************************************************************************)
EXTENDS Config, Naturals, Sequences, FiniteSets

CONSTANTS
    Exporters,    \* replicas of the exporter
    Workers,      \* the streams, each with a worker
    Environments, \* environments the container may be given
    Statements,   \* the statements of the schema, in order
    Databases,    \* what the exporter may find in ClickHouse
    Queries,      \* the materialised views, with the facts their queries use
    MaxFaults     \* bound: outages, signals and kills

ASSUME WorkersAssumption ==
    /\ IsFiniteSet(Workers)
    /\ {"watch", "syncer"} \cap Workers = {}

Facts == UNION {Statements[i].gives : i \in DOMAIN Statements}
Altered == UNION {Statements[i].gives : i \in {j \in DOMAIN Statements : Statements[j].kind = "alter"}}
Base(object) == <<object, "base">>

\* A column that came later has an ALTER of its own, so of an object an older
\* exporter created only such columns are missing.
ASSUME SchemaAssumption ==
    /\ Statements \in Seq([kind : {"create", "alter"}, object : STRING,
                           gives : SUBSET (STRING \X STRING), needs : SUBSET (STRING \X STRING)])
    /\ Statements # <<>>
    /\ \A i \in DOMAIN Statements :
            /\ \A f \in Statements[i].gives : f[1] = Statements[i].object
            /\ \A f \in Facts : Base(f[1]) \in Statements[i].gives => f \in Statements[i].gives \cup Altered
    /\ Databases \subseteq SUBSET (STRING \X STRING)
    /\ \A d \in Databases : \A f \in Facts : Base(f[1]) \in d => f \in d \cup Altered

\* What is there for certain once the statements before the i-th have been run.
Certain(i) ==
    UNION {Statements[j].gives \ (IF Statements[j].kind = "create" THEN Altered ELSE {}) : j \in 1 .. i - 1}

\* A statement only refers to what the ones before it see to, and a view gets its
\* query only behind everything the query uses.
ASSUME OrderAssumption ==
    /\ \A i \in DOMAIN Statements :
            /\ Statements[i].needs \subseteq Certain(i)
            /\ \A q \in Queries : <<q.view, "query">> \in Statements[i].gives => q.uses \subseteq Certain(i)
    /\ \A d \in Databases : \A q \in Queries : <<q.view, "query">> \in d => q.uses \subseteq d

VARIABLES
    environment, \* the environment of the containers
    up,          \* the dependencies that answer
    db,          \* the database, see Schema
    pc,          \* where run is
    next,        \* the statement Apply runs next
    open,        \* the clients that are open
    task,        \* where the goroutines are
    errs,        \* the channel errs: the workers whose error is in it
    cancelled,   \* ctx.Done
    exit,        \* how the last process ended, or "none"
    asked,       \* history: whether the process was signalled
    faults       \* faults so far

process == <<pc, next, open, task, errs, cancelled, exit, asked>>
world == <<environment, up, db, faults>>
vars == <<process, world>>

Dependencies == {"clickhouse", "redis"}
Goroutines == Workers \cup {"watch", "syncer"}
Clients == {"writer", "geo", "redis"}
Stages == {"down", "clickhouse", "connect", "schema", "redisURL", "redis",
           "serving", "stopping", "failing", "returned"}
NoTasks == [g \in Goroutines |-> "off"]

Cfg == ParseEnvironment(environment)
Fault == faults < MaxFaults /\ faults' = faults + 1
GoTo(e, stage) == pc' = [pc EXCEPT ![e] = stage]
Become(e, g, state) == task' = [task EXCEPT ![e][g] = state]

\* Mutant of Capacity: room for one error.
CapacityOne == 1

\* make(chan error, len(decoders)+1)
Capacity == Cardinality(Workers) + 1

\* A call to a dependency fails when that is down or ctx is cancelled.
Fails(e, dependency) == dependency \notin up \/ cancelled[e]

\* The process ends: what it had open and its goroutines are gone.
End(e, how) ==
    /\ GoTo(e, "down")
    /\ next' = [next EXCEPT ![e] = 1]
    /\ open' = [open EXCEPT ![e] = {}]
    /\ task' = [task EXCEPT ![e] = NoTasks]
    /\ errs' = [errs EXCEPT ![e] = {}]
    /\ cancelled' = [cancelled EXCEPT ![e] = FALSE]
    /\ exit' = [exit EXCEPT ![e] = how]
    /\ UNCHANGED asked

-----------------------------------------------------------------------------

Init ==
    /\ environment \in Environments
    /\ up \in SUBSET Dependencies
    /\ db \in Databases
    /\ pc = [e \in Exporters |-> "down"]
    /\ next = [e \in Exporters |-> 1]
    /\ open = [e \in Exporters |-> {}]
    /\ task = [e \in Exporters |-> NoTasks]
    /\ errs = [e \in Exporters |-> {}]
    /\ cancelled = [e \in Exporters |-> FALSE]
    /\ exit = [e \in Exporters |-> "none"]
    /\ asked = [e \in Exporters |-> FALSE]
    /\ faults = 0

(* The world *)

Outage ==
    /\ Fault
    /\ \E d \in up : up' = up \ {d}
    /\ UNCHANGED <<process, environment, db>>

Recovery ==
    /\ \E d \in Dependencies \ up : up' = up \cup {d}
    /\ UNCHANGED <<process, environment, db, faults>>

\* SIGTERM. In "failing" stop() has given the signal back its default, see Kill.
Signal(e) ==
    /\ pc[e] \notin {"down", "failing", "returned"}
    /\ Fault
    /\ cancelled' = [cancelled EXCEPT ![e] = TRUE]
    /\ asked' = [asked EXCEPT ![e] = TRUE]
    /\ UNCHANGED <<pc, next, open, task, errs, exit, environment, up, db>>

Kill(e) ==
    /\ pc[e] # "down"
    /\ Fault
    /\ End(e, "killed")
    /\ UNCHANGED <<environment, up, db>>

(* Start *)

\* Load, and signal.NotifyContext.
Boot(e) ==
    /\ pc[e] = "down"
    /\ asked' = [asked EXCEPT ![e] = FALSE]
    /\ IF Accepted(Cfg)
       THEN GoTo(e, "clickhouse") /\ exit' = [exit EXCEPT ![e] = "none"]
       ELSE UNCHANGED pc /\ exit' = [exit EXCEPT ![e] = "error"]
    /\ UNCHANGED <<next, open, task, errs, cancelled, world>>

\* waitFor repeats the probe until it succeeds or ctx is cancelled.
WaitCancelled(e) == cancelled[e] /\ End(e, "error")

\* EnsureDatabase answers.
WaitForClickHouse(e) ==
    /\ pc[e] = "clickhouse"
    /\ \/ /\ ~Fails(e, "clickhouse")
          /\ GoTo(e, "connect")
          /\ UNCHANGED <<next, open, task, errs, cancelled, exit, asked>>
       \/ WaitCancelled(e)
    /\ UNCHANGED world

Connect(e) ==
    /\ pc[e] = "connect"
    /\ IF Fails(e, "clickhouse")
       THEN End(e, "error")
       ELSE /\ GoTo(e, "schema")
            /\ open' = [open EXCEPT ![e] = {"writer"}]
            /\ UNCHANGED <<next, task, errs, cancelled, exit, asked>>
    /\ UNCHANGED world

Runnable(s) == s.needs \subseteq db

\* IF NOT EXISTS: a table or view that is there stays as it is.
Effect(s) == IF s.kind = "create" /\ Base(s.object) \in db THEN db ELSE db \cup s.gives

\* Mutant of ApplyStatement: a table that is there means the schema is.
ApplyUnlessThere(e) ==
    /\ pc[e] = "schema"
    /\ ~Fails(e, "clickhouse")
    /\ Runnable(Statements[next[e]])
    /\ db' = Effect(Statements[next[e]])
    /\ next' = [next EXCEPT ![e] = @ + 1]
    /\ IF next[e] = Len(Statements) \/ db' = db THEN GoTo(e, "redisURL") ELSE UNCHANGED pc
    /\ UNCHANGED <<open, task, errs, cancelled, exit, asked, environment, up, faults>>

\* Mutant of ApplyStatement: the loop runs once too often.
ApplyStatementOnceMore(e) ==
    /\ pc[e] = "schema"
    /\ ~Fails(e, "clickhouse")
    /\ Runnable(Statements[next[e]])
    /\ db' = Effect(Statements[next[e]])
    /\ next' = [next EXCEPT ![e] = @ + 1]
    /\ IF next[e] > Len(Statements) THEN GoTo(e, "redisURL") ELSE UNCHANGED pc
    /\ UNCHANGED <<open, task, errs, cancelled, exit, asked, environment, up, faults>>

ApplyStatement(e) ==
    /\ pc[e] = "schema"
    /\ ~Fails(e, "clickhouse")
    /\ Runnable(Statements[next[e]])
    /\ db' = Effect(Statements[next[e]])
    /\ next' = [next EXCEPT ![e] = @ + 1]
    /\ IF next[e] = Len(Statements) THEN GoTo(e, "redisURL") ELSE UNCHANGED pc
    /\ UNCHANGED <<open, task, errs, cancelled, exit, asked, environment, up, faults>>

\* Mutant of StatementFails: the error is logged and the next statement run.
StatementErrorLogged(e) ==
    /\ pc[e] = "schema"
    /\ Fails(e, "clickhouse") \/ ~Runnable(Statements[next[e]])
    /\ next' = [next EXCEPT ![e] = @ + 1]
    /\ IF next[e] = Len(Statements) THEN GoTo(e, "redisURL") ELSE UNCHANGED pc
    /\ UNCHANGED <<open, task, errs, cancelled, exit, asked, world>>

\* Apply stops at a statement that fails, which may have been carried out.
StatementFails(e) ==
    LET s == Statements[next[e]]
    IN  /\ pc[e] = "schema"
        /\ Fails(e, "clickhouse") \/ ~Runnable(s)
        /\ db' = db \/ (Runnable(s) /\ db' = Effect(s))
        /\ End(e, "error")
        /\ UNCHANGED <<environment, up, faults>>

\* geoip.New and newRedis.
OpenRedis(e) ==
    /\ pc[e] = "redisURL"
    /\ IF Cfg.RedisURL = "wellFormed"
       THEN /\ GoTo(e, "redis")
            /\ open' = [open EXCEPT ![e] = Clients]
            /\ UNCHANGED <<next, task, errs, cancelled, exit, asked>>
       ELSE End(e, "error")
    /\ UNCHANGED world

\* The goroutines are started; Resolver.Watch returns at once without an interval.
Started ==
    [g \in Goroutines |->
        IF g # "watch" THEN "starting" ELSE IF Cfg.GeoIPReload > 0 THEN "running" ELSE "gone"]

WaitForRedis(e) ==
    /\ pc[e] = "redis"
    /\ \/ /\ ~Fails(e, "redis")
          /\ GoTo(e, "serving")
          /\ task' = [task EXCEPT ![e] = Started]
          /\ UNCHANGED <<next, open, errs, cancelled, exit, asked>>
       \/ WaitCancelled(e)
    /\ UNCHANGED world

(* Goroutines *)

\* A goroutine enters its loop; time.NewTicker panics on an interval of zero or
\* less, which ends the process.
EnterLoop(e, g, sound) ==
    IF sound THEN Become(e, g, "running") /\ UNCHANGED <<pc, next, open, errs, cancelled, exit, asked>>
             ELSE End(e, "panic")

\* Worker.Run: ensureGroup, then the loop. An error of ensureGroup is returned.
StartWorker(e, w) ==
    /\ task[e][w] = "starting"
    /\ IF Fails(e, "redis")
       THEN Become(e, w, "sending") /\ UNCHANGED <<pc, next, open, errs, cancelled, exit, asked>>
       ELSE EnterLoop(e, w, Cfg.ClaimMinIdle > 0)
    /\ UNCHANGED world

StartSyncer(e) ==
    /\ task[e]["syncer"] = "starting"
    /\ EnterLoop(e, "syncer", Cfg.DictRefresh > 0 /\ Cfg.TorrentPoll > 0)
    /\ UNCHANGED world

\* Mutant of SendError: the error is only logged.
LogError(e, w) ==
    /\ task[e][w] = "sending"
    /\ Become(e, w, "gone")
    /\ UNCHANGED <<pc, next, open, errs, cancelled, exit, asked, world>>

SendError(e, w) ==
    /\ task[e][w] = "sending"
    /\ Cardinality(errs[e]) < Capacity
    /\ errs' = [errs EXCEPT ![e] = @ \cup {w}]
    /\ Become(e, w, "gone")
    /\ UNCHANGED <<pc, next, open, cancelled, exit, asked, world>>

\* Mutant of EndTask: Watch waits for its ticker only.
EndTaskOnTick(e, g) ==
    /\ task[e][g] = "running"
    /\ cancelled[e]
    /\ g \in Workers => Cfg.RedisBlock # 0
    /\ g # "watch"
    /\ Become(e, g, "gone")
    /\ UNCHANGED <<pc, next, open, errs, cancelled, exit, asked, world>>

\* A goroutine sees that ctx is done, a worker after its read and final flush.
EndTask(e, g) ==
    /\ task[e][g] = "running"
    /\ cancelled[e]
    /\ g \in Workers => Cfg.RedisBlock # 0
    /\ Become(e, g, "gone")
    /\ UNCHANGED <<pc, next, open, errs, cancelled, exit, asked, world>>

\* A read with BLOCK 0 ends only when an entry arrives, which none has to.
EndBlockedRead(e, w) ==
    /\ task[e][w] = "running"
    /\ cancelled[e]
    /\ Cfg.RedisBlock = 0
    /\ Become(e, w, "gone")
    /\ UNCHANGED <<pc, next, open, errs, cancelled, exit, asked, world>>

(* End *)

\* The select of run. If ctx is done and errs holds an error either may be seen.
SeeDone(e) ==
    /\ pc[e] = "serving"
    /\ cancelled[e]
    /\ GoTo(e, "stopping")
    /\ UNCHANGED <<next, open, task, errs, cancelled, exit, asked, world>>

\* Mutant of ReceiveError: the error is taken like a signal.
ReceiveErrorAsDone(e) ==
    /\ pc[e] = "serving"
    /\ \E w \in errs[e] : errs' = [errs EXCEPT ![e] = @ \ {w}]
    /\ cancelled' = [cancelled EXCEPT ![e] = TRUE]
    /\ GoTo(e, "stopping")
    /\ UNCHANGED <<next, open, task, exit, asked, world>>

\* Mutant of ReceiveError: stop() is left to the deferred calls.
ReceiveErrorNoStop(e) ==
    /\ pc[e] = "serving"
    /\ \E w \in errs[e] : errs' = [errs EXCEPT ![e] = @ \ {w}]
    /\ GoTo(e, "failing")
    /\ UNCHANGED <<next, open, task, cancelled, exit, asked, world>>

ReceiveError(e) ==
    /\ pc[e] = "serving"
    /\ \E w \in errs[e] : errs' = [errs EXCEPT ![e] = @ \ {w}]
    /\ cancelled' = [cancelled EXCEPT ![e] = TRUE]
    /\ GoTo(e, "failing")
    /\ UNCHANGED <<next, open, task, exit, asked, world>>

\* Mutant of Return: no wg.Wait.
ReturnAtOnce(e) ==
    /\ pc[e] \in {"stopping", "failing"}
    /\ GoTo(e, "returned")
    /\ open' = [open EXCEPT ![e] = {}]
    /\ exit' = [exit EXCEPT ![e] = IF pc[e] = "failing" THEN "error" ELSE "ok"]
    /\ UNCHANGED <<next, task, errs, cancelled, asked, world>>

\* wg.Wait, srv.Shutdown and the deferred calls.
Return(e) ==
    /\ pc[e] \in {"stopping", "failing"}
    /\ \A g \in Goroutines : task[e][g] = "gone"
    /\ GoTo(e, "returned")
    /\ open' = [open EXCEPT ![e] = {}]
    /\ exit' = [exit EXCEPT ![e] = IF pc[e] = "failing" THEN "error" ELSE "ok"]
    /\ UNCHANGED <<next, task, errs, cancelled, asked, world>>

\* main: os.Exit(1) after an error.
Exit(e) ==
    /\ pc[e] = "returned"
    /\ End(e, exit[e])
    /\ UNCHANGED world

-----------------------------------------------------------------------------

Run(e) ==
    \/ Boot(e) \/ WaitForClickHouse(e) \/ Connect(e)
    \/ ApplyStatement(e) \/ StatementFails(e)
    \/ OpenRedis(e) \/ WaitForRedis(e)
    \/ SeeDone(e) \/ ReceiveError(e) \/ Return(e) \/ Exit(e)

\* The goroutines between their start and their end.
Work(e) ==
    \/ \E w \in Workers : StartWorker(e, w) \/ SendError(e, w)
    \/ StartSyncer(e)
    \/ \E g \in Goroutines : EndTask(e, g)

Next ==
    \/ Outage \/ Recovery
    \/ \E e \in Exporters :
        \/ Signal(e) \/ Kill(e)
        \/ Run(e)
        \/ Work(e)
        \/ \E w \in Workers : EndBlockedRead(e, w)

Spec == Init /\ [][Next]_vars

\* The container is restarted, and the calls of run and of the goroutines
\* return: each has a deadline or ctx, but for a read with BLOCK 0. No goroutine
\* takes more than three of the steps of Work, so fairness to one is not at the
\* expense of another.
Fairness == \A e \in Exporters : WF_vars(Run(e)) /\ WF_vars(Work(e))

FairSpec == Spec /\ Fairness

-----------------------------------------------------------------------------
(* Properties *)

TypeOK ==
    /\ environment \in Environments
    /\ up \subseteq Dependencies
    /\ db \subseteq STRING \X STRING
    /\ pc \in [Exporters -> Stages]
    /\ next \in [Exporters -> 1 .. Len(Statements) + 1]
    /\ \A e \in Exporters : pc[e] = "schema" => next[e] <= Len(Statements)
    /\ open \in [Exporters -> SUBSET Clients]
    /\ task \in [Exporters -> [Goroutines -> {"off", "starting", "running", "sending", "gone"}]]
    /\ errs \in [Exporters -> SUBSET Workers]
    /\ cancelled \in [Exporters -> BOOLEAN]
    /\ exit \in [Exporters -> {"none", "ok", "error", "panic", "killed"}]
    /\ asked \in [Exporters -> BOOLEAN]
    /\ faults \in Nat

\* main.go:67,75,81,155,159: the deferred calls close the writer, the resolver
\* and Redis only after every goroutine that uses them has returned.
InUse(e) == \E g \in Goroutines : task[e][g] \in {"starting", "running", "sending"}
ClosedLast == \A e \in Exporters : InUse(e) => open[e] = Clients

\* main.go:116,124: no worker is ever stuck with its error, however many fail and
\* though run takes only one of them: it could not wait for that worker.
NobodyStuckSending ==
    \A e \in Exporters : \A w \in Workers :
        task[e][w] = "sending" => Cardinality(errs[e]) < Capacity

\* main.go:123-125,151-157: while run goes on serving, a worker that gave up has
\* left it an error to see, or ctx is done: no stream is dropped for good while
\* the others go on.
NoWorkerMissed ==
    \A e \in Exporters : \A w \in Workers :
        pc[e] = "serving" /\ task[e][w] = "gone" => errs[e] # {} \/ cancelled[e]

\* main.go:151-164: the process ends without an error only if it was signalled,
\* whatever else cancelled ctx.
CleanExitWasAsked == \A e \in Exporters : exit[e] = "ok" => asked[e]

\* schema.go:22-24: whatever an older exporter left, however often Apply was cut
\* short and whichever replica ran what, the workers only run on the schema of
\* this version, with every later column and every query of a view rewritten.
ServedDatabase == \A e \in Exporters : InUse(e) => Facts \subseteq db

\* 01_tables.sql:165-168, 02_rollups.sql:105-108: a statement finds the tables and
\* columns it refers to, in every database and at every point of two replicas
\* that apply the schema at once, so no exporter fails on it for good.
StatementsApply ==
    \A e \in Exporters : pc[e] = "schema" => Runnable(Statements[next[e]])

\* 01_tables.sql:165-168, 02_rollups.sql:48-49: while the schema is upgraded an
\* older replica goes on inserting, and every insert runs the materialised views
\* of its table: a view that has its query of this version always finds the
\* columns that query reads and writes.
InsertsGoThrough ==
    \A q \in Queries : <<q.view, "query">> \in db => q.uses \subseteq db

\* config.go:92-109: with a claim interval that is positive, which Load does not
\* check, no setting makes a goroutine panic.
NoPanic == Cfg.ClaimMinIdle > 0 => \A e \in Exporters : exit[e] # "panic"

\* main.go:155,159: once ctx is done, by a signal or an error, the process ends,
\* unless a read may block for ever.
ShutdownEnds ==
    \A e \in Exporters : (cancelled[e] /\ Cfg.RedisBlock # 0) ~> pc[e] = "down"

\* With settings that work and dependencies that stay up, every replica comes to
\* serve all of its streams and goes on.
Serving(e) == pc[e] = "serving" /\ \A w \in Workers : task[e][w] = "running"
Works == Accepted(Cfg) /\ Cfg.RedisURL = "wellFormed" /\ Cfg.ClaimMinIdle > 0 /\ Cfg.RedisBlock # 0
ComesUp == Works /\ <>[](up = Dependencies) => <>[](\A e \in Exporters : Serving(e))
=============================================================================
