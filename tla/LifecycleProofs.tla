--------------------------- MODULE LifecycleProofs ---------------------------
(***************************************************************************)
(* Theorems about Lifecycle for any number of replicas, streams, faults,   *)
(* statements and databases that SchemaAssumption and OrderAssumption      *)
(* admit: what is open, reported and served at every stage of run.         *)
(***************************************************************************)
EXTENDS Lifecycle, FiniteSetTheorems, SequenceTheorems, TLAPS

Starts == {"down", "clickhouse", "connect"}
Serves == {"serving", "stopping", "failing"}

\* What belongs to a stage: no goroutine before all clients are open, and none
\* left when they are closed.
Placed(e) ==
    /\ pc[e] \in Starts => next[e] = 1
    /\ pc[e] \notin Starts \cup {"schema"} => next[e] = Len(Statements) + 1
    /\ pc[e] \notin Serves \cup {"returned"} => task[e] = NoTasks /\ errs[e] = {}
    /\ pc[e] \in Serves \cup {"redis"} => open[e] = Clients
    /\ pc[e] = "returned" => \A g \in Goroutines : task[e][g] = "gone"

\* The channel holds errors of workers that are gone.
Reported(e) ==
    /\ \A w \in errs[e] : task[e][w] = "gone"
    /\ \A w \in Workers : pc[e] = "serving" /\ task[e][w] = "gone" => errs[e] # {} \/ cancelled[e]

\* Before run takes an error only a signal cancels ctx.
Asked(e) ==
    /\ cancelled[e] => pc[e] # "down" /\ (asked[e] \/ pc[e] \in {"failing", "returned"})
    /\ pc[e] = "stopping" => asked[e]
    /\ exit[e] = "ok" => asked[e]

\* Past Boot the settings are good.
Sound(e) ==
    /\ pc[e] # "down" => Accepted(Cfg)
    /\ Cfg.ClaimMinIdle > 0 => exit[e] # "panic"

\* Objects lack at most columns with an ALTER of their own.
Solid(d) == \A f \in Facts : Base(f[1]) \in d => f \in d \cup Altered

\* What the statements so far see to is there.
Settled ==
    /\ Solid(db)
    /\ InsertsGoThrough
    /\ \A e \in Exporters : Certain(next[e]) \subseteq db

-----------------------------------------------------------------------------
(* Types and stages                                                        *)

TypeInv == TypeOK /\ \A e \in Exporters : Placed(e)

LEMMA LengthIsNat == Len(Statements) \in Nat /\ Len(Statements) >= 1
BY SchemaAssumption

\* One process moves: the others stay placed.
LEMMA OthersPlaced ==
    ASSUME TypeInv, NEW e \in Exporters, NEW x \in Exporters \ {e},
           pc'[x] = pc[x], next'[x] = next[x], open'[x] = open[x], task'[x] = task[x], errs'[x] = errs[x]
    PROVE  Placed(x)'
BY DEF TypeInv, Placed

\* A process that ends is placed, and the values keep their types.
LEMMA EndPlaces ==
    ASSUME TypeInv, NEW e \in Exporters, NEW how \in {"none", "ok", "error", "panic", "killed"}, End(e, how),
           environment' = environment, up' \subseteq Dependencies, db' \subseteq STRING \X STRING, faults' \in Nat
    PROVE  TypeInv'
<1>1. NoTasks \in [Goroutines -> {"off", "starting", "running", "sending", "gone"}]
  BY DEF NoTasks
<1>2. TypeOK'
  BY <1>1, LengthIsNat DEF TypeInv, TypeOK, End, GoTo, Stages
<1>3. Placed(e)'
  BY DEF TypeInv, TypeOK, Placed, End, GoTo, Starts, Serves
<1>4. ASSUME NEW x \in Exporters \ {e} PROVE Placed(x)'
  BY OthersPlaced DEF TypeInv, TypeOK, End, GoTo
<1> QED BY <1>2, <1>3, <1>4 DEF TypeInv

LEMMA TypeInit == Init => TypeInv
<1> SUFFICES ASSUME Init PROVE TypeInv
  OBVIOUS
<1>1. NoTasks \in [Goroutines -> {"off", "starting", "running", "sending", "gone"}]
  BY DEF NoTasks
<1>2. TypeOK
  BY <1>1, LengthIsNat, SchemaAssumption DEF Init, TypeOK, Stages
<1>3. \A e \in Exporters : Placed(e)
  BY DEF Init, Placed, Starts, Serves
<1> QED BY <1>2, <1>3 DEF TypeInv

LEMMA EffectTyped ==
    ASSUME TypeInv, NEW i \in DOMAIN Statements
    PROVE  Effect(Statements[i]) \subseteq STRING \X STRING /\ db \subseteq Effect(Statements[i])
<1> DEFINE S == [kind : {"create", "alter"}, object : STRING,
                 gives : SUBSET (STRING \X STRING), needs : SUBSET (STRING \X STRING)]
<1>1. Statements \in Seq(S)
  BY SchemaAssumption
<1> HIDE DEF S
<1>2. Statements[i] \in S
  BY <1>1, ElementOfSeq
<1>3. Statements[i].gives \in SUBSET (STRING \X STRING)
  BY <1>2 DEF S
<1>4. db \in SUBSET (STRING \X STRING)
  BY DEF TypeInv, TypeOK
<1> QED BY <1>3, <1>4 DEF Effect

LEMMA StageTyped ==
    ASSUME TypeInv, NEW e \in Exporters, Boot(e) \/ WaitForClickHouse(e) \/ Connect(e) \/ OpenRedis(e)
    PROVE  TypeInv'
<1>1. CASE Boot(e)
  <2>1. TypeOK'
    BY <1>1, LengthIsNat DEF TypeInv, TypeOK, Boot, GoTo, Stages, world
  <2>2. Placed(e)'
    BY <1>1 DEF TypeInv, TypeOK, Placed, Boot, GoTo, Starts, Serves
  <2>3. ASSUME NEW x \in Exporters \ {e} PROVE Placed(x)'
    BY <1>1, OthersPlaced DEF TypeInv, TypeOK, Boot, GoTo
  <2> QED BY <2>1, <2>2, <2>3 DEF TypeInv
<1>2. CASE WaitForClickHouse(e)
  <2>1. CASE End(e, "error")
    BY <1>2, <2>1, EndPlaces DEF WaitForClickHouse, world, TypeInv, TypeOK
  <2>2. CASE GoTo(e, "connect") /\ UNCHANGED <<next, open, task, errs, cancelled, exit, asked>>
    <3>1. TypeOK'
      BY <1>2, <2>2 DEF TypeInv, TypeOK, WaitForClickHouse, GoTo, Stages, world
    <3>2. Placed(e)'
      BY <1>2, <2>2 DEF TypeInv, TypeOK, Placed, WaitForClickHouse, GoTo, Starts, Serves
    <3>3. ASSUME NEW x \in Exporters \ {e} PROVE Placed(x)'
      BY <2>2, OthersPlaced DEF TypeInv, TypeOK, GoTo
    <3> QED BY <3>1, <3>2, <3>3 DEF TypeInv
  <2> QED BY <1>2, <2>1, <2>2 DEF WaitForClickHouse, WaitCancelled
<1>3. CASE Connect(e)
  <2>1. CASE End(e, "error")
    BY <1>3, <2>1, EndPlaces DEF Connect, world, TypeInv, TypeOK
  <2>2. CASE /\ GoTo(e, "schema") /\ open' = [open EXCEPT ![e] = {"writer"}]
             /\ UNCHANGED <<next, task, errs, cancelled, exit, asked>>
    <3>1. next[e] = 1
      BY <1>3 DEF TypeInv, Placed, Connect, Starts
    <3>2. TypeOK'
      BY <1>3, <2>2, <3>1, LengthIsNat DEF TypeInv, TypeOK, Connect, GoTo, Stages, Clients, world
    <3>3. Placed(e)'
      BY <1>3, <2>2 DEF TypeInv, TypeOK, Placed, Connect, GoTo, Starts, Serves
    <3>4. ASSUME NEW x \in Exporters \ {e} PROVE Placed(x)'
      BY <2>2, OthersPlaced DEF TypeInv, TypeOK, GoTo
    <3> QED BY <3>2, <3>3, <3>4 DEF TypeInv
  <2> QED BY <1>3, <2>1, <2>2 DEF Connect
<1>4. CASE OpenRedis(e)
  <2>1. CASE End(e, "error")
    BY <1>4, <2>1, EndPlaces DEF OpenRedis, world, TypeInv, TypeOK
  <2>2. CASE /\ GoTo(e, "redis") /\ open' = [open EXCEPT ![e] = Clients]
             /\ UNCHANGED <<next, task, errs, cancelled, exit, asked>>
    <3>1. TypeOK'
      BY <1>4, <2>2 DEF TypeInv, TypeOK, OpenRedis, GoTo, Stages, world
    <3>2. Placed(e)'
      BY <1>4, <2>2 DEF TypeInv, TypeOK, Placed, OpenRedis, GoTo, Starts, Serves
    <3>3. ASSUME NEW x \in Exporters \ {e} PROVE Placed(x)'
      BY <2>2, OthersPlaced DEF TypeInv, TypeOK, GoTo
    <3> QED BY <3>1, <3>2, <3>3 DEF TypeInv
  <2> QED BY <1>4, <2>1, <2>2 DEF OpenRedis
<1> QED BY <1>1, <1>2, <1>3, <1>4

LEMMA SchemaTyped ==
    ASSUME TypeInv, NEW e \in Exporters, ApplyStatement(e) \/ StatementFails(e)
    PROVE  TypeInv'
<1>1. pc[e] = "schema" /\ next[e] \in DOMAIN Statements /\ next[e] + 1 \in 1 .. Len(Statements) + 1
  BY LengthIsNat, SchemaAssumption DEF TypeInv, TypeOK, ApplyStatement, StatementFails
<1>2. db' \subseteq STRING \X STRING
  BY <1>1, EffectTyped DEF TypeInv, TypeOK, ApplyStatement, StatementFails
<1>3. CASE ApplyStatement(e)
  <2>1. TypeOK'
    <3>1. next' \in [Exporters -> 1 .. Len(Statements) + 1] /\ next'[e] = next[e] + 1
          /\ \A x \in Exporters \ {e} : next'[x] = next[x]
      BY <1>1, <1>3 DEF TypeInv, TypeOK, ApplyStatement
    <3>2. pc' \in [Exporters -> Stages] /\ \A x \in Exporters \ {e} : pc'[x] = pc[x]
      BY <1>3 DEF TypeInv, TypeOK, ApplyStatement, GoTo, Stages
    <3>3. pc'[e] = "schema" => next[e] # Len(Statements)
      BY <1>3 DEF TypeInv, TypeOK, ApplyStatement, GoTo
    <3>4. next[e] \in Nat /\ next[e] <= Len(Statements)
      BY <1>1, LengthIsNat
    <3>5. ASSUME NEW x \in Exporters, pc'[x] = "schema" PROVE next'[x] <= Len(Statements)
      <4>1. CASE x = e
        <5>1. next'[e] = next[e] + 1 /\ next[e] # Len(Statements)
          BY <3>1, <3>3, <3>5, <4>1
        <5> QED BY <3>4, <4>1, <5>1, LengthIsNat
      <4>2. CASE x # e
        BY <3>1, <3>2, <3>5, <4>2 DEF TypeInv, TypeOK
      <4> QED BY <4>1, <4>2
    <3> QED BY <1>2, <1>3, <3>1, <3>2, <3>5 DEF TypeInv, TypeOK, ApplyStatement
  <2>2. Placed(e)'
    BY <1>1, <1>3, LengthIsNat DEF TypeInv, TypeOK, Placed, ApplyStatement, GoTo, Starts, Serves
  <2>3. ASSUME NEW x \in Exporters \ {e} PROVE Placed(x)'
    BY <1>3, OthersPlaced DEF TypeInv, TypeOK, ApplyStatement, GoTo
  <2> QED BY <2>1, <2>2, <2>3 DEF TypeInv
<1>4. CASE StatementFails(e)
  BY <1>2, <1>4, EndPlaces DEF StatementFails, TypeInv, TypeOK
<1> QED BY <1>3, <1>4

LEMMA WaitForRedisTyped ==
    ASSUME TypeInv, NEW e \in Exporters, WaitForRedis(e)
    PROVE  TypeInv'
<1>1. CASE End(e, "error")
  BY <1>1, EndPlaces DEF WaitForRedis, world, TypeInv, TypeOK
<1>2. CASE /\ GoTo(e, "serving") /\ task' = [task EXCEPT ![e] = Started]
           /\ UNCHANGED <<next, open, errs, cancelled, exit, asked>>
  <2>1. Started \in [Goroutines -> {"off", "starting", "running", "sending", "gone"}]
    BY DEF Started
  <2>2. TypeOK'
    <3>1. task' \in [Exporters -> [Goroutines -> {"off", "starting", "running", "sending", "gone"}]]
      BY <1>2, <2>1 DEF TypeInv, TypeOK
    <3>2. pc' \in [Exporters -> Stages] /\ \A x \in Exporters : pc'[x] = "schema" => pc[x] = "schema"
      BY <1>2 DEF TypeInv, TypeOK, GoTo, Stages
    <3> QED BY <1>2, <3>1, <3>2 DEF TypeInv, TypeOK, WaitForRedis, world
  <2>3. Placed(e)'
    BY <1>2 DEF TypeInv, TypeOK, Placed, WaitForRedis, GoTo, Starts, Serves
  <2>4. ASSUME NEW x \in Exporters \ {e} PROVE Placed(x)'
    BY <1>2, OthersPlaced DEF TypeInv, TypeOK, GoTo
  <2> QED BY <2>2, <2>3, <2>4 DEF TypeInv
<1> QED BY <1>1, <1>2 DEF WaitForRedis, WaitCancelled

\* A goroutine that is neither off nor gone runs under a process that serves.
LEMMA InUseServes ==
    ASSUME TypeInv, NEW e \in Exporters, NEW g \in Goroutines,
           task[e][g] \in {"starting", "running", "sending"}
    PROVE  pc[e] \in Serves
<1>1. NoTasks[g] = "off"
  BY DEF NoTasks
<1> QED BY <1>1 DEF TypeInv, Placed, Serves

\* One goroutine of a process that serves changes its state.
LEMMA BecomeTyped ==
    ASSUME TypeInv, NEW e \in Exporters, NEW g \in Goroutines, pc[e] \in Serves,
           NEW state \in {"running", "sending", "gone"}, Become(e, g, state),
           errs' \in [Exporters -> SUBSET Workers], \A x \in Exporters \ {e} : errs'[x] = errs[x],
           UNCHANGED <<pc, next, open, cancelled, exit, asked, world>>
    PROVE  TypeInv'
<1>1. [task[e] EXCEPT ![g] = state] \in [Goroutines -> {"off", "starting", "running", "sending", "gone"}]
  BY DEF TypeInv, TypeOK
<1>2. task' = [task EXCEPT ![e] = [task[e] EXCEPT ![g] = state]]
  BY DEF Become, TypeInv, TypeOK
<1>3. TypeOK'
  BY <1>1, <1>2 DEF TypeInv, TypeOK, world
<1>4. Placed(e)'
  BY DEF TypeInv, Placed, Serves, Starts
<1>5. ASSUME NEW x \in Exporters \ {e} PROVE Placed(x)'
  BY <1>2, OthersPlaced DEF TypeInv, TypeOK
<1> QED BY <1>3, <1>4, <1>5 DEF TypeInv

LEMMA WorkTyped ==
    ASSUME TypeInv, NEW e \in Exporters, Work(e) \/ \E w \in Workers : EndBlockedRead(e, w)
    PROVE  TypeInv'
<1>0. errs \in [Exporters -> SUBSET Workers] /\ Workers \subseteq Goroutines /\ "syncer" \in Goroutines
  BY DEF TypeInv, TypeOK, Goroutines
<1>1. ASSUME NEW w \in Workers, StartWorker(e, w) PROVE TypeInv'
  <2>1. CASE End(e, "panic")
    BY <1>1, <2>1, EndPlaces DEF StartWorker, world, TypeInv, TypeOK
  <2>2. pc[e] \in Serves
    BY <1>0, <1>1, InUseServes DEF StartWorker
  <2> QED BY <1>0, <1>1, <2>1, <2>2, BecomeTyped DEF StartWorker, EnterLoop
<1>2. ASSUME StartSyncer(e) PROVE TypeInv'
  <2>1. CASE End(e, "panic")
    BY <1>2, <2>1, EndPlaces DEF StartSyncer, world, TypeInv, TypeOK
  <2>2. pc[e] \in Serves
    BY <1>0, <1>2, InUseServes DEF StartSyncer
  <2> QED BY <1>0, <1>2, <2>1, <2>2, BecomeTyped DEF StartSyncer, EnterLoop
<1>3. ASSUME NEW w \in Workers, SendError(e, w) PROVE TypeInv'
  <2>1. pc[e] \in Serves
    BY <1>0, <1>3, InUseServes DEF SendError
  <2>2. errs' \in [Exporters -> SUBSET Workers] /\ \A x \in Exporters \ {e} : errs'[x] = errs[x]
    BY <1>0, <1>3 DEF SendError
  <2> QED BY <1>0, <1>3, <2>1, <2>2, BecomeTyped DEF SendError
<1>4. ASSUME NEW g \in Goroutines, EndTask(e, g) PROVE TypeInv'
  <2>1. pc[e] \in Serves
    BY <1>4, InUseServes DEF EndTask
  <2> QED BY <1>0, <1>4, <2>1, BecomeTyped DEF EndTask
<1>5. ASSUME NEW w \in Workers, EndBlockedRead(e, w) PROVE TypeInv'
  <2>1. pc[e] \in Serves
    BY <1>0, <1>5, InUseServes DEF EndBlockedRead
  <2> QED BY <1>0, <1>5, <2>1, BecomeTyped DEF EndBlockedRead
<1> QED BY <1>1, <1>2, <1>3, <1>4, <1>5 DEF Work

LEMMA StopTyped ==
    ASSUME TypeInv, NEW e \in Exporters, SeeDone(e) \/ ReceiveError(e) \/ Return(e) \/ Exit(e)
    PROVE  TypeInv'
<1>1. CASE SeeDone(e) \/ ReceiveError(e) \/ Return(e)
  <2>1. TypeOK'
    <3>1. pc' \in [Exporters -> Stages] /\ \A x \in Exporters : pc'[x] = "schema" => pc[x] = "schema"
      BY <1>1 DEF TypeInv, TypeOK, SeeDone, ReceiveError, Return, GoTo, Stages
    <3>2. errs' \in [Exporters -> SUBSET Workers] /\ cancelled' \in [Exporters -> BOOLEAN]
      BY <1>1 DEF TypeInv, TypeOK, SeeDone, ReceiveError, Return
    <3>3. open' \in [Exporters -> SUBSET Clients]
          /\ exit' \in [Exporters -> {"none", "ok", "error", "panic", "killed"}]
      BY <1>1 DEF TypeInv, TypeOK, SeeDone, ReceiveError, Return
    <3>4. UNCHANGED <<next, task, asked, world>>
      BY <1>1 DEF SeeDone, ReceiveError, Return
    <3> QED BY <3>1, <3>2, <3>3, <3>4 DEF TypeInv, TypeOK, world
  <2>2. Placed(e)'
    <3>1. pc[e] \in Serves /\ pc'[e] \in {"stopping", "failing", "returned"} /\ task'[e] = task[e] /\ next'[e] = next[e]
      BY <1>1 DEF TypeInv, TypeOK, SeeDone, ReceiveError, Return, GoTo, Serves
    <3>2. pc'[e] # "returned" => open'[e] = open[e]
      BY <1>1 DEF TypeInv, TypeOK, SeeDone, ReceiveError, Return, GoTo
    <3>3. pc'[e] = "returned" => \A g \in Goroutines : task[e][g] = "gone"
      BY <1>1 DEF TypeInv, TypeOK, SeeDone, ReceiveError, Return, GoTo
    <3> QED BY <3>1, <3>2, <3>3 DEF TypeInv, Placed, Starts, Serves
  <2>3. ASSUME NEW x \in Exporters \ {e} PROVE Placed(x)'
    BY <1>1, OthersPlaced DEF TypeInv, TypeOK, SeeDone, ReceiveError, Return, GoTo
  <2> QED BY <2>1, <2>2, <2>3 DEF TypeInv
<1>2. CASE Exit(e)
  <2>1. exit[e] \in {"none", "ok", "error", "panic", "killed"} /\ End(e, exit[e])
    BY <1>2 DEF Exit, TypeInv, TypeOK
  <2> QED BY <1>2, <2>1, EndPlaces DEF Exit, world, TypeInv, TypeOK
<1> QED BY <1>1, <1>2

LEMMA WorldTyped ==
    ASSUME TypeInv,
           Outage \/ Recovery \/ \E e \in Exporters : Signal(e) \/ Kill(e)
    PROVE  TypeInv'
<1>1. CASE Outage \/ Recovery
  <2>1. up' \subseteq Dependencies /\ faults' \in Nat
    BY <1>1 DEF TypeInv, TypeOK, Outage, Recovery, Fault
  <2>2. UNCHANGED <<process, environment, db>>
    BY <1>1 DEF Outage, Recovery
  <2>3. TypeOK'
    BY <2>1, <2>2 DEF TypeInv, TypeOK, process
  <2> QED BY <2>2, <2>3 DEF TypeInv, Placed, process
<1>2. ASSUME NEW e \in Exporters, Signal(e) PROVE TypeInv'
  <2>1. TypeOK'
    BY <1>2 DEF TypeInv, TypeOK, Signal, Fault
  <2> QED BY <1>2, <2>1 DEF TypeInv, Placed, Signal
<1>3. ASSUME NEW e \in Exporters, Kill(e) PROVE TypeInv'
  <2>1. faults' \in Nat /\ End(e, "killed") /\ UNCHANGED <<environment, up, db>>
    BY <1>3 DEF Kill, Fault, TypeInv, TypeOK
  <2>2. up' \subseteq Dependencies /\ db' \subseteq STRING \X STRING
    BY <2>1 DEF TypeInv, TypeOK
  <2> QED BY <2>1, <2>2, EndPlaces
<1> QED BY <1>1, <1>2, <1>3

LEMMA TypeNext == TypeInv /\ [Next]_vars => TypeInv'
<1> SUFFICES ASSUME TypeInv, [Next]_vars PROVE TypeInv'
  OBVIOUS
<1>1. CASE UNCHANGED vars
  BY <1>1 DEF TypeInv, TypeOK, Placed, vars, process, world
<1> QED BY <1>1, StageTyped, SchemaTyped, WaitForRedisTyped, WorkTyped, StopTyped, WorldTyped DEF Next, Run

\* Every variable keeps its type, and no statement past the last is run.
THEOREM TypeCorrect == Spec => []TypeOK
<1>1. TypeInv => TypeOK
  BY DEF TypeInv
<1> QED BY <1>1, TypeInit, TypeNext, PTL DEF Spec

\* main.go:154-159: the writer, the resolver and Redis are open as long as a
\* goroutine may use them.
THEOREM ClientsOutliveGoroutines == Spec => []ClosedLast
<1>1. TypeInv => ClosedLast
  BY InUseServes DEF ClosedLast, InUse, TypeInv, Placed
<1> QED BY <1>1, TypeInit, TypeNext, PTL DEF Spec

-----------------------------------------------------------------------------
(* One step                                                                *)

Still(x) ==
    /\ pc'[x] = pc[x] /\ next'[x] = next[x] /\ open'[x] = open[x] /\ task'[x] = task[x]
    /\ errs'[x] = errs[x] /\ cancelled'[x] = cancelled[x] /\ exit'[x] = exit[x] /\ asked'[x] = asked[x]

Ends(e) == \E how \in {"none", "ok", "error", "panic", "killed"} : End(e, how)

\* The steps of one process.
Acts(e) == Signal(e) \/ Kill(e) \/ Run(e) \/ Work(e) \/ \E w \in Workers : EndBlockedRead(e, w)

LEMMA ActsFrame ==
    ASSUME TypeInv, NEW e \in Exporters, Acts(e)
    PROVE  environment' = environment /\ \A x \in Exporters \ {e} : Still(x)
<1>1. ASSUME NEW how, End(e, how) PROVE \A x \in Exporters \ {e} : Still(x)
  BY <1>1 DEF TypeInv, TypeOK, End, GoTo, Still
<1>2. CASE Signal(e) \/ Kill(e)
  BY <1>1, <1>2 DEF TypeInv, TypeOK, Signal, Kill, Still
<1>3. CASE Boot(e) \/ WaitForClickHouse(e) \/ Connect(e)
  BY <1>1, <1>3 DEF TypeInv, TypeOK, Boot, WaitForClickHouse, WaitCancelled, Connect, GoTo, Still, world
<1>4. CASE ApplyStatement(e) \/ StatementFails(e)
  BY <1>1, <1>4 DEF TypeInv, TypeOK, ApplyStatement, StatementFails, GoTo, Still
<1>5. CASE OpenRedis(e) \/ WaitForRedis(e)
  BY <1>1, <1>5 DEF TypeInv, TypeOK, OpenRedis, WaitForRedis, WaitCancelled, GoTo, Still, world
<1>6. CASE SeeDone(e) \/ ReceiveError(e) \/ Return(e) \/ Exit(e)
  BY <1>1, <1>6 DEF TypeInv, TypeOK, SeeDone, ReceiveError, Return, Exit, GoTo, Still, world
<1>7. ASSUME NEW g, NEW state, Become(e, g, state) PROVE \A x \in Exporters \ {e} : task'[x] = task[x]
  BY <1>7 DEF TypeInv, TypeOK, Become
<1>8. ASSUME NEW w \in Workers, StartWorker(e, w) \/ SendError(e, w) \/ EndBlockedRead(e, w)
      PROVE environment' = environment /\ \A x \in Exporters \ {e} : Still(x)
  BY <1>1, <1>7, <1>8 DEF TypeInv, TypeOK, StartWorker, SendError, EndBlockedRead, EnterLoop, Still, world
<1>9. ASSUME StartSyncer(e) \/ \E g \in Goroutines : EndTask(e, g)
      PROVE environment' = environment /\ \A x \in Exporters \ {e} : Still(x)
  BY <1>1, <1>7, <1>9 DEF TypeInv, TypeOK, StartSyncer, EndTask, EnterLoop, Still, world
<1> QED BY <1>2, <1>3, <1>4, <1>5, <1>6, <1>8, <1>9 DEF Acts, Run, Work

\* Nobody acts: the dependencies change, or nothing does.
Waits == UNCHANGED <<process, environment, db>>

LEMMA Steps ==
    ASSUME TypeInv, [Next]_vars
    PROVE  Waits \/ \E e \in Exporters : Acts(e)
BY DEF Next, Acts, Waits, Outage, Recovery, vars, world

\* A process that ends is down, with nothing left.
LEMMA EndEffect ==
    ASSUME TypeInv, NEW e \in Exporters, NEW how, End(e, how)
    PROVE  /\ pc'[e] = "down" /\ next'[e] = 1 /\ task'[e] = NoTasks /\ errs'[e] = {}
           /\ cancelled'[e] = FALSE /\ exit'[e] = how /\ asked'[e] = asked[e]
BY DEF TypeInv, TypeOK, End, GoTo

-----------------------------------------------------------------------------
(* Errors of the workers                                                   *)

ErrorInv == TypeInv /\ \A e \in Exporters : Reported(e)

LEMMA ReportedAfterEnd ==
    ASSUME TypeInv, NEW e \in Exporters, NEW how, End(e, how)
    PROVE  Reported(e)'
BY EndEffect DEF Reported

LEMMA ReportedKept ==
    ASSUME ErrorInv, NEW e \in Exporters, Acts(e), Placed(e)'
    PROVE  Reported(e)'
<1>0. TypeInv /\ Reported(e)
  BY DEF ErrorInv
<1>1. pc'[e] \notin Serves \cup {"returned"} => Reported(e)'
  BY DEF Placed, Reported, Serves
<1>2. CASE Signal(e)
  BY <1>0, <1>2 DEF Signal, Reported, TypeInv, TypeOK
<1>3. CASE Kill(e)
  BY <1>0, <1>3, ReportedAfterEnd DEF Kill
<1>4. CASE Boot(e) \/ WaitForClickHouse(e) \/ Connect(e)
  BY <1>0, <1>1, <1>4, ReportedAfterEnd
     DEF Boot, WaitForClickHouse, WaitCancelled, Connect, GoTo, Serves, TypeInv, TypeOK
<1>5. CASE ApplyStatement(e) \/ StatementFails(e) \/ OpenRedis(e)
  BY <1>0, <1>1, <1>5, ReportedAfterEnd DEF ApplyStatement, StatementFails, OpenRedis, GoTo, Serves, TypeInv, TypeOK
<1>6. CASE WaitForRedis(e)
  <2>1. CASE task' = [task EXCEPT ![e] = Started] /\ errs' = errs
    <3>1. errs[e] = {}
      BY <1>0, <1>6 DEF WaitForRedis, TypeInv, Placed, Serves
    <3>2. \A w \in Workers : Started[w] = "starting"
      BY WorkersAssumption DEF Started, Goroutines
    <3> QED BY <1>0, <2>1, <3>1, <3>2 DEF Reported, TypeInv, TypeOK
  <2> QED BY <1>0, <1>6, <2>1, ReportedAfterEnd DEF WaitForRedis, WaitCancelled
<1>7. ASSUME NEW g \in Goroutines, NEW state, Become(e, g, state), task[e][g] # "gone",
             pc'[e] = pc[e], cancelled'[e] = cancelled[e], errs[e] \subseteq errs'[e],
             \A w \in errs'[e] \ errs[e] : w = g /\ state = "gone",
             state = "gone" /\ g \in Workers => errs'[e] # {} \/ cancelled[e]
      PROVE  Reported(e)'
  <2>1. task'[e] = [task[e] EXCEPT ![g] = state] /\ DOMAIN task[e] = Goroutines
    BY <1>0, <1>7 DEF Become, TypeInv, TypeOK
  <2>2. errs[e] \subseteq Workers /\ Workers \subseteq Goroutines
    BY <1>0 DEF TypeInv, TypeOK, Goroutines
  <2>3. g \notin errs[e] /\ \A w \in errs[e] : task'[e][w] = "gone"
    BY <1>0, <1>7, <2>1, <2>2 DEF Reported
  <2>4. \A w \in errs'[e] : task'[e][w] = "gone"
    BY <1>7, <2>1, <2>3
  <2>5. \A w \in Workers \ {g} : task'[e][w] = task[e][w]
    BY <2>1, <2>2
  <2>6. ASSUME NEW w \in Workers, pc[e] = "serving", task'[e][w] = "gone" PROVE errs'[e] # {} \/ cancelled[e]
    <3>1. CASE w = g
      BY <1>7, <2>1, <2>6, <3>1
    <3>2. CASE w # g
      BY <1>0, <1>7, <2>5, <2>6, <3>2 DEF Reported
    <3> QED BY <3>1, <3>2
  <2> QED BY <1>7, <2>4, <2>6 DEF Reported
<1>8. Workers \subseteq Goroutines /\ "syncer" \in Goroutines /\ "syncer" \notin Workers
  BY WorkersAssumption DEF Goroutines
<1>9. ASSUME NEW w \in Workers, StartWorker(e, w) \/ SendError(e, w) \/ EndBlockedRead(e, w)
      PROVE  Reported(e)'
  <2>1. CASE StartWorker(e, w)
    BY <1>0, <1>7, <1>8, <2>1, ReportedAfterEnd DEF StartWorker, EnterLoop
  <2>2. CASE SendError(e, w)
    <3>1. errs'[e] = errs[e] \cup {w}
      BY <1>0, <2>2 DEF SendError, TypeInv, TypeOK
    <3> QED BY <1>7, <1>8, <2>2, <3>1 DEF SendError
  <2>3. CASE EndBlockedRead(e, w)
    BY <1>7, <1>8, <2>3 DEF EndBlockedRead
  <2> QED BY <1>9, <2>1, <2>2, <2>3
<1>10. CASE StartSyncer(e)
  BY <1>0, <1>7, <1>8, <1>10, ReportedAfterEnd DEF StartSyncer, EnterLoop
<1>11. ASSUME NEW g \in Goroutines, EndTask(e, g) PROVE Reported(e)'
  BY <1>7, <1>11 DEF EndTask
<1>12. CASE SeeDone(e) \/ ReceiveError(e) \/ Return(e)
  <2>1. pc'[e] # "serving" /\ task'[e] = task[e] /\ errs'[e] \subseteq errs[e]
    BY <1>0, <1>12 DEF SeeDone, ReceiveError, Return, GoTo, TypeInv, TypeOK
  <2> QED BY <1>0, <2>1 DEF Reported
<1>13. CASE Exit(e)
  BY <1>0, <1>13, ReportedAfterEnd DEF Exit
<1> QED BY <1>2, <1>3, <1>4, <1>5, <1>6, <1>9, <1>10, <1>11, <1>12, <1>13 DEF Acts, Run, Work

LEMMA ErrorNext == ErrorInv /\ [Next]_vars => ErrorInv'
<1> SUFFICES ASSUME ErrorInv, [Next]_vars PROVE ErrorInv'
  OBVIOUS
<1>1. TypeInv /\ TypeInv'
  BY TypeNext DEF ErrorInv
<1>2. CASE Waits
  BY <1>1, <1>2 DEF ErrorInv, Reported, Waits, process
<1>3. ASSUME NEW e \in Exporters, Acts(e) PROVE ErrorInv'
  <2>1. Reported(e)'
    BY <1>1, <1>3, ReportedKept DEF TypeInv
  <2>2. ASSUME NEW x \in Exporters \ {e} PROVE Reported(x)'
    BY <1>1, <1>3, ActsFrame DEF Still, ErrorInv, Reported
  <2> QED BY <1>1, <2>1, <2>2 DEF ErrorInv
<1> QED BY <1>1, <1>2, <1>3, Steps

LEMMA ErrorInit == Init => ErrorInv
<1> SUFFICES ASSUME Init PROVE ErrorInv
  OBVIOUS
<1>1. \A e \in Exporters : Reported(e)
  BY DEF Init, Reported
<1> QED BY <1>1, TypeInit DEF ErrorInv

\* The channel never holds more than one error of each worker.
LEMMA RoomForErrors == ErrorInv => NobodyStuckSending
<1> SUFFICES ASSUME ErrorInv, NEW e \in Exporters, NEW w \in Workers, task[e][w] = "sending"
             PROVE  Cardinality(errs[e]) < Capacity
  BY DEF NobodyStuckSending
<1>1. errs[e] \subseteq Workers
  BY DEF ErrorInv, TypeInv, TypeOK
<1>2. IsFiniteSet(Workers)
  BY WorkersAssumption
<1>3. Cardinality(errs[e]) <= Cardinality(Workers) /\ Cardinality(Workers) \in Nat
      /\ Cardinality(errs[e]) \in Nat
  BY <1>1, <1>2, FS_Subset, FS_CardinalityType
<1> QED BY <1>3 DEF Capacity

\* main.go:116,124: a worker finds room for its error, whatever the others sent.
THEOREM ErrorsFit == Spec => []NobodyStuckSending
BY RoomForErrors, ErrorInit, ErrorNext, PTL DEF Spec

\* main.go:151-157: no stream is dropped while run goes on serving the others.
THEOREM WorkersAreMissed == Spec => []NoWorkerMissed
<1>1. ErrorInv => NoWorkerMissed
  BY DEF ErrorInv, Reported, NoWorkerMissed
<1> QED BY <1>1, ErrorInit, ErrorNext, PTL DEF Spec

-----------------------------------------------------------------------------
(* How processes end                                                       *)

AskedInv == TypeInv /\ \A e \in Exporters : Asked(e)

LEMMA AskedKept ==
    ASSUME AskedInv, NEW e \in Exporters, Acts(e)
    PROVE  Asked(e)'
<1>0. TypeInv /\ Asked(e)
  BY DEF AskedInv
<1>1. ASSUME NEW how \in {"error", "panic", "killed"}, End(e, how) PROVE Asked(e)'
  BY <1>0, <1>1, EndEffect DEF Asked
<1>2. CASE Signal(e)
  BY <1>0, <1>2 DEF Signal, Asked, TypeInv, TypeOK
<1>3. CASE Kill(e)
  BY <1>1, <1>3 DEF Kill
<1>4. CASE Boot(e)
  <2>1. ~cancelled[e]
    BY <1>0, <1>4 DEF Boot, Asked
  <2>2. cancelled'[e] = cancelled[e] /\ pc'[e] \in {"down", "clickhouse"} /\ exit'[e] \in {"none", "error"}
    BY <1>0, <1>4 DEF Boot, GoTo, TypeInv, TypeOK
  <2> QED BY <2>1, <2>2 DEF Asked
<1>5. CASE WaitForClickHouse(e) \/ Connect(e) \/ OpenRedis(e) \/ WaitForRedis(e)
  BY <1>0, <1>1, <1>5
     DEF WaitForClickHouse, WaitForRedis, WaitCancelled, Connect, OpenRedis, GoTo, Asked, TypeInv, TypeOK
<1>6. CASE ApplyStatement(e) \/ StatementFails(e)
  BY <1>0, <1>1, <1>6 DEF ApplyStatement, StatementFails, GoTo, Asked, TypeInv, TypeOK
<1>7. CASE Work(e) \/ \E w \in Workers : EndBlockedRead(e, w)
  BY <1>0, <1>1, <1>7
     DEF Work, StartWorker, StartSyncer, EnterLoop, SendError, EndTask, EndBlockedRead, Asked
<1>8. CASE SeeDone(e)
  BY <1>0, <1>8 DEF SeeDone, GoTo, Asked, TypeInv, TypeOK
<1>9. CASE ReceiveError(e)
  BY <1>0, <1>9 DEF ReceiveError, GoTo, Asked, TypeInv, TypeOK
<1>10. CASE Return(e)
  BY <1>0, <1>10 DEF Return, GoTo, Asked, TypeInv, TypeOK
<1>11. CASE Exit(e)
  BY <1>0, <1>11, EndEffect DEF Exit, Asked
<1> QED BY <1>2, <1>3, <1>4, <1>5, <1>6, <1>7, <1>8, <1>9, <1>10, <1>11 DEF Acts, Run

LEMMA AskedNext == AskedInv /\ [Next]_vars => AskedInv'
<1> SUFFICES ASSUME AskedInv, [Next]_vars PROVE AskedInv'
  OBVIOUS
<1>1. TypeInv /\ TypeInv'
  BY TypeNext DEF AskedInv
<1>2. CASE Waits
  BY <1>1, <1>2 DEF AskedInv, Asked, Waits, process
<1>3. ASSUME NEW e \in Exporters, Acts(e) PROVE AskedInv'
  <2>1. Asked(e)'
    BY <1>3, AskedKept
  <2>2. ASSUME NEW x \in Exporters \ {e} PROVE Asked(x)'
    BY <1>1, <1>3, ActsFrame DEF Still, AskedInv, Asked
  <2> QED BY <1>1, <2>1, <2>2 DEF AskedInv
<1> QED BY <1>1, <1>2, <1>3, Steps

LEMMA AskedInit == Init => AskedInv
<1> SUFFICES ASSUME Init PROVE AskedInv
  OBVIOUS
<1>1. \A e \in Exporters : Asked(e)
  BY DEF Init, Asked
<1> QED BY <1>1, TypeInit DEF AskedInv

\* main.go:151-164: the container sees a clean exit only after a signal, so it is
\* restarted after everything else.
THEOREM CleanExitIsAsked == Spec => []CleanExitWasAsked
<1>1. AskedInv => CleanExitWasAsked
  BY DEF AskedInv, Asked, CleanExitWasAsked
<1> QED BY <1>1, AskedInit, AskedNext, PTL DEF Spec

SoundInv == TypeInv /\ \A e \in Exporters : Sound(e)

LEMMA SoundKept ==
    ASSUME SoundInv, NEW e \in Exporters, Acts(e)
    PROVE  Sound(e)'
<1>0. TypeInv /\ Sound(e) /\ Cfg' = Cfg
  BY ActsFrame DEF SoundInv, Cfg
<1>1. ASSUME NEW how, how # "panic", End(e, how) PROVE Sound(e)'
  BY <1>0, <1>1, EndEffect DEF Sound
<1>2. CASE Signal(e)
  BY <1>0, <1>2 DEF Signal, Sound
<1>3. CASE Kill(e)
  BY <1>1, <1>3 DEF Kill
<1>4. CASE Boot(e)
  BY <1>0, <1>4 DEF Boot, GoTo, Sound, TypeInv, TypeOK
<1>5. CASE WaitForClickHouse(e) \/ Connect(e) \/ OpenRedis(e) \/ WaitForRedis(e)
  BY <1>0, <1>1, <1>5
     DEF WaitForClickHouse, WaitForRedis, WaitCancelled, Connect, OpenRedis, GoTo, Sound, TypeInv, TypeOK
<1>6. CASE ApplyStatement(e) \/ StatementFails(e)
  BY <1>0, <1>1, <1>6 DEF ApplyStatement, StatementFails, GoTo, Sound, TypeInv, TypeOK
<1>7. ASSUME NEW w \in Workers, StartWorker(e, w) PROVE Sound(e)'
  <2>1. CASE Cfg.ClaimMinIdle > 0
    BY <1>0, <1>7, <2>1 DEF StartWorker, EnterLoop, Sound
  <2>2. CASE ~(Cfg.ClaimMinIdle > 0)
    <3>1. pc[e] # "down"
      BY <1>0, <1>7, InUseServes DEF StartWorker, Serves, Goroutines
    <3> QED BY <1>0, <1>7, <2>2, <3>1 DEF Sound
  <2> QED BY <2>1, <2>2
<1>8. CASE StartSyncer(e)
  <2>1. pc[e] # "down"
    BY <1>0, <1>8, InUseServes DEF StartSyncer, Serves, Goroutines
  <2>2. Cfg.DictRefresh > 0 /\ Cfg.TorrentPoll > 0
    BY <1>0, <2>1 DEF Sound, Accepted
  <2> QED BY <1>0, <1>8, <2>2 DEF StartSyncer, EnterLoop, Sound
<1>9. ASSUME NEW w \in Workers, SendError(e, w) \/ EndBlockedRead(e, w) PROVE Sound(e)'
  BY <1>0, <1>9 DEF SendError, EndBlockedRead, Sound
<1>10. ASSUME NEW g \in Goroutines, EndTask(e, g) PROVE Sound(e)'
  BY <1>0, <1>10 DEF EndTask, Sound
<1>11. CASE SeeDone(e) \/ ReceiveError(e) \/ Return(e)
  BY <1>0, <1>11 DEF SeeDone, ReceiveError, Return, GoTo, Sound, TypeInv, TypeOK
<1>12. CASE Exit(e)
  BY <1>0, <1>12, EndEffect DEF Exit, Sound
<1> QED BY <1>2, <1>3, <1>4, <1>5, <1>6, <1>7, <1>8, <1>9, <1>10, <1>11, <1>12 DEF Acts, Run, Work

LEMMA SoundNext == SoundInv /\ [Next]_vars => SoundInv'
<1> SUFFICES ASSUME SoundInv, [Next]_vars PROVE SoundInv'
  OBVIOUS
<1>1. TypeInv /\ TypeInv'
  BY TypeNext DEF SoundInv
<1>2. CASE Waits
  BY <1>1, <1>2 DEF SoundInv, Sound, Waits, process, Cfg
<1>3. ASSUME NEW e \in Exporters, Acts(e) PROVE SoundInv'
  <2>1. Sound(e)'
    BY <1>3, SoundKept
  <2>2. ASSUME NEW x \in Exporters \ {e} PROVE Sound(x)'
    BY <1>1, <1>3, ActsFrame DEF Still, SoundInv, Sound, Cfg
  <2> QED BY <1>1, <2>1, <2>2 DEF SoundInv
<1> QED BY <1>1, <1>2, <1>3, Steps

\* config.go:92-109: with a claim interval that is positive, which Load does not
\* check, the settings that Load lets pass make no goroutine panic.
THEOREM SettingsAreSound == Spec => []NoPanic
<1>1. Init => SoundInv
  <2>1. Init => \A e \in Exporters : Sound(e)
    BY DEF Init, Sound
  <2> QED BY <2>1, TypeInit DEF SoundInv
<1>2. SoundInv => NoPanic
  BY DEF SoundInv, Sound, NoPanic
<1> QED BY <1>1, <1>2, SoundNext, PTL DEF Spec

-----------------------------------------------------------------------------
(* The schema                                                              *)

SchemaInv == TypeInv /\ Settled

\* Every fact of the schema is there once all statements have been run.
LEMMA AllSettled ==
    ASSUME Certain(Len(Statements) + 1) \subseteq db
    PROVE  Facts \subseteq db
<1>1. Len(Statements) \in Nat /\ DOMAIN Statements = 1 .. Len(Statements)
  BY SchemaAssumption
<1>2. ASSUME NEW i \in DOMAIN Statements, NEW f \in Statements[i].gives,
             Statements[i].kind = "create" => f \notin Altered
      PROVE  f \in db
  <2>1. i \in 1 .. (Len(Statements) + 1) - 1
    BY <1>1
  <2> QED BY <1>2, <2>1 DEF Certain
<1>3. Altered \subseteq db
  BY <1>2 DEF Altered
<1> QED BY <1>2, <1>3 DEF Facts

\* A statement at its turn keeps what objects lack, and sees to what it gives.
LEMMA StatementEffect ==
    ASSUME SchemaInv, NEW i \in 1 .. Len(Statements), Certain(i) \subseteq db, db' = Effect(Statements[i])
    PROVE  /\ db \subseteq db'
           /\ Solid(db')
           /\ InsertsGoThrough'
           /\ Certain(i + 1) \subseteq db'
<1> DEFINE s == Statements[i]
<1>1. Len(Statements) \in Nat /\ i \in DOMAIN Statements /\ i \in Nat
  BY SchemaAssumption
<1>2. db \subseteq db' /\ db' \subseteq db \cup s.gives
  BY DEF Effect
<1>3. s.gives \subseteq Facts
  BY <1>1 DEF Facts
<1>4. \A f \in s.gives : f[1] = s.object
  BY <1>1, SchemaAssumption
<1>5. \A f \in Facts : Base(f[1]) \in s.gives => f \in s.gives \cup Altered
  BY <1>1, SchemaAssumption
<1>6. \A f \in Facts : Base(f[1]) \in db => f \in db \cup Altered
  BY DEF SchemaInv, Settled, Solid
<1>7. CASE db' = db
  <2>1. s.kind = "create" => s.gives \subseteq db \cup Altered
    <3>1. CASE Base(s.object) \in db
      BY <1>3, <1>4, <1>6, <3>1
    <3>2. CASE ~(Base(s.object) \in db)
      BY <1>7, <3>2 DEF Effect
    <3> QED BY <3>1, <3>2
  <2>2. s.kind # "create" => s.gives \subseteq db
    BY <1>7 DEF Effect
  <2>3. s.gives \ (IF s.kind = "create" THEN Altered ELSE {}) \subseteq db
    BY <2>1, <2>2
  <2>4. \A j \in 1 .. (i + 1) - 1 : j = i \/ j \in 1 .. i - 1
    BY <1>1
  <2>5. Certain(i + 1) \subseteq db
    BY <2>3, <2>4 DEF Certain
  <2>6. Solid(db') /\ InsertsGoThrough'
    BY <1>6, <1>7 DEF SchemaInv, Settled, Solid, InsertsGoThrough
  <2> QED BY <1>7, <2>5, <2>6
<1>8. CASE db' = db \cup s.gives
  <2>1. Solid(db')
    <3>1. ASSUME NEW f \in Facts, Base(f[1]) \in db' PROVE f \in db' \cup Altered
      BY <1>5, <1>6, <1>8, <3>1
    <3> QED BY <3>1 DEF Solid
  <2>2. InsertsGoThrough'
    <3>1. ASSUME NEW q \in Queries, <<q.view, "query">> \in db' PROVE q.uses \subseteq db'
      <4>1. CASE <<q.view, "query">> \in db
        BY <1>2, <4>1 DEF SchemaInv, Settled, InsertsGoThrough
      <4>2. CASE <<q.view, "query">> \in s.gives
        <5>1. q.uses \subseteq Certain(i)
          BY <1>1, <4>2, OrderAssumption
        <5> QED BY <1>2, <5>1
      <4> QED BY <1>8, <3>1, <4>1, <4>2
    <3> QED BY <3>1 DEF InsertsGoThrough
  <2>3. \A j \in 1 .. (i + 1) - 1 : j = i \/ j \in 1 .. i - 1
    BY <1>1
  <2>4. Certain(i + 1) \subseteq Certain(i) \cup s.gives
    BY <2>3 DEF Certain
  <2> QED BY <1>2, <1>8, <2>1, <2>2, <2>4
<1> QED BY <1>7, <1>8 DEF Effect

LEMMA NothingCertain == Certain(1) = {}
BY DEF Certain

\* The statement a process is at.
LEMMA AtStatement ==
    ASSUME SchemaInv, NEW e \in Exporters, pc[e] = "schema"
    PROVE  next[e] \in 1 .. Len(Statements) /\ Certain(next[e]) \subseteq db
BY LengthIsNat DEF SchemaInv, TypeInv, TypeOK, Settled

LEMMA SchemaKept ==
    ASSUME SchemaInv, NEW e \in Exporters, Acts(e)
    PROVE  /\ db \subseteq db' /\ Solid(db') /\ InsertsGoThrough'
           /\ Certain(next'[e]) \subseteq db'
<1>0. TypeInv /\ Solid(db) /\ InsertsGoThrough /\ Certain(next[e]) \subseteq db
  BY DEF SchemaInv, Settled
<1>1. ASSUME db' = db PROVE Solid(db') /\ InsertsGoThrough'
  BY <1>0, <1>1 DEF Solid, InsertsGoThrough
<1>2. ASSUME NEW how, End(e, how) PROVE Certain(next'[e]) = {}
  BY <1>0, <1>2, EndEffect, NothingCertain
<1>3. CASE ApplyStatement(e)
  <2>1. pc[e] = "schema" /\ db' = Effect(Statements[next[e]]) /\ next'[e] = next[e] + 1
    BY <1>0, <1>3 DEF ApplyStatement, TypeInv, TypeOK
  <2> QED BY <1>0, <2>1, AtStatement, StatementEffect
<1>4. CASE StatementFails(e)
  <2>1. Certain(next'[e]) = {} /\ pc[e] = "schema"
    BY <1>2, <1>4 DEF StatementFails
  <2>2. CASE db' = db
    BY <1>1, <2>1, <2>2
  <2>3. CASE db' = Effect(Statements[next[e]])
    BY <1>0, <2>1, <2>3, AtStatement, StatementEffect
  <2> QED BY <1>4, <2>2, <2>3 DEF StatementFails
<1>5. ASSUME db' = db, next'[e] = next[e] \/ Certain(next'[e]) = {}
      PROVE  /\ db \subseteq db' /\ Solid(db') /\ InsertsGoThrough'
             /\ Certain(next'[e]) \subseteq db'
  BY <1>0, <1>1, <1>5
<1>6. CASE Signal(e) \/ Kill(e)
  BY <1>2, <1>5, <1>6 DEF Signal, Kill
<1>7. CASE Boot(e) \/ WaitForClickHouse(e) \/ Connect(e) \/ OpenRedis(e) \/ WaitForRedis(e)
  BY <1>2, <1>5, <1>7 DEF Boot, WaitForClickHouse, WaitForRedis, WaitCancelled, Connect, OpenRedis, world
<1>8. CASE Work(e) \/ \E w \in Workers : EndBlockedRead(e, w)
  BY <1>2, <1>5, <1>8
     DEF Work, StartWorker, StartSyncer, EnterLoop, SendError, EndTask, EndBlockedRead, world
<1>9. CASE SeeDone(e) \/ ReceiveError(e) \/ Return(e) \/ Exit(e)
  BY <1>2, <1>5, <1>9 DEF SeeDone, ReceiveError, Return, Exit, world
<1> QED BY <1>3, <1>4, <1>6, <1>7, <1>8, <1>9 DEF Acts, Run

LEMMA SchemaNext == SchemaInv /\ [Next]_vars => SchemaInv'
<1> SUFFICES ASSUME SchemaInv, [Next]_vars PROVE SchemaInv'
  OBVIOUS
<1>1. TypeInv /\ TypeInv' /\ Settled
  BY TypeNext DEF SchemaInv
<1>2. CASE Waits
  BY <1>1, <1>2 DEF SchemaInv, Settled, Solid, InsertsGoThrough, Waits, process
<1>3. ASSUME NEW e \in Exporters, Acts(e) PROVE SchemaInv'
  <2>1. db \subseteq db' /\ Solid(db') /\ InsertsGoThrough' /\ Certain(next'[e]) \subseteq db'
    BY <1>3, SchemaKept
  <2>2. ASSUME NEW x \in Exporters \ {e} PROVE Certain(next'[x]) \subseteq db'
    BY <1>1, <1>3, <2>1, ActsFrame DEF Still, Settled
  <2> QED BY <1>1, <2>1, <2>2 DEF SchemaInv, Settled
<1> QED BY <1>1, <1>2, <1>3, Steps

LEMMA SchemaInit == Init => SchemaInv
<1> SUFFICES ASSUME Init PROVE SchemaInv
  OBVIOUS
<1>1. db \in Databases /\ \A e \in Exporters : next[e] = 1
  BY DEF Init
<1>2. Solid(db)
  BY <1>1, SchemaAssumption DEF Solid
<1>3. InsertsGoThrough
  BY <1>1, OrderAssumption DEF InsertsGoThrough
<1> QED BY <1>1, <1>2, <1>3, TypeInit, NothingCertain DEF SchemaInv, Settled

\* schema.go:22-24: the streams are only served on the whole schema of this
\* version, whatever was there before and however the replicas took turns.
THEOREM ServedOnWholeSchema == Spec => []ServedDatabase
<1>1. ASSUME SchemaInv, NEW e \in Exporters, InUse(e) PROVE Facts \subseteq db
  <2>1. pc[e] \in Serves
    BY <1>1, InUseServes DEF InUse, SchemaInv
  <2>2. next[e] = Len(Statements) + 1
    BY <1>1, <2>1 DEF SchemaInv, TypeInv, Placed, Starts, Serves
  <2>3. Certain(Len(Statements) + 1) \subseteq db
    BY <1>1, <2>2 DEF SchemaInv, Settled
  <2> QED BY <2>3, AllSettled
<1>2. SchemaInv => ServedDatabase
  BY <1>1 DEF ServedDatabase
<1> QED BY <1>2, SchemaInit, SchemaNext, PTL DEF Spec

\* 01_tables.sql:165-168, 02_rollups.sql:105-108: every statement finds what it
\* refers to when its turn comes.
THEOREM StatementsAlwaysApply == Spec => []StatementsApply
<1>1. ASSUME SchemaInv, NEW e \in Exporters, pc[e] = "schema" PROVE Runnable(Statements[next[e]])
  <2>1. next[e] \in DOMAIN Statements /\ Certain(next[e]) \subseteq db
    BY <1>1, AtStatement, SchemaAssumption
  <2> QED BY <2>1, OrderAssumption DEF Runnable
<1>2. SchemaInv => StatementsApply
  BY <1>1 DEF StatementsApply
<1> QED BY <1>2, SchemaInit, SchemaNext, PTL DEF Spec

\* 01_tables.sql:165-168, 02_rollups.sql:48-49: an older replica's inserts pass
\* the views at every point of an upgrade.
THEOREM OldInsertsGoThrough == Spec => []InsertsGoThrough
<1>1. SchemaInv => InsertsGoThrough
  BY DEF SchemaInv, Settled
<1> QED BY <1>1, SchemaInit, SchemaNext, PTL DEF Spec

-----------------------------------------------------------------------------
(* What shutdown comes to an end by                                        *)

\* The stages of run towards the end of the process.
Rank(stage) ==
    CASE stage \in {"clickhouse", "connect", "schema", "redisURL"} -> 0
      [] stage = "redis"                                           -> 1
      [] stage = "serving"                                         -> 2
      [] stage \in {"stopping", "failing"}                         -> 3
      [] stage = "returned"                                        -> 4
      [] stage = "down"                                            -> 5

\* The states of a goroutine towards its end.
Phase(state) ==
    CASE state = "off"                     -> 0
      [] state = "starting"                -> 1
      [] state \in {"running", "sending"}  -> 2
      [] state = "gone"                    -> 3

GoesOn(e, g) ==
    /\ Phase(task[e][g]) < Phase(task'[e][g])
    /\ \A h \in Goroutines \ {g} : task'[e][h] = task[e][h]

\* Once ctx is done, each step of a process but another signal takes run to a
\* later stage or one goroutine on, and nothing back: there are finitely many.
ShutdownAdvances ==
    [][\A e \in Exporters : cancelled[e] =>
         \/ Still(e) \/ Signal(e)
         \/ Rank(pc[e]) < Rank(pc'[e])
         \/ pc'[e] = pc[e] /\ \E g \in Goroutines : GoesOn(e, g)]_vars

\* main.go:154-155: while run waits, every goroutine has returned or one of them
\* has a step to take: none waits for another, nor for room for its error.
WaitEnds ==
    \A e \in Exporters : pc[e] \in {"stopping", "failing"} =>
        \/ \A g \in Goroutines : task[e][g] = "gone"
        \/ \E g \in Goroutines : task[e][g] = "running" /\ cancelled[e]
        \/ \E g \in Workers \cup {"syncer"} : task[e][g] = "starting"
        \/ \E w \in Workers : task[e][w] = "sending" /\ Cardinality(errs[e]) < Capacity

\* Which goroutines there are, and what they can be at.
Manned(e) ==
    /\ pc[e] \in Serves => \A g \in Goroutines : task[e][g] # "off"
    /\ task[e]["watch"] \notin {"starting", "sending"} /\ task[e]["syncer"] # "sending"
    /\ pc[e] \in {"stopping", "failing"} => cancelled[e]

MannedInv == ErrorInv /\ \A e \in Exporters : Manned(e)

\* A process that is down has no goroutines.
LEMMA MannedAfterEnd ==
    ASSUME TypeInv, NEW e \in Exporters, NEW how, End(e, how)
    PROVE  Manned(e)'
<1>1. "watch" \in Goroutines /\ "syncer" \in Goroutines
  BY DEF Goroutines
<1> QED BY <1>1, EndEffect DEF Manned, NoTasks, Serves

\* A goroutine that goes on is there, and only workers send.
LEMMA MannedAfterBecome ==
    ASSUME TypeInv, NEW e \in Exporters, Manned(e), NEW g \in Goroutines,
           NEW state \in {"running", "sending", "gone"}, Become(e, g, state), state = "sending" => g \in Workers,
           pc' = pc, cancelled' = cancelled
    PROVE  Manned(e)'
<1>1. task'[e] = [task[e] EXCEPT ![g] = state] /\ DOMAIN task[e] = Goroutines
  BY DEF Become, TypeInv, TypeOK
<1>2. "watch" \in Goroutines /\ "syncer" \in Goroutines /\ "watch" \notin Workers /\ "syncer" \notin Workers
  BY WorkersAssumption DEF Goroutines
<1> QED BY <1>1, <1>2 DEF Manned

\* Every step of a process keeps it manned.
LEMMA MannedKept ==
    ASSUME MannedInv, NEW e \in Exporters, Acts(e)
    PROVE  Manned(e)'
<1>0. TypeInv /\ Manned(e) /\ Placed(e)
  BY DEF MannedInv, ErrorInv, TypeInv
<1>1. Workers \subseteq Goroutines /\ "syncer" \in Goroutines /\ "watch" \in Goroutines
  BY DEF Goroutines
<1>2. CASE Signal(e)
  BY <1>0, <1>2 DEF Signal, Manned, TypeInv, TypeOK
<1>3. CASE Kill(e)
  BY <1>0, <1>3, MannedAfterEnd DEF Kill
<1>4. CASE Boot(e) \/ WaitForClickHouse(e) \/ Connect(e) \/ ApplyStatement(e) \/ StatementFails(e) \/ OpenRedis(e)
  <2>1. CASE task' = task /\ pc'[e] \notin Serves
    BY <1>0, <2>1 DEF Manned, Serves
  <2>2. CASE \E how : End(e, how)
    BY <1>0, <2>2, MannedAfterEnd
  <2> QED
    BY <1>0, <1>4, <2>1, <2>2
       DEF Boot, WaitForClickHouse, WaitCancelled, Connect, ApplyStatement, StatementFails, OpenRedis, GoTo,
           Serves, TypeInv, TypeOK
<1>5. CASE WaitForRedis(e)
  <2>1. CASE GoTo(e, "serving") /\ task' = [task EXCEPT ![e] = Started]
    <3>1. task'[e] = Started /\ pc'[e] = "serving"
      BY <1>0, <2>1 DEF GoTo, TypeInv, TypeOK
    <3> QED BY <1>1, <3>1 DEF Manned, Started
  <2> QED BY <1>0, <1>5, <2>1, MannedAfterEnd DEF WaitForRedis, WaitCancelled
<1>6. ASSUME NEW w \in Workers, StartWorker(e, w) \/ SendError(e, w) \/ EndBlockedRead(e, w)
      PROVE  Manned(e)'
  BY <1>0, <1>1, <1>6, MannedAfterEnd, MannedAfterBecome
     DEF StartWorker, SendError, EndBlockedRead, EnterLoop
<1>7. CASE StartSyncer(e)
  BY <1>0, <1>1, <1>7, MannedAfterEnd, MannedAfterBecome DEF StartSyncer, EnterLoop
<1>8. ASSUME NEW g \in Goroutines, EndTask(e, g) PROVE Manned(e)'
  BY <1>0, <1>8, MannedAfterBecome DEF EndTask
<1>9. CASE SeeDone(e) \/ ReceiveError(e) \/ Return(e)
  BY <1>0, <1>9 DEF SeeDone, ReceiveError, Return, GoTo, Manned, Serves, TypeInv, TypeOK
<1>10. CASE Exit(e)
  BY <1>0, <1>10, MannedAfterEnd DEF Exit
<1> QED BY <1>2, <1>3, <1>4, <1>5, <1>6, <1>7, <1>8, <1>9, <1>10 DEF Acts, Run, Work

\* At first every process is down.
LEMMA MannedInit == Init => MannedInv
<1> SUFFICES ASSUME Init PROVE MannedInv
  OBVIOUS
<1>1. \A e \in Exporters : Manned(e)
  BY DEF Init, Manned, NoTasks, Serves, Goroutines
<1> QED BY <1>1, ErrorInit DEF MannedInv

\* Every step keeps every process manned.
LEMMA MannedNext == MannedInv /\ [Next]_vars => MannedInv'
<1> SUFFICES ASSUME MannedInv, [Next]_vars PROVE MannedInv'
  OBVIOUS
<1>1. TypeInv /\ ErrorInv'
  BY ErrorNext DEF MannedInv, ErrorInv
<1>2. CASE Waits
  BY <1>1, <1>2 DEF MannedInv, Manned, Waits, process
<1>3. ASSUME NEW e \in Exporters, Acts(e) PROVE MannedInv'
  <2>1. Manned(e)'
    BY <1>3, MannedKept
  <2>2. ASSUME NEW x \in Exporters \ {e} PROVE Manned(x)'
    BY <1>1, <1>3, ActsFrame DEF Still, MannedInv, Manned
  <2> QED BY <1>1, <2>1, <2>2 DEF MannedInv
<1> QED BY <1>1, <1>2, <1>3, Steps

\* main.go:154-155: wg.Wait is never stuck.
THEOREM WaitIsNeverStuck == Spec => []WaitEnds
<1>1. ASSUME MannedInv, NEW e \in Exporters, pc[e] \in {"stopping", "failing"},
             NEW g \in Goroutines, task[e][g] # "gone"
      PROVE  \/ \E h \in Goroutines : task[e][h] = "running" /\ cancelled[e]
             \/ \E h \in Workers \cup {"syncer"} : task[e][h] = "starting"
             \/ \E w \in Workers : task[e][w] = "sending" /\ Cardinality(errs[e]) < Capacity
  <2>1. ErrorInv /\ Manned(e) /\ task[e][g] \in {"off", "starting", "running", "sending", "gone"}
    BY <1>1 DEF MannedInv, ErrorInv, TypeInv, TypeOK
  <2>2. task[e][g] \in {"starting", "running", "sending"} /\ cancelled[e]
    BY <1>1, <2>1 DEF Manned, Serves
  <2>3. task[e][g] = "starting" => g \in Workers \cup {"syncer"}
    BY <2>1 DEF Manned, Goroutines
  <2>4. task[e][g] = "sending" => g \in Workers
    BY <2>1 DEF Manned, Goroutines
  <2>5. NobodyStuckSending
    BY <2>1, RoomForErrors
  <2> QED BY <1>1, <2>2, <2>3, <2>4, <2>5 DEF NobodyStuckSending
<1>2. MannedInv => WaitEnds
  BY <1>1 DEF WaitEnds
<1> QED BY <1>2, MannedInit, MannedNext, PTL DEF Spec

\* One step of a process whose ctx is done.
LEMMA DoneStep ==
    ASSUME TypeInv, NEW e \in Exporters, cancelled[e], pc[e] # "down", Acts(e)
    PROVE  \/ Signal(e)
           \/ Rank(pc[e]) < Rank(pc'[e])
           \/ pc'[e] = pc[e] /\ \E g \in Goroutines : GoesOn(e, g)
<1>1. ASSUME NEW how, End(e, how) PROVE Rank(pc[e]) < Rank(pc'[e])
  <2>1. pc'[e] = "down" /\ pc[e] \in Stages \ {"down"}
    BY <1>1, EndEffect DEF TypeInv, TypeOK
  <2> QED BY <2>1 DEF Rank, Stages
<1>2. CASE Kill(e) \/ WaitForClickHouse(e) \/ Connect(e) \/ ApplyStatement(e) \/ StatementFails(e)
           \/ WaitForRedis(e) \/ Exit(e) \/ Boot(e)
  BY <1>1, <1>2 DEF Kill, WaitForClickHouse, WaitCancelled, Connect, ApplyStatement, StatementFails,
                    WaitForRedis, Exit, Boot, Fails
<1>3. CASE OpenRedis(e)
  <2>1. CASE GoTo(e, "redis")
    <3>1. pc[e] = "redisURL" /\ pc'[e] = "redis"
      BY <1>3, <2>1 DEF OpenRedis, GoTo, TypeInv, TypeOK
    <3> QED BY <3>1 DEF Rank
  <2> QED BY <1>1, <1>3, <2>1 DEF OpenRedis
<1>4. CASE SeeDone(e) \/ ReceiveError(e) \/ Return(e)
  BY <1>4 DEF SeeDone, ReceiveError, Return, GoTo, Rank, TypeInv, TypeOK
<1>5. ASSUME NEW g \in Goroutines, NEW state, Become(e, g, state), Phase(task[e][g]) < Phase(state), pc' = pc
      PROVE  pc'[e] = pc[e] /\ \E h \in Goroutines : GoesOn(e, h)
  <2>1. task'[e] = [task[e] EXCEPT ![g] = state] /\ DOMAIN task[e] = Goroutines
    BY <1>5 DEF Become, TypeInv, TypeOK
  <2>2. GoesOn(e, g)
    BY <1>5, <2>1 DEF GoesOn
  <2> QED BY <1>5, <2>2
<1>6. Workers \subseteq Goroutines /\ "syncer" \in Goroutines
  BY DEF Goroutines
<1>7. /\ Phase("starting") < Phase("running") /\ Phase("starting") < Phase("sending")
      /\ Phase("running") < Phase("gone") /\ Phase("sending") < Phase("gone")
  BY DEF Phase
<1>8. ASSUME NEW w \in Workers, StartWorker(e, w) \/ SendError(e, w) \/ EndBlockedRead(e, w)
      PROVE  Rank(pc[e]) < Rank(pc'[e]) \/ (pc'[e] = pc[e] /\ \E g \in Goroutines : GoesOn(e, g))
  BY <1>1, <1>5, <1>6, <1>7, <1>8 DEF StartWorker, SendError, EndBlockedRead, EnterLoop
<1>9. CASE StartSyncer(e)
  BY <1>1, <1>5, <1>6, <1>7, <1>9 DEF StartSyncer, EnterLoop
<1>10. ASSUME NEW g \in Goroutines, EndTask(e, g)
       PROVE  pc'[e] = pc[e] /\ \E h \in Goroutines : GoesOn(e, h)
  BY <1>5, <1>7, <1>10 DEF EndTask
<1> QED BY <1>2, <1>3, <1>4, <1>8, <1>9, <1>10 DEF Acts, Run, Work

\* main.go:154-164: after ctx is done a process only has steps towards its end,
\* and finitely many of them.
THEOREM ShutdownIsBounded == Spec => ShutdownAdvances
<1>1. ASSUME AskedInv, [Next]_vars, NEW e \in Exporters, cancelled[e]
      PROVE  \/ Still(e) \/ Signal(e)
             \/ Rank(pc[e]) < Rank(pc'[e])
             \/ pc'[e] = pc[e] /\ \E g \in Goroutines : GoesOn(e, g)
  <2>1. TypeInv /\ pc[e] # "down"
    BY <1>1 DEF AskedInv, Asked
  <2>2. CASE Waits
    BY <2>2 DEF Waits, process, Still
  <2>3. CASE Acts(e)
    BY <1>1, <2>1, <2>3, DoneStep
  <2>4. ASSUME NEW x \in Exporters, x # e, Acts(x) PROVE Still(e)
    BY <2>1, <2>4, ActsFrame
  <2> QED BY <1>1, <2>1, <2>2, <2>3, <2>4, Steps
<1>2. AskedInv /\ [Next]_vars =>
        [\A e \in Exporters : cancelled[e] =>
           \/ Still(e) \/ Signal(e)
           \/ Rank(pc[e]) < Rank(pc'[e])
           \/ pc'[e] = pc[e] /\ \E g \in Goroutines : GoesOn(e, g)]_vars
  BY <1>1
<1> QED BY <1>2, AskedInit, AskedNext, PTL DEF Spec, ShutdownAdvances
=============================================================================
