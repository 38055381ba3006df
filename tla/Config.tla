------------------------------- MODULE Config -------------------------------
(***************************************************************************)
(* The settings of the exporter (internal/config) that decide whether it   *)
(* starts and what its goroutines do. An environment is a record of the    *)
(* variables that are set, by the name of the field of Config they set:    *)
(* <<n>> where the text reads as the number n (durations in seconds), and  *)
(* <<>> where it reads as none. CLICKHOUSE_ADDR is the sequence of its     *)
(* parts between commas, and of REDIS_URL only matters if it is well       *)
(* formed.                                                                 *)
(***************************************************************************)
EXTENDS Integers, Sequences

\* env, envInt, envDuration: a variable that is not set, is empty or cannot be
\* parsed leaves the default, without an error.
Setting(environment, field, default) ==
    IF field \in DOMAIN environment /\ environment[field] # <<>>
    THEN environment[field][1] ELSE default

\* envList: blank parts are dropped, all of them if need be.
Addresses(environment) ==
    IF "ClickHouseAddrs" \in DOMAIN environment /\ environment.ClickHouseAddrs # <<"">>
    THEN SelectSeq(environment.ClickHouseAddrs, LAMBDA part : part # "")
    ELSE <<"clickhouse:9000">>

ParseEnvironment(environment) ==
    [RedisURL        |-> IF "RedisURL" \in DOMAIN environment THEN environment.RedisURL ELSE "wellFormed",
     RedisBatch      |-> Setting(environment, "RedisBatch", 500),
     RedisBlock      |-> Setting(environment, "RedisBlock", 5),
     ClaimMinIdle    |-> Setting(environment, "ClaimMinIdle", 60),
     ClickHouseAddrs |-> Addresses(environment),
     FlushInterval   |-> Setting(environment, "FlushInterval", 5),
     FlushMaxRows    |-> Setting(environment, "FlushMaxRows", 50000),
     GeoIPReload     |-> Setting(environment, "GeoIPReload", 21600),
     DictRefresh     |-> Setting(environment, "DictRefresh", 300),
     TorrentPoll     |-> Setting(environment, "TorrentPoll", 60)]

\* What Load checks; REDIS_CLAIM_MIN_IDLE and REDIS_BLOCK are not among it.
Accepted(c) ==
    /\ c.RedisBatch > 0
    /\ c.FlushMaxRows > 0
    /\ c.FlushInterval > 0
    /\ c.ClickHouseAddrs # <<>>
    /\ c.DictRefresh > 0
    /\ c.TorrentPoll > 0
=============================================================================
