---------------------------- MODULE MCLifecycle -----------------------------
(* Instances of Lifecycle for TLC. *)
EXTENDS Lifecycle, Schema

\* A new database, and one from before everything that was added since.
MCDatabases == {{}, LeftWithout({"responses", "infra", "profiles", "sources"})}

\* The defaults, and settings that are off, unreadable or out of range.
MCEnvironments ==
    { [RedisBatch |-> <<>>],
      [RedisBlock |-> <<0>>, GeoIPReload |-> <<0>>],
      [DictRefresh |-> <<0>>],
      [ClickHouseAddrs |-> <<"", "">>] }
=============================================================================
