------------------------------- MODULE Schema -------------------------------
(***************************************************************************)
(* The ClickHouse schema and the statements that bring a database up to it *)
(* (internal/schema). A database is a set of facts <<object, column>>: an  *)
(* object that exists has the fact "base", which stands for all the columns*)
(* every version knows; the columns later versions added have facts of     *)
(* their own, and a view has the fact "query" when it carries the query of *)
(* this version.                                                           *)
(*                                                                         *)
(* A statement needs some facts (ClickHouse analyses what a query reads)   *)
(* and gives some; nothing takes a fact away.                              *)
(***************************************************************************)
EXTENDS Naturals, Sequences, Functions

LOCAL Of(object, columns) == {object} \X columns

\* CREATE TABLE IF NOT EXISTS: nothing happens to a table that exists, so its
\* new columns come from AddColumn.
CreateTable(table, columns) ==
    [kind |-> "create", object |-> table, gives |-> Of(table, {"base"} \cup columns), needs |-> {}]

AddColumn(table, columns) ==
    [kind |-> "alter", object |-> table, gives |-> Of(table, columns), needs |-> Of(table, {"base"})]

\* CREATE MATERIALIZED VIEW IF NOT EXISTS: its SELECT is analysed against source
\* and target even when the view exists (02_rollups.sql:105-108).
CreateRollup(view, reads, writes) ==
    [kind |-> "create", object |-> view, gives |-> Of(view, {"base", "query"}), needs |-> reads \cup writes]

\* ALTER ... MODIFY QUERY replaces the query of an existing view. That it checks
\* the target, too, is not relied on.
ModifyQuery(view, reads) ==
    [kind |-> "alter", object |-> view, gives |-> Of(view, {"query"}), needs |-> Of(view, {"base"}) \cup reads]

\* CREATE OR REPLACE VIEW.
ReplaceView(view, reads) ==
    [kind |-> "alter", object |-> view, gives |-> Of(view, {"base", "query"}), needs |-> reads]

\* What the rollups read and write.
UsageReads  == Of("user_usage", {"base"})
UsageWrites == Of("usage_5m", {"base"})
ConnReads   == Of("node_connections", {"base", "is_infra"})
ConnWrites  == Of("user_conn_5m", {"base", "infra_ips"})
SubReads    == Of("sub_requests", {"base", "srr_response_type"})
SubWrites   == Of("sub_req_5m", {"base", "blocked"})

Tables ==
    << CreateTable("user_usage", {}),
       CreateTable("sub_requests", {"srr_response_type", "srr_rule_name"}),
       CreateTable("node_connections", {"is_infra"}),
       CreateTable("torrent_reports", {}),
       CreateTable("dim_users", {"profile"}),
       CreateTable("dim_nodes", {"address"}),
       CreateTable("dim_hwid_devices", {}),
       AddColumn("sub_requests", {"srr_response_type"}),
       AddColumn("sub_requests", {"srr_rule_name"}),
       AddColumn("node_connections", {"is_infra"}),
       AddColumn("dim_users", {"profile"}),
       AddColumn("dim_nodes", {"address"}) >>

Rollups ==
    << CreateTable("usage_5m", {}),
       CreateRollup("usage_5m_mv", UsageReads, UsageWrites),
       CreateTable("user_conn_5m", {"infra_ips"}),
       AddColumn("user_conn_5m", {"infra_ips"}),
       CreateRollup("user_conn_5m_mv", ConnReads, ConnWrites),
       ModifyQuery("user_conn_5m_mv", ConnReads),
       CreateTable("sub_req_5m", {"blocked"}),
       AddColumn("sub_req_5m", {"blocked"}),
       CreateRollup("sub_req_5m_mv", SubReads, SubWrites),
       ModifyQuery("sub_req_5m_mv", SubReads) >>

LOCAL UserNames == Of("v_users", {"query"})
LOCAL Names == UserNames \cup Of("v_nodes", {"query"})

Views ==
    << ReplaceView("v_users", Of("dim_users", {"base", "profile"})),
       ReplaceView("v_nodes", Of("dim_nodes", {"base", "address"})),
       ReplaceView("v_hwid_devices", Of("dim_hwid_devices", {"base"})),
       ReplaceView("v_usage", UsageWrites \cup Names),
       ReplaceView("v_connections", ConnReads \cup Names),
       ReplaceView("v_torrent_reports", Of("torrent_reports", {"base"}) \cup Names),
       ReplaceView("v_sub_requests", SubReads \cup Of("sub_requests", {"srr_rule_name"}) \cup UserNames),
       ReplaceView("v_user_abuse", UsageWrites \cup ConnWrites \cup SubWrites \cup UserNames
                       \cup Of("torrent_reports", {"base"}) \cup Of("v_hwid_devices", {"query"})) >>

\* The files in the order of their names.
SchemaStatements == Tables \o Rollups \o Views

\* The rollups by what their query of this version reads and writes.
RollupQueries ==
    {[view |-> "usage_5m_mv", uses |-> UsageReads \cup UsageWrites],
     [view |-> "user_conn_5m_mv", uses |-> ConnReads \cup ConnWrites],
     [view |-> "sub_req_5m_mv", uses |-> SubReads \cup SubWrites]}

-----------------------------------------------------------------------------
(* What an older exporter may have left.                                   *)

Current == UNION {s.gives : s \in Range(SchemaStatements)}

\* Facts that came with a feature: the columns of its ALTERs and the queries
\* that use them, or whole tables.
Since(feature) ==
    CASE feature = "responses"  -> Of("sub_requests", {"srr_response_type", "srr_rule_name"})
                                       \cup Of("sub_req_5m", {"blocked"})
                                       \cup {<<v, "query">> : v \in {"sub_req_5m_mv", "v_sub_requests", "v_user_abuse"}}
      [] feature = "infra"      -> Of("node_connections", {"is_infra"})
                                       \cup Of("user_conn_5m", {"infra_ips"})
                                       \cup {<<v, "query">> : v \in {"user_conn_5m_mv", "v_connections", "v_user_abuse"}}
      [] feature = "profiles"   -> Of("dim_users", {"profile"}) \cup Of("dim_nodes", {"address"})
                                       \cup Names \cup Of("v_user_abuse", {"query"})
      [] feature = "sources"    -> {f \in Current : f[1] \in {"torrent_reports", "v_torrent_reports",
                                                              "dim_hwid_devices", "v_hwid_devices"}}
                                       \cup Of("v_user_abuse", {"query"})

LeftWithout(features) == Current \ UNION {Since(f) : f \in features}
=============================================================================
