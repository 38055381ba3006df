------------------------------ MODULE Decoders ------------------------------
(***************************************************************************)
(* The decoders of the three streams (internal/consumer/handlers.go). A    *)
(* panel of some version writes a message as an entry; the entry may be    *)
(* spoilt; a worker decodes it, perhaps more than once. A snapshot is      *)
(* decoded row by row while the node refresh replaces the own-address set  *)
(* and the resolver its readers.                                           *)
(*                                                                         *)
(* A message is a record with its stream and the texts the panel means. Of *)
(* node_connections it has the users, and what was seen as a sequence of   *)
(* [user, ip, seen].                                                       *)
(***************************************************************************)
EXTENDS Enrichment

CONSTANTS
    Messages, \* what the panel may publish
    OwnTexts, \* the address lists a node refresh may find
    Readers   \* the pairs of readers, see Lookup

VARIABLES
    message, \* the message the entry stands for, or none
    written, \* history: the version of the panel that wrote it
    entry,   \* the fields of the entry
    spoilt,  \* history: whether the entry is not as the panel wrote it
    lost,    \* history: which records or users of it were emptied
    own,     \* Syncer.infra
    geo,     \* the readers of Resolver
    at,      \* where Decode is
    parsed,  \* rows still to be enriched
    rows,    \* rows that are
    swapped  \* history: own or geo were replaced during this Decode

input == <<message, written, entry, spoilt, lost>>
sources == <<own, geo>>
decode == <<at, parsed, rows, swapped>>
vars == <<input, sources, decode>>

NoMessage == [stream |-> "none"]
Versions == {"3.0.0", "3.1.0", "3.4.4"}

-----------------------------------------------------------------------------
(* The panel                                                               *)

SeenOf(m, user) ==
    Seqs!FlattenSeq([k \in DOMAIN m.seen |-> IF m.seen[k].user = user THEN <<m.seen[k]>> ELSE <<>>])

Grouped(m) ==
    [i \in DOMAIN m.users |->
        LET its == SeenOf(m, m.users[i])
        IN  [userId |-> m.users[i], ips |-> [j \in DOMAIN its |-> [ip |-> its[j].ip, lastSeen |-> its[j].seen]]]]

\* 3.0.0 knows no response rules; 3.1.0 misspells the type, see model.go:227-230.
Fields(m, version) ==
    CASE m.stream = "user_usage" ->
            [v |-> Numeral(1), nodeId |-> m.node, ts |-> m.ts, records |-> Packed(m.records)]
      [] m.stream = "sub_requests" ->
            [v |-> Numeral(1), userId |-> m.user, requestAt |-> m.ts, requestIp |-> m.ip, userAgent |-> m.agent,
             srrResponseType |-> IF version = "3.4.4" THEN m.response ELSE Empty,
             ssrResponseType |-> IF version = "3.1.0" THEN m.response ELSE Empty,
             srrRuleName |-> IF version = "3.0.0" THEN Empty ELSE m.rule]
      [] m.stream = "node_connections" ->
            [v |-> Numeral(1), nodeId |-> m.node, ts |-> m.ts, users |-> Json(Grouped(m))]

\* The panel omits the fields it has nothing to say in.
Encode(m, version) == RestrictValues(Fields(m, version), LAMBDA text : text # Empty)

\* What the panel may mean: a report has at least one record, a snapshot lists
\* what was seen user by user, in the order of the users.
MessagesAssumption ==
    \A m \in Messages :
        /\ IsTime(m.ts)
        /\ \/ /\ m.stream = "user_usage"
              /\ m.node \in Uints
              /\ m.records \in Seq(Uints \X Uints) \ {<<>>}
           \/ /\ m.stream = "sub_requests"
              /\ m.user \in Uints
              /\ Reads(m.agent, "agent") => m.agent[2] \subseteq Range(Rules)
           \/ /\ m.stream = "node_connections"
              /\ m.node \in Uints
              /\ m.users \in Seq(Uints)
              /\ m.seen \in Seq(Range(m.seen))
              /\ m.seen = Seqs!FlattenSeq([i \in DOMAIN m.users |-> SeenOf(m, m.users[i])])
              /\ \A k \in DOMAIN m.seen : IsTime(m.seen[k].seen) /\ IsSpelled(m.seen[k].ip)

OwnTextsAssumption == \A texts \in OwnTexts : \A text \in texts : IsSpelled(text)

ASSUME PanelAssumption == MessagesAssumption /\ OwnTextsAssumption

\* One thing an entry cannot do without is gone, unreadable or out of range: a
\* field, a part of a record, a user or a time of a snapshot. A trimmed entry has
\* no fields at all.
Bad == {Empty, Junk, Numeral(MaxUint + 1)}
BadSegments == {<<Numeral(1)>>, <<Junk, Numeral(1)>>, <<Numeral(1), Numeral(MaxUint + 1)>>,
                <<Numeral(1), Numeral(1), Numeral(1)>>}

SpoiltFields(f) ==
    {Restrict(f, DOMAIN f \ {key}) : key \in DOMAIN f} \cup {[f EXCEPT ![key] = bad] : key \in DOMAIN f, bad \in Bad}
SpoiltRecords(records) == {[records EXCEPT ![i] = s] : i \in DOMAIN records, s \in BadSegments}
SpoiltUsers(users) ==
    {[users EXCEPT ![i].userId = bad] : i \in DOMAIN users, bad \in Bad}
        \cup UNION {{[users EXCEPT ![i].ips[j].lastSeen = Junk] : j \in DOMAIN users[i].ips} : i \in DOMAIN users}

Spoilt(f) ==
    {<<>>}
        \cup SpoiltFields(f)
        \cup {[f EXCEPT !["records"] = Packed(r)] : r \in IF "records" \in DOMAIN f THEN SpoiltRecords(f["records"][2]) ELSE {}}
        \cup {[f EXCEPT !["users"] = Json(u)] : u \in IF "users" \in DOMAIN f THEN SpoiltUsers(f["users"][2]) ELSE {}}

\* What a report or a snapshot is made of, and the entries in which some of that
\* is empty though nothing is unreadable: records without a text, users whose
\* addresses are missing or null, a null for the array of all of them. (A report
\* of one record keeps a separator; without it the field would be missing.)
Parts(m) ==
    CASE m.stream = "user_usage"       -> DOMAIN m.records
      [] m.stream = "sub_requests"     -> {}
      [] m.stream = "node_connections" -> DOMAIN m.users

EmptiedRecords(m, gone) == [i \in DOMAIN m.records |-> IF i \in gone THEN <<>> ELSE m.records[i]]
EmptiedUsers(m, gone) ==
    [i \in DOMAIN m.users |-> [Grouped(m)[i] EXCEPT !.ips = IF i \in gone THEN <<>> ELSE @]]

Emptied(m, f, gone) ==
    CASE m.stream = "user_usage" ->
            {[f EXCEPT !["records"] = Packed(EmptiedRecords(m, gone))]}
      [] m.stream = "sub_requests" -> {}
      [] m.stream = "node_connections" ->
            {[f EXCEPT !["users"] = Json(EmptiedUsers(m, gone))]}
                \cup (IF gone = DOMAIN m.users THEN {[f EXCEPT !["users"] = Json(<<>>)]} ELSE {})

-----------------------------------------------------------------------------

Init ==
    /\ message = NoMessage
    /\ written \in Versions
    /\ entry = <<>>
    /\ spoilt = FALSE
    /\ lost = {}
    /\ own = {}
    /\ geo \in Readers
    /\ at = "idle"
    /\ parsed = <<>>
    /\ rows = <<>>
    /\ swapped = FALSE

Publish ==
    /\ message = NoMessage
    /\ message' \in Messages
    /\ entry' = Encode(message', written)
    /\ UNCHANGED <<written, spoilt, lost, sources, decode>>

Spoil ==
    /\ message # NoMessage
    /\ ~spoilt
    /\ at # "enriching"
    /\ \/ entry' \in Spoilt(entry) /\ lost' = {}
       \/ \E gone \in SUBSET Parts(message) : entry' \in Emptied(message, entry, gone) /\ lost' = gone
    /\ spoilt' = TRUE
    /\ at' = "idle"
    /\ parsed' = <<>>
    /\ rows' = <<>>
    /\ UNCHANGED <<message, written, sources, swapped>>

\* IPSet.replace.
RefreshNodes ==
    /\ \E texts \in OwnTexts : own' = SetOf(texts)
    /\ swapped' = TRUE
    /\ UNCHANGED <<input, geo, at, parsed, rows>>

Reload ==
    /\ geo' \in Readers
    /\ swapped' = TRUE
    /\ UNCHANGED <<input, own, at, parsed, rows>>

Accepted ==
    CASE message.stream = "user_usage"       -> UserUsageAccepted(entry)
      [] message.stream = "sub_requests"     -> SubRequestAccepted(entry)
      [] message.stream = "node_connections" -> NodeConnectionsAccepted(entry)

Parsed ==
    CASE message.stream = "user_usage"       -> UserUsage(entry)
      [] message.stream = "sub_requests"     -> SubRequest(entry)
      [] message.stream = "node_connections" -> NodeConnections(entry)

\* Decode up to the loop over the rows; an error leaves no rows.
Decode ==
    /\ message # NoMessage
    /\ at # "enriching"
    /\ at' = IF Accepted THEN "enriching" ELSE "malformed"
    /\ parsed' = IF Accepted THEN Parsed ELSE <<>>
    /\ rows' = <<>>
    /\ swapped' = FALSE
    /\ UNCHANGED <<input, sources>>

Added(row) ==
    CASE message.stream = "user_usage"       -> <<>>
      [] message.stream = "sub_requests"     -> [geo |-> Lookup(row.ip, geo), client |-> Classify(row.agent)]
      [] message.stream = "node_connections" -> [geo |-> Lookup(row.ip, geo), infra |-> Contains(own, row.ip)]

With(row, labels) ==
    [key \in DOMAIN row \cup DOMAIN labels |-> IF key \in DOMAIN row THEN row[key] ELSE labels[key]]

Enrich ==
    /\ at = "enriching"
    /\ parsed # <<>>
    /\ rows' = Append(rows, With(Head(parsed), Added(Head(parsed))))
    /\ parsed' = Tail(parsed)
    /\ UNCHANGED <<input, sources, at, swapped>>

Return ==
    /\ at = "enriching"
    /\ parsed = <<>>
    /\ at' = "rows"
    /\ UNCHANGED <<input, sources, parsed, rows, swapped>>

Next ==
    \/ Publish \/ Spoil
    \/ RefreshNodes \/ Reload
    \/ Decode \/ Enrich \/ Return

Spec == Init /\ [][Next]_vars

-----------------------------------------------------------------------------
(* Properties                                                              *)

TypeOK ==
    /\ written \in Versions
    /\ message \in Messages \cup {NoMessage}
    /\ spoilt \in BOOLEAN
    /\ lost \subseteq Nat
    /\ \A address \in own : address.family \in {"v4", "v6"}
    /\ geo \in Readers
    /\ at \in {"idle", "enriching", "rows", "malformed"}
    /\ at # "enriching" => parsed = <<>>
    /\ at = "malformed" => rows = <<>>
    /\ swapped \in BOOLEAN

\* What the panel said, row by row, without the records or users that are gone.
KeptRecords(m, gone) ==
    Seqs!FlattenSeq([i \in DOMAIN m.records |-> IF i \in gone THEN <<>> ELSE <<m.records[i]>>])
KeptSeen(m, gone) ==
    Seqs!FlattenSeq([i \in DOMAIN m.users |-> IF i \in gone THEN <<>> ELSE SeenOf(m, m.users[i])])

Said(m, version, gone) ==
    CASE m.stream = "user_usage" ->
            LET kept == KeptRecords(m, gone)
            IN  [i \in DOMAIN kept |->
                    [ts |-> m.ts, node |-> m.node, user |-> kept[i][1], bytes |-> kept[i][2]]]
      [] m.stream = "sub_requests" ->
            << [ts |-> m.ts, user |-> m.user, ip |-> m.ip, agent |-> m.agent,
                response |-> IF version = "3.0.0" THEN Empty ELSE m.response,
                rule |-> IF version = "3.0.0" THEN Empty ELSE m.rule] >>
      [] m.stream = "node_connections" ->
            LET kept == KeptSeen(m, gone)
            IN  [i \in DOMAIN kept |->
                    [ts |-> m.ts, node |-> m.node, user |-> kept[i].user, ip |-> kept[i].ip, seen |-> kept[i].seen]]

\* What no row may be without.
Core(row) == Restrict(row, DOMAIN row \cap {"ts", "node", "user", "bytes", "seen"})

\* model.go:148-285, handlers_test.go:83-101: an entry gives every row the panel
\* meant and no other, in whichever version's spelling it was written and
\* however often it is decoded. One with something unreadable or missing in it
\* gives all of its rows or none, but for two things the decoders pass over in
\* silence: an emptied record (model.go:179-181) and a user without addresses
\* (model.go:274) cost their own rows, no row of another record or user.
RowsAsSaid ==
    LET said == Said(message, written, lost)
    IN  /\ at = "malformed" => spoilt
        /\ at = "rows" =>
            /\ Len(rows) = Len(said)
            /\ \A i \in DOMAIN said :
                    IF spoilt THEN Core(rows[i]) = Core(said[i])
                              ELSE Restrict(rows[i], DOMAIN said[i]) = said[i]

\* geoip.go:213-215, infra.go:19-20: the rows of an entry have one ip_prefix
\* exactly if their addresses are of one /24 or /48, and an address gets the same
\* labels however it is written.
Block(address) == IF address.family = "v6" THEN SubSeq(address.bits, 1, 2) ELSE <<Unmap(address).bits[1]>>
SpellingIrrelevant ==
    message.stream = "node_connections" =>
        \A i, j \in DOMAIN rows :
            LET Addr(k) == ParseAddr(rows[k].ip)
            IN  IsAddress(rows[i].ip) /\ IsAddress(rows[j].ip) =>
                    /\ rows[i].geo.prefix = rows[j].geo.prefix <=> Block(Addr(i)) = Block(Addr(j))
                    /\ Unmap(Addr(i)) = Unmap(Addr(j)) /\ ~swapped =>
                            rows[i].geo = rows[j].geo /\ rows[i].infra = rows[j].infra

\* ua.go:27, ua_test.go:32-38: a client is told by its own name, not by one that
\* the name contains, and an app, script or crawler that also calls itself a
\* browser does not pass for one.
Ranks == <<"client", "script", "bot", "browser">>
ClientRecognised ==
    message.stream = "sub_requests" =>
        \A i \in DOMAIN rows :
            LET needles == rows[i].agent[2]
                client  == rows[i].client
            IN  Reads(rows[i].agent, "agent") /\ needles # {} =>
                    /\ client.family \in needles
                    /\ ~\E n \in needles : <<client.family, n>> \in Inside
                    /\ \A n \in needles : \A r \in DOMAIN Ranks :
                            KindOf(n) = Ranks[r] => \E q \in 1 .. r : client.kind = Ranks[q]
=============================================================================
