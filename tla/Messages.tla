------------------------------ MODULE Messages ------------------------------
(***************************************************************************)
(* How the payloads of the three streams are read (internal/model). A text *)
(* is a tuple whose first element says what it reads as; <<>> is the empty *)
(* text. A payload is a function from the names of its fields to texts.    *)
(* For each stream there is a condition for the payload to be accepted and *)
(* what it then says, as the sequence of its rows.                         *)
(***************************************************************************)
EXTENDS Integers, Sequences

Seqs == INSTANCE SequencesExt

CONSTANT MaxUint \* the largest uint64

ASSUME MaxUintAssumption == MaxUint \in Nat

Empty == <<>>
Junk == <<"junk">>
Numeral(n) == <<"numeral", n>>
Timestamp(t) == <<"timestamp", t>>

\* Segments between ";", each the sequence of its parts between ":".
Packed(segments) == <<"packed", segments>>
Json(value) == <<"json", value>>

Reads(text, as) == text # Empty /\ text[1] = as

\* strconv.ParseUint(s, 10, 64) and time.Parse without an error.
IsUint(text) == Reads(text, "numeral") /\ text[2] <= MaxUint
IsTime(text) == Reads(text, "timestamp")

Str(f, key) == IF key \in DOMAIN f THEN f[key] ELSE Empty

\* Mutant of FirstStr: only the name the contract gives the field.
OnlyFirstStr(f, key, other) == Str(f, key)

FirstStr(f, key, other) == IF Str(f, key) # Empty THEN Str(f, key) ELSE Str(f, other)

\* The numbers a panel writes.
Uints == {Numeral(n) : n \in 0 .. MaxUint}

CheckVersion(f) == Str(f, "v") = Numeral(1)

-----------------------------------------------------------------------------

\* Empty segments are skipped.
Segments(raw) == Seqs!FlattenSeq([i \in DOMAIN raw[2] |-> IF raw[2][i] = <<>> THEN <<>> ELSE <<raw[2][i]>>])

\* One bad record refuses all of them, and so does none at all.
RecordsAccepted(raw) ==
    /\ Reads(raw, "packed")
    /\ Segments(raw) # <<>>
    /\ \A i \in DOMAIN Segments(raw) :
            /\ Len(Segments(raw)[i]) = 2
            /\ \A part \in {1, 2} : IsUint(Segments(raw)[i][part])

UserUsageAccepted(f) ==
    /\ CheckVersion(f)
    /\ IsUint(Str(f, "nodeId"))
    /\ IsTime(Str(f, "ts"))
    /\ RecordsAccepted(Str(f, "records"))

UserUsage(f) ==
    LET segments == Segments(f["records"])
    IN  [i \in DOMAIN segments |->
            [ts |-> f["ts"], node |-> f["nodeId"], user |-> segments[i][1], bytes |-> segments[i][2]]]

\* Everything but the version, the user and the time may be missing.
SubRequestAccepted(f) ==
    /\ CheckVersion(f)
    /\ IsUint(Str(f, "userId"))
    /\ IsTime(Str(f, "requestAt"))

SubRequest(f) ==
    << [ts |-> f["requestAt"], user |-> f["userId"],
        ip |-> Str(f, "requestIp"), agent |-> Str(f, "userAgent"),
        response |-> FirstStr(f, "srrResponseType", "ssrResponseType"),
        rule |-> Str(f, "srrRuleName")] >>

\* The snapshot is an array of users, each with the addresses it was seen at.
NodeConnectionsAccepted(f) ==
    /\ CheckVersion(f)
    /\ IsUint(Str(f, "nodeId"))
    /\ IsTime(Str(f, "ts"))
    /\ Reads(Str(f, "users"), "json")
    /\ \A i \in DOMAIN f["users"][2] :
            LET u == f["users"][2][i]
            IN  IsUint(u.userId) /\ \A j \in DOMAIN u.ips : IsTime(u.ips[j].lastSeen)

\* A user without addresses gives no row.
NodeConnections(f) ==
    LET Of(u) == [j \in DOMAIN u.ips |->
                    [ts |-> f["ts"], node |-> f["nodeId"], user |-> u.userId,
                     ip |-> u.ips[j].ip, seen |-> u.ips[j].lastSeen]]
    IN  Seqs!FlattenSeq([i \in DOMAIN f["users"][2] |-> Of(f["users"][2][i])])
=============================================================================
