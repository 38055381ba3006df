----------------------------- MODULE MCDecoders -----------------------------
(* Instances of Decoders for TLC. *)
EXTENDS Decoders, TLC

Home == V4("203.0.113", "7")
Next24 == V4("203.0.114", "7")
Site == V6("2001:d", "b8:1", "::1")
Sibling == V6("2001:d", "b8:1", "::2")
OtherSite == V6("2001:d", "b8:2", "::1")
Private == V4("10.0.0", "7")

Usage == [stream |-> "user_usage", node |-> Numeral(1), ts |-> Timestamp(1),
          records |-> <<<<Numeral(1), Numeral(0)>>, <<Numeral(2), Numeral(MaxUint)>>, <<Numeral(3), Numeral(1)>>>>]
Request(ip, agent) ==
    [stream |-> "sub_requests", ts |-> Timestamp(1), user |-> Numeral(1), ip |-> ip, agent |-> agent,
     response |-> <<"word", "BLOCK">>, rule |-> <<"word", "rule">>]
Snapshot(users, seen) ==
    [stream |-> "node_connections", node |-> Numeral(1), ts |-> Timestamp(1), users |-> users, seen |-> seen]

Seen(user, ip) == [user |-> Numeral(user), ip |-> ip, seen |-> Timestamp(0)]
Ips == {AddressText(a) : a \in {Home, Mapped(Home), Next24, Site, Sibling, OtherSite, Private}} \cup {Junk}

\* Requests by pairs of user agent names: those inside others and some of each kind.
Needles == UNION {{p[1], p[2]} : p \in Inside} \cup {"happ", "curl", "crawler", "chrome", "mozilla"}
Agents == {AgentText(n) : n \in UNION {kSubset(k, Needles) : k \in 0 .. 2}} \cup {Empty}

MCMessages ==
    {Usage}
        \cup {Request(AddressText(Mapped(Home)), a) : a \in Agents}
        \cup {Request(Empty, Empty)}
        \cup {Snapshot(<<Numeral(1), Numeral(2)>>, <<Seen(1, p), Seen(2, q)>>) : p \in Ips, q \in Ips}
        \cup {Snapshot(<<Numeral(1), Numeral(2)>>, <<Seen(2, AddressText(Home)), Seen(2, Junk)>>),
              Snapshot(<<>>, <<>>)}

MCOwnTexts == {{}, {AddressText(Mapped(Home)), AddressText(Site), Junk}}
MCReaders ==
    { [city |-> <<>>, asn |-> <<>>],
      [city |-> Home :> [country |-> "", registered |-> "NL", city |-> ""] @@ Site :> [country |-> "DE", registered |-> "NL", city |-> "Berlin"],
       asn |-> Home :> {"hosting"} @@ Sibling :> {}] }
=============================================================================
