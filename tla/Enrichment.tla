----------------------------- MODULE Enrichment -----------------------------
(***************************************************************************)
(* What the exporter adds to a row: geo data and the address block         *)
(* (geoip.Lookup), whether the address is one of the panel's own nodes     *)
(* (dict.IPSet) and the client behind a User-Agent (internal/ua).          *)
(*                                                                         *)
(* An address is a family and its bits, cut where blocks end: <<first 24,  *)
(* rest>> for "v4", <<first 24, next 24, rest>> for "v6", and the bits of  *)
(* the v4 address behind 24, 24 and 48 fixed ones for "4in6". A User-Agent *)
(* text is the set of the needles it contains.                             *)
(***************************************************************************)
EXTENDS Messages, FiniteSetsExt, Functions

CONSTANTS
    LocalNets, \* first 24 bits of loopback, private and link-local addresses
    Keywords   \* the hosting keywords

V4(net, host) == [family |-> "v4", bits |-> <<net, host>>]
V6(site, subnet, rest) == [family |-> "v6", bits |-> <<site, subnet, rest>>]
Mapped(address) == [family |-> "4in6", bits |-> <<0, 0, "ffff">> \o address.bits]

\* An address as a text, blanks around it included, and netip.ParseAddr of it.
AddressText(address) == <<"address", address>>
IsAddress(text) == Reads(text, "address")
ParseAddr(text) == text[2]

Families == {"v4", "v6", "4in6"}
IsSpelled(text) == IsAddress(text) => ParseAddr(text).family \in Families

Unmap(address) == IF address.family = "4in6" THEN V4(address.bits[4], address.bits[5]) ELSE address

\* Mutant of SetOf: the addresses are kept as they are written.
SetAsWritten(texts) == {ParseAddr(t) : t \in {u \in texts : IsAddress(u)}}

\* IPSet.replace and IPSet.Contains.
SetOf(texts) == {Unmap(ParseAddr(t)) : t \in {u \in texts : IsAddress(u)}}
Contains(set, ip) == IsAddress(ip) /\ Unmap(ParseAddr(ip)) \in set

\* Mutant of Prefix: a mapped address is cut as it is written.
PrefixAsWritten(address) ==
    [family |-> address.family,
     bits   |-> SubSeq(address.bits, 1, IF address.family = "v6" THEN 2 ELSE 1)]

\* /24 for IPv4, mapped or not, and /48 for IPv6.
Prefix(address) ==
    LET pieces == IF address.family = "v6" THEN 2 ELSE 1
    IN  [family |-> Unmap(address).family, bits |-> SubSeq(Unmap(address).bits, 1, pieces)]

\* IsLoopback, IsPrivate, IsLinkLocalUnicast.
IsLocal(address) == Unmap(address).bits[1] \in LocalNets

\* An organisation is the set of the keywords its name contains.
IsHosting(org) == org \cap Keywords # {}

\* A reader finds a mapped address under its v4 form; what it does not hold is
\* no error and leaves the record empty.
NoCity == [country |-> "", registered |-> "", city |-> ""]
Held(reader, address, default) ==
    IF Unmap(address) \in DOMAIN reader THEN reader[Unmap(address)] ELSE default

\* Lookup with the two readers, each a function of addresses; that of a file
\* that is not open is empty. asn stands for number and organisation.
Lookup(raw, geo) ==
    LET address == ParseAddr(raw)
        known   == IsAddress(raw) /\ ~IsLocal(address)
        city    == IF known THEN Held(geo.city, address, NoCity) ELSE NoCity
        org     == IF known THEN Held(geo.asn, address, {}) ELSE {}
    IN  [prefix  |-> IF IsAddress(raw) THEN Prefix(address) ELSE Empty,
         country |-> IF city.country # "" THEN city.country ELSE city.registered,
         city    |-> city.city,
         asn     |-> org,
         hosting |-> IsHosting(org)]

-----------------------------------------------------------------------------

Clients == <<"happ", "streisand", "hiddify", "v2rayng", "v2raytun", "v2rayn", "nekobox", "nekoray",
             "shadowrocket", "stash", "loon", "quantumult", "surge", "clash-verge", "clashx", "clash",
             "mihomo", "sing-box", "singbox", "foxray", "karing", "throne", "husi", "exclave",
             "matsuri", "v2box", "sfa", "sfi", "sfm">>
Scripts == <<"curl", "wget", "python-requests", "python-urllib", "aiohttp", "httpx", "go-http-client",
             "okhttp", "axios", "node-fetch", "powershell", "java/", "libwww-perl", "postman", "insomnia">>
Bots == <<"telegrambot", "crawler", "spider", "bot">>
Browsers == <<"edg/", "opr/", "yabrowser", "firefox", "chrome", "safari", "mozilla">>

\* Mutant of Rules: browsers first.
RulesBrowsersFirst == Browsers \o Clients \o Scripts \o Bots

Rules == Clients \o Scripts \o Bots \o Browsers

KindOf(needle) ==
    CASE needle \in Range(Clients)  -> "client"
      [] needle \in Range(Scripts)  -> "script"
      [] needle \in Range(Bots)     -> "bot"
      [] needle \in Range(Browsers) -> "browser"

\* Needles inside other needles: a text that contains the one contains the other.
Inside == {<<"v2rayn", "v2rayng">>, <<"clash", "clash-verge">>, <<"clash", "clashx">>, <<"bot", "telegrambot">>}
AgentText(needles) == <<"agent", needles \cup {p[1] : p \in {q \in Inside : q[2] \in needles}}>>

\* The first rule that matches.
Classify(raw) ==
    LET hits == IF Reads(raw, "agent") THEN {i \in DOMAIN Rules : Rules[i] \in raw[2]} ELSE {}
    IN  CASE raw = Empty -> [family |-> "(empty)", kind |-> "unknown"]
          [] raw # Empty /\ hits = {} -> [family |-> "Other", kind |-> "unknown"]
          [] hits # {} -> [family |-> Rules[Min(hits)], kind |-> KindOf(Rules[Min(hits)])]
=============================================================================
