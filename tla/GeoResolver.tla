----------------------------- MODULE GeoResolver ------------------------------
(***************************************************************************)
(* The two MaxMind readers shared by the decoders and the torrent poller   *)
(* (internal/geoip/geoip.go): Watch reopens the files and closes the       *)
(* readers it replaced while Lookup, which copies the pointers under the   *)
(* lock and uses them after unlocking, runs on other goroutines.           *)
(*                                                                         *)
(* A reader is the number of the open that made it, 0 is nil.  Only the    *)
(* life of the readers is modelled, not what a lookup finds.               *)
(***************************************************************************)
EXTENDS Integers, FiniteSets

CONSTANTS
    Lookups,   \* goroutines that call Lookup
    MaxOpens   \* bound: times each file is opened

ASSUME BoundsAssumption == MaxOpens \in Nat

Kinds == {"city", "asn"}
Readers == 0 .. MaxOpens

VARIABLES
    opened,    \* readers opened so far, per kind
    closed,    \* readers Close has been called on, per kind
    current,   \* Resolver.city and Resolver.asn
    fresh,     \* reload: readers it opened (nil when the open failed)
    replaced,  \* reload: readers it took out of current
    watch,     \* where Watch and reload are
    place,     \* where a Lookup is
    held,      \* the pointers a Lookup copied
    ctxDone,   \* ctx is cancelled
    finished   \* run has called Resolver.Close

reload  == <<fresh, replaced, watch>>
lookups == <<place, held>>
vars    == <<opened, closed, current, reload, lookups, ctxDone, finished>>

WatchPlaces == {"wait", "openASN", "swap", "closeCity", "closeASN", "returned"}
\* "enterCity": about to call Lookup on its city reader; "inCity": inside it.
LookupPlaces == {"idle", "enterCity", "inCity", "enterASN", "inASN"}

TypeOK ==
    /\ opened \in [Kinds -> Readers]
    /\ closed \in [Kinds -> SUBSET (1 .. MaxOpens)]
    /\ current \in [Kinds -> Readers]
    /\ fresh \in [Kinds -> Readers]
    /\ replaced \in [Kinds -> Readers]
    /\ watch \in WatchPlaces
    /\ place \in [Lookups -> LookupPlaces]
    /\ held \in [Lookups -> [Kinds -> Readers]]
    /\ ctxDone \in BOOLEAN
    /\ finished \in BOOLEAN

Nil == [k \in Kinds |-> 0]

\* New: the first reload ran before anything is shared, so each file is open or
\* missing.  Watch returns at once when GEOIP_RELOAD_INTERVAL is not positive.
Init ==
    /\ opened \in [Kinds -> {n \in Readers : n <= 1}]
    /\ closed = [k \in Kinds |-> {}]
    /\ current = opened
    /\ fresh = Nil
    /\ replaced = Nil
    /\ watch \in {"wait", "returned"}
    /\ place = [l \in Lookups |-> "idle"]
    /\ held = [l \in Lookups |-> Nil]
    /\ ctxDone = FALSE
    /\ finished = FALSE

-------------------------------------------------------------------------------
(* Watch and reload *)

\* openDB: a new reader, or nil when the file is missing or unreadable.
OpenDB(k) ==
    \/ /\ opened[k] < MaxOpens
       /\ opened' = [opened EXCEPT ![k] = @ + 1]
       /\ fresh' = [fresh EXCEPT ![k] = opened'[k]]
    \/ /\ fresh' = [fresh EXCEPT ![k] = 0]
       /\ UNCHANGED opened

\* The ticker fires; reload opens the city file first, then the ASN file.
OpenCity ==
    /\ watch = "wait"
    /\ watch' = "openASN"
    /\ OpenDB("city")
    /\ UNCHANGED <<closed, current, replaced, lookups, ctxDone, finished>>

OpenASN ==
    /\ watch = "openASN"
    /\ watch' = "swap"
    /\ OpenDB("asn")
    /\ UNCHANGED <<closed, current, replaced, lookups, ctxDone, finished>>

\* Mutant of Swap: what openDB returned is taken as it is.
SwapAlways ==
    /\ watch = "swap"
    /\ watch' = "closeCity"
    /\ replaced' = current
    /\ current' = fresh
    /\ UNCHANGED <<opened, closed, fresh, lookups, ctxDone, finished>>

\* The section under the write lock; a failed open keeps the reader in use.
Swap ==
    /\ watch = "swap"
    /\ watch' = "closeCity"
    /\ replaced' = current
    /\ current' = [k \in Kinds |-> IF fresh[k] # 0 THEN fresh[k] ELSE current[k]]
    /\ UNCHANGED <<opened, closed, fresh, lookups, ctxDone, finished>>

\* Mutants of CloseReplaced: the previous reader is closed without a look at
\* what replaced it, without a look at whether there was one, or only when it
\* is the very first.
ClosePrevious(k) ==
    closed' = [closed EXCEPT ![k] = IF replaced[k] # 0 THEN @ \cup {replaced[k]} ELSE @]
CloseNil(k) ==
    closed' = [closed EXCEPT ![k] = IF fresh[k] # 0 THEN @ \cup {replaced[k]} ELSE @]
CloseOnce(k) ==
    closed' = [closed EXCEPT ![k] =
                 IF @ = {} /\ fresh[k] # 0 /\ replaced[k] # 0 THEN {replaced[k]} ELSE @]

\* "Only close the previous handles we actually replaced."
CloseReplaced(k) ==
    closed' = [closed EXCEPT ![k] =
                 IF fresh[k] # 0 /\ replaced[k] # 0 THEN @ \cup {replaced[k]} ELSE @]

CloseCity ==
    /\ watch = "closeCity"
    /\ watch' = "closeASN"
    /\ CloseReplaced("city")
    /\ UNCHANGED <<opened, current, fresh, replaced, lookups, ctxDone, finished>>

CloseASN ==
    /\ watch = "closeASN"
    /\ watch' = "wait"
    /\ CloseReplaced("asn")
    /\ fresh' = Nil
    /\ replaced' = Nil
    /\ UNCHANGED <<opened, current, lookups, ctxDone, finished>>

\* The select sees ctx.Done.
WatchReturns ==
    /\ watch = "wait"
    /\ ctxDone
    /\ watch' = "returned"
    /\ UNCHANGED <<opened, closed, current, fresh, replaced, lookups, ctxDone, finished>>

-------------------------------------------------------------------------------
(* Lookup *)

At(l, p) == place' = [place EXCEPT ![l] = p]

\* The pointers are copied under the read lock.
Begin(l) ==
    /\ place[l] = "idle"
    /\ ~finished
    /\ At(l, "enterCity")
    /\ held' = [held EXCEPT ![l] = current]
    /\ UNCHANGED <<opened, closed, current, reload, ctxDone, finished>>

\* The reader's own Lookup refuses a reader that is closed already, which the
\* caller treats as no data.
Usable(l, k) == held[l][k] # 0 /\ held[l][k] \notin closed[k]

Step(l, from, to) ==
    /\ place[l] = from
    /\ At(l, to)
    /\ UNCHANGED <<opened, closed, current, reload, ctxDone, finished>>

EnterCity(l) == Step(l, "enterCity", IF Usable(l, "city") THEN "inCity" ELSE "enterASN")
                /\ UNCHANGED held
LeaveCity(l) == Step(l, "inCity", "enterASN") /\ UNCHANGED held
EnterASN(l)  == /\ Step(l, "enterASN", IF Usable(l, "asn") THEN "inASN" ELSE "idle")
                /\ held' = IF Usable(l, "asn") THEN held ELSE [held EXCEPT ![l] = Nil]
LeaveASN(l)  == Step(l, "inASN", "idle") /\ held' = [held EXCEPT ![l] = Nil]

-------------------------------------------------------------------------------
(* Shutdown *)

Cancel ==
    /\ ~ctxDone
    /\ ctxDone' = TRUE
    /\ UNCHANGED <<opened, closed, current, reload, lookups, finished>>

\* run's deferred Close, after wg.Wait: every goroutine has returned.
Close ==
    /\ ctxDone
    /\ ~finished
    /\ watch = "returned"
    /\ \A l \in Lookups : place[l] = "idle"
    /\ finished' = TRUE
    /\ closed' = [k \in Kinds |-> IF current[k] # 0 THEN closed[k] \cup {current[k]} ELSE closed[k]]
    /\ current' = Nil
    /\ UNCHANGED <<opened, reload, lookups, ctxDone>>

-------------------------------------------------------------------------------

Watch == OpenCity \/ OpenASN \/ Swap \/ CloseCity \/ CloseASN \/ WatchReturns

Lookup(l) == Begin(l) \/ EnterCity(l) \/ LeaveCity(l) \/ EnterASN(l) \/ LeaveASN(l)

Next == Watch \/ Cancel \/ Close \/ \E l \in Lookups : Lookup(l)

Spec == Init /\ [][Next]_vars

-------------------------------------------------------------------------------
(* Properties *)

\* Rotation keeps serving: until shutdown the readers in use are open, also
\* after an open failed or only one of the files was there.
CurrentIsOpen == \A k \in Kinds : current[k] \notin closed[k]

\* "degrades to empty fields" is for files that were never there: a reader in
\* use is only ever replaced by another reader, until shutdown.
NeverDegrades == [][\A k \in Kinds : current[k] # 0 /\ ~finished' => current'[k] # 0]_vars

\* No reader is leaked: between reloads every reader opened and not in use has
\* been closed, and after shutdown all have.
NoReaderLeaked ==
    watch \in {"wait", "returned"} =>
        \A k \in Kinds : \A r \in 1 .. opened[k] : r # current[k] => r \in closed[k]

\* A database can be rotated under a running process (geoip.go:4-5): no lookup
\* is inside a reader that is closed under it.
ReadersInUseAreOpen ==
    \A l \in Lookups :
        /\ place[l] = "inCity" => held[l]["city"] \notin closed["city"]
        /\ place[l] = "inASN" => held[l]["asn"] \notin closed["asn"]
===============================================================================
