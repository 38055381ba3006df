------------------------------- MODULE Delivery -------------------------------
(***************************************************************************)
(* What the exporter promises of one stream, without workers, groups or    *)
(* batches: at-least-once delivery of a log whose head may be trimmed      *)
(* (README.md:278, internal/consumer/consumer.go:1-7).                     *)
(***************************************************************************)
EXTENDS Integers

CONSTANTS
    MaxId,     \* bound: entries of the log
    Storable   \* entries that carry rows

Entries == 1 .. MaxId

VARIABLES
    available, \* entries 1..available were published
    gone,      \* entries 1..gone were trimmed
    committed, \* entries with rows in the table
    settled    \* entries that will not be delivered again

vars == <<available, gone, committed, settled>>

Init ==
    /\ available = 0
    /\ gone = 0
    /\ committed = {}
    /\ settled = {}

\* The log grows by an entry and may lose some of its oldest.
Produce ==
    /\ available < MaxId
    /\ available' = available + 1
    /\ gone' \in gone .. available'
    /\ UNCHANGED <<committed, settled>>

\* Published entries with rows are stored; what is stored stays.
Commit ==
    /\ committed \subseteq committed'
    /\ committed' \subseteq Storable \cap (1 .. available)
    /\ UNCHANGED <<available, gone, settled>>

\* Entries are given up for redelivery: only stored ones, ones without rows
\* and ones the log no longer has.
Settle ==
    /\ settled \subseteq settled'
    /\ settled' \subseteq Entries
    /\ \A i \in settled' \ settled : i \in committed \/ i \notin Storable \/ i <= gone
    /\ UNCHANGED <<available, gone, committed>>

Next == Produce \/ Commit \/ Settle

Spec == Init /\ [][Next]_vars
===============================================================================
