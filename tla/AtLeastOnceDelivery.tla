------------------------ MODULE AtLeastOnceDelivery ------------------------
(***************************************************************************)
(* What a sink of the platform promises ("At-least-once guarantees",       *)
(* README.md:29): the reader opens the topic at some position, stores      *)
(* records in any order, possibly again and again, and acknowledges a      *)
(* prefix of the topic only when every record of it that it owes is        *)
(* stored. An acknowledged record stays stored.                            *)
(***************************************************************************)
EXTENDS Integers

CONSTANTS
    Positions, \* the positions of the topic's records
    Owed       \* the positions whose records the sink has to store

VARIABLES
    opened, \* the position the reader began at, -1 before
    acked,  \* the end of the acknowledged prefix
    stored  \* the positions stored so far

vars == <<opened, acked, stored>>

Init ==
    /\ opened = -1
    /\ acked = -1
    /\ stored = {}

Open(p) ==
    /\ opened = -1
    /\ opened' = p
    /\ acked' = p
    /\ UNCHANGED stored

Store(S) ==
    /\ \A p \in S : p \in Owed /\ p > acked
    /\ opened # -1
    /\ stored' = stored \union S
    /\ UNCHANGED <<opened, acked>>

Ack(n) ==
    /\ opened # -1
    /\ n >= acked
    /\ \A p \in Owed : acked < p /\ p <= n => p \in stored
    /\ acked' = n
    /\ UNCHANGED <<opened, stored>>

Next ==
    \/ \E p \in Positions \union {0} : Open(p) \/ Ack(p)
    \/ \E S \in SUBSET Positions : Store(S)

Spec == Init /\ [][Next]_vars

=============================================================================
