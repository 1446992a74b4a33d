---------------------------- MODULE DurableTable ----------------------------
(***************************************************************************)
(* What a table engine promises: a set of rows that writes add to and that *)
(* nothing takes away.  A write in flight, or one that failed without the  *)
(* engine knowing whether it is durable, is unsure: the next crash decides *)
(* it.  Flushing, compacting and checkpointing are not visible at all.     *)
(***************************************************************************)
CONSTANT Row

VARIABLES
    rows,    \* the rows a reader sees, or would see after recovery
    unsure,  \* rows a crash may keep or drop
    up       \* the table is open

vars == <<rows, unsure, up>>

Init ==
    /\ rows = {}
    /\ unsure = {}
    /\ up = TRUE

Begin(r) ==
    /\ up
    /\ r \notin rows
    /\ unsure' = unsure \cup {r}
    /\ UNCHANGED <<rows, up>>

Ack(r) ==
    /\ up
    /\ r \in unsure
    /\ rows' = rows \cup {r}
    /\ unsure' = unsure \ {r}
    /\ UNCHANGED up

(* The write failed after it was logged: readers see it, a crash decides. *)
Doubt(r) ==
    /\ up
    /\ r \in unsure
    /\ rows' = rows \cup {r}
    /\ UNCHANGED <<unsure, up>>

Crash ==
    /\ up
    /\ up' = FALSE
    /\ \E kept \in SUBSET unsure : rows' = (rows \ unsure) \cup kept
    /\ unsure' = {}

Recover ==
    /\ ~up
    /\ up' = TRUE
    /\ UNCHANGED <<rows, unsure>>

Next ==
    \/ \E r \in Row : Begin(r) \/ Ack(r) \/ Doubt(r)
    \/ Crash
    \/ Recover

Spec == Init /\ [][Next]_vars
=============================================================================
