---------------------------- MODULE UsagePipeline ----------------------------
(***************************************************************************)
(* What the history writer promises about the usage records it accepts:    *)
(* they are stored, in any order and any portions, and when it stops, all  *)
(* of them are stored or the backend is marked as degraded.                *)
(***************************************************************************)
CONSTANT Records

VARIABLES
    accepted,   \* records for which the caller was told that they are taken
    stored,     \* rows of the database
    degraded,   \* the backend is marked as degraded
    over        \* the writer has stopped

vars == <<accepted, stored, degraded, over>>

Init ==
    /\ accepted = {}
    /\ stored = {}
    /\ degraded = FALSE
    /\ over = FALSE

\* More of the accepted records are in the database.
StoredMore == stored \subseteq stored' /\ stored' \subseteq accepted

Accept ==
    /\ ~over
    /\ \E new \in SUBSET Records : accepted' = accepted \cup new
    /\ UNCHANGED <<stored, degraded, over>>

Store ==
    /\ ~over
    /\ StoredMore
    /\ UNCHANGED <<accepted, degraded, over>>

Stop ==
    /\ ~over
    /\ StoredMore
    /\ over' = TRUE
    /\ degraded' = TRUE \/ (stored' = accepted /\ degraded' = degraded)
    /\ UNCHANGED accepted

Next == Accept \/ Store \/ Stop

Spec == Init /\ [][Next]_vars
=============================================================================
