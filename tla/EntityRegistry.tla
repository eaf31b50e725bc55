---------------------------- MODULE EntityRegistry ----------------------------
(***************************************************************************)
(* What the discovery manifest promises of the entities of one Home        *)
(* Assistant device, whatever crashes and restarts lie between: whatever   *)
(* is shown is on record with the meaning it is shown with, and an entity  *)
(* never changes its meaning once it was shown.                            *)
(*                                                                         *)
(* The record may be rewritten freely as long as nothing shown loses its   *)
(* entry: a rewrite that failed half way may be replaced by another one.   *)
(***************************************************************************)
CONSTANTS
    Keys,       \* the entities the device may have
    Meanings,   \* what an entity may mean: its group, name and unit
    Unknown     \* the entity is not on record, or not shown

VARIABLES
    record,     \* the meaning that is on record for each entity
    shown       \* the meaning each entity is shown with

vars == <<record, shown>>

Entries == [Keys -> Meanings \cup {Unknown}]

Init == record = [k \in Keys |-> Unknown] /\ shown = [k \in Keys |-> Unknown]

Rewrite ==
    /\ record' \in Entries
    /\ \A k \in Keys : shown[k] # Unknown => record'[k] = shown[k]
    /\ UNCHANGED shown

Show ==
    /\ \E new \in SUBSET {k \in Keys : record[k] # Unknown} :
           shown' = [k \in Keys |-> IF k \in new THEN record[k] ELSE shown[k]]
    /\ UNCHANGED record

Spec == Init /\ [][Rewrite \/ Show]_vars
===============================================================================
