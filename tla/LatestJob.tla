------------------------------ MODULE LatestJob ------------------------------
(***************************************************************************)
(* What the poll and the correlation worker may rely on between them: a    *)
(* mailbox of one place that always holds the newest job posted, or        *)
(* nothing once it was taken.  Posting replaces what nobody took, in one   *)
(* step and without waiting; nothing older can be taken after something    *)
(* newer.                                                                  *)
(*                                                                         *)
(* A job is the number it was decided under, 0 is no job.  When the reader *)
(* goes, the mailbox is emptied, and jobs may have been decided meanwhile  *)
(* that nobody ever posts.                                                 *)
(***************************************************************************)
EXTENDS Naturals

VARIABLES
    posted,     \* the newest job posted so far, or skipped when the reader went
    slot,       \* the job that waits
    taken,      \* the job taken last
    reader      \* somebody may take

vars == <<posted, slot, taken, reader>>

Init == posted = 0 /\ slot = 0 /\ taken = 0 /\ reader = FALSE

Arrive ==
    /\ ~reader
    /\ reader' = TRUE
    /\ UNCHANGED <<posted, slot, taken>>

Post ==
    /\ posted' \in Nat /\ posted' > posted
    /\ slot' = posted'
    /\ UNCHANGED <<taken, reader>>

Take ==
    /\ reader /\ slot # 0
    /\ taken' = slot
    /\ slot' = 0
    /\ UNCHANGED <<posted, reader>>

Depart ==
    /\ reader' = FALSE
    /\ slot' = 0
    /\ taken' \in {0, taken}
    /\ posted' \in Nat /\ posted' >= posted

Spec == Init /\ [][Arrive \/ Post \/ Take \/ Depart]_vars
==============================================================================
