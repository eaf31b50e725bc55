---------------------------- MODULE MCSourceGate ----------------------------
(***************************************************************************)
(* Two polls and two diagnostics on one source: enough for a normal call   *)
(* to queue behind each kind and for a wake-up to be stolen.               *)
(***************************************************************************)
EXTENDS SourceGate
=============================================================================
