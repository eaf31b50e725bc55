-------------------------- MODULE MCAlertCorrelation --------------------------
(* Two signatures, so that an alarm can change while it lasts. *)
EXTENDS AlertCorrelation

MCSignatures == {"s1", "s2"}
=============================================================================
