---------------------------- MODULE MCPublisher ----------------------------
(* One meter beside the inverter, whose snapshots have its entity or not.  *)
EXTENDS Publisher

MCShapes == [s \in Streams |-> IF s = Inverter THEN {{}, {"pv"}} ELSE {{"grid"}}]
=============================================================================
