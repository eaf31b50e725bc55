---------------------------- MODULE MCJinkoToken ----------------------------
EXTENDS JinkoToken

AllConfigs == {[access |-> a, refresh |-> r] : a \in {0, 1}, r \in {0, 1}}
             \ {[access |-> 0, refresh |-> 0]}

PairConfigs == {[access |-> 1, refresh |-> 1]}
=============================================================================
