--------------------------- MODULE MC_BrokerState ---------------------------
(* BrokerState on a small instance for TLC: two names, field values and    *)
(* the bounds are set in the .cfg files.                                   *)
EXTENDS BrokerState, TLC

CONSTANTS n1, n2, a1, a2

MCNames == {n1, n2}

Symmetry == Permutations(MCNames)

=============================================================================
