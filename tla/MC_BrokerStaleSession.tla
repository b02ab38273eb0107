----------------------- MODULE MC_BrokerStaleSession -----------------------
(* BrokerStaleSession on two names and one field value.                    *)
EXTENDS BrokerStaleSession, TLC

CONSTANTS n1, n2, a1

MCNames == {n1, n2}

Symmetry == Permutations(MCNames)

=============================================================================
