------------------------ MODULE MC_BrokerLateDelivery ------------------------
(* BrokerLateDelivery on two names and one field value.                    *)
EXTENDS BrokerLateDelivery, TLC

CONSTANTS n1, n2, a1

MCNames == {n1, n2}

Symmetry == Permutations(MCNames)

=============================================================================
