------------------------- MODULE MC_BrokerReconciler -------------------------
(* BrokerReconciler on a small instance: two names, one field value, and a *)
(* desired list of a queue, its address and a setting not named after a   *)
(* queue (which Initialize never reads back).                              *)
EXTENDS BrokerReconciler, TLC

CONSTANTS n1, n2, a1

MCNames == {n1, n2}

MCDesired == {[kind |-> "Queue", name |-> n1, attr |-> a1],
              [kind |-> "Address", name |-> n1, attr |-> a1],
              [kind |-> "AddressSetting", name |-> n2, attr |-> a1]}

=============================================================================
