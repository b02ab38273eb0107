------------------------ MODULE BrokerStaleSession ------------------------
(***************************************************************************)
(* BrokerState with a history variable: the client's reconnect count when  *)
(* the running EnsureEntities call started.  It is not state of the code;  *)
(* it only lets a property tell a call made after the client reconnected   *)
(* from one whose session changed while it ran.                            *)
(***************************************************************************)
EXTENDS BrokerState

VARIABLE startRc   \* clientRc when the current EnsureEntities call began

svars == <<vars, startRc>>

SInit == Init /\ startRc = clientRc

(* Every BrokerState step; the one that starts EnsureEntities records the  *)
(* client's count.                                                         *)
SNext ==
    /\ Next
    /\ startRc' = IF pc = "idle" /\ pc' = "ensure" THEN clientRc ELSE startRc

SSpec == SInit /\ [][SNext]_svars

-----------------------------------------------------------------------------
(* The call began on a session other than the one Initialize read.         *)
StartedStale == startRc # reconnectCount

(* Spec section 3: the state reverts to uninitialized whenever the         *)
(* reconnect counter changes since the last initialization.  So an         *)
(* EnsureEntities called after the client reconnected (broker.go checks    *)
(* only b.initialized) never returns nil while an entity of its list is    *)
(* missing from the broker.                                                *)
StaleEnsureConverges ==
    [][StartedStale /\ EnsureSucceeds =>
          \A e \in opInput : Present(broker', e)]_svars

=============================================================================
