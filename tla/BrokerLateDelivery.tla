------------------------- MODULE BrokerLateDelivery -------------------------
(***************************************************************************)
(* BrokerState with a slower broker: RequestWithTimeout (doRequest) gives  *)
(* up on a request after 10s, but a request that had reached the broker is *)
(* not withdrawn and the broker may still handle it later, after Reset has *)
(* restarted the client and after the next Initialize has read the broker. *)
(***************************************************************************)
EXTENDS BrokerState

VARIABLE orphans   \* requests abandoned by a timeout, not yet handled

lvars == <<vars, orphans>>

(* A step of BrokerState that leaves the abandoned requests alone.         *)
Kept(A) == A /\ UNCHANGED orphans

(* The call times out before the broker handled its request: the request   *)
(* stays with the broker.                                                  *)
TimesOutLate(e) ==
    /\ TimesOut(e)
    /\ orphans' = IF call[e] = "sent" THEN orphans \cup {<<pc, e>>} ELSE orphans

(* The broker handles an abandoned request; nobody reads the reply.        *)
HandlesLate(op, e) ==
    /\ <<op, e>> \in orphans
    /\ broker' = IF Accepts(op, e) THEN Apply(op, e) ELSE broker
    /\ orphans' = orphans \ {<<op, e>>}
    /\ UNCHANGED <<mirror, initialized, reconnectCount, clientRc, pc, initIdx,
                   opInput, tier, call, completed, err>>

LInit == Init /\ orphans = {}

LNext ==
    \/ Kept(InitializeCurrent \/ Initialize \/ InitRead \/ InitReadFails
            \/ NotInitialized \/ NextTier \/ Finish \/ Shutdown \/ Terminated
            \/ ConnectionDrop)
    \/ \E D \in Inputs : Kept(EnsureEntities(D) \/ DeleteEntities(D))
    \/ \E e \in Entity :
          \/ Kept(BrokerHandles(e) \/ ReceiveReply(e) \/ CallFails(e))
          \/ TimesOutLate(e)
    \/ \E k \in Kinds, n \in Names : Kept(BrokerRestart(k, n))
    \/ \E op \in {"ensure", "delete"}, e \in Entity : HandlesLate(op, e)

LSpec == LInit /\ [][LNext]_lvars

=============================================================================
