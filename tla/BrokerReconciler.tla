-------------------------- MODULE BrokerReconciler --------------------------
(***************************************************************************)
(* BrokerState driven by the controller's reconcile loop: on every pass    *)
(* the controller calls Initialize and then EnsureEntities with the same   *)
(* desired list, and requeues the resource after an error.  The faults of  *)
(* BrokerState (timeouts, connection drops, broker restarts: bounded by    *)
(* MaxReconnects) and failing reads (bounded here by MaxReadFailures) stop *)
(* after a while; the question is whether the loop then converges.         *)
(***************************************************************************)
EXTENDS BrokerState

CONSTANTS
    Desired,          \* the entities the controller asks for on every pass
    MaxReadFailures   \* bound on failing readEntities calls

ASSUME ReconcilerAssumption ==
    /\ Desired \in Inputs
    /\ MaxReadFailures \in Nat

VARIABLES
    readFailures,   \* readEntities calls that have failed so far
    phase           \* the call the controller makes next in this pass

rvars == <<vars, readFailures, phase>>

(* A BrokerState step the controller does not see.                         *)
Step(A) == A /\ UNCHANGED <<readFailures, phase>>

(* A read of Initialize fails, while the environment still injects faults. *)
(* Initialize returns the error; the pass ends and the next one starts     *)
(* with Initialize again.                                                  *)
ReadFails ==
    /\ readFailures < MaxReadFailures
    /\ InitReadFails
    /\ readFailures' = readFailures + 1
    /\ UNCHANGED phase

RInit == Init /\ readFailures = 0 /\ phase = "initialize"

(* A pass starts with Initialize: a no-op on a current state, else the     *)
(* start of the reads.                                                     *)
CallInitialize ==
    /\ phase = "initialize"
    /\ \/ InitializeCurrent /\ phase' = "ensure"
       \/ Initialize /\ phase' = phase
    /\ UNCHANGED readFailures

(* A read; the last one returns nil from Initialize.                       *)
Read ==
    /\ InitRead
    /\ phase' = IF pc' = "idle" THEN "ensure" ELSE phase
    /\ UNCHANGED readFailures

(* Then, Initialize having returned nil, EnsureEntities with the desired  *)
(* list; whatever it returns, the next pass starts with Initialize.        *)
CallEnsure ==
    /\ phase = "ensure"
    /\ EnsureEntities(Desired)
    /\ phase' = "initialize"
    /\ UNCHANGED readFailures

RNext ==
    \/ CallInitialize
    \/ Read
    \/ CallEnsure
    \/ ReadFails
    \/ \E e \in Entity :
          Step(BrokerHandles(e) \/ ReceiveReply(e) \/ TimesOut(e) \/ CallFails(e))
    \/ Step(NextTier)
    \/ Step(Finish)
    \/ Step(ConnectionDrop)
    \/ \E k \in Kinds, n \in Names : Step(BrokerRestart(k, n))

(* The controller keeps calling (it requeues on error and resyncs          *)
(* periodically), the reads, the goroutines and the tier loop run, and a   *)
(* request on a live connection is handled by the broker: weak fairness on *)
(* each of these.  The faults get none.                                    *)
RSpec ==
    /\ RInit /\ [][RNext]_rvars
    /\ WF_rvars(CallInitialize)
    /\ WF_rvars(Read)
    /\ WF_rvars(CallEnsure)
    /\ \A e \in Entity : /\ WF_rvars(Step(BrokerHandles(e)))
                         /\ WF_rvars(Step(ReceiveReply(e)))
                         /\ WF_rvars(Step(CallFails(e)))
    /\ WF_rvars(Step(NextTier))
    /\ WF_rvars(Step(Finish))

-----------------------------------------------------------------------------
(* Every desired entity exists on the broker.                              *)
Converged == \A e \in Desired : Present(broker, e)

(* Once the faults have stopped, the reconcile loop converges: the broker  *)
(* ends up holding every desired entity, and from then on no pass of       *)
(* EnsureEntities fails.  A stale mirror that makes creates fail forever   *)
(* (the state never re-initialized after an error) violates it.            *)
EventuallyConverges == <>[](Converged /\ ~err)

=============================================================================
