---------------------- MODULE BrokerReconciler_proofs ----------------------
(***************************************************************************)
(* The reconcile loop drives BrokerState only through its methods: every   *)
(* behaviour of BrokerReconciler, projected on BrokerState's variables, is *)
(* a behaviour of BrokerState.  Everything proved of BrokerState therefore *)
(* holds under the controller, whatever list it passes.                    *)
(***************************************************************************)
EXTENDS BrokerReconciler, BrokerState_refinement

(* The controller's desired list is one a caller may pass.                 *)
LEMMA DesiredInput == Desired \in Inputs
BY ReconcilerAssumption

LEMMA RInitInit == RInit => Init
BY DEF RInit

(* Every reconciler step is a BrokerState step or leaves its variables     *)
(* alone.                                                                  *)
LEMMA RNextNext == [RNext]_rvars => [Next]_vars
<1> SUFFICES ASSUME [RNext]_rvars PROVE [Next]_vars
  OBVIOUS
<1>1. CASE CallInitialize
  BY <1>1 DEF CallInitialize, Next
<1>2. CASE Read
  BY <1>2 DEF Read, Next
<1>3. CASE CallEnsure
  BY <1>3, DesiredInput DEF CallEnsure, Next
<1>4. CASE ReadFails
  BY <1>4 DEF ReadFails, Next
<1>5. ASSUME NEW e \in Entity,
             Step(BrokerHandles(e) \/ ReceiveReply(e) \/ TimesOut(e) \/ CallFails(e))
      PROVE  [Next]_vars
  BY <1>5 DEF Step, Next
<1>6. CASE Step(NextTier) \/ Step(Finish) \/ Step(ConnectionDrop)
  BY <1>6 DEF Step, Next
<1>7. ASSUME NEW k \in Kinds, NEW n \in Names, Step(BrokerRestart(k, n))
      PROVE  [Next]_vars
  BY <1>7 DEF Step, Next
<1>8. CASE UNCHANGED rvars
  BY <1>8 DEF rvars
<1>. QED
  BY <1>1, <1>2, <1>3, <1>4, <1>5, <1>6, <1>7, <1>8 DEF RNext

(* The controller's loop (Initialize, then EnsureEntities with its list,   *)
(* on every pass, with failing reads) is a caller BrokerState's safety     *)
(* results cover: its behaviours are BrokerState behaviours.               *)
THEOREM ReconcilerRefinesBrokerState == RSpec => Spec
BY RInitInit, RNextNext, PTL DEF RSpec, Spec

(* Under the reconcile loop, the mirror between calls agrees with the      *)
(* broker in the session Initialize read, and the state implements the     *)
(* abstract mirror.                                                        *)
THEOREM ReconcilerMirrorSound ==
    RSpec => []MirrorSound /\ ImplementsBrokerMirror
BY ReconcilerRefinesBrokerState, MirrorSoundHolds, RefinesBrokerMirror

=============================================================================
