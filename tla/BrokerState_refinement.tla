--------------------- MODULE BrokerState_refinement ---------------------
(***************************************************************************)
(* BrokerState implements BrokerMirror under the mapping                  *)
(* view <- View, trusted <- Trusted, for every value of the constants.     *)
(* The step simulation rests on the inductive invariant IInv of            *)
(* BrokerState_proofs.                                                     *)
(***************************************************************************)
EXTENDS BrokerState_proofs

(* The abstract mirror's maps are BrokerState's type-keyed maps.           *)
LEMMA MapSame == Mirror!Map = MapType
BY DEF Mirror!Map, Mirror!Kinds, Mirror!Value, MapType, Kinds, Value

(* Folding a set of entities into a map keeps the map's type.             *)
LEMMA FoldType ==
    ASSUME NEW A \in SUBSET Entity, NEW m \in MapType, NEW op
    PROVE  Fold(A, m, op) \in MapType
<1>1. ASSUME NEW k \in Kinds, NEW n \in Names,
             \E e \in A : e.kind = k /\ e.name = n
      PROVE  (CHOOSE e \in A : e.kind = k /\ e.name = n).attr \in Value
  <2>1. (CHOOSE e \in A : e.kind = k /\ e.name = n) \in Entity
    BY <1>1
  <2>. QED
    BY <2>1 DEF Entity, Value
<1>2. \A k \in Kinds, n \in Names : m[k][n] \in Value /\ Absent \in Value
  BY DEF MapType, Value
<1>. QED
  BY <1>1, <1>2 DEF Fold, MapType

(* In a set with one entity per identity, the fold writes that entity's   *)
(* field (or Absent, for a delete) at its identity and leaves the map     *)
(* alone at an identity of no entity of the set.                          *)
LEMMA FoldCell ==
    ASSUME NEW A, NEW m, NEW op, NEW k \in Kinds, NEW n \in Names,
           \A x, y \in A : Equals(x, y) => x = y
    PROVE  /\ \A f \in A : f.kind = k /\ f.name = n =>
                 Fold(A, m, op)[k][n] = IF op = "ensure" THEN f.attr ELSE Absent
           /\ (~\E f \in A : f.kind = k /\ f.name = n) =>
                 Fold(A, m, op)[k][n] = m[k][n]
<1>1. ASSUME NEW f \in A, f.kind = k /\ f.name = n
      PROVE  Fold(A, m, op)[k][n] = IF op = "ensure" THEN f.attr ELSE Absent
  <2> DEFINE c == CHOOSE e \in A : e.kind = k /\ e.name = n
  <2>1. c \in A /\ c.kind = k /\ c.name = n
    BY <1>1
  <2>2. c = f
    BY <1>1, <2>1 DEF Equals
  <2>. QED
    BY <1>1, <2>2 DEF Fold
<1>2. (~\E f \in A : f.kind = k /\ f.name = n) => Fold(A, m, op)[k][n] = m[k][n]
  BY DEF Fold
<1>. QED
  BY <1>1, <1>2

(* The view of a type-correct state, and of the next one, has the map     *)
(* type.                                                                   *)
LEMMA ViewType ==
    ASSUME TypeOK PROVE View \in MapType
<1>1. Applied \in SUBSET Entity
  BY DEF Applied, TypeOK
<1>. QED
  BY <1>1, FoldType DEF View, TypeOK, MapType

LEMMA ViewTypePrime ==
    ASSUME TypeOK' PROVE View' \in MapType
<1>1. Applied' \in SUBSET Entity
  BY DEF Applied, TypeOK
<1>2. mirror' \in MapType
  BY DEF TypeOK, MapType
<1>. QED
  BY <1>1, <1>2, FoldType DEF View


(* Folding no entity leaves every cell of the map as it is.              *)
LEMMA FoldEmpty ==
    ASSUME NEW m, NEW op
    PROVE  Fold({}, m, op) = [k \in Kinds |-> [n \in Names |-> m[k][n]]]
BY DEF Fold

(* Between calls nothing is applied and unfolded: the view is the mirror. *)
LEMMA QuietView ==
    ASSUME TypeOK, call = NoCalls, completed = {}
    PROVE  View = [k \in Kinds |-> [n \in Names |-> mirror[k][n]]]
<1>1. Applied = {}
  BY DEF Applied, NoCalls
<1>. QED
  BY <1>1, FoldEmpty DEF View

(* The applied calls have one entity per identity.                        *)
LEMMA AppliedUnique ==
    ASSUME IInv PROVE \A x, y \in Applied : Equals(x, y) => x = y
BY AppliedInInput DEF IInv, UniqueIds

(* The broker acknowledges a sent call: the view changes at that entity's *)
(* identity, to its field for EnsureEntities and to Absent for            *)
(* DeleteEntities, exactly as the broker does.                            *)
LEMMA AckView ==
    ASSUME IInv, NEW e \in Entity, call[e] = "sent",
           call' = [call EXCEPT ![e] = "ack"],
           UNCHANGED <<mirror, pc, opInput, completed>>
    PROVE  View' = [View EXCEPT ![e.kind][e.name] =
                       IF pc = "ensure" THEN e.attr ELSE Absent]
<1> DEFINE v == IF pc = "ensure" THEN e.attr ELSE Absent
<1>1. Applied' = Applied \cup {e}
  BY DEF Applied, IInv, TypeOK
<1>2. e \in opInput /\ e \notin Applied
  BY DEF IInv, CallsOfTier, Applied
<1>3. \A f \in Applied : ~(f.kind = e.kind /\ f.name = e.name)
  BY <1>2, AppliedInInput DEF IInv, UniqueIds, Equals
<1>4. \A x, y \in Applied' : Equals(x, y) => x = y
  BY <1>1, <1>2, AppliedInInput DEF IInv, UniqueIds
<1>5. \A x, y \in Applied : Equals(x, y) => x = y
  BY AppliedUnique
<1>6. ASSUME NEW k \in Kinds, NEW n \in Names
      PROVE  View'[k][n] = IF k = e.kind /\ n = e.name THEN v ELSE View[k][n]
  <2>1. CASE k = e.kind /\ n = e.name
    <3>1. e \in Applied'
      BY <1>1
    <3>. QED
      BY <2>1, <3>1, <1>4, FoldCell DEF View
  <2>2. CASE ~(k = e.kind /\ n = e.name) /\ \E f \in Applied : f.kind = k /\ f.name = n
    <3>1. PICK f \in Applied : f.kind = k /\ f.name = n
      BY <2>2
    <3>2. f \in Applied'
      BY <1>1
    <3>3. View'[k][n] = IF pc = "ensure" THEN f.attr ELSE Absent
      BY <3>1, <3>2, <1>4, FoldCell DEF View
    <3>4. View[k][n] = IF pc = "ensure" THEN f.attr ELSE Absent
      BY <3>1, <1>5, FoldCell DEF View
    <3>. QED
      BY <2>2, <3>3, <3>4
  <2>3. CASE ~(k = e.kind /\ n = e.name) /\ ~\E f \in Applied : f.kind = k /\ f.name = n
    <3>1. ~\E f \in Applied' : f.kind = k /\ f.name = n
      BY <2>3, <1>1
    <3>2. View'[k][n] = mirror[k][n] /\ View[k][n] = mirror[k][n]
      BY <2>3, <3>1, <1>4, <1>5, FoldCell DEF View
    <3>. QED
      BY <2>3, <3>2
  <2>. QED
    BY <2>1, <2>2, <2>3
<1>7. e.kind \in Kinds /\ e.name \in Names
  BY DEF Entity
<1>8. View' = [k \in Kinds |-> [n \in Names |-> View'[k][n]]]
      /\ View = [k \in Kinds |-> [n \in Names |-> View[k][n]]]
  BY DEF View, Fold
<1>. QED
  BY <1>6, <1>7, <1>8

-----------------------------------------------------------------------------
(* The kinds of concrete step, as abstract steps.                        *)

(* A step that changes neither the broker, nor the view, nor the trust.   *)
LEMMA StutterRefines ==
    ASSUME broker' = broker, View' = View, Trusted' = Trusted
    PROVE  [Mirror!Next]_Mirror!avars
BY DEF Mirror!avars

(* A step that ends with the view untrusted, from an untrusted state or   *)
(* leaving the broker as it was or with one entity lost.                  *)
LEMMA DistrustRefines ==
    ASSUME TypeOK', ~Trusted',
           \/ ~Trusted
           \/ broker' = broker
           \/ \E k \in Kinds, n \in Names : broker' = [broker EXCEPT ![k][n] = Absent]
    PROVE  [Mirror!Next]_Mirror!avars
<1>1. View' \in Mirror!Map /\ broker' \in Mirror!Map
  BY ViewTypePrime, MapSame DEF TypeOK, MapType
<1>2. CASE ~Trusted
  BY <1>1, <1>2 DEF Mirror!Next, Mirror!Drift
<1>3. CASE Trusted
  BY <1>1, <1>3 DEF Mirror!Next, Mirror!Distrust, Mirror!Kinds, Kinds
<1>. QED
  BY <1>2, <1>3

(* A trusted acknowledged call is an abstract write of its entity.        *)
LEMMA AckRefines ==
    ASSUME IInv, NEW e \in Entity, Trusted, BrokerHandles(e), Accepts(pc, e)
    PROVE  [Mirror!Next]_Mirror!avars
<1> DEFINE v == IF pc = "ensure" THEN e.attr ELSE Absent
<1>1. call' = [call EXCEPT ![e] = "ack"] /\ broker' = Apply(pc, e)
      /\ UNCHANGED <<mirror, initialized, reconnectCount, clientRc, pc, opInput,
                     completed, err>>
  BY DEF BrokerHandles
<1>2. View' = [View EXCEPT ![e.kind][e.name] = v]
  BY <1>1, AckView DEF BrokerHandles
<1>3. broker' = [broker EXCEPT ![e.kind][e.name] = v]
  BY <1>1 DEF Apply
<1>4. Trusted'
  BY <1>1 DEF Trusted, SameSession
<1>5. e.kind \in Mirror!Kinds /\ e.name \in Names /\ v \in Mirror!Value
  BY DEF Entity, Mirror!Kinds, Kinds, Mirror!Value
<1>6. Mirror!Write(e.kind, e.name, v)
  BY <1>2, <1>3, <1>4 DEF Mirror!Write
<1>. QED
  BY <1>5, <1>6 DEF Mirror!Next


(* A step that keeps the applied calls, the mirror and the trust.         *)
LEMMA SameViewRefines ==
    ASSUME Applied' = Applied,
           UNCHANGED <<broker, mirror, pc, initialized, reconnectCount, clientRc, err>>
    PROVE  [Mirror!Next]_Mirror!avars
<1>1. View' = View
  BY DEF View
<1>2. Trusted' = Trusted
  BY DEF Trusted, SameSession
<1>. QED
  BY <1>1, <1>2, StutterRefines

(* The last read of Initialize in the session it recorded gains the       *)
(* trust: the view is then the mirror, which agrees with the broker.      *)
LEMMA EstablishRefines ==
    ASSUME IInv', ~Trusted, Trusted', pc' = "idle", broker' = broker
    PROVE  [Mirror!Next]_Mirror!avars
<1>1. Applied' = {}
  BY DEF IInv, Quiescent, Applied, NoCalls
<1>2. View' = [k \in Kinds |-> [n \in Names |-> mirror'[k][n]]]
  BY <1>1, FoldEmpty DEF View
<1>3. MirrorSound' /\ initialized' /\ SameSession'
  BY DEF IInv, Trusted
<1>4. Mirror!Agrees(View', broker')
  BY <1>2, <1>3 DEF MirrorSound, Mirror!Agrees, Mirror!NameListed, NameListed, Kinds
<1>5. View' \in Mirror!Map
  BY ViewTypePrime, MapSame DEF IInv
<1>. QED
  BY <1>4, <1>5 DEF Mirror!Next, Mirror!Establish

(* The tier loop ends without error: the drain folds exactly the applied  *)
(* calls into the mirror, so the view stays as it was.                    *)
LEMMA FinishOkRefines ==
    ASSUME IInv, IInv', Finish, ~err
    PROVE  [Mirror!Next]_Mirror!avars
<1>1. /\ pc \in {"ensure", "delete"}
      /\ \A f \in Entity : call[f] \in {"none", "done"}
      /\ mirror' = Fold(completed, mirror, pc) /\ pc' = "idle"
      /\ call' = NoCalls /\ completed' = {} /\ ~err'
      /\ UNCHANGED <<broker, reconnectCount>>
  BY DEF Finish, TierJoined, Folded
<1>2. Applied = completed
  BY <1>1 DEF Applied
<1>3. View' = [k \in Kinds |-> [n \in Names |-> mirror'[k][n]]]
  <2>1. Applied' = {}
    BY <1>1 DEF Applied, NoCalls
  <2>. QED
    BY <2>1, FoldEmpty DEF View
<1>4. View' = View
  BY <1>1, <1>2, <1>3 DEF View, Fold
<1>5. Trusted' = Trusted
  BY <1>1, FinishReset DEF IInv, Trusted, SameSession
<1>. QED
  BY <1>1, <1>4, <1>5, StutterRefines

(* Every step of BrokerState, from a state of the invariant to one, is a  *)
(* step of BrokerMirror or leaves the broker, the view and the trust as  *)
(* they were.                                                             *)
LEMMA NextRefines ==
    IInv /\ IInv' /\ [Next]_vars => [Mirror!Next]_Mirror!avars
<1> SUFFICES ASSUME IInv, IInv', [Next]_vars PROVE [Mirror!Next]_Mirror!avars
  OBVIOUS
<1>0. TypeOK /\ TypeOK'
  BY DEF IInv
<1>1. CASE InitializeCurrent \/ NotInitialized \/ Terminated \/ UNCHANGED vars
  <2>1. UNCHANGED vars
    BY <1>1 DEF InitializeCurrent, NotInitialized, Terminated
  <2>. QED
    BY <2>1, SameViewRefines DEF vars, Applied
<1>2. CASE Initialize
  BY <1>0, <1>2, DistrustRefines DEF Initialize, Trusted
<1>3. CASE InitRead
  <2>1. ~Trusted /\ broker' = broker
    BY <1>3 DEF InitRead, Trusted
  <2>2. CASE Trusted'
    BY <1>3, <2>1, <2>2, EstablishRefines DEF InitRead, Trusted
  <2>3. CASE ~Trusted'
    BY <1>0, <2>1, <2>3, DistrustRefines
  <2>. QED
    BY <2>2, <2>3
<1>4. CASE InitReadFails
  <2>1. ~initialized' /\ broker' = broker
    BY <1>4 DEF InitReadFails, IInv, Quiescent
  <2>. QED
    BY <1>0, <2>1, DistrustRefines DEF Trusted
<1>5. ASSUME NEW D \in Inputs, EnsureEntities(D) \/ DeleteEntities(D)
      PROVE  [Mirror!Next]_Mirror!avars
  <2>1. call = NoCalls /\ completed = {} /\ pc = "idle"
    BY <1>5 DEF EnsureEntities, DeleteEntities, IInv, Quiescent
  <2>2. CASE UNCHANGED <<broker, mirror, pc, initialized, reconnectCount, clientRc,
                         call, completed, err>>
    BY <2>2, SameViewRefines DEF Applied
  <2>3. CASE /\ pc' \in {"ensure", "delete"}
             /\ \E op, t : Launch(op, D, t)
             /\ UNCHANGED <<broker, mirror, initialized, reconnectCount, clientRc,
                            completed, err>>
    <3>1. Applied = {} /\ Applied' = {}
      BY <2>1, <2>3, LaunchFacts DEF Applied, NoCalls
    <3>2. View' = View
      BY <2>3, <3>1, FoldEmpty DEF View
    <3>3. Trusted' = Trusted
      BY <2>1, <2>3 DEF Trusted, SameSession
    <3>. QED
      BY <2>3, <3>2, <3>3, StutterRefines
  <2>. QED
    BY <1>5, <2>2, <2>3 DEF EnsureEntities, DeleteEntities
<1>6. ASSUME NEW e \in Entity, BrokerHandles(e)
      PROVE  [Mirror!Next]_Mirror!avars
  <2>1. Trusted' = Trusted
    BY <1>6 DEF BrokerHandles, Trusted, SameSession
  <2>2. CASE ~Trusted
    BY <1>0, <2>1, <2>2, DistrustRefines
  <2>3. CASE Trusted /\ Accepts(pc, e)
    BY <1>6, <2>3, AckRefines
  <2>4. CASE ~Accepts(pc, e)
    <3>1. call' = [call EXCEPT ![e] = "nack"] /\ call[e] = "sent"
      BY <1>6, <2>4 DEF BrokerHandles
    <3>2. Applied' = Applied
      BY <1>0, <1>6, <3>1 DEF Applied, TypeOK, BrokerHandles
    <3>. QED
      BY <1>6, <2>4, <3>2, SameViewRefines DEF BrokerHandles
  <2>. QED
    BY <2>2, <2>3, <2>4
<1>7. ASSUME NEW e \in Entity, ReceiveReply(e)
      PROVE  [Mirror!Next]_Mirror!avars
  <2>1. CASE call[e] = "ack"
    <3>1. Applied' = Applied /\ err' = err
      BY <1>0, <1>7, <2>1 DEF ReceiveReply, Applied, TypeOK
    <3>. QED
      BY <1>7, <3>1, SameViewRefines DEF ReceiveReply
  <2>2. CASE call[e] = "nack"
    BY <1>0, <1>7, <2>2, DistrustRefines DEF ReceiveReply, Trusted
  <2>. QED
    BY <1>7, <2>1, <2>2 DEF ReceiveReply
<1>8. ASSUME NEW e \in Entity, TimesOut(e) \/ CallFails(e)
      PROVE  [Mirror!Next]_Mirror!avars
  BY <1>0, <1>8, DistrustRefines DEF TimesOut, CallFails, Trusted
<1>9. CASE NextTier
  <2>1. \A f \in Entity : call[f] \in {"none", "done"}
    BY <1>9 DEF NextTier, TierJoined
  <2>2. \E op, t : Launch(op, opInput, t)
    BY <1>9 DEF NextTier
  <2>3. Applied' = Applied
    BY <1>9, <2>1, <2>2, LaunchFacts DEF NextTier, Applied
  <2>. QED
    BY <1>9, <2>3, SameViewRefines DEF NextTier
<1>10. CASE Finish
  <2>1. CASE ~err
    BY <1>10, <2>1, FinishOkRefines
  <2>2. CASE err
    BY <1>0, <1>10, <2>2, FinishReset, DistrustRefines DEF Finish, Trusted
  <2>. QED
    BY <2>1, <2>2
<1>11. CASE Shutdown
  BY <1>0, <1>11, DistrustRefines DEF Shutdown, Trusted
<1>12. CASE ConnectionDrop
  <2>1. ~SameSession' /\ broker' = broker
    BY <1>12 DEF ConnectionDrop, IInv, CountBehind, SameSession, TypeOK
  <2>. QED
    BY <1>0, <2>1, DistrustRefines DEF Trusted
<1>13. ASSUME NEW k \in Kinds, NEW n \in Names, BrokerRestart(k, n)
       PROVE  [Mirror!Next]_Mirror!avars
  <2>1. ~SameSession' /\ broker' = [broker EXCEPT ![k][n] = Absent]
    BY <1>13 DEF BrokerRestart, IInv, CountBehind, SameSession, TypeOK
  <2>. QED
    BY <1>0, <2>1, DistrustRefines DEF Trusted
<1>. QED
  BY <1>1, <1>2, <1>3, <1>4, <1>5, <1>6, <1>7, <1>8, <1>9, <1>10, <1>11,
     <1>12, <1>13 DEF Next


-----------------------------------------------------------------------------
(* The initial state is the abstract one: an empty, untrusted view.       *)
LEMMA InitRefines == Init => Mirror!Init
<1> SUFFICES ASSUME Init PROVE Mirror!Init
  OBVIOUS
<1>1. TypeOK
  BY InitTypeOK
<1>2. View = [k \in Kinds |-> [n \in Names |-> mirror[k][n]]]
  BY <1>1, QuietView DEF Init
<1>3. View = [k \in Mirror!Kinds |-> [n \in Names |-> Absent]]
  BY <1>2 DEF Init, EmptyMap, Mirror!Kinds, Kinds
<1>4. broker \in Mirror!Map /\ ~Trusted
  BY MapSame DEF Init, MapType, Trusted
<1>. QED
  BY <1>3, <1>4 DEF Mirror!Init

(* For every set of names and field values and every bound, BrokerState   *)
(* implements BrokerMirror: the view (the mirror with the running         *)
(* operation's acknowledged calls folded in) becomes trusted only at the  *)
(* end of Initialize's reads in the session it recorded, and while it is  *)
(* trusted every change to the broker is an acknowledged create or delete *)
(* of the running EnsureEntities or DeleteEntities that the view records; *)
(* reconnects, broker restarts, Reset and failed calls withdraw the trust. *)
THEOREM RefinesBrokerMirror == Spec => ImplementsBrokerMirror
<1>1. Init => IInv
  BY InitIInv
<1>2. IInv /\ [Next]_vars => IInv'
  BY NextIInv
<1>3. IInv /\ IInv' /\ [Next]_vars => [Mirror!Next]_Mirror!avars
  BY NextRefines
<1>. QED
  BY <1>1, <1>2, <1>3, InitRefines, PTL DEF Spec, ImplementsBrokerMirror, Mirror!Spec

(* Hence, through the abstract invariant: whenever the view is trusted,   *)
(* between calls and in the middle of EnsureEntities or DeleteEntities,   *)
(* the mirror with the acknowledged calls folded in lists exactly the     *)
(* broker's queues, addresses and diverts and holds only address settings *)
(* the broker has with the same fields.                                   *)
THEOREM TrustedViewAgrees == Spec => [](Trusted => Mirror!Agrees(View, broker))
<1>1. Mirror!Spec => [](Mirror!TypeOK /\ Mirror!TrustedAgrees)
  BY Mirror!AgreementHolds
<1>2. (Mirror!TypeOK /\ Mirror!TrustedAgrees) => (Trusted => Mirror!Agrees(View, broker))
  BY DEF Mirror!TrustedAgrees
<1>. QED
  BY <1>1, <1>2, RefinesBrokerMirror, PTL DEF ImplementsBrokerMirror

=============================================================================
