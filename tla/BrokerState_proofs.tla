------------------------- MODULE BrokerState_proofs -------------------------
(***************************************************************************)
(* Proofs about BrokerState for every value of the constants.              *)
(***************************************************************************)
EXTENDS BrokerState, TLAPS

MapType == [Kinds -> [Names -> Value]]

(* Writing a value into one cell of a type-keyed map keeps its type.      *)
LEMMA MapUpdateType ==
    ASSUME NEW m \in MapType, NEW k \in Kinds, NEW n \in Names,
           NEW v \in Value
    PROVE  [m EXCEPT ![k][n] = v] \in MapType
BY DEF MapType

(* readEntities returns a name-keyed map of the mirror's value type.      *)
LEMMA ReadEntitiesType ==
    ASSUME TypeOK, NEW k \in Kinds
    PROVE  readEntities(k) \in [Names -> Value]
BY ConstantsAssumption DEF readEntities, TypeOK, Value

(* Folding the completed channel into the mirror keeps the mirror's type. *)
LEMMA FoldedType ==
    ASSUME TypeOK, NEW op
    PROVE  Folded(op) \in MapType
<1>1. ASSUME NEW k \in Kinds, NEW n \in Names,
             \E e \in completed : e.kind = k /\ e.name = n
      PROVE  (CHOOSE e \in completed : e.kind = k /\ e.name = n).attr \in Value
  <2>1. PICK c \in completed : c.kind = k /\ c.name = n
    BY <1>1
  <2>2. (CHOOSE e \in completed : e.kind = k /\ e.name = n) \in Entity
    BY <2>1 DEF TypeOK
  <2>. QED
    BY <2>2 DEF Entity, Value
<1>2. \A k \in Kinds, n \in Names : mirror[k][n] \in Value
  BY DEF TypeOK
<1>3. \A k \in Kinds, n \in Names : Absent \in Value
  BY DEF Value
<1>. QED
  BY <1>1, <1>2, <1>3 DEF Folded, Fold, MapType

(* A tier's launch gives every entity a call state.                       *)
LEMMA LaunchType ==
    ASSUME NEW op, NEW D, NEW t, Launch(op, D, t)
    PROVE  call' \in [Entity -> CallState]
BY DEF Launch, CallState

(* Entity types are read in a list of four.                              *)
LEMMA InitOrderLen == Len(InitOrder) = 4
BY DEF InitOrder

LEMMA InitTypeOK == Init => TypeOK
<1> SUFFICES ASSUME Init PROVE TypeOK
  OBVIOUS
<1>1. mirror \in MapType
  BY DEF Init, EmptyMap, MapType, Value
<1>2. call \in [Entity -> CallState]
  BY DEF Init, NoCalls, CallState
<1>3. initIdx \in 1..Len(InitOrder) /\ tier \in 0..(maxOrder - 1)
  BY InitOrderLen DEF Init, maxOrder
<1>. QED
  BY <1>1, <1>2, <1>3 DEF Init, TypeOK, MapType

LEMMA NextTypeOK == TypeOK /\ [Next]_vars => TypeOK'
<1> SUFFICES ASSUME TypeOK, [Next]_vars PROVE TypeOK'
  OBVIOUS
<1> USE DEF TypeOK
<1>1. CASE InitializeCurrent
  BY <1>1 DEF InitializeCurrent, vars
<1>2. CASE Initialize
  <2>1. initIdx' \in 1..Len(InitOrder)
    BY <1>2, InitOrderLen DEF Initialize
  <2>2. reconnectCount' \in Nat /\ initialized' \in BOOLEAN
    BY <1>2 DEF Initialize
  <2>3. UNCHANGED <<broker, mirror, clientRc, opInput, tier, call, completed, err>>
    BY <1>2 DEF Initialize
  <2>4. pc' = "init"
    BY <1>2 DEF Initialize
  <2>. QED
    BY <2>1, <2>2, <2>3, <2>4
<1>3. CASE InitRead
  <2> DEFINE k == InitOrder[initIdx]
  <2>1. k \in Kinds
    BY InitOrderLen DEF InitOrder, Kinds
  <2>2. mirror' \in MapType
    BY <1>3, <2>1, ReadEntitiesType DEF InitRead, MapType
  <2>3. initIdx' \in 1..Len(InitOrder)
    BY <1>3, InitOrderLen DEF InitRead
  <2>. QED
    BY <1>3, <2>2, <2>3 DEF InitRead, MapType
<1>4. CASE InitReadFails
  BY <1>4 DEF InitReadFails
<1>5. CASE NotInitialized
  BY <1>5 DEF NotInitialized, vars
<1>6. ASSUME NEW D \in Inputs, EnsureEntities(D)
      PROVE  TypeOK'
  <2>1. D \in SUBSET Entity
    BY DEF Inputs
  <2>2. CASE \A e \in D : Present(mirror, e) => Equals(Stored(mirror, e), e)
    BY <1>6, <2>1, <2>2, LaunchType DEF EnsureEntities, maxOrder
  <2>3. CASE ~\A e \in D : Present(mirror, e) => Equals(Stored(mirror, e), e)
    BY <1>6, <2>3 DEF EnsureEntities
  <2>. QED
    BY <2>2, <2>3
<1>7. ASSUME NEW D \in Inputs, DeleteEntities(D)
      PROVE  TypeOK'
  BY <1>7, LaunchType DEF DeleteEntities, Inputs, maxOrder
<1>8. ASSUME NEW e \in Entity, BrokerHandles(e)
      PROVE  TypeOK'
  <2>1. broker' \in MapType
    <3>1. CASE Accepts(pc, e)
      <4>1. (IF pc = "ensure" THEN e.attr ELSE Absent) \in Value
        BY DEF Entity, Value
      <4>. QED
        BY <1>8, <3>1, <4>1, MapUpdateType DEF BrokerHandles, Apply, Entity,
           MapType
    <3>2. CASE ~Accepts(pc, e)
      BY <1>8, <3>2 DEF BrokerHandles, MapType
    <3>. QED
      BY <3>1, <3>2
  <2>. QED
    BY <1>8, <2>1 DEF BrokerHandles, MapType, CallState
<1>9. ASSUME NEW e \in Entity, ReceiveReply(e)
      PROVE  TypeOK'
  BY <1>9 DEF ReceiveReply, CallState
<1>10. ASSUME NEW e \in Entity, TimesOut(e)
       PROVE  TypeOK'
  BY <1>10 DEF TimesOut, CallState
<1>11. ASSUME NEW e \in Entity, CallFails(e)
       PROVE  TypeOK'
  BY <1>11 DEF CallFails, CallState
<1>12. CASE NextTier
  <2>1. call' \in [Entity -> CallState]
    BY <1>12, LaunchType DEF NextTier
  <2>2. tier' \in 0..(maxOrder - 1)
    BY <1>12 DEF NextTier, LastTier, TierJoined, maxOrder
  <2>. QED
    BY <1>12, <2>1, <2>2 DEF NextTier
<1>13. CASE Finish
  <2>1. mirror' \in MapType
    BY <1>13, FoldedType DEF Finish
  <2>2. clientRc' \in Nat
    BY <1>13 DEF Finish, Reset, isConnectionError
  <2>4. initialized' \in BOOLEAN
    BY <1>13, Zenon DEF Finish, Reset, isConnectionError
  <2>3. call' \in [Entity -> CallState] /\ tier' \in 0..(maxOrder - 1)
    BY <1>13 DEF Finish, NoCalls, CallState, maxOrder
  <2>. QED
    BY <1>13, <2>1, <2>2, <2>3, <2>4 DEF Finish, MapType
<1>14. CASE Shutdown
  BY <1>14 DEF Shutdown
<1>15. CASE Terminated
  BY <1>15 DEF Terminated, vars
<1>16. CASE ConnectionDrop
  BY <1>16 DEF ConnectionDrop, LoseInFlight, CallState
<1>17. ASSUME NEW k \in Kinds, NEW n \in Names, BrokerRestart(k, n)
       PROVE  TypeOK'
  <2>1. broker' \in MapType
    BY <1>17, MapUpdateType DEF BrokerRestart, MapType, Value
  <2>. QED
    BY <1>17, <2>1 DEF BrokerRestart, LoseInFlight, CallState, MapType
<1>18. CASE UNCHANGED vars
  BY <1>18 DEF vars
<1>. QED
  BY <1>1, <1>2, <1>3, <1>4, <1>5, <1>6, <1>7, <1>8, <1>9, <1>10, <1>11,
     <1>12, <1>13, <1>14, <1>15, <1>16, <1>17, <1>18 DEF Next

(* The state keeps the types of its Go fields in every reachable state.   *)
THEOREM TypeCorrect == Spec => []TypeOK
BY InitTypeOK, NextTypeOK, PTL DEF Spec

-----------------------------------------------------------------------------
(* The inductive strengthening of MirrorSound.                            *)

(* The client's count never falls behind the one Initialize recorded.     *)
CountBehind == reconnectCount <= clientRc

(* Identities are unique within the running operation's list.            *)
UniqueIds == \A x, y \in opInput : Equals(x, y) => x = y

(* Outside EnsureEntities/DeleteEntities no goroutine, channel or error  *)
(* is left over, and Initialize's reads run uninitialized.                *)
Quiescent ==
    /\ pc \in {"idle", "init", "shutdown"} =>
          call = NoCalls /\ completed = {} /\ ~err
    /\ pc = "init" => ~initialized

(* Calls belong to the list and to the running tier; the completed        *)
(* channel holds finished calls of this or an earlier tier.               *)
CallsOfTier ==
    /\ \A e \in Entity : call[e] # "none" => e \in opInput /\ Order(e) = tier
    /\ completed \subseteq opInput
    /\ \A e \in completed : call[e] \in {"none", "done"}
    /\ pc = "ensure" => \A e \in completed : Order(e) <= tier
    /\ pc = "delete" => \A e \in completed : Order(e) >= tier

(* A call is lost only with a reconnect.                                  *)
NoLostCalls == SameSession => \A e \in Entity : call[e] # "lost"

NamesMatch(k) ==
    \A n \in Names : (mirror[k][n] # Absent) <=> (broker[k][n] # Absent)

(* The types Initialize has read so far in this session match the broker. *)
InitProgress ==
    (pc = "init" /\ SameSession) =>
        \A i \in 1..(initIdx - 1) : InitOrder[i] \in NameListed =>
                                        NamesMatch(InitOrder[i])

AppliedAt(k, n) == \E e \in Applied : e.kind = k /\ e.name = n

(* While an operation runs without error in the session, the broker is    *)
(* the mirror with the applied calls of the operation folded in.          *)
OpSound ==
    (pc \in {"ensure", "delete"} /\ initialized /\ SameSession /\ ~err) =>
        /\ \A k \in NameListed, n \in Names :
              (broker[k][n] # Absent) <=>
                  IF pc = "ensure" THEN mirror[k][n] # Absent \/ AppliedAt(k, n)
                                   ELSE mirror[k][n] # Absent /\ ~AppliedAt(k, n)
        /\ \A n \in Names :
              mirror["AddressSetting"][n] # Absent /\ ~AppliedAt("AddressSetting", n)
                  => broker["AddressSetting"][n] = mirror["AddressSetting"][n]
        /\ \A e \in Applied :
              e.kind = "AddressSetting" =>
                  broker["AddressSetting"][e.name] =
                      IF pc = "ensure" THEN e.attr ELSE Absent

IInv ==
    /\ TypeOK
    /\ CountBehind
    /\ UniqueIds
    /\ Quiescent
    /\ CallsOfTier
    /\ NoLostCalls
    /\ InitProgress
    /\ MirrorSound
    /\ OpSound

-----------------------------------------------------------------------------
(* Facts the preservation proofs share.                                    *)

(* Queues are the only entities of order 1; every other type has order 0. *)
LEMMA OrderFacts ==
    ASSUME NEW e \in Entity
    PROVE  /\ Order(e) \in {0, 1}
           /\ Order(e) = 1 <=> e.kind = "Queue"
BY DEF Order, EntityType, BrokerQueue, BrokerAddress, BrokerDivert,
       BrokerAddressSetting, Entity, Kinds

(* A field value is never the Absent marker.                              *)
LEMMA AttrNotAbsent ==
    ASSUME NEW a \in Attrs PROVE a # Absent
BY ConstantsAssumption

LEMMA InitIInv == Init => IInv
<1> SUFFICES ASSUME Init PROVE IInv
  OBVIOUS
<1>1. TypeOK
  BY InitTypeOK
<1>2. Quiescent /\ CallsOfTier /\ NoLostCalls
  BY DEF Init, Quiescent, CallsOfTier, NoLostCalls, NoCalls
<1>3. CountBehind /\ UniqueIds /\ InitProgress /\ MirrorSound /\ OpSound
  BY DEF Init, CountBehind, UniqueIds, InitProgress, MirrorSound, OpSound
<1>. QED
  BY <1>1, <1>2, <1>3 DEF IInv

(* A step that changes no variable keeps IInv.                            *)
LEMMA StutterIInv ==
    ASSUME IInv, UNCHANGED vars PROVE IInv'
BY DEF vars, IInv, TypeOK, CountBehind, UniqueIds, Quiescent, CallsOfTier,
       NoLostCalls, SameSession, InitProgress, NamesMatch, MirrorSound,
       OpSound, Applied, AppliedAt

LEMMA InitializeIInv ==
    ASSUME IInv, TypeOK', Initialize PROVE IInv'
<1> USE DEF IInv
<1>1. pc' = "init" /\ ~initialized' /\ initIdx' = 1 /\ reconnectCount' = clientRc
  BY DEF Initialize
<1>2. UNCHANGED <<broker, mirror, clientRc, opInput, tier, call, completed, err>>
  BY DEF Initialize
<1>3. call = NoCalls /\ completed = {} /\ ~err
  BY DEF Initialize, Quiescent
<1>4. CountBehind' /\ UniqueIds'
  BY <1>1, <1>2 DEF CountBehind, UniqueIds, TypeOK
<1>5. Quiescent' /\ NoLostCalls'
  BY <1>1, <1>2, <1>3 DEF Quiescent, NoLostCalls, NoCalls
<1>6. CallsOfTier'
  BY <1>1, <1>2, <1>3 DEF CallsOfTier, NoCalls
<1>7. InitProgress' /\ MirrorSound' /\ OpSound'
  BY <1>1 DEF InitProgress, MirrorSound, OpSound
<1>. QED
  BY <1>4, <1>5, <1>6, <1>7

LEMMA InitReadFailsIInv ==
    ASSUME IInv, TypeOK', InitReadFails PROVE IInv'
<1> USE DEF IInv
<1>1. pc' = "idle" /\ ~initialized'
  BY DEF InitReadFails, Quiescent
<1>2. UNCHANGED <<broker, mirror, reconnectCount, clientRc, opInput, tier,
                  call, completed, err>>
  BY DEF InitReadFails
<1>3. call = NoCalls /\ completed = {} /\ ~err
  BY DEF InitReadFails, Quiescent
<1>4. CountBehind' /\ UniqueIds' /\ Quiescent' /\ NoLostCalls'
  BY <1>1, <1>2, <1>3 DEF CountBehind, UniqueIds, Quiescent, NoLostCalls,
                          NoCalls
<1>5. CallsOfTier'
  BY <1>1, <1>2, <1>3 DEF CallsOfTier, NoCalls
<1>6. InitProgress' /\ MirrorSound' /\ OpSound'
  BY <1>1 DEF InitProgress, MirrorSound, OpSound
<1>. QED
  BY <1>4, <1>5, <1>6

(* A read of a name-listed type makes that type's names match the broker. *)
LEMMA ReadMatches ==
    ASSUME TypeOK, NEW k \in NameListed
    PROVE  \A n \in Names : (readEntities(k)[n] # Absent) <=> (broker[k][n] # Absent)
BY ConstantsAssumption DEF readEntities, NameListed

(* The read types are distinct: InitOrder lists each type once.           *)
LEMMA InitOrderDistinct ==
    ASSUME NEW i \in 1..4, NEW j \in 1..4, i # j
    PROVE  InitOrder[i] # InitOrder[j]
BY DEF InitOrder

LEMMA InitReadIInv ==
    ASSUME IInv, TypeOK', InitRead PROVE IInv'
<1> USE DEF IInv
<1> DEFINE k == InitOrder[initIdx]
<1>1. initIdx \in 1..4 /\ pc = "init"
  BY InitOrderLen DEF InitRead, TypeOK
<1>2. /\ mirror' = [mirror EXCEPT ![k] = readEntities(k)]
      /\ UNCHANGED <<broker, reconnectCount, clientRc, opInput, tier, call,
                     completed, err>>
  BY DEF InitRead
<1>3. call = NoCalls /\ completed = {} /\ ~err /\ ~initialized
  BY <1>1 DEF Quiescent
<1>4. pc' \in {"init", "idle"} /\ (pc' = "init" => ~initialized')
  BY <1>1, <1>3, InitOrderLen DEF InitRead
<1>5. CountBehind' /\ UniqueIds' /\ Quiescent' /\ NoLostCalls' /\ CallsOfTier'
  BY <1>2, <1>3, <1>4 DEF CountBehind, UniqueIds, Quiescent, NoLostCalls,
                          CallsOfTier, NoCalls
<1>6. OpSound'
  BY <1>4 DEF OpSound
<1>7. k \in Kinds
  BY <1>1 DEF InitOrder, Kinds
<1>8. \A j \in Kinds : j # k => mirror'[j] = mirror[j]
  BY <1>2, <1>7 DEF TypeOK
<1>9. CASE initIdx < 4
  <2>1. pc' = "init" /\ initIdx' = initIdx + 1
    BY <1>9, InitOrderLen DEF InitRead
  <2>2. MirrorSound'
    BY <2>1 DEF MirrorSound
  <2>3. InitProgress'
    <3> SUFFICES ASSUME SameSession, NEW i \in 1..initIdx,
                        InitOrder[i] \in NameListed
                 PROVE  NamesMatch(InitOrder[i])'
      BY <1>1, <1>2, <2>1 DEF InitProgress, SameSession
    <3>1. CASE i = initIdx
      BY <3>1, <1>2, <1>7, ReadMatches DEF NamesMatch, TypeOK
    <3>2. CASE i # initIdx
      <4>1. InitOrder[i] # k /\ InitOrder[i] \in Kinds
        BY <3>2, <1>1, InitOrderDistinct DEF InitOrder, Kinds
      <4>2. NamesMatch(InitOrder[i])
        BY <3>2, <1>1 DEF InitProgress
      <4>. QED
        BY <4>1, <4>2, <1>2, <1>8 DEF NamesMatch
    <3>. QED
      BY <3>1, <3>2
  <2>. QED
    BY <1>5, <1>6, <2>2, <2>3
<1>10. CASE initIdx = 4
  <2>1. pc' = "idle" /\ initialized'
    BY <1>10, InitOrderLen DEF InitRead
  <2>2. InitProgress'
    BY <2>1 DEF InitProgress
  <2>3. MirrorSound'
    <3> SUFFICES ASSUME SameSession
                 PROVE  MirrorSound'
      BY <1>2, <2>1 DEF MirrorSound, SameSession
    <3>1. k = "AddressSetting"
      BY <1>10 DEF InitOrder
    <3>2. \A kk \in NameListed : NamesMatch(kk)
      <4>1. \A i \in 1..3 : InitOrder[i] \in NameListed => NamesMatch(InitOrder[i])
        BY <1>1, <1>10 DEF InitProgress
      <4>2. NameListed = {InitOrder[1], InitOrder[2], InitOrder[3]}
        BY DEF InitOrder, NameListed
      <4>. QED
        BY <4>1, <4>2
    <3>3. \A kk \in NameListed : mirror'[kk] = mirror[kk]
      BY <1>8, <3>1 DEF NameListed, Kinds
    <3>4. \A n \in Names : mirror'["AddressSetting"][n] # Absent =>
                              broker["AddressSetting"][n] = mirror'["AddressSetting"][n]
      BY <1>2, <3>1 DEF readEntities, TypeOK
    <3>. QED
      BY <1>2, <3>2, <3>3, <3>4 DEF MirrorSound, NamesMatch
  <2>. QED
    BY <1>5, <1>6, <2>2, <2>3
<1>. QED
  BY <1>1, <1>9, <1>10

(* Launching a tier starts calls only for entities of the list and of     *)
(* that order, and starts them all in the "sent" state.                   *)
LEMMA LaunchFacts ==
    ASSUME NEW op, NEW D, NEW t, Launch(op, D, t)
    PROVE  \A e \in Entity : /\ call'[e] \in {"none", "sent"}
                             /\ call'[e] # "none" => e \in D /\ Order(e) = t
BY DEF Launch, TierCalls

(* Starting an operation from a sound idle state: nothing is applied yet, *)
(* so the broker is the mirror.                                            *)
LEMMA StartIInv ==
    ASSUME IInv, TypeOK', NEW D \in Inputs, NEW op \in {"ensure", "delete"},
           NEW t,
           pc = "idle", initialized,
           pc' = op, opInput' = D, tier' = t, Launch(op, D, t),
           UNCHANGED <<broker, mirror, initialized, reconnectCount, clientRc,
                       initIdx, completed, err>>
    PROVE  IInv'
<1> USE DEF IInv
<1>1. call = NoCalls /\ completed = {} /\ ~err
  BY DEF Quiescent
<1>2. \A e \in Entity : call'[e] \in {"none", "sent"}
                        /\ (call'[e] # "none" => e \in D /\ Order(e) = t)
  BY LaunchFacts
<1>3. CountBehind' /\ InitProgress' /\ MirrorSound'
  BY DEF CountBehind, InitProgress, MirrorSound
<1>4. UniqueIds' /\ Quiescent'
  BY DEF Inputs, UniqueIds, Quiescent
<1>5. CallsOfTier' /\ NoLostCalls'
  BY <1>1, <1>2 DEF CallsOfTier, NoLostCalls
<1>6. OpSound'
  <2>1. Applied' = {}
    BY <1>1, <1>2 DEF Applied
  <2>2. \A k \in Kinds, n \in Names : ~AppliedAt(k, n)'
    BY <2>1 DEF AppliedAt
  <2>3. SameSession => /\ \A k \in NameListed : NamesMatch(k)
                       /\ \A n \in Names :
                            mirror["AddressSetting"][n] # Absent =>
                              broker["AddressSetting"][n] = mirror["AddressSetting"][n]
    BY DEF MirrorSound, NamesMatch
  <2>. QED
    BY <2>1, <2>2, <2>3 DEF OpSound, NamesMatch, SameSession, NameListed, Kinds
<1>. QED
  BY <1>3, <1>4, <1>5, <1>6

LEMMA EnsureEntitiesIInv ==
    ASSUME IInv, TypeOK', NEW D \in Inputs, EnsureEntities(D) PROVE IInv'
<1>1. CASE \A e \in D : Present(mirror, e) => Equals(Stored(mirror, e), e)
  BY <1>1, StartIInv DEF EnsureEntities
<1>2. CASE ~\A e \in D : Present(mirror, e) => Equals(Stored(mirror, e), e)
  BY <1>2, StutterIInv DEF EnsureEntities, vars
<1>. QED
  BY <1>1, <1>2

LEMMA DeleteEntitiesIInv ==
    ASSUME IInv, TypeOK', NEW D \in Inputs, DeleteEntities(D) PROVE IInv'
BY StartIInv DEF DeleteEntities

LEMMA ShutdownIInv ==
    ASSUME IInv, TypeOK', Shutdown PROVE IInv'
<1> USE DEF IInv
<1>1. call = NoCalls /\ completed = {} /\ ~err /\ pc' = "shutdown"
  BY DEF Shutdown, Quiescent
<1>2. UNCHANGED <<broker, mirror, initialized, reconnectCount, clientRc,
                  initIdx, opInput, tier, call, completed, err>>
  BY DEF Shutdown
<1>. QED
  BY <1>1, <1>2 DEF CountBehind, UniqueIds, Quiescent, NoLostCalls, CallsOfTier,
                    NoCalls, InitProgress, MirrorSound, OpSound

(* The applied calls all belong to the running operation's list.          *)
LEMMA AppliedInInput ==
    ASSUME TypeOK, CallsOfTier PROVE Applied \subseteq opInput
BY DEF Applied, CallsOfTier

LEMMA BrokerHandlesIInv ==
    ASSUME IInv, TypeOK', NEW e \in Entity, BrokerHandles(e) PROVE IInv'
<1> USE DEF IInv
<1> DEFINE A == Accepts(pc, e)
           v == IF pc = "ensure" THEN e.attr ELSE Absent
<1>1. /\ pc \in {"ensure", "delete"} /\ call[e] = "sent"
      /\ call' = [call EXCEPT ![e] = IF A THEN "ack" ELSE "nack"]
      /\ broker' = IF A THEN Apply(pc, e) ELSE broker
      /\ UNCHANGED <<mirror, initialized, reconnectCount, clientRc, pc, initIdx,
                     opInput, tier, completed, err>>
  BY DEF BrokerHandles
<1>2. e \notin completed /\ e \in opInput /\ Order(e) = tier
  BY <1>1 DEF CallsOfTier
<1>3. CountBehind' /\ UniqueIds' /\ Quiescent' /\ InitProgress' /\ MirrorSound'
  BY <1>1 DEF CountBehind, UniqueIds, Quiescent, InitProgress, MirrorSound
<1>4. /\ call'[e] \in {"ack", "nack"}
      /\ \A f \in Entity : f # e => call'[f] = call[f]
  BY <1>1 DEF TypeOK
<1>5. CallsOfTier' /\ NoLostCalls'
  <2>1. \A f \in Entity : call'[f] # "none" => f \in opInput' /\ Order(f) = tier'
    BY <1>1, <1>2, <1>4 DEF CallsOfTier
  <2>2. \A f \in completed' : call'[f] \in {"none", "done"}
    BY <1>1, <1>2, <1>4 DEF CallsOfTier, TypeOK
  <2>3. NoLostCalls'
    BY <1>1, <1>4 DEF NoLostCalls, SameSession
  <2>. QED
    BY <1>1, <2>1, <2>2, <2>3 DEF CallsOfTier
<1>6. OpSound'
  <2> SUFFICES ASSUME initialized, SameSession, ~err
               PROVE  OpSound'
    BY <1>1 DEF OpSound, SameSession
  <2>1. Applied' = IF A THEN Applied \cup {e} ELSE Applied
    BY <1>1, <1>2 DEF Applied, TypeOK
  <2>2. CASE ~A
    BY <1>1, <2>1, <2>2 DEF OpSound, AppliedAt, SameSession
  <2>3. CASE A
    <3>1. \A k \in Kinds, n \in Names :
             broker'[k][n] = IF k = e.kind /\ n = e.name THEN v ELSE broker[k][n]
      BY <1>1, <2>3 DEF Apply, TypeOK, Entity
    <3>2. \A k \in Kinds, n \in Names :
             AppliedAt(k, n)' <=> AppliedAt(k, n) \/ (k = e.kind /\ n = e.name)
      BY <2>1, <2>3 DEF AppliedAt
    <3>3. e.attr # Absent
      BY AttrNotAbsent DEF Entity
    <3>4. \A k \in NameListed, n \in Names :
            (broker'[k][n] # Absent) <=>
                IF pc' = "ensure" THEN mirror'[k][n] # Absent \/ AppliedAt(k, n)'
                                  ELSE mirror'[k][n] # Absent /\ ~AppliedAt(k, n)'
      <4> SUFFICES ASSUME NEW k \in NameListed, NEW n \in Names
                   PROVE  (broker'[k][n] # Absent) <=>
                            IF pc' = "ensure"
                            THEN mirror'[k][n] # Absent \/ AppliedAt(k, n)'
                            ELSE mirror'[k][n] # Absent /\ ~AppliedAt(k, n)'
        OBVIOUS
      <4>1. k \in Kinds
        BY DEF NameListed, Kinds
      <4>2. CASE k = e.kind /\ n = e.name
        BY <4>1, <4>2, <3>1, <3>2, <3>3, <1>1
      <4>3. CASE ~(k = e.kind /\ n = e.name)
        BY <4>1, <4>3, <3>1, <3>2, <1>1 DEF OpSound
      <4>. QED
        BY <4>2, <4>3
    <3>5. \A n \in Names :
            mirror'["AddressSetting"][n] # Absent /\ ~AppliedAt("AddressSetting", n)'
                => broker'["AddressSetting"][n] = mirror'["AddressSetting"][n]
      BY <3>1, <3>2, <1>1 DEF OpSound, Kinds
    <3>6. \A f \in Applied' :
            f.kind = "AddressSetting" =>
               broker'["AddressSetting"][f.name] = IF pc' = "ensure" THEN f.attr ELSE Absent
      <4> SUFFICES ASSUME NEW f \in Applied', f.kind = "AddressSetting"
                   PROVE  broker'["AddressSetting"][f.name] =
                             IF pc' = "ensure" THEN f.attr ELSE Absent
        OBVIOUS
      <4>1. CASE f = e
        BY <4>1, <3>1, <1>1 DEF Entity, Kinds
      <4>2. CASE f # e
        <5>1. f \in Applied /\ f \in opInput /\ f \in Entity
          BY <4>2, <2>1, <2>3, AppliedInInput DEF TypeOK
        <5>2. ~(e.kind = "AddressSetting" /\ f.name = e.name)
          BY <5>1, <4>2, <1>2 DEF UniqueIds, Equals
        <5>3. broker'["AddressSetting"][f.name] = broker["AddressSetting"][f.name]
          BY <5>1, <5>2, <3>1 DEF Entity, Kinds
        <5>. QED
          BY <5>1, <5>3, <1>1 DEF OpSound
      <4>. QED
        BY <4>1, <4>2
    <3>. QED
      BY <3>4, <3>5, <3>6 DEF OpSound
  <2>. QED
    BY <2>2, <2>3
<1>. QED
  BY <1>3, <1>5, <1>6

(* A started call means an operation is running.                          *)
LEMMA CallMeansOp ==
    ASSUME IInv, NEW e \in Entity, call[e] # "none"
    PROVE  pc \in {"ensure", "delete"}
BY DEF IInv, Quiescent, NoCalls, TypeOK

(* A call that ends in error (a timeout, or a request lost with the       *)
(* connection) sets the error and changes nothing else.                   *)
LEMMA CallErrsIInv ==
    ASSUME IInv, TypeOK', NEW e \in Entity, call[e] # "none",
           call' = [call EXCEPT ![e] = "done"], err',
           UNCHANGED <<broker, mirror, initialized, reconnectCount, clientRc, pc,
                       initIdx, opInput, tier, completed>>
    PROVE  IInv'
<1> USE DEF IInv
<1>1. pc \in {"ensure", "delete"} /\ e \in opInput /\ Order(e) = tier
  BY CallMeansOp DEF CallsOfTier
<1>2. \A f \in Entity : call'[f] = IF f = e THEN "done" ELSE call[f]
  BY DEF TypeOK
<1>3. CountBehind' /\ UniqueIds' /\ Quiescent' /\ InitProgress' /\ MirrorSound'
      /\ OpSound'
  BY <1>1 DEF CountBehind, UniqueIds, Quiescent, InitProgress, MirrorSound,
              OpSound
<1>4. CallsOfTier'
  BY <1>1, <1>2 DEF CallsOfTier
<1>5. NoLostCalls'
  BY <1>2 DEF NoLostCalls, SameSession
<1>. QED
  BY <1>3, <1>4, <1>5

LEMMA TimesOutIInv ==
    ASSUME IInv, TypeOK', NEW e \in Entity, TimesOut(e) PROVE IInv'
BY CallErrsIInv DEF TimesOut

LEMMA CallFailsIInv ==
    ASSUME IInv, TypeOK', NEW e \in Entity, CallFails(e) PROVE IInv'
BY CallErrsIInv DEF CallFails

LEMMA ReceiveReplyIInv ==
    ASSUME IInv, TypeOK', NEW e \in Entity, ReceiveReply(e) PROVE IInv'
<1> USE DEF IInv
<1>1. /\ call[e] \in {"ack", "nack"}
      /\ call' = [call EXCEPT ![e] = "done"]
      /\ completed' = IF call[e] = "ack" THEN completed \cup {e} ELSE completed
      /\ err' = (err \/ call[e] = "nack")
      /\ UNCHANGED <<broker, mirror, initialized, reconnectCount, clientRc, pc,
                     initIdx, opInput, tier>>
  BY DEF ReceiveReply
<1>2. pc \in {"ensure", "delete"} /\ e \in opInput /\ Order(e) = tier
  BY <1>1, CallMeansOp DEF CallsOfTier
<1>3. \A f \in Entity : call'[f] = IF f = e THEN "done" ELSE call[f]
  BY <1>1 DEF TypeOK
<1>4. CountBehind' /\ UniqueIds' /\ Quiescent' /\ InitProgress' /\ MirrorSound'
  BY <1>1, <1>2 DEF CountBehind, UniqueIds, Quiescent, InitProgress, MirrorSound
<1>5. CallsOfTier'
  BY <1>1, <1>2, <1>3 DEF CallsOfTier, TypeOK
<1>6. NoLostCalls'
  BY <1>1, <1>3 DEF NoLostCalls, SameSession
<1>7. OpSound'
  <2>1. CASE call[e] = "nack"
    BY <1>1, <2>1 DEF OpSound
  <2>2. CASE call[e] = "ack"
    <3>1. Applied' = Applied
      <4>1. completed' = completed \cup {e}
        BY <1>1, <2>2
      <4>2. {f \in Entity : call'[f] = "ack"} = {f \in Entity : call[f] = "ack"} \ {e}
        BY <1>3
      <4>. QED
        BY <4>1, <4>2, <2>2 DEF Applied
    <3>2. err' = err
      BY <1>1, <2>2 DEF TypeOK
    <3>3. \A k \in Kinds, n \in Names : AppliedAt(k, n)' <=> AppliedAt(k, n)
      BY <3>1 DEF AppliedAt
    <3>. QED
      BY <1>1, <3>1, <3>2, <3>3 DEF OpSound, SameSession, NameListed, Kinds
  <2>. QED
    BY <1>1, <2>1, <2>2
<1>. QED
  BY <1>4, <1>5, <1>6, <1>7

LEMMA NextTierIInv ==
    ASSUME IInv, TypeOK', NextTier PROVE IInv'
<1> USE DEF IInv
<1> DEFINE t == IF pc = "ensure" THEN tier + 1 ELSE tier - 1
<1>1. /\ pc \in {"ensure", "delete"}
      /\ \A f \in Entity : call[f] \in {"none", "done"}
      /\ ~err /\ ~LastTier /\ tier' = t /\ Launch(pc, opInput, t)
      /\ UNCHANGED <<broker, mirror, initialized, reconnectCount, clientRc, pc,
                     initIdx, opInput, completed, err>>
  BY DEF NextTier, TierJoined
<1>2. \A f \in Entity : call'[f] \in {"none", "sent"}
                        /\ (call'[f] # "none" => f \in opInput /\ Order(f) = t)
  BY <1>1, LaunchFacts
<1>3. (pc = "ensure" => tier = 0 /\ t = 1) /\ (pc = "delete" => tier = 1 /\ t = 0)
  BY <1>1 DEF LastTier, maxOrder, TypeOK
<1>4. CountBehind' /\ UniqueIds' /\ Quiescent' /\ InitProgress' /\ MirrorSound'
  BY <1>1 DEF CountBehind, UniqueIds, Quiescent, InitProgress, MirrorSound
<1>5. CallsOfTier'
  <2>1. \A f \in completed : call'[f] = "none"
    <3> SUFFICES ASSUME NEW f \in completed PROVE call'[f] = "none"
      OBVIOUS
    <3>1. f \in Entity /\ Order(f) \in {0, 1}
      BY OrderFacts DEF TypeOK
    <3>2. Order(f) # t
      BY <1>1, <1>3, <3>1 DEF CallsOfTier
    <3>. QED
      BY <1>2, <3>1, <3>2
  <2>2. pc = "ensure" => \A f \in completed : Order(f) <= t
    BY <1>3, OrderFacts DEF TypeOK
  <2>3. pc = "delete" => \A f \in completed : Order(f) >= t
    BY <1>3, OrderFacts DEF TypeOK
  <2>. QED
    BY <1>1, <1>2, <2>1, <2>2, <2>3 DEF CallsOfTier
<1>6. NoLostCalls'
  BY <1>2 DEF NoLostCalls, SameSession
<1>7. OpSound'
  <2>1. Applied' = Applied
    BY <1>1, <1>2 DEF Applied
  <2>2. \A k \in Kinds, n \in Names : AppliedAt(k, n)' <=> AppliedAt(k, n)
    BY <2>1 DEF AppliedAt
  <2>. QED
    BY <1>1, <2>1, <2>2 DEF OpSound, SameSession, NameListed, Kinds
<1>. QED
  BY <1>4, <1>5, <1>6, <1>7

(* A reconnect ends the session: nothing about the mirror is claimed      *)
(* until the next Initialize.                                              *)
LEMMA ReconnectIInv ==
    ASSUME IInv, TypeOK', clientRc' = clientRc + 1, LoseInFlight,
           UNCHANGED <<mirror, initialized, reconnectCount, pc, initIdx,
                       opInput, tier, completed, err>>
    PROVE  IInv'
<1> USE DEF IInv
<1>1. ~SameSession'
  BY DEF SameSession, CountBehind, TypeOK
<1>2. \A f \in Entity : (call'[f] = "none") <=> (call[f] = "none")
  BY DEF LoseInFlight
<1>3. \A f \in Entity : call[f] \in {"none", "done"} => call'[f] = call[f]
  BY DEF LoseInFlight
<1>4. CountBehind' /\ UniqueIds'
  BY DEF CountBehind, UniqueIds, TypeOK
<1>5. Quiescent'
  BY <1>3 DEF Quiescent, NoCalls, LoseInFlight
<1>6. CallsOfTier'
  <2>1. \A f \in completed : call'[f] = call[f]
    BY <1>3 DEF CallsOfTier, TypeOK
  <2>. QED
    BY <1>2, <2>1 DEF CallsOfTier
<1>7. NoLostCalls' /\ InitProgress' /\ MirrorSound' /\ OpSound'
  BY <1>1 DEF NoLostCalls, InitProgress, MirrorSound, OpSound
<1>. QED
  BY <1>4, <1>5, <1>6, <1>7

LEMMA ConnectionDropIInv ==
    ASSUME IInv, TypeOK', ConnectionDrop PROVE IInv'
BY ReconnectIInv DEF ConnectionDrop

LEMMA BrokerRestartIInv ==
    ASSUME IInv, TypeOK', NEW k \in Kinds, NEW n \in Names, BrokerRestart(k, n)
    PROVE  IInv'
<1>1. /\ clientRc' = clientRc + 1 /\ LoseInFlight
      /\ UNCHANGED <<mirror, initialized, reconnectCount, pc, initIdx,
                     opInput, tier, completed, err>>
  BY DEF BrokerRestart
<1>. QED
  BY <1>1, ReconnectIInv

(* Ending the tier loop: with an error the state is left uninitialized;   *)
(* without one the session and the initialized flag are kept.             *)
LEMMA FinishReset ==
    ASSUME TypeOK, Finish
    PROVE  /\ clientRc' \in {clientRc, clientRc + 1}
           /\ err => ~initialized'
           /\ ~err => initialized' = initialized /\ clientRc' = clientRc
<1>1. CASE err
  <2>1. Reset
    BY <1>1 DEF Finish, isConnectionError
  <2>. QED
    BY <1>1, <2>1, Zenon DEF Reset, TypeOK
<1>2. CASE ~err
  BY <1>2, Zenon DEF Finish, isConnectionError, TypeOK
<1>. QED
  BY <1>1, <1>2 DEF TypeOK

LEMMA FinishIInv ==
    ASSUME IInv, TypeOK', Finish PROVE IInv'
<1> USE DEF IInv
<1>1. /\ pc \in {"ensure", "delete"}
      /\ \A f \in Entity : call[f] \in {"none", "done"}
      /\ mirror' = Folded(pc) /\ pc' = "idle" /\ opInput' = {} /\ tier' = 0
      /\ call' = NoCalls /\ completed' = {} /\ ~err'
      /\ UNCHANGED <<broker, reconnectCount, initIdx>>
  BY DEF Finish, TierJoined
<1>2. /\ clientRc' \in {clientRc, clientRc + 1}
      /\ err => ~initialized'
      /\ ~err => initialized' = initialized /\ clientRc' = clientRc
  BY FinishReset
<1>3. CountBehind' /\ UniqueIds' /\ Quiescent' /\ NoLostCalls'
  BY <1>1, <1>2 DEF CountBehind, UniqueIds, Quiescent, NoLostCalls, NoCalls,
                    TypeOK
<1>4. CallsOfTier' /\ InitProgress' /\ OpSound'
  BY <1>1 DEF CallsOfTier, InitProgress, OpSound, NoCalls
<1>5. MirrorSound'
  <2> SUFFICES ASSUME initialized', SameSession'
               PROVE  MirrorSound'
    BY <1>1 DEF MirrorSound
  <2>1. ~err /\ initialized /\ SameSession
    BY <1>1, <1>2 DEF SameSession
  <2>2. Applied = completed
    BY <1>1 DEF Applied
  <2>3. \A k \in Kinds, n \in Names :
          AppliedAt(k, n) <=> \E c \in completed : c.kind = k /\ c.name = n
    BY <2>2 DEF AppliedAt
  <2> DEFINE Ch(k, n) == CHOOSE c \in completed : c.kind = k /\ c.name = n
  <2>4. \A k \in Kinds, n \in Names :
          mirror'[k][n] =
             IF \E c \in completed : c.kind = k /\ c.name = n
             THEN IF pc = "ensure" THEN Ch(k, n).attr ELSE Absent
             ELSE mirror[k][n]
    BY <1>1 DEF Folded, Fold
  <2>5. ASSUME NEW k \in Kinds, NEW n \in Names,
               \E c \in completed : c.kind = k /\ c.name = n
        PROVE  Ch(k, n) \in completed /\ Ch(k, n) \in Applied
               /\ Ch(k, n).kind = k /\ Ch(k, n).name = n
               /\ Ch(k, n).attr \in Attrs
    BY <2>5, <2>2 DEF TypeOK, Entity
  <2>6. \A k \in NameListed, n \in Names :
          (mirror'[k][n] # Absent) <=> (broker'[k][n] # Absent)
    <3> SUFFICES ASSUME NEW k \in NameListed, NEW n \in Names
                 PROVE  (mirror'[k][n] # Absent) <=> (broker'[k][n] # Absent)
      OBVIOUS
    <3>1. k \in Kinds
      BY DEF NameListed, Kinds
    <3>2. CASE \E c \in completed : c.kind = k /\ c.name = n
      <4>1. AppliedAt(k, n)
        BY <3>1, <3>2, <2>3
      <4>2. Ch(k, n).attr # Absent
        BY <3>1, <3>2, <2>5, AttrNotAbsent
      <4>. QED
        BY <1>1, <2>1, <2>4, <3>1, <3>2, <4>1, <4>2 DEF OpSound
    <3>3. CASE ~\E c \in completed : c.kind = k /\ c.name = n
      <4>1. ~AppliedAt(k, n)
        BY <3>1, <3>3, <2>3
      <4>. QED
        BY <1>1, <2>1, <2>4, <3>1, <3>3, <4>1 DEF OpSound
    <3>. QED
      BY <3>2, <3>3
  <2>7. \A n \in Names :
          mirror'["AddressSetting"][n] # Absent =>
             broker'["AddressSetting"][n] = mirror'["AddressSetting"][n]
    <3> SUFFICES ASSUME NEW n \in Names, mirror'["AddressSetting"][n] # Absent
                 PROVE  broker'["AddressSetting"][n] = mirror'["AddressSetting"][n]
      OBVIOUS
    <3>1. "AddressSetting" \in Kinds
      BY DEF Kinds
    <3>2. CASE \E c \in completed : c.kind = "AddressSetting" /\ c.name = n
      <4>1. pc = "ensure"
        BY <2>4, <3>1, <3>2
      <4>2. mirror'["AddressSetting"][n] = Ch("AddressSetting", n).attr
        BY <2>4, <3>1, <3>2, <4>1
      <4>3. broker["AddressSetting"][n] = Ch("AddressSetting", n).attr
        BY <1>1, <2>1, <2>5, <3>1, <3>2, <4>1 DEF OpSound
      <4>. QED
        BY <1>1, <4>2, <4>3
    <3>3. CASE ~\E c \in completed : c.kind = "AddressSetting" /\ c.name = n
      <4>1. ~AppliedAt("AddressSetting", n)
        BY <3>1, <3>3, <2>3
      <4>2. mirror'["AddressSetting"][n] = mirror["AddressSetting"][n]
        BY <2>4, <3>1, <3>3
      <4>. QED
        BY <1>1, <2>1, <3>1, <4>1, <4>2 DEF OpSound
    <3>. QED
      BY <3>2, <3>3
  <2>. QED
    BY <2>6, <2>7 DEF MirrorSound
<1>. QED
  BY <1>3, <1>4, <1>5

LEMMA NextIInv == IInv /\ [Next]_vars => IInv'
<1> SUFFICES ASSUME IInv, [Next]_vars PROVE IInv'
  OBVIOUS
<1>1. TypeOK'
  BY NextTypeOK DEF IInv
<1>2. CASE InitializeCurrent \/ NotInitialized \/ Terminated \/ UNCHANGED vars
  BY <1>2, StutterIInv DEF InitializeCurrent, NotInitialized, Terminated
<1>3. CASE Initialize
  BY <1>1, <1>3, InitializeIInv
<1>4. CASE InitRead
  BY <1>1, <1>4, InitReadIInv
<1>5. CASE InitReadFails
  BY <1>1, <1>5, InitReadFailsIInv
<1>6. ASSUME NEW D \in Inputs, EnsureEntities(D) \/ DeleteEntities(D)
      PROVE  IInv'
  BY <1>1, <1>6, EnsureEntitiesIInv, DeleteEntitiesIInv
<1>7. ASSUME NEW e \in Entity,
             BrokerHandles(e) \/ ReceiveReply(e) \/ TimesOut(e) \/ CallFails(e)
      PROVE  IInv'
  BY <1>1, <1>7, BrokerHandlesIInv, ReceiveReplyIInv, TimesOutIInv, CallFailsIInv
<1>8. CASE NextTier
  BY <1>1, <1>8, NextTierIInv
<1>9. CASE Finish
  BY <1>1, <1>9, FinishIInv
<1>10. CASE Shutdown
  BY <1>1, <1>10, ShutdownIInv
<1>11. CASE ConnectionDrop
  BY <1>1, <1>11, ConnectionDropIInv
<1>12. ASSUME NEW k \in Kinds, NEW n \in Names, BrokerRestart(k, n)
       PROVE  IInv'
  BY <1>1, <1>12, BrokerRestartIInv
<1>. QED
  BY <1>2, <1>3, <1>4, <1>5, <1>6, <1>7, <1>8, <1>9, <1>10, <1>11, <1>12
  DEF Next

(* Between calls, in the session Initialize read, the mirror lists exactly *)
(* the queues, addresses and diverts on the broker and holds only address *)
(* settings the broker has, whatever the names, fields and bounds: the     *)
(* Initialize reads, the tier goroutines, the completed channel and Reset  *)
(* after any error keep b.entities sound.                                  *)
THEOREM MirrorSoundHolds == Spec => []MirrorSound
<1>1. Init => IInv
  BY InitIInv
<1>2. IInv /\ [Next]_vars => IInv'
  BY NextIInv
<1>3. IInv => MirrorSound
  BY DEF IInv
<1>. QED
  BY <1>1, <1>2, <1>3, PTL DEF Spec

-----------------------------------------------------------------------------
(* The strengthening of TierBarrier, on top of IInv.                       *)

(* EnsureEntities and DeleteEntities run only on an initialized state.     *)
OpInitialized == pc \in {"ensure", "delete"} => initialized

(* With no error yet, every finished call was acknowledged and sent on    *)
(* the completed channel.                                                 *)
DoneCompleted == ~err => \A e \in Entity : call[e] = "done" => e \in completed

(* The running tier started a call for every entity of its order that   *)
(* the mirror called for: a missing one for Ensure, a present one for     *)
(* Delete.                                                                 *)
TierCovered ==
    /\ pc = "ensure" =>
          \A e \in opInput : Order(e) = tier /\ ~Present(mirror, e) => call[e] # "none"
    /\ pc = "delete" =>
          \A e \in opInput : Order(e) = tier /\ Present(mirror, e) => call[e] # "none"

BInv ==
    /\ IInv
    /\ OpInitialized
    /\ DoneCompleted
    /\ TierCovered
    /\ TierBarrier

TierInv == OpInitialized /\ DoneCompleted /\ TierCovered /\ TierBarrier

(* A step that leaves no operation running keeps the tier facts.          *)
LEMMA NoOpTierInv ==
    ASSUME IInv', pc' \in {"idle", "init", "shutdown"} PROVE TierInv'
<1>1. call' = NoCalls
  BY DEF IInv, Quiescent
<1>. QED
  BY <1>1 DEF TierInv, OpInitialized, DoneCompleted, NoCalls, TierCovered,
              TierBarrier

LEMMA StutterTierInv ==
    ASSUME TierInv, UNCHANGED vars PROVE TierInv'
BY DEF vars, TierInv, OpInitialized, DoneCompleted, TierCovered, TierBarrier,
       SameSession, Present

LEMMA StartTierInv ==
    ASSUME BInv, NEW D \in Inputs, NEW op \in {"ensure", "delete"},
           pc = "idle", initialized,
           pc' = op, opInput' = D, tier' = IF op = "ensure" THEN 0 ELSE 1,
           Launch(op, D, IF op = "ensure" THEN 0 ELSE 1),
           UNCHANGED <<broker, mirror, initialized, reconnectCount, clientRc,
                       initIdx, completed, err>>
    PROVE  TierInv'
<1>1. \A e \in Entity : call'[e] \in {"none", "sent"}
  BY LaunchFacts
<1>2. OpInitialized' /\ DoneCompleted'
  BY <1>1 DEF OpInitialized, DoneCompleted
<1>3. TierCovered'
  BY DEF TierCovered, Launch, TierCalls, Inputs
<1>4. TierBarrier'
  BY DEF TierBarrier
<1>. QED
  BY <1>2, <1>3, <1>4 DEF TierInv

(* A goroutine step within a tier: the call moves on from a started state,*)
(* and the broker changes at most in that entity's own cell.              *)
LEMMA CallStepTierInv ==
    ASSUME BInv, NEW e \in Entity, call[e] # "none", call'[e] # "none",
           \A f \in Entity : f # e => call'[f] = call[f],
           call'[e] = "done" /\ ~err' => e \in completed',
           completed \subseteq completed', err => err',
           \A k \in Kinds, n \in Names :
              ~(k = e.kind /\ n = e.name) => broker'[k][n] = broker[k][n],
           UNCHANGED <<mirror, initialized, reconnectCount, clientRc, pc,
                       initIdx, opInput, tier>>
    PROVE  TierInv'
<1>1. pc \in {"ensure", "delete"} /\ Order(e) = tier
  BY CallMeansOp DEF BInv, IInv, CallsOfTier
<1>2. OpInitialized'
  BY DEF BInv, OpInitialized
<1>3. DoneCompleted'
  <2> SUFFICES ASSUME ~err', NEW f \in Entity, call'[f] = "done"
               PROVE  f \in completed'
    BY DEF DoneCompleted
  <2>1. ~err
    OBVIOUS
  <2>2. CASE f = e
    BY <2>2
  <2>3. CASE f # e
    BY <2>1, <2>3 DEF BInv, DoneCompleted
  <2>. QED
    BY <2>2, <2>3
<1>4. TierCovered'
  <2>1. \A f \in opInput : call[f] # "none" => call'[f] # "none"
    BY DEF BInv, IInv, TypeOK
  <2>. QED
    BY <2>1 DEF BInv, TierCovered, Present
<1>5. TierBarrier'
  <2>1. \A f \in opInput : Order(f) # tier => ~(f.kind = e.kind /\ f.name = e.name)
    BY <1>1 DEF Order
  <2>2. \A f \in opInput : Order(f) # tier => (Present(broker, f)' <=> Present(broker, f))
    BY <2>1 DEF Present, BInv, IInv, TypeOK, Entity
  <2>. QED
    BY <1>1, <2>2 DEF BInv, TierBarrier, SameSession
<1>. QED
  BY <1>2, <1>3, <1>4, <1>5 DEF TierInv

LEMMA BrokerHandlesTierInv ==
    ASSUME BInv, NEW e \in Entity, BrokerHandles(e) PROVE TierInv'
<1>1. call' = [call EXCEPT ![e] = IF Accepts(pc, e) THEN "ack" ELSE "nack"]
      /\ call[e] = "sent"
  BY DEF BrokerHandles
<1>2. \A f \in Entity : f # e => call'[f] = call[f]
  BY <1>1 DEF BInv, IInv, TypeOK
<1>3. call'[e] \in {"ack", "nack"}
  BY <1>1 DEF BInv, IInv, TypeOK
<1>4. \A k \in Kinds, n \in Names :
         ~(k = e.kind /\ n = e.name) => broker'[k][n] = broker[k][n]
  BY DEF BrokerHandles, Apply, BInv, IInv, TypeOK
<1>. QED
  BY <1>1, <1>2, <1>3, <1>4, CallStepTierInv DEF BrokerHandles

LEMMA ReceiveReplyTierInv ==
    ASSUME BInv, NEW e \in Entity, ReceiveReply(e) PROVE TierInv'
<1>1. \A f \in Entity : f # e => call'[f] = call[f]
  BY DEF ReceiveReply, BInv, IInv, TypeOK
<1>2. call'[e] = "done" /\ call[e] # "none"
  BY DEF ReceiveReply, BInv, IInv, TypeOK
<1>3. ~err' => e \in completed'
  BY DEF ReceiveReply
<1>. QED
  BY <1>1, <1>2, <1>3, CallStepTierInv DEF ReceiveReply

LEMMA CallErrsTierInv ==
    ASSUME BInv, NEW e \in Entity, TimesOut(e) \/ CallFails(e) PROVE TierInv'
<1>1. \A f \in Entity : f # e => call'[f] = call[f]
  BY DEF TimesOut, CallFails, BInv, IInv, TypeOK
<1>2. call'[e] = "done" /\ call[e] # "none" /\ err'
  BY DEF TimesOut, CallFails, BInv, IInv, TypeOK
<1>3. UNCHANGED <<broker, mirror, initialized, reconnectCount, clientRc, pc,
                  initIdx, opInput, tier, completed>>
  BY DEF TimesOut, CallFails
<1>. QED
  BY <1>1, <1>2, <1>3, CallStepTierInv

LEMMA ReconnectTierInv ==
    ASSUME BInv, clientRc' = clientRc + 1, LoseInFlight,
           UNCHANGED <<mirror, initialized, reconnectCount, pc, initIdx,
                       opInput, tier, completed, err>>
    PROVE  TierInv'
<1>1. ~SameSession'
  BY DEF SameSession, BInv, IInv, CountBehind, TypeOK
<1>2. \A f \in Entity : /\ (call'[f] = "none") <=> (call[f] = "none")
                        /\ (call'[f] = "done") <=> (call[f] = "done")
  BY DEF LoseInFlight
<1>. QED
  BY <1>1, <1>2 DEF BInv, IInv, TypeOK, TierInv, OpInitialized, DoneCompleted,
                    TierCovered, TierBarrier, Present

(* While an operation runs without error in the session, an entity whose *)
(* create was applied is on the broker and one whose delete was applied   *)
(* is not.                                                                 *)
LEMMA AppliedOnBroker ==
    ASSUME IInv, initialized, SameSession, ~err, pc \in {"ensure", "delete"},
           NEW e \in Entity, AppliedAt(e.kind, e.name)
    PROVE  /\ pc = "ensure" => Present(broker, e)
           /\ pc = "delete" /\ e.kind \in NameListed => ~Present(broker, e)
<1>1. PICK f \in Applied : f.kind = e.kind /\ f.name = e.name
  BY DEF AppliedAt
<1>2. f \in Entity
  BY DEF Applied, IInv, TypeOK
<1>3. CASE e.kind \in NameListed
  <2>1. (broker[e.kind][e.name] # Absent) <=>
           IF pc = "ensure"
           THEN mirror[e.kind][e.name] # Absent \/ AppliedAt(e.kind, e.name)
           ELSE mirror[e.kind][e.name] # Absent /\ ~AppliedAt(e.kind, e.name)
    BY <1>3 DEF IInv, OpSound, Entity
  <2>. QED
    BY <2>1 DEF Present
<1>4. CASE e.kind = "AddressSetting"
  <2>1. pc = "ensure" => broker["AddressSetting"][e.name] = f.attr
    BY <1>1, <1>4 DEF IInv, OpSound
  <2>2. f.attr # Absent
    BY <1>2, AttrNotAbsent DEF Entity
  <2>. QED
    BY <1>4, <2>1, <2>2 DEF Present, NameListed
<1>. QED
  BY <1>3, <1>4 DEF Entity, Kinds, NameListed

LEMMA NextTierTierInv ==
    ASSUME BInv, NextTier PROVE TierInv'
<1> DEFINE t == IF pc = "ensure" THEN tier + 1 ELSE tier - 1
<1>1. /\ pc \in {"ensure", "delete"}
      /\ \A f \in Entity : call[f] \in {"none", "done"}
      /\ ~err /\ ~LastTier /\ tier' = t /\ Launch(pc, opInput, t)
      /\ UNCHANGED <<broker, mirror, initialized, reconnectCount, clientRc, pc,
                     initIdx, opInput, completed, err>>
  BY DEF NextTier, TierJoined
<1>2. (pc = "ensure" => tier = 0 /\ t = 1) /\ (pc = "delete" => tier = 1 /\ t = 0)
  BY <1>1 DEF LastTier, maxOrder, BInv, IInv, TypeOK
<1>3. OpInitialized' /\ DoneCompleted' /\ TierCovered'
  <2>1. \A f \in Entity : call'[f] \in {"none", "sent"}
    BY <1>1, LaunchFacts
  <2>2. OpInitialized' /\ DoneCompleted'
    BY <1>1, <2>1 DEF BInv, OpInitialized, DoneCompleted
  <2>3. TierCovered'
    <3>1. \A e \in opInput : e \in TierCalls(pc, opInput, t) => call'[e] = "sent"
      BY <1>1 DEF Launch, BInv, IInv, TypeOK
    <3>. QED
      BY <1>1, <3>1 DEF TierCovered, TierCalls
  <2>. QED
    BY <2>2, <2>3
<1>4. initialized /\ IInv
  BY <1>1 DEF BInv, OpInitialized
<1>5. ASSUME SameSession, NEW e \in opInput, call[e] # "none"
      PROVE  AppliedAt(e.kind, e.name)
  <2>1. e \in Entity
    BY DEF BInv, IInv, TypeOK
  <2>2. e \in completed
    BY <1>1, <1>5, <2>1 DEF BInv, DoneCompleted
  <2>. QED
    BY <2>2 DEF AppliedAt, Applied
<1>6. TierBarrier'
  <2>1. CASE pc = "ensure"
    <3> SUFFICES ASSUME SameSession, NEW e \in opInput, Order(e) = 0
                 PROVE  Present(broker, e)
      BY <1>1, <1>2, <2>1 DEF TierBarrier, SameSession, Present
    <3>1. e \in Entity
      BY DEF BInv, IInv, TypeOK
    <3>2. CASE ~Present(mirror, e)
      BY <1>1, <1>2, <1>4, <1>5, <2>1, <3>1, <3>2, AppliedOnBroker
      DEF BInv, TierCovered
    <3>3. CASE Present(mirror, e)
      <4>1. CASE AppliedAt(e.kind, e.name)
        BY <1>1, <1>4, <2>1, <3>1, <4>1, AppliedOnBroker
      <4>2. CASE ~AppliedAt(e.kind, e.name)
        BY <1>1, <1>4, <2>1, <3>1, <3>3, <4>2
        DEF IInv, OpSound, Present, Entity, Kinds, NameListed
      <4>. QED
        BY <4>1, <4>2
    <3>. QED
      BY <3>2, <3>3
  <2>2. CASE pc = "delete"
    <3> SUFFICES ASSUME SameSession, NEW e \in opInput, Order(e) = 1
                 PROVE  ~Present(broker, e)
      BY <1>1, <1>2, <2>2 DEF TierBarrier, SameSession, Present
    <3>1. e \in Entity /\ e.kind \in NameListed
      BY OrderFacts DEF BInv, IInv, TypeOK, NameListed
    <3>2. CASE Present(mirror, e)
      BY <1>1, <1>2, <1>4, <1>5, <2>2, <3>1, <3>2, AppliedOnBroker
      DEF BInv, TierCovered
    <3>3. CASE ~Present(mirror, e)
      <4>1. (broker[e.kind][e.name] # Absent) <=>
               mirror[e.kind][e.name] # Absent /\ ~AppliedAt(e.kind, e.name)
        BY <1>1, <1>4, <2>2, <3>1 DEF IInv, OpSound, Entity
      <4>. QED
        BY <3>3, <4>1 DEF Present
    <3>. QED
      BY <3>2, <3>3
  <2>. QED
    BY <1>1, <2>1, <2>2
<1>. QED
  BY <1>3, <1>6 DEF TierInv

LEMMA InitBInv == Init => BInv
<1> SUFFICES ASSUME Init PROVE BInv
  OBVIOUS
<1>1. IInv
  BY InitIInv
<1>2. TierInv
  BY DEF Init, TierInv, OpInitialized, DoneCompleted, NoCalls, TierCovered,
         TierBarrier
<1>. QED
  BY <1>1, <1>2 DEF BInv, TierInv

LEMMA NextBInv == BInv /\ [Next]_vars => BInv'
<1> SUFFICES ASSUME BInv, [Next]_vars PROVE BInv'
  OBVIOUS
<1>1. IInv'
  BY NextIInv DEF BInv
<1>2. TierInv'
  <2>1. CASE InitializeCurrent \/ NotInitialized \/ Terminated \/ UNCHANGED vars
    BY <2>1, StutterTierInv DEF BInv, TierInv, InitializeCurrent, NotInitialized,
                                Terminated
  <2>2. CASE Initialize \/ InitRead \/ InitReadFails \/ Shutdown \/ Finish
    <3>1. pc' \in {"idle", "init", "shutdown"}
      BY <2>2 DEF Initialize, InitRead, InitReadFails, Shutdown, Finish
    <3>. QED
      BY <1>1, <3>1, NoOpTierInv
  <2>3. ASSUME NEW D \in Inputs, EnsureEntities(D) \/ DeleteEntities(D)
        PROVE  TierInv'
    <3>1. CASE EnsureEntities(D)
      <4>1. CASE \A e \in D : Present(mirror, e) => Equals(Stored(mirror, e), e)
        BY <3>1, <4>1, StartTierInv DEF EnsureEntities
      <4>2. CASE ~\A e \in D : Present(mirror, e) => Equals(Stored(mirror, e), e)
        BY <3>1, <4>2, StutterTierInv DEF EnsureEntities, vars, BInv, TierInv
      <4>. QED
        BY <4>1, <4>2
    <3>2. CASE DeleteEntities(D)
      BY <3>2, StartTierInv DEF DeleteEntities, maxOrder
    <3>. QED
      BY <2>3, <3>1, <3>2
  <2>4. ASSUME NEW e \in Entity,
               BrokerHandles(e) \/ ReceiveReply(e) \/ TimesOut(e) \/ CallFails(e)
        PROVE  TierInv'
    BY <2>4, BrokerHandlesTierInv, ReceiveReplyTierInv, CallErrsTierInv
  <2>5. CASE NextTier
    BY <2>5, NextTierTierInv
  <2>6. CASE ConnectionDrop
    BY <2>6, ReconnectTierInv DEF ConnectionDrop
  <2>7. ASSUME NEW k \in Kinds, NEW n \in Names, BrokerRestart(k, n)
        PROVE  TierInv'
    BY <2>7, ReconnectTierInv DEF BrokerRestart
  <2>. QED
    BY <2>1, <2>2, <2>3, <2>4, <2>5, <2>6, <2>7 DEF Next
<1>. QED
  BY <1>1, <1>2 DEF BInv, TierInv

(* The tier barrier of EnsureEntities and DeleteEntities holds for every  *)
(* number of names, field values and list sizes: while the queue tier of  *)
(* EnsureEntities runs in the session, every lower-tier entity of its     *)
(* list is on the broker, and while DeleteEntities runs tier 0 no queue of *)
(* its list is.  It rests on g.Wait() joining the tier, on the loop        *)
(* breaking on the first error, and on the mirror being sound (IInv).     *)
THEOREM TierBarrierHolds == Spec => []TierBarrier
<1>1. Init => BInv
  BY InitBInv
<1>2. BInv /\ [Next]_vars => BInv'
  BY NextBInv
<1>3. BInv => TierBarrier
  BY DEF BInv
<1>. QED
  BY <1>1, <1>2, <1>3, PTL DEF Spec

(* Only the end of the tier loop returns from EnsureEntities or           *)
(* DeleteEntities.                                                         *)
LEMMA OnlyFinishReturns ==
    ASSUME [Next]_vars, pc \in {"ensure", "delete"}, pc' = "idle"
    PROVE  Finish
<1>1. ~UNCHANGED vars
  BY DEF vars
<1>2. \A D \in Inputs : ~EnsureEntities(D) /\ ~DeleteEntities(D)
  BY DEF EnsureEntities, DeleteEntities
<1>3. \A e \in Entity : ~BrokerHandles(e) /\ ~ReceiveReply(e) /\ ~TimesOut(e)
                        /\ ~CallFails(e)
  BY DEF BrokerHandles, ReceiveReply, TimesOut, CallFails
<1>4. \A k \in Kinds, n \in Names : ~BrokerRestart(k, n)
  BY DEF BrokerRestart
<1>5. ~InitializeCurrent /\ ~Initialize /\ ~InitRead /\ ~InitReadFails
      /\ ~NotInitialized /\ ~NextTier /\ ~Shutdown /\ ~Terminated
      /\ ~ConnectionDrop
  BY DEF InitializeCurrent, Initialize, InitRead, InitReadFails, NotInitialized,
         NextTier, Shutdown, Terminated, ConnectionDrop
<1>. QED
  BY <1>1, <1>2, <1>3, <1>4, <1>5 DEF Next

(* The step that returns nil from EnsureEntities or DeleteEntities in the *)
(* session leaves the broker converged.                                   *)
LEMMA SuccessStep ==
    ASSUME BInv, [Next]_vars
    PROVE  [SameSession =>
              /\ EnsureSucceeds => \A e \in opInput : Present(broker', e)
              /\ DeleteSucceeds =>
                   \A e \in opInput : e.kind \in NameListed => ~Present(broker', e)]_vars
<1> SUFFICES ASSUME SameSession, pc \in {"ensure", "delete"}, pc' = "idle", ~err
             PROVE  /\ pc = "ensure" => \A e \in opInput : Present(broker', e)
                    /\ pc = "delete" =>
                         \A e \in opInput : e.kind \in NameListed => ~Present(broker', e)
  BY DEF EnsureSucceeds, DeleteSucceeds
<1>1. Finish
  BY OnlyFinishReturns
<1>2. /\ \A f \in Entity : call[f] \in {"none", "done"}
      /\ LastTier /\ broker' = broker
  BY <1>1 DEF Finish, TierJoined
<1>3. initialized /\ IInv
  BY DEF BInv, OpInitialized
<1>4. ASSUME NEW e \in opInput, call[e] # "none"
      PROVE  AppliedAt(e.kind, e.name)
  <2>1. e \in Entity
    BY DEF BInv, IInv, TypeOK
  <2>2. e \in completed
    BY <1>2, <1>4, <2>1 DEF BInv, DoneCompleted
  <2>. QED
    BY <2>2 DEF AppliedAt, Applied
<1>5. \A e \in opInput : e \in Entity /\ Order(e) \in {0, 1}
                         /\ (Order(e) = 1 <=> e.kind = "Queue")
  BY OrderFacts DEF BInv, IInv, TypeOK
<1>6. ASSUME pc = "ensure", NEW e \in opInput PROVE Present(broker', e)
  <2>1. tier = 1
    BY <1>2, <1>6 DEF LastTier, maxOrder
  <2>2. CASE Order(e) = 0
    BY <1>2, <1>6, <2>1, <2>2 DEF BInv, TierBarrier
  <2>3. CASE Order(e) = 1 /\ ~Present(mirror, e)
    <3>1. call[e] # "none"
      BY <1>6, <2>1, <2>3 DEF BInv, TierCovered
    <3>. QED
      BY <1>2, <1>3, <1>4, <1>5, <1>6, <3>1, AppliedOnBroker
  <2>4. CASE Order(e) = 1 /\ Present(mirror, e)
    <3>1. e.kind \in NameListed
      BY <1>5, <2>4 DEF NameListed
    <3>2. (broker[e.kind][e.name] # Absent) <=>
             mirror[e.kind][e.name] # Absent \/ AppliedAt(e.kind, e.name)
      BY <1>3, <1>5, <1>6, <3>1 DEF IInv, OpSound, Entity
    <3>. QED
      BY <1>2, <2>4, <3>2 DEF Present
  <2>. QED
    BY <1>5, <2>2, <2>3, <2>4
<1>7. ASSUME pc = "delete", NEW e \in opInput, e.kind \in NameListed
      PROVE  ~Present(broker', e)
  <2>1. tier = 0
    BY <1>2, <1>7 DEF LastTier
  <2>2. CASE Order(e) = 1
    BY <1>2, <1>7, <2>1, <2>2 DEF BInv, TierBarrier
  <2>3. CASE Order(e) = 0 /\ Present(mirror, e)
    <3>1. call[e] # "none"
      BY <1>7, <2>1, <2>3 DEF BInv, TierCovered
    <3>. QED
      BY <1>2, <1>3, <1>4, <1>5, <1>7, <3>1, AppliedOnBroker
  <2>4. CASE Order(e) = 0 /\ ~Present(mirror, e)
    <3>1. (broker[e.kind][e.name] # Absent) <=>
             mirror[e.kind][e.name] # Absent /\ ~AppliedAt(e.kind, e.name)
      BY <1>3, <1>5, <1>7 DEF IInv, OpSound, Entity
    <3>. QED
      BY <1>2, <2>4, <3>1 DEF Present
  <2>. QED
    BY <1>5, <2>2, <2>3, <2>4
<1>. QED
  BY <1>6, <1>7

(* A nil return from EnsureEntities or DeleteEntities in the session       *)
(* Initialize read means the broker has converged to the list, for every   *)
(* value of the constants.                                                 *)
THEOREM SuccessConverges == Spec => SuccessMeansConverged
<1>1. Spec => []BInv
  BY InitBInv, NextBInv, PTL DEF Spec
<1>2. BInv /\ [Next]_vars =>
        [SameSession =>
           /\ EnsureSucceeds => \A e \in opInput : Present(broker', e)
           /\ DeleteSucceeds =>
                \A e \in opInput : e.kind \in NameListed => ~Present(broker', e)]_vars
  BY SuccessStep
<1>. QED
  BY <1>1, <1>2, PTL DEF Spec, SuccessMeansConverged

=============================================================================
