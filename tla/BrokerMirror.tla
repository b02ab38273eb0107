---------------------------- MODULE BrokerMirror ----------------------------
(***************************************************************************)
(* What a broker's reconciliation state promises its caller, whatever its  *)
(* steps: a view of the entities on the broker that is either trusted or   *)
(* not.  Trust is gained only by reading the broker, and the view then     *)
(* agrees with it: the same queues, addresses and diverts, and only        *)
(* address settings the broker holds with the same fields.  While the view *)
(* is trusted the broker changes only together with the view, one entity   *)
(* at a time; anything else (a restart that loses an entity, a failed or   *)
(* unknown outcome) first withdraws the trust.  An untrusted view says     *)
(* nothing.                                                                 *)
(***************************************************************************)
EXTENDS TLAPS

CONSTANTS Names, Attrs, Absent

VARIABLES
    broker,   \* the entities on the broker: a value per type and name
    view,     \* the caller's view of them
    trusted   \* the view may be relied on

avars == <<broker, view, trusted>>

Kinds == {"Queue", "Address", "Divert", "AddressSetting"}

(* The types the view records by name only.                                *)
NameListed == {"Queue", "Address", "Divert"}

Value == Attrs \cup {Absent}

Map == [Kinds -> [Names -> Value]]

(* The view lists exactly the broker's queues, addresses and diverts, and  *)
(* every address setting it holds is on the broker with the same fields.  *)
Agrees(v, b) ==
    /\ \A k \in NameListed, n \in Names : (v[k][n] # Absent) <=> (b[k][n] # Absent)
    /\ \A n \in Names :
          v["AddressSetting"][n] # Absent =>
              b["AddressSetting"][n] = v["AddressSetting"][n]

Init ==
    /\ broker \in Map
    /\ view = [k \in Kinds |-> [n \in Names |-> Absent]]
    /\ trusted = FALSE

(* A read of the whole broker: the view becomes one that agrees with it.   *)
Establish ==
    /\ ~trusted
    /\ trusted' = TRUE
    /\ view' \in Map
    /\ Agrees(view', broker)
    /\ broker' = broker

(* A create or delete of one entity, applied to the broker and the view.   *)
Write(k, n, v) ==
    /\ trusted
    /\ broker' = [broker EXCEPT ![k][n] = v]
    /\ view' = [view EXCEPT ![k][n] = v]
    /\ trusted' = TRUE

(* The trust is withdrawn, at most losing one entity on the broker.        *)
Distrust ==
    /\ trusted
    /\ trusted' = FALSE
    /\ view' \in Map
    /\ \/ broker' = broker
       \/ \E k \in Kinds, n \in Names : broker' = [broker EXCEPT ![k][n] = Absent]

(* Without trust, the view and the broker may change in any way.          *)
Drift ==
    /\ ~trusted
    /\ trusted' = FALSE
    /\ view' \in Map
    /\ broker' \in Map

Next ==
    \/ Establish
    \/ \E k \in Kinds, n \in Names, v \in Value : Write(k, n, v)
    \/ Distrust
    \/ Drift

Spec == Init /\ [][Next]_avars

-----------------------------------------------------------------------------
TypeOK ==
    /\ broker \in Map
    /\ view \in Map
    /\ trusted \in BOOLEAN

(* A trusted view agrees with the broker.                                  *)
TrustedAgrees == trusted => Agrees(view, broker)

(* Every behaviour of the abstract mirror keeps a trusted view in          *)
(* agreement with the broker: a read establishes agreement and a write     *)
(* changes the same entity on both sides.                                  *)
THEOREM AgreementHolds == Spec => [](TypeOK /\ TrustedAgrees)
<1>1. Init => TypeOK /\ TrustedAgrees
  BY DEF Init, TypeOK, TrustedAgrees, Map, Value
<1>2. ASSUME TypeOK, TrustedAgrees, [Next]_avars
      PROVE  TypeOK' /\ TrustedAgrees'
  <2>1. CASE Establish
    BY <1>2, <2>1 DEF Establish, TypeOK, TrustedAgrees
  <2>2. ASSUME NEW k \in Kinds, NEW n \in Names, NEW v \in Value,
               Write(k, n, v)
        PROVE  TypeOK' /\ TrustedAgrees'
    <3>1. TypeOK'
      BY <1>2, <2>2 DEF Write, TypeOK, Map
    <3>2. Agrees(view, broker)
      BY <1>2, <2>2 DEF Write, TrustedAgrees
    <3>3. Agrees(view', broker')
      BY <1>2, <2>2, <3>2 DEF Write, Agrees, TypeOK, Map
    <3>. QED
      BY <2>2, <3>1, <3>3 DEF Write, TrustedAgrees
  <2>3. CASE Distrust
    <3>1. broker' \in Map
      <4>1. CASE broker' = broker
        BY <1>2, <4>1 DEF TypeOK
      <4>2. ASSUME NEW k \in Kinds, NEW n \in Names,
                   broker' = [broker EXCEPT ![k][n] = Absent]
            PROVE  broker' \in Map
        BY <1>2, <4>2 DEF TypeOK, Map, Value
      <4>. QED
        BY <2>3, <4>1, <4>2 DEF Distrust
    <3>. QED
      BY <1>2, <2>3, <3>1 DEF Distrust, TypeOK, TrustedAgrees
  <2>4. CASE Drift
    BY <1>2, <2>4 DEF Drift, TypeOK, TrustedAgrees
  <2>5. CASE UNCHANGED avars
    BY <1>2, <2>5 DEF avars, TypeOK, TrustedAgrees, Agrees
  <2>. QED
    BY <1>2, <2>1, <2>2, <2>3, <2>4, <2>5 DEF Next
<1>. QED
  BY <1>1, <1>2, PTL DEF Spec

=============================================================================
