---------------------------- MODULE BrokerState ----------------------------
(***************************************************************************)
(* The per-broker reconciliation state of src/pkg/state/broker/broker.go   *)
(* (type BrokerState): a mirror of the entities on one broker, built by    *)
(* Initialize from bulk reads and kept current by EnsureEntities and       *)
(* DeleteEntities, which run one goroutine per create/delete call inside   *)
(* an ordering tier and join the tier with an errgroup.                    *)
(*                                                                         *)
(* The broker (the Artemis process behind the AMQP management address) and *)
(* the command client's connection are modelled as the environment: the   *)
(* broker handles a request when it arrives, a reply can be lost, a call   *)
(* can time out, the connection can drop, and the broker can restart and   *)
(* lose an entity.  Each drop or restart makes the command client          *)
(* reconnect, which bumps its ReconnectCount.                              *)
(***************************************************************************)
EXTENDS Naturals, FiniteSets, Sequences

CONSTANTS
    Names,          \* entity names (queue, address, divert, setting names)
    Attrs,          \* the non-identity fields of an entity, abstracted
    DefaultAttr,    \* the zero value of those fields in a Go struct literal
    Absent,         \* marks a name with no entity of a kind
    MaxBatch,       \* most entities in one EnsureEntities/DeleteEntities list
    MaxReconnects   \* bound on the client's ReconnectCount (faults stop there)

ASSUME ConstantsAssumption ==
    /\ DefaultAttr \in Attrs
    /\ Absent \notin Attrs
    /\ MaxBatch \in Nat
    /\ MaxReconnects \in Nat

VARIABLES
    broker,          \* the entities that exist on the broker
    mirror,          \* b.entities
    initialized,     \* b.initialized
    reconnectCount,  \* b.reconnectCount
    clientRc,        \* b.commandClient.ReconnectCount()
    pc,              \* which BrokerState method the caller is in
    initIdx,         \* Initialize: index of the next entity type to read
    opInput,         \* the entities argument of EnsureEntities/DeleteEntities
    tier,            \* the order of the tier being run
    call,            \* the state of each entity's create/delete goroutine
    completed,       \* the entities sent on the completed channel
    err              \* g.Wait() of the last tier returned an error

vars == <<broker, mirror, initialized, reconnectCount, clientRc, pc, initIdx,
          opInput, tier, call, completed, err>>

-----------------------------------------------------------------------------
(* Entity types (BrokerEntityType) and the entities of the model.         *)

Kinds == {"Queue", "Address", "Divert", "AddressSetting"}

Entity == [kind : Kinds, name : Names, attr : Attrs]

Value == Attrs \cup {Absent}

(* Per entity type: its ordering tier and the management operations its   *)
(* Create and Delete methods send.                                        *)
BrokerQueue ==
    [order |-> 1, create |-> "createQueue", delete |-> "destroyQueue"]
BrokerAddress ==
    [order |-> 0, create |-> "createAddress", delete |-> "deleteAddress"]
BrokerDivert ==
    [order |-> 0, create |-> "createDivert", delete |-> "destroyDivert"]
BrokerAddressSetting ==
    [order |-> 0, create |-> "addAddressSettings",
     delete |-> "removeAddressSettings"]

EntityType(k) ==
    CASE k = "Queue"   -> BrokerQueue
      [] k = "Address" -> BrokerAddress
      [] k = "Divert"  -> BrokerDivert
      [] OTHER         -> BrokerAddressSetting

Order(e) == EntityType(e.kind).order

maxOrder == 2

(* Equals on every entity type compares the type and the name only.       *)
Equals(x, y) == x.kind = y.kind /\ x.name = y.name

(* The entity stored in a type-keyed map under e's identity.              *)
Stored(m, e) == [kind |-> e.kind, name |-> e.name, attr |-> m[e.kind][e.name]]

Present(m, e) == m[e.kind][e.name] # Absent

(* The lists a caller passes: at most MaxBatch entities, one per identity *)
(* (names are unique within a type).                                      *)
Inputs ==
    {D \in SUBSET Entity :
        /\ Cardinality(D) <= MaxBatch
        /\ \A x, y \in D : Equals(x, y) => x = y}

CallState == {"none", "sent", "ack", "nack", "lost", "done"}

EmptyMap == [k \in Kinds |-> [n \in Names |-> Absent]]

NoCalls == [e \in Entity |-> "none"]

-----------------------------------------------------------------------------
(* The broker's side of a management request (Artemis, not this           *)
(* repository): a create fails if the entity exists, a delete if it does  *)
(* not; addAddressSettings overwrites and removeAddressSettings of a      *)
(* missing setting succeeds.                                              *)

Upserts == {"addAddressSettings"}
LenientRemoves == {"removeAddressSettings"}

Operation(op, e) == IF op = "ensure" THEN EntityType(e.kind).create
                                     ELSE EntityType(e.kind).delete

Accepts(op, e) ==
    IF op = "ensure"
    THEN Operation(op, e) \in Upserts \/ ~Present(broker, e)
    ELSE Operation(op, e) \in LenientRemoves \/ Present(broker, e)

Apply(op, e) ==
    [broker EXCEPT ![e.kind][e.name] = IF op = "ensure" THEN e.attr ELSE Absent]

-----------------------------------------------------------------------------
(* readEntities: the bulk reads.  Queue, Address and Divert names come     *)
(* from get*Names and become structs holding only the name; address       *)
(* settings are read with getAddressSettingsAsJSON once per queue name    *)
(* of the mirror and are decoded with all their fields.                   *)

InitOrder == <<"Queue", "Address", "Divert", "AddressSetting">>

readEntities(k) ==
    IF k = "AddressSetting"
    THEN [n \in Names |-> IF mirror["Queue"][n] # Absent
                          THEN broker[k][n] ELSE Absent]
    ELSE [n \in Names |-> IF broker[k][n] # Absent
                          THEN DefaultAttr ELSE Absent]

(* The goroutines a tier starts: for EnsureEntities the entities of that  *)
(* order missing from the mirror, for DeleteEntities those present in it. *)
TierCalls(op, D, t) ==
    {e \in D : /\ Order(e) = t
                      /\ IF op = "ensure" THEN ~Present(mirror, e)
                                          ELSE Present(mirror, e)}

Launch(op, D, t) ==
    call' = [e \in Entity |-> IF e \in TierCalls(op, D, t) THEN "sent" ELSE "none"]

-----------------------------------------------------------------------------
Init ==
    /\ broker \in [Kinds -> [Names -> Value]]
    /\ mirror = EmptyMap
    /\ initialized = FALSE
    /\ clientRc = 1
    /\ reconnectCount = clientRc
    /\ pc = "idle"
    /\ initIdx = 1
    /\ opInput = {}
    /\ tier = 0
    /\ call = NoCalls
    /\ completed = {}
    /\ err = FALSE

(* Initialize: drop initialized if the client reconnected since the last  *)
(* initialization, return at once if still initialized, else record the   *)
(* reconnect count and start the reads.                                   *)
InitializeCurrent ==
    /\ pc = "idle"
    /\ initialized
    /\ reconnectCount = clientRc
    /\ UNCHANGED vars

(* Mutant of Initialize: a reconnect does not clear b.initialized.       *)
InitializeKeepsFlag ==
    /\ pc = "idle"
    /\ ~initialized \/ reconnectCount # clientRc
    /\ reconnectCount' = clientRc
    /\ pc' = "init"
    /\ initIdx' = 1
    /\ UNCHANGED <<broker, mirror, initialized, clientRc, opInput, tier, call,
                   completed, err>>

Initialize ==
    /\ pc = "idle"
    /\ ~initialized \/ reconnectCount # clientRc
    /\ initialized' = FALSE
    /\ reconnectCount' = clientRc
    /\ pc' = "init"
    /\ initIdx' = 1
    /\ UNCHANGED <<broker, mirror, clientRc, opInput, tier, call, completed, err>>

(* Mutants of InitRead: the loop runs one index past entityTypes; the     *)
(* reconnect count is recorded after the reads instead of before them.    *)
InitReadPastEnd ==
    LET k == InitOrder[initIdx] IN
    /\ pc = "init"
    /\ mirror' = [mirror EXCEPT ![k] = readEntities(k)]
    /\ initIdx' = initIdx + 1
    /\ IF initIdx = Len(InitOrder)
       THEN /\ initialized' = TRUE
            /\ pc' = "idle"
       ELSE UNCHANGED <<initialized, pc>>
    /\ UNCHANGED <<broker, reconnectCount, clientRc, opInput, tier, call,
                   completed, err>>

InitReadRecordsCountLate ==
    LET k == InitOrder[initIdx] IN
    /\ pc = "init"
    /\ mirror' = [mirror EXCEPT ![k] = readEntities(k)]
    /\ IF initIdx = Len(InitOrder)
       THEN /\ initialized' = TRUE
            /\ pc' = "idle"
            /\ initIdx' = 1
            /\ reconnectCount' = clientRc
       ELSE /\ initIdx' = initIdx + 1
            /\ UNCHANGED <<initialized, pc, reconnectCount>>
    /\ UNCHANGED <<broker, clientRc, opInput, tier, call, completed, err>>

(* One readEntities call of Initialize's loop, and b.entities[t] = list;  *)
(* after the last one the state is initialized.                           *)
InitRead ==
    LET k == InitOrder[initIdx] IN
    /\ pc = "init"
    /\ mirror' = [mirror EXCEPT ![k] = readEntities(k)]
    /\ IF initIdx = Len(InitOrder)
       THEN /\ initialized' = TRUE
            /\ pc' = "idle"
            /\ initIdx' = 1
       ELSE /\ initIdx' = initIdx + 1
            /\ UNCHANGED <<initialized, pc>>
    /\ UNCHANGED <<broker, reconnectCount, clientRc, opInput, tier, call,
                   completed, err>>

(* A read fails (transport error, no success marker, undecodable value):  *)
(* Initialize returns the error, keeping the types already read.          *)
InitReadFails ==
    /\ pc = "init"
    /\ pc' = "idle"
    /\ UNCHANGED <<broker, mirror, initialized, reconnectCount, clientRc,
                   initIdx, opInput, tier, call, completed, err>>


(* EnsureEntities or DeleteEntities before a successful Initialize returns *)
(* NotInitializedError.                                                    *)
NotInitialized ==
    /\ pc = "idle"
    /\ ~initialized
    /\ UNCHANGED vars

(* EnsureEntities: reject an entity that differs from the mirrored one of  *)
(* its identity, else start the goroutines of tier 0.                      *)
EnsureEntities(D) ==
    /\ pc = "idle"
    /\ initialized
    /\ IF \A e \in D : Present(mirror, e) => Equals(Stored(mirror, e), e)
       THEN /\ pc' = "ensure"
            /\ opInput' = D
            /\ tier' = 0
            /\ Launch("ensure", D, 0)
       ELSE UNCHANGED <<pc, opInput, tier, call>>
    /\ UNCHANGED <<broker, mirror, initialized, reconnectCount, clientRc,
                   initIdx, completed, err>>

(* DeleteEntities: start the goroutines of the highest tier.              *)
DeleteEntities(D) ==
    /\ pc = "idle"
    /\ initialized
    /\ pc' = "delete"
    /\ opInput' = D
    /\ tier' = maxOrder - 1
    /\ Launch("delete", D, maxOrder - 1)
    /\ UNCHANGED <<broker, mirror, initialized, reconnectCount, clientRc,
                   initIdx, completed, err>>

(* The broker handles the request of e's Create or Delete and replies.    *)
BrokerHandles(e) ==
    /\ pc \in {"ensure", "delete"}
    /\ call[e] = "sent"
    /\ call' = [call EXCEPT ![e] = IF Accepts(pc, e) THEN "ack" ELSE "nack"]
    /\ broker' = IF Accepts(pc, e) THEN Apply(pc, e) ELSE broker
    /\ UNCHANGED <<mirror, initialized, reconnectCount, clientRc, pc, initIdx,
                   opInput, tier, completed, err>>

(* doRequest returns the reply; the goroutine sends e on completed when   *)
(* the reply has the success marker and returns an error otherwise.       *)
ReceiveReply(e) ==
    /\ call[e] \in {"ack", "nack"}
    /\ call' = [call EXCEPT ![e] = "done"]
    /\ completed' = IF call[e] = "ack" THEN completed \cup {e} ELSE completed
    /\ err' = (err \/ call[e] = "nack")
    /\ UNCHANGED <<broker, mirror, initialized, reconnectCount, clientRc, pc,
                   initIdx, opInput, tier>>

(* RequestWithTimeout gives up after 10s: the request was never handled  *)
(* ("sent") or its reply was lost ("ack", "nack").                        *)
TimesOut(e) ==
    /\ call[e] \in {"sent", "ack", "nack"}
    /\ clientRc < MaxReconnects
    /\ call' = [call EXCEPT ![e] = "done"]
    /\ err' = TRUE
    /\ UNCHANGED <<broker, mirror, initialized, reconnectCount, clientRc, pc,
                   initIdx, opInput, tier, completed>>

(* A call whose request or reply was lost with the connection fails.      *)
CallFails(e) ==
    /\ call[e] = "lost"
    /\ call' = [call EXCEPT ![e] = "done"]
    /\ err' = TRUE
    /\ UNCHANGED <<broker, mirror, initialized, reconnectCount, clientRc, pc,
                   initIdx, opInput, tier, completed>>

TierJoined == pc \in {"ensure", "delete"} /\ \A e \in Entity : call[e] \in {"none", "done"}

LastTier == IF pc = "ensure" THEN tier = maxOrder - 1 ELSE tier = 0

(* Mutant of NextTier: the loop does not break on a tier's error.        *)
NextTierIgnoresError ==
    LET t == IF pc = "ensure" THEN tier + 1 ELSE tier - 1 IN
    /\ TierJoined
    /\ ~LastTier
    /\ tier' = t
    /\ Launch(pc, opInput, t)
    /\ UNCHANGED <<broker, mirror, initialized, reconnectCount, clientRc, pc,
                   initIdx, opInput, completed, err>>

(* g.Wait() returned nil and a tier is left: start its goroutines.        *)
NextTier ==
    LET t == IF pc = "ensure" THEN tier + 1 ELSE tier - 1 IN
    /\ TierJoined
    /\ ~err
    /\ ~LastTier
    /\ tier' = t
    /\ Launch(pc, opInput, t)
    /\ UNCHANGED <<broker, mirror, initialized, reconnectCount, clientRc, pc,
                   initIdx, opInput, completed, err>>

(* A set of entities of operation op folded into a type-keyed map m.      *)
Fold(A, m, op) ==
    [k \in Kinds |-> [n \in Names |->
        IF \E e \in A : e.kind = k /\ e.name = n
        THEN IF op = "ensure"
             THEN (CHOOSE e \in A : e.kind = k /\ e.name = n).attr
             ELSE Absent
        ELSE m[k][n]]]

(* The entities on the completed channel, folded into the mirror.         *)
Folded(op) == Fold(completed, mirror, op)

(* Mutant of isConnectionError: only some errors count as connection    *)
(* errors; here none does.                                               *)
isConnectionErrorNever(e) == FALSE

(* Every non-nil error is taken for a connection error.                   *)
isConnectionError(e) == e

(* Reset: when initialized, stop and restart the command client (a new    *)
(* session: its ReconnectCount goes up) and mark the state uninitialized. *)
Reset ==
    IF initialized
    THEN /\ initialized' = FALSE
         /\ clientRc' = clientRc + 1
    ELSE UNCHANGED <<initialized, clientRc>>

(* The tier loop ends (an error, or no tier left): Reset on any error     *)
(* (isConnectionError), then drain completed into the mirror.             *)
Finish ==
    /\ TierJoined
    /\ err \/ LastTier
    /\ IF isConnectionError(err) THEN Reset
                                 ELSE UNCHANGED <<initialized, clientRc>>
    /\ mirror' = Folded(pc)
    /\ pc' = "idle"
    /\ opInput' = {}
    /\ tier' = 0
    /\ call' = NoCalls
    /\ completed' = {}
    /\ err' = FALSE
    /\ UNCHANGED <<broker, reconnectCount, initIdx>>

(* Shutdown stops the command client; the state is not used again.       *)
Shutdown ==
    /\ pc = "idle"
    /\ pc' = "shutdown"
    /\ UNCHANGED <<broker, mirror, initialized, reconnectCount, clientRc,
                   initIdx, opInput, tier, call, completed, err>>

Terminated ==
    /\ pc = "shutdown"
    /\ UNCHANGED vars

-----------------------------------------------------------------------------
(* Environment: the connection drops, or the broker restarts and loses an *)
(* entity; in-flight requests and replies are lost and the client         *)
(* reconnects.                                                             *)

LoseInFlight ==
    call' = [e \in Entity |-> IF call[e] \in {"sent", "ack", "nack"}
                              THEN "lost" ELSE call[e]]

ConnectionDrop ==
    /\ pc # "shutdown"
    /\ clientRc < MaxReconnects
    /\ clientRc' = clientRc + 1
    /\ LoseInFlight
    /\ UNCHANGED <<broker, mirror, initialized, reconnectCount, pc, initIdx,
                   opInput, tier, completed, err>>

BrokerRestart(k, n) ==
    /\ pc # "shutdown"
    /\ clientRc < MaxReconnects
    /\ broker[k][n] # Absent
    /\ broker' = [broker EXCEPT ![k][n] = Absent]
    /\ clientRc' = clientRc + 1
    /\ LoseInFlight
    /\ UNCHANGED <<mirror, initialized, reconnectCount, pc, initIdx,
                   opInput, tier, completed, err>>

-----------------------------------------------------------------------------
Next ==
    \/ InitializeCurrent
    \/ Initialize
    \/ InitRead
    \/ InitReadFails
    \/ NotInitialized
    \/ \E D \in Inputs : EnsureEntities(D) \/ DeleteEntities(D)
    \/ \E e \in Entity : BrokerHandles(e) \/ ReceiveReply(e) \/ TimesOut(e)
                         \/ CallFails(e)
    \/ NextTier
    \/ Finish
    \/ Shutdown
    \/ Terminated
    \/ ConnectionDrop
    \/ \E k \in Kinds, n \in Names : BrokerRestart(k, n)

Spec == Init /\ [][Next]_vars

-----------------------------------------------------------------------------
(* Properties.                                                             *)

TypeOK ==
    /\ broker \in [Kinds -> [Names -> Value]]
    /\ mirror \in [Kinds -> [Names -> Value]]
    /\ initialized \in BOOLEAN
    /\ reconnectCount \in Nat
    /\ clientRc \in Nat
    /\ pc \in {"idle", "init", "ensure", "delete", "shutdown"}
    /\ initIdx \in 1..Len(InitOrder)
    /\ opInput \in SUBSET Entity
    /\ tier \in 0..(maxOrder - 1)
    /\ call \in [Entity -> CallState]
    /\ completed \in SUBSET Entity
    /\ err \in BOOLEAN

(* The client has not reconnected since Initialize recorded its count.    *)
SameSession == reconnectCount = clientRc

(* The types whose bulk read lists every name on the broker.              *)
NameListed == {"Queue", "Address", "Divert"}

(* Between calls, an initialized state whose client has not reconnected   *)
(* since Initialize knows exactly which queues, addresses and diverts     *)
(* exist on the broker, and every address setting it holds is on the      *)
(* broker with the same fields.  This is what lets EnsureEntities skip    *)
(* and DeleteEntities pick entities by the mirror alone; it rests on      *)
(* Initialize recording the count before its reads, on the completed      *)
(* channel holding exactly the acknowledged calls, and on Reset after any *)
(* error (a timed-out call may have been applied).                        *)
MirrorSound ==
    (pc = "idle" /\ initialized /\ SameSession) =>
        /\ \A k \in NameListed, n \in Names :
              (mirror[k][n] # Absent) <=> (broker[k][n] # Absent)
        /\ \A n \in Names :
              mirror["AddressSetting"][n] # Absent =>
                  broker["AddressSetting"][n] = mirror["AddressSetting"][n]

(* The tier barrier: while EnsureEntities runs the queue tier, every       *)
(* address, divert and setting of its list is on the broker; while         *)
(* DeleteEntities runs tier 0, no queue of its list is left on the broker. *)
(* It rests on g.Wait() joining every goroutine of a tier and on the loop  *)
(* breaking at the first tier error.                                       *)
TierBarrier ==
    /\ (pc = "ensure" /\ tier = 1 /\ SameSession) =>
           \A e \in opInput : Order(e) = 0 => Present(broker, e)
    /\ (pc = "delete" /\ tier = 0 /\ SameSession) =>
           \A e \in opInput : Order(e) = 1 => ~Present(broker, e)

EnsureSucceeds == pc = "ensure" /\ pc' = "idle" /\ ~err
DeleteSucceeds == pc = "delete" /\ pc' = "idle" /\ ~err

(* When EnsureEntities returns nil on the session Initialize read, every   *)
(* entity of its list exists on the broker; when DeleteEntities returns    *)
(* nil, no queue, address or divert of its list does.                      *)
SuccessMeansConverged ==
    [][SameSession =>
        /\ EnsureSucceeds => \A e \in opInput : Present(broker', e)
        /\ DeleteSucceeds =>
               \A e \in opInput : e.kind \in NameListed => ~Present(broker', e)]_vars

(* DeleteEntities returning nil means no entity of its list, address       *)
(* settings included, is left on the broker.                               *)
DeleteSuccessRemovesAll ==
    [][DeleteSucceeds => \A e \in opInput : ~Present(broker', e)]_vars


-----------------------------------------------------------------------------
(* BrokerState implements BrokerMirror.  The caller's view is the mirror   *)
(* with the calls the broker applied in the running operation folded in,  *)
(* as the drain of the completed channel will fold them; it is trusted    *)
(* between calls and during an operation while the state is initialized,  *)
(* the client has not reconnected and no call has failed.                 *)

(* The calls the broker applied that the operation has not folded yet.    *)
Applied == completed \cup {e \in Entity : call[e] = "ack"}

View == Fold(Applied, mirror, pc)

Trusted == pc \in {"idle", "ensure", "delete"} /\ initialized /\ SameSession /\ ~err

Mirror == INSTANCE BrokerMirror WITH view <- View, trusted <- Trusted

(* BrokerState implements BrokerMirror: trust comes only from Initialize's *)
(* reads in the session it recorded, and while trusted the broker changes *)
(* only by a call of the running operation, which the view (and after the *)
(* drain, the mirror) records; a reconnect or an error withdraws trust.   *)
ImplementsBrokerMirror == Mirror!Spec

=============================================================================
