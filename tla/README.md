# TLA+ models of the EnMasse broker reconciliation state and AddressPlan watcher

This directory holds TLA+ models of the code under `src/`, the TLC configurations
that check them, and TLAPS proofs. The core is the per-broker reconciliation state
in `src/pkg/state/broker/broker.go` (type `BrokerState`); the second component is
the list-then-watch cache of `src/pkg/consolegraphql/watchers/resource_watcher_addressplan.go`.

| Module | Models |
|---|---|
| `BrokerState` | `BrokerState` with the broker and the command client as environment |
| `BrokerReconciler` | `BrokerState` driven by the controller's pass (`Initialize`, then `EnsureEntities`), with fairness |
| `BrokerLateDelivery` | `BrokerState` with a broker that handles a request after its call timed out |
| `BrokerStaleSession` | `BrokerState` with a history variable: the client's reconnect count when the running `EnsureEntities` began |
| `AddressPlanWatcher` | the watcher goroutine, its caller and the API server |
| `WatchedCache` | the abstract list-then-watch cache that `AddressPlanWatcher` refines |
| `BrokerMirror` | the abstract mirror that `BrokerState` refines, with its invariant proved |
| `BrokerState_proofs`, `BrokerState_refinement`, `BrokerReconciler_proofs`, `AddressPlanWatcher_proofs` | the TLAPS proofs |
| `MC_*` | the instances TLC checks |

## 1. Inventory

### Components

| Component | Source | State | Operations | Model |
|---|---|---|---|---|
| Broker reconciliation state | `broker.go` 34-428 | `entities` (the mirror: type -> name -> entity), `initialized`, `reconnectCount`, `nextResync`, `commandClient` | `NewBrokerState`, `Initialize`, `readEntities`, `EnsureEntities`, `DeleteEntities`, `Reset`, `Shutdown` | `BrokerState` |
| Broker entity types | `broker.go` 430-701 | none (values) | `Type`, `GetName`, `Order`, `Equals`, `Create`, `Delete` per Queue, Address, Divert, AddressSetting | `BrokerState` (`BrokerQueue` ... `BrokerAddressSetting`) |
| Management protocol codec | `broker.go` 372-405 | none | `newManagementMessage`, `success` | abstracted to an operation name and a success bit |
| AMQP command client | not in `src/` | connection, `ReconnectCount` | `Start`, `Stop`, `RequestWithTimeout` | environment of `BrokerState`; late handling in `BrokerLateDelivery` |
| Controller pass | not in `src/` (spec section 2) | none | `Initialize` then `EnsureEntities` per resync | `BrokerReconciler` |
| AddressPlan resource watcher | `consolegraphql/watchers/resource_watcher_addressplan.go` | cache, `watching`, `watchingStarted`, stop channels, `restartCounter` | `Watch`, `doWatch`, `AwaitWatching`, `Shutdown` | `AddressPlanWatcher`, refining `WatchedCache` |
| Controller manager | `cmd/controller-manager/main.go` | none of interest | process bootstrap, metrics | not modelled (wiring and I/O) |
| IoTProject helpers, MessagingEndpoint registration | `controller/iotproject/utils.go`, `controller/add_messagingendpoint.go` | none | pure helpers, `init` registration | not modelled (no state) |

### How the parts interact

A controller holds one `BrokerState` per broker and, on each resync, calls
`Initialize` and then `EnsureEntities`/`DeleteEntities` with the entities it wants.
`BrokerState` talks to the broker only through the command client: each call sends
one management request and waits up to 10 s for the correlated reply. `Initialize`
reads queues, addresses, diverts (name lists) and then address settings (one
request per queue name it has just read). `EnsureEntities` creates the missing
entities tier by tier (tier 0: addresses, diverts, settings; tier 1: queues), one
goroutine per call joined by an `errgroup`, and folds the acknowledged ones into the
mirror through a buffered channel. `DeleteEntities` walks the tiers in reverse.
Any error makes `Reset` stop and restart the client, which marks the state
uninitialized; the next `Initialize` rebuilds the mirror.

### What is hard

* **Stale mirror.** The mirror is trusted by `EnsureEntities` (skip what it
  holds) and `DeleteEntities` (delete only what it holds). It goes stale when the
  broker restarts, when a timed-out call was applied anyway, or when a read
  interleaves with a reconnect. The code's defences are the reconnect counter
  (compared only in `Initialize`, recorded before the reads) and `Reset` after any
  error.
* **Concurrency inside a tier.** Calls complete in any order; replies can be
  lost; the connection can drop in the middle; the tier barrier must still hold.
* **Partial failure.** A tier error still folds sibling successes into the mirror;
  a failing read leaves the mirror partly replaced.
* **Keys.** Address settings are read under queue names only.

### Properties that make it correct

* Mirror soundness: between calls, on the session `Initialize` read, the mirror
  knows exactly which queues, addresses and diverts exist, and every setting it
  holds is on the broker with the same fields (`MirrorSound`).
* Tier barrier: no queue is created while an address of the same list is
  missing, no address deleted while a queue of the list remains (`TierBarrier`).
* A nil result means converged (`SuccessMeansConverged`), and the stronger forms
  the spec states, which the code does not meet (section 4).
* `Equals` compares type and name only, so `EnsureEntities` takes an entity with
  changed fields as converged. The code's comments (`broker.go` 442, 505, 633) and
  spec sections 3 and 9 make this deliberate, so no property claims otherwise.
* Liveness: once faults stop, repeated cycles converge (`EventuallyConverges`).

## 2. Plan

1. `BrokerState` (done): the whole of `BrokerState` with the broker and the
   client as environment; `MC_BrokerState` and two configs.
2. `BrokerState_proofs` (done): `TypeOK`, `MirrorSound`, `TierBarrier` and
   `SuccessMeansConverged` are proved for every value of the constants (section 5).
3. `BrokerReconciler` (done): the controller's pass with fairness, and the
   liveness property `EventuallyConverges` (section 6).
4. `BrokerMirror` (done): the abstract specification of what the state promises its
   caller (a view of the broker, trusted only after a read, changed only together
   with the broker while trusted), the refinement `ImplementsBrokerMirror` checked
   by `broker_safety`, and its TLAPS proof (section 5.1).
5. `BrokerLateDelivery` (done): a request outlives its timeout; the violation run
   `late_delivery` of `MirrorSound` (section 4).
   `BrokerStaleSession` (done): a history variable of the count at which
   `EnsureEntities` started; the violation run `ensure_stale_session`.
6. `AddressPlanWatcher` (done): the list-then-watch loop, its refinement of
   `WatchedCache`, liveness of `AwaitWatching`/`Shutdown` and convergence of the
   cache, and TLAPS proofs of `WatchSound` and of the refinement (sections 7, 8).

## 3. The model `BrokerState`

State: `broker` (what exists on the broker, per type and name: a field value or
`Absent`), `mirror` (`b.entities`), `initialized`, `reconnectCount`, `clientRc`
(the client's `ReconnectCount()`), `pc` (the method the single caller is in),
`initIdx` (position in `Initialize`'s type loop), and for a running
Ensure/Delete: `opInput`, `tier`, `call` (each goroutine: none, sent, ack, nack,
lost, done), `completed` (the channel), `err` (the tier's first error, as a bit:
`isConnectionError` treats every error alike).

Actions and their code:

* `Init` - `NewBrokerState` (the broker may already hold any entities).
* `InitializeCurrent`, `Initialize`, `InitRead`, `InitReadFails` - `Initialize`
  and `readEntities`: counter check, early return, record the count, one action
  per read (a reconnect may fall between two reads), failure keeps the types
  already read.
* `NotInitialized`, `EnsureEntities(D)`, `DeleteEntities(D)` - the precondition,
  the divergence check (dead, see finding 3), and the launch of the first tier.
* `BrokerHandles(e)` (environment), `ReceiveReply(e)`, `TimesOut(e)`,
  `CallFails(e)` - one goroutine's `Create`/`Delete` through `doRequest`.
* `NextTier`, `Finish` - `g.Wait()`, break on error, `Reset` on any error, drain
  `completed` into the mirror.
* `Shutdown`, `Terminated` - the end of the state's life.
* `ConnectionDrop`, `BrokerRestart(k, n)` - environment: in-flight requests and
  replies are lost, the client reconnects, and a restart may lose one entity.

The broker's answers (Artemis, not this repository) are modelled from the
operation names: creates fail on an existing entity except `addAddressSettings`
(an overwrite), deletes fail on a missing one except `removeAddressSettings`.

## 4. Runs

| Run | Config | Expect | Shows |
|---|---|---|---|
| `broker_safety` | `MC_BrokerState.cfg` | pass | `TypeOK`, `MirrorSound`, `TierBarrier`, `SuccessMeansConverged` and the refinement `ImplementsBrokerMirror` hold under timeouts, lost replies, drops and restarts (1.2 M distinct states, about 2 min). |
| `ensure_stale_session` | `MC_BrokerStaleSession.cfg` | violation | `StaleEnsureConverges` (in `BrokerStaleSession`, which records the client's reconnect count when `EnsureEntities` starts): a broker restart after `Initialize` loses a queue and reconnects the client; the next `EnsureEntities` with that queue still trusts the old mirror and returns nil. Spec section 3 says the state reverts to uninitialized whenever the counter changes. The property only covers calls made after the reconnect; a restart while a call runs with no request in flight is out of every implementation's reach and is not counted. |
| `delete_address_settings` | `MC_BrokerState_settings.cfg` | violation | `DeleteSuccessRemovesAll`: a setting not named after a queue is never in the mirror; `DeleteEntities` returns nil and leaves it. |
| `late_delivery` | `MC_BrokerLateDelivery.cfg` | violation | `MirrorSound`: a `DeleteEntities` call times out, `Reset` and the next `Initialize` read the queue, then the broker handles the abandoned `destroyQueue`: the fresh mirror lists a queue that is gone. Spec sections 4.5 and 7 say the reset makes the next cycle re-bootstrap from ground truth. |
| `broker_liveness` | `MC_BrokerReconciler.cfg` | pass | `EventuallyConverges` (section 6). |
| `watcher` | `MC_AddressPlanWatcher.cfg` | pass | `TypeOK`, `WatchSound`, `AwaitWatchingReturns`, `ShutdownReturns`, `CacheConverges`, `ImplementsWatchedCache` (section 7). |

Bounds: two names (a symmetry set), all four entity types, lists of at most two
entities (enough for a queue and an address in one list), one field value, and `MaxReconnects = 2` with the client starting at 1: the
environment may inject one fault (a drop, a restart, or timeouts followed by the
`Reset` they cause) per behaviour, and `Reset` may bump the counter once more. Every
hazard the properties cover needs one fault; the mutants (below) are each caught
within these bounds. `MaxReconnects = 3` also passes (4 M states, about 3 min).

Each property of the passing run has a mutant of the code that TLC catches: the
read loop running past its end (`TypeOK`), the reconnect count recorded after the
reads (`MirrorSound`), the tier loop not breaking on error (`TierBarrier`), and
`isConnectionError` returning false (`SuccessMeansConverged`), and a reconnect
that does not clear `b.initialized` in `Initialize` (`ImplementsBrokerMirror`: a
failing read then leaves a stale mirror trusted).

`BrokerState` assumes no fairness: its properties are safety properties. Deadlock
is checked; the only terminal state is after `Shutdown`, where `Terminated`
stutters. Fairness is assumed in `BrokerReconciler` and `AddressPlanWatcher` only
(sections 6 and 7).

## 5. Proofs

The proofs of this section are in `BrokerState_proofs` and hold for every value of the
constants satisfying `ConstantsAssumption`: `DefaultAttr \in Attrs`,
`Absent \notin Attrs`, and the bounds are naturals. Nothing is assumed about the
number of names or field values, or about the bounds.

* `TypeCorrect`: `Spec => []TypeOK`. `TypeOK` is inductive on its own. The proof
  has one step per action, plus lemmas for the map update, `readEntities`,
  `Folded` and `Launch`.
* `MirrorSoundHolds`: `Spec => []MirrorSound`. `MirrorSound` is not inductive:
  during `Initialize`, and while an operation's calls are in flight, the mirror
  and the broker legitimately differ. The strengthening `IInv` adds:
  - `CountBehind`: `reconnectCount <= clientRc`. A reconnect therefore ends the
    session for good, until the next `Initialize`.
  - `Quiescent`: between operations there are no calls, no completed entities and
    no error. During `Initialize` the state is uninitialized.
  - `CallsOfTier`: calls belong to the list and to the running tier.
    `completed` holds finished calls.
  - `NoLostCalls`: a call is lost only with a reconnect.
  - `UniqueIds`: identities are unique in the list.
  - `InitProgress`: the types read so far in the session match the broker.
  - `OpSound`, the core: while an operation runs in the session with no error,
    the broker is the mirror with the `Applied` calls folded in. `Applied` is the
    completed calls plus those acknowledged but not yet received.

  The argument runs as follows:
  - The last read of `Initialize` turns `InitProgress` into `MirrorSound`.
  - Starting an operation turns `MirrorSound` into `OpSound`, with nothing applied.
  - A broker step adds its entity to `Applied`. `UniqueIds` keeps the other
    settings' cells.
  - `Finish` without error folds exactly `Applied` into the mirror.
  - `Finish` with an error resets, so the state is left uninitialized.
  - A drop or restart ends the session.
* `TierBarrierHolds`: `Spec => []TierBarrier`. It rests on `BInv`, which is `IInv`
  plus four conjuncts:
  - `OpInitialized`;
  - `DoneCompleted`: with no error, every finished call is on the completed
    channel;
  - `TierCovered`: the running tier started a call for every entity of its order
    that the mirror asked for;
  - `TierBarrier` itself.

  `NextTier` needs all of them. A tier joined without error has applied all its
  calls, so `OpSound` puts them on, or takes them off, the broker.
* `SuccessConverges`: `Spec => SuccessMeansConverged`, the action property. From
  `BInv`, the only step returning nil from an operation is `Finish` without error
  on the last tier. The last tier's entities are covered by `TierCovered`,
  `DoneCompleted` and `OpSound`, and the other tier's by `TierBarrier`.

Each invariant was checked with TLC, as an invariant of the `broker_safety`
instance, before it was proved.

Out of the prover's reach, and left to TLC: liveness and `ENABLED`
(`EventuallyConverges`, `AwaitWatchingReturns`, `ShutdownReturns`,
`CacheConverges`), induction over data, and `RECURSIVE` operators. The project has
none of the last two. The watcher's server history is a sequence variable rather
than a recursive fold of the log, so its proofs need no induction over data.

### 5.1 `BrokerState` implements `BrokerMirror`

`BrokerMirror` has three variables: the `broker`, the caller's `view`, and
`trusted`. It has four actions:
* `Establish`: a read makes an untrusted view trusted. The view then `Agrees` with
  the broker: the same queues, addresses and diverts, and only address settings
  the broker holds with the same fields.
* `Write(k, n, v)`: while trusted, the broker and the view change at one entity
  together.
* `Distrust`: the trust is withdrawn. The broker is unchanged or loses one entity.
* `Drift`: without trust, anything may change.

`AgreementHolds` (`Spec => [](TypeOK /\ TrustedAgrees)`, proved in `BrokerMirror`)
is the abstract form of `MirrorSound`.

The refinement mapping, in `BrokerState`:
* `view <- View`. `View` is `Fold(Applied, mirror, pc)`: the mirror with the
  running operation's acknowledged calls folded in, as the drain of `completed`
  will fold them. `Fold` is the drain loop, shared with `Folded`.
* `trusted <- Trusted`. `Trusted` holds when the state is idle or in an operation,
  initialized, in the session `Initialize` recorded, and no call has failed.

`RefinesBrokerMirror` (`Spec => ImplementsBrokerMirror`, in
`BrokerState_refinement`) is proved from `IInv` of section 5. The step lemma
`NextRefines` takes one case per action:
* the last read in the session is `Establish`; `MirrorSound'` gives the agreement;
* a broker acknowledgement in a trusted state is `Write`. `AckView` shows the view
  changes at exactly that identity. It needs `UniqueIds` and `CallsOfTier`: the
  entity was not applied yet, and no other applied entity has its identity;
* `Finish` without error is a stutter, because the drain folds exactly `Applied`;
* starting an operation, a nack, a reply received and `NextTier` are stutters;
* `Initialize`, a failing read, errors, `Finish` with an error, `Shutdown`, a drop
  and a restart end in an untrusted state (`Distrust` or `Drift`). `CountBehind`
  shows that a reconnect ends the session.

`TrustedViewAgrees` combines the refinement with `AgreementHolds`. In every
trusted state, in the middle of an operation too, the view agrees with the broker.
It is the invariant `OpSound` obtained through the abstraction.

### 5.2 The controller pass as a caller

`ReconcilerRefinesBrokerState` (`RSpec => Spec`, in `BrokerReconciler_proofs`)
shows that every step of the reconcile loop is a step of `BrokerState`.
`CallEnsure` needs `Desired \in Inputs`, from `ReconcilerAssumption`. So
`ReconcilerMirrorSound` carries `MirrorSound` and the refinement over to the
controller's loop for every desired list. Its liveness (`EventuallyConverges`)
stays with TLC.

## 6. The controller pass: `BrokerReconciler`

`BrokerReconciler` extends `BrokerState` with the caller the spec describes (section 2:
`Initialize` once per resync cycle, then `EnsureEntities` with the desired set). The
controller is not in `src/`, so the caller's pass is modelled from the spec. A
variable `phase` says which call comes next. `CallInitialize` is `InitializeCurrent` (the
no-op) or `Initialize`. `Read` is `InitRead`, and its last read returns nil. `CallEnsure` is
`EnsureEntities(Desired)`. Whatever a call returns, the next pass starts with
`Initialize`. Failing reads (`ReadFails`) are bounded by `MaxReadFailures`. The other
faults keep the `MaxReconnects` bound of `BrokerState`. Deletes and `Shutdown` are
not part of this loop.

Fairness, and why the code justifies it:

* Weak fairness on the controller's calls. It requeues on error and resyncs
  periodically (spec section 7: "re-attempt reconciliation on its next resync
  tick").
* Weak fairness on the reads, the goroutines (`ReceiveReply`, `CallFails`) and the
  tier loop (`NextTier`, `Finish`). These are plain code with no blocking
  beyond the 10 s timeout.
* Weak fairness on `BrokerHandles`: a broker on a live connection answers.

The faults (timeouts, drops, restarts, failing reads) get no fairness. They are
bounded, which is the assumption "faults eventually stop".

`EventuallyConverges == <>[](Converged /\ ~err)`: the broker ends up holding every
desired entity, and from then on no pass fails. The instance has two names, the
desired list {queue n1, address n1, setting n2}, `MaxReconnects = 3` (two faults)
and `MaxReadFailures = 2`. That is 615 k states, about a minute, without symmetry
because the desired list names `n1`. The setting `n2` is never read back by
`Initialize` (settings are read per queue name), so every pass re-sends it. It still
converges, because `addAddressSettings` overwrites. The mutant `isConnectionError`
returning false is caught: a call that timed out after the broker applied it
leaves the mirror without the entity, and without `Reset` every later pass re-sends
the create, fails, and never re-reads the broker.

## 7. The model `AddressPlanWatcher`

State:

* `hist` and `log`: the API server, as a ghost history of its objects per
  resource version, and the event stream between versions.
* `cache`: the AddressPlan entries of `kw.Cache`.
* `wpc`: where the goroutine is (list, populate, events, exited).
* `listRv`, `items`, `curr`: the list's version, the listed keys not yet
  written, and the cached keys not matched by a listed one.
* `pos`: the version the stream has delivered.
* `watching`, `watchingStarted`, `stopReq`, `stopped`, `restartCounter`: the
  struct's channels (closed or not) and fields.
* `cpc`: the caller (`AwaitWatching`, then `Shutdown`).

Actions and their code:

* `List`, `ListFails`: lines 145-164, `resource.List` and the snapshot of the
  cache into `curr`.
* `Populate(k)`: lines 169-201, Update or Add of each listed object.
* `RemoveStale(k)`: lines 203-210, Delete of each entry left in `curr`.
* `PopulateFails`: the error returns inside both loops. The cache stays partly
  written.
* `WatchStart`, `WatchFails`: lines 213-229. The watch starts from the list's
  `ResourceVersion`, and the first watch closes `kw.watching`.
* `Receive`: lines 241-264, one event applied through `CacheApply`.
* `WatchEnds`: the stream closes (resync timeout or connection), a `watch.Error`,
  an object of another type, or a cache error.
* `StopReceived`: the select takes `kw.stopchan`. `doWatch` returns nil, the loop
  ends and the deferred closes run.
* `Restart`: every error return of `doWatch` bumps `restartCounter` and lists
  again. The errors are bounded by `MaxRestarts`.
* `AwaitWatching`, `Shutdown`, `ShutdownDone`: the caller's channel operations.
* `Write(k, v)`: the environment, bounded by `MaxEvents`. Its event type is the one
  the API server reports.

The cache package is not in `src/`. It is assumed to hold one object per key: Add
stores, Update replaces an existing entry, and Delete removes.

Fairness: weak fairness on the goroutine's own steps (`WatcherStep`), and on the
caller's two blocking receives, which return once their channel is closed. The
writes, the failures and the caller's decision to call `Shutdown` are not forced.

Properties:

* `WatchSound`: in the event loop, `cache = StateAt(pos)`.
* `ImplementsWatchedCache`: the refinement, with `ver <- pos` and
  `synced <- (wpc = "events")`. `WatchedCache` says that a synced cache is the
  server at its version and follows it one version at a time. A resync never goes
  back to an older version. While out of sync, the cache may be rebuilt freely.
* `AwaitWatchingReturns`, `ShutdownReturns`, `CacheConverges`: the liveness
  properties.

The instance has two keys, two values, three writes and two failures (422 k states,
under a minute). It reaches a relist after deletes (stale entries), a failure in the
middle of a population, and a write between the list and the watch.

Each property has a mutant that TLC catches:

* `TypeOK`: the watch starts one version past the list's.
* `WatchSound`: `curr` is not filled, so stale entries stay.
* `AwaitWatchingReturns`: a started watch does not close `watching`.
* `ShutdownReturns`: the loop restarts on nil.
* `CacheConverges`: a Modified event is ignored.
* `ImplementsWatchedCache`: the watch starts at the latest version instead of the
  list's.

A hazard no run can show: the restart loop (line 116) never looks at
`kw.stopchan`. `Shutdown` therefore returns only once a List and a Watch succeed.
`ShutdownReturns` holds because the failures are bounded. Against an API server that
keeps failing, `Shutdown` blocks.

## 8. Proofs about the watcher

`AddressPlanWatcher_proofs` proves the following for every value of the constants
satisfying `WatcherAssumption` (`None \notin Vals`, and the bounds are naturals):

* `TypeCorrect`: `Spec => []TypeOK`.
* `WatchSoundHolds`: `Spec => []WatchSound`.
* `Refinement`: `Spec => ImplementsWatchedCache`.

All three rest on the inductive invariant `IInv`:

* `TypeOK`;
* the log bound;
* `LogSound`: every event leads from one version of `hist` to the next, and its
  type matches the state before it;
* `PopulateSound`: during the population, every key outside `items` and `curr`
  already holds its listed object, a key left only in `curr` is absent from the
  list, and `pos <= listRv`;
* `WatchSound` itself.

`WatchSound` alone is not inductive. `WatchStart` needs `PopulateSound`, and `Receive`
needs `LogSound` (lemma `CacheApplySound`: an event whose type agrees with the state
applies as an overwrite).

The refinement proof maps each step to an abstract step:

* `Write` is the abstract `Write`.
* `Populate` and `RemoveStale` are `Rebuild`.
* `WatchStart` is `Resync(listRv)`. `PopulateSound` gives the cache and
  `pos <= listRv`.
* `Receive` is `Follow`.
* `WatchEnds` and `StopReceived` are `Desync`.
* Everything else is a stutter.

`IInv` was checked with TLC before it was proved. The liveness properties of sections
6 and 7 are checked by TLC only.

## 9. Not modelled

* The JSON encoding of requests and replies (data only; a decode failure is one of
  the read failures).
* `DeleteEntities` in the controller pass of `BrokerReconciler` (the desired list is
  only ensured).
* In the watcher: `Shutdown` called twice or before `Watch` (a panic and a hang
  outside the single-caller protocol); the option functions, `GetRestartCount`,
  `updateGroupVersionKind` and logging (no state the model tracks); the watch's
  randomised timeout (any stream may end, `WatchEnds`).
* `cmd/controller-manager/main.go` (process wiring, flags, metrics, the manager's
  start), `controller/iotproject/utils.go` (pure string and condition helpers) and
  `controller/add_messagingendpoint.go` (an `init` registration): no concurrent or
  persistent state to check.
* Duplicate identities in one input list (the spec makes names unique per type).
* Queue-to-address bindings and `deleteAddress` with force (types not in `src/`).
* `NewTestBrokerState`, the getters, logging and `nextResync` (no behaviour).
