--------------------- MODULE AddressPlanWatcher_proofs ---------------------
(***************************************************************************)
(* Proofs about the AddressPlan watcher: its type invariant, WatchSound    *)
(* (while the watch runs the cache is the API server's state at the       *)
(* delivered version) and the refinement of WatchedCache, for every value *)
(* of the constants.                                                        *)
(***************************************************************************)
EXTENDS AddressPlanWatcher, TLAPS

(* Every write of the log leads from one version of hist to the next, and  *)
(* its event type is the one the API server reports for it.                *)
LogSound ==
    \A i \in 1..Len(log) :
        /\ hist[i + 1] = [hist[i] EXCEPT ![log[i].key] = log[i].val]
        /\ log[i].type = "Added" => hist[i][log[i].key] = None
        /\ log[i].type = "Modified" => hist[i][log[i].key] # None
        /\ log[i].type = "Deleted" => log[i].val = None

(* During the population, every key out of items and curr already holds   *)
(* its listed object, every key left in curr only is absent from the list, *)
(* and the list is no older than what the last watch delivered.           *)
PopulateSound ==
    wpc = "populate" =>
        /\ pos <= listRv
        /\ \A k \in Keys \ (items \cup curr) : cache[k] = StateAt(listRv)[k]
        /\ \A k \in curr \ items : StateAt(listRv)[k] = None

IInv ==
    /\ TypeOK
    /\ Len(log) <= MaxEvents
    /\ LogSound
    /\ PopulateSound
    /\ WatchSound

USE WatcherAssumption

-----------------------------------------------------------------------------
(* Lemmas on the operators the model is built from.                        *)

(* Appending to a sequence keeps its elements and adds one at the end.     *)
LEMMA AppendKeeps ==
    ASSUME NEW S, NEW s \in Seq(S), NEW x \in S
    PROVE  /\ Append(s, x) \in Seq(S)
           /\ Len(Append(s, x)) = Len(s) + 1
           /\ \A i \in 1..Len(s) : Append(s, x)[i] = s[i]
           /\ Append(s, x)[Len(s) + 1] = x
BY SMT

(* Applying an event whose type agrees with the server's state before it   *)
(* gives the server's state after it.                                      *)
LEMMA CacheApplySound ==
    ASSUME NEW c \in [Keys -> Object], NEW ev \in Event,
           ev.type = "Added" => c[ev.key] = None,
           ev.type = "Modified" => c[ev.key] # None,
           ev.type = "Deleted" => ev.val = None
    PROVE  CacheApply(c, ev) = [c EXCEPT ![ev.key] = ev.val]
<1>1. CASE ev.type = "Added"
  BY <1>1 DEF CacheApply
<1>2. CASE ev.type = "Modified"
  BY <1>2 DEF CacheApply
<1>3. CASE ev.type = "Deleted"
  BY <1>3 DEF CacheApply
<1>4. QED
  BY <1>1, <1>2, <1>3 DEF Event

-----------------------------------------------------------------------------
(* The inductive invariant.                                                *)

LEMMA InitIInv == Init => IInv
<1> SUFFICES ASSUME Init PROVE IInv
  OBVIOUS
<1>1. PICK s \in [Keys -> Object] : hist = <<s>>
  BY DEF Init
<1>2. hist \in Seq([Keys -> Object]) /\ Len(hist) = 1
  BY <1>1
<1>3. log \in Seq(Event) /\ Len(log) = 0
  BY DEF Init
<1>4. TypeOK
  <2>1. cache \in [Keys -> Object]
    BY DEF Init, Object
  <2>2. /\ wpc \in {"list", "populate", "events", "exited"}
        /\ listRv \in 0..Len(log) /\ pos \in 0..Len(log)
        /\ items \subseteq Keys /\ curr \subseteq Keys
        /\ restartCounter \in Nat
        /\ cpc \in {"await", "ready", "stopping", "done"}
    BY <1>3 DEF Init
  <2>3. /\ watching \in BOOLEAN /\ watchingStarted \in BOOLEAN
        /\ stopReq \in BOOLEAN /\ stopped \in BOOLEAN
    BY DEF Init
  <2>4. QED
    BY <1>2, <1>3, <2>1, <2>2, <2>3 DEF TypeOK
<1>5. LogSound /\ PopulateSound /\ WatchSound
  BY DEF Init, LogSound, PopulateSound, WatchSound
<1>6. QED
  BY <1>4, <1>5 DEF Init, IInv

(* A step that changes none of hist, log, cache, listRv, items, curr and   *)
(* pos, and stays in or leaves the populate and events phases only towards *)
(* list or exited, keeps IInv.                                            *)
LEMMA QuietIInv ==
    ASSUME IInv,
           UNCHANGED <<hist, log, cache, listRv, items, curr, pos>>,
           wpc' \in {"list", "populate", "events", "exited"},
           watching' \in BOOLEAN, watchingStarted' \in BOOLEAN,
           stopReq' \in BOOLEAN, stopped' \in BOOLEAN,
           restartCounter' \in Nat,
           cpc' \in {"await", "ready", "stopping", "done"},
           wpc' = "populate" => wpc = "populate",
           wpc' = "events" => wpc = "events"
    PROVE  IInv'
BY DEF IInv, TypeOK, LogSound, PopulateSound, WatchSound, StateAt

LEMMA WriteIInv ==
    ASSUME IInv, NEW k \in Keys, NEW v \in Object, Write(k, v)
    PROVE  IInv'
<1> USE DEF IInv
<1> DEFINE ev == [type |-> IF Srv[k] = None THEN "Added"
                           ELSE IF v = None THEN "Deleted"
                           ELSE "Modified",
                  key |-> k, val |-> v]
           new == [Srv EXCEPT ![k] = v]
<1>1. /\ hist \in Seq([Keys -> Object])
      /\ log \in Seq(Event)
      /\ Len(hist) = Len(log) + 1
      /\ Srv = hist[Len(log) + 1]
  BY DEF TypeOK, Srv, StateAt
<1>2. /\ ev \in Event
      /\ new \in [Keys -> Object]
      /\ hist' = Append(hist, new)
      /\ log' = Append(log, ev)
  BY <1>1 DEF Write, Event, TypeOK
<1>3. /\ Len(hist') = Len(hist) + 1
      /\ Len(log') = Len(log) + 1
      /\ \A i \in 1..Len(hist) : hist'[i] = hist[i]
      /\ \A i \in 1..Len(log) : log'[i] = log[i]
      /\ hist'[Len(hist) + 1] = new
      /\ log'[Len(log) + 1] = ev
      /\ hist' \in Seq([Keys -> Object])
      /\ log' \in Seq(Event)
  BY <1>1, <1>2, AppendKeeps
<1>4. UNCHANGED <<cache, wpc, listRv, items, curr, pos, watching,
                  watchingStarted, stopReq, stopped, restartCounter, cpc>>
  BY DEF Write
<1>5. TypeOK'
  BY <1>3, <1>4 DEF TypeOK
<1>6. Len(log') <= MaxEvents
  BY <1>3 DEF Write
<1>7. LogSound'
  <2> SUFFICES ASSUME NEW i \in 1..Len(log')
               PROVE  /\ hist'[i + 1] = [hist'[i] EXCEPT ![log'[i].key] = log'[i].val]
                      /\ log'[i].type = "Added" => hist'[i][log'[i].key] = None
                      /\ log'[i].type = "Modified" => hist'[i][log'[i].key] # None
                      /\ log'[i].type = "Deleted" => log'[i].val = None
    BY DEF LogSound
  <2>1. CASE i \in 1..Len(log)
    <3>1. /\ hist'[i] = hist[i]
          /\ hist'[i + 1] = hist[i + 1]
          /\ log'[i] = log[i]
      BY <2>1, <1>1, <1>3
    <3>2. QED
      <4>1. /\ hist[i + 1] = [hist[i] EXCEPT ![log[i].key] = log[i].val]
            /\ log[i].type = "Added" => hist[i][log[i].key] = None
            /\ log[i].type = "Modified" => hist[i][log[i].key] # None
            /\ log[i].type = "Deleted" => log[i].val = None
        BY <2>1 DEF LogSound
      <4>2. QED
        BY <4>1, <3>1, Zenon
  <2>2. CASE i = Len(log) + 1
    <3>1. i \in 1..Len(hist) /\ i + 1 = Len(hist) + 1
      BY <2>2, <1>1
    <3>4. hist'[i] = Srv
      BY <3>1, <1>1, <1>3
    <3>5. hist'[i + 1] = new
      BY <3>1, <1>3
    <3>6. log'[i] = ev
      BY <2>2, <1>3
    <3>2. v # Srv[k]
      BY DEF Write
    <3>3. QED
      BY <3>4, <3>5, <3>6, <3>2
  <2>3. QED
    BY <2>1, <2>2, <1>3
<1>8. \A n \in 0..Len(log) : StateAt(n)' = StateAt(n)
  BY <1>1, <1>3 DEF StateAt
<1>9. PopulateSound'
  BY <1>4, <1>8 DEF PopulateSound, TypeOK
<1>10. WatchSound'
  BY <1>4, <1>8 DEF WatchSound, TypeOK
<1>11. QED
  BY <1>5, <1>6, <1>7, <1>9, <1>10

(* The server's state at any version up to the latest is a map of objects. *)
LEMMA StateAtType ==
    ASSUME TypeOK, NEW n \in 0..Len(log)
    PROVE  StateAt(n) \in [Keys -> Object]
BY DEF TypeOK, StateAt

LEMMA ListIInv ==
    ASSUME IInv, List
    PROVE  IInv'
<1> USE DEF IInv
<1>1. Srv \in [Keys -> Object] /\ StateAt(listRv') = Srv
  BY StateAtType DEF List, Srv, TypeOK
<1>2. TypeOK'
  BY DEF List, TypeOK
<1>3. PopulateSound'
  <2>1. pos' <= listRv'
    BY DEF List, TypeOK
  <2>2. \A k \in Keys \ (items' \cup curr') : cache'[k] = StateAt(listRv')[k]
    BY <1>1 DEF List
  <2>3. \A k \in curr' \ items' : StateAt(listRv')[k] = None
    BY <1>1 DEF List
  <2>4. QED
    BY <2>1, <2>2, <2>3 DEF PopulateSound, StateAt, List
<1>4. LogSound' /\ WatchSound' /\ Len(log') <= MaxEvents
  BY DEF List, LogSound, WatchSound
<1>5. QED
  BY <1>2, <1>3, <1>4

LEMMA PopulateIInv ==
    ASSUME IInv, NEW k \in Keys, Populate(k)
    PROVE  IInv'
<1> USE DEF IInv
<1>1. StateAt(listRv) \in [Keys -> Object]
  BY StateAtType DEF TypeOK
<1>2. TypeOK'
  BY <1>1 DEF Populate, TypeOK
<1>3. PopulateSound'
  <2>1. pos' <= listRv'
    BY DEF Populate, PopulateSound
  <2>2. \A j \in Keys \ (items' \cup curr') : cache'[j] = StateAt(listRv')[j]
    BY DEF Populate, PopulateSound, StateAt, TypeOK
  <2>3. \A j \in curr' \ items' : StateAt(listRv')[j] = None
    BY DEF Populate, PopulateSound, StateAt
  <2>4. QED
    BY <2>1, <2>2, <2>3 DEF PopulateSound, StateAt, Populate
<1>4. LogSound' /\ WatchSound' /\ Len(log') <= MaxEvents
  BY DEF Populate, LogSound, WatchSound
<1>5. QED
  BY <1>2, <1>3, <1>4

LEMMA RemoveStaleIInv ==
    ASSUME IInv, NEW k \in Keys, RemoveStale(k)
    PROVE  IInv'
<1> USE DEF IInv
<1>1. TypeOK'
  BY DEF RemoveStale, TypeOK, Object
<1>2. PopulateSound'
  <2>1. pos' <= listRv'
    BY DEF RemoveStale, PopulateSound
  <2>2. \A j \in Keys \ (items' \cup curr') : cache'[j] = StateAt(listRv')[j]
    BY DEF RemoveStale, PopulateSound, StateAt, TypeOK
  <2>3. \A j \in curr' \ items' : StateAt(listRv')[j] = None
    BY DEF RemoveStale, PopulateSound, StateAt
  <2>4. QED
    BY <2>1, <2>2, <2>3 DEF PopulateSound, StateAt, RemoveStale
<1>3. LogSound' /\ WatchSound' /\ Len(log') <= MaxEvents
  BY DEF RemoveStale, LogSound, WatchSound
<1>4. QED
  BY <1>1, <1>2, <1>3

(* A finished population leaves the cache equal to the listed version.    *)
LEMMA PopulatedCache ==
    ASSUME IInv, Populated
    PROVE  cache = StateAt(listRv) /\ pos <= listRv
<1>1. StateAt(listRv) \in [Keys -> Object] /\ cache \in [Keys -> Object]
  BY StateAtType DEF IInv, TypeOK
<1>2. \A k \in Keys : cache[k] = StateAt(listRv)[k]
  BY DEF IInv, Populated, PopulateSound
<1>3. QED
  BY <1>1, <1>2 DEF IInv, Populated, PopulateSound

LEMMA WatchStartIInv ==
    ASSUME IInv, WatchStart
    PROVE  IInv'
<1> USE DEF IInv
<1>1. cache = StateAt(listRv)
  BY PopulatedCache DEF WatchStart
<1>2. TypeOK'
  BY DEF WatchStart, TypeOK
<1>3. WatchSound'
  BY <1>1 DEF WatchStart, WatchSound, StateAt
<1>4. LogSound' /\ PopulateSound' /\ Len(log') <= MaxEvents
  BY DEF WatchStart, LogSound, PopulateSound
<1>5. QED
  BY <1>2, <1>3, <1>4

(* The next event of the stream takes the cache to the next version.       *)
LEMMA ReceiveNext ==
    ASSUME IInv, wpc = "events", pos < Len(log)
    PROVE  CacheApply(cache, log[pos + 1]) = StateAt(pos + 1)
<1> DEFINE i == pos + 1
<1>1. i \in 1..Len(log) /\ log[i] \in Event
  BY DEF IInv, TypeOK
<1>2. cache = hist[i] /\ cache \in [Keys -> Object]
  BY DEF IInv, WatchSound, StateAt, TypeOK
<1>3. /\ hist[i + 1] = [hist[i] EXCEPT ![log[i].key] = log[i].val]
      /\ log[i].type = "Added" => hist[i][log[i].key] = None
      /\ log[i].type = "Modified" => hist[i][log[i].key] # None
      /\ log[i].type = "Deleted" => log[i].val = None
  BY <1>1 DEF IInv, LogSound
<1>4. CacheApply(cache, log[i]) = [cache EXCEPT ![log[i].key] = log[i].val]
  BY <1>1, <1>2, <1>3, CacheApplySound
<1>5. QED
  BY <1>2, <1>3, <1>4 DEF StateAt

LEMMA ReceiveIInv ==
    ASSUME IInv, Receive
    PROVE  IInv'
<1> USE DEF IInv
<1>1. cache' = StateAt(pos + 1)
  BY ReceiveNext DEF Receive
<1>2. StateAt(pos + 1) \in [Keys -> Object]
  BY StateAtType DEF Receive, TypeOK
<1>3. TypeOK'
  BY <1>1, <1>2 DEF Receive, TypeOK
<1>4. WatchSound'
  BY <1>1 DEF Receive, WatchSound, StateAt
<1>5. LogSound' /\ PopulateSound' /\ Len(log') <= MaxEvents
  BY DEF Receive, LogSound, PopulateSound
<1>6. QED
  BY <1>3, <1>4, <1>5

LEMMA NextIInv ==
    ASSUME IInv, [Next]_vars
    PROVE  IInv'
<1>1. CASE \E k \in Keys, v \in Object : Write(k, v)
  BY <1>1, WriteIInv
<1>2. CASE List
  BY <1>2, ListIInv
<1>3. CASE \E k \in Keys : Populate(k) \/ RemoveStale(k)
  BY <1>3, PopulateIInv, RemoveStaleIInv
<1>4. CASE WatchStart
  BY <1>4, WatchStartIInv
<1>5. CASE Receive
  BY <1>5, ReceiveIInv
<1>6. CASE StopReceived
  BY <1>6, QuietIInv DEF StopReceived, IInv, TypeOK
<1>7. CASE ListFails \/ PopulateFails \/ WatchFails \/ WatchEnds
  BY <1>7, QuietIInv DEF ListFails, PopulateFails, WatchFails, WatchEnds,
                         Populated, Restart, IInv, TypeOK
<1>8. CASE AwaitWatching \/ Shutdown \/ ShutdownDone \/ Terminated
  BY <1>8, QuietIInv DEF AwaitWatching, Shutdown, ShutdownDone, Terminated,
                         vars, IInv, TypeOK
<1>9. CASE UNCHANGED vars
  BY <1>9, QuietIInv DEF vars, IInv, TypeOK
<1>10. QED
  BY <1>1, <1>2, <1>3, <1>4, <1>5, <1>6, <1>7, <1>8, <1>9 DEF Next, WatcherStep

(* IInv holds in every reachable state of the watcher.                     *)
THEOREM IInvHolds == Spec => []IInv
BY InitIInv, NextIInv, PTL DEF Spec

(* Every variable of the watcher and its environment keeps its type.       *)
THEOREM TypeCorrect == Spec => []TypeOK
BY IInvHolds, PTL DEF IInv

(* While doWatch is in its event loop, the cache is the API server's state *)
(* at the version the stream has delivered, after any number of writes,   *)
(* failed lists, half-done populations, failed watches and closed streams. *)
THEOREM WatchSoundHolds == Spec => []WatchSound
BY IInvHolds, PTL DEF IInv

-----------------------------------------------------------------------------
(* Refinement of WatchedCache.                                              *)

LEMMA InitRefines == Init => Abstract!Init
BY DEF Init, Abstract!Init, Object, Abstract!Object

(* A step that leaves hist, cache and pos alone and neither enters nor     *)
(* leaves the event loop is an abstract stutter.                           *)
LEMMA StutterRefines ==
    ASSUME UNCHANGED <<hist, cache, pos>>, (wpc' = "events") = (wpc = "events")
    PROVE  [Abstract!Next]_Abstract!avars
BY DEF Abstract!avars

LEMMA WriteRefines ==
    ASSUME IInv, NEW k \in Keys, NEW v \in Object, Write(k, v)
    PROVE  Abstract!Write(k, v)
<1>1. Len(hist) = Len(log) + 1 /\ hist \in Seq([Keys -> Object])
  BY DEF IInv, TypeOK
<1>2. Srv = hist[Len(hist)] /\ Abstract!Latest = Len(log)
  BY <1>1 DEF Srv, StateAt, Abstract!Latest
<1>3. QED
  BY <1>2 DEF Write, Abstract!Write

LEMMA RebuildRefines ==
    ASSUME IInv, NEW k \in Keys, Populate(k) \/ RemoveStale(k)
    PROVE  Abstract!Rebuild
<1>1. cache' \in [Keys -> Object]
  BY NextIInv, PopulateIInv, RemoveStaleIInv DEF IInv, TypeOK
<1>2. wpc = "populate" /\ UNCHANGED <<hist, wpc, pos>>
  BY DEF Populate, RemoveStale
<1>3. QED
  BY <1>1, <1>2 DEF Abstract!Rebuild, Abstract!Object, Object

LEMMA WatchStartRefines ==
    ASSUME IInv, WatchStart
    PROVE  Abstract!Resync(listRv)
<1>1. cache = StateAt(listRv) /\ pos <= listRv
  BY PopulatedCache DEF WatchStart
<1>2. listRv \in 0..Len(log) /\ pos \in 0..Len(log)
      /\ Len(hist) = Len(log) + 1
  BY DEF IInv, TypeOK
<1>3. listRv \in pos..Abstract!Latest
  BY <1>1, <1>2 DEF Abstract!Latest
<1>4. QED
  BY <1>1, <1>3 DEF WatchStart, Populated, StateAt, Abstract!Resync

LEMMA ReceiveRefines ==
    ASSUME IInv, Receive
    PROVE  Abstract!Follow
<1>1. cache' = StateAt(pos + 1)
  BY ReceiveNext DEF Receive
<1>2a. cache' = hist[pos + 2]
  BY <1>1 DEF StateAt, IInv, TypeOK
<1>2. pos < Abstract!Latest
  BY DEF Receive, IInv, TypeOK, Abstract!Latest
<1>3. QED
  BY <1>2a, <1>2 DEF Receive, Abstract!Follow

(* The watcher implements WatchedCache under the refinement mapping        *)
(* ver <- pos, synced <- (wpc = "events"): every behaviour of the watcher  *)
(* is one of the abstract cache, so a resync never goes back in version.  *)
THEOREM Refinement == Spec => ImplementsWatchedCache
<1>1. IInv /\ [Next]_vars => [Abstract!Next]_Abstract!avars
  <2> SUFFICES ASSUME IInv, [Next]_vars
               PROVE  [Abstract!Next]_Abstract!avars
    OBVIOUS
  <2>1. CASE \E k \in Keys, v \in Object : Write(k, v)
    BY <2>1, WriteRefines DEF Abstract!Next, Abstract!Object, Object
  <2>2. CASE \E k \in Keys : Populate(k) \/ RemoveStale(k)
    BY <2>2, RebuildRefines DEF Abstract!Next
  <2>3. CASE WatchStart
    <3>1. listRv \in 0..MaxEvents
      BY DEF IInv, TypeOK
    <3>2. QED
      BY <2>3, <3>1, WatchStartRefines DEF Abstract!Next
  <2>4. CASE Receive
    BY <2>4, ReceiveRefines DEF Abstract!Next
  <2>5. CASE StopReceived \/ WatchEnds
    <3>1. Abstract!Desync
      BY <2>5 DEF StopReceived, WatchEnds, Restart, Abstract!Desync
    <3>2. QED
      BY <3>1 DEF Abstract!Next
  <2>6. CASE \/ List \/ ListFails \/ PopulateFails \/ WatchFails
             \/ AwaitWatching \/ Shutdown \/ ShutdownDone \/ Terminated
             \/ UNCHANGED vars
    BY <2>6, StutterRefines DEF List, ListFails, PopulateFails, WatchFails,
       Populated, Restart, AwaitWatching, Shutdown, ShutdownDone, Terminated,
       vars
  <2>7. QED
    BY <2>1, <2>2, <2>3, <2>4, <2>5, <2>6 DEF Next, WatcherStep
<1>2. QED
  BY <1>1, InitRefines, IInvHolds, PTL DEF Spec, ImplementsWatchedCache,
                                         Abstract!Spec

=============================================================================
