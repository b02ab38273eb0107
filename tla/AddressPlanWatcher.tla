------------------------- MODULE AddressPlanWatcher -------------------------
(***************************************************************************)
(* The AddressPlan watcher of                                              *)
(* src/pkg/consolegraphql/watchers/resource_watcher_addressplan.go: one    *)
(* goroutine that lists the AddressPlans, brings the cache in line with    *)
(* the list (add or update every listed object, delete the stale ones),    *)
(* then watches from the list's resource version and applies each event    *)
(* to the cache; any error restarts the list.  The caller waits in         *)
(* AwaitWatching for the first watch and stops the goroutine with          *)
(* Shutdown.                                                                *)
(*                                                                         *)
(* The API server is the environment: its objects at every resource      *)
(* version since the watcher started (hist, a ghost: hist[n + 1] is the    *)
(* state at version n) and the writes between them (log, the event stream; *)
(* event n leads from version n - 1 to n).  A List, a Watch and an open    *)
(* watch stream can fail.                                                   *)
(***************************************************************************)
EXTENDS Naturals, Sequences

CONSTANTS
    Keys,         \* object keys ("AddressPlan/<namespace>/<name>")
    Vals,         \* object contents, abstracted
    None,         \* no object under a key
    MaxEvents,    \* bound on the API server's writes
    MaxRestarts   \* bound on failed lists, watches and watch streams

ASSUME WatcherAssumption ==
    /\ None \notin Vals
    /\ MaxEvents \in Nat
    /\ MaxRestarts \in Nat

VARIABLES
    hist,             \* the API server's objects at each resource version
    log,              \* the API server's writes since, as watch events
    cache,            \* the AddressPlan entries of kw.Cache
    wpc,              \* where the Watch goroutine is
    listRv,           \* resourceList.ResourceVersion of the last List
    items,            \* listed keys not yet added or updated in the cache
    curr,             \* curr: cached keys not (yet) matched by a listed one
    pos,              \* resource version the watch stream has delivered
    watching,         \* kw.watching is closed
    watchingStarted,  \* kw.watchingStarted
    stopReq,          \* kw.stopchan is closed
    stopped,          \* kw.stoppedchan is closed
    restartCounter,   \* kw.restartCounter
    cpc               \* where the caller is

vars == <<hist, log, cache, wpc, listRv, items, curr, pos, watching,
          watchingStarted, stopReq, stopped, restartCounter, cpc>>

Object == Vals \cup {None}

Event == [type : {"Added", "Modified", "Deleted"}, key : Keys, val : Object]

(* The API server's objects at resource version n.                        *)
StateAt(n) == hist[n + 1]

Srv == StateAt(Len(log))

-----------------------------------------------------------------------------
(* The API server writes an object; watchers see the write as an event.    *)
Write(k, v) ==
    /\ Len(log) < MaxEvents
    /\ v # Srv[k]
    /\ hist' = Append(hist, [Srv EXCEPT ![k] = v])
    /\ log' = Append(log, [type |-> IF Srv[k] = None THEN "Added"
                                    ELSE IF v = None THEN "Deleted"
                                    ELSE "Modified",
                           key |-> k, val |-> v])
    /\ UNCHANGED <<cache, wpc, listRv, items, curr, pos, watching,
                   watchingStarted, stopReq, stopped, restartCounter, cpc>>

-----------------------------------------------------------------------------
(* Mutant: a Modified event is not applied to the cached entry.          *)
CacheApplyIgnoresModified(c, ev) ==
    CASE ev.type = "Added"    -> [c EXCEPT ![ev.key] = ev.val]
      [] ev.type = "Modified" -> c
      [] OTHER                -> [c EXCEPT ![ev.key] = None]

(* An event applied to the cache: Added is Cache.Add, Modified is          *)
(* Cache.Update with kw.update (copy the object unless DeepEqual; a key    *)
(* with no entry is left alone), Deleted is Cache.Delete.                  *)
CacheApply(c, ev) ==
    CASE ev.type = "Added"    -> [c EXCEPT ![ev.key] = ev.val]
      [] ev.type = "Modified" -> IF c[ev.key] # None
                                 THEN [c EXCEPT ![ev.key] = ev.val] ELSE c
      [] OTHER                -> [c EXCEPT ![ev.key] = None]

Init ==
    /\ \E s \in [Keys -> Object] : hist = <<s>>
    /\ log = <<>>
    /\ cache = [k \in Keys |-> None]
    /\ wpc = "list"
    /\ listRv = 0
    /\ items = {}
    /\ curr = {}
    /\ pos = 0
    /\ watching = FALSE
    /\ watchingStarted = FALSE
    /\ stopReq = FALSE
    /\ stopped = FALSE
    /\ restartCounter = 0
    /\ cpc = "await"

(* doWatch returned an error: count the restart and list again.           *)
Restart ==
    /\ restartCounter < MaxRestarts
    /\ restartCounter' = restartCounter + 1
    /\ wpc' = "list"

(* resource.List fails.                                                   *)
ListFails ==
    /\ wpc = "list"
    /\ Restart
    /\ UNCHANGED <<hist, log, cache, listRv, items, curr, pos, watching,
                   watchingStarted, stopReq, stopped, cpc>>

(* Mutant: curr is not filled from the cache, so no stale entry is seen.  *)
ListNoSnapshot ==
    /\ wpc = "list"
    /\ listRv' = Len(log)
    /\ items' = {k \in Keys : Srv[k] # None}
    /\ curr' = {}
    /\ wpc' = "populate"
    /\ UNCHANGED <<hist, log, cache, pos, watching, watchingStarted, stopReq,
                   stopped, restartCounter, cpc>>

(* resource.List, then the cache's AddressPlan entries as curr.           *)
List ==
    /\ wpc = "list"
    /\ listRv' = Len(log)
    /\ items' = {k \in Keys : Srv[k] # None}
    /\ curr' = {k \in Keys : cache[k] # None}
    /\ wpc' = "populate"
    /\ UNCHANGED <<hist, log, cache, pos, watching, watchingStarted, stopReq,
                   stopped, restartCounter, cpc>>

(* One listed object: Cache.Update of the entry in curr (copy unless      *)
(* DeepEqual) and delete(curr, key), or Cache.Add of a new entry.          *)
Populate(k) ==
    /\ wpc = "populate"
    /\ k \in items
    /\ cache' = [cache EXCEPT ![k] = StateAt(listRv)[k]]
    /\ items' = items \ {k}
    /\ curr' = curr \ {k}
    /\ UNCHANGED <<hist, log, wpc, listRv, pos, watching, watchingStarted,
                   stopReq, stopped, restartCounter, cpc>>

(* One stale entry (cached, not listed): Cache.Delete.                    *)
RemoveStale(k) ==
    /\ wpc = "populate"
    /\ items = {}
    /\ k \in curr
    /\ cache' = [cache EXCEPT ![k] = None]
    /\ curr' = curr \ {k}
    /\ UNCHANGED <<hist, log, wpc, listRv, items, pos, watching,
                   watchingStarted, stopReq, stopped, restartCounter, cpc>>

(* A cache operation or a key fails in the middle of the population: the  *)
(* cache keeps the entries already added, updated or deleted.             *)
PopulateFails ==
    /\ wpc = "populate"
    /\ Restart
    /\ UNCHANGED <<hist, log, cache, listRv, items, curr, pos, watching,
                   watchingStarted, stopReq, stopped, cpc>>

Populated == wpc = "populate" /\ items = {} /\ curr = {}

(* resource.Watch from the list's resource version fails.                 *)
WatchFails ==
    /\ Populated
    /\ Restart
    /\ UNCHANGED <<hist, log, cache, listRv, items, curr, pos, watching,
                   watchingStarted, stopReq, stopped, cpc>>

(* Mutant: the watch starts one version after the list's.                *)
WatchStartAfterListRv ==
    /\ Populated
    /\ pos' = listRv + 1
    /\ watching' = TRUE
    /\ watchingStarted' = TRUE
    /\ wpc' = "events"
    /\ UNCHANGED <<hist, log, cache, listRv, items, curr, stopReq, stopped,
                   restartCounter, cpc>>

(* Mutant: the watch starts without ResourceVersion, at the latest one.  *)
WatchStartFromLatest ==
    /\ Populated
    /\ pos' = Len(log)
    /\ watching' = TRUE
    /\ watchingStarted' = TRUE
    /\ wpc' = "events"
    /\ UNCHANGED <<hist, log, cache, listRv, items, curr, stopReq, stopped,
                   restartCounter, cpc>>

(* Mutant: kw.watching is never closed by a started watch.              *)
WatchStartNoClose ==
    /\ Populated
    /\ pos' = listRv
    /\ watching' = watching
    /\ watchingStarted' = TRUE
    /\ wpc' = "events"
    /\ UNCHANGED <<hist, log, cache, listRv, items, curr, stopReq, stopped,
                   restartCounter, cpc>>

(* resource.Watch from the list's resource version; the first one closes  *)
(* kw.watching.                                                            *)
WatchStart ==
    /\ Populated
    /\ pos' = listRv
    /\ watching' = TRUE
    /\ watchingStarted' = TRUE
    /\ wpc' = "events"
    /\ UNCHANGED <<hist, log, cache, listRv, items, curr, stopReq, stopped,
                   restartCounter, cpc>>

(* The next event of the stream, applied to the cache.                    *)
Receive ==
    /\ wpc = "events"
    /\ pos < Len(log)
    /\ cache' = CacheApply(cache, log[pos + 1])
    /\ pos' = pos + 1
    /\ UNCHANGED <<hist, log, wpc, listRv, items, curr, watching,
                   watchingStarted, stopReq, stopped, restartCounter, cpc>>

(* The stream closes (resync timeout, dropped connection), delivers a     *)
(* watch.Error or an object of another type, or the cache rejects the     *)
(* event: doWatch returns an error.                                        *)
WatchEnds ==
    /\ wpc = "events"
    /\ Restart
    /\ UNCHANGED <<hist, log, cache, listRv, items, curr, pos, watching,
                   watchingStarted, stopReq, stopped, cpc>>

(* Mutant: the Watch loop restarts on a nil result as well.               *)
StopReceivedLoops ==
    /\ wpc = "events"
    /\ stopReq
    /\ wpc' = "list"
    /\ UNCHANGED <<hist, log, cache, listRv, items, curr, pos, watching,
                   watchingStarted, stopReq, stopped, restartCounter, cpc>>

(* The select takes kw.stopchan: doWatch returns nil, the loop ends, the   *)
(* deferred calls close kw.watching if no watch started and close         *)
(* kw.stoppedchan.                                                         *)
StopReceived ==
    /\ wpc = "events"
    /\ stopReq
    /\ wpc' = "exited"
    /\ watching' = (watching \/ ~watchingStarted)
    /\ stopped' = TRUE
    /\ UNCHANGED <<hist, log, cache, listRv, items, curr, pos, watchingStarted,
                   stopReq, restartCounter, cpc>>

-----------------------------------------------------------------------------
(* The caller: AwaitWatching, then Shutdown.                               *)

AwaitWatching ==
    /\ cpc = "await"
    /\ watching
    /\ cpc' = "ready"
    /\ UNCHANGED <<hist, log, cache, wpc, listRv, items, curr, pos, watching,
                   watchingStarted, stopReq, stopped, restartCounter>>

(* Shutdown closes kw.stopchan and blocks on kw.stoppedchan.               *)
Shutdown ==
    /\ cpc = "ready"
    /\ stopReq' = TRUE
    /\ cpc' = "stopping"
    /\ UNCHANGED <<hist, log, cache, wpc, listRv, items, curr, pos, watching,
                   watchingStarted, stopped, restartCounter>>

ShutdownDone ==
    /\ cpc = "stopping"
    /\ stopped
    /\ cpc' = "done"
    /\ UNCHANGED <<hist, log, cache, wpc, listRv, items, curr, pos, watching,
                   watchingStarted, stopReq, stopped, restartCounter>>

Terminated ==
    /\ cpc = "done"
    /\ UNCHANGED vars

-----------------------------------------------------------------------------
(* The goroutine's own steps; the failures are the environment's.         *)
WatcherStep ==
    \/ List
    \/ \E k \in Keys : Populate(k) \/ RemoveStale(k)
    \/ WatchStart
    \/ Receive
    \/ StopReceived

Next ==
    \/ \E k \in Keys, v \in Object : Write(k, v)
    \/ WatcherStep
    \/ ListFails
    \/ PopulateFails
    \/ WatchFails
    \/ WatchEnds
    \/ AwaitWatching
    \/ Shutdown
    \/ ShutdownDone
    \/ Terminated

(* The goroutine runs whenever it has a step to take, and a blocked       *)
(* channel receive of the caller returns once the channel is closed.      *)
(* Neither the API server's writes nor the caller's Shutdown are forced.  *)
Spec ==
    /\ Init /\ [][Next]_vars
    /\ WF_vars(WatcherStep)
    /\ WF_vars(AwaitWatching)
    /\ WF_vars(ShutdownDone)

-----------------------------------------------------------------------------
(* Properties.                                                             *)

TypeOK ==
    /\ hist \in Seq([Keys -> Object])
    /\ log \in Seq(Event)
    /\ Len(hist) = Len(log) + 1
    /\ cache \in [Keys -> Object]
    /\ wpc \in {"list", "populate", "events", "exited"}
    /\ listRv \in 0..Len(log)
    /\ items \subseteq Keys
    /\ curr \subseteq Keys
    /\ pos \in 0..Len(log)
    /\ watching \in BOOLEAN
    /\ watchingStarted \in BOOLEAN
    /\ stopReq \in BOOLEAN
    /\ stopped \in BOOLEAN
    /\ restartCounter \in Nat
    /\ cpc \in {"await", "ready", "stopping", "done"}

(* While the watch runs, the cache holds exactly the API server's objects *)
(* at the resource version the stream has delivered: listing, updating,   *)
(* deleting the stale entries and watching from the list's version lose   *)
(* and replay no write, across any number of restarts.                    *)
WatchSound == wpc = "events" => cache = StateAt(pos)

(* AwaitWatching returns once the API server answers: the first watch     *)
(* closes kw.watching.                                                     *)
AwaitWatchingReturns == cpc = "await" ~> cpc = "ready"

(* Shutdown returns: the goroutine notices kw.stopchan and closes          *)
(* kw.stoppedchan.                                                         *)
ShutdownReturns == cpc = "stopping" ~> cpc = "done"

(* The watcher implements WatchedCache: with the version the stream has   *)
(* delivered as the cache's version and the event loop as the synced       *)
(* phase, every step of the goroutine and of the API server is a step of   *)
(* the abstract cache: the watch resumes exactly where the list left the   *)
(* cache and never at a version older than the one already applied.       *)
Abstract == INSTANCE WatchedCache WITH ver <- pos, synced <- (wpc = "events")

ImplementsWatchedCache == Abstract!Spec

(* Unless the watcher is shut down, its cache ends up equal to the API    *)
(* server's objects and stays so.                                          *)
CacheConverges == <>[](stopReq \/ cache = Srv)

=============================================================================
