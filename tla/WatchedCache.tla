---------------------------- MODULE WatchedCache ----------------------------
(***************************************************************************)
(* What a list-then-watch cache promises, whatever its steps: the API      *)
(* server moves through numbered versions; the cache is either rebuilding  *)
(* (synced = FALSE, its contents unspecified) or synced, and then holds    *)
(* exactly the server's objects at version ver and follows the server one *)
(* version at a time.  A resync never goes back to a version older than    *)
(* the one the cache last reflected.                                        *)
(***************************************************************************)
EXTENDS Naturals, Sequences

CONSTANTS Keys, Vals, None, MaxEvents

VARIABLES
    hist,    \* the server's objects at each version: hist[n + 1] at version n
    cache,   \* the cache's objects
    ver,     \* the version the cache reflects, or last reflected
    synced   \* the cache is in step with version ver

avars == <<hist, cache, ver, synced>>

Object == Vals \cup {None}

Latest == Len(hist) - 1

Init ==
    /\ \E s \in [Keys -> Object] : hist = <<s>>
    /\ cache = [k \in Keys |-> None]
    /\ ver = 0
    /\ synced = FALSE

(* The server changes one object.                                          *)
Write(k, v) ==
    /\ Latest < MaxEvents
    /\ v # hist[Len(hist)][k]
    /\ hist' = Append(hist, [hist[Len(hist)] EXCEPT ![k] = v])
    /\ UNCHANGED <<cache, ver, synced>>

(* The cache falls out of step; nothing is promised until the next resync. *)
Desync ==
    /\ synced' = FALSE
    /\ UNCHANGED <<hist, cache, ver>>

(* While out of step, the cache may change in any way.                    *)
Rebuild ==
    /\ ~synced
    /\ cache' \in [Keys -> Object]
    /\ UNCHANGED <<hist, ver, synced>>

(* The cache comes back in step at a version no older than the last one.  *)
Resync(n) ==
    /\ ~synced
    /\ n \in ver..Latest
    /\ cache' = hist[n + 1]
    /\ ver' = n
    /\ synced' = TRUE
    /\ UNCHANGED hist

(* In step, the cache takes the next version.                             *)
Follow ==
    /\ synced
    /\ ver < Latest
    /\ cache' = hist[ver + 2]
    /\ ver' = ver + 1
    /\ UNCHANGED <<hist, synced>>

Next ==
    \/ \E k \in Keys, v \in Object : Write(k, v)
    \/ Desync
    \/ Rebuild
    \/ \E n \in 0..MaxEvents : Resync(n)
    \/ Follow

Spec == Init /\ [][Next]_avars

=============================================================================
