----------------------------- MODULE MoveCache -----------------------------
(***************************************************************************)
(* The cache of game states (cache/cache.go): a concurrent map from a game *)
(* and a move number to a state that expires, beside an atomic counter of  *)
(* its entries.  Setting and deleting change the map first and the counter *)
(* afterwards.  MonitorCacheSize asks for a clean-up when the counter is   *)
(* above maxEntries; Cleanup ranges over the map twice, first to drop what *)
(* has expired and to find the highest move of each game, then to drop the *)
(* lower ones.                                                             *)
(*                                                                         *)
(* External: the callers of SetCacheValue and DeleteCacheValue; Range of   *)
(* the map, which copies a bucket of entries and then visits the copies.   *)
(***************************************************************************)
EXTENDS Integers, FiniteSets, Functions

CONSTANTS
    Callers,         \* goroutines that call SetCacheValue or DeleteCacheValue
    Keys,            \* the hex.CacheKeys
    expirationTime,
    maxEntries,
    MaxCalls,        \* bound on the calls of all callers
    MaxTime          \* bound on the clock

ASSUME CacheAssumption ==
    /\ IsFiniteSet(Callers)
    /\ Keys \subseteq [GameID : Nat, MoveCounter : Nat]
    /\ expirationTime \in Nat /\ maxEntries \in Nat
    /\ MaxCalls \in Nat /\ MaxTime \in Nat

Games == {k.GameID : k \in Keys}

VARIABLES
    CacheMap,      \* the Expiration of each entry
    entryCount,
    now,
    upc,           \* callers: "idle", "add", "subtract"
    calls,         \* calls made so far
    mpc,           \* MonitorCacheSize: "wait", "send", "returned"
    cpc,           \* Cleanup: "wait", "first", "second", "returned"
    todo,          \* keys whose bucket Range has yet to copy
    batch,         \* copies that Range has yet to visit
    owed,          \* Cleanup has deleted an entry and not counted it
    highestMoves,
    cancelled,
    stored,        \* history: the Expiration each stored key was last given
    again,         \* history: keys stored over an entry
    dropped        \* history: keys a caller has deleted

mapVars == <<CacheMap, entryCount>>
callerVars == <<upc, calls>>
cleanVars == <<cpc, todo, batch, owed, highestMoves>>
historyVars == <<stored, again, dropped>>
vars == <<mapVars, now, callerVars, mpc, cleanVars, cancelled, historyVars>>

Entries == DOMAIN CacheMap
Without(f, k) == Restrict(f, DOMAIN f \ {k})
Stored(f, key) ==
    [k \in DOMAIN f \cup {key} |-> IF k = key THEN now + expirationTime ELSE f[k]]
isExpired(expiration) == now > expiration
isTooBig == entryCount > maxEntries
GetCacheValue(k) == k \in Entries /\ ~isExpired(CacheMap[k])

NewCache ==
    /\ CacheMap = [k \in {} |-> 0] /\ entryCount = 0 /\ now = 0
    /\ upc = [c \in Callers |-> "idle"] /\ calls = 0
    /\ mpc = "wait" /\ cpc = "wait"
    /\ todo = {} /\ batch = [k \in {} |-> 0] /\ owed = FALSE
    /\ highestMoves = [g \in Games |-> 0]
    /\ cancelled = FALSE
    /\ stored = CacheMap /\ again = {} /\ dropped = {}

-----------------------------------------------------------------------------
(* SetCacheValue and DeleteCacheValue *)

Call(c, next) ==
    /\ upc[c] = "idle"
    /\ calls < MaxCalls
    /\ calls' = calls + 1
    /\ upc' = [upc EXCEPT ![c] = next]

SetCacheValue(c, key) ==
    /\ Call(c, "add")
    /\ CacheMap' = Stored(CacheMap, key)
    /\ stored' = Stored(stored, key)
    /\ again' = IF key \in Entries THEN again \cup {key} ELSE again
    /\ dropped' = dropped
    /\ UNCHANGED <<entryCount, now, mpc, cleanVars, cancelled>>

DeleteCacheValue(c, key) ==
    /\ Call(c, "subtract")
    /\ CacheMap' = Without(CacheMap, key)
    /\ dropped' = dropped \cup {key}
    /\ UNCHANGED <<entryCount, now, mpc, cleanVars, cancelled, stored, again>>

AddInt64(c) ==
    /\ upc[c] \in {"add", "subtract"}
    /\ entryCount' = IF upc[c] = "add" THEN entryCount + 1 ELSE entryCount - 1
    /\ upc' = [upc EXCEPT ![c] = "idle"]
    /\ UNCHANGED <<CacheMap, now, calls, mpc, cleanVars, cancelled, historyVars>>

-----------------------------------------------------------------------------
(* MonitorCacheSize *)

TickerFires ==
    /\ mpc = "wait"
    /\ isTooBig
    /\ mpc' = "send"
    /\ UNCHANGED <<mapVars, now, callerVars, cleanVars, cancelled, historyVars>>

MonitorReturns ==
    /\ mpc = "wait"
    /\ cancelled
    /\ mpc' = "returned"
    /\ UNCHANGED <<mapVars, now, callerVars, cleanVars, cancelled, historyVars>>

MonitorCacheSize == TickerFires \/ MonitorReturns

-----------------------------------------------------------------------------
(* Cleanup *)

(* The rendezvous on cleanupChan starts the first Range.                    *)
Woken ==
    /\ mpc = "send"
    /\ cpc = "wait"
    /\ mpc' = "wait"
    /\ cpc' = "first"
    /\ todo' = Keys
    /\ highestMoves' = [g \in Games |-> 0]
    /\ UNCHANGED <<mapVars, now, callerVars, batch, owed, cancelled, historyVars>>

CopyBucket ==
    /\ cpc \in {"first", "second"}
    /\ ~owed
    /\ DOMAIN batch = {}
    /\ \E bucket \in SUBSET todo \ {{}} :
           /\ todo' = todo \ bucket
           /\ batch' = Restrict(CacheMap, bucket \cap Entries)
    /\ UNCHANGED <<mapVars, now, callerVars, mpc, cpc, owed, highestMoves, cancelled, historyVars>>

Visit(pass, k) ==
    /\ cpc = pass
    /\ ~owed
    /\ k \in DOMAIN batch
    /\ batch' = Without(batch, k)
    /\ UNCHANGED <<entryCount, now, callerVars, mpc, cpc, todo, cancelled, historyVars>>

Remove(k) ==
    /\ CacheMap' = Without(CacheMap, k)
    /\ owed' = TRUE
    /\ UNCHANGED highestMoves

Raise(k) ==
    /\ highestMoves' = [highestMoves EXCEPT ![k.GameID] =
                           IF k.MoveCounter > @ THEN k.MoveCounter ELSE @]
    /\ UNCHANGED <<CacheMap, owed>>

Pass == UNCHANGED <<CacheMap, owed, highestMoves>>

(* Mutants: the entry removed without its count; one maximum for all games. *)
VisitFirst_NoCount(k) ==
    /\ Visit("first", k)
    /\ IF isExpired(batch[k])
       THEN CacheMap' = Without(CacheMap, k) /\ UNCHANGED <<owed, highestMoves>>
       ELSE Raise(k)
VisitFirst_AllGames(k) ==
    /\ Visit("first", k)
    /\ IF isExpired(batch[k])
       THEN Remove(k)
       ELSE /\ highestMoves' = [g \in Games |-> IF k.MoveCounter > highestMoves[g]
                                                THEN k.MoveCounter ELSE highestMoves[g]]
            /\ UNCHANGED <<CacheMap, owed>>
VisitFirst(k) ==
    /\ Visit("first", k)
    /\ IF isExpired(batch[k]) THEN Remove(k) ELSE Raise(k)

VisitSecond(k) ==
    /\ Visit("second", k)
    /\ IF k.MoveCounter < highestMoves[k.GameID] THEN Remove(k) ELSE Pass

CountRemoved ==
    /\ owed
    /\ owed' = FALSE
    /\ entryCount' = entryCount - 1
    /\ UNCHANGED <<CacheMap, now, callerVars, mpc, cpc, todo, batch, highestMoves, cancelled, historyVars>>

EndPass(pass, next) ==
    /\ cpc = pass
    /\ ~owed /\ todo = {} /\ DOMAIN batch = {}
    /\ cpc' = next
    /\ UNCHANGED <<mapVars, now, callerVars, mpc, batch, owed, highestMoves, cancelled, historyVars>>

EndFirst == EndPass("first", "second") /\ todo' = Keys

(* A mutant: Cleanup left after one clean-up. *)
EndSecond_Returns == EndPass("second", "returned") /\ UNCHANGED todo

EndSecond == EndPass("second", "wait") /\ UNCHANGED todo

CleanupReturns ==
    /\ cpc = "wait"
    /\ cancelled
    /\ cpc' = "returned"
    /\ UNCHANGED <<mapVars, now, callerVars, mpc, todo, batch, owed, highestMoves, cancelled, historyVars>>

Cleanup ==
    \/ Woken \/ CopyBucket \/ CountRemoved
    \/ \E k \in Keys : VisitFirst(k) \/ VisitSecond(k)
    \/ EndFirst \/ EndSecond \/ CleanupReturns

-----------------------------------------------------------------------------
Tick ==
    /\ now < MaxTime
    /\ now' = now + 1
    /\ UNCHANGED <<mapVars, callerVars, mpc, cleanVars, cancelled, historyVars>>

Cancel ==
    /\ ~cancelled
    /\ cancelled' = TRUE
    /\ UNCHANGED <<mapVars, now, callerVars, mpc, cleanVars, historyVars>>

Next ==
    \/ \E c \in Callers :
          \/ \E k \in Keys : SetCacheValue(c, k) \/ DeleteCacheValue(c, k)
          \/ AddInt64(c)
    \/ MonitorCacheSize \/ Cleanup \/ Tick \/ Cancel

Spec == NewCache /\ [][Next]_vars

(* The two goroutines of the cache run, and its ticker fires.               *)
FairSpec == Spec /\ WF_vars(MonitorCacheSize) /\ WF_vars(Cleanup)

-----------------------------------------------------------------------------
(* Properties *)

Expirations(f) == \A k \in DOMAIN f : f[k] \in Nat

TypeOK ==
    /\ Entries \subseteq Keys /\ Expirations(CacheMap)
    /\ entryCount \in Int /\ now \in 0..MaxTime
    /\ upc \in [Callers -> {"idle", "add", "subtract"}]
    /\ calls \in 0..MaxCalls
    /\ mpc \in {"wait", "send", "returned"}
    /\ cpc \in {"wait", "first", "second", "returned"}
    /\ todo \subseteq Keys
    /\ DOMAIN batch \subseteq Keys \ todo /\ Expirations(batch)
    /\ cpc \in {"wait", "returned"} => todo = {} /\ DOMAIN batch = {} /\ ~owed
    /\ owed \in BOOLEAN /\ cancelled \in BOOLEAN
    /\ highestMoves \in [Games -> Nat]
    /\ DOMAIN stored \subseteq Keys /\ Expirations(stored)
    /\ again \subseteq DOMAIN stored /\ dropped \subseteq Keys

Adding == {c \in Callers : upc[c] = "add"}

(* As long as no key was stored over an entry and only Cleanup deletes, the *)
(* counter is the number of entries, up to the calls that have changed the  *)
(* map and not the counter yet: Cleanup deletes no entry twice.             *)
CountExact ==
    again = {} /\ dropped = {} =>
        entryCount = Cardinality(Entries) - Cardinality(Adding) + (IF owed THEN 1 ELSE 0)

(* The state after the latest move of a game is found in the cache from its *)
(* storing to its expiration, whatever Cleanup decided from entries it read *)
(* before, unless a caller deleted it or stored over its entry.             *)
LatestKept ==
    \A k \in DOMAIN stored \ (again \cup dropped) :
        /\ \A l \in DOMAIN stored : l.GameID = k.GameID => l.MoveCounter <= k.MoveCounter
        /\ ~isExpired(stored[k])
        => GetCacheValue(k)

(* When the counter is above maxEntries a clean-up begins, or the counter   *)
(* comes down before, or the cache is stopped.                              *)
TooBigIsCleaned == isTooBig ~> cpc = "first" \/ ~isTooBig \/ cancelled
=============================================================================
