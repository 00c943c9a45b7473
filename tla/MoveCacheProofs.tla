--------------------------- MODULE MoveCacheProofs ---------------------------
(***************************************************************************)
(* Theorems about the move cache, for any keys, callers, expiration time   *)
(* and size.                                                               *)
(***************************************************************************)
EXTENDS MoveCache, FiniteSetTheorems, TLAPS

-----------------------------------------------------------------------------
(* What Store and Delete do to a map *)

LEMMA StoredMap ==
    ASSUME NEW f, NEW key
    PROVE  /\ DOMAIN Stored(f, key) = DOMAIN f \cup {key}
           /\ Stored(f, key)[key] = now + expirationTime
           /\ \A k \in DOMAIN f \ {key} : Stored(f, key)[k] = f[k]
  BY DEF Stored

LEMMA RestrictMap ==
    ASSUME NEW f, NEW S
    PROVE  DOMAIN Restrict(f, S) = S /\ \A k \in S : Restrict(f, S)[k] = f[k]
  BY DEF Restrict

LEMMA WithoutMap ==
    ASSUME NEW f, NEW key
    PROVE  /\ DOMAIN Without(f, key) = DOMAIN f \ {key}
           /\ \A k \in DOMAIN f \ {key} : Without(f, key)[k] = f[k]
  BY RestrictMap DEF Without

LEMMA KeyFields ==
    ASSUME NEW k \in Keys
    PROVE  k.GameID \in Games /\ k.GameID \in Nat /\ k.MoveCounter \in Nat
  BY CacheAssumption DEF Games

-----------------------------------------------------------------------------
(* Types *)

MapOK(f) == DOMAIN f \subseteq Keys /\ Expirations(f)

LEMMA StoredOK ==
    ASSUME NEW f, MapOK(f), NEW key \in Keys, now \in Nat
    PROVE  MapOK(Stored(f, key))
  <1>1. now + expirationTime \in Nat
    BY CacheAssumption
  <1>2. DOMAIN Stored(f, key) = DOMAIN f \cup {key}
    BY StoredMap
  <1>3. Stored(f, key)[key] \in Nat
    BY <1>1, StoredMap
  <1>4. \A k \in DOMAIN f \ {key} : Stored(f, key)[k] \in Nat
    BY StoredMap DEF MapOK, Expirations
  <1> QED BY <1>2, <1>3, <1>4 DEF MapOK, Expirations

LEMMA RestrictOK ==
    ASSUME NEW f, MapOK(f), NEW S, S \subseteq DOMAIN f
    PROVE  MapOK(Restrict(f, S))
  BY RestrictMap DEF MapOK, Expirations

LEMMA WithoutOK ==
    ASSUME NEW f, MapOK(f), NEW key
    PROVE  MapOK(Without(f, key))
  BY RestrictOK DEF Without

LEMMA NextTypeOK == TypeOK /\ [Next]_vars => TypeOK'
  <1> SUFFICES ASSUME TypeOK, [Next]_vars PROVE TypeOK'
    OBVIOUS
  <1>0. MapOK(CacheMap) /\ MapOK(stored) /\ MapOK(batch) /\ now \in Nat
    BY CacheAssumption DEF TypeOK, Entries, MapOK
  <1> USE CacheAssumption
       DEF TypeOK, Entries, mapVars, callerVars, cleanVars, historyVars
  <1>1. ASSUME NEW c \in Callers, NEW k \in Keys, SetCacheValue(c, k) PROVE TypeOK'
    <2>1. CacheMap' = Stored(CacheMap, k) /\ stored' = Stored(stored, k)
      BY <1>1 DEF SetCacheValue
    <2>2. MapOK(CacheMap') /\ MapOK(stored')
      BY <2>1, <1>0, StoredOK
    <2>3. again' \subseteq DOMAIN stored'
      <3>1. DOMAIN stored' = DOMAIN stored \cup {k}
        BY <2>1, StoredMap
      <3>2. again' \subseteq again \cup {k}
        BY <1>1 DEF SetCacheValue
      <3> QED BY <3>1, <3>2
    <2>4. upc' \in [Callers -> {"idle", "add", "subtract"}] /\ calls' \in 0..MaxCalls
      BY <1>1 DEF SetCacheValue, Call
    <2> QED BY <1>1, <2>2, <2>3, <2>4 DEF SetCacheValue, MapOK, Expirations
  <1>2. ASSUME NEW c \in Callers, NEW k \in Keys, DeleteCacheValue(c, k) PROVE TypeOK'
    <2>1. MapOK(CacheMap')
      BY <1>2, <1>0, WithoutOK DEF DeleteCacheValue
    <2>2. upc' \in [Callers -> {"idle", "add", "subtract"}] /\ calls' \in 0..MaxCalls
      BY <1>2 DEF DeleteCacheValue, Call
    <2> QED BY <1>2, <2>1, <2>2 DEF DeleteCacheValue, MapOK, Expirations
  <1>3. ASSUME NEW c \in Callers, AddInt64(c) PROVE TypeOK'
    BY <1>3 DEF AddInt64, Expirations
  <1>4. CASE TickerFires \/ MonitorReturns
    BY <1>4 DEF TickerFires, MonitorReturns, Expirations
  <1>11. CASE Tick
    BY <1>11 DEF Tick, Expirations
  <1>12. CASE Cancel
    BY <1>12 DEF Cancel, Expirations
  <1>5. CASE Woken
    BY <1>5 DEF Woken, Expirations
  <1>6. CASE CopyBucket
    <2>1. PICK bucket \in SUBSET todo \ {{}} :
              todo' = todo \ bucket /\ batch' = Restrict(CacheMap, bucket \cap Entries)
      BY <1>6 DEF CopyBucket
    <2>2. MapOK(batch') /\ DOMAIN batch' \subseteq bucket
      BY <2>1, <1>0, RestrictOK, RestrictMap
    <2> QED BY <1>6, <2>1, <2>2 DEF CopyBucket, MapOK, Expirations
  <1>7. ASSUME NEW k \in Keys, VisitFirst(k) \/ VisitSecond(k) PROVE TypeOK'
    <2>1. /\ batch' = Without(batch, k)
          /\ UNCHANGED <<entryCount, now, upc, calls, mpc, cpc, todo, cancelled, stored,
                         again, dropped>>
          /\ cpc \notin {"wait", "returned"}
      BY <1>7 DEF VisitFirst, VisitSecond, Visit
    <2>2. MapOK(batch') /\ DOMAIN batch' \subseteq DOMAIN batch
      BY <2>1, <1>0, WithoutOK, WithoutMap
    <2>3. Remove(k) \/ Raise(k) \/ Pass
      BY <1>7 DEF VisitFirst, VisitSecond
    <2>6. MapOK(CacheMap')
      <3>1. CacheMap' = Without(CacheMap, k) \/ CacheMap' = CacheMap
        BY <2>3 DEF Remove, Raise, Pass
      <3> QED BY <3>1, <1>0, WithoutOK
    <2>4. owed' \in BOOLEAN
      BY <2>3 DEF Remove, Raise, Pass
    <2>5. highestMoves' \in [Games -> Nat]
      BY <2>3, KeyFields DEF Remove, Raise, Pass
    <2> QED BY <2>1, <2>2, <2>4, <2>5, <2>6 DEF MapOK, Expirations
  <1>8. CASE CountRemoved
    <2>1. entryCount' \in Int /\ owed' = FALSE
      BY <1>8 DEF CountRemoved
    <2> QED BY <1>8, <2>1 DEF CountRemoved, Expirations
  <1>9. CASE EndFirst \/ EndSecond \/ CleanupReturns
    BY <1>9 DEF EndFirst, EndSecond, CleanupReturns, EndPass, Expirations
  <1>10. CASE UNCHANGED vars
    BY <1>10 DEF vars, Expirations
  <1> QED BY <1>1, <1>2, <1>3, <1>4, <1>5, <1>6, <1>7, <1>8, <1>9, <1>10, <1>11, <1>12
          DEF Next, MonitorCacheSize, Cleanup

LEMMA InitTypeOK == NewCache => TypeOK
  <1> SUFFICES ASSUME NewCache PROVE TypeOK
    OBVIOUS
  <1>1. DOMAIN CacheMap = {} /\ DOMAIN batch = {} /\ DOMAIN stored = {}
    BY DEF NewCache
  <1>2. highestMoves \in [Games -> Nat]
    BY DEF NewCache
  <1>3. Expirations(CacheMap) /\ Expirations(batch) /\ Expirations(stored)
    BY <1>1 DEF Expirations
  <1>4. /\ entryCount \in Int /\ now \in 0..MaxTime /\ calls \in 0..MaxCalls
        /\ upc \in [Callers -> {"idle", "add", "subtract"}]
    BY CacheAssumption DEF NewCache
  <1>5. /\ todo = {} /\ owed = FALSE /\ cancelled = FALSE
        /\ mpc = "wait" /\ cpc = "wait" /\ again = {} /\ dropped = {}
    BY DEF NewCache
  <1> QED BY <1>1, <1>2, <1>3, <1>4, <1>5 DEF TypeOK, Entries

(* Every reachable state of the cache has its type; what Cleanup has copied *)
(* and not visited lies outside what it has yet to copy.                    *)
THEOREM TypeCorrect == Spec => []TypeOK
  <1> QED BY InitTypeOK, NextTypeOK, PTL DEF Spec

-----------------------------------------------------------------------------
(* The copies that Cleanup has yet to visit are current, but for keys that  *)
(* were stored over an entry or deleted by a caller.                        *)

Untouched(k) == k \notin again /\ k \notin dropped

CopyInv ==
    /\ Entries \subseteq DOMAIN stored /\ DOMAIN batch \subseteq DOMAIN stored
    /\ \A k \in Entries : CacheMap[k] = stored[k]
    /\ \A k \in DOMAIN batch : Untouched(k) => k \in Entries /\ batch[k] = stored[k]

LEMMA NextCopyInv == TypeOK /\ CopyInv /\ [Next]_vars => CopyInv'
  <1> SUFFICES ASSUME TypeOK, CopyInv, [Next]_vars PROVE CopyInv'
    OBVIOUS
  <1> USE DEF CopyInv, Entries, Untouched, mapVars, callerVars, cleanVars, historyVars
  <1>1. ASSUME NEW c \in Callers, NEW key \in Keys, SetCacheValue(c, key) PROVE CopyInv'
    <2>1. /\ CacheMap' = Stored(CacheMap, key) /\ stored' = Stored(stored, key)
          /\ batch' = batch /\ dropped' = dropped
          /\ again' = IF key \in Entries THEN again \cup {key} ELSE again
      BY <1>1 DEF SetCacheValue
    <2>2. DOMAIN CacheMap' = DOMAIN CacheMap \cup {key} /\ DOMAIN stored' = DOMAIN stored \cup {key}
      BY <2>1, StoredMap
    <2>3. CacheMap'[key] = stored'[key]
      <3>1. CacheMap'[key] = now + expirationTime
        BY <2>1, StoredMap
      <3>2. stored'[key] = now + expirationTime
        BY <2>1, StoredMap
      <3> QED BY <3>1, <3>2
    <2>4. /\ \A k \in DOMAIN CacheMap \ {key} : CacheMap'[k] = CacheMap[k]
          /\ \A k \in DOMAIN stored \ {key} : stored'[k] = stored[k]
      BY <2>1, StoredMap
    <2>5. ASSUME NEW k \in DOMAIN batch, k \notin again', k \notin dropped'
          PROVE  k \in DOMAIN CacheMap' /\ batch[k] = stored'[k]
      <3>1. k \in DOMAIN CacheMap /\ batch[k] = stored[k] /\ k # key
        BY <2>1, <2>5
      <3> QED BY <3>1, <2>2, <2>4
    <2> QED BY <2>1, <2>2, <2>3, <2>4, <2>5
  <1>2. ASSUME NEW c \in Callers, NEW key \in Keys, DeleteCacheValue(c, key) PROVE CopyInv'
    <2>1. /\ CacheMap' = Without(CacheMap, key) /\ dropped' = dropped \cup {key}
          /\ UNCHANGED <<stored, again, batch>>
      BY <1>2 DEF DeleteCacheValue
    <2>2. /\ DOMAIN CacheMap' = DOMAIN CacheMap \ {key}
          /\ \A k \in DOMAIN CacheMap \ {key} : CacheMap'[k] = CacheMap[k]
      BY <2>1, WithoutMap
    <2> QED BY <2>1, <2>2
  <1>3. CASE CopyBucket
    <2>1. PICK bucket \in SUBSET todo \ {{}} : batch' = Restrict(CacheMap, bucket \cap Entries)
      BY <1>3 DEF CopyBucket
    <2>2. /\ DOMAIN batch' \subseteq DOMAIN CacheMap
          /\ \A k \in DOMAIN batch' : batch'[k] = CacheMap[k]
      BY <2>1, RestrictMap
    <2> QED BY <1>3, <2>2 DEF CopyBucket
  <1>4. ASSUME NEW key \in Keys, VisitFirst(key) \/ VisitSecond(key) PROVE CopyInv'
    <2>1. batch' = Without(batch, key) /\ UNCHANGED <<stored, again, dropped>>
      BY <1>4 DEF VisitFirst, VisitSecond, Visit
    <2>2. CacheMap' = Without(CacheMap, key) \/ CacheMap' = CacheMap
      BY <1>4 DEF VisitFirst, VisitSecond, Remove, Raise, Pass
    <2>3. DOMAIN batch' = DOMAIN batch \ {key} /\ \A k \in DOMAIN batch' : batch'[k] = batch[k]
      <3>1. /\ DOMAIN Without(batch, key) = DOMAIN batch \ {key}
            /\ \A k \in DOMAIN batch \ {key} : Without(batch, key)[k] = batch[k]
        BY WithoutMap
      <3> QED BY <2>1, <3>1
    <2>4. /\ DOMAIN CacheMap \ {key} \subseteq DOMAIN CacheMap'
          /\ DOMAIN CacheMap' \subseteq DOMAIN CacheMap
          /\ \A k \in DOMAIN CacheMap' : CacheMap'[k] = CacheMap[k]
      <3>1. CASE CacheMap' = Without(CacheMap, key)
        <4>1. /\ DOMAIN CacheMap' = DOMAIN CacheMap \ {key}
              /\ \A k \in DOMAIN CacheMap' : CacheMap'[k] = CacheMap[k]
          <5>1. /\ DOMAIN Without(CacheMap, key) = DOMAIN CacheMap \ {key}
                /\ \A k \in DOMAIN CacheMap \ {key} : Without(CacheMap, key)[k] = CacheMap[k]
            BY WithoutMap
          <5> QED BY <3>1, <5>1
        <4> QED BY <4>1
      <3>2. CASE CacheMap' = CacheMap
        BY <3>2
      <3> QED BY <2>2, <3>1, <3>2
    <2> QED BY <2>1, <2>3, <2>4
  <1>5. CASE UNCHANGED <<CacheMap, batch, stored, again, dropped>>
    BY <1>5
  <1>6. ASSUME NEW c \in Callers, AddInt64(c) PROVE CopyInv'
    BY <1>5, <1>6 DEF AddInt64
  <1>7. CASE MonitorCacheSize \/ Tick \/ Cancel
    BY <1>5, <1>7 DEF MonitorCacheSize, TickerFires, MonitorReturns, Tick, Cancel
  <1>8. CASE Woken \/ CountRemoved \/ EndFirst \/ EndSecond \/ CleanupReturns
    BY <1>5, <1>8 DEF Woken, CountRemoved, EndFirst, EndSecond, CleanupReturns, EndPass
  <1>9. CASE UNCHANGED vars
    BY <1>5, <1>9 DEF vars
  <1> QED BY <1>1, <1>2, <1>3, <1>4, <1>6, <1>7, <1>8, <1>9 DEF Next, Cleanup

LEMMA InitCopyInv == NewCache => CopyInv
  BY DEF NewCache, CopyInv, Entries

-----------------------------------------------------------------------------
(* The latest move of a game *)

Latest(k) == \A l \in DOMAIN stored : l.GameID = k.GameID => l.MoveCounter <= k.MoveCounter

LatestInv ==
    /\ \A g \in Games : highestMoves[g] > 0 =>
          \E l \in DOMAIN stored : l.GameID = g /\ l.MoveCounter = highestMoves[g]
    /\ \A k \in DOMAIN stored :
          Untouched(k) /\ Latest(k) /\ ~isExpired(stored[k]) => k \in Entries

LEMMA LatestFrame ==
    ASSUME TypeOK, LatestInv, UNCHANGED <<highestMoves, stored, CacheMap>>, now' \in Nat,
           now' >= now, again \subseteq again', dropped \subseteq dropped'
    PROVE  LatestInv'
  <1>1. \A k \in DOMAIN stored : isExpired(stored[k]) => isExpired(stored[k])'
    BY CacheAssumption DEF isExpired, TypeOK, Expirations
  <1> QED BY <1>1 DEF LatestInv, Latest, Untouched, Entries

LEMMA NextLatestInv == TypeOK /\ CopyInv /\ LatestInv /\ [Next]_vars => LatestInv'
  <1> SUFFICES ASSUME TypeOK, CopyInv, LatestInv, [Next]_vars PROVE LatestInv'
    OBVIOUS
  <1>0. /\ now \in Nat /\ \A k \in Keys : k.GameID \in Games /\ k.MoveCounter \in Nat
        /\ DOMAIN stored \subseteq Keys /\ highestMoves \in [Games -> Nat]
        /\ DOMAIN batch \subseteq Keys
    BY CacheAssumption, KeyFields DEF TypeOK
  <1> USE DEF mapVars, callerVars, cleanVars, historyVars
  <1>1. ASSUME NEW c \in Callers, NEW key \in Keys, SetCacheValue(c, key) PROVE LatestInv'
    <2>1. /\ CacheMap' = Stored(CacheMap, key) /\ stored' = Stored(stored, key)
          /\ dropped' = dropped /\ again \subseteq again' /\ now' = now
          /\ highestMoves' = highestMoves
      BY <1>1 DEF SetCacheValue
    <2>2. /\ DOMAIN CacheMap' = DOMAIN CacheMap \cup {key}
          /\ DOMAIN stored' = DOMAIN stored \cup {key}
          /\ \A k \in DOMAIN stored \ {key} : stored'[k] = stored[k]
      BY <2>1, StoredMap
    <2>3. \A g \in Games : highestMoves'[g] > 0 =>
            \E l \in DOMAIN stored' : l.GameID = g /\ l.MoveCounter = highestMoves'[g]
      BY <2>1, <2>2 DEF LatestInv
    <2>4. ASSUME NEW k \in DOMAIN stored', Untouched(k)', Latest(k)', ~(now' > stored'[k])
          PROVE  k \in DOMAIN CacheMap'
      <3>1. CASE k # key
        <4>1. k \in DOMAIN stored /\ Untouched(k) /\ Latest(k) /\ stored'[k] = stored[k]
          BY <2>1, <2>2, <2>4, <3>1 DEF Untouched, Latest
        <4>2. ~isExpired(stored[k])
          BY <2>1, <2>4, <4>1 DEF isExpired
        <4> QED BY <2>2, <4>1, <4>2 DEF LatestInv, Entries
      <3> QED BY <2>2, <3>1
    <2> QED BY <2>3, <2>4 DEF LatestInv, Entries, isExpired
  <1>2. ASSUME NEW c \in Callers, NEW key \in Keys, DeleteCacheValue(c, key) PROVE LatestInv'
    <2>1. /\ CacheMap' = Without(CacheMap, key) /\ dropped' = dropped \cup {key}
          /\ UNCHANGED <<stored, again, highestMoves, now>>
      BY <1>2 DEF DeleteCacheValue
    <2>2. DOMAIN CacheMap' = DOMAIN CacheMap \ {key}
      BY <2>1, WithoutMap
    <2> QED BY <2>1, <2>2 DEF LatestInv, Latest, Untouched, isExpired, Entries
  <1>3. ASSUME NEW key \in Keys, VisitFirst(key) PROVE LatestInv'
    <2>1. /\ key \in DOMAIN batch /\ UNCHANGED <<now, stored, again, dropped>>
          /\ IF isExpired(batch[key]) THEN Remove(key) ELSE Raise(key)
      BY <1>3 DEF VisitFirst, Visit
    <2>2. CASE isExpired(batch[key])
      <3>1. CacheMap' = Without(CacheMap, key) /\ highestMoves' = highestMoves
        BY <2>1, <2>2 DEF Remove
      <3>2. DOMAIN CacheMap' = DOMAIN CacheMap \ {key}
        BY <3>1, WithoutMap
      <3>3. Untouched(key) => isExpired(stored[key])
        BY <2>1, <2>2 DEF CopyInv
      <3> QED BY <2>1, <3>1, <3>2, <3>3 DEF LatestInv, Latest, Untouched, isExpired, Entries
    <2>3. CASE ~isExpired(batch[key])
      <3>1. CacheMap' = CacheMap
        BY <2>1, <2>3 DEF Raise
      <3>2. \A g \in Games : highestMoves'[g] > 0 =>
              \E l \in DOMAIN stored' : l.GameID = g /\ l.MoveCounter = highestMoves'[g]
        <4> SUFFICES ASSUME NEW g \in Games, highestMoves'[g] > 0
                     PROVE  \E l \in DOMAIN stored : l.GameID = g /\ l.MoveCounter = highestMoves'[g]
          BY <2>1
        <4>1. CASE g = key.GameID /\ key.MoveCounter > highestMoves[g]
          <5>1. highestMoves'[g] = key.MoveCounter
            BY <2>1, <2>3, <4>1, <1>0 DEF Raise
          <5>2. key \in DOMAIN stored
            BY <2>1 DEF CopyInv
          <5> QED BY <4>1, <5>1, <5>2
        <4>2. CASE ~(g = key.GameID /\ key.MoveCounter > highestMoves[g])
          <5>1. highestMoves'[g] = highestMoves[g]
            BY <2>1, <2>3, <4>2, <1>0 DEF Raise
          <5> QED BY <5>1 DEF LatestInv
        <4> QED BY <4>1, <4>2
      <3> QED BY <2>1, <3>1, <3>2 DEF LatestInv, Latest, Untouched, isExpired, Entries
    <2> QED BY <2>1, <2>2, <2>3
  <1>4. ASSUME NEW key \in Keys, VisitSecond(key) PROVE LatestInv'
    <2>1. /\ UNCHANGED <<now, stored, again, dropped>>
          /\ IF key.MoveCounter < highestMoves[key.GameID] THEN Remove(key) ELSE Pass
      BY <1>4 DEF VisitSecond, Visit
    <2>2. CASE key.MoveCounter < highestMoves[key.GameID]
      <3>1. CacheMap' = Without(CacheMap, key) /\ highestMoves' = highestMoves
        BY <2>1, <2>2 DEF Remove
      <3>2. DOMAIN CacheMap' = DOMAIN CacheMap \ {key}
        BY <3>1, WithoutMap
      <3>3. ~Latest(key)
        <4>1. highestMoves[key.GameID] > 0
          BY <2>2, <1>0
        <4>2. PICK l \in DOMAIN stored :
                  l.GameID = key.GameID /\ l.MoveCounter = highestMoves[key.GameID]
          BY <4>1, <1>0 DEF LatestInv
        <4> QED BY <2>2, <4>2, <1>0 DEF Latest
      <3> QED BY <2>1, <3>1, <3>2, <3>3 DEF LatestInv, Latest, Untouched, isExpired, Entries
    <2>3. CASE ~(key.MoveCounter < highestMoves[key.GameID])
      BY <2>1, <2>3, <1>0, LatestFrame DEF Pass
    <2> QED BY <2>2, <2>3
  <1>5. CASE Woken
    <2>1. highestMoves' = [g \in Games |-> 0] /\ UNCHANGED <<now, stored, again, dropped, CacheMap>>
      BY <1>5 DEF Woken
    <2> QED BY <2>1 DEF LatestInv, Latest, Untouched, isExpired, Entries
  <1>6. CASE Tick
    BY <1>6, <1>0, LatestFrame DEF Tick
  <1>7. ASSUME NEW c \in Callers, AddInt64(c) PROVE LatestInv'
    BY <1>7, <1>0, LatestFrame DEF AddInt64
  <1>8. CASE MonitorCacheSize \/ Cancel
    BY <1>8, <1>0, LatestFrame DEF MonitorCacheSize, TickerFires, MonitorReturns, Cancel
  <1>9. CASE CopyBucket \/ CountRemoved \/ EndFirst \/ EndSecond \/ CleanupReturns
    BY <1>9, <1>0, LatestFrame
       DEF CopyBucket, CountRemoved, EndFirst, EndSecond, CleanupReturns, EndPass
  <1>10. CASE UNCHANGED vars
    BY <1>10, <1>0, LatestFrame DEF vars
  <1> QED BY <1>1, <1>2, <1>3, <1>4, <1>5, <1>6, <1>7, <1>8, <1>9, <1>10 DEF Next, Cleanup

(* From its storing to its expiration the latest move of a game is found    *)
(* in the cache, whatever Cleanup decides from copies it took before.       *)
THEOREM LatestIsKept == Spec => []LatestKept
  <1>1. NewCache => LatestInv
    BY DEF NewCache, LatestInv
  <1>2. TypeOK /\ CopyInv /\ LatestInv => LatestKept
    BY DEF LatestKept, CopyInv, LatestInv, Latest, Untouched, GetCacheValue
  <1> QED BY <1>1, <1>2, InitCopyInv, NextCopyInv, NextLatestInv, TypeCorrect, PTL DEF Spec

-----------------------------------------------------------------------------
(* The counter *)

CountInv ==
    /\ IsFiniteSet(Entries)
    /\ dropped = {} => \A c \in Callers : upc[c] # "subtract"
    /\ CountExact

LEMMA NextCountInv == TypeOK /\ CopyInv /\ CountInv /\ [Next]_vars => CountInv'
  <1> SUFFICES ASSUME TypeOK, CopyInv, CountInv, [Next]_vars PROVE CountInv'
    OBVIOUS
  <1>0. /\ IsFiniteSet(Entries) /\ Cardinality(Entries) \in Nat
        /\ IsFiniteSet(Adding) /\ Cardinality(Adding) \in Nat /\ entryCount \in Int
    <2>1. IsFiniteSet(Adding)
      BY CacheAssumption, FS_Subset DEF Adding
    <2> QED BY <2>1, FS_CardinalityType DEF CountInv, TypeOK
  <1> USE DEF mapVars, callerVars, cleanVars, historyVars
  <1>1. ASSUME NEW c \in Callers, NEW key \in Keys, SetCacheValue(c, key) PROVE CountInv'
    <2>1. /\ CacheMap' = Stored(CacheMap, key) /\ UNCHANGED <<entryCount, owed, dropped>>
          /\ again' = (IF key \in Entries THEN again \cup {key} ELSE again)
          /\ upc[c] = "idle" /\ upc' = [upc EXCEPT ![c] = "add"]
      BY <1>1 DEF SetCacheValue, Call
    <2>2. Entries' = Entries \cup {key}
      BY <2>1, StoredMap DEF Entries
    <2>3. Adding' = Adding \cup {c} /\ c \notin Adding
      BY <2>1 DEF Adding, TypeOK
    <2>4. IsFiniteSet(Entries')
      BY <2>2, <1>0, FS_AddElement
    <2>5. ASSUME again' = {}
          PROVE  Cardinality(Entries') = Cardinality(Entries) + 1 /\ again = {}
      BY <2>1, <2>2, <2>5, <1>0, FS_AddElement
    <2>6. Cardinality(Adding') = Cardinality(Adding) + 1
      BY <2>3, <1>0, FS_AddElement
    <2>7. CountExact'
      BY <2>1, <2>5, <2>6, <1>0 DEF CountInv, CountExact
    <2>8. dropped' = {} => \A d \in Callers : upc'[d] # "subtract"
      BY <2>1 DEF CountInv, TypeOK
    <2> QED BY <2>4, <2>7, <2>8 DEF CountInv
  <1>2. ASSUME NEW c \in Callers, NEW key \in Keys, DeleteCacheValue(c, key) PROVE CountInv'
    <2>1. CacheMap' = Without(CacheMap, key) /\ key \in dropped'
      BY <1>2 DEF DeleteCacheValue
    <2>2. Entries' \subseteq Entries
      BY <2>1, WithoutMap DEF Entries
    <2>3. IsFiniteSet(Entries')
      BY <2>2, <1>0, FS_Subset
    <2> QED BY <2>1, <2>3 DEF CountInv, CountExact
  <1>3. ASSUME NEW c \in Callers, AddInt64(c) PROVE CountInv'
    <2>1. /\ upc[c] \in {"add", "subtract"} /\ upc' = [upc EXCEPT ![c] = "idle"]
          /\ entryCount' = (IF upc[c] = "add" THEN entryCount + 1 ELSE entryCount - 1)
          /\ UNCHANGED <<CacheMap, owed, again, dropped>>
      BY <1>3 DEF AddInt64
    <2>2. ASSUME dropped = {} PROVE upc[c] = "add"
      BY <2>1, <2>2 DEF CountInv
    <2>3. ASSUME upc[c] = "add" PROVE Cardinality(Adding') = Cardinality(Adding) - 1
      <3>1. Adding' = Adding \ {c} /\ c \in Adding
        BY <2>1, <2>3 DEF Adding, TypeOK
      <3> QED BY <3>1, <1>0, FS_RemoveElement
    <2>4. CountExact'
      BY <2>1, <2>2, <2>3, <1>0 DEF CountInv, CountExact, Entries
    <2>5. dropped' = {} => \A d \in Callers : upc'[d] # "subtract"
      BY <2>1 DEF CountInv, TypeOK
    <2> QED BY <2>1, <2>4, <2>5 DEF CountInv, Entries
  <1>4. ASSUME NEW key \in Keys, VisitFirst(key) \/ VisitSecond(key) PROVE CountInv'
    <2>1. /\ key \in DOMAIN batch /\ ~owed /\ UNCHANGED <<entryCount, upc, again, dropped>>
          /\ Remove(key) \/ Raise(key) \/ Pass
      BY <1>4 DEF VisitFirst, VisitSecond, Visit
    <2>2. CASE Remove(key)
      <3>1. Entries' = Entries \ {key} /\ owed' = TRUE
        BY <2>2, WithoutMap DEF Remove, Entries
      <3>2. IsFiniteSet(Entries')
        BY <3>1, <1>0, FS_RemoveElement
      <3>3. ASSUME again = {}, dropped = {}
            PROVE  Cardinality(Entries') = Cardinality(Entries) - 1
        <4>1. key \in Entries
          BY <2>1, <3>3 DEF CopyInv, Untouched
        <4> QED BY <3>1, <4>1, <1>0, FS_RemoveElement
      <3>4. CountExact'
        BY <2>1, <3>1, <3>3, <1>0 DEF CountInv, CountExact, Adding
      <3> QED BY <2>1, <3>2, <3>4 DEF CountInv
    <2>3. CASE Raise(key) \/ Pass
      BY <2>1, <2>3 DEF Raise, Pass, CountInv, CountExact, Entries, Adding
    <2> QED BY <2>1, <2>2, <2>3
  <1>5. CASE CountRemoved
    <2>1. /\ owed = TRUE /\ owed' = FALSE /\ entryCount' = entryCount - 1
          /\ UNCHANGED <<CacheMap, upc, again, dropped>>
      BY <1>5 DEF CountRemoved, TypeOK
    <2> QED BY <2>1, <1>0 DEF CountInv, CountExact, Adding, Entries
  <1>6. CASE UNCHANGED <<CacheMap, entryCount, upc, owed, again, dropped>>
    BY <1>6 DEF CountInv, CountExact, Entries, Adding
  <1>7. CASE MonitorCacheSize \/ Tick \/ Cancel
    BY <1>6, <1>7 DEF MonitorCacheSize, TickerFires, MonitorReturns, Tick, Cancel
  <1>8. CASE Woken \/ CopyBucket \/ EndFirst \/ EndSecond \/ CleanupReturns
    BY <1>6, <1>8 DEF Woken, CopyBucket, EndFirst, EndSecond, CleanupReturns, EndPass
  <1>9. CASE UNCHANGED vars
    BY <1>6, <1>9 DEF vars
  <1> QED BY <1>1, <1>2, <1>3, <1>4, <1>5, <1>7, <1>8, <1>9 DEF Next, Cleanup

LEMMA InitCountInv == NewCache => CountInv
  <1> SUFFICES ASSUME NewCache PROVE CountInv
    OBVIOUS
  <1>1. Entries = {} /\ Adding = {}
        /\ \A c \in Callers : upc[c] # "subtract"
    BY DEF NewCache, Entries, Adding
  <1>2. entryCount = 0 /\ owed = FALSE
    BY DEF NewCache
  <1> QED BY <1>1, <1>2, FS_EmptySet DEF CountInv, CountExact

(* As long as nothing is stored over an entry and only Cleanup deletes, the *)
(* counter is the number of entries up to calls that are between their two  *)
(* steps: Cleanup deletes no entry twice.                                   *)
THEOREM CounterIsExact == Spec => []CountExact
  <1>1. CountInv => CountExact
    BY DEF CountInv
  <1> QED BY <1>1, InitCountInv, InitCopyInv, NextCopyInv, NextCountInv, TypeCorrect, PTL DEF Spec
=============================================================================
