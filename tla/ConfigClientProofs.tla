-------------------------- MODULE ConfigClientProofs --------------------------
(***************************************************************************)
(* The handles and the capacity of the configuration client's cache, for   *)
(* any sets of keys, scopes and concurrent Gets.                           *)
(***************************************************************************)
EXTENDS ConfigClient, FiniteSetTheorems, TLAPS

(* The types the proofs need: what each variable maps from and to.         *)
StoredPairs == [kind : Kinds, index : Nat]
HandleTypes ==
    /\ client \in Client
    /\ kv \in [Keys -> StoredPairs] /\ index \in Nat
    /\ pairs \in [Scopes -> [Keys -> StoredPairs]]
    /\ watchers \subseteq Scopes
    /\ keys \in [Scopes -> SUBSET Keys]
    /\ todo \in [Scopes -> SUBSET Keys]
    /\ started \in [Scopes -> Nat]
    /\ getKey \in [Getters -> Keys]
    /\ getPc \in [Getters -> {"idle", "read", "put", "ensure", "start",
                              "attach"}]
    /\ cache = [k \in Keys |-> cache[k]]

(* The options, and the keys in use, never change.                         *)
LEMMA ClientFacts ==
    ASSUME client \in Client
    PROVE  client.asks \subseteq Keys /\ CacheMaxEntries \in Nat
BY DEF Client, CacheMaxEntries

LEMMA ClientKept ==
    ASSUME UNCHANGED client
    PROVE  WatchModeOn' = WatchModeOn /\ CacheMaxEntries' = CacheMaxEntries
BY DEF WatchModeOn, CacheMaxEntries

LEMMA NextClient == [Next]_vars => UNCHANGED client
<1> SUFFICES ASSUME [Next]_vars PROVE UNCHANGED client
  OBVIOUS
<1>1. ASSUME NEW g \in Getters, GetStep(g) PROVE UNCHANGED client
  BY <1>1 DEF GetStep, GetMisses, GetFails, GetReads, GetPuts, GetEnsures,
              GetStartsWatch, GetAttaches
<1>2. ASSUME NEW s \in Scopes, WatchStep(s) PROVE UNCHANGED client
  BY <1>2 DEF WatchStep, WatchQueries, WatchCopiesKeys, WatchApplies,
              WatchApplied
<1> QED
  BY <1>1, <1>2 DEF Next, KVChanges, Tick, vars

-----------------------------------------------------------------------------
(* The cache.                                                              *)

(* What putCache leaves: the key it was called for, and old entries.  The  *)
(* capacity is kept.                                                       *)
LEMMA PutCacheFacts ==
    ASSUME client \in Client, UNCHANGED client,
           NEW key \in Keys, NEW raw, PutCache(key, raw), CapacityBound
    PROVE  Cached' \subseteq Cached \cup {key} /\ CapacityBound'
<1> DEFINE Entries(kept) == kept \cup {key}
<1>0. IsFiniteSet(Keys) /\ CacheMaxEntries \in Nat
      /\ CacheMaxEntries' = CacheMaxEntries
  BY ConfigClientAssumption, ClientFacts, ClientKept
<1>1. /\ IsFiniteSet(Fresh) /\ IsFiniteSet(Cached) /\ Fresh \subseteq Cached
      /\ Cardinality(Fresh) \in Nat /\ Cardinality(Cached) \in Nat
      /\ Cardinality(Fresh) <= Cardinality(Cached)
  <2>1. IsFiniteSet(Cached) /\ Fresh \in SUBSET Cached
    <3>1. Cached \in SUBSET Keys
      BY DEF Cached
    <3> QED
      BY <1>0, <3>1, FS_Subset DEF Fresh
  <2> QED
    BY <2>1, FS_Subset, FS_CardinalityType
<1>2. PICK kept \in IF key \in Fresh THEN {Fresh} ELSE Overflow(Fresh) :
           Store(key, raw, kept)
  BY DEF PutCache
<1>3. kept \subseteq Fresh
  BY <1>2 DEF Overflow
<1>4. Cached' \subseteq Entries(kept)
  <2>1. cache' = [k \in Keys |-> IF k = key THEN raw
                                 ELSE IF k \in kept THEN cache[k] ELSE 0]
    BY <1>2 DEF Store
  <2> QED
    BY <2>1 DEF Cached
<1>5. IsFiniteSet(kept) /\ IsFiniteSet(Entries(kept))
  BY <1>1, <1>3, FS_Subset, FS_AddElement
<1>6. ASSUME CacheMaxEntries # 0 PROVE Cardinality(Entries(kept)) <= CacheMaxEntries
  <2>0. Cardinality(Cached) <= CacheMaxEntries
    BY <1>6 DEF CapacityBound
  <2>1. CASE key \in Fresh
    <3>1. Entries(kept) = Fresh
      BY <1>2, <2>1
    <3> QED
      BY <1>0, <1>1, <2>0, <3>1
  <2>2. CASE key \notin Fresh /\ Cardinality(Fresh) < CacheMaxEntries
    <3>1. kept = Fresh
      BY <1>2, <1>6, <2>2 DEF Overflow
    <3>2. Cardinality(Entries(kept)) = Cardinality(Fresh) + 1
      BY <1>1, <2>2, <3>1, FS_AddElement
    <3> QED
      BY <1>0, <1>1, <2>2, <3>2
  <2>3. CASE key \notin Fresh /\ ~(Cardinality(Fresh) < CacheMaxEntries)
    <3>1. PICK victim \in Fresh : kept = Fresh \ {victim}
      BY <1>2, <1>6, <2>3 DEF Overflow
    <3>2. Cardinality(kept) = Cardinality(Fresh) - 1
      BY <1>1, <3>1, FS_RemoveElement
    <3>3. Cardinality(Entries(kept)) = Cardinality(kept) + 1
      BY <1>5, <2>3, <3>1, FS_AddElement
    <3> QED
      BY <1>0, <1>1, <2>0, <3>2, <3>3
  <2> QED
    BY <2>1, <2>2, <2>3
<1>7. /\ Cardinality(Cached') <= Cardinality(Entries(kept))
      /\ Cardinality(Cached') \in Nat /\ Cardinality(Entries(kept)) \in Nat
  BY <1>4, <1>5, FS_Subset, FS_CardinalityType
<1>8. Cached' \subseteq Cached \cup {key}
  BY <1>1, <1>3, <1>4
<1>9. CapacityBound'
  BY <1>0, <1>6, <1>7 DEF CapacityBound
<1> QED
  BY <1>8, <1>9

(* Deleting an entry leaves the others.                                    *)
LEMMA DeleteCacheFacts ==
    ASSUME client \in Client, UNCHANGED client,
           NEW key \in Keys, DeleteCache(key), CapacityBound,
           cache = [k \in Keys |-> cache[k]]
    PROVE  Cached' \subseteq Cached /\ CapacityBound'
<1>1. Cached' \subseteq Cached
  BY DEF DeleteCache, Cached
<1>2. IsFiniteSet(Cached) /\ Cached \in SUBSET Keys
  BY ConfigClientAssumption, FS_Subset DEF Cached
<1>3. Cardinality(Cached') <= Cardinality(Cached)
      /\ Cardinality(Cached') \in Nat /\ Cardinality(Cached) \in Nat
  BY <1>1, <1>2, FS_Subset, FS_CardinalityType
<1>4. CapacityBound'
  BY <1>3, ClientFacts, ClientKept DEF CapacityBound
<1> QED
  BY <1>1, <1>4

(* The initial cache is empty.                                             *)
LEMMA InitCapacity == Init => HandleTypes /\ CapacityBound
<1> SUFFICES ASSUME Init PROVE HandleTypes /\ CapacityBound
  OBVIOUS
<1>1. HandleTypes
  <2>1. (CHOOSE k \in Keys : TRUE) \in Keys
    BY ConfigClientAssumption
  <2>2. kv \in [Keys -> StoredPairs]
    BY DEF Init, StoredPairs, Kinds
  <2>3. client \in Client
    BY ConfigClientAssumption DEF Init
  <2> QED
    BY <2>1, <2>2, <2>3 DEF Init, HandleTypes
<1>2. Cached = {}
  BY DEF Init, Cached
<1>3. CapacityBound
  <2>1. client \in Client
    BY <1>1 DEF HandleTypes
  <2> QED
    BY <1>2, <2>1, FS_EmptySet, ClientFacts DEF CapacityBound
<1> QED
  BY <1>1, <1>3

(* Every step keeps the types.                                             *)
LEMMA NextHandleTypes == HandleTypes /\ [Next]_vars => HandleTypes'
<1> SUFFICES ASSUME HandleTypes, [Next]_vars PROVE HandleTypes'
  OBVIOUS
<1> USE DEF HandleTypes, consulVars, cacheVars, getVars, watchVars
<1>0. ScopeOf \in [Keys -> Scopes]
  BY ConfigClientAssumption
<1>1. ASSUME NEW key, NEW raw, PutCache(key, raw)
      PROVE  cache' = [k \in Keys |-> cache'[k]]
  BY <1>1 DEF PutCache, Store
<1>2. ASSUME NEW key, DeleteCache(key)
      PROVE  cache' = [k \in Keys |-> cache'[k]]
  BY <1>2 DEF DeleteCache
<1>3. ASSUME NEW g \in Getters, NEW k \in Keys, GetMisses(g, k)
      PROVE  HandleTypes'
  BY <1>2, <1>3 DEF GetMisses
<1>4. ASSUME NEW g \in Getters, GetFails(g) \/ GetReads(g)
      PROVE  HandleTypes'
  BY <1>4 DEF GetFails, GetReads
<1>5. ASSUME NEW g \in Getters, GetPuts(g)
      PROVE  HandleTypes'
  BY <1>1, <1>5 DEF GetPuts
<1>6. ASSUME NEW g \in Getters, GetEnsures(g)
      PROVE  HandleTypes'
  <2> DEFINE s == ScopeOf[getKey[g]]
  <2>1. s \in Scopes /\ getKey[g] \in Keys
    BY <1>0
  <2>2. /\ watchers' \in {watchers, watchers \cup {s}}
        /\ keys' \in {keys, [keys EXCEPT ![s] = {getKey[g]}]}
    BY <1>6 DEF GetEnsures
  <2>3. getPc' \in {[getPc EXCEPT ![g] = "attach"], [getPc EXCEPT ![g] = "start"]}
    BY <1>6 DEF GetEnsures
  <2>4. UNCHANGED <<client, kv, index, pairs, todo, started, getKey, cache>>
    BY <1>6 DEF GetEnsures
  <2>5. watchers' \subseteq Scopes /\ keys' \in [Scopes -> SUBSET Keys]
    BY <2>1, <2>2
  <2>6. getPc' \in [Getters -> {"idle", "read", "put", "ensure", "start",
                                "attach"}]
    BY <2>3
  <2> QED
    BY <2>4, <2>5, <2>6
<1>7. ASSUME NEW g \in Getters, GetStartsWatch(g)
      PROVE  HandleTypes'
  BY <1>0, <1>7 DEF GetStartsWatch, GetReturns
<1>8. ASSUME NEW g \in Getters, GetAttaches(g)
      PROVE  HandleTypes'
  BY <1>0, <1>8 DEF GetAttaches, GetReturns
<1>9. ASSUME NEW s \in Scopes,
             WatchQueries(s) \/ WatchCopiesKeys(s) \/ WatchApplied(s)
      PROVE  HandleTypes'
  <2>1. CASE WatchQueries(s)
    BY <1>9, <2>1 DEF WatchQueries
  <2>2. CASE WatchCopiesKeys(s)
    BY <1>9, <2>2 DEF WatchCopiesKeys
  <2>3. CASE WatchApplied(s)
    BY <1>9, <2>3 DEF WatchApplied
  <2> QED
    BY <1>9, <2>1, <2>2, <2>3
<1>10. ASSUME NEW s \in Scopes, NEW k \in Keys, WatchApplies(s, k)
       PROVE  HandleTypes'
  <2>1. cache' = [i \in Keys |-> cache'[i]]
    <3>1. CASE DeleteCache(k)
      BY <1>2, <3>1
    <3>2. CASE PutCache(k, pairs[s][k].index)
      BY <1>1, <3>2
    <3>3. CASE UNCHANGED cacheVars
      BY <3>3
    <3>4. pairs[s][k].kind \in Kinds
      BY DEF StoredPairs
    <3>5. \/ DeleteCache(k) \/ UNCHANGED cacheVars
          \/ PutCache(k, pairs[s][k].index)
      BY <1>10, <3>4, Zenon DEF WatchApplies, Kinds
    <3> QED
      BY <3>1, <3>2, <3>3, <3>5
  <2> QED
    BY <1>10, <2>1 DEF WatchApplies
<1>11. ASSUME NEW k \in Keys, NEW kind \in Kinds, KVChanges(k, kind)
       PROVE  HandleTypes'
  <2>1. [kind |-> kind, index |-> index + 1] \in StoredPairs
    BY DEF StoredPairs
  <2> QED
    BY <1>11, <2>1 DEF KVChanges
<1>12. CASE Tick \/ UNCHANGED vars
  BY <1>12 DEF Tick, vars
<1>13. client.asks \subseteq Keys
  BY ClientFacts
<1> QED
  BY <1>3, <1>4, <1>5, <1>6, <1>7, <1>8, <1>9, <1>10, <1>11, <1>12, <1>13
     DEF Next, GetStep, WatchStep

(* The steps that do not touch the cache.                                  *)
LEMMA CacheUntouched ==
    ASSUME UNCHANGED <<client, cacheVars>>
    PROVE  Cached' = Cached /\ (CapacityBound => CapacityBound')
BY ClientKept DEF cacheVars, Cached, CapacityBound

(* Whatever a step does, only the key it is about enters the cache.        *)
LEMMA ApplyFacts ==
    ASSUME HandleTypes, CapacityBound, NEW s \in Scopes, NEW k \in Keys,
           WatchApplies(s, k)
    PROVE  Cached' \subseteq Cached \cup {k} /\ CapacityBound'
<1>1. pairs[s][k].kind \in Kinds
  BY DEF HandleTypes, StoredPairs
<1>2. \/ DeleteCache(k) \/ UNCHANGED cacheVars
      \/ PutCache(k, pairs[s][k].index)
  BY <1>1, Zenon DEF WatchApplies, Kinds
<1>3. cache = [i \in Keys |-> cache[i]] /\ client \in Client
      /\ UNCHANGED client
  BY DEF HandleTypes, WatchApplies
<1>4. CASE DeleteCache(k)
  <2>1. Cached' \subseteq Cached /\ CapacityBound'
    BY <1>3, <1>4, DeleteCacheFacts
  <2> QED
    BY <2>1
<1>5. CASE UNCHANGED cacheVars
  BY <1>3, <1>5, CacheUntouched
<1>6. CASE PutCache(k, pairs[s][k].index)
  BY <1>3, <1>6, PutCacheFacts
<1> QED
  BY <1>2, <1>4, <1>5, <1>6

(* Every step keeps the capacity.                                          *)
LEMMA NextCapacity == HandleTypes /\ CapacityBound /\ [Next]_vars => CapacityBound'
<1> SUFFICES ASSUME HandleTypes, CapacityBound, [Next]_vars PROVE CapacityBound'
  OBVIOUS
<1>0. client \in Client /\ client.asks \subseteq Keys /\ UNCHANGED client
  BY ClientFacts, NextClient DEF HandleTypes
<1>1. ASSUME NEW g \in Getters, NEW k \in Keys, GetMisses(g, k)
      PROVE  CapacityBound'
  BY <1>0, <1>1, DeleteCacheFacts DEF GetMisses, HandleTypes
<1>2. ASSUME NEW g \in Getters, GetPuts(g)
      PROVE  CapacityBound'
  <2>1. PutCache(getKey[g], getRaw[g]) /\ getKey[g] \in Keys
    BY <1>2 DEF GetPuts, HandleTypes
  <2> QED
    BY <1>0, <2>1, PutCacheFacts
<1>3. ASSUME NEW s \in Scopes, NEW k \in Keys, WatchApplies(s, k)
      PROVE  CapacityBound'
  BY <1>3, ApplyFacts
<1>4. CASE UNCHANGED cacheVars
  BY <1>0, <1>4, CacheUntouched
<1>5. ASSUME NEW g \in Getters, \/ GetFails(g) \/ GetReads(g) \/ GetEnsures(g)
                                \/ GetStartsWatch(g) \/ GetAttaches(g)
      PROVE  UNCHANGED cacheVars
  BY <1>5 DEF GetFails, GetReads, GetEnsures, GetStartsWatch, GetAttaches
<1>6. ASSUME NEW s \in Scopes,
             WatchQueries(s) \/ WatchCopiesKeys(s) \/ WatchApplied(s)
      PROVE  UNCHANGED cacheVars
  BY <1>6 DEF WatchQueries, WatchCopiesKeys, WatchApplied
<1>7. ASSUME \/ \E k \in Keys, kind \in Kinds : KVChanges(k, kind)
             \/ Tick \/ UNCHANGED vars
      PROVE  UNCHANGED cacheVars
  BY <1>7 DEF KVChanges, Tick, vars
<1> QED
  BY <1>0, <1>1, <1>2, <1>3, <1>4, <1>5, <1>6, <1>7 DEF Next, GetStep, WatchStep

(* The cache never outgrows CacheMaxEntries, however many Gets and watches *)
(* fill it.                                                                *)
THEOREM CapacityKept == Spec => []CapacityBound
<1>1. HandleTypes /\ CapacityBound /\ [Next]_vars
        => HandleTypes' /\ CapacityBound'
  BY NextHandleTypes, NextCapacity
<1> QED
  BY InitCapacity, <1>1, PTL DEF Spec

-----------------------------------------------------------------------------
(* The handles.                                                            *)

(* Initially there are none.                                               *)
LEMMA InitHandles == Init => HandleInv
BY DEF Init, HandleInv, UnwatchedIsUnused, StartsOnce, Starting,
       AttachesToHandle, KeysInScope, OneWatchPerScope, WatchersRun,
       CachedIsWatched, Cached

(* The parts that do not speak of the cache.                               *)
HandleParts ==
    /\ UnwatchedIsUnused /\ StartsOnce /\ AttachesToHandle /\ KeysInScope
    /\ OneWatchPerScope /\ WatchersRun

Unmoved(g) == getPc'[g] = getPc[g] /\ getKey'[g] = getKey[g]
Outside(g) == /\ getPc[g] \notin {"start", "ensure", "attach"}
              /\ getPc'[g] \notin {"start", "attach"}

(* A step that moves no Get into or out of ensureWatch preserves them.     *)
LEMMA QuietStep ==
    ASSUME HandleTypes, HandleParts, UNCHANGED <<watchers, keys, started>>,
           \A g \in Getters : Unmoved(g) \/ Outside(g),
           \A s \in Scopes : todo'[s] \subseteq keys[s]
    PROVE  HandleParts'
<1> USE DEF HandleParts, Unmoved, Outside
<1>1. \A s : Starting(s)' = Starting(s)
  BY DEF Starting
<1>2. UnwatchedIsUnused'
  BY <1>1 DEF UnwatchedIsUnused
<1>3. StartsOnce'
  BY <1>1 DEF StartsOnce
<1>4. KeysInScope'
  BY DEF KeysInScope, KeysOf
<1>5. OneWatchPerScope'
  BY DEF OneWatchPerScope
<1>6. WatchersRun'
  BY DEF WatchersRun
<1>7. AttachesToHandle'
  BY DEF AttachesToHandle
<1> QED
  BY <1>2, <1>3, <1>4, <1>5, <1>6, <1>7

(* ... and, when it caches nothing new, CachedIsWatched, too.              *)
LEMMA QuietCache ==
    ASSUME HandleTypes, CachedIsWatched, UNCHANGED <<client, keys>>,
           \A g \in Getters : Unmoved(g) \/ Outside(g), Cached' \subseteq Cached
    PROVE  CachedIsWatched'
<1> SUFFICES ASSUME WatchModeOn, NEW k \in Cached', k \notin keys[ScopeOf[k]]
             PROVE  \E g \in Getters :
                        getKey'[g] = k /\ getPc'[g] \in {"ensure", "attach"}
  BY ClientKept DEF CachedIsWatched
<1>1. PICK g \in Getters : getKey[g] = k /\ getPc[g] \in {"ensure", "attach"}
  BY DEF CachedIsWatched
<1>2. Unmoved(g)
  BY <1>1 DEF Outside
<1> QED
  BY <1>1, <1>2 DEF Unmoved

(* A Get that looks its handle up finds one, or creates it with its key.   *)
LEMMA EnsuresHandles ==
    ASSUME HandleTypes, HandleInv, NEW g \in Getters, GetEnsures(g)
    PROVE  HandleInv'
<1> DEFINE k == getKey[g]
           s == ScopeOf[k]
<1>0. s \in Scopes /\ k \in Keys /\ k \in KeysOf(s) /\ getPc[g] = "ensure"
  BY ConfigClientAssumption DEF HandleTypes, GetEnsures, KeysOf
<1>1. /\ UNCHANGED <<client, getKey, started, todo, cacheVars>>
      /\ WatchModeOn' = WatchModeOn
      /\ \A h \in Getters : h # g => getPc'[h] = getPc[h]
  BY ClientKept DEF GetEnsures, watchVars, HandleTypes
<1>2. CASE s \in watchers
  <2>1. getPc'[g] = "attach" /\ UNCHANGED <<watchers, keys>>
    BY <1>0, <1>2 DEF GetEnsures, HandleTypes
  <2>2. \A i : Starting(i)' = Starting(i)
    BY <1>0, <1>1, <2>1 DEF Starting
  <2>3. UnwatchedIsUnused' /\ StartsOnce' /\ KeysInScope' /\ OneWatchPerScope'
    BY <1>1, <2>1, <2>2
       DEF HandleInv, UnwatchedIsUnused, StartsOnce, KeysInScope, KeysOf,
           OneWatchPerScope
  <2>6. AttachesToHandle'
    BY <1>1, <1>2, <2>1 DEF HandleInv, AttachesToHandle
  <2>4. WatchersRun'
    BY <1>0, <1>1, <2>1 DEF HandleInv, WatchersRun
  <2>5. CachedIsWatched'
    <3>1. Cached' = Cached
      BY <1>1, CacheUntouched
    <3> QED
      BY <1>0, <1>1, <2>1, <3>1 DEF HandleInv, CachedIsWatched
  <2> QED
    BY <2>3, <2>4, <2>5, <2>6 DEF HandleInv
<1>3. CASE s \notin watchers
  <2>1. /\ getPc'[g] = "start" /\ watchers' = watchers \cup {s}
        /\ keys' = [keys EXCEPT ![s] = {k}]
    BY <1>0, <1>3 DEF GetEnsures, HandleTypes
  <2>2. started[s] = 0 /\ keys[s] = {} /\ Starting(s) = {}
    BY <1>0, <1>3 DEF HandleInv, UnwatchedIsUnused
  <2>3. /\ Starting(s)' = {g}
        /\ \A i : i # s => Starting(i)' = Starting(i)
    BY <1>0, <1>1, <2>1, <2>2 DEF Starting
  <2>4. /\ keys'[s] = {k} /\ \A i \in Scopes : i # s => keys'[i] = keys[i]
    BY <1>0, <2>1 DEF HandleTypes
  <2>5. UnwatchedIsUnused'
    BY <1>1, <2>1, <2>3, <2>4 DEF HandleInv, UnwatchedIsUnused
  <2>6. StartsOnce'
    BY <1>1, <2>2, <2>3 DEF HandleInv, StartsOnce
  <2>7. KeysInScope'
    <3>1. todo[s] = {}
      BY <1>0, <2>2 DEF HandleInv, KeysInScope
    <3>2. \A i : KeysOf(i)' = KeysOf(i)
      BY DEF KeysOf
    <3> QED
      BY <1>0, <1>1, <2>4, <3>1, <3>2 DEF HandleInv, KeysInScope
  <2>8. OneWatchPerScope' /\ AttachesToHandle'
    BY <1>1, <2>1 DEF HandleInv, OneWatchPerScope, AttachesToHandle
  <2>10. WatchersRun'
    <3> SUFFICES ASSUME NEW i \in watchers'
                 PROVE  \/ started'[i] > 0
                        \/ \E h \in Getters :
                             ScopeOf[getKey'[h]] = i /\ getPc'[h] = "start"
      BY DEF WatchersRun
    <3>1. CASE i = s
      BY <1>1, <2>1, <3>1
    <3>2. CASE i # s /\ started[i] > 0
      BY <1>1, <3>2
    <3>3. CASE i # s /\ ~(started[i] > 0)
      <4>1. PICK h \in Getters : ScopeOf[getKey[h]] = i /\ getPc[h] = "start"
        BY <2>1, <3>3 DEF HandleInv, WatchersRun
      <4>2. h # g
        BY <1>0, <4>1
      <4> QED
        BY <1>1, <4>1, <4>2
    <3> QED
      BY <3>1, <3>2, <3>3
  <2>9. CachedIsWatched'
    <3>1. Cached' = Cached
      BY <1>1, CacheUntouched
    <3>2. SUFFICES ASSUME WatchModeOn, NEW j \in Cached, j \notin keys'[ScopeOf[j]]
                   PROVE  \E h \in Getters :
                            getKey'[h] = j /\ getPc'[h] \in {"ensure", "attach"}
      BY <1>1, <3>1 DEF CachedIsWatched
    <3>3. j \notin keys[ScopeOf[j]]
      <4>1. ScopeOf[j] \in Scopes
        BY ConfigClientAssumption DEF Cached
      <4> QED
        BY <2>2, <2>4, <3>2, <4>1
    <3>4. j # k
      BY <2>4, <3>2
    <3>5. PICK h \in Getters : getKey[h] = j /\ getPc[h] \in {"ensure", "attach"}
      BY <3>2, <3>3 DEF HandleInv, CachedIsWatched
    <3> QED
      BY <1>1, <3>4, <3>5
  <2> QED
    BY <2>5, <2>6, <2>7, <2>8, <2>9, <2>10 DEF HandleInv
<1> QED
  BY <1>2, <1>3

(* The Get that created the handle starts its goroutine.                   *)
LEMMA StartsHandles ==
    ASSUME HandleTypes, HandleInv, NEW g \in Getters, GetStartsWatch(g)
    PROVE  HandleInv'
<1> DEFINE s == ScopeOf[getKey[g]]
<1>0. s \in Scopes /\ getKey[g] \in Keys /\ g \in Starting(s)
  BY ConfigClientAssumption DEF HandleTypes, GetStartsWatch, Starting
<1>1. /\ UNCHANGED <<client, getKey, todo, cacheVars, watchers, keys>>
      /\ WatchModeOn' = WatchModeOn
      /\ getPc'[g] = "idle" /\ getPc[g] = "start"
      /\ \A h \in Getters : h # g => getPc'[h] = getPc[h]
      /\ started' = [started EXCEPT ![s] = @ + 1]
  BY ClientKept DEF GetStartsWatch, GetReturns, HandleTypes
<1>2. started[s] = 0 /\ Starting(s) = {g}
  BY <1>0 DEF HandleInv, StartsOnce
<1>3. /\ Starting(s)' = {}
      /\ \A i : i # s => Starting(i)' = Starting(i)
  BY <1>1, <1>2 DEF Starting
<1>4. started'[s] = 1 /\ \A i \in Scopes : i # s => started'[i] = started[i]
  BY <1>0, <1>1, <1>2 DEF HandleTypes
<1>5. s \in watchers
  BY <1>0 DEF HandleInv, UnwatchedIsUnused
<1>6. UnwatchedIsUnused'
  <2>1. \A i \in Scopes \ watchers : i # s
    BY <1>5
  <2>2. \A i \in Scopes \ watchers :
            started[i] = 0 /\ keys[i] = {} /\ Starting(i) = {}
    BY DEF HandleInv, UnwatchedIsUnused
  <2>3. \A i \in Scopes \ watchers' :
            started'[i] = 0 /\ keys'[i] = {} /\ Starting(i)' = {}
    BY <1>1, <1>3, <1>4, <2>1, <2>2
  <2> QED
    BY <2>3 DEF UnwatchedIsUnused
<1>7. StartsOnce'
  <2>1. \A i \in Scopes : i # s =>
            \A f, h \in Starting(i) : f = h /\ started[i] = 0
    BY DEF HandleInv, StartsOnce
  <2>2. ASSUME NEW i \in Scopes, NEW f \in Starting(i)', NEW h \in Starting(i)'
        PROVE  f = h /\ started'[i] = 0
    <3>1. i # s
      BY <1>1, <1>3, <2>2 DEF Starting
    <3>2. Starting(i)' = Starting(i) /\ started'[i] = started[i]
      BY <1>3, <1>4, <3>1
    <3> QED
      BY <2>1, <2>2, <3>1, <3>2
  <2> QED
    BY <2>2 DEF StartsOnce
<1>8. KeysInScope'
  BY <1>1 DEF HandleInv, KeysInScope, KeysOf
<1>9. OneWatchPerScope'
  BY <1>4 DEF HandleInv, OneWatchPerScope
<1>10. WatchersRun'
  <2> SUFFICES ASSUME NEW i \in watchers, ~(started'[i] > 0)
               PROVE  \E h \in Getters :
                        ScopeOf[getKey'[h]] = i /\ getPc'[h] = "start"
    BY <1>1 DEF WatchersRun
  <2>1. i # s /\ i \in Scopes /\ started'[i] = started[i]
    BY <1>4 DEF HandleTypes
  <2>2. PICK h \in Getters : ScopeOf[getKey[h]] = i /\ getPc[h] = "start"
    BY <2>1 DEF HandleInv, WatchersRun
  <2> QED
    BY <1>1, <2>1, <2>2
<1>11. CachedIsWatched'
  <2>1. Cached' = Cached
    BY <1>1, CacheUntouched
  <2> QED
    BY <1>1, <2>1 DEF HandleInv, CachedIsWatched
<1>12. AttachesToHandle'
  BY <1>1 DEF HandleInv, AttachesToHandle
<1> QED
  BY <1>6, <1>7, <1>8, <1>9, <1>10, <1>11, <1>12 DEF HandleInv

(* A Get attaches its key to the handle it has found.                      *)
LEMMA AttachesHandles ==
    ASSUME HandleTypes, HandleInv, NEW g \in Getters, GetAttaches(g)
    PROVE  HandleInv'
<1> DEFINE k == getKey[g]
           s == ScopeOf[k]
<1>0. s \in Scopes /\ k \in Keys /\ k \in KeysOf(s)
  BY ConfigClientAssumption DEF HandleTypes, KeysOf
<1>1. /\ UNCHANGED <<client, getKey, todo, cacheVars, watchers, started>>
      /\ WatchModeOn' = WatchModeOn
      /\ getPc'[g] = "idle" /\ getPc[g] = "attach"
      /\ \A h \in Getters : h # g => getPc'[h] = getPc[h]
  BY ClientKept DEF GetAttaches, GetReturns, HandleTypes, watchVars
<1>2. /\ keys'[s] = keys[s] \cup {k}
      /\ \A i \in Scopes : i # s => keys'[i] = keys[i]
  BY <1>0 DEF GetAttaches, HandleTypes
<1>3. \A i : Starting(i)' = Starting(i)
  BY <1>1 DEF Starting
<1>4. s \in watchers
  BY <1>1 DEF HandleInv, AttachesToHandle
<1>5. UnwatchedIsUnused'
  <2>1. \A i \in Scopes \ watchers : i # s
    BY <1>4
  <2> QED
    BY <1>1, <1>2, <1>3, <2>1 DEF HandleInv, UnwatchedIsUnused
<1>6. StartsOnce'
  BY <1>1, <1>3 DEF HandleInv, StartsOnce
<1>7. AttachesToHandle'
  BY <1>1 DEF HandleInv, AttachesToHandle
<1>8. KeysInScope'
  <2>1. \A i : KeysOf(i)' = KeysOf(i)
    BY DEF KeysOf
  <2>2. \A i \in Scopes : todo[i] \subseteq keys[i] /\ keys[i] \subseteq KeysOf(i)
    BY DEF HandleInv, KeysInScope
  <2>3. ASSUME NEW i \in Scopes
        PROVE  todo'[i] \subseteq keys'[i] /\ keys'[i] \subseteq KeysOf(i)
    <3>1. CASE i = s
      BY <1>0, <1>1, <1>2, <2>2, <3>1
    <3>2. CASE i # s
      BY <1>1, <1>2, <2>2, <3>2
    <3> QED
      BY <3>1, <3>2
  <2> QED
    BY <2>1, <2>3 DEF KeysInScope
<1>9. OneWatchPerScope' /\ WatchersRun'
  BY <1>1 DEF HandleInv, OneWatchPerScope, WatchersRun
<1>10. CachedIsWatched'
  <2>1. Cached' = Cached
    BY <1>1, CacheUntouched
  <2> SUFFICES ASSUME WatchModeOn, NEW j \in Cached, j \notin keys'[ScopeOf[j]]
               PROVE  \E h \in Getters :
                        getKey'[h] = j /\ getPc'[h] \in {"ensure", "attach"}
    BY <1>1, <2>1 DEF CachedIsWatched
  <2>2. j # k /\ j \notin keys[ScopeOf[j]]
    <3>1. ScopeOf[j] \in Scopes
      BY ConfigClientAssumption DEF Cached
    <3> QED
      BY <1>2, <3>1
  <2>3. PICK h \in Getters : getKey[h] = j /\ getPc[h] \in {"ensure", "attach"}
    BY <2>2 DEF HandleInv, CachedIsWatched
  <2> QED
    BY <1>1, <2>2, <2>3
<1> QED
  BY <1>5, <1>6, <1>7, <1>8, <1>9, <1>10 DEF HandleInv

(* putCache in Get caches a key that Get is about to register.             *)
LEMMA PutsHandles ==
    ASSUME HandleTypes, HandleInv, CapacityBound, NEW g \in Getters, GetPuts(g)
    PROVE  HandleInv'
<1>1. /\ UNCHANGED <<client, getKey, todo, started, watchers, keys>>
      /\ WatchModeOn' = WatchModeOn
      /\ getPc[g] = "put"
      /\ getPc'[g] = IF WatchModeOn THEN "ensure" ELSE "idle"
      /\ \A h \in Getters : h # g => getPc'[h] = getPc[h]
  BY ClientKept DEF GetPuts, HandleTypes, watchVars
<1>2. HandleParts'
  <2>1. \A h \in Getters : Unmoved(h) \/ Outside(h)
    BY <1>1 DEF Unmoved, Outside
  <2>2. \A s \in Scopes : todo'[s] \subseteq keys[s]
    BY <1>1 DEF HandleInv, KeysInScope
  <2> QED
    BY <1>1, <2>1, <2>2, QuietStep DEF HandleInv, HandleParts
<1>3. CachedIsWatched'
  <2>1. Cached' \subseteq Cached \cup {getKey[g]}
    <3>1. /\ PutCache(getKey[g], getRaw[g]) /\ getKey[g] \in Keys
          /\ client \in Client
      BY DEF GetPuts, HandleTypes
    <3> QED
      BY <1>1, <3>1, PutCacheFacts
  <2> SUFFICES ASSUME WatchModeOn, NEW k \in Cached', k \notin keys'[ScopeOf[k]]
               PROVE  \E h \in Getters :
                        getKey'[h] = k /\ getPc'[h] \in {"ensure", "attach"}
    BY <1>1 DEF CachedIsWatched
  <2>2. CASE k = getKey[g]
    BY <1>1, <2>2
  <2>3. CASE k # getKey[g]
    <3>1. PICK h \in Getters : getKey[h] = k /\ getPc[h] \in {"ensure", "attach"}
      BY <1>1, <2>1, <2>3 DEF HandleInv, CachedIsWatched
    <3> QED
      BY <1>1, <2>3, <3>1
  <2> QED
    BY <2>2, <2>3
<1> QED
  BY <1>2, <1>3 DEF HandleInv, HandleParts

(* The watch refreshes only keys that are registered already.              *)
LEMMA AppliesHandles ==
    ASSUME HandleTypes, HandleInv, CapacityBound,
           NEW s \in Scopes, NEW k \in Keys, WatchApplies(s, k)
    PROVE  HandleInv'
<1>1. /\ UNCHANGED <<client, getPc, getKey, started, watchers, keys>>
      /\ WatchModeOn' = WatchModeOn
      /\ todo' = [todo EXCEPT ![s] = @ \ {k}]
  BY ClientKept DEF WatchApplies, getVars
<1>2. \A g \in Getters : Unmoved(g)
  BY <1>1 DEF Unmoved
<1>3. HandleParts'
  <2>1. \A i \in Scopes : todo'[i] \subseteq keys[i]
    BY <1>1 DEF HandleInv, KeysInScope, HandleTypes
  <2> QED
    BY <1>1, <1>2, <2>1, QuietStep DEF HandleInv, HandleParts
<1>4. CachedIsWatched'
  <2>1. Cached' \subseteq Cached \cup {k}
    BY ApplyFacts
  <2>2. ScopeOf[k] = s /\ k \in keys[s]
    BY DEF WatchApplies, HandleInv, KeysInScope, KeysOf
  <2>3. ASSUME NEW j \in Cached', WatchModeOn
        PROVE  \/ j \in keys[ScopeOf[j]]
               \/ \E g \in Getters :
                    getKey[g] = j /\ getPc[g] \in {"ensure", "attach"}
    BY <2>1, <2>2, <2>3 DEF HandleInv, CachedIsWatched
  <2> QED
    BY <1>1, <2>3 DEF CachedIsWatched
<1> QED
  BY <1>3, <1>4 DEF HandleInv, HandleParts

(* The other steps move no handle and cache nothing.                       *)
LEMMA OthersHandles ==
    ASSUME HandleTypes, HandleInv,
           UNCHANGED <<client, watchers, keys, started>>,
           \A g \in Getters : Unmoved(g) \/ Outside(g),
           \A s \in Scopes : todo'[s] \in {todo[s], keys[s]},
           Cached' \subseteq Cached
    PROVE  HandleInv'
<1>1. \A s \in Scopes : todo'[s] \subseteq keys[s]
  BY DEF HandleInv, KeysInScope
<1>2. HandleParts'
  BY <1>1, QuietStep DEF HandleInv, HandleParts
<1>3. CachedIsWatched'
  BY QuietCache DEF HandleInv
<1> QED
  BY <1>2, <1>3 DEF HandleInv, HandleParts

(* Every step preserves the invariant.                                     *)
LEMMA NextHandles ==
    HandleTypes /\ CapacityBound /\ HandleInv /\ [Next]_vars => HandleInv'
<1> SUFFICES ASSUME HandleTypes, CapacityBound, HandleInv, [Next]_vars
             PROVE  HandleInv'
  OBVIOUS
<1>0. client \in Client /\ client.asks \subseteq Keys /\ UNCHANGED client
  BY ClientFacts, NextClient DEF HandleTypes
<1>1. ASSUME NEW g \in Getters, NEW k \in Keys, GetMisses(g, k)
      PROVE  HandleInv'
  <2>1. \A h \in Getters : Unmoved(h) \/ Outside(h)
    BY <1>1 DEF GetMisses, HandleTypes, Unmoved, Outside
  <2>2. Cached' \subseteq Cached
    BY <1>0, <1>1, DeleteCacheFacts DEF GetMisses, HandleTypes
  <2>3. UNCHANGED <<watchers, keys, started, todo>>
    BY <1>1 DEF GetMisses, watchVars
  <2> QED
    BY <1>0, <2>1, <2>2, <2>3, OthersHandles
<1>2. ASSUME NEW g \in Getters, GetFails(g) \/ GetReads(g)
      PROVE  HandleInv'
  <2>1. \A h \in Getters : Unmoved(h) \/ Outside(h)
    BY <1>2 DEF GetFails, GetReads, HandleTypes, Unmoved, Outside
  <2>2. UNCHANGED <<watchers, keys, started, todo, cacheVars>>
    BY <1>2 DEF GetFails, GetReads, watchVars
  <2> QED
    BY <1>0, <2>1, <2>2, CacheUntouched, OthersHandles
<1>3. ASSUME NEW s \in Scopes,
             WatchQueries(s) \/ WatchCopiesKeys(s) \/ WatchApplied(s)
      PROVE  HandleInv'
  <2>1. \A h \in Getters : Unmoved(h)
    BY <1>3 DEF WatchQueries, WatchCopiesKeys, WatchApplied, getVars, Unmoved
  <2>2. UNCHANGED <<watchers, keys, started, cacheVars>>
    BY <1>3 DEF WatchQueries, WatchCopiesKeys, WatchApplied
  <2>3. \A i \in Scopes : todo'[i] \in {todo[i], keys[i]}
    BY <1>3 DEF WatchQueries, WatchCopiesKeys, WatchApplied, HandleTypes
  <2> QED
    BY <1>0, <2>1, <2>2, <2>3, CacheUntouched, OthersHandles
<1>4. ASSUME \/ \E k \in Keys, kind \in Kinds : KVChanges(k, kind)
             \/ Tick \/ UNCHANGED vars
      PROVE  HandleInv'
  <2>1. UNCHANGED <<watchers, keys, getVars, watchVars, cacheVars>>
    BY <1>4 DEF KVChanges, Tick, vars
  <2>2. \A h \in Getters : Unmoved(h)
    BY <2>1 DEF getVars, Unmoved
  <2>3. UNCHANGED <<started, todo>>
    BY <2>1 DEF watchVars
  <2> QED
    BY <1>0, <2>1, <2>2, <2>3, CacheUntouched, OthersHandles
<1> QED
  BY <1>0, <1>1, <1>2, <1>3, <1>4, PutsHandles, EnsuresHandles, StartsHandles,
     AttachesHandles, AppliesHandles
     DEF Next, GetStep, WatchStep

(* HandleInv holds of every behaviour.                                     *)
THEOREM HandlesHold == Spec => []HandleInv
<1>1. HandleTypes /\ CapacityBound /\ HandleInv /\ [Next]_vars
        => HandleTypes' /\ CapacityBound' /\ HandleInv'
  BY NextHandleTypes, NextCapacity, NextHandles
<1> QED
  BY InitCapacity, InitHandles, <1>1, PTL DEF Spec

(* A scope has one watch goroutine at most, however many Gets race.        *)
THEOREM OneWatch == Spec => []OneWatchPerScope
<1>1. HandleInv => OneWatchPerScope
  BY DEF HandleInv
<1> QED
  BY <1>1, HandlesHold, PTL

(* No cached key is left without a watch.                                  *)
THEOREM EveryCachedKeyIsWatched == Spec => []CachedIsWatched
<1>1. HandleInv => CachedIsWatched
  BY DEF HandleInv
<1> QED
  BY <1>1, HandlesHold, PTL

(* No handle is left without a goroutine, running or about to be started.  *)
THEOREM EveryHandleRuns == Spec => []WatchersRun
<1>1. HandleInv => WatchersRun
  BY DEF HandleInv
<1> QED
  BY <1>1, HandlesHold, PTL
=============================================================================
