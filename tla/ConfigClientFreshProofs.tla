----------------------- MODULE ConfigClientFreshProofs -----------------------
(***************************************************************************)
(* The configuration client's cache against the values written in Consul,  *)
(* for any sets of keys, scopes and Gets, any capacity and any number of   *)
(* writes: a watch that is idle has missed nothing but a write that raced  *)
(* with a Get.                                                             *)
(***************************************************************************)
EXTENDS ConfigClientProofs, WellFoundedInduction

-----------------------------------------------------------------------------
(* Types.                                                                  *)

(* A set of numbers that is bounded has a maximum: the least distance from *)
(* the bound is one.                                                       *)
LEMMA MaxFacts ==
    ASSUME NEW b \in Nat, NEW S \in SUBSET (0..b), S # {}
    PROVE  Max(S) \in S /\ \A y \in S : Max(S) >= y
<1> DEFINE T == {n \in Nat : b - n \in S}
<1>1. T # {}
  <2>1. PICK x \in S : TRUE
    OBVIOUS
  <2>2. b - x \in Nat /\ b - (b - x) = x
    OBVIOUS
  <2> QED
    BY <2>1, <2>2
<1>2. PICK n \in T : \A m \in T : ~(<<m, n>> \in OpToRel(<, Nat))
  BY <1>1, WFMin, NatLessThanWellFounded
<1>3. \A m \in T : ~(m < n)
  BY <1>2 DEF OpToRel
<1>4. \A y \in S : b - n >= y
  <2>1. SUFFICES ASSUME NEW y \in S PROVE b - n >= y
    OBVIOUS
  <2>2. b - y \in T /\ y \in 0..b /\ n \in Nat
    OBVIOUS
  <2>3. ~(b - y < n)
    BY <1>3, <2>2
  <2> QED
    BY <2>2, <2>3
<1> QED
  BY <1>4 DEF Max

(* The index of a scope is that of one of its keys, or 1, and none of its  *)
(* keys is newer.                                                          *)
LEMMA LastIndexFacts ==
    ASSUME NEW b \in Nat \ {0}, NEW s,
           \A k \in Keys : kv[k].index \in 0..b
    PROVE  /\ LastIndex(s) \in 0..b
           /\ \A k \in KeysOf(s) : LastIndex(s) >= kv[k].index
<1> DEFINE S == {1} \cup {kv[k].index : k \in KeysOf(s)}
<1>1. S \in SUBSET (0..b) /\ S # {}
  BY DEF KeysOf
<1>2. Max(S) \in S /\ \A y \in S : Max(S) >= y
  BY <1>1, MaxFacts
<1> QED
  BY <1>1, <1>2 DEF LastIndex

(* What the cache operations write: the value given for the key they are   *)
(* called for, and for another key its old value or nothing.               *)
LEMMA PutCacheWrites ==
    ASSUME NEW key \in Keys, NEW raw, PutCache(key, raw)
    PROVE  /\ cache' = [k \in Keys |-> cache'[k]]
           /\ cache'[key] = raw
           /\ \A k \in Keys \ {key} : cache'[k] \in {cache[k], 0}
<1>1. PICK kept : Store(key, raw, kept)
  BY DEF PutCache
<1> QED
  BY <1>1 DEF Store

(* What a state of the right types says of Consul's index, and what a step *)
(* that leaves it alone keeps.                                             *)
LEMMA TypeFacts ==
    ASSUME TypeOK
    PROVE  /\ index \in Nat \ {0} /\ MaxTime \in Nat
           /\ client.asks \subseteq Keys /\ client.writes \in Nat
           /\ \A p \in Pairs : /\ p.index \in Nat \ {0} /\ p.index \in 0..index
                             /\ p.kind \in Kinds
BY ConfigClientAssumption DEF TypeOK, Client, Pairs

LEMMA SameIndex ==
    ASSUME UNCHANGED index
    PROVE  Pairs' = Pairs
BY DEF Pairs

LEMMA PutCacheTypes ==
    ASSUME TypeOK, NEW key \in Keys, NEW raw \in 0..index, PutCache(key, raw)
    PROVE  cache' \in [Keys -> 0..index] /\ expiresAt' \in [Keys -> Nat]
<1>1. PICK kept : Store(key, raw, kept)
  BY DEF PutCache
<1>2. now + CacheTTL \in Nat /\ 0 \in 0..index
  BY ConfigClientAssumption, TypeFacts DEF TypeOK
<1>3. cache' \in [Keys -> 0..index]
  BY <1>1, <1>2 DEF Store, TypeOK
<1>4. expiresAt' \in [Keys -> Nat]
  BY <1>1, <1>2 DEF Store, TypeOK
<1> QED
  BY <1>3, <1>4

LEMMA InitTypes == Init => TypeOK
<1> SUFFICES ASSUME Init PROVE TypeOK
  OBVIOUS
<1>0. /\ client \in Client /\ client.writes \in Nat
      /\ index = 1 /\ MaxTime \in Nat
  BY ConfigClientAssumption DEF Init, Client
<1>1. (CHOOSE k \in Keys : TRUE) \in Keys
  BY ConfigClientAssumption
<1>2. kv \in [Keys -> Pairs]
  BY <1>0 DEF Init, Pairs, Kinds
<1>3. pairs \in [Scopes -> [Keys -> Pairs]]
  BY <1>2 DEF Init
<1> QED
  BY <1>0, <1>1, <1>2, <1>3 DEF Init, TypeOK

(* The steps of a Get keep the types.                                      *)
LEMMA GetTypes ==
    ASSUME TypeOK, NEW g \in Getters, GetStep(g)
    PROVE  TypeOK'
<1> USE DEF consulVars, cacheVars, getVars, watchVars
<1>0. /\ ScopeOf \in [Keys -> Scopes] /\ index \in Nat \ {0}
      /\ 0 \in 0..index
  BY ConfigClientAssumption, TypeFacts
<1>a. Pairs' = Pairs /\ UNCHANGED <<client, kv, index, now>>
  <2>1. UNCHANGED <<client, kv, index, now>>
    BY DEF GetStep, GetMisses, GetFails, GetReads, GetPuts, GetEnsures,
           GetStartsWatch, GetAttaches
  <2> QED
    BY <2>1, SameIndex
<1>1. ASSUME NEW k \in Keys, GetMisses(g, k) PROVE TypeOK'
  BY <1>0, <1>a, <1>1 DEF GetMisses, DeleteCache, TypeOK
<1>2. CASE GetFails(g)
  BY <1>a, <1>2 DEF GetFails, TypeOK
<1>3. CASE GetReads(g)
  <2>1. kv[getKey[g]].index \in 0..index
    BY TypeFacts DEF TypeOK
  <2> QED
    BY <1>a, <1>3, <2>1 DEF GetReads, TypeOK
<1>4. CASE GetPuts(g)
  <2>1. cache' \in [Keys -> 0..index] /\ expiresAt' \in [Keys -> Nat]
    BY <1>4, PutCacheTypes DEF GetPuts, TypeOK
  <2> QED
    BY <1>a, <1>4, <2>1 DEF GetPuts, TypeOK
<1>5. CASE GetEnsures(g)
  <2> DEFINE s == ScopeOf[getKey[g]]
  <2>1. /\ s \in Scopes /\ getKey[g] \in Keys
        /\ watchers \subseteq Scopes /\ keys \in [Scopes -> SUBSET Keys]
    BY <1>0 DEF TypeOK
  <2>2. /\ watchers' \in {watchers, watchers \cup {s}}
        /\ keys' \in {keys, [keys EXCEPT ![s] = {getKey[g]}]}
    BY <1>5 DEF GetEnsures
  <2>3. getPc' \in {[getPc EXCEPT ![g] = "attach"], [getPc EXCEPT ![g] = "start"]}
    BY <1>5 DEF GetEnsures
  <2>4. watchers' \subseteq Scopes /\ keys' \in [Scopes -> SUBSET Keys]
    BY <2>1, <2>2
  <2>5. getPc' \in [Getters -> {"idle", "read", "put", "ensure", "start",
                                "attach"}]
    BY <2>3 DEF TypeOK
  <2>6. UNCHANGED <<cache, expiresAt, getKey, getRaw, watchPc, started,
                    waitIndex, pairs, todo, written>>
    BY <1>5 DEF GetEnsures
  <2> QED
    BY <1>a, <2>4, <2>5, <2>6 DEF TypeOK
<1>6. CASE GetStartsWatch(g)
  BY <1>0, <1>a, <1>6 DEF GetStartsWatch, GetReturns, TypeOK
<1>7. CASE GetAttaches(g)
  BY <1>0, <1>a, <1>7 DEF GetAttaches, GetReturns, TypeOK
<1>8. client.asks \subseteq Keys
  BY TypeFacts
<1> QED
  BY <1>1, <1>2, <1>3, <1>4, <1>5, <1>6, <1>7, <1>8 DEF GetStep

(* The steps of a watch keep the types.                                    *)
LEMMA WatchTypes ==
    ASSUME TypeOK, NEW s \in Scopes, WatchStep(s)
    PROVE  TypeOK'
<1> USE DEF consulVars, cacheVars, getVars, watchVars
<1>0. index \in Nat \ {0} /\ 0 \in 0..index
  BY TypeFacts
<1>a. Pairs' = Pairs /\ UNCHANGED <<client, kv, index, now>>
  <2>1. UNCHANGED <<client, kv, index, now>>
    BY DEF WatchStep, WatchQueries, WatchCopiesKeys, WatchApplies, WatchApplied
  <2> QED
    BY <2>1, SameIndex
<1>1. CASE WatchQueries(s)
  <2>1. \A k \in Keys : kv[k].index \in 0..index
    BY TypeFacts DEF TypeOK
  <2>2. LastIndex(s) \in 0..index
    BY <1>0, <2>1, LastIndexFacts
  <2> QED
    BY <1>a, <1>1, <2>2 DEF WatchQueries, TypeOK
<1>2. CASE WatchCopiesKeys(s)
  BY <1>a, <1>2 DEF WatchCopiesKeys, TypeOK
<1>3. ASSUME NEW k \in Keys, WatchApplies(s, k) PROVE TypeOK'
  <2>1. pairs[s][k].kind \in Kinds /\ pairs[s][k].index \in 0..index
    BY TypeFacts DEF TypeOK
  <2>2. \/ DeleteCache(k) \/ UNCHANGED cacheVars
        \/ PutCache(k, pairs[s][k].index)
    BY <1>3, <2>1, Zenon DEF WatchApplies, Kinds
  <2>3. cache' \in [Keys -> 0..index] /\ expiresAt' \in [Keys -> Nat]
    <3>1. CASE DeleteCache(k)
      BY <1>0, <3>1 DEF DeleteCache, TypeOK
    <3>2. CASE UNCHANGED cacheVars
      BY <3>2 DEF TypeOK
    <3>3. CASE PutCache(k, pairs[s][k].index)
      BY <2>1, <3>3, PutCacheTypes
    <3> QED
      BY <2>2, <3>1, <3>2, <3>3
  <2>4. todo' \in [Scopes -> SUBSET Keys] /\ written' \subseteq Keys
    BY <1>3 DEF WatchApplies, TypeOK
  <2>5. UNCHANGED <<watchers, keys, getPc, getKey, getRaw, watchPc, started,
                    waitIndex, pairs>>
    BY <1>3 DEF WatchApplies
  <2> QED
    BY <1>a, <2>3, <2>4, <2>5 DEF TypeOK
<1>4. CASE WatchApplied(s)
  BY <1>a, <1>4 DEF WatchApplied, TypeOK
<1> QED
  BY <1>1, <1>2, <1>3, <1>4 DEF WatchStep

(* Every step keeps the types.                                             *)
LEMMA NextTypes == TypeOK /\ [Next]_vars => TypeOK'
<1> SUFFICES ASSUME TypeOK, [Next]_vars PROVE TypeOK'
  OBVIOUS
<1>1. ASSUME NEW k \in Keys, NEW kind \in Kinds, KVChanges(k, kind)
      PROVE  TypeOK'
  <2>0. index \in Nat \ {0} /\ client.writes \in Nat
    BY TypeFacts
  <2>1. /\ UNCHANGED <<client, now, cache, expiresAt, watchers, keys, getPc,
                       getKey, getRaw, watchPc, started, waitIndex, pairs, todo,
                       written>>
        /\ index' = index + 1 /\ index <= client.writes
        /\ kv' = [kv EXCEPT ![k] = [kind |-> kind, index |-> index + 1]]
    BY <1>1 DEF KVChanges, cacheVars, getVars, watchVars
  <2>2. /\ index' \in 1..client'.writes + 1 /\ 0..index \subseteq 0..index'
        /\ Pairs \subseteq Pairs'
    BY <2>0, <2>1 DEF Pairs
  <2>3. [kind |-> kind, index |-> index + 1] \in Pairs'
    BY <2>0, <2>1 DEF Pairs
  <2>4. kv' \in [Keys -> Pairs'] /\ pairs' \in [Scopes -> [Keys -> Pairs']]
    BY <2>1, <2>2, <2>3 DEF TypeOK
  <2>5. /\ cache' \in [Keys -> 0..index'] /\ getRaw' \in [Getters -> 0..index']
        /\ waitIndex' \in [Scopes -> 0..index']
    BY <2>1, <2>2 DEF TypeOK
  <2> QED
    BY <2>1, <2>2, <2>4, <2>5 DEF TypeOK
<1>2. CASE Tick
  BY <1>2, SameIndex, ConfigClientAssumption
     DEF Tick, TypeOK, consulVars, cacheVars, getVars, watchVars
<1>3. CASE UNCHANGED vars
  BY <1>3, SameIndex DEF TypeOK, vars, consulVars, cacheVars, getVars, watchVars
<1>4. client.asks \subseteq Keys
  BY TypeFacts
<1> QED
  BY <1>1, <1>2, <1>3, <1>4, GetTypes, WatchTypes DEF Next

(* No cursor is ahead of Consul's index, and no snapshot and no cached     *)
(* value is of the future (client.go:271-276).                             *)
THEOREM ClientTypes == Spec => []TypeOK
BY InitTypes, NextTypes, PTL DEF Spec

-----------------------------------------------------------------------------
(* Freshness.                                                              *)

(* The watch of k's scope has not asked Consul yet about k's last change.  *)
Behind(k) == kv[k].index > waitIndex[ScopeOf[k]]

(* It has been told, and is about to write it to the cache.                *)
AboutToApply(k) ==
    LET s == ScopeOf[k] IN
    /\ pairs[s][k] = kv[k]
    /\ watchPc[s] = "copy" \/ (watchPc[s] = "apply" /\ k \in todo[s])

(* Get g has put the value that the cache holds for k, and has not         *)
(* returned: it will see whether k was written since it was read.          *)
Put(g, k) ==
    /\ getKey[g] = k /\ getPc[g] \in {"ensure", "start", "attach"}
    /\ getRaw[g] = cache[k]

(* What the watch holds of a key is the key's state, or it is behind.      *)
SnapshotInv ==
    /\ \A s \in Scopes : waitIndex[s] <= index
    /\ \A k \in Keys : kv[k].index <= index
    /\ \A k \in Keys : pairs[ScopeOf[k]][k] = kv[k] \/ Behind(k)
    /\ \A s \in Scopes : watchPc[s] # "off" => started[s] # 0

(* A cached key is the handle's, or the Get that put its value will make   *)
(* it so.                                                                  *)
AttachedOrPut ==
    \A k \in Cached : \/ k \in keys[ScopeOf[k]]
                      \/ \E g \in Getters : Put(g, k) /\ getPc[g] # "start"

(* An entry is out of date only if its key is marked, or someone is still  *)
(* to see it: the watch, or the Get that put it.                           *)
StaleIsSeen ==
    \A k \in Keys : Stale(k) =>
        \/ k \in written \/ Behind(k) \/ AboutToApply(k)
        \/ \E g \in Getters : Put(g, k)

FreshInv == SnapshotInv /\ (WatchModeOn => AttachedOrPut /\ StaleIsSeen)

-----------------------------------------------------------------------------
(* The snapshots.                                                          *)

LEMMA InitSnapshot == Init => SnapshotInv
<1> SUFFICES ASSUME Init PROVE SnapshotInv
  OBVIOUS
<1>1. ScopeOf \in [Keys -> Scopes]
  BY ConfigClientAssumption
<1> QED
  BY <1>1 DEF Init, SnapshotInv

(* A step that leaves Consul, the snapshots and the cursors alone and      *)
(* starts no goroutine preserves what is said of them.                     *)
LEMMA QuietSnapshot ==
    ASSUME SnapshotInv, UNCHANGED <<kv, index, waitIndex, pairs, started>>,
           \A s \in Scopes : watchPc'[s] # "off" => watchPc[s] # "off"
    PROVE  SnapshotInv'
BY DEF SnapshotInv, Behind

LEMMA NextSnapshot == TypeOK /\ SnapshotInv /\ [Next]_vars => SnapshotInv'
<1> SUFFICES ASSUME TypeOK, SnapshotInv, [Next]_vars PROVE SnapshotInv'
  OBVIOUS
<1>0. /\ ScopeOf \in [Keys -> Scopes]
      /\ index \in Nat \ {0} /\ client.asks \subseteq Keys
      /\ kv \in [Keys -> Pairs] /\ \A k \in Keys : kv[k].index \in Nat
      /\ pairs \in [Scopes -> [Keys -> Pairs]]
      /\ waitIndex \in [Scopes -> Nat] /\ started \in [Scopes -> Nat]
      /\ getKey \in [Getters -> Keys]
      /\ watchPc \in [Scopes -> {"off", "query", "copy", "apply"}]
  BY ConfigClientAssumption, TypeFacts DEF TypeOK
<1>1. ASSUME NEW g \in Getters,
             \/ \E k \in client.asks : GetMisses(g, k)
             \/ GetFails(g) \/ GetReads(g) \/ GetPuts(g) \/ GetEnsures(g)
             \/ GetAttaches(g)
      PROVE  SnapshotInv'
  <2>1. UNCHANGED <<kv, index, waitIndex, pairs, started, watchPc>>
    BY <1>1 DEF GetMisses, GetFails, GetReads, GetPuts, GetEnsures,
                GetAttaches, consulVars, watchVars
  <2> QED
    BY <2>1, QuietSnapshot
<1>2. ASSUME NEW g \in Getters, GetStartsWatch(g) PROVE SnapshotInv'
  <2> DEFINE s == ScopeOf[getKey[g]]
  <2>1. /\ UNCHANGED <<kv, index, waitIndex, pairs>>
        /\ started' = [started EXCEPT ![s] = @ + 1]
        /\ watchPc' = [watchPc EXCEPT ![s] = "query"]
    BY <1>2 DEF GetStartsWatch, consulVars
  <2>2. \A t \in Scopes : watchPc'[t] # "off" => started'[t] # 0
    BY <1>0, <2>1 DEF SnapshotInv
  <2> QED
    BY <2>1, <2>2 DEF SnapshotInv, Behind
<1>3. ASSUME NEW s \in Scopes, WatchQueries(s) PROVE SnapshotInv'
  <2>1. /\ UNCHANGED <<kv, index, started>>
        /\ waitIndex' = [waitIndex EXCEPT ![s] = LastIndex(s)]
        /\ pairs' = [pairs EXCEPT ![s] = kv]
        /\ watchPc' = [watchPc EXCEPT ![s] = "copy"] /\ watchPc[s] = "query"
    BY <1>3 DEF WatchQueries, consulVars
  <2>2. LastIndex(s) \in 0..index
    BY <1>0, LastIndexFacts DEF SnapshotInv
  <2>3. \A t \in Scopes : waitIndex'[t] <= index'
    BY <1>0, <2>1, <2>2 DEF SnapshotInv
  <2>4. \A k \in Keys : pairs'[ScopeOf[k]][k] = kv'[k] \/ Behind(k)'
    BY <1>0, <2>1 DEF SnapshotInv, Behind
  <2>5. \A t \in Scopes : watchPc'[t] # "off" => started'[t] # 0
    BY <1>0, <2>1 DEF SnapshotInv
  <2> QED
    BY <2>1, <2>3, <2>4, <2>5 DEF SnapshotInv
<1>4. ASSUME NEW s \in Scopes, WatchCopiesKeys(s) \/ WatchApplied(s)
      PROVE  SnapshotInv'
  <2>1. /\ UNCHANGED <<kv, index, waitIndex, pairs, started>>
        /\ \A t \in Scopes : watchPc'[t] # "off" => watchPc[t] # "off"
    BY <1>0, <1>4 DEF WatchCopiesKeys, WatchApplied, consulVars
  <2> QED
    BY <2>1, QuietSnapshot
<1>5. ASSUME NEW s \in Scopes, NEW k \in Keys, WatchApplies(s, k)
      PROVE  SnapshotInv'
  <2>1. UNCHANGED <<kv, index, waitIndex, pairs, started, watchPc>>
    BY <1>5 DEF WatchApplies, consulVars
  <2> QED
    BY <2>1, QuietSnapshot
<1>6. ASSUME NEW k \in Keys, NEW kind \in Kinds, KVChanges(k, kind)
      PROVE  SnapshotInv'
  <2>1. /\ UNCHANGED <<waitIndex, pairs, watchPc, started>>
        /\ index' = index + 1
        /\ kv' = [kv EXCEPT ![k] = [kind |-> kind, index |-> index + 1]]
    BY <1>6 DEF KVChanges, watchVars
  <2>2. \A j \in Keys : kv'[j].index <= index'
    BY <1>0, <2>1 DEF SnapshotInv
  <2>3. \A s \in Scopes : waitIndex'[s] <= index'
    BY <1>0, <2>1 DEF SnapshotInv
  <2>4. \A j \in Keys : pairs'[ScopeOf[j]][j] = kv'[j] \/ Behind(j)'
    <3>1. kv'[k].index = index + 1
      BY <1>0, <2>1
    <3>2. Behind(k)'
      BY <1>0, <2>1, <3>1 DEF SnapshotInv, Behind
    <3>3. \A j \in Keys \ {k} : kv'[j] = kv[j]
      BY <1>0, <2>1
    <3> QED
      BY <2>1, <3>2, <3>3 DEF SnapshotInv, Behind
  <2> QED
    BY <2>1, <2>2, <2>3, <2>4 DEF SnapshotInv
<1>7. CASE Tick \/ UNCHANGED vars
  <2>1. UNCHANGED <<kv, index, waitIndex, pairs, started, watchPc>>
    BY <1>7 DEF Tick, vars, consulVars, watchVars
  <2> QED
    BY <2>1, QuietSnapshot
<1> QED
  BY <1>0, <1>1, <1>2, <1>3, <1>4, <1>5, <1>6, <1>7
     DEF Next, GetStep, WatchStep

-----------------------------------------------------------------------------
(* The cache.                                                              *)

(* A Get that stays where it is remains the one that put k's value, unless *)
(* the entry changes.                                                      *)
Stays(g) == /\ getPc'[g] = getPc[g] /\ getKey'[g] = getKey[g]
            /\ getRaw'[g] = getRaw[g]
LEMMA PutStays ==
    ASSUME NEW g, NEW k, Put(g, k), Stays(g), cache'[k] = cache[k]
    PROVE  Put(g, k)' /\ (getPc[g] # "start" => getPc'[g] # "start")
BY DEF Put, Stays

(* What a step that only drops entries leaves of the others.               *)
Drops == \A k \in Keys : cache'[k] \in {cache[k], 0}
LEMMA Dropped ==
    ASSUME Drops
    PROVE  \A k \in Keys : k \in Cached' => k \in Cached /\ cache'[k] = cache[k]
BY DEF Drops, Cached

(* A step that drops entries at most, and moves no Get that has put a      *)
(* value, preserves AttachedOrPut; StaleIsSeen, too, if it leaves Consul   *)
(* and the watches alone.                                                  *)
LEMMA QuietAttached ==
    ASSUME AttachedOrPut, Drops, UNCHANGED keys,
           \A g \in Getters :
               Stays(g) \/ getPc[g] \notin {"ensure", "start", "attach"}
    PROVE  AttachedOrPut'
<1> SUFFICES ASSUME NEW k \in Cached', k \notin keys[ScopeOf[k]]
             PROVE  \E g \in Getters : Put(g, k)' /\ getPc'[g] # "start"
  BY DEF AttachedOrPut
<1>1. k \in Keys /\ k \in Cached /\ cache'[k] = cache[k]
  BY Dropped DEF Cached
<1>2. PICK g \in Getters : Put(g, k) /\ getPc[g] # "start"
  BY <1>1 DEF AttachedOrPut
<1>3. Stays(g)
  BY <1>2 DEF Put
<1> QED
  BY <1>1, <1>2, <1>3, PutStays

LEMMA QuietStale ==
    ASSUME StaleIsSeen, Drops,
           UNCHANGED <<kv, waitIndex, pairs, watchPc, todo, written>>,
           \A g \in Getters :
               Stays(g) \/ getPc[g] \notin {"ensure", "start", "attach"}
    PROVE  StaleIsSeen'
<1> SUFFICES ASSUME NEW k \in Keys, Stale(k)',
                    k \notin written, ~Behind(k), ~AboutToApply(k)
             PROVE  \E g \in Getters : Put(g, k)'
  BY DEF StaleIsSeen, Behind, AboutToApply
<1>1. Stale(k) /\ cache'[k] = cache[k]
  BY Dropped DEF Stale
<1>2. PICK g \in Getters : Put(g, k)
  BY <1>1 DEF StaleIsSeen
<1>3. Stays(g)
  BY <1>2 DEF Put
<1> QED
  BY <1>1, <1>2, <1>3, PutStays

FreshParts == AttachedOrPut /\ StaleIsSeen
InPut(g) == getPc[g] \in {"ensure", "start", "attach"}

(* A Get that reads, and the steps that are of no Get and no watch.        *)
LEMMA QuietFresh ==
    ASSUME FreshParts, Drops, UNCHANGED <<keys, kv, written, watchVars>>,
           \A g \in Getters : Stays(g) \/ ~InPut(g)
    PROVE  FreshParts'
<1>1. \A g \in Getters : Stays(g) \/ getPc[g] \notin {"ensure", "start", "attach"}
  BY DEF InPut
<1>2. AttachedOrPut'
  BY <1>1, QuietAttached DEF FreshParts
<1>3. StaleIsSeen'
  BY <1>1, QuietStale DEF FreshParts, watchVars
<1> QED
  BY <1>2, <1>3 DEF FreshParts

LEMMA ReadsFresh ==
    ASSUME TypeOK, FreshParts, NEW g \in Getters,
           \/ \E k \in client.asks : GetMisses(g, k)
           \/ GetFails(g) \/ GetReads(g)
    PROVE  FreshParts'
<1>0. /\ cache \in [Keys -> 0..index]
      /\ getPc \in [Getters -> {"idle", "read", "put", "ensure", "start",
                                "attach"}]
      /\ getKey \in [Getters -> Keys] /\ getRaw \in [Getters -> 0..index]
      /\ 0 \in 0..index /\ client.asks \subseteq Keys
  BY TypeFacts DEF TypeOK
<1>1. UNCHANGED <<keys, kv, written, watchVars>>
  BY DEF GetMisses, GetFails, GetReads, consulVars
<1>2. Drops
  <2>1. ASSUME NEW k \in Keys, GetMisses(g, k) PROVE Drops
    BY <1>0, <2>1 DEF GetMisses, DeleteCache, Drops
  <2>2. CASE GetFails(g) \/ GetReads(g)
    BY <2>2 DEF GetFails, GetReads, cacheVars, Drops
  <2> QED
    BY <1>0, <2>1, <2>2
<1>3. ~InPut(g)
  BY DEF GetMisses, GetFails, GetReads, InPut
<1>4. \A h \in Getters \ {g} : Stays(h)
  <2>1. ASSUME NEW k \in Keys, GetMisses(g, k)
        PROVE  \A h \in Getters \ {g} : Stays(h)
    BY <1>0, <2>1 DEF GetMisses, Stays
  <2>2. CASE GetFails(g)
    BY <1>0, <2>2 DEF GetFails, Stays
  <2>3. CASE GetReads(g)
    BY <1>0, <2>3 DEF GetReads, Stays
  <2> QED
    BY <1>0, <2>1, <2>2, <2>3
<1> QED
  BY <1>1, <1>2, <1>3, <1>4, QuietFresh

(* A Get that puts its value is the one to see a write since it read.      *)
LEMMA PutsFresh ==
    ASSUME TypeOK, WatchModeOn, FreshParts, NEW g \in Getters, GetPuts(g)
    PROVE  FreshParts'
<1> DEFINE key == getKey[g]
<1>0. /\ key \in Keys
      /\ getPc \in [Getters -> {"idle", "read", "put", "ensure", "start",
                                "attach"}]
  BY DEF TypeOK
<1>1. /\ PutCache(key, getRaw[g]) /\ getPc[g] = "put"
      /\ getPc' = [getPc EXCEPT ![g] = "ensure"]
      /\ UNCHANGED <<keys, getKey, getRaw, kv, written>>
      /\ UNCHANGED <<waitIndex, pairs, watchPc, todo>>
  BY DEF GetPuts, consulVars, watchVars
<1>2. /\ cache'[key] = getRaw[g]
      /\ \A k \in Keys \ {key} : cache'[k] \in {cache[k], 0}
  BY <1>0, <1>1, PutCacheWrites
<1>3. Put(g, key)' /\ getPc'[g] = "ensure"
  BY <1>0, <1>1, <1>2 DEF Put
<1>4. \A h \in Getters, k \in Keys \ {key} :
         Put(h, k) /\ cache'[k] = cache[k]
           => Put(h, k)' /\ (getPc[h] # "start" => getPc'[h] # "start")
  <2>1. SUFFICES ASSUME NEW h \in Getters, NEW k \in Keys \ {key}, Put(h, k),
                        cache'[k] = cache[k]
                 PROVE  Put(h, k)' /\ (getPc[h] # "start" => getPc'[h] # "start")
    OBVIOUS
  <2>2. Stays(h)
    BY <1>0, <1>1, <2>1 DEF Put, Stays
  <2> QED
    BY <2>1, <2>2, PutStays
<1>5. AttachedOrPut'
  <2> SUFFICES ASSUME NEW k \in Cached', k \notin keys[ScopeOf[k]], k # key
               PROVE  \E h \in Getters : Put(h, k)' /\ getPc'[h] # "start"
    BY <1>1, <1>3 DEF AttachedOrPut
  <2>1. k \in Keys \ {key} /\ k \in Cached /\ cache'[k] = cache[k]
    BY <1>2 DEF Cached
  <2>2. PICK h \in Getters : Put(h, k) /\ getPc[h] # "start"
    BY <2>1 DEF FreshParts, AttachedOrPut
  <2> QED
    BY <1>4, <2>1, <2>2
<1>6. StaleIsSeen'
  <2> SUFFICES ASSUME NEW k \in Keys, Stale(k)', k # key,
                      k \notin written, ~Behind(k), ~AboutToApply(k)
               PROVE  \E h \in Getters : Put(h, k)'
    BY <1>1, <1>3 DEF StaleIsSeen, Behind, AboutToApply
  <2>1. Stale(k) /\ cache'[k] = cache[k]
    BY <1>1, <1>2 DEF Stale, Cached
  <2>2. PICK h \in Getters : Put(h, k)
    BY <2>1 DEF FreshParts, StaleIsSeen
  <2> QED
    BY <1>4, <2>1, <2>2
<1> QED
  BY <1>5, <1>6 DEF FreshParts

(* A Get that looks the handle up still has to see it.                     *)
LEMMA EnsuresFresh ==
    ASSUME TypeOK, HandleInv, FreshParts, NEW g \in Getters, GetEnsures(g)
    PROVE  FreshParts'
<1> DEFINE s == ScopeOf[getKey[g]]
<1>0. /\ getKey[g] \in Keys /\ s \in Scopes
      /\ keys \in [Scopes -> SUBSET Keys] /\ ScopeOf \in [Keys -> Scopes]
      /\ getPc \in [Getters -> {"idle", "read", "put", "ensure", "start",
                                "attach"}]
  BY ConfigClientAssumption DEF TypeOK
<1>1. /\ getPc[g] = "ensure"
      /\ UNCHANGED <<getKey, getRaw, kv, cache, written>>
      /\ UNCHANGED <<waitIndex, pairs, watchPc, todo>>
  BY DEF GetEnsures, consulVars, cacheVars, watchVars
<1>2. \/ getPc' = [getPc EXCEPT ![g] = "attach"] /\ keys' = keys
      \/ /\ getPc' = [getPc EXCEPT ![g] = "start"]
         /\ keys' = [keys EXCEPT ![s] = {getKey[g]}]
         /\ s \notin watchers
  BY DEF GetEnsures
<1>3. \A h \in Getters : \A k : Put(h, k) => Put(h, k)'
  BY <1>0, <1>1, <1>2 DEF Put
<1>4. AttachedOrPut'
  <2> SUFFICES ASSUME NEW k \in Cached', k \notin keys'[ScopeOf[k]]
               PROVE  \E h \in Getters : Put(h, k)' /\ getPc'[h] # "start"
    BY DEF AttachedOrPut
  <2>1. k \in Keys /\ k \in Cached
    BY <1>1 DEF Cached
  <2>2. k \notin keys[ScopeOf[k]]
    <3>1. s \notin watchers => keys[s] = {}
      BY <1>0 DEF HandleInv, UnwatchedIsUnused
    <3> QED
      BY <1>0, <1>2, <2>1, <3>1
  <2>3. PICK h \in Getters : Put(h, k) /\ getPc[h] # "start"
    BY <2>1, <2>2 DEF FreshParts, AttachedOrPut
  <2>4. getPc'[h] # "start"
    <3>1. CASE h # g
      BY <1>0, <1>2, <2>3, <3>1
    <3>2. CASE h = g
      <4>1. getKey[g] = k
        BY <2>3, <3>2 DEF Put
      <4>2. keys' = keys /\ getPc' = [getPc EXCEPT ![g] = "attach"]
        BY <1>0, <1>2, <4>1
      <4> QED
        BY <1>0, <3>2, <4>2
    <3> QED
      BY <3>1, <3>2
  <2> QED
    BY <1>3, <2>3, <2>4
<1>5. StaleIsSeen'
  <2> SUFFICES ASSUME NEW k \in Keys, Stale(k)',
                      k \notin written, ~Behind(k), ~AboutToApply(k)
               PROVE  \E h \in Getters : Put(h, k)'
    BY <1>1 DEF StaleIsSeen, Behind, AboutToApply
  <2>1. Stale(k)
    BY <1>1 DEF Stale, Cached
  <2> QED
    BY <1>3, <2>1 DEF FreshParts, StaleIsSeen
<1> QED
  BY <1>4, <1>5 DEF FreshParts

(* A Get that returns marks its key if it was written since the read; one  *)
(* that attaches leaves the key with the handle.                           *)
LEMMA ReturnsFresh ==
    ASSUME TypeOK, HandleInv, SnapshotInv, FreshParts, NEW g \in Getters,
           GetStartsWatch(g) \/ GetAttaches(g)
    PROVE  FreshParts'
<1> DEFINE s == ScopeOf[getKey[g]]
<1>0. /\ getKey[g] \in Keys /\ s \in Scopes /\ ScopeOf \in [Keys -> Scopes]
      /\ keys \in [Scopes -> SUBSET Keys] /\ started \in [Scopes -> Nat]
      /\ watchPc \in [Scopes -> {"off", "query", "copy", "apply"}]
      /\ getPc \in [Getters -> {"idle", "read", "put", "ensure", "start",
                                "attach"}]
  BY ConfigClientAssumption DEF TypeOK
<1>1. /\ GetReturns(g)
      /\ UNCHANGED <<getKey, getRaw, kv, cache, waitIndex, pairs, todo>>
  BY DEF GetStartsWatch, GetAttaches, consulVars, cacheVars, watchVars
<1>2. /\ \A t \in Scopes : keys[t] \subseteq keys'[t]
      /\ getPc[g] = "attach" => getKey[g] \in keys'[s]
  BY <1>0 DEF GetStartsWatch, GetAttaches
<1>3. \A k \in Keys : AboutToApply(k) => AboutToApply(k)'
  <2>1. CASE GetStartsWatch(g)
    <3>1. g \in Starting(s)
      BY <2>1 DEF GetStartsWatch, Starting
    <3>2. watchPc[s] = "off"
      BY <1>0, <3>1 DEF HandleInv, StartsOnce, SnapshotInv
    <3>3. watchPc' = [watchPc EXCEPT ![s] = "query"]
      BY <2>1 DEF GetStartsWatch
    <3>4. \A k \in Keys : AboutToApply(k) => ScopeOf[k] # s
      BY <3>2 DEF AboutToApply
    <3> QED
      BY <1>0, <1>1, <3>3, <3>4 DEF AboutToApply
  <2>2. CASE GetAttaches(g)
    BY <2>2 DEF GetAttaches, consulVars, watchVars, AboutToApply
  <2> QED
    BY <2>1, <2>2
<1>4. \A h \in Getters \ {g} : Stays(h)
  BY <1>0, <1>1 DEF GetReturns, Stays
<1>5. AttachedOrPut'
  <2> SUFFICES ASSUME NEW k \in Cached', k \notin keys'[ScopeOf[k]]
               PROVE  \E h \in Getters : Put(h, k)' /\ getPc'[h] # "start"
    BY DEF AttachedOrPut
  <2>1. k \in Keys /\ k \in Cached
    BY <1>1 DEF Cached
  <2>2. k \notin keys[ScopeOf[k]]
    BY <1>0, <1>2, <2>1
  <2>3. PICK h \in Getters : Put(h, k) /\ getPc[h] # "start"
    BY <2>1, <2>2 DEF FreshParts, AttachedOrPut
  <2>4. h # g
    <3>1. ASSUME h = g PROVE FALSE
      <4>1. getKey[g] = k /\ getPc[g] # "start"
        BY <2>3, <3>1 DEF Put
      <4>2. getPc[g] = "attach"
        BY <4>1 DEF GetStartsWatch, GetAttaches
      <4> QED
        BY <1>2, <4>1, <4>2
    <3> QED
      BY <3>1
  <2> QED
    BY <1>1, <1>4, <2>3, <2>4, PutStays
<1>6. StaleIsSeen'
  <2> SUFFICES ASSUME NEW k \in Keys, Stale(k)', k \notin written',
                      ~Behind(k)', ~AboutToApply(k)'
               PROVE  \E h \in Getters : Put(h, k)'
    BY DEF StaleIsSeen
  <2>1. Stale(k) /\ ~Behind(k) /\ ~AboutToApply(k)
    BY <1>1, <1>3 DEF Stale, Cached, Behind
  <2>2. k \notin written
    BY <1>1 DEF GetReturns
  <2>3. PICK h \in Getters : Put(h, k)
    BY <2>1, <2>2 DEF FreshParts, StaleIsSeen
  <2>4. h # g
    <3>1. ASSUME h = g PROVE FALSE
      <4>1. getKey[g] = k /\ getRaw[g] = cache[k] /\ cache[k] # kv[k].index
        BY <2>1, <2>3, <3>1 DEF Put, Stale
      <4>2. k \in written'
        BY <1>1, <4>1 DEF GetReturns
      <4> QED
        BY <4>2
    <3> QED
      BY <3>1
  <2> QED
    BY <1>1, <1>4, <2>3, <2>4, PutStays
<1> QED
  BY <1>5, <1>6 DEF FreshParts

(* A watch that applies a key writes its last change, or is behind it.     *)
LEMMA AppliesFresh ==
    ASSUME TypeOK, HandleInv, SnapshotInv, FreshParts, NEW s \in Scopes,
           NEW key \in Keys, WatchApplies(s, key)
    PROVE  FreshParts'
<1>0. /\ todo \in [Scopes -> SUBSET Keys] /\ cache \in [Keys -> 0..index]
      /\ pairs[s][key].kind \in Kinds
  BY DEF TypeOK, Pairs
<1>1. /\ todo' = [todo EXCEPT ![s] = @ \ {key}] /\ written' = written \ {key}
      /\ UNCHANGED <<getPc, getKey, getRaw, kv, keys, waitIndex, pairs, watchPc>>
  BY DEF WatchApplies, consulVars, getVars
<1>2. key \in keys[s] /\ ScopeOf[key] = s
  BY DEF WatchApplies, HandleInv, KeysInScope, KeysOf
<1>3. /\ \A k \in Keys \ {key} : cache'[k] \in {cache[k], 0}
      /\ \/ cache'[key] = 0
         \/ pairs[s][key].kind = "bad"
         \/ cache'[key] = pairs[s][key].index
  <2>1. CASE pairs[s][key].kind = "absent"
    <3>1. DeleteCache(key)
      BY <2>1 DEF WatchApplies
    <3> QED
      BY <1>0, <3>1 DEF DeleteCache
  <2>2. CASE pairs[s][key].kind = "bad"
    <3>1. UNCHANGED cacheVars
      BY <2>2 DEF WatchApplies
    <3> QED
      BY <2>2, <3>1 DEF cacheVars
  <2>3. CASE pairs[s][key].kind = "ok"
    <3>1. PutCache(key, pairs[s][key].index)
      BY <2>3 DEF WatchApplies
    <3> QED
      BY <3>1, PutCacheWrites
  <2> QED
    BY <1>0, <2>1, <2>2, <2>3 DEF Kinds
<1>4. \A h \in Getters : Stays(h)
  BY <1>1 DEF Stays
<1>5. \A k \in Keys \ {key} : k \in Cached' => k \in Cached /\ cache'[k] = cache[k]
  BY <1>3 DEF Cached
<1>6. AttachedOrPut'
  <2> SUFFICES ASSUME NEW k \in Cached', k \notin keys[ScopeOf[k]]
               PROVE  \E h \in Getters : Put(h, k)' /\ getPc'[h] # "start"
    BY <1>1 DEF AttachedOrPut
  <2>1. k \in Keys \ {key}
    BY <1>2 DEF Cached
  <2>2. PICK h \in Getters : Put(h, k) /\ getPc[h] # "start"
    BY <1>5, <2>1 DEF FreshParts, AttachedOrPut
  <2> QED
    BY <1>4, <1>5, <2>1, <2>2, PutStays
<1>7. ASSUME Stale(key)' PROVE Behind(key)'
  <2>1. /\ key \in Cached' /\ kv[key].kind # "bad" /\ cache'[key] # kv[key].index
    BY <1>1, <1>7 DEF Stale
  <2>2. pairs[s][key] # kv[key]
    BY <1>3, <2>1 DEF Cached
  <2> QED
    BY <1>1, <1>2, <2>2 DEF SnapshotInv, Behind
<1>8. StaleIsSeen'
  <2> SUFFICES ASSUME NEW k \in Keys \ {key}, Stale(k)', k \notin written',
                      ~Behind(k)', ~AboutToApply(k)'
               PROVE  \E h \in Getters : Put(h, k)'
    BY <1>7 DEF StaleIsSeen
  <2>1. Stale(k) /\ cache'[k] = cache[k]
    BY <1>1, <1>5 DEF Stale
  <2>2. k \notin written /\ ~Behind(k)
    BY <1>1 DEF Behind
  <2>3. ~AboutToApply(k)
    BY <1>0, <1>1 DEF AboutToApply
  <2>4. PICK h \in Getters : Put(h, k)
    BY <2>1, <2>2, <2>3 DEF FreshParts, StaleIsSeen
  <2> QED
    BY <1>4, <2>1, <2>4, PutStays
<1> QED
  BY <1>6, <1>8 DEF FreshParts

(* A watch that asks, or copies its keys, keeps what it has to apply; one  *)
(* that has applied has nothing left.                                      *)
LEMMA MovesFresh ==
    ASSUME TypeOK, FreshParts, NEW s \in Scopes,
           WatchQueries(s) \/ WatchCopiesKeys(s) \/ WatchApplied(s)
    PROVE  FreshParts'
<1>0. /\ ScopeOf \in [Keys -> Scopes] /\ todo \in [Scopes -> SUBSET Keys]
      /\ pairs \in [Scopes -> [Keys -> Pairs]] /\ waitIndex \in [Scopes -> 0..index]
      /\ watchPc \in [Scopes -> {"off", "query", "copy", "apply"}]
  BY ConfigClientAssumption DEF TypeOK
<1>1. UNCHANGED <<getPc, getKey, getRaw, kv, cache, keys, written>>
  BY DEF WatchQueries, WatchCopiesKeys, WatchApplied, consulVars, cacheVars,
         getVars
<1>2. \A h \in Getters : \A k : Put(h, k) => Put(h, k)'
  BY <1>1 DEF Put
<1>3. AttachedOrPut'
  BY <1>1, <1>2 DEF FreshParts, AttachedOrPut, Cached
<1>4. ASSUME NEW k \in Keys, Stale(k)
      PROVE  (Behind(k) => Behind(k)' \/ AboutToApply(k)')
             /\ (AboutToApply(k)
                   => AboutToApply(k)' \/ \E h \in Getters : Put(h, k))
  <2>1. CASE WatchQueries(s)
    <3>1. /\ waitIndex' = [waitIndex EXCEPT ![s] = LastIndex(s)]
          /\ pairs' = [pairs EXCEPT ![s] = kv] /\ todo' = todo
          /\ watchPc' = [watchPc EXCEPT ![s] = "copy"]
      BY <2>1 DEF WatchQueries
    <3>2. CASE ScopeOf[k] = s
      BY <1>0, <1>1, <3>1, <3>2 DEF AboutToApply
    <3>3. CASE ScopeOf[k] # s
      BY <1>0, <1>1, <3>1, <3>3 DEF AboutToApply, Behind
    <3> QED
      BY <3>2, <3>3
  <2>2. CASE WatchCopiesKeys(s)
    <3>1. /\ todo' = [todo EXCEPT ![s] = keys[s]]
          /\ watchPc' = [watchPc EXCEPT ![s] = "apply"] /\ watchPc[s] = "copy"
          /\ UNCHANGED <<waitIndex, pairs>>
      BY <2>2 DEF WatchCopiesKeys
    <3>2. k \in keys[ScopeOf[k]] \/ \E h \in Getters : Put(h, k)
      BY <1>4 DEF FreshParts, AttachedOrPut, Stale
    <3>3. CASE ScopeOf[k] = s
      BY <1>0, <1>1, <3>1, <3>2, <3>3 DEF AboutToApply, Behind
    <3>4. CASE ScopeOf[k] # s
      BY <1>0, <1>1, <3>1, <3>4 DEF AboutToApply, Behind
    <3> QED
      BY <3>3, <3>4
  <2>3. CASE WatchApplied(s)
    <3>1. /\ watchPc' = [watchPc EXCEPT ![s] = "query"]
          /\ watchPc[s] = "apply" /\ todo[s] = {}
          /\ UNCHANGED <<waitIndex, pairs, todo>>
      BY <2>3 DEF WatchApplied
    <3> QED
      BY <1>0, <1>1, <3>1 DEF AboutToApply, Behind
  <2> QED
    BY <2>1, <2>2, <2>3
<1>5. StaleIsSeen'
  <2> SUFFICES ASSUME NEW k \in Keys, Stale(k)', k \notin written',
                      ~Behind(k)', ~AboutToApply(k)'
               PROVE  \E h \in Getters : Put(h, k)'
    BY DEF StaleIsSeen
  <2>1. Stale(k) /\ k \notin written
    BY <1>1 DEF Stale, Cached
  <2>2. \E h \in Getters : Put(h, k)
    BY <1>4, <2>1 DEF FreshParts, StaleIsSeen
  <2> QED
    BY <1>2, <2>2
<1> QED
  BY <1>3, <1>5 DEF FreshParts

(* After a write the watch is behind.                                      *)
LEMMA WritesFresh ==
    ASSUME TypeOK, SnapshotInv, FreshParts, NEW key \in Keys, NEW kind,
           KVChanges(key, kind)
    PROVE  FreshParts'
<1>1. /\ UNCHANGED <<getPc, getKey, getRaw, cache, keys, written>>
      /\ UNCHANGED <<waitIndex, pairs, watchPc, todo>>
  BY DEF KVChanges, cacheVars, getVars, watchVars
<1>2. \A h \in Getters : \A k : Put(h, k) => Put(h, k)'
  BY <1>1 DEF Put
<1>3. AttachedOrPut'
  BY <1>1, <1>2 DEF FreshParts, AttachedOrPut, Cached
<1>4. Behind(key)' /\ \A k \in Keys \ {key} : kv'[k] = kv[k]
  <2>1. /\ kv' = [kv EXCEPT ![key] = [kind |-> kind, index |-> index + 1]]
        /\ kv \in [Keys -> Pairs] /\ index \in Nat
    BY ConfigClientAssumption DEF KVChanges, TypeOK
  <2>2. ScopeOf[key] \in Scopes /\ waitIndex[ScopeOf[key]] \in Nat
    BY ConfigClientAssumption DEF TypeOK
  <2>3. waitIndex[ScopeOf[key]] <= index
    BY <2>2 DEF SnapshotInv
  <2>4. kv'[key].index = index + 1
    BY <2>1
  <2>5. \A k \in Keys \ {key} : kv'[k] = kv[k]
    BY <2>1
  <2>6. kv'[key].index > waitIndex[ScopeOf[key]]
    BY <2>1, <2>2, <2>3, <2>4
  <2> QED
    BY <1>1, <2>5, <2>6 DEF Behind
<1>5. StaleIsSeen'
  <2> SUFFICES ASSUME NEW k \in Keys \ {key}, Stale(k)', k \notin written,
                      ~Behind(k)', ~AboutToApply(k)'
               PROVE  \E h \in Getters : Put(h, k)'
    BY <1>1, <1>4 DEF StaleIsSeen
  <2>1. Stale(k) /\ ~Behind(k) /\ ~AboutToApply(k)
    BY <1>1, <1>4 DEF Stale, Cached, Behind, AboutToApply
  <2>2. PICK h \in Getters : Put(h, k)
    BY <2>1 DEF FreshParts, StaleIsSeen
  <2> QED
    BY <1>2, <2>2
<1> QED
  BY <1>3, <1>5 DEF FreshParts

-----------------------------------------------------------------------------
(* Initially nothing is cached.                                            *)
LEMMA InitFresh == Init => FreshInv
<1> SUFFICES ASSUME Init PROVE FreshInv
  OBVIOUS
<1>1. Cached = {}
  BY DEF Init, Cached
<1>2. AttachedOrPut /\ StaleIsSeen
  BY <1>1 DEF AttachedOrPut, StaleIsSeen, Stale
<1> QED
  BY <1>2, InitSnapshot DEF FreshInv

(* Every step preserves the invariant.                                     *)
LEMMA NextFresh ==
    ASSUME TypeOK, HandleInv, FreshInv, [Next]_vars
    PROVE  FreshInv'
<1>1. SnapshotInv'
  BY NextSnapshot DEF FreshInv
<1>2. ASSUME WatchModeOn PROVE FreshParts'
  <2>0. SnapshotInv /\ FreshParts
    BY <1>2 DEF FreshInv, FreshParts
  <2>1. ASSUME NEW g \in Getters, GetStep(g) PROVE FreshParts'
    BY <1>2, <2>0, <2>1, ReadsFresh, PutsFresh, EnsuresFresh, ReturnsFresh
       DEF GetStep
  <2>2. ASSUME NEW s \in Scopes, WatchStep(s) PROVE FreshParts'
    BY <2>0, <2>2, MovesFresh, AppliesFresh DEF WatchStep
  <2>3. ASSUME NEW k \in Keys, NEW kind \in Kinds, KVChanges(k, kind)
        PROVE  FreshParts'
    BY <2>0, <2>3, WritesFresh
  <2>4. CASE Tick \/ UNCHANGED vars
    <3>1. UNCHANGED <<keys, kv, written, watchVars>> /\ UNCHANGED cacheVars
          /\ UNCHANGED getVars
      BY <2>4 DEF Tick, vars, consulVars
    <3>2. Drops /\ \A g \in Getters : Stays(g)
      BY <3>1 DEF Drops, Stays, cacheVars, getVars
    <3> QED
      BY <2>0, <3>1, <3>2, QuietFresh
  <2>5. client.asks \subseteq Keys
    BY TypeFacts
  <2> QED
    BY <2>1, <2>2, <2>3, <2>4, <2>5 DEF Next
<1>3. UNCHANGED client
  BY NextClient
<1>4. WatchModeOn' = WatchModeOn
  BY <1>3, ClientKept
<1> QED
  BY <1>1, <1>2, <1>4 DEF FreshInv, FreshParts

(* An idle watch is behind of nothing and has nothing to apply.            *)
LEMMA FreshImplies ==
    TypeOK /\ FreshInv => StaleOnlyIfWrittenDuringGet
<1> SUFFICES ASSUME TypeOK, FreshInv, NEW k \in Keys, WatchModeOn,
                    Idle(ScopeOf[k]), NoGetOf(k), Stale(k)
             PROVE  k \in written
  BY DEF StaleOnlyIfWrittenDuringGet
<1>1. ~Behind(k)
  <2>1. /\ index \in Nat \ {0}
        /\ \A j \in Keys : kv[j].index \in 0..index
    BY TypeFacts DEF TypeOK
  <2>2. /\ LastIndex(ScopeOf[k]) \in 0..index
        /\ LastIndex(ScopeOf[k]) >= kv[k].index
    BY <2>1, LastIndexFacts DEF KeysOf
  <2> QED
    BY <2>1, <2>2 DEF Idle, Behind
<1>2. ~AboutToApply(k)
  BY DEF Idle, AboutToApply
<1>3. \A g \in Getters : ~Put(g, k)
  BY DEF NoGetOf, Put
<1> QED
  BY <1>1, <1>2, <1>3 DEF FreshInv, StaleIsSeen

(* When the watch of a scope is idle, an entry of the scope is out of date *)
(* only if its key was written while a Get of it was under way, whatever   *)
(* is evicted, attached or written by others meanwhile                     *)
(* (client.go:253-315).                                                    *)
THEOREM OnlyRacesLeaveStale == Spec => []StaleOnlyIfWrittenDuringGet
<1>1. Init => HandleTypes /\ CapacityBound /\ HandleInv /\ TypeOK /\ FreshInv
  BY InitCapacity, InitHandles, InitTypes, InitFresh
<1>2. HandleTypes /\ CapacityBound /\ HandleInv /\ TypeOK /\ FreshInv
        /\ [Next]_vars
      => (HandleTypes /\ CapacityBound /\ HandleInv /\ TypeOK /\ FreshInv)'
  BY NextHandleTypes, NextCapacity, NextHandles, NextTypes, NextFresh
<1> QED
  BY <1>1, <1>2, FreshImplies, PTL DEF Spec

-----------------------------------------------------------------------------
(* Eviction.                                                               *)

(* A Get puts a value that it has read.                                    *)
PutsValues == \A g \in Getters : getPc[g] = "put" => getRaw[g] # 0

LEMMA InitPutsValues == Init => PutsValues
BY DEF Init, PutsValues

LEMMA NextPutsValues ==
    ASSUME TypeOK, PutsValues, [Next]_vars
    PROVE  PutsValues'
<1>0. /\ getPc \in [Getters -> {"idle", "read", "put", "ensure", "start",
                                "attach"}]
      /\ getKey \in [Getters -> Keys] /\ getRaw \in [Getters -> 0..index]
      /\ \A k \in Keys : kv[k].index # 0
  BY TypeFacts DEF TypeOK
<1>1. ASSUME NEW g \in Getters, GetStep(g) PROVE PutsValues'
  <2>1. CASE GetReads(g)
    BY <1>0, <2>1 DEF GetReads, PutsValues
  <2>2. ASSUME NEW k \in Keys, GetMisses(g, k) PROVE PutsValues'
    BY <1>0, <2>2 DEF GetMisses, PutsValues
  <2>3. CASE \/ GetFails(g) \/ GetPuts(g) \/ GetEnsures(g)
             \/ GetStartsWatch(g) \/ GetAttaches(g)
    <3>1. getRaw' = getRaw
          /\ \A h \in Getters : getPc'[h] = "put" => getPc[h] = "put"
      BY <1>0, <2>3 DEF GetFails, GetPuts, GetEnsures, GetStartsWatch,
                        GetAttaches, GetReturns
    <3> QED
      BY <3>1 DEF PutsValues
  <2>4. client.asks \subseteq Keys
    BY TypeFacts
  <2> QED
    BY <1>1, <2>1, <2>2, <2>3, <2>4 DEF GetStep
<1>2. CASE \/ \E s \in Scopes : WatchStep(s)
           \/ \E k \in client.asks, kind \in Kinds : KVChanges(k, kind)
           \/ Tick \/ UNCHANGED vars
  <2>1. UNCHANGED getVars
    BY <1>2 DEF WatchStep, WatchQueries, WatchCopiesKeys, WatchApplies,
                WatchApplied, KVChanges, Tick, vars
  <2> QED
    BY <2>1 DEF PutsValues, getVars
<1> QED
  BY <1>1, <1>2 DEF Next

(* putCache makes room for a new key only, and only in a cache that is     *)
(* full of unexpired entries.                                              *)
LEMMA EvictsFreshWhenFull ==
    ASSUME client \in Client, NEW key \in Keys, NEW raw, raw # 0,
           PutCache(key, raw), NEW k \in Fresh, cache'[k] = 0
    PROVE  GivesWayToNewKey
<1>1. PICK kept \in IF key \in Fresh THEN {Fresh} ELSE Overflow(Fresh) :
          Store(key, raw, kept)
  BY DEF PutCache
<1>2. k \in Keys /\ cache[k] # 0
  BY DEF Fresh, Cached
<1>3. kept # Fresh
  BY <1>1, <1>2 DEF Store
<1>4. /\ CacheMaxEntries # 0 /\ ~(Cardinality(Fresh) < CacheMaxEntries)
      /\ key \notin Fresh
  BY <1>1, <1>3 DEF Overflow
<1>5. Cardinality(Fresh) \in Nat /\ CacheMaxEntries \in Nat
  <2>1. IsFiniteSet(Keys) /\ Fresh \in SUBSET Keys
    BY ConfigClientAssumption DEF Fresh, Cached
  <2> QED
    BY <2>1, FS_Subset, FS_CardinalityType, ClientFacts
<1>6. cache'[key] # 0
  BY PutCacheWrites
<1> QED
  BY <1>4, <1>5, <1>6 DEF GivesWayToNewKey

FreshKept == \A k \in Fresh :
                 cache'[k] = 0 => DeletedByWatch(k) \/ GivesWayToNewKey

LEMMA NextKeepsFresh ==
    ASSUME TypeOK, PutsValues, [Next]_vars
    PROVE  FreshKept
<1> SUFFICES ASSUME NEW k \in Fresh, cache'[k] = 0
             PROVE  DeletedByWatch(k) \/ GivesWayToNewKey
  BY DEF FreshKept
<1>0. /\ k \in Keys /\ cache[k] # 0 /\ cache \in [Keys -> 0..index]
      /\ client \in Client /\ client.asks \subseteq Keys
  BY TypeFacts DEF Fresh, Cached, TypeOK
<1>1. ASSUME NEW g \in Getters, NEW j \in Keys, GetMisses(g, j) PROVE FALSE
  BY <1>0, <1>1 DEF GetMisses, DeleteCache
<1>2. ASSUME NEW g \in Getters, GetPuts(g) PROVE GivesWayToNewKey
  <2>1. getKey[g] \in Keys /\ getRaw[g] # 0 /\ PutCache(getKey[g], getRaw[g])
    BY <1>2 DEF GetPuts, PutsValues, TypeOK
  <2> QED
    BY <1>0, <2>1, EvictsFreshWhenFull
<1>3. ASSUME NEW s \in Scopes, NEW j \in Keys, WatchApplies(s, j)
      PROVE  DeletedByWatch(k) \/ GivesWayToNewKey
  <2>1. /\ pairs[s][j].kind \in Kinds /\ pairs[s][j].index # 0
        /\ todo' = [todo EXCEPT ![s] = @ \ {j}] /\ j \in todo[s]
        /\ todo \in [Scopes -> SUBSET Keys]
    BY <1>3, TypeFacts DEF TypeOK, WatchApplies
  <2>2. CASE pairs[s][j].kind = "absent"
    <3>1. DeleteCache(j)
      BY <1>3, <2>2 DEF WatchApplies
    <3>2. k = j
      BY <1>0, <3>1 DEF DeleteCache
    <3>3. k \in todo[s] \ todo'[s]
      BY <2>1, <3>2
    <3> QED
      BY <2>2, <3>2, <3>3 DEF DeletedByWatch
  <2>3. CASE pairs[s][j].kind = "bad"
    <3>1. UNCHANGED cacheVars
      BY <1>3, <2>3 DEF WatchApplies
    <3> QED
      BY <1>0, <3>1 DEF cacheVars
  <2>4. CASE pairs[s][j].kind = "ok"
    <3>1. PutCache(j, pairs[s][j].index)
      BY <1>3, <2>4 DEF WatchApplies
    <3> QED
      BY <1>0, <2>1, <3>1, EvictsFreshWhenFull
  <2> QED
    BY <2>1, <2>2, <2>3, <2>4 DEF Kinds
<1>4. ASSUME NEW g \in Getters, \/ GetFails(g) \/ GetReads(g) \/ GetEnsures(g)
                                \/ GetStartsWatch(g) \/ GetAttaches(g)
      PROVE  FALSE
  <2>1. cache' = cache
    BY <1>4 DEF GetFails, GetReads, GetEnsures, GetStartsWatch, GetAttaches,
                cacheVars
  <2> QED
    BY <1>0, <2>1
<1>5. ASSUME \/ \E s \in Scopes : \/ WatchQueries(s) \/ WatchCopiesKeys(s)
                                  \/ WatchApplied(s)
             \/ \E j \in client.asks, kind \in Kinds : KVChanges(j, kind)
             \/ Tick \/ UNCHANGED vars
      PROVE  FALSE
  <2>1. cache' = cache
    BY <1>5 DEF WatchQueries, WatchCopiesKeys, WatchApplied, KVChanges, Tick,
                vars, cacheVars
  <2> QED
    BY <1>0, <2>1
<1> QED
  BY <1>0, <1>1, <1>2, <1>3, <1>4, <1>5 DEF Next, GetStep, WatchStep

(* An entry that has not expired leaves the cache only with its key, or    *)
(* gives way to a new key in a cache full of such entries: expired ones go *)
(* first, and an update evicts nothing (client.go:164-169).                *)
THEOREM ExpiredGoFirst == Spec => FreshEvictedOnlyWhenFull
<1>1. TypeOK /\ PutsValues /\ [Next]_vars => TypeOK' /\ PutsValues'
  BY NextTypes, NextPutsValues
<1>2. TypeOK /\ PutsValues /\ [Next]_vars => [FreshKept]_vars
  BY NextKeepsFresh
<1>3. [][FreshKept]_vars => FreshEvictedOnlyWhenFull
  BY PTL DEF FreshEvictedOnlyWhenFull, FreshKept
<1> QED
  BY InitTypes, InitPutsValues, <1>1, <1>2, <1>3, PTL DEF Spec
=============================================================================
