---------------------------- MODULE ConfigClient ----------------------------
(***************************************************************************)
(* config.ClientInstance: concurrent Gets that fill a bounded cache, and   *)
(* one background watch per scope that refreshes it                        *)
(* (src/config/client.go).  Consul's KV store is not in the repository: it *)
(* is modelled as the value of each key with the index of its last change. *)
(* A configuration value is identified with the index at which it was      *)
(* written; two writes of equal values are thus told apart.                *)
(*                                                                         *)
(* Each cacheMu or stateMu section is one action, each remote read too.    *)
(*                                                                         *)
(* Def_What, before Def, is Def with a plausible bug; nothing uses it.     *)
(***************************************************************************)
EXTENDS Naturals, FiniteSets, FiniteSetsExt

CONSTANTS
    Keys,             \* valid keys (one cache key, one path each)
    Getters,          \* goroutines that call Get
    Scopes,           \* watch scopes
    ScopeOf,          \* buildConsulClientScope: the scope of each key
    Clients,          \* how the client may be configured and used (Client)
    CacheTTL,         \* options.CacheTTL, in ticks
    MaxTime           \* bound: the last tick of the clock

Client == [watch : BOOLEAN,         \* options.WatchMode = On?
           capacity : Nat,          \* options.CacheMaxEntries, 0: no limit
           asks : SUBSET Keys,      \* bound: the keys read and written
           writes : Nat]            \* bound: how many times they are written

ASSUME ConfigClientAssumption ==
    /\ IsFiniteSet(Keys) /\ Keys # {}
    /\ ScopeOf \in [Keys -> Scopes]
    /\ Clients \subseteq Client
    /\ CacheTTL \in Nat \ {0}
    /\ MaxTime \in Nat

VARIABLES
    client,    \* the client's options, and the keys in use
    kv,        \* Consul: what each key holds, and since which index
    index,     \* Consul: the index of the last change
    now,       \* the clock
    cache,     \* ClientInstance.cache: index of the cached value, 0: none
    expiresAt, \* clientCacheEntry.expiresAt, 0: the zero time
    watchers,  \* ClientInstance.watchers: the scopes that have a handle
    keys,      \* clientWatchHandle.keys of each scope
    getPc,     \* where each Get is
    getKey,    \* its key
    getRaw,    \* the value it has read, by index
    watchPc,   \* where the goroutine of each scope's watch is
    started,   \* history: goroutines started for each scope
    waitIndex, \* its waitIndex
    pairs,     \* the snapshot it has received
    todo,      \* the keys applyConsulSnapshot has still to look at
    written    \* history: keys written between a Get's read and its end,
               \* with no snapshot applied to them since

consulVars == <<kv, index>>
cacheVars  == <<cache, expiresAt>>
getVars    == <<getPc, getKey, getRaw>>
watchVars  == <<watchPc, started, waitIndex, pairs, todo>>
vars == <<client, consulVars, now, cacheVars, watchers, keys, getVars,
          watchVars, written>>

Kinds == {"ok", "bad", "absent"}
Pairs == [kind : Kinds, index : 1..index]
WatchModeOn == client.watch
CacheMaxEntries == client.capacity
Cached == {k \in Keys : cache[k] # 0}
KeysOf(scope) == {k \in Keys : ScopeOf[k] = scope}

(* Type invariant: in particular no cursor is ahead of Consul's index, and *)
(* no snapshot, no read value and no cache entry is of a later index than  *)
(* Consul has reached (client.go:94-106, 271-276).                         *)
TypeOK ==
    /\ client \in Client
    /\ kv \in [Keys -> Pairs]
    /\ index \in 1..client.writes + 1
    /\ now \in 0..MaxTime
    /\ cache \in [Keys -> 0..index]
    /\ expiresAt \in [Keys -> Nat]
    /\ watchers \subseteq Scopes
    /\ keys \in [Scopes -> SUBSET Keys]
    /\ getPc \in [Getters -> {"idle", "read", "put", "ensure", "start",
                              "attach"}]
    /\ getKey \in [Getters -> Keys]
    /\ getRaw \in [Getters -> 0..index]
    /\ watchPc \in [Scopes -> {"off", "query", "copy", "apply"}]
    /\ started \in [Scopes -> Nat]
    /\ waitIndex \in [Scopes -> 0..index]
    /\ pairs \in [Scopes -> [Keys -> Pairs]]
    /\ todo \in [Scopes -> SUBSET Keys]
    /\ written \subseteq Keys

Init ==
    /\ client \in Clients
    /\ kv \in [Keys -> [kind : {"ok", "absent"}, index : {1}]]
    /\ \A k \in Keys \ client.asks : kv[k].kind = "absent"
    /\ index = 1 /\ now = 0
    /\ cache = [k \in Keys |-> 0] /\ expiresAt = [k \in Keys |-> 0]
    /\ watchers = {} /\ keys = [s \in Scopes |-> {}]
    /\ getPc = [g \in Getters |-> "idle"]
    /\ getKey = [g \in Getters |-> CHOOSE k \in Keys : TRUE]
    /\ getRaw = [g \in Getters |-> 0]
    /\ watchPc = [s \in Scopes |-> "off"]
    /\ started = [s \in Scopes |-> 0]
    /\ waitIndex = [s \in Scopes |-> 0]
    /\ pairs = [s \in Scopes |-> kv]
    /\ todo = [s \in Scopes |-> {}]
    /\ written = {}

-----------------------------------------------------------------------------
(* The cache operations, each under cacheMu.                               *)

Expired(k) == expiresAt[k] # 0 /\ now > expiresAt[k]
Fresh == {k \in Cached : ~Expired(k)}

(* The entries in kept stay, and key gets the value raw.                   *)
Store(key, raw, kept) ==
    /\ cache' = [k \in Keys |-> IF k = key THEN raw
                                ELSE IF k \in kept THEN cache[k] ELSE 0]
    /\ expiresAt' =
        [k \in Keys |->
            IF k = key THEN IF WatchModeOn THEN 0 ELSE now + CacheTTL
            ELSE IF k \in kept THEN expiresAt[k] ELSE 0]

(* evictOverflowLocked: one arbitrary entry goes when the cache is full.   *)
Overflow(entries) ==
    IF CacheMaxEntries = 0 \/ Cardinality(entries) < CacheMaxEntries
    THEN {entries}
    ELSE {entries \ {victim} : victim \in entries}

(* putCache: expired entries go first, then room is made for a new key.    *)
PutCache_OverflowFirst(key, raw) ==
    \E kept \in IF key \in Cached THEN {Cached} ELSE Overflow(Cached) :
        Store(key, raw, kept \cap Fresh)
PutCache_OffByOne(key, raw) ==
    \E kept \in IF key \in Fresh \/ Cardinality(Fresh) <= CacheMaxEntries
                THEN {Fresh} ELSE Overflow(Fresh) :
        Store(key, raw, kept)
PutCache_EvictsOnUpdate(key, raw) ==
    \E kept \in Overflow(Fresh) : Store(key, raw, kept)
PutCache(key, raw) ==
    \E kept \in IF key \in Fresh THEN {Fresh} ELSE Overflow(Fresh) :
        Store(key, raw, kept)

(* deleteCacheByPath, and the delete in getCache.                          *)
DeleteCache(key) ==
    /\ cache' = [cache EXCEPT ![key] = 0]
    /\ expiresAt' = [expiresAt EXCEPT ![key] = 0]

-----------------------------------------------------------------------------
(* Get.  A hit, an invalid key and a failed remote read leave everything   *)
(* as it was, except for the entry that getCache finds expired.            *)

GetMisses(g, k) ==
    /\ getPc[g] = "idle"
    /\ k \notin Fresh
    /\ DeleteCache(k)
    /\ getPc' = [getPc EXCEPT ![g] = "read"]
    /\ getKey' = [getKey EXCEPT ![g] = k]
    /\ getRaw' = [getRaw EXCEPT ![g] = 0]
    /\ UNCHANGED <<client, consulVars, now, watchers, keys, watchVars,
                   written>>

(* Store.Get: a missing or undecodable value and a timeout are errors.     *)
GetFails(g) ==
    /\ getPc[g] = "read"
    /\ getPc' = [getPc EXCEPT ![g] = "idle"]
    /\ UNCHANGED <<client, consulVars, now, cacheVars, watchers, keys,
                   getKey, getRaw, watchVars, written>>

GetReads(g) ==
    /\ getPc[g] = "read"
    /\ kv[getKey[g]].kind = "ok"
    /\ getRaw' = [getRaw EXCEPT ![g] = kv[getKey[g]].index]
    /\ getPc' = [getPc EXCEPT ![g] = "put"]
    /\ UNCHANGED <<client, consulVars, now, cacheVars, watchers, keys,
                   getKey, watchVars, written>>

GetPuts_WatchedScopeIsEnough(g) ==
    /\ getPc[g] = "put"
    /\ PutCache(getKey[g], getRaw[g])
    /\ getPc' = [getPc EXCEPT
                    ![g] = IF WatchModeOn /\ ScopeOf[getKey[g]] \notin watchers
                           THEN "ensure" ELSE "idle"]
    /\ UNCHANGED <<client, consulVars, now, watchers, keys, getKey, getRaw,
                   watchVars, written>>
GetPuts(g) ==
    /\ getPc[g] = "put"
    /\ PutCache(getKey[g], getRaw[g])
    /\ getPc' = [getPc EXCEPT ![g] = IF WatchModeOn THEN "ensure" ELSE "idle"]
    /\ UNCHANGED <<client, consulVars, now, watchers, keys, getKey, getRaw,
                   watchVars, written>>

(* ensureWatch, the cacheMu section: look the handle up, or create it with *)
(* this key in it.                                                         *)
GetEnsures_NeverFindsHandle(g) ==
    LET k == getKey[g] IN
    LET s == ScopeOf[k] IN
    /\ getPc[g] = "ensure"
    /\ watchers' = watchers \cup {s}
    /\ keys' = [keys EXCEPT ![s] = {k}]
    /\ getPc' = [getPc EXCEPT ![g] = "start"]
    /\ UNCHANGED <<client, consulVars, now, cacheVars, getKey, getRaw,
                   watchVars, written>>
GetEnsures_NeverStarts(g) ==
    LET k == getKey[g] IN
    LET s == ScopeOf[k] IN
    /\ getPc[g] = "ensure"
    /\ watchers' = watchers \cup {s}
    /\ getPc' = [getPc EXCEPT ![g] = "attach"]
    /\ UNCHANGED <<client, consulVars, now, cacheVars, keys, getKey,
                   getRaw, watchVars, written>>
GetEnsures(g) ==
    LET k == getKey[g] IN
    LET s == ScopeOf[k] IN
    /\ getPc[g] = "ensure"
    /\ IF s \in watchers
       THEN /\ getPc' = [getPc EXCEPT ![g] = "attach"]
            /\ UNCHANGED <<watchers, keys>>
       ELSE /\ getPc' = [getPc EXCEPT ![g] = "start"]
            /\ watchers' = watchers \cup {s}
            /\ keys' = [keys EXCEPT ![s] = {k}]
    /\ UNCHANGED <<client, consulVars, now, cacheVars, getKey, getRaw,
                   watchVars, written>>

(* Get returns what it has read: was the key written since?                *)
GetReturns(g) ==
    /\ getPc' = [getPc EXCEPT ![g] = "idle"]
    /\ written' = IF kv[getKey[g]].index # getRaw[g]
                  THEN written \cup {getKey[g]} ELSE written

GetStartsWatch(g) ==
    LET s == ScopeOf[getKey[g]] IN
    /\ getPc[g] = "start"
    /\ GetReturns(g)
    /\ started' = [started EXCEPT ![s] = @ + 1]
    /\ watchPc' = [watchPc EXCEPT ![s] = "query"]
    /\ UNCHANGED <<client, consulVars, now, cacheVars, watchers, keys,
                   getKey, getRaw, waitIndex, pairs, todo>>

GetAttaches(g) ==
    LET s == ScopeOf[getKey[g]] IN
    /\ getPc[g] = "attach"
    /\ GetReturns(g)
    /\ keys' = [keys EXCEPT ![s] = @ \cup {getKey[g]}]
    /\ UNCHANGED <<client, consulVars, now, cacheVars, watchers, getKey,
                   getRaw, watchVars>>

GetStep(g) ==
    \/ \E k \in client.asks : GetMisses(g, k)
    \/ GetFails(g) \/ GetReads(g) \/ GetPuts(g) \/ GetEnsures(g)
    \/ GetStartsWatch(g) \/ GetAttaches(g)

-----------------------------------------------------------------------------
(* The goroutine of startWatch.                                            *)

(* The LastIndex that Consul returns for the scope's prefix.               *)
LastIndex(scope) == Max({1} \cup {kv[k].index : k \in KeysOf(scope)})

(* The blocking query has something newer.  An error, or an answer without *)
(* progress, only makes the loop query again.                              *)
WatchQueries_SkipsAhead(s) ==
    /\ watchPc[s] = "query"
    /\ LastIndex(s) > waitIndex[s]
    /\ waitIndex' = [waitIndex EXCEPT ![s] = LastIndex(s) + 1]
    /\ pairs' = [pairs EXCEPT ![s] = kv]
    /\ watchPc' = [watchPc EXCEPT ![s] = "copy"]
    /\ UNCHANGED <<client, consulVars, now, cacheVars, watchers, keys,
                   getVars, started, todo, written>>
WatchQueries(s) ==
    /\ watchPc[s] = "query"
    /\ LastIndex(s) > waitIndex[s]
    /\ waitIndex' = [waitIndex EXCEPT ![s] = LastIndex(s)]
    /\ pairs' = [pairs EXCEPT ![s] = kv]
    /\ watchPc' = [watchPc EXCEPT ![s] = "copy"]
    /\ UNCHANGED <<client, consulVars, now, cacheVars, watchers, keys,
                   getVars, started, todo, written>>

(* applyConsulSnapshot copies handle.keys under stateMu ...                *)
WatchCopiesKeys(s) ==
    /\ watchPc[s] = "copy"
    /\ todo' = [todo EXCEPT ![s] = keys[s]]
    /\ watchPc' = [watchPc EXCEPT ![s] = "apply"]
    /\ UNCHANGED <<client, consulVars, now, cacheVars, watchers, keys,
                   getVars, started, waitIndex, pairs, written>>

(* ... and refreshes them one by one, in the order of a map: a missing     *)
(* value is dropped, an undecodable one skipped.                           *)
WatchApplies_KeepsDeleted(s, k) ==
    /\ watchPc[s] = "apply" /\ k \in todo[s]
    /\ CASE pairs[s][k].kind \in {"absent", "bad"} -> UNCHANGED cacheVars
         [] pairs[s][k].kind = "ok" -> PutCache(k, pairs[s][k].index)
    /\ todo' = [todo EXCEPT ![s] = @ \ {k}]
    /\ written' = written \ {k}
    /\ UNCHANGED <<client, consulVars, now, watchers, keys, getVars,
                   watchPc, started, waitIndex, pairs>>
WatchApplies(s, k) ==
    /\ watchPc[s] = "apply" /\ k \in todo[s]
    /\ CASE pairs[s][k].kind = "absent" -> DeleteCache(k)
         [] pairs[s][k].kind = "bad" -> UNCHANGED cacheVars
         [] pairs[s][k].kind = "ok" -> PutCache(k, pairs[s][k].index)
    /\ todo' = [todo EXCEPT ![s] = @ \ {k}]
    /\ written' = written \ {k}
    /\ UNCHANGED <<client, consulVars, now, watchers, keys, getVars,
                   watchPc, started, waitIndex, pairs>>

WatchApplied(s) ==
    /\ watchPc[s] = "apply" /\ todo[s] = {}
    /\ watchPc' = [watchPc EXCEPT ![s] = "query"]
    /\ UNCHANGED <<client, consulVars, now, cacheVars, watchers, keys,
                   getVars, started, waitIndex, pairs, todo, written>>

WatchStep(s) ==
    \/ WatchQueries(s) \/ WatchCopiesKeys(s)
    \/ \E k \in Keys : WatchApplies(s, k)
    \/ WatchApplied(s)

-----------------------------------------------------------------------------
(* Consul and the clock.                                                   *)

(* Someone writes a value (one that decodes or one that does not), deletes *)
(* the key or empties it, which the code treats alike.                     *)
KVChanges(k, kind) ==
    /\ index <= client.writes
    /\ kind = "absent" => kv[k].kind # "absent"
    /\ index' = index + 1
    /\ kv' = [kv EXCEPT ![k] = [kind |-> kind, index |-> index + 1]]
    /\ UNCHANGED <<client, now, cacheVars, watchers, keys, getVars,
                   watchVars, written>>

Tick ==
    /\ ~WatchModeOn
    /\ now < MaxTime /\ now' = now + 1
    /\ UNCHANGED <<client, consulVars, cacheVars, watchers, keys, getVars,
                   watchVars, written>>

Next ==
    \/ \E g \in Getters : GetStep(g)
    \/ \E s \in Scopes : WatchStep(s)
    \/ \E k \in client.asks, kind \in Kinds : KVChanges(k, kind)
    \/ Tick

Spec == Init /\ [][Next]_vars

(* A Get that has begun ends, and a watch goroutine goes on.  Nobody is    *)
(* obliged to call Get or to write.                                        *)
Fairness ==
    /\ \A g \in Getters :
        WF_vars(\/ GetFails(g) \/ GetReads(g) \/ GetPuts(g) \/ GetEnsures(g)
                \/ GetStartsWatch(g) \/ GetAttaches(g))
    /\ \A s \in Scopes : WF_vars(WatchStep(s))

FairSpec == Spec /\ Fairness

-----------------------------------------------------------------------------
(* The cache never holds more than CacheMaxEntries entries, although two   *)
(* kinds of goroutine fill it and the watch re-adds evicted keys           *)
(* (client.go:164-202).                                                    *)
CapacityBound ==
    CacheMaxEntries # 0 => Cardinality(Cached) <= CacheMaxEntries

(* A scope has one watch goroutine at most, however many Gets race to      *)
(* start it (client.go:210-221, README "只起 1 个协程").                   *)
OneWatchPerScope == \A s \in Scopes : started[s] <= 1

(* With the watch on, a cached key is registered with the handle of its    *)
(* scope, or the Get that cached it (another Get of that key included) is  *)
(* still to do so: no entry is left without expiry and without a watch     *)
(* (client.go:33,100-105).                                                 *)
CachedIsWatched ==
    WatchModeOn => \A k \in Cached :
        \/ k \in keys[ScopeOf[k]]
        \/ \E g \in Getters : getKey[g] = k /\ getPc[g] \in {"ensure", "attach"}

(* A handle without a goroutine has a Get that is about to start it.       *)
WatchersRun ==
    \A s \in watchers :
        \/ started[s] > 0
        \/ \E g \in Getters : ScopeOf[getKey[g]] = s /\ getPc[g] = "start"

(* Why the three hold, as one invariant that every step preserves: the     *)
(* scopes without a handle have nothing, of the Gets of a scope one alone  *)
(* is about to start its goroutine and none has before it, and the watch   *)
(* refreshes only keys of its scope that the handle holds                  *)
(* (client.go:205-234,292-315).                                            *)
Starting(s) == {g \in Getters : getPc[g] = "start" /\ ScopeOf[getKey[g]] = s}
UnwatchedIsUnused ==
    \A s \in Scopes \ watchers :
        started[s] = 0 /\ keys[s] = {} /\ Starting(s) = {}
StartsOnce ==
    \A s \in Scopes : \A g, h \in Starting(s) : g = h /\ started[s] = 0
AttachesToHandle ==
    \A g \in Getters :
        getPc[g] = "attach" => ScopeOf[getKey[g]] \in watchers
KeysInScope ==
    \A s \in Scopes : todo[s] \subseteq keys[s] /\ keys[s] \subseteq KeysOf(s)
HandleInv ==
    /\ UnwatchedIsUnused /\ StartsOnce /\ AttachesToHandle /\ KeysInScope
    /\ OneWatchPerScope /\ WatchersRun /\ CachedIsWatched

Idle(s) == watchPc[s] = "query" /\ LastIndex(s) = waitIndex[s]
NoGetOf(k) == \A g \in Getters : getPc[g] = "idle" \/ getKey[g] # k

(* Is what the cache holds for k out of date?  A value that does not       *)
(* decode is skipped by design and is no yardstick.                        *)
Stale(k) == k \in Cached /\ kv[k].kind # "bad" /\ cache[k] # kv[k].index

(* When the watch is idle, an entry is out of date only if its key was     *)
(* written while a Get of it was under way: a change outside every Get     *)
(* always reaches the cache (client.go:253-315).                           *)
StaleOnlyIfWrittenDuringGet ==
    \A k \in Keys :
        WatchModeOn /\ Idle(ScopeOf[k]) /\ NoGetOf(k) /\ Stale(k)
            => k \in written

(* What the comment of expiresAt says (client.go:33): an entry without     *)
(* expiry is continuously refreshed by the watch, so it is up to date when *)
(* the watch is idle.                                                      *)
WatchedIsFresh ==
    \A k \in Keys : WatchModeOn /\ Idle(ScopeOf[k]) /\ NoGetOf(k) => ~Stale(k)

(* When the writes are over, every watched entry that no Get has raced     *)
(* with becomes and stays up to date: a snapshot is never lost, whatever   *)
(* was attached, evicted or deleted meanwhile.                             *)
Converges ==
    \A k \in Keys : <>[](WatchModeOn => (Stale(k) => k \in written))

(* An entry that has not expired leaves the cache for two reasons only: a  *)
(* watch applies a snapshot without its key, or it gives way to a key that *)
(* is new, in a cache filled by unexpired entries alone.  Neither a Get    *)
(* nor a watch that updates a key evicts another (client.go:164-169).      *)
DeletedByWatch(k) ==
    \E s \in Scopes : k \in todo[s] \ todo'[s] /\ pairs[s][k].kind = "absent"
GivesWayToNewKey ==
    /\ CacheMaxEntries # 0 /\ Cardinality(Fresh) >= CacheMaxEntries
    /\ \E j \in Keys \ Fresh : cache'[j] # 0
FreshEvictedOnlyWhenFull ==
    [][\A k \in Fresh :
          cache'[k] = 0 => DeletedByWatch(k) \/ GivesWayToNewKey]_vars
=============================================================================
