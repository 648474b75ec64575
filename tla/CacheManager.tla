---------------------------- MODULE CacheManager ----------------------------
(***************************************************************************)
(* CacheManager: an in-memory map with expiry, a bound on its size and a   *)
(* read-through getOrSet(), whose factory is awaited between the lookup    *)
(* and the store.  Everything else is synchronous.                         *)
(*                                                                         *)
(* Instants are kept relative to now: an entry's `left` is expiresAt - now *)
(* (0 is still served, -1 is over), its `age` is now - createdAt, up to    *)
(* OldAge.  A value is stale if it was asked for before the last set(),    *)
(* delete(), clear() or destroy() that concerned its key.                  *)
(*                                                                         *)
(* Abstracted: values, hit counts and statistics.  mset() is a sequence of *)
(* set().                                                                  *)
(***************************************************************************)
EXTENDS Integers, FiniteSets

CONSTANTS
  Keys,
  EmptyKey,     \* the empty string, a key or not
  Loaders,      \* callers of getOrSet()
  MaxEntries,   \* CACHE_MAX_ENTRIES
  DefaultTtl,   \* CACHE_DEFAULT_TTL, in ticks; 0 for none
  Ttls,         \* values of ttlMs; 0 also stands for undefined
  OldAge        \* bound: ages stop here

ASSUME CacheAssumption ==
  /\ MaxEntries \in Nat \ {0}
  /\ DefaultTtl \in Nat
  /\ Ttls \subseteq Nat
  /\ OldAge \in Nat \ {0}

VARIABLES
  cacheOn,   \* the flag that initialize() reads
  cache,     \* the entries, by key
  loaders    \* what each caller of getOrSet() awaits

cacheVars == <<cacheOn, cache, loaders>>

Forever == -2
Expired(k) == cache[k].left = -1
Cached(k) == k \in DOMAIN cache
Size == Cardinality(DOMAIN cache)
Without(c, ks) == [k \in DOMAIN c \ ks |-> c[k]]

Resting == [key |-> {}, ttl |-> 0, overtaken |-> FALSE]
Loading(l) == loaders[l].key # {}

\* What a set(), delete(), clear() or destroy() of ks does to the values that
\* factories are computing.
Overtake(ks) ==
  loaders' = [l \in Loaders |-> IF loaders[l].key \cap ks = {} THEN loaders[l]
                ELSE [loaders[l] EXCEPT !.overtaken = TRUE]]

CacheInit ==
  /\ cacheOn = FALSE
  /\ cache = <<>>
  /\ loaders = [l \in Loaders |-> Resting]

-----------------------------------------------------------------------------
\* initialize(); with the flag set, it starts the clean-up timer for good.
InitializeCache ==
  /\ ~cacheOn
  /\ cacheOn' = TRUE
  /\ UNCHANGED <<cache, loaders>>

\* Mutant of Lifetime: ttlMs ?? this.defaultTtl
LifetimeNullish(ttl) == IF ttl = 0 THEN Forever ELSE ttl

\* ttlMs || this.defaultTtl, and no expiry if both are 0.
Lifetime(ttl) ==
  IF ttl # 0 THEN ttl ELSE IF DefaultTtl # 0 THEN DefaultTtl ELSE Forever

\* evictOldest(): the oldest entry, but only one that is older than now; of
\* several created in one millisecond, any.  The empty string stands for "none
\* found", so the entry with that key is found and stays.
Evicted ==
  LET old == {k \in DOMAIN cache : cache[k].age > 0}
      oldest == {k \in old : \A o \in old : cache[o].age <= cache[k].age}
  IN IF old = {} THEN {cache} ELSE {Without(cache, {k} \ {EmptyKey}) : k \in oldest}

\* Mutant of Room: the bound is checked after the fact.
RoomTooLate(k) == IF Size > MaxEntries /\ ~Cached(k) THEN Evicted ELSE {cache}

\* set() makes room for a new key.
Room(k) == IF Size >= MaxEntries /\ ~Cached(k) THEN Evicted ELSE {cache}

Store(k, ttl, stale) ==
  \E c \in Room(k) :
    cache' = [x \in DOMAIN c \cup {k} |->
      IF x = k THEN [left |-> Lifetime(ttl), age |-> 0, stale |-> stale] ELSE c[x]]

Set(k, ttl) ==
  /\ cacheOn
  /\ Store(k, ttl, FALSE)
  /\ Overtake({k})
  /\ UNCHANGED cacheOn

\* get() and has() drop the entry they find expired; otherwise they read.
Drop(k) ==
  /\ cacheOn
  /\ Cached(k) /\ Expired(k)
  /\ cache' = Without(cache, {k})
  /\ UNCHANGED <<cacheOn, loaders>>

\* delete()
Delete(k) ==
  /\ cacheOn
  /\ Cached(k)
  /\ cache' = Without(cache, {k})
  /\ Overtake({k})
  /\ UNCHANGED cacheOn

\* mget(): get() for each key.
Mget(ks) ==
  /\ cacheOn
  /\ \E k \in ks : Cached(k) /\ Expired(k)
  /\ cache' = Without(cache, {k \in ks : Cached(k) /\ Expired(k)})
  /\ UNCHANGED <<cacheOn, loaders>>

\* mdelete(): delete() for each key.
Mdelete(ks) ==
  /\ cacheOn
  /\ cache' = Without(cache, ks)
  /\ Overtake(ks)
  /\ UNCHANGED cacheOn

\* clear() if enabled, and destroy(), which leaves the flag and the timer.
Clear ==
  /\ cacheOn
  /\ cache' = <<>>
  /\ Overtake(Keys)
  /\ UNCHANGED cacheOn

\* getOrSet() up to the await: a miss, or an expired entry, which get() drops.
Miss(l, k, ttl) ==
  /\ ~Loading(l)
  /\ Cached(k) => Expired(k)
  /\ cache' = Without(cache, {k})
  /\ loaders' = [loaders EXCEPT
       ![l] = [key |-> {k}, ttl |-> ttl, overtaken |-> FALSE]]
  /\ UNCHANGED cacheOn

\* The factory's promise settles: set() if it resolves and the cache is on.
Loaded(l) ==
  /\ Loading(l)
  /\ \A k \in loaders[l].key :
       IF cacheOn THEN Store(k, loaders[l].ttl, loaders[l].overtaken)
                  ELSE UNCHANGED cache
  /\ loaders' = [loaders EXCEPT ![l] = Resting]
  /\ UNCHANGED cacheOn

LoadFails(l) ==
  /\ Loading(l)
  /\ loaders' = [loaders EXCEPT ![l] = Resting]
  /\ UNCHANGED <<cacheOn, cache>>

\* expire()
Expire(k, ttl) ==
  /\ Cached(k)
  /\ cache' = [cache EXCEPT ![k].left = ttl]
  /\ UNCHANGED <<cacheOn, loaders>>

\* cleanupExpired(), every minute.
Cleanup ==
  /\ cacheOn
  /\ cache' = Without(cache, {k \in DOMAIN cache : Expired(k)})
  /\ UNCHANGED <<cacheOn, loaders>>

\* A millisecond passes.
CacheTick ==
  /\ cache' = [k \in DOMAIN cache |->
       [cache[k] EXCEPT !.age = IF @ < OldAge THEN @ + 1 ELSE @,
                        !.left = IF @ >= 0 THEN @ - 1 ELSE @]]
  /\ UNCHANGED <<cacheOn, loaders>>

CacheNext ==
  \/ InitializeCache \/ Clear \/ Cleanup \/ CacheTick
  \/ \E k \in Keys :
       \/ Drop(k) \/ Delete(k)
       \/ \E ttl \in Ttls : Set(k, ttl) \/ Expire(k, ttl)
       \/ \E l \in Loaders, ttl \in Ttls : Miss(l, k, ttl)
  \/ \E ks \in SUBSET Keys : Mget(ks) \/ Mdelete(ks)
  \/ \E l \in Loaders : Loaded(l) \/ LoadFails(l)

CacheSpec == CacheInit /\ [][CacheNext]_cacheVars

-----------------------------------------------------------------------------
(* Properties.                                                             *)

\* Every variable keeps its type.
CacheTypeOK ==
  /\ cacheOn \in BOOLEAN
  /\ DOMAIN cache \subseteq Keys
  /\ \A k \in DOMAIN cache :
       cache[k] \in [left : {Forever} \cup Int, age : 0..OldAge,
                     stale : BOOLEAN]
  /\ loaders \in [Loaders -> [key : {{}} \cup {{k} : k \in Keys},
                              ttl : Ttls \cup {0}, overtaken : BOOLEAN]]

\* The map grows at its bound in two cases only: evictOldest() finds nothing
\* older than now, in a burst of set() calls within a millisecond, or it finds the
\* empty key, which has to be an oldest one.  Otherwise a new entry takes the
\* place of another, whatever calls and loads came before.
EmptyKeyIsOldest ==
  Cached(EmptyKey) /\ \A k \in DOMAIN cache : cache[k].age <= cache[EmptyKey].age
NoGrowthPastBound ==
  [][Size >= MaxEntries /\ Size' > Size
       => EmptyKeyIsOldest \/ \A k \in DOMAIN cache : cache[k].age = 0]_cacheVars

\* A factory that resolves after its key was set, deleted or cleared puts an
\* older value back.  With a default time to live that value goes away by
\* itself, unless expire() keeps extending it.
Stale(k) == Cached(k) /\ cache[k].stale
StaleValuesGo ==
  <>[][~ \E k \in Keys, ttl \in Ttls : Expire(k, ttl)]_cacheVars =>
    \A k \in Keys : []<>~Stale(k)
=============================================================================
