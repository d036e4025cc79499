------------------------ MODULE RedisCachedKeystore ------------------------
(***************************************************************************)
(* RedisCachedKeystore, crates/kms-keystore/src/cache.rs: the decorator    *)
(* the server puts around its key store when Redis is there.  Every await  *)
(* (a call of the inner store, a command of Redis) is a step; metadata is  *)
(* what is cached, for a time to live, and no read looks there.            *)
(***************************************************************************)
EXTENDS Naturals, FiniteSets

CONSTANTS
    CachedKeys,         \* key ids
    CacheCallers,
    CacheTtl,           \* KEY_CACHE_TTL_SECS
    LastCachedVersion,  \* bound: versions
    MaxRedisFaults,     \* bound: commands Redis fails
    MaxCacheCalls       \* bound: calls

ASSUME CachedStoreAssumption ==
    /\ CacheTtl \in Nat \ {0}
    /\ {LastCachedVersion, MaxRedisFaults, MaxCacheCalls} \subseteq Nat

VARIABLES
    inPlace,     \* the inner store keeps the id of a rotated key (software) or not (PostgreSQL)
    stored,      \* the inner store: key -> metadata
    cached,      \* Redis: key -> [meta, ttl]
    request,     \* caller -> its call
    redisFaults, \* bounded
    cacheCalls,  \* bounded
    suspect      \* key -> for how long its entry may be a stale one (history)

cachedVars == <<inPlace, stored, cached, request, redisFaults, cacheCalls, suspect>>

NoMeta == [version |-> 0, status |-> "None"]
NoCached == [meta |-> NoMeta, ttl |-> 0]
\* saw: what the store held for the key while the call ran; raced: another
\* call on the key ran with it, or Redis failed it (history).
NoCall == [at |-> "idle", op |-> "none", key |-> "none", meta |-> NoMeta, ok |-> TRUE,
           saw |-> {}, raced |-> FALSE]

CachedInit ==
    /\ inPlace \in BOOLEAN
    /\ stored = [k \in CachedKeys |-> NoMeta]
    /\ cached = [k \in CachedKeys |-> NoCached]
    /\ request = [c \in CacheCallers |-> NoCall]
    /\ redisFaults = 0
    /\ cacheCalls = 0
    /\ suspect = [k \in CachedKeys |-> 0]

Running(r) == r.at \notin {"idle", "answered"}
Overlapping(c, k) == {d \in CacheCallers \ {c} : Running(request[d]) /\ request[d].key = k}
\* A key id nobody has met.
Unused(k) == stored[k] = NoMeta /\ cached[k] = NoCached /\ \A c \in CacheCallers : request[c].key # k
Active(k) == stored[k].status = "Active"

\* Caller c goes on as r, the store now being s.
Proceed(c, r, s) ==
    LET others == Overlapping(c, r.key)
        mine == [r EXCEPT !.raced = @ \/ others # {}]
        Seen(q) == [q EXCEPT !.saw = @ \cup {s[q.key]}]
    IN  /\ request' = [d \in CacheCallers |->
                         IF d = c THEN Seen(mine)
                         ELSE IF d \in others THEN [Seen(request[d]) EXCEPT !.raced = TRUE]
                         ELSE request[d]]
        /\ stored' = s
        /\ suspect' = IF mine.raced THEN [suspect EXCEPT ![r.key] = CacheTtl] ELSE suspect
        /\ UNCHANGED inPlace

Opened(k, op, at) == [NoCall EXCEPT !.at = at, !.op = op, !.key = k]
CanCall(c) == ~Running(request[c]) /\ cacheCalls < MaxCacheCalls
Starts == cacheCalls' = cacheCalls + 1 /\ UNCHANGED <<cached, redisFaults>>

\* generate_key, import_key_material: the inner store first.
create(c, k, op) ==
    /\ CanCall(c) /\ Unused(k)
    /\ LET meta == [version |-> 1, status |-> "Active"]
       IN  Proceed(c, [Opened(k, op, "fill") EXCEPT !.meta = meta], [stored EXCEPT ![k] = meta])
    /\ Starts
cached_generate_key(c, k) == create(c, k, "generate")
cached_import_key_material(c, k) == create(c, k, "import")

\* get_key_metadata, and the read that destroy_key begins with.
cached_get_key_metadata_Cached(c, k, op, next) ==   \* mutant: the cache answers
    /\ CanCall(c)
    /\ LET meta == IF cached[k] # NoCached THEN cached[k].meta ELSE stored[k]
       IN  Proceed(c, [Opened(k, op, IF meta = NoMeta THEN "answered" ELSE next)
                         EXCEPT !.meta = meta, !.ok = meta # NoMeta], stored)
    /\ Starts
cached_get_key_metadata(c, k, op, next) ==
    /\ CanCall(c)
    /\ LET found == stored[k] # NoMeta
       IN  Proceed(c, [Opened(k, op, IF found THEN next ELSE "answered")
                         EXCEPT !.meta = stored[k], !.ok = found], stored)
    /\ Starts

\* invalidate_cache, with which rotate_key and delete_key begin: a failure is
\* logged and the call goes on.
start_change(c, k, op) == CanCall(c) /\ Proceed(c, Opened(k, op, "invalidate"), stored) /\ Starts
invalidate_cache_Skipped(c) ==   \* mutant: the entry stays
    /\ request[c].at = "invalidate"
    /\ Proceed(c, [request[c] EXCEPT !.at = "change"], stored)
    /\ UNCHANGED <<cached, redisFaults, cacheCalls>>
invalidate_cache(c) ==
    /\ request[c].at = "invalidate"
    /\ \/ /\ cached' = [cached EXCEPT ![request[c].key] = NoCached]
          /\ Proceed(c, [request[c] EXCEPT !.at = "change"], stored)
          /\ UNCHANGED redisFaults
       \/ /\ redisFaults < MaxRedisFaults
          /\ redisFaults' = redisFaults + 1
          /\ Proceed(c, [request[c] EXCEPT !.at = "change", !.raced = TRUE], stored)
          /\ UNCHANGED cached
    /\ UNCHANGED cacheCalls

\* The inner store's rotate_key (a new version, or a new key and an obsolete
\* one), delete_key and destroy_key (of which PostgreSQL's rows know nothing,
\* and which its cache may refuse); a key that is not there is refused, and a
\* rotation of one that is not active.
cached_rotate_key(c) ==
    LET k == request[c].key
        meta == [stored[k] EXCEPT !.version = @ + 1]
    IN  /\ request[c].op = "rotate" /\ Active(k) /\ stored[k].version < LastCachedVersion
        /\ \/ /\ inPlace
              /\ Proceed(c, [request[c] EXCEPT !.at = "fill", !.meta = meta], [stored EXCEPT ![k] = meta])
           \/ /\ ~inPlace
              /\ \E n \in CachedKeys :
                   /\ Unused(n)
                   /\ Proceed(c, [request[c] EXCEPT !.at = "fill", !.meta = meta, !.key = n],
                              [stored EXCEPT ![n] = meta, ![k].status = "Obsolete"])
cached_delete_key(c) ==
    LET k == request[c].key
    IN  /\ request[c].op = "delete" /\ stored[k] # NoMeta
        /\ Proceed(c, [request[c] EXCEPT !.at = "answered"], [stored EXCEPT ![k].status = "PendingDeletion"])
cached_destroy_key(c) ==
    LET k == request[c].key
    IN  /\ request[c].op = "destroy" /\ stored[k] # NoMeta
        /\ Proceed(c, [request[c] EXCEPT !.at = "answered"],
                   IF inPlace THEN [stored EXCEPT ![k] = NoMeta] ELSE stored)
refused(c) ==
    /\ \/ stored[request[c].key] = NoMeta
       \/ request[c].op = "rotate" /\ ~Active(request[c].key)
       \/ request[c].op = "destroy" /\ ~inPlace
    /\ Proceed(c, [request[c] EXCEPT !.at = "answered", !.ok = FALSE], stored)
change(c) ==
    /\ request[c].at = "change"
    /\ cached_rotate_key(c) \/ cached_delete_key(c) \/ cached_destroy_key(c) \/ refused(c)
    /\ UNCHANGED <<cached, redisFaults, cacheCalls>>

\* cache_key_meta: a failure is the answer, whatever the inner store did.
cache_key_meta(c) ==
    LET r == request[c]
    IN  /\ r.at = "fill"
        /\ \/ /\ cached' = [cached EXCEPT ![r.key] = [meta |-> r.meta, ttl |-> CacheTtl]]
              /\ Proceed(c, [r EXCEPT !.at = "answered"], stored)
              /\ UNCHANGED redisFaults
           \/ /\ redisFaults < MaxRedisFaults
              /\ redisFaults' = redisFaults + 1
              /\ Proceed(c, [r EXCEPT !.at = "answered", !.ok = FALSE], stored)
              /\ UNCHANGED cached
        /\ UNCHANGED cacheCalls

\* The client hangs up and the handler's future is dropped.
hang_up_cached(c) ==
    /\ Running(request[c])
    /\ request' = [request EXCEPT ![c] = NoCall]
    /\ UNCHANGED <<inPlace, stored, cached, redisFaults, cacheCalls, suspect>>

\* Redis counts the times to live down.
EntriesAge ==
    /\ \E k \in CachedKeys : cached[k] # NoCached
    /\ cached' = [k \in CachedKeys |->
                    IF cached[k].ttl <= 1 THEN NoCached ELSE [cached[k] EXCEPT !.ttl = @ - 1]]
    /\ suspect' = [k \in CachedKeys |-> IF suspect[k] = 0 THEN 0 ELSE suspect[k] - 1]
    /\ UNCHANGED <<inPlace, stored, request, redisFaults, cacheCalls>>

CachedNext ==
    \/ \E c \in CacheCallers, k \in CachedKeys :
         \/ cached_generate_key(c, k) \/ cached_import_key_material(c, k)
         \/ cached_get_key_metadata(c, k, "read", "fill")
         \/ cached_get_key_metadata(c, k, "destroy", "invalidate")
         \/ \E op \in {"rotate", "delete"} : start_change(c, k, op)
    \/ \E c \in CacheCallers : invalidate_cache(c) \/ change(c) \/ cache_key_meta(c) \/ hang_up_cached(c)
    \/ EntriesAge

-----------------------------------------------------------------------------
(* Properties.                                                             *)

\* What get_key_metadata answers is what the store held at some moment of the
\* call, however stale the cache is.
AnswersFresh ==
    \A c \in CacheCallers :
      request[c].at = "answered" /\ request[c].op = "read" /\ request[c].ok
        => request[c].meta \in request[c].saw

\* The cache agrees with the store about every key, but for one time to live
\* after a call that shared the key with another, or that Redis failed.
CacheHeals ==
    \A k \in CachedKeys :
      suspect[k] = 0 => cached[k].meta \in {NoMeta, stored[k]}

\* The decorator neither answers nor keeps what the store no longer holds.
CachedStoreSound == AnswersFresh /\ CacheHeals

=============================================================================
