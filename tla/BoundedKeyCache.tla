--------------------------- MODULE BoundedKeyCache ---------------------------
(***************************************************************************)
(* The bounded key cache, crates/kms-keystore/src/bounded_cache.rs.        *)
(*                                                                         *)
(* The entries live in a map behind one lock, their insertion order in a   *)
(* queue behind another, and no operation but clear holds both: an         *)
(* insertion is a write of the map, a push on the queue and a loop that    *)
(* compares the size with the capacity, pops a victim and removes it, each *)
(* under a lock of its own.  The model has one action per critical section *)
(* and any number of threads between them.  The cache never looks into its *)
(* entries, so the map is the set of keys it holds.                        *)
(***************************************************************************)
EXTENDS Integers, Sequences, FiniteSets

CONSTANTS
    Keys,
    Threads,
    Removers,   \* the threads that also call remove (key destruction)
    Bounded,    \* whether a capacity is configured
    Cap,        \* the capacity, if so
    MaxInserts  \* bound: calls of insert_with_eviction

ASSUME CacheAssumption ==
    /\ Removers \subseteq Threads
    /\ Bounded \in BOOLEAN
    /\ Cap \in Nat
    /\ MaxInserts \in Nat

VARIABLES
    map,        \* the keys with an entry
    order,      \* the queue, oldest insertion first
    pc,         \* thread -> [at, key]: where it is, for threads inside a call
    evictions,  \* the counter evictions_total reports
    inserts,    \* calls of insert_with_eviction so far (history, bounded)
    added,      \* insertions of a key that was not in the map (history)
    removed,    \* entries taken out by remove (history)
    cleared     \* entries taken out by clear (history)

cacheVars == <<map, order, pc, evictions, inserts, added, removed, cleared>>

-----------------------------------------------------------------------------

\* Where a thread may be: about to push its key, to compare the size, to pop
\* a victim, to remove the victim it holds, or (remove) to unlink its key.
Inserting == {"push", "check", "pop", "evict"}

Queued(k) == \E i \in DOMAIN order : order[i] = k

Goto(t, at, k) ==
    pc' = [x \in DOMAIN pc \cup {t} |-> IF x = t THEN [at |-> at, key |-> k] ELSE pc[x]]
Done(t) == pc' = [x \in DOMAIN pc \ {t} |-> pc[x]]
At(t, at) == t \in DOMAIN pc /\ pc[t].at = at

CacheInit ==
    /\ map = {}
    /\ order = <<>>
    /\ pc = [t \in {} |-> 0]
    /\ evictions = 0
    /\ inserts = 0
    /\ added = 0
    /\ removed = 0
    /\ cleared = 0

\* insert_with_eviction, phase 1.
insert_map(t, k) ==
    /\ t \notin DOMAIN pc
    /\ inserts < MaxInserts
    /\ map' = map \cup {k}
    /\ added' = IF k \in map THEN added ELSE added + 1
    /\ inserts' = inserts + 1
    /\ Goto(t, "push", k)
    /\ UNCHANGED <<order, evictions, removed, cleared>>

\* Phase 2.  A key that is inserted again is queued again.
insert_order(t) ==
    /\ At(t, "push")
    /\ order' = Append(order, pc[t].key)
    /\ IF Bounded THEN Goto(t, "check", pc[t].key) ELSE Done(t)
    /\ UNCHANGED <<map, evictions, inserts, added, removed, cleared>>

\* Phase 3, one round of the loop in three critical sections.
Fits_Late == Cardinality(map) <= Cap + 1    \* mutant: one too many
Fits == Cardinality(map) <= Cap

evict_check(t) ==
    /\ At(t, "check")
    /\ IF Fits THEN Done(t) ELSE Goto(t, "pop", pc[t].key)
    /\ UNCHANGED <<map, order, evictions, inserts, added, removed, cleared>>

evict_pop(t) ==
    /\ At(t, "pop")
    /\ \/ order = <<>> /\ Done(t) /\ UNCHANGED order
       \/ order # <<>> /\ Goto(t, "evict", Head(order)) /\ order' = Tail(order)
    /\ UNCHANGED <<map, evictions, inserts, added, removed, cleared>>

Evicted_Always(k) == 1    \* mutant: counts victims that were gone already
Evicted(k) == IF k \in map THEN 1 ELSE 0

evict_map(t) ==
    /\ At(t, "evict")
    /\ map' = map \ {pc[t].key}
    /\ evictions' = evictions + Evicted(pc[t].key)
    /\ Goto(t, "check", pc[t].key)
    /\ UNCHANGED <<order, inserts, added, removed, cleared>>

\* remove: a key that is not there ends the call at once.
remove_map(t, k) ==
    /\ t \in Removers \ DOMAIN pc
    /\ k \in map
    /\ map' = map \ {k}
    /\ removed' = removed + 1
    /\ Goto(t, "unlink", k)
    /\ UNCHANGED <<order, evictions, inserts, added, cleared>>

\* The first occurrence leaves the queue, if there is one.
Without(s, i) ==
    [j \in 1..(Len(s) - 1) |-> IF j < i THEN s[j] ELSE s[j + 1]]

remove_order(t) ==
    /\ At(t, "unlink")
    /\ \/ ~Queued(pc[t].key) /\ UNCHANGED order
       \/ \E i \in DOMAIN order :
             /\ order[i] = pc[t].key
             /\ \A j \in 1..(i - 1) : order[j] # pc[t].key
             /\ order' = Without(order, i)
    /\ Done(t)
    /\ UNCHANGED <<map, evictions, inserts, added, removed, cleared>>

\* The one operation that holds both locks.
clear_OrderOnly ==    \* mutant: the map is forgotten
    /\ map # {}
    /\ order' = <<>>
    /\ UNCHANGED <<map, pc, evictions, inserts, added, removed, cleared>>
clear ==
    /\ map # {}
    /\ map' = {}
    /\ order' = <<>>
    /\ cleared' = cleared + Cardinality(map)
    /\ UNCHANGED <<pc, evictions, inserts, added, removed>>

CacheNext ==
    \/ \E t \in Threads :
          \/ \E k \in Keys : insert_map(t, k) \/ remove_map(t, k)
          \/ insert_order(t)
          \/ evict_check(t)
          \/ evict_pop(t)
          \/ evict_map(t)
          \/ remove_order(t)
    \/ clear

CacheSpec == CacheInit /\ [][CacheNext]_cacheVars

-----------------------------------------------------------------------------
(* Properties.                                                             *)

\* The shape of the cache, of the calls in flight and of the counters.
CacheTypeOK ==
    /\ map \subseteq Keys /\ IsFiniteSet(map)
    /\ order \in Seq(Keys)
    /\ DOMAIN pc \subseteq Threads
    /\ \A t \in DOMAIN pc : pc[t] \in [at : Inserting \cup {"unlink"}, key : Keys]
    /\ evictions \in Nat /\ inserts \in Nat /\ added \in Nat
    /\ removed \in Nat /\ cleared \in Nat

InsertInFlight == \E t \in DOMAIN pc : pc[t].at \in Inserting

\* The entries the queue knows of keep within the capacity whenever no
\* insertion is under way, however insertions, evictions, removals and clear
\* interleave: the last thread to leave the loop leaves nothing to evict.
EvictableWithinCap ==
    Bounded /\ ~InsertInFlight => Cardinality({k \in map : Queued(k)}) <= Cap

\* evictions_total counts every eviction once: what was added and is not
\* there any more was evicted, removed or cleared, though a victim may be
\* removed, re-inserted or evicted by another thread between the moment it
\* is chosen and the moment it is dropped.
EvictionsCounted == Cardinality(map) = added - evictions - removed - cleared

\* The capacity holds: with no insertion under way there are never more
\* entries than Cap.
CapAtRest == Bounded /\ ~InsertInFlight => Cardinality(map) <= Cap

\* Every entry can be evicted: the queue knows it, or a thread is about to
\* queue it or to drop it.
Tracked ==
    \A k \in map :
        \/ Queued(k)
        \/ \E t \in DOMAIN pc : pc[t].key = k /\ pc[t].at \in {"push", "evict"}

\* "When Some(n), the cache evicts the oldest-inserted entry on every
\* insert_with_eviction that would otherwise exceed n entries": true until
\* the first removal.  A removal that races an insertion of the same key
\* unlinks the new entry's queue position (remove scans for the key after it
\* has let go of the map), and that entry can never be evicted.
CapUntilRemoval == removed = 0 => CapAtRest

\* "The invariant map.contains_key(k) <-> order.contains(k)", in the form
\* that holds between the critical sections, again until the first removal.
TrackedUntilRemoval == removed = 0 => Tracked

\* The cache keeps to its capacity as far as its queue knows its entries, and
\* the queue knows them all until the first removal.
CacheSound == EvictableWithinCap /\ CapUntilRemoval /\ TrackedUntilRemoval

=============================================================================
