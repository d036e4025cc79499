----------------------- MODULE PostgresKeystore_proofs -----------------------
(***************************************************************************)
(* Proofs about PostgresKeystore, for any number of tenants, specs, keys,  *)
(* callers, failures and restarts.                                         *)
(***************************************************************************)
EXTENDS PostgresKeystore, TLAPS

-----------------------------------------------------------------------------
(* The inductive invariant.  What is known of a call depends on the step   *)
(* it has reached; what is known of the tables only ever grows.            *)

CreateSteps == {"c_insert", "c_material", "c_ok"}
RotateSteps == {"r_insert", "r_material", "r_status", "r_version", "r_rotated_at", "r_cache"}
Steps == {"find", "load", "resolved", "d_cache"} \cup CreateSteps \cup RotateSteps
Ops == UseOps \cup {"create", "rotate", "delete"}

Call == [op : Ops, at : Steps, key : Ids, tenant : Tenants, late : SUBSET Removals,
         meta : Meta, material : Ids \cup {None}, new : Ids \cup {None}]

\* The metadata of key i, but for its status and for the spec a row may have
\* lost.
Reread(s) == IF s \in ReadableSpecs THEN s ELSE "Aes256Gcm"
Like(m, i) ==
    /\ m.tenant = created[i].tenant
    /\ m.version = created[i].version
    /\ m.spec \in {created[i].spec, Reread(created[i].spec)}

\* The tables, the cache and the preload hold what was created.
CreatedOK ==
    /\ drawn \in 0..MaxKeys
    /\ DOMAIN created = 1..drawn
    /\ \A i \in 1..drawn : created[i] \in Meta /\ created[i].status = "Active"

RowOK(i) == db[i] \in Row /\ Like(db[i].meta, i) /\ db[i].material \in {None, i}
RowsOK == DOMAIN db \subseteq 1..drawn /\ \A i \in DOMAIN db : RowOK(i)

ArchiveOK ==
    /\ DOMAIN archive \subseteq Ids \X Nat
    /\ \A x \in DOMAIN archive : archive[x] \in Ids

CachedOK(i) == cache[i] \in Entry /\ Like(cache[i].meta, i) /\ cache[i].material = i
CacheOK == DOMAIN cache \subseteq 1..drawn /\ \A i \in DOMAIN cache : CachedOK(i)

ListedOK(x) ==
    /\ x \in Ids \X Meta \X (Ids \cup {None})
    /\ x[1] \in DOMAIN db /\ Like(x[2], x[1]) /\ x[3] \in {None, x[1]}
PreloadOK ==
    /\ preload \in [at : {"list", "loading", "failed", "done"}, todo : SUBSET (Ids \X Meta \X (Ids \cup {None}))]
    /\ \A x \in preload.todo : ListedOK(x)
    /\ ready \in BOOLEAN

\* A call has the metadata and the material of its key once it has read them,
\* of a key of its own tenant; a creation and a rotation own the id they drew.
CallOK(p) ==
    /\ p \in Call
    /\ p.key \in 1..drawn
    /\ (p.op = "create") <=> p.at \in CreateSteps
    /\ p.at \in CreateSteps => p.new = p.key
    /\ p.at \notin CreateSteps => p.key \in DOMAIN db
    /\ p.at # "find" => Like(p.meta, p.key)
    /\ p.at \notin {"find", "load"} => p.material = p.key /\ p.meta.tenant = p.tenant
    /\ p.at \in RotateSteps =>
          /\ p.op = "rotate"
          /\ p.new \in 1..drawn
          /\ created[p.new] = NewMeta(p.meta.tenant, p.meta.spec, p.meta.version + 1)
    /\ p.at \notin CreateSteps \cup RotateSteps => p.new = None
CallsOK == DOMAIN pc \subseteq Clients /\ \A c \in DOMAIN pc : CallOK(pc[c])

Faithful == CreatedOK /\ RowsOK /\ ArchiveOK /\ CacheOK /\ PreloadOK /\ CallsOK

\* An id in creation belongs to one call, and has no row before that call
\* inserts it.
Unclaimed ==
    \A c \in DOMAIN pc : pc[c].at \in {"c_insert", "r_insert"} => pc[c].new \notin DOMAIN db
Owned ==
    /\ \A c, d \in DOMAIN pc : c # d /\ pc[c].new # None => pc[c].new # pc[d].new
    /\ Unclaimed

\* The row of i holds its material, or is deleted.
Stored(i) == i \in DOMAIN db /\ (db[i].deleted \/ db[i].material = i)
\* The row of i is off duty.
Retired(i) == db[i].deleted \/ db[i].meta.status = "Obsolete"

Durable ==
    /\ \A i \in acked : Stored(i)
    /\ \A c \in DOMAIN pc :
          /\ pc[c].at \in {"c_material", "r_material"} => pc[c].new \in DOMAIN db
          /\ pc[c].at \in {"c_ok", "r_status", "r_version", "r_rotated_at", "r_cache"} =>
                Stored(pc[c].new)

\* A rotation past its archive entry is the only one of its key.
Archiving(c) == pc[c].at \in {"r_rotated_at", "r_cache"}
Archived(i) ==
    /\ <<i, created[i].version>> \in DOMAIN archive
    /\ archive[<<i, created[i].version>>] = i
Succession ==
    /\ rotations \subseteq Ids \X Ids
    /\ \A r, q \in rotations : r[1] = q[1] => r = q
    /\ \A r \in rotations : r[1] \in DOMAIN db /\ Archived(r[1]) /\ Retired(r[1])
    /\ \A c \in DOMAIN pc :
          /\ pc[c].at \in {"r_version", "r_rotated_at", "r_cache"} => Retired(pc[c].key)
          /\ Archiving(c) =>
                /\ Archived(pc[c].key)
                /\ \A r \in rotations : r[1] # pc[c].key
                /\ \A d \in DOMAIN pc : Archiving(d) /\ d # c => pc[d].key # pc[c].key

\* A deletion that returned left nothing that could make the key Active again.
Deleted ==
    /\ gone \in [{"deleted", "destroyed"} -> SUBSET Ids]
    /\ \A i \in gone.deleted :
          /\ i \in DOMAIN db /\ db[i].deleted
          /\ i \in DOMAIN cache => cache[i].meta.status # "Active"
          /\ ~Loading(i)
    /\ \A c \in DOMAIN pc :
          /\ pc[c].at = "d_cache" => db[pc[c].key].deleted
          /\ "deleted" \in pc[c].late => pc[c].key \in gone.deleted
          /\ pc[c].at = "resolved" /\ "deleted" \in pc[c].late => pc[c].meta.status # "Active"

\* What was answered.
Answered ==
    \A o \in out :
        /\ o.material = o.key /\ o.key \in 1..drawn
        /\ created[o.key].tenant = o.by
        /\ o.op \in ActiveOps => "deleted" \notin o.late

History == Owned /\ Durable /\ Succession /\ Deleted /\ Answered

IInv == Faithful /\ History

-----------------------------------------------------------------------------
(* What a step keeps.                                                      *)

\* Ids are drawn, rows inserted and changed; nothing that was created is
\* revised.
Grown ==
    /\ drawn' \in 0..MaxKeys /\ drawn <= drawn'
    /\ \A i \in 1..drawn : created'[i] = created[i]
    /\ DOMAIN db \subseteq DOMAIN db'

\* What is like a key stays so: created is never revised.
LEMMA LikeKept ==
    ASSUME CreatedOK, Grown, NEW m, NEW i \in 1..drawn, Like(m, i)
    PROVE  Like(m, i)'
  BY DEF CreatedOK, Grown, Like, Reread

\* A call that is right stays right while ids are drawn and rows inserted.
LEMMA CallKept ==
    ASSUME CreatedOK, Grown, NEW p, CallOK(p)
    PROVE  CallOK(p)'
<1>1. p.key \in 1..drawn' /\ (p.at # "find" => Like(p.meta, p.key)')
  BY LikeKept DEF CallOK, CreatedOK, Grown
<1>2. p.at \in RotateSteps =>
         p.new \in 1..drawn' /\ created'[p.new] = NewMeta(p.meta.tenant, p.meta.spec, p.meta.version + 1)
  BY DEF CallOK, CreatedOK, Grown
<1>. QED BY <1>1, <1>2 DEF CallOK, Grown

\* Client c goes on with call p, begins it, or ends.
LEMMA CallsGoOn ==
    ASSUME CreatedOK, CallsOK, Grown, NEW c \in Clients, NEW p, CallOK(p)',
           pc' = Put(pc, c, p)
    PROVE  CallsOK'
  BY CallKept DEF CallsOK, Put

\* The calls that are left when one returns.
LEMMA CallsReturn ==
    ASSUME CreatedOK, CallsOK, Grown, NEW c, Return(c)
    PROVE  CallsOK'
  BY CallKept DEF CallsOK, Return, Drop

\* The calls where none moves.
LEMMA CallsStay ==
    ASSUME CreatedOK, CallsOK, Grown, UNCHANGED pc
    PROVE  CallsOK'
  BY CallKept DEF CallsOK

\* An assignment to fields of one call is an assignment of the call.
LEMMA GotoIsPut ==
    ASSUME NEW c \in DOMAIN pc, NEW at, Goto(c, at)
    PROVE  pc' = Put(pc, c, [pc[c] EXCEPT !.at = at])
  BY DEF Goto, Put

-----------------------------------------------------------------------------
(* Faithful: one lemma per group of actions.                               *)

\* At the start there are no keys, no rows and no calls.
LEMMA InitFaithful == Init => Faithful
<1>. SUFFICES ASSUME Init PROVE Faithful
  OBVIOUS
<1>1. DOMAIN created = 1..drawn /\ 1..drawn = {}
  BY DEF Init
<1>2. CreatedOK
  BY <1>1, ConstantsAssumption DEF Init, CreatedOK
<1>3. RowsOK /\ ArchiveOK /\ CacheOK /\ CallsOK
  BY DEF Init, RowsOK, ArchiveOK, CacheOK, CallsOK
<1>4. PreloadOK
  BY DEF Init, PreloadOK
<1>. QED BY <1>2, <1>3, <1>4 DEF Faithful

\* A fresh id is drawn for metadata m.
LEMMA DrawGrows ==
    ASSUME CreatedOK, RowsOK, NEW i, NEW m \in Meta, m.status = "Active", Draw(i, m), UNCHANGED db
    PROVE  Grown /\ CreatedOK' /\ i \in Ids /\ i \in 1..drawn' /\ i \notin 1..drawn /\ created'[i] = m
  BY ConstantsAssumption DEF CreatedOK, Draw, Grown, Put, Ids

\* The metadata of a new key.
LEMMA NewMetaType ==
    ASSUME NEW t \in Tenants, NEW sp \in Specs \cup {"Aes256Gcm"}, NEW v \in Nat
    PROVE  NewMeta(t, sp, v) \in Meta /\ NewMeta(t, sp, v).status = "Active"
  BY DEF NewMeta, Meta, KeyStatus

\* Where the tables are left alone, growing created keeps what they hold.
LEMMA TablesKept ==
    ASSUME Faithful, Grown
    PROVE  /\ UNCHANGED db => RowsOK'
           /\ UNCHANGED cache => CacheOK'
           /\ UNCHANGED <<preload, ready>> => PreloadOK'
<1>1. DOMAIN db \subseteq 1..drawn /\ 1..drawn \subseteq 1..drawn'
  BY DEF Faithful, CreatedOK, RowsOK, Grown
<1>2. \A m, i : i \in 1..drawn /\ Like(m, i) => Like(m, i)'
  BY LikeKept DEF Faithful
<1>3. UNCHANGED db => RowsOK'
  BY <1>1, <1>2 DEF Faithful, RowsOK, RowOK
<1>4. UNCHANGED cache => CacheOK'
  BY <1>1, <1>2 DEF Faithful, CacheOK, CachedOK
<1>5. UNCHANGED <<preload, ready>> => PreloadOK'
  BY <1>1, <1>2 DEF Faithful, PreloadOK, ListedOK, Grown
<1>. QED BY <1>3, <1>4, <1>5

\* A step that draws no id.
LEMMA NothingDrawn ==
    ASSUME CreatedOK, UNCHANGED <<drawn, created>>, DOMAIN db \subseteq DOMAIN db'
    PROVE  Grown /\ CreatedOK'
  BY DEF CreatedOK, Grown

\* What a call writes to a row: a new one, or a field of one.
LEMMA RowInserted ==
    ASSUME Faithful, NEW i \in 1..drawn, NEW m \in Meta, Like(m, i), insert(i, m),
           UNCHANGED <<drawn, created>>
    PROVE  Grown /\ CreatedOK' /\ RowsOK'
<1>1. DOMAIN db' = DOMAIN db \cup {i} /\ db'[i] = [meta |-> m, material |-> None, deleted |-> FALSE]
      /\ \A j \in DOMAIN db : j # i => db'[j] = db[j]
  BY DEF insert, Put
<1>2. Grown /\ CreatedOK'
  BY <1>1, NothingDrawn DEF Faithful
<1>3. db'[i] \in Row /\ db'[i].meta = m /\ db'[i].material = None
  BY <1>1 DEF Row
<1>. QED BY <1>1, <1>2, <1>3 DEF Faithful, RowsOK, RowOK, Like

\* update_encrypted_material with the key's own material.
LEMMA MaterialSet ==
    ASSUME Faithful, NEW i \in Ids, update_encrypted_material(i, i), UNCHANGED <<drawn, created>>
    PROVE  Grown /\ CreatedOK' /\ RowsOK'
<1>1. DOMAIN db' = DOMAIN db /\ \A j \in DOMAIN db : db'[j] = db[j] \/ (j = i /\ db'[j] = [db[j] EXCEPT !.material = i])
  BY DEF update_encrypted_material
<1>2. Grown /\ CreatedOK'
  BY <1>1, NothingDrawn DEF Faithful
<1>. QED BY <1>1, <1>2 DEF Faithful, RowsOK, RowOK, Like, Row

\* update_status changes nothing but the status.
LEMMA StatusSet ==
    ASSUME Faithful, NEW i, NEW st \in KeyStatus, update_status(i, st), UNCHANGED <<drawn, created>>
    PROVE  Grown /\ CreatedOK' /\ RowsOK'
<1>1. DOMAIN db' = DOMAIN db /\ \A j \in DOMAIN db : db'[j] = db[j] \/ (j = i /\ db'[j] = [db[j] EXCEPT !.meta.status = st])
  BY DEF update_status
<1>2. Grown /\ CreatedOK'
  BY <1>1, NothingDrawn DEF Faithful
<1>3. \A j \in DOMAIN db : db[j] \in Row /\ Like(db[j].meta, j) /\ db[j].material \in {None, j}
  BY DEF Faithful, RowsOK, RowOK
<1>4. ASSUME NEW j \in DOMAIN db
      PROVE  LET r == [db[j] EXCEPT !.meta.status = st]
             IN  r \in Row /\ Like(r.meta, j) /\ r.material = db[j].material
  BY <1>3 DEF Row, Meta, Like
<1>5. \A j \in DOMAIN db : db'[j] \in Row /\ Like(db'[j].meta, j) /\ db'[j].material \in {None, j}
  BY <1>1, <1>3, <1>4
<1>6. DOMAIN db' \subseteq 1..drawn'
  BY <1>1 DEF Faithful, RowsOK
<1>7. \A j \in DOMAIN db' : RowOK(j)'
  BY <1>1, <1>5 DEF RowOK, Like
<1>. QED BY <1>2, <1>6, <1>7 DEF RowsOK

\* soft_delete changes nothing but the mark.
LEMMA RowDeleted ==
    ASSUME Faithful, NEW i, soft_delete(i), UNCHANGED <<drawn, created>>
    PROVE  Grown /\ CreatedOK' /\ RowsOK'
<1>1. DOMAIN db' = DOMAIN db /\ \A j \in DOMAIN db : db'[j] = db[j] \/ (j = i /\ db'[j] = [db[j] EXCEPT !.deleted = TRUE])
  BY DEF soft_delete
<1>2. Grown /\ CreatedOK'
  BY <1>1, NothingDrawn DEF Faithful
<1>3. \A j \in DOMAIN db : db[j] \in Row /\ Like(db[j].meta, j) /\ db[j].material \in {None, j}
  BY DEF Faithful, RowsOK, RowOK
<1>4. ASSUME NEW j \in DOMAIN db
      PROVE  LET r == [db[j] EXCEPT !.deleted = TRUE]
             IN  r \in Row /\ r.meta = db[j].meta /\ r.material = db[j].material
  BY <1>3 DEF Row
<1>5. \A j \in DOMAIN db : db'[j] \in Row /\ Like(db'[j].meta, j) /\ db'[j].material \in {None, j}
  BY <1>1, <1>3, <1>4
<1>6. DOMAIN db' \subseteq 1..drawn'
  BY <1>1 DEF Faithful, RowsOK
<1>7. \A j \in DOMAIN db' : RowOK(j)'
  BY <1>1, <1>5 DEF RowOK, Like
<1>. QED BY <1>2, <1>6, <1>7 DEF RowsOK

\* What a call or the preload caches, marks or drops.
LEMMA EntryCached ==
    ASSUME Faithful, Grown, NEW i \in Ids, i \in 1..drawn', NEW m \in Meta, Like(m, i)',
           cache' = Put(cache, i, NewEntry(m, i))
    PROVE  CacheOK'
<1>1. \A n, j : j \in 1..drawn /\ Like(n, j) => Like(n, j)'
  BY LikeKept DEF Faithful
<1>2. DOMAIN cache \subseteq 1..drawn /\ 1..drawn \subseteq 1..drawn'
  BY DEF Faithful, CacheOK, CreatedOK, Grown
<1>. QED BY <1>1, <1>2 DEF Faithful, CacheOK, CachedOK, Put, NewEntry, Entry

\* Marking changes the status of one entry.
LEMMA EntryMarked ==
    ASSUME Faithful, NEW i, NEW st \in KeyStatus
    PROVE  /\ DOMAIN Marked(i, st) = DOMAIN cache
           /\ \A j \in DOMAIN cache :
                 LET e == Marked(i, st)[j]
                 IN  /\ e \in Entry /\ Like(e.meta, j) /\ e.material = j
                     /\ e.meta.status \in {cache[j].meta.status, st}
                     /\ j = i => e.meta.status = st
  BY DEF Faithful, CacheOK, CachedOK, Marked, Entry, Meta, Like

\* An eviction leaves the other entries.
LEMMA EntryDropped ==
    ASSUME CacheOK, UNCHANGED <<drawn, created>>, NEW i, cache' = Drop(cache, i)
    PROVE  CacheOK'
  BY DEF CacheOK, CachedOK, Drop, Like

-----------------------------------------------------------------------------
(* Faithful, action by action.                                             *)

\* A call moves on within its phase.
Advance ==
    (CreateSteps \X CreateSteps) \cup (RotateSteps \X RotateSteps) \cup {<<"resolved", "d_cache">>}

\* What is known of a call does not depend on where in its phase it is.
LEMMA CallAdvances ==
    ASSUME NEW p, CallOK(p), NEW next, <<p.at, next>> \in Advance
    PROVE  CallOK([p EXCEPT !.at = next])
<1>. DEFINE q == [p EXCEPT !.at = next]
<1>1. next \in Steps /\ p \in Call
  BY DEF Advance, Steps, CallOK
<1>2. q \in Call /\ q.at = next /\ q.op = p.op /\ q.key = p.key /\ q.tenant = p.tenant
      /\ q.meta = p.meta /\ q.material = p.material /\ q.new = p.new
  BY <1>1 DEF Call
<1>3. CASE p.at \in CreateSteps /\ next \in CreateSteps
  BY <1>2, <1>3 DEF CallOK, CreateSteps, RotateSteps
<1>4. CASE p.at \in RotateSteps /\ next \in RotateSteps
  BY <1>2, <1>4 DEF CallOK, CreateSteps, RotateSteps
<1>5. CASE p.at = "resolved" /\ next = "d_cache"
  BY <1>2, <1>5 DEF CallOK, CreateSteps, RotateSteps
<1>. QED BY <1>3, <1>4, <1>5 DEF Advance

\* A database write of call c, whatever its outcome.
LEMMA WriteFaithful ==
    ASSUME Faithful, NEW c \in DOMAIN pc, NEW next, <<pc[c].at, next>> \in Advance,
           Grown, CreatedOK', RowsOK', ArchiveOK',
           UNCHANGED <<cache, preload, ready>>,
           Goto(c, next) \/ Return(c)
    PROVE  Faithful'
<1>1. CacheOK' /\ PreloadOK'
  BY TablesKept
<1>2. CASE Goto(c, next)
  <2>0. PICK q : q = [pc[c] EXCEPT !.at = next]
    OBVIOUS
  <2>1. CallOK(q)
    BY <2>0, CallAdvances DEF Faithful, CallsOK
  <2>2. CallOK(q)'
    BY <2>1, CallKept DEF Faithful
  <2>3. pc' = Put(pc, c, q) /\ c \in Clients
    BY <1>2, <2>0, GotoIsPut DEF Faithful, CallsOK
  <2>4. CallsOK'
    BY <2>2, <2>3, CallsGoOn DEF Faithful
  <2>. QED BY <1>1, <2>4 DEF Faithful
<1>3. CASE Return(c)
  BY <1>1, <1>3, CallsReturn DEF Faithful
<1>. QED BY <1>2, <1>3

\* The calls that write: they are in their phase, and the tables stay faithful.
LEMMA CreateWritesFaithful ==
    ASSUME Faithful, NEW c, create_insert(c) \/ create_material(c)
    PROVE  Faithful'
<1>1. c \in DOMAIN pc /\ CallOK(pc[c]) /\ pc[c].at \in CreateSteps
  BY DEF Faithful, CallsOK, create_insert, create_material, Write, At, CreateSteps
<1>2. pc[c].key \in 1..drawn /\ pc[c].key \in Ids /\ pc[c].meta \in Meta /\ Like(pc[c].meta, pc[c].key)
      /\ pc[c].material = pc[c].key
  BY <1>1 DEF CallOK, Call, CreateSteps
<1>3. CASE create_insert(c)
  <2>1. /\ pc[c].at = "c_insert" /\ (Goto(c, "c_material") \/ Return(c))
        /\ UNCHANGED <<cache, preload, ready, drawn, created, archive>>
        /\ insert(pc[c].key, pc[c].meta) \/ UNCHANGED db
    BY <1>3 DEF create_insert, Write, Fail, At, hist, dbVars
  <2>2. Grown /\ CreatedOK' /\ RowsOK'
    BY <1>2, <2>1, RowInserted, NothingDrawn, TablesKept DEF Faithful
  <2>3. ArchiveOK'
    BY <2>1 DEF Faithful, ArchiveOK
  <2>. QED BY <1>1, <2>1, <2>2, <2>3, WriteFaithful DEF Advance, CreateSteps
<1>4. CASE create_material(c)
  <2>1. /\ pc[c].at = "c_material" /\ (Goto(c, "c_ok") \/ Return(c))
        /\ UNCHANGED <<cache, preload, ready, drawn, created, archive>>
        /\ update_encrypted_material(pc[c].key, pc[c].key) \/ UNCHANGED db
    BY <1>2, <1>4 DEF create_material, Write, Fail, At, hist, dbVars
  <2>2. Grown /\ CreatedOK' /\ RowsOK'
    BY <1>2, <2>1, MaterialSet, NothingDrawn, TablesKept DEF Faithful
  <2>3. ArchiveOK'
    BY <2>1 DEF Faithful, ArchiveOK
  <2>. QED BY <1>1, <2>1, <2>2, <2>3, WriteFaithful DEF Advance, CreateSteps
<1>. QED BY <1>3, <1>4

\* delete_key writes the mark of a row.
LEMMA DeleteFaithful ==
    ASSUME Faithful, NEW c, delete_key(c)
    PROVE  Faithful'
<1>1. c \in DOMAIN pc
  BY DEF delete_key, At
<1>2. /\ pc[c].at = "resolved" /\ (Goto(c, "d_cache") \/ Return(c))
      /\ UNCHANGED <<cache, preload, ready, drawn, created, archive>>
      /\ soft_delete(pc[c].key) \/ UNCHANGED db
  BY DEF delete_key, Write, Fail, At, hist, dbVars
<1>3. Grown /\ CreatedOK' /\ RowsOK'
  BY <1>2, RowDeleted, NothingDrawn, TablesKept DEF Faithful
<1>4. ArchiveOK'
  BY <1>2 DEF Faithful, ArchiveOK
<1>. QED BY <1>1, <1>2, <1>3, <1>4, WriteFaithful DEF Advance

\* What a rotation works with.
LEMMA RotatingCall ==
    ASSUME Faithful, NEW c \in DOMAIN pc, pc[c].at \in RotateSteps
    PROVE  /\ pc[c].new \in 1..drawn /\ pc[c].new \in Ids
           /\ pc[c].key \in DOMAIN db /\ pc[c].key \in Ids /\ pc[c].material = pc[c].key
           /\ pc[c].meta \in Meta /\ pc[c].meta.version \in Nat
           /\ pc[c].meta.version = created[pc[c].key].version
           /\ Successor(c) = created[pc[c].new] /\ Successor(c) \in Meta /\ Like(Successor(c), pc[c].new)
<1>1. CallOK(pc[c]) /\ pc[c].at \notin CreateSteps /\ pc[c].at \notin {"find", "load"}
  BY DEF Faithful, CallsOK, RotateSteps, CreateSteps
<1>2. pc[c].new \in 1..drawn /\ created[pc[c].new] = Successor(c)
  BY <1>1 DEF CallOK, Successor
<1>3. created[pc[c].new] \in Meta
  BY <1>2 DEF Faithful, CreatedOK
<1>4. pc[c].meta \in Meta /\ pc[c].meta.version = created[pc[c].key].version
  BY <1>1 DEF CallOK, Call, Like
<1>5. pc[c].meta.version \in Nat
  BY <1>4 DEF Meta
<1>6. Like(Successor(c), pc[c].new)
  BY <1>2 DEF Like
<1>7. pc[c].new \in Ids
  BY <1>2, ConstantsAssumption DEF Faithful, CreatedOK, Ids
<1>. QED BY <1>1, <1>2, <1>3, <1>4, <1>5, <1>6, <1>7 DEF CallOK, Call

\* The five writes of a rotation.
LEMMA RotateWritesFaithful ==
    ASSUME Faithful, NEW c,
           \/ rotate_insert(c) \/ rotate_material(c) \/ rotate_status(c)
           \/ rotate_version(c) \/ update_version_rotated_at(c)
    PROVE  Faithful'
<1>1. c \in DOMAIN pc /\ pc[c].at \in RotateSteps
  BY DEF rotate_insert, rotate_material, rotate_status, rotate_version, update_version_rotated_at,
         Write, At, RotateSteps
<1>2. /\ pc[c].new \in 1..drawn /\ pc[c].new \in Ids /\ pc[c].key \in Ids /\ pc[c].material = pc[c].key
      /\ pc[c].meta.version \in Nat /\ Successor(c) \in Meta /\ Like(Successor(c), pc[c].new)
  BY <1>1, RotatingCall
<1>3. CASE rotate_insert(c)
  <2>1. /\ pc[c].at = "r_insert" /\ (Goto(c, "r_material") \/ Return(c))
        /\ UNCHANGED <<cache, preload, ready, drawn, created, archive>>
        /\ insert(pc[c].new, Successor(c)) \/ UNCHANGED db
    BY <1>3 DEF rotate_insert, Write, Fail, At, hist, dbVars
  <2>2. Grown /\ CreatedOK' /\ RowsOK'
    BY <1>2, <2>1, RowInserted, NothingDrawn, TablesKept DEF Faithful
  <2>3. ArchiveOK'
    BY <2>1 DEF Faithful, ArchiveOK
  <2>. QED BY <1>1, <2>1, <2>2, <2>3, WriteFaithful DEF Advance, RotateSteps
<1>4. CASE rotate_material(c)
  <2>1. /\ pc[c].at = "r_material" /\ (Goto(c, "r_status") \/ Return(c))
        /\ UNCHANGED <<cache, preload, ready, drawn, created, archive>>
        /\ update_encrypted_material(pc[c].new, pc[c].new) \/ UNCHANGED db
    BY <1>4 DEF rotate_material, Write, Fail, At, hist, dbVars
  <2>2. Grown /\ CreatedOK' /\ RowsOK'
    BY <1>2, <2>1, MaterialSet, NothingDrawn, TablesKept DEF Faithful
  <2>3. ArchiveOK'
    BY <2>1 DEF Faithful, ArchiveOK
  <2>. QED BY <1>1, <2>1, <2>2, <2>3, WriteFaithful DEF Advance, RotateSteps
<1>5. CASE rotate_status(c)
  <2>1. /\ pc[c].at = "r_status" /\ (Goto(c, "r_version") \/ Return(c))
        /\ UNCHANGED <<cache, preload, ready, drawn, created, archive>>
        /\ update_status(pc[c].key, "Obsolete") \/ UNCHANGED db
    BY <1>5 DEF rotate_status, Write, Fail, At, hist, dbVars
  <2>2. Grown /\ CreatedOK' /\ RowsOK'
    BY <2>1, StatusSet, NothingDrawn, TablesKept DEF Faithful, KeyStatus
  <2>3. ArchiveOK'
    BY <2>1 DEF Faithful, ArchiveOK
  <2>. QED BY <1>1, <2>1, <2>2, <2>3, WriteFaithful DEF Advance, RotateSteps
<1>6. CASE rotate_version(c)
  <2>1. /\ pc[c].at = "r_version" /\ (Goto(c, "r_rotated_at") \/ Return(c))
        /\ UNCHANGED <<cache, preload, ready, drawn, created, db>>
        /\ insert_version(pc[c].key, pc[c].meta.version, pc[c].key) \/ UNCHANGED archive
    BY <1>2, <1>6 DEF rotate_version, Write, Fail, At, hist, dbVars
  <2>2. Grown /\ CreatedOK' /\ RowsOK'
    BY <2>1, NothingDrawn, TablesKept DEF Faithful
  <2>3. ArchiveOK'
    BY <1>2, <2>1 DEF Faithful, ArchiveOK, insert_version, Put
  <2>. QED BY <1>1, <2>1, <2>2, <2>3, WriteFaithful DEF Advance, RotateSteps
<1>7. CASE update_version_rotated_at(c)
  <2>1. /\ pc[c].at = "r_rotated_at" /\ (Goto(c, "r_cache") \/ Return(c))
        /\ UNCHANGED <<cache, preload, ready, drawn, created, db, archive>>
    BY <1>7 DEF update_version_rotated_at, Write, Fail, At, hist, dbVars
  <2>2. Grown /\ CreatedOK' /\ RowsOK'
    BY <2>1, NothingDrawn, TablesKept DEF Faithful
  <2>3. ArchiveOK'
    BY <2>1 DEF Faithful, ArchiveOK
  <2>. QED BY <1>1, <2>1, <2>2, <2>3, WriteFaithful DEF Advance, RotateSteps
<1>. QED BY <1>3, <1>4, <1>5, <1>6, <1>7

\* A creation draws an id, caches the entry and begins its call.
LEMMA CreateFaithful ==
    ASSUME Faithful, NEW c \in Clients, NEW i \in Ids, NEW t \in Tenants, NEW s \in Specs, NEW op,
           create(c, i, t, s, op)
    PROVE  Faithful'
<1>0. PICK m : m = NewMeta(t, s, 1)
  OBVIOUS
<1>1. m \in Meta /\ m.status = "Active" /\ m.tenant = t
  BY <1>0, NewMetaType DEF NewMeta
<1>2. Grown /\ CreatedOK' /\ i \in 1..drawn' /\ created'[i] = m
  BY <1>0, <1>1, DrawGrows DEF create, Faithful
<1>3. Like(m, i)'
  BY <1>2 DEF Like
<1>4. CacheOK'
  BY <1>0, <1>1, <1>2, <1>3, EntryCached DEF create
<1>5. RowsOK' /\ PreloadOK' /\ ArchiveOK'
  BY <1>2, TablesKept DEF create, Faithful, ArchiveOK
<1>6. PICK p : p = [op |-> "create", at |-> "c_insert", key |-> i, tenant |-> t, late |-> {},
                    meta |-> m, material |-> i, new |-> i]
  OBVIOUS
<1>7. p \in Call
  BY <1>1, <1>6 DEF Call, Ops, Steps, CreateSteps
<1>8. CallOK(p)'
  BY <1>1, <1>2, <1>3, <1>6, <1>7 DEF CallOK, CreateSteps, RotateSteps
<1>9. CallsOK'
  BY <1>0, <1>2, <1>6, <1>8, CallsGoOn DEF create, Begin, Faithful
<1>. QED BY <1>2, <1>4, <1>5, <1>9 DEF Faithful

\* The answers of a creation and of a use change no table.
LEMMA AnswersFaithful ==
    ASSUME Faithful, NEW c, create_ok(c) \/ use(c)
    PROVE  Faithful'
<1>1. UNCHANGED <<db, archive, cache, preload, ready, drawn, created>> /\ Return(c)
  BY DEF create_ok, use
<1>2. Grown /\ CreatedOK'
  BY <1>1, NothingDrawn DEF Faithful
<1>. QED BY <1>1, <1>2, TablesKept, CallsReturn DEF Faithful, ArchiveOK

\* entry_for on a hit resolves with what the cache holds, on a miss goes to
\* the row.
LEMMA EntryForFaithful ==
    ASSUME Faithful, NEW c \in Clients, NEW op \in UseOps \cup {"rotate", "delete"},
           NEW i \in Ids, NEW t \in Tenants, entry_for(c, op, i, t)
    PROVE  Faithful'
<1>1. UNCHANGED <<db, archive, cache, preload, ready, drawn, created>> /\ i \in DOMAIN db
  BY DEF entry_for, hist
<1>2. Grown /\ CreatedOK'
  BY <1>1, NothingDrawn DEF Faithful
<1>3. RowsOK' /\ CacheOK' /\ PreloadOK' /\ ArchiveOK'
  BY <1>1, <1>2, TablesKept DEF Faithful, ArchiveOK
<1>4. i \in 1..drawn /\ op \in Ops /\ op # "create" /\ Late(i) \in SUBSET Removals
  BY <1>1, ConstantsAssumption DEF Faithful, RowsOK, Ops, Late, ActiveOps, AnyOps
<1>5. PICK p : p = [op |-> op, at |-> "find", key |-> i, tenant |-> t, late |-> Late(i),
                    meta |-> NewMeta(t, "Aes256Gcm", 0), material |-> None, new |-> None]
  OBVIOUS
<1>6. CallOK(p)
  <2>1. p \in Call
    BY <1>4, <1>5, NewMetaType DEF Call, Steps
  <2>. QED BY <1>1, <1>4, <1>5, <2>1 DEF CallOK, CreateSteps, RotateSteps
<1>7. CASE pc' = Put(pc, c, p)
  BY <1>2, <1>3, <1>6, <1>7, CallKept, CallsGoOn DEF Faithful
<1>8. CASE UNCHANGED pc
  BY <1>2, <1>3, <1>8, CallsStay DEF Faithful
<1>9. CASE /\ i \in DOMAIN cache /\ cache[i].meta.tenant = t
           /\ pc' = Put(pc, c, [p EXCEPT !.at = "resolved", !.meta = cache[i].meta,
                                         !.material = cache[i].material])
  <2>1. PICK q : q = [p EXCEPT !.at = "resolved", !.meta = cache[i].meta, !.material = cache[i].material]
    OBVIOUS
  <2>2. cache[i].meta \in Meta /\ Like(cache[i].meta, i) /\ cache[i].material = i
    BY <1>9 DEF Faithful, CacheOK, CachedOK, Entry
  <2>3. q = [op |-> op, at |-> "resolved", key |-> i, tenant |-> t, late |-> Late(i),
             meta |-> cache[i].meta, material |-> i, new |-> None]
    BY <1>5, <2>1, <2>2
  <2>4. q \in Call
    BY <1>4, <2>2, <2>3 DEF Call, Steps
  <2>5. CallOK(q)
    BY <1>1, <1>4, <1>9, <2>2, <2>3, <2>4 DEF CallOK, CreateSteps, RotateSteps
  <2>6. pc' = Put(pc, c, q)
    BY <1>9, <2>1
  <2>. QED BY <1>2, <1>3, <2>5, <2>6, CallKept, CallsGoOn DEF Faithful
<1>. QED BY <1>5, <1>7, <1>8, <1>9 DEF entry_for, Begin, TenantOk

\* What a row says of its key is read back with a spec the table has.
LEMMA ReadLike ==
    ASSUME Faithful, NEW i \in DOMAIN db
    PROVE  FromEntity(db[i].meta) \in Meta /\ Like(FromEntity(db[i].meta), i)
<1>. DEFINE m == db[i].meta
<1>1. m \in Meta /\ Like(m, i)
  BY DEF Faithful, RowsOK, RowOK, Row
<1>2. FromEntity(m) = [m EXCEPT !.spec = Reread(m.spec)]
  BY DEF FromEntity, Reread
<1>3. Reread(m.spec) \in {m.spec, "Aes256Gcm"} /\ Reread(m.spec) = Reread(created[i].spec)
  BY <1>1 DEF Like, Reread, ReadableSpecs
<1>. QED BY <1>1, <1>2, <1>3 DEF Meta, Like

\* The two reads of a miss: the row gives the key's metadata, then its own
\* material.
LEMMA LoadFaithful ==
    ASSUME Faithful, NEW c, load_meta(c) \/ load_material(c)
    PROVE  Faithful'
<1>1. /\ UNCHANGED <<db, archive, preload, ready, drawn, created>>
      /\ c \in DOMAIN pc /\ CallOK(pc[c]) /\ pc[c].at \in {"find", "load"}
  BY DEF load_meta, load_material, Fail, hist, dbVars, At, Faithful, CallsOK
<1>2. Grown /\ CreatedOK'
  BY <1>1, NothingDrawn DEF Faithful
<1>3. RowsOK' /\ PreloadOK' /\ ArchiveOK'
  BY <1>1, <1>2, TablesKept DEF Faithful, ArchiveOK
<1>4. /\ pc[c] \in Call /\ pc[c].key \in DOMAIN db /\ pc[c].key \in 1..drawn /\ pc[c].key \in Ids
      /\ c \in Clients /\ pc[c].op # "create" /\ pc[c].new = None
  BY <1>1 DEF CallOK, Call, CreateSteps, RotateSteps, Faithful, CallsOK
<1>5. CASE Return(c) /\ UNCHANGED cache
  BY <1>2, <1>3, <1>5, TablesKept, CallsReturn DEF Faithful
<1>6. ASSUME At(c, "find"), NEW m \in find_by_id(pc[c].key),
             pc' = [pc EXCEPT ![c].at = "load", ![c].meta = m], UNCHANGED cache
      PROVE  Faithful'
  <2>1. m \in Meta /\ Like(m, pc[c].key)
    BY <1>4, <1>6, ReadLike DEF find_by_id
  <2>2. PICK q : q = [pc[c] EXCEPT !.at = "load", !.meta = m]
    OBVIOUS
  <2>3. pc' = Put(pc, c, q)
    BY <1>1, <1>6, <2>2 DEF Put
  <2>4. q \in Call /\ q.key = pc[c].key /\ q.at = "load" /\ q.meta = m /\ q.op = pc[c].op /\ q.new = None
    BY <1>4, <2>1, <2>2 DEF Call, Steps
  <2>5. CallOK(q)
    BY <1>4, <2>1, <2>4 DEF CallOK, CreateSteps, RotateSteps
  <2>. QED BY <1>2, <1>3, <1>4, <1>6, <2>3, <2>5, CallKept, CallsGoOn, TablesKept DEF Faithful
<1>7. ASSUME At(c, "load"), NEW material \in find_encrypted_material(pc[c].key),
             TenantOk(pc[c].meta, pc[c].tenant),
             cache' = Put(cache, pc[c].key, NewEntry(pc[c].meta, material)),
             pc' = [pc EXCEPT ![c].at = "resolved", ![c].material = material]
      PROVE  Faithful'
  <2>0. PICK i, m : i = pc[c].key /\ m = pc[c].meta
    OBVIOUS
  <2>1. material = i /\ i \in Ids /\ i \in 1..drawn
    BY <1>4, <1>7, <2>0 DEF find_encrypted_material, Faithful, RowsOK, RowOK
  <2>2. m \in Meta /\ Like(m, i)
    BY <1>1, <1>7, <2>0 DEF CallOK, Call, At
  <2>3. Like(m, i)'
    BY <1>2, <2>1, <2>2, LikeKept DEF Faithful
  <2>4. CacheOK'
    BY <1>1, <1>2, <1>7, <2>0, <2>1, <2>2, <2>3, EntryCached
  <2>5. PICK q : q = [pc[c] EXCEPT !.at = "resolved", !.material = i]
    OBVIOUS
  <2>6. pc' = Put(pc, c, q)
    BY <1>1, <1>7, <2>1, <2>5 DEF Put
  <2>7. /\ q \in Call /\ q.key = i /\ q.at = "resolved" /\ q.meta = m /\ q.op = pc[c].op
        /\ q.new = None /\ q.material = i /\ q.tenant = pc[c].tenant
    BY <1>4, <2>0, <2>1, <2>5 DEF Call, Steps
  <2>8. m.tenant = pc[c].tenant
    BY <1>7, <2>0 DEF TenantOk
  <2>9. CallOK(q)
    BY <1>4, <2>0, <2>2, <2>7, <2>8 DEF CallOK, CreateSteps, RotateSteps
  <2>. QED BY <1>2, <1>3, <1>4, <2>4, <2>6, <2>9, CallKept, CallsGoOn DEF Faithful
<1>8. CASE load_meta(c)
  BY <1>5, <1>6, <1>8 DEF load_meta, Fail
<1>9. CASE load_material(c)
  BY <1>5, <1>7, <1>9 DEF load_material, Fail
<1>. QED BY <1>8, <1>9

\* rotate_key draws the successor's id, or returns.
LEMMA RotateKeyFaithful ==
    ASSUME Faithful, NEW c, NEW i, rotate_key(c, i)
    PROVE  Faithful'
<1>1. /\ UNCHANGED <<db, archive, cache, preload, ready>>
      /\ c \in DOMAIN pc /\ c \in Clients /\ CallOK(pc[c]) /\ pc[c].at = "resolved" /\ pc[c].op = "rotate"
  BY DEF rotate_key, At, Faithful, CallsOK
<1>2. CASE Return(c) /\ UNCHANGED <<drawn, created>>
  <2>1. Grown /\ CreatedOK'
    BY <1>1, <1>2, NothingDrawn DEF Faithful
  <2>. QED BY <1>1, <1>2, <2>1, TablesKept, CallsReturn DEF Faithful, ArchiveOK
<1>3. CASE /\ Draw(i, NewMeta(pc[c].meta.tenant, pc[c].meta.spec, pc[c].meta.version + 1))
           /\ pc' = [pc EXCEPT ![c].at = "r_insert", ![c].new = i]
  <2>0. PICK m, k : /\ m = pc[c].meta
                    /\ k = NewMeta(pc[c].meta.tenant, pc[c].meta.spec, pc[c].meta.version + 1)
    OBVIOUS
  <2>1. pc[c] \in Call /\ m \in Meta
    BY <1>1, <2>0 DEF CallOK, Call
  <2>2. k \in Meta /\ k.status = "Active" /\ k = NewMeta(m.tenant, m.spec, m.version + 1)
    BY <2>0, <2>1 DEF Meta, NewMeta, KeyStatus
  <2>3. Grown /\ CreatedOK' /\ i \in Ids /\ i \in 1..drawn' /\ created'[i] = k
    BY <1>1, <1>3, <2>0, <2>2, DrawGrows DEF Faithful
  <2>4. RowsOK' /\ CacheOK' /\ PreloadOK' /\ ArchiveOK'
    BY <1>1, <2>3, TablesKept DEF Faithful, ArchiveOK
  <2>5. PICK p, q : p = pc[c] /\ q = [pc[c] EXCEPT !.at = "r_insert", !.new = i]
    OBVIOUS
  <2>6. pc' = Put(pc, c, q)
    BY <1>1, <1>3, <2>5 DEF Put
  <2>7. /\ q \in Call /\ q.at = "r_insert" /\ q.new = i /\ q.op = p.op /\ q.key = p.key
        /\ q.tenant = p.tenant /\ q.meta = m /\ p.meta = m /\ q.material = p.material
    BY <2>0, <2>1, <2>3, <2>5 DEF Call, Steps, RotateSteps
  <2>8. CallOK(p)'
    BY <1>1, <2>3, <2>5, CallKept DEF Faithful
  <2>9. CallOK(q)'
    BY <1>1, <2>2, <2>3, <2>5, <2>7, <2>8 DEF CallOK, CreateSteps, RotateSteps
  <2>. QED BY <1>1, <2>3, <2>4, <2>6, <2>9, CallsGoOn DEF Faithful
<1>. QED BY <1>2, <1>3 DEF rotate_key

\* The last steps of a rotation and of a deletion change the cache.
LEMMA LastStepsFaithful ==
    ASSUME Faithful, NEW c, rotate_cache(c) \/ delete_cache(c)
    PROVE  Faithful'
<1>1. /\ UNCHANGED <<db, archive, preload, ready, drawn, created>>
      /\ c \in DOMAIN pc /\ Return(c)
  BY DEF rotate_cache, delete_cache, At
<1>2. Grown /\ CreatedOK'
  BY <1>1, NothingDrawn DEF Faithful
<1>3. CallsOK' /\ RowsOK' /\ PreloadOK' /\ ArchiveOK'
  BY <1>1, <1>2, TablesKept, CallsReturn DEF Faithful, ArchiveOK
<1>4. DOMAIN cache \subseteq 1..drawn
  BY DEF Faithful, CacheOK
<1>5. CASE rotate_cache(c)
  <2>1. pc[c].at \in RotateSteps
    BY <1>5 DEF rotate_cache, At, RotateSteps
  <2>2. PICK n, m : n = pc[c].new /\ m = Successor(c)
    OBVIOUS
  <2>3. n \in 1..drawn /\ n \in Ids /\ m \in Meta /\ Like(m, n)
    BY <1>1, <2>1, <2>2, RotatingCall
  <2>4. PICK f : f = Marked(pc[c].key, "Obsolete")
    OBVIOUS
  <2>5. DOMAIN f = DOMAIN cache
        /\ \A j \in DOMAIN f : f[j] \in Entry /\ Like(f[j].meta, j) /\ f[j].material = j
    BY <2>4, EntryMarked DEF KeyStatus
  <2>6. cache' = Put(f, n, NewEntry(m, n))
    BY <1>5, <2>2, <2>4 DEF rotate_cache
  <2>7. NewEntry(m, n) \in Entry /\ NewEntry(m, n).meta = m /\ NewEntry(m, n).material = n
    BY <2>3 DEF NewEntry, Entry
  <2>8. DOMAIN cache' \subseteq 1..drawn'
    BY <1>1, <1>4, <2>3, <2>5, <2>6 DEF Put
  <2>9. \A j \in DOMAIN cache' : cache'[j] \in Entry /\ Like(cache'[j].meta, j) /\ cache'[j].material = j
    BY <2>3, <2>5, <2>6, <2>7 DEF Put
  <2>. QED BY <1>1, <1>2, <1>3, <2>8, <2>9 DEF Faithful, CacheOK, CachedOK, Like
<1>6. CASE delete_cache(c)
  <2>1. PICK f : f = Marked(pc[c].key, "PendingDeletion") /\ cache' = f
    BY <1>6 DEF delete_cache
  <2>2. DOMAIN f = DOMAIN cache
        /\ \A j \in DOMAIN f : f[j] \in Entry /\ Like(f[j].meta, j) /\ f[j].material = j
    BY <2>1, EntryMarked DEF KeyStatus
  <2>. QED BY <1>1, <1>2, <1>3, <1>4, <2>1, <2>2 DEF Faithful, CacheOK, CachedOK, Like
<1>. QED BY <1>5, <1>6

\* What the preload has listed and read.
LEMMA PreloadFaithful ==
    ASSUME Faithful, Preload
    PROVE  Faithful'
<1>1. UNCHANGED <<db, archive, pc, drawn, created>>
  BY DEF Preload, preload_list, preload_read, preload_insert, preload_done, hist
<1>2. Grown /\ CreatedOK'
  BY <1>1, NothingDrawn DEF Faithful
<1>3. RowsOK' /\ ArchiveOK' /\ CallsOK' /\ (UNCHANGED cache => CacheOK')
  BY <1>1, <1>2, TablesKept, CallsStay DEF Faithful, ArchiveOK
<1>. DEFINE Todo == Ids \X Meta \X (Ids \cup {None})
            Stages == {"list", "loading", "failed", "done"}
<1>4. preload \in [at : Stages, todo : SUBSET Todo] /\ ready \in BOOLEAN
      /\ \A x \in preload.todo : ListedOK(x)
  BY DEF Faithful, PreloadOK
<1>5. \A x : ListedOK(x) => ListedOK(x)'
  BY <1>1 DEF ListedOK, Like
<1>6. ASSUME NEW x \in preload.todo, preload' = preload_skip(x), UNCHANGED ready
      PROVE  PreloadOK'
  BY <1>4, <1>5, <1>6 DEF preload_skip, PreloadOK
<1>7. CASE preload_list
  <2>1. UNCHANGED <<cache, ready>>
    BY <1>7 DEF preload_list
  <2>2. CASE preload' = [at |-> "loading",
                         todo |-> {<<i, FromEntity(db[i].meta), None>> : i \in list_all_tenants}]
    <3>1. ASSUME NEW i \in list_all_tenants
          PROVE  ListedOK(<<i, FromEntity(db[i].meta), None>>)
      <4>1. i \in DOMAIN db /\ i \in Ids
        BY ConstantsAssumption DEF list_all_tenants, Faithful, RowsOK, CreatedOK, Ids
      <4>. QED BY <4>1, ReadLike DEF ListedOK
    <3>2. \A x \in preload'.todo : ListedOK(x)
      BY <2>2, <3>1
    <3>3. preload'.todo \in SUBSET Todo
      BY <3>2 DEF ListedOK
    <3>4. preload' \in [at : Stages, todo : SUBSET Todo]
      BY <2>2, <3>3
    <3>. QED BY <1>2, <1>3, <1>4, <1>5, <2>1, <3>2, <3>4 DEF Faithful, PreloadOK
  <2>3. CASE preload' = [preload EXCEPT !.at = "failed"]
    <3>1. preload' \in [at : Stages, todo : SUBSET Todo] /\ preload'.todo = preload.todo
      BY <1>4, <2>3
    <3>. QED BY <1>2, <1>3, <1>4, <1>5, <2>1, <3>1 DEF Faithful, PreloadOK
  <2>. QED BY <1>7, <2>2, <2>3 DEF preload_list
<1>8. ASSUME NEW x \in preload.todo, preload_read(x)
      PROVE  Faithful'
  <2>1. UNCHANGED <<cache, ready>>
    BY <1>8 DEF preload_read
  <2>2. ASSUME NEW material \in find_encrypted_material(x[1]),
               preload' = [preload EXCEPT !.todo = (@ \ {x}) \cup {<<x[1], x[2], material>>}]
        PROVE  Faithful'
    <3>1. ListedOK(x)
      BY <1>4
    <3>2. material = x[1]
      BY <2>2, <3>1 DEF find_encrypted_material, ListedOK, Faithful, RowsOK, RowOK
    <3>3. ListedOK(<<x[1], x[2], material>>)
      BY <3>1, <3>2 DEF ListedOK
    <3>4. preload'.todo = (preload.todo \ {x}) \cup {<<x[1], x[2], material>>} /\ preload'.at = preload.at
      BY <1>4, <2>2
    <3>5. \A y \in preload'.todo : ListedOK(y)
      BY <1>4, <3>3, <3>4
    <3>6. preload'.todo \in SUBSET Todo
      BY <3>5 DEF ListedOK
    <3>7. preload' \in [at : Stages, todo : SUBSET Todo]
      BY <1>4, <2>2, <3>4, <3>6
    <3>. QED BY <1>2, <1>3, <1>4, <1>5, <2>1, <3>5, <3>7 DEF Faithful, PreloadOK
  <2>3. CASE preload' = preload_skip(x)
    BY <1>2, <1>3, <1>6, <2>1, <2>3 DEF Faithful
  <2>. QED BY <1>8, <2>2, <2>3 DEF preload_read
<1>9. ASSUME NEW x \in preload.todo, preload_insert(x)
      PROVE  Faithful'
  <2>1. ListedOK(x) /\ x[3] = x[1]
    BY <1>4, <1>9 DEF ListedOK, preload_insert
  <2>2. PICK i, m : i = x[1] /\ m = x[2]
    OBVIOUS
  <2>3. i \in Ids /\ i \in 1..drawn /\ m \in Meta /\ Like(m, i)
    BY <2>1, <2>2 DEF ListedOK, Faithful, RowsOK
  <2>4. Like(m, i)'
    BY <1>2, <2>3, LikeKept DEF Faithful
  <2>5. CacheOK'
    BY <1>1, <1>2, <1>9, <2>1, <2>2, <2>3, <2>4, EntryCached DEF preload_insert
  <2>6. PreloadOK'
    BY <1>6, <1>9 DEF preload_insert, preload_skip
  <2>. QED BY <1>2, <1>3, <2>5, <2>6 DEF Faithful
<1>10. CASE preload_done
  <2>1. PreloadOK' /\ UNCHANGED cache
    BY <1>10 DEF preload_done, PreloadOK
  <2>. QED BY <1>2, <1>3, <2>1 DEF Faithful
<1>. QED BY <1>7, <1>8, <1>9, <1>10 DEF Preload

\* A destruction, an eviction, a restart, and no step at all.
LEMMA DropsFaithful ==
    ASSUME Faithful,
           \/ \E i \in Ids : destroy_key(i) \/ Evict(i)
           \/ Restart
           \/ UNCHANGED vars
    PROVE  Faithful'
<1>1. UNCHANGED <<db, archive, drawn, created>>
  BY DEF destroy_key, Evict, Restart, vars, hist
<1>2. Grown /\ CreatedOK'
  BY <1>1, NothingDrawn DEF Faithful
<1>3. /\ RowsOK' /\ ArchiveOK' /\ (UNCHANGED cache => CacheOK')
      /\ (UNCHANGED <<preload, ready>> => PreloadOK') /\ (UNCHANGED pc => CallsOK')
  BY <1>1, <1>2, TablesKept, CallsStay DEF Faithful, ArchiveOK
<1>4. ASSUME NEW i \in Ids, destroy_key(i) \/ Evict(i)
      PROVE  Faithful'
  <2>1. cache' = Drop(cache, i) /\ UNCHANGED <<preload, ready, pc>>
    BY <1>4 DEF destroy_key, Evict
  <2>2. CacheOK'
    BY <1>1, <2>1, EntryDropped DEF Faithful
  <2>. QED BY <1>2, <1>3, <2>1, <2>2 DEF Faithful
<1>5. CASE Restart
  <2>1. CacheOK' /\ CallsOK' /\ PreloadOK'
    BY <1>5 DEF Restart, CacheOK, CallsOK, PreloadOK
  <2>. QED BY <1>2, <1>3, <2>1 DEF Faithful
<1>6. CASE UNCHANGED vars
  BY <1>2, <1>3, <1>6 DEF Faithful, vars
<1>. QED BY <1>4, <1>5, <1>6

\* Every step keeps the tables, the cache, the preload and the calls faithful
\* to what was created.
LEMMA NextFaithful == Faithful /\ [Next]_vars => Faithful'
<1>. SUFFICES ASSUME Faithful, [Next]_vars PROVE Faithful'
  OBVIOUS
<1>1. ASSUME NEW c \in Clients,
             \E i \in Ids, t \in Tenants, s \in Specs, op \in {"generate", "import"} : create(c, i, t, s, op)
      PROVE  Faithful'
  BY <1>1, CreateFaithful
<1>2. ASSUME NEW c \in Clients,
             \E op \in UseOps \cup {"rotate", "delete"}, i \in Ids, t \in Tenants : entry_for(c, op, i, t)
      PROVE  Faithful'
  BY <1>2, EntryForFaithful
<1>3. ASSUME NEW c \in Clients, create_insert(c) \/ create_material(c)
      PROVE  Faithful'
  BY <1>3, CreateWritesFaithful
<1>4. ASSUME NEW c \in Clients,
             \/ rotate_insert(c) \/ rotate_material(c) \/ rotate_status(c)
             \/ rotate_version(c) \/ update_version_rotated_at(c)
      PROVE  Faithful'
  BY <1>4, RotateWritesFaithful
<1>. QED
  BY <1>1, <1>2, <1>3, <1>4, AnswersFaithful, LoadFaithful, RotateKeyFaithful, LastStepsFaithful,
     DeleteFaithful, PreloadFaithful, DropsFaithful DEF Next

-----------------------------------------------------------------------------
(* What the tables remember.                                               *)

\* Rows and archive entries stay; a row keeps its material until it is
\* deleted, and what is off duty or deleted never comes back.
Forward ==
    /\ Grown
    /\ \A i \in DOMAIN db :
          /\ db[i].deleted => db'[i].deleted
          /\ Stored(i) => Stored(i)'
          /\ Retired(i) => Retired(i)'
    /\ \A x \in DOMAIN archive : x \in DOMAIN archive' /\ archive'[x] = archive[x]

\* No write.
LEMMA ForwardStays ==
    ASSUME Grown, UNCHANGED <<db, archive>>
    PROVE  Forward
  BY DEF Forward, Stored, Retired

\* A row is inserted under an id that has none.
LEMMA ForwardInsert ==
    ASSUME Grown, NEW i, i \notin DOMAIN db, NEW m, insert(i, m), UNCHANGED archive
    PROVE  Forward
<1>1. \A j \in DOMAIN db : j \in DOMAIN db' /\ db'[j] = db[j]
  BY DEF insert, Put
<1>. QED BY <1>1 DEF Forward, Stored, Retired

\* Material is set, to the key's own.
LEMMA ForwardMaterial ==
    ASSUME Faithful, Grown, NEW i, update_encrypted_material(i, i), UNCHANGED archive
    PROVE  Forward
<1>1. \A j \in DOMAIN db :
         /\ j \in DOMAIN db' /\ db'[j].deleted = db[j].deleted /\ db'[j].meta = db[j].meta
         /\ db'[j].material = db[j].material \/ (j = i /\ db'[j].material = j)
  BY DEF update_encrypted_material, Faithful, RowsOK, RowOK, Row
<1>. QED BY <1>1 DEF Forward, Stored, Retired

\* The status is set, to Obsolete only.
LEMMA ForwardStatus ==
    ASSUME Faithful, Grown, NEW i, update_status(i, "Obsolete"), UNCHANGED archive
    PROVE  Forward
<1>1. \A j \in DOMAIN db :
         /\ j \in DOMAIN db' /\ db'[j].deleted = db[j].deleted /\ db'[j].material = db[j].material
         /\ db'[j].meta.status \in {db[j].meta.status, "Obsolete"}
  BY DEF update_status, Faithful, RowsOK, RowOK, Row, Meta
<1>. QED BY <1>1 DEF Forward, Stored, Retired

\* A row is marked as deleted.
LEMMA ForwardDelete ==
    ASSUME Faithful, Grown, NEW i, soft_delete(i), UNCHANGED archive
    PROVE  Forward
<1>1. \A j \in DOMAIN db :
         /\ j \in DOMAIN db' /\ (db[j].deleted => db'[j].deleted)
         /\ db'[j].material = db[j].material /\ db'[j].meta = db[j].meta
  BY DEF soft_delete, Faithful, RowsOK, RowOK, Row
<1>. QED BY <1>1 DEF Forward, Stored, Retired

\* The unique constraint keeps an archive entry from being overwritten.
LEMMA ForwardVersion ==
    ASSUME Grown, NEW i, NEW v, NEW material, CanInsertVersion(i, v),
           insert_version(i, v, material), UNCHANGED db
    PROVE  Forward
<1>1. \A x \in DOMAIN archive : x \in DOMAIN archive' /\ archive'[x] = archive[x]
  BY DEF CanInsertVersion, insert_version, Put
<1>. QED BY <1>1 DEF Forward, Stored, Retired

\* An archived key stays archived.
LEMMA ArchivedKept ==
    ASSUME Faithful, Forward, NEW i \in DOMAIN db, Archived(i)
    PROVE  Archived(i)'
  BY DEF Faithful, RowsOK, Forward, Grown, Archived

-----------------------------------------------------------------------------
(* History, action by action.                                              *)

\* No call moves: it stays where it is, or it ends.
Ended == \A d \in DOMAIN pc' : d \in DOMAIN pc /\ pc'[d] = pc[d]
Settled == Ended /\ UNCHANGED <<acked, rotations, out>>

\* Nothing that a deletion left behind is undone.
Buried ==
    /\ gone' \in [{"deleted", "destroyed"} -> SUBSET Ids]
    /\ gone'.deleted = gone.deleted
    /\ \A i \in gone.deleted : i \in DOMAIN cache' => cache'[i].meta.status # "Active"
    /\ \A x \in preload'.todo : x[1] \notin gone.deleted

\* Where cache, preload and history stay.
LEMMA BuriedStays ==
    ASSUME Deleted, UNCHANGED <<cache, preload, gone>>
    PROVE  Buried
  BY DEF Deleted, Buried, Loading

\* What was answered stays true.
LEMMA AnsweredKept ==
    ASSUME Faithful, Answered, Grown, UNCHANGED out
    PROVE  Answered'
<1>1. 1..drawn \subseteq 1..drawn'
  BY DEF Faithful, CreatedOK, Grown
<1>. QED BY <1>1 DEF Answered, Grown

\* Each part of the history where calls only end.
LEMMA OwnedEnded ==
    ASSUME IInv, Ended, Unclaimed'
    PROVE  Owned'
  BY DEF IInv, History, Owned, Ended

\* Acknowledgements, where calls only end.
LEMMA DurableEnded ==
    ASSUME IInv, Forward, Ended, \A i \in acked' : i \in acked \/ Stored(i)'
    PROVE  Durable'
<1>1. \A i : Stored(i) => Stored(i)'
  BY DEF Forward, Stored
<1>2. DOMAIN db \subseteq DOMAIN db'
  BY DEF Forward, Grown
<1>. QED BY <1>1, <1>2 DEF IInv, History, Durable, Ended

\* Rotations, where calls only end.
LEMMA SuccessionEnded ==
    ASSUME IInv, Forward, Ended, UNCHANGED rotations
    PROVE  Succession'
<1>1. \A i \in DOMAIN db : (Retired(i) => Retired(i)') /\ (Archived(i) => Archived(i)') /\ i \in DOMAIN db'
  BY ArchivedKept DEF Forward, IInv, Grown
<1>2. \A c \in DOMAIN pc : pc[c].at \in RotateSteps => pc[c].key \in DOMAIN db
  BY RotatingCall DEF IInv
<1>. QED BY <1>1, <1>2 DEF IInv, History, Succession, Ended, Archiving, RotateSteps

\* Deletions, where calls only end.
LEMMA DeletedEnded ==
    ASSUME IInv, Forward, Ended, Buried
    PROVE  Deleted'
<1>1. \A i \in gone.deleted : i \in DOMAIN db' /\ db'[i].deleted
  BY DEF Forward, Grown, IInv, History, Deleted
<1>2. \A i \in gone.deleted : ~Loading(i)'
  BY DEF IInv, History, Deleted, Loading, Ended, Buried
<1>3. \A c \in DOMAIN pc : pc[c].at = "d_cache" => pc[c].key \in DOMAIN db
  BY DEF IInv, Faithful, CallsOK, CallOK, CreateSteps
<1>. QED BY <1>1, <1>2, <1>3 DEF IInv, History, Deleted, Ended, Buried, Forward

\* A step that ends calls and acknowledges nothing.
LEMMA SettledHistory ==
    ASSUME IInv, Forward, Settled, Unclaimed', Buried
    PROVE  History'
<1>1. Owned' /\ Durable' /\ Succession' /\ Deleted'
  BY OwnedEnded, DurableEnded, SuccessionEnded, DeletedEnded DEF Settled
<1>2. Answered'
  BY AnsweredKept DEF IInv, History, Forward, Settled
<1>. QED BY <1>1, <1>2 DEF History

\* The ids that calls have in creation.
LEMMA NewIsDrawn ==
    ASSUME Faithful, NEW c \in DOMAIN pc
    PROVE  pc[c].new = None \/ pc[c].new \in 1..drawn
  BY DEF Faithful, CallsOK, CallOK

\* Call q of client c takes its place beside the others: it owns the id it
\* creates, and has done what its step stands for.
Placed(c, q) ==
    /\ \/ q.new = None
       \/ q.new \notin 1..drawn
       \/ c \in DOMAIN pc /\ q.new = pc[c].new
    /\ q.at \in {"c_insert", "r_insert"} => q.new \notin DOMAIN db'
    /\ q.at \in {"c_material", "r_material"} => q.new \in DOMAIN db'
Furthered(c, q) ==
    /\ q.at \in {"c_ok", "r_status", "r_version", "r_rotated_at", "r_cache"} => Stored(q.new)'
    /\ q.at \in {"r_version", "r_rotated_at", "r_cache"} => Retired(q.key)'
    /\ q.at \in {"r_rotated_at", "r_cache"} =>
          /\ Archived(q.key)'
          /\ \A r \in rotations : r[1] # q.key
          /\ \A d \in DOMAIN pc : Archiving(d) /\ d # c => pc[d].key # q.key
    /\ q.at = "d_cache" => db'[q.key].deleted
Unloading(q) ==
    /\ "deleted" \in q.late => q.key \in gone.deleted
    /\ q.at = "resolved" /\ "deleted" \in q.late => q.meta.status # "Active"
    /\ q.at = "load" => q.key \notin gone.deleted
    /\ q.op = "rotate" => q.new \notin gone.deleted

\* A step in which one call moves on or begins.
LEMMA MovedHistory ==
    ASSUME IInv, Forward, NEW c, NEW q, pc' = Put(pc, c, q), UNCHANGED <<acked, rotations, out>>,
           \A d \in DOMAIN pc : d # c /\ pc[d].at \in {"c_insert", "r_insert"} => pc[d].new \notin DOMAIN db',
           Buried, Placed(c, q), Furthered(c, q), Unloading(q)
    PROVE  History'
<1>0. /\ DOMAIN pc' = DOMAIN pc \cup {c} /\ pc'[c] = q
      /\ \A d \in DOMAIN pc' : d # c => d \in DOMAIN pc /\ pc'[d] = pc[d]
  BY DEF Put
<1>1. Owned'
  <2>1. \A d \in DOMAIN pc : d # c => (q.new = None \/ pc[d].new # q.new)
    BY NewIsDrawn DEF IInv, History, Owned, Placed
  <2>2. \A d, e \in DOMAIN pc' : d # e /\ pc'[d].new # None => pc'[d].new # pc'[e].new
    BY <1>0, <2>1 DEF IInv, History, Owned
  <2>3. Unclaimed'
    BY <1>0 DEF Unclaimed, Placed
  <2>. QED BY <2>2, <2>3 DEF Owned
<1>2. Durable'
  <2>1. \A i : Stored(i) => Stored(i)'
    BY DEF Forward, Stored
  <2>2. DOMAIN db \subseteq DOMAIN db'
    BY DEF Forward, Grown
  <2>. QED BY <1>0, <2>1, <2>2 DEF IInv, History, Durable, Placed, Furthered
<1>3. Succession'
  <2>1. \A i \in DOMAIN db : (Retired(i) => Retired(i)') /\ (Archived(i) => Archived(i)') /\ i \in DOMAIN db'
    BY ArchivedKept DEF Forward, IInv, Grown
  <2>2. \A d \in DOMAIN pc : pc[d].at \in RotateSteps => pc[d].key \in DOMAIN db
    BY RotatingCall DEF IInv
  <2>3. \A r \in rotations : r[1] \in DOMAIN db' /\ Archived(r[1])' /\ Retired(r[1])'
    BY <2>1 DEF IInv, History, Succession
  <2>4. ASSUME NEW d \in DOMAIN pc, d # c
        PROVE  /\ (pc[d].at \in {"r_version", "r_rotated_at", "r_cache"} => Retired(pc[d].key))'
               /\ (Archiving(d) => Archived(pc[d].key))'
               /\ Archiving(d)' => \A r \in rotations : r[1] # pc'[d].key
    <3>1. PICK k, at : k = pc[d].key /\ at = pc[d].at
      OBVIOUS
    <3>2. pc'[d].key = k /\ pc'[d].at = at
      BY <1>0, <2>4, <3>1
    <3>3. at \in RotateSteps => k \in DOMAIN db
      BY <2>2, <3>1
    <3>4. /\ at \in {"r_version", "r_rotated_at", "r_cache"} => Retired(k)
          /\ at \in {"r_rotated_at", "r_cache"} => Archived(k) /\ \A r \in rotations : r[1] # k
      BY <3>1 DEF IInv, History, Succession, Archiving
    <3>5. /\ at \in {"r_version", "r_rotated_at", "r_cache"} => Retired(k)'
          /\ at \in {"r_rotated_at", "r_cache"} => Archived(k)'
      BY <2>1, <3>3, <3>4 DEF RotateSteps
    <3>6. Archiving(d)' => at \in {"r_rotated_at", "r_cache"}
      BY <3>2 DEF Archiving
    <3>7. (Retired(k)' => Retired(pc[d].key)') /\ (Archived(k)' => Archived(pc[d].key)')
      BY <3>2 DEF Retired, Archived
    <3>. QED BY <3>2, <3>4, <3>5, <3>6, <3>7
  <2>5. /\ (pc[c].at \in {"r_version", "r_rotated_at", "r_cache"} => Retired(pc[c].key))'
        /\ (Archiving(c) => Archived(pc[c].key))'
        /\ Archiving(c)' => \A r \in rotations : r[1] # pc'[c].key
    BY <1>0 DEF Furthered, Archiving, Retired, Archived
  <2>6. \A d, e \in DOMAIN pc' : (Archiving(d) /\ Archiving(e) /\ d # e => pc[d].key # pc[e].key)'
    BY <1>0 DEF Furthered, Archiving, IInv, History, Succession
  <2>. QED BY <1>0, <2>3, <2>4, <2>5, <2>6 DEF IInv, History, Succession, Archiving, Retired, Archived
<1>4. Deleted'
  <2>1. \A i \in gone.deleted : i \in DOMAIN db' /\ db'[i].deleted
    BY DEF Forward, Grown, IInv, History, Deleted
  <2>2. ASSUME NEW i \in gone.deleted PROVE ~Loading(i)'
    BY <1>0, <2>2 DEF IInv, History, Deleted, Loading, Buried, Unloading
  <2>3. \A d \in DOMAIN pc : pc[d].at = "d_cache" => pc[d].key \in DOMAIN db
    BY DEF IInv, Faithful, CallsOK, CallOK, CreateSteps
  <2>. QED BY <1>0, <2>1, <2>2, <2>3 DEF IInv, History, Deleted, Buried, Forward, Furthered, Unloading
<1>5. Answered'
  BY AnsweredKept DEF IInv, History, Forward
<1>. QED BY <1>1, <1>2, <1>3, <1>4, <1>5 DEF History

\* A database write of call c: the call moves on, or it ends.
LEMMA WriteHistory ==
    ASSUME IInv, Forward, NEW c \in DOMAIN pc, NEW next, NEW q, q = [pc[c] EXCEPT !.at = next],
           UNCHANGED <<cache, preload, acked, rotations, gone, out>>,
           DOMAIN db' \subseteq DOMAIN db \cup ({pc[c].new} \ {None}),
           next \notin {"c_insert", "r_insert", "load", "resolved"},
           \/ /\ Goto(c, next) /\ Furthered(c, q)
              /\ next \in {"c_material", "r_material"} => q.new \in DOMAIN db'
           \/ Return(c)
    PROVE  History'
<1>1. \A d \in DOMAIN pc : d # c /\ pc[d].at \in {"c_insert", "r_insert"} => pc[d].new \notin DOMAIN db'
  BY DEF IInv, History, Owned, Unclaimed
<1>2. Buried
  BY BuriedStays DEF IInv, History
<1>3. CASE Return(c)
  <2>1. Settled /\ Unclaimed'
    BY <1>1, <1>3 DEF Return, Drop, Settled, Ended, Unclaimed
  <2>. QED BY <1>2, <2>1, SettledHistory
<1>4. CASE Goto(c, next) /\ Furthered(c, q) /\ (next \in {"c_material", "r_material"} => q.new \in DOMAIN db')
  <2>1. pc' = Put(pc, c, q)
    BY <1>4, GotoIsPut
  <2>2. pc[c] \in Call
    BY DEF IInv, Faithful, CallsOK, CallOK
  <2>3. q.at = next /\ q.new = pc[c].new /\ q.late = pc[c].late /\ q.key = pc[c].key /\ q.op = pc[c].op
    BY <2>2 DEF Call
  <2>4. Placed(c, q)
    BY <1>4, <2>3 DEF Placed
  <2>5. Unloading(q)
    BY <2>3 DEF Unloading, IInv, History, Deleted, Loading
  <2>. QED BY <1>1, <1>2, <1>4, <2>1, <2>4, <2>5, MovedHistory
<1>. QED BY <1>3, <1>4

\* The writes of a creation: the row, then its material.
LEMMA CreateWritesHistory ==
    ASSUME IInv, NEW c, create_insert(c) \/ create_material(c)
    PROVE  History'
<1>1. c \in DOMAIN pc /\ CallOK(pc[c]) /\ pc[c].at \in {"c_insert", "c_material"}
  BY DEF IInv, Faithful, CallsOK, create_insert, create_material, Write, At
<1>2. /\ pc[c] \in Call /\ pc[c].key \in 1..drawn /\ pc[c].key \in Ids /\ pc[c].new = pc[c].key
      /\ pc[c].material = pc[c].key /\ pc[c].new # None
  BY <1>1 DEF CallOK, Call, CreateSteps, Ids, None
<1>3. CASE create_insert(c)
  <2>1. /\ pc[c].at = "c_insert"
        /\ UNCHANGED <<cache, preload, drawn, created, acked, rotations, gone, out, archive>>
        /\ \/ insert(pc[c].new, pc[c].meta) /\ (Goto(c, "c_material") \/ Return(c))
           \/ UNCHANGED db /\ Return(c)
    BY <1>2, <1>3 DEF create_insert, Write, Fail, At, hist, dbVars
  <2>2. pc[c].new \notin DOMAIN db
    BY <1>1, <2>1 DEF IInv, History, Owned, Unclaimed
  <2>3. insert(pc[c].new, pc[c].meta) => DOMAIN db' = DOMAIN db \cup {pc[c].new}
    BY DEF insert, Put
  <2>4. Grown
    BY <2>1, <2>3, NothingDrawn DEF IInv, Faithful
  <2>5. Forward
    BY <2>1, <2>2, <2>4, ForwardInsert, ForwardStays
  <2>6. PICK q : q = [pc[c] EXCEPT !.at = "c_material"]
    OBVIOUS
  <2>7. q.at = "c_material" /\ q.new = pc[c].new
    BY <1>2, <2>6 DEF Call
  <2>8. Furthered(c, q)
    BY <2>7 DEF Furthered
  <2>. QED BY <1>1, <1>2, <2>1, <2>3, <2>5, <2>6, <2>7, <2>8, WriteHistory
<1>4. CASE create_material(c)
  <2>0. PICK i : i = pc[c].new
    OBVIOUS
  <2>1. /\ pc[c].at = "c_material"
        /\ UNCHANGED <<cache, preload, drawn, created, acked, rotations, gone, out, archive>>
        /\ \/ update_encrypted_material(i, i) /\ (Goto(c, "c_ok") \/ Return(c))
           \/ UNCHANGED db /\ Return(c)
    BY <1>2, <1>4, <2>0 DEF create_material, Write, Fail, At, hist, dbVars
  <2>2. DOMAIN db' = DOMAIN db
    BY <2>1 DEF update_encrypted_material
  <2>3. Grown
    BY <2>1, <2>2, NothingDrawn DEF IInv, Faithful
  <2>4. Forward
    BY <2>1, <2>3, ForwardMaterial, ForwardStays DEF IInv
  <2>5. i \in DOMAIN db
    BY <1>1, <2>0, <2>1 DEF IInv, History, Durable
  <2>6. update_encrypted_material(i, i) => Stored(i)'
    BY <2>5 DEF update_encrypted_material, Stored, Live, IInv, Faithful, RowsOK, RowOK, Row
  <2>7. PICK q : q = [pc[c] EXCEPT !.at = "c_ok"]
    OBVIOUS
  <2>8. q.at = "c_ok" /\ q.new = i
    BY <1>2, <2>0, <2>7 DEF Call
  <2>9. update_encrypted_material(i, i) => Furthered(c, q)
    BY <2>6, <2>8 DEF Furthered
  <2>. QED BY <1>1, <1>2, <2>1, <2>2, <2>4, <2>7, <2>8, <2>9, WriteHistory
<1>. QED BY <1>3, <1>4

\* The writes of a rotation; the archive entry decides between two of them.
LEMMA RotateWritesHistory ==
    ASSUME IInv, NEW c,
           \/ rotate_insert(c) \/ rotate_material(c) \/ rotate_status(c)
           \/ rotate_version(c) \/ update_version_rotated_at(c)
    PROVE  History'
<1>1. c \in DOMAIN pc /\ pc[c] \in Call /\ pc[c].at \in RotateSteps
  BY DEF IInv, Faithful, CallsOK, CallOK, rotate_insert, rotate_material, rotate_status,
         rotate_version, update_version_rotated_at, Write, At, RotateSteps
<1>2. PICK i, k, v, m : i = pc[c].new /\ k = pc[c].key /\ v = pc[c].meta.version /\ m = Successor(c)
  OBVIOUS
<1>3. /\ i \in Ids /\ i # None /\ k \in DOMAIN db /\ k \in 1..drawn
      /\ pc[c].material = k /\ v = created[k].version
  BY <1>1, <1>2, RotatingCall DEF IInv, Faithful, RowsOK, Ids, None
<1>. DEFINE Quiet == UNCHANGED <<cache, preload, drawn, created, acked, rotations, gone, out>>
<1>4. ASSUME NEW next, NEW q, q = [pc[c] EXCEPT !.at = next]
      PROVE  q.at = next /\ q.new = i /\ q.key = k
  BY <1>1, <1>2, <1>4 DEF Call
<1>5. CASE rotate_insert(c)
  <2>1. /\ pc[c].at = "r_insert" /\ Quiet /\ UNCHANGED archive
        /\ \/ insert(i, m) /\ (Goto(c, "r_material") \/ Return(c))
           \/ UNCHANGED db /\ Return(c)
    BY <1>2, <1>5 DEF rotate_insert, Write, Fail, At, hist, dbVars
  <2>2. i \notin DOMAIN db
    BY <1>1, <1>2, <2>1 DEF IInv, History, Owned, Unclaimed
  <2>3. insert(i, m) => DOMAIN db' = DOMAIN db \cup {i}
    BY DEF insert, Put
  <2>4. Grown
    BY <2>1, <2>3, NothingDrawn DEF IInv, Faithful
  <2>5. Forward
    BY <2>1, <2>2, <2>4, ForwardInsert, ForwardStays
  <2>6. PICK q : q = [pc[c] EXCEPT !.at = "r_material"]
    OBVIOUS
  <2>7. Furthered(c, q)
    BY <1>4, <2>6 DEF Furthered
  <2>. QED BY <1>1, <1>2, <1>3, <1>4, <2>1, <2>3, <2>5, <2>6, <2>7, WriteHistory
<1>6. CASE rotate_material(c)
  <2>1. /\ pc[c].at = "r_material" /\ Quiet /\ UNCHANGED archive
        /\ \/ update_encrypted_material(i, i) /\ (Goto(c, "r_status") \/ Return(c))
           \/ UNCHANGED db /\ Return(c)
    BY <1>2, <1>6 DEF rotate_material, Write, Fail, At, hist, dbVars
  <2>2. DOMAIN db' = DOMAIN db
    BY <2>1 DEF update_encrypted_material
  <2>3. Grown
    BY <2>1, <2>2, NothingDrawn DEF IInv, Faithful
  <2>4. Forward
    BY <2>1, <2>3, ForwardMaterial, ForwardStays DEF IInv
  <2>5. i \in DOMAIN db
    BY <1>1, <1>2, <2>1 DEF IInv, History, Durable
  <2>6. update_encrypted_material(i, i) => Stored(i)'
    BY <2>5 DEF update_encrypted_material, Stored, Live, IInv, Faithful, RowsOK, RowOK, Row
  <2>7. PICK q : q = [pc[c] EXCEPT !.at = "r_status"]
    OBVIOUS
  <2>8. q.at = "r_status" /\ q.new = i
    BY <1>4, <2>7
  <2>9. update_encrypted_material(i, i) => Furthered(c, q)
    BY <2>6, <2>8 DEF Furthered
  <2>. QED BY <1>1, <1>2, <1>3, <2>1, <2>2, <2>4, <2>7, <2>9, WriteHistory
<1>7. CASE rotate_status(c)
  <2>1. /\ pc[c].at = "r_status" /\ Quiet /\ UNCHANGED archive
        /\ \/ update_status(k, "Obsolete") /\ (Goto(c, "r_version") \/ Return(c))
           \/ UNCHANGED db /\ Return(c)
    BY <1>2, <1>7 DEF rotate_status, Write, Fail, At, hist, dbVars
  <2>2. DOMAIN db' = DOMAIN db
    BY <2>1 DEF update_status
  <2>3. Grown
    BY <2>1, <2>2, NothingDrawn DEF IInv, Faithful
  <2>4. Forward
    BY <2>1, <2>3, ForwardStatus, ForwardStays DEF IInv
  <2>5. Stored(i)'
    BY <1>1, <1>2, <2>1, <2>4 DEF IInv, History, Durable, Forward, Stored
  <2>6. update_status(k, "Obsolete") => Retired(k)'
    BY <1>3 DEF update_status, Retired, Live, IInv, Faithful, RowsOK, RowOK, Row, Meta
  <2>7. PICK q : q = [pc[c] EXCEPT !.at = "r_version"]
    OBVIOUS
  <2>8. update_status(k, "Obsolete") => Furthered(c, q)
    BY <1>4, <2>5, <2>6, <2>7 DEF Furthered
  <2>. QED BY <1>1, <1>2, <1>3, <2>1, <2>2, <2>4, <2>7, <2>8, WriteHistory
<1>8. CASE rotate_version(c)
  <2>1. /\ pc[c].at = "r_version" /\ Quiet /\ UNCHANGED db
        /\ \/ CanInsertVersion(k, v) /\ insert_version(k, v, k) /\ (Goto(c, "r_rotated_at") \/ Return(c))
           \/ UNCHANGED archive /\ Return(c)
    BY <1>2, <1>3, <1>8 DEF rotate_version, Write, Fail, At, hist, dbVars
  <2>2. Grown
    BY <2>1, NothingDrawn DEF IInv, Faithful
  <2>3. Forward
    BY <2>1, <2>2, ForwardVersion, ForwardStays
  <2>4. Stored(i)' /\ Retired(k)'
    BY <1>1, <1>2, <1>3, <2>1, <2>3 DEF IInv, History, Durable, Succession, Forward, Stored
  <2>5. insert_version(k, v, k) => Archived(k)'
    BY <1>3, <2>1 DEF insert_version, Put, Archived
  <2>6. CanInsertVersion(k, v) => ~Archived(k)
    BY <1>3 DEF CanInsertVersion, Archived
  <2>7. CanInsertVersion(k, v) =>
           /\ \A r \in rotations : r[1] # k
           /\ \A d \in DOMAIN pc : Archiving(d) => pc[d].key # k
    BY <2>6 DEF IInv, History, Succession
  <2>8. PICK q : q = [pc[c] EXCEPT !.at = "r_rotated_at"]
    OBVIOUS
  <2>9. CanInsertVersion(k, v) /\ insert_version(k, v, k) => Furthered(c, q)
    BY <1>4, <2>4, <2>5, <2>7, <2>8, ZenonT(40) DEF Furthered
  <2>. QED BY <1>1, <1>2, <1>3, <2>1, <2>3, <2>8, <2>9, WriteHistory
<1>9. CASE update_version_rotated_at(c)
  <2>1. /\ pc[c].at = "r_rotated_at" /\ Quiet /\ UNCHANGED <<db, archive>>
        /\ Goto(c, "r_cache") \/ Return(c)
    BY <1>9 DEF update_version_rotated_at, Write, Fail, At, hist, dbVars
  <2>2. Grown
    BY <2>1, NothingDrawn DEF IInv, Faithful
  <2>3. Forward
    BY <2>1, <2>2, ForwardStays
  <2>4. Stored(i)' /\ Retired(k)' /\ Archived(k)'
    BY <1>1, <1>2, <1>3, <2>1, <2>3, ArchivedKept
       DEF IInv, History, Durable, Succession, Archiving, Forward, Stored
  <2>5. /\ \A r \in rotations : r[1] # k
        /\ \A d \in DOMAIN pc : Archiving(d) /\ d # c => pc[d].key # k
    BY <1>1, <1>2, <2>1 DEF IInv, History, Succession, Archiving
  <2>6. PICK q : q = [pc[c] EXCEPT !.at = "r_cache"]
    OBVIOUS
  <2>7. Furthered(c, q)
    BY <1>4, <2>4, <2>5, <2>6, ZenonT(40) DEF Furthered
  <2>. QED BY <1>1, <1>2, <1>3, <2>1, <2>3, <2>6, <2>7, WriteHistory
<1>. QED BY <1>5, <1>6, <1>7, <1>8, <1>9

\* The write of a deletion.
LEMMA DeleteHistory ==
    ASSUME IInv, NEW c, delete_key(c)
    PROVE  History'
<1>1. c \in DOMAIN pc /\ pc[c].at = "resolved" /\ pc[c] \in Call /\ pc[c].key \in DOMAIN db
  BY DEF delete_key, At, IInv, Faithful, CallsOK, CallOK, CreateSteps
<1>2. PICK k : k = pc[c].key
  OBVIOUS
<1>3. /\ UNCHANGED <<cache, preload, drawn, created, acked, rotations, gone, out, archive>>
      /\ \/ soft_delete(k) /\ (Goto(c, "d_cache") \/ Return(c))
         \/ UNCHANGED db /\ Return(c)
  BY <1>2 DEF delete_key, Write, Fail, At, hist, dbVars
<1>4. DOMAIN db' = DOMAIN db
  BY <1>3 DEF soft_delete
<1>5. Grown
  BY <1>3, <1>4, NothingDrawn DEF IInv, Faithful
<1>6. Forward
  BY <1>3, <1>5, ForwardDelete, ForwardStays DEF IInv
<1>7. soft_delete(k) => db'[k].deleted
  BY <1>1, <1>2 DEF soft_delete, Live, IInv, Faithful, RowsOK, RowOK, Row
<1>8. PICK q : q = [pc[c] EXCEPT !.at = "d_cache"]
  OBVIOUS
<1>9. q.at = "d_cache" /\ q.key = k
  BY <1>1, <1>2, <1>8 DEF Call
<1>10. soft_delete(k) => Furthered(c, q)
  BY <1>7, <1>9 DEF Furthered
<1>. QED BY <1>1, <1>3, <1>4, <1>6, <1>8, <1>10, WriteHistory

\* The id a creation draws is nobody else's and never was deleted.
LEMMA CreateHistory ==
    ASSUME IInv, NEW c \in Clients, NEW i \in Ids, NEW t \in Tenants, NEW s \in Specs, NEW op,
           create(c, i, t, s, op)
    PROVE  History'
<1>1. Grown /\ i \notin 1..drawn
  BY NewMetaType, DrawGrows DEF create, IInv, Faithful
<1>2. Forward /\ i \notin DOMAIN db
  BY <1>1, ForwardStays DEF create, IInv, Faithful, RowsOK
<1>3. Buried
  BY <1>2 DEF create, Put, Buried, IInv, History, Deleted, Loading
<1>4. PICK q : q = [op |-> "create", at |-> "c_insert", key |-> i, tenant |-> t, late |-> {},
                    meta |-> NewMeta(t, s, 1), material |-> i, new |-> i]
  OBVIOUS
<1>5. Placed(c, q) /\ Furthered(c, q) /\ Unloading(q)
  BY <1>1, <1>2, <1>4 DEF Placed, Furthered, Unloading, create
<1>6. \A d \in DOMAIN pc : d # c /\ pc[d].at \in {"c_insert", "r_insert"} => pc[d].new \notin DOMAIN db'
  BY DEF create, IInv, History, Owned, Unclaimed
<1>. QED BY <1>2, <1>3, <1>4, <1>5, <1>6, MovedHistory DEF create, Begin

\* A call that begins knows the removals that returned before, and what the
\* cache says of them.
LEMMA EntryForHistory ==
    ASSUME IInv, NEW c \in Clients, NEW op \in UseOps \cup {"rotate", "delete"},
           NEW i \in Ids, NEW t \in Tenants, entry_for(c, op, i, t)
    PROVE  History'
<1>1. UNCHANGED <<db, archive, cache, preload, drawn, created, acked, rotations, gone, out>> /\ i \in DOMAIN db
  BY DEF entry_for, hist
<1>2. Grown /\ Buried
  BY <1>1, NothingDrawn, BuriedStays DEF IInv, Faithful, History
<1>3. Forward
  BY <1>1, <1>2, ForwardStays
<1>4. \A d \in DOMAIN pc : d # c /\ pc[d].at \in {"c_insert", "r_insert"} => pc[d].new \notin DOMAIN db'
  BY <1>1 DEF IInv, History, Owned, Unclaimed
<1>5. "deleted" \in Late(i) => i \in gone.deleted
  BY DEF Late
<1>6. None \notin gone.deleted
  BY DEF IInv, History, Deleted, Ids, None
<1>7. PICK p : p = [op |-> op, at |-> "find", key |-> i, tenant |-> t, late |-> Late(i),
                    meta |-> NewMeta(t, "Aes256Gcm", 0), material |-> None, new |-> None]
  OBVIOUS
<1>8. CASE pc' = Put(pc, c, p)
  <2>1. Placed(c, p) /\ Furthered(c, p) /\ Unloading(p)
    BY <1>5, <1>6, <1>7 DEF Placed, Furthered, Unloading
  <2>. QED BY <1>1, <1>2, <1>3, <1>4, <1>8, <2>1, MovedHistory
<1>9. CASE UNCHANGED pc
  <2>1. Settled /\ Unclaimed'
    BY <1>1, <1>9 DEF Settled, Ended, IInv, History, Owned, Unclaimed
  <2>. QED BY <1>2, <1>3, <2>1, SettledHistory
<1>10. CASE /\ i \in DOMAIN cache
            /\ pc' = Put(pc, c, [p EXCEPT !.at = "resolved", !.meta = cache[i].meta,
                                          !.material = cache[i].material])
  <2>1. PICK q : q = [p EXCEPT !.at = "resolved", !.meta = cache[i].meta, !.material = cache[i].material]
    OBVIOUS
  <2>2. q.at = "resolved" /\ q.meta = cache[i].meta /\ q.key = i /\ q.late = Late(i) /\ q.new = None
    BY <1>7, <2>1
  <2>3. Placed(c, q) /\ Furthered(c, q)
    BY <2>2 DEF Placed, Furthered
  <2>4. Unloading(q)
    BY <1>5, <1>6, <1>10, <2>2 DEF Unloading, IInv, History, Deleted
  <2>5. pc' = Put(pc, c, q)
    BY <1>10, <2>1
  <2>. QED BY <1>1, <1>2, <1>3, <1>4, <2>3, <2>4, <2>5, MovedHistory
<1>. QED BY <1>7, <1>8, <1>9, <1>10 DEF entry_for, Begin

\* A deleted row is not read.
LEMMA LoadHistory ==
    ASSUME IInv, NEW c, load_meta(c) \/ load_material(c)
    PROVE  History'
<1>1. /\ UNCHANGED <<db, archive, preload, drawn, created, acked, rotations, gone, out>>
      /\ c \in DOMAIN pc /\ CallOK(pc[c]) /\ pc[c].at \in {"find", "load"}
  BY DEF load_meta, load_material, Fail, hist, dbVars, At, IInv, Faithful, CallsOK
<1>2. Grown /\ (UNCHANGED cache => Buried)
  BY <1>1, NothingDrawn, BuriedStays DEF IInv, Faithful, History
<1>3. Forward
  BY <1>1, <1>2, ForwardStays
<1>4. \A d \in DOMAIN pc : d # c /\ pc[d].at \in {"c_insert", "r_insert"} => pc[d].new \notin DOMAIN db'
  BY <1>1 DEF IInv, History, Owned, Unclaimed
<1>5. /\ pc[c] \in Call /\ pc[c].key \in DOMAIN db /\ pc[c].new = None
      /\ "deleted" \in pc[c].late => pc[c].key \in gone.deleted
  BY <1>1 DEF CallOK, CreateSteps, RotateSteps, IInv, History, Deleted
<1>6. \A i \in gone.deleted : ~Live(i) /\ i # None
  BY DEF IInv, History, Deleted, Live, Ids, None
<1>7. CASE Return(c) /\ UNCHANGED cache
  <2>1. Settled /\ Unclaimed'
    BY <1>1, <1>4, <1>7 DEF Settled, Ended, Return, Drop, Unclaimed
  <2>. QED BY <1>2, <1>3, <1>7, <2>1, SettledHistory
<1>8. ASSUME NEW m \in find_by_id(pc[c].key),
             pc' = [pc EXCEPT ![c].at = "load", ![c].meta = m], UNCHANGED cache
      PROVE  History'
  <2>1. PICK q : q = [pc[c] EXCEPT !.at = "load", !.meta = m]
    OBVIOUS
  <2>2. pc' = Put(pc, c, q)
    BY <1>1, <1>8, <2>1 DEF Put
  <2>3. q.at = "load" /\ q.key = pc[c].key /\ q.late = pc[c].late /\ q.new = None
    BY <1>5, <2>1 DEF Call
  <2>4. Live(pc[c].key)
    BY <1>8 DEF find_by_id
  <2>5. Placed(c, q) /\ Furthered(c, q)
    BY <2>3 DEF Placed, Furthered
  <2>6. Unloading(q)
    BY <1>5, <1>6, <2>3, <2>4 DEF Unloading
  <2>. QED BY <1>1, <1>2, <1>3, <1>4, <1>8, <2>2, <2>5, <2>6, MovedHistory
<1>9. ASSUME NEW material \in find_encrypted_material(pc[c].key),
             cache' = Put(cache, pc[c].key, NewEntry(pc[c].meta, material)),
             pc' = [pc EXCEPT ![c].at = "resolved", ![c].material = material]
      PROVE  History'
  <2>1. PICK q : q = [pc[c] EXCEPT !.at = "resolved", !.material = material]
    OBVIOUS
  <2>2. pc' = Put(pc, c, q)
    BY <1>1, <1>9, <2>1 DEF Put
  <2>3. q.at = "resolved" /\ q.key = pc[c].key /\ q.late = pc[c].late /\ q.new = None
    BY <1>5, <2>1 DEF Call
  <2>4. Live(pc[c].key)
    BY <1>9 DEF find_encrypted_material
  <2>5. Placed(c, q) /\ Furthered(c, q)
    BY <2>3 DEF Placed, Furthered
  <2>6. Unloading(q)
    BY <1>5, <1>6, <2>3, <2>4 DEF Unloading
  <2>7. Buried
    BY <1>1, <1>6, <1>9, <2>4 DEF Buried, Put, IInv, History, Deleted, Loading
  <2>. QED BY <1>1, <1>3, <1>4, <2>2, <2>5, <2>6, <2>7, MovedHistory
<1>10. CASE load_meta(c)
  BY <1>7, <1>8, <1>10 DEF load_meta, Fail
<1>11. CASE load_material(c)
  BY <1>7, <1>9, <1>11 DEF load_material, Fail
<1>. QED BY <1>10, <1>11

\* A step that writes no row and ends calls, or lets them be.
LEMMA EndedFacts ==
    ASSUME IInv, Ended, UNCHANGED <<db, archive, drawn, created>>
    PROVE  Forward /\ Unclaimed' /\ Owned' /\ (UNCHANGED out => Answered')
<1>1. Grown
  BY NothingDrawn DEF IInv, Faithful
<1>2. Forward
  BY <1>1, ForwardStays
<1>3. Unclaimed'
  BY DEF IInv, History, Owned, Unclaimed, Ended
<1>. QED BY <1>1, <1>2, <1>3, OwnedEnded, AnsweredKept DEF IInv, History

\* The id a rotation draws is nobody else's and never was deleted.
LEMMA RotateKeyHistory ==
    ASSUME IInv, NEW c, NEW i, rotate_key(c, i)
    PROVE  History'
<1>1. /\ UNCHANGED <<db, archive, cache, preload, acked, rotations, gone, out>>
      /\ c \in DOMAIN pc /\ CallOK(pc[c]) /\ pc[c] \in Call /\ pc[c].at = "resolved"
  BY DEF rotate_key, At, IInv, Faithful, CallsOK, CallOK
<1>2. Buried
  BY <1>1, BuriedStays DEF IInv, History
<1>3. CASE Return(c) /\ UNCHANGED <<drawn, created>>
  <2>1. Settled
    BY <1>1, <1>3 DEF Settled, Ended, Return, Drop
  <2>. QED BY <1>1, <1>2, <1>3, <2>1, EndedFacts, SettledHistory DEF Settled
<1>4. CASE /\ Draw(i, NewMeta(pc[c].meta.tenant, pc[c].meta.spec, pc[c].meta.version + 1))
           /\ pc' = [pc EXCEPT ![c].at = "r_insert", ![c].new = i]
  <2>1. PICK k : k = NewMeta(pc[c].meta.tenant, pc[c].meta.spec, pc[c].meta.version + 1)
    OBVIOUS
  <2>2. k \in Meta /\ k.status = "Active"
    BY <1>1, <2>1 DEF Call, Meta, NewMeta, KeyStatus
  <2>3. Grown /\ i \notin 1..drawn
    BY <1>1, <1>4, <2>1, <2>2, DrawGrows DEF IInv, Faithful
  <2>4. Forward /\ i \notin DOMAIN db /\ i \notin gone.deleted
    BY <1>1, <2>3, ForwardStays DEF IInv, Faithful, RowsOK, History, Deleted
  <2>5. PICK q : q = [pc[c] EXCEPT !.at = "r_insert", !.new = i]
    OBVIOUS
  <2>6. pc' = Put(pc, c, q)
    BY <1>1, <1>4, <2>5 DEF Put
  <2>7. q.at = "r_insert" /\ q.new = i /\ q.key = pc[c].key /\ q.late = pc[c].late
    BY <1>1, <2>5 DEF Call
  <2>8. Placed(c, q) /\ Furthered(c, q)
    BY <1>1, <2>3, <2>4, <2>7 DEF Placed, Furthered
  <2>9. Unloading(q)
    BY <1>1, <2>4, <2>7 DEF Unloading, IInv, History, Deleted
  <2>10. \A d \in DOMAIN pc : d # c /\ pc[d].at \in {"c_insert", "r_insert"} => pc[d].new \notin DOMAIN db'
    BY <1>1 DEF IInv, History, Owned, Unclaimed
  <2>. QED BY <1>1, <1>2, <2>4, <2>6, <2>8, <2>9, <2>10, MovedHistory
<1>. QED BY <1>3, <1>4 DEF rotate_key

\* A creation is acknowledged once its material is stored.
LEMMA CreateOkHistory ==
    ASSUME IInv, NEW c, create_ok(c)
    PROVE  History'
<1>1. /\ UNCHANGED <<db, archive, cache, preload, drawn, created, rotations, gone, out>>
      /\ c \in DOMAIN pc /\ pc[c].at = "c_ok" /\ Ended
  BY DEF create_ok, At, Return, Drop, Ended
<1>2. Forward /\ Owned' /\ Answered' /\ Buried
  BY <1>1, EndedFacts, BuriedStays DEF IInv, History
<1>3. pc[c].new = pc[c].key /\ Stored(pc[c].new)
  BY <1>1 DEF IInv, Faithful, CallsOK, CallOK, CreateSteps, History, Durable
<1>4. \A i \in acked' : i \in acked \/ Stored(i)'
  BY <1>1, <1>3 DEF create_ok, Stored
<1>. QED BY <1>1, <1>2, <1>4, DurableEnded, SuccessionEnded, DeletedEnded DEF History

\* An answer has the key's material, its tenant and the status the call
\* resolved.
LEMMA UseHistory ==
    ASSUME IInv, NEW c, use(c)
    PROVE  History'
<1>1. /\ UNCHANGED <<db, archive, cache, preload, drawn, created, acked, rotations, gone>>
      /\ c \in DOMAIN pc /\ pc[c].at = "resolved" /\ CallOK(pc[c]) /\ Ended
  BY DEF use, At, Return, Drop, Ended, IInv, Faithful, CallsOK
<1>2. Forward /\ Owned' /\ (UNCHANGED out => Answered') /\ Buried
  BY <1>1, EndedFacts, BuriedStays DEF IInv, History
<1>3. Durable' /\ Succession' /\ Deleted'
  BY <1>1, <1>2, DurableEnded, SuccessionEnded, DeletedEnded
<1>4. /\ pc[c].material = pc[c].key /\ pc[c].key \in 1..drawn
      /\ created[pc[c].key].tenant = pc[c].tenant
      /\ "deleted" \in pc[c].late => pc[c].meta.status # "Active"
  BY <1>1 DEF CallOK, CreateSteps, Like, IInv, History, Deleted
<1>5. CASE Allowed(pc[c].op, pc[c].meta.status)
  <2>1. pc[c].op \in ActiveOps => pc[c].meta.status = "Active"
    BY <1>5 DEF Allowed, ActiveOps, AnyOps
  <2>2. out' = {[op |-> pc[c].op, by |-> pc[c].tenant, key |-> pc[c].key,
                 material |-> pc[c].material, late |-> pc[c].late]}
    BY <1>5 DEF use
  <2>3. Answered'
    BY <1>1, <1>4, <2>1, <2>2 DEF Answered
  <2>. QED BY <1>2, <1>3, <2>3 DEF History
<1>6. CASE ~Allowed(pc[c].op, pc[c].meta.status)
  BY <1>2, <1>3, <1>6 DEF use, History
<1>. QED BY <1>5, <1>6

\* A rotation is acknowledged once: its archive entry is the only one of the
\* key.
LEMMA RotateCacheHistory ==
    ASSUME IInv, NEW c, rotate_cache(c)
    PROVE  History'
<1>1. /\ UNCHANGED <<db, archive, preload, drawn, created, gone, out>>
      /\ c \in DOMAIN pc /\ pc[c].at = "r_cache" /\ Ended
  BY DEF rotate_cache, At, Return, Drop, Ended
<1>2. c \notin DOMAIN pc'
  BY DEF rotate_cache, Return, Drop
<1>3. Forward /\ Owned' /\ Answered'
  BY <1>1, EndedFacts
<1>4. PICK k, n : k = pc[c].key /\ n = pc[c].new
  OBVIOUS
<1>5. k \in DOMAIN db /\ k \in Ids /\ n \in Ids /\ pc[c].op = "rotate"
  <2>1. pc[c].at \in RotateSteps /\ CallOK(pc[c])
    BY <1>1 DEF RotateSteps, IInv, Faithful, CallsOK
  <2>. QED BY <1>1, <1>4, <2>1, RotatingCall DEF IInv, CallOK
<1>6. /\ Stored(n) /\ Retired(k) /\ Archived(k)
      /\ \A r \in rotations : r[1] # k
      /\ \A d \in DOMAIN pc : Archiving(d) /\ d # c => pc[d].key # k
  BY <1>1, <1>4 DEF IInv, History, Durable, Succession, Archiving
<1>7. Durable'
  <2>1. \A i \in acked' : i \in acked \/ Stored(i)'
    BY <1>1, <1>4, <1>6 DEF rotate_cache, Stored
  <2>. QED BY <1>1, <1>3, <2>1, DurableEnded
<1>8. Succession'
  <2>1. rotations' = rotations \cup {<<k, n>>}
    BY <1>4 DEF rotate_cache
  <2>2. /\ rotations' \subseteq Ids \X Ids
        /\ \A r, q \in rotations' : r[1] = q[1] => r = q
        /\ \A r \in rotations' : r[1] \in DOMAIN db /\ Archived(r[1]) /\ Retired(r[1])
    BY <1>5, <1>6, <2>1 DEF IInv, History, Succession
  <2>3. \A r \in rotations' : r[1] \in DOMAIN db' /\ Archived(r[1])' /\ Retired(r[1])'
    BY <1>1, <2>2 DEF Archived, Retired
  <2>4. ASSUME NEW d \in DOMAIN pc'
        PROVE  /\ d \in DOMAIN pc /\ d # c /\ pc'[d] = pc[d]
               /\ pc[d].at \in {"r_version", "r_rotated_at", "r_cache"} => Retired(pc[d].key)
               /\ Archiving(d) =>
                     /\ Archived(pc[d].key)
                     /\ \A r \in rotations' : r[1] # pc[d].key
                     /\ \A e \in DOMAIN pc : Archiving(e) /\ e # d => pc[e].key # pc[d].key
    BY <1>1, <1>2, <1>6, <2>1, <2>4 DEF Ended, IInv, History, Succession
  <2>5. ASSUME NEW d \in DOMAIN pc'
        PROVE  /\ (pc[d].at \in {"r_version", "r_rotated_at", "r_cache"} => Retired(pc[d].key))'
               /\ (Archiving(d) => Archived(pc[d].key))'
               /\ (Archiving(d) => \A r \in rotations : r[1] # pc[d].key)'
               /\ (Archiving(d) => \A e \in DOMAIN pc : Archiving(e) /\ e # d => pc[e].key # pc[d].key)'
    <3>1. pc'[d] = pc[d] /\ \A e \in DOMAIN pc' : e \in DOMAIN pc /\ pc'[e] = pc[e]
      BY <2>4, <1>1 DEF Ended
    <3>. QED BY <1>1, <2>4, <3>1 DEF Archiving, Retired, Archived
  <2>. QED BY <2>2, <2>3, <2>5 DEF Succession
<1>9. Deleted'
  <2>1. PICK f : f = Marked(k, "Obsolete")
    OBVIOUS
  <2>2. DOMAIN f = DOMAIN cache
        /\ \A j \in DOMAIN cache : f[j].meta.status \in {cache[j].meta.status, "Obsolete"}
    BY <2>1, EntryMarked DEF IInv, KeyStatus
  <2>3. n \notin gone.deleted
    BY <1>1, <1>4, <1>5 DEF IInv, History, Deleted, Loading
  <2>4. cache' = Put(f, n, NewEntry(Successor(c), n))
    BY <1>4, <2>1 DEF rotate_cache
  <2>5. \A i \in gone.deleted : i \in DOMAIN cache' => i \in DOMAIN cache /\ cache'[i] = f[i]
    BY <2>2, <2>3, <2>4 DEF Put
  <2>6. \A i \in gone.deleted : i \in DOMAIN cache' => cache'[i].meta.status # "Active"
    BY <2>2, <2>5 DEF IInv, History, Deleted
  <2>7. Buried
    BY <1>1, <2>6 DEF Buried, IInv, History, Deleted, Loading
  <2>. QED BY <1>1, <1>3, <2>7, DeletedEnded
<1>. QED BY <1>3, <1>7, <1>8, <1>9 DEF History

\* A deletion returns: the row is deleted, the cached entry off duty, and
\* nobody is loading it.
LEMMA DeleteCacheHistory ==
    ASSUME IInv, NEW c, delete_cache(c)
    PROVE  History'
<1>1. /\ UNCHANGED <<db, archive, preload, drawn, created, acked, rotations, out>>
      /\ c \in DOMAIN pc /\ pc[c].at = "d_cache" /\ Ended
  BY DEF delete_cache, At, Return, Drop, Ended
<1>2. Forward /\ Owned' /\ Answered'
  BY <1>1, EndedFacts
<1>3. Durable' /\ Succession'
  BY <1>1, <1>2, DurableEnded, SuccessionEnded
<1>4. PICK k : k = pc[c].key
  OBVIOUS
<1>5. k \in DOMAIN db /\ k \in Ids /\ db[k].deleted
  BY <1>1, <1>4 DEF IInv, Faithful, CallsOK, CallOK, Call, CreateSteps, History, Deleted
<1>6. gone \in [{"deleted", "destroyed"} -> SUBSET Ids]
  BY DEF IInv, History, Deleted
<1>7. /\ gone' \in [{"deleted", "destroyed"} -> SUBSET Ids]
      /\ gone.deleted \subseteq gone'.deleted
      /\ \A i \in gone'.deleted : i \in gone.deleted \/ (i = k /\ ~Loading(k))
  BY <1>4, <1>5, <1>6 DEF delete_cache
<1>8. \A i \in gone'.deleted : i \in DOMAIN db /\ db[i].deleted /\ ~Loading(i)
  BY <1>5, <1>7 DEF IInv, History, Deleted
<1>9. \A i : ~Loading(i) => ~Loading(i)'
  BY <1>1 DEF Loading, Ended
<1>10. \A i \in gone'.deleted : i \in DOMAIN cache' => cache'[i].meta.status # "Active"
  <2>1. PICK f : f = Marked(k, "PendingDeletion")
    OBVIOUS
  <2>2. DOMAIN f = DOMAIN cache
        /\ \A j \in DOMAIN cache : /\ f[j].meta.status \in {cache[j].meta.status, "PendingDeletion"}
                                   /\ j = k => f[j].meta.status = "PendingDeletion"
    BY <2>1, EntryMarked DEF IInv, KeyStatus
  <2>3. cache' = f
    BY <1>4, <2>1 DEF delete_cache
  <2>. QED BY <1>7, <2>2, <2>3 DEF IInv, History, Deleted
<1>11. Deleted'
  BY <1>1, <1>7, <1>8, <1>9, <1>10 DEF Deleted, Ended, IInv, History
<1>. QED BY <1>2, <1>3, <1>11 DEF History

\* The preload lists no row that is deleted.
LEMMA PreloadHistory ==
    ASSUME IInv, Preload
    PROVE  History'
<1>1. UNCHANGED <<db, archive, pc, drawn, created, acked, rotations, gone, out>>
  BY DEF Preload, preload_list, preload_read, preload_insert, preload_done, hist
<1>2. Settled
  BY <1>1 DEF Settled, Ended
<1>3. Forward /\ Unclaimed'
  BY <1>1, <1>2, EndedFacts DEF Settled
<1>4. /\ gone \in [{"deleted", "destroyed"} -> SUBSET Ids]
      /\ \A i \in gone.deleted : /\ i \in DOMAIN cache => cache[i].meta.status # "Active"
                                 /\ ~Live(i)
      /\ \A x \in preload.todo : x[1] \notin gone.deleted
  BY DEF IInv, History, Deleted, Loading, Live
<1>5. preload \in [at : {"list", "loading", "failed", "done"},
                   todo : SUBSET (Ids \X Meta \X (Ids \cup {None}))]
  BY DEF IInv, Faithful, PreloadOK
<1>6. \A i \in gone.deleted : i \in DOMAIN cache' => cache'[i].meta.status # "Active"
  <2>1. CASE UNCHANGED cache
    BY <1>4, <2>1
  <2>2. ASSUME NEW x \in preload.todo, preload_insert(x)
        PROVE  \A i \in gone.deleted : i \in DOMAIN cache' => i \in DOMAIN cache /\ cache'[i] = cache[i]
    BY <1>4, <2>2 DEF preload_insert, Put
  <2>. QED BY <1>4, <2>1, <2>2 DEF Preload, preload_list, preload_read, preload_done
<1>7. \A x \in preload'.todo : x[1] \notin gone.deleted
  <2>1. CASE preload_list
    <3>1. CASE preload' = [at |-> "loading",
                           todo |-> {<<i, FromEntity(db[i].meta), None>> : i \in list_all_tenants}]
      <4>1. \A x \in preload'.todo : x[1] \in list_all_tenants
        BY <3>1
      <4>. QED BY <1>4, <4>1 DEF list_all_tenants
    <3>2. CASE preload' = [preload EXCEPT !.at = "failed"]
      BY <1>4, <1>5, <3>2
    <3>. QED BY <2>1, <3>1, <3>2 DEF preload_list
  <2>2. ASSUME NEW x \in preload.todo, preload_read(x)
        PROVE  \A y \in preload'.todo : y[1] \notin gone.deleted
    BY <1>4, <1>5, <2>2 DEF preload_read, preload_skip
  <2>3. ASSUME NEW x \in preload.todo, preload_insert(x)
        PROVE  \A y \in preload'.todo : y[1] \notin gone.deleted
    BY <1>4, <1>5, <2>3 DEF preload_insert
  <2>4. CASE preload_done
    BY <2>4 DEF preload_done
  <2>. QED BY <2>1, <2>2, <2>3, <2>4 DEF Preload
<1>8. Buried
  BY <1>1, <1>4, <1>6, <1>7 DEF Buried
<1>. QED BY <1>2, <1>3, <1>8, SettledHistory

\* A destruction, an eviction or a restart brings nothing back.
LEMMA DropsHistory ==
    ASSUME IInv,
           \/ \E i \in Ids : destroy_key(i) \/ Evict(i)
           \/ Restart
           \/ UNCHANGED vars
    PROVE  History'
<1>1. UNCHANGED <<db, archive, drawn, created, acked, rotations, out>>
  BY DEF destroy_key, Evict, Restart, vars, hist
<1>2. Settled
  BY <1>1 DEF Settled, Ended, destroy_key, Evict, Restart, vars
<1>3. Forward /\ Unclaimed'
  BY <1>1, <1>2, EndedFacts DEF Settled
<1>4. /\ gone \in [{"deleted", "destroyed"} -> SUBSET Ids]
      /\ \A i \in gone.deleted : i \in DOMAIN cache => cache[i].meta.status # "Active"
      /\ \A x \in preload.todo : x[1] \notin gone.deleted
  BY DEF IInv, History, Deleted, Loading
<1>5. gone' \in [{"deleted", "destroyed"} -> SUBSET Ids] /\ gone'.deleted = gone.deleted
  BY <1>4 DEF destroy_key, Evict, Restart, vars, hist
<1>6. \A i \in gone.deleted : i \in DOMAIN cache' => cache'[i].meta.status # "Active"
  BY <1>4 DEF destroy_key, Evict, Restart, vars, Drop
<1>7. \A x \in preload'.todo : x[1] \notin gone.deleted
  BY <1>4 DEF destroy_key, Evict, Restart, vars
<1>8. Buried
  BY <1>5, <1>6, <1>7 DEF Buried
<1>. QED BY <1>2, <1>3, <1>8, SettledHistory

\* Every step keeps the history part of the invariant.
LEMMA NextHistory == IInv /\ [Next]_vars => History'
<1>. SUFFICES ASSUME IInv, [Next]_vars PROVE History'
  OBVIOUS
<1>1. ASSUME NEW c \in Clients,
             \E i \in Ids, t \in Tenants, s \in Specs, op \in {"generate", "import"} : create(c, i, t, s, op)
      PROVE  History'
  BY <1>1, CreateHistory
<1>2. ASSUME NEW c \in Clients,
             \E op \in UseOps \cup {"rotate", "delete"}, i \in Ids, t \in Tenants : entry_for(c, op, i, t)
      PROVE  History'
  BY <1>2, EntryForHistory
<1>3. ASSUME NEW c \in Clients, create_insert(c) \/ create_material(c)
      PROVE  History'
  BY <1>3, CreateWritesHistory
<1>4. ASSUME NEW c \in Clients,
             \/ rotate_insert(c) \/ rotate_material(c) \/ rotate_status(c)
             \/ rotate_version(c) \/ update_version_rotated_at(c)
      PROVE  History'
  BY <1>4, RotateWritesHistory
<1>. QED
  BY <1>1, <1>2, <1>3, <1>4, LoadHistory, RotateKeyHistory, CreateOkHistory, UseHistory,
     RotateCacheHistory, DeleteHistory, DeleteCacheHistory, PreloadHistory, DropsHistory DEF Next

-----------------------------------------------------------------------------
(* The theorems.                                                           *)

\* The inductive invariant holds of every reachable state.
THEOREM Invariant == Spec => []IInv
<1>1. Init => IInv
  <2>. SUFFICES ASSUME Init PROVE IInv
    OBVIOUS
  <2>1. Faithful
    BY InitFaithful
  <2>2. Owned /\ Durable /\ Succession /\ Answered
    BY DEF Init, Owned, Unclaimed, Durable, Succession, Answered
  <2>3. Deleted
    BY DEF Init, Deleted
  <2>. QED BY <2>1, <2>2, <2>3 DEF IInv, History
<1>2. IInv /\ [Next]_vars => IInv'
  BY NextFaithful, NextHistory DEF IInv
<1>. QED BY <1>1, <1>2, PTL DEF Spec

\* The tables, the cache, the preload and every call in flight keep their
\* shape, whatever fails, is evicted or restarts.
THEOREM TypeCorrect == Spec => []TypeOK
<1>1. IInv => TypeOK
  <2>. SUFFICES ASSUME IInv PROVE TypeOK
    OBVIOUS
  <2>1. /\ DOMAIN db \subseteq 1..drawn /\ \A i \in DOMAIN db : db[i] \in Row
        /\ DOMAIN archive \subseteq Ids \X Nat /\ \A x \in DOMAIN archive : archive[x] \in Ids
        /\ DOMAIN cache \subseteq 1..drawn /\ \A i \in DOMAIN cache : cache[i] \in Entry
    BY DEF IInv, Faithful, RowsOK, RowOK, ArchiveOK, CacheOK, CachedOK
  <2>2. DOMAIN pc \subseteq Clients /\ \A c \in DOMAIN pc : pc[c] \in Call
    BY DEF IInv, Faithful, CallsOK, CallOK
  <2>3. \A c \in DOMAIN pc :
           /\ pc[c].key \in Ids /\ pc[c].tenant \in Tenants /\ pc[c].meta \in Meta
           /\ pc[c].material \in Ids \cup {None} /\ pc[c].new \in Ids \cup {None}
    BY <2>2 DEF Call
  <2>4. /\ preload.at \in {"list", "loading", "failed", "done"}
        /\ preload.todo \subseteq Ids \X Meta \X (Ids \cup {None})
        /\ ready \in BOOLEAN
    BY DEF IInv, Faithful, PreloadOK
  <2>5. drawn \in 0..MaxKeys /\ DOMAIN created = 1..drawn
    BY DEF IInv, Faithful, CreatedOK
  <2>. QED BY <2>1, <2>2, <2>3, <2>4, <2>5 DEF TypeOK
<1>. QED BY <1>1, Invariant, PTL

\* Every answer is made with the material of the key that was asked for, a key
\* of the caller's own tenant: the tenant check of the cached entry and the
\* one of the loaded row cover every way to the material.
THEOREM Isolated == Spec => []TenantIsolation
<1>1. IInv => TenantIsolation
  BY DEF IInv, History, Answered, TenantIsolation
<1>. QED BY <1>1, Invariant, PTL

\* A creation, import or rotation that was acknowledged has its material in
\* the table, so neither a restart nor an eviction loses it.
THEOREM Durability == Spec => []AcknowledgedDurable
<1>1. IInv => AcknowledgedDurable
  BY DEF IInv, History, Durable, Stored, AcknowledgedDurable
<1>. QED BY <1>1, Invariant, PTL

\* However rotations of one key interleave, the unique constraint on
\* (key_id, version) lets one of them return Ok, and then the old key is
\* archived and off duty.
THEOREM SingleSuccessor == Spec => []RotatedOnce
<1>1. IInv => RotatedOnce
  BY DEF IInv, History, Succession, Archived, Retired, RotatedOnce
<1>. QED BY <1>1, Invariant, PTL

\* No call that begins after delete_key returned encrypts, signs or exports
\* with the key, unless a load or a rotation was about to cache it again.
THEOREM DeletionHolds == Spec => []DeletionEffective
<1>1. IInv => DeletionEffective
  BY DEF IInv, History, Answered, DeletionEffective
<1>. QED BY <1>1, Invariant, PTL

\* Whatever specs are in use, a cached entry is the key that was created, with
\* its own material, but for its status and for the spec of the five kinds of
\* key whose name the reading of a row does not know.
THEOREM ReloadIsFaithful == Spec => []ReloadFaithful
<1>1. IInv => ReloadFaithful
  <2>. SUFFICES ASSUME IInv, NEW i \in DOMAIN cache
                PROVE  /\ cache[i].material = i
                       /\ \/ [cache[i].meta EXCEPT !.status = "Active"] = created[i]
                          \/ /\ created[i].spec \in UnnamedSpecs
                             /\ [cache[i].meta EXCEPT !.status = "Active"] =
                                  [created[i] EXCEPT !.spec = "Aes256Gcm"]
    BY DEF ReloadFaithful
  <2>1. i \in 1..drawn /\ cache[i].meta \in Meta /\ Like(cache[i].meta, i) /\ cache[i].material = i
    BY DEF IInv, Faithful, CacheOK, CachedOK, Entry
  <2>2. created[i] \in Meta /\ created[i].status = "Active"
    BY <2>1 DEF IInv, Faithful, CreatedOK
  <2>3. CASE cache[i].meta.spec = created[i].spec
    BY <2>1, <2>2, <2>3 DEF Like, Meta
  <2>4. CASE cache[i].meta.spec # created[i].spec
    <3>1. created[i].spec \notin ReadableSpecs /\ cache[i].meta.spec = "Aes256Gcm"
      BY <2>1, <2>4 DEF Like, Reread
    <3>2. created[i].spec \in KeySpec
      BY <2>2, ConstantsAssumption DEF Meta, KeySpec
    <3>3. created[i].spec \in UnnamedSpecs
      BY <3>1, <3>2 DEF KeySpec, ReadableSpecs, UnnamedSpecs
    <3>. QED BY <2>1, <2>2, <3>1, <3>3 DEF Like, Meta
  <2>. QED BY <2>3, <2>4
<1>. QED BY <1>1, Invariant, PTL
=============================================================================
