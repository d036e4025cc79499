----------------------- MODULE SoftwareKeystore_proofs -----------------------
(***************************************************************************)
(* Proofs about SoftwareKeystore, for any number of keys, tenants, callers *)
(* and versions.                                                           *)
(***************************************************************************)
EXTENDS SoftwareKeystore, TLAPS

-----------------------------------------------------------------------------
(* The history of one key.                                                 *)

\* What `find' over the history returns once some index is known to be the
\* first with the version.
LEMMA FindFirst ==
    ASSUME NEW vs \in Seq(Archived), NEW v, NEW i \in DOMAIN vs,
           IsFirst(vs, v, i)
    PROVE  HasVersion(vs, v) /\ FirstOf(vs, v) = i /\ Find(vs, v) = vs[i].material
<1>1. \A j \in DOMAIN vs : IsFirst(vs, v, j) => j = i
  <2>1. DOMAIN vs \subseteq Int
    OBVIOUS
  <2>. QED BY <2>1 DEF IsFirst
<1>2. FirstOf(vs, v) \in DOMAIN vs /\ IsFirst(vs, v, FirstOf(vs, v))
  BY DEF FirstOf
<1>. QED BY <1>1, <1>2 DEF Find, HasVersion, IsFirst

\* Every version found in a history has a first occurrence.
FirstExists(vs) ==
    \A j \in DOMAIN vs : \E i \in DOMAIN vs : IsFirst(vs, vs[j].version, i)

LEMMA FindType ==
    ASSUME NEW vs \in Seq(Archived), FirstExists(vs), NEW v, HasVersion(vs, v)
    PROVE  Find(vs, v) \in Material
<1>1. PICK i \in DOMAIN vs : IsFirst(vs, v, i)
  BY DEF FirstExists, HasVersion
<1>2. vs[i] \in Archived
  OBVIOUS
<1>. QED BY <1>1, <1>2, FindFirst DEF Archived

\* Archiving one more version does not change what is found for the versions
\* already archived, and finds a version archived for the first time.
LEMMA FindAppend ==
    ASSUME NEW vs \in Seq(Archived), FirstExists(vs), NEW a \in Archived
    PROVE  /\ Append(vs, a) \in Seq(Archived)
           /\ DOMAIN Append(vs, a) = DOMAIN vs \cup {Len(vs) + 1}
           /\ \A i \in DOMAIN vs : Append(vs, a)[i] = vs[i]
           /\ Append(vs, a)[Len(vs) + 1] = a
           /\ \A v : HasVersion(vs, v) =>
                HasVersion(Append(vs, a), v) /\ Find(Append(vs, a), v) = Find(vs, v)
           /\ ~HasVersion(vs, a.version) =>
                /\ HasVersion(Append(vs, a), a.version)
                /\ Find(Append(vs, a), a.version) = a.material
           /\ FirstExists(Append(vs, a))
<1>. DEFINE ws == Append(vs, a)
            n  == Len(vs) + 1
<1>1. /\ ws \in Seq(Archived)
      /\ DOMAIN ws = DOMAIN vs \cup {n}
      /\ \A i \in DOMAIN vs : ws[i] = vs[i] /\ i < n
      /\ ws[n] = a
      /\ DOMAIN ws \subseteq Int /\ DOMAIN vs \subseteq Int /\ n \in Int
  OBVIOUS
<1>. HIDE DEF ws, n
<1>2. ASSUME NEW v, NEW i \in DOMAIN vs, IsFirst(vs, v, i)
      PROVE  IsFirst(ws, v, i) /\ i \in DOMAIN ws
  BY <1>1, <1>2 DEF IsFirst
<1>3. ASSUME NEW v, HasVersion(vs, v)
      PROVE  HasVersion(ws, v) /\ Find(ws, v) = Find(vs, v)
  <2>1. PICK i \in DOMAIN vs : IsFirst(vs, v, i)
    BY <1>3 DEF FirstExists, HasVersion
  <2>2. IsFirst(ws, v, i) /\ i \in DOMAIN ws
    BY <2>1, <1>2
  <2>3. HasVersion(ws, v) /\ Find(ws, v) = ws[i].material
    BY <2>2, <1>1, FindFirst
  <2>4. Find(vs, v) = vs[i].material
    BY <2>1, FindFirst
  <2>. QED BY <2>3, <2>4, <1>1
<1>4. ASSUME ~HasVersion(vs, a.version)
      PROVE  IsFirst(ws, a.version, n) /\ n \in DOMAIN ws
  BY <1>1, <1>4 DEF IsFirst, HasVersion
<1>5. ASSUME ~HasVersion(vs, a.version)
      PROVE  HasVersion(ws, a.version) /\ Find(ws, a.version) = a.material
  BY <1>1, <1>4, <1>5, FindFirst
<1>6. FirstExists(ws)
  <2>. SUFFICES ASSUME NEW j \in DOMAIN ws
                PROVE  \E i \in DOMAIN ws : IsFirst(ws, ws[j].version, i)
    BY DEF FirstExists
  <2>1. CASE HasVersion(vs, ws[j].version)
    <3>1. PICK i \in DOMAIN vs : IsFirst(vs, ws[j].version, i)
      BY <2>1 DEF FirstExists, HasVersion
    <3>. QED BY <3>1, <1>2
  <2>2. CASE ~HasVersion(vs, ws[j].version)
    <3>1. j = n
      BY <2>2, <1>1 DEF HasVersion
    <3>. QED BY <3>1, <2>2, <1>1, <1>4
  <2>. QED BY <2>1, <2>2
<1>. QED BY <1>1, <1>3, <1>5, <1>6 DEF ws, n

-----------------------------------------------------------------------------
(* One entry of the key table.                                             *)

\* The part of EntryInv about the entry itself.
WellKept(e) ==
    /\ e.status # "Destroyed"
    /\ \A i \in DOMAIN e.versions : e.versions[i].version <= e.version
    /\ e.material # Empty =>
         \A i \in DOMAIN e.versions : e.versions[i].version < e.version
    /\ FirstExists(e.versions)

LEMMA EntryInvSplit ==
    EntryInv <=> \A k \in DOMAIN keys : keys[k].tenant = owner[k] /\ WellKept(keys[k])
  BY DEF EntryInv, WellKept, FirstExists

\* What rotate_key and its early returns do to an entry and to what was made
\* with it before: archiving the current version loses nothing.
LEMMA ArchiveKeeps ==
    ASSUME NEW e \in KeyEntry, WellKept(e)
    PROVE  /\ Archive(e) \in KeyEntry
           /\ WellKept(Archive(e))
           /\ Archive(e).tenant = e.tenant
           /\ \A o \in Output : Retained(e, o) => Retained(Archive(e), o)
<1>. DEFINE a == [version |-> e.version, material |-> e.material]
            f == Archive(e)
<1>1. a \in Archived /\ e.versions \in Seq(Archived) /\ FirstExists(e.versions)
  BY DEF Archived, KeyEntry, WellKept
<1>2. /\ f.versions = Append(e.versions, a)
      /\ f.material = Empty /\ f.version = e.version /\ f.status = e.status
      /\ f.spec = e.spec /\ f.tenant = e.tenant
  BY DEF Archive, KeyEntry
<1>3. Empty \in Material
  BY DEF Empty, Material
<1>. DEFINE vs == e.versions
            ws == Append(vs, a)
<1>4. /\ ws \in Seq(Archived)
      /\ DOMAIN ws = DOMAIN vs \cup {Len(vs) + 1}
      /\ \A i \in DOMAIN vs : ws[i] = vs[i]
      /\ ws[Len(vs) + 1] = a
      /\ \A v : HasVersion(vs, v) => HasVersion(ws, v) /\ Find(ws, v) = Find(vs, v)
      /\ ~HasVersion(vs, a.version) =>
           HasVersion(ws, a.version) /\ Find(ws, a.version) = a.material
      /\ FirstExists(ws)
  BY <1>1, FindAppend
<1>. HIDE DEF ws, f
<1>5. f \in KeyEntry
  BY <1>1, <1>3, <1>4 DEF KeyEntry, Archive, f, ws
<1>6. WellKept(f)
  <2>1. \A i \in DOMAIN ws : ws[i].version <= e.version
    BY <1>4 DEF WellKept, KeyEntry
  <2>. QED BY <2>1, <1>2, <1>4 DEF WellKept, ws
<1>7. ASSUME NEW o \in Output, Retained(e, o)
      PROVE  Retained(f, o)
  <2>1. o.version \in Nat /\ e.version \in Nat
    BY DEF Output, KeyEntry
  <2>2. ASSUME o.material # Empty
        PROVE  HasVersion(ws, o.version) /\ Find(ws, o.version) = o.material
    <3>1. CASE o.version < e.version \/ e.material = Empty
      BY <3>1, <2>2, <1>4, <1>7 DEF Retained
    <3>2. CASE o.version = e.version /\ e.material # Empty
      <4>1. ~HasVersion(vs, e.version)
        BY <3>2 DEF WellKept, HasVersion, KeyEntry
      <4>2. e.material = o.material
        BY <3>2, <2>2, <1>7 DEF Retained
      <4>. QED BY <4>1, <4>2, <3>2, <1>4
    <3>. QED BY <3>1, <3>2, <2>1, <1>7 DEF Retained
  <2>. QED BY <2>1, <2>2, <1>2, <1>7 DEF Retained, ws
<1>. QED BY <1>2, <1>5, <1>6, <1>7 DEF f

LEMMA RenewedKeeps ==
    ASSUME NEW e \in KeyEntry, WellKept(e), NEW m \in Material
    PROVE  /\ Renewed(e, m) \in KeyEntry
           /\ WellKept(Renewed(e, m))
           /\ Renewed(e, m).tenant = e.tenant
           /\ \A o \in Output : Retained(e, o) => Retained(Renewed(e, m), o)
<1>. DEFINE f == Archive(e)
            g == Renewed(e, m)
<1>1. /\ f \in KeyEntry /\ WellKept(f) /\ f.tenant = e.tenant
      /\ \A o \in Output : Retained(e, o) => Retained(f, o)
  BY ArchiveKeeps
<1>2. f.material = Empty /\ f.version = e.version
  BY DEF Archive, KeyEntry
<1>3. g = [f EXCEPT !.status = "Active", !.version = e.version + 1, !.material = m]
  BY DEF Renewed
<1>. HIDE DEF f, g
<1>4. /\ g.status = "Active" /\ g.version = f.version + 1 /\ g.material = m
      /\ g.versions = f.versions /\ g.spec = f.spec /\ g.tenant = f.tenant
  BY <1>1, <1>2, <1>3 DEF KeyEntry
<1>4a. g \in KeyEntry
  <2>1. e.version + 1 \in Nat /\ "Active" \in KeyStatus
    BY DEF KeyEntry, KeyStatus
  <2>2. ASSUME NEW x \in KeyEntry, NEW st \in KeyStatus, NEW n \in Nat
        PROVE  [x EXCEPT !.status = st, !.version = n, !.material = m] \in KeyEntry
    BY DEF KeyEntry
  <2>. QED BY <1>1, <1>3, <2>1, <2>2
<1>5. WellKept(g)
  <2>1. \A i \in DOMAIN f.versions : f.versions[i].version \in Nat
    <3>1. f.versions \in Seq(Archived)
      BY <1>1 DEF KeyEntry
    <3>2. ASSUME NEW vs \in Seq(Archived), NEW i \in DOMAIN vs
          PROVE  vs[i].version \in Nat
      <4>1. vs[i] \in Archived
        OBVIOUS
      <4>. QED BY <4>1 DEF Archived
    <3>. QED BY <3>1, <3>2
  <2>2. f.version \in Nat
    BY <1>1 DEF KeyEntry
  <2>. QED BY <1>1, <1>4, <2>1, <2>2 DEF WellKept
<1>6. ASSUME NEW o \in Output, Retained(e, o)
      PROVE  Retained(g, o)
  <2>1. f.version \in Nat /\ o.version \in Nat /\ Retained(f, o)
    BY <1>1, <1>6 DEF KeyEntry, Output
  <2>. QED BY <2>1, <1>2, <1>4 DEF Retained
<1>. QED BY <1>1, <1>4, <1>4a, <1>5, <1>6 DEF g

-----------------------------------------------------------------------------
(* The steps.                                                              *)

LEMMA InitIndInv == Init => IndInv
  BY DEF Init, IndInv, TypeOK, EntryInv, CallInv, OutputInv, VersionIdentity

\* A new key: its id was never drawn, so nothing was made with it before.
LEMMA InsertStep ==
    ASSUME IndInv, NEW k \in KeyIds, NEW t \in Tenants, NEW s \in Specs,
           NEW m \in Material, Insert(k, t, s, m),
           UNCHANGED <<calls, outputs>>, fresh' \in Nat
    PROVE  IndInv'
<1>. DEFINE e == NewEntry(t, s, m)
<1>1. /\ DOMAIN keys' = DOMAIN keys \cup {k}
      /\ keys'[k] = e
      /\ \A x \in DOMAIN keys : x # k /\ keys'[x] = keys[x]
  BY DEF Insert, Put, IndInv, TypeOK
<1>2. /\ DOMAIN owner' = used \cup {k} /\ used' = used \cup {k}
      /\ owner'[k] = t
      /\ \A x \in used : x # k /\ owner'[x] = owner[x]
  BY DEF Insert, Put, IndInv, TypeOK
<1>3. e \in KeyEntry
  <2>1. <<>> \in Seq(Archived)
    OBVIOUS
  <2>. QED BY <2>1 DEF NewEntry, KeyEntry, KeyStatus
<1>4. e.tenant = t /\ WellKept(e)
  BY DEF NewEntry, WellKept, FirstExists
<1>. HIDE DEF e
<1>5. TypeOK'
  BY <1>1, <1>2, <1>3 DEF IndInv, TypeOK
<1>6. EntryInv'
  <2>1. \A x \in DOMAIN keys' : keys'[x].tenant = owner'[x] /\ WellKept(keys'[x])
    BY <1>1, <1>2, <1>4, EntryInvSplit DEF IndInv, TypeOK
  <2>. QED BY <2>1 DEF EntryInv, WellKept, FirstExists
<1>7. CallInv'
  BY <1>2 DEF IndInv, CallInv
<1>8. OutputInv'
  BY <1>1, <1>2 DEF IndInv, OutputInv
<1>9. VersionIdentity'
  BY DEF IndInv, VersionIdentity
<1>. QED BY <1>5, <1>6, <1>7, <1>8, <1>9 DEF IndInv

LEMMA CallStep ==
    ASSUME IndInv, NEW c \in Clients, NEW op \in Ops, NEW k \in KeyIds,
           NEW t \in Tenants, Call(c, op, k, t)
    PROVE  IndInv'
<1>1. UNCHANGED <<keys, used, fresh, outputs, owner>>
  BY DEF Call
<1>2. /\ DOMAIN calls' = DOMAIN calls \cup {c}
      /\ calls'[c] = [op |-> op, key |-> k, tenant |-> t]
      /\ \A x \in DOMAIN calls : x # c => calls'[x] = calls[x]
      /\ k \in DOMAIN keys /\ keys[k].tenant = t
  BY DEF Call, Put, verify_tenant
<1>3. [op |-> op, key |-> k, tenant |-> t] \in Request
  BY DEF Request
<1>4. TypeOK'
  BY <1>1, <1>2, <1>3 DEF IndInv, TypeOK
<1>5. CallInv'
  BY <1>1, <1>2 DEF IndInv, TypeOK, CallInv, EntryInv
<1>6. EntryInv' /\ OutputInv' /\ VersionIdentity'
  BY <1>1 DEF IndInv, EntryInv, OutputInv, VersionIdentity
<1>. QED BY <1>4, <1>5, <1>6 DEF IndInv

\* A request ends without a change to the key table.
LEMMA ReturnKeeps ==
    ASSUME IndInv, NEW c \in Clients, Return(c)
    PROVE  /\ DOMAIN calls' \subseteq DOMAIN calls
           /\ \A x \in DOMAIN calls' : calls'[x] = calls[x]
  BY DEF Return, Drop

LEMMA RefuseStep ==
    ASSUME IndInv, NEW c \in Clients, Refuse(c)
    PROVE  IndInv'
<1>1. UNCHANGED <<keys, used, fresh, outputs, owner>>
  BY DEF Refuse
<1>2. /\ DOMAIN calls' \subseteq DOMAIN calls
      /\ \A x \in DOMAIN calls' : calls'[x] = calls[x]
  BY ReturnKeeps DEF Refuse
<1>3. TypeOK' /\ CallInv'
  BY <1>1, <1>2 DEF IndInv, TypeOK, CallInv
<1>4. EntryInv' /\ OutputInv' /\ VersionIdentity'
  BY <1>1 DEF IndInv, EntryInv, OutputInv, VersionIdentity
<1>. QED BY <1>3, <1>4 DEF IndInv

\* An answer that rests on the material decrypt would select for its version.
LEMMA EmitStep ==
    ASSUME IndInv, NEW c \in Clients, c \in DOMAIN calls,
           calls[c].key \in DOMAIN keys,
           NEW kind \in {"cipher", "sig", "material"}, NEW v \in Nat,
           Selectable(keys[calls[c].key], v),
           kind = "cipher" => CanEncrypt(keys[calls[c].key])
                              /\ v = keys[calls[c].key].version,
           Emit(c, kind, v, Selected(keys[calls[c].key], v))
    PROVE  IndInv'
<1>. DEFINE k == calls[c].key
            e == keys[k]
            m == Selected(e, v)
            o == [kind |-> kind, key |-> k, by |-> calls[c].tenant,
                  tenant |-> e.tenant, spec |-> e.spec,
                  version |-> v, material |-> m]
<1>1. UNCHANGED <<keys, used, fresh, owner>> /\ outputs' = outputs \cup {o}
  BY DEF Emit
<1>2. /\ DOMAIN calls' \subseteq DOMAIN calls
      /\ \A x \in DOMAIN calls' : calls'[x] = calls[x]
  BY ReturnKeeps DEF Emit
<1>3. /\ k \in used /\ k \in KeyIds /\ calls[c].tenant = owner[k]
      /\ calls[c].tenant \in Tenants /\ e.tenant = owner[k]
      /\ e \in KeyEntry /\ WellKept(e)
  BY EntryInvSplit DEF IndInv, TypeOK, CallInv, Request
<1>4. e.versions \in Seq(Archived) /\ FirstExists(e.versions)
      /\ e.version \in Nat /\ e.material \in Material
  BY <1>3 DEF KeyEntry, WellKept
<1>5. m \in Material
  BY <1>4, FindType DEF Selected, Selectable
<1>6. o \in Output
  BY <1>3, <1>5 DEF Output, KeyEntry
<1>7. v <= e.version
  BY <1>3, <1>4 DEF Selectable, HasVersion, WellKept
<1>8. Retained(e, o)
  <2>1. v < e.version => HasVersion(e.versions, v) /\ Find(e.versions, v) = m
    BY <1>4, <1>7 DEF Selectable, Selected
  <2>2. v = e.version => m = e.material
    BY DEF Selected
  <2>. QED BY <1>3, <1>4, <1>7, <2>1, <2>2 DEF Retained
<1>9. kind = "cipher" => e.spec \in EncryptSpecs /\ m # Empty
  BY DEF CanEncrypt, Selected
<1>10. ASSUME NEW p \in outputs, p.key = k, p.version = v,
              p.material # Empty, m # Empty
       PROVE  p.material = m
  <2>1. Retained(e, p)
    BY <1>10 DEF IndInv, OutputInv
  <2>2. CASE v = e.version
    BY <2>1, <2>2, <1>10 DEF Retained, Selected
  <2>3. CASE v < e.version
    BY <2>1, <2>3, <1>4, <1>10 DEF Retained, Selected
  <2>. QED BY <2>2, <2>3, <1>4, <1>7
<1>. HIDE DEF m, e
<1>11. TypeOK'
  BY <1>1, <1>2, <1>6 DEF IndInv, TypeOK
<1>12. EntryInv' /\ CallInv'
  BY <1>1, <1>2 DEF IndInv, EntryInv, CallInv
<1>13. OutputInv'
  <2>2. /\ o.key = k /\ o.by = owner[k] /\ o.kind = kind
        /\ o.spec = e.spec /\ o.material = m
    BY <1>3
  <2>3. k \in DOMAIN keys' => Retained(keys'[k], o)
    BY <1>1, <1>8 DEF e
  <2>. HIDE DEF o, k
  <2>. QED BY <1>1, <1>3, <1>9, <2>2, <2>3 DEF IndInv, OutputInv
<1>14. VersionIdentity'
  <2>1. o.key = k /\ o.version = v /\ o.material = m
    OBVIOUS
  <2>. HIDE DEF o, k
  <2>. QED BY <1>1, <1>10, <2>1 DEF IndInv, VersionIdentity
<1>. QED BY <1>11, <1>12, <1>13, <1>14 DEF IndInv

\* One entry is replaced by one that keeps everything made with the old one.
LEMMA ReplaceStep ==
    ASSUME IndInv, NEW c \in Clients, Return(c), NEW k \in DOMAIN keys, NEW e,
           keys' = [keys EXCEPT ![k] = e], e \in KeyEntry, WellKept(e),
           e.tenant = keys[k].tenant,
           \A o \in Output : Retained(keys[k], o) => Retained(e, o),
           fresh' \in Nat, UNCHANGED <<used, outputs, owner>>
    PROVE  IndInv'
<1>1. /\ DOMAIN calls' \subseteq DOMAIN calls
      /\ \A x \in DOMAIN calls' : calls'[x] = calls[x]
  BY ReturnKeeps
<1>2. /\ DOMAIN keys' = DOMAIN keys /\ keys'[k] = e
      /\ \A x \in DOMAIN keys : x # k => keys'[x] = keys[x]
  OBVIOUS
<1>3. TypeOK' /\ CallInv'
  BY <1>1, <1>2 DEF IndInv, TypeOK, CallInv
<1>4. EntryInv'
  <2>1. \A x \in DOMAIN keys' : keys'[x].tenant = owner'[x] /\ WellKept(keys'[x])
    BY <1>2, EntryInvSplit DEF IndInv
  <2>. QED BY <2>1 DEF EntryInv, WellKept, FirstExists
<1>5. OutputInv'
  BY <1>2 DEF IndInv, OutputInv, TypeOK
<1>6. VersionIdentity'
  BY DEF IndInv, VersionIdentity
<1>. QED BY <1>3, <1>4, <1>5, <1>6 DEF IndInv

LEMMA DestroyStep ==
    ASSUME IndInv, NEW k \in KeyIds, destroy_key(k)
    PROVE  IndInv'
<1>1. /\ DOMAIN keys' \subseteq DOMAIN keys
      /\ \A x \in DOMAIN keys' : keys'[x] = keys[x]
      /\ UNCHANGED <<used, fresh, calls, outputs, owner>>
  BY DEF destroy_key, Drop
<1>. QED BY <1>1
     DEF IndInv, TypeOK, EntryInv, CallInv, OutputInv, VersionIdentity

LEMMA NextIndInv == IndInv /\ [Next]_vars => IndInv'
<1>. SUFFICES ASSUME IndInv, [Next]_vars PROVE IndInv'
  OBVIOUS
<1>1. ASSUME NEW k \in KeyIds, NEW t \in Tenants, NEW s \in Specs,
             generate_key(k, t, s)
      PROVE  IndInv'
  <2>1. fresh \in Nat
    BY DEF IndInv, TypeOK
  <2>2. <<"gen", fresh>> \in Material /\ fresh' \in Nat
    BY <2>1, <1>1 DEF Material, generate_key
  <2>. QED BY <1>1, <2>2, InsertStep DEF generate_key
<1>2. ASSUME NEW k \in KeyIds, NEW t \in Tenants, NEW s \in Specs,
             NEW n \in ImportIds, import_key_material(k, t, s, n)
      PROVE  IndInv'
  <2>1. <<"imp", n>> \in Material /\ fresh' \in Nat
    BY <1>2, ConstantsAssumption DEF Material, import_key_material, IndInv, TypeOK
  <2>. QED BY <1>2, <2>1, InsertStep DEF import_key_material
<1>3. ASSUME NEW c \in Clients, NEW op \in Ops, NEW k \in KeyIds,
             NEW t \in Tenants, Call(c, op, k, t)
      PROVE  IndInv'
  BY <1>3, CallStep
<1>4. ASSUME NEW c \in Clients, c \in DOMAIN calls, calls[c].key \in DOMAIN keys
      PROVE  /\ keys[calls[c].key] \in KeyEntry
             /\ WellKept(keys[calls[c].key])
             /\ keys[calls[c].key].version \in Nat
  BY <1>4, EntryInvSplit DEF IndInv, TypeOK, KeyEntry
<1>5. ASSUME NEW c \in Clients, encrypt(c) PROVE IndInv'
  <2>. DEFINE e == keys[calls[c].key]
  <2>1. c \in DOMAIN calls /\ calls[c].key \in DOMAIN keys /\ CanEncrypt(e)
    BY <1>5 DEF encrypt, Serving
  <2>2. Selectable(e, e.version) /\ Selected(e, e.version) = e.material
    BY DEF Selectable, Selected
  <2>3. Emit(c, "cipher", e.version, Selected(e, e.version))
    BY <1>5, <2>2 DEF encrypt
  <2>. QED BY <1>4, <2>1, <2>2, <2>3, EmitStep
<1>6. ASSUME NEW c \in Clients, sign(c) PROVE IndInv'
  <2>. DEFINE e == keys[calls[c].key]
  <2>1. c \in DOMAIN calls /\ calls[c].key \in DOMAIN keys
    BY <1>6 DEF sign, Serving
  <2>2. Selectable(e, e.version) /\ Selected(e, e.version) = e.material
    BY DEF Selectable, Selected
  <2>3. Emit(c, "sig", e.version, Selected(e, e.version))
    BY <1>6, <2>2 DEF sign
  <2>. QED BY <1>4, <2>1, <2>2, <2>3, EmitStep
<1>7. ASSUME NEW c \in Clients, export_key_material(c) PROVE IndInv'
  <2>. DEFINE e == keys[calls[c].key]
  <2>1. c \in DOMAIN calls /\ calls[c].key \in DOMAIN keys
    BY <1>7 DEF export_key_material, Serving
  <2>2. Selectable(e, e.version) /\ Selected(e, e.version) = e.material
    BY DEF Selectable, Selected
  <2>3. Emit(c, "material", e.version, Selected(e, e.version))
    BY <1>7, <2>2 DEF export_key_material
  <2>. QED BY <1>4, <2>1, <2>2, <2>3, EmitStep
<1>8. ASSUME NEW c \in Clients, NEW v \in AskedVersions,
             get_key_material_version(c, v)
      PROVE  IndInv'
  <2>. DEFINE e == keys[calls[c].key]
              w == IF v = 0 THEN e.version ELSE v
  <2>1. c \in DOMAIN calls /\ calls[c].key \in DOMAIN keys
    BY <1>8 DEF get_key_material_version, Serving
  <2>2. w \in Nat
    BY <1>4, <2>1, ConstantsAssumption DEF AskedVersions
  <2>3. Selectable(e, w) /\ Emit(c, "material", w, Selected(e, w))
    BY <1>8 DEF get_key_material_version
  <2>. HIDE DEF w
  <2>. QED BY <2>1, <2>2, <2>3, EmitStep
<1>9. ASSUME NEW c \in Clients, rotate_key(c) PROVE IndInv'
  <2>. DEFINE k == calls[c].key
              m == <<"gen", fresh>>
  <2>1. /\ c \in DOMAIN calls /\ k \in DOMAIN keys /\ Return(c)
        /\ keys' = [keys EXCEPT ![k] = Renewed(keys[k], m)]
        /\ fresh' = fresh + 1 /\ UNCHANGED <<used, outputs, owner>>
    BY <1>9 DEF rotate_key, CanRotate, Serving
  <2>2. fresh \in Nat /\ fresh + 1 \in Nat
    BY DEF IndInv, TypeOK
  <2>3. m \in Material
    BY <2>2 DEF Material
  <2>. HIDE DEF m
  <2>4. /\ \A o \in Output : Retained(keys[k], o) => Retained(Renewed(keys[k], m), o)
        /\ Renewed(keys[k], m) \in KeyEntry /\ WellKept(Renewed(keys[k], m))
        /\ Renewed(keys[k], m).tenant = keys[k].tenant
    BY <1>4, <2>1, <2>3, RenewedKeeps
  <2>. QED BY <2>1, <2>2, <2>4, ReplaceStep
<1>10. ASSUME NEW c \in Clients, rotate_key_rejected(c) PROVE IndInv'
  <2>. DEFINE k == calls[c].key
  <2>1. /\ c \in DOMAIN calls /\ k \in DOMAIN keys /\ Return(c)
        /\ keys' = [keys EXCEPT ![k] = Archive(keys[k])]
        /\ UNCHANGED <<used, fresh, outputs, owner>>
    BY <1>10 DEF rotate_key_rejected, CanRotate, Serving
  <2>2. /\ \A o \in Output : Retained(keys[k], o) => Retained(Archive(keys[k]), o)
        /\ Archive(keys[k]) \in KeyEntry /\ WellKept(Archive(keys[k]))
        /\ Archive(keys[k]).tenant = keys[k].tenant
    BY <1>4, <2>1, ArchiveKeeps
  <2>3. fresh' \in Nat
    BY <2>1 DEF IndInv, TypeOK
  <2>. QED BY <2>1, <2>2, <2>3, ReplaceStep
<1>11. ASSUME NEW c \in Clients, delete_key(c) PROVE IndInv'
  <2>. DEFINE k == calls[c].key
              e == [keys[k] EXCEPT !.status = "PendingDeletion"]
  <2>1. /\ c \in DOMAIN calls /\ k \in DOMAIN keys /\ Return(c)
        /\ keys' = [keys EXCEPT ![k] = e]
        /\ UNCHANGED <<used, fresh, outputs, owner>>
    BY <1>11 DEF delete_key, Serving
  <2>2. keys[k] \in KeyEntry /\ WellKept(keys[k])
    BY <1>4, <2>1
  <2>3. /\ e \in KeyEntry /\ e.status = "PendingDeletion"
        /\ e.version = keys[k].version /\ e.versions = keys[k].versions
        /\ e.material = keys[k].material /\ e.tenant = keys[k].tenant
        /\ e.spec = keys[k].spec
    BY <2>2 DEF KeyEntry, KeyStatus
  <2>. HIDE DEF e
  <2>4. WellKept(e) /\ \A o \in Output : Retained(keys[k], o) => Retained(e, o)
    BY <2>2, <2>3 DEF WellKept, Retained
  <2>5. fresh' \in Nat
    BY <2>1 DEF IndInv, TypeOK
  <2>. QED BY <2>1, <2>3, <2>4, <2>5, ReplaceStep
<1>12. ASSUME NEW c \in Clients, Refuse(c) PROVE IndInv'
  BY <1>12, RefuseStep
<1>13. ASSUME NEW k \in KeyIds, destroy_key(k) PROVE IndInv'
  BY <1>13, DestroyStep
<1>14. CASE UNCHANGED vars
  BY <1>14 DEF vars, IndInv, TypeOK, EntryInv, CallInv, OutputInv, VersionIdentity
<1>. QED BY <1>1, <1>2, <1>3, <1>5, <1>6, <1>7, <1>8, <1>9, <1>10, <1>11,
            <1>12, <1>13, <1>14 DEF Next

-----------------------------------------------------------------------------
(* The theorems.                                                           *)

\* IndInv holds in every state of every behaviour.
THEOREM Invariance == Spec => []IndInv
  BY InitIndInv, NextIndInv, PTL DEF Spec

\* The key table, the requests in flight and the history keep their shape.
THEOREM TypeCorrect == Spec => []TypeOK
  BY Invariance, PTL DEF IndInv

\* No answer made with a key reaches a caller of another tenant, however
\* many callers and keys there are.
THEOREM Isolation == Spec => []TenantIsolation
<1>1. IndInv => TenantIsolation
  BY DEF IndInv, OutputInv, TenantIsolation
<1>. QED BY <1>1, Invariance, PTL

\* A version of a key never stands for two materials.
THEOREM VersionsNameMaterial == Spec => []VersionIdentity
  BY Invariance, PTL DEF IndInv

\* Whatever rotations were accepted or rejected since, the owner of a key
\* decrypts every ciphertext ever made with it.
THEOREM CiphertextsStayReadable == Spec => []HistoryReadable
<1>1. IndInv => HistoryReadable
  <2>. SUFFICES ASSUME IndInv, NEW o \in outputs, o.kind = "cipher",
                       o.key \in DOMAIN keys,
                       o.version = keys[o.key].version => keys[o.key].material # Empty
                PROVE  decrypt(o.key, owner[o.key], o)
    BY DEF HistoryReadable
  <2>. DEFINE e == keys[o.key]
  <2>1. /\ e \in KeyEntry /\ WellKept(e) /\ e.tenant = owner[o.key]
        /\ Retained(e, o) /\ o.spec \in EncryptSpecs /\ o.material # Empty
        /\ o \in Output
    BY EntryInvSplit DEF IndInv, TypeOK, OutputInv
  <2>2. can_decrypt(e.status)
    BY <2>1 DEF KeyEntry, KeyStatus, WellKept, can_decrypt
  <2>3. Selectable(e, o.version) /\ Selected(e, o.version) = o.material
    <3>1. o.version \in Nat /\ e.version \in Nat
      BY <2>1 DEF Output, KeyEntry
    <3>. QED BY <2>1, <3>1 DEF Retained, Selectable, Selected
  <2>4. verify_tenant(o.key, owner[o.key])
    BY <2>1 DEF verify_tenant
  <2>. QED BY <2>1, <2>2, <2>3, <2>4 DEF decrypt, Retained, AeadSpecs
<1>. QED BY <1>1, Invariance, PTL

\* A soft delete is never undone by a rotation that raced it.
THEOREM DeletionIsFinal == Spec => DeletionFinal
<1>. DEFINE Kept == \A k \in DOMAIN keys :
                       keys[k].status = "PendingDeletion" /\ k \in DOMAIN keys'
                       => keys'[k].status = "PendingDeletion"
<1>1. IndInv /\ [Next]_vars => [Kept]_vars
  <2>. SUFFICES ASSUME IndInv, Next, NEW k \in DOMAIN keys,
                       keys[k].status = "PendingDeletion", k \in DOMAIN keys'
                PROVE  keys'[k].status = "PendingDeletion"
    OBVIOUS
  <2>1. \A x \in KeyIds, t \in Tenants, s \in Specs :
           generate_key(x, t, s) \/ (\E n \in ImportIds : import_key_material(x, t, s, n))
           => keys'[k] = keys[k]
    BY DEF generate_key, import_key_material, Insert, Put, IndInv, TypeOK
  <2>2. \A c \in Clients : rotate_key(c) \/ rotate_key_rejected(c) => keys'[k] = keys[k]
    BY DEF rotate_key, rotate_key_rejected, CanRotate, can_rotate
  <2>3. \A c \in Clients : delete_key(c) => keys'[k].status = "PendingDeletion"
    <3>. SUFFICES ASSUME NEW c \in Clients, delete_key(c)
                  PROVE  keys'[k].status = "PendingDeletion"
      OBVIOUS
    <3>1. keys[k] \in KeyEntry
      BY DEF IndInv, TypeOK
    <3>. QED BY <3>1 DEF delete_key, KeyEntry
  <2>4. \A x \in KeyIds : destroy_key(x) => keys'[k] = keys[k]
    BY DEF destroy_key, Drop
  <2>5. \A c \in Clients, op \in Ops, x \in KeyIds, t \in Tenants :
           Call(c, op, x, t) => keys' = keys
    BY DEF Call
  <2>6. \A c \in Clients :
           encrypt(c) \/ sign(c) \/ export_key_material(c) \/ Refuse(c)
           => keys' = keys
    BY DEF encrypt, sign, export_key_material, Refuse, Emit
  <2>7. \A c \in Clients, v \in AskedVersions :
           get_key_material_version(c, v) => keys' = keys
    BY DEF get_key_material_version, Emit
  <2>. QED BY <2>1, <2>2, <2>3, <2>4, <2>5, <2>6, <2>7 DEF Next
<1>. QED BY <1>1, Invariance, PTL DEF Spec, DeletionFinal
-----------------------------------------------------------------------------
(* The refinement of KeyLifecycle.                                         *)

\* The life of a key that is in the table.
LifeOf(e) ==
    [tenant |-> e.tenant, state |-> LifeState(e.status), version |-> e.version]

LEMMA LivesOf ==
    /\ DOMAIN lives = used
    /\ \A k \in used : k \in DOMAIN keys => lives[k] = LifeOf(keys[k])
    /\ \A k \in used : k \notin DOMAIN keys =>
          lives[k] = [tenant |-> owner[k], state |-> "Destroyed", version |-> 0]
BY DEF lives, LifeOf

\* A step that changes one entry in place changes one life in place.
LEMMA LifeInPlace ==
    ASSUME IndInv, NEW k \in DOMAIN keys, NEW e,
           keys' = [keys EXCEPT ![k] = e], UNCHANGED <<used, owner>>
    PROVE  lives' = [lives EXCEPT ![k] = LifeOf(e)]
<1>1. DOMAIN keys' = DOMAIN keys /\ keys'[k] = e /\ k \in used
      /\ \A x \in DOMAIN keys \ {k} : keys'[x] = keys[x]
  BY DEF IndInv, TypeOK
<1>2. /\ DOMAIN lives' = used /\ DOMAIN lives = used
      /\ lives' = [x \in used |-> lives'[x]]
  BY DEF lives
<1>3. \A x \in used : lives'[x] = IF x = k THEN LifeOf(e) ELSE lives[x]
  BY <1>1 DEF lives, LifeOf
<1>. QED BY <1>2, <1>3

LEMMA CreateLife ==
    ASSUME IndInv, NEW k, NEW t \in Tenants, NEW s, NEW mat, Insert(k, t, s, mat)
    PROVE  Lifecycle!Create(k, t)
<1>. DEFINE new == [tenant |-> t, state |-> "Usable", version |-> 1]
<1>1. /\ k \notin used /\ used' = used \cup {k} /\ k \notin DOMAIN keys
      /\ DOMAIN keys' = DOMAIN keys \cup {k} /\ keys'[k] = NewEntry(t, s, mat)
      /\ \A x \in DOMAIN keys : keys'[x] = keys[x]
      /\ \A x \in used : owner'[x] = owner[x]
  BY DEF Insert, Put, IndInv, TypeOK
<1>2. /\ NewEntry(t, s, mat).tenant = t /\ NewEntry(t, s, mat).status = "Active"
      /\ NewEntry(t, s, mat).version = 1
  BY DEF NewEntry
<1>3. lives'[k] = new
  <2>1. lives'[k] = LifeOf(keys'[k])
    BY <1>1 DEF lives, LifeOf
  <2>. QED BY <2>1, <1>1, <1>2 DEF LifeOf, LifeState
<1>4. \A x \in used : lives'[x] = lives[x]
  BY <1>1 DEF lives
<1>5. lives' = [x \in used \cup {k} |-> IF x = k THEN new ELSE lives[x]]
  <2>1. lives' = [x \in used' |-> lives'[x]]
    BY DEF lives
  <2>. QED BY <2>1, <1>1, <1>3, <1>4
<1>6. DOMAIN lives = used
  BY LivesOf
<1>. QED BY <1>1, <1>5, <1>6 DEF Lifecycle!Create, Lifecycle!Extend

LEMMA RotateLife ==
    ASSUME IndInv, NEW c \in Clients, rotate_key(c)
    PROVE  Lifecycle!Rotate(calls[c].key)
<1>. DEFINE k == calls[c].key
            e == keys[k]
            f == Renewed(e, <<"gen", fresh>>)
<1>1. /\ k \in DOMAIN keys /\ can_rotate(e.status)
      /\ keys' = [keys EXCEPT ![k] = f] /\ UNCHANGED <<used, owner>>
  BY DEF rotate_key, CanRotate, Serving
<1>2. e \in KeyEntry /\ k \in used
  BY <1>1 DEF IndInv, TypeOK
<1>3. f.tenant = e.tenant /\ f.status = "Active" /\ f.version = e.version + 1
  BY <1>2 DEF Renewed, Archive, KeyEntry
<1>. HIDE DEF f, e
<1>4. LifeOf(f) = [LifeOf(e) EXCEPT !.version = LifeOf(e).version + 1]
  BY <1>1, <1>3 DEF LifeOf, LifeState, can_rotate
<1>5. lives' = [lives EXCEPT ![k] = LifeOf(f)]
  BY <1>1, LifeInPlace
<1>6. DOMAIN lives = used /\ lives[k] = LifeOf(e) /\ LifeOf(e).state = "Usable"
  BY <1>1, <1>2, LivesOf DEF e, LifeOf, LifeState, can_rotate
<1>7. lives' = [lives EXCEPT ![k] = [lives[k] EXCEPT !.version = lives[k].version + 1]]
  BY <1>4, <1>5, <1>6
<1>. QED BY <1>2, <1>6, <1>7 DEF Lifecycle!Rotate

LEMMA RejectedLife ==
    ASSUME IndInv, NEW c \in Clients, rotate_key_rejected(c)
    PROVE  lives' = lives
<1>. DEFINE k == calls[c].key
            e == keys[k]
            f == Archive(e)
<1>1. /\ k \in DOMAIN keys
      /\ keys' = [keys EXCEPT ![k] = f] /\ UNCHANGED <<used, owner>>
  BY DEF rotate_key_rejected, CanRotate, Serving
<1>2. e \in KeyEntry /\ k \in used
  BY <1>1 DEF IndInv, TypeOK
<1>3. f.tenant = e.tenant /\ f.status = e.status /\ f.version = e.version
  BY <1>2 DEF Archive, KeyEntry
<1>. HIDE DEF f, e
<1>4. LifeOf(f) = LifeOf(e)
  BY <1>3 DEF LifeOf
<1>5. lives' = [lives EXCEPT ![k] = LifeOf(f)]
  BY <1>1, LifeInPlace
<1>6. DOMAIN lives = used /\ lives[k] = LifeOf(e)
  BY <1>1, <1>2, LivesOf DEF e
<1>7. lives = [x \in used |-> lives[x]]
  BY DEF lives
<1>. QED BY <1>4, <1>5, <1>6, <1>7

LEMMA DeleteLife ==
    ASSUME IndInv, NEW c \in Clients, delete_key(c)
    PROVE  Lifecycle!Delete(calls[c].key)
<1>. DEFINE k == calls[c].key
            e == keys[k]
            f == [e EXCEPT !.status = "PendingDeletion"]
<1>1. /\ k \in DOMAIN keys
      /\ keys' = [keys EXCEPT ![k] = f] /\ UNCHANGED <<used, owner>>
  BY DEF delete_key, Serving
<1>2. e \in KeyEntry /\ k \in used
  BY <1>1 DEF IndInv, TypeOK
<1>3. f.tenant = e.tenant /\ f.status = "PendingDeletion" /\ f.version = e.version
  BY <1>2 DEF KeyEntry
<1>. HIDE DEF f, e
<1>4. LifeOf(f) = [LifeOf(e) EXCEPT !.state = "PendingDeletion"]
  BY <1>3 DEF LifeOf, LifeState
<1>5. lives' = [lives EXCEPT ![k] = LifeOf(f)]
  BY <1>1, LifeInPlace
<1>6. DOMAIN lives = used /\ lives[k] = LifeOf(e) /\ LifeOf(e).state # "Destroyed"
  BY <1>1, <1>2, LivesOf DEF e, LifeOf, LifeState
<1>7. lives' = [lives EXCEPT ![k] = [lives[k] EXCEPT !.state = "PendingDeletion"]]
  BY <1>4, <1>5, <1>6
<1>. QED BY <1>2, <1>6, <1>7 DEF Lifecycle!Delete

LEMMA DestroyLife ==
    ASSUME IndInv, NEW k \in KeyIds, destroy_key(k)
    PROVE  Lifecycle!Destroy(k)
<1>. DEFINE e == keys[k]
            gone == [tenant |-> owner[k], state |-> "Destroyed", version |-> 0]
<1>1. /\ k \in DOMAIN keys /\ k \in used /\ UNCHANGED <<used, owner>>
      /\ DOMAIN keys' = DOMAIN keys \ {k} /\ e.tenant = owner[k]
      /\ \A x \in DOMAIN keys \ {k} : keys'[x] = keys[x]
  BY DEF destroy_key, Drop, IndInv, TypeOK, EntryInv
<1>2. lives[k] = LifeOf(e) /\ DOMAIN lives = used /\ lives = [x \in used |-> lives[x]]
  BY <1>1 DEF lives, LifeOf
<1>3. /\ lives' = [x \in used |-> lives'[x]]
      /\ \A x \in used : lives'[x] = IF x = k THEN gone ELSE lives[x]
  BY <1>1 DEF lives
<1>4. LifeOf(e).state # "Destroyed" /\ LifeOf(e).tenant = owner[k]
  BY <1>1 DEF LifeOf, LifeState
<1>. HIDE DEF gone, e
<1>5. lives' = [lives EXCEPT ![k] = gone]
  BY <1>1, <1>2, <1>3
<1>. QED BY <1>1, <1>2, <1>4, <1>5 DEF Lifecycle!Destroy, gone

\* The key store implements the abstract specification of the life of keys.
THEOREM LifecycleImplemented == Spec => ImplementsLifecycle
<1>1. Init => Lifecycle!Init
  BY DEF Init, Lifecycle!Init, lives
<1>2. IndInv /\ [Next]_vars => [Lifecycle!Next]_lives
  <2>. SUFFICES ASSUME IndInv, [Next]_vars PROVE Lifecycle!Next \/ lives' = lives
    OBVIOUS
  <2>1. ASSUME NEW k \in KeyIds, NEW t \in Tenants, NEW s \in Specs,
               generate_key(k, t, s) \/ \E n \in ImportIds : import_key_material(k, t, s, n)
        PROVE  Lifecycle!Next
    <3>1. Lifecycle!Create(k, t)
      BY <2>1, CreateLife DEF generate_key, import_key_material
    <3>. QED BY <3>1 DEF Lifecycle!Next
  <2>2. ASSUME NEW c \in Clients, rotate_key(c)
        PROVE  Lifecycle!Next
    <3>1. calls[c].key \in KeyIds
      BY <2>2 DEF rotate_key, CanRotate, Serving, IndInv, TypeOK
    <3>. QED BY <2>2, <3>1, RotateLife DEF Lifecycle!Next
  <2>3. ASSUME NEW c \in Clients, delete_key(c)
        PROVE  Lifecycle!Next
    <3>1. calls[c].key \in KeyIds
      BY <2>3 DEF delete_key, Serving, IndInv, TypeOK
    <3>. QED BY <2>3, <3>1, DeleteLife DEF Lifecycle!Next
  <2>4. ASSUME NEW k \in KeyIds, destroy_key(k)
        PROVE  Lifecycle!Next
    BY <2>4, DestroyLife DEF Lifecycle!Next
  <2>5. ASSUME NEW c \in Clients, rotate_key_rejected(c)
        PROVE  lives' = lives
    BY <2>5, RejectedLife
  <2>6. ASSUME UNCHANGED <<keys, used, owner>>
        PROVE  lives' = lives
    BY <2>6 DEF lives
  <2>7. ASSUME NEW c \in Clients, NEW op \in Ops, NEW k \in KeyIds, NEW t \in Tenants,
               Call(c, op, k, t)
        PROVE  lives' = lives
    BY <2>6, <2>7 DEF Call
  <2>8. ASSUME NEW c \in Clients,
               \/ encrypt(c) \/ sign(c) \/ export_key_material(c) \/ Refuse(c)
               \/ \E v \in AskedVersions : get_key_material_version(c, v)
        PROVE  lives' = lives
    BY <2>6, <2>8 DEF encrypt, sign, export_key_material, Refuse,
                      get_key_material_version, Emit
  <2>9. CASE UNCHANGED vars
    BY <2>6, <2>9 DEF vars
  <2>10. CASE Next
    BY <2>1, <2>2, <2>3, <2>4, <2>5, <2>7, <2>8, <2>10 DEF Next
  <2>. QED BY <2>9, <2>10
<1>. QED BY <1>1, <1>2, Invariance, PTL DEF Spec, ImplementsLifecycle, Lifecycle!Spec

=============================================================================
