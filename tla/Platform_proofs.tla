--------------------------- MODULE Platform_proofs ---------------------------
(***************************************************************************)
(* Theorems about the server's process: how it starts and stops, what it   *)
(* keeps beside its key store, in the TPM and in key exchange sessions,    *)
(* how an audit event gets to the log, and what keys are made of and       *)
(* recovered from; for any deployments, and any number of starts,          *)
(* failures, registers, keys, sessions, messages, events and calls.        *)
(***************************************************************************)
EXTENDS Tpm, Sm2Kex, Startup, AuditDelivery, KeyBackup, FiniteSetTheorems, SequenceTheorems, TLAPS

\* A set of natural numbers that is not empty has a least element.
LEMMA LeastNatural ==
    ASSUME NEW T \in SUBSET Nat, T # {}
    PROVE  \E x \in T : \A y \in T : x <= y
<1> DEFINE R == {ss \in Nat \X Nat : ss[1] < ss[2]}
<1>1. IsWellFoundedOn(R, Nat)
  BY NatLessThanWellFounded DEF OpToRel
<1>2. \A x, y \in Nat : <<y, x>> \notin R => x <= y
  OBVIOUS
<1>3. \E x \in T : \A y \in T : <<y, x>> \notin R
  <2> HIDE DEF R
  <2> QED
    BY <1>1, WFMin
<1> HIDE DEF R
<1> QED
  BY <1>2, <1>3

\* Indices that are kept from some point on are an interval.
LEMMA UpwardIsInterval ==
    ASSUME NEW n \in Nat, NEW X \in SUBSET (1 .. n),
           \A i, j \in 1 .. n : i <= j /\ i \in X => j \in X
    PROVE  \E q \in 0 .. n : X = (q + 1) .. n
<1>1. CASE X = {}
  <2>1. X = (n + 1) .. n
    BY <1>1
  <2> QED
    BY <2>1
<1>2. CASE X # {}
  <2>1. X \in SUBSET Nat
    OBVIOUS
  <2>2. PICK x \in X : \A y \in X : x <= y
    BY <1>2, <2>1, LeastNatural
  <2>3. x \in 1 .. n
    OBVIOUS
  <2>4. X \subseteq x .. n
    BY <2>2, <2>3
  <2>5. x .. n \subseteq X
    BY <2>2, <2>3
  <2>6. x - 1 \in 0 .. n /\ (x - 1) + 1 = x
    BY <2>3
  <2> QED
    BY <2>4, <2>5, <2>6
<1> QED
  BY <1>1, <1>2

\* Retaining the indices after q is dropping the first q elements.
LEMMA RetainedSuffix ==
    ASSUME NEW S, NEW seq \in Seq(S), NEW q \in 0 .. Len(seq)
    PROVE  /\ Retained(seq, (q + 1) .. Len(seq)) \in Seq(S)
           /\ Len(Retained(seq, (q + 1) .. Len(seq))) = Len(seq) - q
           /\ \A j \in 1 .. Len(seq) - q :
                Retained(seq, (q + 1) .. Len(seq))[j] = seq[q + j]
<1>1. PICK n \in Nat : n = Len(seq) /\ q \in 0 .. n /\ n - q \in Nat
  OBVIOUS
<1> DEFINE kept == (q + 1) .. n
           r == Retained(seq, kept)
<1>2. \A a, b \in Int : Cardinality(a .. b) = IF a > b THEN 0 ELSE b - a + 1
  BY FS_Interval
<1>3. Cardinality(kept) = n - q
  <2>1. q + 1 \in Int /\ n \in Int /\ (q + 1 > n => n - q = 0) /\ n - (q + 1) + 1 = n - q
    BY <1>1
  <2> QED
    BY <1>2, <2>1
<1>4. ASSUME NEW j \in 1 .. n - q
      PROVE  (CHOOSE i \in kept : Cardinality({l \in kept : l <= i}) = j) = q + j
  <2>1. \A i \in kept : {l \in kept : l <= i} = (q + 1) .. i
    BY <1>1
  <2>2. \A i \in kept : Cardinality((q + 1) .. i) = i - q
    BY <1>1, <1>2
  <2>3. \A i \in kept : Cardinality({l \in kept : l <= i}) = i - q
    BY <2>1, <2>2
  <2>4. q + j \in kept
    BY <1>1
  <2>5. \A i \in kept : i - q = j <=> i = q + j
    BY <1>1
  <2>6. \A i \in kept : Cardinality({l \in kept : l <= i}) = j <=> i = q + j
    BY <2>3, <2>5
  <2> HIDE DEF kept
  <2> QED
    BY <2>4, <2>6
<1>5. r = [j \in 1 .. n - q |-> seq[CHOOSE i \in kept : Cardinality({l \in kept : l <= i}) = j]]
  BY <1>3 DEF Retained
<1>6. \A j \in 1 .. n - q : r[j] = seq[q + j]
  <2> HIDE DEF kept, r
  <2> QED
    BY <1>4, <1>5
<1>7. r \in Seq(S) /\ Len(r) = n - q
  <2>1. \A j \in 1 .. n - q : q + j \in 1 .. n /\ seq[q + j] \in S
    BY <1>1
  <2>2. r \in [1 .. n - q -> S]
    <3> HIDE DEF kept, r
    <3> QED
      BY <1>4, <1>5, <2>1
  <2> HIDE DEF kept, r
  <2> QED
    BY <1>1, <2>2
<1> HIDE DEF kept, r
<1>8. r = Retained(seq, (q + 1) .. Len(seq))
  BY <1>1 DEF kept, r
<1> QED
  BY <1>1, <1>6, <1>7, <1>8

\* A sequence with one more element at its end.
LEMMA EntryAppended ==
    ASSUME NEW S, NEW s \in Seq(S), NEW e \in S
    PROVE  /\ Append(s, e) \in Seq(S) /\ Len(Append(s, e)) = Len(s) + 1
           /\ \A i \in 1 .. Len(s) : Append(s, e)[i] = s[i]
           /\ Append(s, e)[Len(s) + 1] = e
  OBVIOUS

\* A sequence without its first element.
LEMMA OldestDropped ==
    ASSUME NEW S, NEW s \in Seq(S), Len(s) > 0
    PROVE  \E x \in Seq(S) :
             x = Tail(s) /\ Len(x) = Len(s) - 1 /\ \A j \in 1 .. Len(s) - 1 : x[j] = s[j + 1]
<1>1. s # <<>>
  OBVIOUS
<1>2. Tail(s) \in Seq(S) /\ Len(Tail(s)) = Len(s) - 1
  BY <1>1
<1>3. \A j \in 1 .. Len(s) - 1 : Tail(s)[j] = s[j + 1]
  BY <1>1
<1> QED
  BY <1>2, <1>3

(***************************************************************************)
(* The simulated TPM.  TpmSound is not inductive: a call works on a copy   *)
(* of an entry that may be gone, or rotated, when it returns, and what the *)
(* call hands out then is right only because the material of a key never   *)
(* changes and a handle is never used again.  TpmInv says so of the        *)
(* entries, of the copies, of the ciphertexts and of the proofs.           *)
(***************************************************************************)

Registers == 0 .. NumPcrs - 1
\* What registers are sealed to, or nothing.
Seals == {<<>>} \cup {<<f>> : f \in UNION {[S -> Seq(Registers)] : S \in SUBSET Registers}}
TpmEntry == [id : Nat, spec : TpmSpecs, version : Nat, status : {"Active", "PendingDeletion"},
             material : Nat, binding : Seals]
TpmCiphertext == [id : Nat, version : Nat, material : Nat]
TpmCall == [op : {"encrypt", "decrypt", "sign", "destroy"}, entry : {<<e>> : e \in TpmEntry},
            ciphertext : {<<>>} \cup {<<x>> : x \in TpmCiphertext}]

TpmTypeOK ==
    /\ handles \in Nat
    /\ DOMAIN nv \subseteq 1 .. handles
    /\ nv \in [DOMAIN nv -> TpmEntry]
    /\ pcrs \in [Registers -> Seq(Registers)]
    /\ pending \in [TpmClients -> {NoTpmCall} \cup TpmCall]
    /\ ciphertexts \subseteq TpmCiphertext
    /\ proofs \in Seq([id : Nat, material : Nat])

\* The handle, the id and the material of a key belong together for good.
Genuine(e) == e.material = e.id
EntriesGenuine == \A h \in DOMAIN nv : nv[h].id = h /\ Genuine(nv[h])
CopiesGenuine == \A c \in TpmClients : pending[c] # NoTpmCall => Genuine(pending[c].entry[1])
CiphertextsGenuine == \A x \in ciphertexts : Genuine(x)
\* A key that was proved destroyed is one that was made and is not there.
ProofsGone == \A i \in 1 .. Len(proofs) : proofs[i].id \in (1 .. handles) \ DOMAIN nv
ProofsApart ==
    \A i, j \in 1 .. Len(proofs) : proofs[i].id = proofs[j].id => i = j

TpmInv ==
    /\ TpmTypeOK /\ EntriesGenuine /\ CopiesGenuine /\ CiphertextsGenuine
    /\ ProofsGone /\ ProofsApart /\ SealHolds

\* The sealed values of a key are a function of registers.
LEMMA SealIsFunction ==
    ASSUME NEW b \in Seals, b # <<>>
    PROVE  /\ b[1] = [i \in DOMAIN b[1] |-> b[1][i]]
           /\ DOMAIN b[1] \subseteq Registers
<1>1. PICK f \in UNION {[S -> Seq(Registers)] : S \in SUBSET Registers} : b = <<f>>
  BY DEF Seals
<1>2. PICK S \in SUBSET Registers : f \in [S -> Seq(Registers)]
  BY <1>1
<1>3. b[1] = f
  BY <1>1
<1> QED
  BY <1>2, <1>3

\* In a state of the invariant the handle of an id is the id itself.
LEMMA HandleIsId ==
    ASSUME TpmInv, NEW id
    PROVE  /\ Known(id) <=> id \in DOMAIN nv
           /\ Known(id) => Handle(id) = id
<1>1. \A h \in DOMAIN nv : nv[h].id = h
  BY DEF TpmInv, EntriesGenuine
<1> QED
  BY <1>1 DEF Known, Handle

\* A new simulator has no keys, no calls and no proofs.
LEMMA TpmInitEstablishes == TpmInit => TpmInv
<1> SUFFICES ASSUME TpmInit PROVE TpmInv
  OBVIOUS
<1>1. DOMAIN nv = {} /\ nv \in [DOMAIN nv -> TpmEntry]
  BY DEF TpmInit
<1>2. pcrs \in [Registers -> Seq(Registers)]
  BY DEF TpmInit, Registers
<1>3. pending \in [TpmClients -> {NoTpmCall} \cup TpmCall]
  BY DEF TpmInit
<1>4. proofs \in Seq([id : Nat, material : Nat]) /\ Len(proofs) = 0
  BY DEF TpmInit
<1>5. \A c \in TpmClients : pending[c] = NoTpmCall
  BY DEF TpmInit
<1> QED
  BY <1>1, <1>2, <1>3, <1>4, <1>5
     DEF TpmInit, TpmInv, TpmTypeOK, EntriesGenuine, CopiesGenuine, CiphertextsGenuine,
         ProofsGone, ProofsApart, SealHolds

\* A measurement is added to one register.
LEMMA ExtendPreserves ==
    ASSUME TpmInv, NEW i, extend_pcr(i) PROVE TpmInv'
<1>1. i \in Registers /\ pcrs[i] \in Seq(Registers)
  BY DEF TpmInv, TpmTypeOK, extend_pcr
<1>2. Append(pcrs[i], i) \in Seq(Registers)
  BY <1>1
<1>3. pcrs' \in [Registers -> Seq(Registers)]
  BY <1>1, <1>2 DEF TpmInv, TpmTypeOK, extend_pcr
<1> QED
  BY <1>3 DEF extend_pcr, TpmInv, TpmTypeOK, EntriesGenuine, CopiesGenuine,
         CiphertextsGenuine, ProofsGone, ProofsApart, SealHolds

\* A new key has a handle nobody has met, so no proof is about it.
LEMMA InsertPreserves ==
    ASSUME TpmInv, NEW spec \in TpmSpecs, NEW b \in Seals, Insert(spec, b)
    PROVE  TpmInv'
<1>1. handles \in Nat /\ handles' = handles + 1
  BY DEF TpmInv, TpmTypeOK, Insert
<1> DEFINE n == handles + 1
           e == [id |-> n, spec |-> spec, version |-> 1, status |-> "Active",
                 material |-> n, binding |-> b]
<1>2. n \in Nat /\ n \notin DOMAIN nv
  BY <1>1 DEF TpmInv, TpmTypeOK
<1>3. e \in TpmEntry /\ e.id = n /\ Genuine(e)
  BY <1>2 DEF TpmEntry, Genuine
<1>4. /\ DOMAIN nv' = DOMAIN nv \cup {n}
      /\ nv'[n] = e
      /\ \A h \in DOMAIN nv : nv'[h] = nv[h]
      /\ nv' = [h \in DOMAIN nv \cup {n} |-> nv'[h]]
  BY <1>2 DEF Insert
<1>5. /\ DOMAIN nv' \subseteq 1 .. handles'
      /\ nv' \in [DOMAIN nv' -> TpmEntry]
      /\ EntriesGenuine'
  <2> HIDE DEF e
  <2>1. nv \in [DOMAIN nv -> TpmEntry] /\ DOMAIN nv \subseteq 1 .. handles
    BY DEF TpmInv, TpmTypeOK
  <2>2. \A h \in DOMAIN nv' : nv'[h] \in TpmEntry
    BY <2>1, <1>3, <1>4
  <2>3. EntriesGenuine'
    BY <1>3, <1>4 DEF TpmInv, EntriesGenuine, Genuine
  <2> QED
    BY <1>1, <1>4, <2>1, <2>2, <2>3
<1>6. ProofsGone'
  <2> HIDE DEF e
  <2> SUFFICES ASSUME NEW i \in 1 .. Len(proofs)
               PROVE  proofs[i].id \in (1 .. handles') \ DOMAIN nv'
    BY DEF ProofsGone, Insert
  <2>1. proofs[i].id \in (1 .. handles) \ DOMAIN nv
    BY DEF TpmInv, ProofsGone
  <2>2. proofs[i].id \in 1 .. handles' /\ proofs[i].id # n
    BY <1>1, <2>1
  <2> QED
    BY <1>4, <2>1, <2>2
<1> QED
  BY <1>1, <1>5, <1>6 DEF Insert, TpmInv, TpmTypeOK, CopiesGenuine, CiphertextsGenuine,
         ProofsApart, SealHolds

\* A change of an entry that leaves its id and material alone.
LEMMA UpdatePreserves ==
    ASSUME TpmInv, NEW id, Known(id), NEW e \in TpmEntry,
           e.id = nv[id].id, e.material = nv[id].material,
           nv' = [nv EXCEPT ![id] = e],
           UNCHANGED <<handles, pcrs, pending, ciphertexts, opened, proofs>>
    PROVE  TpmInv'
<1>1. id \in DOMAIN nv
  BY HandleIsId
<1>2. nv \in [DOMAIN nv -> TpmEntry]
  BY DEF TpmInv, TpmTypeOK
<1>3. DOMAIN nv' = DOMAIN nv /\ nv' \in [DOMAIN nv -> TpmEntry]
  BY <1>1, <1>2
<1>4. EntriesGenuine'
  BY <1>1, <1>2, <1>3 DEF TpmInv, EntriesGenuine, Genuine
<1> QED
  BY <1>3, <1>4 DEF TpmInv, TpmTypeOK, CopiesGenuine, CiphertextsGenuine, ProofsGone,
                    ProofsApart, SealHolds

\* A rotation counts the version and keeps the material.
LEMMA RotatePreserves ==
    ASSUME TpmInv, NEW id, rotate_key(id) PROVE TpmInv'
<1>1. Known(id) /\ Handle(id) = id /\ id \in DOMAIN nv
  BY HandleIsId DEF rotate_key
<1>2. nv[id] \in TpmEntry
  BY <1>1 DEF TpmInv, TpmTypeOK
<1> DEFINE e == [nv[id] EXCEPT !.version = @ + 1, !.status = "Active"]
<1>3. e \in TpmEntry /\ e.id = nv[id].id /\ e.material = nv[id].material
  <2>1. PICK o \in TpmEntry : o = nv[id]
    BY <1>2
  <2>2. PICK v \in Nat : v = o.version + 1
    BY DEF TpmEntry
  <2>3. e = [o EXCEPT !.version = v, !.status = "Active"]
    BY <2>1, <2>2
  <2> QED
    BY <2>1, <2>3 DEF TpmEntry
<1>4. nv' = [nv EXCEPT ![id] = e]
  BY <1>1, <1>2 DEF rotate_key, TpmEntry
<1> HIDE DEF e
<1> QED
  BY <1>1, <1>3, <1>4, UpdatePreserves DEF rotate_key

\* A deletion is a mark.
LEMMA DeletePreserves ==
    ASSUME TpmInv, NEW id, delete_key(id) PROVE TpmInv'
<1>1. Known(id) /\ Handle(id) = id /\ id \in DOMAIN nv
  BY HandleIsId DEF delete_key
<1>2. nv[id] \in TpmEntry
  BY <1>1 DEF TpmInv, TpmTypeOK
<1> DEFINE e == [nv[id] EXCEPT !.status = "PendingDeletion"]
<1>3. e \in TpmEntry /\ e.id = nv[id].id /\ e.material = nv[id].material
  BY <1>2 DEF TpmEntry
<1>4. nv' = [nv EXCEPT ![id] = e]
  BY <1>1, <1>2 DEF delete_key, TpmEntry
<1> HIDE DEF e
<1> QED
  BY <1>1, <1>3, <1>4, UpdatePreserves DEF delete_key

\* What removing an entry leaves.
LEMMA RemovedEntries ==
    ASSUME TpmInv, NEW id, Known(id), nv' = Removed(id), handles' = handles
    PROVE  /\ id \in DOMAIN nv /\ DOMAIN nv' = DOMAIN nv \ {id}
           /\ DOMAIN nv' \subseteq 1 .. handles'
           /\ nv' \in [DOMAIN nv' -> TpmEntry]
           /\ EntriesGenuine'
<1>1. id \in DOMAIN nv /\ Handle(id) = id
  BY HandleIsId
<1>2. nv \in [DOMAIN nv -> TpmEntry] /\ DOMAIN nv \subseteq 1 .. handles
  BY DEF TpmInv, TpmTypeOK
<1>3. /\ DOMAIN nv' = DOMAIN nv \ {id}
      /\ \A h \in DOMAIN nv' : nv'[h] = nv[h]
      /\ nv' = [h \in DOMAIN nv' |-> nv'[h]]
  BY <1>1 DEF Removed
<1>4. EntriesGenuine'
  BY <1>3 DEF TpmInv, EntriesGenuine, Genuine
<1> QED
  BY <1>1, <1>2, <1>3, <1>4

\* A destruction without a proof.
LEMMA DestroyPreserves ==
    ASSUME TpmInv, NEW id, destroy_key(id) PROVE TpmInv'
<1>1. /\ id \in DOMAIN nv /\ DOMAIN nv' = DOMAIN nv \ {id}
      /\ DOMAIN nv' \subseteq 1 .. handles'
      /\ nv' \in [DOMAIN nv' -> TpmEntry]
      /\ EntriesGenuine'
  BY RemovedEntries DEF destroy_key
<1>2. ProofsGone'
  BY <1>1 DEF destroy_key, TpmInv, ProofsGone
<1> QED
  BY <1>1, <1>2 DEF destroy_key, TpmInv, TpmTypeOK, CopiesGenuine, CiphertextsGenuine,
                    ProofsApart, SealHolds

\* A call begins with a copy of an entry that is there.
LEMMA BeginPreserves ==
    ASSUME TpmInv, NEW c \in TpmClients, NEW op \in {"encrypt", "decrypt", "sign", "destroy"},
           NEW id, NEW x \in {<<>>} \cup {<<y>> : y \in TpmCiphertext}, Begin(c, op, id, x)
    PROVE  TpmInv'
<1>1. id \in DOMAIN nv /\ Handle(id) = id
  BY HandleIsId DEF Begin
<1>2. PICK e \in TpmEntry : e = nv[id] /\ Genuine(e)
  BY <1>1 DEF TpmInv, TpmTypeOK, EntriesGenuine
<1> DEFINE q == [op |-> op, entry |-> <<e>>, ciphertext |-> x]
<1>3. q \in TpmCall
  BY DEF TpmCall
<1>4. Genuine(q.entry[1])
  BY <1>2
<1>5. pending' = [pending EXCEPT ![c] = q]
  BY <1>1, <1>2 DEF Begin
<1>6. pending' \in [TpmClients -> {NoTpmCall} \cup TpmCall]
  <2> HIDE DEF q
  <2> QED
    BY <1>3, <1>5 DEF TpmInv, TpmTypeOK
<1>7. CopiesGenuine'
  <2> HIDE DEF q
  <2> QED
    BY <1>4, <1>5 DEF TpmInv, TpmTypeOK, CopiesGenuine
<1> QED
  BY <1>6, <1>7 DEF Begin, TpmInv, TpmTypeOK, EntriesGenuine, CiphertextsGenuine, ProofsGone,
                    ProofsApart, SealHolds

\* What a call that returns worked on, and what its return leaves.
LEMMA ReturnedCall ==
    ASSUME TpmInv, NEW c \in TpmClients, NEW op \in {"encrypt", "decrypt", "sign", "destroy"},
           Return(c, op)
    PROVE  /\ \E e \in TpmEntry : e = pending[c].entry[1] /\ Genuine(e)
           /\ pending' \in [TpmClients -> {NoTpmCall} \cup TpmCall]
           /\ \A d \in TpmClients : pending'[d] \in {NoTpmCall, pending[d]}
<1>1. pending \in [TpmClients -> {NoTpmCall} \cup TpmCall]
  BY DEF TpmInv, TpmTypeOK
<1>2. pending[c] # NoTpmCall
  BY DEF Return, NoTpmCall
<1>3. pending[c] \in TpmCall
  BY <1>1, <1>2
<1>4. PICK e \in TpmEntry : pending[c].entry = <<e>>
  BY <1>3 DEF TpmCall
<1>5. pending[c].entry[1] = e /\ Genuine(e)
  BY <1>2, <1>4 DEF TpmInv, CopiesGenuine
<1>6. pending' = [pending EXCEPT ![c] = NoTpmCall]
  BY DEF Return
<1> QED
  BY <1>1, <1>5, <1>6

\* A copy that passes the comparison shows registers that have their values.
LEMMA OpeningSealed ==
    ASSUME NEW e \in TpmEntry, CanUse(e)
    PROVE  \A o \in Opening(e) : o.seen = o.binding
<1> DEFINE b == e.binding
<1>1. b \in Seals
  BY DEF TpmEntry
<1>2. CASE b = <<>>
  BY <1>2 DEF Opening
<1>3. CASE b # <<>>
  <2>1. b[1] = [i \in DOMAIN b[1] |-> b[1][i]]
    BY <1>1, <1>3, SealIsFunction
  <2>2. \A i \in DOMAIN b[1] : pcrs[i] = b[1][i]
    BY <1>3 DEF CanUse, check_pcr_binding
  <2>3. [i \in DOMAIN b[1] |-> pcrs[i]] = b[1]
    BY <2>1, <2>2
  <2>4. Opening(e) = {[binding |-> b[1], seen |-> [i \in DOMAIN b[1] |-> pcrs[i]]]}
    BY <1>3 DEF Opening
  <2> QED
    BY <2>3, <2>4
<1> QED
  BY <1>2, <1>3

\* An encryption with a copy.
LEMMA ProtectPreserves ==
    ASSUME TpmInv, NEW c \in TpmClients, tpm_protect(c) PROVE TpmInv'
<1>1. /\ pending' \in [TpmClients -> {NoTpmCall} \cup TpmCall]
      /\ \A d \in TpmClients : pending'[d] \in {NoTpmCall, pending[d]}
  BY ReturnedCall DEF tpm_protect
<1>2. PICK e \in TpmEntry : e = pending[c].entry[1] /\ Genuine(e)
  BY ReturnedCall DEF tpm_protect
<1> DEFINE x == [id |-> e.id, version |-> e.version, material |-> e.material]
<1>3. x \in TpmCiphertext /\ Genuine(x)
  BY <1>2 DEF TpmEntry, TpmCiphertext, Genuine
<1>4. \/ CanUse(e) /\ ciphertexts' = ciphertexts \cup {x} /\ opened' = opened \cup Opening(e)
      \/ UNCHANGED <<ciphertexts, opened>>
  BY <1>2 DEF tpm_protect
<1>5. ciphertexts' \subseteq TpmCiphertext /\ CiphertextsGenuine'
  BY <1>3, <1>4 DEF TpmInv, TpmTypeOK, CiphertextsGenuine, Genuine
<1>6. SealHolds'
  BY <1>4, OpeningSealed DEF TpmInv, SealHolds
<1>7. CopiesGenuine'
  BY <1>1 DEF TpmInv, CopiesGenuine, Genuine
<1> QED
  BY <1>1, <1>5, <1>6, <1>7 DEF tpm_protect, TpmInv, TpmTypeOK, EntriesGenuine, ProofsGone,
                                ProofsApart

\* A decryption with a copy.
LEMMA UnprotectPreserves ==
    ASSUME TpmInv, NEW c \in TpmClients, tpm_unprotect(c) PROVE TpmInv'
<1>1. /\ pending' \in [TpmClients -> {NoTpmCall} \cup TpmCall]
      /\ \A d \in TpmClients : pending'[d] \in {NoTpmCall, pending[d]}
  BY ReturnedCall DEF tpm_unprotect
<1>2. PICK e \in TpmEntry : e = pending[c].entry[1] /\ Genuine(e)
  BY ReturnedCall DEF tpm_unprotect
<1>3. \/ CanUse(e) /\ opened' = opened \cup Opening(e)
      \/ opened' = opened
  BY <1>2 DEF tpm_unprotect
<1>4. SealHolds'
  BY <1>3, OpeningSealed DEF TpmInv, SealHolds
<1>5. CopiesGenuine'
  BY <1>1 DEF TpmInv, CopiesGenuine, Genuine
<1> QED
  BY <1>1, <1>4, <1>5 DEF tpm_unprotect, TpmInv, TpmTypeOK, EntriesGenuine, ProofsGone,
                          ProofsApart, CiphertextsGenuine

\* A signature changes nothing.
LEMMA SignPreserves ==
    ASSUME TpmInv, NEW c \in TpmClients, tpm_sign(c) PROVE TpmInv'
<1>1. /\ pending' \in [TpmClients -> {NoTpmCall} \cup TpmCall]
      /\ \A d \in TpmClients : pending'[d] \in {NoTpmCall, pending[d]}
  BY ReturnedCall DEF tpm_sign
<1>2. CopiesGenuine'
  BY <1>1 DEF TpmInv, CopiesGenuine, Genuine
<1> QED
  BY <1>1, <1>2 DEF tpm_sign, TpmInv, TpmTypeOK, EntriesGenuine, ProofsGone, ProofsApart,
                    CiphertextsGenuine, SealHolds

\* A destruction with a proof: if the key is still there it goes with the proof,
\* and no earlier proof was about it.
LEMMA DestroyWithProofPreserves ==
    ASSUME TpmInv, NEW c \in TpmClients, destroy_key_with_proof(c) PROVE TpmInv'
<1>1. /\ pending' \in [TpmClients -> {NoTpmCall} \cup TpmCall]
      /\ \A d \in TpmClients : pending'[d] \in {NoTpmCall, pending[d]}
  BY ReturnedCall DEF destroy_key_with_proof
<1>2. PICK e \in TpmEntry : e = pending[c].entry[1] /\ Genuine(e)
  BY ReturnedCall DEF destroy_key_with_proof
<1>3. CopiesGenuine'
  BY <1>1 DEF TpmInv, CopiesGenuine, Genuine
<1>4. CASE ~Known(e.id)
  <2>1. UNCHANGED <<nv, proofs>>
    BY <1>2, <1>4 DEF destroy_key_with_proof
  <2> QED
    BY <1>1, <1>3, <2>1 DEF destroy_key_with_proof, TpmInv, TpmTypeOK, EntriesGenuine,
                            ProofsGone, ProofsApart, CiphertextsGenuine, SealHolds
<1>5. CASE Known(e.id)
  <2>1. PICK k \in Nat : k = e.id
    BY DEF TpmEntry
  <2>2. PICK p \in [id : Nat, material : Nat] : p = [id |-> e.id, material |-> e.material]
    BY DEF TpmEntry
  <2>3. nv' = Removed(k) /\ proofs' = Append(proofs, p) /\ handles' = handles
    BY <1>2, <1>5, <2>1, <2>2 DEF destroy_key_with_proof
  <2>4. /\ k \in DOMAIN nv /\ DOMAIN nv' = DOMAIN nv \ {k}
        /\ DOMAIN nv' \subseteq 1 .. handles'
        /\ nv' \in [DOMAIN nv' -> TpmEntry]
        /\ EntriesGenuine'
    BY <1>5, <2>1, <2>3, RemovedEntries
  <2>5. proofs \in Seq([id : Nat, material : Nat])
    BY DEF TpmInv, TpmTypeOK
  <2>6. /\ proofs' \in Seq([id : Nat, material : Nat])
        /\ Len(proofs') = Len(proofs) + 1
        /\ \A i \in 1 .. Len(proofs) : proofs'[i] = proofs[i]
        /\ proofs'[Len(proofs) + 1] = p
    BY <2>3, <2>5
  <2>7. p.id = k /\ k \in 1 .. handles
    BY <2>1, <2>2, <2>4 DEF TpmInv, TpmTypeOK
  <2>8. \A i \in 1 .. Len(proofs) : proofs[i].id \in (1 .. handles) \ DOMAIN nv
    BY DEF TpmInv, ProofsGone
  <2>9. ProofsGone'
    BY <2>3, <2>4, <2>5, <2>6, <2>7, <2>8 DEF ProofsGone
  <2>10. ProofsApart'
    <3>1. ProofsApart
      BY DEF TpmInv
    <3>2. PICK n \in Nat : n = Len(proofs)
      BY <2>5
    <3>3. \A i \in 1 .. n : proofs'[i].id # k
      BY <3>2, <2>4, <2>6, <2>8
    <3>4. \A i \in 1 .. n + 1 : i \in 1 .. n \/ i = n + 1
      BY <3>2
    <3>5. proofs'[n + 1].id = k
      BY <3>2, <2>6, <2>7
    <3>6. \A i, j \in 1 .. n : proofs'[i].id = proofs'[j].id => i = j
      BY <3>1, <3>2, <2>6 DEF ProofsApart
    <3>7. \A i, j \in 1 .. n + 1 : proofs'[i].id = proofs'[j].id => i = j
      BY <3>3, <3>4, <3>5, <3>6
    <3> QED
      BY <3>2, <3>7, <2>6 DEF ProofsApart
  <2> QED
    BY <1>1, <1>3, <2>3, <2>4, <2>6, <2>9, <2>10
       DEF destroy_key_with_proof, TpmInv, TpmTypeOK, CiphertextsGenuine, SealHolds
<1> QED
  BY <1>4, <1>5

\* Every call and every measurement preserves the invariant.
LEMMA TpmStepPreserves == TpmInv /\ [TpmNext]_tpmVars => TpmInv'
<1> SUFFICES ASSUME TpmInv, [TpmNext]_tpmVars PROVE TpmInv'
  OBVIOUS
<1>1. CASE \E i \in 0 .. NumPcrs : extend_pcr(i)
  BY <1>1, ExtendPreserves
<1>2. ASSUME NEW spec \in TpmSpecs, generate_key(spec) PROVE TpmInv'
  <2>1. <<>> \in Seals
    BY DEF Seals
  <2> QED
    BY <1>2, <2>1, InsertPreserves DEF generate_key
<1>3. ASSUME NEW spec \in TpmSpecs, NEW indices \in SUBSET (0 .. NumPcrs),
             generate_key_with_pcr_binding(spec, indices)
      PROVE  TpmInv'
  <2>1. PICK f : f = [i \in indices |-> pcrs[i]]
    OBVIOUS
  <2>2. indices \in SUBSET Registers /\ f \in [indices -> Seq(Registers)]
    BY <1>3, <2>1 DEF generate_key_with_pcr_binding, TpmInv, TpmTypeOK
  <2>3. f \in UNION {[S -> Seq(Registers)] : S \in SUBSET Registers}
    BY <2>2
  <2>4. <<f>> \in Seals
    BY <2>3 DEF Seals
  <2>5. Insert(spec, <<f>>)
    BY <1>3, <2>1 DEF generate_key_with_pcr_binding
  <2> QED
    BY <2>4, <2>5, InsertPreserves
<1>4. ASSUME NEW id \in 1 .. handles, rotate_key(id) \/ delete_key(id) \/ destroy_key(id)
      PROVE  TpmInv'
  BY <1>4, RotatePreserves, DeletePreserves, DestroyPreserves
<1>5. ASSUME NEW c \in TpmClients, NEW id \in 1 .. handles,
             NEW op \in {"encrypt", "sign", "destroy"}, Begin(c, op, id, <<>>)
      PROVE  TpmInv'
  BY <1>5, BeginPreserves
<1>6. ASSUME NEW c \in TpmClients, NEW x \in ciphertexts, Begin(c, "decrypt", x.id, <<x>>)
      PROVE  TpmInv'
  <2>1. x \in TpmCiphertext
    BY DEF TpmInv, TpmTypeOK
  <2>2. <<x>> \in {<<>>} \cup {<<y>> : y \in TpmCiphertext}
    BY <2>1
  <2> QED
    BY <1>6, <2>2, BeginPreserves
<1>7. ASSUME NEW c \in TpmClients,
             tpm_protect(c) \/ tpm_unprotect(c) \/ tpm_sign(c) \/ destroy_key_with_proof(c)
      PROVE  TpmInv'
  BY <1>7, ProtectPreserves, UnprotectPreserves, SignPreserves, DestroyWithProofPreserves
<1>8. CASE UNCHANGED tpmVars
  BY <1>8 DEF tpmVars, TpmInv, TpmTypeOK, EntriesGenuine, CopiesGenuine, CiphertextsGenuine,
              ProofsGone, ProofsApart, SealHolds, Genuine
<1> QED
  BY <1>1, <1>2, <1>3, <1>4, <1>5, <1>6, <1>7, <1>8 DEF TpmNext

\* The invariant says what callers rely on.
LEMMA TpmInvSound == TpmInv => TpmSound
<1> SUFFICES ASSUME TpmInv PROVE TpmSound
  OBVIOUS
<1>1. StillOpens
  <2> SUFFICES ASSUME NEW x \in ciphertexts, Known(x.id) PROVE Opens(nv[Handle(x.id)], x)
    BY DEF StillOpens
  <2>1. x.id \in DOMAIN nv /\ Handle(x.id) = x.id
    BY HandleIsId
  <2> QED
    BY <2>1 DEF TpmInv, EntriesGenuine, CiphertextsGenuine, Genuine, Opens
<1>2. ProofsTrue
  BY HandleIsId DEF TpmInv, ProofsGone, ProofsApart, ProofsTrue
<1> QED
  BY <1>1, <1>2 DEF TpmInv, TpmSound

\* However calls on copies of entries interleave with rotations, destructions
\* and measurements, a sealed key is used only while its registers have the
\* values it was sealed to, what a key encrypted opens while the key exists, and
\* a destruction proof is about a key that is gone, and is the only one.
THEOREM TpmStaysSound == TpmSpec => []TpmSound
<1>1. TpmSpec => []TpmInv
  BY TpmInitEstablishes, TpmStepPreserves, PTL DEF TpmSpec
<1> QED
  BY <1>1, TpmInvSound, PTL


(***************************************************************************)
(* The key exchange sessions of the software key store.  NoReplay needs    *)
(* that a history is the end of all that the session recorded: a session   *)
(* times out before its history grows old.  Agreement needs that the       *)
(* sender of a first message initiated and that of a second one did not,   *)
(* and ResponderConfirmed that a third message follows a recorded second.  *)
(***************************************************************************)

Sm2Message == [type : 1 .. 3, from : Nat, re : Nat, r : {"point", "zero"}, confirmation : BOOLEAN]
Sm2Entry == [at : Nat, message : Sm2Message]
Sm2Session == [initiator : BOOLEAN, peer : Nat, secret : {<<>>} \cup (Nat \X Nat), created_at : Nat,
               history : Seq(Sm2Entry)]

Sm2TypeOK ==
    /\ created \in Nat /\ created <= MaxSessions /\ second \in Nat
    /\ recorded \in [Ids -> Seq(Sm2Message)]
    /\ DOMAIN sessions \subseteq 1 .. created
    /\ sessions \in [DOMAIN sessions -> Sm2Session]

\* h holds the last of the messages t, as many as it may.
HoldsLast(h, t) ==
    \E p \in Nat :
        /\ Len(t) = p + Len(h)
        /\ \A j \in 1 .. Len(h) : h[j].message = t[p + j]
        /\ p = 0 \/ Len(h) = MaxHistory
        /\ Len(h) <= MaxHistory
ApartEnough(t) ==
    \A i, j \in 1 .. Len(t) : i < j /\ t[i] = t[j] => j - i > MaxHistory
RecordedApart ==
    \A i \in Ids : ApartEnough(recorded[i]) /\ (i > created => recorded[i] = <<>>)

HistoryTimes(e) ==
    /\ e.created_at <= second
    /\ \A n \in 1 .. Len(e.history) : e.created_at < e.history[n].at
HistoriesHold ==
    \A id \in DOMAIN sessions :
        HistoryTimes(sessions[id]) /\ HoldsLast(sessions[id].history, recorded[id])

\* A secret names the pair, and the message that led to it was sent.
InitiatorSound(id, e) ==
    e.secret # <<>> => e.secret = <<id, e.peer>> /\ Message(2, e.peer, id) \in net
ResponderSound(id, e) ==
    /\ \E m \in net : m.type = 1 /\ m.from = e.peer
    /\ e.secret # <<>> =>
          /\ e.secret = <<e.peer, id>>
          /\ Message(3, e.peer, id) \in net
          /\ Message(3, e.peer, id) \in ToSet(recorded[id])
SidesSound ==
    \A id \in DOMAIN sessions :
        /\ sessions[id].initiator = TRUE => InitiatorSound(id, sessions[id])
        /\ sessions[id].initiator = FALSE => ResponderSound(id, sessions[id])

\* A message names its sender, and its type the side that the sender is on.
SentBy(m) ==
    /\ m \in Sm2Message /\ m.from \in 1 .. created
    /\ m = Message(m.type, m.from, m.re)
    /\ m.from \in DOMAIN sessions =>
          /\ m.type = 1 => sessions[m.from].initiator = TRUE
          /\ m.type = 2 => sessions[m.from].initiator = FALSE
    /\ m.type = 3 => Message(2, m.re, m.from) \in ToSet(recorded[m.from])
NetSound == \A m \in net : SentBy(m)

KexInv == Sm2TypeOK /\ RecordedApart /\ HistoriesHold /\ SidesSound /\ NetSound

\* The limits of the sessions.
LEMMA Sm2Constants ==
    /\ MaxSessions \in Nat /\ SessionTimeout \in Nat /\ HistoryTtl \in Nat /\ MaxHistory \in Nat
    /\ HistoryTtl >= SessionTimeout
  BY KexAssumption

\* The fields of a message that is sent.
LEMMA MessageFields ==
    ASSUME NEW type \in 1 .. 3, NEW from \in Nat, NEW re \in Nat
    PROVE  /\ Message(type, from, re) \in Sm2Message
           /\ Message(type, from, re).type = type /\ Message(type, from, re).from = from
           /\ Message(type, from, re).re = re
<1>1. PICK b \in BOOLEAN : b = (type = 3)
  BY Zenon
<1>2. Message(type, from, re) =
        [type |-> type, from |-> from, re |-> re, r |-> "point", confirmation |-> b]
  BY <1>1, Zenon DEF Message
<1>3. /\ [type |-> type, from |-> from, re |-> re, r |-> "point", confirmation |-> b] \in Sm2Message
  BY DEF Sm2Message
<1> QED
  BY <1>2, <1>3

\* What arrives is a message: of the first two types one that was sent, and of
\* the third one that was sent or one without its confirmation.
LEMMA Arriving ==
    ASSUME KexInv, NEW m \in Arrivals
    PROVE  /\ m \in Sm2Message
           /\ m # Junk /\ m.type # 3 => m \in net
           /\ m.type = 3 /\ m.confirmation = TRUE => m \in net
<1>1. \A x \in net : x \in Sm2Message
  BY DEF KexInv, NetSound, SentBy
<1>2. CASE m \in net
  BY <1>1, <1>2
<1>3. CASE m = Junk
  BY <1>3 DEF Junk, Sm2Message
<1>4. CASE m \in {deserialize_sm2_kex_message(serialize_sm2_kex_message(x)) : x \in net}
  <2>1. PICK x \in net : m = deserialize_sm2_kex_message(x)
    BY <1>4, Zenon DEF serialize_sm2_kex_message
  <2>2. x \in Sm2Message
    BY <1>1
  <2>3. CASE x.type = 3
    <3>1. m = [x EXCEPT !.confirmation = FALSE]
      BY <2>1, <2>3 DEF deserialize_sm2_kex_message
    <3>2. m \in Sm2Message /\ m.type = 3 /\ m.confirmation = FALSE
      BY <2>2, <2>3, <3>1 DEF Sm2Message
    <3> QED
      BY <3>2
  <2>4. CASE x.type # 3
    <3>1. m = x
      BY <2>1, <2>4 DEF deserialize_sm2_kex_message
    <3> QED
      BY <2>2, <3>1
  <2> QED
    BY <2>3, <2>4
<1> QED
  BY <1>2, <1>3, <1>4 DEF Arrivals

\* Keeping every entry changes nothing.
LEMMA RetainedAll ==
    ASSUME NEW S, NEW h \in Seq(S)
    PROVE  Retained(h, DOMAIN h) = h
<1>1. PICK n \in Nat : n = Len(h) /\ DOMAIN h = 1 .. n
  OBVIOUS
<1>2. 0 \in 0 .. Len(h) /\ 0 + 1 = 1
  BY <1>1
<1>3. /\ Retained(h, (0 + 1) .. Len(h)) \in Seq(S)
      /\ Len(Retained(h, (0 + 1) .. Len(h))) = Len(h) - 0
      /\ \A j \in 1 .. Len(h) - 0 : Retained(h, (0 + 1) .. Len(h))[j] = h[0 + j]
  BY <1>2, RetainedSuffix, Zenon
<1>4. PICK r \in Seq(S) : r = Retained(h, DOMAIN h) /\ Len(r) = n /\ \A j \in 1 .. n : r[j] = h[j]
  <2>1. (0 + 1) .. Len(h) = DOMAIN h /\ Len(h) - 0 = n /\ \A j \in 1 .. n : 0 + j = j
    BY <1>1
  <2>2. PICK r : r = Retained(h, (0 + 1) .. Len(h))
    OBVIOUS
  <2>3. r \in Seq(S) /\ Len(r) = Len(h) - 0 /\ \A j \in 1 .. Len(h) - 0 : r[j] = h[0 + j]
    BY <1>3, <2>2
  <2>4. r = Retained(h, DOMAIN h)
    BY <2>1, <2>2
  <2> QED
    BY <2>1, <2>3, <2>4
<1> QED
  BY <1>1, <1>4

\* The history of a session that has not timed out is fresh.
LEMMA HistoryFresh ==
    ASSUME NEW e \in Sm2Session, second \in Nat, HistoryTimes(e), ~Expired(e)
    PROVE  Fresh(e.history) = e.history
<1>1. PICK h \in Seq(Sm2Entry), c \in Nat : h = e.history /\ c = e.created_at
  BY DEF Sm2Session
<1>2. PICK n \in Nat : n = Len(h) /\ DOMAIN h = 1 .. n /\ \A i \in 1 .. n : h[i] \in Sm2Entry
  OBVIOUS
<1>3. \A i \in 1 .. n : h[i].at \in Nat /\ c < h[i].at
  BY <1>1, <1>2 DEF HistoryTimes, Sm2Entry
<1>4. second - c <= SessionTimeout
  BY <1>1, Sm2Constants DEF Expired
<1>5. \A i \in 1 .. n : second - h[i].at < HistoryTtl
  BY <1>3, <1>4, Sm2Constants
<1>6. {i \in DOMAIN h : second - h[i].at < HistoryTtl} = DOMAIN h
  BY <1>2, <1>5
<1>7. Retained(h, DOMAIN h) = h
  BY RetainedAll
<1> QED
  BY <1>1, <1>6, <1>7 DEF Fresh

\* A new message keeps the history the end of what was recorded, and the same
\* messages apart.
LEMMA RecordedNext ==
    ASSUME NEW h \in Seq(Sm2Entry), NEW t \in Seq(Sm2Message), NEW m \in Sm2Message,
           second \in Nat, HoldsLast(h, t), ApartEnough(t), ~Seen(h, m)
    PROVE  \E g \in Seq(Sm2Entry), u \in Seq(Sm2Message) :
             /\ g = Remember(h, m) /\ u = Append(t, m)
             /\ HoldsLast(g, u) /\ ApartEnough(u)
             /\ \A j \in 1 .. Len(g) : g[j].at = second \/ \E i \in 1 .. Len(h) : g[j] = h[i]
<1>1. PICK p \in Nat :
        /\ Len(t) = p + Len(h)
        /\ \A j \in 1 .. Len(h) : h[j].message = t[p + j]
        /\ p = 0 \/ Len(h) = MaxHistory
        /\ Len(h) <= MaxHistory
  BY DEF HoldsLast
<1>2. PICK l \in Nat, n \in Nat : l = Len(h) /\ n = Len(t) /\ n = p + l /\ l <= MaxHistory
  BY <1>1
<1>3. /\ \A j \in 1 .. l : h[j].message = t[p + j]
      /\ p = 0 \/ l = MaxHistory
  BY <1>1, <1>2
<1>4. PICK e \in Sm2Entry : e = [at |-> second, message |-> m] /\ e.at = second /\ e.message = m
  <2>1. [at |-> second, message |-> m] \in Sm2Entry
    BY DEF Sm2Entry
  <2> QED
    BY <2>1
<1>5. PICK w \in Seq(Sm2Entry) :
        w = Append(h, e) /\ Len(w) = l + 1 /\ (\A i \in 1 .. l : w[i] = h[i]) /\ w[l + 1] = e
  <2>1. PICK w \in Seq(Sm2Entry) :
          /\ w = Append(h, e) /\ Len(w) = Len(h) + 1
          /\ \A i \in 1 .. Len(h) : w[i] = h[i]
          /\ w[Len(h) + 1] = e
    <3>1. /\ Append(h, e) \in Seq(Sm2Entry) /\ Len(Append(h, e)) = Len(h) + 1
          /\ \A i \in 1 .. Len(h) : Append(h, e)[i] = h[i]
          /\ Append(h, e)[Len(h) + 1] = e
      BY EntryAppended
    <3> QED
      BY <3>1
  <2> QED
    BY <1>2, <2>1
<1>6. PICK u \in Seq(Sm2Message) :
        u = Append(t, m) /\ Len(u) = n + 1 /\ (\A i \in 1 .. n : u[i] = t[i]) /\ u[n + 1] = m
  <2>1. PICK u \in Seq(Sm2Message) :
          /\ u = Append(t, m) /\ Len(u) = Len(t) + 1
          /\ \A i \in 1 .. Len(t) : u[i] = t[i]
          /\ u[Len(t) + 1] = m
    <3>1. /\ Append(t, m) \in Seq(Sm2Message) /\ Len(Append(t, m)) = Len(t) + 1
          /\ \A i \in 1 .. Len(t) : Append(t, m)[i] = t[i]
          /\ Append(t, m)[Len(t) + 1] = m
      BY EntryAppended
    <3> QED
      BY <3>1
  <2> QED
    BY <1>2, <2>1
<1>7. MaxHistory \in Nat
  BY Sm2Constants
<1>8. \A j \in 1 .. l + 1 : w[j].message = u[p + j]
  <2> SUFFICES ASSUME NEW j \in 1 .. l + 1 PROVE w[j].message = u[p + j]
    OBVIOUS
  <2>1. CASE j \in 1 .. l
    <3>1. p + j \in 1 .. n
      BY <1>2, <2>1
    <3> QED
      BY <1>3, <1>5, <1>6, <2>1, <3>1
  <2>2. CASE j = l + 1
    <3>1. p + j = n + 1
      BY <1>2, <2>2
    <3> QED
      BY <1>4, <1>5, <1>6, <2>2, <3>1
  <2> QED
    BY <1>2, <2>1, <2>2
<1>9. \A j \in 1 .. l + 1 : w[j].at = second \/ \E i \in 1 .. l : w[j] = h[i]
  BY <1>2, <1>4, <1>5
<1>10. ApartEnough(u)
  <2> SUFFICES ASSUME NEW i \in 1 .. n + 1, NEW j \in 1 .. n + 1, i < j, u[i] = u[j]
               PROVE  j - i > MaxHistory
    BY <1>6 DEF ApartEnough
  <2>1. i \in 1 .. n
    BY <1>2
  <2>2. CASE j \in 1 .. n
    BY <1>2, <1>6, <2>1, <2>2 DEF ApartEnough
  <2>3. CASE j = n + 1
    <3>1. t[i] = m
      BY <1>6, <2>1, <2>3
    <3>2. i <= p
      <4> SUFFICES ASSUME ~(i <= p) PROVE FALSE
        OBVIOUS
      <4>1. i - p \in 1 .. l /\ p + (i - p) = i
        BY <1>2, <2>1
      <4>2. h[i - p].message = m
        BY <1>3, <3>1, <4>1
      <4> QED
        BY <1>2, <4>1, <4>2 DEF Seen
    <3>3. l = MaxHistory
      BY <1>3, <2>1, <3>2
    <3> QED
      BY <1>2, <1>7, <2>1, <2>3, <3>2, <3>3
  <2> QED
    BY <1>2, <2>2, <2>3
<1>11. CASE ~(l + 1 > MaxHistory)
  <2>1. Remember(h, m) = w
    BY <1>4, <1>5, <1>11 DEF Remember
  <2>2. p = 0 /\ l + 1 <= MaxHistory /\ n + 1 = p + (l + 1)
    BY <1>2, <1>3, <1>7, <1>11
  <2>3. HoldsLast(w, u)
    <3>1. Len(u) = p + Len(w) /\ Len(w) <= MaxHistory
      BY <1>5, <1>6, <2>2
    <3>2. \A j \in 1 .. Len(w) : w[j].message = u[p + j]
      BY <1>5, <1>8
    <3> QED
      BY <2>2, <3>1, <3>2, Zenon DEF HoldsLast
  <2> QED
    <3>1. \A j \in 1 .. Len(w) : w[j].at = second \/ \E i \in 1 .. Len(h) : w[j] = h[i]
      BY <1>2, <1>5, <1>9, Zenon
    <3> QED
      BY <1>6, <1>10, <2>1, <2>3, <3>1, Zenon
<1>12. CASE l + 1 > MaxHistory
  <2>0. Len(w) > 0
    BY <1>5
  <2>1. PICK x \in Seq(Sm2Entry) :
          x = Tail(w) /\ Len(x) = l /\ \A j \in 1 .. l : x[j] = w[j + 1]
    <3>1. PICK x \in Seq(Sm2Entry) :
            x = Tail(w) /\ Len(x) = Len(w) - 1 /\ \A j \in 1 .. Len(w) - 1 : x[j] = w[j + 1]
      BY <2>0, OldestDropped, Zenon
    <3>2. Len(w) - 1 = l
      BY <1>5
    <3> QED
      BY <3>1, <3>2
  <2>2. Remember(h, m) = x
    BY <1>4, <1>5, <1>12, <2>1 DEF Remember
  <2>3. l = MaxHistory /\ p + 1 \in Nat /\ n + 1 = (p + 1) + l
    BY <1>2, <1>7, <1>12
  <2>4. \A j \in 1 .. l : x[j].message = u[p + 1 + j]
    <3> SUFFICES ASSUME NEW j \in 1 .. l PROVE x[j].message = u[p + 1 + j]
      OBVIOUS
    <3>1. j + 1 \in 1 .. l + 1 /\ p + (j + 1) = p + 1 + j
      BY <1>2
    <3> QED
      BY <1>8, <2>1, <3>1
  <2>5. HoldsLast(x, u)
    <3>1. Len(u) = (p + 1) + Len(x) /\ Len(x) = MaxHistory /\ Len(x) <= MaxHistory
      BY <1>6, <1>7, <2>1, <2>3
    <3>2. \A j \in 1 .. Len(x) : x[j].message = u[p + 1 + j]
      BY <2>1, <2>4
    <3> QED
      BY <2>3, <3>1, <3>2, Zenon DEF HoldsLast
  <2>6. \A j \in 1 .. l : x[j].at = second \/ \E i \in 1 .. l : x[j] = h[i]
    <3> SUFFICES ASSUME NEW j \in 1 .. l
                 PROVE  x[j].at = second \/ \E i \in 1 .. l : x[j] = h[i]
      OBVIOUS
    <3>1. j + 1 \in 1 .. l + 1
      BY <1>2
    <3> QED
      BY <1>9, <2>1, <3>1
  <2> QED
    <3>1. \A j \in 1 .. Len(x) : x[j].at = second \/ \E i \in 1 .. Len(h) : x[j] = h[i]
      BY <1>2, <2>1, <2>6, Zenon
    <3> QED
      BY <1>6, <1>10, <2>2, <2>5, <3>1, Zenon
<1> QED
  BY <1>11, <1>12

\* What was recorded stays so, with one message more.
LEMMA ToSetAppend ==
    ASSUME NEW S, NEW t \in Seq(S), NEW m \in S
    PROVE  ToSet(t) \subseteq ToSet(Append(t, m)) /\ m \in ToSet(Append(t, m))
<1>1. PICK w \in Seq(S) :
        /\ w = Append(t, m) /\ Len(w) = Len(t) + 1
        /\ \A i \in 1 .. Len(t) : w[i] = t[i]
        /\ w[Len(t) + 1] = m
  <2>1. /\ Append(t, m) \in Seq(S) /\ Len(Append(t, m)) = Len(t) + 1
        /\ \A i \in 1 .. Len(t) : Append(t, m)[i] = t[i]
        /\ Append(t, m)[Len(t) + 1] = m
    BY EntryAppended
  <2> QED
    BY <2>1
<1>2. PICK n \in Nat : n = Len(t) /\ DOMAIN t = 1 .. n /\ DOMAIN w = 1 .. n + 1
  BY <1>1
<1>3. \A i \in DOMAIN t : i \in DOMAIN w /\ w[i] = t[i]
  BY <1>1, <1>2
<1>4. n + 1 \in DOMAIN w /\ w[n + 1] = m
  BY <1>1, <1>2
<1>5. ToSet(t) \subseteq ToSet(w)
  BY <1>3 DEF ToSet
<1>6. m \in ToSet(w)
  BY <1>4 DEF ToSet
<1> QED
  BY <1>1, <1>5, <1>6

\* At first nothing is there.
LEMMA KexInitEstablishes == KexInit => KexInv
<1> SUFFICES ASSUME KexInit PROVE KexInv
  OBVIOUS
<1>1. DOMAIN sessions = {} /\ created = 0 /\ net = {} /\ second = 0
  BY DEF KexInit
<1>2. \A i \in Ids : recorded[i] = <<>>
  BY DEF KexInit
<1>3. Sm2TypeOK
  <2>1. <<>> \in Seq(Sm2Message)
    OBVIOUS
  <2>2. recorded \in [Ids -> Seq(Sm2Message)]
    BY <2>1 DEF KexInit
  <2>3. sessions \in [DOMAIN sessions -> Sm2Session]
    BY DEF KexInit
  <2> QED
    BY <1>1, <2>2, <2>3, Sm2Constants DEF Sm2TypeOK
<1>4. ApartEnough(<<>>)
  BY DEF ApartEnough
<1> QED
  BY <1>1, <1>2, <1>3, <1>4 DEF KexInv, RecordedApart, HistoriesHold, SidesSound, NetSound

\* A removal, or a time-out, leaves the other sessions as they are.
LEMMA WithoutPreserves ==
    ASSUME KexInv, NEW id, sessions' = Without(id), UNCHANGED <<created, net, second, recorded>>
    PROVE  KexInv'
<1>1. /\ DOMAIN sessions' \subseteq DOMAIN sessions
      /\ \A x \in DOMAIN sessions' : sessions'[x] = sessions[x]
      /\ sessions' \in [DOMAIN sessions' -> Sm2Session]
  BY DEF Without, KexInv, Sm2TypeOK
<1>2. Sm2TypeOK' /\ RecordedApart'
  BY <1>1 DEF KexInv, Sm2TypeOK, RecordedApart
<1>3. HistoriesHold'
  <2> SUFFICES ASSUME NEW x \in DOMAIN sessions'
               PROVE  HistoryTimes(sessions[x])' /\ HoldsLast(sessions'[x].history, recorded'[x])
    BY DEF HistoriesHold
  <2> QED
    BY <1>1 DEF KexInv, HistoriesHold, HistoryTimes
<1>4. SidesSound'
  <2> SUFFICES ASSUME NEW x \in DOMAIN sessions'
               PROVE  /\ sessions'[x].initiator = TRUE => InitiatorSound(x, sessions[x])'
                      /\ sessions'[x].initiator = FALSE => ResponderSound(x, sessions[x])'
    BY DEF SidesSound
  <2> QED
    BY <1>1 DEF KexInv, SidesSound, InitiatorSound, ResponderSound
<1>5. NetSound'
  <2> SUFFICES ASSUME NEW m \in net PROVE SentBy(m)'
    BY DEF NetSound
  <2>1. SentBy(m)
    BY DEF KexInv, NetSound
  <2> QED
    BY <1>1, <2>1 DEF SentBy
<1> QED
  BY <1>2, <1>3, <1>4, <1>5 DEF KexInv

\* A session begins with an empty history, and with a message that names it.
LEMMA EnteredPreserves ==
    ASSUME KexInv, NEW b \in BOOLEAN, NEW id, id = created + 1, created < MaxSessions,
           NEW e \in Sm2Session, e.initiator = b, e.secret = <<>>, e.history = <<>>,
           e.created_at = second,
           b = FALSE => \E x \in net : x.type = 1 /\ x.from = e.peer,
           NEW re \in Nat, NEW type, type = IF b THEN 1 ELSE 2,
           sessions' = Entered(id, e), net' = net \cup {Message(type, id, re)},
           created' = id, UNCHANGED <<second, recorded>>
    PROVE  KexInv'
<1>1. /\ created \in Nat /\ id \in Nat /\ id \in Ids /\ id \notin 1 .. created
      /\ second \in Nat /\ type \in 1 .. 3
  BY Sm2Constants DEF KexInv, Sm2TypeOK, Ids
<1>2. /\ DOMAIN sessions' = DOMAIN sessions \cup {id} /\ sessions'[id] = e
      /\ id \notin DOMAIN sessions
      /\ \A x \in DOMAIN sessions : x # id /\ sessions'[x] = sessions[x]
      /\ sessions' \in [DOMAIN sessions' -> Sm2Session]
  BY <1>1 DEF Entered, KexInv, Sm2TypeOK
<1>3. recorded[id] = <<>>
  BY <1>1 DEF KexInv, RecordedApart
<1>4. Sm2TypeOK'
  <2>1. DOMAIN sessions' \subseteq 1 .. id /\ id <= MaxSessions
    BY <1>1, <1>2, Sm2Constants DEF KexInv, Sm2TypeOK
  <2> QED
    BY <1>1, <1>2, <2>1 DEF KexInv, Sm2TypeOK
<1>5. RecordedApart'
  <2>1. \A i \in Ids : i > id => i > created
    BY <1>1 DEF Ids
  <2> QED
    BY <2>1 DEF KexInv, RecordedApart
<1>6. HistoriesHold'
  <2>1. HistoryTimes(e)'
    BY <1>1 DEF HistoryTimes
  <2>2. HoldsLast(e.history, recorded[id])
    <3>1. Len(<<>>) = 0 /\ 0 \in Nat /\ 0 <= MaxHistory
      BY Sm2Constants
    <3>2. HoldsLast(<<>>, <<>>)
      BY <3>1 DEF HoldsLast
    <3> QED
      BY <1>1, <1>3, <3>2
  <2>3. \A x \in DOMAIN sessions :
          HistoryTimes(sessions[x])' /\ HoldsLast(sessions'[x].history, recorded[x])
    BY <1>2 DEF KexInv, HistoriesHold, HistoryTimes
  <2> QED
    BY <1>2, <2>1, <2>2, <2>3 DEF HistoriesHold, HistoryTimes
<1>7. SidesSound'
  <2>1. b = TRUE => InitiatorSound(id, sessions[id])'
    BY <1>2 DEF InitiatorSound
  <2>2. b = FALSE => ResponderSound(id, sessions[id])'
    BY <1>2 DEF ResponderSound
  <2>3. ASSUME NEW x \in DOMAIN sessions
        PROVE  /\ sessions'[x].initiator = TRUE => InitiatorSound(x, sessions[x])'
               /\ sessions'[x].initiator = FALSE => ResponderSound(x, sessions[x])'
    <3>1. sessions'[x] = sessions[x] /\ net \subseteq net'
      BY <1>2
    <3>2. sessions[x].initiator = TRUE => InitiatorSound(x, sessions[x])
      BY DEF KexInv, SidesSound
    <3>3. sessions[x].initiator = FALSE => ResponderSound(x, sessions[x])
      BY DEF KexInv, SidesSound
    <3> QED
      BY <3>1, <3>2, <3>3 DEF InitiatorSound, ResponderSound
  <2>4. \A x \in DOMAIN sessions' : x = id \/ x \in DOMAIN sessions
    BY <1>2
  <2>5. sessions'[id].initiator = b
    BY <1>2
  <2> QED
    BY <2>1, <2>2, <2>3, <2>4, <2>5 DEF SidesSound
<1>8. NetSound'
  <2>1. PICK n \in Sm2Message : /\ n = Message(type, id, re)
                                /\ n.type = type /\ n.from = id /\ n.re = re
    BY <1>1, MessageFields
  <2>2. SentBy(n)'
    <3>1. n = Message(n.type, n.from, n.re)
      BY <2>1
    <3>2. n.type # 3 /\ (n.type = 1 => b = TRUE) /\ (n.type = 2 => b = FALSE)
      BY <2>1
    <3>3. n.from \in 1 .. id
      BY <1>1, <2>1
    <3> QED
      BY <1>2, <2>1, <3>1, <3>2, <3>3 DEF SentBy, Message
  <2>3. ASSUME NEW m \in net PROVE SentBy(m)'
    <3>1. SentBy(m)
      BY DEF KexInv, NetSound
    <3>2. m.from \in 1 .. created /\ m.from \in 1 .. id /\ m.from # id
      BY <1>1, <3>1 DEF SentBy
    <3>3. m.from \in DOMAIN sessions' =>
             m.from \in DOMAIN sessions /\ sessions'[m.from] = sessions[m.from]
      BY <1>2, <3>2
    <3> QED
      BY <3>1, <3>2, <3>3 DEF SentBy
  <2> QED
    BY <2>1, <2>2, <2>3 DEF NetSound
<1> QED
  BY <1>4, <1>5, <1>6, <1>7, <1>8 DEF KexInv

\* A session takes a message into its history, whatever else it does with it.
LEMMA RecordPreserves ==
    ASSUME KexInv, NEW id \in DOMAIN sessions, NEW m \in Sm2Message,
           NEW h, h = sessions[id].history, ~Seen(h, m),
           NEW f \in Sm2Session, f.history = Remember(h, m),
           f.created_at = sessions[id].created_at, f.initiator = sessions[id].initiator,
           sessions[id].created_at < second,
           sessions' = [sessions EXCEPT ![id] = f],
           recorded' = [recorded EXCEPT ![id] = Append(@, m)],
           net \subseteq net', UNCHANGED <<created, second>>,
           f.initiator = TRUE => InitiatorSound(id, f)',
           f.initiator = FALSE => ResponderSound(id, f)',
           \A n \in net' : n \notin net => SentBy(n)'
    PROVE  KexInv'
<1>1. /\ id \in Ids /\ created \in Nat /\ second \in Nat
      /\ sessions \in [DOMAIN sessions -> Sm2Session] /\ sessions[id] \in Sm2Session
      /\ recorded \in [Ids -> Seq(Sm2Message)] /\ recorded[id] \in Seq(Sm2Message)
  BY Sm2Constants DEF KexInv, Sm2TypeOK, Ids
<1>2. h \in Seq(Sm2Entry) /\ sessions[id].created_at \in Nat
  BY <1>1 DEF Sm2Session
<1>3. PICK t \in Seq(Sm2Message) : t = recorded[id]
  BY <1>1
<1>4. HoldsLast(h, t) /\ ApartEnough(t)
  BY <1>1, <1>3 DEF KexInv, HistoriesHold, RecordedApart
<1>5. PICK g \in Seq(Sm2Entry), u \in Seq(Sm2Message) :
         /\ g = Remember(h, m) /\ u = Append(t, m)
         /\ HoldsLast(g, u) /\ ApartEnough(u)
         /\ \A j \in 1 .. Len(g) : g[j].at = second \/ \E i \in 1 .. Len(h) : g[j] = h[i]
  BY <1>1, <1>2, <1>4, RecordedNext
<1>6. /\ DOMAIN sessions' = DOMAIN sessions /\ sessions'[id] = f
      /\ \A x \in DOMAIN sessions : x # id => sessions'[x] = sessions[x]
      /\ sessions' \in [DOMAIN sessions' -> Sm2Session]
      /\ \A x \in DOMAIN sessions : sessions'[x].initiator = sessions[x].initiator
  BY <1>1
<1>7. /\ recorded' \in [Ids -> Seq(Sm2Message)] /\ recorded'[id] = u
      /\ \A x \in Ids : x # id => recorded'[x] = recorded[x]
  BY <1>1, <1>3, <1>5
<1>8. \A x \in Ids : ToSet(recorded[x]) \subseteq ToSet(recorded'[x])
  <2>1. ToSet(t) \subseteq ToSet(u)
    BY <1>5, ToSetAppend, Zenon
  <2> QED
    BY <1>3, <1>7, <2>1
<1>9. Sm2TypeOK'
  BY <1>1, <1>6, <1>7 DEF KexInv, Sm2TypeOK
<1>10. RecordedApart'
  <2>1. ~(id > created)
    BY <1>1 DEF KexInv, Sm2TypeOK
  <2> QED
    BY <1>5, <1>7, <2>1 DEF KexInv, RecordedApart
<1>11. HistoriesHold'
  <2>1. HistoryTimes(f)'
    <3>1. PICK c \in Nat : c = f.created_at /\ c < second /\ c = sessions[id].created_at
      BY <1>2
    <3>2. \A i \in 1 .. Len(h) : c < h[i].at
      BY <3>1 DEF KexInv, HistoriesHold, HistoryTimes
    <3>3. \A j \in 1 .. Len(g) : c < g[j].at
      BY <1>5, <3>1, <3>2
    <3> QED
      BY <1>1, <1>5, <3>1, <3>3 DEF HistoryTimes
  <2>2. HoldsLast(f.history, recorded'[id])
    BY <1>5, <1>7
  <2>3. ASSUME NEW x \in DOMAIN sessions, x # id
        PROVE  HistoryTimes(sessions[x])' /\ HoldsLast(sessions'[x].history, recorded'[x])
    <3>1. x \in Ids
      BY Sm2Constants DEF KexInv, Sm2TypeOK, Ids
    <3>2. sessions'[x] = sessions[x] /\ recorded'[x] = recorded[x]
      BY <1>6, <1>7, <2>3, <3>1
    <3> QED
      BY <3>2 DEF KexInv, HistoriesHold, HistoryTimes
  <2> QED
    BY <1>6, <2>1, <2>2, <2>3 DEF HistoriesHold, HistoryTimes
<1>12. SidesSound'
  <2>1. ASSUME NEW x \in DOMAIN sessions, x # id
        PROVE  /\ sessions'[x].initiator = TRUE => InitiatorSound(x, sessions[x])'
               /\ sessions'[x].initiator = FALSE => ResponderSound(x, sessions[x])'
    <3>1. sessions'[x] = sessions[x] /\ x \in Ids
      BY <1>6, <2>1, Sm2Constants DEF KexInv, Sm2TypeOK, Ids
    <3>2. sessions[x].initiator = TRUE => InitiatorSound(x, sessions[x])
      BY DEF KexInv, SidesSound
    <3>3. sessions[x].initiator = FALSE => ResponderSound(x, sessions[x])
      BY DEF KexInv, SidesSound
    <3>4. ToSet(recorded[x]) \subseteq ToSet(recorded'[x])
      BY <1>8, <3>1
    <3> QED
      BY <3>1, <3>2, <3>3, <3>4 DEF InitiatorSound, ResponderSound
  <2>2. /\ sessions'[id].initiator = TRUE => InitiatorSound(id, sessions[id])'
        /\ sessions'[id].initiator = FALSE => ResponderSound(id, sessions[id])'
    BY <1>6 DEF InitiatorSound, ResponderSound
  <2> QED
    BY <1>6, <2>1, <2>2 DEF SidesSound
<1>13. NetSound'
  <2>1. ASSUME NEW n \in net PROVE SentBy(n)'
    <3>1. SentBy(n)
      BY DEF KexInv, NetSound
    <3>2. n.from \in Ids
      BY <3>1, Sm2Constants DEF SentBy, KexInv, Sm2TypeOK, Ids
    <3>3. ToSet(recorded[n.from]) \subseteq ToSet(recorded'[n.from])
      BY <1>8, <3>2
    <3> QED
      BY <1>6, <3>1, <3>3 DEF SentBy
  <2> QED
    BY <2>1 DEF NetSound
<1> QED
  BY <1>9, <1>10, <1>11, <1>12, <1>13 DEF KexInv

\* What the invariant speaks of is not changed by an answer.
LEMMA KexStutter ==
    ASSUME KexInv, UNCHANGED <<sessions, created, net, second, recorded>>
    PROVE  KexInv'
  BY DEF KexInv, Sm2TypeOK, RecordedApart, HistoriesHold, HistoryTimes,
       SidesSound, InitiatorSound, ResponderSound, NetSound, SentBy

\* A message arrives: it is one more in the history, unless it is there already
\* or the session timed out, and it may be the answer that the session awaits.
LEMMA ProcessPreserves ==
    ASSUME KexInv, NEW id \in Ids, NEW m \in Arrivals, NEW valid \in BOOLEAN,
           process_sm2_kex_message(id, m, valid)
    PROVE  KexInv'
<1>1. /\ id \in DOMAIN sessions /\ sessions[id].created_at < second
      /\ UNCHANGED <<created, revoked, second>>
  BY DEF process_sm2_kex_message
<1>2. CASE Expired(sessions[id])
  <2>1. sessions' = Without(id) /\ UNCHANGED <<net, recorded>>
    BY <1>2 DEF process_sm2_kex_message
  <2> QED
    BY <1>1, <2>1, WithoutPreserves
<1>3. CASE ~Expired(sessions[id])
  <2>1. PICK s \in Sm2Session : s = sessions[id]
    BY <1>1 DEF KexInv, Sm2TypeOK
  <2>2. PICK h \in Seq(Sm2Entry) : h = s.history
    BY DEF Sm2Session
  <2>3. second \in Nat /\ created \in Nat /\ id \in Nat /\ id # 0 /\ id \in 1 .. created
    BY <1>1 DEF KexInv, Sm2TypeOK
  <2>4. HistoryTimes(s)
    BY <1>1, <2>1 DEF KexInv, HistoriesHold
  <2>5. Fresh(h) = h
    BY <1>3, <2>1, <2>2, <2>3, <2>4, HistoryFresh
  <2>6. PICK g : g = Remember(h, m)
    OBVIOUS
  <2>7. PICK e : e = [s EXCEPT !.history = g]
    OBVIOUS
  <2>8. m.type \in {1, 2} => validate_r_pub(m)
    BY <1>3 DEF process_sm2_kex_message
  <2>9. \/ /\ Seen(h, m) /\ sessions' = [sessions EXCEPT ![id].history = h]
           /\ UNCHANGED <<net, recorded>>
        \/ /\ ~Seen(h, m) /\ recorded' = [recorded EXCEPT ![id] = Append(@, m)]
           /\ \/ /\ valid /\ Answers(e, id, m)
                 /\ sessions' = [sessions EXCEPT ![id] = Completed(e, id, m)]
                 /\ net' = IF e.initiator THEN net \cup {Message(3, id, m.from)} ELSE net
              \/ /\ sessions' = [sessions EXCEPT ![id] = e] /\ UNCHANGED net
    BY <1>3, <2>1, <2>2, <2>5, <2>6, <2>7 DEF process_sm2_kex_message
  <2>10. CASE /\ Seen(h, m) /\ sessions' = [sessions EXCEPT ![id].history = h]
              /\ UNCHANGED <<net, recorded>>
    <3>1. [s EXCEPT !.history = h] = s
      BY <2>2 DEF Sm2Session
    <3>2. sessions' = [sessions EXCEPT ![id] = s]
      BY <2>1, <2>10, <3>1
    <3>3. sessions' = sessions
      BY <1>1, <2>1, <3>2 DEF KexInv, Sm2TypeOK
    <3> QED
      BY <1>1, <2>10, <3>3, KexStutter
  <2>11. CASE ~Seen(h, m) /\ recorded' = [recorded EXCEPT ![id] = Append(@, m)]
    <3>1. /\ m \in Sm2Message
          /\ m # Junk /\ m.type # 3 => m \in net
          /\ m.type = 3 /\ m.confirmation = TRUE => m \in net
      BY Arriving
    <3>2. PICK t \in Seq(Sm2Message) : t = recorded[id]
      BY DEF KexInv, Sm2TypeOK
    <3>3. /\ recorded'[id] = Append(t, m)
          /\ ToSet(t) \subseteq ToSet(recorded'[id]) /\ m \in ToSet(recorded'[id])
      <4>1. recorded'[id] = Append(t, m)
        BY <2>11, <3>2 DEF KexInv, Sm2TypeOK
      <4> QED
        BY <3>1, <4>1, ToSetAppend, Zenon
    <3>4. PICK b \in BOOLEAN : b = s.initiator
      BY DEF Sm2Session
    <3>5. HoldsLast(h, t) /\ ApartEnough(t)
      BY <1>1, <2>1, <2>2, <3>2 DEF KexInv, HistoriesHold, RecordedApart
    <3>6. g \in Seq(Sm2Entry)
      <4>1. PICK gg \in Seq(Sm2Entry), u \in Seq(Sm2Message) :
             /\ gg = Remember(h, m) /\ u = Append(t, m)
             /\ HoldsLast(gg, u) /\ ApartEnough(u)
             /\ \A j \in 1 .. Len(gg) : gg[j].at = second \/ \E i \in 1 .. Len(h) : gg[j] = h[i]
        <5>1. second \in Nat /\ ~Seen(h, m) /\ m \in Sm2Message
          BY <2>3, <2>11, <3>1
        <5>2. second \in Nat /\ HoldsLast(h, t) /\ ApartEnough(t) /\ ~Seen(h, m)
          BY <3>5, <5>1
        <5>3. \E gg \in Seq(Sm2Entry), u \in Seq(Sm2Message) :
                /\ gg = Remember(h, m) /\ u = Append(t, m)
                /\ HoldsLast(gg, u) /\ ApartEnough(u)
                /\ \A j \in 1 .. Len(gg) : gg[j].at = second \/ \E i \in 1 .. Len(h) : gg[j] = h[i]
          BY <5>1, <5>2, RecordedNext
        <5> QED
          BY <5>3, Zenon
      <4> QED
        BY <2>6, <4>1
    <3>7. /\ e \in Sm2Session /\ e.history = g /\ e.initiator = b /\ e.peer = s.peer
          /\ e.secret = s.secret /\ e.created_at = s.created_at
      BY <2>7, <3>4, <3>6 DEF Sm2Session
    <3>8. CASE sessions' = [sessions EXCEPT ![id] = e] /\ UNCHANGED net
      <4>1. b = TRUE => InitiatorSound(id, e)'
        <5>1. b = TRUE => InitiatorSound(id, s)
          BY <1>1, <2>1, <3>4 DEF KexInv, SidesSound
        <5> QED
          BY <3>7, <3>8, <5>1 DEF InitiatorSound
      <4>2. b = FALSE => ResponderSound(id, e)'
        <5>1. b = FALSE => ResponderSound(id, s)
          BY <1>1, <2>1, <3>4 DEF KexInv, SidesSound
        <5> QED
          BY <3>2, <3>3, <3>7, <3>8, <5>1 DEF ResponderSound
      <4>3. \A n \in net' : n \notin net => SentBy(n)'
        BY <3>8
      <4> QED
        BY <1>1, <2>1, <2>2, <2>6, <2>11, <3>1, <3>4, <3>7, <3>8, <4>1, <4>2, <4>3,
           RecordPreserves, ZenonT(60)
    <3>9. CASE /\ valid /\ Answers(e, id, m)
               /\ sessions' = [sessions EXCEPT ![id] = Completed(e, id, m)]
               /\ net' = IF e.initiator THEN net \cup {Message(3, id, m.from)} ELSE net
      <4>1. PICK f : f = Completed(e, id, m)
        OBVIOUS
      <4>2. m.from \in Nat /\ m.re \in Nat
        BY <3>1 DEF Sm2Message
      <4>3. CASE b = TRUE
        <5>1. m.type = 2 /\ m.re = id
          BY <3>7, <3>9, <4>3 DEF Answers
        <5>2. m # Junk
          BY <2>3, <5>1 DEF Junk
        <5>3. m \in net
          BY <3>1, <5>1, <5>2
        <5>4. m = Message(2, m.from, id) /\ m.from \in 1 .. created
          BY <5>1, <5>3 DEF KexInv, NetSound, SentBy
        <5>5. f = [e EXCEPT !.peer = m.from, !.secret = <<id, m.from>>]
          BY <3>7, <4>1, <4>3 DEF Completed
        <5>6. /\ f \in Sm2Session /\ f.history = g /\ f.initiator = b /\ f.peer = m.from
              /\ f.secret = <<id, m.from>> /\ f.created_at = s.created_at
          <6>1. PICK secret \in Nat \X Nat : secret = <<id, m.from>>
            BY <2>3, <4>2
          <6>2. f = [e EXCEPT !.peer = m.from, !.secret = secret]
            BY <5>5, <6>1
          <6> QED
            BY <3>7, <4>2, <6>1, <6>2 DEF Sm2Session
        <5>7. PICK n \in Sm2Message : /\ n = Message(3, id, m.from)
                                      /\ n.type = 3 /\ n.from = id /\ n.re = m.from
          BY <2>3, <4>2, MessageFields
        <5>8. net' = net \cup {n}
          BY <3>7, <3>9, <4>3, <5>7
        <5>9. InitiatorSound(id, f)'
          BY <5>3, <5>4, <5>6, <5>8 DEF InitiatorSound, Message
        <5>10. SentBy(n)'
          <6>1. n = Message(n.type, n.from, n.re)'
            BY <5>7 DEF Message
          <6>2. Message(2, n.re, n.from)' \in ToSet(recorded'[n.from])
            BY <3>3, <5>4, <5>7 DEF Message
          <6>3. n.from \in 1 .. created'
            BY <1>1, <2>3, <5>7
          <6> QED
            BY <5>7, <6>1, <6>2, <6>3 DEF SentBy
        <5>11. \A x \in net' : x \notin net => SentBy(x)'
          BY <5>8, <5>10
        <5> QED
          BY <1>1, <2>1, <2>2, <2>6, <2>11, <3>1, <3>4, <3>9, <4>1, <4>3, <5>6, <5>8, <5>9, <5>11,
             RecordPreserves, ZenonT(60)
      <4>4. CASE b = FALSE
        <5>1. m.type = 3 /\ m.re = id /\ m.from = s.peer /\ m.confirmation = TRUE
          <6>1. m.type = 3 /\ m.re = id /\ m.from = e.peer /\ m.confirmation
            BY <3>7, <3>9, <4>4 DEF Answers
          <6>2. m.confirmation \in BOOLEAN
            BY <3>1 DEF Sm2Message
          <6> QED
            BY <3>7, <6>1, <6>2
        <5>2. m \in net
          BY <3>1, <5>1
        <5>3. m = Message(3, s.peer, id)
          BY <5>1, <5>2 DEF KexInv, NetSound, SentBy
        <5>4. f = [e EXCEPT !.secret = <<e.peer, id>>]
          BY <3>7, <4>1, <4>4 DEF Completed
        <5>5. s.peer \in Nat
          BY <4>2, <5>1
        <5>6. /\ f \in Sm2Session /\ f.history = g /\ f.initiator = b /\ f.peer = s.peer
              /\ f.secret = <<s.peer, id>> /\ f.created_at = s.created_at
          <6>1. PICK secret \in Nat \X Nat : secret = <<s.peer, id>>
            BY <2>3, <5>5
          <6>2. f = [e EXCEPT !.secret = secret]
            BY <3>7, <5>4, <6>1
          <6> QED
            BY <3>7, <6>1, <6>2 DEF Sm2Session
        <5>7. net' = net
          BY <3>7, <3>9, <4>4
        <5>8. ResponderSound(id, f)'
          <6>1. ResponderSound(id, s)
            BY <1>1, <2>1, <3>4, <4>4 DEF KexInv, SidesSound
          <6>2. \E x \in net' : x.type = 1 /\ x.from = f.peer
            BY <5>6, <5>7, <6>1 DEF ResponderSound
          <6> QED
            BY <3>3, <5>2, <5>3, <5>6, <5>7, <6>2 DEF ResponderSound, Message
        <5>9. \A n \in net' : n \notin net => SentBy(n)'
          BY <5>7
        <5> QED
          BY <1>1, <2>1, <2>2, <2>6, <2>11, <3>1, <3>4, <3>9, <4>1, <4>4, <5>6, <5>7, <5>8, <5>9,
             RecordPreserves, ZenonT(60)
      <4> QED
        BY <4>3, <4>4
    <3> QED
      BY <2>9, <2>11, <3>8, <3>9
  <2> QED
    BY <2>9, <2>10, <2>11
<1> QED
  BY <1>2, <1>3

\* Every step keeps the invariant.
LEMMA KexStepPreserves == KexInv /\ [KexNext]_kexVars => KexInv'
<1> SUFFICES ASSUME KexInv, [KexNext]_kexVars PROVE KexInv'
  OBVIOUS
<1>0. created \in Nat /\ second \in Nat
  BY DEF KexInv, Sm2TypeOK
<1>1. ASSUME NEW isSm2 \in BOOLEAN, create_sm2_kex_session(isSm2) PROVE KexInv'
  <2>1. PICK e \in Sm2Session :
           /\ e = Entry(TRUE, 0, <<>>) /\ e.initiator = TRUE /\ e.secret = <<>>
           /\ e.history = <<>> /\ e.created_at = second
    <3>1. <<>> \in Seq(Sm2Entry)
      OBVIOUS
    <3>2. Entry(TRUE, 0, <<>>) \in Sm2Session
      BY <1>0, <3>1 DEF Entry, Sm2Session
    <3> QED
      BY <3>2 DEF Entry
  <2>2. PICK id : id = created + 1
    OBVIOUS
  <2>3. /\ created < MaxSessions /\ created' = id /\ sessions' = Entered(id, e)
        /\ net' = net \cup {Message(1, id, 0)} /\ UNCHANGED <<second, recorded>>
    BY <1>1, <2>1, <2>2 DEF create_sm2_kex_session
  <2> QED
    BY <2>1, <2>2, <2>3, EnteredPreserves
<1>2. ASSUME NEW isSm2 \in BOOLEAN, NEW valid \in BOOLEAN, NEW m \in Arrivals,
             accept_sm2_kex_session(isSm2, m, valid)
      PROVE  KexInv'
  <2>1. m.type = 1 /\ m.from \in Nat /\ m \in net
    <3>1. m.type = 1 /\ validate_r_pub(m)
      BY <1>2 DEF accept_sm2_kex_session
    <3>2. m # Junk
      BY <3>1 DEF Junk
    <3>3. m \in Sm2Message /\ (m # Junk /\ m.type # 3 => m \in net)
      BY Arriving
    <3> QED
      BY <3>1, <3>2, <3>3 DEF Sm2Message
  <2>2. PICK e \in Sm2Session :
           /\ e = Entry(FALSE, m.from, <<>>) /\ e.initiator = FALSE /\ e.secret = <<>>
           /\ e.history = <<>> /\ e.created_at = second /\ e.peer = m.from
    <3>1. <<>> \in Seq(Sm2Entry)
      OBVIOUS
    <3>2. Entry(FALSE, m.from, <<>>) \in Sm2Session
      BY <1>0, <2>1, <3>1 DEF Entry, Sm2Session
    <3> QED
      BY <3>2 DEF Entry
  <2>3. PICK id : id = created + 1
    OBVIOUS
  <2>4. /\ created < MaxSessions /\ created' = id /\ sessions' = Entered(id, e)
        /\ net' = net \cup {Message(2, id, m.from)} /\ UNCHANGED <<second, recorded>>
    BY <1>2, <2>2, <2>3 DEF accept_sm2_kex_session
  <2> QED
    BY <2>1, <2>2, <2>3, <2>4, EnteredPreserves
<1>3. ASSUME NEW id \in Ids, NEW m \in Arrivals, NEW valid \in BOOLEAN,
             process_sm2_kex_message(id, m, valid)
      PROVE  KexInv'
  BY <1>3, ProcessPreserves
<1>4. ASSUME NEW id \in Ids, remove_sm2_kex_session(id) PROVE KexInv'
  BY <1>4, WithoutPreserves DEF remove_sm2_kex_session
<1>5. CASE KexTick
  <2>1. second' = second + 1 /\ UNCHANGED <<sessions, created, net, recorded>>
    BY <1>5 DEF KexTick
  <2>2. HistoriesHold'
    <3> SUFFICES ASSUME NEW id \in DOMAIN sessions
                 PROVE  HistoryTimes(sessions[id])' /\ HoldsLast(sessions[id].history, recorded[id])
      BY <2>1 DEF HistoriesHold
    <3>1. sessions[id].created_at \in Nat /\ sessions[id].created_at <= second
      BY DEF KexInv, Sm2TypeOK, Sm2Session, HistoriesHold, HistoryTimes
    <3>2. sessions[id].created_at <= second + 1
      BY <1>0, <3>1
    <3> QED
      BY <2>1, <3>2 DEF KexInv, HistoriesHold, HistoryTimes
  <2>3. Sm2TypeOK'
    BY <1>0, <2>1 DEF KexInv, Sm2TypeOK
  <2> QED
    BY <2>1, <2>2, <2>3 DEF KexInv, RecordedApart, SidesSound, InitiatorSound, ResponderSound,
         NetSound, SentBy
<1>6. CASE UNCHANGED kexVars
  BY <1>6, KexStutter DEF kexVars
<1> QED
  BY <1>1, <1>2, <1>3, <1>4, <1>5, <1>6 DEF KexNext

\* What the invariant says of replays, confirmations and secrets.
LEMMA KexInvSound == KexInv => KexSound
<1> SUFFICES ASSUME KexInv PROVE KexSound
  OBVIOUS
<1>1. NoReplay
  BY DEF KexInv, RecordedApart, ApartEnough, NoReplay
<1>2. ASSUME NEW id \in DOMAIN sessions
      PROVE  id \in Nat /\ sessions[id] \in Sm2Session /\ sessions[id].initiator \in BOOLEAN
  BY DEF KexInv, Sm2TypeOK, Sm2Session
<1>3. ResponderConfirmed
  <2> SUFFICES ASSUME NEW id \in DOMAIN sessions, ~sessions[id].initiator,
                      sessions[id].secret # <<>>
               PROVE  /\ Message(3, sessions[id].peer, id) \in ToSet(recorded[id])
                      /\ Message(2, id, sessions[id].peer) \in ToSet(recorded[sessions[id].peer])
    BY DEF ResponderConfirmed
  <2>1. sessions[id].initiator = FALSE
    BY <1>2
  <2>2. ResponderSound(id, sessions[id])
    BY <2>1 DEF KexInv, SidesSound
  <2>3. PICK p \in Nat : p = sessions[id].peer
    BY <1>2 DEF Sm2Session
  <2>4. Message(3, p, id) \in net /\ Message(3, p, id) \in ToSet(recorded[id])
    BY <2>2, <2>3 DEF ResponderSound
  <2>5. Message(3, p, id).type = 3 /\ Message(3, p, id).from = p /\ Message(3, p, id).re = id
    BY <1>2, MessageFields
  <2>6. SentBy(Message(3, p, id))
    BY <2>4 DEF KexInv, NetSound
  <2>7. Message(2, id, p) \in ToSet(recorded[p])
    BY <2>5, <2>6 DEF SentBy
  <2> QED
    BY <2>3, <2>4, <2>7
<1>4. Agreement
  <2> SUFFICES ASSUME NEW i \in DOMAIN sessions, NEW j \in DOMAIN sessions,
                      sessions[i].secret # <<>>, sessions[j].secret # <<>>,
                      sessions[i].peer = j, sessions[j].peer = i
               PROVE  sessions[i].secret = sessions[j].secret
    BY DEF Agreement, get_sm2_kex_result
  <2>1. ASSUME NEW x \in DOMAIN sessions, NEW y \in DOMAIN sessions,
               sessions[x].secret # <<>>, sessions[x].peer = y
        PROVE  /\ sessions[x].initiator = TRUE =>
                     sessions[y].initiator = FALSE /\ sessions[x].secret = <<x, y>>
               /\ sessions[x].initiator = FALSE =>
                     sessions[y].initiator = TRUE /\ sessions[x].secret = <<y, x>>
    <3>1. ASSUME sessions[x].initiator = TRUE
          PROVE  sessions[y].initiator = FALSE /\ sessions[x].secret = <<x, y>>
      <4>1. InitiatorSound(x, sessions[x])
        BY <3>1 DEF KexInv, SidesSound
      <4>2. sessions[x].secret = <<x, y>> /\ Message(2, y, x) \in net
        BY <2>1, <4>1 DEF InitiatorSound
      <4>3. SentBy(Message(2, y, x))
        BY <4>2 DEF KexInv, NetSound
      <4>4. Message(2, y, x).type = 2 /\ Message(2, y, x).from = y
        BY <1>2, MessageFields
      <4> QED
        BY <4>2, <4>3, <4>4 DEF SentBy
    <3>2. ASSUME sessions[x].initiator = FALSE
          PROVE  sessions[y].initiator = TRUE /\ sessions[x].secret = <<y, x>>
      <4>1. ResponderSound(x, sessions[x])
        BY <3>2 DEF KexInv, SidesSound
      <4>2. PICK m \in net : m.type = 1 /\ m.from = y
        BY <2>1, <4>1 DEF ResponderSound
      <4>3. SentBy(m)
        BY DEF KexInv, NetSound
      <4> QED
        BY <2>1, <4>1, <4>2, <4>3 DEF SentBy, ResponderSound
    <3> QED
      BY <3>1, <3>2
  <2>2. sessions[i].initiator = TRUE \/ sessions[i].initiator = FALSE
    BY <1>2
  <2>3. /\ sessions[i].initiator = TRUE =>
              sessions[j].initiator = FALSE /\ sessions[i].secret = <<i, j>>
        /\ sessions[i].initiator = FALSE =>
              sessions[j].initiator = TRUE /\ sessions[i].secret = <<j, i>>
    BY <2>1
  <2>4. /\ sessions[j].initiator = TRUE => sessions[j].secret = <<j, i>>
        /\ sessions[j].initiator = FALSE => sessions[j].secret = <<i, j>>
    BY <2>1
  <2> QED
    BY <2>2, <2>3, <2>4
<1> QED
  BY <1>1, <1>3, <1>4 DEF KexSound

\* The key exchange of the software key store, for any number of sessions, any
\* sizes of history and any time-outs that end a session before its history
\* grows old, over a network that repeats, reorders and misdirects: no replay
\* within the history, confirmed responders, and one secret for a pair.
THEOREM KexStaysSound == KexSpec => []KexSound
<1>1. KexInit => KexInv
  BY KexInitEstablishes
<1>2. KexInv /\ [KexNext]_kexVars => KexInv'
  BY KexStepPreserves
<1>3. KexInv => KexSound
  BY KexInvSound
<1> QED
  BY <1>1, <1>2, <1>3, PTL DEF KexSpec

-----------------------------------------------------------------------------
(* Startup.  FailClosed speaks of a server that serves: what each gate let *)
(* through is remembered by the step that the process has come to.  For    *)
(* the SM9 master key the invariant says what whoever is about to store a  *)
(* new one has seen, and that no other server has stored one since.        *)

Confs == {load(Deployments[i]) : i \in DOMAIN Deployments}
KekNames == {"", "random"} \cup {c.kek : c \in Confs} \cup {c.kek_file : c \in Confs}
StartSteps == {"down", "protect", "self_test", "audit", "pool", "policies", "sm9", "sm9_store",
               "backup", "keystore", "keys", "listen", "serving", "stopping"}
Early == {"down", "protect", "self_test", "audit", "pool", "policies"}
ServerParts == [pool : BOOLEAN, policies : {"none", "loaded", "memory"}, sm9 : Nat,
                keystore : {"none", "postgres", "memory", "tpm", "tpm-sim"}, kek : KekNames,
                limiter : BOOLEAN, backup : {"none", "persisted", "ephemeral"},
                audit : {"none", "plain", "timestamped"}, dumps : BOOLEAN]
ListenerStates == {"none", "starting", "plain", "tls", "failed", "ended"}

\* The process.
StartupTypeOK ==
    /\ at \in StartSteps /\ srv \in ServerParts
    /\ listeners \in [rest : ListenerStates, grpc : ListenerStates]
    /\ at # "down" => conf \in Confs
    /\ at = "down" => srv = Nothing
    /\ at \notin {"serving", "stopping"} => listeners = Idle

\* What is stored and counted.
StoredTypeOK ==
    /\ row \in [key : Nat, kek : KekNames] /\ replica \in KekNames
    /\ minted \in Nat /\ startFaults \in Nat
    /\ keks = {} \/ \E k \in keks : keks = {k}

\* What the gates let through.
KeystoreGated ==
    at \in {"keys", "listen", "serving"} =>
        srv.keystore \in {"postgres", "tpm"} \/ in_memory_fallback_permitted
BackupGated == srv.backup = "ephemeral" => in_memory_fallback_permitted
KekGated == srv.kek = "random" => "KMS_DEV_MODE" \in conf.flags
PoliciesLoaded == at \notin Early => (srv.pool => srv.policies = "loaded")
ListenersGated ==
    /\ at \in {"serving", "stopping"} => conf.tls # "none" \/ is_insecure_opted_in
    /\ \A l \in DOMAIN listeners : listeners[l] = "plain" => is_insecure_opted_in
KeysApart ==
    at \in {"listen", "serving"} =>
        \A i, j \in DOMAIN conf.api_keys : i # j => conf.api_keys[i].secret # conf.api_keys[j].secret
GatesInv ==
    StartupTypeOK /\ KeystoreGated /\ BackupGated /\ KekGated /\ PoliciesLoaded /\ ListenersGated /\ KeysApart

\* The stored key is sealed under the one KEK there was, if there was one.
RowSealed == row.key # 0 => Usable(row.kek) /\ keks \in {{row.kek}, {"bad"}}
NothingYet == keks = {} => srv.sm9 = 0 /\ row.key = 0 /\ minted = 0 /\ at # "sm9_store"
StoreInTime ==
    at = "sm9_store" => /\ keks \in {{conf.kek}, {"bad"}}
                        /\ ~crossed /\ startFaults = 0 => ~Loads(conf.kek)
ReplicaInTime ==
    replica # "" => /\ Usable(replica)
                    /\ ~crossed => at # "sm9_store" /\ (row.key = 0 \/ row.kek # replica)
MintedInVain ==
    startFaults = 0 /\ minted # 0 /\ row.key = 0 => keks # {} /\ \A k \in keks : ~Usable(k)
Sm9KeyInv ==
    StoredTypeOK /\ RowSealed /\ NothingYet /\ StoreInTime /\ ReplicaInTime /\ MintedInVain /\ Sm9MasterKept

\* The process is gone: nothing is left of it.
LEMMA DownGates ==
    ASSUME at' = "down", srv' = Nothing, listeners' = Idle
    PROVE  GatesInv'
<1>1. /\ Nothing \in ServerParts /\ Nothing.backup = "none" /\ Nothing.kek = ""
      /\ Nothing.keystore = "none"
  BY DEF Nothing, ServerParts, KekNames
<1>2. /\ Idle \in [rest : ListenerStates, grpc : ListenerStates]
      /\ \A l \in DOMAIN Idle : Idle[l] = "none"
  BY DEF Idle, ListenerStates
<1> HIDE DEF Nothing, Idle
<1>3. StartupTypeOK'
  BY <1>1, <1>2 DEF StartupTypeOK, StartSteps
<1>4. KeystoreGated' /\ BackupGated' /\ KekGated' /\ PoliciesLoaded' /\ ListenersGated' /\ KeysApart'
  BY <1>1, <1>2 DEF KeystoreGated, BackupGated, KekGated, PoliciesLoaded, ListenersGated, KeysApart, Early
<1> QED
  BY <1>3, <1>4 DEF GatesInv

\* The process goes on to its next step before it serves, with what the gate of
\* that step asks for.
LEMMA GotoGates ==
    ASSUME GatesInv, at \notin {"down", "serving", "stopping"},
           NEW step \in StartSteps \ {"down", "serving", "stopping"}, NEW s \in ServerParts,
           at' = step, srv' = s, UNCHANGED <<conf, listeners>>,
           step \in {"keys", "listen"} =>
              s.keystore \in {"postgres", "tpm"} \/ in_memory_fallback_permitted,
           s.backup = "ephemeral" => in_memory_fallback_permitted,
           s.kek = "random" => "KMS_DEV_MODE" \in conf.flags,
           step \notin Early => (s.pool = TRUE => s.policies = "loaded"),
           step = "listen" => \A i, j \in DOMAIN conf.api_keys :
              i # j => conf.api_keys[i].secret # conf.api_keys[j].secret
    PROVE  GatesInv'
<1>1. StartupTypeOK'
  BY DEF GatesInv, StartupTypeOK, StartSteps
<1>2. in_memory_fallback_permitted' = in_memory_fallback_permitted
  BY DEF in_memory_fallback_permitted, is_insecure_opted_in
<1>3. KeystoreGated' /\ BackupGated'
  BY <1>2 DEF KeystoreGated, BackupGated
<1>4. KekGated'
  BY DEF KekGated
<1>5. PoliciesLoaded'
  <2>1. PICK b \in BOOLEAN : b = s.pool
    BY Zenon DEF ServerParts
  <2> QED
    BY <2>1, Zenon DEF PoliciesLoaded
<1>6. ListenersGated'
  <2>1. is_insecure_opted_in' = is_insecure_opted_in
    BY DEF is_insecure_opted_in
  <2> QED
    BY <2>1 DEF GatesInv, ListenersGated
<1>7. KeysApart'
  BY DEF KeysApart
<1> QED
  BY <1>1, <1>3, <1>4, <1>5, <1>6, <1>7 DEF GatesInv

\* A listener changes its state while the process serves or stops.
LEMMA ListenerGates ==
    ASSUME GatesInv, NEW step \in {"serving", "stopping"}, at' = step,
           at \in {"listen", "serving", "stopping"},
           at = "listen" => step = "serving" /\ (conf.tls # "none" \/ is_insecure_opted_in),
           at = "stopping" => step = "stopping",
           UNCHANGED <<conf, srv>>,
           listeners' \in [rest : ListenerStates, grpc : ListenerStates],
           \A l \in DOMAIN listeners' : listeners'[l] = "plain" => is_insecure_opted_in
    PROVE  GatesInv'
<1>1. StartupTypeOK'
  BY DEF GatesInv, StartupTypeOK, StartSteps
<1>2. /\ in_memory_fallback_permitted' = in_memory_fallback_permitted
      /\ is_insecure_opted_in' = is_insecure_opted_in
  BY DEF in_memory_fallback_permitted, is_insecure_opted_in
<1>3. KeystoreGated' /\ BackupGated'
  BY <1>2 DEF GatesInv, KeystoreGated, BackupGated
<1>4. KekGated' /\ PoliciesLoaded' /\ KeysApart'
  BY DEF GatesInv, KekGated, PoliciesLoaded, KeysApart, Early
<1>5. ListenersGated'
  BY <1>2 DEF GatesInv, ListenersGated
<1> QED
  BY <1>1, <1>3, <1>4, <1>5 DEF GatesInv

\* Nothing that the gates speak of changes.
LEMMA GatesStutter ==
    ASSUME GatesInv, UNCHANGED <<conf, at, srv, listeners>>
    PROVE  GatesInv'
  BY DEF GatesInv, StartupTypeOK, KeystoreGated, BackupGated, KekGated, PoliciesLoaded,
       ListenersGated, KeysApart, in_memory_fallback_permitted, is_insecure_opted_in

\* A part of the server is put in place; the others stay.
LEMMA ServerPlus ==
    ASSUME NEW s \in ServerParts
    PROVE  /\ \A b \in BOOLEAN : /\ [s EXCEPT !.dumps = b] \in ServerParts
                                 /\ [s EXCEPT !.pool = b] \in ServerParts
                                 /\ [s EXCEPT !.limiter = b] \in ServerParts
           /\ \A a \in {"plain", "timestamped"} : [s EXCEPT !.audit = a] \in ServerParts
           /\ \A p \in {"loaded", "memory"} : [s EXCEPT !.policies = p] \in ServerParts
           /\ \A n \in Nat : [s EXCEPT !.sm9 = n] \in ServerParts
           /\ \A b \in {"persisted", "ephemeral"} : [s EXCEPT !.backup = b] \in ServerParts
           /\ \A k \in {"memory", "tpm", "tpm-sim"} : [s EXCEPT !.keystore = k] \in ServerParts
           /\ \A k \in KekNames : [s EXCEPT !.keystore = "postgres", !.kek = k] \in ServerParts
  BY DEF ServerParts


\* A step before the key store is chosen that no gate asks about.
LEMMA QuietGates ==
    ASSUME GatesInv, at \notin {"down", "serving", "stopping"},
           NEW step \in {"self_test", "audit", "pool", "policies", "sm9", "sm9_store", "backup", "keystore"},
           NEW s \in ServerParts,
           at' = step, srv' = s, UNCHANGED <<conf, listeners>>,
           s.backup = srv.backup, s.kek = srv.kek,
           step \notin Early => at \notin Early /\ s.pool = srv.pool /\ s.policies = srv.policies
    PROVE  GatesInv'
<1>1. step \in StartSteps \ {"down", "serving", "stopping"} /\ step \notin {"keys", "listen"}
  BY DEF StartSteps
<1>2. s.backup = "ephemeral" => in_memory_fallback_permitted
  BY DEF GatesInv, BackupGated
<1>3. s.kek = "random" => "KMS_DEV_MODE" \in conf.flags
  BY DEF GatesInv, KekGated
<1>4. step \notin Early => (s.pool = TRUE => s.policies = "loaded")
  BY Zenon DEF GatesInv, PoliciesLoaded
<1> QED
  BY <1>1, <1>2, <1>3, <1>4, GotoGates

\* What the lemmas above need to know of the server.
LEMMA ServerTyped ==
    ASSUME GatesInv
    PROVE  srv \in ServerParts /\ at \in StartSteps /\ (at = "down" => srv = Nothing)
  BY DEF GatesInv, StartupTypeOK

\* init_memory_protection asks for nothing and a failure stops nothing.
LEMMA MemoryProtectionGates ==
    ASSUME GatesInv, init_memory_protection
    PROVE  GatesInv'
<1>1. srv \in ServerParts /\ [srv EXCEPT !.dumps = FALSE] \in ServerParts
  BY ServerTyped, ServerPlus
<1>2. PICK s \in {srv, [srv EXCEPT !.dumps = FALSE]} :
        /\ at' = "self_test" /\ srv' = s /\ UNCHANGED <<conf, listeners>>
  BY DEF init_memory_protection, Goto, Then
<1>3. s.backup = srv.backup /\ s.kek = srv.kek /\ s \in ServerParts
  BY <1>1, <1>2 DEF ServerParts
<1>4. at = "protect" /\ "self_test" \in Early
  BY DEF init_memory_protection, Early
<1> QED
  BY <1>2, <1>3, <1>4, QuietGates

\* A failed self test ends the process.
LEMMA SelfTestGates ==
    ASSUME GatesInv, run_all_tests
    PROVE  GatesInv'
<1>1. CASE Fine /\ Goto("audit", srv)
  <2>1. at' = "audit" /\ srv' = srv /\ UNCHANGED <<conf, listeners>> /\ at = "self_test"
    BY <1>1 DEF run_all_tests, Goto, Then
  <2> QED
    BY <2>1, QuietGates, ServerTyped DEF Early
<1>2. CASE Refuse
  BY <1>2, DownGates DEF Refuse, Down
<1> QED
  BY <1>1, <1>2 DEF run_all_tests

\* The logger that is opened has no say in the gates.
LEMMA AuditLogGates ==
    ASSUME GatesInv, open_audit_log
    PROVE  GatesInv'
<1>1. PICK a \in {"plain", "timestamped"} :
        /\ at' = "pool" /\ srv' = [srv EXCEPT !.audit = a] /\ UNCHANGED <<conf, listeners>>
  BY DEF open_audit_log, Goto, Then
<1>2. PICK s \in ServerParts : s = [srv EXCEPT !.audit = a]
  BY ServerTyped, ServerPlus
<1>3. s.backup = srv.backup /\ s.kek = srv.kek
  BY <1>2, ServerTyped DEF ServerParts
<1>4. at = "audit" /\ "pool" \in Early
  BY DEF open_audit_log, Early
<1> QED
  BY <1>1, <1>2, <1>3, <1>4, QuietGates

\* Without a pool the server goes on, unless the TLS settings were refused.
LEMMA PoolGates ==
    ASSUME GatesInv, maybe_create_mfa_pool
    PROVE  GatesInv'
<1>0. at = "pool" /\ "policies" \in Early
  BY DEF maybe_create_mfa_pool, Early
<1>1. CASE Refuse
  BY <1>1, DownGates DEF Refuse, Down
<1>2. CASE Goto("policies", [srv EXCEPT !.pool = TRUE])
  <2>1. PICK s \in ServerParts : s = [srv EXCEPT !.pool = TRUE]
    BY ServerTyped, ServerPlus
  <2>2. s.backup = srv.backup /\ s.kek = srv.kek
    BY <2>1, ServerTyped DEF ServerParts
  <2> QED
    BY <1>0, <1>2, <2>1, <2>2, QuietGates DEF Goto, Then
<1>3. CASE Goto("policies", srv)
  BY <1>0, <1>3, QuietGates, ServerTyped DEF Goto, Then
<1> QED
  BY <1>1, <1>2, <1>3 DEF maybe_create_mfa_pool

\* With a pool the policies come from the database or the server does not start.
LEMMA PoliciesGates ==
    ASSUME GatesInv, load_persisted_policies
    PROVE  GatesInv'
<1>0. at = "policies" /\ "sm9" \in StartSteps \ {"down", "serving", "stopping"}
  BY DEF load_persisted_policies, StartSteps
<1>1. CASE Refuse
  BY <1>1, DownGates DEF Refuse, Down
<1>2. CASE \E p \in {"loaded", "memory"} : (srv.pool = TRUE => p = "loaded")
                                       /\ Goto("sm9", [srv EXCEPT !.policies = p])
  <2>1. PICK p \in {"loaded", "memory"} : (srv.pool = TRUE => p = "loaded")
                                       /\ Goto("sm9", [srv EXCEPT !.policies = p])
    BY <1>2
  <2>2. PICK s \in ServerParts : s = [srv EXCEPT !.policies = p]
    BY ServerTyped, ServerPlus
  <2>3. s.backup = srv.backup /\ s.kek = srv.kek /\ s.policies = p
    BY <2>2, ServerTyped DEF ServerParts
  <2>4. s.pool = srv.pool
    BY <2>2, ServerTyped, Zenon DEF ServerParts
  <2>5. s.backup = "ephemeral" => in_memory_fallback_permitted
    BY <2>3 DEF GatesInv, BackupGated
  <2>6. s.kek = "random" => "KMS_DEV_MODE" \in conf.flags
    BY <2>3 DEF GatesInv, KekGated
  <2>7. s.pool = TRUE => s.policies = "loaded"
    BY <2>1, <2>3, <2>4, Zenon
  <2>8. at' = "sm9" /\ srv' = s /\ UNCHANGED <<conf, listeners>>
    BY <2>1, <2>2 DEF Goto, Then
  <2> QED
    BY <1>0, <2>5, <2>6, <2>7, <2>8, GotoGates
<1>3. PICK b \in BOOLEAN : b = srv.pool
  BY ServerTyped, Zenon DEF ServerParts
<1> QED
  BY <1>1, <1>2, <1>3 DEF load_persisted_policies

\* The four ways with the SM9 master key.
LEMMA Sm9Gates ==
    ASSUME GatesInv, StoredTypeOK,
           generate_fails \/ sm9_in_memory \/ load_from_repository \/ store_to_repository
    PROVE  GatesInv'
<1>1. CASE Refuse
  BY <1>1, DownGates DEF Refuse, Down
<1>2. CASE load_from_repository /\ Goto("sm9_store", srv)
  <2>1. at = "sm9" /\ at \notin Early /\ at' = "sm9_store" /\ srv' = srv /\ UNCHANGED <<conf, listeners>>
    BY <1>2 DEF load_from_repository, Goto, Then, Early
  <2> QED
    BY <2>1, QuietGates, ServerTyped
<1>3. CASE \E n \in Nat : /\ at \in {"sm9", "sm9_store"} /\ at' = "backup" /\ srv' = [srv EXCEPT !.sm9 = n]
                          /\ UNCHANGED <<conf, listeners>>
  <2>1. PICK n \in Nat : /\ at \in {"sm9", "sm9_store"} /\ at' = "backup" /\ srv' = [srv EXCEPT !.sm9 = n]
                         /\ UNCHANGED <<conf, listeners>>
    BY <1>3
  <2>2. PICK s \in ServerParts : s = [srv EXCEPT !.sm9 = n]
    BY ServerTyped, ServerPlus
  <2>3. s.backup = srv.backup /\ s.kek = srv.kek /\ s.policies = srv.policies
    BY <2>2, ServerTyped DEF ServerParts
  <2>4. s.pool = srv.pool
    BY <2>2, ServerTyped, Zenon DEF ServerParts
  <2>5. at \notin Early /\ at \notin {"down", "serving", "stopping"}
    BY <2>1 DEF Early
  <2> QED
    BY <2>1, <2>2, <2>3, <2>4, <2>5, QuietGates
<1>4. row.key \in Nat /\ minted \in Nat
  BY DEF StoredTypeOK
<1>5. CASE sm9_in_memory
  BY <1>3, <1>4, <1>5 DEF sm9_in_memory, Goto, Then
<1>6. CASE load_from_repository
  BY <1>2, <1>3, <1>4, <1>6 DEF load_from_repository, Goto, Then
<1>7. CASE store_to_repository
  BY <1>3, <1>4, <1>7 DEF store_to_repository, Then
<1> QED
  BY <1>1, <1>5, <1>6, <1>7 DEF generate_fails

\* An ephemeral backup key needs the operator's leave.
LEMMA BackupGates ==
    ASSUME GatesInv, open_backup
    PROVE  GatesInv'
<1>0. at = "backup" /\ at \notin Early /\ "keystore" \in StartSteps \ {"down", "serving", "stopping"}
  BY DEF open_backup, StartSteps, Early
<1>1. CASE Refuse
  BY <1>1, DownGates DEF Refuse, Down
<1>2. CASE Then("keystore", srv)
  BY <1>0, <1>2, QuietGates, ServerTyped DEF Then
<1>3. CASE \E b \in {"persisted", "ephemeral"} : (b = "ephemeral" => in_memory_fallback_permitted)
                                       /\ Then("keystore", [srv EXCEPT !.backup = b])
  <2>1. PICK b \in {"persisted", "ephemeral"} : (b = "ephemeral" => in_memory_fallback_permitted)
                                       /\ Then("keystore", [srv EXCEPT !.backup = b])
    BY <1>3
  <2>2. PICK s \in ServerParts : s = [srv EXCEPT !.backup = b]
    BY ServerTyped, ServerPlus
  <2>3. s.backup = b /\ s.kek = srv.kek /\ s.policies = srv.policies
    BY <2>2, ServerTyped DEF ServerParts
  <2>4. s.pool = srv.pool
    BY <2>2, ServerTyped, Zenon DEF ServerParts
  <2>5. s.kek = "random" => "KMS_DEV_MODE" \in conf.flags
    BY <2>3 DEF GatesInv, KekGated
  <2>6. s.pool = TRUE => s.policies = "loaded"
    BY <1>0, <2>3, <2>4, Zenon DEF GatesInv, PoliciesLoaded
  <2>7. at' = "keystore" /\ srv' = s /\ UNCHANGED <<conf, listeners>>
    BY <2>1, <2>2 DEF Then
  <2> QED
    BY <1>0, <2>1, <2>3, <2>5, <2>6, <2>7, GotoGates
<1> QED
  BY <1>1, <1>2, <1>3 DEF open_backup, Goto

\* The key store's KEK is random only in development mode.
LEMMA KekIsConfigured ==
    ASSUME GatesInv, at # "down", Kek # "exit"
    PROVE  Kek \in KekNames /\ (Kek = "random" => "KMS_DEV_MODE" \in conf.flags)
<1>1. PICK i \in DOMAIN Deployments : conf = load(Deployments[i])
  BY DEF GatesInv, StartupTypeOK, Confs
<1>2. conf \in Confs
  BY DEF GatesInv, StartupTypeOK
<1>3. conf.kek # "random" /\ conf.kek_file # "random"
  BY <1>1, DeploymentsAssumption
<1>4. conf.kek \in KekNames /\ conf.kek_file \in KekNames /\ "random" \in KekNames
  BY <1>2 DEF KekNames
<1> QED
  BY <1>3, <1>4 DEF Kek, Source

\* Whatever stands in for the key store was let through by its gate.
LEMMA KeystoreGates ==
    ASSUME GatesInv, choose_keystore
    PROVE  GatesInv'
<1>0. at = "keystore" /\ at \notin Early /\ "keys" \in StartSteps \ {"down", "serving", "stopping"}
  BY DEF choose_keystore, StartSteps, Early
<1>1. CASE Refuse
  BY <1>1, DownGates DEF Refuse, Down
<1>2. PICK made \in BOOLEAN, connected \in BOOLEAN :
        IF connected /\ conf.backend = "tpm" THEN create_tpm_keystore([srv EXCEPT !.limiter = made])
        ELSE create_software_keystore([srv EXCEPT !.limiter = made])
  BY DEF choose_keystore, Limiters
<1>3. PICK s \in ServerParts : s = [srv EXCEPT !.limiter = made]
  BY ServerTyped, ServerPlus
<1>4. s.backup = srv.backup /\ s.kek = srv.kek /\ s.policies = srv.policies
  BY <1>3, ServerTyped DEF ServerParts
<1>5. s.pool = srv.pool
  BY <1>3, ServerTyped, Zenon DEF ServerParts
<1>6. CASE \E k \in {"memory", "tpm", "tpm-sim"} :
            /\ k = "tpm" \/ in_memory_fallback_permitted
            /\ Goto("keys", [s EXCEPT !.keystore = k])
  <2>1. PICK k \in {"memory", "tpm", "tpm-sim"} :
            /\ k = "tpm" \/ in_memory_fallback_permitted
            /\ Goto("keys", [s EXCEPT !.keystore = k])
    BY <1>6
  <2>2. PICK t \in ServerParts : t = [s EXCEPT !.keystore = k]
    BY ServerPlus
  <2>3. t.keystore = k /\ t.backup = s.backup /\ t.kek = s.kek /\ t.policies = s.policies
    BY <2>2 DEF ServerParts
  <2>4. t.pool = s.pool
    BY <2>2, Zenon DEF ServerParts
  <2>5. t.backup = "ephemeral" => in_memory_fallback_permitted
    BY <1>4, <2>3 DEF GatesInv, BackupGated
  <2>6. t.kek = "random" => "KMS_DEV_MODE" \in conf.flags
    BY <1>4, <2>3 DEF GatesInv, KekGated
  <2>7. t.pool = TRUE => t.policies = "loaded"
    BY <1>0, <1>4, <1>5, <2>3, <2>4, Zenon DEF GatesInv, PoliciesLoaded
  <2>8. at' = "keys" /\ srv' = t /\ UNCHANGED <<conf, listeners>>
    BY <2>1, <2>2 DEF Goto, Then
  <2> QED
    BY <1>0, <2>1, <2>3, <2>5, <2>6, <2>7, <2>8, GotoGates
<1>7. CASE Kek # "exit" /\ Goto("keys", [s EXCEPT !.keystore = "postgres", !.kek = Kek])
  <2>1. Kek \in KekNames /\ (Kek = "random" => "KMS_DEV_MODE" \in conf.flags)
    BY <1>0, <1>7, KekIsConfigured
  <2>2. PICK k \in KekNames : k = Kek
    BY <2>1
  <2>3. PICK t \in ServerParts : t = [s EXCEPT !.keystore = "postgres", !.kek = k]
    BY ServerPlus
  <2>4. t.keystore = "postgres" /\ t.backup = s.backup /\ t.kek = k /\ t.policies = s.policies
    BY <2>3 DEF ServerParts
  <2>5. t.pool = s.pool
    BY <2>3, Zenon DEF ServerParts
  <2>6. t.backup = "ephemeral" => in_memory_fallback_permitted
    BY <1>4, <2>4 DEF GatesInv, BackupGated
  <2>7. t.pool = TRUE => t.policies = "loaded"
    BY <1>0, <1>4, <1>5, <2>4, <2>5, Zenon DEF GatesInv, PoliciesLoaded
  <2>8. at' = "keys" /\ srv' = t /\ UNCHANGED <<conf, listeners>>
    BY <1>7, <2>2, <2>3 DEF Goto, Then
  <2> QED
    BY <1>0, <2>1, <2>2, <2>4, <2>6, <2>7, <2>8, GotoGates
<1>8. CASE create_tpm_keystore(s)
  BY <1>1, <1>6, <1>8, Zenon DEF create_tpm_keystore
<1>9. CASE create_software_keystore(s)
  BY <1>1, <1>6, <1>7, <1>9, Zenon DEF create_software_keystore, FallBack
<1> QED
  BY <1>2, <1>3, <1>8, <1>9, Zenon

\* No two configured keys share a secret: the environment's key goes first, so
\* each of the others is one place further on.
LEMMA ConfiguredKeysApart ==
    ASSUME GatesInv, at # "down", build_api_key_config
    PROVE  \A i, j \in DOMAIN conf.api_keys : i # j => conf.api_keys[i].secret # conf.api_keys[j].secret
<1>1. PICK n \in DOMAIN Deployments : conf = load(Deployments[n])
  BY DEF GatesInv, StartupTypeOK, Confs
<1>2. PICK ks \in Seq([id : STRING, secret : STRING, role : STRING]) : ks = conf.api_keys
  BY <1>1, DeploymentsAssumption
<1>3. PICK first : first = [id |-> "default", secret |-> conf.api_key, role |-> "operator"]
  BY Zenon
<1> DEFINE keys == <<first>> \o ks
<1>4. \A i, j \in DOMAIN keys : i # j => keys[i].secret # keys[j].secret
  <2>1. keys = <<[id |-> "default", secret |-> conf.api_key, role |-> "operator"]>> \o conf.api_keys
    BY <1>2, <1>3, Zenon
  <2> HIDE DEF keys
  <2> QED
    BY <2>1, Zenon DEF build_api_key_config
<1>5. Len(keys) = Len(ks) + 1 /\ DOMAIN keys = 1..(Len(ks) + 1)
  BY <1>2
<1>6. \A i \in 1..Len(ks) : keys[i + 1] = ks[i] /\ i + 1 \in DOMAIN keys
  BY <1>2, <1>5
<1> HIDE DEF keys
<1>7. DOMAIN ks = 1..Len(ks) /\ Len(ks) \in Nat
  BY <1>2
<1>8. \A i, j \in 1..Len(ks) : i # j => ks[i].secret # ks[j].secret
  BY <1>4, <1>6, <1>7
<1> QED
  BY <1>2, <1>7, <1>8

\* The API keys are apart when the listeners may open.
LEMMA ApiKeyGates ==
    ASSUME GatesInv, load_api_keys
    PROVE  GatesInv'
<1>0. at = "keys" /\ at \notin Early /\ "listen" \in StartSteps \ {"down", "serving", "stopping"}
  BY DEF load_api_keys, StartSteps, Early
<1>1. CASE Refuse
  BY <1>1, DownGates DEF Refuse, Down
<1>2. CASE build_api_key_config /\ Goto("listen", srv)
  <2>1. srv \in ServerParts /\ at' = "listen" /\ srv' = srv /\ UNCHANGED <<conf, listeners>>
    BY <1>2, ServerTyped DEF Goto, Then
  <2>2. srv.keystore \in {"postgres", "tpm"} \/ in_memory_fallback_permitted
    BY <1>0 DEF GatesInv, KeystoreGated
  <2>3. srv.backup = "ephemeral" => in_memory_fallback_permitted
    BY DEF GatesInv, BackupGated
  <2>4. srv.kek = "random" => "KMS_DEV_MODE" \in conf.flags
    BY DEF GatesInv, KekGated
  <2>5. srv.pool = TRUE => srv.policies = "loaded"
    BY <1>0, Zenon DEF GatesInv, PoliciesLoaded
  <2>6. \A i, j \in DOMAIN conf.api_keys : i # j => conf.api_keys[i].secret # conf.api_keys[j].secret
    BY <1>0, <1>2, ConfiguredKeysApart
  <2>7. PICK s \in ServerParts : s = srv
    BY <2>1
  <2> QED
    BY <1>0, <2>1, <2>2, <2>3, <2>4, <2>5, <2>6, <2>7, GotoGates
<1> QED
  BY <1>1, <1>2 DEF load_api_keys

\* The listeners as the gates know them.
LEMMA ListenersTyped ==
    ASSUME GatesInv
    PROVE  /\ listeners \in [rest : ListenerStates, grpc : ListenerStates]
           /\ DOMAIN listeners = {"rest", "grpc"}
           /\ at \notin {"serving", "stopping"} => listeners.rest = "none" /\ listeners.grpc = "none"
  BY DEF GatesInv, StartupTypeOK, Idle

\* One listener changes, to plain text only if that was opted for.
LEMMA BecomesGates ==
    ASSUME GatesInv, at \in {"serving", "stopping"}, NEW l \in {"rest", "grpc"},
           NEW state \in ListenerStates, state = "plain" => is_insecure_opted_in, Becomes(l, state)
    PROVE  GatesInv'
<1>1. PICK ls \in [rest : ListenerStates, grpc : ListenerStates] : ls = [listeners EXCEPT ![l] = state]
  BY ListenersTyped
<1>2. /\ ls.rest \in {state, listeners.rest} /\ ls.grpc \in {state, listeners.grpc}
      /\ DOMAIN ls = {"rest", "grpc"}
  BY <1>1, ListenersTyped
<1>3. \A m \in DOMAIN ls : ls[m] = "plain" => is_insecure_opted_in
  BY <1>2, ListenersTyped DEF GatesInv, ListenersGated
<1>4. listeners' = ls /\ UNCHANGED <<conf, at, srv>>
  BY <1>1 DEF Becomes
<1> QED
  BY <1>3, <1>4, ListenerGates

\* gRPC without TLS is for those who opted for it.
LEMMA ListenGates ==
    ASSUME GatesInv, grpc_gate
    PROVE  GatesInv'
<1>1. CASE Refuse
  BY <1>1, DownGates DEF Refuse, Down
<1>2. CASE ~(conf.tls = "none" /\ ~is_insecure_opted_in)
  <2>1. /\ at = "listen" /\ at' = "serving" /\ UNCHANGED <<conf, srv>>
        /\ listeners' = [rest |-> "starting", grpc |-> "starting"]
    BY <1>2 DEF grpc_gate
  <2>2. PICK ls \in [rest : ListenerStates, grpc : ListenerStates] :
          ls = [rest |-> "starting", grpc |-> "starting"]
    BY DEF ListenerStates
  <2>3. \A l \in DOMAIN ls : ls[l] # "plain"
    BY <2>2
  <2> QED
    BY <1>2, <2>1, <2>2, <2>3, ListenerGates
<1> QED
  BY <1>1, <1>2 DEF grpc_gate

\* REST without TLS too, and inside its task.
LEMMA RestListenGates ==
    ASSUME GatesInv, rest_listen
    PROVE  GatesInv'
<1>1. at \in {"serving", "stopping"}
  BY ListenersTyped DEF rest_listen
<1>2. PICK state : state \in {RestOpens, "failed"} /\ Becomes("rest", state)
  BY DEF rest_listen
<1>3. RestOpens \in {Plain, "failed", "tls"}
  BY Zenon DEF RestOpens
<1>4. state \in ListenerStates /\ (state = "plain" => is_insecure_opted_in)
  BY <1>2, <1>3 DEF Plain, ListenerStates
<1> QED
  BY <1>1, <1>2, <1>4, BecomesGates

\* The gRPC gate was passed before its listener was spawned.
LEMMA GrpcListenGates ==
    ASSUME GatesInv, grpc_listen
    PROVE  GatesInv'
<1>1. at \in {"serving", "stopping"}
  BY ListenersTyped DEF grpc_listen
<1>2. PICK state : state \in {GrpcOpens, "failed"} /\ Becomes("grpc", state)
  BY DEF grpc_listen
<1>3. conf.tls # "none" \/ is_insecure_opted_in
  BY <1>1 DEF GatesInv, ListenersGated
<1>4. state \in ListenerStates /\ (state = "plain" => is_insecure_opted_in)
  BY <1>2, <1>3 DEF GrpcOpens, ListenerStates
<1> QED
  BY <1>1, <1>2, <1>4, BecomesGates

\* Stopping opens nothing.
LEMMA StopGates ==
    ASSUME GatesInv, Signal \/ rest_stops \/ grpc_stops \/ join \/ Kill
    PROVE  GatesInv'
<1>1. CASE Signal
  <2>1. /\ listeners \in [rest : ListenerStates, grpc : ListenerStates]
        /\ \A l \in DOMAIN listeners : listeners[l] = "plain" => is_insecure_opted_in
    BY ListenersTyped DEF GatesInv, ListenersGated
  <2>2. at = "serving" /\ at' = "stopping" /\ UNCHANGED <<conf, srv, listeners>>
    BY <1>1 DEF Signal
  <2> QED
    BY <2>1, <2>2, ListenerGates
<1>2. CASE rest_stops
  BY <1>2, BecomesGates DEF rest_stops, ListenerStates
<1>3. CASE grpc_stops
  BY <1>3, BecomesGates DEF grpc_stops, ListenerStates
<1>4. CASE Refuse
  BY <1>4, DownGates DEF Refuse, Down
<1> QED
  BY <1>1, <1>2, <1>3, <1>4 DEF join, Kill

\* The process starts with nothing built, whatever it is configured with.
LEMMA StartGates ==
    ASSUME GatesInv, NEW i \in DOMAIN Deployments, Start(Deployments[i])
    PROVE  GatesInv'
<1>1. at = "down" /\ at' \in {"down", "protect"} /\ UNCHANGED <<srv, listeners>> /\ conf' \in Confs
  BY DEF Start, Confs
<1>2. srv = Nothing /\ listeners = Idle
  BY <1>1 DEF GatesInv, StartupTypeOK
<1>3. CASE at' = "down"
  BY <1>1, <1>2, <1>3, DownGates
<1>4. CASE at' = "protect"
  <2>1. StartupTypeOK'
    BY <1>1, <1>2, <1>4 DEF GatesInv, StartupTypeOK, StartSteps
  <2>2. srv.backup = "none" /\ srv.kek = ""
    BY <1>2 DEF Nothing
  <2>3. \A l \in DOMAIN listeners : listeners[l] = "none"
    BY <1>2 DEF Idle
  <2>4. KeystoreGated' /\ BackupGated' /\ KekGated' /\ PoliciesLoaded' /\ ListenersGated' /\ KeysApart'
    BY <1>1, <1>4, <2>2, <2>3
       DEF KeystoreGated, BackupGated, KekGated, PoliciesLoaded, ListenersGated, KeysApart, Early
  <2> QED
    BY <2>1, <2>4 DEF GatesInv
<1> QED
  BY <1>1, <1>3, <1>4

\* Every step keeps the gates.
LEMMA GatesStep ==
    ASSUME GatesInv, StoredTypeOK, [StartupNext]_startupVars
    PROVE  GatesInv'
<1>1. CASE UNCHANGED startupVars \/ replica_load \/ replica_store
  <2>1. UNCHANGED <<conf, at, srv, listeners>>
    BY <1>1 DEF startupVars, replica_load, replica_store
  <2> QED
    BY <2>1, GatesStutter
<1>2. CASE \E i \in DOMAIN Deployments : Start(Deployments[i])
  BY <1>2, StartGates
<1> QED
  BY <1>1, <1>2, MemoryProtectionGates, SelfTestGates, AuditLogGates, PoolGates, PoliciesGates,
     Sm9Gates, BackupGates, KeystoreGates, ApiKeyGates, ListenGates, RestListenGates,
     GrpcListenGates, StopGates, Zenon DEF StartupNext

\* With the gates passed a server that serves is fail-closed.
LEMMA GatesMeanFailClosed ==
    ASSUME GatesInv
    PROVE  FailClosed
<1>1. SUFFICES ASSUME at = "serving" PROVE FailClosed
  BY DEF FailClosed
<1>2. srv.keystore \in {"postgres", "tpm"} \/ conf.allow_in_memory \/ is_insecure_opted_in
  BY <1>1, Zenon DEF GatesInv, KeystoreGated, in_memory_fallback_permitted
<1>3. srv.backup = "ephemeral" => conf.allow_in_memory \/ is_insecure_opted_in
  BY Zenon DEF GatesInv, BackupGated, in_memory_fallback_permitted
<1>4. srv.pool => srv.policies = "loaded"
  BY <1>1, Zenon DEF GatesInv, PoliciesLoaded, Early
<1>5. /\ srv.kek = "random" => "KMS_DEV_MODE" \in conf.flags
      /\ \A l \in DOMAIN listeners : listeners[l] = "plain" => is_insecure_opted_in
      /\ \A i, j \in DOMAIN conf.api_keys : i # j => conf.api_keys[i].secret # conf.api_keys[j].secret
  BY <1>1 DEF GatesInv, KekGated, ListenersGated, KeysApart
<1> QED
  BY <1>2, <1>3, <1>4, <1>5, Zenon DEF FailClosed

\* A step that neither loads nor stores an SM9 key.
LEMMA QuietKeeps ==
    ASSUME Sm9KeyInv, UNCHANGED <<row, replica, minted, keks, crossed>>,
           startFaults' \in {startFaults, startFaults + 1}, srv'.sm9 \in {0, srv.sm9}, at' # "sm9_store"
    PROVE  Sm9KeyInv'
<1>1. startFaults' \in Nat /\ (startFaults' = 0 => startFaults = 0)
  BY DEF Sm9KeyInv, StoredTypeOK
<1>2. StoredTypeOK' /\ RowSealed' /\ StoreInTime'
  BY <1>1 DEF Sm9KeyInv, StoredTypeOK, RowSealed, StoreInTime
<1>3. NothingYet' /\ MintedInVain'
  BY <1>1 DEF Sm9KeyInv, NothingYet, MintedInVain
<1>4. ReplicaInTime'
  BY Zenon DEF Sm9KeyInv, ReplicaInTime
<1>5. Sm9MasterKept'
  BY <1>1, Zenon DEF Sm9KeyInv, Sm9MasterKept
<1> QED
  BY <1>2, <1>3, <1>4, <1>5 DEF Sm9KeyInv

\* The steps that have nothing to do with the SM9 key are such steps.
LEMMA ElsewhereKeeps ==
    ASSUME Sm9KeyInv, GatesInv, StartupNext,
           ~sm9_in_memory, ~load_from_repository, ~store_to_repository, ~replica_load, ~replica_store
    PROVE  Sm9KeyInv'
<1> DEFINE Elsewhere == /\ UNCHANGED <<row, replica, minted, keks, crossed>>
                        /\ startFaults' \in {startFaults, startFaults + 1}
                        /\ srv'.sm9 \in {0, srv.sm9} /\ at' # "sm9_store"
<1> SUFFICES Elsewhere
  BY QuietKeeps
<1>0. srv \in ServerParts /\ Nothing.sm9 = 0
  BY ServerTyped DEF Nothing
<1>1. CASE Refuse /\ UNCHANGED others /\ (Fine \/ Fault)
  BY <1>0, <1>1 DEF Refuse, Down, stored, others, Fine, Fault
<1>2. CASE (\E i \in DOMAIN Deployments : Start(Deployments[i])) \/ Signal
  BY <1>2 DEF Start, Signal, stored, others
<1>3. CASE init_memory_protection \/ open_audit_log
  BY <1>0, <1>3 DEF init_memory_protection, open_audit_log, Goto, Then, stored, others, Fine, Fault, ServerParts
<1>4. CASE run_all_tests
  <2>1. UNCHANGED others /\ ((Refuse /\ Fault) \/ (Fine /\ Goto("audit", srv)))
    BY <1>4 DEF run_all_tests
  <2> QED
    BY <1>1, <2>1 DEF Goto, Then, stored, others, Fine
<1>5. CASE maybe_create_mfa_pool \/ load_persisted_policies
  <2>1. /\ UNCHANGED others /\ (Fine \/ Fault)
        /\ \/ Refuse
           \/ \E s \in {srv, [srv EXCEPT !.pool = TRUE], [srv EXCEPT !.policies = "loaded"],
                        [srv EXCEPT !.policies = "memory"]}, step \in {"policies", "sm9"} : Goto(step, s)
    BY <1>5, Zenon DEF maybe_create_mfa_pool, load_persisted_policies
  <2>2. CASE Refuse
    BY <1>1, <2>1, <2>2
  <2>3. CASE \E s \in {srv, [srv EXCEPT !.pool = TRUE], [srv EXCEPT !.policies = "loaded"],
                       [srv EXCEPT !.policies = "memory"]}, step \in {"policies", "sm9"} : Goto(step, s)
    BY <1>0, <2>1, <2>3 DEF Goto, Then, stored, others, Fine, Fault, ServerParts
  <2> QED
    BY <2>1, <2>2, <2>3
<1>6. CASE open_backup
  <2>1. /\ UNCHANGED others /\ (Fine \/ Fault)
        /\ \/ Refuse
           \/ /\ UNCHANGED row
              /\ \E s \in {srv, [srv EXCEPT !.backup = "persisted"], [srv EXCEPT !.backup = "ephemeral"]} :
                    Then("keystore", s)
    BY <1>6, Zenon DEF open_backup, Goto, stored
  <2>2. CASE Refuse
    BY <1>1, <2>1, <2>2
  <2>3. CASE /\ UNCHANGED row
             /\ \E s \in {srv, [srv EXCEPT !.backup = "persisted"], [srv EXCEPT !.backup = "ephemeral"]} :
                    Then("keystore", s)
    BY <1>0, <2>1, <2>3 DEF Then, others, Fine, Fault, ServerParts
  <2> QED
    BY <2>1, <2>2, <2>3
<1>7. CASE choose_keystore
  <2>1. PICK made \in BOOLEAN, connected \in BOOLEAN :
          IF connected /\ conf.backend = "tpm"
          THEN Fine /\ create_tpm_keystore([srv EXCEPT !.limiter = made])
          ELSE create_software_keystore([srv EXCEPT !.limiter = made])
    BY <1>7 DEF choose_keystore, Limiters
  <2>2. PICK s \in ServerParts : s = [srv EXCEPT !.limiter = made]
    BY ServerTyped, ServerPlus
  <2>3. s.sm9 = srv.sm9
    BY <1>0, <2>2 DEF ServerParts
  <2>4. /\ UNCHANGED others /\ (Fine \/ Fault)
        /\ Refuse \/ \E t \in {[s EXCEPT !.keystore = "postgres", !.kek = Kek]}
                        \cup {[s EXCEPT !.keystore = k] : k \in {"memory", "tpm", "tpm-sim"}} : Goto("keys", t)
    <3>1. CASE Fine /\ create_tpm_keystore(s)
      BY <1>7, <3>1 DEF create_tpm_keystore, choose_keystore
    <3>2. CASE create_software_keystore(s)
      BY <1>7, <3>2 DEF create_software_keystore, FallBack, choose_keystore
    <3> QED
      BY <2>1, <2>2, <3>1, <3>2, Zenon
  <2>5. CASE Refuse
    BY <1>1, <2>4, <2>5
  <2>6. CASE \E t \in {[s EXCEPT !.keystore = "postgres", !.kek = Kek]}
                        \cup {[s EXCEPT !.keystore = k] : k \in {"memory", "tpm", "tpm-sim"}} : Goto("keys", t)
    <3>1. PICK t \in {[s EXCEPT !.keystore = "postgres", !.kek = Kek]}
                        \cup {[s EXCEPT !.keystore = k] : k \in {"memory", "tpm", "tpm-sim"}} : Goto("keys", t)
      BY <2>6
    <3>2. t.sm9 = s.sm9
      BY <3>1 DEF ServerParts
    <3> QED
      BY <2>3, <2>4, <3>1, <3>2 DEF Goto, Then, stored, others, Fine, Fault
  <2> QED
    BY <2>4, <2>5, <2>6
<1>8. CASE load_api_keys \/ grpc_gate
  <2>1. UNCHANGED others /\ Fine /\ (Refuse \/ (UNCHANGED <<srv, stored>> /\ at' \in {"listen", "serving"}))
    BY <1>8 DEF load_api_keys, grpc_gate, Goto, Then
  <2> QED
    BY <1>1, <2>1 DEF stored, others, Fine
<1>9. CASE rest_listen \/ grpc_listen \/ rest_stops \/ grpc_stops
  <2>1. at # "sm9_store"
    BY <1>9, ListenersTyped DEF rest_listen, grpc_listen, rest_stops, grpc_stops
  <2>2. UNCHANGED <<at, srv, stored, others>> /\ (Fine \/ Fault)
    BY <1>9 DEF rest_listen, grpc_listen, rest_stops, grpc_stops, Becomes
  <2> QED
    BY <2>1, <2>2 DEF stored, others, Fine, Fault
<1>10. CASE join \/ Kill \/ generate_fails
  BY <1>1, <1>10 DEF join, Kill, generate_fails
<1> QED
  BY <1>1, <1>2, <1>3, <1>4, <1>5, <1>6, <1>7, <1>8, <1>9, <1>10, Zenon DEF StartupNext

\* The one KEK there was and that of this step, or that there were several.
LEMMA KeksCases ==
    ASSUME StoredTypeOK, NEW k
    PROVE  /\ KeksWith(k) \in {{k}, {"bad"}} /\ KeksWith(k) # {}
           /\ KeksWith(k) = {k} => keks = {} \/ keks = {k} \/ k = "bad"
           /\ keks = {"bad"} => KeksWith(k) = {"bad"}
           /\ \A r : keks = {r} => KeksWith(k) \in {{r}, {"bad"}}
<1>1. keks = {} \/ \E r \in keks : keks = {r}
  BY DEF StoredTypeOK
<1> QED
  BY <1>1 DEF KeksWith

\* A configured KEK names a KEK.
LEMMA ConfKekNamed ==
    ASSUME GatesInv, at # "down"
    PROVE  conf.kek \in KekNames
  BY DEF GatesInv, StartupTypeOK, KekNames

\* The key in memory is one of its own: a call has failed.
LEMMA InMemoryKeeps ==
    ASSUME Sm9KeyInv, GatesInv, sm9_in_memory
    PROVE  Sm9KeyInv'
<1>1. /\ minted' = minted + 1 /\ startFaults' = startFaults + 1 /\ keks' = KeksWith("memory")
      /\ UNCHANGED <<row, replica, crossed>> /\ at' = "backup"
  BY DEF sm9_in_memory, Fault, Goto, Then, stored
<1>2. StoredTypeOK /\ minted \in Nat /\ startFaults \in Nat
  BY DEF Sm9KeyInv, StoredTypeOK
<1>3. StoredTypeOK'
  BY <1>1, <1>2, KeksCases DEF StoredTypeOK
<1>4. RowSealed'
  BY <1>1, <1>2, KeksCases DEF Sm9KeyInv, RowSealed
<1>5. NothingYet' /\ StoreInTime' /\ MintedInVain'
  BY <1>1, <1>2, KeksCases DEF NothingYet, StoreInTime, MintedInVain
<1>6. ReplicaInTime'
  BY <1>1, Zenon DEF Sm9KeyInv, ReplicaInTime
<1>7. Sm9MasterKept'
  BY <1>1, <1>2 DEF Sm9MasterKept
<1> QED
  BY <1>3, <1>4, <1>5, <1>6, <1>7 DEF Sm9KeyInv

\* The key is loaded: it was stored under the one KEK there was.
LEMMA LoadedKeeps ==
    ASSUME Sm9KeyInv, GatesInv, load_from_repository, Loads(conf.kek), UNCHANGED <<startFaults, crossed>>,
           at' = "backup", srv' = [srv EXCEPT !.sm9 = row.key]
    PROVE  Sm9KeyInv'
<1>1. keks' = KeksWith(conf.kek) /\ UNCHANGED <<row, replica, minted>>
  BY DEF load_from_repository, Goto, stored
<1>2. StoredTypeOK /\ startFaults \in Nat
  BY DEF Sm9KeyInv, StoredTypeOK
<1>3. row.key # 0 /\ Usable(conf.kek) /\ row.kek = conf.kek
  BY DEF Loads
<1>4. keks \in {{row.kek}, {"bad"}} /\ Usable(row.kek)
  BY <1>3 DEF Sm9KeyInv, RowSealed
<1>5. StoredTypeOK'
  BY <1>1, <1>2, KeksCases DEF StoredTypeOK
<1>6. RowSealed' /\ NothingYet' /\ StoreInTime' /\ MintedInVain'
  BY <1>1, <1>2, <1>3, <1>4, KeksCases DEF RowSealed, NothingYet, StoreInTime, MintedInVain
<1>7. ReplicaInTime'
  BY <1>1, Zenon DEF Sm9KeyInv, ReplicaInTime
<1>8. srv'.sm9 = row.key
  BY ServerTyped DEF ServerParts
<1>9. Sm9MasterKept'
  <2>1. SUFFICES ASSUME startFaults = 0, ~crossed, NEW k \in keks', Usable(k), keks' = {k}
                 PROVE  row.key \in {0, 1}
    BY <1>1, <1>8, Zenon DEF Sm9MasterKept
  <2>2. keks = {row.kek}
    BY <1>1, <1>2, <1>4, <2>1, KeksCases DEF Usable
  <2> QED
    BY <1>4, <2>1, <2>2, Zenon DEF Sm9KeyInv, Sm9MasterKept
<1> QED
  BY <1>5, <1>6, <1>7, <1>9 DEF Sm9KeyInv

\* A counter that may have gone up by one: where it is zero it did not.
LEMMA CountsUp ==
    ASSUME NEW a \in Nat, NEW b \in {a, a + 1}
    PROVE  b \in Nat /\ (b = 0 => a = 0 /\ b = a)
  OBVIOUS

\* No key can be loaded: one will be generated and stored.
LEMMA NotLoadedKeeps ==
    ASSUME Sm9KeyInv, GatesInv, load_from_repository, startFaults' \in {startFaults, startFaults + 1},
           startFaults' = startFaults => ~Loads(conf.kek),
           at' = "sm9_store", UNCHANGED <<srv, conf>>, ~crossed' => ~crossed /\ replica = ""
    PROVE  Sm9KeyInv'
<1>1. keks' = KeksWith(conf.kek) /\ UNCHANGED <<row, replica, minted>>
  BY DEF load_from_repository, Goto, stored
<1>2. StoredTypeOK /\ startFaults \in Nat
  BY DEF Sm9KeyInv, StoredTypeOK
<1>9. startFaults' \in Nat /\ (startFaults' = 0 => startFaults = 0 /\ startFaults' = startFaults)
  BY <1>2, CountsUp, Zenon
<1>3. StoredTypeOK'
  BY <1>1, <1>2, <1>9, KeksCases DEF StoredTypeOK
<1>4. RowSealed' /\ NothingYet'
  BY <1>1, <1>2, KeksCases DEF Sm9KeyInv, RowSealed, NothingYet
<1>5. StoreInTime'
  <2>1. keks' \in {{conf.kek}, {"bad"}}
    BY <1>1, <1>2, KeksCases
  <2>2. startFaults' = 0 => ~Loads(conf.kek)'
    BY <1>1, <1>9 DEF Loads
  <2> QED
    BY <2>1, <2>2, Zenon DEF StoreInTime
<1>6. ReplicaInTime'
  BY <1>1, Zenon DEF Sm9KeyInv, ReplicaInTime
<1>7. MintedInVain'
  <2>1. SUFFICES ASSUME startFaults' = 0, minted # 0, row.key = 0
                 PROVE  keks' # {} /\ \A k \in keks' : ~Usable(k)
    BY <1>1, Zenon DEF MintedInVain
  <2>2. keks # {} /\ \A k \in keks : ~Usable(k)
    BY <1>9, <2>1, Zenon DEF Sm9KeyInv, MintedInVain
  <2>3. keks' = keks \/ keks' = {"bad"}
    BY <1>1, <1>2, <2>2, KeksCases
  <2> QED
    BY <2>2, <2>3 DEF Usable
<1>8. Sm9MasterKept'
  <2>1. SUFFICES ASSUME startFaults' = 0, ~crossed', NEW k \in keks', Usable(k), keks' = {k}
                 PROVE  srv.sm9 \in {0, row.key} /\ row.key \in {0, 1}
    BY <1>1, Zenon DEF Sm9MasterKept
  <2>2. startFaults = 0 /\ ~crossed
    BY <1>9, <2>1, Zenon
  <2>3. k = conf.kek /\ (keks = {} \/ keks = {k})
    BY <1>1, <1>2, <2>1, KeksCases DEF Usable
  <2>4. CASE keks = {}
    BY <2>4 DEF Sm9KeyInv, NothingYet
  <2>5. CASE keks = {k}
    BY <2>1, <2>2, <2>5, Zenon DEF Sm9KeyInv, Sm9MasterKept
  <2> QED
    BY <2>3, <2>4, <2>5
<1> QED
  BY <1>3, <1>4, <1>5, <1>6, <1>7, <1>8 DEF Sm9KeyInv

\* The new key is the first one when it becomes the stored one.
LEMMA FirstStored ==
    ASSUME StoredTypeOK, RowSealed, MintedInVain, startFaults = 0, NEW k, Usable(k), keks \subseteq {k},
           row.key = 0 \/ row.kek # k
    PROVE  minted = 0 /\ row.key = 0
<1>1. row.key = 0
  BY DEF RowSealed, Usable
<1> QED
  BY <1>1 DEF MintedInVain

\* The new key is stored, or not: then there was no usable KEK, or a call failed.
LEMMA StoreKeeps ==
    ASSUME Sm9KeyInv, GatesInv, store_to_repository
    PROVE  Sm9KeyInv'
<1>0. /\ at = "sm9_store" /\ minted' = minted + 1 /\ UNCHANGED <<replica, keks, crossed>> /\ at' = "backup"
      /\ srv' = [srv EXCEPT !.sm9 = minted'] /\ startFaults' \in {startFaults, startFaults + 1}
      /\ \/ Usable(conf.kek) /\ row' = Upserted(conf.kek) /\ startFaults' = startFaults
         \/ row' = row /\ (Usable(conf.kek) => startFaults' = startFaults + 1)
  BY DEF store_to_repository, Then, Fine, Fault
<1>1. StoredTypeOK /\ minted \in Nat /\ startFaults \in Nat /\ RowSealed /\ MintedInVain
  BY DEF Sm9KeyInv, StoredTypeOK
<1>2. keks \in {{conf.kek}, {"bad"}} /\ (~crossed /\ startFaults = 0 => ~Loads(conf.kek))
  BY <1>0 DEF Sm9KeyInv, StoreInTime
<1>10. startFaults' \in Nat /\ (startFaults' = 0 => startFaults = 0 /\ startFaults' # startFaults + 1)
  BY <1>0, <1>1
<1>11. row'.key = 0 => row' = row
  BY <1>0, <1>1 DEF Upserted
<1>3. conf.kek \in KekNames
  BY <1>0, ConfKekNamed
<1>4. StoredTypeOK'
  BY <1>0, <1>1, <1>3 DEF StoredTypeOK, Upserted
<1>5. RowSealed' /\ NothingYet' /\ StoreInTime'
  BY <1>0, <1>1, <1>2 DEF RowSealed, NothingYet, StoreInTime, Upserted
<1>6. ReplicaInTime'
  <2>1. replica # "" => crossed
    BY <1>0, Zenon DEF Sm9KeyInv, ReplicaInTime
  <2> QED
    BY <1>0, <2>1, Zenon DEF Sm9KeyInv, ReplicaInTime
<1>7. MintedInVain'
  <2>1. SUFFICES ASSUME startFaults' = 0, row'.key = 0 PROVE keks # {} /\ \A k \in keks : ~Usable(k)
    BY <1>0, Zenon DEF MintedInVain
  <2>2. ~Usable(conf.kek)
    BY <1>0, <1>1, <1>10, <2>1 DEF Upserted
  <2> QED
    BY <1>2, <2>2 DEF Usable
<1>8. srv'.sm9 = minted + 1
  BY <1>0, <1>1, ServerTyped DEF ServerParts
<1>9. Sm9MasterKept'
  <2>1. SUFFICES ASSUME startFaults' = 0, ~crossed, NEW k \in keks, Usable(k), keks = {k}
                 PROVE  srv'.sm9 \in {0, row'.key} /\ row'.key \in {0, 1}
    BY <1>0, Zenon DEF Sm9MasterKept
  <2>2. startFaults = 0 /\ k = conf.kek /\ row' = Upserted(conf.kek)
    <3>1. k = conf.kek
      BY <1>2, <2>1 DEF Usable
    <3>2. startFaults = 0
      BY <1>10, <2>1
    <3> QED
      BY <1>0, <1>10, <2>1, <3>1, <3>2
  <2>3. row.key = 0 \/ row.kek # k
    BY <1>2, <2>1, <2>2 DEF Loads
  <2>4. minted = 0
    BY <1>1, <2>1, <2>2, <2>3, FirstStored
  <2>5. row'.key = minted + 1
    BY <2>2 DEF Upserted
  <2> QED
    BY <1>8, <2>4, <2>5
<1> QED
  BY <1>4, <1>5, <1>6, <1>7, <1>9 DEF Sm9KeyInv

\* Another server finds no key it can load.
LEMMA ReplicaLoadKeeps ==
    ASSUME Sm9KeyInv, GatesInv, replica_load
    PROVE  Sm9KeyInv'
<1>0. /\ at # "down" /\ replica = "" /\ ~Loads(conf.kek) /\ Usable(conf.kek) /\ replica' = conf.kek
      /\ UNCHANGED <<conf, at, srv, row, minted, startFaults, keks>>
  BY DEF replica_load, stored
<1>1. (crossed => crossed') /\ (~crossed' => at # "sm9_store")
  BY Zenon DEF replica_load
<1>2. conf.kek \in KekNames
  BY <1>0, ConfKekNamed
<1>3. StoredTypeOK' /\ RowSealed' /\ NothingYet' /\ MintedInVain'
  BY <1>0, <1>2 DEF Sm9KeyInv, StoredTypeOK, RowSealed, NothingYet, MintedInVain
<1>4. StoreInTime'
  BY <1>0, <1>1, Zenon DEF Sm9KeyInv, StoreInTime, Loads
<1>5. ReplicaInTime'
  BY <1>0, <1>1, Zenon DEF ReplicaInTime, Loads
<1>6. Sm9MasterKept'
  BY <1>0, <1>1, Zenon DEF Sm9KeyInv, Sm9MasterKept
<1> QED
  BY <1>3, <1>4, <1>5, <1>6 DEF Sm9KeyInv

\* Another server stores the key it has generated.
LEMMA ReplicaStoreKeeps ==
    ASSUME Sm9KeyInv, GatesInv, replica_store
    PROVE  Sm9KeyInv'
<1>0. /\ replica # "" /\ replica' = "" /\ minted' = minted + 1 /\ row' = Upserted(replica)
      /\ keks' = KeksWith(replica) /\ UNCHANGED <<conf, at, srv, startFaults, crossed>>
  BY DEF replica_store
<1>1. StoredTypeOK /\ minted \in Nat /\ startFaults \in Nat /\ replica \in KekNames /\ RowSealed /\ MintedInVain
  BY DEF Sm9KeyInv, StoredTypeOK
<1>2. Usable(replica) /\ (~crossed => at # "sm9_store" /\ (row.key = 0 \/ row.kek # replica))
  BY <1>0, Zenon DEF Sm9KeyInv, ReplicaInTime
<1>3. StoredTypeOK'
  <2>1. "" \in KekNames
    BY DEF KekNames
  <2> QED
    <3>1. minted + 1 \in Nat
      BY <1>1
    <3>2. row' \in [key : Nat, kek : KekNames]
      BY <1>0, <1>1, <3>1 DEF Upserted
    <3>3. keks' = {} \/ \E k \in keks' : keks' = {k}
      BY <1>0, <1>1, KeksCases
    <3> QED
      BY <1>0, <1>1, <2>1, <3>1, <3>2, <3>3 DEF StoredTypeOK
<1>4. RowSealed' /\ NothingYet' /\ MintedInVain'
  BY <1>0, <1>1, <1>2, KeksCases DEF RowSealed, NothingYet, MintedInVain, Upserted
<1>5. StoreInTime'
  <2>1. SUFFICES ASSUME at = "sm9_store" PROVE keks' \in {{conf.kek}, {"bad"}} /\ crossed
    BY <1>0, Zenon DEF StoreInTime
  <2>2. crossed
    BY <1>2, <2>1, Zenon
  <2>3. keks \in {{conf.kek}, {"bad"}}
    BY <2>1 DEF Sm9KeyInv, StoreInTime
  <2>4. keks' \in {{conf.kek}, {"bad"}}
    BY <1>0, <1>1, <2>3, KeksCases
  <2> QED
    BY <2>2, <2>4
<1>6. ReplicaInTime'
  BY <1>0 DEF ReplicaInTime
<1>7. Sm9MasterKept'
  <2>1. SUFFICES ASSUME startFaults = 0, ~crossed, NEW k \in keks', Usable(k), keks' = {k}
                 PROVE  srv.sm9 \in {0, row'.key} /\ row'.key \in {0, 1}
    BY <1>0, Zenon DEF Sm9MasterKept
  <2>2. k = replica /\ (keks = {} \/ keks = {k})
    BY <1>0, <1>1, <1>2, <2>1, KeksCases DEF Usable
  <2>3. row.key = 0 \/ row.kek # k
    BY <1>2, <2>1, <2>2, Zenon
  <2>4. minted = 0 /\ row.key = 0
    BY <1>1, <2>1, <2>2, <2>3, FirstStored
  <2>5. srv.sm9 = 0
    <3>1. CASE keks = {}
      BY <3>1 DEF Sm9KeyInv, NothingYet
    <3>2. CASE keks = {k}
      <4>1. srv.sm9 \in {0, row.key}
        BY <2>1, <3>2, Zenon DEF Sm9KeyInv, Sm9MasterKept
      <4> QED
        BY <2>4, <4>1
    <3> QED
      BY <2>2, <3>1, <3>2
  <2>6. row'.key = minted + 1
    BY <1>0 DEF Upserted
  <2> QED
    BY <2>4, <2>5, <2>6
<1> QED
  BY <1>3, <1>4, <1>5, <1>6, <1>7 DEF Sm9KeyInv

\* Both ways the load can end.
LEMMA LoadKeeps ==
    ASSUME Sm9KeyInv, GatesInv, load_from_repository
    PROVE  Sm9KeyInv'
<1>1. CASE Loads(conf.kek) /\ Fine /\ Goto("backup", [srv EXCEPT !.sm9 = row.key]) /\ UNCHANGED crossed
  BY <1>1, LoadedKeeps DEF Fine, Goto, Then
<1>2. CASE /\ (~Loads(conf.kek) /\ Fine) \/ (Loads(conf.kek) /\ Fault)
           /\ Goto("sm9_store", srv)
           /\ crossed' = (crossed \/ replica # "")
  <2>1. startFaults' \in {startFaults, startFaults + 1} /\ (startFaults' = startFaults => ~Loads(conf.kek))
    <3>1. startFaults \in Nat
      BY DEF Sm9KeyInv, StoredTypeOK
    <3>2. CASE ~Loads(conf.kek) /\ Fine
      BY <3>2 DEF Fine
    <3>3. CASE Loads(conf.kek) /\ Fault
      BY <3>1, <3>3 DEF Fault
    <3> QED
      BY <1>2, <3>2, <3>3
  <2>2. ~crossed' => ~crossed /\ replica = ""
    BY <1>2, Zenon
  <2>3. at' = "sm9_store" /\ UNCHANGED <<srv, conf>>
    BY <1>2 DEF Goto, Then
  <2> QED
    BY <2>1, <2>2, <2>3, NotLoadedKeeps
<1> QED
  BY <1>1, <1>2, Zenon DEF load_from_repository

\* Every step keeps the invariant of the SM9 key.
LEMMA Sm9KeyStep ==
    ASSUME Sm9KeyInv, GatesInv, [StartupNext]_startupVars
    PROVE  Sm9KeyInv'
<1>1. CASE UNCHANGED startupVars
  <2>1. UNCHANGED <<conf, at, srv, row, replica, minted, keks, crossed, startFaults>>
    BY <1>1 DEF startupVars
  <2>2. StoredTypeOK' /\ RowSealed' /\ NothingYet' /\ MintedInVain'
    BY <2>1 DEF Sm9KeyInv, StoredTypeOK, RowSealed, NothingYet, MintedInVain
  <2>3. StoreInTime' /\ ReplicaInTime' /\ Sm9MasterKept'
    BY <2>1, Zenon DEF Sm9KeyInv, StoreInTime, ReplicaInTime, Sm9MasterKept, Loads
  <2> QED
    BY <2>2, <2>3 DEF Sm9KeyInv
<1> QED
  BY <1>1, ElsewhereKeeps, InMemoryKeeps, LoadKeeps, StoreKeeps, ReplicaLoadKeeps, ReplicaStoreKeeps, Zenon

\* A database that was just made.
LEMMA StartupInitial ==
    ASSUME StartupInit
    PROVE  GatesInv /\ Sm9KeyInv
<1>1. /\ Nothing \in ServerParts /\ Nothing.backup = "none" /\ Nothing.kek = "" /\ Nothing.sm9 = 0
  BY DEF Nothing, ServerParts, KekNames
<1>2. /\ Idle \in [rest : ListenerStates, grpc : ListenerStates]
      /\ \A l \in DOMAIN Idle : Idle[l] = "none"
  BY DEF Idle, ListenerStates
<1>3. at = "down" /\ srv = Nothing /\ listeners = Idle
  BY DEF StartupInit
<1>4. /\ row = [key |-> 0, kek |-> ""] /\ replica = "" /\ minted = 0 /\ startFaults = 0 /\ keks = {}
  BY DEF StartupInit
<1> HIDE DEF Nothing, Idle
<1>5. StartupTypeOK
  BY <1>1, <1>2, <1>3 DEF StartupTypeOK, StartSteps
<1>6. KeystoreGated /\ BackupGated /\ KekGated /\ PoliciesLoaded /\ ListenersGated /\ KeysApart
  BY <1>1, <1>2, <1>3 DEF KeystoreGated, BackupGated, KekGated, PoliciesLoaded, ListenersGated, KeysApart, Early
<1>7. StoredTypeOK
  BY <1>4 DEF StoredTypeOK, KekNames
<1>8. RowSealed /\ NothingYet /\ StoreInTime /\ ReplicaInTime /\ MintedInVain /\ Sm9MasterKept
  BY <1>1, <1>3, <1>4 DEF RowSealed, NothingYet, StoreInTime, ReplicaInTime, MintedInVain, Sm9MasterKept
<1> QED
  BY <1>5, <1>6, <1>7, <1>8 DEF GatesInv, Sm9KeyInv

\* A server starts securely or not at all, whatever fails on the way and however
\* often it is started; and without a failing call, a second KEK or two servers
\* generating at once it keeps the SM9 master key it stored first.
THEOREM StartupStaysSound == StartupSpec => []StartupSound
<1>1. StartupInit => GatesInv /\ Sm9KeyInv
  BY StartupInitial
<1>2. GatesInv /\ Sm9KeyInv /\ [StartupNext]_startupVars => (GatesInv /\ Sm9KeyInv)'
  BY GatesStep, Sm9KeyStep DEF Sm9KeyInv
<1>3. GatesInv /\ Sm9KeyInv => StartupSound
  BY GatesMeanFailClosed DEF StartupSound, Sm9KeyInv
<1> QED
  BY <1>1, <1>2, <1>3, PTL DEF StartupSpec

-----------------------------------------------------------------------------
(* Audit delivery.                                                         *)

AuditEntry == [event : Nat, sequence : Nat, previous : Nat, key : Nat, stamp : Seq(Nat)]

\* What a call has in hand in each of its steps.
LogCall ==
    [at : {"idle", "flush"}, entry : {<<>>}, batch : {<<>>}]
    \cup [at : {"link", "stamp", "sign", "push"}, entry : AuditEntry, batch : {<<>>}]
    \cup [at : {"file", "stdout"}, entry : {<<>>}, batch : Seq(AuditEntry) \ {<<>>}]

TsaSet(Flag, Number, Stamp) ==
    [asked : Flag, head : Number, current : Stamp, requests : Number, successes : Number,
     failures : Number, polls : Number, granted : Flag]

DeliveryShape ==
    /\ logger \in [kind : {"plain", "signed", "timestamped"}, kafka : BOOLEAN, key : Nat,
                   keyFile : {"unset", "good", "short"}]
    /\ buffer \in Seq(AuditEntry)
    /\ chain \in [sequence : Nat, previous : Nat]
    /\ calls \in [LogCallers -> LogCall]
    /\ lines \in [file : Seq(AuditEntry), stdout : Seq(AuditEntry), topic : Seq(AuditEntry)]
    /\ tsa \in TsaSet(BOOLEAN, Nat, Seq(Nat))
    /\ archive \in [copies : SUBSET Seq(AuditEntry), uploads : Nat, age : Nat]
    /\ used \in [faults : Nat, events : Nat, stopped : BOOLEAN]

\* Entries a call has in hand.
InHand(call) == IF call.at \in {"link", "stamp", "sign", "push"} THEN {call.entry} ELSE ToSet(call.batch)
Held(c) == InHand(calls[c])

Apart(S, T) == \A x \in S, y \in T : x.event # y.event
Once(seq) == \A i, j \in 1 .. Len(seq) : i # j => seq[i].event # seq[j].event

OnceEach ==
    /\ Once(buffer) /\ Once(lines.file) /\ Once(lines.stdout) /\ Once(lines.topic)
    /\ \A c \in LogCallers : Once(calls[c].batch)
    /\ \A copy \in archive.copies : Once(copy)

\* No event is in two places; what is on the topic has left the buffer and the
\* callers.
OnePlace ==
    /\ Apart(ToSet(buffer), ToSet(lines.file) \cup ToSet(lines.stdout) \cup ToSet(lines.topic))
    /\ Apart(ToSet(lines.file), ToSet(lines.stdout))
    /\ \A c \in LogCallers :
          /\ Apart(Held(c), ToSet(buffer) \cup ToSet(lines.file) \cup ToSet(lines.stdout) \cup ToSet(lines.topic))
          /\ \A d \in LogCallers \ {c} : Apart(Held(c), Held(d))

Written == ToSet(lines.file) \cup ToSet(lines.stdout) \cup ToSet(lines.topic)
AllHeld == UNION {Held(c) : c \in LogCallers}
AllCopied == UNION {ToSet(copy) : copy \in archive.copies}
AllEntries == ToSet(buffer) \cup Written \cup AllHeld \cup AllCopied

EventsKnown == \A x \in AllEntries : x.event \in 1 .. used.events

\* Where an event is found, or that it is lost.
Somewhere ==
    \A e \in 1 .. used.events :
        \/ e \in lost
        \/ \E x \in ToSet(buffer) \cup ToSet(lines.file) \cup ToSet(lines.stdout) \cup AllHeld \cup AllCopied : x.event = e

\* Under a key of one process the numbers tell entries apart.
NumbersTell ==
    logger.kind # "plain" /\ logger.keyFile # "good" =>
        \A x \in AllEntries :
            /\ x.key <= logger.key
            /\ x.key = logger.key => x.sequence < chain.sequence
            /\ \A y \in AllEntries : x.event # y.event /\ x.key = y.key => x.sequence # y.sequence

DeliveryInv ==
    /\ DeliveryShape /\ OnceEach /\ OnePlace /\ EventsKnown /\ Somewhere /\ NumbersTell
    /\ FullIsFlushed /\ TsaCounted

\* What is behind the last entry.
LEMMA AppendedEntry ==
    ASSUME NEW seq \in Seq(AuditEntry), NEW x \in AuditEntry
    PROVE  /\ Append(seq, x) \in Seq(AuditEntry)
           /\ ToSet(Append(seq, x)) = ToSet(seq) \cup {x}
           /\ Once(seq) /\ Apart({x}, ToSet(seq)) => Once(Append(seq, x))
<1>1. PICK n \in Nat : n = Len(seq) /\ DOMAIN seq = 1..n
  OBVIOUS
<1>2. /\ Append(seq, x) \in Seq(AuditEntry) /\ Len(Append(seq, x)) = n + 1
      /\ Append(seq, x)[n + 1] = x /\ \A i \in 1..n : Append(seq, x)[i] = seq[i]
  BY <1>1, AppendProperties
<1>3. PICK s \in Seq(AuditEntry) : s = Append(seq, x)
  BY <1>2
<1>4. Len(s) = n + 1 /\ DOMAIN s = 1..(n + 1) /\ s[n + 1] = x /\ \A i \in 1..n : s[i] = seq[i]
  BY <1>2, <1>3
<1>5. ToSet(s) = ToSet(seq) \cup {x}
  BY <1>1, <1>4 DEF ToSet
<1>6. ASSUME Once(seq), Apart({x}, ToSet(seq)) PROVE Once(s)
  <2>1. SUFFICES ASSUME NEW i \in 1..(n + 1), NEW j \in 1..(n + 1), i # j PROVE s[i].event # s[j].event
    BY <1>4 DEF Once
  <2>2. CASE i \in 1..n /\ j \in 1..n
    BY <1>1, <1>4, <1>6, <2>1, <2>2 DEF Once
  <2>3. CASE i = n + 1 /\ j \in 1..n
    BY <1>1, <1>4, <1>6, <2>3 DEF Apart, ToSet
  <2>4. CASE j = n + 1 /\ i \in 1..n
    BY <1>1, <1>4, <1>6, <2>4 DEF Apart, ToSet
  <2> QED
    BY <2>1, <2>2, <2>3, <2>4
<1> QED
  BY <1>3, <1>5, <1>6

\* The first entry and the others.
LEMMA FirstEntry ==
    ASSUME NEW seq \in Seq(AuditEntry), seq # <<>>
    PROVE  /\ Head(seq) \in AuditEntry /\ Tail(seq) \in Seq(AuditEntry)
           /\ ToSet(seq) = {Head(seq)} \cup ToSet(Tail(seq))
           /\ Once(seq) => Once(Tail(seq)) /\ Apart({Head(seq)}, ToSet(Tail(seq)))
<1>1. PICK n \in Nat : n = Len(seq) /\ DOMAIN seq = 1..n /\ n # 0
  OBVIOUS
<1>2. Head(seq) \in AuditEntry /\ Head(seq) = seq[1]
  BY <1>1
<1>3. PICK s \in Seq(AuditEntry) : s = Tail(seq)
  BY HeadTailProperties
<1>4. Len(s) = n - 1 /\ DOMAIN s = 1..(n - 1) /\ \A i \in 1..(n - 1) : s[i] = seq[i + 1]
  BY <1>1, <1>3
<1>5. ToSet(seq) = {Head(seq)} \cup ToSet(s)
  <2>1. \A i \in 1..n : i = 1 \/ (i - 1 \in 1..(n - 1) /\ seq[i] = s[i - 1])
    BY <1>4
  <2>2. \A i \in 1..(n - 1) : i + 1 \in 1..n /\ s[i] = seq[i + 1]
    BY <1>4
  <2>3. 1 \in 1..n
    BY <1>1
  <2>4. ASSUME NEW i \in 1..n PROVE seq[i] = Head(seq) \/ seq[i] \in ToSet(s)
    BY <1>2, <1>4, <2>1 DEF ToSet
  <2>5. ToSet(s) \subseteq ToSet(seq)
    BY <1>1, <1>4, <2>2 DEF ToSet
  <2>6. Head(seq) \in ToSet(seq)
    BY <1>1, <1>2, <2>3 DEF ToSet
  <2>7. ToSet(seq) \subseteq {Head(seq)} \cup ToSet(s)
    BY <1>1, <2>4 DEF ToSet
  <2> QED
    BY <2>5, <2>6, <2>7
<1>6. ASSUME Once(seq) PROVE Once(s) /\ Apart({Head(seq)}, ToSet(s))
  <2>1. \A i \in 1..(n - 1) : i + 1 \in 1..n /\ 1 \in 1..n /\ i + 1 # 1
    BY <1>1
  <2>2. Apart({Head(seq)}, ToSet(s))
    BY <1>1, <1>2, <1>4, <1>6, <2>1 DEF Once, Apart, ToSet
  <2>3. Once(s)
    BY <1>1, <1>4, <1>6, <2>1 DEF Once
  <2> QED
    BY <2>2, <2>3
<1> QED
  BY <1>2, <1>3, <1>5, <1>6

\* No entries at all.
LEMMA NoEntries ==
    /\ <<>> \in Seq(AuditEntry) /\ ToSet(<<>>) = {} /\ Once(<<>>) /\ NoEntry \in LogCall /\ InHand(NoEntry) = {}
<1>1. <<>> \in Seq(AuditEntry) /\ DOMAIN <<>> = {} /\ Len(<<>>) = 0
  OBVIOUS
<1>2. ToSet(<<>>) = {} /\ Once(<<>>)
  BY <1>1 DEF ToSet, Once
<1> QED
  BY <1>1, <1>2 DEF NoEntry, LogCall, InHand

\* What a call has in hand is what it is in flight with.
LEMMA HandIsInFlight ==
    ASSUME DeliveryShape, NEW c \in LogCallers
    PROVE  /\ Held(c) \in SUBSET AuditEntry
           /\ InFlight(c) = {x.event : x \in Held(c)}
<1>1. PICK q \in LogCall : q = calls[c]
  BY DEF DeliveryShape
<1>2. \A r \in AuditEntry : r # <<>>
  <2>1. \A r \in AuditEntry : DOMAIN r = {"event", "sequence", "previous", "key", "stamp"}
    BY DEF AuditEntry
  <2>2. DOMAIN <<>> = {}
    OBVIOUS
  <2> QED
    BY <2>1, <2>2
<1>3. CASE q.at \in {"link", "stamp", "sign", "push"}
  <2>1. q.entry \in AuditEntry /\ q.batch = <<>>
    BY <1>3 DEF LogCall
  <2> QED
    BY <1>1, <1>2, <1>3, <2>1, NoEntries DEF Held, InHand, InFlight
<1>4. CASE q.at \notin {"link", "stamp", "sign", "push"}
  <2>1. q.entry = <<>> /\ q.batch \in Seq(AuditEntry)
    BY <1>4, NoEntries DEF LogCall
  <2>2. ToSet(q.batch) \in SUBSET AuditEntry
    BY <2>1 DEF ToSet
  <2> QED
    BY <1>1, <1>4, <2>1, <2>2 DEF Held, InHand, InFlight
<1> QED
  BY <1>3, <1>4

\* The entries that are anywhere.
LEMMA EntriesAre ==
    ASSUME DeliveryShape
    PROVE  /\ AllEntries \in SUBSET AuditEntry
           /\ ToSet(buffer) \in SUBSET AuditEntry /\ ToSet(lines.file) \in SUBSET AuditEntry
           /\ ToSet(lines.stdout) \in SUBSET AuditEntry /\ ToSet(lines.topic) \in SUBSET AuditEntry
<1>1. \A seq \in Seq(AuditEntry) : ToSet(seq) \in SUBSET AuditEntry
  BY DEF ToSet
<1>2. /\ ToSet(buffer) \in SUBSET AuditEntry /\ ToSet(lines.file) \in SUBSET AuditEntry
      /\ ToSet(lines.stdout) \in SUBSET AuditEntry /\ ToSet(lines.topic) \in SUBSET AuditEntry
  BY <1>1 DEF DeliveryShape
<1>3. AllCopied \in SUBSET AuditEntry
  BY <1>1 DEF DeliveryShape, AllCopied
<1>4. AllHeld \in SUBSET AuditEntry
  BY HandIsInFlight DEF AllHeld
<1> QED
  BY <1>2, <1>3, <1>4 DEF AllEntries, Written

\* A step of one call leaves the others what they have in hand.
LEMMA OthersKeepTheirs ==
    ASSUME DeliveryShape, NEW c \in LogCallers, NEW q \in LogCall, calls' = [calls EXCEPT ![c] = q]
    PROVE  /\ calls' \in [LogCallers -> LogCall] /\ calls'[c] = q /\ Held(c)' = InHand(q)
           /\ \A d \in LogCallers \ {c} : calls'[d] = calls[d] /\ Held(d)' = Held(d)
           /\ AllHeld' \subseteq AllHeld \cup InHand(q) /\ AllHeld \subseteq AllHeld' \cup Held(c)
<1>1. /\ calls' \in [LogCallers -> LogCall] /\ calls'[c] = q /\ \A d \in LogCallers \ {c} : calls'[d] = calls[d]
  BY DEF DeliveryShape
<1>2. Held(c)' = InHand(q) /\ \A d \in LogCallers \ {c} : Held(d)' = Held(d)
  BY <1>1 DEF Held
<1>3. AllHeld' \subseteq AllHeld \cup InHand(q) /\ AllHeld \subseteq AllHeld' \cup Held(c)
  BY <1>2 DEF AllHeld
<1> QED
  BY <1>1, <1>2, <1>3

\* Entries that are in no more than other places keep what is known of them.
LEMMA NumbersStay ==
    ASSUME DeliveryInv, logger' = logger, chain'.sequence = chain.sequence, used'.events = used.events,
           \A x \in AllEntries' : \E y \in AllEntries : x.event = y.event /\ x.sequence = y.sequence /\ x.key = y.key
    PROVE  EventsKnown' /\ NumbersTell'
<1>1. EventsKnown'
  BY DEF DeliveryInv, EventsKnown
<1>2. SUFFICES ASSUME logger.kind # "plain", logger.keyFile # "good", NEW x \in AllEntries'
               PROVE  /\ x.key <= logger.key
                      /\ x.key = logger.key => x.sequence < chain.sequence
                      /\ \A y \in AllEntries' : x.event # y.event /\ x.key = y.key => x.sequence # y.sequence
  BY <1>1 DEF NumbersTell
<1>3. PICK w \in AllEntries : x.event = w.event /\ x.sequence = w.sequence /\ x.key = w.key
  OBVIOUS
<1>4. /\ w.key <= logger.key /\ (w.key = logger.key => w.sequence < chain.sequence)
      /\ \A y \in AllEntries : w.event # y.event /\ w.key = y.key => w.sequence # y.sequence
  BY <1>2 DEF DeliveryInv, NumbersTell
<1>5. ASSUME NEW y \in AllEntries', x.event # y.event, x.key = y.key PROVE x.sequence # y.sequence
  <2>1. PICK v \in AllEntries : y.event = v.event /\ y.sequence = v.sequence /\ y.key = v.key
    OBVIOUS
  <2> QED
    BY <1>3, <1>4, <1>5, <2>1
<1> QED
  BY <1>3, <1>4, <1>5

\* Nothing that is kept of the events changes.
LEMMA EntriesStay ==
    ASSUME DeliveryInv, UNCHANGED <<logger, buffer, chain, calls, lines, lost>>, archive'.copies = archive.copies,
           used'.events = used.events
    PROVE  OnceEach' /\ OnePlace' /\ EventsKnown' /\ Somewhere' /\ NumbersTell' /\ FullIsFlushed'
<1>1. \A c \in LogCallers : Held(c)' = Held(c)
  BY DEF Held
<1>2. AllHeld' = AllHeld /\ AllCopied' = AllCopied /\ Written' = Written
  BY <1>1 DEF AllHeld, AllCopied, Written
<1>3. AllEntries' = AllEntries
  BY <1>2 DEF AllEntries
<1>4. EventsKnown' /\ NumbersTell'
  BY <1>3, NumbersStay
<1>5. OnceEach'
  BY DEF DeliveryInv, OnceEach
<1>6. OnePlace'
  BY <1>1 DEF DeliveryInv, OnePlace
<1>7. Somewhere'
  BY <1>2 DEF DeliveryInv, Somewhere
<1>8. FullIsFlushed'
  BY DEF DeliveryInv, FullIsFlushed, backlog_depth
<1> QED
  BY <1>4, <1>5, <1>6, <1>7, <1>8

\* What the task counts stays of its kind.
LEMMA TsaAsked ==
    ASSUME NEW t \in TsaSet(BOOLEAN, Nat, Seq(Nat)), NEW h \in Nat
    PROVE  [t EXCEPT !.asked = TRUE, !.head = h, !.requests = @ + 1, !.polls = @ + 1] \in TsaSet(BOOLEAN, Nat, Seq(Nat))
<1>1. ASSUME NEW B, NEW N, NEW Q, NEW u \in TsaSet(B, N, Q), NEW b \in B, NEW n \in N, NEW r \in N, NEW p \in N
      PROVE  [u EXCEPT !.asked = b, !.head = n, !.requests = r, !.polls = p] \in TsaSet(B, N, Q)
  BY DEF TsaSet
<1>2. t.requests + 1 \in Nat /\ t.polls + 1 \in Nat
  BY DEF TsaSet
<1> QED
  BY <1>1, <1>2

\* The same for an answer.
LEMMA TsaAnswered ==
    ASSUME NEW t \in TsaSet(BOOLEAN, Nat, Seq(Nat)), NEW g \in BOOLEAN, NEW now \in Seq(Nat),
           NEW p \in {0, 1}, NEW f \in {0, 1}
    PROVE  [t EXCEPT !.asked = FALSE, !.granted = g, !.current = now, !.successes = @ + p, !.failures = @ + f]
             \in TsaSet(BOOLEAN, Nat, Seq(Nat))
<1>1. ASSUME NEW B, NEW N, NEW Q, NEW u \in TsaSet(B, N, Q), NEW b \in B, NEW h \in B, NEW q \in Q, NEW r \in N, NEW k \in N
      PROVE  [u EXCEPT !.asked = b, !.granted = h, !.current = q, !.successes = r, !.failures = k] \in TsaSet(B, N, Q)
  BY DEF TsaSet
<1>2. t.successes + p \in Nat /\ t.failures + f \in Nat
  BY DEF TsaSet
<1> QED
  BY <1>1, <1>2

\* The task of the timestamping authority asks.
LEMMA TsaTickKeeps == ASSUME DeliveryInv, TsaTick PROVE DeliveryInv'
<1>1. /\ UNCHANGED <<logger, buffer, chain, calls, lines, lost, archive, used>> /\ ~tsa.asked
      /\ tsa' = [tsa EXCEPT !.asked = TRUE, !.head = chain.previous, !.requests = @ + 1, !.polls = @ + 1]
  BY DEF TsaTick, get_chain_head
<1>2. chain.previous \in Nat /\ DeliveryShape /\ TsaCounted
  BY DEF DeliveryInv, DeliveryShape
<1>3. PICK t : t = tsa
  OBVIOUS
<1>4. t \in TsaSet(BOOLEAN, Nat, Seq(Nat)) /\ t.requests = t.successes + t.failures + 0
  BY <1>1, <1>2, <1>3 DEF DeliveryShape, TsaCounted
<1>5. PICK u : u = [t EXCEPT !.asked = TRUE, !.head = chain.previous, !.requests = @ + 1, !.polls = @ + 1]
  OBVIOUS
<1>6. /\ u \in TsaSet(BOOLEAN, Nat, Seq(Nat))
      /\ u.asked /\ u.requests = t.requests + 1 /\ u.successes = t.successes /\ u.failures = t.failures
  <2>1. u \in TsaSet(BOOLEAN, Nat, Seq(Nat))
    BY <1>2, <1>4, <1>5, TsaAsked
  <2>2. u.asked
    BY <1>4, <1>5 DEF TsaSet
  <2>3. u.requests = t.requests + 1
    BY <1>4, <1>5 DEF TsaSet
  <2>4. u.successes = t.successes /\ u.failures = t.failures
    BY <1>4, <1>5 DEF TsaSet
  <2> QED
    BY <2>1, <2>2, <2>3, <2>4
<1>7. tsa' = u
  BY <1>1, <1>3, <1>5
<1>8. DeliveryShape'
  BY <1>1, <1>2, <1>6, <1>7 DEF DeliveryShape
<1>9. TsaCounted'
  <2>0. PICK a \in Nat, b \in Nat : a = t.successes /\ b = t.failures /\ t.requests = a + b
    BY <1>4 DEF TsaSet
  <2>1. u.requests = u.successes + u.failures + 1
    BY <1>6, <2>0
  <2> QED
    BY <1>6, <1>7, <2>1 DEF TsaCounted
<1> QED
  BY <1>1, <1>8, <1>9, EntriesStay DEF DeliveryInv

\* Its answer counts once.
LEMMA TsaAnswerKeeps == ASSUME DeliveryInv, TsaAnswer PROVE DeliveryInv'
<1>1. UNCHANGED <<logger, buffer, chain, calls, lines, lost, archive, used>> /\ tsa.asked
  BY DEF TsaAnswer
<1>2. PICK granted, ok : tsa' = [tsa EXCEPT !.asked = FALSE, !.granted = granted # <<>> /\ granted[1].inTime,
                                      !.current = IF ok THEN <<tsa.head>> ELSE <<>>,
                                      !.successes = @ + (IF ok THEN 1 ELSE 0), !.failures = @ + (IF ok THEN 0 ELSE 1)]
  BY Zenon DEF TsaAnswer
<1>3. PICK g \in BOOLEAN : g = (granted # <<>> /\ granted[1].inTime)
  BY Zenon
<1>4. PICK t : t = tsa
  OBVIOUS
<1>5. /\ t \in TsaSet(BOOLEAN, Nat, Seq(Nat))
      /\ t.requests = t.successes + t.failures + 1
  BY <1>1, <1>4 DEF DeliveryInv, DeliveryShape, TsaCounted
<1>6. PICK now \in Seq(Nat) : now = IF ok THEN <<t.head>> ELSE <<>>
  <2>1. t.head \in Nat
    BY <1>5 DEF TsaSet
  <2>2. <<t.head>> \in Seq(Nat) /\ <<>> \in Seq(Nat)
    BY <2>1
  <2> QED
    BY <2>2
<1>7. PICK p \in {0, 1}, f \in {0, 1} : p = (IF ok THEN 1 ELSE 0) /\ f = (IF ok THEN 0 ELSE 1) /\ p + f = 1
  BY Z3
<1>8. PICK u : u = [t EXCEPT !.asked = FALSE, !.granted = g, !.current = now,
                             !.successes = @ + p, !.failures = @ + f]
  OBVIOUS
<1>9. /\ u \in TsaSet(BOOLEAN, Nat, Seq(Nat))
      /\ ~u.asked /\ u.requests = t.requests /\ u.successes = t.successes + p /\ u.failures = t.failures + f
  <2>1. u \in TsaSet(BOOLEAN, Nat, Seq(Nat))
    BY <1>5, <1>7, <1>8, TsaAnswered
  <2>2. ~u.asked
    BY <1>5, <1>8 DEF TsaSet
  <2>3. u.requests = t.requests
    BY <1>5, <1>8 DEF TsaSet
  <2>4. u.successes = t.successes + p
    BY <1>5, <1>8 DEF TsaSet
  <2>5. u.failures = t.failures + f
    BY <1>5, <1>8 DEF TsaSet
  <2> QED
    BY <2>1, <2>2, <2>3, <2>4, <2>5
<1>10. tsa' = u
  <2>1. tsa' = [t EXCEPT !.asked = FALSE, !.granted = granted # <<>> /\ granted[1].inTime,
                         !.current = IF ok THEN <<t.head>> ELSE <<>>,
                         !.successes = @ + (IF ok THEN 1 ELSE 0), !.failures = @ + (IF ok THEN 0 ELSE 1)]
    BY <1>2, <1>4, Zenon
  <2>2. tsa' = [t EXCEPT !.asked = FALSE, !.granted = g, !.current = now,
                         !.successes = @ + (IF ok THEN 1 ELSE 0), !.failures = @ + (IF ok THEN 0 ELSE 1)]
    BY <1>3, <1>6, <2>1, Zenon
  <2>3. tsa' = [t EXCEPT !.asked = FALSE, !.granted = g, !.current = now, !.successes = @ + p, !.failures = @ + f]
    BY <1>7, <2>2, Zenon
  <2> QED
    BY <1>8, <2>3
<1>11. DeliveryShape'
  BY <1>1, <1>9, <1>10 DEF DeliveryInv, DeliveryShape
<1>12. TsaCounted'
  <2>0. PICK a \in Nat, b \in Nat : a = t.successes /\ b = t.failures /\ t.requests = a + b + 1
    BY <1>5 DEF TsaSet
  <2>1. p + f = 1
    BY <1>7, Zenon
  <2>2. a + b + 1 = (a + p) + (b + f) + 0
    BY <2>1
  <2>3. u.requests = a + b + 1 /\ u.successes = a + p /\ u.failures = b + f
    BY <1>9, <2>0
  <2>4. u.requests = u.successes + u.failures + 0
    BY <2>2, <2>3
  <2> QED
    BY <1>9, <1>10, <2>4 DEF TsaCounted
<1> QED
  BY <1>1, <1>11, <1>12, EntriesStay DEF DeliveryInv

\* The file ages.
LEMMA AgeKeeps == ASSUME DeliveryInv, FileAges PROVE DeliveryInv'
<1>1. /\ UNCHANGED <<logger, buffer, chain, calls, lines, lost, tsa, used>>
      /\ archive' = [archive EXCEPT !.age = @ + 1]
  BY DEF FileAges
<1>2. DeliveryShape' /\ archive'.copies = archive.copies
  <2>1. archive' \in [copies : SUBSET Seq(AuditEntry), uploads : Nat, age : Nat]
    <3>1. PICK v \in [copies : SUBSET Seq(AuditEntry), uploads : Nat, age : Nat] : v = archive
      BY DEF DeliveryInv, DeliveryShape
    <3>2. PICK w : w = [v EXCEPT !.age = @ + 1]
      OBVIOUS
    <3>3. w \in [copies : SUBSET Seq(AuditEntry), uploads : Nat, age : Nat]
      BY <3>2
    <3> QED
      BY <1>1, <3>1, <3>2, <3>3
  <2>2. archive'.copies = archive.copies
    BY <1>1 DEF DeliveryInv, DeliveryShape
  <2> QED
    BY <1>1, <2>1, <2>2 DEF DeliveryInv, DeliveryShape
<1>3. TsaCounted'
  BY <1>1 DEF DeliveryInv, TsaCounted
<1> QED
  BY <1>1, <1>2, <1>3, EntriesStay DEF DeliveryInv

\* A call goes on with its entry: it keeps the event, the number and the key.
LEMMA HandStays ==
    ASSUME DeliveryInv, NEW c \in LogCallers, NEW q \in LogCall, calls' = [calls EXCEPT ![c] = q],
           calls[c].at \in {"link", "stamp", "sign"}, q.at \in {"link", "stamp", "sign", "push"},
           q.entry.event = calls[c].entry.event, q.entry.sequence = calls[c].entry.sequence,
           q.entry.key = calls[c].entry.key,
           UNCHANGED <<logger, buffer, lines, lost, archive, used>>, chain'.sequence = chain.sequence
    PROVE  OnceEach' /\ OnePlace' /\ EventsKnown' /\ Somewhere' /\ NumbersTell' /\ FullIsFlushed'
<1>1. DeliveryShape
  BY DEF DeliveryInv
<1>2. /\ calls'[c] = q /\ Held(c)' = InHand(q)
      /\ \A d \in LogCallers \ {c} : calls'[d] = calls[d] /\ Held(d)' = Held(d)
      /\ AllHeld' \subseteq AllHeld \cup InHand(q) /\ AllHeld \subseteq AllHeld' \cup Held(c)
  BY <1>1, OthersKeepTheirs
<1>3. Held(c) = {calls[c].entry} /\ InHand(q) = {q.entry} /\ Held(c) \subseteq AllHeld /\ Held(c)' \subseteq AllHeld'
  BY DEF Held, InHand, AllHeld
<1>4. AllCopied' = AllCopied /\ Written' = Written
  BY DEF AllCopied, Written
<1>5. EventsKnown' /\ NumbersTell'
  <2>1. SUFFICES ASSUME NEW x \in AllEntries'
                 PROVE  \E y \in AllEntries : x.event = y.event /\ x.sequence = y.sequence /\ x.key = y.key
    BY NumbersStay
  <2>2. x \in AllEntries \/ x = q.entry
    BY <1>2, <1>3, <1>4 DEF AllEntries
  <2>3. calls[c].entry \in AllEntries
    BY <1>3 DEF AllEntries
  <2> QED
    BY <2>2, <2>3
<1>6. OnceEach'
  <2>1. q.batch = <<>>
    BY DEF LogCall
  <2>2. Once(q.batch)
    BY <2>1, NoEntries
  <2> QED
    BY <1>2, <2>2 DEF DeliveryInv, OnceEach
<1>7. OnePlace'
  BY <1>2, <1>3 DEF DeliveryInv, OnePlace, Apart
<1>8. Somewhere'
  <2>1. SUFFICES ASSUME NEW e \in 1 .. used.events, e \notin lost
                 PROVE  \E x \in ToSet(buffer) \cup ToSet(lines.file) \cup ToSet(lines.stdout) \cup AllHeld' \cup AllCopied : x.event = e
    BY <1>4 DEF Somewhere
  <2>2. PICK x \in ToSet(buffer) \cup ToSet(lines.file) \cup ToSet(lines.stdout) \cup AllHeld \cup AllCopied : x.event = e
    BY <2>1 DEF DeliveryInv, Somewhere
  <2>3. CASE x \in Held(c)
    <3>1. q.entry.event = e /\ q.entry \in AllHeld'
      BY <1>2, <1>3, <2>2, <2>3
    <3> QED
      BY <3>1
  <2>4. CASE x \notin Held(c)
    BY <1>2, <2>2, <2>4
  <2> QED
    BY <2>3, <2>4
<1>9. FullIsFlushed'
  BY <1>2 DEF DeliveryInv, FullIsFlushed, backlog_depth
<1> QED
  BY <1>5, <1>6, <1>7, <1>8, <1>9

\* An entry that gets its link.
LEMMA EntryLinked ==
    ASSUME NEW r \in AuditEntry, NEW p \in Nat
    PROVE  \E s \in AuditEntry : s = [r EXCEPT !.previous = p] /\ s.event = r.event /\ s.sequence = r.sequence /\ s.key = r.key
<1>1. PICK s : s = [r EXCEPT !.previous = p]
  OBVIOUS
<1>2. s \in AuditEntry
  BY <1>1 DEF AuditEntry
<1>3. s.event = r.event /\ s.sequence = r.sequence /\ s.key = r.key
  BY <1>1 DEF AuditEntry
<1> QED
  BY <1>1, <1>2, <1>3

\* The same for a timestamp.
LEMMA EntryStamped ==
    ASSUME NEW r \in AuditEntry, NEW p \in Seq(Nat)
    PROVE  \E s \in AuditEntry : s = [r EXCEPT !.stamp = p] /\ s.event = r.event /\ s.sequence = r.sequence /\ s.key = r.key
<1>1. PICK s : s = [r EXCEPT !.stamp = p]
  OBVIOUS
<1>2. s \in AuditEntry
  BY <1>1 DEF AuditEntry
<1>3. s.event = r.event /\ s.sequence = r.sequence /\ s.key = r.key
  BY <1>1 DEF AuditEntry
<1> QED
  BY <1>1, <1>2, <1>3

\* The signature before.
LEMMA ReadPreviousKeeps == ASSUME DeliveryInv, NEW c \in LogCallers, ReadPrevious(c) PROVE DeliveryInv'
<1>1. /\ calls[c].at = "link" /\ UNCHANGED <<logger, buffer, chain, lines, lost, tsa, archive, used>>
      /\ calls' = [calls EXCEPT ![c].entry.previous = chain.previous,
                                ![c].at = IF logger.kind = "timestamped" THEN "stamp" ELSE "sign"]
  BY DEF ReadPrevious
<1>2. DeliveryShape /\ TsaCounted
  BY DEF DeliveryInv
<1>3. PICK r \in AuditEntry : calls[c] = [at |-> "link", entry |-> r, batch |-> <<>>]
  BY <1>1, <1>2 DEF DeliveryShape, LogCall
<1>4. PICK p \in Nat : p = chain.previous
  BY <1>2 DEF DeliveryShape
<1>5. PICK s \in AuditEntry : s = [r EXCEPT !.previous = p] /\ s.event = r.event /\ s.sequence = r.sequence /\ s.key = r.key
  BY EntryLinked
<1>6. PICK w \in {"stamp", "sign"} : w = IF logger.kind = "timestamped" THEN "stamp" ELSE "sign"
  OBVIOUS
<1>10. PICK q \in LogCall : q = [at |-> w, entry |-> s, batch |-> <<>>]
  BY DEF LogCall
<1>7. calls' = [calls EXCEPT ![c] = q]
  <2>1. [[calls[c] EXCEPT !.entry.previous = p] EXCEPT !.at = w] = q
    <3>1. [calls[c] EXCEPT !.entry.previous = p] = [at |-> "link", entry |-> s, batch |-> <<>>]
      <4>1. \A f : f = [at |-> "link", entry |-> r, batch |-> <<>>] =>
                     [f EXCEPT !.entry.previous = p] = [at |-> "link", entry |-> [r EXCEPT !.previous = p], batch |-> <<>>]
        OBVIOUS
      <4> QED
        BY <1>3, <1>5, <4>1
    <3>2. [[at |-> "link", entry |-> s, batch |-> <<>>] EXCEPT !.at = w] = [at |-> w, entry |-> s, batch |-> <<>>]
      OBVIOUS
    <3> QED
      BY <1>10, <3>1, <3>2
  <2> QED
    BY <1>1, <1>2, <1>4, <1>6, <2>1 DEF DeliveryShape
<1>8. DeliveryShape' /\ TsaCounted'
  <2>1. calls' \in [LogCallers -> LogCall]
    BY <1>2, <1>7 DEF DeliveryShape
  <2> QED
    BY <1>1, <1>2, <2>1 DEF DeliveryShape, TsaCounted
<1>9. /\ calls[c].at \in {"link", "stamp", "sign"} /\ q.at \in {"link", "stamp", "sign", "push"}
      /\ q.entry.event = calls[c].entry.event /\ q.entry.sequence = calls[c].entry.sequence /\ q.entry.key = calls[c].entry.key
  <2>1. q.at \in {"stamp", "sign"} /\ q.entry = s /\ calls[c].entry = r /\ calls[c].at = "link"
    BY <1>3, <1>10
  <2> QED
    BY <1>5, <2>1
<1> QED
  BY <1>1, <1>7, <1>8, <1>9, HandStays DEF DeliveryInv

\* The timestamp of the moment.
LEMMA ReadTimestampKeeps == ASSUME DeliveryInv, NEW c \in LogCallers, ReadTimestamp(c) PROVE DeliveryInv'
<1>1. /\ calls[c].at = "stamp" /\ UNCHANGED <<logger, buffer, chain, lines, lost, tsa, archive, used>>
      /\ calls' = [calls EXCEPT ![c].entry.stamp = tsa.current, ![c].at = "sign"]
  BY DEF ReadTimestamp
<1>2. DeliveryShape /\ TsaCounted
  BY DEF DeliveryInv
<1>3. PICK r \in AuditEntry : calls[c] = [at |-> "stamp", entry |-> r, batch |-> <<>>]
  BY <1>1, <1>2 DEF DeliveryShape, LogCall
<1>4. PICK p \in Seq(Nat) : p = tsa.current
  BY <1>2 DEF DeliveryShape, TsaSet
<1>5. PICK s \in AuditEntry : s = [r EXCEPT !.stamp = p] /\ s.event = r.event /\ s.sequence = r.sequence /\ s.key = r.key
  BY EntryStamped
<1>6. PICK q \in LogCall : q = [at |-> "sign", entry |-> s, batch |-> <<>>]
  BY DEF LogCall
<1>7. calls' = [calls EXCEPT ![c] = q]
  <2>1. [[calls[c] EXCEPT !.entry.stamp = p] EXCEPT !.at = "sign"] = q
    <3>1. [calls[c] EXCEPT !.entry.stamp = p] = [at |-> "stamp", entry |-> s, batch |-> <<>>]
      <4>1. \A f : f = [at |-> "stamp", entry |-> r, batch |-> <<>>] =>
                     [f EXCEPT !.entry.stamp = p] = [at |-> "stamp", entry |-> [r EXCEPT !.stamp = p], batch |-> <<>>]
        OBVIOUS
      <4> QED
        BY <1>3, <1>5, <4>1
    <3>2. [[at |-> "stamp", entry |-> s, batch |-> <<>>] EXCEPT !.at = "sign"] = [at |-> "sign", entry |-> s, batch |-> <<>>]
      OBVIOUS
    <3> QED
      BY <1>6, <3>1, <3>2
  <2> QED
    BY <1>1, <1>2, <1>4, <2>1 DEF DeliveryShape
<1>8. DeliveryShape' /\ TsaCounted'
  <2>1. calls' \in [LogCallers -> LogCall]
    BY <1>2, <1>7 DEF DeliveryShape
  <2> QED
    BY <1>1, <1>2, <2>1 DEF DeliveryShape, TsaCounted
<1>9. /\ calls[c].at \in {"link", "stamp", "sign"} /\ q.at \in {"link", "stamp", "sign", "push"}
      /\ q.entry.event = calls[c].entry.event /\ q.entry.sequence = calls[c].entry.sequence /\ q.entry.key = calls[c].entry.key
  <2>1. q.at = "sign" /\ q.entry = s /\ calls[c].entry = r /\ calls[c].at = "stamp"
    BY <1>3, <1>6
  <2> QED
    BY <1>5, <2>1
<1> QED
  BY <1>1, <1>7, <1>8, <1>9, HandStays DEF DeliveryInv

\* The signature is there for the next one.
LEMMA StoreSignatureKeeps == ASSUME DeliveryInv, NEW c \in LogCallers, StoreSignature(c) PROVE DeliveryInv'
<1>1. /\ calls[c].at = "sign" /\ UNCHANGED <<logger, buffer, lines, lost, tsa, archive, used>>
      /\ calls' = [calls EXCEPT ![c].at = "push"] /\ chain' = [chain EXCEPT !.previous = calls[c].entry.event]
  BY DEF StoreSignature, Move
<1>2. DeliveryShape /\ TsaCounted
  BY DEF DeliveryInv
<1>3. PICK r \in AuditEntry : calls[c] = [at |-> "sign", entry |-> r, batch |-> <<>>]
  BY <1>1, <1>2 DEF DeliveryShape, LogCall
<1>4. PICK q \in LogCall : q = [at |-> "push", entry |-> r, batch |-> <<>>]
  BY DEF LogCall
<1>5. calls' = [calls EXCEPT ![c] = q]
  <2>1. [calls[c] EXCEPT !.at = "push"] = q
    BY <1>3, <1>4
  <2> QED
    BY <1>1, <1>2, <2>1 DEF DeliveryShape
<1>6. DeliveryShape' /\ TsaCounted' /\ chain'.sequence = chain.sequence
  <2>1. calls' \in [LogCallers -> LogCall]
    BY <1>2, <1>5 DEF DeliveryShape
  <2>2. r.event \in Nat
    BY DEF AuditEntry
  <2>3. chain' \in [sequence : Nat, previous : Nat] /\ chain'.sequence = chain.sequence
    <3>1. PICK v \in [sequence : Nat, previous : Nat] : v = chain
      BY <1>2 DEF DeliveryShape
    <3>2. chain' = [v EXCEPT !.previous = r.event]
      BY <1>1, <1>3, <3>1
    <3>3. chain' \in [sequence : Nat, previous : Nat]
      BY <2>2, <3>2
    <3>4. chain'.sequence = v.sequence
      BY <3>2
    <3> QED
      BY <3>1, <3>3, <3>4
  <2> QED
    BY <1>1, <1>2, <2>1, <2>3 DEF DeliveryShape, TsaCounted
<1>7. /\ calls[c].at \in {"link", "stamp", "sign"} /\ q.at \in {"link", "stamp", "sign", "push"}
      /\ q.entry.event = calls[c].entry.event /\ q.entry.sequence = calls[c].entry.sequence /\ q.entry.key = calls[c].entry.key
  BY <1>3, <1>4
<1> QED
  BY <1>1, <1>5, <1>6, <1>7, HandStays DEF DeliveryInv

\* A new entry is not known yet, and has the next number.
LEMMA NewIsKnown ==
    ASSUME DeliveryInv, NEW x \in AuditEntry, x.event = used.events + 1, used'.events = used.events + 1,
           logger' = logger, AllEntries' \subseteq AllEntries \cup {x}, x.key = logger.key,
           logger.kind # "plain" => x.sequence = chain.sequence /\ chain'.sequence = chain.sequence + 1
    PROVE  /\ EventsKnown' /\ NumbersTell' /\ Apart({x}, AllEntries)
           /\ Somewhere /\ ~(used.events + 1 \in 1 .. used.events)
<1>1. PICK n \in Nat : n = used.events
  BY DEF DeliveryInv, DeliveryShape
<1>2. \A y \in AllEntries : y.event \in 1 .. n
  BY <1>1 DEF DeliveryInv, EventsKnown
<1>3. EventsKnown'
  BY <1>1, <1>2 DEF EventsKnown
<1>4. Apart({x}, AllEntries)
  BY <1>1, <1>2 DEF Apart
<1>5. NumbersTell'
  <2>1. SUFFICES ASSUME logger.kind # "plain", logger.keyFile # "good", NEW y \in AllEntries'
                 PROVE  /\ y.key <= logger.key
                        /\ y.key = logger.key => y.sequence < chain'.sequence
                        /\ \A z \in AllEntries' : y.event # z.event /\ y.key = z.key => y.sequence # z.sequence
    BY DEF NumbersTell
  <2>2. PICK s \in Nat : s = chain.sequence /\ x.sequence = s /\ chain'.sequence = s + 1
    BY <2>1 DEF DeliveryInv, DeliveryShape
  <2>3. logger.key \in Nat
    BY DEF DeliveryInv, DeliveryShape
  <2>4. \A v \in AllEntries : /\ v.key <= logger.key /\ (v.key = logger.key => v.sequence < s) /\ v \in AuditEntry
                              /\ \A z \in AllEntries : v.event # z.event /\ v.key = z.key => v.sequence # z.sequence
    BY <2>1, <2>2, EntriesAre DEF DeliveryInv, NumbersTell
  <2>5. \A v \in AuditEntry : v.sequence \in Nat /\ v.key \in Nat
    BY DEF AuditEntry
  <2>6. \A v \in AllEntries : v.key = x.key => v.sequence # x.sequence /\ v.sequence < s + 1
    BY <2>2, <2>4, <2>5
  <2>7. y.key <= logger.key
    BY <2>3, <2>4
  <2>8. y.key = logger.key => y.sequence < s + 1
    BY <2>2, <2>6
  <2>9. ASSUME NEW z \in AllEntries', y.event # z.event, y.key = z.key PROVE y.sequence # z.sequence
    <3>1. CASE y \in AllEntries /\ z \in AllEntries
      BY <2>4, <2>9, <3>1
    <3>2. CASE y = x /\ z = x
      BY <2>9, <3>2
    <3>3. CASE y = x /\ z \in AllEntries
      BY <2>6, <2>9, <3>3
    <3>4. CASE z = x /\ y \in AllEntries
      BY <2>6, <2>9, <3>4
    <3> QED
      BY <2>1, <2>9, <3>1, <3>2, <3>3, <3>4
  <2> QED
    BY <2>2, <2>7, <2>8, <2>9
<1> QED
  BY <1>1, <1>3, <1>4, <1>5 DEF DeliveryInv

\* What goes into the buffer, and that a full one is flushed by who filled it.
LEMMA Pushed ==
    ASSUME DeliveryInv, NEW c \in LogCallers, NEW x \in AuditEntry, Push(c, x), UNCHANGED <<lines, archive>>,
           Apart({x}, ToSet(buffer) \cup Written), \A d \in LogCallers \ {c} : Apart({x}, Held(d))
    PROVE  /\ OnceEach' /\ OnePlace' /\ FullIsFlushed'
           /\ calls' \in [LogCallers -> LogCall] /\ buffer' \in Seq(AuditEntry)
           /\ ToSet(buffer)' = ToSet(buffer) \cup {x}
           /\ AllHeld' \subseteq AllHeld /\ AllHeld \subseteq AllHeld' \cup Held(c)
           /\ Written' = Written /\ AllCopied' = AllCopied
<1>1. PICK w \in {"flush", "idle"} : w = IF Len(buffer) + 1 >= BufferSize THEN "flush" ELSE "idle"
  OBVIOUS
<1>2. PICK q \in LogCall : q = [NoEntry EXCEPT !.at = w] /\ q.at = w /\ q.batch = <<>> /\ InHand(q) = {}
  <2>1. [NoEntry EXCEPT !.at = w] = [at |-> w, entry |-> <<>>, batch |-> <<>>]
    BY DEF NoEntry
  <2>2. [at |-> w, entry |-> <<>>, batch |-> <<>>] \in LogCall
    BY DEF LogCall
  <2> QED
    BY <2>1, <2>2, NoEntries DEF InHand
<1>3. calls' = [calls EXCEPT ![c] = q] /\ buffer' = Append(buffer, x)
  BY <1>1, <1>2 DEF Push
<1>4. DeliveryShape
  BY DEF DeliveryInv
<1>5. /\ calls' \in [LogCallers -> LogCall] /\ calls'[c] = q /\ Held(c)' = {}
      /\ \A d \in LogCallers \ {c} : calls'[d] = calls[d] /\ Held(d)' = Held(d)
      /\ AllHeld' \subseteq AllHeld /\ AllHeld \subseteq AllHeld' \cup Held(c)
  BY <1>2, <1>3, <1>4, OthersKeepTheirs
<1>6. /\ buffer' \in Seq(AuditEntry) /\ ToSet(buffer') = ToSet(buffer) \cup {x} /\ Once(buffer')
  <2>1. buffer \in Seq(AuditEntry) /\ Once(buffer) /\ Apart({x}, ToSet(buffer))
    BY <1>4 DEF DeliveryInv, OnceEach, Apart, DeliveryShape
  <2> QED
    BY <1>3, <2>1, AppendedEntry
<1>7. OnceEach'
  <2>1. Once(q.batch)
    BY <1>2, NoEntries
  <2> QED
    BY <1>5, <1>6, <2>1 DEF DeliveryInv, OnceEach
<1>8. OnePlace'
  <2>1. Apart(ToSet(buffer'), Written)
    BY <1>6 DEF DeliveryInv, OnePlace, Written, Apart
  <2>2. \A d \in LogCallers : Apart(Held(d)', ToSet(buffer') \cup Written)
    BY <1>5, <1>6 DEF DeliveryInv, OnePlace, Written, Apart
  <2>3. \A d \in LogCallers : \A g \in LogCallers \ {d} : Apart(Held(d)', Held(g)')
    BY <1>5 DEF DeliveryInv, OnePlace, Apart
  <2>4. Apart(ToSet(lines.file), ToSet(lines.stdout))
    BY DEF DeliveryInv, OnePlace
  <2> QED
    BY <2>1, <2>2, <2>3, <2>4 DEF OnePlace, Written
<1>9. FullIsFlushed'
  <2>1. Len(buffer') = Len(buffer) + 1
    BY <1>3, <1>4 DEF DeliveryShape
  <2>2. Len(buffer) + 1 >= BufferSize => calls'[c].at = "flush"
    BY <1>1, <1>2, <1>5
  <2> QED
    BY <2>1, <2>2 DEF FullIsFlushed, backlog_depth
<1> QED
  BY <1>5, <1>6, <1>7, <1>8, <1>9 DEF Written, AllCopied

\* A plain call puts its entry into the buffer at once.
LEMMA PlainKeeps == ASSUME DeliveryInv, NEW c \in LogCallers, log(c) PROVE DeliveryInv'
<1>1. /\ logger.kind = "plain" /\ calls[c] = NoEntry /\ UNCHANGED <<logger, chain, lines, lost, tsa, archive>>
      /\ used' = [used EXCEPT !.events = @ + 1] /\ Push(c, NewEntry(used.events + 1, 0))
  BY DEF log
<1>2. DeliveryShape /\ TsaCounted
  BY DEF DeliveryInv
<1>3. used' \in [faults : Nat, events : Nat, stopped : BOOLEAN] /\ used'.events = used.events + 1 /\ used.events \in Nat
  <2>1. PICK u \in [faults : Nat, events : Nat, stopped : BOOLEAN] : u = used
    BY <1>2 DEF DeliveryShape
  <2>2. PICK n \in Nat : n = u.events + 1
    OBVIOUS
  <2>3. used' = [u EXCEPT !.events = n]
    BY <1>1, <2>1, <2>2
  <2>4. used' \in [faults : Nat, events : Nat, stopped : BOOLEAN]
    BY <2>3
  <2>5. used'.events = n
    BY <2>3
  <2> QED
    BY <2>1, <2>2, <2>4, <2>5
<1>4. PICK x \in AuditEntry : x = NewEntry(used.events + 1, 0) /\ x.event = used.events + 1 /\ x.key = logger.key
  <2>1. logger.key \in Nat /\ used.events + 1 \in Nat
    BY <1>2, <1>3 DEF DeliveryShape
  <2>2. NewEntry(used.events + 1, 0) \in AuditEntry
    BY <2>1, NoEntries DEF NewEntry, AuditEntry
  <2> QED
    BY <2>2 DEF NewEntry
<1>5. Held(c) = {}
  BY <1>1, NoEntries DEF Held
<1>6. Apart({x}, AllEntries)
  <2>1. \A y \in AllEntries : y.event \in 1 .. used.events
    BY DEF DeliveryInv, EventsKnown
  <2> QED
    BY <1>3, <1>4, <2>1 DEF Apart
<1>7. Apart({x}, ToSet(buffer) \cup Written) /\ \A d \in LogCallers \ {c} : Apart({x}, Held(d))
  BY <1>6 DEF Apart, AllEntries, AllHeld
<1>8. /\ OnceEach' /\ OnePlace' /\ FullIsFlushed' /\ calls' \in [LogCallers -> LogCall] /\ buffer' \in Seq(AuditEntry)
      /\ ToSet(buffer)' = ToSet(buffer) \cup {x} /\ AllHeld' \subseteq AllHeld /\ AllHeld \subseteq AllHeld' \cup Held(c)
      /\ Written' = Written /\ AllCopied' = AllCopied
  BY <1>1, <1>4, <1>7, Pushed
<1>9. AllEntries' \subseteq AllEntries \cup {x}
  BY <1>8 DEF AllEntries
<1>10. EventsKnown' /\ NumbersTell'
  BY <1>1, <1>3, <1>4, <1>9, NewIsKnown
<1>11. Somewhere'
  <2>1. SUFFICES ASSUME NEW e \in 1 .. (used.events + 1), e \notin lost
                 PROVE  \E y \in ToSet(buffer)' \cup ToSet(lines.file) \cup ToSet(lines.stdout) \cup AllHeld' \cup AllCopied : y.event = e
    BY <1>1, <1>3, <1>8 DEF Somewhere
  <2>2. CASE e = used.events + 1
    BY <1>4, <1>8, <2>2
  <2>3. CASE e \in 1 .. used.events
    BY <1>5, <1>8, <2>1, <2>3 DEF DeliveryInv, Somewhere
  <2> QED
    BY <1>3, <2>2, <2>3
<1>12. DeliveryShape' /\ TsaCounted'
  BY <1>1, <1>2, <1>3, <1>8 DEF DeliveryShape, TsaCounted
<1> QED
  BY <1>8, <1>10, <1>11, <1>12 DEF DeliveryInv

\* The two fields of a call that are set at once.
LEMMA EntryTaken ==
    ASSUME NEW y
    PROVE  [[at |-> "idle", entry |-> <<>>, batch |-> <<>>] EXCEPT !.at = "link", !.entry = y]
             = [at |-> "link", entry |-> y, batch |-> <<>>]
<1>1. [[at |-> "idle", entry |-> <<>>, batch |-> <<>>] EXCEPT !.at = "link"]
        = [at |-> "link", entry |-> <<>>, batch |-> <<>>]
  OBVIOUS
<1>2. [[at |-> "link", entry |-> <<>>, batch |-> <<>>] EXCEPT !.entry = y] = [at |-> "link", entry |-> y, batch |-> <<>>]
  OBVIOUS
<1> QED
  BY <1>1, <1>2

\* A signing call takes the next number for its entry.
LEMMA SequenceKeeps == ASSUME DeliveryInv, NEW c \in LogCallers, TakeSequence(c) PROVE DeliveryInv'
<1>1. /\ logger.kind # "plain" /\ calls[c] = NoEntry /\ UNCHANGED <<logger, buffer, lines, lost, tsa, archive>>
      /\ used' = [used EXCEPT !.events = @ + 1] /\ chain' = [chain EXCEPT !.sequence = @ + 1]
      /\ calls' = [calls EXCEPT ![c] = [NoEntry EXCEPT !.at = "link", !.entry = NewEntry(used.events + 1, chain.sequence)]]
  BY DEF TakeSequence
<1>2. DeliveryShape /\ TsaCounted
  BY DEF DeliveryInv
<1>3. used' \in [faults : Nat, events : Nat, stopped : BOOLEAN] /\ used'.events = used.events + 1 /\ used.events \in Nat
  <2>1. PICK u \in [faults : Nat, events : Nat, stopped : BOOLEAN] : u = used
    BY <1>2 DEF DeliveryShape
  <2>2. PICK n \in Nat : n = u.events + 1
    OBVIOUS
  <2>3. used' = [u EXCEPT !.events = n]
    BY <1>1, <2>1, <2>2
  <2>4. used' \in [faults : Nat, events : Nat, stopped : BOOLEAN]
    BY <2>3
  <2>5. used'.events = n
    BY <2>3
  <2> QED
    BY <2>1, <2>2, <2>4, <2>5
<1>4. chain' \in [sequence : Nat, previous : Nat] /\ chain'.sequence = chain.sequence + 1 /\ chain.sequence \in Nat
  <2>1. PICK v \in [sequence : Nat, previous : Nat] : v = chain
    BY <1>2 DEF DeliveryShape
  <2>2. PICK n \in Nat : n = v.sequence + 1
    OBVIOUS
  <2>3. chain' = [v EXCEPT !.sequence = n]
    BY <1>1, <2>1, <2>2
  <2>4. chain' \in [sequence : Nat, previous : Nat]
    BY <2>3
  <2>5. chain'.sequence = n
    BY <2>3
  <2> QED
    BY <2>1, <2>2, <2>4, <2>5
<1>5. PICK x \in AuditEntry : /\ x = NewEntry(used.events + 1, chain.sequence) /\ x.event = used.events + 1
                              /\ x.key = logger.key /\ x.sequence = chain.sequence
  <2>1. logger.key \in Nat /\ used.events + 1 \in Nat
    BY <1>2, <1>3 DEF DeliveryShape
  <2>2. NewEntry(used.events + 1, chain.sequence) \in AuditEntry
    BY <1>4, <2>1, NoEntries DEF NewEntry, AuditEntry
  <2> QED
    BY <2>2 DEF NewEntry
<1>6. PICK q \in LogCall : q = [at |-> "link", entry |-> x, batch |-> <<>>]
  BY DEF LogCall
<1>7. q.at = "link" /\ q.batch = <<>> /\ InHand(q) = {x}
  BY <1>6 DEF InHand
<1>8. calls' = [calls EXCEPT ![c] = q]
  <2>1. [NoEntry EXCEPT !.at = "link", !.entry = x] = q
    <3>1. \A y : [[at |-> "idle", entry |-> <<>>, batch |-> <<>>] EXCEPT !.at = "link", !.entry = y]
                   = [at |-> "link", entry |-> y, batch |-> <<>>]
      BY EntryTaken
    <3> QED
      BY <1>6, <3>1 DEF NoEntry
  <2> QED
    BY <1>1, <1>5, <2>1
<1>9. /\ calls' \in [LogCallers -> LogCall] /\ calls'[c] = q /\ Held(c)' = {x}
      /\ \A d \in LogCallers \ {c} : calls'[d] = calls[d] /\ Held(d)' = Held(d)
      /\ AllHeld' \subseteq AllHeld \cup {x} /\ AllHeld \subseteq AllHeld' \cup Held(c)
  BY <1>2, <1>7, <1>8, OthersKeepTheirs
<1>10. Held(c) = {} /\ Held(c)' \subseteq AllHeld' /\ AllCopied' = AllCopied /\ Written' = Written
  BY <1>1, NoEntries DEF Held, AllHeld, AllCopied, Written
<1>11. AllEntries' \subseteq AllEntries \cup {x}
  BY <1>1, <1>9, <1>10 DEF AllEntries
<1>12. EventsKnown' /\ NumbersTell' /\ Apart({x}, AllEntries)
  BY <1>1, <1>3, <1>4, <1>5, <1>11, NewIsKnown
<1>13. Apart({x}, ToSet(buffer) \cup Written) /\ \A d \in LogCallers \ {c} : Apart({x}, Held(d))
  BY <1>12 DEF Apart, AllEntries, AllHeld
<1>14. OnceEach'
  <2>1. Once(q.batch)
    BY <1>7, NoEntries
  <2> QED
    BY <1>1, <1>9, <2>1 DEF DeliveryInv, OnceEach
<1>15. OnePlace'
  <2>1. \A d \in LogCallers : Apart(Held(d)', ToSet(buffer) \cup Written)
    BY <1>9, <1>13 DEF DeliveryInv, OnePlace, Written, Apart
  <2>2. \A d \in LogCallers : \A g \in LogCallers \ {d} : Apart(Held(d)', Held(g)')
    BY <1>9, <1>13 DEF DeliveryInv, OnePlace, Apart
  <2> QED
    BY <1>1, <2>1, <2>2 DEF DeliveryInv, OnePlace, Written
<1>16. Somewhere'
  <2>1. SUFFICES ASSUME NEW e \in 1 .. (used.events + 1), e \notin lost
                 PROVE  \E y \in ToSet(buffer) \cup ToSet(lines.file) \cup ToSet(lines.stdout) \cup AllHeld' \cup AllCopied : y.event = e
    BY <1>1, <1>3, <1>10 DEF Somewhere
  <2>2. CASE e = used.events + 1
    BY <1>5, <1>9, <1>10, <2>2
  <2>3. CASE e \in 1 .. used.events
    BY <1>9, <1>10, <2>1, <2>3 DEF DeliveryInv, Somewhere
  <2> QED
    BY <1>3, <2>2, <2>3
<1>17. FullIsFlushed'
  <2>1. calls[c].at # "flush"
    BY <1>1 DEF NoEntry
  <2> QED
    BY <1>1, <1>9, <2>1 DEF DeliveryInv, FullIsFlushed, backlog_depth
<1>18. DeliveryShape' /\ TsaCounted'
  BY <1>1, <1>2, <1>3, <1>4, <1>9 DEF DeliveryShape, TsaCounted
<1> QED
  BY <1>12, <1>14, <1>15, <1>16, <1>17, <1>18 DEF DeliveryInv

\* A signing call puts its entry into the buffer.
LEMMA PushSignedKeeps == ASSUME DeliveryInv, NEW c \in LogCallers, PushSigned(c) PROVE DeliveryInv'
<1>1. /\ calls[c].at = "push" /\ UNCHANGED <<logger, chain, lines, lost, tsa, archive, used>> /\ Push(c, calls[c].entry)
  BY DEF PushSigned
<1>2. DeliveryShape /\ TsaCounted
  BY DEF DeliveryInv
<1>3. PICK x \in AuditEntry : x = calls[c].entry
  BY <1>1, <1>2 DEF DeliveryShape, LogCall
<1>4. Held(c) = {x} /\ Held(c) \subseteq AllHeld
  BY <1>1, <1>3 DEF Held, InHand, AllHeld
<1>5. Apart({x}, ToSet(buffer) \cup Written) /\ \A d \in LogCallers \ {c} : Apart({x}, Held(d))
  BY <1>4 DEF DeliveryInv, OnePlace, Written
<1>6. /\ OnceEach' /\ OnePlace' /\ FullIsFlushed' /\ calls' \in [LogCallers -> LogCall] /\ buffer' \in Seq(AuditEntry)
      /\ ToSet(buffer)' = ToSet(buffer) \cup {x} /\ AllHeld' \subseteq AllHeld /\ AllHeld \subseteq AllHeld' \cup Held(c)
      /\ Written' = Written /\ AllCopied' = AllCopied
  BY <1>1, <1>3, <1>5, Pushed
<1>7. AllEntries' \subseteq AllEntries
  BY <1>4, <1>6 DEF AllEntries
<1>8. EventsKnown' /\ NumbersTell'
  BY <1>1, <1>7, NumbersStay
<1>9. Somewhere'
  BY <1>1, <1>4, <1>6 DEF DeliveryInv, Somewhere
<1>10. DeliveryShape' /\ TsaCounted'
  BY <1>1, <1>2, <1>6 DEF DeliveryShape, TsaCounted
<1> QED
  BY <1>6, <1>8, <1>9, <1>10 DEF DeliveryInv

\* The same for a flush.
LEMMA BufferTaken ==
    ASSUME NEW y, NEW z
    PROVE  [[[at |-> "flush", entry |-> <<>>, batch |-> <<>>] EXCEPT !.batch = y] EXCEPT !.at = z]
             = [at |-> z, entry |-> <<>>, batch |-> y]
<1>1. [[at |-> "flush", entry |-> <<>>, batch |-> <<>>] EXCEPT !.batch = y] = [at |-> "flush", entry |-> <<>>, batch |-> y]
  OBVIOUS
<1>2. [[at |-> "flush", entry |-> <<>>, batch |-> y] EXCEPT !.at = z] = [at |-> z, entry |-> <<>>, batch |-> y]
  OBVIOUS
<1> QED
  BY <1>1, <1>2

\* flush takes all of the buffer in hand.
LEMMA FlushKeeps == ASSUME DeliveryInv, NEW c \in LogCallers, flush(c) PROVE DeliveryInv'
<1>1. /\ calls[c].at = "flush" /\ buffer' = <<>> /\ UNCHANGED <<logger, chain, lines, lost, tsa, archive>>
  BY DEF flush, Drained
<1>2. DeliveryShape /\ TsaCounted
  BY DEF DeliveryInv
<1>3. calls[c] = [at |-> "flush", entry |-> <<>>, batch |-> <<>>] /\ Held(c) = {}
  <2>1. PICK r \in LogCall : r = calls[c]
    BY <1>2 DEF DeliveryShape
  <2>2. r = [at |-> "flush", entry |-> <<>>, batch |-> <<>>]
    BY <1>1, <2>1 DEF LogCall
  <2>3. InHand(r) = {}
    BY <2>2, NoEntries DEF InHand
  <2> QED
    BY <2>1, <2>2, <2>3 DEF Held
<1>4. PICK b \in Seq(AuditEntry) : b = buffer
  BY <1>2 DEF DeliveryShape
<1>5. used' \in [faults : Nat, events : Nat, stopped : BOOLEAN] /\ used'.events = used.events
  <2>1. PICK u \in [faults : Nat, events : Nat, stopped : BOOLEAN] : u = used
    BY <1>2 DEF DeliveryShape
  <2>2. used' = u \/ used' = [u EXCEPT !.faults = @ + 1]
    BY <2>1 DEF flush, AuditFault
  <2>3. PICK n \in Nat : n = u.faults + 1
    OBVIOUS
  <2>4. [u EXCEPT !.faults = n] \in [faults : Nat, events : Nat, stopped : BOOLEAN]
    OBVIOUS
  <2>5. [u EXCEPT !.faults = n].events = u.events
    OBVIOUS
  <2> QED
    BY <2>1, <2>2, <2>3, <2>4, <2>5
<1>6. PICK q \in LogCall : calls' = [calls EXCEPT ![c] = q] /\ InHand(q) = ToSet(b) /\ q.batch = b
  <2>1. CASE b = <<>>
    <3>1. calls' = [calls EXCEPT ![c] = NoEntry]
      BY <1>4, <2>1 DEF flush
    <3>2. NoEntry.batch = b
      BY <2>1 DEF NoEntry
    <3> QED
      BY <2>1, <3>1, <3>2, NoEntries
  <2>2. CASE b # <<>>
    <3>1. PICK to \in {"file", "stdout"} : calls' = [calls EXCEPT ![c] = [[@ EXCEPT !.batch = b] EXCEPT !.at = to]]
      <4>1. \/ calls' = [calls EXCEPT ![c] = [@ EXCEPT !.batch = b, !.at = "file"]]
            \/ calls' = [calls EXCEPT ![c].batch = b, ![c].at = "stdout"]
        BY <1>4, <2>2 DEF flush
      <4>2. calls \in [LogCallers -> LogCall]
        BY <1>2 DEF DeliveryShape
      <4> QED
        BY <4>1, <4>2
    <3>2. PICK q \in LogCall : q = [at |-> to, entry |-> <<>>, batch |-> b]
      BY <2>2 DEF LogCall
    <3>3. [[calls[c] EXCEPT !.batch = b] EXCEPT !.at = to] = q
      <4>1. \A y, z : [[[at |-> "flush", entry |-> <<>>, batch |-> <<>>] EXCEPT !.batch = y] EXCEPT !.at = z]
                        = [at |-> z, entry |-> <<>>, batch |-> y]
        BY BufferTaken
      <4> QED
        BY <1>3, <3>2, <4>1
    <3>4. calls' = [calls EXCEPT ![c] = q]
      BY <1>2, <3>1, <3>3 DEF DeliveryShape
    <3>5. InHand(q) = ToSet(b) /\ q.batch = b
      BY <3>2 DEF InHand
    <3> QED
      BY <3>4, <3>5
  <2> QED
    BY <2>1, <2>2
<1>7. /\ calls' \in [LogCallers -> LogCall] /\ calls'[c] = q /\ Held(c)' = ToSet(b)
      /\ \A d \in LogCallers \ {c} : calls'[d] = calls[d] /\ Held(d)' = Held(d)
      /\ AllHeld' \subseteq AllHeld \cup ToSet(b) /\ AllHeld \subseteq AllHeld'
  BY <1>2, <1>3, <1>6, OthersKeepTheirs
<1>8. ToSet(b) \subseteq AllHeld' /\ AllCopied' = AllCopied /\ Written' = Written /\ ToSet(buffer)' = {}
  BY <1>1, <1>7, NoEntries DEF AllHeld, AllCopied, Written
<1>9. AllEntries' \subseteq AllEntries
  BY <1>4, <1>7, <1>8 DEF AllEntries
<1>10. EventsKnown' /\ NumbersTell'
  BY <1>1, <1>5, <1>9, NumbersStay
<1>11. OnceEach'
  BY <1>1, <1>4, <1>6, <1>7, NoEntries DEF DeliveryInv, OnceEach
<1>12. OnePlace'
  <2>1. \A d \in LogCallers : Apart(Held(d)', Written)
    BY <1>4, <1>7 DEF DeliveryInv, OnePlace, Written, Apart
  <2>2. \A d \in LogCallers : \A g \in LogCallers \ {d} : Apart(Held(d)', Held(g)')
    BY <1>4, <1>7 DEF DeliveryInv, OnePlace, Apart
  <2>3. Apart({}, Written) /\ \A S : Apart(S, {}) /\ \A T : S \cup {} = S
    BY DEF Apart
  <2>4. Apart(ToSet(lines.file), ToSet(lines.stdout))
    BY DEF DeliveryInv, OnePlace
  <2> QED
    BY <1>1, <1>8, <2>1, <2>2, <2>3, <2>4 DEF OnePlace, Written, Apart
<1>13. Somewhere'
  BY <1>1, <1>4, <1>5, <1>7, <1>8 DEF DeliveryInv, Somewhere
<1>14. FullIsFlushed'
  <2>1. Len(buffer') = 0
    BY <1>1
  <2> QED
    BY <2>1, DeliveryAssumption DEF FullIsFlushed, backlog_depth
<1>15. DeliveryShape' /\ TsaCounted'
  <2>1. buffer' \in Seq(AuditEntry)
    BY <1>1, NoEntries
  <2> QED
    BY <1>1, <1>2, <1>5, <1>7, <2>1 DEF DeliveryShape, TsaCounted
<1> QED
  BY <1>10, <1>11, <1>12, <1>13, <1>14, <1>15 DEF DeliveryInv

\* Nothing flushes what the process had when it ends.
LEMMA StopKeeps == ASSUME DeliveryInv, StopLogging PROVE DeliveryInv'
<1>1. /\ lost' = lost \cup {e.event : e \in ToSet(buffer)} \cup UNION {InFlight(c) : c \in LogCallers}
      /\ logger' = [logger EXCEPT !.key = SigningKey(logger.keyFile, @ + 1)]
      /\ buffer' = <<>> /\ chain' = NewChain /\ calls' = [c \in LogCallers |-> NoEntry]
      /\ tsa' = [NewTsa EXCEPT !.polls = tsa.polls] /\ UNCHANGED <<lines, archive>>
      /\ used' = [used EXCEPT !.faults = @ + 1, !.stopped = TRUE]
  BY DEF StopLogging
<1>2. DeliveryShape
  BY DEF DeliveryInv
<1>3. used' \in [faults : Nat, events : Nat, stopped : BOOLEAN] /\ used'.events = used.events
  <2>1. PICK u \in [faults : Nat, events : Nat, stopped : BOOLEAN] : u = used
    BY <1>2 DEF DeliveryShape
  <2>2. PICK n \in Nat : n = u.faults + 1
    OBVIOUS
  <2>3. used' = [u EXCEPT !.faults = n, !.stopped = TRUE]
    BY <1>1, <2>1, <2>2
  <2>4. used' \in [faults : Nat, events : Nat, stopped : BOOLEAN]
    BY <2>3
  <2>5. used'.events = u.events
    BY <2>3
  <2> QED
    BY <2>1, <2>4, <2>5
<1>4. PICK l \in [kind : {"plain", "signed", "timestamped"}, kafka : BOOLEAN, key : Nat, keyFile : {"unset", "good", "short"}] : l = logger
  BY <1>2 DEF DeliveryShape
<1>5. PICK k \in Nat : k = SigningKey(l.keyFile, l.key + 1) /\ (l.keyFile # "good" => k = l.key + 1)
  BY DEF SigningKey, load_or_create_key_file
<1>6. /\ logger' \in [kind : {"plain", "signed", "timestamped"}, kafka : BOOLEAN, key : Nat, keyFile : {"unset", "good", "short"}]
      /\ logger'.kind = l.kind /\ logger'.key = k /\ logger'.keyFile = l.keyFile
  <2>1. logger' = [l EXCEPT !.key = k]
    BY <1>1, <1>4, <1>5
  <2>2. logger' \in [kind : {"plain", "signed", "timestamped"}, kafka : BOOLEAN, key : Nat, keyFile : {"unset", "good", "short"}]
    BY <2>1
  <2>3. logger'.kind = l.kind /\ logger'.key = k /\ logger'.keyFile = l.keyFile
    BY <2>1
  <2> QED
    BY <2>2, <2>3
<1>7. /\ calls' \in [LogCallers -> LogCall] /\ buffer' \in Seq(AuditEntry)
      /\ \A c \in LogCallers : calls'[c] = NoEntry /\ Held(c)' = {}
  BY <1>1, NoEntries DEF Held
<1>8. AllHeld' = {} /\ ToSet(buffer)' = {} /\ Written' = Written /\ AllCopied' = AllCopied
  BY <1>1, <1>7, NoEntries DEF AllHeld, Written, AllCopied
<1>9. AllEntries' \subseteq AllEntries
  BY <1>8 DEF AllEntries
<1>10. EventsKnown'
  BY <1>3, <1>9 DEF DeliveryInv, EventsKnown
<1>11. NumbersTell'
  <2>1. SUFFICES ASSUME l.kind # "plain", l.keyFile # "good", NEW x \in AllEntries'
                 PROVE  /\ x.key <= k
                        /\ x.key = k => x.sequence < chain'.sequence
                        /\ \A y \in AllEntries' : x.event # y.event /\ x.key = y.key => x.sequence # y.sequence
    BY <1>6 DEF NumbersTell
  <2>2. /\ x.key <= l.key
        /\ \A y \in AllEntries' : x.event # y.event /\ x.key = y.key => x.sequence # y.sequence
    BY <1>4, <1>9, <2>1 DEF DeliveryInv, NumbersTell
  <2>3. x.key \in Nat
    BY <1>2, <1>9, EntriesAre DEF AuditEntry
  <2>4. x.key <= k /\ x.key # k
    BY <1>5, <2>1, <2>2, <2>3
  <2> QED
    BY <2>2, <2>4
<1>12. OnceEach'
  <2>1. NoEntry.batch = <<>>
    BY DEF NoEntry
  <2> QED
    BY <1>1, <1>7, <2>1, NoEntries DEF DeliveryInv, OnceEach
<1>13. OnePlace'
  <2>1. Apart(ToSet(lines.file), ToSet(lines.stdout))
    BY DEF DeliveryInv, OnePlace
  <2>2. \A S : Apart({}, S)
    BY DEF Apart
  <2>3. lines' = lines /\ ToSet(buffer') = {}
    BY <1>1, <1>8
  <2>4. Apart(ToSet(buffer'), ToSet(lines'.file) \cup ToSet(lines'.stdout) \cup ToSet(lines'.topic))
    BY <2>2, <2>3
  <2>5. Apart(ToSet(lines'.file), ToSet(lines'.stdout))
    BY <2>1, <2>3
  <2>6. ASSUME NEW c \in LogCallers
        PROVE  /\ Apart(Held(c)', ToSet(buffer') \cup ToSet(lines'.file) \cup ToSet(lines'.stdout) \cup ToSet(lines'.topic))
               /\ \A d \in LogCallers \ {c} : Apart(Held(c)', Held(d)')
    <3>1. Held(c)' = {}
      BY <1>7
    <3> QED
      BY <2>2, <3>1, Zenon
  <2> QED
    BY <2>4, <2>5, <2>6, Zenon DEF OnePlace
<1>14. Somewhere'
  <2>1. SUFFICES ASSUME NEW e \in 1 .. used.events, e \notin lost'
                 PROVE  \E y \in ToSet(lines.file) \cup ToSet(lines.stdout) \cup AllCopied : y.event = e
    BY <1>1, <1>3, <1>8 DEF Somewhere
  <2>2. PICK y \in ToSet(buffer) \cup ToSet(lines.file) \cup ToSet(lines.stdout) \cup AllHeld \cup AllCopied : y.event = e
    BY <1>1, <2>1 DEF DeliveryInv, Somewhere
  <2>3. y \notin ToSet(buffer)
    BY <1>1, <2>1, <2>2
  <2>4. y \notin AllHeld
    <3>1. ASSUME NEW c \in LogCallers, y \in Held(c) PROVE FALSE
      <4>1. e \in InFlight(c)
        BY <1>2, <2>2, <3>1, HandIsInFlight
      <4> QED
        BY <1>1, <2>1, <4>1
    <3> QED
      BY <3>1 DEF AllHeld
  <2> QED
    BY <2>2, <2>3, <2>4
<1>15. FullIsFlushed'
  <2>1. Len(buffer') = 0
    BY <1>1
  <2> QED
    BY <2>1, DeliveryAssumption DEF FullIsFlushed, backlog_depth
<1>16. tsa' \in TsaSet(BOOLEAN, Nat, Seq(Nat)) /\ TsaCounted'
  <2>1. PICK p \in Nat : p = tsa.polls
    BY <1>2 DEF DeliveryShape, TsaSet
  <2>2. tsa' = [asked |-> FALSE, head |-> 0, current |-> <<>>, requests |-> 0, successes |-> 0, failures |-> 0,
                polls |-> p, granted |-> FALSE]
    BY <1>1, <2>1 DEF NewTsa
  <2>3. <<>> \in Seq(Nat)
    OBVIOUS
  <2>4. tsa' \in TsaSet(BOOLEAN, Nat, Seq(Nat))
    BY <2>2, <2>3 DEF TsaSet
  <2>5. ~tsa'.asked /\ tsa'.requests = 0 /\ tsa'.successes = 0 /\ tsa'.failures = 0
    BY <2>2
  <2> QED
    BY <2>4, <2>5 DEF TsaCounted
<1>17. DeliveryShape'
  <2>1. chain' \in [sequence : Nat, previous : Nat]
    BY <1>1 DEF NewChain
  <2> QED
    BY <1>1, <1>2, <1>3, <1>6, <1>7, <1>16, <2>1 DEF DeliveryShape
<1> QED
  BY <1>10, <1>11, <1>12, <1>13, <1>14, <1>15, <1>16, <1>17 DEF DeliveryInv

\* Standard output is replaced.
LEMMA StdoutTaken ==
    ASSUME NEW e, NEW f, NEW g, NEW y
    PROVE  [[file |-> e, stdout |-> f, topic |-> g] EXCEPT !["stdout"] = y] = [file |-> e, stdout |-> y, topic |-> g]
OBVIOUS

\* What one line adds to the log.
LEMMA LineAdds ==
    ASSUME DeliveryShape, NEW c \in LogCallers, WriteLine(c),
           NEW h, h = Head(calls[c].batch), h \in AuditEntry
    PROVE  \E F, P, T \in Seq(AuditEntry) :
              /\ lines' = [file |-> F, stdout |-> P, topic |-> T]
              /\ T = lines.topic \/ T = Append(lines.topic, h)
              /\ \/ F = Append(lines.file, h) /\ P = lines.stdout /\ lost' = lost /\ used' = used
                 \/ F = lines.file /\ P = Append(lines.stdout, h) /\ lost' = lost /\ used' = used
                 \/ F = lines.file /\ P = lines.stdout /\ lost' = lost \cup {h.event} /\ used' = [used EXCEPT !.faults = @ + 1]
<1>1. PICK F, P, T \in Seq(AuditEntry) : lines = [file |-> F, stdout |-> P, topic |-> T]
  BY DEF DeliveryShape
<1>2. PICK Fh, Ph, Th \in Seq(AuditEntry) : Fh = Append(F, h) /\ Ph = Append(P, h) /\ Th = Append(T, h)
  BY AppendedEntry
<1>3. PICK to \in {"file", "stdout"} : to = calls[c].at
  BY DEF WriteLine
<1>4. PICK l : /\ lines' = l \/ lines' = [l EXCEPT !.topic = Append(@, h)]
               /\ \/ l = [lines EXCEPT ![to] = Append(@, h)] /\ lost' = lost /\ used' = used
                  \/ l = lines /\ lost' = lost \cup {h.event} /\ used' = [used EXCEPT !.faults = @ + 1]
  BY <1>3 DEF WriteLine, AuditFault
<1>5. lines.file = F /\ lines.stdout = P /\ lines.topic = T
  BY <1>1
<1>6. [lines EXCEPT !["file"] = Append(@, h)] = [file |-> Fh, stdout |-> P, topic |-> T]
  <2>1. [lines EXCEPT !["file"] = Append(@, h)] = [lines EXCEPT !["file"] = Fh]
    BY <1>2, <1>5
  <2>2. [[file |-> F, stdout |-> P, topic |-> T] EXCEPT !["file"] = Fh] = [file |-> Fh, stdout |-> P, topic |-> T]
    OBVIOUS
  <2> QED
    BY <1>1, <2>1, <2>2
<1>7. [lines EXCEPT !["stdout"] = Append(@, h)] = [file |-> F, stdout |-> Ph, topic |-> T]
  <2>1. [lines EXCEPT !["stdout"] = Append(@, h)] = [lines EXCEPT !["stdout"] = Ph]
    BY <1>2, <1>5
  <2>2. [[file |-> F, stdout |-> P, topic |-> T] EXCEPT !["stdout"] = Ph] = [file |-> F, stdout |-> Ph, topic |-> T]
    BY StdoutTaken
  <2> QED
    BY <1>1, <2>1, <2>2
<1>8. PICK F2, P2 \in Seq(AuditEntry) :
        /\ l = [file |-> F2, stdout |-> P2, topic |-> T]
        /\ \/ F2 = Append(F, h) /\ P2 = P /\ lost' = lost /\ used' = used
           \/ F2 = F /\ P2 = Append(P, h) /\ lost' = lost /\ used' = used
           \/ F2 = F /\ P2 = P /\ lost' = lost \cup {h.event} /\ used' = [used EXCEPT !.faults = @ + 1]
  <2>1. CASE l = [lines EXCEPT ![to] = Append(@, h)] /\ lost' = lost /\ used' = used
    <3>1. CASE to = "file"
      BY <1>2, <1>6, <2>1, <3>1
    <3>2. CASE to = "stdout"
      BY <1>2, <1>7, <2>1, <3>2
    <3> QED
      BY <1>3, <3>1, <3>2
  <2>2. CASE l = lines /\ lost' = lost \cup {h.event} /\ used' = [used EXCEPT !.faults = @ + 1]
    BY <1>1, <2>2
  <2> QED
    BY <1>4, <2>1, <2>2
<1>9. [l EXCEPT !.topic = Append(@, h)] = [file |-> F2, stdout |-> P2, topic |-> Th]
  <2>1. l.topic = T
    BY <1>8
  <2>2. [l EXCEPT !.topic = Append(@, h)] = [l EXCEPT !.topic = Th]
    BY <1>2, <2>1
  <2>3. [[file |-> F2, stdout |-> P2, topic |-> T] EXCEPT !.topic = Th] = [file |-> F2, stdout |-> P2, topic |-> Th]
    OBVIOUS
  <2> QED
    BY <1>8, <2>2, <2>3
<1>10. PICK T2 \in Seq(AuditEntry) : (T2 = T \/ T2 = Append(T, h)) /\ lines' = [file |-> F2, stdout |-> P2, topic |-> T2]
  BY <1>2, <1>4, <1>8, <1>9
<1> QED
  BY <1>5, <1>8, <1>10

\* A line is written, or lost.
LEMMA LineKeeps == ASSUME DeliveryInv, NEW c \in LogCallers, WriteLine(c) PROVE DeliveryInv'
<1>1. calls[c].at \in {"file", "stdout"} /\ UNCHANGED <<logger, buffer, chain, tsa>>
  BY DEF WriteLine
<1>2. DeliveryShape /\ TsaCounted
  BY DEF DeliveryInv
<1>3. PICK to \in {"file", "stdout"}, b \in Seq(AuditEntry) \ {<<>>} : calls[c] = [at |-> to, entry |-> <<>>, batch |-> b]
  BY <1>1, <1>2 DEF DeliveryShape, LogCall
<1>4. PICK h \in AuditEntry, rest \in Seq(AuditEntry) : h = Head(b) /\ rest = Tail(b)
  BY <1>3, FirstEntry
<1>5. Held(c) = {h} \cup ToSet(rest) /\ (Once(b) => Once(rest) /\ Apart({h}, ToSet(rest))) /\ Held(c) = ToSet(b)
  <2>1. Held(c) = ToSet(b)
    BY <1>3 DEF Held, InHand
  <2> QED
    BY <1>3, <1>4, <2>1, FirstEntry
<1>6. h = Head(calls[c].batch) /\ Once(b)
  BY <1>3, <1>4 DEF DeliveryInv, OnceEach
<1>7. PICK F, P, T \in Seq(AuditEntry) :
              /\ lines' = [file |-> F, stdout |-> P, topic |-> T]
              /\ T = lines.topic \/ T = Append(lines.topic, h)
              /\ \/ F = Append(lines.file, h) /\ P = lines.stdout /\ lost' = lost /\ used' = used
                 \/ F = lines.file /\ P = Append(lines.stdout, h) /\ lost' = lost /\ used' = used
                 \/ F = lines.file /\ P = lines.stdout /\ lost' = lost \cup {h.event} /\ used' = [used EXCEPT !.faults = @ + 1]
  BY <1>2, <1>6, LineAdds
<1>8. PICK q \in LogCall : calls' = [calls EXCEPT ![c] = q] /\ InHand(q) = ToSet(rest) /\ q.batch = rest
  <2>1. calls' = [calls EXCEPT ![c] = IF rest = <<>> THEN NoEntry ELSE [@ EXCEPT !.batch = rest]]
    <3>1. calls' = [calls EXCEPT ![c] = IF Tail(calls[c].batch) = <<>> THEN NoEntry ELSE [@ EXCEPT !.batch = Tail(calls[c].batch)]]
      BY ZenonT(30) DEF WriteLine
    <3>2. Tail(calls[c].batch) = rest
      BY <1>3, <1>4
    <3> QED
      BY <3>1, <3>2
  <2>2. CASE rest = <<>>
    <3>1. NoEntry.batch = rest
      BY <2>2 DEF NoEntry
    <3> QED
      BY <2>1, <2>2, <3>1, NoEntries
  <2>3. CASE rest # <<>>
    <3>1. PICK q \in LogCall : q = [at |-> to, entry |-> <<>>, batch |-> rest]
      BY <1>4, <2>3 DEF LogCall
    <3>2. \A y, z, w : [[at |-> y, entry |-> <<>>, batch |-> z] EXCEPT !.batch = w] = [at |-> y, entry |-> <<>>, batch |-> w]
      OBVIOUS
    <3>3. [calls[c] EXCEPT !.batch = rest] = q
      BY <1>3, <3>1, <3>2
    <3>4. calls' = [calls EXCEPT ![c] = q]
      BY <1>2, <2>1, <2>3, <3>3 DEF DeliveryShape
    <3>5. InHand(q) = ToSet(rest) /\ q.batch = rest
      BY <3>1 DEF InHand
    <3> QED
      BY <3>4, <3>5
  <2> QED
    BY <2>2, <2>3
<1>9. /\ calls' \in [LogCallers -> LogCall] /\ calls'[c] = q /\ Held(c)' = ToSet(rest)
      /\ \A d \in LogCallers \ {c} : calls'[d] = calls[d] /\ Held(d)' = Held(d)
      /\ AllHeld' \subseteq AllHeld \cup ToSet(rest) /\ AllHeld \subseteq AllHeld' \cup Held(c)
  BY <1>2, <1>8, OthersKeepTheirs
<1>10. lines'.file = F /\ lines'.stdout = P /\ lines'.topic = T
  BY <1>7
<1>11. PICK f, p, t \in Seq(AuditEntry) : f = lines.file /\ p = lines.stdout /\ t = lines.topic
  BY <1>2 DEF DeliveryShape
<1>12. Held(c) \subseteq AllHeld /\ ToSet(rest) \subseteq AllHeld'
  BY <1>9 DEF AllHeld
<1>13. /\ Apart({h}, ToSet(buffer) \cup ToSet(f) \cup ToSet(p) \cup ToSet(t)) /\ Apart({h}, ToSet(rest))
       /\ \A d \in LogCallers \ {c} : Apart({h}, Held(d))
  BY <1>5, <1>6, <1>11 DEF DeliveryInv, OnePlace, Apart
<1>14. \A s \in Seq(AuditEntry) : /\ ToSet(Append(s, h)) = ToSet(s) \cup {h}
                                  /\ Once(s) /\ Apart({h}, ToSet(s)) => Once(Append(s, h))
  BY AppendedEntry
<1>15. /\ Once(f) /\ Once(p) /\ Once(t) /\ Apart({h}, ToSet(f)) /\ Apart({h}, ToSet(p)) /\ Apart({h}, ToSet(t))
  BY <1>11, <1>13 DEF DeliveryInv, OnceEach, Apart
<1>16. /\ ToSet(F) \subseteq ToSet(f) \cup {h} /\ ToSet(P) \subseteq ToSet(p) \cup {h} /\ ToSet(T) \subseteq ToSet(t) \cup {h}
       /\ ToSet(f) \subseteq ToSet(F) /\ ToSet(p) \subseteq ToSet(P)
       /\ (F = f \/ P = p) /\ Once(F) /\ Once(P) /\ Once(T)
  <2>1. F = f \/ (F = Append(f, h) /\ P = p)
    BY <1>7, <1>11
  <2>2. P = p \/ P = Append(p, h)
    BY <1>7, <1>11
  <2>3. T = t \/ T = Append(t, h)
    BY <1>7, <1>11
  <2> QED
    BY <1>14, <1>15, <2>1, <2>2, <2>3
<1>17. used' \in [faults : Nat, events : Nat, stopped : BOOLEAN] /\ used'.events = used.events
  <2>1. PICK u \in [faults : Nat, events : Nat, stopped : BOOLEAN] : u = used
    BY <1>2 DEF DeliveryShape
  <2>2. used' = u \/ used' = [u EXCEPT !.faults = @ + 1]
    BY <1>7, <2>1
  <2>3. PICK n \in Nat : n = u.faults + 1
    OBVIOUS
  <2>4. [u EXCEPT !.faults = n] \in [faults : Nat, events : Nat, stopped : BOOLEAN]
    OBVIOUS
  <2>5. [u EXCEPT !.faults = n].events = u.events
    OBVIOUS
  <2> QED
    BY <2>1, <2>2, <2>3, <2>4, <2>5
<1>18. archive' \in [copies : SUBSET Seq(AuditEntry), uploads : Nat, age : Nat] /\ archive'.copies = archive.copies
  <2>1. PICK v \in [copies : SUBSET Seq(AuditEntry), uploads : Nat, age : Nat] : v = archive
    BY <1>2 DEF DeliveryShape
  <2>2. archive' = v \/ archive' = [v EXCEPT !.age = 0]
    BY <2>1 DEF WriteLine
  <2>3. [v EXCEPT !.age = 0] \in [copies : SUBSET Seq(AuditEntry), uploads : Nat, age : Nat]
    OBVIOUS
  <2>4. [v EXCEPT !.age = 0].copies = v.copies
    OBVIOUS
  <2> QED
    BY <2>1, <2>2, <2>3, <2>4
<1>19. AllCopied' = AllCopied
  BY <1>18 DEF AllCopied
<1>20. AllEntries' \subseteq AllEntries
  BY <1>1, <1>5, <1>9, <1>10, <1>11, <1>12, <1>16, <1>19 DEF AllEntries, Written
<1>21. EventsKnown' /\ NumbersTell'
  BY <1>1, <1>17, <1>20, NumbersStay
<1>22. OnceEach'
  <2>1. Once(q.batch)
    BY <1>5, <1>6, <1>8
  <2> QED
    BY <1>1, <1>9, <1>10, <1>16, <1>18, <2>1 DEF DeliveryInv, OnceEach
<1>23. OnePlace'
  <2>1. Apart(ToSet(buffer), ToSet(F) \cup ToSet(P) \cup ToSet(T))
    BY <1>11, <1>13, <1>16 DEF DeliveryInv, OnePlace, Apart
  <2>2. Apart(ToSet(F), ToSet(P))
    <3>1. Apart(ToSet(f), ToSet(p))
      BY <1>11 DEF DeliveryInv, OnePlace
    <3> QED
      BY <1>15, <1>16, <3>1 DEF Apart
  <2>3. \A d \in LogCallers : Apart(Held(d)', ToSet(buffer) \cup ToSet(F) \cup ToSet(P) \cup ToSet(T))
    <3>1. Apart(ToSet(rest), ToSet(buffer) \cup ToSet(F) \cup ToSet(P) \cup ToSet(T))
      BY <1>5, <1>11, <1>13, <1>16 DEF DeliveryInv, OnePlace, Apart
    <3>2. ASSUME NEW d \in LogCallers \ {c}
          PROVE  Apart(Held(d), ToSet(buffer) \cup ToSet(F) \cup ToSet(P) \cup ToSet(T))
      BY <1>11, <1>13, <1>16 DEF DeliveryInv, OnePlace, Apart
    <3> QED
      BY <1>9, <3>1, <3>2
  <2>4. \A d \in LogCallers : \A g \in LogCallers \ {d} : Apart(Held(d)', Held(g)')
    <3>1. ASSUME NEW d \in LogCallers, NEW g \in LogCallers \ {d} PROVE Apart(Held(d), Held(g))
      BY <3>1 DEF DeliveryInv, OnePlace
    <3>2. \A d \in LogCallers : Held(d)' \subseteq Held(d)
      BY <1>5, <1>9
    <3> QED
      BY <3>1, <3>2 DEF Apart
  <2> QED
    BY <1>1, <1>10, <2>1, <2>2, <2>3, <2>4 DEF OnePlace
<1>24. Somewhere'
  <2>1. SUFFICES ASSUME NEW e \in 1 .. used.events, e \notin lost'
                 PROVE  \E y \in ToSet(buffer) \cup ToSet(F) \cup ToSet(P) \cup AllHeld' \cup AllCopied : y.event = e
    BY <1>1, <1>10, <1>17, <1>19 DEF Somewhere
  <2>2. PICK y \in ToSet(buffer) \cup ToSet(f) \cup ToSet(p) \cup AllHeld \cup AllCopied : y.event = e
    BY <1>7, <1>11, <2>1 DEF DeliveryInv, Somewhere
  <2>3. CASE y # h
    BY <1>5, <1>9, <1>12, <1>16, <2>2, <2>3
  <2>4. CASE y = h
    <3>1. F = Append(f, h) \/ P = Append(p, h)
      BY <1>7, <1>11, <2>1, <2>2, <2>4
    <3>2. h \in ToSet(F) \/ h \in ToSet(P)
      BY <1>11, <1>14, <3>1
    <3> QED
      BY <2>2, <2>4, <3>2
  <2> QED
    BY <2>3, <2>4
<1>25. FullIsFlushed'
  <2>1. calls[c].at # "flush"
    BY <1>1
  <2> QED
    BY <1>1, <1>9, <2>1 DEF DeliveryInv, FullIsFlushed, backlog_depth
<1>26. DeliveryShape' /\ TsaCounted'
  <2>1. lines' \in [file : Seq(AuditEntry), stdout : Seq(AuditEntry), topic : Seq(AuditEntry)]
    BY <1>7
  <2> QED
    BY <1>1, <1>2, <1>9, <1>17, <1>18, <2>1 DEF DeliveryShape, TsaCounted
<1> QED
  BY <1>21, <1>22, <1>23, <1>24, <1>25, <1>26 DEF DeliveryInv

\* Files over an hour old are uploaded.
LEMMA ArchiveKeeps == ASSUME DeliveryInv, archive_completed_files PROVE DeliveryInv'
<1>1. UNCHANGED <<logger, buffer, chain, calls, lines, lost, tsa, used>>
  BY DEF archive_completed_files
<1>2. PICK v \in [copies : SUBSET Seq(AuditEntry), uploads : Nat, age : Nat] : v = archive
  BY DEF DeliveryInv, DeliveryShape
<1>3. PICK f \in Seq(AuditEntry) : f = lines.file
  BY DEF DeliveryInv, DeliveryShape
<1>4. PICK n \in Nat : n = v.uploads + 1
  OBVIOUS
<1>5. PICK C \in SUBSET Seq(AuditEntry) : /\ C = v.copies \/ C = v.copies \cup {f}
                                          /\ archive' = [v EXCEPT !.copies = C, !.uploads = n]
  <2>1. archive' = [v EXCEPT !.copies = @ \cup {f}, !.uploads = @ + 1] \/ archive' = [v EXCEPT !.uploads = @ + 1]
    BY <1>2, <1>3 DEF archive_completed_files
  <2>2. [v EXCEPT !.uploads = @ + 1] = [v EXCEPT !.copies = v.copies, !.uploads = n]
    BY <1>4
  <2>3. [v EXCEPT !.copies = @ \cup {f}, !.uploads = @ + 1] = [v EXCEPT !.copies = v.copies \cup {f}, !.uploads = n]
    BY <1>4
  <2> QED
    BY <2>1, <2>2, <2>3
<1>6. archive' \in [copies : SUBSET Seq(AuditEntry), uploads : Nat, age : Nat]
  BY <1>4, <1>5
<1>7. archive'.copies = C
  BY <1>5
<1>8. \A d \in LogCallers : Held(d)' = Held(d)
  BY <1>1 DEF Held
<1>9. AllHeld' = AllHeld /\ Written' = Written /\ AllCopied \subseteq AllCopied' /\ AllCopied' \subseteq AllCopied \cup ToSet(f)
  BY <1>1, <1>2, <1>5, <1>7, <1>8 DEF AllHeld, Written, AllCopied
<1>10. AllEntries' \subseteq AllEntries
  BY <1>1, <1>3, <1>9 DEF AllEntries, Written
<1>11. EventsKnown' /\ NumbersTell'
  BY <1>1, <1>10, NumbersStay
<1>12. OnceEach'
  BY <1>1, <1>2, <1>3, <1>5, <1>7 DEF DeliveryInv, OnceEach
<1>13. OnePlace'
  BY <1>1, <1>8 DEF DeliveryInv, OnePlace
<1>14. Somewhere'
  BY <1>1, <1>9 DEF DeliveryInv, Somewhere
<1>15. FullIsFlushed' /\ TsaCounted'
  BY <1>1 DEF DeliveryInv, FullIsFlushed, backlog_depth, TsaCounted
<1>16. DeliveryShape'
  BY <1>1, <1>6 DEF DeliveryInv, DeliveryShape
<1> QED
  BY <1>11, <1>12, <1>13, <1>14, <1>15, <1>16 DEF DeliveryInv

\* Files past the retention are deleted.
LEMMA CleanupKeeps == ASSUME DeliveryInv, cleanup_old_files PROVE DeliveryInv'
<1>1. /\ UNCHANGED <<logger, buffer, chain, calls, tsa, used>>
      /\ lost' = lost \cup {e.event : e \in {f \in ToSet(lines.file) : ~Archived(f)}}
      /\ lines' = [lines EXCEPT !.file = <<>>] /\ archive' = [archive EXCEPT !.age = 0]
  BY DEF cleanup_old_files
<1>2. PICK v \in [copies : SUBSET Seq(AuditEntry), uploads : Nat, age : Nat] : v = archive
  BY DEF DeliveryInv, DeliveryShape
<1>3. archive' \in [copies : SUBSET Seq(AuditEntry), uploads : Nat, age : Nat] /\ archive'.copies = archive.copies
  <2>1. [v EXCEPT !.age = 0] \in [copies : SUBSET Seq(AuditEntry), uploads : Nat, age : Nat]
    OBVIOUS
  <2>2. [v EXCEPT !.age = 0].copies = v.copies
    OBVIOUS
  <2> QED
    BY <1>1, <1>2, <2>1, <2>2
<1>4. PICK w \in [file : Seq(AuditEntry), stdout : Seq(AuditEntry), topic : Seq(AuditEntry)] : w = lines
  BY DEF DeliveryInv, DeliveryShape
<1>5. PICK none \in Seq(AuditEntry) : none = <<>>
  BY NoEntries
<1>6. /\ lines' \in [file : Seq(AuditEntry), stdout : Seq(AuditEntry), topic : Seq(AuditEntry)]
      /\ lines'.file = <<>> /\ lines'.stdout = lines.stdout /\ lines'.topic = lines.topic
  <2>1. lines' = [w EXCEPT !.file = none]
    BY <1>1, <1>4, <1>5
  <2>2. lines' \in [file : Seq(AuditEntry), stdout : Seq(AuditEntry), topic : Seq(AuditEntry)]
    BY <2>1
  <2>3. lines'.file = none /\ lines'.stdout = w.stdout /\ lines'.topic = w.topic
    BY <2>1
  <2> QED
    BY <1>4, <1>5, <2>2, <2>3
<1>7. \A d \in LogCallers : Held(d)' = Held(d)
  BY <1>1 DEF Held
<1>8. ToSet(lines'.file) = {} /\ Once(lines'.file)
  BY <1>6, NoEntries
<1>9. AllHeld' = AllHeld /\ AllCopied' = AllCopied /\ Written' \subseteq Written
  BY <1>3, <1>6, <1>7, <1>8 DEF AllHeld, Written, AllCopied
<1>10. AllEntries' \subseteq AllEntries
  BY <1>1, <1>9 DEF AllEntries
<1>11. EventsKnown' /\ NumbersTell'
  BY <1>1, <1>10, NumbersStay
<1>12. OnceEach'
  BY <1>1, <1>3, <1>6, <1>8 DEF DeliveryInv, OnceEach
<1>13. OnePlace'
  <2>1. PICK P, T : P = lines.stdout /\ T = lines.topic /\ lines'.stdout = P /\ lines'.topic = T
    BY <1>6
  <2>2. Apart(ToSet(buffer), ToSet(<<>>) \cup ToSet(P) \cup ToSet(T))
    BY <2>1, NoEntries DEF DeliveryInv, OnePlace, Apart
  <2>3. Apart(ToSet(<<>>), ToSet(P))
    BY NoEntries DEF Apart
  <2>4. \A d \in LogCallers : Apart(Held(d)', ToSet(buffer) \cup ToSet(<<>>) \cup ToSet(P) \cup ToSet(T))
    BY <1>7, <2>1, NoEntries DEF DeliveryInv, OnePlace, Apart
  <2>5. \A d \in LogCallers : \A g \in LogCallers \ {d} : Apart(Held(d)', Held(g)')
    BY <1>7 DEF DeliveryInv, OnePlace
  <2> QED
    BY <1>1, <1>6, <2>1, <2>2, <2>3, <2>4, <2>5 DEF OnePlace
<1>14. Somewhere'
  <2>1. SUFFICES ASSUME NEW e \in 1 .. used.events, e \notin lost'
                 PROVE  \E y \in ToSet(buffer) \cup ToSet(lines.stdout) \cup AllHeld \cup AllCopied : y.event = e
    BY <1>1, <1>6, <1>9 DEF Somewhere
  <2>2. PICK y \in ToSet(buffer) \cup ToSet(lines.file) \cup ToSet(lines.stdout) \cup AllHeld \cup AllCopied : y.event = e
    BY <1>1, <2>1 DEF DeliveryInv, Somewhere
  <2>3. y \in ToSet(lines.file) => y \in AllCopied
    BY <1>1, <2>1, <2>2 DEF Archived, AllCopied
  <2> QED
    BY <2>2, <2>3
<1>15. FullIsFlushed' /\ TsaCounted'
  BY <1>1 DEF DeliveryInv, FullIsFlushed, backlog_depth, TsaCounted
<1>16. DeliveryShape'
  BY <1>1, <1>3, <1>6 DEF DeliveryInv, DeliveryShape
<1> QED
  BY <1>11, <1>12, <1>13, <1>14, <1>15, <1>16 DEF DeliveryInv

\* Every step keeps the invariant.
LEMMA DeliveryStep == ASSUME DeliveryInv, [DeliveryNext]_deliveryVars PROVE DeliveryInv'
<1>1. CASE UNCHANGED deliveryVars
  <2>1. UNCHANGED <<logger, buffer, chain, calls, lines, lost, tsa, archive, used>>
    BY <1>1 DEF deliveryVars
  <2>2. DeliveryShape' /\ TsaCounted'
    BY <2>1 DEF DeliveryInv, DeliveryShape, TsaCounted
  <2> QED
    BY <2>1, <2>2, EntriesStay DEF DeliveryInv
<1>2. CASE \E c \in LogCallers :
             \/ log(c) \/ TakeSequence(c) \/ ReadPrevious(c) \/ ReadTimestamp(c) \/ StoreSignature(c) \/ PushSigned(c)
             \/ flush(c) \/ WriteLine(c)
  BY <1>2, PlainKeeps, SequenceKeeps, ReadPreviousKeeps, ReadTimestampKeeps, StoreSignatureKeeps, PushSignedKeeps,
     FlushKeeps, LineKeeps
<1>3. CASE StopLogging \/ TsaTick \/ TsaAnswer \/ FileAges \/ archive_completed_files \/ cleanup_old_files
  BY <1>3, StopKeeps, TsaTickKeeps, TsaAnswerKeeps, AgeKeeps, ArchiveKeeps, CleanupKeeps
<1> QED
  BY <1>1, <1>2, <1>3 DEF DeliveryNext

\* The invariant holds when the process starts.
LEMMA DeliveryInitial == ASSUME DeliveryInit PROVE DeliveryInv
<1>1. /\ buffer = <<>> /\ chain = NewChain /\ tsa = NewTsa /\ lost = {}
      /\ calls = [c \in LogCallers |-> NoEntry]
      /\ lines = [file |-> <<>>, stdout |-> <<>>, topic |-> <<>>]
      /\ archive = [copies |-> {}, uploads |-> 0, age |-> 0]
      /\ used = [faults |-> 0, events |-> 0, stopped |-> FALSE]
  BY DEF DeliveryInit
<1>2. logger \in [kind : {"plain", "signed", "timestamped"}, kafka : BOOLEAN, key : Nat, keyFile : {"unset", "good", "short"}]
  <2>1. CASE logger \in {[kind |-> k, kafka |-> k # "timestamped", key |-> 2, keyFile |-> "unset"] : k \in LoggerKinds}
    <3>1. PICK k \in {"plain", "signed", "timestamped"}, b \in BOOLEAN : logger = [kind |-> k, kafka |-> b, key |-> 2, keyFile |-> "unset"]
      BY <2>1, DeliveryAssumption
    <3> QED
      BY <3>1
  <2>2. CASE logger \in {[kind |-> k, kafka |-> FALSE, key |-> SigningKey(f, 2), keyFile |-> load_or_create_key_file(f)] :
                           k \in LoggerKinds \cap {"signed"}, f \in {"absent", "good", "short"}}
    <3>1. PICK f \in {"absent", "good", "short"} :
             logger = [kind |-> "signed", kafka |-> FALSE, key |-> SigningKey(f, 2), keyFile |-> load_or_create_key_file(f)]
      BY <2>2
    <3>2. load_or_create_key_file(f) \in {"good", "short"} /\ SigningKey(f, 2) \in Nat
      BY DEF load_or_create_key_file, SigningKey
    <3> QED
      BY <3>1, <3>2
  <2> QED
    BY <2>1, <2>2 DEF DeliveryInit
<1>3. \A c \in LogCallers : calls[c] = NoEntry /\ Held(c) = {} /\ calls[c].batch = <<>>
  BY <1>1, NoEntries DEF Held, NoEntry
<1>4. lines.file = <<>> /\ lines.stdout = <<>> /\ lines.topic = <<>> /\ archive.copies = {} /\ used.events = 0
  BY <1>1
<1>5. AllHeld = {} /\ AllCopied = {} /\ Written = {} /\ ToSet(buffer) = {}
  BY <1>1, <1>3, <1>4, NoEntries DEF AllHeld, AllCopied, Written
<1>6. AllEntries = {}
  BY <1>5 DEF AllEntries
<1>7. EventsKnown /\ NumbersTell
  BY <1>6 DEF EventsKnown, NumbersTell
<1>8. OnceEach
  BY <1>1, <1>3, <1>4, NoEntries DEF OnceEach
<1>9. OnePlace
  BY <1>1, <1>3, <1>4, NoEntries DEF OnePlace, Apart
<1>10. Somewhere
  BY <1>4 DEF Somewhere
<1>11. FullIsFlushed
  <2>1. Len(buffer) = 0
    BY <1>1
  <2> QED
    BY <2>1, DeliveryAssumption DEF FullIsFlushed, backlog_depth
<1>12. TsaCounted /\ tsa \in TsaSet(BOOLEAN, Nat, Seq(Nat))
  <2>1. tsa = [asked |-> FALSE, head |-> 0, current |-> <<>>, requests |-> 0, successes |-> 0, failures |-> 0,
               polls |-> 0, granted |-> FALSE]
    BY <1>1 DEF NewTsa
  <2>2. <<>> \in Seq(Nat)
    OBVIOUS
  <2>3. tsa \in TsaSet(BOOLEAN, Nat, Seq(Nat))
    BY <2>1, <2>2 DEF TsaSet
  <2>4. ~tsa.asked /\ tsa.requests = 0 /\ tsa.successes = 0 /\ tsa.failures = 0
    BY <2>1
  <2> QED
    BY <2>3, <2>4 DEF TsaCounted
<1>13. DeliveryShape
  <2>1. calls \in [LogCallers -> LogCall]
    BY <1>1, NoEntries
  <2>2. buffer \in Seq(AuditEntry) /\ lines \in [file : Seq(AuditEntry), stdout : Seq(AuditEntry), topic : Seq(AuditEntry)]
    BY <1>1, NoEntries
  <2>3. chain \in [sequence : Nat, previous : Nat]
    BY <1>1 DEF NewChain
  <2>4. archive \in [copies : SUBSET Seq(AuditEntry), uploads : Nat, age : Nat] /\ used \in [faults : Nat, events : Nat, stopped : BOOLEAN]
    BY <1>1
  <2> QED
    BY <1>2, <1>12, <2>1, <2>2, <2>3, <2>4 DEF DeliveryShape
<1> QED
  BY <1>7, <1>8, <1>9, <1>10, <1>11, <1>12, <1>13 DEF DeliveryInv

\* A set all of whose members are the same has at most one.
LEMMA AtMostOne ==
    ASSUME NEW S, \A x, y \in S : x = y
    PROVE  Cardinality(S) \in {0, 1} /\ (Cardinality(S) = 1 <=> S # {})
<1>1. CASE S = {}
  BY <1>1, FS_EmptySet
<1>2. CASE S # {}
  <2>1. PICK x \in S : S = {x}
    BY <1>2
  <2> QED
    BY <2>1, FS_Singleton
<1> QED
  BY <1>1, <1>2

\* The entries of a sequence that has each event once.
LEMMA CountOnce ==
    ASSUME NEW seq \in Seq(AuditEntry), Once(seq), NEW e
    PROVE  Count(seq, e) \in {0, 1} /\ (Count(seq, e) = 1 <=> \E x \in ToSet(seq) : x.event = e)
<1>1. PICK n \in Nat : n = Len(seq) /\ DOMAIN seq = 1..n
  OBVIOUS
<1>2. PICK places : places = {i \in 1 .. Len(seq) : seq[i].event = e}
  OBVIOUS
<1>3. \A i, j \in places : i = j
  BY <1>1, <1>2 DEF Once
<1>4. places # {} <=> \E x \in ToSet(seq) : x.event = e
  BY <1>1, <1>2 DEF ToSet
<1> QED
  <2>1. Count(seq, e) = Cardinality(places)
    BY <1>2 DEF Count
  <2>2. Cardinality(places) \in {0, 1} /\ (Cardinality(places) = 1 <=> places # {})
    BY <1>3, AtMostOne
  <2> QED
    BY <1>4, <2>1, <2>2

\* Every event is in one place, or in the archive, or lost.
LEMMA EventsConserved == ASSUME DeliveryInv PROVE Conserved
<1>1. DeliveryShape
  BY DEF DeliveryInv
<1>2. SUFFICES ASSUME NEW e \in 1 .. used.events
               PROVE  /\ Places(e) <= 1
                      /\ Places(e) = 0 => e \in lost \/ \E copy \in archive.copies : Count(copy, e) = 1
                      /\ Count(lines.topic, e) <= 1
  BY DEF Conserved
<1>3. PICK b, f, p, t \in Seq(AuditEntry) : b = buffer /\ f = lines.file /\ p = lines.stdout /\ t = lines.topic
  BY <1>1 DEF DeliveryShape
<1>4. Once(b) /\ Once(f) /\ Once(p) /\ Once(t)
  BY <1>3 DEF DeliveryInv, OnceEach
<1>5. PICK q : q = Cardinality(query({e}))
  OBVIOUS
<1>6. q \in {0, 1} /\ (q = 1 <=> \E x \in ToSet(b) : x.event = e)
  <2>1. query({e}) = {i \in 1 .. Len(b) : b[i].event = e}
    BY <1>3 DEF query
  <2>2. q = Count(b, e)
    BY <1>5, <2>1 DEF Count
  <2> QED
    BY <1>4, <2>2, CountOnce
<1>7. /\ Count(f, e) \in {0, 1} /\ (Count(f, e) = 1 <=> \E x \in ToSet(f) : x.event = e)
      /\ Count(p, e) \in {0, 1} /\ (Count(p, e) = 1 <=> \E x \in ToSet(p) : x.event = e)
      /\ Count(t, e) \in {0, 1}
  BY <1>4, CountOnce
<1>8. PICK holders : holders = {c \in LogCallers : e \in InFlight(c)}
  OBVIOUS
<1>9. \A c \in LogCallers : c \in holders <=> \E x \in Held(c) : x.event = e
  BY <1>1, <1>8, HandIsInFlight
<1>10. \A c, d \in holders : c = d
  <2>1. ASSUME NEW c \in LogCallers, NEW d \in LogCallers, c \in holders, d \in holders, c # d PROVE FALSE
    BY <1>9, <2>1 DEF DeliveryInv, OnePlace, Apart
  <2> QED
    BY <1>8, <2>1
<1>11. PICK h : h = Cardinality(holders) /\ h \in {0, 1} /\ (h = 1 <=> \E x \in AllHeld : x.event = e)
  <2>1. holders # {} <=> \E x \in AllHeld : x.event = e
    BY <1>8, <1>9 DEF AllHeld
  <2> QED
    BY <1>10, <2>1, AtMostOne
<1>12. Places(e) = q + Count(f, e) + Count(p, e) + h
  BY <1>3, <1>5, <1>8, <1>11 DEF Places
<1>13. /\ ~(q = 1 /\ Count(f, e) = 1) /\ ~(q = 1 /\ Count(p, e) = 1) /\ ~(Count(f, e) = 1 /\ Count(p, e) = 1)
  BY <1>3, <1>6, <1>7 DEF DeliveryInv, OnePlace, Apart
<1>14. h = 1 => q = 0 /\ Count(f, e) = 0 /\ Count(p, e) = 0
  <2>1. ASSUME NEW x \in AllHeld, NEW y \in ToSet(b) \cup ToSet(f) \cup ToSet(p) PROVE x.event # y.event
    BY <1>3 DEF DeliveryInv, OnePlace, Apart, AllHeld
  <2> QED
    BY <1>6, <1>7, <1>11, <2>1
<1>15. Places(e) <= 1
  BY <1>6, <1>7, <1>11, <1>12, <1>13, <1>14
<1>16. ASSUME Places(e) = 0, e \notin lost PROVE \E copy \in archive.copies : Count(copy, e) = 1
  <2>1. q = 0 /\ Count(f, e) = 0 /\ Count(p, e) = 0 /\ h = 0
    BY <1>6, <1>7, <1>11, <1>12, <1>16
  <2>2. PICK x \in ToSet(b) \cup ToSet(f) \cup ToSet(p) \cup AllHeld \cup AllCopied : x.event = e
    BY <1>3, <1>16 DEF DeliveryInv, Somewhere
  <2>3. x \in AllCopied
    BY <1>6, <1>7, <1>11, <2>1, <2>2
  <2>4. PICK copy \in archive.copies : x \in ToSet(copy)
    BY <2>3 DEF AllCopied
  <2>5. copy \in Seq(AuditEntry) /\ Once(copy)
    BY <1>1 DEF DeliveryInv, DeliveryShape, OnceEach
  <2>6. Count(copy, e) = 1
    BY <2>2, <2>4, <2>5, CountOnce
  <2> QED
    BY <2>6
<1>17. Count(lines.topic, e) <= 1
  BY <1>3, <1>7
<1> QED
  BY <1>15, <1>16, <1>17

\* The numbers tell the entries of a file, or of a copy, apart.
LEMMA EntriesNumbered == ASSUME DeliveryInv PROVE Numbered
<1>1. DeliveryShape
  BY DEF DeliveryInv
<1>2. SUFFICES ASSUME logger.kind # "plain", logger.keyFile # "good",
                      NEW content \in archive.copies \cup {lines.file},
                      NEW i \in 1 .. Len(content), NEW j \in 1 .. Len(content), i < j, content[i].key = content[j].key
               PROVE  content[i].sequence # content[j].sequence
  BY DEF Numbered
<1>3. content \in Seq(AuditEntry) /\ Once(content)
  BY <1>1 DEF DeliveryInv, DeliveryShape, OnceEach
<1>4. ToSet(content) \subseteq AllEntries
  BY DEF AllEntries, Written, AllCopied
<1>5. content[i] \in ToSet(content) /\ content[j] \in ToSet(content)
  BY <1>3 DEF ToSet
<1>6. content[i].event # content[j].event
  <2>1. i # j
    BY <1>2
  <2> QED
    BY <1>3, <2>1 DEF Once
<1> QED
  BY <1>2, <1>4, <1>5, <1>6 DEF DeliveryInv, NumbersTell

\* However many tasks log, however large the buffer, whatever the authority
\* answers and whichever writes and uploads fail: every event that was logged is
\* in one place or in the archive unless it was lost to one of the causes that
\* lose events, a full buffer has a caller that flushes it, the entries of one
\* process have distinct sequence numbers, and every round with the timestamping
\* authority is counted once (logger.rs, timestamp.rs, s3_archive.rs).
THEOREM DeliveryStaysSound == DeliverySpec => []AuditSound
<1>1. DeliveryInit => DeliveryInv
  BY DeliveryInitial
<1>2. DeliveryInv /\ [DeliveryNext]_deliveryVars => DeliveryInv'
  BY DeliveryStep
<1>3. DeliveryInv => AuditSound
  BY EventsConserved, EntriesNumbered DEF AuditSound, DeliveryInv
<1> QED
  BY <1>1, <1>2, <1>3, PTL DEF DeliverySpec

-----------------------------------------------------------------------------
(* Backups of keys.                                                        *)

SignedBackup ==
    [key : BackedUpKeys, mac : Nat, sealed : Nat, modified : Nat,
     state : {"intact", "torn", "metadata", "material"}]

SavedMaster == [id : Nat, pass : Passphrases \cup {""}]
ServiceState == [id : Nat, persisted : BOOLEAN, registry : Nat]

MasterType ==
    /\ masterFile \in SavedMaster
    /\ service \in [BackupServers -> ServiceState]
    /\ opening \in [BackupServers -> SavedMaster]
    /\ masters \in Nat

\* A file is named after its key, and one master key signed and sealed it.
FilesType ==
    /\ day \in Nat
    /\ DOMAIN files \subseteq BackedUpKeys \X Nat
    /\ files \in [DOMAIN files -> SignedBackup]
    /\ \A p \in DOMAIN files : files[p].key = p[1] /\ files[p].mac = files[p].sealed

\* While no two servers create the master key at once, the file of it is written
\* once: by the only server that is opening, before anything is acknowledged.
OneMasterKey ==
    /\ \A s \in BackupServers : opening[s].id # 0 => masterFile.id = 0
    /\ \A s, t \in BackupServers : opening[s].id # 0 /\ opening[t].id # 0 => s = t
    /\ \A s \in BackupServers : service[s].persisted => service[s].id = masterFile.id
    /\ masterFile.id = 0 => acked = {}
    /\ acked \subseteq DOMAIN files
    /\ \A p \in acked : files[p].state = "intact" /\ files[p].mac = masterFile.id

BackupInv ==
    /\ MasterType /\ FilesType /\ crossedOpen \in BOOLEAN
    /\ \A s \in BackupServers : service[s].persisted => service[s].id # 0
    /\ ~crossedOpen => OneMasterKey

LEMMA BackupInitial == ASSUME BackupInit PROVE BackupInv
BY DEF BackupInit, BackupInv, MasterType, FilesType, SavedMaster, ServiceState, OneMasterKey, NoService, NotOpening

LEMMA OpenKeeps ==
    ASSUME BackupInv, NEW s \in BackupServers, NEW pass \in Passphrases, load_or_create(s, pass)
    PROVE  BackupInv'
<1>1. FilesType'
  BY DEF load_or_create, BackupInv, FilesType
<1>2. CASE Absent(pass)
  <2> DEFINE new == [id |-> masters + 1, pass |-> pass]
  <2>1. /\ opening' = [opening EXCEPT ![s] = new]
        /\ crossedOpen' = (crossedOpen \/ \E t \in BackupServers : opening[t].id # 0)
        /\ masters' = masters + 1
        /\ UNCHANGED <<masterFile, files, service, day, acked>>
        /\ masterFile.id = 0
    BY <1>2 DEF load_or_create, generate, Absent
  <2>2. masters + 1 \in Nat
    BY DEF BackupInv, MasterType
  <2>3. new \in SavedMaster
    BY <2>2 DEF SavedMaster
  <2> HIDE DEF new
  <2>4. MasterType'
    BY <2>1, <2>2, <2>3 DEF BackupInv, MasterType
  <2>5. ASSUME ~crossedOpen'
        PROVE  OneMasterKey'
    <3>1. OneMasterKey /\ \A t \in BackupServers : opening[t].id = 0
      BY <2>1, <2>5 DEF BackupInv
    <3>2. \A t \in BackupServers : opening'[t].id # 0 => t = s
      BY <2>1, <3>1 DEF BackupInv, MasterType
    <3> QED
      BY <2>1, <3>1, <3>2 DEF OneMasterKey
  <2> QED
    BY <1>1, <2>1, <2>4, <2>5 DEF BackupInv
<1>3. CASE ~Absent(pass)
  <2> DEFINE new == [id |-> masterFile.id, persisted |-> TRUE, registry |-> 0]
  <2>1. /\ service' = [service EXCEPT ![s] = new]
        /\ UNCHANGED <<masterFile, files, opening, day, masters, acked, crossedOpen>>
        /\ masterFile.id # 0
    BY <1>3 DEF load_or_create, Absent
  <2>2. new \in ServiceState /\ new.id = masterFile.id
    BY DEF ServiceState, SavedMaster, BackupInv, MasterType
  <2> HIDE DEF new
  <2>3. MasterType'
    BY <2>1, <2>2 DEF BackupInv, MasterType
  <2>4. \A t \in BackupServers : service'[t] = IF t = s THEN new ELSE service[t]
    BY <2>1 DEF BackupInv, MasterType
  <2> QED
    BY <1>1, <2>1, <2>2, <2>3, <2>4 DEF BackupInv, OneMasterKey
<1> QED
  BY <1>2, <1>3

LEMMA SaveMasterKeeps ==
    ASSUME BackupInv, NEW s \in BackupServers, save_encrypted(s)
    PROVE  BackupInv'
<1> DEFINE new == [id |-> opening[s].id, persisted |-> TRUE, registry |-> 0]
<1>1. /\ opening[s].id # 0
      /\ opening' = [opening EXCEPT ![s] = NotOpening]
      /\ UNCHANGED <<files, day, masters, acked, crossedOpen>>
      /\ \/ masterFile' = opening[s] /\ service' = [service EXCEPT ![s] = new]
         \/ UNCHANGED <<masterFile, service>>
  BY DEF save_encrypted
<1>2. new \in ServiceState /\ new.id = opening[s].id /\ new.persisted
  BY DEF ServiceState, SavedMaster, BackupInv, MasterType
<1>3. NotOpening \in SavedMaster /\ NotOpening.id = 0
  BY DEF NotOpening, SavedMaster
<1> HIDE DEF new
<1>4. MasterType' /\ FilesType'
  BY <1>1, <1>2, <1>3 DEF BackupInv, MasterType, FilesType
<1>5. \A t \in BackupServers : /\ service'[t] \in {service[t], new} /\ (t # s => service'[t] = service[t])
                               /\ opening'[t] = IF t = s THEN NotOpening ELSE opening[t]
  BY <1>1 DEF BackupInv, MasterType
<1>6. ASSUME NEW t \in BackupServers, service'[t].persisted
      PROVE  service'[t].id # 0
  BY <1>1, <1>2, <1>5, <1>6 DEF BackupInv
<1>7. ASSUME ~crossedOpen'
      PROVE  OneMasterKey'
  <2>1. OneMasterKey /\ masterFile.id = 0 /\ acked = {}
    BY <1>1, <1>7 DEF BackupInv, OneMasterKey
  <2>2. \A t \in BackupServers : ~service[t].persisted /\ opening'[t].id = 0
    BY <1>1, <1>3, <1>5, <2>1 DEF BackupInv, OneMasterKey
  <2>3. \A t \in BackupServers : service'[t].persisted => service'[t].id = masterFile'.id
    BY <1>1, <1>2, <1>5, <2>2 DEF BackupInv, MasterType
  <2> QED
    BY <1>1, <2>1, <2>2, <2>3 DEF OneMasterKey
<1> QED
  BY <1>1, <1>4, <1>6, <1>7 DEF BackupInv

\* What a server without the file of the master key does, and what it forgets.
LEMMA ServiceKeeps ==
    ASSUME BackupInv, NEW s \in BackupServers, with_random_master_key(s) \/ Stop(s)
    PROVE  BackupInv'
<1>1. PICK r \in ServiceState : service' = [service EXCEPT ![s] = r] /\ ~r.persisted
  <2>1. CASE with_random_master_key(s)
    <3>1. [id |-> masters + 1, persisted |-> FALSE, registry |-> 0] \in ServiceState
      BY DEF BackupInv, MasterType, ServiceState
    <3> QED
      BY <2>1, <3>1 DEF with_random_master_key
  <2>2. CASE Stop(s)
    <3>1. NoService \in ServiceState /\ ~NoService.persisted
      BY DEF NoService, ServiceState
    <3> QED
      BY <2>2, <3>1 DEF Stop
  <2> QED
    BY <2>1, <2>2
<1>2. UNCHANGED <<masterFile, files, opening, day, acked, crossedOpen>>
  BY DEF with_random_master_key, Stop
<1>3. masters' \in Nat
  BY DEF with_random_master_key, generate, Stop, BackupInv, MasterType
<1>4. \A t \in BackupServers : service'[t] = IF t = s THEN r ELSE service[t]
  BY <1>1 DEF BackupInv, MasterType
<1>5. MasterType' /\ FilesType'
  BY <1>1, <1>2, <1>3 DEF BackupInv, MasterType, FilesType
<1> QED
  BY <1>1, <1>2, <1>4, <1>5 DEF BackupInv, OneMasterKey

LEMMA BackupKeyKeeps ==
    ASSUME BackupInv, NEW s \in BackupServers, NEW k \in BackedUpKeys, backup_key(s, k)
    PROVE  BackupInv'
<1> DEFINE path == <<k, day>>
<1>1. /\ service[s].id # 0
      /\ service' = [service EXCEPT ![s].registry = @ + 1]
      /\ UNCHANGED <<masterFile, opening, day, masters, crossedOpen>>
      /\ \/ files' = With(path, Signed(s, k, "intact")) /\ service[s].persisted /\ acked' = acked \cup {path}
         \/ /\ \E st \in {"intact", "torn"} : files' = With(path, Signed(s, k, st))
            /\ acked' = acked \ {path}
         \/ UNCHANGED <<files, acked>>
  BY DEF backup_key
<1>2. ASSUME NEW st \in {"intact", "torn"}
      PROVE  /\ Signed(s, k, st) \in SignedBackup
             /\ Signed(s, k, st).key = k
             /\ Signed(s, k, st).mac = service[s].id
             /\ Signed(s, k, st).sealed = service[s].id
             /\ Signed(s, k, st).state = st
  <2>1. service[s].id \in Nat /\ day \in Nat
    BY DEF BackupInv, MasterType, FilesType, ServiceState
  <2> QED
    BY <2>1 DEF Signed, SignedBackup
<1>3. path \in BackedUpKeys \X Nat /\ path[1] = k
  BY DEF BackupInv, FilesType
<1> HIDE DEF path
<1>4. \A f : /\ DOMAIN With(path, f) = DOMAIN files \cup {path}
             /\ With(path, f)[path] = f
             /\ \A p \in DOMAIN files : p # path => With(path, f)[p] = files[p]
  BY DEF With
<1>5. FilesType'
  <2>1. CASE files' = files
    BY <1>1, <2>1 DEF BackupInv, FilesType
  <2>2. ASSUME NEW st \in {"intact", "torn"}, files' = With(path, Signed(s, k, st))
        PROVE  FilesType'
    <3>1. DOMAIN files' = DOMAIN files \cup {path}
      BY <2>2, <1>4
    <3>2. files' = [p \in DOMAIN files' |-> files'[p]]
      BY <2>2 DEF With
    <3>3. ASSUME NEW p \in DOMAIN files'
          PROVE  files'[p] \in SignedBackup /\ files'[p].key = p[1] /\ files'[p].mac = files'[p].sealed
      <4>1. CASE p = path
        BY <4>1, <2>2, <1>2, <1>3, <1>4
      <4>2. CASE p # path
        <5>1. p \in DOMAIN files /\ files'[p] = files[p]
          BY <4>2, <2>2, <3>1, <1>4
        <5> QED
          BY <5>1 DEF BackupInv, FilesType
      <4> QED
        BY <4>1, <4>2
    <3>4. files' \in [DOMAIN files' -> SignedBackup]
      BY <3>2, <3>3
    <3> QED
      BY <1>1, <1>3, <3>1, <3>3, <3>4 DEF BackupInv, FilesType
  <2> QED
    BY <1>1, <2>1, <2>2
<1>6. \A t \in BackupServers : service'[t].persisted = service[t].persisted /\ service'[t].id = service[t].id
  BY <1>1 DEF BackupInv, MasterType, ServiceState
<1>7. MasterType'
  <2>1. service[s].registry + 1 \in Nat
    BY DEF BackupInv, MasterType, ServiceState
  <2>2. [service[s] EXCEPT !.registry = @ + 1] \in ServiceState
    BY <2>1 DEF BackupInv, MasterType, ServiceState
  <2> QED
    BY <1>1, <2>2 DEF BackupInv, MasterType
<1>8. ASSUME ~crossedOpen
      PROVE  OneMasterKey'
  <2>1. OneMasterKey
    BY <1>8 DEF BackupInv
  <2>2. /\ acked' \subseteq DOMAIN files'
        /\ \A p \in acked' : files'[p].state = "intact" /\ files'[p].mac = masterFile.id
    <3>1. CASE files' = With(path, Signed(s, k, "intact")) /\ service[s].persisted /\ acked' = acked \cup {path}
      BY <3>1, <2>1, <1>2, <1>4 DEF OneMasterKey
    <3>2. CASE (\E st \in {"intact", "torn"} : files' = With(path, Signed(s, k, st))) /\ acked' = acked \ {path}
      BY <3>2, <2>1, <1>4 DEF OneMasterKey
    <3>3. CASE UNCHANGED <<files, acked>>
      BY <3>3, <2>1 DEF OneMasterKey
    <3> QED
      BY <1>1, <3>1, <3>2, <3>3
  <2>3. masterFile.id = 0 => acked' = {}
    BY <2>1, <1>1 DEF OneMasterKey, BackupInv
  <2> QED
    BY <1>1, <1>6, <2>1, <2>2, <2>3 DEF OneMasterKey
<1> QED
  BY <1>1, <1>5, <1>6, <1>7, <1>8 DEF BackupInv

LEMMA AlterKeeps ==
    ASSUME BackupInv, NEW path \in DOMAIN files, NEW state \in {"metadata", "material"}, Alter(path, state)
    PROVE  BackupInv'
<1>1. /\ files' = [files EXCEPT ![path].state = state]
      /\ acked' = acked \ {path}
      /\ UNCHANGED <<masterFile, service, opening, day, masters, crossedOpen>>
  BY DEF Alter
<1> DEFINE f == [files[path] EXCEPT !.state = state]
<1>2. f \in SignedBackup /\ f.key = files[path].key /\ f.mac = files[path].mac /\ f.sealed = files[path].sealed
  BY DEF BackupInv, FilesType, SignedBackup
<1>3. files' = [files EXCEPT ![path] = f]
  BY <1>1
<1> HIDE DEF f
<1>4. DOMAIN files' = DOMAIN files /\ \A p \in DOMAIN files : files'[p] = IF p = path THEN f ELSE files[p]
  BY <1>3
<1>5. FilesType' /\ MasterType'
  BY <1>1, <1>2, <1>3, <1>4 DEF BackupInv, FilesType, MasterType
<1> QED
  BY <1>1, <1>4, <1>5 DEF BackupInv, OneMasterKey

LEMMA BackupCleanupKeeps ==
    ASSUME BackupInv, NEW s \in BackupServers, cleanup_old_backups(s)
    PROVE  BackupInv'
<1>1. PICK removed \in SUBSET DOMAIN files :
        /\ files' = [p \in DOMAIN files \ removed |-> files[p]]
        /\ acked' = acked \ removed
  BY DEF cleanup_old_backups
<1>2. UNCHANGED <<masterFile, service, opening, day, masters, crossedOpen>>
  BY DEF cleanup_old_backups
<1>3. FilesType' /\ MasterType'
  BY <1>1, <1>2 DEF BackupInv, FilesType, MasterType
<1> QED
  BY <1>1, <1>2, <1>3 DEF BackupInv, OneMasterKey

LEMMA BackupStep == ASSUME BackupInv, [BackupNext]_backupVars PROVE BackupInv'
<1>1. CASE NextDay
  <2>1. UNCHANGED <<masterFile, files, service, opening, masters, acked, crossedOpen>> /\ day' = day + 1
    BY <1>1 DEF NextDay
  <2>2. FilesType' /\ MasterType'
    BY <2>1 DEF BackupInv, FilesType, MasterType
  <2> QED
    BY <2>1, <2>2 DEF BackupInv, OneMasterKey
<1>2. CASE UNCHANGED backupVars
  BY <1>2 DEF backupVars, BackupInv, FilesType, MasterType, OneMasterKey
<1> QED
  BY <1>1, <1>2, OpenKeeps, SaveMasterKeeps, ServiceKeeps, BackupKeyKeeps, AlterKeeps, BackupCleanupKeeps
  DEF BackupNext

LEMMA BackupsRestored == ASSUME BackupInv PROVE BackupSound
<1>1. RestoreFaithful
  BY DEF BackupInv, FilesType, RestoreFaithful, restore_from_file, verify_backup_file, restore_key
<1>2. ASSUME ~crossedOpen, NEW s \in BackupServers, service[s].persisted
      PROVE  /\ \A p \in acked : restore_from_file(s, p) = p[1]
             /\ Newest \subseteq acked => verify_latest_backup(s) \subseteq {TRUE}
  <2>1. \A p \in acked : restore_from_file(s, p) = p[1] /\ p \in DOMAIN files
    BY <1>2 DEF BackupInv, FilesType, OneMasterKey, restore_from_file, verify_backup_file, restore_key
  <2>2. \A p \in DOMAIN files : p[1] # "error"
    BY BackupAssumption DEF BackupInv, FilesType
  <2> QED
    BY <2>1, <2>2 DEF verify_latest_backup
<1> QED
  BY <1>1, <1>2 DEF BackupSound, Recoverable

-----------------------------------------------------------------------------
(* Memory for key bytes.                                                   *)

\* The pages of a map that is alive are locked, all that its len bytes lie on
\* among them.
Covered(b) == Mapped(b, boxes[b].len) \cup Mapped(b, boxes[b].capacity) \subseteq lockedPages

BoxState == [place : {"none", "heap", "mmap"}, len : Nat, capacity : Nat, key : BOOLEAN, dropping : BOOLEAN]

MemoryType ==
    /\ boxes \in [BoxIds -> BoxState]
    /\ wrapped \subseteq Slices
    /\ mlockFailures \in Nat

MemoryInv ==
    /\ MemoryType
    /\ \A b \in BoxIds : boxes[b].place = "mmap" => Covered(b)
    /\ \A b \in BoxIds : boxes[b].dropping => ~boxes[b].key
    /\ ~leaked
    /\ HeapExplained /\ NoLockLeak

LEMMA DivisionGrows ==
    ASSUME NEW m \in Nat, NEW n \in Nat, m <= n, NEW d \in Nat \ {0}
    PROVE  m \div d <= n \div d
<1> DEFINE p == m \div d  q == n \div d
<1>1. /\ p \in Nat /\ q \in Nat
      /\ d * p <= m /\ n < d * q + d
  OBVIOUS
<1> HIDE DEF p, q
<1>2. ASSUME q + 1 <= p
      PROVE  FALSE
  <2>1. PICK r \in Nat : p = q + 1 + r
    <3>1. p - (q + 1) \in Nat
      BY <1>1, <1>2
    <3> QED
      BY <1>1, <3>1
  <2>2. d * p = d * q + d + d * r /\ d * r \in Nat
    BY <1>1, <2>1
  <2>3. d * q \in Nat /\ d * p \in Nat
    BY <1>1
  <2> QED
    BY <1>1, <2>2, <2>3
<1>3. p <= q
  BY <1>1, <1>2
<1> QED
  BY <1>3 DEF p, q

\* Rounding up to a page does not round down.
LEMMA AlignedUp ==
    ASSUME NEW n \in Nat
    PROVE  page_align(n) \in Nat /\ n <= page_align(n)
<1> DEFINE q == (n + PAGE_SIZE - 1) \div PAGE_SIZE
<1>1. PAGE_SIZE \in Nat /\ PAGE_SIZE > 0
  BY SecureMemoryAssumption
<1>2. n + PAGE_SIZE - 1 \in Nat
  BY <1>1
<1>3. q \in Nat /\ n + PAGE_SIZE - 1 < PAGE_SIZE * q + PAGE_SIZE
  BY <1>1, <1>2
<1>4. page_align(n) = q * PAGE_SIZE
  BY DEF page_align
<1> HIDE DEF q
<1>5. q * PAGE_SIZE \in Nat /\ q * PAGE_SIZE = PAGE_SIZE * q
  BY <1>1, <1>3
<1> QED
  BY <1>1, <1>3, <1>4, <1>5

LEMMA AlignedCovers ==
    ASSUME NEW b, NEW n \in Nat
    PROVE  Mapped(b, n) \subseteq Mapped(b, page_align(n))
<1> DEFINE p == (n + PAGE_SIZE - 1) \div PAGE_SIZE
           q == (page_align(n) + PAGE_SIZE - 1) \div PAGE_SIZE
<1>1. PAGE_SIZE \in Nat \ {0}
  BY SecureMemoryAssumption
<1>2. page_align(n) \in Nat /\ n <= page_align(n)
  BY AlignedUp
<1>3. /\ n + PAGE_SIZE - 1 \in Nat /\ page_align(n) + PAGE_SIZE - 1 \in Nat
      /\ n + PAGE_SIZE - 1 <= page_align(n) + PAGE_SIZE - 1
  BY <1>1, <1>2
<1>4. p <= q
  BY <1>1, <1>3, DivisionGrows
<1>5. p \in Int /\ q \in Int
  BY <1>1, <1>3
<1>6. Mapped(b, n) = {<<b, i>> : i \in 0 .. (p - 1)} /\ Mapped(b, page_align(n)) = {<<b, i>> : i \in 0 .. (q - 1)}
  BY DEF Mapped
<1> HIDE DEF p, q
<1>7. 0 .. (p - 1) \subseteq 0 .. (q - 1)
  BY <1>4, <1>5
<1> QED
  BY <1>6, <1>7

\* Pages of two maps, and of a map and the heap, are different ones.
LEMMA MapsApart ==
    ASSUME NEW b \in BoxIds, NEW m \in Nat
    PROVE  /\ \A c \in BoxIds, n \in Nat : b # c => Mapped(b, m) \cap Mapped(c, n) = {}
           /\ \A h \in DOMAIN HeapPage : HeapPage[h] \notin Mapped(b, m)
<1>1. \A c, n : \A x \in Mapped(c, n) : \E i \in Nat : x = <<c, i>>
  BY DEF Mapped
<1>2. \A x \in Mapped(b, m) : x \in BoxIds \X Nat
  BY <1>1
<1> QED
  BY <1>1, <1>2, SecureMemoryAssumption

LEMMA MemoryInitial == ASSUME MemoryInit PROVE MemoryInv
BY DEF MemoryInit, MemoryInv, MemoryType, BoxState, NoBox, HeapExplained, NoLockLeak, OnHeap

LEMMA AllocateKeeps ==
    ASSUME MemoryInv, NEW b \in BoxIds, NEW size \in BoxSizes, allocate(b, size)
    PROVE  MemoryInv'
<1> DEFINE capacity == page_align(size)
<1>1. size \in Nat /\ capacity \in Nat /\ b \in DOMAIN HeapPage
  BY SecureMemoryAssumption, AlignedUp
<1>2. boxes[b] = NoBox /\ UNCHANGED <<wrapped, leaked>>
  BY DEF allocate
<1>3. b \notin wrapped
  BY SecureMemoryAssumption DEF MemoryInv, MemoryType
<1>4. CASE allocate_fallback(b, size)
  <2> DEFINE new == NewBox("heap", size, size)
  <2>1. /\ boxes' = [boxes EXCEPT ![b] = new]
        /\ \/ mlock({HeapPage[b]}) /\ UNCHANGED <<mlockFailures, unprotected>>
           \/ /\ mlockFailures' = mlockFailures + 1
              /\ unprotected' = unprotected \cup {b}
              /\ UNCHANGED <<lockedPages, undone>>
    BY <1>4 DEF allocate_fallback
  <2>2. new \in BoxState /\ new.place = "heap" /\ ~new.dropping
    BY <1>1 DEF NewBox, NoBox, BoxState
  <2> HIDE DEF new
  <2>3. \A c \in BoxIds : boxes'[c] = IF c = b THEN new ELSE boxes[c]
    BY <2>1 DEF MemoryInv, MemoryType
  <2>4. MemoryType'
    BY <1>2, <2>1, <2>2 DEF MemoryInv, MemoryType, mlock
  <2>5. lockedPages \subseteq lockedPages' /\ lockedPages' \subseteq lockedPages \cup {HeapPage[b]}
    BY <2>1 DEF mlock
  <2>6. OnHeap' = OnHeap \cup {b}
    BY <1>2, <2>2, <2>3 DEF OnHeap
  <2>7. HeapExplained'
    <3>1. CASE mlock({HeapPage[b]}) /\ UNCHANGED <<mlockFailures, unprotected>>
      BY <2>6, <3>1 DEF mlock, MemoryInv, HeapExplained
    <3>2. CASE /\ mlockFailures' = mlockFailures + 1
               /\ unprotected' = unprotected \cup {b}
               /\ UNCHANGED <<lockedPages, undone>>
      BY <2>6, <3>2 DEF MemoryInv, MemoryType, HeapExplained
    <3> QED
      BY <2>1, <3>1, <3>2
  <2>8. NoLockLeak'
    <3> SUFFICES ASSUME NEW p \in lockedPages'
                 PROVE  \/ p \in {HeapPage[h] : h \in DOMAIN HeapPage}
                        \/ \E c \in BoxIds : boxes'[c].place = "mmap" /\ p \in Mapped(c, boxes'[c].capacity)
      BY DEF NoLockLeak, Mapped
    <3> QED
      BY <1>1, <1>2, <2>3, <2>5 DEF MemoryInv, NoLockLeak, NoBox
  <2>9. \A c \in BoxIds : boxes'[c].place = "mmap" => Covered(c)'
    BY <2>2, <2>3, <2>5 DEF MemoryInv, Covered, Mapped
  <2> QED
    BY <1>2, <2>2, <2>3, <2>4, <2>7, <2>8, <2>9 DEF MemoryInv
<1>5. CASE /\ mlock(Mapped(b, capacity))
           /\ boxes' = [boxes EXCEPT ![b] = NewBox("mmap", size, capacity)]
           /\ UNCHANGED <<mlockFailures, unprotected>>
  <2> DEFINE new == NewBox("mmap", size, capacity)
  <2>1. new \in BoxState /\ new.place = "mmap" /\ ~new.dropping /\ new.len = size /\ new.capacity = capacity
    BY <1>1 DEF NewBox, NoBox, BoxState
  <2>2. boxes' = [boxes EXCEPT ![b] = new]
    BY <1>5
  <2> HIDE DEF new
  <2>3. \A c \in BoxIds : boxes'[c] = IF c = b THEN new ELSE boxes[c]
    BY <2>2 DEF MemoryInv, MemoryType
  <2>4. MemoryType'
    BY <1>2, <1>5, <2>1, <2>2 DEF MemoryInv, MemoryType
  <2>5. lockedPages' = lockedPages \cup Mapped(b, capacity)
    BY <1>5 DEF mlock
  <2>6. OnHeap' = OnHeap
    BY <1>2, <2>1, <2>3 DEF OnHeap, NoBox
  <2>7. HeapExplained'
    BY <1>5, <2>6 DEF mlock, MemoryInv, HeapExplained
  <2>8. NoLockLeak'
    <3> SUFFICES ASSUME NEW p \in lockedPages'
                 PROVE  \/ p \in {HeapPage[h] : h \in DOMAIN HeapPage}
                        \/ \E c \in BoxIds : boxes'[c].place = "mmap" /\ p \in Mapped(c, boxes'[c].capacity)
      BY DEF NoLockLeak, Mapped
    <3> QED
      BY <1>2, <2>1, <2>3, <2>5 DEF MemoryInv, NoLockLeak, NoBox
  <2>9. ASSUME NEW c \in BoxIds, boxes'[c].place = "mmap"
        PROVE  Covered(c)'
    <3>1. Mapped(c, boxes'[c].len) \cup Mapped(c, boxes'[c].capacity) \subseteq lockedPages'
      <4>1. CASE c = b
        BY <4>1, <1>1, <2>1, <2>3, <2>5, AlignedCovers
      <4>2. CASE c # b
        BY <4>2, <2>3, <2>5, <2>9 DEF MemoryInv, Covered
      <4> QED
        BY <4>1, <4>2
    <3> QED
      BY <3>1 DEF Covered, Mapped
  <2> QED
    BY <1>2, <2>1, <2>3, <2>4, <2>7, <2>8, <2>9 DEF MemoryInv
<1>6. CASE refuse(b, capacity)
  BY <1>2, <1>6 DEF refuse, MemoryInv, MemoryType, HeapExplained, NoLockLeak, OnHeap, Covered, Mapped
<1> QED
  BY <1>4, <1>5, <1>6 DEF allocate

\* A box is written to, or begins its drop.
LEMMA BoxUseKeeps ==
    ASSUME MemoryInv, NEW b \in BoxIds, copy_from_slice(b) \/ drop_box(b)
    PROVE  MemoryInv'
<1>1. UNCHANGED <<lockedPages, wrapped, mlockFailures, unprotected, undone, leaked>>
  BY DEF copy_from_slice, drop_box
<1>2. PICK new \in BoxState :
        /\ boxes' = [boxes EXCEPT ![b] = new]
        /\ new.place = boxes[b].place /\ new.len = boxes[b].len /\ new.capacity = boxes[b].capacity
        /\ new.dropping => ~new.key
  <2>1. CASE copy_from_slice(b)
    <3> DEFINE new == [boxes[b] EXCEPT !.key = TRUE]
    <3>1. new \in BoxState /\ ~new.dropping
      BY <2>1 DEF copy_from_slice, MemoryInv, MemoryType, BoxState
    <3>2. new.place = boxes[b].place /\ new.len = boxes[b].len /\ new.capacity = boxes[b].capacity
      BY DEF MemoryInv, MemoryType, BoxState
    <3>3. boxes' = [boxes EXCEPT ![b] = new]
      BY <2>1 DEF copy_from_slice
    <3> QED
      BY <3>1, <3>2, <3>3
  <2>2. CASE drop_box(b)
    <3> DEFINE new == [boxes[b] EXCEPT !.dropping = TRUE, !.key = FALSE]
    <3>1. new \in BoxState /\ ~new.key
      BY DEF MemoryInv, MemoryType, BoxState
    <3>2. new.place = boxes[b].place /\ new.len = boxes[b].len /\ new.capacity = boxes[b].capacity
      BY DEF MemoryInv, MemoryType, BoxState
    <3>3. boxes' = [boxes EXCEPT ![b] = new]
      BY <2>2 DEF drop_box, MemoryInv, MemoryType
    <3> QED
      BY <3>1, <3>2, <3>3
  <2> QED
    BY <2>1, <2>2
<1>3. \A c \in BoxIds : boxes'[c] = IF c = b THEN new ELSE boxes[c]
  BY <1>2 DEF MemoryInv, MemoryType
<1>4. MemoryType'
  BY <1>1, <1>2 DEF MemoryInv, MemoryType
<1>5. \A c \in BoxIds : /\ boxes'[c].place = boxes[c].place
                        /\ boxes'[c].len = boxes[c].len /\ boxes'[c].capacity = boxes[c].capacity
  BY <1>2, <1>3
<1>6. OnHeap' = OnHeap
  BY <1>1, <1>5 DEF OnHeap
<1>7. HeapExplained'
  BY <1>1, <1>6 DEF MemoryInv, HeapExplained
<1>8. NoLockLeak'
  BY <1>1, <1>5 DEF MemoryInv, NoLockLeak, Mapped
<1>9. \A c \in BoxIds : boxes'[c].place = "mmap" => Covered(c)'
  BY <1>1, <1>5 DEF MemoryInv, Covered, Mapped
<1> QED
  BY <1>1, <1>2, <1>3, <1>4, <1>7, <1>8, <1>9 DEF MemoryInv

LEMMA ReleaseKeeps ==
    ASSUME MemoryInv, NEW b \in BoxIds, release_box(b)
    PROVE  MemoryInv'
<1> DEFINE pages == IF boxes[b].place = "mmap" THEN Mapped(b, boxes[b].capacity) ELSE {}
<1>1. /\ boxes[b].dropping
      /\ boxes' = [boxes EXCEPT ![b] = NoBox]
      /\ leaked' = (leaked \/ boxes[b].key)
      /\ unprotected' = unprotected \ {b}
      /\ lockedPages' = lockedPages \ pages
      /\ undone' = (undone \cup {h \in OnHeap : HeapPage[h] \in pages}) \ {b}
      /\ UNCHANGED <<wrapped, mlockFailures>>
  BY DEF release_box, munlock
<1>2. NoBox \in BoxState /\ NoBox.place = "none" /\ ~NoBox.dropping
  BY DEF NoBox, BoxState
<1>3. \A c \in BoxIds : boxes'[c] = IF c = b THEN NoBox ELSE boxes[c]
  BY <1>1 DEF MemoryInv, MemoryType
<1>4. MemoryType'
  BY <1>1, <1>2 DEF MemoryInv, MemoryType
<1>5. \A c \in BoxIds : boxes[c].len \in Nat /\ boxes[c].capacity \in Nat
  BY DEF MemoryInv, MemoryType, BoxState
<1>6. /\ \A c \in BoxIds, n \in Nat : c # b => Mapped(c, n) \cap pages = {}
      /\ \A h \in DOMAIN HeapPage : HeapPage[h] \notin pages
  BY <1>5, MapsApart
<1> HIDE DEF pages
<1>7. OnHeap' = OnHeap \ {b} /\ OnHeap \subseteq DOMAIN HeapPage
  BY <1>1, <1>2, <1>3, SecureMemoryAssumption DEF OnHeap, MemoryInv, MemoryType
<1>8. HeapExplained'
  BY <1>1, <1>6, <1>7 DEF MemoryInv, HeapExplained
<1>9. NoLockLeak'
  <2> SUFFICES ASSUME NEW p \in lockedPages'
               PROVE  \/ p \in {HeapPage[h] : h \in DOMAIN HeapPage}
                      \/ \E c \in BoxIds : boxes'[c].place = "mmap" /\ p \in Mapped(c, boxes'[c].capacity)
    BY DEF NoLockLeak, Mapped
  <2> QED
    BY <1>1, <1>3 DEF MemoryInv, NoLockLeak, pages
<1>10. ASSUME NEW c \in BoxIds, boxes'[c].place = "mmap"
       PROVE  Covered(c)'
  <2>1. c # b /\ boxes'[c] = boxes[c] /\ boxes[c].place = "mmap"
    BY <1>2, <1>3, <1>10
  <2>2. Mapped(c, boxes'[c].len) \cup Mapped(c, boxes'[c].capacity) \subseteq lockedPages'
    BY <1>1, <1>5, <1>6, <2>1 DEF MemoryInv, Covered
  <2> QED
    BY <2>2 DEF Covered, Mapped
<1> QED
  BY <1>1, <1>2, <1>3, <1>4, <1>8, <1>9, <1>10 DEF MemoryInv

LEMMA LockSliceKeeps ==
    ASSUME MemoryInv, NEW s \in Slices, lock_slice(s)
    PROVE  MemoryInv'
<1>1. /\ wrapped' = wrapped \cup {s}
      /\ lockedPages' = lockedPages \cup {HeapPage[s]}
      /\ undone' = {h \in undone : HeapPage[h] \notin {HeapPage[s]}}
      /\ UNCHANGED <<boxes, mlockFailures, unprotected, leaked>>
      /\ s \in DOMAIN HeapPage
  BY SecureMemoryAssumption DEF lock_slice, mlock
<1>2. OnHeap' = OnHeap \cup {s}
  BY <1>1 DEF OnHeap
<1>3. HeapExplained'
  BY <1>1, <1>2 DEF MemoryInv, HeapExplained
<1>4. NoLockLeak'
  BY <1>1 DEF MemoryInv, NoLockLeak, Mapped
<1> QED
  BY <1>1, <1>3, <1>4 DEF MemoryInv, MemoryType, Covered, Mapped

LEMMA DropSliceKeeps ==
    ASSUME MemoryInv, NEW s \in Slices, drop_slice(s)
    PROVE  MemoryInv'
<1>1. /\ wrapped' = wrapped \ {s}
      /\ lockedPages' = lockedPages \ {HeapPage[s]}
      /\ undone' = (undone \cup {h \in OnHeap : HeapPage[h] \in {HeapPage[s]}}) \ {s}
      /\ UNCHANGED <<boxes, mlockFailures, unprotected, leaked>>
      /\ s \in DOMAIN HeapPage /\ s \notin BoxIds
  BY SecureMemoryAssumption DEF drop_slice, munlock
<1>2. OnHeap' = OnHeap \ {s}
  BY <1>1 DEF OnHeap
<1>3. HeapExplained'
  BY <1>1, <1>2 DEF MemoryInv, HeapExplained
<1>4. NoLockLeak'
  BY <1>1 DEF MemoryInv, NoLockLeak, Mapped
<1>5. \A c \in BoxIds : HeapPage[s] \notin Mapped(c, boxes[c].len) \cup Mapped(c, boxes[c].capacity)
  BY <1>1, MapsApart DEF MemoryInv, MemoryType, BoxState
<1>6. \A c \in BoxIds : boxes'[c].place = "mmap" => Covered(c)'
  BY <1>1, <1>5 DEF MemoryInv, Covered, Mapped
<1> QED
  BY <1>1, <1>3, <1>4, <1>6 DEF MemoryInv, MemoryType

LEMMA MemoryStep == ASSUME MemoryInv, [MemoryNext]_memoryVars PROVE MemoryInv'
<1>1. CASE UNCHANGED memoryVars
  BY <1>1 DEF memoryVars, MemoryInv, MemoryType, HeapExplained, NoLockLeak, OnHeap, Covered, Mapped
<1> QED
  BY <1>1, AllocateKeeps, BoxUseKeeps, ReleaseKeeps, LockSliceKeeps, DropSliceKeeps DEF MemoryNext

LEMMA MemoryProtected == ASSUME MemoryInv PROVE MemorySound
BY DEF MemoryInv, MemorySound, BoxesProtected, Covered

-----------------------------------------------------------------------------
(* Random bytes.                                                           *)

\* What is mixed into a generator, and a block of its output.
Tokens == ({"os"} \X Nat) \cup ({"seed", "caller"} \X Seeds) \cup ({"generate"} \X Nat)
Block == Seq(Tokens) \X Nat
Generator == [state : Seq(Tokens), interval : {0, ReseedInterval}, countdown : 0 .. ReseedInterval]

\* The answers of getrandom in a state, and all there were.
OsIn(s) == {s[k] : k \in {i \in DOMAIN s : s[i][1] = "os"}}
Drawn == {"os"} \X (1 .. entropy)

\* The states that a call's blocks were made from, and all of a generator's.
Made(blocks) == {b[1] : b \in blocks}
Past(g) == UNION {Made(outputs[g][i]) : i \in DOMAIN outputs[g]}

\* What h gave out or may still give out before it draws again: a state with the
\* answers it has now that is no shorter than its own.
MayShare(s, h) ==
    \/ s \in Past(h)
    \/ OsIn(s) = OsIn(rng[h].state) /\ Len(s) >= Len(rng[h].state)
SharedCalls(g, h) == {i \in DOMAIN outputs[g] : \E s \in Made(outputs[g][i]) : MayShare(s, h)}

\* g has drawn nothing since its way and that of h were one.
AnswerSets(h) == {OsIn(rng[h].state)} \cup {OsIn(s) : s \in Past(h)}
Together(g, h) == OsIn(rng[g].state) \in AnswerSets(h)

RngType ==
    /\ rng \in [Generators -> Generator]
    /\ entropy \in Nat
    /\ outputs \in [Generators -> Seq(SUBSET Block)]
    /\ since \in [Generators -> Nat]

\* A generator that has not begun has given out nothing.
NotBegun == \A g \in Generators : rng[g] = NoRng => outputs[g] = <<>> /\ since[g] = 0

\* Outputs since the last answer and those that the countdown leaves make up the
\* interval.
CountsDown == \A g \in Generators : OfSystem(g) => since[g] <= ReseedInterval
                                                 /\ since[g] + rng[g].countdown <= ReseedInterval + 1

\* A state grows with every call, and the answers in it were given.
StatesGrow(g) ==
    /\ OsIn(rng[g].state) \subseteq Drawn
    /\ OfSystem(g) => OsIn(rng[g].state) # {}
    /\ \A i \in DOMAIN outputs[g] : \A s \in Made(outputs[g][i]) :
         /\ Len(s) < Len(rng[g].state)
         /\ OsIn(s) \subseteq Drawn
         /\ OfSystem(g) => OsIn(s) # {}
         /\ \A j \in DOMAIN outputs[g] : i < j => \A t \in Made(outputs[g][j]) : Len(s) < Len(t)

\* The calls of g that gave what h gives, and while they are together those that g
\* may still make, are fewer than an interval.
Parts(g, h) ==
    /\ Cardinality(SharedCalls(g, h)) < ReseedInterval
    /\ Together(g, h) => Cardinality(SharedCalls(g, h)) + rng[g].countdown <= ReseedInterval

RngInv ==
    /\ RngType /\ NotBegun /\ CountsDown
    /\ \A g \in Generators : StatesGrow(g)
    /\ \A g, h \in Generators : g # h /\ OfSystem(g) => Parts(g, h)

LEMMA MixedIn ==
    ASSUME NEW s \in Seq(Tokens), NEW t \in Tokens
    PROVE  /\ Append(s, t) \in Seq(Tokens)
           /\ Len(Append(s, t)) = Len(s) + 1
           /\ t[1] # "os" => OsIn(Append(s, t)) = OsIn(s)
           /\ t[1] = "os" => OsIn(Append(s, t)) = OsIn(s) \cup {t}
<1> DEFINE u == Append(s, t)
<1>1. /\ u \in Seq(Tokens) /\ Len(u) = Len(s) + 1
      /\ \A k \in 1 .. Len(s) : u[k] = s[k]
      /\ u[Len(s) + 1] = t
      /\ Len(s) \in Nat /\ DOMAIN s = 1 .. Len(s) /\ DOMAIN u = 1 .. (Len(s) + 1)
  BY AppendProperties
<1> HIDE DEF u
<1>2. \A x : x \in OsIn(u) <=> x \in OsIn(s) \/ (x = t /\ t[1] = "os")
  <2> TAKE x
  <2>1. x \in OsIn(u) <=> \E k \in 1 .. (Len(s) + 1) : u[k] = x /\ x[1] = "os"
    BY <1>1 DEF OsIn
  <2>2. x \in OsIn(s) <=> \E k \in 1 .. Len(s) : s[k] = x /\ x[1] = "os"
    BY <1>1 DEF OsIn
  <2>3. 1 .. (Len(s) + 1) = (1 .. Len(s)) \cup {Len(s) + 1}
    BY <1>1
  <2> QED
    BY <1>1, <2>1, <2>2, <2>3
<1> QED
  BY <1>1, <1>2 DEF u

\* What an answer of getrandom adds to a state was in none before.
LEMMA FreshIsNew ==
    ASSUME RngType
    PROVE  /\ FreshEntropy \in Tokens /\ FreshEntropy[1] = "os" /\ FreshEntropy \notin Drawn
           /\ ({"os"} \X (1 .. (entropy + 1))) = Drawn \cup {FreshEntropy}
BY DEF RngType, FreshEntropy, Tokens, Drawn

LEMMA MadeOfBlocks ==
    ASSUME NEW s, NEW n
    PROVE  Made(BlocksOf(s, n)) \subseteq {s}
BY DEF Made, BlocksOf

\* A call of g gave out n blocks of state s.
Gave(g, s, countdown, n) ==
    /\ rng' = [rng EXCEPT ![g] = [state |-> Append(s, <<"generate", n>>), interval |-> rng[g].interval,
                                  countdown |-> countdown]]
    /\ outputs' = [outputs EXCEPT ![g] = Append(@, BlocksOf(s, n))]

\* The call drew nothing and used up one of the countdown, or drew, or failed.
Quiet(g, n) ==
    \E countdown \in 0 .. ReseedInterval :
        /\ Gave(g, rng[g].state, countdown, n)
        /\ since' = [since EXCEPT ![g] = @ + 1]
        /\ entropy' = entropy
        /\ OfSystem(g) => countdown > 0 /\ rng[g].countdown = countdown + 1
Refilled(g, n) ==
    /\ Gave(g, Append(rng[g].state, FreshEntropy), rng[g].interval, n)
    /\ since' = [since EXCEPT ![g] = 1]
    /\ entropy' = entropy + 1
Failed(g) ==
    /\ rng' = [rng EXCEPT ![g] = [state |-> rng[g].state, interval |-> rng[g].interval, countdown |-> 0]]
    /\ OfSystem(g)
    /\ UNCHANGED <<entropy, outputs, since>>

LEMMA RecordParts ==
    ASSUME NEW r \in Generator
    PROVE  /\ r.state \in Seq(Tokens) /\ r.interval \in {0, ReseedInterval} /\ r.interval \in Nat
           /\ r.countdown \in 0 .. ReseedInterval /\ r.countdown \in Nat
           /\ r = [state |-> r.state, interval |-> r.interval, countdown |-> r.countdown]
           /\ \A c : [r EXCEPT !.countdown = c] = [state |-> r.state, interval |-> r.interval, countdown |-> c]
           /\ \A s : [r EXCEPT !.state = s] = [state |-> s, interval |-> r.interval, countdown |-> r.countdown]
<1>1. PICK s0 \in Seq(Tokens), i0 \in {0, ReseedInterval}, c0 \in 0 .. ReseedInterval :
        r = [state |-> s0, interval |-> i0, countdown |-> c0]
  <2>1. r.state \in Seq(Tokens) /\ r.interval \in {0, ReseedInterval} /\ r.countdown \in 0 .. ReseedInterval
    BY DEF Generator
  <2>2. r = [state |-> r.state, interval |-> r.interval, countdown |-> r.countdown]
    BY DEF Generator
  <2> QED
    BY <2>1, <2>2
<1>2. i0 \in Nat /\ c0 \in Nat
  BY RandomnessAssumption
<1>3. r.state = s0 /\ r.interval = i0 /\ r.countdown = c0
  BY <1>1
<1>4. \A c : [r EXCEPT !.countdown = c] = [state |-> s0, interval |-> i0, countdown |-> c]
  BY <1>1
<1>5. \A s : [r EXCEPT !.state = s] = [state |-> s, interval |-> i0, countdown |-> c0]
  BY <1>1
<1> QED
  BY <1>1, <1>2, <1>3, <1>4, <1>5

LEMMA DrawCases ==
    ASSUME RngType, NEW g \in Generators, NEW n \in Blocks,
           \/ \E answered \in BOOLEAN : random_bytes(g, n, answered)
           \/ random_bytes_with_reseed(g, n)
    PROVE  rng[g] # NoRng /\ (Quiet(g, n) \/ Refilled(g, n) \/ Failed(g))
<1> DEFINE r == rng[g]
<1>1. r \in Generator /\ ReseedInterval \in Nat /\ ReseedInterval > 0
  BY RandomnessAssumption DEF RngType
<1>2. /\ r.interval \in {0, ReseedInterval} /\ r.interval \in Nat
      /\ r.countdown \in 0 .. ReseedInterval /\ r.countdown \in Nat
  BY <1>1, RecordParts
<1>3. /\ r = [state |-> r.state, interval |-> r.interval, countdown |-> r.countdown]
      /\ \A c : [r EXCEPT !.countdown = c] = [state |-> r.state, interval |-> r.interval, countdown |-> c]
  BY <1>1, RecordParts
<1>4. ASSUME NEW s, NEW c, NEW fed \in BOOLEAN, c \in Nat,
             GiveOut(g, [state |-> s, interval |-> r.interval, countdown |-> c], n, fed)
      PROVE  /\ Gave(g, s, c, n)
             /\ since' = [since EXCEPT ![g] = IF fed THEN 1 ELSE @ + 1]
             /\ entropy' = IF fed THEN entropy + 1 ELSE entropy
  <2>1. \A i, t : [[state |-> s, interval |-> i, countdown |-> c] EXCEPT !.state = t]
                  = [state |-> t, interval |-> i, countdown |-> c]
    OBVIOUS
  <2>2. /\ rng' = [rng EXCEPT ![g] = [[state |-> s, interval |-> r.interval, countdown |-> c]
                                       EXCEPT !.state = Append(s, <<"generate", n>>)]]
        /\ outputs' = [outputs EXCEPT ![g] = Append(@, BlocksOf(s, n))]
        /\ since' = [since EXCEPT ![g] = IF fed THEN 1 ELSE @ + 1]
        /\ entropy' = IF fed THEN entropy + 1 ELSE entropy
    BY <1>4 DEF GiveOut, Generated, update
  <2> QED
    BY <2>1, <2>2 DEF Gave
<1>5. CASE random_bytes_with_reseed(g, n)
  <2>1. /\ r # NoRng
        /\ GiveOut(g, Reseeded(r), n, TRUE)
    BY <1>5 DEF random_bytes_with_reseed
  <2>2. GiveOut(g, [state |-> Append(r.state, FreshEntropy), interval |-> r.interval, countdown |-> r.interval], n, TRUE)
    BY <2>1 DEF update, Reseeded
  <2>3. Gave(g, Append(r.state, FreshEntropy), r.interval, n) /\ since' = [since EXCEPT ![g] = 1] /\ entropy' = entropy + 1
    BY <2>2, <1>2, <1>4
  <2> QED
    BY <2>1, <2>3 DEF Refilled
<1>6. ASSUME NEW answered \in BOOLEAN, random_bytes(g, n, answered)
      PROVE  rng[g] # NoRng /\ (Quiet(g, n) \/ Refilled(g, n) \/ Failed(g))
  <2> DEFINE turn == maybe_periodic_reseed(r, answered)
             countdown == IF r.countdown = 0 THEN 0 ELSE r.countdown - 1
  <2>1. /\ r # NoRng
        /\ \/ turn.ok /\ GiveOut(g, turn.r, n, turn.fed)
           \/ /\ ~turn.ok
              /\ rng' = [rng EXCEPT ![g] = turn.r]
              /\ UNCHANGED <<entropy, outputs, since>>
    BY <1>6 DEF random_bytes
  <2>2. /\ countdown \in 0 .. ReseedInterval /\ countdown \in Nat
        /\ countdown > 0 => r.countdown = countdown + 1
    <3> HIDE DEF r
    <3> QED
      BY <1>1, <1>2
  <2>3. CASE r.interval = 0
    <3>1. turn = [r |-> r, ok |-> TRUE, fed |-> FALSE]
      BY <2>3 DEF maybe_periodic_reseed
    <3>2. turn.ok /\ turn.fed = FALSE /\ turn.r = r
      BY <3>1
    <3>3. GiveOut(g, [state |-> r.state, interval |-> r.interval, countdown |-> r.countdown], n, FALSE)
      BY <2>1, <3>2, <1>3
    <3>4. Gave(g, r.state, r.countdown, n) /\ since' = [since EXCEPT ![g] = @ + 1] /\ entropy' = entropy
      BY <3>3, <1>2, <1>4
    <3>5. ~OfSystem(g)
      BY <2>3 DEF OfSystem
    <3> QED
      BY <1>2, <2>1, <3>4, <3>5 DEF Quiet
  <2>4. CASE r.interval > 0 /\ countdown > 0
    <3>1. turn = [r |-> [r EXCEPT !.countdown = countdown], ok |-> TRUE, fed |-> FALSE]
      BY <2>4 DEF maybe_periodic_reseed
    <3>2. turn.ok /\ turn.fed = FALSE /\ turn.r = [r EXCEPT !.countdown = countdown]
      BY <3>1
    <3> HIDE DEF countdown
    <3>3. GiveOut(g, [state |-> r.state, interval |-> r.interval, countdown |-> countdown], n, FALSE)
      BY <2>1, <3>2, <1>3
    <3>4. Gave(g, r.state, countdown, n) /\ since' = [since EXCEPT ![g] = @ + 1] /\ entropy' = entropy
      BY <3>3, <2>2, <1>4
    <3> QED
      BY <2>1, <2>2, <2>4, <3>4 DEF Quiet
  <2>5. CASE r.interval > 0 /\ countdown = 0 /\ answered
    <3>1. turn = [r |-> Reseeded(r), ok |-> TRUE, fed |-> TRUE]
      BY <2>5 DEF maybe_periodic_reseed
    <3>2. turn.ok /\ turn.fed = TRUE
          /\ turn.r = [state |-> Append(r.state, FreshEntropy), interval |-> r.interval, countdown |-> r.interval]
      BY <3>1 DEF update, Reseeded
    <3>3. GiveOut(g, [state |-> Append(r.state, FreshEntropy), interval |-> r.interval, countdown |-> r.interval], n, TRUE)
      BY <2>1, <3>2
    <3>4. Gave(g, Append(r.state, FreshEntropy), r.interval, n) /\ since' = [since EXCEPT ![g] = 1] /\ entropy' = entropy + 1
      BY <3>3, <1>2, <1>4
    <3> QED
      BY <2>1, <3>4 DEF Refilled
  <2>6. CASE r.interval > 0 /\ countdown = 0 /\ ~answered
    <3>1. turn = [r |-> AfterFailure(r), ok |-> FALSE, fed |-> FALSE]
      BY <2>6 DEF maybe_periodic_reseed
    <3>2. AfterFailure(r) = [state |-> r.state, interval |-> r.interval, countdown |-> 0]
      BY <1>3 DEF AfterFailure
    <3>3. turn.ok = FALSE /\ turn.r = AfterFailure(r)
      BY <3>1
    <3>4. OfSystem(g)
      BY <2>6 DEF OfSystem
    <3> QED
      BY <2>1, <3>2, <3>3, <3>4 DEF Failed
  <2>7. r.interval = 0 \/ r.interval > 0
    BY <1>2
  <2> HIDE DEF countdown, turn
  <2>8. countdown > 0 \/ countdown = 0
    BY <2>2
  <2> QED
    BY <2>3, <2>4, <2>5, <2>6, <2>7, <2>8
<1> QED
  BY <1>5, <1>6

LEMMA GaveEffect ==
    ASSUME RngType, NEW g \in Generators, NEW s \in Seq(Tokens), NEW n \in Blocks,
           NEW countdown \in 0 .. ReseedInterval, Gave(g, s, countdown, n)
    PROVE  /\ \A h \in Generators : h # g => rng'[h] = rng[h] /\ outputs'[h] = outputs[h] /\ Past(h)' = Past(h)
           /\ rng' \in [Generators -> Generator] /\ outputs' \in [Generators -> Seq(SUBSET Block)]
           /\ rng'[g].interval = rng[g].interval /\ rng'[g].countdown = countdown
           /\ OsIn(rng'[g].state) = OsIn(s) /\ Len(rng'[g].state) = Len(s) + 1 /\ rng'[g] # NoRng
           /\ Len(outputs[g]) \in Nat /\ DOMAIN outputs[g] = 1 .. Len(outputs[g])
           /\ DOMAIN outputs'[g] = 1 .. (Len(outputs[g]) + 1)
           /\ \A i \in DOMAIN outputs[g] : outputs'[g][i] = outputs[g][i]
           /\ Made(outputs'[g][Len(outputs[g]) + 1]) \subseteq {s}
           /\ Past(g)' \subseteq Past(g) \cup {s}
<1> DEFINE t == <<"generate", n>>
           r == [state |-> Append(s, t), interval |-> rng[g].interval, countdown |-> countdown]
           o == Append(outputs[g], BlocksOf(s, n))
<1>1. rng' = [rng EXCEPT ![g] = r] /\ outputs' = [outputs EXCEPT ![g] = o]
  BY DEF Gave
<1>2. t \in Tokens /\ t[1] # "os"
  BY RandomnessAssumption DEF Tokens
<1>3. rng[g] \in Generator /\ outputs[g] \in Seq(SUBSET Block)
  BY DEF RngType
<1> HIDE DEF t
<1>4. /\ Append(s, t) \in Seq(Tokens) /\ OsIn(Append(s, t)) = OsIn(s) /\ Len(Append(s, t)) = Len(s) + 1
      /\ rng[g].interval \in {0, ReseedInterval}
  BY <1>2, <1>3, MixedIn, RecordParts
<1>5. /\ r \in Generator /\ r.interval = rng[g].interval /\ r.countdown = countdown
      /\ r.state = Append(s, t)
  BY <1>4 DEF Generator
<1>6. BlocksOf(s, n) \in SUBSET Block
  BY DEF BlocksOf, Block
<1>7. /\ o \in Seq(SUBSET Block) /\ Len(outputs[g]) \in Nat /\ DOMAIN outputs[g] = 1 .. Len(outputs[g])
      /\ DOMAIN o = 1 .. (Len(outputs[g]) + 1)
      /\ \A i \in DOMAIN outputs[g] : o[i] = outputs[g][i]
      /\ o[Len(outputs[g]) + 1] = BlocksOf(s, n)
  <2> DEFINE e == BlocksOf(s, n)  S == SUBSET Block
  <2> HIDE DEF e, S
  <2>1. outputs[g] \in Seq(S) /\ e \in S
    BY <1>3, <1>6 DEF e, S
  <2>2. /\ Append(outputs[g], e) \in Seq(S) /\ Len(outputs[g]) \in Nat /\ DOMAIN outputs[g] = 1 .. Len(outputs[g])
        /\ Len(Append(outputs[g], e)) = Len(outputs[g]) + 1
        /\ \A i \in 1 .. Len(outputs[g]) : Append(outputs[g], e)[i] = outputs[g][i]
        /\ Append(outputs[g], e)[Len(outputs[g]) + 1] = e
    BY <2>1, AppendProperties
  <2>3. DOMAIN Append(outputs[g], e) = 1 .. (Len(outputs[g]) + 1)
    BY <2>2
  <2> QED
    BY <2>2, <2>3 DEF e, S
<1>8. Made(BlocksOf(s, n)) \subseteq {s}
  BY MadeOfBlocks
<1> HIDE DEF r, o
<1>9. rng'[g] = r /\ outputs'[g] = o
  BY <1>1, <1>3 DEF RngType
<1>10. \A h \in Generators : h # g => rng'[h] = rng[h] /\ outputs'[h] = outputs[h] /\ Past(h)' = Past(h)
  BY <1>1 DEF RngType, Past
<1>11. rng' \in [Generators -> Generator] /\ outputs' \in [Generators -> Seq(SUBSET Block)]
  BY <1>1, <1>5, <1>7 DEF RngType
<1>12. Past(g)' \subseteq Past(g) \cup {s}
  <2>1. Past(g)' = UNION {Made(o[i]) : i \in DOMAIN o}
    BY <1>9 DEF Past
  <2>2. ASSUME NEW i \in DOMAIN o
        PROVE  Made(o[i]) \subseteq Past(g) \cup {s}
    <3>1. CASE i \in DOMAIN outputs[g]
      BY <3>1, <1>7 DEF Past
    <3>2. CASE i = Len(outputs[g]) + 1
      BY <3>2, <1>7, <1>8
    <3> QED
      BY <1>7, <3>1, <3>2
  <2> QED
    BY <2>1, <2>2
<1>13. rng'[g] # NoRng
  <2>1. Len(s) \in Nat
    BY LenProperties
  <2> QED
    BY <1>4, <1>5, <1>9, <2>1 DEF NoRng
<1> QED
  BY <1>4, <1>5, <1>7, <1>8, <1>9, <1>10, <1>11, <1>12, <1>13

LEMMA MadeAreStates ==
    ASSUME RngType, NEW g \in Generators
    PROVE  /\ \A i \in DOMAIN outputs[g] : Made(outputs[g][i]) \subseteq Seq(Tokens)
           /\ Past(g) \subseteq Seq(Tokens)
           /\ rng[g] \in Generator /\ rng[g].state \in Seq(Tokens) /\ Len(rng[g].state) \in Nat
<1>1. rng[g] \in Generator /\ outputs[g] \in Seq(SUBSET Block)
  BY DEF RngType
<1>2. \A i \in DOMAIN outputs[g] : outputs[g][i] \in SUBSET Block
  BY <1>1, ElementOfSeq, LenProperties
<1>3. \A i \in DOMAIN outputs[g] : Made(outputs[g][i]) \subseteq Seq(Tokens)
  BY <1>2 DEF Made, Block
<1>4. rng[g].state \in Seq(Tokens)
  BY <1>1, RecordParts
<1> QED
  BY <1>1, <1>3, <1>4, LenProperties DEF Past

\* Nothing that could not be h's output before can be now.
SharesNoMore(h) ==
    /\ \A s \in Seq(Tokens) : OsIn(s) \subseteq Drawn /\ MayShare(s, h)' => MayShare(s, h)
    /\ \A T \in SUBSET Drawn : (T \in AnswerSets(h))' => T \in AnswerSets(h)

LEMMA UnchangedShares ==
    ASSUME NEW h, rng'[h] = rng[h], outputs'[h] = outputs[h]
    PROVE  SharesNoMore(h)
<1>1. Past(h)' = Past(h)
  BY DEF Past
<1>2. \A s : MayShare(s, h)' <=> MayShare(s, h)
  BY <1>1 DEF MayShare
<1>3. \A T : (T \in AnswerSets(h))' <=> T \in AnswerSets(h)
  BY <1>1 DEF AnswerSets
<1> QED
  BY <1>2, <1>3 DEF SharesNoMore

\* h went on without an answer, from the state it had.
LEMMA GrownShares ==
    ASSUME RngType, NEW h \in Generators,
           OsIn(rng'[h].state) = OsIn(rng[h].state), Len(rng'[h].state) \in Nat,
           Len(rng'[h].state) >= Len(rng[h].state),
           Past(h)' \subseteq Past(h) \cup {rng[h].state}
    PROVE  SharesNoMore(h)
<1>1. Len(rng[h].state) \in Nat
  BY MadeAreStates
<1>2. ASSUME NEW s \in Seq(Tokens), MayShare(s, h)'
      PROVE  MayShare(s, h)
  <2>1. \/ s \in Past(h)'
        \/ OsIn(s) = OsIn(rng'[h].state) /\ Len(s) >= Len(rng'[h].state)
    BY <1>2 DEF MayShare, OsIn
  <2>2. Len(s) \in Nat
    BY LenProperties
  <2> QED
    BY <1>1, <2>1, <2>2 DEF MayShare
<1>3. ASSUME NEW T, (T \in AnswerSets(h))'
      PROVE  T \in AnswerSets(h)
  <2>1. T = OsIn(rng'[h].state) \/ \E u \in Past(h)' : T = OsIn(u)
    BY <1>3 DEF AnswerSets, OsIn
  <2> QED
    BY <2>1 DEF AnswerSets
<1> QED
  BY <1>2, <1>3 DEF SharesNoMore

\* h drew: all that it gives from then on is its own.
LEMMA FreshShares ==
    ASSUME RngType, NEW h \in Generators, NEW s,
           FreshEntropy \in OsIn(rng'[h].state), FreshEntropy \in OsIn(s),
           Past(h)' \subseteq Past(h) \cup {s}
    PROVE  SharesNoMore(h)
<1>1. FreshEntropy \notin Drawn
  BY FreshIsNew
<1>2. ASSUME NEW u, OsIn(u) \subseteq Drawn, MayShare(u, h)'
      PROVE  MayShare(u, h)
  <2>1. \/ u \in Past(h)'
        \/ OsIn(u) = OsIn(rng'[h].state)
    BY <1>2 DEF MayShare, OsIn
  <2> QED
    BY <1>1, <1>2, <2>1 DEF MayShare
<1>3. ASSUME NEW T \in SUBSET Drawn, (T \in AnswerSets(h))'
      PROVE  T \in AnswerSets(h)
  <2>1. T = OsIn(rng'[h].state) \/ \E u \in Past(h)' : T = OsIn(u)
    BY <1>3 DEF AnswerSets, OsIn
  <2> QED
    BY <1>1, <2>1 DEF AnswerSets
<1> QED
  BY <1>2, <1>3 DEF SharesNoMore

LEMMA CallsAreFinite ==
    ASSUME RngType, NEW g \in Generators, NEW h
    PROVE  IsFiniteSet(SharedCalls(g, h)) /\ Cardinality(SharedCalls(g, h)) \in Nat
<1>1. outputs[g] \in Seq(SUBSET Block)
  BY DEF RngType
<1>2. Len(outputs[g]) \in Nat /\ DOMAIN outputs[g] = 1 .. Len(outputs[g])
  BY <1>1, LenProperties
<1>3. IsFiniteSet(1 .. Len(outputs[g]))
  <2>1. PICK n \in Nat : n = Len(outputs[g])
    BY <1>2
  <2>2. \A a, b \in Int : IsFiniteSet(a .. b)
    BY FS_Interval
  <2>3. 1 \in Int /\ n \in Int
    BY <2>1
  <2>4. IsFiniteSet(1 .. n)
    BY <2>2, <2>3
  <2> QED
    BY <2>1, <2>4
<1>4. SharedCalls(g, h) \subseteq 1 .. Len(outputs[g])
  BY <1>2 DEF SharedCalls
<1>5. IsFiniteSet(SharedCalls(g, h))
  BY <1>3, <1>4, FS_Subset
<1> QED
  BY <1>5, FS_CardinalityType

\* g made no call, and h came to nothing that it did not have.
LEMMA PairKeeps ==
    ASSUME RngInv, NEW g \in Generators, NEW h \in Generators, g # h, OfSystem(g),
           outputs'[g] = outputs[g], OsIn(rng'[g].state) = OsIn(rng[g].state),
           rng'[g].countdown \in Nat, rng'[g].countdown <= rng[g].countdown, SharesNoMore(h)
    PROVE  Parts(g, h)'
<1>1. RngType /\ StatesGrow(g) /\ Parts(g, h)
  BY DEF RngInv
<1>2. \A i \in DOMAIN outputs[g] : \A s \in Made(outputs[g][i]) : s \in Seq(Tokens) /\ OsIn(s) \subseteq Drawn
  BY <1>1, MadeAreStates DEF StatesGrow
<1>3. SharedCalls(g, h)' \subseteq SharedCalls(g, h)
  <2> SUFFICES ASSUME NEW i \in DOMAIN outputs[g], NEW s \in Made(outputs[g][i]), MayShare(s, h)'
               PROVE  MayShare(s, h)
    BY DEF SharedCalls, Made
  <2> QED
    BY <1>2 DEF SharesNoMore
<1>4. Cardinality(SharedCalls(g, h)') <= Cardinality(SharedCalls(g, h)) /\ Cardinality(SharedCalls(g, h)') \in Nat
      /\ Cardinality(SharedCalls(g, h)) \in Nat
  BY <1>1, <1>3, CallsAreFinite, FS_Subset, FS_CardinalityType
<1>5. Together(g, h)' => Together(g, h)
  <2>1. Together(g, h)' => (OsIn(rng[g].state) \in AnswerSets(h))'
    BY DEF Together, OsIn
  <2>2. ASSUME NEW T \in SUBSET Drawn, T = OsIn(rng[g].state), Together(g, h)'
        PROVE  T \in AnswerSets(h)
    <3>1. OsIn(rng'[g].state) = T
      BY <2>2
    <3>2. (T \in AnswerSets(h))'
      BY <2>2, <3>1 DEF Together, OsIn
    <3> QED
      BY <3>2 DEF SharesNoMore
  <2>3. OsIn(rng[g].state) \in SUBSET Drawn
    BY <1>1 DEF StatesGrow
  <2> QED
    BY <2>2, <2>3 DEF Together
<1>6. rng[g].countdown \in Nat
  BY <1>1, RecordParts, MadeAreStates
<1>7. ReseedInterval \in Nat
  BY RandomnessAssumption
<1> DEFINE m == Cardinality(SharedCalls(g, h))  n == Cardinality(SharedCalls(g, h)')
<1>8. m < ReseedInterval /\ (Together(g, h) => m + rng[g].countdown <= ReseedInterval)
  BY <1>1 DEF Parts
<1>9. n <= m /\ n \in Nat /\ m \in Nat
  BY <1>4
<1>10. Parts(g, h)' <=> /\ n < ReseedInterval
                        /\ Together(g, h)' => n + rng'[g].countdown <= ReseedInterval
  BY DEF Parts
<1> HIDE DEF m, n
<1> QED
  BY <1>5, <1>6, <1>7, <1>8, <1>9, <1>10

LEMMA QuietCalls ==
    ASSUME RngType, NEW g \in Generators, NEW h \in Generators, g # h,
           NEW n \in Blocks, NEW countdown \in 0 .. ReseedInterval,
           NEW s \in Seq(Tokens), OsIn(s) = OsIn(rng[g].state), Gave(g, s, countdown, n)
    PROVE  /\ Together(g, h)' <=> Together(g, h)
           /\ \/ SharedCalls(g, h)' \subseteq SharedCalls(g, h)
              \/ Together(g, h) /\ SharedCalls(g, h)' \subseteq SharedCalls(g, h) \cup {Len(outputs[g]) + 1}
<1> DEFINE k == Len(outputs[g]) + 1
<1>1. /\ rng'[h] = rng[h] /\ outputs'[h] = outputs[h] /\ Past(h)' = Past(h)
      /\ OsIn(rng'[g].state) = OsIn(s)
      /\ DOMAIN outputs[g] = 1 .. Len(outputs[g]) /\ DOMAIN outputs'[g] = 1 .. k /\ Len(outputs[g]) \in Nat
      /\ \A i \in DOMAIN outputs[g] : outputs'[g][i] = outputs[g][i]
      /\ Made(outputs'[g][k]) \subseteq {s}
  BY GaveEffect, ZenonT(30)
<1>2. \A u : MayShare(u, h)' <=> MayShare(u, h)
  BY <1>1 DEF MayShare
<1>3. MayShare(s, h) => Together(g, h)
  BY DEF MayShare, Together, AnswerSets
<1>4. Together(g, h)' <=> Together(g, h)
  BY <1>1 DEF Together, AnswerSets
<1>5. ASSUME NEW i \in SharedCalls(g, h)'
      PROVE  i \in SharedCalls(g, h) \/ (i = k /\ Together(g, h))
  <2>1. i \in DOMAIN outputs'[g] /\ \E u \in Made(outputs'[g][i]) : MayShare(u, h)'
    BY <1>5 DEF SharedCalls, Made
  <2>2. CASE i \in DOMAIN outputs[g]
    BY <2>1, <2>2, <1>1, <1>2 DEF SharedCalls
  <2>3. CASE i = k
    BY <2>1, <2>3, <1>1, <1>2, <1>3
  <2> QED
    BY <1>1, <2>1, <2>2, <2>3
<1> HIDE DEF k
<1>6. SharedCalls(g, h)' \subseteq SharedCalls(g, h)
      \/ (Together(g, h) /\ SharedCalls(g, h)' \subseteq SharedCalls(g, h) \cup {k})
  BY <1>5
<1> QED
  BY <1>4, <1>6 DEF k

\* A call without an answer gives at most one output that h may give, and uses up
\* one of the countdown.
LEMMA QuietParts ==
    ASSUME RngInv, NEW g \in Generators, NEW h \in Generators, g # h, OfSystem(g),
           NEW n \in Blocks, NEW countdown \in 0 .. ReseedInterval,
           NEW s \in Seq(Tokens), OsIn(s) = OsIn(rng[g].state), Gave(g, s, countdown, n),
           countdown > 0, rng[g].countdown = countdown + 1
    PROVE  Parts(g, h)'
<1> DEFINE k == Len(outputs[g]) + 1  C == SharedCalls(g, h)  D == SharedCalls(g, h)'
<1>1. RngType /\ Parts(g, h) /\ ReseedInterval \in Nat /\ countdown \in Nat
  BY RandomnessAssumption DEF RngInv
<1>2. rng'[g].countdown = countdown
  <2>1. rng[g] \in Generator /\ g \in DOMAIN rng
    BY <1>1 DEF RngType
  <2> QED
    BY <2>1 DEF Gave
<1>3. /\ Together(g, h)' <=> Together(g, h)
      /\ D \subseteq C \/ (Together(g, h) /\ D \subseteq C \cup {k})
  BY <1>1, QuietCalls
<1>4. IsFiniteSet(C) /\ Cardinality(C) \in Nat
  BY <1>1, CallsAreFinite
<1>5. Cardinality(C) < ReseedInterval /\ (Together(g, h) => Cardinality(C) + rng[g].countdown <= ReseedInterval)
  BY <1>1 DEF Parts
<1>6. ASSUME Cardinality(D) < ReseedInterval, Together(g, h)' => Cardinality(D) + rng'[g].countdown <= ReseedInterval
      PROVE  Parts(g, h)'
  BY <1>6 DEF Parts
<1> HIDE DEF C, D, k
<1>7. CASE D \subseteq C
  <2>1. Cardinality(D) <= Cardinality(C) /\ Cardinality(D) \in Nat
    BY <1>4, <1>7, FS_Subset, FS_CardinalityType
  <2> QED
    BY <1>1, <1>2, <1>3, <1>4, <1>5, <1>6, <2>1
<1>8. CASE Together(g, h) /\ D \subseteq C \cup {k}
  <2>1. /\ IsFiniteSet(C \cup {k})
        /\ Cardinality(C \cup {k}) = IF k \in C THEN Cardinality(C) ELSE Cardinality(C) + 1
    BY <1>4, FS_AddElement
  <2>2. IsFiniteSet(C \cup {k}) /\ Cardinality(C \cup {k}) <= Cardinality(C) + 1
        /\ Cardinality(C \cup {k}) \in Nat
    BY <1>4, <2>1
  <2>3. Cardinality(D) <= Cardinality(C \cup {k}) /\ Cardinality(D) \in Nat
    BY <2>2, <1>8, FS_Subset, FS_CardinalityType
  <2>4. Cardinality(D) <= Cardinality(C) + 1
    BY <1>4, <2>2, <2>3
  <2>5. Cardinality(C) + countdown + 1 <= ReseedInterval
    BY <1>1, <1>4, <1>5, <1>8
  <2>6. Cardinality(D) < ReseedInterval /\ Cardinality(D) + countdown <= ReseedInterval
    BY <1>1, <1>4, <2>3, <2>4, <2>5
  <2> QED
    BY <1>2, <1>6, <2>6
<1> QED
  BY <1>3, <1>7, <1>8

\* A call with an answer gives what no other generator has.
LEMMA RefilledParts ==
    ASSUME RngInv, NEW g \in Generators, NEW h \in Generators, g # h, OfSystem(g),
           NEW n \in Blocks, NEW countdown \in 0 .. ReseedInterval, NEW s \in Seq(Tokens), FreshEntropy \in OsIn(s),
           Gave(g, s, countdown, n)
    PROVE  Parts(g, h)'
<1>1. RngType /\ Parts(g, h) /\ StatesGrow(h)
  BY DEF RngInv
<1> DEFINE k == Len(outputs[g]) + 1
<1>2. /\ rng'[h] = rng[h] /\ outputs'[h] = outputs[h] /\ Past(h)' = Past(h)
      /\ OsIn(rng'[g].state) = OsIn(s)
      /\ DOMAIN outputs[g] = 1 .. Len(outputs[g]) /\ DOMAIN outputs'[g] = 1 .. k /\ Len(outputs[g]) \in Nat
      /\ \A i \in DOMAIN outputs[g] : outputs'[g][i] = outputs[g][i]
      /\ Made(outputs'[g][k]) \subseteq {s}
  BY <1>1, GaveEffect, ZenonT(30)
<1>3. FreshEntropy \notin Drawn
  BY <1>1, FreshIsNew
<1>4. OsIn(rng[h].state) \subseteq Drawn /\ \A u \in Past(h) : OsIn(u) \subseteq Drawn
  BY <1>1 DEF StatesGrow, Past
<1>5. ~Together(g, h)' /\ ~MayShare(s, h)
  BY <1>2, <1>3, <1>4 DEF Together, AnswerSets, MayShare
<1>6. \A u : MayShare(u, h)' <=> MayShare(u, h)
  BY <1>2 DEF MayShare
<1>7. SharedCalls(g, h)' \subseteq SharedCalls(g, h)
  <2> SUFFICES ASSUME NEW i \in SharedCalls(g, h)'
               PROVE  i \in SharedCalls(g, h)
    OBVIOUS
  <2>1. i \in DOMAIN outputs'[g] /\ \E u \in Made(outputs'[g][i]) : MayShare(u, h)'
    BY DEF SharedCalls, Made
  <2>2. i # k
    BY <2>1, <1>2, <1>5, <1>6
  <2>3. i \in DOMAIN outputs[g]
    BY <2>1, <2>2, <1>2
  <2> QED
    BY <2>1, <2>3, <1>2, <1>6 DEF SharedCalls
<1>8. Cardinality(SharedCalls(g, h)') <= Cardinality(SharedCalls(g, h))
      /\ Cardinality(SharedCalls(g, h)') \in Nat /\ Cardinality(SharedCalls(g, h)) \in Nat
  BY <1>1, <1>7, CallsAreFinite, FS_Subset, FS_CardinalityType
<1> DEFINE m == Cardinality(SharedCalls(g, h))  p == Cardinality(SharedCalls(g, h)')
<1>9. m < ReseedInterval /\ p <= m /\ p \in Nat /\ m \in Nat /\ ReseedInterval \in Nat
  BY <1>1, <1>8, RandomnessAssumption DEF Parts
<1>10. Parts(g, h)' <=> p < ReseedInterval
  BY <1>5 DEF Parts
<1> HIDE DEF m, p
<1> QED
  BY <1>9, <1>10

LEMMA DrawnGrows ==
    ASSUME RngType, entropy' \in {entropy, entropy + 1}
    PROVE  entropy' \in Nat /\ Drawn \subseteq Drawn' /\ (entropy' = entropy => Drawn' = Drawn)
           /\ (entropy' = entropy + 1 => Drawn' = Drawn \cup {FreshEntropy})
BY FreshIsNew DEF RngType, Drawn

\* g made no call; its state may have grown.
LEMMA GrowsOn ==
    ASSUME RngType, NEW g \in Generators, StatesGrow(g), Drawn \subseteq Drawn',
           outputs'[g] = outputs[g], OsIn(rng'[g].state) = OsIn(rng[g].state),
           rng'[g].interval = rng[g].interval,
           Len(rng'[g].state) \in Nat, Len(rng'[g].state) >= Len(rng[g].state)
    PROVE  StatesGrow(g)'
<1>1. OfSystem(g)' <=> OfSystem(g)
  BY DEF OfSystem
<1>2. Len(rng[g].state) \in Nat
  BY MadeAreStates
<1>3. \A i \in DOMAIN outputs[g] : \A s \in Made(outputs[g][i]) : Len(s) \in Nat
  BY MadeAreStates, LenProperties
<1>4. OsIn(rng'[g].state) \subseteq Drawn' /\ (OfSystem(g) => OsIn(rng'[g].state) # {})
  BY DEF StatesGrow
<1>5. \A i \in DOMAIN outputs[g] : \A s \in Made(outputs[g][i]) :
         /\ Len(s) < Len(rng'[g].state)
         /\ OsIn(s) \subseteq Drawn'
         /\ OfSystem(g) => OsIn(s) # {}
         /\ \A j \in DOMAIN outputs[g] : i < j => \A t \in Made(outputs[g][j]) : Len(s) < Len(t)
  <2> TAKE i \in DOMAIN outputs[g]
  <2> TAKE s \in Made(outputs[g][i])
  <2>1. /\ Len(s) < Len(rng[g].state)
        /\ OsIn(s) \subseteq Drawn
        /\ OfSystem(g) => OsIn(s) # {}
        /\ \A j \in DOMAIN outputs[g] : i < j => \A t \in Made(outputs[g][j]) : Len(s) < Len(t)
    BY DEF StatesGrow
  <2>2. Len(s) < Len(rng'[g].state)
    BY <1>2, <1>3, <2>1
  <2> QED
    BY <2>1, <2>2
<1>6. \A i \in DOMAIN outputs'[g] : \A s \in Made(outputs'[g][i]) :
         /\ Len(s) < Len(rng'[g].state)
         /\ OsIn(s) \subseteq Drawn'
         /\ OfSystem(g) => OsIn(s) # {}
         /\ \A j \in DOMAIN outputs'[g] : i < j => \A t \in Made(outputs'[g][j]) : Len(s) < Len(t)
  BY <1>5
<1> QED
  BY <1>1, <1>4, <1>6 DEF StatesGrow, Made, OsIn

LEMMA GaveGrows ==
    ASSUME RngType, NEW g \in Generators, StatesGrow(g), Drawn \subseteq Drawn',
           NEW n \in Blocks, NEW countdown \in 0 .. ReseedInterval, NEW s \in Seq(Tokens),
           Len(s) >= Len(rng[g].state), OsIn(s) \subseteq Drawn', OfSystem(g) => OsIn(s) # {},
           Gave(g, s, countdown, n)
    PROVE  StatesGrow(g)'
<1> DEFINE k == Len(outputs[g]) + 1
<1>1. /\ rng'[g].interval = rng[g].interval
      /\ OsIn(rng'[g].state) = OsIn(s) /\ Len(rng'[g].state) = Len(s) + 1
      /\ DOMAIN outputs[g] = 1 .. Len(outputs[g]) /\ DOMAIN outputs'[g] = 1 .. k /\ Len(outputs[g]) \in Nat
      /\ \A i \in DOMAIN outputs[g] : outputs'[g][i] = outputs[g][i]
      /\ Made(outputs'[g][k]) \subseteq {s}
  BY GaveEffect, ZenonT(30)
<1>2. Len(rng[g].state) \in Nat /\ Len(s) \in Nat
  BY MadeAreStates, LenProperties
<1>3. \A i \in DOMAIN outputs[g] : \A u \in Made(outputs[g][i]) : Len(u) \in Nat
  BY MadeAreStates, LenProperties
<1>4. \A i \in DOMAIN outputs[g] : \A u \in Made(outputs[g][i]) :
         /\ Len(u) < Len(s)
         /\ OsIn(u) \subseteq Drawn'
         /\ OfSystem(g) => OsIn(u) # {}
         /\ \A j \in DOMAIN outputs[g] : i < j => \A t \in Made(outputs[g][j]) : Len(u) < Len(t)
  <2> TAKE i \in DOMAIN outputs[g]
  <2> TAKE u \in Made(outputs[g][i])
  <2>1. /\ Len(u) < Len(rng[g].state)
        /\ OsIn(u) \subseteq Drawn
        /\ OfSystem(g) => OsIn(u) # {}
        /\ \A j \in DOMAIN outputs[g] : i < j => \A t \in Made(outputs[g][j]) : Len(u) < Len(t)
    BY DEF StatesGrow
  <2>2. Len(u) < Len(s)
    BY <1>2, <1>3, <2>1
  <2> QED
    BY <2>1, <2>2
<1>5. \A i \in DOMAIN outputs'[g] : i \in DOMAIN outputs[g] \/ i = k
  BY <1>1
<1>6. \A i, j \in DOMAIN outputs'[g] : i < j => i \in DOMAIN outputs[g]
  BY <1>1
<1>7. OfSystem(g)' <=> OfSystem(g)
  BY <1>1 DEF OfSystem
<1> HIDE DEF k
<1>8. ASSUME NEW i \in DOMAIN outputs'[g], NEW u \in Made(outputs'[g][i])
      PROVE  /\ Len(u) < Len(rng'[g].state)
             /\ OsIn(u) \subseteq Drawn'
             /\ OfSystem(g) => OsIn(u) # {}
             /\ \A j \in DOMAIN outputs'[g] : i < j => \A t \in Made(outputs'[g][j]) : Len(u) < Len(t)
  <2>1. CASE i = k
    <3>1. u = s
      BY <2>1, <1>1, <1>8
    <3>2. \A j \in DOMAIN outputs'[g] : ~(i < j)
      BY <2>1, <1>1 DEF k
    <3> QED
      BY <3>1, <3>2, <1>1, <1>2
  <2>2. CASE i \in DOMAIN outputs[g]
    <3>1. u \in Made(outputs[g][i]) /\ Len(u) \in Nat
      BY <2>2, <1>1, <1>3
    <3>2. Len(u) < Len(rng'[g].state)
      BY <3>1, <2>2, <1>1, <1>2, <1>4
    <3>3. ASSUME NEW j \in DOMAIN outputs'[g], i < j, NEW t \in Made(outputs'[g][j])
          PROVE  Len(u) < Len(t)
      <4>1. CASE j = k
        BY <4>1, <3>1, <3>3, <2>2, <1>1, <1>4
      <4>2. CASE j \in DOMAIN outputs[g]
        BY <4>2, <3>1, <3>3, <2>2, <1>1, <1>4
      <4> QED
        BY <4>1, <4>2, <1>5
    <3> QED
      BY <3>1, <3>2, <3>3, <2>2, <1>4
  <2> QED
    BY <2>1, <2>2, <1>5
<1>9. OsIn(rng'[g].state) \subseteq Drawn' /\ (OfSystem(g) => OsIn(rng'[g].state) # {})
  BY <1>1
<1> QED
  BY <1>7, <1>8, <1>9 DEF StatesGrow, Made, OsIn

\* One generator moves; all others are as they were.
LEMMA OthersKeep ==
    ASSUME RngInv, NEW g \in Generators, SharesNoMore(g), Drawn \subseteq Drawn',
           \A h \in Generators : h # g => rng'[h] = rng[h] /\ outputs'[h] = outputs[h]
    PROVE  /\ \A h \in Generators : h # g => StatesGrow(h)'
           /\ \A h, k \in Generators : h # k /\ h # g /\ OfSystem(h)' => Parts(h, k)'
<1>1. RngType
  BY DEF RngInv
<1>2. ASSUME NEW h \in Generators, h # g
      PROVE  StatesGrow(h)'
  <2>1. rng'[h] = rng[h] /\ outputs'[h] = outputs[h] /\ StatesGrow(h)
    BY <1>2 DEF RngInv
  <2>2. OsIn(rng'[h].state) = OsIn(rng[h].state) /\ Len(rng[h].state) \in Nat
    BY <1>1, <2>1, MadeAreStates
  <2> QED
    BY <1>1, <2>1, <2>2, GrowsOn
<1>3. ASSUME NEW h \in Generators, NEW k \in Generators, h # k, h # g, OfSystem(h)'
      PROVE  Parts(h, k)'
  <2>1. rng'[h] = rng[h] /\ outputs'[h] = outputs[h]
    BY <1>3
  <2>2. SharesNoMore(k)
    <3>1. CASE k = g
      BY <3>1
    <3>2. CASE k # g
      BY <3>2, UnchangedShares
    <3> QED
      BY <3>1, <3>2
  <2>3. OfSystem(h) /\ OsIn(rng'[h].state) = OsIn(rng[h].state)
    BY <1>3, <2>1 DEF OfSystem
  <2>4. rng[h].countdown \in Nat
    BY <1>1, MadeAreStates, RecordParts
  <2> QED
    BY <1>3, <2>1, <2>2, <2>3, <2>4, PairKeeps
<1> QED
  BY <1>2, <1>3

LEMMA QuietCallKeeps == ASSUME RngInv, NEW g \in Generators, NEW n \in Blocks, Quiet(g, n) PROVE RngInv'
<1>1. RngType /\ NotBegun /\ CountsDown /\ StatesGrow(g) /\ ReseedInterval \in Nat
  BY RandomnessAssumption DEF RngInv
<1>2. PICK countdown \in 0 .. ReseedInterval :
        /\ Gave(g, rng[g].state, countdown, n)
        /\ since' = [since EXCEPT ![g] = @ + 1]
        /\ entropy' = entropy
        /\ OfSystem(g) => countdown > 0 /\ rng[g].countdown = countdown + 1
  BY DEF Quiet
<1>3. PICK s \in Seq(Tokens) : s = rng[g].state
  BY <1>1, MadeAreStates
<1>4. Gave(g, s, countdown, n)
  BY <1>2, <1>3
<1>5. /\ \A h \in Generators : h # g => rng'[h] = rng[h] /\ outputs'[h] = outputs[h]
      /\ rng' \in [Generators -> Generator] /\ outputs' \in [Generators -> Seq(SUBSET Block)]
      /\ rng'[g].interval = rng[g].interval /\ rng'[g].countdown = countdown
      /\ OsIn(rng'[g].state) = OsIn(s) /\ Len(rng'[g].state) = Len(s) + 1 /\ rng'[g] # NoRng
      /\ Past(g)' \subseteq Past(g) \cup {s}
  BY <1>1, <1>4, GaveEffect
<1>6. Drawn' = Drawn
  BY <1>2 DEF Drawn
<1>7. Len(s) \in Nat /\ OsIn(s) \subseteq Drawn /\ (OfSystem(g) => OsIn(s) # {})
  BY <1>1, <1>3, LenProperties DEF StatesGrow
<1>8. SharesNoMore(g)
  <2>1. OsIn(rng'[g].state) = OsIn(rng[g].state) /\ Len(rng'[g].state) \in Nat
        /\ Len(rng'[g].state) >= Len(rng[g].state) /\ Past(g)' \subseteq Past(g) \cup {rng[g].state}
    BY <1>3, <1>5, <1>7
  <2> QED
    BY <1>1, <2>1, GrownShares
<1>9. /\ \A h \in Generators : h # g => StatesGrow(h)'
      /\ \A h, k \in Generators : h # k /\ h # g /\ OfSystem(h)' => Parts(h, k)'
  BY <1>5, <1>6, <1>8, OthersKeep
<1>10. StatesGrow(g)'
  BY <1>1, <1>3, <1>4, <1>6, <1>7, GaveGrows
<1>11. OfSystem(g)' <=> OfSystem(g)
  BY <1>5 DEF OfSystem
<1>12. ASSUME NEW h \in Generators, g # h, OfSystem(g)'
       PROVE  Parts(g, h)'
  <2>1. OsIn(s) = OsIn(rng[g].state) /\ countdown > 0 /\ rng[g].countdown = countdown + 1 /\ OfSystem(g)
    BY <1>2, <1>3, <1>11, <1>12
  <2> QED
    BY <1>4, <1>12, <2>1, QuietParts
<1>13. RngType' /\ \A h \in Generators : since'[h] = IF h = g THEN since[h] + 1 ELSE since[h]
  <2>1. since \in [Generators -> Nat]
    BY <1>1 DEF RngType
  <2>2. /\ since' \in [Generators -> Nat]
        /\ \A h \in Generators : since'[h] = IF h = g THEN since[h] + 1 ELSE since[h]
    BY <1>2, <2>1
  <2>3. RngType'
    BY <1>1, <1>2, <1>5, <2>2 DEF RngType
  <2> QED
    BY <2>2, <2>3
<1>14. CountsDown'
  <2> SUFFICES ASSUME NEW h \in Generators, OfSystem(h)'
               PROVE  since'[h] <= ReseedInterval /\ since'[h] + rng'[h].countdown <= ReseedInterval + 1
    BY DEF CountsDown
  <2>1. since[h] \in Nat
    BY <1>1 DEF RngType
  <2>2. CASE h = g
    BY <1>1, <1>2, <1>5, <1>11, <1>13, <2>1, <2>2 DEF CountsDown
  <2>3. CASE h # g
    BY <1>1, <1>5, <1>13, <2>3 DEF CountsDown, OfSystem
  <2> QED
    BY <2>2, <2>3
<1>15. NotBegun'
  BY <1>1, <1>5, <1>13 DEF NotBegun
<1> QED
  BY <1>9, <1>10, <1>12, <1>13, <1>14, <1>15 DEF RngInv

LEMMA RefilledKeeps == ASSUME RngInv, NEW g \in Generators, NEW n \in Blocks, Refilled(g, n) PROVE RngInv'
<1>1. RngType /\ NotBegun /\ CountsDown /\ StatesGrow(g) /\ ReseedInterval \in Nat /\ ReseedInterval > 0
  BY RandomnessAssumption DEF RngInv
<1>2. /\ Gave(g, Append(rng[g].state, FreshEntropy), rng[g].interval, n)
      /\ since' = [since EXCEPT ![g] = 1]
      /\ entropy' = entropy + 1
  BY DEF Refilled
<1>3. rng[g].state \in Seq(Tokens) /\ Len(rng[g].state) \in Nat /\ rng[g].interval \in {0, ReseedInterval}
  BY <1>1, MadeAreStates, RecordParts
<1>4. PICK s \in Seq(Tokens) : s = Append(rng[g].state, FreshEntropy)
  BY <1>1, <1>3, FreshIsNew, MixedIn
<1>5. PICK countdown \in 0 .. ReseedInterval : countdown = rng[g].interval
  BY <1>1, <1>3
<1>6. Gave(g, s, countdown, n)
  BY <1>2, <1>4, <1>5
<1>7. OsIn(s) = OsIn(rng[g].state) \cup {FreshEntropy} /\ Len(s) = Len(rng[g].state) + 1
  BY <1>1, <1>3, <1>4, FreshIsNew, MixedIn
<1>8. /\ \A h \in Generators : h # g => rng'[h] = rng[h] /\ outputs'[h] = outputs[h]
      /\ rng' \in [Generators -> Generator] /\ outputs' \in [Generators -> Seq(SUBSET Block)]
      /\ rng'[g].interval = rng[g].interval /\ rng'[g].countdown = countdown
      /\ OsIn(rng'[g].state) = OsIn(s) /\ rng'[g] # NoRng
      /\ Past(g)' \subseteq Past(g) \cup {s}
  BY <1>1, <1>6, GaveEffect
<1>9. entropy' \in Nat /\ Drawn \subseteq Drawn' /\ Drawn' = Drawn \cup {FreshEntropy}
  BY <1>1, <1>2, DrawnGrows
<1>10. SharesNoMore(g)
  <2>1. FreshEntropy \in OsIn(rng'[g].state) /\ FreshEntropy \in OsIn(s)
    BY <1>7, <1>8
  <2> QED
    BY <1>1, <1>8, <2>1, FreshShares
<1>11. /\ \A h \in Generators : h # g => StatesGrow(h)'
       /\ \A h, k \in Generators : h # k /\ h # g /\ OfSystem(h)' => Parts(h, k)'
  BY <1>8, <1>9, <1>10, OthersKeep
<1>12. StatesGrow(g)'
  <2>1. OsIn(s) \subseteq Drawn' /\ (OfSystem(g) => OsIn(s) # {}) /\ Len(s) >= Len(rng[g].state)
    BY <1>1, <1>3, <1>7, <1>9 DEF StatesGrow
  <2> QED
    BY <1>1, <1>6, <1>9, <2>1, GaveGrows
<1>13. OfSystem(g)' <=> OfSystem(g)
  BY <1>8 DEF OfSystem
<1>14. ASSUME NEW h \in Generators, g # h, OfSystem(g)'
       PROVE  Parts(g, h)'
  <2>1. FreshEntropy \in OsIn(s) /\ OfSystem(g)
    BY <1>7, <1>13, <1>14
  <2> QED
    BY <1>6, <1>14, <2>1, RefilledParts
<1>15. RngType' /\ \A h \in Generators : since'[h] = IF h = g THEN 1 ELSE since[h]
  BY <1>1, <1>2, <1>8, <1>9 DEF RngType
<1>16. CountsDown'
  <2> SUFFICES ASSUME NEW h \in Generators, OfSystem(h)'
               PROVE  since'[h] <= ReseedInterval /\ since'[h] + rng'[h].countdown <= ReseedInterval + 1
    BY DEF CountsDown
  <2>1. CASE h = g
    BY <1>1, <1>3, <1>5, <1>8, <1>15, <2>1
  <2>2. CASE h # g
    BY <1>1, <1>8, <1>15, <2>2 DEF CountsDown, OfSystem
  <2> QED
    BY <2>1, <2>2
<1>17. NotBegun'
  BY <1>1, <1>8, <1>15 DEF NotBegun
<1> QED
  BY <1>11, <1>12, <1>14, <1>15, <1>16, <1>17 DEF RngInv

\* No output: the answer failed, or the caller mixed something in.
LEMMA SilentKeeps ==
    ASSUME RngInv, NEW g \in Generators, NEW s \in Seq(Tokens), NEW countdown \in 0 .. ReseedInterval,
           rng[g] # NoRng, countdown <= rng[g].countdown,
           s = rng[g].state \/ \E t \in Tokens : t[1] # "os" /\ s = Append(rng[g].state, t),
           rng' = [rng EXCEPT ![g] = [state |-> s, interval |-> rng[g].interval, countdown |-> countdown]],
           OfSystem(g) \/ s # <<>>,
           UNCHANGED <<entropy, outputs, since>>
    PROVE  RngInv'
<1> DEFINE r == [state |-> s, interval |-> rng[g].interval, countdown |-> countdown]
<1>1. RngType /\ NotBegun /\ CountsDown /\ StatesGrow(g) /\ ReseedInterval \in Nat /\ countdown \in Nat
  BY RandomnessAssumption DEF RngInv
<1>2. rng[g] \in Generator /\ rng[g].state \in Seq(Tokens) /\ Len(rng[g].state) \in Nat
      /\ rng[g].interval \in {0, ReseedInterval} /\ rng[g].countdown \in Nat
  BY <1>1, MadeAreStates, RecordParts
<1>3. OsIn(s) = OsIn(rng[g].state) /\ Len(s) \in Nat /\ Len(s) >= Len(rng[g].state)
  <2>1. CASE s = rng[g].state
    BY <2>1, <1>2
  <2>2. ASSUME NEW t \in Tokens, t[1] # "os", s = Append(rng[g].state, t)
        PROVE  OsIn(s) = OsIn(rng[g].state) /\ Len(s) = Len(rng[g].state) + 1
    BY <2>2, <1>2, MixedIn
  <2> QED
    BY <2>1, <2>2, <1>2
<1>4. r \in Generator /\ r.state = s /\ r.interval = rng[g].interval /\ r.countdown = countdown
  BY <1>2 DEF Generator
<1>5. rng' = [rng EXCEPT ![g] = r]
  OBVIOUS
<1>6. r # NoRng
  BY <1>4 DEF OfSystem, NoRng
<1> HIDE DEF r
<1>7. /\ \A h \in Generators : rng'[h] = IF h = g THEN r ELSE rng[h]
      /\ rng' \in [Generators -> Generator]
  BY <1>1, <1>4, <1>5 DEF RngType
<1>8. Drawn' = Drawn /\ Past(g)' = Past(g)
  BY DEF Drawn, Past
<1>9. OsIn(rng'[g].state) = OsIn(rng[g].state) /\ Len(rng'[g].state) \in Nat
      /\ Len(rng'[g].state) >= Len(rng[g].state) /\ rng'[g].interval = rng[g].interval
      /\ rng'[g].countdown = countdown /\ outputs'[g] = outputs[g]
  BY <1>3, <1>4, <1>7
<1>10. SharesNoMore(g)
  BY <1>1, <1>8, <1>9, GrownShares
<1>11. \A h \in Generators : h # g => rng'[h] = rng[h] /\ outputs'[h] = outputs[h]
  BY <1>7
<1>12. /\ \A h \in Generators : h # g => StatesGrow(h)'
       /\ \A h, k \in Generators : h # k /\ h # g /\ OfSystem(h)' => Parts(h, k)'
  BY <1>8, <1>10, <1>11, OthersKeep
<1>13. StatesGrow(g)'
  BY <1>1, <1>8, <1>9, GrowsOn
<1>14. OfSystem(g)' <=> OfSystem(g)
  BY <1>9 DEF OfSystem
<1>15. ASSUME NEW h \in Generators, g # h, OfSystem(g)'
       PROVE  Parts(g, h)'
  <2>1. SharesNoMore(h)
    BY <1>11, <1>15, UnchangedShares
  <2>2. OfSystem(g) /\ rng'[g].countdown \in Nat /\ rng'[g].countdown <= rng[g].countdown
    BY <1>1, <1>9, <1>14, <1>15
  <2> QED
    BY <1>9, <1>15, <2>1, <2>2, PairKeeps
<1>16. RngType'
  BY <1>1, <1>7 DEF RngType
<1>17. CountsDown'
  <2> SUFFICES ASSUME NEW h \in Generators, OfSystem(h)'
               PROVE  since'[h] <= ReseedInterval /\ since'[h] + rng'[h].countdown <= ReseedInterval + 1
    BY DEF CountsDown
  <2>1. since[h] \in Nat /\ since'[h] = since[h]
    BY <1>1 DEF RngType
  <2>2. CASE h = g
    BY <1>1, <1>2, <1>9, <1>14, <2>1, <2>2 DEF CountsDown
  <2>3. CASE h # g
    BY <1>1, <1>11, <2>1, <2>3 DEF CountsDown, OfSystem
  <2> QED
    BY <2>2, <2>3
<1>18. NotBegun'
  BY <1>1, <1>6, <1>7 DEF NotBegun
<1> QED
  BY <1>12, <1>13, <1>15, <1>16, <1>17, <1>18 DEF RngInv

\* A generator begins, with what it is given.
LEMMA BeginKeeps ==
    ASSUME RngInv, NEW g \in Generators, NEW r \in Generator, rng[g] = NoRng, r # NoRng,
           rng' = [rng EXCEPT ![g] = r], UNCHANGED outputs, entropy' \in {entropy, entropy + 1},
           NEW x \in Nat, \A h \in Generators : since'[h] = IF h = g THEN x ELSE since[h],
           since' \in [Generators -> Nat],
           OsIn(r.state) \subseteq Drawn',
           r.interval > 0 => /\ OsIn(r.state) # {}
                             /\ x <= ReseedInterval /\ x + r.countdown <= ReseedInterval + 1,
           \A h \in Generators : h # g /\ OfSystem(h) => Parts(h, g)'
    PROVE  RngInv'
<1>1. RngType /\ NotBegun /\ CountsDown /\ ReseedInterval \in Nat /\ ReseedInterval > 0
  BY RandomnessAssumption DEF RngInv
<1>2. entropy' \in Nat /\ Drawn \subseteq Drawn'
  BY <1>1, DrawnGrows
<1>3. /\ \A h \in Generators : rng'[h] = IF h = g THEN r ELSE rng[h]
      /\ rng' \in [Generators -> Generator]
  BY <1>1 DEF RngType
<1>4. r.countdown \in Nat /\ r.countdown <= ReseedInterval
  BY <1>1, RecordParts
<1>5. outputs'[g] = <<>> /\ Past(g)' = {} /\ \A h : SharedCalls(g, h)' = {}
  <2>1. outputs'[g] = <<>>
    BY <1>1 DEF NotBegun
  <2>2. DOMAIN outputs'[g] = {}
    BY <2>1
  <2> QED
    BY <2>1, <2>2 DEF Past, SharedCalls
<1>6. OfSystem(g)' <=> r.interval > 0
  BY <1>3 DEF OfSystem
<1>7. RngType'
  BY <1>1, <1>2, <1>3 DEF RngType
<1>8. StatesGrow(g)'
  BY <1>3, <1>5, <1>6 DEF StatesGrow, OsIn
<1>9. ASSUME NEW h \in Generators, h # g
      PROVE  StatesGrow(h)' /\ (OfSystem(h)' <=> OfSystem(h)) /\ rng'[h] = rng[h] /\ outputs'[h] = outputs[h]
  <2>1. rng'[h] = rng[h] /\ outputs'[h] = outputs[h] /\ StatesGrow(h)
    BY <1>3, <1>9 DEF RngInv
  <2>2. OsIn(rng'[h].state) = OsIn(rng[h].state) /\ Len(rng[h].state) \in Nat
    BY <1>1, <2>1, MadeAreStates
  <2> QED
    BY <1>1, <1>2, <2>1, <2>2, GrowsOn DEF OfSystem
<1>10. ASSUME NEW h \in Generators, g # h, OfSystem(g)'
       PROVE  Parts(g, h)'
  <2>1. Cardinality(SharedCalls(g, h)') = 0
    BY <1>5, FS_EmptySet
  <2>2. rng'[g].countdown = r.countdown
    BY <1>3
  <2> DEFINE n == Cardinality(SharedCalls(g, h)')
  <2>3. Parts(g, h)' <=> n < ReseedInterval /\ (Together(g, h)' => n + rng'[g].countdown <= ReseedInterval)
    BY DEF Parts
  <2> HIDE DEF n
  <2> QED
    BY <1>1, <1>4, <2>1, <2>2, <2>3 DEF n
<1>11. ASSUME NEW h \in Generators, NEW k \in Generators, h # k, h # g, OfSystem(h)'
       PROVE  Parts(h, k)'
  <2>1. CASE k = g
    BY <2>1, <1>9, <1>11
  <2>2. CASE k # g
    <3>1. rng'[h] = rng[h] /\ outputs'[h] = outputs[h] /\ OfSystem(h)
      BY <1>9, <1>11
    <3>2. SharesNoMore(k)
      BY <1>9, <2>2, UnchangedShares
    <3>3. OsIn(rng'[h].state) = OsIn(rng[h].state) /\ rng[h].countdown \in Nat
      BY <1>1, <3>1, MadeAreStates, RecordParts
    <3> QED
      BY <1>11, <3>1, <3>2, <3>3, PairKeeps
  <2> QED
    BY <2>1, <2>2
<1>12. CountsDown'
  <2> SUFFICES ASSUME NEW h \in Generators, OfSystem(h)'
               PROVE  since'[h] <= ReseedInterval /\ since'[h] + rng'[h].countdown <= ReseedInterval + 1
    BY DEF CountsDown
  <2>1. CASE h = g
    BY <1>3, <1>6, <2>1
  <2>2. CASE h # g
    BY <1>1, <1>3, <1>9, <2>2 DEF CountsDown
  <2> QED
    BY <2>1, <2>2
<1>13. NotBegun'
  BY <1>1, <1>3 DEF NotBegun
<1> QED
  BY <1>7, <1>8, <1>9, <1>10, <1>11, <1>12, <1>13 DEF RngInv

\* Of what h gave out, nothing is the new generator's.
LEMMA NoneShared ==
    ASSUME NEW h \in Generators, NEW g \in Generators, RngType, ReseedInterval > 0,
           rng'[h] = rng[h], outputs'[h] = outputs[h], Past(g)' = {},
           \A i \in DOMAIN outputs[h] : \A s \in Made(outputs[h][i]) :
              ~(OsIn(s) = OsIn(rng'[g].state) /\ Len(s) >= Len(rng'[g].state)),
           Together(h, g)' => rng[h].countdown <= ReseedInterval
    PROVE  Parts(h, g)'
<1>1. SharedCalls(h, g)' = {}
  <2> SUFFICES ASSUME NEW i \in DOMAIN outputs[h], NEW s \in Made(outputs[h][i]), MayShare(s, g)'
               PROVE  FALSE
    BY DEF SharedCalls, Made
  <2> QED
    BY DEF MayShare, OsIn
<1>2. Cardinality(SharedCalls(h, g)') = 0
  BY <1>1, FS_EmptySet
<1>3. rng[h].countdown \in Nat /\ ReseedInterval \in Nat
  BY MadeAreStates, RecordParts, RandomnessAssumption
<1> DEFINE n == Cardinality(SharedCalls(h, g)')
<1>4. Parts(h, g)' <=> n < ReseedInterval /\ (Together(h, g)' => n + rng'[h].countdown <= ReseedInterval)
  BY DEF Parts
<1> HIDE DEF n
<1> QED
  BY <1>2, <1>3, <1>4 DEF n

LEMMA FirstMixed ==
    ASSUME NEW t \in Tokens
    PROVE  /\ <<t>> \in Seq(Tokens) /\ Len(<<t>>) = 1
           /\ t[1] = "os" => OsIn(<<t>>) = {t}
           /\ t[1] # "os" => OsIn(<<t>>) = {}
BY DEF OsIn

\* What a fresh generator does not share, it does not share with anybody.
LEMMA NewKeeps == ASSUME RngInv, NEW g \in Generators, new_rng(g) PROVE RngInv'
<1> DEFINE r == [state |-> <<FreshEntropy>>, interval |-> ReseedInterval, countdown |-> ReseedInterval]
<1>1. RngType /\ NotBegun /\ ReseedInterval \in Nat /\ ReseedInterval > 0
  BY RandomnessAssumption DEF RngInv
<1>2. rng[g] = NoRng /\ rng' = [rng EXCEPT ![g] = r] /\ entropy' = entropy + 1 /\ UNCHANGED <<outputs, since>>
  BY DEF new_rng, BeginRng
<1>3. FreshEntropy \in Tokens /\ FreshEntropy[1] = "os" /\ FreshEntropy \notin Drawn
  BY <1>1, FreshIsNew
<1>4. <<FreshEntropy>> \in Seq(Tokens) /\ OsIn(<<FreshEntropy>>) = {FreshEntropy}
  BY <1>3, FirstMixed
<1>5. r \in Generator /\ r.state = <<FreshEntropy>> /\ r.interval = ReseedInterval /\ r.countdown = ReseedInterval
  BY <1>1, <1>4 DEF Generator
<1>6. r # NoRng
  BY <1>1, <1>5 DEF NoRng
<1>7. Drawn' = Drawn \cup {FreshEntropy}
  BY <1>1, <1>2, DrawnGrows
<1> HIDE DEF r
<1>8. \A h \in Generators : rng'[h] = IF h = g THEN r ELSE rng[h]
  BY <1>1, <1>2 DEF RngType
<1>9. Past(g)' = {}
  <2>1. outputs'[g] = <<>>
    BY <1>1, <1>2 DEF NotBegun
  <2> QED
    BY <2>1 DEF Past
<1>10. ASSUME NEW h \in Generators, h # g, OfSystem(h)
       PROVE  Parts(h, g)'
  <2>1. rng'[h] = rng[h] /\ outputs'[h] = outputs[h] /\ OsIn(rng'[g].state) = {FreshEntropy}
    BY <1>2, <1>4, <1>5, <1>8, <1>10
  <2>2. StatesGrow(h)
    BY DEF RngInv
  <2>3. \A i \in DOMAIN outputs[h] : \A s \in Made(outputs[h][i]) : OsIn(s) # OsIn(rng'[g].state)
    BY <1>3, <2>1, <2>2 DEF StatesGrow
  <2>4. ~Together(h, g)'
    <3>1. OsIn(rng'[h].state) # OsIn(rng'[g].state)
      BY <1>3, <2>1, <2>2 DEF StatesGrow
    <3> QED
      BY <1>9, <3>1 DEF Together, AnswerSets, OsIn
  <2> QED
    BY <1>1, <1>9, <2>1, <2>3, <2>4, NoneShared
<1>11. since[g] = 0 /\ since' = since /\ since \in [Generators -> Nat]
  BY <1>1, <1>2 DEF NotBegun, RngType
<1>12. /\ \A h \in Generators : since'[h] = IF h = g THEN 0 ELSE since[h]
       /\ since' \in [Generators -> Nat] /\ UNCHANGED outputs /\ entropy' \in {entropy, entropy + 1}
       /\ OsIn(r.state) \subseteq Drawn'
       /\ r.interval > 0 => /\ OsIn(r.state) # {}
                            /\ 0 <= ReseedInterval /\ 0 + r.countdown <= ReseedInterval + 1
  BY <1>1, <1>2, <1>4, <1>5, <1>7, <1>11
<1> QED
  BY <1>2, <1>5, <1>6, <1>10, <1>12, BeginKeeps

LEMMA SeededKeeps == ASSUME RngInv, NEW g \in Generators, NEW seed \in Seeds, seeded_rng(g, seed) PROVE RngInv'
<1> DEFINE t == <<"seed", seed>>
           r == [state |-> <<t>>, interval |-> 0, countdown |-> 0]
<1>1. RngType /\ NotBegun /\ ReseedInterval \in Nat /\ ReseedInterval > 0
  BY RandomnessAssumption DEF RngInv
<1>2. rng[g] = NoRng /\ rng' = [rng EXCEPT ![g] = r] /\ entropy' = entropy + 0 /\ UNCHANGED <<outputs, since>>
  BY DEF seeded_rng, BeginRng, from_seed
<1>3. t \in Tokens /\ t[1] # "os"
  BY DEF Tokens
<1> HIDE DEF t
<1>4. <<t>> \in Seq(Tokens) /\ OsIn(<<t>>) = {} /\ <<t>> # <<>>
  BY <1>3, FirstMixed
<1>5. r \in Generator /\ r.state = <<t>> /\ r.interval = 0 /\ r.countdown = 0
  BY <1>1, <1>4 DEF Generator
<1>6. r # NoRng
  BY <1>4, <1>5 DEF NoRng
<1>7. entropy' = entropy
  BY <1>1, <1>2 DEF RngType
<1> HIDE DEF r
<1>8. \A h \in Generators : rng'[h] = IF h = g THEN r ELSE rng[h]
  BY <1>1, <1>2 DEF RngType
<1>9. Past(g)' = {}
  <2>1. outputs'[g] = <<>>
    BY <1>1, <1>2 DEF NotBegun
  <2> QED
    BY <2>1 DEF Past
<1>10. ASSUME NEW h \in Generators, h # g, OfSystem(h)
       PROVE  Parts(h, g)'
  <2>1. rng'[h] = rng[h] /\ outputs'[h] = outputs[h] /\ OsIn(rng'[g].state) = {}
    BY <1>2, <1>4, <1>5, <1>8, <1>10
  <2>2. StatesGrow(h)
    BY DEF RngInv
  <2>3. \A i \in DOMAIN outputs[h] : \A s \in Made(outputs[h][i]) : OsIn(s) # OsIn(rng'[g].state)
    BY <1>10, <2>1, <2>2 DEF StatesGrow
  <2>4. ~Together(h, g)'
    <3>1. OsIn(rng'[h].state) # OsIn(rng'[g].state)
      BY <1>10, <2>1, <2>2 DEF StatesGrow
    <3> QED
      BY <1>9, <3>1 DEF Together, AnswerSets, OsIn
  <2> QED
    BY <1>1, <1>9, <2>1, <2>3, <2>4, NoneShared
<1>11. since[g] = 0 /\ since' = since /\ since \in [Generators -> Nat]
  BY <1>1, <1>2 DEF NotBegun, RngType
<1>12. /\ \A h \in Generators : since'[h] = IF h = g THEN 0 ELSE since[h]
       /\ since' \in [Generators -> Nat] /\ UNCHANGED outputs /\ entropy' \in {entropy, entropy + 1}
       /\ OsIn(r.state) \subseteq Drawn'
       /\ r.interval > 0 => /\ OsIn(r.state) # {}
                            /\ 0 <= ReseedInterval /\ 0 + r.countdown <= ReseedInterval + 1
  BY <1>1, <1>2, <1>4, <1>5, <1>7, <1>11
<1> QED
  BY <1>2, <1>5, <1>6, <1>10, <1>12, BeginKeeps

\* A clone shares with its original what it will give, and with any other what
\* the original shares.
LEMMA CloneKeeps ==
    ASSUME RngInv, NEW c \in Generators, NEW g \in Generators, c # g, clone_rng(c, g)
    PROVE  RngInv'
<1>1. RngType /\ NotBegun /\ CountsDown /\ StatesGrow(c) /\ ReseedInterval \in Nat /\ ReseedInterval > 0
  BY RandomnessAssumption DEF RngInv
<1>2. /\ rng[g] = NoRng /\ rng[c] # NoRng
      /\ rng' = [rng EXCEPT ![g] = rng[c]]
      /\ since' = [since EXCEPT ![g] = since[c]]
      /\ UNCHANGED <<entropy, outputs>>
  BY DEF clone_rng
<1>3. PICK r \in Generator : r = rng[c]
  BY <1>1 DEF RngType
<1>4. PICK x \in Nat : x = since[c]
  BY <1>1 DEF RngType
<1>5. Drawn' = Drawn
  BY <1>2 DEF Drawn
<1>6. \A h \in Generators : rng'[h] = IF h = g THEN r ELSE rng[h]
  BY <1>1, <1>2, <1>3 DEF RngType
<1>7. Past(g)' = {}
  <2>1. outputs'[g] = <<>>
    BY <1>1, <1>2 DEF NotBegun
  <2> QED
    BY <2>1 DEF Past
<1>8. rng'[g].state = rng[c].state
  BY <1>3, <1>6
<1>9. ASSUME NEW h \in Generators, h # g, OfSystem(h)
      PROVE  Parts(h, g)'
  <2>1. rng'[h] = rng[h] /\ outputs'[h] = outputs[h] /\ StatesGrow(h)
    BY <1>2, <1>6, <1>9 DEF RngInv
  <2>2. rng[h].countdown \in Nat /\ rng[h].countdown <= ReseedInterval
    BY <1>1, MadeAreStates, RecordParts
  <2>3. CASE h = c
    <3>1. \A i \in DOMAIN outputs[h] : \A s \in Made(outputs[h][i]) :
             Len(s) \in Nat /\ Len(s) < Len(rng'[g].state) /\ Len(rng'[g].state) \in Nat
      BY <1>1, <1>8, <2>1, <2>3, MadeAreStates, LenProperties DEF StatesGrow
    <3>2. \A i \in DOMAIN outputs[h] : \A s \in Made(outputs[h][i]) : ~(Len(s) >= Len(rng'[g].state))
      BY <3>1
    <3> QED
      BY <1>1, <1>7, <2>1, <2>2, <3>2, NoneShared
  <2>4. CASE h # c
    <3>1. Parts(h, c)
      BY <1>9, <2>4 DEF RngInv
    <3>2. \A u : MayShare(u, g)' => MayShare(u, c)
      BY <1>7, <1>8 DEF MayShare, OsIn
    <3>3. SharedCalls(h, g)' \subseteq SharedCalls(h, c)
      <4> SUFFICES ASSUME NEW i \in DOMAIN outputs[h], NEW s \in Made(outputs[h][i]), MayShare(s, g)'
                   PROVE  MayShare(s, c)
        BY <2>1 DEF SharedCalls, Made
      <4> QED
        BY <3>2
    <3>4. Together(h, g)' => Together(h, c)
      <4>1. (AnswerSets(g))' = {OsIn(rng[c].state)}
        BY <1>7, <1>8 DEF AnswerSets, OsIn
      <4>2. Together(h, g)' => OsIn(rng[h].state) = OsIn(rng[c].state)
        BY <2>1, <4>1 DEF Together, OsIn
      <4> QED
        BY <4>2 DEF Together, AnswerSets
    <3> DEFINE m == Cardinality(SharedCalls(h, c))  n == Cardinality(SharedCalls(h, g)')
    <3>5. n <= m /\ n \in Nat /\ m \in Nat
      BY <1>1, <3>3, CallsAreFinite, FS_Subset, FS_CardinalityType
    <3>6. m < ReseedInterval /\ (Together(h, c) => m + rng[h].countdown <= ReseedInterval)
      BY <3>1 DEF Parts
    <3>7. Parts(h, g)' <=> n < ReseedInterval /\ (Together(h, g)' => n + rng'[h].countdown <= ReseedInterval)
      BY DEF Parts
    <3> HIDE DEF m, n
    <3> QED
      BY <1>1, <2>1, <2>2, <3>4, <3>5, <3>6, <3>7
  <2> QED
    BY <2>3, <2>4
<1>10. /\ \A h \in Generators : since'[h] = IF h = g THEN x ELSE since[h]
       /\ since' \in [Generators -> Nat] /\ UNCHANGED outputs /\ entropy' \in {entropy, entropy + 1}
  BY <1>1, <1>2, <1>4 DEF RngType
<1>11. /\ OsIn(r.state) \subseteq Drawn'
       /\ r.interval > 0 => /\ OsIn(r.state) # {}
                            /\ x <= ReseedInterval /\ x + r.countdown <= ReseedInterval + 1
  <2>1. OsIn(rng[c].state) \subseteq Drawn /\ (OfSystem(c) => OsIn(rng[c].state) # {})
    BY <1>1 DEF StatesGrow
  <2>2. OfSystem(c) => since[c] <= ReseedInterval /\ since[c] + rng[c].countdown <= ReseedInterval + 1
    BY <1>1 DEF CountsDown
  <2>3. OfSystem(c) <=> rng[c].interval > 0
    BY DEF OfSystem
  <2> QED
    BY <1>3, <1>4, <1>5, <2>1, <2>2, <2>3
<1>12. r # NoRng /\ rng' = [rng EXCEPT ![g] = r]
  BY <1>2, <1>3
<1> QED
  BY <1>2, <1>9, <1>10, <1>11, <1>12, BeginKeeps

LEMMA SameKeeps == ASSUME RngInv, UNCHANGED <<rng, outputs, since, entropy>> PROVE RngInv'
<1>1. /\ \A g \in Generators : OfSystem(g)' <=> OfSystem(g)
      /\ Drawn' = Drawn /\ \A h \in Generators : Past(h)' = Past(h)
  BY DEF OfSystem, Drawn, Past
<1>2. RngType' /\ NotBegun' /\ CountsDown'
  BY <1>1 DEF RngInv, RngType, NotBegun, CountsDown
<1>3. \A g \in Generators : StatesGrow(g)'
  BY <1>1 DEF RngInv, StatesGrow
<1>4. \A h \in Generators : \A s : MayShare(s, h)' <=> MayShare(s, h)
  BY <1>1 DEF MayShare
<1>5. \A g, h \in Generators : SharedCalls(g, h)' = SharedCalls(g, h)
  BY <1>4 DEF SharedCalls
<1>6. \A g, h \in Generators : Together(g, h)' <=> Together(g, h)
  BY <1>1 DEF Together, AnswerSets
<1>7. \A g, h \in Generators : Parts(g, h)' <=> Parts(g, h)
  BY <1>5, <1>6 DEF Parts
<1> QED
  BY <1>1, <1>2, <1>3, <1>7 DEF RngInv

LEMMA RngStep == ASSUME RngInv, [RngNext]_rngVars PROVE RngInv'
<1>1. RngType /\ ReseedInterval \in Nat
  BY RandomnessAssumption DEF RngInv
<1>2. CASE UNCHANGED rngVars
  BY <1>2, SameKeeps DEF rngVars
<1>3. ASSUME NEW answered \in BOOLEAN, verify_rng(answered)
      PROVE  RngInv'
  BY <1>3, SameKeeps DEF verify_rng
<1>4. ASSUME NEW g \in Generators, NEW seed \in Seeds, reseed(g, seed)
      PROVE  RngInv'
  <2> DEFINE t == <<"caller", seed>>
  <2>1. rng[g] # NoRng /\ UNCHANGED <<entropy, outputs, since>>
        /\ rng' = [rng EXCEPT ![g].state = Append(rng[g].state, t)]
    BY <1>4 DEF reseed, update
  <2>2. t \in Tokens /\ t[1] # "os"
    BY DEF Tokens
  <2> HIDE DEF t
  <2>3. rng[g] \in Generator /\ rng[g].state \in Seq(Tokens) /\ Len(rng[g].state) \in Nat
    BY <1>1, MadeAreStates
  <2>4. PICK s \in Seq(Tokens) : s = Append(rng[g].state, t) /\ s # <<>>
    <3>1. Append(rng[g].state, t) \in Seq(Tokens) /\ Len(Append(rng[g].state, t)) = Len(rng[g].state) + 1
      BY <2>2, <2>3, MixedIn
    <3>2. Append(rng[g].state, t) # <<>>
      <4>1. Len(<<>>) = 0
        OBVIOUS
      <4>2. Len(rng[g].state) + 1 # 0
        BY <2>3
      <4> QED
        BY <3>1, <4>1, <4>2
    <3> QED
      BY <3>1, <3>2
  <2>5. PICK n \in 0 .. ReseedInterval : n = rng[g].countdown
    BY <2>3, RecordParts
  <2>6. n <= rng[g].countdown
    BY <1>1, <2>5
  <2>7. [rng[g] EXCEPT !.state = s] = [state |-> s, interval |-> rng[g].interval, countdown |-> n]
    BY <2>3, <2>5, RecordParts
  <2>8. rng' = [rng EXCEPT ![g] = [state |-> s, interval |-> rng[g].interval, countdown |-> n]]
    BY <1>1, <2>1, <2>4, <2>7 DEF RngType
  <2>9. \E u \in Tokens : u[1] # "os" /\ s = Append(rng[g].state, u)
    BY <2>2, <2>4
  <2> QED
    BY <2>1, <2>4, <2>6, <2>8, <2>9, SilentKeeps
<1>5. ASSUME NEW g \in Generators, NEW n \in Blocks,
             \/ \E answered \in BOOLEAN : random_bytes(g, n, answered)
             \/ random_bytes_with_reseed(g, n)
      PROVE  RngInv'
  <2>1. rng[g] # NoRng /\ (Quiet(g, n) \/ Refilled(g, n) \/ Failed(g))
    BY <1>1, <1>5, DrawCases
  <2>2. CASE Failed(g)
    <3>1. PICK s \in Seq(Tokens) : s = rng[g].state
      BY <1>1, MadeAreStates
    <3>2. PICK zero \in 0 .. ReseedInterval : zero = 0
      BY <1>1
    <3>3. zero <= rng[g].countdown
      BY <1>1, <3>2, MadeAreStates, RecordParts
    <3>4. /\ rng' = [rng EXCEPT ![g] = [state |-> s, interval |-> rng[g].interval, countdown |-> zero]]
          /\ OfSystem(g) /\ UNCHANGED <<entropy, outputs, since>>
      BY <2>2, <3>1, <3>2 DEF Failed
    <3> QED
      BY <2>1, <3>1, <3>3, <3>4, SilentKeeps
  <2> QED
    BY <2>1, <2>2, QuietCallKeeps, RefilledKeeps
<1> QED
  BY <1>2, <1>3, <1>4, <1>5, NewKeeps, SeededKeeps, CloneKeeps DEF RngNext

LEMMA RngInitial == ASSUME RngInit PROVE RngInv
<1>1. /\ \A g \in Generators : rng[g] = NoRng /\ outputs[g] = <<>> /\ since[g] = 0
      /\ rng = [g \in Generators |-> NoRng] /\ outputs = [g \in Generators |-> <<>>]
      /\ since = [g \in Generators |-> 0] /\ entropy = 0
  BY DEF RngInit
<1>2. NoRng \in Generator /\ NoRng.interval = 0 /\ NoRng.state = <<>>
  BY RandomnessAssumption DEF NoRng, Generator
<1>3. RngType
  BY <1>1, <1>2 DEF RngType
<1>4. NotBegun
  BY <1>1 DEF NotBegun
<1>5. \A g \in Generators : ~OfSystem(g)
  BY <1>1, <1>2 DEF OfSystem
<1>6. OsIn(<<>>) = {}
  BY DEF OsIn
<1>7. \A g \in Generators : StatesGrow(g)
  BY <1>1, <1>2, <1>5, <1>6 DEF StatesGrow
<1> QED
  BY <1>3, <1>4, <1>5, <1>7 DEF RngInv, CountsDown

LEMMA DrawsPart == ASSUME RngInv PROVE RandomnessSound
<1>1. RngType /\ ReseedInterval \in Nat
  BY RandomnessAssumption DEF RngInv
<1>2. FedInTime
  BY DEF RngInv, CountsDown, FedInTime
<1>3. ASSUME NEW g \in Generators, NEW i \in DOMAIN outputs[g], NEW j \in DOMAIN outputs[g], i # j,
             NEW b \in outputs[g][i] \cap outputs[g][j]
      PROVE  FALSE
  <2>1. b[1] \in Made(outputs[g][i]) /\ b[1] \in Made(outputs[g][j])
    BY DEF Made
  <2>2. Len(b[1]) \in Nat
    BY <1>1, <2>1, MadeAreStates, LenProperties
  <2>3. i \in Nat /\ j \in Nat
    <3>1. outputs[g] \in Seq(SUBSET Block)
      BY <1>1 DEF RngType
    <3>2. Len(outputs[g]) \in Nat /\ DOMAIN outputs[g] = 1 .. Len(outputs[g])
      BY <3>1, LenProperties
    <3> QED
      BY <3>2
  <2>4. i < j => Len(b[1]) < Len(b[1])
    BY <2>1 DEF RngInv, StatesGrow
  <2>5. j < i => Len(b[1]) < Len(b[1])
    BY <2>1 DEF RngInv, StatesGrow
  <2> QED
    BY <1>3, <2>2, <2>3, <2>4, <2>5
<1>4. ASSUME NEW g \in Generators, NEW h \in Generators, g # h, OfSystem(g)
      PROVE  Cardinality({i \in DOMAIN outputs[g] : outputs[g][i] \cap GivenOut(h) # {}}) < ReseedInterval
  <2> DEFINE Twice == {i \in DOMAIN outputs[g] : outputs[g][i] \cap GivenOut(h) # {}}
  <2>1. Twice \subseteq SharedCalls(g, h)
    <3> SUFFICES ASSUME NEW i \in DOMAIN outputs[g], NEW b \in outputs[g][i] \cap GivenOut(h)
                 PROVE  i \in SharedCalls(g, h)
      OBVIOUS
    <3>1. b[1] \in Made(outputs[g][i]) /\ b[1] \in Past(h)
      BY DEF Made, Past, GivenOut
    <3> QED
      BY <3>1 DEF SharedCalls, MayShare
  <2>2. IsFiniteSet(SharedCalls(g, h)) /\ Cardinality(SharedCalls(g, h)) \in Nat
    BY <1>1, CallsAreFinite
  <2>3. Cardinality(SharedCalls(g, h)) < ReseedInterval
    BY <1>4 DEF RngInv, Parts
  <2> HIDE DEF Twice
  <2>4. Cardinality(Twice) <= Cardinality(SharedCalls(g, h)) /\ Cardinality(Twice) \in Nat
    BY <2>1, <2>2, FS_Subset, FS_CardinalityType
  <2>5. Cardinality(Twice) < ReseedInterval
    BY <1>1, <2>2, <2>3, <2>4
  <2> QED
    BY <2>5 DEF Twice
<1>5. ClonesPart
  BY <1>3, <1>4 DEF ClonesPart
<1> QED
  BY <1>2, <1>5 DEF RandomnessSound

-----------------------------------------------------------------------------
(* The three together.                                                     *)

MaterialInv == BackupInv /\ MemoryInv /\ RngInv

LEMMA MaterialStep == ASSUME MaterialInv, [MaterialNext]_materialVars PROVE MaterialInv'
<1>1. /\ [BackupNext]_backupVars
      /\ [MemoryNext]_memoryVars
      /\ [RngNext]_rngVars
  BY DEF MaterialNext, materialVars
<1> QED
  BY <1>1, BackupStep, MemoryStep, RngStep DEF MaterialInv

\* What a backup gives back is the key it was made of or an error, and what a
\* server with a saved master key acknowledged is there for every later one; key
\* bytes in a mapped box lie on locked pages until they are zeroed, and no page
\* stays locked for a box that is gone; a generator of the system's entropy is fed
\* in time, gives no block twice and shares fewer outputs than an interval with any
\* other: KeyBackupService, SecureBox and GmRng, for any number of servers, keys,
\* boxes, generators, calls, restarts and failures, any page size and interval.
THEOREM MaterialStaysSound == MaterialSpec => []MaterialSound
<1>1. MaterialInit => MaterialInv
  BY BackupInitial, MemoryInitial, RngInitial DEF MaterialInit, MaterialInv
<1>2. MaterialInv => MaterialSound
  BY BackupsRestored, MemoryProtected, DrawsPart DEF MaterialInv, MaterialSound
<1>3. MaterialInv /\ [MaterialNext]_materialVars => MaterialInv'
  BY MaterialStep
<1> QED
  BY <1>1, <1>2, <1>3, PTL DEF MaterialSpec

=============================================================================
