-------------------------------- MODULE Tpm --------------------------------
(***************************************************************************)
(* The simulated TPM key store (kms-hsm/src/tpm.rs): keys in NV storage,   *)
(* optionally sealed to the values that platform configuration registers   *)
(* (PCRs) had when the key was made.  A call takes a copy of the entry     *)
(* under the lock and works on the copy; the destruction of a key reads    *)
(* its material under one lock and removes it under another.               *)
(***************************************************************************)
EXTENDS Naturals, Sequences, FiniteSets

CONSTANTS
    TpmClients,         \* concurrent calls
    TpmSpecs,           \* subset of DOMAIN MaterialLength
    NumPcrs,            \* NUM_PCRS, 24 in the code; the registers are 0..NumPcrs-1
    MaxExtends,         \* bound: measurements
    MaxTpmKeys,         \* bound: keys generated
    MaxTpmVersion,      \* bound: rotations
    MaxTpmCiphertexts   \* bound: ciphertexts made

VARIABLES
    nv,             \* handle |-> [id, spec, version, status, material, binding]
    handles,        \* handles allocated
    pcrs,           \* register |-> the measurements it was extended with, in order
    pending,        \* client |-> the call it is in: [op, entry, ciphertext]
    ciphertexts,    \* [id, version, material, asked] of those handed out
    opened,         \* [binding, seen] of the calls that used a sealed key (history)
    proofs          \* destruction proofs handed out, in order

tpmVars == <<nv, handles, pcrs, pending, ciphertexts, opened, proofs>>

NoTpmCall == [op |-> "none", entry |-> <<>>, ciphertext |-> <<>>]

TpmInit ==
    /\ nv = [h \in {} |-> 0] /\ handles = 0
    /\ pcrs = [i \in 0 .. NumPcrs - 1 |-> <<>>]
    /\ pending = [c \in TpmClients |-> NoTpmCall]
    /\ ciphertexts = {} /\ opened = {} /\ proofs = <<>>

-----------------------------------------------------------------------------
(* Registers                                                               *)

\* A hash of the old value and the measurement: no sequence of measurements
\* brings a value back.  An index out of range is ignored.
extend_pcr(i) ==
    /\ i \in DOMAIN pcrs
    /\ Len(pcrs[i]) < MaxExtends
    /\ pcrs' = [pcrs EXCEPT ![i] = Append(@, i)]
    /\ UNCHANGED <<nv, handles, pending, ciphertexts, opened, proofs>>

\* binding is a function from registers to values, empty for a key that is not sealed.
check_pcr_binding_First(binding) ==     \* mutant: only the lowest register is compared
    binding = <<>> \/ \E i \in DOMAIN binding[1] :
        (\A j \in DOMAIN binding[1] : i <= j) /\ pcrs[i] = binding[1][i]
check_pcr_binding(binding) ==
    binding = <<>> \/ \A i \in DOMAIN binding[1] : i \in DOMAIN pcrs /\ pcrs[i] = binding[1][i]

-----------------------------------------------------------------------------
(* Keys                                                                    *)

MaterialLength == [Aes256Gcm |-> 32, HmacSha256 |-> 32, Sm2 |-> 32, Ed25519 |-> 32, Sm4 |-> 16, Rsa4096 |-> 0]
\* SM9 and RSA are not implemented.
generate_key_material(spec) == MaterialLength[spec] > 0

Insert(spec, binding) ==
    /\ handles < MaxTpmKeys /\ generate_key_material(spec)
    /\ handles' = handles + 1
    /\ nv' = [h \in DOMAIN nv \cup {handles + 1} |->
                IF h \in DOMAIN nv THEN nv[h]
                ELSE [id |-> h, spec |-> spec, version |-> 1, status |-> "Active", material |-> h, binding |-> binding]]
    /\ UNCHANGED <<pcrs, pending, ciphertexts, opened, proofs>>

generate_key(spec) == Insert(spec, <<>>)
generate_key_with_pcr_binding(spec, indices) ==
    indices \subseteq DOMAIN pcrs /\ Insert(spec, <<[i \in indices |-> pcrs[i]]>>)

Handle(id) == CHOOSE h \in DOMAIN nv : nv[h].id = id
Known(id) == \E h \in DOMAIN nv : nv[h].id = id

\* The new version has the old material, and a key pending deletion is active again.
rotate_key(id) ==
    /\ Known(id) /\ nv[Handle(id)].version < MaxTpmVersion
    /\ nv' = [nv EXCEPT ![Handle(id)].version = @ + 1, ![Handle(id)].status = "Active"]
    /\ UNCHANGED <<handles, pcrs, pending, ciphertexts, opened, proofs>>

\* The status is set and never asked for; so is the tenant.
delete_key(id) ==
    /\ Known(id)
    /\ nv' = [nv EXCEPT ![Handle(id)].status = "PendingDeletion"]
    /\ UNCHANGED <<handles, pcrs, pending, ciphertexts, opened, proofs>>

Removed_Not(id) == nv                   \* mutant: the entry is looked up, and stays
Removed(id) == [h \in DOMAIN nv \ {Handle(id)} |-> nv[h]]
destroy_key(id) ==
    /\ Known(id)
    /\ nv' = Removed(id)
    /\ UNCHANGED <<handles, pcrs, pending, ciphertexts, opened, proofs>>

-----------------------------------------------------------------------------
(* Calls that take a copy of the entry                                     *)

Begin(c, op, id, ciphertext) ==
    /\ pending[c] = NoTpmCall /\ Known(id)
    /\ pending' = [pending EXCEPT ![c] = [op |-> op, entry |-> <<nv[Handle(id)]>>, ciphertext |-> ciphertext]]
    /\ UNCHANGED <<nv, handles, pcrs, ciphertexts, opened, proofs>>

Return(c, op) == pending[c].op = op /\ pending' = [pending EXCEPT ![c] = NoTpmCall]
CanUse(entry) == check_pcr_binding(entry.binding) /\ MaterialLength[entry.spec] >= 32
\* What the registers hold of those the key is sealed to.
Opening(entry) ==
    IF entry.binding = <<>> THEN {}
    ELSE {[binding |-> entry.binding[1], seen |-> [i \in DOMAIN entry.binding[1] |-> pcrs[i]]]}

\* encrypt and decrypt: the registers are compared, a material of 16 bytes is refused.
tpm_protect(c) ==
    /\ Return(c, "encrypt")
    /\ LET e == pending[c].entry[1] IN
       IF CanUse(e) /\ Cardinality(ciphertexts) < MaxTpmCiphertexts
       THEN /\ ciphertexts' = ciphertexts \cup {[id |-> e.id, version |-> e.version, material |-> e.material]}
            /\ opened' = opened \cup Opening(e)
       ELSE UNCHANGED <<ciphertexts, opened>>
    /\ UNCHANGED <<nv, handles, pcrs, proofs>>

\* The tag of AES-GCM fails under another material; the version is not looked at.
Opens(entry, ciphertext) == entry.material = ciphertext.material
tpm_unprotect(c) ==
    /\ Return(c, "decrypt")
    /\ LET e == pending[c].entry[1]
       IN  opened' = opened \cup IF CanUse(e) /\ Opens(e, pending[c].ciphertext[1]) THEN Opening(e) ELSE {}
    /\ UNCHANGED <<nv, handles, pcrs, ciphertexts, proofs>>

\* destroy_key_with_proof: the hash of the copy, then destroy_key, which fails if
\* another call was first.
destroy_key_with_proof(c) ==
    /\ Return(c, "destroy")
    /\ LET e == pending[c].entry[1]
       IN  IF Known(e.id)
           THEN nv' = Removed(e.id) /\ proofs' = Append(proofs, [id |-> e.id, material |-> e.material])
           ELSE UNCHANGED <<nv, proofs>>
    /\ UNCHANGED <<handles, pcrs, ciphertexts, opened>>

\* Signing changes nothing and asks for no register; Ed25519 reads a public key
\* that the 32 bytes of material do not have, and panics.
tpm_sign(c) == Return(c, "sign") /\ UNCHANGED <<nv, handles, pcrs, ciphertexts, opened, proofs>>

TpmNext ==
    \/ \E i \in 0 .. NumPcrs : extend_pcr(i)
    \/ \E spec \in TpmSpecs : generate_key(spec)
                              \/ \E indices \in SUBSET (0 .. NumPcrs) : generate_key_with_pcr_binding(spec, indices)
    \/ \E id \in 1 .. handles : rotate_key(id) \/ delete_key(id) \/ destroy_key(id)
    \/ \E c \in TpmClients :
          \/ \E id \in 1 .. handles : \E op \in {"encrypt", "sign", "destroy"} : Begin(c, op, id, <<>>)
          \/ \E x \in ciphertexts : Begin(c, "decrypt", x.id, <<x>>)
          \/ tpm_protect(c) \/ tpm_unprotect(c) \/ tpm_sign(c) \/ destroy_key_with_proof(c)

TpmSpec == TpmInit /\ [][TpmNext]_tpmVars

-----------------------------------------------------------------------------
(* Properties.                                                             *)

\* A key sealed to registers encrypts and decrypts only while every one of them
\* has the value it had when the key was made: once one is extended the key is
\* closed for good.
SealHolds == \A o \in opened : o.seen = o.binding

\* Every ciphertext handed out opens with its key as it is now, rotations
\* included, until the key is destroyed.
StillOpens == \A x \in ciphertexts : Known(x.id) => Opens(nv[Handle(x.id)], x)

\* A destruction proof is about a key that is gone and stays gone, and two
\* callers who destroy one key get one proof between them.
ProofsTrue ==
    \A i \in 1 .. Len(proofs) : /\ ~Known(proofs[i].id)
                                /\ \A j \in 1 .. Len(proofs) : proofs[i].id = proofs[j].id => i = j

\* A sealed key stays sealed, what a key encrypted stays readable while the key
\* exists, and who was told that it is destroyed was told the truth.
TpmSound == SealHolds /\ StillOpens /\ ProofsTrue

=============================================================================
