----------------------------- MODULE MCPlatform -----------------------------
(* Instances for TLC of the process and of what it keeps beside the key      *)
(* stores.  As in MCServices, part says of which a behaviour is.             *)
EXTENDS Startup, KeyBackup, Shamir, Sm2Kex, AuditDelivery, Tpm, TLC

VARIABLE part

Secure == [file |-> <<>>, broken |-> FALSE,
           env |-> ("kek" :> "K1") @@ ("passphrase" :> "p1") @@ ("tls" :> "valid") @@ ("rest_tls" :> "valid")]
Given(f, v) == [Secure EXCEPT !.env = (f :> v) @@ @]
Written(f, v) == [Secure EXCEPT !.file = f :> v]
Key(id, s, role) == [id |-> id, secret |-> s, role |-> role]

MCDeployments ==
    <<Secure, [Secure EXCEPT !.broken = TRUE],
      Given("kek", "K2"), Given("kek", "bad"), Given("kek_file", "K3"), Given("kek_file", "bad"),
      Given("passphrase", ""), Given("passphrase", "p2"), Given("backup", FALSE),
      Given("tls", "none"), Given("tls", "broken"), Given("rest_tls", "none"), Given("rest_tls", "broken"),
      Given("rest_backend", "gm"), Given("rest_backend", "tlcp"), Given("db_tls", "disabled"), Given("db_ca", FALSE),
      Given("tsa", TRUE), Given("flags", {"KMS_DEV_MODE"}), Given("flags", {"KMS_ALLOW_INSECURE"}),
      [Given("flags", {"KMS_DEV_MODE"}) EXCEPT !.env = ("tls" :> "none") @@ ("rest_tls" :> "none") @@ ("kek" :> "bad") @@ @],
      Given("backend", "tpm"), [Given("backend", "tpm") EXCEPT !.env = ("tpm_backend" :> "tpm2-tss") @@ @],
      [Given("backend", "tpm") EXCEPT !.env = ("tpm_backend" :> "tpm2-tss") @@ ("tss_build" :> TRUE) @@ @],
      Written("redis", FALSE), Written("allow_in_memory", TRUE), Written("rest_tls", "disabled"),
      [Written("allow_in_memory", TRUE) EXCEPT !.env = ("passphrase" :> "") @@ @],
      Given("api_key", Unset),
      Written("api_keys", <<Key("a", "s1", "operator"), Key("b", "s2", "read-only")>>),
      Written("api_keys", <<Key("a", "s1", "operator"), Key("b", "s1", "read-only")>>),
      Written("api_keys", <<Key("a", "s1", "root")>>)>>

\* Every way a secret can meet the block boundary and begin with zero bytes.
MCSecrets == {<<0>>, <<2>>, <<1, 2>>, <<2, 2>>, <<0, 1, 2>>}

\* Both slices share a page with the first box's fallback.
MCHeapPage == "b1" :> <<"heap", 1>> @@ "b2" :> <<"heap", 2>> @@ "d1" :> <<"heap", 1>> @@ "d2" :> <<"heap", 1>>

Parts == {"startup", "backup", "shamir", "kex", "audit", "tpm", "memory", "randomness"}

MCInit ==
    /\ part \in Parts
    /\ StartupInit /\ BackupInit /\ ShamirInit /\ KexInit /\ DeliveryInit /\ TpmInit
    /\ MemoryInit /\ RngInit
    /\ part # "audit" => logger.kind = "plain"

MCNext ==
    \/ /\ part = "startup" /\ StartupNext
       /\ UNCHANGED <<part, backupVars, shamirVars, kexVars, deliveryVars, tpmVars, memoryVars, rngVars>>
    \/ /\ part = "backup" /\ BackupNext
       /\ UNCHANGED <<part, startupVars, shamirVars, kexVars, deliveryVars, tpmVars, memoryVars, rngVars>>
    \/ /\ part = "shamir" /\ ShamirNext
       /\ UNCHANGED <<part, startupVars, backupVars, kexVars, deliveryVars, tpmVars, memoryVars, rngVars>>
    \/ /\ part = "kex" /\ KexNext
       /\ UNCHANGED <<part, startupVars, backupVars, shamirVars, deliveryVars, tpmVars, memoryVars, rngVars>>
    \/ /\ part = "audit" /\ DeliveryNext
       /\ UNCHANGED <<part, startupVars, backupVars, shamirVars, kexVars, tpmVars, memoryVars, rngVars>>
    \/ /\ part = "tpm" /\ TpmNext
       /\ UNCHANGED <<part, startupVars, backupVars, shamirVars, kexVars, deliveryVars, memoryVars, rngVars>>
    \/ /\ part = "memory" /\ MemoryNext
       /\ UNCHANGED <<part, startupVars, backupVars, shamirVars, kexVars, deliveryVars, tpmVars, rngVars>>
    \/ /\ part = "randomness" /\ RngNext
       /\ UNCHANGED <<part, startupVars, backupVars, shamirVars, kexVars, deliveryVars, tpmVars, memoryVars>>

MCVars == <<part, startupVars, backupVars, shamirVars, kexVars, deliveryVars, tpmVars, memoryVars, rngVars>>
MCSpec == MCInit /\ [][MCNext]_MCVars /\ StartupFairness

=============================================================================
