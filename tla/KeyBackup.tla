----------------------------- MODULE KeyBackup -----------------------------
(***************************************************************************)
(* KeyBackupService (kms-core/src/backup.rs): signed, encrypted copies of  *)
(* keys in a directory that servers share, under a master key that is      *)
(* itself kept there, sealed under a passphrase.  A file is abstracted to  *)
(* what its three checks see: the master key that made its HMAC, the one   *)
(* its material is encrypted under, and whether it was altered since.      *)
(*                                                                         *)
(* The service keeps its master key in a SecureBox, but neither reads the  *)
(* other's state, nor that of the random numbers: the last section puts    *)
(* the three side by side.                                                 *)
(***************************************************************************)
EXTENDS Naturals, FiniteSets, SecureMemory, Randomness

CONSTANTS
    BackupServers,      \* processes that share the directory
    BackedUpKeys,       \* key ids
    Passphrases,
    RetentionDays,      \* BackupConfig::retention_days
    LastBackupDay,      \* bound: the clock, in days (a file name tells seconds apart)
    MaxRegistry,        \* bound: backups that a process makes
    MaxMasters,         \* bound: master keys generated
    MaxDiskFaults       \* bound: failing or interrupted writes, altered files

\* The second line tells an answer that names a key from the two that do not.
ASSUME BackupAssumption ==
    /\ RetentionDays \in Nat /\ LastBackupDay \in Nat
    /\ BackedUpKeys \cap {"error", "another key"} = {}

VARIABLES
    masterFile,     \* master_key.enc: [id, pass], id 0 if there is none
    files,          \* path (key, time) |-> signed backup
    service,        \* what a process has: [id, persisted, registry], id 0 if none;
                    \* of the registry, the number of entries
    opening,        \* the master key a process has generated and not saved yet
    day,
    masters,        \* master keys generated so far
    diskFaults,
    acked,          \* paths whose backup_key, under a persisted master key, returned Ok (history)
    crossedOpen     \* two processes were creating the master key at once (history)

backupVars == <<masterFile, files, service, opening, day, masters, diskFaults, acked, crossedOpen>>

NoService == [id |-> 0, persisted |-> FALSE, registry |-> 0]
NotOpening == [id |-> 0, pass |-> ""]

BackupInit ==
    /\ masterFile = [id |-> 0, pass |-> ""]
    /\ files = [p \in {} |-> NoService]
    /\ service = [s \in BackupServers |-> NoService]
    /\ opening = [s \in BackupServers |-> NotOpening]
    /\ day = 0
    /\ masters = 0
    /\ diskFaults = 0
    /\ acked = {}
    /\ crossedOpen = FALSE

DiskFault == diskFaults < MaxDiskFaults /\ diskFaults' = diskFaults + 1

-----------------------------------------------------------------------------
(* The master key                                                          *)

generate(s) == masters < MaxMasters /\ masters' = masters + 1 /\ service[s].id = 0 /\ opening[s].id = 0

\* import_encrypted: the key derived from another passphrase fails the tag.
import_encrypted(pass) == masterFile.pass = pass

\* mutant: what cannot be opened is treated as absent
Absent_OrUnreadable(pass) == masterFile.id = 0 \/ ~import_encrypted(pass)
Absent(pass) == masterFile.id = 0

\* load_or_create up to the decision; self_check passes with any key that loads.
load_or_create(s, pass) ==
    /\ service[s].id = 0 /\ opening[s].id = 0 /\ pass # ""
    /\ IF Absent(pass)
       THEN /\ generate(s)
            /\ opening' = [opening EXCEPT ![s] = [id |-> masters + 1, pass |-> pass]]
            /\ crossedOpen' = (crossedOpen \/ \E t \in BackupServers : opening[t].id # 0)
            /\ UNCHANGED service
       ELSE /\ import_encrypted(pass)
            /\ service' = [service EXCEPT ![s] = [id |-> masterFile.id, persisted |-> TRUE, registry |-> 0]]
            /\ UNCHANGED <<opening, masters, crossedOpen>>
    /\ UNCHANGED <<masterFile, files, day, diskFaults, acked>>

\* save_encrypted through write_owner_only: a temporary file, then a rename that
\* replaces whatever is there.  A failure or a crash leaves the old file.
save_encrypted(s) ==
    /\ opening[s].id # 0
    /\ \/ /\ masterFile' = opening[s]
          /\ service' = [service EXCEPT ![s] = [id |-> opening[s].id, persisted |-> TRUE, registry |-> 0]]
          /\ UNCHANGED diskFaults
       \/ DiskFault /\ UNCHANGED <<masterFile, service>>
    /\ opening' = [opening EXCEPT ![s] = NotOpening]
    /\ UNCHANGED <<files, day, masters, acked, crossedOpen>>

with_random_master_key(s) ==
    /\ generate(s)
    /\ service' = [service EXCEPT ![s] = [id |-> masters + 1, persisted |-> FALSE, registry |-> 0]]
    /\ UNCHANGED <<masterFile, files, opening, day, diskFaults, acked, crossedOpen>>

Stop(s) ==
    /\ service[s].id # 0
    /\ service' = [service EXCEPT ![s] = NoService]
    /\ UNCHANGED <<masterFile, files, opening, day, masters, diskFaults, acked, crossedOpen>>

-----------------------------------------------------------------------------
(* Backups                                                                 *)

Signed(s, k, state) ==
    [key |-> k, mac |-> service[s].id, sealed |-> service[s].id, modified |-> day, state |-> state]
With(path, f) == [p \in DOMAIN files \cup {path} |-> IF p = path THEN f ELSE files[p]]

\* The registry entry comes first.  save_backup writes in place: an interrupted
\* write leaves a torn file, also over an earlier backup of the same second.
backup_key(s, k) ==
    /\ service[s].id # 0 /\ service[s].registry < MaxRegistry
    /\ LET path == <<k, day>> IN
       /\ service' = [service EXCEPT ![s].registry = @ + 1]
       /\ \/ /\ files' = With(path, Signed(s, k, "intact"))
             /\ acked' = IF service[s].persisted THEN acked \cup {path} ELSE acked \ {path}
             /\ UNCHANGED diskFaults
          \/ DiskFault /\ UNCHANGED <<files, acked>>
          \/ DiskFault /\ files' = With(path, Signed(s, k, "torn")) /\ acked' = acked \ {path}
    /\ UNCHANGED <<masterFile, opening, day, masters, crossedOpen>>

\* Outside the service: bits of the metadata or of the material are changed.
Alter(path, state) ==
    /\ files[path].state = "intact" /\ DiskFault
    /\ files' = [files EXCEPT ![path].state = state]
    /\ acked' = acked \ {path}
    /\ UNCHANGED <<masterFile, service, opening, day, masters, crossedOpen>>

\* The HMAC covers all that was serialized, version and metadata included.
verify_backup_file_Unsigned(s, f) == f.state # "torn"    \* mutant: the HMAC is not compared
verify_backup_file(s, f) == f.state \notin {"torn", "metadata", "material"} /\ f.mac = service[s].id

\* The tag of SM4-GCM and the SM3 hash cover the material only.
restore_key(s, f) == f.state \in {"intact", "metadata"} /\ f.sealed = service[s].id

\* Both, in this order; the metadata of an altered file names another key.
restore_from_file(s, path) ==
    LET f == files[path]
    IN  IF ~(verify_backup_file(s, f) /\ restore_key(s, f)) THEN "error"
        ELSE IF f.state = "metadata" THEN "another key" ELSE f.key

\* The file whose name has the latest time, of whatever key: one of them.
Newest == {p \in DOMAIN files : \A q \in DOMAIN files : q[2] <= p[2]}
verify_latest_backup(s) == {restore_from_file(s, p) # "error" : p \in Newest}

\* The files are removed one by one; the first that cannot be ends the call.
cleanup_old_backups(s) ==
    /\ service[s].id # 0
    /\ LET old == {p \in DOMAIN files : files[p].modified + RetentionDays < day}
       IN  \E removed \in SUBSET old :
             /\ removed # {}
             /\ \/ removed = old /\ UNCHANGED diskFaults
                \/ removed # old /\ DiskFault
             /\ files' = [p \in DOMAIN files \ removed |-> files[p]]
             /\ acked' = acked \ removed
    /\ UNCHANGED <<masterFile, service, opening, day, masters, crossedOpen>>

NextDay == day < LastBackupDay /\ day' = day + 1
           /\ UNCHANGED <<masterFile, files, service, opening, masters, diskFaults, acked, crossedOpen>>

BackupNext ==
    \/ \E s \in BackupServers, pass \in Passphrases : load_or_create(s, pass)
    \/ \E s \in BackupServers :
          \/ save_encrypted(s) \/ with_random_master_key(s) \/ Stop(s)
          \/ \E k \in BackedUpKeys : backup_key(s, k)
          \/ cleanup_old_backups(s)
    \/ \E path \in DOMAIN files, state \in {"metadata", "material"} : Alter(path, state)
    \/ NextDay

-----------------------------------------------------------------------------
(* Properties.                                                             *)

\* What a restore gives is the key the file was made for, whoever made it and
\* whatever was done to the directory since: only an intact file of the service's
\* own master key is opened.
RestoreFaithful ==
    \A s \in BackupServers, p \in DOMAIN files :
        service[s].id # 0 => restore_from_file(s, p) \in {"error", p[1]}

\* The master key on disk never changes, so that every backup that a service
\* with a persisted master key acknowledged is restored by any such service
\* later, over restarts and next to other servers, until the file is altered,
\* cleaned up or overwritten; and the check at startup then raises no alarm.  Two
\* servers that create the master key at once are the exception: the loser's
\* backups are lost with its process.
Recoverable ==
    crossedOpen \/ \A s \in BackupServers :
        service[s].persisted =>
            /\ \A p \in acked : restore_from_file(s, p) = p[1]
            /\ Newest \subseteq acked => verify_latest_backup(s) \subseteq {TRUE}

\* A restore gives the right key or an error, and what was acknowledged is there.
BackupSound == RestoreFaithful /\ Recoverable

-----------------------------------------------------------------------------
(* What keys are made of (csprng.rs), where their bytes lie                *)
(* (memory_protection.rs) and what they come back from.                    *)

materialVars == <<backupVars, memoryVars, rngVars>>

MaterialInit == BackupInit /\ MemoryInit /\ RngInit

MaterialNext ==
    \/ BackupNext /\ UNCHANGED <<memoryVars, rngVars>>
    \/ MemoryNext /\ UNCHANGED <<backupVars, rngVars>>
    \/ RngNext /\ UNCHANGED <<backupVars, memoryVars>>

MaterialSpec == MaterialInit /\ [][MaterialNext]_materialVars

\* Key bytes are drawn from entropy in time and lie where only the process sees
\* them, and a backup gives back the key it was made of, or an error.
MaterialSound == RandomnessSound /\ MemorySound /\ BackupSound

=============================================================================
