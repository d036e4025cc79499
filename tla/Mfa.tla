--------------------------------- MODULE Mfa ---------------------------------
(***************************************************************************)
(* MFA for one user: MfaManager, crates/kms-api/src/mfa.rs, and the steps  *)
(* of mfa_setup, mfa_verify and mfa_verify_backup of rest.rs around it.    *)
(*                                                                         *)
(* The manager keeps its rows in PostgreSQL, or in memory when there is no *)
(* database.  Every query is a step; an error of the database is swallowed *)
(* and the call goes on with a default.  A TOTP code is right or wrong for *)
(* the enrolment it was made for, a backup code is a member of the list    *)
(* that was handed out.  The second part of the module has the codes       *)
(* themselves, with the time window of a TOTP code.                        *)
(***************************************************************************)
EXTENDS Naturals, FiniteSets

CONSTANTS
    Verifiers,        \* concurrent requests about the user
    BackupCodes,      \* the codes of an enrolment
    MaxTotpAttempts,  \* MAX_TOTP_ATTEMPTS (5)
    MaxBackupUses,    \* MAX_BACKUP_CODE_USES (3)
    MaxMfaFaults,     \* bound: errors of the database
    MaxMfaCalls       \* bound: requests

ASSUME MfaAssumption ==
    /\ {MaxTotpAttempts, MaxBackupUses} \subseteq Nat \ {0}
    /\ {MaxMfaFaults, MaxMfaCalls} \subseteq Nat
    /\ IsFiniteSet(Verifiers)

VARIABLES
    durable,     \* there is a database
    enrolled,    \* the row of mfa_configs, or the map totp_configs
    codes,       \* its backup codes
    failed,      \* failed_attempts
    locked,      \* locked_until is in the future
    usage,       \* backup_code_usage
    verifying,   \* verifier -> [at, right, code, list]
    mfaCalls,
    mfaFaults,
    keyLocked,   \* the caller's API key was locked
    guesses,     \* wrong TOTP codes looked at since the lock was last off (history)
    accepted,    \* backup code -> times it was accepted (history)
    overlapped,  \* two requests held the list of codes at once (history)
    escaped      \* wrong codes whose request went away before they counted (history)

mfaVars == <<durable, enrolled, codes, failed, locked, usage, verifying, mfaCalls, mfaFaults,
             keyLocked, guesses, accepted, overlapped, escaped>>

NoRequest == [at |-> "idle", right |-> FALSE, code |-> "none", list |-> {}]

MfaInit ==
    /\ durable \in BOOLEAN
    /\ enrolled = FALSE /\ codes = {}
    /\ failed = 0 /\ locked = FALSE /\ usage = 0
    /\ verifying = [v \in Verifiers |-> NoRequest]
    /\ mfaCalls = 0 /\ mfaFaults = 0
    /\ keyLocked = FALSE
    /\ guesses = 0
    /\ accepted = [c \in BackupCodes |-> 0]
    /\ overlapped = FALSE
    /\ escaped = 0

Asks(v, at, right, code) ==
    /\ verifying[v].at = "idle"
    /\ mfaCalls < MaxMfaCalls
    /\ mfaCalls' = mfaCalls + 1
    /\ verifying' = [verifying EXCEPT ![v] = [NoRequest EXCEPT !.at = at, !.right = right, !.code = code]]
In(v, at) == verifying[v].at = at
Verifying(v, at) == verifying' = [verifying EXCEPT ![v].at = at]
Answered(v) == verifying' = [verifying EXCEPT ![v] = NoRequest]

\* A query either does its work or, with a database, fails.
Fails == durable /\ mfaFaults < MaxMfaFaults /\ mfaFaults' = mfaFaults + 1
Works == UNCHANGED mfaFaults

-----------------------------------------------------------------------------
(* mfa_setup.                                                              *)

\* store_totp_config: refused without a KEK; a failed write is not reported,
\* and the copy in memory is read only when there is no database.
store_totp_config ==
    /\ mfaCalls < MaxMfaCalls
    /\ mfaCalls' = mfaCalls + 1
    /\ \/ Works /\ enrolled' = TRUE /\ codes' = BackupCodes /\ accepted' = [c \in BackupCodes |-> 0]
       \/ Fails /\ UNCHANGED <<enrolled, codes, accepted>>
    /\ UNCHANGED <<durable, failed, locked, usage, verifying, keyLocked, guesses, overlapped, escaped>>

-----------------------------------------------------------------------------
(* mfa_verify.                                                             *)

\* An error counts as not locked.
is_locked_out(v) ==
    /\ In(v, "lock")
    /\ \/ Works /\ IF locked THEN Answered(v) ELSE Verifying(v, "check")
       \/ Fails /\ Verifying(v, "check")
    /\ UNCHANGED <<durable, enrolled, codes, failed, locked, usage, mfaCalls, keyLocked, guesses,
                   accepted, overlapped, escaped>>

\* load_totp_config and verify.
verify_totp(v) ==
    /\ In(v, "check")
    /\ \/ /\ Works
          /\ IF ~enrolled THEN Answered(v) /\ UNCHANGED guesses
             ELSE IF verifying[v].right THEN Verifying(v, "clear") /\ UNCHANGED guesses
                  ELSE Verifying(v, "count") /\ guesses' = guesses + 1
       \/ Fails /\ Answered(v) /\ UNCHANGED guesses
    /\ UNCHANGED <<durable, enrolled, codes, failed, locked, usage, mfaCalls, keyLocked, accepted,
                   overlapped, escaped>>

\* With a database this also lifts the lock; in memory it only clears the count,
\* and reset_backup_code_usage, the next call, the usage.
clear_failed_attempts(v) ==
    /\ In(v, "clear")
    /\ \/ /\ Works
          /\ failed' = 0 /\ usage' = 0 /\ guesses' = 0
          /\ locked' = IF durable THEN FALSE ELSE locked
       \/ Fails /\ UNCHANGED <<failed, usage, guesses, locked>>
    /\ Answered(v)
    /\ UNCHANGED <<durable, enrolled, codes, mfaCalls, keyLocked, accepted, overlapped, escaped>>

\* record_failed_totp_attempt: the count goes up in one statement; a second one
\* sets the lock.  An error of the first counts as no attempt.
AtLimit_Late(n) == n > MaxTotpAttempts    \* mutant: one attempt more
AtLimit(n) == n >= MaxTotpAttempts
count_failure(v) ==
    /\ In(v, "count")
    /\ \/ /\ Works
          /\ failed' = failed + 1
          /\ IF AtLimit(failed + 1) THEN Verifying(v, "set_lock") ELSE Answered(v)
       \/ Fails /\ Answered(v) /\ UNCHANGED failed
    /\ UNCHANGED <<durable, enrolled, codes, locked, usage, mfaCalls, keyLocked, guesses, accepted,
                   overlapped, escaped>>
set_lock(v) ==
    /\ In(v, "set_lock")
    /\ \/ Works /\ locked' = TRUE
       \/ Fails /\ UNCHANGED locked
    /\ keyLocked' = TRUE
    /\ Answered(v)
    /\ UNCHANGED <<durable, enrolled, codes, failed, usage, mfaCalls, guesses, accepted, overlapped, escaped>>

\* Five minutes pass; the count stays.
LockoutLapses ==
    /\ locked
    /\ locked' = FALSE
    /\ guesses' = 0
    /\ UNCHANGED <<durable, enrolled, codes, failed, usage, verifying, mfaCalls, mfaFaults,
                   keyLocked, accepted, overlapped, escaped>>

-----------------------------------------------------------------------------
(* mfa_verify_backup.                                                      *)

\* backup_code_usage_count; an error counts as none.
UsedUp(n) == n >= MaxBackupUses
backup_code_usage_count(v) ==
    /\ In(v, "usage")
    /\ \/ Works /\ IF UsedUp(usage) THEN Answered(v) ELSE Verifying(v, "load")
       \/ Fails /\ Verifying(v, "load")
    /\ UNCHANGED <<durable, enrolled, codes, failed, locked, usage, mfaCalls, keyLocked, guesses,
                   accepted, overlapped, escaped>>

\* consume_backup_code: the list is read, the code taken out, the list written.
Holding == {v \in Verifiers : In(v, "save")}
load_backup_codes(v) ==
    /\ In(v, "load")
    /\ \/ /\ Works
          /\ IF enrolled /\ verifying[v].code \in codes
             THEN /\ verifying' = [verifying EXCEPT ![v].at = "save", ![v].list = codes]
                  /\ overlapped' = (overlapped \/ Holding # {})
             ELSE Verifying(v, "record") /\ UNCHANGED overlapped
       \/ Fails /\ Verifying(v, "record") /\ UNCHANGED overlapped
    /\ UNCHANGED <<durable, enrolled, codes, failed, locked, usage, mfaCalls, keyLocked, guesses,
                   accepted, escaped>>
Dropped(list, code) == list \ {code}
save_backup_codes(v) ==
    /\ In(v, "save")
    /\ \/ Works /\ codes' = Dropped(verifying[v].list, verifying[v].code)
       \/ Fails /\ UNCHANGED codes
    /\ accepted' = [accepted EXCEPT ![verifying[v].code] = @ + 1]
    /\ Verifying(v, "reset")
    /\ UNCHANGED <<durable, enrolled, failed, locked, usage, mfaCalls, keyLocked, guesses, overlapped, escaped>>

reset_backup_code_usage(v) ==
    /\ In(v, "reset")
    /\ \/ Works /\ usage' = 0
       \/ Fails /\ UNCHANGED usage
    /\ Answered(v)
    /\ UNCHANGED <<durable, enrolled, codes, failed, locked, mfaCalls, keyLocked, guesses, accepted,
                   overlapped, escaped>>

\* record_backup_code_usage: the caller's API key is locked at the limit.
LocksKey(n) == UsedUp(n)
record_backup_code_usage(v) ==
    /\ In(v, "record")
    /\ \/ Works /\ usage' = usage + 1 /\ keyLocked' = (keyLocked \/ LocksKey(usage + 1))
       \/ Fails /\ UNCHANGED <<usage, keyLocked>>
    /\ Answered(v)
    /\ UNCHANGED <<durable, enrolled, codes, failed, locked, mfaCalls, guesses, accepted, overlapped, escaped>>

\* A client hangs up, which drops its request between two steps; or the
\* process stops, and takes everything with it if there is no database.  The
\* lock of an API key is never kept.
Uncounted == {v \in Verifiers : verifying[v].at \in {"count", "set_lock"}}
MfaHangUp(v) ==
    /\ ~In(v, "idle")
    /\ Answered(v)
    /\ escaped' = IF v \in Uncounted THEN escaped + 1 ELSE escaped
    /\ UNCHANGED <<durable, enrolled, codes, failed, locked, usage, mfaCalls, mfaFaults, keyLocked,
                   guesses, accepted, overlapped>>
MfaRestart ==
    /\ enrolled
    /\ verifying' = [v \in Verifiers |-> NoRequest]
    /\ keyLocked' = FALSE
    /\ IF durable
       THEN /\ escaped' = escaped + Cardinality(Uncounted)
            /\ UNCHANGED <<enrolled, codes, failed, locked, usage, guesses>>
       ELSE /\ enrolled' = FALSE /\ codes' = {} /\ failed' = 0 /\ locked' = FALSE /\ usage' = 0
            /\ guesses' = 0 /\ escaped' = 0
    /\ UNCHANGED <<durable, mfaCalls, mfaFaults, accepted, overlapped>>

MfaNext ==
    \/ store_totp_config
    \/ \E v \in Verifiers :
         \/ /\ \/ \E right \in BOOLEAN : Asks(v, "lock", right, "none")
               \/ \E c \in BackupCodes \cup {"guess"} : Asks(v, "usage", FALSE, c)
            /\ UNCHANGED <<durable, enrolled, codes, failed, locked, usage, mfaFaults, keyLocked,
                           guesses, accepted, overlapped, escaped>>
         \/ is_locked_out(v) \/ verify_totp(v) \/ clear_failed_attempts(v)
         \/ count_failure(v) \/ set_lock(v)
         \/ backup_code_usage_count(v) \/ load_backup_codes(v) \/ save_backup_codes(v)
         \/ reset_backup_code_usage(v) \/ record_backup_code_usage(v)
         \/ MfaHangUp(v)
    \/ LockoutLapses
    \/ MfaRestart

-----------------------------------------------------------------------------
(* Properties.                                                             *)

\* The counters and the list stay in their domains.
MfaTypeOK ==
    /\ codes \subseteq BackupCodes
    /\ ~enrolled => codes = {}
    /\ {failed, usage, guesses} \subseteq 0..MaxMfaCalls
    /\ \A v \in Verifiers : verifying[v].list \subseteq BackupCodes

\* Between two openings of the lock only so many wrong codes are looked at: the
\* limit, one more for every other request that was past the check of the lock
\* when it was set, one for every request that went away before its attempt was
\* counted, and one for every error of the database (which the code takes for
\* "not locked" or "no attempt").
GuessesBounded ==
    guesses <= MaxTotpAttempts + (Cardinality(Verifiers) - 1) + escaped + mfaFaults

\* A backup code is good for one use, unless a write was lost or two requests
\* held the list at the same time: then one of them puts back what the other
\* took out.
BackupCodeOnce ==
    \A c \in BackupCodes : accepted[c] > 1 => overlapped \/ mfaFaults > 0

\* Without a database, a user that has used up the backup codes got there with
\* the caller's API key locked.  (With one the usage is kept and the lock of the
\* key is not, so that a restart leaves the one without the other.)
AbuseLocksKey == UsedUp(usage) => keyLocked \/ durable

\* The second factor resists guessing and replay as far as its separate reads
\* and writes allow: wrong codes are bounded, a backup code is used once, and
\* who uses the backup codes up loses the API key.
SecondFactorSound == MfaTypeOK /\ GuessesBounded /\ BackupCodeOnce /\ AbuseLocksKey

-----------------------------------------------------------------------------
(***************************************************************************)
(* The codes of kms-mfa: TotpGenerator, crates/kms-mfa/src/totp.rs, and    *)
(* BackupCodeGenerator, backup_codes.rs, under a clock of their own; the   *)
(* manager keeps none of their state.                                      *)
(*                                                                         *)
(* HMAC is taken for injective: a TOTP code is the number of its time      *)
(* step, and a stored backup code is the hash of what was handed out.      *)
(***************************************************************************)
CONSTANTS
    TimeStep,           \* time_step, in seconds (30)
    ToleratedSteps,     \* window (1)
    HandedOut,          \* the backup codes that were generated
    MAX_FAILED_ATTEMPTS,    \* (5)
    LOCKOUT_DURATION_SECS,  \* (300)
    MaxSkew,            \* bound: the seconds a device's clock is ahead
    LastTimestamp,      \* bound: the clock
    MaxWrongCodes       \* bound: wrong backup codes that are looked at

ASSUME MfaCodesAssumption ==
    /\ {TimeStep, MAX_FAILED_ATTEMPTS, LOCKOUT_DURATION_SECS} \subseteq Nat \ {0}
    /\ {ToleratedSteps, MaxSkew, LastTimestamp, MaxWrongCodes} \subseteq Nat
    /\ IsFiniteSet(HandedOut)

VARIABLES
    timestamp,      \* current_timestamp
    totp,           \* the code on the user's device: [counter, generated_at, expires_at]
    totpAnswer,     \* what validate last said of it, and when (history)
    backupCodes,    \* codes: the hashes
    remaining,
    failedAttempts,
    lockoutUntil,   \* lockout_until; 0 is None
    acceptedCodes,  \* backup code -> times it was accepted since it was handed out (history)
    wrongCodes,     \* wrong codes looked at since the last right one (history)
    firstLock       \* when the first lock since then was set (history)

codeVars == <<timestamp, totp, totpAnswer, backupCodes, remaining, failedAttempts, lockoutUntil,
              acceptedCodes, wrongCodes, firstLock>>

NoCode == [counter |-> 0, generated_at |-> 0, expires_at |-> 0]
NoAnswer == [at |-> 0, valid |-> FALSE]
Never == LastTimestamp + 1

hash_code(code) == <<"sha256", code>>

\* generate: the codes are stored as hashes and shown once.
CodesInit ==
    /\ timestamp = 0 /\ totp = NoCode /\ totpAnswer = NoAnswer
    /\ backupCodes = {hash_code(c) : c \in HandedOut}
    /\ remaining = Cardinality(HandedOut)
    /\ failedAttempts = 0 /\ lockoutUntil = 0
    /\ acceptedCodes = [c \in HandedOut |-> 0]
    /\ wrongCodes = 0 /\ firstLock = Never

totpVars == <<totp, totpAnswer>>
savedVars == <<backupCodes, remaining, failedAttempts, lockoutUntil, acceptedCodes, wrongCodes, firstLock>>

-----------------------------------------------------------------------------
(* TotpGenerator.                                                          *)

CounterAt(t) == t \div TimeStep

\* A device makes a code at time t of its clock; it expires where the next step
\* begins.
generate_at_timestamp(t) ==
    /\ totp' = [counter |-> CounterAt(t), generated_at |-> t, expires_at |-> (CounterAt(t) + 1) * TimeStep]
    /\ totpAnswer' = NoAnswer
    /\ UNCHANGED <<timestamp, savedVars>>

\* mutant: only ahead
Tried_Forward(counter) == {counter + delta : delta \in 0..ToleratedSteps}

\* The counters whose code validate_at_timestamp compares with the one given:
\* delta steps ahead, and as many behind unless that is before the first.
Tried(counter) ==
    {counter + delta : delta \in 0..ToleratedSteps}
      \cup {counter - delta : delta \in {d \in 0..ToleratedSteps : counter >= d}}

\* TotpCode::is_valid.
ShownValid(code, t) == code.expires_at > t

validate_totp ==
    /\ totp # NoCode
    /\ totpAnswer' = [at |-> timestamp, valid |-> totp.counter \in Tried(CounterAt(timestamp))]
    /\ UNCHANGED <<timestamp, totp, savedVars>>

-----------------------------------------------------------------------------
(* BackupCodeGenerator.                                                    *)

is_locked_out_code == lockoutUntil # 0 /\ timestamp < lockoutUntil

\* mutant: a lock that is over starts the count anew
CountWrong_Reset ==
    LET n == IF lockoutUntil # 0 THEN 1 ELSE failedAttempts + 1
    IN  /\ failedAttempts' = n
        /\ lockoutUntil' = IF n >= MAX_FAILED_ATTEMPTS THEN timestamp + LOCKOUT_DURATION_SECS ELSE 0

\* The counter is not reset when a lock is over: the next wrong code sets it
\* again.
CountWrong ==
    /\ failedAttempts' = failedAttempts + 1
    /\ lockoutUntil' = IF failedAttempts' >= MAX_FAILED_ATTEMPTS
                       THEN timestamp + LOCKOUT_DURATION_SECS ELSE lockoutUntil

wrong_code ==
    /\ wrongCodes < MaxWrongCodes /\ wrongCodes' = wrongCodes + 1
    /\ CountWrong
    /\ firstLock' = IF lockoutUntil' # 0 /\ firstLock = Never THEN timestamp ELSE firstLock
    /\ UNCHANGED <<backupCodes, remaining, acceptedCodes>>

Consumed(code) == backupCodes' = backupCodes \ {hash_code(code)} /\ remaining' = remaining - 1

right_code(code) ==
    /\ remaining > 0
    /\ failedAttempts' = 0 /\ lockoutUntil' = 0
    /\ Consumed(code)
    /\ acceptedCodes' = [acceptedCodes EXCEPT ![code] = @ + 1]
    /\ wrongCodes' = 0 /\ firstLock' = Never

\* A code that was handed out and used is as wrong as any other.
consume_code(code) ==
    /\ ~is_locked_out_code
    /\ IF hash_code(code) \in backupCodes THEN right_code(code) ELSE wrong_code
    /\ UNCHANGED <<timestamp, totpVars>>

\* load of the codes not yet used: the lock and its counter begin anew.  It takes
\* hashes, and takes the plain codes that generate has returned for hashes too.
load(form) ==
    /\ backupCodes' = {<<form, c>> : c \in {d \in HandedOut : acceptedCodes[d] = 0}}
    /\ remaining' = Cardinality(backupCodes')
    /\ failedAttempts' = 0 /\ lockoutUntil' = 0
    /\ wrongCodes' = 0 /\ firstLock' = Never
    /\ UNCHANGED <<timestamp, totpVars, acceptedCodes>>

TimestampPasses ==
    /\ timestamp < LastTimestamp /\ timestamp' = timestamp + 1
    /\ UNCHANGED <<totpVars, savedVars>>

CodesNext ==
    \/ \E skew \in 0..MaxSkew : generate_at_timestamp(timestamp + skew)
    \/ validate_totp \/ TimestampPasses
    \/ \E form \in {"sha256", "plain"} : load(form)
    \/ \E code \in HandedOut \cup {"guess"} : consume_code(code)

-----------------------------------------------------------------------------
(* Properties.                                                             *)

\* A code is valid in its own time step and in ToleratedSteps before and after
\* it, from the first step of all on, and the device shows it as valid when it
\* is made, be it in the last second of a step.
TotpInTime ==
    LET tolerated == ToleratedSteps * TimeStep
    IN  /\ totp # NoCode => ShownValid(totp, totp.generated_at)
        /\ totpAnswer # NoAnswer =>
             (totpAnswer.valid <=> /\ totpAnswer.at + tolerated >= totp.expires_at - TimeStep
                                   /\ totpAnswer.at < totp.expires_at + tolerated)

\* A code is accepted once; what remains is what was not.  Once the first lock
\* is set one wrong code is looked at for every LOCKOUT_DURATION_SECS.
BackupCodesOnce ==
    /\ \A c \in HandedOut : acceptedCodes[c] <= 1
    /\ remaining = Cardinality({c \in HandedOut : acceptedCodes[c] = 0})
    /\ wrongCodes <= IF firstLock = Never THEN MAX_FAILED_ATTEMPTS - 1
                     ELSE MAX_FAILED_ATTEMPTS + (timestamp - firstLock) \div LOCKOUT_DURATION_SECS

\* The codes of the second factor are good for their time and once.
CodesSound == TotpInTime /\ BackupCodesOnce

=============================================================================
