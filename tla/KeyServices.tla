----------------------------- MODULE KeyServices -----------------------------
(***************************************************************************)
(* The services between the handlers and the key store: KeyService,        *)
(* CryptoService and EnvelopeService of crates/kms-api/src/service, and    *)
(* the tenant quota they keep in Redis, quota.rs.                          *)
(*                                                                         *)
(* Every call of the key store or of Redis is a step of its own, so that   *)
(* what one call read may be old when the next one runs.  The key store is *)
(* its interface here: a version of a key is its material, a rotation adds *)
(* one, a deletion ends the use of the key.  An envelope is the version    *)
(* its data key is sealed under and the version it is labelled with.       *)
(***************************************************************************)
EXTENDS Naturals, FiniteSets

CONSTANTS
    ServiceKeys,     \* key ids
    ServiceTenants,
    Workers,         \* concurrent calls
    MaxKeys,         \* QuotaConfig.max_keys
    MaxRequests,     \* QuotaConfig.max_requests_per_minute
    MaxDaily,        \* QuotaConfig.max_requests_per_day
    MaxVersion,      \* bound: versions of a key
    MaxCalls,        \* bound: calls
    Existing         \* the keys there are at the start: key -> tenant

ASSUME ServicesAssumption ==
    /\ {MaxKeys, MaxRequests, MaxDaily, MaxCalls} \subseteq Nat
    /\ MaxVersion \in Nat \ {0}
    /\ IsFiniteSet(Workers) /\ Workers # {}
    /\ IsFiniteSet(ServiceKeys) /\ DOMAIN Existing \subseteq ServiceKeys
    /\ Existing \in [DOMAIN Existing -> ServiceTenants]

VARIABLES
    vault,       \* key -> [tenant, version, alive]
    counted,     \* tenant -> the counter of its keys
    windows,     \* tenant -> the counters of its requests, [minute, day]
    call,        \* worker -> its call
    calls,
    envelopes,   \* what envelope encryption and rewrapping answered
    answers,     \* what the last of the other calls answered: [tenant, owner, asked, label, used, raced]
    made,        \* tenant -> keys made for it (history)
    uncounted,   \* tenant -> keys no counter has (history)
    passed       \* tenant -> requests let through, [minute, day] (history)

quotaVars == <<counted, windows, made, uncounted, passed>>
serviceVars == <<vault, call, calls, envelopes, answers, quotaVars>>

NoEnvelope == [key |-> "none", label |-> 0, sealed |-> 0, tenant |-> "none", raced |-> FALSE]
Idle == [at |-> "idle", op |-> "none", key |-> "none", tenant |-> "none", version |-> 0,
         asked |-> 0, raced |-> FALSE, env |-> NoEnvelope]

CountedOps == {"create_key", "import_key"}
OwnerOps == {"rotate_key", "delete_key"}
CryptoOps == {"encrypt", "decrypt", "sign", "verify", "hmac", "hmac_verify"}
\* Calls that take the same steps up to the key store.
Kind(op) == IF op \in CountedOps THEN "create" ELSE IF op \in CryptoOps THEN "crypto" ELSE op

ServicesInit ==
    /\ vault = [k \in DOMAIN Existing |-> [tenant |-> Existing[k], version |-> 1, alive |-> TRUE]]
    /\ counted = [t \in ServiceTenants |-> Cardinality({k \in DOMAIN Existing : Existing[k] = t})]
    /\ windows = [t \in ServiceTenants |-> [minute |-> 0, day |-> 0]]
    /\ call = [w \in Workers |-> Idle]
    /\ calls = 0
    /\ envelopes = {}
    /\ answers = {}
    /\ made = counted
    /\ uncounted = [t \in ServiceTenants |-> 0]
    /\ passed = [t \in ServiceTenants |-> [minute |-> 0, day |-> 0]]

-----------------------------------------------------------------------------
(* The key store, and a call.                                              *)

\* The store serves a living key of the caller's tenant.
Serves(k, t) == k \in DOMAIN vault /\ vault[k].alive /\ vault[k].tenant = t

Reached(w, at) == call[w].at = at
Move(w, at) == call' = [call EXCEPT ![w].at = at]
Finish(w) == call' = [call EXCEPT ![w] = Idle]

\* A call begins.  An asked version is what export_key is asked for, and the
\* envelope is what rewrap_dek is given.
Begin(w, op, t, k, asked, e) ==
    /\ Reached(w, "idle")
    /\ calls < MaxCalls
    /\ calls' = calls + 1
    /\ answers' = {}
    /\ call' = [call EXCEPT ![w] = [Idle EXCEPT
         !.at = IF op \in CountedOps THEN "quota" ELSE IF op \in CryptoOps THEN "request" ELSE "meta",
         !.op = Kind(op), !.tenant = t, !.key = k, !.asked = asked, !.env = e]]
    /\ UNCHANGED <<vault, envelopes, quotaVars>>

-----------------------------------------------------------------------------
(* create_key and import_key: the quota is read, the key made, the counter *)
(* incremented.                                                            *)

\* can_create_key: a counter that cannot be read is taken for 0.
can_create_key(w) ==
    /\ Reached(w, "quota")
    /\ \E readable \in BOOLEAN :
         IF readable /\ counted[call[w].tenant] >= MaxKeys THEN Finish(w) ELSE Move(w, "make")
    /\ UNCHANGED <<vault, calls, envelopes, answers, quotaVars>>

New(k, t) == [x \in DOMAIN vault \cup {k} |->
                IF x = k THEN [tenant |-> t, version |-> 1, alive |-> TRUE] ELSE vault[x]]
Free == ServiceKeys \ DOMAIN vault
Fresh == CHOOSE k \in Free : TRUE    \* a new id

generate_key(w) ==
    /\ Reached(w, "make")
    /\ \/ /\ Free # {}
          /\ vault' = New(Fresh, call[w].tenant)
          /\ made' = [made EXCEPT ![call[w].tenant] = @ + 1]
          /\ Move(w, "count")
       \/ Finish(w) /\ UNCHANGED <<vault, made>>
    /\ UNCHANGED <<calls, envelopes, answers, counted, windows, uncounted, passed>>

\* A failure is logged and the key stays.
increment_key_count_Skipped(w) ==    \* mutant: the counter is left alone
    /\ Reached(w, "count")
    /\ Finish(w)
    /\ UNCHANGED <<vault, calls, envelopes, answers, quotaVars>>
increment_key_count(w) ==
    /\ Reached(w, "count")
    /\ LET t == call[w].tenant
       IN  \/ counted' = [counted EXCEPT ![t] = @ + 1] /\ UNCHANGED uncounted
           \/ uncounted' = [uncounted EXCEPT ![t] = @ + 1] /\ UNCHANGED counted
    /\ Finish(w)
    /\ UNCHANGED <<vault, calls, envelopes, answers, made, windows, passed>>

\* The counter has a time to live of 30 days since its last increment.
CounterExpires(t) ==
    /\ counted[t] > 0
    /\ counted' = [counted EXCEPT ![t] = 0]
    /\ uncounted' = [uncounted EXCEPT ![t] = @ + counted[t]]
    /\ UNCHANGED <<vault, call, calls, envelopes, answers, made, windows, passed>>

\* grpc.rs::import_key calls the key store itself: no quota.
grpc_import_key(t) ==
    /\ calls < MaxCalls
    /\ calls' = calls + 1
    /\ Free # {}
    /\ vault' = New(Fresh, t)
    /\ made' = [made EXCEPT ![t] = @ + 1]
    /\ uncounted' = [uncounted EXCEPT ![t] = @ + 1]
    /\ UNCHANGED <<call, envelopes, answers, counted, windows, passed>>

-----------------------------------------------------------------------------
(* record_request: a minute's counter, then a day's; an error lets it by.  *)

Exceeds(n, limit) == n > limit
Bump(f, t, which) == [f EXCEPT ![t][which] = @ + 1]

record_minute(w) ==
    /\ Reached(w, "request")
    /\ LET t == call[w].tenant
       IN  \/ Move(w, "meta") /\ UNCHANGED windows
           \/ /\ windows' = Bump(windows, t, "minute")
              /\ IF Exceeds(windows[t].minute + 1, MaxRequests) THEN Finish(w) ELSE Move(w, "day")
    /\ UNCHANGED <<vault, calls, envelopes, answers, counted, made, uncounted, passed>>

record_day(w) ==
    /\ Reached(w, "day")
    /\ LET t == call[w].tenant
       IN  \/ Move(w, "meta") /\ UNCHANGED <<windows, passed>>
           \/ /\ windows' = Bump(windows, t, "day")
              /\ IF Exceeds(windows[t].day + 1, MaxDaily)
                 THEN Finish(w) /\ UNCHANGED passed
                 ELSE /\ Move(w, "meta")
                      /\ passed' = [passed EXCEPT ![t] = [minute |-> @.minute + 1, day |-> @.day + 1]]
    /\ UNCHANGED <<vault, calls, envelopes, answers, counted, made, uncounted>>

\* The minute is over and its counter has another name; no request is between
\* its two counters then.
MinutePasses ==
    /\ \E t \in ServiceTenants : windows[t].minute > 0
    /\ \A w \in Workers : ~Reached(w, "day")
    /\ windows' = [t \in ServiceTenants |-> [windows[t] EXCEPT !.minute = 0]]
    /\ passed' = [t \in ServiceTenants |-> [passed[t] EXCEPT !.minute = 0]]
    /\ UNCHANGED <<vault, call, calls, envelopes, answers, counted, made, uncounted>>

-----------------------------------------------------------------------------
(* The calls that look a key up and then use it.                           *)

\* get_key_metadata knows no tenant: all but the envelopes compare it.
get_key_metadata(w) ==
    /\ Reached(w, "meta")
    /\ LET c == call[w]
           found == c.key \in DOMAIN vault
           ours == found /\ vault[c.key].tenant = c.tenant
       IN  IF ours \/ (found /\ c.op \in {"envelope_encrypt", "rewrap_dek"})
           THEN call' = [call EXCEPT ![w].version = vault[c.key].version,
                                     ![w].at = IF c.op = "rewrap_dek" THEN "old" ELSE "use"]
           ELSE Finish(w)
    /\ UNCHANGED <<vault, calls, envelopes, answers, quotaVars>>

\* Whoever reads metadata and material around a rotation sees two versions.
Raced(k) == [w \in Workers |-> IF call[w].key = k /\ call[w].at \in {"old", "use"}
                               THEN [call[w] EXCEPT !.raced = TRUE] ELSE call[w]]

\* KeyService::rotate_key and delete_key, past their check of the owner.
rotate_key(w) ==
    /\ Reached(w, "use") /\ call[w].op = "rotate_key"
    /\ LET k == call[w].key
       IN  \/ ~Serves(k, call[w].tenant) /\ Finish(w) /\ UNCHANGED vault
           \/ /\ Serves(k, call[w].tenant)
              /\ vault[k].version < MaxVersion
              /\ vault' = [vault EXCEPT ![k].version = @ + 1]
              /\ call' = [Raced(k) EXCEPT ![w] = Idle]
    /\ UNCHANGED <<calls, envelopes, answers, quotaVars>>
delete_key(w) ==
    /\ Reached(w, "use") /\ call[w].op = "delete_key"
    /\ IF Serves(call[w].key, call[w].tenant)
       THEN vault' = [vault EXCEPT ![call[w].key].alive = FALSE] ELSE UNCHANGED vault
    /\ Finish(w)
    /\ UNCHANGED <<calls, envelopes, answers, quotaVars>>

Answer(c, label, used) ==
    answers' = {[tenant |-> c.tenant, owner |-> vault[c.key].tenant, asked |-> c.asked,
                 label |-> label, used |-> used, raced |-> c.raced]}

\* The crypto calls: the store does the work with the current version; hmac
\* computes itself from the material, and tells the version it read before.
UseKey(w, op, label) ==
    /\ Reached(w, "use") /\ call[w].op = Kind(op)
    /\ IF Serves(call[w].key, call[w].tenant)
       THEN Answer(call[w], label, vault[call[w].key].version)
       ELSE UNCHANGED answers
    /\ Finish(w)
    /\ UNCHANGED <<vault, calls, envelopes, quotaVars>>
encrypt(w) == UseKey(w, "encrypt", vault[call[w].key].version)
decrypt(w) == UseKey(w, "decrypt", vault[call[w].key].version)
sign(w)    == UseKey(w, "sign", vault[call[w].key].version)
verify(w)  == UseKey(w, "verify", vault[call[w].key].version)
hmac(w)    == UseKey(w, "hmac", call[w].version)
hmac_verify(w) == UseKey(w, "hmac_verify", call[w].version)

\* export_key: the current material unless another version than the one read
\* before was asked for; 0 asks for the current one.
Exported(c) == IF c.asked \in {0, c.version} THEN vault[c.key].version ELSE c.asked
export_key(w) ==
    /\ Reached(w, "use") /\ call[w].op = "export_key"
    /\ IF Serves(call[w].key, call[w].tenant) /\ Exported(call[w]) <= vault[call[w].key].version
       THEN Answer(call[w], call[w].version, Exported(call[w]))
       ELSE UNCHANGED answers
    /\ Finish(w)
    /\ UNCHANGED <<vault, calls, envelopes, quotaVars>>

Seal(c) == [key |-> c.key, label |-> c.version, sealed |-> vault[c.key].version,
            tenant |-> c.tenant, raced |-> c.raced]

\* EnvelopeService::encrypt seals a new data key with the current material.
envelope_encrypt(w) ==
    /\ Reached(w, "use") /\ call[w].op = "envelope_encrypt"
    /\ envelopes' = IF Serves(call[w].key, call[w].tenant) THEN envelopes \cup {Seal(call[w])}
                    ELSE envelopes
    /\ Finish(w)
    /\ UNCHANGED <<vault, calls, answers, quotaVars>>

\* rewrap_dek opens the envelope with the version it is labelled with and seals
\* it with the current one; one that bears the current version comes back as it is.
rewrap_old(w) ==
    /\ Reached(w, "old")
    /\ IF call[w].env.label # call[w].version /\ Serves(call[w].key, call[w].tenant)
       THEN Move(w, "use") ELSE Finish(w)
    /\ UNCHANGED <<vault, calls, envelopes, answers, quotaVars>>
Rewrapped_Relabelled(c) == [Seal(c) EXCEPT !.sealed = c.env.sealed]    \* mutant: only the label changes
Rewrapped(c) == Seal(c)
rewrap_new(w) ==
    /\ Reached(w, "use") /\ call[w].op = "rewrap_dek"
    /\ envelopes' = IF Serves(call[w].key, call[w].tenant) /\ call[w].env.sealed = call[w].env.label
                    THEN envelopes \cup {Rewrapped(call[w])} ELSE envelopes
    /\ Finish(w)
    /\ UNCHANGED <<vault, calls, answers, quotaVars>>

\* decrypt_with_kek_version: the version that opens the envelope, 0 the current.
Opens(e, version) ==
    /\ Serves(e.key, e.tenant)
    /\ e.sealed = IF version = 0 THEN vault[e.key].version ELSE version

ServicesNext ==
    \/ \E w \in Workers :
         \/ \E t \in ServiceTenants :
              \/ \E op \in CountedOps : Begin(w, op, t, "none", 0, NoEnvelope)
              \/ \E k \in DOMAIN vault :
                   \/ \E op \in OwnerOps \cup CryptoOps \cup {"envelope_encrypt"} :
                        Begin(w, op, t, k, 0, NoEnvelope)
                   \/ \E v \in 0..MaxVersion : Begin(w, "export_key", t, k, v, NoEnvelope)
              \/ \E e \in envelopes : Begin(w, "rewrap_dek", t, e.key, 0, e)
         \/ can_create_key(w) \/ generate_key(w) \/ increment_key_count(w)
         \/ record_minute(w) \/ record_day(w)
         \/ get_key_metadata(w) \/ rotate_key(w) \/ delete_key(w)
         \/ encrypt(w) \/ decrypt(w) \/ sign(w) \/ verify(w) \/ hmac(w) \/ hmac_verify(w)
         \/ export_key(w)
         \/ envelope_encrypt(w) \/ rewrap_old(w) \/ rewrap_new(w)
    \/ \E t \in ServiceTenants : CounterExpires(t) \/ grpc_import_key(t)
    \/ MinutePasses

ServicesSpec == ServicesInit /\ [][ServicesNext]_serviceVars

-----------------------------------------------------------------------------
(* Properties.                                                             *)

\* Versions, counters and calls stay in their domains.
ServicesTypeOK ==
    /\ DOMAIN vault \subseteq ServiceKeys
    /\ \A k \in DOMAIN vault : vault[k].version \in 1..MaxVersion
    /\ \A t \in ServiceTenants : {counted[t], windows[t].minute, windows[t].day} \subseteq 0..(MaxCalls + Cardinality(ServiceKeys))
    /\ \A w \in Workers : call[w].at \in {"idle", "quota", "make", "count", "request", "day",
                                          "meta", "old", "use"}
    /\ \A e \in envelopes : {e.label, e.sealed} \subseteq 1..MaxVersion

\* The quota may be overrun, but never silently: every key made for a tenant
\* is in its counter, in a call that is about to count it, or is one whose
\* count an error, the time to live or the uncounted path of gRPC lost; a
\* deletion gives nothing back.
Counting(t) == {w \in Workers : Reached(w, "count") /\ call[w].tenant = t}
QuotaAccounted ==
    \A t \in ServiceTenants : made[t] = counted[t] + Cardinality(Counting(t)) + uncounted[t]

\* In a minute and in a day a tenant gets no more counted requests through
\* than its quota has.
WindowsHold ==
    \A t \in ServiceTenants : passed[t].minute <= MaxRequests /\ passed[t].day <= MaxDaily

\* Whoever gets an answer owns the key it was computed with, although the
\* envelopes look a key up without comparing its tenant.
ServedOwner ==
    /\ \A a \in answers : a.owner = a.tenant
    /\ \A e \in envelopes : vault[e.key].tenant = e.tenant

\* A caller that names the version on the envelope can open it: the label is
\* the version it is sealed under, unless a rotation came between the two reads
\* of the call that made it.
EnvelopeOpens ==
    \A e \in envelopes : ~e.raced /\ vault[e.key].alive => Opens(e, e.label)

\* export_key exports the version it is asked for, and an HMAC bears the
\* version of its key, unless a rotation came between the reads of the call.
AnswersAskedVersion ==
    \A a \in answers : ~a.raced =>
      /\ a.asked # 0 => a.used = a.asked
      /\ a.asked = 0 => a.used = a.label

\* The quota of keys may be overrun but never silently, and the quotas of
\* requests hold: whatever calls overlap, fail or are dropped, the counters of
\* quota.rs account for every key made and every request let through.
QuotaHolds == ServicesTypeOK /\ QuotaAccounted /\ WindowsHold

\* What a caller gets is its own and what it asked for: computed with a key of
\* its tenant, under the version it named, and an envelope that opens with the
\* version written on it.
AnswersFaithful == ServedOwner /\ EnvelopeOpens /\ AnswersAskedVersion

\* The services count what they do and answer what they were asked.
ServicesSound == QuotaHolds /\ AnswersFaithful

=============================================================================
