------------------------------ MODULE Sm2Kex -------------------------------
(***************************************************************************)
(* SM2 key exchange sessions: those of the software key store              *)
(* (kms-keystore/src/software/mod.rs) and the session manager in Redis     *)
(* (sm2_kex_session.rs).  KexSession of gm_crypto is external: what it     *)
(* derives is named by the two sessions that take part, and a message is   *)
(* [type, from, re, r, confirmation].  The network keeps, repeats,         *)
(* reorders and misdirects messages.                                       *)
(***************************************************************************)
EXTENDS Naturals, Sequences, FiniteSets, SequencesExt

CONSTANTS
    MaxSessions,            \* bound: sessions created
    SessionTimeout,         \* SM2_KEX_SESSION_TIMEOUT_SECS, 60 in the code
    HistoryTtl,             \* MESSAGE_HISTORY_TTL_SECS, 60 in the code
    MaxHistory,             \* MAX_MESSAGE_HISTORY_SIZE, 10 in the code
    LastSecond,             \* bound: the clock
    MaxAttempts             \* bound: messages a session records

ASSUME KexAssumption ==
    /\ {MaxSessions, SessionTimeout, HistoryTtl, MaxHistory, LastSecond, MaxAttempts} \subseteq Nat
    /\ HistoryTtl >= SessionTimeout

VARIABLES
    sessions,   \* session id |-> entry of sm2_kex_sessions
    created,    \* number of sessions so far: their ids are 1..created
    revoked,    \* ids in revoked_sessions, which outlive the run's clock
    net,        \* messages ever sent
    second,     \* the clock
    recorded    \* id |-> every message it ever recorded, in order (history)

kexVars == <<sessions, created, revoked, net, second, recorded>>

Ids == 1 .. MaxSessions

KexInit ==
    /\ sessions = [i \in {} |-> 0]
    /\ created = 0 /\ revoked = {} /\ net = {} /\ second = 0
    /\ recorded = [i \in Ids |-> <<>>]

Message(type, from, re) == [type |-> type, from |-> from, re |-> re, r |-> "point", confirmation |-> type = 3]

\* An ephemeral key that is all zero or all one byte is refused.
validate_r_pub(m) == m.r = "point"

\* serialize writes r_pub into every message, deserialize reads it from messages
\* 1 and 2 only: of message 3 it takes the bytes of r_pub for the confirmation.
serialize_sm2_kex_message(m) == m
deserialize_sm2_kex_message(m) == IF m.type = 3 THEN [m EXCEPT !.confirmation = FALSE] ELSE m

Entry(initiator, peer, secret) ==
    [initiator |-> initiator, peer |-> peer, secret |-> secret, created_at |-> second, history |-> <<>>]
Entered(id, e) == [i \in DOMAIN sessions \cup {id} |-> IF i = id THEN e ELSE sessions[i]]
Without(id) == [i \in DOMAIN sessions \ {id} |-> sessions[i]]

\* create and accept ask only that the key is an SM2 key, not for its status or tenant.
create_sm2_kex_session(isSm2) ==
    /\ isSm2 /\ created < MaxSessions
    /\ created' = created + 1
    /\ sessions' = Entered(created + 1, Entry(TRUE, 0, <<>>))
    /\ net' = net \cup {Message(1, created + 1, 0)}
    /\ UNCHANGED <<revoked, second, recorded>>

\* process_msg1 of KexSession derives the responder's side of the secret.
accept_sm2_kex_session(isSm2, m, peerKeyValid) ==
    /\ isSm2 /\ created < MaxSessions /\ peerKeyValid /\ m.type = 1 /\ validate_r_pub(m)
    /\ created' = created + 1
    /\ sessions' = Entered(created + 1, Entry(FALSE, m.from, <<>>))
    /\ net' = net \cup {Message(2, created + 1, m.from)}
    /\ UNCHANGED <<revoked, second, recorded>>

\* Vec::retain: the elements of seq at the indices in kept, in order.
Retained(seq, kept) ==
    [n \in 1 .. Cardinality(kept) |->
        seq[CHOOSE i \in kept : Cardinality({j \in kept : j <= i}) = n]]

is_session_revoked(id) == id \in revoked
Expired(e) == second - e.created_at > SessionTimeout
Fresh(history) == Retained(history, {n \in DOMAIN history : second - history[n].at < HistoryTtl})
Seen_Never(history, m) == FALSE                       \* mutant: no replay check
Seen(history, m) == \E n \in 1 .. Len(history) : history[n].message = m
Remember(history, m) ==
    LET longer == Append(history, [at |-> second, message |-> m])
    IN  IF Len(longer) > MaxHistory THEN Tail(longer) ELSE longer

\* KexSession: the initiator answers message 2 of a responder to its own message
\* 1, the responder takes the confirmation.  A second answer may be refused.
Answers(e, id, m) ==
    IF e.initiator THEN m.type = 2 /\ m.re = id
    ELSE m.type = 3 /\ m.re = id /\ m.from = e.peer /\ m.confirmation
Completed(e, id, m) ==
    IF e.initiator THEN [e EXCEPT !.peer = m.from, !.secret = <<id, m.from>>]
    ELSE [e EXCEPT !.secret = <<e.peer, id>>]

\* process_sm2_kex_message: a session that timed out goes, a message is recorded
\* (and the nonce, which nothing reads,
\* counted) before it is known to be right, and stays recorded when it is not.
\* No message comes back within the second its session was created in.
process_sm2_kex_message(id, m, peerKeyValid) ==
    /\ ~is_session_revoked(id) /\ id \in DOMAIN sessions
    /\ sessions[id].created_at < second
    /\ IF Expired(sessions[id])
       THEN sessions' = Without(id) /\ UNCHANGED <<net, recorded>>
       ELSE /\ m.type \in {1, 2} => validate_r_pub(m)
            /\ Len(recorded[id]) < MaxAttempts
            /\ LET kept == Fresh(sessions[id].history)
                   e == [sessions[id] EXCEPT !.history = Remember(kept, m)]
               IN  \/ /\ Seen(kept, m)
                      /\ sessions' = [sessions EXCEPT ![id].history = kept]
                      /\ UNCHANGED <<net, recorded>>
                   \/ /\ ~Seen(kept, m)
                      /\ recorded' = [recorded EXCEPT ![id] = Append(@, m)]
                      /\ \/ /\ peerKeyValid /\ Answers(e, id, m)
                            /\ sessions' = [sessions EXCEPT ![id] = Completed(e, id, m)]
                            /\ net' = IF e.initiator THEN net \cup {Message(3, id, m.from)} ELSE net
                         \/ /\ ~(peerKeyValid /\ Answers(e, id, m)) \/ e.secret # <<>>
                            /\ sessions' = [sessions EXCEPT ![id] = e]
                            /\ UNCHANGED net
    /\ UNCHANGED <<created, revoked, second>>

\* There is no time-out here: a completed session answers until it is removed.
get_sm2_kex_result(id) ==
    IF is_session_revoked(id) \/ id \notin DOMAIN sessions THEN <<>> ELSE sessions[id].secret

remove_sm2_kex_session(id) ==
    /\ id \in DOMAIN sessions
    /\ revoked' = revoked \cup {id}
    /\ sessions' = Without(id)
    /\ UNCHANGED <<created, net, second, recorded>>

KexTick == second < LastSecond /\ second' = second + 1
           /\ UNCHANGED <<sessions, created, revoked, net, recorded>>

Junk == [type |-> 2, from |-> 0, re |-> 0, r |-> "zero", confirmation |-> FALSE]
Arrivals == net \cup {deserialize_sm2_kex_message(serialize_sm2_kex_message(m)) : m \in net} \cup {Junk}

KexNext ==
    \/ \E isSm2 \in BOOLEAN : create_sm2_kex_session(isSm2)
    \/ \E isSm2, peerKeyValid \in BOOLEAN, m \in Arrivals : accept_sm2_kex_session(isSm2, m, peerKeyValid)
    \/ \E id \in Ids, m \in Arrivals, peerKeyValid \in BOOLEAN : process_sm2_kex_message(id, m, peerKeyValid)
    \/ \E id \in Ids : remove_sm2_kex_session(id)
    \/ KexTick

KexSpec == KexInit /\ [][KexNext]_kexVars

-----------------------------------------------------------------------------
(* Properties.                                                             *)

\* A session never acts twice on a message, unless as many others as the history
\* holds came in between: a failed attempt counts, so that a message presented
\* first with a wrong peer key is refused for good.  (A history of ten entries
\* is flushed by ten junk messages.)
NoReplay ==
    \A id \in Ids : \A i, j \in 1 .. Len(recorded[id]) :
        i < j /\ recorded[id][i] = recorded[id][j] => j - i > MaxHistory

\* A responder has a secret only after the initiator it accepted got there first
\* and named the same pair, and it got there through the structured messages:
\* those decoded from bytes carry no confirmation.
ResponderConfirmed ==
    \A id \in DOMAIN sessions : LET e == sessions[id] IN
        ~e.initiator /\ e.secret # <<>> =>
            /\ Message(3, e.peer, id) \in ToSet(recorded[id])
            /\ Message(2, id, e.peer) \in ToSet(recorded[e.peer])

\* Two results for one pair of sessions are the same secret.
Agreement ==
    \A i, j \in DOMAIN sessions :
        LET a == get_sm2_kex_result(i)
            b == get_sm2_kex_result(j)
        IN  a # <<>> /\ b # <<>> /\ sessions[i].peer = j /\ sessions[j].peer = i => a = b

\* Two sessions that agree have the same secret, in the order of the protocol and
\* from messages that were new.
KexSound == NoReplay /\ ResponderConfirmed /\ Agreement

=============================================================================
