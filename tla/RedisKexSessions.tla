-------------------------- MODULE RedisKexSessions --------------------------
(***************************************************************************)
(* Sm2KexSessionManager, crates/kms-keystore/src/sm2_kex_session.rs: a key *)
(* exchange session that several servers share in Redis.  Every operation  *)
(* but the first and the last reads the session, changes its copy and      *)
(* writes it back.  Sessions share nothing: this is one of them.           *)
(*                                                                         *)
(* The clock is read in milliseconds and Redis counts in seconds, and what *)
(* is left of a session's time is rounded for it.  The time is computed    *)
(* before the write is sent, which reaches Redis later.                    *)
(***************************************************************************)
EXTENDS Naturals, Sequences, FiniteSets

CONSTANTS
    KexServers,        \* the concurrent calls
    KexMessages,       \* hashes of messages
    PerSecond,         \* readings of the clock in a second (1000 in the code)
    SessionTtl,        \* SESSION_TTL_SECS
    MessageTtl,        \* MESSAGE_HISTORY_TTL_SECS
    HistorySize,       \* MAX_MESSAGE_HISTORY_SIZE
    LastMoment,        \* bound: the clock
    MaxKexCalls        \* bound: calls

ASSUME KexSessionsAssumption ==
    /\ {PerSecond, SessionTtl, MessageTtl, HistorySize} \subseteq Nat \ {0}
    /\ {LastMoment, MaxKexCalls} \subseteq Nat
    /\ "none" \notin KexMessages

VARIABLES
    shared,      \* what Redis holds
    redisExpiry, \* when Redis drops it
    kexCall,     \* server -> its call
    moment,      \* SystemTime::now, in readings
    kexCalls,    \* bounded
    taken,       \* messages answered as new, with their times (history)
    delay,       \* how long the last write was on its way (history)
    overlap,     \* two calls on the session overlapped since it was created (history)
    replayed     \* a message was taken twice without an overlap (history)

kexStoreVars == <<shared, redisExpiry, kexCall, moment, kexCalls, taken, delay, overlap, replayed>>

Missing == [state |-> "Missing", created |-> 0, history |-> <<>>, secret |-> FALSE]
NoKexCall == [at |-> "idle", copy |-> Missing, message |-> "none", read |-> 0, left |-> 0]

KexStoreInit ==
    /\ shared = Missing
    /\ redisExpiry = 0
    /\ kexCall = [s \in KexServers |-> NoKexCall]
    /\ moment = 0
    /\ kexCalls = 0
    /\ taken = <<>>
    /\ delay = 0
    /\ overlap = FALSE
    /\ replayed = FALSE

NotBusy(s) == kexCall[s].at = "idle" /\ kexCalls < MaxKexCalls
Busy == {s \in KexServers : kexCall[s].at # "idle"}
Counted == kexCalls' = kexCalls + 1

\* A call begins, up to its write: the session it writes, the message it takes,
\* when it read the clock and how many seconds Redis is to keep the session.
Begins(s, at, copy, message, left) ==
    /\ NotBusy(s)
    /\ kexCall' = [kexCall EXCEPT ![s] =
                     [at |-> at, copy |-> copy, message |-> message, read |-> moment, left |-> left]]
    /\ overlap' = (overlap \/ Busy # {})
    /\ Counted
    /\ UNCHANGED <<shared, redisExpiry, moment, taken, delay, replayed>>

\* create_session does not look whether the id is in use.
NewSession == [state |-> "Init", created |-> moment, history |-> <<>>, secret |-> FALSE]
create_session(s) == Begins(s, "create", NewSession, "none", SessionTtl)

\* The whole seconds that are left of a session's time, of which it has had its
\* age without the part of a second.
Remaining_Full(copy) == SessionTtl   \* mutant: every write starts the time anew
Remaining(copy) ==
    LET age == (moment - copy.created) \div PerSecond
    IN  IF age < SessionTtl THEN SessionTtl - age ELSE 0

\* get_session, with which the other calls begin, and fail without a session, and
\* save_session up to its write.
get_session(s, copy, message) == shared # Missing /\ Begins(s, "write", copy, message, Remaining(copy))

update_state(s, state) == get_session(s, [shared EXCEPT !.state = state], "none")
complete_session(s) == get_session(s, [shared EXCEPT !.state = "Completed", !.secret = TRUE], "none")

\* Vec::retain: the elements of seq at the indices in kept, in order.
Retained(seq, kept) ==
    [n \in 1 .. Cardinality(kept) |->
        seq[CHOOSE i \in kept : Cardinality({j \in kept : j <= i}) = n]]

\* check_and_add_message: what is too old is dropped, a message that is left is
\* a replay (and nothing is written), another one is added and the oldest goes.
MessageLife == MessageTtl * PerSecond
Recent(history) == Retained(history, {i \in DOMAIN history : history[i].at + MessageLife > moment})
Remembered_Newest(history) == SubSeq(history, 1, HistorySize)   \* mutant: the cap drops the newest
Remembered(history) == IF Len(history) > HistorySize THEN Tail(history) ELSE history
Replay(message) == \E i \in DOMAIN Recent(shared.history) : Recent(shared.history)[i].message = message
check_and_add_message(s, message) ==
    \/ /\ ~Replay(message)
       /\ get_session(s, [shared EXCEPT !.history =
                            Remembered(Append(Recent(@), [message |-> message, at |-> moment]))], message)
    \/ /\ NotBusy(s) /\ shared # Missing /\ Replay(message)
       /\ overlap' = (overlap \/ Busy # {})
       /\ Counted
       /\ UNCHANGED <<shared, redisExpiry, kexCall, moment, taken, delay, replayed>>

\* The call's message was taken before, not long ago and not many messages ago.
Repeated(c) ==
    \E i \in DOMAIN taken :
      /\ taken[i].message = c.message
      /\ taken[i].at + MessageLife > c.read
      /\ Len(taken) - i < HistorySize
\* The write reaches Redis, which keeps the session for as long as it says, or
\* drops it.
set_ex(s) ==
    LET c == kexCall[s]
    IN  /\ c.at # "idle"
        /\ shared' = IF c.left > 0 THEN c.copy ELSE Missing
        /\ redisExpiry' = moment + c.left * PerSecond
        /\ delay' = moment - c.read
        /\ taken' = IF c.at = "create" THEN <<>>
                    ELSE IF c.message = "none" THEN taken
                    ELSE Append(taken, [message |-> c.message, at |-> c.read])
        /\ overlap' = IF c.at = "create" THEN Busy # {s} ELSE overlap
        /\ replayed' = (replayed \/ (c.at = "write" /\ ~overlap /\ Repeated(c)))
        /\ kexCall' = [kexCall EXCEPT ![s] = NoKexCall]
        /\ UNCHANGED <<moment, kexCalls>>

remove_session(s) ==
    /\ NotBusy(s) /\ shared # Missing
    /\ shared' = Missing
    /\ overlap' = (overlap \/ Busy # {})
    /\ Counted
    /\ UNCHANGED <<redisExpiry, kexCall, moment, taken, delay, replayed>>

\* Redis, or the connection to it, fails the write: the call answers an error.
set_fails(s) ==
    /\ kexCall[s].at # "idle"
    /\ kexCall' = [kexCall EXCEPT ![s] = NoKexCall]
    /\ UNCHANGED <<shared, redisExpiry, moment, kexCalls, taken, delay, overlap, replayed>>

\* The clock, with which Redis drops the session.
MomentPasses ==
    /\ moment < LastMoment
    /\ moment' = moment + 1
    /\ shared' = IF redisExpiry <= moment + 1 THEN Missing ELSE shared
    /\ UNCHANGED <<redisExpiry, kexCall, kexCalls, taken, delay, overlap, replayed>>

KexStoreNext ==
    \/ \E s \in KexServers :
         \/ create_session(s) \/ complete_session(s) \/ remove_session(s)
         \/ \E state \in {"WaitForResponse", "Failed"} : update_state(s, state)
         \/ \E m \in KexMessages : check_and_add_message(s, m)
         \/ set_ex(s) \/ set_fails(s)
    \/ MomentPasses

-----------------------------------------------------------------------------
(* Properties.                                                             *)

\* A message is taken for new a second time only once it is old, once the
\* history has dropped it for newer ones, or when two calls overlapped and one
\* of them lost what the other wrote.
ReplaysCaught == ~replayed

\* No sequence of writes, overlapping or not, keeps a session, and the secret it
\* ends with, beyond its time by more than the part of a second that save_session
\* rounds off and the time its last write was on its way: the exchange of a session
\* ends, however often it is written.
SessionsEnd ==
    shared # Missing => moment < shared.created + SessionTtl * PerSecond + (PerSecond - 1) + delay

\* The session in Redis is what one server at a time would have made of it.
KexSessionsSound == ReplaysCaught /\ SessionsEnd

=============================================================================
