--------------------------- MODULE AuditDelivery ---------------------------
(***************************************************************************)
(* From an audit event to the log: the buffered, the signed and the        *)
(* timestamped logger (kms-audit/src/logger.rs), the client of the         *)
(* timestamping authority (timestamp.rs), the verifier of a signed log     *)
(* (verifier.rs) and the archive (s3_archive.rs).                          *)
(* Events are 1, 2, ...; an HMAC is named by the event it signs and the    *)
(* key it was made with.  0 is the signature before the first entry.       *)
(***************************************************************************)
EXTENDS Integers, Sequences, FiniteSets, SequencesExt

CONSTANTS
    LoggerKinds,        \* those that are configured: subset of {"plain", "signed", "timestamped"}
    LogCallers,         \* tasks that log
    MaxEvents,          \* bound: events logged
    BufferSize,         \* AuditConfig::buffer_size
    TsaEndpoints,       \* number of endpoints configured, the primary first
    TsaAnswers,         \* what an endpoint may answer, some of Replies
    MaxPolls,           \* bound: rounds of the TSA task
    MaxAuditFaults,     \* bound: times the process ends, lines or files that cannot be written
    ArchivedKinds,      \* loggers whose files are archived
    MaxUploads          \* bound: uploads to the archive

ASSUME DeliveryAssumption == BufferSize \in Nat \ {0} /\ LoggerKinds \subseteq {"plain", "signed", "timestamped"}

VARIABLES
    logger,     \* [kind, kafka, key, keyFile]: how the process was started
    buffer,     \* entries not yet flushed
    chain,      \* [sequence, previous]: current_sequence and previous_signature
    calls,      \* where each task is: [at, entry, batch]
    lines,      \* the log file, standard output and the Kafka topic
    lost,       \* events that went nowhere (history)
    tsa,        \* [asked, head, current, requests, successes, failures, polls, granted]
    archive,    \* contents of uploaded files, with the age of the local one
    used        \* [faults, events, stopped]: what was used up of the bounds

deliveryVars == <<logger, buffer, chain, calls, lines, lost, tsa, archive, used>>

NoEntry == [at |-> "idle", entry |-> <<>>, batch |-> <<>>]
NewChain == [sequence |-> 0, previous |-> 0]
NewTsa == [asked |-> FALSE, head |-> 0, current |-> <<>>, requests |-> 0, successes |-> 0, failures |-> 0,
           polls |-> 0, granted |-> FALSE]

-----------------------------------------------------------------------------
(* Starting and stopping                                                   *)

\* from_env_or_ephemeral: a key file is read, or created if there is none; one
\* that is too short, or cannot be read, gives a key for this process only.
\* (The server itself always starts the signed logger with such a key.)
load_or_create_key_file(keyFile) == IF keyFile = "absent" THEN "good" ELSE keyFile
SigningKey(keyFile, generated) == IF load_or_create_key_file(keyFile) = "good" THEN 1 ELSE generated

DeliveryInit ==
    /\ logger \in {[kind |-> k, kafka |-> k # "timestamped", key |-> 2, keyFile |-> "unset"] : k \in LoggerKinds}
                  \cup {[kind |-> k, kafka |-> FALSE, key |-> SigningKey(f, 2), keyFile |-> load_or_create_key_file(f)] :
                           k \in LoggerKinds \cap {"signed"}, f \in {"absent", "good", "short"}}
    /\ buffer = <<>> /\ chain = NewChain /\ tsa = NewTsa /\ lost = {}
    /\ calls = [c \in LogCallers |-> NoEntry]
    /\ lines = [file |-> <<>>, stdout |-> <<>>, topic |-> <<>>]
    /\ archive = [copies |-> {}, uploads |-> 0, age |-> 0]
    /\ used = [faults |-> 0, events |-> 0, stopped |-> FALSE]

InFlight(c) == {e.event : e \in ToSet(calls[c].batch) \cup (IF calls[c].entry = <<>> THEN {} ELSE {calls[c].entry})}

\* Nothing flushes the buffer when the process ends, in order or not.
StopLogging ==
    /\ used.faults < MaxAuditFaults
    /\ used' = [used EXCEPT !.faults = @ + 1, !.stopped = TRUE]
    /\ lost' = lost \cup {e.event : e \in ToSet(buffer)} \cup UNION {InFlight(c) : c \in LogCallers}
    /\ logger' = [logger EXCEPT !.key = SigningKey(logger.keyFile, @ + 1)]
    /\ buffer' = <<>> /\ chain' = NewChain /\ calls' = [c \in LogCallers |-> NoEntry]
    /\ tsa' = [NewTsa EXCEPT !.polls = tsa.polls]
    /\ UNCHANGED <<lines, archive>>

-----------------------------------------------------------------------------
(* Logging                                                                 *)

AuditFault == used.faults < MaxAuditFaults /\ used' = [used EXCEPT !.faults = @ + 1]
Move(c, at) == calls' = [calls EXCEPT ![c].at = at]

\* A call that makes the buffer full flushes it before it returns.
Push(c, entry) ==
    /\ buffer' = Append(buffer, entry)
    /\ calls' = [calls EXCEPT ![c] = [NoEntry EXCEPT !.at = IF Len(buffer) + 1 >= BufferSize THEN "flush" ELSE "idle"]]

NewEntry(e, sequence) == [event |-> e, sequence |-> sequence, previous |-> 0, key |-> logger.key, stamp |-> <<>>]

\* AuditLogger::log
log(c) ==
    /\ logger.kind = "plain" /\ calls[c] = NoEntry /\ used.events < MaxEvents
    /\ used' = [used EXCEPT !.events = @ + 1]
    /\ Push(c, NewEntry(used.events + 1, 0))
    /\ UNCHANGED <<logger, chain, lines, lost, tsa, archive>>

\* SignedAuditLogger::log and TimestampedAuditLogger::log hold one lock at a
\* time: for the sequence number, for the previous signature, (for the current
\* timestamp,) to store the new signature, for the buffer.
TakeSequence(c) ==
    /\ logger.kind # "plain" /\ calls[c] = NoEntry /\ used.events < MaxEvents
    /\ used' = [used EXCEPT !.events = @ + 1]
    /\ chain' = [chain EXCEPT !.sequence = @ + 1]
    /\ calls' = [calls EXCEPT ![c] = [NoEntry EXCEPT !.at = "link", !.entry = NewEntry(used.events + 1, chain.sequence)]]
    /\ UNCHANGED <<logger, buffer, lines, lost, tsa, archive>>

ReadPrevious(c) ==
    /\ calls[c].at = "link"
    /\ calls' = [calls EXCEPT ![c].entry.previous = chain.previous,
                              ![c].at = IF logger.kind = "timestamped" THEN "stamp" ELSE "sign"]
    /\ UNCHANGED <<logger, buffer, chain, lines, lost, tsa, archive, used>>

ReadTimestamp(c) ==
    /\ calls[c].at = "stamp"
    /\ calls' = [calls EXCEPT ![c].entry.stamp = tsa.current, ![c].at = "sign"]
    /\ UNCHANGED <<logger, buffer, chain, lines, lost, tsa, archive, used>>

StoreSignature(c) ==
    /\ calls[c].at = "sign"
    /\ chain' = [chain EXCEPT !.previous = calls[c].entry.event]
    /\ Move(c, "push")
    /\ UNCHANGED <<logger, buffer, lines, lost, tsa, archive, used>>

PushSigned(c) ==
    /\ calls[c].at = "push"
    /\ Push(c, calls[c].entry)
    /\ UNCHANGED <<logger, chain, lines, lost, tsa, archive, used>>

\* What drain leaves in the buffer.
Drained_Kept == buffer                  \* mutant: the buffer is copied, not drained
Drained == <<>>

\* flush: the buffer is emptied under its lock, then the file is opened for
\* appending; if it cannot be, standard output is used.
flush(c) ==
    /\ calls[c].at = "flush"
    /\ \/ /\ calls' = [calls EXCEPT ![c] = IF buffer = <<>> THEN NoEntry ELSE [@ EXCEPT !.batch = buffer, !.at = "file"]]
          /\ UNCHANGED used
       \/ /\ buffer # <<>> /\ AuditFault
          /\ calls' = [calls EXCEPT ![c].batch = buffer, ![c].at = "stdout"]
    /\ buffer' = Drained
    /\ UNCHANGED <<logger, chain, lines, lost, tsa, archive>>

\* One line after the other; a line that cannot be written is dropped.  Two
\* flushes interleave in the file.  The timestamped logger never sends to Kafka.
WriteLine(c) ==
    /\ calls[c].at \in {"file", "stdout"}
    /\ LET e == Head(calls[c].batch)
           rest == Tail(calls[c].batch)
           to == calls[c].at
           toKafka(l) == IF logger.kafka /\ logger.kind # "timestamped"
                         THEN {[l EXCEPT !.topic = Append(@, e)], l} ELSE {l}
       IN  /\ \/ /\ lines' \in toKafka([lines EXCEPT ![to] = Append(@, e)])
                 /\ UNCHANGED <<lost, used>>
              \/ /\ AuditFault
                 /\ lines' \in toKafka(lines)
                 /\ lost' = lost \cup {e.event}
           /\ archive' = IF to = "file" THEN [archive EXCEPT !.age = 0] ELSE archive
           /\ calls' = [calls EXCEPT ![c] = IF rest = <<>> THEN NoEntry ELSE [@ EXCEPT !.batch = rest]]
    /\ UNCHANGED <<logger, buffer, chain, tsa>>

\* query sees what is still in the buffer only: the places of what it returns.
query(wanted) == {i \in 1 .. Len(buffer) : buffer[i].event \in wanted}
backlog_depth == Len(buffer)

-----------------------------------------------------------------------------
(* The timestamping authority.  An answer is [http, header, status, token, *)
(* right, inTime]; header is the length of the outer DER header, and the   *)
(* status is encoded in five bytes before the token.                       *)

\* A good answer, one with a short header, none, a refusal, a late one.
Reply == [http |-> "ok", header |-> 4, status |-> 0, token |-> TRUE, right |-> TRUE, inTime |-> TRUE]
Replies ==
    {Reply, [Reply EXCEPT !.header = 2], [Reply EXCEPT !.http = "down"],
     [Reply EXCEPT !.status = 2], [Reply EXCEPT !.inTime = FALSE]}

get_chain_head == chain.previous

Tag == 48       \* SEQUENCE
Response(a, digest) ==
    [i \in 1 .. a.header |-> IF i = 1 THEN Tag ELSE 130] \o <<Tag, 3, 2, 1, a.status>>
        \o (IF a.token THEN <<Tag, 2, IF a.right THEN digest ELSE 99, IF a.inTime THEN 1 ELSE 0>> ELSE <<>>)

Granted(content) == content[5] \in {0, 1}
\* The token's positions are counted from the start of the content of the outer
\* sequence, the bytes are taken from the start of the response.
RawToken(response, start, end) == SubSeq(response, start + 1, end)

parse_timestamp_response(response, header, digest) ==
    LET content == SubSeq(response, header + 1, Len(response))
        start == 5
        token == SubSeq(content, start + 1, Len(content))
    IN  IF ~Granted(content) \/ token = <<>> THEN <<>>
        ELSE IF token[3] # digest THEN <<>>
        ELSE <<[token |-> RawToken(response, start, start + Len(token)), inTime |-> token[4] = 1]>>

request_timestamp_internal(a, digest) ==
    IF a.http # "ok" THEN <<>> ELSE parse_timestamp_response(Response(a, digest), a.header, digest)

\* The primary endpoint, then all of them, the primary again first.
request_timestamp_with_failover(answers, digest) ==
    LET parsed == [n \in 1 .. TsaEndpoints + 1 |-> request_timestamp_internal(answers[n], digest)]
        good == {n \in 1 .. TsaEndpoints + 1 : parsed[n] # <<>>}
    IN  IF good = {} THEN <<>> ELSE parsed[CHOOSE n \in good : \A m \in good : n <= m]

\* Whether the token can be read; what it says of the digest is not used.
verify_digest_in_token(token) == token[1] = Tag
verify_timestamp(r) == verify_digest_in_token(r.token) /\ r.inTime

TsaTick ==
    /\ logger.kind = "timestamped" /\ ~tsa.asked /\ tsa.polls < MaxPolls
    /\ tsa' = [tsa EXCEPT !.asked = TRUE, !.head = get_chain_head, !.requests = @ + 1, !.polls = @ + 1]
    /\ UNCHANGED <<logger, buffer, chain, calls, lines, lost, archive, used>>

\* The first usable answer becomes the current timestamp if it verifies; any
\* failure clears the one there was.
TsaAnswer ==
    /\ tsa.asked
    /\ \E answers \in [1 .. TsaEndpoints + 1 -> TsaAnswers] :
         LET r == request_timestamp_with_failover(answers, tsa.head)
             ok == r # <<>> /\ verify_timestamp(r[1])
         IN  tsa' = [tsa EXCEPT !.asked = FALSE, !.granted = r # <<>> /\ r[1].inTime,
                                !.current = IF ok THEN <<tsa.head>> ELSE <<>>,
                                !.successes = @ + (IF ok THEN 1 ELSE 0), !.failures = @ + (IF ok THEN 0 ELSE 1)]
    /\ UNCHANGED <<logger, buffer, chain, calls, lines, lost, archive, used>>

-----------------------------------------------------------------------------
(* The archive                                                             *)

\* age of the log file: 0 within the hour, 1 over an hour, 2 past the retention.
FileAges == archive.age < 2 /\ lines.file # <<>> /\ logger.kind \in ArchivedKinds
            /\ archive' = [archive EXCEPT !.age = @ + 1]
            /\ UNCHANGED <<logger, buffer, chain, calls, lines, lost, tsa, used>>

\* Every file over an hour old is uploaded, again at every call; a failed upload
\* is only logged.
archive_completed_files ==
    /\ archive.age > 0 /\ archive.uploads < MaxUploads
    /\ \/ archive' = [archive EXCEPT !.copies = @ \cup {lines.file}, !.uploads = @ + 1]
       \/ archive' = [archive EXCEPT !.uploads = @ + 1]
    /\ UNCHANGED <<logger, buffer, chain, calls, lines, lost, tsa, used>>

Archived(e) == \E copy \in archive.copies : e \in ToSet(copy)

\* By age alone, whether the upload succeeded or not.
cleanup_old_files ==
    /\ archive.age = 2
    /\ lost' = lost \cup {e.event : e \in {f \in ToSet(lines.file) : ~Archived(f)}}
    /\ lines' = [lines EXCEPT !.file = <<>>]
    /\ archive' = [archive EXCEPT !.age = 0]
    /\ UNCHANGED <<logger, buffer, chain, calls, tsa, used>>

DeliveryNext ==
    \/ \E c \in LogCallers :
          \/ log(c) \/ TakeSequence(c) \/ ReadPrevious(c) \/ ReadTimestamp(c) \/ StoreSignature(c) \/ PushSigned(c)
          \/ flush(c) \/ WriteLine(c)
    \/ StopLogging \/ TsaTick \/ TsaAnswer \/ FileAges \/ archive_completed_files \/ cleanup_old_files

DeliverySpec == DeliveryInit /\ [][DeliveryNext]_deliveryVars

-----------------------------------------------------------------------------
(* Verification of a signed log                                            *)

verify_content(key, content) ==
    \A i \in 1 .. Len(content) : /\ content[i].key = key
                                 /\ i > 1 => content[i].previous = content[i - 1].event

-----------------------------------------------------------------------------
(* Properties.                                                             *)

Count(seq, e) == Cardinality({i \in 1 .. Len(seq) : seq[i].event = e})
Places(e) == Cardinality(query({e})) + Count(lines.file, e) + Count(lines.stdout, e)
             + Cardinality({c \in LogCallers : e \in InFlight(c)})

\* Every event that was ever logged is in one place - with its caller, in the
\* buffer, in a batch that is being written, in the file or on standard output -
\* or in the archive, or else was lost to the end of the process, to a failing
\* write or to cleanup_old_files: concurrent calls and flushes neither drop an
\* event nor write it twice.
Conserved ==
    \A e \in 1 .. used.events :
        /\ Places(e) <= 1
        /\ Places(e) = 0 => e \in lost \/ \E copy \in archive.copies : Count(copy, e) = 1
        /\ Count(lines.topic, e) <= 1

\* A full buffer never waits: some caller is about to flush it.
FullIsFlushed == backlog_depth >= BufferSize => \E c \in LogCallers : calls[c].at = "flush"

\* The entries of one process have distinct sequence numbers, in the file as in
\* the archive, however the calls interleave.  (Under a key file the numbers
\* start again at 0 with the same key.)
Numbered ==
    logger.kind # "plain" =>
        \A content \in archive.copies \cup {lines.file} : \A i, j \in 1 .. Len(content) :
            i < j /\ content[i].key = content[j].key /\ logger.keyFile # "good" =>
                content[i].sequence # content[j].sequence

\* Each round of the TSA task counts once, as a success or a failure.
TsaCounted == tsa.requests = tsa.successes + tsa.failures + (IF tsa.asked THEN 1 ELSE 0)

\* Nothing that was logged gets lost, doubled or stuck on its way, and the rounds
\* with the timestamping authority are accounted for.
AuditSound == Conserved /\ FullIsFlushed /\ Numbered /\ TsaCounted

\* "Signed audit logger that provides tamper-evident audit trail" (logger.rs): the
\* log of one process, that nobody touched, verifies.
UntouchedLogVerifies ==
    logger.kind # "plain" /\ ~used.stopped => verify_content(logger.key, lines.file)

\* "Background task: periodically requests TSA timestamps for the hash chain
\* head, updating the shared TrustedTimestamp" (logger.rs): a timestamp that was
\* granted for the head, in time, becomes the current one.
GrantedTimestampKept == ~tsa.asked /\ tsa.granted => tsa.current # <<>>

=============================================================================
