---------------------------- MODULE WormAuditLog ----------------------------
(***************************************************************************)
(* The WORM audit log of crates/kms-audit: WormSignedAuditLogger           *)
(* (worm_logger.rs), the WormWriter it writes through (worm_writer.rs) and *)
(* what IntegrityVerifier (verifier.rs) says of the files.                 *)
(*                                                                         *)
(* A call of log takes five locks one after the other: it takes a sequence *)
(* number, reads the previous signature, replaces it by its own, has the   *)
(* writer append the entry and pushes it on a buffer that is flushed when  *)
(* it is full.  The writer, before it appends, may close the current file, *)
(* make it read-only and forget its path, three critical sections more.    *)
(* The model has one action per critical section and any number of callers *)
(* between them.  The HMAC is ideal: events carry fresh ids, so a          *)
(* signature is the number of the entry in signing order (0 is None).  A   *)
(* file is named after the second it is created in.                        *)
(***************************************************************************)
EXTENDS Integers, Sequences, FiniteSets, SequencesExt

CONSTANTS
    Callers,
    RotationAge,    \* seconds without a write after which a file is rotated
    BufferSize,     \* base.buffer_size
    MaxTime,        \* bound: the clock stops here
    MaxEvents,      \* bound: entries signed
    MaxLives,       \* bound: starts of the process
    MaxFailures     \* bound: failing writes

ASSUME ConstantsAssumption ==
    /\ RotationAge \in Nat \ {0}
    /\ BufferSize \in Nat \ {0}
    /\ {MaxTime, MaxEvents, MaxLives, MaxFailures} \subseteq Nat

VARIABLES
    current_sequence,
    previous_signature,
    current_file,       \* the open file, 0 if none
    current_path,       \* its path, 0 if empty
    hash_chain,         \* the entries the running hash covers
    buffer,             \* signatures waiting for the next flush
    output,             \* signatures written to the non-WORM output
    calls,              \* caller -> where it is and what it holds
    files,              \* the directory: second of creation -> file
    now,
    signed,             \* entries signed so far
    life,               \* how often the process was started
    failures,
    written,            \* signatures in the order they were written (history)
    overlapped,         \* lives with two calls of log at once (history)
    lossy               \* lives in which a write failed (history)

logger == <<current_sequence, previous_signature, signed>>
writer == <<current_file, current_path, hash_chain, files, written>>
sink == <<buffer, output>>
faults == <<failures, lossy>>
vars == <<logger, writer, sink, calls, now, life, faults, overlapped>>

-----------------------------------------------------------------------------

Signatures == 0..MaxEvents
Entry == [signature : Signatures, sequence : 0..MaxEvents, previous : Signatures]

\* A line that does not parse: what a torn write leaves.
Garbage == [signature |-> 0, sequence |-> 0, previous |-> 0]

\* The steps of a call of log up to the end of append, then those of flush.
Logging == {"previous", "sign", "rotate", "close", "freeze", "forget", "append"}
Flushing == {"drain", "emit"}

Idle == [at |-> "idle", entry |-> Garbage, batch |-> <<>>]
Goto(c, at) == calls' = [calls EXCEPT ![c].at = at]
Return(c) == calls' = [calls EXCEPT ![c] = Idle]

Init ==
    /\ current_sequence = 0
    /\ previous_signature = 0
    /\ current_file = 0
    /\ current_path = 0
    /\ hash_chain = <<>>
    /\ buffer = <<>>
    /\ output = <<>>
    /\ calls = [c \in Callers |-> Idle]
    /\ files = [t \in {} |-> 0]
    /\ now = 1
    /\ signed = 0
    /\ life = 1
    /\ failures = 0
    /\ written = <<>>
    /\ overlapped = {}
    /\ lossy = {}

-----------------------------------------------------------------------------
(* WormSignedAuditLogger::log                                              *)

take_sequence(c) ==
    /\ calls[c].at = "idle"
    /\ signed + Cardinality({d \in Callers : calls[d].at \in {"previous", "sign"}}) < MaxEvents
    /\ current_sequence' = current_sequence + 1
    /\ calls' = [calls EXCEPT ![c].at = "previous", ![c].entry.sequence = current_sequence]
    /\ overlapped' = IF \E d \in Callers : calls[d].at \in Logging
                     THEN overlapped \cup {life} ELSE overlapped
    /\ UNCHANGED <<previous_signature, signed, writer, sink, now, life, faults>>

read_previous(c) ==
    /\ calls[c].at = "previous"
    /\ calls' = [calls EXCEPT ![c].at = "sign", ![c].entry.previous = previous_signature]
    /\ UNCHANGED <<logger, writer, sink, now, life, faults, overlapped>>

NewHead(s) == s

\* SignedAuditEntry::new, and the new head of the chain.
set_previous(c) ==
    /\ calls[c].at = "sign"
    /\ signed' = signed + 1
    /\ previous_signature' = NewHead(signed')
    /\ calls' = [calls EXCEPT ![c].at = "rotate", ![c].entry.signature = signed']
    /\ UNCHANGED <<current_sequence, writer, sink, now, life, faults, overlapped>>

-----------------------------------------------------------------------------
(* WormWriter::append                                                      *)

\* The age is a difference of instants, the model's clock counts seconds: a
\* difference of RotationAge ticks may be more or less than the real age.
MayBeOlder(t) == now - files[t].mtime >= RotationAge
MayBeYounger(t) == now - files[t].mtime <= RotationAge

maybe_rotate(c) ==
    /\ calls[c].at = "rotate"
    /\ \/ current_path = 0 /\ Goto(c, "append")
       \/ current_path # 0 /\ MayBeYounger(current_path) /\ Goto(c, "append")
       \/ current_path # 0 /\ MayBeOlder(current_path) /\ Goto(c, "close")
    /\ UNCHANGED <<logger, writer, sink, now, life, faults, overlapped>>

rotate_close(c) ==
    /\ calls[c].at = "close"
    /\ current_file' = 0
    /\ Goto(c, "freeze")
    /\ UNCHANGED <<logger, current_path, hash_chain, files, written, sink, now, life, faults, overlapped>>

Sealed(t) == IF t = 0 THEN files ELSE [files EXCEPT ![t].frozen = TRUE]

rotate_freeze(c) ==
    /\ calls[c].at = "freeze"
    /\ files' = Sealed(current_path)
    /\ Goto(c, "forget")
    /\ UNCHANGED <<logger, current_file, current_path, hash_chain, written, sink, now, life, faults, overlapped>>

rotate_forget(c) ==
    /\ calls[c].at = "forget"
    /\ current_path' = 0
    /\ Goto(c, "append")
    /\ UNCHANGED <<logger, current_file, hash_chain, files, written, sink, now, life, faults, overlapped>>

NewFile == [lines |-> <<>>, partial |-> FALSE, mtime |-> now, frozen |-> FALSE, life |-> life]

\* create_new: a file of this second that exists already is an error.
CanCreate_Reuse == TRUE    \* mutant: create instead of create_new
CanCreate == now \notin DOMAIN files

Directory == IF now \in DOMAIN files THEN files
             ELSE [t \in DOMAIN files \cup {now} |-> IF t = now THEN NewFile ELSE files[t]]

\* What write_all leaves: a line, with or without its end, that joins a line
\* without end into one that does not parse.
Put(f, line, ended) ==
    [f EXCEPT !.lines = IF f.partial THEN [@ EXCEPT ![Len(@)] = Garbage] ELSE Append(@, line),
              !.partial = ~ended,
              !.mtime = now]

\* The outcomes of writing entry e to file t of directory d: all done; synced
\* with an error; the newline missing; the line torn; nothing.
Outcomes(d, t, e) ==
    [done |-> [d EXCEPT ![t] = Put(@, e, TRUE)],
     unsynced |-> [d EXCEPT ![t] = Put(@, e, TRUE)],
     unended |-> [d EXCEPT ![t] = Put(@, e, FALSE)],
     torn |-> [d EXCEPT ![t] = Put(@, Garbage, FALSE)],
     nothing |-> d]

Fail == failures < MaxFailures /\ failures' = failures + 1 /\ lossy' = lossy \cup {life}

Covered_Any(how) == TRUE    \* mutant: the hash is updated before the write
Covered(how) == how = "done"

\* The write, into file t of directory d; t is the open file from now on.
write(c, d, t) ==
    LET e == calls[c].entry IN
    \E how \in {"done", "unsynced", "unended", "torn", "nothing"} :
        /\ files' = Outcomes(d, t, e)[how]
        /\ written' = IF how \in {"torn", "nothing"} THEN written
                      ELSE Append(written, e.signature)
        /\ hash_chain' = IF Covered(how) THEN Append(hash_chain, e.signature) ELSE hash_chain
        /\ IF how = "done" THEN UNCHANGED faults ELSE Fail

append_open(c) ==
    /\ calls[c].at = "append"
    /\ current_file # 0
    /\ write(c, files, current_file)
    /\ Goto(c, "push")
    /\ UNCHANGED <<logger, current_file, current_path, sink, now, life, overlapped>>

append_new(c) ==
    /\ calls[c].at = "append"
    /\ current_file = 0
    /\ CanCreate
    /\ current_path' = now
    /\ \/ current_file' = now /\ write(c, Directory, now)
       \/ current_file' = 0 /\ files' = Directory /\ Fail /\ UNCHANGED <<hash_chain, written>>
    /\ Goto(c, "push")
    /\ UNCHANGED <<logger, sink, now, life, overlapped>>

\* open_new_file fails, with or without a file of this second: the entry is not
\* written, and log goes on.
append_refused(c) ==
    /\ calls[c].at = "append"
    /\ current_file = 0
    /\ \/ ~CanCreate /\ files' = files /\ lossy' = lossy \cup {life} /\ UNCHANGED failures
       \/ CanCreate /\ files' \in {files, Directory} /\ Fail
    /\ Goto(c, "push")
    /\ UNCHANGED <<logger, current_file, current_path, hash_chain, written, sink, now, life, overlapped>>

-----------------------------------------------------------------------------
(* The buffer and flush                                                    *)

push(c) ==
    /\ calls[c].at = "push"
    /\ buffer' = Append(buffer, calls[c].entry.signature)
    /\ IF Len(buffer') >= BufferSize THEN Goto(c, "drain") ELSE Return(c)
    /\ UNCHANGED <<logger, writer, output, now, life, faults, overlapped>>

\* flush, which only log calls.
Drained_Not == buffer    \* mutant: iter instead of drain
Drained == <<>>

flush_drain(c) ==
    /\ calls[c].at = "drain"
    /\ IF buffer = <<>> THEN Return(c)
       ELSE calls' = [calls EXCEPT ![c].at = "emit", ![c].batch = buffer]
    /\ buffer' = Drained
    /\ UNCHANGED <<logger, writer, output, now, life, faults, overlapped>>

\* The batch goes out line by line; errors of the output are ignored, and any
\* line may be lost to one.
flush_emit(c) ==
    LET batch == calls[c].batch IN
    /\ calls[c].at = "emit"
    /\ \/ output' = output \o batch /\ UNCHANGED faults
       \/ /\ \E kept \in SUBSET ToSet(batch) :
                output' = output \o SelectSeq(batch, LAMBDA s : s \in kept)
          /\ Fail
    /\ Return(c)
    /\ UNCHANGED <<logger, writer, buffer, now, life, overlapped>>

-----------------------------------------------------------------------------

Tick ==
    /\ now < MaxTime
    /\ now' = now + 1
    /\ UNCHANGED <<logger, writer, sink, calls, life, faults, overlapped>>

\* WormSignedAuditLogger::new after a stop at any moment: only the files and
\* the output stay.  A stop in the middle of a write is one after a failure.
Restart ==
    /\ life < MaxLives
    /\ life' = life + 1
    /\ current_sequence' = 0
    /\ previous_signature' = 0
    /\ current_file' = 0
    /\ current_path' = 0
    /\ hash_chain' = <<>>
    /\ buffer' = <<>>
    /\ calls' = [c \in Callers |-> Idle]
    /\ UNCHANGED <<signed, files, written, output, now, faults, overlapped>>

Next ==
    \/ \E c \in Callers :
          \/ take_sequence(c) \/ read_previous(c) \/ set_previous(c)
          \/ maybe_rotate(c) \/ rotate_close(c) \/ rotate_freeze(c) \/ rotate_forget(c)
          \/ append_open(c) \/ append_new(c) \/ append_refused(c)
          \/ push(c) \/ flush_drain(c) \/ flush_emit(c)
    \/ Tick
    \/ Restart

Spec == Init /\ [][Next]_vars

-----------------------------------------------------------------------------
(* What is read back                                                       *)

\* mutant: only parses
verify_content_ParseOnly(lines) == \A i \in DOMAIN lines : lines[i] # Garbage

\* IntegrityVerifier::verify_content: every line parses, and every line but
\* the first names the signature of the line before.
verify_content(lines) ==
    /\ \A i \in DOMAIN lines : lines[i] # Garbage
    /\ \A i \in DOMAIN lines : i > 1 => lines[i].previous = lines[i - 1].signature

InNameOrder_Reversed(T) == SetToSortSeq(T, >)    \* mutant: the directory's order
InNameOrder(T) == SetToSortSeq(T, <)

\* WormWriter::read_all_entries: the files in the order of their names, without
\* the lines that do not parse.
read_all_entries ==
    LET names == InNameOrder(DOMAIN files)
        readable(t) == SelectSeq(files[t].lines, LAMBDA e : e # Garbage)
    IN  FlattenSeq([i \in DOMAIN names |-> readable(names[i])])

-----------------------------------------------------------------------------

File == [lines : Seq(Entry), partial : BOOLEAN, mtime : 1..MaxTime, frozen : BOOLEAN, life : 1..MaxLives]

\* The logger, the writer, the calls in flight and the directory have the
\* shapes their declarations give them.
TypeOK ==
    /\ current_sequence \in 0..MaxEvents
    /\ previous_signature \in Signatures
    /\ {current_file, current_path} \subseteq DOMAIN files \cup {0}
    /\ hash_chain \in Seq(Signatures)
    /\ buffer \in Seq(Signatures)
    /\ output \in Seq(Signatures)
    /\ calls \in [Callers -> [at : Logging \cup Flushing \cup {"idle", "push"},
                              entry : Entry, batch : Seq(Signatures)]]
    /\ DOMAIN files \subseteq 1..MaxTime
    /\ \A t \in DOMAIN files : files[t] \in File
    /\ now \in 1..MaxTime
    /\ signed \in Signatures
    /\ life \in 1..MaxLives
    /\ failures \in 0..MaxFailures
    /\ written \in Seq(Signatures)
    /\ overlapped \cup lossy \subseteq 1..MaxLives

\* The position of a signature in the order of writing.
Written(s) == CHOOSE i \in DOMAIN written : written[i] = s

\* Reading the directory back by file name gives the entries in the order they
\* were written, over rotations, restarts, failed writes and whatever calls
\* overlapped (append holds the lock of the file from opening to the sync, and
\* create_new never takes a name twice).
ReadInOrder ==
    LET r == read_all_entries IN
    \A i, j \in DOMAIN r : i < j => Written(r[i].signature) < Written(r[j].signature)

\* In a life without failures the running hash covers exactly what the files of
\* the life hold, in the order it is read back.  After failures it is still in
\* that order, and misses in the files at most one entry it covers per failure:
\* the one that was joined to a torn line (HashChainState::update is the last
\* thing append does, under the lock of the file).
HashChainMatches ==
    LET mine == FlattenSeq([t \in 1..MaxTime |->
                    IF t \in DOMAIN files /\ files[t].life = life THEN files[t].lines ELSE <<>>])
        held == [i \in DOMAIN mine |-> mine[i].signature]
        Common(q, r) == SelectSeq(q, LAMBDA s : s \in ToSet(r))
    IN  /\ life \notin lossy => hash_chain = held
        /\ Common(hash_chain, held) = Common(held, hash_chain)
        /\ Cardinality(ToSet(hash_chain) \ ToSet(held)) <= failures

\* While no two calls of log overlap and no write fails, the verifier accepts
\* every file at every moment, also after rotations and restarts.
NoFalseAlarm ==
    \A t \in DOMAIN files :
        files[t].life \notin overlapped \cup lossy => verify_content(files[t].lines)

\* A loss inside a file is noticed: where no two calls overlapped, a file that
\* the verifier accepts holds consecutive sequence numbers.
LossDetected ==
    \A t \in DOMAIN files :
        files[t].life \notin overlapped /\ verify_content(files[t].lines) =>
            \A i \in DOMAIN files[t].lines :
                i > 1 => files[t].lines[i].sequence = files[t].lines[i - 1].sequence + 1

\* The verifier's verdict can be trusted both ways.
VerdictSound == NoFalseAlarm /\ LossDetected

\* How often a signature is waiting in the buffer, held by a flush, or emitted.
Held(s) ==
    LET count(q) == Cardinality({i \in DOMAIN q : q[i] = s})
        flushing == {x \in Callers \X (1..MaxEvents) :
                        x[2] \in DOMAIN calls[x[1]].batch /\ calls[x[1]].batch[x[2]] = s}
    IN  count(buffer) + count(output) + Cardinality(flushing)

\* No entry is flushed twice, and while nothing fails and the process does not
\* stop none that log has pushed is missing from buffer, flushes and output.
EmittedOnce ==
    /\ \A s \in 1..signed : Held(s) <= 1
    /\ life = 1 /\ life \notin lossy =>
           \A s \in 1..signed :
               Held(s) = 1 \/ \E c \in Callers : calls[c].entry.signature = s

\* Neither the files nor the output repeat or reorder what was logged.
OrderKept == ReadInOrder /\ EmittedOnce

\* For TLC: callers are interchangeable.
Symmetry == Permutations(Callers)

=============================================================================
