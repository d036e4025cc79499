------------------------- MODULE WormAuditLog_proofs -------------------------
(***************************************************************************)
(* Proofs about WormAuditLog, for any number of callers, events, restarts  *)
(* and failures: the verdict of the verifier can be trusted both ways.     *)
(***************************************************************************)
EXTENDS WormAuditLog, SequenceTheorems, TLAPS

-----------------------------------------------------------------------------
(* The inductive invariant.  In a life in which no two calls of log        *)
(* overlapped, the entry with sequence number n is the (n+1)-th signature  *)
(* of that life and names the n-th: sequence numbers, signatures and       *)
(* previous signatures run in step from where the life began.              *)

NumberedEntry == [signature : Nat, sequence : Nat, previous : Nat]

\* e is an entry of a life that began when b entries were signed.
InStep(e, b) ==
    /\ e.signature = e.sequence + 1 + b
    /\ e.previous = IF e.sequence = 0 THEN 0 ELSE e.signature - 1

Unsigned == \E d \in Callers : calls[d].at \in {"previous", "sign"}
Pending == \E d \in Callers : calls[d].at \in Logging

\* Entries signed in this life, and before it.
OfThisLife == current_sequence - (IF Unsigned THEN 1 ELSE 0)
Base == signed - OfThisLife

FileShape == [lines : Seq(NumberedEntry), partial : BOOLEAN, mtime : Int, frozen : BOOLEAN, life : Nat]
CallShape == [at : Logging \cup Flushing \cup {"idle", "push"}, entry : NumberedEntry, batch : Seq(Nat)]

Shape ==
    /\ current_sequence \in Nat /\ previous_signature \in Nat /\ signed \in Nat /\ life \in Nat
    /\ \A t \in DOMAIN files : files[t] \in FileShape /\ files[t].life <= life
    /\ \A l \in overlapped \cup lossy : l \in Nat /\ l <= life
    /\ calls \in [Callers -> CallShape]
    /\ buffer \in Seq(Nat)
    /\ now \in Nat \ {0}

\* The open file is one of this life.
OpenFile ==
    /\ current_file # 0 => current_file \in DOMAIN files /\ files[current_file].life = life
    /\ current_path # 0 => current_path \in DOMAIN files

\* Where calls do not overlap: one caller at a time is between taking its
\* number and the end of append, and its entry is the newest one.
Single ==
    life \notin overlapped =>
        /\ \A c, d \in Callers : calls[c].at \in Logging /\ calls[d].at \in Logging => c = d
        /\ OfThisLife \in Nat /\ Base \in Nat
        /\ previous_signature = IF OfThisLife = 0 THEN 0 ELSE signed
        /\ \A c \in Callers :
              /\ calls[c].at \in Logging => calls[c].entry.sequence = current_sequence - 1
              /\ calls[c].at = "sign" => calls[c].entry.previous = previous_signature
              /\ calls[c].at \in Logging \ {"previous", "sign"} => InStep(calls[c].entry, Base)

\* What the files hold.
Numbered(t, b) ==
    \A i \in DOMAIN files[t].lines : files[t].lines[i] = Garbage \/ InStep(files[t].lines[i], b)
InStepFiles ==
    \A t \in DOMAIN files :
        files[t].life \notin overlapped =>
            /\ \E b \in Nat : Numbered(t, b)
            /\ files[t].life = life => Numbered(t, Base)

\* A file of a life without failures has no hole, and the open one ends with
\* the entry before the one that is pending.
Complete(t) ==
    /\ ~files[t].partial
    /\ \A i \in DOMAIN files[t].lines : files[t].lines[i] # Garbage
    /\ \A i \in DOMAIN files[t].lines :
          i > 1 => files[t].lines[i].sequence = files[t].lines[i - 1].sequence + 1
CompleteFiles == \A t \in DOMAIN files : files[t].life \notin overlapped \cup lossy => Complete(t)
EndsRight ==
    current_file # 0 /\ life \notin overlapped \cup lossy =>
        LET lines == files[current_file].lines IN
        /\ lines # <<>>
        /\ lines[Len(lines)].sequence = current_sequence - (IF Pending THEN 2 ELSE 1)

IInv == Shape /\ OpenFile /\ Single /\ InStepFiles /\ CompleteFiles /\ EndsRight

-----------------------------------------------------------------------------
(* What is written to a file.                                              *)

\* A torn last line is spoilt by what is written after it.
Spoilt(ls) == [ls EXCEPT ![Len(ls)] = Garbage]

\* Spoiling the last line keeps the sequence and changes no other line.
LEMMA SpoiltLines ==
    ASSUME NEW ls \in Seq(NumberedEntry)
    PROVE  /\ Spoilt(ls) \in Seq(NumberedEntry) /\ DOMAIN Spoilt(ls) = DOMAIN ls
           /\ \A i \in DOMAIN ls : Spoilt(ls)[i] \in {Garbage, ls[i]}
<1>1. Garbage \in NumberedEntry
  BY DEF Garbage, NumberedEntry
<1>2. CASE Len(ls) \in 1..Len(ls)
  BY <1>1, <1>2, ExceptSeq, LenProperties DEF Spoilt
<1>3. CASE Len(ls) = 0
  <2>1. Len(ls) \notin DOMAIN ls
    BY <1>3, LenProperties
  <2>2. Spoilt(ls) = ls
    BY <2>1 DEF Spoilt
  <2>. QED BY <2>2
<1>. QED BY <1>2, <1>3, LenProperties

\* The bytes of one write: a line more, or one that joins a torn one.
LEMMA PutShape ==
    ASSUME NEW f \in FileShape, NEW line \in NumberedEntry, NEW ended \in BOOLEAN, now \in Nat
    PROVE  /\ Put(f, line, ended) \in FileShape
           /\ Put(f, line, ended).life = f.life
           /\ Put(f, line, ended).partial = ~ended
           /\ ~f.partial => Put(f, line, ended).lines = Append(f.lines, line)
           /\ f.partial => Put(f, line, ended).lines = Spoilt(f.lines)
<1>1. f.lines \in Seq(NumberedEntry) /\ f.partial \in BOOLEAN
  BY DEF FileShape
<1>2. PICK ls : ls = IF f.partial THEN Spoilt(f.lines) ELSE Append(f.lines, line)
  OBVIOUS
<1>3. ls \in Seq(NumberedEntry)
  BY <1>1, <1>2, SpoiltLines, AppendProperties
<1>4. Put(f, line, ended) = [f EXCEPT !.lines = ls, !.partial = ~ended, !.mtime = now]
  BY <1>2 DEF Put, Spoilt
<1>5. PICK p : p = ~ended
  OBVIOUS
<1>6. p \in BOOLEAN /\ now \in Int
  BY <1>5
<1>7. PICK g : g = [f EXCEPT !.lines = ls, !.partial = p, !.mtime = now]
  OBVIOUS
<1>8. g \in FileShape
  BY <1>3, <1>6, <1>7 DEF FileShape
<1>9. g.life = f.life /\ g.partial = p /\ g.lines = ls
  BY <1>7 DEF FileShape
<1>10. Put(f, line, ended) = g
  BY <1>4, <1>5, <1>7
<1>. QED BY <1>2, <1>5, <1>8, <1>9, <1>10

\* The lines of a file after a write: those before, perhaps with a spoilt last
\* one, and at most one more.
LEMMA PutLines ==
    ASSUME NEW f \in FileShape, NEW line \in NumberedEntry, NEW ended \in BOOLEAN, now \in Nat
    PROVE  LET old == f.lines
               new == Put(f, line, ended).lines
           IN  /\ \A i \in DOMAIN new : new[i] = Garbage \/ (i \in DOMAIN old /\ new[i] = old[i]) \/ new[i] = line
               /\ ~f.partial => /\ Len(new) = Len(old) + 1
                                /\ new[Len(new)] = line
                                /\ \A i \in DOMAIN old : i \in DOMAIN new /\ new[i] = old[i]
<1>1. f.lines \in Seq(NumberedEntry) /\ f.partial \in BOOLEAN
  BY DEF FileShape
<1>2. CASE f.partial
  BY <1>1, <1>2, PutShape, SpoiltLines
<1>3. CASE ~f.partial
  <2>1. PICK new : new = Put(f, line, ended).lines /\ new = Append(f.lines, line)
    BY <1>3, PutShape
  <2>2. /\ new \in Seq(NumberedEntry) /\ Len(new) = Len(f.lines) + 1
        /\ \A i \in 1..Len(f.lines) : new[i] = f.lines[i]
        /\ new[Len(f.lines) + 1] = line
    BY <1>1, <2>1, AppendProperties
  <2>3. DOMAIN new = 1..(Len(f.lines) + 1) /\ DOMAIN f.lines = 1..Len(f.lines) /\ Len(f.lines) \in Nat
    BY <1>1, <2>2, LenProperties
  <2>. QED BY <1>3, <2>1, <2>2, <2>3
<1>. QED BY <1>1, <1>2, <1>3

-----------------------------------------------------------------------------
(* The calls.                                                              *)

\* Only call c moves.
Frame(c) == \A d \in Callers : d # c => calls'[d] = calls[d]

\* A call that goes on to another step keeps its entry; no other call moves.
LEMMA GotoFrame ==
    ASSUME Shape, NEW c \in Callers, NEW at \in Logging \cup Flushing \cup {"idle", "push"}, Goto(c, at)
    PROVE  /\ Frame(c) /\ calls' \in [Callers -> CallShape]
           /\ calls'[c].at = at /\ calls'[c].entry = calls[c].entry
<1>1. calls \in [Callers -> CallShape]
  BY DEF Shape
<1>. QED BY <1>1 DEF Goto, Frame, CallShape

\* A call that returns is idle; no other call moves.
LEMMA ReturnFrame ==
    ASSUME Shape, NEW c \in Callers, Return(c)
    PROVE  Frame(c) /\ calls' \in [Callers -> CallShape] /\ calls'[c].at = "idle"
<1>1. calls \in [Callers -> CallShape]
  BY DEF Shape
<1>2. Idle \in CallShape /\ Idle.at = "idle"
  BY DEF Idle, CallShape, Garbage, NumberedEntry
<1>. QED BY <1>1, <1>2 DEF Return, Frame

\* A call goes on within append, or stays outside log's chain: what is pending
\* and what is signed stay the same.
LEMMA SingleStays ==
    ASSUME Shape, Single, NEW c \in Callers, Frame(c),
           \/ /\ calls[c].at \in Logging \ {"previous", "sign"}
              /\ calls'[c].at \in Logging \ {"previous", "sign"}
              /\ calls'[c].entry = calls[c].entry
           \/ calls[c].at \notin Logging /\ calls'[c].at \notin Logging,
           UNCHANGED <<logger, life, overlapped>>
    PROVE  Single' /\ (Unsigned' <=> Unsigned) /\ (Pending' <=> Pending) /\ Base' = Base
<1>1. (Unsigned' <=> Unsigned) /\ (Pending' <=> Pending)
  BY DEF Unsigned, Pending, Frame, Logging
<1>2. OfThisLife' = OfThisLife /\ Base' = Base
  BY <1>1 DEF OfThisLife, Base, logger
<1>3. Single'
  BY <1>2 DEF Single, Frame, logger, Logging, InStep
<1>. QED BY <1>1, <1>2, <1>3

\* A call leaves append: nothing is pending any more, if it was alone.
LEMMA SingleAppended ==
    ASSUME Shape, Single, NEW c \in Callers, Frame(c), calls[c].at = "append", calls'[c].at = "push",
           UNCHANGED <<logger, life, overlapped>>
    PROVE  Single' /\ (life \notin overlapped => ~Pending' /\ Pending /\ Base' = Base)
<1>1. life \notin overlapped => ~Unsigned /\ ~Unsigned' /\ Pending /\ ~Pending'
  BY DEF Single, Unsigned, Pending, Frame, Logging
<1>2. life \notin overlapped => OfThisLife' = OfThisLife /\ Base' = Base
  BY <1>1 DEF OfThisLife, Base, logger
<1>3. Single'
  BY <1>2 DEF Single, Frame, logger, Logging, InStep
<1>. QED BY <1>1, <1>2, <1>3

-----------------------------------------------------------------------------
(* The files.                                                              *)

\* Nothing is written, though a file may be created or made read-only.
Unwritten ==
    /\ \A t \in DOMAIN files : t \in DOMAIN files'
    /\ \A t \in DOMAIN files' :
          /\ files'[t] \in FileShape
          /\ \/ /\ t \in DOMAIN files
                /\ files'[t].lines = files[t].lines
                /\ files'[t].partial = files[t].partial
                /\ files'[t].life = files[t].life
             \/ t \notin DOMAIN files /\ files'[t].lines = <<>> /\ ~files'[t].partial /\ files'[t].life = life

\* A step that leaves the directory alone writes nothing.
LEMMA FilesSame ==
    ASSUME Shape, UNCHANGED files
    PROVE  Unwritten
  BY DEF Shape, Unwritten

\* What a step that writes nothing leaves of the files.
LEMMA FilesKept ==
    ASSUME IInv, Unwritten, UNCHANGED life, overlapped \subseteq overlapped', lossy \subseteq lossy',
           life \notin overlapped' => Base' = Base
    PROVE  InStepFiles' /\ CompleteFiles' /\ \A t \in DOMAIN files' : files'[t].life <= life'
<1>1. life \notin overlapped => Base \in Nat
  BY DEF IInv, Single
<1>2. ASSUME NEW t \in DOMAIN files', t \in DOMAIN files
      PROVE  /\ \A b : Numbered(t, b)' <=> Numbered(t, b)
             /\ Complete(t)' <=> Complete(t)
  BY <1>2 DEF Unwritten, Numbered, Complete
<1>3. ASSUME NEW t \in DOMAIN files', t \notin DOMAIN files
      PROVE  (\A b : Numbered(t, b)') /\ Complete(t)' /\ files'[t].life = life
  BY <1>3 DEF Unwritten, Numbered, Complete
<1>4. \A t \in DOMAIN files' : t \in DOMAIN files => files'[t].life = files[t].life
  BY DEF Unwritten
<1>5. InStepFiles'
  <2>. SUFFICES ASSUME NEW t \in DOMAIN files', files'[t].life \notin overlapped'
                PROVE  /\ \E b \in Nat : Numbered(t, b)'
                       /\ files'[t].life = life' => Numbered(t, Base)'
    BY DEF InStepFiles
  <2>1. CASE t \in DOMAIN files
    <3>1. (\E b \in Nat : Numbered(t, b)) /\ (files[t].life = life => Numbered(t, Base))
      BY <1>4, <2>1 DEF IInv, InStepFiles
    <3>2. \E b \in Nat : Numbered(t, b)'
      BY <1>2, <2>1, <3>1
    <3>3. files'[t].life = life' => Numbered(t, Base)'
      BY <1>2, <1>4, <2>1, <3>1 DEF Numbered, Unwritten
    <3>. QED BY <3>2, <3>3
  <2>2. CASE t \notin DOMAIN files
    BY <1>3, <2>2 DEF Numbered
  <2>. QED BY <2>1, <2>2
<1>6. CompleteFiles'
  BY <1>2, <1>3, <1>4 DEF IInv, CompleteFiles
<1>7. \A t \in DOMAIN files' : files'[t].life <= life'
  BY <1>3, <1>4 DEF IInv, Shape
<1>. QED BY <1>5, <1>6, <1>7

\* The directory as open_new_file leaves it: what there is, and perhaps a new
\* empty file of this life.
Opened(D) ==
    /\ DOMAIN files \subseteq DOMAIN D
    /\ \A u \in DOMAIN D :
          \/ u \in DOMAIN files /\ D[u] = files[u]
          \/ u \notin DOMAIN files /\ D[u] \in FileShape /\ D[u].lines = <<>> /\ ~D[u].partial /\ D[u].life = life

\* Creating the file of this second adds an empty one at most.
LEMMA DirectoryOpened ==
    ASSUME Shape
    PROVE  Opened(files) /\ Opened(Directory) /\ now \in DOMAIN Directory
<1>1. NewFile \in FileShape /\ NewFile.lines = <<>> /\ ~NewFile.partial /\ NewFile.life = life
  <2>1. <<>> \in Seq(NumberedEntry) /\ now \in Int /\ life \in Nat
    BY DEF Shape
  <2>. QED BY <2>1 DEF NewFile, FileShape
<1>. QED BY <1>1 DEF Opened, Directory

\* One write: complete, or with an error that is on record.
LEMMA WriteOutcomes ==
    ASSUME Shape, NEW c \in Callers, NEW D, NEW t, write(c, D, t)
    PROVE  \/ files' = [D EXCEPT ![t] = Put(D[t], calls[c].entry, TRUE)] /\ UNCHANGED lossy
           \/ /\ lossy' = lossy \cup {life}
              /\ \/ files' = D
                 \/ \E line \in {calls[c].entry, Garbage}, ended \in BOOLEAN :
                       files' = [D EXCEPT ![t] = Put(D[t], line, ended)]
<1>. DEFINE e == calls[c].entry
<1>1. PICK how \in {"done", "unsynced", "unended", "torn", "nothing"} :
         /\ files' = Outcomes(D, t, e)[how]
         /\ IF how = "done" THEN UNCHANGED faults ELSE Fail
  BY DEF write
<1>2. how = "done" => files' = [D EXCEPT ![t] = Put(D[t], e, TRUE)] /\ UNCHANGED lossy
  BY <1>1 DEF Outcomes, faults
<1>3. how # "done" => lossy' = lossy \cup {life}
  BY <1>1 DEF Fail
<1>4. how = "unsynced" => files' = [D EXCEPT ![t] = Put(D[t], e, TRUE)]
  BY <1>1 DEF Outcomes
<1>5. how = "unended" => files' = [D EXCEPT ![t] = Put(D[t], e, FALSE)]
  BY <1>1 DEF Outcomes
<1>6. how = "torn" => files' = [D EXCEPT ![t] = Put(D[t], Garbage, FALSE)]
  BY <1>1 DEF Outcomes
<1>7. how = "nothing" => files' = D
  BY <1>1 DEF Outcomes
<1>. QED BY <1>1, <1>2, <1>3, <1>4, <1>5, <1>6, <1>7

\* The write of append, into a file that is empty or ends with the entry before
\* the pending one, leaves files that satisfy the invariant.
LEMMA AppendWrites ==
    ASSUME IInv, NEW c \in Callers, calls[c].at = "append", Frame(c), calls'[c].at = "push",
           UNCHANGED <<logger, life, overlapped>>,
           NEW D, Opened(D), NEW t \in DOMAIN D, D[t].life = life,
           life \notin overlapped \cup lossy =>
               D[t].lines = <<>> \/ D[t].lines[Len(D[t].lines)].sequence = current_sequence - 2,
           write(c, D, t), current_file' = t
    PROVE  /\ \A u \in DOMAIN files' : files'[u] \in FileShape /\ files'[u].life <= life
           /\ DOMAIN files' = DOMAIN D /\ files'[t].life = life
           /\ Single' /\ InStepFiles' /\ CompleteFiles' /\ EndsRight'
<1>1. PICK e : e = calls[c].entry
  OBVIOUS
<1>2. e \in NumberedEntry /\ now \in Nat /\ Garbage \in NumberedEntry
  BY <1>1 DEF IInv, Shape, CallShape, Garbage, NumberedEntry
<1>3. \A u \in DOMAIN D : D[u] \in FileShape /\ D[u].life <= life
  BY DEF IInv, Shape, Opened
<1>4. Single' /\ (life \notin overlapped => ~Pending' /\ Pending /\ Base' = Base)
  BY SingleAppended DEF IInv
<1>5. life \notin overlapped => e.sequence = current_sequence - 1 /\ InStep(e, Base) /\ Base \in Nat
  BY <1>1 DEF IInv, Single, Logging
<1>6. life \notin overlapped => e # Garbage
  BY <1>2, <1>5 DEF InStep, NumberedEntry, Garbage
<1>. DEFINE Lines(ls, b) == \A i \in DOMAIN ls : ls[i] = Garbage \/ InStep(ls[i], b)
            Whole(ls) == /\ \A i \in DOMAIN ls : ls[i] # Garbage
                         /\ \A i \in DOMAIN ls : i > 1 => ls[i].sequence = ls[i - 1].sequence + 1
<1>7. \A u \in DOMAIN D : D[u].life \notin overlapped =>
         /\ \E b \in Nat : Lines(D[u].lines, b)
         /\ D[u].life = life => Lines(D[u].lines, Base)
  <2>. SUFFICES ASSUME NEW u \in DOMAIN D, D[u].life \notin overlapped
                PROVE  (\E b \in Nat : Lines(D[u].lines, b)) /\ (D[u].life = life => Lines(D[u].lines, Base))
    OBVIOUS
  <2>1. CASE u \in DOMAIN files /\ D[u] = files[u]
    BY <2>1 DEF IInv, InStepFiles, Numbered
  <2>2. CASE D[u].lines = <<>>
    <3>1. \A b : Lines(D[u].lines, b)
      BY <2>2
    <3>. QED BY <3>1
  <2>. QED BY <2>1, <2>2 DEF Opened
<1>8. \A u \in DOMAIN D : D[u].life \notin overlapped \cup lossy => ~D[u].partial /\ Whole(D[u].lines)
  <2>. SUFFICES ASSUME NEW u \in DOMAIN D, D[u].life \notin overlapped \cup lossy
                PROVE  ~D[u].partial /\ Whole(D[u].lines)
    OBVIOUS
  <2>1. CASE u \in DOMAIN files /\ D[u] = files[u]
    BY <2>1 DEF IInv, CompleteFiles, Complete
  <2>2. CASE D[u].lines = <<>> /\ ~D[u].partial
    BY <2>2
  <2>. QED BY <2>1, <2>2 DEF Opened
<1>9. ASSUME NEW line \in {e, Garbage}, NEW ended \in BOOLEAN,
             files' = [D EXCEPT ![t] = Put(D[t], line, ended)], lossy \subseteq lossy',
             life \notin lossy' => line = e /\ ended = TRUE
      PROVE  /\ \A u \in DOMAIN files' : files'[u] \in FileShape /\ files'[u].life <= life
             /\ DOMAIN files' = DOMAIN D /\ files'[t].life = life
             /\ InStepFiles' /\ CompleteFiles' /\ EndsRight'
  <2>1. PICK g : g = Put(D[t], line, ended)
    OBVIOUS
  <2>2. line \in NumberedEntry /\ D[t] \in FileShape
    BY <1>2, <1>3, <1>9
  <2>3. g \in FileShape /\ g.life = life /\ g.partial = ~ended
    BY <1>2, <2>1, <2>2, PutShape
  <2>4. /\ \A i \in DOMAIN g.lines :
              g.lines[i] = Garbage \/ (i \in DOMAIN D[t].lines /\ g.lines[i] = D[t].lines[i]) \/ g.lines[i] = line
        /\ ~D[t].partial => /\ Len(g.lines) = Len(D[t].lines) + 1
                            /\ g.lines[Len(g.lines)] = line
                            /\ \A i \in DOMAIN D[t].lines : i \in DOMAIN g.lines /\ g.lines[i] = D[t].lines[i]
    BY <1>2, <2>1, <2>2, PutLines
  <2>5. DOMAIN files' = DOMAIN D /\ files'[t] = g /\ \A u \in DOMAIN D : u # t => files'[u] = D[u]
    BY <1>9, <2>1
  <2>6. \A u \in DOMAIN files' : files'[u] \in FileShape /\ files'[u].life <= life
    BY <1>3, <2>3, <2>5 DEF IInv, Shape
  <2>7. life \notin overlapped => Lines(g.lines, Base)
    BY <1>5, <1>7, <1>9, <2>4
  <2>8. InStepFiles'
    <3>. SUFFICES ASSUME NEW u \in DOMAIN files', files'[u].life \notin overlapped
                  PROVE  /\ \E b \in Nat : Numbered(u, b)'
                         /\ files'[u].life = life => Numbered(u, Base)'
      BY DEF InStepFiles
    <3>1. (\E b \in Nat : Lines(files'[u].lines, b)) /\ (files'[u].life = life => Lines(files'[u].lines, Base))
      BY <1>5, <1>7, <2>3, <2>5, <2>7
    <3>2. files'[u].life = life => Base' = Base
      BY <1>4
    <3>. QED BY <3>1, <3>2 DEF Numbered
  <2>9. life \notin overlapped \cup lossy' =>
          /\ ~g.partial /\ Whole(g.lines) /\ g.lines # <<>>
          /\ g.lines[Len(g.lines)].sequence = current_sequence - 1
    <3>. SUFFICES ASSUME life \notin overlapped \cup lossy'
                  PROVE  /\ ~g.partial /\ Whole(g.lines) /\ g.lines # <<>>
                         /\ g.lines[Len(g.lines)].sequence = current_sequence - 1
      OBVIOUS
    <3>1. line = e /\ ended = TRUE /\ life \notin lossy
      BY <1>9
    <3>2. ~D[t].partial /\ Whole(D[t].lines)
      BY <1>8, <3>1
    <3>3. /\ Len(g.lines) = Len(D[t].lines) + 1 /\ g.lines[Len(g.lines)] = e
          /\ \A i \in DOMAIN D[t].lines : g.lines[i] = D[t].lines[i]
      BY <2>4, <3>1, <3>2
    <3>4. g.lines \in Seq(NumberedEntry) /\ D[t].lines \in Seq(NumberedEntry)
      BY <2>2, <2>3 DEF FileShape
    <3>5. /\ DOMAIN g.lines = 1..(Len(D[t].lines) + 1) /\ DOMAIN D[t].lines = 1..Len(D[t].lines)
          /\ Len(D[t].lines) \in Nat
      BY <3>3, <3>4, LenProperties
    <3>6. \A i \in DOMAIN g.lines : g.lines[i] # Garbage
      BY <1>6, <3>2, <3>3, <3>5
    <3>7. ASSUME NEW i \in DOMAIN g.lines, i > 1
          PROVE  g.lines[i].sequence = g.lines[i - 1].sequence + 1
      <4>1. CASE i \in DOMAIN D[t].lines
        <5>1. i - 1 \in DOMAIN D[t].lines
          BY <3>5, <3>7, <4>1
        <5>. QED BY <3>2, <3>3, <3>7, <4>1, <5>1
      <4>2. CASE i = Len(D[t].lines) + 1
        <5>1. D[t].lines # <<>> /\ i - 1 = Len(D[t].lines) /\ Len(D[t].lines) \in DOMAIN D[t].lines
          BY <3>4, <3>5, <3>7, <4>2
        <5>2. D[t].lines[Len(D[t].lines)].sequence = current_sequence - 2
          BY <3>1, <5>1
        <5>3. g.lines[i] = e /\ g.lines[i - 1] = D[t].lines[Len(D[t].lines)]
          BY <3>3, <4>2, <5>1
        <5>. QED BY <1>5, <5>2, <5>3 DEF IInv, Shape
      <4>. QED BY <3>5, <4>1, <4>2
    <3>8. g.lines # <<>>
      BY <3>3, <3>5
    <3>. QED BY <1>5, <2>3, <3>1, <3>3, <3>6, <3>7, <3>8
  <2>10. CompleteFiles'
    <3>. SUFFICES ASSUME NEW u \in DOMAIN files', files'[u].life \notin overlapped \cup lossy'
                  PROVE  Complete(u)'
      BY DEF CompleteFiles
    <3>1. ~files'[u].partial /\ Whole(files'[u].lines)
      BY <1>8, <1>9, <2>3, <2>5, <2>9
    <3>. QED BY <3>1 DEF Complete
  <2>11. EndsRight'
    <3>. SUFFICES ASSUME life \notin overlapped \cup lossy'
                  PROVE  /\ files'[t].lines # <<>>
                         /\ files'[t].lines[Len(files'[t].lines)].sequence
                              = current_sequence' - (IF Pending' THEN 2 ELSE 1)
      BY DEF EndsRight
    <3>. QED BY <1>4, <2>5, <2>9 DEF logger
  <2>. QED BY <2>3, <2>5, <2>6, <2>8, <2>10, <2>11
<1>10. CASE lossy' = lossy \cup {life} /\ files' = D
  <2>1. Unwritten
    BY <1>3, <1>10 DEF Unwritten, Opened
  <2>2. EndsRight'
    BY <1>10 DEF EndsRight
  <2>3. InStepFiles' /\ CompleteFiles'
    BY <1>4, <1>10, <2>1, FilesKept
  <2>. QED BY <1>3, <1>4, <1>10, <2>2, <2>3
<1>11. CASE files' = [D EXCEPT ![t] = Put(D[t], e, TRUE)] /\ UNCHANGED lossy
  BY <1>4, <1>9, <1>11
<1>12. CASE lossy' = lossy \cup {life} /\ \E line \in {e, Garbage}, ended \in BOOLEAN :
               files' = [D EXCEPT ![t] = Put(D[t], line, ended)]
  BY <1>4, <1>9, <1>12
<1>. QED BY <1>1, <1>10, <1>11, <1>12, WriteOutcomes DEF IInv

-----------------------------------------------------------------------------
(* Every step, action by action.                                           *)

\* What holds of a step that writes nothing to a file and moves call c within
\* append, or outside the chain of log.
LEMMA QuietStep ==
    ASSUME IInv, NEW c \in Callers, Frame(c), calls' \in [Callers -> CallShape],
           \/ /\ calls[c].at \in Logging \ {"previous", "sign"}
              /\ calls'[c].at \in Logging \ {"previous", "sign"}
              /\ calls'[c].entry = calls[c].entry
           \/ calls[c].at \notin Logging /\ calls'[c].at \notin Logging,
           UNCHANGED <<logger, life, overlapped, now>>, lossy' \in {lossy, lossy \cup {life}},
           Unwritten, buffer' \in Seq(Nat),
           current_file' \in {0, current_file}, current_path' \in {0, current_path}
    PROVE  IInv'
<1>1. Single' /\ (Pending' <=> Pending) /\ Base' = Base
  BY SingleStays DEF IInv
<1>2. InStepFiles' /\ CompleteFiles' /\ \A t \in DOMAIN files' : files'[t].life <= life'
  BY <1>1, FilesKept
<1>3. Shape'
  <2>1. /\ current_sequence' \in Nat /\ previous_signature' \in Nat /\ signed' \in Nat
        /\ life' \in Nat /\ now' \in Nat \ {0}
    BY DEF IInv, Shape, logger
  <2>2. \A t \in DOMAIN files' : files'[t] \in FileShape
    BY DEF Unwritten
  <2>3. \A l \in overlapped' \cup lossy' : l \in Nat /\ l <= life'
    BY DEF IInv, Shape
  <2>. QED BY <1>2, <2>1, <2>2, <2>3 DEF Shape
<1>4. OpenFile'
  BY DEF IInv, OpenFile, Unwritten
<1>5. EndsRight'
  <2>. SUFFICES ASSUME current_file' # 0, life' \notin overlapped' \cup lossy'
                PROVE  /\ files'[current_file'].lines # <<>>
                       /\ files'[current_file'].lines[Len(files'[current_file'].lines)].sequence
                            = current_sequence' - (IF Pending' THEN 2 ELSE 1)
    BY DEF EndsRight
  <2>1. current_file' = current_file /\ current_file # 0 /\ life \notin overlapped \cup lossy
    OBVIOUS
  <2>2. current_file \in DOMAIN files /\ files'[current_file].lines = files[current_file].lines
    BY <2>1 DEF IInv, OpenFile, Unwritten
  <2>3. current_sequence' = current_sequence
    BY DEF logger
  <2>. QED BY <1>1, <2>1, <2>2, <2>3 DEF IInv, EndsRight
<1>. QED BY <1>1, <1>2, <1>3, <1>4, <1>5 DEF IInv

\* The steps of maybe_rotate and rotate write nothing and keep the entry.
LEMMA RotateSteps ==
    ASSUME IInv, NEW c \in Callers,
           maybe_rotate(c) \/ rotate_close(c) \/ rotate_freeze(c) \/ rotate_forget(c)
    PROVE  IInv'
<1>1. /\ calls[c].at \in {"rotate", "close", "freeze", "forget"}
      /\ \E at \in {"append", "close", "freeze", "forget"} : Goto(c, at)
      /\ UNCHANGED <<logger, life, overlapped, now, lossy, buffer>>
      /\ current_file' \in {0, current_file} /\ current_path' \in {0, current_path}
      /\ files' = files \/ files' = Sealed(current_path)
  BY DEF maybe_rotate, rotate_close, rotate_freeze, rotate_forget, writer, sink, faults
<1>2. PICK at \in {"append", "close", "freeze", "forget"} : Goto(c, at)
  BY <1>1
<1>3. Frame(c) /\ calls' \in [Callers -> CallShape] /\ calls'[c].at = at /\ calls'[c].entry = calls[c].entry
  BY <1>2, GotoFrame DEF IInv, Logging
<1>4. Unwritten
  <2>1. CASE files' = files
    BY <2>1, FilesSame DEF IInv
  <2>2. CASE files' = [files EXCEPT ![current_path].frozen = TRUE]
    BY <2>2 DEF IInv, Shape, FileShape, Unwritten
  <2>. QED BY <1>1, <2>1, <2>2 DEF Sealed
<1>5. buffer' \in Seq(Nat)
  BY <1>1 DEF IInv, Shape
<1>. QED BY <1>1, <1>3, <1>4, <1>5, QuietStep DEF Logging

\* The buffer and flush do not touch the chain.
LEMMA FlushSteps ==
    ASSUME IInv, NEW c \in Callers, push(c) \/ flush_drain(c) \/ flush_emit(c)
    PROVE  IInv'
<1>1. /\ calls[c].at \in {"push", "drain", "emit"}
      /\ UNCHANGED <<logger, life, overlapped, now, current_file, current_path, files>>
      /\ lossy' \in {lossy, lossy \cup {life}}
  BY DEF push, flush_drain, flush_emit, Fail, writer, faults
<1>2. calls \in [Callers -> CallShape] /\ buffer \in Seq(Nat)
  BY DEF IInv, Shape
<1>3. buffer' \in Seq(Nat)
  <2>1. calls[c].entry.signature \in Nat
    BY <1>2 DEF CallShape, NumberedEntry
  <2>2. CASE push(c)
    BY <1>2, <2>1, <2>2, AppendProperties DEF push
  <2>3. CASE flush_drain(c)
    <3>1. buffer' = <<>>
      BY <2>3 DEF flush_drain, Drained
    <3>. QED BY <3>1
  <2>4. CASE flush_emit(c)
    BY <1>2, <2>4 DEF flush_emit
  <2>. QED BY <2>2, <2>3, <2>4
<1>4. Frame(c) /\ calls' \in [Callers -> CallShape] /\ calls'[c].at \in {"idle", "drain", "emit"}
  <2>1. CASE Return(c)
    BY <2>1, ReturnFrame DEF IInv
  <2>2. CASE Goto(c, "drain")
    BY <2>2, GotoFrame DEF IInv, Flushing
  <2>3. CASE calls' = [calls EXCEPT ![c].at = "emit", ![c].batch = buffer]
    BY <1>2, <2>3 DEF CallShape, Frame, Flushing
  <2>. QED BY <2>1, <2>2, <2>3 DEF push, flush_drain, flush_emit
<1>5. Unwritten
  BY <1>1, FilesSame DEF IInv
<1>. QED BY <1>1, <1>3, <1>4, <1>5, QuietStep DEF Logging

\* The end of append, with a file open, with a new one, and with none.
LEMMA AppendSteps ==
    ASSUME IInv, NEW c \in Callers, append_open(c) \/ append_new(c) \/ append_refused(c)
    PROVE  IInv'
<1>1. /\ calls[c].at = "append" /\ Goto(c, "push")
      /\ UNCHANGED <<logger, life, overlapped, now, buffer>>
  BY DEF append_open, append_new, append_refused, sink
<1>2. Frame(c) /\ calls' \in [Callers -> CallShape] /\ calls'[c].at = "push"
  BY <1>1, GotoFrame DEF IInv
<1>3. now \in Nat \ {0} /\ life \in Nat
  BY DEF IInv, Shape
<1>4. /\ current_sequence' \in Nat /\ previous_signature' \in Nat /\ signed' \in Nat
      /\ life' \in Nat /\ now' \in Nat \ {0} /\ buffer' \in Seq(Nat)
  BY <1>1 DEF IInv, Shape, logger
<1>5. lossy' \in {lossy, lossy \cup {life}} => \A l \in overlapped' \cup lossy' : l \in Nat /\ l <= life'
  BY <1>1, <1>3 DEF IInv, Shape
<1>6. ASSUME NEW D, Opened(D), NEW t \in DOMAIN D, D[t].life = life, t # 0,
             life \notin overlapped \cup lossy =>
               D[t].lines = <<>> \/ D[t].lines[Len(D[t].lines)].sequence = current_sequence - 2,
             write(c, D, t), current_file' = t, current_path' \in DOMAIN D \cup {0}
      PROVE  IInv'
  <2>1. /\ \A u \in DOMAIN files' : files'[u] \in FileShape /\ files'[u].life <= life
        /\ DOMAIN files' = DOMAIN D /\ files'[t].life = life
        /\ Single' /\ InStepFiles' /\ CompleteFiles' /\ EndsRight'
    BY <1>1, <1>2, <1>6, AppendWrites
  <2>2. lossy' \in {lossy, lossy \cup {life}}
    BY <1>6, WriteOutcomes DEF IInv
  <2>3. Shape'
    BY <1>1, <1>2, <1>4, <1>5, <2>1, <2>2 DEF Shape
  <2>4. OpenFile'
    BY <1>1, <1>6, <2>1 DEF OpenFile
  <2>. QED BY <2>1, <2>3, <2>4 DEF IInv
<1>7. ASSUME files' \in {files, Directory}, lossy' = lossy \cup {life},
             current_file' = 0, current_path' \in DOMAIN files' \cup {0}
      PROVE  IInv'
  <2>1. Unwritten
    BY <1>7, DirectoryOpened DEF Unwritten, Opened, IInv, Shape
  <2>2. Single' /\ (life \notin overlapped => Base' = Base)
    BY <1>1, <1>2, SingleAppended DEF IInv
  <2>3. InStepFiles' /\ CompleteFiles' /\ \A u \in DOMAIN files' : files'[u].life <= life'
    BY <1>1, <1>7, <2>1, <2>2, FilesKept
  <2>4. Shape'
    BY <1>1, <1>2, <1>4, <1>5, <1>7, <2>1, <2>3 DEF Shape, Unwritten
  <2>5. OpenFile' /\ EndsRight'
    BY <1>7 DEF OpenFile, EndsRight
  <2>. QED BY <2>2, <2>3, <2>4, <2>5 DEF IInv
<1>8. CASE append_open(c)
  <2>1. current_file # 0 /\ current_file' = current_file /\ current_path' = current_path
        /\ write(c, files, current_file)
    BY <1>8 DEF append_open
  <2>2. current_file \in DOMAIN files /\ files[current_file].life = life /\ current_path \in DOMAIN files \cup {0}
    BY <2>1 DEF IInv, OpenFile
  <2>3. Opened(files)
    BY DirectoryOpened DEF IInv
  <2>4. life \notin overlapped \cup lossy =>
           files[current_file].lines[Len(files[current_file].lines)].sequence = current_sequence - 2
    <3>1. Pending
      BY <1>1 DEF Pending, Logging
    <3>. QED BY <2>1, <3>1 DEF IInv, EndsRight
  <2>. QED BY <1>6, <2>1, <2>2, <2>3, <2>4
<1>9. CASE append_new(c)
  <2>1. current_path' = now /\ current_file = 0 /\ now \notin DOMAIN files
    BY <1>9 DEF append_new, CanCreate
  <2>2. Opened(Directory) /\ now \in DOMAIN Directory
    BY DirectoryOpened DEF IInv
  <2>3. CASE current_file' = now /\ write(c, Directory, now)
    <3>1. Directory[now].life = life /\ Directory[now].lines = <<>>
      BY <2>1, <2>2 DEF Opened
    <3>. QED BY <1>3, <1>6, <2>1, <2>2, <2>3, <3>1
  <2>4. CASE current_file' = 0 /\ files' = Directory /\ Fail
    BY <1>7, <2>1, <2>2, <2>4 DEF Fail
  <2>. QED BY <1>9, <2>3, <2>4 DEF append_new
<1>10. CASE append_refused(c)
  <2>1. /\ files' \in {files, Directory} /\ lossy' = lossy \cup {life}
        /\ current_file' = 0 /\ current_path' = current_path
    BY <1>10 DEF append_refused, Fail
  <2>2. current_path' \in DOMAIN files' \cup {0}
    BY <2>1, DirectoryOpened DEF IInv, OpenFile, Opened
  <2>. QED BY <1>7, <2>1, <2>2
<1>. QED BY <1>8, <1>9, <1>10

\* A call takes its number: the life counts as overlapped if another is under
\* way, and else this call is the only one.
LEMMA TakeStep ==
    ASSUME IInv, NEW c \in Callers, take_sequence(c)
    PROVE  IInv'
<1>1. /\ calls[c].at = "idle"
      /\ current_sequence' = current_sequence + 1
      /\ calls' = [calls EXCEPT ![c].at = "previous", ![c].entry.sequence = current_sequence]
      /\ overlapped' = IF Pending THEN overlapped \cup {life} ELSE overlapped
      /\ UNCHANGED <<previous_signature, signed, current_file, current_path, files, buffer, now, life, lossy>>
  BY DEF take_sequence, Pending, writer, sink, faults
<1>2. calls \in [Callers -> CallShape] /\ current_sequence \in Nat /\ signed \in Nat
  BY DEF IInv, Shape
<1>3. /\ Frame(c) /\ calls' \in [Callers -> CallShape]
      /\ calls'[c].at = "previous" /\ calls'[c].entry.sequence = current_sequence
  BY <1>1, <1>2, ZenonT(40) DEF Frame, CallShape, NumberedEntry, Logging
<1>4. ASSUME life \notin overlapped'
      PROVE  /\ life \notin overlapped /\ ~Pending /\ Pending' /\ ~Unsigned /\ Unsigned'
             /\ OfThisLife' = OfThisLife /\ Base' = Base
  <2>1. life \notin overlapped /\ ~Pending /\ Pending' /\ ~Unsigned /\ Unsigned'
    BY <1>1, <1>3, <1>4 DEF Pending, Unsigned, Logging
  <2>. QED BY <1>1, <1>2, <2>1 DEF OfThisLife, Base
<1>5. Single'
  <2>. SUFFICES ASSUME life \notin overlapped'
                PROVE  /\ \A d, g \in Callers : calls'[d].at \in Logging /\ calls'[g].at \in Logging => d = g
                       /\ OfThisLife' \in Nat /\ Base' \in Nat
                       /\ previous_signature' = IF OfThisLife' = 0 THEN 0 ELSE signed'
                       /\ \A d \in Callers : calls'[d].at \in Logging =>
                             calls'[d].at = "previous" /\ calls'[d].entry.sequence = current_sequence' - 1
    BY <1>1 DEF Single, Logging
  <2>1. \A d \in Callers : calls'[d].at \in Logging => d = c
    BY <1>3, <1>4 DEF Pending, Frame
  <2>. QED BY <1>1, <1>2, <1>3, <1>4, <2>1 DEF IInv, Single
<1>6. InStepFiles' /\ CompleteFiles' /\ \A t \in DOMAIN files' : files'[t].life <= life'
  BY <1>1, <1>4, FilesSame, FilesKept DEF IInv
<1>7. Shape'
  BY <1>1, <1>2, <1>3 DEF IInv, Shape
<1>8. OpenFile'
  BY <1>1 DEF IInv, OpenFile
<1>9. EndsRight'
  BY <1>1, <1>2, <1>4 DEF IInv, EndsRight, OpenFile, Shape, FileShape, NumberedEntry
<1>. QED BY <1>5, <1>6, <1>7, <1>8, <1>9 DEF IInv

\* A call reads the head of the chain.
LEMMA ReadStep ==
    ASSUME IInv, NEW c \in Callers, read_previous(c)
    PROVE  IInv'
<1>1. /\ calls[c].at = "previous"
      /\ calls' = [calls EXCEPT ![c].at = "sign", ![c].entry.previous = previous_signature]
      /\ UNCHANGED <<current_sequence, previous_signature, signed, current_file, current_path, files,
                     buffer, now, life, lossy, overlapped>>
  BY DEF read_previous, logger, writer, sink, faults
<1>2. calls \in [Callers -> CallShape] /\ previous_signature \in Nat
  BY DEF IInv, Shape
<1>3. /\ Frame(c) /\ calls' \in [Callers -> CallShape]
      /\ calls'[c].at = "sign" /\ calls'[c].entry.previous = previous_signature
      /\ calls'[c].entry.sequence = calls[c].entry.sequence
  BY <1>1, <1>2, ZenonT(40) DEF Frame, CallShape, NumberedEntry, Logging
<1>4. (Unsigned' <=> Unsigned) /\ (Pending' <=> Pending)
  BY <1>1, <1>3 DEF Unsigned, Pending, Frame, Logging
<1>5. OfThisLife' = OfThisLife /\ Base' = Base
  BY <1>1, <1>4 DEF OfThisLife, Base
<1>6. Single'
  BY <1>1, <1>3, <1>5 DEF IInv, Single, Frame, Logging, InStep
<1>7. InStepFiles' /\ CompleteFiles' /\ \A t \in DOMAIN files' : files'[t].life <= life'
  BY <1>1, <1>5, FilesSame, FilesKept DEF IInv
<1>8. Shape'
  BY <1>1, <1>3 DEF IInv, Shape
<1>9. OpenFile' /\ EndsRight'
  BY <1>1, <1>4 DEF IInv, OpenFile, EndsRight
<1>. QED BY <1>6, <1>7, <1>8, <1>9 DEF IInv

\* A call signs its entry and makes it the head of the chain.
LEMMA SetStep ==
    ASSUME IInv, NEW c \in Callers, set_previous(c)
    PROVE  IInv'
<1>1. /\ calls[c].at = "sign"
      /\ signed' = signed + 1 /\ previous_signature' = signed + 1
      /\ calls' = [calls EXCEPT ![c].at = "rotate", ![c].entry.signature = signed + 1]
      /\ UNCHANGED <<current_sequence, current_file, current_path, files, buffer, now, life, lossy, overlapped>>
  BY DEF set_previous, NewHead, writer, sink, faults
<1>2. calls \in [Callers -> CallShape] /\ current_sequence \in Nat /\ signed \in Nat
  BY DEF IInv, Shape
<1>3. /\ Frame(c) /\ calls' \in [Callers -> CallShape]
      /\ calls'[c].at = "rotate" /\ calls'[c].entry.signature = signed + 1
      /\ calls'[c].entry.sequence = calls[c].entry.sequence
      /\ calls'[c].entry.previous = calls[c].entry.previous
  <2>1. signed + 1 \in Nat
    BY <1>2
  <2>2. PICK n \in Nat : n = signed + 1
    BY <2>1
  <2>3. calls' = [calls EXCEPT ![c].at = "rotate", ![c].entry.signature = n]
    BY <1>1, <2>2
  <2>. QED BY <1>2, <2>2, <2>3, ZenonT(40) DEF Frame, CallShape, NumberedEntry, Logging
<1>4. Pending' <=> Pending
  BY <1>1, <1>3 DEF Pending, Frame, Logging
<1>5. ASSUME life \notin overlapped
      PROVE  /\ Unsigned /\ ~Unsigned' /\ \A d \in Callers : calls'[d].at \in Logging => d = c
             /\ OfThisLife = current_sequence - 1 /\ OfThisLife' = current_sequence
             /\ Base' = Base /\ Base = signed - (current_sequence - 1)
  <2>1. \A d \in Callers : calls[d].at \in Logging => d = c
    BY <1>1, <1>5 DEF IInv, Single, Logging
  <2>2. Unsigned /\ ~Unsigned' /\ \A d \in Callers : calls'[d].at \in Logging => d = c
    BY <1>1, <1>3, <2>1 DEF Unsigned, Frame, Logging
  <2>3. OfThisLife = current_sequence - 1 /\ OfThisLife' = current_sequence
    <3>1. OfThisLife = current_sequence - 1
      BY <2>2 DEF OfThisLife
    <3>2. OfThisLife' = current_sequence - 0
      BY <1>1, <2>2 DEF OfThisLife
    <3>. QED BY <1>2, <3>1, <3>2
  <2>4. Base' = (signed + 1) - current_sequence /\ Base = signed - (current_sequence - 1)
    BY <1>1, <2>3 DEF Base
  <2>. QED BY <1>2, <2>2, <2>3, <2>4
<1>6. Single'
  <2>. SUFFICES ASSUME life \notin overlapped
                PROVE  /\ \A d, g \in Callers : calls'[d].at \in Logging /\ calls'[g].at \in Logging => d = g
                       /\ OfThisLife' \in Nat /\ Base' \in Nat
                       /\ previous_signature' = IF OfThisLife' = 0 THEN 0 ELSE signed'
                       /\ calls'[c].entry.sequence = current_sequence' - 1
                       /\ InStep(calls'[c].entry, Base')
    <3>1. ASSUME life \notin overlapped, NEW d \in Callers, calls'[d].at \in Logging
          PROVE  d = c /\ calls'[d].at = "rotate"
      BY <1>3, <1>5, <3>1
    <3>. QED BY <1>1, <3>1 DEF Single, Logging
  <2>1. OfThisLife \in Nat /\ Base \in Nat /\ previous_signature = IF OfThisLife = 0 THEN 0 ELSE signed
    BY DEF IInv, Single
  <2>2. calls[c].entry.sequence = current_sequence - 1 /\ calls[c].entry.previous = previous_signature
    BY <1>1 DEF IInv, Single, Logging
  <2>3. OfThisLife' \in Nat /\ OfThisLife' # 0
    BY <1>2, <1>5, <2>1
  <2>4. InStep(calls'[c].entry, Base')
    BY <1>2, <1>3, <1>5, <2>1, <2>2 DEF InStep
  <2>. QED BY <1>1, <1>3, <1>5, <2>1, <2>2, <2>3, <2>4
<1>7. InStepFiles' /\ CompleteFiles' /\ \A t \in DOMAIN files' : files'[t].life <= life'
  BY <1>1, <1>5, FilesSame, FilesKept DEF IInv
<1>8. Shape'
  BY <1>1, <1>2, <1>3 DEF IInv, Shape
<1>9. OpenFile' /\ EndsRight'
  BY <1>1, <1>4 DEF IInv, OpenFile, EndsRight
<1>. QED BY <1>6, <1>7, <1>8, <1>9 DEF IInv

\* The clock is in no part of the invariant but the names of new files.
LEMMA TickStep ==
    ASSUME IInv, Tick
    PROVE  IInv'
<1>1. now' \in Nat \ {0}
  BY DEF Tick, IInv, Shape
<1>2. UNCHANGED <<current_sequence, previous_signature, signed, current_file, current_path, files, buffer,
                 calls, life, lossy, overlapped>>
  BY DEF Tick, logger, writer, sink, faults
<1>3. Unsigned' = Unsigned /\ Pending' = Pending /\ OfThisLife' = OfThisLife /\ Base' = Base
  BY <1>2 DEF Unsigned, Pending, OfThisLife, Base
<1>4. Shape'
  BY <1>1, <1>2 DEF IInv, Shape
<1>5. OpenFile' /\ Single'
  BY <1>2, <1>3 DEF IInv, OpenFile, Single
<1>6. InStepFiles' /\ CompleteFiles' /\ EndsRight'
  BY <1>2, <1>3 DEF IInv, InStepFiles, CompleteFiles, EndsRight, Numbered, Complete
<1>. QED BY <1>4, <1>5, <1>6 DEF IInv

\* A new life: no file is of it, and its numbers begin at what is signed.
LEMMA RestartStep ==
    ASSUME IInv, Restart
    PROVE  IInv'
<1>1. /\ life' = life + 1 /\ current_sequence' = 0 /\ previous_signature' = 0
      /\ current_file' = 0 /\ current_path' = 0 /\ buffer' = <<>>
      /\ calls' = [c \in Callers |-> Idle]
      /\ UNCHANGED <<signed, files, now, lossy, overlapped>>
  BY DEF Restart, faults
<1>2. life \in Nat /\ signed \in Nat /\ now \in Nat \ {0}
  BY DEF IInv, Shape
<1>3. Idle \in CallShape /\ Idle.at = "idle"
  BY DEF Idle, CallShape, Garbage, NumberedEntry
<1>4. \A c \in Callers : calls'[c] \in CallShape /\ calls'[c].at = "idle"
  BY <1>1, <1>3
<1>5. ~Unsigned' /\ OfThisLife' = 0 /\ Base' = signed
  <2>1. ~Unsigned'
    BY <1>4 DEF Unsigned
  <2>2. OfThisLife' = 0
    <3>1. OfThisLife' = current_sequence' - 0
      BY <2>1 DEF OfThisLife
    <3>. QED BY <1>1, <3>1
  <2>. QED BY <1>1, <1>2, <2>1, <2>2 DEF Base
<1>6. Single'
  BY <1>1, <1>2, <1>4, <1>5 DEF Single, Logging
<1>7. \A t \in DOMAIN files : files[t] \in FileShape /\ files[t].life <= life /\ files[t].life # life'
  BY <1>1, <1>2 DEF IInv, Shape, FileShape
<1>8. InStepFiles'
  BY <1>1, <1>7 DEF IInv, InStepFiles, Numbered
<1>9. CompleteFiles'
  BY <1>1 DEF IInv, CompleteFiles, Complete
<1>10. Shape'
  <2>1. calls' \in [Callers -> CallShape]
    BY <1>1, <1>3
  <2>2. \A t \in DOMAIN files' : files'[t] \in FileShape /\ files'[t].life <= life'
    BY <1>1, <1>2, <1>7 DEF FileShape
  <2>3. \A l \in overlapped' \cup lossy' : l \in Nat /\ l <= life'
    BY <1>1, <1>2 DEF IInv, Shape
  <2>4. buffer' \in Seq(Nat)
    BY <1>1
  <2>. QED BY <1>1, <1>2, <2>1, <2>2, <2>3, <2>4 DEF Shape
<1>11. OpenFile' /\ EndsRight'
  BY <1>1 DEF OpenFile, EndsRight
<1>. QED BY <1>6, <1>8, <1>9, <1>10, <1>11 DEF IInv

\* A step that changes nothing.
LEMMA Stutter ==
    ASSUME IInv, UNCHANGED vars
    PROVE  IInv'
<1>1. UNCHANGED <<current_sequence, previous_signature, signed, current_file, current_path, files, buffer,
                 calls, now, life, lossy, overlapped>>
  BY DEF vars, logger, writer, sink, faults
<1>2. Unsigned' = Unsigned /\ Pending' = Pending /\ OfThisLife' = OfThisLife /\ Base' = Base
  BY <1>1 DEF Unsigned, Pending, OfThisLife, Base
<1>3. Shape' /\ OpenFile' /\ Single'
  BY <1>1, <1>2 DEF IInv, Shape, OpenFile, Single
<1>4. InStepFiles' /\ CompleteFiles' /\ EndsRight'
  BY <1>1, <1>2 DEF IInv, InStepFiles, CompleteFiles, EndsRight, Numbered, Complete
<1>. QED BY <1>3, <1>4 DEF IInv

-----------------------------------------------------------------------------

\* Every reachable state of the WORM log satisfies the inductive invariant.
THEOREM Invariant == Spec => []IInv
<1>1. Init => IInv
  <2>. SUFFICES ASSUME Init
                PROVE  IInv
    OBVIOUS
  <2>1. Idle \in CallShape /\ Idle.at = "idle"
    BY DEF Idle, CallShape, Garbage, NumberedEntry
  <2>2. \A c \in Callers : calls[c].at = "idle"
    BY <2>1 DEF Init
  <2>3. Shape
    BY <2>1 DEF Init, Shape
  <2>4. ~Unsigned /\ OfThisLife = 0 /\ Base = 0
    <3>1. ~Unsigned
      BY <2>2 DEF Unsigned
    <3>2. OfThisLife = 0
      <4>1. OfThisLife = current_sequence - 0
        BY <3>1 DEF OfThisLife
      <4>. QED BY <4>1 DEF Init
    <3>. QED BY <3>1, <3>2 DEF Init, Base
  <2>5. Single
    BY <2>2, <2>4 DEF Init, Single, Logging
  <2>6. OpenFile /\ InStepFiles /\ CompleteFiles /\ EndsRight
    BY DEF Init, OpenFile, InStepFiles, CompleteFiles, EndsRight
  <2>. QED BY <2>3, <2>5, <2>6 DEF IInv
<1>2. IInv /\ [Next]_vars => IInv'
  <2>. SUFFICES ASSUME IInv, [Next]_vars
                PROVE  IInv'
    OBVIOUS
  <2>1. ASSUME NEW c \in Callers, take_sequence(c)
        PROVE  IInv'
    BY <2>1, TakeStep
  <2>2. ASSUME NEW c \in Callers, read_previous(c)
        PROVE  IInv'
    BY <2>2, ReadStep
  <2>3. ASSUME NEW c \in Callers, set_previous(c)
        PROVE  IInv'
    BY <2>3, SetStep
  <2>4. ASSUME NEW c \in Callers,
               maybe_rotate(c) \/ rotate_close(c) \/ rotate_freeze(c) \/ rotate_forget(c)
        PROVE  IInv'
    BY <2>4, RotateSteps
  <2>5. ASSUME NEW c \in Callers, append_open(c) \/ append_new(c) \/ append_refused(c)
        PROVE  IInv'
    BY <2>5, AppendSteps
  <2>6. ASSUME NEW c \in Callers, push(c) \/ flush_drain(c) \/ flush_emit(c)
        PROVE  IInv'
    BY <2>6, FlushSteps
  <2>7. CASE Tick
    BY <2>7, TickStep
  <2>8. CASE Restart
    BY <2>8, RestartStep
  <2>9. CASE UNCHANGED vars
    BY <2>9, Stutter
  <2>. QED BY <2>1, <2>2, <2>3, <2>4, <2>5, <2>6, <2>7, <2>8, <2>9 DEF Next
<1>. QED BY <1>1, <1>2, PTL DEF Spec

\* The verifier accepts every file of a life without overlap and failures, and
\* a file of a life without overlap that it accepts has no gap
\* (IntegrityVerifier::verify_content against WormSignedAuditLogger::log).
THEOREM VerdictIsSound == Spec => []VerdictSound
<1>1. ASSUME IInv
      PROVE  NoFalseAlarm
  <2>. SUFFICES ASSUME NEW t \in DOMAIN files, files[t].life \notin overlapped \cup lossy
                PROVE  verify_content(files[t].lines)
    BY DEF NoFalseAlarm
  <2>1. PICK b \in Nat : Numbered(t, b)
    BY <1>1 DEF IInv, InStepFiles
  <2>2. Complete(t)
    BY <1>1 DEF IInv, CompleteFiles
  <2>3. files[t].lines \in Seq(NumberedEntry)
    BY <1>1 DEF IInv, Shape, FileShape
  <2>4. ASSUME NEW i \in DOMAIN files[t].lines, i > 1
        PROVE  files[t].lines[i].previous = files[t].lines[i - 1].signature
    <3>1. DOMAIN files[t].lines = 1..Len(files[t].lines) /\ Len(files[t].lines) \in Nat
      BY <2>3, LenProperties
    <3>2. i - 1 \in DOMAIN files[t].lines
      BY <2>4, <3>1
    <3>3. files[t].lines[i] \in NumberedEntry /\ files[t].lines[i - 1] \in NumberedEntry
      BY <2>3, <2>4, <3>2, ElementOfSeq, <3>1
    <3>4. InStep(files[t].lines[i], b) /\ InStep(files[t].lines[i - 1], b)
      BY <2>1, <2>2, <2>4, <3>2 DEF Numbered, Complete
    <3>5. files[t].lines[i].sequence = files[t].lines[i - 1].sequence + 1
      BY <2>2, <2>4 DEF Complete
    <3>. QED BY <2>1, <3>3, <3>4, <3>5 DEF InStep, NumberedEntry
  <2>. QED BY <2>2, <2>4 DEF verify_content, Complete
<1>2. ASSUME IInv
      PROVE  LossDetected
  <2>. SUFFICES ASSUME NEW t \in DOMAIN files, files[t].life \notin overlapped,
                       verify_content(files[t].lines), NEW i \in DOMAIN files[t].lines, i > 1
                PROVE  files[t].lines[i].sequence = files[t].lines[i - 1].sequence + 1
    BY DEF LossDetected
  <2>1. PICK b \in Nat : Numbered(t, b)
    BY <1>2 DEF IInv, InStepFiles
  <2>2. files[t].lines \in Seq(NumberedEntry)
    BY <1>2 DEF IInv, Shape, FileShape
  <2>3. DOMAIN files[t].lines = 1..Len(files[t].lines) /\ Len(files[t].lines) \in Nat
    BY <2>2, LenProperties
  <2>4. i - 1 \in DOMAIN files[t].lines
    BY <2>3
  <2>5. files[t].lines[i] \in NumberedEntry /\ files[t].lines[i - 1] \in NumberedEntry
    BY <2>2, <2>3, <2>4, ElementOfSeq
  <2>6. InStep(files[t].lines[i], b) /\ InStep(files[t].lines[i - 1], b)
    BY <2>1, <2>4 DEF Numbered, verify_content
  <2>7. files[t].lines[i].previous = files[t].lines[i - 1].signature
    BY DEF verify_content
  <2>. QED BY <2>1, <2>5, <2>6, <2>7 DEF InStep, NumberedEntry
<1>. QED BY <1>1, <1>2, Invariant, PTL DEF VerdictSound

=============================================================================
