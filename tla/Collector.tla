------------------------------- MODULE Collector -------------------------------
(***************************************************************************)
(* The tail collector (internal/collector/tail) and the publisher it uses  *)
(* (internal/collector/common): a goroutine reads a growing log file and   *)
(* publishes an event per line; what cannot be published goes to a spool,  *)
(* which a second goroutine flushes.                                       *)
(*                                                                         *)
(* The log file is a sequence of half lines, so that the reader can meet a *)
(* line of which only the beginning has been written.  Offsets count half  *)
(* lines.  What survives a crash is the files and the stream.              *)
(***************************************************************************)
EXTENDS Naturals, Sequences, FiniteSets, SequencesExt

CONSTANTS
    MaxLines,       \* bound on the lines written to the log file
    Plain,          \* the lines that are no event
    MaxTruncations, \* bound on the truncations of the log file
    MaxCrashes,     \* bound on the restarts of the collector
    MaxOutages,     \* bound on the outages of the server
    MaxLost,        \* bound on failed publications while the server is up
    MaxFaults       \* bound on failed writes of files

ASSUME CollectorAssumption ==
    /\ Plain \subseteq Nat
    /\ {MaxLines, MaxTruncations, MaxCrashes, MaxOutages, MaxLost, MaxFaults} \subseteq Nat

VARIABLES
    log,            \* the log file, half lines
    written,        \* how many lines have been begun
    checkpoint,     \* the offset in the checkpoint file
    spool,          \* the lines of the spool file
    commitFile,     \* the number in the commit file; 0 when empty or missing
    up,             \* is the server reachable
    stream,         \* the events in the stream, in the order of their arrival
    pc,             \* the next step of the reading goroutine
    offset, pending, pendingOffset,     \* its local variables
    nextSeq, committed,                 \* the fields of messageSpool
    flush,          \* the flushing goroutine: next step, position, committed
    passed,         \* the lines the reading goroutine is done with
    truncations, crashes, outages, lost, faults,
    tears           \* how many of the faults hit the spool file

files == <<checkpoint, spool, commitFile>>
server == <<up, stream>>
reader == <<pc, offset, pending, pendingOffset>>
seqs == <<nextSeq, committed>>
counts == <<truncations, crashes, outages, lost, faults, tears>>
vars == <<log, written, files, server, reader, seqs, flush, passed, counts>>

-----------------------------------------------------------------------------
Half == [line : Nat, end : BOOLEAN]

(* A line of the spool file: good says that it can be decoded, nl that it   *)
(* ends with a newline.                                                     *)
Queued == [seq : Nat, line : Nat, good : BOOLEAN, nl : BOOLEAN]

FlushIdle == [pc |-> "idle", pos |-> 0, done |-> 0]

(* ReplayUncommitted and MarkCommittedUpTo hold the spool's mutex, the      *)
(* former while it publishes.                                               *)
Locked == flush.pc \in {"replay", "write"}

HasPending == committed + 1 < nextSeq

(* The line in the buffer, or 0 for what is not a whole line or no event.   *)
EventOf(p) ==
    IF p # <<>> /\ ~p[1].end /\ p[1].line \notin Plain THEN p[1].line ELSE 0

(* The stream drops a message whose id it has seen; the id is made of the   *)
(* line and its offset.                                                     *)
Stored(n) == IF \E i \in 1..Len(stream) : stream[i] = n THEN stream ELSE Append(stream, n)

Init ==
    /\ log = <<>>
    /\ written = 0
    /\ checkpoint = 0
    /\ spool = <<>>
    /\ commitFile = 0
    /\ up = TRUE
    /\ stream = <<>>
    /\ pc = "poll"
    /\ offset = 0
    /\ pending = <<>>
    /\ pendingOffset = 0
    /\ nextSeq = 1
    /\ committed = 0
    /\ flush = FlushIdle
    /\ passed = {}
    /\ truncations = 0
    /\ crashes = 0
    /\ outages = 0
    /\ lost = 0
    /\ faults = 0
    /\ tears = 0

-----------------------------------------------------------------------------
(* The host and the server. *)

(* The host begins a line, or ends the one it has begun. *)
Write ==
    LET open == log # <<>> /\ ~Last(log).end IN
    /\ open \/ written < MaxLines
    /\ written' = IF open THEN written ELSE written + 1
    /\ log' = Append(log, [line |-> written', end |-> open])
    /\ UNCHANGED <<files, server, reader, seqs, flush, passed, counts>>

(* Log rotation truncates the file between two lines. *)
Truncate ==
    /\ log # <<>> /\ Last(log).end
    /\ truncations < MaxTruncations
    /\ truncations' = truncations + 1
    /\ log' = <<>>
    /\ UNCHANGED <<written, files, server, reader, seqs, flush, passed,
                   crashes, outages, lost, faults, tears>>

ServerFails ==
    /\ up
    /\ outages < MaxOutages
    /\ outages' = outages + 1
    /\ up' = FALSE
    /\ UNCHANGED <<log, written, files, stream, reader, seqs, flush, passed,
                   truncations, crashes, lost, faults, tears>>

ServerReturns ==
    /\ ~up
    /\ up' = TRUE
    /\ UNCHANGED <<log, written, files, stream, reader, seqs, flush, passed, counts>>

(* A publication fails: the server is down, or it is up and the answer is   *)
(* lost, with or without the message being stored; the other goroutine may  *)
(* also have closed the connection.                                         *)
PublicationFails(n) ==
    \/ ~up /\ UNCHANGED <<stream, lost>>
    \/ up /\ lost < MaxLost /\ lost' = lost + 1 /\ stream' \in {stream, Stored(n)}

-----------------------------------------------------------------------------
(* Collector.run *)

(* Mutant: every poll begins with an empty buffer. *)
PollForgets ==
    /\ pc = "poll"
    /\ pc' = "read"
    /\ pending' = <<>>
    /\ IF Len(log) < offset
       THEN /\ offset' = 0
            /\ pendingOffset' = 0
            /\ checkpoint' = 0
       ELSE UNCHANGED <<offset, pendingOffset, checkpoint>>
    /\ UNCHANGED <<log, written, spool, commitFile, server, seqs, flush, passed, counts>>

(* A file that is shorter than the offset is read from its beginning; when  *)
(* the checkpoint cannot be written, the old one stays.                     *)
Poll ==
    /\ pc = "poll"
    /\ pc' = "read"
    /\ IF Len(log) < offset
       THEN /\ offset' = 0
            /\ pending' = <<>>
            /\ pendingOffset' = 0
            /\ \/ checkpoint' = 0 /\ UNCHANGED faults
               \/ faults < MaxFaults /\ faults' = faults + 1 /\ UNCHANGED checkpoint
       ELSE UNCHANGED <<offset, pending, pendingOffset, checkpoint, faults>>
    /\ UNCHANGED <<log, written, spool, commitFile, server, seqs, flush, passed,
                   truncations, crashes, outages, lost, tears>>

(* ReadBytes returns what there is up to the next end of a line. *)
Chunk ==
    LET rest == SubSeq(log, offset + 1, Len(log))
        ends == {i \in 1..Len(rest) : rest[i].end} IN
    IF ends = {} THEN rest ELSE SubSeq(rest, 1, CHOOSE i \in ends : \A j \in ends : i <= j)

(* What was read joins the buffer; a whole line that is an event goes out.  *)
Read ==
    LET whole == Chunk # <<>> /\ Last(Chunk).end IN
    /\ pc = "read"
    /\ offset' = offset + Len(Chunk)
    /\ pending' = pending \o Chunk
    /\ pendingOffset' = IF pending = <<>> THEN offset ELSE pendingOffset
    /\ pc' = IF ~whole THEN "poll" ELSE IF EventOf(pending') = 0 THEN "checkpoint" ELSE "check"
    /\ UNCHANGED <<log, written, files, server, seqs, flush, passed, counts>>

(* Mutant: an event is published at once, whatever waits in the spool. *)
CheckNothing ==
    /\ pc = "check"
    /\ ~Locked
    /\ pc' = "send"
    /\ UNCHANGED <<log, written, files, server, offset, pending, pendingOffset, seqs, flush,
                   passed, counts>>

(* OfflinePublisher.Publish: behind a backlog the event is spooled. *)
Check ==
    /\ pc = "check"
    /\ ~Locked
    /\ pc' = IF HasPending THEN "append" ELSE "send"
    /\ UNCHANGED <<log, written, files, server, offset, pending, pendingOffset, seqs, flush,
                   passed, counts>>

PublishNow ==
    /\ pc = "send"
    /\ up
    /\ stream' = Stored(EventOf(pending))
    /\ pc' = "checkpoint"
    /\ UNCHANGED <<log, written, files, up, offset, pending, pendingOffset, seqs, flush,
                   passed, counts>>

PublishNowFails ==
    /\ pc = "send"
    /\ PublicationFails(EventOf(pending))
    /\ pc' = "append"
    /\ UNCHANGED <<log, written, files, up, offset, pending, pendingOffset, seqs, flush,
                   passed, truncations, crashes, outages, faults, tears>>

(* The spool file after a write: a record that follows one without newline  *)
(* is glued to it, and neither can be decoded.                              *)
Spooled(good, nl) ==
    LET new == [seq |-> nextSeq, line |-> EventOf(pending), good |-> good, nl |-> nl] IN
    IF spool # <<>> /\ ~Last(spool).nl
    THEN Append(Front(spool), [Last(spool) EXCEPT !.good = FALSE, !.nl = nl])
    ELSE Append(spool, new)

SpoolAppend ==
    /\ pc = "append"
    /\ ~Locked
    /\ spool' = Spooled(TRUE, TRUE)
    /\ nextSeq' = nextSeq + 1
    /\ pc' = "checkpoint"
    /\ UNCHANGED <<log, written, checkpoint, commitFile, server, offset, pending, pendingOffset,
                   committed, flush, passed, counts>>

(* Append fails: nothing is written, or a part, or all but the newline, or  *)
(* the fsync fails; the reader goes back to the beginning of the line.      *)
SpoolAppendFails ==
    /\ pc = "append"
    /\ ~Locked
    /\ faults < MaxFaults
    /\ faults' = faults + 1
    /\ \/ UNCHANGED <<spool, tears>>
       \/ /\ tears' = tears + 1
          /\ spool' \in {Spooled(FALSE, FALSE), Spooled(TRUE, FALSE), Spooled(TRUE, TRUE)}
    /\ pc' = "poll"
    /\ offset' = pendingOffset
    /\ pending' = <<>>
    /\ UNCHANGED <<log, written, checkpoint, commitFile, server, pendingOffset, seqs, flush,
                   passed, truncations, crashes, outages, lost>>

Done ==
    /\ pc = "checkpoint"
    /\ pc' = "read"
    /\ passed' = passed \cup ({EventOf(pending)} \ {0})
    /\ pending' = <<>>

(* writeCheckpoint renames a whole file into place. *)
Checkpoint ==
    /\ Done
    /\ checkpoint' = offset
    /\ UNCHANGED <<log, written, spool, commitFile, server, offset, pendingOffset, seqs, flush,
                   counts>>

CheckpointFails ==
    /\ Done
    /\ faults < MaxFaults
    /\ faults' = faults + 1
    /\ UNCHANGED <<log, written, files, server, offset, pendingOffset, seqs, flush,
                   truncations, crashes, outages, lost, tears>>

-----------------------------------------------------------------------------
(* OfflinePublisher.run *)

(* The ticker fires; a spool without anything to send is read in vain. *)
FlushBegins ==
    /\ flush.pc = "idle"
    /\ \E i \in 1..Len(spool) : ~spool[i].good \/ spool[i].seq > committed
    /\ up
    /\ flush' = [pc |-> "replay", pos |-> 1, done |-> 0]
    /\ UNCHANGED <<log, written, files, server, reader, seqs, passed, counts>>

FlushTo(pcNext) == flush' = [flush EXCEPT !.pc = pcNext]

(* The replay stops at its end or at a line that cannot be decoded. *)
FlushStops == FlushTo(IF flush.done > 0 THEN "mark" ELSE "idle")

(* Mutant: a failed publication does not end the replay. *)
FlushGoesOn ==
    /\ flush.pc = "replay"
    /\ IF flush.pos > Len(spool) \/ ~spool[flush.pos].good
       THEN FlushStops /\ UNCHANGED <<stream, lost>>
       ELSE IF spool[flush.pos].seq <= committed
       THEN flush' = [flush EXCEPT !.pos = @ + 1] /\ UNCHANGED <<stream, lost>>
       ELSE /\ flush' = [flush EXCEPT !.pos = @ + 1, !.done = spool[flush.pos].seq]
            /\ \/ up /\ stream' = Stored(spool[flush.pos].line) /\ UNCHANGED lost
               \/ PublicationFails(spool[flush.pos].line)
    /\ UNCHANGED <<log, written, files, up, reader, seqs, passed,
                   truncations, crashes, outages, faults, tears>>

(* ReplayUncommitted, one line of the spool at a time. *)
FlushStep ==
    /\ flush.pc = "replay"
    /\ IF flush.pos > Len(spool) \/ ~spool[flush.pos].good
       THEN FlushStops /\ UNCHANGED <<stream, lost>>
       ELSE IF spool[flush.pos].seq <= committed
       THEN flush' = [flush EXCEPT !.pos = @ + 1] /\ UNCHANGED <<stream, lost>>
       ELSE \/ /\ up
               /\ stream' = Stored(spool[flush.pos].line)
               /\ flush' = [flush EXCEPT !.pos = @ + 1, !.done = spool[flush.pos].seq]
               /\ UNCHANGED lost
            \/ /\ PublicationFails(spool[flush.pos].line)
               /\ FlushStops
    /\ UNCHANGED <<log, written, files, up, reader, seqs, passed,
                   truncations, crashes, outages, faults, tears>>

(* MarkCommittedUpTo truncates the commit file ... *)
MarkBegins ==
    /\ flush.pc = "mark"
    /\ IF flush.done <= committed
       THEN flush' = FlushIdle /\ UNCHANGED commitFile
       ELSE FlushTo("write") /\ commitFile' = 0
    /\ UNCHANGED <<log, written, checkpoint, spool, server, reader, seqs, passed, counts>>

(* ... and writes the number, first to the file, then to its field. *)
MarkEnds ==
    /\ flush.pc = "write"
    /\ commitFile' = flush.done
    /\ committed' = flush.done
    /\ flush' = FlushIdle
    /\ UNCHANGED <<log, written, checkpoint, spool, server, reader, nextSeq, passed, counts>>

(* The write or its fsync fails: the file stays empty or holds the number,  *)
(* the field keeps the old one.                                             *)
MarkFails ==
    /\ flush.pc = "write"
    /\ faults < MaxFaults
    /\ faults' = faults + 1
    /\ commitFile' \in {commitFile, flush.done}
    /\ flush' = FlushIdle
    /\ UNCHANGED <<log, written, checkpoint, spool, server, reader, seqs, passed,
                   truncations, crashes, outages, lost, tears>>

-----------------------------------------------------------------------------
(* openMessageSpool keeps the lines before the first it cannot decode. *)
Repaired ==
    LET bad == {i \in 1..Len(spool) : ~spool[i].good} IN
    IF bad = {} THEN spool ELSE SubSeq(spool, 1, (CHOOSE i \in bad : \A j \in bad : i <= j) - 1)

MaxSeq(s) == Max({s[i].seq : i \in 1..Len(s)} \cup {0})

(* Mutant: the sequence numbers go on from the spool file alone. *)
RestartFromSpool ==
    /\ crashes < MaxCrashes
    /\ crashes' = crashes + 1
    /\ pc' = "poll"
    /\ offset' = checkpoint
    /\ pending' = <<>>
    /\ pendingOffset' = checkpoint
    /\ spool' = Repaired
    /\ committed' = IF commitFile = 0 THEN Len(spool') ELSE commitFile
    /\ nextSeq' = Max({MaxSeq(spool'), committed'}) + 1
    /\ flush' = FlushIdle
    /\ UNCHANGED <<log, written, checkpoint, commitFile, server, passed,
                   truncations, outages, lost, faults, tears>>

(* The collector dies and starts again: the reader from its checkpoint, the *)
(* spool with what it can decode.                                           *)
Restart ==
    /\ crashes < MaxCrashes
    /\ crashes' = crashes + 1
    /\ pc' = "poll"
    /\ offset' = checkpoint
    /\ pending' = <<>>
    /\ pendingOffset' = checkpoint
    /\ spool' = Repaired
    /\ committed' = commitFile
    /\ nextSeq' = Max({MaxSeq(spool'), committed'}) + 1
    /\ flush' = FlushIdle
    /\ UNCHANGED <<log, written, checkpoint, commitFile, server, passed,
                   truncations, outages, lost, faults, tears>>

-----------------------------------------------------------------------------
Next ==
    \/ Write \/ Truncate \/ ServerFails \/ ServerReturns
    \/ Poll \/ Read \/ Check \/ PublishNow \/ PublishNowFails
    \/ SpoolAppend \/ SpoolAppendFails \/ Checkpoint \/ CheckpointFails
    \/ FlushBegins \/ FlushStep \/ MarkBegins \/ MarkEnds \/ MarkFails
    \/ Restart

Spec == Init /\ [][Next]_vars

(* Both goroutines keep running, a line that is begun is ended, and the     *)
(* server comes back.                                                       *)
Fairness ==
    /\ WF_vars(Write) /\ WF_vars(ServerReturns)
    /\ WF_vars(Poll) /\ WF_vars(Read) /\ SF_vars(Check)
    /\ SF_vars(PublishNow \/ PublishNowFails) /\ SF_vars(SpoolAppend)
    /\ WF_vars(Checkpoint)
    /\ SF_vars(FlushBegins) /\ WF_vars(FlushStep)
    /\ WF_vars(MarkBegins) /\ WF_vars(MarkEnds)

FairSpec == Spec /\ Fairness
-----------------------------------------------------------------------------
(***************************************************************************)
(* Properties.                                                             *)
(***************************************************************************)

(* Every variable has its type.                                             *)
TypeOK ==
    /\ log \in Seq(Half)
    /\ {written, checkpoint, commitFile, offset, pendingOffset, nextSeq, committed} \subseteq Nat
    /\ spool \in Seq(Queued)
    /\ up \in BOOLEAN
    /\ stream \in Seq(Nat \ {0})
    /\ pc \in {"poll", "read", "check", "send", "append", "checkpoint"}
    /\ pending \in Seq(Half)
    /\ flush \in [pc : {"idle", "replay", "mark", "write"}, pos : Nat, done : Nat]
    /\ passed \subseteq Nat \ {0}
    /\ {truncations, crashes, outages, lost, faults, tears} \subseteq Nat

InStream(n) == \E i \in 1..Len(stream) : stream[i] = n
InSpool(n, mark) ==
    \E i \in 1..Len(spool) : spool[i].good /\ spool[i].line = n /\ spool[i].seq > mark

(* A line the reader has left behind is in the stream, or in the spool      *)
(* where the flush finds it now and after a restart, through outages, lost  *)
(* answers, restarts and lost commit files; a failed write of the spool     *)
(* itself can break it.                                                     *)
PassedIsKept ==
    tears = 0 =>
        \A n \in passed :
            InStream(n) \/ (InSpool(n, committed) /\ InSpool(n, commitFile))

(* Events enter the stream in the order of their lines, though two          *)
(* goroutines publish, publications fail half-way and lines are read again. *)
(* A torn write of the spool can break it, and a truncation that is not     *)
(* noticed, followed by a restart from a checkpoint that could not be       *)
(* renewed.                                                                 *)
InOrder ==
    tears = 0 /\ (faults = 0 \/ truncations = 0) =>
        \A i, j \in 1..Len(stream) : i < j => stream[i] < stream[j]

(* What the spool counts as committed is in the stream.                     *)
CommittedIsStored ==
    tears = 0 =>
        \A i \in 1..Len(spool) :
            spool[i].seq <= committed \/ spool[i].seq <= commitFile => InStream(spool[i].line)

(* The spool and the reader: types, and what the watermark stands for.      *)
SpoolOK == TypeOK /\ CommittedIsStored

(* Every event of the log file reaches the stream, unless the file is       *)
(* truncated or a write of the spool fails.                                 *)
AllDelivered ==
    []<>(\/ truncations > 0 \/ tears > 0
         \/ \A n \in 1..written \ Plain : InStream(n))
=============================================================================
