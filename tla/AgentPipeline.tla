----------------------------- MODULE AgentPipeline -----------------------------
(***************************************************************************)
(* The agent's event pipeline: the write-ahead log (internal/wal), the     *)
(* lanes, the scheduler, the transport and the commit manager              *)
(* (internal/pipeline), started by the supervisor (internal/supervisor),   *)
(* and the master's end of the stream (internal/ingest/agent_adapter.go).  *)
(*                                                                         *)
(* The goroutines hand events on through bounded channels.  A goroutine    *)
(* blocked in a send is one more place of the channel it sends to.  What   *)
(* survives a restart is the log and the commit file.                      *)
(***************************************************************************)
EXTENDS Naturals, Sequences, FiniteSets, SequencesExt

CONSTANTS
    Backlog,        \* how many records the log may hold when a behaviour begins
    MaxEvents,      \* bound on the events, those of the backlog included
    InCap,          \* places of walEvents, its sender and its receiver
    LaneCap,        \* LaneFastBuffer, LaneStandardBuffer
    BatchSize,      \* BatchFastMaxSize, BatchStandardMaxSize
    BatchCap,       \* places of the batches channel and of the scheduler's hand
    NetCap,         \* batches, and acknowledgements, the network buffers hold
    AckCap,         \* places of the acks channel, its sender and its receiver
    MaxCrashes,     \* bound on the restarts of the agent
    MaxBreaks,      \* bound on the broken connections
    MaxFaults       \* bound on failed writes and on dropped acknowledgements

ASSUME PipelineAssumption ==
    /\ Backlog \subseteq Nat /\ MaxEvents \in Nat
    /\ InCap \in Nat \ {0} /\ BatchSize \in Nat \ {0} /\ BatchCap \in Nat \ {0}
    /\ NetCap \in Nat \ {0} /\ AckCap \in Nat \ {0}
    /\ LaneCap \in [{"FAST", "STANDARD"} -> Nat]
    /\ MaxCrashes \in Nat /\ MaxBreaks \in Nat /\ MaxFaults \in Nat

VARIABLES
    phase,          \* "down", "replay" (the supervisor replays the log), "run"
    file,           \* the records of the log file
    nextOffset,     \* wal.nextOffset
    committed,      \* wal.committed
    commitFile,     \* the number in the commit file; 0 when empty or missing
    committing,     \* the offset writeCommitFile is writing, or 0
    rp,             \* the record the replay reads next
    made,           \* the events the log was asked to record so far
    input,          \* walEvents, to the distributor
    lane,           \* fastLane and standardLane, to the scheduler
    pending,        \* laneBatch.pending
    batches,        \* the batches channel, to the transport
    conn,           \* is the stream to the master up
    zombies,        \* writer loops of broken connections still waiting for a batch
    wire,           \* batches sent and not yet read by the master
    ackwire,        \* acknowledgements sent and not yet read by the agent
    acks,           \* the acks channel, to the commit manager
    received,       \* the events the master has read
    acked,          \* the acknowledgements the master has sent
    crashes, breaks, faults

disk == <<file, commitFile>>
log == <<nextOffset, committed, committing, rp>>
queues == <<input, lane, pending, batches>>
net == <<conn, zombies, wire, ackwire, acks>>
master == <<received, acked>>
counts == <<crashes, breaks, faults>>
vars == <<phase, disk, log, made, queues, net, master, counts>>

-----------------------------------------------------------------------------
Lane == {"FAST", "STANDARD"}

(* What travels: an event, its lane and the offset it was given.            *)
Item == [ev : Nat, lane : Lane, off : Nat]

(* A record of the log file; ok says that Append returned without an error. *)
Record == [ev : Nat, lane : Lane, off : Nat, ok : BOOLEAN]
Torn == [ev |-> 0, lane |-> "FAST", off |-> 0, ok |-> FALSE]
    \* a record of which only the beginning was written

Batch == [lane : Lane, evs : SUBSET Nat, max : Nat]
Ack == [lane : Lane, max : Nat]

ItemOf(r) == [ev |-> r.ev, lane |-> r.lane, off |-> r.off]
None == [l \in Lane |-> <<>>]

maxOffset(items) == Max({items[i].off : i \in 1..Len(items)} \cup {0})
BatchOf(l, items) ==
    [lane |-> l, evs |-> {items[i].ev : i \in 1..Len(items)}, max |-> maxOffset(items)]

(* A log of n FAST events of an earlier run. *)
Earlier(n) == [i \in 1..n |-> [ev |-> i, lane |-> "FAST", off |-> i, ok |-> TRUE]]

(* An agent on a fresh host, or one that left n events behind when it       *)
(* ended: the master has read all but the last, and its acknowledgements    *)
(* were dropped.  That counts as a restart and a fault.                     *)
Init ==
    /\ phase = "down"
    /\ \E n \in Backlog :
          /\ file = Earlier(n)
          /\ nextOffset = n + 1
          /\ made = n
          /\ received = 1..(n - 1)
          /\ crashes = IF n = 0 THEN 0 ELSE 1
          /\ faults = IF n = 0 THEN 0 ELSE 1
    /\ committed = 0
    /\ commitFile = 0
    /\ committing = 0
    /\ rp = 1
    /\ input = <<>>
    /\ lane = None
    /\ pending = None
    /\ batches = <<>>
    /\ conn = FALSE
    /\ zombies = 0
    /\ wire = <<>>
    /\ ackwire = <<>>
    /\ acks = <<>>
    /\ acked = {}
    /\ breaks = 0

-----------------------------------------------------------------------------
(* The process: start, replay, stop. *)

(* Everything that lives in memory or on the connection is gone. *)
LoseMemory ==
    /\ phase' = "down"
    /\ committing' = 0
    /\ input' = <<>>
    /\ lane' = None
    /\ pending' = None
    /\ batches' = <<>>
    /\ conn' = FALSE
    /\ zombies' = 0
    /\ wire' = <<>>
    /\ ackwire' = <<>>
    /\ acks' = <<>>

(* wal.Open reads the commit file and counts the records; the supervisor    *)
(* then starts the distributor, the scheduler, the transport and the commit *)
(* manager, and begins the replay.                                          *)
Start ==
    /\ phase = "down"
    /\ phase' = "replay"
    /\ committed' = commitFile
    /\ nextOffset' = Len(file) + 1
    /\ rp' = 1
    /\ UNCHANGED <<disk, committing, made, queues, net, master, counts>>

(* Mutant: the replay compares with the watermark as if it were exclusive. *)
ReplaySkipsOneMore ==
    /\ phase = "replay"
    /\ rp <= Len(file)
    /\ file[rp] # Torn
    /\ IF rp <= committed + 1
       THEN UNCHANGED input
       ELSE /\ Len(input) < InCap
            /\ input' = Append(input, ItemOf(file[rp]))
    /\ rp' = rp + 1
    /\ UNCHANGED <<phase, disk, nextOffset, committed, committing, made, lane,
                   pending, batches, net, master, counts>>

(* ReplayUncommitted hands on the records past the watermark, counted by    *)
(* their position in the file.                                              *)
Replay ==
    /\ phase = "replay"
    /\ rp <= Len(file)
    /\ file[rp] # Torn
    /\ IF rp <= committed
       THEN UNCHANGED input
       ELSE /\ Len(input) < InCap
            /\ input' = Append(input, ItemOf(file[rp]))
    /\ rp' = rp + 1
    /\ UNCHANGED <<phase, disk, nextOffset, committed, committing, made, lane,
                   pending, batches, net, master, counts>>

(* At the end of the file the generator and the stages behind it start. *)
ReplayEnds ==
    /\ phase = "replay"
    /\ rp > Len(file)
    /\ phase' = "run"
    /\ UNCHANGED <<disk, log, made, queues, net, master, counts>>

(* A record that cannot be read ends the replay and, with it, the agent. *)
ReplayFails ==
    /\ phase = "replay"
    /\ rp <= Len(file)
    /\ file[rp] = Torn
    /\ LoseMemory
    /\ UNCHANGED <<disk, nextOffset, committed, rp, made, master, counts>>

(* The agent dies, or is stopped: the scheduler's last flush and the other  *)
(* channels are abandoned when the context ends.                            *)
Crash ==
    /\ phase # "down"
    /\ crashes < MaxCrashes
    /\ crashes' = crashes + 1
    /\ LoseMemory
    /\ UNCHANGED <<disk, nextOffset, committed, rp, made, master, breaks, faults>>

-----------------------------------------------------------------------------
(* The write-ahead log.  ReplayUncommitted, Append and MarkCommittedUpTo    *)
(* exclude each other by the log's mutex.                                   *)

NewRecord(l, ok) == [ev |-> made + 1, lane |-> l, off |-> nextOffset, ok |-> ok]

(* Mutant: the writer does not wait for room in walEvents. *)
WalAppendOverfills(l) ==
    /\ phase = "run" /\ committing = 0
    /\ made < MaxEvents
    /\ made' = made + 1
    /\ file' = Append(file, NewRecord(l, TRUE))
    /\ nextOffset' = nextOffset + 1
    /\ input' = Append(input, ItemOf(NewRecord(l, TRUE)))
    /\ UNCHANGED <<phase, commitFile, committed, committing, rp, lane, pending,
                   batches, net, master, counts>>

(* WALWriter: the next classified event is recorded and handed on. *)
WalAppend(l) ==
    /\ phase = "run" /\ committing = 0
    /\ made < MaxEvents
    /\ Len(input) < InCap
    /\ made' = made + 1
    /\ file' = Append(file, NewRecord(l, TRUE))
    /\ nextOffset' = nextOffset + 1
    /\ input' = Append(input, ItemOf(NewRecord(l, TRUE)))
    /\ UNCHANGED <<phase, commitFile, committed, committing, rp, lane, pending,
                   batches, net, master, counts>>

(* Append fails: nothing is written, or a part of the record is, or all of  *)
(* it is and the fsync fails.  The writer drops the event.                  *)
WalAppendFails(l) ==
    /\ phase = "run" /\ committing = 0
    /\ made < MaxEvents
    /\ Len(input) < InCap
    /\ faults < MaxFaults
    /\ faults' = faults + 1
    /\ made' = made + 1
    /\ file' \in {file, Append(file, Torn), Append(file, NewRecord(l, FALSE))}
    /\ UNCHANGED <<phase, commitFile, log, queues, net, master, crashes, breaks>>

(* Mutant: the watermark is the offset after the acknowledged one. *)
CommitBeginsPastAck ==
    /\ phase = "run" /\ committing = 0
    /\ acks # <<>>
    /\ acks' = Tail(acks)
    /\ IF Head(acks).max <= committed
       THEN UNCHANGED <<commitFile, committing>>
       ELSE commitFile' = 0 /\ committing' = Head(acks).max + 1
    /\ UNCHANGED <<phase, file, nextOffset, committed, rp, made, queues, conn,
                   zombies, wire, ackwire, master, counts>>

(* CommitManager takes an acknowledgement; MarkCommittedUpTo ignores an old *)
(* one, else it truncates the commit file ...                               *)
CommitBegins ==
    /\ phase = "run" /\ committing = 0
    /\ acks # <<>>
    /\ acks' = Tail(acks)
    /\ IF Head(acks).max <= committed
       THEN UNCHANGED <<commitFile, committing>>
       ELSE commitFile' = 0 /\ committing' = Head(acks).max
    /\ UNCHANGED <<phase, file, nextOffset, committed, rp, made, queues, conn,
                   zombies, wire, ackwire, master, counts>>

(* ... and writes the new watermark, first to the file, then in memory. *)
CommitEnds ==
    /\ committing # 0
    /\ commitFile' = committing
    /\ committed' = committing
    /\ committing' = 0
    /\ UNCHANGED <<phase, file, nextOffset, rp, made, queues, net, master, counts>>

(* The write or its fsync fails: the file stays empty or holds the number,  *)
(* and the watermark in memory stays.                                       *)
CommitFails ==
    /\ committing # 0
    /\ faults < MaxFaults
    /\ faults' = faults + 1
    /\ commitFile' \in {commitFile, committing}
    /\ committing' = 0
    /\ UNCHANGED <<phase, file, nextOffset, committed, rp, made, queues, net,
                   master, crashes, breaks>>

-----------------------------------------------------------------------------
(* Lanes and batches. *)

(* Mutant: a full FAST lane drops its event like the STANDARD lane. *)
DispatchDropsFast ==
    LET item == Head(input)
        l == item.lane
        full == Len(lane[l]) >= LaneCap[l] IN
    /\ input # <<>>
    /\ input' = Tail(input)
    /\ lane' = IF full THEN lane ELSE [lane EXCEPT ![l] = Append(@, item)]
    /\ UNCHANGED <<phase, disk, log, made, pending, batches, net, master, counts>>

(* LaneDistributor.dispatch: the FAST lane makes it wait, a full STANDARD   *)
(* lane makes it drop the event.                                            *)
Dispatch ==
    LET item == Head(input)
        l == item.lane
        full == Len(lane[l]) >= LaneCap[l] IN
    /\ input # <<>>
    /\ l = "FAST" => ~full
    /\ input' = Tail(input)
    /\ lane' = IF full THEN lane ELSE [lane EXCEPT ![l] = Append(@, item)]
    /\ UNCHANGED <<phase, disk, log, made, pending, batches, net, master, counts>>

(* Mutant: a full batch is sent with the offset of an event it leaves out. *)
ScheduleLosesLast(l) ==
    LET items == Append(pending[l], Head(lane[l])) IN
    /\ Len(batches) < BatchCap
    /\ lane[l] # <<>>
    /\ lane' = [lane EXCEPT ![l] = Tail(@)]
    /\ IF Len(items) >= BatchSize
       THEN /\ pending' = [pending EXCEPT ![l] = <<Head(lane[l])>>]
            /\ batches' = Append(batches, [BatchOf(l, items) EXCEPT
                                             !.evs = BatchOf(l, pending[l]).evs])
       ELSE /\ pending' = [pending EXCEPT ![l] = items]
            /\ UNCHANGED batches
    /\ UNCHANGED <<phase, disk, log, made, input, net, master, counts>>

(* Scheduler.handleEvent: an event joins its lane's batch; a full batch     *)
(* goes out.  An event of the other lane may come in after the scheduler    *)
(* has looked at it, so that either lane can be next.                       *)
Schedule(l) ==
    LET items == Append(pending[l], Head(lane[l])) IN
    /\ Len(batches) < BatchCap
    /\ lane[l] # <<>>
    /\ lane' = [lane EXCEPT ![l] = Tail(@)]
    /\ IF Len(items) >= BatchSize
       THEN /\ pending' = [pending EXCEPT ![l] = <<>>]
            /\ batches' = Append(batches, BatchOf(l, items))
       ELSE /\ pending' = [pending EXCEPT ![l] = items]
            /\ UNCHANGED batches
    /\ UNCHANGED <<phase, disk, log, made, input, net, master, counts>>

(* The lane's timer fires: what is pending goes out. *)
FlushLane(l) ==
    /\ Len(batches) < BatchCap
    /\ pending[l] # <<>>
    /\ pending' = [pending EXCEPT ![l] = <<>>]
    /\ batches' = Append(batches, BatchOf(l, pending[l]))
    /\ UNCHANGED <<phase, disk, log, made, input, lane, net, master, counts>>

-----------------------------------------------------------------------------
(* The transport session and the master's end of the stream. *)

Connect ==
    /\ phase # "down" /\ ~conn
    /\ conn' = TRUE
    /\ UNCHANGED <<phase, disk, log, made, queues, zombies, wire, ackwire, acks,
                   master, counts>>

(* writerLoop sends the next batch. *)
Send ==
    /\ conn
    /\ batches # <<>>
    /\ Len(wire) < NetCap
    /\ wire' = Append(wire, Head(batches))
    /\ batches' = Tail(batches)
    /\ UNCHANGED <<phase, disk, log, made, input, lane, pending, conn, zombies,
                   ackwire, acks, master, counts>>

(* AgentIngestAdapter.Stream reads a batch and acknowledges it. *)
MasterReceives ==
    LET b == Head(wire)
        a == [lane |-> b.lane, max |-> b.max] IN
    /\ wire # <<>>
    /\ Len(ackwire) < NetCap
    /\ wire' = Tail(wire)
    /\ received' = received \cup b.evs
    /\ ackwire' = Append(ackwire, a)
    /\ acked' = acked \cup {a}
    /\ UNCHANGED <<phase, disk, log, made, queues, conn, zombies, acks, counts>>

(* The same, the acknowledgement dropped (ack_drop_rate). *)
MasterDropsAck ==
    /\ wire # <<>>
    /\ faults < MaxFaults
    /\ faults' = faults + 1
    /\ wire' = Tail(wire)
    /\ received' = received \cup Head(wire).evs
    /\ UNCHANGED <<phase, disk, log, made, queues, conn, zombies, ackwire, acks,
                   acked, crashes, breaks>>

(* readerLoop hands an acknowledgement to the commit manager. *)
AckArrives ==
    /\ ackwire # <<>>
    /\ Len(acks) < AckCap
    /\ ackwire' = Tail(ackwire)
    /\ acks' = Append(acks, Head(ackwire))
    /\ UNCHANGED <<phase, disk, log, made, queues, conn, zombies, wire, master, counts>>

(* The connection breaks: the master gets the first k batches on the wire,  *)
(* the agent no acknowledgement.  The writer loop notices by the batch it   *)
(* fails to send, which is lost, or it goes on waiting for a batch.         *)
Break(k) ==
    /\ conn
    /\ breaks < MaxBreaks
    /\ breaks' = breaks + 1
    /\ conn' = FALSE
    /\ received' = received \cup UNION {wire[i].evs : i \in 1..k}
    /\ wire' = <<>>
    /\ ackwire' = <<>>
    /\ \/ zombies' = zombies + 1 /\ UNCHANGED batches
       \/ batches # <<>> /\ batches' = Tail(batches) /\ UNCHANGED zombies
    /\ UNCHANGED <<phase, disk, log, made, input, lane, pending, acks, acked,
                   crashes, faults>>

(* A writer loop left over from a broken connection takes a batch and fails *)
(* to send it, or (gRPC) sees that its context has ended.                   *)
ZombieTakes ==
    /\ zombies > 0
    /\ zombies' = zombies - 1
    /\ batches' \in {batches} \cup {Tail(b) : b \in {batches} \ {<<>>}}
    /\ UNCHANGED <<phase, disk, log, made, input, lane, pending, conn, wire,
                   ackwire, acks, master, counts>>

-----------------------------------------------------------------------------
Next ==
    \/ Start \/ Replay \/ ReplayEnds \/ ReplayFails \/ Crash
    \/ \E l \in Lane : WalAppend(l) \/ WalAppendFails(l) \/ Schedule(l) \/ FlushLane(l)
    \/ CommitBegins \/ CommitEnds \/ CommitFails
    \/ Dispatch
    \/ Connect \/ Send \/ MasterReceives \/ MasterDropsAck \/ AckArrives
    \/ \E k \in 0..Len(wire) : Break(k)
    \/ ZombieTakes

Spec == Init /\ [][Next]_vars

(* Every goroutine keeps running, timers fire, a connection that is down is *)
(* dialled again and an agent that ended is started again.                  *)
Fairness ==
    /\ WF_vars(Start) /\ WF_vars(Replay) /\ WF_vars(ReplayEnds)
    /\ WF_vars(Dispatch) /\ WF_vars(Connect) /\ WF_vars(Send)
    /\ \A l \in Lane : WF_vars(Schedule(l)) /\ WF_vars(FlushLane(l))
    /\ WF_vars(MasterReceives) /\ WF_vars(AckArrives)
    /\ WF_vars(CommitBegins) /\ WF_vars(CommitEnds)

FairSpec == Spec /\ Fairness
-----------------------------------------------------------------------------
(***************************************************************************)
(* Properties.                                                             *)
(***************************************************************************)

LogType ==
    /\ phase \in {"down", "replay", "run"}
    /\ file \in Seq(Record)
    /\ nextOffset \in Nat /\ committed \in Nat /\ commitFile \in Nat
    /\ committing \in Nat /\ rp \in Nat \ {0} /\ made \in Nat

QueueType ==
    /\ input \in Seq(Item) /\ Len(input) <= InCap
    /\ lane \in [Lane -> Seq(Item)] /\ \A l \in Lane : Len(lane[l]) <= LaneCap[l]
    /\ pending \in [Lane -> Seq(Item)]
    /\ batches \in Seq(Batch) /\ Len(batches) <= BatchCap

NetType ==
    /\ conn \in BOOLEAN /\ zombies \in Nat
    /\ wire \in Seq(Batch) /\ Len(wire) <= NetCap
    /\ ackwire \in Seq(Ack) /\ Len(ackwire) <= NetCap
    /\ acks \in Seq(Ack) /\ Len(acks) <= AckCap

MasterType ==
    /\ received \subseteq Nat
    /\ acked \subseteq Ack
    /\ crashes \in Nat /\ breaks \in Nat /\ faults \in Nat

(* Every variable has its type, and no channel holds more than its places.  *)
TypeOK == LogType /\ QueueType /\ NetType /\ MasterType

AckedOffsets == {a.max : a \in acked}

(* The log holds no watermark, in memory or on disk, that the master has    *)
(* not acknowledged, through lost commit files, restarts and stale or       *)
(* repeated acknowledgements (MarkCommittedUpTo, loadCommitted).            *)
WatermarkIsAcknowledged ==
    {committed, commitFile, committing} \subseteq AckedOffsets \cup {0}

(* A record is never further back in the file than its offset says: the     *)
(* offsets repeat after a failed fsync, so that a replay that skips by      *)
(* position sends some records again but none too few.                      *)
OffsetsLag ==
    \A i \in 1..Len(file) : file[i] # Torn => file[i].off \in 1..i

(* The log and the channels: types, capacities and offsets.                 *)
LogOK == TypeOK /\ OffsetsLag

Undisturbed ==
    /\ breaks = 0
    /\ \A a \in acked : a.lane = "FAST"

EventsOf(q) == UNION {q[i].evs : i \in 1..Len(q)}

InMemory ==
    {input[i].ev : i \in 1..Len(input)}
    \cup {lane["FAST"][i].ev : i \in 1..Len(lane["FAST"])}
    \cup {pending["FAST"][i].ev : i \in 1..Len(pending["FAST"])}
    \cup EventsOf(batches) \cup EventsOf(wire)

Accepted(i) == file[i].ok /\ file[i].lane = "FAST"

(* While no connection breaks and only the FAST lane is acknowledged, every *)
(* FAST event the log accepted is with the master, on its way to it, or     *)
(* still to be replayed: back-pressure never makes it a dropped event.      *)
FastAccountedFor ==
    Undisturbed =>
        \A i \in 1..Len(file) : Accepted(i) =>
            \/ file[i].ev \in received \cup InMemory
            \/ phase = "replay" /\ i >= rp
            \/ phase = "down"

(* Under the same conditions the records the next start will skip have      *)
(* been received, through any crashes, failed writes and lost commit files. *)
CommittedIsReceived ==
    Undisturbed =>
        \A i \in 1..Len(file) :
            Accepted(i) /\ i <= committed => file[i].ev \in received

Lossy == ~Undisturbed \/ \E i \in 1..Len(file) : file[i] = Torn

Delivered == \A i \in 1..Len(file) : Accepted(i) => file[i].ev \in received

(* The places between the log and the commit manager: each holds one event, *)
(* or a batch or an acknowledgement of at least one.                        *)
Room == InCap + LaneCap["FAST"] + BatchCap + 2 * NetCap + AckCap

(* The replay waits for room in walEvents, the commit manager with an       *)
(* acknowledgement in hand for the mutex that the replay holds.             *)
ReplayBlocked ==
    /\ phase = "replay"
    /\ Len(input) = InCap /\ Len(acks) = AckCap
    /\ Len(file) > committed + Room

(* Every FAST event the log accepted reaches the master, however often the  *)
(* agent restarts, but for four cases.  A broken connection, a watermark of *)
(* the other lane or a torn record may lose it.  And a replay of more       *)
(* records than there is room for between the log and the commit manager    *)
(* may wait for ever, as ReplayUncommitted holds the mutex that             *)
(* MarkCommittedUpTo needs; up to that number it never does.                *)
FastDelivered == []<>(Lossy \/ Delivered) \/ <>[]ReplayBlocked
=============================================================================
