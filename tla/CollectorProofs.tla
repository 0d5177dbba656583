----------------------------- MODULE CollectorProofs -----------------------------
(***************************************************************************)
(* Proofs about Collector: types, what the watermark of the spool stands   *)
(* for (SpoolCorrect), that no line the reader has left behind is lost     *)
(* (NothingLost), that events enter the stream in the order of their lines *)
(* (LinesInOrder), and that the watermark goes back to nothing or not at   *)
(* all (WatermarkGrows), for any number of lines, outages, restarts,       *)
(* failures and truncations.                                               *)
(***************************************************************************)
EXTENDS Collector, WellFoundedInduction, TLAPS

-----------------------------------------------------------------------------
(* Least and greatest numbers *)

LEMMA Least ==
    ASSUME NEW S \in SUBSET Nat, S # {}
    PROVE  \E x \in S : \A y \in S : x <= y
<1>1. PICK x \in S : \A y \in S : <<y, x>> \notin OpToRel(<, Nat)
  BY NatLessThanWellFounded, WFMin
<1>2. \A y \in S : ~(y < x)
  BY <1>1 DEF OpToRel
<1> QED
  BY <1>2

(* A set of numbers with an upper bound has a greatest one: its least upper *)
(* bound.                                                                   *)
LEMMA Greatest ==
    ASSUME NEW S \in SUBSET Nat, S # {}, NEW b \in Nat, \A y \in S : y <= b
    PROVE  Max(S) \in S /\ \A y \in S : y <= Max(S)
<1> DEFINE Bounds == {u \in Nat : \A y \in S : y <= u}
<1>1. PICK u \in Bounds : \A v \in Bounds : u <= v
  BY Least
<1>2. u \in S
  <2> SUFFICES ASSUME u \notin S PROVE FALSE
    OBVIOUS
  <2>1. u \in Nat /\ \A y \in S : y < u
    BY <1>1
  <2>2. u - 1 \in Nat
    <3>1. PICK y \in S : TRUE
      OBVIOUS
    <3>2. y \in Nat /\ y < u
      BY <2>1, <3>1
    <3> QED
      BY <2>1, <3>2
  <2>3. u - 1 \in Bounds
    BY <2>1, <2>2
  <2> QED
    BY <1>1, <2>1, <2>3
<1>3. \E x \in S : \A y \in S : x >= y
  BY <1>1, <1>2
<1> QED
  BY <1>3 DEF Max

-----------------------------------------------------------------------------
(* Types *)

Pos == Nat \ {0}
Pcs == {"poll", "read", "check", "send", "append", "checkpoint"}
FlushType == [pc : {"idle", "replay", "mark", "write"}, pos : Nat, done : Nat]

LogTypes == log \in Seq(Half) /\ written \in Nat
ServerTypes == up \in BOOLEAN /\ stream \in Seq(Pos)

(* A reader that publishes has an event to publish.                         *)
ReaderTypes ==
    /\ pc \in Pcs
    /\ offset \in Nat /\ pendingOffset \in Nat /\ checkpoint \in Nat
    /\ pending \in Seq(Half)
    /\ passed \subseteq Pos
    /\ pc \in {"check", "send", "append"} => EventOf(pending) # 0

SpoolTypes ==
    /\ nextSeq \in Pos
    /\ spool \in Seq(Queued)
    /\ \A i \in 1..Len(spool) : spool[i].line \in Pos /\ spool[i].seq <= nextSeq

FlushTypes ==
    /\ flush \in FlushType /\ committed \in Nat /\ commitFile \in Nat
    /\ flush.pc = "replay" => flush.pos > 0

CountTypes ==
    /\ truncations \in Nat /\ crashes \in Nat /\ outages \in Nat
    /\ lost \in Nat /\ faults \in Nat /\ tears \in Nat

TypeInv ==
    LogTypes /\ ServerTypes /\ ReaderTypes /\ SpoolTypes /\ FlushTypes /\ CountTypes

LEMMA Types == TypeInv => TypeOK
  BY DEF TypeInv, TypeOK, Pos, Pcs, FlushType, LogTypes, ServerTypes, ReaderTypes,
         SpoolTypes, FlushTypes, CountTypes

LEMMA TypeInit == Init => TypeInv
  BY DEF Init, TypeInv, Pos, Pcs, FlushType, FlushIdle, LogTypes, ServerTypes, ReaderTypes,
         SpoolTypes, FlushTypes, CountTypes

LEMMA EventType ==
    ASSUME NEW p \in Seq(Half)
    PROVE  EventOf(p) \in Nat
<1> DEFINE H == Half
<1>1. \A x \in H : x.line \in Nat
  BY DEF Half
<1>2. p \in Seq(H)
  OBVIOUS
<1> HIDE DEF H
<1>3. p # <<>> => p[1] \in H
  BY <1>2
<1> QED
  BY <1>1, <1>3 DEF EventOf

LEMMA StoredType ==
    ASSUME stream \in Seq(Pos), NEW n \in Pos
    PROVE  /\ Stored(n) \in Seq(Pos)
           /\ \A m : InStream(m) => \E i \in 1..Len(Stored(n)) : Stored(n)[i] = m
           /\ \E i \in 1..Len(Stored(n)) : Stored(n)[i] = n
<1>1. CASE InStream(n)
  BY <1>1 DEF Stored, InStream
<1>2. CASE ~InStream(n)
  <2>1. Stored(n) = Append(stream, n)
    BY <1>2 DEF Stored, InStream
  <2>2. /\ Stored(n) \in Seq(Pos) /\ Len(Stored(n)) = Len(stream) + 1 /\ Len(stream) \in Nat
        /\ Stored(n)[Len(stream) + 1] = n
        /\ \A i \in 1..Len(stream) : Stored(n)[i] = stream[i]
    BY <2>1
  <2> QED
    BY <2>2 DEF InStream
<1> QED
  BY <1>1, <1>2

LEMMA SpoolPlaces ==
    ASSUME TypeInv
    PROVE  Len(spool) \in Nat /\ \A i \in 1..Len(spool) : spool[i] \in Queued
  BY DEF TypeInv, SpoolTypes

LEMMA ChunkType ==
    ASSUME TypeInv
    PROVE  Chunk \in Seq(Half)
<1> DEFINE rest == SubSeq(log, offset + 1, Len(log))
           ends == {i \in 1..Len(rest) : rest[i].end}
           H == Half
<1>1. log \in Seq(H) /\ offset \in Nat
  BY DEF TypeInv, LogTypes, ReaderTypes
<1> HIDE DEF H
<1>2. rest \in Seq(H)
  BY <1>1
<1>3. Len(rest) \in Nat
  BY <1>2
<1>4. CASE ends = {}
  BY <1>2, <1>4 DEF Chunk, H
<1>5. CASE ends # {}
  <2> DEFINE e == CHOOSE i \in ends : \A j \in ends : i <= j
  <2>1. ends \in SUBSET Nat
    BY <1>3
  <2> HIDE DEF ends
  <2>2. e \in ends
    BY <1>5, <2>1, Least
  <2>3. e \in 1..Len(rest)
    BY <2>2 DEF ends
  <2> HIDE DEF e, rest
  <2>4. SubSeq(rest, 1, e) \in Seq(H)
    BY <1>2, <1>3, <2>3
  <2>5. Chunk = SubSeq(rest, 1, e)
    BY <1>5 DEF Chunk, e, ends, rest
  <2> QED
    BY <2>4, <2>5 DEF H
<1> QED
  BY <1>4, <1>5

(* The repair keeps a beginning of the spool.                               *)
LEMMA RepairedType ==
    ASSUME TypeInv
    PROVE  /\ Repaired \in Seq(Queued) /\ Len(Repaired) \in Nat
           /\ Len(Repaired) <= Len(spool)
           /\ \A i \in 1..Len(Repaired) : Repaired[i] = spool[i]
           /\ (\A i \in 1..Len(spool) : spool[i].good) => Repaired = spool
<1> DEFINE bad == {i \in 1..Len(spool) : ~spool[i].good}
           Q == Queued
<1>1. spool \in Seq(Q) /\ Len(spool) \in Nat
  BY SpoolPlaces DEF TypeInv, SpoolTypes, Pos
<1> HIDE DEF Q
<1>2. CASE bad = {}
  BY <1>1, <1>2 DEF Repaired, Q
<1>3. CASE bad # {}
  <2> DEFINE e == CHOOSE i \in bad : \A j \in bad : i <= j
  <2>1. bad \in SUBSET Nat
    BY <1>1
  <2>2. ~ \A i \in 1..Len(spool) : spool[i].good
    BY <1>3
  <2> HIDE DEF bad
  <2>3. e \in bad
    BY <1>3, <2>1, Least
  <2>4. e \in 1..Len(spool)
    BY <2>3 DEF bad
  <2>5. Repaired = SubSeq(spool, 1, e - 1)
    BY <1>3 DEF Repaired, bad, e
  <2> HIDE DEF e
  <2>6. /\ SubSeq(spool, 1, e - 1) \in Seq(Q) /\ Len(SubSeq(spool, 1, e - 1)) = e - 1
        /\ \A i \in 1..(e - 1) : SubSeq(spool, 1, e - 1)[i] = spool[i]
    BY <1>1, <2>4
  <2> QED
    BY <1>1, <2>2, <2>4, <2>5, <2>6 DEF Q
<1> QED
  BY <1>2, <1>3

(* The greatest number in the repaired spool.                               *)
LEMMA MaxSeqType ==
    ASSUME TypeInv
    PROVE  /\ MaxSeq(Repaired) \in Nat
           /\ \A i \in 1..Len(Repaired) : Repaired[i].seq <= MaxSeq(Repaired)
           /\ MaxSeq(Repaired) <= nextSeq
<1> DEFINE S == {Repaired[i].seq : i \in 1..Len(Repaired)} \cup {0}
<1>1. \A i \in 1..Len(Repaired) : Repaired[i].seq \in Nat /\ Repaired[i].seq <= nextSeq
  <2>1. ASSUME NEW i \in 1..Len(Repaired)
        PROVE  Repaired[i].seq \in Nat /\ Repaired[i].seq <= nextSeq
    <3>1. i \in 1..Len(spool) /\ Repaired[i] = spool[i]
      BY RepairedType, SpoolPlaces
    <3>2. spool[i] \in Queued /\ spool[i].seq <= nextSeq
      BY <3>1, SpoolPlaces DEF TypeInv, SpoolTypes, Pos
    <3> QED
      BY <3>1, <3>2 DEF Queued
  <2> QED
    BY <2>1
<1>2. S \in SUBSET Nat /\ S # {} /\ nextSeq \in Nat /\ \A y \in S : y <= nextSeq
  <2>1. nextSeq \in Nat
    BY DEF TypeInv, SpoolTypes, Pos
  <2> QED
    BY <1>1, <2>1
<1>3. MaxSeq(Repaired) = Max(S)
  BY DEF MaxSeq
<1>4. Max(S) \in S /\ \A y \in S : y <= Max(S)
  <2> HIDE DEF S
  <2> QED
    BY <1>2, Greatest
<1> QED
  BY <1>2, <1>3, <1>4

LEMMA MaxOfTwo ==
    ASSUME NEW a \in Nat, NEW b \in Nat
    PROVE  Max({a, b}) \in Nat /\ a <= Max({a, b}) /\ b <= Max({a, b})
<1>1. {a, b} \in SUBSET Nat /\ a + b \in Nat /\ \A y \in {a, b} : y <= a + b
  OBVIOUS
<1>2. Max({a, b}) \in {a, b} /\ \A y \in {a, b} : y <= Max({a, b})
  BY <1>1, Greatest
<1> QED
  BY <1>2
LEMMA LogStep == TypeInv /\ [Next]_vars => LogTypes'
<1> SUFFICES ASSUME TypeInv, [Next]_vars PROVE LogTypes'
  OBVIOUS
<1>1. CASE Write
  <2>1. written' \in Nat
    BY <1>1 DEF Write, TypeInv, LogTypes
  <2>2. PICK b \in BOOLEAN : log' = Append(log, [line |-> written', end |-> b])
    <3>1. PICK b \in BOOLEAN : b = (log # <<>> /\ ~Last(log).end)
      OBVIOUS
    <3>2. log' = Append(log, [line |-> written', end |-> (log # <<>> /\ ~Last(log).end)])
      BY <1>1 DEF Write
    <3>3. log' = Append(log, [line |-> written', end |-> b])
      BY <3>1, <3>2, Zenon
    <3> QED
      BY <3>3
  <2>3. PICK x \in Half : log' = Append(log, x)
    BY <2>1, <2>2 DEF Half
  <2> QED
    BY <2>1, <2>3 DEF TypeInv, LogTypes
<1>2. CASE log' = <<>> /\ written' = written
  BY <1>2 DEF TypeInv, LogTypes
<1>3. CASE UNCHANGED <<log, written>>
  BY <1>3 DEF TypeInv, LogTypes
<1> QED
  BY <1>1, <1>2, <1>3 DEF Next, vars, Truncate, ServerFails, ServerReturns, Poll, Read, Check,
     PublishNow, PublishNowFails, SpoolAppend, SpoolAppendFails, Checkpoint, CheckpointFails,
     FlushBegins, FlushStep, MarkBegins, MarkEnds, MarkFails, Restart

LEMMA Pending ==
    ASSUME TypeInv, pc \in {"check", "send", "append"}
    PROVE  EventOf(pending) \in Pos
  BY EventType DEF TypeInv, ReaderTypes, Pos

(* What is stored in the stream, if anything is.                            *)
LEMMA StreamKinds ==
    ASSUME TypeInv, [Next]_vars
    PROVE  stream' = stream \/ \E n \in Pos : stream' = Stored(n)
<1>1. CASE PublishNow \/ PublishNowFails
  <2>1. pc = "send" /\ (stream' = stream \/ stream' = Stored(EventOf(pending)))
    BY <1>1 DEF PublishNow, PublishNowFails, PublicationFails
  <2> QED
    BY <2>1, Pending
<1>2. CASE FlushStep
  <2>1. \/ stream' = stream
        \/ /\ flush.pc = "replay" /\ ~(flush.pos > Len(spool))
           /\ stream' = Stored(spool[flush.pos].line)
    BY <1>2 DEF FlushStep, PublicationFails
  <2>2. ASSUME flush.pc = "replay", ~(flush.pos > Len(spool)) PROVE spool[flush.pos].line \in Pos
    <3>1. flush.pos \in 1..Len(spool)
      BY <2>2, SpoolPlaces DEF TypeInv, FlushTypes, FlushType
    <3> QED
      BY <3>1 DEF TypeInv, SpoolTypes
  <2> QED
    BY <2>1, <2>2
<1>3. CASE ~(PublishNow \/ PublishNowFails \/ FlushStep)
  BY <1>3 DEF Next, vars, server, Write, Truncate, ServerFails, ServerReturns, Poll, Read, Check,
     SpoolAppend, SpoolAppendFails, Checkpoint, CheckpointFails,
     FlushBegins, MarkBegins, MarkEnds, MarkFails, Restart
<1> QED
  BY <1>1, <1>2, <1>3
LEMMA ServerStep == TypeInv /\ [Next]_vars => ServerTypes'
<1> SUFFICES ASSUME TypeInv, [Next]_vars PROVE ServerTypes'
  OBVIOUS
<1>1. stream' \in Seq(Pos)
  BY StreamKinds, StoredType DEF TypeInv, ServerTypes
<1>2. up' \in BOOLEAN
  BY DEF TypeInv, ServerTypes, Next, vars, server, Write, Truncate, ServerFails, ServerReturns,
     Poll, Read, Check, PublishNow, PublishNowFails, SpoolAppend, SpoolAppendFails, Checkpoint,
     CheckpointFails, FlushBegins, FlushStep, MarkBegins, MarkEnds, MarkFails, Restart
<1> QED
  BY <1>1, <1>2 DEF ServerTypes

LEMMA ReaderStep == TypeInv /\ [Next]_vars => ReaderTypes'
<1> SUFFICES ASSUME TypeInv, [Next]_vars PROVE ReaderTypes'
  OBVIOUS
<1> USE DEF TypeInv, ReaderTypes
<1>1. CASE Poll
  <2>1. pc' = "read" /\ passed' = passed
    BY <1>1 DEF Poll
  <2>2. CASE UNCHANGED <<offset, pending, pendingOffset, checkpoint>>
    BY <2>1, <2>2 DEF Pcs
  <2>3. CASE /\ offset' = 0 /\ pending' = <<>> /\ pendingOffset' = 0
             /\ checkpoint' \in {0, checkpoint}
    BY <2>1, <2>3 DEF Pcs
  <2> QED
    BY <1>1, <2>2, <2>3 DEF Poll
<1>2. CASE Read
  <2>1. /\ offset' = offset + Len(Chunk) /\ pending' = pending \o Chunk
        /\ pendingOffset' \in {offset, pendingOffset} /\ UNCHANGED <<checkpoint, passed>>
        /\ pc' \in {"poll", "checkpoint", "check"}
        /\ pc' = "check" => EventOf(pending') # 0
    BY <1>2 DEF Read, files
  <2>2. Chunk \in Seq(Half) /\ Len(Chunk) \in Nat
    BY ChunkType
  <2>3. pending' \in Seq(Half)
    BY <2>1, <2>2
  <2> QED
    BY <2>1, <2>2, <2>3 DEF Pcs
<1>3. CASE Check \/ PublishNow \/ PublishNowFails \/ SpoolAppend
  <2>1. /\ UNCHANGED <<offset, pending, pendingOffset, checkpoint, passed>>
        /\ pc \in {"check", "send", "append"} /\ pc' \in {"append", "send", "checkpoint"}
    BY <1>3 DEF Check, PublishNow, PublishNowFails, SpoolAppend, files
  <2>2. EventOf(pending') = EventOf(pending)
    BY <2>1
  <2> QED
    BY <2>1, <2>2 DEF Pcs
<1>4. CASE SpoolAppendFails
  BY <1>4 DEF SpoolAppendFails, Pcs
<1>5. CASE Checkpoint \/ CheckpointFails
  <2>1. /\ pc' = "read" /\ pending' = <<>> /\ passed' = passed \cup ({EventOf(pending)} \ {0})
        /\ checkpoint' \in {checkpoint, offset} /\ UNCHANGED <<offset, pendingOffset>>
    BY <1>5 DEF Checkpoint, CheckpointFails, Done, files
  <2>2. EventOf(pending) \in Nat
    BY EventType
  <2>3. passed' \subseteq Pos
    <3>1. PICK e \in Nat : e = EventOf(pending)
      BY <2>2
    <3> QED
      BY <2>1, <3>1 DEF Pos
  <2> QED
    BY <2>1, <2>3 DEF Pcs
<1>6. CASE Restart
  BY <1>6 DEF Restart, Pcs
<1>7. CASE UNCHANGED <<reader, checkpoint, passed>>
  <2>1. UNCHANGED <<pc, offset, pending, pendingOffset, checkpoint, passed>>
    BY <1>7 DEF reader
  <2>2. EventOf(pending') = EventOf(pending)
    BY <2>1
  <2> QED
    BY <2>1, <2>2
<1> QED
  BY <1>1, <1>2, <1>3, <1>4, <1>5, <1>6, <1>7 DEF Next, vars, files, Write, Truncate, ServerFails,
     ServerReturns, FlushBegins, FlushStep, MarkBegins, MarkEnds, MarkFails

(* A write of the spool leaves lines with their numbers.                    *)
LEMMA SpooledType ==
    ASSUME TypeInv, EventOf(pending) \in Pos, NEW g \in BOOLEAN, NEW n \in BOOLEAN
    PROVE  /\ Spooled(g, n) \in Seq(Queued)
           /\ \A i \in 1..Len(Spooled(g, n)) :
                 Spooled(g, n)[i].line \in Pos /\ Spooled(g, n)[i].seq <= nextSeq
<1> DEFINE new == [seq |-> nextSeq, line |-> EventOf(pending), good |-> g, nl |-> n]
           Q == {q \in Queued : q.line \in Pos /\ q.seq <= nextSeq}
<1>1. spool \in Seq(Q) /\ Len(spool) \in Nat
  BY SpoolPlaces DEF TypeInv, SpoolTypes
<1>2. new \in Q
  BY DEF TypeInv, SpoolTypes, Queued, Pos
<1>3. \A q \in Q : q \in Queued /\ [q EXCEPT !.good = FALSE, !.nl = n] \in Q
  BY DEF Queued
<1> HIDE DEF new, Q
<1>4. Spooled(g, n) \in Seq(Q)
  <2>1. CASE spool # <<>> /\ ~Last(spool).nl
    <3>1. Last(spool) \in Q /\ Front(spool) \in Seq(Q)
      BY <1>1, <2>1 DEF Last, Front
    <3>2. Spooled(g, n) = Append(Front(spool), [Last(spool) EXCEPT !.good = FALSE, !.nl = n])
      BY <2>1 DEF Spooled
    <3>3. PICK q \in Q : q = [Last(spool) EXCEPT !.good = FALSE, !.nl = n]
      BY <1>3, <3>1
    <3> QED
      BY <3>1, <3>2, <3>3
  <2>2. CASE ~(spool # <<>> /\ ~Last(spool).nl)
    <3>1. Spooled(g, n) = Append(spool, new)
      BY <2>2 DEF Spooled, new
    <3> QED
      BY <1>1, <1>2, <3>1
  <2> QED
    BY <2>1, <2>2
<1>5. \A i \in 1..Len(Spooled(g, n)) : Spooled(g, n)[i] \in Q
  BY <1>4
<1>6. Spooled(g, n) \in Seq(Queued)
  <2>1. Q \subseteq Queued
    BY <1>3
  <2>2. ASSUME NEW t \in Seq(Q) PROVE t \in Seq(Queued)
    BY <2>1
  <2> QED
    BY <1>4, <2>2
<1> QED
  BY <1>5, <1>6 DEF Q

LEMMA SpoolStep == TypeInv /\ [Next]_vars => SpoolTypes'
<1> SUFFICES ASSUME TypeInv, [Next]_vars PROVE SpoolTypes'
  OBVIOUS
<1>0. nextSeq \in Pos
  BY DEF TypeInv, SpoolTypes
<1>1. CASE SpoolAppend \/ SpoolAppendFails
  <2>1. pc = "append" /\ nextSeq' \in {nextSeq, nextSeq + 1}
    BY <1>1 DEF SpoolAppend, SpoolAppendFails, seqs
  <2>2. \/ spool' = spool
        \/ \E g, n \in BOOLEAN : spool' = Spooled(g, n)
    BY <1>1 DEF SpoolAppend, SpoolAppendFails
  <2>3. /\ spool' \in Seq(Queued)
        /\ \A i \in 1..Len(spool') : spool'[i].line \in Pos /\ spool'[i].seq <= nextSeq
    BY <2>1, <2>2, SpooledType, Pending DEF TypeInv, SpoolTypes
  <2>4. \A i \in 1..Len(spool') : spool'[i].seq \in Nat
    <3>1. Len(spool') \in Nat /\ \A i \in 1..Len(spool') : spool'[i] \in Queued
      BY <2>3
    <3> QED
      BY <3>1 DEF Queued
  <2> QED
    BY <1>0, <2>1, <2>3, <2>4 DEF SpoolTypes, Pos
<1>2. CASE Restart
  <2>1. /\ spool' = Repaired /\ nextSeq' = Max({MaxSeq(Repaired), commitFile}) + 1
    BY <1>2 DEF Restart, seqs
  <2>2. /\ MaxSeq(Repaired) \in Nat /\ commitFile \in Nat
        /\ \A i \in 1..Len(Repaired) : Repaired[i].seq <= MaxSeq(Repaired)
    BY MaxSeqType DEF TypeInv, FlushTypes
  <2>3. /\ Max({MaxSeq(Repaired), commitFile}) \in Nat
        /\ MaxSeq(Repaired) <= Max({MaxSeq(Repaired), commitFile})
    BY <2>2, MaxOfTwo
  <2>4. \A i \in 1..Len(Repaired) : Repaired[i].line \in Pos /\ Repaired[i].seq \in Nat
    <3>1. ASSUME NEW i \in 1..Len(Repaired)
          PROVE  Repaired[i].line \in Pos /\ Repaired[i].seq \in Nat
      <4>1. i \in 1..Len(spool) /\ Repaired[i] = spool[i]
        BY RepairedType, SpoolPlaces
      <4>2. spool[i] \in Queued /\ spool[i].line \in Pos
        BY <4>1, SpoolPlaces DEF TypeInv, SpoolTypes
      <4> QED
        BY <4>1, <4>2 DEF Queued
    <3> QED
      BY <3>1
  <2>5. \A i \in 1..Len(Repaired) : Repaired[i].seq <= nextSeq'
    BY <2>1, <2>2, <2>3, <2>4
  <2>6. nextSeq' \in Pos /\ Repaired \in Seq(Queued)
    BY <2>1, <2>3, RepairedType DEF Pos
  <2> QED
    BY <2>1, <2>4, <2>5, <2>6 DEF SpoolTypes
<1>3. CASE UNCHANGED <<spool, nextSeq>>
  BY <1>3 DEF TypeInv, SpoolTypes
<1> QED
  BY <1>1, <1>2, <1>3 DEF Next, vars, files, seqs, Write, Truncate, ServerFails, ServerReturns, Poll,
     Read, Check, PublishNow, PublishNowFails, Checkpoint, CheckpointFails, FlushBegins,
     FlushStep, MarkBegins, MarkEnds, MarkFails

LEMMA FlushTypesStep == TypeInv /\ [Next]_vars => FlushTypes'
<1> SUFFICES ASSUME TypeInv, [Next]_vars PROVE FlushTypes'
  OBVIOUS
<1>0. /\ flush.pc \in {"idle", "replay", "mark", "write"} /\ flush.pos \in Nat
      /\ flush.done \in Nat /\ flush = [pc |-> flush.pc, pos |-> flush.pos, done |-> flush.done]
      /\ committed \in Nat /\ commitFile \in Nat
      /\ flush.pc = "replay" => flush.pos > 0
  BY DEF TypeInv, FlushTypes, FlushType
<1>a. ASSUME NEW p \in {"idle", "mark", "write"}, FlushTo(p)
      PROVE  flush' = [pc |-> p, pos |-> flush.pos, done |-> flush.done]
  BY <1>0, <1>a DEF FlushTo
<1> USE DEF FlushTypes, FlushType
<1>1. CASE FlushBegins
  BY <1>0, <1>1 DEF FlushBegins, files, seqs
<1>2. CASE FlushStep
  <2>1. /\ UNCHANGED <<committed, commitFile>> /\ flush.pc = "replay"
        /\ \/ FlushStops
           \/ flush' = [flush EXCEPT !.pos = @ + 1]
           \/ /\ ~(flush.pos > Len(spool))
              /\ flush' = [flush EXCEPT !.pos = @ + 1, !.done = spool[flush.pos].seq]
    BY <1>2 DEF FlushStep, files, seqs
  <2>2. CASE FlushStops
    <3>1. \E p \in {"idle", "mark"} : FlushTo(p)
      BY <2>2 DEF FlushStops
    <3>2. PICK p \in {"idle", "mark"} : FlushTo(p)
      BY <3>1
    <3> QED
      BY <1>0, <2>1, <3>2, <1>a
  <2>3. CASE flush' = [flush EXCEPT !.pos = @ + 1]
    <3>1. flush' = [pc |-> "replay", pos |-> flush.pos + 1, done |-> flush.done]
      BY <1>0, <2>1, <2>3
    <3> QED
      BY <1>0, <2>1, <3>1
  <2>4. CASE /\ ~(flush.pos > Len(spool))
             /\ flush' = [flush EXCEPT !.pos = @ + 1, !.done = spool[flush.pos].seq]
    <3>1. flush' = [pc |-> "replay", pos |-> flush.pos + 1, done |-> spool[flush.pos].seq]
      BY <1>0, <2>1, <2>4
    <3>2. flush.pos \in 1..Len(spool)
      BY <1>0, <2>1, <2>4, SpoolPlaces
    <3>3. spool[flush.pos].seq \in Nat
      BY <3>2, SpoolPlaces DEF Queued
    <3> QED
      BY <1>0, <2>1, <3>1, <3>3
  <2> QED
    BY <2>1, <2>2, <2>3, <2>4
<1>3. CASE MarkBegins
  <2>1. /\ UNCHANGED committed
        /\ \/ flush' = FlushIdle /\ commitFile' = commitFile
           \/ FlushTo("write") /\ commitFile' = 0
    BY <1>3 DEF MarkBegins, seqs
  <2> QED
    BY <1>0, <1>a, <2>1 DEF FlushIdle
<1>4. CASE MarkEnds \/ MarkFails \/ Restart
  <2>1. /\ flush' = FlushIdle /\ committed' \in {committed, commitFile, flush.done}
        /\ commitFile' \in {commitFile, flush.done}
    BY <1>4 DEF MarkEnds, MarkFails, Restart, files, seqs
  <2> QED
    BY <1>0, <2>1 DEF FlushIdle
<1>5. CASE UNCHANGED <<flush, committed, commitFile>>
  BY <1>0, <1>5
<1> QED
  BY <1>1, <1>2, <1>3, <1>4, <1>5 DEF Next, vars, files, seqs, Write, Truncate, ServerFails,
     ServerReturns, Poll, Read, Check, PublishNow, PublishNowFails, SpoolAppend,
     SpoolAppendFails, Checkpoint, CheckpointFails

LEMMA CountStep == TypeInv /\ [Next]_vars => CountTypes' /\ tears' >= tears
<1> SUFFICES ASSUME TypeInv, [Next]_vars PROVE CountTypes' /\ tears' >= tears
  OBVIOUS
<1>0. CountTypes
  BY DEF TypeInv
<1> USE DEF CountTypes, counts
<1>1. CASE Write \/ Truncate \/ ServerFails \/ ServerReturns \/ Read \/ Check
  BY <1>0, <1>1 DEF Write, Truncate, ServerFails, ServerReturns, Read, Check
<1>2. CASE Poll
  <2>1. /\ UNCHANGED <<truncations, crashes, outages, lost, tears>>
        /\ faults' = faults \/ faults' = faults + 1
    BY <1>2 DEF Poll
  <2> QED
    BY <1>0, <2>1
<1>3. CASE PublishNow \/ SpoolAppend \/ FlushBegins \/ MarkBegins \/ MarkEnds \/ Checkpoint
  <2>1. UNCHANGED counts
    BY <1>3 DEF PublishNow, SpoolAppend, FlushBegins, MarkBegins, MarkEnds, Checkpoint
  <2> QED
    BY <1>0, <2>1
<1>4. CASE PublishNowFails \/ FlushStep
  <2>1. /\ UNCHANGED <<truncations, crashes, outages, faults, tears>>
        /\ lost' = lost \/ lost' = lost + 1
    BY <1>4 DEF PublishNowFails, FlushStep, PublicationFails
  <2> QED
    BY <1>0, <2>1
<1>5. CASE SpoolAppendFails
  <2>1. /\ UNCHANGED <<truncations, crashes, outages, lost>> /\ faults' = faults + 1
        /\ tears' = tears \/ tears' = tears + 1
    BY <1>5 DEF SpoolAppendFails
  <2> QED
    BY <1>0, <2>1
<1>6. CASE CheckpointFails \/ MarkFails \/ Restart
  BY <1>0, <1>6 DEF CheckpointFails, MarkFails, Restart
<1>7. CASE UNCHANGED vars
  BY <1>0, <1>7 DEF vars
<1> QED
  BY <1>1, <1>2, <1>3, <1>4, <1>5, <1>6, <1>7 DEF Next

LEMMA TypeStep == TypeInv /\ [Next]_vars => TypeInv'
  BY LogStep, ServerStep, ReaderStep, SpoolStep, FlushTypesStep, CountStep DEF TypeInv
LEMMA TypeAlways == Spec => []TypeInv
  BY TypeInit, TypeStep, PTL DEF Spec

(* Every variable keeps its type: the lines of the spool can be numbered    *)
(* and published, whatever has been torn, glued or repaired.                *)
THEOREM TypeCorrect == Spec => []TypeOK
  BY TypeAlways, Types, PTL

-----------------------------------------------------------------------------
(* The stream, the spool and the reader while no write of the spool fails *)

InSpoolFile(n) == \E i \in 1..Len(spool) : spool[i].line = n

LEMMA StreamGrows ==
    ASSUME TypeInv, [Next]_vars
    PROVE  \A m : InStream(m) => InStream(m)'
<1>1. CASE stream' = stream
  BY <1>1 DEF InStream
<1>2. ASSUME NEW n \in Pos, stream' = Stored(n)
      PROVE  \A m : InStream(m) => InStream(m)'
  <2>1. \A m : InStream(m) => \E i \in 1..Len(Stored(n)) : Stored(n)[i] = m
    BY <1>2, StoredType DEF TypeInv, ServerTypes
  <2>2. \A m : InStream(m)' <=> \E i \in 1..Len(Stored(n)) : Stored(n)[i] = m
    BY <1>2 DEF InStream
  <2> QED
    BY <2>1, <2>2
<1> QED
  BY <1>1, <1>2, StreamKinds

(* The spool is whole, and its numbers grow.                                *)
Whole ==
    /\ \A i \in 1..Len(spool) :
          spool[i].good /\ spool[i].nl /\ 0 < spool[i].seq /\ spool[i].seq < nextSeq
    /\ \A i, j \in 1..Len(spool) : i < j => spool[i].seq < spool[j].seq
    /\ committed < nextSeq /\ commitFile < nextSeq /\ flush.done < nextSeq

(* What the watermark counts is in the stream, in memory, in the commit     *)
(* file and on the way there; the flush is through with what is before its  *)
(* position, and has counted nothing of what is behind.                     *)
Marked ==
    /\ \A i \in 1..Len(spool) :
          spool[i].seq <= committed \/ spool[i].seq <= commitFile \/ spool[i].seq <= flush.done
          => InStream(spool[i].line)
    /\ flush.pc = "replay" => \A i \in 1..Len(spool) :
          IF i < flush.pos THEN InStream(spool[i].line) ELSE flush.done < spool[i].seq

(* What the reader has left behind, or is about to.                         *)
Held ==
    /\ \A n \in passed : InStream(n) \/ InSpoolFile(n)
    /\ pc = "checkpoint" /\ EventOf(pending) # 0 =>
          InStream(EventOf(pending)) \/ InSpoolFile(EventOf(pending))

Clean == tears = 0 => Whole /\ Marked /\ Held

LEMMA Numbers ==
    ASSUME TypeInv
    PROVE  /\ nextSeq \in Nat /\ nextSeq > 0 /\ committed \in Nat /\ commitFile \in Nat
           /\ flush.done \in Nat /\ flush.pos \in Nat
           /\ Len(spool) \in Nat
           /\ \A i \in 1..Len(spool) : spool[i].seq \in Nat /\ spool[i].line \in Pos
<1>1. ASSUME NEW i \in 1..Len(spool)
      PROVE  spool[i].seq \in Nat /\ spool[i].line \in Pos
  BY SpoolPlaces DEF TypeInv, SpoolTypes, Queued
<1> QED
  BY <1>1, SpoolPlaces DEF TypeInv, SpoolTypes, FlushTypes, FlushType, Pos

(* While no write of the spool fails, it changes by a whole line.           *)
LEMMA SpoolKinds ==
    ASSUME TypeInv, Whole, tears' = tears, [Next]_vars
    PROVE  \/ spool' = spool /\ ~SpoolAppend
           \/ /\ SpoolAppend /\ Len(spool') = Len(spool) + 1
              /\ spool'[Len(spool) + 1] = [seq |-> nextSeq, line |-> EventOf(pending),
                                           good |-> TRUE, nl |-> TRUE]
              /\ \A i \in 1..Len(spool) : spool'[i] = spool[i]
<1>1. CASE SpoolAppend
  <2>1. ~(spool # <<>> /\ ~Last(spool).nl)
    BY SpoolPlaces DEF Whole, Last, TypeInv, SpoolTypes
  <2>2. PICK x : x = [seq |-> nextSeq, line |-> EventOf(pending), good |-> TRUE, nl |-> TRUE]
    OBVIOUS
  <2>3. spool' = Append(spool, x)
    BY <1>1, <2>1, <2>2 DEF SpoolAppend, Spooled
  <2>4. /\ Len(spool') = Len(spool) + 1 /\ spool'[Len(spool) + 1] = x
        /\ \A i \in 1..Len(spool) : spool'[i] = spool[i]
    BY <2>3 DEF TypeInv, SpoolTypes
  <2> QED
    BY <1>1, <2>2, <2>4
<1>2. CASE SpoolAppendFails
  <2>1. (spool' = spool \/ tears' = tears + 1) /\ nextSeq' = nextSeq
    BY <1>2 DEF SpoolAppendFails, seqs
  <2>2. tears + 1 # tears
    BY DEF TypeInv, CountTypes
  <2>3. CASE SpoolAppend
    <3>1. nextSeq' = nextSeq + 1 /\ nextSeq \in Nat
      BY <2>3, Numbers DEF SpoolAppend
    <3> QED
      BY <2>1, <3>1
  <2> QED
    BY <2>1, <2>2, <2>3
<1>3. CASE Restart
  <2>1. spool' = Repaired /\ pc' = "poll"
    BY <1>3 DEF Restart
  <2>2. ~SpoolAppend
    BY <2>1 DEF SpoolAppend
  <2> QED
    BY <2>1, <2>2, RepairedType DEF Whole
<1> QED
  BY <1>1, <1>2, <1>3 DEF Next, vars, files, Write, Truncate, ServerFails, ServerReturns, Poll,
     Read, Check, PublishNow, PublishNowFails, Checkpoint, CheckpointFails, FlushBegins,
     FlushStep, MarkBegins, MarkEnds, MarkFails

(* The replay ends, passes over a line that counts as committed, or stores  *)
(* one.                                                                     *)
LEMMA FlushStepIs ==
    ASSUME TypeInv, FlushStep
    PROVE  /\ flush.pc = "replay" /\ UNCHANGED <<spool, nextSeq, committed, commitFile>>
           /\ \/ flush'.pc # "replay" /\ flush'.done = flush.done
              \/ /\ flush.pos \in 1..Len(spool)
                 /\ flush'.pos = flush.pos + 1
                 /\ \/ spool[flush.pos].seq <= committed /\ flush'.done = flush.done
                    \/ /\ stream' = Stored(spool[flush.pos].line)
                       /\ flush'.done = spool[flush.pos].seq
<1>0. /\ flush.pos \in Nat /\ flush.pos > 0 /\ Len(spool) \in Nat
      /\ flush = [pc |-> flush.pc, pos |-> flush.pos, done |-> flush.done]
      /\ flush.pc = "replay"
  BY SpoolPlaces DEF TypeInv, FlushTypes, FlushType, FlushStep
<1>1. UNCHANGED <<spool, nextSeq, committed, commitFile>>
  BY DEF FlushStep, files, seqs
<1>2. CASE FlushStops
  <2>1. \E p \in {"idle", "mark"} : flush' = [flush EXCEPT !.pc = p]
    BY <1>2 DEF FlushStops, FlushTo
  <2>2. PICK p \in {"idle", "mark"} : flush' = [flush EXCEPT !.pc = p]
    BY <2>1
  <2> QED
    BY <1>0, <1>1, <2>2
<1>3. CASE ~FlushStops
  <2>1. /\ ~(flush.pos > Len(spool))
        /\ \/ /\ spool[flush.pos].seq <= committed
              /\ flush' = [flush EXCEPT !.pos = @ + 1]
           \/ /\ stream' = Stored(spool[flush.pos].line)
              /\ flush' = [flush EXCEPT !.pos = @ + 1, !.done = spool[flush.pos].seq]
    BY <1>3 DEF FlushStep
  <2>2. CASE /\ spool[flush.pos].seq <= committed
             /\ flush' = [flush EXCEPT !.pos = @ + 1]
    <3>1. flush'.pos = flush.pos + 1 /\ flush'.done = flush.done
      BY <1>0, <2>2
    <3> QED
      BY <1>0, <1>1, <2>1, <2>2, <3>1
  <2>3. CASE /\ stream' = Stored(spool[flush.pos].line)
             /\ flush' = [flush EXCEPT !.pos = @ + 1, !.done = spool[flush.pos].seq]
    <3>1. flush'.pos = flush.pos + 1 /\ flush'.done = spool[flush.pos].seq
      BY <1>0, <2>3
    <3> QED
      BY <1>0, <1>1, <2>1, <2>3, <3>1
  <2> QED
    BY <2>1, <2>2, <2>3
<1> QED
  BY <1>2, <1>3

LEMMA MarkBeginsIs ==
    ASSUME TypeInv, MarkBegins
    PROVE  /\ UNCHANGED <<spool, nextSeq, committed, stream>>
           /\ commitFile' \in {0, commitFile} /\ flush'.done \in {0, flush.done}
           /\ flush'.pc # "replay"
<1>1. CASE flush' = FlushIdle
  BY <1>1 DEF MarkBegins, server, seqs, FlushIdle
<1>2. CASE FlushTo("write")
  <2>1. flush' = [flush EXCEPT !.pc = "write"] /\ flush \in FlushType
    BY <1>2 DEF FlushTo, TypeInv, FlushTypes
  <2>2. flush'.done = flush.done /\ flush'.pc = "write"
    BY <2>1 DEF FlushType
  <2> QED
    BY <2>2 DEF MarkBegins, server, seqs
<1> QED
  BY <1>1, <1>2 DEF MarkBegins

LEMMA RestartIs ==
    ASSUME TypeInv, Whole, Restart
    PROVE  /\ spool' = spool /\ committed' = commitFile /\ commitFile' = commitFile
           /\ stream' = stream /\ flush' = FlushIdle
           /\ nextSeq' \in Nat /\ commitFile < nextSeq'
           /\ \A i \in 1..Len(spool) : spool[i].seq < nextSeq'
<1>1. Repaired = spool
  BY RepairedType DEF Whole
<1>2. /\ spool' = spool /\ committed' = commitFile /\ commitFile' = commitFile
      /\ stream' = stream /\ flush' = FlushIdle
      /\ nextSeq' = Max({MaxSeq(spool), commitFile}) + 1
  BY <1>1 DEF Restart, server, seqs
<1>3. /\ MaxSeq(spool) \in Nat /\ commitFile \in Nat
      /\ \A i \in 1..Len(spool) : spool[i].seq <= MaxSeq(spool) /\ spool[i].seq \in Nat
  BY <1>1, MaxSeqType, Numbers
<1>4. /\ Max({MaxSeq(spool), commitFile}) \in Nat
      /\ MaxSeq(spool) <= Max({MaxSeq(spool), commitFile})
      /\ commitFile <= Max({MaxSeq(spool), commitFile})
  BY <1>3, MaxOfTwo
<1> DEFINE m == Max({MaxSeq(spool), commitFile})
<1>5. m \in Nat /\ nextSeq' = m + 1 /\ MaxSeq(spool) <= m /\ commitFile <= m
  BY <1>2, <1>4
<1> HIDE DEF m
<1>6. nextSeq' \in Nat /\ commitFile < nextSeq'
  BY <1>3, <1>5
<1>7. \A i \in 1..Len(spool) : spool[i].seq < nextSeq'
  BY <1>3, <1>5
<1> QED
  BY <1>2, <1>6, <1>7

LEMMA WholeStep ==
    ASSUME TypeInv, Whole, tears' = tears, [Next]_vars
    PROVE  Whole'
<1>n. /\ nextSeq \in Nat /\ nextSeq > 0 /\ committed \in Nat /\ commitFile \in Nat
      /\ flush.done \in Nat /\ Len(spool) \in Nat
      /\ \A i \in 1..Len(spool) : spool[i].seq \in Nat
  BY Numbers
<1>a. ASSUME spool' = spool, nextSeq' = nextSeq, committed' < nextSeq, commitFile' < nextSeq,
             flush'.done < nextSeq
      PROVE  Whole'
  BY <1>a DEF Whole
<1>1. CASE SpoolAppend
  <2>1. /\ nextSeq' = nextSeq + 1 /\ UNCHANGED <<committed, commitFile, flush>>
    BY <1>1 DEF SpoolAppend
  <2>2. /\ Len(spool') = Len(spool) + 1
        /\ spool'[Len(spool) + 1] = [seq |-> nextSeq, line |-> EventOf(pending),
                                     good |-> TRUE, nl |-> TRUE]
        /\ \A i \in 1..Len(spool) : spool'[i] = spool[i]
    BY <1>1, SpoolKinds
  <2>3. spool'[Len(spool) + 1].seq = nextSeq /\ spool'[Len(spool) + 1].good
        /\ spool'[Len(spool) + 1].nl
    BY <2>2
  <2>4. \A i \in 1..Len(spool') :
            spool'[i].good /\ spool'[i].nl /\ 0 < spool'[i].seq /\ spool'[i].seq < nextSeq'
    <3>1. ASSUME NEW i \in 1..Len(spool')
          PROVE  spool'[i].good /\ spool'[i].nl /\ 0 < spool'[i].seq /\ spool'[i].seq < nextSeq'
      <4>1. CASE i = Len(spool) + 1
        BY <4>1, <1>n, <2>1, <2>3
      <4>2. CASE i \in 1..Len(spool)
        BY <4>2, <1>n, <2>1, <2>2 DEF Whole
      <4> QED
        BY <4>1, <4>2, <1>n, <2>2
    <3> QED
      BY <3>1
  <2>5. \A i, j \in 1..Len(spool') : i < j => spool'[i].seq < spool'[j].seq
    <3>1. ASSUME NEW i \in 1..Len(spool'), NEW j \in 1..Len(spool'), i < j
          PROVE  spool'[i].seq < spool'[j].seq
      <4>1. i \in 1..Len(spool) /\ spool'[i] = spool[i]
        BY <3>1, <1>n, <2>2
      <4>2. CASE j = Len(spool) + 1
        BY <4>1, <4>2, <2>3 DEF Whole
      <4>3. CASE j \in 1..Len(spool)
        BY <3>1, <4>1, <4>3, <2>2 DEF Whole
      <4> QED
        BY <4>2, <4>3, <1>n, <2>2
    <3> QED
      BY <3>1
  <2>6. committed < nextSeq /\ commitFile < nextSeq /\ flush.done < nextSeq
    BY DEF Whole
  <2>7. committed' < nextSeq' /\ commitFile' < nextSeq' /\ flush'.done < nextSeq'
    BY <1>n, <2>1, <2>6
  <2> QED
    BY <2>4, <2>5, <2>7 DEF Whole
<1>2. CASE Restart
  <2>1. flush'.done = 0
    BY <1>2, RestartIs DEF FlushIdle
  <2> QED
    BY <1>2, <1>n, <2>1, RestartIs DEF Whole
<1>3. CASE FlushStep
  <2>1. flush'.done < nextSeq
    BY <1>3, FlushStepIs DEF Whole
  <2> QED
    BY <1>3, <1>a, <2>1, FlushStepIs DEF Whole
<1>4. CASE MarkBegins
  BY <1>4, <1>a, <1>n, MarkBeginsIs DEF Whole
<1>5. CASE MarkEnds \/ MarkFails \/ FlushBegins
  <2>1. /\ UNCHANGED <<spool, nextSeq>> /\ flush'.done = 0
        /\ committed' \in {committed, flush.done} /\ commitFile' \in {commitFile, flush.done}
    BY <1>5 DEF MarkEnds, MarkFails, FlushBegins, FlushIdle, files, seqs
  <2> QED
    BY <2>1, <1>a, <1>n DEF Whole
<1>6. CASE UNCHANGED <<spool, nextSeq, committed, commitFile, flush>>
  BY <1>6, <1>a DEF Whole
<1>7. CASE SpoolAppendFails
  <2>1. spool' = spool
    BY <1>7, SpoolKinds DEF SpoolAppendFails, SpoolAppend
  <2> QED
    BY <1>7, <2>1, <1>6 DEF SpoolAppendFails, seqs
<1> QED
  BY <1>1, <1>2, <1>3, <1>4, <1>5, <1>6, <1>7 DEF Next, vars, files, seqs, Write, Truncate,
     ServerFails, ServerReturns, Poll, Read, Check, PublishNow, PublishNowFails, Checkpoint,
     CheckpointFails

LEMMA MarkedStep ==
    ASSUME TypeInv, Whole, Marked, tears' = tears, [Next]_vars
    PROVE  Marked'
<1>n. /\ nextSeq \in Nat /\ nextSeq > 0 /\ committed \in Nat /\ commitFile \in Nat
      /\ flush.done \in Nat /\ Len(spool) \in Nat /\ flush.pos \in Nat
      /\ \A i \in 1..Len(spool) : spool[i].seq \in Nat /\ spool[i].line \in Pos
  BY Numbers
<1>g. \A m : InStream(m) => InStream(m)'
  BY StreamGrows
<1>a. ASSUME spool' = spool, flush'.pc = "replay" => flush' = flush,
             committed' \in {committed, commitFile, flush.done},
             commitFile' \in {0, commitFile, flush.done}, flush'.done \in {0, flush.done}
      PROVE  Marked'
  <2>1. ASSUME NEW i \in 1..Len(spool),
               \/ spool[i].seq <= committed' \/ spool[i].seq <= commitFile'
               \/ spool[i].seq <= flush'.done
        PROVE  InStream(spool[i].line)'
    <3>1. spool[i].seq > 0
      BY <2>1 DEF Whole
    <3>2. spool[i].seq <= committed \/ spool[i].seq <= commitFile \/ spool[i].seq <= flush.done
      BY <1>a, <1>n, <2>1, <3>1
    <3>3. PICK n : n = spool[i].line
      OBVIOUS
    <3>4. InStream(n)
      BY <2>1, <3>2, <3>3 DEF Marked
    <3> QED
      BY <3>3, <3>4, <1>g, <1>a DEF InStream
  <2>2. ASSUME flush'.pc = "replay", NEW i \in 1..Len(spool)
        PROVE  IF i < flush'.pos THEN InStream(spool[i].line)' ELSE flush'.done < spool[i].seq
    <3>1. PICK n : n = spool[i].line
      OBVIOUS
    <3>2. IF i < flush.pos THEN InStream(n) ELSE flush.done < spool[i].seq
      BY <1>a, <2>2, <3>1 DEF Marked
    <3> QED
      BY <1>a, <2>2, <3>1, <3>2, <1>g DEF InStream
  <2> QED
    BY <1>a, <2>1, <2>2 DEF Marked, InStream
<1>1. CASE SpoolAppend
  <2>1. UNCHANGED <<committed, commitFile, flush, stream>> /\ flush.pc # "replay"
    BY <1>1 DEF SpoolAppend, server, Locked
  <2>2. /\ Len(spool') = Len(spool) + 1 /\ spool'[Len(spool) + 1].seq = nextSeq
        /\ \A i \in 1..Len(spool) : spool'[i] = spool[i]
    <3>1. spool'[Len(spool) + 1] = [seq |-> nextSeq, line |-> EventOf(pending),
                                    good |-> TRUE, nl |-> TRUE]
      BY <1>1, SpoolKinds
    <3> QED
      BY <1>1, <3>1, SpoolKinds
  <2>3. ASSUME NEW i \in 1..Len(spool'),
               \/ spool'[i].seq <= committed \/ spool'[i].seq <= commitFile
               \/ spool'[i].seq <= flush.done
        PROVE  InStream(spool'[i].line)
    <3>1. i # Len(spool) + 1
      BY <2>2, <2>3, <1>n DEF Whole
    <3>2. i \in 1..Len(spool)
      BY <2>2, <3>1, <1>n
    <3> QED
      BY <2>2, <2>3, <3>2 DEF Marked
  <2> QED
    BY <2>1, <2>3 DEF Marked, InStream
<1>2. CASE Restart
  BY <1>2, <1>a, RestartIs DEF FlushIdle
<1>3. CASE FlushStep
  <2>0. flush.pc = "replay" /\ UNCHANGED <<spool, committed, commitFile>>
    BY <1>3, FlushStepIs
  <2>1. CASE flush'.pc # "replay" /\ flush'.done = flush.done
    BY <2>0, <2>1, <1>a
  <2>2. CASE /\ flush.pos \in 1..Len(spool)
             /\ flush'.pos = flush.pos + 1
             /\ \/ spool[flush.pos].seq <= committed /\ flush'.done = flush.done
                \/ /\ stream' = Stored(spool[flush.pos].line)
                   /\ flush'.done = spool[flush.pos].seq
    <3>1. PICK p \in 1..Len(spool) : p = flush.pos
      BY <2>2
    <3>2. PICK n : n = spool[p].line
      OBVIOUS
    <3>3. n \in Pos /\ spool[p].seq \in Nat
      BY <3>1, <3>2, <1>n
    <3>4. InStream(n)'
      <4>1. CASE spool[p].seq <= committed
        BY <3>2, <4>1, <1>g DEF Marked
      <4>2. CASE stream' = Stored(n)
        BY <4>2, <3>3, StoredType DEF InStream, TypeInv, ServerTypes
      <4> QED
        BY <2>2, <3>1, <3>2, <4>1, <4>2
    <3>5. ASSUME NEW i \in 1..Len(spool), i <= p
          PROVE  InStream(spool[i].line)'
      <4>1. PICK q : q = spool[i].line
        OBVIOUS
      <4>2. InStream(q)'
        <5>1. CASE i = p
          BY <5>1, <3>2, <3>4, <4>1
        <5>2. CASE i < p
          BY <5>2, <2>0, <3>1, <4>1, <1>g DEF Marked
        <5> QED
          BY <3>5, <5>1, <5>2
      <4> QED
        BY <2>0, <4>1, <4>2 DEF InStream
    <3>6. ASSUME NEW i \in 1..Len(spool), p < i
          PROVE  flush'.done < spool[i].seq
      <4>1. CASE flush'.done = flush.done
        BY <2>0, <3>1, <3>6, <4>1 DEF Marked
      <4>2. CASE flush'.done = spool[p].seq
        BY <3>6, <4>2 DEF Whole
      <4> QED
        BY <2>2, <3>1, <4>1, <4>2
    <3>7. ASSUME NEW i \in 1..Len(spool),
                 \/ spool[i].seq <= committed \/ spool[i].seq <= commitFile
                 \/ spool[i].seq <= flush'.done
          PROVE  InStream(spool[i].line)'
      <4>1. CASE i <= p
        BY <4>1, <3>5
      <4>2. CASE p < i
        <5>1. flush'.done \in Nat /\ spool[i].seq \in Nat
          BY <2>2, <3>1, <3>3, <1>n
        <5>2. spool[i].seq <= committed \/ spool[i].seq <= commitFile
          BY <3>6, <3>7, <4>2, <5>1
        <5>3. PICK q : q = spool[i].line
          OBVIOUS
        <5>4. InStream(q)'
          BY <5>2, <5>3, <1>g DEF Marked
        <5> QED
          BY <2>0, <5>3, <5>4 DEF InStream
      <4> QED
        BY <4>1, <4>2
    <3>8. ASSUME NEW i \in 1..Len(spool)
          PROVE  IF i < flush'.pos THEN InStream(spool[i].line)' ELSE flush'.done < spool[i].seq
      <4>1. i < flush'.pos <=> i <= p
        BY <2>2, <3>1, <1>n
      <4> QED
        BY <4>1, <3>5, <3>6, <1>n
    <3> QED
      BY <2>0, <3>7, <3>8 DEF Marked, InStream
  <2> QED
    BY <1>3, <2>1, <2>2, FlushStepIs
<1>4. CASE MarkBegins
  BY <1>4, <1>a, MarkBeginsIs
<1>5. CASE MarkEnds \/ MarkFails
  <2>1. /\ UNCHANGED spool /\ flush'.done = 0 /\ flush'.pc = "idle"
        /\ committed' \in {committed, flush.done} /\ commitFile' \in {commitFile, flush.done}
    BY <1>5 DEF MarkEnds, MarkFails, FlushIdle, files, seqs
  <2> QED
    BY <2>1, <1>a
<1>6. CASE FlushBegins
  <2>1. /\ UNCHANGED <<spool, committed, commitFile, stream>>
        /\ flush'.pc = "replay" /\ flush'.pos = 1 /\ flush'.done = 0
    BY <1>6 DEF FlushBegins, files, seqs, server
  <2>2. \A i \in 1..Len(spool) : ~(i < 1) /\ 0 < spool[i].seq /\ ~(spool[i].seq <= 0)
    BY <1>n DEF Whole
  <2> QED
    BY <2>1, <2>2 DEF Marked, InStream
<1>7. CASE UNCHANGED <<spool, committed, commitFile, flush>>
  BY <1>7, <1>a
<1>8. CASE SpoolAppendFails
  <2>1. spool' = spool
    BY <1>8, SpoolKinds DEF SpoolAppendFails, SpoolAppend
  <2> QED
    BY <1>8, <2>1, <1>7 DEF SpoolAppendFails, seqs
<1> QED
  BY <1>1, <1>2, <1>3, <1>4, <1>5, <1>6, <1>7, <1>8 DEF Next, vars, files, seqs, Write, Truncate,
     ServerFails, ServerReturns, Poll, Read, Check, PublishNow, PublishNowFails, Checkpoint,
     CheckpointFails

LEMMA HeldStep ==
    ASSUME TypeInv, Whole, Held, tears' = tears, [Next]_vars
    PROVE  Held'
<1>g. \A n : InStream(n) \/ InSpoolFile(n) => InStream(n)' \/ InSpoolFile(n)'
  <2>1. ASSUME NEW n, InSpoolFile(n) PROVE InSpoolFile(n)'
    <3>1. PICK i \in 1..Len(spool) : spool[i].line = n
      BY <2>1 DEF InSpoolFile
    <3>2. spool'[i] = spool[i] /\ i \in 1..Len(spool')
      BY SpoolKinds, Numbers
    <3> QED
      BY <3>1, <3>2 DEF InSpoolFile
  <2> QED
    BY <2>1, StreamGrows
<1>a. ASSUME passed' = passed,
             pc' = "checkpoint" => UNCHANGED <<pc, pending>> \/ EventOf(pending') = 0
      PROVE  Held'
  <2>1. \A n \in passed : InStream(n)' \/ InSpoolFile(n)'
    BY <1>g DEF Held
  <2>2. PICK e : e = EventOf(pending')
    OBVIOUS
  <2>3. pc' = "checkpoint" /\ e # 0 => InStream(e)' \/ InSpoolFile(e)'
    BY <1>a, <1>g, <2>2 DEF Held
  <2> QED
    BY <1>a, <2>1, <2>2, <2>3 DEF Held, InStream, InSpoolFile
<1>b. ASSUME UNCHANGED <<passed, pending>>, NEW e, e = EventOf(pending),
             InStream(e)' \/ InSpoolFile(e)'
      PROVE  Held'
  <2>1. \A n \in passed : InStream(n)' \/ InSpoolFile(n)'
    BY <1>g DEF Held
  <2>2. EventOf(pending') = e
    BY <1>b
  <2> QED
    BY <1>b, <2>1, <2>2 DEF Held, InStream, InSpoolFile
<1>1. CASE PublishNow
  <2>1. PICK e \in Pos : e = EventOf(pending)
    BY <1>1, Pending DEF PublishNow
  <2>2. stream' = Stored(e) /\ UNCHANGED <<passed, pending>>
    BY <1>1, <2>1 DEF PublishNow
  <2>3. InStream(e)'
    BY <2>2, StoredType DEF InStream, TypeInv, ServerTypes
  <2> QED
    BY <2>1, <2>2, <2>3, <1>b
<1>2. CASE SpoolAppend
  <2>1. PICK e : e = EventOf(pending)
    OBVIOUS
  <2>2. /\ Len(spool') = Len(spool) + 1 /\ Len(spool) \in Nat
        /\ spool'[Len(spool) + 1] = [seq |-> nextSeq, line |-> e, good |-> TRUE, nl |-> TRUE]
    BY <1>2, <2>1, SpoolKinds, Numbers
  <2>3. Len(spool) + 1 \in 1..Len(spool') /\ spool'[Len(spool) + 1].line = e
    BY <2>2
  <2>4. InSpoolFile(e)'
    BY <2>3 DEF InSpoolFile
  <2>5. UNCHANGED <<passed, pending>>
    BY <1>2 DEF SpoolAppend
  <2> QED
    BY <2>1, <2>4, <2>5, <1>b
<1>3. CASE Checkpoint \/ CheckpointFails
  <2>1. /\ pc = "checkpoint" /\ pc' = "read"
        /\ passed' = passed \cup ({EventOf(pending)} \ {0})
    BY <1>3 DEF Checkpoint, CheckpointFails, Done
  <2>2. PICK e : e = EventOf(pending)
    OBVIOUS
  <2>3. \A n \in passed' : InStream(n)' \/ InSpoolFile(n)'
    BY <2>1, <2>2, <1>g DEF Held
  <2> QED
    BY <2>1, <2>3 DEF Held, InStream, InSpoolFile
<1>4. CASE Read
  <2>1. passed' = passed /\ (pc' = "checkpoint" => EventOf(pending') = 0)
    BY <1>4 DEF Read
  <2> QED
    BY <2>1, <1>a
<1>5. CASE Poll \/ Check \/ PublishNowFails \/ SpoolAppendFails \/ Restart
  <2>1. passed' = passed /\ pc' # "checkpoint"
    BY <1>5 DEF Poll, Check, PublishNowFails, SpoolAppendFails, Restart
  <2> QED
    BY <2>1, <1>a
<1>6. CASE UNCHANGED <<passed, pc, pending>>
  BY <1>6, <1>a
<1> QED
  BY <1>1, <1>2, <1>3, <1>4, <1>5, <1>6 DEF Next, vars, reader, Write, Truncate, ServerFails,
     ServerReturns, FlushBegins, FlushStep, MarkBegins, MarkEnds, MarkFails

LEMMA CleanInit == Init => Clean
<1> SUFFICES ASSUME Init PROVE Clean
  OBVIOUS
<1>1. spool = <<>> /\ passed = {} /\ pc = "poll" /\ flush.pc = "idle" /\ flush.done = 0
      /\ committed = 0 /\ commitFile = 0 /\ nextSeq = 1
  BY DEF Init, FlushIdle
<1> QED
  BY <1>1 DEF Clean, Whole, Marked, Held

LEMMA CleanStep == TypeInv /\ Clean /\ [Next]_vars => Clean'
<1> SUFFICES ASSUME TypeInv, Clean, [Next]_vars, tears' = 0
             PROVE  Whole' /\ Marked' /\ Held'
  BY DEF Clean
<1>1. tears' = tears
  BY CountStep DEF TypeInv, CountTypes
<1>2. Whole /\ Marked /\ Held
  BY <1>1 DEF Clean
<1> QED
  BY <1>1, <1>2, WholeStep, MarkedStep, HeldStep

LEMMA CleanAlways == Spec => []Clean
  BY CleanInit, CleanStep, TypeAlways, PTL DEF Spec

(* The watermark of the spool, in memory and in the commit file, counts     *)
(* only lines that are in the stream: MarkCommittedUpTo gets the number of  *)
(* a line that was stored after all before it, and openMessageSpool goes on *)
(* with numbers above it.                                                   *)
THEOREM SpoolCorrect == Spec => []SpoolOK
<1>1. Clean => CommittedIsStored
  BY DEF Clean, CommittedIsStored, Marked
<1>2. TypeInv /\ Clean => SpoolOK
  BY <1>1, Types DEF SpoolOK
<1> QED
  BY <1>2, TypeAlways, CleanAlways, PTL

(* A line the reader has checkpointed, or passed with a checkpoint that     *)
(* failed, is in the stream or in the spool above both watermarks, where    *)
(* the flush sends it, now and after a restart.                             *)
THEOREM NothingLost == Spec => []PassedIsKept
<1>1. TypeInv /\ Clean => PassedIsKept
  <2> SUFFICES ASSUME TypeInv, Clean, tears = 0, NEW n \in passed, ~InStream(n)
               PROVE  InSpool(n, committed) /\ InSpool(n, commitFile)
    BY DEF PassedIsKept
  <2>1. PICK i \in 1..Len(spool) : spool[i].line = n
    BY DEF Clean, Held, InSpoolFile
  <2>2. spool[i].good /\ ~(spool[i].seq <= committed) /\ ~(spool[i].seq <= commitFile)
    BY <2>1 DEF Clean, Whole, Marked
  <2>3. spool[i].seq > committed /\ spool[i].seq > commitFile
    BY <2>2, Numbers
  <2> QED
    BY <2>1, <2>2, <2>3 DEF InSpool
<1> QED
  BY <1>1, TypeAlways, CleanAlways, PTL

-----------------------------------------------------------------------------
(***************************************************************************)
(* The order of the stream.                                                *)
(*                                                                         *)
(* The argument runs along the log file: the lines grow with their place   *)
(* (LogInv); the reader knows where its line begins and what of it it has  *)
(* in hand (PlaceInv); what begins between the checkpoint and that place   *)
(* is known to the stream or the spool, and what begins behind it is known *)
(* or greater than all that is known (ReadInv); the spool hands its lines  *)
(* on in that order, and is empty-handed while the reader publishes by     *)
(* itself (SendInv, SpoolOrder).                                           *)
(***************************************************************************)

(* The lines the stream has, those the spool has, and both.                 *)
Arrived == {stream[i] : i \in 1..Len(stream)}
Waiting == {spool[i].line : i \in 1..Len(spool)}
Known == Arrived \cup Waiting

(* A line that may be published next: one of K, or behind all of K.         *)
Fine(K, n) == n \in K \/ \A m \in K : m < n

(* An event begins at a place of the log file.                              *)
Begins(i) == ~log[i].end /\ log[i].line \notin Plain

(* Where the line begins that the reader is about to read, or has in hand.  *)
LineStart == IF pending = <<>> THEN offset ELSE pendingOffset

LogInv ==
    /\ \A i \in 1..Len(log) :
          /\ 0 < log[i].line /\ log[i].line <= written
          /\ ~log[i].end /\ i < Len(log) => log[i + 1].end
    /\ \A i, j \in 1..Len(log) : i < j => log[i].line <= log[j].line
    /\ pending # <<>> => pending[1].line <= written

PlaceInv ==
    /\ pending # <<>> => pendingOffset < offset
    /\ pc \in {"check", "send", "append", "checkpoint"} => pending # <<>>
    /\ faults = 0 => checkpoint = LineStart
    /\ truncations = 0 =>
          /\ offset <= Len(log) /\ checkpoint <= LineStart
          /\ pending # <<>> => pending[1] = log[LineStart + 1]
          /\ \A i \in 1..Len(log) :
                LineStart < i /\ i <= offset /\ log[i].end =>
                    i = offset /\ pc \in {"check", "send", "append", "checkpoint"}

ReadInv ==
    /\ \A n \in Known : n <= written
    /\ \A i \in 1..Len(log) :
          Begins(i) /\ checkpoint < i /\ i <= LineStart => log[i].line \in Known
    /\ \A i \in 1..Len(log) : Begins(i) /\ LineStart < i => Fine(Known, log[i].line)
    /\ pending # <<>> =>
          \A i \in 1..Len(log) : Begins(i) /\ LineStart < i => pending[1].line <= log[i].line
    /\ EventOf(pending) # 0 => Fine(Known, EventOf(pending))
    /\ Len(log) < offset =>
          \A i \in 1..Len(log) : Begins(i) =>
              /\ \A m \in Known : m < log[i].line
              /\ pending # <<>> => pending[1].line < log[i].line

SendInv == pc = "send" => ~HasPending /\ flush.pc # "write"

SpoolOrder ==
    \A i \in 1..Len(spool) :
        \/ spool[i].line \in Arrived
        \/ \E k \in 1..Len(spool) : k < i /\ spool[k].line = spool[i].line
        \/ /\ \A m \in Arrived : m < spool[i].line
           /\ \A k \in 1..Len(spool) : k < i => spool[k].line < spool[i].line

StreamOrder == \A i, j \in 1..Len(stream) : i < j => stream[i] < stream[j]

Cond == tears = 0 /\ (faults = 0 \/ truncations = 0)
OrderInv == Cond => ReadInv /\ SendInv /\ SpoolOrder /\ StreamOrder

InHand == {"check", "send", "append", "checkpoint"}

LEMMA Places ==
    ASSUME TypeInv
    PROVE  /\ Len(log) \in Nat /\ written \in Nat
           /\ \A i \in 1..Len(log) : log[i] \in Half /\ log[i].line \in Nat
           /\ Len(pending) \in Nat /\ offset \in Nat /\ pendingOffset \in Nat
           /\ checkpoint \in Nat /\ LineStart \in Nat
           /\ pending # <<>> => 1 \in 1..Len(pending) /\ pending[1].line \in Nat
           /\ truncations \in Nat /\ faults \in Nat /\ tears \in Nat
<1> DEFINE H == Half
<1>1. log \in Seq(H) /\ pending \in Seq(H)
  BY DEF TypeInv, LogTypes, ReaderTypes
<1>2. \A x \in H : x.line \in Nat
  BY DEF Half
<1> HIDE DEF H
<1>3. Len(log) \in Nat /\ \A i \in 1..Len(log) : log[i] \in H
  BY <1>1
<1>4. Len(pending) \in Nat /\ (pending # <<>> => 1 \in 1..Len(pending) /\ pending[1] \in H)
  BY <1>1
<1> QED
  BY <1>2, <1>3, <1>4 DEF TypeInv, LogTypes, ReaderTypes, CountTypes, LineStart, H

(* A chunk is what follows the offset, up to the end of a line.             *)
LEMMA ChunkIs ==
    ASSUME TypeInv
    PROVE  /\ Chunk \in Seq(Half) /\ Len(Chunk) \in Nat
           /\ Len(log) < offset => Chunk = <<>>
           /\ offset <= Len(log) => offset + Len(Chunk) <= Len(log)
           /\ \A i \in 1..Len(Chunk) :
                 /\ offset + i \in 1..Len(log) /\ Chunk[i] = log[offset + i]
                 /\ Chunk[i].end => i = Len(Chunk)
<1> DEFINE rest == SubSeq(log, offset + 1, Len(log))
           ends == {i \in 1..Len(rest) : rest[i].end}
           H == Half
<1>1. log \in Seq(H) /\ offset \in Nat /\ Len(log) \in Nat
  BY DEF TypeInv, LogTypes, ReaderTypes
<1> HIDE DEF H
<1>2. /\ rest \in Seq(H) /\ Len(rest) \in Nat
      /\ Len(rest) = IF Len(log) < offset THEN 0 ELSE Len(log) - offset
      /\ \A i \in 1..Len(rest) : offset + i \in 1..Len(log) /\ rest[i] = log[offset + i]
  BY <1>1
<1>3. CASE ends = {}
  <2>1. Chunk = rest
    BY <1>3 DEF Chunk
  <2>2. \A i \in 1..Len(rest) : ~rest[i].end
    BY <1>3
  <2>3. Len(log) < offset => rest = <<>>
    BY <1>2
  <2> HIDE DEF rest, ends
  <2> QED
    BY <1>1, <1>2, <2>1, <2>2, <2>3, ChunkType
<1>4. CASE ends # {}
  <2> DEFINE e == CHOOSE i \in ends : \A j \in ends : i <= j
  <2>1. ends \in SUBSET Nat
    BY <1>2
  <2> HIDE DEF ends
  <2>2. e \in ends /\ \A j \in ends : e <= j
    BY <1>4, <2>1, Least
  <2>3. Chunk = SubSeq(rest, 1, e)
    BY <1>4 DEF Chunk, ends
  <2> HIDE DEF e, rest
  <2>4. e \in 1..Len(rest)
    BY <2>2 DEF ends
  <2>5. \A i \in 1..Len(rest) : rest[i].end => e <= i
    BY <2>2 DEF ends
  <2>6. /\ Len(Chunk) = e /\ Len(Chunk) \in Nat
        /\ \A i \in 1..e : Chunk[i] = rest[i]
    BY <1>2, <2>3, <2>4
  <2>7. Len(Chunk) <= Len(rest) /\ 1 <= Len(rest)
    BY <1>2, <2>4, <2>6
  <2>8. /\ ~(Len(log) < offset)
        /\ offset + Len(Chunk) <= Len(log)
    BY <1>1, <1>2, <2>6, <2>7
  <2>9. ASSUME NEW i \in 1..Len(Chunk)
        PROVE  /\ offset + i \in 1..Len(log) /\ Chunk[i] = log[offset + i]
               /\ Chunk[i].end => i = Len(Chunk)
    <3>1. i \in 1..Len(rest) /\ i <= e /\ e \in Nat
      BY <1>2, <2>4, <2>6
    <3> QED
      BY <1>2, <2>5, <2>6, <3>1
  <2> QED
    BY <2>6, <2>8, <2>9, ChunkType
<1> QED
  BY <1>3, <1>4

(* The steps that move the reader or change the log file.                   *)
LEMMA WriteIs ==
    ASSUME TypeInv, Write
    PROVE  /\ UNCHANGED <<offset, pending, pendingOffset, checkpoint, pc, stream, spool, faults,
                          truncations, LineStart>>
           /\ Len(log') = Len(log) + 1
           /\ \A i \in 1..Len(log) : log'[i] = log[i]
           /\ log'[Len(log) + 1].line = written'
           /\ \/ log'[Len(log) + 1].end /\ written' = written /\ Len(log) > 0
              \/ /\ ~log'[Len(log) + 1].end /\ written' = written + 1
                 /\ Len(log) > 0 => log[Len(log)].end
           /\ Len(log) > 0 /\ ~log[Len(log)].end => log'[Len(log) + 1].end
<1> DEFINE H == Half
<1>1. log \in Seq(H) /\ Len(log) \in Nat
  BY DEF TypeInv, LogTypes
<1>2. PICK b : b = (log # <<>> /\ ~Last(log).end)
  OBVIOUS
<1>3. PICK x : x = [line |-> written', end |-> b]
  OBVIOUS
<1>4. log' = Append(log, x)
  <2>1. log' = Append(log, [line |-> written', end |-> (log # <<>> /\ ~Last(log).end)])
    BY DEF Write
  <2> QED
    BY <1>2, <1>3, <2>1, Zenon
<1>5. written' = IF b THEN written ELSE written + 1
  <2>1. written' = IF log # <<>> /\ ~Last(log).end THEN written ELSE written + 1
    BY DEF Write
  <2> QED
    BY <1>2, <2>1, Zenon
<1> HIDE DEF H
<1>6. /\ Len(log') = Len(log) + 1 /\ log'[Len(log) + 1] = x
      /\ \A i \in 1..Len(log) : log'[i] = log[i]
  BY <1>1, <1>4
<1>7. x.line = written' /\ x.end = b
  BY <1>3
<1>8. Last(log) = log[Len(log)] /\ (log # <<>> <=> Len(log) > 0)
  BY <1>1 DEF Last
<1>9. b <=> Len(log) > 0 /\ ~log[Len(log)].end
  BY <1>2, <1>8
<1>10. UNCHANGED <<offset, pending, pendingOffset, checkpoint, pc, stream, spool, faults,
                   truncations, LineStart>>
  BY DEF Write, reader, files, counts, server, LineStart
<1>11. /\ log'[Len(log) + 1].line = written'
       /\ \/ log'[Len(log) + 1].end /\ written' = written /\ Len(log) > 0
          \/ /\ ~log'[Len(log) + 1].end /\ written' = written + 1
             /\ Len(log) > 0 => log[Len(log)].end
       /\ Len(log) > 0 /\ ~log[Len(log)].end => log'[Len(log) + 1].end
  BY <1>5, <1>6, <1>7, <1>9
<1> QED
  BY <1>6, <1>10, <1>11

LEMMA EventIs ==
    /\ EventOf(pending) # 0 =>
          /\ pending # <<>> /\ EventOf(pending) = pending[1].line
          /\ ~pending[1].end /\ pending[1].line \notin Plain
    /\ pending = <<>> => EventOf(pending) = 0
BY DEF EventOf

LEMMA ReadIs ==
    ASSUME TypeInv, Read
    PROVE  /\ UNCHANGED <<log, written, checkpoint, stream, spool, faults, truncations, LineStart>>
           /\ pc = "read" /\ offset' = offset + Len(Chunk)
           /\ pending # <<>> =>
                 pending' # <<>> /\ pending'[1] = pending[1] /\ pendingOffset' = pendingOffset
           /\ pending = <<>> =>
                 /\ pendingOffset' = offset
                 /\ pending' # <<>> => Len(Chunk) > 0 /\ pending'[1] = log[offset + 1]
           /\ Len(Chunk) > 0 => pending' # <<>>
           /\ \/ pc' = "poll" /\ \A i \in 1..Len(Chunk) : ~Chunk[i].end
              \/ pc' \in InHand /\ Len(Chunk) > 0
<1> DEFINE H == Half
<1>1. pending \in Seq(H) /\ Chunk \in Seq(H) /\ Len(Chunk) \in Nat /\ Len(pending) \in Nat
      /\ offset \in Nat
  BY ChunkIs DEF TypeInv, ReaderTypes
<1> HIDE DEF H
<1>2. /\ UNCHANGED <<log, written, checkpoint, stream, spool, faults, truncations>>
      /\ pc = "read" /\ offset' = offset + Len(Chunk) /\ pending' = pending \o Chunk
      /\ pendingOffset' = IF pending = <<>> THEN offset ELSE pendingOffset
  BY DEF Read, files, server, counts
<1>3. pending # <<>> => pending' # <<>> /\ pending'[1] = pending[1]
  BY <1>1, <1>2
<1>4. /\ pending = <<>> => pending' = Chunk
      /\ Len(Chunk) > 0 => pending' # <<>> /\ Chunk # <<>>
      /\ Chunk # <<>> => Len(Chunk) > 0
  BY <1>1, <1>2
<1>5. Len(Chunk) > 0 => Chunk[1] = log[offset + 1]
  BY <1>1, ChunkIs
<1>6. \/ pc' = "poll" /\ \A i \in 1..Len(Chunk) : ~Chunk[i].end
      \/ pc' \in InHand /\ Len(Chunk) > 0
  <2>1. \/ pc' = "poll" /\ ~(Chunk # <<>> /\ Last(Chunk).end)
        \/ pc' \in {"checkpoint", "check"} /\ Chunk # <<>>
    BY DEF Read
  <2>2. Chunk # <<>> => Last(Chunk) = Chunk[Len(Chunk)] /\ Len(Chunk) \in 1..Len(Chunk)
    BY <1>1 DEF Last
  <2>3. Chunk # <<>> /\ ~Last(Chunk).end => \A i \in 1..Len(Chunk) : ~Chunk[i].end
    BY <2>2, ChunkIs
  <2>4. Chunk = <<>> => \A i \in 1..Len(Chunk) : ~Chunk[i].end
    BY <1>1
  <2> QED
    BY <1>4, <2>1, <2>3, <2>4 DEF InHand
<1>7. LineStart' = LineStart
  <2>1. CASE pending # <<>>
    BY <2>1, <1>2, <1>3 DEF LineStart
  <2>2. CASE pending = <<>> /\ Len(Chunk) > 0
    BY <2>2, <1>2, <1>4 DEF LineStart
  <2>3. CASE pending = <<>> /\ Len(Chunk) = 0
    BY <2>3, <1>1, <1>2, <1>4 DEF LineStart
  <2> QED
    BY <1>1, <2>1, <2>2, <2>3
<1> QED
  BY <1>2, <1>3, <1>4, <1>5, <1>6, <1>7

(* The other steps of the reader: it goes back to the beginning of a file   *)
(* that has become shorter, ...                                             *)
Rewind ==
    /\ UNCHANGED <<log, written, stream, spool, truncations>>
    /\ Len(log) < offset
    /\ offset' = 0 /\ pending' = <<>> /\ pc' \notin InHand
    /\ \/ checkpoint' = 0 /\ faults' = faults
       \/ checkpoint' = checkpoint /\ faults' = faults + 1

(* ... is done with a line, ...                                             *)
Pass ==
    /\ UNCHANGED <<log, written, stream, spool, truncations, offset>>
    /\ pc = "checkpoint" /\ pc' \notin InHand /\ pending' = <<>>
    /\ \/ checkpoint' = offset /\ faults' = faults
       \/ checkpoint' = checkpoint /\ faults' = faults + 1

(* ... goes back to the beginning of its line, ...                          *)
Back ==
    /\ UNCHANGED <<log, written, stream, truncations, checkpoint>>
    /\ pc = "append" /\ pc' \notin InHand /\ pending' = <<>> /\ offset' = pendingOffset
    /\ faults' = faults + 1

(* ... starts again from its checkpoint, or publishes what it has in hand.  *)
Resume ==
    /\ UNCHANGED <<log, written, stream, truncations, checkpoint, faults>>
    /\ offset' = checkpoint /\ pending' = <<>> /\ pc' \notin InHand

Stay ==
    /\ UNCHANGED <<log, written, truncations, checkpoint, offset, pending, pendingOffset>>
    /\ pc' \in InHand <=> pc \in InHand
    /\ faults' >= faults

Cut ==
    /\ log' = <<>> /\ truncations' = truncations + 1 /\ Len(log) > 0 /\ log[Len(log)].end
    /\ UNCHANGED <<written, checkpoint, offset, pending, pendingOffset, pc, stream, spool, faults>>

LEMMA ReaderKinds ==
    ASSUME TypeInv, [Next]_vars
    PROVE  Write \/ Cut \/ Read \/ Rewind \/ Pass \/ Back \/ Resume \/ Stay
<1> USE DEF files, server, reader, seqs, counts, InHand
<1>0. faults \in Nat
  BY Places
<1>1. CASE Truncate
  <2>1. log # <<>> => Last(log) = log[Len(log)] /\ Len(log) > 0
    BY DEF TypeInv, LogTypes, Last
  <2> QED
    BY <1>1, <2>1 DEF Truncate, Cut
<1>2. CASE Poll
  BY <1>0, <1>2 DEF Poll, Rewind, Stay
<1>3. CASE Checkpoint \/ CheckpointFails
  BY <1>3 DEF Checkpoint, CheckpointFails, Done, Pass
<1>4. CASE SpoolAppendFails
  BY <1>4 DEF SpoolAppendFails, Back
<1>5. CASE Restart
  BY <1>5 DEF Restart, Resume
<1>6. CASE Check \/ PublishNow \/ PublishNowFails \/ SpoolAppend
  <2>1. /\ UNCHANGED <<log, written, truncations, checkpoint, offset, pending, pendingOffset, faults>>
        /\ pc \in {"check", "send", "append"} /\ pc' \in {"send", "append", "checkpoint"}
    BY <1>6 DEF Check, PublishNow, PublishNowFails, SpoolAppend
  <2> QED
    BY <1>0, <2>1 DEF Stay
<1>7. CASE ServerFails \/ ServerReturns \/ FlushBegins \/ FlushStep \/ MarkBegins \/ MarkEnds
           \/ MarkFails
  BY <1>0, <1>7 DEF ServerFails, ServerReturns, FlushBegins, FlushStep, MarkBegins, MarkEnds,
     MarkFails, Stay
<1>8. CASE UNCHANGED vars
  BY <1>0, <1>8 DEF vars, Stay
<1> QED
  BY <1>1, <1>2, <1>3, <1>4, <1>5, <1>6, <1>7, <1>8 DEF Next

LEMMA LogInvInit == Init => LogInv
BY DEF Init, LogInv

LEMMA LogInvStep == TypeInv /\ TypeInv' /\ LogInv /\ [Next]_vars => LogInv'
<1> SUFFICES ASSUME TypeInv, TypeInv', LogInv, [Next]_vars
             PROVE  LogInv'
  OBVIOUS
<1>0. /\ Len(log) \in Nat /\ written \in Nat /\ \A i \in 1..Len(log) : log[i].line \in Nat
      /\ pending # <<>> => pending[1].line \in Nat
  BY Places
<1>1. CASE Write
  <2> DEFINE n == Len(log)
  <2>1. /\ Len(log') = n + 1 /\ \A i \in 1..n : log'[i] = log[i]
        /\ log'[n + 1].line = written'
        /\ (written' = written /\ n > 0) \/ written' = written + 1
        /\ n > 0 /\ ~log[n].end => log'[n + 1].end
        /\ pending' = pending
    BY <1>1, WriteIs
  <2>2. n \in Nat
    BY <1>0
  <2> HIDE DEF n
  <2>3. \A i \in 1..Len(log') : i \in 1..n \/ i = n + 1
    BY <2>1, <2>2
  <2>a. n > 0 => 0 < written
    <3>1. n > 0 => 1 \in 1..n
      BY <2>2
    <3> QED
      BY <1>0, <3>1 DEF LogInv, n
  <2>4. \A i \in 1..Len(log') : 0 < log'[i].line /\ log'[i].line <= written'
    <3>1. \A i \in 1..n : log'[i] = log[i] /\ 0 < log[i].line /\ log[i].line <= written
                           /\ log[i].line \in Nat
      BY <1>0, <2>1 DEF LogInv, n
    <3>2. 0 < written' /\ written <= written' /\ written' \in Nat
      BY <1>0, <2>1, <2>a
    <3>3. ASSUME NEW i \in 1..n PROVE 0 < log'[i].line /\ log'[i].line <= written'
      <4>1. log'[i] = log[i] /\ 0 < log[i].line /\ log[i].line <= written
            /\ log[i].line \in Nat
        BY <3>1
      <4> QED
        BY <1>0, <3>2, <4>1
    <3>4. 0 < log'[n + 1].line /\ log'[n + 1].line <= written'
      BY <2>1, <3>2
    <3> QED
      BY <2>3, <3>3, <3>4
  <2>5. ASSUME NEW i \in 1..Len(log'), ~log'[i].end, i < Len(log')
        PROVE  log'[i + 1].end
    <3>1. i \in 1..n /\ log'[i] = log[i]
      BY <2>1, <2>2, <2>5
    <3>2. CASE i < n
      <4>1. i + 1 \in 1..n
        BY <2>2, <3>1, <3>2
      <4> QED
        BY <2>1, <2>5, <3>1, <3>2, <4>1 DEF LogInv, n
    <3>3. CASE i = n
      BY <2>1, <2>2, <2>5, <3>1, <3>3
    <3> QED
      BY <2>2, <3>1, <3>2, <3>3
  <2>6. ASSUME NEW i \in 1..Len(log'), NEW j \in 1..Len(log'), i < j
        PROVE  log'[i].line <= log'[j].line
    <3>1. i \in 1..n
      BY <2>1, <2>2, <2>6
    <3>2. CASE j \in 1..n
      BY <2>1, <2>6, <3>1, <3>2 DEF LogInv, n
    <3>3. CASE j = n + 1
      BY <2>1, <2>4, <3>3
    <3> QED
      BY <2>3, <3>2, <3>3
  <2>7. pending' # <<>> => pending'[1].line <= written'
    BY <1>0, <2>1 DEF LogInv
  <2> QED
    BY <2>4, <2>5, <2>6, <2>7 DEF LogInv
<1>2. CASE Read
  <2>1. UNCHANGED <<log, written>>
    BY <1>2, ReadIs
  <2>2. ASSUME pending' # <<>>
        PROVE  pending'[1].line <= written
    <3>1. CASE pending # <<>>
      BY <1>2, <3>1, ReadIs DEF LogInv
    <3>2. CASE pending = <<>>
      <4>1. Len(Chunk) > 0 /\ pending'[1] = log[offset + 1]
        BY <1>2, <2>2, <3>2, ReadIs
      <4>2. offset + 1 \in 1..Len(log)
        BY <4>1, ChunkIs
      <4> QED
        BY <4>1, <4>2 DEF LogInv
    <3> QED
      BY <3>1, <3>2
  <2> QED
    BY <2>1, <2>2 DEF LogInv
<1>3. CASE Cut
  <2>1. Len(log') = 0 /\ UNCHANGED <<written, pending>>
    BY <1>3 DEF Cut
  <2>2. pending' # <<>> => pending'[1].line <= written'
    BY <2>1 DEF LogInv
  <2> QED
    BY <2>1, <2>2 DEF LogInv
<1>4. CASE Rewind \/ Pass \/ Back \/ Resume \/ Stay
  BY <1>4 DEF Rewind, Pass, Back, Resume, Stay, LogInv
<1> QED
  BY <1>1, <1>2, <1>3, <1>4, ReaderKinds

LEMMA PlaceInvInit == Init => PlaceInv
BY DEF Init, PlaceInv, LineStart

LEMMA PlaceInvStep == TypeInv /\ TypeInv' /\ PlaceInv /\ [Next]_vars => PlaceInv'
<1> SUFFICES ASSUME TypeInv, TypeInv', PlaceInv, [Next]_vars
             PROVE  PlaceInv'
  OBVIOUS
<1>0. /\ Len(log) \in Nat /\ offset \in Nat /\ pendingOffset \in Nat /\ checkpoint \in Nat
      /\ LineStart \in Nat /\ LineStart <= offset
      /\ truncations \in Nat /\ faults \in Nat
  BY Places DEF PlaceInv, LineStart
<1>i. /\ pending # <<>> => pendingOffset < offset
      /\ pc \in InHand => pending # <<>>
      /\ faults = 0 => checkpoint = LineStart
      /\ truncations = 0 => offset <= Len(log) /\ checkpoint <= LineStart
  BY DEF PlaceInv, InHand
<1>a. ASSUME pending' = <<>>, pc' \notin InHand, faults' = 0 => checkpoint' = offset',
             truncations' = 0 => offset' <= Len(log') /\ checkpoint' <= offset',
             offset' \in Nat
      PROVE  PlaceInv'
  <2>1. LineStart' = offset'
    BY <1>a DEF LineStart
  <2>2. ~ \E i \in 1..Len(log') : LineStart' < i /\ i <= offset'
    BY <1>a, <2>1
  <2> QED
    BY <1>a, <2>1, <2>2 DEF PlaceInv, InHand
<1>1. CASE Write
  <2>1. /\ UNCHANGED <<offset, pending, pendingOffset, checkpoint, pc, faults, truncations, LineStart>>
        /\ Len(log') = Len(log) + 1 /\ \A i \in 1..Len(log) : log'[i] = log[i]
    BY <1>1, WriteIs
  <2>2. ASSUME truncations = 0, NEW i \in 1..Len(log'), LineStart < i, i <= offset
        PROVE  i \in 1..Len(log) /\ log'[i] = log[i]
    BY <1>0, <1>i, <2>1, <2>2
  <2>3. truncations = 0 /\ pending # <<>> =>
            LineStart + 1 \in 1..Len(log') /\ LineStart < LineStart + 1 /\ LineStart + 1 <= offset
    <3>1. pending # <<>> => LineStart = pendingOffset
      BY DEF LineStart
    <3> QED
      BY <1>0, <1>i, <2>1, <3>1
  <2>4. truncations = 0 /\ pending # <<>> => log'[LineStart + 1] = log[LineStart + 1]
    BY <2>2, <2>3
  <2>5. truncations' = 0 => offset' <= Len(log')
    BY <1>0, <1>i, <2>1
  <2> QED
    BY <2>1, <2>2, <2>4, <2>5 DEF PlaceInv
<1>2. CASE Cut
  <2>1. /\ UNCHANGED <<offset, pending, pendingOffset, checkpoint, pc, faults>>
        /\ truncations' # 0
    BY <1>0, <1>2 DEF Cut
  <2>2. LineStart' = LineStart
    BY <2>1 DEF LineStart
  <2> QED
    BY <2>1, <2>2 DEF PlaceInv
<1>3. CASE Read
  <2>0. Len(Chunk) \in Nat
    BY ChunkIs
  <2>1. UNCHANGED <<log, checkpoint, faults, truncations, LineStart>> /\ pc = "read"
        /\ offset' = offset + Len(Chunk)
    BY <1>3, ReadIs
  <2>2. pending' # <<>> => pendingOffset' < offset'
    <3>1. CASE pending # <<>>
      BY <1>0, <1>3, <1>i, <2>0, <2>1, <3>1, ReadIs
    <3>2. CASE pending = <<>>
      BY <1>0, <1>3, <2>0, <2>1, <3>2, ReadIs
    <3> QED
      BY <3>1, <3>2
  <2>3. pc' \in InHand => pending' # <<>>
    <3>1. "poll" \notin InHand
      BY DEF InHand
    <3> QED
      BY <1>3, <3>1, ReadIs
  <2>4. ASSUME truncations = 0
        PROVE  /\ offset' <= Len(log)
               /\ pending' # <<>> => pending'[1] = log[LineStart + 1]
    <3>1. offset' <= Len(log)
      BY <1>i, <2>1, <2>4, ChunkIs
    <3>2. CASE pending # <<>>
      BY <1>3, <2>4, <3>1, <3>2, ReadIs DEF PlaceInv
    <3>3. CASE pending = <<>>
      <4>1. LineStart = offset
        BY <3>3 DEF LineStart
      <4> QED
        BY <1>3, <3>1, <3>3, <4>1, ReadIs
    <3> QED
      BY <3>2, <3>3
  <2>5. ASSUME truncations = 0, NEW i \in 1..Len(log), LineStart < i, i <= offset', log[i].end
        PROVE  i = offset' /\ pc' \in InHand
    <3>1. ~(i <= offset)
      BY <2>1, <2>5 DEF PlaceInv
    <3>2. i - offset \in 1..Len(Chunk) /\ offset + (i - offset) = i
      BY <1>0, <2>0, <2>1, <2>5, <3>1
    <3>3. Chunk[i - offset].end /\ i - offset = Len(Chunk)
      BY <2>5, <3>2, ChunkIs
    <3>4. pc' \in InHand
      BY <1>3, <3>2, <3>3, ReadIs
    <3> QED
      BY <1>0, <2>0, <2>1, <3>2, <3>3, <3>4
  <2> QED
    BY <2>1, <2>2, <2>3, <2>4, <2>5 DEF PlaceInv, InHand
<1>4. CASE Rewind
  <2>1. /\ pending' = <<>> /\ pc' \notin InHand /\ offset' = 0 /\ truncations' = truncations
        /\ truncations # 0 /\ (faults' = 0 => checkpoint' = 0)
    BY <1>0, <1>4, <1>i DEF Rewind
  <2> QED
    BY <1>a, <2>1
<1>5. CASE Pass
  <2>1. /\ pending' = <<>> /\ pc' \notin InHand /\ UNCHANGED <<offset, truncations, log>>
        /\ (faults' = 0 => checkpoint' = offset) /\ checkpoint' \in {offset, checkpoint}
    BY <1>0, <1>5 DEF Pass
  <2>2. truncations = 0 => offset <= Len(log) /\ checkpoint' <= offset
    BY <1>0, <1>i, <2>1
  <2> QED
    BY <1>0, <1>a, <2>1, <2>2
<1>6. CASE Back
  <2>1. /\ pending' = <<>> /\ pc' \notin InHand /\ UNCHANGED <<truncations, log, checkpoint>>
        /\ offset' = pendingOffset /\ faults' # 0 /\ pc \in InHand
    BY <1>0, <1>6 DEF Back, InHand
  <2>2. LineStart = pendingOffset
    BY <1>i, <2>1 DEF LineStart
  <2>3. truncations = 0 => offset' <= Len(log) /\ checkpoint <= offset'
    BY <1>0, <1>i, <2>1, <2>2
  <2> QED
    BY <1>0, <1>a, <2>1, <2>3
<1>7. CASE Resume
  <2>1. /\ pending' = <<>> /\ pc' \notin InHand /\ UNCHANGED <<truncations, log, checkpoint>>
        /\ offset' = checkpoint
    BY <1>7 DEF Resume
  <2>2. truncations = 0 => offset' <= Len(log) /\ checkpoint <= offset'
    BY <1>0, <1>i, <2>1
  <2> QED
    BY <1>0, <1>a, <2>1, <2>2
<1>8. CASE Stay
  <2>1. /\ UNCHANGED <<log, truncations, checkpoint, offset, pending, pendingOffset>>
        /\ pc' \in InHand <=> pc \in InHand
        /\ faults' = 0 => faults = 0
    <3>1. faults' >= faults /\ faults' \in Nat
      BY <1>8 DEF Stay, TypeInv, CountTypes
    <3> QED
      BY <1>0, <1>8, <3>1 DEF Stay
  <2>2. LineStart' = LineStart
    BY <2>1 DEF LineStart
  <2> QED
    BY <2>1, <2>2 DEF PlaceInv, InHand
<1> QED
  BY <1>1, <1>2, <1>3, <1>4, <1>5, <1>6, <1>7, <1>8, ReaderKinds

-----------------------------------------------------------------------------
(* What enters the stream and the spool while no write of the spool fails.  *)

LEMMA StoredIs ==
    ASSUME TypeInv, NEW n \in Pos, stream' = Stored(n)
    PROVE  /\ Arrived' = Arrived \cup {n}
           /\ StreamOrder /\ Fine(Arrived, n) => StreamOrder'
<1>0. stream \in Seq(Pos) /\ Len(stream) \in Nat
  BY DEF TypeInv, ServerTypes
<1>1. CASE n \in Arrived
  <2>1. stream' = stream
    BY <1>1 DEF Stored, Arrived
  <2> QED
    BY <1>1, <2>1 DEF Arrived, StreamOrder
<1>2. CASE n \notin Arrived
  <2>1. stream' = Append(stream, n)
    BY <1>2 DEF Stored, Arrived
  <2>2. /\ Len(stream') = Len(stream) + 1 /\ stream'[Len(stream) + 1] = n
        /\ \A i \in 1..Len(stream) : stream'[i] = stream[i]
    BY <1>0, <2>1
  <2>3. \A i \in 1..Len(stream') : i \in 1..Len(stream) \/ i = Len(stream) + 1
    BY <1>0, <2>2
  <2>4. \A i : i \in 1..Len(stream) \/ i = Len(stream) + 1 => i \in 1..Len(stream')
    BY <1>0, <2>2
  <2>5. Arrived' = Arrived \cup {n}
    BY <2>2, <2>3, <2>4 DEF Arrived
  <2>6. ASSUME StreamOrder, Fine(Arrived, n),
               NEW i \in 1..Len(stream'), NEW j \in 1..Len(stream'), i < j
        PROVE  stream'[i] < stream'[j]
    <3>1. i \in 1..Len(stream)
      BY <1>0, <2>2, <2>6
    <3>2. CASE j \in 1..Len(stream)
      BY <2>2, <2>6, <3>1, <3>2 DEF StreamOrder
    <3>3. CASE j = Len(stream) + 1
      <4>1. stream[i] \in Arrived
        BY <3>1 DEF Arrived
      <4> QED
        BY <1>2, <2>2, <2>6, <3>1, <3>3, <4>1 DEF Fine
    <3> QED
      BY <2>3, <3>2, <3>3
  <2> QED
    BY <2>5, <2>6 DEF StreamOrder
<1> QED
  BY <1>1, <1>2

(* Nothing enters, or the event in hand does, into the stream or the spool, *)
(* or the flush moves a line of the spool to the stream.                    *)
LEMMA ServerKinds ==
    ASSUME TypeInv, Whole, tears' = tears, [Next]_vars
    PROVE  \/ UNCHANGED <<stream, spool>>
           \/ /\ pc = "send" /\ Stay /\ spool' = spool /\ stream' = Stored(EventOf(pending))
           \/ /\ flush.pc = "replay" /\ flush.pos \in 1..Len(spool) /\ spool' = spool
              /\ stream' = Stored(spool[flush.pos].line)
           \/ /\ SpoolAppend /\ Stay /\ stream' = stream
<1>0. faults \in Nat /\ flush.pos \in Nat /\ (flush.pc = "replay" => flush.pos > 0)
      /\ Len(spool) \in Nat
  BY Places, Numbers DEF TypeInv, FlushTypes
<1>1. CASE PublishNow \/ PublishNowFails
  <2>1. /\ pc = "send" /\ pc' \in {"append", "checkpoint"} /\ spool' = spool
        /\ stream' = stream \/ stream' = Stored(EventOf(pending))
        /\ UNCHANGED <<log, written, truncations, checkpoint, offset, pending, pendingOffset, faults>>
    BY <1>1 DEF PublishNow, PublishNowFails, PublicationFails, files, counts
  <2>2. Stay
    BY <1>0, <2>1 DEF Stay, InHand
  <2> QED
    BY <2>1, <2>2
<1>2. CASE SpoolAppend
  <2>1. /\ pc = "append" /\ pc' = "checkpoint" /\ stream' = stream
        /\ UNCHANGED <<log, written, truncations, checkpoint, offset, pending, pendingOffset, faults>>
    BY <1>2 DEF SpoolAppend, server, counts
  <2>2. Stay
    BY <1>0, <2>1 DEF Stay, InHand
  <2> QED
    BY <1>2, <2>1, <2>2
<1>3. CASE FlushStep
  <2>1. /\ spool' = spool /\ flush.pc = "replay"
        /\ \/ stream' = stream
           \/ ~(flush.pos > Len(spool)) /\ stream' = Stored(spool[flush.pos].line)
    BY <1>3 DEF FlushStep, PublicationFails, files
  <2> QED
    BY <1>0, <2>1
<1>4. CASE ~(PublishNow \/ PublishNowFails \/ SpoolAppend \/ FlushStep)
  <2>1. stream' = stream
    BY <1>4 DEF Next, vars, server, Write, Truncate, ServerFails, ServerReturns, Poll, Read, Check,
       SpoolAppendFails, Checkpoint, CheckpointFails, FlushBegins, MarkBegins, MarkEnds,
       MarkFails, Restart
  <2> QED
    BY <1>4, <2>1, SpoolKinds
<1> QED
  BY <1>1, <1>2, <1>3, <1>4

LEMMA SpoolGrows ==
    ASSUME TypeInv, Whole, tears' = tears, [Next]_vars, SpoolAppend
    PROVE  /\ Len(spool) \in Nat /\ Len(spool') = Len(spool) + 1
           /\ spool'[Len(spool) + 1].line = EventOf(pending)
           /\ \A i \in 1..Len(spool) : spool'[i] = spool[i]
           /\ Waiting' = Waiting \cup {EventOf(pending)}
<1>1. PICK e : e = EventOf(pending)
  OBVIOUS
<1>2. /\ Len(spool) \in Nat /\ Len(spool') = Len(spool) + 1
      /\ spool'[Len(spool) + 1] = [seq |-> nextSeq, line |-> e, good |-> TRUE, nl |-> TRUE]
      /\ \A i \in 1..Len(spool) : spool'[i] = spool[i]
  BY <1>1, SpoolKinds, Numbers
<1>3. spool'[Len(spool) + 1].line = e
  BY <1>2
<1>4. \A i \in 1..Len(spool') : i \in 1..Len(spool) \/ i = Len(spool) + 1
  BY <1>2
<1>5. \A i : i \in 1..Len(spool) \/ i = Len(spool) + 1 => i \in 1..Len(spool')
  BY <1>2
<1>6. Waiting' = Waiting \cup {e}
  BY <1>2, <1>3, <1>4, <1>5 DEF Waiting
<1> QED
  BY <1>1, <1>2, <1>3, <1>6

LEMMA KnownKinds ==
    ASSUME TypeInv, Whole, tears' = tears, [Next]_vars
    PROVE  \/ Known' = Known
           \/ /\ Stay /\ EventOf(pending) # 0
              /\ Known' = Known \cup {EventOf(pending)}
<1>1. CASE UNCHANGED <<stream, spool>>
  BY <1>1 DEF Known, Arrived, Waiting
<1>2. CASE pc = "send" /\ Stay /\ spool' = spool /\ stream' = Stored(EventOf(pending))
  <2>1. PICK e \in Pos : e = EventOf(pending)
    BY <1>2, Pending
  <2>2. Arrived' = Arrived \cup {e} /\ Waiting' = Waiting
    BY <1>2, <2>1, StoredIs DEF Waiting
  <2> QED
    BY <1>2, <2>1, <2>2 DEF Known, Pos
<1>3. CASE /\ flush.pc = "replay" /\ flush.pos \in 1..Len(spool) /\ spool' = spool
           /\ stream' = Stored(spool[flush.pos].line)
  <2>1. PICK e \in Pos : e = spool[flush.pos].line
    BY <1>3, Numbers
  <2>2. Arrived' = Arrived \cup {e} /\ Waiting' = Waiting
    BY <1>3, <2>1, StoredIs DEF Waiting
  <2>3. e \in Waiting
    BY <1>3, <2>1 DEF Waiting
  <2> QED
    BY <2>2, <2>3 DEF Known
<1>4. CASE SpoolAppend /\ Stay /\ stream' = stream
  <2>1. PICK e \in Pos : e = EventOf(pending)
    BY <1>4, Pending DEF SpoolAppend
  <2>2. Waiting' = Waiting \cup {e} /\ Arrived' = Arrived
    BY <1>4, <2>1, SpoolGrows DEF Arrived
  <2> QED
    BY <1>4, <2>1, <2>2 DEF Known, Pos
<1> QED
  BY <1>1, <1>2, <1>3, <1>4, ServerKinds

-----------------------------------------------------------------------------
(* The lines the reader will publish are known or behind all known ones.    *)

LEMMA KnownTypes ==
    ASSUME TypeInv
    PROVE  Known \subseteq Pos
<1>1. \A i \in 1..Len(stream) : stream[i] \in Pos
  BY DEF TypeInv, ServerTypes
<1>2. \A i \in 1..Len(spool) : spool[i].line \in Pos
  BY DEF TypeInv, SpoolTypes
<1> QED
  BY <1>1, <1>2 DEF Known, Arrived, Waiting

(* What follows the reader's line up to its offset begins no event.         *)
LEMMA OnlyFirst ==
    ASSUME TypeInv, LogInv, PlaceInv, truncations = 0,
           NEW i \in 1..Len(log), Begins(i), LineStart < i, i <= offset
    PROVE  i = LineStart + 1
<1>0. offset \in Nat /\ LineStart \in Nat /\ Len(log) \in Nat
  BY Places
<1>1. SUFFICES ASSUME LineStart + 1 < i PROVE FALSE
  BY <1>0
<1>2. /\ i - 1 \in 1..Len(log) /\ i - 1 < Len(log) /\ (i - 1) + 1 = i
      /\ LineStart < i - 1 /\ i - 1 <= offset /\ i - 1 # offset
  BY <1>0, <1>1
<1>3. ~log[i].end
  BY DEF Begins
<1>4. log[i - 1].end
  BY <1>2, <1>3 DEF LogInv
<1> QED
  BY <1>2, <1>4 DEF PlaceInv

LEMMA ReadInvInit == Init => ReadInv
BY DEF Init, ReadInv, Known, Arrived, Waiting, EventOf

LEMMA ReadInvStep ==
    ASSUME TypeInv, TypeInv', LogInv, LogInv', PlaceInv, Whole, Held, ReadInv,
           tears' = tears, faults' = 0 \/ truncations' = 0, [Next]_vars
    PROVE  ReadInv'
<1>0. /\ Len(log) \in Nat /\ offset \in Nat /\ pendingOffset \in Nat /\ checkpoint \in Nat
      /\ LineStart \in Nat /\ LineStart <= offset /\ written \in Nat
      /\ truncations \in Nat /\ faults \in Nat
      /\ \A i \in 1..Len(log) : log[i].line \in Nat
      /\ pending # <<>> => pending[1].line \in Nat
  BY Places DEF PlaceInv, LineStart
<1>i. /\ faults = 0 => checkpoint = LineStart
      /\ truncations = 0 => offset <= Len(log) /\ checkpoint <= LineStart
  BY DEF PlaceInv
<1>r. /\ \A n \in Known : n <= written
      /\ \A i \in 1..Len(log) :
            Begins(i) /\ checkpoint < i /\ i <= LineStart => log[i].line \in Known
      /\ \A i \in 1..Len(log) : Begins(i) /\ LineStart < i => Fine(Known, log[i].line)
      /\ pending # <<>> =>
            \A i \in 1..Len(log) : Begins(i) /\ LineStart < i => pending[1].line <= log[i].line
      /\ EventOf(pending) # 0 => Fine(Known, EventOf(pending))
      /\ Len(log) < offset =>
            \A i \in 1..Len(log) : Begins(i) =>
                /\ \A m \in Known : m < log[i].line
                /\ pending # <<>> => pending[1].line < log[i].line
  BY DEF ReadInv
<1>k. Known \subseteq Pos /\ \A n \in Known : n \in Nat
  BY KnownTypes DEF Pos
<1>l. /\ \A i \in 1..Len(log) : log[i].line <= written
      /\ \A i, j \in 1..Len(log) : i < j => log[i].line <= log[j].line
      /\ pending # <<>> => pending[1].line <= written
  BY DEF LogInv
(* With an empty buffer it remains to know what is behind the offset.       *)
<1>a. ASSUME UNCHANGED <<log, written, Known>>, pending' = <<>>,
             \A i \in 1..Len(log) : Begins(i) /\ checkpoint' < i /\ i <= offset' => log[i].line \in Known,
             \A i \in 1..Len(log) : Begins(i) /\ offset' < i => Fine(Known, log[i].line),
             Len(log) < offset' => \A i \in 1..Len(log) : Begins(i) =>
                                       \A m \in Known : m < log[i].line
      PROVE  ReadInv'
  <2>1. LineStart' = offset' /\ EventOf(pending') = 0
    BY <1>a DEF LineStart, EventOf
  <2> QED
    BY <1>a, <1>r, <2>1 DEF ReadInv, Begins
<1>1. CASE Write /\ Known' = Known
  <2>2. PICK n \in Nat : n = Len(log)
    BY <1>0
  <2>1. /\ UNCHANGED <<offset, pending, checkpoint, faults, truncations, LineStart>>
        /\ Len(log') = n + 1
        /\ \A i \in 1..n : log'[i] = log[i]
        /\ log'[n + 1].line = written'
        /\ (log'[n + 1].end /\ written' = written) \/ written' = written + 1
    BY <1>1, <2>2, WriteIs
  <2>3. \A i \in 1..Len(log') : i \in 1..n \/ i = n + 1
    BY <2>1, <2>2
  <2>4. \A i \in 1..n : (Begins(i))' <=> Begins(i)
    BY <2>1 DEF Begins
  <2>5. (Begins(n + 1))' => written' = written + 1
    BY <2>1 DEF Begins
  <2>6. EventOf(pending') = EventOf(pending)
    BY <2>1
  <2>7. \A m \in Known : m <= written' /\ (written' = written + 1 => m < written')
    BY <1>0, <1>k, <1>r, <2>1
  <2>8. (Begins(n + 1))' => /\ \A m \in Known : m < log'[n + 1].line
                            /\ pending # <<>> => pending[1].line < log'[n + 1].line
    BY <1>0, <1>l, <2>1, <2>5, <2>7
  <2>9. ASSUME NEW i \in 1..Len(log'), (Begins(i))', checkpoint < i, i <= LineStart
        PROVE  log'[i].line \in Known
    <3>1. i \in 1..n
      BY <1>0, <1>i, <2>1, <2>2, <2>9
    <3> QED
      BY <1>r, <2>1, <2>2, <2>4, <2>9, <3>1
  <2>10. ASSUME NEW i \in 1..Len(log'), (Begins(i))', LineStart < i
         PROVE  /\ Fine(Known, log'[i].line)
                /\ pending # <<>> => pending[1].line <= log'[i].line
    <3>1. CASE i \in 1..n
      BY <1>r, <2>1, <2>2, <2>4, <2>10, <3>1
    <3>2. CASE i = n + 1
      <4>1. log'[i].line \in Nat /\ (pending # <<>> => pending[1].line < log'[i].line)
        BY <1>0, <2>1, <2>5, <2>8, <2>10, <3>2
      <4> QED
        BY <1>0, <2>8, <2>10, <3>2, <4>1 DEF Fine
    <3> QED
      BY <2>3, <3>1, <3>2
  <2>11. ASSUME n + 1 < offset, NEW i \in 1..Len(log'), (Begins(i))'
         PROVE  /\ \A m \in Known : m < log'[i].line
                /\ pending # <<>> => pending[1].line < log'[i].line
    <3>1. Len(log) < offset
      BY <1>0, <2>2, <2>11
    <3>2. CASE i \in 1..n
      BY <1>r, <2>1, <2>2, <2>4, <2>11, <3>1, <3>2
    <3>3. CASE i = n + 1
      BY <2>8, <2>11, <3>3
    <3> QED
      BY <2>3, <3>2, <3>3
  <2> QED
    BY <1>1, <1>r, <2>1, <2>6, <2>7, <2>9, <2>10, <2>11 DEF ReadInv
<1>2. CASE Cut /\ Known' = Known
  <2>1. log' = <<>> /\ UNCHANGED <<written, pending>>
    BY <1>2 DEF Cut
  <2>2. EventOf(pending') = EventOf(pending) /\ ~ \E i : i \in 1..Len(log')
    BY <2>1
  <2> QED
    BY <1>2, <1>r, <2>1, <2>2 DEF ReadInv
<1>3. CASE Read /\ Known' = Known
  <2>1. /\ UNCHANGED <<log, written, checkpoint, LineStart>> /\ offset' = offset + Len(Chunk)
        /\ Len(Chunk) \in Nat
        /\ pending # <<>> => pending' # <<>> /\ pending'[1] = pending[1]
        /\ pending = <<>> =>
              LineStart = offset /\ (pending' # <<>> => Len(Chunk) > 0 /\ pending'[1] = log[offset + 1])
    BY <1>3, ReadIs, ChunkIs DEF LineStart
  <2>2. ASSUME pending' # <<>>, NEW i \in 1..Len(log), Begins(i), LineStart < i
        PROVE  pending'[1].line <= log[i].line
    <3>1. CASE pending # <<>>
      BY <1>r, <2>1, <2>2, <3>1
    <3>2. CASE pending = <<>>
      <4>1. offset + 1 \in 1..Len(log) /\ (offset + 1 = i \/ offset + 1 < i)
        BY <1>0, <2>1, <2>2, <3>2, ChunkIs
      <4> QED
        BY <1>0, <1>l, <2>1, <2>2, <3>2, <4>1
    <3> QED
      BY <3>1, <3>2
  <2>3. EventOf(pending') # 0 => Fine(Known, EventOf(pending'))
    <3>1. CASE pending # <<>>
      <4>1. EventOf(pending') = EventOf(pending)
        BY <2>1, <3>1 DEF EventOf
      <4> QED
        BY <1>r, <4>1
    <3>2. CASE pending = <<>> /\ EventOf(pending') # 0
      <4>1. /\ pending' # <<>> /\ EventOf(pending') = pending'[1].line
            /\ ~pending'[1].end /\ pending'[1].line \notin Plain
        BY <3>2 DEF EventOf
      <4>2. offset + 1 \in 1..Len(log) /\ LineStart < offset + 1 /\ Begins(offset + 1)
            /\ EventOf(pending') = log[offset + 1].line
        BY <1>0, <2>1, <3>2, <4>1, ChunkIs DEF Begins
      <4> QED
        BY <1>r, <4>2
    <3> QED
      BY <3>1, <3>2
  <2>4. Len(log) < offset' => Len(log) < offset /\ (pending = <<>> => pending' = <<>>)
    <3>1. Len(log) < offset' => Len(log) < offset
      BY <1>0, <2>1, ChunkIs
    <3>2. Len(log) < offset => Len(Chunk) = 0
      BY ChunkIs
    <3> QED
      BY <2>1, <3>1, <3>2
  <2>5. ASSUME Len(log) < offset', NEW i \in 1..Len(log), Begins(i)
        PROVE  /\ \A m \in Known : m < log[i].line
               /\ pending' # <<>> => pending'[1].line < log[i].line
    BY <1>r, <2>1, <2>4, <2>5
  <2> QED
    BY <1>3, <1>r, <2>1, <2>2, <2>3, <2>5 DEF ReadInv, Begins
<1>4. CASE Rewind /\ Known' = Known
  <2>1. /\ UNCHANGED <<log, written, truncations>> /\ Len(log) < offset
        /\ offset' = 0 /\ pending' = <<>> /\ truncations # 0
    BY <1>0, <1>4, <1>i DEF Rewind
  <2>2. checkpoint' = 0
    BY <1>0, <1>4, <2>1 DEF Rewind
  <2> QED
    BY <1>4, <1>a, <1>0, <1>r, <2>1, <2>2 DEF Fine
<1>5. CASE Pass /\ Known' = Known
  <2>1. /\ UNCHANGED <<log, written, truncations, offset>> /\ pending' = <<>> /\ pc = "checkpoint"
        /\ checkpoint' = offset \/ (checkpoint' = checkpoint /\ truncations = 0)
    <3>1. faults + 1 # 0
      BY <1>0
    <3> QED
      BY <1>5, <3>1 DEF Pass
  <2>2. ASSUME NEW i \in 1..Len(log), Begins(i), checkpoint' < i, i <= offset
        PROVE  log[i].line \in Known
    <3>1. checkpoint' = checkpoint /\ truncations = 0
      BY <1>0, <2>1, <2>2
    <3>2. CASE i <= LineStart
      BY <1>r, <2>2, <3>1, <3>2
    <3>3. CASE LineStart < i
      <4>1. i = LineStart + 1
        BY <2>2, <3>1, <3>3, OnlyFirst
      <4>2. pending # <<>> /\ pending[1] = log[LineStart + 1]
        BY <2>1, <3>1 DEF PlaceInv
      <4>3. PICK e : e = log[i].line
        OBVIOUS
      <4>4. e = EventOf(pending) /\ e # 0
        BY <1>0, <2>2, <4>1, <4>2, <4>3 DEF EventOf, Begins, LogInv
      <4>5. InStream(e) \/ InSpoolFile(e)
        BY <2>1, <4>4 DEF Held
      <4> QED
        BY <4>3, <4>5 DEF InStream, InSpoolFile, Known, Arrived, Waiting
    <3> QED
      BY <1>0, <3>2, <3>3
  <2>3. \A i \in 1..Len(log) : Begins(i) /\ offset < i => Fine(Known, log[i].line)
    BY <1>0, <1>r
  <2> QED
    BY <1>5, <1>a, <1>r, <2>1, <2>2, <2>3
<1>6. CASE Back /\ Known' = Known
  <2>1. /\ UNCHANGED <<log, written, checkpoint>> /\ pending' = <<>> /\ offset' = pendingOffset
        /\ pc = "append"
    BY <1>6 DEF Back
  <2>2. offset' = LineStart
    BY <2>1 DEF PlaceInv, LineStart
  <2>3. Len(log) < offset' => Len(log) < offset
    BY <1>0, <2>2
  <2> QED
    BY <1>6, <1>a, <1>r, <2>1, <2>2, <2>3
<1>7. CASE Resume /\ Known' = Known
  <2>1. /\ UNCHANGED <<log, written, checkpoint, faults, truncations>> /\ pending' = <<>>
        /\ offset' = checkpoint
    BY <1>7 DEF Resume
  <2>2. Len(log) < offset' => Len(log) < offset
    BY <1>0, <1>i, <2>1
  <2>3. ASSUME NEW i \in 1..Len(log), Begins(i), checkpoint < i
        PROVE  Fine(Known, log[i].line)
    BY <1>0, <1>r, <2>3 DEF Fine
  <2>4. ~ \E i \in 1..Len(log) : checkpoint < i /\ i <= checkpoint
    BY <1>0
  <2> QED
    BY <1>7, <1>a, <1>r, <2>1, <2>2, <2>3, <2>4
<1>8. CASE Stay /\ Known' = Known
  <2>1. UNCHANGED <<log, written, checkpoint, offset, pending, pendingOffset>>
    BY <1>8 DEF Stay
  <2>2. LineStart' = LineStart /\ EventOf(pending') = EventOf(pending)
    BY <2>1 DEF LineStart
  <2> QED
    BY <1>8, <1>r, <2>1, <2>2 DEF ReadInv, Begins
(* The event in hand becomes known.                                         *)
<1>9. CASE Stay /\ EventOf(pending) # 0 /\ Known' = Known \cup {EventOf(pending)}
  <2>1. UNCHANGED <<log, written, checkpoint, offset, pending, pendingOffset>>
    BY <1>9 DEF Stay
  <2>2. LineStart' = LineStart /\ EventOf(pending') = EventOf(pending)
    BY <2>1 DEF LineStart
  <2>3. PICK e : e = EventOf(pending)
    OBVIOUS
  <2>4. pending # <<>> /\ pending[1].line = e /\ e \in Nat
    BY <1>0, <1>9, <2>3, EventIs
  <2>5. Known' = Known \cup {e}
    BY <1>9, <2>3
  <2>6. \A n \in Known' : n <= written
    BY <1>l, <1>r, <2>4, <2>5
  <2>7. ASSUME NEW i \in 1..Len(log), Begins(i), LineStart < i
        PROVE  Fine(Known', log[i].line)
    <3>1. Fine(Known, log[i].line) /\ e <= log[i].line /\ log[i].line \in Nat
      BY <1>0, <1>r, <2>4, <2>7
    <3> QED
      BY <2>4, <2>5, <3>1 DEF Fine
  <2>8. Fine(Known', e)
    BY <2>5 DEF Fine
  <2>9. ASSUME Len(log) < offset, NEW i \in 1..Len(log), Begins(i)
        PROVE  \A m \in Known' : m < log[i].line
    BY <1>r, <2>4, <2>5, <2>9
  <2>10. \A i \in 1..Len(log) :
            Begins(i) /\ checkpoint < i /\ i <= LineStart => log[i].line \in Known'
    BY <1>r, <2>5
  <2> QED
    BY <1>r, <2>1, <2>2, <2>3, <2>6, <2>7, <2>8, <2>9, <2>10 DEF ReadInv, Begins
<1> QED
  BY <1>1, <1>2, <1>3, <1>4, <1>5, <1>6, <1>7, <1>8, <1>9, ReaderKinds, KnownKinds

-----------------------------------------------------------------------------
(* The order of the spool and of the stream.                                *)

LEMMA SendInvStep ==
    ASSUME TypeInv, Whole, SendInv, [Next]_vars
    PROVE  SendInv'
<1> SUFFICES ASSUME pc' = "send"
             PROVE  ~HasPending' /\ flush'.pc # "write"
  BY DEF SendInv
<1>n. nextSeq \in Nat /\ committed \in Nat /\ flush.done \in Nat /\ flush \in FlushType
  BY Numbers DEF TypeInv, FlushTypes
<1>1. CASE Check
  <2>1. UNCHANGED <<nextSeq, committed, flush>> /\ ~HasPending /\ flush.pc # "write"
    BY <1>1 DEF Check, seqs, Locked
  <2> QED
    BY <2>1 DEF HasPending
<1>2. CASE FlushStep
  <2>1. pc = "send" /\ UNCHANGED <<nextSeq, committed>>
    BY <1>2 DEF FlushStep, reader, seqs
  <2>2. flush.pc = "replay" /\ (FlushStops \/ flush'.pc # "write")
    <3>1. /\ flush.pc = "replay"
          /\ \/ FlushStops
             \/ flush' = [flush EXCEPT !.pos = @ + 1]
             \/ flush' = [flush EXCEPT !.pos = @ + 1, !.done = spool[flush.pos].seq]
      BY <1>2 DEF FlushStep
    <3>2. ASSUME \/ flush' = [flush EXCEPT !.pos = @ + 1]
                 \/ flush' = [flush EXCEPT !.pos = @ + 1, !.done = spool[flush.pos].seq]
          PROVE  flush'.pc = flush.pc
      BY <1>n, <3>2 DEF FlushType
    <3> QED
      BY <3>1, <3>2
  <2>3. FlushStops => flush'.pc # "write"
    <3>1. ASSUME NEW p \in {"idle", "mark"}, FlushTo(p)
          PROVE  flush'.pc = p
      BY <1>n, <3>1 DEF FlushTo, FlushType
    <3>2. FlushStops => FlushTo("idle") \/ FlushTo("mark")
      BY DEF FlushStops
    <3>3. FlushStops => flush'.pc = "idle" \/ flush'.pc = "mark"
      BY <3>1, <3>2
    <3> QED
      BY <3>3
  <2> QED
    BY <2>1, <2>2, <2>3 DEF SendInv, HasPending
<1>3. CASE MarkBegins
  <2>1. pc = "send" /\ UNCHANGED <<nextSeq, committed>>
    BY <1>3 DEF MarkBegins, reader, seqs
  <2>2. flush.done < nextSeq /\ ~(committed + 1 < nextSeq)
    BY <2>1 DEF SendInv, HasPending, Whole
  <2>3. flush.done <= committed
    BY <1>n, <2>2
  <2>4. flush' = FlushIdle
    BY <1>3, <2>3 DEF MarkBegins
  <2> QED
    BY <2>1, <2>4 DEF SendInv, HasPending, FlushIdle
<1>4. CASE FlushBegins
  BY <1>4 DEF FlushBegins, reader, seqs, SendInv, HasPending
<1>5. CASE UNCHANGED <<nextSeq, committed, flush, pc>>
  BY <1>5 DEF SendInv, HasPending
<1> QED
  BY <1>1, <1>2, <1>3, <1>4, <1>5 DEF SendInv, Next, vars, seqs, reader, Write, Truncate,
     ServerFails, ServerReturns, Poll, Read, PublishNow, PublishNowFails, SpoolAppend,
     SpoolAppendFails, Checkpoint, CheckpointFails, Done, MarkEnds, MarkFails, Restart

(* What is spooled is stored when the reader publishes by itself.           *)
LEMMA AllStored ==
    ASSUME TypeInv, Whole, Marked, SendInv, pc = "send"
    PROVE  Waiting \subseteq Arrived
<1>1. ASSUME NEW i \in 1..Len(spool) PROVE spool[i].line \in Arrived
  <2>1. spool[i].seq < nextSeq /\ ~(committed + 1 < nextSeq) /\ spool[i].seq \in Nat
        /\ committed \in Nat /\ nextSeq \in Nat
    BY Numbers DEF Whole, SendInv, HasPending
  <2>2. spool[i].seq <= committed
    BY <2>1
  <2> QED
    BY <2>2 DEF Marked, InStream, Arrived
<1> QED
  BY <1>1 DEF Waiting

(* What the flush stores is Fine, and all before it is stored.              *)
LEMMA NextStored ==
    ASSUME TypeInv, Marked, SpoolOrder, flush.pc = "replay", NEW p \in 1..Len(spool),
           p = flush.pos
    PROVE  /\ \A k \in 1..Len(spool) : k < p => spool[k].line \in Arrived
           /\ Fine(Arrived, spool[p].line)
<1>1. \A k \in 1..Len(spool) : k < p => spool[k].line \in Arrived
  BY DEF Marked, InStream, Arrived
<1>2. CASE spool[p].line \in Arrived
  BY <1>1, <1>2 DEF Fine
<1>3. CASE \E k \in 1..Len(spool) : k < p /\ spool[k].line = spool[p].line
  BY <1>1, <1>3 DEF Fine
<1>4. CASE \A m \in Arrived : m < spool[p].line
  BY <1>1, <1>4 DEF Fine
<1> QED
  BY <1>1, <1>2, <1>3, <1>4 DEF SpoolOrder

LEMMA StreamOrderStep ==
    ASSUME TypeInv, Whole, Marked, ReadInv, SendInv, SpoolOrder, StreamOrder,
           tears' = tears, [Next]_vars
    PROVE  StreamOrder'
<1>1. CASE stream' = stream
  BY <1>1 DEF StreamOrder
<1>2. CASE pc = "send" /\ stream' = Stored(EventOf(pending))
  <2>1. PICK e \in Pos : e = EventOf(pending)
    BY <1>2, Pending
  <2>2. Fine(Known, e) /\ Known = Arrived
    BY <1>2, <2>1, AllStored DEF ReadInv, Pos, Known
  <2> QED
    BY <1>2, <2>1, <2>2, StoredIs
<1>3. CASE /\ flush.pc = "replay" /\ flush.pos \in 1..Len(spool)
           /\ stream' = Stored(spool[flush.pos].line)
  <2>1. PICK p \in 1..Len(spool) : p = flush.pos
    BY <1>3
  <2>2. PICK e \in Pos : e = spool[p].line
    BY Numbers
  <2>3. Fine(Arrived, e)
    BY <1>3, <2>1, <2>2, NextStored
  <2> QED
    BY <1>3, <2>1, <2>2, <2>3, StoredIs
<1> QED
  BY <1>1, <1>2, <1>3, ServerKinds

LEMMA SpoolOrderStep ==
    ASSUME TypeInv, Whole, Marked, ReadInv, SendInv, SpoolOrder, tears' = tears, [Next]_vars
    PROVE  SpoolOrder'
<1>n. Len(spool) \in Nat /\ \A i \in 1..Len(spool) : spool[i].line \in Nat
  BY Numbers DEF Pos
<1>1. CASE UNCHANGED <<stream, spool>>
  BY <1>1 DEF SpoolOrder, Arrived
<1>2. CASE pc = "send" /\ spool' = spool /\ stream' = Stored(EventOf(pending))
  <2>1. PICK e \in Pos : e = EventOf(pending)
    BY <1>2, Pending
  <2>2. Arrived' = Arrived \cup {e}
    BY <1>2, <2>1, StoredIs
  <2>3. \A i \in 1..Len(spool) : spool[i].line \in Arrived'
    BY <1>2, <2>2, AllStored DEF Waiting
  <2> QED
    BY <1>2, <2>3 DEF SpoolOrder
<1>3. CASE /\ flush.pc = "replay" /\ flush.pos \in 1..Len(spool) /\ spool' = spool
           /\ stream' = Stored(spool[flush.pos].line)
  <2>1. PICK p \in 1..Len(spool) : p = flush.pos
    BY <1>3
  <2>2. PICK e \in Pos : e = spool[p].line
    BY Numbers
  <2>3. Arrived' = Arrived \cup {e}
    BY <1>3, <2>1, <2>2, StoredIs
  <2>4. \A k \in 1..Len(spool) : k < p => spool[k].line \in Arrived
    BY <1>3, <2>1, NextStored
  <2>5. ASSUME NEW i \in 1..Len(spool)
        PROVE  \/ spool[i].line \in Arrived'
               \/ \E k \in 1..Len(spool) : k < i /\ spool[k].line = spool[i].line
               \/ /\ \A m \in Arrived' : m < spool[i].line
                  /\ \A k \in 1..Len(spool) : k < i => spool[k].line < spool[i].line
    <3>1. CASE i <= p
      <4>1. i < p \/ i = p
        BY <3>1
      <4> QED
        BY <2>2, <2>3, <2>4, <4>1
    <3>2. CASE p < i
      BY <2>2, <2>3, <3>2 DEF SpoolOrder
    <3> QED
      BY <3>1, <3>2
  <2> QED
    BY <1>3, <2>5 DEF SpoolOrder
<1>4. CASE SpoolAppend /\ stream' = stream
  <2>1. PICK e \in Pos : e = EventOf(pending)
    BY <1>4, Pending DEF SpoolAppend
  <2>2. PICK n \in Nat : n = Len(spool)
    BY <1>n
  <2>3. /\ Len(spool') = n + 1 /\ spool'[n + 1].line = e
        /\ \A i \in 1..n : spool'[i] = spool[i]
    BY <1>4, <2>1, <2>2, SpoolGrows
  <2>4. Arrived' = Arrived
    BY <1>4 DEF Arrived
  <2>5. Fine(Known, e)
    BY <2>1 DEF ReadInv, Pos
  <2>6. ASSUME NEW i \in 1..n
        PROVE  \/ spool'[i].line \in Arrived
               \/ \E k \in 1..(n + 1) : k < i /\ spool'[k].line = spool'[i].line
               \/ /\ \A m \in Arrived : m < spool'[i].line
                  /\ \A k \in 1..(n + 1) : k < i => spool'[k].line < spool'[i].line
    <3>1. spool'[i] = spool[i] /\ \A k \in 1..n : k \in 1..(n + 1) /\ spool'[k] = spool[k]
      BY <2>3
    <3>2. \A k \in 1..(n + 1) : k < i => k \in 1..n
      OBVIOUS
    <3> QED
      BY <2>2, <3>1, <3>2 DEF SpoolOrder
  <2>7. \/ e \in Arrived
        \/ \E k \in 1..n : spool[k].line = e
        \/ /\ \A m \in Arrived : m < e
           /\ \A k \in 1..n : spool[k].line < e
    <3>1. CASE e \in Known
      BY <2>2, <3>1 DEF Known, Waiting
    <3>2. CASE \A m \in Known : m < e
      BY <2>2, <3>2 DEF Known, Waiting
    <3> QED
      BY <2>5, <3>1, <3>2 DEF Fine
  <2>8. \A k \in 1..n : k \in 1..(n + 1) /\ k < n + 1
    BY <2>2
  <2>9. \A k \in 1..(n + 1) : k \in 1..n \/ k = n + 1
    BY <2>2
  <2>10. \A k \in 1..(n + 1) : k < n + 1 => k \in 1..n
    BY <2>2
  <2>11. \/ spool'[n + 1].line \in Arrived
         \/ \E k \in 1..(n + 1) : k < n + 1 /\ spool'[k].line = spool'[n + 1].line
         \/ /\ \A m \in Arrived : m < spool'[n + 1].line
            /\ \A k \in 1..(n + 1) : k < n + 1 => spool'[k].line < spool'[n + 1].line
    <3>1. CASE e \in Arrived
      BY <2>3, <3>1
    <3>2. CASE \E k \in 1..n : spool[k].line = e
      BY <2>3, <2>8, <3>2
    <3>3. CASE (\A m \in Arrived : m < e) /\ \A k \in 1..n : spool[k].line < e
      <4>1. \A k \in 1..(n + 1) : k < n + 1 => spool'[k].line < e
        BY <2>3, <2>10, <3>3
      <4> QED
        BY <2>3, <3>3, <4>1
    <3> QED
      BY <2>7, <3>1, <3>2, <3>3
  <2>12. ASSUME NEW i \in 1..(n + 1)
         PROVE  \/ spool'[i].line \in Arrived
                \/ \E k \in 1..(n + 1) : k < i /\ spool'[k].line = spool'[i].line
                \/ /\ \A m \in Arrived : m < spool'[i].line
                   /\ \A k \in 1..(n + 1) : k < i => spool'[k].line < spool'[i].line
    BY <2>6, <2>9, <2>11
  <2> QED
    BY <2>3, <2>4, <2>12 DEF SpoolOrder
<1> QED
  BY <1>1, <1>2, <1>3, <1>4, ServerKinds

LEMMA OrderInvInit == Init => OrderInv
<1>1. Init => ReadInv
  BY ReadInvInit
<1>2. Init => SendInv /\ SpoolOrder /\ StreamOrder
  BY DEF Init, SendInv, SpoolOrder, StreamOrder
<1> QED
  BY <1>1, <1>2 DEF OrderInv

LEMMA OrderInvStep ==
    TypeInv /\ TypeInv' /\ Clean /\ LogInv /\ LogInv' /\ PlaceInv /\ OrderInv /\ [Next]_vars
    => OrderInv'
<1> SUFFICES ASSUME TypeInv, TypeInv', Clean, LogInv, LogInv', PlaceInv, OrderInv, [Next]_vars,
                    Cond'
             PROVE  OrderInv'
  BY DEF OrderInv
<1>1. tears' = tears /\ tears = 0
  BY CountStep DEF TypeInv, CountTypes, Cond
<1>2. Whole /\ Marked /\ Held
  BY <1>1 DEF Clean
<1>3. Cond
  <2>0. truncations \in Nat /\ faults \in Nat /\ faults' \in Nat
    BY DEF TypeInv, CountTypes
  <2>1. (faults' = 0 => faults = 0) /\ (truncations' = 0 => truncations = 0)
    BY <2>0, ReaderKinds, WriteIs, ReadIs DEF Cut, Rewind, Pass, Back, Resume, Stay
  <2> QED
    BY <1>1, <2>1 DEF Cond
<1>4. ReadInv /\ SendInv /\ SpoolOrder /\ StreamOrder
  BY <1>3 DEF OrderInv
<1>5. faults' = 0 \/ truncations' = 0
  BY DEF Cond
<1> QED
  BY <1>1, <1>2, <1>4, <1>5, ReadInvStep, SendInvStep, SpoolOrderStep, StreamOrderStep
     DEF OrderInv

(* Events enter the stream in the order of their lines, whichever goroutine *)
(* publishes them: a line overtakes nothing that waits in the spool, and    *)
(* what is read again is known to the stream or waits before it.            *)
THEOREM LinesInOrder == Spec => []InOrder
<1>1. Spec => []LogInv
  BY LogInvInit, LogInvStep, TypeAlways, PTL DEF Spec
<1>2. Spec => []PlaceInv
  BY PlaceInvInit, PlaceInvStep, TypeAlways, PTL DEF Spec
<1>3. Spec => []OrderInv
  BY OrderInvInit, OrderInvStep, TypeAlways, CleanAlways, <1>1, <1>2, PTL DEF Spec
<1>4. OrderInv => InOrder
  BY DEF OrderInv, InOrder, Cond, StreamOrder
<1> QED
  BY <1>3, <1>4, PTL

-----------------------------------------------------------------------------
(* The watermark                                                            *)

(* The commit file is empty or not behind the field, and what is about to   *)
(* be written is ahead of it.                                               *)
ResumeInv ==
    /\ commitFile = 0 \/ committed <= commitFile
    /\ flush.pc = "write" => committed < flush.done

LEMMA ReplayIs ==
    ASSUME TypeInv, FlushBegins \/ FlushStep
    PROVE  UNCHANGED <<committed, commitFile>> /\ flush'.pc # "write"
<1>1. UNCHANGED <<committed, commitFile>>
  BY DEF FlushBegins, FlushStep, files, seqs
<1>2. CASE FlushBegins
  BY <1>1, <1>2 DEF FlushBegins
<1>3. CASE FlushStep
  <2>1. flush = [pc |-> "replay", pos |-> flush.pos, done |-> flush.done]
    BY <1>3 DEF TypeInv, FlushTypes, FlushType, FlushStep
  <2>2. CASE FlushStops
    <3>1. \E p \in {"idle", "mark"} : flush' = [flush EXCEPT !.pc = p]
      BY <2>2 DEF FlushStops, FlushTo
    <3>2. PICK p \in {"idle", "mark"} : flush' = [flush EXCEPT !.pc = p]
      BY <3>1
    <3> QED
      BY <1>1, <2>1, <3>2
  <2>3. CASE ~FlushStops
    <3>1. \/ flush' = [flush EXCEPT !.pos = @ + 1]
          \/ flush' = [flush EXCEPT !.pos = @ + 1, !.done = spool[flush.pos].seq]
      BY <1>3, <2>3 DEF FlushStep
    <3>2. flush.pc = "replay" /\ flush'.pc = flush.pc
      <4>1. CASE flush' = [flush EXCEPT !.pos = @ + 1]
        BY <2>1, <4>1
      <4>2. CASE flush' = [flush EXCEPT !.pos = @ + 1, !.done = spool[flush.pos].seq]
        BY <2>1, <4>2
      <4> QED
        BY <2>1, <3>1, <4>1, <4>2
    <3> QED
      BY <1>1, <3>2
  <2> QED
    BY <2>2, <2>3
<1> QED
  BY <1>2, <1>3

LEMMA ResumeStep == TypeInv /\ ResumeInv /\ [Next]_vars => ResumeInv'
<1> SUFFICES ASSUME TypeInv, ResumeInv, [Next]_vars PROVE ResumeInv'
  OBVIOUS
<1>0. committed \in Nat /\ commitFile \in Nat /\ flush.done \in Nat /\ FlushIdle.pc = "idle"
  BY Numbers DEF FlushIdle
<1>1. CASE MarkBegins
  <2>1. /\ UNCHANGED committed
        /\ \/ flush' = FlushIdle /\ commitFile' = commitFile
           \/ /\ ~(flush.done <= committed) /\ commitFile' = 0
              /\ flush' = [flush EXCEPT !.pc = "write"]
    BY <1>1 DEF MarkBegins, seqs, FlushTo
  <2>2. flush \in FlushType
    BY DEF TypeInv, FlushTypes
  <2>3. flush' = FlushIdle \/ flush'.done = flush.done
    BY <2>1, <2>2 DEF FlushType
  <2> QED
    BY <1>0, <2>1, <2>3 DEF ResumeInv
<1>2. CASE MarkEnds \/ MarkFails \/ Restart
  <2>1. /\ flush'.pc = "idle" /\ committed' \in {committed, commitFile, flush.done}
        /\ \/ committed' = commitFile'
           \/ committed' = committed /\ commitFile' = commitFile
           \/ committed' = committed /\ commitFile' = flush.done /\ flush.pc = "write"
    BY <1>0, <1>2 DEF MarkEnds, MarkFails, Restart, seqs
  <2> QED
    BY <1>0, <2>1 DEF ResumeInv
<1>3. CASE FlushBegins \/ FlushStep
  BY <1>3, ReplayIs DEF ResumeInv
<1>4. CASE UNCHANGED <<committed, commitFile, flush>>
  BY <1>4 DEF ResumeInv
<1> QED
  BY <1>1, <1>2, <1>3, <1>4 DEF Next, vars, files, seqs, Write, Truncate, ServerFails,
     ServerReturns, Poll, Read, Check, PublishNow, PublishNowFails, SpoolAppend,
     SpoolAppendFails, Checkpoint, CheckpointFails

(* MarkCommittedUpTo never takes the watermark back, whichever of its       *)
(* writes fails, and openMessageSpool finds it where it was or further on,  *)
(* or an empty commit file: the spool is then sent again as a whole, never  *)
(* from an older watermark.                                                 *)
THEOREM WatermarkGrows == Spec => [][committed' < committed => Restart /\ committed' = 0]_vars
<1>1. Init => ResumeInv
  BY DEF Init, ResumeInv, FlushIdle
<1>2. TypeInv /\ ResumeInv /\ [Next]_vars => (committed' < committed => Restart /\ committed' = 0)
  <2> SUFFICES ASSUME TypeInv, ResumeInv, [Next]_vars, committed' < committed
               PROVE  Restart /\ committed' = 0
    OBVIOUS
  <2>0. committed \in Nat /\ commitFile \in Nat /\ flush.done \in Nat
    BY Numbers
  <2>1. CASE Restart
    BY <2>0, <2>1 DEF Restart, ResumeInv
  <2>2. CASE MarkEnds
    BY <2>0, <2>2 DEF MarkEnds, ResumeInv
  <2>3. CASE UNCHANGED committed
    BY <2>0, <2>3
  <2> QED
    BY <2>1, <2>2, <2>3, FlushStepIs, MarkBeginsIs DEF Next, vars, files, seqs, Write, Truncate,
       ServerFails, ServerReturns, Poll, Read, Check, PublishNow, PublishNowFails, SpoolAppend,
       SpoolAppendFails, Checkpoint, CheckpointFails, FlushBegins, FlushStep, MarkBegins, MarkFails
<1> QED
  BY <1>1, <1>2, ResumeStep, TypeAlways, PTL DEF Spec
=============================================================================
