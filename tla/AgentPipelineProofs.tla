-------------------------- MODULE AgentPipelineProofs --------------------------
(***************************************************************************)
(* Proofs about AgentPipeline: its types and offsets (LogCorrect), that    *)
(* the log's watermark is never ahead of what the master has acknowledged  *)
(* (WatermarkCorrect), and that without a broken connection and without    *)
(* STANDARD acknowledgements the log skips no FAST event that was not      *)
(* received (CommittedReceived) and loses none on the way (NothingDropped),*)
(* and that the watermark goes back to nothing or not at all               *)
(* (WatermarkGrows).                                                       *)
(***************************************************************************)
EXTENDS AgentPipeline, FiniteSetTheorems, WellFoundedInduction, TLAPS

IsMax(S, x) == x \in S /\ \A y \in S : x >= y

(* A finite set of numbers that is not empty has a maximum: a smallest set   *)
(* without one would lose its reason with any of its elements.              *)
LEMMA FiniteMax ==
    ASSUME NEW S \in SUBSET Nat, IsFiniteSet(S), S # {}
    PROVE  IsMax(S, Max(S))
<1> DEFINE Bad == {U \in SUBSET S : U # {} /\ ~ \E x \in U : IsMax(U, x)}
<1>1. Bad = {}
  <2> SUFFICES ASSUME Bad # {} PROVE FALSE
    OBVIOUS
  <2>1. Bad \subseteq FiniteSubsetsOf(S)
    BY FS_Subset DEF FiniteSubsetsOf
  <2>2. IsWellFoundedOn(StrictSubsetOrdering(S), FiniteSubsetsOf(S))
    BY FS_StrictSubsetOrderingWellFounded
  <2> HIDE DEF Bad
  <2>3. PICK U \in Bad : \A V \in Bad : <<V, U>> \notin StrictSubsetOrdering(S)
    BY <2>1, <2>2, WFMin
  <2>4. U \in SUBSET S /\ U # {} /\ ~ \E x \in U : IsMax(U, x)
    BY DEF Bad
  <2>5. PICK x \in U : TRUE
    BY <2>4
  <2>6. U \ {x} \notin Bad
    BY <2>3, <2>4, <2>5 DEF StrictSubsetOrdering
  <2>7. CASE U \ {x} = {}
    <3>1. IsMax(U, x)
      BY <2>4, <2>5, <2>7 DEF IsMax
    <3> QED
      BY <2>4, <3>1
  <2>8. CASE U \ {x} # {}
    <3>1. PICK m \in U \ {x} : IsMax(U \ {x}, m)
      BY <2>4, <2>6, <2>8 DEF Bad
    <3>2. IsMax(U, m) \/ IsMax(U, x)
      BY <2>4, <2>5, <3>1 DEF IsMax
    <3> QED
      BY <2>4, <3>1, <3>2
  <2> QED
    BY <2>7, <2>8
<1>2. \E x \in S : IsMax(S, x)
  BY <1>1
<1> QED
  BY <1>2 DEF Max, IsMax

(* The offset of a batch is a number that none of its events exceeds.       *)
LEMMA MaxOffset ==
    ASSUME NEW items \in Seq(Item)
    PROVE  /\ maxOffset(items) \in Nat
           /\ \A i \in 1..Len(items) : items[i].off <= maxOffset(items)
           /\ maxOffset(items) = 0 \/ \E i \in 1..Len(items) : maxOffset(items) = items[i].off
<1> DEFINE f == [i \in 1..Len(items) |-> items[i].off]
           S == {items[i].off : i \in 1..Len(items)}
<1>1. Len(items) \in Nat /\ \A i \in 1..Len(items) : items[i] \in Item
  OBVIOUS
<1>2. IsFiniteSet(1..Len(items))
  BY <1>1, FS_Interval
<1>3. f \in Surjection(1..Len(items), S)
  BY DEF Surjection
<1>4. IsFiniteSet(S)
  BY <1>2, <1>3, FS_Surjection DEF ExistsSurjection
<1>5. IsFiniteSet(S \cup {0})
  BY <1>4, FS_AddElement
<1>6. S \cup {0} \in SUBSET Nat
  BY <1>1 DEF Item
<1>7. IsMax(S \cup {0}, Max(S \cup {0}))
  BY <1>5, <1>6, FiniteMax
<1> QED
  BY <1>6, <1>7 DEF IsMax, maxOffset

LEMMA BatchType ==
    ASSUME NEW items \in Seq(Item), NEW l \in Lane
    PROVE  BatchOf(l, items) \in Batch
<1>1. Len(items) \in Nat /\ \A i \in 1..Len(items) : items[i] \in Item
  OBVIOUS
<1>2. {items[i].ev : i \in 1..Len(items)} \in SUBSET Nat
  BY <1>1 DEF Item
<1> QED
  BY <1>2, MaxOffset DEF BatchOf, Batch

LEMMA NoneType ==
    None \in [Lane -> Seq(Item)] /\ \A l \in Lane : Len(None[l]) <= LaneCap[l]
  BY PipelineAssumption DEF None, Lane

(* What an operation leaves of a channel is a channel.                      *)
LEMMA Appending ==
    ASSUME NEW S, NEW q \in Seq(S), NEW x \in S, NEW cap \in Nat, Len(q) < cap
    PROVE  Append(q, x) \in Seq(S) /\ Len(Append(q, x)) <= cap
  OBVIOUS

LEMMA Extending ==
    ASSUME NEW S, NEW q \in Seq(S), NEW x \in S
    PROVE  Append(q, x) \in Seq(S)
  OBVIOUS

LEMMA Emptied ==
    ASSUME NEW S, NEW cap \in Nat
    PROVE  <<>> \in Seq(S) /\ Len(<<>>) <= cap
  OBVIOUS

LEMMA Taking ==
    ASSUME NEW S, NEW q \in Seq(S), q # <<>>, NEW cap \in Nat, Len(q) <= cap
    PROVE  /\ Head(q) \in S /\ Tail(q) \in Seq(S) /\ Len(Tail(q)) <= cap
           /\ Len(q) \in Nat /\ Len(Tail(q)) < Len(q)
  OBVIOUS

LEMMA Places ==
    ASSUME NEW S, NEW q \in Seq(S)
    PROVE  Len(q) \in Nat /\ \A i \in 1..Len(q) : q[i] \in S
  OBVIOUS

(* Every step preserves the types.                                          *)
LEMMA TypeStep == TypeOK /\ [Next]_vars => TypeOK'
<1> SUFFICES ASSUME TypeOK, [Next]_vars PROVE TypeOK'
  OBVIOUS
<1> USE DEF disk, log, queues, net, master, counts
<1>a. LogType /\ QueueType /\ NetType /\ MasterType
  BY DEF TypeOK
<1>b. /\ InCap \in Nat /\ BatchCap \in Nat /\ NetCap \in Nat /\ AckCap \in Nat
      /\ \A l \in Lane : LaneCap[l] \in Nat
  BY PipelineAssumption DEF Lane
<1>c. /\ file \in Seq(Record) /\ input \in Seq(Item)
      /\ \A l \in Lane : lane[l] \in Seq(Item) /\ pending[l] \in Seq(Item)
      /\ batches \in Seq(Batch) /\ wire \in Seq(Batch)
      /\ ackwire \in Seq(Ack) /\ acks \in Seq(Ack)
  BY <1>a DEF LogType, QueueType, NetType
<1>d. /\ acks \in Seq(Ack) /\ Len(acks) <= AckCap /\ zombies \in Nat
      /\ received \subseteq Nat /\ faults \in Nat
  BY <1>a DEF NetType, MasterType
<1>0. ASSUME LoseMemory, UNCHANGED <<disk, nextOffset, committed, rp, made, master, breaks, faults>>,
             crashes' \in Nat
      PROVE  TypeOK'
  <2>1. LogType' /\ MasterType'
    BY <1>0, <1>a DEF LoseMemory, LogType, MasterType
  <2>2. QueueType'
    <3>1. lane' = None /\ pending' = None /\ input' = <<>> /\ batches' = <<>>
      BY <1>0 DEF LoseMemory
    <3> QED
      BY <3>1, <1>b, NoneType, Emptied DEF QueueType
  <2>3. NetType'
    <3>1. conn' = FALSE /\ zombies' = 0 /\ wire' = <<>> /\ ackwire' = <<>> /\ acks' = <<>>
      BY <1>0 DEF LoseMemory
    <3> QED
      BY <3>1, <1>b, Emptied DEF NetType
  <2> QED
    BY <2>1, <2>2, <2>3 DEF TypeOK
<1>1. CASE Start
  BY <1>1, <1>c, <1>a, Places DEF Start, TypeOK, LogType, QueueType, NetType, MasterType
<1>2. CASE Replay
  <2>1. file[rp] \in Record
    BY <1>2, <1>a, <1>c, Places DEF Replay, LogType
  <2>2. ItemOf(file[rp]) \in Item
    BY <2>1 DEF ItemOf, Item, Record
  <2>3. input' \in Seq(Item) /\ Len(input') <= InCap
    <3>1. CASE input' = input
      BY <3>1, <1>a DEF QueueType
    <3>2. CASE Len(input) < InCap /\ input' = Append(input, ItemOf(file[rp]))
      BY <2>2, <3>2, <1>b, <1>c, Appending
    <3> QED
      BY <1>2, <3>1, <3>2 DEF Replay
  <2>4. QueueType'
    BY <1>2, <1>a, <2>3 DEF Replay, QueueType
  <2> QED
    BY <1>2, <1>a, <2>4 DEF Replay, TypeOK, LogType, NetType, MasterType
<1>6. ASSUME NEW l \in Lane, WalAppend(l) PROVE TypeOK'
  <2>1. NewRecord(l, TRUE) \in Record /\ ItemOf(NewRecord(l, TRUE)) \in Item
    BY <1>a DEF LogType, NewRecord, ItemOf, Record, Item
  <2>2. /\ file' = Append(file, NewRecord(l, TRUE))
        /\ input' = Append(input, ItemOf(NewRecord(l, TRUE))) /\ Len(input) < InCap
    BY <1>6 DEF WalAppend
  <2>3. file' \in Seq(Record)
    BY <2>1, <2>2, <1>c, Extending
  <2>4. input' \in Seq(Item) /\ Len(input') <= InCap
    BY <2>1, <2>2, <1>b, <1>c, Appending
  <2>5. LogType'
    <3>1. /\ UNCHANGED <<phase, commitFile, committed, committing, rp>>
          /\ made' = made + 1 /\ nextOffset' = nextOffset + 1
      BY <1>6 DEF WalAppend
    <3> QED
      BY <3>1, <1>a, <2>3 DEF LogType
  <2>6. QueueType'
    BY <1>6, <1>a, <2>4 DEF WalAppend, QueueType
  <2> QED
    BY <1>6, <1>a, <2>5, <2>6 DEF WalAppend, TypeOK, NetType, MasterType
<1>7. ASSUME NEW l \in Lane, WalAppendFails(l) PROVE TypeOK'
  <2>1. NewRecord(l, FALSE) \in Record /\ Torn \in Record
    BY <1>a DEF LogType, NewRecord, Record, Torn, Lane
  <2>2. file' \in {file, Append(file, Torn), Append(file, NewRecord(l, FALSE))}
    BY <1>7 DEF WalAppendFails
  <2>3. file' \in Seq(Record)
    BY <2>1, <2>2, <1>c, Extending
  <2>4. /\ UNCHANGED <<phase, commitFile, nextOffset, committed, committing, rp>>
        /\ made' = made + 1 /\ faults' = faults + 1
    BY <1>7 DEF WalAppendFails
  <2>5. LogType'
    BY <2>3, <2>4, <1>a DEF LogType
  <2> QED
    BY <1>7, <1>a, <2>4, <2>5 DEF WalAppendFails, TypeOK, QueueType, NetType, MasterType
<1>8. CASE CommitBegins
  <2>1. Head(acks) \in Ack /\ acks' \in Seq(Ack) /\ Len(acks') <= AckCap
    BY <1>8, <1>a, <1>b, <1>c, Taking DEF CommitBegins, NetType
  <2>2. Head(acks).max \in Nat
    BY <2>1 DEF Ack
  <2>3. LogType'
    BY <1>8, <1>a, <2>2 DEF CommitBegins, LogType
  <2>4. NetType'
    BY <1>8, <1>a, <2>1 DEF CommitBegins, NetType
  <2> QED
    BY <1>8, <1>a, <2>3, <2>4 DEF CommitBegins, TypeOK, QueueType, MasterType
<1>11. CASE Dispatch
  <2> DEFINE item == Head(input)
             l == item.lane
  <2>1. item \in Item /\ input' \in Seq(Item) /\ Len(input') <= InCap
    BY <1>11, <1>a, <1>b, <1>c, Taking DEF Dispatch, QueueType
  <2>2. l \in Lane
    BY <2>1 DEF Item
  <2>3. CASE lane' = lane
    BY <1>11, <1>a, <2>1, <2>3 DEF Dispatch, TypeOK, LogType, QueueType, NetType, MasterType
  <2>4. CASE Len(lane[l]) < LaneCap[l] /\ lane' = [lane EXCEPT ![l] = Append(lane[l], item)]
    <3> HIDE DEF item, l
    <3>1. /\ Append(lane[l], item) \in Seq(Item)
          /\ Len(Append(lane[l], item)) <= LaneCap[l]
      BY <1>b, <1>c, <2>1, <2>2, <2>4, Appending
    <3>2. lane' \in [Lane -> Seq(Item)] /\ \A k \in Lane : Len(lane'[k]) <= LaneCap[k]
      BY <1>a, <2>2, <2>4, <3>1 DEF QueueType
    <3> QED
      BY <1>11, <1>a, <2>1, <3>2 DEF Dispatch, TypeOK, LogType, QueueType, NetType, MasterType
  <2>5. Len(lane[l]) \in Nat /\ LaneCap[l] \in Nat
    BY <1>b, <1>c, <2>2, Places
  <2> QED
    BY <1>11, <2>3, <2>4, <2>5 DEF Dispatch
<1>12. ASSUME NEW l \in Lane, Schedule(l) PROVE TypeOK'
  <2> DEFINE items == Append(pending[l], Head(lane[l]))
  <2>1. /\ Head(lane[l]) \in Item /\ Tail(lane[l]) \in Seq(Item)
        /\ Len(Tail(lane[l])) <= LaneCap[l]
    <3>1. lane[l] # <<>> /\ lane[l] \in Seq(Item) /\ Len(lane[l]) <= LaneCap[l]
      BY <1>12, <1>a, <1>c DEF Schedule, QueueType
    <3> QED
      BY <1>b, <3>1, Taking
  <2>2. items \in Seq(Item)
    BY <1>c, <2>1, Extending
  <2>3. BatchOf(l, items) \in Batch
    BY <2>2, BatchType
  <2>4. lane' \in [Lane -> Seq(Item)] /\ \A k \in Lane : Len(lane'[k]) <= LaneCap[k]
    <3>1. lane' = [lane EXCEPT ![l] = Tail(lane[l])]
      BY <1>12 DEF Schedule
    <3> QED
      BY <1>a, <2>1, <3>1 DEF QueueType
  <2>5. /\ Len(batches) < BatchCap
        /\ \/ pending' = [pending EXCEPT ![l] = <<>>] /\ batches' = Append(batches, BatchOf(l, items))
           \/ pending' = [pending EXCEPT ![l] = items] /\ batches' = batches
    BY <1>12 DEF Schedule
  <2> HIDE DEF items
  <2>6. pending' \in [Lane -> Seq(Item)]
    BY <1>a, <2>2, <2>5, Emptied DEF QueueType
  <2>7. batches' \in Seq(Batch) /\ Len(batches') <= BatchCap
    <3>1. CASE batches' = batches
      BY <1>a, <3>1 DEF QueueType
    <3>2. CASE batches' = Append(batches, BatchOf(l, items))
      BY <1>b, <1>c, <2>3, <2>5, <3>2, Appending
    <3> QED
      BY <2>5, <3>1, <3>2
  <2>8. QueueType'
    BY <1>12, <1>a, <2>4, <2>6, <2>7 DEF Schedule, QueueType
  <2> QED
    BY <1>12, <1>a, <2>8 DEF Schedule, TypeOK, LogType, NetType, MasterType
<1>13. ASSUME NEW l \in Lane, FlushLane(l) PROVE TypeOK'
  <2>1. BatchOf(l, pending[l]) \in Batch
    BY <1>c, BatchType
  <2>2. /\ Len(batches) < BatchCap /\ pending' = [pending EXCEPT ![l] = <<>>]
        /\ batches' = Append(batches, BatchOf(l, pending[l]))
    BY <1>13 DEF FlushLane
  <2>3. pending' \in [Lane -> Seq(Item)]
    BY <1>a, <2>2, Emptied DEF QueueType
  <2>4. batches' \in Seq(Batch) /\ Len(batches') <= BatchCap
    BY <1>b, <1>c, <2>1, <2>2, Appending
  <2> QED
    BY <1>13, <1>a, <2>3, <2>4 DEF FlushLane, TypeOK, LogType, QueueType, NetType, MasterType
<1>15. CASE Send
  <2>1. Head(batches) \in Batch /\ batches' \in Seq(Batch) /\ Len(batches') <= BatchCap
    BY <1>15, <1>a, <1>b, <1>c, Taking DEF Send, QueueType
  <2>2. Len(wire) < NetCap /\ wire' = Append(wire, Head(batches))
    BY <1>15 DEF Send
  <2>3. wire' \in Seq(Batch) /\ Len(wire') <= NetCap
    BY <1>b, <1>c, <2>1, <2>2, Appending
  <2> QED
    BY <1>15, <1>a, <2>1, <2>3 DEF Send, TypeOK, LogType, QueueType, NetType, MasterType
<1>16. CASE MasterReceives
  <2> DEFINE a == [lane |-> Head(wire).lane, max |-> Head(wire).max]
  <2>1. Head(wire) \in Batch /\ wire' \in Seq(Batch) /\ Len(wire') <= NetCap
    BY <1>16, <1>a, <1>b, <1>c, Taking DEF MasterReceives, NetType
  <2>2. a \in Ack /\ Head(wire).evs \subseteq Nat
    BY <2>1 DEF Batch, Ack
  <2>3. /\ Len(ackwire) < NetCap /\ ackwire' = Append(ackwire, a)
        /\ received' = received \cup Head(wire).evs /\ acked' = acked \cup {a}
    BY <1>16 DEF MasterReceives
  <2> HIDE DEF a
  <2>4. ackwire' \in Seq(Ack) /\ Len(ackwire') <= NetCap
    BY <1>b, <1>c, <2>2, <2>3, Appending
  <2>5. NetType'
    BY <1>16, <1>a, <2>1, <2>4 DEF MasterReceives, NetType
  <2>6. MasterType'
    BY <1>16, <1>a, <2>2, <2>3 DEF MasterReceives, MasterType
  <2> QED
    BY <1>16, <1>a, <2>5, <2>6 DEF MasterReceives, TypeOK, LogType, QueueType
<1>17. CASE MasterDropsAck
  <2>1. Head(wire) \in Batch /\ wire' \in Seq(Batch) /\ Len(wire') <= NetCap
    BY <1>17, <1>a, <1>b, <1>c, Taking DEF MasterDropsAck, NetType
  <2>2. Head(wire).evs \subseteq Nat
    BY <2>1 DEF Batch
  <2>3. NetType'
    BY <1>17, <1>a, <2>1 DEF MasterDropsAck, NetType
  <2>4. MasterType'
    <3>1. /\ received' = received \cup Head(wire).evs /\ faults' = faults + 1
          /\ UNCHANGED <<acked, crashes, breaks>>
      BY <1>17 DEF MasterDropsAck
    <3>2. received' \subseteq Nat
      BY <3>1, <2>2, <1>d
    <3>3. faults' \in Nat
      BY <3>1, <1>d
    <3> QED
      BY <3>1, <3>2, <3>3, <1>a DEF MasterType
  <2> QED
    BY <1>17, <1>a, <2>3, <2>4 DEF MasterDropsAck, TypeOK, LogType, QueueType
<1>18. CASE AckArrives
  <2>1. Head(ackwire) \in Ack /\ ackwire' \in Seq(Ack) /\ Len(ackwire') <= NetCap
    BY <1>18, <1>a, <1>b, <1>c, Taking DEF AckArrives, NetType
  <2>2. Len(acks) < AckCap /\ acks' = Append(acks, Head(ackwire))
    BY <1>18 DEF AckArrives
  <2>3. acks' \in Seq(Ack) /\ Len(acks') <= AckCap
    BY <1>b, <1>c, <2>1, <2>2, Appending
  <2> QED
    BY <1>18, <1>a, <2>1, <2>3 DEF AckArrives, TypeOK, LogType, QueueType, NetType, MasterType
<1>t. ASSUME batches # <<>>, batches' = Tail(batches)
      PROVE  batches' \in Seq(Batch) /\ Len(batches') <= BatchCap
  BY <1>t, <1>a, <1>b, <1>c, Taking DEF QueueType
<1>19. ASSUME NEW k \in 0..Len(wire), Break(k) PROVE TypeOK'
  <2>1. \A i \in 1..k : wire[i].evs \subseteq Nat
    <3>1. \A i \in 1..k : wire[i] \in Batch
      BY <1>c, Places
    <3> QED
      BY <3>1 DEF Batch
  <2>2. received' \subseteq Nat
    BY <1>19, <1>a, <2>1 DEF Break, MasterType
  <2>3. batches' = batches \/ (batches # <<>> /\ batches' = Tail(batches))
    BY <1>19 DEF Break
  <2>4. batches' \in Seq(Batch) /\ Len(batches') <= BatchCap
    BY <1>a, <1>t, <2>3 DEF QueueType
  <2>5. conn' = FALSE /\ wire' = <<>> /\ ackwire' = <<>> /\ acks' = acks /\ zombies' \in {zombies, zombies + 1}
    BY <1>19 DEF Break
  <2>6. NetType'
    <3>1. /\ wire' \in Seq(Batch) /\ Len(wire') <= NetCap
          /\ ackwire' \in Seq(Ack) /\ Len(ackwire') <= NetCap
      BY <1>b, <2>5, Emptied
    <3>2. conn' \in BOOLEAN /\ zombies' \in Nat
      <4>1. conn' = FALSE
        BY <1>19 DEF Break
      <4>2. zombies' = zombies \/ zombies' = zombies + 1
        BY <1>19 DEF Break
      <4>3. zombies' \in Nat
        BY <1>d, <4>2
      <4> QED
        BY <4>1, <4>3
    <3>3. acks' \in Seq(Ack) /\ Len(acks') <= AckCap
      <4>1. acks' = acks
        BY <1>19 DEF Break
      <4> QED
        BY <1>d, <4>1
    <3> QED
      BY <3>1, <3>2, <3>3 DEF NetType
  <2>7. MasterType'
    BY <1>19, <1>a, <2>2 DEF Break, MasterType
  <2> QED
    BY <1>19, <1>a, <2>4, <2>6, <2>7 DEF Break, TypeOK, LogType, QueueType
<1>20. CASE ZombieTakes
  <2>1. batches' = batches \/ (batches # <<>> /\ batches' = Tail(batches))
    BY <1>20 DEF ZombieTakes
  <2>2. batches' \in Seq(Batch) /\ Len(batches') <= BatchCap
    BY <1>a, <1>t, <2>1 DEF QueueType
  <2> QED
    BY <1>20, <1>a, <2>2 DEF ZombieTakes, TypeOK, LogType, QueueType, NetType, MasterType
<1>3. CASE ReplayEnds \/ Connect \/ UNCHANGED vars
  BY <1>3, <1>a DEF ReplayEnds, Connect, vars, TypeOK, LogType, QueueType, NetType, MasterType
<1>4. CASE ReplayFails
  <2>1. crashes' \in Nat
    BY <1>4, <1>a DEF ReplayFails, MasterType
  <2> QED
    BY <1>0, <1>4, <2>1 DEF ReplayFails
<1>5. CASE Crash
  <2>1. crashes' \in Nat
    BY <1>5, <1>a DEF Crash, MasterType
  <2> QED
    BY <1>0, <1>5, <2>1 DEF Crash
<1>9. CASE CommitEnds
  BY <1>9, <1>a DEF CommitEnds, TypeOK, LogType, QueueType, NetType, MasterType
<1>10. CASE CommitFails
  BY <1>10, <1>a DEF CommitFails, TypeOK, LogType, QueueType, NetType, MasterType
<1> QED
  BY <1>1, <1>2, <1>3, <1>4, <1>5, <1>6, <1>7, <1>8, <1>9, <1>10, <1>11, <1>12,
     <1>13, <1>15, <1>16, <1>17, <1>18, <1>19, <1>20 DEF Next

LEMMA EarlierType ==
    ASSUME NEW n \in Nat
    PROVE  /\ Earlier(n) \in Seq(Record) /\ Len(Earlier(n)) = n
           /\ \A i \in 1..n : Earlier(n)[i].off = i
<1>1. \A i \in 1..n : [ev |-> i, lane |-> "FAST", off |-> i, ok |-> TRUE] \in Record
  BY DEF Record, Lane
<1> QED
  BY <1>1 DEF Earlier

LEMMA TypeInit == Init => TypeOK
<1> SUFFICES ASSUME Init PROVE TypeOK
  OBVIOUS
<1>0. PICK n \in Nat :
         /\ file = Earlier(n) /\ nextOffset = n + 1 /\ made = n /\ received = 1..(n - 1)
         /\ crashes \in {0, 1} /\ faults \in {0, 1}
  BY PipelineAssumption DEF Init
<1>1. LogType /\ MasterType
  <2>1. Earlier(n) \in Seq(Record)
    BY EarlierType
  <2>2. 1..(n - 1) \subseteq Nat
    OBVIOUS
  <2> QED
    BY <1>0, <2>1, <2>2 DEF Init, LogType, MasterType
<1>2. QueueType
  BY PipelineAssumption, NoneType, Emptied DEF Init, QueueType
<1>3. NetType
  BY PipelineAssumption, Emptied DEF Init, NetType
<1> QED
  BY <1>1, <1>2, <1>3 DEF TypeOK

(* Every reachable state has its types, and no channel overflows.          *)
THEOREM TypeCorrect == Spec => []TypeOK
<1>1. Init => TypeOK
  BY TypeInit
<1> QED
  BY <1>1, TypeStep, PTL DEF Spec

-----------------------------------------------------------------------------
(* Offsets.  A record's offset was the next one when it was written, and    *)
(* that is at most one past the file.                                       *)
OffsetInv ==
    /\ OffsetsLag
    /\ nextOffset \in 1..(Len(file) + 1)

LEMMA OffsetStep == TypeOK /\ TypeOK' /\ OffsetInv /\ [Next]_vars => OffsetInv'
<1> SUFFICES ASSUME TypeOK, TypeOK', OffsetInv, [Next]_vars PROVE OffsetInv'
  OBVIOUS
<1> USE DEF disk, log, queues, net, master, counts
<1>a. file \in Seq(Record) /\ Len(file) \in Nat /\ nextOffset \in Nat
  BY Places DEF TypeOK, LogType
<1>b. OffsetsLag /\ nextOffset \in 1..(Len(file) + 1)
  BY DEF OffsetInv
<1>1. CASE UNCHANGED <<file, nextOffset>>
  BY <1>1 DEF OffsetInv, OffsetsLag
<1>2. CASE Start
  BY <1>2, <1>a, <1>b DEF Start, OffsetInv, OffsetsLag
<1>3. ASSUME NEW r, file' = Append(file, r), r # Torn => r.off \in 1..(Len(file) + 1),
             nextOffset' \in {nextOffset, nextOffset + 1}
      PROVE  OffsetInv'
  <2>1. Len(file') = Len(file) + 1 /\ file'[Len(file) + 1] = r
        /\ \A i \in 1..Len(file) : file'[i] = file[i]
    BY <1>3, <1>a
  <2>2. ASSUME NEW i \in 1..Len(file'), file'[i] # Torn PROVE file'[i].off \in 1..i
    <3>1. CASE i = Len(file) + 1
      BY <1>3, <2>1, <2>2, <3>1
    <3>2. CASE i \in 1..Len(file)
      BY <1>b, <2>1, <2>2, <3>2 DEF OffsetsLag
    <3> QED
      BY <1>a, <2>1, <3>1, <3>2
  <2>3. nextOffset' \in 1..(Len(file') + 1)
    BY <1>3, <1>a, <1>b, <2>1
  <2> QED
    BY <2>2, <2>3 DEF OffsetInv, OffsetsLag
<1>4. ASSUME NEW l \in Lane, WalAppend(l) PROVE OffsetInv'
  <2>1. file' = Append(file, NewRecord(l, TRUE)) /\ nextOffset' = nextOffset + 1
    BY <1>4 DEF WalAppend
  <2>2. NewRecord(l, TRUE).off = nextOffset
    BY DEF NewRecord
  <2> QED
    BY <1>3, <1>b, <2>1, <2>2
<1>5. ASSUME NEW l \in Lane, WalAppendFails(l) PROVE OffsetInv'
  <2>1. /\ file' \in {file, Append(file, Torn), Append(file, NewRecord(l, FALSE))}
        /\ nextOffset' = nextOffset
    BY <1>5 DEF WalAppendFails
  <2>2. NewRecord(l, FALSE).off = nextOffset
    BY DEF NewRecord
  <2>3. CASE file' = Append(file, Torn)
    BY <1>3, <2>1, <2>3
  <2>4. CASE file' = Append(file, NewRecord(l, FALSE))
    BY <1>3, <1>b, <2>1, <2>2, <2>4
  <2> QED
    BY <1>1, <2>1, <2>3, <2>4
<1>6. CASE UNCHANGED vars
  BY <1>1, <1>6 DEF vars
<1>7. CASE Replay \/ ReplayEnds \/ ReplayFails \/ Crash \/ CommitBegins \/ CommitEnds \/ CommitFails
  BY <1>1, <1>7 DEF Replay, ReplayEnds, ReplayFails, Crash, CommitBegins, CommitEnds, CommitFails
<1>8. CASE Dispatch \/ \E l \in Lane : Schedule(l) \/ FlushLane(l)
  BY <1>1, <1>8 DEF Dispatch, Schedule, FlushLane
<1>9. CASE \/ Connect \/ Send \/ MasterReceives \/ MasterDropsAck \/ AckArrives
           \/ (\E k \in 0..Len(wire) : Break(k)) \/ ZombieTakes
  BY <1>1, <1>9 DEF Connect, Send, MasterReceives, MasterDropsAck, AckArrives, Break, ZombieTakes
<1> QED
  BY <1>2, <1>4, <1>5, <1>6, <1>7, <1>8, <1>9 DEF Next

LEMMA OffsetCorrect == Spec => []OffsetInv
<1>1. Init => OffsetInv
  <2> SUFFICES ASSUME Init PROVE OffsetInv
    OBVIOUS
  <2>1. PICK n \in Nat : file = Earlier(n) /\ nextOffset = n + 1
    BY PipelineAssumption DEF Init
  <2> QED
    BY <2>1, EarlierType DEF OffsetInv, OffsetsLag
<1> QED
  BY <1>1, TypeCorrect, OffsetStep, PTL DEF Spec

(* The log and its channels have their types, no channel holds more than    *)
(* its places, and no record is further back than its offset says.          *)
THEOREM LogCorrect == Spec => []LogOK
  BY TypeCorrect, OffsetCorrect, PTL DEF LogOK, OffsetInv

-----------------------------------------------------------------------------
(* The watermark.  An acknowledgement on its way to the commit manager was  *)
(* sent by the master, and stays among those it has sent.                   *)
WatermarkInv ==
    /\ committed \in AckedOffsets \cup {0} /\ commitFile \in AckedOffsets \cup {0}
    /\ committing \in AckedOffsets \cup {0}
    /\ \A i \in 1..Len(ackwire) : ackwire[i] \in acked
    /\ \A i \in 1..Len(acks) : acks[i] \in acked

LEMMA WatermarkStep == TypeOK /\ WatermarkInv /\ [Next]_vars => WatermarkInv'
<1> SUFFICES ASSUME TypeOK, WatermarkInv, [Next]_vars PROVE WatermarkInv'
  OBVIOUS
<1> USE DEF disk, log, queues, net, master, counts
<1>a. /\ ackwire \in Seq(Ack) /\ acks \in Seq(Ack) /\ wire \in Seq(Batch)
      /\ Len(ackwire) \in Nat /\ Len(acks) \in Nat
  BY Places DEF TypeOK, NetType
<1>b. /\ committed \in AckedOffsets \cup {0} /\ commitFile \in AckedOffsets \cup {0}
      /\ committing \in AckedOffsets \cup {0}
  BY DEF WatermarkInv
<1>c. /\ \A i \in 1..Len(ackwire) : ackwire[i] \in acked
      /\ \A i \in 1..Len(acks) : acks[i] \in acked
  BY DEF WatermarkInv
<1>1. CASE UNCHANGED <<committed, commitFile, committing, ackwire, acks, acked>>
  BY <1>1 DEF WatermarkInv, AckedOffsets
<1>2. CASE Start
  BY <1>2 DEF Start, WatermarkInv, AckedOffsets
<1>3. ASSUME LoseMemory, UNCHANGED <<committed, commitFile, acked>> PROVE WatermarkInv'
  BY <1>3 DEF LoseMemory, WatermarkInv, AckedOffsets
<1>4. CASE CommitBegins
  <2>1. acks' = Tail(acks) /\ Head(acks) = acks[1] /\ Len(acks) > 0
    BY <1>4, <1>a DEF CommitBegins
  <2>2. Head(acks) \in acked /\ \A i \in 1..Len(acks') : acks'[i] \in acked
    BY <1>a, <1>c, <2>1
  <2>3. Head(acks).max \in AckedOffsets
    BY <2>2 DEF AckedOffsets
  <2>4. /\ UNCHANGED <<committed, ackwire, acked>>
        /\ \/ UNCHANGED <<commitFile, committing>>
           \/ commitFile' = 0 /\ committing' = Head(acks).max
    BY <1>4 DEF CommitBegins
  <2> QED
    BY <1>b, <1>c, <2>2, <2>3, <2>4 DEF WatermarkInv, AckedOffsets
<1>5. CASE CommitEnds \/ CommitFails
  BY <1>5 DEF CommitEnds, CommitFails, WatermarkInv, AckedOffsets
<1>6. CASE MasterReceives
  <2> DEFINE a == [lane |-> Head(wire).lane, max |-> Head(wire).max]
  <2>1. /\ ackwire' = Append(ackwire, a) /\ acked' = acked \cup {a}
        /\ UNCHANGED <<committed, commitFile, committing, acks>>
    BY <1>6 DEF MasterReceives
  <2> HIDE DEF a
  <2>2. AckedOffsets \subseteq AckedOffsets'
    BY <2>1 DEF AckedOffsets
  <2>3. \A i \in 1..Len(ackwire') : ackwire'[i] \in acked'
    BY <1>a, <1>c, <2>1
  <2> QED
    BY <1>b, <1>c, <2>1, <2>2, <2>3 DEF WatermarkInv
<1>7. CASE AckArrives
  <2>1. /\ ackwire # <<>> /\ ackwire' = Tail(ackwire) /\ acks' = Append(acks, Head(ackwire))
        /\ UNCHANGED <<committed, commitFile, committing, acked>>
    BY <1>7 DEF AckArrives
  <2>2. Head(ackwire) = ackwire[1] /\ Len(ackwire) > 0
    BY <1>a, <2>1
  <2>3. \A i \in 1..Len(ackwire') : ackwire'[i] \in acked
    BY <1>a, <1>c, <2>1, <2>2
  <2>4. \A i \in 1..Len(acks') : acks'[i] \in acked
    BY <1>a, <1>c, <2>1, <2>2
  <2> QED
    BY <1>b, <2>1, <2>3, <2>4 DEF WatermarkInv, AckedOffsets
<1>8. ASSUME NEW k \in 0..Len(wire), Break(k) PROVE WatermarkInv'
  BY <1>8 DEF Break, WatermarkInv, AckedOffsets
<1>9. CASE ReplayFails \/ Crash
  BY <1>3, <1>9 DEF ReplayFails, Crash
<1>10. CASE \/ Replay \/ ReplayEnds \/ Dispatch \/ Connect \/ Send \/ MasterDropsAck
            \/ ZombieTakes \/ UNCHANGED vars
  BY <1>1, <1>10 DEF Replay, ReplayEnds, Dispatch, Connect, Send, MasterDropsAck, ZombieTakes, vars
<1>11. CASE \E l \in Lane : WalAppend(l) \/ WalAppendFails(l) \/ Schedule(l) \/ FlushLane(l)
  BY <1>1, <1>11 DEF WalAppend, WalAppendFails, Schedule, FlushLane
<1> QED
  BY <1>2, <1>4, <1>5, <1>6, <1>7, <1>8, <1>9, <1>10, <1>11 DEF Next

LEMMA WatermarkAlways == Spec => []WatermarkInv
<1>1. Init => WatermarkInv
  BY DEF Init, WatermarkInv
<1> QED
  BY <1>1, TypeCorrect, WatermarkStep, PTL DEF Spec

(* For any capacities and any number of restarts and failures, no watermark *)
(* in memory or on disk is one the master has not acknowledged.             *)
THEOREM WatermarkCorrect == Spec => []WatermarkIsAcknowledged
<1>1. WatermarkInv => WatermarkIsAcknowledged
  BY DEF WatermarkInv, WatermarkIsAcknowledged
<1> QED
  BY <1>1, WatermarkAlways, PTL

(* The commit file is empty or not behind the field; what is being written  *)
(* is ahead of it, and no write outlives the process.                       *)
ResumeInv ==
    /\ commitFile = 0 \/ committed <= commitFile
    /\ committing # 0 => phase # "down" /\ committed < committing

LEMMA ResumeStep == TypeOK /\ TypeOK' /\ ResumeInv /\ [Next]_vars => ResumeInv'
<1> SUFFICES ASSUME TypeOK, TypeOK', ResumeInv, [Next]_vars PROVE ResumeInv'
  OBVIOUS
<1> USE DEF disk, log, queues, net, master, counts
<1>0. /\ committed \in Nat /\ commitFile \in Nat /\ committing \in Nat
      /\ committed' \in Nat /\ commitFile' \in Nat /\ committing' \in Nat
  BY DEF TypeOK, LogType
<1>1. CASE CommitBegins
  <2>1. /\ UNCHANGED committed
        /\ \/ UNCHANGED <<phase, commitFile, committing>>
           \/ commitFile' = 0 /\ ~(committing' <= committed) /\ phase' = "run"
    BY <1>1 DEF CommitBegins
  <2> QED
    BY <1>0, <2>1 DEF ResumeInv
<1>2. CASE CommitEnds \/ CommitFails
  BY <1>0, <1>2 DEF CommitEnds, CommitFails, ResumeInv
<1>3. CASE Start
  <2>1. committed' = commitFile /\ commitFile' = commitFile /\ committing' = committing
    BY <1>3 DEF Start
  <2>2. phase = "down"
    BY <1>3 DEF Start
  <2> QED
    BY <1>0, <2>1, <2>2 DEF ResumeInv
<1>4. ASSUME LoseMemory, UNCHANGED <<committed, commitFile>> PROVE ResumeInv'
  BY <1>4 DEF LoseMemory, ResumeInv
<1>5. CASE ReplayFails \/ Crash
  BY <1>4, <1>5 DEF ReplayFails, Crash
<1>6. ASSUME UNCHANGED <<committed, commitFile, committing>>, phase' \in {phase, "run"}
      PROVE  ResumeInv'
  BY <1>6 DEF ResumeInv
<1> QED
  BY <1>1, <1>2, <1>3, <1>5, <1>6 DEF Next, vars, Replay, ReplayEnds, WalAppend, WalAppendFails,
     Schedule, FlushLane, Dispatch, Connect, Send, MasterReceives, MasterDropsAck, AckArrives,
     Break, ZombieTakes

(* MarkCommittedUpTo never takes the watermark back, whatever order the     *)
(* acknowledgements of the lanes come in and whichever of its writes fails; *)
(* wal.Open finds it where it was or further on, or an empty commit file,   *)
(* after which all is replayed.                                             *)
THEOREM WatermarkGrows == Spec => [][committed' < committed => Start /\ committed' = 0]_vars
<1>1. Init => ResumeInv
  BY DEF Init, ResumeInv
<1>2. TypeOK /\ ResumeInv /\ [Next]_vars => (committed' < committed => Start /\ committed' = 0)
  <2> SUFFICES ASSUME TypeOK, ResumeInv, [Next]_vars, committed' < committed
               PROVE  Start /\ committed' = 0
    OBVIOUS
  <2> USE DEF disk, log, queues, net, master, counts
  <2>0. committed \in Nat /\ commitFile \in Nat /\ committing \in Nat
    BY DEF TypeOK, LogType
  <2>1. CASE Start
    BY <2>0, <2>1 DEF Start, ResumeInv
  <2>2. CASE CommitEnds
    BY <2>0, <2>2 DEF CommitEnds, ResumeInv
  <2>3. CASE UNCHANGED committed
    BY <2>0, <2>3
  <2> QED
    BY <2>1, <2>2, <2>3 DEF Next, vars, Replay, ReplayEnds, WalAppend, WalAppendFails,
       Schedule, FlushLane, Dispatch, Connect, Send, MasterReceives, MasterDropsAck, AckArrives,
       Break, ZombieTakes, CommitBegins, CommitFails, ReplayFails, Crash
<1> QED
  BY <1>1, <1>2, ResumeStep, TypeCorrect, PTL DEF Spec

-----------------------------------------------------------------------------
(* The accepted FAST records up to position m of the file f are in S.       *)
Cov(f, m, S) ==
    /\ m \in Nat /\ m <= Len(f)
    /\ \A i \in 1..m : f[i].ok /\ f[i].lane = "FAST" => f[i].ev \in S

(* The events of the first k batches, or of the first k items of the lanes L. *)
BatchEvs(q, k) == UNION {q[j].evs : j \in 1..k}
ItemEvs(q, k, L) == {q[j].ev : j \in {h \in 1..k : q[h].lane \in L}}

BatchStage(f, B, q) ==
    \A k \in 1..Len(q) : q[k].lane = "FAST" => Cov(f, q[k].max, B \cup BatchEvs(q, k))
ItemStage(f, B, q, L) ==
    \A k \in 1..Len(q) : q[k].lane \in L => Cov(f, q[k].off, B \cup ItemEvs(q, k, L))

LEMMA CovMonotone ==
    ASSUME NEW f, NEW m, NEW S, NEW U, Cov(f, m, S), S \subseteq U
    PROVE  Cov(f, m, U)
  BY DEF Cov

LEMMA CovZero == ASSUME NEW f, Len(f) \in Nat, NEW S PROVE Cov(f, 0, S)
  BY DEF Cov

LEMMA CovExtends ==
    ASSUME NEW f \in Seq(Record), NEW r, NEW m, NEW S, Cov(f, m, S)
    PROVE  Cov(Append(f, r), m, S)
<1>1. Len(f) \in Nat /\ Len(Append(f, r)) = Len(f) + 1 /\ \A i \in 1..Len(f) : Append(f, r)[i] = f[i]
  OBVIOUS
<1> QED
  BY <1>1 DEF Cov

LEMMA BatchTail ==
    ASSUME NEW f, NEW B, NEW q \in Seq(Batch), q # <<>>, BatchStage(f, B, q)
    PROVE  /\ BatchStage(f, B \cup Head(q).evs, Tail(q))
           /\ B \cup BatchEvs(q, Len(q)) = (B \cup Head(q).evs) \cup BatchEvs(Tail(q), Len(Tail(q)))
           /\ Head(q).lane = "FAST" => Cov(f, Head(q).max, B \cup Head(q).evs)
<1>1. /\ Len(q) \in Nat /\ Len(q) > 0 /\ Head(q) = q[1]
      /\ Len(Tail(q)) = Len(q) - 1 /\ \A k \in 1..Len(Tail(q)) : Tail(q)[k] = q[k + 1]
  OBVIOUS
<1>2. ASSUME NEW k \in 0..(Len(q) - 1)
      PROVE  B \cup BatchEvs(q, k + 1) = (B \cup Head(q).evs) \cup BatchEvs(Tail(q), k)
  <2>1. ASSUME NEW x PROVE x \in BatchEvs(q, k + 1) <=> x \in q[1].evs \/ x \in BatchEvs(Tail(q), k)
    <3>1. x \in BatchEvs(q, k + 1) <=> \E j \in 1..(k + 1) : x \in q[j].evs
      BY DEF BatchEvs
    <3>2. x \in BatchEvs(Tail(q), k) <=> \E j \in 1..k : x \in q[j + 1].evs
      BY <1>1 DEF BatchEvs
    <3>3. (\E j \in 1..(k + 1) : x \in q[j].evs)
             <=> x \in q[1].evs \/ \E j \in 1..k : x \in q[j + 1].evs
      <4>1. ASSUME NEW j \in 1..(k + 1), x \in q[j].evs, j # 1
            PROVE  \E h \in 1..k : x \in q[h + 1].evs
        <5>1. j - 1 \in 1..k /\ (j - 1) + 1 = j
          BY <1>1, <4>1
        <5> QED
          BY <4>1, <5>1
      <4>2. 1 \in 1..(k + 1) /\ \A j \in 1..k : j + 1 \in 1..(k + 1)
        BY <1>1
      <4> QED
        BY <4>1, <4>2
    <3> QED
      BY <3>1, <3>2, <3>3
  <2> QED
    BY <1>1, <2>1
<1>3. BatchStage(f, B \cup Head(q).evs, Tail(q))
  <2>1. SUFFICES ASSUME NEW k \in 1..Len(Tail(q)), Tail(q)[k].lane = "FAST"
                 PROVE  Cov(f, Tail(q)[k].max, (B \cup Head(q).evs) \cup BatchEvs(Tail(q), k))
    BY DEF BatchStage
  <2>2. k + 1 \in 1..Len(q) /\ Tail(q)[k] = q[k + 1] /\ k \in 0..(Len(q) - 1)
    BY <1>1
  <2>3. Cov(f, q[k + 1].max, B \cup BatchEvs(q, k + 1))
    BY <2>1, <2>2 DEF BatchStage
  <2> QED
    BY <1>2, <2>2, <2>3
<1>4. B \cup BatchEvs(q, Len(q)) = (B \cup Head(q).evs) \cup BatchEvs(Tail(q), Len(Tail(q)))
  <2>1. Len(q) - 1 \in 0..(Len(q) - 1) /\ (Len(q) - 1) + 1 = Len(q)
    BY <1>1
  <2> QED
    BY <1>1, <1>2, <2>1
<1>5. Head(q).lane = "FAST" => Cov(f, Head(q).max, B \cup Head(q).evs)
  <2>1. BatchEvs(q, 1) = q[1].evs
    BY DEF BatchEvs
  <2>2. 1 \in 1..Len(q)
    BY <1>1
  <2>3. q[1].lane = "FAST" => Cov(f, q[1].max, B \cup BatchEvs(q, 1))
    BY <2>2 DEF BatchStage
  <2> QED
    BY <1>1, <2>1, <2>3
<1> QED
  BY <1>3, <1>4, <1>5

LEMMA BatchAdds ==
    ASSUME NEW q \in Seq(Batch), NEW b, NEW p, p = Append(q, b)
    PROVE  BatchEvs(p, Len(p)) = BatchEvs(q, Len(q)) \cup b.evs
<1>1. /\ Len(q) \in Nat /\ Len(p) = Len(q) + 1 /\ p[Len(q) + 1] = b
      /\ \A k \in 1..Len(q) : p[k] = q[k]
  OBVIOUS
<1>2. 1..Len(p) = 1..Len(q) \cup {Len(q) + 1}
  BY <1>1
<1> QED
  BY <1>1, <1>2 DEF BatchEvs

LEMMA BatchAppend ==
    ASSUME NEW f, NEW B, NEW q \in Seq(Batch), NEW b, NEW p, p = Append(q, b),
           BatchStage(f, B, q),
           b.lane = "FAST" => Cov(f, b.max, (B \cup BatchEvs(q, Len(q))) \cup b.evs)
    PROVE  BatchStage(f, B, p)
<1>1. /\ Len(q) \in Nat /\ Len(p) = Len(q) + 1 /\ p[Len(q) + 1] = b
      /\ \A k \in 1..Len(q) : p[k] = q[k]
  OBVIOUS
<1>2. \A k \in 1..Len(q) : BatchEvs(p, k) = BatchEvs(q, k)
  BY <1>1 DEF BatchEvs
<1>3. BatchEvs(p, Len(p)) = BatchEvs(q, Len(q)) \cup b.evs
  BY BatchAdds
<1>4. BatchStage(f, B, p)
  <2>1. SUFFICES ASSUME NEW k \in 1..Len(p), p[k].lane = "FAST"
                 PROVE  Cov(f, p[k].max, B \cup BatchEvs(p, k))
    BY DEF BatchStage
  <2>2. CASE k \in 1..Len(q)
    BY <1>1, <1>2, <2>1, <2>2 DEF BatchStage
  <2>3. CASE k = Len(q) + 1
    <3>1. B \cup BatchEvs(p, k) = (B \cup BatchEvs(q, Len(q))) \cup b.evs
      BY <1>1, <1>3, <2>3
    <3> QED
      BY <1>1, <2>1, <2>3, <3>1
  <2> QED
    BY <1>1, <2>2, <2>3
<1> QED
  BY <1>4

LEMMA BatchMonotone ==
    ASSUME NEW f, NEW B, NEW C, NEW q, BatchStage(f, B, q), B \subseteq C
    PROVE  BatchStage(f, C, q)
<1>1. \A k : B \cup BatchEvs(q, k) \subseteq C \cup BatchEvs(q, k)
  OBVIOUS
<1> QED
  BY <1>1, CovMonotone DEF BatchStage

LEMMA ItemTail ==
    ASSUME NEW f, NEW B, NEW q \in Seq(Item), q # <<>>, NEW L, ItemStage(f, B, q, L)
    PROVE  /\ Head(q).lane \in L => ItemStage(f, B \cup {Head(q).ev}, Tail(q), L)
           /\ Head(q).lane \notin L => ItemStage(f, B, Tail(q), L)
           /\ ItemEvs(q, Len(q), L) \subseteq ItemEvs(Tail(q), Len(Tail(q)), L)
                  \cup (IF Head(q).lane \in L THEN {Head(q).ev} ELSE {})
           /\ Head(q).lane \in L => Cov(f, Head(q).off, B \cup {Head(q).ev})
<1> DEFINE H == IF Head(q).lane \in L THEN {Head(q).ev} ELSE {}
<1>1. /\ Len(q) \in Nat /\ Len(q) > 0 /\ Head(q) = q[1]
      /\ Len(Tail(q)) = Len(q) - 1 /\ \A k \in 1..Len(Tail(q)) : Tail(q)[k] = q[k + 1]
  OBVIOUS
<1>2. ASSUME NEW k \in 0..(Len(q) - 1)
      PROVE  ItemEvs(q, k + 1, L) \subseteq ItemEvs(Tail(q), k, L) \cup H
  <2>1. SUFFICES ASSUME NEW j \in 1..(k + 1), q[j].lane \in L
                 PROVE  q[j].ev \in ItemEvs(Tail(q), k, L) \cup H
    BY DEF ItemEvs
  <2>2. CASE j = 1
    BY <1>1, <2>1, <2>2
  <2>3. CASE j # 1
    <3>1. j - 1 \in 1..k /\ j - 1 \in 1..Len(Tail(q)) /\ (j - 1) + 1 = j
      BY <1>1, <2>3
    <3>2. Tail(q)[j - 1] = q[j]
      BY <1>1, <3>1
    <3> QED
      BY <2>1, <3>1, <3>2 DEF ItemEvs
  <2> QED
    BY <2>2, <2>3
<1> HIDE DEF H
<1>3. ItemStage(f, B \cup H, Tail(q), L)
  <2>1. SUFFICES ASSUME NEW k \in 1..Len(Tail(q)), Tail(q)[k].lane \in L
                 PROVE  Cov(f, Tail(q)[k].off, (B \cup H) \cup ItemEvs(Tail(q), k, L))
    BY DEF ItemStage
  <2>2. k + 1 \in 1..Len(q) /\ Tail(q)[k] = q[k + 1] /\ k \in 0..(Len(q) - 1)
    BY <1>1
  <2>3. Cov(f, q[k + 1].off, B \cup ItemEvs(q, k + 1, L))
    BY <2>1, <2>2 DEF ItemStage
  <2>4. B \cup ItemEvs(q, k + 1, L) \subseteq (B \cup H) \cup ItemEvs(Tail(q), k, L)
    BY <1>2, <2>2
  <2> QED
    BY <2>2, <2>3, <2>4, CovMonotone
<1>4. ItemEvs(q, Len(q), L) \subseteq ItemEvs(Tail(q), Len(Tail(q)), L) \cup H
  <2>1. Len(q) - 1 \in 0..(Len(q) - 1) /\ (Len(q) - 1) + 1 = Len(q)
    BY <1>1
  <2> QED
    BY <1>1, <1>2, <2>1
<1>5. Head(q).lane \in L => Cov(f, Head(q).off, B \cup {Head(q).ev})
  <2>1. ItemEvs(q, 1, L) \subseteq {Head(q).ev}
    BY <1>1 DEF ItemEvs
  <2>2. B \cup ItemEvs(q, 1, L) \subseteq B \cup {Head(q).ev}
    BY <2>1
  <2>3. 1 \in 1..Len(q)
    BY <1>1
  <2>4. q[1].lane \in L => Cov(f, q[1].off, B \cup ItemEvs(q, 1, L))
    BY <2>3 DEF ItemStage
  <2> QED
    BY <1>1, <2>2, <2>4, CovMonotone
<1>6. B \cup {} = B
  OBVIOUS
<1> QED
  BY <1>3, <1>4, <1>5, <1>6 DEF H

LEMMA ItemAppend ==
    ASSUME NEW f, NEW B, NEW q \in Seq(Item), NEW x, NEW L,
           ItemStage(f, B, q, L),
           x.lane \in L => Cov(f, x.off, (B \cup ItemEvs(q, Len(q), L)) \cup {x.ev})
    PROVE  /\ ItemStage(f, B, Append(q, x), L)
           /\ ItemEvs(q, Len(q), L) \subseteq ItemEvs(Append(q, x), Len(Append(q, x)), L)
           /\ x.lane \in L => x.ev \in ItemEvs(Append(q, x), Len(Append(q, x)), L)
<1> DEFINE p == Append(q, x)
<1>1. /\ Len(q) \in Nat /\ Len(p) = Len(q) + 1 /\ p[Len(q) + 1] = x
      /\ \A k \in 1..Len(q) : p[k] = q[k]
  OBVIOUS
<1> HIDE DEF p
<1>2. \A k \in 1..Len(q) : ItemEvs(p, k, L) = ItemEvs(q, k, L)
  BY <1>1 DEF ItemEvs
<1>3. ItemEvs(q, Len(q), L) \subseteq ItemEvs(p, Len(p), L)
  BY <1>1 DEF ItemEvs
<1>4. x.lane \in L => x.ev \in ItemEvs(p, Len(p), L)
  BY <1>1 DEF ItemEvs
<1>5. ItemStage(f, B, p, L)
  <2>1. SUFFICES ASSUME NEW k \in 1..Len(p), p[k].lane \in L
                 PROVE  Cov(f, p[k].off, B \cup ItemEvs(p, k, L))
    BY DEF ItemStage
  <2>2. CASE k \in 1..Len(q)
    BY <1>1, <1>2, <2>1, <2>2 DEF ItemStage
  <2>3. CASE k = Len(q) + 1
    <3>1. (B \cup ItemEvs(q, Len(q), L)) \cup {x.ev} \subseteq B \cup ItemEvs(p, k, L)
      BY <1>1, <1>3, <1>4, <2>1, <2>3
    <3> QED
      BY <1>1, <2>1, <2>3, <3>1, CovMonotone
  <2> QED
    BY <1>1, <2>2, <2>3
<1> QED
  BY <1>3, <1>4, <1>5 DEF p

LEMMA ItemMonotone ==
    ASSUME NEW f, NEW B, NEW C, NEW q, NEW L, ItemStage(f, B, q, L), B \subseteq C
    PROVE  ItemStage(f, C, q, L)
<1>1. \A k : B \cup ItemEvs(q, k, L) \subseteq C \cup ItemEvs(q, k, L)
  OBVIOUS
<1> QED
  BY <1>1, CovMonotone DEF ItemStage

(* A longer file leaves every stage as it is.                               *)
LEMMA StagesExtend ==
    ASSUME NEW f \in Seq(Record), NEW r, NEW B, NEW q, NEW L
    PROVE  /\ BatchStage(f, B, q) => BatchStage(Append(f, r), B, q)
           /\ ItemStage(f, B, q, L) => ItemStage(Append(f, r), B, q, L)
  BY CovExtends DEF BatchStage, ItemStage

(* The offset of a batch is one of its items', which are all in it.         *)
LEMMA BatchCovered ==
    ASSUME NEW f, Len(f) \in Nat, NEW B, NEW q \in Seq(Item), NEW l \in Lane,
           ItemStage(f, B, q, Lane)
    PROVE  /\ Cov(f, BatchOf(l, q).max, B \cup BatchOf(l, q).evs)
           /\ BatchOf(l, q).evs = ItemEvs(q, Len(q), Lane)
           /\ BatchOf(l, q).lane = l
<1>1. Len(q) \in Nat /\ \A i \in 1..Len(q) : q[i] \in Item
  OBVIOUS
<1>2. \A i \in 1..Len(q) : q[i].lane \in Lane
  BY <1>1 DEF Item
<1>3. BatchOf(l, q).evs = ItemEvs(q, Len(q), Lane)
  BY <1>2 DEF BatchOf, ItemEvs
<1>4. maxOffset(q) = 0 \/ \E i \in 1..Len(q) : maxOffset(q) = q[i].off
  BY MaxOffset
<1>5. ASSUME maxOffset(q) = 0
      PROVE  Cov(f, BatchOf(l, q).max, B \cup BatchOf(l, q).evs)
  <2>1. BatchOf(l, q).max = 0
    BY <1>5 DEF BatchOf
  <2> QED
    BY <2>1, CovZero
<1>6. ASSUME NEW i \in 1..Len(q), maxOffset(q) = q[i].off
      PROVE  Cov(f, BatchOf(l, q).max, B \cup BatchOf(l, q).evs)
  <2>1. Cov(f, q[i].off, B \cup ItemEvs(q, i, Lane))
    BY <1>2 DEF ItemStage
  <2>2. ItemEvs(q, i, Lane) \subseteq ItemEvs(q, Len(q), Lane)
    BY <1>1 DEF ItemEvs
  <2>3. B \cup ItemEvs(q, i, Lane) \subseteq B \cup BatchOf(l, q).evs
    BY <1>3, <2>2
  <2>4. BatchOf(l, q).max = q[i].off
    BY <1>6 DEF BatchOf
  <2> QED
    BY <2>1, <2>3, <2>4, CovMonotone
<1> QED
  BY <1>3, <1>4, <1>5, <1>6 DEF BatchOf

LEMMA CovNext ==
    ASSUME NEW f \in Seq(Record), NEW r, NEW S, NEW U, Cov(f, Len(f), S), S \subseteq U,
           r.ok /\ r.lane = "FAST" => r.ev \in U
    PROVE  Cov(Append(f, r), Len(f) + 1, U)
<1>1. /\ Len(f) \in Nat /\ Len(Append(f, r)) = Len(f) + 1 /\ Append(f, r)[Len(f) + 1] = r
      /\ \A i \in 1..Len(f) : Append(f, r)[i] = f[i]
  OBVIOUS
<1>2. \A i \in 1..(Len(f) + 1) : i \in 1..Len(f) \/ i = Len(f) + 1
  BY <1>1
<1> QED
  BY <1>1, <1>2 DEF Cov

-----------------------------------------------------------------------------
(* Delivery.  What is at a stage, with all that is ahead of it.             *)
OnWire == received \cup BatchEvs(wire, Len(wire))
InBatches == OnWire \cup BatchEvs(batches, Len(batches))
InPending == InBatches \cup ItemEvs(pending["FAST"], Len(pending["FAST"]), Lane)
InLane == InPending \cup ItemEvs(lane["FAST"], Len(lane["FAST"]), Lane)
Ahead == InLane \cup ItemEvs(input, Len(input), {"FAST"})

(* Wherever a FAST offset is, the accepted FAST records up to it are ahead  *)
(* of it, at the same stage or have been received: the channels keep their  *)
(* order, and the offset of a record is at most its position.               *)
Stages ==
    /\ \A a \in acked : Cov(file, a.max, received)
    /\ BatchStage(file, received, wire)
    /\ BatchStage(file, OnWire, batches)
    /\ ItemStage(file, InBatches, pending["FAST"], Lane)
    /\ ItemStage(file, InPending, lane["FAST"], Lane)
    /\ ItemStage(file, InLane, input, {"FAST"})
    /\ phase = "replay" => Cov(file, rp - 1, Ahead)
    /\ phase = "run" => Cov(file, Len(file), Ahead)

DeliveryInv ==
    /\ breaks = 0 => zombies = 0
    /\ Undisturbed => Stages

(* A stage that does not move is kept when nothing ahead of it is lost.     *)
LEMMA Behind ==
    ASSUME Stages, UNCHANGED file
    PROVE  /\ /\ OnWire \subseteq OnWire' /\ UNCHANGED batches
              => /\ BatchStage(file, OnWire, batches)'
                 /\ InBatches \subseteq InBatches'
           /\ /\ InBatches \subseteq InBatches' /\ UNCHANGED pending["FAST"]
              => /\ ItemStage(file, InBatches, pending["FAST"], Lane)'
                 /\ InPending \subseteq InPending'
           /\ /\ InPending \subseteq InPending' /\ UNCHANGED lane["FAST"]
              => /\ ItemStage(file, InPending, lane["FAST"], Lane)'
                 /\ InLane \subseteq InLane'
           /\ /\ InLane \subseteq InLane' /\ UNCHANGED input
              => /\ ItemStage(file, InLane, input, {"FAST"})'
                 /\ Ahead \subseteq Ahead'
           /\ /\ Ahead \subseteq Ahead' /\ UNCHANGED <<phase, rp>>
              => /\ (phase = "replay" => Cov(file, rp - 1, Ahead))'
                 /\ (phase = "run" => Cov(file, Len(file), Ahead))'
<1>1. /\ BatchStage(file, OnWire, batches)
      /\ ItemStage(file, InBatches, pending["FAST"], Lane)
      /\ ItemStage(file, InPending, lane["FAST"], Lane)
      /\ ItemStage(file, InLane, input, {"FAST"})
      /\ phase = "replay" => Cov(file, rp - 1, Ahead)
      /\ phase = "run" => Cov(file, Len(file), Ahead)
  BY DEF Stages
<1>2. ASSUME OnWire \subseteq OnWire', UNCHANGED batches
      PROVE  /\ BatchStage(file, OnWire, batches)'
             /\ InBatches \subseteq InBatches'
  <2>1. InBatches \subseteq InBatches'
    BY <1>2 DEF InBatches
  <2>2. BatchStage(file', OnWire', batches')
    BY <1>1, <1>2, BatchMonotone
  <2> QED
    BY <2>1, <2>2
<1>3. ASSUME InBatches \subseteq InBatches', UNCHANGED pending["FAST"]
      PROVE  /\ ItemStage(file, InBatches, pending["FAST"], Lane)'
             /\ InPending \subseteq InPending'
  <2>1. InPending \subseteq InPending'
    BY <1>3 DEF InPending
  <2>2. ItemStage(file', InBatches', pending["FAST"]', Lane)
    BY <1>1, <1>3, ItemMonotone
  <2> QED
    BY <2>1, <2>2
<1>4. ASSUME InPending \subseteq InPending', UNCHANGED lane["FAST"]
      PROVE  /\ ItemStage(file, InPending, lane["FAST"], Lane)'
             /\ InLane \subseteq InLane'
  <2>1. InLane \subseteq InLane'
    BY <1>4 DEF InLane
  <2>2. ItemStage(file', InPending', lane["FAST"]', Lane)
    BY <1>1, <1>4, ItemMonotone
  <2> QED
    BY <2>1, <2>2
<1>5. ASSUME InLane \subseteq InLane', UNCHANGED input
      PROVE  /\ ItemStage(file, InLane, input, {"FAST"})'
             /\ Ahead \subseteq Ahead'
  <2>1. Ahead \subseteq Ahead'
    BY <1>5 DEF Ahead
  <2>2. ItemStage(file', InLane', input', {"FAST"})
    BY <1>1, <1>5, ItemMonotone
  <2> QED
    BY <2>1, <2>2
<1>6. ASSUME Ahead \subseteq Ahead', UNCHANGED <<phase, rp>>
      PROVE  /\ (phase = "replay" => Cov(file, rp - 1, Ahead))'
             /\ (phase = "run" => Cov(file, Len(file), Ahead))'
  BY <1>1, <1>6, CovMonotone
<1> QED
  BY <1>2, <1>3, <1>4, <1>5, <1>6

(* A connection that broke, or an acknowledgement of the other lane, stays  *)
(* in the past; a writer loop is left over only from a broken connection.   *)
LEMMA UndisturbedStep ==
    TypeOK /\ (breaks = 0 => zombies = 0) /\ [Next]_vars
        => (Undisturbed' => Undisturbed) /\ (breaks = 0 => zombies = 0)'
<1> SUFFICES ASSUME TypeOK, breaks = 0 => zombies = 0, [Next]_vars
             PROVE  (Undisturbed' => Undisturbed) /\ (breaks = 0 => zombies = 0)'
  OBVIOUS
<1> USE DEF disk, log, queues, net, master, counts
<1>a. breaks \in Nat
  BY DEF TypeOK, MasterType
<1>1. CASE UNCHANGED <<breaks, acked>> /\ zombies' \in {zombies, 0}
  BY <1>1 DEF Undisturbed
<1>2. ASSUME NEW k \in 0..Len(wire), Break(k)
      PROVE  (Undisturbed' => Undisturbed) /\ (breaks = 0 => zombies = 0)'
  <2>1. breaks' = breaks + 1
    BY <1>2 DEF Break
  <2>2. breaks' # 0
    BY <2>1, <1>a
  <2> QED
    BY <2>2 DEF Undisturbed
<1>3. CASE MasterReceives
  <2>1. acked \subseteq acked' /\ UNCHANGED <<breaks, zombies>>
    BY <1>3 DEF MasterReceives
  <2> QED
    BY <2>1 DEF Undisturbed
<1>4. CASE ZombieTakes
  <2>1. zombies > 0 /\ UNCHANGED <<breaks, acked>>
    BY <1>4 DEF ZombieTakes
  <2>2. breaks' # 0
    BY <2>1
  <2> QED
    BY <2>1, <2>2 DEF Undisturbed
<1>5. CASE Start \/ Replay \/ ReplayEnds \/ ReplayFails \/ Crash
  BY <1>1, <1>5 DEF Start, Replay, ReplayEnds, ReplayFails, Crash, LoseMemory
<1>6. CASE CommitBegins \/ CommitEnds \/ CommitFails \/ Dispatch \/ Connect
  BY <1>1, <1>6 DEF CommitBegins, CommitEnds, CommitFails, Dispatch, Connect
<1>7. CASE Send \/ MasterDropsAck \/ AckArrives \/ UNCHANGED vars
  BY <1>1, <1>7 DEF Send, MasterDropsAck, AckArrives, vars
<1>8. CASE \E l \in Lane : WalAppend(l) \/ WalAppendFails(l) \/ Schedule(l) \/ FlushLane(l)
  BY <1>1, <1>8 DEF WalAppend, WalAppendFails, Schedule, FlushLane
<1> QED
  BY <1>2, <1>3, <1>4, <1>5, <1>6, <1>7, <1>8 DEF Next

LEMMA StagesStep ==
    ASSUME TypeOK, OffsetInv, WatermarkInv, Stages, Undisturbed', zombies = 0, breaks \in Nat,
           Undisturbed, [Next]_vars
    PROVE  Stages'
<1> USE DEF disk, log, queues, net, master, counts
<1>a. /\ file \in Seq(Record) /\ Len(file) \in Nat /\ input \in Seq(Item)
      /\ lane["FAST"] \in Seq(Item) /\ pending["FAST"] \in Seq(Item)
      /\ batches \in Seq(Batch) /\ wire \in Seq(Batch) /\ rp \in Nat \ {0}
      /\ lane \in [Lane -> Seq(Item)] /\ pending \in [Lane -> Seq(Item)]
  BY Places DEF TypeOK, LogType, QueueType, NetType, Lane
<1>b. /\ \A a \in acked : Cov(file, a.max, received)
      /\ BatchStage(file, received, wire)
      /\ BatchStage(file, OnWire, batches)
      /\ ItemStage(file, InBatches, pending["FAST"], Lane)
      /\ ItemStage(file, InPending, lane["FAST"], Lane)
      /\ ItemStage(file, InLane, input, {"FAST"})
  BY DEF Stages
<1>c. /\ phase = "replay" => Cov(file, rp - 1, Ahead)
      /\ phase = "run" => Cov(file, Len(file), Ahead)
  BY DEF Stages
<1>1. CASE UNCHANGED <<file, input, lane["FAST"], pending["FAST"], batches, wire, received, acked, phase, rp>>
  BY <1>1 DEF Stages, OnWire, InBatches, InPending, InLane, Ahead
<1>2. CASE Start
  <2>1. /\ UNCHANGED <<file, input, lane, pending, batches, wire, received, acked>>
        /\ phase' = "replay" /\ rp' = 1
    BY <1>2 DEF Start
  <2>2. Cov(file', rp' - 1, Ahead')
    BY <1>a, <2>1, CovZero
  <2> QED
    BY <2>1, <2>2 DEF Stages, OnWire, InBatches, InPending, InLane, Ahead
<1>3. ASSUME LoseMemory, UNCHANGED <<file, received, acked>> PROVE Stages'
  <2>1. /\ wire' = <<>> /\ batches' = <<>> /\ pending'["FAST"] = <<>> /\ lane'["FAST"] = <<>>
        /\ input' = <<>> /\ phase' = "down"
    BY <1>3 DEF LoseMemory, None, Lane
  <2>2. \A q : q = <<>> => 1..Len(q) = {}
    OBVIOUS
  <2> QED
    BY <1>3, <1>b, <2>1, <2>2 DEF Stages, BatchStage, ItemStage
<1>4. CASE Replay
  <2>1. /\ UNCHANGED <<file, lane, pending, batches, wire, received, acked, phase>>
        /\ phase = "replay" /\ rp <= Len(file) /\ rp' = rp + 1 /\ file[rp] # Torn
    BY <1>4 DEF Replay
  <2>2. /\ UNCHANGED <<OnWire, InBatches, InPending, InLane>>
    BY <2>1 DEF OnWire, InBatches, InPending, InLane
  <2>3. CASE rp <= committed /\ UNCHANGED input
    <3>1. committed \in AckedOffsets
      BY <1>a, <2>3 DEF WatermarkInv, TypeOK, LogType
    <3>2. Cov(file, committed, received)
      BY <1>b, <3>1 DEF AckedOffsets
    <3>3. received \subseteq Ahead
      BY DEF OnWire, InBatches, InPending, InLane, Ahead
    <3>4. Cov(file, rp, Ahead)
      BY <1>a, <2>3, <3>2, <3>3 DEF Cov
    <3>5. UNCHANGED Ahead /\ rp' - 1 = rp
      BY <1>a, <2>1, <2>2, <2>3 DEF Ahead
    <3> QED
      BY <1>b, <2>1, <2>2, <2>3, <3>4, <3>5 DEF Stages
  <2>4. CASE input' = Append(input, ItemOf(file[rp]))
    <3>1. rp \in 1..Len(file) /\ Cov(file, rp - 1, Ahead)
      BY <1>a, <1>c, <2>1
    <3>2. file[rp].off \in 1..rp
      BY <2>1, <3>1 DEF OffsetInv, OffsetsLag
    <3>3. /\ ItemOf(file[rp]).lane = file[rp].lane /\ ItemOf(file[rp]).off = file[rp].off
          /\ ItemOf(file[rp]).ev = file[rp].ev
      BY DEF ItemOf
    <3>4. file[rp].lane = "FAST" => Cov(file, rp, Ahead \cup {file[rp].ev})
      BY <1>a, <3>1 DEF Cov
    <3>5. file[rp].lane = "FAST" => Cov(file, file[rp].off, Ahead \cup {file[rp].ev})
      BY <3>1, <3>2, <3>4 DEF Cov
    <3>6. /\ ItemStage(file, InLane, input', {"FAST"})
          /\ ItemEvs(input, Len(input), {"FAST"}) \subseteq ItemEvs(input', Len(input'), {"FAST"})
          /\ file[rp].lane = "FAST" => file[rp].ev \in ItemEvs(input', Len(input'), {"FAST"})
      BY <1>a, <1>b, <2>4, <3>3, <3>5, ItemAppend DEF Ahead
    <3>7. /\ Ahead \subseteq Ahead'
          /\ file[rp].lane = "FAST" => file[rp].ev \in Ahead'
      BY <2>2, <3>6 DEF Ahead
    <3>8. Cov(file, rp, Ahead')
      BY <1>a, <3>1, <3>7 DEF Cov
    <3>9. rp' - 1 = rp
      BY <1>a, <2>1
    <3> QED
      BY <1>b, <2>1, <2>2, <3>6, <3>8, <3>9 DEF Stages
  <2> QED
    BY <1>4, <2>3, <2>4 DEF Replay
<1>5. ASSUME NEW r, file' = Append(file, r), phase = "run",
             UNCHANGED <<lane, pending, batches, wire, received, acked, phase>>
      PROVE  /\ UNCHANGED <<OnWire, InBatches, InPending, InLane>>
             /\ (\A a \in acked : Cov(file, a.max, received))'
             /\ BatchStage(file, received, wire)' /\ BatchStage(file, OnWire, batches)'
             /\ ItemStage(file, InBatches, pending["FAST"], Lane)'
             /\ ItemStage(file, InPending, lane["FAST"], Lane)'
             /\ ItemStage(file', InLane', input, {"FAST"})
             /\ Len(file') = Len(file) + 1 /\ Cov(file, Len(file), Ahead)
  <2>1. UNCHANGED <<OnWire, InBatches, InPending, InLane>>
    BY <1>5 DEF OnWire, InBatches, InPending, InLane
  <2>2. \A a \in acked' : Cov(file', a.max, received')
    BY <1>5, <1>a, <1>b, CovExtends
  <2>3. BatchStage(file', received', wire') /\ BatchStage(file', OnWire', batches')
    BY <1>5, <1>a, <1>b, <2>1, StagesExtend
  <2>4. /\ ItemStage(file', InBatches', pending'["FAST"], Lane)
        /\ ItemStage(file', InPending', lane'["FAST"], Lane)
        /\ ItemStage(file', InLane', input, {"FAST"})
    BY <1>5, <1>a, <1>b, <2>1, StagesExtend
  <2>5. Len(file') = Len(file) + 1
    BY <1>5, <1>a
  <2> QED
    BY <1>5, <1>c, <2>1, <2>2, <2>3, <2>4, <2>5
<1>6. ASSUME NEW l \in Lane, WalAppend(l) PROVE Stages'
  <2> DEFINE r == NewRecord(l, TRUE)
             x == ItemOf(r)
  <2>1. /\ phase = "run" /\ file' = Append(file, r) /\ input' = Append(input, x)
        /\ UNCHANGED <<lane, pending, batches, wire, received, acked, phase>>
    BY <1>6 DEF WalAppend
  <2>2. x.ev = r.ev /\ x.lane = r.lane /\ x.off = nextOffset
    BY DEF NewRecord, ItemOf
  <2> HIDE DEF r, x
  <2>3. /\ UNCHANGED <<OnWire, InBatches, InPending, InLane>>
        /\ (\A a \in acked : Cov(file, a.max, received))'
        /\ BatchStage(file, received, wire)' /\ BatchStage(file, OnWire, batches)'
        /\ ItemStage(file, InBatches, pending["FAST"], Lane)'
        /\ ItemStage(file, InPending, lane["FAST"], Lane)'
        /\ ItemStage(file', InLane', input, {"FAST"})
        /\ Len(file') = Len(file) + 1 /\ Cov(file, Len(file), Ahead)
    BY <1>5, <2>1
  <2>4. Cov(file', Len(file) + 1, Ahead \cup {r.ev})
    BY <1>a, <2>1, <2>3, CovNext
  <2>5. nextOffset \in 1..(Len(file) + 1)
    BY DEF OffsetInv
  <2>6. Cov(file', x.off, Ahead \cup {x.ev})
    BY <1>a, <2>2, <2>4, <2>5 DEF Cov
  <2>7. /\ ItemStage(file', InLane', input', {"FAST"})
        /\ ItemEvs(input, Len(input), {"FAST"}) \subseteq ItemEvs(input', Len(input'), {"FAST"})
        /\ x.lane = "FAST" => x.ev \in ItemEvs(input', Len(input'), {"FAST"})
    BY <1>a, <2>1, <2>3, <2>6, ItemAppend DEF Ahead
  <2>8. Ahead \subseteq Ahead' /\ (r.lane = "FAST" => r.ev \in Ahead')
    BY <2>2, <2>3, <2>7 DEF Ahead
  <2>9. Cov(file', Len(file'), Ahead')
    BY <1>a, <2>1, <2>3, <2>8, CovNext
  <2> QED
    BY <2>1, <2>3, <2>7, <2>9 DEF Stages
<1>7. ASSUME NEW l \in Lane, WalAppendFails(l) PROVE Stages'
  <2>1. /\ phase = "run" /\ file' \in {file, Append(file, Torn), Append(file, NewRecord(l, FALSE))}
        /\ UNCHANGED <<input, lane, pending, batches, wire, received, acked, phase, rp>>
    BY <1>7 DEF WalAppendFails
  <2>2. ASSUME NEW r, ~r.ok, file' = Append(file, r) PROVE Stages'
    <3>1. /\ UNCHANGED <<OnWire, InBatches, InPending, InLane>>
          /\ (\A a \in acked : Cov(file, a.max, received))'
          /\ BatchStage(file, received, wire)' /\ BatchStage(file, OnWire, batches)'
          /\ ItemStage(file, InBatches, pending["FAST"], Lane)'
          /\ ItemStage(file, InPending, lane["FAST"], Lane)'
          /\ ItemStage(file', InLane', input, {"FAST"})
          /\ Len(file') = Len(file) + 1 /\ Cov(file, Len(file), Ahead)
      BY <1>5, <2>1, <2>2
    <3>2. UNCHANGED Ahead
      BY <2>1, <3>1 DEF Ahead
    <3>3. Cov(file', Len(file'), Ahead')
      BY <1>a, <2>2, <3>1, <3>2, CovNext
    <3> QED
      BY <2>1, <3>1, <3>3 DEF Stages
  <2>3. ~Torn.ok /\ ~NewRecord(l, FALSE).ok
    BY DEF Torn, NewRecord
  <2>4. CASE file' = file
    BY <1>1, <2>1, <2>4
  <2> QED
    BY <2>1, <2>2, <2>3, <2>4
<1>8. CASE Dispatch
  <2> DEFINE item == Head(input)
  <2>1. /\ input # <<>> /\ input' = Tail(input)
        /\ UNCHANGED <<file, pending, batches, wire, received, acked, phase, rp>>
        /\ \/ lane' = lane /\ item.lane # "FAST"
           \/ lane' = [lane EXCEPT ![item.lane] = Append(@, item)]
    BY <1>8 DEF Dispatch
  <2>2. item \in Item
    BY <1>a, <2>1
  <2> HIDE DEF item
  <2>3. /\ item.lane = "FAST" => ItemStage(file, InLane \cup {item.ev}, input', {"FAST"})
        /\ item.lane # "FAST" => ItemStage(file, InLane, input', {"FAST"})
        /\ ItemEvs(input, Len(input), {"FAST"}) \subseteq ItemEvs(input', Len(input'), {"FAST"})
              \cup (IF item.lane = "FAST" THEN {item.ev} ELSE {})
        /\ item.lane = "FAST" => Cov(file, item.off, InLane \cup {item.ev})
    BY <1>a, <1>b, <2>1, ItemTail DEF item
  <2>4. UNCHANGED <<OnWire, InBatches, InPending>>
    BY <2>1 DEF OnWire, InBatches, InPending
  <2>5. CASE item.lane = "FAST"
    <3>1. lane'["FAST"] = Append(lane["FAST"], item)
      BY <1>a, <2>1, <2>5 DEF Lane
    <3>2. /\ ItemStage(file, InPending, lane'["FAST"], Lane)
          /\ ItemEvs(lane["FAST"], Len(lane["FAST"]), Lane)
                \subseteq ItemEvs(lane'["FAST"], Len(lane'["FAST"]), Lane)
          /\ item.ev \in ItemEvs(lane'["FAST"], Len(lane'["FAST"]), Lane)
      <4>1. Cov(file, item.off, (InPending \cup
                  ItemEvs(lane["FAST"], Len(lane["FAST"]), Lane)) \cup {item.ev})
        BY <2>3, <2>5 DEF InLane
      <4>2. item.lane \in Lane
        BY <2>5 DEF Lane
      <4> DEFINE q == lane["FAST"]
      <4>3. q \in Seq(Item) /\ ItemStage(file, InPending, q, Lane)
        BY <1>a, <1>b
      <4> HIDE DEF q
      <4>4. /\ ItemStage(file, InPending, Append(q, item), Lane)
            /\ ItemEvs(q, Len(q), Lane) \subseteq ItemEvs(Append(q, item), Len(Append(q, item)), Lane)
            /\ item.ev \in ItemEvs(Append(q, item), Len(Append(q, item)), Lane)
        BY <4>1, <4>2, <4>3, ItemAppend DEF q
      <4> QED
        BY <3>1, <4>4 DEF q
    <3>3. InLane \cup {item.ev} \subseteq InLane'
      BY <2>4, <3>2 DEF InLane
    <3>4. ItemStage(file, InLane', input', {"FAST"})
      BY <2>3, <2>5, <3>3, ItemMonotone
    <3>5. Ahead \subseteq Ahead'
      BY <2>3, <2>5, <3>3 DEF Ahead
    <3>6. /\ (phase = "replay" => Cov(file, rp - 1, Ahead))'
          /\ (phase = "run" => Cov(file, Len(file), Ahead))'
      BY <1>c, <2>1, <3>5, CovMonotone
    <3> QED
      BY <1>b, <2>1, <2>4, <3>2, <3>4, <3>6 DEF Stages
  <2>6. CASE item.lane # "FAST"
    <3>1. lane'["FAST"] = lane["FAST"]
      BY <1>a, <2>1, <2>6 DEF Lane
    <3>2. UNCHANGED InLane
      BY <2>4, <3>1 DEF InLane
    <3>3. Ahead \subseteq Ahead'
      BY <2>3, <2>6, <3>2 DEF Ahead
    <3>4. /\ (phase = "replay" => Cov(file, rp - 1, Ahead))'
          /\ (phase = "run" => Cov(file, Len(file), Ahead))'
      BY <1>c, <2>1, <3>3, CovMonotone
    <3> QED
      BY <1>b, <2>1, <2>3, <2>4, <2>6, <3>1, <3>2, <3>4 DEF Stages
  <2> QED
    BY <2>5, <2>6
<1>9. ASSUME NEW b, b.lane = "FAST" => Cov(file, b.max, InBatches \cup b.evs),
             batches' = Append(batches, b), UNCHANGED <<file, wire, received, acked>>
      PROVE  /\ UNCHANGED OnWire /\ BatchStage(file, OnWire, batches)'
             /\ InBatches' = InBatches \cup b.evs
  <2>1. UNCHANGED OnWire
    BY <1>9 DEF OnWire
  <2>2. b.lane = "FAST" => Cov(file, b.max, (OnWire \cup BatchEvs(batches, Len(batches))) \cup b.evs)
    BY <1>9 DEF InBatches
  <2>3. /\ BatchStage(file, OnWire, batches')
        /\ BatchEvs(batches', Len(batches')) = BatchEvs(batches, Len(batches)) \cup b.evs
    <3>1. /\ BatchStage(file, OnWire, batches')
          /\ BatchEvs(batches', Len(batches')) = BatchEvs(batches, Len(batches)) \cup b.evs
      <4>1. batches \in Seq(Batch) /\ BatchStage(file, OnWire, batches)
        BY <1>a, <1>b
      <4>2. BatchStage(file, OnWire, batches')
        BY <1>9, <2>2, <4>1, BatchAppend
      <4>3. BatchEvs(batches', Len(batches')) = BatchEvs(batches, Len(batches)) \cup b.evs
        BY <1>9, <4>1, BatchAdds
      <4> QED
        BY <4>2, <4>3
    <3> QED
      BY <1>9, <3>1
  <2> QED
    BY <1>9, <2>1, <2>3 DEF InBatches
<1>10. ASSUME NEW l \in Lane, Schedule(l) PROVE Stages'
  <2> DEFINE x == Head(lane[l])
             items == Append(pending[l], x)
             b == BatchOf(l, items)
  <2>1. /\ lane[l] # <<>> /\ lane' = [lane EXCEPT ![l] = Tail(lane[l])]
        /\ \/ pending' = [pending EXCEPT ![l] = <<>>] /\ batches' = Append(batches, b)
           \/ pending' = [pending EXCEPT ![l] = items] /\ batches' = batches
        /\ UNCHANGED <<file, input, wire, received, acked, phase, rp>>
    BY <1>10 DEF Schedule
  <2>2. lane[l] \in Seq(Item) /\ pending[l] \in Seq(Item)
    BY <1>a
  <2>3. x \in Item /\ x.lane \in Lane
    <3>1. x \in Item
      BY <2>1, <2>2 DEF x
    <3> QED
      BY <3>1 DEF Item
  <2>4. items \in Seq(Item)
    BY <2>2, <2>3, Extending
  <2> HIDE DEF x, items, b
  <2>5. CASE l = "FAST"
    <3>1. /\ ItemStage(file, InPending \cup {x.ev}, Tail(lane["FAST"]), Lane)
          /\ ItemEvs(lane["FAST"], Len(lane["FAST"]), Lane)
                \subseteq ItemEvs(Tail(lane["FAST"]), Len(Tail(lane["FAST"])), Lane) \cup {x.ev}
          /\ Cov(file, x.off, InPending \cup {x.ev})
      BY <1>a, <1>b, <2>1, <2>3, <2>5, ItemTail DEF x
    <3>2. /\ ItemStage(file, InBatches, items, Lane)
          /\ ItemEvs(pending["FAST"], Len(pending["FAST"]), Lane) \subseteq ItemEvs(items, Len(items), Lane)
          /\ x.ev \in ItemEvs(items, Len(items), Lane)
      <4>1. Cov(file, x.off, (InBatches \cup
                  ItemEvs(pending["FAST"], Len(pending["FAST"]), Lane)) \cup {x.ev})
        BY <3>1 DEF InPending
      <4> QED
        BY <1>a, <1>b, <2>3, <2>5, <4>1, ItemAppend DEF items
    <3>3. InPending \cup {x.ev} \subseteq InBatches \cup ItemEvs(items, Len(items), Lane)
      BY <3>2 DEF InPending
    <3>4. /\ BatchStage(file, OnWire, batches)' /\ UNCHANGED OnWire
          /\ ItemStage(file, InBatches, pending["FAST"], Lane)'
          /\ InPending \cup {x.ev} \subseteq InPending'
      <4>1. CASE pending' = [pending EXCEPT ![l] = <<>>] /\ batches' = Append(batches, b)
        <5>1. /\ Cov(file, b.max, InBatches \cup b.evs)
              /\ b.evs = ItemEvs(items, Len(items), Lane)
          BY <1>a, <2>4, <3>2, BatchCovered DEF b
        <5>2. /\ UNCHANGED OnWire /\ BatchStage(file, OnWire, batches)'
              /\ InBatches' = InBatches \cup b.evs
          BY <1>9, <2>1, <4>1, <5>1
        <5>3. pending'["FAST"] = <<>>
          BY <1>a, <2>5, <4>1
        <5>4. ItemStage(file', InBatches', pending'["FAST"], Lane)
          BY <5>3 DEF ItemStage
        <5> QED
          BY <3>3, <5>1, <5>2, <5>4 DEF InPending
      <4>2. CASE pending' = [pending EXCEPT ![l] = items] /\ batches' = batches
        <5>1. UNCHANGED <<OnWire, InBatches>> /\ pending'["FAST"] = items
          BY <1>a, <2>1, <2>5, <4>2 DEF OnWire, InBatches
        <5> QED
          BY <1>b, <2>1, <3>2, <3>3, <4>2, <5>1 DEF InPending
      <4> QED
        BY <2>1, <4>1, <4>2
    <3>5. lane'["FAST"] = Tail(lane["FAST"])
      BY <1>a, <2>1, <2>5
    <3>6. ItemStage(file', InPending', lane'["FAST"], Lane)
      BY <2>1, <3>1, <3>4, <3>5, ItemMonotone
    <3>7. InLane \subseteq InLane'
      BY <3>1, <3>4, <3>5 DEF InLane
    <3> QED
      BY <1>b, <2>1, <3>4, <3>6, <3>7, Behind DEF Stages
  <2>6. CASE l # "FAST"
    <3>1. UNCHANGED <<lane["FAST"], pending["FAST"]>>
      BY <1>a, <2>1, <2>6 DEF Lane
    <3>2. BatchStage(file, OnWire, batches)' /\ UNCHANGED OnWire /\ InBatches \subseteq InBatches'
      <4>1. CASE batches' = Append(batches, b)
        <5>1. b.lane # "FAST"
          BY <2>6 DEF b, BatchOf
        <5> QED
          BY <1>9, <2>1, <4>1, <5>1
      <4>2. CASE batches' = batches
        BY <1>b, <2>1, <4>2 DEF OnWire, InBatches
      <4> QED
        BY <2>1, <4>1, <4>2
    <3> QED
      BY <1>b, <2>1, <3>1, <3>2, Behind DEF Stages
  <2> QED
    BY <2>5, <2>6
<1>11. ASSUME NEW l \in Lane, FlushLane(l) PROVE Stages'
  <2> DEFINE b == BatchOf(l, pending[l])
  <2>1. /\ pending' = [pending EXCEPT ![l] = <<>>] /\ batches' = Append(batches, b)
        /\ UNCHANGED <<file, input, lane, wire, received, acked, phase, rp>>
    BY <1>11 DEF FlushLane
  <2> HIDE DEF b
  <2>2. CASE l = "FAST"
    <3>1. /\ Cov(file, b.max, InBatches \cup b.evs)
          /\ b.evs = ItemEvs(pending["FAST"], Len(pending["FAST"]), Lane)
      <4>1. /\ Cov(file, BatchOf("FAST", pending["FAST"]).max,
                     InBatches \cup BatchOf("FAST", pending["FAST"]).evs)
            /\ BatchOf("FAST", pending["FAST"]).evs
                  = ItemEvs(pending["FAST"], Len(pending["FAST"]), Lane)
        BY <1>a, <1>b, BatchCovered DEF Lane
      <4> QED
        BY <2>2, <4>1 DEF b
    <3>2. /\ UNCHANGED OnWire /\ BatchStage(file, OnWire, batches)'
          /\ InBatches' = InBatches \cup b.evs
      BY <1>9, <2>1, <3>1
    <3>3. pending'["FAST"] = <<>>
      BY <1>a, <2>1, <2>2
    <3>4. ItemStage(file', InBatches', pending'["FAST"], Lane)
      BY <3>3 DEF ItemStage
    <3>5. InPending \subseteq InPending'
      BY <3>1, <3>2 DEF InPending
    <3> QED
      BY <1>b, <2>1, <3>2, <3>4, <3>5, Behind DEF Stages
  <2>3. CASE l # "FAST"
    <3>1. UNCHANGED pending["FAST"] /\ b.lane # "FAST"
      BY <1>a, <2>1, <2>3 DEF Lane, b, BatchOf
    <3>2. UNCHANGED OnWire /\ BatchStage(file, OnWire, batches)' /\ InBatches \subseteq InBatches'
      BY <1>9, <2>1, <3>1
    <3> QED
      BY <1>b, <2>1, <3>1, <3>2, Behind DEF Stages
  <2> QED
    BY <2>2, <2>3
<1>12. CASE Send
  <2> DEFINE b == Head(batches)
  <2>1. /\ batches # <<>> /\ batches' = Tail(batches) /\ wire' = Append(wire, b)
        /\ UNCHANGED <<file, input, lane, pending, received, acked, phase, rp>>
    BY <1>12 DEF Send
  <2>2. /\ BatchStage(file, OnWire \cup b.evs, batches')
        /\ InBatches = (OnWire \cup b.evs) \cup BatchEvs(batches', Len(batches'))
        /\ b.lane = "FAST" => Cov(file, b.max, OnWire \cup b.evs)
    <3>1. /\ BatchStage(file, OnWire \cup Head(batches).evs, Tail(batches))
          /\ OnWire \cup BatchEvs(batches, Len(batches))
                = (OnWire \cup Head(batches).evs) \cup BatchEvs(Tail(batches), Len(Tail(batches)))
          /\ Head(batches).lane = "FAST" => Cov(file, Head(batches).max, OnWire \cup Head(batches).evs)
      BY <1>a, <1>b, <2>1, BatchTail
    <3> QED
      BY <2>1, <3>1 DEF InBatches
  <2> HIDE DEF b
  <2>3. /\ BatchStage(file, received, wire')
        /\ BatchEvs(wire', Len(wire')) = BatchEvs(wire, Len(wire)) \cup b.evs
    <3>1. b.lane = "FAST" => Cov(file, b.max, (received \cup BatchEvs(wire, Len(wire))) \cup b.evs)
      BY <2>2 DEF OnWire
    <3>2. /\ BatchStage(file, received, wire')
          /\ BatchEvs(wire', Len(wire')) = BatchEvs(wire, Len(wire)) \cup b.evs
      <4>1. wire \in Seq(Batch) /\ BatchStage(file, received, wire)
        BY <1>a, <1>b
      <4>2. BatchStage(file, received, wire')
        BY <2>1, <3>1, <4>1, BatchAppend
      <4>3. BatchEvs(wire', Len(wire')) = BatchEvs(wire, Len(wire)) \cup b.evs
        BY <2>1, <4>1, BatchAdds
      <4> QED
        BY <4>2, <4>3
    <3> QED
      BY <2>1, <3>2
  <2>4. OnWire' = OnWire \cup b.evs
    BY <2>1, <2>3 DEF OnWire
  <2>5. UNCHANGED <<InBatches, InPending, InLane, Ahead>>
    <3>1. UNCHANGED InBatches
      BY <2>2, <2>4 DEF InBatches
    <3> QED
      BY <2>1, <3>1 DEF InPending, InLane, Ahead
  <2> QED
    BY <1>b, <1>c, <2>1, <2>2, <2>3, <2>4, <2>5 DEF Stages
<1>13. ASSUME wire # <<>>, wire' = Tail(wire), received' = received \cup Head(wire).evs,
              UNCHANGED <<file, input, lane, pending, batches, phase, rp>>,
              \A a \in acked' :
                 a \in acked \/ (a.max = Head(wire).max /\ Head(wire).lane = "FAST")
       PROVE  Stages'
  <2>1. /\ BatchStage(file, received', wire')
        /\ OnWire = received' \cup BatchEvs(wire', Len(wire'))
        /\ Head(wire).lane = "FAST" => Cov(file, Head(wire).max, received')
    <3>1. /\ BatchStage(file, received \cup Head(wire).evs, Tail(wire))
          /\ received \cup BatchEvs(wire, Len(wire))
                = (received \cup Head(wire).evs) \cup BatchEvs(Tail(wire), Len(Tail(wire)))
          /\ Head(wire).lane = "FAST" => Cov(file, Head(wire).max, received \cup Head(wire).evs)
      BY <1>13, <1>a, <1>b, BatchTail
    <3> QED
      BY <1>13, <3>1 DEF OnWire
  <2>2. UNCHANGED <<OnWire, InBatches, InPending, InLane, Ahead>>
    <3>1. UNCHANGED OnWire
      BY <2>1 DEF OnWire
    <3> QED
      BY <1>13, <3>1 DEF InBatches, InPending, InLane, Ahead
  <2>3. \A a \in acked' : Cov(file, a.max, received')
    BY <1>13, <1>b, <2>1, CovMonotone
  <2> QED
    BY <1>13, <1>b, <1>c, <2>1, <2>2, <2>3 DEF Stages
<1>14. CASE MasterReceives
  <2> DEFINE a == [lane |-> Head(wire).lane, max |-> Head(wire).max]
  <2>1. /\ wire # <<>> /\ wire' = Tail(wire) /\ received' = received \cup Head(wire).evs
        /\ acked' = acked \cup {a}
        /\ UNCHANGED <<file, input, lane, pending, batches, phase, rp>>
    BY <1>14 DEF MasterReceives
  <2>2. a.lane = "FAST" /\ a.max = Head(wire).max /\ a.lane = Head(wire).lane
    BY <2>1 DEF Undisturbed
  <2> HIDE DEF a
  <2> QED
    BY <1>13, <2>1, <2>2
<1>15. CASE MasterDropsAck
  <2>1. /\ wire # <<>> /\ wire' = Tail(wire) /\ received' = received \cup Head(wire).evs
        /\ acked' = acked
        /\ UNCHANGED <<file, input, lane, pending, batches, phase, rp>>
    BY <1>15 DEF MasterDropsAck
  <2>2. \A a \in acked' :
                 a \in acked \/ (a.max = Head(wire).max /\ Head(wire).lane = "FAST")
    BY <2>1
  <2> QED
    BY <1>13, <2>1, <2>2
<1>16. ASSUME NEW k \in 0..Len(wire), Break(k) PROVE Stages'
  <2>1. breaks' = breaks + 1
    BY <1>16 DEF Break
  <2>2. breaks' # 0
    BY <2>1
  <2> QED
    BY <2>2 DEF Undisturbed
<1>17. CASE ZombieTakes
  BY <1>17 DEF ZombieTakes
<1>18. CASE ReplayEnds
  <2>1. /\ phase = "replay" /\ rp > Len(file) /\ phase' = "run"
        /\ UNCHANGED <<file, input, lane, pending, batches, wire, received, acked, rp>>
    BY <1>18 DEF ReplayEnds
  <2>2. Cov(file, Len(file), Ahead)
    BY <1>a, <1>c, <2>1 DEF Cov
  <2>3. UNCHANGED <<OnWire, InBatches, InPending, InLane, Ahead>>
    BY <2>1 DEF OnWire, InBatches, InPending, InLane, Ahead
  <2> QED
    BY <1>b, <2>1, <2>2, <2>3 DEF Stages
<1>19. CASE ReplayFails \/ Crash
  BY <1>3, <1>19 DEF ReplayFails, Crash
<1>20. CASE CommitBegins \/ CommitEnds \/ CommitFails \/ Connect \/ AckArrives \/ UNCHANGED vars
  BY <1>1, <1>20 DEF CommitBegins, CommitEnds, CommitFails, Connect, AckArrives, vars
<1> QED
  BY <1>2, <1>4, <1>6, <1>7, <1>8, <1>10, <1>11, <1>12, <1>14, <1>15, <1>16, <1>17,
     <1>18, <1>19, <1>20 DEF Next

LEMMA DeliveryAlways == Spec => []DeliveryInv
<1>1. Init => DeliveryInv
  <2> SUFFICES ASSUME Init PROVE DeliveryInv
    OBVIOUS
  <2>1. \A q : q = <<>> => 1..Len(q) = {}
    OBVIOUS
  <2>2. lane["FAST"] = <<>> /\ pending["FAST"] = <<>>
    BY DEF Init, None, Lane
  <2> QED
    BY <2>1, <2>2 DEF Init, DeliveryInv, Stages, BatchStage, ItemStage
<1>2. TypeOK /\ OffsetInv /\ WatermarkInv /\ DeliveryInv /\ [Next]_vars => DeliveryInv'
  <2> SUFFICES ASSUME TypeOK, OffsetInv, WatermarkInv, DeliveryInv, [Next]_vars
               PROVE  DeliveryInv'
    OBVIOUS
  <2>1. (Undisturbed' => Undisturbed) /\ (breaks = 0 => zombies = 0)'
    BY UndisturbedStep DEF DeliveryInv
  <2>2. ASSUME Undisturbed' PROVE Stages'
    BY <2>1, <2>2, StagesStep DEF DeliveryInv, Undisturbed, TypeOK, MasterType
  <2> QED
    BY <2>1, <2>2 DEF DeliveryInv
<1> QED
  BY <1>1, <1>2, TypeCorrect, OffsetCorrect, WatermarkAlways, PTL DEF Spec

(* As long as no connection breaks and only FAST batches are acknowledged,  *)
(* the records below the watermark have been received: for any capacities,  *)
(* batch size and number of restarts, failed writes and lost commit files.  *)
THEOREM CommittedReceived == Spec => []CommittedIsReceived
<1>1. TypeOK /\ WatermarkInv /\ DeliveryInv => CommittedIsReceived
  <2> SUFFICES ASSUME TypeOK, WatermarkInv, DeliveryInv, Undisturbed,
                      NEW i \in 1..Len(file), Accepted(i), i <= committed
               PROVE  file[i].ev \in received
    BY DEF CommittedIsReceived
  <2>1. file \in Seq(Record) /\ Len(file) \in Nat /\ committed \in Nat
    BY Places DEF TypeOK, LogType
  <2>2. committed \in AckedOffsets
    BY <2>1 DEF WatermarkInv
  <2>3. Cov(file, committed, received)
    BY <2>2 DEF DeliveryInv, Stages, AckedOffsets
  <2> QED
    BY <2>1, <2>3 DEF Cov, Accepted
<1> QED
  BY <1>1, TypeCorrect, WatermarkAlways, DeliveryAlways, PTL

(* Under the same conditions no accepted FAST event is dropped in between.  *)
THEOREM NothingDropped == Spec => []FastAccountedFor
<1>1. TypeOK /\ DeliveryInv => FastAccountedFor
  <2> SUFFICES ASSUME TypeOK, DeliveryInv, Undisturbed,
                      NEW i \in 1..Len(file), Accepted(i),
                      ~(phase = "replay" /\ i >= rp), phase # "down"
               PROVE  file[i].ev \in received \cup InMemory
    BY DEF FastAccountedFor
  <2>1. /\ file \in Seq(Record) /\ Len(file) \in Nat /\ rp \in Nat \ {0}
        /\ phase \in {"down", "replay", "run"}
    BY Places DEF TypeOK, LogType
  <2>2. Stages
    BY DEF DeliveryInv
  <2>3. file[i].ev \in Ahead
    <3>1. CASE phase = "replay"
      <4>1. i <= rp - 1 /\ Cov(file, rp - 1, Ahead)
        BY <2>1, <2>2, <3>1 DEF Stages
      <4> QED
        BY <2>1, <4>1 DEF Cov, Accepted
    <3>2. CASE phase = "run"
      BY <2>1, <2>2, <3>2 DEF Stages, Cov, Accepted
    <3> QED
      BY <2>1, <3>1, <3>2
  <2>4. Ahead \subseteq received \cup InMemory
    <3>1. /\ ItemEvs(input, Len(input), {"FAST"}) \subseteq InMemory
          /\ ItemEvs(lane["FAST"], Len(lane["FAST"]), Lane) \subseteq InMemory
          /\ ItemEvs(pending["FAST"], Len(pending["FAST"]), Lane) \subseteq InMemory
      BY DEF InMemory, ItemEvs
    <3>2. BatchEvs(batches, Len(batches)) \subseteq InMemory /\ BatchEvs(wire, Len(wire)) \subseteq InMemory
      <4>1. \A q : BatchEvs(q, Len(q)) = EventsOf(q)
        BY DEF BatchEvs, EventsOf
      <4> QED
        BY <4>1 DEF InMemory
    <3> QED
      BY <3>1, <3>2 DEF Ahead, InLane, InPending, InBatches, OnWire
  <2> QED
    BY <2>3, <2>4
<1> QED
  BY <1>1, TypeCorrect, DeliveryAlways, PTL

=============================================================================
