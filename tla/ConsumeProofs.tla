------------------------------ MODULE ConsumeProofs ------------------------------
(***************************************************************************)
(* Proofs about Consume: the engine serves one record of a lane at a time  *)
(* (OneRecordAtATime), a trigger's cooldown outlives redeliveries, failed  *)
(* calls and restarts (CooldownKept), no incident is closed that was not   *)
(* opened (ClosingsMatched), an acknowledged batch has been answered by    *)
(* every rule that matches one record (AcknowledgedAnswered), and what is  *)
(* correlated and open keeps its type and its limit (ConsumerConsistent).  *)
(***************************************************************************)
EXTENDS Consume, FiniteSetTheorems, WellFoundedInduction, TLAPS

-----------------------------------------------------------------------------
(* The data of a scene *)

Kinds == {"stateless", "count", "sequence", "join", "trigger"}
Pcs == {"idle", "begin", "rule", "suppress", "export", "incident", "open", "update",
        "publish", "allow", "trigger"}

LEMMA SceneFacts ==
    ASSUME NEW s \in Scene
    PROVE  /\ Len(s.rules) \in Nat /\ MaxRules \in Nat /\ Len(s.rules) <= MaxRules
           /\ DOMAIN s.rules = 1..Len(s.rules)
           /\ \A m \in Message :
                 /\ Len(s.content[m]) \in Nat
                 /\ DOMAIN s.content[m] = 1..Len(s.content[m])
                 /\ \A i \in 1..Len(s.content[m]) : s.content[m][i].group \in Group
<1>1. /\ s.rules \in Seq([kind : Kinds, types : Seq(STRING), threshold : Nat, window : Nat])
      /\ Len(s.rules) <= MaxRules /\ MaxRules \in Nat
      /\ s.content \in [Message -> Seq([type : STRING, group : Group, time : Nat])]
  BY ConsumeAssumption DEF Kinds
<1>2. Len(s.rules) \in Nat /\ DOMAIN s.rules = 1..Len(s.rules)
  BY <1>1
<1>3. ASSUME NEW m \in Message
      PROVE  /\ Len(s.content[m]) \in Nat
             /\ DOMAIN s.content[m] = 1..Len(s.content[m])
             /\ \A i \in 1..Len(s.content[m]) : s.content[m][i].group \in Group
  <2> DEFINE Item == [type : STRING, group : Group, time : Nat]
  <2>1. s.content \in [Message -> Seq(Item)]
    BY <1>1
  <2>2. \A x \in Item : x.group \in Group
    OBVIOUS
  <2> HIDE DEF Item
  <2>3. s.content[m] \in Seq(Item)
    BY <2>1
  <2> QED
    BY <2>2, <2>3
<1> QED
  BY <1>1, <1>2, <1>3

-----------------------------------------------------------------------------
(* Where the workers and the engine are *)

WorkerType == [pc : {"idle", "record", "wait"}, msg : Message \cup {NoMessage},
               idx : Nat, failed : BOOLEAN]
EngineType == [pc : Pcs, lane : Lane, rule : Nat, degraded : BOOLEAN]

(* A lane is at a record of the batch it has.                               *)
AtRecord(l) ==
    /\ w[l].idx > 0
    /\ w[l].pc # "idle" => w[l].msg \in Message
    /\ w[l].pc = "wait" => w[l].idx <= Len(Records(l))

(* A lane that waits is served or in the queue, once; no other lane is.     *)
Serving ==
    /\ \A i, j \in 1..Len(queue) : queue[i] = queue[j] => i = j
    /\ \A i \in 1..Len(queue) : w[queue[i]].pc = "wait" /\ (r.pc # "idle" => queue[i] # r.lane)
    /\ r.pc # "idle" => w[r.lane].pc = "wait"
    /\ \A l \in Lane : w[l].pc = "wait" =>
          (r.pc # "idle" /\ r.lane = l) \/ \E i \in 1..Len(queue) : queue[i] = l

Control ==
    /\ scene \in Scene
    /\ msg \in [Message -> {"queued", "delivered", "acked"}]
    /\ w \in [Lane -> WorkerType]
    /\ queue \in Seq(Lane)
    /\ r \in EngineType
    /\ r.rule > 0
    /\ r.pc \notin {"idle", "begin", "rule"} => r.rule <= Len(scene.rules)
    /\ \A l \in Lane : AtRecord(l)
    /\ Serving

(* The key an engine step is about is a key.                                *)
LEMMA KeyType ==
    ASSUME Control, r.pc # "idle", r.rule <= Len(scene.rules)
    PROVE  key \in Key /\ r.rule \in 1..Len(scene.rules) /\ r.lane \in Lane
<1>1. /\ scene \in Scene /\ w \in [Lane -> WorkerType] /\ r \in EngineType /\ r.rule > 0
      /\ AtRecord(r.lane) /\ w[r.lane].pc = "wait"
  BY DEF Control, Serving, EngineType
<1>2. /\ w[r.lane].msg \in Message /\ w[r.lane].idx \in 1..Len(Records(r.lane))
      /\ r.lane \in Lane
  <2>1. w[r.lane] \in WorkerType /\ r.lane \in Lane
    BY <1>1 DEF EngineType
  <2>2. w[r.lane].msg \in Message
    BY <1>1 DEF AtRecord
  <2>3. Len(Records(r.lane)) \in Nat
    BY <2>2, <1>1, SceneFacts DEF Records
  <2> QED
    BY <1>1, <2>1, <2>2, <2>3 DEF AtRecord, WorkerType
<1>3. rec.group \in Group
  BY <1>1, <1>2, SceneFacts DEF rec, Records
<1>4. r.rule \in 1..Len(scene.rules) /\ r.rule \in 1..MaxRules
  BY <1>1, SceneFacts DEF EngineType
<1> QED
  BY <1>2, <1>3, <1>4 DEF key, Key

LEMMA QueuePlaces ==
    ASSUME NEW q \in Seq(Lane)
    PROVE  Len(q) \in Nat /\ \A i \in 1..Len(q) : q[i] \in Lane
  OBVIOUS

LEMMA ControlInit == Init => Control
<1> SUFFICES ASSUME Init PROVE Control
  OBVIOUS
<1>1. /\ scene \in Scene /\ w = [l \in Lane |-> Resting] /\ queue = <<>> /\ r = Waiting
      /\ msg = [m \in Message |-> "queued"]
  BY DEF Init
<1>2. w \in [Lane -> WorkerType] /\ \A l \in Lane : w[l].pc = "idle" /\ w[l].idx = 1
  BY <1>1 DEF Resting, WorkerType
<1>3. r \in EngineType /\ r.rule = 1 /\ r.pc = "idle"
  BY <1>1 DEF Waiting, EngineType, Pcs, Lane
<1>4. Serving
  BY <1>1, <1>2, <1>3 DEF Serving
<1>5. \A l \in Lane : AtRecord(l)
  BY <1>2 DEF AtRecord
<1> QED
  BY <1>1, <1>2, <1>3, <1>4, <1>5 DEF Control

LEMMA ControlFrame ==
    ASSUME Control, UNCHANGED <<scene, msg, w, queue, r>>
    PROVE  Control'
  BY DEF Control, Serving, AtRecord, Records

LEMMA NextNat == \A n \in Nat : n + 1 \in Nat /\ n + 1 > 0
  OBVIOUS

(* The engine goes on, with the same rule or the next.                      *)
LEMMA ControlOn ==
    ASSUME Control, UNCHANGED <<scene, msg, w, queue>>, r.pc # "idle",
           \/ r.rule <= Len(scene.rules) /\ \E p \in Pcs \ {"idle"} : Step(p)
           \/ NextRule
           \/ \E b \in BOOLEAN : r' = [r EXCEPT !.pc = "rule", !.degraded = b]
    PROVE  Control'
<1>1. /\ r \in EngineType /\ r.rule > 0
  BY DEF Control
<1>2. /\ r' \in EngineType /\ r'.rule > 0 /\ r'.lane = r.lane /\ r'.pc # "idle"
      /\ r'.pc # "rule" => r'.rule <= Len(scene.rules)
  <2>1. CASE r.rule <= Len(scene.rules) /\ \E p \in Pcs \ {"idle"} : Step(p)
    <3>1. PICK p \in Pcs \ {"idle"} : Step(p)
      BY <2>1
    <3>2. r' = [pc |-> p, lane |-> r.lane, rule |-> r.rule, degraded |-> r.degraded]
      BY <1>1, <3>1 DEF Step, EngineType
    <3> QED
      BY <1>1, <2>1, <3>1, <3>2 DEF EngineType
  <2>2. CASE NextRule
    <3>1. PICK b \in BOOLEAN : b = r.degraded
      BY <1>1 DEF EngineType
    <3>2. r' = [pc |-> "rule", lane |-> r.lane, rule |-> r.rule + 1, degraded |-> b]
      BY <1>1, <2>2, <3>1 DEF NextRule, EngineType
    <3>a. "rule" \in Pcs
      BY DEF Pcs
    <3>b. r.lane \in Lane /\ r.rule \in Nat
      BY <1>1 DEF EngineType
    <3>3. "rule" \in Pcs /\ r.lane \in Lane /\ r.rule + 1 \in Nat /\ r.rule + 1 > 0
      BY <3>a, <3>b, NextNat, Zenon
    <3>4. r'.pc = "rule" /\ r'.lane = r.lane /\ r'.rule = r.rule + 1
      BY <3>2
    <3>5. r' \in EngineType
      BY <3>2, <3>3 DEF EngineType
    <3> QED
      BY <3>3, <3>4, <3>5
  <2>3. ASSUME NEW b \in BOOLEAN, r' = [r EXCEPT !.pc = "rule", !.degraded = b]
        PROVE  /\ r' \in EngineType /\ r'.rule > 0 /\ r'.lane = r.lane /\ r'.pc # "idle"
               /\ r'.pc # "rule" => r'.rule <= Len(scene.rules)
    BY <1>1, <2>3 DEF EngineType, Pcs
  <2> QED
    BY <2>1, <2>2, <2>3
<1>3. Serving'
  BY <1>2 DEF Control, Serving
<1>4. \A l \in Lane : AtRecord(l)'
  BY DEF Control, AtRecord, Records
<1> QED
  BY <1>2, <1>3, <1>4 DEF Control

(* The engine answers the lane it serves.                                   *)
LEMMA ControlAnswer ==
    ASSUME Control, UNCHANGED <<scene, msg, queue>>, r.pc # "idle",
           NEW f \in BOOLEAN, Answer(f)
    PROVE  Control'
<1>1. /\ r \in EngineType /\ w \in [Lane -> WorkerType] /\ r.lane \in Lane
      /\ w[r.lane].pc = "wait" /\ AtRecord(r.lane) /\ Serving
  BY DEF Control, Serving, EngineType
<1>2. /\ r' = Waiting
      /\ w' = [w EXCEPT ![r.lane] =
                  [pc |-> "record", msg |-> w[r.lane].msg, idx |-> w[r.lane].idx + 1,
                   failed |-> w[r.lane].failed \/ f]]
  BY DEF Answer
<1>3. /\ r' \in EngineType /\ r'.rule > 0 /\ r'.pc = "idle"
  BY <1>2 DEF Waiting, EngineType, Pcs, Lane
<1>4. /\ w'[r.lane] \in WorkerType /\ w'[r.lane].pc = "record" /\ w'[r.lane].idx > 0
      /\ w'[r.lane].msg = w[r.lane].msg
  <2>1. w[r.lane] \in WorkerType
    BY <1>1 DEF WorkerType
  <2>2. w'[r.lane] = [pc |-> "record", msg |-> w[r.lane].msg, idx |-> w[r.lane].idx + 1,
                      failed |-> (w[r.lane].failed \/ f)]
    BY <1>1, <1>2
  <2>3. PICK b \in BOOLEAN : b = (w[r.lane].failed \/ f)
    OBVIOUS
  <2>4. w'[r.lane] = [pc |-> "record", msg |-> w[r.lane].msg, idx |-> w[r.lane].idx + 1,
                      failed |-> b]
    BY <2>2, <2>3, Zenon
  <2> QED
    BY <2>1, <2>4 DEF WorkerType
<1>5. \A l \in Lane : l # r.lane => w'[l] = w[l]
  BY <1>1, <1>2
<1>6. w' \in [Lane -> WorkerType]
  BY <1>1, <1>2, <1>4, <1>5
<1>7. Serving'
  <2>1. Len(queue) \in Nat /\ \A i \in 1..Len(queue) : queue[i] \in Lane
    BY QueuePlaces DEF Control
  <2>2. \A i \in 1..Len(queue) : queue[i] # r.lane
    BY <1>1 DEF Serving
  <2> QED
    BY <2>1, <2>2, <1>1, <1>3, <1>4, <1>5 DEF Serving
<1>8. \A l \in Lane : AtRecord(l)'
  <2>1. ASSUME NEW l \in Lane PROVE AtRecord(l)'
    <3>1. CASE l = r.lane
      BY <3>1, <1>1, <1>4 DEF AtRecord
    <3>2. CASE l # r.lane
      BY <3>2, <1>5 DEF Control, AtRecord, Records
    <3> QED
      BY <3>1, <3>2
  <2> QED
    BY <2>1
<1> QED
  BY <1>3, <1>6, <1>7, <1>8 DEF Control

(* A worker that does not wait goes to where it does not wait either.       *)
LEMMA ControlWorker ==
    ASSUME Control, UNCHANGED <<scene, queue, r>>, NEW l \in Lane,
           w[l].pc # "wait", w'[l].pc # "wait", w'[l].idx > 0,
           w'[l].pc # "idle" => w'[l].msg \in Message,
           w' \in [Lane -> WorkerType], \A k \in Lane : k # l => w'[k] = w[k],
           msg' \in [Message -> {"queued", "delivered", "acked"}]
    PROVE  Control'
<1>1. w \in [Lane -> WorkerType] /\ Serving
  BY DEF Control
<1>4. Serving'
  <2>1. Len(queue) \in Nat /\ \A i \in 1..Len(queue) : queue[i] \in Lane
    BY QueuePlaces DEF Control
  <2>2. r.lane \in Lane
    BY DEF Control, EngineType
  <2> QED
    BY <2>1, <2>2, <1>1 DEF Serving
<1>5. \A k \in Lane : AtRecord(k)'
  <2>1. ASSUME NEW k \in Lane PROVE AtRecord(k)'
    <3>1. CASE k = l
      BY <3>1 DEF AtRecord
    <3>2. CASE k # l
      BY <3>2 DEF Control, AtRecord, Records
    <3> QED
      BY <3>1, <3>2
  <2> QED
    BY <2>1
<1> QED
  BY <1>4, <1>5 DEF Control

(* The process starts again.                                                *)
LEMMA ControlRestart ==
    ASSUME Control, UNCHANGED <<scene, msg>>, w' = [l \in Lane |-> Resting],
           queue' = <<>>, r' = Waiting
    PROVE  Control'
<1>1. w' \in [Lane -> WorkerType] /\ \A l \in Lane : w'[l].pc = "idle" /\ w'[l].idx = 1
  BY DEF Resting, WorkerType
<1>2. r' \in EngineType /\ r'.rule = 1 /\ r'.pc = "idle"
  BY DEF Waiting, EngineType, Pcs, Lane
<1>3. Serving'
  BY <1>1, <1>2 DEF Serving
<1>4. \A l \in Lane : AtRecord(l)'
  BY <1>1 DEF AtRecord
<1> QED
  BY <1>1, <1>2, <1>3, <1>4 DEF Control

(* A record enters the queue, and leaves it for the engine.                 *)
LEMMA ControlProcess ==
    ASSUME Control, NEW l \in Lane, Process(l)
    PROVE  Control'
<1>1. /\ w[l].pc = "record" /\ w[l].idx <= Len(Records(l))
      /\ queue' = Append(queue, l)
      /\ w' = [w EXCEPT ![l].pc = "wait"]
      /\ UNCHANGED <<scene, msg, r>>
  BY DEF Process, counts
<1>2. /\ queue \in Seq(Lane) /\ w \in [Lane -> WorkerType] /\ Serving /\ r.lane \in Lane
      /\ AtRecord(l)
  BY DEF Control, EngineType
<1>3. /\ w' \in [Lane -> WorkerType] /\ w'[l].pc = "wait" /\ w'[l].idx = w[l].idx
      /\ w'[l].msg = w[l].msg
      /\ \A k \in Lane : k # l => w'[k] = w[k]
  BY <1>1, <1>2 DEF WorkerType
<1>4. /\ queue' \in Seq(Lane) /\ Len(queue') = Len(queue) + 1 /\ Len(queue) \in Nat
      /\ queue'[Len(queue) + 1] = l
      /\ \A i \in 1..Len(queue) : queue'[i] = queue[i] /\ queue[i] \in Lane
  BY <1>1, <1>2
<1>5. \A i \in 1..Len(queue) : queue[i] # l
  BY <1>1, <1>2 DEF Serving
<1>6. Serving'
  <2>1. \A i, j \in 1..Len(queue') : queue'[i] = queue'[j] => i = j
    BY <1>2, <1>4, <1>5 DEF Serving
  <2>2. \A i \in 1..Len(queue') : w'[queue'[i]].pc = "wait" /\ (r.pc # "idle" => queue'[i] # r.lane)
    BY <1>1, <1>2, <1>3, <1>4 DEF Serving
  <2>3. r.pc # "idle" => w'[r.lane].pc = "wait"
    BY <1>2, <1>3 DEF Serving
  <2>4. ASSUME NEW k \in Lane, w'[k].pc = "wait"
        PROVE  (r.pc # "idle" /\ r.lane = k) \/ \E i \in 1..Len(queue') : queue'[i] = k
    <3>1. CASE k = l
      BY <3>1, <1>4
    <3>2. CASE k # l
      BY <3>2, <2>4, <1>2, <1>3, <1>4 DEF Serving
    <3> QED
      BY <3>1, <3>2
  <2> QED
    BY <1>1, <2>1, <2>2, <2>3, <2>4 DEF Serving
<1>7. \A k \in Lane : AtRecord(k)'
  <2>1. ASSUME NEW k \in Lane PROVE AtRecord(k)'
    <3>1. CASE k = l
      BY <3>1, <1>1, <1>2, <1>3 DEF AtRecord, Records
    <3>2. CASE k # l
      BY <3>2, <1>1, <1>3 DEF Control, AtRecord, Records
    <3> QED
      BY <3>1, <3>2
  <2> QED
    BY <2>1
<1> QED
  BY <1>1, <1>3, <1>4, <1>6, <1>7 DEF Control

LEMMA ControlTake ==
    ASSUME Control, Take
    PROVE  Control'
<1>1. /\ r.pc = "idle" /\ queue # <<>>
      /\ r' = [Waiting EXCEPT !.pc = "begin", !.lane = Head(queue)]
      /\ queue' = Tail(queue)
      /\ UNCHANGED <<scene, msg, w>>
  BY DEF Take, counts
<1>2. queue \in Seq(Lane) /\ Serving
  BY DEF Control
<1>3. /\ Len(queue) \in Nat /\ Len(queue) > 0 /\ Head(queue) = queue[1]
      /\ queue' \in Seq(Lane) /\ Len(queue') = Len(queue) - 1
      /\ \A i \in 1..Len(queue') : queue'[i] = queue[i + 1]
      /\ \A i \in 1..Len(queue) : queue[i] \in Lane
  BY <1>1, <1>2
<1>4. r' \in EngineType /\ r'.rule = 1 /\ r'.pc = "begin" /\ r'.lane = queue[1]
  <2>1. r' = [pc |-> "begin", lane |-> Head(queue), rule |-> 1, degraded |-> FALSE]
    BY <1>1 DEF Waiting
  <2>2. "begin" \in Pcs /\ Head(queue) \in Lane /\ FALSE \in BOOLEAN
    BY <1>3 DEF Pcs
  <2> QED
    BY <1>3, <2>1, <2>2 DEF EngineType
<1>5. Serving'
  <2>1. ASSUME NEW i \in 1..Len(queue'), NEW j \in 1..Len(queue'), queue'[i] = queue'[j]
        PROVE  i = j
    <3>1. i + 1 \in 1..Len(queue) /\ j + 1 \in 1..Len(queue) /\ queue[i + 1] = queue[j + 1]
      BY <2>1, <1>3
    <3>2. i + 1 = j + 1
      BY <3>1, <1>2 DEF Serving
    <3> QED
      BY <3>2, <1>3
  <2>2. ASSUME NEW i \in 1..Len(queue')
        PROVE  w[queue'[i]].pc = "wait" /\ queue'[i] # r'.lane
    <3>1. /\ i + 1 \in 1..Len(queue) /\ 1 \in 1..Len(queue) /\ i + 1 # 1
          /\ queue'[i] = queue[i + 1]
      BY <1>3
    <3>2. w[queue[i + 1]].pc = "wait" /\ queue[i + 1] # queue[1]
      BY <3>1, <1>2 DEF Serving
    <3> QED
      BY <3>1, <3>2, <1>4
  <2>3. w[r'.lane].pc = "wait"
    BY <1>2, <1>3, <1>4 DEF Serving
  <2>4. ASSUME NEW k \in Lane, w[k].pc = "wait"
        PROVE  r'.lane = k \/ \E i \in 1..Len(queue') : queue'[i] = k
    <3>1. PICK i \in 1..Len(queue) : queue[i] = k
      BY <2>4, <1>1, <1>2 DEF Serving
    <3>2. CASE i = 1
      BY <3>1, <3>2, <1>4
    <3>3. CASE i # 1
      <4>1. i - 1 \in 1..Len(queue') /\ queue'[i - 1] = k
        BY <3>1, <3>3, <1>3
      <4> QED
        BY <4>1
    <3> QED
      BY <3>2, <3>3
  <2> QED
    BY <1>1, <1>4, <2>1, <2>2, <2>3, <2>4 DEF Serving
<1>6. \A k \in Lane : AtRecord(k)'
  BY <1>1 DEF Control, AtRecord, Records
<1> QED
  BY <1>1, <1>3, <1>4, <1>5, <1>6 DEF Control

LEMMA ControlStep == Control /\ [Next]_vars => Control'
<1> SUFFICES ASSUME Control, [Next]_vars PROVE Control'
  OBVIOUS
<1> USE DEF counts, engine
<1>1. CASE Take
  BY <1>1, ControlTake
<1>19. CASE Begin
  <2>1. r.pc = "begin" /\ UNCHANGED <<scene, msg, w, queue>>
    BY <1>19 DEF Begin
  <2>0. Degraded \in BOOLEAN
    BY DEF Degraded
  <2>2. PICK b \in BOOLEAN : b = Degraded
    BY <2>0
  <2>3. r' = [r EXCEPT !.pc = "rule", !.degraded = b]
    BY <1>19, <2>2 DEF Begin
  <2> QED
    BY <2>1, <2>3, ControlOn
<1>2. CASE Evaluate
  <2>1. /\ r.pc = "rule" /\ r.rule <= Len(scene.rules) /\ UNCHANGED <<scene, msg, w, queue>>
        /\ NextRule \/ Step("allow") \/ Step("suppress")
    BY <1>2 DEF Evaluate
  <2> QED
    BY <2>1, ControlOn DEF Pcs
<1>3. CASE Done
  BY <1>3, ControlAnswer DEF Done
<1>4. CASE Suppress
  <2>1. /\ r.pc = "suppress" /\ UNCHANGED <<scene, msg, w, queue>>
        /\ NextRule \/ Step("export")
    BY <1>4 DEF Suppress
  <2> QED
    BY <2>1, ControlOn DEF Pcs, Control
<1>5. CASE Export
  <2>1. r.pc = "export" /\ UNCHANGED <<scene, msg, w, queue>> /\ Step("incident")
    BY <1>5 DEF Export
  <2> QED
    BY <2>1, ControlOn DEF Pcs, Control
<1>6. CASE ProcessAlert
  <2>1. /\ r.pc = "incident" /\ UNCHANGED <<scene, msg, w, queue>>
        /\ Step("update") \/ Step("publish") \/ Step("open")
    BY <1>6 DEF ProcessAlert
  <2> QED
    BY <2>1, ControlOn DEF Pcs, Control
<1>7. CASE ExportIncident
  <2>1. r.pc \in {"open", "update"} /\ UNCHANGED <<scene, msg, w, queue>> /\ Step("publish")
    BY <1>7 DEF ExportIncident
  <2> QED
    BY <2>1, ControlOn DEF Pcs, Control
<1>8. CASE Publish
  <2>1. r.pc \in {"publish", "trigger"} /\ UNCHANGED <<scene, msg, w, queue>> /\ NextRule
    BY <1>8 DEF Publish
  <2> QED
    BY <2>1, ControlOn
<1>9. CASE Allow
  <2>1. /\ r.pc = "allow" /\ UNCHANGED <<scene, msg, w, queue>>
        /\ NextRule \/ Step("trigger")
    BY <1>9 DEF Allow
  <2> QED
    BY <2>1, ControlOn DEF Pcs, Control
<1>10. CASE CallFails
  <2>1. r.pc # "idle" /\ UNCHANGED <<scene, msg, queue>> /\ Answer(TRUE)
    BY <1>10 DEF CallFails
  <2> QED
    BY <2>1, ControlAnswer
<1>11. ASSUME NEW l \in Lane, NEW m \in Message, Receive(l, m) PROVE Control'
  <2>1. /\ w[l].pc = "idle" /\ UNCHANGED <<scene, queue, r>>
        /\ msg' = [msg EXCEPT ![m] = "delivered"]
        /\ w' = [w EXCEPT ![l] = [pc |-> "record", msg |-> m, idx |-> 1, failed |-> FALSE]]
    BY <1>11 DEF Receive
  <2>2. /\ w' \in [Lane -> WorkerType] /\ \A k \in Lane : k # l => w'[k] = w[k]
        /\ w'[l].pc = "record" /\ w'[l].idx = 1 /\ w'[l].msg = m
    <3>1. w \in [Lane -> WorkerType]
      BY DEF Control
    <3>2. [pc |-> "record", msg |-> m, idx |-> 1, failed |-> FALSE] \in WorkerType
      BY DEF WorkerType
    <3> QED
      BY <2>1, <3>1, <3>2
  <2>3. msg' \in [Message -> {"queued", "delivered", "acked"}]
    BY <2>1 DEF Control
  <2>4. /\ UNCHANGED <<scene, queue, r>> /\ w[l].pc # "wait" /\ w'[l].pc # "wait"
        /\ w'[l].idx > 0 /\ w'[l].msg \in Message
    BY <2>1, <2>2
  <2> QED
    BY <2>2, <2>3, <2>4, ControlWorker
<1>12. ASSUME NEW l \in Lane, Process(l) PROVE Control'
  BY <1>12, ControlProcess
<1>13. ASSUME NEW l \in Lane, Finish(l) \/ InsertFails(l) \/ AckLost(l) PROVE Control'
  <2>1. /\ w[l].pc = "record" /\ UNCHANGED <<scene, queue, r>>
        /\ msg' = msg \/ msg' = [msg EXCEPT ![w[l].msg] = "acked"]
        /\ w' = [w EXCEPT ![l] = Resting]
    BY <1>13 DEF Finish, InsertFails, AckLost
  <2>2. /\ w' \in [Lane -> WorkerType] /\ \A k \in Lane : k # l => w'[k] = w[k]
        /\ w'[l].pc = "idle" /\ w'[l].idx = 1
    <3>1. w \in [Lane -> WorkerType]
      BY DEF Control
    <3>2. Resting \in WorkerType /\ Resting.pc = "idle" /\ Resting.idx = 1
      BY DEF WorkerType, Resting
    <3> QED
      BY <2>1, <3>1, <3>2
  <2>3. msg' \in [Message -> {"queued", "delivered", "acked"}]
    <3>1. msg \in [Message -> {"queued", "delivered", "acked"}]
      BY DEF Control
    <3>2. CASE msg' = msg
      BY <3>1, <3>2
    <3>3. CASE msg' = [msg EXCEPT ![w[l].msg] = "acked"]
      BY <3>1, <3>3
    <3> QED
      BY <2>1, <3>2, <3>3
  <2> QED
    BY <2>1, <2>2, <2>3, ControlWorker
<1>14. CASE FlushBegins \/ FlushEnds \/ FlushFails \/ CleanupEnds
  BY <1>14, ControlFrame DEF FlushBegins, FlushEnds, FlushFails, CleanupEnds
<1>15. ASSUME NEW k \in Key, CleanupBegins(k) \/ Forget(k) \/ TimePasses(k) PROVE Control'
  BY <1>15, ControlFrame DEF CleanupBegins, Forget, TimePasses
<1>16. ASSUME NEW m \in Message, AckWaitExpires(m) PROVE Control'
  <2>1. UNCHANGED <<scene, w, queue, r>> /\ msg' = [msg EXCEPT ![m] = "queued"]
    BY <1>16 DEF AckWaitExpires
  <2>2. msg' \in [Message -> {"queued", "delivered", "acked"}]
    BY <2>1 DEF Control
  <2> QED
    BY <2>1, <2>2 DEF Control, Serving, AtRecord, Records
<1>17. CASE Restart
  BY <1>17, ControlRestart DEF Restart
<1>18. CASE UNCHANGED vars
  BY <1>18, ControlFrame DEF vars
<1> QED
  BY <1>1, <1>2, <1>3, <1>4, <1>5, <1>6, <1>7, <1>8, <1>9, <1>10, <1>11, <1>12, <1>13,
     <1>14, <1>15, <1>16, <1>17, <1>18, <1>19 DEF Next, RceWorker, Worker

(* One record of a lane at a time.                                          *)
LEMMA OneRecord == Control => OneRecordEach
<1> SUFFICES ASSUME Control, NEW l \in Lane
             PROVE  (w[l].pc = "wait") = (Cardinality({i \in DOMAIN queue : queue[i] = l})
                              + (IF r.pc # "idle" /\ r.lane = l THEN 1 ELSE 0) = 1)
  BY DEF OneRecordEach
<1> DEFINE Places == {i \in DOMAIN queue : queue[i] = l}
<1>1. Serving /\ Len(queue) \in Nat /\ DOMAIN queue = 1..Len(queue)
  BY DEF Control
<1>2. CASE Places = {}
  <2>1. Cardinality(Places) = 0
    BY <1>2, FS_EmptySet
  <2>2. (w[l].pc = "wait") = (r.pc # "idle" /\ r.lane = l)
    BY <1>1, <1>2 DEF Serving
  <2> QED
    BY <2>1, <2>2
<1>3. CASE Places # {}
  <2>1. PICK i \in Places : TRUE
    BY <1>3
  <2>2. Places = {i}
    BY <1>1, <2>1 DEF Serving
  <2>3. Cardinality(Places) = 1
    BY <2>2, FS_Singleton
  <2>4. w[l].pc = "wait" /\ ~(r.pc # "idle" /\ r.lane = l)
    BY <1>1, <2>1 DEF Serving
  <2> QED
    BY <2>3, <2>4
<1> QED
  BY <1>2, <1>3

-----------------------------------------------------------------------------
(* What the engine is about *)

EnginePcs == {"suppress", "export", "incident", "open", "update", "publish"}

(* Only a trigger rule asks for its cooldown, and no other raises alerts.   *)
KindFits ==
    /\ r.pc \in {"allow", "trigger"} => rule.kind = "trigger"
    /\ r.pc \in EnginePcs => rule.kind # "trigger"

LEMMA SceneFixed == [Next]_vars => scene' = scene
  BY DEF Next, RceWorker, Worker, vars, counts, Take, Begin, Evaluate, Done, Suppress, Export,
         ProcessAlert, ExportIncident, Publish, Allow, CallFails, Receive, Process, Finish,
         InsertFails, AckLost, FlushBegins, FlushEnds, FlushFails, CleanupBegins,
         CleanupEnds, Forget, TimePasses, AckWaitExpires, Restart

(* The steps that are not the engine's own and not a restart.               *)
Beside ==
    \/ \E l \in Lane : Worker(l) \/ InsertFails(l) \/ AckLost(l)
    \/ FlushBegins \/ FlushEnds \/ FlushFails \/ CleanupEnds
    \/ \E k \in Key : CleanupBegins(k) \/ Forget(k) \/ TimePasses(k)
    \/ \E m \in Message : AckWaitExpires(m)
    \/ UNCHANGED vars

LEMMA StepKinds == [Next]_vars => RceWorker \/ CallFails \/ Restart \/ Beside
  BY DEF Next, Beside

(* They leave the engine and the record it serves alone.                    *)
LEMMA BesideEngine ==
    ASSUME Control, Beside
    PROVE  r' = r /\ (r.pc # "idle" => key' = key /\ rec' = rec)
<1>1. scene' = scene
  BY SceneFixed DEF Beside, Next
<1>2. r' = r /\ (r.pc # "idle" => w'[r.lane] = w[r.lane])
  <2>a. /\ w \in [Lane -> WorkerType] /\ r.lane \in Lane
        /\ r.pc # "idle" => w[r.lane].pc = "wait"
    BY DEF Control, Serving, EngineType
  <2>1. ASSUME NEW l \in Lane, Worker(l) \/ InsertFails(l) \/ AckLost(l)
        PROVE  r' = r /\ (r.pc # "idle" => w'[r.lane] = w[r.lane])
    <3>1. r' = r /\ w[l].pc # "wait" /\ \E v : w' = [w EXCEPT ![l] = v]
      <4>1. CASE Process(l)
        BY <4>1 DEF Process
      <4>2. CASE Finish(l) \/ InsertFails(l) \/ AckLost(l)
        BY <4>2 DEF Finish, InsertFails, AckLost, engine
      <4>3. CASE \E m \in Message : Receive(l, m)
        BY <4>3 DEF Receive, engine
      <4> QED
        BY <2>1, <4>1, <4>2, <4>3 DEF Worker
    <3>2. \A k \in Lane : k # l => w'[k] = w[k]
      BY <3>1, <2>a
    <3> QED
      BY <3>1, <3>2, <2>a
  <2>2. CASE UNCHANGED <<r, w>>
    BY <2>2
  <2> QED
    BY <2>1, <2>2 DEF Beside, FlushBegins, FlushEnds, FlushFails, CleanupEnds, CleanupBegins,
                      Forget, TimePasses, AckWaitExpires, vars, engine
<1> QED
  BY <1>1, <1>2 DEF key, rec, Records

(* An engine step within one rule stays with its key.                       *)
LEMMA KeyStays ==
    ASSUME r \in EngineType, scene' = scene, w' = w, NEW p, Step(p)
    PROVE  r'.pc = p /\ key' = key /\ rec' = rec /\ rule' = rule
<1>1. r'.pc = p /\ r'.lane = r.lane /\ r'.rule = r.rule
  BY DEF Step, EngineType
<1> QED
  BY <1>1 DEF key, rec, rule, Records

LEMMA NextRuleIs ==
    ASSUME r \in EngineType, scene' = scene, w' = w, NextRule
    PROVE  r'.pc = "rule" /\ r'.rule = r.rule + 1 /\ rec' = rec
<1>1. r'.pc = "rule" /\ r'.lane = r.lane /\ r'.rule = r.rule + 1
  BY DEF NextRule, EngineType
<1> QED
  BY <1>1 DEF rec, Records

LEMMA KindStep ==
    ASSUME Control, KindFits, [Next]_vars
    PROVE  KindFits'
<1>0. r \in EngineType /\ scene' = scene
  BY SceneFixed DEF Control
<1>1. ASSUME r'.pc \in {"idle", "begin", "rule"} PROVE KindFits'
  BY <1>1 DEF KindFits, EnginePcs
<1>2. CASE Take \/ Begin \/ Done \/ CallFails \/ Publish \/ Restart
  <2>1. r'.pc \in {"idle", "begin", "rule"}
    <3>1. CASE Take \/ Begin
      BY <3>1, <1>0 DEF Take, Begin, Waiting, EngineType
    <3>2. CASE Done \/ CallFails \/ Restart
      BY <3>2 DEF Done, Answer, CallFails, Restart, Waiting
    <3>3. CASE Publish
      BY <3>3, <1>0 DEF Publish, NextRule, EngineType
    <3> QED
      BY <1>2, <3>1, <3>2, <3>3
  <2> QED
    BY <2>1, <1>1
<1>3. CASE Evaluate
  <2>1. w' = w /\ (NextRule \/ (Step("allow") /\ rule.kind = "trigger")
                            \/ (Step("suppress") /\ rule.kind # "trigger"))
    BY <1>3 DEF Evaluate
  <2> QED
    BY <2>1, <1>0, <1>1, NextRuleIs, KeyStays DEF KindFits, EnginePcs
<1>4. CASE Suppress \/ Export \/ ProcessAlert \/ ExportIncident
  <2>1. /\ w' = w /\ rule.kind # "trigger"
        /\ NextRule \/ \E p \in EnginePcs : Step(p)
    BY <1>4 DEF Suppress, Export, ProcessAlert, ExportIncident, KindFits, EnginePcs
  <2>2. CASE NextRule
    BY <2>1, <2>2, <1>0, <1>1, NextRuleIs
  <2>3. ASSUME NEW p \in EnginePcs, Step(p) PROVE KindFits'
    BY <2>1, <2>3, <1>0, KeyStays DEF KindFits, EnginePcs
  <2> QED
    BY <2>1, <2>2, <2>3
<1>5. CASE Allow
  <2>1. w' = w /\ rule.kind = "trigger" /\ (NextRule \/ Step("trigger"))
    BY <1>5 DEF Allow, KindFits
  <2>2. CASE NextRule
    BY <2>1, <2>2, <1>0, <1>1, NextRuleIs
  <2>3. CASE Step("trigger")
    BY <2>1, <2>3, <1>0, KeyStays DEF KindFits, EnginePcs
  <2> QED
    BY <2>1, <2>2, <2>3
<1>6. CASE Beside
  BY <1>6, <1>0, BesideEngine DEF KindFits, rule
<1> QED
  BY <1>2, <1>3, <1>4, <1>5, <1>6, StepKinds DEF RceWorker

-----------------------------------------------------------------------------
(* What is counted *)

Count == [Key -> Nat]
Numbers ==
    /\ triggers \in Count /\ ends \in Count /\ forgotten \in Count
    /\ opened \in Count /\ closed \in Count /\ unlogged \in Count

LEMMA MoreType ==
    ASSUME NEW f \in Count, NEW k \in Key
    PROVE  /\ More(f, k) \in Count /\ More(f, k)[k] = f[k] + 1
           /\ \A q \in Key : q # k => More(f, k)[q] = f[q]
           /\ \A q \in Key : More(f, k)[q] >= f[q]
  BY DEF More, Count

LEMMA NumbersStep ==
    ASSUME Control, Numbers, [Next]_vars
    PROVE  Numbers'
<1> USE DEF incidents, cooldown, output, counts
<1>1. CASE Take \/ Begin \/ Evaluate \/ Done \/ Suppress \/ Export \/ ProcessAlert
  BY <1>1 DEF Numbers, Take, Begin, Evaluate, Done, Suppress, Export, ProcessAlert
<1>2. CASE ExportIncident
  <2>1. /\ r.pc # "idle" /\ r.rule <= Len(scene.rules) /\ opened' \in {opened, More(opened, key)}
        /\ UNCHANGED <<triggers, ends, forgotten, closed, unlogged>>
    BY <1>2 DEF ExportIncident, Control
  <2>2. opened' \in Count
    BY <2>1, KeyType, MoreType DEF Numbers
  <2> QED
    BY <2>1, <2>2 DEF Numbers
<1>3. CASE Publish
  <2>1. /\ r.pc # "idle" /\ r.rule <= Len(scene.rules) /\ triggers' = More(triggers, key)
        /\ UNCHANGED <<opened, ends, forgotten, closed, unlogged>>
    BY <1>3 DEF Publish, Control
  <2>2. triggers' \in Count
    BY <2>1, KeyType, MoreType DEF Numbers
  <2> QED
    BY <2>1, <2>2 DEF Numbers
<1>4. CASE Allow
  BY <1>4 DEF Numbers, Allow
<1>5. CASE CallFails
  <2>1. /\ r.pc # "idle" /\ r.rule <= Len(scene.rules)
        /\ triggers' \in {triggers, More(triggers, key)}
        /\ unlogged' \in {unlogged, More(unlogged, key)}
        /\ UNCHANGED <<opened, ends, forgotten, closed>>
    BY <1>5 DEF CallFails, Control
  <2>2. triggers' \in Count /\ unlogged' \in Count
    BY <2>1, KeyType, MoreType DEF Numbers
  <2> QED
    BY <2>1, <2>2 DEF Numbers
<1>6. ASSUME NEW l \in Lane, Worker(l) \/ InsertFails(l) \/ AckLost(l) PROVE Numbers'
  BY <1>6 DEF Numbers, Worker, Receive, Process, Finish, InsertFails, AckLost
<1>7. CASE FlushBegins \/ FlushEnds \/ FlushFails
  BY <1>7 DEF Numbers, FlushBegins, FlushEnds, FlushFails
<1>8. CASE CleanupEnds
  <2>1. /\ closed' \in {closed, [k \in Key |-> IF k \in cleaner THEN closed[k] + 1 ELSE closed[k]]}
        /\ UNCHANGED <<triggers, ends, forgotten, opened, unlogged>>
    BY <1>8 DEF CleanupEnds
  <2>2. closed' \in Count
    BY <2>1 DEF Numbers, Count
  <2> QED
    BY <2>1, <2>2 DEF Numbers
<1>9. ASSUME NEW k \in Key, CleanupBegins(k) \/ Forget(k) PROVE Numbers'
  <2>1. /\ ends' \in {ends, More(ends, k)}
        /\ UNCHANGED <<triggers, closed, forgotten, opened, unlogged>>
    BY <1>9 DEF CleanupBegins, Forget
  <2>2. ends' \in Count
    BY <2>1, MoreType DEF Numbers
  <2> QED
    BY <2>1, <2>2 DEF Numbers
<1>10. ASSUME NEW k \in Key, TimePasses(k) PROVE Numbers'
  <2>1. /\ ends' = More(ends, k)
        /\ UNCHANGED <<triggers, closed, forgotten, opened, unlogged>>
    BY <1>10 DEF TimePasses
  <2>2. ends' \in Count
    BY <2>1, MoreType DEF Numbers
  <2> QED
    BY <2>1, <2>2 DEF Numbers
<1>11. ASSUME NEW m \in Message, AckWaitExpires(m) PROVE Numbers'
  BY <1>11 DEF Numbers, AckWaitExpires
<1>12. CASE Restart
  <2>1. /\ forgotten' = [k \in Key |-> forgotten[k] + IF k \in fresh \ file THEN 1 ELSE 0]
        /\ UNCHANGED <<triggers, closed, ends, opened, unlogged>>
    BY <1>12 DEF Restart
  <2>2. forgotten' \in Count
    BY <2>1 DEF Numbers, Count
  <2> QED
    BY <2>1, <2>2 DEF Numbers
<1>13. CASE UNCHANGED vars
  BY <1>13 DEF Numbers, vars
<1> QED
  BY <1>1, <1>2, <1>3, <1>4, <1>5, <1>6, <1>7, <1>8, <1>9, <1>10, <1>11, <1>12, <1>13
     DEF Next, RceWorker

(* What is kept of the cooldowns, on the way to the checkpoint and in it,   *)
(* is in memory: a cooldown leaves all places at once.                      *)
Copies ==
    /\ flush \in [pc : {"idle", "write"}, copy : SUBSET Key]
    /\ fresh \subseteq Key
    /\ file \subseteq fresh
    /\ flush.copy \subseteq fresh

LEMMA CopiesStep ==
    ASSUME Control, Copies, [Next]_vars
    PROVE  Copies'
<1> USE DEF cooldown
<1>1. CASE Allow
  <2>1. /\ r.pc # "idle" /\ r.rule <= Len(scene.rules) /\ fresh' \in {fresh, fresh \cup {key}}
        /\ UNCHANGED <<file, flush>>
    BY <1>1 DEF Allow, Control
  <2>2. fresh' \subseteq Key /\ fresh \subseteq fresh'
    BY <2>1, KeyType DEF Copies
  <2> QED
    BY <2>1, <2>2 DEF Copies
<1>2. CASE FlushBegins \/ FlushEnds \/ FlushFails
  <2>1. /\ fresh' = fresh
        /\ \/ flush' = [pc |-> "write", copy |-> fresh] /\ file' = file
           \/ flush' = FlushIdle /\ file' \in {file, flush.copy}
    BY <1>2 DEF FlushBegins, FlushEnds, FlushFails
  <2> QED
    BY <2>1 DEF Copies, FlushIdle
<1>3. ASSUME NEW k \in Key, TimePasses(k) PROVE Copies'
  <2>1. CASE UNCHANGED <<fresh, file, flush>>
    BY <2>1 DEF Copies
  <2>2. CASE /\ fresh' = fresh \ {k} /\ file' = file \ {k}
             /\ flush' = [flush EXCEPT !.copy = @ \ {k}]
    <3>1. flush' = [pc |-> flush.pc, copy |-> flush.copy \ {k}]
      BY <2>2 DEF Copies
    <3> QED
      BY <2>2, <3>1 DEF Copies
  <2> QED
    BY <1>3, <2>1, <2>2 DEF TimePasses
<1>4. CASE Restart
  BY <1>4 DEF Copies, Restart, FlushIdle
<1>5. CASE UNCHANGED <<fresh, file, flush>>
  BY <1>5 DEF Copies
<1>6. UNCHANGED <<fresh, file, flush>> \/ Allow \/ FlushBegins \/ FlushEnds \/ FlushFails
      \/ Restart \/ \E k \in Key : TimePasses(k)
  BY DEF Next, RceWorker, Worker, vars, Take, Begin, Evaluate, Done, Suppress, Export, ProcessAlert,
         ExportIncident, Publish, CallFails, Receive, Process, Finish, InsertFails, AckLost,
         CleanupBegins, CleanupEnds, Forget, AckWaitExpires
<1> QED
  BY <1>1, <1>2, <1>3, <1>4, <1>5, <1>6

-----------------------------------------------------------------------------
(* The cooldown *)

IsTrigger(k) == k[1] <= Len(scene.rules) /\ scene.rules[k[1]].kind = "trigger"
AtKey(pcs, k) == r.pc \in pcs /\ key = k
One(b) == IF b THEN 1 ELSE 0

(* The trigger that is being published, if it is a key's, counts as         *)
(* published; a cooldown that runs allows one more publication.             *)
Cooled ==
    \A k \in Key : IsTrigger(k) =>
        triggers[k] + One(AtKey({"trigger"}, k)) <= ends[k] + forgotten[k] + One(k \in fresh)

LEMMA CooledStep ==
    ASSUME Control, KindFits, Numbers, Copies, Cooled, [Next]_vars
    PROVE  Cooled'
<1>0. r \in EngineType /\ scene' = scene
  BY SceneFixed DEF Control
<1> SUFFICES ASSUME NEW k \in Key, IsTrigger(k)
             PROVE  (triggers[k] + One(AtKey({"trigger"}, k)) <=
                     ends[k] + forgotten[k] + One(k \in fresh))'
  BY <1>0 DEF Cooled, IsTrigger
<1>a. /\ triggers[k] \in Nat /\ ends[k] \in Nat /\ forgotten[k] \in Nat
      /\ triggers[k] + One(AtKey({"trigger"}, k)) <= ends[k] + forgotten[k] + One(k \in fresh)
  BY DEF Numbers, Count, Cooled
<1> USE DEF One, AtKey
(* A step that publishes nothing and takes no cooldown away.                *)
<1>b. ASSUME triggers'[k] = triggers[k], ends'[k] \in Nat, ends'[k] >= ends[k],
             forgotten'[k] = forgotten[k], fresh \subseteq fresh',
             AtKey({"trigger"}, k)' => AtKey({"trigger"}, k)
      PROVE  (triggers[k] + One(AtKey({"trigger"}, k)) <=
                     ends[k] + forgotten[k] + One(k \in fresh))'
  BY <1>a, <1>b
<1>m. ASSUME triggers' = More(triggers, key), key \in Key
      PROVE  triggers'[k] = triggers[k] + One(key = k)
  <2>0. triggers \in Count
    BY DEF Numbers
  <2>1. CASE key = k
    BY <2>0, <2>1, <1>m, MoreType
  <2>2. CASE key # k
    <3>1. triggers'[k] = triggers[k]
      BY <2>0, <2>2, <1>m, MoreType
    <3> QED
      BY <2>2, <3>1, <1>a
  <2> QED
    BY <2>1, <2>2
<1>1. CASE Take \/ Begin \/ Done
  <2>1. r'.pc # "trigger"
    <3>1. CASE Take
      BY <3>1 DEF Take, Waiting
    <3>2. CASE Begin
      <4>1. r \in EngineType /\ r' = [r EXCEPT !.pc = "rule", !.degraded = Degraded]
        BY <1>0, <3>2 DEF Begin
      <4>2. r'.pc = "rule"
        BY <4>1 DEF EngineType
      <4> QED
        BY <4>2
    <3>3. CASE Done
      BY <3>3 DEF Done, Answer, Waiting
    <3> QED
      BY <1>1, <3>1, <3>2, <3>3
  <2>2. UNCHANGED <<triggers, ends, forgotten, fresh>>
    BY <1>1 DEF Take, Begin, Done, output, cooldown, counts
  <2>3. ~AtKey({"trigger"}, k)'
    BY <2>1
  <2>4. ends'[k] \in Nat /\ ends'[k] >= ends[k] /\ fresh \subseteq fresh'
    BY <1>a, <2>2
  <2> HIDE DEF AtKey, One
  <2> QED
    BY <1>b, <2>2, <2>3, <2>4
<1>2. CASE Evaluate \/ Suppress \/ Export \/ ProcessAlert \/ ExportIncident
  <2>1. UNCHANGED <<triggers, ends, forgotten, fresh>> /\ r'.pc # "trigger"
    BY <1>2, <1>0, NextRuleIs, KeyStays DEF Evaluate, Suppress, Export, ProcessAlert,
       ExportIncident, output, cooldown, counts
  <2> QED
    BY <2>1, <1>a, <1>b
<1>3. CASE Publish
  <2>1. /\ r.pc \in {"publish", "trigger"} /\ r.rule <= Len(scene.rules)
        /\ triggers' = More(triggers, key) /\ key \in Key
        /\ UNCHANGED <<ends, forgotten, fresh>> /\ r'.pc = "rule"
    BY <1>3, <1>0, NextRuleIs, KeyType DEF Publish, counts, Control
  <2>2. key = k => r.pc = "trigger"
    BY <2>1 DEF KindFits, EnginePcs, IsTrigger, key, rule
  <2>3. triggers'[k] = triggers[k] + One(key = k)
    BY <2>1, <1>m
  <2> QED
    BY <2>1, <2>2, <2>3, <1>a
<1>4. CASE Allow
  <2>1. /\ UNCHANGED <<triggers, ends, forgotten>> /\ r.pc = "allow" /\ w' = w
        /\ \/ NextRule /\ fresh \subseteq fresh'
           \/ Step("trigger") /\ key \notin fresh /\ fresh' = fresh \cup {key}
    BY <1>4 DEF Allow, output, counts
  <2>2. CASE NextRule /\ fresh \subseteq fresh'
    BY <2>1, <2>2, <1>0, <1>a, <1>b, NextRuleIs
  <2>3. CASE Step("trigger") /\ key \notin fresh /\ fresh' = fresh \cup {key}
    <3>1. r'.pc = "trigger" /\ key' = key
      BY <2>1, <2>3, <1>0, KeyStays
    <3> QED
      BY <2>1, <2>3, <3>1, <1>a
  <2> QED
    BY <2>1, <2>2, <2>3
<1>5. CASE CallFails
  <2>1. /\ r.pc # "idle" /\ r.rule <= Len(scene.rules)
        /\ triggers' = triggers \/ (triggers' = More(triggers, key) /\ r.pc \in {"publish", "trigger"})
        /\ UNCHANGED <<ends, forgotten, fresh>> /\ r'.pc = "idle"
    BY <1>5 DEF CallFails, Control, Answer, Waiting, cooldown
  <2>2. CASE triggers' = triggers
    BY <2>1, <2>2, <1>a, <1>b
  <2>3. CASE triggers' = More(triggers, key) /\ r.pc \in {"publish", "trigger"}
    <3>1. key = k => r.pc = "trigger"
      BY <2>1, <2>3 DEF KindFits, EnginePcs, IsTrigger, key, rule
    <3>2. triggers'[k] = triggers[k] + One(key = k)
      BY <2>1, <2>3, <1>m, KeyType
    <3> QED
      BY <2>1, <3>1, <3>2, <1>a
  <2> QED
    BY <2>1, <2>2, <2>3
<1>6. CASE Restart
  <2>1. /\ forgotten'[k] = forgotten[k] + One(k \in fresh \ file)
        /\ UNCHANGED <<triggers, ends>> /\ fresh' = file /\ r'.pc = "idle"
    BY <1>6 DEF Restart, Waiting
  <2> QED
    BY <2>1, <1>a
<1>7. ASSUME NEW q \in Key, TimePasses(q) PROVE (triggers[k] + One(AtKey({"trigger"}, k)) <=
                     ends[k] + forgotten[k] + One(k \in fresh))'
  <2>1. /\ UNCHANGED <<triggers, forgotten, r>> /\ ends' = More(ends, q)
        /\ fresh' = fresh \/ (fresh' = fresh \ {q})
        /\ r.pc # "idle" => key' = key
    BY <1>7, BesideEngine DEF TimePasses, output, Beside
  <2>2. ends'[k] = ends[k] + One(k = q)
    BY <2>1, <1>a, MoreType DEF Numbers
  <2> QED
    BY <2>1, <2>2, <1>a
<1>8. CASE Beside /\ ~ \E q \in Key : TimePasses(q)
  <2>1. UNCHANGED <<triggers, forgotten, r, fresh>> /\ (r.pc # "idle" => key' = key)
    BY <1>8, BesideEngine DEF Beside, Worker, Receive, Process, Finish, InsertFails, AckLost,
       FlushBegins, FlushEnds, FlushFails, CleanupEnds, CleanupBegins, Forget, AckWaitExpires,
       vars, output, cooldown
  <2>2. ends'[k] \in Nat /\ ends'[k] >= ends[k]
    <3>1. ends' = ends \/ \E q \in Key : ends' = More(ends, q)
      BY <1>8 DEF Beside, Worker, Receive, Process, Finish, InsertFails, AckLost,
         FlushBegins, FlushEnds, FlushFails, CleanupEnds, CleanupBegins, Forget, AckWaitExpires,
         vars, counts
    <3> QED
      BY <3>1, <1>a, MoreType DEF Numbers, Count
  <2> QED
    BY <2>1, <2>2, <1>a, <1>b
<1> QED
  BY <1>1, <1>2, <1>3, <1>4, <1>5, <1>6, <1>7, <1>8, StepKinds DEF RceWorker

-----------------------------------------------------------------------------
(* The incidents *)

(* An open incident has been exported, or could not be, unless the engine   *)
(* is about to export it; so has one that is being closed.                  *)
Closings ==
    \A k \in Key :
        closed[k] + One(k \in cleaner) + One(k \in open /\ ~AtKey({"open"}, k))
            <= opened[k] + unlogged[k]

LEMMA ClosingsStep ==
    ASSUME Control, Numbers, Closings, [Next]_vars
    PROVE  Closings'
<1>0. r \in EngineType /\ scene' = scene
  BY SceneFixed DEF Control
<1> SUFFICES ASSUME NEW k \in Key
             PROVE  (closed[k] + One(k \in cleaner) + One(k \in open /\ ~AtKey({"open"}, k))
                        <= opened[k] + unlogged[k])'
  BY DEF Closings
<1>a. /\ closed[k] \in Nat /\ opened[k] \in Nat /\ unlogged[k] \in Nat
      /\ closed[k] + One(k \in cleaner) + One(k \in open /\ ~AtKey({"open"}, k))
            <= opened[k] + unlogged[k]
  BY DEF Numbers, Count, Closings
<1> USE DEF One, AtKey
<1>b. ASSUME UNCHANGED <<incidents>>, AtKey({"open"}, k) => AtKey({"open"}, k)'
      PROVE  (closed[k] + One(k \in cleaner) + One(k \in open /\ ~AtKey({"open"}, k))
                        <= opened[k] + unlogged[k])'
  BY <1>a, <1>b DEF incidents
<1>1. CASE Take \/ Begin \/ Evaluate \/ Done \/ Suppress \/ Export \/ Publish \/ Allow
  <2>1. UNCHANGED incidents /\ r.pc # "open"
    BY <1>1 DEF Take, Begin, Evaluate, Done, Suppress, Export, Publish, Allow
  <2> QED
    BY <2>1, <1>b
<1>2. CASE ProcessAlert
  <2>1. /\ r.pc = "incident" /\ UNCHANGED <<cleaner, opened, closed, unlogged, w>>
        /\ \/ open' = open
           \/ Step("open") /\ key \notin open /\ open' = open \cup {key}
    BY <1>2 DEF ProcessAlert
  <2>2. CASE open' = open
    BY <2>1, <2>2, <1>a
  <2>3. CASE Step("open") /\ key \notin open /\ open' = open \cup {key}
    <3>1. r'.pc = "open" /\ key' = key
      BY <2>1, <2>3, <1>0, KeyStays
    <3> QED
      BY <2>1, <2>3, <3>1, <1>a
  <2> QED
    BY <2>1, <2>2, <2>3
<1>3. CASE ExportIncident
  <2>1. /\ r.pc \in {"open", "update"} /\ UNCHANGED <<open, cleaner, closed, unlogged, w>>
        /\ opened' = IF r.pc = "open" THEN More(opened, key) ELSE opened
        /\ Step("publish") /\ r.rule <= Len(scene.rules)
    BY <1>3 DEF ExportIncident, Control
  <2>2. r'.pc = "publish"
    BY <2>1, <1>0, KeyStays
  <2>3. opened'[k] = opened[k] + One(r.pc = "open" /\ k = key)
    BY <2>1, <1>a, MoreType, KeyType DEF Numbers
  <2> QED
    BY <2>1, <2>2, <2>3, <1>a
<1>4. CASE CallFails
  <2>1. /\ r.pc # "idle" /\ UNCHANGED <<open, cleaner, closed, opened>>
        /\ unlogged' = IF r.pc = "open" THEN More(unlogged, key) ELSE unlogged
        /\ r.rule <= Len(scene.rules) /\ r'.pc = "idle"
    BY <1>4 DEF CallFails, Control, Answer, Waiting
  <2>2. unlogged'[k] = unlogged[k] + One(r.pc = "open" /\ k = key)
    BY <2>1, <1>a, MoreType, KeyType DEF Numbers
  <2> QED
    BY <2>1, <2>2, <1>a
<1>5. CASE Restart
  <2>1. open' = {} /\ cleaner' = {} /\ UNCHANGED <<opened, closed, unlogged>>
    BY <1>5 DEF Restart
  <2> QED
    BY <2>1, <1>a
<1>6. ASSUME NEW q \in Key, CleanupBegins(q)
      PROVE  (closed[k] + One(k \in cleaner) + One(k \in open /\ ~AtKey({"open"}, k))
                        <= opened[k] + unlogged[k])'
  <2>1. /\ cleaner = {} /\ cleaner' = {q} /\ q \in open /\ open' = open \ {q}
        /\ ~AtKey({"open"}, q)
        /\ UNCHANGED <<opened, closed, unlogged, r>> /\ (r.pc # "idle" => key' = key)
    BY <1>6, BesideEngine DEF CleanupBegins, engine, Beside
  <2> QED
    BY <2>1, <1>a
<1>7. CASE CleanupEnds
  <2>1. /\ cleaner' = {}
        /\ closed' \in {closed, [q \in Key |-> IF q \in cleaner THEN closed[q] + 1 ELSE closed[q]]}
        /\ UNCHANGED <<opened, open, unlogged, r>> /\ (r.pc # "idle" => key' = key)
    BY <1>7, BesideEngine DEF CleanupEnds, engine, Beside
  <2>2. closed'[k] \in {closed[k], closed[k] + One(k \in cleaner)}
    BY <2>1
  <2> QED
    BY <2>1, <2>2, <1>a
<1>8. CASE Beside /\ ~CleanupEnds /\ ~ \E q \in Key : CleanupBegins(q)
  <2>1. UNCHANGED <<incidents, r>> /\ (r.pc # "idle" => key' = key)
    BY <1>8, BesideEngine DEF Beside, Worker, Receive, Process, Finish, InsertFails, AckLost,
       FlushBegins, FlushEnds, FlushFails, Forget, TimePasses, AckWaitExpires, vars
  <2> QED
    BY <2>1, <1>b
<1> QED
  BY <1>1, <1>2, <1>3, <1>4, <1>5, <1>6, <1>7, <1>8, StepKinds DEF RceWorker

-----------------------------------------------------------------------------
(* The answers *)

(* A key has been answered for: its trigger is published, or a call of its  *)
(* own failed or a kill hit it.                                             *)
Settled(k) == triggers[k] > 0 \/ k \in lost

(* A rule has answered a record that it matches alone, all rules have.      *)
RuleAnswered(a, j) ==
    scene.rules[j].kind \in {"stateless", "trigger"} /\ a.type = scene.rules[j].types[1]
    => Settled(<<j, a.group>>)
RecordAnswered(a) == \A j \in 1..Len(scene.rules) : RuleAnswered(a, j)

(* A cooldown, a suppression and a remembered trigger stand for an answer,  *)
(* or for one the engine is about to give.                                  *)
MemoryMeansAnswer ==
    /\ \A k \in Key : k \in fresh \cup seen => Settled(k) \/ AtKey({"trigger"}, k)
    /\ \A k \in Key : k \in suppressed =>
          Settled(k) \/ AtKey(EnginePcs \ {"suppress"}, k)

(* The rules before the engine's have answered the record.                  *)
RulesDone ==
    r.pc # "idle" => \A j \in 1..Len(scene.rules) : j < r.rule => RuleAnswered(rec, j)

(* The records before a worker's have been answered, unless it was told of  *)
(* a failure.                                                               *)
RecordsDone ==
    \A l \in Lane : w[l].pc # "idle" /\ ~w[l].failed =>
        \A i \in 1..Len(Records(l)) : i < w[l].idx => RecordAnswered(Records(l)[i])

BatchesDone ==
    \A m \in Message : msg[m] = "acked" =>
        \A i \in 1..Len(scene.content[m]) : RecordAnswered(scene.content[m][i])

(* What is settled stays settled.                                           *)
LEMMA SettledStays ==
    ASSUME Control, Numbers, [Next]_vars
    PROVE  \A k \in Key : Settled(k) => Settled(k)'
<1>1. lost \subseteq lost'
  BY DEF Next, RceWorker, Worker, vars, output, Take, Begin, Evaluate, Done, Suppress, Export,
         ProcessAlert, ExportIncident, Publish, Allow, CallFails, Receive, Process, Finish,
         InsertFails, AckLost, FlushBegins, FlushEnds, FlushFails, CleanupBegins,
         CleanupEnds, Forget, TimePasses, AckWaitExpires, Restart
<1>2. \/ triggers' = triggers
      \/ triggers' = More(triggers, key) /\ r.pc # "idle" /\ r.rule <= Len(scene.rules)
  <2>1. CASE Publish \/ CallFails
    BY <2>1 DEF Publish, CallFails, Control
  <2> QED
    BY <2>1 DEF Next, RceWorker, Worker, vars, output, Take, Begin, Evaluate, Done, Suppress, Export,
         ProcessAlert, ExportIncident, Allow, Receive, Process, Finish,
         InsertFails, AckLost, FlushBegins, FlushEnds, FlushFails, CleanupBegins,
         CleanupEnds, Forget, TimePasses, AckWaitExpires, Restart
<1>3. \A k \in Key : triggers[k] \in Nat /\ triggers'[k] \in Nat /\ triggers'[k] >= triggers[k]
  <2>1. triggers' \in Count /\ \A k \in Key : triggers'[k] >= triggers[k]
    <3>1. CASE triggers' = triggers
      BY <3>1 DEF Numbers, Count
    <3>2. CASE triggers' = More(triggers, key) /\ r.pc # "idle" /\ r.rule <= Len(scene.rules)
      BY <3>2, KeyType, MoreType DEF Numbers
    <3> QED
      BY <1>2, <3>1, <3>2
  <2> QED
    BY <2>1 DEF Numbers, Count
<1> QED
  BY <1>1, <1>3 DEF Settled

(* So does what has been answered.                                          *)
LEMMA AnswersStay ==
    ASSUME Control, Numbers, [Next]_vars, NEW a, a.group \in Group,
           NEW j \in Nat, j \in 1..Len(scene.rules), RuleAnswered(a, j)
    PROVE  RuleAnswered(a, j)'
<1>1. scene' = scene
  BY SceneFixed
<1>2. <<j, a.group>> \in Key
  BY SceneFacts DEF Control, Key
<1> QED
  BY <1>1, <1>2, SettledStays DEF RuleAnswered

(* The record the engine serves.                                            *)
LEMMA Served ==
    ASSUME Control, r.pc # "idle"
    PROVE  /\ r.lane \in Lane /\ w[r.lane].pc = "wait" /\ w[r.lane].idx \in Nat
           /\ w[r.lane].idx \in 1..Len(Records(r.lane)) /\ rec.group \in Group
<1>1. /\ scene \in Scene /\ w \in [Lane -> WorkerType] /\ r \in EngineType
      /\ AtRecord(r.lane) /\ w[r.lane].pc = "wait"
  BY DEF Control, Serving, EngineType
<1>2. /\ w[r.lane].msg \in Message /\ r.lane \in Lane /\ w[r.lane] \in WorkerType
  BY <1>1 DEF EngineType, AtRecord
<1>3. Len(Records(r.lane)) \in Nat
  BY <1>2, <1>1, SceneFacts DEF Records
<1>4. w[r.lane].idx \in Nat /\ w[r.lane].idx \in 1..Len(Records(r.lane))
  BY <1>1, <1>2, <1>3 DEF AtRecord, WorkerType
<1> QED
  BY <1>1, <1>2, <1>4, SceneFacts DEF rec, Records

LEMMA MemoryStep ==
    ASSUME Control, KindFits, Numbers, Copies, MemoryMeansAnswer, [Next]_vars
    PROVE  MemoryMeansAnswer'
<1>0. r \in EngineType /\ scene' = scene
  BY SceneFixed DEF Control
<1>s. \A k \in Key : Settled(k) => Settled(k)'
  BY SettledStays
<1> SUFFICES ASSUME NEW k \in Key
             PROVE  /\ (k \in fresh \cup seen => Settled(k) \/ AtKey({"trigger"}, k))'
                    /\ (k \in suppressed => Settled(k) \/ AtKey(EnginePcs \ {"suppress"}, k))'
  BY DEF MemoryMeansAnswer
<1> DEFINE Remembered == k \in fresh \cup seen => Settled(k) \/ AtKey({"trigger"}, k)
           Raised == k \in suppressed => Settled(k) \/ AtKey(EnginePcs \ {"suppress"}, k)
<1>a. Remembered /\ Raised
  BY DEF MemoryMeansAnswer
<1>b. ASSUME fresh' \cup seen' \subseteq fresh \cup seen, suppressed' \subseteq suppressed,
             AtKey({"trigger"}, k) => AtKey({"trigger"}, k)' \/ Settled(k)',
             AtKey(EnginePcs \ {"suppress"}, k) =>
                 AtKey(EnginePcs \ {"suppress"}, k)' \/ Settled(k)'
      PROVE  Remembered' /\ Raised'
  BY <1>a, <1>b, <1>s
<1> USE DEF AtKey, EnginePcs
<1>1. CASE Take \/ Begin \/ Evaluate \/ Done
  <2>1. UNCHANGED <<fresh, seen, suppressed>> /\ r.pc \in {"idle", "begin", "rule"}
    BY <1>1 DEF Take, Begin, Evaluate, Done, cooldown
  <2> QED
    BY <2>1, <1>b
<1>2. CASE Suppress
  <2>1. /\ r.pc = "suppress" /\ UNCHANGED <<fresh, seen, w>>
        /\ \/ suppressed' = suppressed
           \/ Step("export") /\ suppressed' = suppressed \cup {key}
    BY <1>2 DEF Suppress, cooldown
  <2>2. CASE suppressed' = suppressed
    BY <2>1, <2>2, <1>b
  <2>3. CASE Step("export") /\ suppressed' = suppressed \cup {key}
    <3>1. r'.pc = "export" /\ key' = key
      BY <2>1, <2>3, <1>0, KeyStays
    <3> QED
      BY <2>1, <2>3, <3>1, <1>a, <1>s
  <2> QED
    BY <2>1, <2>2, <2>3
<1>3. CASE Export \/ ProcessAlert \/ ExportIncident
  <2>1. /\ r.pc \in {"export", "incident", "open", "update"}
        /\ UNCHANGED <<fresh, seen, suppressed, w>>
        /\ \E p \in {"incident", "open", "update", "publish"} : Step(p)
    BY <1>3 DEF Export, ProcessAlert, ExportIncident, cooldown
  <2>2. r'.pc \in {"incident", "open", "update", "publish"} /\ key' = key
    BY <2>1, <1>0, KeyStays
  <2> QED
    BY <2>1, <2>2, <1>b
<1>4. CASE Publish
  <2>1. /\ r.pc \in {"publish", "trigger"} /\ key \in Key /\ triggers' = More(triggers, key)
        /\ fresh' = fresh /\ suppressed' = suppressed /\ seen' \subseteq seen \cup {key}
    BY <1>4, KeyType DEF Publish, Control
  <2>2. key = k => Settled(k)'
    <3>1. SUFFICES ASSUME key = k PROVE triggers'[k] > 0
      BY DEF Settled
    <3>2. triggers'[k] = triggers[k] + 1 /\ triggers[k] \in Nat
      BY <2>1, <3>1, MoreType DEF Numbers, Count
    <3> QED
      BY <3>2
  <2> QED
    BY <2>1, <2>2, <1>a, <1>s
<1>5. CASE Allow
  <2>1. /\ r.pc = "allow" /\ UNCHANGED <<seen, suppressed, w>>
        /\ fresh' = fresh \/ fresh' = fresh \cup {key}
        /\ \/ NextRule /\ (key \in fresh \cup seen)
           \/ Step("trigger")
    BY <1>5 DEF Allow
  <2>2. CASE NextRule /\ (key \in fresh \cup seen)
    BY <2>1, <2>2, <1>b
  <2>3. CASE Step("trigger")
    <3>1. r'.pc = "trigger" /\ key' = key
      BY <2>1, <2>3, <1>0, KeyStays
    <3> QED
      BY <2>1, <3>1, <1>a, <1>s
  <2> QED
    BY <2>1, <2>2, <2>3
<1>6. CASE CallFails
  <2>1. /\ UNCHANGED <<fresh, seen, suppressed>> /\ lost' = lost \cup {key}
    BY <1>6 DEF CallFails, cooldown
  <2>2. key = k => Settled(k)'
    BY <2>1 DEF Settled
  <2> QED
    BY <2>1, <2>2, <1>b
<1>7. CASE Restart
  <2>1. /\ suppressed' = {} /\ seen' = {} /\ fresh' = file
        /\ lost' = lost \cup (IF r.pc = "trigger" /\ key \in file THEN {key} ELSE {})
    BY <1>7 DEF Restart
  <2>2. AtKey({"trigger"}, k) /\ k \in file => Settled(k)'
    BY <2>1 DEF Settled
  <2> QED
    BY <2>1, <2>2, <1>a, <1>s DEF Copies
<1>8. CASE Beside
  <2>1. fresh' \subseteq fresh /\ seen' \subseteq seen /\ suppressed' \subseteq suppressed
    BY <1>8 DEF Beside, Worker, Receive, Process, Finish, InsertFails, AckLost, FlushBegins,
       FlushEnds, FlushFails, CleanupEnds, CleanupBegins, Forget, TimePasses, AckWaitExpires,
       vars, cooldown, engine
  <2>2. r' = r /\ (r.pc # "idle" => key' = key)
    BY <1>8, BesideEngine
  <2> QED
    BY <2>1, <2>2, <1>b
<1> QED
  BY <1>1, <1>2, <1>3, <1>4, <1>5, <1>6, <1>7, <1>8, StepKinds DEF RceWorker

(* The engine leaves a rule for the next with the record answered.          *)
LEMMA RuleLeft ==
    ASSUME Control, KindFits, Numbers, MemoryMeansAnswer,
           Evaluate \/ Suppress \/ Publish \/ Allow, NextRule,
           NEW a, a = rec, NEW j, j = r.rule, j \in 1..Len(scene.rules)
    PROVE  RuleAnswered(a, j)'
<1>0. r \in EngineType /\ scene' = scene /\ key = <<j, a.group>> /\ rule = scene.rules[j]
      /\ r.pc # "idle"
  BY DEF Control, Evaluate, Suppress, Publish, Allow, counts, key, rule
<1>1. PICK k \in Key : k = <<j, a.group>>
  BY <1>0, KeyType
<1>2. Settled(k)' => RuleAnswered(a, j)'
  BY <1>1 DEF RuleAnswered, Settled
<1>3. CASE Evaluate
  <2>1. r'.pc = "rule"
    BY <1>0 DEF NextRule, EngineType
  <2>2. ~Completed
    <3>1. Step("allow") \/ Step("suppress") => r'.pc # "rule"
      BY <1>0 DEF Step, EngineType
    <3> QED
      BY <1>3, <2>1, <3>1 DEF Evaluate
  <2>3. rule.kind \in {"stateless", "trigger"} => ~(a.type = rule.types[1])
    BY <2>2 DEF Completed, Matched
  <2> QED
    BY <2>3, <1>0 DEF RuleAnswered
<1>4. CASE Suppress
  <2>1. r.pc = "suppress" /\ r'.pc = "rule" /\ UNCHANGED <<lost, triggers>>
    BY <1>0, <1>4 DEF Suppress, NextRule, EngineType
  <2>2. k \in suppressed
    <3>1. Step("export") => r'.pc # "rule"
      BY <1>0 DEF Step, EngineType
    <3> QED
      BY <1>4, <2>1, <3>1, <1>0, <1>1 DEF Suppress
  <2>3. Settled(k)
    BY <2>1, <2>2 DEF MemoryMeansAnswer, AtKey
  <2> QED
    BY <2>1, <2>3, <1>2 DEF Settled
<1>5. CASE Publish
  <2>1. triggers' = More(triggers, k)
    BY <1>5, <1>0, <1>1 DEF Publish
  <2>2. triggers'[k] = triggers[k] + 1 /\ triggers[k] \in Nat
    BY <2>1, MoreType DEF Numbers, Count
  <2> QED
    BY <2>2, <1>2 DEF Settled
<1>6. CASE Allow
  <2>1. r.pc = "allow" /\ r'.pc = "rule" /\ UNCHANGED <<lost, triggers>>
    BY <1>0, <1>6 DEF Allow, NextRule, EngineType, output
  <2>2. k \in fresh \cup seen
    <3>1. Step("trigger") => r'.pc # "rule"
      BY <1>0 DEF Step, EngineType
    <3> QED
      BY <1>6, <2>1, <3>1, <1>0, <1>1 DEF Allow
  <2>3. Settled(k)
    BY <2>1, <2>2 DEF MemoryMeansAnswer, AtKey
  <2> QED
    BY <2>1, <2>3, <1>2 DEF Settled
<1> QED
  BY <1>3, <1>4, <1>5, <1>6

LEMMA RulesStep ==
    ASSUME Control, KindFits, Numbers, MemoryMeansAnswer, RulesDone, [Next]_vars
    PROVE  RulesDone'
<1>0. r \in EngineType /\ scene' = scene
  BY SceneFixed DEF Control
<1>1. CASE r'.pc = "idle"
  BY <1>1 DEF RulesDone
<1>2. CASE Take
  <2>1. r'.rule = 1
    BY <1>2 DEF Take, Waiting
  <2> QED
    BY <2>1 DEF RulesDone
<1>s. ASSUME r.pc # "idle", rec' = rec, NEW j \in Nat, j \in 1..Len(scene.rules), j < r.rule
      PROVE  RuleAnswered(rec, j)'
  <2>1. PICK a : a = rec
    OBVIOUS
  <2>2. RuleAnswered(a, j) /\ a.group \in Group
    BY <1>s, <2>1, Served DEF RulesDone
  <2>3. RuleAnswered(a, j)'
    BY <2>2, <1>s, AnswersStay
  <2> QED
    BY <2>1, <2>3, <1>s DEF RuleAnswered
<1>c. Len(scene.rules) \in Nat /\ r.rule \in Nat
  BY <1>0, SceneFacts DEF Control, EngineType
<1>3. CASE r.pc # "idle" /\ rec' = rec /\ r'.rule = r.rule
  <2> SUFFICES ASSUME NEW j \in Nat, j \in 1..Len(scene.rules), j < r.rule
               PROVE  RuleAnswered(rec, j)'
    BY <1>0, <1>3, <1>c DEF RulesDone
  <2> QED
    BY <1>3, <1>s
<1>4. CASE (Evaluate \/ Suppress \/ Publish \/ Allow) /\ NextRule
  <2>1. rec' = rec /\ r'.rule = r.rule + 1 /\ r.pc # "idle"
    BY <1>0, <1>4, NextRuleIs DEF Evaluate, Suppress, Publish, Allow
  <2> SUFFICES ASSUME NEW j \in Nat, j \in 1..Len(scene.rules), j < r.rule + 1
               PROVE  RuleAnswered(rec, j)'
    BY <1>0, <2>1, <1>c DEF RulesDone
  <2>2. CASE j = r.rule
    <3>1. PICK a : a = rec
      OBVIOUS
    <3>2. RuleAnswered(a, j)'
      BY <2>2, <3>1, <1>4, RuleLeft
    <3> QED
      BY <2>1, <3>1, <3>2 DEF RuleAnswered
  <2>3. CASE j # r.rule
    BY <2>1, <2>3, <1>s, <1>c
  <2> QED
    BY <2>2, <2>3
<1>8. CASE Begin
  <2>1. r.pc # "idle" /\ r'.rule = r.rule /\ r'.lane = r.lane /\ w' = w
    BY <1>8, <1>0 DEF Begin, EngineType
  <2>2. rec' = rec
    BY <2>1, <1>0 DEF rec, Records
  <2> QED
    BY <2>1, <2>2, <1>3
<1>5. CASE /\ RceWorker /\ ~Take /\ ~Begin /\ ~Done
           /\ ~((Evaluate \/ Suppress \/ Publish \/ Allow) /\ NextRule)
  <2>1. w' = w /\ r.pc # "idle" /\ \E p \in Pcs : Step(p)
    BY <1>5 DEF RceWorker, Evaluate, Suppress, Export, ProcessAlert, ExportIncident, Publish,
       Allow, Pcs
  <2>2. PICK p \in Pcs : Step(p)
    BY <2>1
  <2>3. rec' = rec /\ r'.rule = r.rule
    BY <2>1, <2>2, <1>0, KeyStays DEF Step, EngineType
  <2> QED
    BY <2>1, <2>3, <1>3
<1>6. CASE Done \/ CallFails \/ Restart
  BY <1>6, <1>1 DEF Done, CallFails, Answer, Restart, Waiting
<1>7. CASE Beside
  <2>1. r' = r /\ (r.pc # "idle" => rec' = rec)
    BY <1>7, BesideEngine
  <2> QED
    BY <2>1, <1>1, <1>3
<1> QED
  BY <1>2, <1>4, <1>5, <1>6, <1>7, <1>8, StepKinds

LEMMA RecordsStep ==
    ASSUME Control, Numbers, RulesDone, RecordsDone, [Next]_vars
    PROVE  RecordsDone'
<1>0. /\ scene' = scene /\ scene \in Scene /\ w \in [Lane -> WorkerType]
      /\ Len(scene.rules) \in Nat
  BY SceneFixed, SceneFacts DEF Control
<1> SUFFICES ASSUME NEW l \in Lane, w'[l].pc # "idle", ~w'[l].failed,
                    NEW i \in 1..Len(Records(l)'), i < w'[l].idx,
                    NEW j \in Nat, j \in 1..Len(scene.rules)
             PROVE  RuleAnswered(Records(l)[i], j)'
  BY <1>0 DEF RecordsDone, RecordAnswered
<1>i. i \in Nat /\ i >= 1
  <2>1. w'[l].msg \in Message
    BY ControlStep DEF Control, AtRecord
  <2> QED
    BY <2>1, <1>0, SceneFacts DEF Records
(* The record was answered already.                                         *)
<1>s. ASSUME w[l].pc # "idle", ~w[l].failed, w'[l].msg = w[l].msg, i < w[l].idx
      PROVE  RuleAnswered(Records(l)[i], j)'
  <2>1. Records(l)' = Records(l) /\ w[l].msg \in Message
    BY <1>s, <1>0 DEF Records, Control, AtRecord
  <2>2. PICK a : a = Records(l)[i]
    OBVIOUS
  <2>3. RuleAnswered(a, j) /\ a.group \in Group
    <3>1. a.group \in Group
      BY <2>1, <2>2, <1>0, SceneFacts DEF Records
    <3> QED
      BY <1>s, <2>1, <2>2, <3>1 DEF RecordsDone, RecordAnswered
  <2>4. RuleAnswered(a, j)'
    BY <2>3, AnswersStay
  <2> QED
    BY <2>1, <2>2, <2>4 DEF RuleAnswered
<1>1. CASE w'[l] = w[l]
  BY <1>1, <1>s
<1>2. CASE Restart
  BY <1>2 DEF Restart, Resting
<1>3. CASE CallFails
  <2>1. w' = [w EXCEPT ![r.lane] = [pc |-> "record", msg |-> w[r.lane].msg,
                 idx |-> w[r.lane].idx + 1, failed |-> w[r.lane].failed \/ TRUE]]
    BY <1>3 DEF CallFails, Answer
  <2>2. l # r.lane
    BY <2>1, <1>0
  <2> QED
    BY <2>1, <2>2, <1>0, <1>1
<1>4. CASE Done
  <2>1. /\ w' = [w EXCEPT ![r.lane] = [pc |-> "record", msg |-> w[r.lane].msg,
                    idx |-> w[r.lane].idx + 1, failed |-> w[r.lane].failed \/ FALSE]]
        /\ r.pc = "rule" /\ r.rule > Len(scene.rules)
    BY <1>4 DEF Done, Answer
  <2>2. CASE l # r.lane
    BY <2>1, <2>2, <1>0, <1>1
  <2>3. CASE l = r.lane
    <3>1. /\ w'[l].idx = w[l].idx + 1 /\ w'[l].msg = w[l].msg /\ ~w[l].failed
          /\ w[l].pc = "wait" /\ w[l].idx \in Nat
      BY <2>1, <2>3, <1>0, Served
    <3>2. CASE i < w[l].idx
      BY <3>1, <3>2, <1>s
    <3>3. CASE i = w[l].idx
      <4>1. PICK a : a = rec
        OBVIOUS
      <4>2. j < r.rule
        BY <2>1, <1>0 DEF Control, EngineType
      <4>3. RuleAnswered(a, j) /\ a.group \in Group
        BY <2>1, <4>1, <4>2, Served DEF RulesDone
      <4>4. RuleAnswered(a, j)'
        BY <4>3, AnswersStay
      <4>5. Records(l)'[i] = a
        BY <2>3, <3>1, <3>3, <4>1, <1>0 DEF Records, rec
      <4> QED
        BY <4>4, <4>5 DEF RuleAnswered
    <3> QED
      BY <3>1, <3>2, <3>3, <1>i
  <2> QED
    BY <2>2, <2>3
<1>5. ASSUME NEW k \in Lane, Worker(k) \/ InsertFails(k) \/ AckLost(k)
      PROVE  RuleAnswered(Records(l)[i], j)'
  <2>1. CASE l # k
    BY <1>5, <2>1, <1>0, <1>1 DEF Worker, Receive, Process, Finish, InsertFails, AckLost
  <2>2. CASE l = k /\ Process(k)
    <3>1. w'[l].msg = w[l].msg /\ w'[l].idx = w[l].idx /\ w'[l].failed = w[l].failed
      BY <2>2, <1>0 DEF Process, WorkerType
    <3> QED
      BY <2>2, <3>1, <1>s DEF Process
  <2>3. CASE l = k /\ (Finish(k) \/ InsertFails(k) \/ AckLost(k))
    <3>1. w'[l] = Resting
      BY <2>3, <1>0 DEF Finish, InsertFails, AckLost
    <3> QED
      BY <3>1 DEF Resting
  <2>4. CASE l = k /\ \E m \in Message : Receive(k, m)
    <3>1. PICK m \in Message : Receive(k, m)
      BY <2>4
    <3>2. w' = [w EXCEPT ![k] = [pc |-> "record", msg |-> m, idx |-> 1, failed |-> FALSE]]
      BY <3>1 DEF Receive
    <3>3. w'[l].idx = 1
      BY <2>4, <3>2, <1>0
    <3> QED
      BY <3>3, <1>i
  <2> QED
    BY <1>5, <2>1, <2>2, <2>3, <2>4 DEF Worker
<1>6. CASE UNCHANGED w
  BY <1>6, <1>1
<1>7. CASE RceWorker /\ ~Done
  BY <1>7, <1>6 DEF RceWorker, Take, Begin, Evaluate, Suppress, Export, ProcessAlert,
     ExportIncident, Publish, Allow
<1>8. CASE Beside /\ ~(\E k \in Lane : Worker(k) \/ InsertFails(k) \/ AckLost(k))
  BY <1>8, <1>6 DEF Beside, FlushBegins, FlushEnds, FlushFails, CleanupEnds, CleanupBegins,
     Forget, TimePasses, AckWaitExpires, vars
<1> QED
  BY <1>2, <1>3, <1>4, <1>5, <1>7, <1>8, StepKinds

LEMMA BatchesStep ==
    ASSUME Control, Numbers, RecordsDone, BatchesDone, [Next]_vars
    PROVE  BatchesDone'
<1>0. /\ scene' = scene /\ scene \in Scene /\ Len(scene.rules) \in Nat
      /\ msg \in [Message -> {"queued", "delivered", "acked"}]
      /\ w \in [Lane -> WorkerType]
  BY SceneFixed, SceneFacts DEF Control
<1> SUFFICES ASSUME NEW m \in Message, msg'[m] = "acked",
                    NEW i \in 1..Len(scene.content[m]),
                    NEW j \in Nat, j \in 1..Len(scene.rules)
             PROVE  RuleAnswered(scene.content[m][i], j)'
  BY <1>0 DEF BatchesDone, RecordAnswered
<1>s. ASSUME RuleAnswered(scene.content[m][i], j)
      PROVE  RuleAnswered(scene.content[m][i], j)'
  <2>1. PICK a : a = scene.content[m][i]
    OBVIOUS
  <2>2. RuleAnswered(a, j) /\ a.group \in Group
    BY <1>s, <2>1, <1>0, SceneFacts
  <2>3. RuleAnswered(a, j)'
    BY <2>2, AnswersStay
  <2> QED
    BY <1>0, <2>1, <2>3 DEF RuleAnswered
<1>1. CASE msg[m] = "acked"
  BY <1>1, <1>s DEF BatchesDone, RecordAnswered
<1>2. CASE msg[m] # "acked"
  <2>1. \E l \in Lane : Finish(l)
    <3>1. CASE UNCHANGED msg
      BY <3>1, <1>2
    <3>2. CASE \E l \in Lane, q \in Message : Receive(l, q)
      <4>1. PICK l \in Lane, q \in Message : Receive(l, q)
        BY <3>2
      <4>2. msg' = [msg EXCEPT ![q] = "delivered"]
        BY <4>1 DEF Receive
      <4> QED
        BY <4>2, <1>0, <1>2
    <3>3. CASE \E q \in Message : AckWaitExpires(q)
      <4>1. PICK q \in Message : AckWaitExpires(q)
        BY <3>3
      <4>2. msg' = [msg EXCEPT ![q] = "queued"]
        BY <4>1 DEF AckWaitExpires
      <4> QED
        BY <4>2, <1>0, <1>2
    <3>4. UNCHANGED msg \/ (\E l \in Lane, q \in Message : Receive(l, q))
          \/ (\E q \in Message : AckWaitExpires(q)) \/ \E l \in Lane : Finish(l)
      BY DEF Next, RceWorker, Worker, vars, Take, Begin, Evaluate, Done, Suppress, Export,
         ProcessAlert, ExportIncident, Publish, Allow, CallFails, Process,
         InsertFails, AckLost, FlushBegins, FlushEnds, FlushFails, CleanupBegins,
         CleanupEnds, Forget, TimePasses, Restart
    <3> QED
      BY <3>1, <3>2, <3>3, <3>4
  <2>2. PICK l \in Lane : Finish(l)
    BY <2>1
  <2>3. /\ w[l].pc = "record" /\ w[l].idx > Len(Records(l)) /\ ~w[l].failed /\ w[l].msg = m
    BY <2>2, <1>0, <1>2 DEF Finish
  <2>4. i < w[l].idx
    BY <2>3, <1>0, SceneFacts DEF Records, WorkerType
  <2>5. RuleAnswered(Records(l)[i], j)
    BY <2>3, <2>4 DEF RecordsDone, RecordAnswered, Records
  <2> QED
    BY <2>3, <2>5, <1>s DEF Records
<1> QED
  BY <1>1, <1>2

-----------------------------------------------------------------------------
(* The inductive invariant *)

Inv ==
    /\ Control /\ KindFits /\ Numbers /\ Copies
    /\ Cooled /\ Closings
    /\ MemoryMeansAnswer /\ RulesDone /\ RecordsDone /\ BatchesDone

LEMMA InvInit == Init => Inv
<1> SUFFICES ASSUME Init PROVE Inv
  OBVIOUS
<1>1. Control /\ r.pc = "idle" /\ \A l \in Lane : w[l].pc = "idle"
  BY ControlInit DEF Init, Waiting, Resting
<1>2. Numbers
  BY DEF Init, None, Numbers, Count
<1>3. \A k \in Key : triggers[k] = 0 /\ ends[k] = 0 /\ forgotten[k] = 0
                     /\ closed[k] = 0 /\ opened[k] = 0 /\ unlogged[k] = 0
  BY DEF Init, None
<1>4. /\ fresh = {} /\ seen = {} /\ suppressed = {} /\ open = {} /\ cleaner = {}
      /\ file = {} /\ flush = FlushIdle /\ msg = [m \in Message |-> "queued"]
  BY DEF Init
<1>5. Copies
  BY <1>4 DEF Copies, FlushIdle
<1>6. Cooled /\ Closings
  BY <1>1, <1>3, <1>4 DEF Cooled, Closings, One, AtKey
<1> QED
  BY <1>1, <1>2, <1>4, <1>5, <1>6 DEF Inv, KindFits, EnginePcs, MemoryMeansAnswer,
     RulesDone, RecordsDone, BatchesDone

LEMMA InvStep == Inv /\ [Next]_vars => Inv'
  BY ControlStep, KindStep, NumbersStep, CopiesStep, CooledStep, ClosingsStep, MemoryStep,
     RulesStep, RecordsStep, BatchesStep DEF Inv

LEMMA Invariance == Spec => []Inv
  BY InvInit, InvStep, PTL DEF Spec

(* The engine serves a lane if and only if the lane waits for it, and the   *)
(* lane has one place: RCE.Process of a worker returns before the worker    *)
(* hands over its next record.                                              *)
THEOREM OneRecordAtATime == Spec => []OneRecordEach
<1>1. Inv => OneRecordEach
  BY OneRecord DEF Inv
<1> QED
  BY <1>1, Invariance, PTL

(* emitTrigger publishes once for a cooldown, across failed calls,          *)
(* redelivered batches and restarts: what is missing in the checkpoint when *)
(* the process is killed, and nothing else, allows one more.                *)
THEOREM CooldownKept == Spec => []CooldownSurvives
<1>1. Inv => CooldownSurvives
  <2> SUFFICES ASSUME Inv, NEW k \in Key, IsTrigger(k)
               PROVE  triggers[k] <= 1 + ends[k] + forgotten[k]
    BY DEF CooldownSurvives, IsTrigger
  <2>1. triggers[k] \in Nat /\ ends[k] \in Nat /\ forgotten[k] \in Nat
    BY DEF Inv, Numbers, Count
  <2>2. triggers[k] + One(AtKey({"trigger"}, k)) <= ends[k] + forgotten[k] + One(k \in fresh)
    BY DEF Inv, Cooled
  <2> QED
    BY <2>1, <2>2 DEF One
<1> QED
  BY <1>1, Invariance, PTL

(* The cleanup goroutine exports no incident as closed more often than the  *)
(* engine has exported it as opened or failed to, although it takes the     *)
(* incident out of the map before and exports it after, without the mutex.  *)
THEOREM ClosingsMatched == Spec => []ClosedWasOpened
<1>1. Inv => ClosedWasOpened
  <2> SUFFICES ASSUME Inv, NEW k \in Key
               PROVE  closed[k] <= opened[k] + unlogged[k]
    BY DEF ClosedWasOpened
  <2>1. closed[k] \in Nat /\ opened[k] \in Nat /\ unlogged[k] \in Nat
    BY DEF Inv, Numbers, Count
  <2>2. closed[k] + One(k \in cleaner) + One(k \in open /\ ~AtKey({"open"}, k))
            <= opened[k] + unlogged[k]
    BY DEF Inv, Closings
  <2> QED
    BY <2>1, <2>2 DEF One
<1> QED
  BY <1>1, Invariance, PTL

(* A worker acknowledges a batch only when each of its records has been     *)
(* answered by every rule that matches one record: published then or        *)
(* before, or met by a failed call or a kill of that very key.              *)
THEOREM AcknowledgedAnswered == Spec => []AckedIsAnswered
<1>1. Inv => AckedIsAnswered
  <2> SUFFICES ASSUME Inv, NEW m \in Message, msg[m] = "acked",
                      NEW i \in DOMAIN scene.content[m], NEW j \in DOMAIN scene.rules
               PROVE  RuleAnswered(scene.content[m][i], j)
    BY DEF AckedIsAnswered, RuleAnswered, Settled
  <2>1. /\ DOMAIN scene.content[m] = 1..Len(scene.content[m])
        /\ DOMAIN scene.rules = 1..Len(scene.rules)
    BY SceneFacts DEF Inv, Control
  <2> QED
    BY <2>1 DEF Inv, BatchesDone, RecordAnswered
<1> QED
  BY <1>1, Invariance, PTL

-----------------------------------------------------------------------------
(* Types: what is correlated *)

LEMMA Least ==
    ASSUME NEW S \in SUBSET Nat, S # {}
    PROVE  Min(S) \in S /\ \A y \in S : Min(S) <= y
<1>1. PICK z \in S : \A y \in S : <<y, z>> \notin OpToRel(<, Nat)
  BY NatLessThanWellFounded, WFMin
<1>2. \A y \in S : ~(y < z)
  BY <1>1 DEF OpToRel
<1>3. \E x \in S : \A y \in S : x <= y
  BY <1>2
<1> QED
  BY <1>3 DEF Min

LEMMA RuleFacts ==
    ASSUME Control, r.pc # "idle", r.rule <= Len(scene.rules)
    PROVE  /\ rec.time \in Nat /\ rule.kind \in Kinds /\ rule.window \in Nat
           /\ rule.types \in Seq(STRING) /\ DOMAIN rule.types \subseteq Nat
<1>1. /\ scene \in Scene /\ w \in [Lane -> WorkerType] /\ r.lane \in Lane
      /\ r.rule \in 1..Len(scene.rules) /\ AtRecord(r.lane) /\ w[r.lane].pc = "wait"
  BY KeyType DEF Control, Serving
<1>2. rec.time \in Nat
  <2> DEFINE Item == [type : STRING, group : Group, time : Nat]
  <2>1. w[r.lane].msg \in Message /\ w[r.lane].idx > 0 /\ w[r.lane].idx \in Nat
        /\ w[r.lane].idx <= Len(Records(r.lane))
    BY <1>1 DEF AtRecord, WorkerType
  <2>2. scene.content \in [Message -> Seq(Item)]
    BY <1>1, ConsumeAssumption
  <2>3. \A x \in Item : x.time \in Nat
    OBVIOUS
  <2> HIDE DEF Item
  <2>4. Records(r.lane) \in Seq(Item)
    BY <2>1, <2>2 DEF Records
  <2>5. rec \in Item
    BY <2>1, <2>4 DEF rec
  <2> QED
    BY <2>3, <2>5
<1>3. rule.kind \in Kinds /\ rule.window \in Nat /\ rule.types \in Seq(STRING)
  <2> DEFINE Item == [kind : Kinds, types : Seq(STRING), threshold : Nat, window : Nat]
  <2>1. scene.rules \in Seq(Item)
    BY <1>1, ConsumeAssumption DEF Kinds
  <2>2. \A x \in Item : x.kind \in Kinds /\ x.window \in Nat /\ x.types \in Seq(STRING)
    OBVIOUS
  <2> HIDE DEF Item
  <2>3. rule \in Item
    BY <1>1, <2>1 DEF rule
  <2> QED
    BY <2>2, <2>3
<1> QED
  BY <1>2, <1>3

(* A record joins a list of times, or the times of a join's predicates.     *)
LEMMA CountedType ==
    ASSUME corr[key] \in Seq(Nat), rec.time \in Nat, rule.window \in Nat
    PROVE  Counted \in Seq(Nat)
<1> DEFINE times == Append(corr[key], rec.time)
           recent == {i \in DOMAIN times : times[i] + rule.window >= rec.time}
<1>1. times \in Seq(Nat) /\ Len(times) \in Nat /\ Len(times) > 0 /\ DOMAIN times = 1..Len(times)
      /\ times[Len(times)] = rec.time
  OBVIOUS
<1>2. Counted = SubSeq(times, Min(recent), Len(times))
  BY DEF Counted
<1> HIDE DEF times
<1>3. Len(times) \in recent /\ recent \in SUBSET Nat
  BY <1>1
<1> HIDE DEF recent
<1>4. Min(recent) \in recent
  BY <1>3, Least
<1>5. Min(recent) \in 1..Len(times)
  BY <1>1, <1>4 DEF recent
<1> QED
  BY <1>1, <1>2, <1>5

LEMMA SequencedType ==
    ASSUME corr[key] \in Seq(Nat), rec.time \in Nat
    PROVE  Sequenced \in Seq(Nat)
<1> DEFINE s == IF corr[key] # <<>> /\ rec.time > corr[key][1] + rule.window
                THEN <<>> ELSE corr[key]
<1>1. s \in Seq(Nat)
  OBVIOUS
<1>2. Sequenced = s \/ Sequenced = Append(s, rec.time)
  BY DEF Sequenced
<1> HIDE DEF s
<1> QED
  BY <1>1, <1>2

LEMMA JoinedType ==
    ASSUME NEW I \in SUBSET DOMAIN rule.types, corr[key] \in [I -> Nat], rec.time \in Nat,
           DOMAIN rule.types \subseteq Nat
    PROVE  \E J \in SUBSET DOMAIN rule.types : Joined \in [J -> Nat]
<1> DEFINE S == {i \in DOMAIN corr[key] : corr[key][i] + rule.window >= rec.time}
           s == Restrict(corr[key], S)
           free == {i \in DOMAIN rule.types \ DOMAIN s : Matched(rule.types[i])}
<1>1. S \in SUBSET DOMAIN rule.types /\ s \in [S -> Nat]
  BY DEF Restrict
<1>2. Joined = IF free = {} THEN s
               ELSE [i \in DOMAIN s \cup {Min(free)} |-> IF i \in DOMAIN s THEN s[i] ELSE rec.time]
  BY DEF Joined
<1>3. free \in SUBSET Nat /\ free \subseteq DOMAIN rule.types
  OBVIOUS
<1> HIDE DEF S, s, free
<1>4. CASE free = {}
  BY <1>1, <1>2, <1>4
<1>5. CASE free # {}
  <2>1. PICK f : f = Min(free)
    OBVIOUS
  <2>2. f \in DOMAIN rule.types
    BY <1>3, <1>5, <2>1, Least
  <2>3. Joined = [i \in S \cup {f} |-> IF i \in S THEN s[i] ELSE rec.time]
    BY <1>1, <1>2, <1>5, <2>1
  <2>4. Joined \in [S \cup {f} -> Nat]
    BY <1>1, <2>3
  <2>5. S \cup {f} \in SUBSET DOMAIN rule.types
    BY <1>1, <2>2
  <2> QED
    BY <2>4, <2>5
<1> QED
  BY <1>4, <1>5

IsJoin(k) == k[1] \in DOMAIN scene.rules /\ scene.rules[k[1]].kind = "join"
Correlations == corr = [k \in Key |-> corr[k]] /\ \A k \in Key : CorrType(k)

LEMMA EmptyCorr ==
    ASSUME NEW k \in Key, scene' = scene, corr'[k] = <<>>
    PROVE  CorrType(k)'
<1>1. <<>> \in [{} -> Nat] /\ <<>> \in Seq(Nat)
  <2>1. <<>> \in Seq(Nat) /\ Len(<<>>) = 0
    OBVIOUS
  <2>2. <<>> \in [1..0 -> Nat] /\ 1..0 = {}
    BY <2>1
  <2> QED
    BY <2>1, <2>2
<1> QED
  BY <1>1 DEF CorrType

LEMMA CorrelationsStep ==
    ASSUME Control, Correlations, [Next]_vars
    PROVE  Correlations'
<1>0. scene' = scene
  BY SceneFixed
<1>1. CASE Evaluate
  <2>1. /\ r.pc # "idle" /\ r.rule <= Len(scene.rules) /\ r.rule \in 1..Len(scene.rules)
        /\ key \in Key
    BY <1>1, KeyType DEF Evaluate
  <2>2. /\ rec.time \in Nat /\ rule.kind \in Kinds /\ rule.window \in Nat
        /\ DOMAIN rule.types \subseteq Nat
    BY <2>1, RuleFacts
  <2>3. PICK q : q = key
    OBVIOUS
  <2>4. q \in Key /\ q[1] = r.rule
    BY <2>1, <2>3 DEF key
  <2>5. DOMAIN scene.rules = 1..Len(scene.rules)
    BY SceneFacts DEF Control
  <2>6. scene.rules[q[1]] = rule /\ q[1] \in DOMAIN scene.rules
    BY <2>1, <2>4, <2>5 DEF rule
  <2>7. PICK v : corr' = [corr EXCEPT ![q] = v] /\ (v = <<>> \/ v = Correlated)
    BY <1>1, <2>3 DEF Evaluate
  <2>8. IF rule.kind = "join" THEN \E J \in SUBSET DOMAIN rule.types : Correlated \in [J -> Nat]
        ELSE Correlated \in Seq(Nat)
    <3>1. CASE rule.kind = "join"
      <4>1. PICK I \in SUBSET DOMAIN rule.types : corr[q] \in [I -> Nat]
        BY <2>4, <2>6, <3>1 DEF Correlations, CorrType
      <4>2. Correlated \in {corr[q], Joined}
        BY <2>3, <3>1 DEF Correlated
      <4> QED
        BY <2>2, <2>3, <3>1, <4>1, <4>2, JoinedType
    <3>2. CASE rule.kind # "join"
      <4>1. corr[q] \in Seq(Nat)
        BY <2>4, <2>6, <3>2 DEF Correlations, CorrType
      <4>2. Correlated \in {corr[q], Counted, Sequenced}
        BY <2>2, <2>3, <3>2 DEF Correlated, Kinds
      <4> QED
        BY <2>2, <2>3, <3>2, <4>1, <4>2, CountedType, SequencedType
    <3> QED
      BY <3>1, <3>2
  <2>9. corr' = [k \in Key |-> corr'[k]] /\ corr'[q] = v
        /\ \A k \in Key : k # q => corr'[k] = corr[k]
    BY <2>4, <2>7 DEF Correlations
  <2>10. CorrType(q)'
    <3>1. CASE v = <<>>
      BY <1>0, <2>4, <2>9, <3>1, EmptyCorr
    <3>2. CASE v = Correlated
      BY <1>0, <2>6, <2>8, <2>9, <3>2 DEF CorrType
    <3> QED
      BY <2>7, <3>1, <3>2
  <2>11. ASSUME NEW k \in Key, k # q PROVE CorrType(k)'
    BY <1>0, <2>9, <2>11 DEF Correlations, CorrType
  <2> QED
    BY <2>9, <2>10, <2>11 DEF Correlations
<1>2. CASE Restart
  <2>1. corr' = [k \in Key |-> <<>>]
    BY <1>2 DEF Restart
  <2>2. corr' = [k \in Key |-> corr'[k]] /\ \A k \in Key : corr'[k] = <<>>
    BY <2>1
  <2> QED
    BY <1>0, <2>2, EmptyCorr DEF Correlations
<1>3. ASSUME NEW q \in Key, Forget(q) PROVE Correlations'
  <2>1. corr' = [corr EXCEPT ![q] = <<>>]
    BY <1>3 DEF Forget
  <2>2. corr' = [k \in Key |-> corr'[k]] /\ corr'[q] = <<>>
        /\ \A k \in Key : k # q => corr'[k] = corr[k]
    BY <2>1 DEF Correlations
  <2>3. ASSUME NEW k \in Key, k # q PROVE CorrType(k)'
    BY <1>0, <2>2, <2>3 DEF Correlations, CorrType
  <2> QED
    BY <1>0, <2>2, <2>3, EmptyCorr DEF Correlations
<1>4. CASE corr' = corr
  BY <1>0, <1>4 DEF Correlations, CorrType
<1> QED
  BY <1>1, <1>2, <1>3, <1>4 DEF Next, RceWorker, Worker, vars, engine, Take, Begin, Done, Suppress,
     Export, ProcessAlert, ExportIncident, Publish, Allow, CallFails, Receive, Process, Finish,
     InsertFails, AckLost, FlushBegins, FlushEnds, FlushFails, CleanupBegins, CleanupEnds,
     TimePasses, AckWaitExpires

-----------------------------------------------------------------------------
(* Types: the other variables, and the limit of open incidents *)

Others ==
    /\ suppressed \subseteq Key /\ cleaner \subseteq Key /\ lost \subseteq Key
    /\ seen \subseteq Key /\ dirty \in BOOLEAN /\ alerts \in [Key -> Nat]
    /\ open \subseteq Key /\ IsFiniteSet(open) /\ Cardinality(open) <= MaxOpen

LEMMA NoneOpen ==
    ASSUME NEW S, S = {}
    PROVE  IsFiniteSet(S) /\ Cardinality(S) <= MaxOpen
<1>1. IsFiniteSet(S) /\ Cardinality(S) = 0
  BY FS_EmptySet
<1> QED
  BY <1>1, ConsumeAssumption

LEMMA OthersStep ==
    ASSUME Control, Copies, Others, [Next]_vars
    PROVE  Others'
<1>k. r.pc \notin {"idle", "begin", "rule"} => key \in Key
  BY KeyType DEF Control
<1> USE DEF Others
<1>1. CASE Suppress
  <2>1. /\ key \in Key /\ UNCHANGED <<cleaner, lost, seen, dirty, open>>
        /\ \/ UNCHANGED <<suppressed, alerts>>
           \/ suppressed' = suppressed \cup {key} /\ alerts' = More(alerts, key)
    BY <1>1, <1>k DEF Suppress, incidents, cooldown
  <2>2. alerts' \in [Key -> Nat]
    BY <2>1, MoreType DEF Count
  <2> QED
    BY <2>1, <2>2
<1>2. CASE ProcessAlert
  <2>1. /\ key \in Key /\ UNCHANGED <<suppressed, alerts, cleaner, lost, seen, dirty>>
        /\ \/ open' = open
           \/ key \notin open /\ ~(Cardinality(open) >= MaxOpen) /\ open' = open \cup {key}
    BY <1>2, <1>k DEF ProcessAlert, output, cooldown
  <2>2. MaxOpen \in Nat /\ Cardinality(open) \in Nat
    BY ConsumeAssumption, FS_CardinalityType
  <2>3. CASE key \notin open /\ ~(Cardinality(open) >= MaxOpen) /\ open' = open \cup {key}
    <3>1. PICK k \in Key : k = key
      BY <2>1
    <3>2. IsFiniteSet(open \cup {k}) /\ Cardinality(open \cup {k}) = Cardinality(open) + 1
      BY <2>3, <3>1, FS_AddElement
    <3> QED
      BY <2>1, <2>2, <2>3, <3>1, <3>2
  <2>4. CASE open' = open
    BY <2>1, <2>4
  <2> QED
    BY <2>1, <2>3, <2>4
<1>3. CASE Publish \/ Allow
  <2>1. /\ key \in Key /\ UNCHANGED <<suppressed, alerts, cleaner, lost, open>>
        /\ seen' \in {seen, seen \cup {key}} /\ dirty' \in {dirty, TRUE}
    BY <1>3, <1>k DEF Publish, Allow, output, incidents
  <2> QED
    BY <2>1
<1>4. CASE CallFails
  <2>1. /\ key \in Key /\ UNCHANGED <<suppressed, alerts, cleaner, open, seen, dirty>>
        /\ lost' = lost \cup {key}
    BY <1>4, <1>k DEF CallFails, cooldown
  <2> QED
    BY <2>1
<1>5. CASE FlushBegins \/ FlushEnds \/ FlushFails
  <2>1. UNCHANGED <<suppressed, alerts, cleaner, lost, open, seen>> /\ dirty' \in {dirty, FALSE}
    BY <1>5 DEF FlushBegins, FlushEnds, FlushFails, engine, incidents, output
  <2> QED
    BY <2>1
<1>6. ASSUME NEW k \in Key, CleanupBegins(k) PROVE Others'
  <2>1. /\ UNCHANGED <<suppressed, alerts, lost, seen, dirty>> /\ k \in open
        /\ open' = open \ {k} /\ cleaner' = {k}
    BY <1>6 DEF CleanupBegins, engine, cooldown, output
  <2>2. IsFiniteSet(open \ {k}) /\ Cardinality(open \ {k}) = Cardinality(open) - 1
    BY <2>1, FS_RemoveElement
  <2>3. MaxOpen \in Nat /\ Cardinality(open) \in Nat
    BY ConsumeAssumption, FS_CardinalityType
  <2> QED
    BY <2>1, <2>2, <2>3
<1>7. ASSUME NEW k \in Key, TimePasses(k) PROVE Others'
  <2>1. /\ UNCHANGED <<alerts, cleaner, open, lost, dirty>>
        /\ suppressed' \subseteq suppressed /\ seen' \subseteq seen
    BY <1>7 DEF TimePasses, incidents, output
  <2> QED
    BY <2>1
<1>8. CASE CleanupEnds
  <2>1. /\ UNCHANGED <<suppressed, alerts, open, lost, seen, dirty>> /\ cleaner' = {}
    BY <1>8 DEF CleanupEnds, engine, cooldown, output
  <2> QED
    BY <2>1
<1>9. CASE Restart
  <2>1. /\ suppressed' = {} /\ open' = {} /\ cleaner' = {} /\ seen' = {} /\ dirty' = FALSE
        /\ alerts' = alerts
        /\ lost' = lost \/ (r.pc = "trigger" /\ lost' = lost \cup {key})
    BY <1>9 DEF Restart
  <2>2. IsFiniteSet(open') /\ Cardinality(open') <= MaxOpen
    BY <2>1, NoneOpen
  <2>3. lost' \subseteq Key
    BY <1>k, <2>1
  <2> QED
    BY <2>1, <2>2, <2>3
<1>10. CASE UNCHANGED <<suppressed, alerts, cleaner, lost, open, seen, dirty>>
  BY <1>10
<1> QED
  BY <1>1, <1>2, <1>3, <1>4, <1>5, <1>6, <1>7, <1>8, <1>9, <1>10 DEF Next, RceWorker, Worker,
     vars, engine, incidents, cooldown, output, Take, Begin, Evaluate, Done, Export, ExportIncident,
     Receive, Process, Finish, InsertFails, AckLost, Forget, AckWaitExpires

TypesInv == Correlations /\ Others

LEMMA TypesInit == Init => TypesInv
<1> SUFFICES ASSUME Init PROVE TypesInv
  OBVIOUS
<1>1. corr = [k \in Key |-> <<>>] /\ scene = scene
  BY DEF Init
<1>2. <<>> \in [{} -> Nat] /\ <<>> \in Seq(Nat)
  <2>1. <<>> \in Seq(Nat) /\ Len(<<>>) = 0
    OBVIOUS
  <2>2. <<>> \in [1..0 -> Nat] /\ 1..0 = {}
    BY <2>1
  <2> QED
    BY <2>1, <2>2
<1>3. corr = [k \in Key |-> corr[k]] /\ \A k \in Key : corr[k] = <<>>
  BY <1>1
<1>4. Correlations
  BY <1>2, <1>3 DEF Correlations, CorrType
<1>5. IsFiniteSet(open) /\ Cardinality(open) <= MaxOpen
  BY NoneOpen DEF Init
<1>6. Others
  BY <1>5 DEF Init, Others, None
<1> QED
  BY <1>4, <1>6 DEF TypesInv

LEMMA TypesAlways == Spec => []TypesInv
<1>1. Inv /\ TypesInv /\ [Next]_vars => TypesInv'
  BY CorrelationsStep, OthersStep DEF Inv, TypesInv
<1> QED
  BY <1>1, TypesInit, Invariance, PTL DEF Spec

(* What the goroutines of the consumer share stays consistent: each         *)
(* variable has its type, no more incidents are open than max_open allows,  *)
(* the engine serves one record of a lane at a time and no incident is      *)
(* closed that was not opened.                                              *)
THEOREM ConsumerConsistent == Spec => []Consistent
<1>1. Inv /\ TypesInv => TypeOK
  <2> SUFFICES ASSUME Inv, TypesInv PROVE TypeOK
    OBVIOUS
  <2>1. /\ msg \in [Message -> {"queued", "delivered", "acked"}]
        /\ w \in [Lane -> WorkerType] /\ queue \in Seq(Lane) /\ r \in EngineType
    BY DEF Inv, Control
  <2>2. /\ fresh \subseteq Key /\ file \subseteq Key
        /\ flush \in [pc : {"idle", "write"}, copy : SUBSET Key]
    BY DEF Inv, Copies
  <2>3. {alerts, triggers, opened, closed, ends, forgotten, unlogged} \subseteq [Key -> Nat]
    BY DEF Inv, Numbers, Count, TypesInv, Others
  <2> QED
    BY <2>1, <2>2, <2>3 DEF TypeOK, TypesInv, Others, Correlations, WorkerType, EngineType, Pcs
<1> QED
  BY <1>1, TypesAlways, Invariance, OneRecordAtATime, ClosingsMatched, PTL DEF Consistent
=============================================================================
