--------------------------------- MODULE Consume ---------------------------------
(***************************************************************************)
(* The alert consumer (cmd/master-consume).  A worker per lane takes       *)
(* batches from the stream and hands their records, one by one, to the     *)
(* correlation engine (RCE), a single goroutine behind a queue.  The       *)
(* engine keeps correlation state, suppressions and a cooldown in memory,  *)
(* exports alerts and incidents, and publishes triggers.  Two goroutines   *)
(* run beside it: one closes idle incidents, one writes the cooldown to    *)
(* its checkpoint.                                                         *)
(*                                                                         *)
(* The times of records are data.  Of the wall clock only the ends of      *)
(* suppressions, cooldowns and idle times show, as actions.                *)
(***************************************************************************)
EXTENDS Naturals, Sequences, FiniteSets, SequencesExt, FiniteSetsExt

CONSTANTS
    Message, NoMessage,
    LaneOf,             \* the lane of a message
    Group,
    Scene,              \* a set of rules in their order and records of the messages
    MaxRules,
    MaxQueue, HighPct,  \* the engine's queue, and when it is degraded
    MaxOpen,            \* how many incidents may be open
    MaxCrashes,         \* bound on restarts
    MaxFaults,          \* bound on failed calls and lost acknowledgements
    MaxEnds             \* bound on suppressions, cooldowns and incidents that end

Lane == {"FAST", "STANDARD"}
Key == (1..MaxRules) \X Group

(* A count rule has one type and a threshold; a sequence has the types of   *)
(* its steps, a join those of its predicates.                               *)
ASSUME ConsumeAssumption ==
    /\ NoMessage \notin Message
    /\ LaneOf \in [Message -> Lane]
    /\ \A s \in Scene :
        /\ s.rules \in Seq([kind : {"stateless", "count", "sequence", "join", "trigger"},
                            types : Seq(STRING), threshold : Nat, window : Nat])
        /\ Len(s.rules) <= MaxRules
        /\ s.content \in [Message -> Seq([type : STRING, group : Group, time : Nat])]
    /\ {MaxRules, HighPct, MaxOpen, MaxCrashes, MaxFaults, MaxEnds} \subseteq Nat
    /\ MaxQueue \in Nat \ {0}

VARIABLES
    scene,          \* the enabled rules, the records: their type, group and time
    msg,            \* of each message: "queued", "delivered" or "acked"
    w,              \* the lanes' workers
    queue,          \* the lanes whose record waits for the engine
    r,              \* the engine: its next step, the lane it serves, the rule,
                    \* and whether it is degraded for this record
    corr,           \* the times it has correlated, of each rule and group
    suppressed,     \* the alerts that are suppressed now
    open,           \* the open incidents
    cleaner,        \* the incidents that are being closed
    fresh,          \* the triggers in their cooldown, in memory
    dirty,          \* is the checkpoint behind
    flush,          \* the flushing goroutine: its next step and its copy
    file,           \* the cooldowns in the checkpoint
    seen,           \* the triggers that TriggerDedupe remembers
    alerts, triggers,   \* how many have been raised and published, of each key
    opened, closed,     \* how many have been exported, of each key
    ends,           \* the suppressions and cooldowns that have ended, of each key
    forgotten,      \* of each key: restarts with a cooldown not in the checkpoint
    unlogged,       \* of each key: openings whose export failed
    lost,           \* the keys an alert or trigger of which met a failed call or a kill
    crashes, faults

engine == <<queue, r, corr, suppressed>>
incidents == <<open, cleaner, opened, closed, unlogged>>
cooldown == <<fresh, dirty, flush, file, seen, forgotten>>
output == <<alerts, triggers, lost>>
counts == <<scene, ends, crashes, faults>>
vars == <<msg, w, engine, incidents, cooldown, output, counts>>

-----------------------------------------------------------------------------
Resting == [pc |-> "idle", msg |-> NoMessage, idx |-> 1, failed |-> FALSE]
Waiting == [pc |-> "idle", lane |-> "FAST", rule |-> 1, degraded |-> FALSE]
FlushIdle == [pc |-> "idle", copy |-> {}]
None == [k \in Key |-> 0]
More(f, k) == [f EXCEPT ![k] = @ + 1]

Init ==
    /\ scene \in Scene
    /\ msg = [m \in Message |-> "queued"]
    /\ w = [l \in Lane |-> Resting]
    /\ queue = <<>>
    /\ r = Waiting
    /\ corr = [k \in Key |-> <<>>]
    /\ suppressed = {} /\ open = {} /\ cleaner = {}
    /\ fresh = {} /\ dirty = FALSE /\ flush = FlushIdle /\ file = {} /\ seen = {}
    /\ alerts = None /\ triggers = None /\ opened = None /\ closed = None
    /\ ends = None /\ forgotten = None /\ unlogged = None /\ lost = {}
    /\ crashes = 0 /\ faults = 0

Fault ==
    /\ faults < MaxFaults
    /\ faults' = faults + 1

-----------------------------------------------------------------------------
(* runWorker, processMsg, emitNormalizedEvents *)

Records(l) == scene.content[w[l].msg]

Receive(l, m) ==
    /\ w[l].pc = "idle"
    /\ LaneOf[m] = l /\ msg[m] = "queued"
    /\ msg' = [msg EXCEPT ![m] = "delivered"]
    /\ w' = [w EXCEPT ![l] = [pc |-> "record", msg |-> m, idx |-> 1, failed |-> FALSE]]
    /\ UNCHANGED <<engine, incidents, cooldown, output, counts>>

(* RCE.Process: the worker waits until the engine is done with its record. *)
Process(l) ==
    /\ w[l].pc = "record" /\ w[l].idx <= Len(Records(l))
    /\ Len(queue) < MaxQueue
    /\ queue' = Append(queue, l)
    /\ w' = [w EXCEPT ![l].pc = "wait"]
    /\ UNCHANGED <<msg, r, corr, suppressed, incidents, cooldown, output, counts>>

(* Writing the record to the database fails: the rest of the batch is left  *)
(* for its redelivery.                                                      *)
InsertFails(l) ==
    /\ w[l].pc = "record" /\ w[l].idx <= Len(Records(l))
    /\ Fault
    /\ w' = [w EXCEPT ![l] = Resting]
    /\ UNCHANGED <<msg, engine, incidents, cooldown, output, scene, ends, crashes>>

(* Mutant: an error of the engine is ignored. *)
FinishAnyway(l) ==
    /\ w[l].pc = "record" /\ w[l].idx > Len(Records(l))
    /\ msg' = [msg EXCEPT ![w[l].msg] = "acked"]
    /\ w' = [w EXCEPT ![l] = Resting]
    /\ UNCHANGED <<engine, incidents, cooldown, output, counts>>

(* All records are processed: the batch is acknowledged unless the engine   *)
(* reported an error for one of them.                                       *)
Finish(l) ==
    /\ w[l].pc = "record" /\ w[l].idx > Len(Records(l))
    /\ msg' = IF w[l].failed THEN msg ELSE [msg EXCEPT ![w[l].msg] = "acked"]
    /\ w' = [w EXCEPT ![l] = Resting]
    /\ UNCHANGED <<engine, incidents, cooldown, output, counts>>

AckLost(l) ==
    /\ w[l].pc = "record" /\ w[l].idx > Len(Records(l))
    /\ Fault
    /\ w' = [w EXCEPT ![l] = Resting]
    /\ UNCHANGED <<msg, engine, incidents, cooldown, output, scene, ends, crashes>>

-----------------------------------------------------------------------------
(* The correlation engine *)

rule == scene.rules[r.rule]
rec == Records(r.lane)[w[r.lane].idx]
key == <<r.rule, rec.group>>

(* The queue is filled to a percentage of its size. *)
Degraded == (Len(queue) * 100) \div MaxQueue >= HighPct

Take ==
    /\ r.pc = "idle" /\ queue # <<>>
    /\ r' = [Waiting EXCEPT !.pc = "begin", !.lane = Head(queue)]
    /\ queue' = Tail(queue)
    /\ UNCHANGED <<msg, w, corr, suppressed, incidents, cooldown, output, counts>>

(* processRecord looks at the queue once, before the rules. *)
Begin ==
    /\ r.pc = "begin"
    /\ r' = [r EXCEPT !.pc = "rule", !.degraded = Degraded]
    /\ UNCHANGED <<msg, w, queue, corr, suppressed, incidents, cooldown, output, counts>>

Matched(type) == rec.type = type
(* evalCount keeps the times of records.  Of the first ones in the list,    *)
(* those before the window leave it; behind a later time an old one stays.  *)
Counted ==
    LET times == Append(corr[key], rec.time)
        recent == {i \in DOMAIN times : times[i] + rule.window >= rec.time}
    IN SubSeq(times, Min(recent), Len(times))

(* evalSequence: one more step, of a sequence that is begun anew when the   *)
(* window has passed since its first step.                                  *)
Sequenced ==
    LET s == IF corr[key] # <<>> /\ rec.time > corr[key][1] + rule.window
             THEN <<>> ELSE corr[key]
    IN IF Matched(rule.types[Len(s) + 1]) THEN Append(s, rec.time) ELSE s

(* evalJoin keeps the times at which predicates were satisfied, within the  *)
(* window, and adds the first of the others that is.                        *)
Joined ==
    LET s == Restrict(corr[key], {i \in DOMAIN corr[key] :
                                      corr[key][i] + rule.window >= rec.time})
        free == {i \in DOMAIN rule.types \ DOMAIN s : Matched(rule.types[i])}
    IN IF free = {} THEN s
       ELSE [i \in DOMAIN s \cup {Min(free)} |-> IF i \in DOMAIN s THEN s[i] ELSE rec.time]

(* A rule that correlates: what it keeps of the record, and whether that    *)
(* completes it.  A sequence and a join then begin anew.                    *)
Correlated ==
    CASE rule.kind = "count" -> IF Matched(rule.types[1]) THEN Counted ELSE corr[key]
      [] rule.kind = "sequence" -> IF r.degraded THEN corr[key] ELSE Sequenced
      [] rule.kind = "join" -> IF r.degraded THEN corr[key] ELSE Joined
      [] OTHER -> corr[key]

Completed ==
    CASE rule.kind = "count" -> Matched(rule.types[1]) /\ Len(Correlated) >= rule.threshold
      [] rule.kind \in {"sequence", "join"} -> DOMAIN Correlated = DOMAIN rule.types
      [] OTHER -> Matched(rule.types[1])

NextRule == r' = [r EXCEPT !.pc = "rule", !.rule = @ + 1]
Step(pc) == r' = [r EXCEPT !.pc = pc]

Evaluate ==
    /\ r.pc = "rule" /\ r.rule <= Len(scene.rules)
    /\ corr' = [corr EXCEPT ![key] =
                   IF Completed /\ rule.kind \in {"sequence", "join"} THEN <<>> ELSE Correlated]
    /\ IF ~Completed THEN NextRule
       ELSE IF rule.kind = "trigger" THEN Step("allow") ELSE Step("suppress")
    /\ UNCHANGED <<msg, w, queue, suppressed, incidents, cooldown, output, counts>>

(* The engine is done with the record: its worker goes on. *)
Answer(failed) ==
    /\ w' = [w EXCEPT ![r.lane] =
                [pc |-> "record", msg |-> w[r.lane].msg, idx |-> w[r.lane].idx + 1,
                 failed |-> w[r.lane].failed \/ failed]]
    /\ r' = Waiting

Done ==
    /\ r.pc = "rule" /\ r.rule > Len(scene.rules)
    /\ Answer(FALSE)
    /\ UNCHANGED <<msg, queue, corr, suppressed, incidents, cooldown, output, counts>>

(* emitAlert: the alert is recorded as raised before it is exported. *)
Suppress ==
    /\ r.pc = "suppress"
    /\ IF key \in suppressed THEN NextRule /\ UNCHANGED <<suppressed, alerts>>
       ELSE /\ suppressed' = suppressed \cup {key}
            /\ alerts' = More(alerts, key)
            /\ Step("export")
    /\ UNCHANGED <<msg, w, queue, corr, incidents, cooldown, triggers, lost, counts>>

Export ==
    /\ r.pc = "export"
    /\ Step("incident")
    /\ UNCHANGED <<msg, w, queue, corr, suppressed, incidents, cooldown, output, counts>>

(* IncidentManager.ProcessAlert, under its mutex: an incident beyond the    *)
(* limit is not opened.                                                     *)
ProcessAlert ==
    /\ r.pc = "incident"
    /\ IF key \in open THEN Step("update") /\ UNCHANGED open
       ELSE IF Cardinality(open) >= MaxOpen THEN Step("publish") /\ UNCHANGED open
       ELSE open' = open \cup {key} /\ Step("open")
    /\ UNCHANGED <<msg, w, queue, corr, suppressed, cleaner, opened, closed, unlogged,
                   cooldown, output, counts>>

(* The incident is exported after the mutex has been given back. *)
ExportIncident ==
    /\ r.pc \in {"open", "update"}
    /\ opened' = IF r.pc = "open" THEN More(opened, key) ELSE opened
    /\ Step("publish")
    /\ UNCHANGED <<msg, w, queue, corr, suppressed, open, cleaner, closed, unlogged,
                   cooldown, output, counts>>

Publish ==
    /\ r.pc \in {"publish", "trigger"}
    /\ triggers' = More(triggers, key)
    /\ seen' = IF r.pc = "trigger" THEN seen \cup {key} ELSE seen
    /\ NextRule
    /\ UNCHANGED <<msg, w, queue, corr, suppressed, incidents, fresh, dirty, flush, file,
                   forgotten, alerts, lost, counts>>

(* Mutant: the worker is not told of the failure. *)
CallFailsSilently ==
    /\ r.pc \in {"export", "open", "update", "publish", "trigger"}
    /\ Fault
    /\ r' = Waiting
    /\ UNCHANGED <<msg, w, queue, corr, suppressed, incidents, cooldown, output, scene,
                   ends, crashes>>

(* An export or a publication fails, a publication perhaps after the        *)
(* trigger has been stored: the other rules do not see the record, and the  *)
(* batch is not acknowledged.  What the rule has recorded stays.            *)
CallFails ==
    /\ \/ r.pc = "suppress" /\ rule.kind # "stateless"
       \/ r.pc \in {"export", "open", "update", "publish", "trigger"}
    /\ Fault
    /\ triggers' \in {triggers} \cup
          (IF r.pc \in {"publish", "trigger"} THEN {More(triggers, key)} ELSE {})
    /\ unlogged' = IF r.pc = "open" THEN More(unlogged, key) ELSE unlogged
    /\ lost' = lost \cup {key}
    /\ Answer(TRUE)
    /\ UNCHANGED <<msg, queue, corr, suppressed, open, cleaner, opened, closed, cooldown,
                   alerts, scene, ends, crashes>>

(* emitTrigger: CooldownTracker.Allow, then TriggerDedupe.ShouldSuppress,   *)
(* which only this goroutine uses.                                          *)
Allow ==
    /\ r.pc = "allow"
    /\ IF key \in fresh THEN NextRule /\ UNCHANGED <<fresh, dirty>>
       ELSE /\ fresh' = fresh \cup {key}
            /\ dirty' = TRUE
            /\ IF key \in seen THEN NextRule ELSE Step("trigger")
    /\ UNCHANGED <<msg, w, queue, corr, suppressed, incidents, flush, file, seen,
                   forgotten, output, counts>>

-----------------------------------------------------------------------------
(* The goroutines beside the engine, the clock, the server, the restart *)

(* FlushIfDirty copies the cooldowns under the mutex and writes them        *)
(* without; then it clears the dirty mark, whatever has been added.         *)
FlushBegins ==
    /\ flush.pc = "idle" /\ dirty
    /\ flush' = [pc |-> "write", copy |-> fresh]
    /\ UNCHANGED <<msg, w, engine, incidents, fresh, dirty, file, seen, forgotten,
                   output, counts>>

FlushEnds ==
    /\ flush.pc = "write"
    /\ file' = flush.copy
    /\ dirty' = FALSE
    /\ flush' = FlushIdle
    /\ UNCHANGED <<msg, w, engine, incidents, fresh, seen, forgotten, output, counts>>

FlushFails ==
    /\ flush.pc = "write"
    /\ Fault
    /\ flush' = FlushIdle
    /\ UNCHANGED <<msg, w, engine, incidents, fresh, dirty, file, seen, forgotten, output,
                   scene, ends, crashes>>

(* Mutant: the incident stays in the map. *)
CleanupKeeps(k) ==
    /\ cleaner = {}
    /\ k \in open
    /\ ~(r.pc \in {"open", "update"} /\ key = k)
    /\ FoldFunction(+, 0, ends) < MaxEnds
    /\ ends' = More(ends, k)
    /\ cleaner' = {k}
    /\ UNCHANGED <<msg, w, engine, open, opened, closed, unlogged, cooldown, output,
                   crashes, faults, scene>>

(* IncidentManager.cleanup takes an idle incident out of the map under the  *)
(* mutex and exports it as closed later.  Exporting an update takes less    *)
(* than the time after which an incident is idle.                           *)
CleanupBegins(k) ==
    /\ cleaner = {}
    /\ k \in open
    /\ ~(r.pc \in {"open", "update"} /\ key = k)
    /\ FoldFunction(+, 0, ends) < MaxEnds
    /\ ends' = More(ends, k)
    /\ open' = open \ {k}
    /\ cleaner' = {k}
    /\ UNCHANGED <<msg, w, engine, opened, closed, unlogged, cooldown, output, crashes,
                   faults, scene>>

(* A failed export of a closing is ignored. *)
CleanupEnds ==
    /\ cleaner # {}
    /\ \/ closed' = [k \in Key |-> IF k \in cleaner THEN closed[k] + 1 ELSE closed[k]]
          /\ UNCHANGED faults
       \/ Fault /\ UNCHANGED closed
    /\ cleaner' = {}
    /\ UNCHANGED <<msg, w, engine, open, opened, unlogged, cooldown, output, scene, ends,
                   crashes>>

(* RCE.cleanup: correlation state that has not been used for a while. *)
Forget(k) ==
    /\ corr[k] # <<>>
    /\ corr' = [corr EXCEPT ![k] = <<>>]
    /\ UNCHANGED <<msg, w, queue, r, suppressed, incidents, cooldown, output, counts>>

(* The cooldown of an alert is over, or its key's time bucket; the cooldown *)
(* of a trigger, wherever its time is kept; or the trigger's TTL.           *)
TimePasses(k) ==
    /\ FoldFunction(+, 0, ends) < MaxEnds
    /\ ends' = More(ends, k)
    /\ \/ /\ k \in suppressed
          /\ suppressed' = suppressed \ {k}
          /\ UNCHANGED <<fresh, file, flush, seen>>
       \/ /\ k \in fresh \cup file
          /\ fresh' = fresh \ {k}
          /\ file' = file \ {k}
          /\ flush' = [flush EXCEPT !.copy = @ \ {k}]
          /\ UNCHANGED <<suppressed, seen>>
       \/ /\ k \in seen
          /\ seen' = seen \ {k}
          /\ UNCHANGED <<suppressed, fresh, file, flush>>
    /\ UNCHANGED <<msg, w, queue, r, corr, incidents, dirty, forgotten, output,
                   crashes, faults, scene>>

AckWaitExpires(m) ==
    /\ msg[m] = "delivered"
    /\ w[LaneOf[m]].msg # m
    /\ msg' = [msg EXCEPT ![m] = "queued"]
    /\ UNCHANGED <<w, engine, incidents, cooldown, output, counts>>

(* Mutant: the checkpoint is not read. *)
RestartCold ==
    /\ crashes < MaxCrashes
    /\ crashes' = crashes + 1
    /\ forgotten' = [k \in Key |-> forgotten[k] + IF k \in fresh \ file THEN 1 ELSE 0]
    /\ w' = [l \in Lane |-> Resting]
    /\ queue' = <<>> /\ r' = Waiting
    /\ corr' = [k \in Key |-> <<>>]
    /\ suppressed' = {} /\ open' = {} /\ cleaner' = {} /\ seen' = {}
    /\ fresh' = {} /\ dirty' = FALSE /\ flush' = FlushIdle
    /\ lost' = lost \cup (IF r.pc = "trigger" /\ key \in file THEN {key} ELSE {})
    /\ UNCHANGED <<msg, opened, closed, unlogged, file, alerts, triggers, scene, ends,
                   faults>>

(* The process is killed and started again; LoadFrom reads the checkpoint.  *)
Restart ==
    /\ crashes < MaxCrashes
    /\ crashes' = crashes + 1
    /\ forgotten' = [k \in Key |-> forgotten[k] + IF k \in fresh \ file THEN 1 ELSE 0]
    /\ w' = [l \in Lane |-> Resting]
    /\ queue' = <<>> /\ r' = Waiting
    /\ corr' = [k \in Key |-> <<>>]
    /\ suppressed' = {} /\ open' = {} /\ cleaner' = {} /\ seen' = {}
    /\ fresh' = file /\ dirty' = FALSE /\ flush' = FlushIdle
    /\ lost' = lost \cup (IF r.pc = "trigger" /\ key \in file THEN {key} ELSE {})
    /\ UNCHANGED <<msg, opened, closed, unlogged, file, alerts, triggers, scene, ends,
                   faults>>

RceWorker ==
    \/ Take \/ Begin \/ Evaluate \/ Done \/ Suppress \/ Export \/ ProcessAlert
    \/ ExportIncident \/ Publish \/ Allow

Worker(l) == (\E m \in Message : Receive(l, m)) \/ Process(l) \/ Finish(l)

Next ==
    \/ RceWorker \/ CallFails
    \/ \E l \in Lane : Worker(l) \/ InsertFails(l) \/ AckLost(l)
    \/ FlushBegins \/ FlushEnds \/ FlushFails \/ CleanupEnds
    \/ \E k \in Key : CleanupBegins(k) \/ Forget(k) \/ TimePasses(k)
    \/ \E m \in Message : AckWaitExpires(m)
    \/ Restart

Spec == Init /\ [][Next]_vars

FairSpec ==
    /\ Spec
    /\ WF_vars(RceWorker)
    /\ \A l \in Lane : WF_vars(Worker(l))
    /\ \A m \in Message : WF_vars(AckWaitExpires(m))

-----------------------------------------------------------------------------
(* Properties *)

(* The times of a count and of the steps of a sequence are a list; those of *)
(* a join belong to its predicates.                                         *)
CorrType(k) ==
    IF k[1] \in DOMAIN scene.rules /\ scene.rules[k[1]].kind = "join"
    THEN \E I \in SUBSET DOMAIN scene.rules[k[1]].types : corr[k] \in [I -> Nat]
    ELSE corr[k] \in Seq(Nat)

TypeOK ==
    /\ msg \in [Message -> {"queued", "delivered", "acked"}]
    /\ w \in [Lane -> [pc : {"idle", "record", "wait"}, msg : Message \cup {NoMessage},
                       idx : Nat, failed : BOOLEAN]]
    /\ queue \in Seq(Lane)
    /\ r \in [pc : {"idle", "begin", "rule", "suppress", "export", "incident", "open",
                    "update", "publish", "allow", "trigger"},
               lane : Lane, rule : Nat, degraded : BOOLEAN]
    /\ corr = [k \in Key |-> corr[k]] /\ \A k \in Key : CorrType(k)
    /\ suppressed \subseteq Key /\ open \subseteq Key /\ cleaner \subseteq Key
    /\ Cardinality(open) <= MaxOpen
    /\ lost \subseteq Key
    /\ fresh \subseteq Key /\ file \subseteq Key /\ seen \subseteq Key
    /\ dirty \in BOOLEAN
    /\ flush \in [pc : {"idle", "write"}, copy : SUBSET Key]
    /\ {alerts, triggers, opened, closed, ends, forgotten, unlogged} \subseteq [Key -> Nat]

(* One record at a time: the engine serves a lane that waits for it, and    *)
(* every waiting lane is served or in the queue, once.                      *)
OneRecordEach ==
    \A l \in Lane :
        (w[l].pc = "wait") = (Cardinality({i \in DOMAIN queue : queue[i] = l})
                              + (IF r.pc # "idle" /\ r.lane = l THEN 1 ELSE 0) = 1)

(* A trigger rule publishes for a group once, and once more for every       *)
(* cooldown that has run out and every restart that found the cooldown      *)
(* missing in the checkpoint; redelivered batches and failed calls add      *)
(* nothing.                                                                 *)
CooldownSurvives ==
    \A k \in Key : k[1] <= Len(scene.rules) /\ scene.rules[k[1]].kind = "trigger" =>
        triggers[k] <= 1 + ends[k] + forgotten[k]

(* An acknowledged batch has been answered by the rules that match one      *)
(* record: each has published its trigger for the group, then or before,    *)
(* unless a call of its own failed or the process was killed between its    *)
(* cooldown and its publication.  Another rule's failure, or a record's     *)
(* place in its batch, loses none.                                          *)
AckedIsAnswered ==
    \A m \in Message : msg[m] = "acked" =>
        \A i \in DOMAIN scene.content[m], k \in DOMAIN scene.rules :
            LET a == scene.content[m][i] IN
            /\ scene.rules[k].kind \in {"stateless", "trigger"}
            /\ a.type = scene.rules[k].types[1]
            => triggers[<<k, a.group>>] > 0 \/ <<k, a.group>> \in lost

(* No incident is exported as closed more often than it has been exported   *)
(* as opened, or could not be.                                              *)
ClosedWasOpened == \A k \in Key : closed[k] <= opened[k] + unlogged[k]

(* The engine and the incidents: types and the limit of open incidents, one *)
(* record of a lane at a time, and no closing without an opening.           *)
Consistent == TypeOK /\ OneRecordEach /\ ClosedWasOpened

(* Whatever fails, every batch is acknowledged in the end. *)
EveryBatchAcked == <>(\A m \in Message : msg[m] = "acked")
=============================================================================
