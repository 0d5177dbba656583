-------------------------------- MODULE Detector --------------------------------
(***************************************************************************)
(* The detector (cmd/detector-v0): one process takes events from a durable *)
(* consumer, in batches, matches each against its rules, and publishes an  *)
(* alert unless the event is marked in the dedupe bucket or the rule's     *)
(* group is cooling down.  The trackers of the rules are in its memory and *)
(* are lost with it; the buckets and the streams are not.                  *)
(*                                                                         *)
(* Of the rules the four shapes are kept that treat a repeated event       *)
(* differently.  Event times are data; the wall clock shows only in the    *)
(* cooldown, whose end is an action.                                       *)
(***************************************************************************)
EXTENDS Naturals, Sequences, FiniteSets, SequencesExt

CONSTANTS
    Event,              \* the events of the stream
    NoEvent,
    Group,              \* the values of the rules' group keys
    Stream,             \* the contents the stream may have: kind, group, time of each event
    Window, Threshold,  \* of the burst trackers and of the file tracker
    PullBatch,          \* how many messages one fetch returns at most
    AckWaitMayExpire,   \* may AckWait pass while the process holds the message
    MaxCrashes,         \* bound on restarts
    MaxFaults,          \* bound on failed calls and lost acknowledgements
    MaxElapses          \* bound on cooldowns that run out

(* "probe": always matches and escalates to a burst at the threshold;       *)
(* "count": matches at the threshold; "file": matches when the path has not *)
(* just been seen; "quiet": cannot be decoded, matches no rule or has no    *)
(* group.                                                                   *)
Kind == {"probe", "count", "file", "quiet"}
Rule == {"probe", "burst", "count", "file"}

ASSUME DetectorAssumption ==
    /\ NoEvent \notin Event
    /\ IsFiniteSet(Event)
    /\ Stream \subseteq [Event -> [kind : Kind, group : Group, time : Nat]]
    /\ {Window, MaxCrashes, MaxFaults, MaxElapses} \subseteq Nat
    /\ {Threshold, PullBatch} \subseteq Nat \ {0}
    /\ AckWaitMayExpire \in BOOLEAN

VARIABLES
    stream,     \* the events; it never changes
    msg,        \* of each event's message: "queued", "delivered" or "acked"
    batch,      \* the fetched messages that are still to be handled
    h,          \* the handler: its next step, event, rule
    hits,       \* the trackers: of each kind and group, the sightings it has kept
    marks,      \* the dedupe bucket
    cool,       \* the cooldown bucket: "none", "fresh" or "old" of each key
    alerts,     \* the alerts published: of each its rule and the sighting that led to it
    observed,   \* how often the rules have seen each event
    stray,      \* groups with a mark or cooldown left by a handler without an alert
    elapses, unanswered,    \* of each cooldown key: its ends and its failed publications
    crashes, faults

buckets == <<marks, cool>>
ghosts == <<observed, stray, elapses, unanswered>>
counts == <<crashes, faults>>
vars == <<stream, msg, batch, h, hits, buckets, alerts, ghosts, counts>>

-----------------------------------------------------------------------------
Key == Rule \X Group
Idle == [pc |-> "idle", event |-> NoEvent, rule |-> "probe"]
Tracker == (Kind \ {"quiet"}) \X Group

(* A sighting is an event and which time it is that the rules see it; a      *)
(* tracker keeps the time of the event.                                     *)
Sighting == Event \X (Nat \ {0})
Time(s) == stream[s[1]].time

TrackerOf(e) == <<stream[e].kind, stream[e].group>>
KeyOf(rule, e) == <<rule, stream[e].group>>
KeyInHand == KeyOf(h.rule, h.event)

Init ==
    /\ stream \in Stream
    /\ msg = [e \in Event |-> "queued"]
    /\ batch = <<>>
    /\ h = Idle
    /\ hits = [t \in Tracker |-> {}]
    /\ marks = {}
    /\ cool = [k \in Key |-> "none"]
    /\ alerts = {}
    /\ observed = [e \in Event |-> 0]
    /\ stray = {}
    /\ elapses = [k \in Key |-> 0]
    /\ unanswered = [k \in Key |-> 0]
    /\ crashes = 0
    /\ faults = 0

Fault ==
    /\ faults < MaxFaults
    /\ faults' = faults + 1

-----------------------------------------------------------------------------
(* The rules *)

(* Mutant: hits that have left the window are kept. *)
KeptForEver(e) == hits[TrackerOf(e)] \cup {<<e, observed[e] + 1>>}

(* The hits of a burst tracker after e. *)
Kept(e) ==
    {s \in hits[TrackerOf(e)] : Time(s) + Window >= stream[e].time}
        \cup {<<e, observed[e] + 1>>}

(* The threshold is met exactly; more hits are not reported. *)
Burst(e) == Cardinality(Kept(e)) = Threshold

SeenWithin(e) ==
    \E s \in hits[TrackerOf(e)] :
        Time(s) <= stream[e].time /\ stream[e].time <= Time(s) + Window

(* What the trackers keep of e, whether or not it comes to an alert. *)
Observe(e) ==
    [hits EXCEPT ![TrackerOf(e)] =
        IF stream[e].kind # "file" THEN Kept(e)
        ELSE IF SeenWithin(e) THEN @ ELSE {<<e, observed[e] + 1>>}]

(* The rules that match e: none or one. *)
Matches(e) ==
    CASE stream[e].kind = "probe" -> {IF Burst(e) THEN "burst" ELSE "probe"}
      [] stream[e].kind = "count" -> {r \in {"count"} : Burst(e)}
      [] stream[e].kind = "file"  -> {r \in {"file"} : ~SeenWithin(e)}
      [] OTHER -> {}

-----------------------------------------------------------------------------
(* The consumer and handleMessage *)

(* Mutant: a fetch waits for a full batch. *)
FetchFull ==
    /\ h = Idle /\ batch = <<>>
    /\ \E s \in SUBSET {e \in Event : msg[e] = "queued"} :
        /\ Cardinality(s) = PullBatch
        /\ batch' \in SetToSeqs(s)
        /\ msg' = [e \in Event |-> IF e \in s THEN "delivered" ELSE msg[e]]
    /\ UNCHANGED <<stream, h, hits, buckets, alerts, ghosts, counts>>

(* Fetch: some of the queued messages, in the order the server likes. *)
Fetch ==
    /\ h = Idle /\ batch = <<>>
    /\ \E s \in SUBSET {e \in Event : msg[e] = "queued"} :
        /\ s # {} /\ Cardinality(s) <= PullBatch
        /\ batch' \in SetToSeqs(s)
        /\ msg' = [e \in Event |-> IF e \in s THEN "delivered" ELSE msg[e]]
    /\ UNCHANGED <<stream, h, hits, buckets, alerts, ghosts, counts>>

(* The handler decodes the next message and matches it; without a match it  *)
(* goes on to acknowledge it.                                               *)
Match ==
    /\ h = Idle /\ batch # <<>>
    /\ LET e == Head(batch) IN
        /\ h' = IF Matches(e) = {} THEN [pc |-> "ack", event |-> e, rule |-> "probe"]
                ELSE [pc |-> "get", event |-> e, rule |-> CHOOSE r \in Matches(e) : TRUE]
        /\ hits' = IF stream[e].kind = "quiet" THEN hits ELSE Observe(e)
        /\ observed' = [observed EXCEPT ![e] = @ + 1]
    /\ batch' = Tail(batch)
    /\ UNCHANGED <<stream, msg, buckets, alerts, stray, elapses, unanswered, counts>>

Goto(pc) == h' = [h EXCEPT !.pc = pc]

(* The handler returns without an acknowledgement: the message comes again  *)
(* when AckWait has passed.                                                 *)
Return == h' = Idle

CheckDuplicate ==
    /\ h.pc = "get"
    /\ IF h.event \in marks THEN Goto("ack") ELSE Goto("put")
    /\ UNCHANGED <<stream, msg, batch, hits, buckets, alerts, ghosts, counts>>

(* The event is marked before its alert is published. *)
Mark ==
    /\ h.pc = "put"
    /\ marks' = marks \cup {h.event}
    /\ Goto("cooldown")
    /\ UNCHANGED <<stream, msg, batch, hits, cool, alerts, ghosts, counts>>

(* Get or Put of the dedupe bucket fails; the Put may have been stored.     *)
MarkFails ==
    /\ Fault
    /\ \/ h.pc = "get" /\ UNCHANGED <<marks, stray>>
       \/ h.pc = "put" /\ UNCHANGED <<marks, stray>>
       \/ /\ h.pc = "put"
          /\ marks' = marks \cup {h.event}
          /\ stray' = stray \cup {stream[h.event].group}
    /\ Return
    /\ UNCHANGED <<stream, msg, batch, hits, cool, alerts, observed, elapses, unanswered,
                   crashes>>

(* Mutant: the cooldown is not looked at. *)
NoCooldown ==
    /\ h.pc = "cooldown"
    /\ Goto("start")
    /\ UNCHANGED <<stream, msg, batch, hits, buckets, alerts, ghosts, counts>>

(* checkCooldown: in its cooldown the alert is suppressed, and the event    *)
(* stays marked.                                                            *)
CheckCooldown ==
    /\ h.pc = "cooldown"
    /\ IF cool[KeyInHand] = "fresh" THEN Goto("ack") ELSE Goto("start")
    /\ UNCHANGED <<stream, msg, batch, hits, buckets, alerts, ghosts, counts>>

StartCooldown ==
    /\ h.pc = "start"
    /\ cool' = [cool EXCEPT ![KeyInHand] = "fresh"]
    /\ Goto("publish")
    /\ UNCHANGED <<stream, msg, batch, hits, marks, alerts, ghosts, counts>>

(* One of the two calls fails, and the event is unmarked; a Put that has    *)
(* been stored nevertheless leaves the group cooling down.                  *)
CooldownFails ==
    /\ Fault
    /\ h.pc \in {"cooldown", "start"}
    /\ \/ UNCHANGED <<cool, stray>>
       \/ /\ h.pc = "start"
          /\ cool' = [cool EXCEPT ![KeyInHand] = "fresh"]
          /\ stray' = stray \cup {stream[h.event].group}
    /\ Goto("unmark")
    /\ UNCHANGED <<stream, msg, batch, hits, marks, alerts, observed, elapses,
                   unanswered, crashes>>

Published ==
    alerts \cup {[rule |-> h.rule, event |-> h.event, sighting |-> observed[h.event]]}

PublishAlert ==
    /\ h.pc = "publish"
    /\ alerts' = Published
    /\ Goto("ack")
    /\ UNCHANGED <<stream, msg, batch, hits, buckets, ghosts, counts>>

(* Mutant: a failed publication undoes nothing. *)
FailureLeavesMarks ==
    /\ h.pc = "publish"
    /\ Fault
    /\ alerts' \in {alerts, Published}
    /\ unanswered' = [unanswered EXCEPT ![KeyInHand] = @ + 1]
    /\ Return
    /\ UNCHANGED <<stream, msg, batch, hits, buckets, observed, stray, elapses, crashes>>

(* The publication is answered by an error, with or without the alert in    *)
(* the stream: cooldown and mark are taken back.                            *)
PublishFails ==
    /\ h.pc = "publish"
    /\ Fault
    /\ alerts' \in {alerts, Published}
    /\ unanswered' = [unanswered EXCEPT ![KeyInHand] = @ + 1]
    /\ Goto("uncool")
    /\ UNCHANGED <<stream, msg, batch, hits, buckets, observed, stray, elapses, crashes>>

(* Mutant: the value is emptied instead of the key deleted. *)
UncoolEmpties ==
    /\ h.pc = "uncool"
    /\ cool' = [cool EXCEPT ![KeyInHand] = "empty"]
    /\ Goto("unmark")
    /\ UNCHANGED <<stream, msg, batch, hits, marks, alerts, ghosts, counts>>

Uncool ==
    /\ h.pc = "uncool"
    /\ cool' = [cool EXCEPT ![KeyInHand] = "none"]
    /\ Goto("unmark")
    /\ UNCHANGED <<stream, msg, batch, hits, marks, alerts, ghosts, counts>>

Unmark ==
    /\ h.pc = "unmark"
    /\ marks' = marks \ {h.event}
    /\ Return
    /\ UNCHANGED <<stream, msg, batch, hits, cool, alerts, ghosts, counts>>

(* A Delete fails; nobody looks at its error. *)
UndoFails ==
    /\ Fault
    /\ \/ h.pc = "uncool" /\ Goto("unmark")
       \/ h.pc = "unmark" /\ Return
    /\ stray' = stray \cup {stream[h.event].group}
    /\ UNCHANGED <<stream, msg, batch, hits, buckets, alerts, observed, elapses,
                   unanswered, crashes>>

Ack ==
    /\ h.pc = "ack"
    /\ msg' = [msg EXCEPT ![h.event] = "acked"]
    /\ Return
    /\ UNCHANGED <<stream, batch, hits, buckets, alerts, ghosts, counts>>

(* An acknowledgement is not answered: it may be lost. *)
AckLost ==
    /\ h.pc = "ack"
    /\ Fault
    /\ Return
    /\ UNCHANGED <<stream, msg, batch, hits, buckets, alerts, ghosts, crashes>>

-----------------------------------------------------------------------------
(* The server, the clock and the restart *)

Held(e) == h.event = e \/ e \in ToSet(batch)

AckWaitExpires(e) ==
    /\ msg[e] = "delivered"
    /\ Held(e) => AckWaitMayExpire
    /\ msg' = [msg EXCEPT ![e] = "queued"]
    /\ UNCHANGED <<stream, batch, h, hits, buckets, alerts, ghosts, counts>>

ElapsesBounded == FoldFunction(+, 0, elapses) < MaxElapses

CooldownEnds(k) ==
    /\ cool[k] = "fresh"
    /\ ElapsesBounded
    /\ cool' = [cool EXCEPT ![k] = "old"]
    /\ elapses' = [elapses EXCEPT ![k] = @ + 1]
    /\ UNCHANGED <<stream, msg, batch, h, hits, marks, alerts, observed, stray,
                   unanswered, counts>>

(* The process is killed and started again.  A handler that has marked its  *)
(* event, or started a cooldown, leaves that behind.                        *)
Crash ==
    /\ crashes < MaxCrashes
    /\ crashes' = crashes + 1
    /\ stray' = IF h.pc \in {"cooldown", "start", "publish", "uncool", "unmark"}
                THEN stray \cup {stream[h.event].group} ELSE stray
    /\ batch' = <<>>
    /\ h' = Idle
    /\ hits' = [t \in Tracker |-> {}]
    /\ UNCHANGED <<stream, msg, buckets, alerts, observed, elapses, unanswered, faults>>

Handle ==
    \/ Match \/ CheckDuplicate \/ Mark \/ CheckCooldown \/ StartCooldown
    \/ PublishAlert \/ Uncool \/ Unmark \/ Ack

Next ==
    \/ Fetch \/ Handle
    \/ MarkFails \/ CooldownFails \/ PublishFails \/ UndoFails \/ AckLost
    \/ \E e \in Event : AckWaitExpires(e)
    \/ \E k \in Key : CooldownEnds(k)
    \/ Crash

Spec == Init /\ [][Next]_vars

(* The fetch loop runs without pause, and the server delivers what is not   *)
(* acknowledged again.                                                      *)
FairSpec ==
    /\ Spec
    /\ WF_vars(Fetch) /\ WF_vars(Handle)
    /\ \A e \in Event : WF_vars(~Held(e) /\ AckWaitExpires(e))

-----------------------------------------------------------------------------
(* Properties *)

TypeOK ==
    /\ stream \in Stream
    /\ msg \in [Event -> {"queued", "delivered", "acked"}]
    /\ batch \in Seq(Event)
    /\ h \in [pc : {"idle", "get", "put", "cooldown", "start", "publish", "uncool",
                    "unmark", "ack"},
              event : Event \cup {NoEvent}, rule : Rule]
    /\ h.pc # "idle" => h.event \in Event
    /\ hits \in [Tracker -> SUBSET Sighting]
    /\ marks \subseteq Event
    /\ cool \in [Key -> {"none", "fresh", "old"}]
    /\ alerts \subseteq [rule : Rule, event : Event, sighting : Nat]
    /\ observed \in [Event -> Nat]
    /\ stray \subseteq Group
    /\ elapses \in [Key -> Nat]
    /\ unanswered \in [Key -> Nat]
    /\ crashes \in 0..MaxCrashes
    /\ faults \in 0..MaxFaults

AlertsOf(k) == Cardinality({a \in alerts : KeyOf(a.rule, a.event) = k})

(* A rule alerts for a group once, and once more for every cooldown of that *)
(* group that has run out and for every publication answered by an error:   *)
(* neither restarts nor redelivered events nor failed calls of the buckets  *)
(* let an alert past the cooldown.                                          *)
CooldownHolds ==
    \A k \in Key : AlertsOf(k) <= 1 + elapses[k] + unanswered[k]

Alerted(g) == \E a \in alerts : stream[a.event].group = g

(* A probe that the detector is done with, because it is acknowledged or    *)
(* because its mark will have the next delivery acknowledged, has led to an *)
(* alert of its group, unless a handler of that group was killed half-way,  *)
(* or a call that failed, or the undoing after it, left a mark or a         *)
(* cooldown behind.  No single failed look-up or publication loses it.      *)
ProbeRaisesAlert ==
    \A e \in Event :
        /\ stream[e].kind = "probe"
        /\ msg[e] = "acked" \/ (e \in marks /\ h.event # e)
        => Alerted(stream[e].group) \/ stream[e].group \in stray

Near(e) ==
    {f \in Event : /\ TrackerOf(f) = TrackerOf(e)
                   /\ observed[f] > 0
                   /\ stream[f].time + Window >= stream[e].time}

Repeated(e) == Cardinality(Near(e)) >= Threshold \/ \E f \in Near(e) : observed[f] > 1

(* A burst is reported for a group only if as many different events of it,  *)
(* none older than the window before the one that is reported, have been    *)
(* seen, or one of them has been seen twice.                                *)
BurstIsRepeated == \A a \in alerts : a.rule \in {"burst", "count"} => Repeated(a.event)

(* Whatever fails, every event is acknowledged in the end. *)
EveryEventAcked == <>(\A e \in Event : msg[e] = "acked")
=============================================================================
