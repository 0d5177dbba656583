---------------------------- MODULE DetectorProofs ----------------------------
(***************************************************************************)
(* Proofs about Detector: what the state holds (TypeCorrect), that neither *)
(* restarts nor redelivered events let an alert past the cooldown          *)
(* (CooldownCorrect), that an acknowledged or marked probe has raised its  *)
(* alert (ProbesAlerted), and that a burst is a real one (BurstsReal).     *)
(***************************************************************************)
EXTENDS Detector, FiniteSetTheorems, TLAPS

-----------------------------------------------------------------------------
(* The data *)

LEMMA StreamFacts ==
    ASSUME NEW s \in Stream, NEW e \in Event
    PROVE  s[e].kind \in Kind /\ s[e].group \in Group /\ s[e].time \in Nat
BY DetectorAssumption

LEMMA EventFacts ==
    ASSUME TypeOK, NEW e \in Event
    PROVE  /\ stream[e].kind \in Kind /\ stream[e].group \in Group /\ stream[e].time \in Nat
           /\ \A r \in Rule : KeyOf(r, e) \in Key
           /\ stream[e].kind # "quiet" => TrackerOf(e) \in Tracker
           /\ observed[e] \in Nat
BY StreamFacts DEF TypeOK, KeyOf, Key, TrackerOf, Tracker

(* The sequences of a fetch are sequences of events.                        *)
LEMMA BatchIsSequence ==
    ASSUME NEW s \in SUBSET Event, NEW b \in SetToSeqs(s)
    PROVE  b \in Seq(Event)
<1>1. IsFiniteSet(s)
  BY DetectorAssumption, FS_Subset
<1>2. Cardinality(s) \in Nat
  BY <1>1, FS_CardinalityType
<1>3. b \in [1..Cardinality(s) -> s]
  BY DEF SetToSeqs
<1>4. b \in Seq(s)
  BY <1>2, <1>3
<1> QED
  BY <1>4

-----------------------------------------------------------------------------
(* Types *)

(* The rule in hand is one that matches the event.                          *)
LEMMA MatchIsRule ==
    ASSUME NEW e \in Event, Matches(e) # {}
    PROVE  (CHOOSE r \in Matches(e) : TRUE) \in Matches(e) /\ Matches(e) \subseteq Rule
BY DEF Matches, Rule

LEMMA ObserveType ==
    ASSUME TypeOK, NEW e \in Event, stream[e].kind # "quiet"
    PROVE  Observe(e) \in [Tracker -> SUBSET Sighting]
<1>1. <<e, observed[e] + 1>> \in Sighting
  BY EventFacts DEF Sighting
<1>2. hits[TrackerOf(e)] \in SUBSET Sighting
  BY EventFacts DEF TypeOK
<1>3. Kept(e) \in SUBSET Sighting
  BY <1>1, <1>2 DEF Kept
<1>4. (IF stream[e].kind # "file" THEN Kept(e)
       ELSE IF SeenWithin(e) THEN hits[TrackerOf(e)] ELSE {<<e, observed[e] + 1>>})
         \in SUBSET Sighting
  BY <1>1, <1>2, <1>3
<1> QED
  BY <1>4 DEF Observe, TypeOK

LEMMA TypeInit == Init => TypeOK
BY DetectorAssumption DEF Init, TypeOK, Idle, Rule, Sighting

LEMMA TypeMatch == TypeOK /\ Match => TypeOK'
<1> SUFFICES ASSUME TypeOK, Match
             PROVE  TypeOK'
  OBVIOUS
<1> DEFINE e == Head(batch)
<1>1. e \in Event /\ batch' \in Seq(Event)
  BY DEF Match, TypeOK
<1>2. h' \in [pc : {"get", "ack"}, event : {e}, rule : Rule]
  BY <1>1, MatchIsRule DEF Match, Rule
<1>3. hits' \in [Tracker -> SUBSET Sighting]
  BY <1>1, ObserveType DEF Match, TypeOK
<1>4. observed' \in [Event -> Nat]
  BY <1>1 DEF Match, TypeOK
<1> QED
  BY <1>1, <1>2, <1>3, <1>4 DEF Match, TypeOK, buckets, counts

LEMMA TypeStep == TypeOK /\ [Next]_vars => TypeOK'
<1> SUFFICES ASSUME TypeOK, [Next]_vars
             PROVE  TypeOK'
  OBVIOUS
<1>0. h.pc # "idle" => h.event \in Event /\ KeyInHand \in Key /\ stream[h.event].group \in Group
                         /\ observed[h.event] \in Nat
  BY EventFacts DEF TypeOK, KeyInHand
<1> USE DEF TypeOK, buckets, ghosts, counts
<1>f. Fault => faults' \in 0..MaxFaults
  BY DetectorAssumption DEF Fault
<1>p. h.pc = "publish" => Published \subseteq [rule : Rule, event : Event, sighting : Nat]
  BY <1>0 DEF Published
<1>i. Idle \in [pc : {"idle"}, event : {NoEvent}, rule : Rule]
  BY DEF Idle, Rule
<1>1. CASE Fetch
  BY <1>1, BatchIsSequence DEF Fetch
<1>2. CASE Match
  BY <1>2, TypeMatch
<1>3. CASE CheckDuplicate
  BY <1>3 DEF CheckDuplicate, Goto
<1>4. CASE Mark
  BY <1>0, <1>4 DEF Mark, Goto
<1>5. CASE CheckCooldown
  BY <1>5 DEF CheckCooldown, Goto
<1>6. CASE StartCooldown
  BY <1>0, <1>6 DEF StartCooldown, Goto
<1>7. CASE PublishAlert
  BY <1>0, <1>p, <1>7 DEF PublishAlert, Goto
<1>8. CASE Uncool
  BY <1>0, <1>8 DEF Uncool, Goto
<1>9. CASE Unmark
  BY <1>i, <1>9 DEF Unmark, Return
<1>10. CASE Ack
  BY <1>i, <1>10 DEF Ack, Return
<1>11. CASE MarkFails
  BY <1>0, <1>f, <1>i, <1>11 DEF MarkFails, Return
<1>12. CASE CooldownFails
  BY <1>0, <1>f, <1>12 DEF CooldownFails, Goto
<1>13. CASE PublishFails
  <2>1. alerts' \subseteq [rule : Rule, event : Event, sighting : Nat]
    BY <1>p, <1>13 DEF PublishFails
  <2>2. unanswered' \in [Key -> Nat] /\ faults' \in 0..MaxFaults
    BY <1>0, <1>f, <1>13 DEF PublishFails
  <2> QED
    BY <1>0, <1>13, <2>1, <2>2 DEF PublishFails, Goto
<1>14. CASE UndoFails
  BY <1>0, <1>f, <1>i, <1>14 DEF UndoFails, Return, Goto
<1>15. CASE AckLost
  BY <1>f, <1>i, <1>15 DEF AckLost, Return
<1>16. CASE \E e \in Event : AckWaitExpires(e)
  BY <1>16 DEF AckWaitExpires
<1>17. CASE \E k \in Key : CooldownEnds(k)
  BY <1>17 DEF CooldownEnds
<1>18. CASE Crash
  <2>1. crashes' \in 0..MaxCrashes
    BY <1>18, DetectorAssumption DEF Crash
  <2>2. hits' \in [Tracker -> SUBSET Sighting]
    BY <1>18 DEF Crash
  <2>3. stray' \subseteq Group
    BY <1>0, <1>18 DEF Crash
  <2> QED
    BY <1>i, <1>18, <2>1, <2>2, <2>3 DEF Crash
<1>19. CASE UNCHANGED vars
  BY <1>19 DEF vars
<1> QED
  BY <1>1, <1>2, <1>3, <1>4, <1>5, <1>6, <1>7, <1>8, <1>9, <1>10, <1>11, <1>12, <1>13, <1>14,
     <1>15, <1>16, <1>17, <1>18, <1>19 DEF Next, Handle

(* TypeOK, for every number of events, rules' groups, crashes and faults:   *)
(* the handler holds an event of the stream in every step of its work.      *)
THEOREM TypeCorrect == Spec => []TypeOK
BY TypeInit, TypeStep, PTL DEF Spec

-----------------------------------------------------------------------------
(* The cooldown *)

(* What a group may have had beyond its first alert.                        *)
Spent(k) == elapses[k] + unanswered[k]

(* The alert that a running cooldown stands for, and the one that the       *)
(* handler is about to publish.                                             *)
Fresh(k) == IF cool[k] = "fresh" THEN 1 ELSE 0
Claimed(k) == IF h.pc = "publish" /\ KeyInHand = k THEN 1 ELSE 0

(* Every alert of a group is paid for: by a cooldown that has run out, by a *)
(* publication answered by an error, or by the cooldown that is running.    *)
(* The alert about to be published is paid for as well; before it starts    *)
(* the cooldown the handler has found none running, and while the cooldown  *)
(* is being taken back it does not stand for an alert.                      *)
CooldownInv ==
    /\ IsFiniteSet(alerts)
    /\ \A k \in Key : AlertsOf(k) + Claimed(k) <= Spent(k) + Fresh(k)
    /\ h.pc = "start" => cool[KeyInHand] # "fresh"
    /\ h.pc = "uncool" => AlertsOf(KeyInHand) <= Spent(KeyInHand)

LEMMA AlertsOfType ==
    ASSUME IsFiniteSet(alerts), NEW k
    PROVE  AlertsOf(k) \in Nat
<1>1. IsFiniteSet({a \in alerts : KeyOf(a.rule, a.event) = k})
  BY FS_Subset
<1> QED
  BY <1>1, FS_CardinalityType DEF AlertsOf

LEMMA NumbersType ==
    ASSUME TypeOK, NEW k \in Key
    PROVE  /\ elapses[k] \in Nat /\ unanswered[k] \in Nat /\ Spent(k) \in Nat
           /\ Fresh(k) \in {0, 1} /\ Claimed(k) \in {0, 1}
BY DEF TypeOK, Spent, Fresh, Claimed

(* One more alert counts once, for the key in hand.                         *)
LEMMA PublishedCounts ==
    ASSUME TypeOK, IsFiniteSet(alerts), alerts' = Published, stream' = stream, NEW k \in Key
    PROVE  /\ IsFiniteSet(alerts')
           /\ AlertsOf(k)' \in Nat /\ AlertsOf(k)' <= AlertsOf(k) + 1
           /\ k # KeyInHand => AlertsOf(k)' = AlertsOf(k)
<1> DEFINE a0 == [rule |-> h.rule, event |-> h.event, sighting |-> observed[h.event]]
           A == {a \in alerts : KeyOf(a.rule, a.event) = k}
           B == {a \in alerts' : KeyOf(a.rule, a.event)' = k}
<1>1. alerts' = alerts \cup {a0}
  BY DEF Published
<1>2. KeyOf(a0.rule, a0.event) = KeyInHand
  BY DEF KeyInHand
<1>3. \A r, e : KeyOf(r, e)' = KeyOf(r, e)
  BY DEF KeyOf
<1>4. B = IF KeyInHand = k THEN A \cup {a0} ELSE A
  <2> HIDE DEF a0
  <2> QED
    BY <1>1, <1>2, <1>3
<1>5. IsFiniteSet(A) /\ IsFiniteSet(alerts')
  BY <1>1, FS_Subset, FS_AddElement
<1>6. Cardinality(A) \in Nat
  BY <1>5, FS_CardinalityType
<1>7. /\ AlertsOf(k) = Cardinality(A)
      /\ AlertsOf(k)' = Cardinality(B)
  BY DEF AlertsOf
<1> HIDE DEF A, B, a0
<1>8. Cardinality(A \cup {a0}) \in {Cardinality(A), Cardinality(A) + 1}
  BY <1>5, FS_AddElement
<1> QED
  BY <1>4, <1>5, <1>6, <1>7, <1>8

(* A step that leaves the bucket of the cooldowns, the alerts and the       *)
(* numbers alone preserves the invariant when the handler does not go to a  *)
(* step of which it says more.                                              *)
LEMMA CooldownFrame ==
    ASSUME TypeOK, CooldownInv,
           UNCHANGED <<stream, cool, alerts, elapses, unanswered>>,
           \/ UNCHANGED h
           \/ h'.pc \notin {"start", "publish", "uncool"}
    PROVE  CooldownInv'
<1>1. \A k : AlertsOf(k)' = AlertsOf(k)
  BY DEF AlertsOf, KeyOf
<1>2. \A k \in Key : Spent(k)' = Spent(k) /\ Fresh(k)' = Fresh(k)
  BY DEF Spent, Fresh
<1>3. \A k \in Key : Claimed(k)' <= Claimed(k) /\ Claimed(k)' \in {0, 1}
  BY DEF Claimed, KeyInHand, KeyOf
<1>4. \A k \in Key : AlertsOf(k)' + Claimed(k)' <= Spent(k)' + Fresh(k)'
  BY <1>1, <1>2, <1>3, NumbersType, AlertsOfType DEF CooldownInv
<1>5. UNCHANGED h => KeyInHand' = KeyInHand
  BY DEF KeyInHand, KeyOf
<1>6. h'.pc = "start" => (cool[KeyInHand])' # "fresh"
  BY <1>5 DEF CooldownInv
<1>7. h'.pc = "uncool" => AlertsOf(KeyInHand)' <= Spent(KeyInHand)'
  <2>1. UNCHANGED h => Spent(KeyInHand)' = Spent(KeyInHand)
    BY <1>5 DEF Spent
  <2>2. UNCHANGED h => AlertsOf(KeyInHand)' = AlertsOf(KeyInHand)
    BY <1>5 DEF AlertsOf, KeyOf
  <2> QED
    BY <2>1, <2>2 DEF CooldownInv
<1> QED
  BY <1>4, <1>6, <1>7 DEF CooldownInv

(* The handler goes on to another step with its event and rule.             *)
LEMMA SameKey ==
    ASSUME TypeOK, stream' = stream, NEW pc, Goto(pc)
    PROVE  h'.pc = pc /\ KeyInHand' = KeyInHand
BY DEF TypeOK, Goto, KeyInHand, KeyOf

LEMMA KeyInHandType ==
    ASSUME TypeOK, h.pc # "idle"
    PROVE  KeyInHand \in Key
BY EventFacts DEF TypeOK, KeyInHand

LEMMA CooldownRead == TypeOK /\ CooldownInv /\ CheckCooldown => CooldownInv'
<1> SUFFICES ASSUME TypeOK, CooldownInv, CheckCooldown
             PROVE  CooldownInv'
  OBVIOUS
<1>1. UNCHANGED <<stream, cool, alerts, elapses, unanswered>>
  BY DEF CheckCooldown, buckets, ghosts
<1>2. CASE cool[KeyInHand] = "fresh"
  <2>1. h'.pc = "ack"
    BY <1>1, <1>2, SameKey DEF CheckCooldown
  <2> QED
    BY <1>1, <2>1, CooldownFrame
<1>3. CASE cool[KeyInHand] # "fresh"
  <2>1. h'.pc = "start" /\ KeyInHand' = KeyInHand
    BY <1>1, <1>3, SameKey DEF CheckCooldown
  <2>2. \A k : AlertsOf(k)' = AlertsOf(k)
    BY <1>1 DEF AlertsOf, KeyOf
  <2>3. \A k \in Key : Spent(k)' = Spent(k) /\ Fresh(k)' = Fresh(k)
    BY <1>1 DEF Spent, Fresh
  <2>4. \A k \in Key : Claimed(k)' = 0 /\ Claimed(k) \in {0, 1}
    BY <2>1 DEF Claimed
  <2>5. \A k \in Key : AlertsOf(k)' + Claimed(k)' <= Spent(k)' + Fresh(k)'
    BY <2>2, <2>3, <2>4, NumbersType, AlertsOfType DEF CooldownInv
  <2> QED
    BY <1>1, <1>3, <2>1, <2>5 DEF CooldownInv
<1> QED
  BY <1>2, <1>3

(* The cooldown pays for the alert that is about to be published.           *)
LEMMA CooldownStarted == TypeOK /\ CooldownInv /\ StartCooldown => CooldownInv'
<1> SUFFICES ASSUME TypeOK, CooldownInv, StartCooldown
             PROVE  CooldownInv'
  OBVIOUS
<1>1. UNCHANGED <<stream, alerts, elapses, unanswered>>
  BY DEF StartCooldown, ghosts
<1>2. h'.pc = "publish" /\ KeyInHand' = KeyInHand /\ KeyInHand \in Key
  BY <1>1, SameKey, KeyInHandType DEF StartCooldown
<1>3. \A k : AlertsOf(k)' = AlertsOf(k)
  BY <1>1 DEF AlertsOf, KeyOf
<1>4. \A k \in Key : Spent(k)' = Spent(k)
  BY <1>1 DEF Spent
<1>5. ASSUME NEW k \in Key
      PROVE  AlertsOf(k)' + Claimed(k)' <= Spent(k)' + Fresh(k)'
  <2>0. AlertsOf(k) + Claimed(k) <= Spent(k) + Fresh(k)
    BY DEF CooldownInv
  <2>1. CASE k = KeyInHand
    <3>1. Fresh(k) = 0 /\ Claimed(k) = 0
      BY <2>1 DEF CooldownInv, StartCooldown, Fresh, Claimed
    <3>2. Fresh(k)' = 1 /\ Claimed(k)' = 1
      BY <1>2, <2>1 DEF StartCooldown, Fresh, Claimed, TypeOK
    <3> QED
      BY <1>3, <1>4, <2>0, <3>1, <3>2, NumbersType, AlertsOfType DEF CooldownInv
  <2>2. CASE k # KeyInHand
    <3>1. Fresh(k)' = Fresh(k) /\ Claimed(k)' = 0 /\ Claimed(k) = 0
      BY <1>2, <2>2 DEF StartCooldown, Fresh, Claimed, TypeOK
    <3> QED
      BY <1>3, <1>4, <2>0, <3>1
  <2> QED
    BY <2>1, <2>2
<1> QED
  BY <1>1, <1>2, <1>5 DEF CooldownInv

(* A cooldown that runs out has paid for one alert more.                    *)
LEMMA CooldownRunsOut == \A k \in Key : TypeOK /\ CooldownInv /\ CooldownEnds(k) => CooldownInv'
<1> SUFFICES ASSUME NEW c \in Key, TypeOK, CooldownInv, CooldownEnds(c)
             PROVE  CooldownInv'
  OBVIOUS
<1>1. UNCHANGED <<stream, h, alerts, unanswered>> /\ cool[c] = "fresh"
  BY DEF CooldownEnds
<1>2. KeyInHand' = KeyInHand
  BY <1>1 DEF KeyInHand, KeyOf
<1>3. \A k : AlertsOf(k)' = AlertsOf(k)
  BY <1>1 DEF AlertsOf, KeyOf
<1>4. \A k \in Key : Claimed(k)' = Claimed(k)
  BY <1>1, <1>2 DEF Claimed
<1>5. \A k \in Key : /\ k = c => Spent(k)' = Spent(k) + 1 /\ Fresh(k)' = 0 /\ Fresh(k) = 1
                     /\ k # c => Spent(k)' = Spent(k) /\ Fresh(k)' = Fresh(k)
  BY <1>1 DEF CooldownEnds, Spent, Fresh, TypeOK
<1>6. ASSUME NEW k \in Key
      PROVE  AlertsOf(k)' + Claimed(k)' <= Spent(k)' + Fresh(k)'
  BY <1>3, <1>4, <1>5, NumbersType, AlertsOfType DEF CooldownInv
<1>7. h'.pc = "start" => (cool[KeyInHand])' # "fresh"
  BY <1>1, <1>2, KeyInHandType DEF CooldownEnds, CooldownInv, TypeOK
<1>8. h'.pc = "uncool" => AlertsOf(KeyInHand)' <= Spent(KeyInHand)'
  <2>1. SUFFICES ASSUME h.pc = "uncool"
                 PROVE  AlertsOf(KeyInHand)' <= Spent(KeyInHand)'
    BY <1>1
  <2>2. KeyInHand \in Key
    BY <2>1, KeyInHandType
  <2>3. Spent(KeyInHand)' \in {Spent(KeyInHand), Spent(KeyInHand) + 1}
    <3>1. Spent(KeyInHand)' = elapses'[KeyInHand] + unanswered'[KeyInHand]
      BY <1>2 DEF Spent
    <3> QED
      BY <1>1, <2>2, <3>1 DEF Spent, CooldownEnds, TypeOK
  <2>4. AlertsOf(KeyInHand)' = AlertsOf(KeyInHand)
    BY <1>1, <1>2 DEF AlertsOf, KeyOf
  <2> QED
    BY <2>1, <2>2, <2>3, <2>4, NumbersType, AlertsOfType DEF CooldownInv
<1> QED
  BY <1>1, <1>6, <1>7, <1>8 DEF CooldownInv

(* A Put that fails but is stored leaves a cooldown without an alert.       *)
LEMMA CooldownFailed == TypeOK /\ CooldownInv /\ CooldownFails => CooldownInv'
<1> SUFFICES ASSUME TypeOK, CooldownInv, CooldownFails
             PROVE  CooldownInv'
  OBVIOUS
<1>1. UNCHANGED <<stream, alerts, elapses, unanswered>>
  BY DEF CooldownFails
<1>2. h'.pc = "unmark"
  BY <1>1, SameKey DEF CooldownFails
<1>3. \A k \in Key : AlertsOf(k)' = AlertsOf(k) /\ Spent(k)' = Spent(k) /\ Claimed(k)' = 0
  BY <1>1, <1>2 DEF AlertsOf, KeyOf, Spent, Claimed
<1>4. \A k \in Key : Fresh(k)' \in {0, 1} /\ Fresh(k)' >= Fresh(k)
  BY DEF CooldownFails, Fresh, TypeOK
<1>5. \A k \in Key : AlertsOf(k)' + Claimed(k)' <= Spent(k)' + Fresh(k)'
  BY <1>3, <1>4, NumbersType, AlertsOfType DEF CooldownInv
<1> QED
  BY <1>1, <1>2, <1>5 DEF CooldownInv

LEMMA AlertCounted == TypeOK /\ CooldownInv /\ PublishAlert => CooldownInv'
<1> SUFFICES ASSUME TypeOK, CooldownInv, PublishAlert
             PROVE  CooldownInv'
  OBVIOUS
<1>1. UNCHANGED <<stream, cool, elapses, unanswered>> /\ alerts' = Published
  BY DEF PublishAlert, buckets, ghosts
<1>2. h'.pc = "ack"
  BY <1>1, SameKey DEF PublishAlert
<1>3. \A k \in Key : Spent(k)' = Spent(k) /\ Fresh(k)' = Fresh(k) /\ Claimed(k)' = 0
  BY <1>1, <1>2 DEF Spent, Fresh, Claimed
<1>4. ASSUME NEW k \in Key
      PROVE  AlertsOf(k)' \in Nat /\ AlertsOf(k)' <= AlertsOf(k) + Claimed(k)
  BY <1>1, PublishedCounts, AlertsOfType DEF Claimed, PublishAlert, CooldownInv
<1>5. IsFiniteSet(alerts')
  BY <1>1, PublishedCounts, KeyInHandType DEF PublishAlert, CooldownInv
<1>6. \A k \in Key : AlertsOf(k)' + Claimed(k)' <= Spent(k)' + Fresh(k)'
  BY <1>3, <1>4, <1>5, NumbersType, AlertsOfType DEF CooldownInv
<1> QED
  BY <1>2, <1>5, <1>6 DEF CooldownInv

(* A publication answered by an error pays for the alert it may have made.  *)
LEMMA FailureCounted == TypeOK /\ CooldownInv /\ PublishFails => CooldownInv'
<1> SUFFICES ASSUME TypeOK, CooldownInv, PublishFails
             PROVE  CooldownInv'
  OBVIOUS
<1>1. UNCHANGED <<stream, cool, elapses>> /\ alerts' \in {alerts, Published}
  BY DEF PublishFails, buckets
<1>2. h'.pc = "uncool" /\ KeyInHand' = KeyInHand /\ KeyInHand \in Key
  BY <1>1, SameKey, KeyInHandType DEF PublishFails
<1>3. \A k \in Key : /\ Fresh(k)' = Fresh(k) /\ Claimed(k)' = 0
                     /\ k = KeyInHand => Spent(k)' = Spent(k) + 1 /\ Claimed(k) = 1
                     /\ k # KeyInHand => Spent(k)' = Spent(k) /\ Claimed(k) = 0
  <2>1. \A k \in Key : Fresh(k)' = Fresh(k) /\ Claimed(k)' = 0
    BY <1>1, <1>2 DEF Fresh, Claimed
  <2>2. \A k \in Key : Claimed(k) = IF k = KeyInHand THEN 1 ELSE 0
    BY DEF PublishFails, Claimed
  <2>3. \A k \in Key : unanswered'[k] = unanswered[k] + (IF k = KeyInHand THEN 1 ELSE 0)
    BY <1>2 DEF PublishFails, TypeOK
  <2>4. \A k \in Key : Spent(k)' = Spent(k) + (IF k = KeyInHand THEN 1 ELSE 0)
    BY <1>1, <2>3, NumbersType DEF Spent
  <2> QED
    BY <2>1, <2>2, <2>4, NumbersType
<1>4. ASSUME NEW k \in Key
      PROVE  /\ IsFiniteSet(alerts') /\ AlertsOf(k)' \in Nat
             /\ AlertsOf(k)' <= AlertsOf(k) + 1
             /\ k # KeyInHand => AlertsOf(k)' = AlertsOf(k)
  <2>1. CASE alerts' = Published
    BY <1>1, <2>1, PublishedCounts DEF CooldownInv
  <2>2. CASE alerts' = alerts
    <3>1. AlertsOf(k)' = AlertsOf(k)
      BY <1>1, <2>2 DEF AlertsOf, KeyOf
    <3> QED
      BY <2>2, <3>1, AlertsOfType DEF CooldownInv
  <2> QED
    BY <1>1, <2>1, <2>2
<1>5. \A k \in Key : AlertsOf(k)' + Claimed(k)' <= Spent(k)' + Fresh(k)'
  BY <1>3, <1>4, NumbersType, AlertsOfType DEF CooldownInv
<1>6. AlertsOf(KeyInHand)' <= Spent(KeyInHand)'
  <2> DEFINE k == KeyInHand
  <2>1. AlertsOf(k)' <= Spent(k) + 1
    BY <1>2, <1>3, <1>4, NumbersType, AlertsOfType DEF CooldownInv
  <2> QED
    BY <1>2, <1>3, <2>1
<1> QED
  BY <1>2, <1>4, <1>5, <1>6 DEF CooldownInv

(* A cooldown taken back did not stand for an alert.                        *)
LEMMA CooldownUndone == TypeOK /\ CooldownInv /\ Uncool => CooldownInv'
<1> SUFFICES ASSUME TypeOK, CooldownInv, Uncool
             PROVE  CooldownInv'
  OBVIOUS
<1>1. UNCHANGED <<stream, alerts, elapses, unanswered>>
  BY DEF Uncool, ghosts
<1>2. h'.pc = "unmark" /\ KeyInHand \in Key
  BY <1>1, SameKey, KeyInHandType DEF Uncool
<1>3. \A k \in Key : AlertsOf(k)' = AlertsOf(k) /\ Spent(k)' = Spent(k) /\ Claimed(k)' = 0
  BY <1>1, <1>2 DEF AlertsOf, KeyOf, Spent, Claimed
<1>4. \A k \in Key : Fresh(k)' = IF k = KeyInHand THEN 0 ELSE Fresh(k)
  BY <1>2 DEF Uncool, Fresh, TypeOK
<1>5. ASSUME NEW k \in Key
      PROVE  AlertsOf(k)' + Claimed(k)' <= Spent(k)' + Fresh(k)'
  BY <1>3, <1>4, NumbersType, AlertsOfType DEF CooldownInv, Uncool
<1> QED
  BY <1>1, <1>2, <1>5 DEF CooldownInv

LEMMA CooldownStep == TypeOK /\ CooldownInv /\ [Next]_vars => CooldownInv'
<1> SUFFICES ASSUME TypeOK, CooldownInv, [Next]_vars
             PROVE  CooldownInv'
  OBVIOUS
<1> USE DEF buckets, ghosts, counts
<1>1. CASE Fetch
  BY <1>1, CooldownFrame DEF Fetch
<1>2. CASE Match
  <2>1. h'.pc \in {"ack", "get"}
    BY <1>2 DEF Match
  <2> QED
    BY <1>2, <2>1, CooldownFrame DEF Match
<1>3. CASE CheckDuplicate
  <2>1. h'.pc \in {"ack", "put"}
    BY <1>3, SameKey DEF CheckDuplicate
  <2> QED
    BY <1>3, <2>1, CooldownFrame DEF CheckDuplicate
<1>4. CASE Mark
  <2>1. h'.pc = "cooldown"
    BY <1>4, SameKey DEF Mark
  <2> QED
    BY <1>4, <2>1, CooldownFrame DEF Mark
<1>5. CASE CheckCooldown
  BY <1>5, CooldownRead
<1>6. CASE StartCooldown
  BY <1>6, CooldownStarted
<1>7. CASE PublishAlert
  BY <1>7, AlertCounted
<1>8. CASE Uncool
  BY <1>8, CooldownUndone
<1>i. Return => h'.pc = "idle"
  BY DEF Return, Idle
<1>9. CASE Unmark
  BY <1>9, <1>i, CooldownFrame DEF Unmark
<1>10. CASE Ack
  BY <1>10, <1>i, CooldownFrame DEF Ack
<1>11. CASE MarkFails
  BY <1>11, <1>i, CooldownFrame DEF MarkFails
<1>12. CASE CooldownFails
  BY <1>12, CooldownFailed
<1>13. CASE PublishFails
  BY <1>13, FailureCounted
<1>14. CASE UndoFails
  <2>1. h'.pc \in {"idle", "unmark"}
    BY <1>14, <1>i, SameKey DEF UndoFails
  <2> QED
    BY <1>14, <2>1, CooldownFrame DEF UndoFails
<1>15. CASE AckLost
  BY <1>15, <1>i, CooldownFrame DEF AckLost
<1>16. CASE \E e \in Event : AckWaitExpires(e)
  BY <1>16, CooldownFrame DEF AckWaitExpires
<1>17. CASE \E k \in Key : CooldownEnds(k)
  BY <1>17, CooldownRunsOut
<1>18. CASE Crash
  <2>1. h'.pc = "idle"
    BY <1>18 DEF Crash, Idle
  <2> QED
    BY <1>18, <2>1, CooldownFrame DEF Crash
<1>19. CASE UNCHANGED vars
  BY <1>19, CooldownFrame DEF vars
<1> QED
  BY <1>1, <1>2, <1>3, <1>4, <1>5, <1>6, <1>7, <1>8, <1>9, <1>10, <1>11, <1>12, <1>13, <1>14,
     <1>15, <1>16, <1>17, <1>18, <1>19 DEF Next, Handle

LEMMA CooldownInit == Init => CooldownInv
<1> SUFFICES ASSUME Init
             PROVE  CooldownInv
  OBVIOUS
<1>1. IsFiniteSet(alerts) /\ \A k : AlertsOf(k) = 0
  <2>1. \A k : {a \in alerts : KeyOf(a.rule, a.event) = k} = {}
    BY DEF Init
  <2> QED
    BY <2>1, FS_EmptySet DEF Init, AlertsOf
<1>2. h.pc = "idle"
  BY DEF Init, Idle
<1>3. \A k \in Key : Spent(k) = 0 /\ Fresh(k) = 0 /\ Claimed(k) = 0
  BY <1>2 DEF Init, Spent, Fresh, Claimed
<1> QED
  BY <1>1, <1>2, <1>3 DEF CooldownInv

(* CooldownHolds, for every stream and every number of restarts and faults: *)
(* a rule alerts for a group at most once more than its cooldowns ended and *)
(* its publications were answered by an error.                              *)
THEOREM CooldownCorrect == Spec => []CooldownHolds
<1>1. TypeOK /\ CooldownInv => CooldownHolds
  <2> SUFFICES ASSUME TypeOK, CooldownInv, NEW k \in Key
               PROVE  AlertsOf(k) <= 1 + elapses[k] + unanswered[k]
    BY DEF CooldownHolds
  <2>1. AlertsOf(k) <= Spent(k) + 1
    BY NumbersType, AlertsOfType DEF CooldownInv
  <2> QED
    BY <2>1, NumbersType DEF Spent
<1> QED
  BY <1>1, TypeInit, TypeStep, CooldownInit, CooldownStep, PTL DEF Spec

-----------------------------------------------------------------------------
(* Every publication is an alert of its own                                 *)

Working == {"get", "put", "cooldown", "start", "publish"}

(* The sighting in hand has not led to an alert.                            *)
SightingInv ==
    /\ \A a \in alerts : a.sighting <= observed[a.event]
    /\ h.pc \in Working =>
          \A a \in alerts : a.event = h.event => a.sighting < observed[h.event]

LEMMA SightingFrame ==
    ASSUME TypeOK, SightingInv, UNCHANGED <<alerts, observed>>,
           \/ UNCHANGED h
           \/ h'.pc \notin Working
           \/ h.pc \in Working /\ h'.event = h.event
    PROVE  SightingInv'
BY DEF SightingInv

LEMMA SightingPublished ==
    ASSUME TypeOK, SightingInv, h.pc = "publish", alerts' \in {alerts, Published},
           UNCHANGED observed, h'.pc \notin Working
    PROVE  SightingInv'
<1>1. \A a \in Published : a \in alerts \/ (a.event = h.event /\ a.sighting = observed[h.event])
  BY DEF Published
<1>2. \A a \in alerts' : a.sighting <= observed[a.event]
  BY <1>1, EventFacts DEF SightingInv, TypeOK
<1> QED
  BY <1>2 DEF SightingInv

LEMMA SightingMatched == TypeOK /\ SightingInv /\ Match => SightingInv'
<1> SUFFICES ASSUME TypeOK, SightingInv, Match
             PROVE  SightingInv'
  OBVIOUS
<1> DEFINE e == Head(batch)
<1>1. e \in Event /\ h'.event = e /\ alerts' = alerts
  BY DEF TypeOK, Match
<1>2. /\ \A f \in Event : observed'[f] = IF f = e THEN observed[f] + 1 ELSE observed[f]
      /\ \A f \in Event : observed[f] \in Nat
  BY <1>1 DEF TypeOK, Match
<1>3. \A a \in alerts : a.event \in Event /\ a.sighting \in Nat
  BY DEF TypeOK
<1>4. ASSUME NEW a \in alerts
      PROVE  /\ a.sighting <= observed'[a.event]
             /\ a.event = e => a.sighting < observed'[e]
  <2>1. a.sighting <= observed[a.event]
    BY DEF SightingInv
  <2> QED
    BY <1>1, <1>2, <1>3, <2>1
<1> QED
  BY <1>1, <1>4 DEF SightingInv

LEMMA SightingStep == TypeOK /\ SightingInv /\ [Next]_vars => SightingInv'
<1> SUFFICES ASSUME TypeOK, SightingInv, [Next]_vars
             PROVE  SightingInv'
  OBVIOUS
<1> USE DEF buckets, ghosts, counts
<1>g. \A pc : Goto(pc) => h'.pc = pc /\ h'.event = h.event
  BY DEF Goto, TypeOK
<1>i. Return => h'.pc = "idle"
  BY DEF Return, Idle
<1>1. CASE Fetch
  BY <1>1, SightingFrame DEF Fetch
<1>2. CASE Match
  BY <1>2, SightingMatched
<1>3. CASE CheckDuplicate \/ Mark \/ CheckCooldown \/ StartCooldown
  BY <1>3, <1>g, SightingFrame DEF CheckDuplicate, Mark, CheckCooldown, StartCooldown, Working
<1>4. CASE PublishAlert \/ PublishFails
  BY <1>4, <1>g, SightingPublished DEF PublishAlert, PublishFails, Working
<1>5. CASE Uncool \/ CooldownFails
  BY <1>5, <1>g, SightingFrame DEF Uncool, CooldownFails, Working
<1>6. CASE Unmark \/ Ack \/ MarkFails \/ AckLost
  BY <1>6, <1>i, SightingFrame DEF Unmark, Ack, MarkFails, AckLost, Working
<1>7. CASE UndoFails
  BY <1>7, <1>g, <1>i, SightingFrame DEF UndoFails, Working
<1>8. CASE \E e \in Event : AckWaitExpires(e)
  BY <1>8, SightingFrame DEF AckWaitExpires
<1>9. CASE \E k \in Key : CooldownEnds(k)
  BY <1>9, SightingFrame DEF CooldownEnds
<1>10. CASE Crash
  BY <1>10, SightingFrame DEF Crash, Idle, Working
<1>11. CASE UNCHANGED vars
  BY <1>11, SightingFrame DEF vars
<1> QED
  BY <1>1, <1>2, <1>3, <1>4, <1>5, <1>6, <1>7, <1>8, <1>9, <1>10, <1>11 DEF Next, Handle

(* Each publication adds an alert, so that the number of alerts, of which   *)
(* CooldownHolds speaks, is the number of publications: one delivery of an  *)
(* event leads to one alert at most.                                        *)
THEOREM PublicationsCounted == Spec => [][PublishAlert => alerts' # alerts]_vars
<1>1. TypeOK /\ SightingInv => (PublishAlert => alerts' # alerts)
  <2> SUFFICES ASSUME TypeOK, SightingInv, PublishAlert, alerts' = alerts
               PROVE  FALSE
    OBVIOUS
  <2> DEFINE a == [rule |-> h.rule, event |-> h.event, sighting |-> observed[h.event]]
  <2>1. a \in alerts
    BY DEF PublishAlert, Published
  <2>2. a.sighting < observed[h.event]
    BY <2>1 DEF SightingInv, PublishAlert, Working
  <2> QED
    BY <2>2, EventFacts DEF TypeOK, PublishAlert
<1>2. Init => SightingInv
  BY DEF Init, SightingInv, Idle, Working
<1> QED
  BY <1>1, <1>2, TypeInit, TypeStep, SightingStep, PTL DEF Spec

-----------------------------------------------------------------------------
(* Probes raise their alerts                                                *)

(* The handler has marked its event and will go on, or undo it.             *)
MarkInHand == {"cooldown", "start", "publish", "uncool", "unmark"}

Accounted(g) == Alerted(g) \/ g \in stray
Settled(e) == Accounted(stream[e].group)

(* A mark, a running cooldown and a handler that goes on to acknowledge     *)
(* stand for an alert of the group, but for the mark and the cooldown of    *)
(* the alert in hand.                                                       *)
ProbeInv ==
    /\ \A e \in Event :
          stream[e].kind = "probe" =>
             /\ msg[e] = "acked" => Settled(e)
             /\ h.event = e /\ h.pc = "ack" => Settled(e)
             /\ e \in marks => \/ Settled(e)
                               \/ h.event = e /\ h.pc \in MarkInHand
    /\ \A k \in Key :
          cool[k] = "fresh" => \/ Accounted(k[2])
                               \/ h.pc \in {"publish", "uncool"} /\ KeyInHand = k

(* What is accounted for stays accounted for.                               *)
LEMMA AccountedStays ==
    ASSUME stream' = stream, alerts \subseteq alerts', stray \subseteq stray'
    PROVE  /\ \A g : Accounted(g) => Accounted(g)'
           /\ \A e : Settled(e) => Settled(e)'
           /\ \A e : Settled(e)' <=> Accounted(stream[e].group)'
<1>1. \A g : Accounted(g) => Accounted(g)'
  BY DEF Accounted, Alerted
<1>2. \A g : Accounted(g)' <=> (\E a \in alerts' : stream'[a.event].group = g) \/ g \in stray'
  BY DEF Accounted, Alerted
<1> QED
  BY <1>1, <1>2 DEF Settled

LEMMA LedgersGrow ==
    ASSUME TypeOK, [Next]_vars
    PROVE  stream' = stream /\ alerts \subseteq alerts' /\ stray \subseteq stray'
<1> USE DEF buckets, ghosts, counts
<1>1. CASE PublishAlert
  BY <1>1 DEF PublishAlert, Published
<1>2. CASE PublishFails
  BY <1>2 DEF PublishFails, Published
<1>3. CASE \/ Fetch \/ Match \/ CheckDuplicate \/ Mark \/ CheckCooldown \/ StartCooldown
           \/ Uncool \/ Unmark \/ Ack
  BY <1>3 DEF Fetch, Match, CheckDuplicate, Mark, CheckCooldown, StartCooldown, Uncool, Unmark,
              Ack
<1>4. CASE MarkFails \/ CooldownFails \/ UndoFails \/ AckLost \/ Crash
  BY <1>4 DEF MarkFails, CooldownFails, UndoFails, AckLost, Crash
<1>5. CASE (\E e \in Event : AckWaitExpires(e)) \/ (\E k \in Key : CooldownEnds(k))
  BY <1>5 DEF AckWaitExpires, CooldownEnds
<1>6. CASE UNCHANGED vars
  BY <1>6 DEF vars
<1> QED
  BY <1>1, <1>2, <1>3, <1>4, <1>5, <1>6 DEF Next, Handle

(* What a step must keep: a new acknowledgement, mark, cooldown or intention *)
(* to acknowledge stands for an alert or is the handler's own, and the       *)
(* handler leaves neither mark nor cooldown behind without an alert or a     *)
(* trace in stray.                                                           *)
AcksKept ==
    \A e \in Event : msg'[e] = "acked" => msg[e] = "acked" \/ (h.pc = "ack" /\ h.event = e)
MarksKept ==
    \A e \in marks' : e \in marks \/ Settled(e)' \/ (h'.event = e /\ h'.pc \in MarkInHand)
CoolKept ==
    \A k \in Key : cool'[k] = "fresh" =>
        \/ cool[k] = "fresh"
        \/ Accounted(k[2])'
        \/ h'.pc \in {"publish", "uncool"} /\ KeyInHand' = k
AckMeant ==
    \A e \in Event : h'.pc = "ack" /\ h'.event = e =>
        stream[e].kind # "probe" \/ Settled(e)' \/ (h.pc = "ack" /\ h.event = e)
MarkKept ==
    \A e \in Event : h.pc \in MarkInHand /\ h.event = e =>
        e \notin marks' \/ Settled(e)' \/ (h'.pc \in MarkInHand /\ h'.event = e)
CooldownKept ==
    \A k \in Key : h.pc \in {"publish", "uncool"} /\ KeyInHand = k =>
        \/ cool'[k] # "fresh"
        \/ Accounted(k[2])'
        \/ h'.pc \in {"publish", "uncool"} /\ KeyInHand' = k

LEMMA ProbeFrame ==
    ASSUME TypeOK, ProbeInv, [Next]_vars,
           AcksKept, MarksKept, CoolKept, AckMeant, MarkKept, CooldownKept
    PROVE  ProbeInv'
<1>1. /\ \A g : Accounted(g) => Accounted(g)'
      /\ \A e \in Event : Settled(e) => Settled(e)'
  BY LedgersGrow, AccountedStays
<1>2. stream' = stream
  BY LedgersGrow
<1>3. ASSUME NEW e \in Event, stream[e].kind = "probe"
      PROVE  /\ msg'[e] = "acked" => Settled(e)'
             /\ h'.event = e /\ h'.pc = "ack" => Settled(e)'
             /\ e \in marks' => Settled(e)' \/ (h'.event = e /\ h'.pc \in MarkInHand)
  BY <1>1, <1>3 DEF ProbeInv, AcksKept, MarksKept, AckMeant, MarkKept
<1>4. ASSUME NEW k \in Key, cool'[k] = "fresh"
      PROVE  \/ Accounted(k[2])'
             \/ h'.pc \in {"publish", "uncool"} /\ KeyInHand' = k
  BY <1>1, <1>4 DEF ProbeInv, CoolKept, CooldownKept
<1> QED
  BY <1>2, <1>3, <1>4 DEF ProbeInv

(* Most steps keep most of it at sight.                                     *)
LEMMA KeptAtSight ==
    ASSUME TypeOK, stream' = stream
    PROVE  /\ UNCHANGED msg => AcksKept
           /\ UNCHANGED marks => MarksKept
           /\ UNCHANGED cool => CoolKept
           /\ h'.pc # "ack" => AckMeant
           /\ h.pc \notin MarkInHand => MarkKept
           /\ h'.pc \in MarkInHand /\ h'.event = h.event => MarkKept
           /\ h.pc \notin {"publish", "uncool"} => CooldownKept
           /\ UNCHANGED h => AckMeant /\ MarkKept /\ CooldownKept
<1>1. UNCHANGED h => KeyInHand' = KeyInHand
  BY DEF KeyInHand, KeyOf
<1> QED
  BY <1>1 DEF AcksKept, MarksKept, CoolKept, AckMeant, MarkKept, CooldownKept

(* The group in hand, of the event and of the key.                          *)
LEMMA HandFacts ==
    ASSUME TypeOK, h.pc # "idle"
    PROVE  /\ h.event \in Event /\ KeyInHand \in Key
           /\ KeyInHand[2] = stream[h.event].group
BY KeyInHandType DEF TypeOK, KeyInHand, KeyOf

(* A handler whose group is stray after the step may stop anywhere.         *)
LEMMA StraySettles ==
    ASSUME TypeOK, h.pc # "idle", stream' = stream, stream[h.event].group \in stray'
    PROVE  /\ \A e \in Event : h.event = e => Settled(e)'
           /\ \A k \in Key : KeyInHand = k => Accounted(k[2])'
           /\ MarkKept /\ CooldownKept
<1>1. \A e \in Event : h.event = e => stream'[e].group \in stray'
  OBVIOUS
<1>2. \A k \in Key : KeyInHand = k => k[2] \in stray'
  BY HandFacts
<1>3. /\ \A e \in Event : h.event = e => Settled(e)'
      /\ \A k \in Key : KeyInHand = k => Accounted(k[2])'
  BY <1>1, <1>2 DEF Settled, Accounted
<1> QED
  BY <1>3 DEF MarkKept, CooldownKept

(* So may one whose alert is published.                                     *)
LEMMA AlertSettles ==
    ASSUME TypeOK, h.pc # "idle", stream' = stream, alerts' = Published
    PROVE  /\ \A e \in Event : h.event = e => Settled(e)'
           /\ MarkKept /\ CooldownKept
<1> DEFINE a == [rule |-> h.rule, event |-> h.event, sighting |-> observed[h.event]]
<1>1. a \in alerts' /\ a.event = h.event
  BY DEF Published
<1>2. \A g : stream'[h.event].group = g => Alerted(g)'
  BY <1>1 DEF Alerted
<1>3. \A e \in Event : h.event = e => Alerted(stream[e].group)' /\ Settled(e)'
  BY <1>1 DEF Settled, Accounted, Alerted
<1>4. \A k \in Key : KeyInHand = k => Accounted(k[2])'
  BY <1>2, HandFacts DEF Accounted
<1> QED
  BY <1>3, <1>4 DEF MarkKept, CooldownKept

LEMMA ProbeDuplicate == TypeOK /\ ProbeInv /\ CheckDuplicate /\ [Next]_vars => ProbeInv'
<1> SUFFICES ASSUME TypeOK, ProbeInv, CheckDuplicate, [Next]_vars
             PROVE  ProbeInv'
  OBVIOUS
<1>1. UNCHANGED <<stream, msg, marks, cool>> /\ h.pc = "get"
  BY DEF CheckDuplicate, buckets
<1>2. h'.event = h.event /\ (h'.pc = "ack" => h.event \in marks)
  BY DEF CheckDuplicate, Goto, TypeOK
<1>3. AckMeant
  <2>1. ASSUME NEW e \in Event, h'.pc = "ack", h'.event = e, stream[e].kind = "probe"
        PROVE  Settled(e)'
    <3>1. Settled(e)
      BY <1>1, <1>2, <2>1 DEF ProbeInv, MarkInHand
    <3> QED
      BY <3>1, LedgersGrow, AccountedStays
  <2> QED
    BY <2>1 DEF AckMeant
<1> QED
  BY <1>1, <1>3, ProbeFrame, KeptAtSight DEF MarkInHand

LEMMA ProbeCooldown == TypeOK /\ ProbeInv /\ CheckCooldown /\ [Next]_vars => ProbeInv'
<1> SUFFICES ASSUME TypeOK, ProbeInv, CheckCooldown, [Next]_vars
             PROVE  ProbeInv'
  OBVIOUS
<1>1. UNCHANGED <<stream, msg, marks, cool>> /\ h.pc = "cooldown"
  BY DEF CheckCooldown, buckets
<1>2. h'.event = h.event /\ h'.pc = IF cool[KeyInHand] = "fresh" THEN "ack" ELSE "start"
  BY DEF CheckCooldown, Goto, TypeOK
<1>3. CASE cool[KeyInHand] = "fresh"
  <2>1. Accounted(KeyInHand[2])
    BY <1>1, <1>3, HandFacts DEF ProbeInv
  <2>2. \A e \in Event : h.event = e => Settled(e)
    BY <1>1, <2>1, HandFacts DEF Settled
  <2>3. \A e \in Event : h.event = e => Settled(e)'
    BY <2>2, LedgersGrow, AccountedStays
  <2>4. AckMeant /\ MarkKept
    BY <1>2, <2>3 DEF AckMeant, MarkKept
  <2> QED
    BY <1>1, <2>4, ProbeFrame, KeptAtSight DEF MarkInHand
<1>4. CASE cool[KeyInHand] # "fresh"
  BY <1>1, <1>2, <1>4, ProbeFrame, KeptAtSight DEF MarkInHand
<1> QED
  BY <1>3, <1>4

LEMMA ProbeBucketFails ==
    TypeOK /\ ProbeInv /\ (MarkFails \/ CooldownFails) /\ [Next]_vars => ProbeInv'
<1> SUFFICES ASSUME TypeOK, ProbeInv, MarkFails \/ CooldownFails, [Next]_vars
             PROVE  ProbeInv'
  OBVIOUS
<1>1. CASE MarkFails
  <2>1. UNCHANGED <<stream, msg, cool>> /\ h.pc \in {"get", "put"} /\ h'.pc = "idle"
    BY <1>1 DEF MarkFails, Return, Idle
  <2>2. MarksKept
    <3>1. CASE UNCHANGED <<marks, stray>>
      BY <2>1, <3>1, KeptAtSight
    <3>2. CASE marks' = marks \cup {h.event} /\ stray' = stray \cup {stream[h.event].group}
      <4>1. \A e \in Event : h.event = e => Settled(e)'
        BY <2>1, <3>2, StraySettles
      <4>2. h.event \in Event
        BY <2>1, HandFacts
      <4> QED
        BY <3>2, <4>1, <4>2 DEF MarksKept
    <3> QED
      BY <1>1, <3>1, <3>2 DEF MarkFails
  <2> QED
    BY <2>1, <2>2, ProbeFrame, KeptAtSight DEF MarkInHand
<1>2. CASE CooldownFails
  <2>1. /\ UNCHANGED <<stream, msg, marks>>
        /\ h.pc \in {"cooldown", "start"} /\ h'.pc = "unmark" /\ h'.event = h.event
    BY <1>2 DEF CooldownFails, Goto, TypeOK
  <2>2. CoolKept
    <3>1. CASE UNCHANGED <<cool, stray>>
      BY <2>1, <3>1, KeptAtSight
    <3>2. CASE /\ cool' = [cool EXCEPT ![KeyInHand] = "fresh"]
               /\ stray' = stray \cup {stream[h.event].group}
      <4>1. \A k \in Key : KeyInHand = k => Accounted(k[2])'
        BY <2>1, <3>2, StraySettles
      <4>2. \A k \in Key : cool'[k] = "fresh" => cool[k] = "fresh" \/ KeyInHand = k
        BY <3>2 DEF TypeOK
      <4> QED
        BY <4>1, <4>2 DEF CoolKept
    <3> QED
      BY <1>2, <3>1, <3>2 DEF CooldownFails
  <2> QED
    BY <2>1, <2>2, ProbeFrame, KeptAtSight DEF MarkInHand
<1> QED
  BY <1>1, <1>2

LEMMA ProbePublish ==
    TypeOK /\ ProbeInv /\ (StartCooldown \/ PublishAlert \/ PublishFails \/ Uncool) /\ [Next]_vars
        => ProbeInv'
<1> SUFFICES ASSUME TypeOK, ProbeInv, [Next]_vars,
                    StartCooldown \/ PublishAlert \/ PublishFails \/ Uncool
             PROVE  ProbeInv'
  OBVIOUS
<1>1. UNCHANGED <<stream, msg, marks>> /\ h'.event = h.event /\ h'.rule = h.rule
  BY DEF StartCooldown, PublishAlert, PublishFails, Uncool, Goto, TypeOK, buckets
<1>2. KeyInHand' = KeyInHand
  BY <1>1 DEF KeyInHand, KeyOf
<1>3. CASE StartCooldown
  <2>1. h.pc = "start" /\ h'.pc = "publish"
    BY <1>3 DEF StartCooldown, Goto, TypeOK
  <2>2. \A k \in Key : cool'[k] = "fresh" => cool[k] = "fresh" \/ KeyInHand = k
    BY <1>3 DEF StartCooldown, TypeOK
  <2>3. CoolKept
    BY <1>2, <2>1, <2>2 DEF CoolKept
  <2> QED
    BY <1>1, <2>1, <2>3, ProbeFrame, KeptAtSight DEF MarkInHand
<1>4. CASE PublishAlert
  <2>1. h.pc = "publish" /\ h'.pc = "ack" /\ cool' = cool /\ alerts' = Published
    BY <1>4 DEF PublishAlert, Goto, TypeOK, buckets
  <2>2. (\A e \in Event : h.event = e => Settled(e)') /\ MarkKept /\ CooldownKept
    BY <1>1, <2>1, AlertSettles
  <2>3. AckMeant
    BY <1>1, <2>2 DEF AckMeant
  <2> QED
    BY <1>1, <2>1, <2>2, <2>3, ProbeFrame, KeptAtSight
<1>5. CASE PublishFails
  <2>1. h.pc = "publish" /\ h'.pc = "uncool" /\ cool' = cool
    BY <1>5 DEF PublishFails, Goto, TypeOK, buckets
  <2>2. CooldownKept
    BY <1>2, <2>1 DEF CooldownKept
  <2> QED
    BY <1>1, <2>1, <2>2, ProbeFrame, KeptAtSight DEF MarkInHand
<1>6. CASE Uncool
  <2>1. h.pc = "uncool" /\ h'.pc = "unmark"
    BY <1>6 DEF Uncool, Goto, TypeOK
  <2>2. \A k \in Key : cool'[k] = "fresh" => cool[k] = "fresh" /\ KeyInHand # k
    BY <1>6 DEF Uncool, TypeOK
  <2>3. CoolKept /\ CooldownKept
    BY <2>2 DEF CoolKept, CooldownKept
  <2> QED
    BY <1>1, <2>1, <2>3, ProbeFrame, KeptAtSight DEF MarkInHand
<1> QED
  BY <1>3, <1>4, <1>5, <1>6

LEMMA ProbeReturn ==
    TypeOK /\ ProbeInv /\ (Unmark \/ UndoFails \/ Ack \/ AckLost \/ Crash) /\ [Next]_vars
        => ProbeInv'
<1> SUFFICES ASSUME TypeOK, ProbeInv, Unmark \/ UndoFails \/ Ack \/ AckLost \/ Crash, [Next]_vars
             PROVE  ProbeInv'
  OBVIOUS
<1> USE DEF buckets
<1>1. CASE Unmark
  <2>1. /\ UNCHANGED <<stream, msg, cool>> /\ h.pc = "unmark" /\ h'.pc = "idle"
        /\ marks' = marks \ {h.event}
    BY <1>1 DEF Unmark, Return, Idle
  <2>2. MarksKept /\ MarkKept
    BY <2>1 DEF MarksKept, MarkKept
  <2> QED
    BY <2>1, <2>2, ProbeFrame, KeptAtSight
<1>2. CASE UndoFails
  <2>1. /\ UNCHANGED <<stream, msg, marks, cool>> /\ h.pc # "idle" /\ h'.pc \in {"idle", "unmark"}
        /\ stray' = stray \cup {stream[h.event].group}
    BY <1>2 DEF UndoFails, Return, Idle, Goto, TypeOK
  <2>2. MarkKept /\ CooldownKept
    BY <2>1, StraySettles
  <2> QED
    BY <2>1, <2>2, ProbeFrame, KeptAtSight
<1>3. CASE Ack
  <2>1. UNCHANGED <<stream, marks, cool>> /\ h.pc = "ack" /\ h'.pc = "idle"
    BY <1>3 DEF Ack, Return, Idle
  <2>2. AcksKept
    BY <1>3 DEF Ack, TypeOK, AcksKept
  <2> QED
    BY <2>1, <2>2, ProbeFrame, KeptAtSight DEF MarkInHand
<1>4. CASE AckLost
  <2>1. UNCHANGED <<stream, msg, marks, cool>> /\ h.pc = "ack" /\ h'.pc = "idle"
    BY <1>4 DEF AckLost, Return, Idle
  <2> QED
    BY <2>1, ProbeFrame, KeptAtSight DEF MarkInHand
<1>5. CASE Crash
  <2>1. UNCHANGED <<stream, msg, marks, cool>> /\ h'.pc = "idle"
    BY <1>5 DEF Crash, Idle
  <2>2. CASE h.pc \in MarkInHand
    <3>1. stream[h.event].group \in stray'
      BY <1>5, <2>2 DEF Crash, MarkInHand
    <3>2. MarkKept /\ CooldownKept
      BY <2>1, <2>2, <3>1, StraySettles DEF MarkInHand
    <3> QED
      BY <2>1, <3>2, ProbeFrame, KeptAtSight
  <2>3. CASE h.pc \notin MarkInHand
    BY <2>1, <2>3, ProbeFrame, KeptAtSight DEF MarkInHand
  <2> QED
    BY <2>2, <2>3
<1> QED
  BY <1>1, <1>2, <1>3, <1>4, <1>5

LEMMA ProbeStep == TypeOK /\ ProbeInv /\ [Next]_vars => ProbeInv'
<1> SUFFICES ASSUME TypeOK, ProbeInv, [Next]_vars
             PROVE  ProbeInv'
  OBVIOUS
<1>s. stream' = stream
  BY LedgersGrow
<1>1. CASE Fetch
  <2>1. UNCHANGED <<h, marks, cool>>
    BY <1>1 DEF Fetch, buckets
  <2>2. AcksKept
    BY <1>1 DEF Fetch, AcksKept, TypeOK
  <2> QED
    BY <1>s, <2>1, <2>2, ProbeFrame, KeptAtSight
<1>2. CASE Match
  <2>1. UNCHANGED <<msg, marks, cool>> /\ h.pc = "idle"
    BY <1>2 DEF Match, Idle, buckets
  <2>2. AckMeant
    BY <1>2 DEF Match, Matches, AckMeant
  <2> QED
    BY <1>s, <2>1, <2>2, ProbeFrame, KeptAtSight DEF MarkInHand
<1>3. CASE Mark
  <2>1. /\ UNCHANGED <<msg, cool>> /\ marks' = marks \cup {h.event}
        /\ h.pc = "put" /\ h'.pc = "cooldown" /\ h'.event = h.event
    BY <1>3 DEF Mark, Goto, TypeOK
  <2>2. MarksKept
    BY <2>1 DEF MarksKept, MarkInHand
  <2> QED
    BY <1>s, <2>1, <2>2, ProbeFrame, KeptAtSight DEF MarkInHand
<1>4. CASE \E e \in Event : AckWaitExpires(e)
  <2>1. UNCHANGED <<h, marks, cool>>
    BY <1>4 DEF AckWaitExpires, buckets
  <2>2. AcksKept
    BY <1>4 DEF AckWaitExpires, AcksKept, TypeOK
  <2> QED
    BY <1>s, <2>1, <2>2, ProbeFrame, KeptAtSight
<1>5. CASE \E k \in Key : CooldownEnds(k)
  <2>1. UNCHANGED <<h, marks, msg>>
    BY <1>5 DEF CooldownEnds
  <2>2. CoolKept
    BY <1>5 DEF CooldownEnds, CoolKept, TypeOK
  <2> QED
    BY <1>s, <2>1, <2>2, ProbeFrame, KeptAtSight
<1>6. CASE UNCHANGED vars
  <2>1. UNCHANGED <<h, marks, cool, msg>>
    BY <1>6 DEF vars, buckets
  <2> QED
    BY <1>s, <2>1, ProbeFrame, KeptAtSight
<1> QED
  BY <1>1, <1>2, <1>3, <1>4, <1>5, <1>6, ProbeDuplicate, ProbeCooldown, ProbeBucketFails,
     ProbePublish, ProbeReturn DEF Next, Handle

LEMMA ProbeInit == Init => ProbeInv
BY DEF Init, ProbeInv, Idle

(* ProbeRaisesAlert, for every stream: a probe that is acknowledged, or     *)
(* whose mark will have it acknowledged, has led to an alert of its group   *)
(* unless a killed handler or a failed call left a mark or cooldown behind. *)
THEOREM ProbesAlerted == Spec => []ProbeRaisesAlert
<1>1. ProbeInv => ProbeRaisesAlert
  BY DEF ProbeInv, ProbeRaisesAlert, Settled, Accounted
<1> QED
  BY <1>1, TypeInit, TypeStep, ProbeInit, ProbeStep, PTL DEF Spec

-----------------------------------------------------------------------------
(* Bursts are real                                                          *)

(* A tracker keeps sightings that were made, of events of its own kind and  *)
(* group, and the burst in hand is a real one.                              *)
BurstInv ==
    /\ \A t \in Tracker : \A s \in hits[t] : TrackerOf(s[1]) = t /\ s[2] <= observed[s[1]]
    /\ \A e \in Event :
          h.pc \in Working /\ h.rule \in {"burst", "count"} /\ h.event = e => Repeated(e)
    /\ BurstIsRepeated

(* What has been seen stays seen.                                           *)
LEMMA RepeatedStays ==
    ASSUME TypeOK, TypeOK', stream' = stream, NEW e \in Event,
           \A f \in Event : observed[f] <= observed'[f],
           Repeated(e)
    PROVE  Repeated(e)'
<1> DEFINE near == Near(e)
           nearNext == {f \in Event : /\ TrackerOf(f) = TrackerOf(e)
                                      /\ observed'[f] > 0
                                      /\ stream[f].time + Window >= stream[e].time}
<1>1. Near(e)' = nearNext
  BY DEF Near, TrackerOf
<1>2. \A f \in Event : observed[f] \in Nat /\ observed'[f] \in Nat
  BY DEF TypeOK
<1>3. near \subseteq nearNext
  BY <1>2 DEF Near
<1>4. IsFiniteSet(nearNext) /\ nearNext \subseteq Event
  BY DetectorAssumption, FS_Subset
<1>5. Cardinality(near) \in Nat /\ Cardinality(nearNext) \in Nat
      /\ Cardinality(near) <= Cardinality(nearNext)
  BY <1>3, <1>4, FS_Subset, FS_CardinalityType
<1>6. Threshold \in Nat
  BY DetectorAssumption
<1>7. CASE Cardinality(near) >= Threshold
  BY <1>1, <1>5, <1>6, <1>7 DEF Repeated
<1>8. ASSUME NEW f \in near, observed[f] > 1
      PROVE  f \in nearNext /\ observed'[f] > 1
  BY <1>2, <1>3, <1>4, <1>8
<1> QED
  BY <1>1, <1>7, <1>8 DEF Repeated

(* A threshold met is met by as many events, or by one seen twice: the      *)
(* sightings kept, each seen once, are as many as their events.             *)
LEMMA BurstSeen ==
    ASSUME TypeOK, BurstInv, Match, NEW e, e = Head(batch), stream[e].kind # "quiet", Burst(e)
    PROVE  Repeated(e)'
<1>1. e \in Event /\ stream' = stream
  BY DEF TypeOK, Match
<1>2. /\ \A f \in Event : observed'[f] = IF f = e THEN observed[f] + 1 ELSE observed[f]
      /\ \A f \in Event : observed[f] \in Nat
  BY <1>1 DEF TypeOK, Match
<1> DEFINE near == Near(e)'
<1>3. /\ near \subseteq Event
      /\ \A f \in Event : f \in near <=> /\ TrackerOf(f) = TrackerOf(e)
                                         /\ observed'[f] > 0
                                         /\ stream[f].time + Window >= stream[e].time
  BY <1>1 DEF Near, TrackerOf
<1>4. SUFFICES ASSUME \A f \in near : ~(observed'[f] > 1)
               PROVE  Cardinality(near) >= Threshold
  BY DEF Repeated
<1>5. IsFiniteSet(near)
  BY <1>3, DetectorAssumption, FS_Subset
<1>6. stream[e].time \in Nat /\ Window \in Nat /\ Threshold \in Nat
  BY <1>1, EventFacts, DetectorAssumption
<1>7. ASSUME NEW s \in Kept(e)
      PROVE  s \in near \X {1}
  <2>1. CASE s = <<e, observed[e] + 1>>
    <3>1. e \in near
      BY <1>1, <1>2, <1>3, <1>6
    <3>2. observed[e] + 1 = 1
      BY <1>1, <1>2, <1>4, <3>1
    <3> QED
      BY <2>1, <3>1, <3>2
  <2>2. CASE s \in hits[TrackerOf(e)] /\ Time(s) + Window >= stream[e].time
    <3>1. TrackerOf(e) \in Tracker
      BY <1>1, EventFacts
    <3>2. s \in Sighting
      BY <2>2, <3>1 DEF TypeOK
    <3>3. s[1] \in Event /\ s[2] \in Nat /\ s[2] > 0 /\ s = <<s[1], s[2]>>
      BY <3>2 DEF Sighting
    <3>4. TrackerOf(s[1]) = TrackerOf(e) /\ s[2] <= observed[s[1]]
      BY <2>2, <3>1 DEF BurstInv
    <3>5. observed'[s[1]] >= s[2]
      BY <1>2, <3>3, <3>4
    <3>6. s[1] \in near
      BY <1>2, <1>3, <2>2, <3>3, <3>4, <3>5 DEF Time
    <3>7. s[2] = 1
      BY <1>2, <1>4, <3>3, <3>5, <3>6
    <3> QED
      BY <3>3, <3>6, <3>7
  <2> QED
    BY <2>1, <2>2 DEF Kept
<1>8. /\ IsFiniteSet(near \X {1})
      /\ Cardinality(near \X {1}) = Cardinality(near) * Cardinality({1})
  BY <1>5, FS_Singleton, FS_Product
<1>9. Cardinality(near) \in Nat /\ Cardinality({1}) = 1
  BY <1>5, FS_CardinalityType, FS_Singleton
<1>10. Cardinality(Kept(e)) <= Cardinality(near \X {1})
  BY <1>7, <1>8, FS_Subset
<1> QED
  BY <1>6, <1>8, <1>9, <1>10 DEF Burst

LEMMA BurstMatched == TypeOK /\ TypeOK' /\ BurstInv /\ Match => BurstInv'
<1> SUFFICES ASSUME TypeOK, TypeOK', BurstInv, Match
             PROVE  BurstInv'
  OBVIOUS
<1> DEFINE e == Head(batch)
<1>1. e \in Event /\ UNCHANGED <<stream, alerts>>
  BY DEF TypeOK, Match
<1>2. /\ observed'[e] = observed[e] + 1
      /\ \A f \in Event : observed[f] \in Nat /\ observed'[f] \in Nat /\ observed[f] <= observed'[f]
  BY <1>1 DEF TypeOK, Match
<1>3. \A f : TrackerOf(f)' = TrackerOf(f)
  BY <1>1 DEF TrackerOf
<1>4. \A t \in Tracker : \A s \in hits[t] : s[1] \in Event /\ s[2] \in Nat
  BY DEF TypeOK, Sighting
<1>5. \A t \in Tracker : \A s \in hits[t] : TrackerOf(s[1]) = t /\ s[2] <= observed'[s[1]]
  BY <1>2, <1>4 DEF BurstInv
<1>6. ASSUME NEW t \in Tracker, NEW s \in hits'[t]
      PROVE  TrackerOf(s[1])' = t /\ s[2] <= observed'[s[1]]
  <2>1. CASE s \in hits[t]
    BY <1>3, <1>5, <2>1
  <2>2. CASE s \notin hits[t]
    <3>1. t = TrackerOf(e) /\ s = <<e, observed[e] + 1>>
      BY <1>6, <2>2 DEF Match, Observe, Kept, TypeOK
    <3>s. s[1] = e /\ s[2] = observed[e] + 1
      BY <3>1
    <3>2. TrackerOf(s[1]) = t /\ s[2] <= observed'[s[1]]
      BY <1>1, <1>2, <3>1, <3>s
    <3> QED
      BY <1>3, <3>2
  <2> QED
    BY <2>1, <2>2
<1>7. ASSUME NEW f \in Event, h'.pc \in Working, h'.rule \in {"burst", "count"}, h'.event = f
      PROVE  Repeated(f)'
  <2>1. f = e /\ Matches(f) # {} /\ h'.rule \in Matches(f)
    BY <1>1, <1>7, MatchIsRule DEF Match, Working
  <2>2. stream[f].kind # "quiet" /\ Burst(f)
    BY <1>7, <2>1 DEF Matches
  <2> QED
    BY <2>1, <2>2, BurstSeen
<1>8. ASSUME NEW a \in alerts', a.rule \in {"burst", "count"}
      PROVE  Repeated(a.event)'
  <2>1. a \in alerts /\ a.event \in Event
    BY <1>1 DEF TypeOK
  <2>2. Repeated(a.event)
    BY <1>8, <2>1 DEF BurstInv, BurstIsRepeated
  <2> QED
    BY <1>1, <1>2, <2>1, <2>2, RepeatedStays
<1> QED
  BY <1>6, <1>7, <1>8 DEF BurstInv, BurstIsRepeated

(* Any other step sees nothing new, and publishes only the burst in hand.   *)
LEMMA BurstFrame ==
    ASSUME TypeOK, BurstInv, UNCHANGED <<stream, observed>>,
           \A t \in Tracker : hits'[t] \subseteq hits[t],
           alerts' = alerts \/ (h.pc = "publish" /\ alerts' = Published),
           \/ UNCHANGED h
           \/ h'.pc \notin Working
           \/ h.pc \in Working /\ h'.event = h.event /\ h'.rule = h.rule
    PROVE  BurstInv'
<1>1. \A f : TrackerOf(f)' = TrackerOf(f)
  BY DEF TrackerOf
<1>2. \A f : Repeated(f) => Repeated(f)'
  BY <1>1 DEF Repeated, Near
<1>3. ASSUME NEW e \in Event, h'.pc \in Working, h'.rule \in {"burst", "count"}, h'.event = e
      PROVE  Repeated(e)'
  BY <1>2, <1>3 DEF BurstInv
<1>4. \A a \in alerts' : a.rule \in {"burst", "count"} => Repeated(a.event)
  <2>1. h.pc = "publish" => h.event \in Event /\ h.pc \in Working
    BY DEF TypeOK, Working
  <2> QED
    BY <2>1 DEF BurstInv, BurstIsRepeated, Published
<1>5. \A a \in alerts' : a.rule \in {"burst", "count"} => Repeated(a.event)'
  BY <1>2, <1>4
<1>6. \A t \in Tracker : \A s \in hits'[t] : TrackerOf(s[1])' = t /\ s[2] <= observed'[s[1]]
  BY <1>1 DEF BurstInv
<1> QED
  BY <1>3, <1>5, <1>6 DEF BurstInv, BurstIsRepeated

LEMMA BurstStep == TypeOK /\ TypeOK' /\ BurstInv /\ [Next]_vars => BurstInv'
<1> SUFFICES ASSUME TypeOK, TypeOK', BurstInv, [Next]_vars
             PROVE  BurstInv'
  OBVIOUS
<1> USE DEF buckets, ghosts, counts
<1>g. \A pc : Goto(pc) => h'.pc = pc /\ h'.event = h.event /\ h'.rule = h.rule
  BY DEF Goto, TypeOK
<1>i. Return => h'.pc = "idle"
  BY DEF Return, Idle
<1>1. CASE Fetch
  BY <1>1, BurstFrame DEF Fetch
<1>2. CASE Match
  BY <1>2, BurstMatched
<1>3. CASE CheckDuplicate \/ Mark \/ CheckCooldown \/ StartCooldown
  BY <1>3, <1>g, BurstFrame DEF CheckDuplicate, Mark, CheckCooldown, StartCooldown, Working
<1>4. CASE PublishAlert \/ PublishFails
  BY <1>4, <1>g, BurstFrame DEF PublishAlert, PublishFails, Working
<1>5. CASE Uncool \/ CooldownFails
  BY <1>5, <1>g, BurstFrame DEF Uncool, CooldownFails, Working
<1>6. CASE Unmark \/ Ack \/ MarkFails \/ AckLost
  BY <1>6, <1>i, BurstFrame DEF Unmark, Ack, MarkFails, AckLost, Working
<1>7. CASE UndoFails
  BY <1>7, <1>g, <1>i, BurstFrame DEF UndoFails, Working
<1>8. CASE \E e \in Event : AckWaitExpires(e)
  BY <1>8, BurstFrame DEF AckWaitExpires
<1>9. CASE \E k \in Key : CooldownEnds(k)
  BY <1>9, BurstFrame DEF CooldownEnds
<1>10. CASE Crash
  BY <1>10, BurstFrame DEF Crash, Idle, Working
<1>11. CASE UNCHANGED vars
  BY <1>11, BurstFrame DEF vars
<1> QED
  BY <1>1, <1>2, <1>3, <1>4, <1>5, <1>6, <1>7, <1>8, <1>9, <1>10, <1>11 DEF Next, Handle

LEMMA BurstInit == Init => BurstInv
BY DEF Init, BurstInv, BurstIsRepeated, Idle, Working

(* BurstIsRepeated, for every stream, window and threshold: whatever is     *)
(* redelivered and however often the trackers are lost, a burst is reported *)
(* only for as many events near each other as the threshold says, or for an *)
(* event seen twice.                                                        *)
THEOREM BurstsReal == Spec => []BurstIsRepeated
<1>1. BurstInv => BurstIsRepeated
  BY DEF BurstInv
<1> QED
  BY <1>1, TypeInit, TypeStep, BurstInit, BurstStep, PTL DEF Spec
===============================================================================
