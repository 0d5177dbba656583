--------------------------- MODULE RoeMasterProofs ---------------------------
(* Theorems about RoeMaster, for any set of runs, steps, messages and       *)
(* goroutines, with locks and acknowledgement times that may expire at any  *)
(* moment, and any bound on crashes and failed calls.                       *)
EXTENDS RoeMaster, FiniteSetTheorems, TLAPS

(* What has happened to a run only accumulates. *)
Grows ==
    /\ idemp \subseteq idemp'
    /\ planned \subseteq planned'
    /\ \A s \in Step : report[s] # "none" => report'[s] = report[s]
    /\ \A m \in Msg : delivery[m] # "none" => delivery'[m] # "none"

(* The trigger of the run is recorded and its whole plan stored. *)
Ready(r) == r \in idemp \ Rejected /\ StepsOf(r) \subseteq planned

(* There is a reason to call the run a failure. *)
Justified(r) ==
    \/ r \in Rejected
    \/ \E m \in Approval : RunFor[m] = r /\ Answer[m] = "deny" /\ delivery[m] # "none"
    \/ \E s \in StepsOf(r) : report[s] = "FAILED_SAFE"

(* A record of run r, in the bucket or in a handler, however old it is. *)
Sound(rec, r) ==
    /\ rec.seen \subseteq {s \in StepsOf(r) : report[s] # "none"}
    /\ rec.total \in {0, Cardinality(StepsOf(r))}
    /\ rec.status \notin {"NONE", "CREATED", "FAILED_SAFE"} => Ready(r)
    /\ rec.status = "SUCCEEDED" => \A s \in StepsOf(r) : report[s] = "SUCCEEDED"
    /\ rec.status = "FAILED_SAFE" => Justified(r)

(* What a handler x relies on at the point it has reached. *)
Trusts(x) ==
    x.pc # "idle" =>
    /\ x.of \in Run
    /\ x.msg # NoMsg => x.of = RunFor[x.msg] /\ delivery[x.msg] # "none"
    /\ x.msg = NoMsg => x.pc = "persist_timeout"
    /\ x.pc \in TriggerPC => x.msg \in Trigger
    /\ x.pc \in ResultPC => x.msg \in Step
    /\ x.pc \in ApprovalPC => x.msg \in Approval
    /\ x.pc = "publish" => x.msg \in Trigger \cup Approval
    /\ Sound(x.run, x.of)
    /\ x.pc = "reject" => x.of \in Rejected
    /\ x.pc = "persist_step" => /\ x.of \in idemp \ Rejected
                                /\ StepsOf(x.of) \ x.todo \subseteq planned
    /\ x.pc \in {"persist_step", "publish"} => x.todo \subseteq StepsOf(x.of)
    /\ x.pc \in {"persist_waiting", "persist_planned", "publish", "load_steps",
                 "persist_running", "persist_timeout"} => Ready(x.of)
    /\ x.pc = "publish" /\ x.msg \in Trigger => x.of \notin Supervised
    /\ x.pc \in {"load_steps", "publish"} /\ x.msg \in Approval => Answer[x.msg] = "approve"
    /\ x.pc = "persist_decision" =>
          \/ Answer[x.msg] = "deny" /\ x.run.status = "FAILED_SAFE"
          \/ Answer[x.msg] = "approve" /\ x.run.status = "APPROVED"
    /\ x.pc = "result_put" => x.msg \in Unstored
    /\ x.own /\ x.msg \in Step => x.msg \in Unstored

(* The workers: a step is reported once, after it was released, and stored. *)
Worked ==
    \A s \in Step :
        /\ work[s] = "running" => report[s] = "none"
        /\ work[s] # "idle" \/ report[s] # "none" => published[s] > 0
        /\ delivery[s] # "none" => report[s] # "none"
        /\ s \in results => report[s] # "none"
        /\ report[s] # "none" /\ s \notin Unstored => s \in results

(* The inductive invariant. *)
Inv ==
    /\ TypeOK
    /\ Worked
    /\ PlannedBeforeReleased
    /\ ReleasedByApproval
    /\ \A r \in Run : Sound(runs[r], r)
    /\ \A t \in Thread : Trusts(h[t])

-----------------------------------------------------------------------------
(* The members of the plan are finitely many. *)
LEMMA PlanIsFinite ==
    ASSUME NEW r, NEW S, S \subseteq StepsOf(r)
    PROVE  /\ IsFiniteSet(S)
           /\ Cardinality(S) \in Nat
           /\ Cardinality(S) >= Cardinality(StepsOf(r)) => S = StepsOf(r)
<1>1. IsFiniteSet(StepsOf(r))
  <2>1. StepsOf(r) \in SUBSET Step /\ IsFiniteSet(Step)
    BY MasterAssumption DEF StepsOf
  <2> QED
    BY <2>1, FS_Subset
<1>2. /\ IsFiniteSet(S)
      /\ Cardinality(S) <= Cardinality(StepsOf(r))
      /\ Cardinality(S) = Cardinality(StepsOf(r)) => S = StepsOf(r)
  <2>1. S \in SUBSET StepsOf(r)
    OBVIOUS
  <2> QED
    BY <1>1, <2>1, FS_Subset
<1>3. Cardinality(S) \in Nat /\ Cardinality(StepsOf(r)) \in Nat
  BY <1>1, <1>2, FS_CardinalityType
<1> QED
  BY <1>2, <1>3

(* A record stays sound, and a handler's trust justified, as things happen. *)
LEMMA SoundStays ==
    ASSUME Grows, NEW r \in Run
    PROVE  /\ Ready(r) => Ready(r)'
           /\ Justified(r) => Justified(r)'
           /\ \A rec \in RunRecord : Sound(rec, r) => Sound(rec, r)'
<1>1. Ready(r) => Ready(r)'
  BY DEF Grows, Ready
<1>2. Justified(r) => Justified(r)'
  BY DEF Grows, Justified, StepsOf, Msg
<1>3. ASSUME NEW rec \in RunRecord, Sound(rec, r) PROVE Sound(rec, r)'
  <2>1. (rec.seen \subseteq {s \in StepsOf(r) : report[s] # "none"})'
    BY <1>3 DEF Grows, Sound, StepsOf
  <2>2. rec.status = "SUCCEEDED" => \A s \in StepsOf(r) : report'[s] = "SUCCEEDED"
    BY <1>3 DEF Grows, Sound, StepsOf
  <2> QED
    BY <1>1, <1>2, <1>3, <2>1, <2>2 DEF Sound
<1> QED
  BY <1>1, <1>2, <1>3

LEMMA TrustStays ==
    ASSUME Grows, NEW x \in Handler, Trusts(x)
    PROVE  Trusts(x)'
<1>1. CASE x.pc = "idle"
  BY <1>1 DEF Trusts
<1>2. CASE x.pc # "idle"
  <2>1. x.of \in Run /\ x.run \in RunRecord /\ x.msg \in Msg \cup {NoMsg}
    BY <1>2 DEF Trusts, Handler
  <2>2. /\ Sound(x.run, x.of) => Sound(x.run, x.of)'
        /\ Ready(x.of) => Ready(x.of)'
    BY <2>1, SoundStays
  <2>3. x.msg # NoMsg => x.of = RunFor[x.msg] /\ delivery'[x.msg] # "none"
    BY <1>2, <2>1 DEF Trusts, Grows
  <2>4. x.pc = "persist_step" => /\ x.of \in idemp' \ Rejected
                                 /\ StepsOf(x.of) \ x.todo \subseteq planned'
    BY <1>2 DEF Trusts, Grows
  <2> QED
    BY <1>2, <2>1, <2>2, <2>3, <2>4 DEF Trusts
<1> QED
  BY <1>1, <1>2

-----------------------------------------------------------------------------
(* A handler that moves on is a handler. *)
LEMMA Moves ==
    ASSUME NEW x \in Handler
    PROVE  /\ \A pc \in PC : [x EXCEPT !.pc = pc] \in Handler
           /\ \A pc \in PC, todo \in SUBSET Step :
                 [x EXCEPT !.todo = todo, !.pc = pc] \in Handler
           /\ \A pc \in PC, own \in BOOLEAN : [x EXCEPT !.pc = pc, !.own = own] \in Handler
           /\ \A pc \in PC, ok \in BOOLEAN : [x EXCEPT !.pc = pc, !.ok = ok] \in Handler
           /\ \A pc \in PC, rec \in RunRecord :
                 [x EXCEPT !.pc = pc, !.run = rec] \in Handler
BY DEF Handler

LEMMA Types ==
    /\ \A status \in Status : Blank(status) \in RunRecord
    /\ NoRecord \in RunRecord
    /\ Idle \in Handler
    /\ \A r \in Run : Cardinality(StepsOf(r)) \in Nat
    /\ \A m \in Msg : RunFor[m] \in Run
    /\ \A s \in Step : s \in Msg
    /\ \A t \in Thread : ProcOf[t] \in Proc
<1>1. \A status \in Status : Blank(status) \in RunRecord
  BY DEF Blank, RunRecord, Decision
<1>2. NoRecord \in RunRecord
  BY <1>1 DEF NoRecord, Status
<1>3. Idle \in Handler
  BY <1>2 DEF Idle, Handler
<1>4. \A r \in Run : Cardinality(StepsOf(r)) \in Nat
  BY PlanIsFinite
<1> QED
  BY <1>1, <1>2, <1>3, <1>4, MasterAssumption DEF Msg

(* What the invariant says of a handler that is at work. *)
LEMMA AtWork ==
    ASSUME Inv, NEW t \in Thread, h[t].pc # "idle"
    PROVE  /\ h[t] \in Handler
           /\ Of(t) \in Run
           /\ h[t].of = Of(t)
           /\ h[t].run \in RunRecord
           /\ h[t].todo \in SUBSET Step
           /\ Trusts(h[t])
           /\ h[t].msg # NoMsg => h[t].msg \in Msg
           /\ \A status \in Status : [h[t].run EXCEPT !.status = status] \in RunRecord
<1>1. h[t] \in Handler /\ Trusts(h[t])
  BY DEF Inv, TypeOK
<1>2. Of(t) \in Run
  BY <1>1 DEF Trusts, Of
<1>3. h[t].run \in RunRecord /\ h[t].msg \in Msg \cup {NoMsg} /\ h[t].todo \in SUBSET Step
  BY <1>1 DEF Handler
<1>4. \A status \in Status : [h[t].run EXCEPT !.status = status] \in RunRecord
  BY <1>3 DEF RunRecord
<1> QED
  BY <1>1, <1>2, <1>3, <1>4 DEF Of

(* Reconciliation makes a record from a record. *)
LEMMA ReconciledType ==
    ASSUME Inv, NEW rec \in RunRecord, NEW r \in Run
    PROVE  Reconciled(rec, r) \in RunRecord
<1> DEFINE plan == planned \cap StepsOf(r)
           total == IF plan = {} THEN rec.total ELSE Cardinality(plan)
           all == [rec EXCEPT !.seen = @ \cup (plan \cap results), !.total = total]
<1>1. Cardinality(plan) \in Nat
  BY PlanIsFinite
<1>2. total \in Nat
  BY <1>1 DEF RunRecord
<1>3. plan \cap results \subseteq Step
  BY DEF StepsOf
<1>4. all \in RunRecord
  BY <1>2, <1>3 DEF RunRecord
<1>5. Counted(all) \in Status
  BY DEF Counted, Status, Terminal
<1> QED
  BY <1>4, <1>5 DEF RunRecord, Reconciled

-----------------------------------------------------------------------------
(* Goroutine t goes on as y, which may rely on what Trusts says. *)
Turns(t) == \E y \in Handler : h' = [h EXCEPT ![t] = y] /\ (Grows => Trusts(y)')

LEMMA Rests == ASSUME NEW t \in Thread, h' = [h EXCEPT ![t] = Idle] PROVE Turns(t)
BY Types DEF Turns, Trusts, Idle

(* A handler that keeps its message and its knowledge, and knows what its   *)
(* new point asks for.                                                     *)
LEMMA Onward ==
    ASSUME Grows, NEW x \in Handler, NEW y \in Handler, x.pc # "idle", Trusts(x),
           y.msg = x.msg, y.of = x.of, x.msg \in Msg,
           y.pc \notin {"idle", "persist_timeout"},
           y.pc \in TriggerPC => x.msg \in Trigger,
           y.pc \in ResultPC => x.msg \in Step,
           y.pc \in ApprovalPC => x.msg \in Approval,
           y.pc = "publish" => x.msg \in Trigger \cup Approval,
           Sound(y.run, y.of)',
           y.pc = "reject" => y.of \in Rejected,
           y.pc = "persist_step" => /\ y.of \in idemp' \ Rejected
                                    /\ StepsOf(y.of) \ y.todo \subseteq planned',
           y.pc \in {"persist_step", "publish"} => y.todo \subseteq StepsOf(y.of),
           y.pc \in {"persist_waiting", "persist_planned", "publish", "load_steps",
                     "persist_running"} => Ready(y.of)',
           y.pc = "publish" /\ x.msg \in Trigger => y.of \notin Supervised,
           y.pc \in {"load_steps", "publish"} /\ x.msg \in Approval
               => Answer[x.msg] = "approve",
           y.pc = "persist_decision" =>
               \/ Answer[x.msg] = "deny" /\ y.run.status = "FAILED_SAFE"
               \/ Answer[x.msg] = "approve" /\ y.run.status = "APPROVED",
           y.pc = "result_put" => x.msg \in Unstored,
           y.own /\ x.msg \in Step => x.msg \in Unstored
    PROVE  Trusts(y)'
<1>1. Trusts(x)'
  BY TrustStays
<1>2. x.msg # NoMsg
  BY MasterAssumption
<1> QED
  BY <1>1, <1>2 DEF Trusts

(* The points of the kinds of handlers are different. *)
LEMMA Points ==
    /\ TriggerPC \cap ResultPC = {} /\ TriggerPC \cap ApprovalPC = {}
    /\ ResultPC \cap ApprovalPC = {}
    /\ "ack" \notin TriggerPC \cup ResultPC \cup ApprovalPC
    /\ "publish" \notin TriggerPC \cup ResultPC \cup ApprovalPC
    /\ "persist_timeout" \notin TriggerPC \cup ResultPC \cup ApprovalPC
    /\ "idle" \notin PC
    /\ TriggerPC \subseteq PC /\ ResultPC \subseteq PC /\ ApprovalPC \subseteq PC
    /\ {"ack", "publish", "persist_timeout"} \subseteq PC
BY DEF TriggerPC, ResultPC, ApprovalPC, PC

(* The handler of a trigger *)
LEMMA TriggerTurns ==
    ASSUME Inv, NEW t \in Thread, TriggerStep(t)
    PROVE  Turns(t)
<1>x. PICK x \in Handler : x = h[t]
  BY DEF Inv, TypeOK
<1>0. x.pc # "idle" /\ x.pc \in TriggerPC
  BY <1>x DEF TriggerStep, IdempGet, GroupGet, GroupPut, PersistCreated,
         PersistIdempotency, Reject, PersistStep, PersistWaiting, Request,
         PersistPlanned, TriggerPC
<1>r. PICK r \in Run : r = x.of /\ r = Of(t)
  BY <1>x, <1>0, AtWork
<1>1. x.todo \in SUBSET Step /\ Trusts(x) /\ x.msg \in Trigger /\ x.msg \in Msg
  BY <1>x, <1>0, AtWork DEF Trusts, Msg
<1>2. x.msg \notin Step \cup Approval
  BY <1>1, MasterAssumption
<1>3. Grows => Sound(x.run, x.of)'
  BY <1>0, <1>1, TrustStays DEF Trusts
<1>h. h \in [Thread -> Handler]
  BY DEF Inv, TypeOK
(* A move that needs no new knowledge. *)
<1>4. ASSUME NEW pc \in {"ack", "group_get", "group_put", "persist_created",
                         "persist_idemp", "request"},
             Goto(t, pc)
      PROVE  Turns(t)
  <2> DEFINE y == [x EXCEPT !.pc = pc]
  <2>1. pc \in PC
    BY DEF PC, TriggerPC
  <2>2. y \in Handler /\ h' = [h EXCEPT ![t] = y]
    BY <1>4, <1>x, <2>1, Moves DEF Goto
  <2>3. y.pc = pc /\ y.msg = x.msg /\ y.of = x.of /\ y.run = x.run /\ y.own = x.own
    BY DEF Handler
  <2> HIDE DEF y
  <2>4. pc \in {"ack"} \cup TriggerPC
    BY DEF TriggerPC
  <2>5. ASSUME Grows PROVE Trusts(y)'
    BY <1>0, <1>1, <1>2, <1>3, <2>2, <2>3, <2>4, <2>5, Onward, Points
  <2> QED
    BY <2>2, <2>5 DEF Turns
<1>5. IdempGet(t) \/ GroupGet(t) \/ GroupPut(t) \/ PersistCreated(t) => Turns(t)
  BY <1>4 DEF IdempGet, GroupGet, GroupPut, PersistCreated
<1>6. Reject(t) \/ Request(t) \/ PersistWaiting(t) \/ PersistPlanned(t) => Turns(t)
  BY <1>4 DEF Reject, Request, PersistWaiting, PersistPlanned
<1>7. ASSUME PersistIdempotency(t) PROVE Turns(t)
  <2>0. x.pc = "persist_idemp" /\ r \in idemp'
    BY <1>7, <1>x, <1>r DEF PersistIdempotency
  <2>1. CASE r \in Rejected
    <3> DEFINE y == [x EXCEPT !.pc = "reject"]
    <3>1. "reject" \in TriggerPC
      BY DEF TriggerPC
    <3>2. y \in Handler /\ h' = [h EXCEPT ![t] = y]
      BY <1>7, <1>x, <1>r, <2>1, <3>1, Moves, Points DEF PersistIdempotency, Goto
    <3>3. /\ y.pc = "reject" /\ y.msg = x.msg /\ y.of = x.of /\ y.run = x.run
          /\ y.own = x.own
      BY DEF Handler
    <3> HIDE DEF y
    <3>4. ASSUME Grows PROVE Trusts(y)'
      BY <1>0, <1>1, <1>2, <1>3, <1>r, <2>1, <3>1, <3>2, <3>3, <3>4, Onward, Points
    <3> QED
      BY <3>2, <3>4 DEF Turns
  <2>2. CASE r \notin Rejected
    <3>1. PICK pc : pc = IF StepsOf(r) = {} THEN Planned(t) ELSE "persist_step"
      OBVIOUS
    <3>2. /\ pc \in {"persist_step", "persist_waiting", "publish", "persist_planned"}
          /\ pc = "publish" => r \notin Supervised
          /\ pc # "persist_step" => StepsOf(r) = {}
      BY <1>r, <3>1 DEF Planned
    <3>3. pc \in TriggerPC \cup {"publish"} /\ StepsOf(r) \in SUBSET Step
      BY <3>2 DEF TriggerPC, StepsOf
    <3> DEFINE y == [x EXCEPT !.todo = StepsOf(r), !.pc = pc]
    <3>4. y \in Handler /\ h' = [h EXCEPT ![t] = y]
      BY <1>7, <1>x, <1>r, <2>2, <3>1, <3>3, Moves, Points DEF PersistIdempotency, Loop
    <3>5. pc # "persist_step" => Ready(r)'
      BY <2>0, <2>2, <3>2 DEF Ready
    <3>6. /\ y.pc = pc /\ y.of = x.of /\ y.msg = x.msg /\ y.todo = StepsOf(r)
          /\ y.run = x.run /\ y.own = x.own
      BY DEF Handler
    <3> HIDE DEF y
    <3>7. ASSUME Grows PROVE Trusts(y)'
      BY <1>0, <1>1, <1>2, <1>3, <1>r, <2>0, <2>2, <3>2, <3>3, <3>4, <3>5, <3>6, <3>7,
         Onward, Points
    <3> QED
      BY <3>4, <3>7 DEF Turns
  <2> QED
    BY <2>1, <2>2
<1>8. ASSUME NEW s \in Step, PersistStep(t, s) PROVE Turns(t)
  <2>0. /\ x.pc = "persist_step" /\ s \in x.todo /\ s \in planned'
        /\ r \in idemp \ Rejected /\ StepsOf(r) \ x.todo \subseteq planned
        /\ x.todo \subseteq StepsOf(r)
    BY <1>1, <1>8, <1>x, <1>r DEF PersistStep, Trusts
  <2>1. PICK pc : pc = IF x.todo = {s} THEN Planned(t) ELSE "persist_step"
    OBVIOUS
  <2>2. /\ pc \in {"persist_step", "persist_waiting", "publish", "persist_planned"}
        /\ pc = "publish" => r \notin Supervised
        /\ pc # "persist_step" => x.todo = {s}
    BY <1>r, <2>1 DEF Planned
  <2> DEFINE todo == IF x.todo = {s} THEN StepsOf(r) ELSE x.todo \ {s}
             y == [x EXCEPT !.todo = todo, !.pc = pc]
  <2>3. pc \in TriggerPC \cup {"publish"} /\ todo \in SUBSET Step
    BY <1>1, <2>2 DEF TriggerPC, StepsOf
  <2>4. y \in Handler /\ h' = [h EXCEPT ![t] = y]
    BY <1>8, <1>x, <1>r, <2>1, <2>3, Moves, Points DEF PersistStep
  <2>5. ASSUME Grows
        PROVE  /\ pc = "persist_step" => StepsOf(r) \ todo \subseteq planned'
               /\ pc # "persist_step" => Ready(r)'
               /\ r \in idemp' \ Rejected
               /\ todo \subseteq StepsOf(r)
    BY <2>0, <2>2, <2>5 DEF Ready, Grows
  <2>6. /\ y.pc = pc /\ y.of = x.of /\ y.msg = x.msg /\ y.todo = todo
        /\ y.run = x.run /\ y.own = x.own
    BY DEF Handler
  <2> HIDE DEF y, todo
  <2>7. ASSUME Grows PROVE Trusts(y)'
    BY <1>0, <1>1, <1>2, <1>3, <1>r, <2>2, <2>3, <2>4, <2>5, <2>6, <2>7, Onward, Points
  <2> QED
    BY <2>4, <2>7 DEF Turns
<1> QED
  BY <1>5, <1>6, <1>7, <1>8 DEF TriggerStep

-----------------------------------------------------------------------------
(* A result is about a step that was released and has been reported.        *)
LEMMA ResultIsReported ==
    ASSUME Inv, NEW s \in Step, delivery[s] # "none"
    PROVE  /\ report[s] # "none"
           /\ Ready(RunFor[s])
           /\ s \in StepsOf(RunFor[s])
           /\ s \notin results => s \in Unstored
<1>1. report[s] # "none" /\ published[s] > 0 /\ (s \notin results => s \in Unstored)
  BY DEF Inv, Worked
<1>2. Ready(RunFor[s])
  BY <1>1 DEF Inv, PlannedBeforeReleased, Ready
<1> QED
  BY <1>1, <1>2 DEF StepsOf

LEMMA SeenSound ==
    ASSUME Inv, NEW r \in Run, Ready(r), NEW rec \in RunRecord, NEW s \in StepsOf(r),
           report[s] # "none",
           rec = IF runs[r] = NoRecord THEN Blank("RUNNING") ELSE runs[r]
    PROVE  /\ [rec EXCEPT !.seen = @ \cup {s}] \in RunRecord
           /\ Sound([rec EXCEPT !.seen = @ \cup {s}], r)
<1>1. Sound(rec, r)
  <2>1. CASE runs[r] = NoRecord
    BY <2>1 DEF Sound, Blank
  <2>2. CASE runs[r] # NoRecord
    BY <2>2 DEF Inv
  <2> QED
    BY <2>1, <2>2
<1> DEFINE new == [rec EXCEPT !.seen = @ \cup {s}]
<1>2. s \in Step
  BY DEF StepsOf
<1>3. /\ new \in RunRecord /\ new.seen = rec.seen \cup {s} /\ new.total = rec.total
      /\ new.status = rec.status
  BY <1>2 DEF RunRecord
<1> QED
  BY <1>1, <1>3 DEF Sound

LEMMA ReconciledSound ==
    ASSUME Inv, NEW r \in Run, Ready(r), NEW rec \in RunRecord, Sound(rec, r)
    PROVE  Sound(Reconciled(rec, r), r)
<1> DEFINE plan == planned \cap StepsOf(r)
           total == IF plan = {} THEN rec.total ELSE Cardinality(plan)
           all == [rec EXCEPT !.seen = @ \cup (plan \cap results), !.total = total]
           new == Reconciled(rec, r)
<1>1. plan = StepsOf(r)
  BY DEF Ready
<1>2. /\ all.seen = rec.seen \cup (plan \cap results)
      /\ all.total = total
      /\ new.seen = all.seen /\ new.total = all.total
      /\ new.status = Counted(all)
  BY DEF RunRecord, Reconciled
<1>3. all.seen \subseteq {s \in StepsOf(r) : report[s] # "none"}
  <2>1. rec.seen \subseteq {s \in StepsOf(r) : report[s] # "none"}
    BY DEF Sound
  <2>2. plan \cap results \subseteq {s \in StepsOf(r) : report[s] # "none"}
    BY DEF Inv, Worked, StepsOf
  <2> QED
    BY <1>2, <2>1, <2>2
<1>4. total \in {0, Cardinality(StepsOf(r))}
  <2>1. rec.total \in {0, Cardinality(StepsOf(r))}
    BY DEF Sound
  <2>2. Cardinality(plan) = Cardinality(StepsOf(r))
    BY <1>1
  <2> HIDE DEF plan
  <2> QED
    BY <2>1, <2>2
<1>5. new.status = "FAILED_SAFE" => Justified(r)
  BY <1>2, <1>3 DEF Counted, FailedIn, Justified
<1>6. ASSUME new.status = "SUCCEEDED" PROVE \A s \in StepsOf(r) : report[s] = "SUCCEEDED"
  <2>1. total > 0 /\ Cardinality(SucceededIn(all)) >= total
    BY <1>2, <1>6 DEF Counted
  <2>2. SucceededIn(all) \subseteq StepsOf(r)
    BY <1>3 DEF SucceededIn
  <2>3. total = Cardinality(StepsOf(r))
    BY <1>4, <2>1
  <2>4. SucceededIn(all) = StepsOf(r)
    BY <2>1, <2>2, <2>3, PlanIsFinite
  <2> QED
    BY <2>4 DEF SucceededIn
<1>7. Sound(new, r)
  <2> HIDE DEF new, all, total
  <2> QED
    BY <1>2, <1>3, <1>4, <1>5, <1>6 DEF Sound
<1> QED
  BY <1>7

(* The handler of a result *)
LEMMA ResultTurns ==
    ASSUME Inv, NEW t \in Thread, ResultStep(t)
    PROVE  Turns(t)
<1>x. PICK x \in Handler : x = h[t]
  BY DEF Inv, TypeOK
<1>0. x.pc # "idle" /\ x.pc \in ResultPC
  BY <1>x DEF ResultStep, LockGet, LockPut, ResultGet, ResultPut, RunGet, Reconcile,
         PersistResult, Release, ResultPC
<1>r. PICK r \in Run : r = x.of /\ r = Of(t)
  BY <1>x, <1>0, AtWork
<1>1. /\ Trusts(x) /\ x.msg \in Step /\ x.msg \in Msg /\ x.msg # NoMsg
      /\ x.run \in RunRecord /\ Sound(x.run, r)
      /\ r = RunFor[x.msg] /\ delivery[x.msg] # "none"
  BY <1>x, <1>0, <1>r, AtWork, MasterAssumption DEF Trusts, Msg
<1>2. x.msg \notin Trigger \cup Approval
  BY <1>1, MasterAssumption
<1>3. /\ report[x.msg] # "none" /\ Ready(r) /\ x.msg \in StepsOf(r)
      /\ x.msg \notin results => x.msg \in Unstored
  BY <1>1, ResultIsReported
<1>4. x.own => x.msg \in Unstored
  BY <1>0, <1>1 DEF Trusts
<1>h. h \in [Thread -> Handler]
  BY DEF Inv, TypeOK
<1>p. ResultPC \subseteq PC
  BY Points
(* A move to y that brings the record along, possibly a new one. *)
<1>5. ASSUME NEW y \in Handler, h' = [h EXCEPT ![t] = y],
             y.pc \in ResultPC \cup {"ack"}, y.msg = x.msg, y.of = r, Sound(y.run, r),
             y.run \in RunRecord, y.own => x.msg \in Unstored,
             y.pc = "result_put" => x.msg \in Unstored
      PROVE  Turns(t)
  <2>1. ASSUME Grows PROVE Trusts(y)'
    <3>1. Sound(y.run, r)'
      BY <1>5, <2>1, SoundStays
    <3>2. y.pc \notin {"reject", "persist_step", "publish", "persist_waiting",
                       "persist_planned", "load_steps", "persist_running",
                       "persist_decision", "idle", "persist_timeout"}
      BY <1>5 DEF ResultPC
    <3> QED
      BY <1>0, <1>1, <1>2, <1>r, <1>5, <2>1, <3>1, <3>2, Onward, Points
  <2> QED
    BY <1>5, <2>1 DEF Turns
<1>6. ASSUME NEW pc \in ResultPC, Goto(t, pc), pc = "result_put" => x.msg \in Unstored
      PROVE  Turns(t)
  <2> DEFINE y == [x EXCEPT !.pc = pc]
  <2>1. y \in Handler /\ h' = [h EXCEPT ![t] = y]
    BY <1>6, <1>x, <1>p, Moves DEF Goto
  <2>2. y.pc = pc /\ y.msg = x.msg /\ y.of = r /\ y.run = x.run /\ y.own = x.own
    BY <1>r DEF Handler
  <2> HIDE DEF y
  <2> QED
    BY <1>1, <1>4, <1>5, <1>6, <2>1, <2>2
<1>7. ASSUME LockGet(t) PROVE Turns(t)
  <2>1. CASE lock[Of(t)] \in {"none", ProcOf[t]}
    <3>1. h' = [h EXCEPT ![t] = [x EXCEPT !.pc = "lock_put"]]
      BY <1>7, <1>x, <2>1 DEF LockGet
    <3>2. Goto(t, "lock_put")
      BY <1>x, <3>1 DEF Goto
    <3> QED
      BY <1>6, <3>2 DEF ResultPC
  <2>2. CASE lock[Of(t)] \notin {"none", ProcOf[t]}
    BY <1>7, <2>2, Rests DEF LockGet
  <2> QED
    BY <2>1, <2>2
<1>8. ASSUME LockPut(t) PROVE Turns(t)
  BY <1>6, <1>8 DEF LockPut, ResultPC
<1>9. ASSUME ResultGet(t) PROVE Turns(t)
  <2>1. CASE x.msg \in results
    BY <1>6, <1>9, <1>x, <2>1 DEF ResultGet, ResultPC
  <2>2. CASE x.msg \notin results
    BY <1>3, <1>6, <1>9, <1>x, <2>2 DEF ResultGet, ResultPC
  <2> QED
    BY <2>1, <2>2
<1>10. ASSUME ResultPut(t) PROVE Turns(t)
  <2> DEFINE y == [x EXCEPT !.pc = "run_get", !.own = TRUE]
  <2>1. x.pc = "result_put"
    BY <1>10, <1>x DEF ResultPut
  <2>2. x.msg \in Unstored
    BY <1>1, <2>1 DEF Trusts
  <2>3. y \in Handler /\ h' = [h EXCEPT ![t] = y]
    BY <1>10, <1>x, <1>p, Moves DEF ResultPut, ResultPC
  <2>4. y.pc = "run_get" /\ y.msg = x.msg /\ y.of = r /\ y.run = x.run
    BY <1>r DEF Handler
  <2>5. "run_get" \in ResultPC
    BY DEF ResultPC
  <2> HIDE DEF y
  <2> QED
    BY <1>1, <1>5, <2>2, <2>3, <2>4, <2>5
<1>11. ASSUME RunGet(t) PROVE Turns(t)
  <2>1. PICK rec \in RunRecord :
           rec = IF runs[r] = NoRecord THEN Blank("RUNNING") ELSE runs[r]
    <3>1. "RUNNING" \in Status
      BY DEF Status
    <3> QED
      BY <3>1, Types DEF Inv, TypeOK
  <2> DEFINE new == [rec EXCEPT !.seen = @ \cup {x.msg}]
             y == [x EXCEPT !.pc = "reconcile", !.run = new]
  <2>2. new \in RunRecord /\ Sound(new, r)
    BY <1>3, <2>1, SeenSound
  <2>3. "reconcile" \in ResultPC
    BY DEF ResultPC
  <2>4. h' = [h EXCEPT ![t] = y]
    BY <1>11, <1>x, <1>r, <2>1 DEF RunGet
  <2> HIDE DEF new
  <2>5. y \in Handler
    BY <2>2, <2>3, <1>p, Moves
  <2>6. y.pc = "reconcile" /\ y.msg = x.msg /\ y.of = r /\ y.run = new /\ y.own = x.own
    BY <1>r DEF Handler
  <2> HIDE DEF y
  <2> QED
    BY <1>4, <1>5, <2>2, <2>3, <2>4, <2>5, <2>6
<1>12. ASSUME Reconcile(t) PROVE Turns(t)
  <2>1. PICK new : new = Reconciled(x.run, r)
    OBVIOUS
  <2> DEFINE y == [x EXCEPT !.pc = "persist_run", !.run = new]
  <2>2. new \in RunRecord /\ Sound(new, r)
    BY <1>1, <1>3, <2>1, ReconciledType, ReconciledSound
  <2>3. "persist_run" \in ResultPC
    BY DEF ResultPC
  <2>4. h' = [h EXCEPT ![t] = y]
    BY <1>12, <1>x, <1>r, <2>1 DEF Reconcile
  <2>5. y \in Handler
    BY <2>2, <2>3, <1>p, Moves
  <2>6. y.pc = "persist_run" /\ y.msg = x.msg /\ y.of = r /\ y.run = new /\ y.own = x.own
    BY <1>r DEF Handler
  <2> HIDE DEF y
  <2> QED
    BY <1>4, <1>5, <2>2, <2>3, <2>4, <2>5, <2>6
<1>13. ASSUME PersistResult(t) PROVE Turns(t)
  <2> DEFINE y == [x EXCEPT !.pc = "release", !.ok = TRUE]
  <2>1. "release" \in ResultPC
    BY DEF ResultPC
  <2>2. y \in Handler /\ h' = [h EXCEPT ![t] = y]
    BY <1>13, <1>x, <1>p, <2>1, Moves DEF PersistResult
  <2>3. y.pc = "release" /\ y.msg = x.msg /\ y.of = r /\ y.run = x.run /\ y.own = x.own
    BY <1>r DEF Handler
  <2> HIDE DEF y
  <2> QED
    BY <1>1, <1>4, <1>5, <2>1, <2>2, <2>3
<1>14. ASSUME Release(t) PROVE Turns(t)
  <2>1. CASE x.ok
    <3> DEFINE y == [x EXCEPT !.pc = "ack", !.own = FALSE]
    <3>1. y \in Handler /\ h' = [h EXCEPT ![t] = y]
      BY <1>14, <1>x, <2>1, Moves, Points DEF Release
    <3>2. y.pc = "ack" /\ y.msg = x.msg /\ y.of = r /\ y.run = x.run /\ y.own = FALSE
      BY <1>r DEF Handler
    <3> HIDE DEF y
    <3> QED
      BY <1>1, <1>5, <3>1, <3>2
  <2>2. CASE ~ x.ok
    BY <1>14, <1>x, <2>2, Rests DEF Release
  <2> QED
    BY <2>1, <2>2
<1> QED
  BY <1>7, <1>8, <1>9, <1>10, <1>11, <1>12, <1>13, <1>14 DEF ResultStep

(* The handler of an approval *)
LEMMA ApprovalTurns ==
    ASSUME Inv, NEW t \in Thread, ApprovalStep(t)
    PROVE  Turns(t)
<1>x. PICK x \in Handler : x = h[t]
  BY DEF Inv, TypeOK
<1>0. x.pc # "idle" /\ x.pc \in ApprovalPC
  BY <1>x DEF ApprovalStep, ApprovalGet, ApprovalPut, LoadRun, PersistDecision,
         LoadSteps, PersistRunning, ApprovalPC
<1>r. PICK r \in Run : r = x.of /\ r = Of(t)
  BY <1>x, <1>0, AtWork
<1>1. /\ Trusts(x) /\ x.msg \in Approval /\ x.msg \in Msg /\ x.msg # NoMsg
      /\ x.run \in RunRecord /\ Sound(x.run, r) /\ x.todo \in SUBSET Step
      /\ r = RunFor[x.msg] /\ delivery[x.msg] # "none"
      /\ Answer[x.msg] \in {"approve", "deny"}
  BY <1>x, <1>0, <1>r, AtWork, MasterAssumption DEF Trusts, Msg
<1>2. x.msg \notin Trigger \cup Step
  BY <1>1, MasterAssumption
<1>h. h \in [Thread -> Handler]
  BY DEF Inv, TypeOK
<1>p. ApprovalPC \cup {"ack", "publish"} \subseteq PC
  BY Points
(* A move to y that may bring a new record and new knowledge along. *)
<1>3. ASSUME NEW y \in Handler, h' = [h EXCEPT ![t] = y],
             y.pc \in ApprovalPC \cup {"ack", "publish"}, y.msg = x.msg, y.of = r,
             Sound(y.run, r), y.run \in RunRecord,
             y.pc \in {"load_steps", "publish", "persist_running"}
                 => Ready(r) /\ Answer[x.msg] = "approve",
             y.pc = "publish" => y.todo \subseteq StepsOf(r),
             y.pc = "persist_decision" =>
                 \/ Answer[x.msg] = "deny" /\ y.run.status = "FAILED_SAFE"
                 \/ Answer[x.msg] = "approve" /\ y.run.status = "APPROVED"
      PROVE  Turns(t)
  <2>1. ASSUME Grows PROVE Trusts(y)'
    <3>1. Sound(y.run, r)' /\ (Ready(r) => Ready(r)')
      BY <1>3, <2>1, SoundStays
    <3>2. y.pc \notin {"reject", "persist_step", "persist_waiting", "persist_planned",
                       "result_put", "idle", "persist_timeout"}
      BY <1>3 DEF ApprovalPC
    <3> QED
      BY <1>0, <1>1, <1>2, <1>r, <1>3, <2>1, <3>1, <3>2, Onward, Points
  <2> QED
    BY <1>3, <2>1 DEF Turns
<1>4. ASSUME NEW pc \in {"approval_put", "ack", "load_steps"}, Goto(t, pc),
             pc = "load_steps" => Ready(r) /\ Answer[x.msg] = "approve"
      PROVE  Turns(t)
  <2> DEFINE y == [x EXCEPT !.pc = pc]
  <2>1. pc \in ApprovalPC \cup {"ack"}
    BY DEF ApprovalPC
  <2>2. y \in Handler /\ h' = [h EXCEPT ![t] = y]
    BY <1>4, <1>x, <1>p, <2>1, Moves DEF Goto
  <2>3. y.pc = pc /\ y.msg = x.msg /\ y.of = r /\ y.run = x.run
    BY <1>r DEF Handler
  <2> HIDE DEF y
  <2> QED
    BY <1>1, <1>3, <1>4, <2>1, <2>2, <2>3
<1>5. ASSUME ApprovalGet(t) PROVE Turns(t)
  BY <1>4, <1>5 DEF ApprovalGet
<1>6. ASSUME ApprovalPut(t) PROVE Turns(t)
  <2> DEFINE y == [x EXCEPT !.pc = "load_run", !.own = TRUE]
  <2>1. "load_run" \in ApprovalPC
    BY DEF ApprovalPC
  <2>2. y \in Handler /\ h' = [h EXCEPT ![t] = y]
    BY <1>6, <1>x, <1>p, <2>1, Moves DEF ApprovalPut
  <2>3. y.pc = "load_run" /\ y.msg = x.msg /\ y.of = r /\ y.run = x.run
    BY <1>r DEF Handler
  <2> HIDE DEF y
  <2> QED
    BY <1>1, <1>3, <2>1, <2>2, <2>3
<1>7. ASSUME LoadRun(t) PROVE Turns(t)
  <2>1. PICK rec \in RunRecord : rec = runs[r] /\ Sound(rec, r)
    BY DEF Inv, TypeOK
  <2> DEFINE answer == Answer[x.msg]
  <2>2. CASE ~ Eligible(rec, answer)
    <3> DEFINE y == [x EXCEPT !.pc = "ack", !.own = FALSE]
    <3>1. y \in Handler /\ h' = [h EXCEPT ![t] = y]
      BY <1>7, <1>x, <1>r, <1>p, <2>1, <2>2, Moves DEF LoadRun
    <3>2. y.pc = "ack" /\ y.msg = x.msg /\ y.of = r /\ y.run = x.run
      BY <1>r DEF Handler
    <3> HIDE DEF y
    <3> QED
      BY <1>1, <1>3, <3>1, <3>2
  <2>3. ASSUME NEW pc \in {"persist_decision", "load_steps"}, NEW status \in Status,
               h' = [h EXCEPT ![t].pc = pc,
                              ![t].run = [rec EXCEPT !.status = status,
                                                     !.decision = answer]],
               \/ pc = "persist_decision" /\ answer = "deny" /\ status = "FAILED_SAFE"
               \/ /\ answer = "approve" /\ Ready(r)
                  /\ \/ pc = "persist_decision" /\ status = "APPROVED"
                     \/ pc = "load_steps" /\ status = "RUNNING"
        PROVE  Turns(t)
    <3> DEFINE new == [rec EXCEPT !.status = status, !.decision = answer]
               y == [x EXCEPT !.pc = pc, !.run = new]
    <3>1. /\ new \in RunRecord /\ new.status = status /\ new.seen = rec.seen
          /\ new.total = rec.total
      BY <1>1 DEF RunRecord, Decision
    <3>2. answer = "deny" => Justified(r)
      BY <1>1 DEF Justified
    <3>3. h' = [h EXCEPT ![t] = y]
      BY <1>x, <2>3
    <3> HIDE DEF new
    <3>4. Sound(new, r)
      BY <2>1, <2>3, <3>1, <3>2 DEF Sound
    <3>5. pc \in ApprovalPC
      BY DEF ApprovalPC
    <3>6. y \in Handler
      BY <1>p, <3>1, <3>5, Moves
    <3>7. y.pc = pc /\ y.msg = x.msg /\ y.of = r /\ y.run = new
      BY <1>r DEF Handler
    <3> HIDE DEF y
    <3> QED
      BY <1>1, <1>3, <2>3, <3>1, <3>3, <3>4, <3>5, <3>6, <3>7
  <2>4. ASSUME Eligible(rec, answer), answer = "approve" PROVE Ready(r)
    BY <2>1, <2>4 DEF Eligible, Sound
  <2>5. {"FAILED_SAFE", "RUNNING", "APPROVED"} \subseteq Status
    BY DEF Status, Terminal
  <2> QED
    BY <1>7, <1>x, <1>r, <2>1, <2>2, <2>3, <2>4, <2>5 DEF LoadRun
<1>8. ASSUME PersistDecision(t) PROVE Turns(t)
  <2>1. CASE Answer[x.msg] = "deny"
    BY <1>4, <1>8, <1>x, <2>1 DEF PersistDecision
  <2>2. CASE Answer[x.msg] # "deny"
    <3>1. x.pc = "persist_decision"
      BY <1>8, <1>x DEF PersistDecision
    <3>2. Answer[x.msg] = "approve" /\ x.run.status = "APPROVED"
      BY <1>1, <2>2, <3>1 DEF Trusts
    <3>3. Ready(r)
      BY <1>1, <3>2 DEF Sound
    <3> QED
      BY <1>4, <1>8, <1>x, <2>2, <3>2, <3>3 DEF PersistDecision
  <2> QED
    BY <2>1, <2>2
<1>9. ASSUME LoadSteps(t) PROVE Turns(t)
  <2>1. x.pc = "load_steps"
    BY <1>9, <1>x DEF LoadSteps
  <2>2. Ready(r) /\ Answer[x.msg] = "approve"
    BY <1>1, <1>r, <2>1 DEF Trusts
  <2>3. PICK todo : todo = planned \cap StepsOf(r)
    OBVIOUS
  <2> DEFINE pc == IF todo = {} THEN "persist_running" ELSE "publish"
             y == [x EXCEPT !.todo = todo, !.pc = pc]
  <2>4. /\ todo \in SUBSET Step
        /\ todo \subseteq StepsOf(r)
        /\ pc \in ApprovalPC \cup {"publish"}
    BY <2>3 DEF ApprovalPC, StepsOf
  <2>5. y \in Handler /\ h' = [h EXCEPT ![t] = y]
    BY <1>9, <1>x, <1>r, <1>p, <2>3, <2>4, Moves DEF LoadSteps, Loop
  <2>6. y.pc = pc /\ y.msg = x.msg /\ y.of = r /\ y.run = x.run /\ y.todo = todo
    BY <1>r DEF Handler
  <2>7. pc # "persist_decision"
    OBVIOUS
  <2> HIDE DEF y, pc
  <2> QED
    BY <1>1, <1>3, <2>2, <2>4, <2>5, <2>6, <2>7
<1>10. ASSUME PersistRunning(t) PROVE Turns(t)
  BY <1>4, <1>10 DEF PersistRunning
<1> QED
  BY <1>5, <1>6, <1>7, <1>8, <1>9, <1>10 DEF ApprovalStep

(* The release of a step, by the handler of a trigger or of an approval *)
LEMMA PublishTurns ==
    ASSUME Inv, NEW t \in Thread, NEW s \in Step, Publish(t, s)
    PROVE  Turns(t)
<1>x. PICK x \in Handler : x = h[t]
  BY DEF Inv, TypeOK
<1>0. x.pc = "publish" /\ x.pc # "idle"
  BY <1>x DEF Publish
<1>r. PICK r \in Run : r = x.of /\ r = Of(t)
  BY <1>x, <1>0, AtWork
<1>1. /\ Trusts(x) /\ x.msg \in Trigger \cup Approval /\ x.msg \in Msg
      /\ Sound(x.run, r) /\ Ready(r) /\ x.todo \subseteq StepsOf(r)
      /\ x.msg \in Trigger => r \notin Supervised
      /\ x.msg \in Approval => Answer[x.msg] = "approve"
      /\ x.todo \in SUBSET Step
      /\ x.run \in RunRecord
  BY <1>x, <1>0, <1>r, AtWork DEF Trusts, Msg
<1>2. x.msg \notin Step /\ (x.msg \in Trigger => x.msg \notin Approval)
  BY <1>1, MasterAssumption
<1>h. h \in [Thread -> Handler]
  BY DEF Inv, TypeOK
<1> DEFINE todo == x.todo \ {s}
           pc == IF todo = {} THEN IF x.msg \in Trigger THEN "persist_planned"
                                                        ELSE "persist_running"
                 ELSE "publish"
           y == [x EXCEPT !.todo = todo, !.pc = pc]
<1>3. /\ pc \in {"publish", "persist_planned", "persist_running"}
      /\ pc \in PC
      /\ pc \in TriggerPC => x.msg \in Trigger
      /\ pc \in ApprovalPC => x.msg \in Approval
      /\ pc \notin ResultPC
      /\ todo \in SUBSET Step
  BY <1>1 DEF TriggerPC, ApprovalPC, ResultPC, PC
<1>4. y \in Handler /\ h' = [h EXCEPT ![t] = y]
  BY <1>x, <1>r, <1>3, Moves DEF Publish, Loop
<1>5. /\ y.pc = pc /\ y.msg = x.msg /\ y.of = r /\ y.run = x.run /\ y.todo = todo
      /\ todo \subseteq StepsOf(r)
  BY <1>1, <1>r DEF Handler
<1> HIDE DEF y, pc, todo
<1>6. ASSUME Grows PROVE Trusts(y)'
  <2>1. Sound(y.run, r)' /\ Ready(r)'
    BY <1>1, <1>5, <1>6, SoundStays
  <2> QED
    BY <1>0, <1>1, <1>2, <1>3, <1>4, <1>5, <1>6, <1>r, <2>1, Onward
<1> QED
  BY <1>4, <1>6 DEF Turns

LEMMA HandleTurns ==
    ASSUME Inv, NEW t \in Thread, Handle(t)
    PROVE  Turns(t)
<1>1. ASSUME Ack(t) \/ PersistTimeout(t) PROVE Turns(t)
  BY <1>1, Rests DEF Ack, PersistTimeout
<1> QED
  BY <1>1, TriggerTurns, ResultTurns, ApprovalTurns, PublishTurns DEF Handle

(* A goroutine takes a message, or finds a run that waits. *)
LEMMA ReceiveTurns ==
    ASSUME Inv, NEW t \in Thread, NEW m \in Msg, Receive(t, m)
    PROVE  Turns(t)
<1>1. PICK pc \in {"idemp_get", "lock_get", "approval_get"} :
           /\ Take(t, m, pc)
           /\ pc = "idemp_get" => m \in Trigger
           /\ pc = "lock_get" => m \in Step
           /\ pc = "approval_get" => m \in Approval
  BY DEF Receive
<1> DEFINE y == [Idle EXCEPT !.pc = pc, !.msg = m, !.of = RunFor[m]]
<1>2. RunFor[m] \in Run /\ m # NoMsg
  BY Types, MasterAssumption
<1>3. y \in Handler /\ h' = [h EXCEPT ![t] = y]
  BY <1>1, <1>2, Types DEF Take, Handler, Idle, PC, TriggerPC, ResultPC, ApprovalPC
<1>4. /\ y.pc = pc /\ y.msg = m /\ y.of = RunFor[m] /\ y.run = NoRecord
      /\ y.own = FALSE
  BY DEF Idle
<1>5. delivery'[m] = "pending"
  BY DEF Receive, Inv, TypeOK
<1>6. Sound(NoRecord, RunFor[m])'
  BY DEF Sound, NoRecord, Blank
<1> HIDE DEF y
<1>7. Trusts(y)'
  BY <1>1, <1>2, <1>4, <1>5, <1>6 DEF Trusts, TriggerPC, ResultPC, ApprovalPC
<1> QED
  BY <1>3, <1>7 DEF Turns

LEMMA ScanTurns ==
    ASSUME Inv, NEW t \in Thread, NEW r \in Run, Scan(t, r)
    PROVE  Turns(t)
<1>1. PICK rec \in RunRecord : rec = runs[r] /\ Sound(rec, r)
  BY DEF Inv, TypeOK
<1>2. Ready(r)
  BY <1>1 DEF Scan, Sound
<1> DEFINE new == [rec EXCEPT !.decision = "timeout"]
           y == [Idle EXCEPT !.pc = "persist_timeout", !.of = r, !.run = new]
<1>3. new \in RunRecord /\ Sound(new, r)
  BY <1>1 DEF RunRecord, Decision, Sound
<1>4. h' = [h EXCEPT ![t] = y]
  BY <1>1 DEF Scan
<1> HIDE DEF new
<1>5. y \in Handler
  BY <1>3, Types DEF Handler, Idle, PC
<1>6. /\ y.pc = "persist_timeout" /\ y.msg = NoMsg /\ y.of = r /\ y.run = new
      /\ y.own = FALSE
  BY DEF Idle
<1> HIDE DEF y
<1>7. ASSUME Grows PROVE Trusts(y)'
  <2>1. Sound(y.run, r)' /\ Ready(r)'
    BY <1>2, <1>3, <1>6, <1>7, SoundStays
  <2> QED
    BY <1>6, <2>1, Points, MasterAssumption DEF Trusts, Msg
<1> QED
  BY <1>4, <1>5, <1>7 DEF Turns

(* A failed call *)
LEMMA FaultTurns ==
    ASSUME Inv, NEW t \in Thread, Fault(t)
    PROVE  Turns(t)
<1>x. PICK x \in Handler : x = h[t]
  BY DEF Inv, TypeOK
<1>0. x.pc # "idle"
  BY <1>x DEF Fault
<1>r. PICK r \in Run : r = x.of /\ r = Of(t)
  BY <1>x, <1>0, AtWork
<1>1. Trusts(x) /\ Sound(x.run, r) /\ x.run \in RunRecord
  BY <1>x, <1>0, <1>r, AtWork DEF Trusts
<1>h. h \in [Thread -> Handler]
  BY DEF Inv, TypeOK
<1>2. ASSUME NEW y \in Handler, h' = [h EXCEPT ![t] = y], x.pc \in ResultPC,
             y.pc \in {"release", "ack"}, y.msg = x.msg, y.of = r, y.run = x.run,
             y.own => x.own
      PROVE  Turns(t)
  <2>1. ASSUME Grows PROVE Trusts(y)'
    <3>1. Sound(y.run, r)'
      BY <1>1, <1>2, <2>1, SoundStays
    <3>2. x.msg \in Step /\ x.msg \in Msg
      BY <1>1, <1>2, <1>0 DEF Trusts, Msg
    <3>3. y.own /\ x.msg \in Step => x.msg \in Unstored
      BY <1>0, <1>1, <1>2 DEF Trusts
    <3>4. y.pc \in ResultPC \cup {"ack"} /\ y.pc \notin {"result_put", "publish"}
      BY <1>2 DEF ResultPC
    <3>5. y.pc \notin {"reject", "persist_step", "persist_waiting", "persist_planned",
                       "load_steps", "persist_running", "persist_decision", "idle",
                       "persist_timeout"}
      BY <1>2
    <3> QED
      BY <1>0, <1>1, <1>2, <1>r, <2>1, <3>1, <3>2, <3>3, <3>4, <3>5, Onward, Points
  <2> QED
    BY <1>2, <2>1 DEF Turns
<1>3. CASE h' = [h EXCEPT ![t] = Idle]
  BY <1>3, Rests
<1>4. CASE x.pc \in ResultPC /\ h' = [h EXCEPT ![t].pc = "release", ![t].ok = FALSE]
  <2> DEFINE y == [x EXCEPT !.pc = "release", !.ok = FALSE]
  <2>1. "release" \in PC
    BY DEF PC, ResultPC
  <2>2. y \in Handler /\ h' = [h EXCEPT ![t] = y]
    BY <1>4, <1>x, <2>1, Moves
  <2>3. /\ y.pc = "release" /\ y.msg = x.msg /\ y.of = r /\ y.run = x.run
        /\ y.own = x.own
    BY <1>r DEF Handler
  <2> HIDE DEF y
  <2> QED
    BY <1>2, <1>4, <2>2, <2>3
<1>5. CASE x.pc \in ResultPC /\ h' = [h EXCEPT ![t] = [x EXCEPT !.pc = "ack", !.own = FALSE]]
  <2> DEFINE y == [x EXCEPT !.pc = "ack", !.own = FALSE]
  <2>1. y \in Handler /\ h' = [h EXCEPT ![t] = y]
    BY <1>5, Moves, Points
  <2>2. y.pc = "ack" /\ y.msg = x.msg /\ y.of = r /\ y.run = x.run /\ y.own = FALSE
    BY <1>r DEF Handler
  <2> HIDE DEF y
  <2> QED
    BY <1>2, <1>5, <2>1, <2>2
<1> QED
  BY <1>3, <1>4, <1>5, <1>x DEF Fault, ResultPC

-----------------------------------------------------------------------------
(* Every step of a goroutine, and every step of the system. *)
Turn(t) ==
    \/ Handle(t) \/ Fault(t)
    \/ \E m \in Msg : Receive(t, m)
    \/ \E r \in Run : Scan(t, r)

LEMMA EveryTurn == ASSUME Inv, NEW t \in Thread, Turn(t) PROVE Turns(t)
BY HandleTurns, FaultTurns, ReceiveTurns, ScanTurns DEF Turn

(* Outside *)
Elsewhere ==
    \/ \E m \in Msg : Decide(m) \/ Redeliver(m)
    \/ \E s \in Step : WorkerStep(s)
    \/ \E r \in Run : LockExpires(r)
    \/ \E g \in Group : GroupExpires(g)

LEMMA NextCases ==
    Next <=> (\E t \in Thread : Turn(t)) \/ Elsewhere \/ (\E p \in Proc : Crash(p))
BY DEF Next, Turn, Elsewhere

LEMMA TurnType == ASSUME TypeOK, NEW t \in Thread, Turns(t) PROVE h' \in [Thread -> Handler]
BY DEF TypeOK, Turns

(* Things accumulate. *)
LEMMA GrowsStep == ASSUME Inv, Next PROVE Grows
<1> USE DEF intake, outcome, worker, count
<1>1. /\ delivery \in [Msg -> {"none", "ready", "pending", "acked"}]
      /\ report \in [Step -> {"none"} \cup Terminal]
      /\ \A s \in Step : work[s] = "running" => report[s] = "none"
  BY DEF Inv, TypeOK, Worked
<1>2. ASSUME UNCHANGED <<idemp, planned, report, delivery>> PROVE Grows
  BY <1>2 DEF Grows
<1>3. ASSUME NEW m, NEW d, d # "none", delivery' = [delivery EXCEPT ![m] = d],
             UNCHANGED <<idemp, planned, report>>
      PROVE  Grows
  BY <1>1, <1>3 DEF Grows
<1>4. ASSUME NEW t \in Thread, TriggerStep(t) PROVE Grows
  <2>1. UNCHANGED <<report, delivery>> /\ idemp \subseteq idemp' /\ planned \subseteq planned'
    BY <1>4 DEF TriggerStep, IdempGet, GroupGet, GroupPut, PersistCreated,
       PersistIdempotency, Reject, PersistStep, PersistWaiting, Request, PersistPlanned
  <2> QED
    BY <2>1 DEF Grows
<1>5. ASSUME NEW t \in Thread, ResultStep(t) PROVE Grows
  BY <1>2, <1>5 DEF ResultStep, LockGet, LockPut, ResultGet, ResultPut, RunGet, Reconcile,
     PersistResult, Release
<1>6. ASSUME NEW t \in Thread, ApprovalStep(t) PROVE Grows
  BY <1>2, <1>6 DEF ApprovalStep, ApprovalGet, ApprovalPut, LoadRun, PersistDecision,
     LoadSteps, PersistRunning
<1>7. ASSUME NEW t \in Thread, NEW s \in Step, Publish(t, s) PROVE Grows
  BY <1>2, <1>7 DEF Publish
<1>8. ASSUME NEW t \in Thread, PersistTimeout(t) \/ Fault(t) PROVE Grows
  BY <1>2, <1>8 DEF PersistTimeout, Fault
<1>9. ASSUME NEW t \in Thread, Ack(t) PROVE Grows
  BY <1>3, <1>9 DEF Ack
<1>10. ASSUME NEW t \in Thread, NEW m \in Msg, Receive(t, m) PROVE Grows
  BY <1>3, <1>10 DEF Receive
<1>11. ASSUME NEW t \in Thread, NEW r \in Run, Scan(t, r) PROVE Grows
  BY <1>2, <1>11 DEF Scan
<1>12. ASSUME NEW m \in Msg, Decide(m) \/ Redeliver(m) PROVE Grows
  BY <1>3, <1>12 DEF Decide, Redeliver
<1>13. ASSUME NEW s \in Step, WorkerReport(s) PROVE Grows
  <2>1. /\ work[s] = "running" /\ UNCHANGED <<idemp, planned>>
        /\ delivery' = [delivery EXCEPT ![s] = "ready"]
    BY <1>13 DEF WorkerReport
  <2>2. PICK status \in Terminal : report' = [report EXCEPT ![s] = status]
    BY <1>13 DEF WorkerReport
  <2> QED
    BY <1>1, <2>1, <2>2 DEF Grows
<1>14. ASSUME NEW s \in Step, WorkerStart(s) \/ WorkerRelease(s) PROVE Grows
  BY <1>2, <1>14 DEF WorkerStart, WorkerRelease
<1>15. ASSUME NEW s \in Step, WorkerReplay(s) PROVE Grows
  BY <1>3, <1>15 DEF WorkerReplay
<1>16. ASSUME NEW r \in Run, LockExpires(r) PROVE Grows
  BY <1>2, <1>16 DEF LockExpires
<1>17. ASSUME NEW g \in Group, GroupExpires(g) PROVE Grows
  BY <1>2, <1>17 DEF GroupExpires
<1>18. ASSUME NEW p \in Proc, Crash(p) PROVE Grows
  BY <1>2, <1>18 DEF Crash
<1> QED
  BY <1>4, <1>5, <1>6, <1>7, <1>8, <1>9, <1>10, <1>11, <1>12, <1>13, <1>14, <1>15, <1>16,
     <1>17, <1>18 DEF Next, Handle, WorkerStep

(* Every handler keeps its trust. *)
LEMMA TrustStep == ASSUME Inv, Next PROVE \A t \in Thread : Trusts(h[t])'
<1>1. Grows
  BY GrowsStep
<1>2. /\ h \in [Thread -> Handler]
      /\ \A t \in Thread : Trusts(h[t])
  BY DEF Inv, TypeOK
<1>3. \A x \in Handler : Trusts(x) => Trusts(x)'
  BY <1>1, TrustStays
<1>4. Trusts(Idle)'
  BY DEF Trusts, Idle
<1>5. ASSUME NEW t \in Thread, Turns(t) PROVE \A u \in Thread : Trusts(h[u])'
  <2>1. PICK y \in Handler : h' = [h EXCEPT ![t] = y] /\ Trusts(y)'
    BY <1>1, <1>5 DEF Turns
  <2>2. ASSUME NEW u \in Thread PROVE Trusts(h[u])'
    <3>1. CASE u = t
      <4>1. h'[u] = y
        BY <1>2, <2>1, <3>1
      <4> QED
        BY <2>1, <4>1
    <3>2. CASE u # t
      <4>1. PICK x \in Handler : x = h[u] /\ Trusts(x)
        BY <1>2
      <4>2. h'[u] = x /\ Trusts(x)'
        BY <1>2, <1>3, <2>1, <3>2, <4>1
      <4> QED
        BY <4>2
    <3> QED
      BY <3>1, <3>2
  <2> QED
    BY <2>2

<1>6. ASSUME Elsewhere PROVE h' = h
  BY <1>6 DEF Elsewhere, Decide, Redeliver, WorkerStep, WorkerStart, WorkerReport,
     WorkerRelease, WorkerReplay, LockExpires, GroupExpires
<1>7. ASSUME h' = h PROVE \A u \in Thread : Trusts(h[u])'
  <2>1. ASSUME NEW u \in Thread PROVE Trusts(h[u])'
    <3>1. PICK x \in Handler : x = h[u] /\ Trusts(x)
      BY <1>2
    <3>2. h'[u] = x /\ Trusts(x)'
      BY <1>3, <1>7, <3>1
    <3> QED
      BY <3>2
  <2> QED
    BY <2>1
<1>8. ASSUME NEW p \in Proc, Crash(p) PROVE \A u \in Thread : Trusts(h[u])'
  <2>1. ASSUME NEW u \in Thread PROVE Trusts(h[u])'
    <3>1. PICK x \in Handler : x = h[u] /\ Trusts(x)
      BY <1>2
    <3>2. Trusts(x)' /\ h'[u] \in {x, Idle}
      BY <1>3, <1>8, <3>1 DEF Crash
    <3> QED
      BY <1>4, <3>2
  <2> QED
    BY <2>1
<1> QED
  BY <1>5, <1>6, <1>7, <1>8, EveryTurn, NextCases

-----------------------------------------------------------------------------
(* The types of what the handlers and the workers write. *)
LEMMA TypeStep == ASSUME Inv, Next PROVE TypeOK'
<1> USE DEF intake, outcome, worker, count
<1>0. TypeOK /\ \A t \in Thread : h[t].pc # "idle" => Of(t) \in Run
  BY AtWork DEF Inv
<1>1. ASSUME NEW t \in Thread, Turn(t) PROVE h' \in [Thread -> Handler]
  BY <1>0, <1>1, EveryTurn, TurnType
(* The record of a run is replaced by a record. *)
<1>2. ASSUME NEW r, NEW rec \in RunRecord, runs' = [runs EXCEPT ![r] = rec]
      PROVE  runs' \in [Run -> RunRecord]
  BY <1>0, <1>2 DEF TypeOK
<1>3. ASSUME NEW t \in Thread, NEW status \in Status, h[t].pc # "idle", PersistRun(t, status)
      PROVE  runs' \in [Run -> RunRecord]
  <2>1. [h[t].run EXCEPT !.status = status] \in RunRecord
    BY <1>3, AtWork
  <2> QED
    BY <1>2, <1>3, <2>1 DEF PersistRun
<1>4. ASSUME NEW t \in Thread, h[t].pc # "idle" PROVE h[t].run.status \in Status
  BY <1>4, AtWork DEF RunRecord
<1>s. {"CREATED", "FAILED_SAFE", "WAITING_APPROVAL", "PLANNED", "RUNNING",
       "MANUAL_REVIEW_REQUIRED"} \subseteq Status
  BY DEF Status, Terminal
(* The history of the key that guards a release. *)
<1>k. ASSUME NEW t \in Thread, LooksForKey(t) \/ KeyIsPut(t) \/ KeysAreDeleted
      PROVE  again' \in [Run -> Nat] /\ late' \subseteq Thread
  <2>1. again \in [Run -> Nat] /\ late \subseteq Thread
    BY <1>0 DEF TypeOK
  <2>2. CASE LooksForKey(t)
    BY <2>1, <2>2 DEF LooksForKey
  <2>3. CASE KeyIsPut(t)
    BY <2>1, <2>3 DEF KeyIsPut
  <2>4. CASE KeysAreDeleted
    BY <2>1, <2>4 DEF KeysAreDeleted
  <2> QED
    BY <1>k, <2>2, <2>3, <2>4
<1>5. ASSUME NEW t \in Thread, TriggerStep(t) PROVE TypeOK'
  <2>1. h' \in [Thread -> Handler]
    BY <1>1, <1>5 DEF Turn, Handle
  <2>2. CASE GroupGet(t) \/ Request(t)
    BY <1>0, <2>1, <2>2 DEF TypeOK, GroupGet, Request
  <2>g. CASE IdempGet(t)
    <3>1. again' \in [Run -> Nat] /\ late' \subseteq Thread
      BY <1>k, <2>g DEF IdempGet
    <3> QED
      BY <1>0, <2>1, <2>g, <3>1 DEF TypeOK, IdempGet
  <2>3. CASE GroupPut(t)
    <3>1. group' \in [Group -> Run \cup {NoRun}]
      BY <1>0, <2>3 DEF TypeOK, GroupPut
    <3> QED
      BY <1>0, <2>1, <2>3, <3>1 DEF TypeOK, GroupPut
  <2>4. CASE PersistCreated(t) \/ Reject(t)
    <3>1. runs' \in [Run -> RunRecord]
      BY <1>3, <1>s, <2>4 DEF PersistCreated, Reject
    <3> QED
      BY <1>0, <2>1, <2>4, <3>1 DEF TypeOK, PersistCreated, Reject
  <2>5. CASE PersistIdempotency(t)
    <3>1. idemp' \subseteq Run
      BY <1>0, <2>5 DEF TypeOK, PersistIdempotency
    <3>2. again' \in [Run -> Nat] /\ late' \subseteq Thread
      BY <1>k, <2>5 DEF PersistIdempotency
    <3> QED
      BY <1>0, <2>1, <2>5, <3>1, <3>2 DEF TypeOK, PersistIdempotency
  <2>6. ASSUME NEW s \in Step, PersistStep(t, s) PROVE TypeOK'
    BY <1>0, <2>1, <2>6 DEF TypeOK, PersistStep
  <2>7. CASE PersistWaiting(t) \/ PersistPlanned(t)
    <3>1. ASSUME NEW status \in {"WAITING_APPROVAL", "PLANNED"}
          PROVE  [Blank(status) EXCEPT !.total = Cardinality(StepsOf(Of(t)))] \in RunRecord
      <4>1. Of(t) \in Run
        BY <1>0, <2>7 DEF PersistWaiting, PersistPlanned
      <4>2. Cardinality(StepsOf(Of(t))) \in Nat /\ Blank(status) \in RunRecord
        BY <1>s, <4>1, Types
      <4> QED
        BY <4>2 DEF RunRecord
    <3>2. runs' \in [Run -> RunRecord]
      BY <1>2, <2>7, <3>1 DEF PersistWaiting, PersistPlanned
    <3> QED
      BY <1>0, <2>1, <2>7, <3>2 DEF TypeOK, PersistWaiting, PersistPlanned
  <2> QED
    BY <1>5, <2>2, <2>g, <2>3, <2>4, <2>5, <2>6, <2>7 DEF TriggerStep
<1>6. ASSUME NEW t \in Thread, ResultStep(t) PROVE TypeOK'
  <2>1. h' \in [Thread -> Handler]
    BY <1>1, <1>6 DEF Turn, Handle
  <2>2. CASE LockGet(t) \/ ResultGet(t) \/ RunGet(t) \/ Reconcile(t)
    BY <1>0, <2>1, <2>2 DEF TypeOK, LockGet, ResultGet, RunGet, Reconcile
  <2>3. CASE LockPut(t) \/ Release(t)
    <3>1. lock' \in [Run -> Proc \cup {"worker", "dead", "none"}]
      BY <1>0, <2>3, Types DEF TypeOK, LockPut, Release
    <3> QED
      BY <1>0, <2>1, <2>3, <3>1 DEF TypeOK, LockPut, Release
  <2>4. CASE ResultPut(t)
    <3>1. h[t].msg \in Step
      BY <2>4, AtWork DEF ResultPut, Trusts, ResultPC
    <3> QED
      BY <1>0, <2>1, <2>4, <3>1 DEF TypeOK, ResultPut
  <2>5. CASE PersistResult(t)
    <3>1. runs' \in [Run -> RunRecord]
      BY <1>3, <1>4, <2>5 DEF PersistResult
    <3> QED
      BY <1>0, <2>1, <2>5, <3>1 DEF TypeOK, PersistResult
  <2> QED
    BY <1>6, <2>2, <2>3, <2>4, <2>5 DEF ResultStep
<1>7. ASSUME NEW t \in Thread, ApprovalStep(t) PROVE TypeOK'
  <2>1. h' \in [Thread -> Handler]
    BY <1>1, <1>7 DEF Turn, Handle
  <2>2. CASE LoadRun(t) \/ LoadSteps(t)
    BY <1>0, <2>1, <2>2 DEF TypeOK, LoadRun, LoadSteps
  <2>g. CASE ApprovalGet(t)
    <3>1. again' \in [Run -> Nat] /\ late' \subseteq Thread
      BY <1>k, <2>g DEF ApprovalGet
    <3> QED
      BY <1>0, <2>1, <2>g, <3>1 DEF TypeOK, ApprovalGet
  <2>3. CASE ApprovalPut(t)
    <3>1. Of(t) \in Run
      BY <1>0, <2>3 DEF ApprovalPut
    <3>2. again' \in [Run -> Nat] /\ late' \subseteq Thread
      BY <1>k, <2>3 DEF ApprovalPut
    <3> QED
      BY <1>0, <2>1, <2>3, <3>1, <3>2 DEF TypeOK, ApprovalPut
  <2>4. CASE PersistDecision(t) \/ PersistRunning(t)
    <3>1. runs' \in [Run -> RunRecord]
      BY <1>3, <1>4, <1>s, <2>4 DEF PersistDecision, PersistRunning
    <3> QED
      BY <1>0, <2>1, <2>4, <3>1 DEF TypeOK, PersistDecision, PersistRunning
  <2> QED
    BY <1>7, <2>2, <2>g, <2>3, <2>4 DEF ApprovalStep
<1>8. ASSUME NEW t \in Thread, NEW s \in Step, Publish(t, s) PROVE TypeOK'
  <2>1. h' \in [Thread -> Handler]
    BY <1>1, <1>8 DEF Turn, Handle
  <2>2. published' \in [Step -> Nat]
    BY <1>0, <1>8 DEF TypeOK, Publish
  <2> QED
    BY <1>0, <1>8, <2>1, <2>2 DEF TypeOK, Publish
<1>9. ASSUME NEW t \in Thread, PersistTimeout(t) PROVE TypeOK'
  <2>1. h' \in [Thread -> Handler]
    BY <1>1, <1>9 DEF Turn, Handle
  <2>2. runs' \in [Run -> RunRecord]
    BY <1>3, <1>s, <1>9 DEF PersistTimeout
  <2> QED
    BY <1>0, <1>9, <2>1, <2>2 DEF TypeOK, PersistTimeout
<1>10. ASSUME NEW t \in Thread, Ack(t) PROVE TypeOK'
  <2>1. h' \in [Thread -> Handler]
    BY <1>1, <1>10 DEF Turn, Handle
  <2> QED
    BY <1>0, <1>10, <2>1 DEF TypeOK, Ack
<1>11. ASSUME NEW t \in Thread, Fault(t) PROVE TypeOK'
  <2>1. h' \in [Thread -> Handler]
    BY <1>1, <1>11 DEF Turn
  <2>2. faults' \in 0 .. MaxFaults
    BY <1>0, <1>11, MasterAssumption DEF TypeOK, Fault, MayFail
  <2>3. results' \subseteq Step /\ approvals' \subseteq Run
    BY <1>0, <1>11 DEF TypeOK, Fault, Undo
  <2>4. UNCHANGED <<delivery, intake, runs, report, lock, worker, crashes>>
    BY <1>11 DEF Fault
  <2>5. again' \in [Run -> Nat] /\ late' \subseteq Thread
    BY <1>k, <1>11 DEF Fault
  <2> QED
    BY <1>0, <2>1, <2>2, <2>3, <2>4, <2>5 DEF TypeOK
<1>12. ASSUME NEW t \in Thread, NEW m \in Msg, Receive(t, m) PROVE TypeOK'
  <2>1. h' \in [Thread -> Handler]
    BY <1>1, <1>12 DEF Turn
  <2> QED
    BY <1>0, <1>12, <2>1 DEF TypeOK, Receive
<1>13. ASSUME NEW t \in Thread, NEW r \in Run, Scan(t, r) PROVE TypeOK'
  <2>1. h' \in [Thread -> Handler]
    BY <1>1, <1>13 DEF Turn
  <2> QED
    BY <1>0, <1>13, <2>1 DEF TypeOK, Scan
<1>14. ASSUME NEW m \in Msg, Decide(m) \/ Redeliver(m) PROVE TypeOK'
  BY <1>0, <1>14 DEF TypeOK, Decide, Redeliver
<1>15. ASSUME NEW s \in Step, WorkerStart(s) PROVE TypeOK'
  BY <1>0, <1>15 DEF TypeOK, WorkerStart
<1>16. ASSUME NEW s \in Step, WorkerReport(s) PROVE TypeOK'
  <2>1. results' \subseteq Step
    BY <1>0, <1>16 DEF TypeOK, WorkerReport
  <2> QED
    BY <1>0, <1>16, <2>1 DEF TypeOK, WorkerReport, Msg
<1>17. ASSUME NEW s \in Step, WorkerRelease(s) PROVE TypeOK'
  <2>1. handled' \in [Step -> Nat]
    BY <1>0, <1>17 DEF TypeOK, WorkerRelease
  <2>2. faults' \in 0 .. MaxFaults
    BY <1>0, <1>17, MasterAssumption DEF TypeOK, WorkerRelease, MayFail
  <2>3. /\ lock' = [lock EXCEPT ![RunFor[s]] = "none"]
        /\ work' = [work EXCEPT ![s] = "idle"]
        /\ UNCHANGED <<delivery, intake, runs, outcome, approvals, published, h, crashes,
                       again, late>>
    BY <1>17 DEF WorkerRelease
  <2> QED
    BY <1>0, <2>1, <2>2, <2>3 DEF TypeOK
<1>18. ASSUME NEW s \in Step, WorkerReplay(s) PROVE TypeOK'
  <2>1. handled' \in [Step -> Nat]
    BY <1>0, <1>18 DEF TypeOK, WorkerReplay
  <2> QED
    BY <1>0, <1>18, <2>1 DEF TypeOK, WorkerReplay, Msg
<1>19. ASSUME NEW r \in Run, LockExpires(r) PROVE TypeOK'
  BY <1>0, <1>19 DEF TypeOK, LockExpires
<1>20. ASSUME NEW g \in Group, GroupExpires(g) PROVE TypeOK'
  BY <1>0, <1>20 DEF TypeOK, GroupExpires
<1>21. ASSUME NEW p \in Proc, Crash(p) PROVE TypeOK'
  <2>1. crashes' \in 0 .. MaxCrashes
    BY <1>0, <1>21, MasterAssumption DEF TypeOK, Crash, MayCrash
  <2>2. h' \in [Thread -> Handler] /\ lock' \in [Run -> Proc \cup {"worker", "dead", "none"}]
    BY <1>0, <1>21, Types DEF TypeOK, Crash
  <2>3. /\ UNCHANGED <<delivery, intake, runs, outcome, approvals, worker, faults, again>>
        /\ late' \subseteq Thread
    BY <1>0, <1>21 DEF TypeOK, Crash
  <2> QED
    BY <1>0, <2>1, <2>2, <2>3 DEF TypeOK
<1> QED
  BY <1>5, <1>6, <1>7, <1>8, <1>9, <1>10, <1>11, <1>12, <1>13, <1>14, <1>15, <1>16,
     <1>17, <1>18, <1>19, <1>20, <1>21 DEF Next, Handle, WorkerStep

(* The workers report what was released, and what they store stays stored. *)
LEMMA WorkedStep ==
    ASSUME Inv, Next
    PROVE  Worked' /\ results \ Unstored \subseteq results'
<1> USE DEF intake, outcome, worker, count
<1> DEFINE Goal == Worked' /\ results \ Unstored \subseteq results'
<1>0. TypeOK /\ Worked
  BY DEF Inv
<1>1. ASSUME UNCHANGED <<work, report, published, results>>,
             \A s \in Step : delivery'[s] # "none" => delivery[s] # "none"
      PROVE  Goal
  BY <1>0, <1>1 DEF Worked
<1>2. ASSUME UNCHANGED <<work, report, published, results>>, NEW m,
             m \in Step => delivery[m] # "none", NEW d, delivery' = [delivery EXCEPT ![m] = d]
      PROVE  Goal
  <2>1. \A s \in Step : s # m => delivery'[s] = delivery[s]
    BY <1>0, <1>2 DEF TypeOK, Msg
  <2>2. \A s \in Step : delivery'[s] # "none" => delivery[s] # "none"
    BY <1>2, <2>1
  <2> QED
    BY <1>1, <1>2, <2>2
<1>3. ASSUME NEW t \in Thread, TriggerStep(t) PROVE Goal
  BY <1>1, <1>3 DEF TriggerStep, IdempGet, GroupGet, GroupPut, PersistCreated,
     PersistIdempotency, Reject, PersistStep, PersistWaiting, Request, PersistPlanned
<1>4. ASSUME NEW t \in Thread, ResultStep(t) PROVE Goal
  <2>1. CASE ResultPut(t)
    <3>1. h[t].msg \in Step /\ delivery[h[t].msg] # "none"
      BY <2>1, AtWork, MasterAssumption DEF ResultPut, Trusts, ResultPC, Msg
    <3>2. report[h[t].msg] # "none"
      BY <1>0, <3>1 DEF Worked
    <3>3. results' = results \cup {h[t].msg} /\ UNCHANGED <<work, report, published, delivery>>
      BY <2>1 DEF ResultPut
    <3> QED
      BY <1>0, <3>2, <3>3 DEF Worked
  <2> QED
    BY <1>1, <1>4, <2>1 DEF ResultStep, LockGet, LockPut, ResultGet, RunGet, Reconcile,
       PersistResult, Release
<1>5. ASSUME NEW t \in Thread, ApprovalStep(t) PROVE Goal
  BY <1>1, <1>5 DEF ApprovalStep, ApprovalGet, ApprovalPut, LoadRun, PersistDecision,
     LoadSteps, PersistRunning
<1>6. ASSUME NEW t \in Thread, NEW s \in Step, Publish(t, s) PROVE Goal
  <2>1. \A u \in Step : published[u] > 0 => published'[u] > 0
    BY <1>0, <1>6 DEF TypeOK, Publish
  <2>2. UNCHANGED <<work, report, results, delivery>>
    BY <1>6 DEF Publish
  <2> QED
    BY <1>0, <2>1, <2>2 DEF Worked
<1>7. ASSUME NEW t \in Thread, PersistTimeout(t) PROVE Goal
  BY <1>1, <1>7 DEF PersistTimeout
<1>8. ASSUME NEW t \in Thread, Ack(t) PROVE Goal
  <2>1. h[t].msg \in Step => delivery[h[t].msg] # "none"
    BY <1>8, AtWork, MasterAssumption DEF Ack, Trusts, Msg
  <2> QED
    BY <1>2, <1>8, <2>1 DEF Ack
<1>9. ASSUME NEW t \in Thread, Fault(t) PROVE Goal
  <2>1. results' \subseteq results /\ results \ Unstored \subseteq results'
    <3>1. h[t].own /\ h[t].msg \in Step => h[t].msg \in Unstored
      BY <1>9, AtWork DEF Fault, Trusts
    <3> QED
      BY <1>9, <3>1 DEF Fault, Undo
  <2>2. UNCHANGED <<work, report, published, delivery>>
    BY <1>9 DEF Fault
  <2> QED
    BY <1>0, <2>1, <2>2 DEF Worked
<1>10. ASSUME NEW t \in Thread, NEW m \in Msg, Receive(t, m) PROVE Goal
  BY <1>2, <1>10 DEF Receive
<1>11. ASSUME NEW t \in Thread, NEW r \in Run, Scan(t, r) PROVE Goal
  BY <1>1, <1>11 DEF Scan
<1>12. ASSUME NEW m \in Msg, Decide(m) \/ Redeliver(m) PROVE Goal
  BY <1>2, <1>12, MasterAssumption DEF Decide, Redeliver
<1>13. ASSUME NEW s \in Step, WorkerStart(s) PROVE Goal
  <2>1. published[s] > 0 /\ report[s] = "none"
    BY <1>0, <1>13 DEF TypeOK, WorkerStart
  <2>2. /\ work' = [work EXCEPT ![s] = "running"]
        /\ UNCHANGED <<report, published, results, delivery>>
    BY <1>13 DEF WorkerStart
  <2> QED
    BY <1>0, <2>1, <2>2 DEF Worked, TypeOK
<1>14. ASSUME NEW s \in Step, WorkerReport(s) PROVE Goal
  <2>1. PICK status \in Terminal : report' = [report EXCEPT ![s] = status]
    BY <1>14 DEF WorkerReport
  <2>2. /\ work[s] = "running" /\ work' = [work EXCEPT ![s] = "reported"]
        /\ results' = results \cup ({s} \ Unstored)
        /\ delivery' = [delivery EXCEPT ![s] = "ready"]
        /\ UNCHANGED published
    BY <1>14 DEF WorkerReport
  <2>3. ASSUME NEW u \in Step, u # s
        PROVE  /\ work'[u] = work[u] /\ report'[u] = report[u] /\ delivery'[u] = delivery[u]
               /\ u \in results' <=> u \in results
    BY <1>0, <2>1, <2>2, <2>3 DEF TypeOK, Msg
  <2>4. /\ work'[s] = "reported" /\ report'[s] # "none" /\ published[s] > 0
        /\ s \notin Unstored => s \in results'
    BY <1>0, <2>1, <2>2 DEF TypeOK, Worked, Terminal
  <2> QED
    BY <1>0, <2>2, <2>3, <2>4 DEF Worked
<1>15. ASSUME NEW s \in Step, WorkerRelease(s) PROVE Goal
  <2>1. /\ work' = [work EXCEPT ![s] = "idle"]
        /\ UNCHANGED <<report, published, results, delivery>>
    BY <1>15 DEF WorkerRelease
  <2> QED
    BY <1>0, <2>1 DEF Worked, TypeOK
<1>16. ASSUME NEW s \in Step, WorkerReplay(s) PROVE Goal
  BY <1>2, <1>16 DEF WorkerReplay
<1>17. ASSUME NEW r \in Run, LockExpires(r) PROVE Goal
  BY <1>1, <1>17 DEF LockExpires
<1>18. ASSUME NEW g \in Group, GroupExpires(g) PROVE Goal
  BY <1>1, <1>18 DEF GroupExpires
<1>19. ASSUME NEW p \in Proc, Crash(p) PROVE Goal
  BY <1>1, <1>19 DEF Crash
<1> QED
  BY <1>3, <1>4, <1>5, <1>6, <1>7, <1>8, <1>9, <1>10, <1>11, <1>12, <1>13, <1>14, <1>15,
     <1>16, <1>17, <1>18, <1>19 DEF Next, Handle, WorkerStep

(* The records of the runs stay sound. *)
LEMMA RecordStep == ASSUME Inv, Next PROVE \A r \in Run : Sound(runs[r], r)'
<1> USE DEF intake, outcome, worker, count
<1>1. Grows
  BY GrowsStep
<1>2. /\ runs \in [Run -> RunRecord]
      /\ \A r \in Run : Sound(runs[r], r)
  BY DEF Inv, TypeOK
<1>3. ASSUME NEW q, NEW rec \in RunRecord, runs' = [runs EXCEPT ![q] = rec],
             q \in Run => Sound(rec, q)
      PROVE  \A r \in Run : Sound(runs[r], r)'
  <2>1. ASSUME NEW r \in Run PROVE Sound(runs[r], r)'
    <3>1. PICK new \in RunRecord : new = runs'[r] /\ Sound(new, r)
      BY <1>2, <1>3
    <3> QED
      BY <1>1, <3>1, SoundStays
  <2> QED
    BY <2>1
<1>4. ASSUME UNCHANGED runs PROVE \A r \in Run : Sound(runs[r], r)'
  <2>1. ASSUME NEW r \in Run PROVE Sound(runs[r], r)'
    <3>1. PICK new \in RunRecord : new = runs'[r] /\ Sound(new, r)
      BY <1>2, <1>4
    <3> QED
      BY <1>1, <3>1, SoundStays
  <2> QED
    BY <2>1
(* A handler that writes its own copy back with another status. *)
<1>5. ASSUME NEW t \in Thread, h[t].pc # "idle", NEW status \in Status,
             PersistRun(t, status),
             status \notin {"NONE", "CREATED", "FAILED_SAFE"} => Ready(Of(t)),
             status = "SUCCEEDED" => h[t].run.status = "SUCCEEDED",
             status = "FAILED_SAFE" => Justified(Of(t))
      PROVE  \A r \in Run : Sound(runs[r], r)'
  <2>1. /\ h[t].run \in RunRecord /\ Of(t) \in Run
        /\ Sound(h[t].run, Of(t))
    BY <1>5, AtWork DEF Trusts
  <2> DEFINE rec == [h[t].run EXCEPT !.status = status]
  <2>2. /\ rec \in RunRecord /\ rec.seen = h[t].run.seen /\ rec.total = h[t].run.total
        /\ rec.status = status
    BY <2>1 DEF RunRecord
  <2>3. runs' = [runs EXCEPT ![Of(t)] = rec]
    BY <1>5 DEF PersistRun
  <2> HIDE DEF rec
  <2>4. Sound(rec, Of(t))
    BY <1>5, <2>1, <2>2 DEF Sound
  <2> QED
    BY <1>3, <2>2, <2>3, <2>4
<1>6. {"CREATED", "FAILED_SAFE", "WAITING_APPROVAL", "PLANNED", "RUNNING",
       "MANUAL_REVIEW_REQUIRED"} \subseteq Status
  BY DEF Status, Terminal
<1>7. ASSUME NEW t \in Thread, TriggerStep(t) PROVE \A r \in Run : Sound(runs[r], r)'
  <2>1. CASE PersistCreated(t)
    BY <1>5, <1>6, <2>1 DEF PersistCreated
  <2>2. CASE Reject(t)
    <3>1. Justified(Of(t))
      BY <2>2, AtWork DEF Reject, Trusts, Justified
    <3> QED
      BY <1>5, <1>6, <2>2, <3>1 DEF Reject
  <2>3. CASE PersistWaiting(t) \/ PersistPlanned(t)
    <3>1. PICK r \in Run : r = Of(t) /\ Ready(r)
      BY <2>3, AtWork DEF PersistWaiting, PersistPlanned, Trusts
    <3>2. ASSUME NEW status \in {"WAITING_APPROVAL", "PLANNED"}
          PROVE  /\ [Blank(status) EXCEPT !.total = Cardinality(StepsOf(r))] \in RunRecord
                 /\ Sound([Blank(status) EXCEPT !.total = Cardinality(StepsOf(r))], r)
      <4>1. Cardinality(StepsOf(r)) \in Nat /\ Blank(status) \in RunRecord
        BY <1>6, Types
      <4> DEFINE rec == [Blank(status) EXCEPT !.total = Cardinality(StepsOf(r))]
      <4>2. /\ rec \in RunRecord /\ rec.seen = {} /\ rec.status = status
            /\ rec.total = Cardinality(StepsOf(r))
        BY <4>1 DEF RunRecord, Blank
      <4>3. Sound(rec, r)
        <5> HIDE DEF rec
        <5> QED
          BY <3>1, <4>2 DEF Sound
      <4> QED
        BY <4>2, <4>3
    <3> QED
      BY <1>3, <2>3, <3>1, <3>2 DEF PersistWaiting, PersistPlanned
  <2> QED
    BY <1>4, <1>7, <2>1, <2>2, <2>3 DEF TriggerStep, IdempGet, GroupGet, GroupPut,
       PersistIdempotency, PersistStep, Request
<1>8. ASSUME NEW t \in Thread, h[t].pc # "idle", PersistRun(t, h[t].run.status)
      PROVE  \A r \in Run : Sound(runs[r], r)'
  <2>1. /\ h[t].run \in RunRecord /\ h[t].run.status \in Status
        /\ Sound(h[t].run, Of(t))
    BY <1>8, AtWork DEF Trusts, RunRecord
  <2> QED
    BY <1>5, <1>8, <2>1 DEF Sound
<1>9. ASSUME NEW t \in Thread, ResultStep(t) PROVE \A r \in Run : Sound(runs[r], r)'
  <2>1. CASE PersistResult(t)
    BY <1>8, <2>1 DEF PersistResult
  <2> QED
    BY <1>4, <1>9, <2>1 DEF ResultStep, LockGet, LockPut, ResultGet, ResultPut, RunGet,
       Reconcile, Release
<1>10. ASSUME NEW t \in Thread, ApprovalStep(t) PROVE \A r \in Run : Sound(runs[r], r)'
  <2>1. CASE PersistDecision(t)
    BY <1>8, <2>1 DEF PersistDecision
  <2>2. CASE PersistRunning(t)
    <3>1. Ready(Of(t))
      BY <2>2, AtWork DEF PersistRunning, Trusts
    <3> QED
      BY <1>5, <1>6, <2>2, <3>1 DEF PersistRunning
  <2> QED
    BY <1>4, <1>10, <2>1, <2>2 DEF ApprovalStep, ApprovalGet, ApprovalPut, LoadRun, LoadSteps
<1>11. ASSUME NEW t \in Thread, PersistTimeout(t) PROVE \A r \in Run : Sound(runs[r], r)'
  <2>1. Ready(Of(t))
    BY <1>11, AtWork DEF PersistTimeout, Trusts
  <2> QED
    BY <1>5, <1>6, <1>11, <2>1 DEF PersistTimeout
<1>12. CASE UNCHANGED runs
  BY <1>4, <1>12
<1> QED
  BY <1>7, <1>9, <1>10, <1>11, <1>12 DEF Next, Handle, WorkerStep, Publish, Ack, Fault,
     Receive, Scan, Decide, Redeliver, WorkerStart, WorkerReport, WorkerRelease,
     WorkerReplay, LockExpires, GroupExpires, Crash

(* Only a handler that may do so releases a step. *)
LEMMA GateStep ==
    ASSUME Inv, Next
    PROVE  PlannedBeforeReleased' /\ ReleasedByApproval'
<1> USE DEF intake, outcome, worker, count
<1>1. Grows
  BY GrowsStep
<1>2. PlannedBeforeReleased /\ ReleasedByApproval /\ published \in [Step -> Nat]
  BY DEF Inv, TypeOK
<1> DEFINE Approved(r) ==
             \E m \in Approval : RunFor[m] = r /\ Answer[m] = "approve" /\ delivery'[m] # "none"
<1>3. ASSUME NEW s \in Step, published[s] > 0
      PROVE  /\ Ready(RunFor[s])'
             /\ RunFor[s] \in Supervised => Approved(RunFor[s])
  <2>1. Ready(RunFor[s])'
    BY <1>1, <1>2, <1>3, SoundStays, Types DEF PlannedBeforeReleased, Ready
  <2>2. RunFor[s] \in Supervised => Approved(RunFor[s])
    BY <1>1, <1>2, <1>3 DEF ReleasedByApproval, Grows, Msg
  <2> QED
    BY <2>1, <2>2
<1>4. ASSUME NEW t \in Thread, NEW s \in Step, Publish(t, s)
      PROVE  /\ Ready(RunFor[s])'
             /\ RunFor[s] \in Supervised => Approved(RunFor[s])
             /\ \A u \in Step : u # s => published'[u] = published[u]
  <2>1. PICK x \in Handler : x = h[t] /\ Trusts(x) /\ x.pc = "publish" /\ s \in x.todo
    BY <1>4 DEF Inv, TypeOK, Publish
  <2>2. /\ x.of = RunFor[s] /\ Ready(x.of) /\ x.msg \in Trigger \cup Approval
        /\ x.msg # NoMsg /\ x.of = RunFor[x.msg] /\ delivery[x.msg] # "none"
        /\ x.msg \in Trigger => x.of \notin Supervised
        /\ x.msg \in Approval => Answer[x.msg] = "approve"
        /\ x.msg \in Msg
    BY <2>1, MasterAssumption DEF Trusts, StepsOf, Msg
  <2>3. Ready(RunFor[s])'
    BY <1>1, <2>2, SoundStays, Types DEF Msg
  <2>4. RunFor[s] \in Supervised => Approved(RunFor[s])
    BY <1>1, <2>2 DEF Grows
  <2>5. \A u \in Step : u # s => published'[u] = published[u]
    BY <1>2, <1>4 DEF Publish
  <2> QED
    BY <2>3, <2>4, <2>5
<1>5. ASSUME \A s \in Step : published'[s] > 0 =>
                /\ Ready(RunFor[s])'
                /\ RunFor[s] \in Supervised => Approved(RunFor[s])
      PROVE  PlannedBeforeReleased' /\ ReleasedByApproval'
  BY <1>5 DEF PlannedBeforeReleased, ReleasedByApproval, Ready
<1>6. CASE UNCHANGED published
  BY <1>3, <1>5, <1>6
<1>7. CASE \E t \in Thread, s \in Step : Publish(t, s)
  BY <1>3, <1>4, <1>5, <1>7
<1>8. ASSUME NEW t \in Thread, Handle(t) \/ Fault(t)
      PROVE  UNCHANGED published \/ \E s \in Step : Publish(t, s)
  BY <1>8 DEF Handle, Ack, Fault, PersistTimeout, TriggerStep, IdempGet, GroupGet, GroupPut,
     PersistCreated, PersistIdempotency, Reject, PersistStep, PersistWaiting, Request,
     PersistPlanned, ResultStep, LockGet, LockPut, ResultGet, ResultPut, RunGet, Reconcile,
     PersistResult, Release, ApprovalStep, ApprovalGet, ApprovalPut, LoadRun,
     PersistDecision, LoadSteps, PersistRunning
<1> QED
  BY <1>6, <1>7, <1>8 DEF Next, WorkerStep, Receive, Scan, Decide, Redeliver, WorkerStart,
     WorkerReport, WorkerRelease, WorkerReplay, LockExpires, GroupExpires, Crash

-----------------------------------------------------------------------------
LEMMA InvInit == Init => Inv
<1> SUFFICES ASSUME Init PROVE Inv
  OBVIOUS
<1>1. TypeOK
  <2>1. crashes \in 0 .. MaxCrashes /\ faults \in 0 .. MaxFaults
    BY MasterAssumption DEF Init
  <2>2. runs \in [Run -> RunRecord] /\ h \in [Thread -> Handler]
    BY Types DEF Init
  <2> QED
    BY <2>1, <2>2 DEF Init, TypeOK
<1>2. Worked
  BY MasterAssumption DEF Init, Worked, Msg
<1>3. PlannedBeforeReleased /\ ReleasedByApproval
  BY DEF Init, PlannedBeforeReleased, ReleasedByApproval
<1>4. \A r \in Run : Sound(runs[r], r)
  BY DEF Init, Sound, NoRecord, Blank
<1>5. \A t \in Thread : Trusts(h[t])
  BY DEF Init, Trusts, Idle
<1> QED
  BY <1>1, <1>2, <1>3, <1>4, <1>5 DEF Inv

LEMMA InvStep == Inv /\ [Next]_vars => Inv'
<1> SUFFICES ASSUME Inv, [Next]_vars PROVE Inv'
  OBVIOUS
<1>1. CASE Next
  <2>1. TypeOK'
    BY <1>1, TypeStep
  <2>2. Worked'
    BY <1>1, WorkedStep
  <2>3. PlannedBeforeReleased' /\ ReleasedByApproval'
    BY <1>1, GateStep
  <2>4. \A r \in Run : Sound(runs[r], r)'
    BY <1>1, RecordStep
  <2>5. \A t \in Thread : Trusts(h[t])'
    BY <1>1, TrustStep
  <2> QED
    BY <2>1, <2>2, <2>3, <2>4, <2>5 DEF Inv
<1>2. CASE UNCHANGED vars
  BY <1>2 DEF vars, Inv, TypeOK, Worked, PlannedBeforeReleased, ReleasedByApproval, Sound,
     Trusts, Ready, Justified
<1> QED
  BY <1>1, <1>2

LEMMA Invariance == Spec => []Inv
<1> QED
  BY InvInit, InvStep, PTL DEF Spec

(* Every variable of the orchestrator has its type. *)
THEOREM TypeCorrect == Spec => []TypeOK
<1>1. Inv => TypeOK
  BY DEF Inv
<1> QED
  BY Invariance, <1>1, PTL

(* The approval gate holds under every interleaving of handlers, crash,     *)
(* failed call and expired lock: no step of a supervised run reaches a      *)
(* worker unless an operator sent an approval for that run.                 *)
THEOREM ApprovalGate == Spec => []ReleasedByApproval
<1>1. Inv => ReleasedByApproval
  BY DEF Inv
<1> QED
  BY Invariance, <1>1, PTL

(* No step reaches a worker before the whole plan is stored and the trigger *)
(* recorded as taken, and none of a rejected run does at all.               *)
THEOREM PlanComesFirst == Spec => []PlannedBeforeReleased
<1>1. Inv => PlannedBeforeReleased
  BY DEF Inv
<1> QED
  BY Invariance, <1>1, PTL

(* A run is shown SUCCEEDED only when every step of its plan has succeeded, *)
(* whatever stale copies of its record were written back.                   *)
THEOREM SuccessIsComplete == Spec => []SucceededIsComplete
<1>1. Inv => SucceededIsComplete
  BY DEF Inv, Sound, SucceededIsComplete
<1> QED
  BY Invariance, <1>1, PTL

(* A run is shown FAILED_SAFE only with a rejection, a denial or a failed   *)
(* step of its own as the cause.                                            *)
THEOREM FailureHasACause == Spec => []FailureIsJustified
<1>1. Inv => FailureIsJustified
  BY DEF Inv, Sound, Justified, FailureIsJustified
<1> QED
  BY Invariance, <1>1, PTL

(* No handler, failing where it may, removes a result a worker has stored.  *)
THEOREM ResultsAreKept == Spec => ResultKept
<1>1. Inv /\ [Next]_vars => [results \ Unstored \subseteq results']_vars
  BY WorkedStep DEF vars
<1> QED
  BY Invariance, <1>1, PTL DEF Spec, ResultKept

=============================================================================
