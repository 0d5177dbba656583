------------------------------ MODULE RoeMaster ------------------------------
(***************************************************************************)
(* The response orchestrator (cmd/master-roe/main.go).                     *)
(*                                                                         *)
(* Goroutines of one or more master processes turn triggers into runs,     *)
(* release the steps of a run (at once, or when an operator approves it),  *)
(* apply the results that the step workers report, and time out approvals  *)
(* nobody gave.  They share key-value buckets and nothing else: a run is   *)
(* one value that a handler reads, changes in its own copy and writes back *)
(* as a whole.  Each access to a bucket or to the stream is one step, so   *)
(* that handlers interleave, fail and crash between any two of them.       *)
(***************************************************************************)
EXTENDS Naturals, FiniteSets

CONSTANTS
    Run,                \* the runs, one per trigger_idem_key
    NoRun,              \* no run
    Step,               \* the steps of all playbooks, one per (run_id, step_id)
    Trigger, Approval,  \* the messages on the trigger and approval subjects
    NoMsg,              \* no message
    RunFor,             \* the run that a message, a step or its result is about
    Answer,             \* the decision in an approval message
    Group, GroupOf,     \* the group keys, and the group of each grouped run
    NoPlaybook,         \* runs whose rule selects no playbook
    Rejected,           \* runs the allowlist or the plan compiler rejects
    Supervised,         \* runs whose policy requires an approval
    Unstored,           \* steps whose worker keeps its results in another bucket
    Proc,               \* the master processes
    TriggerWorker, ResultWorker, ApprovalWorker, Scanner,    \* goroutines
    ProcOf,             \* the process a goroutine runs in
    AckWaitMayExpire,   \* may AckWait elapse while a handler has the message
    LockMayExpire,      \* may the TTL of a run lock elapse while it is held
    GroupMayExpire,     \* may the TTL of a group lock elapse
    MayTimeOut,         \* may the time for an approval elapse
    MaxCrashes,         \* bound on the crashes of one behaviour
    MaxFaults,          \* bound on the failed service calls of one behaviour
    MaxFailures         \* bound on both together

Thread == TriggerWorker \cup ResultWorker \cup ApprovalWorker \cup Scanner
Msg == Trigger \cup Approval \cup Step      \* a step stands for its result message

ASSUME MasterAssumption ==
    /\ RunFor \in [Msg -> Run]
    /\ Answer \in [Approval -> {"approve", "deny"}]
    /\ DOMAIN GroupOf \subseteq Run
    /\ GroupOf \in [DOMAIN GroupOf -> Group]
    /\ ProcOf \in [Thread -> Proc]
    /\ IsFiniteSet(Step)
    /\ IsFiniteSet(Thread)
    /\ NoRun \notin Run
    /\ NoMsg \notin Msg
    /\ Trigger \cap Approval = {}
    /\ Trigger \cap Step = {}
    /\ Approval \cap Step = {}
    /\ TriggerWorker \cap (ResultWorker \cup ApprovalWorker \cup Scanner) = {}
    /\ ResultWorker \cap (ApprovalWorker \cup Scanner) = {}
    /\ ApprovalWorker \cap Scanner = {}
    /\ Proc \cap {"worker", "dead", "none"} = {}
    /\ NoPlaybook \subseteq Run
    /\ Rejected \subseteq Run \ NoPlaybook
    /\ Supervised \subseteq Run
    /\ Unstored \subseteq Step
    /\ AckWaitMayExpire \in BOOLEAN
    /\ LockMayExpire \in BOOLEAN
    /\ GroupMayExpire \in BOOLEAN
    /\ MayTimeOut \in BOOLEAN
    /\ MaxCrashes \in Nat
    /\ MaxFaults \in Nat
    /\ MaxFailures \in Nat

VARIABLES
    delivery,   \* the consumers' view of each message
    idemp,      \* bucket RSIEM_RSP_IDEMP: the triggers that were taken
    runs,       \* bucket RSIEM_RSP_RUNS, key run.<run>
    planned,    \* bucket RSIEM_RSP_STEPS, keys step.<step>
    results,    \* bucket RSIEM_RSP_RESULTS, keys result.<run>.<step>
    approvals,  \* bucket RSIEM_RSP_APPROVALS, keys approval.<run>
    group,      \* bucket RSIEM_RSP_LOCKS, keys lock.group.<rule>.<group>
    lock,       \* bucket RSIEM_RSP_LOCKS, keys lock.run.<run>
    published,  \* how often each step was published to the workers
    handled,    \* how many of those messages a worker has handled
    work,       \* what the step workers do for each step
    report,     \* the terminal status a worker has reported for each step
    h,          \* the handler each goroutine is running
    crashes,    \* process crashes so far
    faults,     \* failed service calls so far
    again,      \* how often the key that guards the release of a run was lost
    late        \* goroutines that looked for that key before another put it

intake == <<idemp, planned, group>>
outcome == <<results, report>>
worker == <<published, handled, work>>
count == <<crashes, faults, again, late>>
vars == <<delivery, idemp, runs, planned, results, approvals, group, lock,
          published, handled, work, report, h, crashes, faults, again, late>>

StepsOf(r) == {s \in Step : RunFor[s] = r}
Grouped == DOMAIN GroupOf

-----------------------------------------------------------------------------
Terminal == {"SUCCEEDED", "FAILED_SAFE"}
Status == {"NONE", "CREATED", "WAITING_APPROVAL", "APPROVED", "PLANNED",
           "RUNNING", "MANUAL_REVIEW_REQUIRED"} \cup Terminal
Decision == {"none", "approve", "deny", "timeout"}

(***************************************************************************)
(* runRecord: seen are the steps StepStatuses has a status for, total is   *)
(* StepTotal.                                                              *)
(***************************************************************************)
RunRecord == [status : Status, decision : Decision, seen : SUBSET Step, total : Nat]
Blank(status) == [status |-> status, decision |-> "none", seen |-> {}, total |-> 0]
NoRecord == Blank("NONE")                           \* the key is absent

(* recomputeRunCounts *)
SucceededIn(rec) == {s \in rec.seen : report[s] = "SUCCEEDED"}
FailedIn(rec) == {s \in rec.seen : report[s] = "FAILED_SAFE"}

(* Mutant: what the record has seen decides, however long the plan is. *)
CountsOnlySeen(rec) ==
    IF FailedIn(rec) # {} THEN "FAILED_SAFE"
    ELSE IF rec.seen # {} THEN "SUCCEEDED" ELSE "RUNNING"

Counted(rec) ==
    CASE FailedIn(rec) # {} -> "FAILED_SAFE"
      [] /\ FailedIn(rec) = {}
         /\ rec.total > 0
         /\ Cardinality(SucceededIn(rec)) >= rec.total -> "SUCCEEDED"
      [] OTHER -> "RUNNING"

(* The approvals processApproval acts on, whatever their order. *)
Eligible(rec, answer) ==
    \/ rec.status \in {"WAITING_APPROVAL", "APPROVED"}
    \/ answer = "approve" /\ rec.status = "RUNNING" /\ rec.decision = "approve"
    \/ answer = "deny" /\ rec.status = "FAILED_SAFE" /\ rec.decision = "deny"

(***************************************************************************)
(* The control points: a handler at a point is about to make that call.    *)
(***************************************************************************)
TriggerPC == {"idemp_get", "group_get", "group_put", "persist_created",
              "persist_idemp", "reject", "persist_step", "persist_waiting",
              "request", "persist_planned"}
ResultPC == {"lock_get", "lock_put", "result_get", "result_put", "run_get",
             "reconcile", "persist_run", "release"}
ApprovalPC == {"approval_get", "approval_put", "load_run", "persist_decision",
               "load_steps", "persist_running"}
PC == TriggerPC \cup ResultPC \cup ApprovalPC \cup {"publish", "ack", "persist_timeout"}

(***************************************************************************)
(* run is the handler's copy of the run record, todo the steps that a loop *)
(* has still to visit, own says that the handler has put the key that it   *)
(* deletes again when it fails, ok that the message will be acknowledged.  *)
(***************************************************************************)
Handler == [pc : PC \cup {"idle"}, msg : Msg \cup {NoMsg}, of : Run \cup {NoRun},
            run : RunRecord, todo : SUBSET Step, own : BOOLEAN, ok : BOOLEAN]
Idle == [pc |-> "idle", msg |-> NoMsg, of |-> NoRun, run |-> NoRecord,
         todo |-> {}, own |-> FALSE, ok |-> FALSE]

Of(t) == h[t].of
Held(m) == \E t \in Thread : h[t].msg = m

Init ==
    /\ delivery = [m \in Msg |-> IF m \in Trigger THEN "ready" ELSE "none"]
    /\ idemp = {}
    /\ runs = [r \in Run |-> NoRecord]
    /\ planned = {}
    /\ results = {}
    /\ approvals = {}
    /\ group = [g \in Group |-> NoRun]
    /\ lock = [r \in Run |-> "none"]
    /\ published = [s \in Step |-> 0]
    /\ handled = [s \in Step |-> 0]
    /\ work = [s \in Step |-> "idle"]
    /\ report = [s \in Step |-> "none"]
    /\ h = [t \in Thread |-> Idle]
    /\ crashes = 0
    /\ faults = 0
    /\ again = [r \in Run |-> 0]
    /\ late = {}

-----------------------------------------------------------------------------
(* Control flow. *)

Goto(t, pc) == h' = [h EXCEPT ![t].pc = pc]
Take(t, m, pc) ==
    h' = [h EXCEPT ![t] = [Idle EXCEPT !.pc = pc, !.msg = m, !.of = RunFor[m]]]

(* A loop over the steps in todo at pc, or what follows it when none is left. *)
Loop(t, todo, pc, then) ==
    h' = [h EXCEPT ![t].todo = todo, ![t].pc = IF todo = {} THEN then ELSE pc]

(* A goroutine takes a message of its kind from its queue. *)
Receive(t, m) ==
    /\ h[t].pc = "idle"
    /\ delivery[m] = "ready"
    /\ delivery' = [delivery EXCEPT ![m] = "pending"]
    /\ \/ t \in TriggerWorker /\ m \in Trigger /\ Take(t, m, "idemp_get")
       \/ t \in ResultWorker /\ m \in Step /\ Take(t, m, "lock_get")
       \/ t \in ApprovalWorker /\ m \in Approval /\ Take(t, m, "approval_get")
    /\ UNCHANGED <<intake, runs, outcome, approvals, lock, worker, count>>

(* The handler returned without an error. *)
Ack(t) ==
    /\ h[t].pc = "ack"
    /\ delivery' = [delivery EXCEPT ![h[t].msg] = "acked"]
    /\ h' = [h EXCEPT ![t] = Idle]
    /\ UNCHANGED <<intake, runs, outcome, approvals, lock, worker, count>>

(* persistRun: the handler's copy, with this status, replaces the record. *)
PersistRun(t, status) == runs' = [runs EXCEPT ![Of(t)] = [h[t].run EXCEPT !.status = status]]

(***************************************************************************)
(* Who may release the steps of a run is settled by one key: the approval  *)
(* key when the run is supervised, the idempotency key otherwise.  The     *)
(* buckets have no compare-and-set: the key is looked up and put in two    *)
(* calls, and deleted in a third by a handler that fails.  Two history     *)
(* variables say when that went wrong.  The key is lost when a handler     *)
(* puts it that looked for it before another put it, and when the handler  *)
(* that put it deletes it.                                                 *)
(***************************************************************************)
Key(r) == IF r \in Supervised THEN r \in approvals ELSE r \in idemp
KeyPC(r) ==     \* from having looked for the key to putting it
    IF r \in Supervised THEN {"approval_put"}
    ELSE {"group_get", "group_put", "persist_created", "persist_idemp"}
SeeksKey(t, r) == Of(t) = r /\ h[t].pc \in KeyPC(r)

LooksForKey(t) == late' = late \ {t} /\ UNCHANGED again

KeyIsPut(t) ==
    /\ again' = [r \in Run |-> IF SeeksKey(t, r) /\ t \in late /\ Key(r)
                               THEN again[r] + 1 ELSE again[r]]
    /\ late' = (late \ {t}) \cup {u \in Thread \ {t} : \E r \in Run :
                                                    SeeksKey(t, r) /\ SeeksKey(u, r)}

KeysAreDeleted ==
    /\ again' = [r \in Run |-> IF r \in Supervised \cap (approvals \ approvals')
                               THEN again[r] + 1 ELSE again[r]]
    /\ late' = {u \in late : h'[u] = h[u]}

-----------------------------------------------------------------------------
(* processTrigger *)

(* A trigger that was taken before, or that no playbook answers, ends here. *)
IdempGet(t) ==
    /\ h[t].pc = "idemp_get"
    /\ Goto(t, CASE Of(t) \in idemp \cup NoPlaybook -> "ack"
                 [] Of(t) \in Grouped \ (idemp \cup NoPlaybook) -> "group_get"
                 [] OTHER -> "persist_created")
    /\ LooksForKey(t)
    /\ UNCHANGED <<delivery, intake, runs, outcome, approvals, lock, worker, crashes, faults>>

(* tryAcquireGroupLock: a group lock that has not expired suppresses the    *)
(* trigger, be it the run's own.                                            *)
GroupGet(t) ==
    /\ h[t].pc = "group_get"
    /\ Goto(t, IF group[GroupOf[Of(t)]] # NoRun THEN "ack" ELSE "group_put")
    /\ UNCHANGED <<delivery, intake, runs, outcome, approvals, lock, worker, count>>

GroupPut(t) ==
    /\ h[t].pc = "group_put"
    /\ group' = [group EXCEPT ![GroupOf[Of(t)]] = Of(t)]
    /\ Goto(t, "persist_created")
    /\ UNCHANGED <<delivery, idemp, planned, runs, outcome, approvals, lock, worker, count>>

PersistCreated(t) ==
    /\ h[t].pc = "persist_created"
    /\ PersistRun(t, "CREATED")
    /\ Goto(t, "persist_idemp")
    /\ UNCHANGED <<delivery, intake, outcome, approvals, lock, worker, count>>

(* What follows the plan: the approval gate, or the release of the steps. *)
Planned(t) ==
    CASE Of(t) \in Supervised -> "persist_waiting"
      [] Of(t) \notin Supervised /\ StepsOf(Of(t)) # {} -> "publish"
      [] OTHER -> "persist_planned"

(* persistIdempotency, then evaluatePlaybookAllowlist and compileSteps *)
PersistIdempotency(t) ==
    /\ h[t].pc = "persist_idemp"
    /\ idemp' = idemp \cup {Of(t)}
    /\ \/ Of(t) \in Rejected /\ Goto(t, "reject")
       \/ Of(t) \notin Rejected /\ Loop(t, StepsOf(Of(t)), "persist_step", Planned(t))
    /\ KeyIsPut(t)
    /\ UNCHANGED <<delivery, planned, group, runs, outcome, approvals, lock, worker,
                   crashes, faults>>

Reject(t) ==
    /\ h[t].pc = "reject"
    /\ PersistRun(t, "FAILED_SAFE")
    /\ Goto(t, "ack")
    /\ UNCHANGED <<delivery, intake, outcome, approvals, lock, worker, count>>

(* Mutant: a step is released as soon as it is stored. *)
PersistStepHurries(t, s) ==
    /\ h[t].pc = "persist_step"
    /\ s \in h[t].todo
    /\ planned' = planned \cup {s}
    /\ h' = [h EXCEPT ![t].pc = Planned(t)]
    /\ UNCHANGED <<delivery, idemp, group, runs, outcome, approvals, lock, worker, count>>

PersistStep(t, s) ==
    /\ h[t].pc = "persist_step"
    /\ s \in h[t].todo
    /\ planned' = planned \cup {s}
    /\ h' = [h EXCEPT ![t].todo = IF @ = {s} THEN StepsOf(Of(t)) ELSE @ \ {s},
                       ![t].pc = IF h[t].todo = {s} THEN Planned(t) ELSE @]
    /\ UNCHANGED <<delivery, idemp, group, runs, outcome, approvals, lock, worker, count>>

PersistWaiting(t) ==
    /\ h[t].pc = "persist_waiting"
    /\ runs' = [runs EXCEPT ![Of(t)] = [Blank("WAITING_APPROVAL") EXCEPT
                                            !.total = Cardinality(StepsOf(Of(t)))]]
    /\ Goto(t, "request")
    /\ UNCHANGED <<delivery, intake, outcome, approvals, lock, worker, count>>

(* publishApprovalRequest informs the operators; they can list the run too. *)
Request(t) ==
    /\ h[t].pc = "request"
    /\ Goto(t, "ack")
    /\ UNCHANGED <<delivery, intake, runs, outcome, approvals, lock, worker, count>>

(* publishStep, in processTrigger and in processApproval *)
Publish(t, s) ==
    /\ h[t].pc = "publish"
    /\ s \in h[t].todo
    /\ published' = [published EXCEPT ![s] = @ + 1]
    /\ Loop(t, h[t].todo \ {s}, "publish",
            IF h[t].msg \in Trigger THEN "persist_planned" ELSE "persist_running")
    /\ UNCHANGED <<delivery, intake, runs, outcome, approvals, lock, handled, work, count>>

PersistPlanned(t) ==
    /\ h[t].pc = "persist_planned"
    /\ runs' = [runs EXCEPT ![Of(t)] = [Blank("PLANNED") EXCEPT
                                            !.total = Cardinality(StepsOf(Of(t)))]]
    /\ Goto(t, "ack")
    /\ UNCHANGED <<delivery, intake, outcome, approvals, lock, worker, count>>

-----------------------------------------------------------------------------
(* processResult *)

(* acquireResultLock: the holder is a process, which shares the lock among  *)
(* its goroutines.  A contended result is postponed with NakWithDelay.      *)
LockGet(t) ==
    /\ h[t].pc = "lock_get"
    /\ h' = [h EXCEPT ![t] = IF lock[Of(t)] \in {"none", ProcOf[t]}
                             THEN [@ EXCEPT !.pc = "lock_put"] ELSE Idle]
    /\ UNCHANGED <<delivery, intake, runs, outcome, approvals, lock, worker, count>>

(* Mutant: the holder is the goroutine. *)
LockPutByGoroutine(t) ==
    /\ h[t].pc = "lock_put"
    /\ lock' = [lock EXCEPT ![Of(t)] = t]
    /\ Goto(t, "result_get")
    /\ UNCHANGED <<delivery, intake, runs, outcome, approvals, worker, count>>

LockPut(t) ==
    /\ h[t].pc = "lock_put"
    /\ lock' = [lock EXCEPT ![Of(t)] = ProcOf[t]]
    /\ Goto(t, "result_get")
    /\ UNCHANGED <<delivery, intake, runs, outcome, approvals, worker, count>>

(* Mutant: a result that is stored already is an error. *)
ResultGetRefuses(t) ==
    /\ h[t].pc = "result_get"
    /\ Goto(t, IF h[t].msg \in results THEN "release" ELSE "result_put")
    /\ UNCHANGED <<delivery, intake, runs, outcome, approvals, lock, worker, count>>

ResultGet(t) ==
    /\ h[t].pc = "result_get"
    /\ Goto(t, IF h[t].msg \in results THEN "run_get" ELSE "result_put")
    /\ UNCHANGED <<delivery, intake, runs, outcome, approvals, lock, worker, count>>

(* persistResultDedupe *)
ResultPut(t) ==
    /\ h[t].pc = "result_put"
    /\ results' = results \cup {h[t].msg}
    /\ h' = [h EXCEPT ![t].pc = "run_get", ![t].own = TRUE]
    /\ UNCHANGED <<delivery, intake, runs, report, approvals, lock, worker, count>>

(* getRun and updateRunWithResult *)
RunGet(t) ==
    LET rec == IF runs[Of(t)] = NoRecord THEN Blank("RUNNING") ELSE runs[Of(t)]
    IN  /\ h[t].pc = "run_get"
        /\ h' = [h EXCEPT ![t].pc = "reconcile",
                           ![t].run = [rec EXCEPT !.seen = @ \cup {h[t].msg}]]
        /\ UNCHANGED <<delivery, intake, runs, outcome, approvals, lock, worker, count>>

(* reconcileRunProgress: the plan gives the total, the results bucket what  *)
(* the record has not seen.                                                 *)

(* Mutant: only the result at hand is counted. *)
ReconciledWithoutResults(rec, r) ==
    LET plan == planned \cap StepsOf(r)
        all == [rec EXCEPT !.total = IF plan = {} THEN @ ELSE Cardinality(plan)]
    IN  [all EXCEPT !.status = Counted(all)]

Reconciled(rec, r) ==
    LET plan == planned \cap StepsOf(r)
        all == [rec EXCEPT !.seen = @ \cup (plan \cap results),
                           !.total = IF plan = {} THEN @ ELSE Cardinality(plan)]
    IN  [all EXCEPT !.status = Counted(all)]

Reconcile(t) ==
    /\ h[t].pc = "reconcile"
    /\ h' = [h EXCEPT ![t].pc = "persist_run", ![t].run = Reconciled(@, Of(t))]
    /\ UNCHANGED <<delivery, intake, runs, outcome, approvals, lock, worker, count>>

PersistResult(t) ==
    /\ h[t].pc = "persist_run"
    /\ PersistRun(t, h[t].run.status)
    /\ h' = [h EXCEPT ![t].pc = "release", ![t].ok = TRUE]
    /\ UNCHANGED <<delivery, intake, outcome, approvals, lock, worker, count>>

(* releaseResultLock deletes the lock, whoever holds it by now. *)
Release(t) ==
    /\ h[t].pc = "release"
    /\ lock' = [lock EXCEPT ![Of(t)] = "none"]
    /\ h' = [h EXCEPT ![t] = IF @.ok THEN [@ EXCEPT !.pc = "ack", !.own = FALSE] ELSE Idle]
    /\ UNCHANGED <<delivery, intake, runs, outcome, approvals, worker, count>>

-----------------------------------------------------------------------------
(* processApproval *)

(* Mutant: the approval key is not looked up. *)
ApprovalGetForgets(t) ==
    /\ h[t].pc = "approval_get"
    /\ Goto(t, "approval_put")
    /\ LooksForKey(t)
    /\ UNCHANGED <<delivery, intake, runs, outcome, approvals, lock, worker, crashes, faults>>

(* A run is decided once: a second approval message is a duplicate. *)
ApprovalGet(t) ==
    /\ h[t].pc = "approval_get"
    /\ Goto(t, IF Of(t) \in approvals THEN "ack" ELSE "approval_put")
    /\ LooksForKey(t)
    /\ UNCHANGED <<delivery, intake, runs, outcome, approvals, lock, worker, crashes, faults>>

ApprovalPut(t) ==
    /\ h[t].pc = "approval_put"
    /\ approvals' = approvals \cup {Of(t)}
    /\ h' = [h EXCEPT ![t].pc = "load_run", ![t].own = TRUE]
    /\ KeyIsPut(t)
    /\ UNCHANGED <<delivery, intake, runs, outcome, lock, worker, crashes, faults>>

(* An orphaned approval and one that is not needed keep their key. *)
LoadRun(t) ==
    LET rec == runs[Of(t)]
        answer == Answer[h[t].msg]
        decided(pc, status) ==
            h' = [h EXCEPT ![t].pc = pc,
                           ![t].run = [rec EXCEPT !.status = status, !.decision = answer]]
    IN  /\ h[t].pc = "load_run"
        /\ \/ /\ ~ Eligible(rec, answer)
              /\ h' = [h EXCEPT ![t].pc = "ack", ![t].own = FALSE]
           \/ /\ Eligible(rec, answer)
              /\ \/ answer = "deny" /\ decided("persist_decision", "FAILED_SAFE")
                 \/ answer = "approve" /\ rec.status = "RUNNING"
                       /\ decided("load_steps", "RUNNING")
                 \/ answer = "approve" /\ rec.status # "RUNNING"
                       /\ decided("persist_decision", "APPROVED")
        /\ UNCHANGED <<delivery, intake, runs, outcome, approvals, lock, worker, count>>

(* Mutant: the steps follow whatever the decision. *)
PersistDecisionGoesOn(t) ==
    /\ h[t].pc = "persist_decision"
    /\ PersistRun(t, h[t].run.status)
    /\ Goto(t, "load_steps")
    /\ UNCHANGED <<delivery, intake, outcome, approvals, lock, worker, count>>

PersistDecision(t) ==
    /\ h[t].pc = "persist_decision"
    /\ PersistRun(t, h[t].run.status)
    /\ Goto(t, IF Answer[h[t].msg] = "deny" THEN "ack" ELSE "load_steps")
    /\ UNCHANGED <<delivery, intake, outcome, approvals, lock, worker, count>>

(* loadPlannedSteps; Publish releases them. *)
LoadSteps(t) ==
    /\ h[t].pc = "load_steps"
    /\ Loop(t, planned \cap StepsOf(Of(t)), "publish", "persist_running")
    /\ UNCHANGED <<delivery, intake, runs, outcome, approvals, lock, worker, count>>

PersistRunning(t) ==
    /\ h[t].pc = "persist_running"
    /\ PersistRun(t, "RUNNING")
    /\ Goto(t, "ack")
    /\ UNCHANGED <<delivery, intake, outcome, approvals, lock, worker, count>>

-----------------------------------------------------------------------------
(* scanForApprovalTimeouts: the record read here is written back later. *)

Scan(t, r) ==
    /\ MayTimeOut
    /\ t \in Scanner
    /\ h[t].pc = "idle"
    /\ runs[r].status = "WAITING_APPROVAL"
    /\ h' = [h EXCEPT ![t] = [Idle EXCEPT !.pc = "persist_timeout", !.of = r,
                                          !.run = [runs[r] EXCEPT !.decision = "timeout"]]]
    /\ UNCHANGED <<delivery, intake, runs, outcome, approvals, lock, worker, count>>

(* Mutant: a time-out is recorded like a denial. *)
PersistTimeoutAsDenial(t) ==
    /\ h[t].pc = "persist_timeout"
    /\ PersistRun(t, "FAILED_SAFE")
    /\ h' = [h EXCEPT ![t] = Idle]
    /\ UNCHANGED <<delivery, intake, outcome, approvals, lock, worker, count>>

PersistTimeout(t) ==
    /\ h[t].pc = "persist_timeout"
    /\ PersistRun(t, "MANUAL_REVIEW_REQUIRED")
    /\ h' = [h EXCEPT ![t] = Idle]
    /\ UNCHANGED <<delivery, intake, outcome, approvals, lock, worker, count>>

-----------------------------------------------------------------------------
(* Outside the master. *)

(* An operator answers a run that has been announced as waiting. *)
Decide(m) ==
    /\ m \in Approval
    /\ delivery[m] = "none"
    /\ runs[RunFor[m]].status \notin {"NONE", "CREATED"}
    /\ delivery' = [delivery EXCEPT ![m] = "ready"]
    /\ UNCHANGED <<intake, runs, outcome, approvals, lock, worker, h, count>>

(* The failures that the bounds still allow. *)
MayCrash == crashes < MaxCrashes /\ crashes + faults < MaxFailures
MayFail == faults < MaxFaults /\ crashes + faults < MaxFailures

(***************************************************************************)
(* The step workers, as module RoeWorker describes them: a worker holds    *)
(* the lock of the run while it executes a step and reports its result,    *)
(* stores the result before it publishes it, and answers a message for a   *)
(* finished step with the stored result.  A message whose acknowledgement  *)
(* fails comes back.                                                       *)
(***************************************************************************)
WorkerStart(s) ==
    /\ handled[s] < published[s]
    /\ work[s] = "idle"
    /\ report[s] = "none"
    /\ lock[RunFor[s]] \in {"none", "worker"}
    /\ lock' = [lock EXCEPT ![RunFor[s]] = "worker"]
    /\ work' = [work EXCEPT ![s] = "running"]
    /\ UNCHANGED <<delivery, intake, runs, outcome, approvals, published, handled, h, count>>

WorkerReport(s) ==
    /\ work[s] = "running"
    /\ \E status \in Terminal : report' = [report EXCEPT ![s] = status]
    /\ results' = results \cup ({s} \ Unstored)
    /\ delivery' = [delivery EXCEPT ![s] = "ready"]
    /\ work' = [work EXCEPT ![s] = "reported"]
    /\ UNCHANGED <<intake, runs, approvals, lock, published, handled, h, count>>

WorkerRelease(s) ==
    /\ work[s] = "reported"
    /\ lock' = [lock EXCEPT ![RunFor[s]] = "none"]
    /\ work' = [work EXCEPT ![s] = "idle"]
    /\ \/ handled' = [handled EXCEPT ![s] = @ + 1] /\ UNCHANGED faults
       \/ MayFail /\ faults' = faults + 1 /\ UNCHANGED handled
    /\ UNCHANGED <<delivery, intake, runs, outcome, approvals, published, h, crashes,
                   again, late>>

WorkerReplay(s) ==
    /\ handled[s] < published[s]
    /\ work[s] = "idle"
    /\ report[s] # "none"
    /\ delivery[s] = "acked"
    /\ delivery' = [delivery EXCEPT ![s] = "ready"]
    /\ handled' = [handled EXCEPT ![s] = @ + 1]
    /\ UNCHANGED <<intake, runs, outcome, approvals, lock, published, work, h, count>>

(* A message that was not acknowledged comes back: after NakWithDelay, or   *)
(* when AckWait has elapsed.                                                *)
Redeliver(m) ==
    /\ delivery[m] = "pending"
    /\ AckWaitMayExpire \/ ~ Held(m)
    /\ delivery' = [delivery EXCEPT ![m] = "ready"]
    /\ UNCHANGED <<intake, runs, outcome, approvals, lock, worker, h, count>>

(* The TTL of a run lock elapses: in any case that of a lock whose holder   *)
(* is dead, or has failed to release it.                                   *)
InUse(r) ==
    \/ lock[r] = "worker"
    \/ \E t \in Thread : /\ ProcOf[t] = lock[r]
                         /\ Of(t) = r
                         /\ h[t].pc \in ResultPC \ {"lock_get", "lock_put"}

LockExpires(r) ==
    /\ lock[r] # "none"
    /\ LockMayExpire \/ ~ InUse(r)
    /\ lock' = [lock EXCEPT ![r] = "none"]
    /\ UNCHANGED <<delivery, intake, runs, outcome, approvals, worker, h, count>>

GroupExpires(g) ==
    /\ GroupMayExpire
    /\ group[g] # NoRun
    /\ group' = [group EXCEPT ![g] = NoRun]
    /\ UNCHANGED <<delivery, idemp, planned, runs, outcome, approvals, lock, worker, h, count>>

(* A master process is killed and restarted: its goroutines lose what they  *)
(* were doing, and its locks belong to a holder that does not exist.        *)
Crash(p) ==
    /\ MayCrash
    /\ crashes' = crashes + 1
    /\ h' = [t \in Thread |-> IF ProcOf[t] = p THEN Idle ELSE h[t]]
    /\ lock' = [r \in Run |-> IF lock[r] = p THEN "dead" ELSE lock[r]]
    /\ late' = {t \in late : ProcOf[t] # p}
    /\ UNCHANGED <<delivery, intake, runs, outcome, approvals, worker, faults, again>>

(***************************************************************************)
(* A service call fails.  The handler returns the error: its deferred      *)
(* functions delete the key it put, if that succeeds, and release the lock;*)
(* the message is not acknowledged.  A call may fail whose effect is       *)
(* already recorded (an export, the acknowledgement, a lock release).      *)
(***************************************************************************)

(* Mutant: the key is deleted whoever has put it. *)
UndoAlways(t) ==
    /\ results' = results \ (IF h[t].msg \in Step THEN {h[t].msg} ELSE {})
    /\ approvals' = approvals \ (IF h[t].own /\ h[t].msg \in Approval THEN {Of(t)} ELSE {})

Undo(t) ==
    /\ results' = results \ (IF h[t].own /\ h[t].msg \in Step THEN {h[t].msg} ELSE {})
    /\ approvals' = approvals \ (IF h[t].own /\ h[t].msg \in Approval THEN {Of(t)} ELSE {})

Fault(t) ==
    /\ h[t].pc # "idle"
    /\ MayFail
    /\ faults' = faults + 1
    /\ \/ /\ h[t].pc \in ResultPC \ {"lock_get", "lock_put"}
          /\ h' = [h EXCEPT ![t].pc = "release", ![t].ok = FALSE]
          /\ Undo(t) \/ UNCHANGED <<results, approvals>>
       \/ /\ h[t].pc = "release"
          /\ h' = [h EXCEPT ![t] = IF @.ok THEN [@ EXCEPT !.pc = "ack", !.own = FALSE] ELSE Idle]
          /\ UNCHANGED <<results, approvals>>
       \/ /\ h[t].pc \notin ResultPC \ {"lock_get", "lock_put"}
          /\ h' = [h EXCEPT ![t] = Idle]
          /\ Undo(t) \/ UNCHANGED <<results, approvals>>
    /\ KeysAreDeleted
    /\ UNCHANGED <<delivery, intake, runs, report, lock, worker, crashes>>

-----------------------------------------------------------------------------
TriggerStep(t) ==
    \/ IdempGet(t) \/ GroupGet(t) \/ GroupPut(t) \/ PersistCreated(t)
    \/ PersistIdempotency(t) \/ Reject(t) \/ PersistWaiting(t) \/ Request(t)
    \/ PersistPlanned(t)
    \/ \E s \in Step : PersistStep(t, s)

ResultStep(t) ==
    \/ LockGet(t) \/ LockPut(t) \/ ResultGet(t) \/ ResultPut(t) \/ RunGet(t)
    \/ Reconcile(t) \/ PersistResult(t) \/ Release(t)

ApprovalStep(t) ==
    \/ ApprovalGet(t) \/ ApprovalPut(t) \/ LoadRun(t) \/ PersistDecision(t)
    \/ LoadSteps(t) \/ PersistRunning(t)

Handle(t) ==
    \/ TriggerStep(t) \/ ResultStep(t) \/ ApprovalStep(t)
    \/ \E s \in Step : Publish(t, s)
    \/ PersistTimeout(t)
    \/ Ack(t)

WorkerStep(s) == WorkerStart(s) \/ WorkerReport(s) \/ WorkerRelease(s) \/ WorkerReplay(s)

Next ==
    \/ \E t \in Thread : Handle(t) \/ Fault(t)
    \/ \E t \in Thread, m \in Msg : Receive(t, m)
    \/ \E t \in Thread, r \in Run : Scan(t, r)
    \/ \E m \in Msg : Decide(m) \/ Redeliver(m)
    \/ \E s \in Step : WorkerStep(s)
    \/ \E r \in Run : LockExpires(r)
    \/ \E g \in Group : GroupExpires(g)
    \/ \E p \in Proc : Crash(p)

Spec == Init /\ [][Next]_vars

(***************************************************************************)
(* Goroutines and workers run, messages come back, a message that is       *)
(* offered again and again is taken, and a lock nobody uses expires.       *)
(* No operator has to answer, no approval to time out.                     *)
(***************************************************************************)
Fairness ==
    /\ \A t \in Thread : WF_vars(Handle(t))
    /\ \A m \in Msg : SF_vars(\E t \in Thread : Receive(t, m)) /\ WF_vars(Redeliver(m))
    /\ \A s \in Step : WF_vars(WorkerStep(s))
    /\ \A r \in Run : WF_vars(~ InUse(r) /\ LockExpires(r))

FairSpec == Spec /\ Fairness

-----------------------------------------------------------------------------
TypeOK ==
    /\ delivery \in [Msg -> {"none", "ready", "pending", "acked"}]
    /\ idemp \subseteq Run
    /\ runs \in [Run -> RunRecord]
    /\ planned \subseteq Step
    /\ results \subseteq Step
    /\ approvals \subseteq Run
    /\ group \in [Group -> Run \cup {NoRun}]
    /\ lock \in [Run -> Proc \cup {"worker", "dead", "none"}]
    /\ published \in [Step -> Nat]
    /\ handled \in [Step -> Nat]
    /\ work \in [Step -> {"idle", "running", "reported"}]
    /\ report \in [Step -> {"none"} \cup Terminal]
    /\ h \in [Thread -> Handler]
    /\ crashes \in 0 .. MaxCrashes
    /\ faults \in 0 .. MaxFaults
    /\ again \in [Run -> Nat]
    /\ late \subseteq Thread

(* The approval gate: a step of a supervised run is released to the workers *)
(* only after an operator approved the run, whatever approvals, denials,    *)
(* time-outs, redeliveries and failures happen to it.                       *)
ReleasedByApproval ==
    \A s \in Step :
        published[s] > 0 /\ RunFor[s] \in Supervised
            => \E m \in Approval : /\ RunFor[m] = RunFor[s]
                                  /\ Answer[m] = "approve"
                                  /\ delivery[m] # "none"

(* A step is published once for each time that the key of its run was lost, *)
(* and once besides: each handler that gets past the key publishes a step   *)
(* at most once, whatever is redelivered, repeated, killed or fails.        *)
PublishedOnce == \A s \in Step : published[s] <= 1 + again[RunFor[s]]

(* No step of a denied run reaches a worker, whichever copies of the record *)
(* are written back, unless the approval key was lost: to a second approval *)
(* that looked it up at the same time, or by an approval that failed.       *)
DeniedHalts ==
    \A s \in Step :
        runs[RunFor[s]].decision = "deny" /\ published[s] > 0 => again[RunFor[s]] > 0

(* A run is shown SUCCEEDED only when every step of its plan has succeeded, *)
(* although concurrent handlers write back stale copies of it, with counts  *)
(* from whatever part of the plan and of the results they have read.        *)
SucceededIsComplete ==
    \A r \in Run :
        runs[r].status = "SUCCEEDED" => \A s \in StepsOf(r) : report[s] = "SUCCEEDED"

(* Before any step of a run reaches a worker, the whole plan is stored and  *)
(* the trigger recorded as taken, so that a redelivery cannot plan again    *)
(* and an approval cannot release half of the plan.                         *)
PlannedBeforeReleased ==
    \A s \in Step :
        published[s] > 0 => /\ StepsOf(RunFor[s]) \subseteq planned
                            /\ RunFor[s] \in idemp \ Rejected

(* A run is FAILED_SAFE only for a reason: its plan was rejected, an        *)
(* operator denied it, or one of its own steps failed.                      *)
FailureIsJustified ==
    \A r \in Run :
        runs[r].status = "FAILED_SAFE" =>
            \/ r \in Rejected
            \/ \E m \in Approval : /\ RunFor[m] = r
                                   /\ Answer[m] = "deny"
                                   /\ delivery[m] # "none"
            \/ \E s \in StepsOf(r) : report[s] = "FAILED_SAFE"

(* A result that its worker stored stays stored: a handler that fails after *)
(* it found the result removes nothing, so a worker that is asked again     *)
(* answers from it instead of executing the step again.                     *)
ResultKept == [][results \ Unstored \subseteq results']_vars

(* Every released step is answered: locks that workers and result handlers  *)
(* contend for, and those of killed processes, do not stop a result from    *)
(* being applied and acknowledged.                                          *)
ResultsApplied == \A s \in Step : published[s] > 0 ~> delivery[s] = "acked"

-----------------------------------------------------------------------------
(* What the project's own scripts and documents say and these handlers do   *)
(* not keep.                                                                *)

(* No step is published for a run whose approval has timed out.             *)
TimedOutHalts ==
    [][\A s \in Step : runs[RunFor[s]].decision = "timeout" => published'[s] = published[s]]_vars
=============================================================================
