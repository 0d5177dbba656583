------------------------------ MODULE RoeWorker ------------------------------
(***************************************************************************)
(* The response step workers (cmd/master-roe-worker/main.go).              *)
(*                                                                         *)
(* Several worker processes, each with several goroutines, pull step       *)
(* messages from one durable JetStream consumer.  A goroutine handles one  *)
(* message at a time (processStep).  What the handlers share is kept in    *)
(* key-value buckets: the state of every step, the terminal result of      *)
(* every step, and one lock per run.  Each access to a bucket, to the      *)
(* stream or to a connector is one step of the model, so that handlers     *)
(* interleave, fail and crash between any two of them.                     *)
(***************************************************************************)
EXTENDS Naturals, FiniteSets

CONSTANTS
    Step,               \* the planned steps, one per (run_id, step_id)
    Run,                \* the response runs
    RunOf,              \* the run a step belongs to
    Msg,                \* the messages published on the step subjects
    NoMsg,              \* no message
    StepOf,             \* the step a message asks for
    Undecodable,        \* messages decodeStep rejects
    Proc,               \* the worker processes
    Thread,             \* the workerLoop goroutines
    ProcOf,             \* the process a goroutine runs in
    MaxAttempts,        \* resolveMaxAttempts: retries + 1, or the default
    WindowAttempts,     \* bound on the extra attempts of the no-responder window
    AgentStep,          \* steps with action type agent_command
    Denied,             \* steps refused by the allowlist or without a connector
    Invalid,            \* steps whose parameters do not validate
    AckWaitMayExpire,   \* may AckWait elapse while a handler still has the message
    LockTTLMayExpire,   \* may the lock TTL elapse while its holder is alive
    MaxCrashes,         \* bound on the process crashes of one behaviour
    MaxFaults           \* bound on the failed service calls of one behaviour

ASSUME WorkerAssumption ==
    /\ RunOf \in [Step -> Run]
    /\ StepOf \in [Msg -> Step]
    /\ NoMsg \notin Msg
    /\ Undecodable \subseteq Msg
    /\ ProcOf \in [Thread -> Proc]
    /\ MaxAttempts \in Nat \ {0}
    /\ WindowAttempts \in Nat
    /\ AgentStep \subseteq Step
    /\ Denied \subseteq Step
    /\ Invalid \subseteq Step \ Denied
    /\ AckWaitMayExpire \in BOOLEAN
    /\ LockTTLMayExpire \in BOOLEAN
    /\ MaxCrashes \in Nat
    /\ MaxFaults \in Nat

VARIABLES
    delivery,   \* the consumer's view of each message
    steps,      \* bucket RSIEM_RSP_STEPS, key step.<run>.<step>
    backoff,    \* is next_retry_at of the step's state still in the future
    result,     \* bucket RSIEM_RSP_RESULTS, key result.<run>.<step>
    legacy,     \* the same bucket, key worker_result.<run>.<step>
    lock,       \* bucket RSIEM_RSP_LOCKS, key lock.run.<run>
    published,  \* the payloads published so far on the result subjects
    execs,      \* how often the connector of each step was invoked
    h,          \* the handler each goroutine is running
    life,       \* the incarnation of each process; workerID is <<proc, life>>
    faults      \* failed service calls so far

buckets == <<steps, backoff, result, legacy, lock>>
outside == <<published, execs>>
vars == <<delivery, steps, backoff, result, legacy, lock, published, execs,
          h, life, faults>>

-----------------------------------------------------------------------------
Terminal == {"SUCCEEDED", "FAILED_SAFE"}
Status == {"NONE", "RUNNING", "FAILED_TRANSIENT"} \cup Terminal
StepState == [status : Status, attempt : Nat]
Missing == [status |-> "NONE", attempt |-> 0]       \* the key is absent

WorkerID == Proc \X Nat
Free == [holder |-> <<>>, fresh |-> FALSE]          \* the lock key is absent
Lock == [holder : WorkerID, fresh : BOOLEAN] \cup {Free}

(***************************************************************************)
(* The control points of processStep: a handler at a point is about to     *)
(* make that call.  "idle" is workerLoop waiting on its channel.           *)
(***************************************************************************)
Before == {"check_result", "check_state", "lock_get", "lock_put", "put_running"}
After == {"put_final", "persist_result", "persist_legacy", "publish"}
Closing == {"ack", "nak"}
Working == Before \cup {"execute"} \cup After \cup Closing
PC == {"release"} \cup Working

(***************************************************************************)
(* prior is the attempt of the FAILED_TRANSIENT state that was read, or 0; *)
(* final is the outcome being recorded; locked says that the deferred      *)
(* releaseRunLock is still to come.                                        *)
(***************************************************************************)
Busy == [pc : PC, msg : Msg, prior : Nat, final : StepState, locked : BOOLEAN]
Idle == [pc |-> "idle", msg |-> NoMsg, prior |-> 0, final |-> Missing,
         locked |-> FALSE]
Handler == Busy \cup {Idle}

Id(t) == <<ProcOf[t], life[ProcOf[t]]>>
Of(t) == StepOf[h[t].msg]
Held(m) == \E t \in Thread : h[t].pc \in Working /\ h[t].msg = m

(* Mutant: the attempt recorded in the step's state is not looked at. *)
AttemptIgnoresState(t) == 1

(* resolveAttempt; the messages of master-roe carry attempt 0. *)
Attempt(t) == h[t].prior + 1

(* The attempts after which a retryable error is final: an agent_command    *)
(* that no agent answers is retried for a window of time past the limit.    *)
Limit(s) == MaxAttempts + (IF s \in AgentStep THEN WindowAttempts ELSE 0)

Init ==
    /\ delivery = [m \in Msg |-> "ready"]
    /\ steps = [s \in Step |-> Missing]
    /\ backoff = [s \in Step |-> FALSE]
    /\ result = [s \in Step |-> Missing]
    /\ legacy = [s \in Step |-> Missing]
    /\ lock = [r \in Run |-> Free]
    /\ published = [s \in Step |-> {}]
    /\ execs = [s \in Step |-> 0]
    /\ h = [t \in Thread |-> Idle]
    /\ life = [p \in Proc |-> 0]
    /\ faults = 0

-----------------------------------------------------------------------------
(* Control flow.  A handler that gives up runs its deferred lock release,   *)
(* if any, and leaves the message unacknowledged.                           *)

Goto(t, pc) == h' = [h EXCEPT ![t].pc = pc]
Leave(t) == h' = [h EXCEPT ![t] = IF @.locked THEN [@ EXCEPT !.pc = "release"]
                                              ELSE Idle]
Record(t, pc, final) == h' = [h EXCEPT ![t].pc = pc, ![t].final = final]

(* workerLoop takes a delivery of a message. *)
Receive(t, m) ==
    /\ h[t].pc = "idle"
    /\ m \notin Undecodable
    /\ delivery[m] = "ready"
    /\ delivery' = [delivery EXCEPT ![m] = "pending"]
    /\ h' = [h EXCEPT ![t] = [Idle EXCEPT !.pc = "check_result", !.msg = m]]
    /\ UNCHANGED <<buckets, outside, life, faults>>

(* A message that does not decode is left without an acknowledgement. *)
DropUndecodable(t, m) ==
    /\ h[t].pc = "idle"
    /\ m \in Undecodable
    /\ delivery[m] = "ready"
    /\ delivery' = [delivery EXCEPT ![m] = "pending"]
    /\ UNCHANGED <<buckets, outside, h, life, faults>>

(* handleResultReplay and the second look-up: a result that exists is       *)
(* published again and nothing is executed.                                 *)
CheckResult(t) ==
    /\ h[t].pc = "check_result"
    /\ IF result[Of(t)] # Missing
       THEN Record(t, "publish", result[Of(t)])
       ELSE Goto(t, "check_state")
    /\ UNCHANGED <<delivery, buckets, outside, life, faults>>

(* Mutant: a step still in its backoff is acknowledged as a duplicate. *)
CheckStateAcksBackoff(t) ==
    /\ h[t].pc = "check_state"
    /\ LET state == steps[Of(t)] IN
       CASE state.status \in Terminal -> Record(t, "persist_result", state)
         [] state.status = "RUNNING" -> Goto(t, "ack")
         [] state.status = "FAILED_TRANSIENT" /\ backoff[Of(t)] -> Goto(t, "ack")
         [] OTHER -> h' = [h EXCEPT ![t].pc = "lock_get",
                                    ![t].prior = state.attempt]
    /\ UNCHANGED <<delivery, buckets, outside, life, faults>>

(* Mutant: a terminal state is published again but not stored as a result. *)
CheckStateSkipsPersist(t) ==
    /\ h[t].pc = "check_state"
    /\ LET state == steps[Of(t)] IN
       CASE state.status \in Terminal -> Record(t, "publish", state)
         [] state.status = "RUNNING" -> Goto(t, "ack")
         [] state.status = "FAILED_TRANSIENT" /\ backoff[Of(t)] -> Goto(t, "nak")
         [] OTHER -> h' = [h EXCEPT ![t].pc = "lock_get",
                                    ![t].prior = state.attempt]
    /\ UNCHANGED <<delivery, buckets, outside, life, faults>>

(* The step's state decides how the handler goes on. *)
CheckState(t) ==
    /\ h[t].pc = "check_state"
    /\ LET state == steps[Of(t)] IN
       CASE state.status \in Terminal -> Record(t, "persist_result", state)
         [] state.status = "RUNNING" -> Goto(t, "ack")
         [] state.status = "FAILED_TRANSIENT" /\ backoff[Of(t)] -> Goto(t, "nak")
         [] OTHER -> h' = [h EXCEPT ![t].pc = "lock_get",
                                    ![t].prior = state.attempt]
    /\ UNCHANGED <<delivery, buckets, outside, life, faults>>

(* Mutant: no return after the NakWithDelay of a contended lock. *)
LockGetRunsOn(t) ==
    /\ h[t].pc = "lock_get"
    /\ LET l == lock[RunOf[Of(t)]] IN
       delivery' = IF l # Free /\ l.holder # Id(t) /\ l.fresh
                   THEN [delivery EXCEPT ![h[t].msg] = "delayed"]
                   ELSE delivery
    /\ Goto(t, "lock_put")
    /\ UNCHANGED <<buckets, outside, life, faults>>

(* acquireRunLock, its Get: refused only by another worker's fresh lock. *)
LockGet(t) ==
    /\ h[t].pc = "lock_get"
    /\ LET l == lock[RunOf[Of(t)]] IN
       IF l # Free /\ l.holder # Id(t) /\ l.fresh
       THEN Goto(t, "nak")
       ELSE Goto(t, "lock_put")
    /\ UNCHANGED <<delivery, buckets, outside, life, faults>>

(* acquireRunLock, its Put: unconditional. *)
LockPut(t) ==
    /\ h[t].pc = "lock_put"
    /\ lock' = [lock EXCEPT ![RunOf[Of(t)]] = [holder |-> Id(t), fresh |-> TRUE]]
    /\ h' = [h EXCEPT ![t].pc = "put_running", ![t].locked = TRUE]
    /\ UNCHANGED <<delivery, steps, backoff, result, legacy, outside, life, faults>>

(* RUNNING is stored, then the step is screened: the allowlist, the         *)
(* connector look-up and the parameters may make it FAILED_SAFE at once.    *)
(* A parameter failure is recorded with validationAttempt, which is 1.      *)
PutRunning(t) ==
    LET s == Of(t) IN
    /\ h[t].pc = "put_running"
    /\ steps' = [steps EXCEPT ![s] = [status |-> "RUNNING", attempt |-> Attempt(t)]]
    /\ backoff' = [backoff EXCEPT ![s] = FALSE]
    /\ IF s \in Denied \cup Invalid
       THEN Record(t, "put_final",
                   [status |-> "FAILED_SAFE",
                    attempt |-> IF s \in Invalid THEN 1 ELSE Attempt(t)])
       ELSE Goto(t, "execute")
    /\ UNCHANGED <<delivery, result, legacy, lock, outside, life, faults>>

(* executeConnector: the side effect, and the outcome it leads to. *)
Execute(t) ==
    LET s == Of(t) IN
    /\ h[t].pc = "execute"
    /\ execs' = [execs EXCEPT ![s] = @ + 1]
    /\ \E status \in Terminal \cup {"FAILED_TRANSIENT"} :
          /\ status = "FAILED_TRANSIENT" => Attempt(t) < Limit(s)
          /\ Record(t, "put_final", [status |-> status, attempt |-> Attempt(t)])
    /\ UNCHANGED <<delivery, buckets, published, life, faults>>

(* Mutant: a terminal outcome is published before it is stored. *)
PutFinalPublishesFirst(t) ==
    LET s == Of(t)
        retry == h[t].final.status = "FAILED_TRANSIENT" IN
    /\ h[t].pc = "put_final"
    /\ steps' = [steps EXCEPT ![s] = h[t].final]
    /\ backoff' = [backoff EXCEPT ![s] = retry]
    /\ published' = IF retry THEN published
                    ELSE [published EXCEPT ![s] = @ \cup {h[t].final}]
    /\ Goto(t, IF retry THEN "nak" ELSE "persist_result")
    /\ UNCHANGED <<delivery, result, legacy, lock, execs, life, faults>>

(* The outcome replaces the RUNNING state; a transient one sets            *)
(* next_retry_at and gives the message back with the same delay.            *)
PutFinal(t) ==
    LET s == Of(t)
        retry == h[t].final.status = "FAILED_TRANSIENT" IN
    /\ h[t].pc = "put_final"
    /\ steps' = [steps EXCEPT ![s] = h[t].final]
    /\ backoff' = [backoff EXCEPT ![s] = retry]
    /\ Goto(t, IF retry THEN "nak" ELSE "persist_result")
    /\ UNCHANGED <<delivery, result, legacy, lock, outside, life, faults>>

(* Mutant: a Put in the place of the Create. *)
PersistResultOverwrites(t) ==
    /\ h[t].pc = "persist_result"
    /\ result' = [result EXCEPT ![Of(t)] = h[t].final]
    /\ Goto(t, "persist_legacy")
    /\ UNCHANGED <<delivery, steps, backoff, legacy, lock, outside, life, faults>>

(* persistTerminalResult, its Create: an existing key is left alone. *)
PersistResult(t) ==
    LET s == Of(t) IN
    /\ h[t].pc = "persist_result"
    /\ result' = [result EXCEPT ![s] = IF @ = Missing THEN h[t].final ELSE @]
    /\ Goto(t, "persist_legacy")
    /\ UNCHANGED <<delivery, steps, backoff, legacy, lock, outside, life, faults>>

(* Mutant: the message is acknowledged as soon as its result is stored. *)
PersistLegacyAcks(t) ==
    /\ h[t].pc = "persist_legacy"
    /\ legacy' = [legacy EXCEPT ![Of(t)] = h[t].final]
    /\ delivery' = [delivery EXCEPT ![h[t].msg] = "acked"]
    /\ Goto(t, "publish")
    /\ UNCHANGED <<steps, backoff, result, lock, outside, life, faults>>

(* persistTerminalResult, its Put under the older key. *)
PersistLegacy(t) ==
    /\ h[t].pc = "persist_legacy"
    /\ legacy' = [legacy EXCEPT ![Of(t)] = h[t].final]
    /\ Goto(t, "publish")
    /\ UNCHANGED <<delivery, steps, backoff, result, lock, outside, life, faults>>

(* publishResult: the payload goes out on the result subject. *)
Publish(t) ==
    /\ h[t].pc = "publish"
    /\ published' = [published EXCEPT ![Of(t)] = @ \cup {h[t].final}]
    /\ Goto(t, "ack")
    /\ UNCHANGED <<delivery, buckets, execs, life, faults>>

(* msg.Ack ends the message, whichever of its deliveries is acknowledged. *)
Ack(t) ==
    /\ h[t].pc = "ack"
    /\ delivery' = [delivery EXCEPT ![h[t].msg] = "acked"]
    /\ Leave(t)
    /\ UNCHANGED <<buckets, outside, life, faults>>

(* msg.NakWithDelay postpones a pending message; it does not bring an      *)
(* acknowledged one back, nor delay one already queued for redelivery.      *)
Nak(t) ==
    /\ h[t].pc = "nak"
    /\ delivery' = [delivery EXCEPT ![h[t].msg] = IF @ = "pending" THEN "delayed" ELSE @]
    /\ Leave(t)
    /\ UNCHANGED <<buckets, outside, life, faults>>

(* Mutant: the handler's state is not reset when its lock is gone. *)
ReleaseKeepsState(t) ==
    /\ h[t].pc = "release"
    /\ lock' = [lock EXCEPT ![RunOf[Of(t)]] = Free]
    /\ h' = [h EXCEPT ![t].pc = "idle"]
    /\ UNCHANGED <<delivery, steps, backoff, result, legacy, outside, life, faults>>

(* The deferred releaseRunLock deletes the key, whoever put it there. *)
Release(t) ==
    /\ h[t].pc = "release"
    /\ lock' = [lock EXCEPT ![RunOf[Of(t)]] = Free]
    /\ h' = [h EXCEPT ![t] = Idle]
    /\ UNCHANGED <<delivery, steps, backoff, result, legacy, outside, life, faults>>

(* A service call fails: processStep returns without an acknowledgement; a  *)
(* failed acknowledgement or release is only logged.  A write that was      *)
(* applied though its reply was lost is a failure at the following point;   *)
(* a lock written like that is not released.                                *)
Fault(t) ==
    /\ h[t].pc # "idle"
    /\ faults < MaxFaults
    /\ faults' = faults + 1
    /\ \/ h[t].pc # "release" /\ Leave(t)
       \/ h[t].pc \in {"put_running", "release"} /\ h' = [h EXCEPT ![t] = Idle]
    /\ UNCHANGED <<delivery, buckets, outside, life>>

(* A process dies with all its goroutines; the next one has a new workerID. *)
Crash(p) ==
    /\ life[p] < MaxCrashes
    /\ life' = [life EXCEPT ![p] = @ + 1]
    /\ h' = [t \in Thread |-> IF ProcOf[t] = p THEN Idle ELSE h[t]]
    /\ UNCHANGED <<delivery, buckets, outside, faults>>

-----------------------------------------------------------------------------
(* Time. *)

(* The consumer offers an unacknowledged message again after AckWait. *)
AckWaitExpires(m) ==
    /\ delivery[m] = "pending"
    /\ AckWaitMayExpire \/ ~Held(m)
    /\ delivery' = [delivery EXCEPT ![m] = "ready"]
    /\ UNCHANGED <<buckets, outside, h, life, faults>>

(* The delay of a NakWithDelay is over. *)
DelayElapses(m) ==
    /\ delivery[m] = "delayed"
    /\ delivery' = [delivery EXCEPT ![m] = "ready"]
    /\ UNCHANGED <<buckets, outside, h, life, faults>>

(* next_retry_at passes. *)
BackoffElapses(s) ==
    /\ backoff[s]
    /\ backoff' = [backoff EXCEPT ![s] = FALSE]
    /\ UNCHANGED <<delivery, steps, result, legacy, lock, outside, h, life, faults>>

(* The age of a lock reaches its TTL. *)
LockExpires(r) ==
    /\ lock[r].fresh
    /\ \/ LockTTLMayExpire
       \/ \A t \in Thread : ~(h[t].locked /\ RunOf[Of(t)] = r)
    /\ lock' = [lock EXCEPT ![r].fresh = FALSE]
    /\ UNCHANGED <<delivery, steps, backoff, result, legacy, outside, h, life, faults>>

-----------------------------------------------------------------------------
ProcessStep(t) ==
    \/ CheckResult(t) \/ CheckState(t) \/ LockGet(t) \/ LockPut(t)
    \/ PutRunning(t) \/ Execute(t) \/ PutFinal(t) \/ PersistResult(t)
    \/ PersistLegacy(t) \/ Publish(t) \/ Ack(t) \/ Nak(t) \/ Release(t)

Next ==
    \/ \E t \in Thread, m \in Msg : Receive(t, m) \/ DropUndecodable(t, m)
    \/ \E t \in Thread : ProcessStep(t) \/ Fault(t)
    \/ \E p \in Proc : Crash(p)
    \/ \E m \in Msg : AckWaitExpires(m) \/ DelayElapses(m)
    \/ \E s \in Step : BackoffElapses(s)
    \/ \E r \in Run : LockExpires(r)

Spec == Init /\ [][Next]_vars

(***************************************************************************)
(* A goroutine keeps running, timers fire, and the consumer and the FIFO   *)
(* channels in front of the goroutines hand out every message that stays   *)
(* or keeps becoming available.  Crashes and faults are never owed.        *)
(***************************************************************************)
Fairness ==
    /\ \A t \in Thread : WF_vars(ProcessStep(t))
    /\ \A m \in Msg :
          /\ SF_vars(\E t \in Thread : Receive(t, m))
          /\ WF_vars(AckWaitExpires(m))
          /\ WF_vars(DelayElapses(m))
    /\ \A s \in Step : WF_vars(BackoffElapses(s))
    /\ \A r \in Run : WF_vars(LockExpires(r))

FairSpec == Spec /\ Fairness

-----------------------------------------------------------------------------
(***************************************************************************)
(* Properties.                                                             *)
(***************************************************************************)

(* Every variable has its type; a handler that is not idle has a message. *)
TypeOK ==
    /\ delivery \in [Msg -> {"ready", "pending", "delayed", "acked"}]
    /\ steps \in [Step -> StepState]
    /\ backoff \in [Step -> BOOLEAN]
    /\ result \in [Step -> StepState]
    /\ legacy \in [Step -> StepState]
    /\ lock \in [Run -> Lock]
    /\ published \in [Step -> SUBSET StepState]
    /\ execs \in [Step -> Nat]
    /\ h \in [Thread -> Handler]
    /\ life \in [Proc -> Nat]
    /\ faults \in Nat

(* Each step has one message, and a message comes back only when nobody has *)
(* it: the published step is unique and handlers are quicker than AckWait.  *)
OneDelivery ==
    /\ ~AckWaitMayExpire
    /\ \A m, n \in Msg : StepOf[m] = StepOf[n] => m = n

Unacked(s) == \E m \in Msg : StepOf[m] = s /\ delivery[m] # "acked"

(* The terminal result of a step is stored before the step's first result   *)
(* message leaves a worker, through every crash, fault and redelivery: the  *)
(* order persistTerminalResult, publishResult of every path.                *)
PublishedIsPersisted ==
    \A s \in Step : published[s] # {} => result[s] # Missing

(* All result messages of a step carry the payload that is stored under     *)
(* its result key, so that the master's view and the replayed one agree.    *)
PublishedMatchesResult ==
    \A s \in Step : published[s] \subseteq {result[s]}

(* A step waiting for its retry can still be delivered: the message of a    *)
(* FAILED_TRANSIENT step is not acknowledged.                               *)
RetryIsScheduled ==
    \A s \in Step : steps[s].status = "FAILED_TRANSIENT" => Unacked(s)

(* The connector of a step is invoked at most as often as its retries allow,*)
(* counted over all processes and across crashes.                           *)
ExecutionsBounded ==
    \A s \in Step : execs[s] <= Limit(s)

(* A step whose result is stored is never executed again. *)
NoReexecution ==
    [][\A s \in Step : execs'[s] # execs[s] => result[s] = Missing]_vars

(* A stored result never changes: the first outcome of a step wins. *)
ResultStable ==
    [][\A s \in Step : result[s] # Missing => result'[s] = result[s]]_vars

(* No two handlers are between the start of an execution and the record of  *)
(* its outcome for the same step.                                           *)
OneExecutor ==
    \A t, u \in Thread :
        /\ h[t].pc \in {"execute", "put_final"}
        /\ h[u].pc \in {"execute", "put_final"}
        /\ Of(t) = Of(u)
        => t = u

(* The workers together implement StepOutcome: the connector's invocations  *)
(* are the tries, the stored results the outcomes, the published ones the   *)
(* reports.                                                                 *)
Outcome == INSTANCE StepOutcome WITH
    Outcome <- [status : Terminal, attempt : Nat], Undecided <- Missing,
    MaxTries <- [s \in Step |-> Limit(s)],
    tries <- execs, decided <- result, reports <- published

OutcomeSpec == Outcome!Spec

(* Every step gets its result published. *)
EveryStepReported == \A s \in Step : <>(published[s] # {})

(* Through crashes and faults, every step gets its result published or ends *)
(* in the one state the handlers do not resume, RUNNING.                    *)
ReportedOrStranded ==
    \A s \in Step : <>(published[s] # {} \/ [](steps[s].status = "RUNNING"))
=============================================================================
