# A TLA+ verification of Responsive SIEM

Responsive SIEM (`src/r-siem-agent`, Go) collects security events on hosts, detects alerts in
them and responds to alerts with playbooks whose steps are executed by connectors or by agents
on the hosts. Its parts are separate processes that talk over NATS JetStream and gRPC and keep
their shared state in JetStream key-value buckets and local files. This directory holds TLA+
modules of its event path and its response path, the TLC runs that check them on small
instances, and TLAPS proofs of the main properties for every instance.

Paths below are relative to `src/r-siem-agent` unless they start with `src/`.

## 1. Inventory

```
 log files ─> collectors ─> detector-v0 ──┬─> trigger subjects ──> master-roe ──> step subjects ──> master-roe-worker
             (tail, spool)  (trackers,    │                          | ^   ^                           |        |
                             cooldown)    │                          | |   └── result subjects <───────┘        v
 agent: WAL ─> lanes ─> batches ─> master ─> master-consume          | └────── approval subject <── ui-api   agent: command
        (log, commit file)  <─ acks       (rules, incidents,         └──> buckets RUNS STEPS RESULTS         listener (cache,
                                           cooldown) ─> triggers          LOCKS IDEMP APPROVALS              store, spool)
```

| part | state it keeps | operations | what makes it correct |
|---|---|---|---|
| **Response orchestrator** `cmd/master-roe/main.go` | buckets IDEMP, RUNS, STEPS, RESULTS, APPROVALS, LOCKS; a handler's own copy of a run | `processTrigger`, `processResult`, `processApproval`, `scanForApprovalTimeouts` | a run is planned once; steps are released once, after their plan, and only past the approval gate; the run's status is that of its results; no result is lost |
| **Step worker** `cmd/master-roe-worker/main.go` | states of steps (STEPS), results (RESULTS, two keys), run locks (LOCKS) | `processStep`: look-ups, lock, RUNNING, connector, retry, record, publish, acknowledge | a step is executed by one handler at a time, not after its result, at most as often as its retries allow; a result is stored before it is published and never changes; every step ends with a result |
| **Agent command listener** `cmd/agent/command.go` | result cache (2 minutes), result store and reply spool (files) | handler of two subscriptions, spool flush | one execution per `run_id\|step_id`; repeated requests are answered alike; every request is answered |
| **Agent log and pipeline** `internal/wal`, `internal/pipeline`, `internal/supervisor`, `internal/ingest/agent_adapter.go` | log file, commit file, watermark; channels per lane, batches, the gRPC stream | Append, Replay, distribute, schedule, send, acknowledge, MarkCommittedUpTo, reconnect | no event is committed before it is delivered; none lost by back-pressure or a restart |
| **Tail collector and spool** `internal/collector/{tail,common}` | file position, pending bytes, checkpoint; spool file and commit file | poll, publish, spool, flush, mark, repair | at least once, in the order of the lines, across outages and restarts |
| **Detector** `cmd/detector-v0` | trackers in memory; dedupe and cooldown buckets | `handleMessage`: match, mark, cooldown, publish, undo | an alert per rule, group and cooldown; no alert lost by one failure |
| **Alert consumer** `cmd/master-consume`, `internal/roe/trigger` | correlation state, suppressions, incidents, trigger cooldown with its checkpoint, dedupe | workers of two lanes, one engine goroutine, closing of incidents, flush of the checkpoint | one record at a time; a trigger per cooldown, also after a restart; every batch is answered |
| Response connectors `internal/roe/connectors` | none | HTTP and agent calls | classification of failures (safe or transient) |
| Ingest server `cmd/master`, `internal/ingest`, `internal/buffer` | idempotency bucket | `Stream`, publish, acknowledge | an acknowledged batch is in the stream, once |
| Other collectors, retention, signing, investigation, honeypot, ui-api, tools | files, HTTP sessions | parse, append and prune, sign, query, serve | see PROJECT.json |

Parts interact through **messages** (JetStream consumers with explicit acknowledgement, so each may
be delivered again; plain NATS requests, which are lost when nobody is connected; one gRPC stream
per agent), through **buckets** that several processes read and write without revisions (a `Get`
followed by a `Put` of the whole value), through **locks** that are ordinary bucket keys with a time
to live, and inside a process through bounded channels between goroutines.

What is hard here, and hardly reached by the repository's tests and proof scripts:

* two handlers of one message, when AckWait elapses while the first one is at work, or of two
  messages about the same run, step, event or record;
* read-modify-write of a whole run record by the trigger handler, the result handlers, the
  approval handlers and the scanner;
* locks that expire while they are held, are deleted by somebody else, or are shared by the
  goroutines of a process;
* a process that is killed, or a call or a write that fails, between any two accesses: between log
  and commit file, between a mark and the alert it stands for, between a cooldown and its trigger;
* offsets and sequence numbers that repeat after a failed write; records that are torn;
* channels that are full, in a circle of goroutines that wait for each other;
* retries counted across all of that; progress in spite of contention.

`PROJECT.json` lists the hazards at their lines with the properties that would catch them.

## 2. Modules

| module | models |
|---|---|
| `RoeWorker` | `cmd/master-roe-worker/main.go`: `processStep` and all it calls |
| `StepOutcome` | what the step workers promise, abstractly; `RoeWorker` implements it |
| `RoeMaster` | `cmd/master-roe/main.go`: the four handlers; the workers and operators as environment |
| `RoeMasterHistory` | `RoeMaster` with the history of its run records: which were written from outdated copies |
| `AgentPipeline` | the agent from the log to the master's acknowledgement and back to the commit file |
| `AgentCommand` | `cmd/agent/command.go`: the listener, its cache, store and spool |
| `Collector` | the tail collector, its publisher and its spool |
| `Detector` | `cmd/detector-v0`: fetch loop, `handleMessage`, trackers, buckets |
| `Consume` | `cmd/master-consume`: lanes, engine, incidents, triggers, cooldown checkpoint |
| `MC…` | one for each of them: the values of constants that a cfg cannot write |
| `…Proofs` | theorems about them (section 4) |

All are written alike. A goroutine that handles messages is a record with a control point `pc`, the
message, and the local variables of the Go function that later steps depend on. Each access to
shared state (a bucket, a file, a stream, a channel, a map under its mutex) or to a connector is one action, named after the function that
makes it; everything between two accesses is local and belongs to the action before. What a crash
leaves is what the code writes to a file, a bucket or a stream. Definitions marked *Mutant* in a
comment are plausible mistakes; they are used only to test the properties (section 3).

### RoeWorker and StepOutcome

| state | code |
|---|---|
| `delivery` | the consumer's view of each message: ready, pending (handed out), delayed (`NakWithDelay`), acked |
| `steps`, `backoff` | bucket RSIEM_RSP_STEPS (`stepState`, main.go:112); `next_retry_at` in the future |
| `result`, `legacy` | bucket RSIEM_RSP_RESULTS, keys `result.…` (created) and `worker_result.…` (put) |
| `lock` | bucket RSIEM_RSP_LOCKS: holder (`workerID`, new in each incarnation) and whether the TTL has passed |
| `published`, `execs` | history: payloads published, connector invocations |
| `h`, `life`, `faults` | handlers, incarnations of processes, failed calls |

Actions in the order of `processStep`: `Receive` / `DropUndecodable`, `CheckResult` (589-639),
`CheckState` (641-692), `LockGet`, `LockPut` (`acquireRunLock`), `PutRunning`, `Execute`,
`PutFinal`, `PersistResult`, `PersistLegacy` (`persistTerminalResult`), `Publish`, `Ack`, `Nak`,
and the deferred `Release`; time is `AckWaitExpires`, `DelayElapses`, `BackoffElapses`,
`LockExpires`. `Fault(t)` lets the call at the current point fail and follows the error return,
deferred functions included; `Crash(p)` takes away the local state of all goroutines of a process.

`StepOutcome` is the promise without messages, locks or processes: a step is tried a limited number
of times, one outcome is decided once, and every report carries it. `RoeWorker` instantiates it
with `tries <- execs`, `decided` = the stored result, `reports` = the published payloads; the run
`RoeWorker_Recovery` checks the refinement (`OutcomeSpec`), `RoeWorkerProofs!Implements` proves it.

Abstractions. The two look-ups of a stored result (new key, then legacy key) are one step: the
legacy key is written after the new one and is never the only one that counts. The FAST and
STANDARD lanes and the queue in front of the goroutines are the nondeterministic choice of
`Receive`. The outcome of a connector is chosen among those `processStep` distinguishes. The
time window in which an agent command without responder is retried past the limit
(`allowAgentNoResponderRetry`) is a number of extra attempts, `WindowAttempts`. The audit
exporter only counts as a call that may fail.

### RoeMaster

| state | code |
|---|---|
| `idemp`, `group` | RSIEM_RSP_IDEMP; group locks in RSIEM_RSP_LOCKS |
| `runs` | RSIEM_RSP_RUNS: status, decision, the steps `StepStatuses` has a status for, `StepTotal` |
| `planned` | RSIEM_RSP_STEPS: the plan |
| `results`, `approvals` | RSIEM_RSP_RESULTS, RSIEM_RSP_APPROVALS |
| `lock` | run locks: held by a process, by a worker, by a holder that died, or absent |
| `published`, `handled`, `work`, `report` | what the workers have been asked, are doing, and have reported |
| `delivery`, `h`, `crashes`, `faults` | as above |
| `again`, `late` | history, which no guard reads: how often the key that decides who releases a run was lost, and which goroutines looked for it before another put it |

| handler | actions in order |
|---|---|
| `processTrigger` (1602) | `IdempGet`, `GroupGet`, `GroupPut`, `PersistCreated`, `PersistIdempotency`, then `Reject`, or `PersistStep`\*, then `PersistWaiting`, `Request`, or `Publish`\*, `PersistPlanned`; `Ack` |
| `processResult` (1872) | `LockGet`, `LockPut`, `ResultGet`, `ResultPut`, `RunGet`, `Reconcile`, `PersistResult`, `Release`; `Ack` |
| `processApproval` (2068) | `ApprovalGet`, `ApprovalPut`, `LoadRun`, `PersistDecision`, `LoadSteps`, `Publish`\*, `PersistRunning`; `Ack` |
| `scanForApprovalTimeouts` (4021) | `Scan` (reads the run), `PersistTimeout` (writes that copy back) |
| outside | `Decide` (`handleApproval` of ui-api), `WorkerStart/Report/Release/Replay` (what `RoeWorker` does to the shared lock, results and subjects), `Redeliver`, `LockExpires`, `GroupExpires` |

Abstractions. Messages that do not decode are left out (triggers and approvals are acknowledged,
results come back for ever without touching any state). Policies are constants: a run is
`Supervised`, `Rejected`, answered by `NoPlaybook` or grouped. Steps of a loop are visited in any
order. `reconcileRunProgress` reads the plan and the results in one step. A worker never
publishes `FAILED_TRANSIENT`, so the run status of that name does not occur. The corroboration
record, journals, exports and the database sink are only points of failure. A group or run lock
whose TTL has passed is treated as absent. `Unstored` steps are those of a worker configured with
another results bucket, so that the master itself stores their results. The fetch loops, their
bounded queues and the degradation of the STANDARD lane are not modelled.

History variables let the promises of the orchestrator be stated for several goroutines of each kind and
failing calls, which is what `configs/master.yaml:95` deploys; no guard reads them and they constrain nothing.
In `RoeMaster`, `again[r]` counts how often the key that decides who
releases the steps of run `r` was lost: put by a handler that looked for it before another put it
(`late`), or deleted by a handler that fails. In `RoeMasterHistory`, where each step of `RoeMaster` also updates
the history of the records (`Record`), `outdated` are the handlers whose copy of a record is older
than a result counted since, `overwritten` the runs whose record was last written from such a copy; a
result that is then counted from a fresh copy repairs it, as `reconcileRunProgress` reads all results.
`forgotten` are the results whose key a failing handler has deleted while others rely on it.

### AgentPipeline

| state | code |
|---|---|
| `file`, `nextOffset`, `committed`, `commitFile`, `committing` | `internal/wal/wal.go`: the log (records may be torn), the fields of `WAL`, the commit file, and the write between truncation and number |
| `phase`, `rp` | `internal/supervisor`: down, replaying from record `rp`, running |
| `input`, `lane`, `pending`, `batches` | channels and `laneBatch`es of `lane_distributor.go`, `scheduler.go` |
| `conn`, `zombies`, `wire`, `ackwire`, `acks` | the gRPC session of `transport_grpc.go`: its network buffers, and writer goroutines of old sessions that still wait for a batch |
| `received`, `acked` | what `internal/ingest/agent_adapter.go` has read and acknowledged |

`WalAppend`/`WalAppendFails` (short write, failed fsync), `Replay`, `Dispatch` (STANDARD events are
dropped when their lane is full, FAST events block), `Schedule`, `FlushLane`, `Connect`, `Send`,
`Break(k)` (the first `k` batches of the wire still arrive), `ZombieTakes`, `MasterReceives`,
`MasterDropsAck`, `AckArrives`, `CommitBegins`/`Ends`/`Fails`, `Crash`. A goroutine blocked in a
send is one more place of the channel. The mutex of the log shows in the guards: nothing is
appended or committed during a replay. A behaviour may begin with a log that an earlier life of the
agent left behind (`Backlog`, `Earlier`): the master has read its records, all but the last, and the
acknowledgements were dropped, so that the start replays all of them.

### AgentCommand

`request` is where each request is, `h` the handler of each subscription, `cache`, `store`, `spool`
the three memories of a reply, `flush` the goroutine that empties the spool. Actions: `Receive`,
`Load` (`store.load`), `Begin` (`cache.begin`, with the deletion of expired entries), `Wait`,
`Execute`, `Save`, `Finish`, `Publish`/`Enqueue` (`publishReply`), `FlushRead`/`Publish`/`Remove`,
`Expire`, `Disconnect`/`Reconnect`, `GiveUp`, `Crash`, and the failures of each file. The NATS client is
opened with its defaults (`command.go:852`): it dials again 60 times, every 2 seconds, and then closes for
good (`GiveUp`); its subscriptions end, and the spool is not emptied until the agent is restarted. What a command does on
the host (quarantine, firewall, processes) is one step with any reply. A handler takes less than the
two minutes of the cache from its look-up of the store to the cache (`Expire`).

### Collector

`log` is a sequence of half lines, so that a poll can meet an unfinished one; `offset`, `pending`,
`checkpoint` are those of `tail.go`, `spool`, `nextSeq`, `committed`, `commitFile` those of
`offline_spool.go`, `flush` the goroutine of `offline_publisher.go`. Actions: `Poll`, `Read`,
`Check` (does anything wait in the spool), `PublishNow(Fails)`, `SpoolAppend(Fails)`, `Checkpoint`,
`FlushBegins`, `FlushStep`, `MarkBegins/Ends/Fails`, `Restart` (with the repair of a half record),
and the environment: `Write`, `Truncate`, `ServerFails/Returns`. A checkpoint that cannot be
written is a failure of `Poll` and of `Checkpoint`. The reader's buffer of bytes read ahead is left out: a
line is taken from the file as it is when the line is read. The duplicate window of JetStream,
which drops an event published again, is assumed to be long enough.

### Detector

`batch` and `h` are the fetch loop and `handleMessage`, `hits` the trackers, `marks` and `cool` the
buckets. `Handle` goes through `get`, `put`, `cooldown`, `start`, `publish`, `uncool`, `unmark`,
`ack`; a probe that completes a burst is reported as the burst, not as both. A tracker keeps
sightings, pairs of an event and which time it was seen, where the code keeps their times: two
sightings of one time are two hits in both. An alert is known by its rule and the sighting that
led to it, so that two publications are two alerts (`PublicationsCounted` proves it). `MarkFails`, `CooldownFails`,
`PublishFails`, `UndoFails`, `AckLost` are the failures, `AckWaitExpires`, `CooldownEnds`, `Crash`
the rest. Rules are reduced to the four shapes that treat a repeated event differently. One detector
process is assumed, as in the deployment scripts (`scripts/demo_local_endpoint_clean_start.sh:294`).

### Consume

`w` are the workers of the lanes, `queue` and `r` the engine `RceWorker`, whose control points are
those of a record, `begin` (where `isDegraded` is asked), and of a rule: `rule`, `suppress`, `export`, `incident`, `open`/`update`, `publish`, `allow`,
`trigger`. `corr`, `suppressed`, `open`, `fresh`, `seen` are its memory (correlation, suppressions,
incidents, `trigger.Cooldown`, `TriggerDedupe`), `dirty`, `flush`, `file` the checkpoint of the
cooldown with `FlushIfDirty`. The five kinds of rules (stateless, count, sequence, join, trigger) are
those of the code; a scene of the MC module gives the rules and the records. `corr` holds times: a
list for a count (of which only the leading old ones are dropped, as `pruneTimestamps` does) and for the
steps of a sequence, one for each predicate of a join.

## 3. Properties and runs

Each property names the code behaviour it is about in a comment above it.

| run | instance | what it shows |
|---|---|---|
| `RoeWorker_Recovery` | 2 processes, 2 steps of one run, 1 refused, 1 retried, 1 crash of each, 1 failed call; a message comes back only when nobody has it; fairness | `OneExecutor`, `ExecutionsBounded`, `RetryIsScheduled`, `TypeOK`; it implements `StepOutcome` (`OutcomeSpec`); `ReportedOrStranded`: every step is reported or stuck in RUNNING |
| `RoeWorker_Overlap` | one step published twice, an undecodable message, AckWait elapses at will, locks expire | `PublishedIsPersisted`, `ResultStable` |
| `RoeMaster_Gate` | a supervised run of 1 step, approval and denial on 2 approval goroutines, time-out, a second run of the same group that is rejected; 1 crash or 1 failed call | `ReleasedByApproval`, `PublishedOnce`, `DeniedHalts`, `FailureIsJustified` |
| `RoeMaster_Results` | 2 triggers of one group, a rejected run, 2 result goroutines in 2 processes, locks that expire while held | `SucceededIsComplete`, `PlannedBeforeReleased`, `CountsAcknowledged`, `TypeOK` |
| `RoeMaster_Live` | 2 steps of a run in a group, whose lock may expire; 1 crash or 1 failed call; fairness | `ResultsApplied`: every released step's result is applied and acknowledged; `ResultKept` |
| `AgentPipeline_Delivery` | 3 events on a fresh host, or a log of 7 records to replay; channels of one place, batches of two, 1 crash, 1 broken connection, 1 failed write; fairness | `LogOK`, `WatermarkIsAcknowledged`, `FastAccountedFor`, `CommittedIsReceived`, `FastDelivered` |
| `AgentCommand_Dedupe` | 3 requests of one step on 2 subjects, 1 restart, 1 outage that ends or ends in `GiveUp`, 1 failed file; fairness | `CacheOK`, `ExecutionsBounded`, `AnsweredIsStored`, `RequestAnswered` |
| `Collector_Delivery` | 3 lines (the first no event), 1 restart, 1 outage, 1 lost answer, 1 failed write, 1 truncation; fairness | `SpoolOK`, `PassedIsKept`, `InOrder`, `AllDelivered` |
| `Detector_Alerts` | 2 events, 4 kinds of streams, overlapping deliveries, 1 restart, 2 failed calls, 1 end of a cooldown; fairness | `CooldownHolds`, `ProbeRaisesAlert`, `BurstIsRepeated`, `TypeOK`, `EveryEventAcked` |
| `Consume_Alerts` | 6 scenes of rules and records in 2 batches on 2 lanes, 1 restart, 1 failed call, 2 ends of time; fairness | `Consistent`, `CooldownSurvives`, `AckedIsAnswered`, `EveryBatchAcked` |
| `RoeWorker_Killed`, `RoeMaster_TimedOut` | the smallest instances | the disagreements of section 6 |

**Bounds.** Conflicts are between two actors about one thing (a run, a step, a key, a record), so one
or two runs and steps, two goroutines, two subscriptions or two lanes make all pairs meet. Three
requests, events or lines are one more than fit in a channel, a batch or a handler, so that the
third meets the state the first two left. One crash and one failed call suffice to reach every
control point with the local state lost, or with an error return, before and after every write (in `RoeMaster_Gate` and
`RoeMaster_Live` one of the two in a behaviour, `MaxFailures`); the
detector needs two failed calls for the undoing of a failed call to fail. All counters
that are bounded (`Max…`, `WindowAttempts`) sit in the guards of the failures they count, never in
those of the program's own steps, except `MaxEvents` and `MaxLines`, which bound the input. The log of
seven records is one more than the places between the log and the commit manager (`Room`, 6 with these
capacities), so that the replay that blocks itself is reached; without the last case of `FastDelivered`
the run fails with seven records and passes with six.
Deadlock checking is off: once all messages are acknowledged, or all input is consumed, there
is nothing left to do. Symmetry is used for the two approval goroutines of `RoeMaster_Gate`, which checks no
liveness; the other runs have liveness properties or distinguish their members. Failed calls with
`CountsAcknowledged`, and results counted beside an approval, are left to the theorem, which has no bounds.

**Fairness.** Goroutines are scheduled: weak fairness of their steps. JetStream offers
unacknowledged messages again, timers and tickers fire, a connection that is down is dialled
again (the one of the agent's commands comes back or is given up), a process that ended is started again (the deployment's scripts and unit files do so): weak
fairness of those actions. Strong fairness is assumed where an action is disabled again and again by
something that ends: `Receive` of a message that comes and goes (consumers and channels
are first in, first out); `FlushRead` of each spool file (the ticker walks through all of them); the
steps of the collector that meet the server between outages. A run lock expires at the latest when nobody
uses it. Crashes, failures, outages, operators and time-outs are never owed.

Every property has a mutant in `PROJECT.json`: a plausible mistake in a mapped definition (a
dropped look-up, a status from partial counts, a key deleted by somebody who did not put it, a
publication before the record, a waiting handler that is not woken) for which TLC finds the
property violated.


## 4. What is proved

All theorems are of the form `Spec => …` and use nothing but the module's assumptions on its
constants: any number of processes, goroutines, runs, steps, messages, events, requests, crashes
and failures. TLC has checked the inductive invariants as invariants on the instances above.

### RoeWorkerProofs

| theorem | property | extra assumption |
|---|---|---|
| `TypeCorrect` | `TypeOK` | |
| `PersistBeforePublish` | `PublishedIsPersisted` | |
| `FirstResultWins` | `ResultStable` | |
| `ReportsAgree` | `PublishedMatchesResult` | `OneDelivery` |
| `RetryNotLost` | `RetryIsScheduled` | `OneDelivery` |
| `ExecutionsWithinLimit` | `ExecutionsBounded` | `OneDelivery` |
| `SoleExecutor` | `OneExecutor` | `OneDelivery` |
| `NeverReexecuted` | `NoReexecution` | `OneDelivery` |
| `Implements` | `OutcomeSpec`: the worker implements `StepOutcome` | `OneDelivery` |

`OneDelivery` says that each step has one message, which comes back only when nobody has it. The
run lock cannot replace it: it is a `Get` followed by a `Put`, so two processes may both acquire
it, and whoever releases it deletes it. The argument is therefore about messages. `Ownership`: a
message in the hands of a handler is pending, and no other handler has it. `ThreadInv`: what a
handler knows at its control point (the state it has read is still the state of the step; at
`execute` the step is RUNNING, has no result, and has been executed at most as often as the
attempts it has recorded, which are below the limit). `StepInv`: how state, result, published
payloads and the number of executions of a step fit together (a stored result is the state of
the step, and all that was published; a step to be retried still has its message). Together they
are inductive (`SoleInv`). The refinement needs no more than that: `Execute` is an attempt,
`PersistResult` decides, `Publish` reports, and every other action leaves the mapped state alone.
`PersistBeforePublish` and `FirstResultWins` hold for any overlap and need only `PersistInv`: a
handler past `PersistResult` knows that the result is stored, and a result is only ever created.

### RoeMasterProofs

| theorem | property |
|---|---|
| `TypeCorrect` | `TypeOK` |
| `ApprovalGate` | `ReleasedByApproval` |
| `PlanComesFirst` | `PlannedBeforeReleased` |
| `SuccessIsComplete` | `SucceededIsComplete` |
| `FailureHasACause` | `FailureIsJustified` |
| `ResultsAreKept` | `ResultKept` |

The properties are not inductive by themselves, as records are written back from stale copies.
The inductive invariant `Inv` strengthens them with

* `Worked`: facts of the workers (what is reported was published; a delivered or stored result
  was reported; a reported result is stored unless its step is `Unstored`);
* `Sound(rec, r)`: what a run record may claim (it has seen only reported steps of its run, its
  total is that of the plan or 0, a status past CREATED means that the plan is stored, and
  `SUCCEEDED` and `FAILED_SAFE` have their reason), for every record in `runs`;
* `Trusts(x)` for every handler `x`: what it relies on at its control point (**its copy of the
  run is sound**; at `publish` the run is planned, and not supervised or answered with an approval;
  a handler that owns a result key has put it for a step whose worker does not store it).

All these facts are about things that only grow: `idemp`, `planned`, the reports and the set
of messages that were sent (`Grows`), so what was true of a copy when it was made is still true
when it is written back. Each action then has one step in the proof, which shows that
the record it writes is sound; that stale records are *complete* is false (section 6) and not claimed.
`Step` is assumed to be finite, which `SUCCEEDED` (a comparison of cardinalities) needs.

### RoeMasterOnceProofs

| theorem | property |
|---|---|
| `ReleasedOnce` | `Spec => []PublishedOnce` |
| `DenialHolds` | `Spec => []DeniedHalts` |
| `AcknowledgedCounted` | `HSpec => []CountsAcknowledged` |

They hold for any numbers of goroutines of each kind, processes, crashes, failed calls, overlapping
deliveries and expired locks; only `Thread` and `Step` are finite. `HSpec` is `Spec` with
the history of the records (`RoeMasterHistory`). Unqualified statements (every step released at most once, none for a denied run, every
acknowledged result counted) are false in this code (section 6); the history says exactly which losses
break them. The inductive invariants add to `Inv` and to what each handler knows at its point (`MindInv`):
`OInv`, of `Spec`, the first two items below, and `HInv`, of `HSpec`, the last.

* `LateInv`: a handler between looking for a key and putting it either finds the key still absent or is in
  `late`. `OnceInv` is a budget: the publications of a step, and the handlers that are past the key
  and may still publish it (`Pending`), are at most one for the key and one for each of its losses. A handler
  enters `Pending` only by putting the key and leaves it when it publishes; each case is one line of arithmetic in `OnceStep`.
* `DeniedInv`: while the key of a run was never lost and somebody has decided a denial, the key is there, nothing of the run is published
  and nobody is pending. When the denial is decided, `OnceInv` says that the denying handler is the only one pending.
* `CountInv`: every record, and every copy a handler may write back, counts all results that are settled and not
  forgotten, unless the record was overwritten or the copy is outdated. A copy about to be written by a result
  handler is complete in any case, as `Reconcile` reads the results bucket after the look-up of the record;
  `RelyInv` says that a result handlers go by is in that bucket or forgotten.

The case distinction over the actions is made once (`EveryOnceTurn`): a step of a goroutine keeps what its handler
knows (`Minds`), passes no key (`Guards`) and takes its copy from where it is complete (`Tallies`).

### AgentPipelineProofs

| theorem | property |
|---|---|
| `TypeCorrect` | `TypeOK` |
| `LogCorrect` | `LogOK` |
| `WatermarkCorrect` | `WatermarkIsAcknowledged` |
| `CommittedReceived` | `CommittedIsReceived` |
| `NothingDropped` | `FastAccountedFor` |
| `WatermarkGrows` | `[][committed' < committed => Start /\ committed' = 0]_vars` |

As long as no connection breaks and only FAST acknowledgements have been sent (`Undisturbed`), nothing
of the FAST lane is lost, through any crashes, failed writes and replays. Its invariant `Stages`
says that the channels and the network between log and master form one line: each item in a stage
(input, lane, pending batch, batches, wire, acknowledgements) is preceded by everything the log holds
up to its offset, in its own stage or ahead of it (`Cov`), so an acknowledged offset covers what was
received. Each action of the pipeline moves one item one stage ahead. `OffsetInv` says that the offset of a
record is at most its position in the file (offsets repeat after a failed fsync), so that a replay
that skips by position skips none too many; `WatermarkInv` that the commit file, `committed` and the
number being written are offsets the master has acknowledged, or 0. The greatest offset of a batch is a
`CHOOSE`, which exists because finite sets are well-founded under strict inclusion.
`WatermarkGrows` needs `ResumeInv`: the commit file is empty or not behind the field (it may be ahead, when the
number was written and its fsync failed), and a number is written only when it is ahead of the field. So a
start never resumes from an older watermark: it has the same, a newer one, or none.

### AgentCommandProofs

| theorem | property |
|---|---|
| `TypeCorrect` | `TypeOK` |
| `CacheCorrect` | `CacheOK` |
| `ExecutionsCounted` | `ExecutionsBounded` |
| `AnswersAgree` | `AnsweredIsStored` |

`CommandInv` is the conjunction of the types, of `ExecInv`, of `StoredInv` and of `CountInv`.
`ExecInv`: until a result is stored its worker is alone, and the cache entry says that the command is
running (`Sole`); after that only a failed file makes a handler execute (`Late`); two executors at a
time need two failures (`Twice`). `StoredInv`: without failures, every reply that a handler, the
cache, the spool or the flush holds, or that has been given, is the stored one. `CountInv`: the
number of executions, those in progress included, is at most one more than the restarts and the
failures together. A restart or a failed file is what each execution after the first needs; the
proof shows that nothing else, no expiry of the cache and no order of requests, does.

### ConsumeProofs

| theorem | property |
|---|---|
| `CooldownKept` | `CooldownSurvives` |
| `AcknowledgedAnswered` | `AckedIsAnswered` |
| `OneRecordAtATime` | `OneRecordEach`, a conjunct of `Consistent` |
| `ClosingsMatched` | `ClosedWasOpened`, a conjunct of `Consistent` |
| `ConsumerConsistent` | `Consistent` |

`Inv` has ten parts. `Control`: the workers, the queue and the engine fit together (`Serving`: a
waiting lane has one place), so the record the engine serves does not change under it
(`BesideEngine`). `Copies`: what is in the checkpoint or on the way to it is in memory, which is why a
restart forgets only what it counts. `Cooled` counts the trigger that is being published as
published. `Closings` counts the incident that is being closed as closed. `MemoryMeansAnswer` is what
`AckedIsAnswered` needs most: whatever suppresses a trigger (suppression, cooldown, dedupe entry)
stands for one that was published, whose call failed, that a kill hit, or that the engine is about to
publish. From it follow, in the order of the loops, that the rules before the engine's have
answered the record (`RulesDone`), that the records before a worker's have been answered unless it was
told of a failure (`RecordsDone`), and that acknowledged batches have been answered (`BatchesDone`).

`Consistent` adds the types of the engine's memory and the bound `max_open` on incidents. They rest
on `Inv`: that the record in hand is one of the scene's (`Control`) gives a correlation the type its kind of rule
asks for (`Correlations`), and that `open` grows only where the engine has compared its size makes the
bound inductive (`Others`).

### CollectorProofs

| theorem | property |
|---|---|
| `TypeCorrect` | `TypeOK` (a conjunct of `SpoolOK`) |
| `SpoolCorrect` | `SpoolOK` |
| `NothingLost` | `PassedIsKept` |
| `LinesInOrder` | `InOrder` |
| `WatermarkGrows` | `[][committed' < committed => Restart /\ committed' = 0]_vars` |

As long as no write of the spool is torn (`tears = 0`), `Clean` is inductive. `Whole`: the spool holds whole
records whose numbers grow and lie below `nextSeq`, as do the three watermarks (memory, commit file,
the flush's own); this is what the repair and the reading of the last number at a restart preserve.
`Marked`: whatever one of the watermarks counts is in the stream, and a flush in progress has
stored what is before its position and counted nothing behind it, so a number that reaches the commit
file, even when only one of its two writes succeeds, counts only stored lines. `Held`: what the reader has left
behind, or is about to, is in the stream or in the spool. The stream only grows (`StreamGrows`), so a
restart, a truncation of the log or a lost answer takes nothing away. The greatest number of a spool and the
end of a line are found by `CHOOSE`; they exist because `<` is well-founded (`Least`, `Greatest`).

`InOrder` has the longest argument, along the log file (`OrderInv`, under the condition `Cond` of the
property). `LogInv`: lines grow with their place. `PlaceInv`: the reader knows where its line begins
(`LineStart`), what it has in hand begins there, and the checkpoint is there too unless a
call has failed, and never behind it before a truncation. `ReadInv`: what begins between the checkpoint and that place is in the stream or the spool
(`Known`); what begins behind it is known or greater than all that is known (`Fine`), so
reading on, and reading again after a restart, publishes nothing out of order. `SendInv`:
while the reader publishes by itself nothing waits in the spool and the flush writes nothing, which is
what `Check` establishes and why the two goroutines do not overtake each other. `SpoolOrder`: a record of the
spool is in the stream, or repeats an earlier record, or is greater than the stream and all earlier records.
The steps are grouped by what they do to the log and the reader (`ReaderKinds`) and to the stream and
the spool (`ServerKinds`), so that each conjunct is shown for a handful of kinds instead of for 20 actions.

`WatermarkGrows` is the same statement, with the same `ResumeInv`, as in `AgentPipelineProofs`: the two
components keep their watermarks by the same protocol.

### DetectorProofs

| theorem | property |
|---|---|
| `TypeCorrect` | `TypeOK` |
| `CooldownCorrect` | `CooldownHolds` |
| `PublicationsCounted` | `[][PublishAlert => alerts' # alerts]_vars` |
| `ProbesAlerted` | `ProbeRaisesAlert` |
| `BurstsReal` | `BurstIsRepeated` |

`CooldownInv`: every alert of a group is paid for, by a cooldown that has run out, by a publication that
was answered by an error, or by the cooldown that is running, and the alert about to be published is
paid for as well. The property alone is not inductive: the handler reads the cooldown, writes it
and publishes in three steps, and while it takes a cooldown back (`uncool`) that cooldown stands
for no alert. `SightingInv`: the sighting in hand has led to no alert yet, so each publication adds one
and counting alerts counts publications. `ProbeInv`: a mark, a running cooldown and a handler
on its way to the acknowledgement each stand for an alert of the group or for something left
behind (`stray`), but for the mark and the cooldown of the alert in hand. `BurstInv`: the trackers keep sightings that were made,
of their own kind and group, and the burst in hand is a real one. That the
threshold of sightings means as many events, or one seen twice, is an injection from events seen once
to their sightings (`BurstSeen`); events seen stay seen (`RepeatedStays`) though the trackers are
lost with the process.

### Only model-checked

Every safety invariant and action property of the runs that are to pass is stated by a theorem. What stays with TLC are the
liveness properties (`ReportedOrStranded`,
`ResultsApplied`, `FastDelivered`, `RequestAnswered`, `AllDelivered`, `EveryEventAcked`,
`EveryBatchAcked`): they rest on fairness and `ENABLED`, which the prover does not
handle. What a recursive definition computes for all inputs (induction over data) is out of its
reach too; the modules that are proved about therefore use quantifiers and folds of known size. The bound
`ElapsesBounded` of `Detector`, a fold, is used by no proof.

## 5. What is not modelled

`PROJECT.json` gives the reason for each part. In short:

* the repository vendors its dependencies (`.gomodcache`, about a quarter of its implementation
  lines): the YAML scanner, the NATS client and others are modelled only by how the code uses them;
* `cmd/ui-api` (two files, together more than 10 000 lines) is an HTTP front end that reads buckets and
  files and formats them. Its one step of the response path, `handleApproval`, is `Decide` of `RoeMaster`;
* pure parsers and formatters (collectors of one input format, enrichment, signing, configuration,
  command-line tools) keep no state between calls;
* of the modelled components: the bounded queues, the degradation and the shutdown of the fetch loops of
  `master-roe` and `master-roe-worker`; the evaluation of policies; exports, journals and metrics;
  what an agent command does on the host (quarantine, firewall sets, processes); in
  `master-consume` the eviction at `MaxKeys` and `MaxKeysPerRule`, the guardrails, and events without
  a group key;
* the ingest server, the retention store and the honeypot, which are left to section 7.

## 6. Disagreements with the repository's own statements

Two are runs of their own, expected to be violated:

| run | what happens | what the repository says |
|---|---|---|
| `RoeWorker_Killed` | a worker killed while a step is RUNNING leaves it so; the redelivery is acknowledged as a duplicate (worker main.go:660) | `scripts/m65…:199` expects a `step_succeeded` after the restart |
| `RoeMaster_TimedOut` | the scanner times a run out while its approval is being processed, which goes on publishing (main.go:4058) | `scripts/m57…:119` demands no published step |

The rest was met while modelling. It is the reason why a property is stated under a condition, or why
a run excludes a situation. None of it is claimed to be reachable beyond what the text says.

Response path:

* PLANNED is written from a copy of the run older than its results
  (`docs/implementation_writeup.md:1199`; `README.md:260` knows a "run-status timing flake").
* Two approval goroutines both find the approval key absent (`scripts/m59…:98` demands one
  publication). A master killed after storing the approval key takes the redelivered approval for
  a duplicate (`scripts/m67…:204` demands a published step).
* When AckWait elapses during an execution, a second handler may execute a step again and even
  publish after the stored result. The acknowledgement of a RUNNING step as a duplicate can end the
  message that its first handler wants to retry. Two result goroutines of one process share the
  run lock and can overwrite each other's counts.
* The approval scanner looks at the first 100 run keys only (main.go:4036). `shouldDegrade`
  compares with an integer percentage, which is 0 for small queues (main.go:1460). A trigger
  whose handler died between group lock and idempotency record is suppressed by its own lock
  (main.go:2804). The worker's fetch loop sends to its queue without looking at the context and can block at
  shutdown (worker main.go:555).
* Agent commands: a reply that could not be stored or spooled is lost with the process
  (`command.go:343`; `docs/implementation_writeup.md:840`). A stored ERROR reply is given for ever. After two
  unreadable result files and an expired cache entry (2 minutes), two handlers execute one command.
  The listener's NATS client gives up after its default of 60 attempts, about two minutes: the agent then
  takes no command, and its spooled replies wait for a restart, where the spool is there to survive an
  outage. The masters, the workers, the detector and the consumer use the same default; only
  `offline_publisher.go:197` dials without end. Their models have single failed calls and no outages, so
  their liveness properties say nothing of an outage of more than two minutes.

Event path:

* A STANDARD acknowledgement commits all lower offsets, pending FAST events included
  (`docs/implementation_writeup.md:361`, `:364`). `BatchMsg` carries no events. The replay of the log
  holds its mutex while it feeds a channel whose consumer needs it: a log with more uncommitted records than
  fit between it and the commit manager (`Room`) blocks its own replay when the first
  acknowledgements come back, and as nothing is committed meanwhile, an agent that is killed meets the same at
  its next start (`wal.go:143`, reached by `AgentPipeline_Delivery`; the last case of `FastDelivered`). After a publication whose idempotency record
  failed, a batch is published again (`docs/implementation_writeup.md:559`; `internal/ingest/server.go:59`).
* Collector spool: half a record glues itself to the next one, so that flushing stops there, and the repair at
  the next start cuts off everything behind it. A failed fsync leads to a repeated sequence number. The
  spool file never gets shorter. A truncated log file is noticed only if it is shorter than the offset at the
  next poll (`tail.go:152`); when it has grown beyond it, lines are skipped, and after a checkpoint that could
  not be written and a restart they are published behind later ones.
* Detector: the trackers see an event before the dedupe look-up, so a redelivered event counts twice
  (`docs/honeypot.md:47`). The retry of a failed alert of a burst, count or file rule no longer
  matches, because its tracker has been reset. A crash between mark and publication loses the alert.
  Times that go backwards leave hits of the "future" in a window.
* Consumer: suppression and cooldown are recorded before the export and the publication. When these
  fail, the redelivered batch is suppressed and acknowledged, without a trigger
  (`configs/master.yaml:68-69`). `FlushIfDirty` clears the dirty mark after a write it made without the
  mutex, and may clear the mark of a change it has not written. An incident's "closed" is written outside the mutex, so its
  re-opening may come before it. `alertKey` contains the time bucket, so a cooldown ends at the boundary of a
  bucket. The dedupe entry of a trigger (10 minutes) outlives its cooldown (60 seconds), and the
  trigger's id is deterministic, so `master-roe` takes a later trigger of the same group for a duplicate.
  Degradation is practically unreachable: each worker has one record outstanding and the queue holds 1024.

## 7. Plan

Done: the response path (`RoeWorker`, `StepOutcome`, `RoeMaster`, `AgentCommand`), the event path
(`AgentPipeline`, `Collector`, `Detector`, `Consume`), and the proofs of section 4. Left, most important first:

1. `RoeSystem`: master and workers on one set of buckets, instead of each with the other as its
   environment; `Ingest` (publish, idempotency record, acknowledgement) behind `AgentPipeline`.
2. `AgentActions` (quarantine of a file step by step, shared firewall sets), `Retention` (append
   against prune), `RoePool` (bounded queues, degradation threshold, shutdown).
3. Policy evaluation, back-off and the time windows of rules as pure operators.

Runs stay few: as a module is added, runs that ask the same question are merged.
