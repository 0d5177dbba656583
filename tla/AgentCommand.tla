---------------------------- MODULE AgentCommand ----------------------------
(***************************************************************************)
(* The command listener of the agent (cmd/agent/command.go): two           *)
(* subscriptions whose handlers answer a repeated request from the stored  *)
(* result or from the result cache, the store of results on disk, and the  *)
(* spool of replies that could not be published.                           *)
(*                                                                         *)
(* A request carries a key, its run and step.  The same key comes again    *)
(* when the worker retries the step, on either subject.                    *)
(***************************************************************************)
EXTENDS Naturals, FiniteSets

CONSTANTS
    Request,        \* messages of the workers, each with its own reply subject
    Key,            \* "run|step"
    KeyOf,          \* the key of a request
    Sub,            \* the subscriptions; each delivers one message at a time
    SubOf,          \* the subject a request is sent to
    Reply,          \* what an execution may answer, errors included
    None,           \* no reply, no request
    MaxCrashes,     \* bound on the restarts of the agent
    MaxOutages,     \* bound on the disconnections from the server
    MaxFaults       \* bound on failed reads and writes of files

ASSUME CommandAssumption ==
    /\ KeyOf \in [Request -> Key]
    /\ SubOf \in [Request -> Sub]
    /\ IsFiniteSet(Sub)
    /\ None \notin Reply \cup Request \cup Key
    /\ MaxCrashes \in Nat /\ MaxOutages \in Nat /\ MaxFaults \in Nat

VARIABLES
    request,        \* where each request is
    conn,           \* the connection to the server: "up", "down" or "closed" for good
    h,              \* the handler of each subscription
    cache,          \* commandResultCache.entries
    store,          \* the result files
    spool,          \* the reply files
    flush,          \* the envelope the flush goroutine holds, and its next step
    answered,       \* the replies that reached the server
    execs,          \* how often the command of a key was executed
    crashes, outages, faults

disk == <<store, spool>>
counts == <<crashes, outages, faults>>
vars == <<request, conn, h, cache, disk, flush, answered, execs, counts>>

-----------------------------------------------------------------------------
Answer == [req : Request, reply : Reply]
PC == {"idle", "load", "begin", "wait", "execute", "save", "finish", "publish"}
Handler ==
    {x \in [pc : PC, req : Request \cup {None}, reply : Reply \cup {None}, woken : BOOLEAN] :
        /\ (x.req = None) = (x.pc = "idle")
        /\ x.pc \in {"save", "finish", "publish"} => x.reply # None}

(* A cache entry: absent, being executed, or answered; an answered entry is *)
(* old once its time to live has passed.                                    *)
Entry ==
    {e \in [state : {"absent", "running", "done", "old"}, reply : Reply \cup {None}] :
        (e.reply = None) = (e.state \in {"absent", "running"})}
Absent == [state |-> "absent", reply |-> None]
Running == [state |-> "running", reply |-> None]
Done(r) == [state |-> "done", reply |-> r]

Idle == [pc |-> "idle", req |-> None, reply |-> None, woken |-> FALSE]
FlushIdle == [pc |-> "idle", key |-> None, env |-> None]
FlushState ==
    {FlushIdle} \cup [pc : {"publish", "remove"}, key : Key, env : Answer]

Now(t) == KeyOf[h[t].req]
Goto(t, pc) == h' = [h EXCEPT ![t].pc = pc]

Init ==
    /\ request = [r \in Request |-> "unsent"]
    /\ conn = "up"
    /\ h = [t \in Sub |-> Idle]
    /\ cache = [k \in Key |-> Absent]
    /\ store = [k \in Key |-> None]
    /\ spool = [k \in Key |-> None]
    /\ flush = FlushIdle
    /\ answered = {}
    /\ execs = [k \in Key |-> 0]
    /\ crashes = 0
    /\ outages = 0
    /\ faults = 0

-----------------------------------------------------------------------------
(* The worker and the server. *)

(* A request reaches its subscription, or nobody while there is no          *)
(* connection: plain NATS keeps nothing.                                    *)
Send(r) ==
    /\ request[r] = "unsent"
    /\ request' = [request EXCEPT ![r] = IF conn = "up" THEN "queued" ELSE "lost"]
    /\ UNCHANGED <<conn, h, cache, disk, flush, answered, execs, counts>>

Disconnect ==
    /\ conn = "up"
    /\ outages < MaxOutages
    /\ outages' = outages + 1
    /\ conn' = "down"
    /\ UNCHANGED <<request, h, cache, disk, flush, answered, execs, crashes, faults>>

Reconnect ==
    /\ conn = "down"
    /\ conn' = "up"
    /\ UNCHANGED <<request, h, cache, disk, flush, answered, execs, counts>>

(* The client is opened with its defaults: after 60 attempts, about two     *)
(* minutes, it closes for good, and with it the subscriptions and what      *)
(* waits in them.  The agent runs on without noticing.                      *)
GiveUp ==
    /\ conn = "down"
    /\ conn' = "closed"
    /\ request' = [r \in Request |-> IF request[r] = "queued" THEN "lost" ELSE request[r]]
    /\ UNCHANGED <<h, cache, disk, flush, answered, execs, counts>>

-----------------------------------------------------------------------------
(* The handler. *)

Receive(t, r) ==
    /\ h[t].pc = "idle"
    /\ request[r] = "queued"
    /\ SubOf[r] = t
    /\ request' = [request EXCEPT ![r] = "taken"]
    /\ h' = [h EXCEPT ![t] = [Idle EXCEPT !.pc = "load", !.req = r]]
    /\ UNCHANGED <<conn, cache, disk, flush, answered, execs, counts>>

(* Mutant: the results on disk are for a restarted agent only. *)
LoadAfterRestart(t) ==
    /\ h[t].pc = "load"
    /\ h' = IF store[Now(t)] = None \/ crashes = 0 THEN [h EXCEPT ![t].pc = "begin"]
            ELSE [h EXCEPT ![t].pc = "finish", ![t].reply = store[Now(t)]]
    /\ UNCHANGED <<request, conn, cache, disk, flush, answered, execs, counts>>

(* store.load: a stored result is handed to the cache and published. *)
Load(t) ==
    /\ h[t].pc = "load"
    /\ h' = [h EXCEPT ![t].pc = IF store[Now(t)] = None THEN "begin" ELSE "finish",
                      ![t].reply = store[Now(t)]]
    /\ UNCHANGED <<request, conn, cache, disk, flush, answered, execs, counts>>

(* A result file that cannot be read counts as absent. *)
LoadFails(t) ==
    /\ h[t].pc = "load"
    /\ faults < MaxFaults
    /\ faults' = faults + 1
    /\ Goto(t, "begin")
    /\ UNCHANGED <<request, conn, cache, disk, flush, answered, execs, crashes, outages>>

(* Entries whose time to live has passed are deleted first. *)
Swept == [k \in Key |-> IF cache[k].state = "old" THEN Absent ELSE cache[k]]

(* Mutant: only an answered entry keeps a second handler from executing. *)
BeginIgnoresRunning(t) ==
    LET e == Swept[Now(t)] IN
    /\ h[t].pc = "begin"
    /\ \/ /\ e.state \in {"absent", "running"}
          /\ cache' = [Swept EXCEPT ![Now(t)] = Running]
          /\ Goto(t, "execute")
       \/ /\ e.state = "done"
          /\ cache' = Swept
          /\ h' = [h EXCEPT ![t].pc = "publish", ![t].reply = e.reply]
    /\ UNCHANGED <<request, conn, disk, flush, answered, execs, counts>>

(* cache.begin: the first handler executes, the others take its reply or    *)
(* wait for it.                                                             *)
Begin(t) ==
    LET e == Swept[Now(t)] IN
    /\ h[t].pc = "begin"
    /\ \/ /\ e.state = "absent"
          /\ cache' = [Swept EXCEPT ![Now(t)] = Running]
          /\ Goto(t, "execute")
       \/ /\ e.state = "done"
          /\ cache' = Swept
          /\ h' = [h EXCEPT ![t].pc = "publish", ![t].reply = e.reply]
       \/ /\ e.state = "running"
          /\ cache' = Swept
          /\ Goto(t, "wait")
    /\ UNCHANGED <<request, conn, disk, flush, answered, execs, counts>>

(* The entry is ready; its reply is looked up, and nothing is answered when *)
(* it has been deleted meanwhile.                                           *)
Wait(t) ==
    LET e == cache[Now(t)] IN
    /\ h[t].pc = "wait"
    /\ h[t].woken
    /\ \/ /\ e.reply # None
          /\ h' = [h EXCEPT ![t].pc = "publish", ![t].reply = e.reply]
          /\ UNCHANGED request
       \/ /\ e.reply = None
          /\ h' = [h EXCEPT ![t] = Idle]
          /\ request' = [request EXCEPT ![h[t].req] = "lost"]
    /\ UNCHANGED <<conn, cache, disk, flush, answered, execs, counts>>

(* executor.handle *)
Execute(t, reply) ==
    /\ h[t].pc = "execute"
    /\ execs' = [execs EXCEPT ![Now(t)] = @ + 1]
    /\ h' = [h EXCEPT ![t].pc = "save", ![t].reply = reply]
    /\ UNCHANGED <<request, conn, cache, disk, flush, answered, counts>>

(* Mutant: only successful results are saved. *)
SaveIfOk(t) ==
    /\ h[t].pc = "save"
    /\ store' = IF h[t].reply = "ok" THEN [store EXCEPT ![Now(t)] = h[t].reply] ELSE store
    /\ Goto(t, "finish")
    /\ UNCHANGED <<request, conn, cache, spool, flush, answered, execs, counts>>

(* store.save renames a whole file into place. *)
Save(t) ==
    /\ h[t].pc = "save"
    /\ store' = [store EXCEPT ![Now(t)] = h[t].reply]
    /\ Goto(t, "finish")
    /\ UNCHANGED <<request, conn, cache, spool, flush, answered, execs, counts>>

SaveFails(t) ==
    /\ h[t].pc = "save"
    /\ faults < MaxFaults
    /\ faults' = faults + 1
    /\ Goto(t, "finish")
    /\ UNCHANGED <<request, conn, cache, disk, flush, answered, execs, crashes, outages>>

(* Mutant: the entry gets its reply, who waits for it is not woken. *)
FinishQuietly(t) ==
    LET k == Now(t)
        e == cache[k] IN
    /\ h[t].pc = "finish"
    /\ cache' = IF e.state = "absent" THEN cache
                ELSE [cache EXCEPT ![k] = Done(IF e.reply = None THEN h[t].reply ELSE e.reply)]
    /\ Goto(t, "publish")
    /\ UNCHANGED <<request, conn, disk, flush, answered, execs, counts>>

(* cache.finish: the entry, if there is one, keeps its first reply, becomes *)
(* young again and wakes who waits for it.                                  *)
Finish(t) ==
    LET k == Now(t)
        e == cache[k]
        waiting(u) == h[u].pc = "wait" /\ Now(u) = k IN
    /\ h[t].pc = "finish"
    /\ cache' = IF e.state = "absent" THEN cache
                ELSE [cache EXCEPT ![k] = Done(IF e.reply = None THEN h[t].reply ELSE e.reply)]
    /\ h' = [u \in Sub |->
               IF u = t THEN [h[u] EXCEPT !.pc = "publish"]
               ELSE IF e.state = "running" /\ waiting(u) THEN [h[u] EXCEPT !.woken = TRUE]
               ELSE h[u]]
    /\ UNCHANGED <<request, conn, disk, flush, answered, execs, counts>>

AnswerOf(t) == [req |-> h[t].req, reply |-> h[t].reply]

Served(t) ==
    /\ h' = [h EXCEPT ![t] = Idle]
    /\ request' = [request EXCEPT ![h[t].req] = "done"]

(* publishReply while there is a connection *)
Publish(t) ==
    /\ h[t].pc = "publish"
    /\ conn = "up"
    /\ answered' = answered \cup {AnswerOf(t)}
    /\ Served(t)
    /\ UNCHANGED <<conn, cache, disk, flush, execs, counts>>

(* publishReply while there is none: the reply goes to the spool, where one *)
(* key has one file; a client that reconnects may still send it.            *)
Enqueue(t) ==
    /\ h[t].pc = "publish"
    /\ conn # "up"
    /\ spool' = [spool EXCEPT ![Now(t)] = AnswerOf(t)]
    /\ \/ UNCHANGED answered
       \/ conn = "down" /\ answered' = answered \cup {AnswerOf(t)}
    /\ Served(t)
    /\ UNCHANGED <<conn, cache, store, flush, execs, counts>>

EnqueueFails(t) ==
    /\ h[t].pc = "publish"
    /\ conn # "up"
    /\ faults < MaxFaults
    /\ faults' = faults + 1
    /\ h' = [h EXCEPT ![t] = Idle]
    /\ request' = [request EXCEPT ![h[t].req] = "lost"]
    /\ UNCHANGED <<conn, cache, disk, flush, answered, execs, crashes, outages>>

-----------------------------------------------------------------------------
(* The flush goroutine: read a file, publish it, remove the file. *)

FlushRead(k) ==
    /\ flush.pc = "idle"
    /\ spool[k] # None
    /\ flush' = [pc |-> "publish", key |-> k, env |-> spool[k]]
    /\ UNCHANGED <<request, conn, h, cache, disk, answered, execs, counts>>

(* Without a connection the file stays for the next round. *)
FlushPublish ==
    /\ flush.pc = "publish"
    /\ \/ /\ conn = "up"
          /\ answered' = answered \cup {flush.env}
          /\ flush' = [flush EXCEPT !.pc = "remove"]
       \/ /\ conn # "up"
          /\ flush' = FlushIdle
          /\ UNCHANGED answered
    /\ UNCHANGED <<request, conn, h, cache, disk, execs, counts>>

(* The file is removed, also when it has been replaced since it was read. *)
FlushRemove ==
    /\ flush.pc = "remove"
    /\ spool' = [spool EXCEPT ![flush.key] = None]
    /\ flush' = FlushIdle
    /\ UNCHANGED <<request, conn, h, cache, store, answered, execs, counts>>

-----------------------------------------------------------------------------
(* Time, and the end of the process. *)

(* The time to live, two minutes, passes for an entry that is answered; a   *)
(* handler takes less than that from the look-up of the store to the cache. *)
Expire(k) ==
    /\ cache[k].state = "done"
    /\ \A t \in Sub : h[t].pc = "begin" => Now(t) # k
    /\ cache' = [cache EXCEPT ![k].state = "old"]
    /\ UNCHANGED <<request, conn, h, disk, flush, answered, execs, counts>>

(* The agent dies and starts again: what it was working on, and what waited *)
(* in its subscriptions, is lost; the files stay.  It connects anew.        *)
Crash ==
    /\ crashes < MaxCrashes
    /\ crashes' = crashes + 1
    /\ request' = [r \in Request |->
                     IF request[r] \in {"queued", "taken"} THEN "lost" ELSE request[r]]
    /\ h' = [t \in Sub |-> Idle]
    /\ cache' = [k \in Key |-> Absent]
    /\ flush' = FlushIdle
    /\ conn' = "up"
    /\ UNCHANGED <<disk, answered, execs, outages, faults>>

-----------------------------------------------------------------------------
HandlerStep(t) ==
    \/ Load(t) \/ Begin(t) \/ Wait(t) \/ Save(t) \/ Finish(t) \/ Publish(t) \/ Enqueue(t)
    \/ \E reply \in Reply : Execute(t, reply)

Next ==
    \/ \E r \in Request : Send(r) \/ \E t \in Sub : Receive(t, r)
    \/ \E t \in Sub : HandlerStep(t) \/ LoadFails(t) \/ SaveFails(t) \/ EnqueueFails(t)
    \/ \E k \in Key : FlushRead(k) \/ Expire(k)
    \/ FlushPublish \/ FlushRemove
    \/ Disconnect \/ Reconnect \/ GiveUp \/ Crash

Spec == Init /\ [][Next]_vars

(* Goroutines are scheduled, the flush ticker fires for every file, and the *)
(* client reconnects or gives up.                                           *)
Fairness ==
    /\ \A t \in Sub : WF_vars(HandlerStep(t)) /\ \A r \in Request : WF_vars(Receive(t, r))
    /\ \A k \in Key : SF_vars(FlushRead(k))
    /\ WF_vars(FlushPublish) /\ WF_vars(FlushRemove) /\ WF_vars(Reconnect \/ GiveUp)

FairSpec == Spec /\ Fairness
-----------------------------------------------------------------------------
(***************************************************************************)
(* Properties.                                                             *)
(***************************************************************************)

(* Every variable has its type: only an idle handler has no request, only   *)
(* an answered entry a reply, and what is published is a reply.             *)
TypeOK ==
    /\ request \in [Request -> {"unsent", "queued", "taken", "done", "lost"}]
    /\ conn \in {"up", "down", "closed"}
    /\ h \in [Sub -> Handler]
    /\ cache \in [Key -> Entry]
    /\ store \in [Key -> Reply \cup {None}]
    /\ spool \in [Key -> Answer \cup {None}]
    /\ flush \in FlushState
    /\ answered \subseteq Answer
    /\ execs \in [Key -> Nat]
    /\ crashes \in Nat /\ outages \in Nat /\ faults \in Nat

(* The cache lets one handler at a time execute the command of a key,       *)
(* however its requests arrive on the two subjects, and also when a file    *)
(* cannot be read or written.  Two such failures are too many: the handler  *)
(* that executes again after the first may find its entry answered by a     *)
(* third one, and gone when the next starts.                                *)
OneExecutor ==
    faults < 2 => \A t, u \in Sub :
        t # u /\ h[t].pc = "execute" /\ h[u].pc = "execute" => Now(t) # Now(u)

(* The handlers and the cache: types, and one executor at a time.           *)
CacheOK == TypeOK /\ OneExecutor

(* A command is executed once, and once more for each restart and each file *)
(* that could not be read or written: cache and store together cover every  *)
(* repetition of the request, early or late.                                *)
ExecutionsBounded == \A k \in Key : execs[k] <= 1 + crashes + faults

(* While files can be read and written, a reply that anybody has seen is    *)
(* the stored one, so that a repeated request is answered alike, before and *)
(* after restarts and by whichever of cache, store and spool.               *)
AnsweredIsStored ==
    faults = 0 => \A a \in answered : store[KeyOf[a.req]] = a.reply

Answered(r) == \E a \in answered : a.req = r
KeyAnswered(k) == \E a \in answered : KeyOf[a.req] = k

Spooled(k) == conn = "closed" /\ spool[k] # None

(* A request that a handler took is answered, but for four cases that       *)
(* publishReply, the spool and the cache have.  It is lost when the agent   *)
(* dies, when its reply can be neither published nor spooled, and when the  *)
(* handler waited for another one's reply and finds the entry deleted.      *)
(* After an outage another request of the key may have been answered in its *)
(* place, as they share one spool file.  And once the client has given up   *)
(* its connection a reply stays in the spool for as long as nobody restarts *)
(* the agent; a restart sends it.                                           *)
RequestAnswered ==
    \A r \in Request :
        request[r] = "taken" ~>
            \/ request[r] = "lost"
            \/ Answered(r)
            \/ request[r] = "done" /\ outages > 0 /\ KeyAnswered(KeyOf[r])
            \/ []Spooled(KeyOf[r])
=============================================================================
