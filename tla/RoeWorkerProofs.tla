--------------------------- MODULE RoeWorkerProofs ---------------------------
(* Theorems about RoeWorker, for any set of steps, messages, processes and  *)
(* goroutines, any bound on crashes and faults.                             *)
EXTENDS RoeWorker, TLAPS

(* A handler that moves on, records an outcome or leaves is a handler. *)
LEMMA HandlerMoves ==
    ASSUME h \in [Thread -> Handler], NEW t \in Thread, h[t] # Idle
    PROVE  /\ \A pc \in PC : Goto(t, pc) => h' \in [Thread -> Handler]
           /\ \A pc \in PC, f \in StepState :
                 Record(t, pc, f) => h' \in [Thread -> Handler]
           /\ Leave(t) => h' \in [Thread -> Handler]
<1>1. h[t] \in Busy
  BY DEF Handler
<1>2. \A pc \in PC : [h[t] EXCEPT !.pc = pc] \in Busy
  BY <1>1 DEF Busy
<1>3. \A pc \in PC, f \in StepState : [h[t] EXCEPT !.pc = pc, !.final = f] \in Busy
  BY <1>1 DEF Busy
<1>4. ASSUME NEW pc \in PC, Goto(t, pc) PROVE h' \in [Thread -> Handler]
  BY <1>2, <1>4 DEF Goto, Handler
<1>5. ASSUME NEW pc \in PC, NEW f \in StepState, Record(t, pc, f)
      PROVE  h' \in [Thread -> Handler]
  BY <1>3, <1>5 DEF Record, Handler
<1>6. ASSUME Leave(t) PROVE h' \in [Thread -> Handler]
  BY <1>2, <1>6 DEF Leave, Handler, PC
<1> QED
  BY <1>4, <1>5, <1>6
(* Every action keeps the types. *)
LEMMA TypeStep == TypeOK /\ [Next]_vars => TypeOK'
<1> SUFFICES ASSUME TypeOK, [Next]_vars PROVE TypeOK'
  OBVIOUS
<1> USE WorkerAssumption DEF TypeOK
<1> USE DEF buckets, outside
<1>h. \A t \in Thread : h[t].pc # "idle" =>
         /\ h[t] # Idle
         /\ h[t] \in Busy
         /\ Of(t) \in Step
         /\ RunOf[Of(t)] \in Run
  BY DEF Handler, Busy, Idle, Of
<1>m. Missing \in StepState
  BY DEF Missing, StepState, Status
<1>1. ASSUME NEW t \in Thread, NEW m \in Msg, Receive(t, m) PROVE TypeOK'
  <2>1. [Idle EXCEPT !.pc = "check_result", !.msg = m] \in Busy
    BY <1>m DEF Idle, Busy, PC, Working, Before
  <2> QED
    BY <1>1, <2>1 DEF Receive, Handler
<1>2. ASSUME NEW t \in Thread, NEW m \in Msg, DropUndecodable(t, m) PROVE TypeOK'
  BY <1>2 DEF DropUndecodable
<1>3. ASSUME NEW t \in Thread, CheckResult(t) PROVE TypeOK'
  BY <1>3, <1>h, HandlerMoves DEF CheckResult, PC, Working, Before, After
<1>4. ASSUME NEW t \in Thread, CheckState(t) PROVE TypeOK'
  <2>1. h[t] \in Busy /\ h[t] # Idle /\ steps[Of(t)] \in StepState
    BY <1>4, <1>h DEF CheckState
  <2>2. [h[t] EXCEPT !.pc = "lock_get", !.prior = steps[Of(t)].attempt] \in Busy
    BY <2>1 DEF Busy, PC, Working, Before, StepState
  <2>3. {"persist_result", "ack", "nak"} \subseteq PC
    BY DEF PC, Working, After, Closing
  <2>4. h' \in [Thread -> Handler]
    BY <1>4, <2>1, <2>2, <2>3, HandlerMoves DEF CheckState, Handler
  <2> QED
    BY <1>4, <2>4 DEF CheckState
<1>5. ASSUME NEW t \in Thread, LockGet(t) PROVE TypeOK'
  BY <1>5, <1>h, HandlerMoves DEF LockGet, PC, Working, Before, Closing
<1>6. ASSUME NEW t \in Thread, LockPut(t) PROVE TypeOK'
  <2>1. h[t] \in Busy
    BY <1>6, <1>h DEF LockPut
  <2>2. [h[t] EXCEPT !.pc = "put_running", !.locked = TRUE] \in Busy
    BY <2>1 DEF Busy, PC, Working, Before
  <2>3. [holder |-> Id(t), fresh |-> TRUE] \in Lock
    BY DEF Lock, WorkerID, Id
  <2> QED
    BY <1>6, <2>2, <2>3 DEF LockPut, Handler
<1>7. ASSUME NEW t \in Thread, PutRunning(t) PROVE TypeOK'
  <2>1. Attempt(t) \in Nat /\ h[t] # Idle
    BY <1>7, <1>h DEF PutRunning, Attempt, Busy
  <2>2. /\ [status |-> "RUNNING", attempt |-> Attempt(t)] \in StepState
        /\ [status |-> "FAILED_SAFE",
             attempt |-> IF Of(t) \in Invalid THEN 1 ELSE Attempt(t)] \in StepState
    BY <2>1 DEF StepState, Status, Terminal
  <2>3. {"put_final", "execute"} \subseteq PC
    BY DEF PC, Working, After
  <2>4. h' \in [Thread -> Handler]
    BY <1>7, <2>1, <2>2, <2>3, HandlerMoves DEF PutRunning
  <2> QED
    BY <1>7, <2>2, <2>4 DEF PutRunning
<1>8. ASSUME NEW t \in Thread, Execute(t) PROVE TypeOK'
  <2>1. Attempt(t) \in Nat /\ h[t] # Idle
    BY <1>8, <1>h DEF Execute, Attempt, Busy
  <2>2. \A status \in Terminal \cup {"FAILED_TRANSIENT"} :
           [status |-> status, attempt |-> Attempt(t)] \in StepState
    BY <2>1 DEF StepState, Status
  <2>3. h' \in [Thread -> Handler]
    BY <1>8, <2>1, <2>2, HandlerMoves DEF Execute, PC, Working, After
  <2>4. execs' \in [Step -> Nat]
    <3>1. Of(t) \in Step /\ execs \in [Step -> Nat]
      BY <1>8, <1>h DEF Execute
    <3>2. execs[Of(t)] + 1 \in Nat
      BY <3>1
    <3>3. execs' = [execs EXCEPT ![Of(t)] = execs[Of(t)] + 1]
      BY <1>8 DEF Execute
    <3> HIDE DEF TypeOK
    <3> QED
      BY <3>1, <3>2, <3>3
  <2>5. UNCHANGED <<delivery, steps, backoff, result, legacy, lock, published, life, faults>>
    BY <1>8 DEF Execute
  <2> QED
    BY <2>3, <2>4, <2>5
<1>9. ASSUME NEW t \in Thread, PutFinal(t) PROVE TypeOK'
  <2>1. h[t] # Idle /\ h[t].final \in StepState
    BY <1>9, <1>h DEF PutFinal, Busy
  <2>2. h' \in [Thread -> Handler]
    BY <1>9, <2>1, HandlerMoves DEF PutFinal, PC, Working, After, Closing
  <2> QED
    BY <1>9, <2>1, <2>2 DEF PutFinal
<1>10. ASSUME NEW t \in Thread, PersistResult(t) PROVE TypeOK'
  BY <1>10, <1>h, HandlerMoves DEF PersistResult, PC, Working, After, Busy
<1>11. ASSUME NEW t \in Thread, PersistLegacy(t) PROVE TypeOK'
  BY <1>11, <1>h, HandlerMoves DEF PersistLegacy, PC, Working, After, Busy
<1>12. ASSUME NEW t \in Thread, Publish(t) PROVE TypeOK'
  BY <1>12, <1>h, HandlerMoves DEF Publish, PC, Working, Closing, Busy
<1>13. ASSUME NEW t \in Thread, Ack(t) PROVE TypeOK'
  BY <1>13, <1>h, HandlerMoves DEF Ack
<1>14. ASSUME NEW t \in Thread, Nak(t) PROVE TypeOK'
  BY <1>14, <1>h, HandlerMoves DEF Nak
<1>15. ASSUME NEW t \in Thread, Release(t) PROVE TypeOK'
  BY <1>15 DEF Release, Handler, Lock
<1>16. ASSUME NEW t \in Thread, Fault(t) PROVE TypeOK'
  <2>1. h' \in [Thread -> Handler]
    BY <1>16, <1>h, HandlerMoves DEF Fault, Handler
  <2> QED
    BY <1>16, <2>1 DEF Fault
<1>17. ASSUME NEW p \in Proc, Crash(p) PROVE TypeOK'
  BY <1>17 DEF Crash, Handler
<1>18. ASSUME NEW m \in Msg, AckWaitExpires(m) \/ DelayElapses(m) PROVE TypeOK'
  BY <1>18 DEF AckWaitExpires, DelayElapses
<1>19. ASSUME NEW s \in Step, BackoffElapses(s) PROVE TypeOK'
  BY <1>19 DEF BackoffElapses
<1>20. ASSUME NEW r \in Run, LockExpires(r) PROVE TypeOK'
  <2>1. lock[r] \in Lock /\ lock[r] # Free
    BY <1>20 DEF LockExpires, Free
  <2>2. [lock[r] EXCEPT !.fresh = FALSE] \in Lock
    BY <2>1 DEF Lock
  <2> QED
    BY <1>20, <2>2 DEF LockExpires
<1>21. CASE UNCHANGED vars
  BY <1>21 DEF vars
<1> QED
  BY <1>1, <1>2, <1>3, <1>4, <1>5, <1>6, <1>7, <1>8, <1>9, <1>10, <1>11, <1>12,
     <1>13, <1>14, <1>15, <1>16, <1>17, <1>18, <1>19, <1>20, <1>21
     DEF Next, ProcessStep

(* The types of RoeWorker hold in every reachable state: no handler ever    *)
(* acts without a message, and every stored state is a step state.          *)
THEOREM TypeCorrect == Spec => []TypeOK
<1>1. Init => TypeOK
  BY WorkerAssumption
     DEF Init, TypeOK, Missing, StepState, Status, Lock, Free, Handler
<1> QED
  BY <1>1, TypeStep, PTL DEF Spec

-----------------------------------------------------------------------------
(***************************************************************************)
(* Persist before publish.  Nothing is assumed about deliveries: messages  *)
(* may be duplicated and handlers of one step may overlap.                 *)
(***************************************************************************)
PersistInv ==
    /\ PublishedIsPersisted
    /\ \A t \in Thread :
          /\ h[t].pc = "put_final" =>
                h[t].final.status \in Terminal \cup {"FAILED_TRANSIENT"}
          /\ h[t].pc = "persist_result" => h[t].final.status \in Terminal
          /\ h[t].pc \in {"persist_legacy", "publish"} => result[Of(t)] # Missing


(* What a handler's move does to it, and that it leaves the others alone. *)
Others(t) == \A u \in Thread \ {t} : h'[u] = h[u]

LEMMA Moves ==
    ASSUME h \in [Thread -> Handler], NEW t \in Thread, h[t] # Idle
    PROVE  /\ \A pc : Goto(t, pc) =>
                 /\ h'[t].pc = pc /\ h'[t].msg = h[t].msg
                 /\ h'[t].final = h[t].final /\ h'[t].prior = h[t].prior
                 /\ Others(t)
           /\ \A pc, f : Record(t, pc, f) =>
                 /\ h'[t].pc = pc /\ h'[t].msg = h[t].msg
                 /\ h'[t].final = f /\ h'[t].prior = h[t].prior
                 /\ Others(t)
           /\ Leave(t) => h'[t].pc \in {"release", "idle"} /\ Others(t)
<1>1. h[t] \in Busy
  BY DEF Handler
<1>2. ASSUME NEW pc, Goto(t, pc)
      PROVE  /\ h'[t].pc = pc /\ h'[t].msg = h[t].msg
             /\ h'[t].final = h[t].final /\ h'[t].prior = h[t].prior
             /\ Others(t)
  BY <1>1, <1>2 DEF Goto, Others, Busy
<1>3. ASSUME NEW pc, NEW f, Record(t, pc, f)
      PROVE  /\ h'[t].pc = pc /\ h'[t].msg = h[t].msg
             /\ h'[t].final = f /\ h'[t].prior = h[t].prior
             /\ Others(t)
  BY <1>1, <1>3 DEF Record, Others, Busy
<1>4. ASSUME Leave(t) PROVE h'[t].pc \in {"release", "idle"} /\ Others(t)
  BY <1>1, <1>4 DEF Leave, Others, Busy, Idle
<1> QED
  BY <1>2, <1>3, <1>4

(* Every action keeps PersistInv.  Most store and publish nothing and take   *)
(* their handler to a point of which PersistInv says nothing (<1>u).        *)
LEMMA PersistStep == TypeOK /\ PersistInv /\ [Next]_vars => PersistInv'
<1> SUFFICES ASSUME TypeOK, PersistInv, [Next]_vars PROVE PersistInv'
  OBVIOUS
<1> USE WorkerAssumption DEF TypeOK, buckets, outside
<1>h. \A t \in Thread : h[t].pc # "idle" =>
         h[t] # Idle /\ h[t] \in Busy /\ Of(t) \in Step
  BY DEF Handler, Busy, Idle, Of
<1>i. \A t \in Thread :
         /\ h[t].pc = "put_final" =>
               h[t].final.status \in Terminal \cup {"FAILED_TRANSIENT"}
         /\ h[t].pc = "persist_result" => h[t].final.status \in Terminal
         /\ h[t].pc \in {"persist_legacy", "publish"} => result[Of(t)] # Missing
  BY DEF PersistInv
<1>p. \A s \in Step : published[s] # {} => result[s] # Missing
  BY DEF PersistInv, PublishedIsPersisted
<1>m. \A x : x.status \in Terminal => x # Missing
  BY DEF Terminal, Missing
<1>u. ASSUME UNCHANGED <<result, published>>,
             \A t \in Thread : h'[t] = h[t] \/ h'[t].pc \in
                {"idle", "release", "check_result", "check_state", "lock_get",
                 "lock_put", "put_running", "execute", "ack", "nak"}
      PROVE  PersistInv'
  BY <1>u, <1>i, <1>p DEF PersistInv, PublishedIsPersisted, Of
<1>1. ASSUME NEW t \in Thread, NEW m \in Msg, Receive(t, m) PROVE PersistInv'
  BY <1>1, <1>u DEF Receive, Idle
<1>2. ASSUME NEW t \in Thread, NEW m \in Msg, DropUndecodable(t, m) PROVE PersistInv'
  BY <1>2, <1>u DEF DropUndecodable
<1>3. ASSUME NEW t \in Thread, CheckResult(t) PROVE PersistInv'
  <2>1. h[t] # Idle
    BY <1>3, <1>h DEF CheckResult
  <2>2. CASE result[Of(t)] = Missing
    BY <1>3, <2>1, <2>2, <1>u, Moves DEF CheckResult, Others
  <2>3. CASE result[Of(t)] # Missing
    <3>1. h'[t].pc = "publish" /\ h'[t].msg = h[t].msg /\ Others(t)
      BY <1>3, <2>1, <2>3, Moves DEF CheckResult
    <3> QED
      BY <1>3, <2>3, <3>1, <1>i, <1>p
         DEF CheckResult, PersistInv, PublishedIsPersisted, Of, Others
  <2> QED
    BY <2>2, <2>3
<1>4. ASSUME NEW t \in Thread, CheckState(t) PROVE PersistInv'
  <2>1. h[t] # Idle /\ h[t] \in Busy
    BY <1>4, <1>h DEF CheckState
  <2>2. CASE steps[Of(t)].status \in Terminal
    <3>1. Record(t, "persist_result", steps[Of(t)])
      BY <1>4, <2>2 DEF CheckState, Terminal
    <3>2. h'[t].pc = "persist_result" /\ h'[t].final = steps[Of(t)] /\ Others(t)
      BY <2>1, <3>1, Moves
    <3> QED
      BY <1>4, <2>2, <3>2, <1>i, <1>p
         DEF CheckState, PersistInv, PublishedIsPersisted, Of, Others
  <2>3. CASE steps[Of(t)].status \notin Terminal
    <3>1. \/ Goto(t, "ack") \/ Goto(t, "nak")
          \/ h' = [h EXCEPT ![t].pc = "lock_get", ![t].prior = steps[Of(t)].attempt]
      BY <1>4, <2>3 DEF CheckState
    <3>2. h'[t].pc \in {"ack", "nak", "lock_get"} /\ Others(t)
      BY <2>1, <3>1, Moves DEF Others, Busy
    <3> QED
      BY <1>4, <3>2, <1>u DEF CheckState, Others
  <2> QED
    BY <2>2, <2>3
<1>5. ASSUME NEW t \in Thread, LockGet(t) PROVE PersistInv'
  BY <1>5, <1>h, <1>u, Moves DEF LockGet, Others
<1>6. ASSUME NEW t \in Thread, LockPut(t) PROVE PersistInv'
  BY <1>6, <1>h, <1>u DEF LockPut, Busy
<1>7. ASSUME NEW t \in Thread, PutRunning(t) PROVE PersistInv'
  <2>1. h[t] # Idle
    BY <1>7, <1>h DEF PutRunning
  <2>2. \/ h'[t].pc = "put_final" /\ h'[t].final.status = "FAILED_SAFE"
        \/ h'[t].pc = "execute"
    BY <1>7, <2>1, Moves DEF PutRunning
  <2>3. Others(t)
    BY <1>7, <2>1, Moves DEF PutRunning
  <2> QED
    BY <1>7, <2>2, <2>3, <1>i, <1>p
       DEF PutRunning, PersistInv, PublishedIsPersisted, Of, Others, Terminal
<1>8. ASSUME NEW t \in Thread, Execute(t) PROVE PersistInv'
  <2>1. h[t] # Idle
    BY <1>8, <1>h DEF Execute
  <2>2. /\ h'[t].pc = "put_final" /\ Others(t)
        /\ h'[t].final.status \in Terminal \cup {"FAILED_TRANSIENT"}
    BY <1>8, <2>1, Moves DEF Execute
  <2> QED
    BY <1>8, <2>2, <1>i, <1>p
       DEF Execute, PersistInv, PublishedIsPersisted, Of, Others
<1>9. ASSUME NEW t \in Thread, PutFinal(t) PROVE PersistInv'
  <2>1. h[t] # Idle
    BY <1>9, <1>h DEF PutFinal
  <2>2. /\ h'[t].pc \in {"nak", "persist_result"} /\ h'[t].final = h[t].final
        /\ h'[t].pc = "persist_result" => h[t].final.status \in Terminal
        /\ Others(t)
    BY <1>9, <2>1, <1>i, Moves DEF PutFinal
  <2> QED
    BY <1>9, <2>2, <1>i, <1>p
       DEF PutFinal, PersistInv, PublishedIsPersisted, Of, Others
<1>10. ASSUME NEW t \in Thread, PersistResult(t) PROVE PersistInv'
  <2>1. h[t] # Idle /\ Of(t) \in Step /\ h[t].final # Missing
    BY <1>10, <1>h, <1>i, <1>m DEF PersistResult
  <2>2. /\ h'[t].pc = "persist_legacy" /\ h'[t].msg = h[t].msg /\ Others(t)
    BY <1>10, <2>1, Moves DEF PersistResult
  <2>3. result'[Of(t)] # Missing /\ \A s \in Step \ {Of(t)} : result'[s] = result[s]
    BY <1>10, <2>1 DEF PersistResult
  <2>4. \A u \in Thread : h[u].pc # "idle" /\ result[Of(u)] # Missing => result'[Of(u)] # Missing
    BY <2>3, <1>h
  <2> QED
    BY <1>10, <2>2, <2>3, <2>4, <1>i, <1>p
       DEF PersistResult, PersistInv, PublishedIsPersisted, Of, Others
<1>11. ASSUME NEW t \in Thread, PersistLegacy(t) PROVE PersistInv'
  <2>1. h[t] # Idle
    BY <1>11, <1>h DEF PersistLegacy
  <2>2. h'[t].pc = "publish" /\ h'[t].msg = h[t].msg /\ Others(t)
    BY <1>11, <2>1, Moves DEF PersistLegacy
  <2> QED
    BY <1>11, <2>2, <1>i, <1>p
       DEF PersistLegacy, PersistInv, PublishedIsPersisted, Of, Others
<1>12. ASSUME NEW t \in Thread, Publish(t) PROVE PersistInv'
  <2>1. h[t] # Idle /\ Of(t) \in Step /\ result[Of(t)] # Missing
    BY <1>12, <1>h, <1>i DEF Publish
  <2>2. h'[t].pc = "ack" /\ Others(t)
    BY <1>12, <2>1, Moves DEF Publish
  <2> QED
    BY <1>12, <2>1, <2>2, <1>i, <1>p
       DEF Publish, PersistInv, PublishedIsPersisted, Of, Others
<1>13. ASSUME NEW t \in Thread, Ack(t) \/ Nak(t) PROVE PersistInv'
  BY <1>13, <1>h, <1>u, Moves DEF Ack, Nak, Others
<1>14. ASSUME NEW t \in Thread, Release(t) PROVE PersistInv'
  BY <1>14, <1>u DEF Release, Idle
<1>15. ASSUME NEW t \in Thread, Fault(t) PROVE PersistInv'
  BY <1>15, <1>h, <1>u, Moves DEF Fault, Others, Idle
<1>16. ASSUME NEW p \in Proc, Crash(p) PROVE PersistInv'
  BY <1>16, <1>u DEF Crash, Idle
<1>17. ASSUME NEW m \in Msg, AckWaitExpires(m) \/ DelayElapses(m) PROVE PersistInv'
  BY <1>17, <1>u DEF AckWaitExpires, DelayElapses
<1>18. ASSUME NEW s \in Step, BackoffElapses(s) PROVE PersistInv'
  BY <1>18, <1>u DEF BackoffElapses
<1>19. ASSUME NEW r \in Run, LockExpires(r) PROVE PersistInv'
  BY <1>19, <1>u DEF LockExpires
<1>20. CASE UNCHANGED vars
  BY <1>20, <1>u DEF vars
<1> QED
  BY <1>1, <1>2, <1>3, <1>4, <1>5, <1>6, <1>7, <1>8, <1>9, <1>10, <1>11, <1>12,
     <1>13, <1>14, <1>15, <1>16, <1>17, <1>18, <1>19, <1>20
     DEF Next, ProcessStep

(* Whatever crashes, faults and overlapping deliveries do, no result        *)
(* message of a step leaves a worker before its result is stored.           *)
THEOREM PersistBeforePublish == Spec => []PublishedIsPersisted
<1>1. Init => PersistInv
  BY DEF Init, PersistInv, PublishedIsPersisted, Idle
<1>2. PersistInv => PublishedIsPersisted
  BY DEF PersistInv
<1> QED
  BY <1>1, <1>2, TypeCorrect, PersistStep, PTL DEF Spec

(* The first result stored for a step is the one it keeps: no handler, live *)
(* or stale, replaces it.                                                   *)
THEOREM FirstResultWins == Spec => ResultStable
<1>1. TypeOK /\ [Next]_vars =>
        [\A s \in Step : result[s] # Missing => result'[s] = result[s]]_vars
  <2> SUFFICES ASSUME TypeOK, Next
               PROVE  \A s \in Step : result[s] # Missing => result'[s] = result[s]
    OBVIOUS
  <2>1. \/ UNCHANGED result
        \/ \E t \in Thread : PersistResult(t)
    BY DEF Next, ProcessStep, Receive, DropUndecodable, CheckResult, CheckState,
           LockGet, LockPut, PutRunning, Execute, PutFinal, PersistLegacy, Publish,
           Ack, Nak, Release, Fault, Crash, AckWaitExpires, DelayElapses,
           BackoffElapses, LockExpires, buckets
  <2> QED
    BY <2>1 DEF PersistResult, TypeOK
<1> QED
  BY <1>1, TypeCorrect, PTL DEF Spec, ResultStable

-----------------------------------------------------------------------------
(***************************************************************************)
(* One delivery at a time.  Each step has one message, which comes back    *)
(* only when no handler has it, so at most one handler works on a step and *)
(* what it read of the step is still true when it acts.                    *)
(***************************************************************************)
Active(t) == h[t].pc \in Working

Ownership ==
    /\ \A t \in Thread : Active(t) => delivery[h[t].msg] = "pending"
    /\ \A t, u \in Thread : Active(t) /\ Active(u) /\ h[t].msg = h[u].msg => t = u

ThreadInv(t) ==
    LET s == Of(t)
        pc == h[t].pc IN
    /\ pc \in {"check_state", "lock_get", "lock_put", "put_running", "execute",
              "put_final"} => result[s] = Missing
    /\ pc \in {"lock_get", "lock_put", "put_running"} =>
          /\ steps[s].status \in {"NONE", "FAILED_TRANSIENT"}
          /\ h[t].prior = steps[s].attempt
    /\ pc = "execute" =>
          /\ steps[s].status = "RUNNING"
          /\ execs[s] <= h[t].prior
          /\ h[t].prior < Limit(s)
    /\ pc = "put_final" =>
          /\ steps[s].status = "RUNNING"
          /\ h[t].final.status \in Terminal \cup {"FAILED_TRANSIENT"}
          /\ h[t].final.status = "FAILED_TRANSIENT" =>
                execs[s] <= h[t].final.attempt /\ h[t].final.attempt < Limit(s)
    /\ pc = "persist_result" =>
          /\ steps[s] = h[t].final
          /\ h[t].final.status \in Terminal
          /\ result[s] \in {Missing, h[t].final}
    /\ pc \in {"persist_legacy", "publish"} =>
          result[s] = h[t].final /\ h[t].final.status \in Terminal
    /\ pc = "ack" => steps[s].status # "FAILED_TRANSIENT"

StepInv(s) ==
    /\ steps[s].status \in {"NONE", "FAILED_TRANSIENT"} =>
          execs[s] <= steps[s].attempt /\ steps[s].attempt < Limit(s)
    /\ execs[s] <= Limit(s)
    /\ result[s] # Missing =>
          result[s] = steps[s] /\ steps[s].status \in Terminal
    /\ published[s] \subseteq {result[s]} \ {Missing}
    /\ steps[s].status = "FAILED_TRANSIENT" => Unacked(s)

SoleInv ==
    /\ Ownership
    /\ \A t \in Thread : ThreadInv(t)
    /\ \A s \in Step : StepInv(s)

(* A handler's own move keeps SoleInv if it keeps it for the handler and    *)
(* for its step, and touches nothing of other steps and messages.           *)
LEMMA OwnMove ==
    ASSUME OneDelivery, TypeOK, SoleInv,
           NEW t \in Thread, Active(t), Others(t),
           NEW s \in Step, s = Of(t),
           \A r \in Step \ {s} :
              /\ steps'[r] = steps[r] /\ result'[r] = result[r]
              /\ published'[r] = published[r] /\ execs'[r] = execs[r],
           \A m \in Msg \ {h[t].msg} : delivery'[m] = delivery[m],
           Active(t)' => /\ h'[t].msg = h[t].msg
                         /\ delivery'[h[t].msg] = delivery[h[t].msg],
           ThreadInv(t)', StepInv(s)'
    PROVE  SoleInv'
<1> USE WorkerAssumption
<1>1. \A u \in Thread : Active(u) => h[u].msg \in Msg
  BY DEF TypeOK, Handler, Busy, Idle, Active, Working, Before, After, Closing
<1>2. \A u \in Thread \ {t} :
         /\ h'[u] = h[u]
         /\ Active(u) => h[u].msg # h[t].msg /\ Of(u) \in Step /\ Of(u) # s
  BY <1>1 DEF Others, SoleInv, Ownership, OneDelivery, Of
<1>3. Ownership'
  BY <1>1, <1>2 DEF SoleInv, Ownership, Active
<1>4. ASSUME NEW u \in Thread \ {t} PROVE ThreadInv(u)'
  <2>1. ThreadInv(u) /\ h'[u] = h[u]
    BY <1>2 DEF SoleInv
  <2>2. CASE Active(u)
    BY <2>1, <2>2, <1>2 DEF ThreadInv, Of
  <2>3. CASE ~Active(u)
    BY <2>1, <2>3 DEF ThreadInv, Active, Working, Before, After, Closing
  <2> QED
    BY <2>2, <2>3
<1>5. ASSUME NEW r \in Step \ {s} PROVE StepInv(r)'
  <2>1. StepInv(r)
    BY DEF SoleInv
  <2>2. \A m \in Msg : StepOf[m] = r => delivery'[m] = delivery[m]
    BY <1>1 DEF Of
  <2>3. Unacked(r) => Unacked(r)'
    BY <2>2 DEF Unacked
  <2> QED
    BY <2>1, <2>3 DEF StepInv
<1> QED
  BY <1>3, <1>4, <1>5 DEF SoleInv

(* A step that leaves what is stored and published alone keeps SoleInv if   *)
(* handlers at most stop and only messages nobody has change, unacked.      *)
LEMMA QuietMove ==
    ASSUME OneDelivery, TypeOK, SoleInv,
           UNCHANGED <<steps, result, published, execs>>,
           \A u \in Thread : h'[u] = h[u] \/ h'[u].pc \in {"idle", "release"},
           \A m \in Msg : \/ delivery'[m] = delivery[m]
                          \/ delivery'[m] # "acked" /\ delivery[m] # "acked" /\ ~Held(m)
    PROVE  SoleInv'
<1> USE WorkerAssumption
<1>1. \A u \in Thread : Active(u) => h[u].msg \in Msg
  BY DEF TypeOK, Handler, Busy, Idle, Active, Working, Before, After, Closing
<1>2. \A u \in Thread : Active(u)' => h'[u] = h[u] /\ Active(u)
  BY DEF Active, Working, Before, After, Closing
<1>3. Ownership'
  BY <1>1, <1>2 DEF SoleInv, Ownership, Active, Held
<1>4. ASSUME NEW u \in Thread PROVE ThreadInv(u)'
  <2>1. ThreadInv(u)
    BY DEF SoleInv
  <2> QED
    BY <2>1, <1>2 DEF ThreadInv, Of, Active, Working, Before, After, Closing
<1>5. ASSUME NEW s \in Step PROVE StepInv(s)'
  <2>1. StepInv(s)
    BY DEF SoleInv
  <2>2. Unacked(s) => Unacked(s)'
    BY DEF Unacked
  <2> QED
    BY <2>1, <2>2 DEF StepInv
<1> QED
  BY <1>3, <1>4, <1>5 DEF SoleInv
(* Every action keeps SoleInv when each step has one delivery at a time.    *)
LEMMA SoleStep == OneDelivery /\ TypeOK /\ SoleInv /\ [Next]_vars => SoleInv'
<1> SUFFICES ASSUME OneDelivery, TypeOK, SoleInv, [Next]_vars PROVE SoleInv'
  OBVIOUS
<1> USE WorkerAssumption DEF buckets, outside
<1>h. ASSUME NEW t \in Thread, Active(t)
      PROVE  /\ h[t] # Idle
             /\ h[t].msg \in Msg
             /\ Of(t) \in Step
             /\ delivery[h[t].msg] = "pending"
             /\ ThreadInv(t) /\ StepInv(Of(t))
             /\ h[t].prior \in Nat /\ execs[Of(t)] \in Nat
             /\ steps[Of(t)].attempt \in Nat /\ Limit(Of(t)) \in Nat
             /\ Of(t) = StepOf[h[t].msg]
             /\ Unacked(Of(t))
  <2>1. h[t] # Idle
    BY <1>h DEF Active, Idle, Working, Before, After, Closing
  <2>2. h[t] \in Busy
    BY <2>1 DEF TypeOK, Handler
  <2>3. h[t].msg \in Msg /\ h[t].prior \in Nat /\ Of(t) \in Step
    BY <2>2 DEF Busy, Of
  <2>4. delivery[h[t].msg] = "pending" /\ ThreadInv(t) /\ StepInv(Of(t))
    BY <1>h, <2>3 DEF SoleInv, Ownership
  <2>5. execs[Of(t)] \in Nat /\ steps[Of(t)].attempt \in Nat
    BY <2>3 DEF TypeOK, StepState
  <2>6. Limit(Of(t)) \in Nat
    BY DEF Limit
  <2>7. Of(t) = StepOf[h[t].msg] /\ Unacked(Of(t))
    BY <2>3, <2>4 DEF Of, Unacked
  <2> QED
    BY <2>1, <2>3, <2>4, <2>5, <2>6, <2>7
<1>a. \A t \in Thread : h[t].pc \in Working <=> Active(t)
  BY DEF Active
<1>w. Working = {"check_result", "check_state", "lock_get", "lock_put", "put_running",
                 "execute", "put_final", "persist_result", "persist_legacy",
                 "publish", "ack", "nak"}
  BY DEF Working, Before, After, Closing
<1>f. /\ steps \in [Step -> StepState] /\ result \in [Step -> StepState]
      /\ execs \in [Step -> Nat] /\ published \in [Step -> SUBSET StepState]
      /\ delivery \in [Msg -> {"ready", "pending", "delayed", "acked"}]
      /\ h \in [Thread -> Handler]
  BY DEF TypeOK
<1>1. ASSUME NEW t \in Thread, NEW m \in Msg, Receive(t, m) PROVE SoleInv'
  <2>1. /\ h'[t] = [Idle EXCEPT !.pc = "check_result", !.msg = m]
        /\ \A u \in Thread \ {t} : h'[u] = h[u]
    BY <1>1, <1>f DEF Receive, TypeOK
  <2>2. h'[t].pc = "check_result" /\ h'[t].msg = m
    BY <2>1 DEF Idle
  <2>3. /\ UNCHANGED <<steps, result, published, execs>>
        /\ delivery' = [delivery EXCEPT ![m] = "pending"] /\ delivery[m] = "ready"
    BY <1>1 DEF Receive
  <2>4. \A u \in Thread : Active(u) => h[u].msg \in Msg /\ h[u].msg # m
    BY <1>h, <2>3
  <2>5. Ownership'
    <3>1. \A u \in Thread : Active(u)' => delivery'[h'[u].msg] = "pending"
      <4>1. delivery'[m] = "pending" /\ \A n \in Msg \ {m} : delivery'[n] = delivery[n]
        BY <2>3, <1>f
      <4>2. \A u \in Thread : Active(u) => delivery[h[u].msg] = "pending"
        BY DEF Ownership, SoleInv
      <4>3. delivery'[h'[t].msg] = "pending"
        BY <2>2, <4>1
      <4>4. ASSUME NEW u \in Thread \ {t}, Active(u)' PROVE delivery'[h'[u].msg] = "pending"
        <5>1. Active(u) /\ h'[u] = h[u]
          BY <2>1, <4>4 DEF Active
        <5> QED
          BY <2>4, <4>1, <4>2, <5>1
      <4> QED
        BY <4>3, <4>4
    <3>2. \A u \in Thread \ {t} : Active(u)' => h'[u].msg # h'[t].msg
      BY <2>1, <2>2, <2>4 DEF Active
    <3>3. \A u, v \in Thread \ {t} :
             Active(u)' /\ Active(v)' /\ h'[u].msg = h'[v].msg => u = v
      BY <2>1 DEF Ownership, SoleInv, Active
    <3> QED
      BY <3>1, <3>2, <3>3 DEF Ownership
  <2>6. ASSUME NEW u \in Thread PROVE ThreadInv(u)'
    <3>1. CASE u = t
      BY <3>1, <2>2 DEF ThreadInv
    <3>2. CASE u # t
      BY <3>2, <2>1, <2>3 DEF ThreadInv, SoleInv, Of
    <3> QED
      BY <3>1, <3>2
  <2>7. ASSUME NEW s \in Step PROVE StepInv(s)'
    <3>1. StepInv(s)
      BY DEF SoleInv
    <3>2. Unacked(s) => Unacked(s)'
      BY <2>3, <1>f DEF Unacked, TypeOK
    <3> QED
      BY <3>1, <3>2, <2>3 DEF StepInv
  <2> QED
    BY <2>5, <2>6, <2>7 DEF SoleInv
<1>2. ASSUME NEW t \in Thread, NEW m \in Msg, DropUndecodable(t, m) PROVE SoleInv'
  <2>1. ~Held(m)
    BY <1>2, <1>h DEF DropUndecodable, Held, Active
  <2> QED
    BY <1>2, <2>1, QuietMove DEF DropUndecodable, TypeOK
<1>3. ASSUME NEW t \in Thread, CheckResult(t) PROVE SoleInv'
  <2>1. Active(t)
    BY <1>3, <1>w DEF CheckResult, Active
  <2>2. CASE result[Of(t)] = Missing
    <3>1. h'[t].pc = "check_state" /\ h'[t].msg = h[t].msg /\ Others(t)
      BY <1>3, <2>1, <2>2, <1>h, <1>f, Moves DEF CheckResult
    <3>2. ThreadInv(t)' /\ StepInv(Of(t))
      BY <1>3, <2>1, <2>2, <3>1, <1>h DEF CheckResult, ThreadInv, Of
    <3> QED
      BY <1>3, <2>1, <3>1, <3>2, <1>h, OwnMove DEF CheckResult, StepInv, Unacked
  <2>3. CASE result[Of(t)] # Missing
    <3>1. /\ h'[t].pc = "publish" /\ h'[t].msg = h[t].msg /\ Others(t)
          /\ h'[t].final = result[Of(t)]
      BY <1>3, <2>1, <2>3, <1>h, <1>f, Moves DEF CheckResult
    <3>2. ThreadInv(t)' /\ StepInv(Of(t))
      BY <1>3, <2>1, <2>3, <3>1, <1>h DEF CheckResult, ThreadInv, StepInv, Of
    <3> QED
      BY <1>3, <2>1, <3>1, <3>2, <1>h, OwnMove DEF CheckResult, StepInv, Unacked
  <2> QED
    BY <2>2, <2>3
<1>4. ASSUME NEW t \in Thread, CheckState(t) PROVE SoleInv'
  <2>1. Active(t) /\ result[Of(t)] = Missing
    BY <1>4, <1>w, <1>h DEF CheckState, Active, ThreadInv
  <2>2. UNCHANGED <<delivery, steps, result, published, execs>>
    BY <1>4 DEF CheckState
  <2>3. h'[t].msg = h[t].msg /\ Others(t) /\ ThreadInv(t)'
    <3>1. CASE steps[Of(t)].status \in Terminal
      <4>1. Record(t, "persist_result", steps[Of(t)])
        BY <1>4, <3>1 DEF CheckState, Terminal
      <4>2. /\ h'[t].pc = "persist_result" /\ h'[t].final = steps[Of(t)]
            /\ h'[t].msg = h[t].msg /\ Others(t)
        BY <2>1, <4>1, <1>h, <1>f, Moves
      <4> QED
        BY <2>1, <2>2, <3>1, <4>2 DEF ThreadInv, Of
    <3>2. CASE steps[Of(t)].status = "RUNNING"
      <4>1. Goto(t, "ack")
        BY <1>4, <3>2 DEF CheckState, Terminal
      <4>2. h'[t].pc = "ack" /\ h'[t].msg = h[t].msg /\ Others(t)
        BY <2>1, <4>1, <1>h, <1>f, Moves
      <4> QED
        BY <2>1, <2>2, <3>2, <4>2 DEF ThreadInv, Of
    <3>3. CASE steps[Of(t)].status \in {"NONE", "FAILED_TRANSIENT"}
      <4>1. \/ Goto(t, "nak")
            \/ h' = [h EXCEPT ![t].pc = "lock_get", ![t].prior = steps[Of(t)].attempt]
        BY <1>4, <3>3 DEF CheckState, Terminal
      <4>2. h[t] \in Busy
        BY <2>1, <1>h, <1>f DEF Handler
      <4>3. /\ \/ h'[t].pc = "nak"
               \/ h'[t].pc = "lock_get" /\ h'[t].prior = steps[Of(t)].attempt
            /\ h'[t].msg = h[t].msg /\ Others(t)
        BY <2>1, <4>1, <4>2, <1>h, <1>f, Moves DEF Others, Busy
      <4> QED
        BY <2>1, <2>2, <3>3, <4>3 DEF ThreadInv, Of
    <3> QED
      BY <3>1, <3>2, <3>3, <2>1, <1>h, <1>f DEF StepState, Status
  <2> QED
    BY <2>1, <2>2, <2>3, <1>h, OwnMove DEF StepInv, Unacked
<1>5. ASSUME NEW t \in Thread, LockGet(t) PROVE SoleInv'
  <2>1. Active(t)
    BY <1>5, <1>w DEF LockGet, Active
  <2>2. /\ h'[t].pc \in {"nak", "lock_put"} /\ h'[t].msg = h[t].msg
        /\ h'[t].prior = h[t].prior /\ Others(t)
    BY <1>5, <2>1, <1>h, <1>f, Moves DEF LockGet
  <2>3. UNCHANGED <<delivery, steps, result, published, execs>>
    BY <1>5 DEF LockGet
  <2>4. ThreadInv(t)'
    BY <1>5, <2>1, <2>2, <2>3, <1>h DEF LockGet, ThreadInv, Of
  <2> QED
    BY <2>1, <2>2, <2>3, <2>4, <1>h, OwnMove DEF StepInv, Unacked
<1>6. ASSUME NEW t \in Thread, LockPut(t) PROVE SoleInv'
  <2>1. Active(t)
    BY <1>6, <1>w DEF LockPut, Active
  <2>2. h[t] \in Busy
    BY <2>1, <1>h, <1>f DEF Handler
  <2>3. /\ h'[t].pc = "put_running" /\ h'[t].msg = h[t].msg
        /\ h'[t].prior = h[t].prior /\ Others(t)
    BY <1>6, <2>2, <1>f DEF LockPut, Others, Busy
  <2>4. UNCHANGED <<delivery, steps, result, published, execs>>
    BY <1>6 DEF LockPut
  <2>5. ThreadInv(t)'
    BY <1>6, <2>1, <2>3, <2>4, <1>h DEF LockPut, ThreadInv, Of
  <2> QED
    BY <2>1, <2>3, <2>4, <2>5, <1>h, OwnMove DEF StepInv, Unacked
<1>7. ASSUME NEW t \in Thread, PutRunning(t) PROVE SoleInv'
  <2>1. Active(t)
    BY <1>7, <1>w DEF PutRunning, Active
  <2>2. /\ steps[Of(t)].status \in {"NONE", "FAILED_TRANSIENT"}
        /\ h[t].prior = steps[Of(t)].attempt /\ result[Of(t)] = Missing
        /\ execs[Of(t)] <= h[t].prior /\ h[t].prior < Limit(Of(t))
    BY <1>7, <2>1, <1>h DEF PutRunning, ThreadInv, StepInv
  <2>3. /\ steps'[Of(t)].status = "RUNNING"
        /\ \A r \in Step \ {Of(t)} : steps'[r] = steps[r]
        /\ UNCHANGED <<delivery, result, published, execs>>
    BY <1>7, <2>1, <1>h, <1>f DEF PutRunning
  <2>4. /\ h'[t].msg = h[t].msg /\ h'[t].prior = h[t].prior /\ Others(t)
        /\ \/ h'[t].pc = "put_final" /\ h'[t].final.status = "FAILED_SAFE"
           \/ h'[t].pc = "execute"
    BY <1>7, <2>1, <1>h, <1>f, Moves DEF PutRunning
  <2>5. ThreadInv(t)'
    BY <2>2, <2>3, <2>4 DEF ThreadInv, Of, Terminal, Limit
  <2>6. \A s \in Step : s = Of(t) => StepInv(s)'
    BY <2>1, <2>2, <2>3, <1>h DEF StepInv, Limit
  <2> QED
    BY <2>1, <2>3, <2>4, <2>5, <2>6, <1>h, OwnMove
<1>8. ASSUME NEW t \in Thread, Execute(t) PROVE SoleInv'
  <2>1. Active(t)
    BY <1>8, <1>w DEF Execute, Active
  <2>2. /\ steps[Of(t)].status = "RUNNING" /\ result[Of(t)] = Missing
        /\ execs[Of(t)] <= h[t].prior /\ h[t].prior < Limit(Of(t))
    BY <1>8, <2>1, <1>h DEF Execute, ThreadInv
  <2>3. /\ execs'[Of(t)] = execs[Of(t)] + 1
        /\ \A r \in Step \ {Of(t)} : execs'[r] = execs[r]
        /\ UNCHANGED <<delivery, steps, result, published>>
    BY <1>8, <2>1, <1>h, <1>f DEF Execute
  <2>4. /\ h'[t].pc = "put_final" /\ h'[t].msg = h[t].msg /\ Others(t)
        /\ h'[t].final.status \in Terminal \cup {"FAILED_TRANSIENT"}
        /\ h'[t].final.status = "FAILED_TRANSIENT" =>
              h'[t].final.attempt = h[t].prior + 1 /\ h[t].prior + 1 < Limit(Of(t))
    BY <1>8, <2>1, <1>h, <1>f, Moves DEF Execute, Attempt
  <2>5. execs'[Of(t)] <= h[t].prior + 1 /\ execs'[Of(t)] <= Limit(Of(t))
    BY <2>1, <2>2, <2>3, <1>h
  <2>6. ThreadInv(t)'
    BY <2>2, <2>3, <2>4, <2>5 DEF ThreadInv, Of, Limit
  <2>7. \A s \in Step : s = Of(t) => StepInv(s)'
    BY <2>1, <2>2, <2>3, <2>5, <1>h DEF StepInv, Limit
  <2> QED
    BY <2>1, <2>3, <2>4, <2>6, <2>7, <1>h, OwnMove
<1>9. ASSUME NEW t \in Thread, PutFinal(t) PROVE SoleInv'
  <2>1. Active(t)
    BY <1>9, <1>w DEF PutFinal, Active
  <2>2. /\ h[t].final.status \in Terminal \cup {"FAILED_TRANSIENT"}
        /\ result[Of(t)] = Missing
        /\ h[t].final.status = "FAILED_TRANSIENT" =>
              execs[Of(t)] <= h[t].final.attempt /\ h[t].final.attempt < Limit(Of(t))
    BY <1>9, <2>1, <1>h DEF PutFinal, ThreadInv
  <2>3. /\ steps'[Of(t)] = h[t].final
        /\ \A r \in Step \ {Of(t)} : steps'[r] = steps[r]
        /\ UNCHANGED <<delivery, result, published, execs>>
    BY <1>9, <2>1, <1>h, <1>f DEF PutFinal
  <2>4. /\ h'[t].msg = h[t].msg /\ h'[t].final = h[t].final /\ Others(t)
        /\ h'[t].pc = IF h[t].final.status = "FAILED_TRANSIENT"
                      THEN "nak" ELSE "persist_result"
    BY <1>9, <2>1, <1>h, <1>f, Moves DEF PutFinal
  <2>5. ThreadInv(t)'
    BY <2>2, <2>3, <2>4 DEF ThreadInv, Of
  <2>6. \A s \in Step : s = Of(t) => StepInv(s)'
    <3> SUFFICES ASSUME NEW s \in Step, s = Of(t) PROVE StepInv(s)'
      OBVIOUS
    <3>1. execs[s] <= Limit(s) /\ published[s] \subseteq {Missing} \ {Missing}
      BY <2>1, <2>2, <1>h DEF StepInv
    <3>2. Unacked(s)'
      BY <2>1, <2>3, <1>h DEF Unacked
    <3> QED
      BY <2>2, <2>3, <3>1, <3>2 DEF StepInv, Terminal, Limit
  <2> QED
    BY <2>1, <2>3, <2>4, <2>5, <2>6, <1>h, OwnMove
<1>10. ASSUME NEW t \in Thread, PersistResult(t) PROVE SoleInv'
  <2>1. Active(t)
    BY <1>10, <1>w DEF PersistResult, Active
  <2>2. /\ steps[Of(t)] = h[t].final /\ h[t].final.status \in Terminal
        /\ result[Of(t)] \in {Missing, h[t].final}
    BY <1>10, <2>1, <1>h DEF PersistResult, ThreadInv
  <2>3. /\ result'[Of(t)] = h[t].final
        /\ \A r \in Step \ {Of(t)} : result'[r] = result[r]
        /\ UNCHANGED <<delivery, steps, published, execs>>
    BY <1>10, <2>1, <2>2, <1>h, <1>f DEF PersistResult
  <2>4. /\ h'[t].pc = "persist_legacy" /\ h'[t].msg = h[t].msg
        /\ h'[t].final = h[t].final /\ Others(t)
    BY <1>10, <2>1, <1>h, <1>f, Moves DEF PersistResult
  <2>5. ThreadInv(t)'
    BY <2>2, <2>3, <2>4 DEF ThreadInv, Of
  <2>6. \A s \in Step : s = Of(t) => StepInv(s)'
    BY <2>1, <2>2, <2>3, <1>h DEF StepInv, Terminal, Limit, Unacked
  <2> QED
    BY <2>1, <2>3, <2>4, <2>5, <2>6, <1>h, OwnMove
<1>11. ASSUME NEW t \in Thread, PersistLegacy(t) PROVE SoleInv'
  <2>1. Active(t)
    BY <1>11, <1>w DEF PersistLegacy, Active
  <2>2. /\ h'[t].pc = "publish" /\ h'[t].msg = h[t].msg
        /\ h'[t].final = h[t].final /\ Others(t)
    BY <1>11, <2>1, <1>h, <1>f, Moves DEF PersistLegacy
  <2>3. UNCHANGED <<delivery, steps, result, published, execs>>
    BY <1>11 DEF PersistLegacy
  <2>4. ThreadInv(t)'
    BY <1>11, <2>1, <2>2, <2>3, <1>h DEF PersistLegacy, ThreadInv, Of
  <2> QED
    BY <2>1, <2>2, <2>3, <2>4, <1>h, OwnMove DEF StepInv, Unacked
<1>12. ASSUME NEW t \in Thread, Publish(t) PROVE SoleInv'
  <2>1. Active(t)
    BY <1>12, <1>w DEF Publish, Active
  <2>2. /\ result[Of(t)] = h[t].final /\ h[t].final.status \in Terminal
        /\ h[t].final # Missing
    BY <1>12, <2>1, <1>h DEF Publish, ThreadInv, Terminal, Missing
  <2>3. /\ published'[Of(t)] = published[Of(t)] \cup {h[t].final}
        /\ \A r \in Step \ {Of(t)} : published'[r] = published[r]
        /\ UNCHANGED <<delivery, steps, result, execs>>
    BY <1>12, <2>1, <1>h, <1>f DEF Publish
  <2>4. h'[t].pc = "ack" /\ h'[t].msg = h[t].msg /\ Others(t)
    BY <1>12, <2>1, <1>h, <1>f, Moves DEF Publish
  <2>5. StepInv(Of(t)) /\ steps[Of(t)].status \in Terminal
    BY <2>1, <2>2, <1>h DEF StepInv
  <2>6. ThreadInv(t)'
    BY <2>3, <2>4, <2>5 DEF ThreadInv, Of, Terminal
  <2>7. \A s \in Step : s = Of(t) => StepInv(s)'
    BY <2>2, <2>3, <2>5 DEF StepInv, Limit, Unacked
  <2> QED
    BY <2>1, <2>3, <2>4, <2>6, <2>7, <1>h, OwnMove
<1>13. ASSUME NEW t \in Thread, Ack(t) \/ Nak(t) PROVE SoleInv'
  <2>1. Active(t)
    BY <1>13, <1>w DEF Ack, Nak, Active
  <2>2. h'[t].pc \in {"release", "idle"} /\ Others(t)
    BY <1>13, <2>1, <1>h, <1>f, Moves DEF Ack, Nak
  <2>3. UNCHANGED <<steps, result, published, execs>>
    BY <1>13 DEF Ack, Nak
  <2>4. \A m \in Msg \ {h[t].msg} : delivery'[m] = delivery[m]
    BY <1>13, <1>f DEF Ack, Nak
  <2>5. ThreadInv(t)' /\ ~Active(t)'
    BY <2>2, <1>w DEF ThreadInv, Active
  <2>6. ASSUME NEW s \in Step, s = Of(t), steps[s].status = "FAILED_TRANSIENT"
        PROVE  Unacked(s)'
    <3>1. CASE Ack(t)
      BY <3>1, <2>1, <2>6, <1>h DEF Ack, ThreadInv
    <3>2. CASE Nak(t)
      <4>1. delivery'[h[t].msg] = "delayed"
        BY <3>2, <2>1, <1>h, <1>f DEF Nak
      <4> QED
        BY <4>1, <2>1, <2>6, <1>h DEF Unacked
    <3> QED
      BY <1>13, <3>1, <3>2
  <2>7. \A s \in Step : s = Of(t) => StepInv(s)'
    BY <2>1, <2>3, <2>6, <1>h DEF StepInv, Limit
  <2> QED
    BY <2>1, <2>2, <2>3, <2>4, <2>5, <2>7, <1>h, OwnMove
<1>14. ASSUME NEW t \in Thread, Release(t) PROVE SoleInv'
  <2>1. \A u \in Thread : h'[u] = h[u] \/ h'[u].pc \in {"idle", "release"}
    BY <1>14, <1>f DEF Release, Idle
  <2> QED
    BY <1>14, <2>1, QuietMove DEF Release
<1>15. ASSUME NEW t \in Thread, Fault(t) PROVE SoleInv'
  <2>1. \A u \in Thread : h'[u] = h[u] \/ h'[u].pc \in {"idle", "release"}
    <3>1. h[t] # Idle
      BY <1>15 DEF Fault, Idle
    <3> QED
      BY <1>15, <3>1, <1>f, Moves DEF Fault, Others, Idle
  <2> QED
    BY <1>15, <2>1, QuietMove DEF Fault
<1>16. ASSUME NEW p \in Proc, Crash(p) PROVE SoleInv'
  <2>1. \A u \in Thread : h'[u] = h[u] \/ h'[u].pc \in {"idle", "release"}
    BY <1>16, <1>f DEF Crash, Idle
  <2> QED
    BY <1>16, <2>1, QuietMove DEF Crash
<1>17. ASSUME NEW m \in Msg, AckWaitExpires(m) \/ DelayElapses(m) PROVE SoleInv'
  <2>1. ~Held(m)
    BY <1>17, <1>h, <1>a DEF AckWaitExpires, DelayElapses, OneDelivery, Held
  <2> QED
    BY <1>17, <2>1, <1>f, QuietMove DEF AckWaitExpires, DelayElapses
<1>18. ASSUME NEW s \in Step, BackoffElapses(s) PROVE SoleInv'
  BY <1>18, QuietMove DEF BackoffElapses
<1>19. ASSUME NEW r \in Run, LockExpires(r) PROVE SoleInv'
  BY <1>19, QuietMove DEF LockExpires
<1>20. CASE UNCHANGED vars
  BY <1>20, QuietMove DEF vars
<1> QED
  BY <1>1, <1>2, <1>3, <1>4, <1>5, <1>6, <1>7, <1>8, <1>9, <1>10, <1>11, <1>12,
     <1>13, <1>14, <1>15, <1>16, <1>17, <1>18, <1>19, <1>20
     DEF Next, ProcessStep

(* When every step has one delivery at a time, SoleInv always holds.        *)
LEMMA SoleCorrect == ASSUME OneDelivery PROVE Spec => []SoleInv
<1>1. Init => SoleInv
  <2> SUFFICES ASSUME Init PROVE SoleInv
    OBVIOUS
  <2>1. \A t \in Thread : h[t].pc = "idle"
    BY DEF Init, Idle
  <2>2. Ownership /\ \A t \in Thread : ThreadInv(t)
    BY <2>1 DEF Ownership, ThreadInv, Active, Working, Before, After, Closing
  <2>3. \A s \in Step : StepInv(s)
    BY WorkerAssumption DEF Init, StepInv, Missing, Limit, Terminal
  <2> QED
    BY <2>2, <2>3 DEF SoleInv
<1>2. TypeOK /\ SoleInv /\ [Next]_vars => SoleInv'
  BY SoleStep
<1> QED
  BY <1>1, <1>2, TypeCorrect, PTL DEF Spec
(* When every step has one delivery at a time, every result message of a    *)
(* step carries the stored result.                                          *)
THEOREM ReportsAgree == ASSUME OneDelivery PROVE Spec => []PublishedMatchesResult
<1>1. SoleInv => PublishedMatchesResult
  BY DEF SoleInv, StepInv, PublishedMatchesResult
<1> QED
  BY <1>1, SoleCorrect, PTL

(* When every step has one delivery at a time, a step that waits for its    *)
(* retry is still in the stream.                                            *)
THEOREM RetryNotLost == ASSUME OneDelivery PROVE Spec => []RetryIsScheduled
<1>1. SoleInv => RetryIsScheduled
  BY DEF SoleInv, StepInv, RetryIsScheduled
<1> QED
  BY <1>1, SoleCorrect, PTL

(* When every step has one delivery at a time, crashes and failed calls do  *)
(* not make a connector run more often than its retries allow.              *)
THEOREM ExecutionsWithinLimit == ASSUME OneDelivery PROVE Spec => []ExecutionsBounded
<1>1. SoleInv => ExecutionsBounded
  BY DEF SoleInv, StepInv, ExecutionsBounded
<1> QED
  BY <1>1, SoleCorrect, PTL

(* When every step has one delivery at a time, no two handlers execute it   *)
(* at once, though the run lock gives no mutual exclusion.                  *)
THEOREM SoleExecutor == ASSUME OneDelivery PROVE Spec => []OneExecutor
<1>1. TypeOK /\ SoleInv => OneExecutor
  <2> SUFFICES ASSUME TypeOK, SoleInv,
                      NEW t \in Thread, NEW u \in Thread,
                      h[t].pc \in {"execute", "put_final"},
                      h[u].pc \in {"execute", "put_final"},
                      Of(t) = Of(u)
               PROVE  t = u
    BY DEF OneExecutor
  <2>1. Active(t) /\ Active(u)
    BY DEF Active, Working, After
  <2>2. h[t].msg \in Msg /\ h[u].msg \in Msg
    BY <2>1 DEF TypeOK, Handler, Busy, Idle, Active, Working, Before, After, Closing
  <2> QED
    BY <2>1, <2>2 DEF OneDelivery, Of, SoleInv, Ownership
<1> QED
  BY <1>1, SoleCorrect, TypeCorrect, PTL

(* When every step has one delivery at a time, a step whose result is       *)
(* stored is not executed again.                                            *)
THEOREM NeverReexecuted == ASSUME OneDelivery PROVE Spec => NoReexecution
<1>1. TypeOK /\ SoleInv /\ [Next]_vars =>
        [\A s \in Step : execs'[s] # execs[s] => result[s] = Missing]_vars
  <2> SUFFICES ASSUME TypeOK, SoleInv, Next
               PROVE  \A s \in Step : execs'[s] # execs[s] => result[s] = Missing
    OBVIOUS
  <2>1. \/ UNCHANGED execs
        \/ \E t \in Thread : Execute(t)
    BY DEF Next, ProcessStep, Receive, DropUndecodable, CheckResult, CheckState,
           LockGet, LockPut, PutRunning, PutFinal, PersistResult, PersistLegacy,
           Publish, Ack, Nak, Release, Fault, Crash, AckWaitExpires, DelayElapses,
           BackoffElapses, LockExpires, outside
  <2>2. ASSUME NEW t \in Thread, Execute(t)
        PROVE  \A s \in Step : execs'[s] # execs[s] => result[s] = Missing
    <3>1. ThreadInv(t) /\ h[t].pc = "execute"
      BY <2>2 DEF SoleInv, Execute
    <3>2. result[Of(t)] = Missing
      BY <3>1 DEF ThreadInv
    <3>3. \A s \in Step \ {Of(t)} : execs'[s] = execs[s]
      BY <2>2 DEF Execute, TypeOK
    <3> QED
      BY <3>2, <3>3
  <2> QED
    BY <2>1, <2>2
<1> QED
  BY <1>1, SoleCorrect, TypeCorrect, PTL DEF Spec, NoReexecution
-----------------------------------------------------------------------------
(***************************************************************************)
(* The refinement of StepOutcome.  Its tries, outcomes and reports are the *)
(* workers' execs, result and published.                                   *)
(***************************************************************************)

(* A successful outcome, in a handler or in the step's state, was executed. *)
SuccessInv ==
    /\ \A t \in Thread :
          h[t].pc \in {"put_final", "persist_result"} /\ h[t].final.status = "SUCCEEDED"
          => execs[Of(t)] > 0
    /\ \A s \in Step : steps[s].status = "SUCCEEDED" => execs[s] > 0

(* Four actions touch what SuccessInv is about; of the others, <1>u.        *)
LEMMA SuccessStep == TypeOK /\ SuccessInv /\ [Next]_vars => SuccessInv'
<1> SUFFICES ASSUME TypeOK, SuccessInv, [Next]_vars PROVE SuccessInv'
  OBVIOUS
<1> USE WorkerAssumption DEF TypeOK, buckets, outside
<1>h. \A t \in Thread : h[t].pc # "idle" =>
         h[t] # Idle /\ h[t] \in Busy /\ Of(t) \in Step
  BY DEF Handler, Busy, Idle, Of
<1>u. ASSUME UNCHANGED <<steps, execs>>,
             \A u \in Thread : h'[u] = h[u] \/ h'[u].pc \notin {"put_final", "persist_result"}
      PROVE  SuccessInv'
  BY <1>u DEF SuccessInv, Of
<1>1. ASSUME NEW t \in Thread, CheckState(t) PROVE SuccessInv'
  <2>1. h[t] # Idle /\ Of(t) \in Step
    BY <1>1, <1>h DEF CheckState
  <2>2. /\ h'[t].msg = h[t].msg /\ Others(t)
        /\ \/ h'[t].pc = "persist_result" /\ h'[t].final = steps[Of(t)]
           \/ h'[t].pc \notin {"put_final", "persist_result"}
    <3>1. CASE steps[Of(t)].status \in Terminal
      BY <1>1, <2>1, <3>1, Moves DEF CheckState
    <3>2. CASE steps[Of(t)].status \notin Terminal /\ steps[Of(t)].status = "RUNNING"
      BY <1>1, <2>1, <3>2, Moves DEF CheckState
    <3>3. CASE /\ steps[Of(t)].status \notin Terminal
               /\ steps[Of(t)].status = "FAILED_TRANSIENT" /\ backoff[Of(t)]
      BY <1>1, <2>1, <3>3, Moves DEF CheckState
    <3>4. CASE /\ steps[Of(t)].status \notin Terminal \cup {"RUNNING"}
               /\ ~(steps[Of(t)].status = "FAILED_TRANSIENT" /\ backoff[Of(t)])
      <4>1. h' = [h EXCEPT ![t].pc = "lock_get", ![t].prior = steps[Of(t)].attempt]
        BY <1>1, <3>4 DEF CheckState
      <4>2. h[t] \in Busy
        BY <1>1, <1>h DEF CheckState
      <4> QED
        BY <4>1, <4>2 DEF Busy, Others
    <3> QED
      BY <3>1, <3>2, <3>3, <3>4
  <2>3. UNCHANGED <<steps, execs>>
    BY <1>1 DEF CheckState
  <2> QED
    BY <2>1, <2>2, <2>3 DEF SuccessInv, Of, Others
<1>2. ASSUME NEW t \in Thread, PutRunning(t) PROVE SuccessInv'
  <2>1. h[t] # Idle /\ Of(t) \in Step
    BY <1>2, <1>h DEF PutRunning
  <2>2. /\ h'[t].msg = h[t].msg /\ Others(t)
        /\ h'[t].pc = "put_final" => h'[t].final.status = "FAILED_SAFE"
        /\ h'[t].pc # "persist_result"
    BY <1>2, <2>1, Moves DEF PutRunning
  <2>3. /\ steps'[Of(t)].status = "RUNNING"
        /\ \A s \in Step \ {Of(t)} : steps'[s] = steps[s]
        /\ execs' = execs
    BY <1>2, <2>1 DEF PutRunning
  <2> QED
    BY <2>1, <2>2, <2>3 DEF SuccessInv, Of, Others
<1>3. ASSUME NEW t \in Thread, Execute(t) PROVE SuccessInv'
  <2>1. h[t] # Idle /\ Of(t) \in Step
    BY <1>3, <1>h DEF Execute
  <2>2. h'[t].msg = h[t].msg /\ Others(t)
    BY <1>3, <2>1, Moves DEF Execute
  <2>3. /\ execs'[Of(t)] > 0
        /\ \A s \in Step : execs[s] > 0 => execs'[s] > 0
        /\ steps' = steps
    BY <1>3, <2>1 DEF Execute
  <2> QED
    BY <2>1, <2>2, <2>3, <1>h DEF SuccessInv, Of, Others
<1>4. ASSUME NEW t \in Thread, PutFinal(t) PROVE SuccessInv'
  <2>1. h[t] # Idle /\ Of(t) \in Step
    BY <1>4, <1>h DEF PutFinal
  <2>2. /\ h'[t].msg = h[t].msg /\ h'[t].final = h[t].final /\ Others(t)
    BY <1>4, <2>1, Moves DEF PutFinal
  <2>3. /\ steps'[Of(t)] = h[t].final
        /\ \A s \in Step \ {Of(t)} : steps'[s] = steps[s]
        /\ execs' = execs
    BY <1>4, <2>1 DEF PutFinal
  <2>4. h[t].final.status = "SUCCEEDED" => execs[Of(t)] > 0
    BY <1>4 DEF PutFinal, SuccessInv
  <2> QED
    BY <2>1, <2>2, <2>3, <2>4 DEF SuccessInv, Of, Others
<1>5. ASSUME NEW t \in Thread,
             \/ CheckResult(t) \/ LockGet(t) \/ LockPut(t) \/ PersistResult(t)
             \/ PersistLegacy(t) \/ Publish(t) \/ Ack(t) \/ Nak(t) \/ Release(t)
      PROVE  SuccessInv'
  <2>1. CASE CheckResult(t)
    BY <2>1, <1>h, <1>u, Moves DEF CheckResult, Others
  <2>2. CASE LockGet(t)
    BY <2>2, <1>h, <1>u, Moves DEF LockGet, Others
  <2>3. CASE LockPut(t)
    BY <2>3, <1>h, <1>u DEF LockPut, Busy
  <2>4. CASE PersistResult(t)
    BY <2>4, <1>h, <1>u, Moves DEF PersistResult, Others
  <2>5. CASE PersistLegacy(t)
    BY <2>5, <1>h, <1>u, Moves DEF PersistLegacy, Others
  <2>6. CASE Publish(t)
    BY <2>6, <1>h, <1>u, Moves DEF Publish, Others
  <2>7. CASE Ack(t) \/ Nak(t)
    BY <2>7, <1>h, <1>u, Moves DEF Ack, Nak, Others
  <2>8. CASE Release(t)
    BY <2>8, <1>u DEF Release, Idle
  <2> QED
    BY <1>5, <2>1, <2>2, <2>3, <2>4, <2>5, <2>6, <2>7, <2>8
<1>6. ASSUME NEW t \in Thread, NEW m \in Msg, Receive(t, m) \/ DropUndecodable(t, m)
      PROVE  SuccessInv'
  <2>1. CASE Receive(t, m)
    <3>1. h'[t].pc = "check_result" /\ Others(t)
      BY <2>1 DEF Receive, Idle, Others
    <3> QED
      BY <2>1, <3>1, <1>u DEF Receive, Others
  <2>2. CASE DropUndecodable(t, m)
    BY <2>2, <1>u DEF DropUndecodable
  <2> QED
    BY <1>6, <2>1, <2>2
<1>7. ASSUME NEW t \in Thread, Fault(t) PROVE SuccessInv'
  BY <1>7, <1>h, <1>u, Moves DEF Fault, Others, Idle
<1>8. ASSUME NEW p \in Proc, Crash(p) PROVE SuccessInv'
  BY <1>8, <1>u DEF Crash, Idle
<1>9. ASSUME \/ \E m \in Msg : AckWaitExpires(m) \/ DelayElapses(m)
             \/ \E s \in Step : BackoffElapses(s)
             \/ \E r \in Run : LockExpires(r)
      PROVE  SuccessInv'
  BY <1>9, <1>u DEF AckWaitExpires, DelayElapses, BackoffElapses, LockExpires
<1>10. CASE UNCHANGED vars
  BY <1>10, <1>u DEF vars
<1> QED
  BY <1>1, <1>2, <1>3, <1>4, <1>5, <1>6, <1>7, <1>8, <1>9, <1>10 DEF Next, ProcessStep

LEMMA SuccessCorrect == Spec => []SuccessInv
<1>1. Init => SuccessInv
  BY DEF Init, SuccessInv, Idle, Missing
<1>2. TypeOK /\ SuccessInv /\ [Next]_vars => SuccessInv'
  BY SuccessStep
<1> QED
  BY <1>1, <1>2, TypeCorrect, PTL DEF Spec

(* When every step has one delivery at a time, an invocation of a connector *)
(* is a Try, the storing of a result a Decide, a publication a Report.      *)
LEMMA OutcomeStep ==
    OneDelivery /\ TypeOK /\ SoleInv /\ SuccessInv /\ [Next]_vars
    => [Outcome!Next]_(Outcome!vars)
<1> SUFFICES ASSUME OneDelivery, TypeOK, SoleInv, SuccessInv, [Next]_vars
             PROVE  [Outcome!Next]_(Outcome!vars)
  OBVIOUS
<1> USE WorkerAssumption DEF buckets, outside
<1>h. \A t \in Thread : h[t].pc # "idle" => Of(t) \in Step /\ h[t] \in Busy
  BY DEF TypeOK, Handler, Busy, Idle, Of
<1>1. ASSUME NEW t \in Thread, Execute(t) PROVE Outcome!Try(Of(t)) /\ Of(t) \in Step
  <2>1. Of(t) \in Step /\ h[t] \in Busy
    BY <1>1, <1>h DEF Execute
  <2>2. result[Of(t)] = Missing /\ execs[Of(t)] <= h[t].prior /\ h[t].prior < Limit(Of(t))
    BY <1>1 DEF SoleInv, ThreadInv, Execute
  <2>3. execs[Of(t)] \in Nat /\ h[t].prior \in Nat /\ Limit(Of(t)) \in Nat
    BY <2>1 DEF TypeOK, Busy, Limit
  <2>4. execs[Of(t)] < Limit(Of(t))
    BY <2>2, <2>3
  <2> QED
    BY <1>1, <2>1, <2>2, <2>4 DEF Execute, Outcome!Try
<1>2. ASSUME NEW t \in Thread, PersistResult(t)
      PROVE  UNCHANGED Outcome!vars \/ (Outcome!Decide(Of(t)) /\ Of(t) \in Step)
  <2>1. Of(t) \in Step /\ h[t] \in Busy
    BY <1>2, <1>h DEF PersistResult
  <2>2. h[t].final \in [status : Terminal, attempt : Nat]
    BY <1>2, <2>1 DEF SoleInv, ThreadInv, PersistResult, Busy, StepState
  <2>3. h[t].final.status = "SUCCEEDED" => execs[Of(t)] > 0
    BY <1>2 DEF SuccessInv, PersistResult
  <2>4. CASE result[Of(t)] = Missing
    <3>1. result' = [result EXCEPT ![Of(t)] = h[t].final]
      BY <1>2, <2>4 DEF PersistResult
    <3>2. result'[Of(t)] = h[t].final
      BY <2>1, <3>1 DEF TypeOK
    <3>3. UNCHANGED <<execs, published>>
      BY <1>2 DEF PersistResult
    <3> QED
      BY <2>1, <2>2, <2>3, <2>4, <3>1, <3>2, <3>3 DEF Outcome!Decide
  <2>5. CASE result[Of(t)] # Missing
    <3>1. result' = result
      BY <1>2, <2>1, <2>5 DEF PersistResult, TypeOK
    <3> QED
      BY <1>2, <3>1 DEF PersistResult, Outcome!vars
  <2> QED
    BY <2>4, <2>5
<1>3. ASSUME NEW t \in Thread, Publish(t) PROVE Outcome!Report(Of(t)) /\ Of(t) \in Step
  <2>1. Of(t) \in Step
    BY <1>3, <1>h DEF Publish
  <2>2. result[Of(t)] = h[t].final /\ h[t].final.status \in Terminal
    BY <1>3 DEF SoleInv, ThreadInv, Publish
  <2>3. result[Of(t)] # Missing
    BY <2>2 DEF Terminal, Missing
  <2>4. /\ published' = [published EXCEPT ![Of(t)] = @ \cup {result[Of(t)]}]
        /\ execs' = execs /\ result' = result
    BY <1>3, <2>2 DEF Publish
  <2> QED
    BY <2>1, <2>3, <2>4 DEF Outcome!Report
<1>4. \/ UNCHANGED Outcome!vars
      \/ \E t \in Thread : Execute(t) \/ PersistResult(t) \/ Publish(t)
  <2>1. CASE UNCHANGED vars
    BY <2>1 DEF vars, Outcome!vars
  <2>2. CASE \E t \in Thread, m \in Msg : Receive(t, m) \/ DropUndecodable(t, m)
    BY <2>2 DEF Receive, DropUndecodable, Outcome!vars
  <2>3. ASSUME NEW t \in Thread,
               \/ CheckResult(t) \/ CheckState(t) \/ LockGet(t) \/ LockPut(t)
               \/ PutRunning(t) \/ PutFinal(t) \/ PersistLegacy(t)
               \/ Ack(t) \/ Nak(t) \/ Release(t) \/ Fault(t)
        PROVE  UNCHANGED Outcome!vars
    <3>1. UNCHANGED <<execs, result, published>>
      BY <2>3 DEF CheckResult, CheckState, LockGet, LockPut, PutRunning, PutFinal,
                  PersistLegacy, Ack, Nak, Release, Fault
    <3> QED
      BY <3>1 DEF Outcome!vars
  <2>4. CASE \/ \E p \in Proc : Crash(p)
             \/ \E m \in Msg : AckWaitExpires(m) \/ DelayElapses(m)
             \/ \E s \in Step : BackoffElapses(s)
             \/ \E r \in Run : LockExpires(r)
    BY <2>4 DEF Crash, AckWaitExpires, DelayElapses, BackoffElapses, LockExpires,
                Outcome!vars
  <2> QED
    BY <2>1, <2>2, <2>3, <2>4 DEF Next, ProcessStep
<1> QED
  BY <1>1, <1>2, <1>3, <1>4 DEF Outcome!Next

(* When every step has one delivery at a time, the workers implement        *)
(* StepOutcome, through crashes, failed calls, retries and redelivery.      *)
THEOREM Implements == ASSUME OneDelivery PROVE Spec => OutcomeSpec
<1>1. Init => Outcome!Init
  BY DEF Init, Outcome!Init
<1>2. TypeOK /\ SoleInv /\ SuccessInv /\ [Next]_vars => [Outcome!Next]_(Outcome!vars)
  BY OutcomeStep
<1> QED
  BY <1>1, <1>2, TypeCorrect, SoleCorrect, SuccessCorrect, PTL
     DEF Spec, OutcomeSpec, Outcome!Spec
=============================================================================
