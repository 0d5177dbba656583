-------------------------- MODULE AgentCommandProofs --------------------------
(***************************************************************************)
(* Proofs about the command listener of the agent.  CommandInv is          *)
(* inductive: its part ExecInv says who may execute the command of a key,  *)
(* StoredInv that every reply on its way is the stored one, and CountInv   *)
(* counts executions against restarts and failed files.                    *)
(***************************************************************************)
EXTENDS AgentCommand, FiniteSetTheorems, TLAPS

(* Types.                                                                   *)
LEMMA TypeInit == Init => TypeOK
  BY CommandAssumption
  DEF Init, TypeOK, Idle, Handler, PC, Absent, Entry, FlushIdle, FlushState

(* A handler that goes on keeps its request.                                *)
LEMMA GoesOn ==
    ASSUME NEW x \in Handler, x.pc # "idle", NEW pc \in PC \ {"idle"},
           NEW reply \in Reply \cup {None},
           pc \in {"save", "finish", "publish"} => reply # None
    PROVE  /\ [x EXCEPT !.pc = pc, !.reply = reply] \in Handler
           /\ (pc \in {"save", "finish", "publish"} => x.reply # None)
                 => [x EXCEPT !.pc = pc] \in Handler
  BY CommandAssumption DEF Handler

LEMMA IsWoken ==
    ASSUME NEW x \in Handler
    PROVE  [x EXCEPT !.woken = TRUE] \in Handler
  BY DEF Handler

LEMMA IdleType == Idle \in Handler /\ FlushIdle \in FlushState
  BY DEF Idle, Handler, PC, FlushIdle, FlushState

LEMMA Fresh ==
    ASSUME NEW r \in Request
    PROVE  [Idle EXCEPT !.pc = "load", !.req = r] \in Handler
  BY CommandAssumption DEF Idle, Handler, PC

(* What a handler that is not idle works on.                                *)
LEMMA Busy ==
    ASSUME TypeOK, NEW t \in Sub, h[t].pc # "idle"
    PROVE  /\ h[t] \in Handler /\ h[t].req \in Request /\ Now(t) \in Key
           /\ h[t].reply \in Reply \cup {None}
           /\ h[t].pc \in {"save", "finish", "publish"}
                => h[t].reply \in Reply /\ AnswerOf(t) \in Answer
<1>1. h[t] \in Handler
  BY DEF TypeOK
<1>2. h[t].req \in Request /\ h[t].reply \in Reply \cup {None}
  BY <1>1 DEF Handler
<1>3. Now(t) \in Key
  BY <1>2, CommandAssumption DEF Now
<1>4. h[t].pc \in {"save", "finish", "publish"} => h[t].reply \in Reply
  BY <1>1 DEF Handler
<1> QED
  BY <1>1, <1>2, <1>3, <1>4 DEF AnswerOf, Answer

LEMMA SweptType ==
    ASSUME TypeOK
    PROVE  /\ Swept \in [Key -> Entry] /\ Running \in Entry /\ Absent \in Entry
           /\ \A r \in Reply : Done(r) \in Entry
           /\ \A k \in Key : cache[k] \in Entry
  BY CommandAssumption DEF TypeOK, Swept, Absent, Running, Done, Entry

LEMMA TypeStep == TypeOK /\ [Next]_vars => TypeOK'
<1> SUFFICES ASSUME TypeOK, [Next]_vars PROVE TypeOK'
  OBVIOUS
<1> USE DEF disk, counts
<1>a. /\ h \in [Sub -> Handler] /\ cache \in [Key -> Entry] /\ store \in [Key -> Reply \cup {None}]
      /\ spool \in [Key -> Answer \cup {None}] /\ flush \in FlushState /\ execs \in [Key -> Nat]
      /\ request \in [Request -> {"unsent", "queued", "taken", "done", "lost"}]
      /\ answered \subseteq Answer /\ crashes \in Nat /\ outages \in Nat /\ faults \in Nat
  BY DEF TypeOK
<1>g. ASSUME NEW t \in Sub, h[t].pc # "idle", NEW pc \in PC \ {"idle"},
             pc \in {"save", "finish", "publish"} => h[t].reply # None,
             h' = [h EXCEPT ![t].pc = pc]
      PROVE  h' \in [Sub -> Handler]
  <2>1. h[t] \in Handler /\ h[t].reply \in Reply \cup {None}
    BY <1>a DEF Handler
  <2>2. [h[t] EXCEPT !.pc = pc] \in Handler
    BY <1>g, <2>1, GoesOn
  <2> QED
    BY <1>a, <1>g, <2>2
<1>r. ASSUME NEW t \in Sub, h[t].pc # "idle", NEW pc \in PC \ {"idle"},
             NEW reply \in Reply \cup {None},
             pc \in {"save", "finish", "publish"} => reply # None,
             h' = [h EXCEPT ![t].pc = pc, ![t].reply = reply]
      PROVE  h' \in [Sub -> Handler]
  <2>1. h[t] \in Handler
    BY <1>a
  <2>2. [h[t] EXCEPT !.pc = pc, !.reply = reply] \in Handler
    BY <1>r, <2>1, GoesOn
  <2> QED
    BY <1>a, <1>r, <2>2
<1>i. ASSUME NEW t \in Sub, h' = [h EXCEPT ![t] = Idle] PROVE h' \in [Sub -> Handler]
  BY <1>a, <1>i, IdleType
<1>1. ASSUME NEW r \in Request, Send(r) PROVE TypeOK'
  BY <1>1 DEF Send, TypeOK
<1>2. CASE Disconnect
  <2>a. outages' = outages + 1 /\ conn' = "down"
    BY <1>2 DEF Disconnect
  <2>b. outages' \in Nat
    BY <1>a, <2>a
  <2>1. conn' \in {"up", "down", "closed"}
    BY <2>a
  <2> QED
    BY <1>2, <2>b, <2>1 DEF Disconnect, TypeOK
<1>3. CASE Reconnect
  BY <1>3 DEF Reconnect, TypeOK
<1>4. ASSUME NEW t \in Sub, NEW r \in Request, Receive(t, r) PROVE TypeOK'
  <2>1. h' \in [Sub -> Handler]
    BY <1>4, <1>a, Fresh DEF Receive
  <2> QED
    BY <1>4, <2>1 DEF Receive, TypeOK
<1>5. ASSUME NEW t \in Sub, Load(t) PROVE TypeOK'
  <2>1. h[t].pc = "load" /\ Now(t) \in Key
    BY <1>5, Busy DEF Load
  <2>2. CASE store[Now(t)] = None
    <3>1. h' = [h EXCEPT ![t].pc = "begin", ![t].reply = None]
      BY <1>5, <2>2 DEF Load
    <3>3. "begin" \in PC \ {"idle"} /\ None \in Reply \cup {None}
      BY DEF PC
    <3>2. h' \in [Sub -> Handler]
      BY <1>r, <2>1, <3>1, <3>3
    <3> QED
      BY <1>5, <3>2 DEF Load, TypeOK
  <2>3. CASE store[Now(t)] # None
    <3>1. /\ h' = [h EXCEPT ![t].pc = "finish", ![t].reply = store[Now(t)]]
          /\ store[Now(t)] \in Reply
      BY <1>5, <1>a, <2>1, <2>3 DEF Load
    <3>2. h' \in [Sub -> Handler]
      BY <1>r, <2>1, <2>3, <3>1 DEF PC
    <3> QED
      BY <1>5, <3>2 DEF Load, TypeOK
  <2> QED
    BY <2>2, <2>3
<1>6. ASSUME NEW t \in Sub, LoadFails(t) PROVE TypeOK'
  <2>1. h' \in [Sub -> Handler]
    BY <1>6, <1>g DEF LoadFails, Goto, PC
  <2> QED
    BY <1>6, <2>1 DEF LoadFails, TypeOK
<1>7. ASSUME NEW t \in Sub, Begin(t) PROVE TypeOK'
  <2>1. h[t].pc = "begin" /\ Now(t) \in Key
    BY <1>7, Busy DEF Begin
  <2>2. Swept[Now(t)] \in Entry
    BY <2>1, SweptType
  <2>3. Swept[Now(t)].state = "done" => Swept[Now(t)].reply \in Reply
    BY <2>2 DEF Entry
  <2>4. \/ h' = [h EXCEPT ![t].pc = "execute"]
        \/ h' = [h EXCEPT ![t].pc = "wait"]
        \/ /\ h' = [h EXCEPT ![t].pc = "publish", ![t].reply = Swept[Now(t)].reply]
           /\ Swept[Now(t)].state = "done"
    BY <1>7 DEF Begin, Goto
  <2>5. h' \in [Sub -> Handler]
    <3>1. CASE h' = [h EXCEPT ![t].pc = "execute"]
      BY <1>g, <2>1, <3>1 DEF PC
    <3>3. CASE h' = [h EXCEPT ![t].pc = "wait"]
      BY <1>g, <2>1, <3>3 DEF PC
    <3>2. CASE /\ h' = [h EXCEPT ![t].pc = "publish", ![t].reply = Swept[Now(t)].reply]
               /\ Swept[Now(t)].state = "done"
      <4>1. PICK reply \in Reply : reply = Swept[Now(t)].reply
        BY <2>3, <3>2
      <4>2. h' = [h EXCEPT ![t].pc = "publish", ![t].reply = reply]
        BY <3>2, <4>1
      <4>3. /\ reply \in Reply \cup {None} /\ reply # None
            /\ "publish" \in PC \ {"idle"} /\ h[t].pc # "idle"
        BY <2>1, CommandAssumption DEF PC
      <4> QED
        BY <1>r, <4>2, <4>3
    <3> QED
      BY <2>4, <3>1, <3>2, <3>3
  <2>6. cache' = [Swept EXCEPT ![Now(t)] = Running] \/ cache' = Swept
    BY <1>7 DEF Begin
  <2>7. cache' \in [Key -> Entry]
    BY <2>1, <2>6, SweptType
  <2> QED
    BY <1>7, <2>5, <2>7 DEF Begin, TypeOK
<1>8. ASSUME NEW t \in Sub, Wait(t) PROVE TypeOK'
  <2>1. h[t].pc = "wait" /\ Now(t) \in Key /\ h[t].req \in Request
    BY <1>8, Busy DEF Wait
  <2>2. CASE /\ cache[Now(t)].reply # None
             /\ h' = [h EXCEPT ![t].pc = "publish", ![t].reply = cache[Now(t)].reply]
             /\ UNCHANGED request
    <3>1. cache[Now(t)].reply \in Reply \cup {None}
      BY <2>1, SweptType DEF Entry
    <3>2. h' \in [Sub -> Handler]
      BY <1>r, <2>1, <2>2, <3>1 DEF PC
    <3> QED
      BY <1>8, <2>2, <3>2 DEF Wait, TypeOK
  <2>3. CASE /\ h' = [h EXCEPT ![t] = Idle]
             /\ request' = [request EXCEPT ![h[t].req] = "lost"]
    BY <1>8, <1>i, <2>1, <2>3 DEF Wait, TypeOK
  <2> QED
    BY <1>8, <2>2, <2>3 DEF Wait
<1>9. ASSUME NEW t \in Sub, NEW reply \in Reply, Execute(t, reply) PROVE TypeOK'
  <2>1. h[t].pc = "execute" /\ Now(t) \in Key
    BY <1>9, Busy DEF Execute
  <2>2. h' \in [Sub -> Handler]
    BY <1>9, <1>r, <2>1, CommandAssumption DEF Execute, PC
  <2>3. execs' \in [Key -> Nat]
    BY <1>9, <1>a, <2>1 DEF Execute
  <2> QED
    BY <1>9, <2>2, <2>3 DEF Execute, TypeOK
<1>10. ASSUME NEW t \in Sub, Save(t) PROVE TypeOK'
  <2>1. h[t].pc = "save" /\ Now(t) \in Key /\ h[t].reply \in Reply /\ h[t].reply # None
    BY <1>10, Busy, CommandAssumption DEF Save
  <2>2. h' \in [Sub -> Handler]
    BY <1>10, <1>g, <2>1 DEF Save, Goto, PC
  <2>3. store' \in [Key -> Reply \cup {None}]
    BY <1>10, <1>a, <2>1 DEF Save
  <2> QED
    BY <1>10, <2>2, <2>3 DEF Save, TypeOK
<1>11. ASSUME NEW t \in Sub, SaveFails(t) PROVE TypeOK'
  <2>1. h[t].pc = "save" /\ h[t].reply \in Reply /\ h[t].reply # None
    BY <1>11, Busy, CommandAssumption DEF SaveFails
  <2>2. h' \in [Sub -> Handler]
    BY <1>11, <1>g, <2>1 DEF SaveFails, Goto, PC
  <2> QED
    BY <1>11, <2>2 DEF SaveFails, TypeOK
<1>12. ASSUME NEW t \in Sub, Finish(t) PROVE TypeOK'
  <2>1. h[t].pc = "finish" /\ Now(t) \in Key /\ h[t].reply \in Reply /\ h[t].reply # None
    BY <1>12, Busy, CommandAssumption DEF Finish
  <2>2. cache[Now(t)].reply \in Reply \cup {None}
    BY <2>1, SweptType DEF Entry
  <2>3. \/ cache' = cache
        \/ \E r \in Reply : cache' = [cache EXCEPT ![Now(t)] = Done(r)]
    BY <1>12, <2>1, <2>2 DEF Finish
  <2>4. cache' \in [Key -> Entry]
    BY <1>a, <2>3, SweptType
  <2>5. /\ h[t] \in Handler /\ [h[t] EXCEPT !.pc = "publish"] \in Handler
        /\ \A u \in Sub : h[u] \in Handler /\ [h[u] EXCEPT !.woken = TRUE] \in Handler
    BY <1>a, <2>1, GoesOn, IsWoken DEF PC
  <2>6. h' \in [Sub -> Handler]
    BY <1>12, <2>5 DEF Finish
  <2> QED
    BY <1>12, <2>4, <2>6 DEF Finish, TypeOK
<1>13. ASSUME NEW t \in Sub, Publish(t) \/ Enqueue(t) \/ EnqueueFails(t) PROVE TypeOK'
  <2>1. h[t].pc = "publish" /\ Now(t) \in Key /\ h[t].req \in Request /\ AnswerOf(t) \in Answer
    BY <1>13, Busy DEF Publish, Enqueue, EnqueueFails
  <2>2. h' = [h EXCEPT ![t] = Idle]
    BY <1>13 DEF Publish, Enqueue, EnqueueFails, Served
  <2>3. h' \in [Sub -> Handler]
    BY <1>i, <2>2
  <2>4. request' \in [Request -> {"unsent", "queued", "taken", "done", "lost"}]
    BY <1>13, <1>a, <2>1 DEF Publish, Enqueue, EnqueueFails, Served
  <2>5. answered' \subseteq Answer /\ spool' \in [Key -> Answer \cup {None}]
    BY <1>13, <1>a, <2>1 DEF Publish, Enqueue, EnqueueFails
  <2> QED
    BY <1>13, <2>3, <2>4, <2>5 DEF Publish, Enqueue, EnqueueFails, TypeOK
<1>14. ASSUME NEW k \in Key, FlushRead(k) PROVE TypeOK'
  <2>1. spool[k] \in Answer
    BY <1>14, <1>a DEF FlushRead
  <2> QED
    BY <1>14, <2>1 DEF FlushRead, FlushState, TypeOK
<1>15. CASE FlushPublish
  <2>1. /\ flush.env \in Answer /\ flush' \in FlushState
    BY <1>15, <1>a DEF FlushPublish, FlushState, FlushIdle
  <2>2. answered' \subseteq Answer
    BY <1>15, <1>a, <2>1 DEF FlushPublish
  <2> QED
    BY <1>15, <2>1, <2>2 DEF FlushPublish, TypeOK
<1>16. CASE FlushRemove
  <2>1. spool' \in [Key -> Answer \cup {None}]
    BY <1>16, <1>a DEF FlushRemove
  <2> QED
    BY <1>16, <2>1, IdleType DEF FlushRemove, TypeOK
<1>17. ASSUME NEW k \in Key, Expire(k) PROVE TypeOK'
  <2>1. [cache[k] EXCEPT !.state = "old"] \in Entry
    BY <1>17, SweptType DEF Expire, Entry
  <2>2. cache' \in [Key -> Entry]
    BY <1>17, <1>a, <2>1 DEF Expire
  <2> QED
    BY <1>17, <2>2 DEF Expire, TypeOK
<1>18. CASE Crash
  <2>1. h' \in [Sub -> Handler] /\ cache' \in [Key -> Entry] /\ flush' \in FlushState
    BY <1>18, IdleType, SweptType DEF Crash
  <2>2. request' \in [Request -> {"unsent", "queued", "taken", "done", "lost"}]
    BY <1>18, <1>a DEF Crash
  <2> QED
    BY <1>18, <2>1, <2>2 DEF Crash, TypeOK
<1>19. CASE UNCHANGED vars
  BY <1>19 DEF vars, TypeOK
<1>20. CASE GiveUp
  <2>1. request' \in [Request -> {"unsent", "queued", "taken", "done", "lost"}]
    BY <1>20, <1>a DEF GiveUp
  <2> QED
    BY <1>20, <2>1 DEF GiveUp, TypeOK
<1> QED
  BY <1>1, <1>2, <1>3, <1>4, <1>5, <1>6, <1>7, <1>8, <1>9, <1>10, <1>11, <1>12, <1>13,
     <1>14, <1>15, <1>16, <1>17, <1>18, <1>19, <1>20 DEF Next, HandlerStep

(* Handlers, cache, result files, spool and counters have their types.      *)
THEOREM TypeCorrect == Spec => []TypeOK
  BY TypeInit, TypeStep, PTL DEF Spec

-----------------------------------------------------------------------------
(* Handler t is at one of the points S of a request of key k.               *)
At(t, k, S) == h[t].pc \in S /\ Now(t) = k
Open(k) == cache[k].state \in {"absent", "old"}
Executing == {"execute", "save", "finish"}

(* Until a result is stored, who works on the first one is alone, and its   *)
(* cache entry says so.                                                     *)
Sole(k) ==
    store[k] = None => \A t \in Sub :
        At(t, k, Executing) =>
            /\ cache[k].state = "running"
            /\ \A u \in Sub \ {t} : ~At(u, k, Executing)

(* Once it is, only a failure makes a handler execute again.                *)
Late(k) ==
    store[k] # None => \A t \in Sub :
        /\ At(t, k, {"execute", "save"}) => faults >= 1
        /\ At(t, k, {"begin"}) /\ Open(k) => faults >= 1

(* And only two failures make two handlers do so at a time.                 *)
Twice(k) ==
    \A t \in Sub : \A u \in Sub \ {t} :
        At(t, k, {"execute"}) =>
            /\ At(u, k, {"begin"}) /\ Open(k) => faults >= 2
            /\ At(u, k, {"execute"}) => faults >= 2

ExecInv == \A k \in Key : Sole(k) /\ Late(k) /\ Twice(k)

(* A handler that stays where it is.                                        *)
Same(u) == h'[u].pc = h[u].pc /\ h'[u].req = h[u].req /\ h'[u].reply = h[u].reply

(* Handler t goes from one point to another with its request.               *)
Moves(t, from, to) ==
    /\ h[t].pc = from /\ h'[t].pc = to
    /\ h'[t].req = h[t].req
    /\ \A u \in Sub \ {t} : Same(u)

(* What each step of a handler does to the handlers.                        *)
LEMMA HandlerMoves ==
    ASSUME TypeOK, NEW t \in Sub
    PROVE  /\ Load(t) => \/ store[Now(t)] = None /\ Moves(t, "load", "begin")
                         \/ store[Now(t)] # None /\ Moves(t, "load", "finish")
           /\ LoadFails(t) => Moves(t, "load", "begin")
           /\ Begin(t) => \/ Open(Now(t)) /\ Moves(t, "begin", "execute")
                          \/ ~Open(Now(t)) /\ Moves(t, "begin", "publish")
                          \/ ~Open(Now(t)) /\ Moves(t, "begin", "wait")
           /\ \A reply \in Reply : Execute(t, reply) => Moves(t, "execute", "save")
           /\ Save(t) \/ SaveFails(t) => Moves(t, "save", "finish")
           /\ Finish(t) => Moves(t, "finish", "publish")
<1>1. h \in [Sub -> Handler] /\ \A u \in Sub : h[u] \in Handler
  BY DEF TypeOK
<1>3. Load(t) => \/ store[Now(t)] = None /\ Moves(t, "load", "begin")
                 \/ store[Now(t)] # None /\ Moves(t, "load", "finish")
  BY <1>1 DEF Load, Moves, Same, Handler
<1>4. LoadFails(t) => Moves(t, "load", "begin")
  BY <1>1 DEF LoadFails, Goto, Moves, Same, Handler
<1>5. Begin(t) => \/ Open(Now(t)) /\ Moves(t, "begin", "execute")
                  \/ ~Open(Now(t)) /\ Moves(t, "begin", "publish")
                  \/ ~Open(Now(t)) /\ Moves(t, "begin", "wait")
  <2> SUFFICES ASSUME Begin(t)
               PROVE  \/ Open(Now(t)) /\ Moves(t, "begin", "execute")
                      \/ ~Open(Now(t)) /\ Moves(t, "begin", "publish")
                      \/ ~Open(Now(t)) /\ Moves(t, "begin", "wait")
    OBVIOUS
  <2>1. h[t].pc = "begin" /\ Now(t) \in Key
    BY Busy DEF Begin
  <2>2. /\ Swept[Now(t)].state = "absent" <=> Open(Now(t))
    BY <2>1, CommandAssumption DEF Swept, Open, Absent, TypeOK, Entry
  <2>3. CASE Swept[Now(t)].state = "absent" /\ Goto(t, "execute")
    BY <1>1, <2>1, <2>2, <2>3 DEF Goto, Moves, Same, Handler
  <2>4. CASE /\ Swept[Now(t)].state = "done"
             /\ h' = [h EXCEPT ![t].pc = "publish", ![t].reply = Swept[Now(t)].reply]
    BY <1>1, <2>1, <2>2, <2>4 DEF Moves, Same, Handler
  <2>5. CASE Swept[Now(t)].state = "running" /\ Goto(t, "wait")
    BY <1>1, <2>1, <2>2, <2>5 DEF Goto, Moves, Same, Handler
  <2> QED
    BY <2>3, <2>4, <2>5 DEF Begin
<1>6. ASSUME NEW reply \in Reply, Execute(t, reply) PROVE Moves(t, "execute", "save")
  BY <1>1, <1>6 DEF Execute, Moves, Same, Handler
<1>7. Save(t) \/ SaveFails(t) => Moves(t, "save", "finish")
  BY <1>1 DEF Save, SaveFails, Goto, Moves, Same, Handler
<1>8. ASSUME Finish(t) PROVE Moves(t, "finish", "publish")
  <2>1. \A u \in Sub : Same(u) \/ u = t
    BY <1>1, <1>8 DEF Finish, Same, Handler
  <2>2. h[t].pc = "finish" /\ h'[t].pc = "publish" /\ h'[t].req = h[t].req
    BY <1>1, <1>8 DEF Finish, Handler
  <2> QED
    BY <2>1, <2>2 DEF Moves
<1> QED
  BY <1>3, <1>4, <1>5, <1>6, <1>7, <1>8

-----------------------------------------------------------------------------
Points == {"begin", "execute", "save", "finish"}

(* A step that brings no handler to one of the points the invariant is      *)
(* about, and touches neither cache nor store.                              *)
LEMMA Calm ==
    ASSUME TypeOK, ExecInv, store' = store, cache' = cache,
           faults' \in Nat, faults' >= faults,
           \A u \in Sub : h'[u].pc \in Points => Same(u)
    PROVE  ExecInv'
<1>1. faults \in Nat
  BY DEF TypeOK
<1> SUFFICES ASSUME NEW k \in Key PROVE Sole(k)' /\ Late(k)' /\ Twice(k)'
  BY DEF ExecInv
<1>2. Sole(k) /\ Late(k) /\ Twice(k)
  BY DEF ExecInv
<1>3. \A u \in Sub : \A S \in SUBSET Points : At(u, k, S)' => At(u, k, S)
  BY DEF At, Now, Same
<1>4. Sole(k)'
  BY <1>2, <1>3 DEF Sole, Executing, Points
<1>5. Late(k)'
  BY <1>1, <1>2, <1>3 DEF Late, Open, Points
<1>6. Twice(k)'
  BY <1>1, <1>2, <1>3 DEF Twice, Open, Points
<1> QED
  BY <1>4, <1>5, <1>6

(* Where the handlers of other keys and the other handlers are.             *)
LEMMA Elsewhere ==
    ASSUME NEW t \in Sub, NEW from, NEW to, Moves(t, from, to), NEW k
    PROVE  /\ \A u \in Sub \ {t} : \A S : At(u, k, S)' <=> At(u, k, S)
           /\ \A S : At(t, k, S)' <=> Now(t) = k /\ to \in S
           /\ \A S : At(t, k, S) <=> Now(t) = k /\ from \in S
  BY DEF Moves, Same, At, Now

LEMMA OtherKey ==
    ASSUME NEW t \in Sub, NEW from, NEW to, Moves(t, from, to), NEW k, k # Now(t)
    PROVE  \A u \in Sub : \A S : At(u, k, S)' <=> At(u, k, S)
  BY DEF Moves, Same, At, Now

LEMMA ExecStep == TypeOK /\ TypeOK' /\ ExecInv /\ [Next]_vars => ExecInv'
<1> SUFFICES ASSUME TypeOK, TypeOK', ExecInv, [Next]_vars PROVE ExecInv'
  OBVIOUS
<1> USE DEF disk, counts
<1>a. /\ h \in [Sub -> Handler] /\ cache \in [Key -> Entry] /\ store \in [Key -> Reply \cup {None}]
      /\ faults \in Nat /\ faults' \in Nat
  BY DEF TypeOK
<1>b. \A k \in Key : Sole(k) /\ Late(k) /\ Twice(k)
  BY DEF ExecInv
<1>1. CASE h' = h /\ UNCHANGED <<cache, store, faults>>
  BY <1>1, <1>a, Calm DEF Same
<1>2. ASSUME NEW t \in Sub, NEW r \in Request, Receive(t, r) PROVE ExecInv'
  <2>1. \A u \in Sub : h'[u].pc \in Points => Same(u)
    BY <1>2, <1>a DEF Receive, Points, Same, Idle
  <2> QED
    BY <1>2, <1>a, <2>1, Calm DEF Receive
<1>3. ASSUME NEW t \in Sub, Load(t) PROVE ExecInv'
  <2> SUFFICES ASSUME NEW k \in Key PROVE Sole(k)' /\ Late(k)' /\ Twice(k)'
    BY DEF ExecInv
  <2>1. /\ store' = store /\ cache' = cache /\ faults' = faults
        /\ Sole(k) /\ Late(k) /\ Twice(k)
    BY <1>3, <1>b DEF Load
  <2>2. \/ store[Now(t)] = None /\ Moves(t, "load", "begin")
        \/ store[Now(t)] # None /\ Moves(t, "load", "finish")
    BY <1>3, HandlerMoves
  <2>3. CASE store[Now(t)] = None /\ Moves(t, "load", "begin")
    <3>1. Sole(k)'
      BY <2>1, <2>3, Elsewhere DEF Sole, Executing
    <3>2. Late(k)'
      BY <2>1, <2>3, Elsewhere DEF Late, Open
    <3>3. Twice(k)'
      <4>1. CASE k = Now(t)
        <5>1. Open(k) => \A u \in Sub \ {t} : ~At(u, k, {"execute"})
          BY <2>1, <2>3, <4>1 DEF Sole, Executing, At, Open
        <5> QED
          BY <2>1, <2>3, <4>1, <5>1, Elsewhere DEF Twice, Open
      <4>2. CASE k # Now(t)
        BY <2>1, <2>3, <4>2, Elsewhere DEF Twice, Open
      <4> QED
        BY <4>1, <4>2
    <3> QED
      BY <3>1, <3>2, <3>3
  <2>4. CASE store[Now(t)] # None /\ Moves(t, "load", "finish")
    <3>1. Sole(k)'
      BY <2>1, <2>4, Elsewhere DEF Sole, Executing
    <3>2. Late(k)'
      BY <2>1, <2>4, Elsewhere DEF Late, Open
    <3>3. Twice(k)'
      BY <2>1, <2>4, Elsewhere DEF Twice, Open
    <3> QED
      BY <3>1, <3>2, <3>3
  <2> QED
    BY <2>2, <2>3, <2>4
<1>4. ASSUME NEW t \in Sub, LoadFails(t) PROVE ExecInv'
  <2> SUFFICES ASSUME NEW k \in Key PROVE Sole(k)' /\ Late(k)' /\ Twice(k)'
    BY DEF ExecInv
  <2>1. /\ store' = store /\ cache' = cache /\ faults' = faults + 1
        /\ Sole(k) /\ Late(k) /\ Twice(k) /\ Moves(t, "load", "begin")
    BY <1>4, <1>b, HandlerMoves DEF LoadFails
  <2>2. Sole(k)'
    <3>1. store' = store /\ cache' = cache /\ Sole(k) /\ Moves(t, "load", "begin")
      BY <2>1
    <3> QED
      BY <3>1, Elsewhere DEF Sole, Executing
  <2>3. Late(k)'
    BY <1>a, <2>1 DEF Late
  <2>4. Twice(k)'
    <3>1. ASSUME NEW u \in Sub, At(u, k, {"execute"}) PROVE Open(k) => faults >= 1
      BY <1>a, <2>1, <3>1 DEF Sole, Late, Executing, At, Open
    <3>2. \A u \in Sub : At(u, k, {"execute"})' => At(u, k, {"execute"})
      BY <2>1 DEF Moves, Same, At, Now
    <3>3. ASSUME NEW u \in Sub, NEW v \in Sub \ {u}, At(u, k, {"execute"})'
          PROVE  /\ At(v, k, {"begin"})' /\ Open(k)' => faults' >= 2
                 /\ At(v, k, {"execute"})' => faults' >= 2
      <4>1. Open(k)' <=> Open(k)
        BY <2>1 DEF Open
      <4>2. Open(k) => faults' >= 2
        BY <1>a, <2>1, <3>1, <3>2, <3>3
      <4>3. At(v, k, {"execute"})' => faults' >= 2
        BY <1>a, <2>1, <3>2, <3>3 DEF Twice
      <4> QED
        BY <4>1, <4>2, <4>3
    <3> QED
      BY <3>3 DEF Twice
  <2> QED
    BY <2>2, <2>3, <2>4
<1>5. ASSUME NEW t \in Sub, Begin(t) PROVE ExecInv'
  <2> SUFFICES ASSUME NEW k \in Key PROVE Sole(k)' /\ Late(k)' /\ Twice(k)'
    BY DEF ExecInv
  <2>1. /\ store' = store /\ faults' = faults /\ Now(t) \in Key
        /\ Sole(k) /\ Late(k) /\ Twice(k) /\ h[t].pc = "begin"
    BY <1>5, <1>b, Busy DEF Begin
  <2>2. \/ Open(Now(t)) /\ Moves(t, "begin", "execute")
        \/ ~Open(Now(t)) /\ Moves(t, "begin", "publish")
        \/ ~Open(Now(t)) /\ Moves(t, "begin", "wait")
    BY <1>5, HandlerMoves
  <2>3. CASE Open(Now(t)) /\ Moves(t, "begin", "execute")
    <3>1. cache' = [Swept EXCEPT ![Now(t)] = Running]
      BY <1>5, <1>a, <2>1, <2>3 DEF Begin, Goto, Swept, Open, Moves, Absent
    <3>a. /\ cache'[Now(t)] = Running
          /\ k # Now(t) => cache'[k] = IF cache[k].state = "old" THEN Absent ELSE cache[k]
      BY <2>1, <3>1 DEF Swept
    <3>2. /\ k = Now(t) => cache'[k].state = "running" /\ ~Open(k)'
          /\ k # Now(t) => /\ cache[k].state = "running" => cache'[k].state = "running"
                           /\ Open(k)' => Open(k)
      BY <3>a DEF Running, Open, Absent
    <3>3. Sole(k)'
      <4>1. CASE k = Now(t)
        <5>1. store[k] = None => \A u \in Sub \ {t} : ~At(u, k, Executing)
          BY <2>1, <2>3, <4>1 DEF Sole, Executing, Open
        <5> QED
          BY <2>1, <2>3, <3>2, <4>1, <5>1, Elsewhere DEF Sole, Executing
      <4>2. CASE k # Now(t)
        BY <2>1, <2>3, <3>2, <4>2, OtherKey DEF Sole
      <4> QED
        BY <4>1, <4>2
    <3>4. Late(k)'
      BY <1>a, <2>1, <2>3, <3>2, Elsewhere DEF Late
    <3>5. Twice(k)'
      <4>1. CASE k = Now(t)
        <5>1. \A u \in Sub \ {t} : At(u, k, {"execute"}) => faults >= 2
          BY <2>1, <2>3, <4>1 DEF Twice, At
        <5> QED
          BY <2>1, <2>3, <3>2, <4>1, <5>1, Elsewhere DEF Twice
      <4>2. CASE k # Now(t)
        <5>1. \A u \in Sub : \A S : At(u, k, S)' <=> At(u, k, S)
          BY <2>3, <4>2, OtherKey
        <5> QED
          BY <2>1, <3>2, <4>2, <5>1 DEF Twice
      <4> QED
        BY <4>1, <4>2
    <3> QED
      BY <3>3, <3>4, <3>5
  <2>4. CASE ~Open(Now(t)) /\ (Moves(t, "begin", "publish") \/ Moves(t, "begin", "wait"))
    <3>1. cache' = Swept
      BY <1>5, <2>1, <2>4 DEF Begin, Goto, Swept, Open, Moves, Absent
    <3>2. /\ cache[k].state = "running" => cache'[k].state = "running"
          /\ Open(k)' => Open(k)
      BY <1>a, <2>1, <3>1 DEF Swept, Open, Absent
    <3>3. \A u \in Sub : \A S \in SUBSET Points : At(u, k, S)' => At(u, k, S)
      BY <2>4 DEF Moves, Same, At, Now, Points
    <3>4. Sole(k)'
      BY <2>1, <3>2, <3>3 DEF Sole, Executing, Points
    <3>5. Late(k)'
      BY <1>a, <2>1, <3>2, <3>3 DEF Late, Points
    <3>6. Twice(k)'
      BY <1>a, <2>1, <3>2, <3>3 DEF Twice, Points
    <3> QED
      BY <3>4, <3>5, <3>6
  <2> QED
    BY <2>2, <2>3, <2>4
<1>6. ASSUME NEW t \in Sub, Wait(t) PROVE ExecInv'
  <2>1. \A u \in Sub : h'[u].pc \in Points => Same(u)
    BY <1>6, <1>a DEF Wait, Points, Same, Idle, Handler
  <2> QED
    BY <1>6, <1>a, <2>1, Calm DEF Wait
<1>7. ASSUME NEW t \in Sub, NEW reply \in Reply, Execute(t, reply) PROVE ExecInv'
  <2> SUFFICES ASSUME NEW k \in Key PROVE Sole(k)' /\ Late(k)' /\ Twice(k)'
    BY DEF ExecInv
  <2>1. /\ store' = store /\ cache' = cache /\ faults' = faults
        /\ Sole(k) /\ Late(k) /\ Twice(k) /\ Moves(t, "execute", "save")
    BY <1>7, <1>b, HandlerMoves DEF Execute
  <2>2. Sole(k)'
    BY <2>1, Elsewhere DEF Sole, Executing
  <2>3. Late(k)'
    BY <1>a, <2>1, Elsewhere DEF Late, Open
  <2>4. Twice(k)'
    BY <1>a, <2>1, Elsewhere DEF Twice, Open
  <2> QED
    BY <2>2, <2>3, <2>4
<1>8. ASSUME NEW t \in Sub, Save(t) PROVE ExecInv'
  <2> SUFFICES ASSUME NEW k \in Key PROVE Sole(k)' /\ Late(k)' /\ Twice(k)'
    BY DEF ExecInv
  <2>1. /\ store' = [store EXCEPT ![Now(t)] = h[t].reply] /\ cache' = cache /\ faults' = faults
        /\ Sole(k) /\ Late(k) /\ Twice(k) /\ Moves(t, "save", "finish")
    BY <1>8, <1>b, HandlerMoves DEF Save
  <2>2. h[t].reply \in Reply /\ Now(t) \in Key /\ h[t].pc = "save"
    BY <1>8, Busy DEF Save
  <2>3. store'[Now(t)] # None /\ (k # Now(t) => store'[k] = store[k])
    BY <1>a, <2>1, <2>2, CommandAssumption
  <2>4. Sole(k)'
    BY <2>1, <2>3, Elsewhere DEF Sole, Executing
  <2>5. Late(k)'
    <3>1. CASE k = Now(t)
      <4>1. CASE store[k] = None
        <5>1. cache[k].state = "running" /\ \A u \in Sub \ {t} : ~At(u, k, Executing)
          BY <2>1, <2>2, <3>1, <4>1 DEF Sole, Executing, At
        <5> QED
          <6>1. /\ \A u \in Sub : ~At(u, k, {"execute", "save"})'
                /\ ~Open(k)'
            BY <2>1, <3>1, <5>1 DEF Moves, Same, Now, Open, Executing, At
          <6> QED
            BY <6>1 DEF Late
      <4>2. CASE store[k] # None
        BY <2>1, <4>2, Elsewhere DEF Late, Open
      <4> QED
        BY <4>1, <4>2
    <3>2. CASE k # Now(t)
      BY <2>1, <2>3, <3>2, Elsewhere DEF Late, Open
    <3> QED
      BY <3>1, <3>2
  <2>6. Twice(k)'
    BY <1>a, <2>1, Elsewhere DEF Twice, Open
  <2> QED
    BY <2>4, <2>5, <2>6
<1>9. ASSUME NEW t \in Sub, SaveFails(t) PROVE ExecInv'
  <2> SUFFICES ASSUME NEW k \in Key PROVE Sole(k)' /\ Late(k)' /\ Twice(k)'
    BY DEF ExecInv
  <2>1. /\ store' = store /\ cache' = cache /\ faults' = faults + 1
        /\ Sole(k) /\ Late(k) /\ Twice(k) /\ Moves(t, "save", "finish")
    BY <1>9, <1>b, HandlerMoves DEF SaveFails
  <2>2. Sole(k)'
    <3>1. store' = store /\ cache' = cache /\ Sole(k) /\ Moves(t, "save", "finish")
      BY <2>1
    <3> QED
      BY <3>1, Elsewhere DEF Sole, Executing
  <2>3. Late(k)'
    BY <1>a, <2>1 DEF Late
  <2>4. Twice(k)'
    BY <1>a, <2>1, Elsewhere DEF Twice, Open
  <2> QED
    BY <2>2, <2>3, <2>4
<1>10. ASSUME NEW t \in Sub, Finish(t) PROVE ExecInv'
  <2> SUFFICES ASSUME NEW k \in Key PROVE Sole(k)' /\ Late(k)' /\ Twice(k)'
    BY DEF ExecInv
  <2>1. /\ store' = store /\ faults' = faults /\ h[t].pc = "finish" /\ Now(t) \in Key
        /\ Sole(k) /\ Late(k) /\ Twice(k) /\ Moves(t, "finish", "publish")
    BY <1>10, <1>b, HandlerMoves, Busy DEF Finish
  <2>2. /\ k # Now(t) => cache'[k] = cache[k]
        /\ Open(k)' => Open(k)
    BY <1>10, <1>a, <2>1 DEF Finish, Open, Done
  <2>3. Sole(k)'
    <3>1. CASE k = Now(t)
      <4>1. store[k] = None => \A u \in Sub \ {t} : ~At(u, k, Executing)
        BY <2>1, <3>1 DEF Sole, Executing, At
      <4> QED
        BY <2>1, <3>1, <4>1, Elsewhere DEF Sole, Executing
    <3>2. CASE k # Now(t)
      BY <2>1, <2>2, <3>2, Elsewhere DEF Sole
    <3> QED
      BY <3>1, <3>2
  <2>4. Late(k)'
    BY <1>a, <2>1, <2>2, Elsewhere DEF Late
  <2>5. Twice(k)'
    BY <1>a, <2>1, <2>2, Elsewhere DEF Twice
  <2> QED
    BY <2>3, <2>4, <2>5
<1>11. ASSUME NEW t \in Sub, Publish(t) \/ Enqueue(t) \/ EnqueueFails(t) PROVE ExecInv'
  <2>1. /\ h' = [h EXCEPT ![t] = Idle] /\ UNCHANGED <<cache, store>> /\ faults' >= faults
    BY <1>11, <1>a DEF Publish, Enqueue, EnqueueFails, Served
  <2>2. \A u \in Sub : h'[u].pc \in Points => Same(u)
    BY <1>a, <2>1 DEF Points, Same, Idle
  <2> QED
    BY <1>a, <2>1, <2>2, Calm
<1>12. ASSUME NEW c \in Key, Expire(c) PROVE ExecInv'
  <2> SUFFICES ASSUME NEW k \in Key PROVE Sole(k)' /\ Late(k)' /\ Twice(k)'
    BY DEF ExecInv
  <2>1. /\ h' = h /\ store' = store /\ faults' = faults /\ cache[c].state = "done"
        /\ \A u \in Sub : ~At(u, c, {"begin"})
        /\ Sole(k) /\ Late(k) /\ Twice(k)
    BY <1>12, <1>b DEF Expire, At
  <2>2. /\ k # c => cache'[k] = cache[k]
    BY <1>12, <1>a DEF Expire
  <2>3. \A u \in Sub : \A S : At(u, k, S)' <=> At(u, k, S)
    BY <2>1 DEF At, Now
  <2>4. Sole(k)'
    BY <2>1, <2>2, <2>3 DEF Sole
  <2>5. Late(k)'
    BY <2>1, <2>2, <2>3 DEF Late, Open
  <2>6. Twice(k)'
    BY <2>1, <2>2, <2>3 DEF Twice, Open
  <2> QED
    BY <2>4, <2>5, <2>6
<1>13. CASE Crash
  <2>1. \A u \in Sub : h'[u].pc \notin Points
    BY <1>13 DEF Crash, Idle, Points
  <2> QED
    BY <2>1 DEF ExecInv, Sole, Late, Twice, At, Executing, Points
<1> QED
  <2>1. ASSUME NEW r \in Request, Send(r) PROVE h' = h /\ UNCHANGED <<cache, store, faults>>
    BY <2>1 DEF Send
  <2>2. ASSUME NEW k \in Key, FlushRead(k) PROVE h' = h /\ UNCHANGED <<cache, store, faults>>
    BY <2>2 DEF FlushRead
  <2>3. FlushPublish \/ FlushRemove => h' = h /\ UNCHANGED <<cache, store, faults>>
    BY DEF FlushPublish, FlushRemove
  <2>4. Disconnect \/ Reconnect \/ GiveUp \/ UNCHANGED vars =>
         h' = h /\ UNCHANGED <<cache, store, faults>>
    BY DEF Disconnect, Reconnect, GiveUp, vars
  <2> QED
    BY <1>1, <1>2, <1>3, <1>4, <1>5, <1>6, <1>7, <1>8, <1>9, <1>10, <1>11, <1>12, <1>13,
       <2>1, <2>2, <2>3, <2>4 DEF Next, HandlerStep

-----------------------------------------------------------------------------
(* The answer a is what the result files s say of its key.                  *)
Stored(s, a) == s[KeyOf[a.req]] = a.reply

(* While no file fails, every reply on its way is the stored one.           *)
StoredInv ==
    faults = 0 =>
        /\ \A t \in Sub : h[t].pc \in {"finish", "publish"} => Stored(store, AnswerOf(t))
        /\ \A k \in Key : cache[k].reply # None => store[k] = cache[k].reply
        /\ \A k \in Key : spool[k] # None => Stored(store, spool[k])
        /\ flush.pc # "idle" => Stored(store, flush.env)
        /\ \A a \in answered : Stored(store, a)

(* Which step changes the result files, the spool, the flush goroutine and  *)
(* the replies that reached the server, and how.                            *)
LEMMA StoreChanges ==
    ASSUME [Next]_vars
    PROVE  (\E t \in Sub : Save(t)) \/ store' = store
  BY DEF disk, counts, Next, HandlerStep, vars, Send, Receive, Load, LoadFails, Begin, Wait,
         Execute, SaveFails, Finish, Publish, Enqueue, EnqueueFails, FlushRead, FlushPublish,
         FlushRemove, Expire, Disconnect, Reconnect, GiveUp, Crash

LEMMA SpoolChanges ==
    ASSUME TypeOK, [Next]_vars, NEW k \in Key
    PROVE  \/ spool'[k] = spool[k]
           \/ spool'[k] = None
           \/ \E t \in Sub : h[t].pc = "publish" /\ spool'[k] = AnswerOf(t)
  BY DEF TypeOK, disk, counts, Next, HandlerStep, vars, Send, Receive, Load, LoadFails, Begin, Wait,
         Execute, Save, SaveFails, Finish, Publish, Enqueue, EnqueueFails, FlushRead,
         FlushPublish, FlushRemove, Expire, Disconnect, Reconnect, GiveUp, Crash

LEMMA FlushChanges ==
    ASSUME TypeOK, [Next]_vars
    PROVE  \/ flush'.pc = "idle"
           \/ flush.pc # "idle" /\ flush'.env = flush.env
           \/ \E k \in Key : spool[k] # None /\ flush'.env = spool[k]
<1>1. FlushIdle.pc = "idle"
  BY DEF FlushIdle
<1>2. flush' = flush \/ flush' = FlushIdle \/ FlushPublish \/ \E k \in Key : FlushRead(k)
  BY DEF disk, counts, Next, HandlerStep, vars, Send, Receive, Load, LoadFails, Begin, Wait,
         Execute, Save, SaveFails, Finish, Publish, Enqueue, EnqueueFails, FlushRemove,
         Expire, Disconnect, Reconnect, GiveUp, Crash
<1>3. CASE FlushPublish
  <2>1. flush.pc # "idle" /\ flush \in FlushState
    BY <1>3 DEF FlushPublish, TypeOK
  <2>2. flush \in [pc : {"publish", "remove"}, key : Key, env : Answer]
    BY <1>1, <2>1 DEF FlushState
  <2> QED
    BY <1>1, <1>3, <2>1, <2>2 DEF FlushPublish
<1>4. ASSUME NEW k \in Key, FlushRead(k) PROVE spool[k] # None /\ flush'.env = spool[k]
  BY <1>4 DEF FlushRead
<1> QED
  BY <1>1, <1>2, <1>3, <1>4

LEMMA AnsweredChanges ==
    ASSUME [Next]_vars, NEW a \in answered'
    PROVE  \/ a \in answered
           \/ flush.pc # "idle" /\ a = flush.env
           \/ \E t \in Sub : h[t].pc = "publish" /\ a = AnswerOf(t)
  BY DEF disk, counts, Next, HandlerStep, vars, Send, Receive, Load, LoadFails, Begin, Wait,
         Execute, Save, SaveFails, Finish, Publish, Enqueue, EnqueueFails, FlushRead,
         FlushPublish, FlushRemove, Expire, Disconnect, Reconnect, GiveUp, Crash

LEMMA FaultsChange ==
    ASSUME [Next]_vars
    PROVE  faults' = faults \/ faults' = faults + 1
  BY DEF disk, counts, Next, HandlerStep, vars, Send, Receive, Load, LoadFails, Begin, Wait,
         Execute, Save, SaveFails, Finish, Publish, Enqueue, EnqueueFails, FlushRead,
         FlushPublish, FlushRemove, Expire, Disconnect, Reconnect, GiveUp, Crash

(* No result is ever replaced by another one.                               *)
LEMMA StoreKept ==
    ASSUME TypeOK, ExecInv, [Next]_vars, faults = 0
    PROVE  /\ \A k \in Key : store[k] # None => store'[k] = store[k]
           /\ \A a \in Answer : Stored(store, a) => Stored(store', a)
<1>1. ASSUME NEW t \in Sub, Save(t)
      PROVE  \A k \in Key : store[k] # None => store'[k] = store[k]
  <2>1. h[t].pc = "save" /\ Now(t) \in Key /\ store' = [store EXCEPT ![Now(t)] = h[t].reply]
    BY <1>1, Busy DEF Save
  <2>2. store[Now(t)] = None
    BY <2>1 DEF ExecInv, Late, At
  <2> QED
    BY <2>1, <2>2 DEF TypeOK
<1>2. \A k \in Key : store[k] # None => store'[k] = store[k]
  BY <1>1, StoreChanges
<1>3. \A a \in Answer : KeyOf[a.req] \in Key /\ a.reply # None
  BY CommandAssumption DEF Answer
<1> QED
  BY <1>2, <1>3 DEF Stored

(* Where a handler that is to finish or to publish has its reply from.      *)
LEMMA HandlerReply ==
    ASSUME TypeOK, [Next]_vars, faults' = faults, NEW u \in Sub, h'[u].pc \in {"finish", "publish"}
    PROVE  /\ h[u].pc # "idle" /\ h'[u].req = h[u].req
           /\ \/ h[u].pc \in {"finish", "publish"} /\ h'[u].reply = h[u].reply
              \/ /\ h'[u].reply # None
                 /\ h'[u].reply \in {store[Now(u)], cache[Now(u)].reply}
              \/ Save(u) /\ h'[u].reply = h[u].reply
<1> DEFINE Kept == h[u].pc \in {"finish", "publish"} /\ h'[u].reply = h[u].reply
           Found == /\ h'[u].reply # None
                    /\ h'[u].reply \in {store[Now(u)], cache[Now(u)].reply}
           Saved == Save(u) /\ h'[u].reply = h[u].reply
           Goal == h[u].pc # "idle" /\ h'[u].req = h[u].req /\ (Kept \/ Found \/ Saved)
<1>a. h \in [Sub -> Handler] /\ \A t \in Sub : h[t] \in Handler
  BY DEF TypeOK
<1>b. faults \in Nat
  BY DEF TypeOK
<1>1. CASE Same(u)
  BY <1>1 DEF Same
<1>2. ASSUME NEW t \in Sub, h' = [h EXCEPT ![t] = Idle] PROVE Same(u)
  BY <1>2, <1>a DEF Idle, Same
<1>3. ASSUME NEW t \in Sub, NEW r \in Request, Receive(t, r) PROVE Same(u)
  BY <1>3, <1>a DEF Receive, Idle, Same
<1>4. ASSUME NEW t \in Sub, Load(t) PROVE Goal
  <2>1. CASE t = u
    BY <1>4, <1>a, <2>1 DEF Load, Handler
  <2>2. CASE t # u
    BY <1>1, <1>4, <1>a, <2>2 DEF Load, Same
  <2> QED
    BY <2>1, <2>2
<1>5. ASSUME NEW t \in Sub, Begin(t) PROVE Goal
  <2>1. CASE t # u
    <3>1. Same(u)
      BY <1>5, <1>a, <2>1 DEF Begin, Goto, Same
    <3> QED
      BY <1>1, <3>1
  <2>2. CASE t = u
    <3>1. Now(u) \in Key /\ h[u].pc = "begin"
      BY <1>5, <2>2, Busy DEF Begin
    <3>2. /\ h' = [h EXCEPT ![u].pc = "publish", ![u].reply = Swept[Now(u)].reply]
          /\ Swept[Now(u)].state = "done"
      BY <1>5, <1>a, <2>2 DEF Begin, Goto, Handler
    <3>3. Swept[Now(u)] = cache[Now(u)] /\ cache[Now(u)].state = "done"
      BY <3>1, <3>2 DEF Swept, Absent
    <3>4. cache[Now(u)].reply # None
      BY <3>1, <3>3 DEF TypeOK, Entry
    <3> QED
      BY <1>a, <3>1, <3>2, <3>3, <3>4 DEF Handler
  <2> QED
    BY <2>1, <2>2
<1>6. ASSUME NEW t \in Sub, Wait(t) PROVE Goal
  <2>1. CASE h' = [h EXCEPT ![t] = Idle]
    BY <1>1, <1>2, <2>1
  <2>2. CASE /\ cache[Now(t)].reply # None
             /\ h' = [h EXCEPT ![t].pc = "publish", ![t].reply = cache[Now(t)].reply]
    <3>1. CASE t = u
      BY <1>6, <1>a, <2>2, <3>1 DEF Wait, Handler
    <3>2. CASE t # u
      BY <1>1, <1>a, <2>2, <3>2 DEF Same
    <3> QED
      BY <3>1, <3>2
  <2> QED
    BY <1>6, <2>1, <2>2 DEF Wait
<1>7. ASSUME NEW t \in Sub, NEW reply \in Reply, Execute(t, reply) PROVE Same(u)
  <2>1. Moves(t, "execute", "save")
    BY <1>7, HandlerMoves
  <2> QED
    BY <2>1 DEF Moves
<1>8. ASSUME NEW t \in Sub, Save(t) PROVE Goal
  <2>1. CASE t = u
    BY <1>8, <1>a, <2>1 DEF Save, Goto, Handler
  <2>2. CASE t # u
    BY <1>1, <1>8, <1>a, <2>2 DEF Save, Goto, Same
  <2> QED
    BY <2>1, <2>2
<1>9. ASSUME NEW t \in Sub, Finish(t) PROVE Goal
  <2>1. CASE t = u
    BY <1>9, <1>a, <2>1 DEF Finish, Handler
  <2>2. CASE t # u
    <3>1. Moves(t, "finish", "publish")
      BY <1>9, HandlerMoves
    <3> QED
      BY <1>1, <2>2, <3>1 DEF Moves
  <2> QED
    BY <2>1, <2>2
<1>10. ASSUME NEW t \in Sub, Publish(t) \/ Enqueue(t) \/ EnqueueFails(t) PROVE Same(u)
  BY <1>2, <1>10 DEF Publish, Enqueue, EnqueueFails, Served
<1>11. ASSUME NEW t \in Sub PROVE ~(LoadFails(t) \/ SaveFails(t))
  BY <1>b DEF LoadFails, SaveFails
<1>12. ASSUME Crash PROVE Goal
  BY <1>12 DEF Crash, Idle
<1>13. ASSUME h' = h PROVE Same(u)
  BY <1>13 DEF Same
<1> QED
  <2>1. ASSUME NEW r \in Request, Send(r) PROVE h' = h
    BY <2>1 DEF Send
  <2>2. ASSUME NEW k \in Key, FlushRead(k) \/ Expire(k) PROVE h' = h
    BY <2>2 DEF FlushRead, Expire
  <2>3. FlushPublish \/ FlushRemove \/ Disconnect \/ Reconnect \/ GiveUp \/ UNCHANGED vars => h' = h
    BY DEF FlushPublish, FlushRemove, Disconnect, Reconnect, GiveUp, vars
  <2>4. Same(u) => Goal
    BY <1>1
  <2> HIDE DEF Goal
  <2>5. Goal
    BY <1>3, <1>4, <1>5, <1>6, <1>7, <1>8, <1>9, <1>10, <1>11, <1>12, <1>13, <2>1, <2>2, <2>3, <2>4
       DEF Next, HandlerStep
  <2> QED
    BY <2>5 DEF Goal

(* And a cache entry.                                                       *)
LEMMA CacheReply ==
    ASSUME TypeOK, [Next]_vars, NEW k \in Key, cache'[k].reply # None
    PROVE  \/ cache'[k].reply = cache[k].reply
           \/ \E t \in Sub : At(t, k, {"finish"}) /\ cache'[k].reply = h[t].reply
<1>a. cache \in [Key -> Entry] /\ cache[k] \in Entry
  BY DEF TypeOK
<1>1. ASSUME NEW t \in Sub, Begin(t) PROVE cache'[k].reply = cache[k].reply
  <2>1. Now(t) \in Key
    BY <1>1, Busy DEF Begin
  <2>2. cache' = [Swept EXCEPT ![Now(t)] = Running] \/ cache' = Swept
    BY <1>1 DEF Begin
  <2>3. cache'[k] = Running \/ cache'[k] = Swept[k]
    BY <2>1, <2>2 DEF Swept
  <2> QED
    BY <2>3 DEF Swept, Running, Absent
<1>2. ASSUME NEW t \in Sub, Finish(t)
      PROVE  \/ cache'[k].reply = cache[k].reply
             \/ At(t, k, {"finish"}) /\ cache'[k].reply = h[t].reply
  <2>1. Now(t) \in Key
    BY <1>2, Busy DEF Finish
  <2>2. CASE k = Now(t)
    BY <1>2, <1>a, <2>1, <2>2 DEF Finish, Done, At
  <2>3. CASE k # Now(t)
    BY <1>2, <1>a, <2>1, <2>3 DEF Finish
  <2> QED
    BY <2>2, <2>3
<1>3. ASSUME NEW c \in Key, Expire(c) PROVE cache'[k].reply = cache[k].reply
  BY <1>3, <1>a DEF Expire, Entry
<1>4. CASE Crash
  BY <1>4 DEF Crash, Absent
<1> QED
  <2>1. \/ cache' = cache \/ Crash
        \/ \E t \in Sub : Begin(t) \/ Finish(t)
        \/ \E c \in Key : Expire(c)
    BY DEF disk, counts, Next, HandlerStep, vars, Send, Receive, Load, LoadFails, Wait, Execute,
           Save, SaveFails, Publish, Enqueue, EnqueueFails, FlushRead, FlushPublish, FlushRemove,
           Disconnect, Reconnect, GiveUp
  <2> QED
    BY <1>1, <1>2, <1>3, <1>4, <2>1

LEMMA StoredStep == TypeOK /\ TypeOK' /\ ExecInv /\ StoredInv /\ [Next]_vars => StoredInv'
<1> SUFFICES ASSUME TypeOK, TypeOK', ExecInv, StoredInv, [Next]_vars, faults' = 0 PROVE StoredInv'
  BY DEF StoredInv
<1> USE DEF disk, counts
<1>a. /\ h \in [Sub -> Handler] /\ cache \in [Key -> Entry] /\ store \in [Key -> Reply \cup {None}]
      /\ spool \in [Key -> Answer \cup {None}] /\ flush \in FlushState /\ answered \subseteq Answer
      /\ faults \in Nat /\ faults' \in Nat
  BY DEF TypeOK
<1>b. faults = 0
  BY <1>a, FaultsChange
<1>c. /\ \A t \in Sub : h[t].pc \in {"finish", "publish"} => Stored(store, AnswerOf(t))
      /\ \A k \in Key : cache[k].reply # None => store[k] = cache[k].reply
      /\ \A k \in Key : spool[k] # None => Stored(store, spool[k])
      /\ flush.pc # "idle" => Stored(store, flush.env)
      /\ \A a \in answered : Stored(store, a)
  BY <1>b DEF StoredInv
<1>d. /\ \A k \in Key : store[k] # None => store'[k] = store[k]
      /\ \A a \in Answer : Stored(store, a) => Stored(store', a)
  BY <1>b, StoreKept
<1>e. ASSUME NEW t \in Sub, h[t].pc \in {"finish", "publish"}
      PROVE  /\ AnswerOf(t) \in Answer /\ h[t].reply \in Reply /\ Now(t) \in Key
             /\ Stored(store', AnswerOf(t))
             /\ store[Now(t)] = h[t].reply /\ store'[Now(t)] = h[t].reply
  <2>1. /\ AnswerOf(t) \in Answer /\ h[t].reply \in Reply /\ Now(t) \in Key
        /\ Stored(store, AnswerOf(t))
    BY <1>c, <1>e, Busy
  <2>2. Stored(store', AnswerOf(t))
    BY <1>d, <2>1
  <2> QED
    BY <2>1, <2>2 DEF Stored, AnswerOf, Now
<1>f. flush.pc # "idle" => Stored(store', flush.env)
  <2>1. flush.pc # "idle" => flush.env \in Answer
    BY <1>a DEF FlushState, FlushIdle
  <2> QED
    BY <1>c, <1>d, <2>1
<1>g. /\ \A a \in answered : Stored(store', a)
      /\ \A k \in Key : spool[k] # None => Stored(store', spool[k])
  BY <1>a, <1>c, <1>d
<1>1. \A k \in Key : spool'[k] # None => Stored(store', spool'[k])
  BY <1>e, <1>g, SpoolChanges
<1>2. flush'.pc # "idle" => Stored(store', flush'.env)
  BY <1>f, <1>g, FlushChanges
<1>3. \A a \in answered' : Stored(store', a)
  BY <1>e, <1>f, <1>g, AnsweredChanges
(* The handlers and the cache. *)
<1>4. ASSUME NEW t \in Sub, h'[t].pc \in {"finish", "publish"}
      PROVE  Stored(store', AnswerOf(t)')
  <2>1. h[t].pc # "idle" /\ h'[t].req = h[t].req /\ Now(t) \in Key
    BY <1>4, <1>b, Busy, HandlerReply
  <2>2. store'[Now(t)] = h'[t].reply
    <3>1. CASE h[t].pc \in {"finish", "publish"} /\ h'[t].reply = h[t].reply
      BY <1>e, <3>1
    <3>2. CASE h'[t].reply # None /\ h'[t].reply \in {store[Now(t)], cache[Now(t)].reply}
      BY <1>c, <1>d, <2>1, <3>2
    <3>3. CASE Save(t) /\ h'[t].reply = h[t].reply
      BY <1>a, <2>1, <3>3 DEF Save
    <3> QED
      BY <1>4, <1>b, <3>1, <3>2, <3>3, HandlerReply
  <2> QED
    BY <2>1, <2>2 DEF Stored, AnswerOf, Now
<1>5. ASSUME NEW k \in Key, cache'[k].reply # None PROVE store'[k] = cache'[k].reply
  BY <1>5, <1>c, <1>d, <1>e, CacheReply DEF At
<1> QED
  BY <1>1, <1>2, <1>3, <1>4, <1>5 DEF StoredInv

-----------------------------------------------------------------------------
(* The executions of the command of k, those under way included.            *)
Executors(k) == {t \in Sub : At(t, k, {"execute"})}
Started(k) == execs[k] + Cardinality(Executors(k))
Free(k) == Started(k) <= crashes + faults

(* A key has one execution and one for each restart and failure; the one is *)
(* still to be had where a handler may begin, and so is one of the others   *)
(* where a result has been lost.                                            *)
Count(k) ==
    /\ Started(k) <= 1 + crashes + faults
    /\ Open(k) /\ (\E t \in Sub : At(t, k, {"begin"})) => Free(k)
    /\ store[k] = None /\ cache[k].state # "running" => Free(k)
    /\ store[k] = None /\ (\E t \in Sub : At(t, k, {"finish"})) => Free(k)

CountInv == \A k \in Key : Count(k)

LEMMA StartedType ==
    ASSUME TypeOK, NEW k \in Key
    PROVE  /\ IsFiniteSet(Executors(k)) /\ Cardinality(Executors(k)) \in Nat
           /\ execs[k] \in Nat /\ Started(k) \in Nat
           /\ crashes \in Nat /\ faults \in Nat
<1>1. IsFiniteSet(Executors(k))
  BY CommandAssumption, FS_Subset DEF Executors
<1>2. Cardinality(Executors(k)) \in Nat
  BY <1>1, FS_CardinalityType
<1>3. execs[k] \in Nat /\ crashes \in Nat /\ faults \in Nat
  BY DEF TypeOK
<1> QED
  BY <1>1, <1>2, <1>3 DEF Started

(* The number of restarts and failures only grows.                          *)
LEMMA Room ==
    ASSUME TypeOK, TypeOK', crashes' + faults' >= crashes + faults, NEW s \in Nat
    PROVE  /\ s <= crashes + faults => s <= crashes' + faults'
           /\ s <= 1 + crashes + faults => s <= 1 + crashes' + faults'
<1>1. crashes \in Nat /\ faults \in Nat /\ crashes' \in Nat /\ faults' \in Nat
  BY DEF TypeOK
<1>2. \A a, b, c, d \in Nat :
        c + d >= a + b => /\ s <= a + b => s <= c + d
                          /\ s <= 1 + a + b => s <= 1 + c + d
  OBVIOUS
<1> QED
  BY <1>1, <1>2

(* A step that starts nothing, brings no handler to a point the invariant   *)
(* is about and touches neither cache nor store.                            *)
LEMMA CalmCount ==
    ASSUME TypeOK, TypeOK', NEW k \in Key, Count(k), Started(k)' = Started(k),
           crashes' + faults' >= crashes + faults,
           store'[k] = store[k], cache'[k] = cache[k],
           \A t \in Sub : At(t, k, {"begin"})' => At(t, k, {"begin"}),
           \A t \in Sub : At(t, k, {"finish"})' => At(t, k, {"finish"})
    PROVE  Count(k)'
<1>1. Started(k) \in Nat
  BY StartedType
<1>2. Free(k) => Free(k)'
  BY <1>1, Room DEF Free
<1>3. Started(k) <= 1 + crashes + faults
  BY DEF Count
<1>5. Started(k)' <= 1 + crashes' + faults'
  BY <1>1, <1>3, Room
<1>4. Open(k)' <=> Open(k)
  BY DEF Open
<1> QED
  BY <1>2, <1>4, <1>5 DEF Count

(* A restart and a failure allow for one more execution.                    *)
LEMMA Relief ==
    ASSUME TypeOK, TypeOK', NEW k \in Key, Count(k), Started(k)' \in Nat, Started(k)' <= Started(k),
           crashes' + faults' = crashes + faults + 1
    PROVE  Count(k)'
<1>1. crashes \in Nat /\ faults \in Nat /\ crashes' \in Nat /\ faults' \in Nat
  BY DEF TypeOK
<1>2. Started(k) \in Nat
  BY StartedType
<1>3. Started(k) <= 1 + crashes + faults
  BY DEF Count
<1>a. \A s, t, a, b, c, d \in Nat :
        t <= s /\ s <= 1 + a + b /\ c + d = a + b + 1 => t <= c + d /\ t <= 1 + c + d
  OBVIOUS
<1>4. Started(k)' <= crashes' + faults' /\ Started(k)' <= 1 + crashes' + faults'
  BY <1>1, <1>2, <1>3, <1>a
<1> QED
  BY <1>4 DEF Count, Free

(* Executions start and end one at a time.                                  *)
LEMMA StartedSame ==
    ASSUME NEW k \in Key, execs' = execs,
           \A u \in Sub : At(u, k, {"execute"})' <=> At(u, k, {"execute"})
    PROVE  Started(k)' = Started(k)
<1>1. Executors(k)' = Executors(k)
  BY DEF Executors
<1> QED
  BY <1>1 DEF Started

LEMMA OneMore ==
    ASSUME TypeOK, NEW t \in Sub, Moves(t, "begin", "execute"), NEW k \in Key, Now(t) = k,
           execs' = execs
    PROVE  Started(k)' = Started(k) + 1
<1>1. t \notin Executors(k)
  BY DEF Executors, At, Moves
<1>2. Executors(k)' = Executors(k) \cup {t}
  BY Elsewhere DEF Executors
<1>3. Cardinality(Executors(k)') = Cardinality(Executors(k)) + 1
  BY <1>1, <1>2, StartedType, FS_AddElement
<1> QED
  BY <1>3, StartedType DEF Started

LEMMA OneDone ==
    ASSUME TypeOK, NEW t \in Sub, Moves(t, "execute", "save"), NEW k \in Key, Now(t) = k,
           execs' = [execs EXCEPT ![k] = @ + 1]
    PROVE  Started(k)' = Started(k)
<1>1. t \in Executors(k)
  BY DEF Executors, At, Moves
<1>2. Executors(k)' = Executors(k) \ {t}
  BY Elsewhere DEF Executors
<1>3. Cardinality(Executors(k)') = Cardinality(Executors(k)) - 1
  BY <1>1, <1>2, StartedType, FS_RemoveElement
<1>4. execs'[k] = execs[k] + 1
  BY DEF TypeOK
<1> QED
  BY <1>3, <1>4, StartedType DEF Started

-----------------------------------------------------------------------------
(* A step that leaves the handlers of a key where the invariant looks.      *)
Quiet(k) ==
    /\ store' = store /\ cache' = cache /\ execs' = execs /\ crashes' = crashes
    /\ faults' \in {faults, faults + 1}
    /\ \A u \in Sub : \A S \in SUBSET Points : At(u, k, S)' <=> At(u, k, S)

LEMMA QuietCount ==
    ASSUME TypeOK, TypeOK', NEW k \in Key, Count(k), Quiet(k)
    PROVE  Count(k)'
<1>1. \A u \in Sub : /\ At(u, k, {"execute"})' <=> At(u, k, {"execute"})
                     /\ At(u, k, {"begin"})' <=> At(u, k, {"begin"})
                     /\ At(u, k, {"finish"})' <=> At(u, k, {"finish"})
  BY DEF Quiet, Points
<1>2. Started(k)' = Started(k)
  BY <1>1, StartedSame DEF Quiet
<1>3. crashes' + faults' >= crashes + faults
  <2>1. crashes \in Nat /\ faults \in Nat
    BY DEF TypeOK
  <2>2. \A a, b \in Nat : a + b >= a + b /\ a + (b + 1) >= a + b
    OBVIOUS
  <2>3. crashes' = crashes /\ (faults' = faults \/ faults' = faults + 1)
    BY DEF Quiet
  <2> QED
    BY <2>1, <2>2, <2>3
<1> QED
  BY <1>1, <1>2, <1>3, CalmCount DEF Quiet

LEMMA CountStep == TypeOK /\ TypeOK' /\ ExecInv /\ CountInv /\ [Next]_vars => CountInv'
<1> SUFFICES ASSUME TypeOK, TypeOK', ExecInv, CountInv, [Next]_vars, NEW k \in Key PROVE Count(k)'
  BY DEF CountInv
<1> USE DEF disk, counts
<1>a. /\ h \in [Sub -> Handler] /\ cache \in [Key -> Entry] /\ store \in [Key -> Reply \cup {None}]
      /\ execs \in [Key -> Nat] /\ crashes \in Nat /\ faults \in Nat
  BY DEF TypeOK
<1>b. Count(k) /\ Sole(k)
  BY DEF CountInv, ExecInv
<1>c. Started(k) \in Nat
  BY StartedType
(* Where no handler comes to or leaves a point. *)
<1>1. CASE h' = h /\ UNCHANGED <<cache, store, execs, crashes, faults>>
  BY <1>1, <1>b, QuietCount DEF Quiet, At, Now
<1>2. ASSUME NEW t \in Sub, h[t].pc \notin Points, h'[t].pc \notin Points,
             \A u \in Sub \ {t} : Same(u),
             UNCHANGED <<cache, store, execs, crashes>>, faults' \in {faults, faults + 1}
      PROVE  Count(k)'
  <2>1. \A u \in Sub : \A S \in SUBSET Points : At(u, k, S)' <=> At(u, k, S)
    BY <1>2 DEF At, Now, Same
  <2> QED
    BY <1>2, <1>b, <2>1, QuietCount DEF Quiet
<1>3. ASSUME NEW t \in Sub, NEW r \in Request, Receive(t, r) PROVE Count(k)'
  <2>1. h[t].pc \notin Points /\ h'[t].pc \notin Points /\ \A u \in Sub \ {t} : Same(u)
    BY <1>3, <1>a DEF Receive, Idle, Points, Same
  <2> QED
    BY <1>2, <1>3, <2>1 DEF Receive
<1>4. ASSUME NEW t \in Sub, Wait(t) PROVE Count(k)'
  <2>1. h[t].pc \notin Points /\ h'[t].pc \notin Points /\ \A u \in Sub \ {t} : Same(u)
    BY <1>4, <1>a DEF Wait, Idle, Points, Same, Handler
  <2> QED
    BY <1>2, <1>4, <2>1 DEF Wait
<1>5. ASSUME NEW t \in Sub, Publish(t) \/ Enqueue(t) \/ EnqueueFails(t) PROVE Count(k)'
  <2>1. h[t].pc \notin Points /\ h'[t].pc \notin Points /\ \A u \in Sub \ {t} : Same(u)
    BY <1>5, <1>a DEF Publish, Enqueue, EnqueueFails, Served, Idle, Points, Same
  <2>2. UNCHANGED <<cache, store, execs, crashes>> /\ faults' \in {faults, faults + 1}
    BY <1>5 DEF Publish, Enqueue, EnqueueFails
  <2> QED
    BY <1>2, <2>1, <2>2
(* Failures and restarts. *)
<1>6. ASSUME NEW t \in Sub, LoadFails(t) PROVE Count(k)'
  <2>1. Moves(t, "load", "begin")
    BY <1>6, HandlerMoves
  <2>2. \A u \in Sub : At(u, k, {"execute"})' <=> At(u, k, {"execute"})
    BY <2>1 DEF Moves, Same, At, Now
  <2>3. Started(k)' = Started(k)
    BY <1>6, <2>2, StartedSame DEF LoadFails
  <2>4. crashes' + faults' = crashes + faults + 1
    BY <1>6, <1>a DEF LoadFails
  <2> QED
    BY <1>b, <1>c, <2>3, <2>4, Relief
<1>7. ASSUME NEW t \in Sub, SaveFails(t) PROVE Count(k)'
  <2>1. Moves(t, "save", "finish")
    BY <1>7, HandlerMoves
  <2>2. \A u \in Sub : At(u, k, {"execute"})' <=> At(u, k, {"execute"})
    BY <2>1 DEF Moves, Same, At, Now
  <2>3. Started(k)' = Started(k)
    BY <1>7, <2>2, StartedSame DEF SaveFails
  <2>4. crashes' + faults' = crashes + faults + 1
    BY <1>7, <1>a DEF SaveFails
  <2> QED
    BY <1>b, <1>c, <2>3, <2>4, Relief
<1>8. CASE Crash
  <2>1. Executors(k)' = {}
    BY <1>8 DEF Crash, Executors, At, Idle
  <2>2. Cardinality(Executors(k)') = 0
    BY <2>1, FS_EmptySet
  <2>3. Started(k)' = execs[k] + 0
    BY <1>8, <2>2 DEF Crash, Started
  <2>4. Started(k)' \in Nat /\ Started(k)' <= Started(k)
    BY <2>3, StartedType DEF Started
  <2>5. crashes' + faults' = crashes + faults + 1
    BY <1>8, <1>a DEF Crash
  <2> QED
    BY <1>b, <2>4, <2>5, Relief
(* The work of a handler. *)
<1>9. ASSUME NEW t \in Sub, Load(t) PROVE Count(k)'
  <2>1. UNCHANGED <<store, cache, execs, crashes, faults>>
    BY <1>9 DEF Load
  <2>2. \/ store[Now(t)] = None /\ Moves(t, "load", "begin")
        \/ store[Now(t)] # None /\ Moves(t, "load", "finish")
    BY <1>9, HandlerMoves
  <2>3. \A u \in Sub : At(u, k, {"execute"})' <=> At(u, k, {"execute"})
    BY <2>2 DEF Moves, Same, At, Now
  <2>4. Started(k)' = Started(k)
    BY <2>1, <2>3, StartedSame
  <2>5. /\ (Free(k)' <=> Free(k)) /\ (Open(k)' <=> Open(k))
        /\ store'[k] = store[k] /\ cache'[k] = cache[k]
    BY <2>1, <2>4 DEF Free, Open
  <2>6. Started(k)' <= 1 + crashes' + faults'
    BY <1>b, <2>1, <2>4 DEF Count
  <2>7. Open(k) /\ (\E u \in Sub : At(u, k, {"begin"})') => Free(k)
    <3>1. ASSUME Open(k), NEW u \in Sub, At(u, k, {"begin"})', ~At(u, k, {"begin"}) PROVE Free(k)
      <4>1. store[k] = None
        BY <2>2, <3>1 DEF Moves, Same, At, Now
      <4> QED
        BY <1>b, <3>1, <4>1 DEF Count, Open
    <3> QED
      BY <1>b, <3>1 DEF Count
  <2>8. store[k] = None => \A u \in Sub : At(u, k, {"finish"})' => At(u, k, {"finish"})
    BY <2>2 DEF Moves, Same, At, Now
  <2> QED
    BY <1>b, <2>5, <2>6, <2>7, <2>8 DEF Count
<1>10. ASSUME NEW t \in Sub, Begin(t) PROVE Count(k)'
  <2>1. /\ UNCHANGED <<store, execs, crashes, faults>>
        /\ Now(t) \in Key /\ h[t].pc = "begin"
    BY <1>10, Busy DEF Begin
  <2>2. \/ Open(Now(t)) /\ Moves(t, "begin", "execute")
        \/ ~Open(Now(t)) /\ Moves(t, "begin", "publish")
        \/ ~Open(Now(t)) /\ Moves(t, "begin", "wait")
    BY <1>10, HandlerMoves
  <2>3. cache' = Swept \/ (Open(Now(t)) /\ cache' = [Swept EXCEPT ![Now(t)] = Running])
    BY <1>10, <1>a, <2>1 DEF Begin, Swept, Open, Absent
  <2>4. \A u \in Sub : /\ At(u, k, {"begin"})' => At(u, k, {"begin"})
                       /\ At(u, k, {"finish"})' => At(u, k, {"finish"})
    BY <2>2 DEF Moves, Same, At, Now
  <2>5. CASE k = Now(t) /\ Moves(t, "begin", "execute")
    <3>1. Open(k) /\ At(t, k, {"begin"})
      BY <2>1, <2>2, <2>5 DEF Moves, At
    <3>2. Free(k)
      BY <1>b, <3>1 DEF Count
    <3>3. Started(k)' = Started(k) + 1
      BY <2>1, <2>5, OneMore
    <3>4. Started(k)' <= 1 + crashes' + faults'
      <4>1. \A s, a, b \in Nat : s <= a + b => s + 1 <= 1 + a + b
        OBVIOUS
      <4> QED
        BY <1>a, <1>c, <2>1, <3>2, <3>3, <4>1 DEF Free
    <3>5. cache'[k] = Running
      BY <1>10, <2>1, <2>5 DEF Begin, Goto, Swept, Moves, TypeOK, Handler
    <3>6. ~Open(k)' /\ cache'[k].state = "running"
      BY <3>5 DEF Open, Running
    <3>7. store'[k] = None => \A u \in Sub : ~At(u, k, {"finish"})'
      BY <1>b, <2>1, <2>4, <3>1 DEF Sole, Executing, Open, At
    <3> QED
      BY <3>4, <3>6, <3>7 DEF Count
  <2>6. CASE ~(k = Now(t) /\ Moves(t, "begin", "execute"))
    <3>1. \A u \in Sub : At(u, k, {"execute"})' <=> At(u, k, {"execute"})
      BY <2>1, <2>2, <2>6 DEF Moves, Same, At, Now
    <3>2. Started(k)' = Started(k)
      BY <2>1, <3>1, StartedSame
    <3>3. /\ Open(k)' => Open(k)
          /\ cache[k].state = "running" => cache'[k].state = "running"
      <4>1. CASE k = Now(t)
        <5>1. ~Open(k)
          BY <2>2, <2>6, <4>1
        <5>2. cache' = Swept
          BY <2>3, <4>1, <5>1
        <5> QED
          BY <5>1, <5>2 DEF Swept, Open
      <4>2. CASE k # Now(t)
        <5>1. cache'[k] = Swept[k]
          BY <2>1, <2>3, <4>2 DEF Swept
        <5> QED
          BY <5>1 DEF Swept, Open, Absent
      <4> QED
        BY <4>1, <4>2
    <3>4. Free(k)' <=> Free(k)
      BY <2>1, <3>2 DEF Free
    <3>5. Started(k)' <= 1 + crashes' + faults'
      BY <1>b, <2>1, <3>2 DEF Count
    <3> QED
      BY <1>b, <2>1, <2>4, <3>3, <3>4, <3>5 DEF Count
  <2> QED
    BY <2>5, <2>6
<1>11. ASSUME NEW t \in Sub, NEW reply \in Reply, Execute(t, reply) PROVE Count(k)'
  <2>1. /\ Moves(t, "execute", "save") /\ execs' = [execs EXCEPT ![Now(t)] = @ + 1]
        /\ UNCHANGED <<store, cache, crashes, faults>>
    BY <1>11, HandlerMoves DEF Execute
  <2>2. Started(k)' = Started(k)
    <3>1. CASE k = Now(t)
      BY <2>1, <3>1, OneDone
    <3>2. CASE k # Now(t)
      <4>1. Executors(k)' = Executors(k)
        BY <2>1, <3>2, OtherKey DEF Executors
      <4>2. execs'[k] = execs[k]
        BY <1>a, <2>1, <3>2
      <4> QED
        BY <4>1, <4>2 DEF Started
    <3> QED
      BY <3>1, <3>2
  <2>3. \A u \in Sub : /\ At(u, k, {"begin"})' => At(u, k, {"begin"})
                       /\ At(u, k, {"finish"})' => At(u, k, {"finish"})
    BY <2>1 DEF Moves, Same, At, Now
  <2>4. crashes' + faults' >= crashes + faults
    BY <1>a, <2>1
  <2> QED
    BY <1>b, <2>1, <2>2, <2>3, <2>4, CalmCount
<1>12. ASSUME NEW t \in Sub, Save(t) PROVE Count(k)'
  <2>1. /\ Moves(t, "save", "finish") /\ store' = [store EXCEPT ![Now(t)] = h[t].reply]
        /\ UNCHANGED <<cache, execs, crashes, faults>>
    BY <1>12, HandlerMoves DEF Save
  <2>2. h[t].reply # None /\ Now(t) \in Key
    BY <1>12, Busy, CommandAssumption DEF Save
  <2>3. /\ k = Now(t) => store'[k] # None
        /\ k # Now(t) => store'[k] = store[k]
    BY <1>a, <2>1, <2>2
  <2>4. \A u \in Sub : /\ At(u, k, {"execute"})' <=> At(u, k, {"execute"})
                       /\ At(u, k, {"begin"})' => At(u, k, {"begin"})
                       /\ k # Now(t) => (At(u, k, {"finish"})' => At(u, k, {"finish"}))
    BY <2>1 DEF Moves, Same, At, Now
  <2>5. Started(k)' = Started(k)
    BY <2>1, <2>4, StartedSame
  <2>6. (Free(k)' <=> Free(k)) /\ (Open(k)' <=> Open(k)) /\ cache'[k] = cache[k]
    BY <2>1, <2>5 DEF Free, Open
  <2>7. Started(k)' <= 1 + crashes' + faults'
    BY <1>b, <2>1, <2>5 DEF Count
  <2> QED
    BY <1>b, <2>3, <2>4, <2>6, <2>7 DEF Count
<1>13. ASSUME NEW t \in Sub, Finish(t) PROVE Count(k)'
  <2>1. /\ Moves(t, "finish", "publish") /\ Now(t) \in Key
        /\ UNCHANGED <<store, execs, crashes, faults>>
    BY <1>13, HandlerMoves, Busy DEF Finish
  <2>2. /\ k # Now(t) => cache'[k] = cache[k]
        /\ Open(k)' => Open(k)
    BY <1>13, <1>a, <2>1 DEF Finish, Open, Done
  <2>3. \A u \in Sub : /\ At(u, k, {"execute"})' <=> At(u, k, {"execute"})
                       /\ At(u, k, {"begin"})' => At(u, k, {"begin"})
                       /\ At(u, k, {"finish"})' => At(u, k, {"finish"})
    BY <2>1 DEF Moves, Same, At, Now
  <2>4. Started(k)' = Started(k)
    BY <2>1, <2>3, StartedSame
  <2>5. Free(k)' <=> Free(k)
    BY <2>1, <2>4 DEF Free
  <2>6. Started(k)' <= 1 + crashes' + faults'
    BY <1>b, <2>1, <2>4 DEF Count
  <2>7. store[k] = None /\ k = Now(t) => Free(k)
    BY <1>b, <2>1 DEF Count, Moves, At
  <2> QED
    BY <1>b, <2>1, <2>2, <2>3, <2>5, <2>6, <2>7 DEF Count
<1>14. ASSUME NEW c \in Key, Expire(c) PROVE Count(k)'
  <2>1. /\ h' = h /\ UNCHANGED <<store, execs, crashes, faults>> /\ cache[c].state = "done"
        /\ \A u \in Sub : ~At(u, c, {"begin"})
        /\ k # c => cache'[k] = cache[k]
    BY <1>14, <1>a DEF Expire, At
  <2>2. \A u \in Sub : \A S : At(u, k, S)' <=> At(u, k, S)
    BY <2>1 DEF At, Now
  <2>3. Started(k)' = Started(k)
    BY <2>1, <2>2, StartedSame
  <2>4. Free(k)' <=> Free(k)
    BY <2>1, <2>3 DEF Free
  <2>5. Started(k)' <= 1 + crashes' + faults'
    BY <1>b, <2>1, <2>3 DEF Count
  <2>6. Open(k)' /\ (\E u \in Sub : At(u, k, {"begin"})') => Free(k)
    BY <1>b, <2>1, <2>2 DEF Count, Open
  <2>7. store[k] = None /\ cache'[k].state # "running" => Free(k)
    BY <1>b, <2>1 DEF Count
  <2>8. store[k] = None /\ (\E u \in Sub : At(u, k, {"finish"})') => Free(k)
    BY <1>b, <2>2 DEF Count
  <2> QED
    BY <2>1, <2>4, <2>5, <2>6, <2>7, <2>8 DEF Count
<1> QED
  <2>1. ASSUME NEW r \in Request, Send(r)
        PROVE  h' = h /\ UNCHANGED <<cache, store, execs, crashes, faults>>
    BY <2>1 DEF Send
  <2>2. ASSUME NEW c \in Key, FlushRead(c)
        PROVE  h' = h /\ UNCHANGED <<cache, store, execs, crashes, faults>>
    BY <2>2 DEF FlushRead
  <2>3. FlushPublish \/ FlushRemove => h' = h /\ UNCHANGED <<cache, store, execs, crashes, faults>>
    BY DEF FlushPublish, FlushRemove
  <2>4. Disconnect \/ Reconnect \/ GiveUp \/ UNCHANGED vars =>
            h' = h /\ UNCHANGED <<cache, store, execs, crashes, faults>>
    BY DEF Disconnect, Reconnect, GiveUp, vars
  <2> QED
    BY <1>1, <1>3, <1>4, <1>5, <1>6, <1>7, <1>8, <1>9, <1>10, <1>11, <1>12, <1>13, <1>14,
       <2>1, <2>2, <2>3, <2>4 DEF Next, HandlerStep

-----------------------------------------------------------------------------
(* The three invariants hold in every state.                                *)
CommandInv == TypeOK /\ ExecInv /\ StoredInv /\ CountInv

LEMMA CommandInit == Init => CommandInv
<1> SUFFICES ASSUME Init PROVE CommandInv
  OBVIOUS
<1>1. TypeOK
  BY TypeInit
<1>2. \A t \in Sub : h[t].pc = "idle"
  BY DEF Init, Idle
<1>3. ExecInv /\ StoredInv
  BY <1>2 DEF Init, ExecInv, Sole, Late, Twice, At, Executing, StoredInv, Absent, FlushIdle
<1>4. ASSUME NEW k \in Key PROVE Count(k)
  <2>1. Executors(k) = {}
    BY <1>2 DEF Executors, At
  <2>2. Cardinality(Executors(k)) = 0
    BY <2>1, FS_EmptySet
  <2>3. execs[k] = 0 /\ crashes = 0 /\ faults = 0
    BY DEF Init
  <2> QED
    BY <2>2, <2>3 DEF Count, Free, Started
<1> QED
  BY <1>1, <1>3, <1>4 DEF CommandInv, CountInv

LEMMA CommandStep == CommandInv /\ [Next]_vars => CommandInv'
  BY TypeStep, ExecStep, StoredStep, CountStep DEF CommandInv

LEMMA CommandInvariant == Spec => []CommandInv
  BY CommandInit, CommandStep, PTL DEF Spec

(* Two handlers of different subscriptions never execute the command of one *)
(* key at the same time, unless two files failed.                           *)
THEOREM CacheCorrect == Spec => []CacheOK
<1>1. CommandInv => CacheOK
  <2> SUFFICES ASSUME CommandInv, faults < 2, NEW t \in Sub, NEW u \in Sub, t # u,
                      h[t].pc = "execute", h[u].pc = "execute", Now(t) = Now(u)
               PROVE  FALSE
    BY DEF CacheOK, OneExecutor, CommandInv
  <2>1. Now(t) \in Key
    BY Busy DEF CommandInv
  <2>2. faults >= 2
    BY <2>1 DEF CommandInv, ExecInv, Twice, At
  <2> QED
    BY <2>2 DEF CommandInv, TypeOK
<1> QED
  BY <1>1, CommandInvariant, PTL

(* However often a request is repeated, its command is executed once, and   *)
(* once more for each restart and each file that failed.                    *)
THEOREM ExecutionsCounted == Spec => []ExecutionsBounded
<1>1. CommandInv => ExecutionsBounded
  <2> SUFFICES ASSUME CommandInv, NEW k \in Key PROVE execs[k] <= 1 + crashes + faults
    BY DEF ExecutionsBounded
  <2>1. Started(k) <= 1 + crashes + faults
    BY DEF CommandInv, CountInv, Count
  <2>2. \A e, c, a, b \in Nat : e + c <= 1 + a + b => e <= 1 + a + b
    OBVIOUS
  <2> QED
    BY <2>1, <2>2, StartedType DEF CommandInv, Started
<1> QED
  BY <1>1, CommandInvariant, PTL

(* Without failing files, every reply that reached the server is the stored *)
(* one, whether it came from the execution, the cache, the store or the     *)
(* spool, before or after restarts.                                         *)
THEOREM AnswersAgree == Spec => []AnsweredIsStored
<1>1. CommandInv => AnsweredIsStored
  BY DEF CommandInv, StoredInv, AnsweredIsStored, Stored
<1> QED
  BY <1>1, CommandInvariant, PTL
=============================================================================
