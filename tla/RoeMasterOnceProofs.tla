------------------------- MODULE RoeMasterOnceProofs -------------------------
(* Theorems about RoeMaster with its history, for any set of runs, steps,   *)
(* messages, processes and goroutines of each kind, with any crashes,       *)
(* failed calls, overlapping deliveries and expired locks.                  *)
EXTENDS RoeMasterProofs, RoeMasterHistory

(* A record that went through the approval gate is one of a supervised run. *)
Gated(rec, r) ==
    rec.decision # "none" \/ rec.status \in {"WAITING_APPROVAL", "APPROVED"}
        => r \in Supervised

(* What a handler x knows at its point, whatever the others do. *)
Minds(x) ==
    IF x.pc = "idle" THEN x.ok = FALSE ELSE
    /\ Gated(x.run, x.of)
    /\ x.pc \in {"persist_waiting", "persist_decision", "load_steps"} => x.of \in Supervised
    /\ x.pc = "publish" /\ x.msg \in Approval => x.of \in Supervised
    /\ x.msg \in Trigger => x.run.seen = {}
    /\ x.pc \in {"reconcile", "persist_run"} => x.msg \in x.run.seen
    /\ x.pc = "ack" /\ x.msg \in Step => x.ok

(* Handler x stands between looking for the key of run r and putting it;    *)
(* has passed it, and may publish step s; goes by the key of result s.      *)
Seeks(x, r) == x.of = r /\ x.pc \in KeyPC(r)
May(x, s) ==
    /\ x.of = RunFor[s]
    /\ \/ x.pc = "persist_step" /\ x.of \notin Supervised
       \/ x.pc = "load_run" /\ x.of \in Supervised
       \/ x.pc = "persist_decision" /\ Answer[x.msg] # "deny"
       \/ x.pc = "load_steps"
       \/ x.pc = "publish" /\ s \in x.todo
Relies(x, s) == x.msg = s /\ (x.ok \/ x.pc \in {"run_get", "reconcile", "persist_run"})

Pending(s) == {t \in Thread : May(h[t], s)}
Puts(r) == IF Key(r) THEN 1 ELSE 0

(* Run r has been denied, or is about to be. *)
Denied(r) ==
    \/ runs[r].decision = "deny"
    \/ \E t \in Thread : h[t].pc # "idle" /\ h[t].of = r /\ h[t].run.decision = "deny"

(* The result of step s has been counted; seen has every such step of run r *)
(* but those whose key was deleted.                                         *)
Settled(s) == delivery[s] = "acked" \/ \E t \in Thread : h[t].msg = s /\ h[t].ok
Full(seen, r) == \A s \in StepsOf(r) \ forgotten : Settled(s) => s \in seen

MindInv ==
    /\ \A t \in Thread : Minds(h[t])
    /\ \A r \in Run : Gated(runs[r], r)

LateInv == \A t \in Thread, r \in Run : Seeks(h[t], r) /\ Key(r) => t \in late

OnceInv ==
    \A s \in Step :
        published[s] + Cardinality(Pending(s)) <= Puts(RunFor[s]) + again[RunFor[s]]

DeniedInv ==
    \A s \in Step :
        Denied(RunFor[s]) /\ again[RunFor[s]] = 0 =>
            /\ RunFor[s] \in Supervised \cap approvals
            /\ published[s] = 0
            /\ Pending(s) = {}

RelyInv == \A s \in Step : Relied(s) => s \in results \cup forgotten

CountInv ==
    /\ \A r \in Run \ overwritten : Full(runs[r].seen, r)
    /\ \A t \in Thread \ outdated :
          HasCopy(t) => \/ Full(h[t].run.seen, Of(t))
                        \/ Of(t) \in overwritten /\ h[t].pc # "persist_run"

(* The inductive invariants: of the orchestrator, about releases, and of    *)
(* the orchestrator with the history of its records, about counts.          *)
OInv == Inv /\ MindInv /\ LateInv /\ OnceInv /\ DeniedInv
HInv == Inv /\ MindInv /\ RelyInv /\ CountInv

(* Goroutine t puts the key of run r. *)
PutsKey(t, r) ==
    SeeksKey(t, r) /\ h[t].pc \in {"approval_put", "persist_idemp"} /\ Succeeds(t)

-----------------------------------------------------------------------------
(* From x to y goroutine t does not get past a key without putting it, nor  *)
(* starts to look for one that is there, and takes its decision from what   *)
(* it or the record says.                                                   *)
Guards(x, y, t) ==
    /\ \A s \in Step : May(y, s) => May(x, s) \/ PutsKey(t, RunFor[s])
    /\ \A r \in Run : Seeks(y, r) => Seeks(x, r) \/ ~ Key(r)
    /\ y.pc # "idle" /\ y.run.decision = "deny" =>
          \/ x.pc # "idle" /\ x.of = y.of /\ x.run.decision = "deny"
          \/ runs[y.of].decision = "deny"
          \/ x.pc = "load_run" /\ x.of = y.of /\ x.of \in Supervised
                /\ \A s \in Step : ~ May(y, s)

(* It goes by a result that is stored, settles one when it counts it, and   *)
(* takes its copy of the record from where that is complete.                *)
Tallies(x, y, t) ==
    /\ \A s \in Step : Relies(y, s) => Relies(x, s) \/ s \in results'
    /\ y.ok => y.msg = x.msg /\ (x.ok \/ Counts(t))
    /\ y.pc \in CopyPC =>
          \/ /\ x.pc \in CopyPC /\ y.of = x.of
             /\ y.run.seen = x.run.seen /\ y.pc # "persist_run"
          \/ y.run.seen = {} /\ y.of \notin idemp
          \/ planned \cap results \cap StepsOf(y.of) \subseteq y.run.seen
          \/ y.run.seen = runs[y.of].seen /\ y.pc # "persist_run"

OnceTurn(t) ==
    \E y \in Handler : /\ h' = [h EXCEPT ![t] = y]
                       /\ Minds(y) /\ Guards(h[t], y, t) /\ Tallies(h[t], y, t)

LEMMA IdleMinds ==
    /\ Idle \in Handler /\ Idle.pc = "idle" /\ Idle.msg = NoMsg /\ Idle.ok = FALSE
    /\ Minds(Idle)
    /\ \A s \in Step : ~ May(Idle, s) /\ ~ Relies(Idle, s)
    /\ \A r \in Run : ~ Seeks(Idle, r)
    /\ "idle" \notin CopyPC
<1>1. /\ Idle \in Handler /\ Idle.pc = "idle" /\ Idle.msg = NoMsg /\ Idle.ok = FALSE
  BY Types DEF Idle
<1> QED
  BY <1>1 DEF Minds, May, Relies, Seeks, KeyPC, CopyPC, TriggerPC

LEMMA OnceRests ==
    ASSUME NEW t \in Thread, h' = [h EXCEPT ![t] = Idle]
    PROVE  OnceTurn(t)
BY IdleMinds DEF OnceTurn, Guards, Tallies

(* What the invariants say of a handler that is at work. *)
LEMMA OnceAtWork ==
    ASSUME Inv, MindInv, NEW t \in Thread, h[t].pc # "idle"
    PROVE  /\ h[t] \in Handler /\ h \in [Thread -> Handler]
           /\ h[t].of \in Run /\ h[t].of = Of(t)
           /\ h[t].run \in RunRecord
           /\ Trusts(h[t]) /\ Minds(h[t])
           /\ Gated(h[t].run, h[t].of) /\ Gated(runs[h[t].of], h[t].of)
           /\ runs[h[t].of] \in RunRecord
<1>1. /\ h[t] \in Handler /\ h[t].of \in Run /\ h[t].of = Of(t)
      /\ h[t].run \in RunRecord /\ Trusts(h[t])
  BY AtWork
<1>2. Minds(h[t]) /\ Gated(runs[h[t].of], h[t].of)
  BY <1>1 DEF MindInv
<1> QED
  BY <1>1, <1>2 DEF Minds, Inv, TypeOK

(* The messages of the three kinds are different. *)
LEMMA Kinds ==
    /\ \A m \in Trigger : m \notin Approval /\ m \notin Step /\ m \in Msg
    /\ \A m \in Approval : m \notin Trigger /\ m \notin Step /\ m \in Msg
    /\ \A m \in Step : m \notin Trigger /\ m \notin Approval /\ m \in Msg
    /\ NoMsg \notin Trigger \cup Approval \cup Step
BY MasterAssumption DEF Msg

(* The handler of a trigger. *)
LEMMA TriggerTurn ==
    ASSUME Inv, MindInv, NEW t \in Thread, TriggerStep(t)
    PROVE  OnceTurn(t)
<1>0. h[t].pc # "idle" /\ h[t].pc \in TriggerPC
  BY DEF TriggerStep, IdempGet, GroupGet, GroupPut, PersistCreated,
         PersistIdempotency, Reject, PersistStep, PersistWaiting, Request,
         PersistPlanned, TriggerPC
<1>x. PICK x \in Handler : x = h[t]
  BY <1>0, OnceAtWork
<1>1. /\ Minds(x) /\ Gated(x.run, x.of) /\ Of(t) = x.of /\ x.of \in Run
      /\ Trusts(x) /\ x.pc \in TriggerPC
  BY <1>0, <1>x, OnceAtWork
<1>2. x.msg \in Trigger /\ x.msg \notin Approval /\ x.msg \notin Step
  BY <1>0, <1>1, <1>x, Kinds DEF Trusts
<1>r. x.run.seen = {}
  BY <1>0, <1>1, <1>2, <1>x DEF Minds
<1> DEFINE Early == {"group_get", "group_put", "persist_created", "persist_idemp"}
<1>3. ASSUME NEW y \in Handler, h' = [h EXCEPT ![t] = y],
             y.msg = x.msg, y.of = x.of, y.run = x.run, y.ok = x.ok,
             y.pc \in {"ack", "persist_step", "persist_waiting", "publish",
                       "persist_planned", "request", "reject"} \cup Early,
             x.pc # "idemp_get" \/ y.pc = "ack" \/ x.of \notin idemp,
             y.pc \in Early => x.pc \in Early \/ x.of \notin idemp,
             y.pc = "publish" => x.of \notin Supervised,
             y.pc \in {"publish", "persist_step"} /\ x.of \notin Supervised =>
                 x.pc = "persist_step" \/ PutsKey(t, x.of),
             y.pc = "persist_waiting" => x.of \in Supervised
      PROVE  OnceTurn(t)
  <2>1. Minds(y)
    BY <1>1, <1>2, <1>3, <1>r DEF Minds
  <2>2. Guards(x, y, t)
    <3>1. ASSUME NEW s \in Step, May(y, s) PROVE May(x, s) \/ PutsKey(t, RunFor[s])
      <4>1. y.of = RunFor[s] /\ y.pc \in {"persist_step", "publish"}
        BY <1>3, <3>1 DEF May
      <4>2. x.of \notin Supervised /\ x.of = RunFor[s]
        <5>1. CASE y.pc = "persist_step"
          BY <1>3, <3>1, <4>1, <5>1 DEF May
        <5>2. CASE y.pc = "publish"
          BY <1>3, <4>1, <5>2
        <5> QED
          BY <4>1, <5>1, <5>2
      <4>3. x.pc = "persist_step" \/ PutsKey(t, x.of)
        BY <1>3, <4>1, <4>2
      <4> QED
        BY <4>2, <4>3 DEF May
    <3>2. ASSUME NEW r \in Run, Seeks(y, r) PROVE Seeks(x, r) \/ ~ Key(r)
      BY <1>3, <3>2 DEF Seeks, KeyPC, Key
    <3>3. y.run.decision = "deny" => x.pc # "idle" /\ x.of = y.of /\ x.run.decision = "deny"
      BY <1>0, <1>3, <1>x
    <3> QED
      BY <3>1, <3>2, <3>3 DEF Guards
  <2>3. Tallies(x, y, t)
    <3>1. \A s \in Step : ~ Relies(y, s)
      BY <1>2, <1>3 DEF Relies
    <3>2. x.pc \in CopyPC \/ x.pc = "idemp_get"
      BY <1>1 DEF CopyPC
    <3>3. y.pc # "persist_run" /\ (y.pc = "ack" => y.pc \notin CopyPC)
      BY <1>3 DEF CopyPC, TriggerPC
    <3> QED
      BY <1>3, <1>r, <3>1, <3>2, <3>3 DEF Tallies
  <2> QED
    BY <1>3, <1>x, <2>1, <2>2, <2>3 DEF OnceTurn
<1>4. ASSUME NEW pc \in {"ack", "request", "reject"} \cup Early, Goto(t, pc),
             x.pc # "idemp_get" \/ pc = "ack" \/ x.of \notin idemp,
             pc \in Early => x.pc \in Early \/ x.of \notin idemp
      PROVE  OnceTurn(t)
  <2> DEFINE y == [x EXCEPT !.pc = pc]
  <2>1. y \in Handler /\ h' = [h EXCEPT ![t] = y]
    BY <1>4, <1>x, Moves DEF Goto, PC, TriggerPC
  <2>2. y.pc = pc /\ y.msg = x.msg /\ y.of = x.of /\ y.run = x.run /\ y.ok = x.ok
    BY DEF Handler
  <2> HIDE DEF y
  <2> QED
    BY <1>3, <1>4, <2>1, <2>2
<1>5. ASSUME IdempGet(t) PROVE OnceTurn(t)
  BY <1>1, <1>4, <1>5 DEF IdempGet
<1>6. ASSUME GroupGet(t) \/ GroupPut(t) \/ PersistCreated(t) PROVE OnceTurn(t)
  BY <1>4, <1>6, <1>x DEF GroupGet, GroupPut, PersistCreated
<1>7. ASSUME Reject(t) \/ PersistWaiting(t) \/ Request(t) \/ PersistPlanned(t)
      PROVE  OnceTurn(t)
  BY <1>4, <1>7, <1>x DEF Reject, PersistWaiting, Request, PersistPlanned
<1>8. ASSUME NEW todo \in SUBSET Step,
             NEW pc \in {"persist_step", "persist_waiting", "publish", "persist_planned"},
             h' = [h EXCEPT ![t] = [x EXCEPT !.todo = todo, !.pc = pc]],
             x.pc # "idemp_get",
             pc = "publish" => x.of \notin Supervised,
             pc \in {"publish", "persist_step"} /\ x.of \notin Supervised =>
                 x.pc = "persist_step" \/ PutsKey(t, x.of),
             pc = "persist_waiting" => x.of \in Supervised
      PROVE  OnceTurn(t)
  <2> DEFINE y == [x EXCEPT !.todo = todo, !.pc = pc]
  <2>1. y \in Handler /\ h' = [h EXCEPT ![t] = y]
    BY <1>8, <1>x, Moves DEF PC, TriggerPC
  <2>2. y.pc = pc /\ y.msg = x.msg /\ y.of = x.of /\ y.run = x.run /\ y.ok = x.ok
    BY DEF Handler
  <2> HIDE DEF y
  <2> QED
    BY <1>3, <1>8, <2>1, <2>2
<1>p. /\ Planned(t) \in {"persist_waiting", "publish", "persist_planned"}
      /\ Planned(t) = "persist_waiting" => x.of \in Supervised
      /\ Planned(t) = "publish" => x.of \notin Supervised /\ StepsOf(x.of) # {}
  BY <1>1 DEF Planned
<1>s. StepsOf(x.of) \in SUBSET Step
  BY DEF StepsOf
<1>9. ASSUME PersistIdempotency(t) PROVE OnceTurn(t)
  <2>1. x.pc = "persist_idemp"
    BY <1>9, <1>x DEF PersistIdempotency
  <2>2. CASE Goto(t, "reject")
    BY <1>4, <2>1, <2>2
  <2>3. CASE Loop(t, StepsOf(x.of), "persist_step", Planned(t))
    <3>1. PICK pc : pc = IF StepsOf(x.of) = {} THEN Planned(t) ELSE "persist_step"
      OBVIOUS
    <3>2. h' = [h EXCEPT ![t] = [x EXCEPT !.todo = StepsOf(x.of), !.pc = pc]]
      BY <1>x, <2>3, <3>1 DEF Loop
    <3>3. /\ pc \in {"persist_step", "persist_waiting", "publish", "persist_planned"}
          /\ pc = "persist_waiting" => x.of \in Supervised
          /\ pc # "publish"
      BY <1>p, <3>1
    <3>4. x.of \notin Supervised => PutsKey(t, x.of)
      <4>1. h'[t] # h[t]
        <5>1. h \in [Thread -> Handler]
          BY DEF Inv, TypeOK
        <5>2. h'[t].pc = pc
          BY <3>2, <5>1 DEF Handler
        <5> QED
          BY <1>x, <2>1, <3>3, <5>2
      <4> QED
        BY <1>1, <1>9, <1>x, <2>1, <4>1
           DEF PutsKey, SeeksKey, KeyPC, Succeeds, PersistIdempotency
    <3> QED
      BY <1>8, <1>s, <2>1, <3>2, <3>3, <3>4
  <2> QED
    BY <1>1, <1>9, <2>2, <2>3 DEF PersistIdempotency
<1>10. ASSUME NEW s \in Step, PersistStep(t, s) PROVE OnceTurn(t)
  <2>2. x.pc = "persist_step" /\ x.todo \in SUBSET Step
    BY <1>10, <1>x DEF PersistStep, Handler
  <2>3. CASE x.todo = {s}
    <3>1. h' = [h EXCEPT ![t] = [x EXCEPT !.todo = StepsOf(x.of), !.pc = Planned(t)]]
      BY <1>1, <1>10, <1>x, <2>3 DEF PersistStep
    <3> QED
      BY <1>8, <1>p, <1>s, <2>2, <3>1
  <2>4. CASE x.todo # {s}
    <3>1. h' = [h EXCEPT ![t] = [x EXCEPT !.todo = x.todo \ {s}, !.pc = "persist_step"]]
      BY <1>10, <1>x, <2>2, <2>4 DEF PersistStep
    <3> QED
      BY <1>8, <2>2, <3>1
  <2> QED
    BY <2>3, <2>4
<1> QED
  BY <1>5, <1>6, <1>7, <1>9, <1>10 DEF TriggerStep

(* The handler of a result, which keeps to records and results. *)
LEMMA ResultTurn ==
    ASSUME Inv, MindInv, NEW t \in Thread, ResultStep(t)
    PROVE  OnceTurn(t)
<1>0. h[t].pc # "idle" /\ h[t].pc \in ResultPC
  BY DEF ResultStep, LockGet, LockPut, ResultGet, ResultPut, RunGet, Reconcile,
         PersistResult, Release, ResultPC
<1>x. PICK x \in Handler : x = h[t]
  BY <1>0, OnceAtWork
<1>1. /\ Minds(x) /\ Gated(x.run, x.of) /\ Of(t) = x.of /\ x.of \in Run
      /\ Gated(runs[x.of], x.of) /\ runs[x.of] \in RunRecord /\ x.run \in RunRecord
  BY <1>0, <1>x, OnceAtWork
<1>2. x.msg \in Step /\ x.msg \notin Trigger \cup Approval
  BY <1>0, <1>x, OnceAtWork, Kinds DEF Trusts
<1>3. ASSUME NEW y \in Handler, h' = [h EXCEPT ![t] = y], y.msg = x.msg, y.of = x.of,
             y.pc \in ResultPC \cup {"ack"}, Gated(y.run, y.of),
             y.run.decision \in {x.run.decision, runs[x.of].decision},
             y.pc = "ack" => y.ok,
             y.ok => x.ok \/ Counts(t),
             y.ok => x.ok \/ x.pc = "persist_run",
             y.pc = "run_get" => x.msg \in results',
             y.pc \in {"reconcile", "persist_run"} =>
                x.msg \in y.run.seen /\ x.pc \in {"run_get", "reconcile"},
             y.pc = "persist_run" =>
                planned \cap results \cap StepsOf(x.of) \subseteq y.run.seen
      PROVE  OnceTurn(t)
  <2>1. Minds(y)
    BY <1>2, <1>3 DEF Minds, ResultPC
  <2>2. Guards(x, y, t)
    <3>1. \A s \in Step : ~ May(y, s)
      BY <1>3 DEF May, ResultPC
    <3>2. \A r \in Run : ~ Seeks(y, r)
      BY <1>3 DEF Seeks, KeyPC, ResultPC
    <3>3. y.run.decision = "deny" =>
             \/ x.pc # "idle" /\ x.of = y.of /\ x.run.decision = "deny"
             \/ runs[y.of].decision = "deny"
      BY <1>0, <1>3, <1>x
    <3> QED
      BY <3>1, <3>2, <3>3 DEF Guards
  <2>3. Tallies(x, y, t)
    <3>1. ASSUME NEW s \in Step, Relies(y, s) PROVE Relies(x, s) \/ s \in results'
      <4>1. y.msg = s /\ x.msg = s
        BY <1>3, <3>1 DEF Relies
      <4>2. y.ok \/ y.pc \in {"run_get", "reconcile", "persist_run"}
        BY <3>1 DEF Relies
      <4>3. CASE y.ok
        BY <1>3, <4>1, <4>3 DEF Relies
      <4>4. CASE y.pc \in {"run_get", "reconcile", "persist_run"}
        BY <1>3, <4>1, <4>4 DEF Relies
      <4> QED
        BY <4>2, <4>3, <4>4
    <3>2. y.pc \in CopyPC => y.pc = "persist_run"
      BY <1>3 DEF CopyPC, ResultPC, TriggerPC
    <3> QED
      BY <1>3, <3>1, <3>2 DEF Tallies
  <2> QED
    BY <1>3, <1>x, <2>1, <2>2, <2>3 DEF OnceTurn
<1>4. ASSUME NEW y \in Handler, h' = [h EXCEPT ![t] = y],
             y.msg = x.msg, y.of = x.of, y.run = x.run,
             y.pc \in (ResultPC \ {"reconcile", "persist_run"}) \cup {"ack"},
             y.pc = "ack" => y.ok,
             y.pc = "run_get" => x.msg \in results',
             y.ok => x.ok \/ Counts(t),
             y.ok => x.ok \/ x.pc = "persist_run"
      PROVE  OnceTurn(t)
  BY <1>1, <1>3, <1>4
<1>5. ASSUME NEW pc \in {"reconcile", "persist_run"}, NEW rec \in RunRecord,
             Gated(rec, x.of),
             h' = [h EXCEPT ![t] = [x EXCEPT !.pc = pc, !.run = rec]],
             rec.decision \in {x.run.decision, runs[x.of].decision},
             x.msg \in rec.seen, x.pc \in {"run_get", "reconcile"},
             pc = "persist_run" =>
                planned \cap results \cap StepsOf(x.of) \subseteq rec.seen
      PROVE  OnceTurn(t)
  <2> DEFINE y == [x EXCEPT !.pc = pc, !.run = rec]
  <2>1. /\ y \in Handler /\ y.msg = x.msg /\ y.of = x.of /\ y.pc = pc /\ y.run = rec
        /\ y.ok = x.ok
    BY <1>5 DEF Handler, PC, ResultPC
  <2> HIDE DEF y
  <2>2. h' = [h EXCEPT ![t] = y]
    BY <1>5 DEF y
  <2>3. y.pc \in ResultPC
    BY <2>1 DEF ResultPC
  <2> QED
    BY <1>3, <1>5, <2>1, <2>2, <2>3
<1>6. ASSUME NEW pc \in ResultPC \ {"reconcile", "persist_run"}, h' = [h EXCEPT ![t].pc = pc],
             pc = "run_get" => x.msg \in results'
      PROVE  OnceTurn(t)
  <2> DEFINE y == [x EXCEPT !.pc = pc]
  <2>1. /\ y \in Handler /\ y.msg = x.msg /\ y.of = x.of /\ y.pc = pc /\ y.run = x.run
        /\ y.ok = x.ok
    BY DEF Handler, PC
  <2>2. h' = [h EXCEPT ![t] = y] /\ pc # "ack"
    BY <1>6, <1>x DEF ResultPC
  <2> HIDE DEF y
  <2> QED
    BY <1>4, <1>6, <2>1, <2>2
<1>7. ASSUME LockGet(t) PROVE OnceTurn(t)
  <2>1. CASE h' = [h EXCEPT ![t] = Idle]
    BY <2>1, OnceRests
  <2>2. CASE h' = [h EXCEPT ![t].pc = "lock_put"]
    <3>1. PICK pc \in ResultPC \ {"reconcile", "persist_run"} : pc = "lock_put"
      BY DEF ResultPC
    <3>2. h' = [h EXCEPT ![t].pc = pc] /\ pc # "run_get"
      BY <2>2, <3>1
    <3> QED
      BY <1>6, <3>2
  <2> QED
    BY <1>7, <2>1, <2>2 DEF LockGet
<1>8. ASSUME LockPut(t) \/ ResultGet(t) PROVE OnceTurn(t)
  BY <1>6, <1>8, <1>x DEF LockPut, ResultGet, Goto, ResultPC, outcome
<1>9. ASSUME ResultPut(t) PROVE OnceTurn(t)
  <2> DEFINE y == [x EXCEPT !.pc = "run_get", !.own = TRUE]
  <2>1. /\ y \in Handler /\ y.msg = x.msg /\ y.of = x.of /\ y.pc = "run_get"
        /\ y.run = x.run /\ y.ok = x.ok
    BY DEF Handler, PC, ResultPC
  <2>2. h' = [h EXCEPT ![t] = y] /\ x.msg \in results'
    BY <1>9, <1>x DEF ResultPut
  <2> HIDE DEF y
  <2> QED
    BY <1>4, <2>1, <2>2 DEF ResultPC
<1>10. ASSUME RunGet(t) PROVE OnceTurn(t)
  <2> DEFINE rec == IF runs[x.of] = NoRecord THEN Blank("RUNNING") ELSE runs[x.of]
             new == [rec EXCEPT !.seen = @ \cup {x.msg}]
  <2>1. /\ rec \in RunRecord /\ Gated(rec, x.of)
        /\ rec.decision = runs[x.of].decision
    BY <1>1, Types DEF Gated, Blank, Status, NoRecord
  <2>2. /\ new \in RunRecord /\ new.status = rec.status /\ new.decision = rec.decision
        /\ x.msg \in new.seen
    BY <1>2, <2>1 DEF RunRecord
  <2>3. h' = [h EXCEPT ![t] = [x EXCEPT !.pc = "reconcile", !.run = new]]
    BY <1>1, <1>10, <1>x DEF RunGet
  <2>5. x.pc = "run_get"
    BY <1>10, <1>x DEF RunGet
  <2> HIDE DEF new
  <2>4. Gated(new, x.of)
    BY <2>1, <2>2 DEF Gated
  <2> QED
    BY <1>5, <2>1, <2>2, <2>3, <2>4, <2>5
<1>11. ASSUME Reconcile(t) PROVE OnceTurn(t)
  <2> DEFINE new == Reconciled(x.run, x.of)
  <2>1. new \in RunRecord
    BY <1>1, ReconciledType
  <2>2. /\ new.decision = x.run.decision /\ new.status \notin {"WAITING_APPROVAL", "APPROVED"}
        /\ new.seen = x.run.seen \cup (planned \cap StepsOf(x.of) \cap results)
    BY <1>1 DEF Reconciled, Counted, RunRecord
  <2>3. h' = [h EXCEPT ![t] = [x EXCEPT !.pc = "persist_run", !.run = new]]
    BY <1>1, <1>11, <1>x DEF Reconcile
  <2> HIDE DEF new
  <2>4. Gated(new, x.of)
    BY <1>1, <2>2 DEF Gated
  <2>5. x.pc = "reconcile"
    BY <1>11, <1>x DEF Reconcile
  <2>6. x.msg \in new.seen /\ planned \cap results \cap StepsOf(x.of) \subseteq new.seen
    BY <1>1, <2>2, <2>5 DEF Minds
  <2> QED
    BY <1>5, <2>1, <2>2, <2>3, <2>4, <2>5, <2>6
<1>12. ASSUME PersistResult(t) PROVE OnceTurn(t)
  <2> DEFINE y == [x EXCEPT !.pc = "release", !.ok = TRUE]
  <2>0. /\ y \in Handler /\ y.msg = x.msg /\ y.of = x.of /\ y.pc = "release"
        /\ y.run = x.run
    BY DEF Handler, PC, ResultPC
  <2>1. h' = [h EXCEPT ![t] = y]
    BY <1>12, <1>x DEF PersistResult
  <2>2. x.pc = "persist_run"
    BY <1>12, <1>x DEF PersistResult
  <2>3. Counts(t)
    <3>1. h'[t].pc = "release"
      BY <2>0, <2>1 DEF Inv, TypeOK
    <3> QED
      BY <1>12, <1>x, <2>2, <3>1 DEF Counts, Succeeds, PersistResult, count
  <2> HIDE DEF y
  <2> QED
    BY <1>4, <2>0, <2>1, <2>2, <2>3 DEF ResultPC
<1>13. ASSUME Release(t) PROVE OnceTurn(t)
  <2>1. CASE h' = [h EXCEPT ![t] = Idle]
    BY <2>1, OnceRests
  <2>2. CASE x.ok /\ h' = [h EXCEPT ![t] = [@ EXCEPT !.pc = "ack", !.own = FALSE]]
    <3> DEFINE y == [x EXCEPT !.pc = "ack", !.own = FALSE]
    <3>1. /\ y \in Handler /\ y.msg = x.msg /\ y.of = x.of /\ y.pc = "ack"
          /\ y.run = x.run /\ y.ok = x.ok
      BY DEF Handler, PC
    <3>2. h' = [h EXCEPT ![t] = y]
      BY <1>x, <2>2
    <3> HIDE DEF y
    <3> QED
      BY <1>4, <2>2, <3>1, <3>2
  <2> QED
    BY <1>13, <1>x, <2>1, <2>2 DEF Release
<1> QED
  BY <1>7, <1>8, <1>9, <1>10, <1>11, <1>12, <1>13 DEF ResultStep

(* The handler of an approval. *)
LEMMA ApprovalTurn ==
    ASSUME Inv, MindInv, NEW t \in Thread, ApprovalStep(t)
    PROVE  OnceTurn(t)
<1>0. h[t].pc # "idle" /\ h[t].pc \in ApprovalPC
  BY DEF ApprovalStep, ApprovalGet, ApprovalPut, LoadRun, PersistDecision, LoadSteps,
         PersistRunning, ApprovalPC
<1>x. PICK x \in Handler : x = h[t]
  BY <1>0, OnceAtWork
<1>1. /\ Minds(x) /\ Gated(x.run, x.of) /\ Of(t) = x.of /\ x.of \in Run
      /\ Gated(runs[x.of], x.of) /\ runs[x.of] \in RunRecord /\ x.run \in RunRecord
      /\ Trusts(x)
  BY <1>0, <1>x, OnceAtWork
<1>2. x.msg \in Approval /\ x.msg \notin Trigger /\ x.msg \notin Step
  BY <1>0, <1>1, <1>x, Kinds DEF Trusts
<1>3. ASSUME NEW y \in Handler, h' = [h EXCEPT ![t] = y], y.msg = x.msg, y.of = x.of,
             y.ok = x.ok,
             y.pc \in {"approval_put", "load_run", "persist_decision", "load_steps",
                       "persist_running", "publish", "ack"},
             Gated(y.run, y.of),
             y.pc \in {"persist_decision", "load_steps", "publish"} => x.of \in Supervised,
             y.pc = "approval_put" => x.of \notin approvals,
             \A s \in Step : May(y, s) => May(x, s) \/ PutsKey(t, RunFor[s]),
             \/ y.run = x.run /\ (y.pc \in CopyPC => x.pc \in CopyPC)
             \/ /\ y.run.seen = runs[x.of].seen
                /\ x.pc = "load_run" /\ x.of \in Supervised
                /\ y.run.decision = "deny" => \A s \in Step : ~ May(y, s)
      PROVE  OnceTurn(t)
  <2>1. Minds(y)
    BY <1>2, <1>3 DEF Minds
  <2>2. Guards(x, y, t)
    <3>1. ASSUME NEW r \in Run, Seeks(y, r) PROVE ~ Key(r)
      BY <1>3, <3>1 DEF Seeks, KeyPC, Key
    <3>2. y.run.decision = "deny" =>
             \/ x.pc # "idle" /\ x.of = y.of /\ x.run.decision = "deny"
             \/ x.pc = "load_run" /\ x.of = y.of /\ x.of \in Supervised
                   /\ \A s \in Step : ~ May(y, s)
      BY <1>0, <1>3, <1>x
    <3> QED
      BY <1>3, <3>1, <3>2 DEF Guards
  <2>3. Tallies(x, y, t)
    <3>1. \A s \in Step : ~ Relies(y, s)
      BY <1>2, <1>3 DEF Relies
    <3>2. y.pc # "persist_run"
      BY <1>3
    <3> QED
      BY <1>3, <3>1, <3>2 DEF Tallies
  <2> QED
    BY <1>3, <1>x, <2>1, <2>2, <2>3 DEF OnceTurn
<1>4. ASSUME NEW pc \in {"approval_put", "persist_decision", "load_steps",
                         "persist_running", "ack"},
             h' = [h EXCEPT ![t] = [x EXCEPT !.pc = pc]],
             pc \in {"persist_decision", "load_steps"} => x.of \in Supervised,
             pc = "approval_put" => x.of \notin approvals,
             \A s \in Step : May([x EXCEPT !.pc = pc], s) => May(x, s),
             pc \in CopyPC => x.pc \in CopyPC
      PROVE  OnceTurn(t)
  <2> DEFINE y == [x EXCEPT !.pc = pc]
  <2>1. /\ y \in Handler /\ y.msg = x.msg /\ y.of = x.of /\ y.pc = pc /\ y.run = x.run
        /\ y.ok = x.ok
    BY <1>4 DEF Handler, PC, ApprovalPC
  <2>2. \A s \in Step : May(y, s) => May(x, s)
    BY <1>4
  <2>3. h' = [h EXCEPT ![t] = y]
    BY <1>4
  <2> HIDE DEF y
  <2> QED
    BY <1>1, <1>3, <1>4, <2>1, <2>2, <2>3
<1>5. ASSUME ApprovalGet(t) PROVE OnceTurn(t)
  <2>1. PICK pc \in {"ack", "approval_put"} :
            pc = IF x.of \in approvals THEN "ack" ELSE "approval_put"
    OBVIOUS
  <2> DEFINE y == [x EXCEPT !.pc = pc]
  <2>2. h' = [h EXCEPT ![t] = y] /\ y.pc = pc
    BY <1>1, <1>5, <1>x, <2>1 DEF ApprovalGet, Goto, Handler
  <2>3. pc \notin CopyPC
    BY <2>1 DEF CopyPC, TriggerPC
  <2>4. \A s \in Step : ~ May(y, s)
    BY <2>2 DEF May
  <2>5. pc = "approval_put" => x.of \notin approvals
    BY <2>1
  <2> QED
    BY <1>4, <2>2, <2>3, <2>4, <2>5
<1>6. ASSUME ApprovalPut(t) PROVE OnceTurn(t)
  <2> DEFINE y == [x EXCEPT !.pc = "load_run", !.own = TRUE]
  <2>1. /\ y \in Handler /\ y.msg = x.msg /\ y.of = x.of /\ y.pc = "load_run"
        /\ y.run = x.run /\ y.ok = x.ok
    BY DEF Handler, PC, ApprovalPC
  <2>2. h' = [h EXCEPT ![t] = y] /\ x.pc = "approval_put"
    BY <1>6, <1>x DEF ApprovalPut
  <2> HIDE DEF y
  <2>3. x.of \in Supervised => PutsKey(t, x.of)
    <3>1. h'[t] # h[t]
      BY <1>x, <2>1, <2>2 DEF Inv, TypeOK
    <3> QED
      BY <1>1, <1>6, <1>x, <2>2, <3>1
         DEF PutsKey, SeeksKey, KeyPC, Succeeds, ApprovalPut
  <2>4. \A s \in Step : May(y, s) => PutsKey(t, RunFor[s])
    BY <2>1, <2>3 DEF May
  <2>5. y.pc \notin CopyPC
    BY <2>1 DEF CopyPC, TriggerPC
  <2> QED
    BY <1>1, <1>3, <2>1, <2>2, <2>4, <2>5
<1>7. ASSUME LoadRun(t) PROVE OnceTurn(t)
  <2> DEFINE answer == Answer[x.msg]
  <2>1. x.pc = "load_run" /\ answer \in {"approve", "deny"}
    BY <1>2, <1>7, <1>x, MasterAssumption DEF LoadRun
  <2>2. CASE ~ Eligible(runs[x.of], answer)
    <3> DEFINE y == [x EXCEPT !.pc = "ack", !.own = FALSE]
    <3>1. /\ y \in Handler /\ y.msg = x.msg /\ y.of = x.of /\ y.pc = "ack"
          /\ y.run = x.run /\ y.ok = x.ok
      BY DEF Handler, PC
    <3>2. h' = [h EXCEPT ![t] = y]
      BY <1>1, <1>7, <1>x, <2>2 DEF LoadRun
    <3> HIDE DEF y
    <3>3. y.pc \notin CopyPC /\ \A s \in Step : ~ May(y, s)
      BY <3>1 DEF CopyPC, TriggerPC, May
    <3> QED
      BY <1>1, <1>3, <3>1, <3>2, <3>3
  <2>3. CASE Eligible(runs[x.of], answer)
    <3>1. x.of \in Supervised
      BY <1>1, <2>3 DEF Eligible, Gated
    <3>2. ASSUME NEW pc \in {"persist_decision", "load_steps"},
                 NEW status \in {"FAILED_SAFE", "RUNNING", "APPROVED"},
                 pc = "load_steps" => answer # "deny",
                 h' = [h EXCEPT ![t].pc = pc,
                          ![t].run = [runs[x.of] EXCEPT !.status = status,
                                                        !.decision = answer]]
          PROVE  OnceTurn(t)
      <4> DEFINE rec == [runs[x.of] EXCEPT !.status = status, !.decision = answer]
                 y == [x EXCEPT !.pc = pc, !.run = rec]
      <4>1. /\ rec \in RunRecord /\ rec.decision = answer
            /\ rec.seen = runs[x.of].seen
        BY <1>1, <2>1 DEF RunRecord, Status, Terminal, Decision
      <4>2. Gated(rec, x.of)
        BY <3>1 DEF Gated
      <4> HIDE DEF rec
      <4>3. /\ y \in Handler /\ y.msg = x.msg /\ y.of = x.of /\ y.pc = pc
            /\ y.run = rec /\ y.ok = x.ok
        BY <4>1 DEF Handler, PC, ApprovalPC
      <4>4. h' = [h EXCEPT ![t] = y]
        BY <1>x, <3>2 DEF rec
      <4> HIDE DEF y
      <4>5. \A s \in Step : May(y, s) => May(x, s)
        BY <2>1, <3>1, <4>3 DEF May
      <4>6. answer = "deny" => \A s \in Step : ~ May(y, s)
        BY <3>2, <4>3 DEF May
      <4> QED
        BY <1>3, <2>1, <3>1, <4>1, <4>2, <4>3, <4>4, <4>5, <4>6
    <3> QED
      BY <1>1, <1>7, <1>x, <2>3, <3>2 DEF LoadRun
  <2> QED
    BY <2>2, <2>3
<1>8. ASSUME PersistDecision(t) PROVE OnceTurn(t)
  <2>1. PICK pc \in {"ack", "load_steps"} :
            pc = IF Answer[x.msg] = "deny" THEN "ack" ELSE "load_steps"
    OBVIOUS
  <2> DEFINE y == [x EXCEPT !.pc = pc]
  <2>2. h' = [h EXCEPT ![t] = y] /\ y.pc = pc /\ y.of = x.of /\ x.pc = "persist_decision"
    BY <1>1, <1>8, <1>x, <2>1 DEF PersistDecision, Goto, Handler
  <2>3. x.pc \in CopyPC /\ x.of \in Supervised
    BY <1>1, <2>2 DEF CopyPC, Minds
  <2>4. \A s \in Step : May(y, s) => May(x, s)
    BY <2>1, <2>2 DEF May
  <2> QED
    BY <1>4, <2>2, <2>3, <2>4
<1>9. ASSUME LoadSteps(t) PROVE OnceTurn(t)
  <2> DEFINE todo == planned \cap StepsOf(x.of)
             pc == IF todo = {} THEN "persist_running" ELSE "publish"
             y == [x EXCEPT !.todo = todo, !.pc = pc]
  <2>1. x.pc = "load_steps" /\ x.of \in Supervised /\ x.pc \in CopyPC
    BY <1>1, <1>9, <1>x DEF LoadSteps, Minds, CopyPC
  <2>2. todo \in SUBSET Step
    BY DEF StepsOf
  <2>3. y \in Handler /\ y.msg = x.msg /\ y.of = x.of /\ y.pc = pc /\ y.run = x.run
        /\ y.todo = todo /\ y.ok = x.ok
    BY <2>2 DEF Handler, PC, ApprovalPC
  <2>4. h' = [h EXCEPT ![t] = y]
    BY <1>1, <1>9, <1>x DEF LoadSteps, Loop
  <2>5. y.pc \in {"persist_running", "publish"}
    BY <2>3
  <2> HIDE DEF y, pc
  <2>6. \A s \in Step : May(y, s) => May(x, s)
    BY <2>1, <2>3, <2>5 DEF May
  <2> QED
    BY <1>1, <1>3, <2>1, <2>3, <2>4, <2>5, <2>6
<1>10. ASSUME PersistRunning(t) PROVE OnceTurn(t)
  <2>1. PICK pc \in {"ack"} : TRUE
    OBVIOUS
  <2> DEFINE y == [x EXCEPT !.pc = pc]
  <2>2. h' = [h EXCEPT ![t] = y] /\ y.pc = pc
    BY <1>10, <1>x, <2>1 DEF PersistRunning, Goto, Handler
  <2>3. pc \notin CopyPC /\ \A s \in Step : ~ May(y, s)
    BY <2>2 DEF CopyPC, TriggerPC, May
  <2> QED
    BY <1>4, <2>2, <2>3
<1> QED
  BY <1>5, <1>6, <1>7, <1>8, <1>9, <1>10 DEF ApprovalStep

LEMMA PublishTurn ==
    ASSUME Inv, MindInv, NEW t \in Thread, NEW s \in Step, Publish(t, s)
    PROVE  OnceTurn(t)
<1>0. h[t].pc # "idle" /\ h[t].pc = "publish" /\ s \in h[t].todo
  BY DEF Publish
<1>x. PICK x \in Handler : x = h[t]
  BY <1>0, OnceAtWork
<1>1. Minds(x) /\ Gated(x.run, x.of) /\ x.msg \in Trigger \cup Approval /\ x.msg \notin Step
  BY <1>0, <1>x, OnceAtWork, Kinds DEF Trusts
<1> DEFINE then == IF x.msg \in Trigger THEN "persist_planned" ELSE "persist_running"
           pc == IF x.todo \ {s} = {} THEN then ELSE "publish"
           y == [x EXCEPT !.todo = x.todo \ {s}, !.pc = pc]
<1>2. /\ y \in Handler /\ y.msg = x.msg /\ y.of = x.of /\ y.pc = pc /\ y.run = x.run
      /\ y.todo = x.todo \ {s} /\ y.ok = x.ok
  <2>1. pc \in PC \cup {"idle"}
    BY DEF PC, TriggerPC, ApprovalPC
  <2>2. x.todo \ {s} \in SUBSET Step
    BY DEF Handler
  <2> HIDE DEF pc
  <2> QED
    BY <2>1, <2>2 DEF Handler
<1>3. h' = [h EXCEPT ![t] = y]
  BY <1>x DEF Publish, Loop
<1>4. y.pc \in {"publish", "persist_planned", "persist_running"}
  BY <1>2
<1> HIDE DEF y, pc
<1>5. Minds(y)
  BY <1>0, <1>1, <1>2, <1>4, <1>x DEF Minds
<1>6. Guards(x, y, t)
  <2>1. \A u \in Step : May(y, u) => May(x, u)
    BY <1>0, <1>2, <1>4, <1>x DEF May
  <2>2. \A r \in Run : ~ Seeks(y, r)
    BY <1>4 DEF Seeks, KeyPC
  <2> QED
    BY <1>0, <1>2, <1>x, <2>1, <2>2 DEF Guards
<1>7. Tallies(x, y, t)
  <2>1. \A u \in Step : ~ Relies(y, u)
    BY <1>1, <1>2 DEF Relies
  <2>2. x.pc \in CopyPC /\ y.pc # "persist_run"
    BY <1>0, <1>4, <1>x DEF CopyPC
  <2> QED
    BY <1>2, <2>1, <2>2 DEF Tallies
<1> QED
  BY <1>2, <1>3, <1>5, <1>6, <1>7, <1>x DEF OnceTurn

LEMMA ReceiveTurn ==
    ASSUME NEW t \in Thread, NEW m \in Msg, Receive(t, m)
    PROVE  OnceTurn(t)
<1>1. PICK pc \in {"idemp_get", "lock_get", "approval_get"} : Take(t, m, pc)
  BY DEF Receive
<1> DEFINE y == [Idle EXCEPT !.pc = pc, !.msg = m, !.of = RunFor[m]]
<1>2. y \in Handler
  BY Types DEF Handler, PC, TriggerPC, ResultPC, ApprovalPC
<1>3. h' = [h EXCEPT ![t] = y]
  BY <1>1 DEF Take
<1>4. /\ y.pc = pc /\ y.msg = m /\ y.ok = FALSE
      /\ y.run.decision = "none" /\ y.run.status = "NONE" /\ y.run.seen = {}
  BY DEF Idle, NoRecord, Blank
<1> HIDE DEF y
<1>5. Minds(y)
  BY <1>1, <1>4 DEF Minds, Gated
<1>6. Guards(h[t], y, t)
  <2>1. (\A s \in Step : ~ May(y, s)) /\ \A r \in Run : ~ Seeks(y, r)
    BY <1>4 DEF May, Seeks, KeyPC
  <2> QED
    BY <1>4, <2>1 DEF Guards
<1>7. Tallies(h[t], y, t)
  <2>1. y.pc \notin CopyPC /\ \A s \in Step : ~ Relies(y, s)
    BY <1>4 DEF Relies, CopyPC, TriggerPC
  <2> QED
    BY <1>4, <2>1 DEF Tallies
<1> QED
  BY <1>2, <1>3, <1>5, <1>6, <1>7 DEF OnceTurn

LEMMA ScanTurn ==
    ASSUME Inv, MindInv, NEW t \in Thread, NEW r \in Run, Scan(t, r)
    PROVE  OnceTurn(t)
<1>1. runs[r] \in RunRecord /\ r \in Supervised
  BY DEF MindInv, Inv, TypeOK, Gated, Scan
<1>2. PICK rec \in RunRecord : rec = [runs[r] EXCEPT !.decision = "timeout"]
  BY <1>1 DEF RunRecord, Decision
<1>r. rec.decision = "timeout" /\ rec.seen = runs[r].seen
  BY <1>1, <1>2 DEF RunRecord
<1> DEFINE y == [Idle EXCEPT !.pc = "persist_timeout", !.of = r, !.run = rec]
<1>3. y \in Handler
  BY <1>2, Types DEF Handler, PC
<1>4. h' = [h EXCEPT ![t] = y]
  BY <1>2 DEF Scan
<1>5. y.pc = "persist_timeout" /\ y.msg = NoMsg /\ y.of = r /\ y.run = rec /\ y.ok = FALSE
  BY DEF Idle
<1> HIDE DEF y
<1>6. Minds(y)
  BY <1>1, <1>5, Kinds DEF Minds, Gated
<1>7. Guards(h[t], y, t)
  <2>1. (\A s \in Step : ~ May(y, s)) /\ \A u \in Run : ~ Seeks(y, u)
    BY <1>5 DEF May, Seeks, KeyPC
  <2> QED
    BY <1>r, <1>5, <2>1 DEF Guards
<1>8. Tallies(h[t], y, t)
  <2>1. \A s \in Step : ~ Relies(y, s)
    BY <1>5 DEF Relies
  <2> QED
    BY <1>r, <1>5, <2>1 DEF Tallies
<1> QED
  BY <1>3, <1>4, <1>6, <1>7, <1>8 DEF OnceTurn

LEMMA FaultTurn ==
    ASSUME Inv, MindInv, NEW t \in Thread, Fault(t)
    PROVE  OnceTurn(t)
<1>0. h[t].pc # "idle"
  BY DEF Fault
<1>x. PICK x \in Handler : x = h[t]
  BY <1>0, OnceAtWork
<1>1. Minds(x) /\ Gated(x.run, x.of)
  BY <1>0, <1>x, OnceAtWork
<1>2. ASSUME NEW y \in Handler, h' = [h EXCEPT ![t] = y], y.msg = x.msg, y.of = x.of,
             y.run = x.run, y.pc \in {"release", "ack"}, y.ok => x.ok, y.pc = "ack" => y.ok
      PROVE  OnceTurn(t)
  <2>1. Minds(y)
    BY <1>0, <1>1, <1>2, <1>x DEF Minds
  <2>2. Guards(x, y, t)
    <3>1. (\A s \in Step : ~ May(y, s)) /\ \A r \in Run : ~ Seeks(y, r)
      BY <1>2 DEF May, Seeks, KeyPC
    <3> QED
      BY <1>0, <1>2, <1>x, <3>1 DEF Guards
  <2>3. Tallies(x, y, t)
    <3>1. ASSUME NEW s \in Step, Relies(y, s) PROVE Relies(x, s)
      BY <1>2, <3>1 DEF Relies
    <3>2. y.pc \notin CopyPC
      BY <1>2 DEF CopyPC, TriggerPC
    <3> QED
      BY <1>2, <3>1, <3>2 DEF Tallies
  <2> QED
    BY <1>2, <1>x, <2>1, <2>2, <2>3 DEF OnceTurn
<1>3. CASE h' = [h EXCEPT ![t] = Idle]
  BY <1>3, OnceRests
<1>4. CASE h' = [h EXCEPT ![t].pc = "release", ![t].ok = FALSE]
  <2> DEFINE y == [x EXCEPT !.pc = "release", !.ok = FALSE]
  <2>1. /\ y \in Handler /\ y.msg = x.msg /\ y.of = x.of /\ y.run = x.run
        /\ y.pc = "release" /\ y.ok = FALSE
    BY DEF Handler, PC, ResultPC
  <2>2. h' = [h EXCEPT ![t] = y]
    BY <1>x, <1>4
  <2> HIDE DEF y
  <2> QED
    BY <1>2, <2>1, <2>2
<1>5. CASE x.ok /\ h' = [h EXCEPT ![t] = [@ EXCEPT !.pc = "ack", !.own = FALSE]]
  <2> DEFINE y == [x EXCEPT !.pc = "ack", !.own = FALSE]
  <2>1. /\ y \in Handler /\ y.msg = x.msg /\ y.of = x.of /\ y.run = x.run
        /\ y.pc = "ack" /\ y.ok = x.ok
    BY DEF Handler, PC
  <2>2. h' = [h EXCEPT ![t] = y]
    BY <1>x, <1>5
  <2> HIDE DEF y
  <2> QED
    BY <1>2, <1>5, <2>1, <2>2
<1> QED
  BY <1>3, <1>4, <1>5, <1>x DEF Fault

(* Every step is a turn of one goroutine, or sends some to rest. *)
LEMMA EveryOnceTurn ==
    ASSUME Inv, MindInv, NEW t \in Thread, Turn(t)
    PROVE  OnceTurn(t)
<1>1. CASE Ack(t) \/ PersistTimeout(t)
  BY <1>1, OnceRests DEF Ack, PersistTimeout
<1> QED
  BY <1>1, TriggerTurn, ResultTurn, ApprovalTurn, PublishTurn, ReceiveTurn, ScanTurn,
     FaultTurn DEF Turn, Handle

LEMMA Rest ==
    ASSUME Inv, Elsewhere \/ \E p \in Proc : Crash(p)
    PROVE  /\ \A t \in Thread : h'[t] = h[t] \/ (h'[t] = Idle /\ ~ UNCHANGED <<crashes, faults>>)
           /\ UNCHANGED <<published, approvals, idemp, runs, planned>>
           /\ \A s \in Step : delivery'[s] = "acked" => delivery[s] = "acked"
           /\ results \subseteq results'
<1>1. CASE Elsewhere
  <2>1. UNCHANGED <<h, published, approvals, idemp, runs, planned>>
    BY <1>1 DEF Elsewhere, WorkerStep, Decide, Redeliver, WorkerStart, WorkerReport,
       WorkerRelease, WorkerReplay, LockExpires, GroupExpires, intake, worker
  <2>2. results \subseteq results'
    BY <1>1 DEF Elsewhere, WorkerStep, Decide, Redeliver, WorkerStart, WorkerReport,
       WorkerRelease, WorkerReplay, LockExpires, GroupExpires, outcome
  <2>3. \A s \in Step : delivery'[s] = "acked" => delivery[s] = "acked"
    <3>1. ASSUME NEW m \in Msg, Decide(m) \/ Redeliver(m)
          PROVE  \A s \in Step : delivery'[s] = "acked" => delivery[s] = "acked"
      <4>1. delivery' = [delivery EXCEPT ![m] = "ready"]
        BY <3>1 DEF Decide, Redeliver
      <4> QED
        BY <4>1, Types DEF Inv, TypeOK
    <3>2. ASSUME NEW u \in Step, WorkerStep(u)
          PROVE  \A s \in Step : delivery'[s] = "acked" => delivery[s] = "acked"
      <4>1. UNCHANGED delivery \/ delivery' = [delivery EXCEPT ![u] = "ready"]
        BY <3>2 DEF WorkerStep, WorkerStart, WorkerReport, WorkerRelease, WorkerReplay
      <4> QED
        BY <4>1, Types DEF Inv, TypeOK
    <3>3. ASSUME (\E r \in Run : LockExpires(r)) \/ \E g \in Group : GroupExpires(g)
          PROVE  UNCHANGED delivery
      BY <3>3 DEF LockExpires, GroupExpires
    <3> QED
      BY <1>1, <3>1, <3>2, <3>3 DEF Elsewhere
  <2> QED
    BY <2>1, <2>2, <2>3
<1>2. ASSUME NEW p \in Proc, Crash(p)
      PROVE  /\ \A t \in Thread : h'[t] = h[t] \/ (h'[t] = Idle /\ ~ UNCHANGED <<crashes, faults>>)
             /\ UNCHANGED <<published, approvals, idemp, runs, planned, delivery, results>>
  <2>1. crashes' # crashes
    BY <1>2 DEF Crash, Inv, TypeOK
  <2> QED
    BY <1>2, <2>1 DEF Crash, intake, worker, outcome, count
<1> QED
  BY <1>1, <1>2

-----------------------------------------------------------------------------
(* A step changes one goroutine, or puts some to rest. *)
LEMMA Moved ==
    ASSUME Inv, MindInv, Next, NEW t \in Thread
    PROVE  \/ h'[t] = h[t]
           \/ h'[t] = Idle
           \/ /\ Turn(t)
              /\ \A u \in Thread \ {t} : h'[u] = h[u]
              /\ Minds(h'[t]) /\ Guards(h[t], h'[t], t) /\ Tallies(h[t], h'[t], t)
<1>0. h \in [Thread -> Handler]
  BY DEF Inv, TypeOK
<1>1. ASSUME NEW u \in Thread, Turn(u)
      PROVE  \/ h'[t] = h[t]
             \/ /\ Turn(t)
                /\ \A v \in Thread \ {t} : h'[v] = h[v]
                /\ Minds(h'[t]) /\ Guards(h[t], h'[t], t) /\ Tallies(h[t], h'[t], t)
  <2>1. PICK y \in Handler : /\ h' = [h EXCEPT ![u] = y]
                             /\ Minds(y) /\ Guards(h[u], y, u) /\ Tallies(h[u], y, u)
    BY <1>1, EveryOnceTurn DEF OnceTurn
  <2>2. h'[u] = y /\ \A v \in Thread \ {u} : h'[v] = h[v]
    BY <1>0, <2>1
  <2> QED
    BY <1>1, <2>1, <2>2
<1> QED
  BY <1>1, Rest, NextCases

(* A call that succeeds is the step, of its goroutine and of no other. *)
LEMMA Succeeding ==
    ASSUME Inv, MindInv, Next, NEW t \in Thread, Succeeds(t)
    PROVE  /\ Turn(t) /\ ~ Fault(t)
           /\ \A u \in Thread \ {t} : h'[u] = h[u] /\ ~ Succeeds(u)
<1>1. PICK u \in Thread : Turn(u)
  BY Rest, NextCases DEF Succeeds
<1>2. h \in [Thread -> Handler] /\ faults \in Nat
  BY MasterAssumption DEF Inv, TypeOK
<1>3. \A v \in Thread \ {u} : h'[v] = h[v]
  BY <1>1, <1>2, EveryOnceTurn DEF OnceTurn
<1>4. t = u
  BY <1>3 DEF Succeeds
<1>5. ~ Fault(t)
  BY <1>2 DEF Fault, Succeeds
<1> QED
  BY <1>1, <1>3, <1>4, <1>5 DEF Succeeds

LEMMA MindStep == ASSUME Inv, MindInv, Next PROVE \A t \in Thread : Minds(h[t])'
<1>1. ASSUME NEW t \in Thread PROVE Minds(h'[t])
  BY Moved, IdleMinds DEF MindInv
<1> QED
  BY <1>1 DEF Minds, Gated

-----------------------------------------------------------------------------
(* A trigger that has been taken goes on past its key. *)
LEMMA Taken ==
    ASSUME h \in [Thread -> Handler], NEW t \in Thread, PersistIdempotency(t)
    PROVE  h'[t].pc \in {"reject", "persist_step", "persist_waiting", "publish",
                         "persist_planned"}
<1>1. Planned(t) \in {"persist_waiting", "publish", "persist_planned"}
  BY DEF Planned
<1>2. PICK pc \in {"reject", "persist_step", "persist_waiting", "publish",
                  "persist_planned"} :
          \/ h' = [h EXCEPT ![t].pc = pc]
          \/ h' = [h EXCEPT ![t].todo = StepsOf(Of(t)), ![t].pc = pc]
  <2>1. CASE Goto(t, "reject")
    BY <2>1 DEF Goto
  <2>2. CASE Loop(t, StepsOf(Of(t)), "persist_step", Planned(t))
    BY <1>1, <2>2 DEF Loop
  <2> QED
    BY <2>1, <2>2 DEF PersistIdempotency
<1> QED
  BY <1>2 DEF Handler

(* The key of a run. *)
LEMMA KeyPut ==
    ASSUME Inv, MindInv, Next, NEW t \in Thread, NEW r \in Run, PutsKey(t, r)
    PROVE  /\ Key(r)' /\ UNCHANGED published
           /\ ~ Seeks(h'[t], r)
           /\ Key(r) /\ t \in late => again'[r] = again[r] + 1
           /\ \A u \in Thread \ {t} : Seeks(h[u], r) => u \in late'
           /\ \A u \in Thread \ {t} : h'[u] = h[u] /\ ~ PutsKey(u, r)
<1>0. h \in [Thread -> Handler]
  BY DEF Inv, TypeOK
<1>1. /\ Turn(t) /\ ~ Fault(t)
      /\ \A u \in Thread \ {t} : h'[u] = h[u] /\ ~ Succeeds(u)
  BY Succeeding DEF PutsKey
<1>2. /\ h[t].of = r
      /\ h[t].pc = IF r \in Supervised THEN "approval_put" ELSE "persist_idemp"
  BY DEF PutsKey, SeeksKey, KeyPC, Of
<1>k. ASSUME KeyIsPut(t)
      PROVE  /\ Key(r) /\ t \in late => again'[r] = again[r] + 1
             /\ \A u \in Thread \ {t} : Seeks(h[u], r) => u \in late'
  BY <1>k DEF KeyIsPut, PutsKey, SeeksKey, Seeks, Of
<1>3. CASE r \in Supervised
  <2>1. ApprovalPut(t)
    BY <1>1, <1>2, <1>3 DEF Turn, Handle, TriggerStep, ResultStep, ApprovalStep, Receive, Scan,
       Ack, PersistTimeout, Publish, IdempGet, GroupGet, GroupPut, PersistCreated,
       PersistIdempotency, Reject, PersistStep, PersistWaiting, Request, PersistPlanned,
       LockGet, LockPut, ResultGet, ResultPut, RunGet, Reconcile, PersistResult, Release,
       ApprovalGet, LoadRun, PersistDecision, LoadSteps, PersistRunning
  <2>2. r \in approvals' /\ UNCHANGED published /\ KeyIsPut(t)
    BY <1>2, <2>1 DEF ApprovalPut, worker, Of
  <2>3. h'[t].pc = "load_run"
    BY <1>0, <2>1 DEF ApprovalPut
  <2> QED
    BY <1>k, <1>1, <1>3, <2>2, <2>3 DEF Key, PutsKey, Seeks, KeyPC
<1>4. CASE r \notin Supervised
  <2>1. PersistIdempotency(t)
    BY <1>1, <1>2, <1>4 DEF Turn, Handle, TriggerStep, ResultStep, ApprovalStep, Receive, Scan,
       Ack, PersistTimeout, Publish, IdempGet, GroupGet, GroupPut, PersistCreated,
       Reject, PersistStep, PersistWaiting, Request, PersistPlanned,
       LockGet, LockPut, ResultGet, ResultPut, RunGet, Reconcile, PersistResult, Release,
       ApprovalGet, ApprovalPut, LoadRun, PersistDecision, LoadSteps, PersistRunning
  <2>2. r \in idemp' /\ UNCHANGED published /\ KeyIsPut(t)
    BY <1>2, <2>1 DEF PersistIdempotency, worker, Of
  <2>3. h'[t].pc \in {"reject", "persist_step", "persist_waiting", "publish", "persist_planned"}
    BY <1>0, <2>1, Taken
  <2> QED
    BY <1>k, <1>1, <1>4, <2>2, <2>3 DEF Key, PutsKey, Seeks, KeyPC
<1> QED
  BY <1>3, <1>4

(* Nobody else creates it. *)
LEMMA KeyComes ==
    ASSUME Inv, MindInv, Next, NEW r \in Run, ~ Key(r), Key(r)'
    PROVE  \E t \in Thread : PutsKey(t, r)
<1>0. h \in [Thread -> Handler]
  BY DEF Inv, TypeOK
<1>1. PICK t \in Thread : Turn(t)
  <2>1. ~ UNCHANGED <<approvals, idemp>>
    BY DEF Key
  <2> QED
    BY <2>1, Rest, NextCases
<1>2. UNCHANGED approvals \/ ApprovalPut(t) \/ Fault(t)
  BY <1>1 DEF Turn, Handle, TriggerStep, ResultStep, ApprovalStep, Receive, Scan,
     Ack, PersistTimeout, Publish, IdempGet, GroupGet, GroupPut, PersistCreated,
     PersistIdempotency, Reject, PersistStep, PersistWaiting, Request, PersistPlanned,
     LockGet, LockPut, ResultGet, ResultPut, RunGet, Reconcile, PersistResult, Release,
     ApprovalGet, LoadRun, PersistDecision, LoadSteps, PersistRunning
<1>3. Fault(t) => approvals' \subseteq approvals
  BY DEF Fault, Undo
<1>4. UNCHANGED idemp \/ PersistIdempotency(t)
  BY <1>1 DEF Turn, Handle, TriggerStep, ResultStep, ApprovalStep, Receive, Scan,
     Ack, PersistTimeout, Publish, IdempGet, GroupGet, GroupPut, PersistCreated,
     Reject, PersistStep, PersistWaiting, Request, PersistPlanned,
     LockGet, LockPut, ResultGet, ResultPut, RunGet, Reconcile, PersistResult, Release,
     ApprovalGet, ApprovalPut, LoadRun, PersistDecision, LoadSteps, PersistRunning, Fault, intake
<1>5. CASE r \in Supervised
  <2>1. ApprovalPut(t) /\ Of(t) = r
    BY <1>2, <1>3, <1>5 DEF Key, ApprovalPut
  <2>2. h'[t].pc = "load_run"
    BY <1>0, <2>1 DEF ApprovalPut
  <2> QED
    BY <1>5, <2>1, <2>2 DEF PutsKey, SeeksKey, KeyPC, Succeeds, ApprovalPut
<1>6. CASE r \notin Supervised
  <2>1. PersistIdempotency(t) /\ Of(t) = r
    BY <1>4, <1>6 DEF Key, PersistIdempotency
  <2>2. h'[t].pc \in {"reject", "persist_step", "persist_waiting", "publish", "persist_planned"}
    BY <1>0, <2>1, Taken
  <2> QED
    BY <1>6, <2>1, <2>2 DEF PutsKey, SeeksKey, KeyPC, Succeeds, PersistIdempotency
<1> QED
  BY <1>5, <1>6

(* The steps that touch the keys or their history. *)
LEMMA KeyCases ==
    ASSUME Next
    PROVE  \/ UNCHANGED <<again, late, approvals, idemp>>
           \/ \E t \in Thread : IdempGet(t) \/ ApprovalGet(t) \/ PersistIdempotency(t)
                                   \/ ApprovalPut(t) \/ Fault(t)
           \/ \E p \in Proc : Crash(p)
<1>1. ASSUME NEW t \in Thread, Handle(t)
      PROVE  \/ UNCHANGED <<again, late, approvals, idemp>>
             \/ IdempGet(t) \/ ApprovalGet(t) \/ PersistIdempotency(t) \/ ApprovalPut(t)
  BY <1>1 DEF Handle, TriggerStep, ResultStep, ApprovalStep, Ack, PersistTimeout, Publish,
     GroupGet, GroupPut, PersistCreated, Reject, PersistStep, PersistWaiting, Request,
     PersistPlanned, LockGet, LockPut, ResultGet, ResultPut, RunGet, Reconcile,
     PersistResult, Release, LoadRun, PersistDecision, LoadSteps, PersistRunning,
     intake, count
<1>2. ASSUME NEW t \in Thread, Turn(t), ~ Handle(t), ~ Fault(t)
      PROVE  UNCHANGED <<again, late, approvals, idemp>>
  BY <1>2 DEF Turn, Receive, Scan, intake, count
<1>3. ASSUME Elsewhere PROVE UNCHANGED <<again, late, approvals, idemp>>
  BY <1>3 DEF Elsewhere, WorkerStep, Decide, Redeliver, WorkerStart, WorkerReport,
     WorkerRelease, WorkerReplay, LockExpires, GroupExpires, intake, count
<1> QED
  BY <1>1, <1>2, <1>3, NextCases

(* A goroutine that is late stays so until it has put the key or given up.  *)
LEMMA LateStays ==
    ASSUME Inv, MindInv, Next, NEW t \in Thread, NEW r \in Run,
           t \in late, Seeks(h[t], r), Seeks(h'[t], r)
    PROVE  t \in late'
<1>0. h \in [Thread -> Handler]
  BY DEF Inv, TypeOK
<1>1. ASSUME NEW u \in Thread, IdempGet(u) \/ ApprovalGet(u) PROVE t \in late'
  <2>1. h[u].pc \in {"idemp_get", "approval_get"} /\ late' = late \ {u}
    BY <1>1 DEF IdempGet, ApprovalGet, LooksForKey
  <2> QED
    BY <2>1 DEF Seeks, KeyPC
<1>2. ASSUME NEW u \in Thread, PersistIdempotency(u) \/ ApprovalPut(u) PROVE t \in late'
  <2>1. late \ {u} \subseteq late'
    BY <1>2 DEF PersistIdempotency, ApprovalPut, KeyIsPut
  <2>2. CASE u = t
    <3>1. CASE PersistIdempotency(t)
      <4>1. h'[t].pc \in {"reject", "persist_step", "persist_waiting", "publish",
                          "persist_planned"}
        BY <1>0, <3>1, Taken
      <4> QED
        BY <4>1 DEF Seeks, KeyPC
    <3>2. CASE ApprovalPut(t)
      <4>1. h'[t].pc = "load_run"
        BY <1>0, <3>2 DEF ApprovalPut
      <4> QED
        BY <4>1 DEF Seeks, KeyPC
    <3> QED
      BY <1>2, <2>2, <3>1, <3>2
  <2> QED
    BY <2>1, <2>2
<1>3. ASSUME NEW u \in Thread, Fault(u) PROVE t \in late'
  <2>1. late' = {v \in late : h'[v] = h[v]}
    BY <1>3 DEF Fault, KeysAreDeleted
  <2>2. CASE u # t
    <3>1. Turn(u)
      BY <1>3 DEF Turn
    <3>2. h'[t] = h[t]
      BY <1>0, <2>2, <3>1, EveryOnceTurn DEF OnceTurn
    <3> QED
      BY <2>1, <3>2
  <2>3. CASE u = t
    <3>1. h'[t].pc \in {"idle", "release", "ack"}
      <4>1. CASE h' = [h EXCEPT ![t] = Idle]
        BY <1>0, <4>1, IdleMinds
      <4>2. CASE h' = [h EXCEPT ![t].pc = "release", ![t].ok = FALSE]
        BY <1>0, <4>2 DEF Handler
      <4>3. CASE h' = [h EXCEPT ![t] = [@ EXCEPT !.pc = "ack", !.own = FALSE]]
        BY <1>0, <4>3 DEF Handler
      <4> QED
        BY <1>3, <2>3, <4>1, <4>2, <4>3 DEF Fault
    <3> QED
      BY <3>1 DEF Seeks, KeyPC
  <2> QED
    BY <2>2, <2>3
<1>4. ASSUME NEW p \in Proc, Crash(p) PROVE t \in late'
  BY <1>4, IdleMinds DEF Crash
<1> QED
  BY <1>1, <1>2, <1>3, <1>4, KeyCases

(* A key that is deleted is lost, and counted as such. *)
LEMMA Losses ==
    ASSUME Inv, Next, NEW r \in Run
    PROVE  /\ again[r] \in Nat /\ again'[r] \in {again[r], again[r] + 1}
           /\ Key(r) /\ ~ Key(r)' => again'[r] = again[r] + 1
<1>0. again \in [Run -> Nat]
  BY DEF Inv, TypeOK
<1>1. CASE UNCHANGED <<again, approvals, idemp>>
  BY <1>0, <1>1 DEF Key
<1>2. ASSUME NEW t \in Thread, IdempGet(t) \/ ApprovalGet(t)
      PROVE  UNCHANGED <<again, approvals, idemp>>
  BY <1>2 DEF IdempGet, ApprovalGet, LooksForKey, intake
<1>3. ASSUME NEW t \in Thread, PersistIdempotency(t) \/ ApprovalPut(t)
      PROVE  /\ again'[r] \in {again[r], again[r] + 1}
             /\ approvals \subseteq approvals' /\ idemp \subseteq idemp'
  <2>1. again'[r] \in {again[r], again[r] + 1}
    BY <1>3 DEF PersistIdempotency, ApprovalPut, KeyIsPut
  <2> QED
    BY <1>3, <2>1 DEF PersistIdempotency, ApprovalPut, intake
<1>4. ASSUME NEW t \in Thread, Fault(t)
      PROVE  /\ again'[r] \in {again[r], again[r] + 1}
             /\ r \in Supervised \cap (approvals \ approvals') => again'[r] = again[r] + 1
             /\ UNCHANGED idemp
  BY <1>4 DEF Fault, KeysAreDeleted, intake
<1>5. ASSUME NEW p \in Proc, Crash(p) PROVE UNCHANGED <<again, approvals, idemp>>
  BY <1>5 DEF Crash, intake
<1> QED
  BY <1>0, <1>1, <1>2, <1>3, <1>4, <1>5, KeyCases DEF Key

LEMMA LateStep == ASSUME OInv, Next PROVE LateInv'
<1>0. Inv /\ MindInv /\ LateInv
  BY DEF OInv
<1>1. ASSUME NEW t \in Thread, NEW r \in Run, Seeks(h'[t], r), Key(r)'
      PROVE  t \in late'
  <2>1. Seeks(h[t], r) \/ ~ Key(r)
    BY <1>0, <1>1, Moved, IdleMinds DEF Guards
  <2>2. CASE Key(r)
    BY <1>0, <1>1, <2>1, <2>2, LateStays DEF LateInv
  <2>3. CASE ~ Key(r)
    <3>1. PICK u \in Thread : PutsKey(u, r)
      BY <1>0, <1>1, <2>3, KeyComes
    <3>2. u # t /\ h'[t] = h[t]
      BY <1>0, <1>1, <3>1, KeyPut
    <3>3. Seeks(h[t], r)
      BY <1>1, <3>2
    <3> QED
      BY <1>0, <3>1, <3>2, <3>3, KeyPut
  <2> QED
    BY <2>2, <2>3
<1> QED
  BY <1>1 DEF LateInv, Seeks

(* What the losses of the key pay for. *)
LEMMA Budget ==
    ASSUME OInv, Next, NEW r \in Run
    PROVE  /\ again[r] \in Nat /\ again'[r] \in Nat /\ again[r] <= again'[r]
           /\ Puts(r) \in 0 .. 1 /\ Puts(r)' \in 0 .. 1
           /\ Puts(r) + again[r] <= Puts(r)' + again'[r]
           /\ again'[r] = again[r] /\ Key(r) =>
                 Key(r)' /\ \A t \in Thread : ~ PutsKey(t, r)
           /\ \A t \in Thread :
                 PutsKey(t, r) => Puts(r) + again[r] + 1 <= Puts(r)' + again'[r]
<1>0. Inv /\ MindInv /\ LateInv
  BY DEF OInv
<1>1. /\ again[r] \in Nat /\ again'[r] \in {again[r], again[r] + 1}
      /\ Key(r) /\ ~ Key(r)' => again'[r] = again[r] + 1
  BY <1>0, Losses
<1>2. /\ Puts(r) = IF Key(r) THEN 1 ELSE 0
      /\ Puts(r)' = IF Key(r)' THEN 1 ELSE 0
  BY DEF Puts, Key
<1>3. ASSUME NEW t \in Thread, PutsKey(t, r)
      PROVE  Key(r)' /\ (Key(r) => again'[r] = again[r] + 1)
  <2>1. Key(r)' /\ (Key(r) /\ t \in late => again'[r] = again[r] + 1)
    BY <1>0, <1>3, KeyPut
  <2>2. Key(r) => t \in late
    BY <1>0, <1>3 DEF LateInv, PutsKey, SeeksKey, Seeks, Of
  <2> QED
    BY <2>1, <2>2
<1> QED
  BY <1>1, <1>2, <1>3

-----------------------------------------------------------------------------
(* Each release is by a goroutine that the key let through, which is not    *)
(* let through again without a loss of the key.                             *)
LEMMA PendingStep ==
    ASSUME Inv, MindInv, Next, NEW s \in Step
    PROVE  /\ \A t \in Pending(s)' : t \in Pending(s) \/ PutsKey(t, RunFor[s])
           /\ \/ UNCHANGED published[s]
              \/ \E t \in Thread : /\ h[t].pc = "publish" /\ ~ PutsKey(t, RunFor[s])
                                   /\ t \in Pending(s) /\ t \notin Pending(s)'
                                   /\ published'[s] = published[s] + 1
<1>0. /\ h \in [Thread -> Handler] /\ published \in [Step -> Nat]
      /\ RunFor[s] \in Run
  BY MasterAssumption DEF Inv, TypeOK, Msg
<1>1. ASSUME NEW t \in Thread, May(h'[t], s) PROVE May(h[t], s) \/ PutsKey(t, RunFor[s])
  BY <1>1, Moved, IdleMinds DEF Guards
<1>2. ASSUME NEW t \in Thread, NEW u \in Step, Publish(t, u)
      PROVE  \/ UNCHANGED published[s]
             \/ /\ h[t].pc = "publish" /\ ~ PutsKey(t, RunFor[s])
                /\ t \in Pending(s) /\ t \notin Pending(s)'
                /\ published'[s] = published[s] + 1
  <2>1. CASE u # s
    BY <1>0, <1>2, <2>1 DEF Publish
  <2>2. CASE u = s
    <3>1. h[t].pc = "publish" /\ s \in h[t].todo /\ published'[s] = published[s] + 1
      BY <1>0, <1>2, <2>2 DEF Publish
    <3>2. h[t].todo \subseteq StepsOf(h[t].of)
      BY <3>1 DEF Inv, Trusts
    <3>3. May(h[t], s)
      BY <3>1, <3>2 DEF May, StepsOf
    <3>4. PICK pc \in {"publish", "persist_planned", "persist_running"} :
              h' = [h EXCEPT ![t].todo = h[t].todo \ {s}, ![t].pc = pc]
      BY <1>2, <2>2 DEF Publish, Loop
    <3>5. h'[t].todo = h[t].todo \ {s} /\ h'[t].pc = pc
      BY <1>0, <3>4 DEF Handler
    <3>6. ~ May(h'[t], s)
      BY <3>5 DEF May
    <3>7. ~ PutsKey(t, RunFor[s])
      BY <3>1 DEF PutsKey
    <3> QED
      BY <3>1, <3>3, <3>6, <3>7 DEF Pending, May
  <2> QED
    BY <2>1, <2>2
<1>3. UNCHANGED published \/ \E t \in Thread, u \in Step : Publish(t, u)
  <2>1. ASSUME NEW t \in Thread, Handle(t)
        PROVE  UNCHANGED published \/ \E u \in Step : Publish(t, u)
    BY <2>1 DEF Handle, TriggerStep, ResultStep, ApprovalStep, Ack, PersistTimeout, IdempGet,
       GroupGet, GroupPut, PersistCreated, PersistIdempotency, Reject, PersistStep,
       PersistWaiting, Request, PersistPlanned, LockGet, LockPut, ResultGet, ResultPut,
       RunGet, Reconcile, PersistResult, Release, ApprovalGet, ApprovalPut, LoadRun,
       PersistDecision, LoadSteps, PersistRunning, worker
  <2>2. ASSUME NEW t \in Thread, Turn(t), ~ Handle(t) PROVE UNCHANGED published
    BY <2>2 DEF Turn, Receive, Scan, Fault, worker
  <2> QED
    BY <2>1, <2>2, Rest, NextCases
<1>4. \A t \in Pending(s)' : t \in Thread /\ May(h'[t], s)
  BY DEF Pending, May
<1> QED
  BY <1>1, <1>2, <1>3, <1>4 DEF Pending

LEMMA Few == \A s \in Step : IsFiniteSet(Pending(s)) /\ Cardinality(Pending(s)) \in Nat
<1>1. \A s \in Step : Pending(s) \in SUBSET Thread /\ IsFiniteSet(Thread)
  BY MasterAssumption DEF Pending
<1> QED
  BY <1>1, FS_Subset, FS_CardinalityType

LEMMA OnceStep == ASSUME OInv, Next PROVE OnceInv'
<1>0. Inv /\ MindInv /\ Next /\ OnceInv /\ published \in [Step -> Nat]
  BY DEF OInv, Inv, TypeOK
<1>1. ASSUME NEW s \in Step
      PROVE  (published[s] + Cardinality(Pending(s)) <= Puts(RunFor[s]) + again[RunFor[s]])'
  <2> DEFINE P == Pending(s)
             Q == Pending(s)'
             r == RunFor[s]
  <2>1. r \in Run /\ published[s] \in Nat
    BY <1>0, MasterAssumption DEF Msg
  <2>2. /\ again[r] \in Nat /\ again'[r] \in Nat /\ Puts(r) \in Nat /\ Puts(r)' \in Nat
        /\ Puts(r) + again[r] <= Puts(r)' + again'[r]
        /\ \A t \in Thread : PutsKey(t, r) => Puts(r) + again[r] + 1 <= Puts(r)' + again'[r]
    BY <2>1, Budget
  <2>3. published[s] + Cardinality(P) <= Puts(r) + again[r]
    BY <1>0 DEF OnceInv
  <2>4. IsFiniteSet(P) /\ Cardinality(P) \in Nat
    BY Few
  <2>5. /\ \A t \in Q : t \in P \/ PutsKey(t, r)
        /\ \/ UNCHANGED published[s]
           \/ \E t \in Thread : /\ h[t].pc = "publish" /\ ~ PutsKey(t, r)
                                /\ t \in P /\ t \notin Q
                                /\ published'[s] = published[s] + 1
    BY <1>0, PendingStep
  <2>6. Q \subseteq Thread
    BY DEF Pending
  <2> HIDE DEF P, Q, r
  <2>7. CASE \E t \in Thread : PutsKey(t, r)
    <3>1. PICK t \in Thread : PutsKey(t, r)
      BY <2>7
    <3>2. UNCHANGED published /\ \A u \in Thread \ {t} : ~ PutsKey(u, r)
      BY <1>0, <2>1, <3>1, KeyPut
    <3>3. Q \in SUBSET (P \cup {t})
      BY <2>5, <2>6, <3>2
    <3>4. /\ IsFiniteSet(P \cup {t})
          /\ Cardinality(P \cup {t}) \in {Cardinality(P), Cardinality(P) + 1}
      BY <2>4, FS_AddElement
    <3>5. Cardinality(Q) <= Cardinality(P \cup {t}) /\ Cardinality(Q) \in Nat
      BY <3>3, <3>4, FS_Subset, FS_CardinalityType
    <3>6. Cardinality(Q) <= Cardinality(P) + 1
      BY <2>4, <3>4, <3>5
    <3>7. published'[s] + Cardinality(Q) <= Puts(r)' + again'[r]
      BY <2>1, <2>2, <2>3, <2>4, <3>1, <3>2, <3>5, <3>6
    <3> QED
      BY <3>7 DEF Q, r
  <2>8. CASE ~ \E t \in Thread : PutsKey(t, r)
    <3>1. Q \in SUBSET P
      BY <2>5, <2>6, <2>8
    <3>2. Cardinality(Q) <= Cardinality(P) /\ Cardinality(Q) \in Nat
      BY <2>4, <3>1, FS_Subset, FS_CardinalityType
    <3>3. published'[s] + Cardinality(Q) <= published[s] + Cardinality(P)
      <4>1. CASE UNCHANGED published[s]
        BY <2>1, <2>4, <3>2, <4>1
      <4>2. CASE \E t \in Thread : /\ t \in P /\ t \notin Q
                                   /\ published'[s] = published[s] + 1
        <5>1. PICK t \in Thread : t \in P /\ t \notin Q /\ published'[s] = published[s] + 1
          BY <4>2
        <5>2. /\ IsFiniteSet(P \ {t})
              /\ Cardinality(P \ {t}) = Cardinality(P) - 1
          BY <2>4, <5>1, FS_RemoveElement
        <5>3. Q \in SUBSET (P \ {t})
          BY <3>1, <5>1
        <5>4. Cardinality(Q) <= Cardinality(P) - 1
          BY <5>2, <5>3, FS_Subset
        <5> QED
          BY <2>1, <2>4, <3>2, <5>1, <5>4
      <4> QED
        BY <2>5, <4>1, <4>2
    <3>4. published'[s] + Cardinality(Q) <= Puts(r)' + again'[r]
      <4>1. published'[s] \in Nat
        BY <1>0, <2>1, <2>5
      <4> QED
        BY <2>1, <2>2, <2>3, <2>4, <3>2, <3>3, <4>1
    <3> QED
      BY <3>4 DEF Q, r
  <2> QED
    BY <2>7, <2>8
<1> QED
  BY <1>1 DEF OnceInv

-----------------------------------------------------------------------------
(* A record is written from the copy of the handler that writes it; who     *)
(* counts a result does so.                                                 *)
LEMMA TurnWrites ==
    ASSUME Inv, MindInv, NEW t \in Thread, Turn(t)
    PROVE  \/ UNCHANGED runs /\ h[t].pc # "persist_run"
           \/ Fault(t)
           \/ /\ h[t].pc \in WritePC
              /\ \E rec \in RunRecord :
                    /\ runs' = [runs EXCEPT ![h[t].of] = rec]
                    /\ rec.seen = h[t].run.seen
                    /\ rec.decision \in {"none", h[t].run.decision}
                    /\ Gated(rec, h[t].of)
<1> DEFINE Written == \E rec \in RunRecord :
                          /\ runs' = [runs EXCEPT ![h[t].of] = rec]
                          /\ rec.seen = h[t].run.seen
                          /\ rec.decision \in {"none", h[t].run.decision}
                          /\ Gated(rec, h[t].of)
<1>1. ASSUME NEW status \in Status, h[t].pc # "idle", PersistRun(t, status),
             \/ status = h[t].run.status
             \/ status \in Status \ {"WAITING_APPROVAL", "APPROVED"}
      PROVE  Written
  <2>1. h[t].run \in RunRecord /\ Of(t) = h[t].of /\ Gated(h[t].run, h[t].of)
    BY <1>1, OnceAtWork
  <2> DEFINE rec == [h[t].run EXCEPT !.status = status]
  <2>2. rec \in RunRecord /\ rec.status = status /\ rec.decision = h[t].run.decision
      /\ rec.seen = h[t].run.seen
    BY <2>1 DEF RunRecord
  <2>3. runs' = [runs EXCEPT ![h[t].of] = rec]
    BY <1>1, <2>1 DEF PersistRun
  <2> HIDE DEF rec
  <2>4. Gated(rec, h[t].of)
    BY <1>1, <2>1, <2>2 DEF Gated
  <2> QED
    BY <2>2, <2>3, <2>4
<1>2. ASSUME NEW status \in {"WAITING_APPROVAL", "PLANNED"},
             h[t].pc # "idle", h[t].run.seen = {},
             status = "WAITING_APPROVAL" => h[t].of \in Supervised,
             runs' = [runs EXCEPT ![Of(t)] = [Blank(status) EXCEPT
                                                  !.total = Cardinality(StepsOf(Of(t)))]]
      PROVE  Written
  <2>1. h[t].of \in Run /\ Of(t) = h[t].of
    BY <1>2, OnceAtWork
  <2> DEFINE n == Cardinality(StepsOf(Of(t)))
             rec == [Blank(status) EXCEPT !.total = n]
  <2>2. n \in Nat /\ Blank(status) \in RunRecord
    BY <2>1, Types DEF Status
  <2> HIDE DEF n
  <2>3. rec \in RunRecord /\ rec.status = status /\ rec.decision = "none" /\ rec.seen = {}
    BY <2>2 DEF RunRecord, Blank
  <2>4. runs' = [runs EXCEPT ![h[t].of] = rec]
    BY <1>2, <2>1 DEF n
  <2> HIDE DEF rec
  <2>5. Gated(rec, h[t].of)
    BY <1>2, <2>3 DEF Gated
  <2> QED
    BY <1>2, <2>3, <2>4, <2>5
<1>3. \/ UNCHANGED runs /\ h[t].pc # "persist_run"
      \/ Fault(t)
      \/ /\ h[t].pc \in WritePC
         /\ \/ \E status \in {"CREATED", "FAILED_SAFE", "RUNNING", "MANUAL_REVIEW_REQUIRED"} :
                    PersistRun(t, status)
            \/ PersistRun(t, h[t].run.status)
            \/ PersistWaiting(t)
            \/ PersistPlanned(t)
  <2>1. CASE Handle(t)
    BY <2>1 DEF Handle, Ack, PersistTimeout, TriggerStep, IdempGet, GroupGet, GroupPut,
       PersistCreated, PersistIdempotency, Reject, PersistStep, PersistWaiting, Request,
       PersistPlanned, ResultStep, LockGet, LockPut, ResultGet, ResultPut, RunGet, Reconcile,
       PersistResult, Release, ApprovalStep, ApprovalGet, ApprovalPut, LoadRun,
       PersistDecision, LoadSteps, PersistRunning, Publish, WritePC
  <2>2. CASE ~ Handle(t) /\ ~ Fault(t)
    BY <2>2 DEF Turn, Receive, Scan
  <2> QED
    BY <2>1, <2>2
<1>4. ASSUME h[t].pc # "idle", PersistRun(t, h[t].run.status) PROVE Written
  <2>1. PICK status \in Status : status = h[t].run.status
    BY <1>4, OnceAtWork DEF RunRecord
  <2> QED
    BY <1>1, <1>4, <2>1
<1>5. ASSUME h[t].pc # "idle",
             NEW status \in {"CREATED", "FAILED_SAFE", "RUNNING", "MANUAL_REVIEW_REQUIRED"},
             PersistRun(t, status)
      PROVE  Written
  BY <1>1, <1>5 DEF Status, Terminal
<1>6. ASSUME PersistWaiting(t) \/ PersistPlanned(t) PROVE Written
  <2>1. /\ h[t].pc \in {"persist_waiting", "persist_planned"}
        /\ \/ h[t].pc = "persist_waiting" /\ PersistWaiting(t)
           \/ h[t].pc = "persist_planned" /\ PersistPlanned(t)
    BY <1>6 DEF PersistWaiting, PersistPlanned
  <2>2. Minds(h[t]) /\ Trusts(h[t]) /\ h[t].pc # "idle"
    BY <2>1, OnceAtWork
  <2>3. /\ h[t].run.seen = {}
        /\ h[t].pc = "persist_waiting" => h[t].of \in Supervised
    BY <2>1, <2>2 DEF Minds, Trusts, TriggerPC
  <2> QED
    BY <1>2, <2>1, <2>2, <2>3 DEF PersistWaiting, PersistPlanned
<1>7. h[t].pc \in WritePC => h[t].pc # "idle"
  BY DEF WritePC
<1> QED
  BY <1>3, <1>4, <1>5, <1>6, <1>7

LEMMA RunWrites ==
    ASSUME Inv, MindInv, Next
    PROVE  \/ UNCHANGED runs /\ \A t \in Thread : ~ Counts(t)
           \/ \E t \in Thread :
                 /\ Writes(t) /\ h[t].pc # "idle"
                 /\ \A u \in Thread \ {t} : ~ Succeeds(u)
                 /\ \E rec \in RunRecord :
                       /\ runs' = [runs EXCEPT ![h[t].of] = rec]
                       /\ rec.seen = h[t].run.seen
                       /\ rec.decision \in {"none", h[t].run.decision}
                       /\ Gated(rec, h[t].of)
<1>1. CASE \E t \in Thread : Turn(t) /\ ~ Fault(t) /\ h[t].pc \in WritePC
                                /\ ~ (UNCHANGED runs /\ h[t].pc # "persist_run")
  <2>1. PICK t \in Thread : Turn(t) /\ ~ Fault(t) /\ h[t].pc \in WritePC
                              /\ ~ (UNCHANGED runs /\ h[t].pc # "persist_run")
    BY <1>1
  <2>2. \E rec \in RunRecord :
            /\ runs' = [runs EXCEPT ![h[t].of] = rec]
            /\ rec.seen = h[t].run.seen
            /\ rec.decision \in {"none", h[t].run.decision}
            /\ Gated(rec, h[t].of)
    BY <2>1, TurnWrites
  <2>3. Handle(t)
    BY <2>1 DEF Turn, Receive, Scan, WritePC
  <2>4. h'[t].pc # h[t].pc /\ UNCHANGED <<crashes, faults>>
    <3>0. h \in [Thread -> Handler] /\ h[t].pc # "publish" /\ h[t].pc # "persist_step"
      BY <2>1 DEF Inv, TypeOK, WritePC
    <3>1. UNCHANGED <<crashes, faults>>
      BY <2>3 DEF Handle, Ack, PersistTimeout, TriggerStep, IdempGet, GroupGet, GroupPut,
         PersistCreated, PersistIdempotency, Reject, PersistStep, PersistWaiting, Request,
         PersistPlanned, ResultStep, LockGet, LockPut, ResultGet, ResultPut, RunGet, Reconcile,
         PersistResult, Release, ApprovalStep, ApprovalGet, ApprovalPut, LoadRun,
         PersistDecision, LoadSteps, PersistRunning, Publish, count
    <3>2. CASE PersistIdempotency(t)
      BY <2>1, <3>0, <3>1, <3>2, Taken DEF PersistIdempotency
    <3>3. ASSUME NEW pc \in {"persist_idemp", "ack", "request", "load_steps"},
                 Goto(t, pc), h[t].pc # pc
          PROVE  h'[t].pc # h[t].pc
      BY <3>0, <3>3 DEF Goto, Handler
    <3>4. CASE PersistCreated(t) \/ Reject(t) \/ PersistWaiting(t) \/ PersistPlanned(t)
                   \/ PersistDecision(t) \/ PersistRunning(t)
      BY <2>1, <3>1, <3>3, <3>4 DEF PersistCreated, Reject, PersistWaiting, PersistPlanned,
         PersistDecision, PersistRunning
    <3>5. CASE PersistResult(t)
      BY <3>0, <3>1, <3>5 DEF PersistResult, Handler
    <3>6. CASE PersistTimeout(t)
      BY <3>0, <3>1, <3>6, IdleMinds DEF PersistTimeout
    <3>7. \/ PersistIdempotency(t) \/ PersistResult(t) \/ PersistTimeout(t)
          \/ PersistCreated(t) \/ Reject(t) \/ PersistWaiting(t) \/ PersistPlanned(t)
          \/ PersistDecision(t) \/ PersistRunning(t)
      BY <2>1, <2>3, <3>0 DEF Handle, Ack, TriggerStep, IdempGet, GroupGet, GroupPut,
         PersistStep, Request, ResultStep, LockGet, LockPut, ResultGet, ResultPut, RunGet,
         Reconcile, Release, ApprovalStep, ApprovalGet, ApprovalPut, LoadRun, LoadSteps,
         Publish, WritePC
    <3> QED
      BY <3>1, <3>2, <3>4, <3>5, <3>6, <3>7
  <2>5. Succeeds(t) /\ Writes(t) /\ h[t].pc # "idle"
    BY <2>1, <2>4 DEF Succeeds, Writes, WritePC
  <2>6. \A u \in Thread \ {t} : ~ Succeeds(u)
    BY <2>5, Succeeding
  <2> QED
    BY <2>2, <2>5, <2>6
<1>2. CASE ~ \E t \in Thread : Turn(t) /\ ~ Fault(t) /\ h[t].pc \in WritePC
                                /\ ~ (UNCHANGED runs /\ h[t].pc # "persist_run")
  <2>1. UNCHANGED runs
    <3>1. CASE \E t \in Thread : Turn(t)
      <4>1. PICK t \in Thread : Turn(t)
        BY <3>1
      <4> QED
        BY <1>2, <4>1, TurnWrites DEF Fault
    <3> QED
      BY <3>1, Rest, NextCases
  <2>2. ASSUME NEW t \in Thread, Counts(t) PROVE FALSE
    <3>1. Turn(t) /\ ~ Fault(t) /\ h[t].pc = "persist_run"
      BY <2>2, Succeeding DEF Counts
    <3> QED
      BY <1>2, <3>1 DEF WritePC
  <2> QED
    BY <2>1, <2>2
<1> QED
  BY <1>1, <1>2

(* Counting a result ends a handler's use of its copy. *)
LEMMA CountingEnds ==
    ASSUME Inv, MindInv, Next, NEW t \in Thread, Counts(t)
    PROVE  ~ HasCopy(t)'
<1>1. Turn(t) /\ ~ Fault(t) /\ h[t].pc = "persist_run"
  BY Succeeding DEF Counts
<1>2. PersistResult(t)
  BY <1>1 DEF Turn, Handle, TriggerStep, ResultStep, ApprovalStep, Receive, Scan,
     Ack, PersistTimeout, Publish, IdempGet, GroupGet, GroupPut, PersistCreated,
     PersistIdempotency, Reject, PersistStep, PersistWaiting, Request, PersistPlanned,
     LockGet, LockPut, ResultGet, ResultPut, RunGet, Reconcile, Release,
     ApprovalGet, ApprovalPut, LoadRun, PersistDecision, LoadSteps, PersistRunning
<1>3. h'[t].pc = "release"
  BY <1>2 DEF PersistResult, Inv, TypeOK, Handler
<1> QED
  BY <1>3 DEF HasCopy, CopyPC, TriggerPC

LEMMA GatedStep == ASSUME Inv, MindInv, Next PROVE \A r \in Run : Gated(runs[r], r)'
<1>1. ASSUME NEW r \in Run PROVE Gated(runs'[r], r)
  <2>1. runs \in [Run -> RunRecord] /\ Gated(runs[r], r)
    BY DEF MindInv, Inv, TypeOK
  <2> QED
    BY <2>1, RunWrites
<1> QED
  BY <1>1 DEF Gated

-----------------------------------------------------------------------------
(* A denial: while no key is lost, the denying handler has passed the key   *)
(* alone, and goes on to release nothing.                                   *)
LEMMA DeniedStep == ASSUME OInv, Next PROVE DeniedInv'
<1>0. /\ Inv /\ MindInv /\ OnceInv /\ DeniedInv /\ Next
      /\ h \in [Thread -> Handler] /\ published \in [Step -> Nat]
      /\ runs \in [Run -> RunRecord]
  BY DEF OInv, Inv, TypeOK
<1>1. ASSUME NEW s \in Step, Denied(RunFor[s])', again'[RunFor[s]] = 0
      PROVE  /\ RunFor[s] \in Supervised \cap approvals'
             /\ published'[s] = 0
             /\ Pending(s)' = {}
  <2> DEFINE r == RunFor[s]
  <2>1. r \in Run /\ published[s] \in Nat
    BY <1>0, MasterAssumption DEF Msg
  <2>2. /\ again[r] = 0 /\ again'[r] = again[r]
        /\ Key(r) => Key(r)' /\ \A t \in Thread : ~ PutsKey(t, r)
        /\ Puts(r) \in 0 .. 1
    BY <1>1, <2>1, Budget
  <2>3. /\ \A t \in Pending(s)' : t \in Pending(s) \/ PutsKey(t, r)
        /\ \/ UNCHANGED published[s]
           \/ \E t \in Thread : /\ h[t].pc = "publish" /\ ~ PutsKey(t, r)
                                /\ t \in Pending(s) /\ t \notin Pending(s)'
                                /\ published'[s] = published[s] + 1
    BY <1>0, PendingStep
  <2>4. CASE Denied(r)
    <3>1. r \in Supervised \cap approvals /\ published[s] = 0 /\ Pending(s) = {}
      BY <1>0, <2>2, <2>4 DEF DeniedInv
    <3>2. r \in approvals' /\ \A t \in Thread : ~ PutsKey(t, r)
      BY <2>2, <3>1 DEF Key
    <3>3. Pending(s)' \subseteq Thread
      BY DEF Pending
    <3> QED
      BY <2>3, <3>1, <3>2, <3>3
  <2>5. CASE ~ Denied(r)
    <3>1. runs'[r].decision # "deny"
      BY <1>0, <2>1, <2>5, RunWrites DEF Denied
    <3>2. PICK t \in Thread : h'[t].pc # "idle" /\ h'[t].of = r /\ h'[t].run.decision = "deny"
      BY <1>1, <3>1 DEF Denied
    <3>3. h'[t] # h[t] /\ h'[t] # Idle
      BY <2>5, <3>2, IdleMinds DEF Denied
    <3>4. Guards(h[t], h'[t], t)
      BY <1>0, <3>3, Moved
    <3>5. /\ h[t].pc = "load_run" /\ h[t].of = r /\ r \in Supervised
          /\ \A u \in Step : ~ May(h'[t], u)
      BY <2>5, <3>2, <3>4 DEF Guards, Denied
    <3>6. t \in Pending(s) /\ t \notin Pending(s)'
      BY <3>5 DEF Pending, May
    <3>7. /\ IsFiniteSet(Pending(s)) /\ Cardinality(Pending(s)) \in Nat
          /\ IsFiniteSet(Pending(s) \ {t})
          /\ Cardinality(Pending(s) \ {t}) = Cardinality(Pending(s)) - 1
      BY <3>6, Few, FS_RemoveElement
    <3>8. Cardinality(Pending(s) \ {t}) \in Nat
      BY <3>7, FS_CardinalityType
    <3>9. published[s] + Cardinality(Pending(s)) <= Puts(r)
      BY <1>0, <2>1, <2>2, <3>7 DEF OnceInv
    <3>10. /\ published[s] = 0 /\ Puts(r) = 1
           /\ Cardinality(Pending(s) \ {t}) = 0
      BY <2>1, <2>2, <3>7, <3>8, <3>9
    <3>11. Pending(s) \ {t} = {}
      BY <3>7, <3>10, FS_EmptySet
    <3>12. Key(r) /\ r \in approvals'
      BY <2>2, <3>5, <3>10 DEF Key, Puts
    <3>13. Pending(s)' \subseteq Thread
      BY DEF Pending
    <3>14. Pending(s)' = {}
      BY <2>2, <2>3, <3>6, <3>11, <3>12, <3>13
    <3>15. UNCHANGED published[s]
      BY <2>3, <3>5, <3>11
    <3> QED
      BY <3>5, <3>10, <3>12, <3>14, <3>15
  <2> QED
    BY <2>4, <2>5
<1> QED
  BY <1>1 DEF DeniedInv

-----------------------------------------------------------------------------
(* Results. *)
LEMMA Acked ==
    ASSUME Inv, MindInv, Next, NEW s \in Step, delivery'[s] = "acked"
    PROVE  delivery[s] = "acked" \/ \E t \in Thread : h[t].msg = s /\ h[t].ok
<1>0. delivery \in [Msg -> {"none", "ready", "pending", "acked"}] /\ s \in Msg
  BY Kinds DEF Inv, TypeOK
<1>1. ASSUME NEW t \in Thread, Ack(t)
      PROVE  delivery[s] = "acked" \/ (h[t].msg = s /\ h[t].ok)
  <2>1. CASE h[t].msg # s
    BY <1>0, <1>1, <2>1 DEF Ack
  <2>2. CASE h[t].msg = s
    BY <1>1, <2>2 DEF Ack, MindInv, Minds
  <2> QED
    BY <2>1, <2>2
<1>2. ASSUME NEW t \in Thread, NEW m \in Msg, Receive(t, m) PROVE delivery[s] = "acked"
  BY <1>0, <1>2 DEF Receive
<1>3. ASSUME NEW t \in Thread, Turn(t), ~ Ack(t)
      PROVE  UNCHANGED delivery \/ \E m \in Msg : Receive(t, m)
  <2>1. CASE Handle(t)
    BY <1>3, <2>1 DEF Handle, TriggerStep, ResultStep, ApprovalStep, PersistTimeout, IdempGet,
       GroupGet, GroupPut, PersistCreated, PersistIdempotency, Reject, PersistStep,
       PersistWaiting, Request, PersistPlanned, LockGet, LockPut, ResultGet, ResultPut,
       RunGet, Reconcile, PersistResult, Release, ApprovalGet, ApprovalPut, LoadRun,
       PersistDecision, LoadSteps, PersistRunning, Publish
  <2>2. CASE ~ Handle(t)
    BY <1>3, <2>2 DEF Turn, Fault, Scan
  <2> QED
    BY <2>1, <2>2
<1> QED
  BY <1>1, <1>2, <1>3, Rest, NextCases

LEMMA RelyStep == ASSUME HInv, HNext PROVE RelyInv'
<1>0. Inv /\ MindInv /\ RelyInv /\ Next /\ Record
  BY DEF HInv, HNext
<1>1. ASSUME NEW s \in Step, Relied(s)' PROVE s \in results' \cup forgotten'
  <2>1. Relied(s) \/ s \in results'
    <3>1. CASE delivery'[s] = "acked"
      BY <1>0, <3>1, Acked DEF Relied, ReliesOn
    <3>2. ASSUME NEW t \in Thread, Relies(h'[t], s) PROVE Relied(s) \/ s \in results'
      <4>1. Relies(h[t], s) \/ s \in results'
        BY <1>0, <3>2, Moved, IdleMinds DEF Tallies
      <4> QED
        BY <4>1 DEF Relies, Relied, ReliesOn
    <3> QED
      BY <1>1, <3>1, <3>2 DEF Relied, ReliesOn, Relies
  <2>2. s \in results \cup forgotten \cup results'
    BY <1>0, <2>1 DEF RelyInv
  <2> QED
    BY <1>0, <2>2 DEF Record
<1> QED
  BY <1>1 DEF RelyInv

(* A result that is settled has been relied on, and was released. *)
LEMMA SettledIs ==
    ASSUME Inv, MindInv, NEW s \in Step, Settled(s) \/ \E t \in Thread : Counts(t) /\ h[t].msg = s
    PROVE  Relied(s) /\ s \in planned /\ RunFor[s] \in idemp
<1>1. Relied(s)
  BY DEF Settled, Relied, ReliesOn, Counts
<1>2. delivery[s] # "none"
  <2>1. ASSUME NEW t \in Thread, h[t].msg = s, h[t].ok \/ Counts(t) PROVE delivery[s] # "none"
    <3>1. h[t].pc # "idle"
      BY <2>1 DEF MindInv, Minds, Counts
    <3> QED
      BY <2>1, <3>1, Kinds DEF Inv, Trusts
  <2> QED
    BY <2>1 DEF Settled
<1>3. published[s] > 0
  BY <1>2 DEF Inv, Worked
<1>4. StepsOf(RunFor[s]) \subseteq planned /\ RunFor[s] \in idemp
  BY <1>3 DEF Inv, PlannedBeforeReleased
<1> QED
  BY <1>1, <1>4 DEF StepsOf

(* What is settled after a step, and not forgotten, was settled before or   *)
(* is being counted, by a handler that has seen it.                         *)
LEMMA Settles ==
    ASSUME HInv, HNext, NEW s \in Step, Settled(s)', s \notin forgotten'
    PROVE  /\ s \notin forgotten /\ s \in results /\ s \in planned /\ RunFor[s] \in idemp
           /\ \/ Settled(s)
              \/ \E t \in Thread : /\ Counts(t) /\ h[t].msg = s /\ s \in h[t].run.seen
                                   /\ h[t].of = RunFor[s]
<1>0. Inv /\ MindInv /\ RelyInv /\ Next /\ Record
  BY DEF HInv, HNext
<1>1. Settled(s) \/ \E t \in Thread : Counts(t) /\ h[t].msg = s
  <2>1. CASE delivery'[s] = "acked"
    BY <1>0, <2>1, Acked DEF Settled
  <2>2. ASSUME NEW t \in Thread, h'[t].msg = s, h'[t].ok
        PROVE  Settled(s) \/ (Counts(t) /\ h[t].msg = s)
    BY <1>0, <2>2, Moved, IdleMinds DEF Tallies, Settled
  <2> QED
    BY <2>1, <2>2 DEF Settled
<1>2. Relied(s) /\ s \in planned /\ RunFor[s] \in idemp
  BY <1>0, <1>1, SettledIs
<1>3. s \notin forgotten
  BY <1>0, <1>2 DEF Record
<1>4. s \in results
  BY <1>0, <1>2, <1>3 DEF RelyInv
<1>5. ASSUME NEW t \in Thread, Counts(t), h[t].msg = s
      PROVE  s \in h[t].run.seen /\ h[t].of = RunFor[s]
  <2>1. h[t].pc = "persist_run" /\ h[t].pc # "idle" /\ s # NoMsg
    BY <1>5, Kinds DEF Counts
  <2> QED
    BY <1>0, <1>5, <2>1 DEF MindInv, Minds, Inv, Trusts
<1> QED
  BY <1>1, <1>2, <1>3, <1>4, <1>5

(* The record of a run after a step. *)
LEMMA CountsRecord ==
    ASSUME HInv, HNext, NEW r \in Run \ overwritten'
    PROVE  Full(runs[r].seen, r)'
<1>0. /\ Inv /\ MindInv /\ CountInv /\ Next /\ Record
      /\ runs \in [Run -> RunRecord]
  BY DEF HInv, HNext, Inv, TypeOK
<1>1. CASE runs'[r] = runs[r] /\ \A t \in Thread : Of(t) = r => ~ Counts(t)
  <2>2. r \notin overwritten
    BY <1>0, <1>1 DEF Record
  <2>3. ASSUME NEW s \in StepsOf(r), s \notin forgotten', Settled(s)'
        PROVE  s \in runs[r].seen
    <3>1. s \in Step /\ RunFor[s] = r
      BY DEF StepsOf
    <3>2. Settled(s) /\ s \notin forgotten
      BY <1>1, <2>3, <3>1, Settles DEF Of
    <3> QED
      BY <1>0, <2>2, <3>2 DEF CountInv, Full
  <2> QED
    BY <1>1, <2>3 DEF Full, StepsOf
<1>2. ASSUME NEW t \in Thread, Of(t) = r, Writes(t), runs'[r].seen = h[t].run.seen,
             \A u \in Thread \ {t} : ~ Succeeds(u)
      PROVE  Full(runs[r].seen, r)'
  <2>1. Writes(t) /\ Succeeds(t) /\ \A u \in Thread \ {t} : ~ Counts(u)
    BY <1>2 DEF Counts, Writes
  <2>3. HasCopy(t) /\ t \notin outdated
    <3>1. HasCopy(t)
      BY <2>1 DEF Writes, WritePC, HasCopy, CopyPC, TriggerPC
    <3>2. ASSUME t \in outdated PROVE FALSE
      <4>1. r \in {Of(u) : u \in {v \in outdated : Writes(v)}}
        BY <1>2, <2>1, <3>2
      <4>2. r \notin {Of(u) : u \in {v \in Thread \ outdated : Counts(v)}}
        BY <2>1, <3>2
      <4> QED
        BY <1>0, <4>1, <4>2 DEF Record
    <3> QED
      BY <3>1, <3>2
  <2>4. Full(h[t].run.seen, r)
    <3>1. CASE Full(h[t].run.seen, Of(t))
      BY <1>2, <3>1
    <3>2. CASE r \in overwritten /\ h[t].pc # "persist_run"
      <4>1. \A u \in Thread : ~ Counts(u)
        BY <2>1, <3>2 DEF Counts
      <4> QED
        BY <1>0, <3>2, <4>1 DEF Record
    <3> QED
      BY <1>0, <1>2, <2>3, <3>1, <3>2 DEF CountInv
  <2>5. ASSUME NEW s \in StepsOf(r), s \notin forgotten', Settled(s)'
        PROVE  s \in h[t].run.seen
    <3>1. s \in Step
      BY DEF StepsOf
    <3> QED
      BY <2>1, <2>4, <2>5, <3>1, Settles DEF Full
  <2> QED
    BY <1>2, <2>5 DEF Full, StepsOf
<1>3. CASE ~ (runs'[r] = runs[r] /\ \A t \in Thread : Of(t) = r => ~ Counts(t))
  <2>1. PICK t \in Thread :
            /\ Writes(t) /\ \A u \in Thread \ {t} : ~ Succeeds(u)
            /\ \E rec \in RunRecord : /\ runs' = [runs EXCEPT ![h[t].of] = rec]
                                     /\ rec.seen = h[t].run.seen
    BY <1>0, <1>3, RunWrites
  <2>2. Of(t) = r
    BY <1>0, <1>3, <2>1 DEF Of, Counts
  <2>3. runs'[r].seen = h[t].run.seen
    BY <1>0, <2>1, <2>2 DEF Of
  <2> QED
    BY <1>2, <2>1, <2>2, <2>3
<1> QED
  BY <1>1, <1>3

(* The copy of a handler after a step. *)
LEMMA CountsCopy ==
    ASSUME HInv, HNext, NEW t \in Thread, NEW y \in Handler, y = h'[t],
           t \notin outdated', y.pc \in CopyPC
    PROVE  \/ Full(y.run.seen, y.of)'
           \/ y.of \in overwritten' /\ y.pc # "persist_run"
<1>0. Inv /\ MindInv /\ CountInv /\ Next /\ Record /\ Idle.pc \notin CopyPC
  BY IdleMinds DEF HInv, HNext
<1>1. ~ Counts(t)
  BY <1>0, CountingEnds DEF HasCopy
<1>2. HasCopy(t)'
  BY DEF HasCopy
<1> DEFINE r == y.of
(* What is complete for the others stays so if nobody counts a result. *)
<1>3. ASSUME NEW seen, Full(seen, r), \A u \in Thread : Of(u) = r => ~ Counts(u)
      PROVE  Full(seen, r)'
  <2>1. ASSUME NEW s \in StepsOf(r), s \notin forgotten', Settled(s)'
        PROVE  s \in seen
    <3>1. s \in Step /\ RunFor[s] = r
      BY DEF StepsOf
    <3>2. s \notin forgotten /\ Settled(s)
      BY <1>3, <2>1, <3>1, Settles DEF Of
    <3> QED
      BY <1>3, <2>1, <3>2 DEF Full
  <2> QED
    BY <2>1 DEF Full, StepsOf
<1>4. ASSUME r \in overwritten, \A u \in Thread : Of(u) = r => ~ Counts(u)
      PROVE  r \in overwritten'
  BY <1>0, <1>4 DEF Record
<1>5. CASE y = h[t]
  <2>1. HasCopy(t) /\ Of(t) = r
    BY <1>5 DEF HasCopy, Of
  <2>2. t \notin outdated /\ \A u \in Thread \ {t} : Of(u) = r => ~ Counts(u)
    BY <1>0, <1>2, <2>1 DEF Record
  <2>3. Full(h[t].run.seen, r) \/ (r \in overwritten /\ h[t].pc # "persist_run")
    BY <1>0, <2>1, <2>2 DEF CountInv
  <2>4. \A u \in Thread : Of(u) = r => ~ Counts(u)
    BY <1>1, <2>2
  <2> QED
    BY <1>3, <1>4, <1>5, <2>3, <2>4
<1>6. CASE y # h[t]
  <2>1. /\ Turn(t) /\ \A u \in Thread \ {t} : h'[u] = h[u]
        /\ Tallies(h[t], y, t)
    BY <1>0, <1>2, <1>6, Moved
  <2>2. \A u \in Thread : ~ Counts(u)
    BY <1>1, <2>1 DEF Counts, Succeeds
  <2>3. CASE /\ h[t].pc \in CopyPC /\ r = h[t].of
             /\ y.run.seen = h[t].run.seen /\ y.pc # "persist_run"
    <3>1. HasCopy(t) /\ Of(t) = r
      BY <2>3 DEF HasCopy, Of
    <3>2. t \notin outdated
      BY <1>0, <1>2, <3>1 DEF Record
    <3>3. Full(h[t].run.seen, r) \/ r \in overwritten
      BY <1>0, <3>2, <3>1 DEF CountInv
    <3> QED
      BY <1>3, <1>4, <2>2, <2>3, <3>3
  <2>4. CASE r \notin idemp
    <3>1. ASSUME NEW s \in StepsOf(r), s \notin forgotten', Settled(s)'
          PROVE  FALSE
      <4>1. s \in Step /\ RunFor[s] = r
        BY DEF StepsOf
      <4> QED
        BY <2>4, <3>1, <4>1, Settles
    <3> QED
      BY <3>1 DEF Full, StepsOf
  <2>5. CASE planned \cap results \cap StepsOf(r) \subseteq y.run.seen
    <3>1. ASSUME NEW s \in StepsOf(r), s \notin forgotten', Settled(s)'
          PROVE  s \in y.run.seen
      <4>1. s \in Step
        BY DEF StepsOf
      <4>2. s \in planned /\ s \in results
        BY <3>1, <4>1, Settles
      <4> QED
        BY <2>5, <4>2
    <3> QED
      BY <3>1 DEF Full, StepsOf
  <2>6. CASE y.run.seen = runs[r].seen /\ y.pc # "persist_run" /\ r \in Run
    <3>1. Full(runs[r].seen, r) \/ r \in overwritten
      BY <1>0, <2>6 DEF CountInv
    <3> QED
      BY <1>3, <1>4, <2>2, <2>6, <3>1
  <2>7. r \in Run
    <3>1. y.pc # "idle"
      BY <1>0, IdleMinds
    <3>2. Trusts(y)'
      BY <1>0, TrustStep
    <3> QED
      BY <3>1, <3>2 DEF Trusts
  <2> QED
    BY <1>2, <2>1, <2>3, <2>4, <2>5, <2>6, <2>7 DEF Tallies
<1> QED
  BY <1>5, <1>6

LEMMA CountStep == ASSUME HInv, HNext PROVE CountInv'
<1>1. \A r \in Run \ overwritten' : Full(runs[r].seen, r)'
  BY CountsRecord
<1>2. ASSUME NEW t \in Thread, t \notin outdated', HasCopy(t)'
      PROVE  \/ Full(h[t].run.seen, Of(t))'
             \/ Of(t)' \in overwritten' /\ h'[t].pc # "persist_run"
  <2>1. Inv'
    BY InvStep DEF HInv, HNext
  <2>2. PICK y \in Handler : y = h'[t]
    BY <2>1 DEF Inv, TypeOK
  <2>3. \/ Full(y.run.seen, y.of)'
        \/ y.of \in overwritten' /\ y.pc # "persist_run"
    BY <1>2, <2>2, CountsCopy DEF HasCopy
  <2> QED
    BY <2>2, <2>3 DEF Of, Full
<1> QED
  BY <1>1, <1>2 DEF CountInv

-----------------------------------------------------------------------------
LEMMA MindInit == Init => Inv /\ MindInv /\ \A t \in Thread : h[t] = Idle
<1> SUFFICES ASSUME Init PROVE Inv /\ MindInv /\ \A t \in Thread : h[t] = Idle
  OBVIOUS
<1>1. Inv
  BY InvInit
<1>2. \A t \in Thread : h[t] = Idle
  BY DEF Init
<1>3. MindInv
  BY <1>2, IdleMinds DEF MindInv, Init, Gated, NoRecord, Blank
<1> QED
  BY <1>1, <1>2, <1>3

LEMMA OInvInit == Init => OInv
<1> SUFFICES ASSUME Init PROVE OInv
  OBVIOUS
<1>1. Inv /\ MindInv
  BY MindInit
<1>2. \A t \in Thread : h[t] = Idle
  BY MindInit
<1>4. \A s \in Step : again[RunFor[s]] = 0
  BY MasterAssumption DEF Init, Msg
<1>5. LateInv
  BY <1>2, IdleMinds DEF LateInv
<1>6. ASSUME NEW s \in Step PROVE published[s] = 0 /\ Pending(s) = {} /\ Puts(RunFor[s]) = 0
  <2>1. published[s] = 0 /\ ~ Key(RunFor[s])
    BY DEF Init, Key
  <2>2. Pending(s) = {}
    BY <1>2, IdleMinds DEF Pending
  <2> QED
    BY <2>1, <2>2 DEF Puts
<1>7. OnceInv
  <2>1. Cardinality({}) = 0
    BY FS_EmptySet
  <2>2. ASSUME NEW s \in Step
        PROVE  published[s] + Cardinality(Pending(s)) <= Puts(RunFor[s]) + again[RunFor[s]]
    <3>1. /\ published[s] = 0 /\ Cardinality(Pending(s)) = 0
          /\ Puts(RunFor[s]) = 0 /\ again[RunFor[s]] = 0
      BY <1>4, <1>6, <2>1
    <3> QED
      BY <3>1
  <2> QED
    BY <2>2 DEF OnceInv
<1>8. DeniedInv
  <2>1. \A r \in Run : ~ Denied(r)
    BY <1>2, IdleMinds DEF Denied, Init, NoRecord, Blank
  <2> QED
    BY <2>1, MasterAssumption DEF DeniedInv, Msg
<1> QED
  BY <1>1, <1>5, <1>7, <1>8 DEF OInv

LEMMA OInvStep == OInv /\ [Next]_vars => OInv'
<1>1. ASSUME OInv, Next PROVE OInv'
  <2>1. Inv' /\ MindInv'
    BY <1>1, InvStep, MindStep, GatedStep DEF OInv, MindInv
  <2> QED
    BY <1>1, <2>1, LateStep, OnceStep, DeniedStep DEF OInv
<1>2. ASSUME OInv, UNCHANGED vars PROVE OInv'
  <2>1. /\ Inv /\ UNCHANGED vars
        /\ UNCHANGED <<idemp, runs, approvals, published, h, again, late>>
    BY <1>2 DEF vars, OInv
  <2>2. Inv'
    BY <2>1, InvStep
  <2> QED
    BY <1>2, <2>1, <2>2 DEF OInv, MindInv, Minds, Gated, LateInv, Seeks, Key, OnceInv, Pending,
       May, Puts, DeniedInv, Denied
<1> QED
  BY <1>1, <1>2

LEMMA OInvariance == Spec => []OInv
<1> QED
  BY OInvInit, OInvStep, PTL DEF Spec

LEMMA HInvInit == Init /\ HInit => HInv
<1> SUFFICES ASSUME Init, HInit PROVE HInv
  OBVIOUS
<1>1. Inv /\ MindInv
  BY MindInit
<1>2. \A t \in Thread : h[t] = Idle
  BY MindInit
<1>3. \A s \in Step : ~ Relied(s) /\ ~ Settled(s)
  <2>1. \A s \in Step : delivery[s] = "none"
    BY Kinds DEF Init
  <2>2. \A s \in Step, t \in Thread : ~ Relies(h[t], s)
    BY <1>2, IdleMinds
  <2> QED
    BY <2>1, <2>2 DEF Relied, ReliesOn, Relies, Settled
<1>4. RelyInv /\ CountInv
  BY <1>2, <1>3, IdleMinds DEF RelyInv, CountInv, Full, StepsOf, HasCopy
<1> QED
  BY <1>1, <1>4 DEF HInv

LEMMA HInvStep == HInv /\ [HNext]_<<vars, history>> => HInv'
<1>1. ASSUME HInv, HNext PROVE HInv'
  <2>1. Inv' /\ MindInv'
    BY <1>1, InvStep, MindStep, GatedStep DEF HInv, HNext, MindInv
  <2> QED
    BY <1>1, <2>1, RelyStep, CountStep DEF HInv
<1>2. ASSUME HInv, UNCHANGED <<vars, history>> PROVE HInv'
  <2>1. /\ Inv /\ UNCHANGED vars
        /\ UNCHANGED <<delivery, runs, results, h, outdated, overwritten, forgotten>>
    BY <1>2 DEF vars, history, HInv
  <2>2. Inv'
    BY <2>1, InvStep
  <2> QED
    BY <1>2, <2>1, <2>2 DEF HInv, MindInv, Minds, Gated, RelyInv, Relied, ReliesOn, CountInv,
       Full, Settled, HasCopy, Of
<1> QED
  BY <1>1, <1>2 DEF HNext

LEMMA HInvariance == HSpec => []HInv
<1> QED
  BY HInvInit, HInvStep, PTL DEF HSpec

(* A step reaches the workers once, and once more for each time that the    *)
(* key of its run was lost, with any number of goroutines of each kind,     *)
(* crashes, failed calls and overlapping deliveries.                        *)
THEOREM ReleasedOnce == Spec => []PublishedOnce
<1>1. OInv => PublishedOnce
  <2>1. ASSUME OInv, NEW s \in Step PROVE published[s] <= 1 + again[RunFor[s]]
    <3>1. /\ RunFor[s] \in Run /\ again[RunFor[s]] \in Nat /\ published[s] \in Nat
          /\ published[s] + Cardinality(Pending(s)) <= Puts(RunFor[s]) + again[RunFor[s]]
      BY <2>1, MasterAssumption DEF OInv, Inv, TypeOK, OnceInv, Msg
    <3>2. Puts(RunFor[s]) \in 0 .. 1 /\ Cardinality(Pending(s)) \in Nat
      BY Few DEF Puts
    <3> QED
      BY <3>1, <3>2
  <2> QED
    BY <2>1 DEF PublishedOnce
<1> QED
  BY <1>1, OInvariance, PTL

(* No step of a denied run reaches a worker unless the approval key of the  *)
(* run was lost, however many goroutines take approvals and whatever fails. *)
THEOREM DenialHolds == Spec => []DeniedHalts
<1>1. OInv => DeniedHalts
  <2>1. ASSUME OInv, NEW s \in Step, runs[RunFor[s]].decision = "deny", published[s] > 0
        PROVE  again[RunFor[s]] > 0
    <3>1. RunFor[s] \in Run /\ again[RunFor[s]] \in Nat /\ published[s] \in Nat
      BY <2>1, MasterAssumption DEF OInv, Inv, TypeOK, Msg
    <3>2. again[RunFor[s]] # 0
      BY <2>1, <3>1 DEF OInv, DeniedInv, Denied
    <3> QED
      BY <3>1, <3>2
  <2> QED
    BY <2>1 DEF DeniedHalts
<1> QED
  BY <1>1, OInvariance, PTL

(* A record that was not written from an outdated copy counts every         *)
(* acknowledged result whose key is kept, with any number of goroutines     *)
(* that count results and write the record at the same time.                *)
THEOREM AcknowledgedCounted == HSpec => []CountsAcknowledged
<1>1. HInv => CountsAcknowledged
  BY DEF HInv, CountInv, Full, Settled, CountsAcknowledged
<1> QED
  BY <1>1, HInvariance, PTL
=============================================================================
