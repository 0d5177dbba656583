-------------------------- MODULE RoeMasterHistory --------------------------
(***************************************************************************)
(* RoeMaster with the history of its records.  A record is read and        *)
(* written back whole, and a handler that fails deletes the key of its     *)
(* result.  The history says when that went wrong, so that what a record   *)
(* counts can be stated for any number of goroutines and failures.         *)
(***************************************************************************)
EXTENDS RoeMaster

VARIABLES
    outdated,       \* goroutines with a copy of a run older than its last result
    overwritten,    \* runs whose record comes from such a copy
    forgotten       \* results whose key was deleted while handlers relied on it

history == <<outdated, overwritten, forgotten>>

HInit ==
    /\ outdated = {}
    /\ overwritten = {}
    /\ forgotten = {}

(* The call that goroutine t makes at its point succeeds. *)
Succeeds(t) == h'[t] # h[t] /\ UNCHANGED <<crashes, faults>>

(* The points at which a handler has a copy of a run record to write back,  *)
(* or for a trigger a new record, and those at which it writes it.          *)
CopyPC == (TriggerPC \ {"idemp_get"})
              \cup {"persist_run", "persist_decision", "load_steps", "publish",
                    "persist_running", "persist_timeout"}
WritePC == {"persist_created", "reject", "persist_waiting", "persist_planned",
            "persist_run", "persist_decision", "persist_running", "persist_timeout"}

HasCopy(t) == h[t].pc \in CopyPC
Writes(t) == h[t].pc \in WritePC /\ Succeeds(t)
Counts(t) == h[t].pc = "persist_run" /\ Succeeds(t)

(* A handler has found or put the key of result s and goes by it. *)
ReliesOn(t, s) ==
    h[t].msg = s /\ (h[t].ok \/ h[t].pc \in {"run_get", "reconcile", "persist_run"})
Relied(s) == delivery[s] = "acked" \/ \E t \in Thread : ReliesOn(t, s)

Record ==
    /\ outdated' =
          {t \in Thread :
              /\ HasCopy(t)'
              /\ \/ t \in outdated
                 \/ HasCopy(t) /\ \E u \in Thread \ {t} : Of(u) = Of(t) /\ Counts(u)}
    /\ overwritten' =
          (overwritten \cup {Of(t) : t \in {u \in outdated : Writes(u)}})
              \ {Of(t) : t \in {u \in Thread \ outdated : Counts(u)}}
    /\ forgotten' =
          (forgotten \cup (results \ results')) \ {s \in results' \ results : ~ Relied(s)}

HNext == Next /\ Record
HSpec == Init /\ HInit /\ [][HNext]_<<vars, history>>

-----------------------------------------------------------------------------
(* The record of a run counts every acknowledged result whose key is kept,  *)
(* unless a handler has written it from a copy older than some result; then *)
(* the next result that is counted from a fresh copy repairs it, however    *)
(* many goroutines count results at the same time.                          *)
CountsAcknowledged ==
    \A r \in Run \ overwritten :
        \A s \in StepsOf(r) \ forgotten : delivery[s] = "acked" => s \in runs[r].seen
=============================================================================
