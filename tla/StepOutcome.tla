----------------------------- MODULE StepOutcome -----------------------------
(***************************************************************************)
(* What the response step workers promise of every step, whatever number   *)
(* of processes and goroutines work on it, whatever is redelivered, fails  *)
(* or crashes: its connector is tried a limited number of times, one       *)
(* outcome is decided, once, and every report carries that outcome.        *)
(* RoeWorker implements it.                                                *)
(***************************************************************************)
EXTENDS Naturals

CONSTANTS
    Step,
    Outcome,        \* the terminal outcomes, records with a status
    Undecided,      \* none of them
    MaxTries        \* of each step

VARIABLES
    tries,          \* how often the connector of each step was invoked
    decided,        \* the outcome of each step
    reports         \* the outcomes that have been reported of each step

vars == <<tries, decided, reports>>

Init ==
    /\ tries = [s \in Step |-> 0]
    /\ decided = [s \in Step |-> Undecided]
    /\ reports = [s \in Step |-> {}]

Try(s) ==
    /\ decided[s] = Undecided
    /\ tries[s] < MaxTries[s]
    /\ tries' = [tries EXCEPT ![s] = @ + 1]
    /\ UNCHANGED <<decided, reports>>

(* A step may be refused without a try, but it does not succeed without.    *)
Decide(s) ==
    /\ decided[s] = Undecided
    /\ decided'[s] \in Outcome
    /\ decided'[s].status = "SUCCEEDED" => tries[s] > 0
    /\ decided' = [decided EXCEPT ![s] = decided'[s]]
    /\ UNCHANGED <<tries, reports>>

Report(s) ==
    /\ decided[s] # Undecided
    /\ reports' = [reports EXCEPT ![s] = @ \cup {decided[s]}]
    /\ UNCHANGED <<tries, decided>>

Next == \E s \in Step : Try(s) \/ Decide(s) \/ Report(s)

Spec == Init /\ [][Next]_vars
=============================================================================
