----------------------------- MODULE MCRoeWorker -----------------------------
(* Instances of RoeWorker for TLC: the functions its constants stand for in *)
(* the configurations.                                                      *)
EXTENDS RoeWorker, TLC

(* Every step belongs to the one run. *)
OneRun == [s \in Step |-> "r1"]

(* Message m1 asks for step s1, m4 for s3, every other message for s2. *)
ByNumber == [m \in Msg |-> CASE m = "m1" -> "s1" [] m = "m4" -> "s3" [] OTHER -> "s2"]

(* All messages ask for the same step: the step was published again. *)
SameStep == [m \in Msg |-> "s1"]

(* Every goroutine in a process of its own, or all in one process. *)
OwnProcess == [t \in Thread |-> IF t = "t1" THEN "p1" ELSE "p2"]
OneProcess == [t \in Thread |-> "p1"]
=============================================================================
