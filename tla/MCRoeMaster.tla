----------------------------- MODULE MCRoeMaster -----------------------------
(* Instances of RoeMaster for TLC: the functions its constants stand for in *)
(* the configurations.                                                      *)
EXTENDS RoeMaster, TLC

(* Everything is about the first run, except what belongs to the second.    *)
OneRun == [m \in Msg |-> "r1"]
ThreeRuns == [m \in Msg |-> CASE m \in {"trigger2", "s3"} -> "r2"
                               [] m = "trigger3" -> "r3"
                               [] OTHER -> "r1"]

(* Every run in one group, or none in any. *)
OneGroup == [r \in Run |-> "g1"]
NoGroups == [r \in {} |-> "g1"]

Answers == [m \in Approval |-> IF m = "denial" THEN "deny" ELSE "approve"]

(* The second goroutine of a kind runs in the second process, if there is one. *)
ByProcess == [t \in Thread |-> IF t \in {"tw2", "rw2", "aw2"} THEN "p2" ELSE "p1"]
OneProcess == [t \in Thread |-> "p1"]

(* The goroutines that take approvals differ only by their names. *)
Approvers == Permutations(ApprovalWorker)
=============================================================================
