------------------------------ MODULE MCDetector ------------------------------
(* Instances of Detector for TLC. *)
EXTENDS Detector, TLC

At(kind, group, time) == [kind |-> kind, group |-> group, time |-> time]
Of(x, y) == "e" :> x @@ "f" :> y

(* Two probes at the two ends of the window, two that are further apart,    *)
(* two counted events, a file and an event no rule matches.                 *)
Streams == {
    Of(At("probe", "g1", 1), At("probe", "g1", 4)),
    Of(At("probe", "g1", 1), At("probe", "g1", 5)),
    Of(At("count", "g1", 1), At("count", "g1", 4)),
    Of(At("file", "g1", 1), At("quiet", "g1", 1))}
=============================================================================
