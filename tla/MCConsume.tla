------------------------------ MODULE MCConsume ------------------------------
(* Instances of Consume for TLC. *)
EXTENDS Consume, TLC

A(type, time) == [type |-> type, group |-> "g", time |-> time]
R(kind, types, threshold) ==
    [kind |-> kind, types |-> types, threshold |-> threshold, window |-> 3]
Of(x, y) == "m1" :> x @@ "m2" :> y

ByLane == Of("FAST", "STANDARD")

Trigger == R("trigger", <<"auth">>, 0)
Stateless == R("stateless", <<"auth">>, 0)
Count == R("count", <<"auth">>, 2)
Sequence == R("sequence", <<"auth", "exec">>, 0)
Join == R("join", <<"exec", "auth">>, 0)

(* A trigger twice; two in the window of a count; a sequence and a join,    *)
(* completed or too late; two rules when one incident may be open.          *)
Scenes == {
    [rules |-> <<Trigger>>, content |-> Of(<<A("auth", 1)>>, <<A("auth", 5)>>)],
    [rules |-> <<Count>>, content |-> Of(<<A("auth", 1), A("auth", 9)>>, <<A("auth", 4)>>)],
    [rules |-> <<Sequence>>, content |-> Of(<<A("auth", 1)>>, <<A("exec", 4)>>)],
    [rules |-> <<Join, Sequence>>, content |-> Of(<<A("auth", 1)>>, <<A("exec", 5)>>)],
    [rules |-> <<Join>>, content |-> Of(<<A("auth", 1)>>, <<A("exec", 2)>>)],
    [rules |-> <<Stateless, Stateless>>, content |-> Of(<<A("auth", 1)>>, <<A("exec", 2)>>)]}
=============================================================================
