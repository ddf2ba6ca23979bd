------------------------------- MODULE MCElb --------------------------------
(* Instances of Elb: one container, or two that share a target group. *)
EXTENDS Elb, TLC

CONSTANTS c1, c2, g1

OneGroup == [c \in Containers |-> g1]
Both(x, y) == (c1 :> x) @@ (c2 :> y)

\* With "task" the name may be found or not: that is all that "service" and
\* "none" can do.
EveryLookup == [Containers -> {"explicit", "elsewhere", "task"}]
GivenEndpoints == {Both("explicit", "explicit")}
=============================================================================
