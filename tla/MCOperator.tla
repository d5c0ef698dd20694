---- MODULE MCOperator ----
(* Two Channels that name one MQ channel, or a Channel and a rule of it. *)
EXTENDS Operator

CONSTANTS c1, c2, rule

TwoPlans ==
    {[creates |-> {c1, c2}, teardown |-> FALSE], [creates |-> {c1, rule}, teardown |-> TRUE]}

BothChannels == {c1, c2}

OneRule == {rule}
====
