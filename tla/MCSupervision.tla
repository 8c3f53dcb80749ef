---------------------------- MODULE MCSupervision ----------------------------
(* Instances of Supervision for TLC: one strategy of each kind, with limits  *)
(* that two failures reach.                                                  *)
EXTENDS Supervision

Defaults == [within |-> 1, initial |-> 1, maxDelay |-> 3, factor |-> 2]

OneForOne == [kind |-> "OneForOne", maxRetries |-> 1, within |-> 2]
ExponentialBackoff == [kind |-> "ExponentialBackoff", initial |-> 1, maxDelay |-> 3, factor |-> 0]
Escalation == [kind |-> "Escalation", maxRetries |-> 1, within |-> 0]

AllStrategies == {OneForOne, ExponentialBackoff, Escalation}
OnlyOneForOne == {OneForOne}
=============================================================================
