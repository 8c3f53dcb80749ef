---------------------------- MODULE MCActorSystem ----------------------------
(* Instances of ActorSystem for TLC: a worker alone, or with a supervisor. *)
EXTENDS ActorSystem

CONSTANTS worker, supervisor

Supervised == {worker, supervisor}
SupervisedBy == [a \in Supervised |-> IF a = worker THEN supervisor ELSE NoId]

Alone == {worker}
Unsupervised == [a \in Alone |-> NoId]
=============================================================================
