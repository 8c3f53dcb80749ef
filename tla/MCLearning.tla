------------------------------ MODULE MCLearning ------------------------------
(* Instances of Learning for TLC: a 2-3-3 network; data sets of one or two   *)
(* samples, one with the same target everywhere; uniform global weights,     *)
(* some with two equal units and some with a dead one.                       *)
EXTENDS Learning

S(x, y, t) == [features |-> <<x, y>>, target |-> t]

SmallDataSets == {<<S(1, 0, <<1, 1, 1>>)>>, <<S(2, 1, <<0, 1, 0>>)>>,
                  <<S(1, 1, <<2, 1, 0>>), S(-1, 0, <<0, 1, 1>>)>>,
                  <<S(0, 1, <<1, 0, 2>>), S(1, -1, <<0, 0, 1>>)>>}

SmallGlobals == {[k \in 1..NumWeights |-> 1],
                 <<1, 1, -1, 0, 0, 1>> \o <<1, 1, 0>>
                   \o <<0, 1, 1, 0, 1, 1, 1, -1, 0>> \o <<0, 1, -1>>,
                 <<-1, 1, 0, -1, 1, 1>> \o <<0, 1, 1>>
                   \o <<1, 2, -1, 0, 1, 1, 1, 0, 1>> \o <<0, 0, 1>>}

SmallRandomWeights == {[k \in 1..NumWeights |-> k % 4], [k \in 1..NumWeights |-> 2 - (k % 5)]}
=============================================================================
