------------------------------- MODULE Learning -------------------------------
(* The numbers of one federated round: model/mlp.go, model/fedavg.go, the    *)
(* training of the sensors, the averaging of the coordinator and the metrics *)
(* of evaluation/metrics.go, computed exactly.                               *)
(*                                                                           *)
(* Floating-point numbers are integers here, and quotients are pairs of      *)
(* numerator and denominator; the learning rate is Rate * OutputDim, which   *)
(* keeps a training step in the integers.  Rounding to six digits is left    *)
(* out.  Slices are sequences, counted from 1.                               *)
EXTENDS Integers, Sequences, SequencesExt, FiniteSetsExt

CONSTANTS InputDim, HiddenDim, OutputDim,  \* architecture of the network
          Rate,                            \* learning rate / OutputDim
          Epochs,                          \* passes over the data
          Clients,                         \* sensors
          DataSets,                        \* data a sensor may have
          Globals,                         \* global weights before the round
          RandomWeights                    \* weights NewMLP may come up with

NumWeights == InputDim * HiddenDim + HiddenDim + HiddenDim * OutputDim + OutputDim

Samples == [features : [1..InputDim -> Int], target : [1..OutputDim -> Int]]

ASSUME LearningAssumption ==
  /\ {InputDim, HiddenDim, OutputDim, Rate, Epochs} \subseteq Nat \ {0}
  /\ IsFiniteSet(Clients)
  /\ Globals \cup RandomWeights \subseteq [1..NumWeights -> Int]
  /\ \A D \in DataSets : D \in Seq(Samples) /\ D # <<>>

VARIABLES global,   \* c.globalWeights
          data,     \* s.trainData of each sensor
          mlp,      \* s.mlp of each sensor
          step,     \* samples its training goroutine has been through, or -1
          updates,  \* the model updates the coordinator has received
          average   \* what it makes of them

vars == <<global, data, mlp, step, updates, average>>

Nil == <<>>

(* A matrix with n columns in a flat slice. *)
At(i, j, n) == (i - 1) * n + j
Row(k, n)   == ((k - 1) \div n) + 1
Col(k, n)   == ((k - 1) % n) + 1

-----------------------------------------------------------------------------
(* model.MLP *)
relu(x) == IF x > 0 THEN x ELSE 0

hidden(m, input) ==
  [j \in 1..HiddenDim |->
     relu(SumFunction([i \in 1..InputDim |-> input[i] * m.W1[At(i, j, HiddenDim)]]) + m.B1[j])]

Predict(m, input) ==
  LET h == hidden(m, input) IN
    [j \in 1..OutputDim |->
       SumFunction([i \in 1..HiddenDim |-> h[i] * m.W2[At(i, j, OutputDim)]]) + m.B2[j]]

(* Mutant: W2 is updated before the error goes back through it. *)
TrainForward(m, input, target) ==
  LET h == hidden(m, input)
      o == Predict(m, input)
      dOutput == [j \in 1..OutputDim |-> 2 * (o[j] - target[j])]
      W2 == [k \in 1..HiddenDim * OutputDim |->
               m.W2[k] - Rate * dOutput[Col(k, OutputDim)] * h[Row(k, OutputDim)]]
      dHidden == [i \in 1..HiddenDim |-> IF h[i] > 0
                    THEN SumFunction([j \in 1..OutputDim |-> dOutput[j] * W2[At(i, j, OutputDim)]])
                    ELSE 0]
  IN [W1 |-> [k \in 1..InputDim * HiddenDim |-> m.W1[k] -
                Rate * dHidden[Col(k, HiddenDim)] * input[Row(k, HiddenDim)]],
      B1 |-> [j \in 1..HiddenDim |-> m.B1[j] - Rate * dHidden[j]],
      W2 |-> W2,
      B2 |-> [j \in 1..OutputDim |-> m.B2[j] - Rate * dOutput[j]]]

(* One step of stochastic gradient descent.  The derivatives, dOutput and    *)
(* dHidden, are OutputDim times those of the code.                           *)
Train(m, input, target) ==
  LET h == hidden(m, input)
      o == Predict(m, input)
      dOutput == [j \in 1..OutputDim |-> 2 * (o[j] - target[j])]
      dHidden == [i \in 1..HiddenDim |-> IF h[i] > 0
                    THEN SumFunction([j \in 1..OutputDim |-> dOutput[j] * m.W2[At(i, j, OutputDim)]])
                    ELSE 0]
  IN [W1 |-> [k \in 1..InputDim * HiddenDim |-> m.W1[k] -
                Rate * dHidden[Col(k, HiddenDim)] * input[Row(k, HiddenDim)]],
      B1 |-> [j \in 1..HiddenDim |-> m.B1[j] - Rate * dHidden[j]],
      W2 |-> [k \in 1..HiddenDim * OutputDim |-> m.W2[k] -
                Rate * dOutput[Col(k, OutputDim)] * h[Row(k, OutputDim)]],
      B2 |-> [j \in 1..OutputDim |-> m.B2[j] - Rate * dOutput[j]]]

Weights(m) == m.W1 \o m.B1 \o m.W2 \o m.B2

(* copy(dst, w[off:]) *)
Copy(dst, w, off) == [k \in 1..Len(dst) |-> IF off + k <= Len(w) THEN w[off + k] ELSE dst[k]]

(* Mutant: the first copy goes the other way. *)
SetWeightsKeepsW1(m, w) ==
  LET n1 == Len(m.W1)
      n2 == n1 + Len(m.B1)
  IN [W1 |-> m.W1, B1 |-> Copy(m.B1, w, n1),
      W2 |-> Copy(m.W2, w, n2), B2 |-> Copy(m.B2, w, n2 + Len(m.W2))]

SetWeights(m, w) ==
  LET n1 == Len(m.W1)
      n2 == n1 + Len(m.B1)
      n3 == n2 + Len(m.W2)
  IN [W1 |-> Copy(m.W1, w, 0), B1 |-> Copy(m.B1, w, n1),
      W2 |-> Copy(m.W2, w, n2), B2 |-> Copy(m.B2, w, n3)]

Zeros(n) == [k \in 1..n |-> 0]

(* Random weights and no bias. *)
NewMLP(w) == [W1 |-> SubSeq(w, 1, InputDim * HiddenDim), B1 |-> Zeros(HiddenDim),
              W2 |-> SubSeq(w, 1, HiddenDim * OutputDim), B2 |-> Zeros(OutputDim)]

-----------------------------------------------------------------------------
(* model.FedAvg: every sum of weights, and the number to divide it by. *)
FedAvg(clientWeights, numSamples) ==
  LET total == SumFunction(numSamples) IN
    IF clientWeights = <<>> \/ Len(clientWeights) # Len(numSamples) \/ total = 0
      THEN Nil
      ELSE [num |-> [i \in 1..Len(clientWeights[1]) |->
                       SumFunction([c \in 1..Len(clientWeights) |-> clientWeights[c][i] * numSamples[c]])],
            den |-> total]

(* evaluation.Calculate: the mean squared and absolute errors, and R2 (1 if  *)
(* the actual values do not vary).                                           *)
Abs(x) == IF x < 0 THEN -x ELSE x

Calculate(actual, predicted) ==
  LET n == Len(actual)
      diff(i) == actual[i] - predicted[i]
      sum == SumFunction(actual)
      ssRes == SumFunction([i \in 1..n |-> diff(i) * diff(i)])
      ssTot == SumFunction([i \in 1..n |-> (n * actual[i] - sum) * (n * actual[i] - sum)]) \* * n * n
  IN IF n = 0 \/ n # Len(predicted)
       THEN [MSE |-> <<0, 1>>, MAE |-> <<0, 1>>, R2 |-> <<0, 1>>]
       ELSE [MSE |-> <<ssRes, n>>,
             MAE |-> <<SumFunction([i \in 1..n |-> Abs(diff(i))]), n>>,
             R2  |-> IF ssTot > 0 THEN <<ssTot - n * n * ssRes, ssTot>> ELSE <<1, 1>>]

(* Targets and predictions of all samples in a row, as the evaluator and     *)
(* main collect them.                                                        *)
Actuals(D)        == FlattenSeq([i \in 1..Len(D) |-> D[i].target])
Predictions(m, D) == FlattenSeq([i \in 1..Len(D) |-> Predict(m, D[i].features)])

SquaredError(m, s) ==
  LET o == Predict(m, s.features) IN
    SumFunction([j \in 1..OutputDim |-> (o[j] - s.target[j]) * (o[j] - s.target[j])])

(* Mutant: the mean over the samples only. *)
ComputeLossPerSample(m, D) == <<SumFunction([i \in 1..Len(D) |-> SquaredError(m, D[i])]), Len(D)>>

(* computeLoss of the sensor, where the number of outputs is written as 3.   *)
ComputeLoss(m, D) == <<SumFunction([i \in 1..Len(D) |-> SquaredError(m, D[i])]), Len(D) * 3>>

-----------------------------------------------------------------------------
Init == /\ global \in Globals
        /\ data \in [Clients -> DataSets]
        /\ \E w \in [Clients -> RandomWeights] : mlp = [c \in Clients |-> NewMLP(w[c])]
        /\ step = [c \in Clients |-> -1]
        /\ updates = <<>>
        /\ average = Nil

(* realTraining takes over the global weights, ... *)
StartTraining(c) ==
  /\ step[c] = -1
  /\ step' = [step EXCEPT ![c] = 0]
  /\ mlp' = [mlp EXCEPT ![c] = SetWeights(@, global)]
  /\ UNCHANGED <<global, data, updates, average>>

(* ... goes through the samples, Epochs times, ... *)
TrainSample(c) ==
  LET s == data[c][(step[c] % Len(data[c])) + 1] IN
  /\ step[c] \in 0..Epochs * Len(data[c]) - 1
  /\ step' = [step EXCEPT ![c] = @ + 1]
  /\ mlp' = [mlp EXCEPT ![c] = Train(@, s.features, s.target)]
  /\ UNCHANGED <<global, data, updates, average>>

(* ... and the coordinator gets the result. *)
ModelUpdate(c) ==
  /\ step[c] = Epochs * Len(data[c])
  /\ \A i \in 1..Len(updates) : updates[i].sensor # c
  /\ updates' = Append(updates, [sensor |-> c, weights |-> Weights(mlp[c]),
                                 numSamples |-> Len(data[c]),
                                 loss |-> ComputeLoss(mlp[c], data[c])])
  /\ UNCHANGED <<global, data, mlp, step, average>>

(* Mutant: the map is iterated twice, in two orders. *)
AggregateTwoOrders ==
  /\ average = Nil /\ Len(updates) = Cardinality(Clients)
  /\ \E p, q \in SetToSeqs(Range(updates)) :
       average' = FedAvg([i \in 1..Len(p) |-> p[i].weights],
                         [i \in 1..Len(q) |-> q[i].numSamples])
  /\ UNCHANGED <<global, data, mlp, step, updates>>

(* aggregateAndFinalise: Go iterates over the map in any order. *)
Aggregate ==
  /\ average = Nil
  /\ Len(updates) = Cardinality(Clients)
  /\ \E p \in SetToSeqs(Range(updates)) :
       average' = FedAvg([i \in 1..Len(p) |-> p[i].weights],
                         [i \in 1..Len(p) |-> p[i].numSamples])
  /\ UNCHANGED <<global, data, mlp, step, updates>>

Next == \/ \E c \in Clients : StartTraining(c) \/ TrainSample(c) \/ ModelUpdate(c)
        \/ Aggregate

Spec == Init /\ [][Next]_vars

-----------------------------------------------------------------------------
TypeOK ==
  /\ global \in Globals
  /\ data \in [Clients -> DataSets]
  /\ \A c \in Clients : Weights(mlp[c]) \in [1..NumWeights -> Int]
  /\ \A i \in 1..Len(updates) : updates[i].weights \in [1..NumWeights -> Int]
  /\ average # Nil => average.num \in [1..NumWeights -> Int] /\ average.den \in Nat \ {0}

(* The squared error of the network with the flat weights w whose hidden     *)
(* units are linear or dead, as they are for this sample in m: quadratic in  *)
(* each weight.                                                              *)
QuadraticError(m, w, s) ==
  LET n   == SetWeights(m, w)
      act == [j \in 1..HiddenDim |-> IF hidden(m, s.features)[j] = 0 THEN 0 ELSE
                SumFunction([i \in 1..InputDim |-> s.features[i] * n.W1[At(i, j, HiddenDim)]]) + n.B1[j]]
      o   == [j \in 1..OutputDim |->
                SumFunction([i \in 1..HiddenDim |-> act[i] * n.W2[At(i, j, OutputDim)]]) + n.B2[j]]
  IN SumFunction([j \in 1..OutputDim |-> (o[j] - s.target[j]) * (o[j] - s.target[j])])

(* Its derivative by weight k: the difference quotient of a quadratic        *)
(* function is exact.                                                        *)
Derivative(m, s, k) ==
  LET w == Weights(m) IN
    (QuadraticError(m, [w EXCEPT ![k] = @ + 1], s)
       - QuadraticError(m, [w EXCEPT ![k] = @ - 1], s)) \div 2

(* Action property: every training step moves every weight against the       *)
(* derivative of the error of its sample, by the learning rate, through      *)
(* backpropagation in place and four blocks of indices (mlp.go:80-133).      *)
GradientDescent ==
  [][\A c \in Clients : step[c] >= 0 /\ step'[c] = step[c] + 1 =>
       LET s == data[c][(step[c] % Len(data[c])) + 1] IN
         \A k \in 1..NumWeights :
           Weights(mlp'[c])[k] = Weights(mlp[c])[k] - Rate * Derivative(mlp[c], s, k)]_vars

(* Property: every sample of the house has the same weight in the average,   *)
(* whoever holds it and in whatever order the updates are taken from the map *)
(* (coordinator.go:293-321, fedavg.go:26-34).                                *)
EverySampleCounts ==
  average # Nil =>
    /\ average.den = SumFunction([c \in Clients |-> Len(data[c])])
    /\ \A k \in 1..NumWeights :
         average.num[k] = SumFunction([c \in Clients |->
           SumFunction([i \in 1..Len(data[c]) |-> Weights(mlp[c])[k]])])

(* Hidden units i and j have the same weights in the flat vector w. *)
Twins(w, i, j) ==
  LET n1 == InputDim * HiddenDim
      n2 == n1 + HiddenDim
  IN /\ w[n1 + i] = w[n1 + j]
     /\ \A k \in 1..InputDim : w[At(k, i, HiddenDim)] = w[At(k, j, HiddenDim)]
     /\ \A k \in 1..OutputDim : w[n2 + At(i, k, OutputDim)] = w[n2 + At(j, k, OutputDim)]

(* Property: hidden units that the global model does not tell apart stay     *)
(* equal in every sensor and in the average, whatever random weights NewMLP  *)
(* gave the sensor.  As the coordinator begins with 0.01 everywhere, the     *)
(* hidden layer works as a single unit for ever (coordinator.go:169-175,     *)
(* mlp.go:36-45, 80-133).                                                    *)
TwinsStayTwins ==
  \A i, j \in 1..HiddenDim :
    Twins(global, i, j) =>
      /\ \A c \in Clients : step[c] >= 0 => Twins(Weights(mlp[c]), i, j)
      /\ average # Nil => Twins(average.num, i, j)

(* Property: the loss a sensor reports is the mean squared error that the    *)
(* evaluator computes for the same network and data; the mean absolute error *)
(* is no larger than its root, and R2 is 1 only for a network without error, *)
(* unless the targets do not vary (sensor.go:203-213, metrics.go:18-54,      *)
(* evaluator.go:45-55).                                                      *)
MetricsAgree ==
  \A u \in Range(updates) :
    LET actual == Actuals(data[u.sensor])
        m == Calculate(actual, Predictions(mlp[u.sensor], data[u.sensor]))
    IN /\ u.loss[1] * m.MSE[2] = m.MSE[1] * u.loss[2]
       /\ m.MAE[1] * m.MAE[1] <= m.MSE[1] * m.MSE[2]
       /\ m.R2[1] = m.R2[2] <=> m.MSE[1] = 0 \/ Cardinality(Range(actual)) = 1
=============================================================================
