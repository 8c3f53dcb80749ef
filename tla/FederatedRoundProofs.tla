------------------------- MODULE FederatedRoundProofs -------------------------
(* Proofs about FederatedRound, for any finite set of sensors, any number of *)
(* rounds and of faults, in the demo and between processes.                  *)
(*                                                                           *)
(* The argument has two layers.  Base holds in every state: a sensor is      *)
(* asked for work only once it is registered, and whatever is on its way     *)
(* about it says so.  Inv holds until a StartTraining arrives after its      *)
(* round: a sensor that has been told to train for a round owes that round   *)
(* an update, and as long as it owes one the round does not complete.  So    *)
(* only older global models can reach a sensor that owes a round an update,  *)
(* and s.roundID, with which it is tagged, is the round it was trained for   *)
(* or an older one, which the coordinator ignores.                           *)
EXTENDS FederatedRound, FiniteSetTheorems, SequenceTheorems, TLAPS

(* A mailbox holds a message, and holds one before another. *)
Has(q, m)       == \E i \in 1..Len(q) : q[i] = m
Before(q, m, n) == \E i, j \in 1..Len(q) : i < j /\ q[i] = m /\ q[j] = n

(* A sensor with training goroutine t and mailbox q trains for round x, or   *)
(* has done so and not yet noticed.                                          *)
Trains(t, q, x, b) == \/ t = [round |-> x, base |-> b]
                      \/ Has(q, TrainingComplete(x, b))

(* It owes round x an update. *)
Owes(t, q, x, b) == Trains(t, q, x, b) \/ Has(q, StartTraining(x, b))

Reports == [round : RoundIds, clients : SUBSET Sensors, registered : SUBSET Sensors]
Orders  == {StartTraining(r, b) : r \in RoundIds, b \in RoundIds}
           \cup {GlobalModelUpdate(r) : r \in RoundIds}
Lates   == [call : 0..MaxFaults[remote], msg : Orders]

Types ==
  /\ coordMailbox \in Seq(CoordMessages)
  /\ sensorMailbox \in [Sensors -> Seq(SensorMessages)]
  /\ sensors \subseteq Sensors
  /\ round \in RoundIds /\ requested \in RoundIds
  /\ pendingRound = round
  /\ pendingUpdates \in [Sensors -> RoundIds \cup {NoUpdate}]
  /\ globalWeights \in RoundIds
  /\ up \in [Sensors -> BOOLEAN]
  /\ behaviorStack \in [Sensors -> {<<>>, <<"training">>}]
  /\ roundID \in [Sensors -> RoundIds]
  /\ saved \in [Sensors -> RoundIds]
  /\ training \in [Sensors -> [round : RoundIds, base : RoundIds] \cup {Idle}]
  /\ baseOf \in [RoundIds -> RoundIds]
  /\ told \in Seq(Reports)

(* Messages are late only between processes, and never a StartRound. *)
Network ==
  /\ remote \in BOOLEAN /\ faults \in 0..MaxFaults[remote] /\ strayed \in BOOLEAN
  /\ \A l \in coordLate : l.msg \in CoordMessages /\ l.msg # StartRound
  /\ sensorLate \in [Sensors -> SUBSET Lates]
  /\ ~remote => /\ ~strayed /\ coordLate = {}
                /\ \A s \in Sensors : sensorLate[s] = {}

(* Every round the coordinator will still begin has been asked for. *)
Starts == {i \in 1..Len(coordMailbox) : coordMailbox[i] = StartRound}
Asked  == round + Cardinality(Starts) = requested

(* A sensor that works, is asked to, or has answered, is registered, and     *)
(* there has been a round for it.                                            *)
Works(s)   == \/ \E x, b \in RoundIds : Owes(training[s], sensorMailbox[s], x, b)
              \/ \E l \in sensorLate[s], x, b \in RoundIds : l.msg = StartTraining(x, b)
Answers(s) == \/ \E x, b \in RoundIds : Has(coordMailbox, ModelUpdate(s, x, b))
              \/ \E l \in coordLate, x, b \in RoundIds : l.msg = ModelUpdate(s, x, b)
              \/ pendingUpdates[s] # NoUpdate
Registered == \A s \in Sensors : Works(s) \/ Answers(s) => s \in sensors /\ round > 0

(* The logger has been told of rounds that have begun, and all took part. *)
Counted == \A i \in 1..Len(told) : /\ told[i].round \in 1..round
                                   /\ told[i].clients = told[i].registered

Base == Types /\ Network /\ Asked /\ Registered /\ Counted

(* An update is with the coordinator or on its way there, a request for the  *)
(* current round on its way to the sensor; an update is due if the sensor    *)
(* owes it or will owe it when that request arrives.                         *)
Sent(s, x, b) == \/ Has(coordMailbox, ModelUpdate(s, x, b))
                 \/ \E l \in coordLate : l.msg = ModelUpdate(s, x, b)
Asking(s, b)  == \E l \in sensorLate[s] : l.msg = StartTraining(round, b)
Due(s, x, b)  == Owes(training[s], sensorMailbox[s], x, b) \/ (x = round /\ Asking(s, b))

(* A sensor from which an update is due is registered and up, the round has  *)
(* begun, and the coordinator has no update of it for that or a later round. *)
Owing == \A s \in Sensors, x, b \in RoundIds : Due(s, x, b) =>
           /\ x \in 1..round /\ b = baseOf[x]
           /\ s \in sensors /\ up[s]
           /\ pendingUpdates[s] = NoUpdate
           /\ \A y, c \in RoundIds : Sent(s, y, c) => y < x

(* A late global model is older than what is due, a late request is the only *)
(* one of its round.                                                         *)
Delayed == \A s \in Sensors : \A l \in sensorLate[s] :
  /\ up[s]
  /\ \A y \in RoundIds : l.msg = GlobalModelUpdate(y) =>
       y <= round /\ \A x, b \in RoundIds : Due(s, x, b) => y < x
  /\ \A y, b \in RoundIds : l.msg = StartTraining(y, b) => y <= round
  /\ \A b \in RoundIds : l.msg = StartTraining(round, b) =>
       /\ \A x, c \in RoundIds : Owes(training[s], sensorMailbox[s], x, c) => x < round
       /\ \A k \in sensorLate[s], c \in RoundIds : k.msg = StartTraining(round, c) => k = l

(* A sensor is in trainingBehavior while it trains, with s.roundID as it was *)
(* at the start or older, and only older global models on their way.         *)
Tagged(t, q, id, stack) == \A x, b \in RoundIds : Trains(t, q, x, b) =>
                             /\ id <= x
                             /\ stack = <<"training">>
                             /\ \A y \in RoundIds : Has(q, GlobalModelUpdate(y)) => y < x

(* It trains for one round at a time and is asked for the rounds in order. *)
InOrder(t, q) == \A x, b, y, c \in RoundIds :
  /\ ~Before(q, TrainingComplete(x, b), TrainingComplete(y, c))
  /\ t # Idle => ~Has(q, TrainingComplete(x, b))
  /\ Trains(t, q, x, b) /\ Has(q, StartTraining(y, c)) => x < y
  /\ Before(q, StartTraining(x, b), StartTraining(y, c)) => x < y
  /\ Before(q, StartTraining(x, b), GlobalModelUpdate(y)) => y < x

Training == \A s \in Sensors :
              /\ Tagged(training[s], sensorMailbox[s], roundID[s], behaviorStack[s])
              /\ InOrder(training[s], sensorMailbox[s])

(* What the coordinator has or will get of a sensor: for the current round   *)
(* at most one update, with the weights that round started from.             *)
Updates == \A s \in Sensors, x, b \in RoundIds : Sent(s, x, b) =>
             /\ x <= round /\ s \in sensors
             /\ x = round => b = baseOf[x] /\ pendingUpdates[s] = NoUpdate

Single == \A s \in Sensors, b, c \in RoundIds :
  /\ ~Before(coordMailbox, ModelUpdate(s, round, b), ModelUpdate(s, round, c))
  /\ \A l \in coordLate : l.msg = ModelUpdate(s, round, b) =>
       /\ ~Has(coordMailbox, ModelUpdate(s, round, c))
       /\ \A k \in coordLate : k.msg = ModelUpdate(s, round, c) => k = l

Pending == \A s \in Sensors : pendingUpdates[s] # NoUpdate =>
             s \in sensors /\ pendingUpdates[s] = baseOf[round] /\ round > 0

(* A completed round has all its updates. *)
Completed == \A i \in 1..Len(told) : told[i].round = round =>
  /\ \A s \in Sensors, x, b \in RoundIds : ~Due(s, x, b)
  /\ \A s \in Sensors, b \in RoundIds : ~Sent(s, round, b)

Down == \A s \in Sensors : ~up[s] =>
          sensorMailbox[s] = <<>> /\ training[s] = Idle /\ behaviorStack[s] = <<>>

Inv == /\ Base /\ Owing /\ Delayed /\ Training /\ Updates /\ Single
       /\ Pending /\ Completed /\ Down
-----------------------------------------------------------------------------
(* A mailbox that takes a message holds it behind the others; one that gives *)
(* its head away keeps the others in their order.                            *)
LEMMA HasAppend ==
  ASSUME NEW S, NEW q \in Seq(S), NEW m \in S
  PROVE  /\ Append(q, m) \in Seq(S)
         /\ \A e : Has(Append(q, m), e) => Has(q, e) \/ e = m
         /\ \A e, f : Before(Append(q, m), e, f) => Before(q, e, f) \/ (Has(q, e) /\ f = m)
<1> DEFINE p == Append(q, m)
<1>1. /\ p \in Seq(S) /\ Len(q) \in Nat /\ Len(p) = Len(q) + 1
      /\ \A i \in 1..Len(p) : IF i = Len(q) + 1 THEN p[i] = m
                              ELSE i \in 1..Len(q) /\ p[i] = q[i]
  OBVIOUS
<1> HIDE DEF p
<1>2. \A e : Has(p, e) => Has(q, e) \/ e = m BY <1>1 DEF Has
<1>3. \A e, f : Before(p, e, f) => Before(q, e, f) \/ (Has(q, e) /\ f = m)
  <2> SUFFICES ASSUME NEW e, NEW f, NEW i \in 1..Len(p), NEW j \in 1..Len(p),
                      i < j, p[i] = e, p[j] = f
               PROVE  Before(q, e, f) \/ (Has(q, e) /\ f = m)
    BY DEF Before
  <2>1. i \in 1..Len(q) /\ q[i] = e BY <1>1
  <2>2. CASE j = Len(q) + 1 BY <1>1, <2>1, <2>2 DEF Has
  <2>3. CASE j # Len(q) + 1 BY <1>1, <2>1, <2>3 DEF Before
  <2> QED BY <2>2, <2>3
<1> QED BY <1>1, <1>2, <1>3 DEF p

LEMMA HasTail ==
  ASSUME NEW S, NEW q \in Seq(S), q # <<>>
  PROVE  /\ Tail(q) \in Seq(S) /\ Head(q) \in S
         /\ Has(q, Head(q))
         /\ \A e : Has(Tail(q), e) => Has(q, e) /\ Before(q, Head(q), e)
         /\ \A e, f : Before(Tail(q), e, f) => Before(q, e, f)
<1> DEFINE p == Tail(q)
<1>1. /\ p \in Seq(S) /\ Head(q) \in S /\ Len(q) \in Nat /\ Len(p) = Len(q) - 1
      /\ Head(q) = q[1] /\ 1 \in 1..Len(q)
      /\ \A i \in 1..Len(p) : i + 1 \in 1..Len(q) /\ i + 1 > 1 /\ p[i] = q[i + 1]
  OBVIOUS
<1> HIDE DEF p
<1>2. Has(q, Head(q)) BY <1>1 DEF Has
<1>3. \A e : Has(p, e) => Has(q, e) /\ Before(q, Head(q), e) BY <1>1 DEF Has, Before
<1>4. \A e, f : Before(p, e, f) => Before(q, e, f)
  <2> SUFFICES ASSUME NEW e, NEW f, NEW i \in 1..Len(p), NEW j \in 1..Len(p),
                      i < j, p[i] = e, p[j] = f
               PROVE  Before(q, e, f)
    BY DEF Before
  <2>1. i + 1 \in 1..Len(q) /\ j + 1 \in 1..Len(q) /\ i + 1 < j + 1 BY <1>1
  <2>2. q[i + 1] = e /\ q[j + 1] = f BY <1>1
  <2> QED BY <2>1, <2>2 DEF Before
<1> QED BY <1>1, <1>2, <1>3, <1>4 DEF p

LEMMA HasEmpty == \A e, f : ~Has(<<>>, e) /\ ~Before(<<>>, e, f)
  BY DEF Has, Before

(* The messages of two in order are both in the mailbox. *)
LEMMA BeforeHas == \A q, e, f : Before(q, e, f) => Has(q, e) /\ Has(q, f)
  BY DEF Before, Has

(* The messages are told apart by their types and fields. *)
LEMMA MessageFields ==
  /\ StartRound.type = "StartRound"
  /\ \A s : SensorInfo(s).type = "RegisterSensor" /\ SensorInfo(s).from = s
  /\ \A s, x, b : /\ ModelUpdate(s, x, b).type = "ModelUpdate"
                  /\ ModelUpdate(s, x, b).from = s
                  /\ ModelUpdate(s, x, b).round = x /\ ModelUpdate(s, x, b).base = b
  /\ \A x, b : /\ StartTraining(x, b).type = "StartTraining"
               /\ StartTraining(x, b).round = x /\ StartTraining(x, b).base = b
  /\ \A x, b : /\ TrainingComplete(x, b).type = "TrainingComplete"
               /\ TrainingComplete(x, b).round = x /\ TrainingComplete(x, b).base = b
  /\ \A x : GlobalModelUpdate(x).type = "GlobalModelUpdate" /\ GlobalModelUpdate(x).round = x
  BY DEF StartRound, SensorInfo, ModelUpdate, StartTraining, TrainingComplete,
         GlobalModelUpdate

(* What a message of a given type is. *)
LEMMA MessageForms ==
  /\ \A m \in CoordMessages :
       /\ m.type = "RegisterSensor" => m.from \in Sensors
       /\ m.type = "ModelUpdate" =>
            /\ m.from \in Sensors /\ m.round \in RoundIds /\ m.base \in RoundIds
            /\ m = ModelUpdate(m.from, m.round, m.base)
  /\ \A m \in SensorMessages :
       /\ m.type = "StartTraining" =>
            m.round \in RoundIds /\ m.base \in RoundIds /\ m = StartTraining(m.round, m.base)
       /\ m.type = "TrainingComplete" =>
            m.round \in RoundIds /\ m.base \in RoundIds /\ m = TrainingComplete(m.round, m.base)
       /\ m.type = "GlobalModelUpdate" => m.round \in RoundIds /\ m = GlobalModelUpdate(m.round)
<1>1. ASSUME NEW m \in CoordMessages
      PROVE  /\ m.type = "RegisterSensor" => m.from \in Sensors
             /\ m.type = "ModelUpdate" =>
                  /\ m.from \in Sensors /\ m.round \in RoundIds /\ m.base \in RoundIds
                  /\ m = ModelUpdate(m.from, m.round, m.base)
  BY MessageFields DEF CoordMessages
<1>2. ASSUME NEW m \in SensorMessages
      PROVE  /\ m.type = "StartTraining" =>
                  /\ m.round \in RoundIds /\ m.base \in RoundIds
                  /\ m = StartTraining(m.round, m.base)
             /\ m.type = "TrainingComplete" =>
                  /\ m.round \in RoundIds /\ m.base \in RoundIds
                  /\ m = TrainingComplete(m.round, m.base)
             /\ m.type = "GlobalModelUpdate" =>
                  m.round \in RoundIds /\ m = GlobalModelUpdate(m.round)
  BY MessageFields DEF SensorMessages
<1> QED BY <1>1, <1>2

(* The messages are of their types. *)
LEMMA MessageTypes ==
  /\ StartRound \in CoordMessages
  /\ \A s \in Sensors : SensorInfo(s) \in CoordMessages
  /\ \A s \in Sensors, x, b \in RoundIds : ModelUpdate(s, x, b) \in CoordMessages
  /\ \A x, b \in RoundIds : StartTraining(x, b) \in SensorMessages
  /\ \A x, b \in RoundIds : TrainingComplete(x, b) \in SensorMessages
  /\ \A x \in RoundIds : GlobalModelUpdate(x) \in SensorMessages
  BY DEF CoordMessages, SensorMessages

(* What the coordinator tells the sensors, and so what may be late. *)
LEMMA OrderForms ==
  \A m \in Orders :
    /\ m \in SensorMessages
    /\ \A x, b : m # TrainingComplete(x, b)
    /\ \/ m.type = "StartTraining" /\ m.round \in RoundIds /\ m.base \in RoundIds
          /\ m = StartTraining(m.round, m.base)
       \/ m.type = "GlobalModelUpdate" /\ m.round \in RoundIds
          /\ m = GlobalModelUpdate(m.round)
  BY MessageTypes, MessageFields DEF Orders

(* Orders of different kinds, rounds or weights differ. *)
LEMMA OrdersDiffer ==
  \A x, b, y, c : /\ StartTraining(x, b) # GlobalModelUpdate(y)
                  /\ StartTraining(x, b) # TrainingComplete(y, c)
                  /\ GlobalModelUpdate(x) # TrainingComplete(y, c)
                  /\ StartTraining(x, b) = StartTraining(y, c) => x = y /\ b = c
                  /\ GlobalModelUpdate(x) = GlobalModelUpdate(y) => x = y
<1>1. ASSUME NEW x, NEW b, NEW y, NEW c
      PROVE  /\ StartTraining(x, b) # GlobalModelUpdate(y)
             /\ StartTraining(x, b) # TrainingComplete(y, c)
             /\ GlobalModelUpdate(x) # TrainingComplete(y, c)
  BY MessageFields
<1>2. ASSUME NEW x, NEW b, NEW y, NEW c, StartTraining(x, b) = StartTraining(y, c)
      PROVE  x = y /\ b = c
  BY <1>2, MessageFields
<1>3. ASSUME NEW x, NEW y, GlobalModelUpdate(x) = GlobalModelUpdate(y) PROVE x = y
  BY <1>3, MessageFields
<1> QED BY <1>1, <1>2, <1>3
-----------------------------------------------------------------------------
(* The number of StartRounds in the mailbox of the coordinator. *)
LEMMA StartsFinite == ASSUME Types PROVE IsFiniteSet(Starts) /\ Cardinality(Starts) \in Nat
<1>1. Len(coordMailbox) \in Nat BY DEF Types
<1>2. IsFiniteSet(1..Len(coordMailbox)) BY <1>1, FS_Interval
<1>3. Starts \subseteq 1..Len(coordMailbox) BY DEF Starts
<1> QED BY <1>2, <1>3, FS_Subset, FS_CardinalityType

LEMMA StartsAppend ==
  ASSUME Types, NEW m \in CoordMessages, coordMailbox' = Append(coordMailbox, m)
  PROVE  Cardinality(Starts') = Cardinality(Starts) + (IF m = StartRound THEN 1 ELSE 0)
<1>1. /\ Len(coordMailbox) \in Nat /\ Len(coordMailbox') = Len(coordMailbox) + 1
      /\ \A i \in 1..Len(coordMailbox) : coordMailbox'[i] = coordMailbox[i]
      /\ coordMailbox'[Len(coordMailbox) + 1] = m
  BY DEF Types
<1>2. Len(coordMailbox) + 1 \notin Starts BY <1>1 DEF Starts
<1>3. Starts' = IF m = StartRound THEN Starts \cup {Len(coordMailbox) + 1} ELSE Starts
  BY <1>1 DEF Starts
<1>4. CASE m = StartRound BY <1>2, <1>3, <1>4, StartsFinite, FS_AddElement
<1>5. CASE m # StartRound BY <1>3, <1>5, StartsFinite
<1> QED BY <1>4, <1>5

LEMMA StartsTail ==
  ASSUME Types, coordMailbox # <<>>, coordMailbox' = Tail(coordMailbox)
  PROVE  Cardinality(Starts') =
           Cardinality(Starts) - (IF Head(coordMailbox) = StartRound THEN 1 ELSE 0)
<1>1. /\ Len(coordMailbox) \in Nat /\ Len(coordMailbox') = Len(coordMailbox) - 1
      /\ \A i \in 1..Len(coordMailbox') : coordMailbox'[i] = coordMailbox[i + 1]
      /\ 1 \in 1..Len(coordMailbox) /\ Head(coordMailbox) = coordMailbox[1]
  BY DEF Types
<1> DEFINE T == Starts \ {1}
           f == [i \in Starts' |-> i + 1]
<1>2. \A i \in Starts' : i \in Int /\ i + 1 \in T BY <1>1 DEF Starts
<1>3. \A j \in T : j - 1 \in Starts' /\ j \in Int
  <2> SUFFICES ASSUME NEW j \in T PROVE j - 1 \in Starts' /\ j \in Int OBVIOUS
  <2>1. j \in 2..Len(coordMailbox) /\ coordMailbox[j] = StartRound BY DEF Starts
  <2>2. j - 1 \in 1..Len(coordMailbox') /\ (j - 1) + 1 = j BY <1>1, <2>1
  <2> QED BY <1>1, <2>1, <2>2 DEF Starts
<1> HIDE DEF T
<1>4. f \in Injection(Starts', T) BY <1>2 DEF Injection, IsInjective
<1>5. f \in Surjection(Starts', T)
  <2>1. \A j \in T : f[j - 1] = j BY <1>3
  <2> QED BY <1>2, <1>3, <2>1 DEF Surjection
<1>6. IsFiniteSet(T) BY StartsFinite, FS_Subset DEF T
<1>7. IsFiniteSet(Starts') /\ Cardinality(Starts') = Cardinality(T)
  BY <1>4, <1>5, <1>6, FS_Injection
<1>8. CASE Head(coordMailbox) = StartRound
  <2>1. 1 \in Starts BY <1>1, <1>8 DEF Starts
  <2> QED BY <1>7, <1>8, <2>1, StartsFinite, FS_RemoveElement DEF T
<1>9. CASE Head(coordMailbox) # StartRound
  <2>1. T = Starts BY <1>1, <1>9 DEF Starts, T
  <2> QED BY <1>7, <1>9, <2>1, StartsFinite
<1> QED BY <1>8, <1>9

-----------------------------------------------------------------------------
(* The coordinator takes a message, and a sensor does. *)
LEMMA CoordTakes ==
  ASSUME Types, coordMailbox # <<>>, coordMailbox' = Tail(coordMailbox)
  PROVE  /\ coordMailbox' \in Seq(CoordMessages) /\ Head(coordMailbox) \in CoordMessages
         /\ Has(coordMailbox, Head(coordMailbox))
         /\ \A e : Has(coordMailbox', e) =>
                    Has(coordMailbox, e) /\ Before(coordMailbox, Head(coordMailbox), e)
         /\ \A e, f : Before(coordMailbox', e, f) => Before(coordMailbox, e, f)
  BY HasTail DEF Types

LEMMA SensorTakes ==
  ASSUME Types, NEW s \in Sensors, NEW t, Takes(s, t)
  PROVE  LET q == sensorMailbox[s]
         IN  /\ sensorMailbox' \in [Sensors -> Seq(SensorMessages)]
             /\ sensorMailbox'[s] = Tail(q) /\ q # <<>> /\ q \in Seq(SensorMessages)
             /\ \A r \in Sensors \ {s} : sensorMailbox'[r] = sensorMailbox[r]
             /\ up[s] /\ Head(q) \in SensorMessages /\ Head(q).type = t
             /\ Has(q, Head(q))
             /\ \A e : Has(Tail(q), e) => Has(q, e) /\ Before(q, Head(q), e)
             /\ \A e, f : Before(Tail(q), e, f) => Before(q, e, f)
<1> DEFINE q == sensorMailbox[s]
<1>1. q \in Seq(SensorMessages) /\ q # <<>> /\ up[s] /\ Head(q).type = t
  BY DEF Takes, Types
<1>2. /\ sensorMailbox'[s] = Tail(q)
      /\ \A r \in Sensors \ {s} : sensorMailbox'[r] = sensorMailbox[r]
  BY DEF Takes, Types
<1>3. /\ Tail(q) \in Seq(SensorMessages) /\ Head(q) \in SensorMessages
      /\ Has(q, Head(q))
      /\ \A e : Has(Tail(q), e) => Has(q, e) /\ Before(q, Head(q), e)
      /\ \A e, f : Before(Tail(q), e, f) => Before(q, e, f)
  <2> HIDE DEF q
  <2> QED BY <1>1, HasTail
<1>4. sensorMailbox' \in [Sensors -> Seq(SensorMessages)]
  BY <1>2, <1>3 DEF Takes, Types
<1> QED BY <1>1, <1>2, <1>3, <1>4

LEMMA FaultsBounded == ASSUME Network PROVE MaxFaults[remote] \in Nat /\ faults \in Nat
  BY RoundAssumption DEF Network

(* The coordinator is told m, at once, later or never. *)
LEMMA CoordTold ==
  ASSUME Types, Network, UNCHANGED <<remote, strayed>>,
         NEW m \in CoordMessages, m # StartRound, TellCoordinator(m)
  PROVE  /\ coordMailbox' \in Seq(CoordMessages)
         /\ \A e : Has(coordMailbox', e) => Has(coordMailbox, e) \/ e = m
         /\ \A e, f : Before(coordMailbox', e, f) =>
                        Before(coordMailbox, e, f) \/ (Has(coordMailbox, e) /\ f = m)
         /\ Cardinality(Starts') = Cardinality(Starts)
         /\ sensorLate' = sensorLate
         /\ \A l \in coordLate' :
              l \in coordLate \/ (l = Late(m) /\ l.msg = m /\ coordMailbox' = coordMailbox)
         /\ Network'
<1>1. coordMailbox \in Seq(CoordMessages) BY DEF Types
<1>2. sensorLate' = sensorLate BY DEF TellCoordinator
<1>3. CASE coordMailbox' = Append(coordMailbox, m) /\ UNCHANGED <<faults, coordLate>>
  <2>1. Cardinality(Starts') = Cardinality(Starts) BY <1>3, StartsAppend, StartsFinite
  <2>2. Network' BY <1>2, <1>3 DEF Network, Lates
  <2> QED BY <1>1, <1>2, <1>3, <2>1, <2>2, HasAppend
<1>4. CASE /\ MayFail(1) /\ faults' = faults + 1
           /\ coordLate' \in {coordLate, coordLate \cup {Late(m)}}
           /\ UNCHANGED coordMailbox
  <2>1. Starts' = Starts BY <1>4 DEF Starts
  <2>2. \A l \in coordLate' : l \in coordLate \/ (l = Late(m) /\ l.msg = m)
    BY <1>4 DEF Late
  <2>3. remote /\ faults' \in 0..MaxFaults[remote]
    <3> DEFINE k == MaxFaults[remote]
    <3>1. MayFail(1) /\ faults' = faults + 1 BY <1>4
    <3>2. 1 # 0 OBVIOUS
    <3>3. remote /\ faults + 1 <= k BY <3>1, <3>2, Zenon DEF MayFail
    <3>4. k \in Nat /\ faults \in Nat BY FaultsBounded
    <3> HIDE DEF k
    <3>5. faults' \in 0..k BY <3>1, <3>3, <3>4
    <3> QED BY <3>3, <3>5 DEF k
  <2>4. Network'
    <3>1. \A l \in coordLate' : l.msg \in CoordMessages /\ l.msg # StartRound
      BY <2>2 DEF Network
    <3> QED BY <1>2, <2>3, <3>1 DEF Network, Lates
  <2> QED BY <1>1, <1>2, <1>4, <2>1, <2>2, <2>4
<1> QED BY <1>3, <1>4 DEF TellCoordinator

(* What the sensors hold after the coordinator has told some of them m, and  *)
(* what may still reach them.                                                *)
LEMMA SensorsTold ==
  ASSUME Types, NEW ss, NEW m \in SensorMessages, TellSensors(ss, m)
  PROVE  /\ sensorMailbox' \in [Sensors -> Seq(SensorMessages)]
         /\ \A s \in Sensors :
              /\ ~up[s] => sensorMailbox'[s] = sensorMailbox[s]
              /\ \A e : Has(sensorMailbox'[s], e) =>
                         Has(sensorMailbox[s], e) \/ (e = m /\ s \in ss /\ up[s])
              /\ \A e, f : Before(sensorMailbox'[s], e, f) =>
                  Before(sensorMailbox[s], e, f) \/ (Has(sensorMailbox[s], e) /\ f = m)
<1>1. PICK failed \in SUBSET ss :
        sensorMailbox' = [s \in Sensors |-> IF s \in ss \ failed /\ up[s]
                                             THEN Append(sensorMailbox[s], m)
                                             ELSE sensorMailbox[s]]
  BY DEF TellSensors
<1>2. ASSUME NEW s \in Sensors
      PROVE  /\ sensorMailbox'[s] \in Seq(SensorMessages)
             /\ ~up[s] => sensorMailbox'[s] = sensorMailbox[s]
             /\ \A e : Has(sensorMailbox'[s], e) =>
                         Has(sensorMailbox[s], e) \/ (e = m /\ s \in ss /\ up[s])
             /\ \A e, f : Before(sensorMailbox'[s], e, f) =>
                  Before(sensorMailbox[s], e, f) \/ (Has(sensorMailbox[s], e) /\ f = m)
  <2>1. sensorMailbox[s] \in Seq(SensorMessages) BY DEF Types
  <2>2. CASE s \in ss \ failed /\ up[s]
    <3>1. sensorMailbox'[s] = Append(sensorMailbox[s], m) BY <1>1, <2>2
    <3> QED BY <2>1, <2>2, <3>1, HasAppend
  <2>3. CASE ~(s \in ss \ failed /\ up[s])
    <3>1. sensorMailbox'[s] = sensorMailbox[s] BY <1>1, <2>3
    <3> QED BY <2>1, <3>1
  <2> QED BY <2>2, <2>3
<1>3. sensorMailbox' \in [Sensors -> Seq(SensorMessages)] BY <1>1, <1>2
<1> QED BY <1>2, <1>3

LEMMA SensorsDelayed ==
  ASSUME Network, UNCHANGED <<remote, strayed>>,
         NEW ss \in SUBSET Sensors, NEW m \in Orders, TellSensors(ss, m)
  PROVE  /\ coordLate' = coordLate
         /\ \A s \in Sensors : \A l \in sensorLate'[s] :
              \/ l \in sensorLate[s]
              \/ /\ l = Late(m) /\ l.msg = m /\ s \in ss /\ up[s]
                 /\ sensorMailbox'[s] = sensorMailbox[s]
         /\ Network'
<1>1. PICK failed \in SUBSET ss : \E delayed \in SUBSET {s \in failed : up[s]} :
        /\ MayFail(Cardinality(failed))
        /\ faults' = faults + Cardinality(failed)
        /\ sensorMailbox' = [s \in Sensors |-> IF s \in ss \ failed /\ up[s]
                                                 THEN Append(sensorMailbox[s], m)
                                                 ELSE sensorMailbox[s]]
        /\ sensorLate' = [s \in Sensors |-> IF s \in delayed
                                              THEN sensorLate[s] \cup {Late(m)}
                                              ELSE sensorLate[s]]
  BY DEF TellSensors
<1>2. PICK delayed \in SUBSET {s \in failed : up[s]} :
        sensorLate' = [s \in Sensors |-> IF s \in delayed
                                           THEN sensorLate[s] \cup {Late(m)}
                                           ELSE sensorLate[s]]
  BY <1>1
<1>3. coordLate' = coordLate BY DEF TellSensors
<1>4. IsFiniteSet(failed) /\ Cardinality(failed) \in Nat
  BY RoundAssumption, FS_Subset, FS_CardinalityType
<1>5. Late(m) \in Lates /\ Late(m).msg = m BY DEF Late, Lates, Network
<1>6. \A s \in delayed : s \in ss /\ up[s] /\ sensorMailbox'[s] = sensorMailbox[s]
  BY <1>1
<1>7. \A s \in Sensors : \A l \in sensorLate'[s] :
        l \in sensorLate[s] \/ (l = Late(m) /\ s \in delayed)
  BY <1>2
<1>8. sensorLate' \in [Sensors -> SUBSET Lates] BY <1>2, <1>5 DEF Network
<1>9. MayFail(Cardinality(failed)) /\ faults' = faults + Cardinality(failed) BY <1>1
<1>10. faults' \in 0..MaxFaults[remote]
  BY <1>4, <1>9, RoundAssumption DEF MayFail, Network
<1>11. ASSUME ~remote PROVE \A s \in Sensors : sensorLate'[s] = sensorLate[s]
  <2>1. failed = {} BY <1>4, <1>9, <1>11, FS_EmptySet DEF MayFail
  <2> QED BY <1>2, <2>1
<1>12. sensorLate' \in [Sensors -> SUBSET Lates'] BY <1>8 DEF Lates
<1> QED BY <1>3, <1>5, <1>6, <1>7, <1>10, <1>11, <1>12 DEF Network
-----------------------------------------------------------------------------
(* The driver asks for a round, or announces a sensor. *)
LEMMA DriverStartRoundBase ==
  ASSUME Base, DriverStartRound
  PROVE  Base'
<1>1. coordMailbox' = Append(coordMailbox, StartRound) /\ StartRound \in CoordMessages
  BY MessageTypes DEF DriverStartRound
<1>2. /\ coordMailbox' \in Seq(CoordMessages)
      /\ \A e : Has(coordMailbox', e) => Has(coordMailbox, e) \/ e = StartRound
  BY <1>1, HasAppend DEF Base, Types
<1>3. UNCHANGED <<sensorMailbox, sensorVars, coordVars, told, remote, netVars, strayed, baseOf>>
  BY DEF DriverStartRound, histVars
<1>4. requested' \in RoundIds /\ requested' = requested + 1
  BY RoundAssumption DEF DriverStartRound, Base, Types, RoundIds
<1>5. Types' BY <1>2, <1>3, <1>4 DEF Base, Types, coordVars, sensorVars
<1>6. Network' BY <1>3 DEF Base, Network, Lates, netVars
<1>7. Asked'
  <2>1. Cardinality(Starts') = Cardinality(Starts) + 1 BY <1>1, StartsAppend DEF Base
  <2>2. round' = round /\ round \in Int BY <1>3 DEF coordVars, Base, Types, RoundIds
  <2> QED BY <1>4, <2>1, <2>2, StartsFinite DEF Base, Asked
<1>8. Registered'
  <2>1. \A s, x, b : ModelUpdate(s, x, b) # StartRound BY MessageFields
  <2>2. \A s \in Sensors : (Works(s) \/ Answers(s))' => Works(s) \/ Answers(s)
    BY <1>2, <1>3, <2>1 DEF Works, Answers, netVars, coordVars, sensorVars
  <2> QED BY <1>3, <2>2 DEF Base, Registered, coordVars
<1>9. Counted' BY <1>3 DEF Base, Counted, coordVars
<1> QED BY <1>5, <1>6, <1>7, <1>8, <1>9 DEF Base

LEMMA RegisterSensorBase ==
  ASSUME Base, NEW s \in Sensors, RegisterSensor(s)
  PROVE  Base'
<1> DEFINE m == SensorInfo(s)
<1>1. m \in CoordMessages /\ m # StartRound /\ \A r, x, b : ModelUpdate(r, x, b) # m
  BY MessageTypes, MessageFields
<1>2. UNCHANGED <<sensorMailbox, sensorVars, coordVars, baseOf, told, requested, remote, strayed>>
  BY DEF RegisterSensor
<1>3. TellCoordinator(m) BY DEF RegisterSensor
<1> HIDE DEF m
<1>4. /\ coordMailbox' \in Seq(CoordMessages)
      /\ \A e : Has(coordMailbox', e) => Has(coordMailbox, e) \/ e = m
      /\ Cardinality(Starts') = Cardinality(Starts)
      /\ sensorLate' = sensorLate
      /\ \A l \in coordLate' : l \in coordLate \/ l.msg = m
      /\ Network'
  BY <1>1, <1>2, <1>3, CoordTold DEF Base
<1>5. Types' BY <1>2, <1>4 DEF Base, Types, coordVars, sensorVars
<1>6. Asked' /\ Counted' BY <1>2, <1>4 DEF Base, Asked, Counted, coordVars
<1>7. \A r \in Sensors : (Works(r) \/ Answers(r))' => Works(r) \/ Answers(r)
  BY <1>1, <1>2, <1>4 DEF Works, Answers, coordVars, sensorVars
<1>8. Registered' BY <1>2, <1>7 DEF Base, Registered, coordVars
<1> QED BY <1>4, <1>5, <1>6, <1>8 DEF Base

(* The coordinator registers a sensor, or ignores a late update. *)
LEMMA CoordIgnoresBase ==
  ASSUME Base, HandleRegisterSensor \/ HandleStaleUpdate
  PROVE  Base'
<1>1. coordMailbox # <<>> /\ coordMailbox' = Tail(coordMailbox)
  BY DEF HandleRegisterSensor, HandleStaleUpdate
<1>2. Head(coordMailbox) # StartRound
  BY MessageFields DEF HandleRegisterSensor, HandleStaleUpdate
<1>3. UNCHANGED <<sensorMailbox, sensorVars, round, pendingRound, pendingUpdates,
                  globalWeights, baseOf, told, requested, remote, netVars, strayed>>
  BY DEF HandleRegisterSensor, HandleStaleUpdate, coordVars, driverVars, histVars
<1>4. /\ coordMailbox' \in Seq(CoordMessages) /\ Head(coordMailbox) \in CoordMessages
      /\ \A e : Has(coordMailbox', e) => Has(coordMailbox, e)
  BY <1>1, CoordTakes DEF Base
<1>5. sensors \subseteq sensors' /\ sensors' \subseteq Sensors
  BY <1>4, MessageForms DEF HandleRegisterSensor, HandleStaleUpdate, coordVars, Base, Types
<1>6. Types' BY <1>3, <1>4, <1>5 DEF Base, Types, sensorVars
<1>7. Cardinality(Starts') = Cardinality(Starts)
  BY <1>1, <1>2, StartsTail, StartsFinite DEF Base
<1>8. Asked' /\ Counted' BY <1>3, <1>7 DEF Base, Asked, Counted
<1>9. Network' BY <1>3 DEF Base, Network, Lates, netVars
<1>10. \A s \in Sensors : (Works(s) \/ Answers(s))' => Works(s) \/ Answers(s)
  BY <1>3, <1>4 DEF Works, Answers, netVars, sensorVars
<1>11. Registered' BY <1>3, <1>5, <1>10 DEF Base, Registered
<1> QED BY <1>6, <1>8, <1>9, <1>11 DEF Base

(* A StartRound in the mailbox has been asked for. *)
LEMMA RoundBegins ==
  ASSUME Types, Asked, HandleStartRound
  PROVE  /\ round \in Nat /\ round + 1 \in RoundIds /\ round < requested
         /\ Asked'
<1>1. coordMailbox # <<>> /\ Head(coordMailbox) = StartRound /\ coordMailbox' = Tail(coordMailbox)
  BY DEF HandleStartRound
<1>2. Cardinality(Starts') = Cardinality(Starts) - 1 BY <1>1, StartsTail
<1>3. 1 \in Starts BY <1>1 DEF Types, Starts
<1>4. Cardinality(Starts) \in Nat /\ Cardinality(Starts) # 0
  BY <1>3, StartsFinite, FS_EmptySet
<1>5. round \in Nat /\ requested \in 0..MaxRounds BY DEF Types, RoundIds
<1>6. round + Cardinality(Starts) = requested BY DEF Asked
<1>7. round' = round + 1 /\ requested' = requested BY DEF HandleStartRound, driverVars
<1> QED BY <1>2, <1>4, <1>5, <1>6, <1>7, RoundAssumption DEF Asked, RoundIds

LEMMA HandleStartRoundBase ==
  ASSUME Base, HandleStartRound
  PROVE  Base'
<1> DEFINE n == round + 1
           m == StartTraining(n, globalWeights)
<1>1. round \in Nat /\ n \in RoundIds /\ Asked' BY RoundBegins DEF Base
<1>2. coordMailbox # <<>> /\ coordMailbox' = Tail(coordMailbox) BY DEF HandleStartRound
<1>3. /\ coordMailbox' \in Seq(CoordMessages)
      /\ \A e : Has(coordMailbox', e) => Has(coordMailbox, e)
  BY <1>2, CoordTakes DEF Base
<1>4. /\ round' = n /\ pendingRound' = n
      /\ pendingUpdates' = [s \in Sensors |-> NoUpdate]
      /\ UNCHANGED <<sensors, globalWeights, up, behaviorStack, roundID, saved, training,
                     told, requested, remote, strayed>>
      /\ TellSensors(sensors, m)
  BY DEF HandleStartRound, sensorVars, driverVars
<1>5. /\ globalWeights \in RoundIds /\ sensors \in SUBSET Sensors
      /\ m \in SensorMessages /\ m \in Orders
  BY <1>1, MessageTypes DEF Base, Types, Orders
<1>6. baseOf' \in [RoundIds -> RoundIds]
  BY <1>1, <1>5 DEF HandleStartRound, Base, Types
<1>7. \A x, b : m # TrainingComplete(x, b) BY MessageFields
<1> HIDE DEF m
<1>8. /\ sensorMailbox' \in [Sensors -> Seq(SensorMessages)]
      /\ \A s \in Sensors :
              /\ ~up[s] => sensorMailbox'[s] = sensorMailbox[s]
              /\ \A e : Has(sensorMailbox'[s], e) =>
                         Has(sensorMailbox[s], e) \/ (e = m /\ s \in sensors /\ up[s])
              /\ \A e, f : Before(sensorMailbox'[s], e, f) =>
                  Before(sensorMailbox[s], e, f) \/ (Has(sensorMailbox[s], e) /\ f = m)
  BY <1>4, <1>5, SensorsTold DEF Base
<1>9. /\ coordLate' = coordLate
      /\ \A s \in Sensors : \A l \in sensorLate'[s] :
           l \in sensorLate[s] \/ (l.msg = m /\ s \in sensors)
      /\ Network'
  BY <1>4, <1>5, SensorsDelayed DEF Base
<1>10. Types' BY <1>1, <1>3, <1>4, <1>5, <1>6, <1>8 DEF Base, Types
<1>11. \A s \in Sensors : (Works(s) \/ Answers(s))' => Works(s) \/ Answers(s) \/ s \in sensors
  <2> SUFFICES ASSUME NEW s \in Sensors PROVE (Works(s) \/ Answers(s))' =>
                                              Works(s) \/ Answers(s) \/ s \in sensors
    OBVIOUS
  <2>1. Works(s)' => Works(s) \/ s \in sensors
    BY <1>4, <1>7, <1>8, <1>9 DEF Works, Owes, Trains
  <2>2. Answers(s)' => Answers(s) BY <1>3, <1>4, <1>9 DEF Answers
  <2> QED BY <2>1, <2>2
<1>12. Registered' BY <1>1, <1>4, <1>11 DEF Base, Registered
<1>13. Counted' BY <1>1, <1>4 DEF Base, Counted
<1> QED BY <1>1, <1>9, <1>10, <1>12, <1>13 DEF Base

(* Received never counts a sensor that is not registered, so that            *)
(* received >= total says that all of them have answered.                    *)
LEMMA CompleteIsAll ==
  ASSUME Types, NEW updates, Received(updates) \subseteq sensors, Complete(updates)
  PROVE  Received(updates) = sensors
<1>1. IsFiniteSet(sensors) BY RoundAssumption, FS_Subset DEF Types
<1>2. /\ Cardinality(Received(updates)) <= Cardinality(sensors)
      /\ Cardinality(sensors) = Cardinality(Received(updates)) => sensors = Received(updates)
      /\ IsFiniteSet(Received(updates))
  BY <1>1, FS_Subset
<1>3. Cardinality(sensors) \in Nat /\ Cardinality(Received(updates)) \in Nat
  BY <1>1, <1>2, FS_CardinalityType
<1> QED BY <1>2, <1>3 DEF Complete

(* An update of the pending round comes from a registered sensor; with it,   *)
(* still only registered sensors have answered.                              *)
LEMMA UpdateCounts ==
  ASSUME Base, HandleModelUpdate
  PROVE  LET u == Head(coordMailbox)
             updates == [pendingUpdates EXCEPT ![u.from] = u.base]
         IN  /\ coordMailbox # <<>> /\ coordMailbox' = Tail(coordMailbox)
             /\ u \in CoordMessages /\ Has(coordMailbox, u)
             /\ u.from \in sensors /\ u.base \in RoundIds
             /\ u # StartRound /\ u = ModelUpdate(u.from, round, u.base)
             /\ round \in 1..MaxRounds
             /\ updates \in [Sensors -> RoundIds \cup {NoUpdate}]
             /\ pendingUpdates' = updates
             /\ Received(updates) \subseteq sensors
             /\ Complete(updates) => Received(updates) = sensors
<1> DEFINE u == Head(coordMailbox)
           updates == [pendingUpdates EXCEPT ![u.from] = u.base]
<1>1. /\ coordMailbox # <<>> /\ coordMailbox' = Tail(coordMailbox)
      /\ u.type = "ModelUpdate" /\ u.round = round /\ pendingUpdates' = updates
  BY DEF HandleModelUpdate, IsStale, Base, Types
<1>2. u \in CoordMessages /\ Has(coordMailbox, u) /\ u # StartRound
  BY <1>1, CoordTakes, MessageFields DEF Base
<1>3. /\ u.from \in Sensors /\ u.base \in RoundIds /\ round \in RoundIds
      /\ u = ModelUpdate(u.from, round, u.base)
  BY <1>1, <1>2, MessageForms
<1>4. u.from \in sensors /\ round > 0
  <2>1. Answers(u.from) BY <1>2, <1>3 DEF Answers
  <2> QED BY <1>3, <2>1 DEF Base, Registered
<1>5. updates \in [Sensors -> RoundIds \cup {NoUpdate}] BY <1>3 DEF Base, Types
<1>6. Received(updates) \subseteq sensors
  <2> SUFFICES ASSUME NEW s \in Sensors, updates[s] # NoUpdate PROVE s \in sensors
    BY DEF Received
  <2>1. CASE s = u.from BY <1>4, <2>1
  <2>2. CASE s # u.from
    <3>1. pendingUpdates[s] # NoUpdate BY <1>3, <2>2 DEF Base, Types
    <3> QED BY <3>1 DEF Answers, Base, Registered
  <2> QED BY <2>1, <2>2
<1>7. round \in 1..MaxRounds BY <1>3, <1>4, RoundAssumption DEF RoundIds
<1>8. Complete(updates) => Received(updates) = sensors
  <2> HIDE DEF updates
  <2> QED BY <1>6, CompleteIsAll DEF Base
<1> QED BY <1>1, <1>2, <1>3, <1>4, <1>5, <1>6, <1>7, <1>8

(* A report is appended to those the logger has. *)
LEMMA ReportAppended ==
  ASSUME Types, NEW c \in SUBSET Sensors, NEW k \in SUBSET Sensors,
         told' = Append(told, RoundComplete(round, c, k))
  PROVE  /\ told' \in Seq(Reports)
         /\ RoundComplete(round, c, k) \in Reports
         /\ Len(told) \in Nat /\ Len(told') = Len(told) + 1
         /\ \A i \in 1..Len(told) : told'[i] = told[i]
         /\ LET e == told'[Len(told) + 1]
            IN  e.round = round /\ e.clients = c /\ e.registered = k
<1> DEFINE e == RoundComplete(round, c, k)
<1>1. e \in Reports /\ e.round = round /\ e.clients = c /\ e.registered = k
  BY DEF RoundComplete, Reports, Types
<1>2. told \in Seq(Reports) BY DEF Types
<1> HIDE DEF e
<1>3. /\ told' \in Seq(Reports) /\ Len(told) \in Nat /\ Len(told') = Len(told) + 1
      /\ \A i \in 1..Len(told) : told'[i] = told[i]
      /\ told'[Len(told) + 1] = e
  <2>1. told' = Append(told, e) BY DEF e
  <2> QED BY <1>1, <1>2, <2>1, AppendProperties, LenProperties
<1> QED BY <1>1, <1>3 DEF e

LEMMA HandleModelUpdateBase ==
  ASSUME Base, HandleModelUpdate
  PROVE  Base'
<1> DEFINE u == Head(coordMailbox)
           updates == [pendingUpdates EXCEPT ![u.from] = u.base]
<1>1. /\ coordMailbox # <<>> /\ coordMailbox' = Tail(coordMailbox)
      /\ u # StartRound /\ u.from \in sensors
      /\ round \in 1..MaxRounds /\ updates \in [Sensors -> RoundIds \cup {NoUpdate}]
      /\ pendingUpdates' = updates
      /\ Complete(updates) => Received(updates) = sensors
  BY UpdateCounts
<1>2. /\ coordMailbox' \in Seq(CoordMessages)
      /\ \A e : Has(coordMailbox', e) => Has(coordMailbox, e)
  BY <1>1, CoordTakes DEF Base
<1>3. UNCHANGED <<sensors, round, pendingRound, up, behaviorStack, roundID, saved, training,
                  requested, remote, strayed, baseOf>>
  BY DEF HandleModelUpdate, sensorVars, driverVars
<1>4. \/ ~Complete(updates) /\ UNCHANGED <<globalWeights, sensorMailbox, told, netVars>>
      \/ Complete(updates) /\ AggregateAndFinalise(updates)
  BY DEF HandleModelUpdate
<1>5. Asked'
  <2>1. Cardinality(Starts') = Cardinality(Starts)
    BY <1>1, StartsTail, StartsFinite DEF Base
  <2> QED BY <1>3, <2>1 DEF Base, Asked
<1>6. \A s \in Sensors : s # u.from => pendingUpdates'[s] = pendingUpdates[s]
  BY <1>1 DEF Base, Types
<1>7. round > 0 /\ round \in 1..round BY <1>1
<1>8. sensors \in SUBSET Sensors BY DEF Base, Types
<1> HIDE DEF u, updates
<1>9. CASE ~Complete(updates) /\ UNCHANGED <<globalWeights, sensorMailbox, told, netVars>>
  <2>1. Types' BY <1>1, <1>2, <1>3, <1>9 DEF Base, Types
  <2>2. Network' /\ Counted' BY <1>3, <1>9 DEF Base, Network, Lates, Counted, netVars
  <2>3. \A s \in Sensors : (Works(s) \/ Answers(s))' => Works(s) \/ Answers(s) \/ s = u.from
    BY <1>2, <1>3, <1>6, <1>9 DEF Works, Answers, netVars
  <2>4. Registered' BY <1>1, <1>3, <1>7, <2>3 DEF Base, Registered
  <2> QED BY <1>5, <2>1, <2>2, <2>4 DEF Base
<1>10. CASE Complete(updates) /\ AggregateAndFinalise(updates)
  <2> DEFINE m == GlobalModelUpdate(round)
  <2>1. TellSensors(sensors, m) /\ globalWeights' = round
    BY <1>10 DEF AggregateAndFinalise
  <2>2. told' = Append(told, RoundComplete(round, sensors, sensors))
    BY <1>1, <1>10 DEF AggregateAndFinalise
  <2>3. m \in SensorMessages /\ m \in Orders BY MessageTypes DEF Base, Types, Orders
  <2>4. \A x, b : m # StartTraining(x, b) /\ m # TrainingComplete(x, b)
    BY MessageFields
  <2> HIDE DEF m
  <2>5. /\ sensorMailbox' \in [Sensors -> Seq(SensorMessages)]
        /\ \A s \in Sensors :
              /\ ~up[s] => sensorMailbox'[s] = sensorMailbox[s]
              /\ \A e : Has(sensorMailbox'[s], e) =>
                         Has(sensorMailbox[s], e) \/ (e = m /\ s \in sensors /\ up[s])
              /\ \A e, f : Before(sensorMailbox'[s], e, f) =>
                  Before(sensorMailbox[s], e, f) \/ (Has(sensorMailbox[s], e) /\ f = m)
    BY <2>1, <2>3, SensorsTold DEF Base
  <2>6. /\ coordLate' = coordLate
        /\ \A s \in Sensors : \A l \in sensorLate'[s] :
             l \in sensorLate[s] \/ (l.msg = m /\ s \in sensors)
        /\ Network'
    BY <1>3, <1>8, <2>1, <2>3, SensorsDelayed DEF Base
  <2>7. /\ told' \in Seq(Reports) /\ Len(told) \in Nat /\ Len(told') = Len(told) + 1
        /\ \A i \in 1..Len(told) : told'[i] = told[i]
        /\ told'[Len(told) + 1].round = round
        /\ told'[Len(told) + 1].clients = told'[Len(told) + 1].registered
    BY <1>8, <2>2, ReportAppended DEF Base
  <2>8. Types' BY <1>1, <1>2, <1>3, <2>1, <2>5, <2>7 DEF Base, Types
  <2>9. Counted'
    <3> SUFFICES ASSUME NEW i \in 1..Len(told')
                 PROVE  told'[i].round \in 1..round /\ told'[i].clients = told'[i].registered
      BY <1>3 DEF Counted
    <3>1. CASE i = Len(told) + 1 BY <1>7, <2>7, <3>1
    <3>2. CASE i # Len(told) + 1
      <4>1. i \in 1..Len(told) BY <2>7, <3>2
      <4> QED BY <2>7, <4>1 DEF Base, Counted
    <3> QED BY <3>1, <3>2
  <2>10. \A s \in Sensors : (Works(s) \/ Answers(s))' => Works(s) \/ Answers(s) \/ s = u.from
    <3> SUFFICES ASSUME NEW s \in Sensors
                 PROVE  (Works(s) \/ Answers(s))' => Works(s) \/ Answers(s) \/ s = u.from
      OBVIOUS
    <3>1. \A x, b \in RoundIds : Owes(training'[s], sensorMailbox'[s], x, b) =>
                                 Owes(training[s], sensorMailbox[s], x, b)
      BY <1>3, <2>4, <2>5 DEF Owes, Trains
    <3>2. \A l \in sensorLate'[s], x, b \in RoundIds :
            l.msg \in {StartTraining(x, b), TrainingComplete(x, b)} => l \in sensorLate[s]
      BY <2>4, <2>6
    <3>3. Works(s)' => Works(s) BY <3>1, <3>2 DEF Works
    <3>4. Answers(s)' => Answers(s) \/ s = u.from BY <1>2, <1>6, <2>6 DEF Answers
    <3> QED BY <3>3, <3>4
  <2>11. Registered' BY <1>1, <1>3, <1>7, <2>10 DEF Base, Registered
  <2> QED BY <1>5, <2>6, <2>8, <2>9, <2>11 DEF Base
<1> QED BY <1>4, <1>9, <1>10
-----------------------------------------------------------------------------
(* A goroutine is what it trains for, and training is not being idle. *)
LEMMA TrainingFields ==
  /\ \A x, b, y, c : [round |-> x, base |-> b] = [round |-> y, base |-> c] => x = y /\ b = c
  /\ \A x, b \in RoundIds : [round |-> x, base |-> b] # Idle
<1>1. ASSUME NEW x, NEW b, NEW y, NEW c, [round |-> x, base |-> b] = [round |-> y, base |-> c]
      PROVE  x = y /\ b = c
  <2>1. [round |-> x, base |-> b].round = x /\ [round |-> x, base |-> b].base = b OBVIOUS
  <2>2. [round |-> y, base |-> c].round = y /\ [round |-> y, base |-> c].base = c OBVIOUS
  <2> QED BY <1>1, <2>1, <2>2
<1>2. \A x \in RoundIds : x # -1 BY RoundAssumption DEF RoundIds
<1> QED BY <1>1, <1>2 DEF Idle

(* The two behaviors of a training sensor are popped one after the other. *)
LEMMA StackPops ==
  /\ Unbecome(Become(<<"training">>, "sending")) = <<"training">>
  /\ Unbecome(<<"training">>) = <<>>
<1>1. ASSUME NEW S, NEW a \in S, NEW b \in S
      PROVE  Front(Append(<<a>>, b)) = <<a>> /\ Front(<<a>>) = <<>> /\ Append(<<a>>, b) # <<>>
  <2> DEFINE one == <<a>>
             two == Append(one, b)
  <2>1. one \in Seq(S) /\ Len(one) = 1 /\ one[1] = a OBVIOUS
  <2> HIDE DEF one
  <2>2. two \in Seq(S) /\ Len(two) = 2 /\ two[1] = a
    <3>1. two \in Seq(S) /\ Len(two) = Len(one) + 1 BY <2>1, AppendProperties
    <3>2. two[1] = one[1] BY <2>1
    <3> HIDE DEF two
    <3> QED BY <2>1, <3>1, <3>2
  <2> HIDE DEF two
  <2>3. SubSeq(two, 1, 1) = one
    <3>1. /\ SubSeq(two, 1, 1) \in Seq(S) /\ Len(SubSeq(two, 1, 1)) = 1
          /\ SubSeq(two, 1, 1)[1] = a
      BY <2>2
    <3> QED BY <2>1, <3>1, SeqEqual
  <2>4. SubSeq(one, 1, 0) = <<>> BY <2>1, SubSeqEmpty
  <2>5. Len(two) - 1 = 1 /\ Len(one) - 1 = 0 BY <2>1, <2>2
  <2>6. Front(two) = one /\ Front(one) = <<>> BY <2>3, <2>4, <2>5 DEF Front
  <2> QED BY <2>2, <2>6 DEF one, two
<1>2. Front(Append(<<"training">>, "sending")) = <<"training">> /\ Front(<<"training">>) = <<>>
      /\ Append(<<"training">>, "sending") # <<>>
  <2>1. "training" \in {"training", "sending"} /\ "sending" \in {"training", "sending"} OBVIOUS
  <2> QED BY <2>1, <1>1
<1> QED BY <1>2 DEF Unbecome, Become

(* Training begins with the message at the head of the mailbox. *)
LEMMA TrainingStarts ==
  ASSUME Types, NEW s \in Sensors, HandleStartTraining(s)
  PROVE  LET m == Head(sensorMailbox[s])
         IN  /\ Takes(s, "StartTraining")
             /\ m.round \in RoundIds /\ m.base \in RoundIds
             /\ m = StartTraining(m.round, m.base)
             /\ behaviorStack[s] = <<>>
             /\ training'[s] = [round |-> m.round, base |-> m.base] /\ roundID'[s] = m.round
             /\ behaviorStack'[s] = <<"training">>
             /\ \A r \in Sensors \ {s} : /\ training'[r] = training[r] /\ roundID'[r] = roundID[r]
                                          /\ behaviorStack'[r] = behaviorStack[r]
             /\ training' \in [Sensors -> [round : RoundIds, base : RoundIds] \cup {Idle}]
             /\ roundID' \in [Sensors -> RoundIds]
             /\ behaviorStack' \in [Sensors -> {<<>>, <<"training">>}]
<1> DEFINE m == Head(sensorMailbox[s])
<1>1. Takes(s, "StartTraining") BY DEF HandleStartTraining
<1>2. m \in SensorMessages /\ m.type = "StartTraining" BY <1>1, SensorTakes
<1>3. m.round \in RoundIds /\ m.base \in RoundIds /\ m = StartTraining(m.round, m.base)
  BY <1>2, MessageForms
<1>4. behaviorStack[s] = <<>>
  <2>1. Behavior(s) = "idle" BY DEF HandleStartTraining
  <2>2. behaviorStack[s] \in {<<>>, <<"training">>} BY DEF Types
  <2>3. behaviorStack[s] = <<"training">> => Behavior(s) = "training" BY DEF Behavior, Last
  <2> QED BY <2>1, <2>2, <2>3
<1>5. /\ training'[s] = [round |-> m.round, base |-> m.base] /\ roundID'[s] = m.round
      /\ behaviorStack'[s] = <<"training">>
      /\ \A r \in Sensors \ {s} : /\ training'[r] = training[r] /\ roundID'[r] = roundID[r]
                                   /\ behaviorStack'[r] = behaviorStack[r]
      /\ training' \in [Sensors -> [round : RoundIds, base : RoundIds] \cup {Idle}]
      /\ roundID' \in [Sensors -> RoundIds]
      /\ behaviorStack' \in [Sensors -> {<<>>, <<"training">>}]
  <2>1. Append(<<>>, "training") = <<"training">> OBVIOUS
  <2> QED BY <1>3, <1>4, <2>1 DEF HandleStartTraining, Become, Types
<1> QED BY <1>1, <1>3, <1>4, <1>5

(* It ends with a TrainingComplete, and the sensor is idle again. *)
LEMMA TrainingEnds ==
  ASSUME Types, NEW s \in Sensors, HandleTrainingComplete(s)
  PROVE  LET m == Head(sensorMailbox[s])
         IN  /\ Takes(s, "TrainingComplete")
             /\ m.round \in RoundIds /\ m.base \in RoundIds
             /\ m = TrainingComplete(m.round, m.base)
             /\ TellCoordinator(ModelUpdate(s, roundID[s], m.base))
             /\ roundID[s] \in RoundIds
             /\ ModelUpdate(s, roundID[s], m.base) \in CoordMessages
             /\ ModelUpdate(s, roundID[s], m.base) # StartRound
             /\ behaviorStack[s] = <<"training">> /\ behaviorStack'[s] = <<>>
             /\ \A r \in Sensors \ {s} : behaviorStack'[r] = behaviorStack[r]
             /\ behaviorStack' \in [Sensors -> {<<>>, <<"training">>}]
             /\ saved' \in [Sensors -> RoundIds]
             /\ UNCHANGED <<sensors, round, pendingRound, pendingUpdates, globalWeights, told,
                            baseOf, requested, up, roundID, training, remote, strayed>>
<1> DEFINE m == Head(sensorMailbox[s])
<1>1. Takes(s, "TrainingComplete") BY DEF HandleTrainingComplete
<1>2. m \in SensorMessages /\ m.type = "TrainingComplete" BY <1>1, SensorTakes
<1>3. m.round \in RoundIds /\ m.base \in RoundIds /\ m = TrainingComplete(m.round, m.base)
  BY <1>2, MessageForms
<1>4. /\ TellCoordinator(ModelUpdate(s, roundID[s], m.base)) /\ roundID[s] \in RoundIds
      /\ UNCHANGED <<sensors, round, pendingRound, pendingUpdates, globalWeights, told,
                     baseOf, requested, up, roundID, training, remote, strayed>>
  BY DEF HandleTrainingComplete, coordVars, driverVars, Types
<1>5. saved' \in [Sensors -> RoundIds] BY DEF HandleTrainingComplete, Types
<1>6. behaviorStack[s] = <<"training">>
  <2>1. Behavior(s) = "training" BY DEF HandleTrainingComplete
  <2>2. behaviorStack[s] \in {<<>>, <<"training">>} BY DEF Types
  <2> QED BY <2>1, <2>2 DEF Behavior
<1>7. behaviorStack' = [behaviorStack EXCEPT ![s] = <<>>]
  BY <1>6, StackPops DEF HandleTrainingComplete, Types
<1>8. /\ ModelUpdate(s, roundID[s], m.base) \in CoordMessages
      /\ ModelUpdate(s, roundID[s], m.base) # StartRound
  BY <1>3, <1>4, MessageTypes, MessageFields
<1> HIDE DEF m
<1>9. /\ behaviorStack'[s] = <<>>
      /\ \A r \in Sensors \ {s} : behaviorStack'[r] = behaviorStack[r]
      /\ behaviorStack' \in [Sensors -> {<<>>, <<"training">>}]
  BY <1>7 DEF Types
<1> QED BY <1>1, <1>3, <1>4, <1>5, <1>6, <1>8, <1>9 DEF m

(* A step of sensor s that gives it no work and tells the coordinator        *)
(* nothing.                                                                  *)
LEMMA SensorBase ==
  ASSUME Base, Types', Network', NEW s \in Sensors,
         UNCHANGED <<coordMailbox, coordVars, coordLate, told, requested>>,
         \A r \in Sensors \ {s} : /\ sensorMailbox'[r] = sensorMailbox[r]
                                  /\ training'[r] = training[r]
                                  /\ sensorLate'[r] = sensorLate[r],
         Works(s)' => Works(s)
  PROVE  Base'
<1>1. Asked' /\ Counted' BY DEF Base, Asked, Starts, Counted, coordVars
<1>2. \A r \in Sensors : Works(r)' => Works(r) BY DEF Works
<1>3. \A r \in Sensors : Answers(r)' => Answers(r) BY DEF Answers, coordVars
<1>4. Registered' BY <1>2, <1>3 DEF Base, Registered, coordVars
<1> QED BY <1>1, <1>4 DEF Base

LEMMA SensorTakesBase ==
  ASSUME Base, NEW s \in Sensors,
         HandleStartTraining(s) \/ IgnoreStartTraining(s) \/ HandleGlobalModelUpdate(s)
  PROVE  Base'
<1> DEFINE q == sensorMailbox[s]
           m == Head(q)
<1>1. \E t : Takes(s, t)
  BY DEF HandleStartTraining, IgnoreStartTraining, HandleGlobalModelUpdate
<1>2. /\ sensorMailbox' \in [Sensors -> Seq(SensorMessages)]
      /\ sensorMailbox'[s] = Tail(q) /\ Has(q, m) /\ m \in SensorMessages
      /\ \A r \in Sensors \ {s} : sensorMailbox'[r] = sensorMailbox[r]
      /\ \A e : Has(Tail(q), e) => Has(q, e)
  BY <1>1, SensorTakes DEF Base
<1>3. UNCHANGED <<coordMailbox, coordVars, told, driverVars, histVars, up, saved>>
  BY DEF HandleStartTraining, IgnoreStartTraining, HandleGlobalModelUpdate, sensorVars
<1>4. /\ roundID' \in [Sensors -> RoundIds]
      /\ behaviorStack' \in [Sensors -> {<<>>, <<"training">>}]
      /\ training' \in [Sensors -> [round : RoundIds, base : RoundIds] \cup {Idle}]
      /\ \A r \in Sensors \ {s} : training'[r] = training[r]
      /\ \/ training'[s] = training[s]
         \/ \E x, b \in RoundIds : /\ training'[s] = [round |-> x, base |-> b]
                                   /\ m = StartTraining(x, b)
  <2>1. CASE HandleStartTraining(s) BY <2>1, TrainingStarts DEF Base
  <2>2. CASE IgnoreStartTraining(s) BY <2>2 DEF IgnoreStartTraining, sensorVars, Base, Types
  <2>3. CASE HandleGlobalModelUpdate(s)
    <3>1. m.type = "GlobalModelUpdate" BY <2>3 DEF HandleGlobalModelUpdate, Takes
    <3>2. m.round \in RoundIds BY <1>2, <3>1, MessageForms
    <3> QED BY <2>3, <3>2 DEF HandleGlobalModelUpdate, Base, Types
  <2> QED BY <2>1, <2>2, <2>3
<1>5. Types' BY <1>2, <1>3, <1>4 DEF Base, Types, coordVars, driverVars, histVars
<1>6. Network' BY <1>3 DEF Base, Network, Lates, histVars, netVars
<1> HIDE DEF q, m
<1>7. Works(s)' => Works(s)
  <2> SUFFICES ASSUME NEW x \in RoundIds, NEW b \in RoundIds,
                      Owes(training'[s], sensorMailbox'[s], x, b)
               PROVE  \E y, c \in RoundIds : Owes(training[s], sensorMailbox[s], y, c)
    BY <1>3 DEF Works, histVars, netVars
  <2>1. CASE training'[s] = training[s] BY <1>2, <2>1 DEF Owes, Trains, q
  <2>2. CASE \E y, c \in RoundIds : m = StartTraining(y, c)
    BY <1>2, <2>2 DEF Owes, q
  <2> QED BY <1>4, <2>1, <2>2
<1>8. \A r \in Sensors \ {s} : sensorLate'[r] = sensorLate[r] BY <1>3 DEF histVars, netVars
<1> QED BY <1>2, <1>3, <1>4, <1>5, <1>6, <1>7, <1>8, SensorBase DEF histVars, netVars, driverVars

LEMMA TrainBase ==
  ASSUME Base, NEW s \in Sensors, Train(s)
  PROVE  Base'
<1> DEFINE q == sensorMailbox[s]
           x0 == training[s].round
           b0 == training[s].base
           m == TrainingComplete(x0, b0)
<1>1. /\ training[s] # Idle /\ q \in Seq(SensorMessages)
      /\ training[s] = [round |-> x0, base |-> b0]
      /\ x0 \in RoundIds /\ b0 \in RoundIds /\ m \in SensorMessages
  BY MessageTypes DEF Train, Base, Types
<1>2. /\ sensorMailbox' = [sensorMailbox EXCEPT ![s] = Append(q, m)]
      /\ sensorMailbox'[s] = Append(q, m)
      /\ \A r \in Sensors \ {s} : sensorMailbox'[r] = sensorMailbox[r]
  BY DEF Train, Base, Types
<1>3. /\ training'[s] = Idle
      /\ \A r \in Sensors \ {s} : training'[r] = training[r]
      /\ training' \in [Sensors -> [round : RoundIds, base : RoundIds] \cup {Idle}]
  BY DEF Train, Base, Types
<1>4. UNCHANGED <<coordMailbox, coordVars, told, driverVars, histVars, up, saved,
                  behaviorStack, roundID>>
  BY DEF Train
<1>5. \A x, b : m # StartTraining(x, b) BY MessageFields
<1>6. \A x, b \in RoundIds : Idle # [round |-> x, base |-> b] BY TrainingFields
<1> HIDE DEF q, x0, b0, m
<1>7. /\ Append(q, m) \in Seq(SensorMessages)
      /\ \A e : Has(Append(q, m), e) => Has(q, e) \/ e = m
  BY <1>1, HasAppend
<1>8. sensorMailbox' \in [Sensors -> Seq(SensorMessages)] BY <1>2, <1>7 DEF Base, Types
<1>9. Types' BY <1>3, <1>4, <1>8 DEF Base, Types, coordVars, driverVars, histVars
<1>10. Network' BY <1>4 DEF Base, Network, Lates, histVars, netVars
<1>11. Owes(training[s], q, x0, b0) BY <1>1 DEF Owes, Trains
<1>12. Works(s) BY <1>1, <1>11 DEF Works, q
<1>13. \A r \in Sensors \ {s} : sensorLate'[r] = sensorLate[r] BY <1>4 DEF histVars, netVars
<1> QED BY <1>2, <1>3, <1>4, <1>9, <1>10, <1>12, <1>13, SensorBase
        DEF histVars, netVars, driverVars

LEMMA HandleTrainingCompleteBase ==
  ASSUME Base, NEW s \in Sensors, HandleTrainingComplete(s)
  PROVE  Base'
<1> DEFINE q == sensorMailbox[s]
           x0 == Head(q).round
           b0 == Head(q).base
           w == ModelUpdate(s, roundID[s], b0)
<1>1. /\ Takes(s, "TrainingComplete")
      /\ x0 \in RoundIds /\ b0 \in RoundIds /\ Head(q) = TrainingComplete(x0, b0)
      /\ TellCoordinator(w) /\ w \in CoordMessages /\ w # StartRound
      /\ behaviorStack' \in [Sensors -> {<<>>, <<"training">>}]
      /\ saved' \in [Sensors -> RoundIds]
      /\ UNCHANGED <<sensors, round, pendingRound, pendingUpdates, globalWeights, told,
                     baseOf, requested, up, roundID, training, remote, strayed>>
  BY TrainingEnds DEF Base
<1>2. /\ sensorMailbox' \in [Sensors -> Seq(SensorMessages)]
      /\ sensorMailbox'[s] = Tail(q) /\ Has(q, Head(q))
      /\ \A r \in Sensors \ {s} : sensorMailbox'[r] = sensorMailbox[r]
      /\ \A e : Has(Tail(q), e) => Has(q, e)
  BY <1>1, SensorTakes DEF Base
<1>3. \A r, x, b : w = ModelUpdate(r, x, b) => r = s BY MessageFields
<1>4. Works(s) BY <1>1, <1>2 DEF Works, Owes, Trains
<1> HIDE DEF q, x0, b0, w
<1>5. /\ coordMailbox' \in Seq(CoordMessages)
      /\ \A e : Has(coordMailbox', e) => Has(coordMailbox, e) \/ e = w
      /\ Cardinality(Starts') = Cardinality(Starts)
      /\ sensorLate' = sensorLate
      /\ \A l \in coordLate' : l \in coordLate \/ l.msg = w
      /\ Network'
  BY <1>1, CoordTold DEF Base
<1>6. Types' BY <1>1, <1>2, <1>5 DEF Base, Types
<1>7. Asked' /\ Counted' BY <1>1, <1>5 DEF Base, Asked, Counted
<1>8. \A r \in Sensors : (Works(r) \/ Answers(r))' => Works(r) \/ Answers(r)
  <2> SUFFICES ASSUME NEW r \in Sensors, r # s
               PROVE  (Works(r) \/ Answers(r))' => Works(r) \/ Answers(r)
    BY <1>4
  <2>1. Works(r)' => Works(r) BY <1>1, <1>2, <1>5 DEF Works
  <2>2. Answers(r)' => Answers(r) BY <1>1, <1>3, <1>5 DEF Answers
  <2> QED BY <2>1, <2>2
<1>9. Registered' BY <1>1, <1>8 DEF Base, Registered
<1> QED BY <1>5, <1>6, <1>7, <1>9 DEF Base

(* A sensor goes down, or comes up again. *)
LEMMA CrashRestartBase ==
  ASSUME Base, NEW s \in Sensors, Crash(s) \/ NewInstance(s)
  PROVE  Base'
<1>1. CASE Crash(s)
  <2>1. UNCHANGED <<coordMailbox, coordVars, saved, told, driverVars, remote, coordLate,
                    strayed, baseOf>>
    BY <1>1 DEF Crash
  <2>2. /\ sensorMailbox' \in [Sensors -> Seq(SensorMessages)]
        /\ sensorMailbox'[s] = <<>> /\ training'[s] = Idle
        /\ \A r \in Sensors \ {s} : /\ sensorMailbox'[r] = sensorMailbox[r]
                                     /\ training'[r] = training[r]
    BY <1>1 DEF Crash, Base, Types
  <2>3. up' \in [Sensors -> BOOLEAN] BY <1>1 DEF Crash, Base, Types
  <2>4. roundID' \in [Sensors -> RoundIds]
    BY <1>1, RoundAssumption DEF Crash, Base, Types, RoundIds
  <2>5. /\ training' \in [Sensors -> [round : RoundIds, base : RoundIds] \cup {Idle}]
        /\ behaviorStack' \in [Sensors -> {<<>>, <<"training">>}]
    BY <1>1 DEF Crash, Base, Types
  <2>6. Types' BY <2>1, <2>2, <2>3, <2>4, <2>5 DEF Base, Types, coordVars, driverVars
  <2>7. /\ sensorLate' \in [Sensors -> SUBSET Lates] /\ sensorLate'[s] = {}
        /\ \A r \in Sensors \ {s} : sensorLate'[r] = sensorLate[r]
    BY <1>1 DEF Crash, Base, Network
  <2>8. faults' \in 0..MaxFaults[remote] BY <1>1, RoundAssumption DEF Crash, Base, Network
  <2>9. Network' BY <2>1, <2>7, <2>8 DEF Base, Network, Lates
  <2>10. \A x, b \in RoundIds : ~Owes(Idle, <<>>, x, b)
    BY HasEmpty, TrainingFields DEF Owes, Trains
  <2>11. ~Works(s)' BY <2>2, <2>7, <2>10 DEF Works
  <2> QED BY <2>1, <2>2, <2>6, <2>7, <2>9, <2>11, SensorBase DEF driverVars
<1>2. CASE NewInstance(s)
  <2>1. UNCHANGED <<coordMailbox, coordVars, sensorMailbox, behaviorStack, saved, training,
                    told, requested, histVars>>
    BY <1>2 DEF NewInstance
  <2>2. up' \in [Sensors -> BOOLEAN] /\ roundID' \in [Sensors -> RoundIds]
    BY <1>2 DEF NewInstance, Base, Types
  <2>3. Types' BY <2>1, <2>2 DEF Base, Types, coordVars, histVars
  <2>4. Network' BY <2>1 DEF Base, Network, Lates, histVars, netVars
  <2>5. Works(s)' => Works(s) BY <2>1 DEF Works, histVars, netVars
  <2> QED BY <2>1, <2>3, <2>4, <2>5, SensorBase DEF histVars, netVars
<1> QED BY <1>1, <1>2

(* The message of a failed call arrives after all. *)
LEMMA LateBase ==
  ASSUME Base, LateToCoordinator \/ \E s \in Sensors : LateToSensor(s)
  PROVE  Base'
<1>1. CASE LateToCoordinator
  <2>1. PICK l \in coordLate : /\ coordMailbox' = Append(coordMailbox, l.msg)
                               /\ coordLate' = coordLate \ {l}
    BY <1>1 DEF LateToCoordinator
  <2>2. UNCHANGED <<coordVars, sensorMailbox, sensorVars, told, driverVars, remote, faults,
                    sensorLate, strayed, baseOf>>
    BY <1>1 DEF LateToCoordinator
  <2>3. l.msg \in CoordMessages /\ l.msg # StartRound /\ remote BY <2>1 DEF Base, Network
  <2>4. /\ coordMailbox' \in Seq(CoordMessages)
        /\ \A e : Has(coordMailbox', e) => Has(coordMailbox, e) \/ e = l.msg
    BY <2>1, <2>3, HasAppend DEF Base, Types
  <2>5. Cardinality(Starts') = Cardinality(Starts)
    BY <2>1, <2>3, StartsAppend, StartsFinite DEF Base
  <2>6. Types' BY <2>2, <2>4 DEF Base, Types, coordVars, sensorVars, driverVars
  <2>7. Network' BY <2>1, <2>2, <2>3 DEF Base, Network, Lates
  <2>8. Asked' /\ Counted' BY <2>2, <2>5 DEF Base, Asked, Counted, coordVars, driverVars
  <2>9. \A s \in Sensors : (Works(s) \/ Answers(s))' => Works(s) \/ Answers(s)
    BY <2>1, <2>2, <2>4 DEF Works, Answers, coordVars, sensorVars
  <2>10. Registered' BY <2>2, <2>9 DEF Base, Registered, coordVars
  <2> QED BY <2>6, <2>7, <2>8, <2>10 DEF Base
<1>2. ASSUME NEW s \in Sensors, LateToSensor(s)
      PROVE  Base'
  <2> DEFINE q == sensorMailbox[s]
  <2>1. PICK l \in sensorLate[s] :
          /\ sensorMailbox' = [sensorMailbox EXCEPT ![s] = Append(q, l.msg)]
          /\ sensorLate' = [sensorLate EXCEPT ![s] = @ \ {l}]
          /\ strayed' = (strayed \/ Outdated(l.msg))
    BY <1>2 DEF LateToSensor
  <2>2. UNCHANGED <<coordMailbox, coordVars, sensorVars, told, driverVars, remote, faults,
                    coordLate, baseOf>>
    BY <1>2 DEF LateToSensor
  <2>3. /\ l.msg \in SensorMessages /\ remote /\ q \in Seq(SensorMessages)
        /\ l.msg \in Orders /\ strayed' \in BOOLEAN
    BY <2>1, OrderForms DEF Base, Network, Types, Lates
  <2> HIDE DEF q
  <2>4. /\ Append(q, l.msg) \in Seq(SensorMessages)
        /\ \A e : Has(Append(q, l.msg), e) => Has(q, e) \/ e = l.msg
    BY <2>3, HasAppend
  <2>5. /\ sensorMailbox' \in [Sensors -> Seq(SensorMessages)]
        /\ sensorMailbox'[s] = Append(q, l.msg)
        /\ \A r \in Sensors \ {s} : sensorMailbox'[r] = sensorMailbox[r]
    BY <2>1, <2>4 DEF Base, Types
  <2>6. /\ sensorLate' \in [Sensors -> SUBSET Lates]
        /\ sensorLate'[s] \subseteq sensorLate[s]
        /\ \A r \in Sensors \ {s} : sensorLate'[r] = sensorLate[r]
    BY <2>1 DEF Base, Network
  <2>7. Types' BY <2>2, <2>5 DEF Base, Types, coordVars, sensorVars, driverVars
  <2>8. Network' BY <2>2, <2>3, <2>6 DEF Base, Network, Lates
  <2>9. Works(s)' => Works(s)
    <3>1. ASSUME NEW x \in RoundIds, NEW b \in RoundIds,
                 Owes(training'[s], sensorMailbox'[s], x, b)
          PROVE  \/ Owes(training[s], q, x, b)
                 \/ l.msg = StartTraining(x, b)
      BY <2>2, <2>3, <2>4, <2>5, <3>1, OrderForms DEF Owes, Trains, sensorVars
    <3> QED BY <2>6, <3>1 DEF Works, q
  <2> QED BY <2>2, <2>5, <2>6, <2>7, <2>8, <2>9, SensorBase DEF sensorVars, driverVars
<1> QED BY <1>1, <1>2

LEMMA BaseInit == Init => Base
<1> SUFFICES ASSUME Init PROVE Base OBVIOUS
<1>1. coordMailbox = <<>> /\ told = <<>> /\ Len(told) = 0 /\ Len(coordMailbox) = 0 BY DEF Init
<1>2. \A s \in Sensors : sensorMailbox[s] = <<>> /\ training[s] = Idle /\ sensorLate[s] = {}
  BY DEF Init
<1>3. Types
  <2>1. 0 \in RoundIds BY RoundAssumption DEF RoundIds
  <2>2. coordMailbox \in Seq(CoordMessages) /\ sensorMailbox \in [Sensors -> Seq(SensorMessages)]
    BY DEF Init
  <2>3. /\ pendingUpdates \in [Sensors -> RoundIds \cup {NoUpdate}] /\ up \in [Sensors -> BOOLEAN]
        /\ roundID \in [Sensors -> RoundIds] /\ saved \in [Sensors -> RoundIds]
        /\ baseOf \in [RoundIds -> RoundIds]
    BY <2>1 DEF Init
  <2>4. behaviorStack \in [Sensors -> {<<>>, <<"training">>}] BY DEF Init
  <2>5. training \in [Sensors -> [round : RoundIds, base : RoundIds] \cup {Idle}] BY DEF Init
  <2> QED BY <2>1, <2>2, <2>3, <2>4, <2>5 DEF Init, Types
<1>4. Network
  <2>1. faults \in 0..MaxFaults[remote] BY RoundAssumption DEF Init
  <2>2. sensorLate \in [Sensors -> SUBSET Lates] BY DEF Init
  <2> QED BY <2>1, <2>2 DEF Init, Network
<1>5. Asked
  <2>1. Starts = {} BY <1>1 DEF Starts
  <2>2. Cardinality(Starts) = 0 BY <2>1, FS_EmptySet
  <2> QED BY <2>2 DEF Init, Asked
<1>6. \A s \in Sensors : ~Works(s)
  BY <1>2, HasEmpty, TrainingFields DEF Works, Owes, Trains
<1>7. \A s \in Sensors : ~Answers(s) BY <1>1, HasEmpty DEF Init, Answers
<1>8. Registered /\ Counted BY <1>1, <1>6, <1>7 DEF Registered, Counted
<1> QED BY <1>3, <1>4, <1>5, <1>8 DEF Base

LEMMA BaseStep == Base /\ [Next]_vars => Base'
<1> SUFFICES ASSUME Base, [Next]_vars PROVE Base' OBVIOUS
<1>1. CASE DriverStartRound BY <1>1, DriverStartRoundBase
<1>2. CASE Coordinator
  BY <1>2, CoordIgnoresBase, HandleStartRoundBase, HandleModelUpdateBase DEF Coordinator
<1>3. CASE LateToCoordinator \/ \E s \in Sensors : LateToSensor(s) BY <1>3, LateBase
<1>4. ASSUME NEW s \in Sensors, RegisterSensor(s) PROVE Base' BY <1>4, RegisterSensorBase
<1>5. ASSUME NEW s \in Sensors, Sensor(s) PROVE Base'
  BY <1>5, SensorTakesBase, HandleTrainingCompleteBase DEF Sensor
<1>6. ASSUME NEW s \in Sensors, Train(s) PROVE Base' BY <1>6, TrainBase
<1>7. ASSUME NEW s \in Sensors, Crash(s) \/ Restart(s) \/ RestartProcess(s) PROVE Base'
  BY <1>7, CrashRestartBase DEF Restart, RestartProcess
<1>8. CASE UNCHANGED vars
  BY <1>8 DEF vars, coordVars, sensorVars, driverVars, histVars, netVars, Base, Types,
              Network, Lates, Asked, Starts, Registered, Works, Answers, Counted
<1> QED BY <1>1, <1>2, <1>3, <1>4, <1>5, <1>6, <1>7, <1>8 DEF Next

(* The types, and which sensors are counted, do not depend on when failed    *)
(* calls deliver.                                                            *)
LEMMA BaseHolds == Spec => []Base
<1> QED BY BaseInit, BaseStep, PTL DEF Spec
-----------------------------------------------------------------------------
(* Without a new update on its way, the updates remain as they were. *)
LEMMA FewerUpdates ==
  ASSUME Inv, round' = round,
         \A e, f : /\ Has(coordMailbox', e) => Has(coordMailbox, e)
                   /\ Before(coordMailbox', e, f) => Before(coordMailbox, e, f),
         \A l \in coordLate' : l \in coordLate
  PROVE  /\ Single'
         /\ \A s, x, b : Sent(s, x, b)' => Sent(s, x, b)
<1>1. Single' BY DEF Inv, Single
<1>2. \A s, x, b : Sent(s, x, b)' => Sent(s, x, b) BY DEF Sent
<1> QED BY <1>1, <1>2

(* A step at the coordinator that gains no update and tells nobody anything. *)
LEMMA CoordQuiet ==
  ASSUME Inv, Base', Single',
         UNCHANGED <<sensorMailbox, sensorVars, sensorLate, round, pendingUpdates, baseOf, told>>,
         sensors \subseteq sensors',
         \A s, x, b : Sent(s, x, b)' => Sent(s, x, b)
  PROVE  Inv'
<1>1. UNCHANGED <<sensorMailbox, up, behaviorStack, roundID, saved, training, sensorLate, round,
                  pendingUpdates, baseOf, told>>
  BY DEF sensorVars
<1>2. \A s, x, b : Due(s, x, b)' <=> Due(s, x, b) BY <1>1 DEF Due, Asking
<1>3. Owing' BY <1>1, <1>2 DEF Inv, Owing
<1>4. Delayed' BY <1>1, <1>2 DEF Inv, Delayed
<1>5. Training' /\ Down' BY <1>1 DEF Inv, Training, Down
<1>6. Updates' BY <1>1 DEF Inv, Updates
<1>7. Pending' BY <1>1 DEF Inv, Pending
<1>8. Completed' BY <1>1, <1>2 DEF Inv, Completed
<1> QED BY <1>3, <1>4, <1>5, <1>6, <1>7, <1>8 DEF Inv

(* A message to the coordinator that is no update. *)
LEMMA CoordToldOther ==
  ASSUME Inv, round' = round, NEW m, \A r, x, b : ModelUpdate(r, x, b) # m,
         \A e : Has(coordMailbox', e) => Has(coordMailbox, e) \/ e = m,
         \A e, f : Before(coordMailbox', e, f) => Before(coordMailbox, e, f) \/ f = m,
         \A l \in coordLate' : l \in coordLate \/ l.msg = m
  PROVE  /\ Single'
         /\ \A s, x, b : Sent(s, x, b)' => Sent(s, x, b)
<1>1. \A s, x, b : Sent(s, x, b)' => Sent(s, x, b) BY DEF Sent
<1>2. Single'
  <2> SUFFICES ASSUME NEW s \in Sensors, NEW b \in RoundIds, NEW c \in RoundIds
               PROVE  /\ ~Before(coordMailbox', ModelUpdate(s, round, b), ModelUpdate(s, round, c))
                      /\ \A l \in coordLate' : l.msg = ModelUpdate(s, round, b) =>
                           /\ ~Has(coordMailbox', ModelUpdate(s, round, c))
                           /\ \A k \in coordLate' : k.msg = ModelUpdate(s, round, c) => k = l
    BY DEF Single
  <2> QED BY DEF Inv, Single
<1> QED BY <1>1, <1>2

(* The driver asks for a round, or announces a sensor. *)
LEMMA DriverInv ==
  ASSUME Inv, Base', DriverStartRound \/ \E s \in Sensors : RegisterSensor(s)
  PROVE  Inv'
<1>1. UNCHANGED <<sensorMailbox, sensorVars, coordVars, baseOf, told, remote, strayed>>
  BY DEF DriverStartRound, RegisterSensor, histVars
<1>2. CASE DriverStartRound
  <2>1. coordMailbox' = Append(coordMailbox, StartRound) /\ UNCHANGED <<coordLate, sensorLate>>
    BY <1>2 DEF DriverStartRound, histVars, netVars
  <2>2. /\ StartRound \in CoordMessages
        /\ \A r, x, b : ModelUpdate(r, x, b) # StartRound
    BY MessageTypes, MessageFields
  <2>3. /\ \A e : Has(coordMailbox', e) => Has(coordMailbox, e) \/ e = StartRound
        /\ \A e, f : Before(coordMailbox', e, f) => Before(coordMailbox, e, f) \/ f = StartRound
    BY <2>1, <2>2, HasAppend DEF Inv, Base, Types
  <2> QED BY <1>1, <2>1, <2>2, <2>3, CoordToldOther, CoordQuiet DEF coordVars
<1>3. ASSUME NEW s \in Sensors, RegisterSensor(s) PROVE Inv'
  <2> DEFINE m == SensorInfo(s)
  <2>1. m \in CoordMessages /\ m # StartRound /\ TellCoordinator(m)
    BY <1>3, MessageTypes, MessageFields DEF RegisterSensor
  <2>2. \A r, x, b : ModelUpdate(r, x, b) # m BY MessageFields
  <2> HIDE DEF m
  <2>3. /\ \A e : Has(coordMailbox', e) => Has(coordMailbox, e) \/ e = m
        /\ \A e, f : Before(coordMailbox', e, f) => Before(coordMailbox, e, f) \/ f = m
        /\ \A l \in coordLate' : l \in coordLate \/ l.msg = m
        /\ sensorLate' = sensorLate
    BY <1>1, <2>1, CoordTold DEF Inv, Base
  <2> QED BY <1>1, <2>2, <2>3, CoordToldOther, CoordQuiet DEF coordVars
<1> QED BY <1>2, <1>3

(* The coordinator registers a sensor, or ignores a late update. *)
LEMMA CoordIgnoresInv ==
  ASSUME Inv, Base', HandleRegisterSensor \/ HandleStaleUpdate
  PROVE  Inv'
<1>1. coordMailbox # <<>> /\ coordMailbox' = Tail(coordMailbox)
  BY DEF HandleRegisterSensor, HandleStaleUpdate
<1>2. UNCHANGED <<sensorMailbox, sensorVars, sensorLate, coordLate, round, pendingUpdates,
                  baseOf, told>>
  BY DEF HandleRegisterSensor, HandleStaleUpdate, coordVars, histVars, netVars
<1>3. sensors \subseteq sensors' BY DEF HandleRegisterSensor, HandleStaleUpdate, coordVars
<1>4. /\ Single'
      /\ \A s, x, b : Sent(s, x, b)' => Sent(s, x, b)
  BY <1>1, <1>2, CoordTakes, FewerUpdates DEF Inv, Base
<1> QED BY <1>2, <1>3, <1>4, CoordQuiet

(* A late message reaches the coordinator; it was on its way before. *)
LEMMA LateToCoordinatorInv ==
  ASSUME Inv, Base', LateToCoordinator
  PROVE  Inv'
<1>1. PICK l \in coordLate : /\ coordMailbox' = Append(coordMailbox, l.msg)
                             /\ coordLate' = coordLate \ {l}
  BY DEF LateToCoordinator
<1>2. UNCHANGED <<sensorMailbox, sensorVars, sensorLate, coordVars, baseOf, told>>
  BY DEF LateToCoordinator
<1>3. UNCHANGED <<sensors, round, pendingUpdates>> BY <1>2 DEF coordVars
<1>4. /\ \A e : Has(coordMailbox', e) => Has(coordMailbox, e) \/ e = l.msg
      /\ \A e, f : Before(coordMailbox', e, f) =>
                     Before(coordMailbox, e, f) \/ (Has(coordMailbox, e) /\ f = l.msg)
  BY <1>1, HasAppend DEF Inv, Base, Types, Network
<1>5. \A s, x, b : Sent(s, x, b)' => Sent(s, x, b) BY <1>1, <1>4 DEF Sent
<1>6. Single'
  <2> SUFFICES ASSUME NEW s \in Sensors, NEW b \in RoundIds, NEW c \in RoundIds
               PROVE  /\ ~Before(coordMailbox', ModelUpdate(s, round, b), ModelUpdate(s, round, c))
                      /\ \A k \in coordLate' : k.msg = ModelUpdate(s, round, b) =>
                           /\ ~Has(coordMailbox', ModelUpdate(s, round, c))
                           /\ \A j \in coordLate' : j.msg = ModelUpdate(s, round, c) => j = k
    BY <1>3 DEF Single
  <2>1. ~Before(coordMailbox', ModelUpdate(s, round, b), ModelUpdate(s, round, c))
    BY <1>4 DEF Inv, Single
  <2>2. ASSUME NEW k \in coordLate', k.msg = ModelUpdate(s, round, b)
        PROVE  /\ ~Has(coordMailbox', ModelUpdate(s, round, c))
               /\ \A j \in coordLate' : j.msg = ModelUpdate(s, round, c) => j = k
    BY <1>1, <1>4, <2>2 DEF Inv, Single
  <2> QED BY <2>1, <2>2
<1> QED BY <1>2, <1>3, <1>5, <1>6, CoordQuiet
-----------------------------------------------------------------------------
(* A round begins: every sensor that can be found owes it an update, or will *)
(* when it is asked for it.                                                  *)
LEMMA HandleStartRoundInv ==
  ASSUME Inv, Base', HandleStartRound
  PROVE  Inv'
<1> DEFINE n == round + 1
           m == StartTraining(n, globalWeights)
<1>1. round \in Nat /\ n \in RoundIds BY RoundBegins DEF Inv, Base
<1>2. coordMailbox # <<>> /\ coordMailbox' = Tail(coordMailbox) BY DEF HandleStartRound
<1>3. /\ coordMailbox' \in Seq(CoordMessages)
      /\ \A e : Has(coordMailbox', e) => Has(coordMailbox, e)
      /\ \A e, f : Before(coordMailbox', e, f) => Before(coordMailbox, e, f)
  BY <1>2, CoordTakes DEF Inv, Base
<1>4. /\ round' = n /\ pendingRound' = n
      /\ pendingUpdates' = [s \in Sensors |-> NoUpdate]
      /\ UNCHANGED <<sensors, globalWeights, up, behaviorStack, roundID, saved, training,
                     told, requested, remote, strayed>>
      /\ TellSensors(sensors, m)
  BY DEF HandleStartRound, sensorVars, driverVars
<1>5. globalWeights \in RoundIds /\ m \in SensorMessages /\ m \in Orders
  BY <1>1, MessageTypes DEF Inv, Base, Types, Orders
<1>6. /\ baseOf' \in [RoundIds -> RoundIds] /\ baseOf'[n] = globalWeights
      /\ \A x \in 1..round : baseOf'[x] = baseOf[x]
  BY <1>1, <1>5 DEF HandleStartRound, Inv, Base, Types
<1>7. /\ \A x, b : m # TrainingComplete(x, b)
      /\ \A x : m # GlobalModelUpdate(x)
      /\ \A x, b : m = StartTraining(x, b) => x = n /\ b = globalWeights
  BY OrdersDiffer
<1> HIDE DEF m
<1>8. /\ sensorMailbox' \in [Sensors -> Seq(SensorMessages)]
      /\ \A s \in Sensors :
              /\ ~up[s] => sensorMailbox'[s] = sensorMailbox[s]
              /\ \A e : Has(sensorMailbox'[s], e) =>
                         Has(sensorMailbox[s], e) \/ (e = m /\ s \in sensors /\ up[s])
              /\ \A e, f : Before(sensorMailbox'[s], e, f) =>
                  Before(sensorMailbox[s], e, f) \/ (Has(sensorMailbox[s], e) /\ f = m)
  BY <1>4, <1>5, SensorsTold DEF Inv, Base
<1>9. /\ coordLate' = coordLate
      /\ \A s \in Sensors : \A l \in sensorLate'[s] :
           \/ l \in sensorLate[s]
           \/ /\ l = Late(m) /\ l.msg = m /\ s \in sensors /\ up[s]
              /\ sensorMailbox'[s] = sensorMailbox[s]
  BY <1>4, <1>5, SensorsDelayed DEF Inv, Base, Types
<1> HIDE DEF n
<1>10. n > round /\ n \in 1..n /\ \A x \in 1..round : x < n /\ x \in 1..n BY <1>1 DEF n
<1>11. \A s \in Sensors, x, b \in RoundIds :
         Owes(training'[s], sensorMailbox'[s], x, b) =>
           \/ Owes(training[s], sensorMailbox[s], x, b)
           \/ x = n /\ b = globalWeights /\ s \in sensors /\ up[s]
  BY <1>4, <1>7, <1>8 DEF Owes, Trains
<1>12. \A s \in Sensors, x, b \in RoundIds :
         Owes(training[s], sensorMailbox[s], x, b) => x \in 1..round /\ x < n
  BY <1>10 DEF Inv, Owing, Due
(* What was late before is about older rounds. *)
<1>13. \A s \in Sensors : \A l \in sensorLate'[s], b \in RoundIds :
         l.msg = StartTraining(n, b) =>
           /\ l = Late(m) /\ b = globalWeights /\ s \in sensors /\ up[s]
           /\ sensorMailbox'[s] = sensorMailbox[s]
  BY <1>1, <1>7, <1>9, <1>10 DEF Inv, Delayed
<1>14. \A s \in Sensors, x, b \in RoundIds : Due(s, x, b)' =>
           \/ Due(s, x, b) /\ x < n
           \/ x = n /\ b = globalWeights /\ s \in sensors /\ up[s]
  BY <1>4, <1>11, <1>12, <1>13 DEF Due, Asking
<1>15. \A s, x, b : Sent(s, x, b)' => Sent(s, x, b) BY <1>3, <1>9 DEF Sent
<1>16. \A s \in Sensors, x, b \in RoundIds : Sent(s, x, b) => x <= n /\ x < n
  BY <1>1 DEF Inv, Updates, RoundIds, n
<1>17. Owing'
  <2> SUFFICES ASSUME NEW s \in Sensors, NEW x \in RoundIds, NEW b \in RoundIds,
                      Due(s, x, b)'
               PROVE  /\ x \in 1..n /\ b = baseOf'[x]
                      /\ s \in sensors /\ up[s]
                      /\ \A y, c \in RoundIds : Sent(s, y, c) => y < x
    BY <1>4, <1>15 DEF Owing
  <2>1. CASE Due(s, x, b) BY <1>6, <1>10, <2>1 DEF Inv, Owing
  <2>2. CASE x = n /\ b = globalWeights /\ s \in sensors /\ up[s]
    BY <1>6, <1>10, <1>16, <2>2
  <2> QED BY <1>14, <2>1, <2>2
<1>18. Delayed'
  <2> SUFFICES ASSUME NEW s \in Sensors, NEW l \in sensorLate'[s]
               PROVE  /\ up[s]
                      /\ \A y \in RoundIds : l.msg = GlobalModelUpdate(y) =>
                           y <= n /\ \A x, b \in RoundIds : Due(s, x, b)' => y < x
                      /\ \A y, b \in RoundIds : l.msg = StartTraining(y, b) => y <= n
                      /\ \A b \in RoundIds : l.msg = StartTraining(n, b) =>
                           /\ \A x, c \in RoundIds :
                                Owes(training'[s], sensorMailbox'[s], x, c) => x < n
                           /\ \A k \in sensorLate'[s], c \in RoundIds :
                                k.msg = StartTraining(n, c) => k = l
    BY <1>4 DEF Delayed
  <2>1. up[s] BY <1>9 DEF Inv, Delayed
  <2>2. ASSUME NEW y \in RoundIds, l.msg = GlobalModelUpdate(y)
        PROVE  y <= n /\ \A x, b \in RoundIds : Due(s, x, b)' => y < x
    <3>1. l \in sensorLate[s] BY <1>7, <1>9, <2>2
    <3>2. y <= round /\ y < n BY <1>1, <2>2, <3>1 DEF Inv, Delayed, RoundIds, n
    <3>3. \A x, b \in RoundIds : Due(s, x, b) => y < x BY <2>2, <3>1 DEF Inv, Delayed
    <3> QED BY <1>1, <1>14, <3>2, <3>3 DEF RoundIds
  <2>3. ASSUME NEW y \in RoundIds, NEW b \in RoundIds, l.msg = StartTraining(y, b)
        PROVE  y <= n
    <3>1. CASE l \in sensorLate[s] BY <1>1, <2>3, <3>1 DEF Inv, Delayed, RoundIds, n
    <3>2. CASE l.msg = m
      <4>1. y = n BY <1>7, <2>3, <3>2
      <4> QED BY <1>1, <4>1 DEF RoundIds
    <3> QED BY <1>9, <3>1, <3>2
  <2>4. ASSUME NEW b \in RoundIds, l.msg = StartTraining(n, b)
        PROVE  /\ \A x, c \in RoundIds : Owes(training'[s], sensorMailbox'[s], x, c) => x < n
               /\ \A k \in sensorLate'[s], c \in RoundIds : k.msg = StartTraining(n, c) => k = l
    BY <1>4, <1>12, <1>13, <2>4
  <2> QED BY <2>1, <2>2, <2>3, <2>4
<1>19. Training'
  <2> SUFFICES ASSUME NEW s \in Sensors
               PROVE  /\ Tagged(training[s], sensorMailbox'[s], roundID[s], behaviorStack[s])
                      /\ InOrder(training[s], sensorMailbox'[s])
    BY <1>4 DEF Training
  <2>1. /\ Tagged(training[s], sensorMailbox[s], roundID[s], behaviorStack[s])
        /\ InOrder(training[s], sensorMailbox[s])
    BY DEF Inv, Training
  <2>2. \A x, b : Trains(training[s], sensorMailbox'[s], x, b) =>
                   Trains(training[s], sensorMailbox[s], x, b)
    BY <1>7, <1>8 DEF Trains
  <2>3. Tagged(training[s], sensorMailbox'[s], roundID[s], behaviorStack[s])
    BY <1>7, <1>8, <2>1, <2>2 DEF Tagged
  <2>4. InOrder(training[s], sensorMailbox'[s])
    <3> SUFFICES ASSUME NEW x \in RoundIds, NEW b \in RoundIds, NEW y \in RoundIds,
                        NEW c \in RoundIds
                 PROVE  LET t == training[s]
                            q == sensorMailbox'[s]
                        IN  /\ ~Before(q, TrainingComplete(x, b), TrainingComplete(y, c))
                            /\ t # Idle => ~Has(q, TrainingComplete(x, b))
                            /\ Trains(t, q, x, b) /\ Has(q, StartTraining(y, c)) => x < y
                            /\ Before(q, StartTraining(x, b), StartTraining(y, c)) => x < y
                            /\ Before(q, StartTraining(x, b), GlobalModelUpdate(y)) => y < x
      BY DEF InOrder
    <3>1. /\ Has(sensorMailbox[s], StartTraining(x, b)) => x < n
          /\ Trains(training[s], sensorMailbox[s], x, b) => x < n
      BY <1>12 DEF Owes
    <3> QED BY <1>7, <1>8, <2>1, <2>2, <3>1 DEF InOrder
  <2> QED BY <2>3, <2>4
<1>20. Updates'
  <2> SUFFICES ASSUME NEW s \in Sensors, NEW x \in RoundIds, NEW b \in RoundIds,
                      Sent(s, x, b)
               PROVE  x <= n /\ s \in sensors /\ x # n
    BY <1>4, <1>15 DEF Updates
  <2>1. x <= n /\ x < n BY <1>16
  <2>2. x # n BY <1>1, <2>1 DEF RoundIds
  <2> QED BY <2>1, <2>2 DEF Inv, Updates
<1>21. Single'
  <2>1. \A s \in Sensors, b \in RoundIds : ~Sent(s, n, b)
    BY <1>1, <1>16 DEF RoundIds
  <2>2. \A s \in Sensors, b \in RoundIds : /\ ~Has(coordMailbox', ModelUpdate(s, n, b))
                                           /\ \A l \in coordLate' : l.msg # ModelUpdate(s, n, b)
    BY <1>15, <2>1 DEF Sent
  <2> QED BY <1>4, <2>2, BeforeHas DEF Single
<1>22. Pending' BY <1>4 DEF Pending
<1>23. Completed'
  <2>1. \A i \in 1..Len(told) : told[i].round # n BY <1>1 DEF n, Inv, Base, Counted
  <2> QED BY <1>4, <2>1 DEF Completed
<1>24. Down' BY <1>4, <1>8 DEF Inv, Down
<1> QED BY <1>17, <1>18, <1>19, <1>20, <1>21, <1>22, <1>23, <1>24 DEF Inv
-----------------------------------------------------------------------------
(* The sensor of an update of the pending round has sent it once and owes    *)
(* nothing any more.                                                         *)
LEMMA UpdateArrives ==
  ASSUME Inv, HandleModelUpdate
  PROVE  LET u == Head(coordMailbox)
         IN  /\ u.base = baseOf[round]
             /\ \A x, b \in RoundIds : ~Due(u.from, x, b)
             /\ \A b \in RoundIds : /\ ~Has(coordMailbox', ModelUpdate(u.from, round, b))
                                    /\ \A l \in coordLate : l.msg # ModelUpdate(u.from, round, b)
             /\ \A i \in 1..Len(told) : told[i].round # round
<1> DEFINE u == Head(coordMailbox)
<1>1. /\ coordMailbox # <<>> /\ coordMailbox' = Tail(coordMailbox)
      /\ u \in CoordMessages /\ Has(coordMailbox, u)
      /\ u.from \in Sensors /\ u.base \in RoundIds /\ round \in RoundIds
      /\ u = ModelUpdate(u.from, round, u.base)
  BY UpdateCounts DEF Inv, Base, Types
<1>2. \A e : Has(coordMailbox', e) => Before(coordMailbox, u, e)
  BY <1>1, CoordTakes DEF Inv, Base
<1>3. Sent(u.from, round, u.base) BY <1>1 DEF Sent
<1>4. u.base = baseOf[round] BY <1>1, <1>3 DEF Inv, Updates
<1>5. \A x, b \in RoundIds : ~Due(u.from, x, b)
  <2> SUFFICES ASSUME NEW x \in RoundIds, NEW b \in RoundIds, Due(u.from, x, b)
               PROVE  FALSE
    OBVIOUS
  <2>1. x \in 1..round /\ round < x BY <1>1, <1>3 DEF Inv, Owing
  <2> QED BY <1>1, <2>1 DEF RoundIds
<1>6. \A b \in RoundIds : /\ ~Has(coordMailbox', ModelUpdate(u.from, round, b))
                          /\ \A l \in coordLate : l.msg # ModelUpdate(u.from, round, b)
  BY <1>1, <1>2 DEF Inv, Single
<1>7. \A i \in 1..Len(told) : told[i].round # round
  BY <1>1, <1>3 DEF Inv, Completed
<1> QED BY <1>4, <1>5, <1>6, <1>7

(* Once all updates are there, nothing is due, so the global models that are *)
(* sent, and perhaps late, reach no sensor at work.                          *)
LEMMA AllHaveAnswered ==
  ASSUME Inv, NEW v \in Sensors,
         \A x, b \in RoundIds : ~Due(v, x, b),
         \A s \in sensors : s # v => pendingUpdates[s] # NoUpdate
  PROVE  \A s \in Sensors, x, b \in RoundIds : ~Due(s, x, b)
  BY DEF Inv, Owing

(* The coordinator takes the update of sensor v; no other is on its way.     *)
LEMMA HandleModelUpdateInv ==
  ASSUME Inv, Base', HandleModelUpdate
  PROVE  Inv'
<1> DEFINE u == Head(coordMailbox)
           v == u.from
           updates == [pendingUpdates EXCEPT ![v] = u.base]
<1>1. /\ coordMailbox # <<>> /\ coordMailbox' = Tail(coordMailbox)
      /\ v \in sensors /\ round \in 1..MaxRounds /\ u.base \in RoundIds
      /\ updates \in [Sensors -> RoundIds \cup {NoUpdate}]
      /\ pendingUpdates' = updates
      /\ Complete(updates) => Received(updates) = sensors
  BY UpdateCounts DEF Inv
<1>2. /\ u.base = baseOf[round]
      /\ \A x, b \in RoundIds : ~Due(v, x, b)
      /\ \A b \in RoundIds : /\ ~Has(coordMailbox', ModelUpdate(v, round, b))
                             /\ \A l \in coordLate : l.msg # ModelUpdate(v, round, b)
      /\ \A i \in 1..Len(told) : told[i].round # round
  BY UpdateArrives
<1>3. /\ \A e : Has(coordMailbox', e) => Has(coordMailbox, e)
      /\ \A e, f : Before(coordMailbox', e, f) => Before(coordMailbox, e, f)
  BY <1>1, CoordTakes DEF Inv, Base
<1>4. UNCHANGED <<sensors, round, up, behaviorStack, roundID, training, baseOf, remote, strayed>>
  BY DEF HandleModelUpdate, sensorVars
<1>5. \/ ~Complete(updates) /\ UNCHANGED <<sensorMailbox, told, netVars>>
      \/ Complete(updates) /\ AggregateAndFinalise(updates)
  BY DEF HandleModelUpdate
<1>6. updates[v] = u.base /\ \A s \in Sensors : s # v => updates[s] = pendingUpdates[s]
  BY <1>1 DEF Inv, Base, Types
<1>7. v \in Sensors /\ sensors \subseteq Sensors /\ round \in Nat /\ round \in RoundIds
  BY <1>1, RoundAssumption DEF Inv, Base, Types, RoundIds
<1> HIDE DEF u, v, updates
<1>8. coordLate' = coordLate
  BY <1>5 DEF netVars, AggregateAndFinalise, TellSensors
<1>9. /\ \A s, x, b : Sent(s, x, b)' => Sent(s, x, b)
      /\ \A s \in Sensors, b \in RoundIds : s = v => ~Sent(s, round, b)'
      /\ Single'
  <2>1. \A s \in Sensors, b \in RoundIds : s = v => ~Sent(s, round, b)'
    BY <1>2, <1>4, <1>8 DEF Sent
  <2>2. \A l \in coordLate' : l \in coordLate BY <1>8
  <2> QED BY <1>3, <1>4, <2>1, <2>2, FewerUpdates
<1>10. Updates'
  <2> SUFFICES ASSUME NEW s \in Sensors, NEW x \in RoundIds, NEW b \in RoundIds,
                      Sent(s, x, b)'
               PROVE  /\ x <= round /\ s \in sensors
                      /\ x = round => b = baseOf[x] /\ updates[s] = NoUpdate
    BY <1>1, <1>4 DEF Updates
  <2>1. /\ x <= round /\ s \in sensors
        /\ x = round => b = baseOf[x] /\ pendingUpdates[s] = NoUpdate
    BY <1>9 DEF Inv, Updates
  <2>2. x = round => s # v BY <1>4, <1>9
  <2> QED BY <1>6, <2>1, <2>2
<1>11. Pending' BY <1>1, <1>2, <1>4, <1>6 DEF Inv, Pending
<1>12. CASE ~Complete(updates) /\ UNCHANGED <<sensorMailbox, told, netVars>>
  <2>1. sensorLate' = sensorLate BY <1>12 DEF netVars
  <2>2. \A s, x, b : Due(s, x, b)' <=> Due(s, x, b) BY <1>4, <1>12, <2>1 DEF Due, Asking
  <2>3. Owing' BY <1>2, <1>4, <1>1, <1>6, <1>9, <2>2 DEF Inv, Owing
  <2>4. Delayed' BY <1>4, <1>12, <2>1, <2>2 DEF Inv, Delayed
  <2>5. Training' /\ Down' BY <1>4, <1>12 DEF Inv, Training, Down
  <2>6. Completed' BY <1>2, <1>4, <1>12 DEF Inv, Completed
  <2> QED BY <1>9, <1>10, <1>11, <2>3, <2>4, <2>5, <2>6 DEF Inv
<1>13. CASE Complete(updates) /\ AggregateAndFinalise(updates)
  <2> DEFINE m == GlobalModelUpdate(round)
  <2>1. Received(updates) = sensors BY <1>1, <1>13
  <2>2. \A s \in sensors : s # v => pendingUpdates[s] # NoUpdate
    BY <1>6, <1>7, <2>1 DEF Received
  <2>3. \A s \in Sensors, x, b \in RoundIds : ~Due(s, x, b)
    BY <1>2, <1>7, <2>2, AllHaveAnswered
  <2>4. \A s \in Sensors, b \in RoundIds : ~Sent(s, round, b)'
    <3>1. \A s \in Sensors, b \in RoundIds : Sent(s, round, b) =>
            s \in sensors /\ pendingUpdates[s] = NoUpdate
      BY <1>7 DEF Inv, Updates
    <3> QED BY <1>4, <1>9, <2>2, <3>1
  <2>5. m \in SensorMessages /\ m \in Orders BY <1>7, MessageTypes DEF Orders
  <2>6. /\ \A x, b : m # TrainingComplete(x, b)
        /\ \A x, b : m # StartTraining(x, b)
        /\ \A x : m = GlobalModelUpdate(x) => x = round
    BY OrdersDiffer
  <2>7. TellSensors(sensors, m) BY <1>13 DEF AggregateAndFinalise
  <2> HIDE DEF m
  <2>8. /\ sensorMailbox' \in [Sensors -> Seq(SensorMessages)]
        /\ \A s \in Sensors :
              /\ ~up[s] => sensorMailbox'[s] = sensorMailbox[s]
              /\ \A e : Has(sensorMailbox'[s], e) =>
                         Has(sensorMailbox[s], e) \/ (e = m /\ s \in sensors /\ up[s])
              /\ \A e, f : Before(sensorMailbox'[s], e, f) =>
                  Before(sensorMailbox[s], e, f) \/ (Has(sensorMailbox[s], e) /\ f = m)
    BY <2>5, <2>7, SensorsTold DEF Inv, Base
  <2>9. \A s \in Sensors : \A l \in sensorLate'[s] :
          l \in sensorLate[s] \/ (l.msg = m /\ up[s])
    <3>1. Network /\ UNCHANGED <<remote, strayed>> /\ sensors \in SUBSET Sensors
      BY <1>4, <1>7 DEF Inv, Base
    <3> QED BY <2>5, <2>7, <3>1, SensorsDelayed
  <2>10. \A s \in Sensors, x, b \in RoundIds : ~Owes(training'[s], sensorMailbox'[s], x, b)
    BY <1>4, <2>3, <2>6, <2>8 DEF Due, Owes, Trains
  <2>11. \A s \in Sensors : \A l \in sensorLate'[s], b \in RoundIds :
           l.msg # StartTraining(round, b)
    BY <1>7, <2>3, <2>6, <2>9 DEF Due, Asking
  <2>12. \A s \in Sensors, x, b \in RoundIds : ~Due(s, x, b)'
    BY <1>4, <2>10, <2>11 DEF Due, Asking
  <2>13. Owing' BY <2>12 DEF Owing
  <2>14. Delayed'
    <3> SUFFICES ASSUME NEW s \in Sensors, NEW l \in sensorLate'[s]
                 PROVE  /\ up[s]
                        /\ \A y \in RoundIds : l.msg = GlobalModelUpdate(y) => y <= round
                        /\ \A y, b \in RoundIds : l.msg = StartTraining(y, b) => y <= round
      BY <1>4, <2>11, <2>12 DEF Delayed
    <3>1. CASE l \in sensorLate[s] BY <3>1 DEF Inv, Delayed
    <3>2. CASE l.msg = m /\ up[s] BY <1>7, <2>6, <3>2
    <3> QED BY <2>9, <3>1, <3>2
  <2>15. Training'
    <3> SUFFICES ASSUME NEW s \in Sensors
                 PROVE  /\ Tagged(training[s], sensorMailbox'[s], roundID[s], behaviorStack[s])
                        /\ InOrder(training[s], sensorMailbox'[s])
      BY <1>4 DEF Training
    <3>1. \A x, b \in RoundIds : /\ ~Trains(training[s], sensorMailbox'[s], x, b)
                                 /\ ~Has(sensorMailbox'[s], StartTraining(x, b))
                                 /\ ~Has(sensorMailbox'[s], TrainingComplete(x, b))
      BY <1>4, <2>10 DEF Owes, Trains
    <3> QED BY <3>1, BeforeHas DEF Tagged, InOrder
  <2>16. Completed' BY <1>4, <2>4, <2>12 DEF Completed
  <2>17. Down' BY <1>4, <2>8 DEF Inv, Down
  <2> QED BY <1>9, <1>10, <1>11, <2>13, <2>14, <2>15, <2>16, <2>17 DEF Inv
<1> QED BY <1>5, <1>12, <1>13
-----------------------------------------------------------------------------
(* A step of one sensor that leaves the coordinator alone and takes on no    *)
(* new round.                                                                *)
LEMMA SensorQuiet ==
  ASSUME Inv, Base', NEW s \in Sensors,
         UNCHANGED <<coordMailbox, coordLate, coordVars, told, baseOf>>,
         \A r \in Sensors \ {s} : /\ sensorMailbox'[r] = sensorMailbox[r]
                                  /\ training'[r] = training[r] /\ roundID'[r] = roundID[r]
                                  /\ behaviorStack'[r] = behaviorStack[r] /\ up'[r] = up[r]
                                  /\ sensorLate'[r] = sensorLate[r],
         sensorLate'[s] \subseteq sensorLate[s],
         \A x, b \in RoundIds : Owes(training'[s], sensorMailbox'[s], x, b) =>
                                Owes(training[s], sensorMailbox[s], x, b) /\ up'[s],
         Tagged(training'[s], sensorMailbox'[s], roundID'[s], behaviorStack'[s]),
         InOrder(training'[s], sensorMailbox'[s]),
         ~up'[s] => /\ sensorMailbox'[s] = <<>> /\ training'[s] = Idle
                    /\ behaviorStack'[s] = <<>> /\ sensorLate'[s] = {}
  PROVE  Inv'
<1>1. UNCHANGED <<coordMailbox, coordLate, sensors, round, pendingUpdates, told, baseOf>>
  BY DEF coordVars
<1>2. \A r \in Sensors : /\ sensorLate'[r] \subseteq sensorLate[r]
                         /\ \A l \in sensorLate'[r] : up[r] => up'[r]
  OBVIOUS
<1>3. \A r \in Sensors, x, b \in RoundIds :
        Owes(training'[r], sensorMailbox'[r], x, b) =>
        Owes(training[r], sensorMailbox[r], x, b) /\ (up[r] => up'[r])
  OBVIOUS
<1>4. \A r \in Sensors, x, b \in RoundIds :
        Due(r, x, b)' => Due(r, x, b) /\ (up[r] => up'[r])
  BY <1>1, <1>2, <1>3 DEF Due, Asking
<1>5. \A r, x, b : Sent(r, x, b)' <=> Sent(r, x, b) BY <1>1 DEF Sent
<1>6. Owing' BY <1>1, <1>4, <1>5 DEF Inv, Owing
<1>7. Delayed'
  <2> SUFFICES ASSUME NEW r \in Sensors, NEW l \in sensorLate'[r]
               PROVE  /\ up'[r]
                      /\ \A y \in RoundIds : l.msg = GlobalModelUpdate(y) =>
                           y <= round /\ \A x, b \in RoundIds : Due(r, x, b)' => y < x
                      /\ \A y, b \in RoundIds : l.msg = StartTraining(y, b) => y <= round
                      /\ \A b \in RoundIds : l.msg = StartTraining(round, b) =>
                           /\ \A x, c \in RoundIds :
                                Owes(training'[r], sensorMailbox'[r], x, c) => x < round
                           /\ \A k \in sensorLate'[r], c \in RoundIds :
                                k.msg = StartTraining(round, c) => k = l
    BY <1>1 DEF Delayed
  <2>1. l \in sensorLate[r] /\ (up[r] => up'[r]) BY <1>2
  <2> QED BY <1>2, <1>3, <1>4, <2>1 DEF Inv, Delayed
<1>8. Training' BY DEF Inv, Training
<1>9. Updates' /\ Single' BY <1>1, <1>5 DEF Inv, Updates, Single
<1>10. Pending' BY <1>1 DEF Inv, Pending
<1>11. Completed' BY <1>1, <1>4, <1>5 DEF Inv, Completed
<1>12. Down' BY DEF Inv, Down
<1> QED BY <1>6, <1>7, <1>8, <1>9, <1>10, <1>11, <1>12 DEF Inv

(* A sensor outside trainingBehavior trains for nothing. *)
LEMMA IdleSensor ==
  ASSUME Inv, NEW s \in Sensors, behaviorStack[s] # <<"training">>
  PROVE  /\ training[s] = Idle
         /\ \A x, b \in RoundIds : ~Trains(training[s], sensorMailbox[s], x, b)
<1>1. \A x, b \in RoundIds : ~Trains(training[s], sensorMailbox[s], x, b)
  BY DEF Inv, Training, Tagged
<1>2. training[s] \in [round : RoundIds, base : RoundIds] \cup {Idle} BY DEF Inv, Base, Types
<1>3. ASSUME training[s] # Idle PROVE FALSE
  <2>1. PICK x \in RoundIds, b \in RoundIds : training[s] = [round |-> x, base |-> b]
    BY <1>2, <1>3
  <2> QED BY <1>1, <2>1 DEF Trains
<1> QED BY <1>1, <1>3

(* Training begins. *)
LEMMA HandleStartTrainingInv ==
  ASSUME Inv, Base', NEW s \in Sensors, HandleStartTraining(s)
  PROVE  Inv'
<1> DEFINE q == sensorMailbox[s]
           m == Head(q)
           x0 == m.round
           b0 == m.base
<1>1. /\ Takes(s, "StartTraining")
      /\ x0 \in RoundIds /\ b0 \in RoundIds /\ m = StartTraining(x0, b0)
      /\ behaviorStack[s] = <<>>
      /\ training'[s] = [round |-> x0, base |-> b0] /\ roundID'[s] = x0
      /\ behaviorStack'[s] = <<"training">>
      /\ \A r \in Sensors \ {s} : /\ training'[r] = training[r] /\ roundID'[r] = roundID[r]
                                   /\ behaviorStack'[r] = behaviorStack[r]
  BY TrainingStarts DEF Inv, Base
<1>2. /\ sensorMailbox'[s] = Tail(q)
      /\ \A r \in Sensors \ {s} : sensorMailbox'[r] = sensorMailbox[r]
      /\ up[s] /\ Has(q, m)
      /\ \A e : Has(Tail(q), e) => Has(q, e) /\ Before(q, m, e)
      /\ \A e, f : Before(Tail(q), e, f) => Before(q, e, f)
  BY <1>1, SensorTakes DEF Inv, Base
<1>3. <<>> # <<"training">> OBVIOUS
<1>4. \A x, b \in RoundIds : ~Trains(training[s], q, x, b) BY <1>1, <1>3, IdleSensor
<1>5. UNCHANGED <<coordMailbox, coordLate, coordVars, told, baseOf, up, sensorLate>>
  BY DEF HandleStartTraining, histVars, netVars
<1>6. InOrder(training[s], q) BY DEF Inv, Training
<1> HIDE DEF q, m, x0, b0
<1>7. \A x, b \in RoundIds : Trains(training'[s], Tail(q), x, b) => x = x0 /\ b = b0
  BY <1>1, <1>2, <1>4, TrainingFields DEF Trains
<1>8. \A x, b \in RoundIds : Owes(training'[s], Tail(q), x, b) => Owes(training[s], q, x, b)
  BY <1>1, <1>2, <1>7 DEF Owes
<1>9. Tagged(training'[s], Tail(q), roundID'[s], behaviorStack'[s])
  <2>1. x0 <= x0 BY <1>1 DEF RoundIds
  <2>2. \A y \in RoundIds : Has(Tail(q), GlobalModelUpdate(y)) => y < x0
    BY <1>1, <1>2, <1>6 DEF InOrder
  <2> QED BY <1>1, <1>7, <2>1, <2>2 DEF Tagged
<1>10. \A x, b \in RoundIds : ~Has(Tail(q), TrainingComplete(x, b))
  BY <1>2, <1>4 DEF Trains
<1>11. InOrder(training'[s], Tail(q))
  BY <1>1, <1>2, <1>6, <1>7, <1>10 DEF InOrder
<1> QED BY <1>1, <1>2, <1>5, <1>8, <1>9, <1>11, SensorQuiet DEF q

(* A busy sensor ignores StartTraining; any sensor takes a global model. *)
LEMMA SensorIgnoresInv ==
  ASSUME Inv, Base', NEW s \in Sensors, IgnoreStartTraining(s) \/ HandleGlobalModelUpdate(s)
  PROVE  Inv'
<1> DEFINE q == sensorMailbox[s]
           p == Tail(q)
           m == Head(q)
<1>1. \E t : Takes(s, t) BY DEF IgnoreStartTraining, HandleGlobalModelUpdate
<1>2. /\ sensorMailbox'[s] = p
      /\ \A r \in Sensors \ {s} : sensorMailbox'[r] = sensorMailbox[r]
      /\ up[s] /\ m \in SensorMessages
      /\ Has(q, m)
      /\ \A e : Has(p, e) => Has(q, e)
      /\ \A e, f : Before(p, e, f) => Before(q, e, f)
  BY <1>1, SensorTakes DEF Inv, Base
<1>3. UNCHANGED <<coordMailbox, coordLate, coordVars, told, baseOf, up, training, behaviorStack,
                  sensorLate>>
  BY DEF IgnoreStartTraining, HandleGlobalModelUpdate, histVars, netVars, sensorVars
<1>4. /\ Tagged(training[s], q, roundID[s], behaviorStack[s])
      /\ InOrder(training[s], q)
  BY DEF Inv, Training
<1>5. /\ \A r \in Sensors \ {s} : roundID'[r] = roundID[r]
      /\ \/ roundID'[s] = roundID[s]
         \/ \A x, b \in RoundIds : Trains(training[s], q, x, b) => roundID'[s] <= x
  <2>1. CASE IgnoreStartTraining(s) BY <2>1 DEF IgnoreStartTraining, sensorVars
  <2>2. CASE HandleGlobalModelUpdate(s)
    <3>1. m.type = "GlobalModelUpdate" BY <2>2 DEF HandleGlobalModelUpdate, Takes
    <3>2. m.round \in RoundIds /\ m = GlobalModelUpdate(m.round)
      BY <1>2, <3>1, MessageForms
    <3>3. \A x, b \in RoundIds : Trains(training[s], q, x, b) => m.round < x
      BY <1>2, <1>4, <3>2 DEF Tagged
    <3>4. roundID'[s] = m.round /\ \A r \in Sensors \ {s} : roundID'[r] = roundID[r]
      BY <2>2 DEF HandleGlobalModelUpdate, Inv, Base, Types
    <3> QED BY <3>2, <3>3, <3>4 DEF RoundIds
  <2> QED BY <2>1, <2>2
<1> HIDE DEF q, p, m
<1>6. \A x, b \in RoundIds :
        /\ Trains(training[s], p, x, b) => Trains(training[s], q, x, b)
        /\ Owes(training[s], p, x, b) => Owes(training[s], q, x, b)
  BY <1>2 DEF Owes, Trains
<1>7. Tagged(training[s], p, roundID'[s], behaviorStack[s])
  BY <1>2, <1>4, <1>5, <1>6 DEF Tagged
<1>8. InOrder(training[s], p) BY <1>2, <1>4, <1>6 DEF InOrder
<1> QED BY <1>2, <1>3, <1>5, <1>6, <1>7, <1>8, SensorQuiet DEF q

(* The training goroutine tells its sensor that it is done. *)
LEMMA TrainInv ==
  ASSUME Inv, Base', NEW s \in Sensors, Train(s)
  PROVE  Inv'
<1> DEFINE q == sensorMailbox[s]
           x0 == training[s].round
           b0 == training[s].base
           m == TrainingComplete(x0, b0)
<1>1. /\ training[s] # Idle /\ q \in Seq(SensorMessages)
      /\ training[s] = [round |-> x0, base |-> b0]
      /\ x0 \in RoundIds /\ b0 \in RoundIds /\ m \in SensorMessages
  BY MessageTypes DEF Train, Inv, Base, Types
<1>2. /\ sensorMailbox'[s] = Append(q, m)
      /\ \A r \in Sensors \ {s} : sensorMailbox'[r] = sensorMailbox[r]
      /\ training'[s] = Idle
      /\ \A r \in Sensors \ {s} : training'[r] = training[r]
  BY DEF Train, Inv, Base, Types
<1>3. UNCHANGED <<coordMailbox, coordLate, coordVars, told, baseOf, up, behaviorStack, roundID,
                  sensorLate>>
  BY DEF Train, histVars, netVars
<1>4. /\ \A x, b : m = TrainingComplete(x, b) => x = x0 /\ b = b0
      /\ \A x, b : m # StartTraining(x, b)
      /\ \A x : m # GlobalModelUpdate(x)
  BY MessageFields
<1>5. /\ Tagged(training[s], q, roundID[s], behaviorStack[s])
      /\ InOrder(training[s], q)
      /\ \A x, b \in RoundIds : Owes(training[s], q, x, b) => up[s]
  BY DEF Inv, Training, Owing, Due
<1> HIDE DEF q, x0, b0, m
<1>6. /\ \A e : Has(Append(q, m), e) => Has(q, e) \/ e = m
      /\ \A e, f : Before(Append(q, m), e, f) => Before(q, e, f) \/ (Has(q, e) /\ f = m)
  BY <1>1, HasAppend
<1>7. \A x, b \in RoundIds : Trains(Idle, Append(q, m), x, b) => Trains(training[s], q, x, b)
  BY <1>1, <1>4, <1>6, TrainingFields DEF Trains
<1>8. \A x, b \in RoundIds : Owes(Idle, Append(q, m), x, b) => Owes(training[s], q, x, b)
  BY <1>4, <1>6, <1>7 DEF Owes
<1>9. Tagged(Idle, Append(q, m), roundID[s], behaviorStack[s])
  BY <1>4, <1>5, <1>6, <1>7 DEF Tagged
<1>10. InOrder(Idle, Append(q, m)) BY <1>1, <1>4, <1>5, <1>6, <1>7 DEF InOrder
<1>11. up[s] BY <1>1, <1>5 DEF Owes, Trains
<1> QED BY <1>2, <1>3, <1>8, <1>9, <1>10, <1>11, SensorQuiet DEF q

(* A sensor goes down, or comes up again, and owes nothing. *)
LEMMA CrashRestartInv ==
  ASSUME Inv, Base', NEW s \in Sensors, Crash(s) \/ NewInstance(s)
  PROVE  Inv'
<1>1. /\ sensorMailbox'[s] = <<>> /\ training'[s] = Idle /\ behaviorStack'[s] = <<>>
      /\ \A r \in Sensors \ {s} : /\ sensorMailbox'[r] = sensorMailbox[r]
                                   /\ training'[r] = training[r] /\ roundID'[r] = roundID[r]
                                   /\ behaviorStack'[r] = behaviorStack[r] /\ up'[r] = up[r]
                                   /\ sensorLate'[r] = sensorLate[r]
      /\ sensorLate'[s] = {}
  <2>1. CASE Crash(s) BY <2>1 DEF Crash, Inv, Base, Types, Network
  <2>2. CASE NewInstance(s)
    <3>1. sensorLate[s] = {} BY <2>2 DEF NewInstance, Inv, Delayed
    <3>2. sensorMailbox[s] = <<>> /\ training[s] = Idle /\ behaviorStack[s] = <<>>
      BY <2>2 DEF NewInstance, Inv, Down
    <3> QED BY <2>2, <3>1, <3>2 DEF NewInstance, histVars, netVars, Inv, Base, Types
  <2> QED BY <2>1, <2>2
<1>2. UNCHANGED <<coordMailbox, coordLate, coordVars, told, baseOf>>
  BY DEF Crash, NewInstance, histVars, netVars
<1>3. \A x, b \in RoundIds : ~Trains(Idle, <<>>, x, b) /\ ~Owes(Idle, <<>>, x, b)
  BY HasEmpty, TrainingFields DEF Owes, Trains
<1>4. Tagged(Idle, <<>>, roundID'[s], <<>>) BY <1>3 DEF Tagged
<1>5. InOrder(Idle, <<>>) BY HasEmpty DEF InOrder
<1> QED BY <1>1, <1>2, <1>3, <1>4, <1>5, SensorQuiet

(* The sensor sends its update, tagged with s.roundID, which is the round it *)
(* trained for or an older one, and is idle again.                           *)
LEMMA HandleTrainingCompleteInv ==
  ASSUME Inv, Base', NEW s \in Sensors, HandleTrainingComplete(s)
  PROVE  Inv'
<1> DEFINE q == sensorMailbox[s]
           p == Tail(q)
           m == Head(q)
           x0 == m.round
           b0 == m.base
           tag == roundID[s]
           w == ModelUpdate(s, tag, b0)
<1>1. /\ Takes(s, "TrainingComplete") /\ TellCoordinator(w)
      /\ x0 \in RoundIds /\ b0 \in RoundIds /\ m = TrainingComplete(x0, b0)
      /\ tag \in RoundIds /\ w \in CoordMessages /\ w # StartRound
      /\ behaviorStack[s] = <<"training">> /\ behaviorStack'[s] = <<>>
      /\ \A r \in Sensors \ {s} : behaviorStack'[r] = behaviorStack[r]
      /\ UNCHANGED <<sensors, round, pendingUpdates, told, baseOf, up, roundID, training,
                     remote, strayed>>
  BY TrainingEnds DEF Inv, Base
<1>2. /\ sensorMailbox'[s] = p
      /\ \A r \in Sensors \ {s} : sensorMailbox'[r] = sensorMailbox[r]
      /\ up[s] /\ Has(q, m)
      /\ \A e : Has(p, e) => Has(q, e) /\ Before(q, m, e)
      /\ \A e, f : Before(p, e, f) => Before(q, e, f)
  BY <1>1, SensorTakes DEF Inv, Base
<1>3. /\ Tagged(training[s], q, tag, behaviorStack[s])
      /\ InOrder(training[s], q)
  BY DEF Inv, Training
<1>4. \A r, x, b : w = ModelUpdate(r, x, b) => r = s /\ x = tag /\ b = b0 BY MessageFields
<1> HIDE DEF p, m, x0, b0, tag, w
<1>5. /\ \A e : Has(coordMailbox', e) => Has(coordMailbox, e) \/ e = w
      /\ \A e, f : Before(coordMailbox', e, f) =>
                     Before(coordMailbox, e, f) \/ (Has(coordMailbox, e) /\ f = w)
      /\ sensorLate' = sensorLate
      /\ \A l \in coordLate' :
           l \in coordLate \/ (l = Late(w) /\ l.msg = w /\ coordMailbox' = coordMailbox)
  BY <1>1, CoordTold DEF Inv, Base
<1>6. Trains(training[s], q, x0, b0) /\ Due(s, x0, b0)
  BY <1>1, <1>2 DEF Due, Owes, Trains
<1>7. /\ x0 \in 1..round /\ b0 = baseOf[x0] /\ s \in sensors
      /\ pendingUpdates[s] = NoUpdate
      /\ \A y, c \in RoundIds : Sent(s, y, c) => y < x0
  BY <1>1, <1>6 DEF Inv, Owing
<1>8. tag <= x0 /\ tag <= round /\ round \in RoundIds /\ (tag = round => x0 = round)
  <2>1. tag <= x0 BY <1>1, <1>3, <1>6 DEF Tagged
  <2>2. round \in RoundIds BY DEF Inv, Base, Types
  <2> QED BY <1>1, <1>7, <2>1, <2>2 DEF RoundIds
<1>9. \A r, x, b : Sent(r, x, b)' => Sent(r, x, b) \/ (r = s /\ x = tag /\ b = b0)
  BY <1>4, <1>5 DEF Sent
<1>10. ASSUME tag = round PROVE \A c \in RoundIds : ~Sent(s, round, c)
  BY <1>7, <1>8, <1>10 DEF RoundIds
(* It is idle, and what is due now is younger than what it has sent. *)
<1>11. training[s] = Idle BY <1>1, <1>2, <1>3 DEF InOrder
<1>12. \A x, b \in RoundIds : ~Has(p, TrainingComplete(x, b))
  BY <1>1, <1>2, <1>3 DEF InOrder
<1>13. \A x, b \in RoundIds : ~Trains(training[s], p, x, b)
  BY <1>11, <1>12, TrainingFields DEF Trains
<1>14. \A x, b \in RoundIds : Owes(training[s], p, x, b) =>
         Owes(training[s], q, x, b) /\ x0 < x
  <2> SUFFICES ASSUME NEW x \in RoundIds, NEW b \in RoundIds, Owes(training[s], p, x, b)
               PROVE  Owes(training[s], q, x, b) /\ x0 < x
    OBVIOUS
  <2>1. Has(q, StartTraining(x, b)) BY <1>2, <1>13 DEF Owes
  <2> QED BY <1>1, <1>3, <1>6, <2>1 DEF Owes, InOrder
<1>15. \A b \in RoundIds : Asking(s, b) => x0 < round
  BY <1>1, <1>6 DEF Asking, Inv, Delayed, Owes
<1>16. \A r \in Sensors, x, b \in RoundIds :
         /\ Owes(training'[r], sensorMailbox'[r], x, b) =>
              Owes(training[r], sensorMailbox[r], x, b)
         /\ Due(r, x, b)' => Due(r, x, b) /\ (r = s => x0 < x)
  <2> SUFFICES ASSUME NEW r \in Sensors, NEW x \in RoundIds, NEW b \in RoundIds
               PROVE  /\ Owes(training'[r], sensorMailbox'[r], x, b) =>
                           Owes(training[r], sensorMailbox[r], x, b) /\ (r = s => x0 < x)
                      /\ Due(r, x, b)' => Due(r, x, b) /\ (r = s => x0 < x)
    OBVIOUS
  <2>1. Owes(training'[r], sensorMailbox'[r], x, b) =>
          Owes(training[r], sensorMailbox[r], x, b) /\ (r = s => x0 < x)
    BY <1>1, <1>2, <1>14 DEF q
  <2>2. Asking(r, b)' <=> Asking(r, b) BY <1>1, <1>5 DEF Asking
  <2> QED BY <1>1, <1>15, <2>1, <2>2 DEF Due
<1>17. Owing'
  <2> SUFFICES ASSUME NEW r \in Sensors, NEW x \in RoundIds, NEW b \in RoundIds,
                      Due(r, x, b)'
               PROVE  /\ x \in 1..round /\ b = baseOf[x]
                      /\ r \in sensors /\ up[r]
                      /\ pendingUpdates[r] = NoUpdate
                      /\ \A y, c \in RoundIds : Sent(r, y, c)' => y < x
    BY <1>1 DEF Owing
  <2>1. Due(r, x, b) /\ (r = s => x0 < x) BY <1>16
  <2>2. \A y, c \in RoundIds : Sent(r, y, c) => y < x BY <2>1 DEF Inv, Owing
  <2>3. r = s => tag < x BY <1>1, <1>8, <2>1 DEF RoundIds
  <2>4. \A y, c \in RoundIds : Sent(r, y, c)' => y < x BY <1>9, <2>2, <2>3
  <2> QED BY <2>1, <2>4 DEF Inv, Owing
<1>18. Delayed' BY <1>1, <1>5, <1>16 DEF Inv, Delayed
<1>19. Training'
  <2>1. Tagged(training'[s], sensorMailbox'[s], roundID'[s], behaviorStack'[s])
    BY <1>1, <1>2, <1>13 DEF Tagged
  <2>2. InOrder(training[s], p)
    BY <1>2, <1>3, <1>11, <1>12, <1>13 DEF InOrder
  <2>3. InOrder(training'[s], sensorMailbox'[s]) BY <1>1, <1>2, <2>2
  <2> QED BY <1>1, <1>2, <2>1, <2>3 DEF Inv, Training
<1>20. Updates'
  <2> SUFFICES ASSUME NEW r \in Sensors, NEW x \in RoundIds, NEW b \in RoundIds,
                      Sent(r, x, b)'
               PROVE  /\ x <= round /\ r \in sensors
                      /\ x = round => b = baseOf[x] /\ pendingUpdates[r] = NoUpdate
    BY <1>1 DEF Updates
  <2>1. CASE Sent(r, x, b) BY <2>1 DEF Inv, Updates
  <2>2. CASE r = s /\ x = tag /\ b = b0 BY <1>7, <1>8, <2>2
  <2> QED BY <1>9, <2>1, <2>2
<1>21. Single'
  <2> SUFFICES ASSUME NEW r \in Sensors, NEW b \in RoundIds, NEW c \in RoundIds
               PROVE  /\ ~Before(coordMailbox', ModelUpdate(r, round, b), ModelUpdate(r, round, c))
                      /\ \A l \in coordLate' : l.msg = ModelUpdate(r, round, b) =>
                           /\ ~Has(coordMailbox', ModelUpdate(r, round, c))
                           /\ \A k \in coordLate' : k.msg = ModelUpdate(r, round, c) => k = l
    BY <1>1 DEF Single
  <2>1. CASE r = s /\ tag = round
    <3>1. /\ ~Has(coordMailbox, ModelUpdate(r, round, b))
          /\ ~Has(coordMailbox, ModelUpdate(r, round, c))
          /\ \A l \in coordLate : /\ l.msg # ModelUpdate(r, round, b)
                                  /\ l.msg # ModelUpdate(r, round, c)
      BY <1>10, <2>1 DEF Sent
    <3> QED BY <1>5, <3>1, BeforeHas
  <2>2. CASE ~(r = s /\ tag = round)
    <3>1. w # ModelUpdate(r, round, b) /\ w # ModelUpdate(r, round, c) BY <1>4, <2>2
    <3> QED BY <1>5, <3>1 DEF Inv, Single
  <2> QED BY <2>1, <2>2
<1>22. Completed' /\ Pending'
  <2>1. \A i \in 1..Len(told) : told[i].round # round BY <1>1, <1>6 DEF Inv, Completed
  <2> QED BY <1>1, <2>1 DEF Inv, Completed, Pending
<1>23. Down' BY <1>1, <1>2 DEF Inv, Down
<1> QED BY <1>17, <1>18, <1>19, <1>20, <1>21, <1>22, <1>23 DEF Inv

(* A late message reaches a sensor: a global model older than what it owes,  *)
(* or the request for the current round, which comes once.                   *)
LEMMA LateToSensorInv ==
  ASSUME Inv, Base', ~strayed', NEW s \in Sensors, LateToSensor(s)
  PROVE  Inv'
<1> DEFINE q == sensorMailbox[s]
<1>1. PICK l \in sensorLate[s] : /\ sensorMailbox' = [sensorMailbox EXCEPT ![s] = Append(@, l.msg)]
                                 /\ sensorLate' = [sensorLate EXCEPT ![s] = @ \ {l}]
                                 /\ strayed' = (strayed \/ Outdated(l.msg))
  BY DEF LateToSensor
<1>2. UNCHANGED <<coordMailbox, coordLate, sensors, round, pendingUpdates, told, baseOf, up,
                  behaviorStack, roundID, training>>
  BY DEF LateToSensor, coordVars, sensorVars
<1> DEFINE m == l.msg
           p == Append(q, m)
<1>3. m \in Orders /\ q \in Seq(SensorMessages) /\ round \in RoundIds /\ up[s]
  BY DEF Inv, Base, Types, Network, Lates, Delayed
<1>4. /\ sensorMailbox'[s] = p /\ sensorLate'[s] = sensorLate[s] \ {l}
      /\ \A r \in Sensors \ {s} : /\ sensorMailbox'[r] = sensorMailbox[r]
                                  /\ sensorLate'[r] = sensorLate[r]
  BY <1>1 DEF Inv, Base, Types, Network
<1>5. ~Outdated(m) BY <1>1
<1>6. \A y, b \in RoundIds : m = StartTraining(y, b) => y = round
  <2> SUFFICES ASSUME NEW y \in RoundIds, NEW b \in RoundIds, m = StartTraining(y, b)
               PROVE  y = round
    OBVIOUS
  <2>1. y <= round BY DEF Inv, Delayed
  <2>2. ~(y < round) BY <1>5, MessageFields DEF Outdated
  <2> QED BY <1>3, <2>1, <2>2 DEF RoundIds
<1>7. \A y \in RoundIds : m = GlobalModelUpdate(y) =>
        \A x, b \in RoundIds : Due(s, x, b) => y < x
  BY DEF Inv, Delayed
<1>8. \A b \in RoundIds : m = StartTraining(round, b) =>
        /\ \A x, c \in RoundIds : Owes(training[s], q, x, c) => x < round
        /\ \A k \in sensorLate'[s], c \in RoundIds : k.msg # StartTraining(round, c)
  BY <1>4 DEF Inv, Delayed
<1>9. \A x, b : m # TrainingComplete(x, b) BY <1>3, OrderForms
<1>10. m \in SensorMessages BY <1>3, OrderForms
<1>11. \A b \in RoundIds : m = StartTraining(round, b) => Asking(s, b) BY DEF Asking
<1>12. \A x, b, y : ~(m = StartTraining(x, b) /\ m = GlobalModelUpdate(y)) BY OrdersDiffer
<1> HIDE DEF q, m
<1>13. /\ \A e : Has(p, e) => Has(q, e) \/ e = m
       /\ \A e, f : Before(p, e, f) => Before(q, e, f) \/ (Has(q, e) /\ f = m)
  BY <1>3, <1>10, HasAppend
<1> HIDE DEF p
<1>14. \A x, b : Trains(training[s], p, x, b) => Trains(training[s], q, x, b)
  BY <1>9, <1>13 DEF Trains
<1>15. \A x, b \in RoundIds : Owes(training[s], p, x, b) =>
         Owes(training[s], q, x, b) \/ (x = round /\ m = StartTraining(round, b))
  BY <1>6, <1>13, <1>14 DEF Owes
<1>16. \A r \in Sensors, x, b \in RoundIds : Due(r, x, b)' => Due(r, x, b)
  <2> SUFFICES ASSUME NEW r \in Sensors, NEW x \in RoundIds, NEW b \in RoundIds, Due(r, x, b)'
               PROVE  Due(r, x, b)
    OBVIOUS
  <2>1. Asking(r, b)' => Asking(r, b) BY <1>2, <1>4 DEF Asking
  <2>2. Owes(training'[r], sensorMailbox'[r], x, b) =>
          Owes(training[r], sensorMailbox[r], x, b) \/ (r = s /\ x = round /\ Asking(s, b))
    BY <1>2, <1>4, <1>11, <1>15 DEF q
  <2> QED BY <1>2, <2>1, <2>2 DEF Due
<1>17. \A r, x, b : Sent(r, x, b)' <=> Sent(r, x, b) BY <1>2 DEF Sent
<1>18. Owing' BY <1>2, <1>16, <1>17 DEF Inv, Owing
<1>19. Delayed'
  <2> SUFFICES ASSUME NEW r \in Sensors, NEW k \in sensorLate'[r]
               PROVE  /\ up[r]
                      /\ \A y \in RoundIds : k.msg = GlobalModelUpdate(y) =>
                           y <= round /\ \A x, b \in RoundIds : Due(r, x, b)' => y < x
                      /\ \A y, b \in RoundIds : k.msg = StartTraining(y, b) => y <= round
                      /\ \A b \in RoundIds : k.msg = StartTraining(round, b) =>
                           /\ \A x, c \in RoundIds :
                                Owes(training'[r], sensorMailbox'[r], x, c) => x < round
                           /\ \A j \in sensorLate'[r], c \in RoundIds :
                                j.msg = StartTraining(round, c) => j = k
    BY <1>2 DEF Delayed
  <2>1. k \in sensorLate[r] /\ sensorLate'[r] \subseteq sensorLate[r] BY <1>4
  <2>2. ASSUME NEW b \in RoundIds, k.msg = StartTraining(round, b)
        PROVE  \A x, c \in RoundIds : Owes(training'[r], sensorMailbox'[r], x, c) => x < round
    <3>1. \A x, c \in RoundIds : Owes(training[r], sensorMailbox[r], x, c) => x < round
      BY <2>1, <2>2 DEF Inv, Delayed
    <3>2. r = s => \A c \in RoundIds : m # StartTraining(round, c) BY <1>8, <2>2
    <3> QED BY <1>2, <1>4, <1>15, <3>1, <3>2 DEF q
  <2> QED BY <1>16, <2>1, <2>2 DEF Inv, Delayed
<1>20. Training'
  <2>1. /\ Tagged(training[s], q, roundID[s], behaviorStack[s])
        /\ InOrder(training[s], q)
    BY DEF Inv, Training, q
  <2>2. \A x, b \in RoundIds : Owes(training[s], q, x, b) => Due(s, x, b) BY DEF Due, q
  <2>3. Tagged(training[s], p, roundID[s], behaviorStack[s])
    BY <1>7, <1>13, <1>14, <2>1, <2>2 DEF Tagged, Owes
  <2>4. InOrder(training[s], p)
    <3> SUFFICES ASSUME NEW x \in RoundIds, NEW b \in RoundIds, NEW y \in RoundIds,
                        NEW c \in RoundIds
                 PROVE  LET t == training[s]
                        IN  /\ ~Before(p, TrainingComplete(x, b), TrainingComplete(y, c))
                            /\ t # Idle => ~Has(p, TrainingComplete(x, b))
                            /\ Trains(t, p, x, b) /\ Has(p, StartTraining(y, c)) => x < y
                            /\ Before(p, StartTraining(x, b), StartTraining(y, c)) => x < y
                            /\ Before(p, StartTraining(x, b), GlobalModelUpdate(y)) => y < x
      BY DEF InOrder
    <3>1. m = StartTraining(y, c) => /\ Trains(training[s], q, x, b) => x < y
                                     /\ Has(q, StartTraining(x, b)) => x < y
      BY <1>6, <1>8 DEF Owes, q
    <3>2. m = GlobalModelUpdate(y) => (Has(q, StartTraining(x, b)) => y < x)
      BY <1>7, <2>2 DEF Owes
    <3> QED BY <1>9, <1>13, <1>14, <2>1, <3>1, <3>2 DEF InOrder
  <2> QED BY <1>2, <1>4, <2>3, <2>4 DEF Inv, Training
<1>21. Updates' /\ Single' BY <1>2, <1>17 DEF Inv, Updates, Single
<1>22. Pending' BY <1>2 DEF Inv, Pending
<1>23. Completed' BY <1>2, <1>16, <1>17 DEF Inv, Completed
<1>24. Down' BY <1>2, <1>3, <1>4 DEF Inv, Down
<1> QED BY <1>18, <1>19, <1>20, <1>21, <1>22, <1>23, <1>24 DEF Inv
-----------------------------------------------------------------------------
LEMMA InvInit == Init => Inv
<1> SUFFICES ASSUME Init PROVE Inv OBVIOUS
<1>1. coordMailbox = <<>> /\ coordLate = {} /\ told = <<>> /\ Len(told) = 0 BY DEF Init
<1>2. \A s \in Sensors : /\ sensorMailbox[s] = <<>> /\ sensorLate[s] = {}
                         /\ training[s] = Idle /\ behaviorStack[s] = <<>>
  BY DEF Init
<1>3. \A e, f : ~Has(<<>>, e) /\ ~Before(<<>>, e, f) BY HasEmpty
<1>4. \A s \in Sensors, x, b \in RoundIds :
        /\ ~Trains(training[s], sensorMailbox[s], x, b)
        /\ ~Owes(training[s], sensorMailbox[s], x, b)
  BY <1>2, <1>3, TrainingFields DEF Trains, Owes
<1>5. \A s \in Sensors, x, b \in RoundIds : ~Due(s, x, b) BY <1>2, <1>4 DEF Due, Asking
<1>6. \A s, x, b : ~Sent(s, x, b) BY <1>1, <1>3 DEF Sent
<1>7. Owing /\ Delayed BY <1>2, <1>5 DEF Owing, Delayed
<1>8. Training BY <1>2, <1>3, <1>4 DEF Training, Tagged, InOrder
<1>9. Updates /\ Single BY <1>1, <1>3, <1>6 DEF Updates, Single
<1>10. Pending /\ Completed /\ Down BY <1>1, <1>2 DEF Init, Pending, Completed, Down
<1> QED BY <1>7, <1>8, <1>9, <1>10, BaseInit DEF Inv

(* Only a StartTraining that is delivered after its round is remembered in   *)
(* strayed.                                                                  *)
LEMMA Strays ==
  ASSUME Network, [Next]_vars
  PROVE  \/ strayed' = strayed
         \/ strayed' = TRUE /\ \E s \in Sensors : LateToSensor(s)
<1>1. CASE LateToCoordinator BY <1>1 DEF LateToCoordinator
<1>2. CASE DriverStartRound \/ Coordinator
  BY <1>2 DEF DriverStartRound, Coordinator, HandleRegisterSensor, HandleStartRound,
              HandleStaleUpdate, HandleModelUpdate, histVars
<1>3. ASSUME NEW s \in Sensors,
             \/ RegisterSensor(s) \/ Sensor(s) \/ Train(s)
             \/ Crash(s) \/ Restart(s) \/ RestartProcess(s)
      PROVE  strayed' = strayed
  BY <1>3 DEF RegisterSensor, Sensor, Train, Crash, Restart, RestartProcess, NewInstance,
              HandleStartTraining, IgnoreStartTraining, HandleGlobalModelUpdate,
              HandleTrainingComplete, histVars
<1>4. ASSUME NEW s \in Sensors, LateToSensor(s)
      PROVE  strayed' = strayed \/ strayed' = TRUE
  <2>1. PICK l \in sensorLate[s] : strayed' = (strayed \/ Outdated(l.msg))
    BY <1>4 DEF LateToSensor
  <2>2. strayed \in BOOLEAN BY DEF Network
  <2>3. Outdated(l.msg) \in BOOLEAN BY DEF Outdated
  <2> HIDE DEF Outdated
  <2> QED BY <2>1, <2>2, <2>3
<1>5. CASE UNCHANGED vars BY <1>5 DEF vars, histVars
<1> QED BY <1>1, <1>2, <1>3, <1>4, <1>5 DEF Next

LEMMA InvStep == (~strayed => Inv) /\ Base /\ Base' /\ [Next]_vars => (~strayed' => Inv')
<1> SUFFICES ASSUME ~strayed => Inv, Base, Base', [Next]_vars, ~strayed' PROVE Inv' OBVIOUS
<1>1. ~strayed BY Strays DEF Base
<1>2. Inv BY <1>1
<1>3. CASE DriverStartRound BY <1>2, <1>3, DriverInv
<1>4. CASE Coordinator
  BY <1>2, <1>4, CoordIgnoresInv, HandleStartRoundInv, HandleModelUpdateInv DEF Coordinator
<1>5. ASSUME NEW s \in Sensors, RegisterSensor(s) PROVE Inv' BY <1>2, <1>5, DriverInv
<1>6. ASSUME NEW s \in Sensors, Sensor(s) PROVE Inv'
  BY <1>2, <1>6, HandleStartTrainingInv, SensorIgnoresInv, HandleTrainingCompleteInv DEF Sensor
<1>7. ASSUME NEW s \in Sensors, Train(s) PROVE Inv' BY <1>2, <1>7, TrainInv
<1>8. ASSUME NEW s \in Sensors, Crash(s) \/ Restart(s) \/ RestartProcess(s) PROVE Inv'
  BY <1>2, <1>8, CrashRestartInv DEF Restart, RestartProcess
<1>9. CASE LateToCoordinator BY <1>2, <1>9, LateToCoordinatorInv
<1>10. ASSUME NEW s \in Sensors, LateToSensor(s) PROVE Inv' BY <1>2, <1>10, LateToSensorInv
<1>11. CASE UNCHANGED vars
  <2>1. UNCHANGED <<coordMailbox, coordLate, sensors, round, pendingUpdates, sensorMailbox,
                    sensorLate, up, behaviorStack, roundID, training, told, baseOf>>
    BY <1>11 DEF vars, coordVars, sensorVars, histVars, netVars
  <2>2. /\ \A s, x, b : Due(s, x, b)' <=> Due(s, x, b)
        /\ \A s, x, b : Sent(s, x, b)' <=> Sent(s, x, b)
    BY <2>1 DEF Due, Asking, Sent
  <2> QED BY <1>2, <2>1, <2>2 DEF Inv, Owing, Delayed, Training, Updates, Single, Pending,
                                  Completed, Down
<1> QED BY <1>3, <1>4, <1>5, <1>6, <1>7, <1>8, <1>9, <1>10, <1>11 DEF Next

(* Theorem: for any number of sensors, rounds and faults, and also when the  *)
(* messages of failed calls arrive late (remote_ref.go:77-79): a sensor that *)
(* works or has answered is registered.  And until a StartTraining is        *)
(* delivered after its round, hence always in one process, whatever else is  *)
(* lost or late: a sensor that owes a round an update is up, the tag of that *)
(* update is the round it trains for or an older one, and the coordinator    *)
(* has, or will get, at most one update of it for the current round          *)
(* (coordinator.go:213-286, sensor.go:118-141, 252-317).                     *)
THEOREM RoundInvariant == Spec => [](Base /\ (~remote => ~strayed) /\ (~strayed => Inv))
<1>1. Init => (~strayed => Inv) BY InvInit
<1>2. Base => (~remote => ~strayed) BY DEF Base, Network
<1> QED BY <1>1, <1>2, InvStep, BaseHolds, PTL DEF Spec

(* Theorem: the updates that are averaged start from one model, the one      *)
(* their round began with, although an update is tagged with s.roundID at    *)
(* the time of sending (sensor.go:132-133, 293, 314): whatever calls fail,   *)
(* and whatever is lost or arrives late, until a StartTraining is delivered  *)
(* after its round.                                                          *)
THEOREM UpdatesAreTrue == Spec => []UpdatesShareBase
<1>1. Inv => SentShareBase /\ PendingShareBase
  <2> SUFFICES ASSUME Inv PROVE SentShareBase /\ PendingShareBase OBVIOUS
  <2>1. round \in RoundIds /\ pendingRound = round BY DEF Inv, Base, Types
  <2>2. ASSUME NEW m \in Range(coordMailbox), m.type = "ModelUpdate", m.round = pendingRound
        PROVE  m.base = baseOf[pendingRound]
    <3>1. coordMailbox \in Seq(CoordMessages) BY DEF Inv, Base, Types
    <3>2. PICK i \in 1..Len(coordMailbox) : coordMailbox[i] = m BY <3>1 DEF Range
    <3>3. m \in CoordMessages BY <3>1, <3>2
    <3>4. /\ m.from \in Sensors /\ m.base \in RoundIds
          /\ m = ModelUpdate(m.from, round, m.base)
      BY <2>1, <2>2, <3>3, MessageForms
    <3>5. Sent(m.from, round, m.base) BY <3>2, <3>4 DEF Has, Sent
    <3> QED BY <2>1, <3>4, <3>5 DEF Inv, Updates
  <2>3. PendingShareBase BY <2>1 DEF PendingShareBase, Inv, Pending
  <2> QED BY <2>2, <2>3 DEF SentShareBase
<1>2. (~strayed => Inv) => UpdatesShareBase BY <1>1 DEF UpdatesShareBase
<1> QED BY <1>2, RoundInvariant, PTL

(* Theorem: an average is taken over exactly the sensors registered then,    *)
(* although received >= total only compares two counts                       *)
(* (coordinator.go:276-283), and also after late messages.                   *)
THEOREM EverySensorIsAveraged == Spec => []EverySensorCounts
<1>1. Base => EverySensorCounts
  <2> SUFFICES ASSUME Base, NEW m \in Range(told) PROVE m.clients = m.registered
    BY DEF EverySensorCounts
  <2>1. told \in Seq(Reports) BY DEF Base, Types
  <2>2. PICK i \in 1..Len(told) : told[i] = m BY <2>1 DEF Range
  <2> QED BY <2>2 DEF Base, Counted
<1> QED BY <1>1, BaseHolds, PTL

-----------------------------------------------------------------------------
(* The rounds of which the logger has been told. *)
RoundsOf(t) == [i \in 1..Len(t) |-> t[i].round]
Open(n, t)  == n > 0 /\ \A m \in Range(t) : m.round # n

LEMMA RoundsOfAppend ==
  ASSUME NEW S, NEW t \in Seq(S), NEW m \in S, NEW n, m.round = n
  PROVE  RoundsOf(Append(t, m)) = Append(RoundsOf(t), n)
<1> DEFINE T == {e.round : e \in S}
           p == Append(t, m)
           l == RoundsOf(t)
           r == RoundsOf(p)
           q == Append(l, n)
<1>1. /\ p \in Seq(S) /\ Len(p) = Len(t) + 1 /\ Len(t) \in Nat
      /\ \A i \in 1..Len(t) : p[i] = t[i]
      /\ p[Len(t) + 1] = m
  BY AppendProperties, LenProperties
<1> HIDE DEF p
<1>2. l \in Seq(T) /\ Len(l) = Len(t) /\ \A i \in 1..Len(t) : l[i] = t[i].round
  <2>1. \A i \in 1..Len(t) : t[i].round \in T OBVIOUS
  <2> HIDE DEF T
  <2> QED BY <1>1, <2>1 DEF RoundsOf
<1>3. r \in Seq(T) /\ Len(r) = Len(p) /\ \A i \in 1..Len(p) : r[i] = p[i].round
  <2>1. \A i \in 1..Len(p) : p[i].round \in T BY <1>1
  <2> HIDE DEF T
  <2> QED BY <1>1, <2>1 DEF RoundsOf
<1>4. n \in T OBVIOUS
<1> HIDE DEF T, l, r
<1>5. /\ q \in Seq(T) /\ Len(q) = Len(l) + 1
      /\ \A i \in 1..Len(l) : q[i] = l[i]
      /\ q[Len(l) + 1] = n
  BY <1>2, <1>4, AppendProperties
<1> HIDE DEF q
<1>6. \A i \in 1..Len(r) : r[i] = q[i]
  <2> SUFFICES ASSUME NEW i \in 1..Len(r) PROVE r[i] = q[i] OBVIOUS
  <2>1. CASE i \in 1..Len(t) BY <1>1, <1>2, <1>3, <1>5, <2>1
  <2>2. CASE i = Len(t) + 1 BY <1>1, <1>2, <1>3, <1>5, <2>2
  <2> QED BY <1>1, <1>3, <2>1, <2>2
<1>7. r = q BY <1>1, <1>2, <1>3, <1>5, <1>6, SeqEqual
<1> QED BY <1>7 DEF r, q, l, p

(* The steps that are seen: the driver's request, the coordinator's          *)
(* beginning and completion of a round, a StartTraining that is delivered    *)
(* after its round, and then another completion.                             *)
LEMMA RoundStep ==
  ASSUME Base, ~strayed => Inv, [Next]_vars
  PROVE  \/ /\ requested' = requested + 1
            /\ UNCHANGED <<round, told, strayed>>
         \/ /\ round < requested /\ round' = round + 1
            /\ UNCHANGED <<requested, told, strayed>>
         \/ /\ round > 0
            /\ strayed \/ \A i \in 1..Len(told) : told[i].round # round
            /\ told' = Append(told, RoundComplete(round, sensors, sensors))
            /\ UNCHANGED <<requested, round, strayed>>
         \/ strayed' = TRUE /\ UNCHANGED <<requested, round, told>>
         \/ UNCHANGED <<requested, round, told, strayed>>
<1>1. CASE DriverStartRound BY <1>1 DEF DriverStartRound, coordVars, histVars
<1>2. CASE HandleStartRound
  <2>1. round < requested BY <1>2, RoundBegins DEF Base
  <2> QED BY <1>2, <2>1 DEF HandleStartRound, driverVars
<1>3. CASE HandleModelUpdate
  <2> DEFINE u == Head(coordMailbox)
             updates == [pendingUpdates EXCEPT ![u.from] = u.base]
  <2>1. round \in 1..MaxRounds /\ (Complete(updates) => Received(updates) = sensors)
    BY <1>3, UpdateCounts
  <2>2. strayed \/ \A i \in 1..Len(told) : told[i].round # round BY <1>3, UpdateArrives
  <2>3. UNCHANGED <<requested, round, strayed>> BY <1>3 DEF HandleModelUpdate, driverVars
  <2>4. \/ UNCHANGED told
        \/ /\ Complete(updates)
           /\ told' = Append(told, RoundComplete(round, Received(updates), sensors))
    BY <1>3 DEF HandleModelUpdate, AggregateAndFinalise
  <2>5. round > 0 BY <2>1
  <2> HIDE DEF updates
  <2> QED BY <2>1, <2>2, <2>3, <2>4, <2>5
<1>4. CASE HandleRegisterSensor \/ HandleStaleUpdate
  BY <1>4 DEF HandleRegisterSensor, HandleStaleUpdate, coordVars, driverVars, histVars
<1>5. CASE LateToCoordinator \/ \E s \in Sensors : LateToSensor(s)
  <2>1. UNCHANGED <<requested, round, told>>
    BY <1>5 DEF LateToCoordinator, LateToSensor, coordVars, driverVars
  <2> QED BY <2>1, Strays DEF Base
<1>6. ASSUME NEW s \in Sensors,
             \/ RegisterSensor(s) \/ Sensor(s) \/ Train(s)
             \/ Crash(s) \/ Restart(s) \/ RestartProcess(s)
      PROVE  UNCHANGED <<requested, round, told, strayed>>
  BY <1>6 DEF RegisterSensor, Sensor, Train, Crash, Restart, RestartProcess, NewInstance,
              HandleStartTraining, IgnoreStartTraining, HandleGlobalModelUpdate,
              HandleTrainingComplete, coordVars, driverVars, histVars
<1>7. CASE UNCHANGED vars BY <1>7 DEF vars, coordVars, driverVars, histVars
<1> QED BY <1>1, <1>2, <1>3, <1>4, <1>5, <1>6, <1>7 DEF Next, Coordinator

(* Theorem: rounds keep the promise of Rounds: each is begun for a request,  *)
(* and completed at most once, before the next one begins, although          *)
(* aggregation clears neither pendingRound nor pendingUpdates                *)
(* (coordinator.go:213-225, 268-285, 290-397).  Only once a StartTraining    *)
(* has been delivered after its round can the current round, never an older  *)
(* one, be completed again.                                                  *)
THEOREM RoundsAreKept == Spec => ImplementsRounds
<1>1. Init => R!Init
  <2> SUFFICES ASSUME Init PROVE R!Init OBVIOUS
  <2>1. [i \in 1..Len(told) |-> told[i].round] = <<>> BY DEF Init
  <2> QED BY <2>1 DEF Init, R!Init
<1>2. Base /\ Base' /\ (~strayed => Inv) /\ [Next]_vars => [R!Next]_R!vars
  <2> SUFFICES ASSUME Base, Base', ~strayed => Inv, [Next]_vars PROVE [R!Next]_R!vars OBVIOUS
  <2> DEFINE o  == Open(round, told)
             o1 == Open(round', told')
             r  == RoundsOf(told)
             r1 == RoundsOf(told')
  <2>1. /\ o <=> round > 0 /\ \A i \in 1..Len(told) : told[i].round # round
        /\ o1 <=> round' > 0 /\ \A i \in 1..Len(told') : told'[i].round # round'
    BY DEF Base, Types, Open, Range
  <2>2. round \in Nat /\ told \in Seq(Reports) /\ strayed \in BOOLEAN
    BY DEF Base, Types, Network, RoundIds
  <2>3. CASE requested' = requested + 1 /\ UNCHANGED <<round, told, strayed>>
    BY <2>3 DEF R!Next, R!Request
  <2>4. CASE /\ round < requested /\ round' = round + 1
             /\ UNCHANGED <<requested, told, strayed>>
    <3>1. \A i \in 1..Len(told) : told[i].round # round + 1 BY <2>2 DEF Base, Counted
    <3>2. o1 = TRUE BY <2>1, <2>2, <2>4, <3>1
    <3> QED BY <2>4, <3>2 DEF R!Next, R!Begin, Open
  <2>5. CASE /\ round > 0
             /\ strayed \/ \A i \in 1..Len(told) : told[i].round # round
             /\ told' = Append(told, RoundComplete(round, sensors, sensors))
             /\ UNCHANGED <<requested, round, strayed>>
    <3>1. sensors \in SUBSET Sensors BY DEF Base, Types
    <3>2. /\ RoundComplete(round, sensors, sensors) \in Reports
          /\ RoundComplete(round, sensors, sensors).round = round
          /\ Len(told') = Len(told) + 1 /\ Len(told) \in Nat
          /\ told'[Len(told) + 1].round = round
      BY <2>5, <3>1, ReportAppended DEF Base, RoundComplete
    <3>3. r1 = Append(r, round) BY <2>2, <2>5, <3>2, RoundsOfAppend, ZenonT(40)
    <3>4. o1 = FALSE BY <2>1, <2>5, <3>2
    <3>5. o \in BOOLEAN BY DEF Open
    <3>6. CASE o = TRUE BY <2>5, <3>3, <3>4, <3>6 DEF R!Next, R!Finish, Open, RoundsOf
    <3>7. CASE o = FALSE
      <4>1. strayed = TRUE BY <2>1, <2>2, <2>5, <3>7
      <4> QED BY <2>5, <3>3, <3>4, <3>7, <4>1 DEF R!Next, R!FinishAgain, Open, RoundsOf
    <3> QED BY <3>5, <3>6, <3>7
  <2>6. CASE strayed' = TRUE /\ UNCHANGED <<requested, round, told>>
    BY <2>6 DEF R!Next, R!Disturb
  <2>7. CASE UNCHANGED <<requested, round, told, strayed>> BY <2>7 DEF R!vars
  <2> QED BY <2>3, <2>4, <2>5, <2>6, <2>7, RoundStep
<1> QED BY <1>1, <1>2, RoundInvariant, PTL DEF Spec, ImplementsRounds, R!Spec
-----------------------------------------------------------------------------
(* Theorem: every variable of coordinator, sensors and messages has its      *)
(* type; an update, a base and a tag always name a round that was asked for, *)
(* also in messages that come late (coordinator.go:147-325,                  *)
(* sensor.go:102-318, remote_ref.go:68-83).                                  *)
THEOREM TypeCorrect == Spec => []TypeOK
<1>1. Base => TypeOK
  <2> SUFFICES ASSUME Base PROVE TypeOK OBVIOUS
  <2>1. Range(coordMailbox) \subseteq CoordMessages
    <3>1. coordMailbox \in Seq(CoordMessages) BY DEF Base, Types
    <3> QED BY <3>1 DEF Range
  <2>2. \A s \in Sensors : Range(sensorMailbox[s]) \subseteq SensorMessages
    <3>1. \A s \in Sensors : sensorMailbox[s] \in Seq(SensorMessages) BY DEF Base, Types
    <3> HIDE DEF SensorMessages
    <3> QED BY <3>1 DEF Range
  <2>3. sensorLate \in [Sensors -> SUBSET [call : 0..MaxFaults[remote], msg : SensorMessages]]
    <3>1. Lates \subseteq [call : 0..MaxFaults[remote], msg : SensorMessages]
      BY OrderForms DEF Lates
    <3> QED BY <3>1 DEF Base, Network
  <2> QED BY <2>1, <2>2, <2>3 DEF TypeOK, Base, Types, Network
<1> QED BY <1>1, BaseHolds, PTL
=============================================================================
