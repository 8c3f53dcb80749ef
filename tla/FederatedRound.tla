---------------------------- MODULE FederatedRound ----------------------------
(* smart-home/actors: the coordinator, the sensors and their training        *)
(* goroutines, exchanging messages through FIFO mailboxes                    *)
(* (MessageQueue; a sensor's is unbounded), with sensors that crash and are  *)
(* restarted at any time and a driver that starts a new round when it likes  *)
(* (it gives up waiting after a timeout).                                    *)
(*                                                                           *)
(* In the demo all of them live in one process, with a supervisor and saved  *)
(* states.  In the services each sensor is a process of its own: a Tell over *)
(* gRPC may fail and is never repeated, its message is then lost or arrives  *)
(* later, behind others of the same sender (Remote), and a process that is   *)
(* started again has saved nothing and announces itself again.               *)
(*                                                                           *)
(* Weights are abstracted to the round whose aggregation produced them, 0    *)
(* for the initial ones; trained weights to the weights they started from.   *)
EXTENDS Integers, Sequences, SequencesExt, FiniteSets

CONSTANTS Sensors,     \* sensor actors
          MaxRounds,   \* bound: rounds the driver starts
          MaxFaults    \* bound: crashes of sensors and calls that fail, in
                       \* the demo and in the services

ASSUME RoundAssumption == /\ IsFiniteSet(Sensors)
                          /\ MaxRounds \in Nat
                          /\ MaxFaults \in [BOOLEAN -> Nat]

VARIABLES
  remote,          \* the sensors are processes of their own
  coordMailbox,    \* mailbox of the coordinator
  sensors,         \* c.sensors: registered sensors
  round,           \* c.round
  pendingRound,    \* c.pendingRound
  pendingUpdates,  \* c.pendingUpdates, NoUpdate if a sensor has none
  globalWeights,   \* c.globalWeights
  sensorMailbox,   \* mailbox of each sensor
  up,              \* the sensor is running
  behaviorStack,   \* of its context
  roundID,         \* s.roundID
  saved,           \* s.roundID as persistState has last saved it
  training,        \* the training goroutine of the running instance
  told,            \* what the logger has been told, in order
  requested,       \* rounds the driver has asked for
  announced,       \* sensors the driver has announced to the coordinator
  faults,          \* crashes and failed calls so far
  coordLate,       \* messages of failed calls still on their way to the
  sensorLate,      \* coordinator and to each sensor, with their call
  strayed,         \* history: an outdated StartTraining has been delivered
  baseOf           \* history: the weights each round started from

coordVars  == <<sensors, round, pendingRound, pendingUpdates, globalWeights>>
sensorVars == <<up, behaviorStack, roundID, saved, training>>
driverVars == <<requested, announced>>
netVars    == <<faults, coordLate, sensorLate>>
histVars   == <<remote, netVars, strayed, baseOf>>
vars == <<coordMailbox, coordVars, sensorMailbox, sensorVars, told,
          driverVars, histVars>>

RoundIds == 0..MaxRounds
NoUpdate == -1
Idle     == [round |-> -1, base |-> -1]

(* The messages. *)
SensorInfo(s)         == [type |-> "RegisterSensor", from |-> s]
StartRound            == [type |-> "StartRound"]
ModelUpdate(s, r, b)  == [type |-> "ModelUpdate", from |-> s, round |-> r, base |-> b]
StartTraining(r, b)   == [type |-> "StartTraining", round |-> r, base |-> b]
TrainingComplete(r, b) == [type |-> "TrainingComplete", round |-> r, base |-> b]
GlobalModelUpdate(r)  == [type |-> "GlobalModelUpdate", round |-> r]
RoundComplete(r, n, k) == [round |-> r, clients |-> n, registered |-> k]

-----------------------------------------------------------------------------
Init == /\ remote \in BOOLEAN
        /\ coordMailbox = <<>>
        /\ sensors = {}
        /\ round = 0
        /\ pendingRound = 0
        /\ pendingUpdates = [s \in Sensors |-> NoUpdate]
        /\ globalWeights = 0
        /\ sensorMailbox = [s \in Sensors |-> <<>>]
        /\ up = [s \in Sensors |-> TRUE]
        /\ behaviorStack = [s \in Sensors |-> <<>>]
        /\ roundID = [s \in Sensors |-> 0]
        /\ saved = [s \in Sensors |-> 0]
        /\ training = [s \in Sensors |-> Idle]
        /\ told = <<>>
        /\ requested = 0
        /\ announced = {}
        /\ faults = 0
        /\ coordLate = {}
        /\ sensorLate = [s \in Sensors |-> {}]
        /\ strayed = FALSE
        /\ baseOf = [r \in RoundIds |-> 0]

-----------------------------------------------------------------------------
(* A Tell over gRPC that fails, or whose deadline passes, is logged by the   *)
(* sender and forgotten.  Its handler is not stopped by that: the message is *)
(* lost or will be delivered at some later time.                             *)
MayFail(n) == n = 0 \/ (remote /\ faults + n <= MaxFaults[remote])
Late(m) == [call |-> faults, msg |-> m]

TellCoordinator(m) ==
  /\ \/ /\ coordMailbox' = Append(coordMailbox, m)
        /\ UNCHANGED <<faults, coordLate>>
     \/ /\ MayFail(1)
        /\ faults' = faults + 1
        /\ coordLate' \in {coordLate, coordLate \cup {Late(m)}}
        /\ UNCHANGED coordMailbox
  /\ UNCHANGED sensorLate

(* lookupRef fails for a sensor that is down, or the call fails. *)
TellSensors(ss, m) ==
  /\ \E failed \in SUBSET ss : \E delayed \in SUBSET {s \in failed : up[s]} :
       /\ MayFail(Cardinality(failed))
       /\ faults' = faults + Cardinality(failed)
       /\ sensorMailbox' = [s \in Sensors |-> IF s \in ss \ failed /\ up[s]
                                                THEN Append(sensorMailbox[s], m)
                                                ELSE sensorMailbox[s]]
       /\ sensorLate' = [s \in Sensors |-> IF s \in delayed
                                             THEN sensorLate[s] \cup {Late(m)}
                                             ELSE sensorLate[s]]
  /\ UNCHANGED coordLate

(* The message of a failed call arrives after all. *)
LateToCoordinator ==
  \E l \in coordLate :
    /\ coordMailbox' = Append(coordMailbox, l.msg)
    /\ coordLate' = coordLate \ {l}
    /\ UNCHANGED <<coordVars, sensorMailbox, sensorVars, told, driverVars,
                   remote, faults, sensorLate, strayed, baseOf>>

(* A request to train that arrives when the next round has begun. *)
Outdated(m) == m.type = "StartTraining" /\ m.round < round

LateToSensor(s) ==
  \E l \in sensorLate[s] :
    /\ sensorMailbox' = [sensorMailbox EXCEPT ![s] = Append(@, l.msg)]
    /\ sensorLate' = [sensorLate EXCEPT ![s] = @ \ {l}]
    /\ strayed' = (strayed \/ Outdated(l.msg))
    /\ UNCHANGED <<coordMailbox, coordVars, sensorVars, told, driverVars,
                   remote, faults, coordLate, baseOf>>

(* RegisterSensor and StartRound only send a message: the driver announces   *)
(* its sensors, or a sensor process itself.                                  *)
RegisterSensor(s) ==
  /\ s \notin announced
  /\ remote => up[s]
  /\ announced' = announced \cup {s}
  /\ TellCoordinator(SensorInfo(s))
  /\ UNCHANGED <<coordVars, sensorMailbox, sensorVars, told, requested,
                 remote, strayed, baseOf>>

DriverStartRound ==
  /\ requested < MaxRounds
  /\ requested' = requested + 1
  /\ coordMailbox' = Append(coordMailbox, StartRound)
  /\ UNCHANGED <<coordVars, sensorMailbox, sensorVars, told, announced,
                 histVars>>

-----------------------------------------------------------------------------
(* The coordinator. *)
HandleRegisterSensor ==
  /\ coordMailbox # <<>>
  /\ Head(coordMailbox).type = "RegisterSensor"
  /\ coordMailbox' = Tail(coordMailbox)
  /\ sensors' = sensors \cup {Head(coordMailbox).from}
  /\ UNCHANGED <<round, pendingRound, pendingUpdates, globalWeights, sensorMailbox,
                 sensorVars, told, driverVars, histVars>>

(* Mutant: the updates of the previous round are kept. *)
HandleStartRoundKeep ==
  /\ coordMailbox # <<>> /\ Head(coordMailbox) = StartRound
  /\ coordMailbox' = Tail(coordMailbox)
  /\ round' = round + 1
  /\ pendingRound' = round + 1
  /\ baseOf' = [baseOf EXCEPT ![round + 1] = globalWeights]
  /\ TellSensors(sensors, StartTraining(round + 1, globalWeights))
  /\ UNCHANGED <<sensors, pendingUpdates, globalWeights, sensorVars, told,
                 driverVars, remote, strayed>>

(* A new round begins, with no updates; every sensor that can be found is    *)
(* told to train.                                                            *)
HandleStartRound ==
  /\ coordMailbox # <<>>
  /\ Head(coordMailbox) = StartRound
  /\ coordMailbox' = Tail(coordMailbox)
  /\ round' = round + 1
  /\ pendingRound' = round + 1
  /\ pendingUpdates' = [s \in Sensors |-> NoUpdate]
  /\ baseOf' = [baseOf EXCEPT ![round + 1] = globalWeights]
  /\ TellSensors(sensors, StartTraining(round + 1, globalWeights))
  /\ UNCHANGED <<sensors, globalWeights, sensorVars, told, driverVars, remote, strayed>>

IsStaleNever(u) == FALSE     \* mutant: updates of any round are accepted

(* handleModelUpdate ignores an update for another round than the pending.   *)
IsStale(u) == u.round # pendingRound

HandleStaleUpdate ==
  /\ coordMailbox # <<>>
  /\ Head(coordMailbox).type = "ModelUpdate"
  /\ IsStale(Head(coordMailbox))
  /\ coordMailbox' = Tail(coordMailbox)
  /\ UNCHANGED <<coordVars, sensorMailbox, sensorVars, told, driverVars,
                 histVars>>

Received(updates) == {s \in Sensors : updates[s] # NoUpdate}

CompleteButOne(updates) ==   \* mutant: off by one
  Cardinality(Received(updates)) + 1 >= Cardinality(sensors)

(* received >= total *)
Complete(updates) == Cardinality(Received(updates)) >= Cardinality(sensors)

(* aggregateAndFinalise: new global weights, which go to all registered      *)
(* sensors, and a RoundComplete for the logger.  (Every sensor trains on at  *)
(* least one sample, so there is something to average; the command for the   *)
(* device controller and the save are in Program.)                           *)
AggregateAndFinalise(updates) ==
  /\ globalWeights' = round
  /\ TellSensors(sensors, GlobalModelUpdate(round))
  /\ told' = Append(told, RoundComplete(round, Received(updates), sensors))

(* An update of the pending round is stored under its sensor; if it is the   *)
(* last one, the round is over.                                              *)
HandleModelUpdate ==
  LET u == Head(coordMailbox)
      updates == [pendingUpdates EXCEPT ![u.from] = u.base]
  IN
  /\ coordMailbox # <<>>
  /\ u.type = "ModelUpdate"
  /\ ~IsStale(u)
  /\ coordMailbox' = Tail(coordMailbox)
  /\ pendingUpdates' = updates
  /\ \/ /\ ~Complete(updates)
        /\ UNCHANGED <<globalWeights, sensorMailbox, told, netVars>>
     \/ /\ Complete(updates)
        /\ AggregateAndFinalise(updates)
  /\ UNCHANGED <<sensors, round, pendingRound, sensorVars, driverVars,
                 remote, strayed, baseOf>>

-----------------------------------------------------------------------------
(* The context of a sensor: the behavior on top of its stack gets a message, *)
(* Receive (here "idle") if there is none.                                   *)
Become(stack, b) == Append(stack, b)
Unbecome(stack)  == IF stack = <<>> THEN stack ELSE Front(stack)
Behavior(s)      == IF behaviorStack[s] = <<>> THEN "idle" ELSE Last(behaviorStack[s])

(* A sensor takes the next message of its mailbox. *)
Takes(s, t) ==
  /\ up[s]
  /\ sensorMailbox[s] # <<>>
  /\ Head(sensorMailbox[s]).type = t
  /\ sensorMailbox' = [sensorMailbox EXCEPT ![s] = Tail(@)]

(* Idle: StartTraining changes the behavior and starts the goroutine. *)
HandleStartTraining(s) ==
  LET m == Head(sensorMailbox[s]) IN
  /\ Takes(s, "StartTraining")
  /\ Behavior(s) = "idle"
  /\ behaviorStack' = [behaviorStack EXCEPT ![s] = Become(@, "training")]
  /\ roundID' = [roundID EXCEPT ![s] = m.round]
  /\ training' = [training EXCEPT ![s] = [round |-> m.round, base |-> m.base]]
  /\ UNCHANGED <<coordMailbox, coordVars, up, saved, told, driverVars, histVars>>

(* trainingBehavior ignores another StartTraining. *)
IgnoreStartTraining(s) ==
  /\ Takes(s, "StartTraining")
  /\ Behavior(s) = "training"
  /\ UNCHANGED <<coordMailbox, coordVars, sensorVars, told, driverVars, histVars>>

(* Both behaviors take over the round of the global model.  (And the model,  *)
(* but s.weights is only saved and restored, never read.)                    *)
HandleGlobalModelUpdate(s) ==
  LET m == Head(sensorMailbox[s]) IN
  /\ Takes(s, "GlobalModelUpdate")
  /\ Behavior(s) \in {"idle", "training"}
  /\ roundID' = [roundID EXCEPT ![s] = m.round]
  /\ UNCHANGED <<coordMailbox, coordVars, up, behaviorStack, saved, training,
                 told, driverVars, histVars>>

(* The goroutine is done and tells the instance that started it. *)
Train(s) ==
  /\ training[s] # Idle
  /\ training' = [training EXCEPT ![s] = Idle]
  /\ sensorMailbox' = [sensorMailbox EXCEPT ![s] =
                         Append(@, TrainingComplete(training[s].round, training[s].base))]
  /\ UNCHANGED <<coordMailbox, coordVars, up, behaviorStack, roundID, saved,
                 told, driverVars, histVars>>

(* Mutant: only one behavior is popped. *)
HandleTrainingCompleteStays(s) ==
  LET m == Head(sensorMailbox[s]) IN
  /\ Takes(s, "TrainingComplete") /\ Behavior(s) = "training"
  /\ TellCoordinator(ModelUpdate(s, roundID[s], m.base))
  /\ saved' = [saved EXCEPT ![s] = roundID[s]]
  /\ behaviorStack' = [behaviorStack EXCEPT ![s] = Unbecome(Become(@, "sending"))]
  /\ UNCHANGED <<coordVars, up, roundID, training, told, driverVars,
                 remote, strayed, baseOf>>

(* trainingBehavior: processSendResults sends the trained weights, tagged    *)
(* with the current s.roundID, and saves the state (a remote sensor has no   *)
(* Persister); both behaviors are popped.                                    *)
HandleTrainingComplete(s) ==
  LET m == Head(sensorMailbox[s]) IN
  /\ Takes(s, "TrainingComplete")
  /\ Behavior(s) = "training"
  /\ TellCoordinator(ModelUpdate(s, roundID[s], m.base))
  /\ saved' = IF remote THEN saved ELSE [saved EXCEPT ![s] = roundID[s]]
  /\ behaviorStack' = [behaviorStack EXCEPT ![s] = Unbecome(Unbecome(Become(@, "sending")))]
  /\ UNCHANGED <<coordVars, up, roundID, training, told, driverVars,
                 remote, strayed, baseOf>>

(* The sensor panics, or its process dies: the instance and its mailbox are  *)
(* lost, with what is still on its way to that process, and its training     *)
(* goroutine talks at most to that mailbox.                                  *)
Crash(s) ==
  /\ up[s]
  /\ faults < MaxFaults[remote]
  /\ faults' = faults + 1
  /\ up' = [up EXCEPT ![s] = FALSE]
  /\ sensorMailbox' = [sensorMailbox EXCEPT ![s] = <<>>]
  /\ training' = [training EXCEPT ![s] = Idle]
  /\ behaviorStack' = [behaviorStack EXCEPT ![s] = <<>>]
  /\ roundID' = [roundID EXCEPT ![s] = 0]
  /\ sensorLate' = [sensorLate EXCEPT ![s] = {}]
  /\ UNCHANGED <<coordMailbox, coordVars, saved, told, driverVars, remote,
                 coordLate, strayed, baseOf>>

(* A new instance; OnPreStart restores what was saved, if anything. *)
NewInstance(s) ==
  /\ ~up[s]
  /\ up' = [up EXCEPT ![s] = TRUE]
  /\ roundID' = [roundID EXCEPT ![s] = saved[s]]
  /\ UNCHANGED <<coordMailbox, coordVars, sensorMailbox, behaviorStack, saved,
                 training, told, requested, histVars>>

(* The supervisor restarts its sensor. *)
Restart(s) == ~remote /\ NewInstance(s) /\ UNCHANGED announced

(* The process of a sensor is started again. *)
RestartProcess(s) == remote /\ NewInstance(s) /\ announced' = announced \ {s}

-----------------------------------------------------------------------------
Coordinator == \/ HandleRegisterSensor \/ HandleStartRound
               \/ HandleStaleUpdate \/ HandleModelUpdate

Sensor(s) == \/ HandleStartTraining(s) \/ IgnoreStartTraining(s)
             \/ HandleGlobalModelUpdate(s) \/ HandleTrainingComplete(s)

Next == \/ DriverStartRound
        \/ Coordinator
        \/ LateToCoordinator
        \/ \E s \in Sensors : \/ RegisterSensor(s) \/ LateToSensor(s)
                              \/ Sensor(s) \/ Train(s)
                              \/ Crash(s) \/ Restart(s) \/ RestartProcess(s)

Spec == Init /\ [][Next]_vars

(* Run loops and training goroutines go on; a supervisor restarts a crashed  *)
(* sensor (Supervision).  The driver, new processes, faults and the arrival  *)
(* of late messages are free.                                                *)
FairSpec == /\ Spec
            /\ WF_vars(Coordinator)
            /\ \A s \in Sensors : WF_vars(Sensor(s)) /\ WF_vars(Train(s)) /\ WF_vars(Restart(s))

-----------------------------------------------------------------------------
CoordMessages  == {StartRound} \cup {SensorInfo(s) : s \in Sensors}
                  \cup {ModelUpdate(s, r, b) : s \in Sensors, r \in RoundIds, b \in RoundIds}
SensorMessages == {StartTraining(r, b) : r \in RoundIds, b \in RoundIds}
                  \cup {TrainingComplete(r, b) : r \in RoundIds, b \in RoundIds}
                  \cup {GlobalModelUpdate(r) : r \in RoundIds}

TypeOK ==
  /\ Range(coordMailbox) \subseteq CoordMessages
  /\ sensors \subseteq Sensors
  /\ round \in RoundIds
  /\ pendingRound \in RoundIds
  /\ pendingUpdates \in [Sensors -> RoundIds \cup {NoUpdate}]
  /\ globalWeights \in RoundIds
  /\ \A s \in Sensors : Range(sensorMailbox[s]) \subseteq SensorMessages
  /\ up \in [Sensors -> BOOLEAN]
  /\ behaviorStack \in [Sensors -> {<<>>, <<"training">>}]
  /\ roundID \in [Sensors -> RoundIds]
  /\ saved \in [Sensors -> RoundIds]
  /\ training \in [Sensors -> [round : RoundIds, base : RoundIds] \cup {Idle}]
  /\ requested \in RoundIds
  /\ remote \in BOOLEAN
  /\ faults \in 0..MaxFaults[remote]
  /\ \A l \in coordLate : l.msg \in CoordMessages
  /\ sensorLate \in [Sensors -> SUBSET [call : 0..MaxFaults[remote], msg : SensorMessages]]
  /\ strayed \in BOOLEAN

(* The updates of the current round, on their way and at hand, were trained  *)
(* from the weights the round started from.                                  *)
SentShareBase ==
  \A m \in Range(coordMailbox) :
    m.type = "ModelUpdate" /\ m.round = pendingRound => m.base = baseOf[pendingRound]
PendingShareBase ==
  \A s \in Sensors :
    pendingUpdates[s] # NoUpdate => pendingUpdates[s] = baseOf[pendingRound]

(* Property: the updates that FedAvg averages all start from one model, the  *)
(* one their round began with, although an update is tagged with s.roundID   *)
(* at the time of sending, which a GlobalModelUpdate may overwrite during    *)
(* training (sensor.go:132-133, 293, 314), and although rounds overlap,      *)
(* sensors crash, and messages of failed calls are lost or arrive late, in   *)
(* any order: updates, registrations and global models rounds later, and a   *)
(* StartTraining within its round.                                           *)
(*                                                                           *)
(* A StartTraining that arrives in a later round breaks it                   *)
(* (remote_ref.go:77-79): its sensor trains from old weights, the next       *)
(* GlobalModelUpdate moves the tag to a newer round, and the coordinator,    *)
(* which compares the tag only (coordinator.go:268-274), takes the update    *)
(* for one of that round.                                                    *)
UpdatesShareBase == ~strayed => SentShareBase /\ PendingShareBase

(* Property: the rounds keep the promise of Rounds, where a round is over    *)
(* when the logger has been told: each is completed at most once and in      *)
(* order.  No late or repeated update completes a round again, although      *)
(* aggregation clears neither pendingRound nor pendingUpdates                *)
(* (coordinator.go:213-225, 268-285, 290-397).  The update that an outdated  *)
(* StartTraining brings about does: it may carry the tag of a round that is  *)
(* complete already, and with the updates that were kept it is so again.     *)
R == INSTANCE Rounds WITH told <- [i \in 1..Len(told) |-> told[i].round],
                          open <- round > 0 /\ \A m \in Range(told) : m.round # round,
                          disturbed <- strayed

ImplementsRounds == R!Spec

(* Property: an average is taken over exactly the sensors registered then;   *)
(* received >= total compares two counts only (coordinator.go:276-283).      *)
EverySensorCounts ==
  \A m \in Range(told) : m.clients = m.registered

(* A sensor that will train for round r, does so, or has done it. *)
StartsIn(s) == SelectSeq(sensorMailbox[s], LAMBDA m : m.type = "StartTraining")
Busy(s) == \/ training[s] # Idle
           \/ \E m \in Range(sensorMailbox[s]) : m.type = "TrainingComplete"
Participates(s, r) ==
  /\ up[s]
  /\ \/ ~Busy(s) /\ StartsIn(s) # <<>> /\ Head(StartsIn(s)).round = r
     \/ training[s].round = r
     \/ \E m \in Range(sensorMailbox[s]) : m.type = "TrainingComplete" /\ m.round = r
     \/ \E m \in Range(coordMailbox) : m.type = "ModelUpdate" /\ m.from = s /\ m.round = r
     \/ pendingUpdates[s] # NoUpdate

(* Property: in one process, a round for which every sensor of the house is  *)
(* at work is completed and logged, unless a sensor crashes or the next      *)
(* round begins: also after earlier crashes, lost rounds and ignored         *)
(* StartTrainings (coordinator.go:213-286, sensor.go:118-141).               *)
RoundCompletes ==
  \A r \in 1..MaxRounds :
    ~remote /\ sensors = Sensors /\ pendingRound = r /\ (\A s \in Sensors : Participates(s, r))
      ~> \/ \E m \in Range(told) : m.round = r
         \/ pendingRound # r
         \/ \E s \in Sensors : ~up[s]
=============================================================================
