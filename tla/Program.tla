------------------------------- MODULE Program -------------------------------
(* cmd/demo and cmd/coordinator-service: the process around the federated    *)
(* rounds.  main starts a round, polls the logger until it has logged it or  *)
(* a deadline passes, and has the global model evaluated; coordinator,       *)
(* logger and device controller save their state through a shared Persister  *)
(* (only in the demo), and a process that crashes or ends may be started     *)
(* again and finds the files of the earlier ones.                            *)
(*                                                                           *)
(* The rounds promise what Rounds says (FederatedRound opens that box): a    *)
(* round that was begun may complete, once and before the next begins.       *)
(* Weights are the number of the round that produced them, 0 at first; the   *)
(* settings of the devices and the metrics of a model are its weights.  The  *)
(* sensor that the demo makes crash is one of the crashes of FederatedRound. *)
EXTENDS Integers, Sequences, SequencesExt, FiniteSets

CONSTANTS Programs,     \* programs to consider
          Sensors,      \* sensors of the house
          NumRounds,    \* rounds in the configuration of each process
          DeviceTypes,  \* devices the controller reports on
          MaxFaults     \* bound: crashes of a process and failing saves

ASSUME ProgramAssumption == /\ Programs \subseteq {"demo", "service"}
                            /\ IsFiniteSet(Sensors)
                            /\ NumRounds \in Seq(Nat)
                            /\ IsFiniteSet(DeviceTypes)
                            /\ MaxFaults \in Nat

VARIABLES
  program,        \* the program that runs
  up,             \* its process runs
  pc,             \* where main is
  expected,       \* main's round
  results,        \* main's results
  coordWeights,   \* main's coordWeights
  coordMailbox,   \* coordinator: mailbox
  c,              \* and fields; open: the current round may yet complete
  loggerMailbox,  \* logger: mailbox
  l,              \* and fields
  deviceMailbox,  \* device controller: mailbox
  d,              \* and settings of room "all"
  evalMailbox,    \* evaluator: mailbox
  save,           \* where the owner of each file is in Persister.Save
  toAppend,       \* the logger has a metrics line to append after its save
  disk,           \* the files <id>.json
  jsonl,          \* the lines of logger-metrics.jsonl
  starts,         \* processes started so far
  faults,         \* crashes and failed saves so far
  failed,         \* history: files for which a save has failed
  restored        \* history: this process found a saved file

mainVars   == <<pc, expected, results, coordWeights>>
coordVars  == <<coordMailbox, c>>
loggerVars == <<loggerMailbox, l>>
deviceVars == <<deviceMailbox, d>>
actorVars  == <<coordVars, loggerVars, deviceVars, evalMailbox>>
fileVars   == <<disk, jsonl>>
saveVars   == <<save, toAppend, fileVars>>
histVars   == <<program, up, starts, faults, failed, restored>>
vars == <<mainVars, actorVars, saveVars, histVars>>

Files == {"coordinator", "logger", "device-ctrl"}

(* What each owner starts with when it finds no file. *)
NewCoordinator == [round |-> 0, weights |-> 0, sensors |-> {}]
NewLogger      == [rounds |-> <<>>, metrics |-> <<>>]
New(f) == CASE f = "coordinator" -> NewCoordinator
            [] f = "logger"      -> NewLogger
            [] OTHER             -> 0

Whole(x)   == [state |-> "whole", data |-> x]
Missing(f) == [state |-> "missing", data |-> New(f)]
Torn(f)    == [state |-> "torn", data |-> New(f)]

(* What an owner saves: its fields.  It does nothing else until it has saved.*)
Memory(f) ==
  CASE f = "coordinator" -> [round |-> c.round, weights |-> c.weights, sensors |-> c.sensors]
    [] f = "logger"      -> l
    [] f = "device-ctrl" -> d

(* Load fails for a file that is missing or does not parse; then the owner   *)
(* starts anew.  (A file that is there but cannot be read would be treated   *)
(* like a missing one; such errors of the file system are left out.)         *)
Load(f) == IF disk[f].state = "whole" THEN disk[f].data ELSE New(f)

(* A coordinator with the fields s; no round of it is under way. *)
Resume(s) == [round |-> s.round, weights |-> s.weights, sensors |-> s.sensors,
                open |-> FALSE]

RoundComplete(r)  == [type |-> "RoundComplete", round |-> r]
LogMetrics(r, w)  == [type |-> "LogMetrics", round |-> r, weights |-> w]
DeviceStatus      == [type |-> "DeviceStatus"]

-----------------------------------------------------------------------------
(* No process, and no file: the first one is about to be started. *)
Init == /\ program \in Programs
        /\ up = FALSE
        /\ pc = "start" /\ expected = 1 /\ results = <<>>
        /\ coordWeights = 0
        /\ coordMailbox = <<>> /\ c = Resume(NewCoordinator)
        /\ loggerMailbox = <<>> /\ l = NewLogger
        /\ deviceMailbox = <<>> /\ d = 0
        /\ evalMailbox = <<>>
        /\ save = [f \in Files |-> "idle"]
        /\ toAppend = FALSE
        /\ disk = [f \in Files |-> Missing(f)]
        /\ jsonl = <<>>
        /\ starts = 0 /\ faults = 0 /\ failed = {} /\ restored = FALSE

Idle(f) == up /\ save[f] = "idle"

(* A process is started; the actors load their state before they take their  *)
(* first message (OnPreStart) and long before main looks at their fields.    *)
Start ==
  /\ ~up
  /\ starts < Len(NumRounds)
  /\ up' = TRUE
  /\ starts' = starts + 1
  /\ c' = Resume(Load("coordinator"))
  /\ l' = Load("logger")
  /\ d' = Load("device-ctrl")
  /\ restored' = \E f \in Files : disk[f].state = "whole"
  /\ UNCHANGED <<mainVars, coordMailbox, loggerMailbox, deviceMailbox,
                 evalMailbox, saveVars, program, faults, failed>>

(* The process is gone: everything but the files. *)
Gone == /\ up' = FALSE
        /\ pc' = "start" /\ expected' = 1 /\ results' = <<>>
        /\ coordWeights' = 0
        /\ coordMailbox' = <<>> /\ c' = Resume(NewCoordinator)
        /\ loggerMailbox' = <<>> /\ l' = NewLogger
        /\ deviceMailbox' = <<>> /\ d' = 0
        /\ evalMailbox' = <<>>
        /\ save' = [f \in Files |-> "idle"] /\ toAppend' = FALSE
        /\ restored' = FALSE
        /\ UNCHANGED <<program, starts, failed>>

(* The process is killed, in the middle of anything. *)
Crash == /\ up
         /\ faults < MaxFaults
         /\ faults' = faults + 1
         /\ Gone
         /\ UNCHANGED fileVars

(* main is over and Shutdown has waited for the handlers in progress. *)
Exit == /\ up
        /\ pc \in {"done", "panic"}
        /\ \A f \in Files : save[f] = "idle"
        /\ ~toAppend
        /\ Gone
        /\ UNCHANGED <<fileVars, faults>>

-----------------------------------------------------------------------------
(* main.  The demo announces its sensors; the service waits until enough     *)
(* have announced themselves, but not longer than half a minute.             *)
RegisterSensors ==
  /\ up /\ pc = "start"
  /\ program = "demo"
  /\ coordMailbox' = coordMailbox \o SetToSeq({<<"RegisterSensor", s>> : s \in Sensors})
  /\ pc' = "round"
  /\ UNCHANGED <<expected, results, coordWeights, c, loggerVars, deviceVars,
                 evalMailbox, saveVars, histVars>>

WaitForSensors ==
  /\ up /\ pc = "start"
  /\ program = "service"
  /\ pc' = "round"
  /\ UNCHANGED <<expected, results, coordWeights, actorVars, saveVars, histVars>>

(* A sensor process announces its sensor to the service. *)
RemoteRegister(s) ==
  /\ up /\ program = "service"
  /\ s \notin c.sensors
  /\ <<"RegisterSensor", s>> \notin Range(coordMailbox)
  /\ coordMailbox' = Append(coordMailbox, <<"RegisterSensor", s>>)
  /\ UNCHANGED <<mainVars, c, loggerVars, deviceVars, evalMailbox, saveVars,
                 histVars>>

StartRound ==
  /\ up /\ pc = "round"
  /\ expected <= NumRounds[starts]
  /\ coordMailbox' = Append(coordMailbox, <<"StartRound">>)
  /\ pc' = "wait"
  /\ UNCHANGED <<expected, results, coordWeights, c, loggerVars, deviceVars,
                 evalMailbox, saveVars, histVars>>

RoundLoggedAny(rounds) == rounds # <<>>    \* mutant: any round will do

(* LastRound() is the round main waits for. *)
RoundLogged(rounds) == rounds # <<>> /\ Last(rounds) = expected

(* The round is completed: main reads the global weights ... *)
RoundCompleted ==
  /\ up /\ pc = "wait"
  /\ RoundLogged(l.rounds)
  /\ pc' = "weights"
  /\ UNCHANGED <<expected, results, coordWeights, actorVars, saveVars, histVars>>

RoundTimeoutNever == FALSE    \* mutant: main waits without a deadline

(* ... or the deadline passes before main has seen that. *)
RoundTimeout ==
  /\ up /\ pc = "wait"
  /\ expected' = expected + 1
  /\ pc' = "round"
  /\ UNCHANGED <<results, coordWeights, actorVars, saveVars, histVars>>

(* coord.Weights(), and the Ask. *)
AskEvaluator ==
  /\ up /\ pc = "weights"
  /\ coordWeights' = c.weights
  /\ evalMailbox' = Append(evalMailbox, [round |-> expected, weights |-> c.weights])
  /\ pc' = "ask"
  /\ UNCHANGED <<expected, results, coordVars, loggerVars, deviceVars, saveVars,
                 histVars>>

(* The answer has come, in the channel of this Ask; or it has not in time,   *)
(* and main computes the same metrics itself.                                *)
Evaluated ==
  /\ up /\ pc = "ask"
  /\ results' = Append(results, [round |-> expected, weights |-> coordWeights])
  /\ expected' = expected + 1
  /\ pc' = "round"
  /\ UNCHANGED <<coordWeights, actorVars, saveVars, histVars>>

(* After the last round the demo saves a summary, which only main itself     *)
(* loads again; taking the last of no results panics.                        *)
Finish ==
  /\ up /\ pc = "round"
  /\ expected > NumRounds[starts]
  /\ pc' = IF program = "demo" /\ results = <<>> THEN "panic" ELSE "done"
  /\ UNCHANGED <<expected, results, coordWeights, actorVars, saveVars, histVars>>

Main == \/ RegisterSensors \/ WaitForSensors \/ StartRound \/ RoundCompleted
        \/ RoundTimeout \/ AskEvaluator \/ Evaluated \/ Finish

-----------------------------------------------------------------------------
(* persistState: the owner waits for the Persister; without one, as in the   *)
(* service, nothing happens.                                                 *)
Persist(f) == save' = [save EXCEPT ![f] = IF program = "demo" THEN "wait" ELSE "idle"]

CoordinatorTakes(t) ==
  /\ Idle("coordinator")
  /\ coordMailbox # <<>>
  /\ Head(coordMailbox)[1] = t
  /\ coordMailbox' = Tail(coordMailbox)

HandleRegisterSensor ==
  /\ CoordinatorTakes("RegisterSensor")
  /\ c' = [c EXCEPT !.sensors = @ \cup {Head(coordMailbox)[2]}]
  /\ UNCHANGED <<mainVars, loggerVars, deviceVars, evalMailbox, saveVars,
                 histVars>>

(* Without sensors the round is counted and nobody trains. *)
HandleStartRound ==
  /\ CoordinatorTakes("StartRound")
  /\ c' = [c EXCEPT !.round = @ + 1, !.open = c.sensors # {}]
  /\ UNCHANGED <<mainVars, loggerVars, deviceVars, evalMailbox, saveVars,
                 histVars>>

(* The last update of the round is in: aggregateAndFinalise stores the new   *)
(* weights under the lock that main's Weights() takes, ...                   *)
Aggregate ==
  /\ Idle("coordinator")
  /\ c.open
  /\ c' = [c EXCEPT !.weights = c.round, !.open = FALSE]
  /\ save' = [save EXCEPT !["coordinator"] = "tell"]
  /\ UNCHANGED <<mainVars, coordMailbox, loggerVars, deviceVars, evalMailbox, toAppend,
                 fileVars, histVars>>

(* Mutant: the aggregated model is not saved. *)
FinaliseUnsaved ==
  /\ up /\ save["coordinator"] = "tell"
  /\ loggerMailbox' = Append(loggerMailbox, RoundComplete(c.round))
  /\ deviceMailbox' = Append(deviceMailbox, c.round)
  /\ save' = [save EXCEPT !["coordinator"] = "idle"]
  /\ UNCHANGED <<mainVars, coordVars, l, d, evalMailbox, toAppend, fileVars, histVars>>

(* ... tells the logger and the device controller, and saves. *)
Finalise ==
  /\ up /\ save["coordinator"] = "tell"
  /\ loggerMailbox' = Append(loggerMailbox, RoundComplete(c.round))
  /\ deviceMailbox' = Append(deviceMailbox, c.round)
  /\ Persist("coordinator")
  /\ UNCHANGED <<mainVars, coordVars, l, d, evalMailbox, toAppend, fileVars, histVars>>

(* The settings inferred from the model, a report per device, the save. *)
HandleAdjustEnvironment ==
  /\ Idle("device-ctrl")
  /\ deviceMailbox # <<>>
  /\ deviceMailbox' = Tail(deviceMailbox)
  /\ d' = Head(deviceMailbox)
  /\ loggerMailbox' = loggerMailbox \o [i \in 1..Cardinality(DeviceTypes) |-> DeviceStatus]
  /\ Persist("device-ctrl")
  /\ UNCHANGED <<mainVars, coordVars, l, evalMailbox, toAppend, fileVars,
                 histVars>>

(* The evaluator reports the metrics of the model to the logger and replies, *)
(* perhaps too late.                                                         *)
HandleEvaluateModel ==
  /\ up
  /\ evalMailbox # <<>>
  /\ evalMailbox' = Tail(evalMailbox)
  /\ loggerMailbox' = Append(loggerMailbox,
                        LogMetrics(Head(evalMailbox).round, Head(evalMailbox).weights))
  /\ UNCHANGED <<mainVars, coordVars, l, deviceVars, saveVars, histVars>>

(* What Receive of the logger keeps of a message.  (Nobody reads the device  *)
(* reports again, nor the events the supervisor reports.)                    *)
Logged(m) ==
  CASE m.type = "RoundComplete" -> [l EXCEPT !.rounds = Append(@, m.round)]
    [] m.type = "LogMetrics"    -> [l EXCEPT !.metrics = Append(@, <<m.round, m.weights>>)]
    [] m.type = "DeviceStatus"  -> l

(* Mutant: the metrics line is appended before the state is saved. *)
LoggerReceiveAppendFirst ==
  /\ Idle("logger") /\ ~toAppend /\ loggerMailbox # <<>>
  /\ loggerMailbox' = Tail(loggerMailbox)
  /\ l' = Logged(Head(loggerMailbox))
  /\ Persist("logger")
  /\ jsonl' = IF Head(loggerMailbox).type = "LogMetrics" /\ program = "demo"
                THEN Append(jsonl, Last(l'.metrics)) ELSE jsonl
  /\ UNCHANGED <<mainVars, coordVars, deviceVars, evalMailbox, toAppend, disk,
                 histVars>>

(* Every message is kept and saved; metrics are also appended to a log. *)
LoggerReceive ==
  /\ Idle("logger")
  /\ ~toAppend
  /\ loggerMailbox # <<>>
  /\ loggerMailbox' = Tail(loggerMailbox)
  /\ l' = Logged(Head(loggerMailbox))
  /\ Persist("logger")
  /\ toAppend' = (Head(loggerMailbox).type = "LogMetrics" /\ program = "demo")
  /\ UNCHANGED <<mainVars, coordVars, deviceVars, evalMailbox, fileVars, histVars>>

-----------------------------------------------------------------------------
LockedByCaller ==    \* mutant: p.mu is taken by the caller and again by Save
  \E f \in Files : save[f] \in {"wait", "write"}

(* Persister.  p.mu is held from the marshalling to the rename.  The         *)
(* temporary file, whole or not, is of no use to anybody but the rename.     *)
Locked == \E f \in Files : save[f] = "write"

(* Mutant: the file itself is written, not a temporary one. *)
SaveBeginInPlace(f) ==
  /\ up /\ save[f] = "wait" /\ ~Locked
  /\ save' = [save EXCEPT ![f] = "write"]
  /\ disk' = [disk EXCEPT ![f] = Torn(f)]
  /\ UNCHANGED <<mainVars, actorVars, toAppend, jsonl, histVars>>

SaveBegin(f) ==
  /\ up /\ save[f] = "wait"
  /\ ~Locked
  /\ save' = [save EXCEPT ![f] = "write"]
  /\ UNCHANGED <<mainVars, actorVars, toAppend, fileVars, histVars>>

(* The complete temporary file replaces the old one. *)
SaveRename(f) ==
  /\ up /\ save[f] = "write"
  /\ save' = [save EXCEPT ![f] = "idle"]
  /\ disk' = [disk EXCEPT ![f] = Whole(Memory(f))]
  /\ UNCHANGED <<mainVars, actorVars, toAppend, jsonl, histVars>>

(* The write or the rename fails; every caller ignores the error. *)
SaveFails(f) ==
  /\ up /\ save[f] = "write"
  /\ faults < MaxFaults
  /\ faults' = faults + 1
  /\ failed' = failed \cup {f}
  /\ save' = [save EXCEPT ![f] = "idle"]
  /\ UNCHANGED <<mainVars, actorVars, toAppend, fileVars, program, up, starts,
                 restored>>

(* AppendJSON: one write of one line. *)
AppendJSON ==
  /\ Idle("logger")
  /\ toAppend
  /\ ~Locked
  /\ toAppend' = FALSE
  /\ jsonl' = Append(jsonl, Last(l.metrics))
  /\ UNCHANGED <<mainVars, actorVars, save, disk, histVars>>

Coordinator == HandleRegisterSensor \/ HandleStartRound \/ Finalise
Logger      == LoggerReceive \/ AppendJSON
Save(f)     == SaveBegin(f) \/ SaveRename(f) \/ SaveFails(f)

Next == \/ Start \/ Crash \/ Exit
        \/ Main
        \/ Coordinator \/ Aggregate
        \/ HandleAdjustEnvironment \/ HandleEvaluateModel \/ Logger
        \/ \E s \in Sensors : RemoteRegister(s)
        \/ \E f \in Files : Save(f)

Spec == Init /\ [][Next]_vars

(* main, whose waiting has deadlines, and the run loops go on; nobody has to *)
(* start a process, and no round has to complete.                            *)
FairSpec == /\ Spec
            /\ WF_vars(Main)
            /\ WF_vars(Coordinator)
            /\ WF_vars(HandleAdjustEnvironment)
            /\ WF_vars(HandleEvaluateModel)
            /\ WF_vars(Logger)
            /\ \A f \in Files : WF_vars(Save(f))

-----------------------------------------------------------------------------
TotalRounds == FoldSeq(LAMBDA n, sum : n + sum, 0, NumRounds)
RoundIds == 0..TotalRounds
Pairs    == RoundIds \X RoundIds

TypeOK ==
  /\ program \in Programs
  /\ up \in BOOLEAN
  /\ pc \in {"start", "round", "wait", "weights", "ask", "done", "panic"}
  /\ expected \in 1..TotalRounds + 1
  /\ results \in Seq([round : RoundIds, weights : RoundIds])
  /\ coordWeights \in RoundIds
  /\ c \in [round : RoundIds, weights : RoundIds, sensors : SUBSET Sensors, open : BOOLEAN]
  /\ l \in [rounds : Seq(RoundIds), metrics : Seq(Pairs)]
  /\ d \in RoundIds
  /\ deviceMailbox \in Seq(RoundIds)
  /\ evalMailbox \in Seq([round : RoundIds, weights : RoundIds])
  /\ save \in [Files -> {"idle", "tell", "wait", "write"}]
  /\ \A f \in Files : disk[f].state \in {"missing", "torn", "whole"}
  /\ jsonl \in Seq(Pairs)
  /\ starts \in 0..Len(NumRounds)
  /\ faults \in 0..MaxFaults

Saved(f)  == disk[f].data

(* Action property: what is on the disk is never lost again.  A saved file   *)
(* stays readable, the saved round never goes back and the saved log only    *)
(* grows, through crashes in the middle of a save, failing saves and         *)
(* restarts (persister.go:35-54, coordinator.go:82-122, logger.go:36-79).    *)
DurableProgress ==
  [][/\ \A f \in Files : disk[f].state = "whole" => disk'[f].state = "whole"
     /\ Saved("coordinator").round <= Saved("coordinator").round'
     /\ IsPrefix(Saved("logger").rounds, Saved("logger").rounds')]_vars

(* Property: a crash costs the coordinator at most one completed round.  It  *)
(* saves after it has told the logger, and rounds that fail are counted but  *)
(* never saved, yet of the rounds in the log at most one for each process    *)
(* that has run is beyond the saved round (coordinator.go:215, 346-396).     *)
OneRoundAtRisk ==
  "coordinator" \notin failed =>
    LET log == Saved("logger").rounds IN
      Cardinality({i \in 1..Len(log) : log[i] > Saved("coordinator").round}) <= starts

(* Property: in a process that found no saved files, each result is that of  *)
(* the model of its own round, although the weights are read from the        *)
(* coordinator after the round was seen in the logger, and rounds that main  *)
(* has given up may still complete (cmd/demo/main.go:168-241,                *)
(* cmd/coordinator-service/main.go:159-216).                                 *)
EvaluatesItsRound ==
  ~restored =>
    /\ \A i \in 1..Len(results) : results[i].weights = results[i].round
    /\ \A i \in 1..Len(results) - 1 : results[i].round < results[i + 1].round

(* Property: the append-only log holds no metrics that the saved state of    *)
(* the logger lacks (logger.go:105-112).                                     *)
AppendedIsSaved ==
  "logger" \notin failed => Range(jsonl) \subseteq Range(Saved("logger").metrics)

(* Property: main comes to an end whether or not rounds complete and actors  *)
(* answer (cmd/demo/main.go:188-202, 208).                                   *)
MainEnds == up ~> ~up \/ pc \in {"done", "panic"}

(* Property: the model of a completed round gets to the disk, unless the     *)
(* process dies or the write fails: no owner of a file waits forever for the *)
(* Persister (persister.go:36-37, coordinator.go:396).                       *)
RoundIsSaved ==
  \A r \in RoundIds :
    up /\ program = "demo" /\ c.weights = r
      ~> ~up \/ Saved("coordinator").round >= r \/ "coordinator" \in failed

(* Property (stated by Agenti_Keselj_tekst.txt:218, in Serbian: after the    *)
(* system is shut down and started again "the actors continue from the last  *)
(* saved point"): the round main waits for is the one its coordinator runs.  *)
RestartContinues ==
  up /\ pc = "wait" /\ <<"StartRound">> \notin Range(coordMailbox) => expected = c.round
=============================================================================
