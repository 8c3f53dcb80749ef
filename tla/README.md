# Agenti: actor framework and federated learning, in TLA+

Agenti is a small actor framework in Go (`src/actor-framework`) and a smart
home built on it in which rooms train a shared model by federated averaging
(`src/smart-home`, programs in `src/cmd`). This directory holds TLA+ modules for
the parts whose correctness depends on the order in which things happen, TLC
configurations that check them on small instances, and TLAPS proofs of what they
guarantee for instances of every size. `PROJECT.json` maps every definition to the
lines it models.

## Inventory of the system

| Component | State | Operations | What is hard, what makes it correct |
|---|---|---|---|
| Mailbox (`mailbox.go`) | a Go channel, two counters; unbounded: two channels and a buffer | `Enqueue`, receive from `C()`, `Close`, the pump goroutine | senders interleave inside `Enqueue`; a FIFO queue that loses messages only as its strategy says; `Enqueue` ends |
| Actor system (`system.go`) | registry `actors`, WaitGroup, `closed` | `Spawn`, `StopActor`, `RestartActor`, `Shutdown`, `runActor`, `handleActorFailure` | every call runs on any goroutine and is several critical sections; registry and goroutines agree, failures are reported after removal, Shutdown waits and returns |
| References, context (`actor.go`, `context.go`) | mailbox reference; behavior stack | `Tell`, `Ask`, `Stop`; `Become`, `Unbecome`, `dispatch` | Ask's deadline against a late reply |
| Supervision (`supervision/`) | factories, failure tracker, timers | `Register`, `Unregister`, failure handling, delayed restart, heartbeat | notices, timers and commands in any order; one recovery at a time, limits take effect |
| Remote (`remote/`) | gRPC connections, type registry | remote `Tell` and `Ask`, server dispatch | timeouts, lost calls, reordering |
| Coordinator (`coordinator.go`) | sensors, round, pending updates, global weights | register, start round, collect updates, aggregate, save | late and missing updates, overlapping rounds |
| Sensor (`sensor.go`) | behavior, round, weights, a training goroutine | train, send results, take over the global model, save | state changes while the goroutine trains; crash and restart |
| Logger, device controller, evaluator | append-only lists; last targets; results | one handler each | who saves what before whom; the log and the saved state agree |
| Persistence (`persister.go`) | files, one lock for all actors | atomic save, load, append | crash during or between two saves; errors that callers ignore |
| Programs (`cmd/`) | a round loop | register, start a round, wait with timeout, evaluate | a round that never completes; reading two actors one after the other; resuming from saved state |
| FedAvg, MLP, metrics | weights in flat slices | predict, train, average, evaluate | updates in place, index arithmetic, map order; the gradient is followed, samples count alike |
| Data, chart | numbers, text | pure | nothing |

Components call each other only through `Tell` (a mailbox), except that the
supervisor calls `RestartActor`, every failing goroutine looks up and tells its
supervisor, and the programs read the logger and the coordinator directly under
their mutexes. The hazards this gives rise to are listed, each at its line, in
`PROJECT.json`.

## Modules

```
MessageQueue        what a mailbox promises
  ^ implemented by
Mailbox             bounded mailbox, step by step
UnboundedMailbox    the pump, step by step

ActorSystem         registry, run loops, Shutdown     MCActorSystem (instances)
Supervision         supervisor and strategies         MCSupervision (instances)

Rounds              what federated rounds promise
  ^ implemented by
FederatedRound      coordinator, sensors; one         MCFederatedRound (instances)
                    process or several

Program             main, logger, devices, evaluator, MCProgram (instances)
                    Persister; process after process
Learning            network, training, averaging,     MCLearning (instances)
                    metrics
Remote              remote references, server, Ask    MCRemote (instances)

XProofs             theorems about module X, for X = Mailbox, UnboundedMailbox,
                    ActorSystem, Supervision, FederatedRound, Program,
                    Learning, Remote
```

The layers use each other's guarantees instead of each other's states.
ActorSystem takes an `Enqueue` as one step, under every strategy, because Mailbox
and UnboundedMailbox implement MessageQueue. Supervision takes "a failed actor is unregistered before
its supervisor hears of it" and "restarting a live actor may find the id taken"
from ActorSystem (`FailedIsGone`, `RestartSpawn`), and a bounded mailbox that
drops from Mailbox. FederatedRound takes FIFO mailboxes from MessageQueue, the
restart of crashed sensors from Supervision (`SupervisedComesBack`), and what a
Tell between processes does from Remote (`AtMostOnce`, `OrderUnlessError`).
Program takes the rounds as what Rounds says, which FederatedRound implements
(`ImplementsRounds`), and Learning opens the weights that both abstract. Remote
takes the actor's mailbox as a queue of MessageQueue.

**MessageQueue.** Six variables: policy, closed, queue, pressed, delivered,
discarded. Accept (only while open), Deliver, Reject (DropNewest, only when full),
QClose. DropOldest is two steps, because it is in the code: Press, where a message
finds the queue full, and Evict, where the queue gives up its head, and only its
head, once for each Press (Relent if it is empty by then). Between the two somebody
else may have made room; so this is weaker than the comment "to make room", and as
much as the code keeps. Abandon lets a closed unbounded queue give up its newest
messages.

**Mailbox.** `ch` is the channel, `pc[s]` where sender `s` is inside `Enqueue`:
`send` before a send (blocking or inside a select), `drain` between the failed
send of DropOldest and its inner select, `countNewest` and `countOldest` before
the atomic addition to `dropped`. A select is one step; everything between two
channel or atomic operations is local. Go's rules for closed channels are
modelled: a send panics (`SendOnClosed`), a receive from an empty closed channel
succeeds (`Drain`). A message is pressed in the abstract queue while its sender is
at `drain`. `received`, `lost` and `fresh` are history; `fresh` holds the senders
that have drained the channel since a message was last put into it.

**UnboundedMailbox.** `PumpTake`, `PumpForward` and `PumpReturn` are the cases of
the pump's receive and select; `StopReading` lets the actor stop reading for
good, which `EnqueueNeverBlocks` must survive. After Close the pump returns with
whatever its buffer holds: the abstract queue is then only what is in `ch`
(`Reachable`), and what is left in the buffer is `Stranded`, which the abstract
queue has discarded by Abandon.

**ActorSystem.** The n-th successful `Spawn` creates instance n; `run[i]` says
where its `runActor` is, from `registered` (in the registry, `go` not yet
executed) over `preStart`, `enqStarted`, `loop`, `stopped` or `failing`,
`lookupSup`, `tellSup` and `removed` (before `wg.Done`) to `exited`. Clients are
the goroutines that call the system, actors' handlers among them: `at[c]` is the
place in the call, `ref[c]` the instance it holds. Each critical section of
`s.mu`, each `Enqueue` and each operation on `wg` and `closed` is a step. An
`Enqueue` of DropOldest drops one message or more, as its loop may. Any hook or
handler may panic, except OnPreRestart: it runs inside `handleActorFailure`, where
its panic is recovered only after an error of OnPreStart (the failure is then
handled again) and otherwise ends the process. A call that fails at its first step
has no effect and is left out. Messages are `Stopping`, `ActorFailed(i)` and
`Plain`. All mailboxes of a system have one configuration, chosen initially,
although `Spawn` takes one for each actor.

**Supervision.** The supervisor's mailbox, the registered factories, the
tracker's time stamps, timers and the actors' status. The strategies are
operators from a failure list to a decision. One unit of the clock is some
seconds, `MaxAge` the 30 seconds of the tracker; an actor's SupervisorID is the
supervisor it is registered with, as everywhere in the repository, so an
escalated failure comes back: `HandleFailure` takes the message and puts the
failure into `escalating`, `DoEscalate` tells it before the next message is taken,
and others may have filled the mailbox in between. Its mailbox has `Capacity` places and drops what
does not fit. `Beat`, `HandleHeartbeatTick`, `AnswerCheck` and `HandleHeartbeat`
are the heartbeat, whose only effect is to fill that mailbox: answers are logged
and nothing else. `excused` records the failures whose recovery was ignored,
dropped or given up. Log events sent to the logger are left out.

**Rounds.** `Request`, `Begin`, `Finish`: a request begins one round, a round is
reported at most once and before the next begins, and need not complete. Once a
request to train has been delivered after its round (`Disturb`), the current round
may be reported again (`FinishAgain`).

**FederatedRound.** Weights are abstracted to the round that produced them and
trained weights to the weights they were trained from (`base`), which is what
`UpdatesShareBase` is about. The driver starts rounds whenever it likes, which
covers its timeouts. `remote` chooses between the demo, where all actors live in
one process and a supervisor restarts sensors with their saved state, and the
services, where a sensor is a process: a Tell to or from it may fail (`MayFail`),
and its process may end and be started again with nothing saved and then announces
itself again. The handler of a failed call may still be on its way, so its message
is lost or waits in `coordLate` or `sensorLate` and is delivered at any later time
(`LateToCoordinator`, `LateToSensor`), behind whatever was sent since. `strayed`
records that a StartTraining was delivered in a later round (`Outdated`). A payload
that fails to encode or to decode is ignored by its receiver and is such a loss.
`behaviorStack` is the stack of the sensor's context, `Become` and `Unbecome` push and pop it. A handler's sends are one step:
each goes to another mailbox and commutes with what the receivers do meanwhile.
`told` is what the logger has been told; in `aggregateAndFinalise` the command to
the device controller and the save are in Program.

**Program.** One process after another over the same files: `Start` loads,
`Crash` loses everything but the files, `Exit` is the orderly end. `pc` is where
main is in its loop; `main` of the demo and of the coordinator service differ in
how sensors are announced (by main, or by their processes; addresses given in the
environment are the same message), in the Persister, which only the demo has, and
in the summary at the end. `Resume` is what the coordinator's constructor makes of a
saved state. `save[f]` is where the owner of a file is in
`persistState`: waiting for the lock, writing, or telling the others before it.
`Aggregate` and `Finalise` are the two halves of `aggregateAndFinalise`, because
main reads the weights in between. `SaveRename` replaces the file; a crash before
it leaves the old one. A crash inside the one write of `AppendJSON` is taken as
before or after it. Reading a file finds it, finds none or finds it torn; other
read errors, which the code treats like a missing file, are left out. Sensors save
their own files, which only they read; that is in FederatedRound.

**Learning.** One round, computed exactly. Floating-point numbers become
integers, the quotients of the average and of the metrics pairs of numerator and
denominator, and the learning rate a multiple of the number of outputs, so that a
training step stays in the integers; rounding to six digits is left out. `Train`
is a step of backpropagation over the flat slices; every sensor draws its own
random start; sensors train concurrently,
and `Aggregate` takes the updates from the map in any order.

**Remote.** Goroutines of one process (`at[c]`) call `Tell`, `Ask` and `Stop` of
one RemoteActorRef; the n-th call of caller c is `<<c, n>>`. `held[c]` is the
client `getClient` gave it, `client` and `open` the reference's connection and
the connections that are open. `handler[i]` is where the server's goroutine for
call i is: on its way (`request`), before `Lookup`, before `Enqueue`, in the
`select` of the local `Ask`. gRPC is external and modelled by what the code
relies on: a request arrives at most once, calls are independent, a call returns
with an error when its deadline passes (at any time), when its connection is lost
or closed, or when there is no server; the handler is not stopped by that.
`replyCh[i]` is the reply channel of the envelope. The actor answers an Ask or
does not. A payload has a kind: of a registered type, of another type, or one
that `json.Marshal` rejects; `Transfer` is what encoding and decoding make of it.

Definitions marked "Mutant" are plausible bugs; they are part of no
specification. Each property has one that makes TLC report it. `TypeOK` of each
module documents its variables; it holds in the instances below and is listed
with the properties only for ActorSystem. It is a theorem for ActorSystem, the two
mailboxes, FederatedRound, Learning and Remote; for Supervision and Program the
inductive invariants contain what they need of it.

## Runs

| Run | Bounds | Shows |
|---|---|---|
| `mailbox_bounded` | 2 senders, 3 messages each, capacity 2 | Conservation, exact drop count, MessageQueue implemented, DropOldest's retries mean progress |
| `mailbox_unbounded` | 2 senders, 3 messages each, channels of 1 | the same for the pump; senders never wait for the actor; nothing stranded |
| `system_supervised` | worker and supervisor, 1 client, 3 calls, capacity 1, DropNewest and DropOldest | registry, WaitGroup and notices consistent |
| `system_shutdown` | 1 id, 2 clients, 2 calls, 1 Tell, the four mailbox configurations | Shutdown waits and returns; only owners remove; Stopping stops |
| `system_spawn_race` | 1 client | **violated**: an actor starts after Shutdown returned |
| `supervision` | 2 actors, 2 failures, 3 commands, 1 heartbeat, 2 time units, mailbox of 2, each strategy | one recovery at a time; no failure is forgotten; it ends as the strategy says |
| `supervision_counting` | 1 actor, OneForOne | **violated**: failures are forgotten at every restart |
| `federated_round` | 2 sensors, 3 rounds; 2 crashes in one process; 1 crash, or 1 failed call whose message is lost or late, between processes | consistent averages, Rounds implemented, rounds complete |
| `remote` | 1 caller, 2 calls of every kind, 2 connections, capacity 1, each strategy | at most once, true answers, overtaking only after an error; calls return, late replies do no harm, the server's shutdown ends |
| `program` | 1 sensor, a process with 2 rounds and one with 1, 1 crash or failing save, both programs | the disk never goes back, at most one completed round is lost, results belong to their rounds, the log and the state agree, main ends, models get saved |
| `program_restart` | the same | **violated**: main of a second process waits for round 1 |
| `learning` | 2 sensors, 4 data sets of 1 or 2 samples, 3 global models, a 2-3-3 network | gradient descent, fair averaging, agreeing metrics, equal units stay equal |

Why the bounds are enough for the questions asked: two senders and capacity two
reach every pair of places in `Enqueue` with the channel empty, partly full and
full, and a message overtaken between the two selects of DropOldest; channels of
one and three messages per sender fill both channels and the buffer of the pump;
three calls give spawn, stop or failure, and a second instance of an id (two
instances of one id are what the registry could confuse), with a supervisor that
itself comes and goes; three rounds and two crashes give a late update of each
earlier round and a sensor that misses one, and one late message can be delivered
in its own round or one or two rounds later; a mailbox of two places is full with
one command and one heartbeat in it, so that every message of a recovery can meet
a full one; a second process after one with two rounds can find each file from
before or after the last round, or not at all, and one fault can fall between any
two steps of a save; a hidden layer of three units has equal, different and dead
ones beside each other, and two data sets of different length weigh differently;
two calls are enough for a handler
that outlives its call beside the next call, for two handlers at a mailbox of
capacity one, and for a reference that is closed and used again. (The safety
properties of Remote were also checked with two callers and with three calls of
one, those of FederatedRound with two failures between processes.) `CHECK_DEADLOCK FALSE` is set
because the bounds, and programs that stop calling, let every model end.

Fairness. Weak fairness of a goroutine's steps stands for the Go scheduler,
which runs what can run; hooks and handlers are assumed to return. Clients have
none for beginning a call, and nothing has to fail. In UnboundedMailbox the two
cases of the pump's select have strong fairness, since Go chooses at random
among ready cases. In FederatedRound a crashed sensor is restarted, which
Supervision shows for a registered one.

Nobody has to start a process or a sensor's process again, and no round has to
complete. In Program main goes on because every wait of it has a deadline
(`RoundTimeout`, the ten seconds of the Ask); Learning has no liveness.

In Remote timers fire and gRPC reports calls that cannot be answered; a silent
loss of the network is covered by the deadlines only.

A mailbox with BlockSender can make its sender wait for ever, when the actor has
left its loop and nobody reads what is in it. `ShutdownReturns` covers this
configuration and names that as its one exception: Shutdown, or an actor it waits
for, is to put a message into such a mailbox (`Unread`, `Awaited`). `CallsReturn`
and `GracefulStopReturns` have the same exception, a handler that `Hangs`; a call
with a deadline returns even then. `StopStops` is stated for unbounded mailboxes,
where Stopping cannot be dropped.

`RetryMeansProgress` says without fairness and without a bound on the number of
calls what the loop of DropOldest owes: a call goes round again only because a
message got into the channel after it had made room. That a single call returns it
does not say; under a steady stream of others it need not. The delivery of late
messages has no fairness. `UpdatesShareBase` and `ImplementsRounds` are stated until
a StartTraining is delivered after its round: from then on the code does not keep
them (see observations).

`SupervisedComesBack` and `EscalationGivesUp` except a full mailbox,
`OneRoundAtRisk` a failing save of the coordinator's file and `AppendedIsSaved`
one of the logger's: there the code promises nothing. `EvaluatesItsRound` is stated for a process that found no files, because
of finding 3. `RoundCompletes` is stated for one process: between processes
nothing is sent again.

## Findings

1. `system.go:310` promises that Shutdown waits for all actors; a Spawn that is
   past its check starts its actor after Shutdown has returned
   (`system_spawn_race`).
2. `strategy.go:29` promises the strategy the number of consecutive failures;
   `supervisor.go:195` resets it at each restart, so limits never take effect
   (`supervision_counting`).
3. `Agenti_Keselj_tekst.txt:218` promises that after a restart the actors go on
   from the last saved point; they do, but main counts its rounds from 1, waits
   for a round its coordinator does not run, and with no results panics at
   `cmd/demo/main.go:266` (`program_restart`).

## Observations without a run

Places where a comment promises more than the code does, or a behaviour that the
models have and no property excludes:

- DropOldest is said to drop the oldest message when the mailbox is full, to make
  room (`mailbox.go:12`, `:18`). Between its two selects (`mailbox.go:128-134`) the
  actor or another sender may make room, and it drops a message all the same
  (`Drain`). A single call can lose the race for the room for ever.
- After Close, Enqueue is said to be a no-op and the consumer channel to be drained
  and closed (`mailbox.go:153`). Enqueue panics (`SendOnClosed`), with BlockSender
  even a call that was waiting; the pump of an unbounded mailbox returns with a non-empty buffer, whose
  messages nobody gets, and never closes the channel (`PumpReturn`, `Stranded`).
  No program of the repository calls Close.
- RestartActor is said to spawn a fresh instance (`system.go:277`); for a live
  actor it stops the old one and then fails, because the id is still taken
  (`RestartSpawn`, `SpawnTaken`).
- Remaining messages are said to be drained at Stopping (`system.go:185`); they
  are left in the mailbox.
- Shutdown waits for ever for room in a full BlockSender mailbox that nobody reads
  any more (`Unread`). No program of the repository uses BlockSender.
- A panic in OnPreRestart, after a panic of its actor, ends the process
  (`system.go:155-162`).
- Ask is said to return a reply or an error (`remote_ref.go:85`); with less than a
  millisecond left it returns the zero Message and a nil error (`AskTooLate`).
- Ask is said to end at its deadline (`actor.go:88`), but a full BlockSender
  mailbox keeps the handler in Enqueue, which is the exception of `CallsReturn` and
  `GracefulStopReturns` (`Hangs`).
- A remote reference is said to be used exactly like a local one
  (`remote_ref.go:43`), but messages of a caller can overtake each other after a
  call that gave up (`OrderUnlessError`), and a reply comes back without its
  message type.
- With such overtaking a StartTraining can reach its sensor after its round (a Tell
  of the coordinator whose deadline has passed is still delivered,
  `remote_ref.go:77-79`). The sensor trains from old weights, the next
  GlobalModelUpdate moves its tag to a newer round, and the coordinator, which
  compares the tag only, averages updates of different models. If that round is
  complete already, the update, together with the others, which were kept, completes
  and reports it a second time (`coordinator.go:268-285`). `Outdated` is the exact
  precondition: until then the properties hold, whatever else is late.
- A state file that cannot be read is treated like a missing one and then
  overwritten by the next save (`logger.go:41`, `coordinator.go:87`).
- A delayed restart also restarts an actor that was unregistered meanwhile
  (`supervisor.go:256`, `HandleDelayedRestart`).
- Answers to the heartbeat are only logged (`supervisor.go:286`): an actor that
  hangs is not noticed.
- The sensor service announces itself once with a Tell whose failure it does not
  see (`sensor-service/main.go:98`): lost, the sensor joins no round.
- The coordinator begins with 0.01 in every weight (`coordinator.go:171`), so all
  hidden units are equal and stay so in every sensor and every average
  (`TwinsStayTwins`): the hidden layer works as one unit.

## Proofs

Eight modules hold theorems about the specifications above, for every value of
their constants. The only assumptions are those the modules state about their
constants (`SystemAssumption`, `MailboxAssumption` and so on): finite sets of
senders, clients, callers or sensors, positive capacities, numbers that are
numbers. Every invariant follows from an inductive one, called `Inv`,
`RegistryInv` or `Counting`, which was checked with TLC on the instances of the runs
(FederatedRound with two sensors, two rounds and one fault, and with one sensor,
three rounds and two faults; Program without the memberships in infinite sets);
each module shows that it holds initially, has one lemma per
action or group of actions, and ends with the theorems.

| Module | Theorem | States |
|---|---|---|
| `ActorSystemProofs` | `TypeCorrect`, `RegistryCorrect`, `WaitGroupCorrect`, `ShutdownCorrect`, `OwnerRemoves`, `NoticeAfterRemoval` | `TypeOK`, `RegistryIdentity`, `WaitGroupExact`, `PromisedHaveExited`, `OnlyOwnerRemoves`, `FailedIsGone` |
| `MailboxProofs` | `NothingVanishes`, `StatsAreExact`, `MailboxIsQueue`, `RetryIsProgress`, `TypeCorrect` | `Conservation`, `DroppedIsExact`, `ImplementsQueue`, `RetryMeansProgress`, `TypeOK` |
| `UnboundedMailboxProofs` | `NothingVanishes`, `UnboundedIsQueue`, `TypeCorrect` | `Conservation`, `ImplementsQueue`, `TypeOK` |
| `SupervisionProofs` | `OneRecoveryAtATime`, `FailuresAreRemembered`, `HealthyInstancesStay` | `RecoveryExclusive`, `NoFailureForgotten`, and that only a failed instance is replaced |
| `FederatedRoundProofs` | `UpdatesAreTrue`, `EverySensorIsAveraged`, `RoundsAreKept`, `TypeCorrect` | `UpdatesShareBase`, `EverySensorCounts`, `ImplementsRounds`, `TypeOK` |
| `ProgramProofs` | `LogFollowsState`, `CrashCostsOneRound`, `ResultsAreOfTheirRound`, `NothingSavedIsLost` | `AppendedIsSaved`, `OneRoundAtRisk`, `EvaluatesItsRound`, `DurableProgress` |
| `LearningProofs` | `HiddenUnitsStayEqual`, `SamplesCountEqually`, `TrainingIsGradientDescent`, `ReportedLossIsTheError`, `SetWeightsExact`, `CountingInvariant`, `LearningTypes` | `TwinsStayTwins`, `EverySampleCounts`, `GradientDescent`, `MetricsAgree` (for three outputs), that taking over a flat vector leaves nothing of the old network, that an update stays true to its sensor, `TypeOK` |
| `RemoteProofs` | `DeliveredAtMostOnce`, `OvertakenOnlyAfterError`, `AnswersTellTheTruth`, `TypeCorrect` | `AtMostOnce`, `OrderUnlessError`, `AnswersAreTrue`, `TypeOK` |

**ActorSystem.** `TypeOK /\ RegistryInv` is inductive. `RegistryInv` adds to
`RegistryIdentity` what a step needs to keep it: instances are numbered in order
of creation (`Fresh`), so a new one is in use nowhere; every started instance has
an id (`Named`) and one that looks up its supervisor has one (`Reporting`); a
client inside a call has an id (`Argued`); and the client between registration
and the `go` statement is the only one to hold that instance (`Starting`,
`StartingOnce`), so no goroutine is started twice. Deletion by id is safe because
a goroutine that deletes is still live, so by `RegistryIdentity` the entry under
its id is its own. `StepMoves` shows that a step moves at most one goroutine,
along `LifeCycle`, and changes the WaitGroup accordingly. `WaitGroupExact`
follows by adding or removing one element of the set of counted instances;
`PromisedHaveExited` because counted instances stay counted until they have
exited, and there is none when Wait returns; `FailedIsGone` because a notice is
sent by an instance that is past its removal, which cannot be undone
(`Reported`, `Progress`).

**Mailbox and UnboundedMailbox.** A sender numbers its messages, so the one it is
trying to enqueue is newer than everything the mailbox has dealt with (`Past`);
hence no message is in the channel twice (`Once`) or both waiting and lost
(`Apart`). With that, each step is at most one of MessageQueue: the step on the
channel is the Accept, Deliver, Reject, Press, Evict or Relent, Close is QClose, all
others stutter. For the pump the abstract queue is the concatenation of channel,
buffer and incoming channel (`Held`), which moving a message between them leaves as
it is, until the pump returns and Abandon cuts it down to the channel
(`Reachable`). `RetryIsProgress` needs that a sender about to send again, having
drained, finds room unless a message was put into the channel since (`Roomy`).

**Supervision.** `Sound`: the failure notices, timers, failures being passed on
and messages about an actor are at most one together, only a failed actor has one, and a failed actor without
one is excused. Every step hands the recovery on, ends it with a new instance or
gives it up.

**FederatedRound.** The invariant has two layers. `Base` holds in every state,
whatever is lost or late: a sensor works or answers only when it is registered, so
updates come from registered sensors only, and `EverySensorCounts` follows, because
equal counts are then equal sets. `Inv` holds
until a StartTraining is delivered after its round, hence always in one process
(`RoundInvariant`). A sensor told to train for round r *owes* r an update, in its
mailbox, its goroutine or its training-complete message, until it has sent it, and
one is *due* already while the late request is on its way (`Due`). While one is due
the round is not complete, so no GlobalModelUpdate of it or of a later round reaches
its sensor; late ones are older (`Delayed`). The tag in `s.roundID` is therefore the
round the sensor was trained for or an older one (`Tagged`, `InOrder`), and what has
an older tag the coordinator ignores. Of the current round it gets at most one
update of each sensor, late or not (`Single`), which is why no round is completed
twice. This is how the code can tag with a field that other messages overwrite, and
an outdated StartTraining is what it cannot bear.

**Program.** While a process runs, the disk is behind its memory (`Behind`): the
saved round is at most the coordinator's, and less while a round is open or its
save is under way; the saved log is a prefix of the logger's. The coordinator
cannot complete a second round before it has saved the first or failed to, so
each process leaves at most one logged round beyond the saved one (`AtRisk`). A
line is appended only when the saved state of the logger has it (`Appending`). In
a process that restored nothing the coordinator's round plus the StartRounds
still in its mailbox is what main has asked for (`Following`).

**Learning.** What two equal hidden units contribute to the outputs, and what
error comes back to them, are sums of the same numbers, whatever the sums are; so
one step of training changes both alike (`TrainStep`), through the places of two
matrices in flat slices (`Matrix`). Equal places of all updates are equal in the
average (`AverageTwins`). That a network keeps nothing of its random start is
`SetWeightsExact`: `Weights` and `SetWeights` cut the vector at the same places.

The other three properties are about the value of sums. The library defines a sum
by a recursive function on the subsets of a set, and an induction over data has no
direct form here; the proofs take the least number, or the smallest subset, for
which a statement fails, and contradict it (`LeastNumber`, `SubsetInduction`).
That gives that the recursion has exactly one solution (`SumsUnique`,
`SumsExist`), that a sum can be taken apart at any of its places (`SumRemove`)
and therefore does not depend on their order or names (`SumRenamed`), and that it
is linear (`SumLinear`).

- `EverySampleCounts` follows from `Counting`, which adds that an update is still
  what its sensor holds (`Honest`), because a sensor that has sent trains no
  further; that no sensor has sent two (`OneEach`); and that all have sent when
  there is an average. Without the first the average could be one of networks
  that have moved on; without the second one sensor could count twice and
  another not at all. The order in which the map is iterated is then a bijection
  from places to sensors (`Permuted`, `AllSent`).
- `GradientDescent`: the output of the network is linear along one weight while
  the active hidden units stay the same (`OutAlong`), the squared error is
  quadratic, and the central difference of a quadratic is its derivative exactly
  (`ErrorDifference`). What is left is to identify the slope for each of the four
  slices (`DerivativeW1` to `DerivativeB2`) with the number `Train` subtracts
  from it.
- `MetricsAgree`: the sum over all numbers in a row is the sum over the samples of
  the sums over the outputs (`FlattenIs`, `DoubleSum`), so the reported loss and
  the evaluator's have the same numerator; they have the same denominator because
  networks have three outputs, the literal in `computeLoss`, and this is the
  hypothesis of the theorem. The mean absolute error is bounded by
  `CauchySchwarz`, which follows from the sum of squared deviations (`Variance`),
  and that sum is 0 just if the values are all the same (`SpreadZero`).

**Remote.** A caller has one call at a time, a call at most one handler, and a
handler puts its message into the mailbox at most once, on its way from `enqueue`
to `select` or `ended`. While the handler is on its way the call has not
returned, or has returned an error; so a message of the same caller that arrives
before it belongs to a call that began after an error.

Only model-checked are the liveness properties (`EnqueueNeverBlocks`,
`ShutdownReturns`, `EscalationGivesUp`, `RoundCompletes`, `CallsReturn` and so on):
fairness and ENABLED are out of the prover's reach. Every invariant and every
action property of the passing runs is a theorem.

## Not modelled

Generated gRPC code; data generation (random numbers from closed formulas); table
and chart (text output); floating-point rounding; configuration from files and
the environment; `Exists`, `Delete` and `List` of the Persister, RequestStatus and
`stubTraining`, which no program uses. Contents and wording of log messages and
the Stats counters of the system are left out.

## Plan

Done: all modules of the plan, and the safety properties of every one proved.
Left, in order:

1. ActorSystem: `Enqueue` as one step is justified by the proofs about the
   mailboxes; stating both refinements side by side with the mailbox of
   ActorSystem would connect them formally.
2. `TypeOK` of Supervision and Program: the first needs what `SelectSeq` returns,
   the second how far `main` is ahead of the coordinator.
