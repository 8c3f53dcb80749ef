----------------------------- MODULE Supervision -----------------------------
(* actor-framework/supervision: the SupervisorActor, its failure tracker and *)
(* its three restart strategies, over the promises of ActorSystem: a failed  *)
(* actor is out of the registry before its supervisor is told, and           *)
(* RestartActor of a registered actor asks it to stop and then finds the id  *)
(* taken unless the actor has left in between.                               *)
(*                                                                           *)
(* The supervised actors carry this supervisor as their SupervisorID, as all *)
(* callers in the repository do; the supervisor itself runs throughout.  Its *)
(* mailbox is bounded: a message that finds it full is dropped (Mailbox).    *)
(* One unit of time stands for some seconds.  The events it reports to the   *)
(* logger after a restart are left out.                                      *)
EXTENDS Integers, Sequences, FiniteSets

CONSTANTS Ids,            \* supervised actors
          Strategies,     \* restart strategies to consider, see OnFailure
          Default,        \* values used when a strategy's are not positive
          Capacity,       \* of the supervisor's mailbox
          MaxAge,         \* age at which the tracker forgets a failure
          MaxCrashes,     \* bound: failures of actors
          MaxCommands,    \* bound: Stop, Register and Unregister by the program
          MaxBeats,       \* bound: heartbeats
          MaxTime         \* bound: clock

ASSUME SupervisionAssumption ==
  /\ Default \in [within : Nat \ {0}, initial : Nat \ {0}, maxDelay : Nat \ {0},
                  factor : Nat \ {0}]
  /\ Capacity \in Nat \ {0}
  /\ MaxAge \in Nat \ {0}
  /\ MaxCrashes \in Nat
  /\ MaxCommands \in Nat
  /\ MaxBeats \in Nat
  /\ MaxTime \in Nat

VARIABLES strategy,   \* config.Strategy
          status,     \* each actor: not spawned, running, asked to stop, has
                      \* left, has failed
          notices,    \* failed instances that have yet to tell the supervisor
          mailbox,    \* the supervisor's mailbox
          factories,  \* ids with an entry in s.factories
          failures,   \* tracker.failures: timestamps per id
          escalating, \* the failure that doEscalate has yet to pass on
          timers,     \* goroutines of scheduleDelayedRestart that still wait
          checks,     \* StatusChecks in the mailbox of each actor
          beats,      \* heartbeats so far
          now,        \* the clock
          crashes,    \* failures so far
          commands,   \* commands so far
          history,    \* history: all failures handled, per id
          seen,       \* history: failures the strategy last saw, per id
          excused     \* history: failed actors whose recovery has been given
                      \* up or has met a full mailbox

trackerVars    == <<failures, history, seen>>
supervisorVars == <<strategy, factories, escalating, timers, trackerVars, excused>>
boundVars      == <<now, crashes, commands, beats>>
vars == <<status, notices, mailbox, checks, supervisorVars, boundVars>>

Types == {"Register", "Unregister", "ActorFailed", "DelayedRestart", "Heartbeat"}
Msg(t, a)     == [type |-> t, id |-> a]
HeartbeatTick == [type |-> "HeartbeatTick"]

(* Tell of the supervisor's reference; its strategy is DropNewest. *)
Full == Len(mailbox) >= Capacity
TellSupervisor(m) == mailbox' = IF Full THEN mailbox ELSE Append(mailbox, m)

(* The same for a message that a's recovery depends on. *)
TellRecovery(m) == /\ TellSupervisor(m)
                   /\ excused' = IF Full THEN excused \cup {m.id} ELSE excused

-----------------------------------------------------------------------------
(* RestartDecision *)
Restart(d) == [action |-> "Restart", delay |-> d]
Escalate   == [action |-> "Escalate", delay |-> 0]
Stop       == [action |-> "Stop", delay |-> 0]

(* Entries of a failure list that are younger than `within`. *)
Recent(fs, within) == SelectSeq(fs, LAMBDA f : f > now - within)
Positive(value, default) == IF value <= 0 THEN default ELSE value
Window(s) == Positive(s.within, Default.within)

OneForOneOnFailure(s, fs) ==
  IF s.maxRetries > 0 /\ Len(Recent(fs, Window(s))) > s.maxRetries
    THEN Escalate ELSE Restart(0)

ExponentialBackoffOnFailure(s, fs) ==
  LET initial  == Positive(s.initial, Default.initial)
      maxDelay == Positive(s.maxDelay, Default.maxDelay)
      factor   == Positive(s.factor, Default.factor)
      delay    == initial * factor ^ (Len(fs) - 1)
  IN  Restart(IF delay > maxDelay THEN maxDelay ELSE delay)

EscalationOnFailure(s, fs) ==
  IF s.maxRetries > 0 /\ Len(Recent(fs, Window(s))) > s.maxRetries
    THEN Stop ELSE Escalate

OnFailure(s, fs) ==
  CASE s.kind = "OneForOne"          -> OneForOneOnFailure(s, fs)
    [] s.kind = "ExponentialBackoff" -> ExponentialBackoffOnFailure(s, fs)
    [] s.kind = "Escalation"         -> EscalationOnFailure(s, fs)

(* FailureTracker.Record: append the failure, forget old ones. *)
Record(a) == Recent(Append(failures[a], now), MaxAge)

-----------------------------------------------------------------------------
Init == /\ strategy \in Strategies
        /\ status = [a \in Ids |-> "new"]
        /\ notices = [a \in Ids |-> 0]
        /\ mailbox = <<>>
        /\ factories = {}
        /\ failures = [a \in Ids |-> <<>>]
        /\ escalating = {}
        /\ timers = [a \in Ids |-> 0]
        /\ checks = [a \in Ids |-> 0]
        /\ beats = 0
        /\ now = 0
        /\ crashes = 0
        /\ commands = 0
        /\ history = [a \in Ids |-> <<>>]
        /\ seen = [a \in Ids |-> 0]
        /\ excused = {}

(* The program spawns the actor, once. *)
Spawn(a) ==
  /\ status[a] = "new"
  /\ status' = [status EXCEPT ![a] = "up"]
  /\ UNCHANGED <<notices, mailbox, checks, supervisorVars, boundVars>>

(* It calls supervision.Register or Unregister at any time ... *)
Tell(a) ==
  /\ commands < MaxCommands
  /\ commands' = commands + 1
  /\ \E t \in {"Register", "Unregister"} : TellSupervisor(Msg(t, a))
  /\ UNCHANGED <<status, notices, checks, supervisorVars, now, crashes, beats>>

(* ... and may ask the actor to stop. *)
StopActor(a) ==
  /\ commands < MaxCommands
  /\ commands' = commands + 1
  /\ status[a] = "up"
  /\ status' = [status EXCEPT ![a] = "stopping"]
  /\ UNCHANGED <<notices, mailbox, checks, supervisorVars, now, crashes, beats>>

(* An actor that was asked to stop leaves. *)
Leave(a) ==
  /\ status[a] = "stopping"
  /\ status' = [status EXCEPT ![a] = "left"]
  /\ checks' = [checks EXCEPT ![a] = 0]
  /\ UNCHANGED <<notices, mailbox, supervisorVars, boundVars>>

(* Mutant: both the failed hook and the recovered panic report the failure. *)
FailTwice(a) ==
  /\ status[a] \in {"up", "stopping"} /\ crashes < MaxCrashes
  /\ crashes' = crashes + 1
  /\ status' = [status EXCEPT ![a] = "failed"]
  /\ checks' = [checks EXCEPT ![a] = 0]
  /\ notices' = [notices EXCEPT ![a] = @ + 2]
  /\ UNCHANGED <<mailbox, supervisorVars, now, commands, beats>>

(* handleActorFailure: the entry is removed ... *)
Fail(a) ==
  /\ status[a] \in {"up", "stopping"}
  /\ crashes < MaxCrashes
  /\ crashes' = crashes + 1
  /\ status' = [status EXCEPT ![a] = "failed"]
  /\ checks' = [checks EXCEPT ![a] = 0]
  /\ notices' = [notices EXCEPT ![a] = @ + 1]
  /\ UNCHANGED <<mailbox, supervisorVars, now, commands, beats>>

(* ... and the supervisor told. *)
Notify(a) ==
  /\ notices[a] > 0
  /\ notices' = [notices EXCEPT ![a] = @ - 1]
  /\ TellRecovery(Msg("ActorFailed", a))
  /\ UNCHANGED <<status, checks, strategy, factories, escalating, timers, trackerVars, boundVars>>

(* The delay of a scheduled restart is over. *)
TimerFires(a) ==
  /\ timers[a] > 0
  /\ timers' = [timers EXCEPT ![a] = @ - 1]
  /\ TellRecovery(Msg("DelayedRestart", a))
  /\ UNCHANGED <<status, notices, checks, strategy, factories, escalating, trackerVars, boundVars>>

(* heartbeatLoop *)
Beat ==
  /\ beats < MaxBeats
  /\ beats' = beats + 1
  /\ TellSupervisor(HeartbeatTick)
  /\ UNCHANGED <<status, notices, checks, supervisorVars, now, crashes, commands>>

(* An actor answers a StatusCheck, in any of its behaviors. *)
AnswerCheck(a) ==
  /\ checks[a] > 0
  /\ checks' = [checks EXCEPT ![a] = @ - 1]
  /\ TellSupervisor(Msg("Heartbeat", a))
  /\ UNCHANGED <<status, notices, supervisorVars, boundVars>>

Tick ==
  /\ now < MaxTime
  /\ now' = now + 1
  /\ UNCHANGED <<status, notices, mailbox, checks, supervisorVars, crashes, commands, beats>>

-----------------------------------------------------------------------------
(* The supervisor takes a message when the handler of the last is done;      *)
(* Receiving(t, a) takes one of type t about a.                              *)
Ready == escalating = {} /\ mailbox # <<>>
Receiving(t, a) == Ready /\ Head(mailbox) = Msg(t, a)

handlerFrame == <<strategy, escalating, notices, checks, boundVars>>

HandleRegister(a) ==
  /\ Receiving("Register", a)
  /\ mailbox' = Tail(mailbox)
  /\ factories' = factories \cup {a}
  /\ UNCHANGED <<status, timers, trackerVars, excused, handlerFrame>>

HandleUnregister(a) ==
  /\ Receiving("Unregister", a)
  /\ mailbox' = Tail(mailbox)
  /\ factories' = factories \ {a}
  /\ failures' = [failures EXCEPT ![a] = <<>>]
  /\ history' = [history EXCEPT ![a] = <<>>]
  /\ seen' = [seen EXCEPT ![a] = 0]
  /\ UNCHANGED <<status, timers, excused, handlerFrame>>

(* Every registered actor that is found is asked for a sign of life; the     *)
(* answer is only logged.                                                    *)
HandleHeartbeatTick ==
  /\ Ready
  /\ Head(mailbox) = HeartbeatTick
  /\ mailbox' = Tail(mailbox)
  /\ checks' = [a \in Ids |-> IF a \in factories /\ status[a] \in {"up", "stopping"}
                                THEN checks[a] + 1 ELSE checks[a]]
  /\ UNCHANGED <<status, notices, supervisorVars, boundVars>>

HandleHeartbeat(a) ==
  /\ Receiving("Heartbeat", a)
  /\ mailbox' = Tail(mailbox)
  /\ UNCHANGED <<status, supervisorVars, notices, checks, boundVars>>

(* doRestart: RestartActor asks a registered actor to stop and either finds  *)
(* the id still taken, which is only logged, or finds it free; then a new    *)
(* instance runs, its entry is stored and its failures are forgotten.        *)
DoRestart(a, fs) ==
  \/ /\ status[a] \in {"up", "stopping"}
     /\ status' = [status EXCEPT ![a] = "stopping"]
     /\ failures' = [failures EXCEPT ![a] = fs]
     /\ UNCHANGED <<factories, excused>>
  \/ /\ status' = [status EXCEPT ![a] = "up"]
     /\ factories' = factories \cup {a}
     /\ failures' = [failures EXCEPT ![a] = <<>>]
     /\ excused' = excused \ {a}

(* handleFailure for an actor nobody registered: a warning. *)
IgnoreFailure(a) ==
  /\ Receiving("ActorFailed", a)
  /\ a \notin factories
  /\ mailbox' = Tail(mailbox)
  /\ excused' = excused \cup {a}
  /\ UNCHANGED <<status, factories, timers, trackerVars, handlerFrame>>

(* Mutant: a decision with a delay is dropped instead of scheduled. *)
ActNoTimer(a, fs, decision) ==
  /\ UNCHANGED <<escalating, timers>>
  /\ \/ /\ decision.action = "Restart" /\ decision.delay <= 0
        /\ DoRestart(a, fs)
     \/ /\ decision.action # "Restart" \/ decision.delay > 0
        /\ failures' = [failures EXCEPT ![a] = fs]
        /\ UNCHANGED <<status, factories, excused>>

(* Mutant: a failure is not passed on to the supervisor that escalates it. *)
ActNoEscalate(a, fs, decision) ==
  /\ failures' = [failures EXCEPT ![a] = fs]
  /\ factories' = IF decision.action = "Stop" THEN factories \ {a} ELSE factories
  /\ timers' = IF decision.action = "Restart" THEN [timers EXCEPT ![a] = @ + 1] ELSE timers
  /\ UNCHANGED <<status, escalating, excused>>

(* What handleFailure does with the strategy's decision: restart now, start  *)
(* a timer, begin to pass the failure on, or give the actor up.              *)
Act(a, fs, decision) ==
  \/ /\ decision.action = "Restart" /\ decision.delay <= 0
     /\ DoRestart(a, fs)
     /\ UNCHANGED <<escalating, timers>>
  \/ /\ decision.action = "Restart" /\ decision.delay > 0
     /\ timers' = [timers EXCEPT ![a] = @ + 1]
     /\ failures' = [failures EXCEPT ![a] = fs]
     /\ UNCHANGED <<status, factories, escalating, excused>>
  \/ /\ decision.action = "Escalate"
     /\ escalating' = {a}
     /\ failures' = [failures EXCEPT ![a] = fs]
     /\ UNCHANGED <<status, factories, timers, excused>>
  \/ /\ decision.action = "Stop"
     /\ factories' = factories \ {a}
     /\ excused' = excused \cup {a}
     /\ failures' = [failures EXCEPT ![a] = fs]
     /\ UNCHANGED <<status, escalating, timers>>

HandleFailure(a) ==
  LET fs == Record(a) IN
  /\ Receiving("ActorFailed", a)
  /\ a \in factories
  /\ mailbox' = Tail(mailbox)
  /\ Act(a, fs, OnFailure(strategy, fs))
  /\ history' = [history EXCEPT ![a] = Recent(Append(@, now), MaxAge)]
  /\ seen' = [seen EXCEPT ![a] = Len(fs)]
  /\ UNCHANGED <<strategy, notices, checks, boundVars>>

(* doEscalate: the failure goes to the actor's SupervisorID, which is this   *)
(* supervisor; others may have filled the place its message left.            *)
DoEscalate(a) ==
  /\ a \in escalating
  /\ escalating' = escalating \ {a}
  /\ TellRecovery(Msg("ActorFailed", a))
  /\ UNCHANGED <<status, notices, checks, strategy, factories, timers, trackerVars, boundVars>>

(* handleDelayedRestart restarts from the entry the message carries. *)
HandleDelayedRestart(a) ==
  /\ Receiving("DelayedRestart", a)
  /\ mailbox' = Tail(mailbox)
  /\ DoRestart(a, failures[a])
  /\ UNCHANGED <<timers, history, seen, handlerFrame>>

Receive(a) == \/ HandleRegister(a) \/ HandleUnregister(a) \/ IgnoreFailure(a)
              \/ HandleFailure(a) \/ HandleDelayedRestart(a) \/ HandleHeartbeat(a)
              \/ DoEscalate(a)

Next == \/ \E a \in Ids : \/ Spawn(a) \/ Tell(a) \/ StopActor(a) \/ Leave(a)
                          \/ Fail(a) \/ Notify(a) \/ TimerFires(a) \/ AnswerCheck(a)
                          \/ Receive(a)
        \/ HandleHeartbeatTick \/ Beat \/ Tick

Spec == Init /\ [][Next]_vars

(* The supervisor's run loop, the goroutines of failing actors and timers    *)
(* go on; nobody has to fail, to command or to spawn.                        *)
FairSpec == /\ Spec
            /\ WF_vars(HandleHeartbeatTick \/ \E a \in Ids : Receive(a))
            /\ \A a \in Ids : WF_vars(Notify(a)) /\ WF_vars(TimerFires(a))

-----------------------------------------------------------------------------
TypeOK == /\ strategy \in Strategies
          /\ status \in [Ids -> {"new", "up", "stopping", "left", "failed"}]
          /\ notices \in [Ids -> Nat]
          /\ mailbox \in Seq([type : Types, id : Ids] \cup {HeartbeatTick})
          /\ Len(mailbox) <= Capacity
          /\ checks \in [Ids -> 0..MaxBeats]
          /\ excused \subseteq Ids
          /\ factories \subseteq Ids
          /\ escalating \subseteq Ids
          /\ failures \in [Ids -> Seq(0..MaxTime)]
          /\ timers \in [Ids -> Nat]
          /\ now \in 0..MaxTime
          /\ crashes \in 0..MaxCrashes
          /\ commands \in 0..MaxCommands
          /\ history \in [Ids -> Seq(0..MaxTime)]
          /\ seen \in [Ids -> Nat]

(* Everything on its way that can end in a restart of a. *)
Places(q, a)  == {k \in 1..Len(q) : q[k] \in {Msg("ActorFailed", a), Msg("DelayedRestart", a)}}
PassedOn(a)   == IF a \in escalating THEN 1 ELSE 0
Recoveries(a) == notices[a] + timers[a] + PassedOn(a) + Cardinality(Places(mailbox, a))

(* Property: a recovery is only under way for an actor that has failed, and  *)
(* only one: no notice, escalated failure, timer or delayed restart is left  *)
(* over that could later stop or replace a healthy instance, whatever        *)
(* Register, Unregister and Stop commands are interleaved with them          *)
(* (supervisor.go:146-184, 239-262, system.go:287-304).                      *)
RecoveryExclusive ==
  \A a \in Ids : Recoveries(a) <= 1 /\ (Recoveries(a) = 1 => status[a] = "failed")

(* Property: no failure is forgotten.  An actor that has failed is being     *)
(* recovered, or for one of three reasons will not be: its failure came      *)
(* before its Register, a message of its recovery met a full mailbox, or the *)
(* strategy has given it up (supervisor.go:146-184, 239-262,                 *)
(* system.go:226-244).                                                       *)
NoFailureForgotten ==
  \A a \in Ids : status[a] = "failed" => Recoveries(a) > 0 \/ a \in excused

(* Property: a failed actor comes back as long as it stays registered, with  *)
(* an immediate and with a delayed restart, unless a message of its recovery *)
(* finds the mailbox full of commands and heartbeats (supervisor.go:166-172, *)
(* 266-288).                                                                 *)
SupervisedComesBack ==
  \A a \in Ids :
    strategy.kind # "Escalation" /\ a \in factories /\ Recoveries(a) = 1
      ~> status[a] = "up" \/ a \notin factories \/ a \in excused

(* Property: the Escalation strategy with a limit ends the failures it       *)
(* passes on: the actor is given up (supervisor.go:174-183,                  *)
(* strategy.go:120-140).                                                     *)
EscalationGivesUp ==
  \A a \in Ids :
    strategy.kind = "Escalation" /\ a \in factories /\ Recoveries(a) = 1
      ~> a \notin factories \/ a \in excused

(* Property (stated by the comment of RestartStrategy, strategy.go:29,       *)
(* "failCount is the number of consecutive failures of this actor", and      *)
(* needed by the limits of strategy.go:41-42 and 76-77): the strategy sees   *)
(* every recent failure of the actor.                                        *)
FailuresAreCounted == \A a \in Ids : seen[a] = Len(history[a])
=============================================================================
