----------------------------- MODULE ActorSystem -----------------------------
(* actor-framework/system.go: the registry of actors, the goroutine runActor *)
(* of every spawned actor, the calls Spawn, StopActor, RestartActor and Tell *)
(* that any goroutine may make, and Shutdown.  A critical section of s.mu is *)
(* one step, and so is an Enqueue (Mailbox.tla opens that box); everything   *)
(* else interleaves.                                                         *)
EXTENDS Integers, Sequences, FiniteSets

CONSTANTS Ids,          \* actor ids
          NoId,         \* the empty SupervisorID
          SupervisorOf, \* opts.SupervisorID of the actors with each id
          Clients,      \* goroutines that use the system
          Overflows,    \* mailbox configurations to consider
          Capacity,     \* MailboxCapacity of a bounded mailbox
          MaxCalls,     \* bound: calls of Spawn, StopActor and RestartActor
          MaxTells      \* bound: calls of Tell

ASSUME SystemAssumption ==
  /\ IsFiniteSet(Ids)
  /\ NoId \notin Ids
  /\ SupervisorOf \in [Ids -> Ids \cup {NoId}]
  /\ Overflows \subseteq {"DropNewest", "BlockSender", "DropOldest", "Unbounded"}
  /\ Capacity \in Nat \ {0}
  /\ MaxCalls \in Nat
  /\ MaxTells \in Nat

(* An entry of the registry stands for one actorEntry: its actor, its ref    *)
(* and its mailbox.  The n-th successful Spawn creates instance n.           *)
Instances == 1..MaxCalls
NoInstance == 0

VARIABLES
  overflow,   \* the overflow strategy of all mailboxes of this system
  actors,     \* s.actors: the instance registered under each id
  wg,         \* the counter of s.wg
  closed,     \* s.closed is closed
  spawned,    \* number of instances created
  idOf,       \* the id of each instance
  run,        \* where runActor is, per instance
  mailbox,    \* the mailbox of each instance, oldest message first
  supRef,     \* the supervisor a failing instance has looked up
  calls,      \* number of calls begun by clients
  tells,      \* number of messages told by clients
  at,         \* where each client is in its call
  op,         \* the call it makes
  arg,        \* the id it makes it for
  ref,        \* the instance it holds a reference to
  sd,         \* where Shutdown is
  sdRefs,     \* references Shutdown has still to tell to stop
  promised    \* history: instances running when Shutdown began

systemVars == <<overflow, actors, wg, closed>>
instVars   == <<spawned, idOf, run, mailbox, supRef>>
clientVars == <<calls, tells, at, op, arg, ref>>
sdVars     == <<sd, sdRefs, promised>>
vars == <<systemVars, instVars, clientVars, sdVars>>

(* The run loop tells Stopping from all other messages, and a supervisor     *)
(* ActorFailed; Started, Restarting and what users send are all Plain.  An   *)
(* ActorFailed message names the actor's id; the instance is history.        *)
Plain == [type |-> "Plain", of |-> NoInstance]
Stopping == [type |-> "Stopping", of |-> NoInstance]
ActorFailed(i) == [type |-> "ActorFailed", of |-> i]
Message == {Plain, Stopping} \cup {ActorFailed(i) : i \in Instances}

(* The parts of an instance's life: its entry is in the registry; its        *)
(* goroutine is counted by the WaitGroup.                                    *)
Live    == {"registered", "preStart", "enqStarted", "loop", "stopped", "failing"}
Counted == {"preStart", "enqStarted", "loop", "stopped", "failing",
            "lookupSup", "tellSup", "removed"}

(* Mutant: a bounded mailbox grows. *)
EnqueueAlways(i, m) == mailbox' = [mailbox EXCEPT ![i] = Append(@, m)]

(* Enqueue, as the strategies decide it: into a mailbox with room; dropped   *)
(* by a full one; or put in place of the oldest message, or of more of them  *)
(* when the run loop and other senders come between (Mailbox.tla).  A sender *)
(* that has to wait has no step.                                             *)
Enqueue(i, m) ==
  LET q == mailbox[i]
      Put(s) == mailbox' = [mailbox EXCEPT ![i] = s]
  IN  \/ (overflow = "Unbounded" \/ Len(q) < Capacity) /\ Put(Append(q, m))
      \/ overflow = "DropNewest" /\ Len(q) >= Capacity /\ Put(q)
      \/ /\ overflow = "DropOldest"
         /\ \E k \in 1..Len(q) : Put(Append(SubSeq(q, k + 1, Len(q)), m))

-----------------------------------------------------------------------------
Init == /\ overflow \in Overflows
        /\ actors = [a \in Ids |-> NoInstance]
        /\ wg = 0
        /\ closed = FALSE
        /\ spawned = 0
        /\ idOf = [i \in Instances |-> NoId]
        /\ run = [i \in Instances |-> "none"]
        /\ mailbox = [i \in Instances |-> <<>>]
        /\ supRef = [i \in Instances |-> NoInstance]
        /\ calls = 0
        /\ tells = 0
        /\ at = [c \in Clients |-> "idle"]
        /\ op = [c \in Clients |-> "none"]
        /\ arg = [c \in Clients |-> NoId]
        /\ ref = [c \in Clients |-> NoInstance]
        /\ sd = "idle"
        /\ sdRefs = {}
        /\ promised = {}

-----------------------------------------------------------------------------
(* Calls of the clients.  Begin and Return are the two ends of a call; a     *)
(* call that returns an error at its first step has no effect and no step.   *)
Begin(c, o, a, r, where) ==
  /\ at[c] = "idle"
  /\ calls < MaxCalls
  /\ calls' = calls + 1
  /\ at' = [at EXCEPT ![c] = where]
  /\ op' = [op EXCEPT ![c] = o]
  /\ arg' = [arg EXCEPT ![c] = a]
  /\ ref' = [ref EXCEPT ![c] = r]
  /\ UNCHANGED tells

Return(c) ==
  /\ at' = [at EXCEPT ![c] = "idle"]
  /\ op' = [op EXCEPT ![c] = "none"]
  /\ arg' = [arg EXCEPT ![c] = NoId]
  /\ ref' = [ref EXCEPT ![c] = NoInstance]
  /\ UNCHANGED <<calls, tells>>

Goto(c, where) ==
  /\ at' = [at EXCEPT ![c] = where]
  /\ UNCHANGED <<calls, tells, op, arg, ref>>

(* Spawn begins by checking s.closed: a closed system refuses. *)
Spawn(c, a) ==
  /\ ~closed
  /\ Begin(c, "spawn", a, NoInstance, "lock")
  /\ UNCHANGED <<systemVars, instVars, sdVars>>

(* The same check in the Spawn that RestartActor calls. *)
RestartSpawn(c) ==
  /\ at[c] = "check"
  /\ IF closed THEN Return(c) ELSE Goto(c, "lock")
  /\ UNCHANGED <<systemVars, instVars, sdVars>>

(* Mutant: does not look whether the id is taken. *)
SpawnOver(c) ==
  LET i == spawned + 1 IN
  /\ at[c] = "lock" /\ spawned < MaxCalls
  /\ spawned' = i
  /\ idOf' = [idOf EXCEPT ![i] = arg[c]]
  /\ run' = [run EXCEPT ![i] = "registered"]
  /\ actors' = [actors EXCEPT ![arg[c]] = i]
  /\ ref' = [ref EXCEPT ![c] = i]
  /\ at' = [at EXCEPT ![c] = "go"]
  /\ UNCHANGED <<overflow, wg, closed, mailbox, supRef, calls, tells, op, arg, sdVars>>

(* Spawn's critical section: an id that is not registered gets a new entry   *)
(* with an empty mailbox ...                                                 *)
SpawnRegister(c) ==
  LET i == spawned + 1 IN
  /\ at[c] = "lock"
  /\ actors[arg[c]] = NoInstance
  /\ spawned < MaxCalls
  /\ spawned' = i
  /\ idOf' = [idOf EXCEPT ![i] = arg[c]]
  /\ run' = [run EXCEPT ![i] = "registered"]
  /\ actors' = [actors EXCEPT ![arg[c]] = i]
  /\ ref' = [ref EXCEPT ![c] = i]
  /\ at' = [at EXCEPT ![c] = "go"]
  /\ UNCHANGED <<overflow, wg, closed, mailbox, supRef, calls, tells, op, arg, sdVars>>

(* ... and one that is registered is an error. *)
SpawnTaken(c) ==
  /\ at[c] = "lock"
  /\ actors[arg[c]] # NoInstance
  /\ Return(c)
  /\ UNCHANGED <<systemVars, instVars, sdVars>>

(* Mutant: a restarted actor is not added to the WaitGroup. *)
SpawnGoNoAdd(c) ==
  /\ at[c] = "go"
  /\ wg' = IF op[c] = "restart" THEN wg ELSE wg + 1
  /\ run' = [run EXCEPT ![ref[c]] = "preStart"]
  /\ IF op[c] = "restart" THEN Goto(c, "tellRestarting") ELSE Return(c)
  /\ UNCHANGED <<overflow, actors, closed, spawned, idOf, mailbox, supRef, sdVars>>

(* wg.Add(1) and the go statement, outside the critical section. *)
SpawnGo(c) ==
  /\ at[c] = "go"
  /\ wg' = wg + 1
  /\ run' = [run EXCEPT ![ref[c]] = "preStart"]
  /\ IF op[c] = "restart" THEN Goto(c, "tellRestarting") ELSE Return(c)
  /\ UNCHANGED <<overflow, actors, closed, spawned, idOf, mailbox, supRef, sdVars>>

(* StopActor looks the id up; an id that is not registered is an error ... *)
StopActor(c, a) ==
  /\ actors[a] # NoInstance
  /\ Begin(c, "stop", a, actors[a], "stop")
  /\ UNCHANGED <<systemVars, instVars, sdVars>>

(* Mutant: the entry is removed at once, while its goroutine still runs. *)
StopTellRemoves(c) ==
  /\ at[c] = "stop"
  /\ Enqueue(ref[c], Stopping)
  /\ actors' = [actors EXCEPT ![arg[c]] = NoInstance]
  /\ IF op[c] = "restart" THEN Goto(c, "check") ELSE Return(c)
  /\ UNCHANGED <<overflow, wg, closed, spawned, idOf, run, supRef, sdVars>>

(* ... and enqueues Stopping, to that instance even if it is gone by now.    *)
(* RestartActor goes on to Spawn at once.                                    *)
StopTell(c) ==
  /\ at[c] = "stop"
  /\ Enqueue(ref[c], Stopping)
  /\ IF op[c] = "restart" THEN Goto(c, "check") ELSE Return(c)
  /\ UNCHANGED <<systemVars, spawned, idOf, run, supRef, sdVars>>

(* RestartActor begins with StopActor and ignores that it may fail. *)
RestartActor(c, a) ==
  /\ IF actors[a] = NoInstance
       THEN Begin(c, "restart", a, NoInstance, "check")
       ELSE Begin(c, "restart", a, actors[a], "stop")
  /\ UNCHANGED <<systemVars, instVars, sdVars>>

(* RestartActor ends by telling the new instance that it is a restart. *)
RestartTell(c) ==
  /\ at[c] = "tellRestarting"
  /\ Enqueue(ref[c], Plain)
  /\ Return(c)
  /\ UNCHANGED <<systemVars, spawned, idOf, run, supRef, sdVars>>

(* A client sends an ordinary message through a reference it got at any time,*)
(* possibly to an instance that has stopped since.                           *)
Tell(c, i) ==
  /\ at[c] = "idle"
  /\ tells < MaxTells
  /\ tells' = tells + 1
  /\ i <= spawned
  /\ Enqueue(i, Plain)
  /\ UNCHANGED <<systemVars, spawned, idOf, run, supRef, calls, at, op, arg, ref, sdVars>>

-----------------------------------------------------------------------------
(* runActor.  Move sets the place of instance i and changes nothing else. *)
Move(i, where) ==
  /\ run' = [run EXCEPT ![i] = where]
  /\ UNCHANGED <<spawned, idOf, supRef, clientVars, sdVars>>

(* OnPreStart succeeds, or fails with an error or a panic. *)
OnPreStart(i) ==
  /\ run[i] = "preStart"
  /\ \E where \in {"enqStarted", "failing"} : Move(i, where)
  /\ UNCHANGED <<systemVars, mailbox>>

(* The run loop's own Started message. *)
EnqueueStarted(i) ==
  /\ run[i] = "enqStarted"
  /\ Enqueue(i, Plain)
  /\ Move(i, "loop")
  /\ UNCHANGED systemVars

(* Mutant: Stopping is dispatched like any other message. *)
ReceiveAll(i) ==
  /\ run[i] = "loop" /\ mailbox[i] # <<>>
  /\ mailbox' = [mailbox EXCEPT ![i] = Tail(@)]
  /\ \E where \in {"loop", "failing"} : Move(i, where)
  /\ UNCHANGED systemVars

(* The loop receives a message: Stopping ends it, any other is dispatched to *)
(* the actor, whose handler returns or panics.                               *)
Receive(i) ==
  /\ run[i] = "loop"
  /\ mailbox[i] # <<>>
  /\ mailbox' = [mailbox EXCEPT ![i] = Tail(@)]
  /\ IF Head(mailbox[i]).type = "Stopping"
       THEN Move(i, "stopped")
       ELSE \E where \in {"loop", "failing"} : Move(i, where)
  /\ UNCHANGED systemVars

(* Mutant: an idle loop does not watch s.closed, a busy one does. *)
SystemClosedIfBusy(i) ==
  /\ run[i] = "loop" /\ closed /\ mailbox[i] # <<>>
  /\ Move(i, "stopped")
  /\ UNCHANGED <<systemVars, mailbox>>

(* The other case of the loop's select: the system is shutting down. *)
SystemClosed(i) ==
  /\ run[i] = "loop"
  /\ closed
  /\ Move(i, "stopped")
  /\ UNCHANGED <<systemVars, mailbox>>

(* Label stopped: OnPostStop, then the entry is deleted; a panic of the hook *)
(* is recovered and handled as a failure.                                    *)
OnPostStop(i) ==
  /\ run[i] = "stopped"
  /\ \/ /\ actors' = [actors EXCEPT ![idOf[i]] = NoInstance]
        /\ Move(i, "removed")
     \/ /\ Move(i, "failing")
        /\ UNCHANGED actors
  /\ UNCHANGED <<overflow, wg, closed, mailbox>>

(* Mutant: the supervisor is notified first and the entry deleted later. *)
FailedNotifyFirst(i) ==
  /\ run[i] = "failing"
  /\ Move(i, IF SupervisorOf[idOf[i]] = NoId THEN "removed" ELSE "lookupSup")
  /\ UNCHANGED <<systemVars, mailbox>>

(* handleActorFailure: OnPreRestart, then the entry under the actor's id is  *)
(* deleted; an actor without a supervisor is done.  A panic of OnPreRestart  *)
(* after an OnPreStart error is recovered, and the whole runs again; after a *)
(* panic nothing recovers it and the process is gone (system.go:155-162).    *)
Failed(i) ==
  /\ run[i] = "failing"
  /\ actors' = [actors EXCEPT ![idOf[i]] = NoInstance]
  /\ Move(i, IF SupervisorOf[idOf[i]] = NoId THEN "removed" ELSE "lookupSup")
  /\ UNCHANGED <<overflow, wg, closed, mailbox>>

(* The supervisor is looked up ... *)
FailedLookup(i) ==
  LET s == actors[SupervisorOf[idOf[i]]] IN
  /\ run[i] = "lookupSup"
  /\ supRef' = [supRef EXCEPT ![i] = s]
  /\ run' = [run EXCEPT ![i] = IF s = NoInstance THEN "removed" ELSE "tellSup"]
  /\ UNCHANGED <<systemVars, spawned, idOf, mailbox, clientVars, sdVars>>

(* ... and told, which waits if its mailbox is full and blocks senders. *)
FailedTell(i) ==
  /\ run[i] = "tellSup"
  /\ Enqueue(supRef[i], ActorFailed(i))
  /\ supRef' = [supRef EXCEPT ![i] = NoInstance]
  /\ run' = [run EXCEPT ![i] = "removed"]
  /\ UNCHANGED <<systemVars, spawned, idOf, clientVars, sdVars>>

(* The deferred wg.Done. *)
Done(i) ==
  /\ run[i] = "removed"
  /\ wg' = wg - 1
  /\ Move(i, "exited")
  /\ UNCHANGED <<overflow, actors, closed, mailbox>>

RunActor(i) == \/ OnPreStart(i) \/ EnqueueStarted(i) \/ Receive(i)
               \/ SystemClosed(i) \/ OnPostStop(i) \/ Failed(i)
               \/ FailedLookup(i) \/ FailedTell(i) \/ Done(i)

-----------------------------------------------------------------------------
(* Shutdown, inside once.Do: close s.closed, ... *)
ShutdownClose ==
  /\ sd = "idle"
  /\ closed' = TRUE
  /\ sd' = "collect"
  /\ promised' = {i \in Instances : run[i] \in Counted}
  /\ UNCHANGED <<overflow, actors, wg, instVars, clientVars, sdRefs>>

(* ... copy the references under the read lock, ... *)
ShutdownCollect ==
  /\ sd = "collect"
  /\ sdRefs' = {actors[a] : a \in Ids} \ {NoInstance}
  /\ sd' = "tell"
  /\ UNCHANGED <<systemVars, instVars, clientVars, promised>>

(* ... enqueue Stopping to each, in the order of the map, ... *)
ShutdownTell ==
  /\ sd = "tell"
  /\ \E i \in sdRefs :
       /\ Enqueue(i, Stopping)
       /\ sdRefs' = sdRefs \ {i}
  /\ UNCHANGED <<systemVars, spawned, idOf, run, supRef, clientVars, sd, promised>>

(* Mutant: returns as soon as everyone has been told. *)
ShutdownNoWait ==
  /\ sd = "tell" /\ sdRefs = {}
  /\ sd' = "done"
  /\ UNCHANGED <<systemVars, instVars, clientVars, sdRefs, promised>>

(* ... and wait for the counter to be zero. *)
ShutdownWait ==
  /\ sd = "tell"
  /\ sdRefs = {}
  /\ wg = 0
  /\ sd' = "done"
  /\ UNCHANGED <<systemVars, instVars, clientVars, sdRefs, promised>>

Shutdown == ShutdownClose \/ ShutdownCollect \/ ShutdownTell \/ ShutdownWait

ClientStep(c) == \/ RestartSpawn(c) \/ SpawnRegister(c) \/ SpawnTaken(c) \/ SpawnGo(c)
                 \/ StopTell(c) \/ RestartTell(c)

ClientCall(c) == \/ \E a \in Ids : Spawn(c, a) \/ StopActor(c, a) \/ RestartActor(c, a)
                 \/ \E i \in Instances : Tell(c, i)

Next == \/ \E c \in Clients : ClientCall(c) \/ ClientStep(c)
        \/ \E i \in Instances : RunActor(i)
        \/ Shutdown

Spec == Init /\ [][Next]_vars

(* Goroutines that can run are scheduled; actor hooks and handlers return.   *)
(* Nobody is obliged to make a call, nor to begin a Shutdown.                *)
FairSpec == /\ Spec
            /\ \A c \in Clients : WF_vars(ClientStep(c))
            /\ \A i \in Instances : WF_vars(RunActor(i))
            /\ WF_vars(ShutdownCollect \/ ShutdownTell \/ ShutdownWait)

-----------------------------------------------------------------------------
TypeOK ==
  /\ overflow \in Overflows
  /\ actors \in [Ids -> Instances \cup {NoInstance}]
  /\ wg \in Int
  /\ closed \in BOOLEAN
  /\ spawned \in 0..MaxCalls
  /\ idOf \in [Instances -> Ids \cup {NoId}]
  /\ run \in [Instances -> Live \cup Counted \cup {"none", "exited"}]
  /\ mailbox \in [Instances -> Seq(Message)]
  /\ overflow # "Unbounded" => \A i \in Instances : Len(mailbox[i]) <= Capacity
  /\ supRef \in [Instances -> Instances \cup {NoInstance}]
  /\ calls \in 0..MaxCalls
  /\ tells \in 0..MaxTells
  /\ at \in [Clients -> {"idle", "check", "lock", "go", "stop", "tellRestarting"}]
  /\ op \in [Clients -> {"none", "spawn", "stop", "restart"}]
  /\ arg \in [Clients -> Ids \cup {NoId}]
  /\ ref \in [Clients -> Instances \cup {NoInstance}]
  /\ sd \in {"idle", "collect", "tell", "done"}
  /\ sdRefs \subseteq Instances
  /\ promised \subseteq Instances

(* Property: the registry and the goroutines agree.  An id maps to the one   *)
(* instance that runs under it, and an instance stays registered until its   *)
(* own goroutine removes it.  delete(s.actors, id) goes by id, not by entry  *)
(* (system.go:203, 222), and Spawn, failures, stops and restarts interleave: *)
(* still no entry of a successor is ever removed, and two instances never    *)
(* live under one id.                                                        *)
RegistryIdentity ==
  /\ \A a \in Ids : actors[a] # NoInstance =>
        idOf[actors[a]] = a /\ run[actors[a]] \in Live
  /\ \A i \in Instances : run[i] \in Live => actors[idOf[i]] = i

(* Property: the WaitGroup counts exactly the goroutines between the go      *)
(* statement of Spawn and their deferred Done (system.go:133-134, 154).      *)
WaitGroupExact == wg = Cardinality({i \in Instances : run[i] \in Counted})

(* Property: when a supervisor finds an ActorFailed message in its mailbox,  *)
(* the instance it is about is no longer registered, so that a restart does  *)
(* not meet its own predecessor (system.go:220-243, order of delete and Tell).*)
FailedIsGone ==
  \A j \in Instances : \A k \in 1..Len(mailbox[j]) :
    LET m == mailbox[j][k] IN
      m.type = "ActorFailed" => actors[idOf[m.of]] # m.of

(* Property: when Shutdown returns, every actor whose Spawn had started its  *)
(* goroutine when Shutdown began has left runActor (system.go:310-331).      *)
PromisedHaveExited ==
  sd = "done" => \A i \in promised : run[i] = "exited"

(* Action property: an entry leaves the registry only in a step of its own   *)
(* goroutine, at the end of runActor or in handleActorFailure, and is never  *)
(* overwritten (system.go:104-107, 202-204, 221-223).                        *)
OnlyOwnerRemoves ==
  [][\A a \in Ids : actors[a] # NoInstance /\ actors'[a] # actors[a] =>
       /\ actors'[a] = NoInstance
       /\ run[actors[a]] \in {"stopped", "failing"}
       /\ run'[actors[a]] \in {"removed", "lookupSup"}]_vars

(* A mailbox that blocks its senders is full, and its actor will not read it *)
(* (again): it waits at it itself with Started, or has left its loop.        *)
Unread(j) == /\ overflow = "BlockSender"
             /\ Len(mailbox[j]) = Capacity
             /\ run[j] \notin {"registered", "preStart", "loop"}

(* Shutdown or an actor it waits for is to put a message into mailbox j. *)
Awaited(j) == \/ sd = "tell" /\ j \in sdRefs
              \/ run[j] = "enqStarted"
              \/ \E i \in Instances : run[i] = "tellSup" /\ supRef[i] = j

(* Property: Shutdown returns, whatever the clients and the actors are doing *)
(* and even if its Stopping messages are dropped.  The one exception is a    *)
(* full mailbox that blocks its senders and whose actor no longer reads it:  *)
(* Shutdown, an actor that tells its supervisor, or an actor that enqueues   *)
(* its own Started then waits there for ever (system.go:172, 192-194,        *)
(* 229-243, 312-331).                                                        *)
ShutdownReturns ==
  closed ~> sd = "done" \/ \E j \in Instances : Unread(j) /\ Awaited(j)

(* Property: with unbounded mailboxes an actor whose mailbox holds Stopping  *)
(* ends, by that message or by an earlier failure (system.go:183-186).       *)
StopStops ==
  \A i \in Instances :
     /\ overflow = "Unbounded"
     /\ run[i] = "loop"
     /\ \E k \in 1..Len(mailbox[i]) : mailbox[i][k].type = "Stopping"
     ~> run[i] = "exited"

-----------------------------------------------------------------------------
(* Property (stated by the comment of Shutdown, system.go:310, "gracefully   *)
(* stops all actors and waits for them to finish"): when Shutdown returns no *)
(* actor runs.                                                               *)
ShutdownWaitsForAll ==
  sd = "done" => \A i \in Instances : run[i] \in {"none", "exited"}
=============================================================================
