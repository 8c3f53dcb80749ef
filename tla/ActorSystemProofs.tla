-------------------------- MODULE ActorSystemProofs --------------------------
(* Proofs about ActorSystem, for any set of ids, clients and supervisors,    *)
(* any mailbox capacity and any number of calls.                             *)
EXTENDS ActorSystem, FiniteSetTheorems, TLAPS

(* The bookkeeping of Spawn: instances are numbered in the order of their    *)
(* creation, carry an id, and a client about to start a goroutine is the     *)
(* only one to hold that registered instance.                                *)
Fresh == \A i \in Instances : run[i] = "none" <=> i > spawned
Named == \A i \in Instances : run[i] # "none" => idOf[i] \in Ids
Argued == \A c \in Clients : at[c] # "idle" => arg[c] \in Ids
Starting == \A c \in Clients :
              at[c] = "go" => ref[c] \in Instances /\ run[ref[c]] = "registered"
StartingOnce == \A c, d \in Clients :
                  at[c] = "go" /\ at[d] = "go" /\ ref[c] = ref[d] => c = d

(* Only an actor with a supervisor looks it up. *)
Reporting == \A i \in Instances : run[i] = "lookupSup" => SupervisorOf[idOf[i]] \in Ids

RegistryInv == Fresh /\ Named /\ Reporting /\ Argued /\ Starting /\ StartingOnce /\ RegistryIdentity

-----------------------------------------------------------------------------
(* The steps of clients and of Shutdown that leave the instances alone. *)
LEMMA MessageTypes == /\ Plain \in Message
                      /\ Stopping \in Message
                      /\ \A i \in Instances : ActorFailed(i) \in Message
  BY DEF Message

(* Enqueue keeps the mailboxes well typed and within their capacity. *)
LEMMA EnqueueType ==
  ASSUME TypeOK, NEW i, NEW m \in Message, Enqueue(i, m)
  PROVE  /\ mailbox' \in [Instances -> Seq(Message)]
         /\ overflow # "Unbounded" => \A j \in Instances : Len(mailbox'[j]) <= Capacity
<1> USE SystemAssumption
<1>1. CASE i \in Instances
  <2> DEFINE q == mailbox[i]
  <2>1. q \in Seq(Message) /\ (overflow # "Unbounded" => Len(q) <= Capacity)
    BY <1>1 DEF TypeOK
  <2>2. Append(q, m) \in Seq(Message) /\ Len(Append(q, m)) = Len(q) + 1
    BY <2>1
  <2>3. ASSUME NEW k \in 1..Len(q)
        PROVE  /\ Append(SubSeq(q, k + 1, Len(q)), m) \in Seq(Message)
               /\ Len(Append(SubSeq(q, k + 1, Len(q)), m)) <= Len(q)
    <3>1. SubSeq(q, k + 1, Len(q)) \in Seq(Message) /\ Len(SubSeq(q, k + 1, Len(q))) = Len(q) - k
      BY <2>1, <2>3
    <3> HIDE DEF q
    <3> QED BY <2>1, <2>3, <3>1
  <2>4. mailbox'[i] \in Seq(Message) /\ (overflow # "Unbounded" => Len(mailbox'[i]) <= Capacity)
    <3>1. \/ (overflow = "Unbounded" \/ Len(q) < Capacity) /\ mailbox'[i] = Append(q, m)
          \/ mailbox'[i] = q
          \/ \E k \in 1..Len(q) : mailbox'[i] = Append(SubSeq(q, k + 1, Len(q)), m)
      BY <1>1 DEF Enqueue, TypeOK
    <3>2. Len(q) \in Nat /\ Capacity \in Nat BY <2>1
    <3> HIDE DEF q
    <3>3. CASE (overflow = "Unbounded" \/ Len(q) < Capacity) /\ mailbox'[i] = Append(q, m)
      BY <2>2, <3>2, <3>3
    <3>4. CASE mailbox'[i] = q BY <2>1, <3>4
    <3>5. CASE \E k \in 1..Len(q) : mailbox'[i] = Append(SubSeq(q, k + 1, Len(q)), m)
      <4>1. PICK k \in 1..Len(q) : mailbox'[i] = Append(SubSeq(q, k + 1, Len(q)), m) BY <3>5
      <4> DEFINE s == Append(SubSeq(q, k + 1, Len(q)), m)
      <4>2. s \in Seq(Message) /\ Len(s) \in Nat /\ Len(s) <= Len(q) BY <2>3
      <4>3. mailbox'[i] = s BY <4>1
      <4> HIDE DEF s
      <4> QED BY <2>1, <3>2, <4>2, <4>3
    <3> QED BY <3>1, <3>3, <3>4, <3>5
  <2>5. \A j \in Instances : j # i => mailbox'[j] = mailbox[j]
    BY DEF Enqueue, TypeOK
  <2>6. mailbox' = [mailbox EXCEPT ![i] = mailbox'[i]]
    BY <1>1 DEF Enqueue, TypeOK
  <2> QED BY <1>1, <2>4, <2>5, <2>6 DEF TypeOK
<1>2. CASE i \notin Instances
  <2>1. mailbox' = mailbox BY <1>2 DEF Enqueue, TypeOK
  <2> QED BY <2>1 DEF TypeOK
<1> QED BY <1>1, <1>2

-----------------------------------------------------------------------------
(* What the small combinators of ActorSystem do to the types. *)
LEMMA BeginType ==
  ASSUME TypeOK, NEW c \in Clients, NEW a \in Ids, NEW r \in Instances \cup {NoInstance},
         NEW o \in {"spawn", "stop", "restart"}, NEW w \in {"lock", "stop", "check"},
         Begin(c, o, a, r, w), UNCHANGED <<systemVars, instVars, sdVars>>
  PROVE  TypeOK'
  BY SystemAssumption DEF TypeOK, Begin, systemVars, instVars, sdVars

LEMMA ReturnType ==
  ASSUME TypeOK, NEW c \in Clients, Return(c)
  PROVE  /\ calls' \in 0..MaxCalls
         /\ tells' \in 0..MaxTells
         /\ at' \in [Clients -> {"idle", "check", "lock", "go", "stop", "tellRestarting"}]
         /\ op' \in [Clients -> {"none", "spawn", "stop", "restart"}]
         /\ arg' \in [Clients -> Ids \cup {NoId}]
         /\ ref' \in [Clients -> Instances \cup {NoInstance}]
  BY DEF TypeOK, Return

LEMMA GotoType ==
  ASSUME TypeOK, NEW c \in Clients, NEW w \in {"check", "lock", "tellRestarting"}, Goto(c, w)
  PROVE  /\ calls' \in 0..MaxCalls
         /\ tells' \in 0..MaxTells
         /\ at' \in [Clients -> {"idle", "check", "lock", "go", "stop", "tellRestarting"}]
         /\ op' \in [Clients -> {"none", "spawn", "stop", "restart"}]
         /\ arg' \in [Clients -> Ids \cup {NoId}]
         /\ ref' \in [Clients -> Instances \cup {NoInstance}]
  BY DEF TypeOK, Goto

(* A step of a client keeps the types. *)
LEMMA ClientType ==
  ASSUME TypeOK, NEW c \in Clients, ClientCall(c) \/ ClientStep(c)
  PROVE  TypeOK'
<1>1. ASSUME NEW a \in Ids, Spawn(c, a) PROVE TypeOK'
  BY <1>1, BeginType DEF Spawn, NoInstance
<1>2. ASSUME NEW a \in Ids, StopActor(c, a) PROVE TypeOK'
  <2>1. actors[a] \in Instances \cup {NoInstance} BY DEF TypeOK
  <2> QED BY <1>2, <2>1, BeginType DEF StopActor
<1>3. ASSUME NEW a \in Ids, RestartActor(c, a) PROVE TypeOK'
  <2>1. actors[a] \in Instances \cup {NoInstance} BY DEF TypeOK
  <2> QED BY <1>3, <2>1, BeginType DEF RestartActor
<1>4. ASSUME NEW i \in Instances, Tell(c, i) PROVE TypeOK'
  <2>1. Enqueue(i, Plain) BY <1>4 DEF Tell
  <2> QED BY <1>4, <2>1, EnqueueType, MessageTypes, SystemAssumption
      DEF Tell, TypeOK, systemVars, sdVars
<1>5. CASE RestartSpawn(c)
  BY <1>5, ReturnType, GotoType DEF RestartSpawn, TypeOK, systemVars, instVars, sdVars
<1>6. CASE SpawnRegister(c)
  <2>1. spawned + 1 \in Instances /\ spawned + 1 \in 0..MaxCalls
    BY <1>6, SystemAssumption DEF SpawnRegister, TypeOK, Instances
  <2>2. /\ idOf' \in [Instances -> Ids \cup {NoId}]
        /\ run' \in [Instances -> Live \cup Counted \cup {"none", "exited"}]
    BY <1>6, <2>1 DEF SpawnRegister, TypeOK, Live
  <2>3. /\ actors' \in [Ids -> Instances \cup {NoInstance}]
        /\ ref' \in [Clients -> Instances \cup {NoInstance}]
        /\ at' \in [Clients -> {"idle", "check", "lock", "go", "stop", "tellRestarting"}]
    BY <1>6, <2>1 DEF SpawnRegister, TypeOK
  <2> QED BY <1>6, <2>1, <2>2, <2>3 DEF SpawnRegister, TypeOK, sdVars
<1>7. CASE SpawnGo(c)
  <2>1. wg' \in Int BY <1>7 DEF SpawnGo, TypeOK
  <2>2. run' \in [Instances -> Live \cup Counted \cup {"none", "exited"}]
    BY <1>7 DEF SpawnGo, TypeOK, Counted
  <2>3. Return(c) \/ Goto(c, "tellRestarting") BY <1>7 DEF SpawnGo
  <2>4. /\ calls' \in 0..MaxCalls
        /\ tells' \in 0..MaxTells
        /\ at' \in [Clients -> {"idle", "check", "lock", "go", "stop", "tellRestarting"}]
        /\ op' \in [Clients -> {"none", "spawn", "stop", "restart"}]
        /\ arg' \in [Clients -> Ids \cup {NoId}]
        /\ ref' \in [Clients -> Instances \cup {NoInstance}]
    BY <2>3, ReturnType, GotoType
  <2> QED BY <1>7, <2>1, <2>2, <2>4 DEF SpawnGo, TypeOK, sdVars
<1>8. CASE StopTell(c)
  <2>1. Enqueue(ref[c], Stopping) BY <1>8 DEF StopTell
  <2> QED BY <1>8, <2>1, EnqueueType, MessageTypes, ReturnType, GotoType
      DEF StopTell, TypeOK, systemVars, sdVars
<1>9. CASE RestartTell(c)
  <2>1. Enqueue(ref[c], Plain) BY <1>9 DEF RestartTell
  <2> QED BY <1>9, <2>1, EnqueueType, MessageTypes, ReturnType
      DEF RestartTell, TypeOK, systemVars, sdVars
<1>10. CASE SpawnTaken(c)
  BY <1>10, ReturnType DEF SpawnTaken, TypeOK, systemVars, instVars, sdVars
<1> QED BY <1>1, <1>2, <1>3, <1>4, <1>5, <1>6, <1>7, <1>8, <1>9, <1>10 DEF ClientCall, ClientStep

(* Move keeps the types if it names a place of runActor. *)
LEMMA MoveType ==
  ASSUME TypeOK, NEW i \in Instances, NEW w \in Live \cup Counted \cup {"exited"}, Move(i, w)
  PROVE  /\ run' \in [Instances -> Live \cup Counted \cup {"none", "exited"}]
         /\ UNCHANGED <<spawned, idOf, supRef, calls, tells, at, op, arg, ref,
                        sd, sdRefs, promised>>
  BY DEF TypeOK, Move, clientVars, sdVars

(* A step of an actor's goroutine keeps the types. *)
LEMMA RunType ==
  ASSUME TypeOK, Reporting, NEW i \in Instances, RunActor(i)
  PROVE  TypeOK'
<1> USE DEF Live, Counted, systemVars
<1>1. CASE OnPreStart(i)
  BY <1>1, MoveType DEF OnPreStart, TypeOK
<1>2. CASE EnqueueStarted(i)
  <2>1. Enqueue(i, Plain) BY <1>2 DEF EnqueueStarted
  <2> QED BY <1>2, <2>1, EnqueueType, MessageTypes, MoveType DEF EnqueueStarted, TypeOK
<1>3. CASE Receive(i)
  <2>1. mailbox[i] \in Seq(Message) /\ mailbox[i] # <<>> BY <1>3 DEF Receive, TypeOK
  <2>2. Tail(mailbox[i]) \in Seq(Message) /\ Len(Tail(mailbox[i])) = Len(mailbox[i]) - 1
    BY <2>1
  <2>3. /\ mailbox' \in [Instances -> Seq(Message)]
        /\ overflow # "Unbounded" => \A j \in Instances : Len(mailbox'[j]) <= Capacity
    BY <1>3, <2>1, <2>2, SystemAssumption DEF Receive, TypeOK
  <2>4. \E w \in {"loop", "failing", "stopped"} : Move(i, w) BY <1>3 DEF Receive
  <2> QED BY <1>3, <2>3, <2>4, MoveType DEF Receive, TypeOK
<1>4. CASE SystemClosed(i)
  BY <1>4, MoveType DEF SystemClosed, TypeOK
<1>5. CASE OnPostStop(i)
  <2>1. actors' \in [Ids -> Instances \cup {NoInstance}]
    BY <1>5 DEF OnPostStop, TypeOK
  <2>2. \E w \in {"removed", "failing"} : Move(i, w) BY <1>5 DEF OnPostStop
  <2> QED BY <1>5, <2>1, <2>2, MoveType DEF OnPostStop, TypeOK
<1>6. CASE Failed(i)
  <2>1. actors' \in [Ids -> Instances \cup {NoInstance}]
    BY <1>6 DEF Failed, TypeOK
  <2>2. \E w \in {"removed", "lookupSup"} : Move(i, w) BY <1>6 DEF Failed
  <2> QED BY <1>6, <2>1, <2>2, MoveType DEF Failed, TypeOK
<1>7. CASE FailedLookup(i)
  <2>1. PICK s : /\ s = actors[SupervisorOf[idOf[i]]]
                 /\ supRef' = [supRef EXCEPT ![i] = s]
                 /\ run' = [run EXCEPT ![i] = IF s = NoInstance THEN "removed" ELSE "tellSup"]
    BY <1>7 DEF FailedLookup
  <2>2. s \in Instances \cup {NoInstance} BY <1>7, <2>1 DEF FailedLookup, Reporting, TypeOK
  <2> QED BY <1>7, <2>1, <2>2 DEF FailedLookup, TypeOK, clientVars, sdVars
<1>8. CASE FailedTell(i)
  <2>1. Enqueue(supRef[i], ActorFailed(i)) BY <1>8 DEF FailedTell
  <2>2. supRef' \in [Instances -> Instances \cup {NoInstance}]
    BY <1>8 DEF FailedTell, TypeOK
  <2> QED BY <1>8, <2>1, <2>2, EnqueueType, MessageTypes DEF FailedTell, TypeOK, clientVars, sdVars
<1>9. CASE Done(i)
  <2>1. Move(i, "exited") /\ wg' \in Int BY <1>9 DEF Done, TypeOK
  <2> QED BY <1>9, <2>1, MoveType DEF Done, TypeOK
<1> QED BY <1>1, <1>2, <1>3, <1>4, <1>5, <1>6, <1>7, <1>8, <1>9 DEF RunActor

LEMMA ShutdownType ==
  ASSUME TypeOK, Shutdown
  PROVE  TypeOK'
<1>1. CASE ShutdownClose
  BY <1>1 DEF ShutdownClose, TypeOK, instVars, clientVars
<1>2. CASE ShutdownCollect
  <2>1. {actors[a] : a \in Ids} \ {NoInstance} \subseteq Instances BY DEF TypeOK
  <2> QED BY <1>2, <2>1 DEF ShutdownCollect, TypeOK, systemVars, instVars, clientVars
<1>3. CASE ShutdownTell
  <2>1. PICK i \in sdRefs : Enqueue(i, Stopping) /\ sdRefs' = sdRefs \ {i}
    BY <1>3 DEF ShutdownTell
  <2> QED BY <1>3, <2>1, EnqueueType, MessageTypes DEF ShutdownTell, TypeOK, systemVars, clientVars
<1>4. CASE ShutdownWait
  BY <1>4 DEF ShutdownWait, TypeOK, systemVars, instVars, clientVars
<1> QED BY <1>1, <1>2, <1>3, <1>4 DEF Shutdown

LEMMA InitType == Init => TypeOK
<1> SUFFICES ASSUME Init PROVE TypeOK
  OBVIOUS
<1>1. <<>> \in Seq(Message) /\ Len(<<>>) = 0 /\ 0 <= Capacity
  BY SystemAssumption
<1>2. mailbox \in [Instances -> Seq(Message)] /\ \A i \in Instances : Len(mailbox[i]) <= Capacity
  BY <1>1 DEF Init
<1>3. /\ overflow \in Overflows
      /\ actors \in [Ids -> Instances \cup {NoInstance}]
      /\ wg \in Int
  BY DEF Init
<1>8. closed \in BOOLEAN
  BY Zenon DEF Init
<1>4. spawned \in 0..MaxCalls /\ calls \in 0..MaxCalls /\ tells \in 0..MaxTells
  BY SystemAssumption DEF Init
<1>5. /\ idOf \in [Instances -> Ids \cup {NoId}]
      /\ run \in [Instances -> Live \cup Counted \cup {"none", "exited"}]
      /\ supRef \in [Instances -> Instances \cup {NoInstance}]
  BY DEF Init
<1>6. /\ at \in [Clients -> {"idle", "check", "lock", "go", "stop", "tellRestarting"}]
      /\ op \in [Clients -> {"none", "spawn", "stop", "restart"}]
      /\ arg \in [Clients -> Ids \cup {NoId}]
      /\ ref \in [Clients -> Instances \cup {NoInstance}]
  BY DEF Init
<1>7. /\ sd \in {"idle", "collect", "tell", "done"}
      /\ sdRefs \subseteq Instances
      /\ promised \subseteq Instances
  BY DEF Init
<1> QED BY <1>2, <1>3, <1>4, <1>5, <1>6, <1>7, <1>8 DEF TypeOK

LEMMA NextType == TypeOK /\ Reporting /\ [Next]_vars => TypeOK'
<1> SUFFICES ASSUME TypeOK, Reporting, [Next]_vars PROVE TypeOK'
  OBVIOUS
<1>1. CASE UNCHANGED vars
  BY <1>1 DEF TypeOK, vars, systemVars, instVars, clientVars, sdVars
<1>2. CASE Next
  BY <1>2, ClientType, RunType, ShutdownType DEF Next
<1> QED BY <1>1, <1>2

-----------------------------------------------------------------------------
(* The registry.  Five kinds of steps: those that touch neither the registry *)
(* nor a goroutine, the two of Spawn, a goroutine that moves within its      *)
(* registered life, one that leaves the registry, and one that has left it.  *)
LEMMA CallStep ==
  ASSUME TypeOK, RegistryInv, UNCHANGED <<actors, idOf, run, spawned>>,
         \A c \in Clients : at'[c] = "go" => at[c] = "go" /\ ref'[c] = ref[c],
         \A c \in Clients : at'[c] # "idle" => arg'[c] \in Ids
  PROVE  RegistryInv'
  BY DEF RegistryInv, Fresh, Named, Reporting, Argued, Starting, StartingOnce, RegistryIdentity

LEMMA LiveMove ==
  ASSUME TypeOK, RegistryInv, NEW i \in Instances, NEW w \in Live \ {"registered"},
         run[i] \in Live \ {"registered"}, run' = [run EXCEPT ![i] = w],
         UNCHANGED <<actors, idOf, spawned, at, arg, ref>>
  PROVE  RegistryInv'
<1>1. \A j \in Instances : run'[j] = IF j = i THEN w ELSE run[j] BY DEF TypeOK
<1>2. Fresh' BY <1>1 DEF RegistryInv, Fresh, Live
<1>3. Named' /\ Reporting' BY <1>1 DEF RegistryInv, Named, Reporting, Live
<1>4. Argued' /\ Starting' /\ StartingOnce'
  BY <1>1 DEF RegistryInv, Argued, Starting, StartingOnce
<1>5. RegistryIdentity'
  <2>1. \A a \in Ids : actors[a] # NoInstance => actors[a] \in Instances BY DEF TypeOK
  <2> QED BY <1>1, <2>1 DEF RegistryInv, RegistryIdentity
<1> QED BY <1>2, <1>3, <1>4, <1>5 DEF RegistryInv

LEMMA Leaving ==
  ASSUME TypeOK, RegistryInv, NEW i \in Instances, NEW w \in {"removed", "lookupSup"},
         run[i] \in {"stopped", "failing"}, run' = [run EXCEPT ![i] = w],
         w = "lookupSup" => SupervisorOf[idOf[i]] # NoId,
         actors' = [actors EXCEPT ![idOf[i]] = NoInstance],
         UNCHANGED <<idOf, spawned, at, arg, ref>>
  PROVE  RegistryInv'
<1>1. \A j \in Instances : run'[j] = IF j = i THEN w ELSE run[j] BY DEF TypeOK
<1>2. Fresh' BY <1>1 DEF RegistryInv, Fresh
<1>3. idOf[i] \in Ids BY DEF RegistryInv, Named
<1>4. SupervisorOf[idOf[i]] \in Ids \cup {NoId} BY <1>3, SystemAssumption
<1>5. Named' /\ Reporting' BY <1>1, <1>3, <1>4 DEF RegistryInv, Named, Reporting
<1>6. Argued' /\ Starting' /\ StartingOnce'
  BY <1>1 DEF RegistryInv, Argued, Starting, StartingOnce
<1>7. RegistryIdentity'
  <2>1. actors[idOf[i]] = i BY DEF RegistryInv, RegistryIdentity, Live
  <2>2. \A a \in Ids : actors'[a] = IF a = idOf[i] THEN NoInstance ELSE actors[a]
    BY DEF TypeOK
  <2>3. \A a \in Ids : actors[a] # NoInstance => actors[a] \in Instances BY DEF TypeOK
  <2>4. \A a \in Ids : actors'[a] # NoInstance =>
          idOf'[actors'[a]] = a /\ run'[actors'[a]] \in Live
    BY <1>1, <1>3, <2>1, <2>2, <2>3 DEF RegistryInv, RegistryIdentity
  <2>5. ASSUME NEW j \in Instances, run'[j] \in Live PROVE actors'[idOf'[j]] = j
    <3>1. j # i /\ run[j] \in Live BY <1>1, <2>5 DEF Live
    <3>2. idOf[j] \in Ids BY <3>1 DEF RegistryInv, Named, Live
    <3>3. actors[idOf[j]] = j BY <3>1 DEF RegistryInv, RegistryIdentity
    <3> QED BY <2>1, <2>2, <3>1, <3>2, <3>3
  <2> QED BY <2>4, <2>5 DEF RegistryIdentity
<1> QED BY <1>2, <1>5, <1>6, <1>7 DEF RegistryInv

LEMMA DeadMove ==
  ASSUME TypeOK, RegistryInv, NEW i \in Instances, NEW w \in {"tellSup", "removed", "exited"},
         run[i] \in {"lookupSup", "tellSup", "removed"}, run' = [run EXCEPT ![i] = w],
         UNCHANGED <<actors, idOf, spawned, at, arg, ref>>
  PROVE  RegistryInv'
<1>1. \A j \in Instances : run'[j] = IF j = i THEN w ELSE run[j] BY DEF TypeOK
<1>2. Fresh' BY <1>1 DEF RegistryInv, Fresh
<1>3. Named' /\ Reporting' BY <1>1 DEF RegistryInv, Named, Reporting
<1>4. Argued' /\ Starting' /\ StartingOnce'
  BY <1>1 DEF RegistryInv, Argued, Starting, StartingOnce
<1>5. RegistryIdentity'
  <2>1. \A a \in Ids : actors[a] # NoInstance => actors[a] \in Instances BY DEF TypeOK
  <2> QED BY <1>1, <2>1 DEF RegistryInv, RegistryIdentity, Live
<1> QED BY <1>2, <1>3, <1>4, <1>5 DEF RegistryInv

(* The critical section of Spawn: a free id gets a new instance. *)
LEMMA Registering ==
  ASSUME TypeOK, RegistryInv, NEW c \in Clients, SpawnRegister(c)
  PROVE  RegistryInv'
<1> DEFINE n == spawned + 1
           a == arg[c]
<1>1. n \in Instances /\ run[n] = "none"
  BY SystemAssumption DEF SpawnRegister, TypeOK, Instances, RegistryInv, Fresh
<1>2. a \in Ids /\ actors[a] = NoInstance
  BY DEF SpawnRegister, RegistryInv, Argued
<1>3. /\ \A j \in Instances : run'[j] = IF j = n THEN "registered" ELSE run[j]
      /\ \A j \in Instances : idOf'[j] = IF j = n THEN a ELSE idOf[j]
      /\ \A b \in Ids : actors'[b] = IF b = a THEN n ELSE actors[b]
      /\ \A d \in Clients : ref'[d] = IF d = c THEN n ELSE ref[d]
      /\ \A d \in Clients : at'[d] = IF d = c THEN "go" ELSE at[d]
  BY <1>1, <1>2 DEF SpawnRegister, TypeOK
<1>4. arg' = arg /\ spawned' = n BY DEF SpawnRegister
<1> HIDE DEF n, a
<1>5. Fresh'
  <2>1. \A j \in Instances : j > spawned' <=> j > spawned /\ j # n
    BY <1>4 DEF n, Instances, TypeOK
  <2> QED BY <1>1, <1>3, <2>1 DEF RegistryInv, Fresh
<1>6. Named' /\ Reporting' BY <1>2, <1>3 DEF RegistryInv, Named, Reporting
<1>7. Argued' BY <1>2, <1>3, <1>4 DEF RegistryInv, Argued, a
<1>8. Starting' BY <1>1, <1>3 DEF RegistryInv, Starting
<1>9. StartingOnce'
  <2>1. \A d \in Clients : at[d] = "go" => ref[d] # n
    BY <1>1 DEF RegistryInv, Starting
  <2> QED BY <1>3, <2>1 DEF RegistryInv, StartingOnce
<1>10. RegistryIdentity'
  <2>0. \A b \in Ids : actors[b] # NoInstance => run[actors[b]] \in Live
    BY DEF RegistryInv, RegistryIdentity
  <2>1. \A b \in Ids : actors[b] # NoInstance =>
          actors[b] \in Instances /\ actors[b] # n
    <3>1. "none" \notin Live BY DEF Live
    <3>2. \A b \in Ids : actors[b] \in Instances \cup {NoInstance} BY DEF TypeOK
    <3> QED BY <1>1, <2>0, <3>1, <3>2
  <2>2. \A b \in Ids : actors'[b] # NoInstance =>
          idOf'[actors'[b]] = b /\ run'[actors'[b]] \in Live
    BY <1>1, <1>2, <1>3, <2>1 DEF RegistryInv, RegistryIdentity, Live
  <2>3. ASSUME NEW j \in Instances, run'[j] \in Live PROVE actors'[idOf'[j]] = j
    <3>1. CASE j = n BY <1>2, <1>3, <3>1
    <3>2. CASE j # n
      <4>1. run[j] \in Live /\ idOf'[j] = idOf[j] BY <1>3, <2>3, <3>2
      <4>2. idOf[j] \in Ids BY <4>1 DEF RegistryInv, Named, Live
      <4>3. actors[idOf[j]] = j /\ j # NoInstance
        BY <4>1 DEF RegistryInv, RegistryIdentity, Instances, NoInstance
      <4> QED BY <1>2, <1>3, <4>1, <4>2, <4>3
    <3> QED BY <3>1, <3>2
  <2> QED BY <2>2, <2>3 DEF RegistryIdentity
<1> QED BY <1>5, <1>6, <1>7, <1>8, <1>9, <1>10 DEF RegistryInv

(* The end of Spawn: the goroutine starts, and its client forgets it. *)
LEMMA Going ==
  ASSUME TypeOK, RegistryInv, NEW c \in Clients, SpawnGo(c)
  PROVE  RegistryInv'
<1> DEFINE i == ref[c]
<1>1. i \in Instances /\ run[i] = "registered" /\ at[c] = "go"
  BY DEF SpawnGo, RegistryInv, Starting
<1>2. /\ \A j \in Instances : run'[j] = IF j = i THEN "preStart" ELSE run[j]
      /\ UNCHANGED <<actors, idOf, spawned>>
  BY DEF SpawnGo, TypeOK
<1>3. Return(c) \/ Goto(c, "tellRestarting") BY DEF SpawnGo
<1>4. /\ \A d \in Clients : at'[d] = "go" => d # c /\ at[d] = "go" /\ ref'[d] = ref[d]
      /\ \A d \in Clients : at'[d] # "idle" => arg'[d] = arg[d] /\ at[d] # "idle"
  BY <1>1, <1>3 DEF Return, Goto, TypeOK
<1>5. \A d \in Clients : at'[d] = "go" => ref[d] # i
  BY <1>1, <1>4 DEF RegistryInv, StartingOnce
<1> HIDE DEF i
<1>6. Fresh' BY <1>1, <1>2 DEF RegistryInv, Fresh
<1>7. Named' /\ Reporting' BY <1>1, <1>2 DEF RegistryInv, Named, Reporting
<1>8. Argued' BY <1>4 DEF RegistryInv, Argued
<1>9. Starting' /\ StartingOnce'
  BY <1>2, <1>4, <1>5 DEF RegistryInv, Starting, StartingOnce
<1>10. RegistryIdentity'
  <2>1. \A b \in Ids : actors[b] # NoInstance => actors[b] \in Instances BY DEF TypeOK
  <2> QED BY <1>1, <1>2, <2>1 DEF RegistryInv, RegistryIdentity, Live
<1> QED BY <1>6, <1>7, <1>8, <1>9, <1>10 DEF RegistryInv

-----------------------------------------------------------------------------
(* Every step of the system is of one of these kinds. *)
LEMMA ClientRegistry ==
  ASSUME TypeOK, RegistryInv, NEW c \in Clients, ClientCall(c) \/ ClientStep(c)
  PROVE  RegistryInv'
<1> USE DEF systemVars, instVars
<1>1. ASSUME NEW a \in Ids, NEW o, NEW r, NEW w \in {"lock", "stop", "check"},
             Begin(c, o, a, r, w), UNCHANGED <<systemVars, instVars>>
      PROVE  RegistryInv'
  <2>1. /\ \A d \in Clients : at'[d] = IF d = c THEN w ELSE at[d]
        /\ \A d \in Clients : arg'[d] = IF d = c THEN a ELSE arg[d]
        /\ \A d \in Clients : ref'[d] = IF d = c THEN r ELSE ref[d]
    BY <1>1 DEF Begin, TypeOK
  <2>2. \A d \in Clients : at'[d] # "idle" => arg'[d] \in Ids
    BY <2>1 DEF RegistryInv, Argued
  <2> QED BY <1>1, <2>1, <2>2, CallStep
<1>2. ASSUME Return(c), UNCHANGED <<actors, idOf, run, spawned>> PROVE RegistryInv'
  <2>1. /\ \A d \in Clients : at'[d] = IF d = c THEN "idle" ELSE at[d]
        /\ \A d \in Clients : arg'[d] = IF d = c THEN NoId ELSE arg[d]
        /\ \A d \in Clients : ref'[d] = IF d = c THEN NoInstance ELSE ref[d]
    BY <1>2 DEF Return, TypeOK
  <2>2. \A d \in Clients : at'[d] # "idle" => arg'[d] \in Ids
    BY <2>1 DEF RegistryInv, Argued
  <2> QED BY <1>2, <2>1, <2>2, CallStep
<1>3. ASSUME NEW w \in {"check", "lock"}, Goto(c, w), at[c] # "idle",
             UNCHANGED <<actors, idOf, run, spawned>>
      PROVE  RegistryInv'
  <2>1. /\ \A d \in Clients : at'[d] = IF d = c THEN w ELSE at[d]
        /\ arg' = arg /\ ref' = ref
    BY <1>3 DEF Goto, TypeOK
  <2>2. \A d \in Clients : at'[d] # "idle" => arg'[d] \in Ids
    BY <1>3, <2>1 DEF RegistryInv, Argued
  <2> QED BY <1>3, <2>1, <2>2, CallStep
<1>4. ASSUME NEW a \in Ids, Spawn(c, a) \/ StopActor(c, a) \/ RestartActor(c, a)
      PROVE  RegistryInv'
  BY <1>1, <1>4 DEF Spawn, StopActor, RestartActor
<1>5. ASSUME NEW i \in Instances, Tell(c, i) PROVE RegistryInv'
  <2>1. UNCHANGED <<actors, idOf, run, spawned, at, arg, ref>> BY <1>5 DEF Tell
  <2> QED BY <2>1, CallStep DEF RegistryInv, Argued
<1>6. CASE RestartSpawn(c) BY <1>2, <1>3, <1>6 DEF RestartSpawn
<1>7. CASE SpawnRegister(c) BY <1>7, Registering
<1>8. CASE SpawnTaken(c) BY <1>2, <1>8 DEF SpawnTaken
<1>9. CASE SpawnGo(c) BY <1>9, Going
<1>10. CASE StopTell(c) BY <1>2, <1>3, <1>10 DEF StopTell
<1>11. CASE RestartTell(c) BY <1>2, <1>11 DEF RestartTell
<1> QED BY <1>4, <1>5, <1>6, <1>7, <1>8, <1>9, <1>10, <1>11 DEF ClientCall, ClientStep

LEMMA RunRegistry ==
  ASSUME TypeOK, RegistryInv, NEW i \in Instances, RunActor(i)
  PROVE  RegistryInv'
<1> USE DEF systemVars, clientVars
<1>1. ASSUME NEW w \in Live \ {"registered"}, Move(i, w), actors' = actors,
             run[i] \in Live \ {"registered"}
      PROVE  RegistryInv'
  BY <1>1, LiveMove DEF Move
<1>2. CASE OnPreStart(i) BY <1>1, <1>2 DEF OnPreStart, Live
<1>3. CASE EnqueueStarted(i) BY <1>1, <1>3 DEF EnqueueStarted, Live
<1>4. CASE Receive(i) BY <1>1, <1>4 DEF Receive, Live
<1>5. CASE SystemClosed(i) BY <1>1, <1>5 DEF SystemClosed, Live
<1>6. CASE OnPostStop(i)
  <2>1. CASE Move(i, "failing") /\ actors' = actors
    BY <1>1, <1>6, <2>1 DEF OnPostStop, Live
  <2>2. CASE Move(i, "removed") /\ actors' = [actors EXCEPT ![idOf[i]] = NoInstance]
    BY <1>6, <2>2, Leaving DEF OnPostStop, Move
  <2> QED BY <1>6, <2>1, <2>2 DEF OnPostStop
<1>7. CASE Failed(i)
  BY <1>7, Leaving DEF Failed, Move
<1>8. CASE FailedLookup(i)
  <2>1. \E w \in {"tellSup", "removed"} : run' = [run EXCEPT ![i] = w]
    BY <1>8 DEF FailedLookup
  <2> QED BY <1>8, <2>1, DeadMove DEF FailedLookup
<1>9. CASE FailedTell(i) BY <1>9, DeadMove DEF FailedTell
<1>10. CASE Done(i) BY <1>10, DeadMove DEF Done, Move
<1> QED BY <1>2, <1>3, <1>4, <1>5, <1>6, <1>7, <1>8, <1>9, <1>10 DEF RunActor

LEMMA NextRegistry == TypeOK /\ RegistryInv /\ [Next]_vars => RegistryInv'
<1> SUFFICES ASSUME TypeOK, RegistryInv, [Next]_vars PROVE RegistryInv'
  OBVIOUS
<1>1. ASSUME UNCHANGED <<actors, idOf, run, spawned, at, arg, ref>> PROVE RegistryInv'
  BY <1>1, CallStep DEF RegistryInv, Argued
<1>2. CASE UNCHANGED vars
  BY <1>1, <1>2 DEF vars, systemVars, instVars, clientVars
<1>3. CASE Shutdown
  BY <1>1, <1>3 DEF Shutdown, ShutdownClose, ShutdownCollect, ShutdownTell, ShutdownWait,
                    systemVars, instVars, clientVars
<1> QED BY <1>2, <1>3, ClientRegistry, RunRegistry DEF Next

LEMMA InitRegistry == Init => RegistryInv
<1> SUFFICES ASSUME Init PROVE RegistryInv
  OBVIOUS
<1>1. Fresh BY DEF Init, Fresh, Instances
<1>2. Named /\ Reporting /\ Argued /\ Starting /\ StartingOnce
  BY DEF Init, Named, Reporting, Argued, Starting, StartingOnce
<1>3. RegistryIdentity BY DEF Init, RegistryIdentity, Live
<1> QED BY <1>1, <1>2, <1>3 DEF RegistryInv

(* The types and the registry's invariant are inductive together. *)
LEMMA Invariant == Spec => [](TypeOK /\ RegistryInv)
<1>1. TypeOK /\ RegistryInv /\ [Next]_vars => (TypeOK /\ RegistryInv)'
  BY NextType, NextRegistry DEF RegistryInv
<1> QED BY <1>1, InitType, InitRegistry, PTL DEF Spec

(* Theorem: every reachable state is well typed: a bounded mailbox never     *)
(* exceeds its capacity, whoever enqueues (mailbox.go:106-141).              *)
THEOREM TypeCorrect == Spec => []TypeOK
  BY Invariant, PTL

(* Theorem: the registry and the goroutines agree for any number of ids,     *)
(* clients and calls: the deletions by id of system.go:203 and 222 never     *)
(* remove a successor's entry, and one id never has two live instances.      *)
THEOREM RegistryCorrect == Spec => []RegistryIdentity
  BY Invariant, PTL DEF RegistryInv

-----------------------------------------------------------------------------
(* The places runActor goes through, one step at a time. *)
LifeCycle == {<<"none", "registered">>, <<"registered", "preStart">>,
              <<"preStart", "enqStarted">>, <<"preStart", "failing">>,
              <<"enqStarted", "loop">>, <<"loop", "loop">>, <<"loop", "failing">>,
              <<"loop", "stopped">>, <<"stopped", "failing">>, <<"stopped", "removed">>,
              <<"failing", "removed">>, <<"failing", "lookupSup">>,
              <<"lookupSup", "removed">>, <<"lookupSup", "tellSup">>,
              <<"tellSup", "removed">>, <<"removed", "exited">>}

(* A step moves at most one goroutine, along the life cycle, and changes the *)
(* WaitGroup when that goroutine starts and when it ends.                    *)
OneMoves(i, w) ==
  /\ <<run[i], w>> \in LifeCycle
  /\ run' = [run EXCEPT ![i] = w]
  /\ wg' = IF w = "preStart" THEN wg + 1 ELSE IF w = "exited" THEN wg - 1 ELSE wg

LEMMA StepMoves ==
  ASSUME TypeOK, RegistryInv, [Next]_vars
  PROVE  \/ UNCHANGED <<run, wg>>
         \/ \E i \in Instances, w \in Live \cup Counted \cup {"exited"} : OneMoves(i, w)
<1> USE DEF systemVars, instVars, LifeCycle, OneMoves
<1>1. CASE UNCHANGED vars BY <1>1 DEF vars
<1>2. CASE Shutdown
  BY <1>2 DEF Shutdown, ShutdownClose, ShutdownCollect, ShutdownTell, ShutdownWait
<1>3. ASSUME NEW c \in Clients, ClientCall(c) PROVE UNCHANGED <<run, wg>>
  BY <1>3 DEF ClientCall, Spawn, StopActor, RestartActor, Tell
<1>4. ASSUME NEW c \in Clients, ClientStep(c)
      PROVE  \/ UNCHANGED <<run, wg>>
             \/ \E i \in Instances, w \in Live \cup Counted \cup {"exited"} : OneMoves(i, w)
  <2>1. CASE SpawnRegister(c)
    <3>1. spawned + 1 \in Instances /\ run[spawned + 1] = "none"
      BY <2>1, SystemAssumption DEF SpawnRegister, TypeOK, Instances, RegistryInv, Fresh
    <3>2. OneMoves(spawned + 1, "registered") BY <2>1, <3>1 DEF SpawnRegister
    <3> QED BY <3>1, <3>2 DEF Live
  <2>2. CASE SpawnGo(c)
    <3>1. ref[c] \in Instances /\ run[ref[c]] = "registered"
      BY <2>2 DEF SpawnGo, RegistryInv, Starting
    <3>2. OneMoves(ref[c], "preStart") BY <2>2, <3>1 DEF SpawnGo
    <3> QED BY <3>1, <3>2 DEF Live
  <2>3. CASE RestartSpawn(c) \/ SpawnTaken(c) \/ StopTell(c) \/ RestartTell(c)
    BY <2>3 DEF RestartSpawn, SpawnTaken, StopTell, RestartTell
  <2> QED BY <1>4, <2>1, <2>2, <2>3 DEF ClientStep
<1>5. ASSUME NEW i \in Instances, RunActor(i)
      PROVE  \E w \in Live \cup Counted \cup {"exited"} : OneMoves(i, w)
  <2> USE DEF Live, Counted, Move
  <2>1. CASE OnPreStart(i) BY <2>1 DEF OnPreStart
  <2>2. CASE EnqueueStarted(i) BY <2>2 DEF EnqueueStarted
  <2>3. CASE Receive(i)
    <3>1. /\ \E w \in {"loop", "failing", "stopped"} : run' = [run EXCEPT ![i] = w]
          /\ run[i] = "loop" /\ wg' = wg
      BY <2>3 DEF Receive
    <3> QED BY <3>1
  <2>4. CASE SystemClosed(i) BY <2>4 DEF SystemClosed
  <2>5. CASE OnPostStop(i) BY <2>5 DEF OnPostStop
  <2>6. CASE Failed(i)
    <3>1. /\ \E w \in {"removed", "lookupSup"} : run' = [run EXCEPT ![i] = w]
          /\ run[i] = "failing" /\ wg' = wg
      BY <2>6 DEF Failed
    <3> QED BY <3>1
  <2>7. CASE FailedLookup(i)
    <3>1. PICK w \in {"removed", "tellSup"} : run' = [run EXCEPT ![i] = w]
      BY <2>7 DEF FailedLookup
    <3>2. OneMoves(i, w) BY <2>7, <3>1 DEF FailedLookup
    <3> QED BY <3>2
  <2>8. CASE FailedTell(i) BY <2>8 DEF FailedTell
  <2>9. CASE Done(i) BY <2>9 DEF Done
  <2> QED BY <1>5, <2>1, <2>2, <2>3, <2>4, <2>5, <2>6, <2>7, <2>8, <2>9 DEF RunActor
<1> QED BY <1>1, <1>2, <1>3, <1>4, <1>5 DEF Next

(* What has been reached in a life is not undone. *)
LEMMA Progress ==
  ASSUME TypeOK, RegistryInv, [Next]_vars, NEW j \in Instances
  PROVE  /\ run[j] \in {"removed", "exited"} => run'[j] \in {"removed", "exited"}
         /\ run[j] = "exited" => run'[j] = "exited"
         /\ run[j] \in Counted \cup {"exited"} => run'[j] \in Counted \cup {"exited"}
<1>1. CASE UNCHANGED <<run, wg>> BY <1>1
<1>2. ASSUME NEW i \in Instances, NEW w \in Live \cup Counted \cup {"exited"}, OneMoves(i, w)
      PROVE  /\ run[j] \in {"removed", "exited"} => run'[j] \in {"removed", "exited"}
             /\ run[j] = "exited" => run'[j] = "exited"
             /\ run[j] \in Counted \cup {"exited"} => run'[j] \in Counted \cup {"exited"}
  <2>1. run'[j] = IF j = i THEN w ELSE run[j] BY <1>2 DEF OneMoves, TypeOK
  <2> QED BY <1>2, <2>1 DEF OneMoves, LifeCycle, Counted
<1> QED BY <1>1, <1>2, StepMoves

-----------------------------------------------------------------------------
LEMMA WaitGroupStep ==
  ASSUME TypeOK, RegistryInv, WaitGroupExact, [Next]_vars
  PROVE  WaitGroupExact'
<1> DEFINE C == {i \in Instances : run[i] \in Counted}
           D == {i \in Instances : run'[i] \in Counted}
<1>1. IsFiniteSet(C)
  <2>1. IsFiniteSet(Instances) BY SystemAssumption, FS_Interval DEF Instances
  <2> QED BY <2>1, FS_Subset
<1>2. wg = Cardinality(C) BY DEF WaitGroupExact
<1>3. SUFFICES wg' = Cardinality(D) BY DEF WaitGroupExact
<1>4. CASE UNCHANGED <<run, wg>> BY <1>2, <1>4
<1>5. ASSUME NEW i \in Instances, NEW w \in Live \cup Counted \cup {"exited"}, OneMoves(i, w)
      PROVE  wg' = Cardinality(D)
  <2>1. \A j \in Instances : run'[j] = IF j = i THEN w ELSE run[j]
    BY <1>5 DEF OneMoves, TypeOK
  <2>2. CASE w = "preStart"
    <3>1. run[i] \notin Counted BY <1>5, <2>2 DEF OneMoves, LifeCycle, Counted
    <3>2. i \notin C /\ D = C \cup {i} BY <2>1, <2>2, <3>1 DEF Counted
    <3>3. Cardinality(D) = Cardinality(C) + 1 BY <1>1, <3>2, FS_AddElement
    <3> QED BY <1>2, <1>5, <2>2, <3>3 DEF OneMoves
  <2>3. CASE w = "exited"
    <3>1. run[i] \in Counted BY <1>5, <2>3 DEF OneMoves, LifeCycle, Counted
    <3>2. i \in C /\ D = C \ {i} BY <2>1, <2>3, <3>1 DEF Counted
    <3>3. Cardinality(D) = Cardinality(C) - 1 BY <1>1, <3>2, FS_RemoveElement
    <3> QED BY <1>2, <1>5, <2>3, <3>3 DEF OneMoves
  <2>4. CASE w \notin {"preStart", "exited"}
    <3>1. run[i] \in Counted <=> w \in Counted
      BY <1>5, <2>4 DEF OneMoves, LifeCycle, Counted
    <3>2. D = C BY <2>1, <3>1
    <3> QED BY <1>2, <1>5, <2>4, <3>2 DEF OneMoves
  <2> QED BY <2>2, <2>3, <2>4
<1> QED BY <1>4, <1>5, StepMoves

(* Theorem: the WaitGroup counts exactly the goroutines that have started    *)
(* and not ended (system.go:133-134, 154), for any number of calls.          *)
THEOREM WaitGroupCorrect == Spec => []WaitGroupExact
<1>1. Init => WaitGroupExact
  <2> SUFFICES ASSUME Init PROVE WaitGroupExact OBVIOUS
  <2>1. {i \in Instances : run[i] \in Counted} = {} BY DEF Init, Counted
  <2> QED BY <2>1, FS_EmptySet DEF Init, WaitGroupExact
<1>2. TypeOK /\ RegistryInv /\ WaitGroupExact /\ [Next]_vars => WaitGroupExact'
  BY WaitGroupStep
<1> QED BY <1>1, <1>2, Invariant, PTL DEF Spec

-----------------------------------------------------------------------------
(* The instances Shutdown waits for were counted when it began, and have     *)
(* exited once it has seen the counter at zero.                              *)
PromisedInv ==
  /\ \A i \in promised : run[i] \in Counted \cup {"exited"}
  /\ PromisedHaveExited

LEMMA PromisedStep ==
  ASSUME TypeOK, RegistryInv, WaitGroupExact, PromisedInv, [Next]_vars
  PROVE  PromisedInv'
<1>0. promised \subseteq Instances BY DEF TypeOK
<1>1. ASSUME UNCHANGED <<sd, promised>> PROVE PromisedInv'
  BY <1>0, <1>1, Progress DEF PromisedInv, PromisedHaveExited
<1>2. CASE ShutdownClose
  BY <1>2 DEF ShutdownClose, instVars, PromisedInv, PromisedHaveExited
<1>3. CASE ShutdownCollect
  BY <1>3 DEF ShutdownCollect, instVars, PromisedInv, PromisedHaveExited
<1>4. CASE ShutdownWait
  <2> DEFINE C == {i \in Instances : run[i] \in Counted}
  <2>1. IsFiniteSet(C)
    <3>1. IsFiniteSet(Instances) BY SystemAssumption, FS_Interval DEF Instances
    <3> QED BY <3>1, FS_Subset
  <2>2. Cardinality(C) = 0 BY <1>4 DEF ShutdownWait, WaitGroupExact
  <2>3. C = {} BY <2>1, <2>2, FS_EmptySet
  <2>4. \A i \in promised : run[i] = "exited" BY <1>0, <2>3 DEF PromisedInv
  <2> QED BY <1>4, <2>4 DEF ShutdownWait, instVars, PromisedInv, PromisedHaveExited
<1>5. CASE ShutdownTell BY <1>1, <1>5 DEF ShutdownTell
<1>6. ASSUME NEW c \in Clients, ClientCall(c) \/ ClientStep(c) PROVE UNCHANGED <<sd, promised>>
  BY <1>6 DEF ClientCall, ClientStep, Spawn, StopActor, RestartActor, Tell, RestartSpawn,
              SpawnRegister, SpawnTaken, SpawnGo, StopTell, RestartTell, sdVars
<1>7. ASSUME NEW i \in Instances, RunActor(i) PROVE UNCHANGED <<sd, promised>>
  BY <1>7 DEF RunActor, OnPreStart, EnqueueStarted, Receive, SystemClosed, OnPostStop,
              Failed, FailedLookup, FailedTell, Done, Move, sdVars
<1>8. CASE UNCHANGED vars BY <1>1, <1>8 DEF vars, sdVars
<1> QED BY <1>1, <1>2, <1>3, <1>4, <1>5, <1>6, <1>7, <1>8 DEF Next, Shutdown

(* Theorem: when Shutdown returns, every actor whose goroutine ran when it   *)
(* began has left runActor (system.go:312-331), whatever the mailboxes drop  *)
(* and whoever spawns meanwhile.                                             *)
THEOREM ShutdownCorrect == Spec => []PromisedHaveExited
<1>1. Init => PromisedInv BY DEF Init, PromisedInv, PromisedHaveExited
<1>2. TypeOK /\ RegistryInv /\ WaitGroupExact /\ PromisedInv /\ [Next]_vars => PromisedInv'
  BY PromisedStep
<1>3. PromisedInv => PromisedHaveExited BY DEF PromisedInv
<1> QED BY <1>1, <1>2, <1>3, Invariant, WaitGroupCorrect, PTL DEF Spec

-----------------------------------------------------------------------------
(* Theorem: an entry leaves the registry only by a step of its own goroutine *)
(* and is never overwritten (system.go:104-107, 202-204, 221-223).           *)
THEOREM OwnerRemoves == Spec => OnlyOwnerRemoves
<1> DEFINE Step == \A a \in Ids : actors[a] # NoInstance /\ actors'[a] # actors[a] =>
                     /\ actors'[a] = NoInstance
                     /\ run[actors[a]] \in {"stopped", "failing"}
                     /\ run'[actors[a]] \in {"removed", "lookupSup"}
<1>1. ASSUME TypeOK, RegistryInv, [Next]_vars PROVE Step
  <2>1. ASSUME actors' = actors PROVE Step BY <2>1
  <2>2. ASSUME NEW i \in Instances, OnPostStop(i) \/ Failed(i) PROVE Step
    <3>1. run[i] \in {"stopped", "failing"} /\ idOf[i] \in Ids
      BY <1>1, <2>2 DEF OnPostStop, Failed, RegistryInv, Named
    <3>2. actors[idOf[i]] = i BY <1>1, <3>1 DEF RegistryInv, RegistryIdentity, Live
    <3>3. CASE actors' = actors BY <2>1, <3>3
    <3>4. CASE /\ actors' = [actors EXCEPT ![idOf[i]] = NoInstance]
               /\ \E w \in {"removed", "lookupSup"} : run' = [run EXCEPT ![i] = w]
      BY <1>1, <3>1, <3>2, <3>4 DEF TypeOK
    <3> QED BY <2>2, <3>3, <3>4 DEF OnPostStop, Failed, Move
  <2>3. ASSUME NEW i \in Instances, RunActor(i) PROVE Step
    BY <2>1, <2>2, <2>3 DEF RunActor, OnPreStart, EnqueueStarted, Receive, SystemClosed,
                            FailedLookup, FailedTell, Done, systemVars
  <2>4. ASSUME NEW c \in Clients, SpawnRegister(c) PROVE Step
    BY <1>1, <2>4 DEF SpawnRegister, TypeOK
  <2>5. ASSUME NEW c \in Clients, ClientCall(c) \/ ClientStep(c) PROVE Step
    BY <2>1, <2>4, <2>5 DEF ClientCall, ClientStep, Spawn, StopActor, RestartActor, Tell,
         RestartSpawn, SpawnTaken, SpawnGo, StopTell, RestartTell, systemVars
  <2>6. CASE Shutdown
    BY <2>1, <2>6 DEF Shutdown, ShutdownClose, ShutdownCollect, ShutdownTell, ShutdownWait,
                      systemVars
  <2>7. CASE UNCHANGED vars BY <2>1, <2>7 DEF vars, systemVars
  <2> QED BY <1>1, <2>3, <2>5, <2>6, <2>7 DEF Next
<1>2. TypeOK /\ RegistryInv /\ [Next]_vars => [Step]_vars BY <1>1
<1> QED BY <1>2, Invariant, PTL DEF Spec, OnlyOwnerRemoves

-----------------------------------------------------------------------------
(* An ActorFailed message is about an instance whose goroutine has left the  *)
(* registry and has nothing more to do than wg.Done.                         *)
Reported ==
  \A j \in Instances : \A k \in 1..Len(mailbox[j]) :
    mailbox[j][k].type = "ActorFailed" =>
      /\ mailbox[j][k].of \in Instances
      /\ run[mailbox[j][k].of] \in {"removed", "exited"}

(* What a mailbox holds after Enqueue was there before, or is the message. *)
LEMMA EnqueueHolds ==
  ASSUME TypeOK, NEW i, NEW m \in Message, Enqueue(i, m),
         NEW j \in Instances, NEW k \in 1..Len(mailbox'[j])
  PROVE  mailbox'[j][k] = m \/ \E l \in 1..Len(mailbox[j]) : mailbox'[j][k] = mailbox[j][l]
<1> DEFINE q == mailbox[j]
<1>1. q \in Seq(Message) BY DEF TypeOK
<1>2. \/ mailbox'[j] = q
      \/ mailbox'[j] = Append(q, m)
      \/ \E d \in 1..Len(q) : mailbox'[j] = Append(SubSeq(q, d + 1, Len(q)), m)
  <2>1. CASE i = j BY <2>1 DEF Enqueue, TypeOK
  <2>2. CASE i # j BY <2>2 DEF Enqueue, TypeOK
  <2> QED BY <2>1, <2>2
<1>3. CASE mailbox'[j] = q \/ mailbox'[j] = Append(q, m)
  BY <1>1, <1>3
<1>4. CASE \E d \in 1..Len(q) : mailbox'[j] = Append(SubSeq(q, d + 1, Len(q)), m)
  <2>1. PICK d \in 1..Len(q) : mailbox'[j] = Append(SubSeq(q, d + 1, Len(q)), m) BY <1>4
  <2> DEFINE s == SubSeq(q, d + 1, Len(q))
  <2>2. /\ s \in Seq(Message) /\ Len(s) = Len(q) - d
        /\ \A n \in 1..Len(s) : n + d \in 1..Len(q) /\ s[n] = q[n + d]
    BY <1>1, <2>1
  <2>3. mailbox'[j] = Append(s, m) BY <2>1
  <2> HIDE DEF s, q
  <2>4. /\ Len(mailbox'[j]) = Len(s) + 1
        /\ mailbox'[j][Len(s) + 1] = m
        /\ \A n \in 1..Len(s) : mailbox'[j][n] = s[n]
    <3>1. s \in Seq(Message) BY <2>2
    <3>2. /\ Len(Append(s, m)) = Len(s) + 1
          /\ Append(s, m)[Len(s) + 1] = m
          /\ \A n \in 1..Len(s) : Append(s, m)[n] = s[n]
      BY <3>1
    <3> QED BY <2>3, <3>2, Zenon
  <2>5. CASE k = Len(s) + 1 BY <2>4, <2>5
  <2>6. CASE k \in 1..Len(s)
    <3>1. mailbox'[j][k] = s[k] BY <2>4, <2>6
    <3>2. k + d \in 1..Len(q) /\ mailbox'[j][k] = q[k + d] BY <2>2, <2>6, <3>1
    <3> QED BY <3>2 DEF q
  <2> QED BY <2>2, <2>4, <2>5, <2>6
<1> QED BY <1>2, <1>3, <1>4

LEMMA ReportedStep ==
  ASSUME TypeOK, RegistryInv, Reported, [Next]_vars
  PROVE  Reported'
<1>1. \A i \in Instances : run[i] \in {"removed", "exited"} => run'[i] \in {"removed", "exited"}
  BY Progress
<1>2. ASSUME UNCHANGED mailbox PROVE Reported'
  BY <1>1, <1>2 DEF Reported
<1>3. ASSUME NEW i, NEW m \in {Plain, Stopping}, Enqueue(i, m) PROVE Reported'
  <2>1. m \in Message /\ m.type # "ActorFailed" BY MessageTypes DEF Plain, Stopping
  <2>2. \A j \in Instances : \A k \in 1..Len(mailbox'[j]) :
          mailbox'[j][k] = m \/ \E l \in 1..Len(mailbox[j]) : mailbox'[j][k] = mailbox[j][l]
    BY <1>3, <2>1, EnqueueHolds
  <2> QED BY <1>1, <2>1, <2>2 DEF Reported
<1>4. ASSUME NEW c \in Clients, ClientCall(c) \/ ClientStep(c) PROVE Reported'
  BY <1>2, <1>3, <1>4 DEF ClientCall, ClientStep, Spawn, StopActor, RestartActor, Tell,
       RestartSpawn, SpawnRegister, SpawnTaken, SpawnGo, StopTell, RestartTell, instVars
<1>5. CASE Shutdown
  BY <1>2, <1>3, <1>5 DEF Shutdown, ShutdownClose, ShutdownCollect, ShutdownTell,
                          ShutdownWait, instVars
<1>6. ASSUME NEW i \in Instances, FailedTell(i) PROVE Reported'
  <2> DEFINE m == ActorFailed(i)
  <2>1. m \in Message /\ m.of = i BY MessageTypes DEF ActorFailed
  <2>2. run'[i] = "removed" BY <1>6 DEF FailedTell, TypeOK
  <2>3. Enqueue(supRef[i], m) BY <1>6 DEF FailedTell
  <2> HIDE DEF m
  <2>4. \A j \in Instances : \A k \in 1..Len(mailbox'[j]) :
          mailbox'[j][k] = m \/ \E l \in 1..Len(mailbox[j]) : mailbox'[j][k] = mailbox[j][l]
    BY <2>1, <2>3, EnqueueHolds
  <2> QED BY <1>1, <2>1, <2>2, <2>4 DEF Reported
<1>7. ASSUME NEW i \in Instances, Receive(i) PROVE Reported'
  <2>1. mailbox[i] \in Seq(Message) /\ mailbox[i] # <<>> BY <1>7 DEF Receive, TypeOK
  <2>2. /\ Len(Tail(mailbox[i])) = Len(mailbox[i]) - 1
        /\ \A k \in 1..Len(Tail(mailbox[i])) :
             k + 1 \in 1..Len(mailbox[i]) /\ Tail(mailbox[i])[k] = mailbox[i][k + 1]
    BY <2>1
  <2>3. \A j \in Instances : mailbox'[j] = IF j = i THEN Tail(mailbox[i]) ELSE mailbox[j]
    BY <1>7 DEF Receive, TypeOK
  <2>4. \A j \in Instances : \A k \in 1..Len(mailbox'[j]) :
          \E l \in 1..Len(mailbox[j]) : mailbox'[j][k] = mailbox[j][l]
    BY <2>2, <2>3
  <2> SUFFICES ASSUME NEW j \in Instances, NEW k \in 1..Len(mailbox'[j]),
                      mailbox'[j][k].type = "ActorFailed"
               PROVE  LET e == mailbox'[j][k]
                      IN  e.of \in Instances /\ run'[e.of] \in {"removed", "exited"}
    BY DEF Reported
  <2>5. PICK n \in 1..Len(mailbox[j]) : mailbox'[j][k] = mailbox[j][n] BY <2>4
  <2> QED BY <1>1, <2>5 DEF Reported
<1>8. ASSUME NEW i \in Instances, RunActor(i) PROVE Reported'
  BY <1>2, <1>3, <1>6, <1>7, <1>8 DEF RunActor, OnPreStart, EnqueueStarted, SystemClosed,
                        OnPostStop, Failed, FailedLookup, Done
<1>9. CASE UNCHANGED vars BY <1>2, <1>9 DEF vars, instVars
<1> QED BY <1>4, <1>5, <1>8, <1>9 DEF Next

(* Theorem: a supervisor never holds a notice about an instance that is      *)
(* still registered (system.go:220-243), for any supervision tree.           *)
THEOREM NoticeAfterRemoval == Spec => []FailedIsGone
<1>1. Init => Reported
  BY DEF Init, Reported
<1>2. TypeOK /\ RegistryInv /\ Reported /\ [Next]_vars => Reported'
  BY ReportedStep
<1>3. ASSUME TypeOK, RegistryInv, Reported PROVE FailedIsGone
  <2> SUFFICES ASSUME NEW j \in Instances, NEW k \in 1..Len(mailbox[j]),
                      mailbox[j][k].type = "ActorFailed",
                      actors[idOf[mailbox[j][k].of]] = mailbox[j][k].of
               PROVE  FALSE
    BY DEF FailedIsGone
  <2> DEFINE i == mailbox[j][k].of
  <2>1. i \in Instances /\ run[i] \in {"removed", "exited"} BY <1>3 DEF Reported
  <2>2. idOf[i] \in Ids BY <1>3, <2>1 DEF RegistryInv, Named
  <2>3. i # NoInstance BY <2>1 DEF Instances, NoInstance
  <2>4. run[i] \in Live BY <1>3, <2>2, <2>3 DEF RegistryInv, RegistryIdentity
  <2> QED BY <2>1, <2>4 DEF Live
<1> QED BY <1>1, <1>2, <1>3, Invariant, PTL DEF Spec

=============================================================================
