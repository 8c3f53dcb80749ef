--------------------------- MODULE SupervisionProofs ---------------------------
(* Proofs about Supervision, for any set of actors, any strategies and any   *)
(* capacity of the supervisor's mailbox.                                     *)
(*                                                                           *)
(* The argument: of every actor at most one recovery is under way, as a      *)
(* notice, a message in the mailbox, a timer or a failure about to be passed *)
(* on, and only while the actor is down.  A step hands it on, ends it with a *)
(* new instance or gives it up.                                              *)
EXTENDS Supervision, FiniteSetTheorems, SequenceTheorems, TLAPS

Messages == [type : Types, id : Ids] \cup {HeartbeatTick}

(* What the step of one actor must keep: n notices, t recoveries that wait   *)
(* outside the mailbox, c messages in it.                                    *)
Sound(n, t, c, st, ex) == /\ n + t + c <= 1
                          /\ n + t + c = 1 => st = "failed"
                          /\ st = "failed" => n + t + c > 0 \/ ex

Count(q, a) == Cardinality(Places(q, a))
Waiting(a)  == timers[a] + PassedOn(a)

Kinds == /\ status \in [Ids -> {"new", "up", "stopping", "left", "failed"}]
         /\ notices \in [Ids -> Nat]
         /\ timers \in [Ids -> Nat]
         /\ mailbox \in Seq(Messages)
         /\ excused \subseteq Ids
         /\ escalating \subseteq Ids

Inv == /\ Kinds
       /\ \A a \in Ids : Sound(notices[a], Waiting(a), Count(mailbox, a), status[a], a \in excused)

-----------------------------------------------------------------------------
LEMMA MsgKinds ==
  /\ \A t \in Types, a \in Ids : Msg(t, a) \in Messages
  /\ HeartbeatTick \in Messages
  /\ \A t, a, b : Msg(t, a) \in {Msg("ActorFailed", b), Msg("DelayedRestart", b)} <=>
                    a = b /\ t \in {"ActorFailed", "DelayedRestart"}
  /\ \A b : HeartbeatTick \notin {Msg("ActorFailed", b), Msg("DelayedRestart", b)}
<1>1. \A t, a : Msg(t, a).type = t /\ Msg(t, a).id = a BY DEF Msg
<1>2. HeartbeatTick.type = "HeartbeatTick" BY DEF HeartbeatTick
<1>3. \A t \in Types, a \in Ids : Msg(t, a) \in Messages BY DEF Msg, Messages
<1> QED BY <1>1, <1>2, <1>3 DEF Messages

LEMMA PlacesFinite ==
  ASSUME NEW S, NEW q \in Seq(S), NEW a
  PROVE  IsFiniteSet(Places(q, a)) /\ Count(q, a) \in Nat
<1>1. Len(q) \in Nat BY LenProperties
<1>2. IsFiniteSet(1..Len(q)) BY <1>1, FS_Interval
<1>3. Places(q, a) \subseteq 1..Len(q) BY DEF Places
<1> QED BY <1>2, <1>3, FS_Subset, FS_CardinalityType DEF Count

LEMMA CountAppend ==
  ASSUME NEW S, NEW q \in Seq(S), NEW m \in S, NEW a
  PROVE  /\ m \in {Msg("ActorFailed", a), Msg("DelayedRestart", a)} =>
              Count(Append(q, m), a) = Count(q, a) + 1
         /\ m \notin {Msg("ActorFailed", a), Msg("DelayedRestart", a)} =>
              Count(Append(q, m), a) = Count(q, a)
<1> DEFINE p == Append(q, m)
           M == {Msg("ActorFailed", a), Msg("DelayedRestart", a)}
           n == Len(q) + 1
<1>1. /\ Len(q) \in Nat /\ Len(p) = n
      /\ \A k \in 1..Len(q) : p[k] = q[k]
      /\ p[n] = m
  BY LenProperties, AppendProperties
<1>0. 1..n = 1..Len(q) \cup {n} BY <1>1
<1>2. \A r, k : k \in Places(r, a) <=> k \in 1..Len(r) /\ r[k] \in M BY DEF Places
<1> HIDE DEF p, M
<1>3. n \notin Places(q, a) BY <1>1, <1>2
<1>4. IsFiniteSet(Places(q, a)) BY PlacesFinite
<1>5. CASE m \in M
  <2>1. Places(p, a) = Places(q, a) \cup {n} BY <1>0, <1>1, <1>2, <1>5
  <2>2. Cardinality(Places(q, a) \cup {n}) = Cardinality(Places(q, a)) + 1
    BY <1>3, <1>4, FS_AddElement
  <2> QED BY <1>5, <2>1, <2>2 DEF Count, p, M
<1>6. CASE m \notin M
  <2>1. \A k : k \in Places(p, a) <=> k \in Places(q, a) BY <1>0, <1>1, <1>2, <1>6
  <2>2. Places(p, a) = Places(q, a) BY <2>1 DEF Places
  <2> QED BY <1>6, <2>2 DEF Count, p, M
<1> QED BY <1>5, <1>6

LEMMA CountTail ==
  ASSUME NEW S, NEW q \in Seq(S), q # <<>>, NEW a
  PROVE  /\ Head(q) \in {Msg("ActorFailed", a), Msg("DelayedRestart", a)} =>
              Count(Tail(q), a) = Count(q, a) - 1
         /\ Head(q) \notin {Msg("ActorFailed", a), Msg("DelayedRestart", a)} =>
              Count(Tail(q), a) = Count(q, a)
<1> DEFINE p == Tail(q)
           M == {Msg("ActorFailed", a), Msg("DelayedRestart", a)}
           P == Places(p, a)
           Q == Places(q, a)
           T == Q \ {1}
           f == [i \in P |-> i + 1]
<1>1. /\ Len(q) \in Nat /\ Len(p) = Len(q) - 1
      /\ \A k \in 1..Len(p) : p[k] = q[k + 1]
      /\ 1 \in 1..Len(q) /\ Head(q) = q[1]
  BY LenProperties, HeadTailProperties
<1>2. \A r, k : k \in Places(r, a) <=> k \in 1..Len(r) /\ r[k] \in M BY DEF Places
<1>3. IsFiniteSet(Q) BY PlacesFinite
<1> HIDE DEF p, M
<1>4. \A k \in P : k \in Int /\ k + 1 \in T BY <1>1, <1>2
<1>5. \A k \in T : k - 1 \in P /\ k \in Int
  <2> SUFFICES ASSUME NEW k \in T PROVE k - 1 \in P /\ k \in Int OBVIOUS
  <2>1. k \in 2..Len(q) /\ q[k] \in M BY <1>1, <1>2
  <2>2. k - 1 \in 1..Len(p) /\ (k - 1) + 1 = k BY <1>1, <2>1
  <2> QED BY <1>1, <1>2, <2>1, <2>2
<1> HIDE DEF T, P
<1>6. f \in Injection(P, T) BY <1>4 DEF Injection, IsInjective
<1>7. f \in Surjection(P, T)
  <2>1. \A k \in T : f[k - 1] = k BY <1>5
  <2> QED BY <1>4, <1>5, <2>1 DEF Surjection
<1>8. IsFiniteSet(T) BY <1>3, FS_Subset DEF T
<1>9. Cardinality(P) = Cardinality(T) BY <1>6, <1>7, <1>8, FS_Injection
<1>10. CASE Head(q) \in M
  <2>1. 1 \in Q BY <1>1, <1>2, <1>10
  <2>2. Cardinality(T) = Cardinality(Q) - 1 BY <1>3, <2>1, FS_RemoveElement DEF T
  <2> QED BY <1>9, <1>10, <2>2 DEF Count, P, p, M
<1>11. CASE Head(q) \notin M
  <2>1. T = Q BY <1>1, <1>2, <1>11 DEF T
  <2> QED BY <1>9, <1>11, <2>1 DEF Count, P, p, M
<1> QED BY <1>10, <1>11

-----------------------------------------------------------------------------
(* The mailbox after a Tell of m, and after its head, about a, is taken. *)
Concerns(t) == t \in {"ActorFailed", "DelayedRestart"}

LEMMA Told ==
  ASSUME Kinds, NEW m \in Messages, TellSupervisor(m)
  PROVE  /\ mailbox' \in Seq(Messages)
         /\ \A b \in Ids : /\ Count(mailbox, b) \in Nat
                           /\ Full => Count(mailbox', b) = Count(mailbox, b)
                           /\ \A t \in Types, a \in Ids : m = Msg(t, a) =>
                                Count(mailbox', b) = Count(mailbox, b)
                                  + (IF ~Full /\ a = b /\ Concerns(t) THEN 1 ELSE 0)
                           /\ m = HeartbeatTick => Count(mailbox', b) = Count(mailbox, b)
<1>1. mailbox \in Seq(Messages) BY DEF Kinds
<1>2. \A b \in Ids : Count(mailbox, b) \in Nat BY <1>1, PlacesFinite
<1>3. CASE Full BY <1>1, <1>2, <1>3 DEF TellSupervisor
<1>4. CASE ~Full
  <2>1. mailbox' = Append(mailbox, m) BY <1>4 DEF TellSupervisor
  <2>2. mailbox' \in Seq(Messages) BY <1>1, <2>1, AppendProperties
  <2>3. \A b \in Ids :
          /\ m \in {Msg("ActorFailed", b), Msg("DelayedRestart", b)} =>
               Count(mailbox', b) = Count(mailbox, b) + 1
          /\ m \notin {Msg("ActorFailed", b), Msg("DelayedRestart", b)} =>
               Count(mailbox', b) = Count(mailbox, b)
    BY <1>1, <2>1, CountAppend
  <2> SUFFICES ASSUME NEW b \in Ids
               PROVE  /\ \A t \in Types, a \in Ids : m = Msg(t, a) =>
                           Count(mailbox', b) = Count(mailbox, b)
                             + (IF a = b /\ Concerns(t) THEN 1 ELSE 0)
                      /\ m = HeartbeatTick => Count(mailbox', b) = Count(mailbox, b)
    BY <1>2, <1>4, <2>2
  <2>4. ASSUME NEW t \in Types, NEW a \in Ids, m = Msg(t, a)
        PROVE  Count(mailbox', b) = Count(mailbox, b) + (IF a = b /\ Concerns(t) THEN 1 ELSE 0)
    <3>1. m \in {Msg("ActorFailed", b), Msg("DelayedRestart", b)} <=> a = b /\ Concerns(t)
      BY <2>4, MsgKinds DEF Concerns
    <3> QED BY <1>2, <2>3, <3>1
  <2>5. m = HeartbeatTick => Count(mailbox', b) = Count(mailbox, b) BY <2>3, MsgKinds
  <2> QED BY <2>4, <2>5
<1> QED BY <1>3, <1>4

LEMMA Took ==
  ASSUME Kinds, NEW a \in Ids, NEW t \in Types, Receiving(t, a)
  PROVE  /\ mailbox # <<>> /\ Tail(mailbox) \in Seq(Messages)
         /\ \A b \in Ids : /\ Count(mailbox, b) \in Nat /\ Count(Tail(mailbox), b) \in Nat
                           /\ Count(mailbox, b) = Count(Tail(mailbox), b)
                                + (IF a = b /\ Concerns(t) THEN 1 ELSE 0)
<1>1. mailbox \in Seq(Messages) /\ mailbox # <<>> /\ Head(mailbox) = Msg(t, a)
  BY DEF Kinds, Receiving, Ready
<1>2. Tail(mailbox) \in Seq(Messages) BY <1>1, HeadTailProperties
<1>3. \A b \in Ids : Count(mailbox, b) \in Nat /\ Count(Tail(mailbox), b) \in Nat
  BY <1>1, <1>2, PlacesFinite
<1>4. ASSUME NEW b \in Ids
      PROVE  Count(mailbox, b) = Count(Tail(mailbox), b) + (IF a = b /\ Concerns(t) THEN 1 ELSE 0)
  <2>1. Head(mailbox) \in {Msg("ActorFailed", b), Msg("DelayedRestart", b)} <=> a = b /\ Concerns(t)
    BY <1>1, MsgKinds DEF Concerns
  <2>2. /\ Head(mailbox) \in {Msg("ActorFailed", b), Msg("DelayedRestart", b)} =>
             Count(Tail(mailbox), b) = Count(mailbox, b) - 1
        /\ Head(mailbox) \notin {Msg("ActorFailed", b), Msg("DelayedRestart", b)} =>
             Count(Tail(mailbox), b) = Count(mailbox, b)
    BY <1>1, CountTail
  <2> QED BY <1>3, <2>1, <2>2
<1> QED BY <1>1, <1>2, <1>3, <1>4

(* A step about one actor. *)
LEMMA OneActor ==
  ASSUME Inv, Kinds', NEW a \in Ids,
         \A b \in Ids \ {a} : /\ status'[b] = status[b] /\ notices'[b] = notices[b]
                              /\ Waiting(b)' = Waiting(b)
                              /\ Count(mailbox', b) = Count(mailbox, b)
                              /\ b \in excused' <=> b \in excused,
         Sound(notices'[a], Waiting(a)', Count(mailbox', a), status'[a], a \in excused')
  PROVE  Inv'
<1> SUFFICES ASSUME NEW b \in Ids
             PROVE  Sound(notices'[b], Waiting(b)', Count(mailbox', b), status'[b], b \in excused')
  BY DEF Inv
<1>1. CASE b = a BY <1>1
<1>2. CASE b # a
  <2>1. Sound(notices[b], Waiting(b), Count(mailbox, b), status[b], b \in excused) BY DEF Inv
  <2> QED BY <1>2, <2>1 DEF Sound
<1> QED BY <1>1, <1>2

LEMMA SameWaiting ==
  ASSUME UNCHANGED <<timers, escalating>>
  PROVE  \A b : Waiting(b)' = Waiting(b)
BY DEF Waiting, PassedOn

LEMMA WaitingNat ==
  ASSUME Kinds, NEW a \in Ids
  PROVE  Waiting(a) \in Nat
BY DEF Kinds, Waiting, PassedOn

(* Nothing that concerns a recovery. *)
LEMMA Quiet ==
  ASSUME Inv, mailbox' \in Seq(Messages),
         UNCHANGED <<status, notices, timers, escalating, excused>>,
         \A b \in Ids : Count(mailbox', b) = Count(mailbox, b)
  PROVE  Inv'
<1>1. Kinds' BY DEF Inv, Kinds
<1>2. \A b : Waiting(b)' = Waiting(b) BY SameWaiting
<1> QED BY <1>1, <1>2 DEF Inv, Sound

-----------------------------------------------------------------------------
(* Steps of the program, the clock and the heartbeats. *)
LEMMA QuietSteps ==
  ASSUME Inv,
         \/ \E a \in Ids : Tell(a) \/ AnswerCheck(a) \/ HandleRegister(a)
                           \/ HandleUnregister(a) \/ HandleHeartbeat(a)
         \/ HandleHeartbeatTick \/ Beat \/ Tick \/ UNCHANGED vars
  PROVE  Inv'
<1>1. Kinds /\ mailbox \in Seq(Messages) BY DEF Inv, Kinds
<1>2. /\ "Register" \in Types /\ "Unregister" \in Types /\ "Heartbeat" \in Types
      /\ ~Concerns("Register") /\ ~Concerns("Unregister") /\ ~Concerns("Heartbeat")
  BY DEF Types, Concerns
<1>3. ASSUME NEW a \in Ids, NEW t \in {"Register", "Unregister", "Heartbeat"},
             TellSupervisor(Msg(t, a)), UNCHANGED <<status, notices, timers, escalating, excused>>
      PROVE  Inv'
  <2>1. t \in Types /\ ~Concerns(t) BY <1>2
  <2>2. Msg(t, a) \in Messages BY <2>1, MsgKinds
  <2>3. mailbox' \in Seq(Messages) /\ \A b \in Ids : Count(mailbox', b) = Count(mailbox, b)
    BY <1>1, <1>3, <2>1, <2>2, Told
  <2> QED BY <1>3, <2>3, Quiet
<1>4. ASSUME NEW a \in Ids, NEW t \in {"Register", "Unregister", "Heartbeat"}, Receiving(t, a),
             mailbox' = Tail(mailbox), UNCHANGED <<status, notices, timers, escalating, excused>>
      PROVE  Inv'
  <2>1. t \in Types /\ ~Concerns(t) BY <1>2
  <2>2. mailbox' \in Seq(Messages) /\ \A b \in Ids : Count(mailbox', b) = Count(mailbox, b)
    BY <1>1, <1>4, <2>1, Took
  <2> QED BY <1>4, <2>2, Quiet
<1>5. ASSUME NEW a \in Ids, Tell(a) \/ AnswerCheck(a) PROVE Inv'
  BY <1>3, <1>5 DEF Tell, AnswerCheck, supervisorVars
<1>6. ASSUME NEW a \in Ids, HandleRegister(a) \/ HandleUnregister(a) \/ HandleHeartbeat(a)
      PROVE  Inv'
  BY <1>4, <1>6 DEF HandleRegister, HandleUnregister, HandleHeartbeat, supervisorVars, handlerFrame
<1>7. CASE HandleHeartbeatTick
  <2>1. /\ mailbox # <<>> /\ Head(mailbox) = HeartbeatTick /\ mailbox' = Tail(mailbox)
        /\ UNCHANGED <<status, notices, timers, escalating, excused>>
    BY <1>7 DEF HandleHeartbeatTick, Ready, supervisorVars
  <2>2. mailbox' \in Seq(Messages) BY <1>1, <2>1, HeadTailProperties
  <2>3. \A b \in Ids : Count(mailbox', b) = Count(mailbox, b) BY <1>1, <2>1, CountTail, MsgKinds
  <2> QED BY <2>1, <2>2, <2>3, Quiet
<1>8. CASE Beat
  <2>1. TellSupervisor(HeartbeatTick) /\ UNCHANGED <<status, notices, timers, escalating, excused>>
    BY <1>8 DEF Beat, supervisorVars
  <2>2. mailbox' \in Seq(Messages) /\ \A b \in Ids : Count(mailbox', b) = Count(mailbox, b)
    BY <1>1, <2>1, Told, MsgKinds
  <2> QED BY <2>1, <2>2, Quiet
<1>9. CASE Tick \/ UNCHANGED vars
  <2>1. UNCHANGED <<status, notices, timers, escalating, excused, mailbox>>
    BY <1>9 DEF Tick, vars, supervisorVars
  <2> QED BY <1>1, <2>1, Quiet
<1> QED BY <1>5, <1>6, <1>7, <1>8, <1>9

(* An actor is spawned, asked to stop, or leaves: none that has failed. *)
LEMMA ActorSteps ==
  ASSUME Inv, NEW a \in Ids, Spawn(a) \/ StopActor(a) \/ Leave(a)
  PROVE  Inv'
<1>1. /\ status[a] # "failed" /\ UNCHANGED <<notices, timers, escalating, excused, mailbox>>
      /\ \E st \in {"up", "stopping", "left"} : status' = [status EXCEPT ![a] = st]
  BY DEF Spawn, StopActor, Leave, supervisorVars
<1>2. PICK st \in {"up", "stopping", "left"} : status' = [status EXCEPT ![a] = st] BY <1>1
<1>3. Kinds' BY <1>1, <1>2 DEF Inv, Kinds
<1>4. status'[a] = st /\ st # "failed" /\ \A b \in Ids \ {a} : status'[b] = status[b]
  BY <1>2 DEF Inv, Kinds
<1>5. Sound(notices[a], Waiting(a), Count(mailbox, a), st, a \in excused) BY <1>1 DEF Inv, Sound
<1>6. \A b : Waiting(b)' = Waiting(b) BY <1>1, SameWaiting
<1> QED BY <1>1, <1>3, <1>4, <1>5, <1>6, OneActor

(* An actor fails: its recovery begins. *)
LEMMA FailInv ==
  ASSUME Inv, NEW a \in Ids, Fail(a)
  PROVE  Inv'
<1>1. /\ status[a] # "failed" /\ UNCHANGED <<timers, escalating, excused, mailbox>>
      /\ status' = [status EXCEPT ![a] = "failed"]
      /\ notices' = [notices EXCEPT ![a] = @ + 1]
  BY DEF Fail, supervisorVars
<1>2. Kinds' BY <1>1 DEF Inv, Kinds
<1>3. /\ status'[a] = "failed" /\ notices'[a] = notices[a] + 1
      /\ \A b \in Ids \ {a} : status'[b] = status[b] /\ notices'[b] = notices[b]
  BY <1>1 DEF Inv, Kinds
<1>4. notices[a] \in Nat /\ Waiting(a) \in Nat /\ Count(mailbox, a) \in Nat
  BY PlacesFinite, WaitingNat DEF Inv, Kinds
<1>5. Sound(notices[a], Waiting(a), Count(mailbox, a), status[a], a \in excused) BY DEF Inv
<1>6. Sound(notices[a] + 1, Waiting(a), Count(mailbox, a), "failed", a \in excused)
  BY <1>1, <1>4, <1>5 DEF Sound
<1>7. \A b : Waiting(b)' = Waiting(b) BY <1>1, SameWaiting
<1> QED BY <1>1, <1>2, <1>3, <1>6, <1>7, OneActor

(* The notice, the timer or the failure that is passed on becomes a message, *)
(* unless the mailbox is full.                                               *)
LEMMA HandedOnInv ==
  ASSUME Inv, NEW a \in Ids, Notify(a) \/ TimerFires(a) \/ DoEscalate(a)
  PROVE  Inv'
<1>1. PICK t \in {"ActorFailed", "DelayedRestart"} :
        /\ TellRecovery(Msg(t, a)) /\ UNCHANGED status
        /\ \/ /\ notices[a] > 0 /\ notices' = [notices EXCEPT ![a] = @ - 1]
              /\ UNCHANGED <<timers, escalating>>
           \/ /\ timers[a] > 0 /\ timers' = [timers EXCEPT ![a] = @ - 1]
              /\ UNCHANGED <<notices, escalating>>
           \/ /\ a \in escalating /\ escalating' = escalating \ {a}
              /\ UNCHANGED <<notices, timers>>
  BY DEF Notify, TimerFires, DoEscalate, supervisorVars
<1>2. t \in Types /\ Concerns(t) BY DEF Types, Concerns
<1>3. Msg(t, a) \in Messages /\ Msg(t, a).id = a BY <1>2, MsgKinds DEF Msg
<1>4. /\ TellSupervisor(Msg(t, a))
      /\ excused' = IF Full THEN excused \cup {a} ELSE excused
  BY <1>1, <1>3 DEF TellRecovery
<1>5. /\ mailbox' \in Seq(Messages) /\ Count(mailbox, a) \in Nat
      /\ \A b \in Ids \ {a} : Count(mailbox', b) = Count(mailbox, b)
      /\ Count(mailbox', a) = Count(mailbox, a) + (IF Full THEN 0 ELSE 1)
  <2> DEFINE m == Msg(t, a)
  <2>1. Kinds /\ m \in Messages /\ TellSupervisor(m) /\ m = Msg(t, a) BY <1>3, <1>4 DEF Inv
  <2> HIDE DEF m
  <2>2. /\ mailbox' \in Seq(Messages)
        /\ \A b \in Ids : /\ Count(mailbox, b) \in Nat
                          /\ Count(mailbox', b) = Count(mailbox, b)
                               + (IF ~Full /\ a = b /\ Concerns(t) THEN 1 ELSE 0)
    BY <1>2, <2>1, Told
  <2> QED BY <1>2, <2>2
<1>6. notices[a] \in Nat /\ Waiting(a) \in Nat BY WaitingNat DEF Inv, Kinds
<1>7. /\ notices' \in [Ids -> Nat] /\ timers' \in [Ids -> Nat] /\ escalating' \subseteq Ids
      /\ \A b \in Ids \ {a} : notices'[b] = notices[b] /\ Waiting(b)' = Waiting(b)
      /\ \/ notices'[a] = notices[a] - 1 /\ Waiting(a)' = Waiting(a)
         \/ notices'[a] = notices[a] /\ Waiting(a)' = Waiting(a) - 1
  <2>0. /\ notices \in [Ids -> Nat] /\ timers \in [Ids -> Nat] /\ escalating \subseteq Ids
        /\ notices[a] \in Nat /\ timers[a] \in Nat
    BY DEF Inv, Kinds
  <2>1. CASE /\ notices[a] > 0 /\ notices' = [notices EXCEPT ![a] = @ - 1]
             /\ UNCHANGED <<timers, escalating>>
    <3>1. notices[a] - 1 \in Nat BY <2>0, <2>1
    <3>2. \A b : Waiting(b)' = Waiting(b) BY <2>1, SameWaiting
    <3> QED BY <2>0, <2>1, <3>1, <3>2
  <2>2. CASE /\ timers[a] > 0 /\ timers' = [timers EXCEPT ![a] = @ - 1]
             /\ UNCHANGED <<notices, escalating>>
    <3>1. timers[a] - 1 \in Nat BY <2>0, <2>2
    <3>2. /\ timers' \in [Ids -> Nat] /\ timers'[a] = timers[a] - 1
          /\ \A b \in Ids \ {a} : timers'[b] = timers[b]
      BY <2>0, <2>2, <3>1
    <3>3. \A b : PassedOn(b)' = PassedOn(b) /\ PassedOn(b) \in Nat BY <2>2 DEF PassedOn
    <3> QED BY <2>0, <2>2, <3>2, <3>3 DEF Waiting
  <2>3. CASE /\ a \in escalating /\ escalating' = escalating \ {a}
             /\ UNCHANGED <<notices, timers>>
    <3>1. /\ PassedOn(a)' = 0 /\ PassedOn(a) = 1
          /\ \A b \in Ids \ {a} : PassedOn(b)' = PassedOn(b)
      BY <2>3 DEF PassedOn
    <3> QED BY <2>0, <2>3, <3>1 DEF Waiting
  <2> QED BY <1>1, <2>1, <2>2, <2>3
<1>8. Kinds' /\ notices'[a] \in Nat /\ Waiting(a)' \in Nat
  <2>1. Kinds' BY <1>1, <1>4, <1>5, <1>7 DEF Inv, Kinds
  <2>2. Waiting(a)' \in Nat BY <2>1 DEF Kinds, Waiting, PassedOn
  <2> QED BY <2>1, <2>2, <1>7 DEF Kinds
<1>9. Sound(notices[a], Waiting(a), Count(mailbox, a), status[a], a \in excused) BY DEF Inv
<1>10. Sound(notices'[a], Waiting(a)', Count(mailbox', a), status'[a], a \in excused')
  <2> DEFINE x == notices[a] + Waiting(a)
             y == notices'[a] + Waiting(a)'
             c == Count(mailbox, a)
             d == Count(mailbox', a)
  <2>1. x \in Nat /\ y \in Nat /\ c \in Nat /\ y = x - 1 /\ status'[a] = status[a]
    <3>1. x \in Nat /\ c \in Nat BY <1>5, <1>6
    <3>2. y \in Nat /\ y = x - 1 BY <1>6, <1>7, <1>8
    <3>3. status'[a] = status[a] BY <1>1
    <3> QED BY <3>1, <3>2, <3>3
  <2>2. /\ x + c <= 1
        /\ x + c = 1 => status[a] = "failed"
        /\ status[a] = "failed" => x + c > 0 \/ a \in excused
    BY <1>9 DEF Sound
  <2>3. CASE Full
    <3>1. a \in excused' BY <1>4, <2>3
    <3>2. d = c BY <1>5, <2>3
    <3> HIDE DEF x, y, c, d
    <3>3. y + d <= 1 /\ y + d # 1 BY <2>1, <2>2, <3>2
    <3> QED BY <2>1, <3>1, <3>3 DEF Sound, y, d
  <2>4. CASE ~Full
    <3>1. excused' = excused BY <1>4, <2>4
    <3>2. d = c + 1 BY <1>5, <2>4
    <3> HIDE DEF x, y, c, d
    <3>3. y + d = x + c BY <2>1, <3>2
    <3> QED BY <2>1, <2>2, <3>1, <3>3 DEF Sound, y, d
  <2> QED BY <2>3, <2>4
<1>11. \A b \in Ids \ {a} : b \in excused' <=> b \in excused BY <1>4
<1> QED BY <1>1, <1>5, <1>7, <1>8, <1>10, <1>11, OneActor

(* The message of a recovery is the only one under way, for an actor that    *)
(* has failed.                                                               *)
LEMMA RecoveryAlone ==
  ASSUME Inv, NEW a \in Ids, NEW t \in {"ActorFailed", "DelayedRestart"}, Receiving(t, a)
  PROVE  /\ mailbox # <<>> /\ Tail(mailbox) \in Seq(Messages)
         /\ \A b \in Ids \ {a} : Count(Tail(mailbox), b) = Count(mailbox, b)
         /\ notices[a] = 0 /\ Waiting(a) = 0 /\ Count(Tail(mailbox), a) = 0
         /\ status[a] = "failed"
<1>1. t \in Types /\ Concerns(t) /\ Kinds BY DEF Types, Concerns, Inv
<1>2. /\ mailbox # <<>> /\ Tail(mailbox) \in Seq(Messages)
      /\ \A b \in Ids : /\ Count(mailbox, b) \in Nat /\ Count(Tail(mailbox), b) \in Nat
                        /\ Count(mailbox, b) = Count(Tail(mailbox), b)
                             + (IF a = b /\ Concerns(t) THEN 1 ELSE 0)
  BY <1>1, Took
<1>3. Count(mailbox, a) = Count(Tail(mailbox), a) + 1 BY <1>1, <1>2
<1>4. notices[a] \in Nat /\ Waiting(a) \in Nat /\ Count(Tail(mailbox), a) \in Nat
  BY <1>1, <1>2, WaitingNat DEF Inv, Kinds
<1>5. Sound(notices[a], Waiting(a), Count(mailbox, a), status[a], a \in excused) BY DEF Inv
<1>6. notices[a] + Waiting(a) + Count(mailbox, a) <= 1 BY <1>5 DEF Sound
<1>7. notices[a] = 0 /\ Waiting(a) = 0 /\ Count(Tail(mailbox), a) = 0 BY <1>3, <1>4, <1>6
<1>8. status[a] = "failed"
  <2>1. notices[a] + Waiting(a) + Count(mailbox, a) = 1 BY <1>3, <1>7
  <2> QED BY <1>5, <2>1 DEF Sound
<1> QED BY <1>2, <1>7, <1>8

(* The recovery ends with a new instance: the instance that a restart of a   *)
(* registered actor would stop is never there.                               *)
LEMMA RestartInv ==
  ASSUME Inv, NEW a \in Ids, NEW t \in {"ActorFailed", "DelayedRestart"}, Receiving(t, a),
         NEW fs, DoRestart(a, fs), mailbox' = Tail(mailbox),
         UNCHANGED <<notices, timers, escalating>>
  PROVE  Inv'
<1>1. /\ mailbox # <<>> /\ Tail(mailbox) \in Seq(Messages)
      /\ \A b \in Ids \ {a} : Count(Tail(mailbox), b) = Count(mailbox, b)
      /\ notices[a] = 0 /\ Waiting(a) = 0 /\ Count(Tail(mailbox), a) = 0
      /\ status[a] = "failed"
  BY RecoveryAlone
<1>2. status' = [status EXCEPT ![a] = "up"] /\ excused' = excused \ {a} BY <1>1 DEF DoRestart
<1>3. Kinds' BY <1>1, <1>2 DEF Inv, Kinds
<1>4. status'[a] = "up" /\ \A b \in Ids \ {a} : status'[b] = status[b] /\ (b \in excused' <=> b \in excused)
  BY <1>2 DEF Inv, Kinds
<1>5. Sound(notices'[a], Waiting(a)', Count(mailbox', a), status'[a], a \in excused')
  <2>1. notices'[a] = 0 /\ Waiting(a)' = 0 /\ Count(mailbox', a) = 0 BY <1>1, SameWaiting
  <2> QED BY <1>4, <2>1 DEF Sound
<1>6. \A b : Waiting(b)' = Waiting(b) BY SameWaiting
<1> QED BY <1>1, <1>3, <1>4, <1>5, <1>6, OneActor

(* A failure is dealt with: restart, timer, escalation or the end. *)
LEMMA HandleFailureInv ==
  ASSUME Inv, NEW a \in Ids, HandleFailure(a) \/ IgnoreFailure(a)
  PROVE  Inv'
<1>1. Receiving("ActorFailed", a) /\ mailbox' = Tail(mailbox) /\ UNCHANGED notices
  BY DEF HandleFailure, IgnoreFailure, handlerFrame
<1>2. /\ mailbox # <<>> /\ Tail(mailbox) \in Seq(Messages)
      /\ \A b \in Ids \ {a} : Count(Tail(mailbox), b) = Count(mailbox, b)
      /\ notices[a] = 0 /\ Waiting(a) = 0 /\ Count(Tail(mailbox), a) = 0
      /\ status[a] = "failed"
  BY <1>1, RecoveryAlone
<1>3. CASE excused' = excused \cup {a} /\ UNCHANGED <<status, timers, escalating>>
  <2>1. Kinds' BY <1>1, <1>2, <1>3 DEF Inv, Kinds
  <2>2. Sound(notices'[a], Waiting(a)', Count(mailbox', a), status'[a], a \in excused')
    <3>1. notices'[a] = 0 /\ Waiting(a)' = 0 /\ Count(mailbox', a) = 0 /\ a \in excused'
      BY <1>1, <1>2, <1>3, SameWaiting
    <3> QED BY <3>1 DEF Sound
  <2>3. \A b \in Ids \ {a} : (b \in excused' <=> b \in excused) /\ Waiting(b)' = Waiting(b)
    BY <1>3, SameWaiting
  <2> QED BY <1>1, <1>2, <1>3, <2>1, <2>2, <2>3, OneActor
<1>4. CASE /\ \/ timers' = [timers EXCEPT ![a] = @ + 1] /\ UNCHANGED escalating
              \/ escalating' = {a} /\ UNCHANGED timers
           /\ UNCHANGED <<status, excused>>
  <2>1. timers \in [Ids -> Nat] /\ timers[a] \in Nat /\ escalating = {}
    BY <1>1 DEF Inv, Kinds, Receiving, Ready
  <2>2. timers[a] = 0 BY <1>2, <2>1 DEF Waiting, PassedOn
  <2>3. timers' \in [Ids -> Nat] /\ escalating' \subseteq Ids BY <1>4, <2>1
  <2>4. Kinds' BY <1>1, <1>2, <1>4, <2>3 DEF Inv, Kinds
  <2>5. Waiting(a)' = 1 /\ \A b \in Ids \ {a} : Waiting(b)' = Waiting(b)
    BY <1>4, <2>1, <2>2 DEF Waiting, PassedOn
  <2>6. Sound(notices'[a], Waiting(a)', Count(mailbox', a), status'[a], a \in excused')
    <3>1. notices'[a] = 0 /\ Count(mailbox', a) = 0 /\ status'[a] = "failed" BY <1>1, <1>2, <1>4
    <3> QED BY <2>5, <3>1 DEF Sound
  <2> QED BY <1>1, <1>2, <1>4, <2>4, <2>5, <2>6, OneActor
<1>5. CASE HandleFailure(a)
  <2> DEFINE fs == Record(a)
             decision == OnFailure(strategy, fs)
  <2>1. Act(a, fs, decision) BY <1>5 DEF HandleFailure
  <2> HIDE DEF fs, decision
  <2>2. CASE DoRestart(a, fs) /\ UNCHANGED <<timers, escalating>> BY <1>1, <2>2, RestartInv
  <2> QED BY <1>3, <1>4, <2>1, <2>2 DEF Act
<1>6. CASE IgnoreFailure(a) BY <1>3, <1>6 DEF IgnoreFailure, handlerFrame
<1> QED BY <1>5, <1>6

LEMMA HandleDelayedRestartInv ==
  ASSUME Inv, NEW a \in Ids, HandleDelayedRestart(a)
  PROVE  Inv'
<1>1. /\ Receiving("DelayedRestart", a) /\ DoRestart(a, failures[a])
      /\ mailbox' = Tail(mailbox) /\ UNCHANGED <<notices, timers, escalating>>
  BY DEF HandleDelayedRestart, handlerFrame
<1> QED BY <1>1, RestartInv

LEMMA InvInit == Init => Inv
<1> SUFFICES ASSUME Init PROVE Inv OBVIOUS
<1>1. Kinds BY DEF Init, Kinds
<1>2. ASSUME NEW a \in Ids
      PROVE  Sound(notices[a], Waiting(a), Count(mailbox, a), status[a], a \in excused)
  <2>1. Places(mailbox, a) = {} BY DEF Init, Places
  <2>2. Count(mailbox, a) = 0 BY <2>1, FS_EmptySet DEF Count
  <2>3. notices[a] = 0 /\ Waiting(a) = 0 /\ status[a] = "new" BY DEF Init, Waiting, PassedOn
  <2> QED BY <2>2, <2>3 DEF Sound
<1> QED BY <1>1, <1>2 DEF Inv

LEMMA InvStep == Inv /\ [Next]_vars => Inv'
<1> SUFFICES ASSUME Inv, [Next]_vars PROVE Inv' OBVIOUS
<1>1. ASSUME NEW a \in Ids, Receive(a) PROVE Inv'
  BY <1>1, QuietSteps, HandleFailureInv, HandleDelayedRestartInv, HandedOnInv DEF Receive
<1>2. ASSUME NEW a \in Ids,
             Spawn(a) \/ Tell(a) \/ StopActor(a) \/ Leave(a) \/ Fail(a) \/ Notify(a)
               \/ TimerFires(a) \/ AnswerCheck(a)
      PROVE  Inv'
  BY <1>2, QuietSteps, ActorSteps, FailInv, HandedOnInv
<1>3. CASE HandleHeartbeatTick \/ Beat \/ Tick \/ UNCHANGED vars BY <1>3, QuietSteps
<1> QED BY <1>1, <1>2, <1>3 DEF Next

(* Theorem: for any strategies, commands and capacity, every failure has one *)
(* recovery under way or has been given up, and only a failed actor has one  *)
(* (supervisor.go:146-184, 239-288, system.go:226-244).                      *)
THEOREM SupervisionInvariant == Spec => []Inv
<1>1. Init => Inv BY InvInit
<1>2. Inv /\ [Next]_vars => Inv' BY InvStep
<1> QED BY <1>1, <1>2, PTL DEF Spec

LEMMA RecoveriesCounted ==
  ASSUME Inv, NEW a \in Ids
  PROVE  Recoveries(a) = notices[a] + Waiting(a) + Count(mailbox, a)
<1>1. notices[a] \in Nat /\ timers[a] \in Nat /\ PassedOn(a) \in Nat BY DEF Inv, Kinds, PassedOn
<1>2. Count(mailbox, a) \in Nat BY PlacesFinite DEF Inv, Kinds
<1> QED BY <1>1, <1>2 DEF Recoveries, Waiting, Count

(* Theorem: at most one recovery of an actor is under way, and only if it    *)
(* has failed (supervisor.go:146-184, 239-262, system.go:287-304).           *)
THEOREM OneRecoveryAtATime == Spec => []RecoveryExclusive
<1>1. Inv => RecoveryExclusive
  BY RecoveriesCounted DEF Inv, Sound, RecoveryExclusive
<1> QED BY <1>1, SupervisionInvariant, PTL

(* Theorem: an actor that has failed is being recovered or has been given up *)
(* for one of the three reasons there are (supervisor.go:146-184, 239-262,   *)
(* system.go:226-244).                                                       *)
THEOREM FailuresAreRemembered == Spec => []NoFailureForgotten
<1>1. Inv => NoFailureForgotten
  BY RecoveriesCounted DEF Inv, Sound, NoFailureForgotten
<1> QED BY <1>1, SupervisionInvariant, PTL

(* Action property: the supervisor replaces only instances that have failed. *)
(* RestartActor never finds the id of a restart taken, never asks a healthy  *)
(* instance to stop, and every restart ends with a new instance.             *)
ReplacesOnlyFailed ==
  [][\A a \in Ids : /\ HandleDelayedRestart(a) => status[a] = "failed" /\ status'[a] = "up"
                    /\ HandleFailure(a) => status[a] = "failed" /\ status'[a] \in {"failed", "up"}]_vars

(* Theorem: no restart stops or replaces a healthy instance, whatever        *)
(* commands and timers it races with (supervisor.go:239-288,                 *)
(* system.go:287-304).                                                       *)
THEOREM HealthyInstancesStay == Spec => ReplacesOnlyFailed
<1>1. ASSUME Inv, NEW a \in Ids, HandleDelayedRestart(a)
      PROVE  status[a] = "failed" /\ status'[a] = "up"
  <2>1. Receiving("DelayedRestart", a) /\ DoRestart(a, failures[a])
    BY <1>1 DEF HandleDelayedRestart
  <2>2. status[a] = "failed" BY <1>1, <2>1, RecoveryAlone
  <2> QED BY <1>1, <2>1, <2>2 DEF DoRestart, Inv, Kinds
<1>2. ASSUME Inv, NEW a \in Ids, HandleFailure(a)
      PROVE  status[a] = "failed" /\ status'[a] \in {"failed", "up"}
  <2>1. Receiving("ActorFailed", a) /\ \E fs, decision : Act(a, fs, decision)
    BY <1>2 DEF HandleFailure
  <2>2. status[a] = "failed" BY <1>2, <2>1, RecoveryAlone
  <2> QED BY <1>2, <2>1, <2>2 DEF Act, DoRestart, Inv, Kinds
<1>3. Inv => \A a \in Ids :
               /\ HandleDelayedRestart(a) => status[a] = "failed" /\ status'[a] = "up"
               /\ HandleFailure(a) => status[a] = "failed" /\ status'[a] \in {"failed", "up"}
  BY <1>1, <1>2
<1> QED BY <1>3, SupervisionInvariant, PTL DEF ReplacesOnlyFailed
===============================================================================
