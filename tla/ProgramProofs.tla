---------------------------- MODULE ProgramProofs ----------------------------
(* Proofs about Program, for any sensors and devices, any number of          *)
(* processes and rounds and any number of faults.                            *)
(*                                                                           *)
(* The argument: while a process runs, the disk is behind its memory, never  *)
(* ahead of it; the coordinator cannot finish a second round before it has   *)
(* saved, or failed to save, the first; and in a process that restored       *)
(* nothing, the round of the coordinator is never ahead of main's.           *)
EXTENDS Program, FiniteSetTheorems, SequenceTheorems, TLAPS

(* The places at which a sequence has an element of W, and their number. *)
Places(q, W) == {i \in 1..Len(q) : q[i] \in W}
Count(q, W)  == Cardinality(Places(q, W))

CoordData   == [round : Nat, weights : Nat, sensors : SUBSET Sensors]
CoordFields == [round : Nat, weights : Nat, sensors : SUBSET Sensors, open : BOOLEAN]
LoggerData  == [rounds : Seq(Nat), metrics : Seq(Nat \X Nat)]
Results     == [round : Nat, weights : Nat]
StartRounds == {<<"StartRound">>}
CoordMessages  == StartRounds \cup ({"RegisterSensor"} \X Sensors)
LoggerMessages == [type : {"RoundComplete"}, round : Nat]
                  \cup [type : {"LogMetrics"}, round : Nat, weights : Nat]
                  \cup {DeviceStatus}

Types ==
  /\ program \in {"demo", "service"}
  /\ up \in BOOLEAN /\ toAppend \in BOOLEAN /\ restored \in BOOLEAN
  /\ expected \in Nat /\ coordWeights \in Nat /\ starts \in Nat
  /\ results \in Seq(Results)
  /\ coordMailbox \in Seq(CoordMessages)
  /\ c \in CoordFields
  /\ loggerMailbox \in Seq(LoggerMessages)
  /\ l \in LoggerData
  /\ evalMailbox \in Seq(Results)
  /\ save \in [Files -> {"idle", "tell", "wait", "write"}]
  /\ DOMAIN disk = Files
  /\ Saved("coordinator") \in CoordData
  /\ Saved("logger") \in LoggerData
  /\ jsonl \in Seq(Nat \X Nat)

(* A file is whole or was never written, and between two processes nothing   *)
(* is left but the files.                                                    *)
Durable ==
  /\ \A f \in Files : \/ disk[f].state = "whole"
                      \/ disk[f] = Missing(f)
  /\ ~up => /\ c = Resume(NewCoordinator)
            /\ l = NewLogger
            /\ loggerMailbox = <<>>
            /\ save = [f \in Files |-> "idle"]
            /\ ~toAppend /\ ~restored
  /\ save["logger"] # "tell"

(* The service saves nothing. *)
Unsaved ==
  program = "service" =>
    /\ \A f \in Files : disk[f] = Missing(f) /\ save[f] \in {"idle", "tell"}
    /\ ~toAppend /\ jsonl = <<>>

(* The disk is behind the memory, and no round is open while one is saved. *)
Behind ==
  up => /\ Saved("coordinator").round <= c.round
        /\ c.open \/ save["coordinator"] # "idle" => Saved("coordinator").round < c.round
        /\ save["coordinator"] # "idle" => ~c.open
        /\ IsPrefix(Saved("logger").rounds, l.rounds)
        /\ IsPrefix(Saved("logger").metrics, l.metrics)

(* And as far as no save has failed, only by what is being saved. *)
Appending ==
  /\ toAppend => l.metrics # <<>>
  /\ up /\ program = "demo" /\ "logger" \notin failed /\ save["logger"] = "idle"
       => Saved("logger").metrics = l.metrics

(* Rounds beyond r, and the messages that announce them. *)
Beyond(r) == {n \in Nat : n > r}
Told(r)   == {RoundComplete(n) : n \in Beyond(r)}

(* A coordinator that is not saving may announce one more round. *)
Spare(s) == IF s \in {"idle", "tell"} THEN 1 ELSE 0

AtRisk ==
  LET r == Saved("coordinator").round IN
    /\ ~up /\ "coordinator" \notin failed => Count(Saved("logger").rounds, Beyond(r)) <= starts
    /\ up /\ program = "demo" /\ "coordinator" \notin failed =>
         Count(l.rounds, Beyond(r)) + Count(loggerMailbox, Told(r)) + Spare(save["coordinator"]) <= starts
    /\ save["coordinator"] \in {"wait", "write"} =>
         \/ \E i \in 1..Len(l.rounds) : l.rounds[i] = c.round
         \/ \E i \in 1..Len(loggerMailbox) : loggerMailbox[i] = RoundComplete(c.round)

(* The rounds main has asked for. *)
Asked == IF pc \in {"wait", "weights", "ask"} THEN expected ELSE expected - 1

Following ==
  ~restored =>
    /\ expected > 0
    /\ c.round + Count(coordMailbox, StartRounds) <= Asked
    /\ c.weights <= c.round
    /\ save["coordinator"] = "tell" => c.weights = c.round
    /\ \A i \in 1..Len(l.rounds) : l.rounds[i] <= c.weights
    /\ \A i \in 1..Len(loggerMailbox) :
         loggerMailbox[i].type = "RoundComplete" => loggerMailbox[i].round <= c.weights
    /\ pc = "weights" => expected <= c.weights
    /\ pc = "ask" => coordWeights = expected

Evaluating ==
  ~restored => /\ \A i \in 1..Len(results) : /\ results[i].weights = results[i].round
                                             /\ results[i].round < expected
               /\ \A i \in 1..Len(results) - 1 : results[i].round < results[i + 1].round

Inv == /\ Types /\ Durable /\ Unsaved /\ Behind /\ Appending /\ AppendedIsSaved
       /\ AtRisk /\ Following /\ Evaluating

-----------------------------------------------------------------------------
(* How many elements of W a sequence has. *)
LEMMA CountNat ==
  ASSUME NEW S, NEW q \in Seq(S), NEW W
  PROVE  IsFiniteSet(Places(q, W)) /\ Count(q, W) \in Nat
<1>1. Len(q) \in Nat BY LenProperties
<1>2. IsFiniteSet(1..Len(q)) BY <1>1, FS_Interval
<1>3. Places(q, W) \subseteq 1..Len(q) BY DEF Places
<1> QED BY <1>2, <1>3, FS_Subset, FS_CardinalityType DEF Count

LEMMA CountEmpty == \A W : Count(<<>>, W) = 0
<1>1. \A W : Places(<<>>, W) = {} BY DEF Places
<1> QED BY <1>1, FS_EmptySet DEF Count

LEMMA CountAppend ==
  ASSUME NEW S, NEW q \in Seq(S), NEW m \in S, NEW W
  PROVE  Count(Append(q, m), W) = IF m \in W THEN Count(q, W) + 1 ELSE Count(q, W)
<1> DEFINE p == Append(q, m)
           n == Len(q) + 1
<1>1. /\ Len(q) \in Nat /\ Len(p) = n
      /\ \A k \in 1..Len(q) : p[k] = q[k]
      /\ p[n] = m
  BY LenProperties, AppendProperties
<1>2. 1..n = 1..Len(q) \cup {n} BY <1>1
<1>3. \A r, k : k \in Places(r, W) <=> k \in 1..Len(r) /\ r[k] \in W BY DEF Places
<1> HIDE DEF p
<1>4. n \notin Places(q, W) BY <1>1, <1>3
<1>5. IsFiniteSet(Places(q, W)) BY CountNat
<1>6. CASE m \in W
  <2>1. Places(p, W) = Places(q, W) \cup {n} BY <1>1, <1>2, <1>3, <1>6
  <2>2. Cardinality(Places(q, W) \cup {n}) = Cardinality(Places(q, W)) + 1
    BY <1>4, <1>5, FS_AddElement
  <2> QED BY <1>6, <2>1, <2>2 DEF Count, p
<1>7. CASE m \notin W
  <2>1. \A k : k \in Places(p, W) <=> k \in Places(q, W) BY <1>1, <1>2, <1>3, <1>7
  <2>2. Places(p, W) = Places(q, W) BY <2>1 DEF Places
  <2> QED BY <1>7, <2>2 DEF Count, p
<1> QED BY <1>6, <1>7

LEMMA CountTail ==
  ASSUME NEW S, NEW q \in Seq(S), q # <<>>, NEW W
  PROVE  Count(q, W) = IF Head(q) \in W THEN Count(Tail(q), W) + 1 ELSE Count(Tail(q), W)
<1> DEFINE p == Tail(q)
           P == Places(p, W)
           Q == Places(q, W)
           T == Q \ {1}
           f == [i \in P |-> i + 1]
<1>1. /\ Len(q) \in Nat /\ Len(p) = Len(q) - 1 /\ p \in Seq(S)
      /\ \A k \in 1..Len(p) : p[k] = q[k + 1]
      /\ 1 \in 1..Len(q) /\ Head(q) = q[1]
  BY LenProperties, HeadTailProperties
<1>2. \A r, k : k \in Places(r, W) <=> k \in 1..Len(r) /\ r[k] \in W BY DEF Places
<1>3. IsFiniteSet(Q) /\ Cardinality(Q) \in Nat BY CountNat DEF Count
<1> HIDE DEF p
<1>4. \A k \in P : k \in Int /\ k + 1 \in T
  <2> SUFFICES ASSUME NEW k \in P PROVE k \in Int /\ k + 1 \in T OBVIOUS
  <2>1. k \in 1..Len(p) /\ p[k] \in W BY <1>2
  <2>2. k + 1 \in 1..Len(q) /\ k + 1 # 1 /\ q[k + 1] \in W BY <1>1, <2>1
  <2> QED BY <1>2, <2>1, <2>2
<1>5. \A k \in T : k - 1 \in P /\ k \in Int
  <2> SUFFICES ASSUME NEW k \in T PROVE k - 1 \in P /\ k \in Int OBVIOUS
  <2>1. k \in 2..Len(q) /\ q[k] \in W BY <1>1, <1>2
  <2>2. k - 1 \in 1..Len(p) /\ (k - 1) + 1 = k BY <1>1, <2>1
  <2> QED BY <1>1, <1>2, <2>1, <2>2
<1> HIDE DEF T, P
<1>6. f \in Injection(P, T) BY <1>4 DEF Injection, IsInjective
<1>7. f \in Surjection(P, T)
  <2>1. \A k \in T : f[k - 1] = k BY <1>5
  <2> QED BY <1>4, <1>5, <2>1 DEF Surjection
<1>8. IsFiniteSet(T) BY <1>3, FS_Subset DEF T
<1>9. Cardinality(P) = Cardinality(T) BY <1>6, <1>7, <1>8, FS_Injection
<1>10. CASE Head(q) \in W
  <2>1. 1 \in Q BY <1>1, <1>2, <1>10
  <2>2. Cardinality(T) = Cardinality(Q) - 1 BY <1>3, <2>1, FS_RemoveElement DEF T
  <2>3. Cardinality(Q) = Cardinality(P) + 1 BY <1>3, <1>9, <2>2
  <2> QED BY <1>10, <2>3 DEF Count, P, p
<1>11. CASE Head(q) \notin W
  <2>1. T = Q BY <1>1, <1>2, <1>11 DEF T
  <2> QED BY <1>9, <1>11, <2>1 DEF Count, P, p
<1> QED BY <1>10, <1>11

(* Appending elements of another kind does not change the count. *)
LEMMA CountConcat ==
  ASSUME NEW S, NEW q \in Seq(S), NEW r \in Seq(S), NEW W,
         \A i \in 1..Len(r) : r[i] \notin W
  PROVE  q \o r \in Seq(S) /\ Count(q \o r, W) = Count(q, W)
<1>1. /\ Len(q) \in Nat /\ Len(r) \in Nat /\ Len(q \o r) = Len(q) + Len(r) /\ q \o r \in Seq(S)
      /\ \A k \in 1..Len(q) + Len(r) : (q \o r)[k] = IF k <= Len(q) THEN q[k] ELSE r[k - Len(q)]
  BY LenProperties, ConcatProperties
<1>2. ASSUME NEW k \in 1..Len(q) + Len(r), k > Len(q) PROVE (q \o r)[k] \notin W
  <2>1. k - Len(q) \in 1..Len(r) BY <1>1, <1>2
  <2> QED BY <1>1, <1>2, <2>1
<1>3. \A k : k \in Places(q \o r, W) <=> k \in Places(q, W) BY <1>1, <1>2 DEF Places
<1>4. Places(q \o r, W) = Places(q, W) BY <1>3 DEF Places
<1> QED BY <1>1, <1>4 DEF Count

(* A larger set has at least as many places, and one more if it has one more *)
(* element of the sequence.                                                  *)
LEMMA CountLarger ==
  ASSUME NEW S, NEW q \in Seq(S), NEW W, NEW V, W \subseteq V
  PROVE  /\ Count(q, W) <= Count(q, V)
         /\ \A i \in 1..Len(q) : q[i] \in V /\ q[i] \notin W => Count(q, W) + 1 <= Count(q, V)
<1>1. /\ IsFiniteSet(Places(q, V)) /\ Cardinality(Places(q, V)) \in Nat
      /\ IsFiniteSet(Places(q, W)) /\ Cardinality(Places(q, W)) \in Nat
  BY CountNat DEF Count
<1>2. Places(q, W) \subseteq Places(q, V) BY DEF Places
<1>3. Cardinality(Places(q, W)) <= Cardinality(Places(q, V)) BY <1>1, <1>2, FS_Subset
<1>4. ASSUME NEW i \in 1..Len(q), q[i] \in V, q[i] \notin W
      PROVE  Cardinality(Places(q, W)) + 1 <= Cardinality(Places(q, V))
  <2>1. i \in Places(q, V) /\ i \notin Places(q, W) BY <1>4 DEF Places
  <2>2. Cardinality(Places(q, W)) # Cardinality(Places(q, V)) BY <1>1, <1>2, <2>1, FS_Subset
  <2> QED BY <1>1, <1>3, <2>2
<1> QED BY <1>3, <1>4 DEF Count

LEMMA PrefixIs ==
  ASSUME NEW S, NEW p \in Seq(S), NEW q \in Seq(S)
  PROVE  IsPrefix(p, q) <=> Len(p) <= Len(q) /\ \A i \in 1..Len(p) : p[i] = q[i]
  BY DEF IsPrefix

LEMMA PrefixCount ==
  ASSUME NEW S, NEW p \in Seq(S), NEW q \in Seq(S), IsPrefix(p, q), NEW W
  PROVE  Count(p, W) <= Count(q, W)
<1>1. Len(p) \in Nat /\ Len(q) \in Nat BY LenProperties
<1>2. Places(p, W) \subseteq Places(q, W) BY <1>1, PrefixIs DEF Places
<1> QED BY <1>2, CountNat, FS_Subset DEF Count

LEMMA PrefixAppend ==
  ASSUME NEW S, NEW p \in Seq(S), NEW q \in Seq(S), NEW m \in S, IsPrefix(p, q)
  PROVE  IsPrefix(p, Append(q, m)) /\ IsPrefix(q, q)
<1>1. /\ Append(q, m) \in Seq(S) /\ Len(p) \in Nat /\ Len(q) \in Nat /\ Len(Append(q, m)) = Len(q) + 1
      /\ \A i \in 1..Len(q) : Append(q, m)[i] = q[i]
  BY LenProperties, AppendProperties
<1>2. Len(p) <= Len(q) /\ \A i \in 1..Len(p) : p[i] = q[i] BY PrefixIs
<1>3. Len(p) <= Len(Append(q, m)) /\ \A i \in 1..Len(p) : p[i] = Append(q, m)[i] BY <1>1, <1>2
<1>4. IsPrefix(p, Append(q, m)) BY <1>1, <1>3, PrefixIs
<1> QED BY <1>1, <1>4, PrefixIs

LEMMA PrefixRange ==
  ASSUME NEW S, NEW p \in Seq(S), NEW q \in Seq(S), IsPrefix(p, q)
  PROVE  Range(p) \subseteq Range(q)
<1>1. Len(p) \in Nat /\ Len(q) \in Nat /\ DOMAIN p = 1..Len(p) /\ DOMAIN q = 1..Len(q)
  BY LenProperties
<1>2. Len(p) <= Len(q) /\ \A i \in 1..Len(p) : p[i] = q[i] BY PrefixIs
<1> QED BY <1>1, <1>2 DEF Range
-----------------------------------------------------------------------------
(* The values the owners start with and save. *)
LEMMA NewIs == New("coordinator") = NewCoordinator /\ New("logger") = NewLogger
<1>1. New("coordinator") = NewCoordinator BY Zenon DEF New
<1>2. New("logger") = NewLogger BY Zenon DEF New
<1> QED BY <1>1, <1>2

LEMMA MemoryIs ==
  /\ Memory("coordinator") = [round |-> c.round, weights |-> c.weights, sensors |-> c.sensors]
  /\ Memory("logger") = l
<1>1. Memory("coordinator") = [round |-> c.round, weights |-> c.weights, sensors |-> c.sensors]
  BY Zenon DEF Memory
<1>2. Memory("logger") = l BY Zenon DEF Memory
<1> QED BY <1>1, <1>2

LEMMA ResumeIs ==
  ASSUME NEW x \in CoordData
  PROVE  /\ Resume(x) \in CoordFields
         /\ Resume(x).round = x.round /\ Resume(x).weights = x.weights
         /\ Resume(x).open = FALSE
  BY DEF Resume, CoordData, CoordFields

LEMMA NewData == NewCoordinator \in CoordData /\ NewLogger \in LoggerData
  BY DEF NewCoordinator, NewLogger, CoordData, LoggerData

LEMMA InvInit == Init => Inv
<1> SUFFICES ASSUME Init PROVE Inv OBVIOUS
<1> USE DEF Init
<1>1. /\ DOMAIN disk = Files
      /\ \A f \in Files : disk[f] = Missing(f)
      /\ Saved("coordinator") = NewCoordinator /\ Saved("logger") = NewLogger
  BY NewIs DEF Files, Missing, Saved
<1>2. c \in CoordFields /\ c.round = 0 /\ c.weights = 0 BY NewData, ResumeIs DEF NewCoordinator
<1>3. Types
  <2>1. program \in {"demo", "service"} BY ProgramAssumption
  <2>2. save \in [Files -> {"idle", "tell", "wait", "write"}] OBVIOUS
  <2>3. /\ results \in Seq(Results) /\ coordMailbox \in Seq(CoordMessages)
        /\ loggerMailbox \in Seq(LoggerMessages) /\ evalMailbox \in Seq(Results)
        /\ jsonl \in Seq(Nat \X Nat)
    OBVIOUS
  <2>4. l \in LoggerData /\ Saved("logger") \in LoggerData /\ Saved("coordinator") \in CoordData
    BY <1>1, NewData
  <2>5. /\ up \in BOOLEAN /\ toAppend \in BOOLEAN /\ restored \in BOOLEAN
        /\ expected \in Nat /\ coordWeights \in Nat /\ starts \in Nat
    OBVIOUS
  <2> QED BY <1>1, <1>2, <2>1, <2>2, <2>3, <2>4, <2>5 DEF Types
<1>4. Durable /\ Unsaved BY <1>1 DEF Durable, Unsaved, Files
<1>5. Behind /\ Appending BY DEF Behind, Appending
<1>6. AppendedIsSaved BY DEF AppendedIsSaved, Range
<1>7. Saved("logger").rounds = <<>> /\ l.rounds = <<>> BY <1>1 DEF NewLogger
<1>8. AtRisk BY <1>7, CountEmpty DEF AtRisk, Files
<1>9. Following BY <1>2, <1>7, CountEmpty DEF Following, Asked
<1>10. Evaluating BY DEF Evaluating
<1> QED BY <1>3, <1>4, <1>5, <1>6, <1>8, <1>9, <1>10 DEF Inv

-----------------------------------------------------------------------------
(* A step that touches neither files nor the memory they are written from. *)
LEMMA MemoryKept ==
  ASSUME Inv, UNCHANGED <<c, loggerVars, saveVars, histVars>>
  PROVE  Durable' /\ Unsaved' /\ Behind' /\ Appending' /\ AppendedIsSaved' /\ AtRisk'
<1> USE DEF loggerVars, saveVars, fileVars, histVars, Inv
<1>1. Durable' /\ Unsaved' BY DEF Durable, Unsaved
<1>2. Behind' /\ Appending' BY DEF Behind, Appending, Saved
<1>3. AppendedIsSaved' BY DEF AppendedIsSaved, Saved
<1>4. AtRisk' BY DEF AtRisk, Saved
<1> QED BY <1>1, <1>2, <1>3, <1>4

(* What the coordinator finds in its mailbox: main's announcements are not   *)
(* requests for rounds.                                                      *)
LEMMA Announcements ==
  LET r == SetToSeq({<<"RegisterSensor", s>> : s \in Sensors}) IN
    /\ r \in Seq(CoordMessages)
    /\ \A i \in 1..Len(r) : r[i] \notin StartRounds
<1> DEFINE T == {"RegisterSensor"} \X Sensors
           r == SetToSeq({<<"RegisterSensor", s>> : s \in Sensors})
<1>1. {<<"RegisterSensor", s>> : s \in Sensors} = T OBVIOUS
<1>2. IsFiniteSet(T) /\ Cardinality(T) \in Nat
  BY FS_Product, FS_Singleton, FS_CardinalityType, ProgramAssumption
<1>3. PICK f : f \in [1..Cardinality(T) -> T] /\ IsInjective(f)
  BY <1>2, FS_CardinalityType DEF ExistsBijection, Bijection, Injection, IsInjective
<1> HIDE DEF T
<1>4. r \in [1..Cardinality(T) -> T] BY <1>1, <1>3 DEF SetToSeq
<1>5. r \in Seq(T) /\ Len(r) = Cardinality(T) BY <1>2, <1>4
<1>6. T \subseteq CoordMessages /\ \A m \in T : m \notin StartRounds
  BY DEF T, CoordMessages, StartRounds
<1>7. r \in Seq(CoordMessages) BY <1>5, <1>6
<1>8. \A i \in 1..Len(r) : r[i] \in T BY <1>4, <1>5
<1> QED BY <1>6, <1>7, <1>8

LEMMA ResultFields ==
  ASSUME Types PROVE \A i \in 1..Len(results) : results[i].round \in Nat
<1>1. \A i \in 1..Len(results) : results[i] \in Results BY ElementOfSeq DEF Types
<1> QED BY <1>1 DEF Results

(* main's own steps. *)
LEMMA MainInv ==
  ASSUME Inv, Main \/ \E s \in Sensors : RemoteRegister(s)
  PROVE  Inv'
<1> DEFINE Others == Durable' /\ Unsaved' /\ Behind' /\ Appending' /\ AppendedIsSaved' /\ AtRisk'
<1>0. /\ Types /\ Following /\ Evaluating
      /\ c \in CoordFields /\ c.round \in Nat /\ c.weights \in Nat
      /\ coordMailbox \in Seq(CoordMessages) /\ Count(coordMailbox, StartRounds) \in Nat
      /\ expected \in Nat /\ coordWeights \in Nat
  BY CountNat DEF Inv, Types, CoordFields
<1> USE <1>0
<1> USE DEF mainVars, coordVars, loggerVars, deviceVars, actorVars, saveVars, fileVars, histVars
<1>1. CASE RegisterSensors
  <2> USE <1>1 DEF RegisterSensors
  <2>1. Others BY MemoryKept
  <2>2. coordMailbox' \in Seq(CoordMessages)
        /\ Count(coordMailbox', StartRounds) = Count(coordMailbox, StartRounds)
    BY Announcements, CountConcat
  <2>3. Types' BY <2>2 DEF Types, Saved
  <2>4. Following' /\ Evaluating' BY <2>2 DEF Following, Evaluating, Asked
  <2> QED BY <2>1, <2>3, <2>4 DEF Inv
<1>2. CASE WaitForSensors \/ RoundCompleted \/ Finish
  <2>1. Others BY <1>2, MemoryKept DEF WaitForSensors, RoundCompleted, Finish
  <2>2. Types' BY <1>2 DEF WaitForSensors, RoundCompleted, Finish, Types, Saved
  <2>3. Evaluating' BY <1>2 DEF WaitForSensors, RoundCompleted, Finish, Evaluating
  <2>4. CASE WaitForSensors \/ Finish
    BY <2>1, <2>2, <2>3, <2>4 DEF WaitForSensors, Finish, Following, Asked, Inv
  <2>5. CASE RoundCompleted
    <3>1. l.rounds \in Seq(Nat) /\ Len(l.rounds) \in Nat BY DEF Types, LoggerData
    <3>2. Len(l.rounds) \in 1..Len(l.rounds) /\ l.rounds[Len(l.rounds)] = expected
      BY <2>5, <3>1 DEF RoundCompleted, RoundLogged, Last
    <3>3. Following' BY <2>5, <3>2 DEF RoundCompleted, Following, Asked
    <3> QED BY <2>1, <2>2, <2>3, <3>3 DEF Inv
  <2> QED BY <1>2, <2>4, <2>5
<1>3. CASE StartRound
  <2> USE <1>3 DEF StartRound
  <2>1. Others BY MemoryKept
  <2>2. <<"StartRound">> \in CoordMessages /\ <<"StartRound">> \in StartRounds
    BY DEF CoordMessages, StartRounds
  <2>3. coordMailbox' \in Seq(CoordMessages)
        /\ Count(coordMailbox', StartRounds) = Count(coordMailbox, StartRounds) + 1
    BY <2>2, CountAppend, AppendProperties
  <2>4. Types' BY <2>3 DEF Types, Saved
  <2>5. Following' /\ Evaluating' BY <2>3 DEF Following, Evaluating, Asked
  <2> QED BY <2>1, <2>4, <2>5 DEF Inv
<1>4. CASE RoundTimeout
  <2> USE <1>4 DEF RoundTimeout
  <2>1. Others BY MemoryKept
  <2>2. Types' BY DEF Types, Saved
  <2>3. Following' BY DEF Following, Asked
  <2>4. \A i \in 1..Len(results) : results[i].round \in Nat BY ResultFields
  <2>5. Evaluating' BY <2>4 DEF Evaluating
  <2> QED BY <2>1, <2>2, <2>3, <2>5 DEF Inv
<1>5. CASE AskEvaluator
  <2> USE <1>5 DEF AskEvaluator
  <2>1. Others BY MemoryKept
  <2>2. [round |-> expected, weights |-> c.weights] \in Results BY DEF Results
  <2>3. evalMailbox' \in Seq(Results) BY <2>2, AppendProperties DEF Types
  <2>4. Types' BY <2>3 DEF Types, Saved
  <2>5. Following' BY DEF Following, Asked
  <2>6. Evaluating' BY DEF Evaluating
  <2> QED BY <2>1, <2>4, <2>5, <2>6 DEF Inv
<1>6. CASE Evaluated
  <2> USE <1>6 DEF Evaluated
  <2>1. Others BY MemoryKept
  <2> DEFINE x == [round |-> expected, weights |-> coordWeights]
  <2>2. x \in Results /\ x.round = expected /\ x.weights = coordWeights BY DEF Results
  <2>3. /\ results \in Seq(Results) /\ results' \in Seq(Results)
        /\ Len(results) \in Nat /\ Len(results') = Len(results) + 1
        /\ \A i \in 1..Len(results) : results'[i] = results[i]
        /\ \A i \in 1..Len(results) : results[i].round \in Nat
        /\ results'[Len(results) + 1] = x
    BY <2>2, ResultFields, AppendProperties, LenProperties DEF Types
  <2> HIDE DEF x
  <2>4. Types' BY <2>3 DEF Types, Saved
  <2>5. Following' BY DEF Following, Asked
  <2>6. ASSUME ~restored', NEW i \in 1..Len(results')
        PROVE  results'[i].weights = results'[i].round /\ results'[i].round < expected'
    <3>1. CASE i = Len(results) + 1 BY <2>2, <2>3, <2>6, <3>1 DEF Following
    <3>2. CASE i # Len(results) + 1
      <4>1. i \in 1..Len(results) BY <2>3, <3>2
      <4>2. ~restored /\ expected < expected' BY <2>6
      <4>3. results[i].weights = results[i].round /\ results[i].round < expected
        BY <4>1, <4>2 DEF Evaluating
      <4> QED BY <2>3, <4>1, <4>2, <4>3
    <3> QED BY <3>1, <3>2
  <2>7. ASSUME ~restored', NEW i \in 1..Len(results') - 1
        PROVE  results'[i].round < results'[i + 1].round
    <3>1. i \in 1..Len(results) BY <2>3
    <3>2. CASE i = Len(results) BY <2>2, <2>3, <2>7, <3>1, <3>2 DEF Evaluating
    <3>3. CASE i # Len(results)
      <4>1. i + 1 \in 1..Len(results) /\ i \in 1..Len(results) - 1 BY <2>3, <3>1, <3>3
      <4> QED BY <2>3, <2>7, <3>1, <4>1 DEF Evaluating
    <3> QED BY <3>2, <3>3
  <2>8. Evaluating' BY <2>6, <2>7 DEF Evaluating
  <2> QED BY <2>1, <2>4, <2>5, <2>8 DEF Inv
<1>7. ASSUME NEW s \in Sensors, RemoteRegister(s) PROVE Inv'
  <2> USE <1>7 DEF RemoteRegister
  <2>1. Others BY MemoryKept
  <2>2. <<"RegisterSensor", s>> \in CoordMessages /\ <<"RegisterSensor", s>> \notin StartRounds
    BY DEF CoordMessages, StartRounds
  <2>3. coordMailbox' \in Seq(CoordMessages)
        /\ Count(coordMailbox', StartRounds) = Count(coordMailbox, StartRounds)
    BY <2>2, CountAppend, AppendProperties
  <2>4. Types' BY <2>3 DEF Types, Saved
  <2>5. Following' /\ Evaluating' BY <2>3 DEF Following, Evaluating, Asked
  <2> QED BY <2>1, <2>4, <2>5 DEF Inv
<1> QED BY <1>1, <1>2, <1>3, <1>4, <1>5, <1>6, <1>7 DEF Main

-----------------------------------------------------------------------------
LEMMA FieldTypes ==
  ASSUME Types
  PROVE  /\ c \in CoordFields /\ c.round \in Nat /\ c.weights \in Nat
         /\ c.sensors \in SUBSET Sensors /\ c.open \in BOOLEAN
         /\ l \in LoggerData /\ l.rounds \in Seq(Nat) /\ l.metrics \in Seq(Nat \X Nat)
         /\ Saved("coordinator") \in CoordData /\ Saved("coordinator").round \in Nat
         /\ Saved("logger") \in LoggerData
         /\ Saved("logger").rounds \in Seq(Nat) /\ Saved("logger").metrics \in Seq(Nat \X Nat)
  BY DEF Types, CoordFields, LoggerData, CoordData

LEMMA FieldUpdate ==
  ASSUME NEW x \in CoordFields, NEW n \in Nat, NEW o \in BOOLEAN
  PROVE  LET y == [x EXCEPT !.round = n, !.open = o] IN
           y \in CoordFields /\ y.weights = x.weights /\ y.round = n
<1> DEFINE b == [x EXCEPT !.round = n]
           y == [b EXCEPT !.open = o]
<1>1. b \in CoordFields /\ b.weights = x.weights /\ b.round = n BY DEF CoordFields
<1> HIDE DEF b
<1>2. y \in CoordFields BY <1>1 DEF CoordFields
<1>3. y.weights = b.weights /\ y.round = b.round BY <1>1 DEF CoordFields
<1> QED BY <1>1, <1>2, <1>3 DEF b

LEMMA Taking ==
  ASSUME Types, NEW t, CoordinatorTakes(t)
  PROVE  /\ coordMailbox' \in Seq(CoordMessages)
         /\ Count(coordMailbox, StartRounds) \in Nat
         /\ Count(coordMailbox', StartRounds) \in Nat
         /\ t = "RegisterSensor" =>
              /\ Head(coordMailbox)[2] \in Sensors
              /\ Count(coordMailbox', StartRounds) = Count(coordMailbox, StartRounds)
         /\ t = "StartRound" =>
              Count(coordMailbox, StartRounds) = Count(coordMailbox', StartRounds) + 1
<1> DEFINE h == Head(coordMailbox)
<1>1. /\ coordMailbox \in Seq(CoordMessages) /\ coordMailbox # <<>> /\ h[1] = t
      /\ coordMailbox' = Tail(coordMailbox)
  BY DEF Types, CoordinatorTakes
<1>2. coordMailbox' \in Seq(CoordMessages) /\ h \in CoordMessages
  BY <1>1, HeadTailProperties
<1>3. /\ Count(coordMailbox, StartRounds) \in Nat
      /\ Count(coordMailbox', StartRounds) \in Nat
  BY <1>1, <1>2, CountNat
<1>4. Count(coordMailbox, StartRounds) = IF h \in StartRounds THEN Count(coordMailbox', StartRounds) + 1
                                         ELSE Count(coordMailbox', StartRounds)
  BY <1>1, CountTail
<1> HIDE DEF h
<1>5. t = "RegisterSensor" => h[2] \in Sensors /\ h \notin StartRounds
  BY <1>1, <1>2 DEF CoordMessages, StartRounds
<1>6. t = "StartRound" => h \in StartRounds
  BY <1>1, <1>2 DEF CoordMessages, StartRounds
<1> QED BY <1>2, <1>3, <1>4, <1>5, <1>6 DEF h

(* The coordinator takes a message while it is not saving. *)
LEMMA HandlerInv ==
  ASSUME Inv, HandleRegisterSensor \/ HandleStartRound
  PROVE  Inv'
<1> USE DEF mainVars, coordVars, loggerVars, deviceVars, actorVars, saveVars, fileVars, histVars
<1>0. Types BY DEF Inv
<1>1. up /\ save["coordinator"] = "idle"
  BY DEF HandleRegisterSensor, HandleStartRound, CoordinatorTakes, Idle
<1>2. UNCHANGED <<mainVars, loggerVars, deviceVars, evalMailbox, saveVars, histVars>>
  BY DEF HandleRegisterSensor, HandleStartRound
<1>3. /\ c' \in CoordFields /\ c'.weights = c.weights
      /\ c'.round \in Nat /\ c'.round >= c.round
      /\ c'.open => c'.round > c.round \/ c.open
      /\ coordMailbox' \in Seq(CoordMessages)
      /\ Count(coordMailbox, StartRounds) \in Nat
      /\ Count(coordMailbox', StartRounds) \in Nat
      /\ c'.round + Count(coordMailbox', StartRounds) = c.round + Count(coordMailbox, StartRounds)
  <2>1. CASE HandleRegisterSensor
    <3>1. Head(coordMailbox)[2] \in Sensors BY <1>0, <2>1, Taking DEF HandleRegisterSensor
    <3>2. c' = [c EXCEPT !.sensors = c.sensors \cup {Head(coordMailbox)[2]}]
      BY <2>1 DEF HandleRegisterSensor
    <3>3. c' \in CoordFields /\ c'.weights = c.weights /\ c'.round = c.round /\ c'.open = c.open
      BY <1>0, <3>1, <3>2, FieldTypes DEF CoordFields
    <3> QED BY <1>0, <2>1, <3>3, Taking, FieldTypes DEF HandleRegisterSensor
  <2>2. CASE HandleStartRound
    <3> DEFINE o == c.sensors # {}
               n == c.round + 1
    <3>1. c' = [c EXCEPT !.round = n, !.open = o] /\ o \in BOOLEAN
      BY <2>2 DEF HandleStartRound
    <3>2. n \in Nat /\ c \in CoordFields BY <1>0, FieldTypes
    <3> HIDE DEF o, n
    <3>6. c' \in CoordFields /\ c'.weights = c.weights /\ c'.round = n
      BY <3>1, <3>2, FieldUpdate
    <3>3. c.round \in Nat /\ c'.round = c.round + 1 /\ c'.round \in Nat /\ c'.round > c.round
      BY <1>0, <3>6, FieldTypes DEF n
    <3>4. CoordinatorTakes("StartRound") BY <2>2 DEF HandleStartRound
    <3>5. /\ coordMailbox' \in Seq(CoordMessages)
          /\ Count(coordMailbox, StartRounds) \in Nat
          /\ Count(coordMailbox', StartRounds) \in Nat
          /\ Count(coordMailbox, StartRounds) = Count(coordMailbox', StartRounds) + 1
      BY <1>0, <3>4, Taking
    <3>7. c'.round + Count(coordMailbox', StartRounds) = c.round + Count(coordMailbox, StartRounds)
      BY <3>3, <3>5
    <3> QED BY <3>3, <3>5, <3>6, <3>7
  <2> QED BY <2>1, <2>2
<1>4. Types' BY <1>0, <1>2, <1>3 DEF Types, Saved
<1>5. Durable' /\ Unsaved' BY <1>1, <1>2 DEF Inv, Durable, Unsaved
<1>6. Behind'
  <2>1. c.round \in Nat /\ Saved("coordinator").round \in Nat BY <1>0, FieldTypes
  <2>2. /\ Saved("coordinator").round <= c.round
        /\ c.open => Saved("coordinator").round < c.round
        /\ IsPrefix(Saved("logger").rounds, l.rounds)
        /\ IsPrefix(Saved("logger").metrics, l.metrics)
    BY <1>1 DEF Inv, Behind
  <2>3. disk' = disk /\ l' = l /\ save' = save BY <1>2
  <2>4. Saved("coordinator").round <= c'.round BY <1>3, <2>1, <2>2
  <2>5. c'.open => Saved("coordinator").round < c'.round BY <1>3, <2>1, <2>2
  <2> QED BY <1>1, <2>2, <2>3, <2>4, <2>5 DEF Behind, Saved
<1>7. Appending' /\ AppendedIsSaved' BY <1>2 DEF Inv, Appending, AppendedIsSaved, Saved
<1>8. AtRisk' BY <1>1, <1>2 DEF Inv, AtRisk, Saved
<1>9. Following'
  <2>1. Asked' = Asked BY <1>2 DEF Asked
  <2>2. c.round \in Nat /\ c.weights \in Nat BY <1>0, FieldTypes
  <2>3. ~restored => c.weights <= c'.round /\ c'.round + Count(coordMailbox', StartRounds) <= Asked
    BY <1>3, <2>2 DEF Inv, Following
  <2> QED BY <1>1, <1>2, <1>3, <2>1, <2>3 DEF Inv, Following
<1>10. Evaluating' BY <1>2 DEF Inv, Evaluating
<1> QED BY <1>4, <1>5, <1>6, <1>7, <1>8, <1>9, <1>10 DEF Inv

LEMMA RoundsHeld ==
  ASSUME Types
  PROVE  /\ \A i \in 1..Len(l.rounds) : l.rounds[i] \in Nat
         /\ \A i \in 1..Len(loggerMailbox) :
              /\ loggerMailbox[i] \in LoggerMessages
              /\ loggerMailbox[i].type = "RoundComplete" => loggerMailbox[i].round \in Nat
<1>1. \A i \in 1..Len(l.rounds) : l.rounds[i] \in Nat BY FieldTypes, ElementOfSeq
<1>2. \A i \in 1..Len(loggerMailbox) : loggerMailbox[i] \in LoggerMessages
  BY ElementOfSeq DEF Types
<1>3. \A m \in LoggerMessages : m.type = "RoundComplete" => m.round \in Nat
  BY DEF LoggerMessages, DeviceStatus
<1> QED BY <1>1, <1>2, <1>3

(* The last update of a round is in. *)
LEMMA AggregateInv ==
  ASSUME Inv, Aggregate PROVE Inv'
<1> USE DEF mainVars, coordVars, loggerVars, deviceVars, actorVars, saveVars, fileVars, histVars
<1>0. Types BY DEF Inv
<1>1. /\ up /\ save["coordinator"] = "idle" /\ c.open
      /\ UNCHANGED <<mainVars, coordMailbox, loggerVars, deviceVars, evalMailbox, toAppend,
                     fileVars, histVars>>
  BY DEF Aggregate, Idle
<1>2. /\ c' \in CoordFields /\ c'.weights = c.round /\ c'.round = c.round /\ c'.open = FALSE
  <2>1. c' = [c EXCEPT !.weights = c.round, !.open = FALSE] BY DEF Aggregate
  <2> QED BY <1>0, <2>1, FieldTypes DEF CoordFields
<1>3. /\ save' \in [Files -> {"idle", "tell", "wait", "write"}]
      /\ save'["coordinator"] = "tell"
      /\ \A f \in Files : f # "coordinator" => save'[f] = save[f]
  BY <1>0 DEF Aggregate, Types, Files
<1>4. Types' BY <1>0, <1>1, <1>2, <1>3 DEF Types, Saved
<1>5. save'["logger"] = save["logger"] BY <1>3 DEF Files
<1>6. Durable' BY <1>1, <1>5 DEF Inv, Durable
<1>7. Unsaved' BY <1>1, <1>3 DEF Inv, Unsaved
<1>8. Behind' BY <1>0, <1>1, <1>2, <1>3, FieldTypes DEF Inv, Behind, Saved
<1>9. Appending' /\ AppendedIsSaved' BY <1>1, <1>5 DEF Inv, Appending, AppendedIsSaved, Saved
<1>10. Spare(save'["coordinator"]) = Spare(save["coordinator"]) BY <1>1, <1>3 DEF Spare
<1>11. AtRisk' BY <1>1, <1>3, <1>10 DEF Inv, AtRisk, Saved
<1>12. Following'
  <2>1. Asked' = Asked BY <1>1 DEF Asked
  <2>2. ASSUME ~restored PROVE /\ \A i \in 1..Len(l.rounds) : l.rounds[i] <= c.round
                               /\ \A i \in 1..Len(loggerMailbox) :
                                    loggerMailbox[i].type = "RoundComplete" =>
                                      loggerMailbox[i].round <= c.round
                               /\ pc = "weights" => expected <= c.round
    <3>1. c.weights \in Nat /\ c.round \in Nat /\ c.weights <= c.round /\ expected \in Nat
      BY <1>0, <2>2, FieldTypes DEF Inv, Following, Types
    <3>2. \A i \in 1..Len(l.rounds) : l.rounds[i] \in Nat /\ l.rounds[i] <= c.weights
      BY <1>0, <2>2, RoundsHeld DEF Inv, Following
    <3>3. \A i \in 1..Len(loggerMailbox) : loggerMailbox[i].type = "RoundComplete" =>
            loggerMailbox[i].round \in Nat /\ loggerMailbox[i].round <= c.weights
      BY <1>0, <2>2, RoundsHeld DEF Inv, Following
    <3>4. pc = "weights" => expected <= c.weights BY <2>2 DEF Inv, Following
    <3> QED BY <3>1, <3>2, <3>3, <3>4
  <2> QED BY <1>0, <1>1, <1>2, <1>3, <2>1, <2>2, FieldTypes DEF Inv, Following
<1>13. Evaluating' BY <1>1 DEF Inv, Evaluating
<1> QED BY <1>4, <1>6, <1>7, <1>8, <1>9, <1>11, <1>12, <1>13 DEF Inv

-----------------------------------------------------------------------------
(* The messages of the logger; those that announce a round beyond r. *)
LEMMA LoggerMessagesAre ==
  /\ \A n \in Nat : /\ RoundComplete(n) \in LoggerMessages
                    /\ RoundComplete(n).type = "RoundComplete" /\ RoundComplete(n).round = n
  /\ \A n, w \in Nat : /\ LogMetrics(n, w) \in LoggerMessages
                       /\ LogMetrics(n, w).type = "LogMetrics"
  /\ DeviceStatus \in LoggerMessages /\ DeviceStatus.type = "DeviceStatus"
  /\ \A m \in LoggerMessages :
       \/ m.type = "RoundComplete" /\ m.round \in Nat /\ m = RoundComplete(m.round)
       \/ m.type = "LogMetrics" /\ m.round \in Nat /\ m.weights \in Nat
       \/ m.type = "DeviceStatus" /\ m = DeviceStatus
  BY DEF LoggerMessages, RoundComplete, LogMetrics, DeviceStatus

LEMMA ToldIs ==
  ASSUME NEW r \in Nat, NEW m \in LoggerMessages
  PROVE  m \in Told(r) <=> m.type = "RoundComplete" /\ m.round > r
<1>1. m \in Told(r) <=> \E n \in Nat : n > r /\ m = RoundComplete(n) BY DEF Told, Beyond
<1> QED BY <1>1, LoggerMessagesAre

(* A step that brings the logger messages which announce no round. *)
LEMMA MailGrows ==
  ASSUME Inv, up,
         NEW r \in Seq(LoggerMessages), \A i \in 1..Len(r) : r[i].type # "RoundComplete",
         loggerMailbox' = loggerMailbox \o r,
         evalMailbox' \in Seq(Results),
         save' \in [Files -> {"idle", "tell", "wait", "write"}],
         save'["coordinator"] = save["coordinator"], save'["logger"] = save["logger"],
         program = "service" => \A f \in Files : save'[f] \in {"idle", "tell"},
         UNCHANGED <<mainVars, coordVars, l, toAppend, fileVars, histVars>>
  PROVE  Inv'
<1> USE DEF mainVars, coordVars, fileVars, histVars
<1> DEFINE b == Saved("coordinator").round
<1>0. Types /\ loggerMailbox \in Seq(LoggerMessages) /\ b \in Nat BY FieldTypes DEF Inv, Types
<1>1. /\ loggerMailbox' \in Seq(LoggerMessages)
      /\ Count(loggerMailbox', Told(b)) = Count(loggerMailbox, Told(b))
  <2>1. \A i \in 1..Len(r) : r[i] \notin Told(b)
    <3>1. \A i \in 1..Len(r) : r[i] \in LoggerMessages BY ElementOfSeq
    <3> QED BY <1>0, <3>1, ToldIs
  <2> QED BY <1>0, <2>1, CountConcat
<1>2. /\ Len(loggerMailbox) \in Nat /\ Len(r) \in Nat
      /\ Len(loggerMailbox') = Len(loggerMailbox) + Len(r)
      /\ \A i \in 1..Len(loggerMailbox') :
           loggerMailbox'[i] = IF i <= Len(loggerMailbox) THEN loggerMailbox[i]
                               ELSE r[i - Len(loggerMailbox)]
  BY <1>0, LenProperties, ConcatProperties
<1>3. /\ \A i \in 1..Len(loggerMailbox) :
           i \in 1..Len(loggerMailbox') /\ loggerMailbox'[i] = loggerMailbox[i]
      /\ \A i \in 1..Len(loggerMailbox') :
           loggerMailbox'[i].type = "RoundComplete" => i \in 1..Len(loggerMailbox)
  <2>1. ASSUME NEW i \in 1..Len(loggerMailbox'), loggerMailbox'[i].type = "RoundComplete"
        PROVE  i \in 1..Len(loggerMailbox)
    <3>1. CASE i > Len(loggerMailbox)
      <4>1. i - Len(loggerMailbox) \in 1..Len(r) BY <1>2, <3>1
      <4> QED BY <1>2, <2>1, <3>1, <4>1
    <3> QED BY <1>2, <3>1
  <2> QED BY <1>2, <2>1
<1>4. Types' BY <1>0, <1>1 DEF Types, Saved
<1>5. Durable' /\ Unsaved' BY DEF Inv, Durable, Unsaved
<1>6. Behind' /\ Appending' BY DEF Inv, Behind, Appending, Saved
<1>7. AppendedIsSaved' BY DEF Inv, AppendedIsSaved, Saved
<1>8. AtRisk' BY <1>1, <1>3 DEF Inv, AtRisk, Saved
<1>9. Following' /\ Evaluating' BY <1>3 DEF Inv, Following, Evaluating, Asked
<1> QED BY <1>4, <1>5, <1>6, <1>7, <1>8, <1>9 DEF Inv

LEMMA ReportsInv ==
  ASSUME Inv, HandleAdjustEnvironment \/ HandleEvaluateModel
  PROVE  Inv'
<1> USE DEF mainVars, coordVars, deviceVars, saveVars, fileVars, histVars
<1>0. Types BY DEF Inv
<1>1. CASE HandleAdjustEnvironment
  <2> DEFINE n == Cardinality(DeviceTypes)
             r == [i \in 1..n |-> DeviceStatus]
  <2>1. n \in Nat BY FS_CardinalityType, ProgramAssumption
  <2>2. loggerMailbox' = loggerMailbox \o r BY <1>1 DEF HandleAdjustEnvironment
  <2> HIDE DEF n
  <2>3. r \in [1..n -> LoggerMessages] BY LoggerMessagesAre
  <2>4. r \in Seq(LoggerMessages) /\ Len(r) = n BY <2>1, <2>3
  <2>5. r \in Seq(LoggerMessages) /\ \A i \in 1..Len(r) : r[i].type # "RoundComplete"
    BY <2>4, LoggerMessagesAre
  <2> HIDE DEF r
  <2>6. /\ save' \in [Files -> {"idle", "tell", "wait", "write"}]
        /\ save'["coordinator"] = save["coordinator"] /\ save'["logger"] = save["logger"]
        /\ program = "service" => \A f \in Files : save'[f] \in {"idle", "tell"}
    BY <1>0, <1>1 DEF HandleAdjustEnvironment, Persist, Types, Files, Inv, Unsaved
  <2>7. evalMailbox' \in Seq(Results) /\ up BY <1>0, <1>1 DEF HandleAdjustEnvironment, Types, Idle
  <2> QED BY <1>1, <2>2, <2>5, <2>6, <2>7, MailGrows DEF HandleAdjustEnvironment
<1>2. CASE HandleEvaluateModel
  <2> DEFINE m == LogMetrics(Head(evalMailbox).round, Head(evalMailbox).weights)
             r == <<m>>
  <2>1. evalMailbox' \in Seq(Results) /\ Head(evalMailbox) \in Results
    BY <1>0, <1>2, HeadTailProperties DEF HandleEvaluateModel, Types
  <2>2. m \in LoggerMessages /\ m.type = "LogMetrics"
    BY <2>1, LoggerMessagesAre DEF Results
  <2>3. loggerMailbox' = Append(loggerMailbox, m) BY <1>2 DEF HandleEvaluateModel
  <2> HIDE DEF m
  <2>4. loggerMailbox' = loggerMailbox \o r
    BY <1>0, <2>2, <2>3, AppendIsConcat DEF Types
  <2>5. r \in Seq(LoggerMessages) /\ \A i \in 1..Len(r) : r[i].type # "RoundComplete"
    BY <2>2
  <2>6. /\ save' \in [Files -> {"idle", "tell", "wait", "write"}] /\ up
        /\ save'["coordinator"] = save["coordinator"] /\ save'["logger"] = save["logger"]
        /\ program = "service" => \A f \in Files : save'[f] \in {"idle", "tell"}
    BY <1>0, <1>2 DEF HandleEvaluateModel, Types, Inv, Unsaved
  <2> HIDE DEF r
  <2> QED BY <1>2, <2>1, <2>4, <2>5, <2>6, MailGrows DEF HandleEvaluateModel
<1> QED BY <1>1, <1>2

(* The coordinator announces the round and begins to save. *)
LEMMA FinaliseInv ==
  ASSUME Inv, Finalise PROVE Inv'
<1> USE DEF mainVars, coordVars, deviceVars, saveVars, fileVars, histVars
<1> DEFINE m == RoundComplete(c.round)
           b == Saved("coordinator").round
<1>0. Types /\ c.round \in Nat /\ b \in Nat /\ c.weights \in Nat
      /\ loggerMailbox \in Seq(LoggerMessages) BY FieldTypes DEF Inv, Types
<1>1. /\ up /\ save["coordinator"] = "tell" /\ loggerMailbox' = Append(loggerMailbox, m)
      /\ UNCHANGED <<mainVars, coordVars, l, evalMailbox, toAppend, fileVars, histVars>>
  BY DEF Finalise
<1>2. m \in LoggerMessages /\ m.type = "RoundComplete" /\ m.round = c.round
  BY <1>0, LoggerMessagesAre
<1>3. b < c.round BY <1>1 DEF Inv, Behind
<1>4. m \in Told(b) BY <1>0, <1>2, <1>3, ToldIs
<1> HIDE DEF m
<1>5. /\ loggerMailbox' \in Seq(LoggerMessages)
      /\ Len(loggerMailbox) \in Nat /\ Len(loggerMailbox') = Len(loggerMailbox) + 1
      /\ \A i \in 1..Len(loggerMailbox) : loggerMailbox'[i] = loggerMailbox[i]
      /\ loggerMailbox'[Len(loggerMailbox) + 1] = m
      /\ Count(loggerMailbox', Told(b)) = Count(loggerMailbox, Told(b)) + 1
      /\ Count(loggerMailbox, Told(b)) \in Nat
  BY <1>0, <1>1, <1>2, <1>4, AppendProperties, LenProperties, CountAppend, CountNat
<1>6. /\ save' \in [Files -> {"idle", "tell", "wait", "write"}]
      /\ save'["coordinator"] = IF program = "demo" THEN "wait" ELSE "idle"
      /\ save'["logger"] = save["logger"]
      /\ program = "service" => \A f \in Files : save'[f] \in {"idle", "tell"}
  BY <1>0 DEF Finalise, Persist, Types, Files, Inv, Unsaved
<1>7. Types' BY <1>0, <1>1, <1>5, <1>6 DEF Types, Saved
<1>8. Durable' /\ Unsaved' BY <1>1, <1>6 DEF Inv, Durable, Unsaved
<1>9. Behind' BY <1>1, <1>3 DEF Inv, Behind, Saved
<1>10. Appending' /\ AppendedIsSaved' BY <1>1, <1>6 DEF Inv, Appending, AppendedIsSaved, Saved
<1>11. AtRisk'
  <2>1. up' /\ Saved("coordinator")' = Saved("coordinator") BY <1>1 DEF Saved
  <2>2. ASSUME program' = "demo", "coordinator" \notin failed'
        PROVE  Count(l'.rounds, Beyond(b)) + Count(loggerMailbox', Told(b))
                 + Spare(save'["coordinator"]) <= starts'
    <3>1. Count(l.rounds, Beyond(b)) \in Nat BY <1>0, FieldTypes, CountNat
    <3>2. Count(l.rounds, Beyond(b)) + Count(loggerMailbox, Told(b)) + 1 <= starts
      BY <1>1, <2>2 DEF Inv, AtRisk, Spare
    <3>3. Spare(save'["coordinator"]) = 0 BY <1>1, <1>6, <2>2 DEF Spare
    <3>4. l' = l /\ starts' = starts /\ starts \in Nat BY <1>0, <1>1 DEF Types
    <3> QED BY <1>5, <3>1, <3>2, <3>3, <3>4
  <2>3. \E i \in 1..Len(loggerMailbox') : loggerMailbox'[i] = RoundComplete(c'.round)
    <3>1. Len(loggerMailbox) + 1 \in 1..Len(loggerMailbox') BY <1>5
    <3> QED BY <1>1, <1>5, <3>1 DEF m
  <2> QED BY <2>1, <2>2, <2>3 DEF AtRisk
<1>12. Following'
  <2>1. Asked' = Asked BY <1>1 DEF Asked
  <2>2. save'["coordinator"] # "tell" BY <1>6
  <2>3. ASSUME ~restored, NEW i \in 1..Len(loggerMailbox'), loggerMailbox'[i].type = "RoundComplete"
        PROVE  loggerMailbox'[i].round <= c.weights
    <3>1. CASE i = Len(loggerMailbox) + 1 BY <1>0, <1>1, <1>2, <1>5, <2>3, <3>1 DEF Inv, Following
    <3>2. CASE i # Len(loggerMailbox) + 1
      <4>1. i \in 1..Len(loggerMailbox) BY <1>5, <3>2
      <4> QED BY <1>5, <2>3, <4>1 DEF Inv, Following
    <3> QED BY <3>1, <3>2
  <2> QED BY <1>1, <2>1, <2>2, <2>3 DEF Inv, Following
<1>13. Evaluating' BY <1>1 DEF Inv, Evaluating
<1> QED BY <1>7, <1>8, <1>9, <1>10, <1>11, <1>12, <1>13 DEF Inv

(* What the logger keeps of a message. *)
LEMMA LoggedIs ==
  ASSUME Types, NEW m \in LoggerMessages
  PROVE  /\ Logged(m) \in LoggerData
         /\ m.type = "RoundComplete" => /\ Logged(m).rounds = Append(l.rounds, m.round)
                                        /\ Logged(m).metrics = l.metrics
         /\ m.type = "LogMetrics" => /\ Logged(m).rounds = l.rounds
                                     /\ Logged(m).metrics = Append(l.metrics, <<m.round, m.weights>>)
         /\ m.type = "DeviceStatus" => Logged(m) = l
<1>0. l \in LoggerData /\ l.rounds \in Seq(Nat) /\ l.metrics \in Seq(Nat \X Nat) BY FieldTypes
<1>1. CASE m.type = "RoundComplete"
  <2>1. Logged(m) = [l EXCEPT !.rounds = Append(l.rounds, m.round)] BY <1>1, Zenon DEF Logged
  <2>2. m.round \in Nat BY <1>1, LoggerMessagesAre
  <2>3. Append(l.rounds, m.round) \in Seq(Nat) BY <1>0, <2>2, AppendProperties
  <2> QED BY <1>0, <1>1, <2>1, <2>3 DEF LoggerData
<1>2. CASE m.type = "LogMetrics"
  <2>1. Logged(m) = [l EXCEPT !.metrics = Append(l.metrics, <<m.round, m.weights>>)]
    BY <1>2, Zenon DEF Logged
  <2>2. <<m.round, m.weights>> \in Nat \X Nat BY <1>2, LoggerMessagesAre
  <2>3. Append(l.metrics, <<m.round, m.weights>>) \in Seq(Nat \X Nat) BY <1>0, <2>2, AppendProperties
  <2> QED BY <1>0, <1>2, <2>1, <2>3 DEF LoggerData
<1>3. CASE m.type = "DeviceStatus"
  <2>1. Logged(m) = l BY <1>3, Zenon DEF Logged
  <2> QED BY <1>0, <1>3, <2>1
<1> QED BY <1>1, <1>2, <1>3, LoggerMessagesAre

LEMMA LoggerReceiveInv ==
  ASSUME Inv, LoggerReceive PROVE Inv'
<1> USE DEF mainVars, coordVars, deviceVars, fileVars, histVars
<1> DEFINE m == Head(loggerMailbox)
           b == Saved("coordinator").round
<1>0. Types /\ loggerMailbox \in Seq(LoggerMessages) /\ b \in Nat /\ c.weights \in Nat
  BY FieldTypes DEF Inv, Types
<1>1. /\ up /\ loggerMailbox # <<>> /\ loggerMailbox' = Tail(loggerMailbox) /\ l' = Logged(m)
      /\ UNCHANGED <<mainVars, coordVars, deviceVars, evalMailbox, fileVars, histVars>>
      /\ toAppend' = (m.type = "LogMetrics" /\ program = "demo")
  BY DEF LoggerReceive, Idle
<1>2. /\ m \in LoggerMessages /\ m = loggerMailbox[1]
      /\ loggerMailbox' \in Seq(LoggerMessages)
      /\ Len(loggerMailbox) \in Nat /\ 1 \in 1..Len(loggerMailbox)
      /\ Len(loggerMailbox') = Len(loggerMailbox) - 1
      /\ \A i \in 1..Len(loggerMailbox') : loggerMailbox'[i] = loggerMailbox[i + 1]
  BY <1>0, <1>1, HeadTailProperties, LenProperties
<1>3. /\ Count(loggerMailbox, Told(b)) = IF m \in Told(b) THEN Count(loggerMailbox', Told(b)) + 1
                                         ELSE Count(loggerMailbox', Told(b))
      /\ Count(loggerMailbox', Told(b)) \in Nat /\ Count(loggerMailbox, Told(b)) \in Nat
  BY <1>0, <1>1, <1>2, CountTail, CountNat
<1> HIDE DEF m
<1>4. /\ l' \in LoggerData /\ l'.rounds \in Seq(Nat) /\ l'.metrics \in Seq(Nat \X Nat)
      /\ m.type = "RoundComplete" => l'.rounds = Append(l.rounds, m.round) /\ m.round \in Nat
      /\ m.type # "RoundComplete" => l'.rounds = l.rounds
      /\ m.type = "LogMetrics" => /\ l'.metrics = Append(l.metrics, <<m.round, m.weights>>)
                                  /\ <<m.round, m.weights>> \in Nat \X Nat
      /\ m.type # "LogMetrics" => l'.metrics = l.metrics
  <2>1. l' \in LoggerData BY <1>0, <1>1, <1>2, LoggedIs
  <2>2. l'.rounds \in Seq(Nat) /\ l'.metrics \in Seq(Nat \X Nat) BY <2>1 DEF LoggerData
  <2> QED BY <1>0, <1>1, <1>2, <2>1, <2>2, LoggedIs, LoggerMessagesAre
<1>5. /\ save' \in [Files -> {"idle", "tell", "wait", "write"}]
      /\ save'["coordinator"] = save["coordinator"]
      /\ save'["logger"] = IF program = "demo" THEN "wait" ELSE "idle"
      /\ program = "service" => \A f \in Files : save'[f] \in {"idle", "tell"}
  BY <1>0 DEF LoggerReceive, Persist, Types, Files, Inv, Unsaved
<1>6. toAppend' \in BOOLEAN BY <1>1
<1>7. Types' BY <1>0, <1>1, <1>2, <1>4, <1>5, <1>6 DEF Types, Saved
<1>8. Durable' BY <1>1, <1>5 DEF Inv, Durable
<1>9. Unsaved' BY <1>1, <1>5 DEF Inv, Unsaved
<1>10. Behind'
  <2>1. IsPrefix(Saved("logger").rounds, l'.rounds)
    <3>1. CASE m.type = "RoundComplete"
      BY <1>0, <1>1, <1>4, <3>1, PrefixAppend, FieldTypes DEF Inv, Behind
    <3>2. CASE m.type # "RoundComplete" BY <1>1, <1>4, <3>2 DEF Inv, Behind
    <3> QED BY <3>1, <3>2
  <2>2. IsPrefix(Saved("logger").metrics, l'.metrics)
    <3>1. CASE m.type = "LogMetrics"
      BY <1>0, <1>1, <1>4, <3>1, PrefixAppend, FieldTypes DEF Inv, Behind
    <3>2. CASE m.type # "LogMetrics" BY <1>1, <1>4, <3>2 DEF Inv, Behind
    <3> QED BY <3>1, <3>2
  <2> QED BY <1>1, <1>5, <2>1, <2>2 DEF Inv, Behind, Saved
<1>11. Appending'
  <2>1. toAppend' => l'.metrics # <<>>
    <3>1. l.metrics \in Seq(Nat \X Nat) BY <1>0, FieldTypes
    <3>2. ASSUME m.type = "LogMetrics" PROVE l'.metrics # <<>>
      <4> DEFINE e == <<m.round, m.weights>>
                 S == Nat \X Nat
      <4>1. l'.metrics = Append(l.metrics, e) /\ e \in S /\ l.metrics \in Seq(S)
        BY <1>4, <3>1, <3>2
      <4> HIDE DEF e, S
      <4>2. Append(l.metrics, e) # <<>> BY <4>1, AppendProperties
      <4> QED BY <4>1, <4>2
    <3> QED BY <1>1, <3>2
  <2> QED BY <1>1, <1>5, <2>1 DEF Appending
<1>12. AppendedIsSaved' BY <1>1 DEF Inv, AppendedIsSaved, Saved
<1>13. /\ l.rounds \in Seq(Nat) /\ Len(l.rounds) \in Nat
       /\ \A i \in 1..Len(l.rounds) : i \in 1..Len(l'.rounds) /\ l'.rounds[i] = l.rounds[i]
       /\ m.type = "RoundComplete" =>
            \E i \in 1..Len(l'.rounds) : l'.rounds[i] = m.round
       /\ \A i \in 1..Len(l'.rounds) : \/ i \in 1..Len(l.rounds) /\ l'.rounds[i] = l.rounds[i]
                                       \/ m.type = "RoundComplete" /\ l'.rounds[i] = m.round
  <2>1. l.rounds \in Seq(Nat) /\ Len(l.rounds) \in Nat BY <1>0, FieldTypes, LenProperties
  <2>2. CASE m.type = "RoundComplete"
    <3>0. l'.rounds = Append(l.rounds, m.round) /\ m.round \in Nat BY <1>4, <2>2
    <3>1. /\ Len(l'.rounds) = Len(l.rounds) + 1
          /\ \A i \in 1..Len(l.rounds) : l'.rounds[i] = l.rounds[i]
          /\ l'.rounds[Len(l.rounds) + 1] = m.round
      BY <2>1, <3>0, AppendProperties
    <3>2. Len(l.rounds) + 1 \in 1..Len(l'.rounds) BY <2>1, <3>1
    <3> QED BY <2>1, <2>2, <3>1, <3>2
  <2>3. CASE m.type # "RoundComplete" BY <1>4, <2>1, <2>3
  <2> QED BY <2>2, <2>3
<1>14. AtRisk'
  <2>1. Saved("coordinator")' = Saved("coordinator") /\ up' BY <1>1 DEF Saved
  <2>2. Count(l'.rounds, Beyond(b)) + Count(loggerMailbox', Told(b))
          = Count(l.rounds, Beyond(b)) + Count(loggerMailbox, Told(b))
    <3>1. Count(l.rounds, Beyond(b)) \in Nat BY <1>13, CountNat
    <3>2. CASE m.type = "RoundComplete"
      <4>1. m \in Told(b) <=> m.round \in Beyond(b) BY <1>0, <1>2, <1>4, <3>2, ToldIs DEF Beyond
      <4>2. Count(l'.rounds, Beyond(b)) = IF m.round \in Beyond(b) THEN Count(l.rounds, Beyond(b)) + 1
                                          ELSE Count(l.rounds, Beyond(b))
        <5>1. l'.rounds = Append(l.rounds, m.round) /\ m.round \in Nat BY <1>4, <3>2
        <5>2. l.rounds \in Seq(Nat) BY <1>13
        <5> QED BY <5>1, <5>2, CountAppend
      <4> QED BY <1>3, <3>1, <4>1, <4>2
    <3>3. CASE m.type # "RoundComplete"
      <4>1. m \notin Told(b) BY <1>0, <1>2, <3>3, ToldIs
      <4> QED BY <1>3, <1>4, <3>1, <3>3, <4>1
    <3> QED BY <3>2, <3>3
  <2>3. ASSUME save["coordinator"] \in {"wait", "write"}
        PROVE  \/ \E i \in 1..Len(l'.rounds) : l'.rounds[i] = c.round
               \/ \E i \in 1..Len(loggerMailbox') : loggerMailbox'[i] = RoundComplete(c.round)
    <3>1. CASE \E i \in 1..Len(l.rounds) : l.rounds[i] = c.round BY <1>13, <3>1
    <3>2. ASSUME NEW i \in 1..Len(loggerMailbox), loggerMailbox[i] = RoundComplete(c.round)
          PROVE  \/ \E k \in 1..Len(l'.rounds) : l'.rounds[k] = c.round
                 \/ \E k \in 1..Len(loggerMailbox') : loggerMailbox'[k] = RoundComplete(c.round)
      <4>1. CASE i = 1
        <5>1. m.type = "RoundComplete" /\ m.round = c.round
          BY <1>0, <1>2, <3>2, <4>1, FieldTypes, LoggerMessagesAre
        <5> QED BY <1>13, <5>1
      <4>2. CASE i # 1
        <5>1. i - 1 \in 1..Len(loggerMailbox') /\ (i - 1) + 1 = i BY <1>2, <4>2
        <5> QED BY <1>2, <3>2, <5>1
      <4> QED BY <4>1, <4>2
    <3> QED BY <2>3, <3>1, <3>2 DEF Inv, AtRisk
  <2>4. ASSUME program = "demo", "coordinator" \notin failed
        PROVE  Count(l'.rounds, Beyond(b)) + Count(loggerMailbox', Told(b))
                 + Spare(save["coordinator"]) <= starts
    BY <1>1, <2>2, <2>4 DEF Inv, AtRisk
  <2> QED BY <1>1, <1>5, <2>1, <2>3, <2>4 DEF AtRisk
<1>15. Following'
  <2>1. Asked' = Asked BY <1>1 DEF Asked
  <2>2. ASSUME ~restored PROVE /\ \A i \in 1..Len(loggerMailbox') :
                                    loggerMailbox'[i].type = "RoundComplete" =>
                                      loggerMailbox'[i].round <= c.weights
                               /\ \A i \in 1..Len(l'.rounds) : l'.rounds[i] <= c.weights
    <3>1. /\ \A i \in 1..Len(loggerMailbox) :
               loggerMailbox[i].type = "RoundComplete" => loggerMailbox[i].round <= c.weights
          /\ \A i \in 1..Len(l.rounds) : l.rounds[i] <= c.weights
      BY <2>2 DEF Inv, Following
    <3>2. m.type = "RoundComplete" => m.round <= c.weights BY <1>2, <3>1
    <3>3. \A i \in 1..Len(loggerMailbox') : i + 1 \in 1..Len(loggerMailbox) BY <1>2
    <3> QED BY <1>2, <1>13, <3>1, <3>2, <3>3
  <2> QED BY <1>1, <1>5, <2>1, <2>2 DEF Inv, Following
<1>16. Evaluating' BY <1>1 DEF Inv, Evaluating
<1> QED BY <1>7, <1>8, <1>9, <1>10, <1>11, <1>12, <1>14, <1>15, <1>16 DEF Inv

(* The line that is appended is already in the saved state. *)
LEMMA AppendJSONInv ==
  ASSUME Inv, AppendJSON PROVE Inv'
<1> USE DEF mainVars, coordVars, deviceVars, loggerVars, actorVars, histVars
<1>0. Types /\ jsonl \in Seq(Nat \X Nat) BY DEF Inv, Types
<1>1. /\ up /\ save["logger"] = "idle" /\ toAppend /\ toAppend' = FALSE
      /\ jsonl' = Append(jsonl, Last(l.metrics))
      /\ UNCHANGED <<mainVars, actorVars, save, disk, histVars>>
  BY DEF AppendJSON, Idle
<1>2. /\ l.metrics \in Seq(Nat \X Nat) /\ Len(l.metrics) \in 1..Len(l.metrics)
      /\ Last(l.metrics) = l.metrics[Len(l.metrics)] /\ Last(l.metrics) \in Nat \X Nat
  <2>1. l.metrics \in Seq(Nat \X Nat) /\ l.metrics # <<>> BY <1>0, <1>1, FieldTypes DEF Inv, Appending
  <2>2. Len(l.metrics) \in 1..Len(l.metrics) BY <2>1, LenProperties
  <2> QED BY <2>1, <2>2, ElementOfSeq DEF Last
<1>3. /\ jsonl' \in Seq(Nat \X Nat) /\ Len(jsonl) \in Nat /\ Len(jsonl') = Len(jsonl) + 1
      /\ \A i \in 1..Len(jsonl) : jsonl'[i] = jsonl[i]
      /\ jsonl'[Len(jsonl) + 1] = Last(l.metrics)
  BY <1>0, <1>1, <1>2, AppendProperties, LenProperties
<1>4. program = "demo" BY <1>0, <1>1 DEF Inv, Unsaved, Types
<1>5. Types' BY <1>0, <1>1, <1>3 DEF Types, Saved
<1>6. Durable' /\ Unsaved' BY <1>1, <1>4 DEF Inv, Durable, Unsaved
<1>7. Behind' /\ Appending' BY <1>1 DEF Inv, Behind, Appending, Saved
<1>8. AppendedIsSaved'
  <2> SUFFICES ASSUME "logger" \notin failed, NEW e \in Range(jsonl')
               PROVE  e \in Range(Saved("logger").metrics)
    BY <1>1 DEF AppendedIsSaved, Saved
  <2>1. PICK i \in 1..Len(jsonl') : e = jsonl'[i] BY <1>3 DEF Range
  <2>2. CASE i = Len(jsonl) + 1
    <3>1. Saved("logger").metrics = l.metrics BY <1>1, <1>4 DEF Inv, Appending
    <3>2. e = Last(l.metrics) BY <1>3, <2>1, <2>2
    <3>3. Last(l.metrics) \in Range(l.metrics) BY <1>2 DEF Range
    <3> QED BY <3>1, <3>2, <3>3
  <2>3. CASE i # Len(jsonl) + 1
    <3>1. i \in 1..Len(jsonl) /\ e = jsonl[i] BY <1>3, <2>1, <2>3
    <3>2. e \in Range(jsonl) BY <1>0, <3>1 DEF Range
    <3> QED BY <3>2 DEF Inv, AppendedIsSaved
  <2> QED BY <2>2, <2>3
<1>9. AtRisk' BY <1>1 DEF Inv, AtRisk, Saved
<1>10. Following' /\ Evaluating' BY <1>1 DEF Inv, Following, Evaluating, Asked
<1> QED BY <1>5, <1>6, <1>7, <1>8, <1>9, <1>10 DEF Inv

-----------------------------------------------------------------------------
(* The Persister: a save begins, or fails. *)
LEMMA SaveBeginInv ==
  ASSUME Inv, NEW f \in Files, SaveBegin(f) \/ SaveFails(f) PROVE Inv'
<1> USE DEF mainVars, coordVars, deviceVars, loggerVars, actorVars, fileVars
<1>0. Types BY DEF Inv
<1>1. /\ up /\ save[f] \in {"wait", "write"}
      /\ UNCHANGED <<mainVars, actorVars, toAppend, fileVars, program, up, starts, restored>>
      /\ failed' = failed \/ failed' = failed \cup {f}
      /\ save' \in [Files -> {"idle", "tell", "wait", "write"}]
      /\ \A g \in Files : g # f => save'[g] = save[g]
      /\ save'[f] = "write" \/ (save'[f] = "idle" /\ f \in failed')
  BY <1>0 DEF SaveBegin, SaveFails, Types, histVars
<1>2. program = "demo" BY <1>0, <1>1 DEF Inv, Unsaved, Types
<1>3. "coordinator" \in Files /\ "logger" \in Files BY DEF Files
<1>4. Types' BY <1>0, <1>1 DEF Types, Saved
<1>5. Durable' /\ Unsaved' BY <1>1, <1>2, <1>3 DEF Inv, Durable, Unsaved
<1>6. Behind'
  <2>1. save'["coordinator"] # "idle" => save["coordinator"] # "idle" BY <1>1, <1>3
  <2> QED BY <1>1, <2>1 DEF Inv, Behind, Saved
<1>7. Appending'
  <2>1. "logger" \notin failed' /\ save'["logger"] = "idle" =>
          "logger" \notin failed /\ save["logger"] = "idle"
    BY <1>1, <1>3
  <2> QED BY <1>1, <2>1 DEF Inv, Appending, Saved
<1>8. AppendedIsSaved'
  <2>1. "logger" \notin failed' => "logger" \notin failed BY <1>1
  <2> QED BY <1>1, <2>1 DEF Inv, AppendedIsSaved, Saved
<1>9. AtRisk'
  <2>1. "coordinator" \notin failed' =>
          "coordinator" \notin failed /\ Spare(save'["coordinator"]) = Spare(save["coordinator"])
    BY <1>1, <1>3 DEF Spare
  <2>2. save'["coordinator"] \in {"wait", "write"} => save["coordinator"] \in {"wait", "write"}
    BY <1>1, <1>3
  <2> QED BY <1>1, <2>1, <2>2 DEF Inv, AtRisk, Saved
<1>10. Following'
  <2>1. save'["coordinator"] = "tell" => save["coordinator"] = "tell" BY <1>1, <1>3
  <2> QED BY <1>1, <2>1 DEF Inv, Following, Asked
<1>11. Evaluating' BY <1>1 DEF Inv, Evaluating
<1> QED BY <1>4, <1>5, <1>6, <1>7, <1>8, <1>9, <1>10, <1>11 DEF Inv

LEMMA BeyondShrinks ==
  ASSUME NEW b \in Nat, NEW n \in Nat, b < n
  PROVE  /\ Beyond(n) \subseteq Beyond(b) /\ Told(n) \subseteq Told(b)
         /\ n \in Beyond(b) /\ n \notin Beyond(n)
         /\ RoundComplete(n) \in Told(b) /\ RoundComplete(n) \notin Told(n)
<1>1. Beyond(n) \subseteq Beyond(b) /\ n \in Beyond(b) /\ n \notin Beyond(n) BY DEF Beyond
<1>2. Told(n) \subseteq Told(b) /\ RoundComplete(n) \in Told(b) BY <1>1 DEF Told
<1>3. RoundComplete(n) \notin Told(n) BY ToldIs, LoggerMessagesAre
<1> QED BY <1>1, <1>2, <1>3

(* A round that is saved is no longer at risk. *)
LEMMA RiskFalls ==
  ASSUME Inv, up, save["coordinator"] = "write"
  PROVE  LET b == Saved("coordinator").round
             n == c.round
         IN  Count(l.rounds, Beyond(n)) + Count(loggerMailbox, Told(n)) + 1
               <= Count(l.rounds, Beyond(b)) + Count(loggerMailbox, Told(b))
<1> DEFINE b == Saved("coordinator").round
           n == c.round
<1>1. /\ b \in Nat /\ n \in Nat /\ b < n
      /\ l.rounds \in Seq(Nat) /\ loggerMailbox \in Seq(LoggerMessages)
  BY FieldTypes DEF Inv, Types, Behind
<1>2. /\ Beyond(n) \subseteq Beyond(b) /\ Told(n) \subseteq Told(b)
      /\ n \in Beyond(b) /\ n \notin Beyond(n)
      /\ RoundComplete(n) \in Told(b) /\ RoundComplete(n) \notin Told(n)
  BY <1>1, BeyondShrinks
<1>3. /\ Count(l.rounds, Beyond(n)) \in Nat /\ Count(loggerMailbox, Told(n)) \in Nat
      /\ Count(l.rounds, Beyond(b)) \in Nat /\ Count(loggerMailbox, Told(b)) \in Nat
      /\ Count(l.rounds, Beyond(n)) <= Count(l.rounds, Beyond(b))
      /\ Count(loggerMailbox, Told(n)) <= Count(loggerMailbox, Told(b))
  BY <1>1, <1>2, CountNat, CountLarger
<1>4. \/ \E i \in 1..Len(l.rounds) : l.rounds[i] = n
      \/ \E i \in 1..Len(loggerMailbox) : loggerMailbox[i] = RoundComplete(n)
  BY DEF Inv, AtRisk
<1> HIDE DEF b, n
<1>5. CASE \E i \in 1..Len(l.rounds) : l.rounds[i] = n
  <2>1. Count(l.rounds, Beyond(n)) + 1 <= Count(l.rounds, Beyond(b))
    BY <1>1, <1>2, <1>5, CountLarger
  <2> QED BY <1>3, <2>1 DEF b, n
<1>6. CASE \E i \in 1..Len(loggerMailbox) : loggerMailbox[i] = RoundComplete(n)
  <2>1. Count(loggerMailbox, Told(n)) + 1 <= Count(loggerMailbox, Told(b))
    BY <1>1, <1>2, <1>6, CountLarger
  <2> QED BY <1>3, <2>1 DEF b, n
<1> QED BY <1>4, <1>5, <1>6

(* The new file replaces the old one. *)
LEMMA SaveRenameInv ==
  ASSUME Inv, NEW f \in Files, SaveRename(f) PROVE Inv'
<1> USE DEF mainVars, coordVars, deviceVars, loggerVars, actorVars, histVars
<1>0. Types BY DEF Inv
<1>1. /\ up /\ save[f] = "write" /\ UNCHANGED <<mainVars, actorVars, toAppend, jsonl, histVars>>
      /\ save' \in [Files -> {"idle", "tell", "wait", "write"}]
      /\ save'[f] = "idle" /\ \A g \in Files : g # f => save'[g] = save[g]
      /\ DOMAIN disk' = Files
      /\ disk'[f] = Whole(Memory(f)) /\ \A g \in Files : g # f => disk'[g] = disk[g]
  BY <1>0 DEF SaveRename, Types
<1>2. program = "demo" BY <1>0, <1>1 DEF Inv, Unsaved, Types
<1>3. "coordinator" \in Files /\ "logger" \in Files BY DEF Files
<1>4. disk'[f].state = "whole" /\ disk'[f].data = Memory(f) BY <1>1 DEF Whole
<1>5. CASE f = "coordinator"
  <2> DEFINE n == c.round
             b == Saved("coordinator").round
  <2>1. /\ Saved("coordinator")' \in CoordData /\ Saved("coordinator")'.round = n
        /\ Saved("logger")' = Saved("logger") /\ n \in Nat
        /\ save'["coordinator"] = "idle" /\ save'["logger"] = save["logger"]
    BY <1>0, <1>1, <1>3, <1>4, <1>5, MemoryIs, FieldTypes DEF Saved, CoordData
  <2>2. Types' BY <1>0, <1>1, <2>1 DEF Types
  <2>3. Durable' /\ Unsaved' BY <1>1, <1>2, <1>4, <2>1 DEF Inv, Durable, Unsaved
  <2>4. Behind'
    <3>1. ~c.open /\ IsPrefix(Saved("logger").rounds, l.rounds)
          /\ IsPrefix(Saved("logger").metrics, l.metrics)
      BY <1>1, <1>5 DEF Inv, Behind
    <3> QED BY <1>1, <2>1, <3>1 DEF Behind
  <2>5. Appending' /\ AppendedIsSaved' BY <1>1, <2>1 DEF Inv, Appending, AppendedIsSaved
  <2>6. AtRisk'
    <3>1. ASSUME "coordinator" \notin failed
          PROVE  Count(l.rounds, Beyond(n)) + Count(loggerMailbox, Told(n)) + 1 <= starts
      <4>1. Count(l.rounds, Beyond(b)) + Count(loggerMailbox, Told(b)) + 0 <= starts
        BY <1>1, <1>2, <1>5, <3>1 DEF Inv, AtRisk, Spare
      <4>2. Count(l.rounds, Beyond(n)) + Count(loggerMailbox, Told(n)) + 1
              <= Count(l.rounds, Beyond(b)) + Count(loggerMailbox, Told(b))
        BY <1>1, <1>5, RiskFalls
      <4>3. /\ Count(l.rounds, Beyond(n)) \in Nat /\ Count(loggerMailbox, Told(n)) \in Nat
            /\ Count(l.rounds, Beyond(b)) \in Nat /\ Count(loggerMailbox, Told(b)) \in Nat
            /\ starts \in Nat
        BY <1>0, FieldTypes, CountNat DEF Types
      <4> QED BY <4>1, <4>2, <4>3
    <3>2. Spare(save'["coordinator"]) = 1 BY <2>1 DEF Spare
    <3> QED BY <1>1, <2>1, <3>1, <3>2 DEF AtRisk
  <2>7. Following' /\ Evaluating' BY <1>1, <2>1 DEF Inv, Following, Evaluating, Asked
  <2> QED BY <2>2, <2>3, <2>4, <2>5, <2>6, <2>7 DEF Inv
<1>6. CASE f # "coordinator"
  <2>1. /\ Saved("coordinator")' = Saved("coordinator")
        /\ save'["coordinator"] = save["coordinator"]
    BY <1>1, <1>3, <1>6 DEF Saved
  <2>2. /\ Saved("logger")' \in LoggerData
        /\ f = "logger" => Saved("logger")' = l
        /\ f # "logger" => Saved("logger")' = Saved("logger") /\ save'["logger"] = save["logger"]
        /\ save'["logger"] \in {save["logger"], "idle"}
    BY <1>0, <1>1, <1>3, <1>4, MemoryIs, FieldTypes DEF Saved
  <2>3. Types' BY <1>0, <1>1, <2>1, <2>2 DEF Types
  <2>4. Durable' /\ Unsaved' BY <1>1, <1>2, <1>4, <2>2 DEF Inv, Durable, Unsaved
  <2>5. /\ l.rounds \in Seq(Nat) /\ l.metrics \in Seq(Nat \X Nat)
        /\ IsPrefix(l.rounds, l.rounds) /\ IsPrefix(l.metrics, l.metrics)
    <3>1. l.rounds \in Seq(Nat) /\ l.metrics \in Seq(Nat \X Nat)
          /\ Len(l.rounds) \in Nat /\ Len(l.metrics) \in Nat BY <1>0, FieldTypes, LenProperties
    <3> QED BY <3>1, PrefixIs
  <2>6. Behind' BY <1>1, <2>1, <2>2, <2>5 DEF Inv, Behind
  <2>7. Appending' BY <1>1, <2>2 DEF Inv, Appending
  <2>8. AppendedIsSaved'
    <3>1. Range(Saved("logger").metrics) \subseteq Range(l.metrics)
      BY <1>0, <1>1, <2>5, FieldTypes, PrefixRange DEF Inv, Behind
    <3>2. CASE f = "logger" BY <1>1, <2>2, <3>1, <3>2 DEF Inv, AppendedIsSaved
    <3>3. CASE f # "logger" BY <1>1, <2>2, <3>3 DEF Inv, AppendedIsSaved
    <3> QED BY <3>2, <3>3
  <2>9. AtRisk' BY <1>1, <2>1 DEF Inv, AtRisk
  <2>10. Following' /\ Evaluating' BY <1>1, <2>1 DEF Inv, Following, Evaluating, Asked
  <2> QED BY <2>3, <2>4, <2>6, <2>7, <2>8, <2>9, <2>10 DEF Inv
<1> QED BY <1>5, <1>6

-----------------------------------------------------------------------------
(* What a process finds on the disk is what was saved, or nothing. *)
LEMMA LoadIs ==
  ASSUME Inv
  PROVE  /\ Load("coordinator") = Saved("coordinator")
         /\ Load("logger") = Saved("logger")
         /\ (\A f \in Files : disk[f].state # "whole") =>
              Saved("coordinator") = NewCoordinator /\ Saved("logger") = NewLogger
<1>1. \A f \in Files : Missing(f).state = "missing" /\ Missing(f).data = New(f) BY DEF Missing
<1>2. \A f \in Files : disk[f].state = "whole" \/ disk[f] = Missing(f) BY DEF Inv, Durable
<1>3. "coordinator" \in Files /\ "logger" \in Files BY DEF Files
<1> QED BY <1>1, <1>2, <1>3, NewIs DEF Load, Saved

LEMMA StartInv ==
  ASSUME Inv, Start PROVE Inv'
<1> USE DEF mainVars, saveVars, fileVars
<1> DEFINE b == Saved("coordinator").round
<1>0. Types /\ b \in Nat BY FieldTypes DEF Inv
<1>1. /\ ~up /\ up' = TRUE /\ starts' = starts + 1
      /\ c' = Resume(Saved("coordinator")) /\ l' = Saved("logger")
      /\ restored' = \E f \in Files : disk[f].state = "whole"
      /\ UNCHANGED <<mainVars, coordMailbox, loggerMailbox, deviceMailbox, evalMailbox,
                     saveVars, program, failed>>
  BY LoadIs DEF Start
<1>2. /\ c = Resume(NewCoordinator) /\ l = NewLogger /\ loggerMailbox = <<>>
      /\ save = [f \in Files |-> "idle"] /\ ~toAppend /\ ~restored
  BY <1>1 DEF Inv, Durable
<1>3. c' \in CoordFields /\ c'.round = b /\ c'.open = FALSE BY <1>0, <1>1, FieldTypes, ResumeIs
<1>4. /\ save["coordinator"] = "idle" /\ save["logger"] = "idle"
      /\ UNCHANGED <<Saved("coordinator"), Saved("logger")>>
  BY <1>1, <1>2 DEF Files, Saved
<1>5. l' \in LoggerData /\ restored' \in BOOLEAN /\ starts' \in Nat /\ starts \in Nat
  BY <1>0, <1>1, FieldTypes DEF Types
<1>6. Types' BY <1>0, <1>1, <1>3, <1>4, <1>5 DEF Types
<1>7. Durable' /\ Unsaved' BY <1>1 DEF Inv, Durable, Unsaved
<1>8. Behind'
  <2>1. IsPrefix(l'.rounds, l'.rounds) /\ IsPrefix(l'.metrics, l'.metrics)
    <3>1. l'.rounds \in Seq(Nat) /\ l'.metrics \in Seq(Nat \X Nat) BY <1>5 DEF LoggerData
    <3>2. Len(l'.rounds) \in Nat /\ Len(l'.metrics) \in Nat BY <3>1, LenProperties
    <3> QED BY <3>1, <3>2, PrefixIs
  <2> QED BY <1>0, <1>1, <1>3, <1>4, <2>1 DEF Behind
<1>9. Appending' /\ AppendedIsSaved' BY <1>1, <1>2, <1>4 DEF Inv, Appending, AppendedIsSaved
<1>10. AtRisk'
  <2>1. ASSUME "coordinator" \notin failed
        PROVE  Count(l'.rounds, Beyond(b)) + Count(loggerMailbox', Told(b)) + 1 <= starts'
    <3>1. Count(loggerMailbox', Told(b)) = 0 BY <1>1, <1>2, CountEmpty
    <3>2. Count(l'.rounds, Beyond(b)) <= starts BY <1>1, <2>1 DEF Inv, AtRisk
    <3>3. Count(l'.rounds, Beyond(b)) \in Nat BY <1>0, <1>1, FieldTypes, CountNat
    <3> QED BY <1>1, <1>5, <3>1, <3>2, <3>3
  <2>2. Spare(save'["coordinator"]) = 1 BY <1>1, <1>4 DEF Spare
  <2> QED BY <1>1, <1>4, <2>1, <2>2 DEF AtRisk
<1>11. restored' = FALSE => c' = c /\ l' = l BY <1>1, <1>2, LoadIs
<1>12. Following' BY <1>1, <1>2, <1>5, <1>11 DEF Inv, Following, Asked
<1>13. Evaluating' BY <1>1, <1>2 DEF Inv, Evaluating
<1> QED BY <1>6, <1>7, <1>8, <1>9, <1>10, <1>12, <1>13 DEF Inv

(* The saved log has no more rounds at risk than the one in memory. *)
LEMMA SavedRisk ==
  ASSUME Inv, "coordinator" \notin failed
  PROVE  Count(Saved("logger").rounds, Beyond(Saved("coordinator").round)) <= starts
<1> DEFINE B == Beyond(Saved("coordinator").round)
           T == Told(Saved("coordinator").round)
<1>0. /\ Types /\ starts \in Nat /\ loggerMailbox \in Seq(LoggerMessages)
      /\ Saved("logger").rounds \in Seq(Nat) /\ l.rounds \in Seq(Nat)
      /\ program \in {"demo", "service"}
  BY FieldTypes DEF Inv, Types
<1>1. CASE ~up BY <1>1 DEF Inv, AtRisk
<1>2. CASE up /\ program = "service"
  <2>1. \A f \in Files : Missing(f).state = "missing" BY DEF Missing
  <2>2. \A f \in Files : disk[f].state # "whole" BY <1>2, <2>1 DEF Inv, Unsaved
  <2>3. Saved("logger").rounds = <<>> BY <2>2, LoadIs DEF NewLogger
  <2> QED BY <1>0, <2>3, CountEmpty
<1>3. CASE up /\ program = "demo"
  <2>1. Count(l.rounds, B) + Count(loggerMailbox, T) + Spare(save["coordinator"]) <= starts
    BY <1>3 DEF Inv, AtRisk
  <2>2. Count(Saved("logger").rounds, B) <= Count(l.rounds, B)
    BY <1>0, <1>3, PrefixCount DEF Inv, Behind
  <2>3. /\ Count(l.rounds, B) \in Nat /\ Count(loggerMailbox, T) \in Nat
        /\ Count(Saved("logger").rounds, B) \in Nat /\ Spare(save["coordinator"]) \in {0, 1}
    BY <1>0, CountNat DEF Spare
  <2> HIDE DEF B, T
  <2>4. Count(Saved("logger").rounds, B) <= starts BY <1>0, <2>1, <2>2, <2>3
  <2> QED BY <2>4 DEF B
<1> QED BY <1>0, <1>1, <1>2, <1>3

LEMMA GoneInv ==
  ASSUME Inv, Crash \/ Exit PROVE Inv'
<1> USE DEF fileVars, Gone
<1>0. Types BY DEF Inv
<1>1. Gone /\ up /\ UNCHANGED fileVars BY DEF Crash, Exit
<1>2. c' \in CoordFields /\ c'.round = 0 /\ c'.weights = 0 BY <1>1, NewData, ResumeIs DEF NewCoordinator
<1>3. /\ l' \in LoggerData /\ l'.rounds = <<>> BY <1>1, NewData DEF NewLogger
<1>4. /\ save' \in [Files -> {"idle", "tell", "wait", "write"}]
      /\ \A f \in Files : save'[f] = "idle"
      /\ save'["coordinator"] = "idle" /\ save'["logger"] = "idle"
  BY <1>1 DEF Files
<1>5. UNCHANGED <<Saved("coordinator"), Saved("logger")>> BY <1>1 DEF Saved
<1>6. Types'
  <2>1. /\ results' \in Seq(Results) /\ coordMailbox' \in Seq(CoordMessages)
        /\ loggerMailbox' \in Seq(LoggerMessages) /\ evalMailbox' \in Seq(Results)
    BY <1>1
  <2>2. /\ up' \in BOOLEAN /\ toAppend' \in BOOLEAN /\ restored' \in BOOLEAN
        /\ expected' \in Nat /\ coordWeights' \in Nat
        /\ UNCHANGED <<disk, jsonl, program, starts>>
    BY <1>1
  <2> HIDE DEF Gone
  <2> QED BY <1>0, <1>2, <1>3, <1>4, <1>5, <2>1, <2>2 DEF Types
<1>7. Durable' BY <1>1, <1>4 DEF Inv, Durable
<1>8. Unsaved' BY <1>1, <1>4 DEF Inv, Unsaved
<1>9. Behind' /\ Appending' BY <1>1 DEF Behind, Appending
<1>10. AppendedIsSaved' BY <1>1, <1>5 DEF Inv, AppendedIsSaved
<1>11. AtRisk'
  <2>1. up' = FALSE /\ failed' = failed /\ starts' = starts BY <1>1
  <2> HIDE DEF Gone
  <2> QED BY <1>4, <1>5, <2>1, SavedRisk DEF AtRisk
<1>12. Following'
  <2>1. Count(coordMailbox', StartRounds) = 0 BY <1>1, CountEmpty
  <2>2. Asked' = 0 /\ expected' = 1 /\ pc' = "start" /\ loggerMailbox' = <<>> BY <1>1 DEF Asked
  <2> HIDE DEF Gone
  <2> QED BY <1>2, <1>3, <1>4, <2>1, <2>2 DEF Following
<1>13. Evaluating' BY <1>1 DEF Evaluating
<1> QED BY <1>6, <1>7, <1>8, <1>9, <1>10, <1>11, <1>12, <1>13 DEF Inv

LEMMA InvStep ==
  ASSUME Inv, [Next]_vars PROVE Inv'
<1>1. CASE Start BY <1>1, StartInv
<1>2. CASE Crash \/ Exit BY <1>2, GoneInv
<1>3. CASE Main \/ \E s \in Sensors : RemoteRegister(s) BY <1>3, MainInv
<1>4. CASE Coordinator \/ Aggregate BY <1>4, HandlerInv, FinaliseInv, AggregateInv DEF Coordinator
<1>5. CASE HandleAdjustEnvironment \/ HandleEvaluateModel BY <1>5, ReportsInv
<1>6. CASE Logger BY <1>6, LoggerReceiveInv, AppendJSONInv DEF Logger
<1>7. CASE \E f \in Files : Save(f) BY <1>7, SaveBeginInv, SaveRenameInv DEF Save
<1>8. CASE UNCHANGED vars
  <2> USE <1>8 DEF vars, mainVars, actorVars, coordVars, loggerVars, deviceVars, saveVars,
               fileVars, histVars
  <2>1. Durable' /\ Unsaved' /\ Behind' /\ Appending' /\ AppendedIsSaved' /\ AtRisk' BY MemoryKept
  <2>2. Types' BY DEF Inv, Types, Saved
  <2>3. Following' /\ Evaluating' BY DEF Inv, Following, Evaluating, Asked
  <2> QED BY <2>1, <2>2, <2>3 DEF Inv
<1> QED BY <1>1, <1>2, <1>3, <1>4, <1>5, <1>6, <1>7, <1>8 DEF Next

(* Theorem: for any number of processes, rounds and faults, the files are    *)
(* whole and behind the memory of the process that runs, at most one round   *)
(* of each process is logged and not saved, and the coordinator of a process *)
(* that restored nothing is never ahead of main (persister.go:35-54,         *)
(* coordinator.go:82-122, 346-396, logger.go:36-112, cmd/demo/main.go:168).  *)
THEOREM ProgramInvariant == Spec => []Inv
<1>1. Init => Inv BY InvInit
<1>2. Inv /\ [Next]_vars => Inv' BY InvStep
<1> QED BY <1>1, <1>2, PTL DEF Spec

(* Theorem: the append-only log holds no metrics that the saved state of the *)
(* logger lacks, for any number of crashes and failing saves of the other    *)
(* files (logger.go:105-112).                                                *)
THEOREM LogFollowsState == Spec => []AppendedIsSaved
<1>1. Inv => AppendedIsSaved BY DEF Inv
<1> QED BY <1>1, ProgramInvariant, PTL

(* Theorem: a crash costs the coordinator at most one completed round, for   *)
(* any number of processes (coordinator.go:215, 346-396).                    *)
THEOREM CrashCostsOneRound == Spec => []OneRoundAtRisk
<1>1. ASSUME Inv, "coordinator" \notin failed PROVE
        LET log == Saved("logger").rounds IN
          Cardinality({i \in 1..Len(log) : log[i] > Saved("coordinator").round}) <= starts
  <2> DEFINE log == Saved("logger").rounds
             b == Saved("coordinator").round
  <2>1. log \in Seq(Nat) BY <1>1, FieldTypes DEF Inv
  <2>2. \A i \in 1..Len(log) : log[i] \in Nat BY <2>1, ElementOfSeq
  <2>3. Places(log, Beyond(b)) = {i \in 1..Len(log) : log[i] > b} BY <2>2 DEF Places, Beyond
  <2>4. Count(log, Beyond(b)) <= starts BY <1>1, SavedRisk
  <2> QED BY <2>3, <2>4 DEF Count
<1>2. Inv => OneRoundAtRisk BY <1>1 DEF OneRoundAtRisk
<1> QED BY <1>2, ProgramInvariant, PTL

(* Theorem: in a process that found no saved files each result is that of    *)
(* the model of its own round, and results are in the order of the rounds    *)
(* (cmd/demo/main.go:168-241, cmd/coordinator-service/main.go:159-216).      *)
THEOREM ResultsAreOfTheirRound == Spec => []EvaluatesItsRound
<1>1. Inv => EvaluatesItsRound BY DEF Inv, Evaluating, EvaluatesItsRound
<1> QED BY <1>1, ProgramInvariant, PTL

(* The disk only changes by a complete file that replaces an older one. *)
LEMMA DiskStep ==
  ASSUME [Next]_vars
  PROVE  \/ UNCHANGED disk
         \/ \E f \in Files : SaveRename(f)
<1> USE DEF mainVars, actorVars, coordVars, loggerVars, deviceVars, saveVars, fileVars, histVars
<1>1. CASE Start \/ Crash \/ Exit BY <1>1 DEF Start, Crash, Exit
<1>2. CASE Main BY <1>2 DEF Main, RegisterSensors, WaitForSensors, StartRound, RoundCompleted,
                            RoundTimeout, AskEvaluator, Evaluated, Finish
<1>3. CASE Coordinator \/ Aggregate
  BY <1>3 DEF Coordinator, HandleRegisterSensor, HandleStartRound, Finalise, Aggregate
<1>4. CASE HandleAdjustEnvironment \/ HandleEvaluateModel
  BY <1>4 DEF HandleAdjustEnvironment, HandleEvaluateModel
<1>5. CASE Logger BY <1>5 DEF Logger, LoggerReceive, AppendJSON
<1>6. CASE \E s \in Sensors : RemoteRegister(s) BY <1>6 DEF RemoteRegister
<1>7. CASE \E f \in Files : Save(f) BY <1>7 DEF Save, SaveBegin, SaveFails
<1>8. CASE UNCHANGED vars BY <1>8 DEF vars
<1> QED BY <1>1, <1>2, <1>3, <1>4, <1>5, <1>6, <1>7, <1>8 DEF Next

(* Theorem: what is on the disk is never lost again: a file stays readable,  *)
(* the saved round never goes back and the saved log only grows, through any *)
(* number of crashes, failing saves and restarts (persister.go:35-54,        *)
(* coordinator.go:82-122, logger.go:36-79).                                  *)
THEOREM NothingSavedIsLost == Spec => DurableProgress
<1>1. ASSUME Inv, [Next]_vars
      PROVE  /\ \A f \in Files : disk[f].state = "whole" => disk'[f].state = "whole"
             /\ Saved("coordinator").round <= Saved("coordinator").round'
             /\ IsPrefix(Saved("logger").rounds, Saved("logger").rounds')
  <2>0. /\ Types /\ DOMAIN disk = Files /\ Saved("coordinator").round \in Nat
        /\ Saved("logger").rounds \in Seq(Nat) /\ Len(Saved("logger").rounds) \in Nat
    BY <1>1, FieldTypes, LenProperties DEF Inv, Types
  <2>1. CASE UNCHANGED disk
    <3>1. IsPrefix(Saved("logger").rounds, Saved("logger").rounds) BY <2>0, PrefixIs
    <3> QED BY <2>0, <2>1, <3>1 DEF Saved
  <2>2. ASSUME NEW f \in Files, SaveRename(f)
        PROVE  /\ \A g \in Files : disk[g].state = "whole" => disk'[g].state = "whole"
               /\ Saved("coordinator").round <= Saved("coordinator").round'
               /\ IsPrefix(Saved("logger").rounds, Saved("logger").rounds')
    <3>1. /\ up /\ disk'[f] = Whole(Memory(f)) /\ \A g \in Files : g # f => disk'[g] = disk[g]
      BY <2>0, <2>2 DEF SaveRename
    <3>2. disk'[f].state = "whole" /\ disk'[f].data = Memory(f) BY <3>1 DEF Whole
    <3>3. Saved("coordinator").round <= Saved("coordinator").round'
      <4>1. CASE f = "coordinator"
        <5>1. Saved("coordinator").round' = c.round BY <3>2, <4>1, MemoryIs DEF Saved
        <5> QED BY <1>1, <3>1, <5>1 DEF Inv, Behind
      <4>2. CASE f # "coordinator" BY <2>0, <3>1, <4>2 DEF Saved, Files
      <4> QED BY <4>1, <4>2
    <3>4. IsPrefix(Saved("logger").rounds, Saved("logger").rounds')
      <4>1. CASE f = "logger"
        <5>1. Saved("logger").rounds' = l.rounds BY <3>2, <4>1, MemoryIs DEF Saved
        <5> QED BY <1>1, <3>1, <5>1 DEF Inv, Behind
      <4>2. CASE f # "logger"
        <5>1. Saved("logger").rounds' = Saved("logger").rounds BY <3>1, <4>2 DEF Saved, Files
        <5> QED BY <2>0, <5>1, PrefixIs
      <4> QED BY <4>1, <4>2
    <3> QED BY <3>1, <3>2, <3>3, <3>4
  <2> QED BY <1>1, <2>1, <2>2, DiskStep
<1> QED BY <1>1, ProgramInvariant, PTL DEF Spec, DurableProgress
=============================================================================
