---------------------------- MODULE MailboxProofs ----------------------------
(* Proofs about Mailbox, for any finite set of senders, any capacity and any *)
(* number of calls of Enqueue.                                               *)
EXTENDS Mailbox, FiniteSetTheorems, TLAPS

(* A sender numbers its messages from 1. *)
Numbered == \A s \in Senders : /\ sent[s] \in 0..MaxSends
                               /\ pc[s] # "idle" => sent[s] # 0

(* What the mailbox has already dealt with is an earlier message than the    *)
(* one its sender is still trying to enqueue.                                *)
Settled(m, last, busy) == /\ m.n <= last[m.from]
                          /\ m.from \in busy => m.n # last[m.from]
Past == /\ \A i \in 1..Len(ch) : Settled(ch[i], sent, InFlight)
        /\ \A i \in 1..Len(received) : Settled(received[i], sent, InFlight)
        /\ \A m \in lost : Settled(m, sent, InFlight)

(* A message waits once in the channel, and not after it was thrown away. *)
Once == \A i, j \in 1..Len(ch) : ch[i] = ch[j] => i = j
Apart == \A i \in 1..Len(ch) : ch[i] \notin lost

(* Only DropOldest drains. *)
Draining == \A s \in Senders :
              pc[s] \in {"drain", "countOldest"} => strategy = "DropOldest"

(* Where a sender has drained and nobody has sent since, there is room. *)
Roomy == fresh # {} => Len(ch) < Capacity

Inv == /\ TypeOK /\ Numbered /\ Draining /\ Roomy
       /\ IsFiniteSet(lost)
       /\ Past /\ Once /\ Apart

-----------------------------------------------------------------------------
(* Moving one sender changes the set of those that are at given places. *)
LEMMA InFlightFinite == IsFiniteSet(InFlight) /\ IsFiniteSet(Counting)
  BY FS_Subset, MailboxAssumption DEF InFlight, Counting

(* The message of a sender that is inside Enqueue is a message, and the      *)
(* mailbox has done nothing with it.                                         *)
LEMMA CurrentIsNew ==
  ASSUME Inv, NEW s \in InFlight
  PROVE  Current(s) \in Messages /\ Queue!New(Current(s))
<1>1. s \in Senders /\ pc[s] # "idle" BY DEF InFlight
<1>2. sent[s] \in 1..MaxSends BY <1>1, MailboxAssumption DEF Inv, Numbered
<1>3. Current(s) \in Messages BY <1>1, <1>2 DEF Current, Messages
<1>4. ~Settled(Current(s), sent, InFlight) BY DEF Settled, Current
<1> QED BY <1>3, <1>4 DEF Inv, Past, Queue!New, Queue!Elements

(* The channel after a receive: the rest, in its old order. *)
LEMMA TakeHead ==
  ASSUME Inv, ch # <<>>, ch' = Tail(ch)
  PROVE  /\ Head(ch) \in Messages /\ Head(ch) = ch[1] /\ 1 \in 1..Len(ch)
         /\ ch' \in Seq(Messages)
         /\ Len(ch') = Len(ch) - 1
         /\ \A i \in 1..Len(ch') : i + 1 \in 1..Len(ch) /\ ch'[i] = ch[i + 1]
  BY DEF Inv, TypeOK

(* The channel after a send: the message behind all others. *)
LEMMA PutLast ==
  ASSUME Inv, NEW m \in Messages, ch' = Append(ch, m)
  PROVE  /\ ch' \in Seq(Messages)
         /\ Len(ch') = Len(ch) + 1
         /\ \A i \in 1..Len(ch) : ch'[i] = ch[i]
         /\ ch'[Len(ch) + 1] = m
  BY DEF Inv, TypeOK
-----------------------------------------------------------------------------
(* A step that begins no call and puts no sender back in flight leaves what  *)
(* is settled settled.                                                       *)
LEMMA SettledKept ==
  ASSUME UNCHANGED sent, InFlight' \subseteq InFlight, NEW m, Settled(m, sent, InFlight)
  PROVE  Settled(m, sent', InFlight')
  BY DEF Settled

(* A sender moves on inside Enqueue. *)
LEMMA MoveSender ==
  ASSUME TypeOK, NEW s \in Senders, NEW w \in Locations, pc' = [pc EXCEPT ![s] = w]
  PROVE  /\ pc' \in [Senders -> Locations]
         /\ pc'[s] = w
         /\ \A r \in Senders : r # s => pc'[r] = pc[r]
         /\ InFlight' = IF w \in {"send", "drain", "countOldest", "panicked"}
                        THEN InFlight \cup {s} ELSE InFlight \ {s}
         /\ Counting' = IF w \in {"countNewest", "countOldest"}
                        THEN Counting \cup {s} ELSE Counting \ {s}
<1>1. /\ pc' \in [Senders -> Locations]
      /\ pc'[s] = w
      /\ \A r \in Senders : r # s => pc'[r] = pc[r]
  BY DEF TypeOK
<1> QED BY <1>1 DEF InFlight, Counting

(* Enqueue begins a call: the new number is larger than all earlier ones. *)
LEMMA EnqueueInv ==
  ASSUME Inv, NEW s \in Senders, Enqueue(s)
  PROVE  Inv'
<1> USE MailboxAssumption
<1>1. /\ InFlight' = InFlight \cup {s}
      /\ pc' \in [Senders -> Locations]
      /\ pc'[s] = "send"
      /\ \A r \in Senders : r # s => pc'[r] = pc[r]
  BY MoveSender DEF Enqueue, Inv, Locations
<1>2. /\ sent[s] \in Nat /\ sent'[s] = sent[s] + 1 /\ sent'[s] \in 1..MaxSends
      /\ \A r \in Senders : r # s => sent'[r] = sent[r]
      /\ sent' \in [Senders -> Nat]
  BY DEF Enqueue, Inv, TypeOK, Numbered
<1>3. TypeOK' BY <1>1, <1>2 DEF Enqueue, Inv, TypeOK
<1>4. Numbered' BY <1>1, <1>2 DEF Inv, Numbered
<1>5. ASSUME NEW m \in Messages, Settled(m, sent, InFlight) PROVE Settled(m, sent', InFlight')
  <2>1. m.n \in Nat /\ m.from \in Senders BY DEF Messages
  <2> QED BY <1>1, <1>2, <1>5, <2>1 DEF Settled
<1>6. Past'
  <2>1. /\ \A i \in 1..Len(ch) : ch[i] \in Messages
        /\ \A i \in 1..Len(received) : received[i] \in Messages
        /\ \A m \in lost : m \in Messages
    BY DEF Inv, TypeOK
  <2> QED BY <1>5, <2>1 DEF Enqueue, Inv, Past
<1>7. Draining' BY <1>1 DEF Enqueue, Inv, Draining
<1> QED BY <1>3, <1>4, <1>6, <1>7 DEF Enqueue, Inv, Once, Apart, Roomy

(* A send puts a message in the channel that was nowhere before. *)
LEMMA SendInv ==
  ASSUME Inv, NEW s \in Senders, Send(s)
  PROVE  Inv'
<1> USE MailboxAssumption
<1>1. s \in InFlight BY DEF Send, InFlight
<1>2. Current(s) \in Messages /\ Queue!New(Current(s)) BY <1>1, CurrentIsNew
<1>3. /\ InFlight' = InFlight \ {s}
      /\ pc' \in [Senders -> Locations]
      /\ pc'[s] = "idle"
      /\ \A r \in Senders : r # s => pc'[r] = pc[r]
  BY MoveSender DEF Send, Inv, Locations
<1>4. /\ ch' \in Seq(Messages)
      /\ Len(ch') = Len(ch) + 1
      /\ \A i \in 1..Len(ch) : ch'[i] = ch[i]
      /\ ch'[Len(ch) + 1] = Current(s)
  BY <1>2, PutLast DEF Send
<1>5. Len(ch) \in Nat /\ Len(ch) < Capacity BY DEF Send, Full, Inv, TypeOK
<1>6. TypeOK' BY <1>3, <1>4, <1>5 DEF Send, Inv, TypeOK
<1>7. Numbered' BY <1>3 DEF Send, Inv, Numbered
<1>8. Settled(Current(s), sent', InFlight') BY <1>3, <1>2 DEF Send, Settled, Current, Messages
<1>9. \A m : Settled(m, sent, InFlight) => Settled(m, sent', InFlight') BY <1>3, SettledKept DEF Send
<1>10. Past' 
  <2>1. \A i \in 1..Len(ch') : i \in 1..Len(ch) \/ i = Len(ch) + 1 BY <1>4, <1>5
  <2>2. \A i \in 1..Len(ch') : Settled(ch'[i], sent', InFlight') 
    BY <1>4, <1>8, <1>9, <2>1 DEF Inv, Past
  <2> QED BY <1>9, <2>2 DEF Send, Inv, Past
<1>11. \A i \in 1..Len(ch) : ch[i] # Current(s) BY <1>2 DEF Queue!New, Queue!Elements
<1>12. Once' BY <1>4, <1>5, <1>11 DEF Inv, Once
<1>13. Apart' BY <1>2, <1>4, <1>5 DEF Send, Inv, Apart, Queue!New
<1>14. Draining' BY <1>3 DEF Send, Inv, Draining
<1> QED BY <1>6, <1>7, <1>10, <1>12, <1>13, <1>14 DEF Send, Inv, Roomy

(* DropNewest throws away a message that was nowhere before. *)
LEMMA DropNewestInv ==
  ASSUME Inv, NEW s \in Senders, DropNewest(s)
  PROVE  Inv'
<1>1. s \in InFlight BY DEF DropNewest, InFlight
<1>2. Current(s) \in Messages /\ Queue!New(Current(s)) BY <1>1, CurrentIsNew
<1>3. /\ InFlight' = InFlight \ {s}
      /\ pc' \in [Senders -> Locations]
      /\ pc'[s] = "countNewest"
      /\ \A r \in Senders : r # s => pc'[r] = pc[r]
  BY MoveSender DEF DropNewest, Inv, Locations
<1>4. TypeOK' BY <1>2, <1>3 DEF DropNewest, Inv, TypeOK
<1>5. Numbered' BY <1>3 DEF DropNewest, Inv, Numbered
<1>6. IsFiniteSet(lost') BY FS_AddElement DEF DropNewest, Inv
<1>7. Settled(Current(s), sent', InFlight')
  BY <1>2, <1>3 DEF DropNewest, Settled, Current, Messages
<1>8. \A m : Settled(m, sent, InFlight) => Settled(m, sent', InFlight')
  BY <1>3, SettledKept DEF DropNewest
<1>9. Past' BY <1>7, <1>8 DEF DropNewest, Inv, Past
<1>10. Apart' BY <1>2 DEF DropNewest, Inv, Apart, Queue!New, Queue!Elements
<1>11. Draining' BY <1>3 DEF DropNewest, Inv, Draining
<1> QED BY <1>4, <1>5, <1>6, <1>9, <1>10, <1>11 DEF DropNewest, Inv, Once, Roomy

(* The head of the channel leaves it, for the run loop or for good. *)
LEMMA HeadLeaves ==
  ASSUME Inv, ch # <<>>, ch' = Tail(ch), UNCHANGED sent, InFlight' \subseteq InFlight,
         \/ received' = Append(received, Head(ch)) /\ UNCHANGED lost
         \/ lost' = lost \cup {Head(ch)} /\ UNCHANGED received
  PROVE  Past' /\ Once' /\ Apart' /\ IsFiniteSet(lost')
<1>1. /\ Head(ch) \in Messages /\ Head(ch) = ch[1] /\ 1 \in 1..Len(ch)
      /\ ch' \in Seq(Messages)
      /\ Len(ch') = Len(ch) - 1
      /\ \A i \in 1..Len(ch') : i + 1 \in 1..Len(ch) /\ ch'[i] = ch[i + 1]
  BY TakeHead
<1>2. \A m : Settled(m, sent, InFlight) => Settled(m, sent', InFlight')
  BY SettledKept
<1>3. Settled(Head(ch), sent', InFlight') BY <1>1, <1>2 DEF Inv, Past
<1>4. \A i \in 1..Len(received') : Settled(received'[i], sent', InFlight')
  <2>1. CASE received' = Append(received, Head(ch))
    <3>1. \A i \in 1..Len(received') :
            \/ i \in 1..Len(received) /\ received'[i] = received[i]
            \/ received'[i] = Head(ch)
      BY <1>1, <2>1 DEF Inv, TypeOK
    <3> QED BY <1>2, <1>3, <3>1 DEF Inv, Past
  <2>2. CASE UNCHANGED received BY <1>2, <2>2 DEF Inv, Past
  <2> QED BY <2>1, <2>2
<1>5. Past' BY <1>1, <1>2, <1>3, <1>4 DEF Inv, Past
<1>6. Once' BY <1>1 DEF Inv, Once
<1>7. \A i \in 1..Len(ch') : ch'[i] # Head(ch)
  <2> SUFFICES ASSUME NEW i \in 1..Len(ch') PROVE ch'[i] # Head(ch) OBVIOUS
  <2>1. i + 1 # 1 /\ i + 1 \in 1..Len(ch) /\ ch'[i] = ch[i + 1] BY <1>1
  <2> QED BY <1>1, <2>1 DEF Inv, Once
<1>8. Apart' BY <1>1, <1>7 DEF Inv, Apart
<1>9. IsFiniteSet(lost') BY FS_AddElement DEF Inv
<1> QED BY <1>5, <1>6, <1>8, <1>9

(* The step of DropOldest that takes the oldest message away. *)
LEMMA DrainInv ==
  ASSUME Inv, NEW s \in Senders, Drain(s)
  PROVE  Inv'
<1>1. PICK w \in {"send", "countOldest"} : pc' = [pc EXCEPT ![s] = w] BY DEF Drain
<1>2. /\ InFlight' = InFlight \cup {s}
      /\ pc' \in [Senders -> Locations]
      /\ \A r \in Senders : r # s => pc'[r] = pc[r]
  BY <1>1, MoveSender DEF Inv, Locations
<1>3. s \in InFlight BY DEF Drain, InFlight
<1>4. InFlight' = InFlight BY <1>2, <1>3
<1>5. Numbered' /\ Draining' BY <1>2 DEF Drain, Inv, Numbered, Draining
<1>6. CASE ch # <<>>
  <2>1. lost' = lost \cup {Head(ch)} /\ ch' = Tail(ch) BY <1>6 DEF Drain
  <2>2. Head(ch) \in Messages /\ ch' \in Seq(Messages) /\ Len(ch') = Len(ch) - 1
    BY <1>6, <2>1, TakeHead
  <2>3. Len(ch') < Capacity BY <2>2, MailboxAssumption DEF Inv, TypeOK
  <2>4. lost' \in SUBSET Messages BY <2>1, <2>2 DEF Inv, TypeOK
  <2>5. /\ UNCHANGED <<strategy, closed, sent, enqueued, dropped, received>>
        /\ fresh' = fresh \cup {s}
    BY DEF Drain
  <2>6. TypeOK'
    <3>1. fresh' \in SUBSET Senders BY <2>5 DEF Inv, TypeOK
    <3>2. Len(ch') <= Capacity BY <2>2, <2>3, MailboxAssumption
    <3> QED BY <1>2, <2>2, <2>4, <2>5, <3>1, <3>2 DEF Inv, TypeOK
  <2>8. Roomy' BY <2>3 DEF Roomy
  <2>7. Past' /\ Once' /\ Apart' /\ IsFiniteSet(lost')
    BY <1>4, <1>6, <2>1, HeadLeaves DEF Drain
  <2> QED BY <1>5, <2>6, <2>7, <2>8 DEF Inv
<1>7. CASE ch = <<>>
  <2>1. UNCHANGED <<ch, lost, sent, received>> BY <1>7 DEF Drain
  <2>2. TypeOK' BY <1>2, <2>1 DEF Drain, Inv, TypeOK
  <2>3. Roomy' BY <1>7, <2>1, MailboxAssumption DEF Roomy
  <2> QED BY <1>4, <1>5, <2>1, <2>2, <2>3 DEF Inv, Past, Once, Apart
<1> QED BY <1>6, <1>7

(* The remaining steps inside Enqueue only move the sender. *)
LEMMA MoveInv ==
  ASSUME Inv, NEW s \in Senders, DropOldest(s) \/ CountDropped(s) \/ SendOnClosed(s)
  PROVE  Inv'
<1>1. PICK w \in {"drain", "idle", "send", "panicked"} :
        /\ pc' = [pc EXCEPT ![s] = w]
        /\ w # "idle" => s \in InFlight
        /\ w = "drain" => strategy = "DropOldest"
        /\ pc[s] # "idle"
  <2>1. CASE DropOldest(s) BY <2>1 DEF DropOldest, InFlight
  <2>2. CASE CountDropped(s)
    BY <2>2 DEF CountDropped, InFlight, Inv, TypeOK
  <2>3. CASE SendOnClosed(s) BY <2>3 DEF SendOnClosed, InFlight
  <2> QED BY <2>1, <2>2, <2>3
<1>2. /\ InFlight' \subseteq InFlight
      /\ pc' \in [Senders -> Locations]
      /\ \A r \in Senders : r # s => pc'[r] = pc[r]
  <2>1. w \in Locations BY DEF Locations
  <2>2. /\ pc' \in [Senders -> Locations]
        /\ \A r \in Senders : r # s => pc'[r] = pc[r]
        /\ InFlight' \subseteq IF w = "idle" THEN InFlight \ {s} ELSE InFlight \cup {s}
    BY <1>1, <2>1, MoveSender DEF Inv
  <2> QED BY <1>1, <2>2
<1>3. /\ UNCHANGED <<strategy, ch, closed, sent, enqueued, received, lost, fresh>>
      /\ dropped' \in Nat
  BY DEF DropOldest, CountDropped, SendOnClosed, Inv, TypeOK
<1>4. TypeOK' BY <1>2, <1>3 DEF Inv, TypeOK
<1>5. Numbered' BY <1>1, <1>2, <1>3 DEF Inv, Numbered
<1>6. Past' BY <1>2, <1>3, SettledKept DEF Inv, Past
<1>7. Draining'
  <2>1. pc'[s] = w BY <1>1 DEF Inv, TypeOK
  <2> QED BY <1>1, <1>2, <1>3, <2>1 DEF Inv, Draining
<1> QED BY <1>3, <1>4, <1>5, <1>6, <1>7 DEF Inv, Once, Apart, Roomy

(* The run loop takes the head. *)
LEMMA ReceiveInv ==
  ASSUME Inv, Receive
  PROVE  Inv'
<1>1. /\ Head(ch) \in Messages
      /\ ch' \in Seq(Messages)
      /\ Len(ch') = Len(ch) - 1
  BY TakeHead DEF Receive
<1>2. received' \in Seq(Messages) BY <1>1 DEF Receive, Inv, TypeOK
<1>3. TypeOK' BY <1>1, <1>2, MailboxAssumption DEF Receive, Inv, TypeOK
<1>4. InFlight' = InFlight BY DEF Receive, InFlight
<1>5. Past' /\ Once' /\ Apart' /\ IsFiniteSet(lost') BY <1>4, HeadLeaves DEF Receive
<1>6. Roomy' BY <1>1, MailboxAssumption DEF Receive, Inv, TypeOK, Roomy
<1> QED BY <1>3, <1>5, <1>6 DEF Receive, Inv, Numbered, Draining

(* The invariant is inductive. *)
LEMMA InvStep == Inv /\ [Next]_vars => Inv'
<1> SUFFICES ASSUME Inv, [Next]_vars PROVE Inv' OBVIOUS
<1>1. ASSUME NEW s \in Senders, Enqueue(s) \/ EnqueueStep(s) PROVE Inv'
  BY <1>1, EnqueueInv, SendInv, DropNewestInv, DrainInv, MoveInv DEF EnqueueStep
<1>2. CASE Receive BY <1>2, ReceiveInv
<1>3. CASE Close
  <2>1. InFlight' = InFlight BY <1>3 DEF Close, InFlight
  <2> QED BY <1>3, <2>1 DEF Close, Inv, TypeOK, Numbered, Draining, Past, Once, Apart, Roomy
<1>4. CASE UNCHANGED vars
  <2>1. InFlight' = InFlight BY <1>4 DEF vars, InFlight
  <2> QED BY <1>4, <2>1 DEF vars, Inv, TypeOK, Numbered, Draining, Past, Once, Apart, Roomy
<1> QED BY <1>1, <1>2, <1>3, <1>4 DEF Next

LEMMA InvInit == Init => Inv
<1> SUFFICES ASSUME Init PROVE Inv OBVIOUS
<1>1. TypeOK
  <2>1. closed \in BOOLEAN BY DEF Init
  <2>2. pc \in [Senders -> Locations] /\ sent \in [Senders -> Nat] BY DEF Init, Locations
  <2>3. Len(ch) <= Capacity /\ enqueued \in Nat /\ dropped \in Nat
    BY MailboxAssumption DEF Init
  <2> QED BY <2>1, <2>2, <2>3 DEF Init, TypeOK
<1>2. IsFiniteSet(lost) BY FS_EmptySet DEF Init
<1>3. Numbered BY MailboxAssumption DEF Init, Numbered
<1>4. Draining BY DEF Init, Draining
<1> QED BY <1>1, <1>2, <1>3, <1>4 DEF Init, Inv, Past, Once, Apart, Roomy

(* Theorem: the channel never holds more than its capacity, every message in *)
(* it is one some Enqueue brought, and what was accepted, received or thrown *)
(* away is never the message of a sender still inside Enqueue                *)
(* (mailbox.go:106-141), for any senders and any capacity.                   *)
THEOREM MailboxInvariant == Spec => []Inv
  BY InvInit, InvStep, PTL DEF Spec
-----------------------------------------------------------------------------
(* Counting: one element more, one element less. *)
LEMMA OneMore ==
  ASSUME NEW S, IsFiniteSet(S), NEW x, x \notin S
  PROVE  Cardinality(S) \in Nat /\ Cardinality(S \cup {x}) = Cardinality(S) + 1
  BY FS_AddElement, FS_CardinalityType

LEMMA OneLess ==
  ASSUME NEW S, IsFiniteSet(S), NEW x \in S
  PROVE  Cardinality(S) \in Nat /\ Cardinality(S \ {x}) = Cardinality(S) - 1
  BY FS_RemoveElement, FS_CardinalityType

(* All numbers the counters are compared with are natural numbers. *)
LEMMA CountTypes ==
  ASSUME Inv
  PROVE  /\ Len(ch) \in Nat /\ Len(received) \in Nat
         /\ Cardinality(lost) \in Nat
         /\ Cardinality(InFlight) \in Nat /\ Cardinality(Counting) \in Nat
         /\ enqueued \in Nat /\ dropped \in Nat
  BY InFlightFinite, FS_CardinalityType DEF Inv, TypeOK

(* Throwing a message away adds one to lost: it was not there before. *)
LEMMA LostGrows ==
  ASSUME Inv
  PROVE  /\ \A s \in InFlight : Cardinality(lost \cup {Current(s)}) = Cardinality(lost) + 1
         /\ ch # <<>> => Cardinality(lost \cup {Head(ch)}) = Cardinality(lost) + 1
<1>1. \A s \in InFlight : Current(s) \notin lost BY CurrentIsNew DEF Queue!New
<1>2. ch # <<>> => Head(ch) \notin lost BY DEF Inv, TypeOK, Apart
<1> QED BY <1>1, <1>2, OneMore DEF Inv

(* A step of Mailbox keeps the balance of mb.enqueued. *)
LEMMA ConservationStep == Inv /\ Conservation /\ [Next]_vars => Conservation'
<1> SUFFICES ASSUME Inv, Conservation, [Next]_vars PROVE Conservation' OBVIOUS
<1> USE CountTypes
<1>1. ASSUME NEW s \in Senders, Enqueue(s) PROVE Conservation'
  <2>1. InFlight' = InFlight \cup {s} /\ s \notin InFlight
    BY <1>1, MoveSender DEF Enqueue, Inv, Locations, InFlight
  <2>2. Cardinality(InFlight') = Cardinality(InFlight) + 1 BY <2>1, InFlightFinite, OneMore
  <2> QED BY <1>1, <2>2 DEF Enqueue, Conservation
<1>2. ASSUME NEW s \in Senders, Send(s) PROVE Conservation'
  <2>1. InFlight' = InFlight \ {s} /\ s \in InFlight
    BY <1>2, MoveSender DEF Send, Inv, Locations, InFlight
  <2>2. Cardinality(InFlight') = Cardinality(InFlight) - 1 BY <2>1, InFlightFinite, OneLess
  <2>3. Len(ch') = Len(ch) + 1 BY <1>2, <2>1, CurrentIsNew, PutLast DEF Send
  <2> QED BY <1>2, <2>2, <2>3 DEF Send, Conservation
<1>3. ASSUME NEW s \in Senders, DropNewest(s) PROVE Conservation'
  <2>1. InFlight' = InFlight \ {s} /\ s \in InFlight
    BY <1>3, MoveSender DEF DropNewest, Inv, Locations, InFlight
  <2>2. Cardinality(InFlight') = Cardinality(InFlight) - 1 BY <2>1, InFlightFinite, OneLess
  <2>3. Cardinality(lost') = Cardinality(lost) + 1 BY <1>3, <2>1, LostGrows DEF DropNewest
  <2> QED BY <1>3, <2>2, <2>3 DEF DropNewest, Conservation
<1>4. ASSUME NEW s \in Senders, Drain(s) PROVE Conservation'
  <2>1. PICK w \in {"send", "countOldest"} : pc' = [pc EXCEPT ![s] = w] BY <1>4 DEF Drain
  <2>2. InFlight' = InFlight BY <1>4, <2>1, MoveSender DEF Drain, Inv, Locations, InFlight
  <2>3. CASE ch # <<>>
    <3>1. Len(ch') = Len(ch) - 1 /\ lost' = lost \cup {Head(ch)}
      BY <1>4, <2>3, TakeHead DEF Drain
    <3>2. Cardinality(lost') = Cardinality(lost) + 1 BY <2>3, <3>1, LostGrows
    <3> QED BY <1>4, <2>2, <3>1, <3>2 DEF Drain, Conservation
  <2>4. CASE ch = <<>> BY <1>4, <2>2, <2>4 DEF Drain, Conservation
  <2> QED BY <2>3, <2>4
<1>5. ASSUME NEW s \in Senders, DropOldest(s) \/ CountDropped(s) \/ SendOnClosed(s)
      PROVE  Conservation'
  <2>1. InFlight' = InFlight
    <3>1. CASE DropOldest(s)
      BY <3>1, MoveSender DEF DropOldest, Inv, Locations, InFlight
    <3>2. CASE CountDropped(s)
      <4>1. \A r \in Senders : r # s => pc'[r] = pc[r]
        BY <3>2 DEF CountDropped, Inv, TypeOK
      <4>2. pc'[s] = IF pc[s] = "countNewest" THEN "idle" ELSE "send"
        BY <3>2 DEF CountDropped, Inv, TypeOK
      <4> QED BY <3>2, <4>1, <4>2 DEF CountDropped, InFlight
    <3>3. CASE SendOnClosed(s)
      BY <3>3, MoveSender DEF SendOnClosed, Inv, Locations, InFlight
    <3> QED BY <1>5, <3>1, <3>2, <3>3
  <2> QED BY <1>5, <2>1 DEF DropOldest, CountDropped, SendOnClosed, Conservation
<1>6. CASE Receive
  <2>1. Len(ch') = Len(ch) - 1 /\ Head(ch) \in Messages BY <1>6, TakeHead DEF Receive
  <2>2. Len(received') = Len(received) + 1 BY <1>6, <2>1 DEF Receive, Inv, TypeOK
  <2>3. InFlight' = InFlight BY <1>6 DEF Receive, InFlight
  <2> QED BY <1>6, <2>1, <2>2, <2>3 DEF Receive, Conservation
<1>7. CASE Close \/ UNCHANGED vars BY <1>7 DEF Close, vars, Conservation, InFlight
<1> QED BY <1>1, <1>2, <1>3, <1>4, <1>5, <1>6, <1>7 DEF Next, EnqueueStep

(* Theorem: no message vanishes inside Enqueue and none is made up, for any  *)
(* senders, any capacity and any of the strategies (mailbox.go:106-141).     *)
THEOREM NothingVanishes == Spec => []Conservation
<1>1. Init => Conservation
  <2> SUFFICES ASSUME Init PROVE Conservation OBVIOUS
  <2>1. InFlight = {} BY DEF Init, InFlight
  <2> QED BY <2>1, FS_EmptySet DEF Init, Conservation
<1> QED BY <1>1, ConservationStep, MailboxInvariant, PTL DEF Spec
-----------------------------------------------------------------------------
(* A step of an open mailbox keeps mb.dropped in line with what was lost. *)
LEMMA DroppedStep == Inv /\ DroppedIsExact /\ [Next]_vars => DroppedIsExact'
<1> SUFFICES ASSUME Inv, DroppedIsExact, [Next]_vars, ~closed'
             PROVE  Cardinality(lost') = dropped' + Cardinality(Counting')
  BY DEF DroppedIsExact
<1>1. ~closed /\ Cardinality(lost) = dropped + Cardinality(Counting)
  <2>1. closed => closed'
    BY DEF Next, vars, EnqueueStep, Enqueue, Send, DropNewest, DropOldest, Drain,
           CountDropped, SendOnClosed, Receive, Close
  <2> QED BY <2>1 DEF DroppedIsExact
<1> DEFINE Goal == Cardinality(lost') = dropped' + Cardinality(Counting')
<1>2. ASSUME NEW s \in Senders, NEW w \in Locations \ {"countNewest", "countOldest"},
             pc' = [pc EXCEPT ![s] = w], s \notin Counting, UNCHANGED <<dropped, lost>>
      PROVE  Goal
  <2>1. w \in Locations /\ w \notin {"countNewest", "countOldest"} OBVIOUS
  <2>2. Counting' = Counting \ {s} BY <1>2, <2>1, MoveSender DEF Inv
  <2>3. Counting' = Counting BY <1>2, <2>2
  <2> QED BY <1>1, <1>2, <2>3
<1>3. ASSUME NEW s \in Senders, NEW w \in {"countNewest", "countOldest"},
             pc' = [pc EXCEPT ![s] = w], s \notin Counting, UNCHANGED dropped,
             Cardinality(lost') = Cardinality(lost) + 1
      PROVE  Goal
  <2>1. Counting' = Counting \cup {s} BY <1>3, MoveSender DEF Inv, Locations
  <2>2. Cardinality(Counting') = Cardinality(Counting) + 1
    BY <1>3, <2>1, InFlightFinite, OneMore
  <2> QED BY <1>1, <1>3, <2>2, CountTypes
<1>4. ASSUME NEW s \in Senders, Enqueue(s) PROVE Goal
  BY <1>2, <1>4 DEF Enqueue, Locations, Counting
<1>5. ASSUME NEW s \in Senders, Send(s) PROVE Goal
  BY <1>2, <1>5 DEF Send, Locations, Counting
<1>6. ASSUME NEW s \in Senders, DropOldest(s) PROVE Goal
  BY <1>2, <1>6 DEF DropOldest, Locations, Counting
<1>7. ASSUME NEW s \in Senders, SendOnClosed(s) PROVE Goal
  BY <1>2, <1>7 DEF SendOnClosed, Locations, Counting
<1>8. ASSUME NEW s \in Senders, DropNewest(s) PROVE Goal
  <2>1. Cardinality(lost') = Cardinality(lost) + 1
    BY <1>8, LostGrows DEF DropNewest, InFlight
  <2> QED BY <1>3, <1>8, <2>1 DEF DropNewest, Counting
<1>9. ASSUME NEW s \in Senders, Drain(s) PROVE Goal
  <2>1. CASE ch # <<>>
    <3>1. Cardinality(lost') = Cardinality(lost) + 1 BY <1>9, <2>1, LostGrows DEF Drain
    <3> QED BY <1>3, <1>9, <2>1, <3>1 DEF Drain, Counting
  <2>2. CASE ch = <<>>
    BY <1>1, <1>2, <1>9, <2>2 DEF Drain, Locations, Counting
  <2> QED BY <2>1, <2>2
<1>10. ASSUME NEW s \in Senders, CountDropped(s) PROVE Goal
  <2>1. PICK w \in {"idle", "send"} : pc' = [pc EXCEPT ![s] = w] BY <1>10 DEF CountDropped
  <2>2. Counting' = Counting \ {s} /\ s \in Counting
    BY <1>10, <2>1, MoveSender DEF CountDropped, Inv, Locations, Counting
  <2>3. Cardinality(Counting') = Cardinality(Counting) - 1
    BY <2>2, InFlightFinite, OneLess
  <2> QED BY <1>1, <1>10, <2>3, CountTypes DEF CountDropped
<1>11. CASE Receive \/ Close \/ UNCHANGED vars
  <2>1. UNCHANGED <<lost, dropped, Counting>> BY <1>11 DEF Receive, Close, vars, Counting
  <2> QED BY <1>1, <2>1
<1> QED BY <1>4, <1>5, <1>6, <1>7, <1>8, <1>9, <1>10, <1>11 DEF Next, EnqueueStep

(* Theorem: what Stats() reports as dropped is what was thrown away, up to   *)
(* the senders about to count theirs (mailbox.go:122, 135, 174-180), for any *)
(* senders, any capacity and any strategy.                                   *)
THEOREM StatsAreExact == Spec => []DroppedIsExact
<1>1. Init => DroppedIsExact
  <2> SUFFICES ASSUME Init PROVE DroppedIsExact OBVIOUS
  <2>1. Counting = {} BY DEF Init, Counting
  <2> QED BY <2>1, FS_EmptySet DEF Init, DroppedIsExact
<1> QED BY <1>1, DroppedStep, MailboxInvariant, PTL DEF Spec

-----------------------------------------------------------------------------
(* The messages of the senders about to drain, when one sender moves. *)
LEMMA PressedMoves ==
  ASSUME Inv, NEW s \in Senders, NEW w \in Locations, pc' = [pc EXCEPT ![s] = w],
         sent[s] = sent'[s] \/ (pc[s] # "drain" /\ w # "drain"),
         \A r \in Senders \ {s} : sent'[r] = sent[r]
  PROVE  Pressed' = IF w = "drain" THEN Pressed \cup {Current(s)}
                                   ELSE Pressed \ {Current(s)}
<1>1. /\ pc'[s] = w
      /\ \A r \in Senders : r # s => pc'[r] = pc[r]
  BY MoveSender DEF Inv
<1>2. \A r, q \in Senders : Current(r) = Current(q) => r = q BY DEF Current
<1>3. \A r \in Senders : r # s => Current(r)' = Current(r) BY DEF Current
<1>4. w = "drain" \/ pc[s] = "drain" => Current(s)' = Current(s) BY DEF Current
<1>5. Current(s) \in Pressed <=> pc[s] = "drain" BY <1>2 DEF Pressed
<1>6. Pressed' = {Current(r)' : r \in {q \in Senders : pc'[q] = "drain"}} BY DEF Pressed
<1>7. CASE w = "drain" BY <1>1, <1>3, <1>4, <1>6, <1>7 DEF Pressed
<1>8. CASE w # "drain" BY <1>1, <1>2, <1>3, <1>6, <1>8 DEF Pressed
<1> QED BY <1>7, <1>8

(* A sender that is not about to drain has pressed nothing. *)
LEMMA NotPressed ==
  ASSUME NEW s \in Senders, pc[s] # "drain"
  PROVE  Current(s) \notin Pressed
  BY DEF Pressed, Current

(* Every step of Mailbox is a step of the abstract queue or changes nothing  *)
(* that its users see.                                                       *)
LEMMA QueueStep == Inv /\ [Next]_vars => [Queue!QNext]_(Queue!qvars)
<1> SUFFICES ASSUME Inv, [Next]_vars PROVE [Queue!QNext]_(Queue!qvars) OBVIOUS
<1>0. ASSUME NEW s \in Senders, NEW w \in Locations \ {"drain"}, pc[s] # "drain",
             pc' = [pc EXCEPT ![s] = w], \A r \in Senders \ {s} : sent'[r] = sent[r]
      PROVE  Pressed' = Pressed
  <2>1. w \in Locations /\ w # "drain" OBVIOUS
  <2>2. Pressed' = Pressed \ {Current(s)} BY <1>0, <2>1, PressedMoves
  <2> QED BY <1>0, <2>2, NotPressed
<1>1. ASSUME NEW s \in Senders, Send(s) PROVE Queue!QNext
  <2>1. Current(s) \in Messages /\ Queue!New(Current(s))
    BY <1>1, CurrentIsNew DEF Send, InFlight
  <2>2. Len(ch) < Capacity BY <1>1, MailboxAssumption DEF Send, Full, Inv, TypeOK
  <2>3. Pressed' = Pressed BY <1>0, <1>1 DEF Send, Locations
  <2>4. Queue!Accept(Current(s)) BY <1>1, <2>1, <2>2, <2>3 DEF Send, Queue!Accept
  <2> QED BY <2>1, <2>4 DEF Queue!QNext
<1>2. ASSUME NEW s \in Senders, DropNewest(s) PROVE Queue!QNext
  <2>1. Current(s) \in Messages /\ Queue!New(Current(s))
    BY <1>2, CurrentIsNew DEF DropNewest, InFlight
  <2>2. Pressed' = Pressed BY <1>0, <1>2 DEF DropNewest, Locations
  <2>3. Queue!Reject(Current(s)) BY <1>2, <2>1, <2>2 DEF DropNewest, Full, Queue!Reject
  <2> QED BY <2>1, <2>3 DEF Queue!QNext
<1>3. ASSUME NEW s \in Senders, DropOldest(s) PROVE Queue!QNext
  <2>1. Current(s) \in Messages /\ Queue!New(Current(s))
    BY <1>3, CurrentIsNew DEF DropOldest, InFlight
  <2>2. Pressed' = Pressed \cup {Current(s)}
    BY <1>3, PressedMoves DEF DropOldest, Locations
  <2>3. Queue!Press(Current(s)) BY <1>3, <2>1, <2>2 DEF DropOldest, Full, Queue!Press
  <2> QED BY <2>1, <2>3 DEF Queue!QNext
<1>4. ASSUME NEW s \in Senders, Drain(s) PROVE Queue!QNext
  <2>1. PICK w \in {"send", "countOldest"} : pc' = [pc EXCEPT ![s] = w] BY <1>4 DEF Drain
  <2>2. w \in Locations /\ w # "drain" BY DEF Locations
  <2>3. Pressed' = Pressed \ {Current(s)} BY <1>4, <2>1, <2>2, PressedMoves DEF Drain
  <2>4. Current(s) \in Pressed BY <1>4 DEF Drain, Pressed
  <2>5. Current(s) \in Messages BY <1>4, CurrentIsNew DEF Drain, InFlight
  <2>6. CASE ch # <<>>
    <3>1. Queue!Evict(Current(s)) BY <1>4, <2>3, <2>4, <2>6 DEF Drain, Queue!Evict
    <3> QED BY <2>5, <3>1 DEF Queue!QNext
  <2>7. CASE ch = <<>>
    <3>1. Queue!Relent(Current(s)) BY <1>4, <2>3, <2>4, <2>7 DEF Drain, Queue!Relent
    <3> QED BY <2>5, <3>1 DEF Queue!QNext
  <2> QED BY <2>6, <2>7
<1>5. CASE Receive
  <2>1. Pressed' = Pressed BY <1>5 DEF Receive, Pressed, Current
  <2> QED BY <1>5, <2>1 DEF Receive, Queue!Deliver, Queue!QNext
<1>6. CASE Close
  <2>1. Pressed' = Pressed BY <1>6 DEF Close, Pressed, Current
  <2> QED BY <1>6, <2>1 DEF Close, Queue!QClose, Queue!QNext
<1>7. ASSUME NEW s \in Senders, Enqueue(s) \/ CountDropped(s) \/ SendOnClosed(s)
      PROVE  UNCHANGED Queue!qvars
  <2>1. PICK w \in Locations \ {"drain"} : pc' = [pc EXCEPT ![s] = w]
    <3>1. CASE Enqueue(s) BY <3>1 DEF Enqueue, Locations
    <3>2. CASE CountDropped(s)
      <4>1. \/ pc' = [pc EXCEPT ![s] = "idle"]
            \/ pc' = [pc EXCEPT ![s] = "send"]
        BY <3>2 DEF CountDropped
      <4> QED BY <4>1 DEF Locations
    <3>3. CASE SendOnClosed(s) BY <3>3 DEF SendOnClosed, Locations
    <3> QED BY <1>7, <3>1, <3>2, <3>3
  <2>2. pc[s] # "drain" /\ \A r \in Senders \ {s} : sent'[r] = sent[r]
    BY <1>7 DEF Enqueue, CountDropped, SendOnClosed, Inv, TypeOK
  <2>3. Pressed' = Pressed BY <1>0, <2>1, <2>2
  <2>4. UNCHANGED <<strategy, closed, ch, received, lost>>
    BY <1>7 DEF Enqueue, CountDropped, SendOnClosed
  <2> QED BY <2>3, <2>4 DEF Queue!qvars
<1>8. CASE UNCHANGED vars
  <2>1. Pressed' = Pressed BY <1>8 DEF vars, Pressed, Current
  <2> QED BY <1>8, <2>1 DEF vars, Queue!qvars
<1> QED BY <1>1, <1>2, <1>3, <1>4, <1>5, <1>6, <1>7, <1>8 DEF Next, EnqueueStep

(* Theorem: the bounded mailbox implements the abstract queue: it is FIFO,   *)
(* hands a message over at most once, accepts none once closed, and loses    *)
(* only what its strategy says, DropOldest the head once for each time a     *)
(* sender found the channel full (mailbox.go:12-22, 106-141), for any        *)
(* senders and any capacity.                                                 *)
THEOREM MailboxIsQueue == Spec => ImplementsQueue
<1>1. Init => Queue!QInit
  <2> SUFFICES ASSUME Init PROVE Queue!QInit OBVIOUS
  <2>1. Pressed = {} BY DEF Init, Pressed
  <2> QED BY <2>1 DEF Init, Strategies, Queue!QInit, Queue!Policies
<1> QED BY <1>1, QueueStep, MailboxInvariant, PTL DEF Spec, ImplementsQueue, Queue!QSpec

(* Theorem: a call of Enqueue under DropOldest goes round again only because *)
(* another message took the room it had made, or found (mailbox.go:126-139), *)
(* for any senders, any capacity and any number of calls.                    *)
THEOREM RetryIsProgress == Spec => RetryMeansProgress
<1>1. Inv /\ [Next]_vars
        => [\A s \in Senders : pc[s] = "send" /\ pc'[s] = "drain" => s \notin fresh]_vars
  <2> SUFFICES ASSUME Inv, Next, NEW s \in Senders, pc[s] = "send", pc'[s] = "drain"
               PROVE  Full
    BY MailboxAssumption DEF Inv, Roomy, Full
  <2>1. ASSUME NEW r \in Senders, Enqueue(r) \/ EnqueueStep(r) PROVE Full
    BY <2>1 DEF Inv, TypeOK, EnqueueStep, Enqueue, Send, DropNewest, DropOldest, Drain,
                CountDropped, SendOnClosed
  <2>2. ~Receive /\ ~Close BY DEF Receive, Close
  <2> QED BY <2>1, <2>2 DEF Next
<1> QED BY <1>1, MailboxInvariant, PTL DEF Spec, RetryMeansProgress

(* Theorem: the channel never holds more than its capacity and the counters  *)
(* never fall below zero, whatever the strategy and the number of senders    *)
(* (mailbox.go:53-64 and 106-147).                                           *)
THEOREM TypeCorrect == Spec => []TypeOK
<1>1. Inv => TypeOK BY DEF Inv
<1> QED BY <1>1, MailboxInvariant, PTL
=============================================================================
