------------------------ MODULE UnboundedMailboxProofs ------------------------
(* Proofs about UnboundedMailbox, for any finite set of senders, any size of *)
(* the two channels and any number of calls of Enqueue.                      *)
EXTENDS UnboundedMailbox, FiniteSetTheorems, SequenceTheorems, TLAPS

(* The senders inside Enqueue, and those that panicked there. *)
Busy == {s \in Senders : pc[s] # "idle"}

(* What the mailbox holds or has delivered is an earlier message than the    *)
(* one its sender is still trying to enqueue.                                *)
Settled(m, last, busy) == /\ m.n <= last[m.from]
                          /\ m.from \in busy => m.n # last[m.from]
Past == /\ \A i \in 1..Len(Held) : Settled(Held[i], sent, Busy)
        /\ \A i \in 1..Len(received) : Settled(received[i], sent, Busy)

Inv == /\ TypeOK
       /\ \A s \in Busy : sent[s] # 0
       /\ Past

-----------------------------------------------------------------------------
(* Moving the head of one sequence to the end of the one before it leaves    *)
(* their concatenation as it was.                                            *)
LEMMA MoveAcross ==
  ASSUME NEW S, NEW a \in Seq(S), NEW b \in Seq(S), b # <<>>
  PROVE  /\ Append(a, Head(b)) \in Seq(S)
         /\ Tail(b) \in Seq(S)
         /\ Append(a, Head(b)) \o Tail(b) = a \o b
<1> DEFINE l == Append(a, Head(b)) \o Tail(b)
           r == a \o b
<1>1. /\ Head(b) \in S /\ Tail(b) \in Seq(S) /\ Len(Tail(b)) = Len(b) - 1
      /\ \A i \in 1..Len(Tail(b)) : Tail(b)[i] = b[i + 1]
      /\ Head(b) = b[1]
  BY HeadTailProperties
<1>2. /\ Append(a, Head(b)) \in Seq(S) /\ Len(Append(a, Head(b))) = Len(a) + 1
      /\ \A i \in 1..Len(a) : Append(a, Head(b))[i] = a[i]
      /\ Append(a, Head(b))[Len(a) + 1] = b[1]
  BY <1>1, AppendProperties
<1>3. /\ l \in Seq(S) /\ Len(l) = Len(a) + Len(b)
      /\ \A i \in 1..Len(l) : l[i] = IF i <= Len(a) + 1 THEN Append(a, Head(b))[i]
                                                     ELSE Tail(b)[i - (Len(a) + 1)]
  BY <1>1, <1>2, ConcatProperties
<1>4. /\ r \in Seq(S) /\ Len(r) = Len(a) + Len(b)
      /\ \A i \in 1..Len(r) : r[i] = IF i <= Len(a) THEN a[i] ELSE b[i - Len(a)]
  BY ConcatProperties
<1>5. Len(a) \in Nat /\ Len(b) \in Nat /\ Len(b) > 0 OBVIOUS
<1> HIDE DEF l, r
<1>6. \A i \in 1..Len(l) : l[i] = r[i]
  <2> SUFFICES ASSUME NEW i \in 1..Len(l) PROVE l[i] = r[i] OBVIOUS
  <2>1. CASE i <= Len(a) BY <1>2, <1>3, <1>4, <1>5, <2>1
  <2>2. CASE i = Len(a) + 1 BY <1>2, <1>3, <1>4, <1>5, <2>2
  <2>3. CASE i > Len(a) + 1
    <3> DEFINE k == i - (Len(a) + 1)
    <3>1. k \in 1..Len(Tail(b)) /\ k + 1 = i - Len(a) BY <1>1, <1>3, <1>5, <2>3
    <3>2. l[i] = Tail(b)[k] BY <1>3, <1>5, <2>3
    <3>3. r[i] = b[i - Len(a)] BY <1>3, <1>4, <1>5, <2>3
    <3> QED BY <1>1, <3>1, <3>2, <3>3
  <2> QED BY <1>3, <1>5, <2>1, <2>2, <2>3
<1>7. l = r BY <1>3, <1>4, <1>6, SeqEqual
<1> QED BY <1>1, <1>2, <1>7 DEF l, r

(* All the mailbox holds is a sequence of messages. *)
LEMMA HeldType ==
  ASSUME TypeOK
  PROVE  /\ Held \in Seq(Messages)
         /\ Len(Held) = Len(ch) + Len(unboundedBuf) + Len(unboundedIn)
         /\ Held = ch \o (unboundedBuf \o unboundedIn)
<1>1. /\ ch \o unboundedBuf \in Seq(Messages)
      /\ Len(ch \o unboundedBuf) = Len(ch) + Len(unboundedBuf)
  BY ConcatProperties DEF TypeOK
<1>2. Held = ch \o (unboundedBuf \o unboundedIn)
  BY ConcatAssociative DEF TypeOK, Held
<1> QED BY <1>1, <1>2, ConcatProperties DEF TypeOK, Held

(* The pump reorders nothing: what the mailbox holds is the same before and  *)
(* after each of its steps.                                                  *)
LEMMA PumpKeepsHeld ==
  ASSUME TypeOK, Pump
  PROVE  /\ UNCHANGED <<Held, received, sent, pc, enqueued>>
         /\ unboundedIn' \in Seq(Messages) /\ unboundedBuf' \in Seq(Messages)
         /\ ch' \in Seq(Messages)
<1>0. ch \in Seq(Messages) /\ unboundedBuf \in Seq(Messages) /\ unboundedIn \in Seq(Messages)
  BY DEF TypeOK
<1>1. CASE PumpTake
  <2>1. /\ unboundedBuf' = Append(unboundedBuf, Head(unboundedIn))
        /\ unboundedIn' = Tail(unboundedIn) /\ unboundedIn # <<>>
        /\ ch' = ch
    BY <1>1 DEF PumpTake
  <2>2. /\ unboundedBuf' \in Seq(Messages) /\ unboundedIn' \in Seq(Messages)
        /\ unboundedBuf' \o unboundedIn' = unboundedBuf \o unboundedIn
    BY <1>0, <2>1, MoveAcross
  <2>3. Held' = ch' \o (unboundedBuf' \o unboundedIn')
    <3>1. Held' = (ch' \o unboundedBuf') \o unboundedIn' BY DEF Held
    <3>2. ch' \in Seq(Messages) BY <1>0, <2>1
    <3>3. \A a, b, e \in Seq(Messages) : (a \o b) \o e = a \o (b \o e)
      BY ConcatAssociative
    <3>4. (ch' \o unboundedBuf') \o unboundedIn' = ch' \o (unboundedBuf' \o unboundedIn')
      BY <2>2, <3>2, <3>3, Zenon
    <3> QED BY <3>1, <3>4, Zenon
  <2>4. Held' = Held BY <2>1, <2>2, <2>3, HeldType
  <2> QED BY <1>0, <1>1, <2>2, <2>4 DEF PumpTake
<1>2. CASE PumpForward
  <2>1. /\ ch' = Append(ch, Head(unboundedBuf))
        /\ unboundedBuf' = Tail(unboundedBuf) /\ unboundedBuf # <<>>
        /\ unboundedIn' = unboundedIn
    BY <1>2 DEF PumpForward
  <2>2. /\ ch' \in Seq(Messages) /\ unboundedBuf' \in Seq(Messages)
        /\ ch' \o unboundedBuf' = ch \o unboundedBuf
    <3>1. /\ Append(ch, Head(unboundedBuf)) \in Seq(Messages)
          /\ Tail(unboundedBuf) \in Seq(Messages)
          /\ Append(ch, Head(unboundedBuf)) \o Tail(unboundedBuf) = ch \o unboundedBuf
      BY <1>0, <2>1, MoveAcross
    <3> QED BY <2>1, <3>1
  <2>3. Held' = Held BY <2>1, <2>2 DEF Held
  <2> QED BY <1>0, <1>2, <2>2, <2>3 DEF PumpForward
<1>3. CASE PumpReturn BY <1>0, <1>3 DEF PumpReturn, Held
<1> QED BY <1>1, <1>2, <1>3 DEF Pump
(* A new message goes behind everything the mailbox holds. *)
LEMMA SendAppends ==
  ASSUME TypeOK, NEW s \in Senders, Send(s), Current(s) \in Messages
  PROVE  /\ unboundedIn' \in Seq(Messages) /\ Len(unboundedIn') = Len(unboundedIn) + 1
         /\ Held' = Append(Held, Current(s))
<1> DEFINE q == ch \o unboundedBuf
           m == Current(s)
<1>1. q \in Seq(Messages) /\ unboundedIn \in Seq(Messages) /\ m \in Messages
  BY ConcatProperties DEF TypeOK
<1>2. unboundedIn' = Append(unboundedIn, m) /\ UNCHANGED <<ch, unboundedBuf>> BY DEF Send
<1> HIDE DEF q, m
<1>3. /\ Append(unboundedIn, m) = unboundedIn \o <<m>>
      /\ Append(unboundedIn, m) \in Seq(Messages)
      /\ Len(Append(unboundedIn, m)) = Len(unboundedIn) + 1
  BY <1>1, AppendIsConcat, AppendProperties
<1>4. <<m>> \in Seq(Messages) BY <1>1
<1>5. q \o (unboundedIn \o <<m>>) = (q \o unboundedIn) \o <<m>>
  BY <1>1, <1>4, ConcatAssociative
<1>6. q \o unboundedIn \in Seq(Messages) BY <1>1, ConcatProperties
<1>7. (q \o unboundedIn) \o <<m>> = Append(q \o unboundedIn, m)
  BY <1>1, <1>6, AppendIsConcat
<1>8. Held = q \o unboundedIn /\ Held' = q \o unboundedIn' BY <1>2 DEF Held, q
<1> QED BY <1>2, <1>3, <1>5, <1>7, <1>8 DEF m

(* The run loop takes the head of everything the mailbox holds. *)
LEMMA ReceiveTakes ==
  ASSUME TypeOK, Receive
  PROVE  /\ Held # <<>> /\ Head(Held) = Head(ch) /\ Held' = Tail(Held)
         /\ Head(ch) \in Messages /\ ch' \in Seq(Messages) /\ Len(ch') = Len(ch) - 1
<1> DEFINE t == unboundedBuf \o unboundedIn
           l == Tail(ch) \o t
           r == Tail(Held)
<1>1. t \in Seq(Messages) /\ ch \in Seq(Messages) /\ ch # <<>>
  BY ConcatProperties DEF TypeOK, Receive
<1>2. Held = ch \o t BY HeldType
<1>3. ch' = Tail(ch) /\ UNCHANGED <<unboundedBuf, unboundedIn>> BY DEF Receive
<1>4. /\ Tail(ch) \in Seq(Messages) /\ Head(ch) \in Messages /\ Len(Tail(ch)) = Len(ch) - 1
      /\ \A i \in 1..Len(Tail(ch)) : Tail(ch)[i] = ch[i + 1]
      /\ Len(ch) \in Nat \ {0}
  BY <1>1, HeadTailProperties
<1>5. Held' = Tail(ch) \o t
  <2>1. Held' = (Tail(ch) \o unboundedBuf) \o unboundedIn BY <1>3 DEF Held
  <2>2. unboundedBuf \in Seq(Messages) /\ unboundedIn \in Seq(Messages) BY DEF TypeOK
  <2>3. \A a, b, e \in Seq(Messages) : (a \o b) \o e = a \o (b \o e) BY ConcatAssociative
  <2>4. (Tail(ch) \o unboundedBuf) \o unboundedIn = Tail(ch) \o t BY <1>4, <2>2, <2>3, Zenon
  <2> QED BY <2>1, <2>4, Zenon
<1> HIDE DEF t
<1>6. /\ Held \in Seq(Messages) /\ Len(Held) = Len(ch) + Len(t) /\ Len(t) \in Nat
      /\ \A i \in 1..Len(Held) : Held[i] = IF i <= Len(ch) THEN ch[i] ELSE t[i - Len(ch)]
  BY <1>1, <1>2, ConcatProperties
<1>7. Held # <<>> BY <1>4, <1>6
<1>8. Head(Held) = Held[1] /\ Head(ch) = ch[1] BY <1>1, <1>6, <1>7
<1>9. Held[1] = ch[1] BY <1>4, <1>6
<1>10. /\ r \in Seq(Messages) /\ Len(r) = Len(Held) - 1
       /\ \A i \in 1..Len(r) : r[i] = Held[i + 1]
  BY <1>6, <1>7, HeadTailProperties
<1>11. /\ l \in Seq(Messages) /\ Len(l) = Len(Tail(ch)) + Len(t)
       /\ \A i \in 1..Len(l) :
             l[i] = IF i <= Len(Tail(ch)) THEN Tail(ch)[i] ELSE t[i - Len(Tail(ch))]
  BY <1>1, <1>4, ConcatProperties
<1> HIDE DEF l, r
<1>12. Len(l) = Len(r) BY <1>4, <1>6, <1>10, <1>11
<1>13. \A i \in 1..Len(l) : l[i] = r[i]
  <2> SUFFICES ASSUME NEW i \in 1..Len(l) PROVE l[i] = r[i] OBVIOUS
  <2>1. r[i] = Held[i + 1] /\ i + 1 \in 1..Len(Held) BY <1>6, <1>10, <1>12
  <2>2. CASE i <= Len(Tail(ch))
    <3>1. l[i] = ch[i + 1] BY <1>4, <1>11, <2>2
    <3> QED BY <1>4, <1>6, <2>1, <2>2, <3>1
  <2>3. CASE ~(i <= Len(Tail(ch)))
    <3>1. i - Len(Tail(ch)) = (i + 1) - Len(ch) BY <1>4
    <3> QED BY <1>4, <1>6, <1>11, <2>1, <2>3, <3>1
  <2> QED BY <2>2, <2>3
<1>14. l = r BY <1>10, <1>11, <1>12, <1>13, SeqEqual
<1> QED BY <1>3, <1>4, <1>5, <1>7, <1>8, <1>9, <1>14 DEF l, r
-----------------------------------------------------------------------------
(* The message of a sender that waits in Enqueue is a message, and the       *)
(* mailbox has done nothing with it.                                         *)
LEMMA CurrentIsNew ==
  ASSUME Inv, NEW s \in Senders, pc[s] = "send"
  PROVE  /\ Current(s) \in Messages
         /\ \A i \in 1..Len(Held) : Held[i] # Current(s)
         /\ \A i \in 1..Len(received) : received[i] # Current(s)
<1>1. s \in Busy BY DEF Busy
<1>2. sent[s] \in 1..MaxSends BY <1>1, UnboundedAssumption DEF Inv, TypeOK
<1>3. Current(s) \in Messages BY <1>2 DEF Current, Messages
<1>4. ~Settled(Current(s), sent, Busy) BY <1>1 DEF Settled, Current
<1> QED BY <1>3, <1>4 DEF Inv, Past

(* The elements of a sequence with one more at the end. *)
LEMMA AppendElements ==
  ASSUME NEW S, NEW q \in Seq(S), NEW m \in S, NEW i \in 1..Len(Append(q, m))
  PROVE  Append(q, m)[i] = m \/ (i \in 1..Len(q) /\ Append(q, m)[i] = q[i])
<1>1. Len(q) \in Nat /\ Len(Append(q, m)) = Len(q) + 1 BY AppendProperties, LenProperties
<1>2. i \in 1..Len(q) \/ i = Len(q) + 1 BY <1>1
<1> QED BY <1>2, AppendProperties

(* The elements of what the mailbox holds after a step were held before, or  *)
(* are the message just sent.                                                *)
LEMMA PastKept ==
  ASSUME Inv, NEW m \in Messages, Settled(m, sent', Busy'),
         \A e \in Messages : Settled(e, sent, Busy) => Settled(e, sent', Busy'),
         Held' \in {Held, Append(Held, m), Tail(Held)}, Held # <<>> \/ Held' # Tail(Held),
         received' \in {received, Append(received, m)}
  PROVE  Past'
<1>1. Held \in Seq(Messages) /\ received \in Seq(Messages) BY HeldType DEF Inv, TypeOK
<1>2. \A i \in 1..Len(Held') : Held'[i] = m \/ \E j \in 1..Len(Held) : Held'[i] = Held[j]
  <2>1. CASE Held' = Held BY <2>1
  <2>2. CASE Held' = Append(Held, m)
    <3> DEFINE h == Held
    <3>1. h \in Seq(Messages) BY <1>1
    <3> HIDE DEF h
    <3>2. \A i \in 1..Len(Append(h, m)) :
            Append(h, m)[i] = m \/ (i \in 1..Len(h) /\ Append(h, m)[i] = h[i])
      BY <3>1, AppendElements
    <3> QED BY <2>2, <3>2 DEF h
  <2>3. CASE Held' = Tail(Held) /\ Held # <<>>
    <3> DEFINE h == Held
    <3>1. h \in Seq(Messages) /\ h # <<>> BY <1>1, <2>3
    <3> HIDE DEF h
    <3>2. \A i \in 1..Len(Tail(h)) : i + 1 \in 1..Len(h) /\ Tail(h)[i] = h[i + 1]
      BY <3>1
    <3> QED BY <2>3, <3>2 DEF h
  <2> QED BY <2>1, <2>2, <2>3
<1>3. \A i \in 1..Len(received') :
        received'[i] = m \/ (i \in 1..Len(received) /\ received'[i] = received[i])
  <2>1. CASE received' = received BY <2>1
  <2>2. CASE received' = Append(received, m)
    <3> DEFINE r == received
    <3>1. r \in Seq(Messages) BY <1>1
    <3> HIDE DEF r
    <3>2. \A i \in 1..Len(Append(r, m)) :
            Append(r, m)[i] = m \/ (i \in 1..Len(r) /\ Append(r, m)[i] = r[i])
      BY <3>1, AppendElements
    <3> QED BY <2>2, <3>2 DEF r
  <2> QED BY <2>1, <2>2
<1>4. /\ \A j \in 1..Len(Held) : Held[j] \in Messages /\ Settled(Held[j], sent, Busy)
      /\ \A j \in 1..Len(received) : /\ received[j] \in Messages
                                     /\ Settled(received[j], sent, Busy)
  BY <1>1 DEF Inv, Past
<1>5. \A i \in 1..Len(Held') : Settled(Held'[i], sent', Busy') BY <1>2, <1>4
<1>6. \A i \in 1..Len(received') : Settled(received'[i], sent', Busy') BY <1>3, <1>4
<1> QED BY <1>5, <1>6 DEF Past

(* A sender moves on. *)
LEMMA MoveSender ==
  ASSUME TypeOK, NEW s \in Senders, NEW w \in {"idle", "send", "panicked"},
         pc' = [pc EXCEPT ![s] = w]
  PROVE  /\ pc' \in [Senders -> {"idle", "send", "panicked"}]
         /\ Busy' = IF w = "idle" THEN Busy \ {s} ELSE Busy \cup {s}
<1>1. pc'[s] = w /\ \A r \in Senders : r # s => pc'[r] = pc[r] BY DEF TypeOK
<1> QED BY <1>1 DEF TypeOK, Busy

(* A step that changes neither the senders nor the messages held. *)
LEMMA QuietInv ==
  ASSUME Inv, TypeOK', UNCHANGED <<Held, received, sent, pc>>
  PROVE  Inv'
  BY DEF Inv, Past, Busy

(* The invariant is inductive. *)
LEMMA InvStep == Inv /\ [Next]_vars => Inv'
<1> SUFFICES ASSUME Inv, [Next]_vars PROVE Inv' OBVIOUS
<1> USE UnboundedAssumption
<1>1. ASSUME NEW s \in Senders, Enqueue(s) PROVE Inv'
  <2>1. Busy' = Busy \cup {s} /\ pc' \in [Senders -> {"idle", "send", "panicked"}]
    BY <1>1, MoveSender DEF Enqueue, Inv
  <2>2. /\ sent'[s] = sent[s] + 1 /\ sent'[s] \in 1..MaxSends /\ sent[s] \in 0..MaxSends
        /\ \A r \in Senders : r # s => sent'[r] = sent[r] /\ sent[r] \in 0..MaxSends
        /\ sent' \in [Senders -> 0..MaxSends]
    BY <1>1 DEF Enqueue, Inv, TypeOK
  <2>3. TypeOK' BY <1>1, <2>1, <2>2 DEF Enqueue, Inv, TypeOK
  <2>4. ASSUME NEW m \in Messages, Settled(m, sent, Busy) PROVE Settled(m, sent', Busy')
    <3>1. m.n \in Nat /\ m.from \in Senders BY DEF Messages
    <3> QED BY <2>1, <2>2, <2>4, <3>1 DEF Settled
  <2>5. UNCHANGED <<Held, received>> BY <1>1 DEF Enqueue, Held
  <2>6. Past'
    <3>1. Held \in Seq(Messages) /\ received \in Seq(Messages)
      BY HeldType DEF Inv, TypeOK
    <3>2. /\ \A i \in 1..Len(Held) : Held[i] \in Messages
          /\ \A i \in 1..Len(received) : received[i] \in Messages
      BY <3>1
    <3> QED BY <2>4, <2>5, <3>2 DEF Inv, Past
  <2>7. \A r \in Busy' : sent'[r] # 0 BY <2>1, <2>2 DEF Inv, Busy
  <2> QED BY <2>3, <2>6, <2>7 DEF Inv
<1>2. ASSUME NEW s \in Senders, Send(s) PROVE Inv'
  <2>1. Current(s) \in Messages BY <1>2, CurrentIsNew DEF Send
  <2>2. Busy' = Busy \ {s} /\ pc' \in [Senders -> {"idle", "send", "panicked"}]
    BY <1>2, MoveSender DEF Send, Inv
  <2>3. /\ unboundedIn' \in Seq(Messages) /\ Len(unboundedIn') = Len(unboundedIn) + 1
        /\ Held' = Append(Held, Current(s))
    BY <1>2, <2>1, SendAppends DEF Inv
  <2>4. Len(unboundedIn') <= DefaultMailboxSize
    BY <1>2, <2>3 DEF Send, HasRoom, Inv, TypeOK
  <2>5. TypeOK' BY <1>2, <2>2, <2>3, <2>4 DEF Send, Inv, TypeOK
  <2>6. UNCHANGED <<sent, received>> BY <1>2 DEF Send
  <2>7. Settled(Current(s), sent', Busy')
    BY <2>1, <2>2, <2>6 DEF Settled, Current, Messages
  <2>8. \A e \in Messages : Settled(e, sent, Busy) => Settled(e, sent', Busy')
    BY <2>2, <2>6 DEF Settled
  <2>9. Held' # Tail(Held)
    <3> DEFINE h == Held
    <3>1. h \in Seq(Messages) BY HeldType DEF Inv
    <3> HIDE DEF h
    <3>2. CASE h = <<>> BY <2>1, <2>3, <3>1, <3>2 DEF h
    <3>3. CASE h # <<>>
      <4>1. Len(Tail(h)) # Len(Append(h, Current(s))) BY <2>1, <3>1, <3>3
      <4> QED BY <2>3, <4>1 DEF h
    <3> QED BY <3>2, <3>3
  <2>10. Past' BY <2>1, <2>3, <2>6, <2>7, <2>8, <2>9, PastKept
  <2> QED BY <2>2, <2>5, <2>6, <2>10 DEF Inv
<1>3. ASSUME NEW s \in Senders, SendOnClosed(s) PROVE Inv'
  <2>1. Busy' = Busy \cup {s} /\ pc' \in [Senders -> {"idle", "send", "panicked"}]
    BY <1>3, MoveSender DEF SendOnClosed, Inv
  <2>2. Busy' = Busy BY <1>3, <2>1 DEF SendOnClosed, Busy
  <2>3. UNCHANGED <<Held, received, sent>> BY <1>3 DEF SendOnClosed, Held
  <2>4. TypeOK' BY <1>3, <2>1 DEF SendOnClosed, Inv, TypeOK
  <2> QED BY <2>2, <2>3, <2>4 DEF Inv, Past
<1>4. CASE Pump
  <2>1. /\ UNCHANGED <<Held, received, sent, pc, enqueued>>
        /\ unboundedIn' \in Seq(Messages) /\ unboundedBuf' \in Seq(Messages)
        /\ ch' \in Seq(Messages)
    BY <1>4, PumpKeepsHeld DEF Inv
  <2>2. Len(unboundedIn') <= DefaultMailboxSize
    BY <1>4 DEF Pump, PumpTake, PumpForward, PumpReturn, Inv, TypeOK
  <2>3. Len(ch') <= DefaultMailboxSize
    BY <1>4 DEF Pump, PumpTake, PumpForward, PumpReturn, HasRoom, Inv, TypeOK
  <2>4. closed' \in BOOLEAN /\ pumping' \in BOOLEAN /\ reading' \in BOOLEAN
    BY <1>4 DEF Pump, PumpTake, PumpForward, PumpReturn, Inv, TypeOK
  <2>5. TypeOK' BY <2>1, <2>2, <2>3, <2>4 DEF Inv, TypeOK
  <2> QED BY <2>1, <2>5, QuietInv
<1>5. CASE Receive
  <2>1. /\ Held # <<>> /\ Head(Held) = Head(ch) /\ Held' = Tail(Held)
        /\ Head(ch) \in Messages /\ ch' \in Seq(Messages) /\ Len(ch') = Len(ch) - 1
    BY <1>5, ReceiveTakes DEF Inv
  <2>2. received' = Append(received, Head(ch)) /\ UNCHANGED <<sent, pc>> BY <1>5 DEF Receive
  <2>3. received' \in Seq(Messages) BY <2>1, <2>2 DEF Inv, TypeOK
  <2>4. Len(ch') <= DefaultMailboxSize BY <2>1 DEF Inv, TypeOK
  <2>5. TypeOK' BY <1>5, <2>1, <2>3, <2>4 DEF Receive, Inv, TypeOK
  <2>6. UNCHANGED Busy BY <2>2 DEF Busy
  <2>7. Settled(Head(Held), sent, Busy)
    <3> DEFINE h == Held
    <3>1. h \in Seq(Messages) /\ h # <<>> BY <2>1, HeldType DEF Inv
    <3> HIDE DEF h
    <3>2. Head(h) = h[1] /\ 1 \in 1..Len(h) BY <3>1
    <3> QED BY <3>2 DEF h, Inv, Past
  <2>8. Past' BY <2>1, <2>2, <2>6, <2>7, PastKept
  <2> QED BY <2>2, <2>5, <2>6, <2>8 DEF Inv
<1>6. CASE StopReading \/ Close
  <2>1. UNCHANGED <<Held, received, sent, pc>> BY <1>6 DEF StopReading, Close, Held
  <2>2. TypeOK' BY <1>6 DEF StopReading, Close, Inv, TypeOK
  <2> QED BY <2>1, <2>2, QuietInv
<1>7. CASE UNCHANGED vars
  <2>1. UNCHANGED <<Held, received, sent, pc>> BY <1>7 DEF vars, Held
  <2>2. TypeOK' BY <1>7 DEF vars, Inv, TypeOK
  <2> QED BY <2>1, <2>2, QuietInv
<1> QED BY <1>1, <1>2, <1>3, <1>4, <1>5, <1>6, <1>7 DEF Next
LEMMA InvInit == Init => Inv
<1> SUFFICES ASSUME Init PROVE Inv OBVIOUS
<1>1. closed \in BOOLEAN /\ pumping \in BOOLEAN /\ reading \in BOOLEAN BY DEF Init
<1>2. pc \in [Senders -> {"idle", "send", "panicked"}] /\ sent \in [Senders -> 0..MaxSends]
  BY UnboundedAssumption DEF Init
<1>3. TypeOK BY <1>1, <1>2, UnboundedAssumption DEF Init, TypeOK
<1>4. Len(Held) = 0 BY <1>3, HeldType DEF Init
<1>5. Past BY <1>4 DEF Init, Past
<1> QED BY <1>3, <1>5 DEF Init, Inv, Busy

(* Theorem: both channels stay within their size and the message of a sender *)
(* that waits in Enqueue is new to the mailbox (mailbox.go:77-112).          *)
THEOREM UnboundedInvariant == Spec => []Inv
  BY InvInit, InvStep, PTL DEF Spec

-----------------------------------------------------------------------------
(* A step keeps the balance of mb.enqueued. *)
LEMMA ConservationStep == Inv /\ Conservation /\ [Next]_vars => Conservation'
<1> SUFFICES ASSUME Inv, Conservation, [Next]_vars PROVE Conservation' OBVIOUS
<1>1. IsFiniteSet(Busy) BY FS_Subset, UnboundedAssumption DEF Busy
<1>2. /\ Held \in Seq(Messages) /\ Len(Held) \in Nat
      /\ received \in Seq(Messages) /\ Len(received) \in Nat
      /\ Cardinality(Busy) \in Nat /\ enqueued \in Nat
  <2>1. Held \in Seq(Messages) BY HeldType DEF Inv
  <2> QED BY <1>1, <2>1, LenProperties, FS_CardinalityType DEF Inv, TypeOK
<1>3. enqueued = Len(received) + Len(Held) + Cardinality(Busy) BY DEF Conservation, Busy
<1> DEFINE Goal == enqueued' = Len(received') + Len(Held') + Cardinality(Busy')
<1>4. SUFFICES Goal BY DEF Conservation, Busy
<1>5. ASSUME UNCHANGED <<enqueued, received, Held, Busy>> PROVE Goal BY <1>3, <1>5
<1>6. ASSUME NEW s \in Senders, Enqueue(s) PROVE Goal
  <2>1. Busy' = Busy \cup {s} /\ s \notin Busy
    BY <1>6, MoveSender DEF Enqueue, Inv, Busy
  <2>2. Cardinality(Busy') = Cardinality(Busy) + 1 BY <1>1, <2>1, FS_AddElement
  <2>3. UNCHANGED <<Held, received>> /\ enqueued' = enqueued + 1 BY <1>6 DEF Enqueue, Held
  <2> QED BY <1>2, <1>3, <2>2, <2>3
<1>7. ASSUME NEW s \in Senders, Send(s) PROVE Goal
  <2>1. Busy' = Busy \ {s} /\ s \in Busy BY <1>7, MoveSender DEF Send, Inv, Busy
  <2>2. Cardinality(Busy') = Cardinality(Busy) - 1 BY <1>1, <2>1, FS_RemoveElement
  <2>3. Current(s) \in Messages BY <1>7, CurrentIsNew DEF Send
  <2>4. Held' = Append(Held, Current(s)) BY <1>7, <2>3, SendAppends DEF Inv
  <2>5. Len(Held') = Len(Held) + 1 BY <1>2, <2>3, <2>4, AppendProperties
  <2>6. UNCHANGED <<received, enqueued>> BY <1>7 DEF Send
  <2> QED BY <1>2, <1>3, <2>2, <2>5, <2>6
<1>8. ASSUME NEW s \in Senders, SendOnClosed(s) PROVE Goal
  <2>1. Busy' = Busy BY <1>8, MoveSender DEF SendOnClosed, Inv, Busy
  <2>2. UNCHANGED <<enqueued, received, Held>> BY <1>8 DEF SendOnClosed, Held
  <2> QED BY <1>5, <2>1, <2>2
<1>9. CASE Pump BY <1>5, <1>9, PumpKeepsHeld DEF Inv, Busy
<1>10. CASE Receive
  <2>1. Held # <<>> /\ Held' = Tail(Held) /\ Head(ch) \in Messages
    BY <1>10, ReceiveTakes DEF Inv
  <2>2. Len(Held') = Len(Held) - 1 BY <1>2, <2>1, HeadTailProperties
  <2>3. Len(received') = Len(received) + 1 BY <1>2, <1>10, <2>1, AppendProperties DEF Receive
  <2>4. UNCHANGED <<Busy, enqueued>> BY <1>10 DEF Receive, Busy
  <2> QED BY <1>2, <1>3, <2>2, <2>3, <2>4
<1>11. CASE StopReading \/ Close BY <1>5, <1>11 DEF StopReading, Close, Held, Busy
<1>12. CASE UNCHANGED vars BY <1>5, <1>12 DEF vars, Held, Busy
<1> QED BY <1>6, <1>7, <1>8, <1>9, <1>10, <1>11, <1>12 DEF Next

(* Theorem: no message vanishes on its way through the pump                  *)
(* (mailbox.go:77-112), for any senders and any size of the channels.        *)
THEOREM NothingVanishes == Spec => []Conservation
<1>1. Init => Conservation
  <2> SUFFICES ASSUME Init PROVE Conservation OBVIOUS
  <2>1. Len(Held) = 0 BY InvInit, HeldType DEF Init, Inv
  <2>2. {s \in Senders : pc[s] # "idle"} = {} BY DEF Init
  <2> QED BY <2>1, <2>2, FS_EmptySet DEF Init, Conservation
<1> QED BY <1>1, ConservationStep, UnboundedInvariant, PTL DEF Spec

-----------------------------------------------------------------------------
(* The pump returns only from a closed mailbox, with nothing left to take. *)
Returned == ~pumping => closed /\ unboundedIn = <<>>

LEMMA ReturnedStep == Inv /\ Returned /\ [Next]_vars => Returned'
  BY DEF Returned, Next, vars, Enqueue, Send, SendOnClosed, Pump, PumpTake, PumpForward,
         PumpReturn, Receive, StopReading, Close

(* What comes before the end of a sequence that is put together of two. *)
LEMMA SplitConcat ==
  \A a, b \in Seq(Messages) :
    /\ Len(a) \in 0..Len(a \o b)
    /\ SubSeq(a \o b, 1, Len(a)) = a
    /\ {(a \o b)[i] : i \in (Len(a) + 1)..Len(a \o b)} = {b[i] : i \in 1..Len(b)}
<1> TAKE a, b \in Seq(Messages)
<1> DEFINE q == a \o b
<1>1. /\ q \in Seq(Messages) /\ Len(q) = Len(a) + Len(b)
      /\ \A i \in 1..Len(q) : q[i] = IF i <= Len(a) THEN a[i] ELSE b[i - Len(a)]
  BY ConcatProperties
<1>2. Len(a) \in Nat /\ Len(b) \in Nat OBVIOUS
<1> HIDE DEF q
<1>3. /\ SubSeq(q, 1, Len(a)) \in Seq(Messages)
      /\ Len(SubSeq(q, 1, Len(a))) = Len(a)
      /\ \A i \in 1..Len(a) : SubSeq(q, 1, Len(a))[i] = q[i]
  BY <1>1, <1>2
<1>4. \A i \in 1..Len(a) : SubSeq(q, 1, Len(a))[i] = a[i] BY <1>1, <1>2, <1>3
<1>5. SubSeq(q, 1, Len(a)) = a BY <1>3, <1>4, SeqEqual
<1>6. \A i \in (Len(a) + 1)..Len(q) : i - Len(a) \in 1..Len(b) /\ q[i] = b[i - Len(a)]
  BY <1>1, <1>2
<1>7. \A j \in 1..Len(b) : Len(a) + j \in (Len(a) + 1)..Len(q) /\ q[Len(a) + j] = b[j]
  <2> SUFFICES ASSUME NEW j \in 1..Len(b)
               PROVE  Len(a) + j \in (Len(a) + 1)..Len(q) /\ q[Len(a) + j] = b[j]
    OBVIOUS
  <2>1. Len(a) + j \in (Len(a) + 1)..Len(q) /\ (Len(a) + j) - Len(a) = j BY <1>1, <1>2
  <2> QED BY <1>6, <2>1
<1>8. {q[i] : i \in (Len(a) + 1)..Len(q)} = {b[i] : i \in 1..Len(b)}
  <2>1. ASSUME NEW i \in (Len(a) + 1)..Len(q) PROVE \E j \in 1..Len(b) : q[i] = b[j]
    BY <1>6
  <2>2. ASSUME NEW j \in 1..Len(b)
        PROVE  \E i \in (Len(a) + 1)..Len(q) : b[j] = q[i]
    BY <1>7
  <2> DEFINE l == {q[i] : i \in (Len(a) + 1)..Len(q)}
             r == {b[j] : j \in 1..Len(b)}
  <2>3. \A x \in l : x \in r BY <2>1
  <2>4. \A x \in r : x \in l BY <2>2
  <2>5. \A x : x \in l <=> x \in r BY <2>3, <2>4
  <2> HIDE DEF l, r
  <2>6. l = r BY <2>5
  <2> QED BY <2>6 DEF l, r
<1>9. Len(a) \in 0..Len(q) BY <1>1, <1>2
<1> QED BY <1>5, <1>8, <1>9 DEF q

(* Every step is a step of the abstract queue or changes nothing its users   *)
(* see.                                                                      *)
LEMMA QueueStep == Inv /\ Returned /\ [Next]_vars => [Queue!QNext]_(Queue!qvars)
<1> SUFFICES ASSUME Inv, Returned, [Next]_vars PROVE [Queue!QNext]_(Queue!qvars) OBVIOUS
<1>0. pumping => Reachable = Held /\ Stranded = {} BY DEF Reachable, Stranded
<1>1. ASSUME NEW s \in Senders, Send(s) PROVE Queue!QNext
  <2>1. Current(s) \in Messages /\ Queue!New(Current(s))
    <3>1. pumping BY <1>1 DEF Send, Returned
    <3> QED BY <1>0, <1>1, <3>1, CurrentIsNew DEF Send, Queue!New, Queue!Elements
  <2>2. Held' = Append(Held, Current(s)) BY <1>1, <2>1, SendAppends DEF Inv
  <2>3. pumping /\ pumping' BY <1>1 DEF Send, Returned
  <2>4. Reachable' = Append(Reachable, Current(s)) /\ Stranded' = Stranded
    BY <2>2, <2>3 DEF Reachable, Stranded
  <2>5. Queue!Accept(Current(s)) BY <1>1, <2>1, <2>4 DEF Send, Queue!Accept
  <2> QED BY <2>1, <2>5 DEF Queue!QNext
<1>2. CASE Receive
  <2>1. Reachable # <<>> /\ Head(Reachable) = Head(ch) /\ Reachable' = Tail(Reachable)
    BY <1>2, ReceiveTakes DEF Receive, Reachable, Inv
  <2>2. Stranded' = Stranded BY <1>2 DEF Receive, Stranded
  <2>3. Queue!Deliver BY <1>2, <2>1, <2>2 DEF Receive, Queue!Deliver
  <2> QED BY <2>3 DEF Queue!QNext
<1>3. ASSUME UNCHANGED <<Held, ch, unboundedBuf, pumping, received, closed>>
      PROVE  UNCHANGED Queue!qvars
  BY <1>3 DEF Queue!qvars, Reachable, Stranded
<1>4. ASSUME NEW s \in Senders, Enqueue(s) \/ SendOnClosed(s) PROVE UNCHANGED Queue!qvars
  BY <1>3, <1>4 DEF Enqueue, SendOnClosed, Held
<1>5. CASE PumpTake \/ PumpForward
  <2>1. UNCHANGED <<Held, received>> BY <1>5, PumpKeepsHeld DEF Pump, Inv
  <2>2. pumping /\ pumping' /\ closed' = closed BY <1>5 DEF PumpTake, PumpForward
  <2> QED BY <2>1, <2>2 DEF Queue!qvars, Reachable, Stranded
<1>6. CASE PumpReturn
  <2> DEFINE tail == unboundedBuf \o unboundedIn
  <2>1. ch \in Seq(Messages) /\ tail \in Seq(Messages) /\ unboundedBuf \in Seq(Messages)
    BY ConcatProperties DEF Inv, TypeOK
  <2>2. tail = unboundedBuf
    <3>1. unboundedIn = <<>> BY <1>6 DEF PumpReturn
    <3>2. \A q \in Seq(Messages) : q \o <<>> = q BY ConcatEmptySeq
    <3> QED BY <2>1, <3>1, <3>2
  <2>3. Held = ch \o unboundedBuf BY <2>2, HeldType DEF Inv
  <2>4. /\ Reachable = Held /\ Stranded = {}
        /\ Reachable' = ch /\ Stranded' = {unboundedBuf[i] : i \in 1..Len(unboundedBuf)}
    BY <1>6 DEF PumpReturn, Reachable, Stranded
  <2>5. /\ Len(ch) \in 0..Len(Held)
        /\ SubSeq(Held, 1, Len(ch)) = ch
        /\ {Held[i] : i \in (Len(ch) + 1)..Len(Held)} = Stranded'
    <3> DEFINE b == unboundedBuf
    <3>0. ch \in Seq(Messages) /\ b \in Seq(Messages) BY <2>1
    <3>1. /\ Len(ch) \in 0..Len(ch \o b)
          /\ SubSeq(ch \o b, 1, Len(ch)) = ch
          /\ {(ch \o b)[i] : i \in (Len(ch) + 1)..Len(ch \o b)} = {b[i] : i \in 1..Len(b)}
      BY <3>0, SplitConcat, Zenon
    <3> QED BY <2>3, <2>4, <3>1, Zenon
  <2>6. \E k \in 0..Len(Reachable) :
          /\ Reachable' = SubSeq(Reachable, 1, k)
          /\ Stranded' = Stranded \cup {Reachable[i] : i \in (k + 1)..Len(Reachable)}
    <3> DEFINE n == Len(ch)
               h == Held
               r == {h[i] : i \in (n + 1)..Len(h)}
    <3>1. n \in 0..Len(h) /\ ch = SubSeq(h, 1, n) /\ Stranded' = r BY <2>5
    <3> HIDE DEF n, h
    <3>2. /\ n \in 0..Len(h) /\ Reachable' = SubSeq(h, 1, n)
          /\ Stranded' = {} \cup {h[i] : i \in (n + 1)..Len(h)}
      BY <2>4, <3>1
    <3>3. Reachable = h /\ Stranded = {} BY <2>4 DEF h
    <3> QED BY <3>2, <3>3
  <2>7. Queue!Abandon BY <1>6, <2>6 DEF PumpReturn, Queue!Abandon
  <2> QED BY <2>7 DEF Queue!QNext
<1>7. CASE Close
  <2>1. UNCHANGED <<Reachable, Stranded>> BY <1>7 DEF Close, Reachable, Stranded, Held
  <2> QED BY <1>7, <2>1 DEF Close, Queue!QClose, Queue!QNext
<1>8. CASE StopReading \/ UNCHANGED vars
  BY <1>3, <1>8 DEF StopReading, vars, Held
<1> QED BY <1>1, <1>2, <1>4, <1>5, <1>6, <1>7, <1>8 DEF Next, Pump

(* Theorem: two channels, a buffer and the pump between them implement one   *)
(* FIFO queue that drops and duplicates nothing while it is open             *)
(* (mailbox.go:35-38, 77-112), and afterwards only what the pump leaves in   *)
(* its buffer, for any senders and any size of the channels.                 *)
THEOREM UnboundedIsQueue == Spec => ImplementsQueue
<1>1. Init => Queue!QInit /\ Returned
  <2> SUFFICES ASSUME Init PROVE Queue!QInit /\ Returned OBVIOUS
  <2>1. Held \in Seq(Messages) /\ Len(Held) = 0 BY InvInit, HeldType DEF Init, Inv
  <2>2. Held = <<>> BY <2>1, EmptySeq
  <2> QED BY <2>2 DEF Init, Queue!QInit, Queue!Policies, Reachable, Stranded, Returned
<1>2. Spec => []Returned BY <1>1, ReturnedStep, UnboundedInvariant, PTL DEF Spec
<1> QED
  BY <1>1, <1>2, QueueStep, UnboundedInvariant, PTL DEF Spec, ImplementsQueue, Queue!QSpec

(* Theorem: neither channel holds more than its size, however long the       *)
(* buffer between them grows (mailbox.go:66-104).                         *)
THEOREM TypeCorrect == Spec => []TypeOK
<1>1. Inv => TypeOK BY DEF Inv
<1> QED BY <1>1, UnboundedInvariant, PTL
=============================================================================
