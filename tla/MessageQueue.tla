---------------------------- MODULE MessageQueue ----------------------------
(* What a mailbox of actor-framework/mailbox.go promises to its users: a     *)
(* FIFO queue that hands every message over at most once and that discards   *)
(* messages only as its overflow policy says, or as its pump does when it is *)
(* closed.  Mailbox and UnboundedMailbox are shown to implement it.          *)
(*                                                                           *)
(* The promise for DropOldest is the one the code keeps, weaker than its     *)
(* comment (mailbox.go:18 "to make room"): the message that is given up pays *)
(* for an earlier moment at which a new one found the queue full (pressed),  *)
(* and by then there may be room again.                                      *)
EXTENDS Naturals, Sequences, FiniteSets

CONSTANTS Messages,   \* the messages that may ever be enqueued
          Limit       \* the capacity of a bounded mailbox

VARIABLES policy,     \* the overflow strategy, fixed at creation
          closed,     \* the mailbox has been closed
          queue,      \* accepted messages nobody has taken yet
          pressed,    \* messages that found a DropOldest queue full
          delivered,  \* messages handed to the actor, in order
          discarded   \* messages dropped by the policy or by the closed pump

qvars == <<policy, closed, queue, pressed, delivered, discarded>>

Policies == {"DropNewest", "DropOldest", "BlockSender", "Unbounded"}

Elements(s) == {s[i] : i \in 1..Len(s)}

(* A message is new as long as the mailbox has done nothing with it. *)
New(m) == m \notin Elements(queue) \cup Elements(delivered) \cup discarded

QInit == /\ policy \in Policies
         /\ closed = FALSE
         /\ queue = <<>>
         /\ pressed = {}
         /\ delivered = <<>>
         /\ discarded = {}

(* A message is queued behind all others; only the unbounded queue grows     *)
(* past the limit, and a closed one accepts nothing.                         *)
Accept(m) ==
  /\ ~closed
  /\ New(m)
  /\ policy = "Unbounded" \/ Len(queue) < Limit
  /\ queue' = Append(queue, m)
  /\ UNCHANGED <<policy, closed, pressed, delivered, discarded>>

(* The oldest message is handed to the actor. *)
Deliver ==
  /\ queue # <<>>
  /\ delivered' = Append(delivered, Head(queue))
  /\ queue' = Tail(queue)
  /\ UNCHANGED <<policy, closed, pressed, discarded>>

(* DropNewest turns the incoming message away, and only when it is full. *)
Reject(m) ==
  /\ policy = "DropNewest"
  /\ ~closed
  /\ New(m)
  /\ Len(queue) = Limit
  /\ discarded' = discarded \cup {m}
  /\ UNCHANGED <<policy, closed, queue, pressed, delivered>>

(* An incoming message finds a DropOldest queue full. *)
Press(m) ==
  /\ policy = "DropOldest"
  /\ ~closed
  /\ New(m)
  /\ Len(queue) = Limit
  /\ pressed' = pressed \cup {m}
  /\ UNCHANGED <<policy, closed, queue, delivered, discarded>>

(* It makes the queue give up its oldest message, and no other one, or finds *)
(* the queue empty by now.  Either way it does so once each time it has      *)
(* found the queue full.                                                     *)
Evict(m) ==
  /\ m \in pressed
  /\ queue # <<>>
  /\ discarded' = discarded \cup {Head(queue)}
  /\ queue' = Tail(queue)
  /\ pressed' = pressed \ {m}
  /\ UNCHANGED <<policy, closed, delivered>>

Relent(m) ==
  /\ m \in pressed
  /\ queue = <<>>
  /\ pressed' = pressed \ {m}
  /\ UNCHANGED <<policy, closed, queue, delivered, discarded>>

QClose == /\ ~closed
          /\ closed' = TRUE
          /\ UNCHANGED <<policy, queue, pressed, delivered, discarded>>

(* A closed unbounded queue may give up its newest messages, as many as it   *)
(* likes; an open one never gives up any.                                    *)
Abandon ==
  /\ policy = "Unbounded"
  /\ closed
  /\ \E k \in 0..Len(queue) :
       /\ queue' = SubSeq(queue, 1, k)
       /\ discarded' = discarded \cup {queue[i] : i \in (k + 1)..Len(queue)}
  /\ UNCHANGED <<policy, closed, pressed, delivered>>

QNext == \/ \E m \in Messages : Accept(m) \/ Reject(m) \/ Press(m) \/ Evict(m) \/ Relent(m)
         \/ Deliver
         \/ QClose
         \/ Abandon

QSpec == QInit /\ [][QNext]_qvars
=============================================================================
