------------------------------- MODULE Mailbox -------------------------------
(* The bounded mailbox of actor-framework/mailbox.go: a Go channel of        *)
(* Capacity messages, any number of goroutines inside Enqueue, one consumer  *)
(* (the actor's run loop).  Every access to the channel and every atomic     *)
(* addition to a counter is a step of its own, so the steps of several       *)
(* senders and of the consumer interleave inside Enqueue.                    *)
EXTENDS Integers, Sequences, FiniteSets

CONSTANTS Senders,    \* goroutines that call Enqueue
          Capacity,   \* capacity of the channel
          MaxSends    \* bound: calls of Enqueue per sender

ASSUME MailboxAssumption == /\ IsFiniteSet(Senders)
                            /\ Capacity \in Nat \ {0}
                            /\ MaxSends \in Nat

VARIABLES strategy,   \* mb.strategy
          ch,         \* mb.ch, oldest message first
          closed,     \* mb.ch has been closed
          pc,         \* where each sender is inside Enqueue
          sent,       \* calls of Enqueue each sender has begun
          enqueued,   \* mb.enqueued
          dropped,    \* mb.dropped
          received,   \* history: what the consumer took from the channel
          lost,       \* history: what the strategy threw away
          fresh       \* history: senders that have drained the channel since
                      \* a message was last put into it

vars == <<strategy, ch, closed, pc, sent, enqueued, dropped, received, lost, fresh>>

Strategies == {"DropNewest", "DropOldest", "BlockSender"}
Locations  == {"idle", "send", "drain", "countNewest", "countOldest", "panicked"}
Messages   == [from : Senders, n : 1..MaxSends]

(* The message a sender is enqueuing: its sent[s]-th. *)
Current(s) == [from |-> s, n |-> sent[s]]

(* A send would block.  (len never exceeds cap in a Go channel.) *)
Full == Len(ch) = Capacity

-----------------------------------------------------------------------------
(* NewMailbox: an empty open channel and one of the three strategies. *)
Init == /\ strategy \in Strategies
        /\ ch = <<>>
        /\ closed = FALSE
        /\ pc = [s \in Senders |-> "idle"]
        /\ sent = [s \in Senders |-> 0]
        /\ enqueued = 0
        /\ dropped = 0
        /\ received = <<>>
        /\ lost = {}
        /\ fresh = {}

(* Enqueue is called and counts the message. *)
Enqueue(s) ==
  /\ pc[s] = "idle"
  /\ sent[s] < MaxSends
  /\ sent' = [sent EXCEPT ![s] = @ + 1]
  /\ enqueued' = enqueued + 1
  /\ pc' = [pc EXCEPT ![s] = "send"]
  /\ UNCHANGED <<strategy, ch, closed, dropped, received, lost, fresh>>

(* The channel takes the message, whatever the strategy.  A BlockSender for  *)
(* whom there is no room has no other step: it waits.                        *)
Send(s) ==
  /\ pc[s] = "send"
  /\ ~closed
  /\ ~Full
  /\ ch' = Append(ch, Current(s))
  /\ pc' = [pc EXCEPT ![s] = "idle"]
  /\ fresh' = {}
  /\ UNCHANGED <<strategy, closed, sent, enqueued, dropped, received, lost>>

(* Mutant: drops without looking whether there is room. *)
DropNewestAnyway(s) ==
  /\ pc[s] = "send" /\ strategy = "DropNewest" /\ ~closed
  /\ lost' = lost \cup {Current(s)}
  /\ pc' = [pc EXCEPT ![s] = "countNewest"]
  /\ UNCHANGED <<strategy, ch, closed, sent, enqueued, dropped, received, fresh>>

(* DropNewest finds the channel full: the message is gone. *)
DropNewest(s) ==
  /\ pc[s] = "send"
  /\ strategy = "DropNewest"
  /\ ~closed
  /\ Full
  /\ lost' = lost \cup {Current(s)}
  /\ pc' = [pc EXCEPT ![s] = "countNewest"]
  /\ UNCHANGED <<strategy, ch, closed, sent, enqueued, dropped, received, fresh>>

(* DropOldest finds the channel full and goes on to drain one message.       *)
DropOldest(s) ==
  /\ pc[s] = "send"
  /\ strategy = "DropOldest"
  /\ ~closed
  /\ Full
  /\ pc' = [pc EXCEPT ![s] = "drain"]
  /\ UNCHANGED <<strategy, ch, closed, sent, enqueued, dropped, received, lost, fresh>>

(* Mutant: a drained message is not counted. *)
DrainUncounted(s) ==
  /\ pc[s] = "drain" /\ ch # <<>>
  /\ lost' = lost \cup {Head(ch)}
  /\ ch' = Tail(ch)
  /\ pc' = [pc EXCEPT ![s] = "send"]
  /\ fresh' = fresh \cup {s}
  /\ UNCHANGED <<strategy, closed, sent, enqueued, dropped, received>>

(* Mutant: the inner select finds its default case ready first. *)
DrainNothing(s) ==
  /\ pc[s] = "drain"
  /\ pc' = [pc EXCEPT ![s] = "send"]
  /\ fresh' = fresh \cup {s}
  /\ UNCHANGED <<strategy, ch, closed, sent, enqueued, dropped, received, lost>>

(* The inner select of DropOldest, with whatever the channel holds by now:   *)
(* the oldest message if there is one, the zero value of a closed channel,   *)
(* or nothing.                                                               *)
Drain(s) ==
  /\ pc[s] = "drain"
  /\ \/ /\ ch # <<>>
        /\ lost' = lost \cup {Head(ch)}
        /\ ch' = Tail(ch)
        /\ pc' = [pc EXCEPT ![s] = "countOldest"]
     \/ /\ ch = <<>> /\ closed
        /\ pc' = [pc EXCEPT ![s] = "countOldest"]
        /\ UNCHANGED <<ch, lost>>
     \/ /\ ch = <<>> /\ ~closed
        /\ pc' = [pc EXCEPT ![s] = "send"]
        /\ UNCHANGED <<ch, lost>>
  /\ fresh' = fresh \cup {s}
  /\ UNCHANGED <<strategy, closed, sent, enqueued, dropped, received>>

(* Mutant: DropOldest returns after making room, without sending. *)
CountDroppedNoRetry(s) ==
  /\ pc[s] \in {"countNewest", "countOldest"}
  /\ dropped' = dropped + 1
  /\ pc' = [pc EXCEPT ![s] = "idle"]
  /\ UNCHANGED <<strategy, ch, closed, sent, enqueued, received, lost, fresh>>

(* The atomic addition to mb.dropped: DropNewest returns after it,           *)
(* DropOldest tries to send again.                                           *)
CountDropped(s) ==
  /\ pc[s] \in {"countNewest", "countOldest"}
  /\ dropped' = dropped + 1
  /\ pc' = [pc EXCEPT ![s] = IF @ = "countNewest" THEN "idle" ELSE "send"]
  /\ UNCHANGED <<strategy, ch, closed, sent, enqueued, received, lost, fresh>>

(* Go panics in a goroutine that sends on a closed channel, also in one that *)
(* was blocked when the channel was closed.                                  *)
SendOnClosed(s) ==
  /\ pc[s] = "send"
  /\ closed
  /\ pc' = [pc EXCEPT ![s] = "panicked"]
  /\ UNCHANGED <<strategy, ch, closed, sent, enqueued, dropped, received, lost, fresh>>

(* The run loop receives from C(). *)
Receive ==
  /\ ch # <<>>
  /\ received' = Append(received, Head(ch))
  /\ ch' = Tail(ch)
  /\ UNCHANGED <<strategy, closed, pc, sent, enqueued, dropped, lost, fresh>>

(* Close is called, once (a second close of a Go channel panics). *)
Close ==
  /\ ~closed
  /\ closed' = TRUE
  /\ UNCHANGED <<strategy, ch, pc, sent, enqueued, dropped, received, lost, fresh>>

EnqueueStep(s) == \/ Send(s) \/ DropNewest(s) \/ DropOldest(s) \/ Drain(s)
                  \/ CountDropped(s) \/ SendOnClosed(s)

Next == \/ \E s \in Senders : Enqueue(s) \/ EnqueueStep(s)
        \/ Receive
        \/ Close

Spec == Init /\ [][Next]_vars

-----------------------------------------------------------------------------
TypeOK == /\ strategy \in Strategies
          /\ ch \in Seq(Messages)
          /\ Len(ch) <= Capacity
          /\ closed \in BOOLEAN
          /\ pc \in [Senders -> Locations]
          /\ sent \in [Senders -> Nat]
          /\ enqueued \in Nat
          /\ dropped \in Nat
          /\ received \in Seq(Messages)
          /\ lost \in SUBSET Messages
          /\ fresh \in SUBSET Senders

(* Senders whose message is neither in the channel nor settled. *)
InFlight == {s \in Senders : pc[s] \in {"send", "drain", "countOldest", "panicked"}}
Counting == {s \in Senders : pc[s] \in {"countNewest", "countOldest"}}

(* Property: no message vanishes inside Enqueue and none is made up.  Every  *)
(* message counted by mb.enqueued is received, waiting in the channel, lost  *)
(* to the strategy, or still in the hands of a sender (mailbox.go:106-141).  *)
Conservation ==
  enqueued = Len(received) + Len(ch) + Cardinality(lost) + Cardinality(InFlight)

(* Property: mb.dropped is exactly the number of messages thrown away, up to *)
(* the senders that are about to count theirs, as long as the mailbox is     *)
(* open: this is what Stats() reports (mailbox.go:122, 135, 174-180).        *)
DroppedIsExact ==
  ~closed => Cardinality(lost) = dropped + Cardinality(Counting)

(* The messages whose senders have found the channel full and are about to   *)
(* drain it.                                                                 *)
Pressed == {Current(s) : s \in {r \in Senders : pc[r] = "drain"}}

(* The mailbox as its users see it. *)
Queue == INSTANCE MessageQueue WITH
           Limit <- Capacity, policy <- strategy, queue <- ch, pressed <- Pressed,
           delivered <- received, discarded <- lost

(* Property: all interleavings of Enqueue, of the drains of DropOldest, of   *)
(* the run loop and of Close implement the abstract queue of the strategy:   *)
(* BlockSender loses nothing, DropNewest only turns away new messages and    *)
(* only when full, DropOldest only gives up the head, once for each time a   *)
(* sender found the channel full, a closed mailbox accepts nothing, and a    *)
(* message is accepted, received or dropped once (mailbox.go:12-22,106-141). *)
ImplementsQueue == Queue!QSpec

(* Property: the loop of DropOldest makes progress: a call goes round again  *)
(* only because, since it drained the channel, some message was put into it. *)
(* So of all the calls that compete for the room one always gets through,    *)
(* however many there are and however often they call (mailbox.go:126-139).  *)
(* A single call may lose that race for ever.                                *)
RetryMeansProgress ==
  [][\A s \in Senders : pc[s] = "send" /\ pc'[s] = "drain" => s \notin fresh]_vars
=============================================================================
