--------------------------- MODULE UnboundedMailbox ---------------------------
(* The unbounded mailbox of actor-framework/mailbox.go: senders write to the *)
(* channel unboundedIn, the pump goroutine moves messages through the        *)
(* growable unboundedBuf to the channel ch, the actor's run loop reads ch.   *)
EXTENDS Integers, Sequences, FiniteSets

CONSTANTS Senders,             \* goroutines that call Enqueue
          DefaultMailboxSize,  \* capacity of both channels
          MaxSends             \* bound: calls of Enqueue per sender

ASSUME UnboundedAssumption == /\ IsFiniteSet(Senders)
                              /\ DefaultMailboxSize \in Nat \ {0}
                              /\ MaxSends \in Nat

VARIABLES unboundedIn,   \* mb.unboundedIn
          unboundedBuf,  \* mb.unboundedBuf, touched by the pump only
          ch,            \* mb.ch
          closed,        \* mb.unboundedIn has been closed
          pumping,       \* the pump goroutine has not returned
          reading,       \* the run loop still receives
          pc,            \* where each sender is inside Enqueue
          sent,          \* calls of Enqueue each sender has begun
          enqueued,      \* mb.enqueued
          received       \* history: what the run loop took

vars == <<unboundedIn, unboundedBuf, ch, closed, pumping, reading,
          pc, sent, enqueued, received>>

Messages == [from : Senders, n : 1..MaxSends]
Current(s) == [from |-> s, n |-> sent[s]]
HasRoom(c) == Len(c) < DefaultMailboxSize

-----------------------------------------------------------------------------
(* NewUnboundedMailbox: empty channels and a running pump. *)
Init == /\ unboundedIn = <<>>
        /\ unboundedBuf = <<>>
        /\ ch = <<>>
        /\ closed = FALSE
        /\ pumping = TRUE
        /\ reading = TRUE
        /\ pc = [s \in Senders |-> "idle"]
        /\ sent = [s \in Senders |-> 0]
        /\ enqueued = 0
        /\ received = <<>>

(* Enqueue is called and counts the message. *)
Enqueue(s) ==
  /\ pc[s] = "idle"
  /\ sent[s] < MaxSends
  /\ sent' = [sent EXCEPT ![s] = @ + 1]
  /\ enqueued' = enqueued + 1
  /\ pc' = [pc EXCEPT ![s] = "send"]
  /\ UNCHANGED <<unboundedIn, unboundedBuf, ch, closed, pumping, reading, received>>

(* Mutant: a full input channel drops the message. *)
SendOrDrop(s) ==
  /\ pc[s] = "send" /\ ~closed
  /\ unboundedIn' = IF HasRoom(unboundedIn) THEN Append(unboundedIn, Current(s))
                                            ELSE unboundedIn
  /\ pc' = [pc EXCEPT ![s] = "idle"]
  /\ UNCHANGED <<unboundedBuf, ch, closed, pumping, reading, sent, enqueued, received>>

(* The send to unboundedIn, which waits while that channel is full. *)
Send(s) ==
  /\ pc[s] = "send"
  /\ ~closed
  /\ HasRoom(unboundedIn)
  /\ unboundedIn' = Append(unboundedIn, Current(s))
  /\ pc' = [pc EXCEPT ![s] = "idle"]
  /\ UNCHANGED <<unboundedBuf, ch, closed, pumping, reading, sent, enqueued, received>>

(* Go panics in a goroutine that sends on a closed channel. *)
SendOnClosed(s) ==
  /\ pc[s] = "send"
  /\ closed
  /\ pc' = [pc EXCEPT ![s] = "panicked"]
  /\ UNCHANGED <<unboundedIn, unboundedBuf, ch, closed, pumping, reading,
                 sent, enqueued, received>>

(* Mutant: reads only when the buffer is empty, as if there were no second   *)
(* case in the select.                                                       *)
PumpTakeWhenEmpty ==
  /\ pumping /\ unboundedBuf = <<>> /\ unboundedIn # <<>>
  /\ unboundedBuf' = <<Head(unboundedIn)>>
  /\ unboundedIn' = Tail(unboundedIn)
  /\ UNCHANGED <<ch, closed, pumping, reading, pc, sent, enqueued, received>>

(* The pump takes a message from unboundedIn: the blocking receive of an     *)
(* empty buffer and the second case of its select do the same.               *)
PumpTake ==
  /\ pumping
  /\ unboundedIn # <<>>
  /\ unboundedBuf' = Append(unboundedBuf, Head(unboundedIn))
  /\ unboundedIn' = Tail(unboundedIn)
  /\ UNCHANGED <<ch, closed, pumping, reading, pc, sent, enqueued, received>>

(* Mutant: forwards the newest message of the buffer. *)
PumpForwardLast ==
  /\ pumping /\ unboundedBuf # <<>> /\ HasRoom(ch)
  /\ ch' = Append(ch, unboundedBuf[Len(unboundedBuf)])
  /\ unboundedBuf' = SubSeq(unboundedBuf, 1, Len(unboundedBuf) - 1)
  /\ UNCHANGED <<unboundedIn, closed, pumping, reading, pc, sent, enqueued, received>>

(* Mutant: forwards only what it has just taken, so that what stays in the   *)
(* buffer waits for the next message.                                        *)
PumpForwardOnArrival ==
  /\ pumping /\ unboundedBuf # <<>> /\ HasRoom(ch) /\ unboundedIn # <<>>
  /\ ch' = Append(ch, Head(unboundedBuf))
  /\ unboundedBuf' = Tail(unboundedBuf)
  /\ UNCHANGED <<unboundedIn, closed, pumping, reading, pc, sent, enqueued, received>>

(* The pump forwards the head of its buffer if ch has room. *)
PumpForward ==
  /\ pumping
  /\ unboundedBuf # <<>>
  /\ HasRoom(ch)
  /\ ch' = Append(ch, Head(unboundedBuf))
  /\ unboundedBuf' = Tail(unboundedBuf)
  /\ UNCHANGED <<unboundedIn, closed, pumping, reading, pc, sent, enqueued, received>>

(* unboundedIn is closed and empty: the pump returns, from either receive,   *)
(* with whatever its buffer still holds.                                     *)
PumpReturn ==
  /\ pumping
  /\ closed
  /\ unboundedIn = <<>>
  /\ pumping' = FALSE
  /\ UNCHANGED <<unboundedIn, unboundedBuf, ch, closed, reading, pc, sent,
                 enqueued, received>>

(* The run loop receives from C(). *)
Receive ==
  /\ reading
  /\ ch # <<>>
  /\ received' = Append(received, Head(ch))
  /\ ch' = Tail(ch)
  /\ UNCHANGED <<unboundedIn, unboundedBuf, closed, pumping, reading, pc, sent, enqueued>>

(* The run loop ends, or hangs in a handler, with messages still to come. *)
StopReading ==
  /\ reading
  /\ reading' = FALSE
  /\ UNCHANGED <<unboundedIn, unboundedBuf, ch, closed, pumping, pc, sent,
                 enqueued, received>>

(* Close is called, once. *)
Close ==
  /\ ~closed
  /\ closed' = TRUE
  /\ UNCHANGED <<unboundedIn, unboundedBuf, ch, pumping, reading, pc, sent,
                 enqueued, received>>

Pump == PumpTake \/ PumpForward \/ PumpReturn

Next == \/ \E s \in Senders : Enqueue(s) \/ Send(s) \/ SendOnClosed(s)
        \/ Pump
        \/ Receive \/ StopReading
        \/ Close

Spec == Init /\ [][Next]_vars

(* Goroutines that can run are scheduled.  Go's select chooses at random     *)
(* among its ready cases, so neither case of the pump's select is passed     *)
(* over forever; the run loop may still stop at any time (StopReading).      *)
FairSpec == /\ Spec
            /\ \A s \in Senders : WF_vars(Send(s) \/ SendOnClosed(s))
            /\ SF_vars(PumpTake) /\ SF_vars(PumpForward) /\ WF_vars(Pump)
            /\ WF_vars(Receive)

-----------------------------------------------------------------------------
TypeOK == /\ unboundedIn \in Seq(Messages) /\ Len(unboundedIn) <= DefaultMailboxSize
          /\ unboundedBuf \in Seq(Messages)
          /\ ch \in Seq(Messages) /\ Len(ch) <= DefaultMailboxSize
          /\ closed \in BOOLEAN
          /\ pumping \in BOOLEAN
          /\ reading \in BOOLEAN
          /\ pc \in [Senders -> {"idle", "send", "panicked"}]
          /\ sent \in [Senders -> 0..MaxSends]
          /\ enqueued \in Nat
          /\ received \in Seq(Messages)

(* All messages the mailbox holds, oldest first. *)
Held == ch \o unboundedBuf \o unboundedIn

(* What still has a way to the actor: everything held while the pump runs,   *)
(* afterwards only what is in ch.                                            *)
Reachable == IF pumping THEN Held ELSE ch
Stranded == IF pumping THEN {} ELSE {unboundedBuf[i] : i \in 1..Len(unboundedBuf)}

Queue == INSTANCE MessageQueue WITH
           Limit <- DefaultMailboxSize, policy <- "Unbounded", queue <- Reachable,
           pressed <- {}, delivered <- received, discarded <- Stranded

(* Property: two channels, a buffer and a pump in between implement one      *)
(* unbounded FIFO queue, whatever the interleaving: while it is open it      *)
(* drops nothing and duplicates nothing; after Close it accepts nothing, and *)
(* what its pump leaves behind when it returns is dropped, the newest of     *)
(* what it holds (mailbox.go:35-38 "never drops"; 77-99).                    *)
ImplementsQueue == Queue!QSpec

(* Property: no message vanishes on its way through the pump: what was       *)
(* counted by mb.enqueued is received, held, or in the hands of a sender     *)
(* that waits or that panicked on the closed mailbox (mailbox.go:106-112).   *)
Conservation ==
  enqueued = Len(received) + Len(Held) + Cardinality({s \in Senders : pc[s] # "idle"})

(* Property: Enqueue returns even if the actor never reads again: the pump   *)
(* always makes room in unboundedIn (mailbox.go:37-38 "Enqueue never         *)
(* blocks"; 110).                                                            *)
EnqueueNeverBlocks ==
  \A s \in Senders : pc[s] = "send" ~> pc[s] # "send"

(* Property: as long as the actor reads and nobody closes the mailbox, every *)
(* accepted message reaches it; none is left behind in the pump's buffer     *)
(* (mailbox.go:77-99).                                                       *)
EventuallyReceived ==
  \A m \in Messages :
     m \in Queue!Elements(Held) ~> m \in Queue!Elements(received) \/ ~reading \/ closed
=============================================================================
