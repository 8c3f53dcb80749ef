------------------------------- MODULE Remote -------------------------------
(* actor-framework/remote: goroutines of one process call Tell, Ask and Stop *)
(* of a shared RemoteActorRef; the gRPC server of another process runs a     *)
(* handler goroutine per call, which looks the actor up and uses its local   *)
(* reference (actor.go).  Requests and connections may be lost, deadlines    *)
(* may pass at any time and on either side, the actor may stop, the          *)
(* reference may be closed and the server shut down, all in any order.       *)
(*                                                                           *)
(* The mailbox is a queue with the guarantees of MessageQueue.  A call is    *)
(* identified by its caller and its number; a payload is abstracted to what  *)
(* its encoding depends on.                                                  *)
EXTENDS Integers, Sequences, FiniteSets

CONSTANTS Callers,     \* goroutines that use the remote reference
          MaxCalls,    \* bound: calls of all callers together
          MaxDials,    \* bound: connections the reference opens
          Capacity,    \* capacity of the actor's mailbox
          Strategies,  \* overflow strategies of the mailbox to consider
          Operations,  \* operations the callers use
          PayloadOf    \* kind of the payload of a caller's n-th call

AllOperations == {"Tell", "Ask", "AskNoDeadline", "Stop"}
AllStrategies == {"DropNewest", "DropOldest", "BlockSender"}
AllPayloads   == {"registered", "unregistered", "unmarshalable"}

ASSUME RemoteAssumption == /\ IsFiniteSet(Callers)
                           /\ MaxCalls \in Nat
                           /\ MaxDials \in Nat \ {0}
                           /\ Capacity \in Nat \ {0}
                           /\ Strategies \subseteq AllStrategies
                           /\ Operations \subseteq AllOperations
                           /\ PayloadOf \in [1..MaxCalls -> AllPayloads]

VARIABLES
  calls,     \* calls each caller has begun
  op,        \* operation of a call, "none" before it begins
  at,        \* where each caller is inside its call
  held,      \* the client getClient gave it
  client,    \* r.client, by the number of its connection
  dialed,    \* connections opened so far
  open,      \* connections that are open
  outcome,   \* what a call returned
  handler,   \* where the server's handler of a call is
  response,  \* what the handler answered
  server,    \* the gRPC server
  strategy,  \* overflow strategy of the mailbox
  mailbox,   \* the actor's mailbox
  replyCh,   \* reply channel of a call's AskEnvelope, with room for one reply
  alive,     \* the actor: "running", "stopping" (left its loop), "gone"
  handled    \* history: what the actor took from its mailbox

clientVars == <<calls, op, at, held, outcome>>
connVars   == <<client, dialed, open>>
serverVars == <<handler, response, server>>
actorVars  == <<strategy, mailbox, replyCh, alive, handled>>
vars == <<clientVars, connVars, serverVars, actorVars>>

Ids      == Callers \X (1..MaxCalls)
Current(c) == <<c, calls[c]>>
NoClient == 0
Asks     == {"Ask", "AskNoDeadline"}
Payload(i) == IF op[i] = "Stop" THEN "nil" ELSE PayloadOf[i[2]]

(* A message as JSON and back: a type decodePayload knows is rebuilt, another *)
(* one becomes a generic value, and what json.Marshal rejects becomes no      *)
(* bytes at all, hence nil.  Generic values and nil stay what they are.       *)
Transfer(p) == CASE p = "registered"    -> "registered"
                 [] p = "unregistered"  -> "generic"
                 [] p = "unmarshalable" -> "nil"
                 [] OTHER               -> p

Arrived == {"registered", "generic", "nil"}

(* A result, of the server's handler or of a call.  A reply has a payload;    *)
(* its message type is not sent.                                              *)
Result(k) == [kind |-> k, payload |-> "nil"]
Reply(p)  == [kind |-> "reply", payload |-> p]
None      == Result("none")
Results   == [kind : {"none", "ok", "reply", "notFound", "timeout", "error", "empty"},
              payload : Arrived]

-----------------------------------------------------------------------------
Init == /\ calls = [c \in Callers |-> 0]
        /\ op = [i \in Ids |-> "none"]
        /\ at = [c \in Callers |-> "idle"]
        /\ held = [c \in Callers |-> NoClient]
        /\ client = NoClient
        /\ dialed = 0
        /\ open = {}
        /\ outcome = [i \in Ids |-> None]
        /\ handler = [i \in Ids |-> "none"]
        /\ response = [i \in Ids |-> None]
        /\ server = "serving"
        /\ strategy \in Strategies
        /\ mailbox = <<>>
        /\ replyCh = [i \in Ids |-> None]
        /\ alive = "running"
        /\ handled = <<>>

-----------------------------------------------------------------------------
(* The caller. *)
Call(c, o) ==
  /\ at[c] = "idle"
  /\ Cardinality({i \in Ids : op[i] # "none"}) < MaxCalls
  /\ calls' = [calls EXCEPT ![c] = @ + 1]
  /\ op' = [op EXCEPT ![<<c, calls[c] + 1>>] = o]
  /\ at' = [at EXCEPT ![c] = "begin"]
  /\ UNCHANGED <<held, outcome, connVars, serverVars, actorVars>>

Return(c, result) ==
  /\ at' = [at EXCEPT ![c] = "idle"]
  /\ held' = [held EXCEPT ![c] = NoClient]
  /\ outcome' = [outcome EXCEPT ![Current(c)] = result]
  /\ UNCHANGED <<calls, op>>

(* Ask with less than a millisecond left returns the zero Message and        *)
(* ctx.Err(), which is nil as long as the deadline has not quite passed.     *)
AskTooLate(c) ==
  /\ at[c] = "begin"
  /\ op[Current(c)] = "Ask"
  /\ Return(c, Result("empty")) \/ Return(c, Result("error"))
  /\ UNCHANGED <<connVars, serverVars, actorVars>>

(* getClient, under r.mu: the client there is, or one with a new connection. *)
GetClient(c) ==
  /\ at[c] = "begin"
  /\ \/ client # NoClient /\ UNCHANGED connVars
     \/ /\ client = NoClient
        /\ dialed < MaxDials
        /\ dialed' = dialed + 1
        /\ client' = dialed + 1
        /\ open' = open \cup {dialed + 1}
  /\ held' = [held EXCEPT ![c] = client']
  /\ at' = [at EXCEPT ![c] = "rpc"]
  /\ UNCHANGED <<calls, op, outcome, serverVars, actorVars>>

(* grpc.NewClient rejects the target. *)
DialFails(c) ==
  /\ at[c] = "begin"
  /\ client = NoClient
  /\ Return(c, Result("error"))
  /\ UNCHANGED <<connVars, serverVars, actorVars>>

(* Close, called by a goroutine of the client's process.  (Guard: while the  *)
(* reference may still open another connection.)                             *)
Close ==
  /\ client # NoClient
  /\ dialed < MaxDials
  /\ open' = open \ {client}
  /\ client' = NoClient
  /\ UNCHANGED <<clientVars, dialed, serverVars, actorVars>>

-----------------------------------------------------------------------------
(* The call on its way.  gRPC delivers a request at most once and does not   *)
(* retry one that a server has seen; the calls of one connection are         *)
(* independent streams, served by goroutines of their own.                   *)
RpcSend(c) ==
  /\ at[c] = "rpc"
  /\ held[c] \in open
  /\ server = "serving"
  /\ handler' = [handler EXCEPT ![Current(c)] = "request"]
  /\ at' = [at EXCEPT ![c] = "wait"]
  /\ UNCHANGED <<calls, op, held, outcome, connVars, response, server, actorVars>>

(* The connection has been closed, or nobody listens. *)
RpcRefused(c) ==
  /\ at[c] = "rpc"
  /\ held[c] \notin open \/ server # "serving"
  /\ Return(c, Result("error"))
  /\ UNCHANGED <<connVars, serverVars, actorVars>>

(* Mutant: a call that failed is tried again. *)
RpcBrokenRetries(c) ==
  /\ at[c] = "wait"
  /\ at' = [at EXCEPT ![c] = "rpc"]
  /\ UNCHANGED <<calls, op, held, outcome, connVars, serverVars, actorVars>>

(* The connection is lost, and with it the answer. *)
RpcBroken(c) ==
  /\ at[c] = "wait"
  /\ Return(c, Result("error"))
  /\ UNCHANGED <<connVars, serverVars, actorVars>>

(* gRPC notices by itself that there will be no answer. *)
RpcHopeless(c) == /\ response[Current(c)] = None
                  /\ held[c] \notin open \/ handler[Current(c)] = "ended"

(* Tell gives the call 10 seconds, Ask the deadline of its context, Stop none. *)
HasDeadline(o) == o \in {"Tell", "Ask"}

(* Mutant: Tell has no deadline either. *)
DeadlineOnlyAsk(c) ==
  /\ at[c] \in {"rpc", "wait"}
  /\ op[Current(c)] = "Ask"
  /\ Return(c, Result("error"))
  /\ UNCHANGED <<connVars, serverVars, actorVars>>

(* The deadline passes: the call returns, whatever the server is doing. *)
Deadline(c) ==
  /\ at[c] \in {"rpc", "wait"}
  /\ HasDeadline(op[Current(c)])
  /\ Return(c, Result("error"))
  /\ UNCHANGED <<connVars, serverVars, actorVars>>

(* unmarshalReply decodes the payload of a reply. *)
Unmarshal(r) == IF r.kind = "reply" THEN Reply(Transfer(r.payload)) ELSE r

(* The answer arrives. *)
RpcReturn(c) ==
  /\ at[c] = "wait"
  /\ response[Current(c)] # None
  /\ Return(c, Unmarshal(response[Current(c)]))
  /\ UNCHANGED <<connVars, serverVars, actorVars>>

-----------------------------------------------------------------------------
(* The server.  An answer to a call that has returned goes nowhere. *)
Answer(i, result) ==
  /\ handler' = [handler EXCEPT ![i] = "ended"]
  /\ response' = [response EXCEPT ![i] = IF outcome[i] = None THEN result ELSE None]
  /\ UNCHANGED server

Receive(i) ==
  /\ handler[i] = "request"
  /\ server # "stopped"
  /\ handler' = [handler EXCEPT ![i] = "lookup"]
  /\ UNCHANGED <<clientVars, connVars, response, server, actorVars>>

(* A request is given up when its call has returned or the server goes away. *)
DropRequest(i) ==
  /\ handler[i] = "request"
  /\ outcome[i] # None \/ server # "serving"
  /\ handler' = [handler EXCEPT ![i] = "ended"]
  /\ UNCHANGED <<clientVars, connVars, response, server, actorVars>>

(* Mutant: a Tell is answered before its message is enqueued. *)
LookupAnswersTell(i) ==
  /\ handler[i] = "lookup"
  /\ handler' = [handler EXCEPT ![i] = "enqueue"]
  /\ response' = [response EXCEPT ![i] = IF op[i] = "Tell" THEN Result("ok") ELSE None]
  /\ UNCHANGED <<server, clientVars, connVars, actorVars>>

(* Mutant: Ask uses the last reference it has seen. *)
LookupForgiving(i) ==
  /\ handler[i] = "lookup"
  /\ handler' = [handler EXCEPT ![i] = "enqueue"]
  /\ response' = [response EXCEPT ![i] = IF alive = "gone" THEN Result("notFound") ELSE None]
  /\ UNCHANGED <<server, clientVars, connVars, actorVars>>

(* Lookup: only Ask tells its caller that there is no such actor. *)
Lookup(i) ==
  /\ handler[i] = "lookup"
  /\ \/ /\ alive # "gone"
        /\ handler' = [handler EXCEPT ![i] = "enqueue"]
        /\ UNCHANGED <<response, server>>
     \/ /\ alive = "gone"
        /\ Answer(i, IF op[i] \in Asks THEN Result("notFound") ELSE Result("ok"))
  /\ UNCHANGED <<clientVars, connVars, actorVars>>

(* The channel of the mailbox has no room. *)
Full == Len(mailbox) >= Capacity

(* ref.Tell, ref.Stop and the first half of ref.Ask: the message is queued,  *)
(* or dropped as the strategy says, or its handler waits for room.           *)
Enqueue(i) ==
  LET m == [call |-> i, payload |-> Transfer(Payload(i))]
  IN /\ handler[i] = "enqueue"
     /\ Full => strategy # "BlockSender"
     /\ mailbox' = CASE ~Full                           -> Append(mailbox, m)
                     [] Full /\ strategy = "DropNewest" -> mailbox
                     [] OTHER                           -> Append(Tail(mailbox), m)
     /\ \/ /\ op[i] \in Asks
           /\ handler' = [handler EXCEPT ![i] = "select"]
           /\ UNCHANGED <<response, server>>
        \/ op[i] \notin Asks /\ Answer(i, Result("ok"))
     /\ UNCHANGED <<clientVars, connVars, strategy, replyCh, alive, handled>>

(* The select of Ask: a reply, or the end of the time the request allows. *)
AskReply(i) ==
  /\ handler[i] = "select"
  /\ replyCh[i] # None
  /\ Answer(i, replyCh[i])
  /\ replyCh' = [replyCh EXCEPT ![i] = None]
  /\ UNCHANGED <<clientVars, connVars, strategy, mailbox, alive, handled>>

(* Mutant: the server waits as long as its client does. *)
AskWaitsForClient(i) ==
  /\ handler[i] = "select"
  /\ outcome[i] # None
  /\ Answer(i, Result("timeout"))
  /\ UNCHANGED <<clientVars, connVars, actorVars>>

(* TimeoutMs has passed (30 seconds without a deadline) or the call is over. *)
AskTimeout(i) ==
  /\ handler[i] = "select"
  /\ Answer(i, Result("timeout"))
  /\ UNCHANGED <<clientVars, connVars, actorVars>>

(* Shutdown calls GracefulStop, which returns when no handler runs. *)
Shutdown ==
  /\ server = "serving"
  /\ server' = "stopping"
  /\ UNCHANGED <<clientVars, connVars, handler, response, actorVars>>

GracefulStop ==
  /\ server = "stopping"
  /\ \A i \in Ids : handler[i] \notin {"lookup", "enqueue", "select"}
  /\ server' = "stopped"
  /\ UNCHANGED <<clientVars, connVars, handler, response, actorVars>>

-----------------------------------------------------------------------------
(* The actor.  It may answer an Ask or not; nothing else shows outside. *)
Take == /\ alive = "running"
        /\ mailbox # <<>>
        /\ mailbox' = Tail(mailbox)
        /\ handled' = Append(handled, Head(mailbox))

(* Mutant: the reply channel has no room, so a reply needs its receiver. *)
HandleUnbuffered ==
  /\ Take
  /\ LET i == Head(mailbox).call
     IN /\ op[i] # "Stop"
        /\ op[i] \in Asks => handler[i] = "select"
        /\ replyCh' = [replyCh EXCEPT ![i] = Reply(Head(mailbox).payload)]
  /\ UNCHANGED <<clientVars, connVars, serverVars, strategy, alive>>

Handle ==
  /\ Take
  /\ LET i == Head(mailbox).call
     IN /\ op[i] # "Stop"
        /\ \/ UNCHANGED replyCh
           \/ /\ op[i] \in Asks
              /\ replyCh' = [replyCh EXCEPT ![i] = Reply(Head(mailbox).payload)]
  /\ UNCHANGED <<clientVars, connVars, serverVars, strategy, alive>>

(* Stopping ends the run loop at once. *)
HandleStop ==
  /\ Take
  /\ op[Head(mailbox).call] = "Stop"
  /\ alive' = "stopping"
  /\ UNCHANGED <<clientVars, connVars, serverVars, strategy, replyCh>>

(* The run loop ends because the actor system shuts down. *)
LoopEnds ==
  /\ alive = "running"
  /\ alive' = "stopping"
  /\ UNCHANGED <<clientVars, connVars, serverVars, strategy, mailbox, replyCh, handled>>

(* OnPostStop has run and the actor is deleted from the registry. *)
Remove ==
  /\ alive = "stopping"
  /\ alive' = "gone"
  /\ UNCHANGED <<clientVars, connVars, serverVars, strategy, mailbox, replyCh, handled>>

-----------------------------------------------------------------------------
CallerStep(c) == \/ \E o \in Operations : Call(c, o)
                 \/ AskTooLate(c) \/ GetClient(c) \/ DialFails(c)
                 \/ RpcSend(c) \/ RpcRefused(c) \/ RpcBroken(c)
                 \/ Deadline(c) \/ RpcReturn(c)

HandlerStep(i) == \/ Receive(i) \/ DropRequest(i) \/ Lookup(i)
                  \/ Enqueue(i) \/ AskReply(i) \/ AskTimeout(i)

ActorStep == Handle \/ HandleStop \/ Remove

Next == \/ \E c \in Callers : CallerStep(c)
        \/ \E i \in Ids : HandlerStep(i)
        \/ ActorStep \/ LoopEnds
        \/ Close \/ Shutdown \/ GracefulStop

Spec == Init /\ [][Next]_vars

(* The scheduler runs what can run, timers fire, gRPC reports calls that     *)
(* cannot be answered; nobody has to call, to close, to shut down, and       *)
(* neither requests nor connections have to be lost.                         *)
FairSpec ==
  /\ Spec
  /\ \A c \in Callers : /\ WF_vars(GetClient(c))
                        /\ WF_vars(RpcSend(c) \/ RpcRefused(c))
                        /\ WF_vars(Deadline(c))
                        /\ WF_vars(RpcReturn(c))
                        /\ WF_vars(RpcBroken(c) /\ RpcHopeless(c))
  /\ \A i \in Ids : /\ WF_vars(Receive(i) \/ DropRequest(i))
                    /\ WF_vars(Lookup(i))
                    /\ WF_vars(Enqueue(i))
                    /\ WF_vars(AskTimeout(i))
  /\ WF_vars(ActorStep)
  /\ WF_vars(GracefulStop)

-----------------------------------------------------------------------------
Messages == [call : Ids, payload : Arrived]

(* Every variable has its type and the mailbox its capacity. *)
TypeOK ==
  /\ calls \in [Callers -> 0..MaxCalls]
  /\ op \in [Ids -> AllOperations \cup {"none"}]
  /\ at \in [Callers -> {"idle", "begin", "rpc", "wait"}]
  /\ held \in [Callers -> 0..MaxDials]
  /\ client \in 0..MaxDials
  /\ dialed \in 0..MaxDials
  /\ open \subseteq 1..MaxDials
  /\ outcome \in [Ids -> Results]
  /\ handler \in [Ids -> {"none", "request", "lookup", "enqueue", "select", "ended"}]
  /\ response \in [Ids -> Results]
  /\ server \in {"serving", "stopping", "stopped"}
  /\ strategy \in Strategies
  /\ mailbox \in Seq(Messages) /\ Len(mailbox) <= Capacity
  /\ replyCh \in [Ids -> Results]
  /\ alive \in {"running", "stopping", "gone"}
  /\ handled \in Seq(Messages)

(* Everything the mailbox accepted and kept, in order. *)
Accepted == handled \o mailbox

(* A message reaches the actor at most once, although calls are given up     *)
(* while their handlers run and new ones follow.                             *)
AtMostOnce ==
  \A j, k \in 1..Len(Accepted) : Accepted[j].call = Accepted[k].call => j = k

(* What Ask returns is true: with a reply the actor has handled this very    *)
(* message, and a payload of a registered type has come back as it was sent; *)
(* after "not found" the message is nowhere and will not be handled.         *)
AnswersAreTrue ==
  \A i \in Ids :
    LET mine == {k \in 1..Len(Accepted) : Accepted[k].call = i}
    IN /\ outcome[i].kind = "reply" =>
            /\ \E k \in mine : k <= Len(handled)
            /\ Payload(i) = "registered" => outcome[i].payload = "registered"
       /\ outcome[i].kind = "notFound" =>
            /\ mine = {}
            /\ handler[i] = "ended"

(* Messages of one caller overtake each other only if the call of the one    *)
(* that comes late returned an error: a call that returns without one has    *)
(* its message in the mailbox before the caller can go on.                   *)
OrderUnlessError ==
  \A j, k \in 1..Len(Accepted) :
    LET a == Accepted[j].call
        b == Accepted[k].call
    IN j < k /\ a[1] = b[1] /\ a[2] > b[2] => outcome[b].kind = "error"

(* The handler of a call waits, for ever, for room in the full mailbox of an *)
(* actor that has left its loop.  It enqueues before it looks at its context *)
(* (actor.go:136-143).                                                       *)
Hangs(i) == /\ handler[i] = "enqueue"
            /\ strategy = "BlockSender"
            /\ Full
            /\ alive # "running"

(* A call returns, even if the server does not answer.  The one exception is *)
(* a call without a deadline whose handler hangs.                            *)
CallsReturn ==
  \A c \in Callers :
    at[c] # "idle" ~> \/ at[c] = "idle"
                      \/ ~HasDeadline(op[Current(c)]) /\ Hangs(Current(c))

(* An asker that has given up does not hold up the actor: whatever is in the *)
(* mailbox of a running actor leaves it.                                     *)
ActorNeverStuck ==
  \A i \in Ids :
    (\E k \in 1..Len(mailbox) : mailbox[k].call = i)
      ~> (alive # "running" \/ ~ \E k \in 1..Len(mailbox) : mailbox[k].call = i)

(* Shutdown of the server returns: no handler runs for ever, even if its     *)
(* actor never replies, unless one hangs, whatever the deadline of its call. *)
GracefulStopReturns ==
  server = "stopping" ~> server = "stopped" \/ \E i \in Ids : Hangs(i)
=============================================================================
