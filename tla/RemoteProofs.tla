----------------------------- MODULE RemoteProofs -----------------------------
(* Proofs about Remote, for any finite set of callers, any number of calls   *)
(* and connections, any capacity and strategy of the mailbox and any         *)
(* payloads.                                                                 *)
(*                                                                           *)
(* The argument: a caller has one call at a time, a call at most one handler *)
(* and a handler puts its message into the mailbox at most once, on its way  *)
(* from "enqueue" to "select" or "ended".  As long as the handler is on its  *)
(* way the call has not returned, or has returned an error.                  *)
EXTENDS Remote, FiniteSetTheorems, SequenceTheorems, TLAPS

(* A queue of messages holds that of call i, and holds it before that of j.  *)
In(q, i)        == \E k \in 1..Len(q) : q[k].call = i
Before(q, i, j) == \E k, n \in 1..Len(q) : k < n /\ q[k].call = i /\ q[n].call = j

(* The same of everything accepted and kept: first h, then q. *)
Kept(h, q, i)     == In(h, i) \/ In(q, i)
Prior(h, q, i, j) == Before(h, i, j) \/ Before(q, i, j) \/ (In(h, i) /\ In(q, j))

(* A call has begun and a caller is inside it, or it has begun and returned. *)
Calling == \A c \in Callers :
  /\ at[c] # "idle" => calls[c] > 0
  /\ \A n \in 1..MaxCalls : LET i == <<c, n>> IN
       /\ n <= calls[c] <=> op[i] # "none"
       /\ n < calls[c] => outcome[i] # None
       /\ n > calls[c] => outcome[i] = None /\ handler[i] = "none"
       /\ n = calls[c] /\ at[c] # "idle" => outcome[i] = None
       /\ n = calls[c] /\ at[c] \in {"begin", "rpc"} => handler[i] = "none"
       /\ n = calls[c] /\ at[c] = "idle" => outcome[i] # None

(* A handler on its way has not answered, and its call has got no answer.    *)
OnItsWay == {"request", "lookup", "enqueue", "select"}
Handling == \A i \in Ids :
  /\ handler[i] \in OnItsWay => outcome[i] = None \/ outcome[i].kind = "error"
  /\ handler[i] # "ended" => response[i] = None
  /\ handler[i] = "none" => outcome[i].kind \in {"none", "error", "empty"}

(* A message in the mailbox or handled comes from a handler past "enqueue",  *)
(* and is what its caller sent.                                              *)
Sent(o, i) == IF o = "Stop" THEN "nil" ELSE PayloadOf[i[2]]
Messaging  == \A i \in Ids : Kept(handled, mailbox, i) => handler[i] \in {"select", "ended"}
Carrying   == \A k \in 1..Len(mailbox) :
                mailbox[k].payload = Transfer(Sent(op[mailbox[k].call], mailbox[k].call))

(* No message twice; of one caller a later one first only after an error. *)
Once    == \A i \in Ids : ~Prior(handled, mailbox, i, i)
Ordered == \A i, j \in Ids :
             Prior(handled, mailbox, i, j) /\ i[1] = j[1] /\ i[2] > j[2]
               => outcome[j].kind = "error"

(* A reply on its way, p, is the actor's to this very message; after "not    *)
(* found" there is no message.                                               *)
TrueReply(r, h, i, p) == r.kind = "reply" => In(h, i) /\ r.payload = p
Answering == \A i \in Ids :
  /\ replyCh[i] = None \/ replyCh[i].kind = "reply"
  /\ TrueReply(replyCh[i], handled, i, Transfer(Sent(op[i], i)))
  /\ TrueReply(response[i], handled, i, Transfer(Sent(op[i], i)))
  /\ TrueReply(outcome[i], handled, i, Transfer(Transfer(Sent(op[i], i))))
  /\ (response[i].kind = "notFound" \/ outcome[i].kind = "notFound") =>
       ~Kept(handled, mailbox, i) /\ handler[i] = "ended"

Inv == /\ TypeOK /\ Calling /\ Handling /\ Messaging /\ Carrying
       /\ Once /\ Ordered /\ Answering
-----------------------------------------------------------------------------
(* What a queue holds and in which order, after a message has been added at  *)
(* its end, and before its head was taken.                                   *)
LEMMA InAppend ==
  ASSUME NEW S, NEW q \in Seq(S), NEW m \in S
  PROVE  /\ Append(q, m) \in Seq(S)
         /\ \A i \in Ids : In(Append(q, m), i) <=> In(q, i) \/ m.call = i
         /\ \A i, j \in Ids : Before(Append(q, m), i, j) <=>
                                Before(q, i, j) \/ (In(q, i) /\ m.call = j)
<1> DEFINE p == Append(q, m)
<1>1. /\ p \in Seq(S) /\ Len(q) \in Nat /\ Len(p) = Len(q) + 1
      /\ \A k \in 1..Len(q) : k \in 1..Len(p) /\ k < Len(p) /\ p[k] = q[k]
      /\ Len(p) \in 1..Len(p) /\ p[Len(p)] = m
      /\ \A k \in 1..Len(p) : k = Len(p) \/ k \in 1..Len(q)
  OBVIOUS
<1> HIDE DEF p
<1>2. \A i \in Ids : In(p, i) <=> In(q, i) \/ m.call = i BY <1>1 DEF In
<1>3. ASSUME NEW i \in Ids, NEW j \in Ids, Before(p, i, j)
      PROVE  Before(q, i, j) \/ (In(q, i) /\ m.call = j)
  <2>1. PICK k, n \in 1..Len(p) : k < n /\ p[k].call = i /\ p[n].call = j BY <1>3 DEF Before
  <2>2. k \in 1..Len(q) /\ q[k].call = i BY <1>1, <2>1
  <2>3. CASE n = Len(p) BY <1>1, <2>1, <2>2, <2>3 DEF In
  <2>4. CASE n \in 1..Len(q) BY <1>1, <2>1, <2>2, <2>4 DEF Before
  <2> QED BY <1>1, <2>3, <2>4
<1>4. ASSUME NEW i \in Ids, NEW j \in Ids, Before(q, i, j) PROVE Before(p, i, j)
  BY <1>1, <1>4 DEF Before
<1>5. ASSUME NEW i \in Ids, NEW j \in Ids, In(q, i), m.call = j PROVE Before(p, i, j)
  BY <1>1, <1>5 DEF Before, In
<1> QED BY <1>1, <1>2, <1>3, <1>4, <1>5 DEF p

LEMMA InTail ==
  ASSUME NEW S, NEW q \in Seq(S), q # <<>>
  PROVE  /\ Tail(q) \in Seq(S) /\ Head(q) \in S
         /\ \A i \in Ids : In(q, i) <=> In(Tail(q), i) \/ Head(q).call = i
         /\ \A i, j \in Ids : Before(q, i, j) <=>
                                Before(Tail(q), i, j) \/ (Head(q).call = i /\ In(Tail(q), j))
<1> DEFINE p == Tail(q)
           m == Head(q)
<1>1. /\ p \in Seq(S) /\ m \in S /\ Len(q) \in Nat /\ Len(p) = Len(q) - 1
      /\ m = q[1] /\ 1 \in 1..Len(q)
      /\ \A k \in 1..Len(p) : k + 1 \in 1..Len(q) /\ k + 1 > 1 /\ p[k] = q[k + 1]
      /\ \A k \in 1..Len(q) : k = 1 \/ (k > 1 /\ k - 1 \in 1..Len(p) /\ q[k] = p[k - 1])
  OBVIOUS
<1> HIDE DEF p, m
<1>2. \A i \in Ids : In(q, i) <=> In(p, i) \/ m.call = i BY <1>1 DEF In
<1>3. ASSUME NEW i \in Ids, NEW j \in Ids, Before(q, i, j)
      PROVE  Before(p, i, j) \/ (m.call = i /\ In(p, j))
  <2>1. PICK k, n \in 1..Len(q) : k < n /\ q[k].call = i /\ q[n].call = j BY <1>3 DEF Before
  <2>2. n - 1 \in 1..Len(p) /\ p[n - 1].call = j BY <1>1, <2>1
  <2>3. CASE k = 1 BY <1>1, <2>1, <2>2, <2>3 DEF In
  <2>4. CASE k > 1
    <3>1. k - 1 \in 1..Len(p) /\ p[k - 1].call = i /\ k - 1 < n - 1 BY <1>1, <2>1, <2>4
    <3> QED BY <2>2, <3>1 DEF Before
  <2> QED BY <1>1, <2>3, <2>4
<1>4. ASSUME NEW i \in Ids, NEW j \in Ids, Before(p, i, j) PROVE Before(q, i, j)
  <2>1. PICK k, n \in 1..Len(p) : k < n /\ p[k].call = i /\ p[n].call = j BY <1>4 DEF Before
  <2>2. /\ k + 1 \in 1..Len(q) /\ n + 1 \in 1..Len(q) /\ k + 1 < n + 1
        /\ q[k + 1].call = i /\ q[n + 1].call = j
    BY <1>1, <2>1
  <2> QED BY <2>2 DEF Before
<1>5. ASSUME NEW i \in Ids, NEW j \in Ids, m.call = i, In(p, j) PROVE Before(q, i, j)
  <2>1. PICK n \in 1..Len(p) : p[n].call = j BY <1>5 DEF In
  <2>2. n + 1 \in 1..Len(q) /\ 1 < n + 1 /\ q[n + 1].call = j /\ q[1].call = i BY <1>1, <1>5, <2>1
  <2> QED BY <1>1, <2>2 DEF Before
<1> QED BY <1>1, <1>2, <1>3, <1>4, <1>5 DEF p, m

LEMMA InEmpty == \A i, j \in Ids : ~In(<<>>, i) /\ ~Before(<<>>, i, j)
  BY DEF In, Before

(* The history and the mailbox in a row. *)
LEMMA InConcat ==
  ASSUME NEW S, NEW h \in Seq(S), NEW q \in Seq(S)
  PROVE  /\ \A k, n \in 1..Len(h \o q) : k < n => Prior(h, q, (h \o q)[k].call, (h \o q)[n].call)
         /\ \A k \in 1..Len(h \o q) : Kept(h, q, (h \o q)[k].call)
         /\ \A i : In(h, i) => \E k \in 1..Len(h \o q) : k <= Len(h) /\ (h \o q)[k].call = i
<1> DEFINE r == h \o q
<1>1. /\ Len(h) \in Nat /\ Len(q) \in Nat /\ Len(r) = Len(h) + Len(q)
      /\ \A k \in 1..Len(r) : r[k] = IF k <= Len(h) THEN h[k] ELSE q[k - Len(h)]
  BY ConcatProperties, LenProperties
<1> HIDE DEF r
<1>2. \A k \in 1..Len(r) : \/ k \in 1..Len(h) /\ r[k] = h[k]
                           \/ k > Len(h) /\ k - Len(h) \in 1..Len(q) /\ r[k] = q[k - Len(h)]
  BY <1>1
<1>3. ASSUME NEW k \in 1..Len(r), NEW n \in 1..Len(r), k < n
      PROVE  Prior(h, q, r[k].call, r[n].call)
  <2>1. CASE n \in 1..Len(h)
    <3>1. k \in 1..Len(h) /\ r[k] = h[k] /\ r[n] = h[n] BY <1>1, <1>3, <2>1
    <3> QED BY <1>3, <2>1, <3>1 DEF Prior, Before
  <2>2. CASE k \in 1..Len(h) /\ n > Len(h)
    <3>1. r[k] = h[k] /\ n - Len(h) \in 1..Len(q) /\ r[n] = q[n - Len(h)] BY <1>1, <1>2, <2>2
    <3> QED BY <2>2, <3>1 DEF Prior, In
  <2>3. CASE k > Len(h)
    <3>1. /\ k - Len(h) \in 1..Len(q) /\ n - Len(h) \in 1..Len(q) /\ k - Len(h) < n - Len(h)
          /\ r[k] = q[k - Len(h)] /\ r[n] = q[n - Len(h)]
      BY <1>1, <1>2, <1>3, <2>3
    <3> QED BY <3>1 DEF Prior, Before
  <2> QED BY <1>1, <1>2, <2>1, <2>2, <2>3
<1>4. \A k \in 1..Len(r) : Kept(h, q, r[k].call) BY <1>2 DEF Kept, In
<1>5. \A i : In(h, i) => \E k \in 1..Len(r) : k <= Len(h) /\ r[k].call = i BY <1>1 DEF In
<1> QED BY <1>3, <1>4, <1>5 DEF r

-----------------------------------------------------------------------------
LEMMA IdForms ==
  /\ \A i \in Ids : i[1] \in Callers /\ i[2] \in 1..MaxCalls /\ i = <<i[1], i[2]>>
  /\ \A c \in Callers, n \in 1..MaxCalls :
       <<c, n>> \in Ids /\ <<c, n>>[1] = c /\ <<c, n>>[2] = n
  /\ \A c, d, n, m : <<c, n>> = <<d, m>> => c = d /\ n = m
BY DEF Ids

(* A caller inside a call is inside its last one. *)
LEMMA CurrentCall ==
  ASSUME Inv, NEW c \in Callers, at[c] # "idle"
  PROVE  /\ calls[c] \in 1..MaxCalls /\ Current(c) \in Ids /\ Current(c) = <<c, calls[c]>>
         /\ outcome[Current(c)] = None
<1>1. calls[c] \in 1..MaxCalls
  <2>1. calls[c] \in 0..MaxCalls BY DEF Inv, TypeOK
  <2>2. calls[c] > 0 BY DEF Inv, Calling
  <2> QED BY <2>1, <2>2
<1> QED BY <1>1, IdForms DEF Inv, Calling, Current

LEMMA MessageFields ==
  ASSUME Inv
  PROVE  /\ \A k \in 1..Len(mailbox) : mailbox[k] \in Messages /\ mailbox[k].call \in Ids
         /\ \A k \in 1..Len(handled) : handled[k] \in Messages /\ handled[k].call \in Ids
<1>1. mailbox \in Seq(Messages) /\ handled \in Seq(Messages) BY DEF Inv, TypeOK
<1>2. \A m \in Messages : m.call \in Ids BY DEF Messages
<1> QED BY <1>1, <1>2

LEMMA ResultFields ==
  /\ \A k : Result(k).kind = k /\ Result(k).payload = "nil"
  /\ \A q : Reply(q).kind = "reply" /\ Reply(q).payload = q
  /\ None.kind = "none" /\ None \in Results
  /\ \A k \in {"ok", "notFound", "timeout", "error", "empty"} :
       Result(k) \in Results /\ Result(k) # None
  /\ \A q \in Arrived : Reply(q) \in Results /\ Reply(q) # None
<1>1. \A k : Result(k).kind = k /\ Result(k).payload = "nil" BY DEF Result
<1>2. \A q : Reply(q).kind = "reply" /\ Reply(q).payload = q BY DEF Reply
<1>3. None.kind = "none" BY <1>1 DEF None
<1>4. \A k \in {"none", "ok", "notFound", "timeout", "error", "empty"} : Result(k) \in Results
  BY DEF Result, Results, Arrived
<1>5. \A q \in Arrived : Reply(q) \in Results BY DEF Reply, Results
<1> QED BY <1>1, <1>2, <1>3, <1>4, <1>5 DEF None

(* A call returns.  Its handler may still be on its way; then it returns an  *)
(* error.                                                                    *)
LEMMA ReturnInv ==
  ASSUME Inv, NEW c \in Callers, at[c] # "idle", NEW r \in Results, r # None,
         Return(c, r), UNCHANGED <<connVars, serverVars, actorVars>>,
         LET i == Current(c) IN
           /\ handler[i] \in OnItsWay => r.kind = "error"
           /\ handler[i] = "none" => r.kind \in {"error", "empty"}
           /\ TrueReply(r, handled, i, Transfer(Transfer(Sent(op[i], i))))
           /\ r.kind = "notFound" => ~Kept(handled, mailbox, i) /\ handler[i] = "ended"
  PROVE  Inv'
<1> DEFINE i0 == Current(c)
<1>1. i0 \in Ids /\ outcome[i0] = None /\ i0 = <<c, calls[c]>> /\ calls[c] \in 1..MaxCalls
  BY CurrentCall
<1>2. /\ UNCHANGED <<calls, op, client, dialed, open, handler, response, server, strategy,
                     mailbox, replyCh, alive, handled>>
      /\ at' = [at EXCEPT ![c] = "idle"] /\ held' = [held EXCEPT ![c] = NoClient]
      /\ outcome' = [outcome EXCEPT ![i0] = r]
  BY DEF Return, connVars, serverVars, actorVars
<1>3. /\ handler[i0] \in OnItsWay => r.kind = "error"
      /\ handler[i0] = "none" => r.kind \in {"error", "empty"}
      /\ TrueReply(r, handled, i0, Transfer(Transfer(Sent(op[i0], i0))))
      /\ r.kind = "notFound" => ~Kept(handled, mailbox, i0) /\ handler[i0] = "ended"
  OBVIOUS
<1> HIDE DEF i0
<1>4. TypeOK' 
  <2>1. at' \in [Callers -> {"idle", "begin", "rpc", "wait"}] /\ outcome' \in [Ids -> Results]
        /\ held' \in [Callers -> 0..MaxDials]
    BY <1>1, <1>2, RemoteAssumption DEF Inv, TypeOK, NoClient
  <2> QED BY <1>2, <2>1 DEF Inv, TypeOK
<1>5. /\ outcome'[i0] = r
      /\ \A i \in Ids : i # i0 => outcome'[i] = outcome[i]
      /\ at'[c] = "idle" /\ \A d \in Callers : d # c => at'[d] = at[d]
  BY <1>1, <1>2 DEF Inv, TypeOK
<1>6. Calling'
  <2> SUFFICES ASSUME NEW d \in Callers, NEW n \in 1..MaxCalls
               PROVE  LET i == <<d, n>> IN
                      /\ at'[d] # "idle" => calls[d] > 0
                      /\ n <= calls[d] <=> op[i] # "none"
                      /\ n < calls[d] => outcome'[i] # None
                      /\ n > calls[d] => outcome'[i] = None /\ handler[i] = "none"
                      /\ n = calls[d] /\ at'[d] # "idle" => outcome'[i] = None
                      /\ n = calls[d] /\ at'[d] \in {"begin", "rpc"} => handler[i] = "none"
                      /\ n = calls[d] /\ at'[d] = "idle" => outcome'[i] # None
    <3>1. \A d \in Callers : at'[d] # "idle" => calls[d] > 0 BY <1>5 DEF Inv, Calling
    <3> QED BY <1>2, <3>1 DEF Calling
  <2>1. <<d, n>> \in Ids BY IdForms
  <2>2. CASE d # c
    <3>1. <<d, n>> # i0 BY <1>1, <2>2
    <3> QED BY <1>5, <2>1, <2>2, <3>1 DEF Inv, Calling
  <2>3. CASE d = c
    <3>1. <<c, n>> = i0 <=> n = calls[c] BY <1>1
    <3>2. calls[c] \in Int /\ n \in Int BY <1>1
    <3> QED BY <1>5, <2>1, <2>3, <3>1, <3>2 DEF Inv, Calling
  <2> QED BY <2>2, <2>3
<1>7. Handling'
  BY <1>2, <1>3, <1>5 DEF Inv, Handling
<1>8. Messaging' /\ Carrying' /\ Once' BY <1>2 DEF Inv, Messaging, Carrying, Once
<1>9. Ordered' BY <1>1, <1>2, <1>5, ResultFields DEF Inv, Ordered
<1>10. Answering' BY <1>2, <1>3, <1>5 DEF Inv, Answering
<1> QED BY <1>4, <1>6, <1>7, <1>8, <1>9, <1>10 DEF Inv

(* The bound on all calls bounds those of one caller. *)
LEMMA CallBound ==
  ASSUME Inv, NEW c \in Callers, Cardinality({i \in Ids : op[i] # "none"}) < MaxCalls
  PROVE  calls[c] + 1 \in 1..MaxCalls
<1> DEFINE B == {i \in Ids : op[i] # "none"}
           N == 1..calls[c]
           f == [n \in N |-> <<c, n>>]
<1>1. calls[c] \in 0..MaxCalls /\ MaxCalls \in Nat BY RemoteAssumption DEF Inv, TypeOK
<1>2. IsFiniteSet(B)
  <2>1. IsFiniteSet(1..MaxCalls) BY <1>1, FS_Interval
  <2>2. IsFiniteSet(Ids) BY <2>1, RemoteAssumption, FS_Product DEF Ids
  <2> QED BY <2>2, FS_Subset
<1>3. IsFiniteSet(N) /\ Cardinality(N) = calls[c]
  <2>1. 1 \in Int /\ calls[c] \in Int BY <1>1
  <2>2. /\ IsFiniteSet(N)
        /\ Cardinality(N) = IF 1 > calls[c] THEN 0 ELSE calls[c] - 1 + 1
    BY <2>1, FS_Interval
  <2> HIDE DEF N
  <2> QED BY <1>1, <2>2
<1>4. f \in Injection(N, B)
  <2>1. \A n \in N : <<c, n>> \in B
    <3> SUFFICES ASSUME NEW n \in N PROVE <<c, n>> \in B OBVIOUS
    <3>1. n \in 1..MaxCalls /\ n <= calls[c] BY <1>1
    <3> QED BY <3>1, IdForms DEF Inv, Calling
  <2>2. f \in [N -> B] BY <2>1
  <2>3. \A a, b \in N : f[a] = f[b] => a = b OBVIOUS
  <2> HIDE DEF f, B, N
  <2> QED BY <2>2, <2>3 DEF Injection, IsInjective
<1>5. calls[c] <= Cardinality(B) BY <1>2, <1>3, <1>4, FS_Injection
<1>6. Cardinality(B) \in Nat BY <1>2, FS_CardinalityType
<1> QED BY <1>1, <1>5, <1>6

LEMMA CallInv ==
  ASSUME Inv, NEW c \in Callers, NEW o \in Operations, Call(c, o)
  PROVE  Inv'
<1> DEFINE i0 == <<c, calls[c] + 1>>
<1>1. /\ calls[c] + 1 \in 1..MaxCalls /\ calls[c] \in Nat /\ i0 \in Ids
  BY CallBound, IdForms, RemoteAssumption DEF Call, Inv, TypeOK
<1>2. /\ UNCHANGED <<held, outcome, client, dialed, open, handler, response, server, strategy,
                     mailbox, replyCh, alive, handled>>
      /\ calls' = [calls EXCEPT ![c] = @ + 1]
      /\ op' = [op EXCEPT ![i0] = o]
      /\ at[c] = "idle" /\ at' = [at EXCEPT ![c] = "begin"]
  BY DEF Call, connVars, serverVars, actorVars
<1>3. o \in AllOperations /\ o # "none" BY RemoteAssumption DEF AllOperations
<1> HIDE DEF i0
<1>4. TypeOK'
  <2>1. /\ calls' \in [Callers -> 0..MaxCalls] /\ op' \in [Ids -> AllOperations \cup {"none"}]
        /\ at' \in [Callers -> {"idle", "begin", "rpc", "wait"}]
    BY <1>1, <1>2, <1>3 DEF Inv, TypeOK
  <2> QED BY <1>2, <2>1 DEF Inv, TypeOK
<1>5. /\ op'[i0] = o /\ \A i \in Ids : i # i0 => op'[i] = op[i]
      /\ calls'[c] = calls[c] + 1 /\ \A d \in Callers : d # c => calls'[d] = calls[d]
      /\ at'[c] = "begin" /\ \A d \in Callers : d # c => at'[d] = at[d]
  BY <1>1, <1>2 DEF Inv, TypeOK
<1>6. Calling'
  <2>1. \A d \in Callers : at'[d] # "idle" => calls'[d] > 0 BY <1>1, <1>5 DEF Inv, Calling
  <2> SUFFICES ASSUME NEW d \in Callers, NEW n \in 1..MaxCalls
               PROVE  LET i == <<d, n>> IN
                      /\ n <= calls'[d] <=> op'[i] # "none"
                      /\ n < calls'[d] => outcome[i] # None
                      /\ n > calls'[d] => outcome[i] = None /\ handler[i] = "none"
                      /\ n = calls'[d] /\ at'[d] # "idle" => outcome[i] = None
                      /\ n = calls'[d] /\ at'[d] \in {"begin", "rpc"} => handler[i] = "none"
                      /\ n = calls'[d] /\ at'[d] = "idle" => outcome[i] # None
    BY <1>2, <2>1 DEF Calling
  <2>2. <<d, n>> \in Ids BY IdForms
  <2>3. CASE d # c
    <3>1. <<d, n>> # i0 BY <2>3 DEF i0
    <3> QED BY <1>5, <2>2, <2>3, <3>1 DEF Inv, Calling
  <2>4. CASE d = c
    <3>1. <<c, n>> = i0 <=> n = calls[c] + 1 BY DEF i0
    <3>2. n \in Int /\ calls[c] \in Int BY <1>1
    <3>3. CASE n = calls[c] + 1
      BY <1>2, <1>3, <1>5, <2>4, <3>1, <3>2, <3>3 DEF Inv, Calling
    <3>4. CASE n > calls[c] + 1
      BY <1>2, <1>3, <1>5, <2>2, <2>4, <3>1, <3>2, <3>4 DEF Inv, Calling
    <3>5. CASE n <= calls[c]
      BY <1>2, <1>3, <1>5, <2>2, <2>4, <3>1, <3>2, <3>5 DEF Inv, Calling
    <3> QED BY <3>2, <3>3, <3>4, <3>5
  <2> QED BY <2>3, <2>4
<1>7. handler[i0] = "none"
  <2>1. calls[c] + 1 > calls[c] BY <1>1
  <2> QED BY <1>1, <2>1 DEF Inv, Calling, i0
<1>8. ~Kept(handled, mailbox, i0) BY <1>1, <1>7 DEF Inv, Messaging
<1>9. Handling' /\ Messaging' /\ Once' /\ Ordered'
  BY <1>2 DEF Inv, Handling, Messaging, Once, Ordered
<1>10. Carrying'
  <2> SUFFICES ASSUME NEW k \in 1..Len(mailbox)
               PROVE  mailbox[k].payload = Transfer(Sent(op'[mailbox[k].call], mailbox[k].call))
    BY <1>2 DEF Carrying
  <2>1. mailbox[k].call \in Ids BY MessageFields
  <2>2. mailbox[k].call # i0 BY <1>8 DEF Kept, In
  <2> QED BY <1>5, <2>1, <2>2 DEF Inv, Carrying
<1>11. Answering'
  <2>1. ~In(handled, i0) BY <1>8 DEF Kept
  <2> QED BY <1>2, <1>5, <2>1 DEF Inv, Answering, TrueReply
<1> QED BY <1>4, <1>6, <1>9, <1>10, <1>11 DEF Inv

(* Whatever is sent arrives as one of the forms of Arrived. *)
LEMMA TransferArrives ==
  /\ \A q \in AllPayloads \cup Arrived : Transfer(q) \in Arrived
  /\ \A i \in Ids : \A o : Sent(o, i) \in AllPayloads \cup Arrived
<1>1. \A q \in AllPayloads \cup Arrived : Transfer(q) \in Arrived
  <2> SUFFICES ASSUME NEW q \in AllPayloads \cup Arrived PROVE Transfer(q) \in Arrived OBVIOUS
  <2>1. q \in {"registered", "unregistered", "unmarshalable", "generic", "nil"}
    BY DEF AllPayloads, Arrived
  <2>2. CASE q = "registered" BY <2>2 DEF Transfer, Arrived
  <2>3. CASE q = "unregistered" BY <2>3 DEF Transfer, Arrived
  <2>4. CASE q = "unmarshalable" BY <2>4 DEF Transfer, Arrived
  <2>5. CASE q = "generic" BY <2>5 DEF Transfer, Arrived
  <2>6. CASE q = "nil" BY <2>6 DEF Transfer, Arrived
  <2> QED BY <2>1, <2>2, <2>3, <2>4, <2>5, <2>6
<1>2. \A i \in Ids : \A o : Sent(o, i) \in AllPayloads \cup Arrived
  BY IdForms, RemoteAssumption DEF Sent, Arrived
<1> QED BY <1>1, <1>2

LEMMA UnmarshalKeepsKind ==
  ASSUME NEW r \in Results, r # None
  PROVE  /\ Unmarshal(r) \in Results /\ Unmarshal(r) # None /\ Unmarshal(r).kind = r.kind
         /\ r.kind = "reply" => Unmarshal(r).payload = Transfer(r.payload)
<1>1. CASE r.kind = "reply"
  <2>1. r.payload \in Arrived BY DEF Results
  <2>2. Transfer(r.payload) \in Arrived BY <2>1, TransferArrives
  <2>3. Unmarshal(r) = Reply(Transfer(r.payload)) BY <1>1 DEF Unmarshal
  <2> QED BY <1>1, <2>2, <2>3, ResultFields
<1>2. CASE r.kind # "reply" BY <1>2 DEF Unmarshal
<1> QED BY <1>1, <1>2

(* The ways a call returns. *)
LEMMA ReturnsInv ==
  ASSUME Inv, NEW c \in Callers,
         \/ AskTooLate(c) \/ DialFails(c) \/ RpcRefused(c) \/ RpcBroken(c)
         \/ Deadline(c) \/ RpcReturn(c)
  PROVE  Inv'
<1> DEFINE i0 == Current(c)
<1>1. at[c] # "idle" BY DEF AskTooLate, DialFails, RpcRefused, RpcBroken, Deadline, RpcReturn
<1>2. i0 \in Ids /\ i0 = <<c, calls[c]>> /\ calls[c] \in 1..MaxCalls BY <1>1, CurrentCall
<1>3. at[c] \in {"begin", "rpc"} => handler[i0] = "none" BY <1>2 DEF Inv, Calling
<1>4. UNCHANGED <<connVars, serverVars, actorVars>>
  BY DEF AskTooLate, DialFails, RpcRefused, RpcBroken, Deadline, RpcReturn
<1> HIDE DEF i0
<1>5. CASE Return(c, Result("error"))
  <2>1. /\ Result("error") \in Results /\ Result("error") # None /\ Result("error").kind = "error"
    BY ResultFields
  <2> DEFINE r == Result("error")
  <2> HIDE DEF r
  <2>2. TrueReply(r, handled, i0, Transfer(Transfer(Sent(op[i0], i0))))
    BY <2>1 DEF TrueReply, r
  <2>3. r \in Results /\ r # None /\ r.kind = "error" /\ Return(c, r) BY <1>5, <2>1 DEF r
  <2> QED BY <1>1, <1>4, <2>2, <2>3, ReturnInv DEF i0
<1>6. CASE Return(c, Result("empty")) /\ at[c] = "begin"
  <2> DEFINE r == Result("empty")
  <2>1. r \in Results /\ r # None /\ r.kind = "empty" BY ResultFields
  <2> HIDE DEF r
  <2>2. TrueReply(r, handled, i0, Transfer(Transfer(Sent(op[i0], i0)))) BY <2>1 DEF TrueReply
  <2>3. handler[i0] = "none" BY <1>3, <1>6
  <2>4. Return(c, r) BY <1>6 DEF r
  <2> QED BY <1>1, <1>4, <2>1, <2>2, <2>3, <2>4, ReturnInv DEF i0, OnItsWay
<1>7. CASE RpcReturn(c)
  <2> DEFINE q == response[i0]
             r == Unmarshal(q)
  <2>1. q # None /\ q \in Results /\ Return(c, r)
    BY <1>2, <1>7 DEF RpcReturn, Inv, TypeOK, i0
  <2>2. handler[i0] = "ended" BY <1>2, <2>1 DEF Inv, Handling
  <2>3. /\ TrueReply(q, handled, i0, Transfer(Sent(op[i0], i0)))
        /\ q.kind = "notFound" => ~Kept(handled, mailbox, i0)
    BY <1>2 DEF Inv, Answering
  <2> HIDE DEF q
  <2>4. /\ r \in Results /\ r # None /\ r.kind = q.kind
        /\ q.kind = "reply" => r.payload = Transfer(q.payload)
    BY <2>1, UnmarshalKeepsKind
  <2> HIDE DEF r
  <2>5. TrueReply(r, handled, i0, Transfer(Transfer(Sent(op[i0], i0))))
    BY <2>3, <2>4 DEF TrueReply
  <2> QED BY <1>1, <1>4, <2>1, <2>2, <2>3, <2>4, <2>5, ReturnInv DEF i0, OnItsWay
<1> QED BY <1>5, <1>6, <1>7 DEF AskTooLate, DialFails, RpcRefused, RpcBroken, Deadline

(* A caller goes on to its remote call; RpcSend gives the call its handler.  *)
LEMMA CallerMovesInv ==
  ASSUME Inv, NEW c \in Callers, GetClient(c) \/ RpcSend(c)
  PROVE  Inv'
<1> DEFINE i0 == Current(c)
<1>1. at[c] # "idle" BY DEF GetClient, RpcSend
<1>2. i0 \in Ids /\ i0 = <<c, calls[c]>> /\ calls[c] \in 1..MaxCalls /\ outcome[i0] = None
  BY <1>1, CurrentCall
<1>3. at[c] \in {"begin", "rpc"} BY DEF GetClient, RpcSend
<1>4. handler[i0] = "none" BY <1>2, <1>3 DEF Inv, Calling
<1>5. /\ UNCHANGED <<calls, op, outcome, response, server, strategy,
                     mailbox, replyCh, alive, handled>>
      /\ \/ handler' = handler /\ at' = [at EXCEPT ![c] = "rpc"]
         \/ handler' = [handler EXCEPT ![i0] = "request"] /\ at' = [at EXCEPT ![c] = "wait"]
  BY DEF GetClient, RpcSend, connVars, serverVars, actorVars
<1>6. /\ held' \in [Callers -> 0..MaxDials] /\ client' \in 0..MaxDials
      /\ dialed' \in 0..MaxDials /\ open' \subseteq 1..MaxDials
  <2>1. /\ held \in [Callers -> 0..MaxDials] /\ client \in 0..MaxDials
        /\ dialed \in 0..MaxDials /\ open \subseteq 1..MaxDials /\ MaxDials \in Nat
    BY RemoteAssumption DEF Inv, TypeOK
  <2>2. CASE RpcSend(c) BY <2>1, <2>2 DEF RpcSend, connVars
  <2>3. CASE GetClient(c)
    <3>1. client' \in 0..MaxDials /\ dialed' \in 0..MaxDials /\ open' \subseteq 1..MaxDials
      <4>1. CASE UNCHANGED connVars BY <2>1, <4>1 DEF connVars
      <4>2. CASE /\ dialed < MaxDials /\ dialed' = dialed + 1 /\ client' = dialed + 1
                 /\ open' = open \cup {dialed + 1}
        <5>1. dialed + 1 \in 1..MaxDials /\ dialed + 1 \in 0..MaxDials BY <2>1, <4>2
        <5> QED BY <2>1, <4>2, <5>1
      <4> QED BY <2>3, <4>1, <4>2 DEF GetClient
    <3>2. held' = [held EXCEPT ![c] = client'] BY <2>3 DEF GetClient
    <3> QED BY <2>1, <3>1, <3>2
  <2> QED BY <2>2, <2>3
<1> HIDE DEF i0
<1>7. /\ \A i \in Ids : i # i0 => handler'[i] = handler[i]
      /\ \A d \in Callers : d # c => at'[d] = at[d]
      /\ \/ handler'[i0] = "none" /\ at'[c] = "rpc"
         \/ handler'[i0] = "request" /\ at'[c] = "wait"
  BY <1>2, <1>4, <1>5 DEF Inv, TypeOK
<1>8. TypeOK'
  <2>1. /\ at' \in [Callers -> {"idle", "begin", "rpc", "wait"}]
        /\ handler' \in [Ids -> {"none", "request", "lookup", "enqueue", "select", "ended"}]
    BY <1>2, <1>5 DEF Inv, TypeOK
  <2> QED BY <1>5, <1>6, <2>1 DEF Inv, TypeOK
<1>9. Calling'
  <2>1. \A d \in Callers : at'[d] # "idle" => calls[d] > 0 BY <1>2, <1>7 DEF Inv, Calling
  <2> SUFFICES ASSUME NEW d \in Callers, NEW n \in 1..MaxCalls
               PROVE  LET i == <<d, n>> IN
                      /\ n <= calls[d] <=> op[i] # "none"
                      /\ n < calls[d] => outcome[i] # None
                      /\ n > calls[d] => outcome[i] = None /\ handler'[i] = "none"
                      /\ n = calls[d] /\ at'[d] # "idle" => outcome[i] = None
                      /\ n = calls[d] /\ at'[d] \in {"begin", "rpc"} => handler'[i] = "none"
                      /\ n = calls[d] /\ at'[d] = "idle" => outcome[i] # None
    BY <1>5, <2>1 DEF Calling
  <2>2. <<d, n>> \in Ids BY IdForms
  <2>3. CASE d # c
    <3>1. <<d, n>> # i0 BY <1>2, <2>3
    <3> QED BY <1>7, <2>2, <2>3, <3>1 DEF Inv, Calling
  <2>4. CASE d = c
    <3>1. <<c, n>> = i0 <=> n = calls[c] BY <1>2
    <3>2. n \in Int /\ calls[c] \in Int BY <1>2
    <3> QED BY <1>2, <1>7, <2>2, <2>4, <3>1, <3>2 DEF Inv, Calling
  <2> QED BY <2>3, <2>4
<1>10. Handling' BY <1>2, <1>4, <1>5, <1>7 DEF Inv, Handling
<1>11. ~Kept(handled, mailbox, i0) BY <1>2, <1>4 DEF Inv, Messaging
<1>12. Messaging' BY <1>5, <1>7, <1>11 DEF Inv, Messaging
<1>13. Carrying' /\ Once' /\ Ordered' BY <1>5 DEF Inv, Carrying, Once, Ordered
<1>14. Answering' BY <1>4, <1>5, <1>7 DEF Inv, Answering
<1> QED BY <1>8, <1>9, <1>10, <1>12, <1>13, <1>14 DEF Inv

-----------------------------------------------------------------------------
(* A handler goes on or ends; the mailbox and the actor stay as they are. *)
LEMMA HandlerMoves ==
  ASSUME Inv, NEW i0 \in Ids, handler[i0] \in OnItsWay,
         UNCHANGED <<clientVars, connVars, server, strategy, mailbox, alive, handled>>,
         NEW h \in OnItsWay \cup {"ended"}, handler' = [handler EXCEPT ![i0] = h],
         Kept(handled, mailbox, i0) => h \in {"select", "ended"},
         NEW r \in Results, response' = [response EXCEPT ![i0] = r],
         h # "ended" => r = None,
         TrueReply(r, handled, i0, Transfer(Sent(op[i0], i0))),
         r.kind = "notFound" => ~Kept(handled, mailbox, i0),
         replyCh' = replyCh \/ replyCh' = [replyCh EXCEPT ![i0] = None]
  PROVE  Inv'
<1>1. UNCHANGED <<calls, op, at, held, outcome, client, dialed, open, server, strategy, mailbox,
                  alive, handled>>
  BY DEF clientVars, connVars
<1>2. /\ handler'[i0] = h /\ \A i \in Ids : i # i0 => handler'[i] = handler[i]
      /\ response'[i0] = r /\ \A i \in Ids : i # i0 => response'[i] = response[i]
      /\ \A i \in Ids : replyCh'[i] = replyCh[i] \/ replyCh'[i] = None
  BY DEF Inv, TypeOK
<1>3. TypeOK'
  <2>1. /\ handler' \in [Ids -> {"none", "request", "lookup", "enqueue", "select", "ended"}]
        /\ response' \in [Ids -> Results] /\ replyCh' \in [Ids -> Results]
    BY ResultFields DEF Inv, TypeOK, OnItsWay
  <2> QED BY <1>1, <2>1 DEF Inv, TypeOK
<1>4. handler[i0] # "none" /\ handler[i0] # "ended" BY DEF OnItsWay
<1>5. Calling'
  <2>1. \A i \in Ids : handler[i] = "none" => handler'[i] = "none" BY <1>2, <1>4
  <2>2. \A c \in Callers, n \in 1..MaxCalls : <<c, n>> \in Ids BY IdForms
  <2> QED BY <1>1, <2>1, <2>2 DEF Inv, Calling
<1>6. Handling'
  <2>1. outcome[i0] = None \/ outcome[i0].kind = "error" BY DEF Inv, Handling
  <2>2. h # "none" BY DEF OnItsWay
  <2> QED BY <1>1, <1>2, <2>1, <2>2 DEF Inv, Handling
<1>7. Messaging' BY <1>1, <1>2 DEF Inv, Messaging
<1>8. Carrying' /\ Once' /\ Ordered' BY <1>1 DEF Inv, Carrying, Once, Ordered
<1>9. Answering'
  <2> SUFFICES ASSUME NEW i \in Ids
               PROVE  /\ replyCh'[i] = None \/ replyCh'[i].kind = "reply"
                      /\ TrueReply(replyCh'[i], handled, i, Transfer(Sent(op[i], i)))
                      /\ TrueReply(response'[i], handled, i, Transfer(Sent(op[i], i)))
                      /\ TrueReply(outcome[i], handled, i, Transfer(Transfer(Sent(op[i], i))))
                      /\ (response'[i].kind = "notFound" \/ outcome[i].kind = "notFound") =>
                           ~Kept(handled, mailbox, i) /\ handler'[i] = "ended"
    BY <1>1 DEF Answering
  <2>1. TrueReply(None, handled, i, Transfer(Sent(op[i], i))) BY ResultFields DEF TrueReply
  <2>2. /\ replyCh'[i] = None \/ replyCh'[i].kind = "reply"
        /\ TrueReply(replyCh'[i], handled, i, Transfer(Sent(op[i], i)))
    BY <1>2, <2>1 DEF Inv, Answering
  <2>3. TrueReply(outcome[i], handled, i, Transfer(Transfer(Sent(op[i], i))))
    BY DEF Inv, Answering
  <2>4. CASE i # i0 BY <1>2, <2>2, <2>3, <2>4 DEF Inv, Answering
  <2>5. CASE i = i0
    <3>1. outcome[i0].kind # "notFound" BY <1>4 DEF Inv, Answering
    <3>2. r.kind = "notFound" => h = "ended" BY ResultFields
    <3> QED BY <1>2, <2>2, <2>3, <2>5, <3>1, <3>2
  <2> QED BY <2>4, <2>5
<1> QED BY <1>3, <1>5, <1>6, <1>7, <1>8, <1>9 DEF Inv

(* Every step of a handler but Enqueue. *)
LEMMA HandlerStepsInv ==
  ASSUME Inv, NEW i \in Ids,
         Receive(i) \/ DropRequest(i) \/ Lookup(i) \/ AskReply(i) \/ AskTimeout(i)
  PROVE  Inv'
<1>1. /\ handler \in [Ids -> {"none", "request", "lookup", "enqueue", "select", "ended"}]
      /\ response \in [Ids -> Results] /\ replyCh \in [Ids -> Results]
  BY DEF Inv, TypeOK
<1>2. None \in Results /\ None.kind = "none" BY ResultFields
<1>3. TrueReply(None, handled, i, Transfer(Sent(op[i], i))) BY <1>2 DEF TrueReply
<1>4. CASE Receive(i) \/ DropRequest(i) \/ (Lookup(i) /\ alive # "gone")
  <2>1. /\ handler[i] \in {"request", "lookup"} /\ response' = response
        /\ UNCHANGED <<clientVars, connVars, server, strategy, mailbox, alive, handled, replyCh>>
        /\ \E h \in {"lookup", "enqueue", "ended"} : handler' = [handler EXCEPT ![i] = h]
    BY <1>4 DEF Receive, DropRequest, Lookup, actorVars
  <2>2. PICK h \in {"lookup", "enqueue", "ended"} : handler' = [handler EXCEPT ![i] = h] BY <2>1
  <2>3. response[i] = None /\ ~Kept(handled, mailbox, i) BY <2>1 DEF Inv, Handling, Messaging
  <2>4. response' = [response EXCEPT ![i] = None] BY <1>1, <2>1, <2>3
  <2>5. handler[i] \in OnItsWay /\ h \in OnItsWay \cup {"ended"} BY <2>1 DEF OnItsWay
  <2> QED BY <1>2, <1>3, <2>1, <2>2, <2>3, <2>4, <2>5, HandlerMoves
<1>5. ASSUME NEW r0 \in Results, Answer(i, r0), handler[i] \in OnItsWay,
             TrueReply(r0, handled, i, Transfer(Sent(op[i], i))),
             r0.kind = "notFound" => ~Kept(handled, mailbox, i),
             UNCHANGED <<clientVars, connVars, strategy, mailbox, alive, handled>>,
             replyCh' = replyCh \/ replyCh' = [replyCh EXCEPT ![i] = None]
      PROVE  Inv'
  <2> DEFINE r == IF outcome[i] = None THEN r0 ELSE None
  <2>1. /\ handler' = [handler EXCEPT ![i] = "ended"] /\ response' = [response EXCEPT ![i] = r]
        /\ UNCHANGED server
    BY <1>5 DEF Answer
  <2>2. /\ r \in Results /\ TrueReply(r, handled, i, Transfer(Sent(op[i], i)))
        /\ r.kind = "notFound" => ~Kept(handled, mailbox, i)
    BY <1>2, <1>3, <1>5
  <2> HIDE DEF r
  <2> QED BY <1>5, <2>1, <2>2, HandlerMoves
<1>6. CASE Lookup(i) /\ alive = "gone"
  <2> DEFINE r == IF op[i] \in Asks THEN Result("notFound") ELSE Result("ok")
  <2>1. r \in Results /\ r.kind # "reply" BY ResultFields
  <2>2. /\ handler[i] = "lookup" /\ Answer(i, r)
        /\ UNCHANGED <<clientVars, connVars, strategy, mailbox, alive, handled, replyCh>>
    BY <1>6 DEF Lookup, actorVars
  <2> HIDE DEF r
  <2>3. ~Kept(handled, mailbox, i) BY <2>2 DEF Inv, Messaging
  <2>4. TrueReply(r, handled, i, Transfer(Sent(op[i], i))) BY <2>1 DEF TrueReply
  <2>5. handler[i] \in OnItsWay BY <2>2 DEF OnItsWay
  <2> QED BY <1>5, <2>1, <2>2, <2>3, <2>4, <2>5
<1>7. CASE AskReply(i)
  <2>1. /\ handler[i] = "select" /\ replyCh[i] # None /\ Answer(i, replyCh[i])
        /\ replyCh' = [replyCh EXCEPT ![i] = None]
        /\ UNCHANGED <<clientVars, connVars, strategy, mailbox, alive, handled>>
    BY <1>7 DEF AskReply
  <2>2. /\ replyCh[i] \in Results /\ replyCh[i].kind = "reply"
        /\ TrueReply(replyCh[i], handled, i, Transfer(Sent(op[i], i)))
    BY <1>1, <2>1 DEF Inv, Answering
  <2>3. handler[i] \in OnItsWay /\ replyCh[i].kind # "notFound" BY <2>1, <2>2 DEF OnItsWay
  <2> QED BY <1>5, <2>1, <2>2, <2>3
<1>8. CASE AskTimeout(i)
  <2> DEFINE r == Result("timeout")
  <2>1. r \in Results /\ r.kind = "timeout" BY ResultFields
  <2>2. /\ handler[i] = "select" /\ Answer(i, r)
        /\ UNCHANGED <<clientVars, connVars, strategy, mailbox, alive, handled, replyCh>>
    BY <1>8 DEF AskTimeout, actorVars
  <2> HIDE DEF r
  <2>3. TrueReply(r, handled, i, Transfer(Sent(op[i], i))) BY <2>1 DEF TrueReply
  <2>4. handler[i] \in OnItsWay /\ r.kind # "notFound" BY <2>1, <2>2 DEF OnItsWay
  <2> QED BY <1>5, <2>1, <2>2, <2>3, <2>4
<1> QED BY <1>4, <1>6, <1>7, <1>8

(* What Enqueue makes of the mailbox. *)
LEMMA MailboxTakes ==
  ASSUME Inv, NEW i \in Ids, Enqueue(i)
  PROVE  /\ mailbox' \in Seq(Messages) /\ Len(mailbox') <= Capacity
         /\ \A k \in 1..Len(mailbox') :
              mailbox'[k].payload = Transfer(Sent(op[mailbox'[k].call], mailbox'[k].call))
         /\ \A j \in Ids : In(mailbox', j) => In(mailbox, j) \/ j = i
         /\ \A j, k \in Ids : Before(mailbox', j, k) =>
                                Before(mailbox, j, k) \/ (In(mailbox, j) /\ k = i)
<1> DEFINE m == [call |-> i, payload |-> Transfer(Sent(op[i], i))]
           good(q) == \A k \in 1..Len(q) : q[k].payload = Transfer(Sent(op[q[k].call], q[k].call))
<1>1. m.call = i /\ m.payload = Transfer(Sent(op[i], i)) /\ m \in Messages
  BY TransferArrives DEF Messages
<1>2. \/ ~Full /\ mailbox' = Append(mailbox, m)
      \/ mailbox' = mailbox
      \/ Full /\ mailbox' = Append(Tail(mailbox), m)
  BY DEF Enqueue, Payload, Sent
<1>3. /\ mailbox \in Seq(Messages) /\ Len(mailbox) \in Nat /\ Len(mailbox) <= Capacity
      /\ Capacity \in Nat \ {0}
  BY RemoteAssumption, LenProperties DEF Inv, TypeOK
<1>4. good(mailbox) BY DEF Inv, Carrying
<1> HIDE DEF m, good
<1>5. CASE mailbox' = mailbox BY <1>3, <1>4, <1>5 DEF good
<1>6. ASSUME NEW q \in Seq(Messages), good(q), mailbox' = Append(q, m)
      PROVE  good(mailbox')
  <2>1. /\ Len(mailbox') = Len(q) + 1 /\ Len(q) \in Nat /\ mailbox'[Len(q) + 1] = m
        /\ \A k \in 1..Len(q) : mailbox'[k] = q[k]
    BY <1>1, <1>6, AppendProperties, LenProperties
  <2> SUFFICES ASSUME NEW k \in 1..Len(mailbox')
               PROVE  mailbox'[k].payload = Transfer(Sent(op[mailbox'[k].call], mailbox'[k].call))
    BY DEF good
  <2>2. CASE k = Len(q) + 1 BY <1>1, <2>1, <2>2
  <2>3. CASE k \in 1..Len(q) BY <1>6, <2>1, <2>3 DEF good
  <2> QED BY <2>1, <2>2, <2>3
<1>7. CASE ~Full /\ mailbox' = Append(mailbox, m)
  <2>1. good(mailbox') BY <1>3, <1>4, <1>6, <1>7
  <2>2. Len(mailbox') = Len(mailbox) + 1 BY <1>1, <1>3, <1>7, AppendProperties
  <2>3. Len(mailbox) < Capacity BY <1>3, <1>7 DEF Full
  <2>4. Len(mailbox') <= Capacity BY <1>3, <2>2, <2>3
  <2>5. /\ mailbox' \in Seq(Messages)
        /\ \A j \in Ids : In(mailbox', j) => In(mailbox, j) \/ j = i
        /\ \A j, k \in Ids : Before(mailbox', j, k) =>
                               Before(mailbox, j, k) \/ (In(mailbox, j) /\ k = i)
    BY <1>1, <1>3, <1>7, InAppend
  <2> QED BY <2>1, <2>4, <2>5 DEF good
<1>8. CASE Full /\ mailbox' = Append(Tail(mailbox), m)
  <2> DEFINE q == Tail(mailbox)
  <2>1. mailbox # <<>> BY <1>3, <1>8 DEF Full
  <2>2. /\ q \in Seq(Messages) /\ Len(q) = Len(mailbox) - 1
        /\ \A k \in 1..Len(q) : q[k] = mailbox[k + 1]
    BY <1>3, <2>1, HeadTailProperties
  <2>3. /\ \A j \in Ids : In(q, j) => In(mailbox, j)
        /\ \A j, k \in Ids : Before(q, j, k) => Before(mailbox, j, k)
    BY <1>3, <2>1, InTail
  <2>4. mailbox' = Append(q, m) BY <1>8
  <2> HIDE DEF q
  <2>5. good(q)
    <3> SUFFICES ASSUME NEW k \in 1..Len(q)
                 PROVE  q[k].payload = Transfer(Sent(op[q[k].call], q[k].call))
      BY DEF good
    <3>1. k + 1 \in 1..Len(mailbox) /\ q[k] = mailbox[k + 1] BY <1>3, <2>2
    <3> QED BY <1>4, <3>1 DEF good
  <2>6. good(mailbox') BY <1>6, <2>2, <2>4, <2>5
  <2>7. Len(mailbox') = Len(q) + 1 BY <1>1, <2>2, <2>4, AppendProperties
  <2>8. Len(mailbox') <= Capacity BY <1>3, <2>2, <2>7
  <2>9. /\ mailbox' \in Seq(Messages)
        /\ \A j \in Ids : In(mailbox', j) => In(mailbox, j) \/ j = i
        /\ \A j, k \in Ids : Before(mailbox', j, k) =>
                               Before(mailbox, j, k) \/ (In(mailbox, j) /\ k = i)
    <3>1. /\ mailbox' \in Seq(Messages)
          /\ \A j \in Ids : In(mailbox', j) => In(q, j) \/ j = i
          /\ \A j, k \in Ids : Before(mailbox', j, k) => Before(q, j, k) \/ (In(q, j) /\ k = i)
      BY <1>1, <2>2, <2>4, InAppend
    <3> QED BY <2>3, <3>1
  <2> QED BY <2>6, <2>8, <2>9 DEF good
<1> QED BY <1>2, <1>5, <1>7, <1>8

(* A message reaches the mailbox once, and after a later one of its caller   *)
(* only if its call has returned an error.                                   *)
LEMMA EnqueueInv ==
  ASSUME Inv, NEW i0 \in Ids, Enqueue(i0)
  PROVE  Inv'
<1>1. /\ UNCHANGED <<calls, op, at, held, outcome, client, dialed, open, server, strategy, replyCh,
                     alive, handled>>
      /\ handler[i0] = "enqueue"
      /\ \/ handler' = [handler EXCEPT ![i0] = "select"] /\ UNCHANGED response
         \/ /\ handler' = [handler EXCEPT ![i0] = "ended"]
            /\ \E r \in {None, Result("ok")} : response' = [response EXCEPT ![i0] = r]
  BY DEF Enqueue, Answer, clientVars, connVars
<1>2. /\ mailbox' \in Seq(Messages) /\ Len(mailbox') <= Capacity
      /\ \A k \in 1..Len(mailbox') :
           mailbox'[k].payload = Transfer(Sent(op[mailbox'[k].call], mailbox'[k].call))
      /\ \A j \in Ids : In(mailbox', j) => In(mailbox, j) \/ j = i0
      /\ \A j, k \in Ids : Before(mailbox', j, k) =>
                             Before(mailbox, j, k) \/ (In(mailbox, j) /\ k = i0)
  BY MailboxTakes
<1>3. /\ \A j \in Ids : Kept(handled, mailbox', j) => Kept(handled, mailbox, j) \/ j = i0
      /\ \A j, k \in Ids : Prior(handled, mailbox', j, k) =>
           Prior(handled, mailbox, j, k) \/ (Kept(handled, mailbox, j) /\ k = i0)
  BY <1>2 DEF Kept, Prior
<1>4. /\ response[i0] = None /\ ~Kept(handled, mailbox, i0)
      /\ outcome[i0] = None \/ outcome[i0].kind = "error"
  BY <1>1 DEF Inv, Handling, Messaging, OnItsWay
<1>5. /\ Result("ok") \in Results /\ Result("ok").kind = "ok"
      /\ None \in Results /\ None.kind = "none"
  BY ResultFields
<1>6. /\ \A i \in Ids : i # i0 => handler'[i] = handler[i] /\ response'[i] = response[i]
      /\ \/ handler'[i0] = "select" /\ response'[i0] = None
         \/ handler'[i0] = "ended" /\ response'[i0] \in {None, Result("ok")}
  BY <1>1, <1>4 DEF Inv, TypeOK
<1>7. TypeOK'
  <2>1. /\ handler' \in [Ids -> {"none", "request", "lookup", "enqueue", "select", "ended"}]
        /\ response' \in [Ids -> Results]
    <3>1. /\ handler \in [Ids -> {"none", "request", "lookup", "enqueue", "select", "ended"}]
          /\ response \in [Ids -> Results]
      BY DEF Inv, TypeOK
    <3>2. \E h \in {"select", "ended"} : handler' = [handler EXCEPT ![i0] = h] BY <1>1
    <3>3. response' = response \/ \E r \in Results : response' = [response EXCEPT ![i0] = r]
      BY <1>1, <1>5
    <3> QED BY <3>1, <3>2, <3>3
  <2> QED BY <1>1, <1>2, <2>1 DEF Inv, TypeOK
<1>8. Calling'
  <2>1. \A i \in Ids : handler[i] = "none" => handler'[i] = "none" BY <1>1, <1>6
  <2>2. \A c \in Callers, n \in 1..MaxCalls : <<c, n>> \in Ids BY IdForms
  <2> QED BY <1>1, <2>1, <2>2 DEF Inv, Calling
<1>9. Handling' BY <1>1, <1>4, <1>6 DEF Inv, Handling, OnItsWay
<1>10. Messaging' BY <1>1, <1>3, <1>6 DEF Inv, Messaging
<1>11. Carrying' BY <1>1, <1>2 DEF Carrying
<1>12. Once' BY <1>1, <1>3, <1>4 DEF Inv, Once
<1>13. Ordered'
  <2> SUFFICES ASSUME NEW i \in Ids, NEW j \in Ids, Prior(handled, mailbox', i, j),
                      i[1] = j[1], i[2] > j[2]
               PROVE  outcome[j].kind = "error"
    BY <1>1 DEF Ordered
  <2>1. CASE Prior(handled, mailbox, i, j) BY <2>1 DEF Inv, Ordered
  <2>2. CASE Kept(handled, mailbox, i) /\ j = i0
    <3> DEFINE c == i[1]
    <3>1. /\ c \in Callers /\ i[2] \in 1..MaxCalls /\ j[2] \in 1..MaxCalls
          /\ i = <<c, i[2]>> /\ j = <<c, j[2]>>
      BY IdForms
    <3>2. handler[i] # "none" BY <2>2 DEF Inv, Messaging
    <3> HIDE DEF c
    <3>3. ~(i[2] > calls[c]) BY <3>1, <3>2 DEF Inv, Calling
    <3>4. calls[c] \in Int BY <3>1 DEF Inv, TypeOK
    <3>5. j[2] < calls[c] BY <3>1, <3>3, <3>4
    <3>6. outcome[j] # None BY <3>1, <3>5 DEF Inv, Calling
    <3> QED BY <1>4, <2>2, <3>6
  <2> QED BY <1>3, <2>1, <2>2
<1>14. Answering'
  <2> SUFFICES ASSUME NEW i \in Ids
               PROVE  /\ replyCh[i] = None \/ replyCh[i].kind = "reply"
                      /\ TrueReply(replyCh[i], handled, i, Transfer(Sent(op[i], i)))
                      /\ TrueReply(response'[i], handled, i, Transfer(Sent(op[i], i)))
                      /\ TrueReply(outcome[i], handled, i, Transfer(Transfer(Sent(op[i], i))))
                      /\ (response'[i].kind = "notFound" \/ outcome[i].kind = "notFound") =>
                           ~Kept(handled, mailbox', i) /\ handler'[i] = "ended"
    BY <1>1 DEF Answering
  <2>1. CASE i # i0 BY <1>3, <1>6, <2>1 DEF Inv, Answering
  <2>2. CASE i = i0
    <3>1. response'[i].kind \in {"none", "ok"} BY <1>5, <1>6, <2>2
    <3>2. TrueReply(response'[i], handled, i, Transfer(Sent(op[i], i))) BY <3>1 DEF TrueReply
    <3>3. outcome[i].kind # "notFound" BY <1>4, <1>5, <2>2
    <3> QED BY <3>1, <3>2, <3>3 DEF Inv, Answering
  <2> QED BY <2>1, <2>2
<1> QED BY <1>7, <1>8, <1>9, <1>10, <1>11, <1>12, <1>13, <1>14 DEF Inv

-----------------------------------------------------------------------------
(* The actor takes a message and perhaps replies: the row of all accepted    *)
(* messages stays as it is.                                                  *)
LEMMA TakeInv ==
  ASSUME Inv, Handle \/ HandleStop
  PROVE  Inv'
<1> DEFINE m == Head(mailbox)
           i0 == m.call
           q == Tail(mailbox)
           h == Append(handled, m)
<1>1. /\ mailbox # <<>> /\ mailbox' = q /\ handled' = h
      /\ UNCHANGED <<calls, op, at, held, outcome, client, dialed, open, handler, response, server,
                     strategy>>
      /\ replyCh' = replyCh \/ replyCh' = [replyCh EXCEPT ![i0] = Reply(m.payload)]
      /\ alive' \in {"running", "stopping"}
  BY DEF Handle, HandleStop, Take, clientVars, connVars, serverVars
<1>2. mailbox \in Seq(Messages) /\ handled \in Seq(Messages) /\ Len(mailbox) <= Capacity
      /\ Capacity \in Nat
  BY RemoteAssumption DEF Inv, TypeOK
<1>3. /\ q \in Seq(Messages) /\ m \in Messages
      /\ Len(q) = Len(mailbox) - 1 /\ Len(mailbox) \in Nat
      /\ \A k \in 1..Len(q) : q[k] = mailbox[k + 1]
      /\ m = mailbox[1] /\ 1 \in 1..Len(mailbox)
  BY <1>1, <1>2, HeadTailProperties
<1>4. i0 \in Ids /\ m.payload \in Arrived BY <1>3 DEF Messages
<1>5. /\ \A i \in Ids : In(mailbox, i) <=> In(q, i) \/ i0 = i
      /\ \A i, j \in Ids : Before(mailbox, i, j) <=> Before(q, i, j) \/ (i0 = i /\ In(q, j))
  BY <1>1, <1>2, InTail
<1> HIDE DEF q, m
<1>6. /\ h \in Seq(Messages)
      /\ \A i \in Ids : In(h, i) <=> In(handled, i) \/ i0 = i
      /\ \A i, j \in Ids : Before(h, i, j) <=> Before(handled, i, j) \/ (In(handled, i) /\ i0 = j)
  BY <1>2, <1>3, InAppend
<1> HIDE DEF h, i0
<1>7. /\ \A i \in Ids : Kept(h, q, i) <=> Kept(handled, mailbox, i)
      /\ \A i, j \in Ids : Prior(h, q, i, j) <=> Prior(handled, mailbox, i, j)
  BY <1>4, <1>5, <1>6 DEF Kept, Prior
<1>8. m.payload = Transfer(Sent(op[i0], i0)) BY <1>3 DEF Inv, Carrying, i0
<1>9. Reply(m.payload) \in Results /\ Reply(m.payload).kind = "reply" /\ Reply(m.payload).payload = m.payload
  BY <1>4, ResultFields
<1>10. TypeOK'
  <2>1. Len(q) <= Capacity BY <1>2, <1>3
  <2>2. replyCh' \in [Ids -> Results] BY <1>1, <1>4, <1>9 DEF Inv, TypeOK
  <2> QED BY <1>1, <1>3, <1>6, <2>1, <2>2 DEF Inv, TypeOK
<1>11. Calling' /\ Handling' BY <1>1 DEF Inv, Calling, Handling
<1>12. Messaging' /\ Once' /\ Ordered' BY <1>1, <1>7 DEF Inv, Messaging, Once, Ordered
<1>13. Carrying'
  <2> SUFFICES ASSUME NEW k \in 1..Len(q) PROVE q[k].payload = Transfer(Sent(op[q[k].call], q[k].call))
    BY <1>1 DEF Carrying
  <2>1. k + 1 \in 1..Len(mailbox) /\ q[k] = mailbox[k + 1] BY <1>3
  <2> QED BY <2>1 DEF Inv, Carrying
<1>14. Answering'
  <2> SUFFICES ASSUME NEW i \in Ids
               PROVE  /\ replyCh'[i] = None \/ replyCh'[i].kind = "reply"
                      /\ TrueReply(replyCh'[i], h, i, Transfer(Sent(op[i], i)))
                      /\ TrueReply(response[i], h, i, Transfer(Sent(op[i], i)))
                      /\ TrueReply(outcome[i], h, i, Transfer(Transfer(Sent(op[i], i))))
                      /\ (response[i].kind = "notFound" \/ outcome[i].kind = "notFound") =>
                           ~Kept(h, q, i) /\ handler[i] = "ended"
    BY <1>1 DEF Answering
  <2>1. /\ TrueReply(response[i], h, i, Transfer(Sent(op[i], i)))
        /\ TrueReply(outcome[i], h, i, Transfer(Transfer(Sent(op[i], i))))
    BY <1>6 DEF Inv, Answering, TrueReply
  <2>2. (response[i].kind = "notFound" \/ outcome[i].kind = "notFound") =>
          ~Kept(h, q, i) /\ handler[i] = "ended"
    BY <1>7 DEF Inv, Answering
  <2>3. CASE replyCh'[i] = replyCh[i] BY <1>6, <2>1, <2>2, <2>3 DEF Inv, Answering, TrueReply
  <2>4. CASE i = i0 /\ replyCh'[i] = Reply(m.payload)
    BY <1>4, <1>6, <1>8, <1>9, <2>1, <2>2, <2>4 DEF TrueReply
  <2>5. replyCh'[i] = replyCh[i] \/ (i = i0 /\ replyCh'[i] = Reply(m.payload))
    BY <1>1, <1>4 DEF Inv, TypeOK
  <2> QED BY <2>3, <2>4, <2>5
<1> QED BY <1>10, <1>11, <1>12, <1>13, <1>14 DEF Inv

(* The end of the actor, of a connection or of the server. *)
LEMMA OthersInv ==
  ASSUME Inv, LoopEnds \/ Remove \/ Close \/ Shutdown \/ GracefulStop \/ UNCHANGED vars
  PROVE  Inv'
<1>1. /\ UNCHANGED <<calls, op, at, held, outcome, dialed, handler, response, strategy, mailbox,
                     replyCh, handled>>
      /\ alive' \in {alive, "stopping", "gone"} /\ server' \in {server, "stopping", "stopped"}
      /\ client' \in {client, NoClient} /\ open' \subseteq open
  BY DEF LoopEnds, Remove, Close, Shutdown, GracefulStop, vars, clientVars, connVars, serverVars,
         actorVars
<1>2. TypeOK'
  <2>1. client' \in 0..MaxDials BY <1>1, RemoteAssumption DEF Inv, TypeOK, NoClient
  <2> QED BY <1>1, <2>1 DEF Inv, TypeOK
<1>3. Calling' /\ Handling' BY <1>1 DEF Inv, Calling, Handling
<1>4. Messaging' /\ Once' /\ Ordered' /\ Carrying'
  BY <1>1 DEF Inv, Messaging, Once, Ordered, Carrying
<1>5. Answering' BY <1>1 DEF Inv, Answering
<1> QED BY <1>2, <1>3, <1>4, <1>5 DEF Inv

LEMMA InvInit == Init => Inv
<1> SUFFICES ASSUME Init PROVE Inv OBVIOUS
<1>1. None \in Results /\ None.kind = "none" BY ResultFields
<1>2. /\ mailbox = <<>> /\ handled = <<>> /\ Len(mailbox) = 0
      /\ \A i \in Ids : /\ op[i] = "none" /\ outcome[i] = None /\ handler[i] = "none"
                        /\ response[i] = None /\ replyCh[i] = None
      /\ \A c \in Callers : calls[c] = 0 /\ at[c] = "idle"
  BY DEF Init
<1>3. TypeOK
  <2>1. /\ calls \in [Callers -> 0..MaxCalls] /\ held \in [Callers -> 0..MaxDials]
        /\ client \in 0..MaxDials /\ dialed \in 0..MaxDials /\ open \subseteq 1..MaxDials
    BY RemoteAssumption DEF Init, NoClient
  <2>2. /\ op \in [Ids -> AllOperations \cup {"none"}]
        /\ at \in [Callers -> {"idle", "begin", "rpc", "wait"}]
        /\ handler \in [Ids -> {"none", "request", "lookup", "enqueue", "select", "ended"}]
    BY DEF Init
  <2>3. /\ outcome \in [Ids -> Results] /\ response \in [Ids -> Results]
        /\ replyCh \in [Ids -> Results]
    BY <1>1 DEF Init
  <2>4. mailbox \in Seq(Messages) /\ Len(mailbox) <= Capacity /\ handled \in Seq(Messages)
    BY <1>2, RemoteAssumption
  <2> QED BY <2>1, <2>2, <2>3, <2>4 DEF Init, TypeOK
<1>4. Calling BY <1>2, IdForms DEF Calling
<1>5. Handling BY <1>1, <1>2 DEF Handling, OnItsWay
<1>6. \A i, j \in Ids : ~Kept(handled, mailbox, i) /\ ~Prior(handled, mailbox, i, j)
  BY <1>2, InEmpty DEF Kept, Prior
<1>7. Messaging /\ Once /\ Ordered BY <1>6 DEF Messaging, Once, Ordered
<1>8. Carrying BY <1>2 DEF Carrying
<1>9. Answering BY <1>1, <1>2 DEF Answering, TrueReply
<1> QED BY <1>3, <1>4, <1>5, <1>7, <1>8, <1>9 DEF Inv

LEMMA InvStep == Inv /\ [Next]_vars => Inv'
<1> SUFFICES ASSUME Inv, [Next]_vars PROVE Inv' OBVIOUS
<1>1. ASSUME NEW c \in Callers, CallerStep(c) PROVE Inv'
  BY <1>1, CallInv, ReturnsInv, CallerMovesInv DEF CallerStep
<1>2. ASSUME NEW i \in Ids, HandlerStep(i) PROVE Inv'
  BY <1>2, HandlerStepsInv, EnqueueInv DEF HandlerStep
<1>3. CASE ActorStep \/ LoopEnds \/ Close \/ Shutdown \/ GracefulStop \/ UNCHANGED vars
  BY <1>3, TakeInv, OthersInv DEF ActorStep
<1> QED BY <1>1, <1>2, <1>3 DEF Next

(* Theorem: for any callers, calls, strategies and payloads, a call has at   *)
(* most one handler, which answers at most once and enqueues at most once,   *)
(* while deadlines pass, connections are lost and the actor and the server   *)
(* stop (remote_ref.go:66-156, server.go:57-127).                            *)
THEOREM RemoteInvariant == Spec => []Inv
<1>1. Init => Inv BY InvInit
<1>2. Inv /\ [Next]_vars => Inv' BY InvStep
<1> QED BY <1>1, <1>2, PTL DEF Spec

(* Theorem: a message reaches the actor at most once, although calls are     *)
(* given up while their handlers run (remote_ref.go:66-123, server.go:67-127).*)
THEOREM DeliveredAtMostOnce == Spec => []AtMostOnce
<1>1. Inv => AtMostOnce
  <2> SUFFICES ASSUME Inv, NEW j \in 1..Len(Accepted), NEW k \in 1..Len(Accepted),
                      Accepted[j].call = Accepted[k].call, j < k
               PROVE  FALSE
    <3>1. handled \in Seq(Messages) /\ mailbox \in Seq(Messages) => Len(Accepted) \in Nat
      BY DEF Accepted
    <3> QED BY <3>1 DEF AtMostOnce, Inv, TypeOK
  <2>1. /\ Prior(handled, mailbox, Accepted[j].call, Accepted[k].call)
        /\ Kept(handled, mailbox, Accepted[j].call)
    BY InConcat DEF Accepted, Inv, TypeOK
  <2>2. Accepted[j].call \in Ids BY <2>1, MessageFields DEF Kept, In
  <2> QED BY <2>1, <2>2 DEF Inv, Once
<1> QED BY <1>1, RemoteInvariant, PTL

(* Theorem: messages of one caller overtake each other only if the call of   *)
(* the one that comes late returned an error (remote_ref.go:66-123).         *)
THEOREM OvertakenOnlyAfterError == Spec => []OrderUnlessError
<1>1. Inv => OrderUnlessError
  <2> SUFFICES ASSUME Inv, NEW j \in 1..Len(Accepted), NEW k \in 1..Len(Accepted), j < k,
                      Accepted[j].call[1] = Accepted[k].call[1],
                      Accepted[j].call[2] > Accepted[k].call[2]
               PROVE  outcome[Accepted[k].call].kind = "error"
    BY DEF OrderUnlessError
  <2>1. /\ Prior(handled, mailbox, Accepted[j].call, Accepted[k].call)
        /\ Kept(handled, mailbox, Accepted[j].call) /\ Kept(handled, mailbox, Accepted[k].call)
    BY InConcat DEF Accepted, Inv, TypeOK
  <2>2. Accepted[j].call \in Ids /\ Accepted[k].call \in Ids
    BY <2>1, MessageFields DEF Kept, In
  <2> QED BY <2>1, <2>2 DEF Inv, Ordered
<1> QED BY <1>1, RemoteInvariant, PTL

(* Theorem: what Ask returns is true: after a reply the actor has handled    *)
(* the message, and a registered payload has survived the journey there and  *)
(* back; after "not found" the message is nowhere (server.go:86-116,         *)
(* remote_ref.go:87-115).                                                    *)
THEOREM AnswersTellTheTruth == Spec => []AnswersAreTrue
<1>1. Inv => AnswersAreTrue
  <2> SUFFICES ASSUME Inv, NEW i \in Ids
               PROVE  LET mine == {k \in 1..Len(Accepted) : Accepted[k].call = i}
                      IN /\ outcome[i].kind = "reply" =>
                              /\ \E k \in mine : k <= Len(handled)
                              /\ Payload(i) = "registered" => outcome[i].payload = "registered"
                         /\ outcome[i].kind = "notFound" =>
                              mine = {} /\ handler[i] = "ended"
    BY DEF AnswersAreTrue
  <2>1. /\ \A k \in 1..Len(Accepted) : Kept(handled, mailbox, Accepted[k].call)
        /\ In(handled, i) => \E k \in 1..Len(Accepted) : k <= Len(handled) /\ Accepted[k].call = i
    BY InConcat DEF Accepted, Inv, TypeOK
  <2>2. /\ outcome[i].kind = "reply" =>
             In(handled, i) /\ outcome[i].payload = Transfer(Transfer(Sent(op[i], i)))
        /\ outcome[i].kind = "notFound" => ~Kept(handled, mailbox, i) /\ handler[i] = "ended"
    BY DEF Inv, Answering, TrueReply
  <2>3. Transfer("registered") = "registered" BY DEF Transfer
  <2>4. Payload(i) = Sent(op[i], i) BY DEF Payload, Sent
  <2>5. Payload(i) = "registered" => Transfer(Transfer(Sent(op[i], i))) = "registered"
    BY <2>3, <2>4
  <2> QED BY <2>1, <2>2, <2>5
<1> QED BY <1>1, RemoteInvariant, PTL
(* Theorem: every call is in one place and the actor's mailbox keeps its     *)
(* capacity (remote_ref.go:66-156, server.go:67-127).                        *)
THEOREM TypeCorrect == Spec => []TypeOK
<1>1. Inv => TypeOK BY DEF Inv
<1> QED BY <1>1, RemoteInvariant, PTL
===============================================================================
