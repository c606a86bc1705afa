----------------------------- MODULE PulsarRPC -----------------------------
(***************************************************************************)
(* PulsarRPCManager of src/agent/pulsar_rpc.py: concurrent request() calls *)
(* on one event loop, the background response loop, the asyncio lock they  *)
(* share, close(), and the Pulsar subscription 'rpc-response-subscription'.*)
(*                                                                         *)
(* A manager is one process with one event loop.  Between two awaits that  *)
(* really suspend, a coroutine runs alone, so an action is what one        *)
(* coroutine does from one suspension to the next.  An uncontended lock, a *)
(* blocking producer.send and the await of a completed future do not       *)
(* suspend.                                                                *)
(***************************************************************************)
EXTENDS Integers

CONSTANTS Mgr,        \* the managers subscribed to the response topic
          Req,        \* the calls of request(); a call's uuid is the call itself
          Owner,      \* Owner[r] is the manager whose request() runs call r
          MaxCopies,  \* bound: responses the services publish for one call
          Faults      \* which faults of the environment may happen

FaultKinds == {"send", "receive", "ack", "reconnect", "lose", "close", "cancel"}

ASSUME OwnerAssumption  == Owner \in [Req -> Mgr]
ASSUME CopiesAssumption == MaxCopies \in Nat
ASSUME FaultsAssumption == Faults \subseteq FaultKinds

(* What a response looks like to _process_responses: "ok" decodes, "badjson"
   makes json.loads fail, "undecodable" fails with another exception (the
   bytes are not UTF-8), "noid" lacks the request_id property. *)
Kinds == {"ok", "badjson", "undecodable", "noid"}

Message == [req : Req, kind : Kinds, copy : 1..MaxCopies]

VARIABLES
  pc,         \* pc[r]: where call r is suspended
  future,     \* future[r]: state of the asyncio.Future of call r
  got,        \* got[r]: the message that completed future[r]; at most one
  outcome,    \* outcome[r]: how call r ended
  pending,    \* pending[m]: keys of _pending_requests of manager m
  holder,     \* holder[m]: the call that keeps _lock across a suspension; {} if free
  loop,       \* loop[m]: where _process_responses is suspended
  inhand,     \* inhand[m]: the message the response loop works on; at most one
  orphan,     \* orphan[m]: an executor thread outlived its response loop
  mgr,        \* mgr[m]: "open", "closing" (loop cancelled) or "closed"
  sent,       \* calls whose request message reached its topic
  published,  \* every response the services have published (history)
  topic,      \* responses the subscription holds for delivery
  unacked     \* unacked[m]: responses delivered to m and not acknowledged

callVars == <<pc, future, got, outcome>>
loopVars == <<loop, inhand, orphan, mgr>>
brokerVars == <<sent, published, topic, unacked>>
vars == <<callVars, pending, holder, loopVars, brokerVars>>

TypeOK ==
  /\ pc \in [Req -> {"idle", "acquire", "waiting", "expired", "stuck", "done"}]
  /\ future \in [Req -> {"none", "pending", "result", "exception", "cancelled"}]
  /\ got \in [Req -> SUBSET Message]
  /\ outcome \in [Req -> {"none", "response", "DecodeError", "TypeError", "CancelledError"}]
  /\ pending \in [Mgr -> SUBSET Req]
  /\ holder \in [Mgr -> SUBSET Req]
  /\ loop \in [Mgr -> {"receive", "handle", "sleep", "stopped"}]
  /\ inhand \in [Mgr -> SUBSET Message]
  /\ orphan \in [Mgr -> BOOLEAN]
  /\ mgr \in [Mgr -> {"open", "closing", "closed"}]
  /\ sent \subseteq Req
  /\ published \subseteq Message
  /\ topic \subseteq Message
  /\ unacked \in [Mgr -> SUBSET Message]

(* __init__: the response task exists and the consumer is subscribed before
   the loop first runs, since __init__ does not suspend. *)
Init ==
  /\ pc = [r \in Req |-> "idle"]
  /\ future = [r \in Req |-> "none"]
  /\ got = [r \in Req |-> {}]
  /\ outcome = [r \in Req |-> "none"]
  /\ pending = [m \in Mgr |-> {}]
  /\ holder = [m \in Mgr |-> {}]
  /\ loop = [m \in Mgr |-> "receive"]
  /\ inhand = [m \in Mgr |-> {}]
  /\ orphan = [m \in Mgr |-> FALSE]
  /\ mgr = [m \in Mgr |-> "open"]
  /\ sent = {}
  /\ published = {}
  /\ topic = {}
  /\ unacked = [m \in Mgr |-> {}]

LockFree(m) == holder[m] = {}

-----------------------------------------------------------------------------
(* request() *)

(* A call starts, or goes on once the lock is free: in which order those that
   wait for it go on makes no difference, since none keeps it. *)
Enters(r) == pc[r] \in {"idle", "acquire"}

(* The call registers its future, gets its producer and sends; it suspends
   in wait_for. *)
RequestSent(r) ==
  LET m == Owner[r] IN
  /\ Enters(r)
  /\ LockFree(m)
  /\ mgr[m] # "closed"
  /\ pc' = [pc EXCEPT ![r] = "waiting"]
  /\ future' = [future EXCEPT ![r] = "pending"]
  /\ pending' = [pending EXCEPT ![m] = @ \union {r}]
  /\ sent' = sent \union {r}
  /\ UNCHANGED <<got, outcome, holder, loopVars, published, topic, unacked>>

(* create_producer, json.dumps or send raises (always on a closed client).
   The handler takes the lock, pops the call's own pending future and awaits
   it with the lock held.  A send that raised may have reached the topic. *)
RequestSendFails(r) ==
  LET m == Owner[r] IN
  /\ Enters(r)
  /\ LockFree(m)
  /\ "send" \in Faults \/ mgr[m] = "closed"
  /\ pc' = [pc EXCEPT ![r] = "stuck"]
  /\ future' = [future EXCEPT ![r] = "pending"]
  /\ holder' = [holder EXCEPT ![m] = {r}]
  /\ sent' \in {sent} \union (IF mgr[m] = "closed" THEN {} ELSE {sent \union {r}})
  /\ UNCHANGED <<got, outcome, pending, loopVars, published, topic, unacked>>

(* The lock is held by a call that gives it back only if it is cancelled: the
   new call suspends in "async with self._lock" before it has registered. *)
RequestBlocks(r) ==
  /\ pc[r] = "idle"
  /\ ~LockFree(Owner[r])
  /\ pc' = [pc EXCEPT ![r] = "acquire"]
  /\ future' = [future EXCEPT ![r] = "pending"]
  /\ UNCHANGED <<got, outcome, pending, holder, loopVars, brokerVars>>

(* Mutant: the future is awaited without a timeout. *)
TimerNeverFires(r) == FALSE /\ pc[r] = "waiting" /\ UNCHANGED vars

(* wait_for gives up after 60 seconds and cancels the future; the call runs
   again only when the cancellation has gone round the event loop.  It may also
   give up on a future that was completed a moment before, while the call has
   not yet run again (from Python 3.12 on); the response is then lost. *)
TimerFires(r) ==
  /\ pc[r] = "waiting"
  /\ future[r] \in {"pending", "result", "exception"}
  /\ pc' = [pc EXCEPT ![r] = "expired"]
  /\ future' = [future EXCEPT ![r] = IF @ = "pending" THEN "cancelled" ELSE @]
  /\ UNCHANGED <<got, outcome, pending, holder, loopVars, brokerVars>>

(* Mutant: the call returns whatever its future holds. *)
RequestReturnsAnything(r) ==
  /\ pc[r] = "waiting"
  /\ future[r] \in {"result", "exception"}
  /\ pc' = [pc EXCEPT ![r] = "done"]
  /\ outcome' = [outcome EXCEPT ![r] = "response"]
  /\ UNCHANGED <<future, got, pending, holder, loopVars, brokerVars>>

RequestReturns(r) ==
  /\ pc[r] = "waiting"
  /\ future[r] = "result"
  /\ pc' = [pc EXCEPT ![r] = "done"]
  /\ outcome' = [outcome EXCEPT ![r] = "response"]
  /\ UNCHANGED <<future, got, pending, holder, loopVars, brokerVars>>

(* "await self._pending_requests.pop(request_id, None)" under the lock: the
   await raises what a completed future holds, or TypeError on None. *)
PopAndRaise(r, raised) ==
  LET m == Owner[r] IN
  /\ LockFree(m)
  /\ pc' = [pc EXCEPT ![r] = "done"]
  /\ outcome' = [outcome EXCEPT ![r] = IF r \in pending[m] THEN raised ELSE "TypeError"]
  /\ pending' = [pending EXCEPT ![m] = @ \ {r}]
  /\ UNCHANGED <<future, got, holder, loopVars, brokerVars>>

(* except asyncio.TimeoutError *)
RequestTimesOut(r) ==
  /\ pc[r] = "expired"
  /\ PopAndRaise(r, "CancelledError")

(* except Exception, after wait_for raised the exception set on the future *)
RequestFails(r) ==
  /\ pc[r] = "waiting"
  /\ future[r] = "exception"
  /\ PopAndRaise(r, "DecodeError")

(* Mutant: the lock is given back by hand, which a cancellation skips. *)
RequestCancelledWithLock(r) ==
  /\ "cancel" \in Faults
  /\ pc[r] \in {"acquire", "waiting", "expired", "stuck"}
  /\ pc' = [pc EXCEPT ![r] = "done"]
  /\ outcome' = [outcome EXCEPT ![r] = "CancelledError"]
  /\ future' = [future EXCEPT ![r] = IF @ = "pending" /\ pc[r] # "acquire"
                                     THEN "cancelled" ELSE @]
  /\ UNCHANGED <<got, pending, holder, loopVars, brokerVars>>

(* The run of the agent is cancelled while its tool waits here.  Neither clause
   catches CancelledError: the call ends wherever it is suspended, gives back
   the lock if it holds it, and leaves its entry in the dictionary.  The future
   it awaits is cancelled with it; one that is completed stays so. *)
RequestCancelled(r) ==
  /\ "cancel" \in Faults
  /\ pc[r] \in {"acquire", "waiting", "expired", "stuck"}
  /\ pc' = [pc EXCEPT ![r] = "done"]
  /\ outcome' = [outcome EXCEPT ![r] = "CancelledError"]
  /\ future' = [future EXCEPT ![r] = IF @ = "pending" /\ pc[r] # "acquire"
                                     THEN "cancelled" ELSE @]
  /\ holder' = [holder EXCEPT ![Owner[r]] = @ \ {r}]
  /\ UNCHANGED <<got, pending, loopVars, brokerVars>>

-----------------------------------------------------------------------------
(* _process_responses *)

(* The executor thread's consumer.receive returns. *)
Receive(m, msg) ==
  /\ loop[m] = "receive"
  /\ msg \in topic
  /\ loop' = [loop EXCEPT ![m] = "handle"]
  /\ inhand' = [inhand EXCEPT ![m] = {msg}]
  /\ topic' = topic \ {msg}
  /\ unacked' = [unacked EXCEPT ![m] = @ \union {msg}]
  /\ UNCHANGED <<callVars, pending, holder, orphan, mgr, sent, published>>

(* consumer.receive raises: the outer handler logs and sleeps. *)
ReceiveFails(m) ==
  /\ "receive" \in Faults
  /\ loop[m] = "receive"
  /\ loop' = [loop EXCEPT ![m] = "sleep"]
  /\ UNCHANGED <<callVars, pending, holder, inhand, orphan, mgr, brokerVars>>

(* consumer.acknowledge(msg) and the next round of the loop, or the outer
   handler and its sleep when acknowledge raises. *)
Acknowledge(m, msg) ==
  /\ inhand' = [inhand EXCEPT ![m] = {}]
  /\ \/ /\ loop' = [loop EXCEPT ![m] = "receive"]
        /\ topic' = topic \ {msg}
        /\ unacked' = [k \in Mgr |-> unacked[k] \ {msg}]
     \/ /\ "ack" \in Faults
        /\ loop' = [loop EXCEPT ![m] = "sleep"]
        /\ UNCHANGED <<topic, unacked>>
  /\ UNCHANGED <<orphan, mgr, sent, published>>

(* "continue": the message is left unacknowledged. *)
SkipWithoutId(m, msg) ==
  /\ msg.kind = "noid"
  /\ loop' = [loop EXCEPT ![m] = "receive"]
  /\ inhand' = [inhand EXCEPT ![m] = {}]
  /\ UNCHANGED <<callVars, pending, holder, orphan, mgr, brokerVars>>

(* Mutant: a response that does not decode is skipped like one without id. *)
RejectWithoutAck(m, msg) ==
  /\ msg.kind = "badjson"
  /\ loop' = [loop EXCEPT ![m] = "receive"]
  /\ inhand' = [inhand EXCEPT ![m] = {}]
  /\ UNCHANGED <<callVars, pending, holder, orphan, mgr, brokerVars>>

(* except json.JSONDecodeError: logged; the call stays pending. *)
RejectBadJson(m, msg) ==
  /\ msg.kind = "badjson"
  /\ Acknowledge(m, msg)
  /\ UNCHANGED <<callVars, pending, holder>>

(* Mutant: the message is acknowledged without looking for its call. *)
DropAnything(m, msg) ==
  /\ msg.kind \in {"ok", "undecodable"}
  /\ LockFree(m)
  /\ Acknowledge(m, msg)
  /\ UNCHANGED <<callVars, pending, holder>>

(* Nobody here waits for this request_id. *)
DropUnknown(m, msg) ==
  /\ msg.kind \in {"ok", "undecodable"}
  /\ LockFree(m)
  /\ msg.req \notin pending[m]
  /\ Acknowledge(m, msg)
  /\ UNCHANGED <<callVars, pending, holder>>

(* Mutant: the future is looked up and not popped. *)
CompleteWithoutPop(m, msg) ==
  /\ msg.kind \in {"ok", "undecodable"}
  /\ LockFree(m)
  /\ msg.req \in pending[m]
  /\ future[msg.req] = "pending"
  /\ future' = [future EXCEPT ![msg.req] =
                  IF msg.kind = "ok" THEN "result" ELSE "exception"]
  /\ got' = [got EXCEPT ![msg.req] = {msg}]
  /\ Acknowledge(m, msg)
  /\ UNCHANGED <<pc, outcome, holder, pending>>

(* Mutant: the response completes some pending call, not the one it names. *)
CompleteSomeCall(m, msg) ==
  /\ msg.kind \in {"ok", "undecodable"}
  /\ LockFree(m)
  /\ \E r \in pending[m] :
       /\ future[r] = "pending"
       /\ pending' = [pending EXCEPT ![m] = @ \ {r}]
       /\ future' = [future EXCEPT ![r] =
                       IF msg.kind = "ok" THEN "result" ELSE "exception"]
       /\ got' = [got EXCEPT ![r] = {msg}]
  /\ Acknowledge(m, msg)
  /\ UNCHANGED <<pc, outcome, holder>>

(* pop, then set_result or set_exception on a future nobody has cancelled *)
Complete(m, msg) ==
  /\ msg.kind \in {"ok", "undecodable"}
  /\ LockFree(m)
  /\ msg.req \in pending[m]
  /\ future[msg.req] = "pending"
  /\ pending' = [pending EXCEPT ![m] = @ \ {msg.req}]
  /\ future' = [future EXCEPT ![msg.req] =
                  IF msg.kind = "ok" THEN "result" ELSE "exception"]
  /\ got' = [got EXCEPT ![msg.req] = {msg}]
  /\ Acknowledge(m, msg)
  /\ UNCHANGED <<pc, outcome, holder>>

(* Mutant: the result is stored without asking whether the future is done. *)
CompleteCancelled(m, msg) ==
  /\ msg.kind = "ok"
  /\ LockFree(m)
  /\ msg.req \in pending[m]
  /\ future[msg.req] = "cancelled"
  /\ pending' = [pending EXCEPT ![m] = @ \ {msg.req}]
  /\ future' = [future EXCEPT ![msg.req] = "result"]
  /\ got' = [got EXCEPT ![msg.req] = {msg}]
  /\ Acknowledge(m, msg)
  /\ UNCHANGED <<pc, outcome, holder>>

(* set_result on a cancelled future raises InvalidStateError, which the inner
   handler swallows: the call is no longer pending, the message is acked. *)
CompleteTooLate(m, msg) ==
  /\ msg.kind = "ok"
  /\ LockFree(m)
  /\ msg.req \in pending[m]
  /\ future[msg.req] = "cancelled"
  /\ pending' = [pending EXCEPT ![m] = @ \ {msg.req}]
  /\ Acknowledge(m, msg)
  /\ UNCHANGED <<callVars, holder>>

(* set_exception on a cancelled future raises inside the inner handler: the
   outer one sleeps and the message is never acknowledged. *)
FailTooLate(m, msg) ==
  /\ msg.kind = "undecodable"
  /\ LockFree(m)
  /\ msg.req \in pending[m]
  /\ future[msg.req] = "cancelled"
  /\ pending' = [pending EXCEPT ![m] = @ \ {msg.req}]
  /\ loop' = [loop EXCEPT ![m] = "sleep"]
  /\ inhand' = [inhand EXCEPT ![m] = {}]
  /\ UNCHANGED <<callVars, holder, orphan, mgr, brokerVars>>

Handle(m) ==
  /\ loop[m] = "handle"
  /\ \E msg \in inhand[m] :
       \/ SkipWithoutId(m, msg)
       \/ RejectBadJson(m, msg)
       \/ DropUnknown(m, msg)
       \/ Complete(m, msg)
       \/ CompleteTooLate(m, msg)
       \/ FailTooLate(m, msg)

(* asyncio.sleep(1) ends *)
WakeUp(m) ==
  /\ loop[m] = "sleep"
  /\ loop' = [loop EXCEPT ![m] = "receive"]
  /\ UNCHANGED <<callVars, pending, holder, inhand, orphan, mgr, brokerVars>>

-----------------------------------------------------------------------------
(* close() *)

(* The response task is cancelled wherever it is suspended; close() suspends
   until it has ended.  A thread blocked in receive() is not interrupted. *)
BeginClose(m) ==
  /\ "close" \in Faults
  /\ mgr[m] = "open"
  /\ mgr' = [mgr EXCEPT ![m] = "closing"]
  /\ orphan' = [orphan EXCEPT ![m] = (loop[m] = "receive")]
  /\ loop' = [loop EXCEPT ![m] = "stopped"]
  /\ inhand' = [inhand EXCEPT ![m] = {}]
  /\ UNCHANGED <<callVars, pending, holder, brokerVars>>

(* The orphaned thread takes a message that nobody will look at. *)
OrphanReceive(m, msg) ==
  /\ orphan[m]
  /\ msg \in topic
  /\ orphan' = [orphan EXCEPT ![m] = FALSE]
  /\ topic' = topic \ {msg}
  /\ unacked' = [unacked EXCEPT ![m] = @ \union {msg}]
  /\ UNCHANGED <<callVars, pending, holder, loop, inhand, mgr, sent, published>>

(* cache_clear, consumer.close and client.close: the broker takes back what
   the consumer has not acknowledged. *)
FinishClose(m) ==
  /\ mgr[m] = "closing"
  /\ mgr' = [mgr EXCEPT ![m] = "closed"]
  /\ orphan' = [orphan EXCEPT ![m] = FALSE]
  /\ topic' = topic \union unacked[m]
  /\ unacked' = [unacked EXCEPT ![m] = {}]
  /\ UNCHANGED <<callVars, pending, holder, loop, inhand, sent, published>>

-----------------------------------------------------------------------------
(* The services that answer, and the broker (external) *)

Publish(msg) ==
  /\ msg.req \in sent
  /\ \A p \in published : p.req = msg.req => p.copy # msg.copy
  /\ \A c \in 1..(msg.copy - 1) : \E p \in published : p.req = msg.req /\ p.copy = c
  /\ published' = published \union {msg}
  /\ topic' = topic \union {msg}
  /\ UNCHANGED <<callVars, pending, holder, loopVars, sent, unacked>>

(* A dropped connection: what was not acknowledged is delivered again. *)
Reconnect(m) ==
  /\ "reconnect" \in Faults
  /\ mgr[m] # "closed"
  /\ unacked[m] # {}
  /\ topic' = topic \union unacked[m]
  /\ unacked' = [unacked EXCEPT ![m] = {}]
  /\ UNCHANGED <<callVars, pending, holder, loopVars, sent, published>>

(* The response topic the operator generates is non-persistent. *)
Lose(msg) ==
  /\ "lose" \in Faults
  /\ msg \in topic
  /\ topic' = topic \ {msg}
  /\ UNCHANGED <<callVars, pending, holder, loopVars, sent, published, unacked>>

-----------------------------------------------------------------------------
Start(r) == RequestSent(r) \/ RequestSendFails(r)

Step(r) ==
  \/ RequestReturns(r) \/ RequestTimesOut(r) \/ RequestFails(r)
  \/ pc[r] = "acquire" /\ Start(r)

Request(r) == Start(r) \/ RequestBlocks(r) \/ TimerFires(r) \/ Step(r) \/ RequestCancelled(r)

Loop(m) == Handle(m) \/ ReceiveFails(m) \/ WakeUp(m) \/ \E msg \in Message : Receive(m, msg)

Close(m) == BeginClose(m) \/ FinishClose(m) \/ \E msg \in Message : OrphanReceive(m, msg)

Broker ==
  \/ \E msg \in Message : Publish(msg) \/ Lose(msg)
  \/ \E m \in Mgr : Reconnect(m)

Next ==
  \/ \E r \in Req : Request(r)
  \/ \E m \in Mgr : Loop(m) \/ Close(m)
  \/ Broker

Spec == Init /\ [][Next]_vars

(* The event loop resumes every coroutine that can run and its timers fire;
   the executor thread receives what the broker holds.  Nothing obliges a
   caller to call, a service to answer or a fault to happen. *)
Fairness ==
  /\ \A r \in Req : WF_vars(Step(r)) /\ WF_vars(TimerFires(r))
  /\ \A m \in Mgr : WF_vars(Loop(m))

FairSpec == Spec /\ Fairness
-----------------------------------------------------------------------------
(* Properties *)

(* The dictionary and the suspended calls agree: a key of _pending_requests
   is a call of this manager that still waits (or whose timeout has fired and
   who has not run since), or one that was cancelled and whose future no
   response can complete; and a call that waits on a future nobody completed
   is in the dictionary, so a response can still find it.  No call leaks its
   entry but by cancellation, and none is out of reach. *)
PendingExact ==
  /\ \A m \in Mgr : \A r \in pending[m] :
       /\ Owner[r] = m
       /\ \/ pc[r] = "waiting" /\ future[r] = "pending"
          \/ pc[r] = "expired" /\ future[r] = "cancelled"
          \/ /\ "cancel" \in Faults
             /\ outcome[r] = "CancelledError" /\ future[r] = "cancelled"
  /\ \A r \in Req :
       pc[r] = "waiting" /\ future[r] = "pending" => r \in pending[Owner[r]]

(* The lock outlives an event-loop step only in the hands of one call that
   failed to send, and is free again once that call has ended. *)
LockInv ==
  /\ \A m \in Mgr : \A r, s \in holder[m] :
       Owner[r] = m /\ pc[r] = "stuck" /\ r = s
  /\ \A r \in Req : pc[r] = "stuck" => r \in holder[Owner[r]]

(* Correlation: a call returns a decodable response published for itself,
   whatever else came through the shared subscription, and fails on an
   undecodable one only if that one was its own. *)
OwnAnswer ==
  \A r \in Req :
    /\ \A msg \in got[r] : msg.req = r /\ msg \in published
    /\ future[r] = "result" => \E msg \in got[r] : got[r] = {msg} /\ msg.kind = "ok"
    /\ future[r] = "exception" => \E msg \in got[r] : msg.kind = "undecodable"
    /\ outcome[r] = "response" => future[r] = "result"

(* The strengthening that makes the three invariants above inductive: the
   shape of a call, that the broker invents no response, that the response loop
   has one message in hand while it handles it and none otherwise, and that a
   thread is orphaned only by close(). *)
CallShape ==
  \A r \in Req :
    /\ pc[r] = "idle" => future[r] = "none" /\ r \notin sent
    /\ pc[r] = "acquire" => future[r] = "pending" /\ r \notin pending[Owner[r]]
    /\ pc[r] = "done" <=> outcome[r] # "none"
    /\ pc[r] = "waiting" => future[r] \in {"pending", "result", "exception"}
    /\ pc[r] = "stuck" => "send" \in Faults \/ mgr[Owner[r]] = "closed"

FromBroker ==
  /\ topic \subseteq published
  /\ \A m \in Mgr :
       /\ inhand[m] \subseteq published /\ unacked[m] \subseteq published
       /\ inhand[m] # {} => loop[m] = "handle"
       /\ orphan[m] => mgr[m] # "open"
       /\ \A x, y \in inhand[m] : x = y
  /\ \A msg \in published : msg.req \in sent

IInv == TypeOK /\ PendingExact /\ LockInv /\ OwnAnswer /\ CallShape /\ FromBroker

(* What call r needs to go on without any other call: its timer or its result,
   or the lock, for those that next enter "async with self._lock". *)
GoesOn(r) ==
  \/ pc[r] = "waiting" /\ future[r] \in {"pending", "result"}
  \/ /\ LockFree(Owner[r])
     /\ \/ pc[r] \in {"acquire", "expired"}
        \/ pc[r] = "waiting" /\ future[r] = "exception"

(* A call that was made can go on by itself, unless a call of its manager sits
   on the lock after a send that raised: no cancellation, timeout, lost answer
   or close() of a manager whose sends work leaves the lock taken behind it. *)
BlockedOnlyBySend ==
  \A r \in Req : pc[r] \notin {"idle", "done"} =>
    \/ GoesOn(r)
    \/ /\ "send" \in Faults \/ mgr[Owner[r]] = "closed"
       /\ \E s \in holder[Owner[r]] : pc[s] = "stuck"

(* As long as acknowledge() works, an open manager acknowledges every response
   it took that carries a request_id and is text, whoever waits for it: only
   the one in the response loop's hands is unacknowledged. *)
AnsweredIsAcked ==
  "ack" \notin Faults =>
    \A m \in Mgr : mgr[m] = "open" =>
      \A msg \in unacked[m] :
        msg.kind \in {"ok", "badjson"} => msg \in inhand[m]

(* A completed future keeps its state and its response, although the response
   loop, the timer and duplicated responses all reach for it. *)
CompletedOnce ==
  [][\A r \in Req : future[r] \in {"result", "exception", "cancelled"} =>
       future'[r] = future[r] /\ got'[r] = got[r]]_vars

Acked(m, msg) ==
  /\ msg \in inhand[m] /\ msg \notin inhand'[m]
  /\ msg \notin topic'
  /\ \A k \in Mgr : msg \notin unacked'[k]

(* However many managers share the subscription and whatever is redelivered to
   whom, a manager never consumes a decodable response without handing it to
   its own call that waits for it: only to another manager can an answer be
   lost. *)
NoAnswerDropped ==
  [][\A msg \in Message :
       /\ Acked(Owner[msg.req], msg)
       /\ mgr' = mgr
       /\ msg.kind = "ok"
       /\ pc[msg.req] = "waiting"
       /\ future[msg.req] = "pending"
       => future'[msg.req] = "result" /\ got'[msg.req] = {msg}]_vars

(* "Raises: Exception: If the request fails or times out": a call that was
   made ends, with a response or with an error. *)
EveryCallEnds == \A r \in Req : pc[r] # "idle" ~> pc[r] = "done"

(* CancelledError derives from BaseException: a caller that handles the
   documented Exception does not handle it. *)
EndsWithDocumentedException == \A r \in Req : outcome[r] # "CancelledError"

(* Every response with a request_id that is text leaves the subscription, so
   the backlog does not grow with calls that timed out. *)
Drains ==
  \A msg \in Message :
    msg \in topic /\ msg.kind \in {"ok", "badjson"}
      ~> msg \notin topic /\ \A m \in Mgr : msg \notin unacked[m]

-----------------------------------------------------------------------------
(* The calls as their callers see them *)

Visible(p, o) == CASE p = "idle" -> "idle"
                   [] p # "idle" /\ o = "none" -> "calling"
                   [] p # "idle" /\ o = "response" -> "returned"
                   [] p # "idle" /\ o \notin {"none", "response"} -> "raised"

callStatus == [r \in Req |-> Visible(pc[r], outcome[r])]

decodable == {msg \in published : msg.kind = "ok"}

returned == [r \in Req |-> IF outcome[r] = "response" THEN got[r] ELSE {}]

Abs == INSTANCE RpcCalls WITH
  Response <- {msg \in Message : msg.kind = "ok"},
  status <- callStatus,
  published <- decodable,
  reply <- returned

(* request() keeps what RpcCalls promises of it: a call ends at most once and
   returns only a decodable response published for that very call. *)
Promise == Abs!Spec

(* With a fair event loop it also promises that every call ends. *)
FairPromise == Abs!FairSpec
=============================================================================
