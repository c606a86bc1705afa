-------------------------- MODULE PulsarRPC_proofs --------------------------
(* Theorems about PulsarRPC, for any managers, calls, bounds and faults. *)
EXTENDS PulsarRPC, TLAPS

USE OwnerAssumption, CopiesAssumption DEF Message, Kinds

(* A new manager: nothing pending, nobody holds the lock (pulsar_rpc.py:18-60). *)
LEMMA InitIInv == Init => IInv
BY DEF Init, IInv, TypeOK, PendingExact, LockInv, OwnAnswer, CallShape, FromBroker, LockFree

(* A call's own steps preserve the invariant. *)
LEMMA RequestIInv == ASSUME NEW r \in Req, IInv, Request(r) PROVE IInv'
<1> USE DEF LockFree, Enters, callVars, loopVars, brokerVars
<1>1. CASE RequestSent(r)
  <2>1. TypeOK' BY <1>1 DEF IInv, TypeOK, RequestSent
  <2>2. PendingExact' BY <1>1 DEF IInv, TypeOK, PendingExact, CallShape, RequestSent
  <2>3. LockInv' BY <1>1 DEF IInv, TypeOK, LockInv, RequestSent
  <2>4. OwnAnswer' BY <1>1 DEF IInv, TypeOK, OwnAnswer, CallShape, RequestSent
  <2>5. CallShape' BY <1>1 DEF IInv, TypeOK, CallShape, RequestSent
  <2>6. FromBroker' BY <1>1 DEF IInv, TypeOK, FromBroker, RequestSent
  <2> QED BY <2>1, <2>2, <2>3, <2>4, <2>5, <2>6 DEF IInv
<1>2. CASE RequestSendFails(r)
  <2>1. TypeOK' BY <1>2 DEF IInv, TypeOK, RequestSendFails
  <2>2. PendingExact' BY <1>2 DEF IInv, TypeOK, PendingExact, CallShape, RequestSendFails
  <2>3. LockInv' BY <1>2 DEF IInv, TypeOK, LockInv, RequestSendFails
  <2>4. OwnAnswer' BY <1>2 DEF IInv, TypeOK, OwnAnswer, CallShape, RequestSendFails
  <2>5. CallShape' BY <1>2 DEF IInv, TypeOK, CallShape, RequestSendFails
  <2>6. FromBroker' BY <1>2 DEF IInv, TypeOK, FromBroker, RequestSendFails
  <2> QED BY <2>1, <2>2, <2>3, <2>4, <2>5, <2>6 DEF IInv
<1>3. CASE RequestBlocks(r)
  <2>1. TypeOK' BY <1>3 DEF IInv, TypeOK, RequestBlocks
  <2>2. PendingExact' BY <1>3 DEF IInv, TypeOK, PendingExact, CallShape, RequestBlocks
  <2>3. LockInv' BY <1>3 DEF IInv, TypeOK, LockInv, RequestBlocks
  <2>4. OwnAnswer' BY <1>3 DEF IInv, TypeOK, OwnAnswer, CallShape, RequestBlocks
  <2>5. CallShape' BY <1>3 DEF IInv, TypeOK, PendingExact, CallShape, RequestBlocks
  <2>6. FromBroker' BY <1>3 DEF IInv, TypeOK, FromBroker, RequestBlocks
  <2> QED BY <2>1, <2>2, <2>3, <2>4, <2>5, <2>6 DEF IInv
<1>4. CASE TimerFires(r)
  <2>1. TypeOK' BY <1>4 DEF IInv, TypeOK, TimerFires
  <2>2. PendingExact' BY <1>4 DEF IInv, TypeOK, PendingExact, TimerFires
  <2>3. LockInv' BY <1>4 DEF IInv, TypeOK, LockInv, TimerFires
  <2>4. OwnAnswer' BY <1>4 DEF IInv, TypeOK, OwnAnswer, TimerFires
  <2>5. CallShape' BY <1>4 DEF IInv, TypeOK, CallShape, TimerFires
  <2>6. FromBroker' BY <1>4 DEF IInv, TypeOK, FromBroker, TimerFires
  <2> QED BY <2>1, <2>2, <2>3, <2>4, <2>5, <2>6 DEF IInv
<1>5. CASE RequestReturns(r)
  <2>1. TypeOK' BY <1>5 DEF IInv, TypeOK, RequestReturns
  <2>2. PendingExact' BY <1>5 DEF IInv, TypeOK, PendingExact, RequestReturns
  <2>3. LockInv' BY <1>5 DEF IInv, TypeOK, LockInv, RequestReturns
  <2>4. OwnAnswer' BY <1>5 DEF IInv, TypeOK, OwnAnswer, RequestReturns
  <2>5. CallShape' BY <1>5 DEF IInv, TypeOK, CallShape, RequestReturns
  <2>6. FromBroker' BY <1>5 DEF IInv, TypeOK, FromBroker, RequestReturns
  <2> QED BY <2>1, <2>2, <2>3, <2>4, <2>5, <2>6 DEF IInv
<1>6. ASSUME NEW raised \in {"CancelledError", "DecodeError"},
             PopAndRaise(r, raised), pc[r] \in {"waiting", "expired"},
             pc[r] = "waiting" => future[r] = "exception"
      PROVE IInv'
  <2>1. TypeOK' BY <1>6 DEF IInv, TypeOK, PopAndRaise
  <2>2. PendingExact' BY <1>6 DEF IInv, TypeOK, PendingExact, PopAndRaise
  <2>3. LockInv' BY <1>6 DEF IInv, TypeOK, LockInv, PopAndRaise
  <2>4. OwnAnswer' BY <1>6 DEF IInv, TypeOK, OwnAnswer, PopAndRaise
  <2>5. CallShape' BY <1>6 DEF IInv, TypeOK, CallShape, PopAndRaise
  <2>6. FromBroker' BY <1>6 DEF IInv, TypeOK, FromBroker, PopAndRaise
  <2> QED BY <2>1, <2>2, <2>3, <2>4, <2>5, <2>6 DEF IInv
<1>7. CASE RequestTimesOut(r) BY <1>6, <1>7 DEF RequestTimesOut
<1>8. CASE RequestFails(r) BY <1>6, <1>8 DEF RequestFails
<1>9. CASE RequestCancelled(r)
  <2>1. TypeOK' BY <1>9 DEF IInv, TypeOK, RequestCancelled
  <2>2. PendingExact' BY <1>9 DEF IInv, TypeOK, PendingExact, LockInv, CallShape, RequestCancelled
  <2>3. LockInv' BY <1>9 DEF IInv, TypeOK, LockInv, RequestCancelled
  <2>4. OwnAnswer' BY <1>9 DEF IInv, TypeOK, OwnAnswer, CallShape, RequestCancelled
  <2>5. CallShape' BY <1>9 DEF IInv, TypeOK, CallShape, RequestCancelled
  <2>6. FromBroker' BY <1>9 DEF IInv, TypeOK, FromBroker, RequestCancelled
  <2> QED BY <2>1, <2>2, <2>3, <2>4, <2>5, <2>6 DEF IInv
<1> QED BY <1>1, <1>2, <1>3, <1>4, <1>5, <1>7, <1>8, <1>9 DEF Request, Step, Start

(* What consumer.acknowledge, or its failure, leaves of the broker's state. *)
LEMMA AcknowledgeLemma ==
  ASSUME TypeOK, FromBroker, NEW m \in Mgr, NEW msg \in Message, Acknowledge(m, msg)
  PROVE  /\ loop' \in [Mgr -> {"receive", "handle", "sleep", "stopped"}]
         /\ inhand' \in [Mgr -> SUBSET Message]
         /\ topic' \subseteq Message
         /\ unacked' \in [Mgr -> SUBSET Message]
         /\ orphan' = orphan /\ mgr' = mgr /\ sent' = sent /\ published' = published
         /\ FromBroker'
BY DEF TypeOK, FromBroker, Acknowledge

(* The response loop preserves the invariant. *)
LEMMA HandleIInv == ASSUME NEW m \in Mgr, IInv, Handle(m) PROVE IInv'
<1> USE DEF LockFree, callVars, loopVars, brokerVars
<1>0. PICK msg \in inhand[m] :
        \/ SkipWithoutId(m, msg) \/ RejectBadJson(m, msg) \/ DropUnknown(m, msg)
        \/ Complete(m, msg) \/ CompleteTooLate(m, msg) \/ FailTooLate(m, msg)
  BY DEF Handle
<1>m. msg \in Message /\ msg \in published /\ msg.req \in Req
  BY DEF IInv, TypeOK, FromBroker
<1>1. CASE SkipWithoutId(m, msg)
  <2>1. TypeOK' BY <1>1 DEF IInv, TypeOK, SkipWithoutId
  <2>2. PendingExact' BY <1>1 DEF IInv, PendingExact, SkipWithoutId
  <2>3. LockInv' BY <1>1 DEF IInv, LockInv, SkipWithoutId
  <2>4. OwnAnswer' BY <1>1 DEF IInv, OwnAnswer, SkipWithoutId
  <2>5. CallShape' BY <1>1 DEF IInv, CallShape, SkipWithoutId
  <2>6. FromBroker' BY <1>1 DEF IInv, TypeOK, FromBroker, SkipWithoutId
  <2> QED BY <2>1, <2>2, <2>3, <2>4, <2>5, <2>6 DEF IInv
<1>2. ASSUME Acknowledge(m, msg), UNCHANGED <<callVars, pending, holder>> PROVE IInv'
  <2>0. FromBroker' /\ sent' = sent /\ published' = published
    BY <1>2, <1>m, AcknowledgeLemma DEF IInv
  <2>1. TypeOK' BY <1>2, <1>m, AcknowledgeLemma DEF IInv, TypeOK
  <2>2. PendingExact' BY <1>2 DEF IInv, PendingExact
  <2>3. LockInv' BY <1>2 DEF IInv, LockInv
  <2>4. OwnAnswer' BY <1>2, <2>0 DEF IInv, OwnAnswer
  <2>5. CallShape' BY <1>2, <2>0 DEF IInv, CallShape, Acknowledge
  <2> QED BY <2>0, <2>1, <2>2, <2>3, <2>4, <2>5 DEF IInv
<1>3. CASE RejectBadJson(m, msg) BY <1>2, <1>3 DEF RejectBadJson
<1>4. CASE DropUnknown(m, msg) BY <1>2, <1>4 DEF DropUnknown
<1>5. CASE Complete(m, msg)
  <2>0. /\ Acknowledge(m, msg) /\ FromBroker' /\ sent' = sent /\ published' = published
        /\ Owner[msg.req] = m /\ pc[msg.req] = "waiting"
    BY <1>5, <1>m, AcknowledgeLemma DEF IInv, PendingExact, Complete
  <2>1. TypeOK' BY <1>5, <1>m, <2>0, AcknowledgeLemma DEF IInv, TypeOK, Complete
  <2>2. PendingExact' BY <1>5, <1>m, <2>0 DEF IInv, TypeOK, PendingExact, Complete
  <2>3. LockInv' BY <1>5, <1>m DEF IInv, LockInv, Complete
  <2>4. OwnAnswer'
    <3> SUFFICES ASSUME NEW r \in Req
                 PROVE  /\ \A x \in got'[r] : x.req = r /\ x \in published
                        /\ future'[r] = "result" =>
                             \E x \in got'[r] : got'[r] = {x} /\ x.kind = "ok"
                        /\ future'[r] = "exception" =>
                             \E x \in got'[r] : x.kind = "undecodable"
                        /\ outcome[r] = "response" => future'[r] = "result"
      BY <1>5, <2>0 DEF OwnAnswer, Complete
    <3>1. CASE r = msg.req
      <4>1. got'[r] = {msg} /\ future'[r] = IF msg.kind = "ok" THEN "result" ELSE "exception"
        BY <1>5, <1>m, <3>1 DEF IInv, TypeOK, Complete
      <4>2. outcome[r] = "none"
        BY <2>0, <3>1 DEF IInv, CallShape
      <4>3. msg.kind \in {"ok", "undecodable"}
        BY <1>5 DEF Complete
      <4> QED BY <1>m, <3>1, <4>1, <4>2, <4>3
    <3>2. CASE r # msg.req
      <4>1. got'[r] = got[r] /\ future'[r] = future[r]
        BY <1>5, <1>m, <3>2 DEF IInv, TypeOK, Complete
      <4> QED BY <4>1 DEF IInv, OwnAnswer
    <3> QED BY <3>1, <3>2
  <2>5. CallShape' BY <1>5, <1>m, <2>0 DEF IInv, TypeOK, CallShape, Acknowledge, Complete
  <2> QED BY <2>0, <2>1, <2>2, <2>3, <2>4, <2>5 DEF IInv
<1>6. CASE CompleteTooLate(m, msg)
  <2>0. /\ Acknowledge(m, msg) /\ FromBroker' /\ sent' = sent /\ published' = published
    BY <1>6, <1>m, AcknowledgeLemma DEF IInv, CompleteTooLate
  <2>1. TypeOK' BY <1>6, <1>m, <2>0, AcknowledgeLemma DEF IInv, TypeOK, CompleteTooLate
  <2>2. PendingExact' BY <1>6, <1>m DEF IInv, TypeOK, PendingExact, CompleteTooLate
  <2>3. LockInv' BY <1>6 DEF IInv, LockInv, CompleteTooLate
  <2>4. OwnAnswer' BY <1>6, <2>0 DEF IInv, OwnAnswer, CompleteTooLate
  <2>5. CallShape' BY <1>6, <2>0 DEF IInv, CallShape, Acknowledge, CompleteTooLate
  <2> QED BY <2>0, <2>1, <2>2, <2>3, <2>4, <2>5 DEF IInv
<1>7. CASE FailTooLate(m, msg)
  <2>1. TypeOK' BY <1>7 DEF IInv, TypeOK, FailTooLate
  <2>2. PendingExact' BY <1>7, <1>m DEF IInv, TypeOK, PendingExact, FailTooLate
  <2>3. LockInv' BY <1>7 DEF IInv, LockInv, FailTooLate
  <2>4. OwnAnswer' BY <1>7 DEF IInv, OwnAnswer, FailTooLate
  <2>5. CallShape' BY <1>7 DEF IInv, CallShape, FailTooLate
  <2>6. FromBroker' BY <1>7 DEF IInv, TypeOK, FromBroker, FailTooLate
  <2> QED BY <2>1, <2>2, <2>3, <2>4, <2>5, <2>6 DEF IInv
<1> QED BY <1>0, <1>1, <1>3, <1>4, <1>5, <1>6, <1>7

(* Receiving, waking up, closing and the broker move messages and leave the
   calls, the dictionary and the lock alone. *)
LEMMA TransportIInv ==
  ASSUME IInv, UNCHANGED <<callVars, pending, holder>>, sent' = sent,
         \/ \E m \in Mgr, msg \in Message : Receive(m, msg) \/ OrphanReceive(m, msg)
         \/ \E m \in Mgr : ReceiveFails(m) \/ WakeUp(m) \/ BeginClose(m)
                             \/ FinishClose(m) \/ Reconnect(m)
         \/ \E msg \in Message : Publish(msg) \/ Lose(msg)
  PROVE  IInv'
<1> USE DEF callVars, loopVars, brokerVars
<1>1. TypeOK' /\ FromBroker' /\ published \subseteq published'
  <2>1. CASE \E m \in Mgr, msg \in Message : Receive(m, msg)
    BY <2>1 DEF IInv, TypeOK, FromBroker, Receive
  <2>2. CASE \E m \in Mgr, msg \in Message : OrphanReceive(m, msg)
    BY <2>2 DEF IInv, TypeOK, FromBroker, OrphanReceive
  <2>3. CASE \E m \in Mgr : ReceiveFails(m) \/ WakeUp(m)
    BY <2>3 DEF IInv, TypeOK, FromBroker, ReceiveFails, WakeUp
  <2>4. CASE \E m \in Mgr : BeginClose(m)
    BY <2>4 DEF IInv, TypeOK, FromBroker, BeginClose
  <2>5. CASE \E m \in Mgr : FinishClose(m)
    BY <2>5 DEF IInv, TypeOK, FromBroker, FinishClose
  <2>6. CASE \E m \in Mgr : Reconnect(m)
    BY <2>6 DEF IInv, TypeOK, FromBroker, Reconnect
  <2>7. CASE \E msg \in Message : Publish(msg)
    BY <2>7 DEF IInv, TypeOK, FromBroker, Publish
  <2>8. CASE \E msg \in Message : Lose(msg)
    BY <2>8 DEF IInv, TypeOK, FromBroker, Lose
  <2> QED BY <2>1, <2>2, <2>3, <2>4, <2>5, <2>6, <2>7, <2>8
<1>2. PendingExact' BY DEF IInv, PendingExact
<1>3. LockInv' BY DEF IInv, LockInv, LockFree
<1>4. OwnAnswer' BY <1>1 DEF IInv, OwnAnswer
<1>5. CallShape'
  <2>1. \A m \in Mgr : mgr[m] = "closed" => mgr'[m] = "closed"
    BY DEF IInv, TypeOK, Receive, OrphanReceive, ReceiveFails, WakeUp, BeginClose, FinishClose,
       Reconnect, Publish, Lose
  <2> QED BY <2>1 DEF IInv, CallShape
<1> QED BY <1>1, <1>2, <1>3, <1>4, <1>5 DEF IInv

(* Every step of requests, response loop, close() and broker preserves the
   invariant. *)
LEMMA NextIInv == IInv /\ [Next]_vars => IInv'
<1> SUFFICES ASSUME IInv, [Next]_vars PROVE IInv' OBVIOUS
<1>1. CASE \E r \in Req : Request(r) BY <1>1, RequestIInv
<1>2. CASE \E m \in Mgr : Handle(m) BY <1>2, HandleIInv
<1>3. CASE \/ \E m \in Mgr : ReceiveFails(m) \/ WakeUp(m) \/ Close(m)
                \/ \E msg \in Message : Receive(m, msg)
           \/ Broker
  <2>1. UNCHANGED <<callVars, pending, holder>> /\ sent' = sent
    BY <1>3 DEF Close, Broker, ReceiveFails, WakeUp, BeginClose, FinishClose, OrphanReceive, Receive,
       Publish, Lose, Reconnect, callVars, loopVars, brokerVars
  <2> QED BY <1>3, <2>1, TransportIInv DEF Close, Broker
<1>4. CASE UNCHANGED vars
  BY <1>4 DEF vars, callVars, loopVars, brokerVars, IInv, TypeOK, PendingExact, LockInv,
     OwnAnswer, CallShape, FromBroker, LockFree
<1> QED BY <1>1, <1>2, <1>3, <1>4 DEF Next, Loop

(* The inductive invariant holds in every behaviour of the manager. *)
THEOREM Inductive == Spec => []IInv
BY InitIInv, NextIInv, PTL DEF Spec

(* Every waiting call can be found by its response, and the dictionary keeps
   no entry of a call that ended (_pending_requests, pulsar_rpc.py:96-107,
   164-166, 193-200). *)
THEOREM DictionaryExact == Spec => []PendingExact
BY Inductive, PTL DEF IInv

(* The lock survives a step only in the hands of one call that failed to send. *)
THEOREM LockDiscipline == Spec => []LockInv
BY Inductive, PTL DEF IInv

(* A call is kept from going on only by a call that failed to send: whatever
   else happens to calls, their lock is free (pulsar_rpc.py:164-200). *)
THEOREM OnlySendBlocks == Spec => []BlockedOnlyBySend
<1>1. IInv => BlockedOnlyBySend
  <2> SUFFICES ASSUME IInv, NEW r \in Req, pc[r] \notin {"idle", "done"}
               PROVE  \/ GoesOn(r)
                      \/ /\ "send" \in Faults \/ mgr[Owner[r]] = "closed"
                         /\ \E s \in holder[Owner[r]] : pc[s] = "stuck"
    BY DEF BlockedOnlyBySend
  <2>1. CASE LockFree(Owner[r])
    <3>1. pc[r] # "stuck" BY <2>1 DEF IInv, LockInv, LockFree
    <3> QED BY <2>1, <3>1 DEF GoesOn, IInv, TypeOK, CallShape
  <2>2. CASE ~LockFree(Owner[r])
    <3>1. PICK s \in holder[Owner[r]] : Owner[s] = Owner[r] /\ pc[s] = "stuck" /\ s \in Req
      BY <2>2 DEF LockFree, IInv, TypeOK, LockInv
    <3> QED BY <3>1 DEF IInv, CallShape
  <2> QED BY <2>1, <2>2
<1> QED BY <1>1, Inductive, PTL

(* A call returns only a decodable response published for itself. *)
THEOREM Correlation == Spec => []OwnAnswer
BY Inductive, PTL DEF IInv
-----------------------------------------------------------------------------
(* A completed future is completed once: the response loop and the timer
   complete pending futures only, and request() makes one future per call. *)
THEOREM FutureCompletedOnce == Spec => CompletedOnce
<1> DEFINE Once == \A r \in Req :
              future[r] \in {"result", "exception", "cancelled"} =>
                future'[r] = future[r] /\ got'[r] = got[r]
<1>1. IInv /\ [Next]_vars => Once
  <2> SUFFICES ASSUME IInv, [Next]_vars PROVE Once OBVIOUS
  <2>1. CASE \E r \in Req : Request(r)
    BY <2>1 DEF IInv, TypeOK, CallShape, Request, Start, Step, Enters, RequestCancelled, RequestSent, RequestSendFails,
       RequestBlocks, TimerFires, RequestReturns, RequestTimesOut, RequestFails, PopAndRaise
  <2>2. CASE \E m \in Mgr : Handle(m)
    BY <2>2 DEF IInv, TypeOK, Handle, SkipWithoutId, RejectBadJson, DropUnknown, Complete,
       CompleteTooLate, FailTooLate, callVars
  <2>3. CASE \/ \E m \in Mgr : ReceiveFails(m) \/ WakeUp(m) \/ Close(m)
                \/ \E msg \in Message : Receive(m, msg)
             \/ Broker
    BY <2>3 DEF Close, Broker, ReceiveFails, WakeUp, BeginClose, FinishClose, OrphanReceive, Receive,
       Publish, Lose, Reconnect, callVars
  <2>4. CASE UNCHANGED vars
    BY <2>4 DEF vars, callVars
  <2> QED BY <2>1, <2>2, <2>3, <2>4 DEF Next, Loop
<1>2. IInv /\ [Next]_vars => [Once]_vars
  BY <1>1
<1> QED BY <1>2, Inductive, PTL DEF Spec, CompletedOnce

-----------------------------------------------------------------------------
(* What the response loop took and is a response it understands is acknowledged
   unless it is still in hand (_process_responses, pulsar_rpc.py:84-112). *)
THEOREM Acknowledged == Spec => []AnsweredIsAcked
<1>1. Init => AnsweredIsAcked
  BY DEF Init, AnsweredIsAcked
<1>2. IInv /\ AnsweredIsAcked /\ [Next]_vars => AnsweredIsAcked'
  <2> SUFFICES ASSUME IInv, AnsweredIsAcked, [Next]_vars, "ack" \notin Faults,
                      NEW m \in Mgr, mgr'[m] = "open",
                      NEW msg \in unacked'[m], msg.kind \in {"ok", "badjson"}
               PROVE  msg \in inhand'[m]
    BY DEF AnsweredIsAcked
  <2>0. \A x \in unacked[m] :
          mgr[m] = "open" /\ x.kind \in {"ok", "badjson"} => x \in inhand[m]
    BY DEF AnsweredIsAcked
  <2>1. CASE \E r \in Req : Request(r)
    BY <2>0, <2>1 DEF Request, Start, Step, RequestSent, RequestSendFails, RequestBlocks, TimerFires,
       RequestReturns, RequestTimesOut, RequestFails, RequestCancelled, PopAndRaise, loopVars, brokerVars
  <2>2. CASE \E k \in Mgr : Handle(k)
    <3>1. PICK k \in Mgr : Handle(k) BY <2>2
    <3>2. PICK x \in inhand[k] :
            \/ SkipWithoutId(k, x) \/ RejectBadJson(k, x) \/ DropUnknown(k, x)
            \/ Complete(k, x) \/ CompleteTooLate(k, x) \/ FailTooLate(k, x)
      BY <3>1 DEF Handle
    <3>3. inhand[k] = {x} /\ mgr' = mgr /\ inhand' = [inhand EXCEPT ![k] = {}]
      BY <3>2 DEF SkipWithoutId, RejectBadJson, DropUnknown, Complete, CompleteTooLate,
         FailTooLate, Acknowledge, IInv, FromBroker
    <3>4. CASE SkipWithoutId(k, x) \/ FailTooLate(k, x)
      BY <2>0, <3>3, <3>4 DEF SkipWithoutId, FailTooLate, brokerVars, IInv, TypeOK
    <3>5. CASE Acknowledge(k, x)
      BY <2>0, <3>3, <3>5 DEF Acknowledge, IInv, TypeOK
    <3> QED BY <3>2, <3>4, <3>5 DEF RejectBadJson, DropUnknown, Complete, CompleteTooLate
  <2>3. CASE \E k \in Mgr, x \in Message : Receive(k, x) \/ OrphanReceive(k, x)
    <3>1. PICK k \in Mgr, x \in Message : Receive(k, x) \/ OrphanReceive(k, x) BY <2>3
    <3>2. mgr[m] = "open" BY <3>1 DEF Receive, OrphanReceive
    <3>3. CASE Receive(k, x)
      BY <2>0, <3>2, <3>3 DEF Receive, IInv, TypeOK, FromBroker
    <3>4. CASE OrphanReceive(k, x)
      <4>1. k # m
        BY <3>2, <3>4 DEF OrphanReceive, IInv, FromBroker
      <4> QED BY <2>0, <3>2, <3>4, <4>1 DEF OrphanReceive, IInv, TypeOK
    <3> QED BY <3>1, <3>3, <3>4
  <2>4. CASE \E k \in Mgr : ReceiveFails(k) \/ WakeUp(k)
    BY <2>0, <2>4 DEF ReceiveFails, WakeUp, brokerVars
  <2>5. CASE \E k \in Mgr : BeginClose(k) \/ FinishClose(k) \/ Reconnect(k)
    BY <2>0, <2>5 DEF BeginClose, FinishClose, Reconnect, loopVars, brokerVars, IInv, TypeOK
  <2>6. CASE \E x \in Message : Publish(x) \/ Lose(x)
    BY <2>0, <2>6 DEF Publish, Lose, loopVars
  <2>7. CASE UNCHANGED vars
    BY <2>0, <2>7 DEF vars, loopVars, brokerVars
  <2> QED BY <2>1, <2>2, <2>3, <2>4, <2>5, <2>6, <2>7 DEF Next, Loop, Close, Broker
<1> QED BY <1>1, <1>2, Inductive, PTL DEF Spec
-----------------------------------------------------------------------------
(* What the response loop finds no call for, no call of this manager is waiting
   for, however many managers share the topic (pulsar_rpc.py:93-109). *)
THEOREM OwnerDropsNoAnswer == Spec => NoAnswerDropped
<1> DEFINE Kept == \A msg \in Message :
       /\ Acked(Owner[msg.req], msg)
       /\ mgr' = mgr
       /\ msg.kind = "ok"
       /\ pc[msg.req] = "waiting"
       /\ future[msg.req] = "pending"
       => future'[msg.req] = "result" /\ got'[msg.req] = {msg}
<1>1. IInv /\ [Next]_vars => Kept
  <2> SUFFICES ASSUME IInv, [Next]_vars, NEW msg \in Message, Acked(Owner[msg.req], msg),
                      mgr' = mgr, msg.kind = "ok", pc[msg.req] = "waiting", future[msg.req] = "pending"
               PROVE  future'[msg.req] = "result" /\ got'[msg.req] = {msg}
    OBVIOUS
  <2> DEFINE m == Owner[msg.req]
  <2>0. msg.req \in Req /\ m \in Mgr
    OBVIOUS
  <2>1. msg \in inhand[m] /\ msg \notin inhand'[m]
    BY DEF Acked
  <2>2. msg.req \in pending[m]
    BY <2>0 DEF IInv, PendingExact
  <2> HIDE DEF m
  <2>3. Handle(m)
    <3>1. loop[m] = "handle" BY <2>0, <2>1 DEF IInv, FromBroker
    <3>2. CASE \E r \in Req : Request(r)
      BY <2>1, <3>2 DEF Request, Start, Step, RequestCancelled, RequestSent, RequestSendFails, RequestBlocks,
         TimerFires, RequestReturns, RequestTimesOut, RequestFails, PopAndRaise, loopVars
    <3>3. CASE \E k \in Mgr : Handle(k)
      <4>1. PICK k \in Mgr : Handle(k) BY <3>3
      <4>2. inhand' = [inhand EXCEPT ![k] = {}]
        BY <4>1 DEF Handle, SkipWithoutId, RejectBadJson, DropUnknown, Complete, CompleteTooLate,
           FailTooLate, Acknowledge
      <4>3. k = m BY <2>0, <2>1, <4>2 DEF IInv, TypeOK
      <4> QED BY <4>1, <4>3
    <3>4. CASE \/ \E k \in Mgr : ReceiveFails(k) \/ WakeUp(k) \/ Close(k)
                   \/ \E x \in Message : Receive(k, x)
               \/ Broker
      BY <2>0, <2>1, <3>1, <3>4 DEF Close, Broker, ReceiveFails, WakeUp, BeginClose, FinishClose, OrphanReceive,
         Receive, Publish, Lose, Reconnect, loopVars, IInv, TypeOK
    <3>5. CASE UNCHANGED vars
      BY <2>1, <3>5 DEF vars, loopVars
    <3> QED BY <3>2, <3>3, <3>4, <3>5 DEF Next, Loop
  <2>4. PICK x \in inhand[m] :
          \/ SkipWithoutId(m, x) \/ RejectBadJson(m, x) \/ DropUnknown(m, x)
          \/ Complete(m, x) \/ CompleteTooLate(m, x) \/ FailTooLate(m, x)
    BY <2>3 DEF Handle
  <2>5. x = msg
    BY <2>0, <2>1 DEF IInv, FromBroker
  <2> QED
    BY <2>0, <2>2, <2>4, <2>5 DEF SkipWithoutId, RejectBadJson, DropUnknown, Complete,
       CompleteTooLate, FailTooLate, IInv, TypeOK
<1> QED BY <1>1, Inductive, PTL DEF Spec, NoAnswerDropped
-----------------------------------------------------------------------------
(* The manager implements the promise of RpcCalls: each step of a call is a
   call, a return or a raise of that call, each decodable response published
   for it is published there, and everything else is invisible to callers. *)
LEMMA InitRefines == Init => Abs!Init
BY DEF Init, Abs!Init, callStatus, Visible, decodable, returned

(* The caller-visible state depends on pc, outcome, got and published only. *)
LEMMA Invisible ==
  ASSUME UNCHANGED <<callVars, published>> PROVE UNCHANGED Abs!vars
BY DEF callVars, callStatus, decodable, returned, Abs!vars

(* A step that changes what is visible of one call only. *)
LEMMA StatusOfOne ==
  ASSUME NEW r \in Req, NEW v,
         \A s \in Req : s # r => pc'[s] = pc[s] /\ outcome'[s] = outcome[s],
         Visible(pc'[r], outcome'[r]) = v
  PROVE  callStatus' = [callStatus EXCEPT ![r] = v]
BY DEF callStatus

(* A step of request() is a call, a return or a raise of that call, or nothing
   its caller can see (pulsar_rpc.py:144-200). *)
LEMMA RequestRefines ==
  ASSUME IInv, IInv', NEW r \in Req, Request(r) PROVE [Abs!Next]_Abs!vars
<1> USE DEF callVars, brokerVars
<1>0. published' = published /\ decodable' = decodable
  BY DEF Request, Start, Step, RequestCancelled, RequestSent, RequestSendFails, RequestBlocks, TimerFires,
     RequestReturns, RequestTimesOut, RequestFails, PopAndRaise, decodable
<1>1. CASE RequestSent(r) \/ RequestSendFails(r) \/ RequestBlocks(r)
  <2>1. /\ pc[r] \in {"idle", "acquire"} /\ outcome' = outcome /\ got' = got
        /\ outcome[r] = "none"
        /\ \E v \in {"waiting", "stuck", "acquire"} : pc' = [pc EXCEPT ![r] = v]
    BY <1>1 DEF RequestSent, RequestSendFails, RequestBlocks, Enters, IInv, CallShape
  <2>2. returned' = returned
    BY <2>1 DEF returned
  <2>3. Visible(pc'[r], outcome'[r]) = "calling"
    BY <2>1 DEF Visible, IInv, TypeOK
  <2>4. \A s \in Req : s # r => pc'[s] = pc[s] /\ outcome'[s] = outcome[s]
    BY <2>1 DEF IInv, TypeOK
  <2>5. callStatus' = [callStatus EXCEPT ![r] = "calling"]
    BY <2>3, <2>4, StatusOfOne
  <2>6. CASE pc[r] = "idle"
    <3>1. callStatus[r] = "idle"
      BY <2>6 DEF callStatus, Visible
    <3>2. Abs!Call(r)
      BY <1>0, <2>2, <2>5, <3>1 DEF Abs!Call
    <3> QED BY <3>2 DEF Abs!Next
  <2>7. CASE pc[r] = "acquire"
    <3>1. Visible(pc[r], outcome[r]) = "calling"
      BY <2>1, <2>7 DEF Visible
    <3>2. callStatus' = callStatus
      BY <2>3, <2>4, <3>1 DEF callStatus
    <3> QED BY <1>0, <2>2, <3>2 DEF Abs!vars
  <2> QED BY <2>1, <2>6, <2>7
<1>2. CASE TimerFires(r)
  <2>1. /\ pc[r] = "waiting" /\ outcome' = outcome /\ got' = got
        /\ pc' = [pc EXCEPT ![r] = "expired"]
    BY <1>2 DEF TimerFires
  <2>2. callStatus' = callStatus
    BY <2>1 DEF callStatus, Visible, IInv, TypeOK
  <2>3. returned' = returned
    BY <2>1 DEF returned
  <2> QED BY <1>0, <2>2, <2>3 DEF Abs!vars
<1>3. CASE RequestReturns(r)
  <2>1. /\ pc[r] = "waiting" /\ future[r] = "result" /\ outcome[r] = "none" /\ got' = got
        /\ pc' = [pc EXCEPT ![r] = "done"]
        /\ outcome' = [outcome EXCEPT ![r] = "response"]
    BY <1>3 DEF RequestReturns, IInv, CallShape
  <2>2. PICK msg \in got[r] : got[r] = {msg} /\ msg.kind = "ok" /\ msg.req = r
    BY <2>1 DEF IInv, OwnAnswer
  <2>3. msg \in decodable
    BY <2>2 DEF decodable, IInv, OwnAnswer
  <2>4. callStatus' = [callStatus EXCEPT ![r] = "returned"] /\ callStatus[r] = "calling"
    <3>1. Visible(pc'[r], outcome'[r]) = "returned" /\ Visible(pc[r], outcome[r]) = "calling"
      BY <2>1 DEF Visible, IInv, TypeOK
    <3>2. \A s \in Req : s # r => pc'[s] = pc[s] /\ outcome'[s] = outcome[s]
      BY <2>1 DEF IInv, TypeOK
    <3> QED BY <3>1, <3>2, StatusOfOne DEF callStatus
  <2>5. returned' = [returned EXCEPT ![r] = {msg}]
    BY <2>1, <2>2 DEF returned, IInv, TypeOK
  <2>6. Abs!Return(r)
    BY <1>0, <2>2, <2>3, <2>4, <2>5 DEF Abs!Return
  <2> QED BY <2>6 DEF Abs!Next
<1>4. CASE RequestTimesOut(r) \/ RequestFails(r) \/ RequestCancelled(r)
  <2>1. /\ pc[r] \in {"acquire", "waiting", "expired", "stuck"} /\ outcome[r] = "none" /\ got' = got
        /\ pc' = [pc EXCEPT ![r] = "done"]
        /\ \E v \in {"CancelledError", "DecodeError", "TypeError"} :
             outcome' = [outcome EXCEPT ![r] = v]
    BY <1>4 DEF RequestTimesOut, RequestFails, RequestCancelled, PopAndRaise, IInv, CallShape
  <2>2. callStatus' = [callStatus EXCEPT ![r] = "raised"] /\ callStatus[r] = "calling"
    <3>1. Visible(pc'[r], outcome'[r]) = "raised" /\ Visible(pc[r], outcome[r]) = "calling"
      BY <2>1 DEF Visible, IInv, TypeOK
    <3>2. \A s \in Req : s # r => pc'[s] = pc[s] /\ outcome'[s] = outcome[s]
      BY <2>1 DEF IInv, TypeOK
    <3> QED BY <3>1, <3>2, StatusOfOne DEF callStatus
  <2>3. returned' = returned
    BY <2>1 DEF returned, IInv, TypeOK
  <2>4. Abs!Raise(r)
    BY <1>0, <2>2, <2>3 DEF Abs!Raise
  <2> QED BY <2>4 DEF Abs!Next
<1> QED BY <1>1, <1>2, <1>3, <1>4 DEF Request, Start, Step

(* What the response loop does to a future is not yet visible to the caller. *)
LEMMA HandleRefines ==
  ASSUME IInv, NEW m \in Mgr, Handle(m) PROVE UNCHANGED Abs!vars
<1>1. pc' = pc /\ outcome' = outcome /\ published' = published
  BY DEF Handle, SkipWithoutId, RejectBadJson, DropUnknown, Complete, CompleteTooLate,
     FailTooLate, Acknowledge, callVars, brokerVars
<1>2. \A r \in Req : outcome[r] = "response" => got'[r] = got[r]
  BY DEF Handle, SkipWithoutId, RejectBadJson, DropUnknown, Complete, CompleteTooLate,
     FailTooLate, callVars, IInv, TypeOK, OwnAnswer
<1> QED BY <1>1, <1>2 DEF callStatus, decodable, returned, Abs!vars

(* A service's decodable response is published for a call that was made. *)
LEMMA PublishRefines ==
  ASSUME IInv, NEW msg \in Message, Publish(msg) PROVE [Abs!Next]_Abs!vars
<1>1. UNCHANGED <<callVars>> /\ published' = published \union {msg} /\ msg.req \in sent
  BY DEF Publish
<1>2. callStatus' = callStatus /\ returned' = returned
  BY <1>1 DEF callVars, callStatus, returned
<1>3. CASE msg.kind = "ok"
  <2>1. decodable' = decodable \union {msg}
    BY <1>1, <1>3 DEF decodable
  <2>2. callStatus[msg.req] # "idle"
    BY <1>1 DEF callStatus, Visible, IInv, TypeOK, CallShape
  <2>3. Abs!Publish(msg)
    BY <1>2, <2>1, <2>2 DEF Abs!Publish
  <2> QED BY <1>3, <2>3 DEF Abs!Next
<1>4. CASE msg.kind # "ok"
  <2>1. decodable' = decodable
    BY <1>1, <1>4 DEF decodable
  <2> QED BY <1>2, <2>1 DEF Abs!vars
<1> QED BY <1>3, <1>4

(* PulsarRPCManager.request implements RpcCalls: a call ends at most once, and
   returns only a decodable response published for it (pulsar_rpc.py:144-157). *)
THEOREM Refinement == Spec => Promise
<1>1. IInv /\ IInv' /\ [Next]_vars => [Abs!Next]_Abs!vars
  <2> SUFFICES ASSUME IInv, IInv', [Next]_vars PROVE [Abs!Next]_Abs!vars OBVIOUS
  <2>1. CASE \E r \in Req : Request(r) BY <2>1, RequestRefines
  <2>2. CASE \E m \in Mgr : Handle(m) BY <2>2, HandleRefines
  <2>3. CASE \E msg \in Message : Publish(msg) BY <2>3, PublishRefines
  <2>4. CASE \/ \E m \in Mgr : \/ ReceiveFails(m) \/ WakeUp(m) \/ Close(m) \/ Reconnect(m)
                               \/ \E msg \in Message : Receive(m, msg)
             \/ \E msg \in Message : Lose(msg)
    <3>1. UNCHANGED <<callVars, published>>
      BY <2>4 DEF Close, ReceiveFails, WakeUp, BeginClose, FinishClose, OrphanReceive, Receive, Lose,
         Reconnect, brokerVars
    <3> QED BY <3>1, Invisible
  <2>5. CASE UNCHANGED vars BY <2>5, Invisible DEF vars, brokerVars
  <2> QED BY <2>1, <2>2, <2>3, <2>4, <2>5 DEF Next, Loop, Broker
<1> QED BY <1>1, InitRefines, Inductive, PTL DEF Spec, Promise, Abs!Spec
=============================================================================
