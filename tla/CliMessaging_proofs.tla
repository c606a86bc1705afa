------------------------ MODULE CliMessaging_proofs ------------------------
(***************************************************************************)
(* Proofs about CliMessaging, for any number of commands and any bounds.   *)
(* OwnAnswer, SubscribedBeforeSent and PrivateTopic say what a caller sees *)
(* at its end; LogInv, InboxInv and SubsInv say what makes them hold.      *)
(***************************************************************************)
EXTENDS CliMessaging, TLAPS

USE DEF Goto, Dial

(* What is appended to the log is its last message. *)
LEMMA LogAppend ==
  ASSUME log \in Seq(Message), NEW m \in Message
  PROVE  /\ Append(log, m) \in Seq(Message)
         /\ \A i \in DOMAIN Append(log, m) :
              \/ Append(log, m)[i] = m
              \/ i \in DOMAIN log /\ Append(log, m)[i] = log[i]
OBVIOUS

(* A message that comes into an inbox comes last. *)
LEMMA InboxAppend ==
  ASSUME NEW s \in Seq(Response), NEW x \in Response
  PROVE  /\ Append(s, x) \in Seq(Response)
         /\ \A i \in DOMAIN Append(s, x) :
              \/ Append(s, x)[i] = x
              \/ i \in DOMAIN s /\ Append(s, x)[i] = s[i]
OBVIOUS

(* Reading takes the first message and leaves the others. *)
LEMMA InboxTail ==
  ASSUME NEW s \in Seq(Response), s # << >>
  PROVE  /\ Head(s) = s[1] /\ 1 \in DOMAIN s /\ s[1] \in Response
         /\ Tail(s) \in Seq(Response)
         /\ \A i \in DOMAIN Tail(s) : i + 1 \in DOMAIN s /\ Tail(s)[i] = s[i + 1]
OBVIOUS

(* Both kinds of message the commands send. *)
LEMMA Sends ==
  /\ \A c \in Caller : Request(c) \in Message
  /\ \A p \in Producer : Produced(p) \in Message /\ Produced(p).id \notin Caller
BY CommandAssumption DEF Request, Produced, Message, Commands, TopicOf

-----------------------------------------------------------------------------
(* Types *)

LEMMA RpcType == ASSUME TypeOK, NEW c \in Caller, RPC(c) PROVE TypeOK'
<1>1. CASE Connect(c)
  BY <1>1 DEF TypeOK, Connect, Stages, Commands, Ended
<1>2. CASE Subscribe(c)
  BY <1>2 DEF TypeOK, Subscribe, Stages, Commands, Ended
<1>3. CASE Send(c)
  <2>1. log' \in Seq(Message)
    BY <1>3, Sends, LogAppend DEF Send, TypeOK
  <2>2. pc' \in [Commands -> Stages] /\ subs' \subseteq Caller
    BY <1>3 DEF TypeOK, Send, Stages, Commands, Ended
  <2> QED BY <1>3, <2>1, <2>2 DEF TypeOK, Send
<1>4. CASE Receive(c)
  <2>1. /\ Head(inbox[c]) \in Response
        /\ Tail(inbox[c]) \in Seq(Response)
    BY <1>4, InboxTail DEF Receive, TypeOK
  <2>2. inbox' \in [Caller -> Seq(Response)]
    BY <1>4, <2>1 DEF Receive, TypeOK
  <2>3. printed' \in [Caller -> SUBSET Response]
    <3>1. {Head(inbox[c])} \in SUBSET Response
      BY <2>1
    <3> QED BY <1>4, <3>1 DEF Receive, TypeOK
  <2>4. pc' \in [Commands -> Stages] /\ subs' \subseteq Caller
    BY <1>4 DEF TypeOK, Receive, Stages, Commands, Ended
  <2> QED BY <1>4, <2>2, <2>3, <2>4 DEF TypeOK, Receive
<1>5. CASE ReceiveTimesOut(c)
  BY <1>5 DEF TypeOK, ReceiveTimesOut, Stages, Ended, Commands
<1> QED BY <1>1, <1>2, <1>3, <1>4, <1>5 DEF RPC

LEMMA ProduceType == ASSUME TypeOK, NEW p \in Producer, Produce(p) PROVE TypeOK'
<1>1. CASE ProduceConnect(p)
  BY <1>1 DEF TypeOK, ProduceConnect, Stages, Ended, Commands
<1>2. CASE ProduceNext(p)
  <2>1. log' \in Seq(Message)
    BY <1>2, Sends, LogAppend DEF ProduceNext, TypeOK
  <2>2. left' \in [Producer \union Reader -> 0..Num]
    BY <1>2, BoundAssumption DEF ProduceNext, TypeOK
  <2> QED BY <1>2, <2>1, <2>2 DEF TypeOK, ProduceNext
<1>3. CASE ProduceEnds(p)
  BY <1>3 DEF TypeOK, ProduceEnds, Stages, Ended, Commands
<1> QED BY <1>1, <1>2, <1>3 DEF Produce

LEMMA ReadType == ASSUME TypeOK, NEW r \in Reader, Read(r) PROVE TypeOK'
<1>1. CASE ReadConnect(r)
  <2>1. pos' \in [Reader -> Nat]
    <3>1. \A n \in 0..Len(log) : n \in Nat
      BY DEF TypeOK
    <3> QED BY <1>1, <3>1 DEF TypeOK, ReadConnect
  <2> QED BY <1>1, <2>1 DEF TypeOK, ReadConnect, Stages, Ended, Commands
<1>2. CASE ReadNext(r)
  <2>1. left' \in [Producer \union Reader -> 0..Num] /\ pos' \in [Reader -> Nat]
    BY <1>2, BoundAssumption DEF ReadNext, TypeOK
  <2> QED BY <1>2, <2>1 DEF TypeOK, ReadNext
<1>3. CASE ReadEnds(r)
  BY <1>3 DEF TypeOK, ReadEnds, Stages, Ended, Commands
<1> QED BY <1>1, <1>2, <1>3 DEF Read

(* An answer reaches the inboxes of its topic, as their last message. *)
LEMMA AnswerFacts ==
  ASSUME TypeOK, LogInv, Answer
  PROVE  /\ UNCHANGED <<given, pc, log, subs, printed, left, pos>>
         /\ answers' \in [Caller -> Nat]
         /\ \E c \in Caller, id \in Caller \union {None} :
              /\ id \in {c, None}
              /\ [call |-> c, id |-> id] \in Response
              /\ anonymous' = IF id = None THEN anonymous \union {c} ELSE anonymous
              /\ inbox' \in [Caller -> Seq(Response)]
              /\ \A d \in Caller :
                   \/ inbox'[d] = inbox[d]
                   \/ /\ TopicOf(d) = TopicOf(c)
                      /\ inbox'[d] = Append(inbox[d], [call |-> c, id |-> id])
<1>1. PICK i \in DOMAIN log :
        /\ log[i].topic # None
        /\ answers' = [answers EXCEPT ![log[i].id] = @ + 1]
        /\ \E id \in {log[i].id, None}, lost \in SUBSET Caller :
             /\ inbox' = [d \in Caller |->
                  IF d \in subs /\ d \notin lost /\ TopicOf(d) = log[i].topic
                  THEN Append(inbox[d], [call |-> log[i].id, id |-> id])
                  ELSE inbox[d]]
             /\ anonymous' = IF id = None THEN anonymous \union {log[i].id} ELSE anonymous
        /\ UNCHANGED <<given, pc, log, subs, printed, left, pos>>
  BY DEF Answer
<1> DEFINE c == log[i].id
<1>2. c \in Caller /\ log[i].topic = TopicOf(c)
  BY <1>1 DEF LogInv
<1>3. PICK id \in {c, None}, lost \in SUBSET Caller :
        /\ inbox' = [d \in Caller |->
             IF d \in subs /\ d \notin lost /\ TopicOf(d) = log[i].topic
             THEN Append(inbox[d], [call |-> c, id |-> id])
             ELSE inbox[d]]
        /\ anonymous' = IF id = None THEN anonymous \union {c} ELSE anonymous
  BY <1>1
<1>4. [call |-> c, id |-> id] \in Response
  BY <1>2 DEF Response
<1>5. \A d \in Caller : Append(inbox[d], [call |-> c, id |-> id]) \in Seq(Response)
  BY <1>4 DEF TypeOK
<1>6. inbox' \in [Caller -> Seq(Response)]
  BY <1>3, <1>5 DEF TypeOK
<1>7. answers' \in [Caller -> Nat]
  BY <1>1, <1>2 DEF TypeOK
<1>8. \A d \in Caller :
        \/ inbox'[d] = inbox[d]
        \/ /\ TopicOf(d) = TopicOf(c)
           /\ inbox'[d] = Append(inbox[d], [call |-> c, id |-> id])
  BY <1>2, <1>3
<1> HIDE DEF c
<1> QED BY <1>1, <1>2, <1>3, <1>4, <1>6, <1>7, <1>8

LEMMA TypeInvariant == TypeOK /\ LogInv /\ [Next]_vars => TypeOK'
<1> SUFFICES ASSUME TypeOK, LogInv, [Next]_vars PROVE TypeOK'
  OBVIOUS
<1>1. CASE Answer
  <2>1. anonymous' \subseteq Caller
    BY <1>1, AnswerFacts DEF TypeOK
  <2> QED BY <1>1, <2>1, AnswerFacts DEF TypeOK
<1>2. CASE UNCHANGED vars
  BY <1>2 DEF vars, TypeOK
<1> QED BY <1>1, <1>2, RpcType, ProduceType, ReadType DEF Next

-----------------------------------------------------------------------------
(* The invariants *)

(* Nobody's response topic changes. *)
LEMMA SameTopics == ASSUME [Next]_vars PROVE given' = given
BY DEF Next, vars, RPC, Connect, Subscribe, Send, Receive, ReceiveTimesOut,
       Produce, ProduceConnect, ProduceNext, ProduceEnds,
       Read, ReadConnect, ReadNext, ReadEnds, Answer

LEMMA LogInvariant == TypeOK /\ LogInv /\ [Next]_vars => LogInv'
<1> SUFFICES ASSUME TypeOK, LogInv, [Next]_vars PROVE LogInv'
  OBVIOUS
<1>1. \A c : TopicOf(c)' = TopicOf(c)
  BY SameTopics DEF TopicOf
<1>2. CASE UNCHANGED log
  BY <1>1, <1>2 DEF LogInv
<1>3. ASSUME NEW m \in Message, log' = Append(log, m),
             m.topic # None => m.id \in Caller /\ m.topic = TopicOf(m.id)
      PROVE  LogInv'
  BY <1>1, <1>3, LogAppend DEF LogInv, TypeOK
<1>4. ASSUME NEW c \in Caller, Send(c) PROVE LogInv'
  <2>1. Request(c).id = c /\ Request(c).topic = TopicOf(c)
    BY DEF Request
  <2> QED BY <1>2, <1>3, <1>4, <2>1, Sends DEF Send
<1>5. ASSUME NEW p \in Producer, ProduceNext(p) PROVE LogInv'
  <2>1. Produced(p).topic = None
    BY DEF Produced
  <2> QED BY <1>2, <1>3, <1>5, <2>1, Sends DEF ProduceNext
<1>6. \/ UNCHANGED log
      \/ \E c \in Caller : Send(c)
      \/ \E p \in Producer : ProduceNext(p)
  BY DEF Next, vars, RPC, Connect, Subscribe, Receive, ReceiveTimesOut,
         Produce, ProduceConnect, ProduceEnds,
         Read, ReadConnect, ReadNext, ReadEnds, Answer
<1> QED BY <1>2, <1>4, <1>5, <1>6

LEMMA InboxInvariant == TypeOK /\ LogInv /\ InboxInv /\ [Next]_vars => InboxInv'
<1> SUFFICES ASSUME TypeOK, LogInv, InboxInv, [Next]_vars PROVE InboxInv'
  OBVIOUS
<1>1. \A c : TopicOf(c)' = TopicOf(c)
  BY SameTopics DEF TopicOf
<1>2. CASE UNCHANGED <<inbox, anonymous>>
  BY <1>1, <1>2 DEF InboxInv
<1>3. ASSUME NEW c \in Caller, Receive(c) PROVE InboxInv'
  <2>1. /\ inbox' = [inbox EXCEPT ![c] = Tail(@)]
        /\ anonymous' = anonymous
        /\ \A i \in DOMAIN Tail(inbox[c]) :
             i + 1 \in DOMAIN inbox[c] /\ Tail(inbox[c])[i] = inbox[c][i + 1]
    BY <1>3, InboxTail DEF Receive, TypeOK
  <2> SUFFICES ASSUME NEW d \in Caller, NEW i \in DOMAIN inbox'[d]
               PROVE  \E j \in DOMAIN inbox[d] : inbox'[d][i] = inbox[d][j]
    BY <1>1, <2>1 DEF InboxInv
  <2> QED BY <2>1 DEF TypeOK
<1>4. CASE Answer
  <2>1. PICK c \in Caller, id \in Caller \union {None} :
          /\ id \in {c, None}
          /\ [call |-> c, id |-> id] \in Response
          /\ anonymous' = IF id = None THEN anonymous \union {c} ELSE anonymous
          /\ \A d \in Caller :
               \/ inbox'[d] = inbox[d]
               \/ /\ TopicOf(d) = TopicOf(c)
                  /\ inbox'[d] = Append(inbox[d], [call |-> c, id |-> id])
    BY <1>4, AnswerFacts
  <2> DEFINE new == [call |-> c, id |-> id]
  <2>2. new.call = c /\ new.id = id
    OBVIOUS
  <2>3. anonymous \subseteq anonymous'
    BY <2>1
  <2> SUFFICES ASSUME NEW d \in Caller, NEW i \in DOMAIN inbox'[d]
               PROVE  /\ TopicOf(inbox'[d][i].call) = TopicOf(d)
                      /\ inbox'[d][i].id # None => inbox'[d][i].id = inbox'[d][i].call
                      /\ inbox'[d][i].id = None => inbox'[d][i].call \in anonymous'
    BY <1>1 DEF InboxInv
  <2>4. \/ inbox'[d][i] = new /\ TopicOf(d) = TopicOf(c)
        \/ i \in DOMAIN inbox[d] /\ inbox'[d][i] = inbox[d][i]
    <3>1. /\ inbox[d] \in Seq(Response)
          /\ new \in Response
      BY <2>1 DEF TypeOK
    <3>2. \A j \in DOMAIN Append(inbox[d], new) :
            \/ Append(inbox[d], new)[j] = new
            \/ j \in DOMAIN inbox[d] /\ Append(inbox[d], new)[j] = inbox[d][j]
      <4> HIDE DEF new
      <4> QED BY <3>1, InboxAppend
    <3>3. inbox'[d] = inbox[d] \/ (TopicOf(d) = TopicOf(c) /\ inbox'[d] = Append(inbox[d], new))
      BY <2>1
    <3> HIDE DEF new
    <3> QED BY <3>2, <3>3
  <2> HIDE DEF new
  <2> QED BY <2>1, <2>2, <2>3, <2>4 DEF InboxInv
<1>5. UNCHANGED <<inbox, anonymous>> \/ (\E c \in Caller : Receive(c)) \/ Answer
  BY DEF Next, vars, RPC, Connect, Subscribe, Send, ReceiveTimesOut,
         Produce, ProduceConnect, ProduceNext, ProduceEnds,
         Read, ReadConnect, ReadNext, ReadEnds
<1> QED BY <1>2, <1>3, <1>4, <1>5

(* A step of a caller: where it stands and whether it is subscribed go
   together, and its request comes after both. *)
LEMMA RpcSubs == ASSUME TypeOK, SubsInv, NEW c \in Caller, RPC(c) PROVE SubsInv'
<1>0. c \in Commands
  BY DEF Commands
<1> USE DEF Ended
<1>1. CASE Connect(c)
  BY <1>0, <1>1 DEF TypeOK, SubsInv, Connect, Commands
<1>2. CASE Subscribe(c)
  BY <1>0, <1>2 DEF TypeOK, SubsInv, Subscribe, Commands
<1>3. CASE Send(c)
  <2>1. Request(c).id = c
    BY DEF Request
  <2>2. \A i \in DOMAIN log' : log'[i].id = c \/ (i \in DOMAIN log /\ log'[i] = log[i])
    <3>1. log \in Seq(Message) /\ Request(c) \in Message
      BY Sends DEF TypeOK
    <3>2. log' = log \/ log' = Append(log, Request(c))
      BY <1>3 DEF Send
    <3> QED BY <2>1, <3>1, <3>2, LogAppend
  <2>3. /\ pc'[c] \in {"sent", "failed"} /\ (c \in subs' <=> pc'[c] = "sent")
        /\ \A d \in Caller \ {c} : pc'[d] = pc[d] /\ (d \in subs' <=> d \in subs)
    BY <1>0, <1>3 DEF TypeOK, SubsInv, Send, Commands
  <2> QED BY <2>2, <2>3 DEF SubsInv
<1>4. CASE Receive(c)
  BY <1>0, <1>4 DEF TypeOK, SubsInv, Receive, Commands
<1>5. CASE ReceiveTimesOut(c)
  BY <1>0, <1>5 DEF TypeOK, SubsInv, ReceiveTimesOut, Commands
<1> QED BY <1>1, <1>2, <1>3, <1>4, <1>5 DEF RPC

LEMMA SubsInvariant == TypeOK /\ SubsInv /\ [Next]_vars => SubsInv'
<1> SUFFICES ASSUME TypeOK, SubsInv, [Next]_vars PROVE SubsInv'
  OBVIOUS
<1>1. ASSUME NEW p \in Producer, Produce(p) PROVE SubsInv'
  <2>1. \A i \in DOMAIN log' : log'[i].id \in Caller => i \in DOMAIN log /\ log'[i] = log[i]
    BY <1>1, Sends, LogAppend DEF TypeOK, Produce, ProduceConnect, ProduceNext, ProduceEnds
  <2>2. subs' = subs /\ \A c \in Caller : pc'[c] = pc[c]
    BY <1>1, CommandAssumption DEF TypeOK, Produce, ProduceConnect, ProduceNext, ProduceEnds, Commands
  <2> QED BY <2>1, <2>2 DEF SubsInv
<1>2. ASSUME NEW r \in Reader, Read(r) PROVE SubsInv'
  <2>1. subs' = subs /\ log' = log /\ \A c \in Caller : pc'[c] = pc[c]
    BY <1>2, CommandAssumption DEF TypeOK, Read, ReadConnect, ReadNext, ReadEnds, Commands
  <2> QED BY <2>1 DEF SubsInv
<1>3. CASE Answer
  BY <1>3, CommandAssumption DEF Answer, SubsInv
<1>4. CASE UNCHANGED vars
  BY <1>4 DEF vars, SubsInv
<1> QED BY <1>1, <1>2, <1>3, <1>4, RpcSubs DEF Next

(* What a caller sees at its end follows from what is in its inbox. *)
LEMMA RpcOutcome ==
  ASSUME TypeOK, InboxInv, OwnAnswer, PrivateTopic, NEW c \in Caller, RPC(c)
  PROVE  OwnAnswer' /\ PrivateTopic'
<1>0. c \in Commands /\ Caller \subseteq Commands /\ given' = given /\ anonymous' = anonymous
  BY DEF Commands, RPC, Connect, Subscribe, Send, Receive, ReceiveTimesOut
<1>1. CASE Receive(c) /\ Head(inbox[c]).id = c
  <2>1. /\ Head(inbox[c]) = inbox[c][1] /\ 1 \in DOMAIN inbox[c]
    BY <1>1, InboxTail DEF Receive, TypeOK
  <2>2. Head(inbox[c]).call = c
    BY <1>1, <2>1, CommandAssumption DEF InboxInv, Commands
  <2>3. pc' = [pc EXCEPT ![c] = "ok"] /\ printed' = [printed EXCEPT ![c] = {Head(inbox[c])}]
    BY <1>1 DEF Receive
  <2> QED BY <1>0, <1>1, <2>2, <2>3 DEF OwnAnswer, PrivateTopic, TypeOK
<1>2. CASE Receive(c) /\ Head(inbox[c]).id # c
  <2>1. /\ Head(inbox[c]) = inbox[c][1] /\ 1 \in DOMAIN inbox[c] /\ inbox[c][1] \in Response
    BY <1>2, InboxTail DEF Receive, TypeOK
  <2>2. c \notin given => Head(inbox[c]).call = c
    <3>1. TopicOf(Head(inbox[c]).call) = TopicOf(c)
      BY <2>1 DEF InboxInv
    <3> QED BY <2>1, <3>1, SharedAssumption DEF TopicOf, Response
  <2>3. c \notin given => c \in anonymous
    BY <1>2, <2>1, <2>2 DEF InboxInv
  <2>4. pc' = [pc EXCEPT ![c] = "different"] /\ printed' = printed /\ pc[c] = "sent"
    BY <1>2 DEF Receive
  <2> QED BY <1>0, <2>3, <2>4 DEF OwnAnswer, PrivateTopic, TypeOK
<1>3. CASE Connect(c) \/ Subscribe(c) \/ Send(c) \/ ReceiveTimesOut(c)
  <2>1. /\ printed' = printed /\ pc[c] \notin Ended
        /\ \E where \in Stages \ {"ok", "different"} : pc' = [pc EXCEPT ![c] = where]
    BY <1>3 DEF Connect, Subscribe, Send, ReceiveTimesOut, Stages, Ended
  <2> QED BY <1>0, <2>1 DEF OwnAnswer, PrivateTopic, TypeOK, Ended
<1> QED BY <1>1, <1>2, <1>3 DEF RPC

LEMMA Outcome ==
  TypeOK /\ LogInv /\ InboxInv /\ OwnAnswer /\ PrivateTopic /\ [Next]_vars
    => OwnAnswer' /\ PrivateTopic'
<1> SUFFICES ASSUME TypeOK, LogInv, InboxInv, OwnAnswer, PrivateTopic, [Next]_vars
             PROVE  OwnAnswer' /\ PrivateTopic'
  OBVIOUS
<1>1. ASSUME /\ printed' = printed /\ given' = given /\ anonymous \subseteq anonymous'
             /\ \A c \in Caller : pc'[c] = pc[c]
      PROVE  OwnAnswer' /\ PrivateTopic'
  BY <1>1 DEF OwnAnswer, PrivateTopic
<1>2. ASSUME NEW p \in Producer, Produce(p) PROVE OwnAnswer' /\ PrivateTopic'
  BY <1>1, <1>2, CommandAssumption DEF TypeOK, Produce, ProduceConnect, ProduceNext, ProduceEnds, Commands
<1>3. ASSUME NEW r \in Reader, Read(r) PROVE OwnAnswer' /\ PrivateTopic'
  BY <1>1, <1>3, CommandAssumption DEF TypeOK, Read, ReadConnect, ReadNext, ReadEnds, Commands
<1>4. CASE Answer
  BY <1>1, <1>4, AnswerFacts
<1>5. CASE UNCHANGED vars
  BY <1>1, <1>5 DEF vars
<1> QED BY <1>2, <1>3, <1>4, <1>5, RpcOutcome DEF Next

(* The inductive invariant holds in every reachable state. *)
THEOREM Inductive == Spec => []IInv
<1>1. Init => IInv
  BY BoundAssumption DEF Init, IInv, TypeOK, Stages, LogInv, InboxInv, SubsInv,
     OwnAnswer, SubscribedBeforeSent, PrivateTopic, Commands
<1>2. SubsInv => SubscribedBeforeSent
  BY DEF SubsInv, SubscribedBeforeSent
<1>3. IInv /\ [Next]_vars => IInv'
  <2> SUFFICES ASSUME IInv, [Next]_vars PROVE IInv'
    OBVIOUS
  <2>1. SubsInv' => SubscribedBeforeSent'
    BY DEF SubsInv, SubscribedBeforeSent
  <2> QED BY <2>1, TypeInvariant, LogInvariant, InboxInvariant, SubsInvariant, Outcome DEF IInv
<1> QED BY <1>1, <1>3, PTL DEF Spec

(* A call that succeeds shows a response of its own call, on any topic. *)
THEOREM Correlation == Spec => []OwnAnswer
BY Inductive, PTL DEF IInv

(* No answer comes before the subscription that is to receive it. *)
THEOREM NoEarlyAnswer == Spec => []SubscribedBeforeSent
BY Inductive, PTL DEF IInv

(* On a generated topic only a service that leaves out the request_id makes a
   call fail with a different one. *)
THEOREM PrivateTopics == Spec => []PrivateTopic
BY Inductive, PTL DEF IInv
=============================================================================
