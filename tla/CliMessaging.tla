---------------------------- MODULE CliMessaging ----------------------------
(***************************************************************************)
(* The messaging commands of src/cli: `ascli rpc`, `produce` and `read`.   *)
(* Each run of a command is a process that ends; they meet on one request  *)
(* topic, which is a log, and on the response topics, which each caller    *)
(* reads through an exclusive subscription of its own.                     *)
(*                                                                         *)
(* The services that answer and the Pulsar broker are external.            *)
(***************************************************************************)
EXTENDS Naturals, Sequences

CONSTANTS Caller, Producer, Reader, \* the runs of the three commands
          Requesting,               \* the producers run with --request
          Num,                      \* --num of produce and read
          MaxAnswers,               \* bound: answers to one call
          None                      \* a message without this property

Commands == Caller \union Producer \union Reader

ASSUME CommandAssumption ==
  /\ Caller \intersect Producer = {}
  /\ Caller \intersect Reader = {}
  /\ Producer \intersect Reader = {}
  /\ None \notin Commands
ASSUME SharedAssumption == "shared" \notin Caller \union {None}
ASSUME RequestingAssumption == Requesting \subseteq Producer
ASSUME BoundAssumption == Num \in Nat /\ MaxAnswers \in Nat

VARIABLES
  given,     \* the callers that were given --response-topic, all the same one
  pc,        \* pc[x]: where command x stands, or how it ended
  log,       \* the request topic
  subs,      \* the callers whose consumer is open
  inbox,     \* inbox[c]: what was delivered to c's subscription
  answers,   \* answers[c]: how often the call of c was answered
  anonymous, \* the calls that were answered without request_id
  printed,   \* printed[c]: the response that c has shown, if any
  left,      \* left[x]: the messages a producer or a reader has still to do
  pos        \* pos[r]: how far a reader has come in the log

vars == <<given, pc, log, subs, inbox, answers, anonymous, printed, left, pos>>

Ended == {"ok", "failed", "timedOut", "different"}
Stages == {"start", "connected", "subscribed", "sent", "sending", "reading"} \union Ended

(* Mutant: the generated topic has no uuid. *)
OneTopic(c) == "shared"

(* runRPC generates a response topic unless it was given one. *)
TopicOf(c) == IF c \in given THEN "shared" ELSE c

(* A request names its call and where the answer goes; of what produce sends,
   --request adds one request_id for all, and nothing names a topic. *)
Request(c) == [id |-> c, topic |-> TopicOf(c)]
Produced(p) == [id |-> IF p \in Requesting THEN p ELSE None, topic |-> None]
Message == [id : Commands \union {None}, topic : Caller \union {"shared", None}]
Response == [call : Caller, id : Caller \union {None}]

TypeOK ==
  /\ given \subseteq Caller
  /\ pc \in [Commands -> Stages]
  /\ log \in Seq(Message)
  /\ subs \subseteq Caller
  /\ inbox \in [Caller -> Seq(Response)]
  /\ answers \in [Caller -> Nat]
  /\ anonymous \subseteq Caller
  /\ printed \in [Caller -> SUBSET Response]
  /\ left \in [Producer \union Reader -> 0..Num]
  /\ pos \in [Reader -> Nat]

Init ==
  /\ given \in SUBSET Caller
  /\ pc = [x \in Commands |-> "start"]
  /\ log = << >>
  /\ subs = {}
  /\ inbox = [c \in Caller |-> << >>]
  /\ answers = [c \in Caller |-> 0]
  /\ anonymous = {}
  /\ printed = [c \in Caller |-> {}]
  /\ left = [x \in Producer \union Reader |-> Num]
  /\ pos = [r \in Reader |-> 0]

Goto(x, where) == pc' = [pc EXCEPT ![x] = where]

(* Read the input, resolve the context, build the options, connect to the
   broker: each of them may fail. *)
Dial(x, next) == pc[x] = "start" /\ (Goto(x, next) \/ Goto(x, "failed"))

-----------------------------------------------------------------------------
(* ascli rpc *)

(* With the connection comes the producer of the request topic. *)
Connect(c) ==
  /\ Dial(c, "connected")
  /\ UNCHANGED <<given, log, subs, inbox, answers, anonymous, printed, left, pos>>

(* Mutant: the error of Subscribe is overlooked. *)
SubscribeUnchecked(c) ==
  /\ pc[c] = "connected"
  /\ Goto(c, "subscribed")
  /\ subs' = subs \union {c} \/ UNCHANGED subs
  /\ UNCHANGED <<given, log, inbox, answers, anonymous, printed, left, pos>>

Subscribe(c) ==
  /\ pc[c] = "connected"
  /\ \/ Goto(c, "subscribed") /\ subs' = subs \union {c}
     \/ Goto(c, "failed") /\ UNCHANGED subs
  /\ UNCHANGED <<given, log, inbox, answers, anonymous, printed, left, pos>>

(* A send that fails may have reached the broker all the same. *)
Send(c) ==
  /\ pc[c] = "subscribed"
  /\ \/ /\ Goto(c, "sent")
        /\ log' = Append(log, Request(c))
        /\ UNCHANGED subs
     \/ /\ Goto(c, "failed")
        /\ log' \in {log, Append(log, Request(c))}
        /\ subs' = subs \ {c}
  /\ UNCHANGED <<given, inbox, answers, anonymous, printed, left, pos>>

(* Mutant: any message is taken for the response. *)
ReceiveAnything(c) ==
  /\ pc[c] = "sent"
  /\ inbox[c] # << >>
  /\ Goto(c, "ok")
  /\ printed' = [printed EXCEPT ![c] = {Head(inbox[c])}]
  /\ subs' = subs \ {c}
  /\ inbox' = [inbox EXCEPT ![c] = Tail(@)]
  /\ UNCHANGED <<given, log, answers, anonymous, left, pos>>

(* The first message on the response topic decides: it is shown, or the
   command ends with an error.  The deferred calls close the consumer. *)
Receive(c) ==
  /\ pc[c] = "sent"
  /\ inbox[c] # << >>
  /\ \/ /\ Head(inbox[c]).id = c
        /\ Goto(c, "ok")
        /\ printed' = [printed EXCEPT ![c] = {Head(inbox[c])}]
     \/ /\ Head(inbox[c]).id # c
        /\ Goto(c, "different")
        /\ UNCHANGED printed
  /\ subs' = subs \ {c}
  /\ inbox' = [inbox EXCEPT ![c] = Tail(@)]
  /\ UNCHANGED <<given, log, answers, anonymous, left, pos>>

(* Mutant: Receive without a deadline. *)
ReceiveForEver(c) == FALSE

(* The 30 seconds are over, perhaps with a message just delivered. *)
ReceiveTimesOut(c) ==
  /\ pc[c] = "sent"
  /\ Goto(c, "timedOut")
  /\ subs' = subs \ {c}
  /\ UNCHANGED <<given, log, inbox, answers, anonymous, printed, left, pos>>

RPC(c) == Connect(c) \/ Subscribe(c) \/ Send(c) \/ Receive(c) \/ ReceiveTimesOut(c)

-----------------------------------------------------------------------------
(* ascli produce *)

ProduceConnect(p) ==
  /\ Dial(p, "sending")
  /\ UNCHANGED <<given, log, subs, inbox, answers, anonymous, printed, left, pos>>

(* A failed send is reported and the loop goes on. *)
ProduceNext(p) ==
  /\ pc[p] = "sending"
  /\ left[p] > 0
  /\ log' \in {log, Append(log, Produced(p))}
  /\ left' = [left EXCEPT ![p] = @ - 1]
  /\ UNCHANGED <<given, pc, subs, inbox, answers, anonymous, printed, pos>>

(* The command succeeds, whatever became of its messages. *)
ProduceEnds(p) ==
  /\ pc[p] = "sending"
  /\ left[p] = 0
  /\ Goto(p, "ok")
  /\ UNCHANGED <<given, log, subs, inbox, answers, anonymous, printed, left, pos>>

Produce(p) == ProduceConnect(p) \/ ProduceNext(p) \/ ProduceEnds(p)

-----------------------------------------------------------------------------
(* ascli read *)

(* The seek finds a place in the log for the time it was given. *)
ReadConnect(r) ==
  /\ Dial(r, "reading")
  /\ \E n \in 0..Len(log) : pos' = [pos EXCEPT ![r] = n]
  /\ UNCHANGED <<given, log, subs, inbox, answers, anonymous, printed, left>>

ReadNext(r) ==
  /\ pc[r] = "reading"
  /\ left[r] > 0
  /\ pos[r] < Len(log)
  /\ pos' = [pos EXCEPT ![r] = @ + 1]
  /\ left' = [left EXCEPT ![r] = @ - 1]
  /\ UNCHANGED <<given, pc, log, subs, inbox, answers, anonymous, printed>>

(* All --num messages are there, or the 30 seconds for all of them are over,
   which is no error; or the reader fails. *)
ReadEnds(r) ==
  /\ pc[r] = "reading"
  /\ Goto(r, "ok") \/ (left[r] > 0 /\ Goto(r, "failed"))
  /\ UNCHANGED <<given, log, subs, inbox, answers, anonymous, printed, left, pos>>

Read(r) == ReadConnect(r) \/ ReadNext(r) \/ ReadEnds(r)

-----------------------------------------------------------------------------
(* External: a service answers a request of the log, with its request_id or
   without; every open consumer of the topic gets the answer, unless the
   broker drops it. *)
Answer ==
  \E i \in DOMAIN log :
    LET c == log[i].id IN
    /\ log[i].topic # None
    /\ answers[c] < MaxAnswers
    /\ answers' = [answers EXCEPT ![c] = @ + 1]
    /\ \E id \in {c, None}, lost \in SUBSET Caller :
         /\ inbox' = [d \in Caller |->
              IF d \in subs /\ d \notin lost /\ TopicOf(d) = log[i].topic
              THEN Append(inbox[d], [call |-> c, id |-> id])
              ELSE inbox[d]]
         /\ anonymous' = IF id = None THEN anonymous \union {c} ELSE anonymous
    /\ UNCHANGED <<given, pc, log, subs, printed, left, pos>>

Next ==
  \/ \E c \in Caller : RPC(c)
  \/ \E p \in Producer : Produce(p)
  \/ \E r \in Reader : Read(r)
  \/ Answer

Spec == Init /\ [][Next]_vars

(* A command that can go on does: its calls of the client library return, with
   an error when their time is over. *)
Fairness ==
  /\ \A c \in Caller : WF_vars(RPC(c))
  /\ \A p \in Producer : WF_vars(Produce(p))
  /\ \A r \in Reader : WF_vars(Read(r))

FairSpec == Spec /\ Fairness

-----------------------------------------------------------------------------
(* Properties *)

(* A call that succeeds has shown a response of its own call, also when the
   response topic is shared with other calls. *)
OwnAnswer ==
  \A c \in Caller :
    /\ pc[c] = "ok" <=> printed[c] # {}
    /\ \A resp \in printed[c] : resp.call = c /\ resp.id = c

(* Whoever can see a request can answer it at once: before a request is in the
   log its caller's subscription exists, and it exists as long as the caller
   waits, so no answer comes too early. *)
SubscribedBeforeSent ==
  \A c \in Caller :
    (\E i \in DOMAIN log : log[i].id = c) /\ pc[c] \notin Ended => c \in subs

(* On a response topic that was generated a call never fails with a "different
   request_id", unless the service itself left it out. *)
PrivateTopic ==
  \A c \in Caller \ given : pc[c] = "different" => c \in anonymous

(* Every command ends, whatever services and brokers do. *)
EveryCommandEnds == \A x \in Commands : <>(pc[x] \in Ended)

(* Why the above hold: only requests ask for an answer, on their own topic;
   what lies in an inbox was published on its topic, and a request_id in it is
   that of the call it answers; a caller that sends has its subscription. *)
LogInv ==
  \A i \in DOMAIN log :
    log[i].topic # None => log[i].id \in Caller /\ log[i].topic = TopicOf(log[i].id)

InboxInv ==
  \A c \in Caller : \A i \in DOMAIN inbox[c] :
    LET resp == inbox[c][i] IN
    /\ TopicOf(resp.call) = TopicOf(c)
    /\ resp.id # None => resp.id = resp.call
    /\ resp.id = None => resp.call \in anonymous

SubsInv ==
  /\ \A c \in Caller : c \in subs <=> pc[c] \in {"subscribed", "sent"}
  /\ \A i \in DOMAIN log : log[i].id \in Caller => pc[log[i].id] \in {"sent"} \union Ended

IInv ==
  /\ TypeOK /\ LogInv /\ InboxInv /\ SubsInv
  /\ OwnAnswer /\ SubscribedBeforeSent /\ PrivateTopic
=============================================================================
