-------------------------- MODULE AgentReconciler --------------------------
(***************************************************************************)
(* The Kubernetes operator of src/operator: AgentReconciler.Reconcile      *)
(* turns each Agent into a Function of the same name, working from watch   *)
(* caches that lag behind the API server, while users, the                 *)
(* function-stream operator and the garbage collector change the objects.  *)
(*                                                                         *)
(* One reconcile runs at a time (one worker, one leader).  Between two of  *)
(* its API writes anything may happen; its reads come from the caches and  *)
(* take no time.                                                           *)
(***************************************************************************)
EXTENDS Integers, Sequences

CONSTANTS Agent,     \* agents, by namespaced name; the Function has the same name
          Specs,     \* what a user may write in an Agent's spec, ResponseSource apart
          UsesTool,  \* the specs whose Tools name the tool Function
          Foreign,   \* agents of whose names users also write Functions that carry
                     \* neither the owner reference nor the label
          Budget     \* bound: steps of users and of the function-stream operator

ASSUME UsesToolAssumption == UsesTool \subseteq Specs
ASSUME ForeignAssumption  == Foreign \subseteq Agent
ASSUME BudgetAssumption   == Budget \in Nat

(* Spec.ResponseSource: nil, set without a Pulsar topic, or one topic of 1, 2, ... *)
NoSource == 0
InvalidSource == -1

(* NoSpec is the spec of a Function that was not derived from an Agent. *)
Other == "other"
ASSUME OtherAssumption == Other \notin Specs

AgentObject == [live : BOOLEAN, uid : Nat, rv : Nat, v : Specs \union {Other},
                resp : Int, status : Nat]

FunctionSpec == [v : Specs \union {Other}, topic : Int, tool : Nat]

FunctionObject == [live : BOOLEAN, rv : Nat, owner : Nat, label : BOOLEAN,
                   spec : FunctionSpec, status : Nat]

NoAgent == [live |-> FALSE, uid |-> 0, rv |-> 0, v |-> Other, resp |-> NoSource, status |-> 0]
NoSpec == [v |-> Other, topic |-> NoSource, tool |-> 0]
NoFunction == [live |-> FALSE, rv |-> 0, owner |-> 0, label |-> FALSE,
               spec |-> NoSpec, status |-> 0]

VARIABLES
  agent,      \* agent[a]: the Agent in the API server
  function,   \* function[a]: the Function of the same name in the API server
  tool,       \* the tool Function: 0 if missing, else its version
  topics,     \* topics generated or chosen so far
  stored,     \* stored[a]: the topics Agent a has ever held (history)
  budget,     \* steps left to users and the function-stream operator
  agentWatch, \* agentWatch[a]: versions of Agent a on their way to the operator
  functionWatch, \* functionWatch[a]: versions of Function a likewise
  agentCache, \* agentCache[a]: Agent a as the operator has seen it last
  functionCache, \* functionCache[a]: Function a likewise
  queue,      \* the workqueue
  pc,         \* where Reconcile stands: before its next API write
  req,        \* the agents being reconciled; at most one
  memAgent,   \* Reconcile's variable agent
  memFunction,\* Reconcile's variable existing
  want        \* the spec of Reconcile's variable function

agents == <<agent, agentWatch, topics, stored>>
functions == <<function, functionWatch>>
objects == <<agents, functions, tool>>
caches == <<agentCache, functionCache>>
local == <<pc, req, memAgent, memFunction, want>>
vars == <<objects, budget, caches, queue, local>>

TypeOK ==
  /\ agent \in [Agent -> AgentObject]
  /\ function \in [Agent -> FunctionObject]
  /\ tool \in Nat
  /\ topics \in Nat
  /\ stored \in [Agent -> SUBSET (1..topics)]
  /\ budget \in 0..Budget
  /\ agentWatch \in [Agent -> Seq(AgentObject)]
  /\ functionWatch \in [Agent -> Seq(FunctionObject)]
  /\ agentCache \in [Agent -> AgentObject]
  /\ functionCache \in [Agent -> FunctionObject]
  /\ queue \subseteq Agent
  /\ pc \in {"idle", "setTopic", "update", "create", "status"}
  /\ req \subseteq Agent
  /\ memAgent \in AgentObject
  /\ memFunction \in FunctionObject
  /\ want \in FunctionSpec

Init ==
  /\ agent = [a \in Agent |-> NoAgent]
  /\ function = [a \in Agent |-> NoFunction]
  /\ tool = 1
  /\ topics = 0
  /\ stored = [a \in Agent |-> {}]
  /\ budget = Budget
  /\ agentWatch = [a \in Agent |-> <<>>]
  /\ functionWatch = [a \in Agent |-> <<>>]
  /\ agentCache = agent
  /\ functionCache = function
  /\ queue = {}
  /\ pc = "idle"
  /\ req = {}
  /\ memAgent = NoAgent
  /\ memFunction = NoFunction
  /\ want = NoSpec

-----------------------------------------------------------------------------
(* The API server: optimistic concurrency by resourceVersion (external) *)

Accepts(obj, old) == obj.live /\ obj.rv = old.rv

(* Every write is a new version, sent to the operator in order. *)
SaveAgent(a, ag) ==
  /\ agent' = [agent EXCEPT ![a] = ag]
  /\ agentWatch' = [agentWatch EXCEPT ![a] = Append(@, ag)]

SaveFunction(a, f) ==
  /\ function' = [function EXCEPT ![a] = f]
  /\ functionWatch' = [functionWatch EXCEPT ![a] = Append(@, f)]

-----------------------------------------------------------------------------
(* Reconcile *)

(* buildFSFunctionToolContext fails while the tool cannot be resolved. *)
ToolsResolve(v) == v \in UsesTool => tool # 0

Desired(ag) == [v |-> ag.v, topic |-> ag.resp, tool |-> IF ag.v \in UsesTool THEN tool ELSE 0]

(* Mutant: an existing Function is taken to be up to date. *)
PlanWithoutComparison(a, ag) ==
  /\ memAgent' = ag
  /\ want' = Desired(ag)
  /\ memFunction' = functionCache[a]
  /\ pc' = IF ~functionCache[a].live THEN "create" ELSE "status"

(* The local half of Reconcile: having built the wanted Function, look for
   the existing one and choose the next write. *)
Plan(a, ag) ==
  /\ memAgent' = ag
  /\ want' = Desired(ag)
  /\ memFunction' = functionCache[a]
  /\ pc' = IF ~functionCache[a].live THEN "create"
           ELSE IF functionCache[a].spec # Desired(ag) \/ ~functionCache[a].label
                THEN "update" ELSE "status"

Done == /\ pc' = "idle"
        /\ req' = {}
        /\ memAgent' = NoAgent
        /\ memFunction' = NoFunction
        /\ want' = NoSpec

(* An error, or a conflict the helper of the function-stream library turns
   into a retry. *)
Requeue(a) == Done /\ queue' = queue \union {a}

(* On a conflict that helper may as well count on the watch event to come. *)
Conflict(a) == Done /\ queue' \in {queue, queue \union {a}}

(* Mutant: the NotFound of the first Get is not looked at. *)
BeginWithoutAgent(a) ==
  /\ pc = "idle"
  /\ a \in queue
  /\ queue' = queue \ {a}
  /\ req' = {a}
  /\ Plan(a, agentCache[a])
  /\ UNCHANGED <<objects, budget, caches>>

(* A worker takes agent a from the queue.  An agent whose ResponseSource is
   invalid or whose tools do not resolve is retried without effect: it stays
   in the queue. *)
Begin(a) ==
  /\ pc = "idle"
  /\ a \in queue
  /\ queue' = queue \ {a}
  /\ \/ ~agentCache[a].live /\ Done
     \/ /\ agentCache[a].live
        /\ req' = {a}
        /\ \/ /\ agentCache[a].resp = NoSource
              /\ pc' = "setTopic"
              /\ memAgent' = agentCache[a]
              /\ UNCHANGED <<memFunction, want>>
           \/ /\ agentCache[a].resp >= 1
              /\ ToolsResolve(agentCache[a].v)
              /\ Plan(a, agentCache[a])
  /\ UNCHANGED <<objects, budget, caches>>

(* Mutant: the Function is deployed before the topic is saved. *)
SetTopicUnsaved(a) ==
  /\ pc = "setTopic"
  /\ req = {a}
  /\ topics' = topics + 1
  /\ Plan(a, [memAgent EXCEPT !.resp = topics + 1])
  /\ UNCHANGED <<agent, agentWatch, stored, req, queue, functions, tool, budget, caches>>

(* Mutant: a write that does not check the resourceVersion. *)
SetTopicBlindly(a) ==
  /\ pc = "setTopic"
  /\ req = {a}
  /\ agent[a].live
  /\ LET ag == [memAgent EXCEPT !.resp = topics + 1, !.rv = agent[a].rv + 1] IN
       /\ SaveAgent(a, ag)
       /\ topics' = topics + 1
       /\ stored' = [stored EXCEPT ![a] = @ \union {topics + 1}]
       /\ ToolsResolve(ag.v)
       /\ Plan(a, ag)
  /\ UNCHANGED <<req, queue, functions, tool, budget, caches>>

(* buildFunctionConfig: persist a generated response topic, then go on. *)
SetTopic(a) ==
  /\ pc = "setTopic"
  /\ req = {a}
  /\ \/ /\ Accepts(agent[a], memAgent)
        /\ LET ag == [memAgent EXCEPT !.resp = topics + 1, !.rv = @ + 1] IN
             /\ SaveAgent(a, ag)
             /\ topics' = topics + 1
             /\ stored' = [stored EXCEPT ![a] = @ \union {topics + 1}]
             /\ \/ ToolsResolve(ag.v) /\ Plan(a, ag) /\ UNCHANGED <<req, queue>>
                \/ ~ToolsResolve(ag.v) /\ Requeue(a)
     \/ /\ ~Accepts(agent[a], memAgent)
        /\ Requeue(a)
        /\ UNCHANGED agents
  /\ UNCHANGED <<functions, tool, budget, caches>>

(* r.Update(existing): the spec and the labels change, the owner does not. *)
UpdateFunction(a) ==
  /\ pc = "update"
  /\ req = {a}
  /\ \/ /\ Accepts(function[a], memFunction)
        /\ SaveFunction(a, [function[a] EXCEPT !.spec = want, !.label = TRUE, !.rv = @ + 1])
        /\ pc' = "status"
        /\ UNCHANGED <<req, memAgent, memFunction, want, queue>>
     \/ /\ function[a].live /\ ~Accepts(function[a], memFunction)
        /\ Conflict(a)
        /\ UNCHANGED functions
     \/ /\ ~function[a].live
        /\ Requeue(a)
        /\ UNCHANGED functions
  /\ UNCHANGED <<agents, tool, budget, caches>>

(* r.Create(function), with the controller reference to this very Agent *)
CreateFunction(a) ==
  /\ pc = "create"
  /\ req = {a}
  /\ \/ /\ ~function[a].live
        /\ SaveFunction(a, [live |-> TRUE, rv |-> function[a].rv + 1,
                             owner |-> memAgent.uid, label |-> TRUE,
                             spec |-> want, status |-> 0])
        /\ pc' = "status"
        /\ UNCHANGED <<req, memAgent, memFunction, want, queue>>
     \/ /\ function[a].live
        /\ Requeue(a)
        /\ UNCHANGED functions
  /\ UNCHANGED <<agents, tool, budget, caches>>

(* The Function is read again, from the cache, and its status copied; a write
   that changes nothing leaves the resourceVersion alone. *)
UpdateStatus(a) ==
  /\ pc = "status"
  /\ req = {a}
  /\ LET st == functionCache[a].status IN
     \/ /\ ~functionCache[a].live
        /\ Done
        /\ UNCHANGED <<agent, agentWatch, queue>>
     \/ /\ functionCache[a].live
        /\ Accepts(agent[a], memAgent)
        /\ IF st = agent[a].status
           THEN UNCHANGED <<agent, agentWatch>>
           ELSE SaveAgent(a, [agent[a] EXCEPT !.status = st, !.rv = @ + 1])
        /\ Done
        /\ UNCHANGED queue
     \/ /\ functionCache[a].live
        /\ agent[a].live /\ ~Accepts(agent[a], memAgent)
        /\ Conflict(a)
        /\ UNCHANGED <<agent, agentWatch>>
     \/ /\ functionCache[a].live
        /\ ~agent[a].live
        /\ Requeue(a)
        /\ UNCHANGED <<agent, agentWatch>>
  /\ UNCHANGED <<functions, tool, topics, stored, budget, caches>>

Reconcile(a) ==
  Begin(a) \/ SetTopic(a) \/ UpdateFunction(a) \/ CreateFunction(a) \/ UpdateStatus(a)

-----------------------------------------------------------------------------
(* SetupWithManager: For(Agent), Owns(Function) filtered by hasAgentLabel *)

SyncAgent(a) ==
  /\ agentWatch[a] # <<>>
  /\ agentCache' = [agentCache EXCEPT ![a] = Head(agentWatch[a])]
  /\ agentWatch' = [agentWatch EXCEPT ![a] = Tail(@)]
  /\ queue' = queue \union {a}
  /\ UNCHANGED <<agent, topics, stored, functions, tool, budget, functionCache, local>>

(* Mutant: a deletion is judged by what is left of the object. *)
HasAgentLabelOfNew(old, new) == new.label

(* An update is judged by the labels of the new object and sent to the owners
   of both; a deletion by the object last seen. *)
HasAgentLabel(old, new) == IF new.live THEN new.label ELSE old.label

SyncFunction(a) ==
  /\ functionWatch[a] # <<>>
  /\ LET old == functionCache[a]
         new == Head(functionWatch[a])
     IN /\ functionCache' = [functionCache EXCEPT ![a] = new]
        /\ queue' = IF HasAgentLabel(old, new) /\ (old.owner # 0 \/ new.owner # 0)
                    THEN queue \union {a} ELSE queue
  /\ functionWatch' = [functionWatch EXCEPT ![a] = Tail(@)]
  /\ UNCHANGED <<agents, function, tool, budget, agentCache, local>>

(* The operator is killed and restarted: it lists everything again. *)
Restart ==
  /\ budget > 0
  /\ budget' = budget - 1
  /\ agentCache' = agent
  /\ functionCache' = function
  /\ queue' = {a \in Agent : agent[a].live \/ (function[a].label /\ function[a].owner # 0)}
  /\ agentWatch' = [a \in Agent |-> <<>>]
  /\ functionWatch' = [a \in Agent |-> <<>>]
  /\ Done
  /\ UNCHANGED <<agent, function, tool, topics, stored>>

-----------------------------------------------------------------------------
(* Users, the function-stream operator and the garbage collector (external) *)

Spend == budget > 0 /\ budget' = budget - 1

(* A user writes an Agent: a new one, or a change to one, leaving the
   ResponseSource alone, choosing a topic, or getting it wrong. *)
WriteAgent(a, v, resp) ==
  /\ Spend
  /\ SaveAgent(a, LET old == agent[a] IN
       [live |-> TRUE, uid |-> IF old.live THEN old.uid ELSE old.uid + 1, rv |-> old.rv + 1,
        v |-> v, resp |-> resp, status |-> IF old.live THEN old.status ELSE 0])
  /\ topics' = IF resp > topics THEN resp ELSE topics
  /\ stored' = IF resp > 0 THEN [stored EXCEPT ![a] = @ \union {resp}] ELSE stored
  /\ UNCHANGED <<functions, tool, caches, queue, local>>

UserWrites(a) ==
  \E v \in Specs :
    \/ ~agent[a].live /\ \E resp \in {NoSource, InvalidSource, topics + 1} : WriteAgent(a, v, resp)
    \/ agent[a].live /\ \E resp \in {agent[a].resp, NoSource, topics + 1} : WriteAgent(a, v, resp)

UserDeletesAgent(a) ==
  /\ Spend
  /\ agent[a].live
  /\ SaveAgent(a, [NoAgent EXCEPT !.uid = agent[a].uid, !.rv = agent[a].rv])
  /\ UNCHANGED <<topics, stored, functions, tool, caches, queue, local>>

(* A Function of the agent's name that has nothing to do with it *)
UserCreatesFunction(a) ==
  /\ a \in Foreign
  /\ Spend
  /\ ~function[a].live
  /\ SaveFunction(a, [NoFunction EXCEPT !.live = TRUE, !.rv = function[a].rv + 1])
  /\ UNCHANGED <<agents, tool, caches, queue, local>>

(* An edit of the Function; the web console's writes drop label and owner. *)
UserEditsFunction(a) ==
  /\ Spend
  /\ function[a].live
  /\ LET edited == [function[a] EXCEPT !.spec = NoSpec, !.rv = @ + 1] IN
       \/ SaveFunction(a, edited)
       \/ a \in Foreign /\ SaveFunction(a, [edited EXCEPT !.label = FALSE, !.owner = 0])
  /\ UNCHANGED <<agents, tool, caches, queue, local>>

RemoveFunction(a) == SaveFunction(a, [NoFunction EXCEPT !.rv = function[a].rv])

UserDeletesFunction(a) ==
  /\ Spend
  /\ function[a].live
  /\ RemoveFunction(a)
  /\ UNCHANGED <<agents, tool, caches, queue, local>>

FunctionReportsStatus(a) ==
  /\ Spend
  /\ function[a].live
  /\ SaveFunction(a, [function[a] EXCEPT !.status = @ + 1, !.rv = @ + 1])
  /\ UNCHANGED <<agents, tool, caches, queue, local>>

ToolChanges ==
  /\ Spend
  /\ tool' \in {0, tool + 1}
  /\ UNCHANGED <<agents, functions, caches, queue, local>>

Garbage(a) ==
  /\ function[a].live
  /\ function[a].owner # 0
  /\ ~(agent[a].live /\ agent[a].uid = function[a].owner)

(* A collection that overtakes the Agent's own deletion event may be followed
   by a stale Create and so on without end: it is charged to Budget. *)
CollectGarbage(a) ==
  /\ Garbage(a)
  /\ IF agentWatch[a] = <<>> THEN UNCHANGED budget ELSE Spend
  /\ RemoveFunction(a)
  /\ UNCHANGED <<agents, tool, caches, queue, local>>

-----------------------------------------------------------------------------
Operator(a) == Reconcile(a) \/ SyncAgent(a) \/ SyncFunction(a)

Environment(a) ==
  \/ UserWrites(a) \/ UserDeletesAgent(a) \/ UserCreatesFunction(a)
  \/ UserEditsFunction(a) \/ UserDeletesFunction(a) \/ FunctionReportsStatus(a)
  \/ CollectGarbage(a)

Next == (\E a \in Agent : Operator(a) \/ Environment(a)) \/ Restart \/ ToolChanges

Spec == Init /\ [][Next]_vars

(* The workqueue is first in, first out, so the worker gets to every agent in
   it; a reconcile goes on, watches deliver, and the garbage collector runs.
   Nothing is asked of users. *)
Fairness ==
  \A a \in Agent :
    /\ SF_vars(Begin(a))
    /\ WF_vars(Reconcile(a))
    /\ WF_vars(SyncAgent(a))
    /\ WF_vars(SyncFunction(a))
    /\ WF_vars(CollectGarbage(a))

FairSpec == Spec /\ Fairness

-----------------------------------------------------------------------------
(* Properties *)

(* The versions of Agent a that the operator holds or is about to be sent *)
Copies(a) == {agentCache[a]} \union {agentWatch[a][i] : i \in DOMAIN agentWatch[a]}
             \union (IF a \in req THEN {memAgent} ELSE {})

(* The worker is on one agent at a time, a live one, and past the first write
   it works with the spec and the topic of the Agent it holds. *)
WorkerInv ==
  /\ (pc = "idle") = (req = {})
  /\ \A a, b \in req : a = b
  /\ \A a \in req : memAgent.live
  /\ pc = "setTopic" => memAgent.resp = NoSource
  /\ pc \in {"update", "create", "status"} =>
       memAgent.resp >= 1 /\ want.topic = memAgent.resp /\ want.v = memAgent.v

(* A copy of an Agent is never newer than the Agent, and one of the same
   resourceVersion says the same. *)
CopiesInv ==
  \A a \in Agent : \A c \in Copies(a) :
    /\ c.rv <= agent[a].rv
    /\ c.live /\ agent[a].live /\ c.rv = agent[a].rv =>
         c.uid = agent[a].uid /\ c.v = agent[a].v /\ c.resp = agent[a].resp

(* A topic in any version of an Agent is one the Agent held in the API server. *)
TopicsInv ==
  \A a \in Agent : \A c \in Copies(a) \union {agent[a]} : c.resp >= 1 => c.resp \in stored[a]

(* What users wrote is theirs: no step of the operator, however stale its
   cache, changes an Agent's spec except to give a topic to an Agent that has
   none, and none brings a deleted Agent back. *)
OperatorRespectsAgents ==
  [][\A a \in Agent :
       (\E b \in Agent : Operator(b)) =>
         /\ agent'[a].live = agent[a].live
         /\ agent'[a].uid = agent[a].uid
         /\ agent'[a].v = agent[a].v
         /\ agent[a].resp # NoSource => agent'[a].resp = agent[a].resp]_vars

(* A Function the operator configured listens to a topic that its Agent holds
   or held: the generated topic is persisted before it is deployed. *)
DeployedTopicStored ==
  \A a \in Agent :
    function[a].live /\ function[a].spec # NoSpec => function[a].spec.topic \in stored[a]

(* The versions of an object the operator has seen (the 0th) and is about to see *)
Version(cache, watch, i) == IF i = 0 THEN cache ELSE watch[i]
AgentVersion(a, i) == Version(agentCache[a], agentWatch[a], i)
FunctionVersion(a, i) == Version(functionCache[a], functionWatch[a], i)

(* A watch ends with the object as it is in the API server, and it tells of a
   deletion after it told of the object. *)
WatchInv ==
  \A a \in Agent :
    /\ AgentVersion(a, Len(agentWatch[a])) = agent[a]
    /\ FunctionVersion(a, Len(functionWatch[a])) = function[a]
    /\ \A i \in 1..Len(functionWatch[a]) :
         FunctionVersion(a, i).live \/ FunctionVersion(a, i - 1).live

(* Where nobody else writes Functions, every version of one is marked so that
   its events come back to the Agent. *)
OwnedInv ==
  /\ \A a \in Agent : \A c \in Copies(a) \union {agent[a]} : c.live => c.uid # 0
  /\ \A a \in Agent \ Foreign : \A i \in 0..Len(functionWatch[a]) :
       FunctionVersion(a, i).live =>
         FunctionVersion(a, i).label /\ FunctionVersion(a, i).owner # 0

(* No event about Agent a or its Function is left that would bring the worker
   back to it. *)
Undisturbed(a) == a \notin queue /\ agentWatch[a] = <<>> /\ functionWatch[a] = <<>>

(* What the worker holds of an undisturbed agent is what the API server holds:
   none of its writes can be refused ... *)
HandInv ==
  \A a \in req \ Foreign : Undisturbed(a) =>
    /\ memAgent = agent[a]
    /\ pc \in {"update", "create"} => memFunction = function[a]
    /\ pc = "status" => function[a].live /\ function[a].spec = want

(* ... and one it has done with is deployed. *)
SettledInv ==
  \A a \in Agent \ (req \union Foreign) : Undisturbed(a) /\ agent[a].live =>
    /\ function[a].live
    /\ function[a].spec.v = agent[a].v
    /\ function[a].spec.topic = agent[a].resp
    /\ agent[a].status = function[a].status

(* The inductive invariant: of the copies of Agents, and of what repairs *)
CopyInv == TypeOK /\ WorkerInv /\ CopiesInv /\ TopicsInv /\ DeployedTopicStored

RepairInv == WatchInv /\ OwnedInv /\ HandInv /\ SettledInv

IInv == CopyInv /\ RepairInv

Quiet ==
  /\ pc = "idle" /\ queue = {}
  /\ \A a \in Agent : agentWatch[a] = <<>> /\ functionWatch[a] = <<>> /\ ~Garbage(a)

Deployed(a) ==
  /\ function[a].live /\ function[a].label
  /\ function[a].owner = agent[a].uid
  /\ function[a].spec.v = agent[a].v
  /\ function[a].spec.topic = agent[a].resp
  /\ agent[a].status = function[a].status

(* When nothing is left to do, every Agent of whose name nobody else writes a
   Function is deployed as its spec says and mirrors the status of its
   Function, and no such Function outlives its Agent: no
   interleaving of stale reads, conflicts, deletions and restarts loses the
   event that would have repaired it. *)
QuietMeansDeployed ==
  Quiet => \A a \in Agent \ Foreign :
             IF agent[a].live THEN Deployed(a) ELSE ~function[a].live

(* An Agent that is left alone, is valid and whose tool stays gets deployed. *)
EventuallyDeployed ==
  \A a \in Agent \ Foreign :
    <>[](agent[a].live /\ agent[a].resp # InvalidSource /\ ToolsResolve(agent[a].v))
      => <>[]Deployed(a)
=============================================================================
