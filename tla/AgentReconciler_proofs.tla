----------------------- MODULE AgentReconciler_proofs -----------------------
(* Theorems about AgentReconciler, for any agents, specs and budget, with
   Functions that users write behind the operator's back or without. *)
EXTENDS AgentReconciler, SequenceTheorems, TLAPS

USE UsesToolAssumption, BudgetAssumption, OtherAssumption

(* The elements of a sequence after Append and Tail. *)
LEMMA Appended ==
  ASSUME NEW S, NEW s \in Seq(S), NEW x \in S
  PROVE  /\ Append(s, x) \in Seq(S)
         /\ \A i \in DOMAIN Append(s, x) :
              Append(s, x)[i] = x \/ \E j \in DOMAIN s : Append(s, x)[i] = s[j]
<1>1. /\ Append(s, x) \in Seq(S)
      /\ Len(Append(s, x)) = Len(s) + 1
      /\ \A i \in 1..Len(s) : Append(s, x)[i] = s[i]
      /\ Append(s, x)[Len(s) + 1] = x
  BY AppendProperties
<1>2. DOMAIN s = 1..Len(s) /\ Len(s) \in Nat
      /\ DOMAIN Append(s, x) = 1..(Len(s) + 1)
  BY <1>1, LenProperties
<1>3. \A i \in 1..(Len(s) + 1) : i \in 1..Len(s) \/ i = Len(s) + 1
  BY <1>2
<1> QED BY <1>1, <1>2, <1>3

(* Taking the head of a watch leaves a sequence of the same versions: what
   SyncAgent and SyncFunction move into the cache was on its way before. *)
LEMMA Shifted ==
  ASSUME NEW S, NEW s \in Seq(S), s # <<>>
  PROVE  /\ Tail(s) \in Seq(S)
         /\ Head(s) \in S
         /\ \E j \in DOMAIN s : Head(s) = s[j]
         /\ \A i \in DOMAIN Tail(s) : \E j \in DOMAIN s : Tail(s)[i] = s[j]
<1>1. /\ Head(s) \in S /\ Tail(s) \in Seq(S) /\ Len(Tail(s)) = Len(s) - 1
      /\ \A i \in 1..Len(Tail(s)) : Tail(s)[i] = s[i + 1]
  BY HeadTailProperties
<1>2. DOMAIN s = 1..Len(s) /\ Len(s) \in Nat /\ Len(s) # 0
      /\ DOMAIN Tail(s) = 1..Len(Tail(s))
  BY <1>1, LenProperties, EmptySeq
<1>3. Head(s) = s[1] /\ 1 \in DOMAIN s
  BY <1>2
<1>4. \A i \in DOMAIN Tail(s) : i + 1 \in DOMAIN s
  BY <1>1, <1>2
<1> QED BY <1>1, <1>2, <1>3, <1>4

-----------------------------------------------------------------------------
(* The versions of an agent on their way to the operator *)
Sent(a) == {agentWatch[a][i] : i \in DOMAIN agentWatch[a]}

(* A write of Agent a makes a version newer than all copies, or it deletes. *)
Newer(a) ==
  /\ agent'[a].rv >= agent[a].rv
  /\ agent'[a].live => agent'[a].rv > agent[a].rv

(* Copies of agents move from the API server to the watch, from there to the
   cache and on to the worker; nothing else makes one. *)
Traced ==
  \A a \in Agent :
    /\ agent'[a] = agent[a] \/ Newer(a)
    /\ stored[a] \subseteq stored'[a]
    /\ agent'[a].resp >= 1 => agent'[a].resp \in stored'[a]
    /\ agentCache'[a] \in Copies(a) \union {agent'[a]}
    /\ Sent(a)' \subseteq Copies(a) \union {agent'[a]}
    /\ a \in req' => memAgent' \in Copies(a) \union {agent'[a]}

(* The parts of the invariant about copies of Agents survive any step whose
   copies are traced: each was a copy before or is the Agent just saved. *)
LEMMA CopiesStep ==
  ASSUME TypeOK, CopiesInv, TopicsInv, Traced, agent' \in [Agent -> AgentObject]
  PROVE  CopiesInv' /\ TopicsInv'
<1> SUFFICES ASSUME NEW a \in Agent,
                    NEW c \in Copies(a) \union {agent[a]} \union {agent'[a]}
             PROVE  /\ c.rv <= agent'[a].rv
                    /\ c.live /\ agent'[a].live /\ c.rv = agent'[a].rv =>
                         c.uid = agent'[a].uid /\ c.v = agent'[a].v /\ c.resp = agent'[a].resp
                    /\ c.resp >= 1 => c.resp \in stored'[a]
  <2>1. \A a \in Agent : Copies(a)' \subseteq Copies(a) \union {agent'[a]}
    BY DEF Traced, Copies, Sent
  <2> QED BY <2>1 DEF CopiesInv, TopicsInv
<1>1. \A x \in Copies(a) : x \in AgentObject
  BY DEF TypeOK, Copies
<1>2. agent[a] \in AgentObject /\ agent'[a] \in AgentObject
  BY DEF TypeOK
<1>3. /\ agent'[a] = agent[a] \/ Newer(a)
      /\ stored[a] \subseteq stored'[a]
      /\ agent'[a].resp >= 1 => agent'[a].resp \in stored'[a]
  BY DEF Traced
<1>4. /\ c \in Copies(a) \union {agent[a]} => c.rv <= agent[a].rv
      /\ c \in Copies(a) /\ c.live /\ agent[a].live /\ c.rv = agent[a].rv =>
           c.uid = agent[a].uid /\ c.v = agent[a].v /\ c.resp = agent[a].resp
      /\ c \in Copies(a) \union {agent[a]} => (c.resp >= 1 => c.resp \in stored[a])
  BY <1>2 DEF CopiesInv, TopicsInv, AgentObject
<1>5. c \in AgentObject
  BY <1>1, <1>2
<1> QED BY <1>2, <1>3, <1>4, <1>5 DEF Newer, AgentObject

(* Saving an Agent adds its new version to what is sent, and nothing else. *)
LEMMA SaveAgentLemma ==
  ASSUME TypeOK, NEW a \in Agent, NEW ag \in AgentObject, SaveAgent(a, ag)
  PROVE  /\ agent' \in [Agent -> AgentObject]
         /\ agentWatch' \in [Agent -> Seq(AgentObject)]
         /\ agent'[a] = ag
         /\ \A b \in Agent : b # a => agent'[b] = agent[b]
         /\ \A b \in Agent : Sent(b)' \subseteq Copies(b) \union {agent'[b]}
<1>1. /\ agent' = [agent EXCEPT ![a] = ag]
      /\ agentWatch' = [agentWatch EXCEPT ![a] = Append(agentWatch[a], ag)]
      /\ agentWatch \in [Agent -> Seq(AgentObject)]
      /\ agent \in [Agent -> AgentObject]
  BY DEF SaveAgent, TypeOK
<1>2. /\ Append(agentWatch[a], ag) \in Seq(AgentObject)
      /\ \A i \in DOMAIN Append(agentWatch[a], ag) :
           \/ Append(agentWatch[a], ag)[i] = ag
           \/ \E j \in DOMAIN agentWatch[a] : Append(agentWatch[a], ag)[i] = agentWatch[a][j]
  BY <1>1, Appended
<1>3. ASSUME NEW b \in Agent PROVE Sent(b)' \subseteq Copies(b) \union {agent'[b]}
  <2>1. CASE b = a
    <3>1. agentWatch'[a] = Append(agentWatch[a], ag) /\ agent'[a] = ag
      BY <1>1
    <3> QED BY <1>2, <2>1, <3>1 DEF Sent, Copies
  <2>2. CASE b # a
    BY <1>1, <2>2 DEF Sent, Copies
  <2> QED BY <2>1, <2>2
<1> QED BY <1>1, <1>2, <1>3

(* A step that writes Agent a, and keeps the topics stored, is traced. *)
LEMMA WriteTraced ==
  ASSUME TypeOK, TopicsInv, NEW a \in Agent, NEW ag \in AgentObject, SaveAgent(a, ag),
         ag.rv >= agent[a].rv, ag.live => ag.rv > agent[a].rv,
         \A b \in Agent : stored[b] \subseteq stored'[b],
         ag.resp >= 1 => ag.resp \in stored'[a],
         agentCache' = agentCache,
         \A b \in Agent : b \in req' => memAgent' \in Copies(b) \union {agent'[b]}
  PROVE  Traced
<1> SUFFICES ASSUME NEW b \in Agent
             PROVE  /\ agent'[b] = agent[b] \/ Newer(b)
                    /\ agent'[b].resp >= 1 => agent'[b].resp \in stored'[b]
  BY SaveAgentLemma DEF Traced, Copies
<1>1. CASE b = a
  BY <1>1, SaveAgentLemma DEF Newer
<1>2. CASE b # a
  <2>1. agent'[b] = agent[b]
    BY <1>2, SaveAgentLemma
  <2>2. agent[b].resp >= 1 => agent[b].resp \in stored[b]
    BY DEF TopicsInv
  <2> QED BY <2>1, <2>2
<1> QED BY <1>1, <1>2

(* What a write of a Function does to the API server: that Function and its
   watch change, no other. *)
LEMMA SaveFunctionLemma ==
  ASSUME TypeOK, NEW a \in Agent, NEW f \in FunctionObject, SaveFunction(a, f)
  PROVE  /\ function' \in [Agent -> FunctionObject]
         /\ functionWatch' \in [Agent -> Seq(FunctionObject)]
         /\ function'[a] = f
         /\ \A b \in Agent : b # a => function'[b] = function[b]
<1>1. Append(functionWatch[a], f) \in Seq(FunctionObject)
  BY Appended DEF TypeOK
<1> QED BY <1>1 DEF SaveFunction, TypeOK

(* A step that leaves Agents and the agent cache alone moves no copy, except
   to the worker. *)
LEMMA QuietTraced ==
  ASSUME TypeOK, TopicsInv, UNCHANGED <<agents, agentCache>>,
         \A a \in Agent : a \in req' => memAgent' \in Copies(a)
  PROVE  Traced
<1>1. agent' = agent /\ agentWatch' = agentWatch /\ stored' = stored /\ agentCache' = agentCache
  BY DEF agents
<1> QED BY <1>1 DEF Traced, TopicsInv, Copies, Sent

(* What a step owes to the invariant besides the two parts about copies *)
Rest == Traced /\ TypeOK' /\ WorkerInv' /\ DeployedTopicStored'

(* Rest is all a step has to show: CopiesStep gives the remaining parts. *)
LEMMA RestSuffices == ASSUME CopyInv, Rest PROVE CopyInv'
<1>1. CopiesInv' /\ TopicsInv'
  BY CopiesStep DEF CopyInv, Rest, TypeOK
<1> QED BY <1>1 DEF CopyInv, Rest

-----------------------------------------------------------------------------
(* Done leaves nobody being reconciled. *)
LEMMA DoneLemma ==
  ASSUME Done
  PROVE  /\ WorkerInv' /\ req' = {} /\ pc' = "idle"
         /\ memAgent' \in AgentObject /\ memFunction' \in FunctionObject /\ want' \in FunctionSpec
BY DEF Done, WorkerInv, NoAgent, NoFunction, NoSpec, AgentObject, FunctionObject, FunctionSpec,
   NoSource

(* Plan goes on with a live Agent that has a topic. *)
LEMMA PlanLemma ==
  ASSUME TypeOK, NEW a \in Agent, NEW ag \in AgentObject, ag.live, ag.resp >= 1,
         Plan(a, ag), req' = {a}
  PROVE  /\ WorkerInv' /\ memAgent' = ag
         /\ pc' \in {"create", "update", "status"}
         /\ memFunction' \in FunctionObject /\ want' \in FunctionSpec
<1>1. /\ memAgent' = ag /\ want' = Desired(ag) /\ memFunction' = functionCache[a]
      /\ pc' \in {"create", "update", "status"}
  BY DEF Plan
<1>2. Desired(ag) \in FunctionSpec /\ Desired(ag).topic = ag.resp /\ Desired(ag).v = ag.v
  BY DEF Desired, FunctionSpec, AgentObject, TypeOK
<1>3. memFunction' \in FunctionObject
  BY <1>1 DEF TypeOK
<1>4. WorkerInv'
  BY <1>1, <1>2 DEF WorkerInv
<1> QED BY <1>1, <1>2, <1>3, <1>4

(* The worker takes up an agent it has seen. *)
LEMMA BeginRest == ASSUME CopyInv, NEW a \in Agent, Begin(a) PROVE Rest
<1>1. /\ UNCHANGED <<agents, functions, tool, budget, caches>>
      /\ queue' \subseteq Agent
  BY DEF Begin, objects, CopyInv, TypeOK
<1>2. agentCache[a] \in AgentObject /\ agentCache[a] \in Copies(a)
  BY DEF CopyInv, TypeOK, Copies
<1>3. /\ WorkerInv' /\ req' \subseteq {a} /\ req' \subseteq Agent
      /\ pc' \in {"idle", "setTopic", "update", "create", "status"}
      /\ memAgent' \in AgentObject /\ memFunction' \in FunctionObject /\ want' \in FunctionSpec
      /\ a \in req' => memAgent' = agentCache[a]
  <2>1. CASE Done
    BY <2>1, DoneLemma
  <2>2. CASE /\ agentCache[a].live /\ req' = {a} /\ pc' = "setTopic" /\ memAgent' = agentCache[a]
             /\ agentCache[a].resp = NoSource /\ UNCHANGED <<memFunction, want>>
    BY <1>2, <2>2 DEF WorkerInv, CopyInv, TypeOK
  <2>3. CASE /\ agentCache[a].live /\ req' = {a} /\ agentCache[a].resp >= 1
             /\ Plan(a, agentCache[a])
    BY <1>2, <2>3, PlanLemma DEF CopyInv
  <2> QED BY <2>1, <2>2, <2>3 DEF Begin
<1>4. Traced
  BY <1>1, <1>2, <1>3, QuietTraced DEF CopyInv, caches
<1>5. TypeOK'
  BY <1>1, <1>3 DEF CopyInv, TypeOK, agents, functions, caches
<1>6. DeployedTopicStored'
  BY <1>1 DEF CopyInv, DeployedTopicStored, agents, functions
<1> QED BY <1>3, <1>4, <1>5, <1>6 DEF Rest

(* The Agent with a generated topic is an Agent. *)
LEMMA WithNewTopic ==
  ASSUME NEW ob \in AgentObject, NEW t \in Nat
  PROVE  /\ [ob EXCEPT !.resp = t + 1, !.rv = @ + 1] \in AgentObject
         /\ [ob EXCEPT !.resp = t + 1, !.rv = @ + 1].live = ob.live
         /\ [ob EXCEPT !.resp = t + 1, !.rv = @ + 1].resp = t + 1
         /\ [ob EXCEPT !.resp = t + 1, !.rv = @ + 1].rv = ob.rv + 1
<1>1. ob.rv + 1 \in Nat /\ t + 1 \in Int
  BY DEF AgentObject
<1> QED BY <1>1 DEF AgentObject

(* The generated topic is stored with the write that hands it on. *)
LEMMA SetTopicRest == ASSUME CopyInv, NEW a \in Agent, SetTopic(a) PROVE Rest
<1>0. /\ pc = "setTopic" /\ req = {a} /\ UNCHANGED <<functions, tool, budget, caches>>
      /\ memAgent \in AgentObject /\ memAgent.live /\ memAgent \in Copies(a)
  BY DEF SetTopic, CopyInv, TypeOK, WorkerInv, Copies
<1>1. CASE ~Accepts(agent[a], memAgent)
  <2>1. Done /\ queue' = queue \union {a} /\ UNCHANGED agents
    BY <1>1 DEF SetTopic, Requeue
  <2>2. Traced
    BY <1>0, <2>1, DoneLemma, QuietTraced DEF CopyInv, caches
  <2>3. TypeOK'
    BY <1>0, <2>1, DoneLemma DEF CopyInv, TypeOK, agents, functions, caches
  <2>4. DeployedTopicStored'
    BY <1>0, <2>1 DEF CopyInv, DeployedTopicStored, agents, functions
  <2> QED BY <2>1, <2>2, <2>3, <2>4, DoneLemma DEF Rest
<1>2. CASE Accepts(agent[a], memAgent)
  <2> DEFINE ag == [memAgent EXCEPT !.resp = topics + 1, !.rv = @ + 1]
  <2>1. /\ SaveAgent(a, ag)
        /\ topics' = topics + 1
        /\ stored' = [stored EXCEPT ![a] = @ \union {topics + 1}]
        /\ \/ Plan(a, ag) /\ UNCHANGED <<req, queue>>
           \/ Requeue(a)
    BY <1>2 DEF SetTopic
  <2>2. /\ ag \in AgentObject /\ ag.live /\ ag.resp = topics + 1 /\ topics \in Nat
        /\ ag.resp >= 1 /\ ag.rv > agent[a].rv
    <3>1. topics \in Nat /\ agent[a].rv = memAgent.rv /\ memAgent.rv \in Nat
      <4>1. topics \in Nat BY DEF CopyInv, TypeOK
      <4>2. agent[a].rv = memAgent.rv BY <1>2 DEF Accepts
      <4>3. memAgent.rv \in Nat BY <1>0 DEF AgentObject
      <4> QED BY <4>1, <4>2, <4>3
    <3>2. /\ ag \in AgentObject /\ ag.live = memAgent.live /\ ag.resp = topics + 1
          /\ ag.rv = memAgent.rv + 1
      BY <1>0, <3>1, WithNewTopic
    <3> QED BY <1>0, <3>1, <3>2
  <2> HIDE DEF ag
  <2>3. /\ stored' \in [Agent -> SUBSET (1..topics')]
        /\ \A b \in Agent : stored[b] \subseteq stored'[b]
        /\ topics + 1 \in stored'[a]
    BY <2>1, <2>2 DEF CopyInv, TypeOK
  <2>4. /\ WorkerInv' /\ req' \subseteq {a} /\ queue' \subseteq Agent
        /\ pc' \in {"idle", "setTopic", "update", "create", "status"}
        /\ memAgent' \in AgentObject /\ memFunction' \in FunctionObject /\ want' \in FunctionSpec
        /\ a \in req' => memAgent' = ag
    <3>1. CASE Plan(a, ag) /\ UNCHANGED <<req, queue>>
      BY <1>0, <2>2, <3>1, PlanLemma DEF CopyInv, TypeOK
    <3>2. CASE Requeue(a)
      BY <3>2, DoneLemma DEF Requeue, CopyInv, TypeOK
    <3> QED BY <2>1, <3>1, <3>2
  <2>5. /\ agent' \in [Agent -> AgentObject] /\ agentWatch' \in [Agent -> Seq(AgentObject)]
        /\ agent'[a] = ag /\ \A b \in Agent : b # a => agent'[b] = agent[b]
        /\ \A b \in Agent : Sent(b)' \subseteq Copies(b) \union {agent'[b]}
    BY <2>1, <2>2, SaveAgentLemma DEF CopyInv
  <2>6. Traced
    <3>1. agentCache' = agentCache /\ agent[a].rv \in Nat /\ ag.rv \in Nat
      BY <1>0, <2>2 DEF caches, CopyInv, TypeOK, AgentObject
    <3>2. \A b \in Agent : b \in req' => memAgent' \in Copies(b) \union {agent'[b]}
      BY <2>4, <2>5
    <3>3. ag.rv >= agent[a].rv
      BY <2>2, <3>1
    <3> QED BY <2>1, <2>2, <2>3, <3>1, <3>2, <3>3, WriteTraced DEF CopyInv
  <2>7. TypeOK'
    BY <1>0, <2>1, <2>2, <2>3, <2>4, <2>5 DEF CopyInv, TypeOK, functions, caches
  <2>8. DeployedTopicStored'
    BY <1>0, <2>3 DEF CopyInv, DeployedTopicStored, functions
  <2> QED BY <2>4, <2>6, <2>7, <2>8 DEF Rest
<1> QED BY <1>1, <1>2

-----------------------------------------------------------------------------
(* The worker's own state after a step *)
LocalKept ==
  /\ WorkerInv'
  /\ pc' \in {"idle", "setTopic", "update", "create", "status"}
  /\ req' \subseteq req
  /\ memAgent' \in AgentObject /\ memFunction' \in FunctionObject /\ want' \in FunctionSpec
  /\ req' # {} => memAgent' = memAgent

(* A step that leaves Reconcile's variables alone, ends the reconcile, or goes
   on from the write of the Function to the status keeps what they satisfy. *)
LEMMA LocalKeptLemma ==
  ASSUME CopyInv, \/ UNCHANGED local
               \/ Done
               \/ /\ pc \in {"update", "create"} /\ pc' = "status"
                  /\ UNCHANGED <<req, memAgent, memFunction, want>>
  PROVE  LocalKept
<1>1. CASE UNCHANGED local
  BY <1>1 DEF local, LocalKept, CopyInv, TypeOK, WorkerInv
<1>2. CASE Done
  BY <1>2, DoneLemma DEF LocalKept
<1>3. CASE pc \in {"update", "create"} /\ pc' = "status"
           /\ UNCHANGED <<req, memAgent, memFunction, want>>
  BY <1>3 DEF LocalKept, CopyInv, TypeOK, WorkerInv
<1> QED BY <1>1, <1>2, <1>3

(* A step that leaves Agents, their cache and the Functions alone *)
LEMMA IdleRest ==
  ASSUME CopyInv, UNCHANGED <<agents, functions, caches>>, LocalKept,
         tool' \in Nat, budget' \in 0..Budget, queue' \subseteq Agent
  PROVE  Rest
<1>1. \A a \in Agent : a \in req' => memAgent' \in Copies(a)
  BY DEF LocalKept, Copies
<1>2. Traced
  BY <1>1, QuietTraced DEF CopyInv, caches
<1>3. TypeOK'
  BY DEF CopyInv, TypeOK, agents, functions, caches, LocalKept
<1>4. DeployedTopicStored'
  BY DEF CopyInv, DeployedTopicStored, agents, functions
<1> QED BY <1>2, <1>3, <1>4 DEF Rest, LocalKept

(* A step that writes Function a *)
LEMMA FunctionRest ==
  ASSUME CopyInv, NEW a \in Agent, NEW f \in FunctionObject, SaveFunction(a, f),
         UNCHANGED <<agents, caches>>, LocalKept,
         f.live /\ f.spec # NoSpec => f.spec.topic \in stored[a],
         tool' \in Nat, budget' \in 0..Budget, queue' \subseteq Agent
  PROVE  Rest
<1>1. \A b \in Agent : b \in req' => memAgent' \in Copies(b)
  BY DEF LocalKept, Copies
<1>2. Traced
  BY <1>1, QuietTraced DEF CopyInv, caches
<1>3. TypeOK'
  BY SaveFunctionLemma DEF CopyInv, TypeOK, agents, caches, LocalKept
<1>4. DeployedTopicStored'
  <2> SUFFICES ASSUME NEW b \in Agent, function'[b].live, function'[b].spec # NoSpec
               PROVE  function'[b].spec.topic \in stored[b]
    BY DEF DeployedTopicStored, agents
  <2>1. CASE b = a
    BY <2>1, SaveFunctionLemma DEF CopyInv
  <2>2. CASE b # a
    <3>1. function'[b] = function[b]
      BY <2>2, SaveFunctionLemma DEF CopyInv
    <3> QED BY <3>1 DEF CopyInv, DeployedTopicStored
  <2> QED BY <2>1, <2>2
<1> QED BY <1>2, <1>3, <1>4 DEF Rest, LocalKept

(* What the worker deploys listens to a stored topic. *)
LEMMA WantStored ==
  ASSUME CopyInv, NEW a \in Agent, req = {a}, pc \in {"update", "create", "status"}
  PROVE  want.topic \in stored[a] /\ want \in FunctionSpec
<1>1. memAgent \in Copies(a) /\ memAgent.resp >= 1 /\ want.topic = memAgent.resp
  BY DEF CopyInv, WorkerInv, Copies
<1> QED BY <1>1 DEF CopyInv, TopicsInv, TypeOK

(* A reconcile that fails leaves a well-formed worker and workqueue. *)
LEMMA RequeueLemma ==
  ASSUME CopyInv, NEW a \in Agent, Requeue(a) \/ Conflict(a)
  PROVE  LocalKept /\ queue' \subseteq Agent
<1>1. Done /\ queue' \subseteq Agent
  BY DEF Requeue, Conflict, CopyInv, TypeOK
<1> QED BY <1>1, LocalKeptLemma

(* Updating the Function deploys the topic of the Agent in hand. *)
LEMMA UpdateFunctionRest == ASSUME CopyInv, NEW a \in Agent, UpdateFunction(a) PROVE Rest
<1>0. /\ pc = "update" /\ req = {a} /\ UNCHANGED <<agents, tool, budget, caches>>
      /\ tool' \in Nat /\ budget' \in 0..Budget /\ function[a] \in FunctionObject
  BY DEF UpdateFunction, CopyInv, TypeOK
<1>1. CASE Accepts(function[a], memFunction)
  <2> DEFINE f == [function[a] EXCEPT !.spec = want, !.label = TRUE, !.rv = @ + 1]
  <2>1. /\ SaveFunction(a, f) /\ pc' = "status"
        /\ UNCHANGED <<req, memAgent, memFunction, want, queue>>
    BY <1>1 DEF UpdateFunction, Accepts
  <2>2. f \in FunctionObject /\ f.spec = want
    <3>1. want \in FunctionSpec /\ function[a].rv + 1 \in Nat
      BY <1>0, WantStored DEF FunctionObject
    <3> QED BY <1>0, <3>1 DEF FunctionObject
  <2> HIDE DEF f
  <2>3. LocalKept
    BY <1>0, <2>1, LocalKeptLemma
  <2>4. queue' \subseteq Agent
    BY <2>1 DEF CopyInv, TypeOK
  <2> QED BY <1>0, <2>1, <2>2, <2>3, <2>4, WantStored, FunctionRest
<1>2. CASE ~Accepts(function[a], memFunction)
  <2>1. UNCHANGED functions /\ (Requeue(a) \/ Conflict(a))
    BY <1>2 DEF UpdateFunction, Accepts
  <2> QED BY <1>0, <2>1, RequeueLemma, IdleRest
<1> QED BY <1>1, <1>2

(* So does creating it. *)
LEMMA CreateFunctionRest == ASSUME CopyInv, NEW a \in Agent, CreateFunction(a) PROVE Rest
<1>0. /\ pc = "create" /\ req = {a} /\ UNCHANGED <<agents, tool, budget, caches>>
      /\ tool' \in Nat /\ budget' \in 0..Budget /\ function[a] \in FunctionObject
      /\ memAgent \in AgentObject
  BY DEF CreateFunction, CopyInv, TypeOK
<1>1. CASE ~function[a].live
  <2> DEFINE f == [live |-> TRUE, rv |-> function[a].rv + 1,
                   owner |-> memAgent.uid, label |-> TRUE, spec |-> want, status |-> 0]
  <2>1. /\ SaveFunction(a, f) /\ pc' = "status"
        /\ UNCHANGED <<req, memAgent, memFunction, want, queue>>
    BY <1>1 DEF CreateFunction
  <2>2. f \in FunctionObject /\ f.spec = want
    <3>1. want \in FunctionSpec /\ function[a].rv + 1 \in Nat /\ memAgent.uid \in Nat
      BY <1>0, WantStored DEF FunctionObject, AgentObject
    <3> QED BY <3>1 DEF FunctionObject
  <2> HIDE DEF f
  <2>3. LocalKept
    BY <1>0, <2>1, LocalKeptLemma
  <2>4. queue' \subseteq Agent
    BY <2>1 DEF CopyInv, TypeOK
  <2> QED BY <1>0, <2>1, <2>2, <2>3, <2>4, WantStored, FunctionRest
<1>2. CASE function[a].live
  <2>1. UNCHANGED functions /\ Requeue(a)
    BY <1>2 DEF CreateFunction
  <2> QED BY <1>0, <2>1, RequeueLemma, IdleRest
<1> QED BY <1>1, <1>2

(* Mirroring the status changes no topic. *)
LEMMA UpdateStatusRest == ASSUME CopyInv, NEW a \in Agent, UpdateStatus(a) PROVE Rest
<1>0. /\ UNCHANGED <<functions, tool, topics, stored, budget, caches>>
      /\ tool' \in Nat /\ budget' \in 0..Budget
      /\ agent[a] \in AgentObject /\ functionCache[a].status \in Nat
      /\ req = {a}
  BY DEF UpdateStatus, CopyInv, TypeOK, FunctionObject
<1>1. LocalKept /\ queue' \subseteq Agent
  <2>1. Done /\ queue' \subseteq Agent
    BY DEF UpdateStatus, Requeue, Conflict, CopyInv, TypeOK
  <2> QED BY <2>1, LocalKeptLemma
<1>2. CASE UNCHANGED <<agent, agentWatch>>
  <2>1. UNCHANGED agents
    BY <1>0, <1>2 DEF agents
  <2> QED BY <1>0, <1>1, <2>1, IdleRest
<1>3. CASE ~UNCHANGED <<agent, agentWatch>>
  <2> DEFINE ag == [agent[a] EXCEPT !.status = functionCache[a].status, !.rv = @ + 1]
  <2>1. SaveAgent(a, ag)
    BY <1>3 DEF UpdateStatus
  <2>2. /\ ag \in AgentObject /\ ag.resp = agent[a].resp
        /\ ag.rv = agent[a].rv + 1 /\ agent[a].rv \in Nat
    <3>1. agent[a].rv + 1 \in Nat /\ agent[a].rv \in Nat
      BY <1>0 DEF AgentObject
    <3> QED BY <1>0, <3>1 DEF AgentObject
  <2> HIDE DEF ag
  <2>3. ag.resp >= 1 => ag.resp \in stored[a]
    BY <2>2 DEF CopyInv, TopicsInv
  <2>4. ag.rv >= agent[a].rv /\ ag.rv > agent[a].rv
    BY <2>2
  <2>5. Traced
    <3>1. \A b \in Agent : b \in req' => memAgent' \in Copies(b)
      BY <1>1 DEF LocalKept, Copies
    <3>2. agentCache' = agentCache /\ stored' = stored
      BY <1>0 DEF caches
    <3> QED BY <2>1, <2>2, <2>3, <2>4, <3>1, <3>2, WriteTraced DEF CopyInv
  <2>6. TypeOK'
    BY <1>0, <1>1, <2>1, <2>2, SaveAgentLemma DEF CopyInv, TypeOK, functions, caches, LocalKept
  <2>7. DeployedTopicStored'
    BY <1>0 DEF CopyInv, DeployedTopicStored, functions
  <2> QED BY <1>1, <2>5, <2>6, <2>7 DEF Rest, LocalKept
<1> QED BY <1>2, <1>3

-----------------------------------------------------------------------------
(* The watches move copies into the caches. *)
LEMMA SyncAgentRest == ASSUME CopyInv, NEW a \in Agent, SyncAgent(a) PROVE Rest
<1>0. /\ UNCHANGED <<agent, topics, stored, functions, tool, budget, functionCache, local>>
      /\ agentWatch[a] # <<>> /\ agentWatch[a] \in Seq(AgentObject)
      /\ agentCache' = [agentCache EXCEPT ![a] = Head(agentWatch[a])]
      /\ agentWatch' = [agentWatch EXCEPT ![a] = Tail(agentWatch[a])]
      /\ queue' \subseteq Agent
  BY DEF SyncAgent, CopyInv, TypeOK
<1>1. /\ Tail(agentWatch[a]) \in Seq(AgentObject) /\ Head(agentWatch[a]) \in AgentObject
      /\ Head(agentWatch[a]) \in Copies(a)
      /\ \A i \in DOMAIN Tail(agentWatch[a]) : Tail(agentWatch[a])[i] \in Copies(a)
  BY <1>0, Shifted DEF Copies
<1>2. LocalKept
  BY <1>0, LocalKeptLemma
<1>3. Traced
  <2> SUFFICES ASSUME NEW b \in Agent
               PROVE  /\ agentCache'[b] \in Copies(b)
                      /\ Sent(b)' \subseteq Copies(b)
                      /\ b \in req' => memAgent' \in Copies(b)
                      /\ agent[b].resp >= 1 => agent[b].resp \in stored[b]
    BY <1>0 DEF Traced
  <2>1. agentCache'[b] \in Copies(b)
    BY <1>0, <1>1 DEF CopyInv, TypeOK, Copies
  <2>2. Sent(b)' \subseteq Copies(b)
    <3>1. CASE b = a
      <4>1. agentWatch'[a] = Tail(agentWatch[a])
        BY <1>0 DEF CopyInv, TypeOK
      <4> QED BY <1>1, <3>1, <4>1 DEF Sent
    <3>2. CASE b # a
      <4>1. agentWatch'[b] = agentWatch[b]
        BY <1>0, <3>2 DEF CopyInv, TypeOK
      <4> QED BY <4>1 DEF Sent, Copies
    <3> QED BY <3>1, <3>2
  <2>3. b \in req' => memAgent' \in Copies(b)
    BY <1>2 DEF LocalKept, Copies
  <2> QED BY <2>1, <2>2, <2>3 DEF CopyInv, TopicsInv
<1>4. TypeOK'
  BY <1>0, <1>1, <1>2 DEF CopyInv, TypeOK, functions, LocalKept
<1>5. DeployedTopicStored'
  BY <1>0 DEF CopyInv, DeployedTopicStored, functions
<1> QED BY <1>2, <1>3, <1>4, <1>5 DEF Rest, LocalKept

(* Delivering a version of a Function to the cache keeps the invariant. *)
LEMMA SyncFunctionRest == ASSUME CopyInv, NEW a \in Agent, SyncFunction(a) PROVE Rest
<1>0. /\ UNCHANGED <<agents, function, tool, budget, agentCache, local>>
      /\ functionWatch[a] # <<>> /\ functionWatch[a] \in Seq(FunctionObject)
      /\ functionCache' = [functionCache EXCEPT ![a] = Head(functionWatch[a])]
      /\ functionWatch' = [functionWatch EXCEPT ![a] = Tail(functionWatch[a])]
      /\ queue' \subseteq Agent
  BY DEF SyncFunction, CopyInv, TypeOK
<1>1. Tail(functionWatch[a]) \in Seq(FunctionObject) /\ Head(functionWatch[a]) \in FunctionObject
  BY <1>0, Shifted
<1>2. LocalKept
  BY <1>0, LocalKeptLemma
<1>3. Traced
  <2>1. \A b \in Agent : b \in req' => memAgent' \in Copies(b)
    BY <1>2 DEF LocalKept, Copies
  <2> QED BY <1>0, <2>1, QuietTraced DEF CopyInv
<1>4. TypeOK'
  BY <1>0, <1>1, <1>2 DEF CopyInv, TypeOK, agents, LocalKept
<1>5. DeployedTopicStored'
  BY <1>0 DEF CopyInv, DeployedTopicStored, agents
<1> QED BY <1>2, <1>3, <1>4, <1>5 DEF Rest, LocalKept

(* A restarted operator holds the Agents as they are. *)
LEMMA RestartRest == ASSUME CopyInv, Restart PROVE Rest
<1>0. /\ UNCHANGED <<agent, function, tool, topics, stored>>
      /\ agentWatch' = [a \in Agent |-> <<>>] /\ functionWatch' = [a \in Agent |-> <<>>]
      /\ agentCache' = agent /\ functionCache' = function
      /\ queue' \subseteq Agent /\ budget' \in 0..Budget
  BY DEF Restart, CopyInv, TypeOK
<1>1. LocalKept /\ req' = {}
  BY LocalKeptLemma, DoneLemma DEF Restart
<1>2. Traced
  <2>1. \A a \in Agent : Sent(a)' = {}
    BY <1>0 DEF Sent
  <2> QED BY <1>0, <1>1, <2>1 DEF Traced, CopyInv, TopicsInv
<1>3. TypeOK'
  <2>1. <<>> \in Seq(AgentObject) /\ <<>> \in Seq(FunctionObject)
    BY EmptySeq
  <2> QED BY <1>0, <1>1, <2>1 DEF CopyInv, TypeOK, LocalKept
<1>4. DeployedTopicStored'
  BY <1>0 DEF CopyInv, DeployedTopicStored
<1> QED BY <1>1, <1>2, <1>3, <1>4 DEF Rest, LocalKept

-----------------------------------------------------------------------------
(* A step charged to the budget stays within it. *)
LEMMA SpendLemma ==
  ASSUME CopyInv, Spend \/ UNCHANGED budget PROVE budget' \in 0..Budget
BY DEF Spend, CopyInv, TypeOK

(* A user's Agent is newer than every copy of it. *)
LEMMA WriteAgentRest ==
  ASSUME CopyInv, NEW a \in Agent, NEW v \in Specs, NEW resp \in Int, WriteAgent(a, v, resp),
         resp >= 1 => resp = topics + 1 \/ resp \in stored[a]
  PROVE  Rest
<1> DEFINE ag == [live |-> TRUE,
                  uid |-> IF agent[a].live THEN agent[a].uid ELSE agent[a].uid + 1,
                  rv |-> agent[a].rv + 1, v |-> v, resp |-> resp,
                  status |-> IF agent[a].live THEN agent[a].status ELSE 0]
<1>0. /\ SaveAgent(a, ag) /\ Spend
      /\ topics' = (IF resp > topics THEN resp ELSE topics)
      /\ stored' = (IF resp > 0 THEN [stored EXCEPT ![a] = @ \union {resp}] ELSE stored)
      /\ UNCHANGED <<functions, tool, caches, queue, local>>
  BY DEF WriteAgent
<1>1. agent[a] \in AgentObject /\ topics \in Nat /\ stored \in [Agent -> SUBSET (1..topics)]
  BY DEF CopyInv, TypeOK
<1>2. ag \in AgentObject /\ ag.resp = resp /\ ag.rv > agent[a].rv /\ ag.rv >= agent[a].rv
  <2>1. /\ agent[a].rv \in Nat /\ agent[a].uid \in Nat /\ agent[a].status \in Nat
        /\ agent[a].rv + 1 \in Nat /\ agent[a].uid + 1 \in Nat
    BY <1>1 DEF AgentObject
  <2>2. ag \in AgentObject
    BY <2>1 DEF AgentObject
  <2> QED BY <2>1, <2>2
<1> HIDE DEF ag
<1>3. topics' \in Nat /\ topics <= topics'
  BY <1>0, <1>1
<1>4. /\ stored' \in [Agent -> SUBSET (1..topics')]
      /\ \A b \in Agent : stored[b] \subseteq stored'[b]
      /\ resp >= 1 => resp \in stored'[a]
  <2>1. \A b \in Agent : stored[b] \in SUBSET (1..topics')
    BY <1>1, <1>3
  <2>2. CASE resp > 0
    <3>1. resp \in 1..topics'
      BY <1>0, <1>1, <2>2
    <3> QED BY <1>0, <1>1, <2>1, <2>2, <3>1
  <2>3. CASE ~(resp > 0)
    BY <1>0, <1>1, <2>1, <2>3
  <2> QED BY <2>2, <2>3
<1>5. LocalKept
  BY <1>0, LocalKeptLemma
<1>6. Traced
  <2>1. \A b \in Agent : b \in req' => memAgent' \in Copies(b)
    BY <1>5 DEF LocalKept, Copies
  <2>2. agentCache' = agentCache
    BY <1>0 DEF caches
  <2> QED BY <1>0, <1>2, <1>4, <2>1, <2>2, WriteTraced DEF CopyInv
<1>7. TypeOK'
  BY <1>0, <1>2, <1>3, <1>4, <1>5, SaveAgentLemma, SpendLemma
     DEF CopyInv, TypeOK, functions, caches, LocalKept
<1>8. DeployedTopicStored'
  BY <1>0, <1>4 DEF CopyInv, DeployedTopicStored, functions
<1> QED BY <1>5, <1>6, <1>7, <1>8 DEF Rest, LocalKept

(* A user's write of an Agent keeps the invariant: its new version is the
   newest, and a topic the user chose is recorded as held. *)
LEMMA UserWritesRest == ASSUME CopyInv, NEW a \in Agent, UserWrites(a) PROVE Rest
<1>1. topics + 1 \in Int /\ agent[a].resp \in Int /\ NoSource \in Int /\ InvalidSource \in Int
  BY DEF CopyInv, TypeOK, AgentObject, NoSource, InvalidSource
<1>2. agent[a].resp >= 1 => agent[a].resp \in stored[a]
  BY DEF CopyInv, TopicsInv
<1>3. ~(NoSource >= 1) /\ ~(InvalidSource >= 1)
  BY DEF NoSource, InvalidSource
<1>4. PICK v \in Specs, resp \in {NoSource, InvalidSource, topics + 1, agent[a].resp} :
        WriteAgent(a, v, resp)
  BY DEF UserWrites
<1> QED BY <1>1, <1>2, <1>3, <1>4, WriteAgentRest

(* A deletion keeps the resourceVersion and is no live version. *)
LEMMA UserDeletesAgentRest == ASSUME CopyInv, NEW a \in Agent, UserDeletesAgent(a) PROVE Rest
<1> DEFINE ag == [NoAgent EXCEPT !.uid = agent[a].uid, !.rv = agent[a].rv]
<1>0. /\ SaveAgent(a, ag) /\ Spend
      /\ UNCHANGED <<topics, stored, functions, tool, caches, queue, local>>
  BY DEF UserDeletesAgent
<1>2. ag \in AgentObject /\ ~ag.live /\ ag.resp = 0 /\ ag.rv = agent[a].rv
      /\ agent[a].rv \in Nat
  <2>1. agent[a].uid \in Nat /\ agent[a].rv \in Nat
    BY DEF CopyInv, TypeOK, AgentObject
  <2>2. NoAgent \in AgentObject /\ ~NoAgent.live /\ NoAgent.resp = 0
    BY DEF NoAgent, NoSource, AgentObject
  <2>3. ag \in AgentObject
    BY <2>1, <2>2 DEF AgentObject
  <2>4. ag.live = NoAgent.live /\ ag.resp = NoAgent.resp /\ ag.rv = agent[a].rv
    BY <2>2 DEF AgentObject
  <2> QED BY <2>1, <2>2, <2>3, <2>4
<1> HIDE DEF ag
<1>5. LocalKept
  BY <1>0, LocalKeptLemma
<1>6. Traced
  <2>1. \A b \in Agent : b \in req' => memAgent' \in Copies(b)
    BY <1>5 DEF LocalKept, Copies
  <2>2. agentCache' = agentCache /\ ag.rv >= agent[a].rv /\ ~(ag.resp >= 1)
    BY <1>0, <1>2 DEF caches
  <2> QED BY <1>0, <1>2, <2>1, <2>2, WriteTraced DEF CopyInv
<1>7. TypeOK'
  BY <1>0, <1>2, <1>5, SaveAgentLemma, SpendLemma DEF CopyInv, TypeOK, functions, caches, LocalKept
<1>8. DeployedTopicStored'
  BY <1>0 DEF CopyInv, DeployedTopicStored, functions
<1> QED BY <1>5, <1>6, <1>7, <1>8 DEF Rest, LocalKept

(* What others do to Functions and tools deploys no topic. *)
LEMMA OthersRest ==
  ASSUME CopyInv,
         \/ ToolChanges
         \/ \E a \in Agent : UserCreatesFunction(a) \/ UserEditsFunction(a)
                \/ UserDeletesFunction(a) \/ FunctionReportsStatus(a) \/ CollectGarbage(a)
  PROVE  Rest
<1>0. budget' \in 0..Budget /\ UNCHANGED <<agents, caches, queue, local>>
  BY SpendLemma DEF ToolChanges, UserCreatesFunction, UserEditsFunction, UserDeletesFunction,
     FunctionReportsStatus, CollectGarbage
<1>1. LocalKept /\ queue' \subseteq Agent
  BY <1>0, LocalKeptLemma DEF CopyInv, TypeOK
<1>2. CASE ToolChanges
  BY <1>0, <1>1, <1>2, IdleRest DEF ToolChanges, CopyInv, TypeOK
<1>3. ASSUME NEW a \in Agent,
             UserCreatesFunction(a) \/ UserEditsFunction(a) \/ UserDeletesFunction(a)
               \/ FunctionReportsStatus(a) \/ CollectGarbage(a)
      PROVE  Rest
  <2>1. tool' \in Nat
    BY <1>3 DEF UserCreatesFunction, UserEditsFunction, UserDeletesFunction,
       FunctionReportsStatus, CollectGarbage, CopyInv, TypeOK
  <2>2. function[a] \in FunctionObject /\ function[a].rv + 1 \in Nat /\ function[a].rv \in Nat
        /\ function[a].status + 1 \in Nat /\ function[a].spec \in FunctionSpec
        /\ NoFunction \in FunctionObject /\ NoSpec \in FunctionSpec /\ ~NoFunction.live
        /\ NoFunction.spec = NoSpec
    <3>1. function[a] \in FunctionObject
      BY DEF CopyInv, TypeOK
    <3>2. /\ function[a].rv + 1 \in Nat /\ function[a].rv \in Nat
          /\ function[a].status + 1 \in Nat /\ function[a].spec \in FunctionSpec
      BY <3>1 DEF FunctionObject
    <3>3. NoSpec \in FunctionSpec
      BY DEF NoSpec, FunctionSpec, NoSource
    <3>4. NoFunction \in FunctionObject /\ ~NoFunction.live /\ NoFunction.spec = NoSpec
      BY <3>3 DEF NoFunction, FunctionObject
    <3> QED BY <3>1, <3>2, <3>3, <3>4
  <2>3. PICK f : SaveFunction(a, f) /\ f \in FunctionObject
                 /\ (~f.live \/ f.spec = NoSpec \/ (function[a].live /\ f.spec = function[a].spec))
    <3>1. CASE UserCreatesFunction(a)
      <4> DEFINE f == [NoFunction EXCEPT !.live = TRUE, !.rv = function[a].rv + 1]
      <4>1. SaveFunction(a, f)
        BY <3>1 DEF UserCreatesFunction
      <4>2. f \in FunctionObject /\ f.spec = NoSpec
        BY <2>2 DEF FunctionObject
      <4> QED BY <4>1, <4>2
    <3>2. CASE UserEditsFunction(a)
      <4> DEFINE f == [function[a] EXCEPT !.spec = NoSpec, !.rv = @ + 1]
                 g == [f EXCEPT !.label = FALSE, !.owner = 0]
      <4>1. SaveFunction(a, f) \/ SaveFunction(a, g)
        BY <3>2 DEF UserEditsFunction
      <4>2. f \in FunctionObject /\ f.spec = NoSpec
        BY <2>2 DEF FunctionObject
      <4> HIDE DEF f
      <4>3. g \in FunctionObject /\ g.spec = NoSpec
        BY <4>2 DEF FunctionObject
      <4> HIDE DEF g
      <4> QED BY <4>1, <4>2, <4>3
    <3>3. CASE UserDeletesFunction(a) \/ CollectGarbage(a)
      BY <2>2, <3>3 DEF UserDeletesFunction, CollectGarbage, RemoveFunction, FunctionObject
    <3>4. CASE FunctionReportsStatus(a)
      <4> DEFINE f == [function[a] EXCEPT !.status = @ + 1, !.rv = @ + 1]
      <4>1. SaveFunction(a, f) /\ function[a].live
        BY <3>4 DEF FunctionReportsStatus
      <4>2. f \in FunctionObject /\ f.spec = function[a].spec
        BY <2>2 DEF FunctionObject
      <4> HIDE DEF f
      <4> QED BY <4>1, <4>2
    <3> QED BY <1>3, <3>1, <3>2, <3>3, <3>4
  <2>4. f.live /\ f.spec # NoSpec => f.spec.topic \in stored[a]
    BY <2>3 DEF CopyInv, DeployedTopicStored
  <2> QED BY <1>0, <1>1, <2>1, <2>3, <2>4, FunctionRest
<1> QED BY <1>2, <1>3

-----------------------------------------------------------------------------
(* The operator starts with an empty cluster. *)
LEMMA InitCopyInv == Init => CopyInv
<1> SUFFICES ASSUME Init PROVE CopyInv OBVIOUS
<1>1. <<>> \in Seq(AgentObject) /\ <<>> \in Seq(FunctionObject)
  BY EmptySeq
<1>2. NoAgent \in AgentObject /\ NoFunction \in FunctionObject /\ NoSpec \in FunctionSpec
      /\ NoAgent.resp = 0 /\ ~NoFunction.live
  BY DEF NoAgent, NoFunction, NoSpec, AgentObject, FunctionObject, FunctionSpec, NoSource
<1>3. TypeOK
  BY <1>1, <1>2 DEF Init, TypeOK
<1>4. \A a \in Agent : Copies(a) = {NoAgent} /\ agent[a] = NoAgent
  <2> SUFFICES ASSUME NEW a \in Agent PROVE Copies(a) = {NoAgent} /\ agent[a] = NoAgent
    OBVIOUS
  <2>1. agent[a] = NoAgent /\ agentCache[a] = NoAgent /\ agentWatch[a] = <<>> /\ req = {}
    BY DEF Init
  <2>2. DOMAIN agentWatch[a] = {}
    BY <2>1
  <2> QED BY <2>1, <2>2 DEF Copies
<1>5. NoAgent.rv <= NoAgent.rv
  BY <1>2 DEF AgentObject
<1> QED BY <1>2, <1>3, <1>4, <1>5
        DEF Init, CopyInv, WorkerInv, CopiesInv, TopicsInv, DeployedTopicStored

(* The operator's steps and those of everybody else preserve the invariant. *)
LEMMA NextRest == ASSUME CopyInv, [Next]_vars PROVE Rest
<1>1. ASSUME NEW a \in Agent, Operator(a) PROVE Rest
  BY <1>1, BeginRest, SetTopicRest, UpdateFunctionRest, CreateFunctionRest, UpdateStatusRest,
     SyncAgentRest, SyncFunctionRest DEF Operator, Reconcile
<1>2. ASSUME NEW a \in Agent, Environment(a) PROVE Rest
  BY <1>2, UserWritesRest, UserDeletesAgentRest, OthersRest DEF Environment
<1>3. CASE Restart
  BY <1>3, RestartRest
<1>4. CASE ToolChanges
  BY <1>4, OthersRest
<1>5. CASE UNCHANGED vars
  <2>1. UNCHANGED <<agents, functions, caches, local>> /\ tool' = tool /\ budget' = budget
        /\ queue' = queue
    BY <1>5 DEF vars, objects
  <2> QED BY <2>1, LocalKeptLemma, IdleRest DEF CopyInv, TypeOK
<1> QED BY <1>1, <1>2, <1>3, <1>4, <1>5 DEF Next

-----------------------------------------------------------------------------
(* What a step does to Agent a, its watch and its cache *)
AgentKept(a) ==
  agent'[a] = agent[a] /\ agentWatch'[a] = agentWatch[a] /\ agentCache'[a] = agentCache[a]

AgentSaved(a) ==
  agentWatch'[a] = Append(agentWatch[a], agent'[a]) /\ agentCache'[a] = agentCache[a]

AgentSeen(a) ==
  /\ agentWatch[a] # <<>> /\ agent'[a] = agent[a]
  /\ agentCache'[a] = Head(agentWatch[a]) /\ agentWatch'[a] = Tail(agentWatch[a])
  /\ a \in queue'

AgentListed(a) ==
  Restart /\ agent'[a] = agent[a] /\ agentCache'[a] = agent[a] /\ agentWatch'[a] = <<>>

AgentMoves(a) == AgentKept(a) \/ AgentSaved(a) \/ AgentSeen(a) \/ AgentListed(a)

(* ... and to Function a, its watch and its cache *)
FunctionKept(a) ==
  /\ function'[a] = function[a] /\ functionWatch'[a] = functionWatch[a]
  /\ functionCache'[a] = functionCache[a]

FunctionSaved(a) ==
  /\ functionWatch'[a] = Append(functionWatch[a], function'[a])
  /\ functionCache'[a] = functionCache[a]
  /\ function'[a].live \/ function[a].live
  /\ a \notin Foreign /\ function'[a].live => function'[a].label /\ function'[a].owner # 0

FunctionSeen(a) ==
  /\ functionWatch[a] # <<>> /\ function'[a] = function[a]
  /\ functionCache'[a] = Head(functionWatch[a]) /\ functionWatch'[a] = Tail(functionWatch[a])
  /\ a \notin Foreign => a \in queue'

FunctionListed(a) ==
  /\ Restart /\ function'[a] = function[a]
  /\ functionCache'[a] = function[a] /\ functionWatch'[a] = <<>>

FunctionMoves(a) ==
  FunctionKept(a) \/ FunctionSaved(a) \/ FunctionSeen(a) \/ FunctionListed(a)

(* A write moves the Agent it writes and no other. *)
LEMMA SaveAgentMoves ==
  ASSUME CopyInv, NEW b \in Agent, NEW ag, SaveAgent(b, ag), UNCHANGED agentCache, NEW a \in Agent
  PROVE  AgentMoves(a)
<1>1. /\ agent \in [Agent -> AgentObject] /\ agentWatch \in [Agent -> Seq(AgentObject)]
      /\ agent' = [agent EXCEPT ![b] = ag]
      /\ agentWatch' = [agentWatch EXCEPT ![b] = Append(agentWatch[b], ag)]
  BY DEF CopyInv, TypeOK, SaveAgent
<1>2. CASE a = b
  BY <1>1, <1>2 DEF AgentMoves, AgentSaved
<1>3. CASE a # b
  BY <1>1, <1>3 DEF AgentMoves, AgentKept
<1> QED BY <1>2, <1>3

(* The same for a write of a Function that leaves the marks where they matter. *)
LEMMA SaveFunctionMoves ==
  ASSUME CopyInv, NEW b \in Agent, NEW f, SaveFunction(b, f), UNCHANGED functionCache,
         f.live \/ function[b].live,
         b \notin Foreign /\ f.live => f.label /\ f.owner # 0,
         NEW a \in Agent
  PROVE  FunctionMoves(a)
<1>1. /\ function \in [Agent -> FunctionObject]
      /\ functionWatch \in [Agent -> Seq(FunctionObject)]
      /\ function' = [function EXCEPT ![b] = f]
      /\ functionWatch' = [functionWatch EXCEPT ![b] = Append(functionWatch[b], f)]
  BY DEF CopyInv, TypeOK, SaveFunction
<1>2. CASE a = b
  BY <1>1, <1>2 DEF FunctionMoves, FunctionSaved
<1>3. CASE a # b
  BY <1>1, <1>3 DEF FunctionMoves, FunctionKept
<1> QED BY <1>2, <1>3

(* Every step saves, delivers or lists versions of Agents in order. *)
LEMMA AgentMovesLemma ==
  ASSUME CopyInv, [Next]_vars, NEW a \in Agent PROVE AgentMoves(a)
<1>1. CASE UNCHANGED <<agent, agentWatch, agentCache>>
  BY <1>1 DEF AgentMoves, AgentKept
<1>2. ASSUME NEW b \in Agent, SetTopic(b) \/ UpdateStatus(b), ~UNCHANGED <<agent, agentWatch>>
      PROVE  AgentMoves(a)
  BY <1>2, SaveAgentMoves DEF SetTopic, UpdateStatus, agents, caches
<1>3. ASSUME NEW b \in Agent, UserWrites(b) \/ UserDeletesAgent(b) PROVE AgentMoves(a)
  BY <1>3, SaveAgentMoves DEF UserWrites, WriteAgent, UserDeletesAgent, caches
<1>4. ASSUME NEW b \in Agent, SyncAgent(b) PROVE AgentMoves(a)
  <2>1. /\ agentCache \in [Agent -> AgentObject] /\ agentWatch \in [Agent -> Seq(AgentObject)]
        /\ agentCache' = [agentCache EXCEPT ![b] = Head(agentWatch[b])]
        /\ agentWatch' = [agentWatch EXCEPT ![b] = Tail(agentWatch[b])]
        /\ agent' = agent /\ b \in queue' /\ agentWatch[b] # <<>>
    BY <1>4 DEF CopyInv, TypeOK, SyncAgent
  <2>2. CASE a = b
    BY <2>1, <2>2 DEF AgentMoves, AgentSeen
  <2>3. CASE a # b
    BY <2>1, <2>3 DEF AgentMoves, AgentKept
  <2> QED BY <2>2, <2>3
<1>5. CASE Restart
  BY <1>5 DEF Restart, AgentMoves, AgentListed
<1>6. ASSUME NEW b \in Agent,
             \/ Begin(b) \/ UpdateFunction(b) \/ CreateFunction(b) \/ SyncFunction(b)
             \/ UserCreatesFunction(b) \/ UserEditsFunction(b) \/ UserDeletesFunction(b)
             \/ FunctionReportsStatus(b) \/ CollectGarbage(b)
      PROVE  UNCHANGED <<agent, agentWatch, agentCache>>
  BY <1>6 DEF Begin, UpdateFunction, CreateFunction, SyncFunction, UserCreatesFunction,
     UserEditsFunction, UserDeletesFunction, FunctionReportsStatus, CollectGarbage,
     objects, agents, caches
<1>7. ASSUME NEW b \in Agent, SetTopic(b) \/ UpdateStatus(b) PROVE UNCHANGED agentCache
  BY <1>7 DEF SetTopic, UpdateStatus, caches
<1>8. CASE ToolChanges \/ UNCHANGED vars
  BY <1>1, <1>8 DEF ToolChanges, vars, objects, agents, caches
<1> QED BY <1>1, <1>2, <1>3, <1>4, <1>5, <1>6, <1>7, <1>8
        DEF Next, Operator, Reconcile, Environment

(* The same for Functions: only a live one is deleted, and where nobody else
   writes Functions each carries the label and an owner. *)
LEMMA FunctionMovesLemma ==
  ASSUME CopyInv, RepairInv, [Next]_vars, NEW a \in Agent PROVE FunctionMoves(a)
<1>0. \A b \in Agent :
        /\ function[b] \in FunctionObject /\ functionWatch[b] \in Seq(FunctionObject)
        /\ Len(functionWatch[b]) \in Nat
        /\ b \notin Foreign /\ function[b].live => function[b].label /\ function[b].owner # 0
  <2> SUFFICES ASSUME NEW b \in Agent
               PROVE  /\ function[b] \in FunctionObject
                      /\ functionWatch[b] \in Seq(FunctionObject)
                      /\ Len(functionWatch[b]) \in Nat
                      /\ b \notin Foreign /\ function[b].live =>
                           function[b].label /\ function[b].owner # 0
    OBVIOUS
  <2>1. function[b] \in FunctionObject /\ functionWatch[b] \in Seq(FunctionObject)
    BY DEF CopyInv, TypeOK
  <2>2. Len(functionWatch[b]) \in Nat
    BY <2>1, LenProperties
  <2>3. FunctionVersion(b, Len(functionWatch[b])) = function[b]
    BY DEF RepairInv, WatchInv
  <2>4. Len(functionWatch[b]) \in 0..Len(functionWatch[b])
    BY <2>2
  <2> QED BY <2>1, <2>2, <2>3, <2>4 DEF RepairInv, OwnedInv
<1>1. CASE UNCHANGED <<function, functionWatch, functionCache>>
  BY <1>1 DEF FunctionMoves, FunctionKept
<1>2. ASSUME NEW b \in Agent, UpdateFunction(b), ~UNCHANGED functions PROVE FunctionMoves(a)
  <2> DEFINE f == [function[b] EXCEPT !.spec = want, !.label = TRUE, !.rv = @ + 1]
  <2>1. SaveFunction(b, f) /\ function[b].live /\ functionCache' = functionCache
    BY <1>2 DEF UpdateFunction, Accepts, caches
  <2>2. f.label = TRUE /\ f.owner = function[b].owner
    BY <1>0 DEF FunctionObject
  <2> HIDE DEF f
  <2> QED BY <1>0, <2>1, <2>2, SaveFunctionMoves
<1>3. ASSUME NEW b \in Agent, CreateFunction(b), ~UNCHANGED functions PROVE FunctionMoves(a)
  <2> DEFINE f == [live |-> TRUE, rv |-> function[b].rv + 1,
                   owner |-> memAgent.uid, label |-> TRUE, spec |-> want, status |-> 0]
  <2>1. SaveFunction(b, f) /\ functionCache' = functionCache /\ req = {b}
    BY <1>3 DEF CreateFunction, caches
  <2>2. f.live = TRUE /\ f.label = TRUE /\ f.owner = memAgent.uid
    OBVIOUS
  <2>3. memAgent.live /\ memAgent \in Copies(b)
    BY <2>1 DEF CopyInv, WorkerInv, Copies
  <2>4. memAgent.uid # 0
    BY <2>3 DEF RepairInv, OwnedInv
  <2> HIDE DEF f
  <2> QED BY <2>1, <2>2, <2>4, SaveFunctionMoves
<1>4. ASSUME NEW b \in Agent, UserCreatesFunction(b) PROVE FunctionMoves(a)
  <2> DEFINE f == [NoFunction EXCEPT !.live = TRUE, !.rv = function[b].rv + 1]
  <2>1. SaveFunction(b, f) /\ functionCache' = functionCache /\ b \in Foreign
    BY <1>4 DEF UserCreatesFunction, caches
  <2>2. f.live = TRUE
    BY DEF NoFunction
  <2> HIDE DEF f
  <2> QED BY <2>1, <2>2, SaveFunctionMoves
<1>5. ASSUME NEW b \in Agent, UserEditsFunction(b) PROVE FunctionMoves(a)
  <2> DEFINE f == [function[b] EXCEPT !.spec = NoSpec, !.rv = @ + 1]
             g == [f EXCEPT !.label = FALSE, !.owner = 0]
  <2>1. /\ SaveFunction(b, f) \/ (b \in Foreign /\ SaveFunction(b, g))
        /\ functionCache' = functionCache /\ function[b].live
    BY <1>5 DEF UserEditsFunction, caches
  <2>2. f.label = function[b].label /\ f.owner = function[b].owner
    BY <1>0 DEF FunctionObject
  <2> HIDE DEF f, g
  <2> QED BY <1>0, <2>1, <2>2, SaveFunctionMoves
<1>6. ASSUME NEW b \in Agent, UserDeletesFunction(b) \/ CollectGarbage(b) PROVE FunctionMoves(a)
  <2> DEFINE f == [NoFunction EXCEPT !.rv = function[b].rv]
  <2>1. SaveFunction(b, f) /\ functionCache' = functionCache /\ function[b].live
    BY <1>6 DEF UserDeletesFunction, CollectGarbage, Garbage, RemoveFunction, caches
  <2>2. ~f.live
    BY DEF NoFunction
  <2> HIDE DEF f
  <2> QED BY <2>1, <2>2, SaveFunctionMoves
<1>7. ASSUME NEW b \in Agent, FunctionReportsStatus(b) PROVE FunctionMoves(a)
  <2> DEFINE f == [function[b] EXCEPT !.status = @ + 1, !.rv = @ + 1]
  <2>1. SaveFunction(b, f) /\ functionCache' = functionCache /\ function[b].live
    BY <1>7 DEF FunctionReportsStatus, caches
  <2>2. f.label = function[b].label /\ f.owner = function[b].owner
    BY <1>0 DEF FunctionObject
  <2> HIDE DEF f
  <2> QED BY <1>0, <2>1, <2>2, SaveFunctionMoves
<1>8. ASSUME NEW b \in Agent, SyncFunction(b) PROVE FunctionMoves(a)
  <2>1. /\ functionCache \in [Agent -> FunctionObject]
        /\ functionWatch \in [Agent -> Seq(FunctionObject)]
        /\ functionCache' = [functionCache EXCEPT ![b] = Head(functionWatch[b])]
        /\ functionWatch' = [functionWatch EXCEPT ![b] = Tail(functionWatch[b])]
        /\ function' = function /\ functionWatch[b] # <<>>
    BY <1>8 DEF CopyInv, TypeOK, SyncFunction
  <2>2. b \notin Foreign => b \in queue'
    <3> SUFFICES ASSUME b \notin Foreign PROVE b \in queue' OBVIOUS
    <3>1. 0 \in 0..Len(functionWatch[b]) /\ 1 \in 1..Len(functionWatch[b])
          /\ 1 \in 0..Len(functionWatch[b]) /\ 1 - 1 = 0
      BY <1>0, <2>1, EmptySeq
    <3>2. /\ FunctionVersion(b, 0) = functionCache[b]
          /\ FunctionVersion(b, 1) = Head(functionWatch[b])
      BY <2>1 DEF FunctionVersion, Version
    <3>3. FunctionVersion(b, 1).live \/ FunctionVersion(b, 0).live
      BY <3>1 DEF RepairInv, WatchInv
    <3>4. \A i \in {0, 1} : FunctionVersion(b, i).live =>
            FunctionVersion(b, i).label /\ FunctionVersion(b, i).owner # 0
      BY <3>1 DEF RepairInv, OwnedInv
    <3> QED BY <1>8, <3>2, <3>3, <3>4 DEF SyncFunction, HasAgentLabel
  <2>3. CASE a = b
    BY <2>1, <2>2, <2>3 DEF FunctionMoves, FunctionSeen
  <2>4. CASE a # b
    BY <2>1, <2>4 DEF FunctionMoves, FunctionKept
  <2> QED BY <2>3, <2>4
<1>9. CASE Restart
  BY <1>9 DEF Restart, FunctionMoves, FunctionListed
<1>10. ASSUME NEW b \in Agent,
              \/ Begin(b) \/ SetTopic(b) \/ UpdateStatus(b) \/ SyncAgent(b)
              \/ UserWrites(b) \/ UserDeletesAgent(b)
       PROVE  UNCHANGED <<function, functionWatch, functionCache>>
  BY <1>10 DEF Begin, SetTopic, UpdateStatus, SyncAgent, UserWrites, WriteAgent,
     UserDeletesAgent, objects, functions, caches
<1>11. ASSUME NEW b \in Agent, UpdateFunction(b) \/ CreateFunction(b) PROVE UNCHANGED functionCache
  BY <1>11 DEF UpdateFunction, CreateFunction, caches
<1>12. CASE ToolChanges \/ UNCHANGED vars
  BY <1>1, <1>12 DEF ToolChanges, vars, objects, functions, caches
<1>13. ASSUME NEW b \in Agent, UpdateFunction(b) \/ CreateFunction(b) PROVE FunctionMoves(a)
  BY <1>1, <1>2, <1>3, <1>11, <1>13 DEF functions
<1>14. ASSUME NEW b \in Agent, Operator(b) PROVE FunctionMoves(a)
  BY <1>1, <1>8, <1>10, <1>13, <1>14 DEF Operator, Reconcile
<1>15. ASSUME NEW b \in Agent, Environment(b) PROVE FunctionMoves(a)
  BY <1>1, <1>4, <1>5, <1>6, <1>7, <1>10, <1>15 DEF Environment
<1> QED BY <1>9, <1>12, <1>14, <1>15 DEF Next

-----------------------------------------------------------------------------
(* A write adds a version behind the others. *)
LEMMA VersionsAppended ==
  ASSUME NEW S, NEW s \in Seq(S), NEW x \in S, NEW c
  PROVE  /\ Len(Append(s, x)) = Len(s) + 1 /\ Len(s) \in Nat
         /\ Version(c, Append(s, x), Len(s) + 1) = x
         /\ \A i \in 0..Len(s) : Version(c, Append(s, x), i) = Version(c, s, i)
<1>1. /\ Len(Append(s, x)) = Len(s) + 1 /\ Len(s) \in Nat
      /\ \A i \in 1..Len(s) : Append(s, x)[i] = s[i]
      /\ Append(s, x)[Len(s) + 1] = x
  BY AppendProperties, LenProperties
<1>2. \A i \in 0..Len(s) : i = 0 \/ i \in 1..Len(s)
  BY <1>1
<1>3. Len(s) + 1 # 0
  BY <1>1
<1> QED BY <1>1, <1>2, <1>3 DEF Version

(* A delivery moves every version one place on. *)
LEMMA VersionsShifted ==
  ASSUME NEW S, NEW s \in Seq(S), s # <<>>, NEW c
  PROVE  /\ Len(Tail(s)) + 1 = Len(s) /\ Len(Tail(s)) \in Nat
         /\ \A i \in 0..Len(Tail(s)) : Version(Head(s), Tail(s), i) = Version(c, s, i + 1)
<1>1. /\ Len(Tail(s)) = Len(s) - 1 /\ Len(s) \in Nat /\ Len(s) # 0
      /\ \A i \in 1..Len(Tail(s)) : Tail(s)[i] = s[i + 1]
      /\ Head(s) = s[1]
  BY HeadTailProperties, LenProperties, EmptySeq
<1>2. \A i \in 0..Len(Tail(s)) : i + 1 # 0 /\ (i = 0 \/ i \in 1..Len(Tail(s)))
  BY <1>1
<1>3. Len(Tail(s)) + 1 = Len(s) /\ Len(Tail(s)) \in Nat
  BY <1>1
<1> QED BY <1>1, <1>2, <1>3 DEF Version

(* A watch goes on ending with the Agent as it is. *)
LEMMA AgentVersionStep ==
  ASSUME TypeOK, TypeOK', NEW a \in Agent, AgentMoves(a),
         AgentVersion(a, Len(agentWatch[a])) = agent[a]
  PROVE  AgentVersion(a, Len(agentWatch[a]))' = agent'[a]
<1>0. agentWatch[a] \in Seq(AgentObject) /\ agent'[a] \in AgentObject
  BY DEF TypeOK
<1>1. CASE AgentKept(a)
  BY <1>1 DEF AgentKept, AgentVersion
<1>2. CASE AgentSaved(a)
  BY <1>0, <1>2, VersionsAppended DEF AgentSaved, AgentVersion
<1>3. CASE AgentSeen(a)
  <2> DEFINE n == Len(Tail(agentWatch[a]))
  <2>1. /\ n + 1 = Len(agentWatch[a]) /\ n \in 0..n
        /\ \A i \in 0..n : Version(Head(agentWatch[a]), Tail(agentWatch[a]), i)
                             = Version(agentCache[a], agentWatch[a], i + 1)
    BY <1>0, <1>3, VersionsShifted DEF AgentSeen
  <2> QED BY <1>3, <2>1 DEF AgentSeen, AgentVersion
<1>4. CASE AgentListed(a)
  <2>1. Len(agentWatch'[a]) = 0
    BY <1>4, EmptySeq DEF AgentListed
  <2> QED BY <1>4, <2>1 DEF AgentListed, AgentVersion, Version
<1> QED BY <1>1, <1>2, <1>3, <1>4 DEF AgentMoves

(* What the watch of Function a tells: it ends with the Function as it is, no
   deletion comes first, and all is marked where nobody else writes. *)
ToldWell(a) ==
  /\ FunctionVersion(a, Len(functionWatch[a])) = function[a]
  /\ \A i \in 1..Len(functionWatch[a]) :
       FunctionVersion(a, i).live \/ FunctionVersion(a, i - 1).live
  /\ a \notin Foreign => \A i \in 0..Len(functionWatch[a]) :
       FunctionVersion(a, i).live =>
         FunctionVersion(a, i).label /\ FunctionVersion(a, i).owner # 0

(* It goes on telling so. *)
LEMMA FunctionVersionStep ==
  ASSUME TypeOK, TypeOK', NEW a \in Agent, FunctionMoves(a), ToldWell(a)
  PROVE  ToldWell(a)'
<1>0. /\ functionWatch[a] \in Seq(FunctionObject) /\ function'[a] \in FunctionObject
      /\ Len(functionWatch[a]) \in Nat
  <2>1. functionWatch[a] \in Seq(FunctionObject) /\ function'[a] \in FunctionObject
    BY DEF TypeOK
  <2> QED BY <2>1, LenProperties
<1> DEFINE n == Len(functionWatch[a])
           m == Len(functionWatch'[a])
           V(i) == Version(functionCache[a], functionWatch[a], i)
           W(i) == Version(functionCache'[a], functionWatch'[a], i)
<1>t. /\ V(n) = function[a]
      /\ \A i \in 1..n : V(i).live \/ V(i - 1).live
      /\ a \notin Foreign => \A i \in 0..n : V(i).live => V(i).label /\ V(i).owner # 0
  BY DEF ToldWell, FunctionVersion
<1> SUFFICES /\ W(m) = function'[a]
             /\ \A i \in 1..m : W(i).live \/ W(i - 1).live
             /\ a \notin Foreign => \A i \in 0..m : W(i).live => W(i).label /\ W(i).owner # 0
  BY DEF ToldWell, FunctionVersion
<1>1. CASE FunctionKept(a)
  BY <1>1, <1>t DEF FunctionKept
<1>2. CASE FunctionSaved(a)
  <2>1. /\ m = n + 1 /\ n \in Nat /\ W(n + 1) = function'[a]
        /\ \A i \in 0..n : W(i) = V(i)
    BY <1>0, <1>2, VersionsAppended DEF FunctionSaved
  <2> HIDE DEF n, m, V, W
  <2>2. \A i \in 1..m : i - 1 \in 0..n /\ (i = n + 1 \/ (i \in 0..n /\ i \in 1..n))
    BY <2>1
  <2>3. \A i \in 0..m : i = n + 1 \/ i \in 0..n
    BY <2>1
  <2>4. ASSUME NEW i \in 1..m PROVE W(i).live \/ W(i - 1).live
    <3>1. CASE i = n + 1
      <4>1. i - 1 = n /\ n \in 0..n
        BY <2>1, <3>1
      <4> QED BY <1>2, <1>t, <2>1, <3>1, <4>1 DEF FunctionSaved
    <3>2. CASE i \in 0..n /\ i \in 1..n
      BY <1>t, <2>1, <2>2, <3>2
    <3> QED BY <2>2, <3>1, <3>2
  <2>5. ASSUME a \notin Foreign, NEW i \in 0..m, W(i).live
        PROVE  W(i).label /\ W(i).owner # 0
    <3>1. CASE i = n + 1
      BY <1>2, <2>1, <2>5, <3>1 DEF FunctionSaved
    <3>2. CASE i \in 0..n
      BY <1>t, <2>1, <2>5, <3>2
    <3> QED BY <2>3, <3>1, <3>2
  <2> QED BY <2>1, <2>4, <2>5
<1>3. CASE FunctionSeen(a)
  <2>1. /\ m + 1 = n /\ m \in Nat /\ function'[a] = function[a]
        /\ \A i \in 0..m : W(i) = V(i + 1)
    BY <1>0, <1>3, VersionsShifted DEF FunctionSeen
  <2> HIDE DEF n, m, V, W
  <2>2. /\ m \in 0..m
        /\ \A i \in 0..m : i + 1 \in 0..n
        /\ \A i \in 1..m : i \in 0..m /\ i - 1 \in 0..m /\ i + 1 \in 1..n
                            /\ (i - 1) + 1 = i /\ (i + 1) - 1 = i
    BY <2>1
  <2>3. ASSUME NEW i \in 1..m PROVE W(i).live \/ W(i - 1).live
    <3>1. W(i) = V(i + 1) /\ W(i - 1) = V(i)
      BY <2>1, <2>2
    <3>2. V(i + 1).live \/ V(i).live
      BY <1>t, <2>2
    <3> QED BY <3>1, <3>2
  <2>4. W(m) = function'[a]
    BY <1>t, <2>1, <2>2
  <2>5. a \notin Foreign => \A i \in 0..m : W(i).live => W(i).label /\ W(i).owner # 0
    BY <1>t, <2>1, <2>2
  <2> QED BY <2>3, <2>4, <2>5
<1>4. CASE FunctionListed(a)
  <2>1. m = 0 /\ W(0) = function'[a] /\ function'[a] = V(n) /\ n \in 0..n
    BY <1>0, <1>4, <1>t, EmptySeq DEF FunctionListed, Version
  <2>2. 1..m = {} /\ 0..m = {0}
    BY <2>1
  <2> HIDE DEF n, m, V, W
  <2> QED BY <1>t, <2>1, <2>2
<1> QED BY <1>1, <1>2, <1>3, <1>4 DEF FunctionMoves

(* No step makes a live Agent without a uid. *)
LEMMA UidStep ==
  ASSUME CopyInv, OwnedInv, [Next]_vars, NEW a \in Agent, agent'[a].live
  PROVE  agent'[a].uid # 0
<1>0. \A b \in Agent : agent[b] \in AgentObject /\ (agent[b].live => agent[b].uid # 0)
  BY DEF CopyInv, TypeOK, OwnedInv
<1>1. CASE agent'[a] = agent[a]
  BY <1>0, <1>1
<1>2. ASSUME NEW b \in Agent, NEW ag, SaveAgent(b, ag), ag.live => ag.uid # 0
      PROVE  agent'[a].uid # 0
  BY <1>0, <1>2 DEF SaveAgent, CopyInv, TypeOK
<1>3. ASSUME NEW b \in Agent, SetTopic(b), ~UNCHANGED agents PROVE agent'[a].uid # 0
  <2> DEFINE ag == [memAgent EXCEPT !.resp = topics + 1, !.rv = @ + 1]
  <2>1. SaveAgent(b, ag) /\ req = {b} /\ memAgent \in Copies(b)
    BY <1>3 DEF SetTopic, Copies
  <2>2. memAgent \in AgentObject /\ memAgent.live
    BY <2>1 DEF CopyInv, WorkerInv, TypeOK
  <2>3. ag.uid = memAgent.uid /\ memAgent.uid # 0
    BY <2>1, <2>2 DEF OwnedInv, AgentObject
  <2> HIDE DEF ag
  <2> QED BY <1>2, <2>1, <2>3
<1>4. ASSUME NEW b \in Agent, UpdateStatus(b), ~UNCHANGED <<agent, agentWatch>>
      PROVE  agent'[a].uid # 0
  <2> DEFINE ag == [agent[b] EXCEPT !.status = functionCache[b].status, !.rv = @ + 1]
  <2>1. SaveAgent(b, ag)
    BY <1>4 DEF UpdateStatus
  <2>2. ag.live = agent[b].live /\ ag.uid = agent[b].uid
    BY <1>0 DEF AgentObject
  <2> HIDE DEF ag
  <2> QED BY <1>0, <1>2, <2>1, <2>2
<1>5. ASSUME NEW b \in Agent, NEW v, NEW resp, WriteAgent(b, v, resp) PROVE agent'[a].uid # 0
  <2> DEFINE ag == [live |-> TRUE,
                    uid |-> IF agent[b].live THEN agent[b].uid ELSE agent[b].uid + 1,
                    rv |-> agent[b].rv + 1, v |-> v, resp |-> resp,
                    status |-> IF agent[b].live THEN agent[b].status ELSE 0]
  <2>1. SaveAgent(b, ag)
    BY <1>5 DEF WriteAgent
  <2>2. agent[b].uid \in Nat /\ (agent[b].live => agent[b].uid # 0)
    BY <1>0 DEF AgentObject
  <2>3. ag.uid # 0
    BY <2>2
  <2> HIDE DEF ag
  <2> QED BY <1>2, <2>1, <2>3
<1>6. ASSUME NEW b \in Agent, UserDeletesAgent(b) PROVE agent'[a].uid # 0
  <2> DEFINE ag == [NoAgent EXCEPT !.uid = agent[b].uid, !.rv = agent[b].rv]
  <2>1. SaveAgent(b, ag)
    BY <1>6 DEF UserDeletesAgent
  <2>2. ~ag.live
    BY DEF NoAgent
  <2> HIDE DEF ag
  <2> QED BY <1>2, <2>1, <2>2
<1>7. ASSUME NEW b \in Agent,
             \/ Begin(b) \/ UpdateFunction(b) \/ CreateFunction(b) \/ SyncAgent(b)
             \/ SyncFunction(b) \/ UserCreatesFunction(b) \/ UserEditsFunction(b)
             \/ UserDeletesFunction(b) \/ FunctionReportsStatus(b) \/ CollectGarbage(b)
      PROVE  agent' = agent
  BY <1>7 DEF Begin, UpdateFunction, CreateFunction, SyncAgent, SyncFunction,
     UserCreatesFunction, UserEditsFunction, UserDeletesFunction, FunctionReportsStatus,
     CollectGarbage, objects, agents
<1>8. CASE Restart \/ ToolChanges \/ UNCHANGED vars
  BY <1>1, <1>8 DEF Restart, ToolChanges, vars, objects, agents
<1>9. ASSUME NEW b \in Agent, Operator(b) PROVE agent'[a].uid # 0
  BY <1>1, <1>3, <1>4, <1>7, <1>9 DEF Operator, Reconcile, agents
<1>10. ASSUME NEW b \in Agent, Environment(b) PROVE agent'[a].uid # 0
  BY <1>1, <1>5, <1>6, <1>7, <1>10 DEF Environment, UserWrites
<1> QED BY <1>8, <1>9, <1>10 DEF Next

(* The watches keep telling in order, and what they tell keeps coming back to
   the Agent. *)
LEMMA WatchStep ==
  ASSUME CopyInv, RepairInv, [Next]_vars PROVE WatchInv' /\ OwnedInv'
<1>1. Rest /\ TypeOK /\ TypeOK'
  BY NextRest DEF Rest, CopyInv
<1>2. \A a \in Agent : AgentVersion(a, Len(agentWatch[a]))' = agent'[a]
  BY <1>1, AgentMovesLemma, AgentVersionStep DEF RepairInv, WatchInv
<1>3. \A a \in Agent : ToldWell(a)
  BY DEF RepairInv, WatchInv, OwnedInv, ToldWell
<1>4. \A a \in Agent : ToldWell(a)'
  BY <1>1, <1>3, FunctionMovesLemma, FunctionVersionStep
<1>5. ASSUME NEW a \in Agent, NEW c \in (Copies(a) \union {agent[a]})', c.live
      PROVE  c.uid # 0
  <2>1. c \in Copies(a) \union {agent'[a]}
    BY <1>1 DEF Rest, Traced, Copies, Sent
  <2> QED BY <1>5, <2>1, UidStep DEF RepairInv, OwnedInv
<1> QED BY <1>2, <1>4, <1>5 DEF WatchInv, OwnedInv, ToldWell

-----------------------------------------------------------------------------
(* An agent that nothing disturbs after a step was read to the end before it,
   unless the operator has just restarted. *)
LEMMA StillStep ==
  ASSUME CopyInv, RepairInv, [Next]_vars, ~Restart,
         NEW a \in Agent \ Foreign, Undisturbed(a)'
  PROVE  /\ agent'[a] = agent[a] /\ function'[a] = function[a]
         /\ agentWatch[a] = <<>> /\ functionWatch[a] = <<>>
         /\ agentCache[a] = agent[a] /\ functionCache[a] = function[a]
<1>1. AgentMoves(a) /\ FunctionMoves(a) /\ a \notin queue'
      /\ agentWatch'[a] = <<>> /\ functionWatch'[a] = <<>>
  BY AgentMovesLemma, FunctionMovesLemma DEF Undisturbed
<1>2. /\ agentWatch[a] \in Seq(AgentObject) /\ functionWatch[a] \in Seq(FunctionObject)
      /\ agent'[a] \in AgentObject /\ function'[a] \in FunctionObject
  BY NextRest DEF Rest, CopyInv, TypeOK
<1>3. /\ Append(agentWatch[a], agent'[a]) # <<>>
      /\ Append(functionWatch[a], function'[a]) # <<>>
  BY <1>2, AppendProperties
<1>4. AgentKept(a) /\ FunctionKept(a)
  BY <1>1, <1>3 DEF AgentMoves, AgentSaved, AgentSeen, AgentListed,
                    FunctionMoves, FunctionSaved, FunctionSeen, FunctionListed
<1>5. agentWatch[a] = <<>> /\ functionWatch[a] = <<>>
  BY <1>1, <1>4 DEF AgentKept, FunctionKept
<1>6. Len(agentWatch[a]) = 0 /\ Len(functionWatch[a]) = 0
  BY <1>5, EmptySeq
<1>7. agentCache[a] = agent[a] /\ functionCache[a] = function[a]
  BY <1>6 DEF RepairInv, WatchInv, AgentVersion, FunctionVersion, Version
<1> QED BY <1>4, <1>5, <1>7 DEF AgentKept, FunctionKept

(* What is claimed of an agent that nothing disturbs *)
Repaired(a) ==
  /\ a \in req =>
       /\ memAgent = agent[a]
       /\ pc \in {"update", "create"} => memFunction = function[a]
       /\ pc = "status" => function[a].live /\ function[a].spec = want
  /\ a \notin req /\ agent[a].live =>
       /\ function[a].live
       /\ function[a].spec.v = agent[a].v
       /\ function[a].spec.topic = agent[a].resp
       /\ agent[a].status = function[a].status

(* The worker's own steps for agent a: it gives up only with the agent back in
   the queue, deployed, or gone. *)
LEMMA WorkerRepairs ==
  ASSUME CopyInv, CopyInv', RepairInv, [Next]_vars, ~Restart,
         NEW a \in Agent \ Foreign, Undisturbed(a)', Reconcile(a)
  PROVE  Repaired(a)'
<1>0. /\ agent'[a] = agent[a] /\ function'[a] = function[a]
      /\ agentWatch[a] = <<>> /\ functionWatch[a] = <<>>
      /\ agentCache[a] = agent[a] /\ functionCache[a] = function[a]
      /\ a \notin queue'
      /\ agentWatch'[a] = <<>> /\ functionWatch'[a] = <<>>
  BY StillStep DEF Undisturbed
<1>t. /\ agent[a] \in AgentObject /\ function[a] \in FunctionObject
      /\ agentWatch[a] \in Seq(AgentObject) /\ functionWatch[a] \in Seq(FunctionObject)
      /\ agentWatch \in [Agent -> Seq(AgentObject)]
      /\ functionWatch \in [Agent -> Seq(FunctionObject)]
      /\ agent'[a] \in AgentObject /\ function'[a] \in FunctionObject
  BY DEF CopyInv, TypeOK
<1>a. ASSUME NEW ag, SaveAgent(a, ag) PROVE FALSE
  <2>1. agentWatch'[a] = Append(agentWatch[a], ag) /\ agent'[a] = ag
    BY <1>a, <1>t DEF SaveAgent, CopyInv, TypeOK
  <2>2. Append(<<>>, agent'[a]) # <<>>
    BY <1>0, <1>t, AppendProperties
  <2> QED BY <1>0, <2>1, <2>2
<1>f. ASSUME NEW f, SaveFunction(a, f) PROVE FALSE
  <2>1. functionWatch'[a] = Append(functionWatch[a], f) /\ function'[a] = f
    BY <1>f, <1>t DEF SaveFunction, CopyInv, TypeOK
  <2>2. Append(<<>>, function'[a]) # <<>>
    BY <1>0, <1>t, AppendProperties
  <2> QED BY <1>0, <2>1, <2>2
<1>h. ASSUME a \in req, a \notin queue
      PROVE  /\ memAgent = agent[a]
             /\ pc \in {"update", "create"} => memFunction = function[a]
             /\ pc = "status" => function[a].live /\ function[a].spec = want
  BY <1>0, <1>h DEF RepairInv, HandInv, Undisturbed
<1>1. CASE Begin(a)
  <2>1. CASE ~agentCache[a].live /\ Done
    BY <1>0, <2>1 DEF Repaired, Done
  <2>2. CASE req' = {a} /\ pc' = "setTopic" /\ memAgent' = agentCache[a]
    BY <1>0, <2>2 DEF Repaired
  <2>3. CASE req' = {a} /\ Plan(a, agentCache[a])
    BY <1>0, <2>3 DEF Repaired, Plan
  <2> QED BY <1>1, <2>1, <2>2, <2>3 DEF Begin
<1>2. CASE SetTopic(a)
  BY <1>0, <1>2, <1>a DEF SetTopic, Requeue
<1>3. CASE UpdateFunction(a)
  <2>1. function[a].live /\ ~Accepts(function[a], memFunction) /\ Conflict(a) /\ pc = "update"
        /\ a \in req
    BY <1>0, <1>3, <1>f DEF UpdateFunction, Requeue
  <2>2. a \notin queue
    BY <1>0, <2>1 DEF Conflict
  <2>3. memFunction = function[a]
    BY <1>h, <2>1, <2>2
  <2> QED BY <2>1, <2>3 DEF Accepts
<1>4. CASE CreateFunction(a)
  BY <1>0, <1>4, <1>f DEF CreateFunction, Requeue
<1>5. CASE UpdateStatus(a)
  <2>1. pc = "status" /\ a \in req /\ Done /\ (a \notin queue)
    BY <1>0, <1>5 DEF UpdateStatus, Requeue, Conflict
  <2>2. memAgent = agent[a] /\ function[a].live /\ function[a].spec = want
    BY <1>h, <2>1
  <2>3. memAgent.live /\ want.v = memAgent.v /\ want.topic = memAgent.resp
    BY <2>1 DEF CopyInv, WorkerInv
  <2>4. Accepts(agent[a], memAgent)
    BY <2>2, <2>3 DEF Accepts
  <2>5. functionCache[a].status = agent[a].status
    <3> SUFFICES ASSUME functionCache[a].status # agent[a].status PROVE FALSE
      OBVIOUS
    <3> DEFINE ag == [agent[a] EXCEPT !.status = functionCache[a].status, !.rv = @ + 1]
    <3>1. SaveAgent(a, ag)
      <4>1. functionCache[a].live /\ agent[a].live
        BY <1>0, <2>2, <2>3
      <4> QED BY <1>5, <2>4, <4>1 DEF UpdateStatus
    <3> HIDE DEF ag
    <3> QED BY <1>a, <3>1
  <2> QED BY <1>0, <2>1, <2>2, <2>3, <2>5 DEF Repaired, Done
<1> QED BY <1>1, <1>2, <1>3, <1>4, <1>5 DEF Reconcile

(* A step that takes agent a neither from the queue nor to or from the worker
   leaves what was claimed of it. *)
LEMMA OthersKeepRepaired ==
  ASSUME CopyInv, RepairInv, [Next]_vars, ~Restart,
         NEW a \in Agent \ Foreign, Undisturbed(a)',
         a \in queue => a \in queue',
         \/ UNCHANGED local
         \/ a \notin req /\ a \notin req'
  PROVE  Repaired(a)'
<1>1. /\ agent'[a] = agent[a] /\ function'[a] = function[a]
      /\ agentWatch[a] = <<>> /\ functionWatch[a] = <<>> /\ a \notin queue'
  BY StillStep DEF Undisturbed
<1>2. Undisturbed(a)
  BY <1>1 DEF Undisturbed
<1>3. Repaired(a)
  BY <1>2 DEF RepairInv, HandInv, SettledInv, Repaired
<1> QED BY <1>1, <1>3 DEF Repaired, local

(* Whatever anybody does, an agent that nothing disturbs is deployed or in
   good hands. *)
LEMMA RepairedStep ==
  ASSUME CopyInv, CopyInv', RepairInv, [Next]_vars, NEW a \in Agent \ Foreign, Undisturbed(a)'
  PROVE  Repaired(a)'
<1>1. CASE Restart
  <2>1. agent' = agent /\ req' = {} /\ ~(agent[a].live /\ a \notin queue')
    BY <1>1 DEF Restart, Done
  <2> QED BY <2>1 DEF Repaired, Undisturbed
<1>2. CASE ~Restart /\ Reconcile(a)
  BY <1>2, WorkerRepairs
<1>3. ASSUME ~Restart, NEW b \in Agent, b # a, Reconcile(b) PROVE Repaired(a)'
  <2>1. a \notin req /\ (a \in queue => a \in queue')
    BY <1>3 DEF Reconcile, Begin, SetTopic, UpdateFunction, CreateFunction, UpdateStatus,
       Requeue, Conflict, CopyInv, WorkerInv
  <2>2. a \notin req'
    BY <1>3 DEF Reconcile, Begin, SetTopic, UpdateFunction, CreateFunction, UpdateStatus,
       Requeue, Conflict, Done
  <2> QED BY <1>3, <2>1, <2>2, OthersKeepRepaired
<1>4. ASSUME ~Restart, NEW b \in Agent, SyncAgent(b) \/ SyncFunction(b) PROVE Repaired(a)'
  BY <1>4, OthersKeepRepaired DEF SyncAgent, SyncFunction
<1>5. ASSUME ~Restart, NEW b \in Agent, Environment(b) PROVE Repaired(a)'
  <2>1. UNCHANGED <<queue, local>>
    BY <1>5 DEF Environment, UserWrites, WriteAgent, UserDeletesAgent, UserCreatesFunction,
       UserEditsFunction, UserDeletesFunction, FunctionReportsStatus, CollectGarbage
  <2> QED BY <1>5, <2>1, OthersKeepRepaired
<1>6. CASE ~Restart /\ (ToolChanges \/ UNCHANGED vars)
  BY <1>6, OthersKeepRepaired DEF ToolChanges, vars
<1> QED BY <1>1, <1>2, <1>3, <1>4, <1>5, <1>6 DEF Next, Operator

(* In the empty cluster there is nothing to repair. *)
LEMMA InitIInv == Init => IInv
<1> SUFFICES ASSUME Init PROVE RepairInv
  BY InitCopyInv DEF IInv
<1>1. ASSUME NEW a \in Agent
      PROVE  /\ Len(agentWatch[a]) = 0 /\ Len(functionWatch[a]) = 0
             /\ AgentVersion(a, 0) = NoAgent /\ FunctionVersion(a, 0) = NoFunction
             /\ agent[a] = NoAgent /\ function[a] = NoFunction
             /\ Copies(a) = {NoAgent}
  <2>1. /\ agentWatch[a] = <<>> /\ functionWatch[a] = <<>> /\ agent[a] = NoAgent
        /\ agentCache[a] = NoAgent /\ function[a] = NoFunction
        /\ functionCache[a] = NoFunction /\ req = {}
    BY DEF Init
  <2>2. DOMAIN agentWatch[a] = {}
    BY <2>1
  <2> QED BY <2>1, <2>2, EmptySeq DEF AgentVersion, FunctionVersion, Version, Copies
<1>2. ~NoAgent.live /\ ~NoFunction.live /\ 0..0 = {0} /\ 1..0 = {}
  BY DEF NoAgent, NoFunction
<1>3. WatchInv
  BY <1>1, <1>2 DEF WatchInv
<1>4. OwnedInv
  BY <1>1, <1>2 DEF OwnedInv
<1>5. req = {}
  BY DEF Init
<1>6. HandInv /\ SettledInv
  BY <1>1, <1>2, <1>5 DEF HandInv, SettledInv
<1> QED BY <1>3, <1>4, <1>6 DEF RepairInv

(* Every step keeps both halves of the invariant. *)
LEMMA NextIInv == IInv /\ [Next]_vars => IInv'
<1> SUFFICES ASSUME CopyInv, RepairInv, [Next]_vars PROVE IInv'
  BY DEF IInv
<1>1. CopyInv'
  BY NextRest, RestSuffices
<1>2. WatchInv' /\ OwnedInv'
  BY WatchStep
<1>3. \A a \in Agent \ Foreign : Undisturbed(a)' => Repaired(a)'
  BY <1>1, RepairedStep
<1>4. HandInv'
  <2>1. req' \subseteq Agent
    BY <1>1 DEF CopyInv, TypeOK
  <2> QED BY <1>3, <2>1 DEF HandInv, Repaired
<1>5. SettledInv'
  BY <1>3 DEF SettledInv, Repaired
<1> QED BY <1>1, <1>2, <1>4, <1>5 DEF IInv, RepairInv

(* The inductive invariant holds in every behaviour of the operator. *)
THEOREM Inductive == Spec => []IInv
BY InitIInv, NextIInv, PTL DEF Spec

(* When nothing is left to do, every Agent of whose name nobody else writes a
   Function is deployed as its spec says, and no such Function outlives its
   Agent: no interleaving of stale reads, conflicts, deletions and restarts
   loses the event that would have repaired it
   (agent_controller.go:80-172, 377-390). *)
THEOREM QuietDeployed == Spec => []QuietMeansDeployed
<1>1. IInv => QuietMeansDeployed
  <2> SUFFICES ASSUME IInv, Quiet, NEW a \in Agent \ Foreign
               PROVE  IF agent[a].live THEN Deployed(a) ELSE ~function[a].live
    BY DEF QuietMeansDeployed
  <2>1. Undisturbed(a) /\ req = {} /\ ~Garbage(a)
    BY DEF Quiet, Undisturbed, IInv, CopyInv, WorkerInv
  <2>2. Len(functionWatch[a]) = 0
    BY <2>1, EmptySeq DEF Undisturbed
  <2>3. /\ FunctionVersion(a, 0) = function[a] /\ 0 \in 0..0
        /\ FunctionVersion(a, 0).live =>
             FunctionVersion(a, 0).label /\ FunctionVersion(a, 0).owner # 0
    BY <2>2 DEF IInv, RepairInv, WatchInv, OwnedInv
  <2>4. CASE agent[a].live
    BY <2>1, <2>3, <2>4 DEF IInv, RepairInv, SettledInv, Deployed, Garbage
  <2>5. CASE ~agent[a].live
    BY <2>1, <2>3, <2>5 DEF Garbage
  <2> QED BY <2>4, <2>5
<1> QED BY <1>1, Inductive, PTL

(* A Function the operator configured listens to a topic that its Agent has
   held in the API server (agent_controller.go:198-219, 142-162). *)
THEOREM TopicStored == Spec => []DeployedTopicStored
BY Inductive, PTL DEF IInv, CopyInv

(* No step of the operator overwrites what a user wrote into an Agent, however
   old the copy it works from (agent_controller.go:211-215, 164-169). *)
THEOREM AgentsRespected == Spec => OperatorRespectsAgents
<1> DEFINE Respects == \A a \in Agent :
       (\E b \in Agent : Operator(b)) =>
         /\ agent'[a].live = agent[a].live
         /\ agent'[a].uid = agent[a].uid
         /\ agent'[a].v = agent[a].v
         /\ agent[a].resp # NoSource => agent'[a].resp = agent[a].resp
<1>1. CopyInv => Respects
  <2> SUFFICES ASSUME CopyInv, NEW a \in Agent, NEW b \in Agent, Operator(b)
               PROVE  /\ agent'[a].live = agent[a].live
                      /\ agent'[a].uid = agent[a].uid
                      /\ agent'[a].v = agent[a].v
                      /\ agent[a].resp # NoSource => agent'[a].resp = agent[a].resp
    OBVIOUS
  <2>1. CASE agent' = agent
    BY <2>1
  <2>2. CASE SetTopic(b) /\ agent' # agent
    <3>1. /\ Accepts(agent[b], memAgent) /\ req = {b} /\ pc = "setTopic"
          /\ SaveAgent(b, [memAgent EXCEPT !.resp = topics + 1, !.rv = @ + 1])
      BY <2>2 DEF SetTopic, agents
    <3>2. /\ memAgent \in Copies(b) /\ memAgent.live /\ memAgent \in AgentObject
          /\ memAgent.resp = NoSource
      BY <3>1 DEF Copies, CopyInv, WorkerInv, TypeOK
    <3>3. /\ memAgent.uid = agent[b].uid /\ memAgent.v = agent[b].v
          /\ memAgent.resp = agent[b].resp /\ agent[b].live = TRUE
      BY <3>1, <3>2 DEF Accepts, CopyInv, CopiesInv, TypeOK, AgentObject
    <3>4. /\ agent'[b] = [memAgent EXCEPT !.resp = topics + 1, !.rv = @ + 1]
          /\ a # b => agent'[a] = agent[a]
      BY <3>1 DEF SaveAgent, CopyInv, TypeOK
    <3> QED BY <3>2, <3>3, <3>4 DEF AgentObject
  <2>3. CASE UpdateStatus(b) /\ agent' # agent
    <3> DEFINE ag == [agent[b] EXCEPT !.status = functionCache[b].status, !.rv = @ + 1]
    <3>1. SaveAgent(b, ag)
      BY <2>3 DEF UpdateStatus
    <3>2. /\ ag.live = agent[b].live /\ ag.uid = agent[b].uid
          /\ ag.v = agent[b].v /\ ag.resp = agent[b].resp
      <4>1. agent[b] \in AgentObject
        BY DEF CopyInv, TypeOK
      <4> QED BY <4>1 DEF AgentObject
    <3> HIDE DEF ag
    <3>3. agent'[b] = ag
      BY <3>1 DEF SaveAgent, CopyInv, TypeOK
    <3>4. a # b => agent'[a] = agent[a]
      BY <3>1 DEF SaveAgent, CopyInv, TypeOK
    <3> QED BY <3>2, <3>3, <3>4
  <2>4. CASE Begin(b) \/ UpdateFunction(b) \/ CreateFunction(b) \/ SyncAgent(b) \/ SyncFunction(b)
    BY <2>1, <2>4 DEF Begin, UpdateFunction, CreateFunction, SyncAgent, SyncFunction,
       objects, agents
  <2> QED BY <2>1, <2>2, <2>3, <2>4 DEF Operator, Reconcile
<1>2. IInv => CopyInv
  BY DEF IInv
<1> QED BY <1>1, <1>2, Inductive, PTL DEF OperatorRespectsAgents
=============================================================================
