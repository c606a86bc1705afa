------------------------- MODULE WebConsole_proofs -------------------------
(* Theorems about WebConsole, for any tabs, resources and bound. *)
EXTENDS WebConsole, TLAPS

USE KubectlAssumption, MaxRevAssumption

-----------------------------------------------------------------------------
(* What a step does to the API server: nothing, or one of its four writes. *)
Written ==
  \/ UNCHANGED objects
  \/ \E a \in Agent, tools \in SUBSET ToolRef : StoreAgent(a, tools)
  \/ \E f \in Function, p \in Package, items \in SUBSET Nat : StoreFunction(f, p, items)
  \/ \E a \in Agent : RemoveAgent(a)
  \/ \E f \in Function : RemoveFunction(f)

(* The API server of WebConsole keeps its types, its revision grows, and what
   changes is a new revision or dead. *)
LEMMA WrittenStep ==
  ASSUME TypeOK, Written, \A f \in Function : function[f].rv <= rev,
         \A a \in Agent : agent[a].rv <= rev
  PROVE  /\ rev' \in 0..MaxRev /\ rev <= rev'
         /\ agent' \in [Agent -> AgentObject]
         /\ function' \in [Function -> FunctionObject]
         /\ \A f \in Function :
              /\ function'[f].rv <= rev'
              /\ \/ function'[f] = function[f]
                 \/ function'[f].rv > rev
                 \/ ~function'[f].live
         /\ \A a \in Agent :
              /\ agent'[a].rv <= rev'
              /\ \/ agent'[a] = agent[a]
                 \/ agent'[a].rv > rev
                 \/ ~agent'[a].live
<1>0. /\ rev \in 0..MaxRev /\ MaxRev \in Nat
      /\ agent \in [Agent -> AgentObject]
      /\ function \in [Function -> FunctionObject]
  BY DEF TypeOK
<1>1. CASE UNCHANGED objects
  BY <1>0, <1>1 DEF objects
<1>c. ASSUME Commit
      PROVE  /\ rev' \in 0..MaxRev /\ rev' = rev + 1 /\ rev + 1 \in Nat
             /\ \A g \in Function : function[g].rv <= rev'
             /\ \A b \in Agent : agent[b].rv <= rev'
  BY <1>0, <1>c DEF Commit, FunctionObject, AgentObject
<1>2. CASE \E a \in Agent, tools \in SUBSET ToolRef : StoreAgent(a, tools)
  <2> PICK a \in Agent, tools \in SUBSET ToolRef : StoreAgent(a, tools)
    BY <1>2
  <2>1. [live |-> TRUE, rv |-> rev + 1, tools |-> tools] \in AgentObject
    BY <1>0 DEF AgentObject
  <2>2. \A b \in Agent : agent'[b] = agent[b] \/ agent'[b].rv = rev + 1
    BY <1>0 DEF StoreAgent
  <2>3. agent' \in [Agent -> AgentObject] /\ function' = function /\ Commit
    BY <1>0, <2>1 DEF StoreAgent
  <2>4. ASSUME NEW b \in Agent
        PROVE  /\ agent'[b].rv <= rev'
               /\ agent'[b] = agent[b] \/ agent'[b].rv > rev \/ ~agent'[b].live
    <3>1. rev' = rev + 1 /\ rev \in Nat /\ agent[b].rv <= rev'
      BY <1>0, <1>c, <2>3
    <3>2. agent'[b] = agent[b] => agent'[b].rv <= rev'
      BY <3>1
    <3> QED BY <3>1, <3>2, <2>2
  <2>5. ASSUME NEW f \in Function
        PROVE  function'[f].rv <= rev' /\ function'[f] = function[f]
    BY <1>c, <2>3
  <2> QED BY <1>0, <1>c, <2>3, <2>4, <2>5
<1>3. CASE \E f \in Function, p \in Package, items \in SUBSET Nat : StoreFunction(f, p, items)
  <2> PICK f \in Function, p \in Package, items \in SUBSET Nat : StoreFunction(f, p, items)
    BY <1>3
  <2>1. [live |-> TRUE, rv |-> rev + 1, pkg |-> p, items |-> items] \in FunctionObject
    BY <1>0 DEF FunctionObject
  <2>2. \A g \in Function : function'[g] = function[g] \/ function'[g].rv = rev + 1
    BY <1>0 DEF StoreFunction
  <2>3. function' \in [Function -> FunctionObject] /\ agent' = agent /\ Commit
    BY <1>0, <2>1 DEF StoreFunction
  <2> QED BY <1>0, <1>c, <2>2, <2>3
<1>4. CASE \E a \in Agent : RemoveAgent(a)
  <2> PICK a \in Agent : RemoveAgent(a)
    BY <1>4
  <2>1. [agent[a] EXCEPT !.live = FALSE] \in AgentObject
    BY <1>0 DEF AgentObject
  <2>2. \A b \in Agent : agent'[b] = agent[b]
           \/ /\ agent'[b] = [agent[a] EXCEPT !.live = FALSE]
              /\ b = a
    BY <1>0 DEF RemoveAgent
  <2>3. \A b \in Agent : agent'[b].rv = agent[b].rv
           /\ (agent'[b] = agent[b] \/ ~agent'[b].live)
    BY <1>0, <2>2 DEF AgentObject
  <2>4. agent' \in [Agent -> AgentObject] /\ function' = function /\ Commit
    BY <1>0, <2>1 DEF RemoveAgent
  <2>5. ASSUME NEW b \in Agent
        PROVE  /\ agent'[b].rv <= rev'
               /\ agent'[b] = agent[b] \/ agent'[b].rv > rev \/ ~agent'[b].live
    <3>1. rev' = rev + 1 /\ rev \in Nat /\ agent[b].rv <= rev'
      BY <1>0, <1>c, <2>4
    <3>2. agent'[b] = agent[b] => agent'[b].rv <= rev'
      BY <3>1
    <3> QED BY <3>1, <3>2, <2>3, <1>0 DEF AgentObject
  <2>6. ASSUME NEW f \in Function
        PROVE  function'[f].rv <= rev' /\ function'[f] = function[f]
    BY <1>c, <2>4
  <2> QED BY <1>0, <1>c, <2>4, <2>5, <2>6
<1>5. CASE \E f \in Function : RemoveFunction(f)
  <2> PICK f \in Function : RemoveFunction(f)
    BY <1>5
  <2>1. [function[f] EXCEPT !.live = FALSE] \in FunctionObject
    BY <1>0 DEF FunctionObject
  <2>2. \A g \in Function : function'[g] = function[g]
           \/ /\ function'[g] = [function[f] EXCEPT !.live = FALSE]
              /\ g = f
    BY <1>0 DEF RemoveFunction
  <2>3. \A g \in Function : function'[g].rv = function[g].rv
           /\ (function'[g] = function[g] \/ ~function'[g].live)
    BY <1>0, <2>2 DEF FunctionObject
  <2>4. function' \in [Function -> FunctionObject] /\ agent' = agent /\ Commit
    BY <1>0, <2>1 DEF RemoveFunction
  <2> QED BY <1>0, <1>c, <2>3, <2>4
<1> QED BY <1>1, <1>2, <1>3, <1>4, <1>5 DEF Written

(* What forms and actions write is well-formed. *)
LEMMA WrittenTypes ==
  /\ \A names \in SUBSET Function : Qualified(names) \in SUBSET ToolRef
  /\ \A items \in SUBSET Nat : Extracted(items) \in SUBSET Nat
  /\ \A ref \in ToolRef : Submitted(ref) \in ToolRef
<1>1. \A names \in SUBSET Function : Qualified(names) \in SUBSET ToolRef
  BY DEF Qualified, ToolRef
<1>2. \A items \in SUBSET Nat : Extracted(items) \in SUBSET Nat
  BY DEF Extracted
<1>3. ASSUME NEW ref \in ToolRef PROVE Submitted(ref) \in ToolRef
  BY DEF Submitted, ToolRef
<1> QED BY <1>1, <1>2, <1>3

(* Every step of WebConsole is one write of the API server, or none. *)
LEMMA StepWritten ==
  ASSUME TypeOK, [Next]_vars
  PROVE  Written
<1>0. /\ {} \in SUBSET Nat /\ {0} \in SUBSET Nat
      /\ \A t \in Tab : job[t] \in SUBSET Job
      /\ \A j \in Job : j.pkg \in SUBSET Package /\ j.items \in SUBSET Nat
                     /\ j.tools \in SUBSET ToolRef
  BY DEF TypeOK, Job
<1>1. ASSUME NEW t \in Tab, Browse(t) PROVE Written
  BY <1>1 DEF Browse, OpenAgent, OpenFunction, Refetch, CancelEdit, Written
<1>2. ASSUME NEW t \in Tab, Serve(t) PROVE Written
  <2>1. ASSUME NEW a \in Agent, CreateAgent(t, a) \/ DeleteAgent(t, a) PROVE Written
    BY <2>1, WrittenTypes DEF CreateAgent, DeleteAgent, Written
  <2>2. ASSUME NEW f \in Function, CreateFunction(t, f) PROVE Written
    BY <2>2, <1>0, WrittenTypes DEF CreateFunction, Written
  <2>3. ASSUME NEW f \in Function, BeginDelete(t, f) PROVE Written
    BY <2>3 DEF BeginDelete, Start, Written
  <2>4. CASE EndDelete(t)
    BY <2>4 DEF EndDelete, Written
  <2>5. CASE BeginUpdateFunction(t)
    BY <2>5 DEF BeginUpdateFunction, Start, Written
  <2>6. CASE EndUpdateFunction(t)
    <3> PICK f \in Function, j \in job[t] :
          \/ UNCHANGED objects
          \/ \E p \in j.pkg : StoreFunction(f, p, Extracted(j.items))
      BY <2>6 DEF EndUpdateFunction
    <3>1. j \in Job
      BY <1>0
    <3>2. j.pkg \subseteq Package /\ Extracted(j.items) \in SUBSET Nat
      BY <1>0, <3>1, WrittenTypes
    <3> QED BY <3>2 DEF Written
  <2>7. CASE BeginUpdateAgent(t)
    BY <2>7 DEF BeginUpdateAgent, Start, Written
  <2>8. CASE EndUpdateAgent(t)
    <3> PICK a \in Agent, j \in job[t] : StoreAgent(a, j.tools) \/ UNCHANGED objects
      BY <2>8 DEF EndUpdateAgent
    <3>1. j \in Job
      BY <1>0
    <3>2. j.tools \in SUBSET ToolRef
      BY <1>0, <3>1
    <3> QED BY <3>2 DEF Written
  <2> QED BY <1>2, <2>1, <2>2, <2>3, <2>4, <2>5, <2>6, <2>7, <2>8 DEF Serve
<1>3. CASE KubectlWrites
  BY <1>0, <1>3 DEF KubectlWrites, Written
<1>4. CASE UNCHANGED vars
  BY <1>4 DEF vars, Written
<1> QED BY <1>1, <1>2, <1>3, <1>4 DEF Next

(* Where the job of a tab comes from: it is the one it had, or an action has
   just read it. *)
Read(t, j) ==
  /\ UNCHANGED objects
  /\ pc'[t] = "putFunction" =>
       \E f \in Function : /\ j.target = f /\ function[f].live
                          /\ j.rv = function[f].rv /\ j.pkg = {function[f].pkg}
  /\ pc'[t] = "delete" =>
       j.rv = rev /\ \E f \in Function : j.target = f /\ ~IsFunctionUsed(f)

Jobs ==
  /\ pc' \in [Tab -> {"idle", "putAgent", "putFunction", "delete"}]
  /\ job' \in [Tab -> SUBSET Job]
  /\ \A t \in Tab : \A j \in job'[t] :
       (j \in job[t] /\ pc'[t] = pc[t]) \/ Read(t, j)

(* Start makes a job of what was just read, Finish forgets one. *)
LEMMA StartJobs ==
  ASSUME TypeOK, NEW t \in Tab, NEW call \in {"putAgent", "putFunction", "delete"},
         NEW j \in Job, Start(t, call, j),
         call = "putFunction" =>
           \E f \in Function : /\ j.target = f /\ function[f].live
                              /\ j.rv = function[f].rv /\ j.pkg = {function[f].pkg},
         call = "delete" =>
           j.rv = rev /\ \E f \in Function : j.target = f /\ ~IsFunctionUsed(f)
  PROVE  Jobs
<1>1. pc' = [pc EXCEPT ![t] = call] /\ job' = [job EXCEPT ![t] = {j}]
      /\ UNCHANGED objects
  BY DEF Start
<1>2. \A u \in Tab : \/ u = t /\ job'[u] = {j} /\ pc'[u] = call
                     \/ u # t /\ job'[u] = job[u] /\ pc'[u] = pc[u]
  BY <1>1 DEF TypeOK
<1>3. pc' \in [Tab -> {"idle", "putAgent", "putFunction", "delete"}]
      /\ job' \in [Tab -> SUBSET Job]
  BY <1>1 DEF TypeOK
<1>4. ASSUME NEW u \in Tab, NEW k \in job'[u]
      PROVE  (k \in job[u] /\ pc'[u] = pc[u]) \/ Read(u, k)
  <2>1. CASE u = t
    <3>1. k = j /\ pc'[u] = call
      BY <1>2, <2>1
    <3> QED BY <1>1, <3>1 DEF Read
  <2>2. CASE u # t
    BY <1>2, <2>2
  <2> QED BY <2>1, <2>2
<1> QED BY <1>3, <1>4 DEF Jobs

LEMMA FinishJobs ==
  ASSUME TypeOK, NEW t \in Tab, Finish(t)
  PROVE  Jobs
<1>1. \A u \in Tab : job'[u] = {} \/ (job'[u] = job[u] /\ pc'[u] = pc[u])
  BY DEF Finish, TypeOK
<1>2. pc' \in [Tab -> {"idle", "putAgent", "putFunction", "delete"}]
      /\ job' \in [Tab -> SUBSET Job]
  BY DEF Finish, TypeOK
<1> QED BY <1>1, <1>2 DEF Jobs

LEMMA SameJobs ==
  ASSUME TypeOK, UNCHANGED <<pc, job>>
  PROVE  Jobs
BY DEF TypeOK, Jobs

(* Every step of WebConsole leaves jobs that were there or were just read. *)
LEMMA StepJobs ==
  ASSUME TypeOK, [Next]_vars
  PROVE  Jobs
<1>1. ASSUME NEW t \in Tab, Browse(t) PROVE Jobs
  <2> UNCHANGED <<pc, job>>
    BY <1>1 DEF Browse, OpenAgent, OpenFunction, Refetch, CancelEdit
  <2> QED BY SameJobs
<1>2. ASSUME NEW t \in Tab, Serve(t) PROVE Jobs
  <2>1. ASSUME NEW a \in Agent, CreateAgent(t, a) \/ DeleteAgent(t, a) PROVE Jobs
    BY <2>1, SameJobs DEF CreateAgent, DeleteAgent
  <2>2. ASSUME NEW f \in Function, CreateFunction(t, f) PROVE Jobs
    BY <2>2, SameJobs DEF CreateFunction
  <2>3. ASSUME NEW f \in Function, BeginDelete(t, f) PROVE Jobs
    <3> DEFINE j == [target |-> f, rv |-> rev, pkg |-> {}, tools |-> {}, items |-> {}]
    <3>1. j \in Job
      BY MaxRevAssumption DEF TypeOK, Job
    <3>2. Start(t, "delete", j) /\ j.rv = rev /\ j.target = f /\ ~IsFunctionUsed(f)
      BY <2>3 DEF BeginDelete
    <3> HIDE DEF j
    <3> QED BY <3>1, <3>2, StartJobs
  <2>4. CASE EndDelete(t) \/ EndUpdateFunction(t) \/ EndUpdateAgent(t)
    BY <2>4, FinishJobs DEF EndDelete, EndUpdateFunction, EndUpdateAgent
  <2>5. CASE BeginUpdateFunction(t)
    <3> PICK f \in Function :
          /\ function[f].live
          /\ Start(t, "putFunction",
                   [target |-> f, rv |-> function[f].rv, pkg |-> {function[f].pkg},
                    tools |-> {}, items |-> formItems[t] \intersect dataItems[t]])
      BY <2>5 DEF BeginUpdateFunction
    <3> DEFINE j == [target |-> f, rv |-> function[f].rv, pkg |-> {function[f].pkg},
                     tools |-> {}, items |-> formItems[t] \intersect dataItems[t]]
    <3>1. function[f].rv \in Nat /\ function[f].pkg \in Package
      BY DEF TypeOK, FunctionObject
    <3>2. formItems[t] \intersect dataItems[t] \in SUBSET Nat
      BY DEF TypeOK
    <3>3. j \in Job
      BY <3>1, <3>2 DEF Job
    <3>4. Start(t, "putFunction", j) /\ j.target = f
          /\ j.rv = function[f].rv /\ j.pkg = {function[f].pkg}
      OBVIOUS
    <3> HIDE DEF j
    <3> QED BY <3>3, <3>4, StartJobs
  <2>6. CASE BeginUpdateAgent(t)
    <3> PICK a \in Agent, names \in SUBSET Function, kept \in SUBSET formTools[t] :
          Start(t, "putAgent",
                [target |-> a, rv |-> agent[a].rv, pkg |-> {}, items |-> {},
                 tools |-> {Submitted(ref) : ref \in kept} \union Qualified(names)])
      BY <2>6 DEF BeginUpdateAgent
    <3> DEFINE tools == {Submitted(ref) : ref \in kept} \union Qualified(names)
    <3>1. agent[a].rv \in Nat /\ kept \subseteq ToolRef
      BY DEF TypeOK, AgentObject
    <3>2. tools \in SUBSET ToolRef
      BY <3>1, WrittenTypes
    <3> DEFINE j == [target |-> a, rv |-> agent[a].rv, pkg |-> {}, items |-> {},
                     tools |-> tools]
    <3>4. Start(t, "putAgent", j)
      OBVIOUS
    <3> HIDE DEF tools
    <3>3. j \in Job
      BY <3>1, <3>2 DEF Job
    <3> HIDE DEF j
    <3> QED BY <3>3, <3>4, StartJobs
  <2> QED BY <1>2, <2>1, <2>2, <2>3, <2>4, <2>5, <2>6 DEF Serve
<1>3. CASE KubectlWrites
  BY <1>3, SameJobs DEF KubectlWrites
<1>4. CASE UNCHANGED vars
  BY <1>4, SameJobs DEF vars
<1> QED BY <1>1, <1>2, <1>3, <1>4 DEF Next

(* Every step of WebConsole keeps the types of pages and forms. *)
LEMMA StepClient ==
  ASSUME TypeOK, [Next]_vars
  PROVE  /\ page' \in [Tab -> Agent \union Function \union {"list"}]
         /\ formTools' \in [Tab -> SUBSET ToolRef]
         /\ dataTools' \in [Tab -> SUBSET ToolRef]
         /\ formItems' \in [Tab -> SUBSET Nat]
         /\ dataItems' \in [Tab -> SUBSET Nat]
<1> DEFINE Types(pg, ft, dt, fi, di) ==
             /\ pg \in [Tab -> Agent \union Function \union {"list"}]
             /\ ft \in [Tab -> SUBSET ToolRef]
             /\ dt \in [Tab -> SUBSET ToolRef]
             /\ fi \in [Tab -> SUBSET Nat]
             /\ di \in [Tab -> SUBSET Nat]
<1>0. /\ Types(page, formTools, dataTools, formItems, dataItems)
      /\ \A a \in Agent : agent[a].tools \in SUBSET ToolRef
      /\ \A f \in Function : function[f].items \in SUBSET Nat
  BY DEF TypeOK, AgentObject, FunctionObject
<1>1. ASSUME NEW t \in Tab, Browse(t)
      PROVE  Types(page', formTools', dataTools', formItems', dataItems')
  <2>1. ASSUME NEW a \in Agent, OpenAgent(t, a)
        PROVE  Types(page', formTools', dataTools', formItems', dataItems')
    BY <1>0, <2>1 DEF OpenAgent
  <2>2. ASSUME NEW f \in Function, OpenFunction(t, f)
        PROVE  Types(page', formTools', dataTools', formItems', dataItems')
    BY <1>0, <2>2 DEF OpenFunction
  <2>3. CASE Refetch(t)
    <3>1. CASE \E a \in Agent : /\ dataTools' = [dataTools EXCEPT ![t] = agent[a].tools]
                              /\ UNCHANGED dataItems
      BY <1>0, <2>3, <3>1 DEF Refetch
    <3>2. CASE \E f \in Function : /\ dataItems' = [dataItems EXCEPT ![t] = function[f].items]
                                 /\ UNCHANGED dataTools
      BY <1>0, <2>3, <3>2 DEF Refetch
    <3> QED BY <2>3, <3>1, <3>2 DEF Refetch
  <2>4. CASE CancelEdit(t)
    BY <1>0, <2>4 DEF CancelEdit
  <2> QED BY <1>1, <2>1, <2>2, <2>3, <2>4 DEF Browse
<1>2. ASSUME NEW t \in Tab, Serve(t) PROVE UNCHANGED client
  BY <1>2 DEF Serve, CreateAgent, DeleteAgent, CreateFunction, BeginDelete, EndDelete,
     BeginUpdateFunction, EndUpdateFunction, BeginUpdateAgent, EndUpdateAgent, Start, Finish
<1>3. KubectlWrites \/ UNCHANGED vars => UNCHANGED client
  BY DEF KubectlWrites, vars, client
<1> QED BY <1>0, <1>1, <1>2, <1>3 DEF Next, client

-----------------------------------------------------------------------------
(* Nothing breaks IInv, whoever writes to the API server in between. *)
LEMMA InvStep ==
  ASSUME IInv, [Next]_vars
  PROVE  IInv'
<1>1. TypeOK /\ JobInv
  BY DEF IInv
<1>2. Written /\ Jobs
  BY <1>1, StepWritten, StepJobs
<1>3. /\ rev' \in 0..MaxRev /\ rev <= rev'
      /\ agent' \in [Agent -> AgentObject]
      /\ function' \in [Function -> FunctionObject]
      /\ \A f \in Function : /\ function'[f].rv <= rev'
                            /\ \/ function'[f] = function[f]
                               \/ function'[f].rv > rev
                               \/ ~function'[f].live
      /\ \A a \in Agent : /\ agent'[a].rv <= rev'
                         /\ \/ agent'[a] = agent[a]
                            \/ agent'[a].rv > rev
                            \/ ~agent'[a].live
  BY <1>1, <1>2, WrittenStep DEF JobInv
<1>4. TypeOK'
  BY <1>1, <1>2, <1>3, StepClient DEF Jobs, TypeOK
<1>5. ASSUME NEW t \in Tab, NEW f \in Function, NEW j \in job'[t],
             pc'[t] = "putFunction", f = j.target
      PROVE  /\ j.rv <= rev'
             /\ function'[f].live /\ function'[f].rv = j.rv => j.pkg = {function'[f].pkg}
  <2>1. CASE j \in job[t] /\ pc'[t] = pc[t]
    <3>1. /\ j.rv <= rev
          /\ function[f].live /\ function[f].rv = j.rv => j.pkg = {function[f].pkg}
      <4>1. pc[t] = "putFunction" /\ j \in job[t] /\ f = j.target
        BY <1>5, <2>1
      <4> QED BY <1>1, <4>1, Zenon DEF JobInv
    <3>2. j.rv \in Nat /\ rev \in Nat /\ rev' \in Nat /\ function'[f].rv \in Nat
      BY <1>1, <1>3, <2>1, MaxRevAssumption DEF TypeOK, Job, FunctionObject
    <3> QED BY <1>3, <3>1, <3>2
  <2>2. CASE Read(t, j)
    <3>1. /\ function' = function /\ rev' = rev
          /\ j.rv = function[f].rv /\ j.pkg = {function[f].pkg}
      BY <1>5, <2>2 DEF Read, objects
    <3> QED BY <1>1, <3>1 DEF JobInv
  <2> QED BY <1>2, <1>5, <2>1, <2>2 DEF Jobs
<1>6. ASSUME NEW t \in Tab, NEW f \in Function, NEW j \in job'[t],
             pc'[t] = "delete", f = j.target
      PROVE  /\ j.rv <= rev'
             /\ \A a \in Agent : agent'[a].live /\ agent'[a].rv <= j.rv =>
                  [ns |-> "given", name |-> f] \notin agent'[a].tools
  <2>1. CASE j \in job[t] /\ pc'[t] = pc[t]
    <3>1. /\ j.rv <= rev
          /\ \A a \in Agent : agent[a].live /\ agent[a].rv <= j.rv =>
               [ns |-> "given", name |-> f] \notin agent[a].tools
      <4>1. pc[t] = "delete" /\ j \in job[t] /\ f = j.target
        BY <1>6, <2>1
      <4> QED BY <1>1, <4>1, Zenon DEF JobInv
    <3>2. j.rv \in Nat /\ rev \in Nat /\ rev' \in Nat
          /\ \A a \in Agent : agent'[a].rv \in Nat
      BY <1>1, <1>3, <2>1, MaxRevAssumption DEF TypeOK, Job, AgentObject
    <3> QED BY <1>3, <3>1, <3>2
  <2>2. CASE Read(t, j)
    <3>1. /\ agent' = agent /\ rev' = rev /\ j.rv = rev /\ ~IsFunctionUsed(f)
      BY <1>6, <2>2 DEF Read, objects
    <3> QED BY <1>1, <3>1, MaxRevAssumption DEF IsFunctionUsed, TypeOK
  <2> QED BY <1>2, <1>6, <2>1, <2>2 DEF Jobs
<1> QED BY <1>3, <1>4, <1>5, <1>6 DEF IInv, JobInv

(* IInv holds for any tabs, with kubectl or without. *)
THEOREM Inductive == Spec => []IInv
<1>1. Init => IInv
  BY MaxRevAssumption DEF Init, IInv, TypeOK, JobInv, AgentObject, FunctionObject
<1>2. IInv /\ [Next]_vars => IInv'
  BY InvStep
<1> QED BY <1>1, <1>2, PTL DEF Spec

(* Whatever others write between the two calls of an update, the console
   leaves each live Function its package and module. *)
THEOREM PackagesKept == Spec => PackageKept
<1>1. ASSUME IInv, NEW t \in Tab, Serve(t), NEW f \in Function,
             function[f].live, function'[f].live
      PROVE  function'[f].pkg = function[f].pkg
  <2>0. TypeOK /\ JobInv
    BY <1>1 DEF IInv
  <2>1. CASE EndUpdateFunction(t)
    <3> PICK g \in Function, j \in job[t] :
          /\ g = j.target
          /\ IF function[g].live /\ function[g].rv = j.rv
             THEN \E p \in j.pkg : StoreFunction(g, p, Extracted(j.items))
             ELSE UNCHANGED objects
      BY <2>1 DEF EndUpdateFunction
    <3>1. CASE function[g].live /\ function[g].rv = j.rv
      <4>1. j.pkg = {function[g].pkg}
        <5>1. pc[t] = "putFunction"
          BY <2>1 DEF EndUpdateFunction
        <5> QED BY <2>0, <3>1, <5>1 DEF JobInv
      <4>2. StoreFunction(g, function[g].pkg, Extracted(j.items))
        BY <3>1, <4>1
      <4> QED BY <2>0, <4>2 DEF StoreFunction, TypeOK
    <3>2. CASE ~(function[g].live /\ function[g].rv = j.rv)
      BY <3>2 DEF objects
    <3> QED BY <3>1, <3>2
  <2>2. ASSUME NEW g \in Function, CreateFunction(t, g)
        PROVE  function'[f] = function[f]
    <3>1. f # g
      BY <1>1, <2>2 DEF CreateFunction
    <3> QED BY <2>0, <2>2, <3>1 DEF CreateFunction, StoreFunction, TypeOK
  <2>3. CASE EndDelete(t)
    <3>1. function' = function \/ \E g \in Function : RemoveFunction(g)
      BY <2>3 DEF EndDelete, objects
    <3>2. ASSUME NEW g \in Function, RemoveFunction(g)
          PROVE  function'[f] = function[f] \/ ~function'[f].live
      BY <2>0, <3>2 DEF RemoveFunction, TypeOK, FunctionObject
    <3> QED BY <1>1, <3>1, <3>2
  <2>4. ASSUME \/ \E a \in Agent : CreateAgent(t, a) \/ DeleteAgent(t, a)
               \/ \E g \in Function : BeginDelete(t, g)
               \/ BeginUpdateFunction(t) \/ BeginUpdateAgent(t) \/ EndUpdateAgent(t)
        PROVE  function' = function
    BY <2>4 DEF CreateAgent, DeleteAgent, BeginDelete, BeginUpdateFunction,
       BeginUpdateAgent, EndUpdateAgent, Start, StoreAgent, RemoveAgent, objects
  <2> QED BY <1>1, <2>1, <2>2, <2>3, <2>4 DEF Serve
<1>2. IInv /\ [Next]_vars =>
      [\A f \in Function :
         /\ \E t \in Tab : Serve(t)
         /\ function[f].live /\ function'[f].live
         => function'[f].pkg = function[f].pkg]_vars
  BY <1>1
<1> QED BY <1>2, Inductive, PTL DEF Spec, PackageKept

(* However many tabs and other writers there are: an Agent that loses a
   Function it names in full was written after the delete was checked. *)
THEOREM LateUsers == Spec => OnlyLateUsersLose
<1>1. ASSUME IInv, NEW t \in Tab, EndDelete(t), NEW f \in Function,
             function[f].live, ~function'[f].live, NEW a \in Agent,
             agent[a].live, [ns |-> "given", name |-> f] \in agent[a].tools
      PROVE  \E j \in job[t] : agent[a].rv > j.rv
  <2>0. TypeOK /\ JobInv
    BY <1>1 DEF IInv
  <2> PICK g \in Function, k \in job[t] :
        /\ g = k.target
        /\ IF function[g].live THEN RemoveFunction(g) ELSE UNCHANGED objects
    BY <1>1 DEF EndDelete
  <2>1. f = k.target
    BY <1>1, <2>0 DEF RemoveFunction, objects, TypeOK
  <2>2. ~(agent[a].rv <= k.rv)
    BY <1>1, <2>0, <2>1 DEF JobInv, EndDelete
  <2>3. agent[a].rv \in Nat /\ k.rv \in Nat
    BY <2>0 DEF TypeOK, AgentObject, Job
  <2> QED BY <2>2, <2>3
<1>2. IInv /\ [Next]_vars =>
      [\A t \in Tab : EndDelete(t) =>
         \A f \in Function : function[f].live /\ ~function'[f].live =>
           \A a \in Agent :
             agent[a].live /\ [ns |-> "given", name |-> f] \in agent[a].tools =>
               \E j \in job[t] : agent[a].rv > j.rv]_vars
  BY <1>1
<1> QED BY <1>2, Inductive, PTL DEF Spec, OnlyLateUsersLose

-----------------------------------------------------------------------------
(* One tab, and nothing but the console *)

Sole == ~Kubectl /\ \A t, u \in Tab : t = u

(* The tools an Agent has after a step were chosen in a form, or it had them. *)
LEMMA SoleStep ==
  ASSUME Sole, TypeOK, SoleInv, [Next]_vars, TypeOK'
  PROVE  SoleInv'
<1>0. /\ \A names : \A r \in Qualified(names) : r.ns = "given"
      /\ \A r \in ToolRef : r.ns = "given" => Submitted(r) = r
  BY DEF Qualified, Submitted, ToolRef
<1>1. ASSUME NEW t \in Tab, Browse(t)
      PROVE  SoleInv'
  <2>1. UNCHANGED <<objects, pc, job>>
    BY <1>1 DEF Browse, OpenAgent, OpenFunction, Refetch, CancelEdit
  <2>2. \A u \in Tab :
          /\ \/ formTools'[u] \in {formTools[u], dataTools[u]}
             \/ \E a \in Agent : formTools'[u] = agent[a].tools
          /\ \/ dataTools'[u] = dataTools[u]
             \/ \E a \in Agent : dataTools'[u] = agent[a].tools
    BY <1>1 DEF Browse, OpenAgent, OpenFunction, Refetch, CancelEdit, TypeOK
  <2>3. \A u \in Tab : \A r \in formTools'[u] \union dataTools'[u] : r.ns = "given"
    BY <2>2 DEF SoleInv
  <2> QED BY <2>1, <2>3 DEF SoleInv, objects, IsFunctionUsed
<1>2. ASSUME NEW t \in Tab, Serve(t)
      PROVE  SoleInv'
  <2>1. formTools' = formTools /\ dataTools' = dataTools
    BY <1>2 DEF Serve, CreateAgent, DeleteAgent, CreateFunction, BeginDelete, EndDelete,
       BeginUpdateFunction, EndUpdateFunction, BeginUpdateAgent, EndUpdateAgent, Start,
       Finish, client
  <2>2. CASE pc[t] = "idle" /\ UNCHANGED <<pc, job>>
    <3>1. \A u \in Tab : pc'[u] = "idle"
      BY <2>2 DEF Sole
    <3>2. \A a \in Agent : \A r \in agent'[a].tools : r.ns = "given"
      <4>1. ASSUME NEW a \in Agent, CreateAgent(t, a)
            PROVE  \A b \in Agent : \A r \in agent'[b].tools : r.ns = "given"
        BY <1>0, <4>1 DEF CreateAgent, StoreAgent, TypeOK, SoleInv
      <4>2. ASSUME NEW a \in Agent, DeleteAgent(t, a)
            PROVE  \A b \in Agent : \A r \in agent'[b].tools : r.ns = "given"
        BY <4>2 DEF DeleteAgent, RemoveAgent, TypeOK, AgentObject, SoleInv
      <4>3. ASSUME NEW f \in Function, CreateFunction(t, f)
            PROVE  agent' = agent
        BY <4>3 DEF CreateFunction, StoreFunction
      <4>4. ASSUME NEW f \in Function, BeginDelete(t, f) PROVE FALSE
        BY <2>2, <4>4 DEF BeginDelete, Start, TypeOK
      <4>5. BeginUpdateFunction(t) \/ BeginUpdateAgent(t) => FALSE
        BY <2>2 DEF BeginUpdateFunction, BeginUpdateAgent, Start, TypeOK
      <4>6. EndDelete(t) \/ EndUpdateFunction(t) \/ EndUpdateAgent(t) => FALSE
        BY <2>2 DEF EndDelete, EndUpdateFunction, EndUpdateAgent
      <4> QED BY <1>2, <4>1, <4>2, <4>3, <4>4, <4>5, <4>6 DEF Serve, SoleInv
    <3> QED BY <2>1, <2>2, <3>1, <3>2 DEF SoleInv
  <2>3. CASE EndDelete(t) \/ EndUpdateFunction(t) \/ EndUpdateAgent(t)
    <3>1. \A u \in Tab : job'[u] = {} \/ (job'[u] = job[u] /\ u # t)
      BY <2>3 DEF EndDelete, EndUpdateFunction, EndUpdateAgent, Finish, TypeOK
    <3>2. \A u \in Tab : job'[u] = {}
      BY <3>1 DEF Sole
    <3>3. \A a \in Agent : \A r \in agent'[a].tools : r.ns = "given"
      <4>1. CASE EndUpdateAgent(t)
        <5> PICK a \in Agent, j \in job[t] : StoreAgent(a, j.tools) \/ UNCHANGED objects
          BY <4>1 DEF EndUpdateAgent
        <5>1. \A r \in j.tools : r.ns = "given"
          BY DEF SoleInv
        <5>2. ASSUME StoreAgent(a, j.tools), NEW b \in Agent
              PROVE  agent'[b].tools = j.tools \/ agent'[b] = agent[b]
          BY <5>2 DEF StoreAgent, TypeOK
        <5> QED BY <5>1, <5>2 DEF SoleInv, objects
      <4>2. CASE EndDelete(t) \/ EndUpdateFunction(t)
        <5>1. agent' = agent
          BY <4>2 DEF EndDelete, EndUpdateFunction, StoreFunction, RemoveFunction, objects
        <5> QED BY <5>1 DEF SoleInv
      <4> QED BY <2>3, <4>1, <4>2
    <3> QED BY <2>1, <3>2, <3>3 DEF SoleInv
  <2>4. ASSUME NEW f \in Function, BeginDelete(t, f)
        PROVE  SoleInv'
    <3>1. /\ ~IsFunctionUsed(f) /\ UNCHANGED objects
          /\ job'[t] = {[target |-> f, rv |-> rev, pkg |-> {}, tools |-> {}, items |-> {}]}
      BY <2>4 DEF BeginDelete, Start, TypeOK
    <3>2. \A u \in Tab : \A j \in job'[u] : j.target = f /\ j.tools = {}
      BY <3>1 DEF Sole
    <3> QED BY <2>1, <3>1, <3>2 DEF SoleInv, objects, IsFunctionUsed
  <2>5. CASE BeginUpdateFunction(t)
    <3>1. /\ UNCHANGED objects /\ pc'[t] = "putFunction"
          /\ \A j \in job'[t] : j.tools = {}
      BY <2>5 DEF BeginUpdateFunction, Start, TypeOK
    <3>2. \A u \in Tab : pc'[u] = "putFunction" /\ \A j \in job'[u] : j.tools = {}
      BY <3>1 DEF Sole
    <3> QED BY <2>1, <3>1, <3>2 DEF SoleInv, objects
  <2>6. CASE BeginUpdateAgent(t)
    <3> PICK a \in Agent, names \in SUBSET Function, kept \in SUBSET formTools[t] :
          Start(t, "putAgent",
                [target |-> a, rv |-> agent[a].rv, pkg |-> {}, items |-> {},
                 tools |-> {Submitted(ref) : ref \in kept} \union Qualified(names)])
      BY <2>6 DEF BeginUpdateAgent
    <3> DEFINE tools == {Submitted(ref) : ref \in kept} \union Qualified(names)
    <3>1. kept \subseteq ToolRef /\ \A r \in kept : r.ns = "given"
      BY DEF SoleInv, TypeOK
    <3>2. \A r \in tools : r.ns = "given"
      BY <1>0, <3>1
    <3> HIDE DEF tools
    <3>3. /\ UNCHANGED objects /\ pc'[t] = "putAgent"
          /\ \A j \in job'[t] : j.tools = tools
      BY DEF Start, TypeOK, tools
    <3>4. \A u \in Tab : u = t
      BY DEF Sole
    <3> QED BY <2>1, <3>2, <3>3, <3>4 DEF SoleInv, objects
  <2>7. ASSUME \/ \E a \in Agent : CreateAgent(t, a) \/ DeleteAgent(t, a)
               \/ \E f \in Function : CreateFunction(t, f)
        PROVE  pc[t] = "idle" /\ UNCHANGED <<pc, job>>
    BY <2>7 DEF CreateAgent, DeleteAgent, CreateFunction
  <2> QED BY <1>2, <2>2, <2>3, <2>4, <2>5, <2>6, <2>7 DEF Serve
<1>3. ~KubectlWrites
  BY DEF KubectlWrites, Sole
<1>4. CASE UNCHANGED vars
  BY <1>4 DEF vars, objects, client, SoleInv, IsFunctionUsed
<1> QED BY <1>1, <1>2, <1>3, <1>4 DEF Next

(* One tab, alone: a Function whose deletion is under way stays unused. *)
THEOREM SoleInvariant == ASSUME Sole PROVE Spec => []SoleInv
<1>1. Init => SoleInv
  BY DEF Init, SoleInv
<1>2. IInv /\ IInv' /\ SoleInv /\ [Next]_vars => SoleInv'
  BY SoleStep DEF IInv
<1> QED BY <1>1, <1>2, Inductive, PTL DEF Spec

(* One tab, alone, deletes no Function that an Agent uses. *)
THEOREM UsedFunctionsStay == ASSUME Sole PROVE Spec => UsedFunctionStays
<1>1. ASSUME IInv, SoleInv, NEW t \in Tab, EndDelete(t), NEW f \in Function,
             function[f].live, ~function'[f].live
      PROVE  Users(f) = {}
  <2> PICK g \in Function, j \in job[t] :
        /\ g = j.target
        /\ IF function[g].live THEN RemoveFunction(g) ELSE UNCHANGED objects
    BY <1>1 DEF EndDelete
  <2>1. RemoveFunction(g) /\ f = g
    BY <1>1 DEF RemoveFunction, objects, IInv, TypeOK
  <2>2. ~IsFunctionUsed(f)
    BY <1>1, <2>1 DEF SoleInv, EndDelete
  <2>3. \A a \in Agent : \A r \in agent[a].tools :
          r.name = f => r = [ns |-> "given", name |-> f]
    BY <1>1 DEF SoleInv, IInv, TypeOK, AgentObject, ToolRef
  <2> QED BY <2>2, <2>3 DEF Users, IsFunctionUsed
<1>2. IInv /\ SoleInv /\ [Next]_vars =>
      [\A t \in Tab : EndDelete(t) =>
         \A f \in Function : function[f].live /\ ~function'[f].live => Users(f) = {}]_vars
  BY <1>1
<1> QED BY <1>2, Inductive, SoleInvariant, PTL DEF Spec, UsedFunctionStays
=============================================================================
