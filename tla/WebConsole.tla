----------------------------- MODULE WebConsole -----------------------------
(***************************************************************************)
(* The web console of src/web: browser tabs whose forms start server       *)
(* actions (src/web/src/server/logics), each one or two calls of the       *)
(* Kubernetes API.  Between two calls of an action other tabs, kubectl and *)
(* the operator write the same Agents and Functions.                       *)
(*                                                                         *)
(* An action that fails, or whose answer is lost, shows an error notice    *)
(* and leaves nothing else behind.                                         *)
(***************************************************************************)
EXTENDS Integers

CONSTANTS Tab,      \* browser tabs; a tab's server actions run one after another
          Agent, Function, \* names of resources, of one namespace
          Package,  \* what packageRef and module of a Function may say
          Kubectl,  \* whether the resources are also written without the console
          MaxRev    \* bound: writes to the API server

ASSUME KubectlAssumption == Kubectl \in BOOLEAN
ASSUME MaxRevAssumption  == MaxRev \in Nat

(* An entry of spec.tools; its namespace is spelled out, omitted (then it is
   the Agent's), or the text "undefined". *)
ToolRef == [ns : {"given", "none", "undefined"}, name : Function]

AgentObject == [live : BOOLEAN, rv : Nat, tools : SUBSET ToolRef]

(* spec.config: item k is an item's name with k dots before it. *)
FunctionObject == [live : BOOLEAN, rv : Nat, pkg : Package, items : SUBSET Nat]

VARIABLES
  rev,       \* the API server's revision: each write is a new one
  agent,     \* agent[a]: the Agent in the API server
  function,  \* function[f]: the Function in the API server
  page,      \* page[t]: the resource whose details tab t shows, or "list"
  formTools, \* formTools[t]: the tools in the form of an Agent's page
  dataTools, \* dataTools[t]: the tools in the details the page has fetched
  formItems, \* formItems[t]: the config items the form store has values for
  dataItems, \* dataItems[t]: the config items the page renders fields for
  pc,        \* pc[t]: the API call the tab's server action makes next
  job        \* job[t]: what that action has read and will write

objects == <<rev, agent, function>>
client == <<page, formTools, dataTools, formItems, dataItems>>
vars == <<objects, client, pc, job>>

Job == [target : Agent \union Function, rv : Nat, pkg : SUBSET Package,
        tools : SUBSET ToolRef, items : SUBSET Nat]

TypeOK ==
  /\ rev \in 0..MaxRev
  /\ agent \in [Agent -> AgentObject]
  /\ function \in [Function -> FunctionObject]
  /\ page \in [Tab -> Agent \union Function \union {"list"}]
  /\ formTools \in [Tab -> SUBSET ToolRef]
  /\ dataTools \in [Tab -> SUBSET ToolRef]
  /\ formItems \in [Tab -> SUBSET Nat]
  /\ dataItems \in [Tab -> SUBSET Nat]
  /\ pc \in [Tab -> {"idle", "putAgent", "putFunction", "delete"}]
  /\ job \in [Tab -> SUBSET Job]

Init ==
  /\ rev = 0
  /\ agent = [a \in Agent |-> [live |-> FALSE, rv |-> 0, tools |-> {}]]
  /\ \E p \in Package :
       function = [f \in Function |-> [live |-> FALSE, rv |-> 0, pkg |-> p, items |-> {}]]
  /\ page = [t \in Tab |-> "list"]
  /\ formTools = [t \in Tab |-> {}]
  /\ dataTools = [t \in Tab |-> {}]
  /\ formItems = [t \in Tab |-> {}]
  /\ dataItems = [t \in Tab |-> {}]
  /\ pc = [t \in Tab |-> "idle"]
  /\ job = [t \in Tab |-> {}]

-----------------------------------------------------------------------------
(* The API server (external) *)

Commit == rev < MaxRev /\ rev' = rev + 1

StoreAgent(a, tools) ==
  /\ Commit
  /\ agent' = [agent EXCEPT ![a] = [live |-> TRUE, rv |-> rev + 1, tools |-> tools]]
  /\ UNCHANGED function

StoreFunction(f, pkg, items) ==
  /\ Commit
  /\ function' = [function EXCEPT ![f] =
                    [live |-> TRUE, rv |-> rev + 1, pkg |-> pkg, items |-> items]]
  /\ UNCHANGED agent

RemoveAgent(a) ==
  /\ agent[a].live
  /\ Commit
  /\ agent' = [agent EXCEPT ![a].live = FALSE]
  /\ UNCHANGED function

RemoveFunction(f) ==
  /\ function[f].live
  /\ Commit
  /\ function' = [function EXCEPT ![f].live = FALSE]
  /\ UNCHANGED agent

-----------------------------------------------------------------------------
(* What a page shows and what its form holds *)

(* buildTools splits "namespace/name": what the form made of an omitted
   namespace is the text "undefined". *)
Submitted(ref) == [ref EXCEPT !.ns = IF @ = "none" THEN "undefined" ELSE @]

Qualified(names) == {[ns |-> "given", name |-> f] : f \in names}

(* A form names item k "config." plus the item; extractConfigs cuts off
   "config" and leaves the dot. *)
Extracted(items) == {k + 1 : k \in items}

OpenAgent(t, a) ==
  /\ agent[a].live
  /\ page' = [page EXCEPT ![t] = a]
  /\ formTools' = [formTools EXCEPT ![t] = agent[a].tools]
  /\ dataTools' = [dataTools EXCEPT ![t] = agent[a].tools]
  /\ UNCHANGED <<objects, formItems, dataItems, pc, job>>

OpenFunction(t, f) ==
  /\ function[f].live
  /\ page' = [page EXCEPT ![t] = f]
  /\ formItems' = [formItems EXCEPT ![t] = function[f].items]
  /\ dataItems' = [dataItems EXCEPT ![t] = function[f].items]
  /\ UNCHANGED <<objects, formTools, dataTools, pc, job>>

(* The details query runs again, after a save or when the window regains the
   focus.  The initial values of a mounted form are not set again ... *)
Refetch(t) ==
  /\ \/ \E a \in Agent :
          /\ page[t] = a /\ agent[a].live
          /\ dataTools' = [dataTools EXCEPT ![t] = agent[a].tools]
          /\ UNCHANGED dataItems
     \/ \E f \in Function :
          /\ page[t] = f /\ function[f].live
          /\ dataItems' = [dataItems EXCEPT ![t] = function[f].items]
          /\ UNCHANGED dataTools
  /\ UNCHANGED <<objects, page, formTools, formItems, pc, job>>

(* ... except by resetFields, when editing is cancelled. *)
CancelEdit(t) ==
  /\ page[t] # "list"
  /\ formTools' = [formTools EXCEPT ![t] = dataTools[t]]
  /\ formItems' = [formItems EXCEPT ![t] = dataItems[t]]
  /\ UNCHANGED <<objects, page, dataTools, dataItems, pc, job>>

Browse(t) ==
  \/ \E a \in Agent : OpenAgent(t, a)
  \/ \E f \in Function : OpenFunction(t, f)
  \/ Refetch(t)
  \/ CancelEdit(t)

-----------------------------------------------------------------------------
(* Server actions *)

Start(t, call, j) ==
  /\ pc[t] = "idle"
  /\ pc' = [pc EXCEPT ![t] = call]
  /\ job' = [job EXCEPT ![t] = {j}]
  /\ UNCHANGED <<objects, client>>

Finish(t) ==
  /\ pc' = [pc EXCEPT ![t] = "idle"]
  /\ job' = [job EXCEPT ![t] = {}]
  /\ UNCHANGED client

CreateAgent(t, a) ==
  /\ pc[t] = "idle"
  /\ ~agent[a].live
  /\ \E names \in SUBSET Function : StoreAgent(a, Qualified(names))
  /\ UNCHANGED <<client, pc, job>>

CreateFunction(t, f) ==
  /\ pc[t] = "idle"
  /\ ~function[f].live
  /\ \E p \in Package, items \in {{}, {0}} : StoreFunction(f, p, Extracted(items))
  /\ UNCHANGED <<client, pc, job>>

DeleteAgent(t, a) ==
  /\ pc[t] = "idle"
  /\ RemoveAgent(a)
  /\ UNCHANGED <<client, pc, job>>

(* isFunctionUsed: the namespace of a tool has to be spelled out. *)
IsFunctionUsed(f) ==
  \E a \in Agent : agent[a].live /\ [ns |-> "given", name |-> f] \in agent[a].tools

(* Mutant: the list of Agents is not looked at. *)
BeginDeleteUnchecked(t, f) ==
  Start(t, "delete", [target |-> f, rv |-> rev, pkg |-> {}, tools |-> {}, items |-> {}])

(* deleteFunction, its first call: list the Agents, as of this revision. *)
BeginDelete(t, f) ==
  /\ ~IsFunctionUsed(f)
  /\ Start(t, "delete", [target |-> f, rv |-> rev, pkg |-> {}, tools |-> {}, items |-> {}])

EndDelete(t) ==
  /\ pc[t] = "delete"
  /\ \E f \in Function, j \in job[t] :
       /\ f = j.target
       /\ IF function[f].live THEN RemoveFunction(f) ELSE UNCHANGED objects
  /\ Finish(t)

(* Mutant: the package is the form's, of whatever version the form was. *)
BeginUpdateFunctionOfForm(t) ==
  \E f \in Function, p \in Package :
    /\ page[t] = f
    /\ function[f].live
    /\ Start(t, "putFunction",
             [target |-> f, rv |-> function[f].rv, pkg |-> {p},
              tools |-> {}, items |-> formItems[t] \intersect dataItems[t]])

(* updateFunction, its first call: read the Function.  The form sends a value
   for each item that has a field and a value in the form store. *)
BeginUpdateFunction(t) ==
  \E f \in Function :
    /\ page[t] = f
    /\ function[f].live
    /\ Start(t, "putFunction",
             [target |-> f, rv |-> function[f].rv, pkg |-> {function[f].pkg},
              tools |-> {}, items |-> formItems[t] \intersect dataItems[t]])

(* Mutant: the Function is replaced without its resourceVersion. *)
EndUpdateFunctionBlindly(t) ==
  /\ pc[t] = "putFunction"
  /\ \E f \in Function, j \in job[t] :
       /\ f = j.target
       /\ function[f].live
       /\ \E p \in j.pkg : StoreFunction(f, p, Extracted(j.items))
  /\ Finish(t)

(* Its second call replaces the version that was read, or fails. *)
EndUpdateFunction(t) ==
  /\ pc[t] = "putFunction"
  /\ \E f \in Function, j \in job[t] :
       /\ f = j.target
       /\ IF function[f].live /\ function[f].rv = j.rv
          THEN \E p \in j.pkg : StoreFunction(f, p, Extracted(j.items))
          ELSE UNCHANGED objects
  /\ Finish(t)

(* updateAgent likewise; the user may drop tools and choose others. *)
BeginUpdateAgent(t) ==
  \E a \in Agent, names \in SUBSET Function, kept \in SUBSET formTools[t] :
    /\ page[t] = a
    /\ agent[a].live
    /\ Start(t, "putAgent",
             [target |-> a, rv |-> agent[a].rv, pkg |-> {}, items |-> {},
              tools |-> {Submitted(ref) : ref \in kept} \union Qualified(names)])

EndUpdateAgent(t) ==
  /\ pc[t] = "putAgent"
  /\ \E a \in Agent, j \in job[t] :
       /\ a = j.target
       /\ IF agent[a].live /\ agent[a].rv = j.rv
          THEN StoreAgent(a, j.tools)
          ELSE UNCHANGED objects
  /\ Finish(t)

Serve(t) ==
  \/ \E a \in Agent : CreateAgent(t, a) \/ DeleteAgent(t, a)
  \/ \E f \in Function : CreateFunction(t, f) \/ BeginDelete(t, f)
  \/ EndDelete(t)
  \/ BeginUpdateFunction(t) \/ EndUpdateFunction(t)
  \/ BeginUpdateAgent(t) \/ EndUpdateAgent(t)

-----------------------------------------------------------------------------
(* Users of kubectl, and the operators (external) *)

KubectlWrites ==
  /\ Kubectl
  /\ \/ \E a \in Agent, refs \in SUBSET {r \in ToolRef : r.ns # "undefined"} :
          StoreAgent(a, refs)
     \/ \E f \in Function, p \in Package, items \in {{}, {0}} : StoreFunction(f, p, items)
     \/ \E a \in Agent : RemoveAgent(a)
     \/ \E f \in Function : RemoveFunction(f)
  /\ UNCHANGED <<client, pc, job>>

Next == (\E t \in Tab : Browse(t) \/ Serve(t)) \/ KubectlWrites

Spec == Init /\ [][Next]_vars

-----------------------------------------------------------------------------
(* Properties *)

(* What an action holds between its calls is of the revision it has read: as
   long as that version of a Function is the stored one, so is its package; no
   Agent that is as old as the list of a delete uses the Function, spelled out. *)
JobInv ==
  /\ \A f \in Function : function[f].rv <= rev
  /\ \A a \in Agent : agent[a].rv <= rev
  /\ \A t \in Tab : \A f \in Function : \A j \in job[t] :
       /\ pc[t] = "putFunction" /\ f = j.target =>
            /\ j.rv <= rev
            /\ function[f].live /\ function[f].rv = j.rv => j.pkg = {function[f].pkg}
       /\ pc[t] = "delete" /\ f = j.target =>
            /\ j.rv <= rev
            /\ \A a \in Agent : agent[a].live /\ agent[a].rv <= j.rv =>
                 [ns |-> "given", name |-> f] \notin agent[a].tools

IInv == TypeOK /\ JobInv

(* The console never moves a live Function to another package or module,
   although it writes both back: whatever others do between its two calls,
   a new Function of the old name included. *)
PackageKept ==
  [][\A f \in Function :
       /\ \E t \in Tab : Serve(t)
       /\ function[f].live /\ function'[f].live
       => function'[f].pkg = function[f].pkg]_vars

(* The Agents that use a Function: an omitted namespace is the Agent's. *)
Users(f) == {a \in Agent : agent[a].live /\ \E r \in agent[a].tools :
                             r.name = f /\ r.ns # "undefined"}

(* "The function is used by agent!": the console deletes no Function that an
   Agent uses. *)
UsedFunctionStays ==
  [][\A t \in Tab : EndDelete(t) =>
       \A f \in Function : function[f].live /\ ~function'[f].live => Users(f) = {}]_vars

(* The same at the moment of the check: a Function that an Agent uses right
   then is not taken for unused. *)
CheckSeesUsers ==
  [][\A t \in Tab : \A f \in Function : BeginDelete(t, f) => Users(f) = {}]_vars

(* Who may lose a Function to the console all the same: an Agent written after
   the list that the delete was checked against, whoever wrote it, or one that
   leaves the namespace out. *)
OnlyLateUsersLose ==
  [][\A t \in Tab : EndDelete(t) =>
       \A f \in Function : function[f].live /\ ~function'[f].live =>
         \A a \in Agent :
           agent[a].live /\ [ns |-> "given", name |-> f] \in agent[a].tools =>
             \E j \in job[t] : agent[a].rv > j.rv]_vars

(* With one tab and nothing but the console, every tool reference is spelled
   out, and while a delete is under way its Function stays unused. *)
SoleInv ==
  /\ \A a \in Agent : \A r \in agent[a].tools : r.ns = "given"
  /\ \A t \in Tab : \A r \in formTools[t] \union dataTools[t] : r.ns = "given"
  /\ \A t \in Tab : \A j \in job[t] : \A r \in j.tools : r.ns = "given"
  /\ \A t \in Tab : \A j \in job[t] : \A f \in Function :
       pc[t] = "delete" /\ f = j.target => ~IsFunctionUsed(f)
=============================================================================
