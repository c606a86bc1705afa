---------------------------- MODULE AgentRuntime ----------------------------
(***************************************************************************)
(* The agent function of src/agent/main.py: one process that serves many   *)
(* messages at once, each in a session of its own, and whose output tool   *)
(* leaves its message in a dictionary that all invocations share; and the  *)
(* life of that process from init() to close().                            *)
(*                                                                         *)
(* An action of process() is what one coroutine does between two awaits.   *)
(* The model, the runner, the session service and the function-stream SDK  *)
(* are external; a tool of the agent is a call of the RPC manager.         *)
(***************************************************************************)
EXTENDS FiniteSets

CONSTANTS Msg,          \* the messages the function is given
          User, UserOf, \* the user each message names in __user_id
          Json,         \* JSON values
          Output,       \* what an agent may pass to the output tool
          Text,         \* what it may say at its end
          Repair,       \* the JSON that stripping and repairing makes of either
          PostProcess,  \* whether the agent's context has a jsonnet script
          Script        \* what the script makes of a message and that JSON

ASSUME UserAssumption == UserOf \in [Msg -> User]
ASSUME RepairAssumption == Repair \in [Output \union Text -> Json]
ASSUME ScriptAssumption == Script \in [Msg -> [Json -> Json]]
ASSUME PostProcessAssumption == PostProcess \in BOOLEAN

VARIABLES
  stage,     \* how far init(), the service and close() have come
  open,      \* what is open: the manager's client and its response task
             \* ("rpc"), the session service, the runner
  manager,   \* whether self.rpc_manager is set
  raised,    \* what has raised: subscribing, or the close of one of these
  pc,        \* pc[m]: where process() stands for message m
  outputMap, \* the dictionary: at most one output for each session id
  told,      \* told[m]: the last output the agent gave in the session of m
  said,      \* said[m]: the text of its final response
  reply      \* reply[m]: what process() returned; nothing for None

life == <<stage, open, manager, raised>>
msgVars == <<pc, told, said, reply>>
vars == <<life, msgVars, outputMap>>

Ended == {"returned", "raised"}
Running == {"creating", "running", "inTool"}

(* Mutant: the session is the user's. *)
SessionIdOfUser(m) == UserOf[m]

(* process() draws a new uuid for each message: the session is the message. *)
SessionId(m) == m

(* What process() returns for an output of the tool or a text: lstrip, rstrip
   and repair_json_output make JSON of it, which the script then turns into
   other JSON.  Both are given as functions: any that take no notice of other
   messages. *)
Processed(m, x) == IF PostProcess THEN Script[m][Repair[x]] ELSE Repair[x]

Stages == {"initClient", "initConsumer", "initSession", "initRunner", "serving",
           "stopping", "closeRunner", "closeSession", "closeRpc", "exited"}
Resources == {"rpc", "session", "runner"}

TypeOK ==
  /\ stage \in Stages
  /\ open \subseteq Resources
  /\ manager \in BOOLEAN
  /\ raised \subseteq {"subscribe", "function"} \union Resources
  /\ pc \in [Msg -> {"new"} \union Running \union Ended]
  /\ outputMap \in [Msg \union User -> SUBSET Output]
  /\ told \in [Msg -> SUBSET Output]
  /\ said \in [Msg -> SUBSET Text]
  /\ reply \in [Msg -> SUBSET Json]

Init ==
  /\ stage = "initClient"
  /\ open = {}
  /\ manager = FALSE
  /\ raised = {}
  /\ pc = [m \in Msg |-> "new"]
  /\ outputMap = [k \in Msg \union User |-> {}]
  /\ told = [m \in Msg |-> {}]
  /\ said = [m \in Msg |-> {}]
  /\ reply = [m \in Msg |-> {}]

-----------------------------------------------------------------------------
(* process() *)

Goto(m, where) == pc' = [pc EXCEPT ![m] = where]

(* Up to "await create_session". *)
Begin(m) ==
  /\ stage = "serving"
  /\ pc[m] = "new"
  /\ Goto(m, "creating")
  /\ UNCHANGED <<life, outputMap, told, said, reply>>

SessionCreated(m) ==
  /\ pc[m] = "creating"
  /\ Goto(m, "running")
  /\ UNCHANGED <<life, outputMap, told, said, reply>>

(* The model calls output_tool, as often as it likes; the last one counts. *)
OutputTool(m) ==
  /\ pc[m] = "running"
  /\ \E out \in Output :
       /\ outputMap' = [outputMap EXCEPT ![SessionId(m)] = {out}]
       /\ told' = [told EXCEPT ![m] = {out}]
  /\ UNCHANGED <<life, pc, said, reply>>

(* FSFunctionTool.run_async: the session waits for request() or produce(),
   which answers or raises. *)
CallTool(m) ==
  /\ pc[m] = "running"
  /\ Goto(m, "inTool")
  /\ UNCHANGED <<life, outputMap, told, said, reply>>

ToolAnswers(m) ==
  /\ pc[m] = "inTool"
  /\ Goto(m, "running")
  /\ UNCHANGED <<life, outputMap, told, said, reply>>

(* Whatever an await of process() raises leaves process(): the session
   service, the model, a tool, a final response without content, the SDK that
   cancels. *)
Raise(m) ==
  /\ pc[m] \in Running
  /\ Goto(m, "raised")
  /\ UNCHANGED <<life, outputMap, told, said, reply>>

(* The events end, or the final response has no text: None is returned. *)
EndWithoutText(m) ==
  /\ pc[m] = "running"
  /\ Goto(m, "returned")
  /\ UNCHANGED <<life, outputMap, told, said, reply>>

(* Mutant: the dictionary is read and the output left in it. *)
EndWithTextGet(m) ==
  /\ pc[m] = "running"
  /\ \E text \in Text :
       LET told0 == outputMap[SessionId(m)] IN
       /\ said' = [said EXCEPT ![m] = {text}]
       /\ Goto(m, "returned")
       /\ reply' = [reply EXCEPT ![m] =
                      {Processed(m, x) : x \in IF told0 # {} THEN told0 ELSE {text}}]
  /\ UNCHANGED <<life, outputMap, told>>

(* A final response with text: the output is popped from the dictionary, or
   the text stands for it; post-processing may raise. *)
EndWithText(m) ==
  /\ pc[m] = "running"
  /\ \E text \in Text :
       LET popped == outputMap[SessionId(m)]
           output == IF popped # {} THEN popped ELSE {text}
       IN
       /\ said' = [said EXCEPT ![m] = {text}]
       /\ outputMap' = [outputMap EXCEPT ![SessionId(m)] = {}]
       /\ \/ /\ Goto(m, "returned")
             /\ reply' = [reply EXCEPT ![m] = {Processed(m, x) : x \in output}]
          \/ /\ PostProcess
             /\ Goto(m, "raised")
             /\ UNCHANGED reply
  /\ UNCHANGED <<life, told>>

(* When the process exits, asyncio.run cancels the coroutines that are left. *)
Process(m) ==
  \/ Raise(m)
  \/ /\ stage # "exited"
     /\ \/ Begin(m) \/ SessionCreated(m)
        \/ OutputTool(m) \/ CallTool(m) \/ ToolAnswers(m)
        \/ EndWithoutText(m) \/ EndWithText(m)

-----------------------------------------------------------------------------
(* init(), main() and close() *)

(* PulsarRPCManager(...): the client and the response task exist before the
   topic is subscribed to.  If subscribe raises, the constructor does, and
   self.rpc_manager stays None. *)
CreateClient ==
  /\ stage = "initClient"
  /\ open' = open \union {"rpc"}
  /\ stage' = "initConsumer"
  /\ UNCHANGED <<manager, raised>>

Subscribe ==
  /\ stage = "initConsumer"
  /\ \/ manager' = TRUE /\ stage' = "initSession" /\ UNCHANGED raised
     \/ raised' = raised \union {"subscribe"} /\ stage' = "stopping" /\ UNCHANGED manager
  /\ UNCHANGED open

(* The constructors of the session service and of the runner are external:
   each leaves nothing behind when it raises. *)
InitStep(at, what, next) ==
  /\ stage = at
  /\ open' = open \union {what}
  /\ stage' = next
  /\ UNCHANGED <<manager, raised>>

(* The manager first, then the session service, then the runner.  What raises
   in between (a configuration, an authentication, a constructor) ends start(),
   and main() goes on in its finally clause. *)
Initialise ==
  /\ \/ CreateClient \/ Subscribe
     \/ InitStep("initSession", "session", "initRunner")
     \/ InitStep("initRunner", "runner", "serving")
     \/ /\ stage \in {"initClient", "initSession", "initRunner"}
        /\ stage' = "stopping"
        /\ UNCHANGED <<open, manager, raised>>
  /\ UNCHANGED <<msgVars, outputMap>>

(* start() returns, raises or is cancelled. *)
StopServing ==
  /\ stage = "serving"
  /\ stage' = "stopping"
  /\ UNCHANGED <<open, manager, raised, msgVars, outputMap>>

(* function.close() of the SDK: if it raises, agent_function.close() is never
   reached. *)
CloseFunction ==
  /\ stage = "stopping"
  /\ \/ stage' = "closeRunner" /\ UNCHANGED raised
     \/ stage' = "exited" /\ raised' = raised \union {"function"}
  /\ UNCHANGED <<open, manager, msgVars, outputMap>>

(* What close() finds in self.runner, self.session_service, self.rpc_manager *)
Held == (open \ {"rpc"}) \union (IF manager THEN {"rpc"} ELSE {})

(* One await of close(); an exception skips those that follow. *)
CloseStep(at, what, next) ==
  /\ stage = at
  /\ \/ stage' = next /\ open' = open \ (Held \intersect {what}) /\ UNCHANGED raised
     \/ /\ what \in Held
        /\ stage' = "exited"
        /\ raised' = raised \union {what}
        /\ UNCHANGED open
  /\ UNCHANGED <<manager, msgVars, outputMap>>

(* Mutant: without a runner there is nothing to close. *)
CloseOnlyWithRunner ==
  \/ CloseStep("closeRunner", "runner", IF "runner" \in open THEN "closeSession" ELSE "exited")
  \/ CloseStep("closeSession", "session", "closeRpc")
  \/ CloseStep("closeRpc", "rpc", "exited")

Close ==
  \/ CloseStep("closeRunner", "runner", "closeSession")
  \/ CloseStep("closeSession", "session", "closeRpc")
  \/ CloseStep("closeRpc", "rpc", "exited")

Next ==
  \/ \E m \in Msg : Process(m)
  \/ Initialise \/ StopServing \/ CloseFunction \/ Close

Spec == Init /\ [][Next]_vars

-----------------------------------------------------------------------------
(* Properties *)

(* The dictionary agrees with the sessions: while a session runs its entry is
   the last output of that very session; afterwards an entry stays only where
   the agent gave an output that process() never looked at. *)
MapExact ==
  /\ \A u \in User \ Msg : outputMap[u] = {}
  /\ \A m \in Msg :
       /\ pc[m] \in {"running", "inTool"} => outputMap[m] = told[m]
       /\ outputMap[m] # {} => outputMap[m] = told[m] /\ said[m] = {}
       /\ pc[m] \in {"new", "creating"} => told[m] = {}
       /\ pc[m] \notin Ended => said[m] = {}

(* The sessions of one process do not mix: what process() returns for a
   message is the last output of that message's own session, or, when it gave
   none, what the agent said at its end. *)
OwnOutput ==
  \A m \in Msg :
    reply[m] # {} =>
      /\ pc[m] = "returned"
      /\ reply[m] = {Processed(m, x) : x \in IF told[m] # {} THEN told[m] ELSE said[m]}

(* What each stage of init() and close() has opened and not yet closed. *)
Opened ==
  /\ "session" \in open => manager
  /\ "runner" \in open => "session" \in open
  /\ stage = "initClient" => open = {} /\ ~manager
  /\ stage = "initConsumer" => open = {"rpc"} /\ ~manager
  /\ stage \in {"initSession", "initRunner", "serving"} => manager
  /\ stage = "initRunner" => "session" \in open
  /\ stage \notin {"initClient", "initConsumer", "exited"} /\ ~manager =>
       open = {} \/ "subscribe" \in raised
  /\ stage = "closeSession" => "runner" \notin open
  /\ stage = "closeRpc" => open \subseteq {"rpc"}

(* What can keep a resource from being closed: its own close, the closes before
   it, and for the manager's client a failed subscription, after which close()
   does not find the manager. *)
Excuses == [runner  |-> {"function", "runner"},
            session |-> {"function", "runner", "session"},
            rpc     |-> {"function", "runner", "session", "rpc", "subscribe"}]

(* "Close the resources used by the agent function.": however far init() got,
   when the process ends whatever is still open has an excuse.  In particular
   everything is closed if subscribing and closing succeeded, and a close that
   raises costs none of the resources closed before it. *)
ResourcesReleased == stage = "exited" => \A what \in open : Excuses[what] \intersect raised # {}

IInv == TypeOK /\ MapExact /\ OwnOutput /\ Opened /\ ResourcesReleased

-----------------------------------------------------------------------------
(* The sessions as the senders of the messages see them *)

Session == INSTANCE AgentSessions WITH
  Made   <- [m \in Msg |-> [x \in Output \union Text |-> Processed(m, x)]],
  state  <- [m \in Msg |-> IF pc[m] \in Running THEN "open" ELSE pc[m]],
  output <- told

(* The sessions of one process, which share a dictionary and interleave at
   every await, behave as if each had an output of its own. *)
PrivateSessions == Session!Spec
=============================================================================
