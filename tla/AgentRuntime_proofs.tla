------------------------ MODULE AgentRuntime_proofs ------------------------
(***************************************************************************)
(* Proofs about AgentRuntime, for any messages, users, outputs and texts.  *)
(* IInv is inductive as it stands: MapExact is what ties the dictionary,   *)
(* which all sessions share, to the one session that may read an entry.    *)
(***************************************************************************)
EXTENDS AgentRuntime, TLAPS

USE DEF Ended, Running, SessionId, Goto

(* What process() makes of an output or a text is JSON. *)
LEMMA ProcessedType ==
  ASSUME NEW m \in Msg, NEW x \in Output \union Text PROVE Processed(m, x) \in Json
BY RepairAssumption, ScriptAssumption DEF Processed

(* A step of one message keeps the types. *)
LEMMA ProcessType ==
  ASSUME TypeOK, NEW m \in Msg, Process(m) PROVE TypeOK'
<1>1. CASE \/ Raise(m) \/ Begin(m) \/ SessionCreated(m)
           \/ CallTool(m) \/ ToolAnswers(m) \/ EndWithoutText(m)
  BY <1>1 DEF TypeOK, life, Raise, Begin, SessionCreated, CallTool, ToolAnswers, EndWithoutText
<1>2. CASE OutputTool(m)
  <2>1. PICK out \in Output :
          /\ outputMap' = [outputMap EXCEPT ![m] = {out}]
          /\ told' = [told EXCEPT ![m] = {out}]
    BY <1>2 DEF OutputTool
  <2>2. {out} \in SUBSET Output
    OBVIOUS
  <2> QED BY <1>2, <2>1, <2>2 DEF TypeOK, life, OutputTool
<1>3. CASE EndWithText(m)
  <2>1. PICK text \in Text :
          /\ said' = [said EXCEPT ![m] = {text}]
          /\ outputMap' = [outputMap EXCEPT ![m] = {}]
          /\ \/ /\ pc' = [pc EXCEPT ![m] = "returned"]
                /\ reply' = [reply EXCEPT ![m] =
                     {Processed(m, x) : x \in IF outputMap[m] # {} THEN outputMap[m] ELSE {text}}]
             \/ pc' = [pc EXCEPT ![m] = "raised"] /\ reply' = reply
    BY <1>3 DEF EndWithText
  <2>2. (IF outputMap[m] # {} THEN outputMap[m] ELSE {text}) \in SUBSET (Output \union Text)
    BY DEF TypeOK
  <2>3. {Processed(m, x) : x \in IF outputMap[m] # {} THEN outputMap[m] ELSE {text}} \in SUBSET Json
    BY <2>2, ProcessedType
  <2>4. {text} \in SUBSET Text
    OBVIOUS
  <2>5. reply' \in [Msg -> SUBSET Json] /\ pc' \in [Msg -> {"new"} \union Running \union Ended]
    BY <2>1, <2>3 DEF TypeOK
  <2>6. said' \in [Msg -> SUBSET Text] /\ outputMap' \in [Msg \union User -> SUBSET Output]
    BY <2>1, <2>4 DEF TypeOK
  <2> QED BY <1>3, <2>5, <2>6 DEF TypeOK, life, EndWithText
<1> QED BY <1>1, <1>2, <1>3 DEF Process

(* A step of one message keeps the dictionary exact. *)
LEMMA ProcessMapExact ==
  ASSUME TypeOK, MapExact, NEW m \in Msg, Process(m) PROVE MapExact'
<1>1. CASE \/ Raise(m) \/ Begin(m) \/ SessionCreated(m)
           \/ CallTool(m) \/ ToolAnswers(m) \/ EndWithoutText(m)
  BY <1>1 DEF TypeOK, MapExact, Raise, Begin, SessionCreated, CallTool, ToolAnswers, EndWithoutText
<1>2. CASE OutputTool(m)
  BY <1>2 DEF TypeOK, MapExact, OutputTool
<1>3. CASE EndWithText(m)
  BY <1>3 DEF TypeOK, MapExact, EndWithText
<1> QED BY <1>1, <1>2, <1>3 DEF Process

(* A step of one message keeps each reply its own session's. *)
LEMMA ProcessOwnOutput ==
  ASSUME TypeOK, MapExact, OwnOutput, NEW m \in Msg, Process(m) PROVE OwnOutput'
<1> SUFFICES ASSUME NEW n \in Msg, reply'[n] # {}
    PROVE  /\ pc'[n] = "returned"
           /\ reply'[n] = {Processed(n, x) : x \in IF told'[n] # {} THEN told'[n] ELSE said'[n]}
  BY DEF OwnOutput
<1>1. CASE \/ Raise(m) \/ Begin(m) \/ SessionCreated(m)
           \/ CallTool(m) \/ ToolAnswers(m) \/ EndWithoutText(m)
  BY <1>1 DEF TypeOK, OwnOutput, Raise, Begin, SessionCreated, CallTool, ToolAnswers, EndWithoutText
<1>2. CASE OutputTool(m)
  BY <1>2 DEF TypeOK, OwnOutput, OutputTool
<1>3. CASE EndWithText(m) /\ n # m
  BY <1>3 DEF TypeOK, OwnOutput, EndWithText
<1>4. CASE EndWithText(m) /\ n = m
  <2>1. PICK text \in Text :
          /\ said' = [said EXCEPT ![m] = {text}]
          /\ \/ /\ pc' = [pc EXCEPT ![m] = "returned"]
                /\ reply' = [reply EXCEPT ![m] =
                     {Processed(m, x) : x \in IF outputMap[m] # {} THEN outputMap[m] ELSE {text}}]
             \/ pc' = [pc EXCEPT ![m] = "raised"] /\ reply' = reply
    BY <1>4 DEF EndWithText
  <2>2. /\ outputMap[m] = told[m]
        /\ told' = told
        /\ reply[m] = {}
    BY <1>4 DEF EndWithText, MapExact, OwnOutput
  <2>3. /\ pc'[m] = "returned"
        /\ reply'[m] = {Processed(m, x) : x \in IF told[m] # {} THEN told[m] ELSE {text}}
    BY <1>4, <2>1, <2>2 DEF TypeOK
  <2>4. said'[m] = {text}
    BY <2>1 DEF TypeOK
  <2> QED BY <1>4, <2>2, <2>3, <2>4
<1> QED BY <1>1, <1>2, <1>3, <1>4 DEF Process

(* The excuses of a resource contain its own close and those before it. *)
LEMMA ExcusesAre ==
  /\ \A what \in Resources : {"function", "runner", what} \subseteq Excuses[what]
  /\ "session" \in Excuses["rpc"] /\ "subscribe" \in Excuses["rpc"]
BY DEF Resources, Excuses

(* The life of the process leaves the sessions alone, and opens and closes in
   one order. *)
LEMMA LifeStep ==
  ASSUME IInv, Initialise \/ StopServing \/ CloseFunction \/ Close PROVE IInv'
<1>1. /\ UNCHANGED <<pc, told, said, reply, outputMap>>
      /\ stage' \in Stages /\ manager' \in BOOLEAN
      /\ open' \subseteq Resources
      /\ raised' \subseteq {"subscribe", "function"} \union Resources
  BY DEF IInv, TypeOK, Stages, Resources, msgVars, Initialise, CreateClient, Subscribe, InitStep,
         StopServing, CloseFunction, Close, CloseStep
<1>2. TypeOK' /\ MapExact' /\ OwnOutput'
  BY <1>1 DEF IInv, TypeOK, MapExact, OwnOutput
<1>3. Opened' /\ ResourcesReleased'
  <2> USE DEF IInv, TypeOK, Resources, Opened
  <2>1. CASE Initialise
    <3>1. stage' # "exited"
      BY <2>1 DEF Initialise, CreateClient, Subscribe, InitStep
    <3>2. Opened'
      <4>1. CASE CreateClient
        BY <4>1 DEF CreateClient
      <4>2. CASE Subscribe
        BY <4>2 DEF Subscribe
      <4>3. CASE InitStep("initSession", "session", "initRunner")
        BY <4>3 DEF InitStep
      <4>4. CASE InitStep("initRunner", "runner", "serving")
        BY <4>4 DEF InitStep
      <4>5. CASE /\ stage \in {"initClient", "initSession", "initRunner"}
                 /\ stage' = "stopping"
                 /\ UNCHANGED <<open, manager, raised>>
        BY <4>5
      <4> QED BY <2>1, <4>1, <4>2, <4>3, <4>4, <4>5 DEF Initialise
    <3> QED BY <3>1, <3>2 DEF ResourcesReleased
  <2>2. CASE StopServing \/ CloseFunction
    BY <2>2, ExcusesAre DEF StopServing, CloseFunction, ResourcesReleased
  <2>3. CASE CloseStep("closeRunner", "runner", "closeSession")
    BY <2>3, ExcusesAre DEF CloseStep, Held, ResourcesReleased
  <2>4. CASE CloseStep("closeSession", "session", "closeRpc")
    <3>1. CASE /\ stage' = "closeRpc" /\ open' = open \ (Held \intersect {"session"})
               /\ UNCHANGED raised
      BY <2>4, <3>1 DEF CloseStep, Held, ResourcesReleased
    <3>2. CASE stage' = "exited" /\ raised' = raised \union {"session"} /\ UNCHANGED open
      <4>1. open \subseteq {"session", "rpc"} /\ UNCHANGED manager
        BY <2>4 DEF CloseStep
      <4>2. \A what \in open : "session" \in Excuses[what]
        BY <4>1, ExcusesAre
      <4> QED BY <2>4, <3>2, <4>1, <4>2 DEF ResourcesReleased
    <3> QED BY <2>4, <3>1, <3>2 DEF CloseStep
  <2>5. CASE CloseStep("closeRpc", "rpc", "exited")
    BY <2>5, ExcusesAre DEF CloseStep, Held, ResourcesReleased
  <2> QED BY <2>1, <2>2, <2>3, <2>4, <2>5 DEF Close
<1> QED BY <1>2, <1>3 DEF IInv

(* The inductive invariant of the runtime holds in every reachable state. *)
THEOREM Inductive == Spec => []IInv
<1>1. Init => IInv
  BY PostProcessAssumption DEF Init, IInv, TypeOK, Stages, Resources, MapExact, OwnOutput, Opened, ResourcesReleased
<1>2. IInv /\ [Next]_vars => IInv'
  <2> SUFFICES ASSUME IInv, [Next]_vars PROVE IInv'
    OBVIOUS
  <2>1. ASSUME NEW m \in Msg, Process(m) PROVE IInv'
    <3>1. TypeOK' /\ MapExact' /\ OwnOutput'
      BY <2>1, ProcessType, ProcessMapExact, ProcessOwnOutput DEF IInv
    <3>2. UNCHANGED life
      BY <2>1 DEF Process, Raise, Begin, SessionCreated, OutputTool, CallTool, ToolAnswers,
                  EndWithoutText, EndWithText
    <3> QED BY <3>1, <3>2 DEF IInv, life, Opened, ResourcesReleased
  <2>2. CASE UNCHANGED vars
    BY <2>2 DEF vars, life, msgVars, IInv, TypeOK, MapExact, OwnOutput, Opened, ResourcesReleased
  <2> QED BY <2>1, <2>2, LifeStep DEF Next
<1> QED BY <1>1, <1>2, PTL DEF Spec

(* process() returns what the agent of that very message put out, however many
   messages are under way. *)
THEOREM SessionsDoNotMix == Spec => []OwnOutput
BY Inductive, PTL DEF IInv

(* The shared dictionary holds for each session its own last output. *)
THEOREM DictionaryOfSessions == Spec => []MapExact
BY Inductive, PTL DEF IInv

(* However far init() came, what is still open at the end was cut off by its own
   close, by one before it, or, the manager's client, by a failed subscription
   (src/agent/main.py:160-187, pulsar_rpc.py:44-60). *)
THEOREM Released == Spec => []ResourcesReleased
BY Inductive, PTL DEF IInv
-----------------------------------------------------------------------------
(* A step of process() is one step of that message's own session, or nothing
   its sender can see. *)
LEMMA ProcessRefines ==
  ASSUME TypeOK, MapExact, NEW m \in Msg, Process(m) PROVE [Session!Next]_Session!vars
<1> DEFINE state == [k \in Msg |-> IF pc[k] \in Running THEN "open" ELSE pc[k]]
<1>1. CASE Begin(m)
  <2>1. state[m] = "new" /\ state' = [state EXCEPT ![m] = "open"]
    BY <1>1 DEF TypeOK, Begin
  <2> QED BY <1>1, <2>1 DEF Begin, Session!Open, Session!Next
<1>2. CASE SessionCreated(m) \/ CallTool(m) \/ ToolAnswers(m)
  <2>1. state' = state
    BY <1>2 DEF TypeOK, SessionCreated, CallTool, ToolAnswers
  <2> QED BY <1>2, <2>1 DEF SessionCreated, CallTool, ToolAnswers, Session!vars
<1>3. CASE OutputTool(m)
  <2>1. state[m] = "open" /\ state' = state
    BY <1>3 DEF OutputTool
  <2> QED BY <1>3, <2>1 DEF OutputTool, Session!Put, Session!Next
<1>4. CASE Raise(m)
  <2>1. state[m] = "open" /\ state' = [state EXCEPT ![m] = "raised"]
    BY <1>4 DEF TypeOK, Raise
  <2> QED BY <1>4, <2>1 DEF Raise, Session!Fail, Session!Next
<1>5. CASE EndWithoutText(m)
  <2>1. state[m] = "open" /\ state' = [state EXCEPT ![m] = "returned"]
    BY <1>5 DEF TypeOK, EndWithoutText
  <2> QED BY <1>5, <2>1 DEF EndWithoutText, Session!AnswerNone, Session!Next
<1>6. CASE EndWithText(m)
  <2>1. PICK text \in Text :
          \/ /\ pc' = [pc EXCEPT ![m] = "returned"]
             /\ reply' = [reply EXCEPT ![m] =
                  {Processed(m, x) : x \in IF outputMap[m] # {} THEN outputMap[m] ELSE {text}}]
          \/ pc' = [pc EXCEPT ![m] = "raised"] /\ reply' = reply
    BY <1>6 DEF EndWithText
  <2>2. pc[m] = "running" /\ told' = told /\ outputMap[m] = told[m] /\ told[m] \subseteq Output
    BY <1>6 DEF EndWithText, MapExact, TypeOK
  <2>3. CASE pc' = [pc EXCEPT ![m] = "raised"] /\ reply' = reply
    <3>1. state[m] = "open" /\ state' = [state EXCEPT ![m] = "raised"]
      BY <2>2, <2>3 DEF TypeOK
    <3> QED BY <2>2, <2>3, <3>1 DEF Session!Fail, Session!Next
  <2>4. CASE /\ pc' = [pc EXCEPT ![m] = "returned"]
             /\ reply' = [reply EXCEPT ![m] =
                  {Processed(m, x) : x \in IF outputMap[m] # {} THEN outputMap[m] ELSE {text}}]
    <3>1. state[m] = "open" /\ state' = [state EXCEPT ![m] = "returned"]
      BY <2>2, <2>4 DEF TypeOK
    <3> DEFINE made == [k \in Msg |-> [x \in Output \union Text |-> Processed(k, x)]]
               from == IF told[m] # {} THEN told[m] ELSE {text}
    <3>2. from \subseteq Output \union Text
      BY <2>2
    <3>3. {Processed(m, x) : x \in from} = {made[m][x] : x \in from}
      BY <3>2
    <3>4. reply' = [reply EXCEPT ![m] = {made[m][x] : x \in from}]
      BY <2>2, <2>4, <3>3
    <3>5. Session!Answer(m)
      BY <2>2, <3>1, <3>4 DEF Session!Answer
    <3> QED BY <3>5 DEF Session!Next
  <2> QED BY <2>1, <2>3, <2>4
<1> QED BY <1>1, <1>2, <1>3, <1>4, <1>5, <1>6 DEF Process

(* The shared dictionary is invisible: process() implements sessions that each
   have an output of their own (src/agent/main.py:117-158). *)
THEOREM SessionsPrivate == Spec => PrivateSessions
<1>1. Init => Session!Init
  BY DEF Init, Session!Init
<1>2. IInv /\ [Next]_vars => [Session!Next]_Session!vars
  <2> SUFFICES ASSUME IInv, [Next]_vars PROVE [Session!Next]_Session!vars
    OBVIOUS
  <2>1. CASE \E m \in Msg : Process(m)
    BY <2>1, ProcessRefines DEF IInv
  <2>2. CASE Initialise \/ StopServing \/ CloseFunction \/ Close
    BY <2>2 DEF Initialise, CreateClient, Subscribe, InitStep, StopServing, CloseFunction,
       Close, CloseStep, msgVars,
       Session!vars
  <2>3. CASE UNCHANGED vars
    BY <2>3 DEF vars, msgVars, Session!vars
  <2> QED BY <2>1, <2>2, <2>3 DEF Next
<1> QED BY <1>1, <1>2, Inductive, PTL DEF Spec, PrivateSessions, Session!Spec
=============================================================================
