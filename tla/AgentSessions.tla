---------------------------- MODULE AgentSessions ----------------------------
(***************************************************************************)
(* What the agent function promises for each message (process() of         *)
(* src/agent/main.py): a session of its own, with no dictionary that other *)
(* sessions write to.  The message is answered once, by the last output    *)
(* its own session gave and, failing one, by what its agent said, each     *)
(* made JSON; or by None; or it ends in an exception.                      *)
(***************************************************************************)
CONSTANTS Msg,     \* the messages
          Output,  \* what a session may give the output tool
          Text,    \* what an agent may say at its end
          Made     \* Made[m][x]: the JSON made of either for message m

VARIABLES state,   \* where each session stands
          output,  \* the last output of each session; at most one
          reply    \* the answer to each message; nothing for None

vars == <<state, output, reply>>

Init == /\ state = [m \in Msg |-> "new"]
        /\ output = [m \in Msg |-> {}]
        /\ reply = [m \in Msg |-> {}]

Open(m) == /\ state[m] = "new"
           /\ state' = [state EXCEPT ![m] = "open"]
           /\ UNCHANGED <<output, reply>>

Put(m) == /\ state[m] = "open"
          /\ \E out \in Output : output' = [output EXCEPT ![m] = {out}]
          /\ UNCHANGED <<state, reply>>

Answer(m) == /\ state[m] = "open"
             /\ \E text \in Text :
                  reply' = [reply EXCEPT ![m] =
                    {Made[m][x] : x \in IF output[m] # {} THEN output[m] ELSE {text}}]
             /\ state' = [state EXCEPT ![m] = "returned"]
             /\ UNCHANGED output

AnswerNone(m) == /\ state[m] = "open"
                 /\ state' = [state EXCEPT ![m] = "returned"]
                 /\ UNCHANGED <<output, reply>>

Fail(m) == /\ state[m] = "open"
           /\ state' = [state EXCEPT ![m] = "raised"]
           /\ UNCHANGED <<output, reply>>

Next == \E m \in Msg : Open(m) \/ Put(m) \/ Answer(m) \/ AnswerNone(m) \/ Fail(m)

Spec == Init /\ [][Next]_vars
=============================================================================
