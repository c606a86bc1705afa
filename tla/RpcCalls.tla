------------------------------ MODULE RpcCalls ------------------------------
(***************************************************************************)
(* What PulsarRPCManager.request promises its callers                      *)
(* (src/agent/pulsar_rpc.py:144-157), with no broker, no lock and no       *)
(* response loop: a call ends at most once, and it returns only a          *)
(* decodable response that was published for that very call.               *)
(***************************************************************************)
CONSTANTS Req,      \* the calls of request()
          Response  \* the responses a service may publish, each names its call in .req

VARIABLES status,   \* where each call stands
          published,\* the decodable responses published so far
          reply     \* the response a call returned; at most one

vars == <<status, published, reply>>

Init == /\ status = [r \in Req |-> "idle"]
        /\ published = {}
        /\ reply = [r \in Req |-> {}]

Call(r) == /\ status[r] = "idle"
           /\ status' = [status EXCEPT ![r] = "calling"]
           /\ UNCHANGED <<published, reply>>

Publish(m) == /\ status[m.req] # "idle"
              /\ published' = published \union {m}
              /\ UNCHANGED <<status, reply>>

Return(r) == /\ status[r] = "calling"
             /\ \E m \in published :
                  /\ m.req = r
                  /\ reply' = [reply EXCEPT ![r] = {m}]
             /\ status' = [status EXCEPT ![r] = "returned"]
             /\ UNCHANGED published

Raise(r) == /\ status[r] = "calling"
            /\ status' = [status EXCEPT ![r] = "raised"]
            /\ UNCHANGED <<published, reply>>

Next == \/ \E r \in Req : Call(r) \/ Return(r) \/ Raise(r)
        \/ \E m \in Response : Publish(m)

Spec == Init /\ [][Next]_vars

(* "Raises: Exception: If the request fails or times out": every call ends. *)
FairSpec == Spec /\ \A r \in Req : WF_vars(Return(r) \/ Raise(r))
=============================================================================
