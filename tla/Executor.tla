------------------------------ MODULE Executor ------------------------------
(* What the callers of the agents that execute a request may rely on (the         *)
(* image, text and segmentation agents and the board agent): an agent executes    *)
(* one request at a time, hands its task to the gateway at most once and only     *)
(* then, answers only what has been computed, and answers whatever it accepts.    *)
CONSTANTS Agent, Request

VARIABLES
    home,       \* [Request -> the agent it is sent to]
    stage,      \* [Request -> how far the agent is with it, at last its reply]
    task        \* [Request -> what the gateway makes of its task]

vars == <<home, stage, task>>

Init ==
    /\ home \in [Request -> Agent]
    /\ stage = [r \in Request |-> "away"]
    /\ task = [r \in Request |-> "none"]

Advance(r, from, to) == stage[r] = from /\ stage' = [stage EXCEPT ![r] = to]

Receive(r) ==
    /\ \E to \in {"refused", "invalid", "waiting"} : Advance(r, "away", to)
    /\ UNCHANGED <<home, task>>

Serve(r) ==
    /\ \A q \in Request : home[q] = home[r] => stage[q] # "served"
    /\ Advance(r, "waiting", "served")
    /\ UNCHANGED <<home, task>>

Submit(r) ==
    /\ stage[r] = "served"
    /\ task[r] = "none"
    /\ task' = [task EXCEPT ![r] = "running"]
    /\ UNCHANGED <<home, stage>>

\* The gateway, whether the request is still served or not.
Complete(r) ==
    /\ task[r] = "running"
    /\ task' \in {[task EXCEPT ![r] = v] : v \in {"failed", "done"}}
    /\ UNCHANGED <<home, stage>>

Finish(r) ==
    /\ Advance(r, "served", "finished")
    /\ UNCHANGED <<home, task>>

\* The agent may serve the next request by then.
Reply(r) ==
    /\ \/ Advance(r, "finished", "answer") /\ task[r] = "done"
       \/ Advance(r, "finished", "error")
    /\ UNCHANGED <<home, task>>

Next == \E r \in Request :
    Receive(r) \/ Serve(r) \/ Submit(r) \/ Complete(r) \/ Finish(r) \/ Reply(r)

\* No agent leaves a request waiting while it is idle, unserved or unanswered; of the
\* gateway nothing is assumed.
Fairness ==
    /\ \A a \in Agent : WF_vars(\E r \in Request : home[r] = a /\ Serve(r))
    /\ \A r \in Request : WF_vars(Finish(r)) /\ WF_vars(Reply(r))

Spec == Init /\ [][Next]_vars /\ Fairness

=============================================================================
