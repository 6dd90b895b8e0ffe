----------------------------- MODULE Dispatcher -----------------------------
(* What a client may rely on of the main agents (main_agent.py): an agent serves  *)
(* one request at a time, asks no node twice for it, gives every request it has   *)
(* begun one reply, and never looks at it again.                                  *)
CONSTANTS Main, Request, Node, Nobody

VARIABLES
    serving,    \* [Main -> the request it serves | Nobody]
    asked,      \* [Request -> the nodes asked to execute it]
    outcome     \* [Request -> the reply it has got]

vars == <<serving, asked, outcome>>

Init ==
    /\ serving = [m \in Main |-> Nobody]
    /\ asked = [r \in Request |-> {}]
    /\ outcome = [r \in Request |-> "none"]

Serving(m, r) == serving[m] = r

\* Nothing is asked of any node for a request that is turned away.
TurnAway(r) ==
    /\ outcome[r] = "none" /\ asked[r] = {}
    /\ \A m \in Main : ~Serving(m, r)
    /\ outcome' \in {[outcome EXCEPT ![r] = v] : v \in {"refused", "invalid"}}
    /\ UNCHANGED <<serving, asked>>

Serve(m, r) ==
    /\ outcome[r] = "none" /\ asked[r] = {}
    /\ serving[m] = Nobody /\ \A n \in Main : ~Serving(n, r)
    /\ serving' = [serving EXCEPT ![m] = r]
    /\ UNCHANGED <<asked, outcome>>

Ask(m, r, n) ==
    /\ Serving(m, r)
    /\ n \notin asked[r]
    /\ asked' = [asked EXCEPT ![r] = @ \union {n}]
    /\ UNCHANGED <<serving, outcome>>

Finish(m, r) ==
    /\ Serving(m, r)
    /\ serving' = [serving EXCEPT ![m] = Nobody]
    /\ outcome' \in {[outcome EXCEPT ![r] = v] : v \in {"error", "answer"}}
    /\ UNCHANGED asked

Next ==
    \E r \in Request :
        \/ TurnAway(r)
        \/ \E m \in Main : Serve(m, r) \/ Finish(m, r) \/ \E n \in Node : Ask(m, r, n)

Fairness == \A m \in Main, r \in Request : WF_vars(Finish(m, r))

Spec == Init /\ [][Next]_vars /\ Fairness

=============================================================================
