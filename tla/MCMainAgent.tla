----------------------------- MODULE MCMainAgent -----------------------------
(* Small systems checked together: a behaviour of ScenarioSpec is a behaviour of  *)
(* one of the scenarios its run chooses.                                          *)
EXTENDS MainAgent, TLC

CONSTANTS
    m1, m2, n1, n2, r1, r2,
    Chosen      \* the scenarios of the run

VARIABLE scenario

\* Only image_agent has a runtime: the other agents find no node.
Runtimes == [a \in Agent |-> IF a = "image_agent" THEN Node ELSE {}]

AllServers == Main \union ({"image_agent"} \X Node)

F(image, text, forced, words) == [image |-> image, text |-> text, forced |-> forced, words |-> words]

ImageTask == F(TRUE, TRUE, "none", {"image_task"})

\* Routed by name, without an image; by the model; by a rule; and two that are refused.
OtherForms ==
    {F(FALSE, TRUE, "image_agent", {}), F(FALSE, TRUE, "none", {}),
     F(FALSE, TRUE, "none", {"segmentation"}), F(FALSE, FALSE, "none", {}),
     F(FALSE, TRUE, "unknown", {})}

Forms == {ImageTask} \union OtherForms

\* failover: one request, every node, every failure.
\* contention: two requests meet at one node, of one main agent or of two.
\* overtaken: one request may fail over to the node the other has been abandoned on.
Scenarios == {"failover", "contention", "overtaken"}

ScenarioInit ==
    /\ Init
    /\ scenario \in Chosen
    /\ \A r \in Request : form[r] = ImageTask \/ (scenario = "failover" /\ r = r1)

NodesOf(r) ==
    IF scenario = "failover" \/ (scenario = "overtaken" /\ r = r1) THEN Node ELSE {n1}

\* What a main agent does without waiting for anybody.
Prompt(r) ==
    \/ pc[r] \in {"route", "resources", "select", "invoke", "notStarted", "final"}
    \/ at[home[r]][r] \in {"locked", "leaving", "released"}

Moves(r) == <<pc'[r], at'[home[r]][r]>> # <<pc[r], at[home[r]][r]>>

\* No container goes, no model or start fails, and main agents take no time of their own.
Calm ==
    /\ up \subseteq up'
    /\ \A r \in Request :
        /\ pc[r] = "starting" => pc'[r] \in {"starting", "post"} /\ wait'[r] = 0
        /\ pc[r] \in {"select", "final"} /\ Moves(r) => reply'[home[r]][r] # "error"
        /\ pc[r] = "resources" /\ Moves(r) => resources'[r] = NodesOf(r)
    /\ (\E r \in Request : Prompt(r)) => \E q \in Request : Prompt(q) /\ Moves(q)

InScenario ==
    /\ scenario = "failover" => \A r \in Request \ {r1} : ~Moves(r)
    /\ \A r \in Request : resources'[r] \subseteq NodesOf(r)
    /\ scenario = "overtaken" => Calm

ScenarioNext == Next /\ InScenario /\ UNCHANGED scenario

ScenarioSpec == ScenarioInit /\ [][ScenarioNext]_<<vars, scenario>>

\* Not for overtaken, whose restrictions would forbid steps that are owed.
FairScenarioSpec == ScenarioSpec /\ Fairness

MainSymmetry == Permutations(Main)

=============================================================================
