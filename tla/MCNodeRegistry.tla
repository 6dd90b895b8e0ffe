--------------------------- MODULE MCNodeRegistry ---------------------------
(* Small gateways checked together: a behaviour is one of the scenarios its run chooses. *)
EXTENDS NodeRegistry

CONSTANTS q1, q2, t1, Chosen

VARIABLE scenario

Usage(cpu, mem, xpu) == [cpu |-> cpu, mem |-> mem, xpu |-> xpu]

\* Board 1 serves the task, as a blank device does, and board 2 does not.  With the first
\* status there is room for the task, with the second there is none.
BoardType == [d \in Device |-> IF d = 1 THEN BlankType ELSE "ATLAS_L"]
TaskOverhead == [t \in Task |-> [y \in {BlankType} |-> Usage(1, 0, 1)]]
Room == Usage(1, 1, 1)
Reports == {Room, Usage(3, 0, 0)}

\* serving: the boards that have registered before.  starts: those whose agents are started.
\* quests: who schedules.  stops: agents go off.  restarts: the gateway is started again.
\* reports: what polls are answered.
Scenarios ==
    [boards |-> [serving |-> {}, starts |-> Device, quests |-> {}, stops |-> TRUE, restarts |-> TRUE,
                 reports |-> {Room}],
     quests |-> [serving |-> {}, starts |-> {1}, quests |-> {q1}, stops |-> TRUE, restarts |-> FALSE,
                 reports |-> Reports],
     choice |-> [serving |-> Device, starts |-> {}, quests |-> {q1}, stops |-> FALSE, restarts |-> FALSE,
                 reports |-> Reports],
     race   |-> [serving |-> {1}, starts |-> {}, quests |-> Handler, stops |-> TRUE, restarts |-> FALSE,
                 reports |-> {Room}]]

InScenario ==
    LET s == Scenarios[scenario] IN
    /\ \A d \in Device : agent[d] = "off" /\ agent'[d] # "off" => d \in s.starts
    /\ \A h \in Handler : quest[h] = "idle" /\ quest'[h] # "idle" => h \in s.quests
    /\ s.stops \/ \A d \in Device : agent[d] # "off" => agent'[d] # "off"
    /\ s.restarts \/ ~Restart
    /\ \A k \in Key : device_status'[k] # device_status[k] =>
            device_status'[k] \in s.reports \union {Zero, NoStatus}

ScenarioInit ==
    /\ scenario \in Chosen
    /\ LET D == Scenarios[scenario].serving IN
        /\ agent = [d \in Device |-> IF d \in D THEN "serving" ELSE "off"]
        /\ registration = [d \in Device |-> "none"]
        /\ device_static_info = [k \in Key |-> IF k \in D THEN "known" ELSE "absent"]
        /\ device_status = [k \in Key |-> IF k \in D THEN Zero ELSE NoStatus]
        /\ RestInit

ScenarioSpec == ScenarioInit /\ [][Next /\ InScenario /\ UNCHANGED scenario]_<<vars, scenario>>

\* The scenarios only hold back what is not fair anyway.
FairScenarioSpec == ScenarioSpec /\ Fairness

=============================================================================
