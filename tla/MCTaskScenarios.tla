--------------------------- MODULE MCTaskScenarios --------------------------
(* Small gateways checked together: a behaviour of ScenarioSpec is a behaviour of *)
(* one of the scenarios its run chooses.                                          *)
EXTENDS MCTaskService

CONSTANT Chosen      \* the scenarios of the run

VARIABLE scenario

\* busy: the handlers that may work at the same time.  cut: the slots whose creation may
\* meet a daemon that does not answer in JSON.
Scenarios ==
    [concurrent |-> [busy |-> SUBSET Handler, devices |-> {d1}, cut |-> Slot,
                     calls |-> {"questOnNode", "hotStart", "disconnect"}],
     serial     |-> [busy |-> {H \in SUBSET Handler : \A g, h \in H : g = h},
                     devices |-> Device, cut |-> {},
                     calls |-> {"quest", "questOnNode", "hotStart"}],
     quests     |-> [busy |-> SUBSET Handler, devices |-> {d1}, cut |-> Slot,
                     calls |-> {"questOnNode"}],
     removals   |-> [busy |-> SUBSET {h1}, devices |-> {d1}, cut |-> Slot,
                     calls |-> {"questOnNode", "hotStart", "disconnect"}],
     polls      |-> [busy |-> SUBSET {h1}, devices |-> {d1}, cut |-> Slot,
                     calls |-> {"quest", "disconnect"}]]

\* The call a handler begins with this label.
CallAt == [lookup |-> "questOnNode", dispatch |-> "quest", hotNext |-> "hotStart"]

\* The environment keeps to the scenario's handlers, calls and devices; a hot start
\* passes by the devices that never register before it creates a service.
InScenario ==
    LET s == Scenarios[scenario] IN
    /\ {h \in Handler : pc'[h] # "idle"} \in s.busy
    /\ \A h \in Handler : pc[h] = "idle" /\ pc'[h] # "idle" => CallAt[pc'[h]] \in s.calls
    /\ \A h \in Handler : at'[h] # NoSlot => at'[h][2] \in s.devices \union {NoDevice}
    /\ \A h \in Handler :
            pc[h] = "hotNext" /\ pc'[h] = "create" => call'[h].todo \subseteq s.devices
    /\ abandoned' \subseteq s.cut
    /\ tgt_dev' # tgt_dev => "quest" \in s.calls
    /\ collector' # collector => "disconnect" \in s.calls
    /\ \A d \in Device \ s.devices : device_static_info'[d] = "absent"

ScenarioNext == Next /\ InScenario /\ UNCHANGED scenario

ScenarioInit == Init /\ scenario \in Chosen

ScenarioSpec == ScenarioInit /\ [][ScenarioNext]_<<vars, scenario>>

FairScenarioSpec == ScenarioSpec /\ Fairness

\* Calls served one at a time, on daemons that answer in JSON, bring the process down in one
\* way only: a timer fires while set_callback replaces its callback (scheduler.cpp:756).
\* Two starts of one timer, a second join, a dangling reference, an empty callback and an
\* empty list all need a second handler or a removal in the gateway.
SerialGatewaySurvives ==
    [][scenario = "serial" /\ alive /\ ~alive' =>
          \E h \in Handler :
              pc[h] = "configure" /\ timer[at[h]] \in {"waiting", "stopping"}]_<<vars, scenario>>

\* Calls served one at a time, on daemons that answer in JSON, never read srv_infos[0] of an
\* empty list, whatever the timer thread does to the slot meanwhile.
SerialAnswerIsPublished ==
    scenario = "serial" => \A h \in Handler : pc[h] = "answer" => srv_infos[at[h]]

=============================================================================
