------------------------------ MODULE MainAgent ------------------------------
(*****************************************************************************)
(* The main agents (multi-agent/rk_server/main_agent.py and its Ascend       *)
(* variant), the sub-agents they dispatch to and the part of the gateway     *)
(* between them.  A main agent routes a request, asks a model for a node,    *)
(* has the gateway start the sub-agent's container there, posts the request  *)
(* to it and, when anything of that fails or takes too long, excludes the    *)
(* node and tries the next.  What it has given up on goes on all the same:   *)
(* the gateway's start, the sub-agent's run.  Idle containers are removed.   *)
(*****************************************************************************)
EXTENDS BusyGate, Integers, FiniteSets

CONSTANTS
    Main,           \* the main agents' processes
    Node,           \* the boards the gateway may know
    NoNode,
    Runtime,        \* [Agent -> the nodes whose device type its profile has a runtime for]
    Form,           \* the forms clients post, records as in FormAssumption
    StartLimit,     \* 150 s, the timeout of the start_sub_agent tool call, in ticks
    InvokeLimit,    \* 240 s, the timeout of post_multipart
    IdleLimit       \* 300 s, the gateway's kSubAgentIdleTimeoutSec

Agent == {"image_agent", "text_agent", "segmentation_agent"}
ImageAgent == {"image_agent", "segmentation_agent"}
SubAgent == {i \in Agent \X Node : i[2] \in Runtime[i[1]]}

ASSUME ServerAssumption == Server = Main \union SubAgent /\ Main \cap SubAgent = {}
ASSUME NoNodeAssumption == NoNode \notin Node
ASSUME NodesAssumption == IsFiniteSet(Node)
ASSUME RuntimeAssumption == Runtime \in [Agent -> SUBSET Node]
ASSUME FormAssumption ==
    Form \subseteq [image : BOOLEAN, text : BOOLEAN, forced : Agent \union {"none", "unknown"},
                    words : SUBSET {"text_classification", "segmentation", "image_task"}]
ASSUME LimitAssumption ==
    /\ {StartLimit, InvokeLimit, IdleLimit} \subseteq Nat \ {0}
    /\ InvokeLimit < IdleLimit

VARIABLES
    home, form,     \* [Request -> the main agent it is sent to], [-> its form]
    pc,             \* [Request -> what multi_agent_chat does inside the try block]
    route,          \* [Request -> the route selected]
    resources,      \* [Request -> the nodes of cluster_resources, a snapshot]
    target,         \* [Request -> target_global_id]
    failures,       \* [Request -> [Node -> why the node is in excluded_global_ids]]
    wait,           \* [Request -> ticks since the pending call was made]
    starting,       \* the start_sub_agent calls the gateway works on
    up,             \* the sub-agents whose port is open
    timer, idle,    \* [SubAgent -> its idle timer at the gateway], [-> elapsed_time]
    unrefreshed     \* not code: the requests whose last start found a waiting timer and
                    \* failed to set it back

local   == <<route, resources, target, failures>>
timers  == <<timer, idle, unrefreshed>>
gateway == <<starting, up, timers>>
vars    == <<gate, home, form, pc, local, wait, gateway>>

PC == {"idle", "route", "chat", "resources", "select", "invoke", "starting",
       "notStarted", "post", "await", "final"}

\* The exceptions of invoke_sub_agent: raised before the start, by the start, by its
\* timeout, by an unreachable port, by the reply, by a lost connection, by the timeout.
Failure == {"image", "start", "startTimeout", "unreached", "reply", "lost", "timeout"}

\* removed: inside the callback, the container is gone and the entry is not.
TimerState == {"none", "waiting", "expired", "removed"}

TypeOK ==
    /\ GateTypeOK
    /\ home \in [Request -> Main] /\ form \in [Request -> Form]
    /\ pc \in [Request -> PC]
    /\ route \in [Request -> Agent \union {"none", "chat"}]
    /\ resources \in [Request -> SUBSET Node]
    /\ target \in [Request -> Node \union {NoNode}]
    /\ failures \in [Request -> [Node -> Failure \union {"none"}]]
    /\ wait \in [Request -> Nat]
    /\ \A r \in Request : /\ pc[r] = "starting" => wait[r] <= StartLimit
                          /\ pc[r] = "await" => wait[r] <= InvokeLimit
    /\ starting \subseteq Request \X SubAgent
    /\ up \subseteq SubAgent
    /\ timer \in [SubAgent -> TimerState]
    /\ idle \in [SubAgent -> 0 .. IdleLimit]
    /\ unrefreshed \subseteq Request

Init ==
    /\ GateInit
    /\ home \in [Request -> Main] /\ form \in [Request -> Form]
    /\ pc = [r \in Request |-> "idle"]
    /\ route = [r \in Request |-> "none"]
    /\ resources = [r \in Request |-> {}]
    /\ target = [r \in Request |-> NoNode]
    /\ failures = [r \in Request |-> [n \in Node |-> "none"]]
    /\ wait = [r \in Request |-> 0]
    /\ starting = {}
    /\ up = {}
    /\ timer = [i \in SubAgent |-> "none"]
    /\ idle = [i \in SubAgent |-> 0]
    /\ unrefreshed = {}

-----------------------------------------------------------------------------
(* multi_agent_chat, around its try block *)

\* Mutant: the name of the sub-agent is not looked at.
Valid_AnyAgent(f) == f.text

Valid(f) == f.text /\ f.forced # "unknown"

Receive(r) ==
    /\ \/ TurnAway(home[r], r)
       \/ ~Valid(form[r]) /\ TurnAwayInvalid(home[r], r)
       \/ Valid(form[r]) /\ Pass(home[r], r)
    /\ UNCHANGED <<home, form, pc, local, wait, gateway>>

AcquireLock(r) ==
    /\ Acquire(home[r], r)
    /\ UNCHANGED <<home, form, pc, local, wait, gateway>>

Begin(r) ==
    /\ RaiseFlag(home[r], r)
    /\ pc' = [pc EXCEPT ![r] = "route"]
    /\ UNCHANGED <<home, form, local, wait, gateway>>

ReleaseLock(r) ==
    /\ Release(home[r], r)
    /\ UNCHANGED <<home, form, pc, local, wait, gateway>>

ClearFlag(r) ==
    /\ LowerFlag(home[r], r)
    /\ UNCHANGED <<home, form, pc, local, wait, gateway>>

Goto(r, label) == pc' = [pc EXCEPT ![r] = label]

\* Returns from the try block or raises out of it, and its locals with it.
Return(r, v) ==
    /\ Leave(home[r], r, v)
    /\ pc' = [pc EXCEPT ![r] = "idle"]
    /\ route' = [route EXCEPT ![r] = "none"]
    /\ resources' = [resources EXCEPT ![r] = {}]

-----------------------------------------------------------------------------
(* select_request_route *)

\* unsupported_task is answered like chat, so the two are one route here.
RuleRoute(f) ==
    IF "text_classification" \in f.words /\ ~f.image THEN "text_agent"
    ELSE IF "segmentation" \in f.words THEN IF f.image THEN "segmentation_agent" ELSE "chat"
    ELSE IF "image_task" \in f.words /\ f.image THEN "image_agent" ELSE "none"

\* Whatever the model answers; an answer that is no JSON, or no route, means chat.
ModelRoutes(f) == {"chat", "text_agent"} \union (IF f.image THEN ImageAgent ELSE {})

\* The routes and, when the model is asked, "none" for a call that raises.
Routes(f) ==
    IF f.forced # "none" THEN {f.forced}
    ELSE IF RuleRoute(f) # "none" THEN {RuleRoute(f)}
    ELSE ModelRoutes(f) \union {"none"}

SelectRoute(r) ==
    /\ pc[r] = "route"
    /\ \/ "none" \in Routes(form[r]) /\ Return(r, "error")
       \/ \E w \in Routes(form[r]) \ {"none"} :
            /\ route' = [route EXCEPT ![r] = w]
            /\ Goto(r, IF w = "chat" THEN "chat" ELSE "resources")
            /\ UNCHANGED <<gate, resources>>
    /\ UNCHANGED <<home, form, target, failures, wait, gateway>>

MakeDirectChatAnswer(r) ==
    /\ pc[r] = "chat"
    /\ \E v \in {"answer", "error"} : Return(r, v)
    /\ UNCHANGED <<home, form, target, failures, wait, gateway>>

\* The registry answers with the nodes it knows now; nobody looks again.
GetClusterResources(r) ==
    /\ pc[r] = "resources"
    /\ \/ /\ resources' \in {[resources EXCEPT ![r] = N] : N \in SUBSET Node}
          /\ Goto(r, "select") /\ UNCHANGED <<gate, route>>
       \/ Return(r, "error")
    /\ UNCHANGED <<home, form, target, failures, wait, gateway>>

-----------------------------------------------------------------------------
(* invoke_sub_agent_with_failover *)

\* filter_nodes_for_sub_agent
Candidates(r) == {n \in resources[r] \cap Runtime[route[r]] : failures[r][n] = "none"}

\* select_target_node_for_sub_agent raises, out of the loop, when no node is left, the
\* model cannot be asked, or it names none of the nodes it was shown.
SelectTarget(r) ==
    /\ pc[r] = "select"
    /\ \/ \E n \in Candidates(r) :
            /\ target' = [target EXCEPT ![r] = n]
            /\ Goto(r, "invoke")
            /\ UNCHANGED <<gate, route, resources>>
       \/ Return(r, "error") /\ UNCHANGED target
    /\ UNCHANGED <<home, form, failures, wait, gateway>>

\* Mutant: the failed node is recorded and not excluded.
NodeFailed_Retries(r, why) ==
    /\ failures' \in {failures, [failures EXCEPT ![r][target[r]] = why]}
    /\ target' = [target EXCEPT ![r] = NoNode]
    /\ wait' = [wait EXCEPT ![r] = 0]
    /\ IF failures' # failures /\ Candidates(r) = {target[r]}
       THEN Return(r, "error")
       ELSE Goto(r, "select") /\ UNCHANGED <<gate, route, resources>>
    /\ UNCHANGED <<home, form>>

\* The except clause of the loop: the node is excluded, and with no other the loop raises.
NodeFailed(r, why) ==
    /\ failures' = [failures EXCEPT ![r][target[r]] = why]
    /\ target' = [target EXCEPT ![r] = NoNode]
    /\ wait' = [wait EXCEPT ![r] = 0]
    /\ IF Candidates(r) = {target[r]}
       THEN Return(r, "error")
       ELSE Goto(r, "select") /\ UNCHANGED <<gate, route, resources>>
    /\ UNCHANGED <<home, form>>

Invoked(r) == <<route[r], target[r]>>

\* invoke_sub_agent: the image is looked at before anything is started.
Invoke(r) ==
    /\ pc[r] = "invoke"
    /\ IF route[r] \in ImageAgent /\ ~form[r].image
       THEN NodeFailed(r, "image") /\ UNCHANGED gateway
       ELSE /\ Goto(r, "starting")
            /\ starting' = starting \union {<<r, Invoked(r)>>}
            /\ UNCHANGED <<gate, home, form, local, wait, up, timers>>

StartGivenUp(r) ==
    /\ pc[r] = "starting" /\ wait[r] = StartLimit
    /\ NodeFailed(r, "startTimeout")
    /\ UNCHANGED gateway

StartFailed(r) ==
    /\ pc[r] = "notStarted"
    /\ NodeFailed(r, "start")
    /\ UNCHANGED gateway

\* post_multipart: the sub-agent's handler tests its flag; its form is always valid.
Post(r) ==
    /\ pc[r] = "post"
    /\ \/ /\ Invoked(r) \in up
          /\ TurnAway(Invoked(r), r) \/ Pass(Invoked(r), r)
          /\ Goto(r, "await")
          /\ UNCHANGED <<home, form, local, wait>>
       \/ Invoked(r) \notin up /\ NodeFailed(r, "unreached")
    /\ UNCHANGED gateway

\* Mutant: whatever the sub-agent answers counts as a failure.
SubAgentReplied_Fails(r) ==
    /\ pc[r] = "await" /\ at[Invoked(r)][r] = "gone"
    /\ NodeFailed(r, "reply")
    /\ UNCHANGED gateway

SubAgentReplied(r) ==
    /\ pc[r] = "await" /\ at[Invoked(r)][r] = "gone"
    /\ IF reply[Invoked(r)][r] = "answer"
       THEN /\ Goto(r, "final") /\ wait' = [wait EXCEPT ![r] = 0]
            /\ UNCHANGED <<gate, home, form, local>>
       ELSE NodeFailed(r, "reply")
    /\ UNCHANGED gateway

SubAgentLost(r) ==
    /\ pc[r] = "await" /\ at[Invoked(r)][r] = "cut"
    /\ NodeFailed(r, "lost")
    /\ UNCHANGED gateway

SubAgentGivenUp(r) ==
    /\ pc[r] = "await" /\ wait[r] = InvokeLimit
    /\ NodeFailed(r, "timeout")
    /\ UNCHANGED gateway

MakeFinalAnswer(r) ==
    /\ pc[r] = "final"
    /\ \E v \in {"answer", "error"} : Return(r, v)
    /\ UNCHANGED <<home, form, target, failures, wait, gateway>>

-----------------------------------------------------------------------------
(* The sub-agents' handlers *)

\* A run ends when its tools and models answer, or never; nobody tells it that the main
\* agent has given up.
RunSubAgent(i, r) ==
    /\ \/ Acquire(i, r) \/ RaiseFlag(i, r)
       \/ \E v \in {"answer", "error"} : Leave(i, r, v)
       \/ Release(i, r) \/ LowerFlag(i, r)
    /\ UNCHANGED <<home, form, pc, local, wait, gateway>>

CrashSubAgent(i) ==
    /\ i \in up
    /\ up' = up \ {i}
    /\ Crash(i)
    /\ UNCHANGED <<home, form, pc, local, wait, starting, timers>>

-----------------------------------------------------------------------------
(* The gateway: startSubAgentOnDevice and its idle timers *)

Awaits(r, i) == pc[r] = "starting" /\ Invoked(r) = i

\* The container runs, and the caller, which may have gone, is told so.
Started(r, i) ==
    /\ <<r, i>> \in starting
    /\ starting' = starting \ {<<r, i>>}
    /\ up' = up \union {i}
    /\ timer' = [timer EXCEPT ![i] = IF @ = "none" THEN "waiting" ELSE @]
    /\ IF Awaits(r, i) THEN Goto(r, "post") ELSE UNCHANGED pc
    /\ wait' = [wait EXCEPT ![r] = IF Awaits(r, i) THEN 0 ELSE @]
    /\ UNCHANGED <<gate, home, form, local>>

\* Mutant: a sub-agent found alive keeps its timer as it is.
StartSubAgent_NoRefresh(r, i) ==
    /\ Started(r, i)
    /\ idle' = [idle EXCEPT ![i] = IF timer[i] = "none" THEN 0 ELSE @]
    /\ unrefreshed' = unrefreshed \ {q \in {r} : Awaits(q, i)}

\* The timer is armed or refreshed, which does nothing to a timer that has expired.  The
\* refresh, elapsed_time = 0, races with the timer thread's elapsed_time++ and may be lost.
StartSubAgent(r, i) ==
    /\ Started(r, i)
    /\ \/ /\ idle' = [idle EXCEPT ![i] = 0]
          /\ unrefreshed' = unrefreshed \ {q \in {r} : Awaits(q, i)}
       \/ /\ timer[i] = "waiting" /\ UNCHANGED idle
          /\ unrefreshed' = unrefreshed \union {q \in {r} : Awaits(q, i)}

\* No such device or configuration, a failing daemon, or a port that does not open; the
\* tool call is answered with an error.
StartSubAgentFails(r, i) ==
    /\ <<r, i>> \in starting
    /\ starting' = starting \ {<<r, i>>}
    /\ IF Awaits(r, i) THEN Goto(r, "notStarted") ELSE UNCHANGED pc
    /\ wait' = [wait EXCEPT ![r] = IF Awaits(r, i) THEN 0 ELSE @]
    /\ UNCHANGED <<gate, home, form, local, up, timers>>

ExpireTimer(i) ==
    /\ timer[i] = "waiting" /\ idle[i] = IdleLimit
    /\ timer' = [timer EXCEPT ![i] = "expired"]
    /\ idle' = [idle EXCEPT ![i] = 0]
    /\ UNCHANGED <<gate, home, form, pc, local, wait, starting, up, unrefreshed>>

\* RemoveContainer with force, whatever the agent is doing; it may fail.
RemoveContainer(i) ==
    /\ timer[i] = "expired"
    /\ timer' = [timer EXCEPT ![i] = "removed"]
    /\ \/ up' = up \ {i} /\ Crash(i)
       \/ UNCHANGED <<up, gate>>
    /\ UNCHANGED <<home, form, pc, local, wait, starting, idle, unrefreshed>>

EraseTimer(i) ==
    /\ timer[i] = "removed"
    /\ timer' = [timer EXCEPT ![i] = "none"]
    /\ UNCHANGED <<gate, home, form, pc, local, wait, starting, up, idle, unrefreshed>>

\* Time passes once everything that happens at once has happened: a limit that is reached
\* is acted upon, and a started sub-agent is posted to.
Tick ==
    /\ \A r \in Request :
        /\ pc[r] # "post"
        /\ pc[r] = "starting" => wait[r] < StartLimit
        /\ pc[r] = "await" => wait[r] < InvokeLimit
    /\ \A i \in SubAgent : timer[i] = "waiting" => idle[i] < IdleLimit
    /\ wait' = [r \in Request |-> IF pc[r] \in {"starting", "await"} THEN wait[r] + 1 ELSE wait[r]]
    /\ idle' = [i \in SubAgent |-> IF timer[i] = "waiting" THEN idle[i] + 1 ELSE idle[i]]
    /\ UNCHANGED <<gate, home, form, pc, local, starting, up, timer, unrefreshed>>

-----------------------------------------------------------------------------
HandlerStep(r) ==
    \/ AcquireLock(r) \/ Begin(r) \/ ReleaseLock(r) \/ ClearFlag(r)
    \/ SelectRoute(r) \/ MakeDirectChatAnswer(r) \/ GetClusterResources(r) \/ SelectTarget(r)
    \/ Invoke(r) \/ StartGivenUp(r) \/ StartFailed(r) \/ Post(r)
    \/ SubAgentReplied(r) \/ SubAgentLost(r) \/ SubAgentGivenUp(r) \/ MakeFinalAnswer(r)

TimerStep(i) == ExpireTimer(i) \/ RemoveContainer(i) \/ EraseTimer(i)

SubAgentStep(i) ==
    \/ CrashSubAgent(i)
    \/ \E r \in Request : RunSubAgent(i, r) \/ StartSubAgent(r, i) \/ StartSubAgentFails(r, i)

Next ==
    \/ \E r \in Request : Receive(r) \/ HandlerStep(r)
    \/ \E i \in SubAgent : SubAgentStep(i) \/ TimerStep(i)
    \/ Tick

Spec == Init /\ [][Next]_vars

\* The main agents' threads run, their models answer or fail within urllib's timeout, and
\* time passes.  Nothing is assumed of the sub-agents, nor of the gateway's starts: both
\* may hang.  A request queues on a main agent's lock once, behind finitely many others.
Fairness ==
    /\ \A r \in Request : WF_vars(HandlerStep(r))
    /\ \A i \in SubAgent : WF_vars(TimerStep(i))
    /\ WF_vars(Tick)

FairSpec == Spec /\ Fairness

-----------------------------------------------------------------------------
(* Properties *)

\* A sub-agent works on, or has answered, a request the main agent has taken from it only
\* if post_multipart timed out: every other failure of invoke_sub_agent leaves the work to
\* the next node alone.
TakenOverOnlyAfterTimeout ==
    \A r \in Request, i \in SubAgent :
        i[2] # target[r] /\ failures[r][i[2]] # "timeout" =>
            /\ at[i][r] \notin Open
            /\ at[i][r] = "gone" => reply[i][r] # "answer"

\* The gateway's idle timer expires while a main agent waits for the sub-agent's reply only
\* if the refresh of the very start before the post was lost to the race on elapsed_time:
\* otherwise 240 s are less than 300 s, whatever the starts of other requests do to the
\* timer.  (A timer that has expired before the start is another matter.)
AwaitedNotExpired ==
    [][\A r \in Request \ unrefreshed :
        pc[r] = "await" /\ timer[Invoked(r)] = "waiting" => timer'[Invoked(r)] # "expired"]_vars

\* An image or segmentation agent is neither started for nor sent a request without an
\* image, even one that asks for the agent by name.
ImageAgentsGetImages ==
    \A r \in Request, i \in SubAgent : i[1] \in ImageAgent =>
        (<<r, i>> \in starting \/ at[i][r] # "away" => form[r].image)

\* Every request that queues on a main agent gets its reply, although sub-agents and starts
\* may hang: the limits end each attempt, and no node is tried twice.
RequestsEnd == \A r \in Request : at[home[r]][r] = "passed" ~> at[home[r]][r] = "gone"

Asked(r) == {n \in Node : failures[r][n] # "none" \/ target[r] = n}

Outcome(r) == IF at[home[r]][r] \in {"released", "gone"} THEN reply[home[r]][r] ELSE "none"

D == INSTANCE Dispatcher WITH
        serving <- [m \in Main |-> lock[m]],
        asked   <- [r \in Request |-> Asked(r)],
        outcome <- [r \in Request |-> Outcome(r)]

\* The main agents do what a client may rely on (Dispatcher).
Dispatches == D!Spec

=============================================================================
