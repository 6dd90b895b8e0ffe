# A verification development for Harmony-TSC

Harmony-TSC runs AI tasks on a cluster of edge boards. A gateway receives requests, chooses a
board, creates the container that serves the task there through the board's docker daemon,
forwards the request and removes containers nobody uses. Python agents in front of it choose
nodes and tasks with a language model. This directory holds TLA+ modules of the parts whose
correctness depends on the order in which threads, processes and timeouts act, the
configurations that model-check them, and proofs for every number of threads, tasks, boards and
requests.

    tlc -workers 2 -config TaskService_safety.cfg MCTaskScenarios
    tlc -workers 2 -config MainAgent_safety.cfg MCMainAgent
    tlapm TaskServiceProofs.tla

Section 3 names the module of each configuration; every `*Proofs.tla` is checked like the last.

## 1. The system

Line numbers without a file are those of `src/src/scheduler/scheduler.cpp`.

| component | state | operations | hard because |
|---|---|---|---|
| **Gateway HTTP server** (`gateway/HttpServer.cpp`) | a pool of handler threads | `/quest`, `/quest_on_node`, `/register_node`, `/hot_start`, `/cluster_resources`, `/start_sub_agent` | every handler calls the scheduler's static state |
| **Task services** (370-390, 459-475, 554-761) | `tdMap`: per (task, device) a status, the published services and a `TimerCallback` | `getOrCrtSrvByTType`, `getOrCrtSrvByTTypeOnDevice`, `createContainerByTType`, `HotStartAllNodeByTType`, `inactiveTimeCallback` | no lock at all on `tdMap`; a creation takes minutes and can fail at every step |
| **Timers** (`time_tools/TimeCallback.h`) | `stop_flag`, `elapsed_time`, a `std::thread` | `start` = stop + spawn, `stop` = flag + join, `refresh`, destructor = stop | joins of a thread that may be inside its callback; one timer used by several threads |
| **Registry and collector** (370-390, 445-457, 477-548) | `device_static_info`, `device_status`, failure counts, `devs_mutex` | `RegisNode`; the collector polls each board and calls `RemoveDevice` after three failures | the collector holds `devs_mutex` during all its polls and joins; `RegisNode` takes no lock; readers insert with `operator[]` |
| **Sub-agents at the gateway** (154-213, 823-883) | `g_sub_agent_idle_timers` under a mutex | `startSubAgentOnDevice`, arm or refresh, remove | timers that destroy themselves; joins under two mutexes |
| **Scheduling** (772-786, 910-1045) | the device cached for 20 calls | `Z3_schedule_v2` | stale cache; constraints and choice range over different sets of devices; two passes over a map that changes |
| **Docker client** (`docker_client/`) | none | create, start, remove | remote calls that fail or are not answered |
| **Board agent** (`docker_scheduler_agent/`) | load samples | registers once, answers polls | never registers again |
| **Model server** (`flask_openai_server.py`, two copies) | `lock`, `is_blocking`, `global_text`, `global_state`, `split_byte_data` | `/v1/chat/completions`, the model's callbacks | text passes from model thread to request through globals that outlive both; three ways to say "busy" |
| **Main agent** (`multi-agent/*/main_agent.py`) | `lock`, `is_blocking` | `/v1/multi-agent/chat`: route, resources, choice of a node, start, post, failover | flag and lock are not changed together; what it gives up on goes on without it |
| **Sub-agents** (`multi-agent/*/{image,text,segmentation}_agent.py`, `agent/server/image_agent.py`) | `lock`, `is_blocking`, a temporary file | execute: snapshot, candidates, the model's choice, the run tool, the wording | a model's free text decides; the tool's timeout and its own do not know each other |
| **MCP tools** (`mcp_server.py`, `agent_tools.py`) | a process for every call | `run_task_on_node`, `run_vision_task_on_node`, `start_sub_agent`, two read-only tools | killed by its caller, or by a late or broken answer, while the quest runs on |

They interact so: a handler runs the scheduler's code directly. The scheduler starts timer
threads, whose callbacks write the same `tdMap`. The collector thread removes devices, and with
them entries and timers, under the handlers. Agents reach the gateway over HTTP through the MCP
tools: the main agent has the gateway start a sub-agent's container, then posts to the
sub-agent, which has the gateway run a task. Memory is lost when the gateway dies; containers
are not, and no board or agent is told.

What makes each part correct:

- *Task services*: a status that others wait for (Creating, Deleting) has a thread that ends it,
  unless an exception has cut the creation; a Running service has the timer that reclaims it; a
  handler never answers from an empty list; calls end; one creation at a time; no container
  removed under a quest.
- *Timers*: no thread outlives its object; a thread told to stop is joined, once.
- *Removal of a device*: it ends and releases its mutexes.
- *Sub-agents at the gateway*: a map entry always promises a future removal; a callback erases
  only its own entry.
- *Registry*: a device leaves only for three failed polls in a row; a board that stays off does
  leave, whatever registrations and schedulings have put back.
- *Model server*: nobody leaves it busy; runs do not overlap; an answer is its own run's text;
  every request gets a reply.
- *Main agents*: one request at a time; no node asked twice; work is done twice only after a
  timeout; a sub-agent whose timer was set back is not reclaimed while its reply is awaited;
  every request gets a reply.
- *Sub-agents*: the pair the model names is the pair that runs; a quest goes on without its
  request, and a result is lost, only when the call of the tool is lost; every request gets a
  reply.

The hazards of this code, each at its line, with the properties that watch it, are listed in
`PROJECT.json`.

## 2. Modules

    BusyGate -- MainAgent ----- D!Spec: Dispatcher
         \----- SubAgent ------ MCPTools (instantiated), E!Spec: Executor
    TaskService   SubAgentTimers   NodeRegistry      (the gateway)
    LLMServer                                        (the language model of a board)

### TaskService

One slot per (task, device) pair, as in `tdMap`. Its state and that of the code:

| variable | code |
|---|---|
| `status`, `srv_infos`, `entries`, `tasks` | `DevSrvInfos`, the inner and the outer keys of `tdMap` |
| `timer` | the thread of `DevSrvInfos::timer_callback`; `timer[Unlinked]` is the one of an entry `erase` has taken out of the map and is still destroying |
| `device_static_info`, `static_info`, `tgt_dev` | the registry, the configuration, the static cached device (770-786) |
| `unset` | the timers that are as `TimerCallback`'s default constructor leaves them (30 seconds, an empty callback) although a handler has set them: `EraseEntry` took the entry away between its `set_callback` and its `start()` |
| `abandoned` | not code: the slots whose creation an exception has cut and whose Creating is still the last status stored |
| `container` | the container in the board's daemon |
| `pc`, `at`, `call` | a handler thread: where it is, its slot, its locals |
| `collector` | the collector thread inside `RemoveDevice` |
| `alive` | the gateway process; it may die and be started again |

A step is what one thread does between two accesses to state another thread may change.
`createContainerByTType` is `TagCreating`, `ClearServices`, `CreateContainer`,
`StartContainer`, `AwaitPort`, then `FailCreation` or `PublishService`, `TagRunning`,
`SetTimer`, `ArmTimer`, `JoinTimer`, `SpawnTimer`. `CreateContainer` has a second exit: an
answer of the daemon that is not the expected JSON throws, nothing catches it before the HTTP
server, and Creating stays behind (`abandoned`). `RemoveDevice` is `RemoveEntry`, `CollectorJoin`,
`EraseEntry`, `DestroyEntry`, `ForgetDevice`. `inactiveTimeCallback` is `TagDeleting`,
`RemoveContainer`, `TagNoExist`. Undefined behaviour is a choice: joining a thread twice throws
or kills the process, assigning to a joinable `std::thread` terminates it, reading
`srv_infos[0]` of an empty list answers or kills it, a freed timer or iterator likewise;
`set_callback` on a callback that another handler sets, or the timer thread is about to call,
may kill it (`SetTimer`, `ExpireTimer`), and an empty callback throws out of the thread.

### SubAgentTimers

The `shared_ptr` timers of sub-agents. Objects have names (`Timer`), which are reused; a timer
is referenced by the map and by the local of the handler that made it (`timer`), and destroyed
with its last reference: by the handler that overwrites the entry (`InsertTimer`, `JoinOld`),
by the handler that returns (`ReleaseTimer`, `JoinOwn`), by the collector (`EraseEntry`) or by
the timer's own callback (`EraseOwnEntry`). `mutex` is `g_sub_agent_idle_timer_mutex`; critical
sections that join are split at the join.

### NodeRegistry

The registry and the scheduling over it, with the boards' agents.

| variable | code |
|---|---|
| `agent`, `registration` | a board's agent process, and the handler of its one `/register_node`, between the maps `RegisNode` writes |
| `device_static_info`, `device_status`, `device_info_failure_count` | the three maps; a key `operator[]` has inserted is `blank` in the first |
| `poller` | the collector thread: the key it polls, what it has given up in this cycle, which map it erases from next |
| `missed` | the polls a board has failed in a row: what the count should be, not code |
| `callCount`, `tgt_dev` | the statics of `getTgtDevByTtypeAndDevIds` |
| `quest`, `task`, `load`, `choice` | a handler in the scheduler, with the expressions for the devices' load and the Device it gets |

`RegisNode` is `StoreInfo`, `StoreStatus`, `StoreCount`; a cycle of the collector is
`BeginCycle`, then for each key `Visit` and `PollAnswered` or `PollFailed`, then per device
given up `NextRemoval`, `EraseInfo`, `EraseStatus`, `EraseCount`. A quest is `TestCache`, and
when the cache is used up `ReadLoads` (the first pass over `device_status`), `Constrain` (the
second, which inserts), `SelectDevice` or `SelectFirst`, `StoreChoice`; then `CountCall` and
`Dispatch`. `RegisNode` and the scheduler take no lock against the collector, so their steps
fall between its steps. Z3's problem has no variable besides its constraints: it can be solved
exactly when the loads of the matching devices, plus the task's overhead where it has no
container yet, all fit. The choice is then the minimum over *all* devices with an expression.

`TaskService`, `SubAgentTimers` and `NodeRegistry` are three parts of one process. They meet in
`RemoveDevice`, which handles the entries of `tdMap`, then the timers of the sub-agents, then
the three maps, and in the device a quest is dispatched to. Each sees the others' effect as a
choice of its environment: a device may be forgotten (TaskService, SubAgentTimers), any
configured device or a blank one may be scheduled (`ScheduleChoice`).

### LLMServer

The server that wraps the language model on each board. `multi-agent/rk_server` and
`agent/server` hold the same file. Sub-agents and the main agent are its clients.

| variable | code |
|---|---|
| `lock`, `is_blocking`, `global_text`, `global_state`, `split_byte_data` | the module globals (170-174) |
| `pc`, `reply` | the Flask thread of a request: where it is in `chat_completions` or in its generator, and what its client gets |
| `rkllm_output`, `finished` | the locals of `generate()` that matter |
| `thread`, `chars`, `half` | the model thread of a request, the characters its callbacks have completed, and whether the last one ended inside a character |

Each access to a global is a step: the two tests of line 305, `acquire`, the flag, the new
list, the state, each `len` and `pop`, `is_alive`, the second `join`, `release`, and the flag
again. A callback is two: the state, then the text (decoding and `append` together). Every exit
is there: 503, 400, a malformed message, a text the tokenizer rejects before or after the model
has been started, a streaming client that goes away, `pop` from a list somebody else emptied. A
streamed generator runs after the `finally` clause, hence without the lock. The text of a run
is its characters `<<r, 1>>, <<r, 2>>, ...`; `split_byte_data` is nothing, the head of a
character of a run, or bytes that never decode any more.

### BusyGate, MainAgent, Dispatcher

`BusyGate` is what every agent's handler does around its `try` block: test `is_blocking`, take
the lock, raise the flag, work, release the lock, clear the flag, each a step. `at`, `reply`,
`lock` and `is_blocking` exist per agent process (`Server`).

`MainAgent` is `multi_agent_chat` of both servers inside that gate (`pc`, `route`, `resources`,
`target`, `failures`), together with the sub-agents' gates and the part of the gateway between
them (`starting`, `up`, `timer`, `idle`). `SelectRoute` chooses by name, by rule or by the
model's answer; `SelectTarget` takes any candidate not excluded, or raises: `select_target_node`
has no fallback for a model that names none of them; `Invoke`, `StartSubAgent`, `Post`,
`SubAgentReplied` are `invoke_sub_agent`, and `StartGivenUp`, `StartFailed`, `SubAgentLost`,
`SubAgentGivenUp` the ways it raises, which all exclude the node and go back to the choice. What
the main agent has given up on goes on: a start may still bring the container up, a sub-agent
still hold its lock. `Tick` counts `wait` and `idle`. `StartSubAgent` sets a waiting timer back
or not, because `refresh()` races with the timer thread's `elapsed_time++`; `unrefreshed`, which
is not code, holds the requests whose last start lost its refresh.

`Dispatcher` is what a client relies on: an agent serves one request at a time, asks no node
twice for it, gives it one reply. `MainAgent!Dispatches` is the refinement: the lock is the
request served, the excluded nodes and the target are the nodes asked, the reply counts once
the lock is released.

### MCPTools, SubAgent, Executor

`MCPTools` is one call of a run tool: the server process (`server`, `age`), what it has written
(`output`) and the quest at the gateway (`quest`). The caller kills the process at its limit.
Once the quest is posted the process may die at any time: `urlopen` lets out its timeout of
120 s and a connection that is reset or closed, and an answer that is no UTF-8, or an error
whose body cannot be read, raises too. None of this ends the quest.

`SubAgent` is the handler of the five agents that execute a request: the image, text and
segmentation agents of `rk_server`, the image agent of `ascend_server`, whose fallback differs,
and the board agent, which also saves the upload to a file. A model's answer is a sequence of
tokens (braces, quotes, backslashes, newlines, fence marks, the rest); `ParseJsonObject` takes
it apart as `parse_json_object` does, `Json` says what `json.loads` makes of which sequences.
The result goes through `Written`, which knows where `splitlines` cuts.

`Executor` is what the callers of these agents rely on: an agent executes one request at a time,
hands its task to the gateway at most once and only while it serves the request, answers only
what was computed, and answers whatever it accepts. `SubAgent!Executes` is the refinement. The
stage of a request is `waiting` once it has passed the busy test, `served` inside the lock,
`finished` when the lock is free again, then its reply; the task is the quest at the gateway,
which goes on whether the request is still served or not.

### MC modules and proof modules

`MCTaskService` and `MCSubAgentTimers` give model values. `MCTaskScenarios`, `MCLLMServer`,
`MCNodeRegistry`, `MCMainAgent` and `MCSubAgent` also restrict the environment to *scenarios*:
several small systems, each with what one question needs, checked in one run. A behaviour
chooses its scenario in its initial state. In the runs with fairness, scenarios only hold back
what the environment may do or one outcome of a step that has others, never a fair step.

The `*Proofs` modules extend the module they are about; `DispatcherProofs` extends
`MainAgentProofs`, and `SerialProofs` extends `MCTaskScenarios`, whose properties it proves, and
`TaskServiceProofs`.

Mutations of definitions (`<definition>_<what>`) are in the modules they belong to; no
specification uses them. Each shows that a property can tell the code from a plausible mistake
in it.

## 3. Runs

| run | module | question | instance | result |
|---|---|---|---|---|
| task_safety | MCTaskScenarios | do two handlers, the timer and a removal ever orphan a status, a service or a thread? can the timer alone kill the gateway, or make it answer from an empty list? | *concurrent*: 2 handlers, 1 slot; *serial*: one call at a time on 2 devices, one of them not configured; 1,581,012 states up to symmetry | holds |
| task_live | MCTaskScenarios | do calls end, transient statuses pass, idle services go? does `RemoveDevice` release `devs_mutex`? | *quests*: 2 handlers, questOnNode; *removals*: 1 handler, questOnNode and hot start beside removals; *polls*: the same with quest; 104,505 states | holds |
| sub_agent_starts | MCSubAgentTimers | do concurrent starts keep one live timer per agent, and end? | 2 handlers, 1 agent, 2 timer objects alive; 51,775 states | holds |
| registry | MCNodeRegistry | does a device leave the registry only for failed polls, and a silent board surely? | *boards*: 2 boards come and go, the gateway restarts; *quests*: 1 board beside schedulings; *choice*: 2 boards scheduled on; *race*: 2 schedulings at once while a board goes off; 832,945 states | holds |
| llm_server | MCLLMServer | does a request or run leave the server busy, overlap another, or mix or lose text? does every request end? | a request that may stream, up to 2 characters; one that does not, 1 character; 184,740 states | holds |
| main_safety | MCMainAgent | is work done twice, a busy flag orphaned, an awaited sub-agent reclaimed? | 2 main agents, 2 nodes, 2 requests in *failover*, *contention*, *overtaken*; 1,895,667 states up to symmetry | holds |
| main_live | MCMainAgent | is every request answered though everything else may hang? do the main agents implement Dispatcher? | 1 main agent, 2 nodes, 2 requests in *failover*, *contention*; 188,300 states | holds |
| agents_run | MCSubAgent | is the model's choice taken, the result delivered? do the agents implement Executor? | 5 agents, 2 nodes, 2 requests in *selection*, *strays*; 94,421 states | holds |
| task_waiter | MCTaskService | does a quest that waited for a finished creation get the service? (comment at 599) | 2 handlers | **violated** |
| task_grace | MCTaskService | is the container left alone while a quest uses it? (comment at 555) | 1 handler | **violated** |
| task_creators | MCTaskService | one creation per slot? (comment at `device.h:217`) | 2 handlers | **violated** |
| sub_agent_removal | MCSubAgentTimers | does removing a device with a sub-agent timer end? (`scheduler.h:113`) | 1 handler, 1 agent | **violated** |

The configurations are `TaskService_*.cfg`, `SubAgentTimers_*.cfg`, `NodeRegistry.cfg`,
`LLMServer.cfg`, `MainAgent_*.cfg` and `SubAgent.cfg`.

The four disagreements:

1. *task_waiter*: `while (status == Creating || index > 0)` (597) only ends with `index <= 0`,
   and line 602 refuses the quest for that. The waiter is always refused. The variant for a
   chosen node has `&&`.
2. *task_grace*: the callback sleeps two seconds *before* it stores Deleting (555-562), so
   quests still take the service; their `refresh()` comes too late.
3. *task_creators*: status read at 653, Creating stored at 713, nothing in between keeps a
   second handler out.
4. *sub_agent_removal*: `stop()` joins under the mutex (208) the callback needs (184). The
   collector then never returns, and holds `devs_mutex`.

### Bounds

**Gateway.** All the interaction of `tdMap` is per slot; slots share only `devs_mutex`, the
registry and the cached device. One slot with two handlers, the timer and the collector gives
every pair of threads that can meet on it (a third handler adds a second waiter or a third
creator; the safety proofs cover any number). The serial scenario has a second device so that
an unconfigured pair and a hot start over several entries occur. `WaitTicks` is 1 for the ten
polls: properties only tell zero from positive. A daemon's answer may cut a creation in
every scenario but *serial*: see section 5. Two timer objects suffice for two handlers: one
being destroyed while the other is armed. `Workload` and `Chosen` select which API calls exist
in a run.

**Registry.** Two boards are a cycle in which one is polled, and may register, while the other is
being removed. `MaxFailures` is the code's 3. `CacheCalls` is 2 instead of 20: one call that
computes, one that takes the cached device. A load is 0 to 3 with `Full` = 2 and a report either
leaves room for the task's overhead (1 of cpu and xpu) or is already over (always the first in
*boards* and *race*, where it does not matter or *quests* has the second). The gateway restarts
in *boards*. The type of a blank Device is the first of the enum, RK3588, as in the code; board 1
has that type too, board 2 does not serve the task. `Garbage` is what an unassigned id may hold:
a board's id, or none's. Only *race* has two handlers, and its one board does not come back; the
theorem covers any number of both.

**Model server.** Two requests give all the pairs that matter: the holder of the lock with one
that passed the tests early, a stray run with its successor, two streams on one list. Two
characters are the shortest text with an order; with one there still is a cut character, an
error and an empty answer. Only one of the two requests streams and has the longer text: either
may come first. The theorems cover any number of both.

**Agents.** `StartLimit` and `InvokeLimit` are 1 tick for 150 and 240 s and `IdleLimit` is 2
for 300 s: what matters is that a wait is shorter than the idle interval and may begin in the
middle of it. Two nodes are the one given up and the one that takes over. *failover* is one
request with every form, route and failure; *contention* two requests that meet at one node, of
one main agent or of two; *overtaken* a request that fails over to the node on which another
has been abandoned, with nothing else going wrong. In SubAgent the agent's limit for a call is 1
tick for the image agents, 2 for text and 3 for the others, in the order of the code's (60, 120,
150 and 180 s); the process may die before, at or never before each of them, so its own 120 s
need no number. *selection* is one request
with every snapshot and 28 answers of the model: bare, in prose, in fences closed, unclosed or
on one line, with braces, quotes and backslashes inside strings, nested, over several lines,
arrays and objects without the fields. *strays* is two requests at one agent with one choice,
where one's process or quest outlives it.

What the properties leave out is as telling as what they say. `RunUnderLock` and `OwnText` hold
while no request is `Stray`, that is, has left its run behind: a streamed request always does so
with the lock, and a failure after line 356 does too. TLC shows their conclusions false without
that condition: the next request's answer then holds the stray run's text. `DrainedIsWhole` is
about the loop's last turn when the run was already over at its start: text that arrives during
the 5 ms of line 381, when the run also ends in them, is not popped. It also excludes runs `Cut`
inside a character: their bytes stay in `split_byte_data`, and the texts of later runs then do not
decode. `CreatingHasOwner` and `TransientStatusEnds` are about creations no exception has cut
(`DockerClient.cpp:143` on an answer that is not JSON, or 147 on one without an Id); `CutForGood`
(section 4) says what becomes of a slot whose creation one has. `AwaitedNotExpired` is about
timers that wait when the post is made, and about requests whose own start set the timer back: TLC
shows it false of a start that lost its refresh. One that had expired before the start was asked
for removes the container under the request. `TakenOverOnlyAfterTimeout` speaks of posts: a
*start* given up after 150 s may bring a container up that nobody uses until its idle timer
removes it. `NamedPairIsTaken` is about objects in no array, without a brace before them, and on
none of the lines that fence marks cut off. `RemovedAfterFailures` counts from the last complete
registration, unless that came after the collector had given the device up: the removal then takes
the new registration with it.

### Fairness

In the gateway: weak fairness of each handler, timer thread and the collector: threads run and
remote calls return (httplib's clients have timeouts). Strong fairness for steps that wait for
a mutex the collector takes again and again. Requests, registrations, failures of boards,
containers coming up or exiting and the restart of the gateway are never fair. In
SubAgentTimers the end of an idle interval is not fair either; in TaskService it is
(`IdleServiceReclaimed` is about it). `SubAgentTimers!StartsEnd` and `CallbackEnds` hold for
behaviours without a removal in progress: finding 4 breaks them otherwise. In NodeRegistry the
collector, a registration under way and a scheduling under way are weakly fair; boards, new
quests and restarts are not, so `SilentBoardForgotten` holds however often quests put the board
back. In LLMServer each request's thread and each model thread are weakly fair once they have
begun, so the model ends every run it starts; arrivals are not fair. Requests are finitely many
and take the lock once, so no fairness of the lock itself is needed. In MainAgent and SubAgent
the handlers of the agent the property is about are weakly fair, and time passes. Their own
calls of the language model end, by urllib's timeout if nothing else. Nothing is assumed of
sub-agents, starts, MCP processes that run a quest, or the gateway: they may hang for ever.
Dispatcher's fairness is that a request that is served is finished, Executor's that no agent
leaves a request waiting while it is idle, unserved or unanswered; TLC checks the one from
MainAgent's, the other from SubAgent's.

### Deadlock

It is checked in the runs of TaskService, SubAgentTimers, NodeRegistry and MainAgent, where
something (registrations, new calls, the collector, time) always has a step, so that the
absence of progress is found by the liveness properties. LLMServer's and SubAgent's runs switch
it off: when all requests have their replies nothing happens, as in a server nobody calls.
`RequestsEnd` and `Executes` tell that from a deadlock.

## 4. Proofs

All theorems hold for every value of the constants that meets the named assumptions. They are of
four kinds: the invariants the passing runs check, all of them, and all their action properties
but `NamedPairIsTaken`; the safety part of the two refinements; *measures*,
which are what can be proved of a liveness property; and, for two of the disagreements and for a
creation cut by an exception, that no timing gets out of them.

A measure is a number, or a number or finite set before another number in lexicographic order,
computed from the state. The theorem says of every step that the process in question makes it
smaller by each of its own steps and that nobody else makes it larger. What then separates it
from the liveness property is fairness alone, and that the process always has a step, and those
TLC checks.

`TaskServiceProofs`, for any `Handler`, `Task`, `Device`, `Configured`, `Workload` and positive
`WaitTicks`: `TypeCorrect`, `CreatingOwned`, `DeletingOwned`, `RunningTimed`,
`TimersHaveEntries`, `StoppingJoined`. Assumptions: the bound on the polls is a positive
number; `NoSlot` and `Unlinked` are not slots; `Configured` and `Workload` are what their names
say. The invariants are inductive only together, and with three more facts: a busy handler is
at a slot (`HandlerAtSlot`), the collector is at a device and, between its stop and the
destructor, at a slot (`CollectorAtSlot`), and a handler about to spawn a timer thread has its
entry in the map (`SpawnHasEntry`). `RunningIsTimed`, for instance, survives `TagNoExist`,
which ends the thread, only because that step stores NoExist in the same slot; `CreatingHasOwner`
survives the exception of `CreateContainer` only because that step puts the slot into
`abandoned`, and every later store of a status takes it out; `TimerHasEntry`
survives `EraseEntry` only because the thread moves to the unlinked entry. `IInv` is their
conjunction with `TypeOK`. The proof has one lemma per kind of thread for the types and one for
the owners. `QuietMoveOwners` handles at once the many handler steps that neither store a
status nor touch a timer.

On the same invariant rest the measures. `CallsRunDown`: the devices a call has left to visit,
then its polls and its label; the one step that need not make it smaller is a turn of the wait
loop of `getOrCrtSrvByTType`, which is unbounded while the service is Creating. `RemovalsRunDown`:
the entries `RemoveDevice` has left, and its place at the present one. `ThreadsRunDown`: the place
of a timer's thread in `run()` and the callback. `JoinsAreAwaited` covers the steps that have to
wait for a thread: it has one joiner, and has been told to stop or is past its wait. Together they
are the safety part of `CallsEnd`, `RemovalEnds` and `TransientStatusEnds`. `WaitersRefused` is
finding 1 for every behaviour: `PollsUsedUp` is inductive, so `CheckWait` never does anything but
refuse. `CutForGood` is about the slot an exception has left behind in Creating while nobody
else works on it (`Stranded`: no second creation, no handler that probes it or arms its timer, no
timer still to fire): no step of any thread takes it out of that state, and a quest in the loop
at 597 polls on. Only three things end it (`Recreated`): the removal of its device, the end of
the process, and a hot start, which does not look at the status.

`SerialProofs`, for any number of handlers of which one works at a time, with any tasks and
devices, on daemons that answer in JSON: `SerialSurvives` and `SerialPublished`. Every way the
gateway dies, or answers from an empty list, needs a second thread: `Unshared` says that the
labels only a second handler leads to are not reached, that the thread `start()` replaces has
been joined, and that the list is not empty between probe and answer. `Orderly` adds that no
creation was cut and no timer is left unset. The timer's own thread is such a second thread. It
clears no list, and it ends when it is joined; what it can do is fire in the very step in which
its callback is replaced (`TimerDies`, `FiresWhileSet`), and that is the one death
`SerialGatewaySurvives` allows.

`SubAgentTimersProofs`, for any handlers, agents, devices and timers: `TypeCorrect`,
`EntriesLive`, `EntriesOwned`. `LiveEntry` and `OwnEntry` are about who may still reach an
object, so the invariant counts references: the map holds an object under its own key
(`MapOfKeys`), a local is to an object of one handler (`Held`), whoever runs a destructor has
the last reference (`Victims`), a timer that still counts is in the map or in a handler's hands
(`Reachable`), and a destroyed object is known to its own thread alone (`Detached`).
`NotExpired` is the model's assumption that no timer expires between a handler's two critical
sections; `CollectorHolds` is its mutex. `JoinsAreAwaited` (a start joins only a thread that will
not call back, and holds the mutex over nothing else) and the measure `StartsRunDown` are the
safety part of `StartsEnd` and `CallbackEnds`. `BlockedForGood` is finding 4 from the other side:
a removal that joins a timer inside its callback stays there until the process dies, so the run's
counterexample is not one that a slower schedule would get out of.

`NodeRegistryProofs`, for any boards and handlers and any `MaxFailures`: `TypeCorrect` and
`RemovalsDeserved`. The code's count is not what a board has really missed: registrations reset
it without a lock, and a key given up is still in the maps. `Counted` says that it never runs
ahead of `missed` and is full only for a key given up; `Missed` that a key given up has missed
enough until it is out; `Passed` that a cycle goes upwards, so a key is not polled again after it
was given up. That the smallest key and the least load exist comes from the well-foundedness of
`<`. `EveryPollIsNearer` assumes finitely many devices: for each key in the registry whose board
is off (or that `operator[]` made up), the collector's steps make the pair of `Cycles`, the
polling cycles before the key is given up, and `CycleSteps`, no less than the steps left of the
present cycle, smaller until the key is out, and no registration, scheduling or other board
changes it. This is why `SilentBoardForgotten` needs no fairness but the collector's. It takes
one more invariant, `Blanks`: what `operator[]` made up never answers a poll.

`LLMServerProofs`, for any set of requests and any bound on the length of a run: `ServerTypes`,
`BusyOwned`, `NormalOwned`, `RunsUnderLock`, `AnswersOwnText` and the action property
`DrainsWholeText`. It assumes that `Nobody` and `Garbled` are no requests. The invariant starts
with `Places`: who holds the lock, what has been replied and whether the model thread exists,
by label. `Places` alone gives `RunUnderLock` (`OneRun`). `NormalHasText` strengthens
`NormalHasRun`: a run that may end without a callback is not a witness. `TextFollowsRun` says
that output and `global_text` together are the run's characters in order, and all of them as
long as `split_byte_data` is what the run goes on with (`Matches`). That an answer has no gap
follows from it, because text stops for good once the bytes do not match. `CleanBytes` says
they match unless a run was cut, which gives `DrainedIsWhole`. A step is the request's own
(`OwnStepText`) or another's, which then has no lock and cannot touch the text (`OthersText`).

`MainAgentProofs`, for any main agents, requests and forms, finitely many nodes and any limits
with `InvokeLimit < IdleLimit`: `TypeCorrect`, `BusyOwned`, `AwaitedSafe`. `GateStep` sums up
what any step does to the gates. `AtHome` ties `pc` to the gate: a request is in the `try` block
while it is busy. `Targets` says which node is tried and which have failed. `TimersLag` is the
reason for `AwaitedNotExpired`: a waiting timer is never ahead of the wait for the reply, because
the start before the post set it back; a request in `unrefreshed` is where that fails, and nobody
else's start can put it there. `TakeoverSafe` (a sub-agent still works on, or has answered, a
request taken from it only if the post timed out) follows from `SentOnlyByPost` (a node that has
neither failed the request nor is its target has never been sent it). `ImagesOnly`: no image
agent is started for, or sent, a request without an image. `EveryStepIsNearer` is the measure of
`RequestsEnd`: `Distance` counts the nodes the request has not been tried on and its place in the
handler, and the failover loop goes back in the handler only when it has excluded one more node.

`DispatcherProofs` shows the refinement: `LockIsHeld` (the lock is held by exactly the one
request inside) and `MainAgentsDispatch`, `Spec => D!Init /\ [][D!Next]_D!vars`. A choice of a
node is `Ask` of a node that was not asked before, which is where the exclusion of failed nodes
is needed; raising the flag changes nothing the client sees; releasing the lock is `Finish`.

`SubAgentProofs`, for any agents, nodes, catalogue, answers and timeouts: `TypeCorrect`,
`StraysLost`, `ResultsReachClients`, `FilesOutliveUse`. The invariant is one conjunction
per request: where it is and what has been said of it (`Placed`), what its call is doing
(`CallOf`), why it ended (`EndOf`), what has become of its file (`FileOf`). No two requests
share any of it. `LockIsHeld` (the lock is held by the one request inside) and `AgentsExecute`,
`Spec => E!Init /\ [][E!Next]_E!vars`, are the refinement of Executor: acquiring the lock is
`Serve`, the start of the run tool `Submit`, the gateway's answer `Complete` whether the request
is still there or not, and a reply of success needs a task that is done.

Only model-checked: liveness, and with it the fairness of Dispatcher and Executor, which no
installed prover reaches, beyond the measures above; LLMServer's `RequestsEnd` and `BusyEnds` have
no measure, because a request's loop turns as often as it likes while its run is silent (line
359); `IdleServiceReclaimed` is about a tick that has to happen; `NamedPairIsTaken`, whose scan is
a fold over the answer, so that its proof would be an induction over data.

## 5. Abstractions, and what is not modelled

Gateway:

- A container's id and its name stand for the same container; only the gateway removes it.
- In the *serial* scenario, and so in `SerialGatewaySurvives` and `SerialAnswerIsPublished`, the
  daemons answer in JSON. A creation cut by an exception leaves Creating behind; the timer of the
  service's previous life may still turn that into Deleting, a quest for a chosen node that polled
  Creating then takes its wait for ended, and reads `srv_infos[0]` of an empty list.
- `set_interval`, `set_callback` and `set_once_flag` (755-757) are one step. A removal between
  the first two would leave a timer of the default 30 seconds with a callback, which the module
  leaves out; a removal between `set_callback` and `start()` is in it (`unset`).
- Operations on `std::map` are atomic and memory is sequentially consistent. Races on the maps
  themselves are undefined behaviour and are listed as a hazard.
- The blank device chosen when nothing is registered has no slot: its docker calls fail.
- A configured pair is (task, device), not (task, device type): each device has a type of its
  own.
- The 20-call cache is, in TaskService, the set of devices it may return (`ScheduleChoice`). In
  NodeRegistry it is the code's; the test of `callCount` and its reset are one step, and the
  counter is kept modulo `CacheCalls`. The entries of `tdMap` the scheduler inserts while it
  reads are TaskService's.
- A board's id is that of its configuration; two boards do not share one.
- A quest that has just refreshed the timer (`kept`) ends before the timer's 600 seconds:
  httplib's read timeout is at most 300. A refresh may be lost to the race on `elapsed_time`;
  then nothing holds the timer back. In MainAgent the refresh of a sub-agent's timer may be lost
  likewise. A start of a sub-agent does not stay 300 seconds between its two critical sections.
- Not stated, because the program does not promise it: that the cached device supports the task
  or is still there, that the fallback device does, that a removed board comes back. A board
  registers before it listens: three polls refused meanwhile remove it for good. A new device
  counts as unused until its first poll.

Agents:

- In LLMServer two callbacks do not interleave inside the decoding of one text, which could
  only happen with a stray run. A run that has delivered text always ends with a FINISH or
  ERROR callback: that is how the code expects `librkllmrt` to behave; a run that fails at once
  may not.
- Prompts, wording, token counts and summaries are data; a model answers anything of the right
  kind, or fails.
- A request posted to an agent is posted once; clients do not retry.
- `os.unlink` of the temporary file does not fail; the MCP process opens it or has died.
- Time is in ticks that are as long as the differences between the timeouts.
- `parse_json_object` has limits the properties leave alone: an array makes the handler raise
  (a 500 although candidates exist), an object on the line of a fence mark, or the last line of
  an unclosed fence, is cut.

Parsing of requests, bodies, the docker JSON, logs and time records are data.

Not modelled: the collectors of machine information (input), ThreadSafeMap (unused),
TimeRecorder, the Z3 experiments and `Z3_simulate_schedule` (called by nothing), the tests, the
start scripts, `stop`, `pause` and `unpause` of the docker client (not called by the gateway),
and the handler of `/cluster_resources`, which only reads.

## 6. What is left

1. How stale the cached device may be: `callCount` and `tgt_dev` are plain statics, so two
   handlers may both compute, or one return the choice of the other (scenario *race*). No
   property of the device returned survives that; one about its age would.
2. An abstract timer (idle, armed, firing) that the timers of TaskService and SubAgentTimers
   both implement.
3. The composition of SubAgent with MainAgent (a quest that runs on
   while its node is already excluded) and of TaskService with NodeRegistry, whose interfaces are
   choices of the environment so far.
