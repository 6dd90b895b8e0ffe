------------------------------ MODULE MCPTools ------------------------------
(*****************************************************************************)
(* One tools/call of run_task_on_node or run_vision_task_on_node: the agent  *)
(* starts an MCP server process (mcp_server.py), which posts the quest to    *)
(* the gateway and writes what the agent will read.  The agent kills a       *)
(* process that is too slow; a process whose answer is late, or does not     *)
(* come whole, dies of an exception.  Neither ends the quest.  The module is *)
(* instantiated by the agents that call it.                                  *)
(*****************************************************************************)
EXTENDS Naturals

CONSTANTS
    Request         \* the requests the agents work for; each calls at most one tool

VARIABLES
    server,         \* [Request -> what its server process does]
    age,            \* [Request -> ticks since the process was started]
    output,         \* [Request -> what the process has written, as the agent will read it]
    quest           \* [Request -> what the gateway does with the quest]

\* started: the image is not read yet.  posted: in urlopen.  exited and died: codes 0 and 1.
ServerState == {"none", "started", "posted", "written", "exited", "died"}

\* failure: no JSON, or an HTTP error.  result, other: a JSON object with, or without, the
\* fields of its task type.  binary: a JSON object with an image as a Latin-1 string.
\* separated: a JSON object with a line separator in another string.
GatewayAnswer == {"failure", "result", "other", "binary", "separated"}

\* broken: lines of which one is no JSON.
Output == {"none", "isError", "result", "other", "broken"}

MCPTypeOK ==
    /\ server \in [Request -> ServerState]
    /\ age \in [Request -> Nat]
    /\ output \in [Request -> Output]
    /\ quest \in [Request -> {"none", "running"} \union GatewayAnswer]

MCPInit ==
    /\ server = [r \in Request |-> "none"]
    /\ age = [r \in Request |-> 0]
    /\ output = [r \in Request |-> "none"]
    /\ quest = [r \in Request |-> "none"]

Serve(r, from, to) == server[r] = from /\ server' = [server EXCEPT ![r] = to]

Write(r, what) == output' = [output EXCEPT ![r] = what]

\* call_mcp_server: a process for every call, with the three lines it is to read.
StartServer(r) ==
    /\ Serve(r, "none", "started")
    /\ UNCHANGED <<age, output, quest>>

\* A RuntimeError before anything is sent: a bad argument, an image_path that does not
\* exist, a gateway that cannot be reached.
RejectCall(r) ==
    /\ Serve(r, "started", "written")
    /\ Write(r, "isError")
    /\ UNCHANGED <<age, quest>>

PostQuest(r) ==
    /\ Serve(r, "started", "posted")
    /\ quest' = [quest EXCEPT ![r] = "running"]
    /\ UNCHANGED <<age, output>>

\* Mutant: the image is left in the answer as it came.
Written_Raw(binary, answer) ==
    IF answer = "failure" THEN "isError"
    ELSE IF answer \in {"separated", "binary"} THEN "broken" ELSE answer

\* json.dumps leaves U+0085 and U+2028 in the line it writes, where splitlines cuts; an
\* image as a Latin-1 string is full of such bytes.  binary: the tool re-encodes it first.
Written(binary, answer) ==
    CASE answer = "failure" -> "isError"
      [] answer = "separated" \/ (answer = "binary" /\ ~binary) -> "broken"
      [] answer = "binary" /\ binary -> "result"
      [] OTHER -> answer

\* The gateway is done with the quest, whether anybody still waits for it or not.  A process
\* also dies of an answer that is no UTF-8, or of an HTTP error whose body it cannot read.
GatewayAnswers(r, answer, binary) ==
    /\ quest[r] = "running"
    /\ quest' = [quest EXCEPT ![r] = answer]
    /\ \/ Serve(r, "posted", "written") /\ Write(r, Written(binary, answer))
       \/ answer = "failure" /\ Serve(r, "posted", "died") /\ UNCHANGED output
       \/ server[r] # "posted" /\ UNCHANGED <<server, output>>
    /\ UNCHANGED age

\* Once the quest is posted, urlopen lets out what is neither HTTPError nor URLError: the
\* response is not there within 120 s, or the connection is reset or closed before its end.
ServerDies(r) ==
    /\ Serve(r, "posted", "died")
    /\ UNCHANGED <<age, output, quest>>

\* Its standard input is at its end.
ServerExits(r) ==
    /\ Serve(r, "written", "exited")
    /\ UNCHANGED <<age, output, quest>>

Running(r) == server[r] \in {"started", "posted", "written"}

\* Mutant: the agent gives the process up and does not kill it.
Kill_LeavesIt(r) == Running(r) /\ UNCHANGED <<server, age, output, quest>>

\* communicate(timeout) expires: what the process has written goes with it.
Kill(r) ==
    /\ Running(r)
    /\ server' = [server EXCEPT ![r] = "none"]
    /\ age' = [age EXCEPT ![r] = 0]
    /\ output' = [output EXCEPT ![r] = "none"]
    /\ UNCHANGED quest

\* communicate returns: the process has closed its output and gone.
Collect(r) ==
    /\ server[r] \in {"exited", "died"}
    /\ server' = [server EXCEPT ![r] = "none"]
    /\ age' = [age EXCEPT ![r] = 0]
    /\ UNCHANGED <<output, quest>>

MCPStep(r) == RejectCall(r) \/ PostQuest(r) \/ ServerDies(r) \/ ServerExits(r)

=============================================================================
