------------------------------ MODULE SubAgent ------------------------------
(*****************************************************************************)
(* The agents that execute a request: the image, text and segmentation sub-  *)
(* agents of multi-agent/ (the Ascend image agent chooses otherwise) and the *)
(* board agent of agent/server/.  All take a snapshot of the cluster, build  *)
(* the pairs of task type and node it offers, let a model choose one or fall *)
(* back on a rule, run the pair through an MCP server, and word the result.  *)
(*****************************************************************************)
EXTENDS BusyGate, Integers, SequencesExt

CONSTANTS
    Node,           \* the boards the gateway may know
    Offers,         \* [Node -> the task types static_info.json has for its device type]
    ProcTime,       \* [Node -> [Task -> proc_time of the task's overhead]]
    Load,           \* the values of mem_used
    Text,           \* what a model may answer, as sequences of tokens
    Json,           \* [the sequences json.loads takes -> what they mean]
    CallLimit       \* [Server -> the timeout of its call of the run tool, in ticks]

ImageTask == {"YoloV5", "MobileNet", "ResNet50"}
Task == ImageTask \union {"Bert", "deeplabv3"}
Pair == Task \X Node

\* The tools of the agent's profile in multi_agent_info.json, and the board agent's own.
Tools == [image |-> ImageTask, imageAscend |-> ImageTask, board |-> ImageTask,
          text |-> {"Bert"}, segmentation |-> {"deeplabv3"}]

\* What json.loads makes of an answer, when it is not an object with the two fields.
Garbled  == <<"no JSON">>
NoObject == <<"a JSON array, string, number or null">>
Unnamed  == <<"an object without the fields">>
Meaning  == {Garbled, NoObject, Unnamed} \union Pair

Wants == {"detection", "speed", "classification"}

ASSUME ServerAssumption == Server \subseteq DOMAIN Tools
ASSUME OffersAssumption == Offers \in [Node -> SUBSET Task] /\ ProcTime \in [Node -> [Task -> Nat]]
ASSUME LoadAssumption == Load \subseteq Nat
ASSUME JsonAssumption == \A t \in DOMAIN Json : Json[t] \in Meaning
ASSUME LimitAssumption == CallLimit \in [Server -> Nat]

VARIABLES
    home, wants,    \* [Request -> the agent it is posted to], [-> what its words ask for]
    pc,             \* [Request -> what the agent does inside the try block]
    load,           \* [Request -> the snapshot: the nodes known then, with their mem_used]
    said,           \* [Request -> the model's answer to the selection]
    choice,         \* [Request -> the pair chosen]
    file,           \* [Request -> the board agent's temporary file]
    cause,          \* [Request -> the kind of message the 500 carries]
    server, age, output, quest      \* see MCPTools

INSTANCE MCPTools

call   == <<server, age, output, quest>>
chosen == <<load, said, choice>>
vars   == <<gate, home, wants, pc, chosen, file, cause, call>>

PC == {"idle", "save", "plan", "ask", "choose", "start", "run", "word"}

Cause == {"none", "save", "plan", "ask", "choose", "timed out", "exited", "tool", "broken", "word"}

NoChoice == <<>>

\* The snapshot's nodes are the domain of load[r].
Snapshot == UNION {[N -> Load] : N \in SUBSET Node}

TypeOK ==
    /\ GateTypeOK /\ MCPTypeOK
    /\ home \in [Request -> Server]
    /\ wants \in [Request -> SUBSET Wants]
    /\ pc \in [Request -> PC]
    /\ load \in [Request -> Snapshot]
    /\ said \in [Request -> Text \union {<<>>}]
    /\ choice \in [Request -> {NoChoice} \union Pair]
    /\ \A r \in Request :
        /\ choice[r] \in {NoChoice} \union (Tools[home[r]] \X Node)
        /\ Running(r) => age[r] <= CallLimit[home[r]]
    /\ file \in [Request -> {"none", "kept", "leaked"}]
    /\ cause \in [Request -> Cause]

Init ==
    /\ GateInit /\ MCPInit
    /\ home \in [Request -> Server]
    /\ wants \in [Request -> SUBSET Wants]
    /\ pc = [r \in Request |-> "idle"]
    /\ load = [r \in Request |-> <<>>]
    /\ said = [r \in Request |-> <<>>]
    /\ choice = [r \in Request |-> NoChoice]
    /\ file = [r \in Request |-> "none"]
    /\ cause = [r \in Request |-> "none"]

-----------------------------------------------------------------------------
(* The handlers around their try blocks *)

\* The main agent's forms are valid; those of the board agent's clients may not be.
Receive(r) ==
    /\ \/ TurnAway(home[r], r)
       \/ home[r] = "board" /\ TurnAwayInvalid(home[r], r)
       \/ Pass(home[r], r)
    /\ UNCHANGED <<home, wants, pc, chosen, file, cause, call>>

AcquireLock(r) ==
    /\ Acquire(home[r], r)
    /\ UNCHANGED <<home, wants, pc, chosen, file, cause, call>>

Goto(r, label) == pc' = [pc EXCEPT ![r] = label]

Begin(r) ==
    /\ RaiseFlag(home[r], r)
    /\ Goto(r, IF home[r] = "board" THEN "save" ELSE "plan")
    /\ UNCHANGED <<home, wants, chosen, file, cause, call>>

\* The board agent's finally clause starts with the file.
RemoveFile(r) ==
    /\ at[home[r]][r] = "leaving" /\ file[r] = "kept"
    /\ file' = [file EXCEPT ![r] = "none"]
    /\ UNCHANGED <<gate, home, wants, pc, chosen, cause, call>>

ReleaseLock(r) ==
    /\ file[r] # "kept"
    /\ Release(home[r], r)
    /\ UNCHANGED <<home, wants, pc, chosen, file, cause, call>>

ClearFlag(r) ==
    /\ LowerFlag(home[r], r)
    /\ UNCHANGED <<home, wants, pc, chosen, file, cause, call>>

\* Leaves the try block, and its locals with it.
Return(r, v, why) ==
    /\ Leave(home[r], r, v)
    /\ Goto(r, "idle")
    /\ load' = [load EXCEPT ![r] = <<>>]
    /\ said' = [said EXCEPT ![r] = <<>>]
    /\ choice' = [choice EXCEPT ![r] = NoChoice]
    /\ cause' = [cause EXCEPT ![r] = why]

Raise(r, why) == Return(r, "error", why)

-----------------------------------------------------------------------------
(* run_image_sub_agent, run_text_sub_agent, run_segmentation_sub_agent, run_image_agent *)

\* The file is there before the upload is written to it, its name known only after.
SaveUpload(r) ==
    /\ pc[r] = "save"
    /\ \/ /\ Goto(r, "plan")
          /\ file' = [file EXCEPT ![r] = "kept"]
          /\ UNCHANGED <<gate, chosen, cause>>
       \/ /\ Raise(r, "save")
          /\ file' \in {file, [file EXCEPT ![r] = "leaked"]}
    /\ UNCHANGED <<home, wants, call>>

\* build_execution_candidates
Offered(r, L) == {p \in Tools[home[r]] \X DOMAIN L : p[1] \in Offers[p[2]]}

Candidates(r) == Offered(r, load[r])

\* Two tool calls, of which each may fail, and the candidates; text_agent does not ask for
\* a model when there is one.
GetCandidates(r) ==
    /\ pc[r] = "plan"
    /\ \/ \E L \in Snapshot :
            /\ load' = [load EXCEPT ![r] = L]
            /\ Offered(r, L) # {}
            /\ IF home[r] = "text" /\ Cardinality(Offered(r, L)) = 1
               THEN /\ Goto(r, "start")
                    /\ choice' \in {[choice EXCEPT ![r] = p] : p \in Offered(r, L)}
               ELSE Goto(r, "ask") /\ UNCHANGED choice
            /\ UNCHANGED <<gate, said, cause>>
       \/ Raise(r, "plan")
    /\ UNCHANGED <<home, wants, file, call>>

\* call_llm within choose_execution_target: text_agent alone lets its exceptions out.
AskModel(r) ==
    /\ pc[r] = "ask"
    /\ \/ /\ \/ said' \in {[said EXCEPT ![r] = t] : t \in Text}
             \/ home[r] # "text" /\ UNCHANGED said
          /\ Goto(r, "choose")
          /\ UNCHANGED <<gate, load, choice, cause>>
       \/ home[r] = "text" /\ Raise(r, "ask")
    /\ UNCHANGED <<home, wants, file, call>>

-----------------------------------------------------------------------------
(* parse_json_object *)

Where(t, token) == {i \in DOMAIN t : t[i] = token}

Strip(t) ==
    LET inner == DOMAIN t \ Where(t, "newline")
    IN  IF inner = {} THEN <<>> ELSE SubSeq(t, Min(inner), Max(inner))

\* The first and the last of three lines or more are dropped, whatever the last one is.
Unfence(t) ==
    LET cuts == Where(t, "newline")
    IN  IF t # <<>> /\ Head(t) = "fence" /\ Cardinality(cuts) >= 2
        THEN Strip(SubSeq(t, Min(cuts) + 1, Max(cuts) - 1)) ELSE t

\* One character of the scan for the brace that closes the first one.
Scan(s, c) ==
    LET depth == s.depth + (IF s.in_string THEN 0 ELSE IF c = "{" THEN 1 ELSE IF c = "}" THEN -1 ELSE 0)
    IN  IF s.closed THEN s
        ELSE [taken     |-> Append(s.taken, c),
              depth     |-> depth,
              in_string |-> s.in_string # (c = "quote" /\ ~s.escape),
              escape    |-> s.in_string /\ ~s.escape /\ c = "backslash",
              closed    |-> ~s.in_string /\ c = "}" /\ depth = 0]

Unscanned == [taken |-> <<>>, depth |-> 0, in_string |-> FALSE, escape |-> FALSE, closed |-> FALSE]

\* Mutant: the scan does not look for strings.
Embedded_NoStrings(t) ==
    LET braces == Where(t, "{")
        ends   == {j \in Where(t, "}") : braces # {} /\ j > Min(braces)}
    IN  IF ends = {} THEN <<>> ELSE SubSeq(t, Min(braces), Min(ends))

Embedded(t) ==
    LET braces == Where(t, "{")
        scan   == FoldLeft(Scan, Unscanned, SubSeq(t, Min(braces), Len(t)))
    IN  IF braces # {} /\ scan.closed THEN scan.taken ELSE <<>>

Loads(t) == IF t \in DOMAIN Json THEN Json[t] ELSE Garbled

ParseJsonObject[t \in Text \union {<<>>}] ==
    LET cleaned == Unfence(Strip(t))
    IN  IF Loads(cleaned) # Garbled THEN Loads(cleaned) ELSE Loads(Embedded(cleaned))

-----------------------------------------------------------------------------
(* choose_execution_target and choose_fallback_candidate *)

Time(p) == ProcTime[p[2]][p[1]]

Fastest(C) == {p \in C : \A q \in C : Time(p) <= Time(q)}

LeastLoaded(C, mem) == {p \in C : \A q \in C : mem[p[2]] <= mem[q[2]]}

\* Of the best candidates the code takes the one listed first, or the one with the lowest
\* cpu_used; any of them will do here.
Detectors(C)   == {p \in C : p[1] = "YoloV5"}
Classifiers(C) == {p \in C : p[1] \in {"MobileNet", "ResNet50"}}

ImageFallback(C, words, mem) ==
    IF "detection" \in words /\ Detectors(C) # {} THEN Fastest(Detectors(C))
    ELSE IF words \intersect {"speed", "classification"} # {} /\ Classifiers(C) # {}
    THEN Fastest(Classifiers(C))
    ELSE Fastest(LeastLoaded(C, mem))

\* The Ascend agent looks at no load, and takes the first detector.
AscendFallback(C, words) ==
    IF "detection" \in words /\ Detectors(C) # {} THEN Detectors(C)
    ELSE IF words \intersect {"speed", "classification"} # {} /\ Classifiers(C) # {}
    THEN Fastest(Classifiers(C))
    ELSE Fastest(C)

SegmentationFallback(C, mem) == LeastLoaded(Fastest(C), mem)

Fallback(r) ==
    LET C == Candidates(r)
    IN  CASE home[r] = "text" -> C
          [] home[r] = "segmentation" -> SegmentationFallback(C, load[r])
          [] home[r] = "imageAscend" -> AscendFallback(C, wants[r])
          [] OTHER -> ImageFallback(C, wants[r], load[r])

\* Mutant: the pair is taken as the model names it.
Selected_Unmatched(r, named) == IF named = Unnamed THEN Fallback(r) ELSE {named}

\* find_matching_candidate, and the fallback when nothing matches.
Selected(r, named) == IF named \in Candidates(r) THEN {named} ELSE Fallback(r)

\* selection.get of what is no object raises, outside every try but the handler's.
ChooseTarget(r) ==
    LET named == ParseJsonObject[said[r]]
    IN  /\ pc[r] = "choose"
        /\ IF named = NoObject THEN Raise(r, "choose")
           ELSE /\ choice' \in {[choice EXCEPT ![r] = p] : p \in Selected(r, named)}
                /\ said' = [said EXCEPT ![r] = <<>>]
                /\ load' = [load EXCEPT ![r] = <<>>]
                /\ Goto(r, "start")
                /\ UNCHANGED <<gate, cause>>
        /\ UNCHANGED <<home, wants, file, call>>

-----------------------------------------------------------------------------
(* The call of the run tool, and the wording of its result *)

StartTool(r) ==
    /\ pc[r] = "start"
    /\ StartServer(r)
    /\ Goto(r, "run")
    /\ UNCHANGED <<gate, home, wants, chosen, file, cause>>

\* Mutant: what the killed process has written is read for the answer.
GiveUp_ReadsOn(r) ==
    /\ pc[r] = "run" /\ age[r] = CallLimit[home[r]]
    /\ Kill(r)
    /\ Raise(r, "tool")
    /\ UNCHANGED <<home, wants, file>>

\* Mutant: communicate has no timeout.
GiveUp_Never(r) == FALSE

GiveUp(r) ==
    /\ pc[r] = "run" /\ age[r] = CallLimit[home[r]]
    /\ Kill(r)
    /\ Raise(r, "timed out")
    /\ UNCHANGED <<home, wants, file>>

\* call_mcp_tool reads what the process has left behind.
CollectResult(r) ==
    /\ pc[r] = "run"
    /\ Collect(r)
    /\ LET why == IF server[r] = "died" THEN "exited"
                  ELSE IF output[r] = "isError" THEN "tool"
                  ELSE IF output[r] = "broken" THEN "broken" ELSE "none"
       IN  IF why = "none" THEN Goto(r, "word") /\ UNCHANGED <<gate, chosen, cause>> ELSE Raise(r, why)
    /\ UNCHANGED <<home, wants, file>>

\* image_agent words the result without a model where it finds the fields of the task;
\* segmentation_agent catches what its model raises, text_agent has none.
NeedsModel(r) == "YoloV5" \in Tools[home[r]] /\ output[r] = "other"

Word(r) ==
    /\ pc[r] = "word"
    /\ Return(r, "answer", "none") \/ (NeedsModel(r) /\ Raise(r, "word"))
    /\ UNCHANGED <<home, wants, file, call>>

\* The gateway, at a time of its own; deeplabv3's answers are re-encoded.
AnswerQuest(r) ==
    /\ \E a \in GatewayAnswer : GatewayAnswers(r, a, home[r] = "segmentation")
    /\ UNCHANGED <<gate, home, wants, pc, chosen, file, cause>>

RunServer(r) ==
    /\ MCPStep(r)
    /\ UNCHANGED <<gate, home, wants, pc, chosen, file, cause>>

\* A limit that is reached is acted upon.
Tick ==
    /\ \A r \in Request : Running(r) => age[r] < CallLimit[home[r]]
    /\ age' = [r \in Request |-> IF Running(r) THEN age[r] + 1 ELSE age[r]]
    /\ UNCHANGED <<gate, home, wants, pc, chosen, file, cause, server, output, quest>>

-----------------------------------------------------------------------------
HandlerStep(r) ==
    \/ AcquireLock(r) \/ Begin(r) \/ RemoveFile(r) \/ ReleaseLock(r) \/ ClearFlag(r)
    \/ SaveUpload(r) \/ GetCandidates(r) \/ AskModel(r) \/ ChooseTarget(r)
    \/ StartTool(r) \/ GiveUp(r) \/ CollectResult(r) \/ Word(r)

Next ==
    \/ \E r \in Request : Receive(r) \/ HandlerStep(r) \/ RunServer(r) \/ AnswerQuest(r)
    \/ Tick

Spec == Init /\ [][Next]_vars

\* The agents' threads run, their models answer or fail within urllib's timeout, as do the
\* two read-only tools, and time passes.  Nothing is assumed of the MCP servers that run a
\* quest, nor of the gateway.
Fairness == WF_vars(Tick) /\ \A r \in Request : WF_vars(HandlerStep(r))

FairSpec == Spec /\ Fairness

-----------------------------------------------------------------------------
(* Properties *)

\* The answer holds a JSON object for p, in no array, with no brace before it and, if fence
\* marks open the answer, on none of the lines that are cut.
Names(t, p) ==
    LET cuts   == Where(t, "newline")
        braces == Where(t, "{")
    IN  /\ t \in DOMAIN Json => Json[t] # NoObject
        /\ braces # {} /\ \E j \in Where(t, "}") :
            /\ Loads(SubSeq(t, Min(braces), j)) = p
            /\ Head(t) = "fence" /\ Cardinality(cuts) >= 2 => Min(cuts) < Min(braces) /\ j < Max(cuts)

\* The model's choice counts whenever it made one of the candidates: neither prose around
\* the object, nor fence marks, nor braces and quotes inside its strings, send
\* choose_execution_target to the fallback or to another pair.
NamedPairIsTaken ==
    [][\A r \in Request : pc[r] = "choose" /\ pc'[r] # "choose" =>
        \A p \in Candidates(r) : Names(Strip(said[r]), p) => choice'[r] = p]_vars

\* The agent gave its MCP server up, or the server died before it had written anything.
CallLost(r) == cause[r] \in {"timed out", "exited"}

\* A quest goes on at the gateway after its request has been answered only if the call was
\* lost, to a timeout or with its connection: any other 500 may be retried on another node
\* without the task running twice.
StrayQuestOnlyAfterLostCall ==
    \A r \in Request : quest[r] = "running" /\ reply[home[r]][r] # "none" => CallLost(r)

\* What the gateway has computed reaches the client: no failure of a model and no byte of an
\* image loses it, only a call lost in between does.  (Line separators in other strings do lose it,
\* and so does the model that words an image result without the fields of its task.)
ResultReachesClient ==
    \A r \in Request :
        /\ \/ quest[r] = "result"
           \/ quest[r] = "other" /\ home[r] \in {"text", "segmentation"}
           \/ quest[r] = "binary" /\ home[r] = "segmentation"
        /\ reply[home[r]][r] = "error"
        => CallLost(r)

\* The board agent's file is there as long as an MCP server may still open it, and gone with
\* the reply unless the upload itself failed.
FileOutlivesUse ==
    \A r \in Request : home[r] = "board" =>
        /\ server[r] = "started" => file[r] = "kept"
        /\ at["board"][r] = "gone" /\ file[r] # "none" => cause[r] = "save"

\* A request's place at its agent, as its client may see it.
Stage(r) ==
    LET place == at[home[r]][r]
    IN  CASE place = "away" -> "away"
          [] place = "passed" -> "waiting"
          [] place \in Inside -> "served"
          [] place = "released" -> "finished"
          [] OTHER -> reply[home[r]][r]

TaskOf(r) ==
    CASE quest[r] \in {"none", "running"} -> quest[r]
      [] quest[r] = "failure" -> "failed"
      [] OTHER -> "done"

E == INSTANCE Executor WITH
        Agent <- Server,
        stage <- [r \in Request |-> Stage(r)],
        task  <- [r \in Request |-> TaskOf(r)]

\* The agents do what their callers may rely on (Executor): one request at a time whatever
\* the order of flag and lock, its quest posted once and never after the agent has let go of
\* it, no success without a result, and a reply to every request that queues on the lock,
\* though neither the gateway nor the MCP server may ever be done.
Executes == E!Spec

=============================================================================
