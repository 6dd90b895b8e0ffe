--------------------------- MODULE SubAgentProofs ---------------------------
(* Theorems about SubAgent, for any number of requests and nodes, any catalogue of *)
(* task types, any answers of the models and any timeouts.                         *)
EXTENDS SubAgent, TLAPS

Here(r) == at[home[r]][r]

Answer(r) == reply[home[r]][r]

Working == {"save", "plan", "ask", "choose", "start", "run", "word"}

\* Where a request is, and what has been said of it.
Placed(r) ==
    /\ pc[r] \in Working <=> Here(r) = "busy"
    /\ Here(r) \in {"away", "passed", "locked", "busy"} => Answer(r) = "none"
    /\ Here(r) \in {"leaving", "released"} => Answer(r) \in {"error", "answer"}

\* The call of the run tool: the server is there while the agent waits for it, and what it
\* has written is what it has made of the quest.
CallOf(r) ==
    /\ server[r] # "none" <=> pc[r] = "run"
    /\ server[r] = "none" => age[r] = 0
    /\ quest[r] # "none" => pc[r] \in {"run", "word"} \/ Answer(r) \in {"error", "answer"}
    /\ server[r] = "started" => quest[r] = "none"
    /\ server[r] = "posted" => quest[r] = "running"
    /\ server[r] \in {"written", "exited"} =>
        /\ quest[r] # "running"
        /\ output[r] = IF quest[r] = "none" THEN "isError"
                       ELSE Written(home[r] = "segmentation", quest[r])
    /\ pc[r] = "word" =>
        /\ quest[r] \in GatewayAnswer \ {"failure"}
        /\ output[r] = Written(home[r] = "segmentation", quest[r])

\* The properties of a request that has been answered.
ReachesClient(r) ==
    /\ \/ quest[r] = "result"
       \/ quest[r] = "other" /\ home[r] \in {"text", "segmentation"}
       \/ quest[r] = "binary" /\ home[r] = "segmentation"
    /\ Answer(r) = "error"
    => CallLost(r)

EndOf(r) ==
    /\ quest[r] = "running" /\ Answer(r) # "none" => CallLost(r)
    /\ Answer(r) = "answer" => quest[r] \in GatewayAnswer \ {"failure"}
    /\ ReachesClient(r)

\* The board agent's file, from its creation to the finally clause.
FileOf(r) ==
    home[r] = "board" =>
        /\ pc[r] \in Working \ {"save"} => file[r] = "kept"
        /\ Here(r) \in {"away", "passed", "locked"} \/ pc[r] = "save" => file[r] = "none"
        /\ Here(r) \in {"released", "gone"} => file[r] # "kept"
        /\ file[r] = "leaked" => cause[r] = "save"

RequestInv(r) == Placed(r) /\ CallOf(r) /\ EndOf(r) /\ FileOf(r)

IInv == TypeOK /\ \A r \in Request : RequestInv(r)

-----------------------------------------------------------------------------
(* What a step leaves alone *)

\* Nothing of q has changed.
Same(q) ==
    /\ Here(q)' = Here(q) /\ Answer(q)' = Answer(q)
    /\ home'[q] = home[q] /\ pc'[q] = pc[q] /\ file'[q] = file[q] /\ cause'[q] = cause[q]
    /\ server'[q] = server[q] /\ age'[q] = age[q] /\ output'[q] = output[q] /\ quest'[q] = quest[q]

Local(r) == Receive(r) \/ HandlerStep(r) \/ RunServer(r) \/ AnswerQuest(r)

LEMMA SameKeepsInv == ASSUME NEW q \in Request, RequestInv(q), Same(q) PROVE RequestInv(q)'
<1>1. Placed(q)'
  BY DEF RequestInv, Same, Placed
<1>2. CallOf(q)'
  BY DEF RequestInv, Same, CallOf
<1>3. EndOf(q)'
  BY DEF RequestInv, Same, EndOf, ReachesClient, CallLost
<1>4. FileOf(q)'
  BY DEF RequestInv, Same, FileOf
<1> QED BY <1>1, <1>2, <1>3, <1>4 DEF RequestInv

\* A move at the gate is its request's only.
GateMoved(r) ==
    \/ UNCHANGED gate
    \/ \E s \in Server, to \in Place :
        /\ at' = [at EXCEPT ![s][r] = to]
        /\ reply' = reply \/ \E v \in Answers : reply' = [reply EXCEPT ![s][r] = v]

LEMMA GateMoves == ASSUME TypeOK, NEW r \in Request, Local(r) PROVE GateMoved(r)
<1>0. GateTypeOK /\ home[r] \in Server
  BY DEF TypeOK
<1>1. ASSUME NEW v \in {"answer", "error"}, NEW why, Return(r, v, why) PROVE GateMoved(r)
  BY <1>0, <1>1 DEF Return, Leave, Move, GateMoved, GateTypeOK, Answers, Place, Open, Inside
<1>2. CASE Receive(r)
  BY <1>0, <1>2 DEF Receive, TurnAway, TurnAwayInvalid, Pass, Move, GateMoved, GateTypeOK, Answers, Place, Open, Inside
<1>3. CASE AcquireLock(r) \/ Begin(r)
  BY <1>0, <1>3 DEF AcquireLock, Begin, Acquire, RaiseFlag, Move, GateMoved, GateTypeOK, Place, Open, Inside
<1>4. CASE ReleaseLock(r) \/ ClearFlag(r)
  BY <1>0, <1>4 DEF ReleaseLock, ClearFlag, Release, LowerFlag, Move, GateMoved, GateTypeOK, Place, Open, Inside
<1>5. CASE RemoveFile(r) \/ StartTool(r) \/ RunServer(r) \/ AnswerQuest(r)
  BY <1>5 DEF RemoveFile, StartTool, RunServer, AnswerQuest, GateMoved
<1>6. CASE SaveUpload(r) \/ GetCandidates(r)
  BY <1>1, <1>6 DEF SaveUpload, GetCandidates, Raise, GateMoved
<1>7. CASE AskModel(r) \/ ChooseTarget(r)
  BY <1>1, <1>7 DEF AskModel, ChooseTarget, Raise, GateMoved
<1>8. CASE GiveUp(r) \/ CollectResult(r) \/ Word(r)
  BY <1>1, <1>8 DEF GiveUp, CollectResult, Word, Raise, GateMoved
<1> QED BY <1>2, <1>3, <1>4, <1>5, <1>6, <1>7, <1>8 DEF Local, HandlerStep

LEMMA OthersSame ==
    ASSUME TypeOK, NEW r \in Request, Local(r), NEW q \in Request, q # r
    PROVE  Same(q)
<1>0. GateTypeOK /\ MCPTypeOK /\ home \in [Request -> Server]
  BY DEF TypeOK
<1>1. UNCHANGED home
  BY DEF Local, HandlerStep, Receive, AcquireLock, Begin, RemoveFile, ReleaseLock, ClearFlag, SaveUpload,
     GetCandidates, AskModel, ChooseTarget, StartTool, GiveUp, CollectResult, Word, RunServer, AnswerQuest
<1>2. Here(q)' = Here(q) /\ Answer(q)' = Answer(q)
  <2>0. home[q] \in Server /\ home'[q] = home[q]
    BY <1>0, <1>1
  <2>1. CASE UNCHANGED gate
    BY <2>0, <2>1 DEF gate, Here, Answer
  <2>2. ASSUME NEW s \in Server, NEW to \in Place, at' = [at EXCEPT ![s][r] = to]
        PROVE  at'[home[q]][q] = at[home[q]][q]
    BY <1>0, <2>0, <2>2 DEF GateTypeOK
  <2>3. ASSUME NEW s \in Server, NEW v \in Answers, reply' = [reply EXCEPT ![s][r] = v]
        PROVE  reply'[home[q]][q] = reply[home[q]][q]
    BY <1>0, <2>0, <2>3 DEF GateTypeOK
  <2> QED BY <2>0, <2>1, <2>2, <2>3, GateMoves DEF GateMoved, Here, Answer
<1>3. ASSUME NEW v, NEW why, Return(r, v, why) PROVE pc'[q] = pc[q] /\ cause'[q] = cause[q]
  BY <1>3 DEF Return, Goto, TypeOK
<1>4. pc'[q] = pc[q] /\ cause'[q] = cause[q]
  <2>1. CASE Receive(r) \/ AcquireLock(r) \/ Begin(r) \/ RemoveFile(r) \/ ReleaseLock(r) \/ ClearFlag(r)
    BY <2>1 DEF Receive, AcquireLock, Begin, RemoveFile, ReleaseLock, ClearFlag, Goto, TypeOK
  <2>2. CASE StartTool(r) \/ RunServer(r) \/ AnswerQuest(r)
    BY <2>2 DEF StartTool, RunServer, AnswerQuest, Goto, TypeOK
  <2>3. CASE SaveUpload(r) \/ GetCandidates(r)
    BY <1>3, <2>3 DEF SaveUpload, GetCandidates, Raise, Goto, TypeOK
  <2>4. CASE AskModel(r) \/ ChooseTarget(r)
    BY <1>3, <2>4 DEF AskModel, ChooseTarget, Raise, Goto, TypeOK
  <2>5. CASE GiveUp(r) \/ CollectResult(r) \/ Word(r)
    BY <1>3, <2>5 DEF GiveUp, CollectResult, Word, Raise, Goto, TypeOK
  <2> QED BY <2>1, <2>2, <2>3, <2>4, <2>5 DEF Local, HandlerStep
<1>5. file'[q] = file[q]
  BY DEF Local, HandlerStep, Receive, AcquireLock, Begin, RemoveFile, ReleaseLock, ClearFlag, SaveUpload,
     GetCandidates, AskModel, ChooseTarget, StartTool, GiveUp, CollectResult, Word, RunServer, AnswerQuest,
     TypeOK
<1>6. server'[q] = server[q] /\ age'[q] = age[q] /\ output'[q] = output[q] /\ quest'[q] = quest[q]
  <2>1. CASE RunServer(r) \/ AnswerQuest(r)
    BY <1>0, <2>1 DEF RunServer, AnswerQuest, MCPStep, RejectCall, PostQuest, ServerDies, ServerExits,
       GatewayAnswers, Serve, Write, MCPTypeOK
  <2>2. CASE StartTool(r) \/ GiveUp(r) \/ CollectResult(r)
    BY <1>0, <2>2 DEF StartTool, GiveUp, CollectResult, StartServer, Kill, Collect, Serve, MCPTypeOK
  <2>3. CASE UNCHANGED call
    BY <2>3 DEF call
  <2> QED BY <2>1, <2>2, <2>3 DEF Local, HandlerStep, Receive, AcquireLock, Begin, RemoveFile, ReleaseLock,
           ClearFlag, SaveUpload, GetCandidates, AskModel, ChooseTarget, Word
<1> QED BY <1>1, <1>2, <1>4, <1>5, <1>6 DEF Same

-----------------------------------------------------------------------------
(* What a step does to its request *)

LEMMA Returns ==
    ASSUME TypeOK, NEW r \in Request, NEW v, NEW why, Return(r, v, why), UNCHANGED home
    PROVE  /\ Here(r) = "busy" /\ Here(r)' = "leaving" /\ Answer(r)' = v
           /\ pc'[r] = "idle" /\ cause'[r] = why
<1>0. GateTypeOK /\ home[r] \in Server
  BY DEF TypeOK
<1>1. Here(r) = "busy" /\ Here(r)' = "leaving" /\ Answer(r)' = v
  BY <1>0 DEF Return, Leave, Move, Here, Answer, GateTypeOK
<1> QED BY <1>1 DEF Return, Goto, TypeOK

\* Leaving the try block with no process behind.
LEMMA ReturnKeepsInv ==
    ASSUME TypeOK, NEW r \in Request, RequestInv(r), UNCHANGED <<home, quest>>,
           NEW v \in {"answer", "error"}, NEW why, Return(r, v, why),
           server'[r] = "none", age'[r] = 0,
           quest[r] = "running" => why \in {"timed out", "exited"},
           home[r] = "board" => file'[r] = file[r] \/ (file'[r] = "leaked" /\ why = "save"),
           v = "answer" => quest[r] \in GatewayAnswer \ {"failure"},
           v = "error" => \/ why \in {"timed out", "exited"}
                          \/ /\ quest[r] # "result"
                             /\ quest[r] = "other" => home[r] \notin {"text", "segmentation"}
                             /\ quest[r] = "binary" => home[r] # "segmentation"
    PROVE  RequestInv(r)'
<1>1. /\ Here(r) = "busy" /\ Here(r)' = "leaving" /\ Answer(r)' = v
      /\ pc'[r] = "idle" /\ cause'[r] = why /\ home' = home /\ quest' = quest
  BY Returns
<1>2. Placed(r)'
  BY <1>1 DEF Placed, Working
<1>3. CallOf(r)'
  BY <1>1 DEF CallOf
<1>4. EndOf(r)'
  BY <1>1 DEF EndOf, ReachesClient, CallLost
<1>5. FileOf(r)'
  BY <1>1 DEF FileOf, RequestInv, Placed, Working
<1> QED BY <1>2, <1>3, <1>4, <1>5 DEF RequestInv

\* The handler outside its try block.
LEMMA GateStepKeepsInv ==
    ASSUME TypeOK, NEW r \in Request, RequestInv(r),
           Receive(r) \/ AcquireLock(r) \/ Begin(r) \/ RemoveFile(r) \/ ReleaseLock(r) \/ ClearFlag(r)
    PROVE  RequestInv(r)'
<1>0. /\ GateTypeOK /\ MCPTypeOK /\ home[r] \in Server /\ pc[r] \in PC /\ file \in [Request -> {"none", "kept", "leaked"}]
      /\ UNCHANGED <<home, cause, call>>
  BY DEF TypeOK, Receive, AcquireLock, Begin, RemoveFile, ReleaseLock, ClearFlag
<1>1. CASE Receive(r)
  <2>1. /\ Here(r) = "away" /\ Here(r)' \in {"gone", "passed"} /\ UNCHANGED <<pc, file>>
        /\ Here(r)' = "passed" => Answer(r)' = Answer(r)
        /\ Here(r)' = "gone" => Answer(r)' \in {"refused", "invalid"}
    BY <1>0, <1>1 DEF Receive, TurnAway, TurnAwayInvalid, Pass, Move, Here, Answer, GateTypeOK
  <2>2. Answer(r) = "none" /\ pc[r] \notin Working /\ server[r] = "none" /\ quest[r] = "none" /\ (home[r] = "board" => file[r] = "none")
    BY <1>0, <2>1 DEF RequestInv, Placed, CallOf, FileOf, Working
  <2> QED BY <1>0, <2>1, <2>2 DEF RequestInv, Placed, CallOf, EndOf, ReachesClient, FileOf, Working, call
<1>2. CASE AcquireLock(r) \/ ClearFlag(r)
  <2>1. /\ \/ Here(r) = "passed" /\ Here(r)' = "locked"
           \/ Here(r) = "released" /\ Here(r)' = "gone"
        /\ Answer(r)' = Answer(r) /\ UNCHANGED <<pc, file>>
    BY <1>0, <1>2 DEF AcquireLock, ClearFlag, Acquire, LowerFlag, Move, Here, Answer, GateTypeOK
  <2> QED BY <1>0, <2>1 DEF RequestInv, Placed, CallOf, EndOf, ReachesClient, CallLost, FileOf, Working, call
<1>3. CASE Begin(r)
  <2>1. /\ Here(r) = "locked" /\ Here(r)' = "busy" /\ Answer(r)' = Answer(r) /\ UNCHANGED file
        /\ pc'[r] = IF home[r] = "board" THEN "save" ELSE "plan"
    BY <1>0, <1>3 DEF Begin, RaiseFlag, Move, Goto, Here, Answer, GateTypeOK, TypeOK
  <2>2. Answer(r) = "none" /\ pc[r] \notin Working /\ server[r] = "none" /\ quest[r] = "none" /\ (home[r] = "board" => file[r] = "none")
    BY <1>0, <2>1 DEF RequestInv, Placed, CallOf, FileOf, Working
  <2> QED BY <1>0, <2>1, <2>2 DEF RequestInv, Placed, CallOf, EndOf, ReachesClient, FileOf, Working, call
<1>4. CASE RemoveFile(r)
  <2>1. Here(r) = "leaving" /\ Here(r)' = Here(r) /\ Answer(r)' = Answer(r) /\ UNCHANGED pc /\ file'[r] = "none"
    BY <1>0, <1>4 DEF RemoveFile, Here, Answer, gate
  <2> QED BY <1>0, <2>1 DEF RequestInv, Placed, CallOf, EndOf, ReachesClient, CallLost, FileOf, Working, call
<1>5. CASE ReleaseLock(r)
  <2>1. /\ Here(r) = "leaving" /\ Here(r)' = "released" /\ file[r] # "kept"
        /\ Answer(r)' = Answer(r) /\ UNCHANGED <<pc, file>>
    BY <1>0, <1>5 DEF ReleaseLock, Release, Move, Here, Answer, GateTypeOK
  <2> QED BY <1>0, <2>1 DEF RequestInv, Placed, CallOf, EndOf, ReachesClient, CallLost, FileOf, Working, call
<1> QED BY <1>1, <1>2, <1>3, <1>4, <1>5

\* A step of the try block that stays in it and leaves the call alone.
LEMMA GoesOn ==
    ASSUME TypeOK, NEW r \in Request, RequestInv(r), UNCHANGED <<gate, home, cause, call>>,
           pc[r] \in Working \ {"run", "word"}, NEW label \in Working \ {"save", "run", "word"}, Goto(r, label),
           home[r] = "board" => file'[r] = "kept"
    PROVE  RequestInv(r)'
<1>1. /\ Here(r)' = Here(r) /\ Answer(r)' = Answer(r) /\ pc'[r] = label /\ UNCHANGED <<home, cause, call>>
      /\ Here(r) = "busy" /\ Answer(r) = "none"
  BY DEF gate, Here, Answer, Goto, TypeOK, RequestInv, Placed
<1>2. Placed(r)' /\ CallOf(r)'
  BY <1>1 DEF RequestInv, Placed, CallOf, Working, call
<1>3. EndOf(r)' /\ FileOf(r)'
  BY <1>1 DEF RequestInv, EndOf, ReachesClient, FileOf, Working, call
<1> QED BY <1>2, <1>3 DEF RequestInv

LEMMA ChoiceKeepsInv ==
    ASSUME TypeOK, NEW r \in Request, RequestInv(r),
           SaveUpload(r) \/ GetCandidates(r) \/ AskModel(r) \/ ChooseTarget(r)
    PROVE  RequestInv(r)'
<1>0. /\ UNCHANGED <<home, call>> /\ pc[r] \in Working \ {"run", "word"}
      /\ file \in [Request -> {"none", "kept", "leaked"}]
  BY DEF SaveUpload, GetCandidates, AskModel, ChooseTarget, Working, TypeOK
<1>1. server[r] = "none" /\ age[r] = 0 /\ quest[r] = "none"
  <2>1. Here(r) = "busy" /\ Answer(r) = "none"
    BY <1>0 DEF RequestInv, Placed
  <2> QED BY <1>0, <2>1 DEF RequestInv, CallOf, Working
<1>2. ASSUME NEW why, Raise(r, why), home[r] = "board" => file'[r] = file[r] \/ (file'[r] = "leaked" /\ why = "save")
      PROVE  RequestInv(r)'
  BY <1>0, <1>1, <1>2, ReturnKeepsInv DEF Raise, call
<1>3. pc[r] # "save" => (home[r] = "board" => file[r] = "kept")
  BY <1>0 DEF RequestInv, FileOf
<1>4. CASE SaveUpload(r)
  <2>1. CASE Goto(r, "plan") /\ file' = [file EXCEPT ![r] = "kept"] /\ UNCHANGED <<gate, chosen, cause>>
    BY <1>0, <2>1, GoesOn DEF Working
  <2>2. CASE Raise(r, "save") /\ file' \in {file, [file EXCEPT ![r] = "leaked"]}
    BY <1>0, <1>2, <2>2
  <2> QED BY <1>4, <2>1, <2>2 DEF SaveUpload
<1>5. CASE GetCandidates(r)
  <2>0. UNCHANGED file /\ pc[r] # "save"
    BY <1>5 DEF GetCandidates
  <2>1. CASE Raise(r, "plan")
    BY <1>2, <2>0, <2>1
  <2>2. CASE (Goto(r, "start") \/ Goto(r, "ask")) /\ UNCHANGED <<gate, said, cause>>
    BY <1>0, <1>3, <2>0, <2>2, GoesOn DEF Working
  <2> QED BY <1>5, <2>1, <2>2 DEF GetCandidates
<1>6. CASE AskModel(r)
  <2>0. UNCHANGED file /\ pc[r] # "save"
    BY <1>6 DEF AskModel
  <2>1. CASE Raise(r, "ask")
    BY <1>2, <2>0, <2>1
  <2>2. CASE Goto(r, "choose") /\ UNCHANGED <<gate, load, choice, cause>>
    BY <1>0, <1>3, <2>0, <2>2, GoesOn DEF Working
  <2> QED BY <1>6, <2>1, <2>2 DEF AskModel
<1>7. CASE ChooseTarget(r)
  <2>0. UNCHANGED file /\ pc[r] # "save"
    BY <1>7 DEF ChooseTarget
  <2>1. CASE Raise(r, "choose")
    BY <1>2, <2>0, <2>1
  <2>2. CASE Goto(r, "start") /\ UNCHANGED <<gate, cause>>
    BY <1>0, <1>3, <2>0, <2>2, GoesOn DEF Working
  <2> QED BY <1>7, <2>1, <2>2 DEF ChooseTarget
<1> QED BY <1>4, <1>5, <1>6, <1>7

LEMMA CallKeepsInv ==
    ASSUME TypeOK, NEW r \in Request, RequestInv(r),
           StartTool(r) \/ GiveUp(r) \/ CollectResult(r) \/ Word(r)
    PROVE  RequestInv(r)'
<1>0. /\ MCPTypeOK /\ UNCHANGED <<home, file, quest>> /\ home[r] \in Server
  BY DEF StartTool, StartServer, GiveUp, Kill, CollectResult, Collect, Word, call, TypeOK
<1>1. ASSUME pc[r] \in Working PROVE Here(r) = "busy" /\ Answer(r) = "none"
  BY <1>1 DEF RequestInv, Placed
<1>2. CASE StartTool(r)
  <2>1. /\ pc[r] = "start" /\ pc'[r] = "run" /\ server[r] = "none" /\ server'[r] = "started"
        /\ age' = age /\ output' = output /\ Here(r)' = Here(r) /\ Answer(r)' = Answer(r) /\ cause' = cause
    BY <1>0, <1>2 DEF StartTool, StartServer, Serve, Goto, gate, Here, Answer, TypeOK, MCPTypeOK
  <2>2. quest[r] = "none"
    BY <1>1, <2>1 DEF RequestInv, CallOf, Working
  <2>3. Placed(r)' /\ CallOf(r)'
    BY <1>0, <1>1, <2>1, <2>2 DEF RequestInv, Placed, CallOf, Working
  <2>4. EndOf(r)' /\ FileOf(r)'
    BY <1>0, <1>1, <2>1, <2>2 DEF RequestInv, EndOf, ReachesClient, FileOf, Working
  <2> QED BY <2>3, <2>4 DEF RequestInv
<1>3. CASE GiveUp(r)
  <2>1. Return(r, "error", "timed out") /\ server'[r] = "none" /\ age'[r] = 0
    BY <1>0, <1>3 DEF GiveUp, Raise, Kill, MCPTypeOK
  <2> QED BY <1>0, <2>1, ReturnKeepsInv
<1>4. CASE CollectResult(r)
  <2>0. server'[r] = "none" /\ age'[r] = 0 /\ server[r] \in {"exited", "died"} /\ pc[r] = "run" /\ output' = output
    BY <1>0, <1>4 DEF CollectResult, Collect, MCPTypeOK
  <2>1. server[r] = "exited" =>
            /\ quest[r] # "running"
            /\ output[r] = IF quest[r] = "none" THEN "isError" ELSE Written(home[r] = "segmentation", quest[r])
    BY <2>0 DEF RequestInv, CallOf
  <2>2. CASE Raise(r, "exited")
    BY <1>0, <2>0, <2>2, ReturnKeepsInv DEF Raise
  <2>3. ASSUME NEW why, Raise(r, why), server[r] = "exited", output[r] \in {"isError", "broken"} PROVE RequestInv(r)'
    <3>1. /\ quest[r] # "result"
          /\ quest[r] = "other" => home[r] \notin {"text", "segmentation"}
          /\ quest[r] = "binary" => home[r] # "segmentation"
      BY <2>1, <2>3 DEF Written
    <3> QED BY <1>0, <2>0, <2>1, <2>3, <3>1, ReturnKeepsInv DEF Raise
  <2>4. ASSUME Goto(r, "word"), UNCHANGED <<gate, chosen, cause>>, server[r] = "exited", output[r] # "isError"
        PROVE  RequestInv(r)'
    <3>1. /\ pc'[r] = "word" /\ Here(r)' = Here(r) /\ Answer(r)' = Answer(r) /\ cause' = cause
          /\ Here(r) = "busy" /\ Answer(r) = "none"
      BY <1>0, <1>1, <2>0, <2>4 DEF Goto, gate, Here, Answer, TypeOK, Working
    <3>2. quest[r] \in GatewayAnswer \ {"failure"} /\ output[r] = Written(home[r] = "segmentation", quest[r])
      BY <1>0, <2>1, <2>4 DEF MCPTypeOK, Written
    <3>3. Placed(r)' /\ CallOf(r)'
      BY <1>0, <2>0, <3>1, <3>2 DEF RequestInv, Placed, CallOf, Working
    <3>4. EndOf(r)' /\ FileOf(r)'
      BY <1>0, <2>0, <3>1 DEF RequestInv, EndOf, ReachesClient, FileOf, Working
    <3> QED BY <3>3, <3>4 DEF RequestInv
  <2> QED BY <1>4, <2>0, <2>2, <2>3, <2>4 DEF CollectResult
<1>5. CASE Word(r)
  <2>0. /\ pc[r] = "word" /\ UNCHANGED call
    BY <1>5 DEF Word
  <2>1. /\ server[r] = "none" /\ age[r] = 0 /\ quest[r] \in GatewayAnswer \ {"failure"}
        /\ output[r] = Written(home[r] = "segmentation", quest[r])
    BY <2>0 DEF RequestInv, CallOf
  <2>2. CASE Return(r, "answer", "none")
    BY <1>0, <2>0, <2>1, <2>2, ReturnKeepsInv DEF GatewayAnswer, call
  <2>3. CASE NeedsModel(r) /\ Raise(r, "word")
    <3>1. home[r] \notin {"text", "segmentation"} /\ output[r] = "other"
      BY <2>3 DEF NeedsModel, Tools
    <3>2. quest[r] # "result" /\ quest[r] # "running"
      BY <2>1, <3>1 DEF Written, GatewayAnswer
    <3> QED BY <1>0, <2>0, <2>1, <2>3, <3>1, <3>2, ReturnKeepsInv DEF Raise, call
  <2> QED BY <1>5, <2>2, <2>3 DEF Word
<1> QED BY <1>2, <1>3, <1>4, <1>5

LEMMA ServerKeepsInv ==
    ASSUME TypeOK, NEW r \in Request, RequestInv(r), RunServer(r) \/ AnswerQuest(r)
    PROVE  RequestInv(r)'
<1>0. MCPTypeOK /\ UNCHANGED <<home, pc, file, cause, age>> /\ Here(r)' = Here(r) /\ Answer(r)' = Answer(r)
  BY DEF RunServer, AnswerQuest, MCPStep, RejectCall, PostQuest, ServerDies, ServerExits, GatewayAnswers,
     TypeOK, gate, Here, Answer
<1>1. Placed(r)' /\ FileOf(r)'
  BY <1>0 DEF RequestInv, Placed, FileOf
<1>2. CASE RunServer(r)
  <2>1. server[r] \in {"started", "posted", "written"} /\ pc[r] = "run" /\ Answer(r) = "none"
    <3>1. server[r] \in {"started", "posted", "written"}
      BY <1>2 DEF RunServer, MCPStep, RejectCall, PostQuest, ServerDies, ServerExits, Serve
    <3>2. pc[r] = "run"
      BY <3>1 DEF RequestInv, CallOf
    <3> QED BY <3>1, <3>2 DEF RequestInv, Placed, Working
  <2>2. CallOf(r)'
    <3>1. CASE RejectCall(r)
      BY <1>0, <2>1, <3>1 DEF RejectCall, Serve, Write, RequestInv, CallOf, MCPTypeOK
    <3>2. CASE PostQuest(r)
      BY <1>0, <2>1, <3>2 DEF PostQuest, Serve, RequestInv, CallOf, MCPTypeOK
    <3>3. CASE ServerDies(r) \/ ServerExits(r)
      BY <1>0, <2>1, <3>3 DEF ServerDies, ServerExits, Serve, RequestInv, CallOf, MCPTypeOK
    <3> QED BY <1>2, <3>1, <3>2, <3>3 DEF RunServer, MCPStep
  <2>3. EndOf(r)'
    BY <1>0, <2>1 DEF EndOf, ReachesClient
  <2> QED BY <1>1, <2>2, <2>3 DEF RequestInv
<1>3. CASE AnswerQuest(r)
  <2>0. PICK a \in GatewayAnswer : GatewayAnswers(r, a, home[r] = "segmentation")
    BY <1>3 DEF AnswerQuest
  <2>1. quest[r] = "running" /\ quest'[r] = a /\ a \notin {"none", "running"}
    BY <1>0, <2>0 DEF GatewayAnswers, MCPTypeOK, GatewayAnswer
  <2>2. \/ /\ server[r] = "posted" /\ server'[r] = "written"
           /\ output'[r] = Written(home[r] = "segmentation", a)
        \/ server[r] = "posted" /\ server'[r] = "died"
        \/ server[r] # "posted" /\ server'[r] = server[r] /\ output'[r] = output[r]
    BY <1>0, <2>0 DEF GatewayAnswers, Serve, Write, MCPTypeOK
  <2>3. server[r] \in {"none", "posted", "died"} /\ pc[r] # "word"
    BY <1>0, <2>1 DEF RequestInv, CallOf, MCPTypeOK, ServerState, GatewayAnswer
  <2>4. CallOf(r)'
    BY <1>0, <2>1, <2>2, <2>3 DEF RequestInv, CallOf
  <2>5. EndOf(r)'
    BY <1>0, <2>1 DEF RequestInv, EndOf, ReachesClient, CallLost, GatewayAnswer
  <2> QED BY <1>1, <2>4, <2>5 DEF RequestInv
<1> QED BY <1>2, <1>3

-----------------------------------------------------------------------------
(* Types *)

LEMMA NoSnapshot == <<>> \in Snapshot
<1>1. <<>> = [n \in {} |-> {}]
  OBVIOUS
<1>2. [n \in {} |-> {}] \in [{} -> Load]
  OBVIOUS
<1> QED BY <1>1, <1>2 DEF Snapshot

LEMMA Selection ==
    ASSUME TypeOK, NEW r \in Request, NEW named, NEW p \in Selected(r, named)
    PROVE  p \in Tools[home[r]] \X Node
<1>1. DOMAIN load[r] \subseteq Node
  BY DEF TypeOK, Snapshot
<1>2. Candidates(r) \subseteq Tools[home[r]] \X Node
  BY <1>1 DEF Candidates, Offered
<1>3. Fallback(r) \subseteq Candidates(r)
  BY DEF Fallback, ImageFallback, AscendFallback, SegmentationFallback, Detectors, Classifiers, Fastest, LeastLoaded
<1> QED BY <1>2, <1>3 DEF Selected

LEMMA StepGateTypes == ASSUME TypeOK, Next PROVE GateTypeOK'
<1>0. GateTypeOK /\ home \in [Request -> Server]
  BY DEF TypeOK
<1>1. ASSUME UNCHANGED gate PROVE GateTypeOK'
  BY <1>0, <1>1 DEF gate, GateTypeOK
<1>2. ASSUME NEW r \in Request, NEW from, NEW to \in Place, Move(home[r], r, from, to)
      PROVE  at' \in [Server -> [Request -> Place]]
  BY <1>0, <1>2 DEF GateTypeOK, Move
<1>3. ASSUME NEW r \in Request, NEW v \in Answers, reply' = [reply EXCEPT ![home[r]][r] = v]
      PROVE  reply' \in [Server -> [Request -> Answers]]
  BY <1>0, <1>3 DEF GateTypeOK
<1>4. ASSUME NEW r \in Request, NEW v \in {"answer", "error"}, NEW why, Return(r, v, why) PROVE GateTypeOK'
  BY <1>0, <1>2, <1>3, <1>4 DEF Return, Leave, GateTypeOK, Answers, Place, Open, Inside
<1>5. ASSUME NEW r \in Request,
             Receive(r) \/ AcquireLock(r) \/ Begin(r) \/ ReleaseLock(r) \/ ClearFlag(r)
      PROVE  GateTypeOK'
  <2>1. CASE Receive(r)
    BY <1>0, <1>2, <1>3, <2>1 DEF Receive, TurnAway, TurnAwayInvalid, Pass, GateTypeOK, Answers, Place, Open
  <2>2. CASE AcquireLock(r)
    BY <1>0, <1>2, <2>2 DEF AcquireLock, Acquire, GateTypeOK, Place, Open, Inside
  <2>3. CASE Begin(r)
    BY <1>0, <1>2, <2>3 DEF Begin, RaiseFlag, GateTypeOK, Place, Open, Inside
  <2>4. CASE ReleaseLock(r)
    BY <1>0, <1>2, <2>4 DEF ReleaseLock, Release, GateTypeOK, Place, Open
  <2>5. CASE ClearFlag(r)
    BY <1>0, <1>2, <2>5 DEF ClearFlag, LowerFlag, GateTypeOK, Place
  <2> QED BY <1>5, <2>1, <2>2, <2>3, <2>4, <2>5
<1>6. ASSUME NEW r \in Request, RemoveFile(r) \/ StartTool(r) \/ RunServer(r) \/ AnswerQuest(r) PROVE GateTypeOK'
  BY <1>1, <1>6 DEF RemoveFile, StartTool, RunServer, AnswerQuest
<1>7. ASSUME NEW r \in Request, SaveUpload(r) \/ GetCandidates(r) \/ AskModel(r) PROVE GateTypeOK'
  BY <1>1, <1>4, <1>7 DEF SaveUpload, GetCandidates, AskModel, Raise
<1>8. ASSUME NEW r \in Request, ChooseTarget(r) \/ GiveUp(r) \/ CollectResult(r) \/ Word(r) PROVE GateTypeOK'
  BY <1>1, <1>4, <1>8 DEF ChooseTarget, GiveUp, CollectResult, Word, Raise
<1>9. CASE Tick
  BY <1>1, <1>9 DEF Tick
<1> QED BY <1>5, <1>6, <1>7, <1>8, <1>9 DEF Next, HandlerStep

LEMMA StepCallTypes == ASSUME TypeOK, Next PROVE MCPTypeOK'
<1>0. MCPTypeOK
  BY DEF TypeOK
<1>1. CASE UNCHANGED call
  BY <1>0, <1>1 DEF call, MCPTypeOK
<1>2. ASSUME NEW r \in Request, RunServer(r) PROVE MCPTypeOK'
  BY <1>0, <1>2 DEF RunServer, MCPStep, RejectCall, PostQuest, ServerDies, ServerExits, Serve, Write,
     MCPTypeOK, ServerState, Output
<1>3. ASSUME NEW r \in Request, AnswerQuest(r) PROVE MCPTypeOK'
  <2>1. PICK a \in GatewayAnswer : GatewayAnswers(r, a, home[r] = "segmentation")
    BY <1>3 DEF AnswerQuest
  <2>2. Written(home[r] = "segmentation", a) \in Output
    BY DEF Written, Output, GatewayAnswer
  <2> QED BY <1>0, <2>1, <2>2 DEF GatewayAnswers, Serve, Write, MCPTypeOK, ServerState
<1>4. ASSUME NEW r \in Request, StartTool(r) \/ GiveUp(r) \/ CollectResult(r) PROVE MCPTypeOK'
  <2>1. CASE StartTool(r)
    BY <1>0, <2>1 DEF StartTool, StartServer, Serve, MCPTypeOK, ServerState
  <2>2. CASE GiveUp(r)
    BY <1>0, <2>2 DEF GiveUp, Kill, MCPTypeOK, ServerState, Output
  <2>3. CASE CollectResult(r)
    BY <1>0, <2>3 DEF CollectResult, Collect, MCPTypeOK, ServerState
  <2> QED BY <1>4, <2>1, <2>2, <2>3
<1>5. CASE Tick
  BY <1>0, <1>5 DEF Tick, MCPTypeOK
<1> QED BY <1>1, <1>2, <1>3, <1>4, <1>5 DEF Next, HandlerStep, Receive, AcquireLock, Begin, RemoveFile,
        ReleaseLock, ClearFlag, SaveUpload, GetCandidates, AskModel, ChooseTarget, Word

LEMMA StepTypes ==
    ASSUME TypeOK, Next
    PROVE  /\ home' = home /\ wants' = wants /\ pc' \in [Request -> PC] /\ cause' \in [Request -> Cause]
           /\ file' \in [Request -> {"none", "kept", "leaked"}]
<1>0. /\ pc \in [Request -> PC] /\ cause \in [Request -> Cause]
      /\ file \in [Request -> {"none", "kept", "leaked"}]
  BY DEF TypeOK
<1>1. home' = home /\ wants' = wants
  BY DEF Next, HandlerStep, Receive, AcquireLock, Begin, RemoveFile, ReleaseLock, ClearFlag, SaveUpload,
     GetCandidates, AskModel, ChooseTarget, StartTool, GiveUp, CollectResult, Word, RunServer, AnswerQuest, Tick
<1>2. file' \in [Request -> {"none", "kept", "leaked"}]
  BY <1>0 DEF Next, HandlerStep, Receive, AcquireLock, Begin, RemoveFile, ReleaseLock, ClearFlag, SaveUpload,
     GetCandidates, AskModel, ChooseTarget, StartTool, GiveUp, CollectResult, Word, RunServer, AnswerQuest, Tick
<1>3. ASSUME NEW r \in Request, NEW v, NEW why \in Cause, Return(r, v, why)
      PROVE  pc' \in [Request -> PC] /\ cause' \in [Request -> Cause]
  BY <1>0, <1>3 DEF Return, Goto, PC
<1>4. pc' \in [Request -> PC] /\ cause' \in [Request -> Cause]
  <2>1. ASSUME NEW r \in Request,
               Receive(r) \/ AcquireLock(r) \/ Begin(r) \/ RemoveFile(r) \/ ReleaseLock(r) \/ ClearFlag(r)
        PROVE  pc' \in [Request -> PC] /\ cause' \in [Request -> Cause]
    BY <1>0, <2>1 DEF Receive, AcquireLock, Begin, RemoveFile, ReleaseLock, ClearFlag, Goto, PC
  <2>2. ASSUME NEW r \in Request, StartTool(r) \/ RunServer(r) \/ AnswerQuest(r)
        PROVE  pc' \in [Request -> PC] /\ cause' \in [Request -> Cause]
    BY <1>0, <2>2 DEF StartTool, RunServer, AnswerQuest, Goto, PC
  <2>3. ASSUME NEW r \in Request, SaveUpload(r) \/ GetCandidates(r)
        PROVE  pc' \in [Request -> PC] /\ cause' \in [Request -> Cause]
    BY <1>0, <1>3, <2>3 DEF SaveUpload, GetCandidates, Raise, Goto, PC, Cause
  <2>4. ASSUME NEW r \in Request, AskModel(r) \/ ChooseTarget(r)
        PROVE  pc' \in [Request -> PC] /\ cause' \in [Request -> Cause]
    BY <1>0, <1>3, <2>4 DEF AskModel, ChooseTarget, Raise, Goto, PC, Cause
  <2>5. ASSUME NEW r \in Request, GiveUp(r) \/ CollectResult(r) \/ Word(r)
        PROVE  pc' \in [Request -> PC] /\ cause' \in [Request -> Cause]
    BY <1>0, <1>3, <2>5 DEF GiveUp, CollectResult, Word, Raise, Goto, PC, Cause
  <2>6. CASE Tick
    BY <1>0, <2>6 DEF Tick
  <2> QED BY <2>1, <2>2, <2>3, <2>4, <2>5, <2>6 DEF Next, HandlerStep
<1> QED BY <1>1, <1>2, <1>4

ChoiceTypes ==
    /\ load \in [Request -> Snapshot]
    /\ said \in [Request -> Text \union {<<>>}]
    /\ choice \in [Request -> {NoChoice} \union Pair]
    /\ \A r \in Request : choice[r] \in {NoChoice} \union (Tools[home[r]] \X Node)

LEMMA StepChoiceTypes == ASSUME TypeOK, Next PROVE ChoiceTypes'
<1>0. ChoiceTypes /\ home' = home /\ home \in [Request -> Server]
  BY StepTypes DEF TypeOK, ChoiceTypes
<1>1. ASSUME UNCHANGED chosen PROVE ChoiceTypes'
  BY <1>0, <1>1 DEF chosen, ChoiceTypes
<1>2. ASSUME NEW r \in Request, NEW v, NEW why, Return(r, v, why) PROVE ChoiceTypes'
  BY <1>0, <1>2, NoSnapshot DEF Return, ChoiceTypes
<1>3. ASSUME NEW r \in Request, NEW p \in Tools[home[r]] \X Node, choice' = [choice EXCEPT ![r] = p]
      PROVE  /\ choice' \in [Request -> {NoChoice} \union Pair]
             /\ \A q \in Request : choice'[q] \in {NoChoice} \union (Tools[home'[q]] \X Node)
  <2>1. home[r] \in DOMAIN Tools
    BY <1>0, ServerAssumption
  <2>2. p \in Pair
    BY <2>1 DEF Tools, Pair, Task, ImageTask
  <2> QED BY <1>0, <1>3, <2>2 DEF ChoiceTypes
<1>4. ASSUME NEW r \in Request, SaveUpload(r) PROVE ChoiceTypes'
  BY <1>1, <1>2, <1>4 DEF SaveUpload, Raise
<1>5. ASSUME NEW r \in Request, GetCandidates(r) PROVE ChoiceTypes'
  <2>1. CASE Raise(r, "plan")
    BY <1>2, <2>1 DEF Raise
  <2>2. ASSUME NEW L \in Snapshot, load' = [load EXCEPT ![r] = L], UNCHANGED said,
               UNCHANGED choice \/ \E p \in Offered(r, L) : choice' = [choice EXCEPT ![r] = p]
        PROVE  ChoiceTypes'
    <3>1. Offered(r, L) \subseteq Tools[home[r]] \X Node
      BY DEF Offered, Snapshot
    <3> QED BY <1>0, <1>3, <2>2, <3>1 DEF ChoiceTypes
  <2> QED BY <1>5, <2>1, <2>2 DEF GetCandidates
<1>6. ASSUME NEW r \in Request, AskModel(r) PROVE ChoiceTypes'
  <2>1. CASE Raise(r, "ask")
    BY <1>2, <2>1 DEF Raise
  <2>2. ASSUME UNCHANGED said \/ \E t \in Text : said' = [said EXCEPT ![r] = t], UNCHANGED <<load, choice>>
        PROVE  ChoiceTypes'
    BY <1>0, <2>2 DEF ChoiceTypes
  <2> QED BY <1>6, <2>1, <2>2 DEF AskModel
<1>7. ASSUME NEW r \in Request, ChooseTarget(r) PROVE ChoiceTypes'
  <2>1. CASE Raise(r, "choose")
    BY <1>2, <2>1 DEF Raise
  <2>2. ASSUME NEW named, NEW p \in Selected(r, named), choice' = [choice EXCEPT ![r] = p],
               said' = [said EXCEPT ![r] = <<>>], load' = [load EXCEPT ![r] = <<>>]
        PROVE  ChoiceTypes'
    BY <1>0, <1>3, <2>2, NoSnapshot, Selection DEF ChoiceTypes
  <2> QED BY <1>7, <2>1, <2>2 DEF ChooseTarget
<1>8. ASSUME NEW r \in Request, GiveUp(r) \/ CollectResult(r) \/ Word(r) PROVE ChoiceTypes'
  BY <1>1, <1>2, <1>8 DEF GiveUp, CollectResult, Word, Raise
<1> QED BY <1>1, <1>4, <1>5, <1>6, <1>7, <1>8 DEF Next, HandlerStep, Receive, AcquireLock, Begin, RemoveFile,
        ReleaseLock, ClearFlag, StartTool, RunServer, AnswerQuest, Tick

\* Time stops for a running server at the limit of its call.
AgeLimits == \A r \in Request : Running(r) => age[r] <= CallLimit[home[r]]

LEMMA StepAges == ASSUME IInv, Next PROVE AgeLimits'
<1>0. /\ MCPTypeOK /\ AgeLimits /\ home' = home /\ \A r \in Request : CallLimit[home[r]] \in Nat
      /\ \A r \in Request : server[r] = "none" => age[r] = 0
  BY StepTypes, LimitAssumption DEF IInv, RequestInv, CallOf, TypeOK, AgeLimits
<1>1. CASE Tick
  BY <1>0, <1>1 DEF Tick, AgeLimits, Running, MCPTypeOK
<1>2. CASE UNCHANGED call
  BY <1>0, <1>2 DEF call, AgeLimits, Running
<1>3. ASSUME NEW r \in Request, RunServer(r) \/ AnswerQuest(r) PROVE AgeLimits'
  <2>1. age' = age /\ \A q \in Request : Running(q)' => Running(q)
    BY <1>0, <1>3 DEF RunServer, AnswerQuest, MCPStep, RejectCall, PostQuest, ServerDies, ServerExits,
       GatewayAnswers, Serve, Running, MCPTypeOK
  <2> QED BY <1>0, <2>1 DEF AgeLimits
<1>4. ASSUME NEW r \in Request, StartTool(r) PROVE AgeLimits'
  <2>1. age' = age /\ age[r] = 0 /\ \A q \in Request : q # r => server'[q] = server[q]
    BY <1>0, <1>4 DEF StartTool, StartServer, Serve, MCPTypeOK
  <2> QED BY <1>0, <2>1 DEF AgeLimits, Running
<1>5. ASSUME NEW r \in Request, GiveUp(r) \/ CollectResult(r) PROVE AgeLimits'
  <2>1. server'[r] = "none" /\ \A q \in Request : q # r => server'[q] = server[q] /\ age'[q] = age[q]
    BY <1>0, <1>5 DEF GiveUp, CollectResult, Kill, Collect, MCPTypeOK
  <2> QED BY <1>0, <2>1 DEF AgeLimits, Running
<1> QED BY <1>1, <1>2, <1>3, <1>4, <1>5 DEF Next, HandlerStep, Receive, AcquireLock, Begin, RemoveFile,
        ReleaseLock, ClearFlag, SaveUpload, GetCandidates, AskModel, ChooseTarget, Word

-----------------------------------------------------------------------------
(* The theorems *)

LEMMA InitInv == Init => IInv
<1> SUFFICES ASSUME Init PROVE IInv
  OBVIOUS
<1>1. GateTypeOK
  BY DEF Init, GateInit, GateTypeOK, Place, Answers
<1>2. MCPTypeOK
  BY DEF Init, MCPInit, MCPTypeOK, ServerState, Output
<1>3. TypeOK
  BY <1>1, <1>2, NoSnapshot DEF Init, MCPInit, TypeOK, PC, Cause, Running
<1>4. ASSUME NEW r \in Request PROVE RequestInv(r)
  <2>1. /\ Here(r) = "away" /\ Answer(r) = "none" /\ pc[r] = "idle" /\ file[r] = "none"
        /\ server[r] = "none" /\ age[r] = 0 /\ quest[r] = "none"
    BY DEF Init, GateInit, MCPInit, Here, Answer
  <2> QED BY <2>1 DEF RequestInv, Placed, CallOf, EndOf, ReachesClient, FileOf, Working
<1> QED BY <1>3, <1>4 DEF IInv

LEMMA StepInv == IInv /\ [Next]_vars => IInv'
<1> SUFFICES ASSUME IInv, [Next]_vars PROVE IInv'
  OBVIOUS
<1>0. TypeOK
  BY DEF IInv
<1>1. CASE UNCHANGED vars
  <2>1. TypeOK'
    BY <1>0, <1>1 DEF vars, gate, chosen, call, TypeOK, GateTypeOK, MCPTypeOK, Running
  <2>2. ASSUME NEW r \in Request PROVE Same(r)
    BY <1>1 DEF vars, gate, call, Same, Here, Answer
  <2> QED BY <2>1, <2>2, SameKeepsInv DEF IInv
<1>2. CASE Next
  <2>1. TypeOK'
    BY <1>0, <1>2, StepGateTypes, StepCallTypes, StepTypes, StepChoiceTypes, StepAges DEF TypeOK, ChoiceTypes, AgeLimits
  <2>2. CASE Tick
    <3>1. ASSUME NEW r \in Request
          PROVE  /\ Here(r)' = Here(r) /\ Answer(r)' = Answer(r)
                 /\ UNCHANGED <<home, pc, file, cause, server, output, quest>>
                 /\ server[r] = "none" => age'[r] = age[r]
      BY <1>0, <2>2 DEF Tick, gate, Here, Answer, Running, TypeOK, MCPTypeOK
    <3>2. ASSUME NEW r \in Request PROVE RequestInv(r)'
      <4>1. Placed(r)' /\ CallOf(r)'
        BY <3>1 DEF IInv, RequestInv, Placed, CallOf
      <4>2. EndOf(r)' /\ FileOf(r)'
        BY <3>1 DEF IInv, RequestInv, EndOf, ReachesClient, CallLost, FileOf
      <4> QED BY <4>1, <4>2 DEF RequestInv
    <3> QED BY <2>1, <3>2 DEF IInv
  <2>3. ASSUME NEW r \in Request, Local(r) PROVE IInv'
    <3>1. RequestInv(r)'
      BY <1>0, <2>3, GateStepKeepsInv, ChoiceKeepsInv, CallKeepsInv, ServerKeepsInv DEF Local, HandlerStep, IInv
    <3>2. ASSUME NEW q \in Request, q # r PROVE RequestInv(q)'
      BY <1>0, <2>3, <3>2, OthersSame, SameKeepsInv DEF IInv
    <3> QED BY <2>1, <3>1, <3>2 DEF IInv
  <2> QED BY <1>2, <2>2, <2>3 DEF Next, Local
<1> QED BY <1>1, <1>2

\* The inductive invariant: for every request, where it is, what its call has come to, and
\* what has become of its file.
THEOREM Invariant == Spec => []IInv
  BY InitInv, StepInv, PTL DEF Spec

\* Every variable keeps its type, whatever the models and the gateway answer: a pair is one
\* of the agent's own tools on a node, and no server outlives the timeout of its call.
THEOREM TypeCorrect == Spec => []TypeOK
<1>1. IInv => TypeOK
  BY DEF IInv
<1> QED BY <1>1, Invariant, PTL

\* A request whose quest still runs at the gateway has been answered only because the call was
\* lost: the agent gave its MCP server up, or the server died of a late or broken answer.
THEOREM StraysLost == Spec => []StrayQuestOnlyAfterLostCall
<1>1. IInv => StrayQuestOnlyAfterLostCall
  BY DEF IInv, RequestInv, EndOf, StrayQuestOnlyAfterLostCall, Answer
<1> QED BY <1>1, Invariant, PTL

\* What the gateway has computed is lost to the client only when the call was lost.
THEOREM ResultsReachClients == Spec => []ResultReachesClient
<1>1. IInv => ResultReachesClient
  BY DEF IInv, RequestInv, EndOf, ReachesClient, ResultReachesClient, Answer
<1> QED BY <1>1, Invariant, PTL

\* The board agent's temporary file is there while an MCP server may open it, and is left
\* behind only by an upload that could not be saved.
THEOREM FilesOutliveUse == Spec => []FileOutlivesUse
<1>1. ASSUME IInv, NEW r \in Request, home[r] = "board"
      PROVE  /\ server[r] = "started" => file[r] = "kept"
             /\ at["board"][r] = "gone" /\ file[r] # "none" => cause[r] = "save"
  BY <1>1 DEF IInv, TypeOK, RequestInv, CallOf, FileOf, Working, Here
<1>2. IInv => FileOutlivesUse
  BY <1>1 DEF FileOutlivesUse
<1> QED BY <1>2, Invariant, PTL

-----------------------------------------------------------------------------
(* Executor: an agent's lock keeps all but one of its requests outside, and what a request *)
(* shows of itself moves as there.                                                          *)

LockHeld == \A s \in Server, r \in Request : at[s][r] \in Inside => lock[s] = r

\* What a local step makes of the gate of the request's own agent.
OwnGate(r) ==
    \/ TurnAway(home[r], r) \/ TurnAwayInvalid(home[r], r) \/ Pass(home[r], r)
    \/ Acquire(home[r], r) \/ RaiseFlag(home[r], r)
    \/ \E v \in {"answer", "error"} : Leave(home[r], r, v)
    \/ Release(home[r], r) \/ LowerFlag(home[r], r)

\* The try block leaves the gate alone until it ends.
LEMMA OwnGates == ASSUME NEW r \in Request, Local(r) PROVE UNCHANGED gate \/ OwnGate(r)
<1>1. ASSUME NEW v \in {"answer", "error"}, NEW why, Return(r, v, why) PROVE OwnGate(r)
  BY <1>1 DEF Return, OwnGate
<1>2. CASE Receive(r) \/ AcquireLock(r) \/ Begin(r) \/ ReleaseLock(r) \/ ClearFlag(r)
  BY <1>2 DEF Receive, AcquireLock, Begin, ReleaseLock, ClearFlag, OwnGate
<1>3. CASE RemoveFile(r) \/ StartTool(r) \/ RunServer(r) \/ AnswerQuest(r)
  BY <1>3 DEF RemoveFile, StartTool, RunServer, AnswerQuest
<1>4. CASE SaveUpload(r) \/ GetCandidates(r) \/ AskModel(r) \/ ChooseTarget(r)
  BY <1>1, <1>4 DEF SaveUpload, GetCandidates, AskModel, ChooseTarget, Raise
<1>5. CASE GiveUp(r) \/ CollectResult(r) \/ Word(r)
  BY <1>1, <1>5 DEF GiveUp, CollectResult, Word, Raise
<1> QED BY <1>2, <1>3, <1>4, <1>5 DEF Local, HandlerStep

LEMMA StepLockHeld == ASSUME TypeOK, LockHeld, [Next]_vars PROVE LockHeld'
<1>0. GateTypeOK /\ home \in [Request -> Server] /\ Nobody \notin Request
  BY NobodyAssumption DEF TypeOK
<1>1. CASE UNCHANGED gate
  BY <1>1 DEF gate, LockHeld
<1>2. ASSUME NEW r \in Request, OwnGate(r) PROVE LockHeld'
  <2> DEFINE s == home[r]
  <2> SUFFICES ASSUME NEW t \in Server, NEW q \in Request, at'[t][q] \in Inside PROVE lock'[t] = q
    BY DEF LockHeld
  <2>0. /\ at[t][q] \in Inside => lock[t] = q
        /\ at[s][r] \in Inside => lock[s] = r
        /\ s \in Server
    BY <1>0 DEF LockHeld
  <2>1. ASSUME NEW l, at' = [at EXCEPT ![s][r] = l]
        PROVE  at'[s][r] = l /\ (t # s \/ q # r => at'[t][q] = at[t][q])
    BY <1>0, <2>1 DEF GateTypeOK
  <2>2. ASSUME NEW l, lock' = [lock EXCEPT ![s] = l] PROVE lock'[s] = l /\ (t # s => lock'[t] = lock[t])
    BY <1>0, <2>2 DEF GateTypeOK
  <2>3. CASE TurnAway(s, r) \/ TurnAwayInvalid(s, r) \/ Pass(s, r) \/ LowerFlag(s, r)
    BY <2>0, <2>1, <2>3 DEF TurnAway, TurnAwayInvalid, Pass, LowerFlag, Move, Inside
  <2>4. CASE RaiseFlag(s, r) \/ \E v \in {"answer", "error"} : Leave(s, r, v)
    BY <2>0, <2>1, <2>4 DEF RaiseFlag, Leave, Move, Inside
  <2>5. CASE Acquire(s, r)
    BY <1>0, <2>0, <2>1, <2>2, <2>5 DEF Acquire, Move, Inside
  <2>6. CASE Release(s, r)
    <3>1. at'[s][r] = "released" /\ lock[s] = r
      BY <2>0, <2>1, <2>6 DEF Release, Move, Inside
    <3>2. (t # s \/ q # r => at'[t][q] = at[t][q]) /\ (t # s => lock'[t] = lock[t])
      BY <2>1, <2>2, <2>6 DEF Release, Move
    <3> QED BY <2>0, <3>1, <3>2 DEF Inside
  <2> QED BY <1>2, <2>3, <2>4, <2>5, <2>6 DEF OwnGate
<1> QED BY <1>1, <1>2, OwnGates DEF Next, Local, Tick, vars

\* A step of r moves no other request's stage or task, and its own only as they say.
LEMMA OwnStages ==
    ASSUME TypeOK, NEW r \in Request, Local(r)
    PROVE  /\ home' = home
           /\ [q \in Request |-> Stage(q)]' = [[q \in Request |-> Stage(q)] EXCEPT ![r] = Stage(r)']
           /\ [q \in Request |-> TaskOf(q)]' = [[q \in Request |-> TaskOf(q)] EXCEPT ![r] = TaskOf(r)']
<1>1. home' = home
  BY DEF Local, HandlerStep, Receive, AcquireLock, Begin, RemoveFile, ReleaseLock, ClearFlag, SaveUpload,
     GetCandidates, AskModel, ChooseTarget, StartTool, GiveUp, CollectResult, Word, RunServer, AnswerQuest
<1>2. ASSUME NEW q \in Request, q # r PROVE Stage(q)' = Stage(q) /\ TaskOf(q)' = TaskOf(q)
  <2>1. Same(q)
    BY <1>2, OthersSame
  <2> QED BY <2>1 DEF Same, Stage, TaskOf, Here, Answer
<1> QED BY <1>1, <1>2

LEMMA Stutters ==
    ASSUME TypeOK, NEW r \in Request, Local(r), Stage(r)' = Stage(r), TaskOf(r)' = TaskOf(r)
    PROVE  UNCHANGED E!vars
<1>1. [q \in Request |-> Stage(q)]' = [q \in Request |-> Stage(q)]
  BY OwnStages
<1>2. [q \in Request |-> TaskOf(q)]' = [q \in Request |-> TaskOf(q)]
  BY OwnStages
<1> QED BY <1>1, <1>2, OwnStages DEF E!vars

LEMMA Advances ==
    ASSUME TypeOK, NEW r \in Request, Local(r), TaskOf(r)' = TaskOf(r),
           NEW from, Stage(r) = from, NEW to, Stage(r)' = to
    PROVE  E!Advance(r, from, to) /\ UNCHANGED <<home, [q \in Request |-> TaskOf(q)]>>
<1>1. [q \in Request |-> TaskOf(q)]' = [q \in Request |-> TaskOf(q)]
  BY OwnStages
<1> QED BY <1>1, OwnStages DEF E!Advance

\* The handler outside its try block is the abstract agent.
LEMMA GateStepExecutes ==
    ASSUME IInv, LockHeld, NEW r \in Request,
           Receive(r) \/ AcquireLock(r) \/ Begin(r) \/ RemoveFile(r) \/ ReleaseLock(r) \/ ClearFlag(r)
    PROVE  E!Next \/ UNCHANGED E!vars
<1>0. /\ TypeOK /\ GateTypeOK /\ home \in [Request -> Server] /\ home' = home /\ UNCHANGED call /\ Local(r)
      /\ RequestInv(r) /\ TaskOf(r)' = TaskOf(r)
  BY DEF IInv, TypeOK, Receive, AcquireLock, Begin, RemoveFile, ReleaseLock, ClearFlag, Local, HandlerStep,
     call, TaskOf
<1>1. CASE Receive(r)
  <2>1. /\ Here(r) = "away"
        /\ \/ Here(r)' = "passed"
           \/ Here(r)' = "gone" /\ Answer(r)' \in {"refused", "invalid"}
    BY <1>0, <1>1 DEF Receive, TurnAway, TurnAwayInvalid, Pass, Move, Here, Answer, GateTypeOK
  <2>2. Stage(r) = "away" /\ Stage(r)' \in {"refused", "invalid", "waiting"}
    BY <2>1 DEF Stage, Here, Answer, Inside
  <2> QED BY <1>0, <2>2, Advances DEF E!Next, E!Receive
<1>2. CASE AcquireLock(r)
  <2>1. Here(r) = "passed" /\ Here(r)' = "locked" /\ lock[home[r]] = Nobody
    BY <1>0, <1>2 DEF AcquireLock, Acquire, Move, Here, GateTypeOK
  <2>2. Stage(r) = "waiting" /\ Stage(r)' = "served"
    BY <2>1 DEF Stage, Here, Inside
  <2>3. ASSUME NEW q \in Request, home[q] = home[r] PROVE Stage(q) # "served"
    <3>1. at[home[q]][q] \notin Inside
      BY <1>0, <2>1, <2>3, NobodyAssumption DEF LockHeld
    <3>2. reply[home[q]][q] # "served"
      BY <1>0 DEF GateTypeOK, Answers
    <3> QED BY <3>1, <3>2 DEF Stage
  <2> QED BY <1>0, <2>2, <2>3, Advances DEF E!Next, E!Serve
<1>3. CASE Begin(r) \/ RemoveFile(r)
  <2>1. Here(r) \in Inside /\ Here(r)' \in Inside
    BY <1>0, <1>3 DEF Begin, RaiseFlag, RemoveFile, Move, Here, GateTypeOK, gate, Inside
  <2> QED BY <1>0, <2>1, Stutters DEF Stage, Here, Inside
<1>4. CASE ReleaseLock(r)
  <2>1. Here(r) = "leaving" /\ Here(r)' = "released"
    BY <1>0, <1>4 DEF ReleaseLock, Release, Move, Here, GateTypeOK
  <2>2. Stage(r) = "served" /\ Stage(r)' = "finished"
    BY <2>1 DEF Stage, Here, Inside
  <2> QED BY <1>0, <2>2, Advances DEF E!Next, E!Finish
<1>5. CASE ClearFlag(r)
  <2>1. Here(r) = "released" /\ Here(r)' = "gone" /\ Answer(r)' = Answer(r)
    BY <1>0, <1>5 DEF ClearFlag, LowerFlag, Move, Here, Answer, GateTypeOK
  <2>2. Stage(r) = "finished" /\ Stage(r)' = Answer(r) /\ Answer(r) \in {"error", "answer"}
    BY <1>0, <2>1 DEF Stage, Here, Answer, Inside, RequestInv, Placed
  <2>3. Answer(r) = "answer" => TaskOf(r) = "done"
    BY <1>0 DEF RequestInv, EndOf, TaskOf, GatewayAnswer
  <2> QED BY <1>0, <2>2, <2>3, Advances DEF E!Next, E!Reply
<1> QED BY <1>1, <1>2, <1>3, <1>4, <1>5

\* In the try block a request is being served, and has no task done but the call's.
LEMMA WorkExecutes ==
    ASSUME IInv, NEW r \in Request, HandlerStep(r), UNCHANGED quest,
           UNCHANGED gate \/ \E v, why : Return(r, v, why)
    PROVE  UNCHANGED E!vars
<1>0. TypeOK /\ Local(r)
  BY DEF IInv, Local
<1>1. home' = home /\ TaskOf(r)' = TaskOf(r)
  BY <1>0, OwnStages DEF TaskOf
<1>2. Stage(r)' = Stage(r)
  <2>1. CASE UNCHANGED gate
    BY <1>1, <2>1 DEF gate, Stage
  <2>2. ASSUME NEW v, NEW why, Return(r, v, why) PROVE Stage(r)' = Stage(r)
    BY <1>0, <1>1, <2>2, Returns DEF Stage, Here, Inside
  <2> QED BY <2>1, <2>2
<1> QED BY <1>0, <1>1, <1>2, Stutters

\* The quest is posted by a request that is served, once, and goes on by itself.
LEMMA ServerExecutes ==
    ASSUME IInv, NEW r \in Request, RunServer(r) \/ AnswerQuest(r)
    PROVE  E!Next \/ UNCHANGED E!vars
<1>0. /\ TypeOK /\ MCPTypeOK /\ RequestInv(r) /\ Local(r) /\ UNCHANGED <<gate, home>>
  BY DEF IInv, TypeOK, Local, RunServer, AnswerQuest
<1>1. Stage(r)' = Stage(r) /\ [q \in Request |-> Stage(q)]' = [q \in Request |-> Stage(q)]
  BY <1>0 DEF gate, Stage
<1>2. CASE RunServer(r) /\ UNCHANGED quest
  BY <1>0, <1>1, <1>2, Stutters DEF TaskOf
<1>3. CASE PostQuest(r)
  <2>1. server[r] = "started" /\ quest'[r] = "running"
    BY <1>0, <1>3 DEF PostQuest, Serve, MCPTypeOK
  <2>2. quest[r] = "none" /\ Here(r) = "busy"
    BY <1>0, <2>1 DEF RequestInv, CallOf, Placed, Working
  <2>3. Stage(r) = "served" /\ TaskOf(r) = "none" /\ TaskOf(r)' = "running"
    BY <2>1, <2>2 DEF Stage, Here, Inside, TaskOf
  <2> QED BY <1>0, <1>1, <2>3, OwnStages DEF E!Next, E!Submit
<1>4. CASE AnswerQuest(r)
  <2>1. quest[r] = "running" /\ quest'[r] \in GatewayAnswer
    BY <1>0, <1>4 DEF AnswerQuest, GatewayAnswers, MCPTypeOK
  <2>2. TaskOf(r) = "running" /\ TaskOf(r)' \in {"failed", "done"}
    BY <2>1 DEF TaskOf, GatewayAnswer
  <2> QED BY <1>0, <1>1, <2>2, OwnStages DEF E!Next, E!Complete
<1> QED BY <1>2, <1>3, <1>4 DEF RunServer, MCPStep, RejectCall, ServerDies, ServerExits

LEMMA StepExecutes == ASSUME IInv, LockHeld, [Next]_vars PROVE E!Next \/ UNCHANGED E!vars
<1>1. ASSUME NEW r \in Request, SaveUpload(r) \/ GetCandidates(r) \/ AskModel(r) \/ ChooseTarget(r)
      PROVE  UNCHANGED E!vars
  BY <1>1, WorkExecutes DEF HandlerStep, SaveUpload, GetCandidates, AskModel, ChooseTarget, Raise, call
<1>2. ASSUME NEW r \in Request, StartTool(r) \/ GiveUp(r) \/ CollectResult(r) \/ Word(r)
      PROVE  UNCHANGED E!vars
  BY <1>2, WorkExecutes DEF HandlerStep, StartTool, StartServer, GiveUp, Kill, CollectResult, Collect, Word,
     Raise, call
<1>3. CASE Tick \/ UNCHANGED vars
  <2>1. UNCHANGED <<gate, home, quest>>
    BY <1>3 DEF Tick, vars, call
  <2> QED BY <2>1 DEF gate, E!vars, Stage, TaskOf
<1> QED BY <1>1, <1>2, <1>3, GateStepExecutes, ServerExecutes DEF Next, HandlerStep

LEMMA InitExecutes == Init => E!Init
<1> SUFFICES ASSUME Init PROVE E!Init
  OBVIOUS
<1>1. home \in [Request -> Server]
  BY DEF Init
<1>2. ASSUME NEW r \in Request PROVE Stage(r) = "away" /\ TaskOf(r) = "none"
  <2>1. at[home[r]][r] = "away" /\ quest[r] = "none"
    BY <1>1 DEF Init, GateInit, MCPInit
  <2>2. Stage(r) = "away"
    BY <2>1 DEF Stage, Inside
  <2>3. TaskOf(r) = "none"
    BY <2>1 DEF TaskOf
  <2> QED BY <2>2, <2>3
<1> QED BY <1>1, <1>2 DEF E!Init

\* A request is between lock.acquire() and lock.release() only while it holds the lock: an
\* agent never executes two requests, although the flag may be down while it executes one.
THEOREM LockIsHeld == Spec => []LockHeld
<1>1. Init => LockHeld
  BY DEF Init, GateInit, LockHeld, Inside
<1>2. IInv /\ LockHeld /\ [Next]_vars => LockHeld'
  BY StepLockHeld DEF IInv
<1> QED BY <1>1, <1>2, Invariant, PTL DEF Spec

\* The agents implement the safety part of Executor: one request at a time, its quest posted
\* at most once and only by the request that is served, no success without a result.
THEOREM AgentsExecute == Spec => E!Init /\ [][E!Next]_E!vars
<1>1. IInv /\ LockHeld /\ [Next]_vars => [E!Next]_E!vars
  BY StepExecutes
<1> QED BY <1>1, InitExecutes, LockIsHeld, Invariant, PTL DEF Spec

=============================================================================
