-------------------------- MODULE LLMServerProofs --------------------------
(* Theorems about LLMServer, for any number of requests and any length of a run. *)
EXTENDS LLMServer, TLAPS

\* The labels of generate() once the model thread has been started.
RunPC == {"drain", "pop", "poll", "join"}

\* The request has not got as far as the model thread, and has no reply yet.
BeforePC == {"new", "testState", "acquire", "setFlag", "validate", "clearState", "prompt"}

\* lock is held from acquire to release, except by a stream inside generate().
HoldsLock(r) ==
    \/ pc[r] \in {"setFlag", "validate", "clearState", "prompt", "release"}
    \/ pc[r] \in RunPC /\ reply[r] # "stream"

LockHeld == \A r \in Request : lock = r <=> HoldsLock(r)

ReplyAtPC ==
    \A r \in Request :
        /\ pc[r] \in BeforePC => reply[r] = "none"
        /\ pc[r] = "generate" => reply[r] = "stream"
        /\ pc[r] \in RunPC => reply[r] \in {"none", "stream"}

\* A request that is over has waited for its run, or is a stray's.
ThreadAtPC ==
    \A r \in Request :
        /\ pc[r] \in BeforePC \union {"generate"} => thread[r] = "none"
        /\ pc[r] \in RunPC => thread[r] # "none"
        /\ pc[r] \in {"release", "unflag"} /\ reply[r] = "stream" => thread[r] = "none"
        /\ pc[r] \in {"release", "unflag", "done"} =>
               thread[r] \in {"none", "ended"} \/ reply[r] \in {"failed", "stream"}

\* What a request and its run have before they start.
Fresh ==
    \A r \in Request :
        /\ thread[r] = "none" => chars[r] = 0 /\ ~half[r]
        /\ pc[r] \notin RunPC => rkllm_output[r] = <<>>

\* The run that can still close a NORMAL state has delivered text, or is about to.
Closes(r) ==
    \/ thread[r] = "normal"
    \/ thread[r] = "running" /\ (chars[r] > 0 \/ half[r])

NormalHasText == global_state = 0 => \E r \in Request : Closes(r)

Places == LockHeld /\ ReplyAtPC /\ ThreadAtPC /\ Fresh

-----------------------------------------------------------------------------
\* The bytes left over are those the run of r goes on with.
Matches(r) == split_byte_data = (IF half[r] THEN r ELSE Nobody)

\* While nobody disturbs it, the output of a request and global_text together are the
\* characters of its run so far, in order; all of them, unless bytes of an earlier run
\* have spoiled the decoding.
RunText(r) ==
    /\ \A i \in 1 .. Len(rkllm_output[r]) : rkllm_output[r][i] = <<r, i>>
    /\ \A i \in 1 .. Len(global_text) : global_text[i] = <<r, Len(rkllm_output[r]) + i>>
    /\ half[r] => split_byte_data \in {r, Garbled}
    /\ Matches(r) => Len(rkllm_output[r]) + Len(global_text) = chars[r]

TextFollowsRun ==
    Undisturbed =>
        \A r \in Request :
            /\ pc[r] \in {"clearState", "prompt"} => global_text = <<>>
            /\ pc[r] \in RunPC => RunText(r)

NoCut == \A r \in Request : ~Cut(r)

\* Without a cut run, bytes are left over only inside a character of a live run.
CleanBytes ==
    Undisturbed /\ NoCut =>
        /\ \A r \in Request : Live(r) /\ half[r] => split_byte_data = r
        /\ split_byte_data # Nobody =>
               \E r \in Request : Live(r) /\ half[r] /\ split_byte_data = r

\* The inductive invariant.
IInv == TypeOK /\ Places /\ BusyHasOwner /\ NormalHasText /\ TextFollowsRun /\ CleanBytes



















-----------------------------------------------------------------------------
(* Types *)

\* The steps of the gate keep the types.
LEMMA GateType ==
    ASSUME TypeOK, NEW r \in Request, GateStep(r)
    PROVE  TypeOK'
<1> USE DEF TypeOK, RequestPC, LockedPC, GeneratePC, LLMCallState, gate, text, model
<1>1. CASE TestFlag(r) BY <1>1 DEF TestFlag, Step, Reply, Private, NoOutput
<1>2. CASE TestState(r) BY <1>2 DEF TestState, Step, Reply, Private, NoOutput
<1>3. CASE Acquire(r) BY <1>3 DEF Acquire, Step, NoOutput
<1>4. CASE SetFlag(r) BY <1>4 DEF SetFlag, Step, NoOutput
<1>5. CASE Refuse(r) BY <1>5 DEF Refuse, Step, Reply, Private, NoOutput
<1>6. CASE ClearText(r) BY <1>6 DEF ClearText, Step, NoOutput
<1>7. CASE ClearState(r) BY <1>7 DEF ClearState, Step, NoOutput
<1>8. CASE BadMessage(r) BY <1>8 DEF BadMessage, Step, Reply, Private, NoOutput
<1>9. CASE ReturnStream(r) BY <1>9 DEF ReturnStream, Step, Reply, Private, NoOutput
<1>10. CASE Release(r) BY <1>10 DEF Release, Step, NoOutput
<1>11. CASE Unflag(r) BY <1>11 DEF Unflag, Step, NoOutput
<1> QED BY <1>1, <1>2, <1>3, <1>4, <1>5, <1>6, <1>7, <1>8, <1>9, <1>10, <1>11 DEF GateStep

\* Leaving generate() keeps the types of what it assigns.
LEMMA LeaveType ==
    ASSUME TypeOK, NEW r \in Request, NEW from, NEW what \in {"failed", "answer"},
           LeaveGenerate(r, from, what)
    PROVE  /\ pc' \in [Request -> RequestPC]
           /\ reply' \in [Request -> {"none", "busy", "refused", "failed", "stream", "answer"}]
           /\ rkllm_output' \in [Request -> Seq(Char)]
           /\ finished' \in [Request -> BOOLEAN]
<1> USE DEF TypeOK, LeaveGenerate
<1>1. pc' \in [Request -> RequestPC] BY DEF Step, RequestPC, LockedPC
<1>2. reply' \in [Request -> {"none", "busy", "refused", "failed", "stream", "answer"}]
  BY DEF Reply
<1>3. rkllm_output' \in [Request -> Seq(Char)]
  <2>1. <<>> \in Seq(Char) OBVIOUS
  <2> QED BY <2>1
<1>4. finished' \in [Request -> BOOLEAN] OBVIOUS
<1> QED BY <1>1, <1>2, <1>3, <1>4

\* So do those of generate().
LEMMA GenerateType ==
    ASSUME TypeOK, NEW r \in Request, GenerateStep(r)
    PROVE  TypeOK'
<1> USE DEF TypeOK, RequestPC, LockedPC, GeneratePC, LLMCallState, gate, text, model
<1>1. CASE CountFails(r)
  BY <1>1, LeaveType DEF CountFails, Private
<1>2. CASE StartModel(r) BY <1>2 DEF StartModel, ModelThread, EntryOf, Streamed, Step, NoOutput
<1>3. CASE TestText(r) BY <1>3 DEF TestText, Step, Private, NoOutput
<1>4. CASE PopText(r) BY <1>4 DEF PopText, Step, TakeText
<1>5. CASE PopFails(r)
  BY <1>5, LeaveType DEF PopFails, TakeText
<1>6. CASE PopEmpty(r)
  BY <1>6, LeaveType DEF PopEmpty, Private
<1>7. CASE Poll(r) BY <1>7 DEF Poll, Step, Private
<1>8. CASE JoinAgain(r) BY <1>8 DEF JoinAgain, Step, Private, NoOutput
<1>9. CASE Answer(r)
  BY <1>9, LeaveType DEF Answer, Private
<1> QED BY <1>1, <1>2, <1>3, <1>4, <1>5, <1>6, <1>7, <1>8, <1>9 DEF GenerateStep

\* So do those of the model thread.
LEMMA ModelType ==
    ASSUME TypeOK, NEW r \in Request, ModelStep(r)
    PROVE  TypeOK'
<1> USE RequestAssumption, BoundAssumption
<1> USE DEF TypeOK, ModelThread, LLMCallState, gate, text, model
<1>1. CASE CallbackNormal(r) BY <1>1 DEF CallbackNormal, Thread, Callback
<1>2. CASE WholeText(r)
  <2>1. chars[r] + 1 \in 1 .. MaxChars BY <1>2 DEF WholeText, Thread
  <2>2. <<r, chars[r] + 1>> \in Char /\ Garbled \in Char BY <2>1 DEF Char
  <2>3. global_text' \in Seq(Char)
    <3>1. global_text \in Seq(Char) OBVIOUS
    <3>2. CASE global_text' = global_text BY <3>1, <3>2
    <3>3. CASE global_text' = Append(global_text, <<r, chars[r] + 1>>)
      <4> DEFINE c == <<r, chars[r] + 1>>
      <4>1. c \in Char BY <2>2
      <4> HIDE DEF c
      <4>2. Append(global_text, c) \in Seq(Char) BY <3>1, <4>1
      <4> QED BY <3>3, <4>2 DEF c
    <3>4. CASE global_text' = Append(global_text, Garbled)
      <4>1. Append(global_text, Garbled) \in Seq(Char) BY <2>2, <3>1
      <4> QED BY <3>4, <4>1
    <3> QED BY <1>2, <3>2, <3>3, <3>4 DEF WholeText
  <2>4. chars' \in [Request -> 0 .. MaxChars] BY <1>2, <2>1 DEF WholeText
  <2> QED BY <1>2, <2>3, <2>4 DEF WholeText, Thread, Callback
<1>3. CASE HalfText(r) BY <1>3 DEF HalfText, Thread, Callback
<1>4. CASE CloseRun(r) BY <1>4 DEF CloseRun, Thread, Callback
<1>5. CASE EndThread(r) BY <1>5 DEF EndThread, Thread, Callback
<1>6. CASE RunFails(r) BY <1>6 DEF RunFails, Thread, Callback
<1> QED BY <1>1, <1>2, <1>3, <1>4, <1>5, <1>6 DEF ModelStep

-----------------------------------------------------------------------------
(* Places, replies and threads *)

\* The steps of the gate keep lock, replies and threads with the labels.
LEMMA GatePlaces ==
    ASSUME TypeOK, Places, NEW r \in Request, GateStep(r)
    PROVE  Places'
<1> USE RequestAssumption
<1> USE DEF TypeOK, Places, LockHeld, HoldsLock, ReplyAtPC, ThreadAtPC, Fresh, RunPC,
        BeforePC, gate, text, model
<1>1. CASE TestFlag(r)
  <2>1. CASE is_blocking
    <3>1. LockHeld' BY <1>1, <2>1 DEF TestFlag, Step, Reply, Private, NoOutput
    <3>2. ReplyAtPC'
      <4>1. pc'[r] = "done" /\ \A q \in Request \ {r} : pc'[q] = pc[q] /\ reply'[q] = reply[q]
        BY <1>1, <2>1 DEF TestFlag, Step, Reply
      <4> QED BY <4>1
    <3>3. ThreadAtPC' BY <1>1, <2>1 DEF TestFlag, Step, Reply, Private, NoOutput
    <3>4. Fresh' BY <1>1, <2>1 DEF TestFlag, Step, Reply, Private, NoOutput
    <3> QED BY <3>1, <3>2, <3>3, <3>4
  <2>2. CASE ~is_blocking
    <3>1. LockHeld' BY <1>1, <2>2 DEF TestFlag, Step, Reply, Private, NoOutput
    <3>2. ReplyAtPC' BY <1>1, <2>2 DEF TestFlag, Step, Reply, Private, NoOutput
    <3>3. ThreadAtPC' BY <1>1, <2>2 DEF TestFlag, Step, Reply, Private, NoOutput
    <3>4. Fresh' BY <1>1, <2>2 DEF TestFlag, Step, Reply, Private, NoOutput
    <3> QED BY <3>1, <3>2, <3>3, <3>4
  <2> QED BY <1>1, <2>1, <2>2 DEF TestFlag
<1>2. CASE TestState(r)
  <2>1. CASE global_state = 0
    <3>1. LockHeld' BY <1>2, <2>1 DEF TestState, Step, Reply, Private, NoOutput
    <3>2. ReplyAtPC'
      <4>1. pc'[r] = "done" /\ \A q \in Request \ {r} : pc'[q] = pc[q] /\ reply'[q] = reply[q]
        BY <1>2, <2>1 DEF TestState, Step, Reply
      <4> QED BY <4>1
    <3>3. ThreadAtPC' BY <1>2, <2>1 DEF TestState, Step, Reply, Private, NoOutput
    <3>4. Fresh' BY <1>2, <2>1 DEF TestState, Step, Reply, Private, NoOutput
    <3> QED BY <3>1, <3>2, <3>3, <3>4
  <2>2. CASE global_state # 0
    <3>1. LockHeld' BY <1>2, <2>2 DEF TestState, Step, Reply, Private, NoOutput
    <3>2. ReplyAtPC' BY <1>2, <2>2 DEF TestState, Step, Reply, Private, NoOutput
    <3>3. ThreadAtPC' BY <1>2, <2>2 DEF TestState, Step, Reply, Private, NoOutput
    <3>4. Fresh' BY <1>2, <2>2 DEF TestState, Step, Reply, Private, NoOutput
    <3> QED BY <3>1, <3>2, <3>3, <3>4
  <2> QED BY <1>2, <2>1, <2>2 DEF TestState
<1>3. CASE Acquire(r) BY <1>3 DEF Acquire, Step, NoOutput
<1>4. CASE SetFlag(r) BY <1>4 DEF SetFlag, Step, NoOutput
<1>5. CASE Refuse(r) BY <1>5 DEF Refuse, Step, Reply, Private, NoOutput
<1>6. CASE ClearText(r) BY <1>6 DEF ClearText, Step, NoOutput
<1>7. CASE ClearState(r) BY <1>7 DEF ClearState, Step, NoOutput
<1>8. CASE BadMessage(r) BY <1>8 DEF BadMessage, Step, Reply, Private, NoOutput
<1>9. CASE ReturnStream(r) BY <1>9 DEF ReturnStream, Step, Reply, Private, NoOutput
<1>10. CASE Release(r) BY <1>10 DEF Release, Step, NoOutput
<1>11. CASE Unflag(r)
  <2>1. CASE reply[r] = "stream"
    <3>1. LockHeld' BY <1>11, <2>1 DEF Unflag, Step, NoOutput
    <3>2. ReplyAtPC' BY <1>11, <2>1 DEF Unflag, Step, NoOutput
    <3>3. ThreadAtPC' BY <1>11, <2>1 DEF Unflag, Step, NoOutput
    <3>4. Fresh' BY <1>11, <2>1 DEF Unflag, Step, NoOutput
    <3> QED BY <3>1, <3>2, <3>3, <3>4
  <2>2. CASE reply[r] # "stream"
    <3>1. LockHeld' BY <1>11, <2>2 DEF Unflag, Step, NoOutput
    <3>2. ReplyAtPC' BY <1>11, <2>2 DEF Unflag, Step, NoOutput
    <3>3. ThreadAtPC' BY <1>11, <2>2 DEF Unflag, Step, NoOutput
    <3>4. Fresh' BY <1>11, <2>2 DEF Unflag, Step, NoOutput
    <3> QED BY <3>1, <3>2, <3>3, <3>4
  <2> QED BY <1>11, <2>1, <2>2 DEF Unflag
<1> QED BY <1>1, <1>2, <1>3, <1>4, <1>5, <1>6, <1>7, <1>8, <1>9, <1>10, <1>11 DEF GateStep

\* So do those of generate().
LEMMA GeneratePlaces ==
    ASSUME TypeOK, Places, NEW r \in Request, GenerateStep(r)
    PROVE  Places'
<1> USE RequestAssumption
<1> USE DEF TypeOK, Places, Live, ModelThread, LockHeld, HoldsLock, ReplyAtPC, ThreadAtPC,
        Fresh, RunPC, BeforePC, gate, text, model
<1>1. CASE CountFails(r)
  <2>1. CASE reply[r] = "stream"
    <3>1. LockHeld'
      BY <1>1, <2>1 DEF CountFails, LeaveGenerate, EntryOf, Streamed, Step, Reply, Private
    <3>2. ReplyAtPC'
      BY <1>1, <2>1 DEF CountFails, LeaveGenerate, EntryOf, Streamed, Step, Reply, Private
    <3>3. ThreadAtPC'
      BY <1>1, <2>1 DEF CountFails, LeaveGenerate, EntryOf, Streamed, Step, Reply, Private
    <3>4. Fresh'
      BY <1>1, <2>1 DEF CountFails, LeaveGenerate, EntryOf, Streamed, Step, Reply, Private
    <3> QED BY <3>1, <3>2, <3>3, <3>4
  <2>2. CASE reply[r] # "stream"
    <3>1. LockHeld'
      BY <1>1, <2>2 DEF CountFails, LeaveGenerate, EntryOf, Streamed, Step, Reply, Private
    <3>2. ReplyAtPC'
      BY <1>1, <2>2 DEF CountFails, LeaveGenerate, EntryOf, Streamed, Step, Reply, Private
    <3>3. ThreadAtPC'
      BY <1>1, <2>2 DEF CountFails, LeaveGenerate, EntryOf, Streamed, Step, Reply, Private
    <3>4. Fresh'
      BY <1>1, <2>2 DEF CountFails, LeaveGenerate, EntryOf, Streamed, Step, Reply, Private
    <3> QED BY <3>1, <3>2, <3>3, <3>4
  <2> QED BY <1>1, <2>1, <2>2 DEF CountFails
<1>2. CASE StartModel(r) BY <1>2 DEF StartModel, EntryOf, Streamed, Step, NoOutput
<1>3. CASE TestText(r) BY <1>3 DEF TestText, Step, Private, NoOutput
<1>4. CASE PopText(r) BY <1>4 DEF PopText, Step, TakeText
<1>5. CASE PopFails(r) BY <1>5 DEF PopFails, LeaveGenerate, Streamed, Step, Reply, TakeText
<1>6. CASE PopEmpty(r) BY <1>6 DEF PopEmpty, LeaveGenerate, Streamed, Step, Reply, Private
<1>7. CASE Poll(r) BY <1>7 DEF Poll, Step, Private
<1>8. CASE JoinAgain(r) BY <1>8 DEF JoinAgain, Step, Private, NoOutput
<1>9. CASE Answer(r) BY <1>9 DEF Answer, LeaveGenerate, Streamed, Step, Reply, Private
<1> QED BY <1>1, <1>2, <1>3, <1>4, <1>5, <1>6, <1>7, <1>8, <1>9 DEF GenerateStep

\* So do those of the model thread.
LEMMA ModelPlaces ==
    ASSUME TypeOK, Places, NEW r \in Request, ModelStep(r)
    PROVE  Places'
<1> USE RequestAssumption
<1> USE DEF TypeOK, Places, LockHeld, HoldsLock, ReplyAtPC, ThreadAtPC, Fresh, RunPC,
        BeforePC, gate, text, model
<1>1. CASE CallbackNormal(r) BY <1>1 DEF CallbackNormal, Thread, Callback
<1>2. CASE WholeText(r) BY <1>2 DEF WholeText, Thread, Callback
<1>3. CASE HalfText(r) BY <1>3 DEF HalfText, Thread, Callback
<1>4. CASE CloseRun(r) BY <1>4 DEF CloseRun, Thread, Callback
<1>5. CASE EndThread(r) BY <1>5 DEF EndThread, Thread, Callback
<1>6. CASE RunFails(r) BY <1>6 DEF RunFails, Thread, Callback
<1> QED BY <1>1, <1>2, <1>3, <1>4, <1>5, <1>6 DEF ModelStep

-----------------------------------------------------------------------------
(* The flag and the state *)

\* A step of any thread.
RequestStep(r) == GateStep(r) \/ GenerateStep(r) \/ ModelStep(r)

\* Every step but SetFlag leaves the flag down, and every step leaves the owners of a
\* raised flag theirs; Unflag lowers it.
LEMMA FlagStep ==
    ASSUME TypeOK, Places, BusyHasOwner, NEW r \in Request, RequestStep(r)
    PROVE  BusyHasOwner'
<1> DEFINE Kept == /\ is_blocking' => is_blocking
                   /\ \A q \in Request : FlagOwner(q) => FlagOwner(q)'
<1>0. Kept => BusyHasOwner' BY DEF BusyHasOwner
<1> USE DEF FlagOwner, GeneratePC, gate, text, model
<1>1. CASE SetFlag(r)
  <2>1. FlagOwner(r)' BY <1>1 DEF SetFlag, Step, TypeOK
  <2> QED BY <2>1 DEF BusyHasOwner
<1>2. CASE Unflag(r) BY <1>2 DEF Unflag, BusyHasOwner
<1> USE RequestAssumption DEF TypeOK, Places, LockHeld, HoldsLock, ReplyAtPC, ThreadAtPC,
        RunPC, BeforePC
<1>3. ASSUME TestFlag(r) PROVE Kept BY <1>3 DEF TestFlag, Step, Reply, Private, NoOutput
<1>4. ASSUME TestState(r) PROVE Kept BY <1>4 DEF TestState, Step, Reply, Private, NoOutput
<1>5. ASSUME Acquire(r) PROVE Kept BY <1>5 DEF Acquire, Step, NoOutput
<1>6. ASSUME Refuse(r) PROVE Kept BY <1>6 DEF Refuse, Step, Reply, Private, NoOutput
<1>7. ASSUME ClearText(r) PROVE Kept BY <1>7 DEF ClearText, Step, NoOutput
<1>8. ASSUME ClearState(r) PROVE Kept BY <1>8 DEF ClearState, Step, NoOutput
<1>9. ASSUME BadMessage(r) PROVE Kept BY <1>9 DEF BadMessage, Step, Reply, Private, NoOutput
<1>10. ASSUME ReturnStream(r) PROVE Kept BY <1>10 DEF ReturnStream, Step, Reply, Private, NoOutput
<1>11. ASSUME Release(r) PROVE Kept BY <1>11 DEF Release, Step, NoOutput
<1>12. ASSUME CountFails(r) PROVE Kept
  BY <1>12 DEF CountFails, LeaveGenerate, EntryOf, Streamed, Step, Reply, Private
<1>13. ASSUME StartModel(r) PROVE Kept BY <1>13 DEF StartModel, EntryOf, Streamed, Step, NoOutput
<1>14. ASSUME TestText(r) PROVE Kept BY <1>14 DEF TestText, Step, Private, NoOutput
<1>15. ASSUME PopText(r) PROVE Kept BY <1>15 DEF PopText, Step, TakeText
<1>16. ASSUME PopFails(r) PROVE Kept
  BY <1>16 DEF PopFails, LeaveGenerate, Streamed, Step, Reply, TakeText
<1>17. ASSUME PopEmpty(r) PROVE Kept
  BY <1>17 DEF PopEmpty, LeaveGenerate, Streamed, Step, Reply, Private
<1>18. ASSUME Poll(r) PROVE Kept BY <1>18 DEF Poll, Step, Private
<1>19. ASSUME JoinAgain(r) PROVE Kept BY <1>19 DEF JoinAgain, Step, Private, NoOutput
<1>20. ASSUME Answer(r) PROVE Kept
  BY <1>20 DEF Answer, LeaveGenerate, Streamed, Step, Reply, Private
<1>21. ASSUME CallbackNormal(r) PROVE Kept BY <1>21 DEF CallbackNormal, Thread, Callback
<1>22. ASSUME WholeText(r) PROVE Kept BY <1>22 DEF WholeText, Thread, Callback
<1>23. ASSUME HalfText(r) PROVE Kept BY <1>23 DEF HalfText, Thread, Callback
<1>24. ASSUME CloseRun(r) PROVE Kept BY <1>24 DEF CloseRun, Thread, Callback
<1>25. ASSUME EndThread(r) PROVE Kept BY <1>25 DEF EndThread, Thread, Callback
<1>26. ASSUME RunFails(r) PROVE Kept BY <1>26 DEF RunFails, Thread, Callback
<1> HIDE DEF Kept
<1> QED
  BY <1>0, <1>1, <1>2, <1>3, <1>4, <1>5, <1>6, <1>7, <1>8, <1>9, <1>10, <1>11, <1>12, <1>13,
      <1>14, <1>15, <1>16, <1>17, <1>18, <1>19, <1>20, <1>21, <1>22, <1>23, <1>24, <1>25,
      <1>26
    DEF RequestStep, GateStep, GenerateStep, ModelStep

\* A NORMAL state is set by a run that has yet to close, and a run that fails without a
\* callback has never set it.
LEMMA StateStep ==
    ASSUME TypeOK, Places, NormalHasText, NEW r \in Request, RequestStep(r)
    PROVE  NormalHasText'
<1> DEFINE Kept == /\ global_state' = 0 => global_state = 0
                   /\ \A q \in Request : Closes(q) => Closes(q)'
<1>0. Kept => NormalHasText' BY DEF NormalHasText
<1>1. CASE CallbackNormal(r)
  <2>1. Closes(r)' BY <1>1 DEF CallbackNormal, Thread, Closes, TypeOK
  <2> QED BY <2>1 DEF NormalHasText
<1>2. CASE CloseRun(r) BY <1>2 DEF CloseRun, NormalHasText
<1> USE DEF Closes, TypeOK, gate, text, model
<1>3. ASSUME TestFlag(r) PROVE Kept BY <1>3 DEF TestFlag, Step, Reply, Private, NoOutput
<1>4. ASSUME TestState(r) PROVE Kept BY <1>4 DEF TestState, Step, Reply, Private, NoOutput
<1>5. ASSUME Acquire(r) PROVE Kept BY <1>5 DEF Acquire, Step, NoOutput
<1>6. ASSUME SetFlag(r) PROVE Kept BY <1>6 DEF SetFlag, Step, NoOutput
<1>7. ASSUME Refuse(r) PROVE Kept BY <1>7 DEF Refuse, Step, Reply, Private, NoOutput
<1>8. ASSUME ClearText(r) PROVE Kept BY <1>8 DEF ClearText, Step, NoOutput
<1>9. ASSUME ClearState(r) PROVE Kept BY <1>9 DEF ClearState, Step, NoOutput
<1>10. ASSUME BadMessage(r) PROVE Kept BY <1>10 DEF BadMessage, Step, Reply, Private, NoOutput
<1>11. ASSUME ReturnStream(r) PROVE Kept BY <1>11 DEF ReturnStream, Step, Reply, Private, NoOutput
<1>12. ASSUME Release(r) PROVE Kept BY <1>12 DEF Release, Step, NoOutput
<1>13. ASSUME Unflag(r) PROVE Kept BY <1>13 DEF Unflag, Step, NoOutput
<1>14. ASSUME CountFails(r) PROVE Kept
  BY <1>14 DEF CountFails, LeaveGenerate, EntryOf, Streamed, Step, Reply, Private
<1>15. ASSUME StartModel(r) PROVE Kept
  <2>1. thread[r] = "none"
    BY <1>15 DEF StartModel, EntryOf, Streamed, Step, Places, ThreadAtPC, BeforePC
  <2> QED BY <1>15, <2>1 DEF StartModel, EntryOf, Streamed, Step, NoOutput
<1>16. ASSUME TestText(r) PROVE Kept BY <1>16 DEF TestText, Step, Private, NoOutput
<1>17. ASSUME PopText(r) PROVE Kept BY <1>17 DEF PopText, Step, TakeText
<1>18. ASSUME PopFails(r) PROVE Kept
  BY <1>18 DEF PopFails, LeaveGenerate, Streamed, Step, Reply, TakeText
<1>19. ASSUME PopEmpty(r) PROVE Kept
  BY <1>19 DEF PopEmpty, LeaveGenerate, Streamed, Step, Reply, Private
<1>20. ASSUME Poll(r) PROVE Kept BY <1>20 DEF Poll, Step, Private
<1>21. ASSUME JoinAgain(r) PROVE Kept BY <1>21 DEF JoinAgain, Step, Private, NoOutput
<1>22. ASSUME Answer(r) PROVE Kept
  BY <1>22 DEF Answer, LeaveGenerate, Streamed, Step, Reply, Private
<1>23. ASSUME WholeText(r) PROVE Kept BY <1>23 DEF WholeText, Thread, Callback
<1>24. ASSUME HalfText(r) PROVE Kept BY <1>24 DEF HalfText, Thread, Callback
<1>25. ASSUME EndThread(r) PROVE Kept BY <1>25 DEF EndThread, Thread, Callback
<1>26. ASSUME RunFails(r) PROVE Kept BY <1>26 DEF RunFails, Thread, Callback
<1> HIDE DEF Kept
<1> QED
  BY <1>0, <1>1, <1>2, <1>3, <1>4, <1>5, <1>6, <1>7, <1>8, <1>9, <1>10, <1>11, <1>12, <1>13,
      <1>14, <1>15, <1>16, <1>17, <1>18, <1>19, <1>20, <1>21, <1>22, <1>23, <1>24, <1>25,
      <1>26
    DEF RequestStep, GateStep, GenerateStep, ModelStep

-----------------------------------------------------------------------------
(* Runs and their text *)

\* While no request is a stray's, a model thread and the loop that waits for it run under
\* the lock.
LEMMA OneRun ==
    ASSUME TypeOK, Places, Undisturbed, NEW r \in Request
    PROVE  /\ Live(r) => pc[r] \in RunPC
           /\ pc[r] \in RunPC \union {"clearState", "prompt"} => lock = r
<1> USE DEF TypeOK, Places, Undisturbed, Stray, ThreadAtPC
<1>1. Live(r) => pc[r] \in RunPC
  BY DEF Live, RunPC, BeforePC, RequestPC, LockedPC, GeneratePC
<1>2. pc[r] \in RunPC => reply[r] # "stream"
  OBVIOUS
<1> QED BY <1>1, <1>2 DEF LockHeld, HoldsLock

\* A stray stays one.
LEMMA CalmBefore ==
    ASSUME TypeOK, Places, NEW r \in Request, RequestStep(r), Undisturbed'
    PROVE  Undisturbed
<1> DEFINE Kept == \A q \in Request : Stray(q) => Stray(q)'
<1>0. Kept => Undisturbed BY DEF Undisturbed
<1> USE DEF Stray, TypeOK, Places, ReplyAtPC, ThreadAtPC, RunPC, BeforePC, gate, text, model
<1>1. ASSUME TestFlag(r) PROVE Kept BY <1>1 DEF TestFlag, Step, Reply, Private, NoOutput
<1>2. ASSUME TestState(r) PROVE Kept BY <1>2 DEF TestState, Step, Reply, Private, NoOutput
<1>3. ASSUME Acquire(r) PROVE Kept BY <1>3 DEF Acquire, Step, NoOutput
<1>4. ASSUME SetFlag(r) PROVE Kept BY <1>4 DEF SetFlag, Step, NoOutput
<1>5. ASSUME Refuse(r) PROVE Kept BY <1>5 DEF Refuse, Step, Reply, Private, NoOutput
<1>6. ASSUME ClearText(r) PROVE Kept BY <1>6 DEF ClearText, Step, NoOutput
<1>7. ASSUME ClearState(r) PROVE Kept BY <1>7 DEF ClearState, Step, NoOutput
<1>8. ASSUME BadMessage(r) PROVE Kept BY <1>8 DEF BadMessage, Step, Reply, Private, NoOutput
<1>9. ASSUME ReturnStream(r) PROVE Kept BY <1>9 DEF ReturnStream, Step, Reply, Private, NoOutput
<1>10. ASSUME Release(r) PROVE Kept BY <1>10 DEF Release, Step, NoOutput
<1>11. ASSUME Unflag(r) PROVE Kept BY <1>11 DEF Unflag, Step, NoOutput
<1>12. ASSUME CountFails(r) PROVE Kept
  BY <1>12 DEF CountFails, LeaveGenerate, EntryOf, Streamed, Step, Reply, Private
<1>13. ASSUME StartModel(r) PROVE Kept BY <1>13 DEF StartModel, EntryOf, Streamed, Step, NoOutput
<1>14. ASSUME TestText(r) PROVE Kept BY <1>14 DEF TestText, Step, Private, NoOutput
<1>15. ASSUME PopText(r) PROVE Kept BY <1>15 DEF PopText, Step, TakeText
<1>16. ASSUME PopFails(r) PROVE Kept
  BY <1>16 DEF PopFails, LeaveGenerate, Streamed, Step, Reply, TakeText
<1>17. ASSUME PopEmpty(r) PROVE Kept
  BY <1>17 DEF PopEmpty, LeaveGenerate, Streamed, Step, Reply, Private
<1>18. ASSUME Poll(r) PROVE Kept BY <1>18 DEF Poll, Step, Private
<1>19. ASSUME JoinAgain(r) PROVE Kept BY <1>19 DEF JoinAgain, Step, Private, NoOutput
<1>20. ASSUME Answer(r) PROVE Kept
  BY <1>20 DEF Answer, LeaveGenerate, Streamed, Step, Reply, Private
<1>21. ASSUME CallbackNormal(r) PROVE Kept BY <1>21 DEF CallbackNormal, Thread, Callback
<1>22. ASSUME WholeText(r) PROVE Kept BY <1>22 DEF WholeText, Thread, Callback
<1>23. ASSUME HalfText(r) PROVE Kept BY <1>23 DEF HalfText, Thread, Callback
<1>24. ASSUME CloseRun(r) PROVE Kept BY <1>24 DEF CloseRun, Thread, Callback
<1>25. ASSUME EndThread(r) PROVE Kept BY <1>25 DEF EndThread, Thread, Callback
<1>26. ASSUME RunFails(r) PROVE Kept BY <1>26 DEF RunFails, Thread, Callback
<1> HIDE DEF Kept
<1> QED
  BY <1>0, <1>1, <1>2, <1>3, <1>4, <1>5, <1>6, <1>7, <1>8, <1>9, <1>10, <1>11, <1>12, <1>13,
      <1>14, <1>15, <1>16, <1>17, <1>18, <1>19, <1>20, <1>21, <1>22, <1>23, <1>24, <1>25,
      <1>26
    DEF RequestStep, GateStep, GenerateStep, ModelStep

\* What TextFollowsRun says of one request.
TextAt(r) ==
    /\ pc[r] \in {"clearState", "prompt"} => global_text = <<>>
    /\ pc[r] \in RunPC => RunText(r)

\* Request r is where it was, or has left the text behind, and nothing that TextAt(r)
\* speaks of has changed.
SameText(r) ==
    \/ pc'[r] \notin {"clearState", "prompt"} \union RunPC
    \/ /\ pc'[r] \in RunPC => pc[r] \in RunPC
       /\ pc'[r] \in {"clearState", "prompt"} => pc[r] \in {"clearState", "prompt"}
       /\ UNCHANGED <<global_text, split_byte_data>>
       /\ rkllm_output'[r] = rkllm_output[r] /\ half'[r] = half[r] /\ chars'[r] = chars[r]

\* Then TextAt(r) is kept.
LEMMA SameTextAt ==
    ASSUME NEW r \in Request, TextAt(r), SameText(r)
    PROVE  TextAt(r)'
  BY DEF TextAt, SameText, RunText, Matches

\* A step of another request leaves the text of r alone: who writes it holds the lock.
LEMMA OthersText ==
    ASSUME TypeOK, Places, Undisturbed, NEW r \in Request, NEW q \in Request \ {r},
           RequestStep(q)
    PROVE  SameText(r)
<1>1. ASSUME pc[r] \in {"clearState", "prompt"} \union RunPC
      PROVE  lock # q /\ pc[q] \notin RunPC /\ ~Live(q) /\ pc[q] # "validate"
  BY <1>1, OneRun DEF Places, LockHeld, HoldsLock
<1> USE DEF SameText, TypeOK, gate, text, model
<1>2. ASSUME TestFlag(q) PROVE SameText(r) BY <1>2 DEF TestFlag, Step, Reply, Private, NoOutput
<1>3. ASSUME TestState(q) PROVE SameText(r) BY <1>3 DEF TestState, Step, Reply, Private, NoOutput
<1>4. ASSUME Acquire(q) PROVE SameText(r) BY <1>4 DEF Acquire, Step, NoOutput
<1>5. ASSUME SetFlag(q) PROVE SameText(r) BY <1>5 DEF SetFlag, Step, NoOutput
<1>6. ASSUME Refuse(q) PROVE SameText(r) BY <1>6 DEF Refuse, Step, Reply, Private, NoOutput
<1>7. ASSUME ClearText(q) PROVE SameText(r) BY <1>7, <1>1 DEF ClearText, Step, NoOutput
<1>8. ASSUME ClearState(q) PROVE SameText(r) BY <1>8 DEF ClearState, Step, NoOutput
<1>9. ASSUME BadMessage(q) PROVE SameText(r)
  BY <1>9 DEF BadMessage, Step, Reply, Private, NoOutput
<1>10. ASSUME ReturnStream(q) PROVE SameText(r)
  BY <1>10 DEF ReturnStream, Step, Reply, Private, NoOutput
<1>11. ASSUME Release(q) PROVE SameText(r) BY <1>11 DEF Release, Step, NoOutput
<1>12. ASSUME Unflag(q) PROVE SameText(r) BY <1>12 DEF Unflag, Step, NoOutput
<1>13. ASSUME CountFails(q) PROVE SameText(r)
  BY <1>13 DEF CountFails, LeaveGenerate, EntryOf, Streamed, Step, Reply, Private
<1>14. ASSUME StartModel(q) PROVE SameText(r)
  BY <1>14 DEF StartModel, EntryOf, Streamed, Step, NoOutput
<1>15. ASSUME TestText(q) PROVE SameText(r) BY <1>15 DEF TestText, Step, Private, NoOutput
<1>16. ASSUME PopText(q) PROVE SameText(r) BY <1>16, <1>1 DEF PopText, Step, TakeText, RunPC
<1>17. ASSUME PopFails(q) PROVE SameText(r)
  BY <1>17, <1>1 DEF PopFails, LeaveGenerate, Streamed, Step, Reply, TakeText, RunPC
<1>18. ASSUME PopEmpty(q) PROVE SameText(r)
  BY <1>18 DEF PopEmpty, LeaveGenerate, Streamed, Step, Reply, Private
<1>19. ASSUME Poll(q) PROVE SameText(r) BY <1>19 DEF Poll, Step, Private
<1>20. ASSUME JoinAgain(q) PROVE SameText(r) BY <1>20 DEF JoinAgain, Step, Private, NoOutput
<1>21. ASSUME Answer(q) PROVE SameText(r)
  BY <1>21 DEF Answer, LeaveGenerate, Streamed, Step, Reply, Private
<1>22. ASSUME CallbackNormal(q) PROVE SameText(r) BY <1>22 DEF CallbackNormal, Thread, Callback
<1>23. ASSUME WholeText(q) PROVE SameText(r) BY <1>23, <1>1 DEF WholeText, Thread, Callback, Live
<1>24. ASSUME HalfText(q) PROVE SameText(r) BY <1>24, <1>1 DEF HalfText, Thread, Callback, Live
<1>25. ASSUME CloseRun(q) PROVE SameText(r) BY <1>25 DEF CloseRun, Thread, Callback
<1>26. ASSUME EndThread(q) PROVE SameText(r) BY <1>26 DEF EndThread, Thread, Callback
<1>27. ASSUME RunFails(q) PROVE SameText(r) BY <1>27 DEF RunFails, Thread, Callback
<1> QED
  BY <1>2, <1>3, <1>4, <1>5, <1>6, <1>7, <1>8, <1>9, <1>10, <1>11, <1>12, <1>13, <1>14, <1>15,
      <1>16, <1>17, <1>18, <1>19, <1>20, <1>21, <1>22, <1>23, <1>24, <1>25, <1>26, <1>27
    DEF RequestStep, GateStep, GenerateStep, ModelStep

\* The steps of the request and its run extend the output and global_text in order.
LEMMA OwnStepText ==
    ASSUME TypeOK, Places, Undisturbed, Undisturbed', NEW r \in Request, TextAt(r),
           RequestStep(r)
    PROVE  TextAt(r)'
<1>0. SameText(r) => TextAt(r)' BY SameTextAt
<1> USE DEF TypeOK
<1>1. CASE ClearText(r) BY <1>1 DEF ClearText, Step, TextAt, RunPC
<1>2. CASE StartModel(r)
  <2>1. pc[r] = "prompt" /\ pc'[r] = "drain" /\ global_text' = global_text
    BY <1>2 DEF StartModel, EntryOf, Streamed, Step, Undisturbed, Stray, Places, text
  <2>2. /\ rkllm_output'[r] = <<>> /\ ~half'[r] /\ chars'[r] = 0
    BY <1>2, <2>1 DEF StartModel, NoOutput, Places, Fresh, ThreadAtPC, BeforePC, RunPC
  <2>3. global_text' = <<>> BY <2>1 DEF TextAt
  <2> QED BY <2>1, <2>2, <2>3 DEF TextAt, RunText, RunPC
<1>3. CASE PopText(r)
  <2> DEFINE out == rkllm_output[r]
  <2>1. /\ pc[r] \in RunPC /\ pc'[r] \in RunPC /\ pc'[r] \notin {"clearState", "prompt"}
        /\ global_text # <<>> /\ global_text' = Tail(global_text)
        /\ rkllm_output'[r] = Append(out, Head(global_text))
        /\ UNCHANGED <<split_byte_data, half, chars>>
    BY <1>3 DEF PopText, TakeText, Step, RunPC, model
  <2>2. RunText(r) BY <2>1 DEF TextAt
  <2>3. out \in Seq(Char) /\ global_text \in Seq(Char) OBVIOUS
  <2>4. /\ Len(rkllm_output'[r]) = Len(out) + 1 /\ Len(global_text') = Len(global_text) - 1
        /\ rkllm_output'[r][Len(out) + 1] = global_text[1]
        /\ \A i \in 1 .. Len(out) : rkllm_output'[r][i] = out[i]
        /\ \A i \in 1 .. Len(global_text') : global_text'[i] = global_text[i + 1]
        /\ 1 \in 1 .. Len(global_text)
        /\ Len(out) \in Nat /\ Len(global_text) \in Nat
    BY <2>1, <2>3
  <2> HIDE DEF TypeOK
  <2>a. /\ \A i \in 1 .. Len(out) : out[i] = <<r, i>>
        /\ \A i \in 1 .. Len(global_text) : global_text[i] = <<r, Len(out) + i>>
    BY <2>2 DEF RunText
  <2> DEFINE new == rkllm_output'[r]
  <2> HIDE DEF out, new
  <2>5. ASSUME NEW i \in 1 .. Len(new) PROVE new[i] = <<r, i>>
    <3>1. CASE i = Len(out) + 1 BY <2>4, <2>a, <3>1 DEF new
    <3>2. CASE i # Len(out) + 1
      <4>1. i \in 1 .. Len(out) BY <2>4, <3>2 DEF new
      <4> QED BY <2>4, <2>a, <4>1 DEF new
    <3> QED BY <3>1, <3>2
  <2>6. ASSUME NEW i \in 1 .. Len(global_text') PROVE global_text'[i] = <<r, Len(new) + i>>
    <3>1. i + 1 \in 1 .. Len(global_text) BY <2>4
    <3>2. global_text'[i] = <<r, Len(out) + (i + 1)>> BY <2>4, <2>a, <3>1
    <3>3. Len(out) + (i + 1) = Len(new) + i BY <2>4 DEF new
    <3> QED BY <3>2, <3>3
  <2> USE DEF out, new
  <2>7. Matches(r)' => Len(rkllm_output'[r]) + Len(global_text') = chars'[r]
    BY <2>1, <2>2, <2>4 DEF RunText, Matches
  <2>8. half'[r] => split_byte_data' \in {r, Garbled} BY <2>1, <2>2 DEF RunText
  <2> QED BY <2>1, <2>5, <2>6, <2>7, <2>8 DEF TextAt, RunText
<1>4. CASE WholeText(r)
  <2>1. Live(r) BY <1>4 DEF WholeText, Thread, Live
  <2>2. pc[r] \in RunPC /\ RunText(r) BY <2>1, OneRun DEF TextAt
  <2>3. pc'[r] = pc[r] /\ rkllm_output'[r] = rkllm_output[r] /\ ~half'[r]
        /\ chars'[r] = chars[r] + 1
    BY <1>4 DEF WholeText, Callback
  <2>4. CASE Matches(r)
    <3> DEFINE c == <<r, chars[r] + 1>>
    <3>1. global_text' = Append(global_text, c) /\ split_byte_data' = Nobody
      BY <1>4, <2>4, RequestAssumption DEF WholeText, Matches
    <3>2. /\ Len(global_text') = Len(global_text) + 1
          /\ global_text'[Len(global_text) + 1] = c
          /\ \A i \in 1 .. Len(global_text) : global_text'[i] = global_text[i]
          /\ Len(global_text) \in Nat /\ Len(rkllm_output[r]) \in Nat
      BY <3>1
    <3>a. chars[r] \in Nat BY BoundAssumption
    <3>b. Len(rkllm_output'[r]) = Len(rkllm_output[r]) /\ chars'[r] = chars[r] + 1 BY <2>3
    <3> HIDE DEF TypeOK
    <3>3. Len(rkllm_output[r]) + Len(global_text) = chars[r] BY <2>2, <2>4 DEF RunText
    <3>e. Len(rkllm_output[r]) + (Len(global_text) + 1) = chars[r] + 1
      <4> DEFINE l == Len(rkllm_output[r])
                 k == Len(global_text)
                 n == chars[r]
      <4>1. l \in Nat /\ k \in Nat BY <3>2
      <4>2. n \in Nat /\ l + k = n BY <3>3, <3>a
      <4> HIDE DEF l, k, n
      <4>3. l + (k + 1) = n + 1 BY <4>1, <4>2
      <4> QED BY <4>3 DEF l, k, n
    <3>4. ASSUME NEW i \in 1 .. Len(global_text')
          PROVE  global_text'[i] = <<r, Len(rkllm_output'[r]) + i>>
      <4>1. CASE i = Len(global_text) + 1
        <5>1. global_text'[i] = <<r, chars[r] + 1>> BY <3>2, <4>1 DEF c
        <5>2. Len(rkllm_output[r]) + i = chars[r] + 1 BY <3>e, <4>1
        <5> QED BY <3>b, <5>1, <5>2
      <4>2. CASE i # Len(global_text) + 1
        <5>1. i \in 1 .. Len(global_text) BY <3>2, <4>2
        <5> QED BY <2>2, <2>3, <3>2, <5>1 DEF RunText
      <4> QED BY <4>1, <4>2
    <3>5. Len(rkllm_output'[r]) + Len(global_text') = chars'[r]
      <4>1. Len(global_text') = Len(global_text) + 1 BY <3>2
      <4> QED BY <3>b, <3>e, <4>1
    <3> QED BY <2>2, <2>3, <3>4, <3>5 DEF TextAt, RunText, RunPC
  <2>5. CASE ~Matches(r)
    <3>1. split_byte_data' = Garbled /\ global_text' = global_text
      BY <1>4, <2>2, <2>5, RequestAssumption DEF WholeText, RunText, Matches
    <3> QED BY <2>2, <2>3, <3>1, RequestAssumption DEF TextAt, RunText, Matches, RunPC
  <2> QED BY <2>4, <2>5
<1>5. CASE HalfText(r)
  <2>1. Live(r) BY <1>5 DEF HalfText, Thread, Live
  <2>2. pc[r] \in RunPC /\ RunText(r) BY <2>1, OneRun DEF TextAt
  <2>3. /\ pc'[r] = pc[r] /\ UNCHANGED <<rkllm_output, global_text, chars>>
        /\ ~half[r] /\ half'[r]
        /\ split_byte_data' = IF split_byte_data = Nobody THEN r ELSE Garbled
    BY <1>5 DEF HalfText, Callback
  <2> QED BY <2>2, <2>3, RequestAssumption DEF TextAt, RunText, Matches, RunPC
<1> USE DEF SameText, RunPC, gate, text, model
<1>6. ASSUME TestFlag(r) PROVE SameText(r) BY <1>6 DEF TestFlag, Step, Reply, Private, NoOutput
<1>7. ASSUME TestState(r) PROVE SameText(r) BY <1>7 DEF TestState, Step, Reply, Private, NoOutput
<1>8. ASSUME Acquire(r) PROVE SameText(r) BY <1>8 DEF Acquire, Step, NoOutput
<1>9. ASSUME SetFlag(r) PROVE SameText(r) BY <1>9 DEF SetFlag, Step, NoOutput
<1>10. ASSUME Refuse(r) PROVE SameText(r) BY <1>10 DEF Refuse, Step, Reply, Private, NoOutput
<1>11. ASSUME ClearState(r) PROVE SameText(r) BY <1>11 DEF ClearState, Step, NoOutput
<1>12. ASSUME BadMessage(r) PROVE SameText(r)
  BY <1>12 DEF BadMessage, Step, Reply, Private, NoOutput
<1>13. ASSUME ReturnStream(r) PROVE SameText(r)
  BY <1>13 DEF ReturnStream, Step, Reply, Private, NoOutput
<1>14. ASSUME Release(r) PROVE SameText(r) BY <1>14 DEF Release, Step, NoOutput
<1>15. ASSUME Unflag(r) PROVE SameText(r) BY <1>15 DEF Unflag, Step, NoOutput
<1>16. ASSUME CountFails(r) PROVE SameText(r)
  BY <1>16 DEF CountFails, LeaveGenerate, EntryOf, Streamed, Step, Reply, Private
<1>17. ASSUME TestText(r) PROVE SameText(r) BY <1>17 DEF TestText, Step, Private, NoOutput
<1>18. ASSUME PopFails(r) PROVE SameText(r)
  BY <1>18 DEF PopFails, LeaveGenerate, Streamed, Step, Reply, TakeText
<1>19. ASSUME PopEmpty(r) PROVE SameText(r)
  BY <1>19 DEF PopEmpty, LeaveGenerate, Streamed, Step, Reply, Private
<1>20. ASSUME Poll(r) PROVE SameText(r) BY <1>20 DEF Poll, Step, Private
<1>21. ASSUME JoinAgain(r) PROVE SameText(r) BY <1>21 DEF JoinAgain, Step, Private, NoOutput
<1>22. ASSUME Answer(r) PROVE SameText(r)
  BY <1>22 DEF Answer, LeaveGenerate, Streamed, Step, Reply, Private
<1>23. ASSUME CallbackNormal(r) PROVE SameText(r) BY <1>23 DEF CallbackNormal, Thread, Callback
<1>24. ASSUME CloseRun(r) PROVE SameText(r) BY <1>24 DEF CloseRun, Thread, Callback
<1>25. ASSUME EndThread(r) PROVE SameText(r) BY <1>25 DEF EndThread, Thread, Callback
<1>26. ASSUME RunFails(r) PROVE SameText(r) BY <1>26 DEF RunFails, Thread, Callback
<1> HIDE DEF SameText
<1> QED
  BY <1>0, <1>1, <1>2, <1>3, <1>4, <1>5, <1>6, <1>7, <1>8, <1>9, <1>10, <1>11, <1>12, <1>13,
      <1>14, <1>15, <1>16, <1>17, <1>18, <1>19, <1>20, <1>21, <1>22, <1>23, <1>24, <1>25,
      <1>26
    DEF RequestStep, GateStep, GenerateStep, ModelStep

\* Every step keeps the text of every request, its own and the others'.
LEMMA TextStep ==
    ASSUME TypeOK, Places, TextFollowsRun, NEW q \in Request, RequestStep(q)
    PROVE  TextFollowsRun'
<1> SUFFICES ASSUME Undisturbed', NEW r \in Request PROVE TextAt(r)'
  BY DEF TextFollowsRun, TextAt
<1>1. Undisturbed BY CalmBefore
<1>2. TextAt(r) BY <1>1 DEF TextFollowsRun, TextAt
<1>3. CASE q = r BY <1>1, <1>2, <1>3, OwnStepText
<1>4. CASE q # r BY <1>1, <1>2, <1>4, OthersText, SameTextAt
<1> QED BY <1>3, <1>4

-----------------------------------------------------------------------------
(* Bytes left over *)

\* A run that is over stays as it was cut or not.
LEMMA NoCutBefore ==
    ASSUME TypeOK, Places, NEW r \in Request, RequestStep(r), NoCut'
    PROVE  NoCut
<1> DEFINE Kept == \A q \in Request : Cut(q) => Cut(q)'
<1>0. Kept => NoCut BY DEF NoCut
<1> USE DEF Cut, TypeOK, gate, text, model
<1>1. ASSUME TestFlag(r) PROVE Kept BY <1>1 DEF TestFlag, Step, Reply, Private, NoOutput
<1>2. ASSUME TestState(r) PROVE Kept BY <1>2 DEF TestState, Step, Reply, Private, NoOutput
<1>3. ASSUME Acquire(r) PROVE Kept BY <1>3 DEF Acquire, Step, NoOutput
<1>4. ASSUME SetFlag(r) PROVE Kept BY <1>4 DEF SetFlag, Step, NoOutput
<1>5. ASSUME Refuse(r) PROVE Kept BY <1>5 DEF Refuse, Step, Reply, Private, NoOutput
<1>6. ASSUME ClearText(r) PROVE Kept BY <1>6 DEF ClearText, Step, NoOutput
<1>7. ASSUME ClearState(r) PROVE Kept BY <1>7 DEF ClearState, Step, NoOutput
<1>8. ASSUME BadMessage(r) PROVE Kept BY <1>8 DEF BadMessage, Step, Reply, Private, NoOutput
<1>9. ASSUME ReturnStream(r) PROVE Kept BY <1>9 DEF ReturnStream, Step, Reply, Private, NoOutput
<1>10. ASSUME Release(r) PROVE Kept BY <1>10 DEF Release, Step, NoOutput
<1>11. ASSUME Unflag(r) PROVE Kept BY <1>11 DEF Unflag, Step, NoOutput
<1>12. ASSUME CountFails(r) PROVE Kept
  BY <1>12 DEF CountFails, LeaveGenerate, EntryOf, Streamed, Step, Reply, Private
<1>13. ASSUME StartModel(r) PROVE Kept
  <2>1. thread[r] = "none"
    BY <1>13 DEF StartModel, EntryOf, Streamed, Step, Places, ThreadAtPC, BeforePC
  <2> QED BY <1>13, <2>1 DEF StartModel, EntryOf, Streamed, Step, NoOutput
<1>14. ASSUME TestText(r) PROVE Kept BY <1>14 DEF TestText, Step, Private, NoOutput
<1>15. ASSUME PopText(r) PROVE Kept BY <1>15 DEF PopText, Step, TakeText
<1>16. ASSUME PopFails(r) PROVE Kept
  BY <1>16 DEF PopFails, LeaveGenerate, Streamed, Step, Reply, TakeText
<1>17. ASSUME PopEmpty(r) PROVE Kept
  BY <1>17 DEF PopEmpty, LeaveGenerate, Streamed, Step, Reply, Private
<1>18. ASSUME Poll(r) PROVE Kept BY <1>18 DEF Poll, Step, Private
<1>19. ASSUME JoinAgain(r) PROVE Kept BY <1>19 DEF JoinAgain, Step, Private, NoOutput
<1>20. ASSUME Answer(r) PROVE Kept
  BY <1>20 DEF Answer, LeaveGenerate, Streamed, Step, Reply, Private
<1>21. ASSUME CallbackNormal(r) PROVE Kept BY <1>21 DEF CallbackNormal, Thread, Callback
<1>22. ASSUME WholeText(r) PROVE Kept BY <1>22 DEF WholeText, Thread, Callback
<1>23. ASSUME HalfText(r) PROVE Kept BY <1>23 DEF HalfText, Thread, Callback
<1>24. ASSUME CloseRun(r) PROVE Kept BY <1>24 DEF CloseRun, Thread, Callback
<1>25. ASSUME EndThread(r) PROVE Kept BY <1>25 DEF EndThread, Thread, Callback
<1>26. ASSUME RunFails(r) PROVE Kept BY <1>26 DEF RunFails, Thread, Callback
<1> HIDE DEF Kept
<1> QED
  BY <1>0, <1>1, <1>2, <1>3, <1>4, <1>5, <1>6, <1>7, <1>8, <1>9, <1>10, <1>11, <1>12, <1>13,
      <1>14, <1>15, <1>16, <1>17, <1>18, <1>19, <1>20, <1>21, <1>22, <1>23, <1>24, <1>25,
      <1>26
    DEF RequestStep, GateStep, GenerateStep, ModelStep

\* Which runs are inside a character, and the bytes left over, are the same.
SameBytes ==
    /\ split_byte_data' = split_byte_data
    /\ \A r \in Request : (Live(r) /\ half[r])' <=> (Live(r) /\ half[r])

\* The decoder is at most one character into the run that holds the lock.
LEMMA BytesStep ==
    ASSUME TypeOK, Places, CleanBytes, NEW r \in Request, RequestStep(r)
    PROVE  CleanBytes'
<1> SUFFICES ASSUME Undisturbed', NoCut'
             PROVE  /\ \A q \in Request : (Live(q) /\ half[q])' => split_byte_data' = q
                    /\ split_byte_data' # Nobody =>
                           \E q \in Request : (Live(q) /\ half[q])' /\ split_byte_data' = q
  BY DEF CleanBytes
<1>a. Undisturbed /\ NoCut BY CalmBefore, NoCutBefore
<1>b. /\ \A q \in Request : Live(q) /\ half[q] => split_byte_data = q
      /\ split_byte_data # Nobody =>
             \E q \in Request : Live(q) /\ half[q] /\ split_byte_data = q
  BY <1>a DEF CleanBytes
<1>c. ASSUME Live(r), NEW q \in Request \ {r} PROVE ~Live(q)
  BY <1>a, <1>c, OneRun
<1>0. ASSUME SameBytes
      PROVE  /\ \A q \in Request : (Live(q) /\ half[q])' => split_byte_data' = q
             /\ split_byte_data' # Nobody =>
                    \E q \in Request : (Live(q) /\ half[q])' /\ split_byte_data' = q
  BY <1>0, <1>b DEF SameBytes
<1> USE DEF TypeOK
<1>1. CASE WholeText(r)
  <2>1. Live(r) BY <1>1 DEF WholeText, Thread, Live
  <2>2. Matches(r) BY <2>1, <1>b, <1>c DEF Matches
  <2>3. split_byte_data' = Nobody
    BY <1>1, <2>2, RequestAssumption DEF WholeText, Matches
  <2>4. ~half'[r] /\ \A q \in Request \ {r} : thread'[q] = thread[q]
    BY <1>1 DEF WholeText, Thread
  <2>5. \A q \in Request : ~(Live(q) /\ half[q])' BY <1>c, <2>1, <2>4 DEF Live
  <2> QED BY <2>3, <2>5
<1>2. CASE HalfText(r)
  <2>1. Live(r) BY <1>2 DEF HalfText, Thread, Live
  <2>2. split_byte_data = Nobody
    BY <1>2, <2>1, <1>b, <1>c DEF HalfText
  <2>3. /\ split_byte_data' = r /\ half'[r] /\ Live(r)'
        /\ \A q \in Request \ {r} : thread'[q] = thread[q]
    BY <1>2, <2>2 DEF HalfText, Thread, Live
  <2>4. \A q \in Request \ {r} : ~Live(q)' BY <1>c, <2>1, <2>3 DEF Live
  <2> QED BY <2>3, <2>4
<1>3. CASE EndThread(r)
  <2>1. thread'[r] = "ended" /\ half' = half /\ split_byte_data' = split_byte_data
        /\ \A q \in Request \ {r} : thread'[q] = thread[q]
    BY <1>3 DEF EndThread, Thread, text
  <2>2. ~half[r] BY <2>1 DEF NoCut, Cut
  <2> QED BY <1>0, <2>1, <2>2 DEF SameBytes, Live
<1>4. CASE StartModel(r)
  <2>1. ~half[r] /\ half' = half /\ split_byte_data' = split_byte_data
        /\ \A q \in Request \ {r} : thread'[q] = thread[q]
    BY <1>4 DEF StartModel, EntryOf, Streamed, Step, text, Places, ThreadAtPC, BeforePC, Fresh
  <2> QED BY <1>0, <2>1 DEF SameBytes, Live
<1> USE DEF SameBytes, Live, gate, text, model
<1>5. ASSUME TestFlag(r) PROVE SameBytes BY <1>5 DEF TestFlag, Step, Reply, Private, NoOutput
<1>6. ASSUME TestState(r) PROVE SameBytes BY <1>6 DEF TestState, Step, Reply, Private, NoOutput
<1>7. ASSUME Acquire(r) PROVE SameBytes BY <1>7 DEF Acquire, Step, NoOutput
<1>8. ASSUME SetFlag(r) PROVE SameBytes BY <1>8 DEF SetFlag, Step, NoOutput
<1>9. ASSUME Refuse(r) PROVE SameBytes BY <1>9 DEF Refuse, Step, Reply, Private, NoOutput
<1>10. ASSUME ClearText(r) PROVE SameBytes BY <1>10 DEF ClearText, Step, NoOutput
<1>11. ASSUME ClearState(r) PROVE SameBytes BY <1>11 DEF ClearState, Step, NoOutput
<1>12. ASSUME BadMessage(r) PROVE SameBytes
  BY <1>12 DEF BadMessage, Step, Reply, Private, NoOutput
<1>13. ASSUME ReturnStream(r) PROVE SameBytes
  BY <1>13 DEF ReturnStream, Step, Reply, Private, NoOutput
<1>14. ASSUME Release(r) PROVE SameBytes BY <1>14 DEF Release, Step, NoOutput
<1>15. ASSUME Unflag(r) PROVE SameBytes BY <1>15 DEF Unflag, Step, NoOutput
<1>16. ASSUME CountFails(r) PROVE SameBytes
  BY <1>16 DEF CountFails, LeaveGenerate, EntryOf, Streamed, Step, Reply, Private
<1>17. ASSUME TestText(r) PROVE SameBytes BY <1>17 DEF TestText, Step, Private, NoOutput
<1>18. ASSUME PopText(r) PROVE SameBytes BY <1>18 DEF PopText, Step, TakeText
<1>19. ASSUME PopFails(r) PROVE SameBytes
  BY <1>19 DEF PopFails, LeaveGenerate, Streamed, Step, Reply, TakeText
<1>20. ASSUME PopEmpty(r) PROVE SameBytes
  BY <1>20 DEF PopEmpty, LeaveGenerate, Streamed, Step, Reply, Private
<1>21. ASSUME Poll(r) PROVE SameBytes BY <1>21 DEF Poll, Step, Private
<1>22. ASSUME JoinAgain(r) PROVE SameBytes BY <1>22 DEF JoinAgain, Step, Private, NoOutput
<1>23. ASSUME Answer(r) PROVE SameBytes
  BY <1>23 DEF Answer, LeaveGenerate, Streamed, Step, Reply, Private
<1>24. ASSUME CallbackNormal(r) PROVE SameBytes BY <1>24 DEF CallbackNormal, Thread, Callback
<1>25. ASSUME CloseRun(r) PROVE SameBytes BY <1>25 DEF CloseRun, Thread, Callback
<1>26. ASSUME RunFails(r) PROVE SameBytes BY <1>26 DEF RunFails, Thread, Callback
<1> HIDE DEF SameBytes
<1> QED
  BY <1>0, <1>1, <1>2, <1>3, <1>4, <1>5, <1>6, <1>7, <1>8, <1>9, <1>10, <1>11, <1>12, <1>13,
      <1>14, <1>15, <1>16, <1>17, <1>18, <1>19, <1>20, <1>21, <1>22, <1>23, <1>24, <1>25,
      <1>26
    DEF RequestStep, GateStep, GenerateStep, ModelStep

-----------------------------------------------------------------------------
(* The invariant and the theorems *)

\* The server starts in the invariant.
LEMMA InitInvariant == Init => IInv
<1> SUFFICES ASSUME Init PROVE IInv OBVIOUS
<1> USE RequestAssumption, BoundAssumption DEF Init
<1>1. TypeOK
  <2>1. <<>> \in Seq(Char) OBVIOUS
  <2>2. global_text \in Seq(Char) /\ rkllm_output \in [Request -> Seq(Char)] BY <2>1
  <2>3. 0 \in 0 .. MaxChars OBVIOUS
  <2> QED BY <2>2, <2>3 DEF TypeOK, RequestPC, ModelThread, LLMCallState
<1>2. Places
  BY DEF Places, LockHeld, HoldsLock, ReplyAtPC, ThreadAtPC, Fresh, RunPC, BeforePC
<1>3. BusyHasOwner /\ NormalHasText BY DEF BusyHasOwner, NormalHasText
<1>4. TextFollowsRun BY DEF TextFollowsRun, RunPC
<1>5. CleanBytes BY DEF CleanBytes, Live
<1> QED BY <1>1, <1>2, <1>3, <1>4, <1>5 DEF IInv

\* Every step, and a stutter, keeps it.
LEMMA NextInvariant == IInv /\ [Next]_vars => IInv'
<1> SUFFICES ASSUME IInv, [Next]_vars PROVE IInv' OBVIOUS
<1>0. TypeOK /\ Places /\ BusyHasOwner /\ NormalHasText /\ TextFollowsRun /\ CleanBytes
  BY DEF IInv
<1>1. ASSUME NEW r \in Request, RequestStep(r) PROVE IInv'
  <2>1. TypeOK' BY <1>0, <1>1, GateType, GenerateType, ModelType DEF RequestStep
  <2>2. Places' BY <1>0, <1>1, GatePlaces, GeneratePlaces, ModelPlaces DEF RequestStep
  <2>3. BusyHasOwner' /\ NormalHasText' BY <1>0, <1>1, FlagStep, StateStep
  <2>4. TextFollowsRun' BY <1>0, <1>1, TextStep
  <2>5. CleanBytes' BY <1>0, <1>1, BytesStep
  <2> QED BY <2>1, <2>2, <2>3, <2>4, <2>5 DEF IInv
<1>2. CASE UNCHANGED vars
  <2> USE <1>2 DEF vars, gate, text, model
  <2>1. TypeOK' BY <1>0 DEF TypeOK
  <2>2. Places' BY <1>0 DEF Places, LockHeld, HoldsLock, ReplyAtPC, ThreadAtPC, Fresh
  <2>3. BusyHasOwner' /\ NormalHasText'
    BY <1>0 DEF BusyHasOwner, FlagOwner, NormalHasText, Closes
  <2>4. TextFollowsRun'
    BY <1>0 DEF TextFollowsRun, RunText, Matches, Undisturbed, Stray
  <2>5. CleanBytes'
    BY <1>0 DEF CleanBytes, NoCut, Cut, Live, Undisturbed, Stray
  <2> QED BY <2>1, <2>2, <2>3, <2>4, <2>5 DEF IInv
<1> QED BY <1>1, <1>2 DEF Next, RequestStep

\* The invariant is inductive.
THEOREM ServerInvariant == Spec => []IInv
  BY InitInvariant, NextInvariant, PTL DEF Spec

\* Every variable of the server keeps its type.
THEOREM ServerTypes == Spec => []TypeOK
<1>1. IInv => TypeOK BY DEF IInv
<1> QED BY <1>1, ServerInvariant, PTL

\* No request leaves is_blocking raised: somebody will lower it.
THEOREM BusyOwned == Spec => []BusyHasOwner
<1>1. IInv => BusyHasOwner BY DEF IInv
<1> QED BY <1>1, ServerInvariant, PTL

\* No run leaves global_state NORMAL: a run is left that will close it.
THEOREM NormalOwned == Spec => []NormalHasRun
<1>1. IInv => NormalHasRun BY DEF IInv, NormalHasText, NormalHasRun, Closes
<1> QED BY <1>1, ServerInvariant, PTL

\* While no request streams or gives up on a run, the model runs under the lock.
THEOREM RunsUnderLock == Spec => []RunUnderLock
<1>1. IInv => RunUnderLock BY OneRun DEF IInv, RunUnderLock
<1> QED BY <1>1, ServerInvariant, PTL

\* Then every output is a prefix of the text of the request's own run.
THEOREM AnswersOwnText == Spec => []OwnText
<1>1. ASSUME IInv PROVE OwnText
  <2> SUFFICES ASSUME Undisturbed, NEW r \in Request
               PROVE  \A i \in DOMAIN rkllm_output[r] : rkllm_output[r][i] = <<r, i>>
    BY DEF OwnText
  <2>1. CASE pc[r] \in RunPC
    <3>1. RunText(r) BY <1>1, <2>1 DEF IInv, TextFollowsRun
    <3>2. DOMAIN rkllm_output[r] = 1 .. Len(rkllm_output[r]) BY <1>1 DEF IInv, TypeOK
    <3> QED BY <3>1, <3>2 DEF RunText
  <2>2. CASE pc[r] \notin RunPC BY <1>1, <2>2 DEF IInv, Places, Fresh
  <2> QED BY <2>1, <2>2
<1> QED BY <1>1, ServerInvariant, PTL

\* The loop that ends after its run has ended leaves nothing of it behind.
THEOREM DrainsWholeText == Spec => DrainedIsWhole
<1> DEFINE Drained(r) ==
        (/\ pc[r] = "drain" /\ pc'[r] = "poll" /\ ~Live(r)
         /\ Undisturbed /\ \A s \in Request : ~Cut(s))
            => Len(rkllm_output[r]) = chars[r]
<1>1. ASSUME IInv, [Next]_vars, NEW r \in Request PROVE Drained(r)
  <2> SUFFICES ASSUME pc[r] = "drain", pc'[r] = "poll", ~Live(r), Undisturbed, NoCut
               PROVE  Len(rkllm_output[r]) = chars[r]
    BY DEF NoCut
  <2> USE <1>1 DEF IInv
  <2>1. global_text = <<>>
    <3>1. PICK q \in Request : RequestStep(q)
      BY DEF vars, Next, RequestStep
    <3> USE DEF TypeOK, Step
    <3>2. ~GateStep(q)
      BY DEF GateStep, TestFlag, TestState, Acquire, SetFlag, Refuse, ClearText, ClearState,
           BadMessage, ReturnStream, Release, Unflag
    <3>3. ~ModelStep(q)
      BY DEF ModelStep, Callback, CallbackNormal, WholeText, HalfText, CloseRun, EndThread,
           RunFails
    <3>4. ~(CountFails(q) \/ StartModel(q) \/ PopText(q) \/ PopFails(q) \/ PopEmpty(q)
            \/ Poll(q) \/ JoinAgain(q) \/ Answer(q))
      BY DEF CountFails, StartModel, EntryOf, PopText, PopFails, PopEmpty, Poll, JoinAgain,
           Answer, LeaveGenerate
    <3>5. TestText(q) BY <3>1, <3>2, <3>3, <3>4 DEF RequestStep, GenerateStep
    <3> QED BY <3>5 DEF TestText
  <2>2. thread[r] = "ended" /\ ~half[r]
    BY DEF Live, TypeOK, ModelThread, Places, ThreadAtPC, RunPC, NoCut, Cut
  <2>3. split_byte_data = Nobody
    <3>1. \A q \in Request : Live(q) => q = r BY OneRun DEF RunPC
    <3> QED BY <3>1 DEF CleanBytes
  <2>4. RunText(r) BY DEF TextFollowsRun, RunPC
  <2>5. Len(rkllm_output[r]) + Len(global_text) = chars[r]
    BY <2>2, <2>3, <2>4 DEF RunText, Matches
  <2>6. Len(global_text) = 0 /\ Len(rkllm_output[r]) \in Nat BY <2>1 DEF TypeOK
  <2> QED BY <2>5, <2>6
<1>2. IInv /\ [Next]_vars => [\A r \in Request : Drained(r)]_vars BY <1>1
<1> QED BY <1>2, ServerInvariant, PTL DEF Spec, DrainedIsWhole

=============================================================================
