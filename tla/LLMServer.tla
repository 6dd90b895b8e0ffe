------------------------------ MODULE LLMServer ------------------------------
(*****************************************************************************)
(* The model server of a board (agent/server/flask_openai_server.py and its  *)
(* copy in multi-agent/rk_server).  A threaded Flask server answers each     *)
(* /v1/chat/completions on a thread of its own, which starts a model thread. *)
(* The model's callbacks hand the text over in globals: lock and is_blocking *)
(* are meant to keep the requests apart.                                     *)
(*****************************************************************************)
EXTENDS Integers, Sequences, FiniteSets

CONSTANTS
    Request,    \* the requests the server receives; each is also the name of its model run
    MaxChars,   \* bound on the characters of one run
    Streaming,  \* whether clients may ask for a streamed response
    Nobody,     \* no request
    Garbled     \* a character decoded from the bytes of two runs

ASSUME RequestAssumption ==
    Nobody \notin Request /\ Garbled \notin Request /\ Garbled # Nobody
ASSUME BoundAssumption == MaxChars \in Nat
ASSUME StreamingAssumption == Streaming \in BOOLEAN

VARIABLES
    pc, reply,          \* [Request -> label], [Request -> what the client gets]
    lock,               \* who holds lock
    is_blocking, global_text, global_state,
    split_byte_data,    \* bytes not yet decoded: Nobody: none; r: the head of r's next
                        \* character; Garbled: bytes that no further byte makes decodable
    thread,             \* [Request -> the state of model_thread]
    chars, half,        \* [Request -> characters the run has completed], [-> it is inside one]
    rkllm_output,       \* [Request -> the text the request has taken from global_text]
    finished            \* [Request -> model_thread_finished]

gate  == <<lock, is_blocking>>
text  == <<global_text, split_byte_data>>
model == <<thread, chars, half>>
vars  == <<pc, reply, gate, text, global_state, model, rkllm_output, finished>>

Char == (Request \X (1 .. MaxChars)) \union {Garbled}

\* Between acquire and release, and while generate() runs.
GeneratePC == {"generate", "drain", "pop", "poll", "join"}
LockedPC == {"setFlag", "validate", "clearState", "prompt", "release"} \union GeneratePC
RequestPC == {"new", "testState", "acquire", "unflag", "done"} \union LockedPC

\* none: not started.  normal: inside a callback that has set global_state.
\* closed: the closing callback is over, run() has yet to return.
ModelThread == {"none", "running", "normal", "closed", "ended"}
Live(r) == thread[r] \in {"running", "normal", "closed"}

\* RKLLM_RUN_NORMAL, RKLLM_RUN_FINISH, RKLLM_RUN_ERROR; -1 before a run
LLMCallState == {-1, 0, 2, 3}

TypeOK ==
    /\ pc \in [Request -> RequestPC]
    /\ reply \in [Request -> {"none", "busy", "refused", "failed", "stream", "answer"}]
    /\ lock \in Request \union {Nobody}
    /\ is_blocking \in BOOLEAN
    /\ global_text \in Seq(Char)
    /\ global_state \in LLMCallState
    /\ split_byte_data \in Request \union {Nobody, Garbled}
    /\ thread \in [Request -> ModelThread]
    /\ chars \in [Request -> 0 .. MaxChars]
    /\ \A r \in Request : thread[r] = "normal" => chars[r] < MaxChars
    /\ half \in [Request -> BOOLEAN]
    /\ rkllm_output \in [Request -> Seq(Char)]
    /\ finished \in [Request -> BOOLEAN]

Init ==
    /\ pc = [r \in Request |-> "new"]
    /\ reply = [r \in Request |-> "none"]
    /\ lock = Nobody
    /\ is_blocking = FALSE
    /\ global_text = <<>>
    /\ global_state = -1
    /\ split_byte_data = Nobody
    /\ thread = [r \in Request |-> "none"]
    /\ chars = [r \in Request |-> 0]
    /\ half = [r \in Request |-> FALSE]
    /\ rkllm_output = [r \in Request |-> <<>>]
    /\ finished = [r \in Request |-> FALSE]

-----------------------------------------------------------------------------
(* chat_completions: the gate *)

Step(r, from, to) == pc[r] = from /\ pc' = [pc EXCEPT ![r] = to]

Reply(r, what) == reply' = [reply EXCEPT ![r] = what]

\* The request touches nothing that others see.
Private == UNCHANGED <<gate, text, global_state, model>>
NoOutput == UNCHANGED <<rkllm_output, finished>>

\* "is_blocking or global_state == 0" reads one global after the other.
TestFlag(r) ==
    /\ \/ ~is_blocking /\ Step(r, "new", "testState") /\ UNCHANGED reply
       \/ is_blocking /\ Step(r, "new", "done") /\ Reply(r, "busy")
    /\ Private /\ NoOutput

TestState(r) ==
    /\ \/ global_state # 0 /\ Step(r, "testState", "acquire") /\ UNCHANGED reply
       \/ global_state = 0 /\ Step(r, "testState", "done") /\ Reply(r, "busy")
    /\ Private /\ NoOutput

Acquire(r) ==
    /\ Step(r, "acquire", "setFlag")
    /\ lock = Nobody /\ lock' = r
    /\ UNCHANGED <<reply, is_blocking, text, global_state, model>> /\ NoOutput

SetFlag(r) ==
    /\ Step(r, "setFlag", "validate")
    /\ is_blocking' = TRUE
    /\ UNCHANGED <<reply, lock, text, global_state, model>> /\ NoOutput

\* Mutant: the refusal returns before the try, past the finally clause.
Refuse_NoFinally(r) ==
    /\ Step(r, "validate", "done")
    /\ Reply(r, "refused")
    /\ Private /\ NoOutput

\* The body is not JSON, or has no messages.
Refuse(r) ==
    /\ Step(r, "validate", "release")
    /\ Reply(r, "refused")
    /\ Private /\ NoOutput

\* Mutant: the list of the last request is not replaced.
ClearText_Keeps(r) ==
    /\ Step(r, "validate", "clearState")
    /\ UNCHANGED reply /\ Private /\ NoOutput

ClearText(r) ==
    /\ Step(r, "validate", "clearState")
    /\ global_text' = <<>>
    /\ UNCHANGED <<reply, gate, split_byte_data, global_state, model>> /\ NoOutput

\* Mutant: RKLLM_RUN_WAITING, a state the server gives no meaning to.
ClearState_Waiting(r) ==
    /\ Step(r, "clearState", "prompt")
    /\ global_state' = 1
    /\ UNCHANGED <<reply, gate, text, model>> /\ NoOutput

ClearState(r) ==
    /\ Step(r, "clearState", "prompt")
    /\ global_state' = -1
    /\ UNCHANGED <<reply, gate, text, model>> /\ NoOutput

\* A message is not an object.
BadMessage(r) ==
    /\ Step(r, "prompt", "release")
    /\ Reply(r, "failed")
    /\ Private /\ NoOutput

\* A streamed response is returned before generate() has run a line of it.
ReturnStream(r) ==
    /\ Streaming
    /\ Step(r, "prompt", "release")
    /\ Reply(r, "stream")
    /\ Private /\ NoOutput

\* The finally clause: first the lock, then the flag.
Release(r) ==
    /\ Step(r, "release", "unflag")
    /\ lock' = Nobody
    /\ UNCHANGED <<reply, is_blocking, text, global_state, model>> /\ NoOutput

Unflag(r) ==
    /\ Step(r, "unflag", IF reply[r] = "stream" THEN "generate" ELSE "done")
    /\ is_blocking' = FALSE
    /\ UNCHANGED <<reply, lock, text, global_state, model>> /\ NoOutput

-----------------------------------------------------------------------------
(* generate *)

Streamed(r) == reply[r] = "stream"

\* next(generate()) runs in the handler, a stream in the WSGI server.
EntryOf(r) == IF Streamed(r) THEN "generate" ELSE "prompt"

\* generate() is over, and its locals with it.
LeaveGenerate(r, from, what) ==
    /\ Step(r, from, IF Streamed(r) THEN "done" ELSE "release")
    /\ IF Streamed(r) THEN UNCHANGED reply ELSE Reply(r, what)
    /\ rkllm_output' = [rkllm_output EXCEPT ![r] = <<>>]
    /\ finished' = [finished EXCEPT ![r] = FALSE]

\* The prompt cannot be encoded, or the client of a stream has gone.
CountFails(r) ==
    /\ LeaveGenerate(r, EntryOf(r), "failed")
    /\ Private

StartModel(r) ==
    /\ Step(r, EntryOf(r), "drain")
    /\ thread' = [thread EXCEPT ![r] = "running"]
    /\ UNCHANGED <<reply, gate, text, global_state, chars, half>> /\ NoOutput

\* Mutant: "> 1" for "> 0".
TestText_OffByOne(r) ==
    /\ Step(r, "drain", IF Len(global_text) > 1 THEN "pop" ELSE "poll")
    /\ UNCHANGED reply /\ Private /\ NoOutput

TestText(r) ==
    /\ Step(r, "drain", IF global_text # <<>> THEN "pop" ELSE "poll")
    /\ UNCHANGED reply /\ Private /\ NoOutput

\* global_text.pop(0), on whatever list the global names now.
TakeText ==
    /\ global_text # <<>>
    /\ global_text' = Tail(global_text)
    /\ UNCHANGED <<gate, split_byte_data, global_state, model>>

PopText(r) ==
    /\ Step(r, "pop", "drain")
    /\ TakeText
    /\ rkllm_output' = [rkllm_output EXCEPT ![r] = Append(@, Head(global_text))]
    /\ UNCHANGED <<reply, finished>>

\* The new text cannot be encoded, or the client of a stream is gone when it is yielded.
PopFails(r) ==
    /\ LeaveGenerate(r, "pop", "failed")
    /\ TakeText

\* IndexError: another request has emptied or replaced the list.
PopEmpty(r) ==
    /\ LeaveGenerate(r, "pop", "failed")
    /\ global_text = <<>>
    /\ Private

\* join(timeout=0.005), then is_alive()
Poll(r) ==
    /\ Step(r, "poll", "join")
    /\ finished' = [finished EXCEPT ![r] = ~Live(r)]
    /\ UNCHANGED <<reply, rkllm_output>> /\ Private

\* The second join has no timeout: a turn of the loop ends after the model's run.
JoinAgain(r) ==
    /\ ~Live(r) /\ ~finished[r]
    /\ Step(r, "join", "drain")
    /\ UNCHANGED reply /\ Private /\ NoOutput

\* Mutant: the answer goes out after the poll, without the second join.
Answer_NoJoin(r) ==
    /\ LeaveGenerate(r, "join", "answer")
    /\ Private

Answer(r) ==
    /\ ~Live(r) /\ finished[r]
    /\ LeaveGenerate(r, "join", "answer")
    /\ Private

-----------------------------------------------------------------------------
(* RKLLM.run and callback_impl, on the model thread *)

Thread(r, from, to) == thread[r] = from /\ thread' = [thread EXCEPT ![r] = to]

Callback == UNCHANGED <<pc, reply, gate, rkllm_output, finished>>

CallbackNormal(r) ==
    /\ chars[r] < MaxChars
    /\ Thread(r, "running", "normal")
    /\ global_state' = 0
    /\ Callback /\ UNCHANGED <<text, chars, half>>

\* A piece of text that ends a character.  It decodes unless split_byte_data holds bytes
\* it does not continue: then it is added to them, and nothing decodes any more.
WholeText(r) ==
    /\ Thread(r, "normal", "running")
    /\ chars' = [chars EXCEPT ![r] = @ + 1]
    /\ half' = [half EXCEPT ![r] = FALSE]
    /\ \/ /\ split_byte_data = (IF half[r] THEN r ELSE Nobody)
          /\ global_text' = Append(global_text, <<r, chars[r] + 1>>)
          /\ split_byte_data' = Nobody
       \/ /\ half[r] /\ split_byte_data \in Request \ {r}
          /\ global_text' = Append(global_text, Garbled)
          /\ split_byte_data' = Nobody
       \/ /\ split_byte_data # (IF half[r] THEN r ELSE Nobody)
          /\ split_byte_data' = Garbled
          /\ UNCHANGED global_text
    /\ Callback /\ UNCHANGED global_state

\* A piece of text that ends inside a character.
HalfText(r) ==
    /\ Thread(r, "normal", "running")
    /\ ~half[r]
    /\ half' = [half EXCEPT ![r] = TRUE]
    /\ split_byte_data' = IF split_byte_data = Nobody THEN r ELSE Garbled
    /\ Callback /\ UNCHANGED <<global_text, global_state, chars>>

\* Mutant: RKLLM_RUN_ERROR is logged and leaves the state alone.
CloseRun_ErrorKeepsState(r) ==
    /\ Thread(r, "running", "closed")
    /\ global_state' \in {2, global_state}
    /\ Callback /\ UNCHANGED <<text, chars, half>>

\* A run that has delivered text is closed by a callback, possibly inside a character.
CloseRun(r) ==
    /\ Thread(r, "running", "closed")
    /\ global_state' \in {2, 3}
    /\ Callback /\ UNCHANGED <<text, chars, half>>

EndThread(r) ==
    /\ Thread(r, "closed", "ended")
    /\ Callback /\ UNCHANGED <<text, global_state, chars, half>>

\* rkllm_run reports an error, or encode() throws, before any callback.
RunFails(r) ==
    /\ chars[r] = 0 /\ ~half[r]
    /\ Thread(r, "running", "ended")
    /\ Callback /\ UNCHANGED <<text, global_state, chars, half>>

-----------------------------------------------------------------------------
GateStep(r) ==
    \/ TestFlag(r) \/ TestState(r) \/ Acquire(r) \/ SetFlag(r) \/ Refuse(r)
    \/ ClearText(r) \/ ClearState(r) \/ BadMessage(r) \/ ReturnStream(r)
    \/ Release(r) \/ Unflag(r)

GenerateStep(r) ==
    \/ CountFails(r) \/ StartModel(r) \/ TestText(r) \/ PopText(r) \/ PopFails(r)
    \/ PopEmpty(r) \/ Poll(r) \/ JoinAgain(r) \/ Answer(r)

ModelStep(r) ==
    \/ CallbackNormal(r) \/ WholeText(r) \/ HalfText(r)
    \/ CloseRun(r) \/ EndThread(r) \/ RunFails(r)

Next == \E r \in Request : GateStep(r) \/ GenerateStep(r) \/ ModelStep(r)

Spec == Init /\ [][Next]_vars

\* Threads run and the model ends what it starts.  Each request queues on the lock once,
\* and only finitely many can be ahead of it, so weak fairness is enough.
Fairness ==
    \A r \in Request :
        /\ WF_vars(pc[r] # "new" /\ (GateStep(r) \/ GenerateStep(r)))
        /\ WF_vars(ModelStep(r))

FairSpec == Spec /\ Fairness

-----------------------------------------------------------------------------
(* Properties *)

\* The request has raised the flag and has yet to lower it.
FlagOwner(r) ==
    \/ pc[r] \in {"validate", "clearState", "prompt", "release", "unflag"}
    \/ pc[r] \in GeneratePC /\ lock = r

\* A raised is_blocking is lowered by somebody: whichever way a request ends, and though
\* the flag is lowered after the lock is free, no request leaves a flag behind.
BusyHasOwner == is_blocking => \E r \in Request : FlagOwner(r)

\* global_state is NORMAL only while a run may still close it, even when a request gave
\* up on its run and another has reset the state meanwhile.
NormalHasRun ==
    global_state = 0 => \E r \in Request : thread[r] \in {"running", "normal"}

\* The request has left a run without waiting for its end, or may do so.
Stray(r) == thread[r] # "none" /\ reply[r] \in {"failed", "stream"}

Undisturbed == \A r \in Request : ~Stray(r)

\* As long as no request has streamed or failed after it started the model, the lock
\* covers every run: the one model is never run twice at once.
RunUnderLock == Undisturbed => \A r \in Request : Live(r) => lock = r

\* Nor does then an answer hold a character of another run, or its own out of order or
\* with a gap.
OwnText ==
    Undisturbed =>
        \A r \in Request : \A i \in DOMAIN rkllm_output[r] : rkllm_output[r][i] = <<r, i>>

\* The run has ended inside a character, and left its bytes to the next run.
Cut(r) == thread[r] = "ended" /\ half[r]

\* The text that a run leaves when it ends under the second join is taken in the turn that
\* follows it: the loop then stops with every character of the run, provided no run was cut.
DrainedIsWhole ==
    [][\A r \in Request :
        (/\ pc[r] = "drain" /\ pc'[r] = "poll" /\ ~Live(r)
         /\ Undisturbed /\ \A s \in Request : ~Cut(s))
            => Len(rkllm_output[r]) = chars[r]]_vars

\* Every request the server has begun to handle gets its reply.
RequestsEnd == \A r \in Request : pc[r] # "new" ~> pc[r] = "done"

\* "RKLLM Server is busy! Please try again later.": the server does not stay busy.
BusyEnds == (is_blocking \/ global_state = 0) ~> (~is_blocking /\ global_state # 0)

=============================================================================
