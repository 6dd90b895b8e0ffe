------------------------------ MODULE BusyGate ------------------------------
(*****************************************************************************)
(* The gate in front of every agent of the repository: a Flask handler tests *)
(* the global is_blocking, takes lock, raises the flag, works, releases the  *)
(* lock and clears the flag.  Test and lock are separate steps, and so are   *)
(* release and clearing, so handlers of a threaded server interleave at each *)
(* of them.  The work itself belongs to the modules that extend this one.    *)
(*****************************************************************************)
CONSTANTS
    Server,     \* the agents' processes
    Request,    \* the requests they may be sent, each at most once to each
    Nobody

ASSUME NobodyAssumption == Nobody \notin Request

VARIABLES
    at,             \* [Server -> [Request -> Place]]
    reply,          \* [Server -> [Request -> what the handler answers]]
    lock,           \* [Server -> who holds lock]
    is_blocking     \* [Server -> BOOLEAN]

gate == <<at, reply, lock, is_blocking>>

\* passed: waits for lock.  locked: before is_blocking = True.  leaving: before
\* lock.release().  released: before is_blocking = False.  cut: the process has gone.
Inside == {"locked", "busy", "leaving"}
Open   == {"passed", "released"} \union Inside
Place  == {"away", "gone", "cut"} \union Open

\* 503, 400, 500, 200
Answers == {"none", "refused", "invalid", "error", "answer"}

GateTypeOK ==
    /\ at \in [Server -> [Request -> Place]]
    /\ reply \in [Server -> [Request -> Answers]]
    /\ lock \in [Server -> Request \union {Nobody}]
    /\ is_blocking \in [Server -> BOOLEAN]

GateInit ==
    /\ at = [s \in Server |-> [r \in Request |-> "away"]]
    /\ reply = [s \in Server |-> [r \in Request |-> "none"]]
    /\ lock = [s \in Server |-> Nobody]
    /\ is_blocking = [s \in Server |-> FALSE]

Move(s, r, from, to) == at[s][r] = from /\ at' = [at EXCEPT ![s][r] = to]

TurnAway(s, r) ==
    /\ is_blocking[s]
    /\ Move(s, r, "away", "gone")
    /\ reply' = [reply EXCEPT ![s][r] = "refused"]
    /\ UNCHANGED <<lock, is_blocking>>

\* A form the handler answers with 400, also tested before the lock.
TurnAwayInvalid(s, r) ==
    /\ ~is_blocking[s]
    /\ Move(s, r, "away", "gone")
    /\ reply' = [reply EXCEPT ![s][r] = "invalid"]
    /\ UNCHANGED <<lock, is_blocking>>

Pass(s, r) ==
    /\ ~is_blocking[s]
    /\ Move(s, r, "away", "passed")
    /\ UNCHANGED <<reply, lock, is_blocking>>

Acquire(s, r) ==
    /\ lock[s] = Nobody
    /\ Move(s, r, "passed", "locked")
    /\ lock' = [lock EXCEPT ![s] = r]
    /\ UNCHANGED <<reply, is_blocking>>

RaiseFlag(s, r) ==
    /\ Move(s, r, "locked", "busy")
    /\ is_blocking' = [is_blocking EXCEPT ![s] = TRUE]
    /\ UNCHANGED <<reply, lock>>

\* The try block returns v, or its except clause answers 500.
Leave(s, r, v) ==
    /\ Move(s, r, "busy", "leaving")
    /\ reply' = [reply EXCEPT ![s][r] = v]
    /\ UNCHANGED <<lock, is_blocking>>

\* Mutant: without the finally clause, an error leaves with the lock.
Release_OnSuccess(s, r) ==
    /\ Move(s, r, "leaving", "released")
    /\ lock' = [lock EXCEPT ![s] = IF reply[s][r] = "error" THEN @ ELSE Nobody]
    /\ UNCHANGED <<reply, is_blocking>>

Release(s, r) ==
    /\ Move(s, r, "leaving", "released")
    /\ lock' = [lock EXCEPT ![s] = Nobody]
    /\ UNCHANGED <<reply, is_blocking>>

\* Mutant: without the finally clause, an error leaves the flag raised.
LowerFlag_OnSuccess(s, r) ==
    /\ Move(s, r, "released", "gone")
    /\ is_blocking' = [is_blocking EXCEPT ![s] = @ /\ reply[s][r] = "error"]
    /\ UNCHANGED <<reply, lock>>

\* The response is sent when the finally clause is over.
LowerFlag(s, r) ==
    /\ Move(s, r, "released", "gone")
    /\ is_blocking' = [is_blocking EXCEPT ![s] = FALSE]
    /\ UNCHANGED <<reply, lock>>

\* The process goes down and a new one starts with its globals as they were at first.
Crash(s) ==
    /\ at' = [at EXCEPT ![s] = [r \in Request |-> IF @[r] \in Open THEN "cut" ELSE @[r]]]
    /\ lock' = [lock EXCEPT ![s] = Nobody]
    /\ is_blocking' = [is_blocking EXCEPT ![s] = FALSE]
    /\ UNCHANGED reply

\* Every agent that is busy has a request that will lower the flag: no order of the
\* handlers' steps leaves an agent answering 503 for ever (is_blocking is cleared after
\* lock.release(), so a handler may also clear the flag the next one has just raised).
BusyHasOwner ==
    \A s \in Server : is_blocking[s] =>
        \E r \in Request : at[s][r] \in {"busy", "leaving", "released"}

=============================================================================
