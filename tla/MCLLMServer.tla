---------------------------- MODULE MCLLMServer ----------------------------
(* Model values for TLC, and a server whose requests differ in what they ask for. *)
EXTENDS LLMServer

CONSTANTS r1, r2,
    Plain       \* the requests that do not stream, with one character at most, in one piece

Limited(r) ==
    /\ reply'[r] # "stream"
    /\ thread'[r] = "normal" => chars[r] = 0
    /\ ~half'[r]

PlainNext == Next /\ \A r \in Plain : Limited(r)

PlainSpec == Init /\ [][PlainNext]_vars

\* Wherever a request or its run may not go on in one way it may in another, such as the
\* end of the run: the limits block no fair step.
FairPlainSpec == PlainSpec /\ Fairness

=============================================================================
