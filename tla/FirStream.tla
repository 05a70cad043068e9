----------------------------- MODULE FirStream -----------------------------
(***************************************************************************)
(* What a FirPlan promises, whichever backend is compiled in: calls to     *)
(* execute() process one block per channel and continue from the previous  *)
(* delay line; clear() forgets the past; a call that does not return Ok    *)
(* leaves the delay line as it was, so it can be retried.                  *)
(*                                                                         *)
(* Between a call and its return the output buffer holds anything.         *)
(***************************************************************************)
EXTENDS FirDefs

VARIABLES
    stream,   \* per channel, what was accepted since create or clear
    busy,     \* a call to execute() is running
    input,    \* the caller's buffers
    output,
    result    \* the status the last finished call returned

vars == <<stream, busy, input, output, result>>

Error == {"NullPointer", "InvalidArgument", "UnsupportedConfig", "BackendError"}

Init ==
    /\ stream = [c \in Channel |-> <<>>]
    /\ busy = FALSE
    /\ input \in Buffer
    /\ output = Silence
    /\ result = "Ok"

Begin ==
    /\ ~busy /\ busy' = TRUE
    /\ input' \in Buffer
    /\ UNCHANGED <<stream, output, result>>

Scribble ==
    /\ busy
    /\ output' \in OutputBuffer
    /\ UNCHANGED <<stream, busy, input, result>>

\* execute() returns Ok: the block now ends every channel's stream and the
\* output is its convolution with everything before it.
Accept ==
    /\ busy /\ busy' = FALSE
    /\ stream' = [c \in Channel |-> stream[c] \o BlockOf(input, c)]
    /\ \A c \in Channel : Filtered(output', stream'[c], c)
    /\ result' = "Ok"
    /\ UNCHANGED <<input, output>>

\* The output of a failed call is not specified; the streams are.
Fail ==
    /\ busy /\ busy' = FALSE
    /\ output' \in OutputBuffer
    /\ result' \in Error
    /\ UNCHANGED <<stream, input>>

\* A call with a null buffer touches nothing.
ExecuteNull ==
    /\ ~busy
    /\ result' = "NullPointer"
    /\ UNCHANGED <<stream, busy, input, output>>

Clear ==
    /\ ~busy
    /\ stream' = [c \in Channel |-> <<>>]
    /\ result' = "Ok"
    /\ UNCHANGED <<busy, input, output>>

Next == Begin \/ Scribble \/ Accept \/ Fail \/ ExecuteNull \/ Clear

Spec == Init /\ [][Next]_vars

=============================================================================
