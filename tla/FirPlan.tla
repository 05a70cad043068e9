------------------------------ MODULE FirPlan ------------------------------
(***************************************************************************)
(* The part of a FirPlan every backend shares: the caller's buffers, the   *)
(* null check of FirPlan::execute(), the loop over the channels, and the   *)
(* status handed back.  A backend EXTENDS this module and conjoins what    *)
(* each step does to its own state.                                        *)
(*                                                                         *)
(* A plan is driven by one thread: fir.h makes no promise about concurrent *)
(* calls on one plan, and no backend has state shared between plans.       *)
(***************************************************************************)
EXTENDS FirDefs

CONSTANT MaxBlocks  \* bound: blocks accepted between two clears

ASSUME MaxBlocksAssumption == MaxBlocks \in Nat

VARIABLES
    pc,       \* where the thread stands: outside ("idle") or in execute()
    b,        \* the loop variable of the backend's execute function
    input,    \* the caller's buffers
    output,
    result,   \* the status the last finished call returned
    stream    \* history variable: per channel, what was accepted since clear

callVars == <<pc, b, input, output, result, stream>>

NoStream == [c \in Channel |-> <<>>]

CallInit ==
    /\ pc = "idle" /\ b = 0
    /\ input \in Buffer /\ output = Silence
    /\ result = "Ok"
    /\ stream = NoStream

\* FirPlan::execute() with two buffers enters the backend.
Enter ==
    /\ pc = "idle" /\ pc' = "filter"
    /\ Len(stream[0]) < MaxBlocks * BlockSize
    /\ b' = 0
    /\ input' \in Buffer
    /\ UNCHANGED <<output, result, stream>>

\* FirPlan::execute() with a null buffer returns before the backend.
RejectNull ==
    /\ pc = "idle"
    /\ result' = "NullPointer"
    /\ UNCHANGED <<pc, b, input, output, stream>>

\* What execute() leaves of the output buffer when it has written
\* `block` as channel c's frames.
Written(c, block) ==
    [n \in BufferIndex |-> IF n \in Slice(c, BlockSize)
                           THEN block[n - c * BlockSize]
                           ELSE output[n]]

\* Mutant: the loop runs once too often.
MoreChannelsOrLast(c) == c <= Batch

\* The loop goes on to the next channel, or past the last one.
MoreChannels(c) == c < Batch

NextChannel ==
    /\ b' = b + 1
    /\ pc' = IF MoreChannels(b + 1) THEN "filter" ELSE "return"

ReturnOk ==
    /\ pc = "return" /\ pc' = "idle"
    /\ result' = "Ok"
    /\ stream' = [c \in Channel |-> stream[c] \o BlockOf(input, c)]
    /\ UNCHANGED <<b, input, output>>

ReturnFromClear ==
    /\ pc = "idle"
    /\ result' = "Ok"
    /\ stream' = NoStream
    /\ UNCHANGED <<pc, b, input, output>>

-----------------------------------------------------------------------------
CallTypeOK ==
    /\ pc \in {"idle", "filter", "carry", "return"}
    /\ b \in 0 .. Batch
    /\ pc \in {"filter", "carry"} => b < Batch
    /\ pc = "return" => b = Batch
    /\ input \in Buffer
    /\ output \in OutputBuffer
    /\ result \in {"Ok", "NullPointer", "InvalidArgument",
                   "UnsupportedConfig", "BackendError"}
    /\ stream \in [Channel -> Seq(Sample)]

\* The stream channel c will have once this call returns Ok.
Extended(c) == stream[c] \o BlockOf(input, c)

\* When execute() is about to return Ok, every channel's output is the
\* convolution of the channel's whole stream, not of this block alone.
OutputIsConvolution ==
    pc = "return" => \A c \in Channel : Filtered(output, Extended(c), c)

\* Whatever the backend, the plan behaves as FirStream promises: each call
\* that returns Ok filters the next block of every channel's stream, each
\* call that fails leaves the streams where they were, clear() forgets them.
Promise == INSTANCE FirStream WITH busy <- (pc # "idle")

KeepsPromise == Promise!Spec

=============================================================================
