----------------------------- MODULE LiquidFir -----------------------------
(***************************************************************************)
(* The backends that leave the delay line to a library object per channel: *)
(* liquid-dsp's firfilt, and bench/'s KFR with filter_fir.  The object     *)
(* keeps the window of the last TapCount samples; the backend only walks   *)
(* the objects and hands each its slices of the caller's buffers.          *)
(***************************************************************************)
EXTENDS FirPlan

VARIABLES
    library,   \* the one compiled in: "liquid" or "kfr"
    filters    \* per channel, the window of its object

liquidVars == <<callVars, library, filters>>

EmptyWindow == [j \in 1 .. TapCount |-> Zero]

LiquidInit ==
    /\ CallInit
    /\ library \in {"liquid", "kfr"}
    /\ filters = [c \in Channel |-> EmptyWindow]

-----------------------------------------------------------------------------
(* The libraries, from their use: firfilt_execute_block and apply() push   *)
(* each sample and then form the dot product of the window with the taps.  *)

\* The window of object q after n samples of channel c's block.
Pushed(q, c, n) ==
    LET samples == filters[q] \o BlockOf(input, c)
    IN  SubSeq(samples, n + 1, n + TapCount)

Product(window) == [k \in Tap |-> window[TapCount - k]]

\* Channel c's block goes through object q.
Through(q, c) ==
    /\ output' = Written(c, [i \in Frame |-> Product(Pushed(q, c, i + 1))])
    /\ filters' = [filters EXCEPT ![q] = Pushed(q, c, BlockSize)]
    /\ UNCHANGED <<library, input, result, stream>>

-----------------------------------------------------------------------------
LiquidExecute     == Enter /\ UNCHANGED <<library, filters>>
LiquidExecuteNull == RejectNull /\ UNCHANGED <<library, filters>>

\* Mutant: every channel goes through the first object.
FilterShared ==
    /\ library = "liquid" /\ pc = "filter"
    /\ Through(0, b)
    /\ NextChannel

\* firfilt_execute_block on channel b.
LiquidFilter ==
    /\ library = "liquid" /\ pc = "filter"
    /\ Through(b, b)
    /\ NextChannel

\* filters[b]->apply on channel b.
Apply ==
    /\ library = "kfr" /\ pc = "filter"
    /\ Through(b, b)
    /\ NextChannel

LiquidReturn == ReturnOk /\ UNCHANGED <<library, filters>>

\* firfilt_reset on every object.
LiquidClear ==
    /\ library = "liquid"
    /\ ReturnFromClear
    /\ filters' = [c \in Channel |-> EmptyWindow]
    /\ UNCHANGED library

\* Mutant: only the first object is reset.
ResetFirst ==
    /\ library = "kfr"
    /\ ReturnFromClear
    /\ filters' = [filters EXCEPT ![0] = EmptyWindow]
    /\ UNCHANGED library

\* filter->reset() on every object.
Reset ==
    /\ library = "kfr"
    /\ ReturnFromClear
    /\ filters' = [c \in Channel |-> EmptyWindow]
    /\ UNCHANGED library

LiquidNext ==
    \/ LiquidExecute \/ LiquidExecuteNull
    \/ LiquidFilter \/ Apply
    \/ LiquidReturn
    \/ LiquidClear \/ Reset

LiquidSpec == LiquidInit /\ [][LiquidNext]_liquidVars

-----------------------------------------------------------------------------
\* Every variable keeps its shape and the loop stays within the batch.
LiquidTypeOK ==
    /\ CallTypeOK
    /\ library \in {"liquid", "kfr"}
    /\ filters \in [Channel -> Seq(Sample)]

\* Each object's window is the tail of its own channel's stream, at any point
\* of a call: no object has seen a sample of another channel, missed one, or
\* kept one across clear() or reset().
WindowsFollow ==
    \A c \in Channel :
        LET heard == [j \in 1 .. TapCount |-> Zero]
                     \o (IF pc # "idle" /\ c < b THEN Extended(c) ELSE stream[c])
        IN  filters[c] = SubSeq(heard, Len(heard) - TapCount + 1, Len(heard))

=============================================================================
