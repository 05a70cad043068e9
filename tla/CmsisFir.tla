------------------------------ MODULE CmsisFir ------------------------------
(***************************************************************************)
(* The CMSIS-DSP FIR backend.  Each channel has an arm_fir instance that   *)
(* points at its own slice of one state vector, TapCount + BlockSize - 1   *)
(* samples long: the delay line first, then room for the block.  The       *)
(* coefficients are stored in the reverse of the API's order.              *)
(***************************************************************************)
EXTENDS FirPlan

VARIABLES state      \* CmsisFirState::state

cmsisVars == <<callVars, state>>

state_len == TapCount + BlockSize - 1

StateIndex == 0 .. Batch * state_len - 1
Zeroed     == [h \in StateIndex |-> Zero]

\* Mutant: the taps copied in the API's order.
ForwardCoeffs == [t \in Tap |-> t]

\* Which tap stands at each place of coeffs.
coeffs == [t \in Tap |-> TapCount - 1 - t]

\* Where instance c's state pointer points: set at creation, before and after
\* clear() alike.
InstanceState(c) == c * state_len

CmsisInit == CallInit /\ state = Zeroed

-----------------------------------------------------------------------------
(* The library, from its use: arm_fir puts the block behind the delay      *)
(* line, forms at frame i the sum of coeffs[t] * pState[i + t], and moves  *)
(* the last TapCount - 1 samples to the front of the slice.                *)

Loaded(c) ==
    [h \in StateIndex |->
        LET i == h - (InstanceState(c) + TapCount - 1)
        IN  IF i \in Frame THEN input[c * BlockSize + i] ELSE state[h]]

PlaceOf(k) == CHOOSE t \in Tap : coeffs[t] = k

ArmFir(c) ==
    [i \in Frame |-> [k \in Tap |-> Loaded(c)[InstanceState(c) + i + PlaceOf(k)]]]

Shifted(c) ==
    [h \in StateIndex |->
        IF h - InstanceState(c) \in 0 .. TapCount - 2
        THEN Loaded(c)[h + BlockSize]
        ELSE Loaded(c)[h]]

-----------------------------------------------------------------------------
CmsisExecute     == Enter /\ UNCHANGED state
CmsisExecuteNull == RejectNull /\ UNCHANGED state

CmsisFilter ==
    /\ pc = "filter"
    /\ output' = Written(b, ArmFir(b))
    /\ state' = Shifted(b)
    /\ NextChannel
    /\ UNCHANGED <<input, result, stream>>

CmsisReturn == ReturnOk /\ UNCHANGED state

\* Mutant: clear() zeroes the first channel's slice only.
ClearFirst ==
    /\ ReturnFromClear
    /\ state' = [h \in StateIndex |-> IF h < state_len THEN Zero ELSE state[h]]

CmsisClear == ReturnFromClear /\ state' = Zeroed

CmsisNext == CmsisExecute \/ CmsisExecuteNull \/ CmsisFilter \/ CmsisReturn \/ CmsisClear

CmsisSpec == CmsisInit /\ [][CmsisNext]_cmsisVars

-----------------------------------------------------------------------------
\* Every variable keeps its shape and the loop stays within the batch.
CmsisTypeOK == CallTypeOK /\ state \in [StateIndex -> Sample]

\* The front of each instance's slice is the tail of its channel's stream,
\* although the rest of the slice still holds samples of earlier blocks,
\* from before a clear() even when the delay line is shorter than the block.
InstancesFollow ==
    \A c \in Channel :
        LET past == IF pc # "idle" /\ c < b THEN Extended(c) ELSE stream[c]
        IN  \A j \in 0 .. TapCount - 2 :
                state[InstanceState(c) + j] =
                    StreamAt(past, Len(past) - HistoryLen + j)

=============================================================================
