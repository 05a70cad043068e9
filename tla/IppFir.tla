------------------------------- MODULE IppFir -------------------------------
(***************************************************************************)
(* The Intel IPP FIR backend.  The library reads a channel's delay line    *)
(* from delay_a and writes the next one to delay_b; ipp_execute() swaps    *)
(* the two vectors only when every channel went through, so a call that    *)
(* fails at any channel can be repeated.                                   *)
(***************************************************************************)
EXTENDS FirPlan

VARIABLES delay_a, delay_b      \* the vectors of IppFirState

ippStateVars == <<delay_a, delay_b>>
ippVars == <<callVars, ippStateVars>>

IppStatus == {"ippStsNoErr", "ippStsNullPtrErr", "ippStsFIRLenErr",
              "ippStsSizeErr", "ippStsAlgTypeErr", "anyOther"}

\* Mutant: an unlisted library error passes for success.
MapStatusDefaultsToOk(st) ==
    CASE st = "ippStsNullPtrErr" -> "NullPointer"
      [] st \in {"ippStsFIRLenErr", "ippStsSizeErr"} -> "InvalidArgument"
      [] st = "ippStsAlgTypeErr" -> "UnsupportedConfig"
      [] st \in {"ippStsNoErr", "anyOther"} -> "Ok"

map_status(st) ==
    CASE st = "ippStsNoErr" -> "Ok"
      [] st = "ippStsNullPtrErr" -> "NullPointer"
      [] st \in {"ippStsFIRLenErr", "ippStsSizeErr"} -> "InvalidArgument"
      [] st = "ippStsAlgTypeErr" -> "UnsupportedConfig"
      [] st = "anyOther" -> "BackendError"

IppInit ==
    /\ CallInit
    /\ delay_a = Cleared
    /\ delay_b = Cleared

-----------------------------------------------------------------------------
(* The library, from its use: ippsFIRSR filters one block, reading the     *)
(* delay line dlySrc and writing the following one to dlyDst.              *)

Line(c) == DelayOf(delay_a, c) \o BlockOf(input, c)

FilterBlock(c) ==
    [i \in Frame |-> Convolution(Line(c), HistoryLen + i)]

NextDelay(c) ==
    [h \in HistoryIndex |-> IF h \in Slice(c, HistoryLen)
                            THEN Line(c)[BlockSize + (h - c * HistoryLen) + 1]
                            ELSE delay_b[h]]

LibraryWrites(c) ==
    output' = Written(c, FilterBlock(c)) /\ delay_b' = NextDelay(c)

LibraryWritesNothing == UNCHANGED <<output, delay_b>>

-----------------------------------------------------------------------------
IppExecute     == Enter /\ UNCHANGED ippStateVars
IppExecuteNull == RejectNull /\ UNCHANGED ippStateVars

\* Mutant: the vectors are swapped on the error path as well.
FilterSwapsOnFailure ==
    /\ pc = "filter"
    /\ \/ LibraryWrites(b) /\ NextChannel /\ UNCHANGED <<result, delay_a>>
       \/ /\ pc' = "idle" /\ result' = "BackendError"
          /\ delay_a' = delay_b /\ delay_b' = delay_a
          /\ UNCHANGED <<b, output>>
    /\ UNCHANGED <<input, stream>>

\* The library takes channel b or fails, in which case it may or may not have
\* written.  On a failure the call returns at once and swaps nothing, whatever
\* the channels before b have left in delay_b.
IppFilter ==
    /\ pc = "filter"
    /\ \E st \in IppStatus :
         /\ \/ LibraryWrites(b)
            \/ st # "ippStsNoErr" /\ LibraryWritesNothing
         /\ \/ map_status(st) = "Ok" /\ NextChannel /\ UNCHANGED result
            \/ /\ map_status(st) # "Ok"
               /\ pc' = "idle" /\ result' = map_status(st)
               /\ UNCHANGED b
    /\ UNCHANGED <<input, stream, delay_a>>

IppReturn ==
    /\ ReturnOk
    /\ delay_a' = delay_b
    /\ delay_b' = delay_a

IppClear ==
    /\ ReturnFromClear
    /\ delay_a' = Cleared
    /\ delay_b' = Cleared

IppNext == IppExecute \/ IppExecuteNull \/ IppFilter \/ IppReturn \/ IppClear

IppSpec == IppInit /\ [][IppNext]_ippVars

-----------------------------------------------------------------------------
\* Every variable keeps its shape and the loop stays within the batch.
IppTypeOK ==
    /\ CallTypeOK
    /\ delay_a \in DelayLines
    /\ delay_b \in DelayLines

\* delay_a is never ahead of the accepted streams, even after a call that
\* failed half-way; during a call delay_b is ahead by exactly this block for
\* exactly the channels already filtered, so the swap moves all channels on
\* together or none.
DelaysMoveTogether ==
    /\ \A c \in Channel : Remembers(delay_a, stream[c], c)
    /\ pc # "idle" =>
          \A c \in Channel : c < b => Remembers(delay_b, Extended(c), c)

=============================================================================
