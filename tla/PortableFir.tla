---------------------------- MODULE PortableFir ----------------------------
(***************************************************************************)
(* The portable FIR backend.  portable_execute() walks the channels; for   *)
(* each it first accumulates the output from the block and the channel's   *)
(* slice of `history`, then carries the last HistoryLen samples over       *)
(* through the scratch vector `combined`.                                  *)
(***************************************************************************)
EXTENDS FirPlan

VARIABLES
    history,   \* PortableState::history
    combined   \* PortableState::combined, reused by every channel and call

stateVars == <<history, combined>>
vars == <<callVars, stateVars>>

\* combined.reserve(history_len() + block_size)
Reserved == HistoryLen + BlockSize

Init ==
    /\ CallInit
    /\ history = Cleared
    /\ combined = <<>>

-----------------------------------------------------------------------------
Execute     == Enter /\ UNCHANGED stateVars
ExecuteNull == RejectNull /\ UNCHANGED stateVars

\* Mutant: the index into the history forgets the frame.
OperandIgnoresFrame(c, i, k) ==
    IF i >= k
    THEN input[c * BlockSize + (i - k)]
    ELSE history[c * HistoryLen + (HistoryLen - k)]

\* The sample that meets tap k at frame i of channel c.
Operand(c, i, k) ==
    IF i >= k
    THEN input[c * BlockSize + (i - k)]
    ELSE history[c * HistoryLen + (HistoryLen + i - k)]

\* The multiply-accumulate loops of channel b.
Filter ==
    /\ pc = "filter" /\ pc' = "carry"
    /\ output' = Written(b, [i \in Frame |-> [k \in Tap |-> Operand(b, i, k)]])
    /\ UNCHANGED <<b, input, result, stream, stateVars>>

\* Mutants: combined.clear() left out; the two insertions swapped.
CombineWithoutClear(c) == combined \o DelayOf(history, c) \o BlockOf(input, c)
CombineSwapped(c)      == BlockOf(input, c) \o DelayOf(history, c)

\* combined is filled with channel c's history followed by its block.
Combine(c) == DelayOf(history, c) \o BlockOf(input, c)

\* The last HistoryLen samples of `samples` become channel b's history.
CopyTail(samples) ==
    LET tail == Len(samples) - HistoryLen
    IN  [h \in HistoryIndex |-> IF h \in Slice(b, HistoryLen)
                                THEN samples[tail + (h - b * HistoryLen) + 1]
                                ELSE history[h]]

\* A single tap has no history to carry.
Carry ==
    /\ pc = "carry"
    /\ \/ HistoryLen = 0 /\ UNCHANGED stateVars
       \/ /\ HistoryLen > 0
          /\ combined' = Combine(b)
          /\ history' = CopyTail(Combine(b))
    /\ NextChannel
    /\ UNCHANGED <<input, output, result, stream>>

Return == ReturnOk /\ UNCHANGED stateVars

\* Mutant: clear() forgets to fill the history.
ClearNothing == ReturnFromClear /\ UNCHANGED stateVars

Clear ==
    /\ ReturnFromClear
    /\ history' = Cleared
    /\ UNCHANGED combined

Next == Execute \/ ExecuteNull \/ Filter \/ Carry \/ Return \/ Clear

Spec == Init /\ [][Next]_vars

-----------------------------------------------------------------------------
\* Every variable keeps its shape, and the loop variable stands where pc says:
\* the backend never touches a channel outside the batch.
TypeOK ==
    /\ CallTypeOK
    /\ history \in DelayLines
    /\ combined \in Seq(Sample)

\* The stream channel c's slice of history stands for: during a call the
\* channels the loop has passed already count the new block.
Advanced(c) == IF pc # "idle" /\ c < b THEN Extended(c) ELSE stream[c]

\* A channel's slice of history is the last HistoryLen samples of its own
\* stream, silence before the first: nothing leaks between channels, across a
\* clear(), or from a block shorter than the delay line.
HistoryFollows == \A c \in Channel : Remembers(history, Advanced(c), c)

\* The scratch reserved at creation is never outgrown, so execute() does not
\* allocate and workspace_bytes (taken at creation) stays the truth.
ScratchWithinReserve == Len(combined) <= Reserved

=============================================================================
