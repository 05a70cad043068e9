------------------------------ MODULE FirDefs ------------------------------
(***************************************************************************)
(* The data of the FIR subsystem: the shape of the caller's buffers, the   *)
(* stream a channel has seen, and the reference convolution the tests      *)
(* compare every backend with.                                             *)
(*                                                                         *)
(* Arithmetic is abstracted: an output sample is not a number but the      *)
(* pairing of taps with stream samples that the code sums, a function      *)
(* from tap index to sample.  Two computations give the same function      *)
(* exactly when they add the same products.                                *)
(***************************************************************************)
EXTENDS Integers, Sequences

CONSTANTS
    TapCount,   \* FirPlanConfig.tap_count
    BlockSize,  \* FirPlanConfig.block_size: samples of one channel per call
    Batch,      \* FirPlanConfig.batch: independent channels, back to back
    Sample,     \* the sample values told apart
    Zero        \* Sample{}: what a cleared delay line holds

\* invalid_common() rejects every configuration outside these.
ASSUME TapCountAssumption  == TapCount \in Nat \ {0}
ASSUME BlockSizeAssumption == BlockSize \in Nat \ {0}
ASSUME BatchAssumption     == Batch \in Nat \ {0}
ASSUME ZeroAssumption      == Zero \in Sample

\* history_len(): the samples of the past a convolution reaches back to.
HistoryLen == TapCount - 1

Channel     == 0 .. Batch - 1
Tap         == 0 .. TapCount - 1
Frame       == 0 .. BlockSize - 1       \* position within one channel's block
BufferIndex == 0 .. Batch * BlockSize - 1

\* The offsets of the c-th of the back-to-back slices of `len` elements.
Slice(c, len) == c * len .. c * len + len - 1

Buffer       == [BufferIndex -> Sample]
Accumulator  == [Tap -> Sample]
OutputBuffer == [BufferIndex -> Accumulator]

\* Delay lines kept back to back, HistoryLen samples for each channel.
HistoryIndex == 0 .. Batch * HistoryLen - 1
DelayLines   == [HistoryIndex -> Sample]
Cleared      == [h \in HistoryIndex |-> Zero]

\* Channel c's slice of such delay lines, oldest sample first.
DelayOf(delay, c) ==
    [j \in 1 .. HistoryLen |-> delay[c * HistoryLen + j - 1]]

\* The samples a call's buffer carries for channel c.
BlockOf(buffer, c) == [i \in 1 .. BlockSize |-> buffer[c * BlockSize + i - 1]]

\* Sample n of a stream that was silent before its first sample.
StreamAt(stream, n) == IF n >= 0 THEN stream[n + 1] ELSE Zero

\* y[n] = sum over k of taps[k] * x[n - k].
Convolution(stream, n) == [k \in Tap |-> StreamAt(stream, n - k)]

\* An output buffer holding, for channel c, the convolution of the block
\* that ends stream[c].
Filtered(output, stream, c) ==
    \A i \in Frame : output[c * BlockSize + i] =
                        Convolution(stream, Len(stream) - BlockSize + i)

\* Channel c's slice of the delay lines holds the last HistoryLen samples of
\* `past`.
Remembers(delay, past, c) ==
    \A j \in 0 .. HistoryLen - 1 :
        delay[c * HistoryLen + j] = StreamAt(past, Len(past) - HistoryLen + j)

Silence == [n \in BufferIndex |-> [k \in Tap |-> Zero]]

=============================================================================
