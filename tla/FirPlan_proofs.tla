--------------------------- MODULE FirPlan_proofs ---------------------------
(***************************************************************************)
(* What the proofs of every FIR backend rest on: facts about slices,       *)
(* blocks and streams, the part of each step that FirPlan.tla describes,   *)
(* and the step of the promise it is.  A backend adds its delay lines.     *)
(***************************************************************************)
EXTENDS FirPlan, SequenceTheorems, TLAPS

(***************************************************************************)
(* Slices: back-to-back slices of the same length do not meet, and the     *)
(* slices of the first n owners fit in n * len elements.                   *)
(***************************************************************************)

\* A slice ends where the next owner's begins, or earlier.
LEMMA TimesMonotone == \A m, n, l \in Nat : m < n => m * l + l <= n * l
<1> SUFFICES ASSUME NEW m \in Nat, NEW n \in Nat, NEW l \in Nat, m < n
             PROVE  m * l + l <= n * l
  OBVIOUS
<1>1. PICK d \in Nat : n = m + 1 + d
  <2>1. n - m - 1 \in Nat  OBVIOUS
  <2> QED BY <2>1
<1>2. n * l = m * l + l + d * l  BY <1>1
<1>3. d * l \in Nat  OBVIOUS
<1> QED BY <1>2, <1>3

\* An offset of owner c lies in no other owner's slice.
LEMMA SliceMember ==
    ASSUME NEW len \in Nat, NEW c \in Nat, NEW d \in Nat, NEW i \in 0 .. len - 1
    PROVE  /\ c * len + i \in Slice(d, len) <=> c = d
           /\ c * len + i \in Nat
<1>1. c * len \in Nat /\ d * len \in Nat  OBVIOUS
<1>2. c < d => c * len + len <= d * len  BY TimesMonotone
<1>3. d < c => d * len + len <= c * len  BY TimesMonotone
<1> QED BY <1>1, <1>2, <1>3 DEF Slice

\* The offsets of the first n owners stay below n * len.
LEMMA SliceWithin ==
    ASSUME NEW len \in Nat, NEW n \in Nat, NEW c \in 0 .. n - 1, NEW i \in 0 .. len - 1
    PROVE  c * len + i \in 0 .. n * len - 1
<1>1. c * len \in Nat /\ n * len \in Nat  OBVIOUS
<1>2. c * len + len <= n * len  BY TimesMonotone
<1> QED BY <1>1, <1>2

(***************************************************************************)
(* The constants.                                                          *)
(***************************************************************************)

\* The shape of a configuration that invalid_common() lets through.
LEMMA Shapes ==
    /\ HistoryLen \in Nat
    /\ TapCount \in Nat /\ TapCount = HistoryLen + 1
    /\ BlockSize \in Nat /\ BlockSize >= 1
    /\ Batch \in Nat /\ Batch >= 1
    /\ 0 \in Channel
    /\ \A c \in Channel : c \in Nat /\ c \in 0 .. Batch - 1
    /\ \A i : i \in Frame <=> i \in 0 .. BlockSize - 1
    /\ \A k : k \in Tap <=> k \in 0 .. HistoryLen
BY TapCountAssumption, BlockSizeAssumption, BatchAssumption
   DEF HistoryLen, Channel, Frame, Tap

LEMMA FrameOffset ==
    ASSUME NEW c \in Channel, NEW i \in Frame
    PROVE  c * BlockSize + i \in BufferIndex
BY Shapes, SliceWithin DEF BufferIndex

LEMMA HistoryOffset ==
    ASSUME NEW c \in Channel, NEW j \in 0 .. HistoryLen - 1
    PROVE  c * HistoryLen + j \in HistoryIndex
BY Shapes, SliceWithin DEF HistoryIndex

(***************************************************************************)
(* Blocks and delay lines as sequences.                                    *)
(***************************************************************************)

\* BlockOf reads BlockSize samples of its own channel.
LEMMA BlockIsSeq ==
    ASSUME NEW buffer \in Buffer, NEW c \in Channel
    PROVE  /\ BlockOf(buffer, c) \in Seq(Sample)
           /\ Len(BlockOf(buffer, c)) = BlockSize
           /\ \A i \in Frame : BlockOf(buffer, c)[i + 1] = buffer[c * BlockSize + i]
<1>1. \A i \in 1 .. BlockSize : c * BlockSize + i - 1 \in BufferIndex
  <2> TAKE i \in 1 .. BlockSize
  <2>1. c * BlockSize + (i - 1) \in BufferIndex
    BY FrameOffset, Shapes
  <2> QED BY <2>1, Shapes
<1>2. BlockOf(buffer, c) \in [1 .. BlockSize -> Sample]
  BY <1>1 DEF BlockOf, Buffer
<1>3. BlockOf(buffer, c) \in Seq(Sample) /\ Len(BlockOf(buffer, c)) = BlockSize
  BY <1>2, Shapes
<1> QED BY <1>3, Shapes DEF BlockOf

\* DelayOf reads HistoryLen samples of its own channel.
LEMMA DelayIsSeq ==
    ASSUME NEW delay \in DelayLines, NEW c \in Channel
    PROVE  /\ DelayOf(delay, c) \in Seq(Sample)
           /\ Len(DelayOf(delay, c)) = HistoryLen
           /\ \A j \in 0 .. HistoryLen - 1 :
                 DelayOf(delay, c)[j + 1] = delay[c * HistoryLen + j]
<1>1. \A j \in 1 .. HistoryLen : c * HistoryLen + j - 1 \in HistoryIndex
  <2> TAKE j \in 1 .. HistoryLen
  <2>1. c * HistoryLen + (j - 1) \in HistoryIndex
    BY HistoryOffset, Shapes
  <2> QED BY <2>1, Shapes
<1>2. DelayOf(delay, c) \in [1 .. HistoryLen -> Sample]
  BY <1>1 DEF DelayOf, DelayLines
<1>3. DelayOf(delay, c) \in Seq(Sample) /\ Len(DelayOf(delay, c)) = HistoryLen
  BY <1>2, Shapes
<1> QED BY <1>3, Shapes DEF DelayOf

(***************************************************************************)
(* Streams.                                                                *)
(***************************************************************************)

\* Reading a stream that was extended by a block: below the old end it is the
\* old stream, silence included; from there on it is the block.
LEMMA StreamExtended ==
    ASSUME NEW s \in Seq(Sample), NEW t \in Seq(Sample), NEW n \in Int,
           n < Len(s) + Len(t)
    PROVE  StreamAt(s \o t, n) =
              IF n < Len(s) THEN StreamAt(s, n) ELSE t[n - Len(s) + 1]
<1>1. Len(s) \in Nat /\ Len(t) \in Nat  BY LenProperties
<1>2. \A i \in 1 .. Len(s) + Len(t) :
         (s \o t)[i] = IF i <= Len(s) THEN s[i] ELSE t[i - Len(s)]
  BY ConcatProperties
<1>3. CASE n < 0  BY <1>1, <1>3 DEF StreamAt
<1>4. CASE n >= 0
  <2>1. n + 1 \in 1 .. Len(s) + Len(t)  BY <1>1, <1>4
  <2>2. (s \o t)[n + 1] = IF n + 1 <= Len(s) THEN s[n + 1] ELSE t[n + 1 - Len(s)]
    BY <1>2, <2>1
  <2> QED BY <1>1, <1>4, <2>2 DEF StreamAt
<1> QED BY <1>3, <1>4

\* A stream holds samples, before its beginning as well.
LEMMA StreamAtType ==
    ASSUME NEW s \in Seq(Sample), NEW n \in Int, n < Len(s)
    PROVE  StreamAt(s, n) \in Sample
<1>1. Len(s) \in Nat  BY LenProperties
<1>2. CASE n >= 0
  <2>1. n + 1 \in 1 .. Len(s)  BY <1>1, <1>2
  <2>2. s[n + 1] \in Sample  BY <2>1, ElementOfSeq
  <2> QED BY <1>2, <2>2 DEF StreamAt
<1>3. CASE ~(n >= 0)  BY <1>3, ZeroAssumption DEF StreamAt
<1> QED BY <1>2, <1>3

\* Cleared delay lines remember the empty stream.
LEMMA ClearedRemembersNothing ==
    ASSUME NEW c \in Channel
    PROVE  Remembers(Cleared, <<>>, c)
<1> SUFFICES ASSUME NEW j \in 0 .. HistoryLen - 1
             PROVE  Cleared[c * HistoryLen + j] =
                       StreamAt(<<>>, Len(<<>>) - HistoryLen + j)
  BY DEF Remembers
<1>1. Cleared[c * HistoryLen + j] = Zero  BY HistoryOffset DEF Cleared
<1>2. Len(<<>>) = 0  BY EmptySeq
<1>3. 0 - HistoryLen + j < 0  BY Shapes
<1>4. ~(0 - HistoryLen + j >= 0)  BY <1>3, Shapes
<1> QED BY <1>1, <1>2, <1>4 DEF StreamAt

\* A delay line that remembers a channel's past, followed by the channel's
\* block, is the stream extended by the block, as far back as the taps reach.
LEMMA LineIsStream ==
    ASSUME NEW delay \in DelayLines, NEW buffer \in Buffer, NEW c \in Channel,
           NEW s \in Seq(Sample), Remembers(delay, s, c),
           NEW n \in 0 .. HistoryLen + BlockSize - 1
    PROVE  (DelayOf(delay, c) \o BlockOf(buffer, c))[n + 1] =
              StreamAt(s \o BlockOf(buffer, c), Len(s) - HistoryLen + n)
<1> DEFINE old == DelayOf(delay, c)
           new == BlockOf(buffer, c)
<1>1. Len(s) \in Nat  BY LenProperties
<1>2. /\ old \in Seq(Sample) /\ Len(old) = HistoryLen
      /\ \A j \in 0 .. HistoryLen - 1 : old[j + 1] = delay[c * HistoryLen + j]
  BY DelayIsSeq
<1>3. new \in Seq(Sample) /\ Len(new) = BlockSize  BY BlockIsSeq
<1>4. n + 1 \in 1 .. Len(old) + Len(new)  BY <1>2, <1>3, Shapes
<1>5. (old \o new)[n + 1] =
         IF n + 1 <= HistoryLen THEN old[n + 1] ELSE new[n + 1 - HistoryLen]
  BY <1>2, <1>3, <1>4, ConcatProperties
<1>6. StreamAt(s \o new, Len(s) - HistoryLen + n) =
         IF Len(s) - HistoryLen + n < Len(s)
         THEN StreamAt(s, Len(s) - HistoryLen + n)
         ELSE new[(Len(s) - HistoryLen + n) - Len(s) + 1]
  <2>1. Len(s) - HistoryLen + n \in Int /\ Len(s) - HistoryLen + n < Len(s) + Len(new)
    BY <1>1, <1>3, Shapes
  <2> HIDE DEF new
  <2> QED BY <1>3, <2>1, StreamExtended
<1>7. CASE n < HistoryLen
  <2>1. n \in 0 .. HistoryLen - 1  BY <1>7, Shapes
  <2>2. old[n + 1] = StreamAt(s, Len(s) - HistoryLen + n)
    BY <1>2, <2>1 DEF Remembers
  <2> QED BY <1>1, <1>5, <1>6, <1>7, <2>2, Shapes
<1>8. CASE ~(n < HistoryLen)
  <2>1. (Len(s) - HistoryLen + n) - Len(s) + 1 = n + 1 - HistoryLen
    BY <1>1, Shapes
  <2>2. ~(Len(s) - HistoryLen + n < Len(s))  BY <1>1, <1>8, Shapes
  <2> QED BY <1>5, <1>6, <1>8, <2>1, <2>2, Shapes
<1> QED BY <1>7, <1>8

-----------------------------------------------------------------------------
(* The streams and the output during a call.                               *)

\* The channels whose frames are already written hold the convolution.
OutputFollows ==
    pc # "idle" =>
        \A c \in Channel :
            c < b \/ (c = b /\ pc = "carry") => Filtered(output, Extended(c), c)

\* The stream a call makes of channel c.
LEMMA ExtendedIsSeq ==
    ASSUME CallTypeOK, NEW c \in Channel
    PROVE  /\ stream[c] \in Seq(Sample)
           /\ BlockOf(input, c) \in Seq(Sample)
           /\ Len(BlockOf(input, c)) = BlockSize
           /\ Len(stream[c]) \in Nat
           /\ Extended(c) \in Seq(Sample)
           /\ Len(Extended(c)) = Len(stream[c]) + BlockSize
<1>1. stream[c] \in Seq(Sample)  BY DEF CallTypeOK
<1>2. BlockOf(input, c) \in Seq(Sample) /\ Len(BlockOf(input, c)) = BlockSize
  BY BlockIsSeq DEF CallTypeOK
<1>3. Len(stream[c]) \in Nat  BY <1>1, LenProperties
<1> QED BY <1>1, <1>2, <1>3, ConcatProperties DEF Extended

\* Where frame i and tap k meet, counted from the end of the old stream, and
\* where the delay line that follows begins.
LEMMA Reach ==
    ASSUME NEW l \in Nat, NEW h \in Nat, NEW size \in Nat,
           NEW i \in Nat, NEW k \in Nat
    PROVE  /\ i >= k => ~(l + i - k < l) /\ (l + i - k) - l + 1 = (i - k) + 1
           /\ ~(i >= k) => l + i - k < l
           /\ l - h + (h + i - k) = l + i - k
           /\ (l + size) - h + i = l - h + (size + i)
           /\ (l + size) - size + i - k = l + i - k
OBVIOUS

\* A frame that pairs tap k with the sample k places back is the convolution.
LEMMA PairsMakeConvolution ==
    ASSUME CallTypeOK, NEW c \in Channel, NEW i \in Frame, NEW frame,
           frame = [k \in Tap |-> frame[k]],
           \A k \in Tap : frame[k] = StreamAt(Extended(c), Len(stream[c]) + i - k)
    PROVE  /\ frame = Convolution(Extended(c), Len(Extended(c)) - BlockSize + i)
           /\ frame \in Accumulator
<1> DEFINE L == Len(stream[c])
           n == Len(Extended(c)) - BlockSize + i
<1>1. /\ L \in Nat /\ Len(Extended(c)) = L + BlockSize
      /\ BlockSize \in Nat /\ i \in Nat /\ i < BlockSize
      /\ Extended(c) \in Seq(Sample)
  BY ExtendedIsSeq, Shapes
<1>2. ASSUME NEW k \in Tap
      PROVE  /\ frame[k] = StreamAt(Extended(c), n - k)
             /\ frame[k] \in Sample
  <2>1. k \in Nat  BY Shapes
  <2>2. L + i - k = n - k /\ L + i - k \in Int /\ L + i - k < L + BlockSize
    <3> HIDE DEF L
    <3> QED BY <1>1, <2>1
  <2>3. frame[k] = StreamAt(Extended(c), L + i - k)  OBVIOUS
  <2> HIDE DEF L, n
  <2> QED BY <1>1, <2>2, <2>3, StreamAtType
<1>3. frame = [k \in Tap |-> StreamAt(Extended(c), n - k)]
  <2> HIDE DEF n
  <2> QED BY <1>2
<1>4. frame \in [Tap -> Sample]  BY <1>2
<1> QED BY <1>3, <1>4 DEF Convolution, Accumulator

\* Written replaces channel c's frames and no others.
LEMMA WrittenFrame ==
    ASSUME NEW c \in Channel, NEW d \in Channel, NEW i \in Frame, NEW block
    PROVE  Written(c, block)[d * BlockSize + i] =
              IF d = c THEN block[i] ELSE output[d * BlockSize + i]
<1>1. d * BlockSize + i \in BufferIndex  BY FrameOffset
<1>2. d * BlockSize + i \in Slice(c, BlockSize) <=> d = c
  BY SliceMember, Shapes
<1>3. (d * BlockSize + i) - d * BlockSize = i  BY Shapes
<1> QED BY <1>1, <1>2, <1>3 DEF Written

\* What it makes has the shape of an output buffer.
LEMMA WrittenType ==
    ASSUME CallTypeOK, NEW c \in Channel, NEW block,
           \A i \in Frame : block[i] \in Accumulator
    PROVE  Written(c, block) \in OutputBuffer
<1>1. \A n \in BufferIndex : n \in Slice(c, BlockSize) => n - c * BlockSize \in Frame
  <2> TAKE n \in BufferIndex
  <2>1. n \in Int  BY DEF BufferIndex
  <2>2. c * BlockSize \in Nat  BY Shapes
  <2> QED BY <2>1, <2>2, Shapes DEF Slice
<1>2. output \in OutputBuffer  BY DEF CallTypeOK
<1> QED BY <1>1, <1>2 DEF Written, OutputBuffer

\* A backend that writes the convolution as channel b's frames.
LEMMA WrittenFollows ==
    ASSUME CallTypeOK, OutputFollows, pc = "filter", NEW block,
           output' = Written(b, block), UNCHANGED <<input, stream>>,
           \A i \in Frame :
              block[i] = Convolution(Extended(b), Len(Extended(b)) - BlockSize + i)
    PROVE  \A c \in Channel : c < b \/ c = b => Filtered(output', Extended(c)', c)
<1>1. b \in Channel  BY Shapes DEF CallTypeOK, Channel
<1> SUFFICES ASSUME NEW c \in Channel, c < b \/ c = b, NEW i \in Frame
             PROVE  output'[c * BlockSize + i] =
                       Convolution(Extended(c), Len(Extended(c)) - BlockSize + i)
  BY DEF Filtered, Extended
<1>2. output'[c * BlockSize + i] =
         IF c = b THEN block[i] ELSE output[c * BlockSize + i]
  BY <1>1, WrittenFrame
<1>3. c # b => Filtered(output, Extended(c), c)  BY DEF OutputFollows
<1> QED BY <1>2, <1>3 DEF Filtered

\* Delay lines with the tail of `line` as channel c's.
MovedOn(line, c, others) ==
    [h \in HistoryIndex |-> IF h \in Slice(c, HistoryLen)
                            THEN line[BlockSize + (h - c * HistoryLen) + 1]
                            ELSE others[h]]

\* A delay line that remembers its channel's past, followed by the block, has
\* the channel's next delay line as its tail; the other channels keep theirs.
LEMMA MovedOnRemembers ==
    ASSUME CallTypeOK, NEW delay \in DelayLines, NEW c \in Channel, NEW others,
           Remembers(delay, stream[c], c)
    PROVE  LET next == MovedOn(DelayOf(delay, c) \o BlockOf(input, c), c, others)
           IN  /\ Remembers(next, Extended(c), c)
               /\ \A s, d : d \in Channel /\ d # c /\ Remembers(others, s, d)
                     => Remembers(next, s, d)
               /\ others \in DelayLines => next \in DelayLines
<1> DEFINE line == DelayOf(delay, c) \o BlockOf(input, c)
           next == MovedOn(line, c, others)
<1> DEFINE L == Len(stream[c])
<1>1. /\ stream[c] \in Seq(Sample) /\ L \in Nat
      /\ Len(Extended(c)) = L + BlockSize /\ Extended(c) \in Seq(Sample)
      /\ HistoryLen \in Nat /\ BlockSize \in Nat /\ input \in Buffer
  BY ExtendedIsSeq, Shapes DEF CallTypeOK
<1>2. ASSUME NEW d \in Channel, NEW j \in 0 .. HistoryLen - 1
      PROVE  next[d * HistoryLen + j] =
                IF d = c THEN line[BlockSize + j + 1]
                ELSE others[d * HistoryLen + j]
  <2>1. d * HistoryLen + j \in HistoryIndex  BY HistoryOffset
  <2>2. d * HistoryLen + j \in Slice(c, HistoryLen) <=> d = c
    BY SliceMember, Shapes
  <2>3. (d * HistoryLen + j) - d * HistoryLen = j  BY Shapes
  <2> QED BY <2>1, <2>2, <2>3 DEF MovedOn
<1>3. ASSUME NEW j \in 0 .. HistoryLen - 1
      PROVE  line[BlockSize + j + 1] =
                StreamAt(Extended(c), Len(Extended(c)) - HistoryLen + j)
  <2>1. BlockSize + j \in 0 .. HistoryLen + BlockSize - 1  BY Shapes
  <2>2. line[(BlockSize + j) + 1] =
           StreamAt(Extended(c), L - HistoryLen + (BlockSize + j))
    BY <1>1, <2>1, LineIsStream DEF Extended
  <2>3. Len(Extended(c)) - HistoryLen + j = L - HistoryLen + (BlockSize + j)
    <3>1. L \in Nat /\ j \in Nat /\ Len(Extended(c)) = L + BlockSize  BY <1>1
    <3> HIDE DEF L
    <3> QED BY <3>1, <1>1, Reach
  <2> QED BY <2>2, <2>3
<1>4. Remembers(next, Extended(c), c)  BY <1>2, <1>3 DEF Remembers
<1>5. \A s, d : d \in Channel /\ d # c /\ Remembers(others, s, d)
         => Remembers(next, s, d)
  BY <1>2 DEF Remembers
<1>6. ASSUME NEW h \in HistoryIndex, h \in Slice(c, HistoryLen)
      PROVE  line[BlockSize + (h - c * HistoryLen) + 1] \in Sample
  <2> DEFINE j == h - c * HistoryLen
  <2>1. c * HistoryLen \in Nat /\ h \in Int  BY Shapes DEF HistoryIndex
  <2>2. j \in 0 .. HistoryLen - 1  BY <1>6, <2>1, Shapes DEF Slice
  <2> HIDE DEF j, L
  <2>3. /\ Len(Extended(c)) - HistoryLen + j \in Int
        /\ Len(Extended(c)) - HistoryLen + j < Len(Extended(c))
    BY <1>1, <2>2
  <2>4. line[BlockSize + j + 1] \in Sample
    BY <1>1, <1>3, <2>2, <2>3, StreamAtType
  <2> QED BY <2>4 DEF j
<1>7. others \in DelayLines => next \in DelayLines
  BY <1>6 DEF DelayLines, MovedOn
<1> QED BY <1>4, <1>5, <1>7

-----------------------------------------------------------------------------
(* FirPlan's part of each step.                                            *)

LEMMA CallInitInv == CallInit => CallTypeOK /\ OutputFollows
<1> SUFFICES ASSUME CallInit PROVE CallTypeOK /\ OutputFollows  OBVIOUS
<1>1. Silence \in OutputBuffer
  BY ZeroAssumption DEF Silence, OutputBuffer, Accumulator
<1>2. NoStream \in [Channel -> Seq(Sample)]  BY EmptySeq DEF NoStream
<1> QED BY <1>1, <1>2, Shapes DEF CallInit, CallTypeOK, OutputFollows

\* A call that enters the backend has passed no channel yet.
LEMMA EnterInv ==
    ASSUME CallTypeOK, Enter
    PROVE  /\ CallTypeOK' /\ OutputFollows'
           /\ \A c \in Channel : ~(c < b')
<1>1. \A c \in Channel : ~(c < b')  BY Shapes DEF Enter
<1>2. CallTypeOK'  BY Shapes DEF CallTypeOK, Enter
<1> QED BY <1>1, <1>2 DEF OutputFollows, Enter

LEMMA RejectNullInv ==
    CallTypeOK /\ OutputFollows /\ RejectNull => CallTypeOK' /\ OutputFollows'
BY DEF RejectNull, CallTypeOK, OutputFollows, Extended

\* A channel is filtered in one step and the loop goes on.
LEMMA FilterInv ==
    ASSUME CallTypeOK, OutputFollows, pc = "filter", NEW block,
           output' = Written(b, block), NextChannel,
           UNCHANGED <<input, result, stream>>,
           \A i \in Frame : block[i] = [k \in Tap |-> block[i][k]],
           \A i \in Frame, k \in Tap :
              block[i][k] = StreamAt(Extended(b), Len(stream[b]) + i - k)
    PROVE  /\ CallTypeOK' /\ OutputFollows'
           /\ b \in Channel /\ \A c \in Channel : c < b' <=> c < b \/ c = b
<1>1. /\ b \in Channel /\ b \in Nat /\ b + 1 \in 0 .. Batch
      /\ b + 1 < Batch \/ b + 1 = Batch
  BY Shapes DEF CallTypeOK, Channel
<1>2. \A i \in Frame :
         /\ block[i] = Convolution(Extended(b), Len(Extended(b)) - BlockSize + i)
         /\ block[i] \in Accumulator
  BY <1>1, PairsMakeConvolution
<1>3. \A c \in Channel : c < b' <=> c < b \/ c = b
  BY <1>1, Shapes DEF NextChannel
<1>4. CallTypeOK'
  <2>1. output' \in OutputBuffer  BY <1>1, <1>2, WrittenType
  <2> QED BY <1>1, <2>1 DEF CallTypeOK, NextChannel, MoreChannels
<1>5. OutputFollows'
  BY <1>2, <1>3, WrittenFollows DEF OutputFollows, NextChannel
<1> QED BY <1>1, <1>3, <1>4, <1>5

\* When the loop is over every channel has been passed: the streams become
\* what the call made of them.
LEMMA ReturnOkInv ==
    ASSUME CallTypeOK, ReturnOk
    PROVE  /\ CallTypeOK' /\ OutputFollows'
           /\ \A c \in Channel : c < b /\ stream'[c] = Extended(c)
<1>1. \A c \in Channel : c < b  BY Shapes DEF CallTypeOK, ReturnOk
<1>2. \A c \in Channel : stream'[c] = Extended(c)  BY DEF ReturnOk, Extended
<1>3. stream' \in [Channel -> Seq(Sample)]
  BY ExtendedIsSeq DEF ReturnOk, Extended
<1> QED BY <1>1, <1>2, <1>3 DEF ReturnOk, CallTypeOK, OutputFollows

LEMMA ReturnFromClearInv ==
    CallTypeOK /\ ReturnFromClear => CallTypeOK' /\ OutputFollows'
<1>1. NoStream \in [Channel -> Seq(Sample)]  BY EmptySeq DEF NoStream
<1> QED BY <1>1 DEF ReturnFromClear, CallTypeOK, OutputFollows

\* What the runs check of the output.
LEMMA FollowsIsConvolution == CallTypeOK /\ OutputFollows => OutputIsConvolution
<1> SUFFICES ASSUME CallTypeOK, OutputFollows, pc = "return", NEW c \in Channel
             PROVE  Filtered(output, Extended(c), c)
  BY DEF OutputIsConvolution
<1>1. c < b  BY Shapes DEF CallTypeOK
<1> QED BY <1>1 DEF OutputFollows

-----------------------------------------------------------------------------
(* The step of the promise each of them is.                                *)

\* The promise speaks of the same buffers and streams.
LEMMA SameData ==
    /\ Promise!Channel = Channel
    /\ Promise!Buffer = Buffer
    /\ Promise!OutputBuffer = OutputBuffer
    /\ Promise!Silence = Silence
    /\ \A buffer, c : Promise!BlockOf(buffer, c) = BlockOf(buffer, c)
    /\ \A out, s, c : Promise!Filtered(out, s, c) <=> Filtered(out, s, c)
<1>1. /\ Promise!Channel = Channel
      /\ Promise!BufferIndex = BufferIndex
      /\ Promise!Frame = Frame
      /\ Promise!Tap = Tap
  BY DEF Promise!Channel, Channel, Promise!BufferIndex, BufferIndex,
         Promise!Frame, Frame, Promise!Tap, Tap
<1>2. /\ Promise!Buffer = Buffer
      /\ Promise!OutputBuffer = OutputBuffer
      /\ Promise!Silence = Silence
  BY <1>1 DEF Promise!Buffer, Buffer, Promise!OutputBuffer, OutputBuffer,
              Promise!Accumulator, Accumulator, Promise!Silence, Silence
<1>3. \A buffer, c : Promise!BlockOf(buffer, c) = BlockOf(buffer, c)
  BY DEF Promise!BlockOf, BlockOf
<1>4. \A s, n : Promise!Convolution(s, n) = Convolution(s, n)
  BY <1>1 DEF Promise!Convolution, Convolution, Promise!StreamAt, StreamAt
<1>5. \A out, s, c : Promise!Filtered(out, s, c) <=> Filtered(out, s, c)
  BY <1>1, <1>4 DEF Promise!Filtered, Filtered
<1> QED BY <1>1, <1>2, <1>3, <1>5

LEMMA CallInitRefines == CallInit => Promise!Init
BY SameData DEF CallInit, NoStream, Promise!Init

LEMMA EnterRefines == Enter => Promise!Next
<1>1. Enter => Promise!Begin  BY SameData DEF Enter, Promise!Begin
<1> QED BY <1>1 DEF Promise!Next

LEMMA RejectNullRefines == RejectNull => Promise!Next
<1>1. RejectNull => Promise!ExecuteNull
  BY DEF RejectNull, Promise!ExecuteNull
<1> QED BY <1>1 DEF Promise!Next

\* Inside the loop only the output changes.
LEMMA WithinRefines ==
    ASSUME CallTypeOK', pc # "idle", pc' # "idle",
           UNCHANGED <<input, result, stream>>
    PROVE  Promise!Next
<1>1. Promise!Scribble
  BY SameData DEF CallTypeOK, Promise!Scribble
<1> QED BY <1>1 DEF Promise!Next

LEMMA ReturnOkRefines ==
    ASSUME CallTypeOK, OutputFollows, ReturnOk
    PROVE  Promise!Next
<1>1. \A c \in Channel : c < b /\ stream'[c] = Extended(c)
  BY ReturnOkInv
<1>2. \A c \in Channel : Filtered(output', stream'[c], c)
  BY <1>1 DEF ReturnOk, OutputFollows
<1>3. Promise!Accept  BY <1>2, SameData DEF ReturnOk, Promise!Accept
<1> QED BY <1>3 DEF Promise!Next

LEMMA ReturnFromClearRefines == ReturnFromClear => Promise!Next
<1>1. ReturnFromClear => Promise!Clear
  BY SameData DEF ReturnFromClear, NoStream, Promise!Clear
<1> QED BY <1>1 DEF Promise!Next

=============================================================================
