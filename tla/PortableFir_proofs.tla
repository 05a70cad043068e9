------------------------- MODULE PortableFir_proofs -------------------------
(***************************************************************************)
(* The portable FIR backend keeps its promise for every number of taps,    *)
(* block size, batch and set of samples.                                   *)
(*                                                                         *)
(* The inductive invariant adds to the type invariant what the loop of     *)
(* portable_execute() maintains: the channels it has passed have their     *)
(* output and the new delay line, the others the delay line of before.     *)
(***************************************************************************)
EXTENDS PortableFir, FirPlan_proofs

IInv ==
    /\ TypeOK
    /\ HistoryFollows
    /\ OutputFollows
    /\ ScratchWithinReserve

-----------------------------------------------------------------------------
(* Facts about one channel.                                                *)

\* The sample that meets tap k: from the block, or from the delay line.
LEMMA OperandIsStream ==
    ASSUME TypeOK, NEW c \in Channel, Remembers(history, stream[c], c),
           NEW i \in Frame, NEW k \in Tap
    PROVE  Operand(c, i, k) = StreamAt(Extended(c), Len(stream[c]) + i - k)
<1> DEFINE L == Len(stream[c])
<1>1. /\ stream[c] \in Seq(Sample) /\ L \in Nat
      /\ BlockOf(input, c) \in Seq(Sample)
      /\ Len(BlockOf(input, c)) = BlockSize
  BY ExtendedIsSeq DEF TypeOK, CallTypeOK
<1>2. /\ i \in 0 .. BlockSize - 1 /\ k \in 0 .. HistoryLen
      /\ HistoryLen \in Nat /\ BlockSize \in Nat
  BY Shapes
<1>3. L + i - k \in Int /\ L + i - k < L + BlockSize
  BY <1>1, <1>2, Shapes
<1>4. StreamAt(Extended(c), L + i - k) =
         IF L + i - k < L THEN StreamAt(stream[c], L + i - k)
         ELSE BlockOf(input, c)[(L + i - k) - L + 1]
  BY <1>1, <1>3, StreamExtended DEF Extended
<1>5. CASE i >= k
  <2>1. i - k \in Frame  BY <1>2, <1>5, Shapes
  <2>2. BlockOf(input, c)[(i - k) + 1] = input[c * BlockSize + (i - k)]
    BY <2>1, BlockIsSeq DEF TypeOK, CallTypeOK
  <2>3. ~(L + i - k < L) /\ (L + i - k) - L + 1 = (i - k) + 1
    <3>1. L \in Nat /\ i \in Nat /\ k \in Nat  BY <1>1, <1>2
    <3> HIDE DEF L
    <3> QED BY <3>1, <1>5, Reach
  <2> QED BY <1>4, <1>5, <2>2, <2>3 DEF Operand
<1>6. CASE ~(i >= k)
  <2>1. HistoryLen + i - k \in 0 .. HistoryLen - 1  BY <1>2, <1>6, Shapes
  <2>2. history[c * HistoryLen + (HistoryLen + i - k)] =
           StreamAt(stream[c], L - HistoryLen + (HistoryLen + i - k))
    BY <2>1 DEF Remembers
  <2>3. L + i - k < L /\ L - HistoryLen + (HistoryLen + i - k) = L + i - k
    <3>1. L \in Nat /\ i \in Nat /\ k \in Nat /\ HistoryLen \in Nat  BY <1>1, <1>2
    <3> HIDE DEF L
    <3> QED BY <3>1, <1>6, Reach
  <2> QED BY <1>4, <1>6, <2>2, <2>3 DEF Operand
<1> QED BY <1>5, <1>6

\* CopyTail leaves in channel b's slice the tail of its extended stream, and
\* the other slices alone; the scratch then holds what was reserved for it.
LEMMA CopyTailRemembers ==
    ASSUME TypeOK, b \in Channel, Remembers(history, stream[b], b)
    PROVE  /\ Combine(b) \in Seq(Sample)
           /\ Len(Combine(b)) = Reserved
           /\ CopyTail(Combine(b)) \in DelayLines
           /\ Remembers(CopyTail(Combine(b)), Extended(b), b)
           /\ \A s, c : c \in Channel /\ c # b /\ Remembers(history, s, c)
                 => Remembers(CopyTail(Combine(b)), s, c)
<1>1. CallTypeOK /\ history \in DelayLines  BY DEF TypeOK
<1>2. /\ DelayOf(history, b) \in Seq(Sample)
      /\ Len(DelayOf(history, b)) = HistoryLen
      /\ BlockOf(input, b) \in Seq(Sample)
      /\ Len(BlockOf(input, b)) = BlockSize
  BY <1>1, DelayIsSeq, BlockIsSeq DEF CallTypeOK
<1>3. Combine(b) \in Seq(Sample) /\ Len(Combine(b)) = HistoryLen + BlockSize
  BY <1>2, ConcatProperties DEF Combine
<1>4. Len(Combine(b)) - HistoryLen = BlockSize  BY <1>3, Shapes
<1>5. CopyTail(Combine(b)) =
         MovedOn(DelayOf(history, b) \o BlockOf(input, b), b, history)
  BY <1>4 DEF CopyTail, MovedOn, Combine
<1> QED BY <1>1, <1>3, <1>5, MovedOnRemembers DEF Reserved

-----------------------------------------------------------------------------
(* The inductive invariant.                                                *)

LEMMA InitInv == Init => IInv
<1> SUFFICES ASSUME Init PROVE IInv  OBVIOUS
<1> USE DEF Init
<1>1. CallTypeOK /\ OutputFollows  BY CallInitInv
<1>2. TypeOK
  <2>1. Cleared \in DelayLines  BY ZeroAssumption DEF Cleared, DelayLines
  <2>2. combined \in Seq(Sample)  BY EmptySeq
  <2> QED BY <1>1, <2>1, <2>2 DEF TypeOK
<1>3. HistoryFollows
  BY ClearedRemembersNothing DEF CallInit, HistoryFollows, Advanced, NoStream
<1>4. ScratchWithinReserve
  BY EmptySeq, Shapes DEF ScratchWithinReserve, Reserved
<1> QED BY <1>1, <1>2, <1>3, <1>4 DEF IInv

\* A call that enters the backend has passed no channel yet.
LEMMA ExecuteStep == IInv /\ Execute => IInv'
<1> SUFFICES ASSUME IInv, Execute PROVE IInv'  OBVIOUS
<1> USE DEF Execute, stateVars
<1>1. CallTypeOK' /\ OutputFollows' /\ \A c \in Channel : ~(c < b')
  BY EnterInv DEF IInv, TypeOK
<1>2. TypeOK'  BY <1>1 DEF IInv, TypeOK
<1>3. HistoryFollows'
  <2> SUFFICES ASSUME NEW c \in Channel
               PROVE  Remembers(history, Advanced(c)', c)
    BY DEF HistoryFollows, Remembers
  <2>1. Advanced(c) = stream[c]  BY DEF Advanced, Enter
  <2>2. Advanced(c)' = stream[c]  BY <1>1 DEF Advanced, Enter
  <2> QED BY <2>1, <2>2 DEF IInv, HistoryFollows
<1>4. ScratchWithinReserve'  BY DEF IInv, ScratchWithinReserve
<1> QED BY <1>1, <1>2, <1>3, <1>4 DEF IInv

LEMMA ExecuteNullStep == IInv /\ ExecuteNull => IInv'
<1> SUFFICES ASSUME IInv, ExecuteNull PROVE IInv'  OBVIOUS
<1>1. CallTypeOK' /\ OutputFollows'
  BY RejectNullInv DEF IInv, TypeOK, ExecuteNull
<1> QED BY <1>1 DEF IInv, TypeOK, HistoryFollows, Advanced, Extended,
                    ScratchWithinReserve, ExecuteNull, RejectNull, stateVars

\* Filter writes channel b's frames and changes nothing else.
LEMMA FilterStep == IInv /\ Filter => IInv'
<1> SUFFICES ASSUME IInv, Filter PROVE IInv'  OBVIOUS
<1> USE DEF Filter, stateVars
<1> DEFINE block == [i \in Frame |-> [k \in Tap |-> Operand(b, i, k)]]
<1>1. TypeOK /\ CallTypeOK /\ b \in Channel
  BY Shapes DEF IInv, TypeOK, CallTypeOK, Channel
<1>2. Remembers(history, stream[b], b)
  <2>1. ~(b < b)  BY <1>1, Shapes
  <2> QED BY <1>1, <2>1 DEF IInv, HistoryFollows, Advanced
<1>3. \A i \in Frame, k \in Tap :
         Operand(b, i, k) = StreamAt(Extended(b), Len(stream[b]) + i - k)
  BY <1>1, <1>2, OperandIsStream
<1>4. \A i \in Frame :
         /\ block[i] = [k \in Tap |-> block[i][k]]
         /\ \A k \in Tap : block[i][k] = Operand(b, i, k)
  OBVIOUS
<1>5. output' = Written(b, block)  OBVIOUS
<1> HIDE DEF block
<1>6. \A i \in Frame :
         /\ block[i] = Convolution(Extended(b), Len(Extended(b)) - BlockSize + i)
         /\ block[i] \in Accumulator
  <2> TAKE i \in Frame
  <2>1. \A k \in Tap :
           block[i][k] = StreamAt(Extended(b), Len(stream[b]) + i - k)
    BY <1>3, <1>4
  <2> QED BY <1>1, <1>4, <2>1, PairsMakeConvolution
<1>7. TypeOK'
  <2>1. output' \in OutputBuffer  BY <1>1, <1>5, <1>6, WrittenType
  <2> QED BY <1>1, <2>1 DEF TypeOK, CallTypeOK
<1>8. HistoryFollows'
  BY DEF IInv, HistoryFollows, Advanced, Extended
<1>9. OutputFollows'
  <2>1. \A c \in Channel : c < b \/ c = b => Filtered(output', Extended(c)', c)
    BY <1>1, <1>5, <1>6, WrittenFollows DEF IInv
  <2> QED BY <2>1 DEF OutputFollows
<1>10. ScratchWithinReserve'  BY DEF IInv, ScratchWithinReserve
<1> QED BY <1>7, <1>8, <1>9, <1>10 DEF IInv

\* Carry moves channel b's delay line on; the loop has then passed b.
LEMMA CarryStep == IInv /\ Carry => IInv'
<1> SUFFICES ASSUME IInv, Carry PROVE IInv'  OBVIOUS
<1> USE DEF Carry, NextChannel, MoreChannels, stateVars
<1>1. /\ TypeOK /\ b \in Channel
      /\ Remembers(history, stream[b], b)
  <2>1. TypeOK  BY DEF IInv
  <2>2. b \in Channel  BY <2>1, Shapes DEF TypeOK, CallTypeOK, Channel
  <2>3. ~(b < b)  BY <2>2, Shapes
  <2> QED BY <2>1, <2>2, <2>3 DEF IInv, HistoryFollows, Advanced
<1>2. b \in Nat /\ b + 1 \in 0 .. Batch /\ (b + 1 < Batch \/ b + 1 = Batch)
  BY <1>1, Shapes
<1>3. TypeOK'
  <2>1. history' \in DelayLines /\ combined' \in Seq(Sample)
    BY <1>1, CopyTailRemembers DEF TypeOK
  <2> QED BY <1>1, <1>2, <2>1 DEF TypeOK, CallTypeOK
<1>4. \A c \in Channel : c < b' <=> c < b \/ c = b
  BY <1>2, Shapes
<1>5. HistoryFollows'
  <2> SUFFICES ASSUME NEW c \in Channel
               PROVE  Remembers(history', Advanced(c)', c)
    BY DEF HistoryFollows
  <2>1. pc' # "idle"  OBVIOUS
  <2>2. Extended(c)' = Extended(c) /\ stream' = stream  BY DEF Extended
  <2>3. CASE HistoryLen = 0
    <3>1. ~ \E j \in 0 .. HistoryLen - 1 : TRUE  BY <2>3
    <3> QED BY <3>1 DEF Remembers
  <2>4. CASE HistoryLen # 0 /\ c = b
    <3>1. Advanced(c)' = Extended(b)  BY <1>4, <2>1, <2>2, <2>4 DEF Advanced
    <3>2. history' = CopyTail(Combine(b))  BY <2>4
    <3> QED BY <1>1, <2>4, <3>1, <3>2, CopyTailRemembers
  <2>5. CASE HistoryLen # 0 /\ c # b
    <3>1. Advanced(c)' = Advanced(c)
      BY <1>4, <2>1, <2>2, <2>5 DEF Advanced
    <3>2. history' = CopyTail(Combine(b))  BY <2>5
    <3>3. Remembers(history, Advanced(c), c)  BY DEF IInv, HistoryFollows
    <3> QED BY <1>1, <2>5, <3>1, <3>2, <3>3, CopyTailRemembers
  <2> QED BY <2>3, <2>4, <2>5
<1>6. OutputFollows'
  <2> SUFFICES ASSUME NEW c \in Channel,
                      c < b' \/ (c = b' /\ pc' = "carry")
               PROVE  Filtered(output, Extended(c), c)
    BY DEF OutputFollows, Extended
  <2>1. pc' # "carry"  OBVIOUS
  <2>2. c < b \/ c = b  BY <1>4, <2>1
  <2> QED BY <2>2 DEF IInv, OutputFollows
<1>7. ScratchWithinReserve'
  BY <1>1, CopyTailRemembers, Shapes DEF IInv, ScratchWithinReserve, Reserved
<1> QED BY <1>3, <1>5, <1>6, <1>7 DEF IInv

\* When the loop is over the streams catch up with the delay lines.
LEMMA ReturnStep == IInv /\ Return => IInv'
<1> SUFFICES ASSUME IInv, Return PROVE IInv'  OBVIOUS
<1> USE DEF Return, stateVars
<1>1. /\ CallTypeOK' /\ OutputFollows'
      /\ \A c \in Channel : c < b /\ stream'[c] = Extended(c)
  BY ReturnOkInv DEF IInv, TypeOK
<1>2. TypeOK'  BY <1>1 DEF IInv, TypeOK
<1>3. HistoryFollows'
  <2> SUFFICES ASSUME NEW c \in Channel
               PROVE  Remembers(history, Advanced(c)', c)
    BY DEF HistoryFollows, Remembers
  <2>1. Advanced(c) = Extended(c)  BY <1>1 DEF Advanced, ReturnOk
  <2>2. Advanced(c)' = Extended(c)  BY <1>1 DEF Advanced, ReturnOk
  <2> QED BY <2>1, <2>2 DEF IInv, HistoryFollows
<1>4. ScratchWithinReserve'  BY DEF IInv, ScratchWithinReserve
<1> QED BY <1>1, <1>2, <1>3, <1>4 DEF IInv

\* clear() empties the streams and the delay lines together.
LEMMA ClearStep == IInv /\ Clear => IInv'
<1> SUFFICES ASSUME IInv, Clear PROVE IInv'  OBVIOUS
<1> USE DEF Clear
<1>1. CallTypeOK' /\ OutputFollows'
  BY ReturnFromClearInv DEF IInv, TypeOK
<1>2. TypeOK'
  <2>1. Cleared \in DelayLines  BY ZeroAssumption DEF Cleared, DelayLines
  <2> QED BY <1>1, <2>1 DEF IInv, TypeOK
<1>3. HistoryFollows'
  <2> SUFFICES ASSUME NEW c \in Channel
               PROVE  Remembers(Cleared, Advanced(c)', c)
    BY DEF HistoryFollows, Remembers
  <2>1. Advanced(c)' = <<>>  BY DEF Advanced, NoStream, ReturnFromClear
  <2> QED BY <2>1, ClearedRemembersNothing
<1>4. ScratchWithinReserve'  BY DEF IInv, ScratchWithinReserve
<1> QED BY <1>1, <1>2, <1>3, <1>4 DEF IInv

LEMMA StutterStep == IInv /\ UNCHANGED vars => IInv'
BY DEF IInv, TypeOK, CallTypeOK, HistoryFollows, OutputFollows, Advanced,
       Extended, ScratchWithinReserve, vars, callVars, stateVars

LEMMA NextInv == IInv /\ [Next]_vars => IInv'
BY ExecuteStep, ExecuteNullStep, FilterStep, CarryStep, ReturnStep, ClearStep,
   StutterStep DEF Next

\* In every reachable state the inductive invariant holds.
LEMMA Invariance == Spec => []IInv
BY InitInv, NextInv, PTL DEF Spec

-----------------------------------------------------------------------------
(* What the runs check on small instances, for every configuration.        *)

\* Type correctness: portable_execute() stays within the batch.
THEOREM TypeCorrect == Spec => []TypeOK
<1>1. IInv => TypeOK  BY DEF IInv
<1> QED BY Invariance, <1>1, PTL

\* The delay line of every channel is always the tail of its own stream.
THEOREM HistoryCorrect == Spec => []HistoryFollows
<1>1. IInv => HistoryFollows  BY DEF IInv
<1> QED BY Invariance, <1>1, PTL

\* portable_execute() returns the convolution of the whole stream.
THEOREM OutputCorrect == Spec => []OutputIsConvolution
<1>1. IInv => OutputIsConvolution
  BY FollowsIsConvolution DEF IInv, TypeOK
<1> QED BY Invariance, <1>1, PTL

\* portable_execute() never outgrows the scratch reserved at creation.
THEOREM ScratchCorrect == Spec => []ScratchWithinReserve
<1>1. IInv => ScratchWithinReserve  BY DEF IInv
<1> QED BY Invariance, <1>1, PTL

(* The backend implements FirStream: each step of it is a step of the      *)
(* promise or leaves what the promise speaks of alone.                     *)

LEMMA RefinesInit == Init => Promise!Init
BY CallInitRefines DEF Init

LEMMA RefinesNext == IInv /\ IInv' /\ [Next]_vars => [Promise!Next]_Promise!vars
<1> SUFFICES ASSUME IInv, IInv', [Next]_vars
             PROVE  Promise!Next \/ UNCHANGED Promise!vars
  OBVIOUS
<1>1. Execute => Promise!Next  BY EnterRefines DEF Execute
<1>2. ExecuteNull => Promise!Next  BY RejectNullRefines DEF ExecuteNull
<1>3. Filter => Promise!Next  BY WithinRefines DEF Filter, IInv, TypeOK
<1>4. Carry => UNCHANGED Promise!vars
  BY DEF Carry, NextChannel, Promise!vars
<1>5. Return => Promise!Next
  BY ReturnOkRefines DEF Return, IInv, TypeOK
<1>6. Clear => Promise!Next  BY ReturnFromClearRefines DEF Clear
<1>7. UNCHANGED vars => UNCHANGED Promise!vars
  BY DEF vars, callVars, Promise!vars
<1> QED BY <1>1, <1>2, <1>3, <1>4, <1>5, <1>6, <1>7 DEF Next

\* The portable backend is a FirStream, whatever the sizes.
THEOREM Refinement == Spec => KeepsPromise
BY Invariance, RefinesInit, RefinesNext, PTL
   DEF Spec, KeepsPromise, Promise!Spec

=============================================================================
