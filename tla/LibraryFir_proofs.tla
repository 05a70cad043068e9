------------------------- MODULE LibraryFir_proofs -------------------------
(***************************************************************************)
(* The backends that leave the filtering to a library keep the promise of  *)
(* a FirPlan for every configuration: IPP, whichever channels the library  *)
(* fails on; CMSIS-DSP, whose instances never reach into one another's     *)
(* slices of the state vector; liquid-dsp and KFR, whose filter objects    *)
(* each hear one channel and every sample of it.                           *)
(***************************************************************************)
EXTENDS IppFir, CmsisFir, LiquidFir, FirPlan_proofs

(***************************************************************************)
(* IPP                                                                     *)
(***************************************************************************)

IppInv ==
    /\ IppTypeOK
    /\ OutputFollows
    /\ DelaysMoveTogether

-----------------------------------------------------------------------------
(* The library's operators.                                                *)

\* map_status() answers Ok for no library error and knows no other statuses.
LEMMA StatusMapped ==
    ASSUME NEW st \in IppStatus
    PROVE  /\ map_status(st) = "Ok" <=> st = "ippStsNoErr"
           /\ map_status(st) \in {"Ok", "NullPointer", "InvalidArgument",
                                  "UnsupportedConfig", "BackendError"}
BY DEF IppStatus, map_status

\* The frame ippsFIRSR computes from delay_a pairs tap k with the sample k
\* places back in the channel's stream.
LEMMA IppFramePairs ==
    ASSUME IppTypeOK, NEW c \in Channel, Remembers(delay_a, stream[c], c),
           NEW i \in Frame, NEW k \in Tap
    PROVE  FilterBlock(c)[i][k] =
              StreamAt(Extended(c), Len(stream[c]) + i - k)
<1> DEFINE L == Len(stream[c])
           n == (HistoryLen + i) - k
<1>1. /\ delay_a \in DelayLines /\ input \in Buffer
      /\ stream[c] \in Seq(Sample) /\ L \in Nat
  BY ExtendedIsSeq DEF IppTypeOK, CallTypeOK
<1>2. /\ HistoryLen \in Nat /\ i \in Nat /\ k \in Nat
      /\ i < BlockSize /\ k <= HistoryLen /\ BlockSize \in Nat
  BY Shapes
<1>3. n \in 0 .. HistoryLen + BlockSize - 1  BY <1>2
<1>4. L - HistoryLen + n = L + i - k
  <2> HIDE DEF L
  <2> QED BY <1>1, <1>2
<1>5. FilterBlock(c)[i][k] = StreamAt(Line(c), n)
  <2>1. FilterBlock(c)[i] = Convolution(Line(c), HistoryLen + i)
    BY DEF FilterBlock
  <2> QED BY <2>1 DEF Convolution
<1> HIDE DEF n
<1>6. StreamAt(Line(c), n) = Line(c)[n + 1]
  <2>1. n >= 0  BY <1>3
  <2> QED BY <2>1 DEF StreamAt
<1>7. Line(c)[n + 1] = StreamAt(Extended(c), L - HistoryLen + n)
  BY <1>1, <1>3, LineIsStream DEF Line, Extended
<1> QED BY <1>4, <1>5, <1>6, <1>7

\* What it writes to delay_b is the next delay line of channel b.
LEMMA NextDelayFacts ==
    ASSUME IppTypeOK, NEW c \in Channel, Remembers(delay_a, stream[c], c)
    PROVE  /\ NextDelay(c) \in DelayLines
           /\ Remembers(NextDelay(c), Extended(c), c)
           /\ \A d \in Channel \ {c} : Remembers(delay_b, Extended(d), d)
                 => Remembers(NextDelay(c), Extended(d), d)
<1>1. /\ CallTypeOK /\ delay_a \in DelayLines /\ delay_b \in DelayLines
  BY DEF IppTypeOK
<1>2. NextDelay(c) =
         MovedOn(DelayOf(delay_a, c) \o BlockOf(input, c), c, delay_b)
  BY DEF NextDelay, MovedOn, Line
<1> QED BY <1>1, <1>2, MovedOnRemembers

-----------------------------------------------------------------------------
(* The inductive invariant.                                                *)

LEMMA IppInitInv == IppInit => IppInv
<1> SUFFICES ASSUME IppInit PROVE IppInv  OBVIOUS
<1>1. CallTypeOK /\ OutputFollows  BY CallInitInv DEF IppInit
<1>2. Cleared \in DelayLines  BY ZeroAssumption DEF Cleared, DelayLines
<1>3. DelaysMoveTogether
  BY ClearedRemembersNothing DEF IppInit, CallInit, NoStream, DelaysMoveTogether
<1> QED BY <1>1, <1>2, <1>3 DEF IppInv, IppTypeOK, IppInit

LEMMA IppExecuteStep == IppInv /\ IppExecute => IppInv'
<1> SUFFICES ASSUME IppInv, IppExecute PROVE IppInv'  OBVIOUS
<1> USE DEF IppExecute, ippStateVars
<1>1. CallTypeOK' /\ OutputFollows' /\ \A c \in Channel : ~(c < b')
  BY EnterInv DEF IppInv, IppTypeOK
<1>2. DelaysMoveTogether'
  BY <1>1 DEF IppInv, DelaysMoveTogether, Enter, Remembers
<1> QED BY <1>1, <1>2 DEF IppInv, IppTypeOK

LEMMA IppExecuteNullStep == IppInv /\ IppExecuteNull => IppInv'
<1> SUFFICES ASSUME IppInv, IppExecuteNull PROVE IppInv'  OBVIOUS
<1>1. CallTypeOK' /\ OutputFollows'
  BY RejectNullInv DEF IppInv, IppTypeOK, IppExecuteNull
<1> QED BY <1>1 DEF IppInv, IppTypeOK, DelaysMoveTogether, Extended, Remembers,
                    IppExecuteNull, RejectNull, ippStateVars

\* The library takes the channel and the loop goes on, or the call returns with
\* delay_a as it was.
LEMMA IppFilterStep == IppInv /\ IppFilter => IppInv'
<1> SUFFICES ASSUME IppInv, IppFilter PROVE IppInv'  OBVIOUS
<1> USE DEF IppFilter
<1>1. IppTypeOK /\ CallTypeOK /\ b \in Channel
  BY Shapes DEF IppInv, IppTypeOK, CallTypeOK, Channel
<1>2. /\ \A c \in Channel : Remembers(delay_a, stream[c], c)
      /\ \A c \in Channel : c < b => Remembers(delay_b, Extended(c), c)
  BY DEF IppInv, DelaysMoveTogether
<1>3. PICK st \in IppStatus :
         /\ \/ LibraryWrites(b)
            \/ st # "ippStsNoErr" /\ LibraryWritesNothing
         /\ \/ map_status(st) = "Ok" /\ NextChannel /\ UNCHANGED result
            \/ /\ map_status(st) # "Ok"
               /\ pc' = "idle" /\ result' = map_status(st)
               /\ UNCHANGED b
  OBVIOUS
<1>4. /\ \A i \in Frame : FilterBlock(b)[i] = [k \in Tap |-> FilterBlock(b)[i][k]]
      /\ \A i \in Frame, k \in Tap :
            FilterBlock(b)[i][k] = StreamAt(Extended(b), Len(stream[b]) + i - k)
  <2>1. \A i \in Frame : FilterBlock(b)[i] = [k \in Tap |-> FilterBlock(b)[i][k]]
    BY DEF FilterBlock, Convolution
  <2> QED BY <1>1, <1>2, <2>1, IppFramePairs
<1>5. CASE /\ LibraryWrites(b)
           /\ NextChannel /\ UNCHANGED result
  <2>1. /\ CallTypeOK' /\ OutputFollows'
        /\ \A c \in Channel : c < b' <=> c < b \/ c = b
    BY <1>1, <1>4, <1>5, FilterInv DEF IppInv, LibraryWrites
  <2>2. DelaysMoveTogether'
    <3> SUFFICES ASSUME NEW c \in Channel, c < b \/ c = b
                 PROVE  Remembers(NextDelay(b), Extended(c), c)
      BY <1>2, <1>5, <2>1
      DEF DelaysMoveTogether, LibraryWrites, Extended, Remembers
    <3> QED BY <1>1, <1>2, NextDelayFacts
  <2> QED BY <1>1, <1>2, <1>5, <2>1, <2>2, NextDelayFacts
          DEF IppInv, IppTypeOK, LibraryWrites
<1>6. CASE /\ map_status(st) # "Ok"
           /\ pc' = "idle" /\ result' = map_status(st) /\ UNCHANGED b
  <2>1. output' \in OutputBuffer /\ delay_b' \in DelayLines
    <3>1. CASE LibraryWrites(b)
      <4>1. \A i \in Frame : FilterBlock(b)[i] \in Accumulator
        <5> TAKE i \in Frame
        <5>1. \A k \in Tap : FilterBlock(b)[i][k]
                 = StreamAt(Extended(b), Len(stream[b]) + i - k)
          BY <1>4
        <5> QED BY <1>1, <1>4, <5>1, PairsMakeConvolution
      <4>2. Written(b, FilterBlock(b)) \in OutputBuffer
        BY <1>1, <4>1, WrittenType
      <4> QED BY <1>1, <1>2, <3>1, <4>2, NextDelayFacts DEF LibraryWrites
    <3>2. CASE LibraryWritesNothing
      BY <1>1, <3>2 DEF LibraryWritesNothing, IppTypeOK, CallTypeOK
    <3> QED BY <1>3, <3>1, <3>2
  <2>2. CallTypeOK'
    BY <1>1, <1>6, <2>1, StatusMapped DEF CallTypeOK
  <2> QED BY <1>1, <1>2, <1>6, <2>1, <2>2
          DEF IppInv, IppTypeOK, OutputFollows, DelaysMoveTogether, Remembers
<1> QED BY <1>3, <1>5, <1>6, StatusMapped

\* Every channel went through: the swap moves all delay lines on together.
LEMMA IppReturnStep == IppInv /\ IppReturn => IppInv'
<1> SUFFICES ASSUME IppInv, IppReturn PROVE IppInv'  OBVIOUS
<1> USE DEF IppReturn
<1>1. /\ CallTypeOK' /\ OutputFollows'
      /\ \A c \in Channel : c < b /\ stream'[c] = Extended(c)
  BY ReturnOkInv DEF IppInv, IppTypeOK
<1>2. DelaysMoveTogether'
  BY <1>1 DEF IppInv, DelaysMoveTogether, ReturnOk
<1> QED BY <1>1, <1>2 DEF IppInv, IppTypeOK

LEMMA IppClearStep == IppInv /\ IppClear => IppInv'
<1> SUFFICES ASSUME IppInv, IppClear PROVE IppInv'  OBVIOUS
<1> USE DEF IppClear
<1>1. CallTypeOK' /\ OutputFollows'
  BY ReturnFromClearInv DEF IppInv, IppTypeOK
<1>2. Cleared \in DelayLines  BY ZeroAssumption DEF Cleared, DelayLines
<1>3. DelaysMoveTogether'
  BY ClearedRemembersNothing DEF DelaysMoveTogether, ReturnFromClear, NoStream
<1> QED BY <1>1, <1>2, <1>3 DEF IppInv, IppTypeOK

LEMMA IppStutterStep == IppInv /\ UNCHANGED ippVars => IppInv'
BY DEF IppInv, IppTypeOK, CallTypeOK, OutputFollows, DelaysMoveTogether, Extended,
       Remembers, ippVars, callVars, ippStateVars

LEMMA IppNextInv == IppInv /\ [IppNext]_ippVars => IppInv'
BY IppExecuteStep, IppExecuteNullStep, IppFilterStep, IppReturnStep,
   IppClearStep, IppStutterStep
   DEF IppNext

\* In every reachable state the inductive invariant holds.
LEMMA IppInvariance == IppSpec => []IppInv
BY IppInitInv, IppNextInv, PTL DEF IppSpec

-----------------------------------------------------------------------------
(* What the run checks on small instances, for every configuration.        *)

\* Type correctness: ipp_execute() stays within the batch.
THEOREM IppTypeCorrect == IppSpec => []IppTypeOK
<1>1. IppInv => IppTypeOK  BY DEF IppInv
<1> QED BY IppInvariance, <1>1, PTL

\* The delay lines of all channels move on together or, when the library fails
\* at any channel, not at all.
THEOREM DelaysCorrect == IppSpec => []DelaysMoveTogether
<1>1. IppInv => DelaysMoveTogether  BY DEF IppInv
<1> QED BY IppInvariance, <1>1, PTL

LEMMA IppRefinesInit == IppInit => Promise!Init
BY CallInitRefines DEF IppInit

\* A library failure is a failed call of the promise: some status that is not
\* Ok, any output, the streams untouched.
LEMMA IppFilterRefines == IppInv /\ IppInv' /\ IppFilter => Promise!Next
<1> SUFFICES ASSUME IppInv, IppInv', IppFilter PROVE Promise!Next  OBVIOUS
<1>1. CASE pc' # "idle"
  <2>1. UNCHANGED result
    BY <1>1 DEF IppFilter
  <2> QED BY <1>1, <2>1, WithinRefines DEF IppFilter, IppInv, IppTypeOK
<1>2. CASE pc' = "idle"
  <2>1. PICK st \in IppStatus : map_status(st) # "Ok" /\ result' = map_status(st)
    BY <1>2 DEF IppFilter, NextChannel
  <2>2. result' \in Promise!Error
    BY <2>1, StatusMapped DEF Promise!Error
  <2>3. Promise!Fail
    BY <1>2, <2>2, SameData
    DEF IppFilter, IppInv, IppTypeOK, CallTypeOK, Promise!Fail
  <2> QED BY <2>3 DEF Promise!Next
<1> QED BY <1>1, <1>2

LEMMA IppRefinesNext ==
    IppInv /\ IppInv' /\ [IppNext]_ippVars => [Promise!Next]_Promise!vars
<1> SUFFICES ASSUME IppInv, IppInv', [IppNext]_ippVars
             PROVE  Promise!Next \/ UNCHANGED Promise!vars
  OBVIOUS
<1>1. IppExecute => Promise!Next  BY EnterRefines DEF IppExecute
<1>2. IppExecuteNull => Promise!Next  BY RejectNullRefines DEF IppExecuteNull
<1>3. IppFilter => Promise!Next  BY IppFilterRefines
<1>4. IppReturn => Promise!Next
  BY ReturnOkRefines DEF IppReturn, IppInv, IppTypeOK
<1>5. IppClear => Promise!Next  BY ReturnFromClearRefines DEF IppClear
<1>6. UNCHANGED ippVars => UNCHANGED Promise!vars
  BY DEF ippVars, callVars, Promise!vars
<1> QED BY <1>1, <1>2, <1>3, <1>4, <1>5, <1>6 DEF IppNext

\* The IPP backend is a FirStream, whatever the sizes: a call that fails at any
\* channel can be repeated as if it had not been made.
THEOREM IppRefinement == IppSpec => KeepsPromise
BY IppInvariance, IppRefinesInit, IppRefinesNext, PTL
   DEF IppSpec, KeepsPromise, Promise!Spec

(***************************************************************************)
(* CMSIS-DSP                                                               *)
(***************************************************************************)

\* The front of instance c's slice of st is the tail of the stream s.
Fronts(st, s, c) ==
    \A j \in 0 .. TapCount - 2 :
        st[InstanceState(c) + j] = StreamAt(s, Len(s) - HistoryLen + j)

\* What an instance has heard: during a call the ones the loop has passed
\* already count the new block.
Heard(c) == IF pc # "idle" /\ c < b THEN Extended(c) ELSE stream[c]

CmsisInv ==
    /\ CmsisTypeOK
    /\ OutputFollows
    /\ InstancesFollow

-----------------------------------------------------------------------------
(* The slices of the state vector.                                         *)

LEMMA StateShapes ==
    /\ state_len \in Nat /\ state_len = HistoryLen + BlockSize
    /\ TapCount - 2 = HistoryLen - 1 /\ TapCount - 1 = HistoryLen
    /\ \A c \in Channel : InstanceState(c) \in Nat
BY Shapes DEF state_len, InstanceState

\* An offset of one instance is in the vector and in no other's slice.
LEMMA StateOffset ==
    ASSUME NEW c \in Channel, NEW d \in Channel, NEW n \in 0 .. state_len - 1
    PROVE  /\ InstanceState(d) + n \in StateIndex
           /\ (InstanceState(d) + n) - InstanceState(c) \in 0 .. state_len - 1
                 <=> d = c
<1>1. InstanceState(d) + n \in StateIndex
  BY Shapes, StateShapes, SliceWithin DEF InstanceState, StateIndex
<1>2. d * state_len + n \in Slice(c, state_len) <=> d = c
  BY Shapes, StateShapes, SliceMember
<1>3. \A p, q \in Nat : p \in q .. q + state_len - 1
                           <=> p - q \in 0 .. state_len - 1
  BY StateShapes
<1>4. d * state_len + n \in Slice(c, state_len)
         <=> (d * state_len + n) - c * state_len \in 0 .. state_len - 1
  <2>1. c * state_len \in Nat /\ d * state_len + n \in Nat
    BY Shapes, StateShapes
  <2> QED BY <1>3, <2>1 DEF Slice
<1> QED BY <1>1, <1>2, <1>4 DEF InstanceState

-----------------------------------------------------------------------------
(* The library's operators.                                                *)

\* Behind its delay line an instance finds its block: together the stream as
\* far back as the taps reach.
LEMMA LoadedSample ==
    ASSUME CmsisTypeOK, NEW c \in Channel, Fronts(state, stream[c], c),
           NEW n \in 0 .. state_len - 1
    PROVE  Loaded(c)[InstanceState(c) + n] =
              StreamAt(Extended(c), Len(stream[c]) - HistoryLen + n)
<1> DEFINE L == Len(stream[c])
           at == InstanceState(c) + n
           i == at - (InstanceState(c) + TapCount - 1)
<1>1. /\ stream[c] \in Seq(Sample) /\ L \in Nat
      /\ BlockOf(input, c) \in Seq(Sample)
      /\ Len(BlockOf(input, c)) = BlockSize /\ input \in Buffer
  BY ExtendedIsSeq DEF CmsisTypeOK, CallTypeOK
<1>2. /\ HistoryLen \in Nat /\ BlockSize \in Nat /\ TapCount \in Nat
      /\ n \in 0 .. HistoryLen + BlockSize - 1
      /\ InstanceState(c) \in Nat /\ TapCount - 1 = HistoryLen
  BY Shapes, StateShapes
<1>3. i = n - HistoryLen  BY <1>2
<1>4. Loaded(c)[at] = IF i \in Frame THEN input[c * BlockSize + i] ELSE state[at]
  BY StateOffset DEF Loaded
<1>5. StreamAt(Extended(c), L - HistoryLen + n) =
         IF L - HistoryLen + n < L THEN StreamAt(stream[c], L - HistoryLen + n)
         ELSE BlockOf(input, c)[(L - HistoryLen + n) - L + 1]
  <2>1. L - HistoryLen + n \in Int /\ L - HistoryLen + n < L + BlockSize
    <3> HIDE DEF L
    <3> QED BY <1>1, <1>2
  <2> QED BY <1>1, <2>1, StreamExtended DEF Extended
<1> HIDE DEF i, at
<1>6. CASE n < HistoryLen
  <2>1. i \notin Frame  BY <1>2, <1>3, <1>6, Shapes
  <2>2. state[at] = StreamAt(stream[c], L - HistoryLen + n)
    BY <1>2, <1>6, StateShapes DEF Fronts, at
  <2>3. L - HistoryLen + n < L
    <3> HIDE DEF L
    <3> QED BY <1>1, <1>2, <1>6
  <2> QED BY <1>4, <1>5, <2>1, <2>2, <2>3 DEF at
<1>7. CASE ~(n < HistoryLen)
  <2>1. i \in Frame  BY <1>2, <1>3, <1>7, Shapes
  <2>2. BlockOf(input, c)[i + 1] = input[c * BlockSize + i]
    BY <1>1, <2>1, BlockIsSeq
  <2>3. ~(L - HistoryLen + n < L) /\ (L - HistoryLen + n) - L + 1 = i + 1
    <3> HIDE DEF L
    <3> QED BY <1>1, <1>2, <1>3, <1>7
  <2> QED BY <1>4, <1>5, <2>1, <2>2, <2>3 DEF at
<1> QED BY <1>6, <1>7

\* Loading a block leaves the other instances' slices alone.
LEMMA LoadedElsewhere ==
    ASSUME NEW c \in Channel, NEW d \in Channel, c # d,
           NEW n \in 0 .. state_len - 1
    PROVE  Loaded(c)[InstanceState(d) + n] = state[InstanceState(d) + n]
<1> DEFINE at == InstanceState(d) + n
           i == at - (InstanceState(c) + TapCount - 1)
<1>1. /\ HistoryLen \in Nat /\ BlockSize \in Nat /\ TapCount \in Nat
      /\ state_len = HistoryLen + BlockSize /\ TapCount - 1 = HistoryLen
      /\ InstanceState(c) \in Nat /\ at \in Nat
  BY Shapes, StateShapes
<1>2. at \in StateIndex /\ at - InstanceState(c) \notin 0 .. state_len - 1
  BY StateOffset
<1> HIDE DEF at
<1>3. i = at - InstanceState(c) - HistoryLen  BY <1>1
<1>4. i \notin Frame  BY <1>1, <1>2, <1>3, Shapes
<1>5. Loaded(c)[at] = state[at]  BY <1>2, <1>4 DEF Loaded
<1> QED BY <1>5 DEF at

\* The coefficients are stored back to front.
LEMMA PlaceOfTap ==
    ASSUME NEW k \in Tap
    PROVE  PlaceOf(k) = HistoryLen - k
<1>1. HistoryLen \in Nat /\ k \in 0 .. HistoryLen /\ TapCount = HistoryLen + 1
  BY Shapes
<1>2. HistoryLen - k \in Tap  BY <1>1, Shapes
<1>3. \A t \in Tap : coeffs[t] = k <=> t = HistoryLen - k
  BY <1>1, Shapes DEF coeffs
<1>4. PlaceOf(k) \in Tap /\ coeffs[PlaceOf(k)] = k
  BY <1>2, <1>3 DEF PlaceOf
<1> QED BY <1>3, <1>4

\* So the frame arm_fir computes pairs tap k with the sample k places back in
\* the channel's stream.
LEMMA CmsisFramePairs ==
    ASSUME CmsisTypeOK, NEW c \in Channel, Fronts(state, stream[c], c),
           NEW i \in Frame, NEW k \in Tap
    PROVE  ArmFir(c)[i][k] = StreamAt(Extended(c), Len(stream[c]) + i - k)
<1> DEFINE L == Len(stream[c])
           n == i + (HistoryLen - k)
<1>1. /\ HistoryLen \in Nat /\ i \in Nat /\ k \in Nat /\ k <= HistoryLen
      /\ BlockSize \in Nat /\ i < BlockSize /\ InstanceState(c) \in Nat
      /\ L \in Nat
  BY Shapes, StateShapes, ExtendedIsSeq DEF CmsisTypeOK
<1>2. n \in 0 .. state_len - 1  BY <1>1, StateShapes
<1>3. ArmFir(c)[i][k] = Loaded(c)[InstanceState(c) + i + PlaceOf(k)]
  BY DEF ArmFir
<1>4. InstanceState(c) + i + PlaceOf(k) = InstanceState(c) + n
  BY <1>1, PlaceOfTap
<1>5. L - HistoryLen + n = L + i - k
  <2> HIDE DEF L
  <2> QED BY <1>1
<1> HIDE DEF n
<1>6. Loaded(c)[InstanceState(c) + n] = StreamAt(Extended(c), L - HistoryLen + n)
  BY <1>2, LoadedSample
<1> QED BY <1>3, <1>4, <1>5, <1>6

\* And what it leaves behind is the front of the next call, its own alone.
LEMMA ShiftedFronts ==
    ASSUME CmsisTypeOK, NEW c \in Channel, Fronts(state, stream[c], c)
    PROVE  /\ Fronts(Shifted(c), Extended(c), c)
           /\ \A s, d : d \in Channel /\ d # c /\ Fronts(state, s, d)
                 => Fronts(Shifted(c), s, d)
           /\ Shifted(c) \in [StateIndex -> Sample]
<1> DEFINE L == Len(stream[c])
<1>1. /\ HistoryLen \in Nat /\ BlockSize \in Nat
      /\ state_len = HistoryLen + BlockSize /\ TapCount - 2 = HistoryLen - 1
      /\ InstanceState(c) \in Nat
      /\ L \in Nat /\ Len(Extended(c)) = L + BlockSize
  BY Shapes, StateShapes, ExtendedIsSeq DEF CmsisTypeOK
<1>2. ASSUME NEW j \in 0 .. TapCount - 2
      PROVE  Shifted(c)[InstanceState(c) + j] =
                StreamAt(Extended(c), Len(Extended(c)) - HistoryLen + j)
  <2>1. j \in 0 .. state_len - 1 /\ j + BlockSize \in 0 .. state_len - 1
    BY <1>1, Shapes
  <2>2. /\ InstanceState(c) + j \in StateIndex
        /\ (InstanceState(c) + j) - InstanceState(c) = j
        /\ (InstanceState(c) + j) + BlockSize = InstanceState(c) + (j + BlockSize)
    BY <1>1, <2>1, StateOffset
  <2>3. Shifted(c)[InstanceState(c) + j] =
           Loaded(c)[InstanceState(c) + (j + BlockSize)]
    BY <2>2 DEF Shifted
  <2>4. Loaded(c)[InstanceState(c) + (j + BlockSize)] =
           StreamAt(Extended(c), L - HistoryLen + (j + BlockSize))
    BY <2>1, LoadedSample
  <2>5. L - HistoryLen + (j + BlockSize) = Len(Extended(c)) - HistoryLen + j
    <3> HIDE DEF L
    <3> QED BY <1>1
  <2> QED BY <2>3, <2>4, <2>5
<1>3. ASSUME NEW d \in Channel, d # c, NEW j \in 0 .. TapCount - 2
      PROVE  Shifted(c)[InstanceState(d) + j] = state[InstanceState(d) + j]
  <2>1. j \in 0 .. state_len - 1  BY <1>1, Shapes
  <2>2. /\ InstanceState(d) + j \in StateIndex
        /\ (InstanceState(d) + j) - InstanceState(c) \notin 0 .. state_len - 1
    BY <1>3, <2>1, StateOffset
  <2>3. (InstanceState(d) + j) - InstanceState(c) \notin 0 .. TapCount - 2
    BY <1>1, <2>2, Shapes
  <2>4. Loaded(c)[InstanceState(d) + j] = state[InstanceState(d) + j]
    BY <1>3, <2>1, LoadedElsewhere
  <2> QED BY <2>2, <2>3, <2>4 DEF Shifted
<1>4. \A h \in StateIndex : Loaded(c)[h] \in Sample
  <2> TAKE h \in StateIndex
  <2>1. /\ state \in [StateIndex -> Sample] /\ input \in Buffer
        /\ \A i \in Frame : c * BlockSize + i \in BufferIndex
    BY FrameOffset DEF CmsisTypeOK, CallTypeOK
  <2> QED BY <2>1 DEF Loaded, Buffer
<1>5. ASSUME NEW h \in StateIndex, h - InstanceState(c) \in 0 .. TapCount - 2
      PROVE  h + BlockSize \in StateIndex
  <2> DEFINE j == h - InstanceState(c) + BlockSize
  <2>1. h \in Int  BY DEF StateIndex
  <2>2. j \in 0 .. state_len - 1 /\ InstanceState(c) + j = h + BlockSize
    BY <1>1, <1>5, <2>1
  <2> HIDE DEF j
  <2>3. InstanceState(c) + j \in StateIndex  BY <2>2, StateOffset
  <2> QED BY <2>2, <2>3
<1>6. Shifted(c) \in [StateIndex -> Sample]
  BY <1>4, <1>5 DEF Shifted
<1>7. Fronts(Shifted(c), Extended(c), c)  BY <1>2 DEF Fronts
<1>8. \A s, d : d \in Channel /\ d # c /\ Fronts(state, s, d)
         => Fronts(Shifted(c), s, d)
  BY <1>3 DEF Fronts
<1> QED BY <1>6, <1>7, <1>8

-----------------------------------------------------------------------------
(* The inductive invariant.                                                *)

LEMMA FrontsAre ==
    InstancesFollow <=> \A c \in Channel : Fronts(state, Heard(c), c)
BY DEF InstancesFollow, Fronts, Heard

\* A zeroed vector is the silence before every stream.
LEMMA ZeroedFronts ==
    /\ Zeroed \in [StateIndex -> Sample]
    /\ \A c \in Channel : Fronts(Zeroed, <<>>, c)
<1>1. Zeroed \in [StateIndex -> Sample]  BY ZeroAssumption DEF Zeroed
<1>2. ASSUME NEW c \in Channel, NEW j \in 0 .. TapCount - 2
      PROVE  Zeroed[InstanceState(c) + j] =
                StreamAt(<<>>, Len(<<>>) - HistoryLen + j)
  <2>1. j \in 0 .. state_len - 1 /\ HistoryLen \in Nat /\ j < HistoryLen
    BY Shapes, StateShapes
  <2>2. Zeroed[InstanceState(c) + j] = Zero  BY <2>1, StateOffset DEF Zeroed
  <2>3. Len(<<>>) = 0  BY EmptySeq
  <2>4. ~(0 - HistoryLen + j >= 0)  BY <2>1
  <2> QED BY <2>2, <2>3, <2>4 DEF StreamAt
<1> QED BY <1>1, <1>2 DEF Fronts

LEMMA CmsisInitInv == CmsisInit => CmsisInv
<1> SUFFICES ASSUME CmsisInit PROVE CmsisInv  OBVIOUS
<1>1. CallTypeOK /\ OutputFollows  BY CallInitInv DEF CmsisInit
<1>2. \A c \in Channel : Heard(c) = <<>>
  BY DEF CmsisInit, CallInit, NoStream, Heard
<1>3. InstancesFollow  BY <1>2, ZeroedFronts, FrontsAre DEF CmsisInit
<1> QED BY <1>1, <1>3, ZeroedFronts DEF CmsisInv, CmsisTypeOK, CmsisInit

LEMMA CmsisExecuteStep == CmsisInv /\ CmsisExecute => CmsisInv'
<1> SUFFICES ASSUME CmsisInv, CmsisExecute PROVE CmsisInv'  OBVIOUS
<1> USE DEF CmsisExecute
<1>1. CallTypeOK' /\ OutputFollows' /\ \A c \in Channel : ~(c < b')
  BY EnterInv DEF CmsisInv, CmsisTypeOK
<1>2. \A c \in Channel : Heard(c)' = Heard(c)
  BY <1>1 DEF Heard, Enter
<1>3. InstancesFollow'
  <2>1. \A c \in Channel : Fronts(state', Heard(c)', c)
    BY <1>2, FrontsAre DEF CmsisInv
  <2> QED BY <2>1 DEF InstancesFollow, Fronts, Heard
<1> QED BY <1>1, <1>3 DEF CmsisInv, CmsisTypeOK

LEMMA CmsisExecuteNullStep == CmsisInv /\ CmsisExecuteNull => CmsisInv'
<1> SUFFICES ASSUME CmsisInv, CmsisExecuteNull PROVE CmsisInv'  OBVIOUS
<1>1. CallTypeOK' /\ OutputFollows'
  BY RejectNullInv DEF CmsisInv, CmsisTypeOK, CmsisExecuteNull
<1> QED BY <1>1 DEF CmsisInv, CmsisTypeOK, InstancesFollow, Extended,
                    CmsisExecuteNull, RejectNull

\* arm_fir takes channel b: its output, and its front, move on by the block.
LEMMA CmsisFilterStep == CmsisInv /\ CmsisFilter => CmsisInv'
<1> SUFFICES ASSUME CmsisInv, CmsisFilter PROVE CmsisInv'  OBVIOUS
<1> USE DEF CmsisFilter
<1>1. CmsisTypeOK /\ CallTypeOK /\ b \in Channel
  BY Shapes DEF CmsisInv, CmsisTypeOK, CallTypeOK, Channel
<1>2. \A c \in Channel : Fronts(state, Heard(c), c)
  BY FrontsAre DEF CmsisInv
<1>3. Fronts(state, stream[b], b)
  <2>1. ~(b < b)  BY <1>1, Shapes
  <2>2. Heard(b) = stream[b]  BY <2>1 DEF Heard
  <2> QED BY <1>1, <1>2, <2>2
<1>4. \A i \in Frame : ArmFir(b)[i] = [k \in Tap |-> ArmFir(b)[i][k]]
  BY DEF ArmFir
<1>5. \A i \in Frame, k \in Tap :
         ArmFir(b)[i][k] = StreamAt(Extended(b), Len(stream[b]) + i - k)
  BY <1>1, <1>3, CmsisFramePairs
<1>6. /\ CallTypeOK' /\ OutputFollows'
      /\ \A c \in Channel : c < b' <=> c < b \/ c = b
  BY <1>1, <1>4, <1>5, FilterInv DEF CmsisInv
<1>7. InstancesFollow'
  <2> SUFFICES ASSUME NEW c \in Channel
               PROVE  Fronts(Shifted(b), Heard(c)', c)
    BY DEF InstancesFollow, Fronts, Heard
  <2>1. CASE c = b
    <3>1. Heard(c)' = Extended(b)
      BY <1>6, <2>1 DEF Heard, NextChannel, Extended
    <3> QED BY <1>1, <1>3, <2>1, <3>1, ShiftedFronts
  <2>2. CASE c # b
    <3>1. Heard(c)' = Heard(c)
      BY <1>6, <2>2 DEF Heard, NextChannel, Extended
    <3> QED BY <1>1, <1>2, <1>3, <2>2, <3>1, ShiftedFronts
  <2> QED BY <2>1, <2>2
<1> QED BY <1>1, <1>3, <1>6, <1>7, ShiftedFronts DEF CmsisInv, CmsisTypeOK

LEMMA CmsisReturnStep == CmsisInv /\ CmsisReturn => CmsisInv'
<1> SUFFICES ASSUME CmsisInv, CmsisReturn PROVE CmsisInv'  OBVIOUS
<1> USE DEF CmsisReturn
<1>1. /\ CallTypeOK' /\ OutputFollows'
      /\ \A c \in Channel : c < b /\ stream'[c] = Extended(c)
  BY ReturnOkInv DEF CmsisInv, CmsisTypeOK
<1>2. \A c \in Channel : Heard(c)' = Heard(c)
  BY <1>1 DEF Heard, ReturnOk
<1>3. InstancesFollow'
  <2>1. \A c \in Channel : Fronts(state', Heard(c)', c)
    BY <1>2, FrontsAre DEF CmsisInv
  <2> QED BY <2>1 DEF InstancesFollow, Fronts, Heard
<1> QED BY <1>1, <1>3 DEF CmsisInv, CmsisTypeOK

LEMMA CmsisClearStep == CmsisInv /\ CmsisClear => CmsisInv'
<1> SUFFICES ASSUME CmsisInv, CmsisClear PROVE CmsisInv'  OBVIOUS
<1> USE DEF CmsisClear
<1>1. CallTypeOK' /\ OutputFollows'
  BY ReturnFromClearInv DEF CmsisInv, CmsisTypeOK
<1>2. \A c \in Channel : Heard(c)' = <<>>
  BY DEF Heard, ReturnFromClear, NoStream
<1>3. InstancesFollow'
  <2>1. \A c \in Channel : Fronts(state', Heard(c)', c)
    BY <1>2, ZeroedFronts
  <2> QED BY <2>1 DEF InstancesFollow, Fronts, Heard
<1> QED BY <1>1, <1>3, ZeroedFronts DEF CmsisInv, CmsisTypeOK

LEMMA CmsisStutterStep == CmsisInv /\ UNCHANGED cmsisVars => CmsisInv'
BY DEF CmsisInv, CmsisTypeOK, CallTypeOK, OutputFollows, InstancesFollow,
       Extended, cmsisVars, callVars

LEMMA CmsisNextInv == CmsisInv /\ [CmsisNext]_cmsisVars => CmsisInv'
BY CmsisExecuteStep, CmsisExecuteNullStep, CmsisFilterStep, CmsisReturnStep,
   CmsisClearStep, CmsisStutterStep
   DEF CmsisNext

\* In every reachable state the inductive invariant holds.
LEMMA CmsisInvariance == CmsisSpec => []CmsisInv
BY CmsisInitInv, CmsisNextInv, PTL DEF CmsisSpec

-----------------------------------------------------------------------------
(* What the run checks on small instances, for every configuration.        *)

\* Type correctness: what the instances leave in the state vector are samples,
\* and the loop stays within the batch.
THEOREM CmsisTypeCorrect == CmsisSpec => []CmsisTypeOK
<1>1. CmsisInv => CmsisTypeOK  BY DEF CmsisInv
<1> QED BY CmsisInvariance, <1>1, PTL

\* The front of every instance's slice is always the tail of its own stream.
THEOREM InstancesCorrect == CmsisSpec => []InstancesFollow
<1>1. CmsisInv => InstancesFollow  BY DEF CmsisInv
<1> QED BY CmsisInvariance, <1>1, PTL

LEMMA CmsisRefinesInit == CmsisInit => Promise!Init
BY CallInitRefines DEF CmsisInit

LEMMA CmsisRefinesNext ==
    CmsisInv /\ CmsisInv' /\ [CmsisNext]_cmsisVars => [Promise!Next]_Promise!vars
<1> SUFFICES ASSUME CmsisInv, CmsisInv', [CmsisNext]_cmsisVars
             PROVE  Promise!Next \/ UNCHANGED Promise!vars
  OBVIOUS
<1>1. CmsisExecute => Promise!Next  BY EnterRefines DEF CmsisExecute
<1>2. CmsisExecuteNull => Promise!Next  BY RejectNullRefines DEF CmsisExecuteNull
<1>3. CmsisFilter => Promise!Next
  BY WithinRefines DEF CmsisFilter, NextChannel, CmsisInv, CmsisTypeOK
<1>4. CmsisReturn => Promise!Next
  BY ReturnOkRefines DEF CmsisReturn, CmsisInv, CmsisTypeOK
<1>5. CmsisClear => Promise!Next  BY ReturnFromClearRefines DEF CmsisClear
<1>6. UNCHANGED cmsisVars => UNCHANGED Promise!vars
  BY DEF cmsisVars, callVars, Promise!vars
<1> QED BY <1>1, <1>2, <1>3, <1>4, <1>5, <1>6 DEF CmsisNext

\* The CMSIS-DSP backend is a FirStream, whatever the sizes.
THEOREM CmsisRefinement == CmsisSpec => KeepsPromise
BY CmsisInvariance, CmsisRefinesInit, CmsisRefinesNext, PTL
   DEF CmsisSpec, KeepsPromise, Promise!Spec

(***************************************************************************)
(* liquid-dsp and KFR                                                      *)
(***************************************************************************)

\* The last TapCount samples of a stream that was silent before it began.
Window(s) == SubSeq(EmptyWindow \o s, Len(s) + 1, Len(s) + TapCount)

LiquidInv ==
    /\ LiquidTypeOK
    /\ OutputFollows
    /\ WindowsFollow

-----------------------------------------------------------------------------
(* The windows of the objects.                                             *)

\* TapCount samples cut from a sequence.
LEMMA CutWindow ==
    ASSUME NEW line \in Seq(Sample), NEW n \in Nat, n + TapCount <= Len(line)
    PROVE  LET w == SubSeq(line, n + 1, n + TapCount)
           IN  /\ w \in Seq(Sample) /\ Len(w) = TapCount
               /\ \A j \in 1 .. TapCount : w[j] = line[n + j]
<1> DEFINE w == SubSeq(line, n + 1, n + TapCount)
<1>1. TapCount \in Nat /\ TapCount >= 1 /\ Len(line) \in Nat
  BY Shapes, LenProperties
<1>2. \A i \in n + 1 .. n + TapCount : line[i] \in Sample
  <2>1. \A i \in n + 1 .. n + TapCount : i \in 1 .. Len(line)  BY <1>1
  <2> QED BY <2>1, ElementOfSeq
<1>3. /\ n + 1 \in Int /\ n + TapCount \in Int /\ n + 1 <= n + TapCount
      /\ (n + TapCount) - (n + 1) + 1 = TapCount
      /\ \A j \in 1 .. TapCount : (n + 1) + j - 1 = n + j
  BY <1>1
<1>4. /\ w \in Seq(Sample)
      /\ Len(w) = IF n + 1 <= n + TapCount
                  THEN (n + TapCount) - (n + 1) + 1 ELSE 0
      /\ \A j \in 1 .. (n + TapCount) - (n + 1) + 1 : w[j] = line[(n + 1) + j - 1]
  BY <1>2, <1>3, SubSeqProperties
<1> HIDE DEF w
<1>5. /\ w \in Seq(Sample) /\ Len(w) = TapCount
      /\ \A j \in 1 .. TapCount : w[j] = line[n + j]
  BY <1>3, <1>4
<1> QED BY <1>5 DEF w

\* The window of a stream, sample by sample.
LEMMA WindowFacts ==
    ASSUME NEW s \in Seq(Sample)
    PROVE  /\ Window(s) \in Seq(Sample) /\ Len(Window(s)) = TapCount
           /\ \A j \in 1 .. TapCount :
                 Window(s)[j] = StreamAt(s, Len(s) - TapCount + j - 1)
<1> DEFINE heard == EmptyWindow \o s
           L == Len(s)
<1>1. TapCount \in Nat /\ L \in Nat  BY Shapes, LenProperties
<1>2. /\ EmptyWindow \in Seq(Sample) /\ Len(EmptyWindow) = TapCount
      /\ \A j \in 1 .. TapCount : EmptyWindow[j] = Zero
  <2>1. EmptyWindow \in [1 .. TapCount -> Sample]
    BY ZeroAssumption DEF EmptyWindow
  <2> QED BY <1>1, <2>1 DEF EmptyWindow
<1>3. /\ heard \in Seq(Sample) /\ Len(heard) = TapCount + L
      /\ \A i \in 1 .. TapCount + L :
            heard[i] = IF i <= TapCount THEN EmptyWindow[i] ELSE s[i - TapCount]
  BY <1>2, ConcatProperties
<1>4. Window(s) = SubSeq(heard, L + 1, L + TapCount)  BY DEF Window
<1> HIDE DEF heard, L
<1>5. /\ Window(s) \in Seq(Sample) /\ Len(Window(s)) = TapCount
      /\ \A j \in 1 .. TapCount : Window(s)[j] = heard[L + j]
  <2>1. L + TapCount <= Len(heard)  BY <1>1, <1>3
  <2> QED BY <1>1, <1>3, <1>4, <2>1, CutWindow
<1>6. ASSUME NEW j \in 1 .. TapCount
      PROVE  heard[L + j] = StreamAt(s, L - TapCount + j - 1)
  <2>1. L + j \in 1 .. TapCount + L  BY <1>1
  <2>2. CASE L + j <= TapCount
    <3>1. ~(L - TapCount + j - 1 >= 0) /\ L + j \in 1 .. TapCount
      BY <1>1, <2>2
    <3> QED BY <1>2, <1>3, <2>1, <2>2, <3>1 DEF StreamAt
  <2>3. CASE ~(L + j <= TapCount)
    <3>1. /\ L - TapCount + j - 1 >= 0
          /\ (L - TapCount + j - 1) + 1 = (L + j) - TapCount
      BY <1>1, <2>3
    <3> QED BY <1>3, <2>1, <2>3, <3>1 DEF StreamAt
  <2> QED BY <2>2, <2>3
<1> QED BY <1>5, <1>6 DEF L

\* Only the window has these samples.
LEMMA WindowIs ==
    ASSUME NEW s \in Seq(Sample), NEW w \in Seq(Sample), Len(w) = TapCount,
           \A j \in 1 .. TapCount : w[j] = StreamAt(s, Len(s) - TapCount + j - 1)
    PROVE  w = Window(s)
<1>1. /\ Window(s) \in Seq(Sample) /\ Len(Window(s)) = Len(w)
      /\ \A j \in 1 .. Len(w) : w[j] = Window(s)[j]
  BY WindowFacts
<1> QED BY <1>1, SeqEqual

\* After n samples of its channel's block an object's window is as far back as
\* the taps reach in the stream extended by the block.
LEMMA PushedWindow ==
    ASSUME LiquidTypeOK, NEW c \in Channel, filters[c] = Window(stream[c]),
           NEW n \in 0 .. BlockSize
    PROVE  /\ Pushed(c, c, n) \in Seq(Sample) /\ Len(Pushed(c, c, n)) = TapCount
           /\ \A j \in 1 .. TapCount :
                 Pushed(c, c, n)[j] =
                    StreamAt(Extended(c), Len(stream[c]) - TapCount + n + j - 1)
<1> DEFINE samples == filters[c] \o BlockOf(input, c)
           block == BlockOf(input, c)
           L == Len(stream[c])
<1>1. /\ stream[c] \in Seq(Sample) /\ L \in Nat
      /\ block \in Seq(Sample) /\ Len(block) = BlockSize
  BY ExtendedIsSeq DEF LiquidTypeOK
<1>2. TapCount \in Nat /\ TapCount >= 1 /\ BlockSize \in Nat /\ n \in Nat
      /\ n <= BlockSize
  BY Shapes
<1>3. /\ filters[c] \in Seq(Sample) /\ Len(filters[c]) = TapCount
      /\ \A j \in 1 .. TapCount :
            filters[c][j] = StreamAt(stream[c], L - TapCount + j - 1)
  BY <1>1, WindowFacts
<1>4. /\ samples \in Seq(Sample) /\ Len(samples) = TapCount + BlockSize
      /\ \A i \in 1 .. TapCount + BlockSize :
            samples[i] = IF i <= TapCount THEN filters[c][i] ELSE block[i - TapCount]
  BY <1>1, <1>3, ConcatProperties
<1>5. Pushed(c, c, n) = SubSeq(samples, n + 1, n + TapCount)  BY DEF Pushed
<1> HIDE DEF samples, block, L
<1>6. /\ Pushed(c, c, n) \in Seq(Sample) /\ Len(Pushed(c, c, n)) = TapCount
      /\ \A j \in 1 .. TapCount : Pushed(c, c, n)[j] = samples[n + j]
  <2>1. n + TapCount <= Len(samples)  BY <1>2, <1>4
  <2> QED BY <1>2, <1>4, <1>5, <2>1, CutWindow
<1>7. ASSUME NEW j \in 1 .. TapCount
      PROVE  samples[n + j] = StreamAt(Extended(c), L - TapCount + n + j - 1)
  <2> DEFINE m == L - TapCount + n + j - 1
  <2>1. n + j \in 1 .. TapCount + BlockSize  BY <1>2
  <2>2. m \in Int /\ m < L + BlockSize /\ (m < L <=> n + j <= TapCount)
        /\ m = L - TapCount + (n + j) - 1 /\ m - L + 1 = (n + j) - TapCount
    BY <1>1, <1>2
  <2> HIDE DEF m
  <2>3. StreamAt(Extended(c), m) =
           IF m < L THEN StreamAt(stream[c], m) ELSE block[m - L + 1]
    BY <1>1, <2>2, StreamExtended DEF Extended, L, block
  <2>4. CASE n + j <= TapCount
    <3>1. n + j \in 1 .. TapCount  BY <1>2, <2>4
    <3>2. filters[c][n + j] = StreamAt(stream[c], L - TapCount + (n + j) - 1)
      BY <1>3, <3>1
    <3> QED BY <1>4, <2>1, <2>2, <2>3, <2>4, <3>2 DEF m
  <2>5. CASE ~(n + j <= TapCount)
    BY <1>4, <2>1, <2>2, <2>3, <2>5 DEF m
  <2> QED BY <2>4, <2>5
<1> QED BY <1>6, <1>7 DEF L

\* So it ends a block as the window of the longer stream, and forms for each
\* frame of it the sum of tap k and the sample k places back.
LEMMA ThroughWindow ==
    ASSUME LiquidTypeOK, NEW c \in Channel, filters[c] = Window(stream[c])
    PROVE  /\ Pushed(c, c, BlockSize) = Window(Extended(c))
           /\ \A i \in Frame, k \in Tap :
                 Product(Pushed(c, c, i + 1))[k] =
                    StreamAt(Extended(c), Len(stream[c]) + i - k)
<1> DEFINE L == Len(stream[c])
<1>1. /\ L \in Nat /\ Extended(c) \in Seq(Sample)
      /\ Len(Extended(c)) = L + BlockSize
  BY ExtendedIsSeq DEF LiquidTypeOK
<1>2. /\ TapCount \in Nat /\ TapCount = HistoryLen + 1 /\ HistoryLen \in Nat
      /\ BlockSize \in Nat
  BY Shapes
<1>3. Pushed(c, c, BlockSize) = Window(Extended(c))
  <2>1. BlockSize \in 0 .. BlockSize  BY <1>2
  <2>2. /\ Pushed(c, c, BlockSize) \in Seq(Sample)
        /\ Len(Pushed(c, c, BlockSize)) = TapCount
        /\ \A j \in 1 .. TapCount :
              Pushed(c, c, BlockSize)[j] =
                 StreamAt(Extended(c), L - TapCount + BlockSize + j - 1)
    BY <2>1, PushedWindow
  <2>3. \A j \in 1 .. TapCount : L - TapCount + BlockSize + j - 1
                                    = Len(Extended(c)) - TapCount + j - 1
    <3> HIDE DEF L
    <3> QED BY <1>1, <1>2
  <2>4. \A j \in 1 .. TapCount :
           Pushed(c, c, BlockSize)[j] =
              StreamAt(Extended(c), Len(Extended(c)) - TapCount + j - 1)
    BY <2>2, <2>3
  <2> QED BY <1>1, <2>2, <2>4, WindowIs
<1>4. ASSUME NEW i \in Frame, NEW k \in Tap
      PROVE  Product(Pushed(c, c, i + 1))[k] = StreamAt(Extended(c), L + i - k)
  <2>1. i \in Nat /\ i + 1 \in 0 .. BlockSize /\ k \in Nat /\ k <= HistoryLen
    BY Shapes
  <2>2. TapCount - k \in 1 .. TapCount  BY <1>2, <2>1
  <2>3. Product(Pushed(c, c, i + 1))[k] = Pushed(c, c, i + 1)[TapCount - k]
    BY DEF Product
  <2>4. Pushed(c, c, i + 1)[TapCount - k] =
           StreamAt(Extended(c), L - TapCount + (i + 1) + (TapCount - k) - 1)
    BY <2>1, <2>2, PushedWindow
  <2>5. L - TapCount + (i + 1) + (TapCount - k) - 1 = L + i - k
    <3> HIDE DEF L
    <3> QED BY <1>1, <1>2, <2>1
  <2> QED BY <2>3, <2>4, <2>5
<1> QED BY <1>3, <1>4

-----------------------------------------------------------------------------
(* The inductive invariant.                                                *)

LEMMA WindowsAre ==
    ASSUME CallTypeOK
    PROVE  WindowsFollow <=> \A c \in Channel : filters[c] = Window(Heard(c))
<1> SUFFICES ASSUME NEW c \in Channel
             PROVE  LET heard == EmptyWindow \o Heard(c)
                    IN  SubSeq(heard, Len(heard) - TapCount + 1, Len(heard))
                           = Window(Heard(c))
  BY DEF WindowsFollow, Heard, EmptyWindow
<1>1. Heard(c) \in Seq(Sample)  BY ExtendedIsSeq DEF Heard
<1>2. EmptyWindow \in Seq(Sample) /\ Len(EmptyWindow) = TapCount
  <2>1. EmptyWindow \in [1 .. TapCount -> Sample] /\ TapCount \in Nat
    BY ZeroAssumption, Shapes DEF EmptyWindow
  <2> QED BY <2>1
<1>3. Len(EmptyWindow \o Heard(c)) = TapCount + Len(Heard(c))
  BY <1>1, <1>2, ConcatProperties
<1>4. Len(Heard(c)) \in Nat /\ TapCount \in Nat  BY <1>1, Shapes, LenProperties
<1>5. /\ (TapCount + Len(Heard(c))) - TapCount + 1 = Len(Heard(c)) + 1
      /\ TapCount + Len(Heard(c)) = Len(Heard(c)) + TapCount
  BY <1>4
<1> QED BY <1>3, <1>5 DEF Window

\* A fresh object has heard nothing.
LEMMA EmptyIsWindow ==
    EmptyWindow \in Seq(Sample) /\ EmptyWindow = Window(<<>>)
<1>1. EmptyWindow \in [1 .. TapCount -> Sample] /\ TapCount \in Nat
  BY ZeroAssumption, Shapes DEF EmptyWindow
<1>2. /\ EmptyWindow \in Seq(Sample) /\ Len(EmptyWindow) = TapCount
      /\ \A j \in 1 .. TapCount : EmptyWindow[j] = Zero
  BY <1>1 DEF EmptyWindow
<1>3. <<>> \in Seq(Sample) /\ Len(<<>>) = 0  BY EmptySeq
<1>4. \A j \in 1 .. TapCount : ~(0 - TapCount + j - 1 >= 0)  BY <1>1
<1>5. \A j \in 1 .. TapCount :
         EmptyWindow[j] = StreamAt(<<>>, Len(<<>>) - TapCount + j - 1)
  BY <1>2, <1>3, <1>4 DEF StreamAt
<1> QED BY <1>2, <1>3, <1>5, WindowIs

LEMMA LiquidInitInv == LiquidInit => LiquidInv
<1> SUFFICES ASSUME LiquidInit PROVE LiquidInv  OBVIOUS
<1>1. CallTypeOK /\ OutputFollows  BY CallInitInv DEF LiquidInit
<1>2. \A c \in Channel : Heard(c) = <<>>
  BY DEF LiquidInit, CallInit, NoStream, Heard
<1>3. WindowsFollow  BY <1>1, <1>2, EmptyIsWindow, WindowsAre DEF LiquidInit
<1> QED BY <1>1, <1>3, EmptyIsWindow DEF LiquidInv, LiquidTypeOK, LiquidInit

\* What a step has to show.
LEMMA WindowsFollowNext ==
    ASSUME CallTypeOK', \A c \in Channel : filters'[c] = Window(Heard(c)')
    PROVE  WindowsFollow'
<1>1. (CallTypeOK => (WindowsFollow <=>
          \A c \in Channel : filters[c] = Window(Heard(c))))'
  BY WindowsAre, PTL
<1> QED BY <1>1

\* A step that leaves every object and what it has heard as they were.
LEMMA WindowsKept ==
    ASSUME LiquidInv, CallTypeOK', filters' = filters,
           \A c \in Channel : Heard(c)' = Heard(c)
    PROVE  WindowsFollow'
<1>1. \A c \in Channel : filters[c] = Window(Heard(c))
  BY WindowsAre DEF LiquidInv, LiquidTypeOK
<1> QED BY <1>1, WindowsFollowNext

LEMMA LiquidExecuteStep == LiquidInv /\ LiquidExecute => LiquidInv'
<1> SUFFICES ASSUME LiquidInv, LiquidExecute PROVE LiquidInv'  OBVIOUS
<1> USE DEF LiquidExecute
<1>1. CallTypeOK' /\ OutputFollows' /\ \A c \in Channel : ~(c < b')
  BY EnterInv DEF LiquidInv, LiquidTypeOK
<1>2. \A c \in Channel : Heard(c)' = Heard(c)
  BY <1>1 DEF Heard, Enter
<1>3. WindowsFollow'  BY <1>1, <1>2, WindowsKept
<1> QED BY <1>1, <1>3 DEF LiquidInv, LiquidTypeOK

LEMMA LiquidExecuteNullStep == LiquidInv /\ LiquidExecuteNull => LiquidInv'
<1> SUFFICES ASSUME LiquidInv, LiquidExecuteNull PROVE LiquidInv'  OBVIOUS
<1> USE DEF LiquidExecuteNull
<1>1. CallTypeOK' /\ OutputFollows'
  BY RejectNullInv DEF LiquidInv, LiquidTypeOK
<1>2. \A c \in Channel : Heard(c)' = Heard(c)
  BY DEF Heard, RejectNull, Extended
<1>3. WindowsFollow'  BY <1>1, <1>2, WindowsKept
<1> QED BY <1>1, <1>3 DEF LiquidInv, LiquidTypeOK

\* Object b takes channel b's block, whichever library it is of.
LEMMA ThroughStep ==
    ASSUME LiquidInv, pc = "filter", Through(b, b), NextChannel
    PROVE  LiquidInv'
<1> DEFINE block == [i \in Frame |-> Product(Pushed(b, b, i + 1))]
<1>1. LiquidTypeOK /\ CallTypeOK /\ b \in Channel
  BY Shapes DEF LiquidInv, LiquidTypeOK, CallTypeOK, Channel
<1>2. \A c \in Channel : filters[c] = Window(Heard(c))
  BY <1>1, WindowsAre DEF LiquidInv
<1>3. filters[b] = Window(stream[b])
  <2>1. ~(b < b)  BY <1>1, Shapes
  <2>2. Heard(b) = stream[b]  BY <2>1 DEF Heard
  <2> QED BY <1>1, <1>2, <2>2
<1>4. /\ output' = Written(b, block)
      /\ filters' = [filters EXCEPT ![b] = Pushed(b, b, BlockSize)]
      /\ UNCHANGED <<library, input, result, stream>>
  BY DEF Through
<1>5. \A i \in Frame : block[i] = [k \in Tap |-> block[i][k]]
  BY DEF Product
<1>6. \A i \in Frame, k \in Tap :
         block[i][k] = StreamAt(Extended(b), Len(stream[b]) + i - k)
  BY <1>1, <1>3, ThroughWindow
<1> HIDE DEF block
<1>7. /\ CallTypeOK' /\ OutputFollows'
      /\ \A c \in Channel : c < b' <=> c < b \/ c = b
  BY <1>1, <1>4, <1>5, <1>6, FilterInv DEF LiquidInv
<1>8. Pushed(b, b, BlockSize) = Window(Extended(b))
      /\ Pushed(b, b, BlockSize) \in Seq(Sample)
  <2>1. BlockSize \in 0 .. BlockSize  BY Shapes
  <2> QED BY <1>1, <1>3, <2>1, ThroughWindow, PushedWindow
<1>9. ASSUME NEW c \in Channel PROVE filters'[c] = Window(Heard(c)')
  <2>1. CASE c = b
    <3>1. Heard(c)' = Extended(b)
      BY <1>4, <1>7, <2>1 DEF Heard, NextChannel, Extended
    <3>2. filters'[c] = Pushed(b, b, BlockSize)
      BY <1>1, <1>4, <2>1 DEF LiquidTypeOK
    <3> QED BY <1>8, <3>1, <3>2
  <2>2. CASE c # b
    <3>1. Heard(c)' = Heard(c)
      BY <1>4, <1>7, <2>2 DEF Heard, NextChannel, Extended
    <3>2. filters'[c] = filters[c]  BY <1>1, <1>4, <2>2 DEF LiquidTypeOK
    <3> QED BY <1>2, <3>1, <3>2
  <2> QED BY <2>1, <2>2
<1>10. WindowsFollow'  BY <1>7, <1>9, WindowsFollowNext
<1>11. LiquidTypeOK'  BY <1>1, <1>4, <1>7, <1>8 DEF LiquidTypeOK
<1> QED BY <1>7, <1>10, <1>11 DEF LiquidInv

LEMMA LiquidReturnStep == LiquidInv /\ LiquidReturn => LiquidInv'
<1> SUFFICES ASSUME LiquidInv, LiquidReturn PROVE LiquidInv'  OBVIOUS
<1> USE DEF LiquidReturn
<1>1. /\ CallTypeOK' /\ OutputFollows'
      /\ \A c \in Channel : c < b /\ stream'[c] = Extended(c)
  BY ReturnOkInv DEF LiquidInv, LiquidTypeOK
<1>2. \A c \in Channel : Heard(c)' = Heard(c)
  BY <1>1 DEF Heard, ReturnOk
<1>3. WindowsFollow'  BY <1>1, <1>2, WindowsKept
<1> QED BY <1>1, <1>3 DEF LiquidInv, LiquidTypeOK

\* Every object is as new, and nothing has been heard.
LEMMA LiquidClearStep == LiquidInv /\ (LiquidClear \/ Reset) => LiquidInv'
<1> SUFFICES ASSUME LiquidInv, LiquidClear \/ Reset PROVE LiquidInv'  OBVIOUS
<1>1. /\ ReturnFromClear /\ library' = library
      /\ filters' = [c \in Channel |-> EmptyWindow]
  BY DEF LiquidClear, Reset
<1>2. CallTypeOK' /\ OutputFollows'
  BY <1>1, ReturnFromClearInv DEF LiquidInv, LiquidTypeOK
<1>3. \A c \in Channel : Heard(c)' = <<>>
  BY <1>1 DEF Heard, ReturnFromClear, NoStream
<1>4. WindowsFollow'  BY <1>1, <1>2, <1>3, EmptyIsWindow, WindowsFollowNext
<1> QED BY <1>1, <1>2, <1>4, EmptyIsWindow DEF LiquidInv, LiquidTypeOK

LEMMA LiquidStutterStep == LiquidInv /\ UNCHANGED liquidVars => LiquidInv'
BY DEF LiquidInv, LiquidTypeOK, CallTypeOK, OutputFollows, WindowsFollow,
       Extended, liquidVars, callVars

LEMMA LiquidNextInv == LiquidInv /\ [LiquidNext]_liquidVars => LiquidInv'
<1>1. LiquidInv /\ (LiquidFilter \/ Apply) => LiquidInv'
  BY ThroughStep DEF LiquidFilter, Apply
<1> QED BY <1>1, LiquidExecuteStep, LiquidExecuteNullStep, LiquidReturnStep,
           LiquidClearStep, LiquidStutterStep
        DEF LiquidNext

\* In every reachable state the inductive invariant holds.
LEMMA LiquidInvariance == LiquidSpec => []LiquidInv
BY LiquidInitInv, LiquidNextInv, PTL DEF LiquidSpec

-----------------------------------------------------------------------------
(* What the run checks on small instances, for every configuration.        *)

\* Type correctness: the objects' windows are samples and the loop stays
\* within the batch.
THEOREM LiquidTypeCorrect == LiquidSpec => []LiquidTypeOK
<1>1. LiquidInv => LiquidTypeOK  BY DEF LiquidInv
<1> QED BY LiquidInvariance, <1>1, PTL

\* Every object has heard its own channel only, every sample of it, and nothing
\* from before the last clear().
THEOREM WindowsCorrect == LiquidSpec => []WindowsFollow
<1>1. LiquidInv => WindowsFollow  BY DEF LiquidInv
<1> QED BY LiquidInvariance, <1>1, PTL

LEMMA LiquidRefinesInit == LiquidInit => Promise!Init
BY CallInitRefines DEF LiquidInit

LEMMA LiquidRefinesNext ==
    LiquidInv /\ LiquidInv' /\ [LiquidNext]_liquidVars
       => [Promise!Next]_Promise!vars
<1> SUFFICES ASSUME LiquidInv, LiquidInv', [LiquidNext]_liquidVars
             PROVE  Promise!Next \/ UNCHANGED Promise!vars
  OBVIOUS
<1>1. LiquidExecute => Promise!Next  BY EnterRefines DEF LiquidExecute
<1>2. LiquidExecuteNull => Promise!Next
  BY RejectNullRefines DEF LiquidExecuteNull
<1>3. LiquidFilter \/ Apply => Promise!Next
  BY WithinRefines
  DEF LiquidFilter, Apply, Through, NextChannel, LiquidInv, LiquidTypeOK
<1>4. LiquidReturn => Promise!Next
  BY ReturnOkRefines DEF LiquidReturn, LiquidInv, LiquidTypeOK
<1>5. LiquidClear \/ Reset => Promise!Next
  BY ReturnFromClearRefines DEF LiquidClear, Reset
<1>6. UNCHANGED liquidVars => UNCHANGED Promise!vars
  BY DEF liquidVars, callVars, Promise!vars
<1> QED BY <1>1, <1>2, <1>3, <1>4, <1>5, <1>6 DEF LiquidNext

\* A row of liquid-dsp or KFR objects is a FirStream, whatever the sizes.
THEOREM LiquidRefinement == LiquidSpec => KeepsPromise
BY LiquidInvariance, LiquidRefinesInit, LiquidRefinesNext, PTL
   DEF LiquidSpec, KeepsPromise, Promise!Spec

=============================================================================
