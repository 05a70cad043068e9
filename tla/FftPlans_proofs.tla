-------------------------- MODULE FftPlans_proofs --------------------------
(***************************************************************************)
(* The FFT plans, for every backend, every set of lengths and batches and  *)
(* any width of the libraries' ints.                                       *)
(*                                                                         *)
(* A buffer is looked at by transform and place within it (LaidOut)        *)
(* instead of by element; division relates the two.  A call is correct     *)
(* because the library finds each transform where it was told to look      *)
(* (Found), writes it where no other transform goes (Transformed), and the *)
(* loop after it takes away just the factor the library left               *)
(* (NormalizedRight).  That carries over to the next call because the two  *)
(* plans are of the same data (PlansInv), so that what one leaves in a     *)
(* buffer is laid out as the other expects.                                *)
(***************************************************************************)
EXTENDS FftPlans, TLAPS

\* No length or batch wraps around to another number: it fits the int of the
\* library (as an unsigned number does: a negative one is refused), or the
\* library takes a wider type.
NoWrap ==
    backend \in TakesInt => \A n \in Lengths \cup Batches : n < IntSize

\* The program passes one buffer only to backends that take one.
InPlaceOffered == backend \in InPlace => backend \notin OutOfPlaceOnly

-----------------------------------------------------------------------------
(* Division: where an element of back-to-back blocks stands.               *)

LEMMA DivMod ==
    ASSUME NEW len \in Nat \ {0}, NEW o \in Nat
    PROVE  /\ o \div len \in Nat /\ o % len \in 0 .. len - 1
           /\ o = (o \div len) * len + (o % len)
OBVIOUS

\* An element is in one block only, at one place.
LEMMA OneBlock ==
    ASSUME NEW len \in Nat \ {0}, NEW t \in Nat, NEW u \in Nat,
           NEW j \in 0 .. len - 1, NEW k \in 0 .. len - 1,
           t * len + j = u * len + k
    PROVE  t = u /\ j = k
<1>1. ~(t < u)
  <2> SUFFICES ASSUME t < u PROVE FALSE  OBVIOUS
  <2>1. PICK d \in Nat : u = t + 1 + d
    <3>1. u - t - 1 \in Nat /\ u = t + 1 + (u - t - 1)  OBVIOUS
    <3> QED BY <3>1
  <2>2. u * len = t * len + len + d * len  BY <2>1
  <2>3. d * len >= 0 /\ t * len \in Nat  BY <2>1
  <2> QED BY <2>2, <2>3
<1>2. ~(u < t)
  <2> SUFFICES ASSUME u < t PROVE FALSE  OBVIOUS
  <2>1. PICK d \in Nat : t = u + 1 + d
    <3>1. t - u - 1 \in Nat /\ t = u + 1 + (t - u - 1)  OBVIOUS
    <3> QED BY <3>1
  <2>2. t * len = u * len + len + d * len  BY <2>1
  <2>3. d * len >= 0 /\ u * len \in Nat  BY <2>1
  <2> QED BY <2>2, <2>3
<1>3. t = u  BY <1>1, <1>2
<1>4. t * len = u * len /\ t * len \in Nat  BY <1>3
<1> QED BY <1>3, <1>4

LEMMA BlockOfElement ==
    ASSUME NEW len \in Nat \ {0}, NEW t \in Nat, NEW j \in 0 .. len - 1
    PROVE  (t * len + j) \div len = t /\ (t * len + j) % len = j
<1> DEFINE o == t * len + j
<1>1. o \in Nat  OBVIOUS
<1> HIDE DEF o
<1>2. /\ o \div len \in Nat /\ o % len \in 0 .. len - 1
      /\ o = (o \div len) * len + (o % len)
  BY <1>1, DivMod
<1>3. t * len + j = (o \div len) * len + (o % len)  BY <1>2 DEF o
<1>4. t = o \div len /\ j = o % len  BY <1>2, <1>3, OneBlock
<1> QED BY <1>4 DEF o

\* The first n blocks are the first n * len elements.
LEMMA WithinBlocks ==
    ASSUME NEW len \in Nat \ {0}, NEW n \in Nat, NEW t \in Nat, NEW j \in 0 .. len - 1
    PROVE  t * len + j < n * len <=> t < n
<1>1. CASE t < n
  <2>1. PICK d \in Nat : n = t + 1 + d
    <3>1. n - t - 1 \in Nat /\ n = t + 1 + (n - t - 1)  BY <1>1
    <3> QED BY <3>1
  <2>2. n * len = t * len + len + d * len  BY <2>1
  <2>3. d * len >= 0 /\ t * len \in Nat  BY <2>1
  <2> QED BY <1>1, <2>2, <2>3
<1>2. CASE ~(t < n)
  <2>1. PICK d \in Nat : t = n + d
    <3>1. t - n \in Nat /\ t = n + (t - n)  BY <1>2
    <3> QED BY <3>1
  <2>2. t * len = n * len + d * len  BY <2>1
  <2>3. d * len >= 0 /\ n * len \in Nat  BY <2>1
  <2> QED BY <1>2, <2>2, <2>3
<1> QED BY <1>1, <1>2

-----------------------------------------------------------------------------
(* The plans: what make_backend_plan() accepts and what it tells the       *)
(* library.                                                                *)

Accepted(cfg) ==
    cfg \in Config /\ Rejects(cfg) = "Ok" /\ LibraryCanPlan(PlanOf(cfg))

LEMMA AcceptedFacts ==
    ASSUME NEW cfg, Accepted(cfg)
    PROVE  /\ cfg.type \in Type
           /\ cfg.length \in Lengths /\ cfg.length \in Nat \ {0}
           /\ cfg.batch \in Batches /\ cfg.batch \in Nat \ {0}
           /\ InLength(cfg) \in 1 .. cfg.length
           /\ OutLength(cfg) \in 1 .. cfg.length
           /\ cfg.type = "RealToComplex" => cfg.direction = "Forward"
           /\ backend = "cmsis" => cfg.length <= CmsisMax
           /\ Cast(cfg.length) > 0
           /\ backend # "cmsis" => Cast(cfg.batch) > 0
<1>1. /\ cfg.type \in Type /\ cfg.direction \in {"Forward", "Inverse"}
      /\ cfg.length \in Lengths /\ cfg.batch \in Batches
  BY DEF Accepted, Config
<1>2. cfg.length \in Nat /\ cfg.batch \in Nat  BY <1>1, LengthsAssumption
<1>3. cfg.length # 0 /\ cfg.batch # 0  BY DEF Accepted, Rejects
<1>4. ~Contradictory(cfg)  BY DEF Accepted, Rejects
<1>5. backend = "cmsis" => ~(cfg.length > CmsisMax)
  BY DEF Accepted, Rejects
<1>6. real_complex_bins(cfg.length) \in 1 .. cfg.length
  BY <1>2, <1>3 DEF real_complex_bins
<1>7. Cast(cfg.length) > 0 /\ (backend # "cmsis" => Cast(cfg.batch) > 0)
  BY DEF Accepted, LibraryCanPlan, PlanOf
<1>8. InLength(cfg) \in 1 .. cfg.length /\ OutLength(cfg) \in 1 .. cfg.length
  BY <1>2, <1>3, <1>6 DEF InLength, OutLength
<1> QED BY <1>1, <1>2, <1>3, <1>4, <1>5, <1>7, <1>8, IntSizeAssumption
        DEF Contradictory

\* A number that fits survives the cast if the library takes it for positive,
\* and so does every smaller one.
LEMMA CastKeeps ==
    ASSUME NoWrap, NEW m \in Lengths \cup Batches, NEW n \in 0 .. m,
           m <= CmsisMax \/ backend # "cmsis", Cast(m) > 0
    PROVE  Cast(n) = n
<1>1. m \in Nat /\ n \in Nat /\ n <= m  BY LengthsAssumption
<1>2. CASE backend \in TakesInt
  <2>1. m < IntSize  BY <1>2 DEF NoWrap
  <2>2. m % IntSize = m /\ n % IntSize = n  BY <1>1, <2>1, IntSizeAssumption
  <2>3. 2 * m < IntSize
    BY <1>1, <1>2, <2>1, <2>2, IntSizeAssumption DEF Cast
  <2> QED BY <1>1, <1>2, <2>2, <2>3, IntSizeAssumption DEF Cast
<1>3. CASE backend \notin TakesInt /\ backend = "cmsis"
  <2>1. n < CmsisMax + 1 /\ CmsisMax + 1 \in Nat \ {0}
    BY <1>1, <1>3, IntSizeAssumption
  <2>2. n % (CmsisMax + 1) = n  BY <1>1, <2>1
  <2> QED BY <1>3, <2>2 DEF Cast
<1>4. CASE backend \notin TakesInt /\ backend # "cmsis"  BY <1>4 DEF Cast
<1> QED BY <1>2, <1>3, <1>4

\* What the library is told is what was asked.
LEMMA ToldWhatWasAsked ==
    ASSUME NoWrap, NEW cfg, Accepted(cfg)
    PROVE  PlanOf(cfg) = [exists |-> TRUE, cfg |-> cfg, inverse |-> Inverse(cfg),
                          n |-> cfg.length, howmany |-> cfg.batch,
                          idist |-> InLength(cfg), odist |-> OutLength(cfg)]
<1>1. /\ cfg.length \in Lengths \cup Batches /\ cfg.length \in Nat
      /\ cfg.batch \in Lengths \cup Batches /\ cfg.batch \in Nat
      /\ InLength(cfg) \in 0 .. cfg.length /\ OutLength(cfg) \in 0 .. cfg.length
      /\ cfg.length \in 0 .. cfg.length /\ cfg.batch \in 0 .. cfg.batch
      /\ cfg.length <= CmsisMax \/ backend # "cmsis"
      /\ Cast(cfg.length) > 0
      /\ backend # "cmsis" => Cast(cfg.batch) > 0
  BY AcceptedFacts
<1>2. Cast(cfg.length) = cfg.length  BY <1>1, CastKeeps
<1>3. Cast(InLength(cfg)) = InLength(cfg)  BY <1>1, CastKeeps
<1>4. Cast(OutLength(cfg)) = OutLength(cfg)  BY <1>1, CastKeeps
<1>5. backend # "cmsis" => Cast(cfg.batch) = cfg.batch  BY <1>1, CastKeeps
<1> QED BY <1>2, <1>3, <1>4, <1>5 DEF PlanOf

-----------------------------------------------------------------------------
(* The layout of a buffer.                                                 *)

\* Elements of one transform in a buffer.
Extent(cfg, what) ==
    IF what = "time" \/ cfg.type = "Complex" THEN cfg.length
    ELSE real_complex_bins(cfg.length)

\* Cell j of transform t, in a buffer laid out by the contract, with g factors
\* of N too many.
LaidOut(buffer, cfg, what, g) ==
    \A t \in 0 .. cfg.batch - 1, j \in 0 .. Extent(cfg, what) - 1 :
        buffer[t * Extent(cfg, what) + j] = Cell(what, t, j, g)

LEMMA ExtentFacts ==
    ASSUME NEW cfg, Accepted(cfg), NEW what
    PROVE  /\ Extent(cfg, what) \in Nat \ {0}
           /\ \A t \in 0 .. cfg.batch - 1, j \in 0 .. Extent(cfg, what) - 1 :
                 t * Extent(cfg, what) + j \in Offset
<1> DEFINE len == Extent(cfg, what)
<1>1. /\ cfg.length \in Nat \ {0} /\ cfg.batch \in Nat \ {0}
      /\ cfg.length \in Lengths /\ cfg.batch \in Batches
  BY AcceptedFacts
<1>2. real_complex_bins(cfg.length) \in 1 .. cfg.length
  BY <1>1 DEF real_complex_bins
<1>3. len \in Nat \ {0} /\ len <= cfg.length  BY <1>1, <1>2 DEF Extent
<1>4. cfg.length * cfg.batch <= Memory /\ Memory \in Nat
  BY <1>1, MemoryAssumption
<1> HIDE DEF len
<1>5. cfg.batch * len <= cfg.length * cfg.batch
  <2>1. PICK d \in Nat : cfg.length = len + d
    <3>1. cfg.length - len \in Nat /\ cfg.length = len + (cfg.length - len)
      BY <1>1, <1>3
    <3> QED BY <3>1
  <2>2. cfg.length * cfg.batch = cfg.batch * len + d * cfg.batch
    BY <1>1, <1>3, <2>1
  <2>3. d * cfg.batch \in Nat /\ cfg.batch * len \in Nat  BY <1>1, <1>3, <2>1
  <2> QED BY <2>2, <2>3
<1>6. ASSUME NEW t \in 0 .. cfg.batch - 1, NEW j \in 0 .. len - 1
      PROVE  t * len + j \in Offset
  <2>1. t \in Nat /\ t < cfg.batch /\ j \in Nat  BY <1>1, <1>3
  <2>2. t * len + j < cfg.batch * len  BY <1>1, <1>3, <2>1, WithinBlocks
  <2>3. /\ t * len + j \in Nat /\ cfg.batch * len \in Nat
        /\ cfg.length * cfg.batch \in Nat
    BY <1>1, <1>3, <2>1
  <2> QED BY <1>4, <1>5, <2>2, <2>3 DEF Offset
<1> QED BY <1>3, <1>6 DEF len

\* Every element of Contents() belongs to one of the transforms.
LEMMA ContentsInBlocks ==
    ASSUME NEW cfg, Accepted(cfg), NEW what, NEW o \in DOMAIN Contents(cfg, what)
    PROVE  \E t \in 0 .. cfg.batch - 1, j \in 0 .. Extent(cfg, what) - 1 :
              o = t * Extent(cfg, what) + j
<1> DEFINE len == Extent(cfg, what)
<1>1. len \in Nat \ {0} /\ cfg.batch \in Nat \ {0}
  BY AcceptedFacts, ExtentFacts
<1>2. Contents(cfg, what) =
        [i \in 0 .. len * cfg.batch - 1 |-> Cell(what, i \div len, i % len, 0)]
  BY DEF Contents, Extent
<1> HIDE DEF len
<1>3. o \in Nat /\ o < cfg.batch * len
  <2>1. o \in 0 .. len * cfg.batch - 1  BY <1>2
  <2>2. len * cfg.batch \in Nat /\ len * cfg.batch = cfg.batch * len  BY <1>1
  <2> QED BY <2>1, <2>2
<1>4. /\ o \div len \in Nat /\ o % len \in 0 .. len - 1
      /\ o = (o \div len) * len + (o % len)
  BY <1>1, <1>3, DivMod
<1>5. o \div len < cfg.batch  BY <1>1, <1>3, <1>4, WithinBlocks
<1>6. o \div len \in 0 .. cfg.batch - 1  BY <1>1, <1>4, <1>5
<1> QED BY <1>4, <1>6 DEF len

\* The program's buffers have room for them.
LEMMA ContentsFit ==
    ASSUME NEW cfg, Accepted(cfg), NEW what
    PROVE  \A o \in DOMAIN Contents(cfg, what) : o \in Offset
BY ContentsInBlocks, ExtentFacts

\* Contents() by transform and place within it.
LEMMA ContentsLaidOut ==
    ASSUME NEW cfg, Accepted(cfg), NEW what, NEW buffer
    PROVE  LaidOut(buffer, cfg, what, 0) <=>
              \A o \in DOMAIN Contents(cfg, what) :
                  buffer[o] = Contents(cfg, what)[o]
<1> DEFINE len == Extent(cfg, what)
<1>1. len \in Nat \ {0} /\ cfg.batch \in Nat \ {0}
  BY AcceptedFacts, ExtentFacts
<1>2. Contents(cfg, what) =
        [o \in 0 .. len * cfg.batch - 1 |-> Cell(what, o \div len, o % len, 0)]
  BY DEF Contents, Extent
<1> HIDE DEF len
<1>3. ASSUME NEW t \in 0 .. cfg.batch - 1, NEW j \in 0 .. len - 1
      PROVE  /\ t * len + j \in DOMAIN Contents(cfg, what)
             /\ Contents(cfg, what)[t * len + j] = Cell(what, t, j, 0)
  <2>1. t \in Nat /\ t < cfg.batch  BY <1>1
  <2>2. t * len + j < cfg.batch * len  BY <1>1, <2>1, WithinBlocks
  <2>3. t * len + j \in 0 .. len * cfg.batch - 1
    <3>1. t * len + j \in Nat /\ len * cfg.batch \in Nat
          /\ len * cfg.batch = cfg.batch * len
      BY <1>1, <2>1
    <3> QED BY <2>2, <3>1
  <2>4. (t * len + j) \div len = t /\ (t * len + j) % len = j
    BY <1>1, <2>1, BlockOfElement
  <2> QED BY <1>2, <2>3, <2>4
<1>4. ASSUME NEW o \in DOMAIN Contents(cfg, what)
      PROVE  \E t \in 0 .. cfg.batch - 1, j \in 0 .. len - 1 : o = t * len + j
  BY ContentsInBlocks DEF len
<1>5. LaidOut(buffer, cfg, what, 0) <=>
        \A t \in 0 .. cfg.batch - 1, j \in 0 .. len - 1 :
            buffer[t * len + j] = Cell(what, t, j, 0)
  BY DEF LaidOut, len
<1> QED BY <1>3, <1>4, <1>5

-----------------------------------------------------------------------------
(* execute(): the transform and the factors of N.                          *)

\* The sides of an accepted plan: what it reads and what it writes, at the
\* distances it told the library.
LEMMA Sides ==
    ASSUME NEW cfg, Accepted(cfg)
    PROVE  /\ Role(cfg) = (IF Inverse(cfg) THEN "inverse" ELSE "forward")
           /\ From(Role(cfg)) = (IF Inverse(cfg) THEN "freq" ELSE "time")
           /\ To(Role(cfg)) = (IF Inverse(cfg) THEN "time" ELSE "freq")
           /\ InLength(cfg) = Extent(cfg, From(Role(cfg)))
           /\ OutLength(cfg) = Extent(cfg, To(Role(cfg)))
<1>1. /\ cfg.type \in Type
      /\ cfg.type = "RealToComplex" => cfg.direction = "Forward"
  BY AcceptedFacts
<1>2. /\ Role(cfg) = (IF Inverse(cfg) THEN "inverse" ELSE "forward")
      /\ From(Role(cfg)) = (IF Inverse(cfg) THEN "freq" ELSE "time")
      /\ To(Role(cfg)) = (IF Inverse(cfg) THEN "time" ELSE "freq")
  BY DEF Role, From, To
<1> QED BY <1>1, <1>2 DEF Type, Inverse, InLength, OutLength, Extent

\* The floats of CMSIS's packed spectrum all arrive where they belong.
LEMMA AllArrive ==
    ASSUME NEW plan, plan.n \in Nat, NEW k \in Nat
    PROVE  Arrives(plan, k)
<1>1. ASSUME NEW f \in Nat
      PROVE  Part(PackedFrom(plan.n, f)) = PackedPart(plan.n, f)
  <2>1. CASE f = 1
    <3>1. (2 * (plan.n \div 2)) \div 2 = plan.n \div 2 /\ (2 * (plan.n \div 2)) % 2 = 0
      OBVIOUS
    <3> QED BY <2>1, <3>1 DEF Part, PackedFrom, PackedPart
  <2>2. CASE f # 1  BY <2>2 DEF PackedFrom, PackedPart
  <2> QED BY <2>1, <2>2
<1>2. ASSUME NEW f \in Nat, f \notin Zeroed(plan.n)
      PROVE  PackedPart(plan.n, UnpackedFrom(plan.n, f)) = Part(f)
  <2>1. CASE f = 2 * (plan.n \div 2)
    <3>1. f \div 2 = plan.n \div 2 /\ f % 2 = 0  BY <2>1
    <3> QED BY <2>1, <3>1 DEF Part, UnpackedFrom, PackedPart
  <2>2. CASE f # 2 * (plan.n \div 2)
    BY <1>2, <2>2 DEF Zeroed, UnpackedFrom, PackedPart
  <2> QED BY <2>1, <2>2
<1> QED BY <1>1, <1>2 DEF Arrives

\* The library finds transform t of the batch in the caller's input.
LEMMA Found ==
    ASSUME NEW cfg, Accepted(cfg), NEW what \in {"time", "freq"}, NEW src,
           LaidOut(src, cfg, what, 0), NEW t \in 0 .. cfg.batch - 1
    PROVE  /\ Read(src, t * Extent(cfg, what), Extent(cfg, what), what)
                 = Cell(what, t, 0, 0)
           /\ Cell(what, t, 0, 0) # Garbage
<1> DEFINE len == Extent(cfg, what)
           from == t * len
<1>1. len \in Nat \ {0} /\ t \in Nat /\ from \in Nat
  BY ExtentFacts, AcceptedFacts
<1>2. \A j \in 0 .. len - 1 : from + j \in Offset /\ src[from + j] = Cell(what, t, j, 0)
  BY ExtentFacts DEF LaidOut
<1> HIDE DEF len
<1>3. from + 0 = from /\ 0 \in 0 .. len - 1  BY <1>1
<1>4. src[from] = Cell(what, t, 0, 0)  BY <1>2, <1>3
<1>5. src[from].of = t /\ src[from].gain = 0  BY <1>4 DEF Cell
<1>6. from .. from + len - 1 \subseteq Offset
  <2> SUFFICES ASSUME NEW o \in from .. from + len - 1 PROVE o \in Offset  OBVIOUS
  <2>1. o - from \in 0 .. len - 1 /\ o = from + (o - from)  BY <1>1 DEF from
  <2> QED BY <1>2, <2>1
<1>7. Cell(what, t, 0, 0) # Garbage  BY DEF Cell, Garbage
<1>8. \A j \in 0 .. len - 1 :
        src[from + j] = Cell(what, src[from].of, j, src[from].gain)
  BY <1>2, <1>5
<1>9. Read(src, from, len, what) = Cell(what, t, 0, 0)
  <2> HIDE DEF from
  <2> QED BY <1>4, <1>6, <1>8 DEF Read
<1> QED BY <1>7, <1>9 DEF len

LEMMA Transformed ==
    ASSUME NoWrap, NEW cfg, Accepted(cfg), NEW src, NEW dst,
           LaidOut(src, cfg, From(Role(cfg)), 0)
    PROVE  LaidOut(Transform(PlanOf(cfg), src, dst), cfg, To(Role(cfg)),
                   Gain(PlanOf(cfg)))
<1> DEFINE plan == PlanOf(cfg)
           from == From(Role(cfg))
           to   == To(Role(cfg))
           len  == Extent(cfg, to)
           out  == Transform(plan, src, dst)
           bins == IF cfg.type # "Complex" THEN real_complex_bins(plan.n) ELSE plan.n
           inLen  == IF plan.inverse THEN bins ELSE plan.n
           outLen == IF plan.inverse THEN plan.n ELSE bins
           Owner(o)  == {t \in 0 .. plan.howmany - 1 :
                            o - t * plan.odist \in 0 .. outLen - 1}
           Found1(t) == Read(src, t * plan.idist, inLen, from)
           Res(t, k) ==
              IF \/ Found1(t) = Garbage
                 \/ backend = "cmsis" /\ cfg.type # "Complex" /\ ~Arrives(plan, k)
              THEN Garbage
              ELSE Cell(to, Found1(t).of, k, Found1(t).gain + Gain(plan))
<1>1. /\ plan.cfg = cfg /\ plan.inverse = Inverse(cfg) /\ plan.n = cfg.length
      /\ plan.howmany = cfg.batch /\ plan.idist = InLength(cfg)
      /\ plan.odist = OutLength(cfg)
  BY ToldWhatWasAsked
<1>2. /\ from = (IF plan.inverse THEN "freq" ELSE "time")
      /\ to = (IF plan.inverse THEN "time" ELSE "freq")
      /\ plan.idist = Extent(cfg, from) /\ plan.odist = len
  BY <1>1, Sides
<1>3. inLen = Extent(cfg, from) /\ outLen = len
  BY <1>1, <1>2 DEF Extent
<1> HIDE DEF plan, from, to, len
<1>4. out = [o \in Offset |->
                IF Owner(o) = {} THEN dst[o]
                ELSE Res(Largest(Owner(o)), o - Largest(Owner(o)) * plan.odist)]
  BY <1>1, <1>2 DEF Transform
<1> HIDE DEF out, bins, inLen, outLen, Res, Found1
<1> SUFFICES ASSUME NEW t \in 0 .. cfg.batch - 1, NEW k \in 0 .. len - 1
             PROVE  out[t * len + k] = Cell(to, t, k, Gain(plan))
  BY DEF LaidOut, out, plan, to, len
<1>5. len \in Nat \ {0} /\ t \in Nat /\ k \in Nat /\ t * len + k \in Offset
      /\ t * len \in Nat /\ cfg.batch \in Nat
  BY ExtentFacts, AcceptedFacts DEF len
<1>6. Owner(t * len + k) = {t}
  <2>1. t \in Owner(t * len + k)
    <3>1. (t * len + k) - t * len = k  BY <1>5
    <3> QED BY <1>1, <1>2, <1>3, <3>1
  <2>2. ASSUME NEW u \in Owner(t * len + k) PROVE u = t
    <3>1. u \in Nat /\ (t * len + k) - u * len \in 0 .. len - 1
      BY <1>1, <1>2, <1>3, <1>5
    <3>2. PICK j \in 0 .. len - 1 : (t * len + k) - u * len = j  BY <3>1
    <3>3. t * len + k = u * len + j  BY <1>5, <3>1, <3>2
    <3> QED BY <1>5, <3>1, <3>3, OneBlock
  <2> QED BY <2>1, <2>2
<1>7. Largest({t}) = t  BY <1>5 DEF Largest
<1>8. (t * len + k) - t * len = k  BY <1>5
<1>9. out[t * len + k] = Res(t, k)
  <2> HIDE DEF Owner
  <2> QED BY <1>2, <1>4, <1>5, <1>6, <1>7, <1>8
<1>10. Found1(t) = Cell(from, t, 0, 0) /\ Found1(t) # Garbage
  BY <1>2, <1>3, Found DEF from, Found1
<1>11. Arrives(plan, k)  BY <1>1, <1>5, AcceptedFacts, AllArrive
<1>12. Gain(plan) \in {0, 1}  BY DEF Gain
<1>13. Found1(t).of = t /\ Found1(t).gain + Gain(plan) = Gain(plan)
  BY <1>10, <1>12 DEF Cell
<1> QED BY <1>9, <1>10, <1>11, <1>13 DEF Res

\* After normalize_inverse(), or without it where the library scales, no
\* factor is left.
LEMMA NormalizedRight ==
    ASSUME NoWrap, NEW cfg, Accepted(cfg), NEW dst,
           LaidOut(dst, cfg, To(Role(cfg)), Gain(PlanOf(cfg)))
    PROVE  LaidOut(Normalize(PlanOf(cfg), dst), cfg, To(Role(cfg)), 0)
<1> DEFINE plan == PlanOf(cfg)
           to   == To(Role(cfg))
           len  == Extent(cfg, to)
<1>1. plan.cfg = cfg /\ plan.inverse = Inverse(cfg)  BY ToldWhatWasAsked
<1>2. CASE ~(plan.inverse /\ backend \in Unscaled)
  <2>1. Gain(plan) = 0 /\ Normalize(plan, dst) = dst  BY <1>2 DEF Gain, Normalize
  <2> QED BY <2>1
<1>3. CASE plan.inverse /\ backend \in Unscaled
  <2>1. Gain(plan) = 1 /\ to = "time"  BY <1>1, <1>3, Sides DEF Gain
  <2>2. len = cfg.length  BY <2>1 DEF Extent
  <2>3. Normalized(plan) = cfg.length * cfg.batch  BY <1>1 DEF Normalized
  <2> SUFFICES ASSUME NEW t \in 0 .. cfg.batch - 1, NEW k \in 0 .. len - 1
               PROVE  Normalize(plan, dst)[t * len + k] = Cell(to, t, k, 0)
    BY DEF LaidOut
  <2>4. /\ t * len + k \in Offset /\ len \in Nat \ {0} /\ t \in Nat
        /\ cfg.batch \in Nat /\ t < cfg.batch
    BY ExtentFacts, AcceptedFacts
  <2>5. t * len + k < Normalized(plan)
    <3>1. t * len + k < cfg.batch * len  BY <2>4, WithinBlocks
    <3>2. cfg.batch * len = cfg.length * cfg.batch  BY <2>2, <2>4
    <3> QED BY <2>3, <3>1, <3>2
  <2>6. dst[t * len + k] = Cell(to, t, k, 1)  BY <2>1 DEF LaidOut
  <2> HIDE DEF len, plan, to
  <2>7. dst[t * len + k] # Garbage  BY <2>1, <2>6 DEF Cell, Garbage
  <2>8. Normalize(plan, dst)[t * len + k] = [dst[t * len + k] EXCEPT !.gain = @ - 1]
    BY <1>3, <2>4, <2>5, <2>7 DEF Normalize
  <2> QED BY <2>6, <2>8 DEF Cell
<1> QED BY <1>2, <1>3

-----------------------------------------------------------------------------
(* The program: the plans it holds and what is in its buffers.             *)

\* Two configurations of one batch of data.
Alike(c, d) ==
    /\ c.length = d.length /\ c.batch = d.batch
    /\ (c.type = "Complex") = (d.type = "Complex")

\* Each plan was accepted, stands for its own direction and is what the
\* library was told; the two are of the same data.
PlansInv ==
    /\ DOMAIN plans = Roles
    /\ \A role \in Roles :
          \/ plans[role] = NoPlan
          \/ \E cfg \in Config :
                Accepted(cfg) /\ Role(cfg) = role /\ plans[role] = PlanOf(cfg)
    /\ \A r, s \in Roles :
          plans[r].exists /\ plans[s].exists => Alike(plans[r].cfg, plans[s].cfg)

\* A buffer holds something only once there is a plan to fill it for.
HoldsInv ==
    /\ DOMAIN memory = Name
    /\ holds \in [Name -> {"nothing", "time", "freq"}]
    /\ (\E name \in Name : holds[name] # "nothing") =>
          \E role \in Roles : plans[role].exists

\* BuffersHoldTheirContents, by transform and place within it.
BuffersInv ==
    \A role \in Roles, name \in Name :
        plans[role].exists /\ holds[name] # "nothing" =>
            LaidOut(memory[name], plans[role].cfg, holds[name], 0)

IInv ==
    PlansInv /\ HoldsInv /\ (NoWrap /\ InPlaceOffered => BuffersInv)

LEMMA LaidOutAlike ==
    ASSUME NEW c, NEW d, Alike(c, d), NEW buffer, NEW what, NEW gain,
           LaidOut(buffer, c, what, gain)
    PROVE  LaidOut(buffer, d, what, gain)
BY DEF Alike, LaidOut, Extent

\* The backend is chosen once, when the program is built.
LEMMA SameBackend ==
    ASSUME backend' = backend, NEW cfg
    PROVE  /\ NoWrap' = NoWrap /\ InPlaceOffered' = InPlaceOffered
           /\ Accepted(cfg)' = Accepted(cfg) /\ PlanOf(cfg)' = PlanOf(cfg)
<1>1. NoWrap' = NoWrap /\ InPlaceOffered' = InPlaceOffered
  BY DEF NoWrap, InPlaceOffered
<1>2. \A n : Cast(n)' = Cast(n)  BY DEF Cast
<1>3. PlanOf(cfg)' = PlanOf(cfg)  BY <1>2 DEF PlanOf
<1>4. Rejects(cfg)' = Rejects(cfg)  BY DEF Rejects, NotOffered
<1>5. LibraryCanPlan(PlanOf(cfg))' = LibraryCanPlan(PlanOf(cfg))
  BY <1>3 DEF LibraryCanPlan
<1> QED BY <1>1, <1>3, <1>4, <1>5 DEF Accepted

\* What the invariant says of a plan that exists.
LEMMA PlanFacts ==
    ASSUME PlansInv, NEW role \in Roles, plans[role].exists
    PROVE  \E cfg \in Config :
              /\ Accepted(cfg) /\ Role(cfg) = role /\ plans[role] = PlanOf(cfg)
              /\ plans[role].cfg = cfg
BY DEF PlansInv, NoPlan, PlanOf

\* The plans survive what does not touch them.
LEMMA PlansKept ==
    ASSUME PlansInv, plans' = plans, backend' = backend
    PROVE  PlansInv'
BY SameBackend DEF PlansInv

LEMMA InitInv == Init => IInv
BY DEF Init, IInv, PlansInv, HoldsInv, BuffersInv, NoPlan

LEMMA CreateInv ==
    ASSUME IInv, NEW cfg \in Config, Create(cfg)
    PROVE  IInv'
<1>1. backend' = backend /\ memory' = memory /\ holds' = holds  BY DEF Create
<1>2. Role(cfg) \in Roles  BY DEF Role, Roles
<1>3. CASE plans' = plans
  BY <1>1, <1>3, PlansKept, SameBackend
  DEF IInv, HoldsInv, BuffersInv
<1>4. CASE /\ Rejects(cfg) = "Ok" /\ LibraryCanPlan(PlanOf(cfg))
           /\ plans' = [plans EXCEPT ![Role(cfg)] = PlanOf(cfg)]
  <2>1. Accepted(cfg) /\ ~plans[Role(cfg)].exists  BY <1>4 DEF Accepted, Create
  <2>2. PlanOf(cfg).exists /\ PlanOf(cfg).cfg = cfg  BY DEF PlanOf
  <2>3. \A role \in Roles : plans[role].exists => Alike(plans[role].cfg, cfg)
    BY DEF Create, Matches, Alike
  <2>4. /\ DOMAIN plans' = Roles /\ plans'[Role(cfg)] = PlanOf(cfg)
        /\ \A role \in Roles : role # Role(cfg) => plans'[role] = plans[role]
    BY <1>2, <1>4 DEF IInv, PlansInv
  <2>5. PlansInv'
    <3>1. ASSUME NEW role \in Roles
          PROVE  \/ plans'[role] = NoPlan
                 \/ \E d \in Config : /\ Accepted(d)' /\ Role(d) = role
                                       /\ plans'[role] = PlanOf(d)'
      BY <1>1, <2>1, <2>4, SameBackend DEF IInv, PlansInv
    <3>2. ASSUME NEW r \in Roles, NEW s \in Roles, plans'[r].exists, plans'[s].exists
          PROVE  Alike(plans'[r].cfg, plans'[s].cfg)
      BY <2>2, <2>3, <2>4, <3>2 DEF IInv, PlansInv, Alike
    <3> QED BY <2>4, <3>1, <3>2 DEF PlansInv
  <2>6. HoldsInv'
    BY <1>1, <1>2, <2>2, <2>4 DEF IInv, HoldsInv
  <2>7. ASSUME NoWrap, InPlaceOffered PROVE BuffersInv'
    <3> SUFFICES ASSUME NEW role \in Roles, NEW name \in Name,
                        plans'[role].exists, holds[name] # "nothing"
                 PROVE  LaidOut(memory[name], plans'[role].cfg, holds[name], 0)
      BY <1>1 DEF BuffersInv
    <3>1. PICK other \in Roles : plans[other].exists  BY DEF IInv, HoldsInv
    <3>2. LaidOut(memory[name], plans[other].cfg, holds[name], 0)
      BY <2>7, <3>1 DEF IInv, BuffersInv
    <3>3. CASE role = Role(cfg)
      BY <2>2, <2>3, <2>4, <3>1, <3>2, <3>3, LaidOutAlike
    <3>4. CASE role # Role(cfg)
      BY <2>4, <2>7, <3>4 DEF IInv, BuffersInv
    <3> QED BY <3>3, <3>4
  <2> QED BY <1>1, <2>5, <2>6, <2>7, SameBackend DEF IInv
<1> QED BY <1>3, <1>4 DEF Create

LEMMA FillInv ==
    ASSUME IInv, NEW role \in Roles, NEW name \in Name, Fill(role, name)
    PROVE  IInv'
<1>1. backend' = backend /\ plans' = plans /\ plans[role].exists  BY DEF Fill
<1>2. PICK cfg \in Config : Accepted(cfg) /\ plans[role].cfg = cfg
  BY <1>1, PlanFacts DEF IInv
<1>3. /\ DOMAIN memory' = Name
      /\ holds' = [holds EXCEPT ![name] = From(role)]
      /\ \A n \in Name : n # name => memory'[n] = memory[n]
  BY DEF Fill, IInv, HoldsInv
<1>4. LaidOut(memory'[name], cfg, From(role), 0)
  <2> DEFINE contents == Contents(cfg, From(role))
             filled == [o \in Offset |-> IF o \in DOMAIN contents THEN contents[o]
                                        ELSE Garbage]
  <2>1. memory'[name] = filled  BY <1>2 DEF Fill, IInv, HoldsInv
  <2>2. \A o \in DOMAIN contents : o \in Offset  BY <1>2, ContentsFit
  <2> HIDE DEF contents
  <2>3. \A o \in DOMAIN contents : filled[o] = contents[o]  BY <2>2
  <2> HIDE DEF filled
  <2> QED BY <1>2, <2>1, <2>3, ContentsLaidOut DEF contents
<1>5. PlansInv'  BY <1>1, PlansKept DEF IInv
<1>6. HoldsInv'
  BY <1>1, <1>3 DEF IInv, HoldsInv, From
<1>7. ASSUME NoWrap, InPlaceOffered PROVE BuffersInv'
  <2> SUFFICES ASSUME NEW r \in Roles, NEW n \in Name,
                      plans[r].exists, holds'[n] # "nothing"
               PROVE  LaidOut(memory'[n], plans[r].cfg, holds'[n], 0)
    BY <1>1 DEF BuffersInv
  <2>1. CASE n = name
    <3>1. Alike(cfg, plans[r].cfg)  BY <1>1, <1>2 DEF IInv, PlansInv
    <3>2. holds'[n] = From(role)  BY <1>3, <2>1 DEF IInv, HoldsInv
    <3> QED BY <1>4, <2>1, <3>1, <3>2, LaidOutAlike
  <2>2. CASE n # name
    <3>1. holds'[n] = holds[n] /\ memory'[n] = memory[n]
      BY <1>3, <2>2 DEF IInv, HoldsInv
    <3> QED BY <1>7, <3>1 DEF IInv, BuffersInv
  <2> QED BY <2>1, <2>2
<1> QED BY <1>1, <1>5, <1>6, <1>7, SameBackend DEF IInv

\* What becomes of the buffers of a call the contract allows.
LEMMA ExecutedBuffers ==
    ASSUME IInv, InPlaceOffered, NEW role \in Roles,
           NEW src \in Name, NEW dst \in Name, Execute(role, src, dst)
    PROVE  /\ memory'[dst] = Normalize(plans[role],
                               Transform(plans[role], memory[src], memory[dst]))
           /\ \A n \in Name : n # dst => memory'[n] \in {memory[n], Junk}
<1> DEFINE out  == Normalize(plans[role],
                            Transform(plans[role], memory[src], memory[dst]))
           done == [memory EXCEPT ![dst] = out]
<1>1. ~(src = dst /\ backend \in OutOfPlaceOnly)
  BY DEF Execute, Allowed, InPlaceOffered
<1>2. \/ memory' = done
      \/ src # dst /\ memory' = [done EXCEPT ![src] = Junk]
  <2>1. src = dst => plans[role].cfg.type = "Complex"  BY DEF Execute, Allowed
  <2>2. memory' \in Executed(plans[role], src, dst)  BY DEF Execute
  <2> HIDE DEF out
  <2> QED BY <1>1, <2>1, <2>2 DEF Executed, out
<1>3. DOMAIN memory = Name  BY DEF IInv, HoldsInv
<1> HIDE DEF out
<1>4. memory'[dst] = out /\ \A n \in Name : n # dst => memory'[n] \in {memory[n], Junk}
  BY <1>2, <1>3
<1> QED BY <1>4 DEF out

LEMMA ExecuteInv ==
    ASSUME IInv, NEW role \in Roles, NEW src \in Name, NEW dst \in Name,
           Execute(role, src, dst)
    PROVE  IInv'
<1>1. /\ backend' = backend /\ plans' = plans
      /\ plans[role].exists /\ holds[src] = From(role)
  BY DEF Execute, Allowed
<1>2. PICK cfg \in Config :
        /\ Accepted(cfg) /\ Role(cfg) = role /\ plans[role] = PlanOf(cfg)
        /\ plans[role].cfg = cfg
  BY <1>1, PlanFacts DEF IInv
<1>3. \A n \in Name :
        holds'[n] = IF n = dst THEN To(role)
                    ELSE IF memory'[n] = Junk THEN "nothing" ELSE holds[n]
  BY DEF Execute
<1>4. PlansInv'  BY <1>1, PlansKept DEF IInv
<1>5. HoldsInv'
  <2>1. DOMAIN memory' = Name  BY DEF Execute, Executed, IInv, HoldsInv
  <2>2. holds' \in [Name -> {"nothing", "time", "freq"}]
    BY DEF Execute, To, IInv, HoldsInv
  <2> QED BY <1>1, <2>1, <2>2 DEF HoldsInv
<1>6. ASSUME NoWrap, InPlaceOffered PROVE BuffersInv'
  <2>1. /\ memory'[dst] = Normalize(plans[role],
                             Transform(plans[role], memory[src], memory[dst]))
        /\ \A n \in Name : n # dst => memory'[n] \in {memory[n], Junk}
    BY <1>6, ExecutedBuffers
  <2>2. From(role) # "nothing"  BY DEF From
  <2>3. LaidOut(memory[src], cfg, From(Role(cfg)), 0)
    BY <1>1, <1>2, <1>6, <2>2 DEF IInv, BuffersInv
  <2>4. LaidOut(Transform(PlanOf(cfg), memory[src], memory[dst]), cfg,
                To(Role(cfg)), Gain(PlanOf(cfg)))
    BY <1>2, <1>6, <2>3, Transformed
  <2>5. LaidOut(memory'[dst], cfg, To(role), 0)
    BY <1>2, <1>6, <2>1, <2>4, NormalizedRight
  <2> SUFFICES ASSUME NEW r \in Roles, NEW n \in Name,
                      plans[r].exists, holds'[n] # "nothing"
               PROVE  LaidOut(memory'[n], plans[r].cfg, holds'[n], 0)
    BY <1>1 DEF BuffersInv
  <2>6. CASE n = dst
    <3>1. Alike(cfg, plans[r].cfg)  BY <1>1, <1>2 DEF IInv, PlansInv
    <3>2. holds'[n] = To(role)  BY <1>3, <2>6
    <3> QED BY <2>5, <2>6, <3>1, <3>2, LaidOutAlike
  <2>7. CASE n # dst
    <3>1. holds'[n] = holds[n] /\ memory'[n] = memory[n]  BY <1>3, <2>1, <2>7
    <3> QED BY <1>6, <3>1 DEF IInv, BuffersInv
  <2> QED BY <2>6, <2>7
<1> QED BY <1>1, <1>4, <1>5, <1>6, SameBackend DEF IInv

LEMMA ExecuteFailsInv ==
    ASSUME IInv, NEW role \in Roles, NEW src \in Name, NEW dst \in Name,
           ExecuteFails(role, src, dst)
    PROVE  IInv'
<1>1. /\ backend' = backend /\ plans' = plans /\ plans[role].exists
      /\ memory' = [memory EXCEPT ![dst] = Junk]
      /\ holds' = [holds EXCEPT ![dst] = "nothing"]
  BY DEF ExecuteFails, Allowed
<1>2. PlansInv'  BY <1>1, PlansKept DEF IInv
<1>3. HoldsInv'  BY <1>1 DEF IInv, HoldsInv
<1>4. BuffersInv => BuffersInv'  BY <1>1 DEF IInv, HoldsInv, BuffersInv
<1> QED BY <1>1, <1>2, <1>3, <1>4, SameBackend DEF IInv

LEMMA NextInv == IInv /\ [Next]_vars => IInv'
<1> SUFFICES ASSUME IInv, [Next]_vars PROVE IInv'  OBVIOUS
<1>1. ASSUME NEW cfg \in Config, Create(cfg) PROVE IInv'  BY <1>1, CreateInv
<1>2. ASSUME NEW role \in Roles, NEW name \in Name, Fill(role, name) PROVE IInv'
  BY <1>2, FillInv
<1>3. ASSUME NEW role \in Roles, NEW src \in Name, NEW dst \in Name,
             Execute(role, src, dst)
      PROVE  IInv'
  BY <1>3, ExecuteInv
<1>4. ASSUME NEW role \in Roles, NEW src \in Name, NEW dst \in Name,
             ExecuteFails(role, src, dst)
      PROVE  IInv'
  BY <1>4, ExecuteFailsInv
<1>5. ASSUME ExecuteNull \/ UNCHANGED vars PROVE IInv'
  BY <1>5, PlansKept, SameBackend
  DEF ExecuteNull, vars, IInv, HoldsInv, BuffersInv
<1> QED BY <1>1, <1>2, <1>3, <1>4, <1>5 DEF Next

LEMMA Invariance == Spec => []IInv
BY InitInv, NextInv, PTL DEF Spec

\* Whatever the lengths and batches, if none wraps around in the library's
\* int, a plan that was committed is one for the length and the batch that
\* create() was given.
THEOREM PlansAreAsAsked == Spec => [](NoWrap => PlansWhatWasAsked)
<1>1. IInv => (NoWrap => PlansWhatWasAsked)
  <2> SUFFICES ASSUME IInv, NoWrap, NEW role \in Roles, plans[role].exists
               PROVE  /\ plans[role].n = plans[role].cfg.length
                      /\ plans[role].howmany = plans[role].cfg.batch
    BY DEF PlansWhatWasAsked
  <2>1. PICK cfg \in Config : Accepted(cfg) /\ plans[role] = PlanOf(cfg)
    BY PlanFacts DEF IInv
  <2> QED BY <2>1, ToldWhatWasAsked
<1> QED BY <1>1, Invariance, PTL

\* After any sequence of calls of the two plans, on either buffer and with
\* any failures between them, every buffer the caller may use holds each
\* transform of its batch in its own place with no factor of N too many: in
\* every backend, if no number wraps around and the program passes one buffer
\* for both only to backends that transform in place.
THEOREM ContentsCorrect ==
    Spec => [](NoWrap /\ InPlaceOffered => BuffersHoldTheirContents)
<1>1. IInv => (NoWrap /\ InPlaceOffered => BuffersHoldTheirContents)
  <2> SUFFICES ASSUME IInv, NoWrap, InPlaceOffered,
                      NEW role \in Roles, NEW name \in Name,
                      plans[role].exists, holds[name] # "nothing"
               PROVE  \A o \in DOMAIN Contents(plans[role].cfg, holds[name]) :
                         memory[name][o] = Contents(plans[role].cfg, holds[name])[o]
    BY DEF BuffersHoldTheirContents
  <2>1. PICK cfg \in Config : Accepted(cfg) /\ plans[role].cfg = cfg
    BY PlanFacts DEF IInv
  <2>2. LaidOut(memory[name], cfg, holds[name], 0)
    BY <2>1 DEF IInv, BuffersInv
  <2> QED BY <2>1, <2>2, ContentsLaidOut
<1> QED BY <1>1, Invariance, PTL

=============================================================================
