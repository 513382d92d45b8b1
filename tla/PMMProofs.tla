------------------------------ MODULE PMMProofs ------------------------------
(***************************************************************************)
(* Proofs about the frame allocator of mm/pmm.c (module PMM), for every    *)
(* frame size, bitmap capacity, memory size and set of reserved regions.  *)
(*                                                                         *)
(* FreeCountExact is not inductive by itself: a step of pmm_alloc_frame   *)
(* keeps it only if the counter it decrements is not already 0, which     *)
(* needs every set bit to lie below total_frames (so that a clear bit     *)
(* below total_frames means the counter is positive) and the bitmap to be *)
(* finite.  IInv adds those facts to the type invariant.                  *)
(***************************************************************************)
EXTENDS PMM, FiniteSetTheorems, WellFoundedInduction, TLAPS

\* The bits of the bitmap that pmm_init and the allocators can set.
Live == 0 .. total_frames - 1

IInv ==
  /\ TypeOK
  /\ bitmap \subseteq Live
  /\ FreeCountExact

-----------------------------------------------------------------------------
(* Lemmas on the operators the model is built from *)

\* Every non-empty set of naturals has a least element, so the scan of the
\* allocators (Lowest) picks a member of the set it scans.
LEMMA LowestInSet ==
  ASSUME NEW S \in SUBSET Nat, S # {}
  PROVE  /\ Lowest(S) \in S
         /\ \A j \in S : Lowest(S) <= j
<1>1. \E x \in S : \A y \in S : ~(<<y, x>> \in OpToRel(<, Nat))
  BY NatLessThanWellFounded, WFMin
<1>2. PICK x \in S : \A y \in S : ~(<<y, x>> \in OpToRel(<, Nat))
  BY <1>1
<1>3. ASSUME NEW y \in S, y < x PROVE <<y, x>> \in OpToRel(<, Nat)
  BY <1>3 DEF OpToRel
<1>4. ASSUME NEW y \in S PROVE x <= y
  <2>1. ~(y < x)  BY <1>2, <1>3
  <2>. QED  BY <2>1
<1>. QED  BY <1>4 DEF Lowest

\* total_frames, max_addr clamped to MAX_MEMORY_BYTES and divided by
\* FRAME_SIZE, never exceeds the bitmap's capacity MAX_FRAMES.
LEMMA TotalFramesBound == total_frames \in 0 .. MaxFrames
<1>. DEFINE m == IF MemTop > MaxMemoryBytes THEN MaxMemoryBytes ELSE MemTop
<1>1. m \in 0 .. MaxFrames * FrameSize
  BY FrameSizeAssumption, MaxFramesAssumption, MemTopAssumption
  DEF MaxMemoryBytes
<1>2. m \div FrameSize \in 0 .. MaxFrames
  BY <1>1, FrameSizeAssumption, MaxFramesAssumption
<1>. QED  BY <1>2 DEF total_frames

\* Live is finite and has total_frames members.
LEMMA LiveFinite ==
  /\ IsFiniteSet(Live)
  /\ Cardinality(Live) = total_frames
BY TotalFramesBound, FS_Interval DEF Live

\* reserve_region clamps every reserved range to total_frames.
LEMMA ReservedInLive == Reserved \subseteq Live
<1>. SUFFICES ASSUME NEW r \in Regions PROVE reserve_region(r) \subseteq Live
  BY DEF Reserved
<1>. QED
  BY RegionsAssumption, FrameSizeAssumption, TotalFramesBound
  DEF reserve_region, Live

\* Live lies within the bitmap's capacity.
LEMMA LiveInFrame == Live \subseteq Frame
<1>. SUFFICES ASSUME NEW f \in Live PROVE f \in Frame  BY DEF Live
<1>1. f \in Nat /\ f < total_frames  BY TotalFramesBound DEF Live
<1>. QED  BY <1>1, TotalFramesBound, MaxFramesAssumption DEF Frame

\* A set of set bits has at most total_frames members.
LEMMA LiveSubsetCard ==
  ASSUME NEW S \in SUBSET Live
  PROVE  IsFiniteSet(S) /\ Cardinality(S) \in 0 .. total_frames
BY LiveFinite, FS_Subset, FS_CardinalityType

-----------------------------------------------------------------------------
(* The inductive invariant *)

LEMMA InitIInv == Init => IInv
<1>. SUFFICES ASSUME Init PROVE IInv  OBVIOUS
<1>1. IsFiniteSet(Reserved) /\ Cardinality(Reserved) \in 0 .. total_frames
  BY ReservedInLive, LiveSubsetCard
<1>2. Live \subseteq Frame
  BY LiveInFrame
<1>. QED
  BY <1>1, <1>2, ReservedInLive, TotalFramesBound
  DEF Init, IInv, TypeOK, FreeCountExact

\* A step of either allocator: the lowest clear bit below a bound that does
\* not exceed total_frames is set and the counter is decremented.
LEMMA TakeIInv ==
  ASSUME IInv, NEW bound \in 0 .. total_frames, FreeBelow(bound) # {},
         NEW lim \in Nat, Take(Lowest(FreeBelow(bound)), lim)
  PROVE  IInv'
<1>. DEFINE idx == Lowest(FreeBelow(bound))
<1>1. idx \in Live /\ idx \notin bitmap
  BY LowestInSet, TotalFramesBound DEF FreeBelow, Live
<1>2. IsFiniteSet(bitmap) /\ Cardinality(bitmap) \in 0 .. total_frames
  BY LiveSubsetCard DEF IInv
<1>3. Cardinality(bitmap') = Cardinality(bitmap) + 1
  BY <1>1, <1>2, FS_AddElement DEF Take
<1>4. Cardinality(bitmap') <= total_frames
  BY <1>1, LiveSubsetCard DEF Take, IInv
<1>5. free_frames_cnt # 0
  BY <1>2, <1>3, <1>4, TotalFramesBound DEF IInv, FreeCountExact
<1>6. FreeCountExact'
  BY <1>2, <1>3, <1>5, TotalFramesBound DEF Take, IInv, FreeCountExact
<1>7. idx \in Frame
  BY <1>1, LiveInFrame
<1>8. TypeOK'
  BY <1>1, <1>2, <1>4, <1>6, <1>7 DEF Take, IInv, TypeOK, FreeCountExact
<1>. QED  BY <1>1, <1>6, <1>8 DEF Take, IInv

LEMMA FreeIInv ==
  ASSUME IInv, NEW phys \in Nat, FreeFrame(phys)
  PROVE  IInv'
<1>. DEFINE idx == phys \div FrameSize
<1>1. idx \in bitmap
  BY DEF FreeFrame
<1>2. IsFiniteSet(bitmap)
  BY LiveSubsetCard DEF IInv
<1>3. Cardinality(bitmap') = Cardinality(bitmap) - 1
  BY <1>1, <1>2, FS_RemoveElement DEF FreeFrame
<1>4. Cardinality(bitmap') \in 0 .. total_frames
  BY LiveSubsetCard DEF FreeFrame, IInv
<1>5. FreeCountExact'
  <2>1. Cardinality(bitmap) \in Nat  BY <1>2, FS_CardinalityType
  <2>. QED
    BY <1>3, <2>1, TotalFramesBound DEF FreeFrame, IInv, FreeCountExact
<1>6. bitmap' \subseteq Live /\ held' \subseteq Frame
  BY DEF FreeFrame, IInv, TypeOK
<1>7. free_frames_cnt' \in Nat
  BY <1>5, <1>4, TotalFramesBound DEF FreeCountExact
<1>. QED  BY <1>5, <1>6, <1>7, LiveInFrame DEF FreeFrame, IInv, TypeOK

LEMMA NextIInv == IInv /\ [Next]_vars => IInv'
<1>. SUFFICES ASSUME IInv, [Next]_vars PROVE IInv'  OBVIOUS
<1>1. CASE AllocFrame
  <2>1. total_frames * FrameSize \in Nat
    BY TotalFramesBound, FrameSizeAssumption
  <2>. QED  BY <1>1, <2>1, TakeIInv, TotalFramesBound DEF AllocFrame
<1>2. CASE \E m \in BelowLimits : AllocFrameBelow(m)
  <2>1. PICK m \in BelowLimits : AllocFrameBelow(m)  BY <1>2
  <2>2. m \in Nat  BY BelowLimitsAssumption
  <2>3. (IF m \div FrameSize > total_frames THEN total_frames
                                            ELSE m \div FrameSize)
          \in 0 .. total_frames
    BY <2>2, TotalFramesBound, FrameSizeAssumption
  <2>. QED  BY <2>1, <2>2, <2>3, TakeIInv DEF AllocFrameBelow
<1>3. CASE \E phys \in FreeArgs : FreeFrame(phys)
  <2>1. PICK phys \in FreeArgs : FreeFrame(phys)  BY <1>3
  <2>2. phys \in Nat  BY DEF FreeArgs, Phys
  <2>. QED  BY <2>1, <2>2, FreeIInv
<1>4. CASE UNCHANGED vars
  BY <1>4 DEF vars, IInv, TypeOK, FreeCountExact, Live
<1>. QED  BY <1>1, <1>2, <1>3, <1>4 DEF Next

-----------------------------------------------------------------------------
(* Accounting of the set bits and of the bounded allocations *)

(***************************************************************************)
(* BitmapAccounted and HeldBelowLimit are inductive together with IInv:   *)
(* an allocation sets a clear bit, which is neither reserved nor held, and *)
(* hands it to the caller unless it is frame 0 -- which is reserved        *)
(* whenever memory has a frame, so it is never clear; a free clears a bit *)
(* only of a frame its caller holds.                                       *)
(***************************************************************************)
AInv ==
  /\ IInv
  /\ BitmapAccounted
  /\ HeldBelowLimit

\* reserve_region(0, 0x100000) sets frame 0 as soon as memory has a frame.
LEMMA ZeroReserved == total_frames # 0 => 0 \in Reserved
<1>. SUFFICES ASSUME total_frames # 0 PROVE 0 \in Reserved  OBVIOUS
<1>1. PICK r \in Regions : r[1] = 0 /\ r[2] > 0
  BY LowRegionAssumption
<1>2. r[2] \in Nat  BY RegionsAssumption
<1>3. (r[2] + FrameSize - 1) \div FrameSize >= 1
  BY <1>1, <1>2, FrameSizeAssumption
<1>4. 0 \div FrameSize = 0
  BY FrameSizeAssumption
<1>. DEFINE top == IF (r[2] + FrameSize - 1) \div FrameSize > total_frames
                   THEN total_frames ELSE (r[2] + FrameSize - 1) \div FrameSize
<1>5. top \in Nat /\ top >= 1
  BY <1>2, <1>3, TotalFramesBound, FrameSizeAssumption
<1>6. ~(r[2] <= r[1])
  BY <1>1, <1>2
<1>7. reserve_region(r) = (r[1] \div FrameSize) .. (top - 1)
  BY <1>6 DEF reserve_region
<1>8. 0 \in (r[1] \div FrameSize) .. (top - 1)
  BY <1>1, <1>4, <1>5
<1>9. 0 \in reserve_region(r)
  BY <1>7, <1>8
<1>. QED  BY <1>9 DEF Reserved

\* An allocation step of either allocator, whose frame lies below the
\* limit lim its caller passed, keeps the accounting.
LEMMA TakeAInv ==
  ASSUME AInv, NEW bound \in 0 .. total_frames, FreeBelow(bound) # {},
         NEW lim \in Nat,
         (Lowest(FreeBelow(bound)) + 1) * FrameSize <= lim,
         Take(Lowest(FreeBelow(bound)), lim)
  PROVE  AInv'
<1>. DEFINE idx == Lowest(FreeBelow(bound))
<1>0. idx \in FreeBelow(bound)
  <2>1. FreeBelow(bound) \in SUBSET Nat  BY DEF FreeBelow
  <2>. QED  BY <2>1, LowestInSet
<1>1. idx \in Live /\ idx \notin bitmap
  BY <1>0, TotalFramesBound DEF FreeBelow, Live
<1>2. idx \notin Reserved /\ idx \notin held
  BY <1>1 DEF AInv, BitmapAccounted
<1>3. IInv'
  BY TakeIInv DEF AInv
<1>4. idx # 0
  BY <1>1, <1>2, ZeroReserved, TotalFramesBound DEF Live
<1>5. idx * FrameSize # 0
  BY <1>1, <1>4, TotalFramesBound, FrameSizeAssumption DEF Live
<1>6. held' = held \cup {idx} /\ limit' = [limit EXCEPT ![idx] = lim]
  BY <1>5 DEF Take
<1>7. BitmapAccounted'
  BY <1>2, <1>6 DEF Take, AInv, BitmapAccounted
<1>8. HeldBelowLimit'
  BY <1>1, <1>6, LiveInFrame DEF AInv, IInv, TypeOK, HeldBelowLimit
<1>. QED  BY <1>3, <1>7, <1>8 DEF AInv

\* pmm_free_frame of a frame a caller holds keeps the accounting; every
\* other argument the callers pass is ignored by the code.
LEMMA FreeAInv ==
  ASSUME AInv, NEW phys \in FreeArgs, FreeFrame(phys)
  PROVE  AInv'
<1>. DEFINE idx == phys \div FrameSize
<1>1. phys \in Nat  BY DEF FreeArgs, Phys
<1>2. IInv'  BY <1>1, FreeIInv DEF AInv
<1>3. idx \in held
  <2>1. idx < total_frames /\ idx \in bitmap
    BY DEF FreeFrame
  <2>2. idx \in held \/ idx \notin bitmap \/ idx >= total_frames
    BY DEF FreeArgs
  <2>3. idx \in Nat  BY <1>1, FrameSizeAssumption
  <2>. QED  BY <2>1, <2>2, <2>3, TotalFramesBound
<1>4. idx \notin Reserved
  BY <1>3 DEF AInv, BitmapAccounted
<1>5. BitmapAccounted'
  BY <1>3, <1>4 DEF FreeFrame, AInv, BitmapAccounted
<1>6. HeldBelowLimit'
  BY DEF FreeFrame, AInv, HeldBelowLimit
<1>. QED  BY <1>2, <1>5, <1>6 DEF AInv

LEMMA InitAInv == Init => AInv
<1>. SUFFICES ASSUME Init PROVE AInv  OBVIOUS
<1>. QED  BY InitIInv DEF Init, AInv, BitmapAccounted, HeldBelowLimit

LEMMA NextAInv == AInv /\ [Next]_vars => AInv'
<1>. SUFFICES ASSUME AInv, [Next]_vars PROVE AInv'  OBVIOUS
<1>1. CASE AllocFrame
  <2>. DEFINE idx == Lowest(FreeBelow(total_frames))
  <2>1. idx \in 0 .. total_frames - 1
    BY <1>1, LowestInSet, TotalFramesBound DEF AllocFrame, FreeBelow
  <2>2. (idx + 1) * FrameSize <= total_frames * FrameSize
    BY <2>1, TotalFramesBound, FrameSizeAssumption
  <2>3. total_frames * FrameSize \in Nat
    BY TotalFramesBound, FrameSizeAssumption
  <2>. QED  BY <1>1, <2>2, <2>3, TakeAInv, TotalFramesBound DEF AllocFrame
<1>2. CASE \E m \in BelowLimits : AllocFrameBelow(m)
  <2>1. PICK m \in BelowLimits : AllocFrameBelow(m)  BY <1>2
  <2>2. m \in Nat  BY BelowLimitsAssumption
  <2>. DEFINE max_idx == IF m \div FrameSize > total_frames THEN total_frames
                                                          ELSE m \div FrameSize
              idx == Lowest(FreeBelow(max_idx))
  <2>3. max_idx \in 0 .. total_frames /\ max_idx <= m \div FrameSize
    BY <2>2, TotalFramesBound, FrameSizeAssumption
  <2>4. FreeBelow(max_idx) # {} /\ Take(idx, m)
    BY <2>1 DEF AllocFrameBelow
  <2>5. idx \in 0 .. max_idx - 1
    <3>1. FreeBelow(max_idx) \in SUBSET Nat  BY DEF FreeBelow
    <3>2. idx \in FreeBelow(max_idx)  BY <2>4, <3>1, LowestInSet
    <3>. QED  BY <3>2 DEF FreeBelow
  <2>6. (m \div FrameSize) * FrameSize <= m
    BY <2>2, FrameSizeAssumption
  <2>7. idx + 1 <= m \div FrameSize
    BY <2>2, <2>3, <2>5, FrameSizeAssumption, TotalFramesBound
  <2>8. (idx + 1) * FrameSize <= (m \div FrameSize) * FrameSize
    BY <2>5, <2>7, <2>2, FrameSizeAssumption
  <2>9. (idx + 1) * FrameSize <= m
    BY <2>6, <2>8, <2>5, <2>2, FrameSizeAssumption
  <2>. QED  BY <2>2, <2>3, <2>4, <2>9, TakeAInv
<1>3. CASE \E phys \in FreeArgs : FreeFrame(phys)
  BY <1>3, FreeAInv
<1>4. CASE UNCHANGED vars
  BY <1>4, NextIInv DEF vars, AInv, BitmapAccounted, HeldBelowLimit
<1>. QED  BY <1>1, <1>2, <1>3, <1>4 DEF Next

-----------------------------------------------------------------------------
(* Theorems *)

\* The free counter that pmm_free_frames reports stays equal to the number
\* of clear bits below total_frames, through every interleaving of
\* pmm_alloc_frame, pmm_alloc_frame_below and pmm_free_frame (with double
\* frees and out-of-range frees), for every memory size and region set.
THEOREM FreeCountExactHolds == Spec => []FreeCountExact
<1>1. Spec => []IInv  BY InitIInv, NextIInv, PTL DEF Spec
<1>. QED  BY <1>1, PTL DEF IInv

\* The allocator's state keeps its type: the bitmap and the held frames
\* lie within MAX_FRAMES and the counter is a natural number.
THEOREM TypeCorrect == Spec => []TypeOK
<1>1. Spec => []IInv  BY InitIInv, NextIInv, PTL DEF Spec
<1>. QED  BY <1>1, PTL DEF IInv

\* Every set bit of the bitmap is a reserved frame or a frame some caller
\* holds, never both, through any sequence of pmm_alloc_frame,
\* pmm_alloc_frame_below and (double, out-of-range) pmm_free_frame calls:
\* no frame leaks to a caller that read 0 as out of memory, and no reserved
\* frame is handed out.
THEOREM BitmapAccountedHolds == Spec => []BitmapAccounted
<1>1. Spec => []AInv  BY InitAInv, NextAInv, PTL DEF Spec
<1>. QED  BY <1>1, PTL DEF AInv

\* Every frame pmm_alloc_frame_below(max_phys) handed out lies wholly below
\* max_phys, whatever the memory size, the regions and the limits passed.
THEOREM HeldBelowLimitHolds == Spec => []HeldBelowLimit
<1>1. Spec => []AInv  BY InitAInv, NextAInv, PTL DEF Spec
<1>. QED  BY <1>1, PTL DEF AInv

=============================================================================
