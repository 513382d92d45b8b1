-------------------------------- MODULE PMM ---------------------------------
(***************************************************************************)
(* The physical frame allocator of mm/pmm.c: a bitmap with one bit per    *)
(* frame up to MAX_FRAMES, total_frames derived from the Multiboot memory *)
(* size and clamped to the cap, and a free counter.  The bitmap is the    *)
(* set of frame indices whose bit is 1.                                   *)
(*                                                                         *)
(* The callers (the VMM's page tables, the heap, sbrk, the ELF loader and *)
(* free_user_address_space) are represented by held: the frames the      *)
(* allocator has handed out and not had back, with the limit requested   *)
(* (the end of memory for pmm_alloc_frame).  A caller frees what it       *)
(* holds, or an address whose frame is free or out of range, which the    *)
(* code must ignore.                                                      *)
(***************************************************************************)
EXTENDS Naturals, FiniteSets

CONSTANTS
  FrameSize,   \* FRAME_SIZE (4096 in the code; small here)
  MaxFrames,   \* MAX_FRAMES: the bitmap's capacity
  MemTop,      \* max_addr from the Multiboot memory map or mem_upper
  Regions,     \* [start, end) physical ranges pmm_init reserves
  BelowLimits  \* max_phys arguments of pmm_alloc_frame_below

ASSUME FrameSizeAssumption == FrameSize \in Nat \ {0}
ASSUME MaxFramesAssumption == MaxFrames \in Nat
ASSUME MemTopAssumption == MemTop \in Nat
ASSUME RegionsAssumption == Regions \subseteq Nat \X Nat
ASSUME BelowLimitsAssumption == BelowLimits \subseteq Nat
\* pmm_init always calls reserve_region(0, 0x100000): low memory, frame 0
\* included, is among the regions.
ASSUME LowRegionAssumption == \E r \in Regions : r[1] = 0 /\ r[2] > 0

VARIABLES
  bitmap,           \* the frames whose bit is set
  free_frames_cnt,  \* free_frames_cnt
  held,             \* frames handed out to callers
  limit             \* limit[f]: the bound the holder of f asked for

vars == <<bitmap, free_frames_cnt, held, limit>>

Frame == 0 .. MaxFrames - 1

\* total_frames: max_addr clamped to MAX_MEMORY_BYTES, in frames.
MaxMemoryBytes == MaxFrames * FrameSize
total_frames ==
  (IF MemTop > MaxMemoryBytes THEN MaxMemoryBytes ELSE MemTop) \div FrameSize

\* The physical addresses callers can pass to pmm_free_frame.
Phys == 0 .. MaxMemoryBytes + FrameSize

(***************************************************************************)
(* reserve_region(start, end): the frames from start / FRAME_SIZE up to   *)
(* end rounded up, clamped to total_frames; nothing if end <= start.      *)
(***************************************************************************)
reserve_region(r) ==
  LET start_frame == r[1] \div FrameSize
      end_frame == (r[2] + FrameSize - 1) \div FrameSize
      top == IF end_frame > total_frames THEN total_frames ELSE end_frame
  IN  IF r[2] <= r[1] THEN {} ELSE start_frame .. top - 1

Reserved == UNION {reserve_region(r) : r \in Regions}

\* The lowest clear bit below bound, the scan of both allocators.
FreeBelow(bound) == {i \in 0 .. bound - 1 : i \notin bitmap}
Lowest(S) == CHOOSE i \in S : \A j \in S : i <= j

-----------------------------------------------------------------------------

(***************************************************************************)
(* pmm_init: zero the bitmap, count total_frames free, then reserve every *)
(* region, each newly set bit decrementing the counter.                   *)
(***************************************************************************)
Init ==
  /\ bitmap = Reserved
  /\ free_frames_cnt = total_frames - Cardinality(Reserved)
  /\ held = {}
  /\ limit = [f \in Frame |-> 0]

(***************************************************************************)
(* Take frame idx found by a scan bounded by lim: set its bit, decrement  *)
(* the counter unless it is already 0, and return idx * FRAME_SIZE.  The  *)
(* callers read a return of 0 as out of memory and keep nothing.          *)
(***************************************************************************)
Take(idx, lim) ==
  /\ bitmap' = bitmap \cup {idx}
  /\ free_frames_cnt' = IF free_frames_cnt # 0 THEN free_frames_cnt - 1
                                                ELSE free_frames_cnt
  /\ IF idx * FrameSize # 0
       THEN /\ held' = held \cup {idx}
            /\ limit' = [limit EXCEPT ![idx] = lim]
       ELSE UNCHANGED <<held, limit>>

\* pmm_alloc_frame: the lowest clear bit below total_frames.
AllocFrame ==
  /\ FreeBelow(total_frames) # {}
  /\ Take(Lowest(FreeBelow(total_frames)), total_frames * FrameSize)

\* Variants: max_idx not clamped to total_frames; the scan including max_idx.
Mut_AllocFrameBelowNoClamp(max_phys) ==
  LET max_idx == max_phys \div FrameSize
  IN  /\ FreeBelow(max_idx) # {}
      /\ Take(Lowest(FreeBelow(max_idx)), max_phys)

Mut_AllocFrameBelowInclusive(max_phys) ==
  LET max_idx == IF max_phys \div FrameSize > total_frames
                   THEN total_frames ELSE max_phys \div FrameSize
  IN  /\ FreeBelow(max_idx + 1) # {}
      /\ Take(Lowest(FreeBelow(max_idx + 1)), max_phys)

\* pmm_alloc_frame_below(max_phys): the same scan stopped at max_phys.
AllocFrameBelow(max_phys) ==
  LET max_idx == IF max_phys \div FrameSize > total_frames
                   THEN total_frames ELSE max_phys \div FrameSize
  IN  /\ FreeBelow(max_idx) # {}
      /\ Take(Lowest(FreeBelow(max_idx)), max_phys)

(***************************************************************************)
(* pmm_free_frame(phys): ignore an index beyond total_frames; clear a set *)
(* bit and count it free; ignore a clear one.                             *)
(***************************************************************************)
\* Variants: the bm_test dropped; the index rounded up.
Mut_FreeFrameNoTest(phys) ==
  LET idx == phys \div FrameSize IN
  /\ idx < total_frames
  /\ bitmap' = bitmap \ {idx}
  /\ free_frames_cnt' = free_frames_cnt + 1
  /\ held' = held \ {idx}
  /\ UNCHANGED limit

Mut_FreeFrameRoundUp(phys) ==
  LET idx == (phys + FrameSize - 1) \div FrameSize IN
  /\ idx < total_frames
  /\ idx \in bitmap
  /\ bitmap' = bitmap \ {idx}
  /\ free_frames_cnt' = free_frames_cnt + 1
  /\ held' = held \ {idx}
  /\ UNCHANGED limit

FreeFrame(phys) ==
  LET idx == phys \div FrameSize IN
  /\ idx < total_frames
  /\ idx \in bitmap
  /\ bitmap' = bitmap \ {idx}
  /\ free_frames_cnt' = free_frames_cnt + 1
  /\ held' = held \ {idx}
  /\ UNCHANGED limit

\* What a caller may pass: a frame it holds or an address the code ignores.
FreeArgs ==
  {phys \in Phys : phys \div FrameSize \in held}
  \cup {phys \in Phys : phys \div FrameSize \notin bitmap
                        \/ phys \div FrameSize >= total_frames}

Next ==
  \/ AllocFrame
  \/ \E m \in BelowLimits : AllocFrameBelow(m)
  \/ \E phys \in FreeArgs : FreeFrame(phys)

Spec == Init /\ [][Next]_vars

-----------------------------------------------------------------------------
(* Properties *)

TypeOK ==
  /\ bitmap \subseteq Frame
  /\ free_frames_cnt \in Nat
  /\ held \subseteq Frame
  /\ limit \in [Frame -> Nat]

(***************************************************************************)
(* The free counter is exact: it is total_frames minus the set bits.  It  *)
(* is kept apart from the bitmap by the saturating decrements and the     *)
(* increment in pmm_free_frame, which must skip a frame already free so   *)
(* that a double free does not count twice (spec 4.1: frees must not      *)
(* corrupt free_frames).                                                  *)
(***************************************************************************)
FreeCountExact == free_frames_cnt = total_frames - Cardinality(bitmap)

(***************************************************************************)
(* Every set bit is accounted for: it is a reserved frame or a frame some *)
(* caller holds, never both.  Reserved frames (low memory, kernel image,  *)
(* boot stub, VGA, modules) stay set and are never handed out, and no     *)
(* frame is lost to a caller that took 0 for out of memory.               *)
(***************************************************************************)
BitmapAccounted ==
  /\ bitmap = Reserved \cup held
  /\ Reserved \cap held = {}

(***************************************************************************)
(* pmm_alloc_frame_below(max_phys) never returns memory at or above       *)
(* max_phys: the whole frame of every frame it handed out lies below the *)
(* limit its caller asked for (page tables and DMA structures must sit    *)
(* below 16 MiB).                                                         *)
(***************************************************************************)
HeldBelowLimit == \A f \in held : (f + 1) * FrameSize <= limit[f]

=============================================================================
