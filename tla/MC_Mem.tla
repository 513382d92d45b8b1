-------------------------------- MODULE MC_Mem --------------------------------
(***************************************************************************)
(* Model values for Mem.  A page is 4 units and a table spans 2 pages,    *)
(* so PDE 1 holds the user stack (page 2) and image (page 3), PDE 2 the   *)
(* user heap from brk_base (pages 4-5), PDE 3 the kernel heap's boot      *)
(* table with the heap starting mid-way (page 7, as 0xC0200000 is in the  *)
(* middle of PDE 768), and PDE 4 the table the heap grows into.          *)
(***************************************************************************)
EXTENDS Mem

\* Six frames, the lowest three below 16 MiB: fewer than a kernel heap, a
\* program and its heap need, so every loop meets an exhausted PMM.
MCFrames == 1 .. 6
MCLowFrames == 1 .. 3
\* Enough frames for everything the runs do.
MCManyFrames == 1 .. 12
MCManyLow == 1 .. 12
MCKSizes == {1, 5}
MCSbrkIncs == {2}
=============================================================================
