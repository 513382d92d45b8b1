------------------------------ MODULE MemProofs ------------------------------
(***************************************************************************)
(* Proofs about the memory layer (module Mem) for every page size,        *)
(* alignment, heap base and set of kmalloc sizes.                          *)
(*                                                                         *)
(* Why kmalloc's blocks never overlap.  heap.c keeps KBase <= heap_cur <= *)
(* heap_end; every block handed out so far ends at or below heap_cur; a   *)
(* kmalloc in progress returns AlignUp(heap_cur) >= heap_cur, and its     *)
(* map_more loop ends at heap_end plus a whole number of pages covering   *)
(* the block, so heap_end moves past it.  None of this depends on frames: *)
(* a loop that runs out of frames still advances heap_end (map_more line  *)
(* 22), so the invariant holds under exhaustion too.                       *)
(***************************************************************************)
EXTENDS Mem, WellFoundedInduction, TLAPS

\* A kmalloc in progress: the pointer it will return and the end of its
\* map_more loop.
KmallocOK ==
  /\ call.op \in KernelOps => call.endv \in Int /\ call.endv >= heap_end
  /\ call.op = "kmalloc" =>
       /\ call.ret \in Int /\ call.ret % Align = 0 /\ call.ret >= heap_cur
       /\ call.sz \in Nat /\ call.endv >= call.ret + call.sz

\* The bump heap: the blocks lie between KBase and heap_cur.
HeapOK ==
  /\ heap_cur \in Nat /\ heap_end \in Nat
  /\ KBase <= heap_cur /\ heap_cur <= heap_end
  /\ \A b \in blocks :
       /\ b.ret \in Int /\ b.sz \in Nat
       /\ b.ret % Align = 0 /\ KBase <= b.ret /\ b.ret + b.sz <= heap_cur

\* The fields of call: every value call takes is a record of Loop's shape.
CallFields == {"op", "v", "endv", "ret", "sz", "oom"}
CallOps == {"idle", "sbrk"} \cup KernelOps \cup ElfOps

KInv ==
  /\ DOMAIN call = CallFields /\ call.op \in CallOps
  /\ HeapOK
  /\ KmallocOK
  /\ \A b, c \in blocks :
       b.id # c.id => b.ret + b.sz <= c.ret \/ c.ret + c.sz <= b.ret
-----------------------------------------------------------------------------
(* Lemmas on the arithmetic of heap.c *)

\* A whole number of pages, rounded up, covers what was asked for.
LEMMA CeilCovers ==
  ASSUME NEW n \in Int, NEW p \in Nat \ {0}
  PROVE  /\ (n + p - 1) \div p \in Int
         /\ ((n + p - 1) \div p) * p >= n
<1>. DEFINE q == (n + p - 1) \div p
            r == (n + p - 1) % p
<1>1. q \in Int /\ r \in 0 .. p - 1  OBVIOUS
<1>2. n + p - 1 = q * p + r  OBVIOUS
<1>. QED  BY <1>1, <1>2

\* kmalloc line 35 rounds up to a multiple of the alignment.
LEMMA AlignUpOK ==
  ASSUME NEW x \in Nat
  PROVE  AlignUp(x) \in Nat /\ AlignUp(x) >= x /\ AlignUp(x) % Align = 0
<1>. DEFINE q == (x + Align - 1) \div Align
<1>1. Align \in Nat \ {0}  BY MemAssumption
<1>2. q \in Nat /\ q * Align >= x  BY <1>1, CeilCovers
<1>3. (q * Align) % Align = 0  BY <1>1, <1>2
<1>4. q * Align \in Nat  BY <1>1, <1>2
<1>. QED  BY <1>2, <1>3, <1>4 DEF AlignUp

\* kmalloc_init's map_more(size) starts at the heap's base and ends past it.
LEMMA RoundUpOK ==
  ASSUME NEW x \in Nat
  PROVE  RoundUp(x) \in Nat /\ RoundUp(x) >= x
<1>1. PageSize \in Nat \ {0}  BY MemAssumption
<1>. QED  BY <1>1, CeilCovers DEF RoundUp

\* The loop of map_more ends at heap_end or after, and past the bytes wanted.
LEMMA MapMoreOK ==
  ASSUME NEW op, NEW ret, NEW sz, NEW bytes \in Int, heap_end \in Int,
         heap_cur \in Int
  PROVE  LET c == MapMore(op, ret, sz, bytes) IN
         /\ DOMAIN c = CallFields
         /\ c.op = op /\ c.ret = ret /\ c.sz = sz
         /\ c.endv \in Int /\ c.endv >= heap_end
         /\ c.endv >= heap_cur + bytes
<1>. DEFINE need == heap_cur + bytes - heap_end
            pages == IF need <= 0 THEN 0 ELSE (need + PageSize - 1) \div PageSize
<1>1. PageSize \in Nat \ {0}  BY MemAssumption
<1>2. pages \in Nat /\ pages * PageSize >= need
  <2>1. CASE need <= 0  BY <1>1, <2>1
  <2>2. CASE need > 0
    <3>1. (need + PageSize - 1) \div PageSize \in Int
          /\ ((need + PageSize - 1) \div PageSize) * PageSize >= need
      BY <1>1, CeilCovers
    <3>2. (need + PageSize - 1) \div PageSize >= 0  BY <1>1, <2>2
    <3>. QED  BY <2>2, <3>1, <3>2
  <2>. QED  BY <2>1, <2>2
<1>3. pages * PageSize \in Nat  BY <1>1, <1>2
<1>. QED  BY <1>2, <1>3 DEF MapMore, Loop, CallFields

-----------------------------------------------------------------------------
(* The inductive invariant *)

LEMMA InitKInv == Init => KInv
<1>. SUFFICES ASSUME Init PROVE KInv  OBVIOUS
<1>1. KBase \in Nat /\ KInit \in Nat  BY MemAssumption
<1>2. RoundUp(KInit) \in Nat  BY <1>1, RoundUpOK
<1>3. call.op = "kinit" /\ call.endv = KBase + RoundUp(KInit)
      /\ DOMAIN call = CallFields
  BY DEF Init, Loop, CallFields
<1>4. HeapOK  BY <1>1 DEF Init, HeapOK
<1>5. KmallocOK  BY <1>1, <1>2, <1>3 DEF Init, KmallocOK, KernelOps
<1>6. call.op \in CallOps /\ blocks = {}  BY <1>3 DEF Init, CallOps, KernelOps
<1>. QED  BY <1>3, <1>4, <1>5, <1>6 DEF KInv

\* A step that leaves the heap alone and does not touch a kernel call's
\* pointer, size or end keeps KInv.
LEMMA HeapAlone ==
  ASSUME KInv, UNCHANGED <<heap_cur, heap_end, blocks>>,
         DOMAIN call' = CallFields, call'.op \in CallOps,
         \/ call'.op \notin KernelOps
         \/ call'.op = call.op /\ call'.ret = call.ret /\ call'.sz = call.sz
            /\ call'.endv = call.endv
  PROVE  KInv'
BY DEF KInv, HeapOK, KmallocOK, KernelOps

\* kmalloc up to map_more: the pointer is heap_cur aligned up.
LEMMA KmallocKInv ==
  ASSUME KInv, Kmalloc
  PROVE  KInv'
<1>1. PICK sz \in KSizes :
        call' = MapMore("kmalloc", AlignUp(heap_cur), sz,
                        AlignUp(heap_cur) + sz - heap_cur)
  BY DEF Kmalloc
<1>2. sz \in Nat  BY MemAssumption
<1>3. AlignUp(heap_cur) \in Nat /\ AlignUp(heap_cur) >= heap_cur
      /\ AlignUp(heap_cur) % Align = 0
  BY AlignUpOK DEF KInv, HeapOK
<1>4. LET c == call' IN
      /\ DOMAIN c = CallFields
      /\ c.op = "kmalloc" /\ c.ret = AlignUp(heap_cur) /\ c.sz = sz
      /\ c.endv \in Int /\ c.endv >= heap_end
      /\ c.endv >= AlignUp(heap_cur) + sz
  <2>1. AlignUp(heap_cur) + sz - heap_cur \in Int  BY <1>2, <1>3 DEF KInv, HeapOK
  <2>2. heap_cur \in Int /\ heap_end \in Int  BY DEF KInv, HeapOK
  <2>3. LET c == MapMore("kmalloc", AlignUp(heap_cur), sz,
                         AlignUp(heap_cur) + sz - heap_cur) IN
        /\ DOMAIN c = CallFields
        /\ c.op = "kmalloc" /\ c.ret = AlignUp(heap_cur) /\ c.sz = sz
        /\ c.endv \in Int /\ c.endv >= heap_end
        /\ c.endv >= heap_cur + (AlignUp(heap_cur) + sz - heap_cur)
    BY <2>1, <2>2, MapMoreOK
  <2>4. heap_cur + (AlignUp(heap_cur) + sz - heap_cur) = AlignUp(heap_cur) + sz
    BY <1>2, <1>3, <2>2
  <2>. QED  BY <1>1, <2>3, <2>4
<1>5. UNCHANGED <<heap_cur, heap_end, blocks>>  BY DEF Kmalloc
<1>6. KmallocOK'  BY <1>2, <1>3, <1>4, <1>5 DEF KmallocOK, KernelOps
<1>7. call'.op \in CallOps  BY <1>4 DEF CallOps, KernelOps
<1>. QED  BY <1>4, <1>5, <1>6, <1>7 DEF KInv, HeapOK

\* The end of a loop: for kmalloc_init and kmalloc, heap_end moves to the
\* loop's end and kmalloc's block is recorded with heap_cur bumped past it.
LEMMA LoopEndKInv ==
  ASSUME KInv, LoopEnd
  PROVE  KInv'
<1>1. CASE call.op \in KernelOps
  <2>1. /\ heap_end' = call.endv
        /\ heap_cur' = IF call.op = "kmalloc" THEN call.ret + call.sz ELSE heap_cur
        /\ blocks' = IF call.op = "kmalloc"
                     THEN blocks \cup {[id |-> ncalls, ret |-> call.ret,
                                        sz |-> call.sz, oom |-> call.oom]}
                     ELSE blocks
        /\ call' = NoCall
    BY <1>1 DEF LoopEnd, KernelOps
  <2>2. DOMAIN call' = CallFields /\ call'.op \notin KernelOps
        /\ call'.op \in CallOps
    BY <2>1 DEF NoCall, CallFields, KernelOps, CallOps
  <2>3. CASE call.op = "kinit"
    <3>1. UNCHANGED <<heap_cur, blocks>>  BY <2>1, <2>3
    <3>2. heap_end' \in Nat /\ heap_end' >= heap_cur
      BY <1>1, <2>1 DEF KInv, KmallocOK, HeapOK
    <3>3. HeapOK'  BY <3>1, <3>2 DEF KInv, HeapOK
    <3>4. KmallocOK'  BY <2>2 DEF KmallocOK, KernelOps
    <3>. QED  BY <2>2, <3>1, <3>3, <3>4 DEF KInv
  <2>4. CASE call.op = "kmalloc"
    <3>. DEFINE nb == [id |-> ncalls, ret |-> call.ret, sz |-> call.sz,
                       oom |-> call.oom]
    <3>1. /\ call.ret % Align = 0 /\ call.ret >= heap_cur
          /\ call.sz \in Nat /\ call.endv >= call.ret + call.sz
          /\ heap_cur \in Nat /\ KBase <= heap_cur /\ heap_cur <= heap_end
          /\ call.endv \in Int /\ call.ret \in Int
      BY <2>4 DEF KInv, KmallocOK, HeapOK, KernelOps
    <3>2. heap_cur' = call.ret + call.sz /\ blocks' = blocks \cup {nb}
      BY <2>1, <2>4
    <3>3. HeapOK'
      <4>1. heap_cur' \in Nat /\ heap_end' \in Nat /\ KBase <= heap_cur'
            /\ heap_cur' <= heap_end'
        <5>1. heap_end' = call.endv  BY <2>1
        <5>2. call.ret + call.sz \in Nat /\ KBase <= call.ret + call.sz
          BY <3>1, MemAssumption
        <5>3. call.endv \in Nat  BY <3>1, <5>2
        <5>. QED  BY <3>1, <3>2, <5>1, <5>2, <5>3
      <4>2. \A b \in blocks' :
              /\ b.ret \in Int /\ b.sz \in Nat
              /\ b.ret % Align = 0 /\ KBase <= b.ret /\ b.ret + b.sz <= heap_cur'
        <5>1. nb.ret \in Int /\ nb.sz \in Nat /\ nb.ret % Align = 0
              /\ KBase <= nb.ret /\ nb.ret + nb.sz <= heap_cur'
          BY <3>1, <3>2, MemAssumption
        <5>2. \A b \in blocks :
                /\ b.ret \in Int /\ b.sz \in Nat
                /\ b.ret % Align = 0 /\ KBase <= b.ret /\ b.ret + b.sz <= heap_cur'
          BY <3>1, <3>2 DEF KInv, HeapOK
        <5>. QED  BY <3>2, <5>1, <5>2
      <4>. QED  BY <4>1, <4>2 DEF HeapOK
    <3>4. \A b, c \in blocks' :
            b.id # c.id => b.ret + b.sz <= c.ret \/ c.ret + c.sz <= b.ret
      <4>1. \A b \in blocks : b.ret + b.sz <= nb.ret  BY <3>1 DEF KInv, HeapOK
      <4>. QED  BY <3>2, <4>1 DEF KInv
    <3>5. KmallocOK'  BY <2>2 DEF KmallocOK, KernelOps
    <3>. QED  BY <2>2, <3>3, <3>4, <3>5 DEF KInv
  <2>. QED  BY <1>1, <2>3, <2>4 DEF KernelOps
<1>2. CASE call.op \notin KernelOps
  <2>0. call.op \in {"sbrk", "code", "stack"}
    BY <1>2 DEF LoopEnd, KInv, CallOps, ElfOps
  <2>1. UNCHANGED <<heap_cur, heap_end, blocks>>
    <3>2. CASE call.op = "sbrk"  BY <3>2 DEF LoopEnd, KernelOps
    <3>3. CASE call.op = "code"  BY <3>3 DEF LoopEnd, KernelOps
    <3>4. CASE call.op = "stack"  BY <3>4 DEF LoopEnd, KernelOps
    <3>. QED  BY <2>0, <3>2, <3>3, <3>4
  <2>2. call' \in {NoCall, Loop("stack", UStack, UStack + PageSize, 0, 0)}
    <3>2. CASE call.op = "sbrk"  BY <3>2 DEF LoopEnd, KernelOps
    <3>3. CASE call.op = "code"  BY <3>3 DEF LoopEnd, KernelOps
    <3>4. CASE call.op = "stack"  BY <3>4 DEF LoopEnd, KernelOps
    <3>. QED  BY <2>0, <3>2, <3>3, <3>4
  <2>3. DOMAIN call' = CallFields /\ call'.op \notin KernelOps
        /\ call'.op \in CallOps
    BY <2>2 DEF NoCall, Loop, CallFields, KernelOps, CallOps, ElfOps
  <2>. QED  BY <2>1, <2>3, HeapAlone
<1>. QED  BY <1>1, <1>2

\* SYS_sbrk and the loader start a loop of their own, on an idle call.
LEMMA SbrkKInv ==
  ASSUME KInv, Sbrk
  PROVE  KInv'
<1>1. PICK inc \in SbrkIncs :
        call' = Loop("sbrk", RoundUp(brk_cur), RoundUp(brk_cur + inc), brk_cur, inc)
  BY DEF Sbrk
<1>2. DOMAIN call' = CallFields /\ call'.op = "sbrk"  BY <1>1 DEF Loop, CallFields
<1>. QED  BY <1>2, HeapAlone DEF Sbrk, CallOps, KernelOps

LEMMA LoadKInv ==
  ASSUME KInv, Load
  PROVE  KInv'
<1>1. DOMAIN call' = CallFields /\ call'.op = "code"  BY DEF Load, Loop, CallFields
<1>. QED  BY <1>1, HeapAlone DEF Load, CallOps, ElfOps, KernelOps

\* fork and exit leave the kernel heap and the call alone.
LEMMA ForkExitKInv ==
  ASSUME KInv, Fork \/ Exit
  PROVE  KInv'
<1>1. UNCHANGED <<heap_cur, heap_end, blocks, call>>  BY DEF Fork, Exit
<1>. QED  BY <1>1, HeapAlone DEF KInv

\* An iteration of a mapping loop moves only the loop's cursor, and a
\* failure ends a loop early (or the loader altogether).
LEMMA LoopStepKInv ==
  ASSUME KInv, AllocFails \/ MapNoTable \/ MapOk
  PROVE  KInv'
<1>. DEFINE Same == /\ DOMAIN call' = CallFields /\ call'.op = call.op
                   /\ call'.ret = call.ret /\ call'.sz = call.sz
                   /\ call'.endv = call.endv
<1>1. UNCHANGED <<heap_cur, heap_end, blocks>>
  BY DEF AllocFails, MapNoTable, MapOk
<1>2. DOMAIN call = CallFields /\ call.op \in CallOps  BY DEF KInv
<1>4. ASSUME NEW x, NEW y, call' = [call EXCEPT !.v = x, !.oom = y]  PROVE Same
  BY <1>2, <1>4 DEF CallFields
<1>5. ASSUME NEW x, call' = [call EXCEPT !.v = x]  PROVE Same
  BY <1>2, <1>5 DEF CallFields
<1>6. CASE AllocFails
  <2>1. CASE call.op \in ElfOps
    <3>1. call' = NoCall  BY <1>6, <2>1 DEF AllocFails
    <3>2. DOMAIN call' = CallFields /\ call'.op \in CallOps
          /\ call'.op \notin KernelOps
      BY <3>1 DEF NoCall, CallFields, CallOps, KernelOps
    <3>. QED  BY <1>1, <3>2, HeapAlone
  <2>2. CASE call.op \notin ElfOps
    <3>1. call' = [call EXCEPT !.v = call.endv, !.oom = TRUE]  BY <1>6, <2>2 DEF AllocFails
    <3>. QED  BY <1>1, <1>2, <1>4, <3>1, HeapAlone
  <2>. QED  BY <2>1, <2>2
<1>7. CASE MapNoTable
  <2>1. CASE call.op \in ElfOps
    <3>1. call' = NoCall  BY <1>7, <2>1 DEF MapNoTable
    <3>2. DOMAIN call' = CallFields /\ call'.op \in CallOps
          /\ call'.op \notin KernelOps
      BY <3>1 DEF NoCall, CallFields, CallOps, KernelOps
    <3>. QED  BY <1>1, <3>2, HeapAlone
  <2>2. CASE call.op \notin ElfOps
    <3>1. call' = [call EXCEPT !.v = call.v + PageSize, !.oom = TRUE]
      BY <1>7, <2>2 DEF MapNoTable
    <3>. QED  BY <1>1, <1>2, <1>4, <3>1, HeapAlone
  <2>. QED  BY <2>1, <2>2
<1>8. CASE MapOk
  <2>1. call' = [call EXCEPT !.v = call.v + PageSize]  BY <1>8 DEF MapOk
  <2>. QED  BY <1>1, <1>2, <1>5, <2>1, HeapAlone
<1>. QED  BY <1>6, <1>7, <1>8


\* Every step of the memory layer, and every stutter, keeps KInv.
LEMMA NextKInv ==
  ASSUME KInv, [Next]_vars
  PROVE  KInv'
<1>1. CASE Kmalloc  BY <1>1, KmallocKInv
<1>2. CASE Sbrk  BY <1>2, SbrkKInv
<1>3. CASE Load  BY <1>3, LoadKInv
<1>4. CASE Fork \/ Exit  BY <1>4, ForkExitKInv
<1>5. CASE AllocFails \/ MapNoTable \/ MapOk  BY <1>5, LoopStepKInv
<1>6. CASE LoopEnd  BY <1>6, LoopEndKInv
<1>7. CASE UNCHANGED vars  BY <1>7 DEF vars, KInv, HeapOK, KmallocOK
<1>. QED  BY <1>1, <1>2, <1>3, <1>4, <1>5, <1>6, <1>7 DEF Next

-----------------------------------------------------------------------------
(* The theorem *)

\* For every page size, alignment, heap base and kmalloc size, the blocks
\* kmalloc returns are aligned, lie between the heap's base and heap_end,
\* and never overlap, even when map_more runs out of frames.
THEOREM BlocksDisjointHolds == Spec => []BlocksDisjoint
<1>1. Spec => []KInv  BY InitKInv, NextKInv, PTL DEF Spec
<1>2. KInv => BlocksDisjoint
  <2>. SUFFICES ASSUME KInv PROVE BlocksDisjoint  OBVIOUS
  <2>1. \A b \in blocks :
          b.ret % Align = 0 /\ KBase <= b.ret /\ b.ret + b.sz <= heap_end
    BY DEF KInv, HeapOK
  <2>. QED  BY <2>1 DEF KInv, BlocksDisjoint
<1>. QED  BY <1>1, <1>2, PTL


-----------------------------------------------------------------------------
(* The frames: what vmm.c and free_user_address_space keep of the PMM's   *)
(* free set.                                                               *)

\* The types TypeOK gives the frame side and the counters.
FrameTypes ==
  /\ free \subseteq Frames
  /\ pde \in [Pdes -> [pt : LowFrames \cup {0, BootPT}, user : BOOLEAN]]
  /\ pte \in [Pages -> [fr : Frames \cup {0}, user : BOOLEAN]]
  /\ brk_cur \in Nat
  /\ prog \in {"none", "run"} /\ live \in 0 .. MaxProcs
  /\ ncalls \in 0 .. MaxCalls /\ nruns \in 0 .. MaxRuns

\* A running program has a process in the table, the table has room for
\* the next program's process whenever none runs, and the loader runs
\* only between programs.
LiveOK == /\ prog = "run" => live >= 1
          /\ prog = "none" => live < MaxProcs
          /\ call.op \in ElfOps => prog = "none"

\* SYS_sbrk returns the break it found (brk_cur is not touched meanwhile).
SbrkOK == call.op = "sbrk" => call.ret = brk_cur /\ call.sz \in Nat

\* The frames the PMM handed out that serve as page tables.
PTSet == {pde[d].pt : d \in {e \in Pdes : pde[e].pt \in Frames}}

\* No two directory entries share a table the PMM handed out, and the
\* boot table stays in the kernel heap's entry.
PtsUnique ==
  /\ \A d, e \in Pdes : d # e /\ pde[d].pt \in Frames => pde[d].pt # pde[e].pt
  /\ \A d \in Pdes : pde[d].pt = BootPT => d = KPde

\* NoDanglingMapping with its table set named.
NoDangle ==
  /\ PTSet \cap free = {}
  /\ \A g \in Pages : Mapped(g) => pte[g].fr \notin free \cup PTSet
  /\ \A g, h \in Pages : g # h /\ Mapped(g) /\ Mapped(h) => pte[g].fr # pte[h].fr

FInv == FrameTypes /\ LiveOK /\ SbrkOK /\ PtsUnique /\ NoDangle


\* Every non-empty set of naturals has a least member.
LEMMA NatHasMin ==
  ASSUME NEW S \in SUBSET Nat, S # {}
  PROVE  \E m \in S : \A j \in S : m <= j
<1>1. PICK x \in S : \A y \in S : ~(<<y, x>> \in OpToRel(<, Nat))
  BY NatLessThanWellFounded, WFMin
<1>2. ASSUME NEW y \in S PROVE x <= y
  <2>1. ~(y < x)  BY <1>1 DEF OpToRel
  <2>. QED  BY <2>1
<1>. QED  BY <1>2

\* pmm_alloc_frame returns a frame of the set it searches.
LEMMA LowestIn ==
  ASSUME NEW S \in SUBSET Frames, S # {}
  PROVE  Lowest(S) \in S
<1>1. S \subseteq Nat  BY MemAssumption
<1>. QED  BY <1>1, NatHasMin DEF Lowest

\* Integer division by a positive divisor: the quotient brackets a.
LEMMA DivBounds ==
  ASSUME NEW a \in Int, NEW c \in Nat \ {0}
  PROVE  c * (a \div c) <= a /\ a < c * (a \div c) + c
BY DEF \div

\* and is the only integer that does.
LEMMA DivUnique ==
  ASSUME NEW a \in Int, NEW c \in Nat \ {0}, NEW q \in Int,
         c * q <= a, a < c * q + c
  PROVE  a \div c = q
<1>. DEFINE r == a \div c
<1>1. r \in Int /\ c * r <= a /\ a < c * r + c  BY DivBounds
<1>2. ~(q < r)
  <2>. SUFFICES ASSUME q < r PROVE FALSE  OBVIOUS
  <2>1. q + 1 <= r  BY <1>1
  <2>2. c * (q + 1) <= c * r  BY <1>1, <2>1
  <2>. QED  BY <1>1, <2>2
<1>3. ~(r < q)
  <2>. SUFFICES ASSUME r < q PROVE FALSE  OBVIOUS
  <2>1. r + 1 <= q  BY <1>1
  <2>2. c * (r + 1) <= c * q  BY <1>1, <2>1
  <2>. QED  BY <1>1, <2>2
<1>. QED  BY <1>1, <1>2, <1>3

\* Division by a positive divisor is monotone.
LEMMA DivMono ==
  ASSUME NEW a \in Int, NEW b \in Int, NEW c \in Nat \ {0}, a <= b
  PROVE  a \div c <= b \div c
<1>1. (a \div c) \in Int /\ (b \div c) \in Int  OBVIOUS
<1>. SUFFICES ASSUME b \div c < a \div c PROVE FALSE  BY <1>1
<1>2. (b \div c) + 1 <= a \div c  BY <1>1
<1>3. c * ((b \div c) + 1) <= c * (a \div c)  BY <1>1, <1>2
<1>. QED  BY <1>3, DivBounds

\* Dividing twice is dividing by the product.
LEMMA DivDiv ==
  ASSUME NEW a \in Int, NEW s \in Nat \ {0}, NEW p \in Nat \ {0}
  PROVE  (a \div s) \div p = a \div (s * p)
<1>. DEFINE m == a \div s
            q == m \div p
<1>1. m \in Int /\ s * m <= a /\ a < s * m + s  BY DivBounds
<1>2. q \in Int /\ p * q <= m /\ m < p * q + p  BY <1>1, DivBounds
<1>3. s * (p * q) <= s * m  BY <1>1, <1>2
<1>4. m + 1 <= p * q + p  BY <1>1, <1>2
<1>5. s * (m + 1) <= s * (p * q + p)  BY <1>1, <1>2, <1>4
<1>6. (s * p) * q <= a /\ a < (s * p) * q + s * p  BY <1>1, <1>2, <1>3, <1>5
<1>7. s * p \in Nat \ {0}  OBVIOUS
<1>. QED  BY <1>2, <1>6, <1>7, DivUnique

\* Every page of the window lies under a directory entry of the window.
LEMMA PdeOfPage == \A g \in Pages : PdeOf(g) \in Pdes
<1>. SUFFICES ASSUME NEW g \in Pages PROVE PdeOf(g) \in Pdes  OBVIOUS
<1>. DEFINE M == (KTop - 1) \div PageSize
<1>1. PtSpan \in Nat \ {0} /\ PageSize \in Nat \ {0} /\ KTop \in Nat
  BY MemAssumption
<1>2. g \in Int /\ PtSpan <= g /\ g <= M  BY <1>1 DEF Pages
<1>3. g \div PtSpan >= 1
  <2>1. PtSpan \div PtSpan <= g \div PtSpan  BY <1>1, <1>2, DivMono
  <2>2. PtSpan \div PtSpan = 1  BY <1>1, DivUnique
  <2>. QED  BY <2>1, <2>2
<1>4. g \div PtSpan <= M \div PtSpan  BY <1>1, <1>2, DivMono
<1>5. M \div PtSpan = (KTop - 1) \div (PageSize * PtSpan)
  <2>1. KTop - 1 \in Int  BY <1>1
  <2>. QED  BY <1>1, <2>1, DivDiv
<1>6. g \div PtSpan \in Int  BY <1>1, <1>2
<1>. QED  BY <1>3, <1>4, <1>5, <1>6 DEF PdeOf, Pdes

LEMMA InitFInv == Init => FInv
<1>. SUFFICES ASSUME Init PROVE FInv  OBVIOUS
<1>1. FrameTypes
  BY MemAssumption DEF Init, FrameTypes, NoPde, NoPte
<1>2. LiveOK  BY MemAssumption DEF Init, LiveOK, Loop, ElfOps
<1>3. SbrkOK  BY DEF Init, SbrkOK, Loop
<1>4. PtsUnique  BY MemAssumption DEF Init, PtsUnique, NoPde
<1>5. PTSet = {}  BY MemAssumption DEF Init, PTSet, NoPde
<1>6. NoDangle  BY <1>5 DEF Init, NoDangle, Mapped, NoPte
<1>. QED  BY <1>1, <1>2, <1>3, <1>4, <1>6 DEF FInv


\* A step that leaves the PMM's free set and the page tables alone keeps
\* the frame facts.
LEMMA FramesAlone ==
  ASSUME FInv, UNCHANGED <<free, pde, pte>>
  PROVE  PtsUnique' /\ NoDangle'
BY DEF FInv, PtsUnique, NoDangle, PTSet, Mapped

\* The call a loop step leaves behind has the op, break and size it had.
LEMMA LoopCall ==
  ASSUME KInv, call.op # "idle",
         \/ call' = IF call.op \in ElfOps THEN NoCall
                    ELSE [call EXCEPT !.v = call.endv, !.oom = TRUE]
         \/ call' = IF call.op \in ElfOps THEN NoCall
                    ELSE [call EXCEPT !.v = @ + PageSize, !.oom = TRUE]
         \/ call' = [call EXCEPT !.v = @ + PageSize]
  PROVE  /\ call'.op \in {call.op, "idle"}
         /\ call'.op = "sbrk" => call'.ret = call.ret /\ call'.sz = call.sz
<1>1. CASE call.op \in ElfOps
  <2>1. call' = NoCall \/ call' = [call EXCEPT !.v = @ + PageSize]  BY <1>1
  <2>. QED  BY <1>1, <2>1 DEF KInv, CallFields, NoCall, ElfOps
<1>2. CASE call.op \notin ElfOps
  <2>1. \E x, y : call' = [call EXCEPT !.v = x, !.oom = y]
                   \/ call' = [call EXCEPT !.v = x]
    BY <1>2
  <2>. QED  BY <2>1 DEF KInv, CallFields
<1>. QED  BY <1>1, <1>2

LEMMA KmallocFInv ==
  ASSUME FInv, Kmalloc
  PROVE  FInv'
<1>1. call'.op = "kmalloc"  BY DEF Kmalloc, MapMore, Loop
<1>2. FrameTypes'  BY MemAssumption DEF Kmalloc, FInv, FrameTypes
<1>3. LiveOK' /\ SbrkOK'  BY <1>1 DEF Kmalloc, FInv, LiveOK, SbrkOK, ElfOps
<1>. QED  BY <1>2, <1>3, FramesAlone DEF Kmalloc, FInv

LEMMA SbrkFInv ==
  ASSUME FInv, Sbrk
  PROVE  FInv'
<1>1. call'.op = "sbrk" /\ call'.ret = brk_cur /\ call'.sz \in Nat
  BY MemAssumption DEF Sbrk, Loop
<1>2. FrameTypes'  BY MemAssumption DEF Sbrk, FInv, FrameTypes
<1>3. LiveOK' /\ SbrkOK'  BY <1>1 DEF Sbrk, FInv, LiveOK, SbrkOK, ElfOps
<1>. QED  BY <1>2, <1>3, FramesAlone DEF Sbrk, FInv

LEMMA LoadFInv ==
  ASSUME FInv, Load
  PROVE  FInv'
<1>1. call'.op = "code"  BY DEF Load, Loop
<1>2. FrameTypes'  BY MemAssumption DEF Load, FInv, FrameTypes
<1>3. LiveOK' /\ SbrkOK'  BY <1>1 DEF Load, FInv, LiveOK, SbrkOK
<1>. QED  BY <1>2, <1>3, FramesAlone DEF Load, FInv

LEMMA ForkFInv ==
  ASSUME FInv, Fork
  PROVE  FInv'
<1>1. FrameTypes'  BY MemAssumption DEF Fork, FInv, FrameTypes
<1>2. LiveOK' /\ SbrkOK'  BY DEF Fork, FInv, LiveOK, SbrkOK, FrameTypes
<1>. QED  BY <1>1, <1>2, FramesAlone DEF Fork, FInv

LEMMA AllocFailsFInv ==
  ASSUME KInv, FInv, AllocFails
  PROVE  FInv'
<1>1. /\ call'.op \in {call.op, "idle"}
      /\ call'.op = "sbrk" => call'.ret = call.ret /\ call'.sz = call.sz
  BY LoopCall DEF AllocFails
<1>2. FrameTypes'  BY DEF AllocFails, FInv, FrameTypes
<1>3. LiveOK' /\ SbrkOK'  BY <1>1 DEF AllocFails, FInv, LiveOK, SbrkOK, ElfOps
<1>. QED  BY <1>2, <1>3, FramesAlone DEF AllocFails, FInv

\* get_pt finds no low frame: a frame leaks, nothing is mapped.
LEMMA MapNoTableFInv ==
  ASSUME KInv, FInv, MapNoTable
  PROVE  FInv'
<1>1. /\ call'.op \in {call.op, "idle"}
      /\ call'.op = "sbrk" => call'.ret = call.ret /\ call'.sz = call.sz
  BY LoopCall DEF MapNoTable
<1>2. free' \subseteq free /\ UNCHANGED <<pde, pte>>  BY DEF MapNoTable
<1>3. FrameTypes'  BY <1>2 DEF MapNoTable, FInv, FrameTypes
<1>4. LiveOK' /\ SbrkOK'  BY <1>1 DEF MapNoTable, FInv, LiveOK, SbrkOK, ElfOps
<1>5. PtsUnique'  BY <1>2 DEF FInv, PtsUnique
<1>6. NoDangle'  BY <1>2 DEF FInv, NoDangle, PTSet, Mapped
<1>. QED  BY <1>3, <1>4, <1>5, <1>6 DEF FInv

\* The end of a loop: only the break, the run and the process count move.
LEMMA LoopEndFInv ==
  ASSUME KInv, FInv, LoopEnd
  PROVE  FInv'
<1>1. UNCHANGED <<free, pde, pte, ncalls>>  BY DEF LoopEnd
<1>2. CASE call.op \in KernelOps
  <2>1. call' = NoCall /\ UNCHANGED <<brk_cur, prog, live, nruns>>
    BY <1>2 DEF LoopEnd, KernelOps
  <2>. QED  BY <1>1, <2>1, FramesAlone
            DEF FInv, FrameTypes, LiveOK, SbrkOK, NoCall, ElfOps
<1>3. CASE call.op = "sbrk"
  <2>1. call' = NoCall /\ brk_cur' = call.ret + call.sz
        /\ UNCHANGED <<prog, live, nruns>>
    BY <1>3 DEF LoopEnd, KernelOps
  <2>2. brk_cur' \in Nat  BY <1>3, <2>1 DEF FInv, SbrkOK, FrameTypes
  <2>. QED  BY <1>1, <2>1, <2>2, FramesAlone
            DEF FInv, FrameTypes, LiveOK, SbrkOK, NoCall, ElfOps
<1>4. CASE call.op = "code"
  <2>1. call'.op = "stack" /\ UNCHANGED <<brk_cur, prog, live, nruns>>
    BY <1>4 DEF LoopEnd, KernelOps, Loop
  <2>. QED  BY <1>1, <1>4, <2>1, FramesAlone
            DEF FInv, FrameTypes, LiveOK, SbrkOK, ElfOps
<1>5. CASE call.op = "stack"
  <2>1. call' = NoCall /\ prog' = "run" /\ live' = live + 1
        /\ UNCHANGED <<brk_cur, nruns>>
    BY <1>5 DEF LoopEnd, KernelOps
  <2>2. prog = "none" /\ live \in 0 .. MaxProcs - 1
    BY <1>5, MemAssumption DEF FInv, LiveOK, FrameTypes, ElfOps
  <2>3. FrameTypes' /\ LiveOK' /\ SbrkOK'
    BY <1>1, <2>1, <2>2, MemAssumption
    DEF FInv, FrameTypes, LiveOK, SbrkOK, NoCall, ElfOps
  <2>. QED  BY <1>1, <2>3, FramesAlone DEF FInv
<1>. QED  BY <1>2, <1>3, <1>4, <1>5 DEF LoopEnd, KInv, CallOps, ElfOps


\* vmm_map into a present table: the PTE of the page takes the lowest free
\* frame, which was free and so backs no other page and is no table.
LEMMA MapPresentFInv ==
  ASSUME KInv, FInv, MapOk, pde[PdeOf(PageOf(call.v))].pt # 0
  PROVE  FInv'
<1>. DEFINE phys == Lowest(free)
            g == PageOf(call.v)
            d == PdeOf(g)
            user == UserOp(call.op)
<1>1. free # {} /\ phys \in free /\ phys \in Frames /\ phys # 0
  BY LowestIn, MemAssumption DEF MapOk, FInv, FrameTypes
<1>2. /\ pde' = [pde EXCEPT ![d].user = @ \/ user]
      /\ pte' = [pte EXCEPT ![g] = [fr |-> phys, user |-> user]]
      /\ free' = free \ {phys}
      /\ call' = [call EXCEPT !.v = @ + PageSize]
      /\ UNCHANGED <<brk_cur, prog, live, ncalls, nruns>>
  BY DEF MapOk
<1>3. user \in BOOLEAN  BY DEF UserOp
<1>4. \A e \in Pdes : /\ pde'[e].pt = pde[e].pt
                      /\ pde'[e] \in [pt : LowFrames \cup {0, BootPT}, user : BOOLEAN]
  BY <1>2, <1>3 DEF FInv, FrameTypes
<1>5. pde' \in [Pdes -> [pt : LowFrames \cup {0, BootPT}, user : BOOLEAN]]
  BY <1>2, <1>4 DEF FInv, FrameTypes
<1>6. \A h \in Pages : pte'[h] = IF h = g THEN [fr |-> phys, user |-> user] ELSE pte[h]
  BY <1>2 DEF FInv, FrameTypes
<1>7. pte' \in [Pages -> [fr : Frames \cup {0}, user : BOOLEAN]]
  BY <1>1, <1>2, <1>3, <1>6 DEF FInv, FrameTypes
<1>8. FrameTypes'  BY <1>1, <1>2, <1>5, <1>7 DEF FInv, FrameTypes
<1>9. LiveOK' /\ SbrkOK'
  <2>1. /\ call'.op \in {call.op, "idle"}
        /\ call'.op = "sbrk" => call'.ret = call.ret /\ call'.sz = call.sz
    BY <1>2, LoopCall DEF MapOk
  <2>. QED  BY <1>2, <2>1 DEF FInv, LiveOK, SbrkOK, ElfOps
<1>10. PTSet' = PTSet  BY <1>4 DEF PTSet
<1>11. PtsUnique'  BY <1>4 DEF FInv, PtsUnique
<1>12. \A h \in Pages : h # g => (Mapped(h)' <=> Mapped(h)) /\ pte'[h] = pte[h]
  BY <1>4, <1>6, PdeOfPage DEF Mapped
<1>13. g \in Pages => pte'[g].fr = phys  BY <1>6
<1>14. NoDangle'
  <2>1. PTSet' \cap free' = {}  BY <1>2, <1>10 DEF FInv, NoDangle
  <2>2. phys \notin PTSet  BY <1>1 DEF FInv, NoDangle
  <2>3. ASSUME NEW h \in Pages, Mapped(h)'
        PROVE  pte'[h].fr \notin free' \cup PTSet'
    <3>1. CASE h = g  BY <1>2, <1>10, <1>13, <2>2, <3>1
    <3>2. CASE h # g  BY <1>2, <1>10, <1>12, <2>3, <3>2 DEF FInv, NoDangle
    <3>. QED  BY <3>1, <3>2
  <2>4. ASSUME NEW h \in Pages, NEW k \in Pages, h # k, Mapped(h)', Mapped(k)'
        PROVE  pte'[h].fr # pte'[k].fr
    <3>1. CASE h # g /\ k # g  BY <1>12, <2>4, <3>1 DEF FInv, NoDangle
    <3>2. CASE h = g  BY <1>1, <1>12, <1>13, <2>4, <3>2 DEF FInv, NoDangle
    <3>3. CASE k = g  BY <1>1, <1>12, <1>13, <2>4, <3>3 DEF FInv, NoDangle
    <3>. QED  BY <3>1, <3>2, <3>3
  <2>. QED  BY <2>1, <2>3, <2>4 DEF NoDangle
<1>. QED  BY <1>8, <1>9, <1>11, <1>14 DEF FInv


\* vmm_map with an absent table: get_pt takes a zeroed table from the low
\* free frames and the PTE the lowest free frame; both were free, so
\* neither backs a page nor serves as a table, and they differ.
LEMMA MapAbsentFInv ==
  ASSUME KInv, FInv, MapOk, pde[PdeOf(PageOf(call.v))].pt = 0
  PROVE  FInv'
<1>. DEFINE phys == Lowest(free)
            rest == free \ {phys}
            t == Lowest(rest \cap LowFrames)
            g == PageOf(call.v)
            d == PdeOf(g)
            user == UserOp(call.op)
<1>1. free # {} /\ phys \in free /\ phys \in Frames /\ phys # 0
  BY LowestIn, MemAssumption DEF MapOk, FInv, FrameTypes
<1>2. /\ pde' = [pde EXCEPT ![d] = [pt |-> t, user |-> user]]
      /\ pte' = [h \in Pages |-> IF h = g THEN [fr |-> phys, user |-> user]
                                ELSE IF PdeOf(h) = d THEN NoPte ELSE pte[h]]
      /\ free' = rest \ {t}
      /\ rest \cap LowFrames # {}
      /\ call' = [call EXCEPT !.v = @ + PageSize]
      /\ UNCHANGED <<brk_cur, prog, live, ncalls, nruns>>
  BY DEF MapOk
<1>3. t \in rest /\ t \in LowFrames /\ t \in Frames /\ t # phys
  <2>1. rest \cap LowFrames \in SUBSET Frames  BY MemAssumption
  <2>2. t \in rest \cap LowFrames  BY <1>2, <2>1, LowestIn
  <2>. QED  BY <2>2, MemAssumption
<1>4. user \in BOOLEAN  BY DEF UserOp
<1>5. \A e \in Pdes : pde'[e] = IF e = d THEN [pt |-> t, user |-> user] ELSE pde[e]
  BY <1>2 DEF FInv, FrameTypes
<1>6. FrameTypes'
  <2>1. pde' \in [Pdes -> [pt : LowFrames \cup {0, BootPT}, user : BOOLEAN]]
    BY <1>2, <1>3, <1>4, <1>5 DEF FInv, FrameTypes
  <2>2. pte' \in [Pages -> [fr : Frames \cup {0}, user : BOOLEAN]]
    BY <1>1, <1>2, <1>4 DEF FInv, FrameTypes, NoPte
  <2>. QED  BY <1>1, <1>2, <2>1, <2>2 DEF FInv, FrameTypes
<1>7. LiveOK' /\ SbrkOK'
  <2>1. /\ call'.op \in {call.op, "idle"}
        /\ call'.op = "sbrk" => call'.ret = call.ret /\ call'.sz = call.sz
    BY <1>2, LoopCall DEF MapOk
  <2>. QED  BY <1>2, <2>1 DEF FInv, LiveOK, SbrkOK, ElfOps
<1>8. t \notin PTSet /\ phys \notin PTSet  BY <1>1, <1>3 DEF FInv, NoDangle
<1>9. PTSet' \subseteq PTSet \cup {t}
  <2>. SUFFICES ASSUME NEW e \in Pdes, pde'[e].pt \in Frames
                PROVE  pde'[e].pt \in PTSet \cup {t}
    BY DEF PTSet
  <2>1. CASE e = d  BY <1>5, <2>1
  <2>2. CASE e # d  BY <1>5, <2>2 DEF PTSet
  <2>. QED  BY <2>1, <2>2
<1>10. PtsUnique'
  <2>1. ASSUME NEW e1 \in Pdes, NEW e2 \in Pdes, e1 # e2, pde'[e1].pt \in Frames
        PROVE  pde'[e1].pt # pde'[e2].pt
    <3>1. CASE e1 = d
      <4>1. pde[e2].pt \in Frames => pde[e2].pt \in PTSet  BY DEF PTSet
      <4>. QED  BY <1>5, <1>8, <2>1, <3>1, <4>1
    <3>2. CASE e2 = d
      <4>1. pde[e1].pt \in PTSet  BY <1>5, <2>1, <3>2 DEF PTSet
      <4>. QED  BY <1>5, <1>8, <2>1, <3>2, <4>1
    <3>3. CASE e1 # d /\ e2 # d  BY <1>5, <2>1, <3>3 DEF FInv, PtsUnique
    <3>. QED  BY <3>1, <3>2, <3>3
  <2>2. ASSUME NEW e \in Pdes, pde'[e].pt = BootPT PROVE e = KPde
    <3>1. e # d
      <4>1. t # BootPT  BY <1>3, MemAssumption
      <4>2. SUFFICES ASSUME e = d PROVE FALSE  OBVIOUS
      <4>3. pde'[e].pt = t  BY <1>5, <4>2
      <4>. QED  BY <2>2, <4>1, <4>3
    <3>. QED  BY <1>5, <2>2, <3>1 DEF FInv, PtsUnique
  <2>. QED  BY <2>1, <2>2 DEF PtsUnique
<1>11. \A h \in Pages : h # g /\ PdeOf(h) # d =>
         (Mapped(h)' <=> Mapped(h)) /\ pte'[h] = pte[h]
  BY <1>2, <1>5, PdeOfPage DEF Mapped
<1>12. \A h \in Pages : h # g /\ PdeOf(h) = d => ~Mapped(h)'
  BY <1>2 DEF Mapped, NoPte
<1>13. g \in Pages => pte'[g].fr = phys  BY <1>2
<1>14. NoDangle'
  <2>1. PTSet' \cap free' = {}  BY <1>2, <1>9 DEF FInv, NoDangle
  <2>2. ASSUME NEW h \in Pages, Mapped(h)'
        PROVE  pte'[h].fr \notin free' \cup PTSet'
    <3>1. CASE h = g  BY <1>2, <1>3, <1>8, <1>9, <1>13, <3>1
    <3>2. CASE h # g
      <4>1. PdeOf(h) # d /\ Mapped(h) /\ pte'[h] = pte[h]  BY <1>11, <1>12, <2>2, <3>2
      <4>2. pte[h].fr \notin free \cup PTSet  BY <4>1 DEF FInv, NoDangle
      <4>. QED  BY <1>2, <1>3, <1>9, <4>1, <4>2
    <3>. QED  BY <3>1, <3>2
  <2>3. ASSUME NEW h \in Pages, NEW k \in Pages, h # k, Mapped(h)', Mapped(k)'
        PROVE  pte'[h].fr # pte'[k].fr
    <3>1. CASE h # g /\ k # g  BY <1>11, <1>12, <2>3, <3>1 DEF FInv, NoDangle
    <3>2. CASE h = g
      <4>1. Mapped(k) /\ pte'[k] = pte[k]  BY <1>11, <1>12, <2>3, <3>2
      <4>. QED  BY <1>1, <1>13, <2>3, <3>2, <4>1 DEF FInv, NoDangle
    <3>3. CASE k = g
      <4>1. Mapped(h) /\ pte'[h] = pte[h]  BY <1>11, <1>12, <2>3, <3>3
      <4>. QED  BY <1>1, <1>13, <2>3, <3>3, <4>1 DEF FInv, NoDangle
    <3>. QED  BY <3>1, <3>2, <3>3
  <2>. QED  BY <2>1, <2>2, <2>3 DEF NoDangle
<1>. QED  BY <1>6, <1>7, <1>10, <1>14 DEF FInv


\* SYS_exit: free_user_address_space returns the frames of the USER pages
\* of the USER tables below KPde, and those tables, to the PMM.  A frame
\* still mapped elsewhere is none of them, as no frame backs two pages and
\* no table is shared.
LEMMA ExitFInv ==
  ASSUME FInv, Exit
  PROVE  FInv'
<1>. DEFINE UserPdes == {d \in Pdes : d < KPde /\ pde[d].pt # 0 /\ pde[d].user}
            Gone == {g \in Pages : PdeOf(g) \in UserPdes /\ pte[g].fr # 0 /\ pte[g].user}
            F1 == {pte[g].fr : g \in Gone}
            F2 == {pde[d].pt : d \in UserPdes}
<1>1. /\ free' = free \cup F1 \cup F2
      /\ pte' = [g \in Pages |-> IF g \in Gone THEN NoPte ELSE pte[g]]
      /\ pde' = [d \in Pdes |-> IF d \in UserPdes THEN NoPde ELSE pde[d]]
      /\ live' = live - 1 /\ prog' = "none" /\ prog = "run" /\ call.op = "idle"
      /\ UNCHANGED <<brk_cur, call, ncalls, nruns>>
  BY DEF Exit, ProcessDestroy, FreeUserSpace
<1>2. \A d \in UserPdes : pde[d].pt \in Frames
  <2>. SUFFICES ASSUME NEW d \in UserPdes PROVE pde[d].pt \in Frames  OBVIOUS
  <2>1. d # KPde  BY MemAssumption DEF Pdes
  <2>2. pde[d].pt # BootPT  BY <2>1 DEF FInv, PtsUnique
  <2>. QED  BY <2>2, MemAssumption DEF FInv, FrameTypes
<1>3. \A g \in Gone : Mapped(g) /\ pte[g].fr \in Frames
  BY DEF Mapped, FInv, FrameTypes
<1>4. FrameTypes'
  <2>1. F1 \subseteq Frames /\ F2 \subseteq Frames  BY <1>2, <1>3
  <2>2. live \in 1 .. MaxProcs  BY <1>1 DEF FInv, LiveOK, FrameTypes
  <2>3. pde' \in [Pdes -> [pt : LowFrames \cup {0, BootPT}, user : BOOLEAN]]
    BY <1>1 DEF FInv, FrameTypes, NoPde
  <2>4. pte' \in [Pages -> [fr : Frames \cup {0}, user : BOOLEAN]]
    BY <1>1 DEF FInv, FrameTypes, NoPte
  <2>5. live' \in 0 .. MaxProcs  BY <1>1, <2>2, MemAssumption
  <2>. QED  BY <1>1, <2>1, <2>3, <2>4, <2>5 DEF FInv, FrameTypes
<1>5. LiveOK' /\ SbrkOK'
  <2>1. live \in 1 .. MaxProcs  BY <1>1 DEF FInv, LiveOK, FrameTypes
  <2>. QED  BY <1>1, <2>1, MemAssumption DEF LiveOK, SbrkOK, ElfOps
<1>6. \A e \in Pdes : pde'[e] = IF e \in UserPdes THEN NoPde ELSE pde[e]  BY <1>1
<1>7. \A x \in PTSet' : \E e \in Pdes \ UserPdes : pde[e].pt = x /\ x \in Frames
  BY <1>6, MemAssumption DEF PTSet, NoPde
<1>8. PtsUnique'
  <2>1. \A e \in Pdes : pde'[e].pt \in Frames => e \notin UserPdes
    BY <1>6, MemAssumption DEF NoPde
  <2>2. ASSUME NEW e1 \in Pdes, NEW e2 \in Pdes, e1 # e2, pde'[e1].pt \in Frames
        PROVE  pde'[e1].pt # pde'[e2].pt
    <3>1. e1 \notin UserPdes /\ pde'[e1] = pde[e1]  BY <1>6, <2>1, <2>2
    <3>2. CASE e2 \in UserPdes  BY <1>6, <2>2, <3>1, <3>2, MemAssumption DEF NoPde
    <3>3. CASE e2 \notin UserPdes  BY <1>6, <2>2, <3>1, <3>3 DEF FInv, PtsUnique
    <3>. QED  BY <3>2, <3>3
  <2>3. ASSUME NEW e \in Pdes, pde'[e].pt = BootPT PROVE e = KPde
    <3>1. e \notin UserPdes  BY <1>6, <2>3, MemAssumption DEF NoPde
    <3>. QED  BY <1>6, <2>3, <3>1 DEF FInv, PtsUnique
  <2>. QED  BY <2>2, <2>3 DEF PtsUnique
<1>9. \A h \in Pages : Mapped(h)' => h \notin Gone /\ Mapped(h) /\ pte'[h] = pte[h]
  <2>. SUFFICES ASSUME NEW h \in Pages, Mapped(h)'
                PROVE  h \notin Gone /\ Mapped(h) /\ pte'[h] = pte[h]
    OBVIOUS
  <2>1. PdeOf(h) \in Pdes  BY PdeOfPage
  <2>2. PdeOf(h) \notin UserPdes  BY <1>6, <2>1 DEF Mapped, NoPde
  <2>. QED  BY <1>1, <1>6, <2>1, <2>2 DEF Mapped
<1>10. NoDangle'
  <2>1. PTSet' \cap free' = {}
    <3>. SUFFICES ASSUME NEW x \in PTSet', x \in free' PROVE FALSE  OBVIOUS
    <3>1. PICK e \in Pdes \ UserPdes : pde[e].pt = x /\ x \in Frames  BY <1>7
    <3>2. x \in PTSet  BY <3>1 DEF PTSet
    <3>3. x \notin free  BY <3>2 DEF FInv, NoDangle
    <3>4. x \notin F1  BY <1>3, <3>2 DEF FInv, NoDangle
    <3>5. x \notin F2  BY <1>2, <3>1 DEF FInv, PtsUnique
    <3>. QED  BY <1>1, <3>3, <3>4, <3>5
  <2>2. ASSUME NEW h \in Pages, Mapped(h)'
        PROVE  pte'[h].fr \notin free' \cup PTSet'
    <3>1. h \notin Gone /\ Mapped(h) /\ pte'[h] = pte[h]  BY <1>9, <2>2
    <3>2. pte[h].fr \notin free \cup PTSet  BY <3>1 DEF FInv, NoDangle
    <3>3. pte[h].fr \notin F1  BY <1>3, <3>1 DEF FInv, NoDangle
    <3>4. F2 \subseteq PTSet  BY <1>2 DEF PTSet
    <3>5. PTSet' \subseteq PTSet  BY <1>7 DEF PTSet
    <3>. QED  BY <1>1, <3>1, <3>2, <3>3, <3>4, <3>5
  <2>3. ASSUME NEW h \in Pages, NEW k \in Pages, h # k, Mapped(h)', Mapped(k)'
        PROVE  pte'[h].fr # pte'[k].fr
    BY <1>9, <2>3 DEF FInv, NoDangle
  <2>. QED  BY <2>1, <2>2, <2>3 DEF NoDangle
<1>. QED  BY <1>4, <1>5, <1>8, <1>10 DEF FInv


\* Every step of the memory layer, and every stutter, keeps FInv.
LEMMA NextFInv ==
  ASSUME KInv, FInv, [Next]_vars
  PROVE  FInv'
<1>1. CASE Kmalloc  BY <1>1, KmallocFInv
<1>2. CASE Sbrk  BY <1>2, SbrkFInv
<1>3. CASE Load  BY <1>3, LoadFInv
<1>4. CASE Fork  BY <1>4, ForkFInv
<1>5. CASE Exit  BY <1>5, ExitFInv
<1>6. CASE AllocFails  BY <1>6, AllocFailsFInv
<1>7. CASE MapNoTable  BY <1>7, MapNoTableFInv
<1>8. CASE MapOk  BY <1>8, MapPresentFInv, MapAbsentFInv
<1>9. CASE LoopEnd  BY <1>9, LoopEndFInv
<1>10. CASE UNCHANGED vars
  <2>1. FrameTypes' /\ LiveOK' /\ SbrkOK'
    BY <1>10 DEF vars, FInv, FrameTypes, LiveOK, SbrkOK
  <2>. QED  BY <1>10, <2>1, FramesAlone DEF vars, FInv
<1>. QED  BY <1>1, <1>2, <1>3, <1>4, <1>5, <1>6, <1>7, <1>8, <1>9, <1>10
          DEF Next

\* The heap and the frame facts hold together in every reachable state.
LEMMA MemInvHolds == Spec => [](KInv /\ FInv)
<1>1. Init => KInv /\ FInv  BY InitKInv, InitFInv
<1>2. KInv /\ FInv /\ [Next]_vars => KInv' /\ FInv'  BY NextKInv, NextFInv
<1>. QED  BY <1>1, <1>2, PTL DEF Spec

\* For every window, frame set and set of low frames, the memory layer
\* keeps its types: in particular every page table get_pt installs comes
\* from below 16 MiB (pmm_alloc_frame_below), the process count stays
\* within the table, and the PMM's free set holds only its own frames.
THEOREM TypeCorrect == Spec => []TypeOK
<1>1. KInv /\ FInv => TypeOK
  BY DEF KInv, HeapOK, CallOps, FInv, FrameTypes, TypeOK
<1>. QED  BY <1>1, MemInvHolds, PTL

\* For every window and frame set, no present mapping reaches a frame the
\* PMM considers free, no frame backs two pages and no page's frame is a
\* page table: through vmm_map's failures (a frame leaked when get_pt
\* finds no low frame), pages mapped again, and free_user_address_space
\* at every exit.
THEOREM NoDanglingMappingHolds == Spec => []NoDanglingMapping
<1>1. FInv => NoDanglingMapping  BY DEF FInv, NoDangle, PTSet, NoDanglingMapping
<1>. QED  BY <1>1, MemInvHolds, PTL

=============================================================================
