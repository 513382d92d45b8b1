--------------------------------- MODULE Mem ---------------------------------
(***************************************************************************)
(* The memory layer as the kernel drives it: the page tables of vmm.c      *)
(* (vmm_map and get_pt), the bump heap of heap.c (kmalloc_init, kmalloc,  *)
(* map_more), the user break of SYS_sbrk, the user image and stack that   *)
(* the ELF loader maps, and the release of the user address space when    *)
(* run_user_and_wait destroys the process (free_user_address_space).      *)
(*                                                                         *)
(* Addresses are scaled: a page holds PageSize units, a page table spans  *)
(* PtSpan pages, so PDE d covers pages d*PtSpan .. d*PtSpan+PtSpan-1.      *)
(* Frames are the physical frames the PMM hands out, lowest first (pmm.c);*)
(* LowFrames those below 16 MiB that pmm_alloc_frame_below may return.    *)
(* Every process shares the one boot page directory (proc.c:64 and        *)
(* clone_page_directory), so there is a single directory pde/pte.         *)
(* The kernel runs each of these paths with interrupts off or in the      *)
(* shell thread, so a loop iteration is one step; a call in progress is   *)
(* the record call.                                                       *)
(***************************************************************************)
EXTENDS Integers, FiniteSets

CONSTANTS
  PageSize,   \* units per page
  Align,      \* kmalloc's alignment (16 bytes)
  PtSpan,     \* pages per page table
  Frames,     \* physical frames the PMM can hand out (numbers > 0)
  LowFrames,  \* the frames below 16 MiB
  BootPT,     \* the boot page table of the kernel heap's PDE (not in Frames)
  KPde,       \* the first kernel PDE (768): free_user_address_space stops here
  KBase,      \* kmalloc_init's base (0xC0200000, inside PDE KPde)
  KInit,      \* kmalloc_init's size
  KSizes,     \* kmalloc sizes the kernel asks for
  KTop,       \* model bound: the end of the kernel heap window modelled
  UStack,     \* first address of the user stack (USTACK_BASE)
  UCode,      \* first address of the user image's PT_LOAD segment
  CodeSize,   \* its p_memsz
  BrkBase,    \* brk_base, 0x00800000
  SbrkIncs,   \* positive increments programs pass to SYS_sbrk
  UTop,       \* model bound: the end of the user heap window modelled
  MaxCalls,   \* model bound: kmalloc and sbrk calls
  MaxRuns,    \* model bound: programs the shell starts
  MaxProcs    \* the process table's slots

ASSUME MemAssumption ==
  /\ PageSize \in Nat \ {0} /\ Align \in Nat \ {0} /\ PtSpan \in Nat \ {0}
  /\ LowFrames \subseteq Frames /\ Frames \subseteq Nat \ {0}
  /\ BootPT \notin Frames \cup {0}
  /\ KInit \in Nat \ {0} /\ KSizes \subseteq Nat \ {0}
  /\ SbrkIncs \subseteq Nat \ {0}
  /\ KBase \in Nat /\ KBase % PageSize = 0 /\ UStack % PageSize = 0
  /\ BrkBase \in Nat /\ KTop \in Nat
  /\ MaxCalls \in Nat /\ MaxRuns \in Nat /\ MaxProcs \in Nat \ {0}

VARIABLES
  free,      \* frames the PMM has not handed out
  pde,       \* page directory: pde[d].pt the table's frame (0 if absent)
  pte,       \* page-table entries: pte[g].fr the frame of page g (0 if absent)
  heap_cur,  \* heap.c heap_cur
  heap_end,  \* heap.c heap_end
  brk_cur,   \* SYS_sbrk's static brk_cur
  call,      \* the mapping loop the kernel is in, or op "idle"
  prog,      \* "run" while run_user_and_wait's process runs, else "none"
  live,      \* processes in the table that use the run's address space
  blocks,    \* history: every block kmalloc returned
  slast,     \* history: the last sbrk of the running program
  ncalls,    \* kmalloc and sbrk calls made
  nruns      \* programs started

vars == <<free, pde, pte, heap_cur, heap_end, brk_cur, call, prog, live,
          blocks, slast, ncalls, nruns>>

Pdes == 1 .. (KTop - 1) \div (PageSize * PtSpan)
Pages == PtSpan .. (KTop - 1) \div PageSize
PdeOf(g) == g \div PtSpan
PageOf(a) == a \div PageSize
RoundUp(a) == ((a + PageSize - 1) \div PageSize) * PageSize
\* The pages a block [a, a+n) touches.
PagesOf(a, n) == PageOf(a) .. PageOf(a + n - 1)

NoPte == [fr |-> 0, user |-> FALSE]
NoPde == [pt |-> 0, user |-> FALSE]
Mapped(g) == pde[PdeOf(g)].pt # 0 /\ pte[g].fr # 0

\* pmm_alloc_frame and pmm_alloc_frame_below: the lowest free frame.
Lowest(S) == CHOOSE x \in S : \A y \in S : x <= y

NoCall == [op |-> "idle", v |-> 0, endv |-> 0, ret |-> 0, sz |-> 0, oom |-> FALSE]
KernelOps == {"kinit", "kmalloc"}
ElfOps == {"code", "stack"}
\* The loop of map_more (kernel heap), SYS_sbrk, map_user_range (the
\* segment) and the user stack loop, mapping [v, endv) a page at a time.
Loop(op, from, to, ret, sz) ==
  [op |-> op, v |-> from, endv |-> to, ret |-> ret, sz |-> sz, oom |-> FALSE]
UserOp(op) == op \in {"sbrk"} \cup ElfOps

\* map_more lines 12-16: the loop over the pages [heap_end, heap_end+need).
MapMore(op, ret, sz, bytes) ==
  LET need == heap_cur + bytes - heap_end
      pages == IF need <= 0 THEN 0 ELSE (need + PageSize - 1) \div PageSize
  IN Loop(op, heap_end, heap_end + pages * PageSize, ret, sz)

\* kmalloc_init with the boot directory: the kernel heap's PDE is present,
\* every other is absent; map_more(size) has begun.
Init ==
  /\ free = Frames
  /\ pde = [d \in Pdes |-> IF d = KPde THEN [pt |-> BootPT, user |-> FALSE] ELSE NoPde]
  /\ pte = [g \in Pages |-> NoPte]
  /\ heap_cur = KBase /\ heap_end = KBase
  /\ brk_cur = BrkBase
  /\ call = Loop("kinit", KBase, KBase + RoundUp(KInit), 0, 0)
  /\ prog = "none" /\ live = 0
  /\ blocks = {} /\ slast = <<>>
  /\ ncalls = 0 /\ nruns = 0

\* Variant: the address is rounded down rather than up.
Mut_AlignUp(p) == (p \div Align) * Align

\* kmalloc line 35: (p + 15) & ~15.
AlignUp(p) == ((p + Align - 1) \div Align) * Align

\* kmalloc lines 31-38 up to map_more: a kernel path asks for sz bytes.
Kmalloc ==
  /\ call.op = "idle" /\ ncalls < MaxCalls
  /\ \E sz \in KSizes :
       LET ret == AlignUp(heap_cur) IN
       /\ ret + sz <= KTop
       /\ call' = MapMore("kmalloc", ret, sz, ret + sz - heap_cur)
  /\ ncalls' = ncalls + 1
  /\ UNCHANGED <<free, pde, pte, heap_cur, heap_end, brk_cur, prog, live,
                 blocks, slast, nruns>>

\* An iteration whose pmm_alloc_frame returns 0: map_more and SYS_sbrk
\* break out of the loop; map_user_range returns -1 and the stack loop
\* -30, so the loader returns an error and the program does not start.
AllocFails ==
  /\ call.op # "idle" /\ call.v < call.endv
  /\ free = {}
  /\ call' = IF call.op \in ElfOps THEN NoCall
             ELSE [call EXCEPT !.v = call.endv, !.oom = TRUE]
  /\ UNCHANGED <<free, pde, pte, heap_cur, heap_end, brk_cur, prog, live,
                 blocks, slast, ncalls, nruns>>

\* vmm_map -> get_pt lines 21-25: the page's PDE is absent and
\* pmm_alloc_frame_below(16 MiB) returns 0, so vmm_map returns -1 and
\* the frame just allocated is never mapped nor freed.  map_more and
\* SYS_sbrk ignore the result and go on; the loader returns -2 / -31.
MapNoTable ==
  /\ call.op # "idle" /\ call.v < call.endv
  /\ free # {}
  /\ LET rest == free \ {Lowest(free)} IN
     /\ pde[PdeOf(PageOf(call.v))].pt = 0
     /\ rest \cap LowFrames = {}
     /\ free' = rest
  /\ call' = IF call.op \in ElfOps THEN NoCall
             ELSE [call EXCEPT !.v = @ + PageSize, !.oom = TRUE]
  /\ UNCHANGED <<pde, pte, heap_cur, heap_end, brk_cur, prog, live,
                 blocks, slast, ncalls, nruns>>

\* Variant: get_pt takes its table from pmm_alloc_frame, not from below
\* 16 MiB.
Mut_MapOk ==
  /\ call.op # "idle" /\ call.v < call.endv
  /\ free # {}
  /\ LET phys == Lowest(free)
         rest == free \ {phys}
         g == PageOf(call.v)
         d == PdeOf(g)
         user == UserOp(call.op)
     IN IF pde[d].pt # 0
        THEN /\ pde' = [pde EXCEPT ![d].user = @ \/ user]
             /\ pte' = [pte EXCEPT ![g] = [fr |-> phys, user |-> user]]
             /\ free' = rest
        ELSE /\ rest # {}
             /\ LET t == Lowest(rest) IN
                /\ pde' = [pde EXCEPT ![d] = [pt |-> t, user |-> user]]
                /\ pte' = [h \in Pages |->
                             IF h = g THEN [fr |-> phys, user |-> user]
                             ELSE IF PdeOf(h) = d THEN NoPte ELSE pte[h]]
                /\ free' = rest \ {t}
  /\ call' = [call EXCEPT !.v = @ + PageSize]
  /\ UNCHANGED <<heap_cur, heap_end, brk_cur, prog, live, blocks, slast,
                 ncalls, nruns>>

\* One iteration that maps its page: pmm_alloc_frame, then vmm_map.  A
\* present PDE gets the USER flag promoted (get_pt lines 31-36); an
\* absent one gets a zeroed table from pmm_alloc_frame_below (lines
\* 21-29) with the mapping's USER flag; the PTE is written (vmm_map).
MapOk ==
  /\ call.op # "idle" /\ call.v < call.endv
  /\ free # {}
  /\ LET phys == Lowest(free)
         rest == free \ {phys}
         g == PageOf(call.v)
         d == PdeOf(g)
         user == UserOp(call.op)
     IN IF pde[d].pt # 0
        THEN /\ pde' = [pde EXCEPT ![d].user = @ \/ user]
             /\ pte' = [pte EXCEPT ![g] = [fr |-> phys, user |-> user]]
             /\ free' = rest
        ELSE /\ rest \cap LowFrames # {}
             /\ LET t == Lowest(rest \cap LowFrames) IN
                /\ pde' = [pde EXCEPT ![d] = [pt |-> t, user |-> user]]
                /\ pte' = [h \in Pages |->
                             IF h = g THEN [fr |-> phys, user |-> user]
                             ELSE IF PdeOf(h) = d THEN NoPte ELSE pte[h]]
                /\ free' = rest \ {t}
  /\ call' = [call EXCEPT !.v = @ + PageSize]
  /\ UNCHANGED <<heap_cur, heap_end, brk_cur, prog, live, blocks, slast,
                 ncalls, nruns>>

\* The end of a loop.  map_more line 22 advances heap_end by every page
\* it meant to map, mapped or not; kmalloc then bumps heap_cur and
\* returns (lines 39-40).  SYS_sbrk sets brk_cur = new_brk and returns
\* the old break (lines 110-111).  The loader goes on from the segment
\* to the stack loop, and from the stack to run_user_and_wait.
LoopEnd ==
  /\ call.op # "idle" /\ call.v >= call.endv
  /\ CASE call.op \in KernelOps ->
            /\ heap_end' = call.endv
            /\ heap_cur' = IF call.op = "kmalloc" THEN call.ret + call.sz ELSE heap_cur
            /\ blocks' = IF call.op = "kmalloc"
                         THEN blocks \cup {[id |-> ncalls, ret |-> call.ret,
                                            sz |-> call.sz, oom |-> call.oom]}
                         ELSE blocks
            /\ call' = NoCall
            /\ UNCHANGED <<brk_cur, slast, prog, live, nruns>>
       [] call.op = "sbrk" ->
            /\ brk_cur' = call.ret + call.sz
            /\ slast' = <<[old |-> call.ret, inc |-> call.sz, oom |-> call.oom]>>
            /\ call' = NoCall
            /\ UNCHANGED <<heap_cur, heap_end, blocks, prog, live, nruns>>
       [] call.op = "code" ->
            /\ call' = Loop("stack", UStack, UStack + PageSize, 0, 0)
            /\ UNCHANGED <<heap_cur, heap_end, blocks, brk_cur, slast, prog,
                           live, nruns>>
       [] call.op = "stack" ->
            /\ call' = NoCall
            /\ prog' = "run" /\ live' = live + 1
            /\ UNCHANGED <<heap_cur, heap_end, blocks, brk_cur, slast, nruns>>
  /\ UNCHANGED <<free, pde, pte, ncalls>>

\* SYS_sbrk lines 96-109: a positive increment maps the pages from
\* roundup(brk_cur) to roundup(brk_cur + inc).
Sbrk ==
  /\ prog = "run" /\ call.op = "idle" /\ ncalls < MaxCalls
  /\ \E inc \in SbrkIncs :
       /\ brk_cur + inc <= UTop
       /\ call' = Loop("sbrk", RoundUp(brk_cur), RoundUp(brk_cur + inc), brk_cur, inc)
  /\ ncalls' = ncalls + 1
  /\ UNCHANGED <<free, pde, pte, heap_cur, heap_end, brk_cur, prog, live,
                 blocks, slast, nruns>>

\* elf_run_from_filesystem lines 176-192 and map_user_range lines 12-14:
\* the shell loads a program; its PT_LOAD segment is mapped from its page.
Load ==
  /\ prog = "none" /\ call.op = "idle" /\ nruns < MaxRuns
  /\ call' = Loop("code", (UCode \div PageSize) * PageSize, RoundUp(UCode + CodeSize), 0, 0)
  /\ nruns' = nruns + 1
  /\ UNCHANGED <<free, pde, pte, heap_cur, heap_end, brk_cur, prog, live,
                 blocks, slast, ncalls>>

\* SYS_fork -> process_fork: a child that shares the directory
\* (clone_page_directory returns the parent's); a full table fails.
Fork ==
  /\ prog = "run" /\ call.op = "idle"
  /\ live < MaxProcs
  /\ live' = live + 1
  /\ UNCHANGED <<free, pde, pte, heap_cur, heap_end, brk_cur, call, prog,
                 blocks, slast, ncalls, nruns>>

\* Variant: the PDE is left in place when its table is freed.
Mut_FreeUserSpace ==
  LET UserPdes == {d \in Pdes : d < KPde /\ pde[d].pt # 0 /\ pde[d].user}
      Gone == {g \in Pages : PdeOf(g) \in UserPdes /\ pte[g].fr # 0 /\ pte[g].user}
  IN /\ free' = free \cup {pte[g].fr : g \in Gone} \cup {pde[d].pt : d \in UserPdes}
     /\ pte' = [g \in Pages |-> IF g \in Gone THEN NoPte ELSE pte[g]]
     /\ UNCHANGED pde

\* free_user_address_space on the current directory (lines 35-72): for
\* every present USER PDE below 768, unmap and free every present USER
\* page, then (no USER entry is left) clear the PDE and free the table.
FreeUserSpace ==
  LET UserPdes == {d \in Pdes : d < KPde /\ pde[d].pt # 0 /\ pde[d].user}
      Gone == {g \in Pages : PdeOf(g) \in UserPdes /\ pte[g].fr # 0 /\ pte[g].user}
  IN /\ free' = free \cup {pte[g].fr : g \in Gone} \cup {pde[d].pt : d \in UserPdes}
     /\ pte' = [g \in Pages |-> IF g \in Gone THEN NoPte ELSE pte[g]]
     /\ pde' = [d \in Pdes |-> IF d \in UserPdes THEN NoPde ELSE pde[d]]

\* process_destroy of a process with a page directory: its user address
\* space is freed and its slot returns to PROC_UNUSED.
ProcessDestroy == FreeUserSpace /\ live' = live - 1

\* SYS_exit by a process of the run: the dispatcher jumps to after_user,
\* and run_user_and_wait destroys the run's process (proc.c 88-94):
\* process_destroy frees the address space every process shares.
Exit ==
  /\ prog = "run" /\ call.op = "idle"
  /\ ProcessDestroy
  /\ prog' = "none"
  /\ slast' = <<>>
  /\ UNCHANGED <<heap_cur, heap_end, brk_cur, call, blocks, ncalls, nruns>>

Next ==
  \/ Kmalloc \/ Sbrk \/ Load \/ Fork \/ Exit
  \/ AllocFails \/ MapNoTable \/ MapOk \/ LoopEnd

Spec == Init /\ [][Next]_vars

-----------------------------------------------------------------------------

(* The type of every variable; page tables come only from LowFrames, as *)
(* get_pt's pmm_alloc_frame_below(16 MiB) promises the code that reaches *)
(* them through the identity mapping.                                    *)
TypeOK ==
  /\ free \subseteq Frames
  /\ pde \in [Pdes -> [pt : LowFrames \cup {0, BootPT}, user : BOOLEAN]]
  /\ pte \in [Pages -> [fr : Frames \cup {0}, user : BOOLEAN]]
  /\ {heap_cur, heap_end, brk_cur} \subseteq Nat
  /\ call.op \in {"idle", "sbrk"} \cup KernelOps \cup ElfOps
  /\ prog \in {"none", "run"} /\ live \in 0 .. MaxProcs
  /\ ncalls \in 0 .. MaxCalls /\ nruns \in 0 .. MaxRuns

(* Blocks kmalloc returned are 16-byte aligned, lie in the heap between  *)
(* its base and heap_end, and no two overlap: the bump of heap_cur after *)
(* the alignment never hands out a byte twice.                           *)
BlocksDisjoint ==
  /\ \A b \in blocks :
       b.ret % Align = 0 /\ KBase <= b.ret /\ b.ret + b.sz <= heap_end
  /\ \A b, c \in blocks :
       b.id # c.id => b.ret + b.sz <= c.ret \/ c.ret + c.sz <= b.ret

(* No present mapping reaches a frame the PMM considers free, no frame  *)
(* backs two pages, and no page frame is also a page table: after every *)
(* allocation, failed allocation, and free_user_address_space.          *)
NoDanglingMapping ==
  LET PTs == {pde[d].pt : d \in {e \in Pdes : pde[e].pt \in Frames}}
  IN /\ PTs \cap free = {}
     /\ \A g \in Pages : Mapped(g) => pte[g].fr \notin free \cup PTs
     /\ \A g, h \in Pages : g # h /\ Mapped(g) /\ Mapped(h) => pte[g].fr # pte[h].fr

(* While a process of the last run is in the table (it may still be     *)
(* scheduled), the pages of its image and stack are mapped.  A forked   *)
(* child shares its parent's directory; the exit of either frees it.     *)
ProgramMapped ==
  live > 0 /\ call.op = "idle" =>
    \A g \in PagesOf(UStack, PageSize) \cup PagesOf(UCode, CodeSize) : Mapped(g)

(* Every byte SYS_sbrk handed the running program is mapped (acceptance  *)
(* test 3: sbrk(4096) returns memory the program can write), unless the *)
(* loop itself ran out of frames.                                        *)
SbrkBacked ==
  \A i \in DOMAIN slast :
    ~slast[i].oom => \A g \in PagesOf(slast[i].old, slast[i].inc) : Mapped(g)

(* kmalloc returns a pointer into unmapped memory only if its own        *)
(* map_more ran out of frames (spec, kernel heap).                       *)
KmallocBacked ==
  \A b \in blocks : ~b.oom => \A g \in PagesOf(b.ret, b.sz) : Mapped(g)

(* Every frame the PMM handed out is mapped or is a page table, once no *)
(* call is in progress: vmm_map's failure and a re-mapped page leak none.*)
NoFrameLost ==
  call.op = "idle" =>
    Frames \ free = {pde[d].pt : d \in {e \in Pdes : pde[e].pt \in Frames}}
                    \cup {pte[g].fr : g \in {h \in Pages : Mapped(h)}}
=============================================================================
