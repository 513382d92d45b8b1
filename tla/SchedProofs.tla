----------------------------- MODULE SchedProofs -----------------------------
(***************************************************************************)
(* Proofs about the kernel-thread scheduler (module Sched) for every pool *)
(* size MAX_THREADS and every number of stacks, in the configuration the  *)
(* kernel is written for: only the bootstrap thread (slot 0, kernel_main) *)
(* calls kthread_create, and it never calls sched_yield itself.  With a   *)
(* second creator, or a bootstrap thread that yields, TLC finds both      *)
(* ContextsIntact and NoThreadLost violated (MC_Sched_CreateRace.cfg,     *)
(* MC_Sched_YieldRace.cfg), so the hypotheses are needed.                 *)
(*                                                                         *)
(* Why the invariants hold.  The timer can preempt only the bootstrap     *)
(* thread: ctx_switch keeps EFLAGS, so a thread the timer handler switches *)
(* to starts with IF clear and IRQ 0 still in service, and a sched_yield   *)
(* hands those flags on, until a yield resumes the bootstrap thread's     *)
(* interrupted handler, whose iret sets IF again.  So sched_yield, which  *)
(* only the other threads call, runs its lines 85-90 without a tick, and  *)
(* kthread_create, which only the bootstrap thread calls, cannot race     *)
(* another creator.  SInv states this together with the shape of the      *)
(* thread table: every allocated stack is the running one or a suspended  *)
(* one whose thread is READY and points at it.                             *)
(***************************************************************************)
EXTENDS Sched, WellFoundedInduction, TLAPS

\* The stacks allocated so far: the bootstrap stack and nstk thread stacks.
Alloc == 0 .. nstk

\* The flags a running stack has: the bootstrap thread runs with IF set and
\* no IRQ 0 in service, every other thread with IF clear and IRQ 0 owed.
FlagsOK == IF cpu = 0 THEN intr /\ ~isr ELSE ~intr /\ isr

\* The stacks exist, are owned by distinct threads, and resume correctly.
StacksOK ==
  /\ cpu \in Alloc
  /\ owner[0] = 0
  /\ \A s \in Alloc \ {0} : owner[s] \in Slot \ {0}
  /\ \A s \in Stk \ Alloc : frame[s] = "none" /\ owner[s] = Null
  /\ \A s, t \in Alloc : owner[s] = owner[t] => s = t
  /\ frame[cpu] = "none"
  /\ \A s \in Stk \ {0} : frame[s] # "irq"
  /\ frame[0] \in {"none", "irq"}
  /\ \A s \in Alloc \ {cpu} :
       /\ frame[s] # "none" /\ esp[owner[s]] = s
       /\ \/ th[owner[s]] = "READY"
          \/ pc[cpu] = "y4" /\ owner[s] = next[cpu]

\* Where each stack's code can be: only the bootstrap stack creates, only
\* the others yield; a creation in progress holds an UNUSED slot.
PcOK ==
  /\ \A s \in Stk \ {0} : pc[s] \in {"body", "y2", "y3", "y4", "park"}
  /\ pc[0] \in {"body", "c2", "park"}
  /\ pc[0] = "c2" => slot[0] \in Slot \ {0} /\ th[slot[0]] = "UNUSED"

\* A slot is UNUSED exactly when no stack was allocated for it.
SlotsOK ==
  /\ th[0] # "UNUSED"
  /\ \A i \in Slot \ {0} : th[i] = "UNUSED" <=> \A s \in Alloc : owner[s] # i
  /\ \A i \in Slot : th[i] # "BLOCKED"

\* The states of the table while the CPU is at rest or inside sched_yield.
YieldOK ==
  LET me == owner[cpu] IN
  /\ pc[cpu] \in {"body", "c2", "park"} =>
       /\ current = me
       /\ \A i \in Slot : th[i] = "RUNNING" <=> i = me
  /\ pc[cpu] \in {"y2", "y3", "y4"} =>
       /\ prev[cpu] = me /\ current = next[cpu] /\ next[cpu] # me
       /\ esp[next[cpu]] \in Alloc \ {cpu} /\ owner[esp[next[cpu]]] = next[cpu]
       /\ \A i \in Slot \ {me, next[cpu]} : th[i] # "RUNNING"
       /\ pc[cpu] = "y2" => th[me] = "RUNNING" /\ th[next[cpu]] = "READY"
       /\ pc[cpu] = "y3" => th[me] = "READY" /\ th[next[cpu]] = "READY"
       /\ pc[cpu] = "y4" => th[me] = "READY" /\ th[next[cpu]] = "RUNNING"

SInv ==
  /\ TypeOK
  /\ FlagsOK
  /\ StacksOK
  /\ PcOK
  /\ SlotsOK
  /\ YieldOK

\* The configuration of the kernel: kthread_create is called by the
\* bootstrap thread only, and sched_yield by the created threads only.
KernelConfig == Creators \subseteq {0} /\ 0 \notin Yielders

-----------------------------------------------------------------------------
(* Lemmas on the operators the model is built from *)

LEMMA SlotNat == Slot \subseteq Nat /\ Stk \subseteq Nat /\ 0 \in Slot
BY SchedAssumption DEF Slot, Stk

\* Every non-empty set of naturals has a least member.
LEMMA NatHasMin ==
  ASSUME NEW S \in SUBSET Nat, S # {}
  PROVE  \E m \in S : \A j \in S : m <= j
<1>1. PICK x \in S : \A y \in S : ~(<<y, x>> \in OpToRel(<, Nat))
  BY NatLessThanWellFounded, WFMin
<1>2. ASSUME NEW y \in S PROVE x <= y
  <2>1. ~(y < x)  BY <1>1 DEF OpToRel
  <2>. QED  BY <2>1
<1>. QED  BY <1>2

\* rr_next returns a slot of the table, and a slot other than from only if
\* that slot is READY.
LEMMA RrNextReady ==
  ASSUME NEW t \in [Slot -> TStates], NEW from \in Slot
  PROVE  LET K == {k \in 1 .. NThreads : t[(from + k) % NThreads] = "READY"}
             r == IF K = {} THEN from
                  ELSE (from + CHOOSE k \in K : \A j \in K : k <= j) % NThreads
         IN  r \in Slot /\ (r # from => t[r] = "READY")
<1>. DEFINE K == {k \in 1 .. NThreads : t[(from + k) % NThreads] = "READY"}
<1>1. CASE K = {}
  BY <1>1
<1>2. CASE K # {}
  <2>0. K \in SUBSET Nat  OBVIOUS
  <2>1. \E m \in K : \A j \in K : m <= j
    BY <1>2, <2>0, NatHasMin
  <2>3. (CHOOSE k \in K : \A j \in K : k <= j) \in K
    BY <2>1
  <2>4. \A k2 \in K : (from + k2) % NThreads \in Slot
    BY SlotNat, SchedAssumption DEF Slot
  <2>. QED  BY <1>2, <2>3, <2>4
<1>. QED  BY <1>1, <1>2

\* rr_next on the scheduler's own table, for the current slot.
LEMMA RrNextOK ==
  ASSUME TypeOK
  PROVE  RrNext(current) \in Slot
         /\ (RrNext(current) # current => th[RrNext(current)] = "READY")
BY RrNextReady DEF TypeOK, RrNext

\* The second half of ctx_switch onto a suspended stack s other than the
\* running one.
LEMMA ResumeSuspended ==
  ASSUME NEW s \in Stk, NEW fr, NEW inf, NEW inisr, s # cpu, fr[s] # "none",
         Resume(s, fr, inf, inisr)
  PROVE  /\ cpu' = s
         /\ frame' = [fr EXCEPT ![s] = "none"]
         /\ intr' = (fr[s] = "irq" \/ inf)
         /\ isr' = (fr[s] # "irq" /\ inisr)
         /\ pc' = IF fr[s] = "irq" THEN pc ELSE [pc EXCEPT ![s] = "body"]
BY DEF Resume

-----------------------------------------------------------------------------
(* The inductive invariant *)

LEMMA InitSInv == Init => SInv
<1>. SUFFICES ASSUME Init PROVE SInv  OBVIOUS
<1>1. nstk = 0 /\ cpu = 0  BY DEF Init
<1>2. Alloc = {0}  BY <1>1 DEF Alloc
<1>3. TypeOK
  <2>1. intr \in BOOLEAN /\ isr \in BOOLEAN  BY Zenon DEF Init
  <2>2. th \in [Slot -> TStates] /\ esp \in [Slot -> Stk \cup {Null}]
    BY DEF Init, TStates
  <2>3. current \in Slot /\ cpu \in Stk \cup {Wild}
    BY SlotNat, SchedAssumption DEF Init, Stk
  <2>4. /\ frame \in [Stk -> {"none", "fresh", "yield", "irq"}]
        /\ pc \in [Stk -> {"body", "y2", "y3", "y4", "c2", "park"}]
    BY DEF Init
  <2>5. prev \in [Stk -> Slot] /\ next \in [Stk -> Slot] /\ slot \in [Stk -> Slot]
    BY SlotNat DEF Init
  <2>6. owner \in [Stk -> Slot \cup {Null}] /\ nstk \in 0 .. MaxStacks
    BY SlotNat, SchedAssumption DEF Init
  <2>. QED  BY <2>1, <2>2, <2>3, <2>4, <2>5, <2>6 DEF TypeOK
<1>4. FlagsOK  BY <1>1, Zenon DEF Init, FlagsOK
<1>5. StacksOK
  <2>1. 0 \in Stk /\ cpu \in Alloc  BY <1>1, <1>2, SchedAssumption DEF Stk
  <2>2. owner[0] = 0  BY <2>1 DEF Init
  <2>3. \A s \in Stk \ Alloc : frame[s] = "none" /\ owner[s] = Null
    BY <1>2 DEF Init
  <2>4. \A s \in Stk : frame[s] = "none"  BY DEF Init
  <2>. QED  BY <1>1, <1>2, <2>1, <2>2, <2>3, <2>4 DEF StacksOK
<1>6. PcOK
  <2>1. 0 \in Stk  BY SchedAssumption DEF Stk
  <2>. QED  BY <2>1 DEF Init, PcOK
<1>7. SlotsOK
  <2>1. 0 \in Stk /\ 0 \in Slot  BY SlotNat, SchedAssumption DEF Stk
  <2>2. owner[0] = 0  BY <2>1 DEF Init
  <2>3. th[0] = "RUNNING"  BY <2>1 DEF Init
  <2>4. \A i \in Slot \ {0} : th[i] = "UNUSED"  BY DEF Init
  <2>5. \A i \in Slot : th[i] # "BLOCKED"  BY DEF Init
  <2>. QED  BY <1>2, <2>2, <2>3, <2>4, <2>5 DEF SlotsOK
<1>8. YieldOK
  <2>1. 0 \in Stk /\ 0 \in Slot  BY SlotNat, SchedAssumption DEF Stk
  <2>2. owner[cpu] = 0 /\ pc[cpu] = "body" /\ current = 0
    BY <1>1, <2>1 DEF Init
  <2>3. \A i \in Slot : th[i] = "RUNNING" <=> i = 0  BY DEF Init
  <2>. QED  BY <2>2, <2>3 DEF YieldOK
<1>. QED  BY <1>3, <1>4, <1>5, <1>6, <1>7, <1>8 DEF SInv
\* The allocated stacks are stacks of the model.
LEMMA AllocStk == TypeOK => Alloc \subseteq Stk /\ Alloc \subseteq Nat
BY SchedAssumption DEF TypeOK, Alloc, Stk

\* A timer tick that finds nobody else READY changes nothing.
LEMMA TickStaySInv ==
  ASSUME SInv, TickStay
  PROVE  SInv'
BY DEF TickStay, vars, SInv, TypeOK, FlagsOK, StacksOK, PcOK, SlotsOK,
       YieldOK, Alloc

\* A thread whose fn returned parks on its own stack.
LEMMA ParkSInv ==
  ASSUME SInv, Park
  PROVE  SInv'
<1>1. cpu \in Stk /\ pc[cpu] = "body"
  BY AllocStk DEF SInv, StacksOK, Park
<1>2. pc' = [pc EXCEPT ![cpu] = "park"]  BY DEF Park
<1>3. UNCHANGED <<th, esp, current, cpu, frame, prev, next, slot, owner,
                  nstk, intr, isr>>
  BY DEF Park
<1>4. TypeOK'  BY <1>1, <1>2, <1>3 DEF SInv, TypeOK
<1>5. FlagsOK'  BY <1>3 DEF SInv, FlagsOK
<1>6. StacksOK'  BY <1>1, <1>2, <1>3 DEF SInv, StacksOK, Alloc
<1>7. PcOK'  BY <1>1, <1>2, <1>3 DEF SInv, PcOK
<1>8. SlotsOK'  BY <1>3 DEF SInv, SlotsOK, Alloc
<1>9. YieldOK'  BY <1>1, <1>2, <1>3 DEF SInv, YieldOK
<1>. QED  BY <1>4, <1>5, <1>6, <1>7, <1>8, <1>9 DEF SInv

\* The CPU runs on an allocated stack, which belongs to a thread of the table.
LEMMA RunningMe ==
  ASSUME SInv
  PROVE  cpu \in Alloc /\ cpu \in Stk /\ Running /\ owner[cpu] \in Slot
<1>1. cpu \in Alloc /\ cpu \in Stk  BY AllocStk DEF SInv, StacksOK
<1>2. Running  BY <1>1 DEF Running, Wild, Alloc
<1>3. owner[cpu] \in Slot  BY <1>1, SlotNat DEF SInv, StacksOK
<1>. QED  BY <1>1, <1>2, <1>3

\* Inside sched_yield the CPU is not on the bootstrap stack.
LEMMA YieldingNotBoot ==
  ASSUME SInv, pc[cpu] \in {"y2", "y3", "y4"}
  PROVE  cpu # 0
BY DEF SInv, PcOK

\* sched_yield line 88: the yielding thread becomes READY.
LEMMA YieldOutSInv ==
  ASSUME SInv, YieldOut
  PROVE  SInv'
<1>. DEFINE me == owner[cpu]
<1>1. cpu \in Alloc /\ cpu \in Stk /\ me \in Slot  BY RunningMe
<1>2. pc[cpu] = "y2" /\ cpu # 0  BY YieldingNotBoot DEF YieldOut
<1>3. prev[cpu] = me /\ th[me] = "RUNNING"  BY <1>2 DEF SInv, YieldOK
<1>4. th' = [th EXCEPT ![me] = "READY"]  BY <1>3 DEF YieldOut
<1>5. pc' = [pc EXCEPT ![cpu] = "y3"]  BY DEF YieldOut
<1>6. UNCHANGED <<esp, current, cpu, frame, prev, next, slot, owner, nstk,
                  intr, isr>>
  BY DEF YieldOut
<1>7. TypeOK'  BY <1>1, <1>4, <1>5, <1>6 DEF SInv, TypeOK, TStates
<1>8. FlagsOK'  BY <1>6 DEF SInv, FlagsOK
<1>9. StacksOK'
  <2>1. \A s \in Alloc \ {cpu} : th[owner[s]] = "READY"
    BY <1>2 DEF SInv, StacksOK
  <2>2. \A s \in Alloc \ {cpu} : th'[owner[s]] = "READY"
    BY <1>4, <2>1, AllocStk, SlotNat DEF SInv, TypeOK, StacksOK
  <2>. QED  BY <1>1, <1>5, <1>6, <2>2 DEF SInv, StacksOK, Alloc
<1>10. PcOK'
  <2>1. pc[0] = "c2" => me # slot[0]  BY <1>3 DEF SInv, PcOK
  <2>. QED  BY <1>2, <1>4, <1>5, <1>6, <2>1 DEF SInv, PcOK, TypeOK
<1>11. SlotsOK'  BY <1>1, <1>4, <1>6 DEF SInv, SlotsOK, TypeOK, Alloc
<1>12. YieldOK'
  <2>. DEFINE nx == next[cpu]
  <2>1. /\ current = nx /\ nx # me /\ nx \in Slot
        /\ esp[nx] \in Alloc \ {cpu} /\ owner[esp[nx]] = nx
        /\ \A i \in Slot \ {me, nx} : th[i] # "RUNNING"
        /\ th[nx] = "READY"
    BY <1>2 DEF SInv, YieldOK, TypeOK
  <2>2. /\ pc'[cpu'] = "y3" /\ owner'[cpu'] = me /\ prev'[cpu'] = me
        /\ next'[cpu'] = nx /\ current' = current /\ esp' = esp
    BY <1>1, <1>3, <1>5, <1>6 DEF SInv, TypeOK
  <2>3. /\ th'[me] = "READY" /\ th'[nx] = "READY"
        /\ \A i \in Slot \ {me, nx} : th'[i] = th[i]
    BY <1>1, <1>4, <2>1 DEF SInv, TypeOK
  <2>4. /\ prev'[cpu'] = me /\ current' = next'[cpu'] /\ next'[cpu'] # me
        /\ esp'[next'[cpu']] \in Alloc' \ {cpu'}
        /\ owner'[esp'[next'[cpu']]] = next'[cpu']
        /\ \A i \in Slot \ {me, next'[cpu']} : th'[i] # "RUNNING"
        /\ th'[me] = "READY" /\ th'[next'[cpu']] = "READY"
    BY <1>6, <2>1, <2>2, <2>3 DEF Alloc
  <2>. QED  BY <2>2, <2>4 DEF YieldOK
<1>. QED  BY <1>7, <1>8, <1>9, <1>10, <1>11, <1>12 DEF SInv

\* sched_yield line 89: the chosen thread becomes RUNNING.
LEMMA YieldInSInv ==
  ASSUME SInv, YieldIn
  PROVE  SInv'
<1>. DEFINE me == owner[cpu]
            nx == next[cpu]
<1>1. cpu \in Alloc /\ cpu \in Stk /\ me \in Slot  BY RunningMe
<1>2. pc[cpu] = "y3" /\ cpu # 0  BY YieldingNotBoot DEF YieldIn
<1>3. th[nx] = "READY" /\ nx \in Slot  BY <1>1, <1>2 DEF SInv, YieldOK, TypeOK
<1>4. th' = [th EXCEPT ![nx] = "RUNNING"]  BY DEF YieldIn
<1>5. pc' = [pc EXCEPT ![cpu] = "y4"]  BY DEF YieldIn
<1>6. UNCHANGED <<esp, current, cpu, frame, prev, next, slot, owner, nstk,
                  intr, isr>>
  BY DEF YieldIn
<1>7. TypeOK'  BY <1>1, <1>4, <1>5, <1>6 DEF SInv, TypeOK, TStates
<1>8. FlagsOK'  BY <1>6 DEF SInv, FlagsOK
<1>9. StacksOK'
  <2>1. \A s \in Alloc \ {cpu} : th[owner[s]] = "READY"
    BY <1>2 DEF SInv, StacksOK
  <2>2. \A s \in Alloc \ {cpu} :
          th'[owner[s]] = "READY" \/ (pc'[cpu] = "y4" /\ owner'[s] = next'[cpu])
    BY <1>1, <1>4, <1>5, <1>6, <2>1, AllocStk, SlotNat DEF SInv, TypeOK, StacksOK
  <2>. QED  BY <1>1, <1>5, <1>6, <2>2 DEF SInv, StacksOK, Alloc
<1>10. PcOK'
  <2>1. pc[0] = "c2" => nx # slot[0]  BY <1>3 DEF SInv, PcOK
  <2>. QED  BY <1>2, <1>4, <1>5, <1>6, <2>1 DEF SInv, PcOK, TypeOK
<1>11. SlotsOK'  BY <1>3, <1>4, <1>6 DEF SInv, SlotsOK, TypeOK, Alloc
<1>12. YieldOK'
  <2>1. /\ current = nx /\ nx # me /\ prev[cpu] = me
        /\ esp[nx] \in Alloc \ {cpu} /\ owner[esp[nx]] = nx
        /\ \A i \in Slot \ {me, nx} : th[i] # "RUNNING"
        /\ th[me] = "READY"
    BY <1>2 DEF SInv, YieldOK, TypeOK
  <2>2. /\ pc'[cpu'] = "y4" /\ owner'[cpu'] = me /\ prev'[cpu'] = me
        /\ next'[cpu'] = nx /\ current' = current /\ esp' = esp
    BY <1>1, <1>5, <1>6, <2>1 DEF SInv, TypeOK
  <2>3. /\ th'[me] = "READY" /\ th'[nx] = "RUNNING"
        /\ \A i \in Slot \ {me, nx} : th'[i] = th[i]
    BY <1>1, <1>3, <1>4, <2>1 DEF SInv, TypeOK
  <2>4. /\ prev'[cpu'] = me /\ current' = next'[cpu'] /\ next'[cpu'] # me
        /\ esp'[next'[cpu']] \in Alloc' \ {cpu'}
        /\ owner'[esp'[next'[cpu']]] = next'[cpu']
        /\ \A i \in Slot \ {me, next'[cpu']} : th'[i] # "RUNNING"
        /\ th'[me] = "READY" /\ th'[next'[cpu']] = "RUNNING"
    BY <1>6, <2>1, <2>2, <2>3 DEF Alloc
  <2>. QED  BY <2>2, <2>4 DEF YieldOK
<1>. QED  BY <1>7, <1>8, <1>9, <1>10, <1>11, <1>12 DEF SInv

\* Only the bootstrap stack belongs to the bootstrap thread.
LEMMA BootOwner ==
  ASSUME SInv, owner[cpu] = 0
  PROVE  cpu = 0
<1>1. cpu \in Alloc /\ 0 \in Alloc  BY RunningMe, AllocStk DEF SInv, TypeOK, Alloc
<1>. QED  BY <1>1 DEF SInv, StacksOK

\* kthread_create lines 52-54, run by the bootstrap thread: the slot it
\* picks is UNUSED.
LEMMA CreateScanSInv ==
  ASSUME KernelConfig, SInv, CreateScan
  PROVE  SInv'
<1>1. cpu = 0 /\ pc[0] = "body"
  <2>1. owner[cpu] = 0  BY DEF KernelConfig, CreateScan, Me
  <2>. QED  BY <2>1, BootOwner DEF CreateScan
<1>2. PICK i \in 1 .. NThreads - 1 :
        th[i] = "UNUSED" /\ slot' = [slot EXCEPT ![cpu] = i]
  BY DEF CreateScan
<1>3. i \in Slot \ {0}  BY SchedAssumption DEF Slot
<1>4. 0 \in Stk  BY SchedAssumption DEF Stk
<1>5. pc' = [pc EXCEPT ![0] = "c2"] /\ slot' = [slot EXCEPT ![0] = i]
  BY <1>1, <1>2 DEF CreateScan
<1>6. UNCHANGED <<th, esp, current, cpu, frame, prev, next, owner, nstk,
                  intr, isr>>
  BY DEF CreateScan
<1>7. TypeOK'  BY <1>3, <1>4, <1>5, <1>6 DEF SInv, TypeOK
<1>8. FlagsOK'  BY <1>6 DEF SInv, FlagsOK
<1>9. StacksOK'  BY <1>1, <1>4, <1>5, <1>6 DEF SInv, StacksOK, Alloc
<1>10. PcOK'
  <2>1. \A s \in Stk \ {0} : pc'[s] = pc[s]  BY <1>5 DEF SInv, TypeOK
  <2>2. pc'[0] = "c2" /\ slot'[0] = i /\ th' = th  BY <1>4, <1>5, <1>6 DEF SInv, TypeOK
  <2>. QED  BY <1>2, <1>3, <2>1, <2>2 DEF SInv, PcOK
<1>11. SlotsOK'  BY <1>6 DEF SInv, SlotsOK, Alloc
<1>12. YieldOK'  BY <1>1, <1>4, <1>5, <1>6 DEF SInv, YieldOK
<1>. QED  BY <1>7, <1>8, <1>9, <1>10, <1>11, <1>12 DEF SInv

\* kthread_create lines 54-60: the claimed slot gets the next stack, which
\* was not allocated before, and becomes READY.
LEMMA CreateClaimSInv ==
  ASSUME SInv, CreateClaim
  PROVE  SInv'
<1>. DEFINE k == slot[cpu]
            s == nstk + 1
<1>1. cpu = 0
  <2>1. cpu \in Stk /\ pc[cpu] = "c2"  BY RunningMe DEF CreateClaim
  <2>. QED  BY <2>1 DEF SInv, PcOK
<1>2. k \in Slot \ {0} /\ th[k] = "UNUSED"  BY <1>1 DEF CreateClaim, SInv, PcOK
<1>3. \A t \in Alloc : owner[t] # k  BY <1>2 DEF SInv, SlotsOK
<1>4. nstk \in Nat /\ s \in Stk /\ s \notin Alloc /\ s # 0
  BY SchedAssumption DEF CreateClaim, SInv, TypeOK, Stk, Alloc
<1>5. frame[s] = "none" /\ owner[s] = Null  BY <1>4 DEF SInv, StacksOK
<1>6. Alloc' = Alloc \cup {s}  BY <1>4 DEF CreateClaim, Alloc
<1>7. /\ nstk' = s
      /\ th' = [th EXCEPT ![k] = "READY"]
      /\ esp' = [esp EXCEPT ![k] = s]
      /\ frame' = [frame EXCEPT ![s] = "fresh"]
      /\ owner' = [owner EXCEPT ![s] = k]
      /\ pc' = [pc EXCEPT ![0] = "body"]
      /\ UNCHANGED <<current, cpu, prev, next, slot, intr, isr>>
  BY <1>1 DEF CreateClaim
<1>8. TypeOK'
  <2>1. nstk' \in 0 .. MaxStacks  BY <1>4, <1>7, SchedAssumption DEF CreateClaim
  <2>. QED  BY <1>2, <1>4, <1>7, <2>1, SlotNat DEF SInv, TypeOK, TStates, Stk
<1>9. FlagsOK'  BY <1>7 DEF SInv, FlagsOK
<1>10. StacksOK'
  <2>1. cpu' \in Alloc'  BY <1>6, <1>7 DEF SInv, StacksOK
  <2>2. owner'[0] = 0  BY <1>4, <1>7 DEF SInv, StacksOK
  <2>0. \A t \in Alloc : t # s => owner'[t] = owner[t]
    BY <1>7, AllocStk DEF SInv, TypeOK
  <2>9. owner'[s] = k  BY <1>4, <1>7 DEF SInv, TypeOK
  <2>3. \A t \in Alloc' \ {0} : owner'[t] \in Slot \ {0}
    BY <1>2, <1>6, <2>0, <2>9 DEF SInv, StacksOK
  <2>4. \A t \in Stk \ Alloc' : frame'[t] = "none" /\ owner'[t] = Null
    BY <1>6, <1>7 DEF SInv, StacksOK
  <2>5. \A t, u \in Alloc' : owner'[t] = owner'[u] => t = u
    BY <1>3, <1>4, <1>6, <2>0, <2>9 DEF SInv, StacksOK
  <2>6. /\ frame'[cpu'] = "none"
        /\ \A t \in Stk \ {0} : frame'[t] # "irq"
        /\ frame'[0] \in {"none", "irq"}
    BY <1>1, <1>4, <1>7 DEF SInv, StacksOK
  <2>7. ASSUME NEW t \in Alloc' \ {cpu'}
        PROVE  frame'[t] # "none" /\ esp'[owner'[t]] = t /\ th'[owner'[t]] = "READY"
    <3>1. CASE t = s
      BY <1>2, <1>4, <1>7, <3>1 DEF SInv, TypeOK
    <3>2. CASE t # s
      <4>1. t \in Alloc \ {cpu} /\ t \in Stk  BY <1>6, <1>7, <3>2, AllocStk DEF SInv
      <4>2. owner'[t] = owner[t] /\ owner[t] # k /\ frame'[t] = frame[t]
        BY <1>3, <1>7, <3>2, <4>1 DEF SInv, TypeOK
      <4>3. owner[t] \in Slot  BY <4>1, SlotNat DEF SInv, StacksOK
      <4>4. frame[t] # "none" /\ esp[owner[t]] = t /\ th[owner[t]] = "READY"
        BY <1>1, <1>2, <4>1 DEF SInv, StacksOK, CreateClaim
      <4>. QED  BY <1>7, <4>2, <4>3, <4>4 DEF SInv, TypeOK
    <3>. QED  BY <3>1, <3>2
  <2>. QED  BY <2>1, <2>2, <2>3, <2>4, <2>5, <2>6, <2>7 DEF StacksOK
<1>11. PcOK'
  <2>1. 0 \in Stk  BY SchedAssumption DEF Stk
  <2>2. pc'[0] = "body" /\ \A t \in Stk \ {0} : pc'[t] = pc[t]
    BY <1>7, <2>1 DEF SInv, TypeOK
  <2>. QED  BY <2>2 DEF SInv, PcOK
<1>12. SlotsOK'
  <2>1. th'[0] # "UNUSED"  BY <1>2, <1>7 DEF SInv, SlotsOK, TypeOK
  <2>2. ASSUME NEW i \in Slot \ {0}
        PROVE  th'[i] = "UNUSED" <=> \A t \in Alloc' : owner'[t] # i
    <3>1. CASE i = k
      BY <1>4, <1>6, <1>7, <3>1 DEF SInv, TypeOK
    <3>2. CASE i # k
      <4>1. th'[i] = th[i]  BY <1>7, <3>2 DEF SInv, TypeOK
      <4>2. (\A t \in Alloc' : owner'[t] # i) <=> (\A t \in Alloc : owner[t] # i)
        BY <1>4, <1>6, <1>7, <3>2, AllocStk DEF SInv, TypeOK
      <4>. QED  BY <4>1, <4>2 DEF SInv, SlotsOK
    <3>. QED  BY <3>1, <3>2
  <2>3. \A i \in Slot : th'[i] # "BLOCKED"  BY <1>7 DEF SInv, SlotsOK, TypeOK
  <2>. QED  BY <2>1, <2>2, <2>3 DEF SlotsOK
<1>13. YieldOK'
  <2>1. owner[0] = 0 /\ pc'[0] = "body" /\ owner'[0] = 0
    BY <1>4, <1>7, SchedAssumption DEF SInv, StacksOK, TypeOK, Stk
  <2>2. current = 0 /\ \A i \in Slot : th[i] = "RUNNING" <=> i = 0
    BY <1>1, <2>1 DEF SInv, YieldOK, CreateClaim
  <2>3. \A i \in Slot : th'[i] = "RUNNING" <=> i = 0
    BY <1>2, <1>7, <2>2 DEF SInv, TypeOK
  <2>. QED  BY <1>1, <1>7, <2>1, <2>2, <2>3 DEF YieldOK
<1>. QED  BY <1>8, <1>9, <1>10, <1>11, <1>12, <1>13 DEF SInv

\* A READY thread other than the running one is suspended on its own stack.
LEMMA ReadyStack ==
  ASSUME SInv, NEW i \in Slot, th[i] = "READY", i # owner[cpu]
  PROVE  esp[i] \in Alloc \ {cpu} /\ owner[esp[i]] = i /\ frame[esp[i]] # "none"
<1>1. PICK t \in Alloc : owner[t] = i
  <2>1. CASE i = 0
    <3>1. 0 \in Alloc  BY DEF SInv, TypeOK, Alloc
    <3>. QED  BY <2>1, <3>1 DEF SInv, StacksOK
  <2>2. CASE i # 0
    BY <2>2 DEF SInv, SlotsOK
  <2>. QED  BY <2>1, <2>2
<1>2. t # cpu  BY <1>1
<1>. QED  BY <1>1, <1>2 DEF SInv, StacksOK

\* sched_yield lines 85-87, called by a created thread: it picks a READY
\* thread, suspended on a stack of its own, and makes it current.
LEMMA YieldPickSInv ==
  ASSUME KernelConfig, SInv, YieldPick
  PROVE  SInv'
<1>. DEFINE me == owner[cpu]
            n == RrNext(current)
<1>1. cpu \in Alloc /\ cpu \in Stk /\ me \in Slot  BY RunningMe
<1>2. pc[cpu] = "body" /\ me # 0  BY DEF YieldPick, KernelConfig, Me
<1>3. cpu # 0  BY <1>2 DEF SInv, StacksOK
<1>4. current = me /\ \A i \in Slot : th[i] = "RUNNING" <=> i = me
  BY <1>2 DEF SInv, YieldOK
<1>5. n \in Slot /\ n # me /\ th[n] = "READY"
  BY <1>4, RrNextOK DEF YieldPick, SInv
<1>6. esp[n] \in Alloc \ {cpu} /\ owner[esp[n]] = n  BY <1>5, ReadyStack
<1>7. /\ prev' = [prev EXCEPT ![cpu] = me]
      /\ next' = [next EXCEPT ![cpu] = n]
      /\ current' = n
      /\ pc' = [pc EXCEPT ![cpu] = "y2"]
      /\ UNCHANGED <<th, esp, cpu, frame, slot, owner, nstk, intr, isr>>
  BY <1>4 DEF YieldPick
<1>8. TypeOK'  BY <1>1, <1>5, <1>7 DEF SInv, TypeOK
<1>9. FlagsOK'  BY <1>7 DEF SInv, FlagsOK
<1>10. StacksOK'  BY <1>1, <1>2, <1>7 DEF SInv, StacksOK, TypeOK, Alloc
<1>11. PcOK'  BY <1>3, <1>7 DEF SInv, PcOK, TypeOK
<1>12. SlotsOK'  BY <1>7 DEF SInv, SlotsOK, Alloc
<1>13. YieldOK'
  <2>1. pc'[cpu'] = "y2" /\ prev'[cpu'] = me /\ next'[cpu'] = n /\ owner'[cpu'] = me
    BY <1>1, <1>7 DEF SInv, TypeOK
  <2>2. /\ prev'[cpu'] = me /\ current' = next'[cpu'] /\ next'[cpu'] # me
        /\ esp'[next'[cpu']] \in Alloc' \ {cpu'}
        /\ owner'[esp'[next'[cpu']]] = next'[cpu']
        /\ \A i \in Slot \ {me, next'[cpu']} : th'[i] # "RUNNING"
        /\ th'[me] = "RUNNING" /\ th'[next'[cpu']] = "READY"
    <3>1. Alloc' = Alloc /\ esp' = esp /\ owner' = owner /\ th' = th /\ cpu' = cpu
      BY <1>7 DEF Alloc
    <3>2. th[me] = "RUNNING" /\ \A i \in Slot \ {me, n} : th[i] # "RUNNING"
      BY <1>1, <1>4
    <3>. QED  BY <1>5, <1>6, <1>7, <2>1, <3>1, <3>2
  <2>. QED  BY <2>1, <2>2 DEF YieldOK
<1>. QED  BY <1>8, <1>9, <1>10, <1>11, <1>12, <1>13 DEF SInv

\* The timer interrupts the bootstrap thread and switches to a READY one:
\* the handler's frame stays on stack 0 and the thread switched in runs
\* with IF clear and IRQ 0 in service.
LEMMA TickSwitchSInv ==
  ASSUME SInv, TickSwitch
  PROVE  SInv'
<1>. DEFINE n == RrNext(current)
            t == esp[n]
            fr == [frame EXCEPT ![cpu] = "irq"]
<1>1. cpu = 0  BY DEF TickSwitch, SInv, FlagsOK
<1>2. 0 \in Stk /\ 0 \in Alloc /\ owner[0] = 0
  BY SchedAssumption DEF SInv, TypeOK, Stk, Alloc, StacksOK
<1>3. pc[0] \in {"body", "c2", "park"}  BY DEF SInv, PcOK
<1>4. current = 0 /\ \A i \in Slot : th[i] = "RUNNING" <=> i = 0
  BY <1>1, <1>2, <1>3 DEF SInv, YieldOK
<1>5. n \in Slot /\ n # 0 /\ th[n] = "READY"
  BY <1>4, RrNextOK DEF TickSwitch, SInv
<1>6. t \in Alloc \ {0} /\ owner[t] = n /\ frame[t] # "none"
  BY <1>1, <1>2, <1>5, ReadyStack
<1>7. t \in Stk /\ frame[t] # "irq"  BY <1>6, AllocStk DEF SInv, StacksOK
<1>8. /\ cpu' = t
      /\ frame' = [fr EXCEPT ![t] = "none"]
      /\ intr' = FALSE /\ isr' = TRUE
      /\ pc' = [pc EXCEPT ![t] = "body"]
  <2>1. fr[t] = frame[t]  BY <1>1, <1>6
  <2>. QED  BY <1>1, <1>6, <1>7, <2>1, ResumeSuspended DEF TickSwitch
<1>9. /\ th' = [th EXCEPT ![0] = "READY", ![n] = "RUNNING"]
      /\ current' = n
      /\ esp' = [esp EXCEPT ![0] = 0]
      /\ UNCHANGED <<prev, next, slot, owner, nstk>>
  BY <1>1, <1>4 DEF TickSwitch
<1>10. TypeOK'  BY <1>2, <1>5, <1>7, <1>8, <1>9 DEF SInv, TypeOK, TStates
<1>11. FlagsOK'  BY <1>6, <1>8 DEF FlagsOK
<1>12. StacksOK'
  <2>1. /\ cpu' \in Alloc'
        /\ owner'[0] = 0
        /\ \A s \in Alloc' \ {0} : owner'[s] \in Slot \ {0}
        /\ \A s, u \in Alloc' : owner'[s] = owner'[u] => s = u
    BY <1>6, <1>8, <1>9 DEF SInv, StacksOK, Alloc
  <2>2. \A s \in Stk \ Alloc' : frame'[s] = "none" /\ owner'[s] = Null
    BY <1>1, <1>2, <1>6, <1>8, <1>9 DEF SInv, StacksOK, TypeOK, Alloc
  <2>3. /\ frame'[cpu'] = "none"
        /\ \A s \in Stk \ {0} : frame'[s] # "irq"
        /\ frame'[0] \in {"none", "irq"}
    BY <1>1, <1>2, <1>6, <1>7, <1>8 DEF SInv, StacksOK, TypeOK
  <2>4. ASSUME NEW s \in Alloc' \ {cpu'}
        PROVE  frame'[s] # "none" /\ esp'[owner'[s]] = s /\ th'[owner'[s]] = "READY"
    <3>1. CASE s = 0
      <4>1. frame'[0] = "irq"  BY <1>1, <1>2, <1>6, <1>8 DEF SInv, TypeOK
      <4>2. owner'[0] = 0 /\ esp'[0] = 0 /\ th'[0] = "READY"
        BY <1>2, <1>5, <1>9, SlotNat DEF SInv, TypeOK
      <4>. QED  BY <3>1, <4>1, <4>2
    <3>2. CASE s # 0
      <4>1. s \in Alloc \ {cpu} /\ s # t /\ s \in Stk
        BY <1>1, <1>8, <1>9, <3>2, AllocStk DEF SInv, Alloc
      <4>2. owner[s] \in Slot \ {0} /\ owner[s] # n
        BY <1>1, <1>6, <4>1 DEF SInv, StacksOK
      <4>3. frame[s] # "none" /\ esp[owner[s]] = s /\ th[owner[s]] = "READY"
        BY <1>1, <1>3, <4>1 DEF SInv, StacksOK
      <4>. QED  BY <1>1, <1>8, <1>9, <4>1, <4>2, <4>3 DEF SInv, TypeOK
    <3>. QED  BY <3>1, <3>2
  <2>. QED  BY <2>1, <2>2, <2>3, <2>4 DEF StacksOK
<1>13. PcOK'
  <2>1. pc[0] = "c2" => slot[0] # n /\ slot[0] # 0  BY <1>5 DEF SInv, PcOK, SlotsOK
  <2>. QED  BY <1>6, <1>7, <1>8, <1>9, <2>1 DEF SInv, PcOK, TypeOK
<1>14. SlotsOK'
  <2>1. th'[0] = "READY" /\ th'[n] = "RUNNING"
        /\ \A i \in Slot \ {0, n} : th'[i] = th[i]
    BY <1>5, <1>9, SlotNat DEF SInv, TypeOK
  <2>2. \A i \in Slot : th'[i] = "UNUSED" <=> th[i] = "UNUSED"
    BY <1>4, <1>5, <2>1, SlotNat
  <2>3. \A i \in Slot : th'[i] # "BLOCKED"  BY <2>1 DEF SInv, SlotsOK
  <2>4. Alloc' = Alloc /\ owner' = owner  BY <1>9 DEF Alloc
  <2>. QED  BY <2>1, <2>2, <2>3, <2>4 DEF SInv, SlotsOK
<1>15. YieldOK'
  <2>1. pc'[cpu'] = "body" /\ owner'[cpu'] = n  BY <1>6, <1>7, <1>8, <1>9 DEF SInv, TypeOK
  <2>2. \A i \in Slot : th'[i] = "RUNNING" <=> i = n
    BY <1>4, <1>5, <1>9 DEF SInv, TypeOK
  <2>. QED  BY <1>9, <2>1, <2>2 DEF YieldOK
<1>. QED  BY <1>10, <1>11, <1>12, <1>13, <1>14, <1>15 DEF SInv

\* sched_yield line 90: ctx_switch saves the yielding stack into the
\* yielding thread's esp and resumes the chosen thread's stack: the
\* bootstrap stack finishes its timer handler and iret sets IF again;
\* another stack keeps the flags.
LEMMA YieldSwitchSInv ==
  ASSUME SInv, YieldSwitch
  PROVE  SInv'
<1>. DEFINE me == owner[cpu]
            nx == next[cpu]
            t == esp[nx]
            fr == [frame EXCEPT ![cpu] = "yield"]
<1>1. cpu \in Alloc /\ cpu \in Stk /\ me \in Slot  BY RunningMe
<1>2. pc[cpu] = "y4" /\ cpu # 0  BY YieldingNotBoot DEF YieldSwitch
<1>3. /\ prev[cpu] = me /\ current = nx /\ nx # me /\ nx \in Slot
      /\ t \in Alloc \ {cpu} /\ owner[t] = nx
      /\ \A i \in Slot \ {me, nx} : th[i] # "RUNNING"
      /\ th[me] = "READY" /\ th[nx] = "RUNNING"
  BY <1>2 DEF SInv, YieldOK, TypeOK
<1>4. ~intr /\ isr  BY <1>2 DEF SInv, FlagsOK
<1>5. t \in Stk /\ frame[t] # "none" /\ fr[t] = frame[t]
  BY <1>3, AllocStk DEF SInv, StacksOK
<1>6. /\ cpu' = t
      /\ frame' = [fr EXCEPT ![t] = "none"]
      /\ intr' = (frame[t] = "irq")
      /\ isr' = (frame[t] # "irq")
      /\ pc' = IF frame[t] = "irq" THEN pc ELSE [pc EXCEPT ![t] = "body"]
  <2>1. Resume(t, fr, intr, isr)  BY DEF YieldSwitch
  <2>2. /\ cpu' = t
        /\ frame' = [fr EXCEPT ![t] = "none"]
        /\ intr' = (fr[t] = "irq" \/ intr)
        /\ isr' = (fr[t] # "irq" /\ isr)
        /\ pc' = IF fr[t] = "irq" THEN pc ELSE [pc EXCEPT ![t] = "body"]
    BY <1>3, <1>5, <2>1, ResumeSuspended
  <2>. QED  BY <1>4, <1>5, <2>2
<1>7. /\ esp' = [esp EXCEPT ![me] = cpu]
      /\ UNCHANGED <<th, current, prev, next, slot, owner, nstk>>
  BY <1>3 DEF YieldSwitch
<1>8. frame[t] = "irq" <=> t = 0  BY <1>5 DEF SInv, StacksOK
<1>9. TypeOK'
  <2>1. intr' \in BOOLEAN /\ isr' \in BOOLEAN  BY <1>6
  <2>. QED  BY <1>1, <1>5, <1>6, <1>7, <2>1 DEF SInv, TypeOK
<1>10. FlagsOK'  BY <1>6, <1>8 DEF FlagsOK
<1>11. StacksOK'
  <2>1. /\ cpu' \in Alloc'
        /\ owner'[0] = 0
        /\ \A s \in Alloc' \ {0} : owner'[s] \in Slot \ {0}
        /\ \A s, u \in Alloc' : owner'[s] = owner'[u] => s = u
    BY <1>3, <1>6, <1>7 DEF SInv, StacksOK, Alloc
  <2>2. \A s \in Stk \ Alloc' : frame'[s] = "none" /\ owner'[s] = Null
    <3>1. Alloc' = Alloc  BY <1>7 DEF Alloc
    <3>2. \A s \in Stk \ Alloc : frame'[s] = frame[s]
      BY <1>1, <1>3, <1>5, <1>6 DEF SInv, TypeOK
    <3>. QED  BY <1>7, <3>1, <3>2 DEF SInv, StacksOK
  <2>3. /\ frame'[cpu'] = "none"
        /\ \A s \in Stk \ {0} : frame'[s] # "irq"
        /\ frame'[0] \in {"none", "irq"}
    <3>1. 0 \in Stk  BY SchedAssumption DEF Stk
    <3>2. \A s \in Stk : frame'[s] = IF s = t THEN "none"
                                      ELSE IF s = cpu THEN "yield" ELSE frame[s]
      BY <1>1, <1>5, <1>6 DEF SInv, TypeOK
    <3>3. frame'[cpu'] = "none"  BY <1>5, <1>6, <3>2
    <3>4. \A s \in Stk \ {0} : frame[s] # "irq"  BY DEF SInv, StacksOK
    <3>5. \A s \in Stk \ {0} : frame'[s] # "irq"  BY <3>2, <3>4
    <3>6. frame[0] \in {"none", "irq"}  BY DEF SInv, StacksOK
    <3>7. frame'[0] \in {"none", "irq"}  BY <1>2, <3>1, <3>2, <3>6
    <3>. QED  BY <3>3, <3>5, <3>7
  <2>4. ASSUME NEW s \in Alloc' \ {cpu'}
        PROVE  frame'[s] # "none" /\ esp'[owner'[s]] = s /\ th'[owner'[s]] = "READY"
    <3>1. CASE s = cpu
      BY <1>1, <1>3, <1>6, <1>7, <3>1 DEF SInv, TypeOK
    <3>2. CASE s # cpu
      <4>1. s \in Alloc \ {cpu} /\ s # t /\ s \in Stk
        BY <1>6, <1>7, <3>2, AllocStk DEF SInv, Alloc
      <4>2. owner[s] \in Slot /\ owner[s] # me /\ owner[s] # nx
        BY <1>1, <1>3, <4>1, SlotNat DEF SInv, StacksOK
      <4>3. frame[s] # "none" /\ esp[owner[s]] = s /\ th[owner[s]] = "READY"
        BY <4>1, <4>2 DEF SInv, StacksOK
      <4>. QED  BY <1>6, <1>7, <3>2, <4>1, <4>2, <4>3 DEF SInv, TypeOK
    <3>. QED  BY <3>1, <3>2
  <2>. QED  BY <2>1, <2>2, <2>3, <2>4 DEF StacksOK
<1>12. PcOK'
  <2>1. CASE t = 0
    BY <1>6, <1>7, <1>8, <2>1 DEF SInv, PcOK
  <2>2. CASE t # 0
    BY <1>2, <1>5, <1>6, <1>7, <1>8, <2>2 DEF SInv, PcOK, TypeOK
  <2>. QED  BY <2>1, <2>2
<1>13. SlotsOK'  BY <1>7 DEF SInv, SlotsOK, Alloc
<1>14. YieldOK'
  <2>1. pc'[cpu'] \in {"body", "c2", "park"}
    <3>1. CASE t = 0  BY <1>6, <1>8, <3>1 DEF SInv, PcOK
    <3>2. CASE t # 0  BY <1>5, <1>6, <1>8, <3>2 DEF SInv, TypeOK
    <3>. QED  BY <3>1, <3>2
  <2>2. owner'[cpu'] = nx /\ current' = nx  BY <1>3, <1>6, <1>7
  <2>3. \A i \in Slot : th'[i] = "RUNNING" <=> i = nx  BY <1>3, <1>7
  <2>. QED  BY <2>1, <2>2, <2>3 DEF YieldOK
<1>. QED  BY <1>9, <1>10, <1>11, <1>12, <1>13, <1>14 DEF SInv

\* Every step of the scheduler, and every stutter, keeps SInv.
LEMMA NextSInv ==
  ASSUME KernelConfig, SInv, [Next]_vars
  PROVE  SInv'
<1>1. CASE TickSwitch  BY <1>1, TickSwitchSInv
<1>2. CASE TickStay  BY <1>2, TickStaySInv
<1>3. CASE YieldPick  BY <1>3, YieldPickSInv
<1>4. CASE YieldOut  BY <1>4, YieldOutSInv
<1>5. CASE YieldIn  BY <1>5, YieldInSInv
<1>6. CASE YieldSwitch  BY <1>6, YieldSwitchSInv
<1>7. CASE CreateScan  BY <1>7, CreateScanSInv
<1>8. CASE CreateClaim  BY <1>8, CreateClaimSInv
<1>9. CASE Park  BY <1>9, ParkSInv
<1>10. CASE UNCHANGED vars
  <2>1. TypeOK'  BY <1>10 DEF vars, SInv, TypeOK
  <2>2. FlagsOK'  BY <1>10 DEF vars, SInv, FlagsOK
  <2>3. Alloc' = Alloc  BY <1>10 DEF vars, Alloc
  <2>4. StacksOK'  BY <1>10, <2>3 DEF vars, SInv, StacksOK
  <2>5. PcOK'  BY <1>10 DEF vars, SInv, PcOK
  <2>6. SlotsOK'  BY <1>10, <2>3 DEF vars, SInv, SlotsOK
  <2>7. YieldOK'  BY <1>10, <2>3 DEF vars, SInv, YieldOK
  <2>. QED  BY <2>1, <2>2, <2>4, <2>5, <2>6, <2>7 DEF SInv
<1>. QED  BY <1>1, <1>2, <1>3, <1>4, <1>5, <1>6, <1>7, <1>8, <1>9, <1>10
          DEF Next, Tick, Yield

\* In the kernel's configuration SInv holds in every reachable state.
LEMMA SInvHolds ==
  ASSUME KernelConfig
  PROVE  Spec => []SInv
<1>1. Init => SInv  BY InitSInv
<1>2. SInv /\ [Next]_vars => SInv'  BY NextSInv
<1>. QED  BY <1>1, <1>2, PTL DEF Spec

-----------------------------------------------------------------------------
(* The theorems *)

\* kthread_create and the scheduler only ever write well-typed values: in
\* particular th[].esp always points into a stack or is zero.
THEOREM TypeCorrect ==
  ASSUME KernelConfig
  PROVE  Spec => []TypeOK
<1>1. SInv => TypeOK  BY DEF SInv
<1>. QED  BY <1>1, SInvHolds, PTL

\* Every ctx_switch of sched_tick and sched_yield resumes a saved context,
\* and outside sched_yield the running thread is current, the only
\* RUNNING one, and every READY thread is suspended on its own stack.
THEOREM ContextsIntactHolds ==
  ASSUME KernelConfig
  PROVE  Spec => []ContextsIntact
<1>1. SInv => ContextsIntact
  <2>. SUFFICES ASSUME SInv PROVE ContextsIntact  OBVIOUS
  <2>1. Running  BY RunningMe
  <2>2. ASSUME AtRest
        PROVE  /\ owner[cpu] = current
               /\ \A i \in Slot : th[i] = "RUNNING" <=> i = current
               /\ \A i \in Slot : th[i] = "READY" =>
                      esp[i] \in Stk /\ frame[esp[i]] # "none" /\ owner[esp[i]] = i
    <3>1. owner[cpu] = current /\ \A i \in Slot : th[i] = "RUNNING" <=> i = current
      BY <2>2 DEF AtRest, SInv, YieldOK
    <3>2. ASSUME NEW i \in Slot, th[i] = "READY"
          PROVE  esp[i] \in Stk /\ frame[esp[i]] # "none" /\ owner[esp[i]] = i
      <4>1. i # owner[cpu]  BY <3>1, <3>2
      <4>. QED  BY <3>2, <4>1, ReadyStack, AllocStk DEF SInv
    <3>. QED  BY <3>1, <3>2
  <2>. QED  BY <2>1, <2>2 DEF ContextsIntact
<1>. QED  BY <1>1, SInvHolds, PTL

\* No stack kthread_create allocated is lost: each is the CPU's or the one
\* its thread's th[].esp points into.
THEOREM NoThreadLostHolds ==
  ASSUME KernelConfig
  PROVE  Spec => []NoThreadLost
<1>1. SInv => NoThreadLost
  <2>. SUFFICES ASSUME SInv, NEW s \in 1 .. nstk, s # cpu
                PROVE  esp[owner[s]] = s
    BY DEF NoThreadLost
  <2>1. s \in Alloc \ {cpu}  BY DEF Alloc
  <2>. QED  BY <2>1 DEF SInv, StacksOK
<1>. QED  BY <1>1, SInvHolds, PTL
=============================================================================
