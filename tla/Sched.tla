-------------------------------- MODULE Sched --------------------------------
(***************************************************************************)
(* The kernel-thread scheduler of sched/sched.c, driven by the timer IRQ  *)
(* of core/irq.c.                                                          *)
(*                                                                         *)
(* There is one CPU.  A kernel thread runs on a stack of its own; cpu is  *)
(* the stack the CPU executes on.  ctx_switch(&old, new) stores the       *)
(* outgoing stack pointer into *old and continues on the stack new       *)
(* points at, so th[i].esp is abstracted to the stack it points into, and *)
(* a suspended stack to how it resumes (frame): inside the timer handler  *)
(* ("irq"), inside an explicit sched_yield ("yield"), or at               *)
(* kthread_trampoline ("fresh").  ctx_switch keeps EFLAGS: the IF flag    *)
(* (intr) and the PIC's in-service bit for IRQ 0 (isr: the EOI is still  *)
(* owed) carry over into the thread that is switched in.  A stack that   *)
(* is not suspended cannot be resumed: a switch to it is a jump through a *)
(* stale pointer (cpu = Wild).                                            *)
(*                                                                         *)
(* The code of a thread is abstracted to what it does to the scheduler:   *)
(* the threads whose fn calls sched_yield, creates threads, or returns    *)
(* are the constants Yielders, Creators and Returners.                    *)
(***************************************************************************)
EXTENDS Integers, FiniteSets

CONSTANTS
  NThreads,   \* MAX_THREADS
  MaxStacks,  \* model bound: how many 8 KiB thread stacks the model tracks
  Yielders,   \* the threads whose fn calls sched_yield
  Creators,   \* the threads whose fn calls kthread_create
  Returners   \* the threads whose fn returns

ASSUME SchedAssumption ==
  /\ NThreads \in Nat \ {0}
  /\ MaxStacks \in Nat
  /\ Yielders \cup Creators \cup Returners \subseteq 0 .. NThreads - 1

VARIABLES
  th,       \* th[i].state
  esp,      \* th[i].esp, as the stack it points into (Null: zeroed)
  current,  \* current
  cpu,      \* the stack the CPU executes on (Wild: a stale esp was loaded)
  frame,    \* how each suspended stack resumes ("none": not suspended)
  pc,       \* where the code running on each stack is
  prev,     \* the locals prev and next of sched_yield, per stack
  next,
  slot,     \* the local i of kthread_create, per stack
  owner,    \* the thread each stack was allocated for
  nstk,     \* how many thread stacks kthread_create has allocated
  intr,     \* EFLAGS.IF
  isr       \* IRQ 0 is in service at the PIC: its EOI is still owed

vars == <<th, esp, current, cpu, frame, pc, prev, next, slot, owner, nstk,
          intr, isr>>

Slot == 0 .. NThreads - 1
Stk == 0 .. MaxStacks      \* stack 0 is the bootstrap thread's
Null == -1
Wild == -2
TStates == {"UNUSED", "READY", "RUNNING", "BLOCKED"}

\* Variant: the slot index is taken modulo MAX_THREADS - 1.
Mut_RrNext(from) ==
  LET K == {k \in 1 .. NThreads : th[(from + k) % (NThreads - 1)] = "READY"}
  IN  IF K = {} THEN from
      ELSE (from + CHOOSE k \in K : \A j \in K : k <= j) % (NThreads - 1)

\* rr_next: the first READY slot after from, in cyclic order, else from.
RrNext(from) ==
  LET K == {k \in 1 .. NThreads : th[(from + k) % NThreads] = "READY"}
  IN  IF K = {} THEN from
      ELSE (from + CHOOSE k \in K : \A j \in K : k <= j) % NThreads

\* Variant: the handler's iret does not restore IF.
Mut_Resume(s, fr, in, inisr) ==
  IF s \notin Stk \/ s = cpu \/ fr[s] = "none"
  THEN /\ cpu' = Wild /\ frame' = fr /\ intr' = in /\ isr' = inisr
       /\ UNCHANGED pc
  ELSE /\ cpu' = s
       /\ frame' = [fr EXCEPT ![s] = "none"]
       /\ intr' = in
       /\ isr' = (fr[s] # "irq" /\ inisr)
       /\ pc' = IF fr[s] = "irq" THEN pc ELSE [pc EXCEPT ![s] = "body"]

\* The second half of ctx_switch: continue on stack s with the flags
\* in, inisr.  A frame left by the timer handler finishes the handler
\* (usb_poll, process_schedule, EOI, iret restores IF); a frame left by
\* sched_yield returns from it; a fresh stack enters the thread's fn.
Resume(s, fr, in, inisr) ==
  IF s \notin Stk \/ s = cpu \/ fr[s] = "none"
  THEN /\ cpu' = Wild /\ frame' = fr /\ intr' = in /\ isr' = inisr
       /\ UNCHANGED pc
  ELSE /\ cpu' = s
       /\ frame' = [fr EXCEPT ![s] = "none"]
       /\ intr' = (fr[s] = "irq" \/ in)
       /\ isr' = (fr[s] # "irq" /\ inisr)
       /\ pc' = IF fr[s] = "irq" THEN pc ELSE [pc EXCEPT ![s] = "body"]

Init ==
  /\ th = [i \in Slot |-> IF i = 0 THEN "RUNNING" ELSE "UNUSED"]
  /\ esp = [i \in Slot |-> Null]
  /\ current = 0
  /\ cpu = 0
  /\ frame = [s \in Stk |-> "none"]
  /\ pc = [s \in Stk |-> "body"]
  /\ prev = [s \in Stk |-> 0]
  /\ next = [s \in Stk |-> 0]
  /\ slot = [s \in Stk |-> 0]
  /\ owner = [s \in Stk |-> IF s = 0 THEN 0 ELSE Null]
  /\ nstk = 0
  /\ intr = TRUE
  /\ isr = FALSE

Running == cpu # Wild
Me == owner[cpu]

\* Timer IRQ 0 (timer_handler -> sched_tick -> sched_yield) when it
\* switches: the handler's frame is left on the outgoing stack.
TickSwitch ==
  /\ Running /\ intr /\ ~isr
  /\ RrNext(current) # current
  /\ LET n == RrNext(current) IN
     /\ th' = [th EXCEPT ![current] = "READY", ![n] = "RUNNING"]
     /\ current' = n
     /\ esp' = [esp EXCEPT ![current] = cpu]
     /\ Resume(esp[n], [frame EXCEPT ![cpu] = "irq"], FALSE, TRUE)
  /\ UNCHANGED <<prev, next, slot, owner, nstk>>

\* Timer IRQ 0 when rr_next finds no other READY thread: the handler
\* runs to its EOI and iret without a switch.
TickStay ==
  /\ Running /\ intr /\ ~isr
  /\ RrNext(current) = current
  /\ UNCHANGED vars

\* sched_yield lines 85-87, called by the thread's own code.
YieldPick ==
  /\ Running /\ pc[cpu] = "body" /\ Me \in Yielders
  /\ RrNext(current) # current
  /\ prev' = [prev EXCEPT ![cpu] = current]
  /\ next' = [next EXCEPT ![cpu] = RrNext(current)]
  /\ current' = RrNext(current)
  /\ pc' = [pc EXCEPT ![cpu] = "y2"]
  /\ UNCHANGED <<th, esp, cpu, frame, slot, owner, nstk, intr, isr>>

\* sched_yield line 88.
YieldOut ==
  /\ Running /\ pc[cpu] = "y2"
  /\ th' = [th EXCEPT ![prev[cpu]] = "READY"]
  /\ pc' = [pc EXCEPT ![cpu] = "y3"]
  /\ UNCHANGED <<esp, current, cpu, frame, prev, next, slot, owner, nstk,
                 intr, isr>>

\* sched_yield line 89.
YieldIn ==
  /\ Running /\ pc[cpu] = "y3"
  /\ th' = [th EXCEPT ![next[cpu]] = "RUNNING"]
  /\ pc' = [pc EXCEPT ![cpu] = "y4"]
  /\ UNCHANGED <<esp, current, cpu, frame, prev, next, slot, owner, nstk,
                 intr, isr>>

\* Variant: ctx_switch stores the outgoing esp into th[next].esp.
Mut_YieldSwitch ==
  /\ Running /\ pc[cpu] = "y4"
  /\ esp' = [esp EXCEPT ![next[cpu]] = cpu]
  /\ Resume(esp[next[cpu]], [frame EXCEPT ![cpu] = "yield"], intr, isr)
  /\ UNCHANGED <<th, current, prev, next, slot, owner, nstk>>

\* sched_yield line 90: ctx_switch(&th[prev].esp, th[next].esp).
YieldSwitch ==
  /\ Running /\ pc[cpu] = "y4"
  /\ esp' = [esp EXCEPT ![prev[cpu]] = cpu]
  /\ Resume(esp[next[cpu]], [frame EXCEPT ![cpu] = "yield"], intr, isr)
  /\ UNCHANGED <<th, current, prev, next, slot, owner, nstk>>

Yield == YieldPick \/ YieldOut \/ YieldIn \/ YieldSwitch

\* Variant: the loop runs to i <= MAX_THREADS and reads th[MAX_THREADS],
\* past the array, whose state may read as T_UNUSED.
Mut_CreateScanPast ==
  /\ Running /\ pc[cpu] = "body" /\ Me \in Creators
  /\ \E i \in 1 .. NThreads :
       /\ i < NThreads => th[i] = "UNUSED"
       /\ \A j \in 1 .. i - 1 : th[j] # "UNUSED"
       /\ slot' = [slot EXCEPT ![cpu] = i]
  /\ pc' = [pc EXCEPT ![cpu] = "c2"]
  /\ UNCHANGED <<th, esp, current, cpu, frame, prev, next, owner, nstk,
                 intr, isr>>

\* Variant: the scan takes a slot without testing that it is UNUSED.
Mut_CreateScan ==
  /\ Running /\ pc[cpu] = "body" /\ Me \in Creators
  /\ \E i \in 1 .. NThreads - 1 :
       /\ \A j \in 1 .. i - 1 : th[j] # "UNUSED"
       /\ slot' = [slot EXCEPT ![cpu] = i]
  /\ pc' = [pc EXCEPT ![cpu] = "c2"]
  /\ UNCHANGED <<th, esp, current, cpu, frame, prev, next, owner, nstk,
                 intr, isr>>

\* kthread_create lines 52-54: the first UNUSED slot is chosen; the
\* stack is allocated (and 8 KiB zeroed) before the slot is claimed.
CreateScan ==
  /\ Running /\ pc[cpu] = "body" /\ Me \in Creators
  /\ \E i \in 1 .. NThreads - 1 :
       /\ th[i] = "UNUSED"
       /\ \A j \in 1 .. i - 1 : th[j] # "UNUSED"
       /\ slot' = [slot EXCEPT ![cpu] = i]
  /\ pc' = [pc EXCEPT ![cpu] = "c2"]
  /\ UNCHANGED <<th, esp, current, cpu, frame, prev, next, owner, nstk,
                 intr, isr>>

\* kthread_create lines 54-60 with new_stack_with_trampoline: kmalloc of
\* the 8 KiB stack never returns NULL (heap.c grows the heap whatever
\* pmm_alloc_frame returns), so the early return of line 55 is dead; the
\* slot becomes READY with esp into its fresh stack.  MaxStacks bounds the
\* stacks the model tracks.
CreateClaim ==
  /\ Running /\ pc[cpu] = "c2"
  /\ nstk < MaxStacks
  /\ LET s == nstk + 1 IN
     /\ nstk' = s
     /\ th' = [th EXCEPT ![slot[cpu]] = "READY"]
     /\ esp' = [esp EXCEPT ![slot[cpu]] = s]
     /\ frame' = [frame EXCEPT ![s] = "fresh"]
     /\ owner' = [owner EXCEPT ![s] = slot[cpu]]
  /\ pc' = [pc EXCEPT ![cpu] = "body"]
  /\ UNCHANGED <<current, cpu, prev, next, slot, intr, isr>>

\* kthread_trampoline lines 104-106: fn returned; the thread parks in
\* a hlt loop (interrupts still wake it and can switch away from it).
Park ==
  /\ Running /\ pc[cpu] = "body" /\ Me \in Returners
  /\ pc' = [pc EXCEPT ![cpu] = "park"]
  /\ UNCHANGED <<th, esp, current, cpu, frame, prev, next, slot, owner,
                 nstk, intr, isr>>

Tick == TickSwitch \/ TickStay

Next == Tick \/ Yield \/ CreateScan \/ CreateClaim \/ Park

\* The PIT raises IRQ 0 periodically, taken whenever IF is set and no
\* IRQ 0 is in service; the kernel code of sched_yield, once entered,
\* runs on; a thread of Yielders calls sched_yield again and again.
Fairness ==
  /\ WF_vars(TickSwitch)
  /\ WF_vars(YieldOut \/ YieldIn \/ YieldSwitch)
  /\ WF_vars(YieldPick)

Spec == Init /\ [][Next]_vars /\ Fairness

(* The type of every variable: in particular kthread_create only ever   *)
(* writes a slot of th[], and th[].esp points into an allocated stack.  *)
TypeOK ==
  /\ th \in [Slot -> TStates]
  /\ esp \in [Slot -> Stk \cup {Null}]
  /\ current \in Slot
  /\ cpu \in Stk \cup {Wild}
  /\ frame \in [Stk -> {"none", "fresh", "yield", "irq"}]
  /\ pc \in [Stk -> {"body", "y2", "y3", "y4", "c2", "park"}]
  /\ prev \in [Stk -> Slot] /\ next \in [Stk -> Slot] /\ slot \in [Stk -> Slot]
  /\ owner \in [Stk -> Slot \cup {Null}]
  /\ nstk \in 0 .. MaxStacks
  /\ intr \in BOOLEAN /\ isr \in BOOLEAN

\* The CPU is outside sched_yield's critical lines 85-90.
AtRest == Running /\ pc[cpu] \in {"body", "c2", "park"}

(* Every context switch resumes a saved context (ctx_switch never loads  *)
(* a stale th[].esp), and whenever the CPU is outside sched_yield the     *)
(* thread it runs is current, current alone is RUNNING, and every READY  *)
(* thread's esp points into its own suspended stack.  Broken by a        *)
(* sched_yield interrupted by the timer between lines 87 and 90.          *)
ContextsIntact ==
  /\ Running
  /\ AtRest =>
       /\ owner[cpu] = current
       /\ \A i \in Slot : th[i] = "RUNNING" <=> i = current
       /\ \A i \in Slot : th[i] = "READY" =>
              esp[i] \in Stk /\ frame[esp[i]] # "none" /\ owner[esp[i]] = i

(* No thread kthread_create made is lost: every stack kmalloc handed out  *)
(* is the one the CPU runs on or the one its thread's esp points into.   *)
(* Broken when two creators both claim the slot they found UNUSED.        *)
NoThreadLost ==
  \A s \in 1 .. nstk : s = cpu \/ esp[owner[s]] = s

(* Every thread that is READY eventually runs: the tick-driven round     *)
(* robin of sched_tick keeps handing out the CPU.                         *)
ReadyEventuallyRuns ==
  \A i \in Slot : th[i] = "READY" ~> th[i] = "RUNNING"

\* Inside sched_yield the switch has not taken effect yet: it does at the
\* ctx_switch of line 90.
MidYield == Running /\ pc[cpu] \in {"y2", "y3", "y4"}
absCurrent == IF MidYield THEN prev[cpu] ELSE current
absTh == IF MidYield
         THEN [th EXCEPT ![prev[cpu]] = "RUNNING", ![next[cpu]] = "READY"]
         ELSE th

KT == INSTANCE KThreads WITH th <- absTh, current <- absCurrent

(* The scheduler implements the round-robin thread pool of the spec:     *)
(* creation, the choice of the next thread, and the promise that the     *)
(* timer keeps switching.                                                 *)
KThreadsRefined == KT!Spec
=============================================================================
