----------------------------- MODULE ProcProofs -----------------------------
(***************************************************************************)
(* Proofs about the process core (module Proc) for every table size       *)
(* MAX_PROCESSES and every pid bound.                                      *)
(*                                                                         *)
(* run_user_and_wait runs with IF set: process_create, the context stores, *)
(* the state store and process_set_current are separate steps, and a timer *)
(* tick between them saves the shell's frame into the current process and *)
(* may resume any READY slot, the new one with its zeroed context included *)
(* (the CPU then ends in isr_fault_handler).  None of the claims below is   *)
(* inductive by itself; they all rest on one invariant, PInv, whose parts   *)
(* are:                                                                    *)
(*   IInv: the types, every live pid and current_pid and run_pid are below *)
(*     next_pid, and live pids are distinct.  process_set_current copies    *)
(*     run_pid into current_pid and a switch copies the pid of a READY      *)
(*     slot, so TypeOK needs the pids below next_pid, and run_pid to be a   *)
(*     live pid while the shell is inside run_user_and_wait (RunOK);        *)
(*   CallerIsCurrent;                                                       *)
(*   ShInv: where the shell thread is (ShellAt: the CPU's location or the   *)
(*     frame a READY process holds), and what that says of s_waiting,       *)
(*     run_pid and current_pid.                                             *)
(***************************************************************************)
EXTENDS Proc, WellFoundedInduction, FiniteSetTheorems, TLAPS

\* Every live slot holds a pid process_create handed out.
LivePidsOK == \A s \in Slot : Live(s) => pid[s] \in 1 .. next_pid - 1

\* current_pid and run_pid were handed out before next_pid.
PidsBelow == current_pid < next_pid /\ run_pid < next_pid

IInv == TypeOK /\ LivePidsOK /\ PidsBelow /\ PidsUnique

\* The shell thread is at a location of L: the CPU runs it there, or a
\* READY process holds its frame saved there.
ShellAt(L) == pc \in L \/ \E s \in ShellFrames : ctx[s] \in L

PreArmed == {"idle", "new", "setup", "marked", "created"}
InRun == {"new", "setup", "marked", "created", "armed"}

\* Inside run_user_and_wait: no resume point is armed before
\* proc_begin_wait; the new process exists until the exit jump destroys
\* it; after its state store it is RUNNING, and it is not current before
\* process_set_current.
RunOK ==
  /\ ShellAt(PreArmed) => ~s_waiting
  /\ ShellAt(InRun) => FindSlots(run_pid) # {}
  /\ ShellAt({"marked"}) => /\ \A s \in FindSlots(run_pid) : state[s] = "RUNNING"
                            /\ current_pid # run_pid

\* A shell frame saved after process_set_current belongs to the run's
\* process; one saved before it belongs to another process.
FrameOwner ==
  \A s \in ShellFrames :
    /\ ctx[s] \in {"created", "armed"} => pid[s] = run_pid
    /\ ctx[s] \in {"new", "setup", "marked"} => pid[s] # run_pid

\* The same, for the shell the CPU runs.
ShellOK ==
  /\ pc \in {"created", "armed"} => current_pid = run_pid
  /\ pc \in {"new", "setup", "marked"} => current_pid # run_pid

\* ShellFrameUnique, as sets.
OneShellFrame ==
  /\ pc \in ShellLocs => ShellFrames = {}
  /\ \A s, t \in ShellFrames : s = t

ShInv == RunOK /\ FrameOwner /\ ShellOK /\ OneShellFrame

PInv == IInv /\ CallerIsCurrent /\ ShInv

-----------------------------------------------------------------------------
(* Lemmas on the operators the model is built from *)

\* Min of FiniteSetsExt picks the least member of a non-empty set of
\* naturals: the first free slot of process_create, the first matching slot
\* of process_find, the nearest READY slot of the round-robin policy.
LEMMA MinInSet ==
  ASSUME NEW S \in SUBSET Nat, S # {}
  PROVE  /\ Min(S) \in S
         /\ \A j \in S : Min(S) <= j
<1>1. \E x \in S : \A y \in S : ~(<<y, x>> \in OpToRel(<, Nat))
  BY NatLessThanWellFounded, WFMin
<1>2. PICK x \in S : \A y \in S : ~(<<y, x>> \in OpToRel(<, Nat))
  BY <1>1
<1>3. ASSUME NEW y \in S, y < x PROVE <<y, x>> \in OpToRel(<, Nat)
  BY <1>3 DEF OpToRel
<1>4. ASSUME NEW y \in S PROVE x <= y
  <2>1. ~(y < x)  BY <1>2, <1>3
  <2>. QED  BY <2>1
<1>. QED  BY <1>4 DEF Min

LEMMA SlotNat == Slot \subseteq Nat
BY NSlotsAssumption DEF Slot

\* The slot index arithmetic of the round-robin policy stays in the table.
LEMMA ModSlot ==
  ASSUME NEW n \in Nat
  PROVE  n % NSlots \in Slot
<1>1. NSlots \in Nat /\ NSlots > 0  BY NSlotsAssumption
<1>. QED  BY <1>1 DEF Slot

\* The round-robin policy returns no slot or a READY slot of the table.
LEMMA PickNextReady ==
  ASSUME NEW st \in [Slot -> States], NEW c \in Slot
  PROVE  \/ PickNext(st, c) = NoSlot
         \/ PickNext(st, c) \in Slot /\ st[PickNext(st, c)] = "READY"
<1>. DEFINE K == {k \in 1 .. NSlots : st[(c + k) % NSlots] = "READY"}
<1>1. CASE K = {}
  BY <1>1 DEF PickNext
<1>2. CASE K # {}
  <2>1. Min(K) \in K  BY <1>2, MinInSet
  <2>2. c + Min(K) \in Nat  BY <2>1, SlotNat
  <2>3. (c + Min(K)) % NSlots \in Slot
    BY <2>2, ModSlot
  <2>. QED  BY <1>2, <2>1, <2>3 DEF PickNext
<1>. QED  BY <1>1, <1>2

\* The slot process_find resolves the current pid to.
LEMMA FindSlot ==
  ASSUME NEW p, FindSlots(p) # {}
  PROVE  /\ Min(FindSlots(p)) \in Slot
         /\ Live(Min(FindSlots(p)))
         /\ pid[Min(FindSlots(p))] = p
BY SlotNat, MinInSet DEF FindSlots

\* The slot process_create fills.
LEMMA FreeSlot ==
  ASSUME FreeSlots # {}
  PROVE  Min(FreeSlots) \in Slot /\ ~Live(Min(FreeSlots))
BY SlotNat, MinInSet DEF FreeSlots
LEMMA FindOnly ==
  ASSUME IInv, NEW s \in Slot, Live(s)
  PROVE  FindSlots(pid[s]) = {s}
BY DEF IInv, PidsUnique, FindSlots

\* A pid process_create is about to hand out resolves to no live slot.
LEMMA FindFresh ==
  ASSUME IInv
  PROVE  FindSlots(next_pid) = {}
BY DEF IInv, LivePidsOK, FindSlots, TypeOK

-----------------------------------------------------------------------------
(* Types and pids *)

LEMMA InitIInv == Init => IInv
<1>. SUFFICES ASSUME Init PROVE IInv  OBVIOUS
<1>1. TypeOK
  <2>1. state \in [Slot -> States]  BY DEF Init, States
  <2>2. pid \in [Slot -> 0 .. MaxPid] /\ ppid \in [Slot -> 0 .. MaxPid]
    BY MaxPidAssumption DEF Init
  <2>3. ctx \in [Slot -> Locs \cup {NoCtx}]  BY DEF Init
  <2>4. current_pid \in {-1} \cup 1 .. MaxPid  BY DEF Init
  <2>6. next_pid \in 1 .. MaxPid + 1 /\ run_pid \in 0 .. MaxPid
    BY MaxPidAssumption DEF Init
  <2>5. s_waiting \in BOOLEAN /\ intr \in BOOLEAN  BY Zenon DEF Init
  <2>7. pc \in Locs  BY DEF Init, Locs, ShellLocs
  <2>. QED  BY <2>1, <2>2, <2>3, <2>4, <2>5, <2>6, <2>7 DEF TypeOK
<1>2. LivePidsOK /\ PidsBelow /\ PidsUnique
  BY DEF Init, LivePidsOK, PidsBelow, PidsUnique, Live
<1>. QED  BY <1>1, <1>2 DEF IInv

\* Creating a READY process in the first free slot (run_user_and_wait,
\* fork) keeps pids unique and below next_pid.
LEMMA CreateKeeps ==
  ASSUME IInv, FreeSlots # {}, next_pid <= MaxPid, NEW pp \in 0 .. MaxPid,
         CreateIn(Min(FreeSlots), pp),
         state' = [state EXCEPT ![Min(FreeSlots)] = "READY"]
  PROVE  /\ state' \in [Slot -> States]
         /\ pid' \in [Slot -> 0 .. MaxPid]
         /\ ppid' \in [Slot -> 0 .. MaxPid]
         /\ next_pid' \in 1 .. MaxPid + 1
         /\ next_pid' = next_pid + 1
         /\ LivePidsOK'
         /\ PidsUnique'
<1>. DEFINE c == Min(FreeSlots)
<1>1. c \in Slot /\ ~Live(c)  BY FreeSlot
<1>2. \A s \in Slot : Live(s)' <=> Live(s) \/ s = c
  BY <1>1 DEF IInv, TypeOK, Live
<1>3. state' \in [Slot -> States]
  BY <1>1 DEF IInv, TypeOK, States
<1>0. pid \in [Slot -> 0 .. MaxPid] /\ ppid \in [Slot -> 0 .. MaxPid]
      /\ next_pid \in 1 .. MaxPid
  BY DEF IInv, TypeOK
<1>4. pid' \in [Slot -> 0 .. MaxPid]
  BY <1>0, <1>1, MaxPidAssumption DEF CreateIn
<1>7. ppid' \in [Slot -> 0 .. MaxPid]
  BY <1>0, <1>1 DEF CreateIn
<1>8. next_pid' \in 1 .. MaxPid + 1 /\ next_pid' = next_pid + 1
  BY <1>0, MaxPidAssumption DEF CreateIn
<1>5. LivePidsOK'
  <2>. SUFFICES ASSUME NEW s \in Slot, Live(s)'
                PROVE  pid'[s] \in 1 .. next_pid' - 1
    BY DEF LivePidsOK
  <2>1. CASE s = c
    BY <1>1, <2>1 DEF IInv, TypeOK, CreateIn
  <2>2. CASE s # c
    <3>1. Live(s)  BY <1>2, <2>2
    <3>. QED  BY <1>1, <2>2, <3>1 DEF IInv, TypeOK, LivePidsOK, CreateIn
  <2>. QED  BY <2>1, <2>2
<1>6. PidsUnique'
  <2>. SUFFICES ASSUME NEW s \in Slot, NEW t \in Slot, Live(s)', Live(t)',
                       s # t
                PROVE  pid'[s] # pid'[t]
    BY DEF PidsUnique
  <2>1. CASE s # c /\ t # c
    BY <1>2, <2>1 DEF IInv, TypeOK, PidsUnique, CreateIn
  <2>2. CASE s = c \/ t = c
    BY <1>1, <1>2, <2>2 DEF IInv, TypeOK, LivePidsOK, CreateIn
  <2>. QED  BY <2>1, <2>2
<1>. QED  BY <1>3, <1>4, <1>5, <1>6, <1>7, <1>8

\* A step that keeps the set of live slots, the pids and the counters:
\* it may move states between READY and RUNNING, store contexts, switch
\* current_pid to a pid already handed out, and move the CPU.
LEMMA KeepLive ==
  ASSUME IInv,
         state' \in [Slot -> States], \A s \in Slot : Live(s)' <=> Live(s),
         UNCHANGED <<pid, ppid, next_pid, run_pid>>,
         ctx' \in [Slot -> Locs \cup {NoCtx}],
         current_pid' \in {-1} \cup 1 .. MaxPid, current_pid' < next_pid,
         pc' \in Locs, s_waiting' \in BOOLEAN, intr' \in BOOLEAN
  PROVE  IInv'
<1>1. TypeOK'  BY DEF IInv, TypeOK
<1>2. LivePidsOK' /\ PidsBelow' /\ PidsUnique'
  BY DEF IInv, LivePidsOK, PidsBelow, PidsUnique
<1>. QED  BY <1>1, <1>2 DEF IInv

\* KeepLive for a step that changes no state, pid or counter.
LEMMA PcOnlyIInv ==
  ASSUME IInv,
         UNCHANGED <<state, pid, ppid, current_pid, next_pid, run_pid>>,
         ctx' \in [Slot -> Locs \cup {NoCtx}],
         pc' \in Locs, s_waiting' \in BOOLEAN, intr' \in BOOLEAN
  PROVE  IInv'
<1>1. state' \in [Slot -> States] /\ \A s \in Slot : Live(s)' <=> Live(s)
  BY DEF IInv, TypeOK, Live
<1>2. current_pid' \in {-1} \cup 1 .. MaxPid /\ current_pid' < next_pid
  BY DEF IInv, TypeOK, PidsBelow
<1>. QED  BY <1>1, <1>2, KeepLive

\* The slot of the run's pid, while the shell is inside run_user_and_wait.
LEMMA RunSlotLive ==
  ASSUME IInv, FindSlots(run_pid) # {}
  PROVE  /\ RunSlot \in Slot /\ Live(RunSlot) /\ pid[RunSlot] = run_pid
         /\ FindSlots(run_pid) = {RunSlot}
         /\ run_pid \in 1 .. MaxPid
<1>1. RunSlot \in Slot /\ Live(RunSlot) /\ pid[RunSlot] = run_pid
  BY FindSlot DEF RunSlot
<1>2. FindSlots(run_pid) = {RunSlot}
  BY <1>1 DEF IInv, PidsUnique, FindSlots
<1>3. run_pid \in 1 .. MaxPid
  BY <1>1 DEF IInv, LivePidsOK, TypeOK
<1>. QED  BY <1>1, <1>2, <1>3

\* process_create in run_user_and_wait: a READY slot with a zeroed
\* context and the pid next_pid, which becomes run_pid.
LEMMA RunCreateIInv == IInv /\ RunCreate => IInv'
<1>. SUFFICES ASSUME IInv, RunCreate PROVE IInv'  OBVIOUS
<1>. DEFINE c == Min(FreeSlots)
<1>1. c \in Slot  BY FreeSlot DEF RunCreate
<1>2. /\ state' \in [Slot -> States]
      /\ pid' \in [Slot -> 0 .. MaxPid]
      /\ ppid' \in [Slot -> 0 .. MaxPid]
      /\ next_pid' \in 1 .. MaxPid + 1
      /\ next_pid' = next_pid + 1
      /\ LivePidsOK'
      /\ PidsUnique'
  <2>1. 0 \in 0 .. MaxPid  BY MaxPidAssumption
  <2>. QED  BY <2>1, CreateKeeps DEF RunCreate
<1>3. ctx' \in [Slot -> Locs \cup {NoCtx}]  BY <1>1 DEF RunCreate, IInv, TypeOK
<1>4. /\ run_pid' = next_pid /\ next_pid <= MaxPid
      /\ UNCHANGED <<current_pid, s_waiting, intr>> /\ pc' = "new"
  BY DEF RunCreate
<1>5. TypeOK'
  <2>1. run_pid' \in 0 .. MaxPid /\ current_pid' \in {-1} \cup 1 .. MaxPid
    BY <1>4 DEF IInv, TypeOK
  <2>2. s_waiting' \in BOOLEAN /\ intr' \in BOOLEAN  BY <1>4, Zenon DEF IInv, TypeOK
  <2>3. pc' \in Locs  BY <1>4 DEF Locs, ShellLocs
  <2>. QED  BY <1>2, <1>3, <2>1, <2>2, <2>3 DEF TypeOK
<1>6. PidsBelow'  BY <1>2, <1>4 DEF IInv, TypeOK, PidsBelow
<1>. QED  BY <1>2, <1>5, <1>6 DEF IInv

\* The context stores of run_user_and_wait.
LEMMA RunSetupIInv == IInv /\ RunSetup => IInv'
<1>. SUFFICES ASSUME IInv, RunSetup PROVE IInv'  OBVIOUS
<1>1. RunSlot \in Slot  BY RunSlotLive DEF RunSetup
<1>2. ctx' \in [Slot -> Locs \cup {NoCtx}]  BY <1>1 DEF RunSetup, IInv, TypeOK, Locs
<1>3. pc' \in Locs  BY DEF RunSetup, Locs, ShellLocs
<1>4. s_waiting' \in BOOLEAN /\ intr' \in BOOLEAN  BY Zenon DEF RunSetup, IInv, TypeOK
<1>. QED  BY <1>2, <1>3, <1>4, PcOnlyIInv DEF RunSetup

\* The state store: the run's slot, live since process_create, becomes
\* RUNNING.
LEMMA RunMarkIInv == PInv /\ RunMark => IInv'
<1>. SUFFICES ASSUME PInv, RunMark PROVE IInv'  OBVIOUS
<1>1. FindSlots(run_pid) # {}  BY DEF RunMark, PInv, ShInv, RunOK, ShellAt, InRun
<1>2. RunSlot \in Slot /\ Live(RunSlot)  BY <1>1, RunSlotLive DEF PInv
<1>3. state' \in [Slot -> States] /\ \A s \in Slot : Live(s)' <=> Live(s)
  BY <1>2 DEF RunMark, PInv, IInv, TypeOK, States, Live
<1>4. current_pid' \in {-1} \cup 1 .. MaxPid /\ current_pid' < next_pid
  BY DEF RunMark, PInv, IInv, TypeOK, PidsBelow
<1>5. pc' \in Locs  BY DEF RunMark, Locs, ShellLocs
<1>6. s_waiting' \in BOOLEAN /\ intr' \in BOOLEAN /\ ctx' \in [Slot -> Locs \cup {NoCtx}]
  BY Zenon DEF RunMark, PInv, IInv, TypeOK
<1>. QED  BY <1>3, <1>4, <1>5, <1>6, KeepLive DEF RunMark, PInv

\* process_set_current(pid): the run's pid is a live pid, so current_pid
\* stays a pid handed out.
LEMMA RunSetCurrentIInv == PInv /\ RunSetCurrent => IInv'
<1>. SUFFICES ASSUME PInv, RunSetCurrent PROVE IInv'  OBVIOUS
<1>1. FindSlots(run_pid) # {}
  BY DEF RunSetCurrent, PInv, ShInv, RunOK, ShellAt, InRun
<1>2. run_pid \in 1 .. MaxPid  BY <1>1, RunSlotLive DEF PInv
<1>3. current_pid' \in {-1} \cup 1 .. MaxPid /\ current_pid' < next_pid
  BY <1>2 DEF RunSetCurrent, PInv, IInv, PidsBelow
<1>4. state' \in [Slot -> States] /\ \A s \in Slot : Live(s)' <=> Live(s)
  BY DEF RunSetCurrent, PInv, IInv, TypeOK, Live
<1>5. pc' \in Locs  BY DEF RunSetCurrent, Locs, ShellLocs
<1>6. s_waiting' \in BOOLEAN /\ intr' \in BOOLEAN /\ ctx' \in [Slot -> Locs \cup {NoCtx}]
  BY Zenon DEF RunSetCurrent, PInv, IInv, TypeOK
<1>. QED  BY <1>3, <1>4, <1>5, <1>6, KeepLive DEF RunSetCurrent, PInv

LEMMA ShellStepsIInv ==
  IInv /\ (BeginWait \/ EnterUser \/ SysRead \/ ReadLine \/ ShellSti \/ SysWait)
    => IInv'
<1>. SUFFICES ASSUME IInv,
                    BeginWait \/ EnterUser \/ SysRead \/ ReadLine \/ ShellSti
                    \/ SysWait
             PROVE  IInv'
  OBVIOUS
<1>0. /\ s_waiting \in BOOLEAN /\ intr \in BOOLEAN /\ TRUE \in BOOLEAN
      /\ FALSE \in BOOLEAN /\ ctx \in [Slot -> Locs \cup {NoCtx}]
  BY Zenon DEF IInv, TypeOK
<1>1. CASE BeginWait  BY <1>0, <1>1, PcOnlyIInv DEF BeginWait, Locs, ShellLocs
<1>2. CASE EnterUser  BY <1>0, <1>2, PcOnlyIInv DEF EnterUser, Locs
<1>3. CASE SysRead  BY <1>0, <1>3, PcOnlyIInv DEF SysRead, Locs, SyscallLocs
<1>4. CASE ReadLine  BY <1>0, <1>4, PcOnlyIInv DEF ReadLine, Locs
<1>5. CASE ShellSti  BY <1>0, <1>5, PcOnlyIInv DEF ShellSti, IInv, TypeOK
<1>6. CASE SysWait  BY <1>0, <1>6, PcOnlyIInv DEF SysWait, Locs, SyscallLocs
<1>. QED  BY <1>1, <1>2, <1>3, <1>4, <1>5, <1>6

\* process_schedule as the timer runs it: c is the slot of the current
\* process, which is RUNNING, so its regs are saved and it becomes READY;
\* the policy then keeps it or resumes another READY slot.
TC == Min(FindSlots(current_pid))
TSt1 == [state EXCEPT ![TC] = "READY"]
TNext == PickNext(TSt1, TC)

LEMMA TimerStep ==
  ASSUME IInv, CallerIsCurrent, Timer
  PROVE  /\ TC \in Slot /\ Live(TC) /\ pid[TC] = current_pid
         /\ state[TC] = "RUNNING"
         /\ UNCHANGED <<pid, ppid, next_pid, s_waiting, run_pid>>
         /\ ctx' = [ctx EXCEPT ![TC] = pc]
         /\ intr' \in BOOLEAN
         /\ \/ /\ TNext \in {TC, NoSlot}
               /\ state' = state
               /\ UNCHANGED <<current_pid, pc>>
            \/ /\ TNext \in Slot /\ TNext # TC /\ state[TNext] = "READY"
               /\ current_pid' = pid[TNext]
               /\ state' = [TSt1 EXCEPT ![TNext] = "RUNNING"]
               /\ pc' = Resumed(ctx[TNext])
<1>1. TC \in Slot /\ Live(TC) /\ pid[TC] = current_pid  BY FindSlot DEF Timer, TC
<1>2. state[TC] = "RUNNING"  BY <1>1 DEF CallerIsCurrent, FindSlots
<1>3. UNCHANGED <<pid, ppid, next_pid, s_waiting, run_pid>>  BY DEF Timer
<1>4. intr' \in BOOLEAN  BY Zenon DEF Timer
<1>5. TSt1 \in [Slot -> States]  BY <1>1 DEF TSt1, IInv, TypeOK, States
<1>6. \/ /\ TNext \in {TC, NoSlot}
         /\ state' = [TSt1 EXCEPT ![TC] = "RUNNING"]
         /\ ctx' = [ctx EXCEPT ![TC] = pc]
         /\ UNCHANGED <<current_pid, pc>>
      \/ /\ TNext \notin {TC, NoSlot}
         /\ current_pid' = pid[TNext]
         /\ state' = [TSt1 EXCEPT ![TNext] = "RUNNING"]
         /\ ctx' = [ctx EXCEPT ![TC] = pc]
         /\ pc' = Resumed(ctx[TNext])
  BY <1>2 DEF Timer, Schedule, TC, TSt1, TNext
<1>7. CASE TNext \in {TC, NoSlot}
  <2>1. [TSt1 EXCEPT ![TC] = "RUNNING"] = state
    BY <1>1, <1>2 DEF TSt1, IInv, TypeOK
  <2>. QED  BY <1>1, <1>2, <1>3, <1>4, <1>6, <1>7, <2>1
<1>8. CASE TNext \notin {TC, NoSlot}
  <2>1. TNext \in Slot /\ TSt1[TNext] = "READY"
    BY <1>1, <1>5, <1>8, PickNextReady DEF TNext
  <2>2. state[TNext] = "READY" /\ TNext # TC
    BY <1>1, <1>8, <2>1 DEF TSt1, IInv, TypeOK
  <2>. QED  BY <1>1, <1>2, <1>3, <1>4, <1>6, <1>8, <2>1, <2>2
<1>. QED  BY <1>7, <1>8

\* The timer's process_schedule: the slot it parks and the slot it resumes
\* are both live; a resumed context is a saved location, or the zeroed one
\* of a slot process_create filled, which faults.
LEMMA TimerIInv == IInv /\ CallerIsCurrent /\ Timer => IInv'
<1>. SUFFICES ASSUME IInv, CallerIsCurrent, Timer PROVE IInv'  OBVIOUS
<1>1. /\ TC \in Slot /\ Live(TC) /\ state[TC] = "RUNNING"
      /\ UNCHANGED <<pid, ppid, next_pid, s_waiting, run_pid>>
      /\ ctx' = [ctx EXCEPT ![TC] = pc]
      /\ intr' \in BOOLEAN
  BY TimerStep
<1>2. ctx' \in [Slot -> Locs \cup {NoCtx}]  BY <1>1 DEF IInv, TypeOK
<1>3. s_waiting' \in BOOLEAN  BY <1>1, Zenon DEF IInv, TypeOK
<1>4. CASE /\ TNext \in {TC, NoSlot} /\ state' = state
           /\ UNCHANGED <<current_pid, pc>>
  <2>1. state' \in [Slot -> States] /\ \A s \in Slot : Live(s)' <=> Live(s)
    BY <1>4 DEF IInv, TypeOK, Live
  <2>2. current_pid' \in {-1} \cup 1 .. MaxPid /\ current_pid' < next_pid
        /\ pc' \in Locs
    BY <1>4 DEF IInv, TypeOK, PidsBelow
  <2>. QED  BY <1>1, <1>2, <1>3, <2>1, <2>2, KeepLive
<1>5. CASE /\ TNext \in Slot /\ TNext # TC /\ state[TNext] = "READY"
           /\ current_pid' = pid[TNext]
           /\ state' = [TSt1 EXCEPT ![TNext] = "RUNNING"]
           /\ pc' = Resumed(ctx[TNext])
  <2>1. state' \in [Slot -> States] /\ \A s \in Slot : Live(s)' <=> Live(s)
    BY <1>1, <1>5 DEF TSt1, IInv, TypeOK, Live, States
  <2>2. pid[TNext] \in 1 .. next_pid - 1
    BY <1>5 DEF IInv, LivePidsOK, Live
  <2>3. current_pid' \in {-1} \cup 1 .. MaxPid /\ current_pid' < next_pid
    BY <1>5, <2>2 DEF IInv, TypeOK
  <2>4. pc' \in Locs  BY <1>5 DEF Resumed, IInv, TypeOK, Locs
  <2>. QED  BY <1>1, <1>2, <1>3, <2>1, <2>3, <2>4, KeepLive
<1>. QED  BY <1>4, <1>5, TimerStep

\* SYS_fork: the child takes the first free slot with a pid from next_pid
\* and the live parent's pid as ppid; the parent's context is saved.
LEMMA SysForkIInv == IInv /\ SysFork => IInv'
<1>. SUFFICES ASSUME IInv, SysFork PROVE IInv'  OBVIOUS
<1>. DEFINE p == Min(FindSlots(current_pid))
<1>1. p \in Slot /\ Live(p)  BY FindSlot DEF SysFork
<1>2. UNCHANGED <<current_pid, s_waiting, run_pid, pc, intr>>
  BY DEF SysFork
<1>3. /\ current_pid' \in {-1} \cup 1 .. MaxPid
      /\ run_pid' \in 0 .. MaxPid
      /\ pc' \in Locs
  BY <1>2 DEF IInv, TypeOK
<1>4. s_waiting' \in BOOLEAN /\ intr' \in BOOLEAN
  BY <1>2, Zenon DEF IInv, TypeOK
<1>5. (FreeSlots # {} /\ ForkChild(p)) \/ ForkNoSlot(p)
  BY DEF SysFork
<1>6. CASE FreeSlots # {} /\ ForkChild(p)
  <2>. DEFINE c == Min(FreeSlots)
  <2>1. c \in Slot  BY <1>6, FreeSlot
  <2>2. /\ CreateIn(c, pid[p])
        /\ state' = [state EXCEPT ![c] = "READY"]
        /\ ctx' = [ctx EXCEPT ![p] = "user", ![c] = "user"]
        /\ next_pid <= MaxPid
    BY <1>6 DEF ForkChild
  <2>3. pid[p] \in 0 .. MaxPid  BY <1>1 DEF IInv, TypeOK
  <2>4. ctx' \in [Slot -> Locs \cup {NoCtx}]
    BY <1>1, <2>1, <2>2 DEF IInv, TypeOK, Locs
  <2>5. /\ state' \in [Slot -> States]
        /\ pid' \in [Slot -> 0 .. MaxPid]
        /\ ppid' \in [Slot -> 0 .. MaxPid]
        /\ next_pid' \in 1 .. MaxPid + 1
        /\ next_pid' = next_pid + 1
        /\ LivePidsOK'
        /\ PidsUnique'
    BY <1>6, <2>2, <2>3, CreateKeeps
  <2>6. PidsBelow'  BY <1>2, <2>5 DEF IInv, TypeOK, PidsBelow
  <2>. QED  BY <1>3, <1>4, <2>4, <2>5, <2>6 DEF IInv, TypeOK
<1>7. CASE ForkNoSlot(p)
  <2>1. ctx' \in [Slot -> Locs \cup {NoCtx}]
    BY <1>1, <1>7 DEF ForkNoSlot, IInv, TypeOK, Locs
  <2>. QED  BY <1>3, <1>4, <1>7, <2>1, PcOnlyIInv DEF ForkNoSlot, SysFork
<1>. QED  BY <1>5, <1>6, <1>7

\* SYS_exit: the jump to after_user frees the run's own slot (or the
\* dispatcher halts); freeing a slot keeps the remaining pids unique.
LEMMA SysExitIInv == IInv /\ SysExit => IInv'
<1>. SUFFICES ASSUME IInv, SysExit PROVE IInv'  OBVIOUS
<1>1. UNCHANGED <<pid, ppid, ctx, current_pid, next_pid>>  BY DEF SysExit
<1>2. intr' \in BOOLEAN  BY Zenon DEF SysExit
<1>3. CASE ExitToKernel
  <2>1. /\ state' = [s \in Slot |-> IF s \in FindSlots(run_pid) THEN "UNUSED"
                                                            ELSE state[s]]
        /\ run_pid' = 0 /\ pc' = "idle"
    BY <1>3 DEF ExitToKernel
  <2>2. s_waiting' \in BOOLEAN  BY <1>3, Zenon DEF ExitToKernel
  <2>3. /\ state' \in [Slot -> States]
        /\ \A s \in Slot : Live(s)' => Live(s)
    BY <2>1 DEF IInv, TypeOK, Live, States
  <2>4. TypeOK'
    BY <1>1, <1>2, <2>1, <2>2, <2>3, MaxPidAssumption
    DEF IInv, TypeOK, Locs, ShellLocs
  <2>5. LivePidsOK' /\ PidsBelow' /\ PidsUnique'
    BY <1>1, <2>1, <2>3 DEF IInv, TypeOK, LivePidsOK, PidsBelow, PidsUnique
  <2>. QED  BY <2>4, <2>5 DEF IInv
<1>4. CASE ExitPanic
  <2>1. UNCHANGED <<state, s_waiting, run_pid>> /\ pc' = "halted"
    BY <1>4 DEF ExitPanic
  <2>2. s_waiting' \in BOOLEAN /\ ctx' \in [Slot -> Locs \cup {NoCtx}]
    BY <1>1, <2>1, Zenon DEF IInv, TypeOK
  <2>. QED  BY <1>1, <1>2, <2>1, <2>2, PcOnlyIInv DEF Locs
<1>. QED  BY <1>3, <1>4 DEF SysExit

-----------------------------------------------------------------------------
(* The caller of a system call is the current process *)

\* A step that changes no state, pid or current_pid, and reaches user mode
\* or a system call only where current_pid already resolves.
LEMMA SameFinds ==
  ASSUME CallerIsCurrent, UNCHANGED <<state, pid, current_pid>>,
         pc' \in {"user"} \cup SyscallLocs => FindSlots(current_pid) # {}
  PROVE  CallerIsCurrent'
<1>1. FindSlots(current_pid)' = FindSlots(current_pid)  BY DEF FindSlots, Live
<1>. QED  BY <1>1 DEF CallerIsCurrent

\* process_create: the new slot gets a pid that current_pid is not.
LEMMA RunCreateCInv == PInv /\ RunCreate => CallerIsCurrent'
<1>. SUFFICES ASSUME PInv, RunCreate PROVE CallerIsCurrent'  OBVIOUS
<1>. DEFINE c == Min(FreeSlots)
<1>1. c \in Slot /\ ~Live(c)  BY FreeSlot DEF RunCreate
<1>2. /\ state' = [state EXCEPT ![c] = "READY"]
      /\ pid' = [pid EXCEPT ![c] = next_pid]
      /\ UNCHANGED current_pid /\ pc' = "new"
  BY DEF RunCreate, CreateIn
<1>3. \A t \in Slot : t # c => state'[t] = state[t] /\ pid'[t] = pid[t]
  BY <1>1, <1>2 DEF PInv, IInv, TypeOK
<1>4. c \notin FindSlots(current_pid)'
  BY <1>1, <1>2 DEF PInv, IInv, TypeOK, PidsBelow, FindSlots
<1>5. FindSlots(current_pid)' = FindSlots(current_pid)
  BY <1>1, <1>2, <1>3, <1>4 DEF FindSlots, Live
<1>6. \A t \in FindSlots(current_pid) : t \in Slot /\ t # c
  BY <1>1 DEF FindSlots
<1>. QED  BY <1>2, <1>3, <1>5, <1>6 DEF PInv, CallerIsCurrent, SyscallLocs

\* The state store adds a RUNNING slot and removes none.
LEMMA RunMarkCInv == PInv /\ RunMark => CallerIsCurrent'
<1>. SUFFICES ASSUME PInv, RunMark PROVE CallerIsCurrent'  OBVIOUS
<1>1. FindSlots(run_pid) # {}  BY DEF RunMark, PInv, ShInv, RunOK, ShellAt, InRun
<1>2. RunSlot \in Slot /\ Live(RunSlot)  BY <1>1, RunSlotLive DEF PInv
<1>3. /\ state' = [state EXCEPT ![RunSlot] = "RUNNING"]
      /\ UNCHANGED <<pid, current_pid>> /\ pc' = "marked"
  BY DEF RunMark
<1>4. \A t \in Slot : state'[t] = state[t] \/ state'[t] = "RUNNING"
  BY <1>3 DEF PInv, IInv, TypeOK
<1>5. FindSlots(current_pid)' = FindSlots(current_pid)
  BY <1>2, <1>3, <1>4 DEF FindSlots, Live
<1>. QED  BY <1>3, <1>4, <1>5 DEF PInv, CallerIsCurrent, FindSlots, SyscallLocs

\* process_set_current(pid): every slot of the run's pid is RUNNING since
\* the state store.
LEMMA RunSetCurrentCInv == PInv /\ RunSetCurrent => CallerIsCurrent'
<1>. SUFFICES ASSUME PInv, RunSetCurrent PROVE CallerIsCurrent'  OBVIOUS
<1>1. \A s \in FindSlots(run_pid) : state[s] = "RUNNING"
  BY DEF RunSetCurrent, PInv, ShInv, RunOK, ShellAt
<1>2. UNCHANGED <<state, pid>> /\ current_pid' = run_pid /\ pc' = "created"
  BY DEF RunSetCurrent
<1>3. FindSlots(current_pid)' = FindSlots(run_pid)  BY <1>2 DEF FindSlots, Live
<1>. QED  BY <1>1, <1>2, <1>3 DEF CallerIsCurrent, SyscallLocs

LEMMA ShellStepsCInv ==
  PInv /\ (RunSetup \/ BeginWait \/ EnterUser \/ SysRead \/ ReadLine
           \/ ShellSti \/ SysWait)
    => CallerIsCurrent'
<1>. SUFFICES ASSUME PInv,
                    RunSetup \/ BeginWait \/ EnterUser \/ SysRead \/ ReadLine
                    \/ ShellSti \/ SysWait
             PROVE  CallerIsCurrent'
  OBVIOUS
<1>0. CallerIsCurrent  BY DEF PInv
<1>1. CASE RunSetup \/ BeginWait \/ ShellSti
  BY <1>0, <1>1, SameFinds DEF RunSetup, BeginWait, ShellSti, SyscallLocs
<1>2. CASE EnterUser
  <2>1. current_pid = run_pid /\ FindSlots(run_pid) # {}
    BY <1>2 DEF EnterUser, PInv, ShInv, ShellOK, RunOK, ShellAt, InRun
  <2>. QED  BY <1>0, <1>2, <2>1, SameFinds DEF EnterUser
<1>3. CASE SysRead \/ ReadLine \/ SysWait
  BY <1>0, <1>3, SameFinds DEF SysRead, ReadLine, SysWait, CallerIsCurrent,
                               SyscallLocs
<1>. QED  BY <1>1, <1>2, <1>3

\* The timer keeps the current process RUNNING, or switches current_pid to
\* the pid of the slot it resumes and makes that slot RUNNING.
LEMMA TimerCInv == PInv /\ Timer => CallerIsCurrent'
<1>. SUFFICES ASSUME PInv, Timer PROVE CallerIsCurrent'  OBVIOUS
<1>0. IInv /\ CallerIsCurrent  BY DEF PInv
<1>1. TC \in Slot /\ Live(TC) /\ UNCHANGED pid  BY <1>0, TimerStep
<1>2. CASE /\ TNext \in {TC, NoSlot} /\ state' = state
           /\ UNCHANGED <<current_pid, pc>>
  <2>1. FindSlots(current_pid)' = FindSlots(current_pid)
    BY <1>1, <1>2 DEF FindSlots, Live
  <2>. QED  BY <1>0, <1>2, <2>1 DEF CallerIsCurrent
<1>3. CASE /\ TNext \in Slot /\ TNext # TC /\ state[TNext] = "READY"
           /\ current_pid' = pid[TNext]
           /\ state' = [TSt1 EXCEPT ![TNext] = "RUNNING"]
  <2>1. \A t \in Slot : state'[t] # "UNUSED" <=> Live(t)
    BY <1>1, <1>3 DEF TSt1, PInv, IInv, TypeOK, Live
  <2>2. state'[TNext] = "RUNNING"  BY <1>3 DEF TSt1, PInv, IInv, TypeOK
  <2>3. FindSlots(current_pid)' = {TNext}
    <3>1. \A t \in Slot : t # TNext /\ Live(t) => pid[t] # pid[TNext]
      BY <1>3 DEF PInv, IInv, PidsUnique, Live
    <3>. QED  BY <1>1, <1>3, <2>1, <3>1 DEF FindSlots, Live
  <2>. QED  BY <2>2, <2>3 DEF CallerIsCurrent
<1>. QED  BY <1>0, <1>2, <1>3, TimerStep

\* SYS_fork: the child gets a fresh pid, so current_pid still resolves to
\* the parent alone.
LEMMA SysForkCInv == PInv /\ SysFork => CallerIsCurrent'
<1>. SUFFICES ASSUME PInv, SysFork PROVE CallerIsCurrent'  OBVIOUS
<1>. DEFINE p == Min(FindSlots(current_pid))
<1>1. UNCHANGED <<current_pid, pc>>  BY DEF SysFork
<1>2. CASE FreeSlots # {} /\ ForkChild(p)
  <2>. DEFINE c == Min(FreeSlots)
  <2>1. c \in Slot /\ ~Live(c)  BY <1>2, FreeSlot
  <2>2. /\ state' = [state EXCEPT ![c] = "READY"]
        /\ pid' = [pid EXCEPT ![c] = next_pid]
    BY <1>2 DEF ForkChild, CreateIn
  <2>3. \A t \in Slot : t # c => state'[t] = state[t] /\ pid'[t] = pid[t]
    BY <2>1, <2>2 DEF PInv, IInv, TypeOK
  <2>4. c \notin FindSlots(current_pid)'
    BY <1>1, <2>1, <2>2 DEF PInv, IInv, TypeOK, PidsBelow, FindSlots
  <2>5. FindSlots(current_pid)' = FindSlots(current_pid)
    BY <1>1, <2>1, <2>3, <2>4 DEF FindSlots, Live
  <2>6. \A t \in FindSlots(current_pid) : t \in Slot /\ t # c
    BY <2>1 DEF FindSlots
  <2>. QED  BY <1>1, <2>3, <2>5, <2>6 DEF PInv, CallerIsCurrent
<1>3. CASE ForkNoSlot(p)
  BY <1>1, <1>3, SameFinds DEF ForkNoSlot, SysFork, PInv, CallerIsCurrent
<1>. QED  BY <1>2, <1>3 DEF SysFork

\* SYS_exit: the jump frees only slots of the run's pid and leaves the CPU
\* in the idle shell; the dispatcher's panic halts.
LEMMA SysExitCInv == PInv /\ SysExit => CallerIsCurrent'
<1>. SUFFICES ASSUME PInv, SysExit PROVE CallerIsCurrent'  OBVIOUS
<1>1. UNCHANGED <<pid, current_pid>>  BY DEF SysExit
<1>2. CASE ExitToKernel
  <2>1. /\ state' = [s \in Slot |-> IF s \in FindSlots(run_pid) THEN "UNUSED"
                                                            ELSE state[s]]
        /\ pc' = "idle"
    BY <1>2 DEF ExitToKernel
  <2>2. FindSlots(current_pid)' \subseteq FindSlots(current_pid)
        /\ \A s \in FindSlots(current_pid)' : state'[s] = state[s]
    BY <1>1, <2>1 DEF FindSlots, Live
  <2>. QED  BY <2>1, <2>2 DEF PInv, CallerIsCurrent, SyscallLocs
<1>3. CASE ExitPanic
  BY <1>1, <1>3, SameFinds DEF ExitPanic, PInv, SyscallLocs
<1>. QED  BY <1>2, <1>3 DEF SysExit

-----------------------------------------------------------------------------
(* The shell thread.  A timer tick in the shell saves its frame into the   *)
(* current process's context; a switch to the process holding it resumes   *)
(* it.  The exit jump must destroy exactly the run's process.              *)

\* A step that keeps the shell frames with their contexts and owners, the
\* run's slots with their states, and either keeps the CPU's location or
\* moves it outside the shell.
LEMMA FramesKept ==
  ASSUME ShInv, UNCHANGED <<s_waiting, current_pid, run_pid>>,
         pc' = pc \/ (pc \notin ShellLocs /\ pc' \notin ShellLocs),
         ShellFrames' = ShellFrames,
         \A s \in ShellFrames : ctx'[s] = ctx[s] /\ pid'[s] = pid[s],
         FindSlots(run_pid)' = FindSlots(run_pid),
         \A s \in FindSlots(run_pid) : state'[s] = state[s]
  PROVE  ShInv'
<1>1. \A L \in SUBSET ShellLocs : ShellAt(L)' <=> ShellAt(L)
  BY DEF ShellAt
<1>2. PreArmed \in SUBSET ShellLocs /\ InRun \in SUBSET ShellLocs
      /\ {"marked"} \in SUBSET ShellLocs
  BY DEF PreArmed, InRun, ShellLocs
<1>3. RunOK'  BY <1>1, <1>2 DEF ShInv, RunOK
<1>4. FrameOwner'  BY DEF ShInv, FrameOwner
<1>5. ShellOK'  BY DEF ShInv, ShellOK, ShellLocs
<1>6. OneShellFrame'  BY DEF ShInv, OneShellFrame
<1>. QED  BY <1>3, <1>4, <1>5, <1>6 DEF ShInv

\* A step that changes no state, pid or context and keeps the CPU's
\* location, or moves it outside the shell.
LEMMA PcOnlyShInv ==
  ASSUME ShInv, UNCHANGED <<state, pid, ctx, s_waiting, current_pid, run_pid>>,
         pc' = pc \/ (pc \notin ShellLocs /\ pc' \notin ShellLocs)
  PROVE  ShInv'
<1>1. ShellFrames' = ShellFrames  BY DEF ShellFrames
<1>2. FindSlots(run_pid)' = FindSlots(run_pid)  BY DEF FindSlots, Live
<1>. QED  BY <1>1, <1>2, FramesKept

\* run_user_and_wait up to process_set_current runs with the CPU in the
\* shell, so no process holds a shell frame and the context stores add
\* none.
LEMMA RunCreateShInv == PInv /\ RunCreate => ShInv'
<1>. SUFFICES ASSUME PInv, RunCreate PROVE ShInv'  OBVIOUS
<1>. DEFINE c == Min(FreeSlots)
<1>1. c \in Slot /\ ~Live(c)  BY FreeSlot DEF RunCreate
<1>2. /\ state' = [state EXCEPT ![c] = "READY"]
      /\ pid' = [pid EXCEPT ![c] = next_pid]
      /\ ctx' = [ctx EXCEPT ![c] = NoCtx]
      /\ run_pid' = next_pid /\ pc' = "new"
      /\ UNCHANGED <<current_pid, s_waiting>>
  BY DEF RunCreate, CreateIn
<1>3. ShellFrames = {}  BY DEF RunCreate, PInv, ShInv, OneShellFrame, ShellLocs
<1>4. ShellFrames' = {}
  <2>. SUFFICES ASSUME NEW t \in Slot, state'[t] = "READY", ctx'[t] \in ShellLocs
                PROVE  FALSE
    BY DEF ShellFrames
  <2>1. t # c  BY <1>1, <1>2 DEF PInv, IInv, TypeOK, ShellLocs, NoCtx
  <2>2. state[t] = "READY" /\ ctx[t] \in ShellLocs  BY <1>2, <2>1
  <2>. QED  BY <1>3, <2>2 DEF ShellFrames
<1>5. c \in FindSlots(run_pid)'  BY <1>1, <1>2 DEF PInv, IInv, TypeOK, FindSlots, Live
<1>6. ~s_waiting  BY DEF RunCreate, PInv, ShInv, RunOK, ShellAt, PreArmed
<1>7. current_pid # next_pid  BY DEF PInv, IInv, TypeOK, PidsBelow
<1>8. RunOK'  BY <1>2, <1>4, <1>5, <1>6 DEF RunOK, ShellAt, PreArmed, InRun
<1>9. ShellOK'  BY <1>2, <1>7 DEF ShellOK
<1>. QED  BY <1>4, <1>8, <1>9 DEF ShInv, FrameOwner, OneShellFrame

LEMMA RunSetupShInv == PInv /\ RunSetup => ShInv'
<1>. SUFFICES ASSUME PInv, RunSetup PROVE ShInv'  OBVIOUS
<1>1. RunSlot \in Slot  BY RunSlotLive DEF RunSetup, PInv
<1>2. /\ ctx' = [ctx EXCEPT ![RunSlot] = "user"] /\ pc' = "setup"
      /\ UNCHANGED <<state, pid, current_pid, s_waiting, run_pid>>
  BY DEF RunSetup
<1>3. ShellFrames = {}  BY DEF RunSetup, PInv, ShInv, OneShellFrame, ShellLocs
<1>4. ShellFrames' = {}
  <2>. SUFFICES ASSUME NEW t \in Slot, state'[t] = "READY", ctx'[t] \in ShellLocs
                PROVE  FALSE
    BY DEF ShellFrames
  <2>1. t # RunSlot  BY <1>1, <1>2 DEF PInv, IInv, TypeOK, ShellLocs
  <2>2. state[t] = "READY" /\ ctx[t] \in ShellLocs  BY <1>2, <2>1
  <2>. QED  BY <1>3, <2>2 DEF ShellFrames
<1>5. FindSlots(run_pid)' = FindSlots(run_pid)  BY <1>2 DEF FindSlots, Live
<1>6. ~s_waiting /\ FindSlots(run_pid) # {} /\ current_pid # run_pid
  BY DEF RunSetup, PInv, ShInv, RunOK, ShellOK, ShellAt, PreArmed
<1>7. RunOK'  BY <1>2, <1>4, <1>5, <1>6 DEF RunOK, ShellAt, PreArmed, InRun
<1>8. ShellOK'  BY <1>2, <1>6 DEF ShellOK
<1>. QED  BY <1>4, <1>7, <1>8 DEF ShInv, FrameOwner, OneShellFrame

\* The state store: the run's slot, the only one of its pid, is RUNNING
\* from now on.
LEMMA RunMarkShInv == PInv /\ RunMark => ShInv'
<1>. SUFFICES ASSUME PInv, RunMark PROVE ShInv'  OBVIOUS
<1>1. FindSlots(run_pid) # {}  BY DEF RunMark, PInv, ShInv, RunOK, ShellAt, InRun
<1>2. /\ RunSlot \in Slot /\ Live(RunSlot)
      /\ FindSlots(run_pid) = {RunSlot}
  BY <1>1, RunSlotLive DEF PInv
<1>3. /\ state' = [state EXCEPT ![RunSlot] = "RUNNING"] /\ pc' = "marked"
      /\ UNCHANGED <<pid, ctx, current_pid, s_waiting, run_pid>>
  BY DEF RunMark
<1>4. ShellFrames = {}  BY DEF RunMark, PInv, ShInv, OneShellFrame, ShellLocs
<1>5. ShellFrames' = {}
  <2>. SUFFICES ASSUME NEW t \in Slot, state'[t] = "READY", ctx'[t] \in ShellLocs
                PROVE  FALSE
    BY DEF ShellFrames
  <2>1. t # RunSlot  BY <1>2, <1>3 DEF PInv, IInv, TypeOK
  <2>2. state[t] = "READY" /\ ctx[t] \in ShellLocs  BY <1>3, <2>1
  <2>. QED  BY <1>4, <2>2 DEF ShellFrames
<1>6. FindSlots(run_pid)' = {RunSlot} /\ state'[RunSlot] = "RUNNING"
  <2>1. \A t \in Slot : Live(t)' <=> Live(t)
    BY <1>2, <1>3 DEF PInv, IInv, TypeOK, Live
  <2>2. FindSlots(run_pid)' = FindSlots(run_pid)  BY <1>3, <2>1 DEF FindSlots
  <2>. QED  BY <1>2, <1>3, <2>2 DEF PInv, IInv, TypeOK
<1>7. ~s_waiting /\ current_pid # run_pid
  BY DEF RunMark, PInv, ShInv, RunOK, ShellOK, ShellAt, PreArmed
<1>8. RunOK'  BY <1>3, <1>5, <1>6, <1>7 DEF RunOK, ShellAt, PreArmed, InRun
<1>9. ShellOK'  BY <1>3, <1>7 DEF ShellOK
<1>. QED  BY <1>5, <1>8, <1>9 DEF ShInv, FrameOwner, OneShellFrame

\* process_set_current and proc_begin_wait, with the CPU in the shell.
LEMMA RunSetCurrentShInv == PInv /\ (RunSetCurrent \/ BeginWait) => ShInv'
<1>. SUFFICES ASSUME PInv, RunSetCurrent \/ BeginWait PROVE ShInv'  OBVIOUS
<1>1. UNCHANGED <<state, pid, ctx, run_pid>>  BY DEF RunSetCurrent, BeginWait
<1>2. ShellFrames = {} /\ ShellFrames' = {}
  BY <1>1 DEF RunSetCurrent, BeginWait, PInv, ShInv, OneShellFrame, ShellLocs,
              ShellFrames
<1>3. FindSlots(run_pid)' = FindSlots(run_pid) /\ FindSlots(run_pid) # {}
  BY <1>1 DEF RunSetCurrent, BeginWait, FindSlots, Live, PInv, ShInv, RunOK,
              ShellAt, InRun
<1>4. CASE RunSetCurrent
  <2>1. pc' = "created" /\ current_pid' = run_pid /\ UNCHANGED s_waiting
    BY <1>4 DEF RunSetCurrent
  <2>2. ~s_waiting  BY <1>4 DEF RunSetCurrent, PInv, ShInv, RunOK, ShellAt, PreArmed
  <2>. QED  BY <1>1, <1>2, <1>3, <2>1, <2>2
            DEF ShInv, RunOK, ShellAt, PreArmed, InRun, FrameOwner, ShellOK,
                OneShellFrame
<1>5. CASE BeginWait
  <2>1. pc' = "armed" /\ UNCHANGED current_pid
    BY <1>5 DEF BeginWait
  <2>2. current_pid = run_pid  BY <1>5 DEF BeginWait, PInv, ShInv, ShellOK
  <2>. QED  BY <1>1, <1>2, <1>3, <2>1, <2>2
            DEF ShInv, RunOK, ShellAt, PreArmed, InRun, FrameOwner, ShellOK,
                OneShellFrame
<1>. QED  BY <1>4, <1>5

\* enter_user_mode leaves the shell, where no frame was held; the other
\* steps move the CPU between user mode and system calls, or set IF.
LEMMA ShellStepsShInv ==
  PInv /\ (EnterUser \/ SysRead \/ ReadLine \/ ShellSti \/ SysWait) => ShInv'
<1>. SUFFICES ASSUME PInv, EnterUser \/ SysRead \/ ReadLine \/ ShellSti \/ SysWait
             PROVE  ShInv'
  OBVIOUS
<1>1. CASE EnterUser
  <2>1. UNCHANGED <<state, ctx>> /\ pc' = "user"  BY <1>1 DEF EnterUser
  <2>2. ShellFrames' = {}
    BY <1>1, <2>1 DEF EnterUser, PInv, ShInv, OneShellFrame, ShellLocs, ShellFrames
  <2>. QED  BY <2>1, <2>2
            DEF ShInv, RunOK, ShellAt, PreArmed, InRun, FrameOwner, ShellOK,
                OneShellFrame, ShellLocs
<1>2. CASE SysRead \/ ReadLine \/ ShellSti \/ SysWait
  BY <1>2, PcOnlyShInv DEF SysRead, ReadLine, ShellSti, SysWait, PInv, ShellLocs
<1>. QED  BY <1>1, <1>2

\* SYS_fork: the parent is RUNNING and the child READY in user mode with
\* a fresh pid, so neither holds a shell frame nor has the run's pid.
LEMMA SysForkShInv == PInv /\ SysFork => ShInv'
<1>. SUFFICES ASSUME PInv, SysFork PROVE ShInv'  OBVIOUS
<1>. DEFINE p == Min(FindSlots(current_pid))
<1>1. p \in Slot /\ state[p] = "RUNNING"
  BY FindSlot DEF SysFork, PInv, CallerIsCurrent, FindSlots
<1>2. UNCHANGED <<current_pid, s_waiting, run_pid, pc>>  BY DEF SysFork
<1>3. CASE FreeSlots # {} /\ ForkChild(p)
  <2>. DEFINE c == Min(FreeSlots)
  <2>1. c \in Slot /\ ~Live(c)  BY <1>3, FreeSlot
  <2>2. /\ state' = [state EXCEPT ![c] = "READY"]
        /\ ctx' = [ctx EXCEPT ![p] = "user", ![c] = "user"]
        /\ pid' = [pid EXCEPT ![c] = next_pid]
    BY <1>3 DEF ForkChild, CreateIn
  <2>3. \A t \in Slot : t # c =>
          /\ state'[t] = state[t] /\ pid'[t] = pid[t]
          /\ t # p => ctx'[t] = ctx[t]
    BY <2>1, <2>2 DEF PInv, IInv, TypeOK
  <2>4. c \notin ShellFrames' /\ c \notin ShellFrames /\ p \notin ShellFrames'
        /\ p \notin ShellFrames
    BY <1>1, <2>1, <2>2 DEF ShellFrames, ShellLocs, Live, PInv, IInv, TypeOK
  <2>5. ShellFrames' = ShellFrames  BY <2>3, <2>4 DEF ShellFrames
  <2>6. c \notin FindSlots(run_pid)' /\ c \notin FindSlots(run_pid)
    <3>1. pid'[c] = next_pid /\ run_pid # next_pid
      BY <2>1, <2>2 DEF PInv, IInv, TypeOK, PidsBelow
    <3>. QED  BY <1>2, <2>1, <3>1 DEF FindSlots
  <2>7. FindSlots(run_pid)' = FindSlots(run_pid)
    BY <1>2, <2>3, <2>6 DEF FindSlots, Live
  <2>8. \A s \in ShellFrames : ctx'[s] = ctx[s] /\ pid'[s] = pid[s]
    BY <2>3, <2>4 DEF ShellFrames
  <2>9. \A s \in FindSlots(run_pid) : state'[s] = state[s]
    BY <2>3, <2>6 DEF FindSlots
  <2>. QED  BY <1>2, <2>5, <2>7, <2>8, <2>9, FramesKept DEF PInv
<1>4. CASE ForkNoSlot(p)
  <2>1. ctx' = [ctx EXCEPT ![p] = "user"] /\ UNCHANGED <<state, pid>>
    BY <1>4 DEF ForkNoSlot
  <2>2. p \notin ShellFrames  BY <1>1 DEF ShellFrames
  <2>3. ShellFrames' = ShellFrames /\ \A s \in ShellFrames : ctx'[s] = ctx[s]
    BY <1>1, <2>1, <2>2 DEF ShellFrames, PInv, IInv, TypeOK
  <2>4. FindSlots(run_pid)' = FindSlots(run_pid)  BY <1>2, <2>1 DEF FindSlots, Live
  <2>. QED  BY <1>2, <2>1, <2>3, <2>4, FramesKept DEF PInv
<1>. QED  BY <1>3, <1>4 DEF SysFork

\* SYS_exit: the jump to after_user happens only with the resume point
\* armed, so every shell frame is one saved after process_set_current, in
\* the run's process, which process_destroy(pid) frees; the panic leaves
\* everything but pc and IF.
LEMMA SysExitShInv == PInv /\ SysExit => ShInv'
<1>. SUFFICES ASSUME PInv, SysExit PROVE ShInv'  OBVIOUS
<1>1. UNCHANGED <<pid, ctx, current_pid>> /\ pc = "user"  BY DEF SysExit
<1>2. CASE ExitToKernel
  <2>1. /\ s_waiting /\ ~s_waiting' /\ pc' = "idle"
        /\ state' = [s \in Slot |-> IF s \in FindSlots(run_pid) THEN "UNUSED"
                                                                ELSE state[s]]
    BY <1>2 DEF ExitToKernel
  <2>2. ShellFrames' = {}
    <3>. SUFFICES ASSUME NEW t \in Slot, state'[t] = "READY", ctx'[t] \in ShellLocs
                  PROVE  FALSE
      BY DEF ShellFrames
    <3>1. t \notin FindSlots(run_pid) /\ state[t] = "READY"  BY <2>1
    <3>2. t \in ShellFrames  BY <1>1, <3>1 DEF ShellFrames
    <3>3. CASE ctx[t] \in {"created", "armed"}
      <4>1. pid[t] = run_pid  BY <3>2, <3>3 DEF PInv, ShInv, FrameOwner
      <4>. QED  BY <3>1, <4>1 DEF FindSlots, Live
    <3>4. CASE ctx[t] \in PreArmed
      BY <2>1, <3>2, <3>4 DEF PInv, ShInv, RunOK, ShellAt
    <3>. QED  BY <1>1, <3>3, <3>4 DEF ShellLocs, PreArmed
  <2>. QED  BY <2>1, <2>2
            DEF ShInv, RunOK, ShellAt, PreArmed, InRun, FrameOwner, ShellOK,
                OneShellFrame, ShellLocs
<1>3. CASE ExitPanic
  BY <1>1, <1>3, PcOnlyShInv DEF ExitPanic, PInv, ShellLocs
<1>. QED  BY <1>2, <1>3 DEF SysExit

\* process_schedule: a tick in the shell saves the shell's frame into the
\* current process (there was none), a switch to the process holding the
\* frame resumes the shell (it was the only one), and a switch elsewhere
\* leaves the frames alone.  The slot parked is the current one and the
\* slot resumed is READY, so neither holds the run's pid after the state
\* store.
LEMMA TimerShInv == PInv /\ Timer => ShInv'
<1>. SUFFICES ASSUME PInv, Timer PROVE ShInv'  OBVIOUS
<1>0. IInv /\ CallerIsCurrent /\ ShInv  BY DEF PInv
<1>1. /\ TC \in Slot /\ Live(TC) /\ pid[TC] = current_pid
      /\ state[TC] = "RUNNING"
      /\ UNCHANGED <<pid, s_waiting, run_pid>>
      /\ ctx' = [ctx EXCEPT ![TC] = pc]
  BY <1>0, TimerStep
<1>2. TC \notin ShellFrames  BY <1>1 DEF ShellFrames
<1>3. CASE /\ TNext \in {TC, NoSlot} /\ state' = state
           /\ UNCHANGED <<current_pid, pc>>
  <2>1. ShellFrames' = ShellFrames
    BY <1>1, <1>3 DEF ShellFrames, PInv, IInv, TypeOK
  <2>2. \A s \in ShellFrames : ctx'[s] = ctx[s] /\ pid'[s] = pid[s]
    BY <1>1, <1>2 DEF ShellFrames, PInv, IInv, TypeOK
  <2>3. FindSlots(run_pid)' = FindSlots(run_pid)  BY <1>1, <1>3 DEF FindSlots, Live
  <2>. QED  BY <1>0, <1>1, <1>3, <2>1, <2>2, <2>3, FramesKept
<1>4. CASE /\ TNext \in Slot /\ TNext # TC /\ state[TNext] = "READY"
           /\ current_pid' = pid[TNext]
           /\ state' = [TSt1 EXCEPT ![TNext] = "RUNNING"]
           /\ pc' = Resumed(ctx[TNext])
  <2>. DEFINE n == TNext
  <2>0. state \in [Slot -> States] /\ ctx \in [Slot -> Locs \cup {NoCtx}]
        /\ pc \in Locs
    BY DEF PInv, IInv, TypeOK
  <2>1. /\ state'[TC] = "READY" /\ ctx'[TC] = pc
        /\ state'[n] = "RUNNING" /\ ctx'[n] = ctx[n]
        /\ \A s \in Slot \ {TC, n} : state'[s] = state[s] /\ ctx'[s] = ctx[s]
    BY <1>1, <1>4, <2>0 DEF TSt1
  <2>2. \A s \in Slot : s \in ShellFrames' <=>
          \/ s = TC /\ pc \in ShellLocs
          \/ s # TC /\ s # n /\ s \in ShellFrames
    BY <1>1, <1>4, <2>1 DEF ShellFrames
  <2>3. \A s \in Slot : Live(s)' <=> Live(s)
    BY <1>1, <1>4, <2>1 DEF Live
  <2>4. FindSlots(run_pid)' = FindSlots(run_pid)
    BY <1>1, <2>3 DEF FindSlots
  <2>5. Live(n)  BY <1>4 DEF Live
  \* While the shell is past the state store, neither slot has the run's pid.
  <2>6. ShellAt({"marked"}) =>
          /\ \A s \in FindSlots(run_pid) : state'[s] = "RUNNING"
          /\ pid[n] # run_pid
    <3>. SUFFICES ASSUME ShellAt({"marked"})
                  PROVE  /\ \A s \in FindSlots(run_pid) : state'[s] = "RUNNING"
                         /\ pid[n] # run_pid
      OBVIOUS
    <3>1. /\ \A s \in FindSlots(run_pid) : state[s] = "RUNNING"
          /\ current_pid # run_pid
      BY <1>0 DEF ShInv, RunOK
    <3>2. TC \notin FindSlots(run_pid) /\ n \notin FindSlots(run_pid)
      BY <1>1, <1>4, <3>1 DEF FindSlots
    <3>3. \A s \in FindSlots(run_pid) : state'[s] = "RUNNING"
      BY <2>1, <3>1, <3>2 DEF FindSlots
    <3>. QED  BY <1>4, <2>5, <3>2, <3>3 DEF FindSlots
  <2>7. CASE pc \in ShellLocs
    <3>1. ShellFrames = {}  BY <1>0, <2>7 DEF ShInv, OneShellFrame
    <3>2. ctx[n] \notin ShellLocs  BY <1>4, <3>1 DEF ShellFrames
    <3>3. pc' \notin ShellLocs  BY <1>4, <3>2 DEF Resumed, ShellLocs, NoCtx
    <3>4. ShellFrames' = {TC}  BY <1>1, <2>2, <2>7, <3>1 DEF ShellFrames
    <3>5. \A L \in SUBSET ShellLocs : ShellAt(L)' <=> ShellAt(L)
      BY <2>1, <3>1, <3>3, <3>4 DEF ShellAt
    <3>6. RunOK'
      <4>1. PreArmed \in SUBSET ShellLocs /\ InRun \in SUBSET ShellLocs
            /\ {"marked"} \in SUBSET ShellLocs
        BY DEF PreArmed, InRun, ShellLocs
      <4>. QED  BY <1>0, <1>1, <1>4, <2>4, <2>5, <2>6, <3>5, <4>1
                DEF ShInv, RunOK, FindSlots
    <3>7. FrameOwner'
      <4>1. pc \in {"created", "armed"} => pid[TC] = run_pid
        BY <1>0, <1>1 DEF ShInv, ShellOK
      <4>2. pc \in {"new", "setup", "marked"} => pid[TC] # run_pid
        BY <1>0, <1>1 DEF ShInv, ShellOK
      <4>. QED  BY <1>1, <2>1, <3>4, <4>1, <4>2 DEF FrameOwner
    <3>8. ShellOK' /\ OneShellFrame'
      BY <3>3, <3>4 DEF ShellOK, OneShellFrame, ShellLocs
    <3>. QED  BY <3>6, <3>7, <3>8 DEF ShInv
  <2>8. CASE pc \notin ShellLocs /\ n \in ShellFrames
    <3>1. ShellFrames = {n}  BY <1>0, <2>8 DEF ShInv, OneShellFrame
    <3>2. ctx[n] \in ShellLocs /\ pc' = ctx[n]
      BY <1>4, <2>8 DEF ShellFrames, Resumed, ShellLocs, NoCtx
    <3>3. ShellFrames' = {}  BY <2>2, <2>8, <3>1 DEF ShellFrames
    <3>4. \A L \in SUBSET ShellLocs : ShellAt(L)' <=> ShellAt(L)
      BY <2>8, <3>1, <3>2, <3>3 DEF ShellAt
    <3>5. RunOK'
      <4>1. PreArmed \in SUBSET ShellLocs /\ InRun \in SUBSET ShellLocs
            /\ {"marked"} \in SUBSET ShellLocs
        BY DEF PreArmed, InRun, ShellLocs
      <4>. QED  BY <1>0, <1>1, <1>4, <2>4, <2>5, <2>6, <3>4, <4>1
                DEF ShInv, RunOK, FindSlots
    <3>6. ShellOK'
      <4>1. /\ ctx[n] \in {"created", "armed"} => pid[n] = run_pid
            /\ ctx[n] \in {"new", "setup", "marked"} => pid[n] # run_pid
        BY <1>0, <2>8 DEF ShInv, FrameOwner
      <4>. QED  BY <1>1, <1>4, <3>2, <4>1 DEF ShellOK
    <3>. QED  BY <3>3, <3>5, <3>6 DEF ShInv, FrameOwner, OneShellFrame
  <2>9. CASE pc \notin ShellLocs /\ n \notin ShellFrames
    <3>1. ctx[n] \notin ShellLocs  BY <1>4, <2>9 DEF ShellFrames
    <3>2. pc' \notin ShellLocs  BY <1>4, <3>1 DEF Resumed, ShellLocs, NoCtx
    <3>3. ShellFrames' = ShellFrames  BY <1>2, <2>2, <2>9 DEF ShellFrames
    <3>4. \A s \in ShellFrames : ctx'[s] = ctx[s] /\ s # TC /\ s # n
      BY <1>2, <2>1, <2>9 DEF ShellFrames
    <3>5. \A L \in SUBSET ShellLocs : ShellAt(L)' <=> ShellAt(L)
      BY <2>1, <2>9, <3>2, <3>3, <3>4 DEF ShellAt
    <3>6. RunOK'
      <4>1. PreArmed \in SUBSET ShellLocs /\ InRun \in SUBSET ShellLocs
            /\ {"marked"} \in SUBSET ShellLocs
        BY DEF PreArmed, InRun, ShellLocs
      <4>. QED  BY <1>0, <1>1, <1>4, <2>4, <2>5, <2>6, <3>5, <4>1
                DEF ShInv, RunOK, FindSlots
    <3>7. FrameOwner'  BY <1>0, <1>1, <3>3, <3>4 DEF ShInv, FrameOwner
    <3>8. ShellOK' /\ OneShellFrame'
      BY <1>0, <3>2, <3>3 DEF ShInv, ShellOK, OneShellFrame, ShellLocs
    <3>. QED  BY <3>6, <3>7, <3>8 DEF ShInv
  <2>. QED  BY <2>7, <2>8, <2>9
<1>. QED  BY <1>0, <1>3, <1>4, TimerStep

-----------------------------------------------------------------------------
(* The invariant *)

LEMMA InitPInv == Init => PInv
<1>. SUFFICES ASSUME Init PROVE PInv  OBVIOUS
<1>1. IInv  BY InitIInv
<1>2. FindSlots(current_pid) = {} /\ FindSlots(run_pid) = {} /\ ShellFrames = {}
  BY DEF Init, FindSlots, Live, ShellFrames
<1>3. CallerIsCurrent  BY <1>2 DEF Init, CallerIsCurrent, SyscallLocs
<1>4. ShInv
  BY <1>2 DEF Init, ShInv, RunOK, ShellAt, PreArmed, InRun, FrameOwner,
              ShellOK, OneShellFrame
<1>. QED  BY <1>1, <1>3, <1>4 DEF PInv

LEMMA NextPInv == PInv /\ [Next]_vars => PInv'
<1>. SUFFICES ASSUME PInv, [Next]_vars PROVE PInv'  OBVIOUS
<1>0. IInv /\ CallerIsCurrent /\ ShInv  BY DEF PInv
<1>1. CASE RunCreate
  BY <1>0, <1>1, RunCreateIInv, RunCreateCInv, RunCreateShInv DEF PInv
<1>2. CASE RunSetup
  BY <1>0, <1>2, RunSetupIInv, ShellStepsCInv, RunSetupShInv DEF PInv
<1>3. CASE RunMark
  BY <1>3, RunMarkIInv, RunMarkCInv, RunMarkShInv DEF PInv
<1>4. CASE RunSetCurrent
  BY <1>4, RunSetCurrentIInv, RunSetCurrentCInv, RunSetCurrentShInv DEF PInv
<1>5. CASE BeginWait
  BY <1>0, <1>5, ShellStepsIInv, ShellStepsCInv, RunSetCurrentShInv DEF PInv
<1>6. CASE EnterUser \/ SysRead \/ ReadLine \/ ShellSti \/ SysWait
  BY <1>0, <1>6, ShellStepsIInv, ShellStepsCInv, ShellStepsShInv DEF PInv
<1>7. CASE Timer
  BY <1>0, <1>7, TimerIInv, TimerCInv, TimerShInv DEF PInv
<1>8. CASE SysFork
  BY <1>0, <1>8, SysForkIInv, SysForkCInv, SysForkShInv DEF PInv
<1>9. CASE SysExit
  BY <1>0, <1>9, SysExitIInv, SysExitCInv, SysExitShInv DEF PInv
<1>10. CASE UNCHANGED vars
  <2>1. IInv'
    <3>1. s_waiting' \in BOOLEAN /\ intr' \in BOOLEAN
          /\ ctx' \in [Slot -> Locs \cup {NoCtx}] /\ pc' \in Locs
      BY <1>0, <1>10, Zenon DEF vars, IInv, TypeOK
    <3>. QED  BY <1>0, <1>10, <3>1, PcOnlyIInv DEF vars
  <2>2. CallerIsCurrent'  BY <1>0, <1>10, SameFinds DEF vars, CallerIsCurrent
  <2>3. ShInv'  BY <1>0, <1>10, PcOnlyShInv DEF vars
  <2>. QED  BY <2>1, <2>2, <2>3 DEF PInv
<1>. QED  BY <1>1, <1>2, <1>3, <1>4, <1>5, <1>6, <1>7, <1>8, <1>9, <1>10
          DEF Next, RunUser

LEMMA AlwaysPInv == Spec => []PInv
BY InitPInv, NextPInv, PTL DEF Spec

\* A set of slots whose members are all equal holds at most one slot.
LEMMA OneFrameCount == OneShellFrame => ShellFrameUnique
<1>. SUFFICES ASSUME OneShellFrame PROVE ShellFrameUnique  OBVIOUS
<1>1. IsFiniteSet(ShellFrames)
  <2>1. IsFiniteSet(Slot)
    <3>1. NSlots - 1 \in Int  BY NSlotsAssumption
    <3>. QED  BY <3>1, FS_Interval DEF Slot
  <2>. QED  BY <2>1, FS_Subset DEF ShellFrames
<1>2. CASE ShellFrames = {}
  <2>. Cardinality(ShellFrames) = 0  BY <1>2, FS_EmptySet
  <2>. QED  BY DEF ShellFrameUnique
<1>3. CASE ShellFrames # {}
  <2>1. PICK x \in ShellFrames : TRUE  BY <1>3
  <2>2. ShellFrames = {x}  BY <2>1 DEF OneShellFrame
  <2>3. Cardinality(ShellFrames) = 1  BY <2>2, FS_Singleton
  <2>4. pc \notin ShellLocs  BY <1>3 DEF OneShellFrame
  <2>. QED  BY <2>3, <2>4 DEF ShellFrameUnique
<1>. QED  BY <1>2, <1>3

-----------------------------------------------------------------------------
(* Theorems *)

\* The process table, current_pid, run_pid, next_pid, the resume-point
\* state and the CPU location keep their types in every run of the
\* kernel, for every table size, with run_user_and_wait interruptible at
\* each of its steps: process_set_current installs a pid process_create
\* handed out and never run_pid's 0 or -1, a timer switch sets
\* current_pid to the pid of a live slot, and resuming a slot's context
\* lands at a saved location or, for the zeroed context process_create
\* leaves, in isr_fault_handler.
THEOREM TypeCorrect == Spec => []TypeOK
BY AlwaysPInv, PTL DEF PInv, IInv

\* No two live slots of the process table share a pid, whatever
\* interleaving of run_user_and_wait, fork, exit and timer switches occurs:
\* process_find, and through it process_current and process_destroy,
\* always resolves a pid to the one process that holds it.
THEOREM PidsUniqueHolds == Spec => []PidsUnique
BY AlwaysPInv, PTL DEF PInv, IInv

\* Whenever the CPU runs user code or is inside a system call, current_pid
\* resolves to a live process, and every slot it resolves to is RUNNING:
\* fork, wait and exit find their caller with process_current(), and
\* process_schedule saves regs into that caller's context, for every table
\* size and pid bound.
THEOREM CallerIsCurrentHolds == Spec => []CallerIsCurrent
BY AlwaysPInv, PTL DEF PInv

\* At most one process holds a frame saved in the shell thread, and none
\* does while the CPU itself is in the shell: a timer tick inside
\* run_user_and_wait or in the idle shell parks the shell in the current
\* process, and the exit jump to after_user resumes it only from the run's
\* process, for every table size and pid bound.
THEOREM ShellFrameUniqueHolds == Spec => []ShellFrameUnique
<1>1. PInv => ShellFrameUnique  BY OneFrameCount DEF PInv, ShInv
<1>. QED  BY AlwaysPInv, <1>1, PTL

=============================================================================
