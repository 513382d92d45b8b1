-------------------------------- MODULE Proc --------------------------------
(***************************************************************************)
(* The process core of the kernel: the process table of proc/process.c,   *)
(* the synchronous user-mode bridge run_user_and_wait of proc/proc.c, the *)
(* process system calls of proc/syscall.c (fork, exit, wait and the       *)
(* blocking keyboard read) and the timer-driven process_schedule called   *)
(* from core/irq.c.                                                        *)
(*                                                                         *)
(* There is one CPU.  The variable pc is where it executes: a location of *)
(* the kernel shell thread that calls run_user_and_wait ("idle", then     *)
(* "new", "setup", "marked", "created", "armed" inside it), user code of  *)
(* the current process ("user"), the kernel inside a system call that can *)
(* be suspended ("read": SYS_read on fd 0 with interrupts re-enabled;     *)
(* "waitloop": the hlt loop of process_wait), the cli; hlt of the SYS_exit *)
(* dispatcher ("halted") or of isr_fault_handler ("fault").  A saved frame *)
(* (process_t.context) is abstracted to the location it resumes at: when  *)
(* process_schedule copies regs into a context and later copies a context *)
(* back into regs, the CPU continues where that frame was taken.  intr is *)
(* the IF flag: the timer IRQ can only be taken when it is set.           *)
(***************************************************************************)
EXTENDS Integers, FiniteSets, FiniteSetsExt

CONSTANTS
  NSlots,   \* MAX_PROCESSES, the size of process_table
  MaxPid    \* model bound: the largest pid process_create may hand out

ASSUME NSlotsAssumption == NSlots \in Nat \ {0}
ASSUME MaxPidAssumption == MaxPid \in Nat \ {0}

VARIABLES
  state,        \* process_table[i].state
  pid,          \* process_table[i].pid
  ppid,         \* process_table[i].ppid
  ctx,          \* process_table[i].context, as the location it resumes at
  current_pid,  \* current_pid of process.c (-1: none)
  next_pid,     \* next_pid of process.c
  s_waiting,    \* s_waiting of proc.c: a resume point is armed
  run_pid,      \* local pid of the active run_user_and_wait frame (0: none)
  pc,           \* where the CPU executes
  intr          \* EFLAGS.IF

vars == <<state, pid, ppid, ctx, current_pid, next_pid, s_waiting, run_pid,
          pc, intr>>

Slot == 0 .. NSlots - 1
NoSlot == -1

States == {"UNUSED", "READY", "RUNNING", "BLOCKED", "ZOMBIE"}

\* Locations of the kernel shell thread inside and around run_user_and_wait:
\* before it, after process_create (line 52), after the context stores
\* (line 72), after proc->state = PROC_RUNNING (line 73), after
\* process_set_current (line 75) and after proc_begin_wait (line 79).
ShellLocs == {"idle", "new", "setup", "marked", "created", "armed"}
\* Kernel locations inside a system call where the CPU can wait.
SyscallLocs == {"read", "waitloop"}
Locs == ShellLocs \cup SyscallLocs \cup {"user", "halted", "fault"}
\* A zeroed context (memset in process_create).
NoCtx == "none"

Live(s) == state[s] # "UNUSED"

\* process_find: the slots of a live process with pid p.
FindSlots(p) == {s \in Slot : Live(s) /\ pid[s] = p}

\* The slot process_create takes: the lowest UNUSED one.
FreeSlots == {s \in Slot : ~Live(s)}

\* Variant: process_create handing out next_pid without advancing it.
Mut_CreateIn(s, pp) ==
  /\ pid' = [pid EXCEPT ![s] = next_pid]
  /\ ppid' = [ppid EXCEPT ![s] = pp]
  /\ next_pid' = next_pid

\* process_create(pp) into slot s; the caller completes the entry.
CreateIn(s, pp) ==
  /\ pid' = [pid EXCEPT ![s] = next_pid]
  /\ ppid' = [ppid EXCEPT ![s] = pp]
  /\ next_pid' = next_pid + 1

(***************************************************************************)
(* htas_pick_next_process: the scheduling policy.  Its source is not part *)
(* of the repository's sources; the spec gives the default policy as      *)
(* round-robin: the first READY slot after the current one, cyclically,   *)
(* the current one last.                                                  *)
(***************************************************************************)
PickNext(st, c) ==
  LET K == {k \in 1 .. NSlots : st[(c + k) % NSlots] = "READY"}
  IN  IF K = {} THEN NoSlot ELSE (c + Min(K)) % NSlots

-----------------------------------------------------------------------------

Init ==
  /\ state = [s \in Slot |-> "UNUSED"]
  /\ pid = [s \in Slot |-> 0]
  /\ ppid = [s \in Slot |-> 0]
  /\ ctx = [s \in Slot |-> NoCtx]
  /\ current_pid = -1
  /\ next_pid = 1
  /\ s_waiting = FALSE
  /\ run_pid = 0
  /\ pc = "idle"
  /\ intr = TRUE

(***************************************************************************)
(* run_user_and_wait up to process_set_current, one step per statement   *)
(* the timer can fall between (IF is set in the shell).  process_create  *)
(* leaves the slot READY with a zeroed context; the context stores, the  *)
(* state store and process_set_current follow.  The slot is the one      *)
(* process_find(pid) returns: nothing destroys it before the resume      *)
(* point is armed, so the "FAILED to find" return is never taken.  When  *)
(* process_create finds no free slot the call returns -1 and nothing     *)
(* changes.                                                               *)
(***************************************************************************)
\* The slot of the run's process, as process_find(pid) returns it.
RunSlot == Min(FindSlots(run_pid))

\* Variant: run_user_and_wait without the pid < 0 check of line 53.
Mut_RunCreate ==
  /\ pc = "idle"
  /\ \/ /\ FreeSlots # {}
        /\ next_pid <= MaxPid
        /\ LET s == Min(FreeSlots) IN
             /\ CreateIn(s, 0)
             /\ state' = [state EXCEPT ![s] = "READY"]
             /\ ctx' = [ctx EXCEPT ![s] = NoCtx]
        /\ run_pid' = next_pid
     \/ /\ FreeSlots = {}
        /\ run_pid' = -1
        /\ UNCHANGED <<state, pid, ppid, ctx, next_pid>>
  /\ pc' = "new"
  /\ UNCHANGED <<current_pid, s_waiting, intr>>

RunCreate ==
  /\ pc = "idle"
  /\ FreeSlots # {}
  /\ next_pid <= MaxPid
  /\ LET s == Min(FreeSlots) IN
       /\ CreateIn(s, 0)
       /\ state' = [state EXCEPT ![s] = "READY"]
       /\ ctx' = [ctx EXCEPT ![s] = NoCtx]
  /\ run_pid' = next_pid
  /\ pc' = "new"
  /\ UNCHANGED <<current_pid, s_waiting, intr>>

\* The user entry context: eip, esp, ebp, eflags, cs, ss, ds.
RunSetup ==
  /\ pc = "new"
  /\ FindSlots(run_pid) # {}
  /\ ctx' = [ctx EXCEPT ![RunSlot] = "user"]
  /\ pc' = "setup"
  /\ UNCHANGED <<state, pid, ppid, current_pid, next_pid, s_waiting, run_pid,
                 intr>>

RunMark ==
  /\ pc = "setup"
  /\ state' = [state EXCEPT ![RunSlot] = "RUNNING"]
  /\ pc' = "marked"
  /\ UNCHANGED <<pid, ppid, ctx, current_pid, next_pid, s_waiting, run_pid,
                 intr>>

RunSetCurrent ==
  /\ pc = "marked"
  /\ current_pid' = run_pid
  /\ pc' = "created"
  /\ UNCHANGED <<state, pid, ppid, ctx, next_pid, s_waiting, run_pid, intr>>

RunUser == RunCreate \/ RunSetup \/ RunMark \/ RunSetCurrent

\* proc_begin_wait: record the resume point and arm it.
BeginWait ==
  /\ pc = "created"
  /\ s_waiting' = TRUE
  /\ pc' = "armed"
  /\ UNCHANGED <<state, pid, ppid, ctx, current_pid, next_pid, run_pid, intr>>

\* enter_user_mode: iret to ring 3 with IF set.
EnterUser ==
  /\ pc = "armed"
  /\ pc' = "user"
  /\ intr' = TRUE
  /\ UNCHANGED <<state, pid, ppid, ctx, current_pid, next_pid, s_waiting,
                 run_pid>>

(***************************************************************************)
(* The timer IRQ (irq_handler -> timer_handler -> process_schedule).  It  *)
(* is taken in user mode, and in the kernel when IF is set.  If current   *)
(* resolves to a process, a RUNNING one has regs saved into its context   *)
(* and becomes READY; then the policy picks a slot.  Picking the current  *)
(* one (or none) keeps it; picking another switches current_pid and       *)
(* regs, so the final iret resumes the other process's context.           *)
(***************************************************************************)
TimerEnabled == pc = "user" \/ (pc \in ShellLocs \cup {"read"} /\ intr)

\* Where the final iret continues with a context loaded into regs: a
\* zeroed one has cs = 0, the iret raises #GP and isr_fault_handler
\* prints the panic and loops in cli; hlt.
Resumed(c) == IF c = NoCtx THEN "fault" ELSE c

\* Variant: picking the current process again leaves it READY.
Mut_Schedule(c) ==
  LET running == state[c] = "RUNNING"
      st1 == IF running THEN [state EXCEPT ![c] = "READY"] ELSE state
      ctx1 == IF running THEN [ctx EXCEPT ![c] = pc] ELSE ctx
      next == PickNext(st1, c)
  IN  \/ /\ next \in {c, NoSlot}
         /\ state' = st1
         /\ ctx' = ctx1
         /\ UNCHANGED <<current_pid, pc>>
      \/ /\ next \notin {c, NoSlot}
         /\ st1[next] \in {"READY", "RUNNING"}
         /\ current_pid' = pid[next]
         /\ state' = [st1 EXCEPT ![next] = "RUNNING"]
         /\ ctx' = ctx1
         /\ pc' = Resumed(ctx[next])

Schedule(c) ==
  LET running == state[c] = "RUNNING"
      st1 == IF running THEN [state EXCEPT ![c] = "READY"] ELSE state
      ctx1 == IF running THEN [ctx EXCEPT ![c] = pc] ELSE ctx
      next == PickNext(st1, c)
  IN  \/ /\ next \in {c, NoSlot}
         /\ state' = IF next = c \/ running
                       THEN [st1 EXCEPT ![c] = "RUNNING"] ELSE st1
         /\ ctx' = ctx1
         /\ UNCHANGED <<current_pid, pc>>
      \/ /\ next \notin {c, NoSlot}
         /\ st1[next] \in {"READY", "RUNNING"}
         /\ current_pid' = pid[next]
         /\ state' = [st1 EXCEPT ![next] = "RUNNING"]
         /\ ctx' = ctx1
         /\ pc' = Resumed(ctx[next])

Timer ==
  /\ TimerEnabled
  /\ FindSlots(current_pid) # {}
  /\ Schedule(Min(FindSlots(current_pid)))
  /\ intr' = (pc' # "fault" /\ intr)
  /\ UNCHANGED <<pid, ppid, next_pid, s_waiting, run_pid>>

(***************************************************************************)
(* SYS_fork: the dispatcher first copies the syscall frame into the       *)
(* caller's context, then process_fork creates the child in the lowest    *)
(* free slot with the copied context (eax = 0, so it resumes in user mode *)
(* returning 0) and the parent's pid as ppid.  The page directory is      *)
(* shared, not cloned (clone_page_directory).  With no free slot only the *)
(* context save remains and fork returns -1.                              *)
(***************************************************************************)
ForkChild(p) ==
  /\ next_pid <= MaxPid
  /\ LET c == Min(FreeSlots) IN
       /\ CreateIn(c, pid[p])
       /\ state' = [state EXCEPT ![c] = "READY"]
       /\ ctx' = [ctx EXCEPT ![p] = "user", ![c] = "user"]

ForkNoSlot(p) ==
  /\ FreeSlots = {}
  /\ ctx' = [ctx EXCEPT ![p] = "user"]
  /\ UNCHANGED <<state, pid, ppid, next_pid>>

SysFork ==
  /\ pc = "user"
  /\ FindSlots(current_pid) # {}
  /\ LET p == Min(FindSlots(current_pid)) IN
       \/ FreeSlots # {} /\ ForkChild(p)
       \/ ForkNoSlot(p)
  /\ UNCHANGED <<current_pid, s_waiting, run_pid, pc, intr>>

(***************************************************************************)
(* SYS_exit: proc_prepare_kernel_return checks that a resume point is     *)
(* armed and disarms it; proc_switch_to_kernel_now then jumps to          *)
(* after_user on the saved kernel stack, which destroys the pid of its    *)
(* own run_user_and_wait frame and returns to the shell.  The exiting     *)
(* process is not touched and current_pid is not reset.  The jump does    *)
(* not pass through iret, so IF stays as the interrupt gate left it.      *)
(* Without an armed resume point the dispatcher halts with cli; hlt.      *)
(***************************************************************************)
\* Variant: the exit jump destroys the exiting (current) process.
Mut_ExitToKernel ==
  /\ s_waiting
  /\ s_waiting' = FALSE
  /\ state' = [s \in Slot |-> IF s \in FindSlots(current_pid) THEN "UNUSED"
                                                               ELSE state[s]]
  /\ run_pid' = 0
  /\ pc' = "idle"

ExitToKernel ==
  /\ s_waiting
  /\ s_waiting' = FALSE
  /\ state' = [s \in Slot |-> IF s \in FindSlots(run_pid) THEN "UNUSED"
                                                           ELSE state[s]]
  /\ run_pid' = 0
  /\ pc' = "idle"

ExitPanic ==
  /\ ~s_waiting
  /\ pc' = "halted"
  /\ UNCHANGED <<state, s_waiting, run_pid>>

SysExit ==
  /\ pc = "user"
  /\ ExitToKernel \/ ExitPanic
  /\ intr' = FALSE
  /\ UNCHANGED <<pid, ppid, ctx, current_pid, next_pid>>

(***************************************************************************)
(* SYS_wait: process_wait of the current process.  No code path sets a   *)
(* process ZOMBIE (process_exit has no caller), so the collecting branch  *)
(* never applies.  With a live child the loop executes hlt with IF still  *)
(* cleared by the interrupt gate; without one it returns -1, which        *)
(* changes no state.                                                      *)
(***************************************************************************)
HasChildren(p) ==
  \E s \in Slot : state[s] \notin {"UNUSED", "ZOMBIE"} /\ ppid[s] = pid[p]

SysWait ==
  /\ pc = "user"
  /\ FindSlots(current_pid) # {}
  /\ HasChildren(Min(FindSlots(current_pid)))
  /\ pc' = "waitloop"
  /\ intr' = FALSE
  /\ UNCHANGED <<state, pid, ppid, ctx, current_pid, next_pid, s_waiting,
                 run_pid>>

(***************************************************************************)
(* SYS_read on fd 0: sti, then poll kbd_getch with sti; hlt until a line  *)
(* (or a full buffer) has been read; the line arrives by keyboard IRQs.   *)
(***************************************************************************)
SysRead ==
  /\ pc = "user"
  /\ pc' = "read"
  /\ intr' = TRUE
  /\ UNCHANGED <<state, pid, ppid, ctx, current_pid, next_pid, s_waiting,
                 run_pid>>

ReadLine ==
  /\ pc = "read"
  /\ pc' = "user"
  /\ UNCHANGED <<state, pid, ppid, ctx, current_pid, next_pid, s_waiting,
                 run_pid, intr>>

(***************************************************************************)
(* The kernel shell (not among the sources) waits for keyboard input with *)
(* hlt, which needs IF set: after a run returned with IF clear it sets it *)
(* again, as kernel_main's sti did before the first run.                  *)
(***************************************************************************)
ShellSti ==
  /\ pc = "idle"
  /\ ~intr
  /\ intr' = TRUE
  /\ UNCHANGED <<state, pid, ppid, ctx, current_pid, next_pid, s_waiting,
                 run_pid, pc>>

Next ==
  \/ RunUser \/ BeginWait \/ EnterUser
  \/ Timer
  \/ SysFork \/ SysExit \/ SysWait \/ SysRead \/ ReadLine
  \/ ShellSti

Spec == Init /\ [][Next]_vars

-----------------------------------------------------------------------------
(* Properties *)

TypeOK ==
  /\ state \in [Slot -> States]
  /\ pid \in [Slot -> 0 .. MaxPid]
  /\ ppid \in [Slot -> 0 .. MaxPid]
  /\ ctx \in [Slot -> Locs \cup {NoCtx}]
  /\ current_pid \in {-1} \cup 1 .. MaxPid
  /\ next_pid \in 1 .. MaxPid + 1
  /\ s_waiting \in BOOLEAN
  /\ run_pid \in 0 .. MaxPid
  /\ pc \in Locs
  /\ intr \in BOOLEAN

(***************************************************************************)
(* Pids are never shared: process_create hands out next_pid++ into slots  *)
(* that run_user_and_wait, fork and destroy recycle, and process_find    *)
(* resolves a pid by the first matching live slot.                        *)
(***************************************************************************)
PidsUnique ==
  \A s, t \in Slot : Live(s) /\ Live(t) /\ s # t => pid[s] # pid[t]

(***************************************************************************)
(* The code running in user mode or inside a system call on behalf of a   *)
(* process is accounted for: current_pid resolves to a live process and   *)
(* that process is RUNNING.  fork, wait and exit find their caller with  *)
(* process_current(), and process_schedule saves regs only for it.        *)
(***************************************************************************)
CallerIsCurrent ==
  /\ \A s \in FindSlots(current_pid) : state[s] = "RUNNING"
  /\ pc \in {"user"} \cup SyscallLocs => FindSlots(current_pid) # {}

(***************************************************************************)
(* The kernel shell thread, whose frame the timer may save into the       *)
(* context of the current process while run_user_and_wait is between     *)
(* process_set_current and enter_user_mode, or while the shell is idle,   *)
(* exists once: the CPU is not in the shell while a READY process holds a *)
(* shell frame, and no two READY processes hold one.  The exit jump must  *)
(* destroy exactly the process whose context holds the frame it resumes.  *)
(***************************************************************************)
ShellFrames == {s \in Slot : state[s] = "READY" /\ ctx[s] \in ShellLocs}

ShellFrameUnique ==
  Cardinality(ShellFrames) + (IF pc \in ShellLocs THEN 1 ELSE 0) <= 1

-----------------------------------------------------------------------------
(* Claims of the spec that the code does not keep (checked for violation) *)

(***************************************************************************)
(* Spec section 3: at most one process is RUNNING at any instant.  An     *)
(* exit jump destroys the run's own process, never the exiting one, so a  *)
(* forked child that exits stays RUNNING while the next run's process     *)
(* becomes RUNNING too.                                                   *)
(***************************************************************************)
AtMostOneRunning ==
  Cardinality({s \in Slot : state[s] = "RUNNING"}) <= 1

(***************************************************************************)
(* Spec section 5: user code is never preempted by other user code inside *)
(* a single system call.  SYS_read on fd 0 re-enables interrupts, so the  *)
(* timer can save the syscall's kernel frame and switch to another        *)
(* process, which then enters the kernel on the same TSS stack.           *)
(***************************************************************************)
SyscallNotPreempted ==
  \A s \in Slot : state[s] = "READY" => ctx[s] \notin SyscallLocs

(***************************************************************************)
(* The SYS_exit handler asserts that a resume point is armed whenever a   *)
(* process exits (otherwise "proc_prepare_kernel_return failed" and cli;  *)
(* hlt).  A forked process left behind by an earlier run can be switched  *)
(* in before the next run arms its resume point.                          *)
(***************************************************************************)
ExitFindsResumePoint == pc # "halted"

(***************************************************************************)
(* Spec section 3: run_user_and_wait installs a full ring-3 iret frame    *)
(* before the initial transition, and process_schedule rewrites regs from *)
(* the incoming process's saved context.  process_create leaves the new   *)
(* process READY with a zeroed context, IF is set in the shell, and a     *)
(* forked process left current by an exit can be interrupted there: the   *)
(* round robin then picks the new process and iret faults on cs = 0.     *)
(***************************************************************************)
ResumesSavedContext == pc # "fault"

FairSpec == Spec /\ WF_vars(Next)

(***************************************************************************)
(* Spec sections 4.7 and 8: a wait by a process whose child is alive      *)
(* returns once the child exits; the waiter halts with interrupts enabled *)
(* until a reschedule.  process_wait executes hlt with IF still cleared   *)
(* by the interrupt gate, and exit never makes a ZOMBIE.                  *)
(***************************************************************************)
WaitReturns == [](pc = "waitloop" => <>(pc # "waitloop"))

=============================================================================
