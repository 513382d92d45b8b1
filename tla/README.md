# Formal models of the kernel core

This directory holds TLA+ models of the kernel under `src/kernel`. Each model has TLC configurations that check it on small instances, and TLAPS proofs that hold for every instance. What they cover:

- the process core: the process table, the user-mode bridge, the process system calls and the timer-driven process switch;
- the physical frame allocator;
- the memory layer over it: page tables, the kernel heap, the user break and the release of an address space;
- the keystroke path: the scancode decoder, its ring and the blocking `SYS_read` on fd 0;
- the kernel-thread scheduler, shown to implement an abstract round-robin pool;
- the I/O paths: the VGA terminal with its scrollback, the ext2 driver and file layer behind the file syscalls (shown to implement an abstract file service), and printf.

## 1. The system and its parts

The kernel is a 32-bit uniprocessor kernel, so all concurrency comes from interrupts. A hardware IRQ can arrive whenever EFLAGS.IF is set. The timer IRQ (`core/irq.c: timer_handler`) calls `process_schedule`, which can rewrite the saved interrupt frame so that the final `iret` resumes a different process. The `int 0x80` gate is an interrupt gate, so IF is clear on entry to every system call.

| Part | Source | State | Operations | Interacts with |
|---|---|---|---|---|
| Frame allocator (PMM) | `mm/pmm.c` | `bitmap`, `total_frames`, `free_frames_cnt` | `pmm_init`, `pmm_alloc_frame`, `pmm_alloc_frame_below`, `pmm_free_frame` | VMM page tables, heap, sbrk, `free_user_address_space` |
| VMM | `mm/vmm.c` | the active page directory and its tables | `vmm_map`, `vmm_unmap`, `vmm_resolve`, `get_pt` | allocates page tables from the PMM below 16 MiB |
| Kernel heap | `mm/heap.c` | `heap_cur`, `heap_end` | `kmalloc_init`, `kmalloc`, `map_more` | PMM and VMM |
| Process manager | `proc/process.c` | `process_table[MAX_PROCESSES]`, `current_pid`, `next_pid` | create, find, destroy, fork, wait, schedule | timer IRQ, syscalls, bridge |
| User-mode bridge | `proc/proc.c` | the resume point (`s_waiting`, esp/ebp/eip) | `run_user_and_wait`, `proc_begin_wait`, `proc_prepare_kernel_return`, `proc_switch_to_kernel_now` | `SYS_exit` |
| Syscall dispatcher | `proc/syscall.c` | the static `brk_cur` of sbrk | exit, read, sbrk, fork, wait and the I/O calls | every part above |
| Timer/IRQ dispatch | `core/irq.c` | none | `irq_handler`, `timer_handler` | `sched_tick`, `process_schedule` |
| Keystroke ring | `drivers/keyboard.c` | `buf[128]`, `uint8_t head, tail` | `keyboard_on_scancode`, `kbd_getch` | `SYS_read` |
| Kernel threads | `sched/sched.c` | `th[16]`, `current` | `kthread_create`, `rr_next`, `sched_yield` | timer IRQ (`sched_tick`) |
| GDT/TSS, IDT, PIC, PIT | `core/gdt.c`, `core/idt.c`, `arch/i386/*.c` | descriptor tables, ports | one-shot initialisation | none after boot |
| VGA terminal | `arch/i386/tty.c`, `core/stdio.c` | `terminal_screen`, the scrollback ring, cursor, `display_offset` | `terminal_putchar`, `terminal_write`, `terminal_render`, `printf` | every syscall and kernel message prints here |
| File system | `fs/ext2.c`, `fs/fs.c` | the mounted image, the one-block cache, the descriptor table | `fs_init`, open, read, write, close, `fs_dump_list` | the block device (`drivers/ata.c`), the file syscalls |
| Drivers, ELF parsing, HTAS benchmark, user programs | `drivers`, `fs/elf.c`, `sched/htas_benchmark.c`, `src/user` | device registers | I/O | reached only through the parts above |

The hard behaviours come from how the bridge, the table and the timer interact:

- A run (`run_user_and_wait`) creates a process, makes it current, arms the single global resume point and enters ring 3.
- A user process can fork. The child is READY in the same table and shares the parent's page directory (`clone_page_directory` returns its argument).
- The timer can switch to any READY process: from user mode, from the shell while IF is set, and from inside `SYS_read`, which executes `sti`.
- `SYS_exit`, from whichever process calls it, jumps to `after_user` of the run's frame.

## 2. Modules

### `Proc.tla`: process core, bridge, process syscalls, timer switch

`MC_Proc.tla` and `MC_Proc*.cfg` instantiate it.

**State.** Each per-slot field of `process_table` is a function on `Slot = 0..NSlots-1`: `state`, `pid`, `ppid` and `ctx`. The model also has:
- `current_pid` and `next_pid`;
- `s_waiting` from `proc.c`;
- `run_pid`, the local `pid` of the active `run_user_and_wait` frame;
- `pc`, where the CPU executes;
- `intr`, the IF flag.

A saved register frame is abstracted to the location it resumes at. `pc` takes one of these values:

| `pc` | Meaning |
|---|---|
| `idle` | the shell |
| `new` | inside `run_user_and_wait`, after `process_create` |
| `setup` | after the context stores (`proc.c:58-72`) |
| `marked` | after `p->state = PROCESS_RUNNING` |
| `created` | after `process_set_current` |
| `armed` | after `proc_begin_wait` |
| `user` | ring 3 |
| `read` | blocked in `SYS_read` with IF set |
| `waitloop` | the `hlt` loop of `process_wait` |
| `halted` | the `cli; hlt` panic of the `SYS_exit` dispatcher |
| `fault` | the `cli; hlt` of `isr_fault_handler` |

When `process_schedule` copies `regs` into a context and later copies that context back, the CPU continues where the frame was taken. That is the whole effect on control that the model keeps. `process_create` leaves a zeroed context (`NoCtx`). Resuming one (`Resumed`) makes the `iret` load `cs = 0`, which raises #GP, and `isr_fault_handler` halts: `pc` becomes `fault`.

**Actions and the code they model:**

| Action | Code |
|---|---|
| `RunUser` = `RunCreate`, `RunSetup`, `RunMark`, `RunSetCurrent` | `run_user_and_wait` up to `process_set_current`. IF is set in the shell, so each statement a tick can fall between is its own step: `process_create` (a READY slot with a zeroed context), the context stores, the state store, and `process_set_current`. When the table is full, `process_create` returns -1 and the call returns; nothing changes, so the model has no step for it. |
| `BeginWait` | `proc_begin_wait` |
| `EnterUser` | `enter_user_mode`, `iret` with IF=1 |
| `Timer`, `Schedule` | `timer_handler`, `process_schedule`, including its keep and switch branches |
| `SysFork` (`ForkChild` / `ForkNoSlot`) | the dispatcher's context save, then `process_fork` |
| `SysExit` (`ExitToKernel` / `ExitPanic`) | `proc_prepare_kernel_return`, the jump to `after_user`, and `process_destroy(pid)` of the run's frame |
| `SysWait` | `process_wait` with a live child, which ends in `hlt` with IF clear |
| `SysRead`, `ReadLine` | `SYS_read` on fd 0 |
| `ShellSti` | the shell's idle `sti` (`kernel_main` executes `sti` before `shell_run`) |

The scheduling policy `htas_pick_next_process` is not among the sources. `PickNext` models it from the spec (section 4.7) as round-robin.

### `PMM.tla`: frame allocator

`MC_PMM.tla` and `MC_PMM.cfg` instantiate it.

**State.** `bitmap` is the set of set bits. `free_frames_cnt` is the counter. `held` and `limit` represent the callers: a frame handed out and the bound it was requested below.

**Derived values:**
- `total_frames` clamps `max_addr` to `MAX_MEMORY_BYTES`.
- `reserve_region` rounds the end up and clamps it.
- `Init` is `pmm_init`: all reserved regions set and the counter decremented once per newly set bit.

**Actions:**
- `AllocFrame` and `AllocFrameBelow` are the two linear scans. `AllocFrameBelow` clamps `max_idx`. Both decrement the counter with saturation. A returned 0 is read by every caller as out of memory.
- `FreeFrame` is `pmm_free_frame`. Its arguments are a frame the caller holds, or an address that the code must ignore because it is out of range or already free. Such ignored calls change nothing and are stutters.

### `Mem.tla`: page tables, kernel heap, user break, address-space release

`MC_Mem.tla` and `MC_Mem*.cfg` instantiate it. Addresses are scaled: a page holds `PageSize` units and a page table spans `PtSpan` pages. Every process shares the one boot page directory (`proc.c:64` and `clone_page_directory`), so there is a single `pde`/`pte`.

**State.** `free` is the PMM's free frames. `pde` and `pte` are the directory and tables. `heap_cur` and `heap_end` are the heap's globals. `brk_cur` is the static break of `SYS_sbrk`. `call` is a `kmalloc`/`map_more`/`vmm_map` call in progress, one loop iteration per step. `prog` and `live` record the running program and how many processes use its address space. `blocks` and `slast` are history: every block `kmalloc` returned, and the last sbrk of the running program. `ncalls` and `nruns` are the model bounds `MaxCalls` and `MaxRuns`.

**Actions.**
- `Kmalloc` (with `AlignUp`), `AllocFails`, `MapNoTable`, `MapOk` and `LoopEnd` are `kmalloc`, `map_more` and `vmm_map`/`get_pt` step by step.
- `Sbrk` is `SYS_sbrk`, with its ignored `vmm_map` failures.
- `Load` is the ELF loader's `map_user_range` of the image and the stack.
- `Fork` is `process_fork`, whose child shares the directory.
- `Exit` is the exit jump to `after_user`. It runs `ProcessDestroy`, which is `process_destroy`, and that runs `FreeUserSpace`, which is `free_user_address_space`.

### `Keyboard.tla` and `KeyQueue.tla`: the keystroke path

`MC_Keyboard.tla` and `MC_Keyboard*.cfg` instantiate it. The PS/2 IRQ 1 handler feeds `keyboard_on_scancode` one byte at a time. The USB boot keyboard's `usb_keyboard_process_report` feeds it from `usb_poll` in the timer IRQ (`TimerReport`, `TimerNoReport`). Both run with IF clear, so each is one step.

`SYS_read(0)` is split at every point where the timer or keyboard IRQ can preempt it after its `sti` (`ReadEntry`, `ReadSti`, `ReadEmpty`, `ReadHlt`, `ReadNonEmpty`, `ReadFetch`, `ReadReturn`). In particular, `kbd_getch`'s emptiness test and its fetch are separate steps. So are the test that finds the ring empty (`keyboard.c:107`) and the `sti; hlt` that follows (`syscall.c:72`). An IRQ in between is handled at once, because IF is already set, and the `hlt` then waits for the next IRQ.

`head` and `tail` keep their `uint8_t` width (`IdxMod = 256` over a `BufSize = 128` ring). A store past `buf` is undefined behaviour. The model records it (`oob`), and a later fetch from there returns any value of `Junk`. `acc` is a history of every key stored.

`KeyQueue` is the spec's bounded drop-newest FIFO. `KeyQueueRefined` instantiates it with the ring's contents.

### `Sched.tla` and `KThreads.tla`: kernel threads

`MC_Sched.tla` and `MC_Sched*.cfg` instantiate it.

**State.** `th[i].esp` is abstracted to the stack it points into. A suspended stack is abstracted to how it resumes: in the timer handler, in `sched_yield`, or fresh at `kthread_trampoline`. `cpu` is the stack executing. `intr` and `isr` are the IF flag and the owed EOI, which `ctx_switch` carries across a switch.

**Actions.**
- `kthread_create` is two steps around the `kmalloc` of its stack (`CreateScan`, `CreateClaim`).
- `sched_yield` is one step per line (`YieldPick`, `YieldOut`, `YieldIn`, `YieldSwitch`), so that a tick can land between them.
- The timer IRQ's `sched_tick` is `TickSwitch` or `TickStay`. `Resume` is the rest of `irq_handler`.
- The trampoline's park loop is `Park`.

`KThreads` is the spec's pool: one RUNNING thread, the current one, and switches to the next READY slot in cyclic order. `KThreadsRefined` maps `th` and `current` to it, with `MidYield` hiding the half-done yield.

### `Console.tla`, `Ext2.tla`, `Files.tla`, `Io.tla`: terminal and file system

`MC_Io.tla` and `MC_Io*.cfg` instantiate `Io`. `Io` composes `Console` (the terminal) and `Ext2` (the file system) behind the syscall dispatcher.

**Console** (`tty.c`). The terminal is one record `term`. Its fields are the off-screen screen, the scrollback ring with `head` and `cnt`, the cursor, `display_offset`, the VGA buffer, and a history of every line scrolled off. The operators follow the code: `ScrollbackPush`, `ScrollLine`, `Render`, `PutEntryAt`, `NewRow`, `PutAtBottom`, `PutChar` (with its `scroll_to_bottom`) and `TermWrite`.

`TermWrite` is recursive over the characters. Its `u = u` test forces TLC to compute each character's terminal before the next, so that long writes do not overflow the evaluator's stack.

**Ext2** (`ext2.c`, `fs.c`, with `ata.c` reduced to its outcomes). The driver state is one record `fs`: the mount source (`g_img` or the disk), the one-block cache and its tag, the descriptor table, and the disk's blocks. A helper that can fail returns the set of its outcomes, and `Bind` chains them.

- `FsBoot` is `fs_init`: module mount, disk mount, and copying the module to the disk.
- `Open`, `Read`, `Write` and `Close` are `fs_open`, `fs_read`, `fs_write` and `fs_close` through `ext2_read_file`, `ext2_write_file`, `get_block`, `write_block` and `block_read`/`block_write`.
- `List` is `fs_dump_list` → `ext2_list`: `CopyName` copies a name into the caller's buffer, `ScanEntries` walks one directory block and `ListBlocks` walks the directory's blocks.
- With `DiskFaults`, a block transfer can fail after any number of its sectors, as `ata_wait_drq` and `ata_wait_busy` can fail between sectors.

The layout (inodes, directory, extents) is a constant. Nothing writes it: writes only overwrite file bytes.

`Files` is what the file layer promises: mount or not at boot, the lowest free descriptor from 3 up, reads and in-place overwrites at the descriptor's position, and the root listing. `Abs` maps `fs` onto it.

**Io** adds `term`. `SysWrite` writes a user buffer to the terminal. Every file-system step also prints its `printf` lines (`Printed`): the file system's messages land on the same terminal in the same step.

### `Printf.tla`: printf

`MC_Printf.tla` instantiates it with `Bits = 8`. `Vprintf` is `vprintf`'s format loop and `Conv` its switch. `PrintInteger` is `kernel_print_integer`, recursive on `n / base`, with every int/long/unsigned conversion a two's-complement reinterpretation of a `Bits`-bit word. `RefOut` is C's rendering of the same conversions.

## 3. Runs

PROJECT.json lists twelve runs. Every module also has extra `.cfg` files that state properties the code breaks. They are kept beside the listed runs and described under "Further configurations".

| Run | Result | What it shows |
|---|---|---|
| `proc_safety` (`MC_Proc.cfg`) | passes | With 3 slots and pids up to 5, and a tick possible between every statement of `run_user_and_wait`, the state keeps its type (`TypeOK`, including a resume of a zeroed context, which lands in the fault handler). Every interleaving keeps pids unique (`PidsUnique`), and the code in user mode or in a syscall has a current process that is RUNNING (`CallerIsCurrent`). A READY process holding a saved shell frame never coexists with the CPU in the shell or with a second such process (`ShellFrameUnique`). |
| `proc_one_running` | violation | Spec section 3 says at most one process is RUNNING. Trace: fork, the timer switches to the child, the child exits, and the exit destroys the run's process instead of the child. The child stays RUNNING next to the next run's process. |
| `proc_zero_context` | violation | Spec section 3 says `run_user_and_wait` installs a full ring-3 frame and a switch resumes the incoming process's saved context (`ResumesSavedContext`). Trace: fork, a tick to the child, the child exits (the exit destroys the parent), and `process_create` of the next run leaves the new slot READY with a zeroed context. A tick in the shell (IF set, the leaked child current) picks that slot, and the `iret` faults (`proc.c:52`). |
| `pmm_safety` (`MC_PMM.cfg`) | passes | Bounded and unbounded allocations, double frees, frees of clear bits and out-of-range frees keep the counter exact (`FreeCountExact`). Every set bit is reserved or held, never both (`BitmapAccounted`). Every frame from `pmm_alloc_frame_below(m)` lies wholly below `m` (`HeldBelowLimit`). |
| `kbd_order` (`MC_Keyboard.cfg`) | passes | Keys typed on both keyboards reach `SYS_read(0)` in the order the decoder stored them, with the IRQs landing anywhere in the read loop (`KeysInOrder`). Under the fairness below, a read that polls always drains the ring or returns (`ReadDrainsRing`). |
| `kbd_queue_bound` | violation | Spec: the queue is bounded and drops the newest key when full. The 8-bit `head` and `tail` run over a 128-entry `buf`, so the ring accepts a 129th key, stored past the buffer (`keyboard.c:103`). |
| `sched_rr` (`MC_Sched.cfg`) | passes | With the bootstrap thread creating threads that cooperate through `sched_yield`, the scheduler implements `KThreads`, the spec's round-robin pool, including its fairness (`KThreadsRefined`). |
| `sched_safety` (`MC_Sched_Safety.cfg`) | passes | With threads that return and park, every switch resumes a saved context (`ContextsIntact`) and no created thread is lost (`NoThreadLost`). |
| `mem_safety` (`MC_Mem.cfg`) | passes | Six frames are shared by the kernel heap, two program runs, sbrk and fork. `kmalloc` blocks stay aligned and disjoint (`BlocksDisjoint`), page tables come from low memory (`TypeOK`), and no mapping reaches a free frame or a frame used twice (`NoDanglingMapping`). |
| `mem_fork_exit` | violation | A program forks and one of the two processes exits. The shared directory's user pages are freed while the other process is still in the table (`ProgramMapped`). |
| `io_safety` (`MC_Io.cfg`) | passes | Boot with every module/disk combination, then user writes, file syscalls and listings in any order. The scrollback ring holds the last lines scrolled off, in order (`TermScrollback`). The VGA buffer shows a window of everything printed (`TermDisplay`). The ext2 driver behind `fs.c` implements `Files` (`IoFilesRefined`). |
| `io_cache_fault` | violation | With block transfers that can fail part-way, the one-block cache comes to hold data that is not on the disk under its tag (`CacheCoherent`, `ext2.c:129`). |

**Further configurations.** Each of these states one property that TLC finds violated. They are referred to from the hazards in PROJECT.json.

| Configuration | What TLC finds |
|---|---|
| `MC_Proc_SyscallNotPreempted.cfg` | A tick during `SYS_read` parks the reading process inside the syscall. |
| `MC_Proc_ExitFindsResumePoint.cfg` | A leaked child exits before the next run arms its resume point, which reaches the dispatcher's panic. |
| `MC_Proc_WaitReturns.cfg` | `SYS_wait` on a live child never returns, because `hlt` runs with IF clear. |
| `MC_Keyboard_NewlineOnlyAtEnd.cfg` | `SYS_read(0)` truncates a `KEY_*` code to a byte, so `KEY_SCROLL_DOWN` (0x10A) lands in the user buffer as a newline before the end of the line (`syscall.c:78`). |
| `MC_Keyboard_PrefixKeptForOwner.cfg` | A USB report between the two bytes of a PS/2 `0xE0` sequence consumes the prefix. |
| `MC_Sched_YieldRace.cfg` | A tick between `sched_yield`'s state update and its `ctx_switch` loses a context. |
| `MC_Sched_CreateRace.cfg` | With two creating threads, a tick during one's `kmalloc` lets the other claim the same UNUSED slot, and a created thread is lost (`NoThreadLost`). |
| `MC_Sched_NoPreempt.cfg` | A switched-in thread inherits IF clear and the owed EOI from the timer handler, so no further tick preempts it and a READY thread never runs (`ReadyEventuallyRuns`). |
| `MC_Sched_ParkHalts.cfg` | A thread that returns parks in `hlt` with IF clear, and every other thread waits forever (`ReadyEventuallyRuns`). |
| `MC_Mem_SbrkBacked.cfg` | `brk_cur` is a static that is never reset, so the next program's `sbrk` returns the old break, whose page was freed at exit and is not mapped again (`syscall.c:99`). |
| `MC_Mem_KmallocBacked.cfg` | `kmalloc` returns unmapped memory after `map_more` fails. |
| `MC_Mem_NoFrameLost.cfg` | A load or a mapping that fails part way leaves frames allocated and owned by nothing (`elf.c:189`, `vmm.c:24`). |
| `MC_Io_MountedAfterInit.cfg` | `fs_init` ends with nothing mounted after disk faults (`fs.c:84`). |
| `MC_Printf.cfg` | `printf` is checked against C's rendering of every conversion, on every format of up to 3 characters, with edge-value arguments (`RendersAsReference`). Only `%u` of a word with the top bit set differs: it prints `-128` for 128 at 8 bits (`stdio.c:111`). `%x` uses base 16, which never takes the sign path. |
| `MC_Io_TermFollows.cfg` | `terminal_scroll_line` increments `display_offset` while the view is at the bottom, so output scrolls the view away from the cursor (`tty.c:137`). |

**Bounds.**
- **Proc.** Three process slots are enough for a run's process, a forked child and a second run's process at the same time. Both violations already occur with two slots. The third lets a fork find a free slot while two runs' processes are live, and lets it find the table full later. Five pids allow slot reuse after destroy and a second run after a leak.
- **PMM.** 2-byte frames, 7 live frames out of 8. The regions cover a range that needs rounding up, one that is clamped at the end of memory, and low memory containing frame 0.
- **Keyboard.** `BufSize = 3` and `IdxMod = 6` keep the code's ratio of 128 entries to 256 index values, so the overflow at entry `BufSize + 1` is reachable in 4 keys. The passing run has 7 key events, enough to wrap both the ring and the indices.
- **Sched.** 5 slots and 4 stacks let a thread be created, return, and have its slot reused.
- **Mem.** Six frames make heap growth, page-table allocation and a program load compete, so each allocation can fail.
- **Io.** A 2×2 screen with 2 scrollback lines makes every write scroll and wrap the ring. Four operations after boot reach open-read-write-close sequences and listings. Listing buffer lengths of 3 and 13 cover a truncated and a complete listing. The 2-sector blocks let a transfer fail between its sectors.

**Deadlock.** Deadlock checking is off where the system really stops, or where the model's bound on operations is used up: the `SYS_exit` panic, the fault handler's halt and the `hlt` of wait (Proc), a thread parked with IF clear (Sched), the `MaxCalls`/`MaxRuns`/`MaxOps` bounds (Mem, Io), and the single `printf` call (Printf). Each cfg says why in a comment.

**Fairness.**
- `Keyboard` assumes weak fairness of the reader and of the timer tick without a report. The timer IRQ fires every period while IF is set, and the reader is the only code that runs. The timer is needed: a key stored between `kbd_getch`'s empty test and the `sti; hlt` does not end that `hlt`, and only the next IRQ does. Without `WF_vars(TimerNoReport)`, TLC finds `ReadDrainsRing` violated.
- `Sched` assumes weak fairness of the timer's switch and of `sched_yield`'s steps. The PIT keeps firing, and a thread in the middle of `sched_yield` is running.
- `KThreads` asks for weak fairness of a switch.
- `Proc`'s liveness configuration assumes `WF_vars(Next)`, the weakest assumption under which wait could return, and it still fails.

**Mutants.** Each property of a passing run is broken by a plausible bug in the mapped code. These are the `Mut_*` operators of each module:
- `process_create` without `next_pid++` breaks `PidsUnique`.
- `process_schedule` leaving a re-picked process READY breaks `CallerIsCurrent`.
- `run_user_and_wait` without its `pid < 0` check (`proc.c:53`) carries -1 into `process_set_current` and breaks `TypeOK`.
- The exit jump destroying the exiter breaks `ShellFrameUnique`.
- An unclamped or inclusive `max_idx` breaks `TypeOK` or `HeldBelowLimit`.
- A free without `bm_test` breaks `FreeCountExact`, and one that rounds the index up breaks `BitmapAccounted`.
- A ring `head` without the `uint8_t` wrap breaks `TypeOK`. Advancing the index before the store breaks `KeysInOrder`. An off-by-one `buf_empty` breaks `ReadDrainsRing`.
- `rr_next` modulo `MAX_THREADS - 1` breaks `KThreadsRefined`. `ctx_switch` storing into the wrong slot breaks `ContextsIntact`. A creation scan that does not test UNUSED breaks `NoThreadLost`, and one that reads past `th` breaks `TypeOK`.
- `get_pt` taking tables from `pmm_alloc_frame` breaks `TypeOK`. Rounding down in `kmalloc` breaks `BlocksDisjoint`. `free_user_address_space` leaving the PDE breaks `NoDanglingMapping`.
- A scrollback push that does not advance `head` breaks `TermScrollback`. `terminal_putentryat` without the write-through breaks `TermDisplay`. A scroll test with `>` breaks the type invariant. A read chunk not capped by the file size breaks `IoFilesRefined`.

## 4. Proofs

`ProcProofs.tla`, `PMMProofs.tla`, `SchedProofs.tla` and `MemProofs.tla` hold the TLAPS proofs. Every lemma and theorem is checked with `tlapm` down to every leaf. Each safety theorem has the same structure:
- an inductive strengthening `I` (checked first with TLC as an invariant of the module's model);
- `Init => I`;
- one lemma per action or group of actions, showing that `I` is preserved;
- `Spec => []I`, proved by PTL, from which the property follows.

**`ProcProofs`.** Four theorems hold for every `NSlots ≥ 1` and `MaxPid ≥ 1`: `TypeCorrect` (`Spec => []TypeOK`), `PidsUniqueHolds` (`Spec => []PidsUnique`), `CallerIsCurrentHolds` (`Spec => []CallerIsCurrent`) and `ShellFrameUniqueHolds` (`Spec => []ShellFrameUnique`).

`run_user_and_wait` runs with IF set, and the model splits it at every statement a tick can fall between. During that window the shell's frame can be parked in any process, and the new process's zeroed context can be resumed. So none of the four properties is inductive alone: `TypeOK` already needs the shell invariant. `process_set_current` copies `run_pid` into `current_pid`, and that is a pid only if the run's process still exists when the shell reaches that statement. All four theorems follow from one invariant, `PInv` (`AlwaysPInv`), with three layers:
- `IInv`: `TypeOK`; every live slot's pid is in `1..next_pid-1` (`LivePidsOK`); `current_pid` and `run_pid` are below `next_pid` (`PidsBelow`); `PidsUnique`. A timer switch sets `current_pid` to the pid of a READY slot. `Resumed` maps a zeroed context to the `fault` location, so `pc` stays a location.
- `CallerIsCurrent` itself.
- `ShInv`, which is about where the shell thread is. `ShellAt(L)` holds when the CPU runs the shell at a location of `L`, or a READY process holds its frame saved there. `ShInv` has four parts:
  - `RunOK`: no resume point is armed before `proc_begin_wait`. The run's process exists from `process_create` until the exit jump. After the state store it is RUNNING and not current.
  - `FrameOwner`: a frame saved after `process_set_current` belongs to the run's process. One saved before it belongs to another process.
  - `ShellOK`: the same, for the shell the CPU runs.
  - `OneShellFrame`: no frame exists while the CPU is in the shell, and any two frames are one.

The proof has one lemma per action for each layer:
- `RunCreate`, `RunMark`, `RunSetCurrent`, `Timer`, `SysFork` and `SysExit` each have an `…IInv`, a `…CInv` and a `…ShInv` lemma;
- `RunSetup` has `RunSetupIInv` and `RunSetupShInv`;
- `ShellStepsIInv`, `ShellStepsCInv` and `ShellStepsShInv` cover the remaining steps;
- `NextPInv` combines them.

The general lemmas are:
- `CreateKeeps`: a creation in the first free slot keeps pids unique and below `next_pid`;
- `KeepLive` and `PcOnlyIInv`: steps that keep the set of live slots;
- `SameFinds`;
- `FramesKept` and `PcOnlyShInv`: steps that keep the shell frames;
- `RunSlotLive`;
- `TimerStep`, which unfolds `process_schedule` into its keep and switch branches.

The timer carries the argument:
- A tick in the shell saves the only frame, because there was none.
- A switch to the frame resumes the shell, and it was the only frame.
- Any other switch leaves the frames alone.
- After the state store, neither the parked slot nor the resumed one holds the run's pid: the parked one is current, and the resumed one is READY.
- `SYS_exit` jumps to `after_user` only with `s_waiting` set. By `RunOK` and `FrameOwner`, every frame then belongs to the run's process, which `process_destroy(pid)` frees.

All of these rest on:
- `MinInSet`, which shows that `Min` of a nonempty set of naturals is its least member, from the well-foundedness of `<` on `Nat` (`WFMin`);
- `PickNextReady`, which shows that round-robin returns a READY slot or none.

`OneFrameCount` turns `OneShellFrame` into the cardinality bound, with `FS_EmptySet` and `FS_Singleton`. TLC checked `PInv` as an invariant with 3 slots and pids up to 5, and with 4 slots and pids up to 7, before it was proved.

**`PMMProofs`.** `TypeCorrect` and `FreeCountExactHolds` hold for every frame size, capacity, memory size and region set. The strengthening adds two facts:
- every set bit lies below `total_frames`;
- hence the bitmap is finite and its cardinality is at most `total_frames`.

With that, an allocation's saturating decrement never meets a zero counter. The lemmas are:
- `TotalFramesBound`: `total_frames ≤ MAX_FRAMES`;
- `ReservedInLive`: the clamping of `reserve_region`;
- `LowestInSet`;
- `TakeIInv` and `FreeIInv`, which use `FS_AddElement` and `FS_RemoveElement`.

`BitmapAccountedHolds` and `HeldBelowLimitHolds` go through `AInv`, which adds three facts:
- held frames are disjoint from the reserved ones;
- every held frame's bit is set;
- the frames taken by `pmm_alloc_frame_below` lie below their limit.

They assume `LowRegionAssumption` (PMM.tla): some region starts at address 0. `pmm_init` always reserves the low megabyte, and the frames a region reserves must be among those it describes. Every configuration the boot code builds from the multiboot map satisfies this, and `MC_PMM` evaluates it.

**`SchedProofs`.** `TypeCorrect`, `ContextsIntactHolds` and `NoThreadLostHolds` hold for every `MAX_THREADS` and stack count, under `KernelConfig`: only the bootstrap thread calls `kthread_create`, and only created threads call `sched_yield`. Nothing under `src/` calls `kthread_create` yet, so this is the usage the API supports: threads created from the thread that ran `sched_init`, with preemption left to the tick. The hypothesis is not a convenience: `MC_Sched_CreateRace.cfg` and `MC_Sched_YieldRace.cfg` show `NoThreadLost` and `ContextsIntact` failing when it is dropped. The strengthening `SInv` has five parts:
- `FlagsOK`: what IF and the owed EOI are at each resume point;
- `StacksOK`: every allocated stack is the CPU's, or is suspended at a resume point and owned by its thread;
- `PcOK`;
- `SlotsOK`;
- `YieldOK`: how far the four steps of `sched_yield` have moved `th[]` and `current`.

`ResumeSuspended` and `ReadyStack` carry a switch's target to a saved context.

**`MemProofs`.** `BlocksDisjointHolds` holds for every page size, alignment, heap base and set of request sizes. The strengthening `KInv` has three parts:
- `HeapOK`: every block lies between `KBase` and `heap_cur`, and `heap_cur ≤ heap_end`;
- `KmallocOK`: a `kmalloc` in progress returns an aligned pointer at or above `heap_cur`, and its `map_more` loop ends past the block;
- the shape of `call`.

`MemAssumption` requires `KBase ∈ Nat`, a page-aligned kernel heap base, which is true of `kmalloc_init`'s base `0xC0200000`. The lemmas on the operators are:
- `CeilCovers` and `AlignUpOK`: rounding up covers and aligns;
- `RoundUpOK`;
- `MapMoreOK`: the loop's end covers the request.

`TypeCorrect` and `NoDanglingMappingHolds` hold for the same layouts, with `BrkBase` and `KTop` natural. They go through `KInv /\ FInv` (`MemInvHolds`). `FInv` has five parts:
- `FrameTypes`;
- `LiveOK`: a loaded program has a live process, and the loader runs only with none;
- `SbrkOK`: an `sbrk` in progress returns the break it started from;
- `PtsUnique`: no two directory entries share a page table, and the boot table sits only in the kernel's entry;
- `NoDangle`: the property itself, over `PTSet`, the set of page tables.

`PtsUnique` is what makes `NoDangle` inductive: `free_user_address_space` returns each page table once, so a table freed twice would land on the free stack while still mapped. The proof rests on these lemmas:
- `DivBounds`, `DivUnique`, `DivMono` and `DivDiv`: facts about `\div` that the provers do not find alone;
- `PdeOfPage`: a user page's directory entry is a user entry, never the kernel's;
- `NatHasMin` and `LowestIn`: `pmm_alloc_frame_below` takes the least free frame below its limit;
- one lemma per operation: `KmallocFInv`, `SbrkFInv`, `LoadFInv`, `ForkFInv`, `AllocFailsFInv`, `MapNoTableFInv`, `MapPresentFInv`, `MapAbsentFInv`, `LoopEndFInv` and `ExitFInv`.

**Only model-checked, and why.**
- Every property of `Keyboard`. `DecodeAll` is a `FoldLeft` of the scancode decoder over the whole scancode sequence. `KeysInOrder` relates that fold to the queue, for every sequence, so it needs induction over the sequence. The library's induction theorems take an operator parameter, which the installed provers cannot instantiate.
- Every property of `Io` and `Printf`. The terminal, the ext2 listing, `printf` and the reference renderings are RECURSIVE operators. The prover loses its SMT backend in any module that reaches one, so those modules hold no theorems.
- All liveness (`ReadDrainsRing`, the fairness inside `KThreadsRefined`) and both refinements (`KThreadsRefined`, `IoFilesRefined`). The prover cannot reason about fairness or `ENABLED`. `IoFilesRefined` also maps through the recursive ext2 listing. `KThreadsRefined` includes the pool's fairness, and its safety part, a step-by-step simulation under `MidYield`, is not proved yet.

## 5. Not modelled

- **GDT, TSS, IDT, PIC and PIT setup.** This is one-shot table and port initialisation at boot. Only its effects enter the models: the `0x80` gate clears IF, and IRQ 0 drives the timer.
- **Device drivers** (`ata.c`, `ahci.c`, `usb_uhci.c`, `pci.c`, `serial.c`). These are register programming. Their only effect on modelled state is whether a block transfer succeeds, and `Ext2` models that as a transfer that fails after any number of sectors. The serial line is output only.
- **ELF parsing** (`elf.c`). Only the mapping of the image and the stack is modelled, in `Mem`.
- **The HTAS benchmark.** It is not called by the kernel's own paths, and `htas_pick_next_process` is not among the sources. `Proc` models it from the spec as round-robin.
- **User programs** (`src/user`). They appear only as the system calls they make. `ush`'s `cmd_ls` passes a 511-byte buffer, and the listing lengths of `MC_Io` include one longer than the listing.
- **Callerless routines.** `terminal_scroll_view`, `terminal_clear`, `terminal_setcolor`, `fs_list_print`, `process_exit` and `process_switch` have no caller, so they are not actions.
- **Printf's count.** `printf`'s return value leaves out `%s` (the FIXME at `stdio.c:96`). `Printf` models the count, but no caller uses it, so no property is stated about it.
