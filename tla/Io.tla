---------------------------------- MODULE Io ----------------------------------
(***************************************************************************)
(* The kernel's I/O paths composed: the terminal (Console, tty.c) and the *)
(* file system (Ext2, ext2.c and fs.c) behind the syscall dispatcher      *)
(* (src/kernel/proc/syscall.c).  SYS_write goes to sys_write_impl, which  *)
(* puts every byte on the serial line and the terminal; SYS_open,         *)
(* SYS_read on a descriptor other than 0, SYS_fwrite, SYS_close and       *)
(* SYS_fs_list go to fs_open, fs_read, fs_write, fs_close and             *)
(* fs_dump_list.  Whatever the file system prints with printf (mount      *)
(* messages, block I/O errors, the listing's trace) lands on the same     *)
(* terminal, in the same step.  kernel_main runs terminal_initialize *)
(* before fs_init.  SYS_read on descriptor 0 (the keyboard) is the        *)
(* Keyboard module's; the serial line is output only and left out.        *)
(***************************************************************************)
EXTENDS Ext2, Console

CONSTANTS
  Texts,    \* the buffers user code passes to SYS_write
  MsgChar   \* the text of one line printed by the file system

VARIABLE term

io_vars == <<fs, call, ret, nops, term>>

\* printf of n lines by the file system: each a message and a newline.
Lines(n) == [i \in 1 .. 2 * n |-> IF i % 2 = 1 THEN MsgChar ELSE NL]

\* The terminal after the step's file-system messages.
Printed == \E n \in {fs'.log} : term' = TermWrite(term, Lines(n))

IoInit == Init /\ term = Initialize(Boot)

\* kernel_main: fs_init, with its messages on the terminal.
IoFsBoot == FsBoot /\ Printed

\* SYS_write: sys_write_impl writes the buffer to the terminal and returns
\* its length to the caller.
SysWrite(s) ==
  /\ nops < MaxOps
  /\ term' = TermWrite(term, s)
  /\ nops' = nops + 1
  /\ UNCHANGED <<fs, call, ret>>

SysOpen(name) == Open(name) /\ Printed

\* SYS_read with fd != 0 is fs_read.
SysRead(fd, len) == fd # 0 /\ Read(fd, len) /\ Printed

SysFwrite(fd, data) == Write(fd, data) /\ Printed

SysClose(fd) == Close(fd) /\ Printed

\* SYS_fs_list: fs_dump_list into the caller's buffer.
SysFsList(len) == List(len) /\ Printed

IoNext ==
  \/ IoFsBoot
  \/ \E s \in Texts : SysWrite(s)
  \/ \E n \in Names : SysOpen(n)
  \/ \E d \in FdArgs, l \in LenArgs : SysRead(d, l)
  \/ \E d \in FdArgs, x \in DataArgs : SysFwrite(d, x)
  \/ \E d \in FdArgs : SysClose(d)
  \/ \E l \in ListLens : SysFsList(l)

IoSpec == IoInit /\ [][IoNext]_io_vars

-----------------------------------------------------------------------------
(* Properties of the composition.                                          *)

\* Type invariant of the composition.
IoTypeOK == TypeOK /\ TermOK(term)

\* The scrollback ring holds, in order, the last lines scrolled off by user
\* writes and file-system messages alike (Console!ScrollbackInOrder).
TermScrollback == ScrollbackInOrder(term)

\* The VGA buffer shows a window of everything user code and the file
\* system printed, ending display_offset lines above the cursor's screen
\* (Console!DisplayShowsWindow).
TermDisplay == DisplayShowsWindow(term)

\* The view follows the output (Console!FollowsOutput).
TermFollows == FollowsOutput(term)

\* The file syscalls implement Files (Ext2!FilesRefined) in the composition.
IoFilesRefined == Abs!Spec
=============================================================================
