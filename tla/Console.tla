------------------------------- MODULE Console -------------------------------
(***************************************************************************)
(* The VGA text terminal of src/kernel/arch/i386/tty.c.                   *)
(*                                                                         *)
(* The terminal keeps an off-screen copy of the screen (terminal_screen), *)
(* a ring of the lines that scrolled off the top (scrollback, with        *)
(* scrollback_head and scrollback_count), the cursor (terminal_row,       *)
(* terminal_column), and display_offset, how many lines the view is       *)
(* scrolled back; terminal_render copies the window it selects into the   *)
(* VGA buffer.  Everything that prints goes through terminal_putchar:     *)
(* sys_write_impl, printf (stdio.c) and the echo of SYS_read on fd 0.     *)
(* The callers Io models run with IF clear: the system calls inside the  *)
(* int 0x80 gate, and fs_init, which kernel_main calls before its sti, so *)
(* one call of terminal_write (a syscall's whole buffer) is one step.     *)
(* Other callers print with IF set: the echo of SYS_read on fd 0 (after   *)
(* its sti), kernel_main after its sti, and the shell.  An IRQ handler    *)
(* that prints (irq.c's unhandled-IRQ message, isr_fault_handler) could   *)
(* then interleave with them.  These callers are not modelled.            *)
(*                                                                         *)
(* The colour attribute is left out: terminal_setcolor has no caller, so  *)
(* every cell carries the same attribute and a cell is its character.     *)
(* The state is one record, term, so that the composed Io module can      *)
(* carry it as a single variable.  hist is a history variable: every line *)
(* that ever scrolled off, oldest first; the code keeps only the last     *)
(* SCROLLBACK_LINES of them.                                               *)
(***************************************************************************)
EXTENDS Integers, Sequences, FiniteSets

CONSTANTS
  W,        \* VGA_WIDTH
  H,        \* VGA_HEIGHT
  SB,       \* SCROLLBACK_LINES
  Letters,  \* the printable characters a test writes
  NL, BS, CR, \* '\n', '\b' and '\r'
  Blank,    \* ' ', what a cleared cell holds
  Nul       \* a zero cell: the scrollback array is static, zero-filled

ASSUME ConsoleAssumption ==
  /\ W \in Nat \ {0} /\ H \in Nat \ {0, 1} /\ SB \in Nat \ {0}
  /\ {NL, BS, CR, Blank, Nul} \cap Letters = {}
  /\ Cardinality({NL, BS, CR, Blank, Nul}) = 5

Col == 0 .. W - 1
Row == 0 .. H - 1
Cell == Letters \cup {Blank, Nul}
Line == [Col -> Cell]
BlankLine == [x \in Col |-> Blank]

Term == [scr : [Row -> Line], row : Row, col : Col, sb : [0 .. SB - 1 -> Line],
         head : 0 .. SB - 1, cnt : 0 .. SB, off : 0 .. SB, vga : [Row -> Line],
         hist : Seq(Line)]

\* scrollback_base_index: the ring slot of the oldest kept line.
BaseIndex(t) == IF t.cnt = 0 THEN 0 ELSE (t.head + SB - t.cnt) % SB

\* terminal_render: clamp the offset, then copy into the VGA buffer the H
\* lines of (kept scrollback ++ screen) that end off lines above the bottom.
Render(t) ==
  LET o     == IF t.off > t.cnt THEN t.cnt ELSE t.off
      start == t.cnt - o
      Shown(y) == IF start + y < t.cnt
                    THEN t.sb[(BaseIndex(t) + start + y) % SB]
                    ELSE t.scr[start + y - t.cnt]
  IN [t EXCEPT !.off = o, !.vga = [y \in Row |-> Shown(y)]]

\* terminal_initialize: blank screen, empty scrollback, cursor home.
Initialize(t) ==
  Render([t EXCEPT !.scr = [y \in Row |-> BlankLine], !.row = 0, !.col = 0,
                   !.head = 0, !.cnt = 0, !.off = 0])

\* Mutant: the head is not advanced, so every push overwrites one slot.
Mut_ScrollbackPush(t, l) ==
  [t EXCEPT !.sb[t.head] = l,
            !.cnt = IF t.cnt < SB THEN t.cnt + 1 ELSE t.cnt,
            !.hist = Append(t.hist, l)]

\* scrollback_push_line: store the line at head, advance head mod SB, count
\* up to SB.  The history variable records the line.
ScrollbackPush(t, l) ==
  [t EXCEPT !.sb[t.head] = l, !.head = (t.head + 1) % SB,
            !.cnt = IF t.cnt < SB THEN t.cnt + 1 ELSE t.cnt,
            !.hist = Append(t.hist, l)]

\* terminal_scroll_line: push the top row, move the screen up a row, blank
\* the last row, put the cursor at its start, keep a scrolled-back view on
\* the same text (offset + 1, capped at the count), render.
ScrollLine(t) ==
  LET p == ScrollbackPush(t, t.scr[0])
  IN Render([p EXCEPT
       !.scr = [y \in Row |-> IF y < H - 1 THEN t.scr[y + 1] ELSE BlankLine],
       !.row = H - 1, !.col = 0,
       !.off = IF t.off < p.cnt THEN t.off + 1 ELSE t.off])

\* Mutant: the cell is written off screen only, never to the VGA buffer.
Mut_PutEntryAt(t, c, x, y) == [t EXCEPT !.scr[y][x] = c]

\* terminal_putentryat: write the off-screen cell, and the VGA cell too when
\* the view is at the bottom.
PutEntryAt(t, c, x, y) ==
  [t EXCEPT !.scr[y][x] = c,
            !.vga = IF t.off = 0 THEN [@ EXCEPT ![y][x] = c] ELSE @]

\* Mutant: the scroll test compares with '>' and lets the row reach H.
Mut_NewRow(t) == IF t.row + 1 > H THEN ScrollLine(t) ELSE [t EXCEPT !.row = @ + 1]

\* '++terminal_row == VGA_HEIGHT' with its scroll; the column is already 0.
NewRow(t) == IF t.row + 1 = H THEN ScrollLine(t) ELSE [t EXCEPT !.row = @ + 1]

\* terminal_putchar after its scroll_to_bottom.
PutAtBottom(t, c) ==
  CASE c = BS /\ t.col > 0 ->
         PutEntryAt([t EXCEPT !.col = @ - 1], Blank, t.col - 1, t.row)
    [] c = BS /\ t.col = 0 /\ t.row > 0 ->
         PutEntryAt([t EXCEPT !.row = @ - 1, !.col = W - 1], Blank, W - 1, t.row - 1)
    [] c = BS -> t
    [] c = CR -> [t EXCEPT !.col = 0]
    [] c = NL -> NewRow([t EXCEPT !.col = 0])
    [] OTHER ->
         LET u == PutEntryAt(t, c, t.col, t.row)
         IN IF t.col + 1 = W THEN NewRow([u EXCEPT !.col = 0])
                             ELSE [u EXCEPT !.col = @ + 1]

\* terminal_putchar: a scrolled-back view first returns to the bottom
\* (terminal_scroll_to_bottom renders), then the character is handled.
PutChar(t, c) ==
  PutAtBottom(IF t.off > 0 THEN Render([t EXCEPT !.off = 0]) ELSE t, c)

\* terminal_write: terminal_putchar on each character in order.  (The test
\* u = u, always true, makes TLC compute each character's terminal before
\* the next, which keeps its evaluation stack shallow.)
RECURSIVE TermWrite(_, _)
TermWrite(t, s) ==
  IF s = <<>> THEN t
  ELSE LET u == PutChar(t, Head(s)) IN IF u = u THEN TermWrite(u, Tail(s)) ELSE u

\* The state the zero-filled statics and the BIOS screen leave before
\* kernel_main calls terminal_initialize.
Boot == [scr |-> [y \in Row |-> [x \in Col |-> Nul]], row |-> 0, col |-> 0,
         sb |-> [i \in 0 .. SB - 1 |-> [x \in Col |-> Nul]], head |-> 0,
         cnt |-> 0, off |-> 0, vga |-> [y \in Row |-> [x \in Col |-> Nul]],
         hist |-> <<>>]

\* The lines of the whole text written so far: every line that scrolled off,
\* then the screen.
AllLines(t) == t.hist \o [i \in 1 .. H |-> t.scr[i - 1]]

-----------------------------------------------------------------------------
(* Properties of a terminal state t, used by the modules that carry one.  *)

\* Type invariant of the terminal.
TermOK(t) == t \in Term /\ t.off <= t.cnt

\* The scrollback ring holds, from its base slot on, exactly the last
\* scrollback_count lines that scrolled off, in order, and the count is
\* the number of those lines up to SCROLLBACK_LINES: scrollback_push_line's
\* head/count arithmetic and scrollback_base_index agree across the wrap
\* of the ring.
ScrollbackInOrder(t) ==
  /\ t.cnt = IF Len(t.hist) < SB THEN Len(t.hist) ELSE SB
  /\ \A i \in 0 .. t.cnt - 1 :
       t.sb[(BaseIndex(t) + i) % SB] = t.hist[Len(t.hist) - t.cnt + 1 + i]

\* What the VGA buffer shows is the window of H consecutive lines of the
\* whole text written so far that ends display_offset lines above the
\* bottom: terminal_putentryat's write-through, terminal_scroll_line's
\* render and the ring arithmetic never leave a stale or misplaced line on
\* the display (spec.md: output written is what the terminal shows).
DisplayShowsWindow(t) ==
  t.vga = [y \in Row |-> AllLines(t)[Len(t.hist) - t.off + y + 1]]

\* The view stays at the bottom: nothing in the kernel calls
\* terminal_scroll_view, so display_offset should never leave 0 -- but
\* terminal_scroll_line increments it whenever output scrolls the screen.
FollowsOutput(t) == t.off = 0
=============================================================================
