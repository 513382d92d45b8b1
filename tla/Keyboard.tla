------------------------------ MODULE Keyboard ------------------------------
(***************************************************************************)
(* The keystroke path: the scancode decoder and ring of                    *)
(* drivers/keyboard.c, fed by the PS/2 IRQ 1 handler and by the USB boot  *)
(* keyboard report handler of drivers/usb_keyboard.c (called from         *)
(* usb_poll in the timer IRQ), and drained by the blocking SYS_read on fd *)
(* 0 of proc/syscall.c.                                                    *)
(*                                                                         *)
(* One CPU.  An IRQ handler runs to completion with IF clear (interrupt   *)
(* gates), so keyboard_on_scancode is atomic; SYS_read runs with IF set   *)
(* after its sti and can be interrupted between any two of its steps,    *)
(* including between kbd_getch's emptiness test and its fetch.  A PS/2    *)
(* key arrives one byte per IRQ; a USB report is decoded as a whole.      *)
(*                                                                         *)
(* Keys are their int values (ASCII, KEY_* codes).  head and tail are     *)
(* uint8_t, so they count modulo IdxMod = 256 while buf has BufSize = 128 *)
(* entries.  A store past buf lands in whatever the build placed after it *)
(* (undefined behaviour): the model records that it happened (oob) and a  *)
(* later fetch from there returns any value of Junk.                      *)
(***************************************************************************)
EXTENDS Integers, Sequences, SequencesExt, TLC

CONSTANTS
  BufSize,        \* KBD_BUF_SIZE
  IdxMod,         \* 2^8: the range of the uint8_t indices head and tail
  KeyMap,         \* keymap[128]
  KeyMapShift,    \* keymap_shift[128]
  UsbToScancode,  \* usb_to_scancode[256], on the usages of Reports
  Ps2Keys,        \* the scancode sequences a PS/2 keyboard sends per event
  Reports,        \* USB boot reports: [mods: modifier names, keys: usages]
  Lens,           \* the len arguments of SYS_read(0, buf, len)
  Junk,           \* what a fetch from past the end of buf may return
  MaxEvents       \* model bound: key events the devices produce

ASSUME BufAssumption == BufSize \in Nat \ {0} /\ IdxMod \in Nat /\ BufSize < IdxMod

KEY_LEFT == 256
KEY_RIGHT == 257
KEY_UP == 258
KEY_DOWN == 259
KEY_HOME == 260
KEY_END == 261
KEY_DELETE == 262
KEY_PAGE_UP == 263
KEY_PAGE_DOWN == 264
KEY_SCROLL_UP == 265
KEY_SCROLL_DOWN == 266

VARIABLES
  kb,           \* decoder and producer side: e0, shift, ctrl, alt, the two
                \* scroll overrides, buf, head, and the ghosts oob and acc
  tail,         \* tail of keyboard.c
  last_report,  \* last_report of usb_keyboard.c
  ps2_q,        \* bytes of the current PS/2 event not yet raised as IRQ 1
  rd,           \* where the reading user thread is
  dst,          \* the bytes SYS_read has stored in the user buffer
  len,          \* its len argument
  ch,           \* the local ch of SYS_read: the key kbd_getch returned last
  taken,        \* ghost: every key kbd_getch has returned, in order
  intr,         \* EFLAGS.IF
  events        \* key events produced so far

vars == <<kb, tail, last_report, ps2_q, rd, dst, len, ch, taken, intr, events>>

Idx == 0 .. IdxMod - 1

(* keyboard.c: buf_full and the store of lines 86 and 103.  acc is the    *)
(* ghost history of the keys the ring accepted.                           *)
BufFull(k, t) == (k.head + 1) % IdxMod = t

\* Variant: the index advanced before the store.
Mut_Put(k, t, code) ==
  IF code = 0 \/ BufFull(k, t) THEN k
  ELSE LET h == (k.head + 1) % IdxMod IN
       [k EXCEPT !.buf = IF h < BufSize THEN [@ EXCEPT ![h] = code] ELSE @,
                 !.oob = @ \/ h >= BufSize,
                 !.head = h,
                 !.acc = Append(@, code)]

\* Variant: head kept as an int, advanced without the uint8_t wrap.
Mut_PutWide(k, t, code) ==
  IF code = 0 \/ BufFull(k, t) THEN k
  ELSE [k EXCEPT !.buf = IF k.head < BufSize THEN [@ EXCEPT ![k.head] = code]
                                             ELSE @,
                 !.oob = @ \/ k.head >= BufSize,
                 !.head = @ + 1,
                 !.acc = Append(@, code)]

Put(k, t, code) ==
  IF code = 0 \/ BufFull(k, t) THEN k
  ELSE [k EXCEPT !.buf = IF k.head < BufSize THEN [@ EXCEPT ![k.head] = code]
                                             ELSE @,
                 !.oob = @ \/ k.head >= BufSize,
                 !.head = (@ + 1) % IdxMod,
                 !.acc = Append(@, code)]

\* The codes of the extended keys that keyboard_on_scancode maps directly.
ExtCode ==
  (\h4B :> KEY_LEFT) @@ (\h4D :> KEY_RIGHT) @@ (\h47 :> KEY_HOME)
  @@ (\h4F :> KEY_END) @@ (\h53 :> KEY_DELETE)
  @@ (\h49 :> KEY_PAGE_UP) @@ (\h51 :> KEY_PAGE_DOWN)

\* An arrow key that becomes a scroll key with Ctrl or Alt, or while its
\* scroll override is latched (keyboard.c lines 65-76).
Arrow(k, t, ov, plain, scroll) ==
  LET use == k[ov] \/ k.ctrl \/ k.alt
  IN  Put([k EXCEPT ![ov] = @ \/ k.ctrl \/ k.alt], t,
          IF use THEN scroll ELSE plain)

(* keyboard_on_scancode(sc), with tail t as the producer reads it.         *)
Decode(k, t, sc) ==
  LET rel == sc >= 128
      c   == sc % 128
      k1  == [k EXCEPT !.e0 = FALSE]
  IN  CASE sc = \hE0 -> [k EXCEPT !.e0 = TRUE]
        [] k.e0 /\ c = \h1D -> [k1 EXCEPT !.ctrl = ~rel]
        [] k.e0 /\ c = \h38 -> [k1 EXCEPT !.alt = ~rel]
        [] k.e0 /\ rel ->
             [k1 EXCEPT !.sou = @ /\ c # \h48, !.sod = @ /\ c # \h50]
        [] k.e0 /\ c = \h48 -> Arrow(k1, t, "sou", KEY_UP, KEY_SCROLL_UP)
        [] k.e0 /\ c = \h50 -> Arrow(k1, t, "sod", KEY_DOWN, KEY_SCROLL_DOWN)
        [] k.e0 -> Put(k1, t, IF c \in DOMAIN ExtCode THEN ExtCode[c] ELSE 0)
        [] c \in {42, 54} -> [k EXCEPT !.shift = ~rel]
        [] c = 29 -> [k EXCEPT !.ctrl = ~rel]
        [] c = 56 -> [k EXCEPT !.alt = ~rel]
        [] rel -> k
        [] OTHER -> Put(k, t, IF k.shift THEN KeyMapShift[c] ELSE KeyMap[c])

DecodeAll(k, t, scs) == FoldLeft(LAMBDA a, sc : Decode(a, t, sc), k, scs)

(* usb_keyboard_process_report: the scancodes one report feeds to          *)
(* keyboard_on_scancode, in the order the code emits them.                 *)
ModTable == << <<"LCTRL", FALSE, \h1D>>, <<"LSHIFT", FALSE, \h2A>>,
               <<"LALT", FALSE, \h38>>, <<"RCTRL", TRUE, \h1D>>,
               <<"RSHIFT", FALSE, \h36>>, <<"RALT", TRUE, \h38>> >>
UsbExtended == {\h4A, \h4D, \h4E, \h4F, \h50, \h51, \h52}
Prefix(ext) == IF ext THEN <<\hE0>> ELSE <<>>

ModScancodes(old, new) ==
  FlattenSeq([i \in 1 .. Len(ModTable) |->
    LET m == ModTable[i] IN
    IF m[1] \in new.mods \ old.mods THEN Prefix(m[2]) \o <<m[3]>>
    ELSE IF m[1] \in old.mods \ new.mods THEN Prefix(m[2]) \o <<m[3] + 128>>
    ELSE <<>>])

KeyScancodes(usage, rel) ==
  IF UsbToScancode[usage] = 0 THEN <<>>
  ELSE Prefix(usage \in UsbExtended)
       \o <<UsbToScancode[usage] + (IF rel THEN 128 ELSE 0)>>

\* Usages in a that are not in b, each with its scancodes.
Changed(a, b, rel) ==
  FlattenSeq([i \in 1 .. Len(a) |->
    IF a[i] \in ToSet(b) THEN <<>> ELSE KeyScancodes(a[i], rel)])

UsbScancodes(old, new) ==
  ModScancodes(old, new) \o Changed(new.keys, old.keys, FALSE)
                         \o Changed(old.keys, new.keys, TRUE)

-----------------------------------------------------------------------------
(* kbd_getch and the read loop *)

\* Variant: an off-by-one emptiness test that counts one waiting key as none.
Mut_buf_empty(k, t) == (k.head - t) % IdxMod <= 1

\* buf_empty of keyboard.c, as kbd_getch evaluates it.
buf_empty(k, t) == k.head = t

\* What buf[i] holds for a fetch.
Cell(i) == IF i < BufSize THEN {kb.buf[i]} ELSE Junk

\* An interrupt ends a hlt of the reader.
Wake == rd' = IF rd = "hlt" THEN "loop" ELSE rd

Init ==
  /\ kb = [e0 |-> FALSE, shift |-> FALSE, ctrl |-> FALSE, alt |-> FALSE,
           sou |-> FALSE, sod |-> FALSE, buf |-> [i \in 0 .. BufSize - 1 |-> 0],
           head |-> 0, oob |-> FALSE, acc |-> <<>>]
  /\ tail = 0
  /\ last_report = [mods |-> {}, keys |-> <<>>]
  /\ ps2_q = <<>>
  /\ rd = "user" /\ dst = <<>> /\ len = 0 /\ ch = 0 /\ taken = <<>>
  /\ intr = TRUE
  /\ events = 0

\* A key event at the PS/2 keyboard: its bytes wait in the controller.
Ps2Event ==
  /\ ps2_q = <<>> /\ events < MaxEvents
  /\ \E s \in Ps2Keys : ps2_q' = s
  /\ events' = events + 1
  /\ UNCHANGED <<kb, tail, last_report, rd, dst, len, ch, taken, intr>>

\* IRQ 1: keyboard_handler reads one byte and decodes it.
Ps2Irq ==
  /\ intr /\ ps2_q # <<>>
  /\ kb' = Decode(kb, tail, Head(ps2_q))
  /\ ps2_q' = Tail(ps2_q)
  /\ Wake
  /\ UNCHANGED <<tail, last_report, dst, len, ch, taken, intr, events>>

\* IRQ 0: timer_handler; usb_poll either finds no completed report or
\* hands one to usb_keyboard_process_report.
TimerNoReport ==
  /\ intr /\ Wake
  /\ UNCHANGED <<kb, tail, last_report, ps2_q, dst, len, ch, taken, intr, events>>

TimerReport ==
  /\ intr /\ events < MaxEvents
  /\ \E r \in Reports :
       /\ kb' = DecodeAll(kb, tail, UsbScancodes(last_report, r))
       /\ last_report' = r
  /\ events' = events + 1
  /\ Wake
  /\ UNCHANGED <<tail, ps2_q, dst, len, ch, taken, intr>>

\* int 0x80 with eax = SYS_read, ebx = 0: the interrupt gate clears IF.
ReadEntry ==
  /\ rd = "user"
  /\ \E l \in Lens : len' = l
  /\ dst' = <<>> /\ rd' = "entry" /\ intr' = FALSE
  /\ UNCHANGED <<kb, tail, last_report, ps2_q, ch, taken, events>>

\* syscall.c line 69: sti.
ReadSti ==
  /\ rd = "entry" /\ rd' = "loop" /\ intr' = TRUE
  /\ UNCHANGED <<kb, tail, last_report, ps2_q, dst, len, ch, taken, events>>

\* The loop test n < len failed: eax = n and iret to the user.
ReadReturn ==
  /\ rd = "loop" /\ Len(dst) >= len /\ rd' = "user"
  /\ UNCHANGED <<kb, tail, last_report, ps2_q, dst, len, ch, taken, intr, events>>

\* kbd_getch found head = tail and returned -1.
ReadEmpty ==
  /\ rd = "loop" /\ Len(dst) < len /\ buf_empty(kb, tail) /\ rd' = "empty"
  /\ UNCHANGED <<kb, tail, last_report, ps2_q, dst, len, ch, taken, intr, events>>

\* if (ch < 0) sti; hlt: IF is already set, so an IRQ taken since the test
\* has been handled and the hlt waits for the next one.
ReadHlt ==
  /\ rd = "empty" /\ rd' = "hlt"
  /\ UNCHANGED <<kb, tail, last_report, ps2_q, dst, len, ch, taken, intr, events>>

ReadNonEmpty ==
  /\ rd = "loop" /\ Len(dst) < len /\ ~buf_empty(kb, tail) /\ rd' = "fetch"
  /\ UNCHANGED <<kb, tail, last_report, ps2_q, dst, len, ch, taken, intr, events>>

(* The rest of kbd_getch (v = buf[tail]; tail++) and one pass of the loop  *)
(* body: '\r' becomes '\n', '\b' erases the last stored byte, any other   *)
(* key is stored as (char)ch and a '\n' ends the read.                     *)
ReadFetch ==
  /\ rd = "fetch"
  /\ \E v \in Cell(tail) :
       LET c == IF v = 13 THEN 10 ELSE v IN
       /\ ch' = c
       /\ taken' = Append(taken, v)
       /\ IF c = 8
            THEN /\ dst' = (IF dst = <<>> THEN dst ELSE Front(dst))
                 /\ rd' = "loop"
            ELSE /\ dst' = Append(dst, c % 256)
                 /\ rd' = IF c = 10 THEN "user" ELSE "loop"
  /\ tail' = (tail + 1) % IdxMod
  /\ UNCHANGED <<kb, last_report, ps2_q, len, intr, events>>

Reader == ReadSti \/ ReadReturn \/ ReadEmpty \/ ReadHlt \/ ReadNonEmpty \/ ReadFetch

Next ==
  \/ Ps2Event \/ Ps2Irq \/ TimerNoReport \/ TimerReport
  \/ ReadEntry \/ Reader

\* The reading thread runs whenever it is not halted, and the PIT raises
\* IRQ 0 periodically whenever IF is set.  Key events are up to the user.
Fairness == WF_vars(Reader) /\ WF_vars(TimerNoReport)

Spec == Init /\ [][Next]_vars /\ Fairness

-----------------------------------------------------------------------------
(* Properties *)

KeyCodes == 0 .. KEY_SCROLL_DOWN \cup Junk

TypeOK ==
  /\ kb \in [e0 : BOOLEAN, shift : BOOLEAN, ctrl : BOOLEAN, alt : BOOLEAN,
             sou : BOOLEAN, sod : BOOLEAN, buf : [0 .. BufSize - 1 -> KeyCodes],
             head : Idx, oob : BOOLEAN, acc : Seq(KeyCodes)]
  /\ tail \in Idx
  /\ rd \in {"user", "entry", "loop", "empty", "hlt", "fetch"}
  /\ dst \in Seq(0 .. 255) /\ len \in {0} \cup Lens /\ ch \in KeyCodes
  /\ taken \in Seq(KeyCodes) /\ intr \in BOOLEAN /\ events \in 0 .. MaxEvents

\* The keys waiting in the ring, oldest first (0 for a slot past buf).
RingKeys ==
  [i \in 1 .. (kb.head - tail) % IdxMod |->
     LET j == (tail + i - 1) % IdxMod IN IF j < BufSize THEN kb.buf[j] ELSE 0]

(* Keystrokes reach SYS_read in the order the decoder accepted them, none  *)
(* lost and none twice, through every interleaving of the PS/2 IRQ, the   *)
(* timer's USB poll and kbd_getch split between its test and its fetch:   *)
(* what kbd_getch returned followed by what waits in the ring is exactly  *)
(* what keyboard_on_scancode stored, as long as no store went past buf.   *)
KeysInOrder == ~kb.oob => taken \o RingKeys = kb.acc

(* A SYS_read(0) that is polling while keys wait in the ring eventually    *)
(* takes them or returns.  A key stored by an IRQ after kbd_getch found    *)
(* the ring empty and before the sti; hlt of syscall.c line 72 does not   *)
(* end that hlt; only a later IRQ does, and the periodic timer raises one. *)
ReadDrainsRing ==
  (rd \in {"loop", "empty", "hlt", "fetch"} /\ kb.head # tail)
    ~> (rd = "user" \/ kb.head = tail)

(* spec.md: a line-oriented read returns at a newline.  The bytes SYS_read *)
(* stores contain a newline byte only as the last byte of the line.       *)
NewlineOnlyAtEnd == \A i \in 1 .. Len(dst) - 1 : dst[i] # 10

(* spec.md: an E0-prefixed PS/2 key is one keystroke.  A prefix pending    *)
(* between two steps is consumed only by the next byte of the PS/2        *)
(* keyboard, never by a byte that usb_poll decodes in between.            *)
PrefixKeptForOwner ==
  [][kb.e0 /\ ~kb'.e0 => ps2_q # <<>> /\ ps2_q' = Tail(ps2_q)]_vars

(* spec.md, "Keystroke queue": a bounded FIFO of decoded keys that drops   *)
(* the newest key when full.  The ring with its uint8_t indices is that    *)
(* queue with KBD_BUF_SIZE places; out is the key kbd_getch returned     *)
(* last.                                                                   *)
KQ == INSTANCE KeyQueue
        WITH Keys <- KeyCodes, Cap <- BufSize, NoKey <- -1,
             q <- RingKeys, out <- IF taken = <<>> THEN -1 ELSE Last(taken)

KeyQueueRefined == KQ!Spec
=============================================================================
