\* A ring of 3 entries with indices modulo 6, so the indices wrap and a
\* full ring drops keys; reads of 3 bytes and up to 7 keyboard events,
\* enough for a line, a backspace and an overflow in one run.
CONSTANTS
  BufSize <- MCBufSize
  IdxMod <- MCIdxMod
  KeyMap <- MCKeyMap
  KeyMapShift <- MCKeyMapShift
  UsbToScancode <- MCUsbToScancode
  Ps2Keys <- MCPs2Typing
  Reports <- MCReportsTyping
  Lens = {3}
  Junk = {0}
  MaxEvents = 7
SPECIFICATION Spec
INVARIANTS TypeOK KeysInOrder
PROPERTIES ReadDrainsRing
