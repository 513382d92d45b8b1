\* A read of 3 bytes with up to 5 events, among them a KEY_* code that
\* SYS_read truncates to a byte.
CONSTANTS
  BufSize <- MCBufSize
  IdxMod <- MCIdxMod
  KeyMap <- MCKeyMap
  KeyMapShift <- MCKeyMapShift
  UsbToScancode <- MCUsbToScancode
  Ps2Keys <- MCPs2Ctrl
  Reports <- MCReportsTyping
  Lens = {3}
  Junk = {0}
  MaxEvents = 5
SPECIFICATION Spec
INVARIANTS NewlineOnlyAtEnd
