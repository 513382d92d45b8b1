\* The ring against the spec's bounded queue that drops the newest key,
\* over up to 6 events: the wrapping indices let the ring take a key past
\* its buffer.
CONSTANTS
  BufSize <- MCBufSize
  IdxMod <- MCIdxMod
  KeyMap <- MCKeyMap
  KeyMapShift <- MCKeyMapShift
  UsbToScancode <- MCUsbToScancode
  Ps2Keys <- MCPs2Typing
  Reports <- MCReportsTyping
  Lens = {3}
  Junk = {0}
  MaxEvents = 6
SPECIFICATION Spec
PROPERTIES KeyQueueRefined
