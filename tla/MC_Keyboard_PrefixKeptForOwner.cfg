\* A 0xE0 PS/2 prefix interleaved with a USB report, within 4 events.
CONSTANTS
  BufSize <- MCBufSize
  IdxMod <- MCIdxMod
  KeyMap <- MCKeyMap
  KeyMapShift <- MCKeyMapShift
  UsbToScancode <- MCUsbToScancode
  Ps2Keys <- MCPs2Ctrl
  Reports <- MCReportsArrow
  Lens = {3}
  Junk = {0}
  MaxEvents = 4
SPECIFICATION Spec
PROPERTIES PrefixKeptForOwner
