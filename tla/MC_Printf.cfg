\* %u of a word with the top bit set. One printf call, which then returns:
\* the model stops there.
CONSTANTS
  Bits = 8
  Formats <- MCFormats
  ArgLists <- MCArgLists
SPECIFICATION Spec
INVARIANTS RendersAsReference
CHECK_DEADLOCK FALSE
