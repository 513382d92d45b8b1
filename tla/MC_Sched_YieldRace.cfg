\* A tick between sched_yield's state update and its ctx_switch, with
\* three slots and two stacks.
CONSTANTS
  NThreads = 3
  MaxStacks = 2
  Yielders <- MCBootYields
  Creators <- MCBoot
  Returners = {}
SPECIFICATION Spec
INVARIANTS ContextsIntact
