\* Five thread slots and four stacks: the bootstrap thread creates the
\* others, which call sched_yield in a loop; checked against the
\* round-robin pool KThreads with its fairness.
CONSTANTS
  NThreads = 5
  MaxStacks = 4
  Yielders <- MCCoopYielders
  Creators <- MCBoot
  Returners = {}
SPECIFICATION Spec
PROPERTIES KThreadsRefined
