SPECIFICATION FairSpec
CONSTANT Calls <- MCCalls
INVARIANTS
  EdgesAreLegal
  ChainIsOneCycle
  GridIsMesh
PROPERTY Returns
\* A function that has returned takes no further step.
CHECK_DEADLOCK FALSE
