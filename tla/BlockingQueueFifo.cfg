SPECIFICATION Spec
CONSTANTS
  t1 = t1
  t2 = t2
  t3 = t3
  Threads <- MCThreads
  Items <- MCItems
  Priority <- MCPriority
  type = "kFIFO"
INVARIANTS NoStrandedItem ExactlyOnce PushOrderKept
SYMMETRY ThreadSymmetry
