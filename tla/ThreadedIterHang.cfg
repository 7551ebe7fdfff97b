SPECIFICATION LiveSpec
CONSTANTS
  c1 = c1
  c2 = c2
  d1 = d1
  d2 = d2
  d3 = d3
  d4 = d4
  d5 = d5
  NULL = NULL
  Consumers <- MCConsumers
  Owner = c1
  Cells <- LiveCells
  max_capacity_ = 1
  NItems = 1
  MaxHold = 1
  MaxLeak = 0
  NextThrows = TRUE
  BeforeFirstThrows = FALSE
PROPERTY BeforeFirstReturns
