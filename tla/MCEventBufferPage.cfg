SPECIFICATION Spec
CONSTANTS
  Cap = 2
  MaxEvents = 5
  MaxLimit = 3
INVARIANT PageWhole
