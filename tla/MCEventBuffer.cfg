SPECIFICATION ReaderSpec
CONSTANTS
  Cap = 2
  MaxEvents = 5
  MaxLimit = 3
INVARIANT TypeOK
INVARIANT Window
INVARIANT PointerBehind
INVARIANT ConflictResolvable
PROPERTY DrainTerminates
PROPERTY ImplementsPending
