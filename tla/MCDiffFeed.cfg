SPECIFICATION ClientSpec
CONSTANTS
  Cap = 2
  MaxDiffs = 5
INVARIANT TypeOK
INVARIANT NewestReturned
INVARIANT RowsMatch
INVARIANT FinalIsLast
PROPERTY LiveCaughtUp
PROPERTY FinalReaches
\* A job that ended without a diff leaves nothing to do.
CHECK_DEADLOCK FALSE
