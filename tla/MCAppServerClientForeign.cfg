SPECIFICATION Spec
CONSTANTS
  ServerId = {3, 7}
  MaxForeign = 1
  MaxChatter = 2
INVARIANT ReturnedAfterOwnTurn
CHECK_DEADLOCK FALSE
