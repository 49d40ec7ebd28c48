SPECIFICATION FairSpec
CONSTANTS
  ServerId = {3, 7}
  MaxForeign = 1
  MaxChatter = 2
INVARIANT TypeOK
INVARIANT RequestsAnswered
INVARIANT AcceptedBeforeStream
INVARIANT UndisturbedReturn
PROPERTY CallEnds
CHECK_DEADLOCK FALSE
