SPECIFICATION FairSpec
CONSTANTS
  Req = {r1, r2}
  t1 = t1
  d1 = d1
  d2 = d2
  Dir = {d1, d2}
  Thread = {t1, t2, t3}
  None = None
  Slots = 1
  Foreign <- MCForeign
  Asked <- MCAsked
INVARIANT TypeOK
INVARIANT ThreadVouchedFor
INVARIANT NoNeedlessThread
PROPERTY EveryRequestAnswered
CHECK_DEADLOCK FALSE
