SPECIFICATION FairSpec
CONSTANTS
  Thread = {t1}
  None = None
  MaxItems = 3
  TTL = 0
  Slots = 1
  NoticeLimit = 1
  MaxHeld = 0
  Kinds = {"prompt", "exec"}
  MaxJobs = 3
  MaxPending = 1
  MaxTime = 0
PROPERTY EveryJobEnds
