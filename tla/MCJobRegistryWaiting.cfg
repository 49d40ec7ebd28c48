SPECIFICATION Spec
CONSTANTS
  Thread = {t1}
  None = None
  MaxItems = 1
  TTL = 0
  Slots = 1
  NoticeLimit = 1
  MaxHeld = 0
  Kinds = {"prompt"}
  MaxJobs = 2
  MaxPending = 1
  MaxTime = 1
INVARIANT WaitingAnswerable
