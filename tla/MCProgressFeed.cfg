SPECIFICATION FairSpec
CONSTANTS
  Poller = {p1, p2}
  Keep = 2
  PageSize = 2
  MaxMilestones = 4
  MaxScheduled = 1
INVARIANT TypeOK
INVARIANT NoLostWakeup
INVARIANT ItemsFollow
PROPERTY PollersWake
