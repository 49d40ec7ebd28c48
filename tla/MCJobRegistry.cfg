SPECIFICATION Spec
CONSTANTS
  Thread = {t1}
  None = None
  MaxItems = 1
  TTL = 0
  Slots = 1
  NoticeLimit = 1
  MaxHeld = 1
  Kinds = {"prompt", "open", "exec"}
  MaxJobs = 3
  MaxPending = 2
  MaxTime = 1
INVARIANT TypeOK
INVARIANT TableBound
INVARIANT DoneMeansEnded
INVARIANT ReportedIsDrained
PROPERTY TerminalFinal
PROPERTY ImplementsLifecycle
PROPERTY ImplementsPending
