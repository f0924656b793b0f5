SPECIFICATION FairSpec
CONSTANTS
  l1 = l1  l2 = l2  a1 = a1  j1 = j1  j2 = j2  None = None
  Loops <- TwoLoops
  Apps <- OneApp
  Jobs <- TwoJobs
  MayCall <- DownhillCalls
  AppCalls <- AppUses
  Deletable <- OneLoop
  MaxEvents = 1
  MaxCalls = 1
  MaxJobs = 2
INVARIANTS LockDiscipline NoCircularWait QuietAfterDelete
PROPERTIES ImplementsAsyncCalls JobsAreCalled KeepsPolling CallsReturn
CHECK_DEADLOCK FALSE
