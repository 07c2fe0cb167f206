SPECIFICATION FairSpec
CONSTANTS
  Setups <- MCSetups
  MaxSide = 1
INVARIANT TypeOK
INVARIANT LastOfBatchKept
INVARIANT SideWritesKept
INVARIANT RunsIsolated
INVARIANT FailureLeavesNoTrace
INVARIANT OutputsMatchItems
INVARIANT RunsWhatWasChosen
INVARIANT NothingAfterStop
PROPERTY NodeEnds
CHECK_DEADLOCK FALSE
