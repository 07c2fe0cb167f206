SPECIFICATION FairSpec
CONSTANTS
  Workflows <- MCWorkflows
  Chunks = 2
  MaxAttempts = 2
INVARIANT TypeOK
INVARIANT OnlyExecuted
INVARIANT InTemplateOrder
INVARIANT LiteralsOnce
INVARIANT NothingToFlush
INVARIANT AnswerExact
INVARIANT ResumedExact
PROPERTY Answered
CHECK_DEADLOCK FALSE
