SPECIFICATION Spec
CONSTANTS
  MaxRequests = 3
  MaxRetry = 1
  MaxMatchRetry = 1
INVARIANT
  OwnAnswers
  PerformedOnce
  AnswerHolds
  ErrorsReported
