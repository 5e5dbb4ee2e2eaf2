CONSTANTS
  Timeouts <- MCTimeouts
  Retries <- MCRetries
  Origins <- MCOrigins
  Steps <- MCSteps
  MaxLate <- MCMaxLate
SPECIFICATION FairSpec
INVARIANTS Consistent OnSchedule TotalTimeout
PROPERTY Terminates
CHECK_DEADLOCK FALSE
