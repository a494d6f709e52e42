SPECIFICATION Spec
CONSTANTS
  Jobs <- FailingJobs
  MaxDisplay = 2
CHECK_DEADLOCK FALSE
INVARIANT ErrorsCounted
