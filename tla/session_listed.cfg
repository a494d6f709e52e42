SPECIFICATION Spec
CONSTANTS
  Jobs <- SecurityJobs
  MaxDisplay = 2
CHECK_DEADLOCK FALSE
INVARIANT ListedAreCounted
