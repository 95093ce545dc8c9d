SPECIFICATION Spec
CONSTANTS
  Call <- MCCall
  Multi <- MCCall
  Job <- MCJob
  Key <- MCKey
  CallOf <- MCCallOf
  JobOf <- MCJobOf
  KeyLimit = 2
PROPERTIES
  KeepsPromise
  AcceptedJobsFinish
CHECK_DEADLOCK FALSE
