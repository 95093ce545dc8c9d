SPECIFICATION Spec
CONSTANTS
  Call <- MCCall
  Multi <- MCCall
  Job <- MCJob
  Key <- MCKey
  CallOf <- MCCallOf
  JobOf <- MCJobOf
  KeyLimit = 2
INVARIANT
  NothingMeansNothing
CHECK_DEADLOCK FALSE
