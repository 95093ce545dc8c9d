SPECIFICATION Spec
CONSTANTS
  Call <- MCCall
  Multi <- MCMulti
  Job <- MCJob
  Key <- MCKey
  CallOf <- MCCallOf
  JobOf <- MCJobOf
  KeyLimit = 2
INVARIANT
  ErrorsAreAnswered400
CHECK_DEADLOCK FALSE
