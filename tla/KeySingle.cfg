SPECIFICATION Spec
CONSTANTS
  Call <- MCCall
  Multi <- MCMulti
  Job <- MCJob
  Key <- MCKey
  CallOf <- MCCallOf
  JobOf <- MCJobOf
  KeyLimit = 2
PROPERTIES
  KeepsPromise
  EveryCallIsAnswered
CHECK_DEADLOCK FALSE
