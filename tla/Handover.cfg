SPECIFICATION Spec
CONSTANTS
  Call <- MCCall
  Key <- MCKey
  CallOf <- MCCallOf
  KeyLimit = 2
INVARIANTS
  NoPartialHandover
PROPERTIES
  KeepsPromise
  EveryCallIsAnswered
CHECK_DEADLOCK FALSE
