SPECIFICATION Spec
CONSTANTS
  Call <- MCCall
  Multi <- MCCall
  Job <- MCJob
  Key <- MCKey
  CallOf <- MCCallOf
  JobOf <- MCJobOf
  KeyLimit = 2
INVARIANTS
  TypeOK
  SuccessIsReal
  ListingIsComplete
  OnlyTimeoutsLoseKeys
  NothingPhantom
  RefusalIsClean
  WithinLimit
  CreatedMeansAKeyWorks
CHECK_DEADLOCK FALSE
