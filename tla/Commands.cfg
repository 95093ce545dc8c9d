SPECIFICATION Spec
CONSTANTS
  Req <- MCReq
  MaxHeight = 4
  Histories <- MCHistories
INVARIANTS
  VerifiedMeansHeld
  
  WaitedMeansApplied
PROPERTIES
  EveryCallIsAnswered
CHECK_DEADLOCK FALSE
