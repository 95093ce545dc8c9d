SPECIFICATION Spec
CONSTANTS
  Req <- MCReq
  Device <- MCDevice
  Item <- MCItem
  EditKeys <- MCEditKeys
INVARIANTS
  LateCallsAreRefused
  NoMixedLocation
  WrittenAsText
PROPERTIES
  KeepsPromise
  EveryRequestIsAnswered
CHECK_DEADLOCK FALSE
