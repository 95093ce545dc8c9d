SPECIFICATION Spec
CONSTANTS
  Req <- MCReq
  Key <- MCKey
  Issued <- MCKey
  Device <- MCDevice
  Organisation <- MCOrganisation
  Recipient <- MCRecipient
  Dapp = "dapp"
  DeviceOf <- MCDeviceOf
  Malformed = "?"
INVARIANTS
  NoticeIsTrue
  OkMeansDone
  DestroyedOnce
  RetiredKeysAreOff
PROPERTIES
  KeepsPromise
  EveryRequestIsAnswered
CHECK_DEADLOCK FALSE
