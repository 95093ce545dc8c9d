SPECIFICATION Spec
CONSTANTS
  Req <- MCReq
  Alias <- MCAlias
  NoAlias = "-"
  Item <- MCItem
  Configurations <- MCConfigurations
  MayMeet <- MCMayMeet
  ScriptFee = 14
  DataFee = 9
INVARIANTS
  NamedWhenComplete
  OneAccountPerItem
  AliasOnce
  NothingOnCredit
PROPERTIES
  KeepsPromise
  EveryRequestIsAnswered
CHECK_DEADLOCK FALSE
