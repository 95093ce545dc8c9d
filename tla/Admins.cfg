SPECIFICATION Spec
CONSTANTS
  Req <- MCReq
  Email <- MCEmail
  RootEmail = "root"
  MaxId <- MCMaxId
  MaxOld = 1
INVARIANTS
  UniqueEmails
PROPERTIES
  PasswordOnlyWhenAsked
  BackOnlyWithPassword
  EveryRequestIsAnswered
CHECK_DEADLOCK FALSE
