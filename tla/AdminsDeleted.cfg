SPECIFICATION Spec
CONSTANTS
  Req <- MCReq
  Email <- MCEmail
  RootEmail = "root"
  MaxId <- MCMaxId
  MaxOld = 1
PROPERTY
  DeletedStaysDeleted
CHECK_DEADLOCK FALSE
