SPECIFICATION Spec
CONSTANTS
  MaxData = 1
  MaxRenewals = 1
INVARIANTS
  TypeOK
  NothingBeforeAccepted
  MessagesStayInTunnel
  RefusedOnlyIfRenewed
  EndMeansAll
CHECK_DEADLOCK FALSE
PROPERTIES
  SetupEnds
  HalfCloseIsHeard
  RelaysReturn
