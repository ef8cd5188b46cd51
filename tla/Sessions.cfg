SPECIFICATION SessionsSpec
CONSTANTS
  Connections = {c1, c2}
  Names = {"ann", "demo@x"}
  Emails = {"ann@x"}
  Passwords = {"DemoPass"}
  Halved <- MCHalved
  TooShort = {""}
  SeedUsers <- MCSeedUsers
  MaxSessions = 3
  MaxOrders = 1
  MaxRestarts = 1
INVARIANTS
  SessionsTypeOK
  AccountsAgree
  RowsAreTheUsers
  WholeRequestsAreHandled
PROPERTIES
  SessionsKeepTheirUser
  ClientsAreServed
CHECK_DEADLOCK FALSE
