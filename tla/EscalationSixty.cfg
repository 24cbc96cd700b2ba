SPECIFICATION PeriodicSpec
CONSTANTS
  ann = ann
  ben = ben
  cleo = cleo
  o1 = o1
  o2 = o2
  Ops = {o1}
  Users <- MCUsers
  Tenants = {"a", "b"}
  TenantOf <- MCTenantOf
  Operators = {ann}
  Requests = {r1}
  Connectors = {"sap"}
  Registered = {"sap"}
  MfaEnabled = TRUE
  CanVerify = {ann}
  NoUser = NoUser
  NoInfo = NoInfo
  Idle = Idle
  Timeout = 6
  ChainLength = 2
  AgeBound = 12
CHECK_DEADLOCK FALSE
INVARIANTS
  DenyAfterSixtyMinutes
