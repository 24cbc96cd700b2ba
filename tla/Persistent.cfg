SPECIFICATION FairPersistentSpec
CONSTANTS
  Ops = {o1}
  Users = {ann}
  Tenants = {"a"}
  TenantOf <- MCTenantOf
  Operators = {ann}
  Connectors = {"sap", "unknown"}
  Registered = {"sap"}
  MfaEnabled = TRUE
  CanVerify = {ann}
  NoUser = NoUser
  NoInfo = NoInfo
  Txns = {t1, t2, t3}
CHECK_DEADLOCK FALSE
INVARIANTS
  CommittedRowsAreSound
  CallsFollowCommittedApproval
PROPERTIES
  EveryRequestReturns
  SerialImplementsLifecycle
