SPECIFICATION NoFailureSpec
CONSTANTS
  Ops = {o1}
  Users = {ann, ben}
  Tenants = {"a"}
  TenantOf <- MCTenantOf
  Operators = {ann, ben}
  Connectors = {"sap", "unknown"}
  Registered = {"sap"}
  MfaEnabled = TRUE
  CanVerify = {ann}
  NoUser = NoUser
  NoInfo = NoInfo
  Txns = {t1, t2}
CHECK_DEADLOCK FALSE
INVARIANTS
  ExecutedAtMostOnce
