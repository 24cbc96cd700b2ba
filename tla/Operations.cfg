SPECIFICATION FairEscalationSpec
CONSTANTS
  ann = ann
  ben = ben
  cleo = cleo
  o1 = o1
  o2 = o2
  Ops <- MCOps
  Users <- MCUsers
  Tenants = {"a", "b"}
  TenantOf <- MCTenantOf
  Operators = {ann, cleo}
  Requests = {r1, r2}
  Connectors = {"sap", "unknown"}
  Registered = {"sap"}
  MfaEnabled = TRUE
  CanVerify = {ann}
  NoUser = NoUser
  NoInfo = NoInfo
  Idle = Idle
  Timeout = 1
  ChainLength = 2
  AgeBound = 1
CHECK_DEADLOCK FALSE
INVARIANTS
  TypeOK
  EscalationFollowsChain
  HumanInTheLoop
  AtMostOneCall
  ReviewedWithinTenant
  TrailExplainsStatus
  ExecutingIsHeld
PROPERTIES
  TerminalIsFinal
  SweepRespectsDecisions
  ImplementsLifecycle
  ExecutionEnds
  EveryProposalIsDecided
