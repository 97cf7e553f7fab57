SPECIFICATION Spec
CONSTANTS
  Envs <- Environments
  Identities = {"agent://a/1", "agent://a/2"}
  Requests <- Wires
INVARIANT NotificationNotExecuted
CHECK_DEADLOCK FALSE
