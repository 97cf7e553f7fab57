SPECIFICATION Spec
CONSTANTS
  Envs <- Environments
  Identities = {"agent://a/1", "agent://a/2"}
  Requests <- Wires
INVARIANTS
  TypeOK RefusedStartTouchesNothing AgentIsTheCredentials CredentialStripped
  DoorsAgree OnlyNamedFieldsLeave
CHECK_DEADLOCK FALSE
