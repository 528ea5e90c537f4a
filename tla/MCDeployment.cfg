SPECIFICATION Spec
CONSTANTS
  MaxContracts = 10
  Room <- MCRoom
INVARIANTS DeployTypeOK PublishedIsConfigured SafeGetsDormantFunder
PROPERTIES KeepsCustody
