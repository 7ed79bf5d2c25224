CONSTANTS
  FlagSets <- MCGatewayFlags
  Paths <- MCPaths
  ServicePart <- MCServicePart
  Clients = {c1}
SPECIFICATION Spec
CHECK_DEADLOCK FALSE
INVARIANTS
  TypeOK
  ApiNamespaceTrimmed
PROPERTIES
  ContractRefined
