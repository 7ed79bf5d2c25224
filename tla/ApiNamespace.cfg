CONSTANTS
  FlagSets <- MCNamespaceFlags
  Paths <- MCPaths
  ServicePart <- MCServicePart
  Clients = {c1}
SPECIFICATION Spec
CHECK_DEADLOCK FALSE
INVARIANT
  ApiNamespaceTrimmed
