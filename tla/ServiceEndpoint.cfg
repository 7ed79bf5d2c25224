CONSTANTS
  FlagSets <- MCFlags
  DefaultEndpoint <- MCDefaultEndpoint
  None = None
SPECIFICATION Spec
INVARIANT
  ProxyMatchesScheme
CHECK_DEADLOCK FALSE
