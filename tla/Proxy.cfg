CONSTANTS
  FlagSets <- MCFlags
  None = None
SPECIFICATION Spec
CHECK_DEADLOCK FALSE
INVARIANTS
  TypeOK
  ListenersNeedRouter
  ProxyListensWhereClientsRoute
PROPERTIES
  SelectorRefined
