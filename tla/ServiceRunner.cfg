CONSTANTS
  FlagSets <- MCFlags
  DefaultEndpoint <- MCDefaultEndpoint
  None = None
SPECIFICATION Spec
INVARIANT
  TypeOK
  MetadataParsed
CHECK_DEADLOCK FALSE
