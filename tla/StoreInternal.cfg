CONSTANTS
  Clients = {c1}
  DatabaseNames = {d1}
  TableNames = {t1}
  UserKeys <- MCUserKeys
  FlagSets <- MCInternalFlags
  None = None
SPECIFICATION Spec
INVARIANT
  ListingShowsOnlyCreated
CHECK_DEADLOCK FALSE
