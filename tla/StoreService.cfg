CONSTANTS
  Clients = {c1, c2}
  DatabaseNames = {d1, d2}
  TableNames = {t1}
  UserKeys <- MCUserKeys
  FlagSets <- MCFlags
  None = None
SYMMETRY Symmetry
SPECIFICATION Spec
INVARIANT
  TypeOK
  TableImpliesDatabase
  StoreImpliesRecorded
  ListingShowsOnlyCreated
CHECK_DEADLOCK FALSE
