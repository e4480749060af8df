SPECIFICATION LiveSpec
CONSTANTS
  None = None  n1 = n1  n2 = n2
  Records <- MCRecords
  Namespaces = {n1, n2}
  NamespaceOf <- MCNamespaceOf
  Configs <- MCConfigs
  Sessions <- MCSessions
  TokenGrants = {{}, {n2}}
  Queries <- MCQueries
  MaxLimit = 2
  MaxChanges = 2
INVARIANTS
  WalkListsAll
  HiddenStaysHidden
  LinksKeepFilters
PROPERTIES
  WalkEnds
CHECK_DEADLOCK FALSE
