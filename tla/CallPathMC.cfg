SPECIFICATION FairSpec
CONSTANTS
  a1 = a1
  a2 = a2
  b = b
  c = c
  MaxThrowCalls = 4
  Usrs <- MCUsrs
  NameOf <- MCNameOf
  Tables <- MCTables
  Queries <- MCQueries
INVARIANTS
  TypeOK
  FoundIffReachable
  PathFollowsCalls
  RecursionBounded
PROPERTIES
  SearchEnds
