CONSTANTS
  Items = {1, 2, 3, 4, 5, 6, 7, 8, 9, 10, 11, 12}
  Names = {1}
  LowerName <- MCLowerName
  Kinds = {"string"}
  Allocations = {0, 1, 2, 8}
  Applications <- MCApplications
SPECIFICATION JsonSpec
VIEW TreeView
CHECK_DEADLOCK FALSE
INVARIANTS TreeSound ListOperations
