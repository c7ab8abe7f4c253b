\* Lists of up to three Marbles with ids 1, 2, 3 or none.
SPECIFICATION Spec
CONSTANTS
  Ids <- MCIds
  Names <- MCNames
  ParentLists <- MCParentLists
  None = None
  MaxItems = 3
  MaxDepth = 3
INVARIANTS
  LineageDecided
  IntactNeverCyclic
  RaisedOnlyWhenDeep
