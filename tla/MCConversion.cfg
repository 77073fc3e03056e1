SPECIFICATION Spec
CONSTANTS
  Fields <- Tables
  Newest <- NewestView
  MaxPath = 3
  MaxDiff = 4
INVARIANTS
  TypeOK
  UpgradeKeeps
  UniqueItemsWhereListed
PROPERTIES
  OnlyAlikeMerge
  NewestKeepsAll
\* A path may end at an element that holds no sets.
CHECK_DEADLOCK FALSE
