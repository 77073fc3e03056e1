SPECIFICATION FairSpec
CONSTANTS
  Ref = {r1, r2, r3}
  Given = {a, b}
  Random = {x, y, z}
  Empty = Empty
  None = None
  MaxLen = 3
INVARIANTS
  TypeOK
  UniqueInBody
  FirstHolderKept
PROPERTIES
  ImplementsUniqueRefs
  EventuallyRestored
