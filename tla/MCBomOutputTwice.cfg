SPECIFICATION MCSpec
CONSTANTS
  c1 = c1
  c2 = c2
  Component = {c1, c2}
  Service = {}
  Vulnerability = {}
  Loose = {}
  Name = {a}
  None = None
  Children <- MCChildren
  Attributes <- MCAttributes
  MaxDependsOn = 1
  MaxEdges = 1
  Random = {x1, x2, x3}
  Empty = Empty
  Affects <- MCAffects
INVARIANT
  Reproducible
