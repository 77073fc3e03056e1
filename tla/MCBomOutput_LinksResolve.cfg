SPECIFICATION MCSpec
CONSTANTS
  c1 = c1
  c2 = c2
  s1 = s1
  v1 = v1
  l1 = l1
  a = a
  Component = {c1, c2}
  Service = {s1}
  Vulnerability = {v1}
  Loose = {l1}
  Name = {a}
  None = None
  Children <- MCChildren
  Attributes <- MCAttributes
  MaxDependsOn = 1
  MaxEdges = 1
  Random = {x1, x2, x3, x4, x5}
  Empty = Empty
  Affects <- MCAffects
CONSTRAINTS SmallBom SmallGraph
SYMMETRY Symmetry
INVARIANT
  LinksResolve
