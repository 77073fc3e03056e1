SPECIFICATION MCSpec
CONSTANTS
  t = t
  p = p
  q = q
  n1 = n1
  n2 = n2
  Component = {t, p, q, n1, n2}
  Service = {}
  Vulnerability = {}
  Loose = {}
  Name = {a}
  None = None
  Children <- MCChildren
  Attributes <- MCAttributes
  MaxDependsOn = 1
  MaxEdges = 0
  Random = {x1, x2, x3, x4, x5}
  Empty = Empty
  Affects <- MCAffects
CONSTRAINT SmallBom
SYMMETRY Symmetry
INVARIANT
  RenderedUnique
