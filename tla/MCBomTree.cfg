SPECIFICATION MCSpec
CONSTANTS
  c1 = c1
  s1 = s1
  s2 = s2
  Component = {c1}
  Service = {s1, s2}
  Vulnerability = {}
  Loose = {}
  Name = {a}
  None = None
  Children <- MCChildren
  Attributes <- MCAttributes
  MaxDependsOn = 1
  MaxEdges = 1
INVARIANT
  ExpressionStandsAlone
