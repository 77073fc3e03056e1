SPECIFICATION MCSpec
CONSTANTS
  c1 = c1
  c2 = c2
  s1 = s1
  l1 = l1
  Component = {c1, c2}
  Service = {s1}
  Vulnerability = {}
  Loose = {l1}
  Name = {a}
  None = None
  Children <- MCChildren
  Attributes <- MCAttributes
  MaxDependsOn = 2
  MaxEdges = 2
INVARIANT
  DependentsRegistered
