SPECIFICATION Spec
CONSTANTS
  r1 = r1
  r2 = r2
  x1 = x1
  x2 = x2
  Thread = {t1, t2}
  Ref = {r1, r2}
  Listings <- MCListings
  Given = {a}
  Draws <- MCDraws
  None = None
SYMMETRY MCSymmetry
INVARIANTS
  TypeOK
  UniqueUnlessDisturbed
  RestoredIfNested
