\* Two outputters and two BOMs, each of which holds a sound content or a bad
\* one, and one path to write to.
SPECIFICATION Spec
CONSTANTS
  Outputter = {xml, json}
  Supported = {xml, json}
  Bom = {b1, b2}
  Path = {p}
  Content = {good, better, bad}
  Sound = {good, better}
  None = None
  Blank = Blank
  Absent = Absent
  Foreign = Foreign
  Truncated = Truncated
  Torn = Torn
SYMMETRY MCSymmetry
INVARIANTS
  TypeOK
  BlankOnlyByHand
  CurrentUntilTouched
  TornOnlyIfShared
  DamageMeansFailure
PROPERTY
  DocumentsStay
