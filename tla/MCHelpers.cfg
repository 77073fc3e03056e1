SPECIFICATION FactoriesSpec
CONSTANTS
  None = None
  NoText = NoText
  Values <- EnumerationValues
  Cases <- EnumerationCases
  Allowed <- SchemaEnumeration
  Begins <- FirstViews
  Names <- FewNames
  MaxItems <- FewItems
  Scores <- AnyScore
INVARIANTS
  TypeOK
  OnlyOldestMatters
  ValuesInSchema
  LossesForced
  SchemaValuesRead
  CompositeTyped
  SeverityByScale
  SchemeKept
PROPERTIES
  OmissionsTold
