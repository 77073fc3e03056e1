------------------------------- MODULE MCHelpers -------------------------------
(***************************************************************************)
(* The factories and serialisation helpers with the enumerations of the    *)
(* code, the values the schemas allow, and the views of the model classes. *)
(***************************************************************************)
EXTENDS Factories, Enumerations, SchemaEnumerations, ModelFields

\* The classes and their properties whose values are of an enumeration, or
\* are the list a helper writes, by the type annotations.
Holders ==
  [ AnalysisTechnique |-> {<<"Method", "technique">>},
    ComponentScope |-> {<<"Component", "scope">>},
    ComponentType |-> {<<"Component", "type">>},
    CryptoAssetType |-> {<<"CryptoProperties", "asset_type">>},
    CryptoCertificationLevel |-> {<<"AlgorithmProperties", "certification_levels">>},
    CryptoExecutionEnvironment |-> {<<"AlgorithmProperties", "execution_environment">>},
    CryptoFunction |-> {<<"AlgorithmProperties", "crypto_functions">>},
    CryptoImplementationPlatform |-> {<<"AlgorithmProperties", "implementation_platform">>},
    CryptoMode |-> {<<"AlgorithmProperties", "mode">>},
    CryptoPadding |-> {<<"AlgorithmProperties", "padding">>},
    CryptoPrimitive |-> {<<"AlgorithmProperties", "primitive">>},
    DataFlow |-> {<<"DataClassification", "flow">>},
    Encoding |-> {<<"AttachedText", "encoding">>, <<"NoteText", "encoding">>},
    ExternalReferenceType |-> {<<"ExternalReference", "type">>},
    HashAlgorithm |-> {<<"HashType", "alg">>},
    IdentityField |-> {<<"Identity", "field">>},
    ImpactAnalysisAffectedStatus |-> {<<"BomTargetVersionRange", "status">>},
    ImpactAnalysisJustification |-> {<<"VulnerabilityAnalysis", "justification">>},
    ImpactAnalysisResponse |-> {<<"VulnerabilityAnalysis", "responses">>},
    ImpactAnalysisState |-> {<<"VulnerabilityAnalysis", "state">>},
    IssueClassification |-> {<<"IssueType", "type">>},
    LicenseAcknowledgement |->
      {<<"DisjunctiveLicense", "acknowledgement">>,
       <<"LicenseExpression", "acknowledgement">>},
    LifecyclePhase |-> {<<"BomMetaData", "lifecycles">>},
    PatchClassification |-> {<<"Patch", "type">>},
    ProtocolPropertiesType |-> {<<"ProtocolProperties", "type">>},
    RelatedCryptoMaterialState |-> {<<"RelatedCryptoMaterialProperties", "state">>},
    RelatedCryptoMaterialType |-> {<<"RelatedCryptoMaterialProperties", "type">>},
    TlpClassification |-> {<<"DistributionConstraints", "tlp">>},
    VulnerabilityScoreSource |-> {<<"VulnerabilityRating", "method">>},
    VulnerabilitySeverity |-> {<<"VulnerabilityRating", "severity">>},
    licenses |-> {<<"Component", "licenses">>},
    tools |-> {<<"BomMetaData", "tools">>} ]

\* The classes a version shows, at most eight fields below the Bom.
ShownClasses(v) ==
  LET tables == Tables
      below(C) ==
        UNION {UNION {tables[c][f].of : f \in {g \in DOMAIN tables[c] : v \in tables[c][g].views}} : c \in C}
      within[depth \in 0..8] ==
        IF depth = 0 THEN {"Bom"}
        ELSE LET above == within[depth - 1] IN above \cup below(above)
  IN  within[8]

\* The first version that shows a class and its property that holds the values.
FirstViewsByTables ==
  LET tables == Tables
      shown == {[version |-> v, classes |-> ShownClasses(v)] : v \in AllViews}
      showing(holders) ==
        {d.version : d \in {e \in shown : \E h \in holders :
                              h[1] \in e.classes /\ e.version \in tables[h[1]][h[2]].views}}
  IN  {<<s, CHOOSE v \in showing(Holders[s]) : \A w \in showing(Holders[s]) : v <= w>> :
         s \in DOMAIN Holders}

\* The same as a record.
FirstViews ==
  [ AnalysisTechnique |-> 5, ComponentScope |-> 0, ComponentType |-> 0,
    CryptoAssetType |-> 6, CryptoCertificationLevel |-> 6,
    CryptoExecutionEnvironment |-> 6, CryptoFunction |-> 6,
    CryptoImplementationPlatform |-> 6, CryptoMode |-> 6, CryptoPadding |-> 6,
    CryptoPrimitive |-> 6, DataFlow |-> 2, Encoding |-> 1,
    ExternalReferenceType |-> 1, HashAlgorithm |-> 0, IdentityField |-> 5,
    ImpactAnalysisAffectedStatus |-> 4, ImpactAnalysisJustification |-> 4,
    ImpactAnalysisResponse |-> 4, ImpactAnalysisState |-> 4,
    IssueClassification |-> 2, LicenseAcknowledgement |-> 6,
    LifecyclePhase |-> 5, PatchClassification |-> 2,
    ProtocolPropertiesType |-> 6, RelatedCryptoMaterialState |-> 6,
    RelatedCryptoMaterialType |-> 6, TlpClassification |-> 7,
    VulnerabilityScoreSource |-> 4, VulnerabilitySeverity |-> 4,
    licenses |-> 1, tools |-> 2 ]

ASSUME FirstViewsAssumption == {<<s, FirstViews[s]>> : s \in DOMAIN FirstViews} = FirstViewsByTables

\* Two names where a helper can make two values one.
FewNames ==
  [s \in DOMAIN Holders |->
     IF s \in {"licenses", "tools", "HashAlgorithm", "ComponentScope", "VulnerabilityScoreSource"}
     THEN {"one", "two"} ELSE {"one"}]

\* Two items, and three where they stand beside each other.
FewItems == [s \in DOMAIN Holders |-> IF s \in {"licenses", "tools"} THEN 3 ELSE 2]

AnyScore == 0..100
===============================================================================
