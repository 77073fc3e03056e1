------------------------------ MODULE Enumerations ------------------------------
(***************************************************************************)
(* The enumerations of cyclonedx/model, each with the values it renders,   *)
(* and what the serialisation helpers let through in each schema version.  *)
(* Schema version 1.n is n.                                                *)
(***************************************************************************)
LOCAL INSTANCE Naturals
LOCAL INSTANCE TLC

AnalysisTechnique ==
  {"source-code-analysis", "binary-analysis", "manifest-analysis", "ast-fingerprint",
   "hash-comparison", "instrumentation", "dynamic-analysis", "filename", "attestation",
   "other"}
ComponentScope == {"required", "optional", "excluded"}
ComponentType ==
  {"application", "container", "cryptographic-asset", "data", "device", "device-driver",
   "file", "firmware", "framework", "library", "machine-learning-model",
   "operating-system", "platform"}
CryptoAssetType == {"algorithm", "certificate", "protocol", "related-crypto-material"}
CryptoCertificationLevel ==
  {"none", "fips140-1-l1", "fips140-1-l2", "fips140-1-l3", "fips140-1-l4", "fips140-2-l1",
   "fips140-2-l2", "fips140-2-l3", "fips140-2-l4", "fips140-3-l1", "fips140-3-l2",
   "fips140-3-l3", "fips140-3-l4", "cc-eal1", "cc-eal1+", "cc-eal2", "cc-eal2+", "cc-eal3",
   "cc-eal3+", "cc-eal4", "cc-eal4+", "cc-eal5", "cc-eal5+", "cc-eal6", "cc-eal6+",
   "cc-eal7", "cc-eal7+", "other", "unknown"}
CryptoExecutionEnvironment ==
  {"hardware", "software-encrypted-ram", "software-plain-ram", "software-tee", "other",
   "unknown"}
CryptoFunction ==
  {"decapsulate", "decrypt", "digest", "encapsulate", "encrypt", "generate", "keyderive",
   "keygen", "sign", "tag", "verify", "other", "unknown"}
CryptoImplementationPlatform ==
  {"armv7-a", "armv7-m", "armv8-a", "armv8-m", "armv9-a", "armv9-m", "generic", "ppc64",
   "ppc64le", "s390x", "x86_32", "x86_64", "other", "unknown"}
CryptoMode == {"cbc", "ccm", "cfb", "ctr", "ecb", "gcm", "ofb", "other", "unknown"}
CryptoPadding == {"pkcs5", "pkcs7", "pkcs1v15", "oaep", "raw", "other", "unknown"}
CryptoPrimitive ==
  {"ae", "block-cipher", "combiner", "drbg", "hash", "kdf", "kem", "key-agree", "mac",
   "pke", "signature", "stream-cipher", "xof", "other", "unknown"}
DataFlow == {"inbound", "outbound", "bi-directional", "unknown"}
Encoding == {"base64"}
ExternalReferenceType ==
  {"adversary-model", "advisories", "attestation", "bom", "build-meta", "build-system",
   "certification-report", "chat", "citation", "codified-infrastructure",
   "component-analysis-report", "configuration", "digital-signature", "distribution",
   "distribution-intake", "documentation", "dynamic-analysis-report",
   "electronic-signature", "evidence", "exploitability-statement", "formulation",
   "issue-tracker", "license", "log", "mailing-list", "maturity-report", "model-card",
   "patent", "patent-assertion", "patent-family", "pentest-report", "poam",
   "quality-metrics", "release-notes", "rfc-9116", "risk-assessment",
   "runtime-analysis-report", "security-contact", "static-analysis-report", "social",
   "source-distribution", "vcs", "support", "threat-model", "vulnerability-assertion",
   "website", "other"}
\* The algorithms up to 1.6, and all.
HashAlgorithmOf16 ==
  {"BLAKE2b-256", "BLAKE2b-384", "BLAKE2b-512", "BLAKE3", "MD5", "SHA-1", "SHA-256",
   "SHA-384", "SHA-512", "SHA3-256", "SHA3-384", "SHA3-512"}
HashAlgorithm ==
  {"BLAKE2b-256", "BLAKE2b-384", "BLAKE2b-512", "BLAKE3", "MD5", "SHA-1", "SHA-256",
   "SHA-384", "SHA-512", "SHA3-256", "SHA3-384", "SHA3-512", "Streebog-256",
   "Streebog-512"}
IdentityField ==
  {"group", "name", "version", "purl", "cpe", "omniborId", "swhid", "swid", "hash"}
ImpactAnalysisAffectedStatus == {"affected", "unaffected", "unknown"}
ImpactAnalysisJustification ==
  {"code_not_present", "code_not_reachable", "protected_at_perimeter",
   "protected_at_runtime", "protected_by_compiler", "protected_by_mitigating_control",
   "requires_configuration", "requires_dependency", "requires_environment"}
ImpactAnalysisResponse ==
  {"can_not_fix", "rollback", "update", "will_not_fix", "workaround_available"}
ImpactAnalysisState ==
  {"resolved", "resolved_with_pedigree", "exploitable", "in_triage", "false_positive",
   "not_affected"}
IssueClassification == {"defect", "enhancement", "security"}
LicenseAcknowledgement == {"concluded", "declared"}
LifecyclePhase ==
  {"design", "pre-build", "build", "post-build", "operations", "discovery", "decommission"}
PatchClassification == {"backport", "cherry-pick", "monkey", "unofficial"}
ProtocolPropertiesType == {"ike", "ipsec", "ssh", "sstp", "tls", "wpa", "other", "unknown"}
RelatedCryptoMaterialState ==
  {"active", "compromised", "deactivated", "destroyed", "pre-activation", "suspended"}
RelatedCryptoMaterialType ==
  {"additional-data", "ciphertext", "credential", "digest", "initialization-vector", "key",
   "nonce", "password", "private-key", "public-key", "salt", "secret-key", "seed",
   "shared-secret", "signature", "tag", "token", "other", "unknown"}
TlpClassification == {"CLEAR", "GREEN", "AMBER", "AMBER_AND_STRICT", "RED"}
VulnerabilityScoreSource ==
  {"CVSSv2", "CVSSv3", "CVSSv31", "CVSSv4", "OWASP", "SSVC", "other"}
VulnerabilitySeverity == {"none", "info", "low", "medium", "high", "critical", "unknown"}

-----------------------------------------------------------------------------
\* What the versions up to each one have added.
CasesUpto(added) ==
  [v \in 0..7 |-> UNION {added[w] : w \in DOMAIN added \cap (0..v)}]

ComponentScopeCases ==
  CasesUpto((0 :> {"required", "optional"})
          @@ (1 :> {"excluded"}))
ComponentTypeCases ==
  CasesUpto((0 :> {"application", "device", "framework", "library", "operating-system"})
          @@ (1 :> {"file"})
          @@ (2 :> {"container", "firmware"})
          @@ (5 :> {"data", "device-driver", "machine-learning-model", "platform"})
          @@ (6 :> {"cryptographic-asset"}))
ExternalReferenceTypeCases ==
  CasesUpto((1 :> {"vcs", "issue-tracker", "website", "advisories", "bom", "mailing-list",
                   "social", "chat", "documentation", "support", "distribution", "license",
                   "build-meta", "build-system", "other"})
          @@ (4 :> {"release-notes"})
          @@ (5 :> {"distribution-intake", "security-contact", "model-card", "log",
                    "configuration", "evidence", "formulation", "attestation",
                    "threat-model", "adversary-model", "risk-assessment",
                    "vulnerability-assertion", "exploitability-statement",
                    "pentest-report", "static-analysis-report", "dynamic-analysis-report",
                    "runtime-analysis-report", "component-analysis-report",
                    "maturity-report", "certification-report", "quality-metrics",
                    "codified-infrastructure", "poam"})
          @@ (6 :> {"source-distribution", "electronic-signature", "digital-signature",
                    "rfc-9116"})
          @@ (7 :> {"citation", "patent", "patent-assertion", "patent-family"}))
\* The same with a table that adds a version too late.
HashAlgorithmCasesLate ==
  CasesUpto((0 :> {"MD5", "SHA-1", "SHA-256", "SHA-384", "SHA-512", "SHA3-256", "SHA3-512"})
          @@ (3 :> {"BLAKE2b-256", "BLAKE2b-384", "BLAKE2b-512", "BLAKE3", "SHA3-384"})
          @@ (7 :> {"Streebog-256", "Streebog-512"}))
HashAlgorithmCases ==
  CasesUpto((0 :> {"MD5", "SHA-1", "SHA-256", "SHA-384", "SHA-512", "SHA3-256", "SHA3-512"})
          @@ (2 :> {"BLAKE2b-256", "BLAKE2b-384", "BLAKE2b-512", "BLAKE3", "SHA3-384"})
          @@ (7 :> {"Streebog-256", "Streebog-512"}))
VulnerabilityScoreSourceCases ==
  CasesUpto((4 :> {"CVSSv2", "CVSSv3", "CVSSv31", "OWASP", "other"})
          @@ (5 :> {"CVSSv4", "SSVC"}))

-----------------------------------------------------------------------------
EnumerationValues ==
  [ AnalysisTechnique |-> AnalysisTechnique,
    ComponentScope |-> ComponentScope,
    ComponentType |-> ComponentType,
    CryptoAssetType |-> CryptoAssetType,
    CryptoCertificationLevel |-> CryptoCertificationLevel,
    CryptoExecutionEnvironment |-> CryptoExecutionEnvironment,
    CryptoFunction |-> CryptoFunction,
    CryptoImplementationPlatform |-> CryptoImplementationPlatform,
    CryptoMode |-> CryptoMode,
    CryptoPadding |-> CryptoPadding,
    CryptoPrimitive |-> CryptoPrimitive,
    DataFlow |-> DataFlow,
    Encoding |-> Encoding,
    ExternalReferenceType |-> ExternalReferenceType,
    HashAlgorithm |-> HashAlgorithm,
    IdentityField |-> IdentityField,
    ImpactAnalysisAffectedStatus |-> ImpactAnalysisAffectedStatus,
    ImpactAnalysisJustification |-> ImpactAnalysisJustification,
    ImpactAnalysisResponse |-> ImpactAnalysisResponse,
    ImpactAnalysisState |-> ImpactAnalysisState,
    IssueClassification |-> IssueClassification,
    LicenseAcknowledgement |-> LicenseAcknowledgement,
    LifecyclePhase |-> LifecyclePhase,
    PatchClassification |-> PatchClassification,
    ProtocolPropertiesType |-> ProtocolPropertiesType,
    RelatedCryptoMaterialState |-> RelatedCryptoMaterialState,
    RelatedCryptoMaterialType |-> RelatedCryptoMaterialType,
    TlpClassification |-> TlpClassification,
    VulnerabilityScoreSource |-> VulnerabilityScoreSource,
    VulnerabilitySeverity |-> VulnerabilitySeverity ]

EnumerationCases ==
  [ ComponentScope |-> ComponentScopeCases,
    ComponentType |-> ComponentTypeCases,
    ExternalReferenceType |-> ExternalReferenceTypeCases,
    HashAlgorithm |-> HashAlgorithmCases,
    VulnerabilityScoreSource |-> VulnerabilityScoreSourceCases ]

=================================================================================
