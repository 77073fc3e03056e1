--------------------------- MODULE SchemaEnumerations ---------------------------
(***************************************************************************)
(* What the XML schemas of CycloneDX 1.0 to 1.7 (cyclonedx/schema/_res)    *)
(* allow in the places where cyclonedx/model has an enumeration, by the    *)
(* version that added it; no version takes a value away, and the JSON      *)
(* schemas allow the same.                                                 *)
(***************************************************************************)
LOCAL INSTANCE Naturals
LOCAL INSTANCE TLC

Upto(added) ==
  [v \in 0..7 |-> UNION {added[w] : w \in DOMAIN added \cap (0..v)}]

SchemaAnalysisTechnique ==
  Upto(5 :> {"source-code-analysis", "binary-analysis", "manifest-analysis",
             "ast-fingerprint", "hash-comparison", "instrumentation", "dynamic-analysis",
             "filename", "attestation", "other"})
SchemaComponentScope ==
  Upto((0 :> {"required", "optional"})
     @@ (1 :> {"excluded"}))
SchemaComponentType ==
  Upto((0 :> {"application", "device", "framework", "library", "operating-system"})
     @@ (1 :> {"file"})
     @@ (2 :> {"container", "firmware"})
     @@ (5 :> {"data", "device-driver", "machine-learning-model", "platform"})
     @@ (6 :> {"cryptographic-asset"}))
SchemaCryptoAssetType ==
  Upto(6 :> {"algorithm", "certificate", "protocol", "related-crypto-material"})
SchemaCryptoCertificationLevel ==
  Upto(6 :> {"none", "fips140-1-l1", "fips140-1-l2", "fips140-1-l3", "fips140-1-l4",
             "fips140-2-l1", "fips140-2-l2", "fips140-2-l3", "fips140-2-l4",
             "fips140-3-l1", "fips140-3-l2", "fips140-3-l3", "fips140-3-l4", "cc-eal1",
             "cc-eal1+", "cc-eal2", "cc-eal2+", "cc-eal3", "cc-eal3+", "cc-eal4",
             "cc-eal4+", "cc-eal5", "cc-eal5+", "cc-eal6", "cc-eal6+", "cc-eal7",
             "cc-eal7+", "other", "unknown"})
SchemaCryptoExecutionEnvironment ==
  Upto(6 :> {"hardware", "software-encrypted-ram", "software-plain-ram", "software-tee",
             "other", "unknown"})
SchemaCryptoFunction ==
  Upto(6 :> {"decapsulate", "decrypt", "digest", "encapsulate", "encrypt", "generate",
             "keyderive", "keygen", "sign", "tag", "verify", "other", "unknown"})
SchemaCryptoImplementationPlatform ==
  Upto(6 :> {"armv7-a", "armv7-m", "armv8-a", "armv8-m", "armv9-a", "armv9-m", "generic",
             "ppc64", "ppc64le", "s390x", "x86_32", "x86_64", "other", "unknown"})
SchemaCryptoMode ==
  Upto(6 :> {"cbc", "ccm", "cfb", "ctr", "ecb", "gcm", "ofb", "other", "unknown"})
SchemaCryptoPadding ==
  Upto(6 :> {"pkcs5", "pkcs7", "pkcs1v15", "oaep", "raw", "other", "unknown"})
SchemaCryptoPrimitive ==
  Upto((6 :> {"ae", "block-cipher", "combiner", "drbg", "hash", "kdf", "kem", "key-agree",
              "mac", "pke", "signature", "stream-cipher", "xof", "other", "unknown"})
     @@ (7 :> {"key-wrap"}))
SchemaDataFlow ==
  Upto(2 :> {"inbound", "outbound", "bi-directional", "unknown"})
SchemaEncoding ==
  Upto(1 :> {"base64"})
SchemaExternalReferenceType ==
  Upto((1 :> {"advisories", "bom", "build-meta", "build-system", "chat", "distribution",
              "documentation", "issue-tracker", "license", "mailing-list", "social", "vcs",
              "support", "website", "other"})
     @@ (4 :> {"release-notes"})
     @@ (5 :> {"adversary-model", "attestation", "certification-report",
               "codified-infrastructure", "component-analysis-report", "configuration",
               "distribution-intake", "dynamic-analysis-report", "evidence",
               "exploitability-statement", "formulation", "log", "maturity-report",
               "model-card", "pentest-report", "poam", "quality-metrics",
               "risk-assessment", "runtime-analysis-report", "security-contact",
               "static-analysis-report", "threat-model", "vulnerability-assertion"})
     @@ (6 :> {"digital-signature", "electronic-signature", "rfc-9116",
               "source-distribution"})
     @@ (7 :> {"citation", "patent", "patent-assertion", "patent-family"}))
SchemaHashAlgorithm ==
  Upto((0 :> {"MD5", "SHA-1", "SHA-256", "SHA-384", "SHA-512", "SHA3-256", "SHA3-512"})
     @@ (2 :> {"BLAKE2b-256", "BLAKE2b-384", "BLAKE2b-512", "BLAKE3", "SHA3-384"})
     @@ (7 :> {"Streebog-256", "Streebog-512"}))
SchemaIdentityField ==
  Upto((5 :> {"group", "name", "version", "purl", "cpe", "swid", "hash"})
     @@ (6 :> {"omniborId", "swhid"}))
SchemaImpactAnalysisAffectedStatus ==
  Upto(4 :> {"affected", "unaffected", "unknown"})
SchemaImpactAnalysisJustification ==
  Upto(4 :> {"code_not_present", "code_not_reachable", "protected_at_perimeter",
             "protected_at_runtime", "protected_by_compiler",
             "protected_by_mitigating_control", "requires_configuration",
             "requires_dependency", "requires_environment"})
SchemaImpactAnalysisResponse ==
  Upto(4 :> {"can_not_fix", "rollback", "update", "will_not_fix", "workaround_available"})
SchemaImpactAnalysisState ==
  Upto(4 :> {"resolved", "resolved_with_pedigree", "exploitable", "in_triage",
             "false_positive", "not_affected"})
SchemaIssueClassification ==
  Upto(2 :> {"defect", "enhancement", "security"})
SchemaLicenseAcknowledgement ==
  Upto(6 :> {"concluded", "declared"})
SchemaLifecyclePhase ==
  Upto(5 :> {"design", "pre-build", "build", "post-build", "operations", "discovery",
             "decommission"})
SchemaPatchClassification ==
  Upto(2 :> {"backport", "cherry-pick", "monkey", "unofficial"})
SchemaProtocolPropertiesType ==
  Upto((6 :> {"ike", "ipsec", "ssh", "sstp", "tls", "wpa", "other", "unknown"})
     @@ (7 :> {"5g-aka", "dtls", "eap-aka", "eap-aka-prime", "prins", "quic"}))
SchemaRelatedCryptoMaterialState ==
  Upto(6 :> {"active", "compromised", "deactivated", "destroyed", "pre-activation",
             "suspended"})
SchemaRelatedCryptoMaterialType ==
  Upto(6 :> {"additional-data", "ciphertext", "credential", "digest",
             "initialization-vector", "key", "nonce", "password", "private-key",
             "public-key", "salt", "secret-key", "seed", "shared-secret", "signature",
             "tag", "token", "other", "unknown"})
SchemaTlpClassification ==
  Upto(7 :> {"CLEAR", "GREEN", "AMBER", "AMBER_AND_STRICT", "RED"})
SchemaVulnerabilityScoreSource ==
  Upto((4 :> {"CVSSv2", "CVSSv3", "CVSSv31", "OWASP", "other"})
     @@ (5 :> {"CVSSv4", "SSVC"}))
SchemaVulnerabilitySeverity ==
  Upto(4 :> {"none", "info", "low", "medium", "high", "critical", "unknown"})

SchemaEnumeration ==
  [ AnalysisTechnique |-> SchemaAnalysisTechnique,
    ComponentScope |-> SchemaComponentScope,
    ComponentType |-> SchemaComponentType,
    CryptoAssetType |-> SchemaCryptoAssetType,
    CryptoCertificationLevel |-> SchemaCryptoCertificationLevel,
    CryptoExecutionEnvironment |-> SchemaCryptoExecutionEnvironment,
    CryptoFunction |-> SchemaCryptoFunction,
    CryptoImplementationPlatform |-> SchemaCryptoImplementationPlatform,
    CryptoMode |-> SchemaCryptoMode,
    CryptoPadding |-> SchemaCryptoPadding,
    CryptoPrimitive |-> SchemaCryptoPrimitive,
    DataFlow |-> SchemaDataFlow,
    Encoding |-> SchemaEncoding,
    ExternalReferenceType |-> SchemaExternalReferenceType,
    HashAlgorithm |-> SchemaHashAlgorithm,
    IdentityField |-> SchemaIdentityField,
    ImpactAnalysisAffectedStatus |-> SchemaImpactAnalysisAffectedStatus,
    ImpactAnalysisJustification |-> SchemaImpactAnalysisJustification,
    ImpactAnalysisResponse |-> SchemaImpactAnalysisResponse,
    ImpactAnalysisState |-> SchemaImpactAnalysisState,
    IssueClassification |-> SchemaIssueClassification,
    LicenseAcknowledgement |-> SchemaLicenseAcknowledgement,
    LifecyclePhase |-> SchemaLifecyclePhase,
    PatchClassification |-> SchemaPatchClassification,
    ProtocolPropertiesType |-> SchemaProtocolPropertiesType,
    RelatedCryptoMaterialState |-> SchemaRelatedCryptoMaterialState,
    RelatedCryptoMaterialType |-> SchemaRelatedCryptoMaterialType,
    TlpClassification |-> SchemaTlpClassification,
    VulnerabilityScoreSource |-> SchemaVulnerabilityScoreSource,
    VulnerabilitySeverity |-> SchemaVulnerabilitySeverity ]
=================================================================================
