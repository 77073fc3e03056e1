------------------------------ MODULE ModelFields ------------------------------
(***************************************************************************)
(* The fields of the model classes of cyclonedx/model, class by class: in  *)
(* which schema versions a field is rendered (its serializable.view        *)
(* decorators; none means all), what it holds, and whether the             *)
(* __comparable_tuple behind __eq__, __lt__ and __hash__ has it.           *)
(*                                                                         *)
(* A schema version is a number, 0 for 1.0 up to 7 for 1.7.  A field is a  *)
(* leaf (a value, a collection of values, a ref, or a collection with a    *)
(* serialisation helper of its own, as tools and dependencies have), a     *)
(* part (one element, or a list) or a set of elements.  The names are the  *)
(* properties' names in the code; score_or_0 stands for the one difference *)
(* of scores that __comparable_tuple does not see.                         *)
(***************************************************************************)
EXTENDS Naturals, TLC

NewestView == 7
AllViews == 0..NewestView

\* What serializable.view and the type of a property say of a field.
Leaves(names) ==
  [f \in names |-> [views |-> AllViews, many |-> FALSE, of |-> {}, compared |-> TRUE]]
Parts(names, classes) ==
  [f \in names |-> [views |-> AllViews, many |-> FALSE, of |-> classes, compared |-> TRUE]]
Sets(names, classes) ==
  [f \in names |-> [views |-> AllViews, many |-> TRUE, of |-> classes, compared |-> TRUE]]

\* The same fields with the views from a version on, within a range, or
\* left out of __comparable_tuple.
During(first, last, fields) == [f \in DOMAIN fields |-> [fields[f] EXCEPT !.views = first..last]]
Since(first, fields) == During(first, NewestView, fields)
Unequal(fields) == [f \in DOMAIN fields |-> [fields[f] EXCEPT !.compared = FALSE]]

\* model/bom.py
DistributionConstraints ==
  Leaves({"tlp"})

\* model/bom.py
BomMetaData ==
  Leaves({"timestamp", "tools"})
  @@ Since(5, Sets({"lifecycles"}, {"NamedLifecycle"}))
  @@ Sets({"authors"}, {"OrganizationalContact"})
  @@ Parts({"component"}, {"Component"})
  @@ Since(2, Parts({"manufacture"}, {"OrganizationalEntity"}))
  @@ Since(6, Parts({"manufacturer"}, {"OrganizationalEntity"}))
  @@ Parts({"supplier"}, {"OrganizationalEntity"})
  @@ Since(3, Sets({"licenses"}, {"DisjunctiveLicense", "LicenseExpression"}))
  @@ Since(3, Sets({"properties"}, {"Property"}))
  @@ Since(7, Parts({"distribution_constraints"}, {"DistributionConstraints"}))

\* model/bom.py
Bom ==
  Since(1, Leaves({"serial_number"}))
  @@ Leaves({"version"})
  @@ Since(2, Parts({"metadata"}, {"BomMetaData"}))
  @@ Sets({"components"}, {"Component"})
  @@ Since(2, Sets({"services"}, {"Service"}))
  @@ Since(1, Sets({"external_references"}, {"ExternalReference"}))
  @@ Since(2, Leaves({"dependencies"}))
  @@ Since(5, Sets({"properties"}, {"Property"}))
  @@ Since(4, Sets({"vulnerabilities"}, {"Vulnerability"}))
  @@ Unequal(Since(6, Parts({"definitions"}, {"Definitions"})))

\* model/component.py
Commit ==
  Leaves({"uid", "url", "message"})
  @@ Parts({"author", "committer"}, {"IdentifiableAction"})

\* model/component.py
Diff ==
  Parts({"text"}, {"AttachedText"})
  @@ Leaves({"url"})

\* model/component.py
Patch ==
  Leaves({"type"})
  @@ Parts({"diff"}, {"Diff"})
  @@ Sets({"resolves"}, {"IssueType"})

\* model/component.py
Pedigree ==
  Sets({"ancestors", "descendants", "variants"}, {"Component"})
  @@ Sets({"commits"}, {"Commit"})
  @@ Since(2, Sets({"patches"}, {"Patch"}))
  @@ Leaves({"notes"})

\* model/component.py
Swid ==
  Leaves({"tag_id", "name", "version", "tag_version", "patch", "url"})
  @@ Parts({"text"}, {"AttachedText"})

\* model/component.py
Component ==
  Leaves({"type", "mime_type", "publisher", "group", "name", "version", "description",
        "scope", "copyright", "cpe"})
  @@ Since(1, Leaves({"bom_ref"}))
  @@ Since(2, Parts({"supplier"}, {"OrganizationalEntity"}))
  @@ Since(6, Parts({"manufacturer"}, {"OrganizationalEntity"}))
  @@ Since(6, Sets({"authors"}, {"OrganizationalContact"}))
  @@ Since(2, Leaves({"author"}))
  @@ Sets({"hashes"}, {"HashType"})
  @@ Since(1, Sets({"licenses"}, {"DisjunctiveLicense", "LicenseExpression"}))
  @@ Parts({"purl"}, {"PackageURL"})
  @@ Since(6, Leaves({"omnibor_ids", "swhids", "tags"}))
  @@ Since(2, Parts({"swid"}, {"Swid"}))
  @@ During(0, 0, Leaves({"modified"}))
  @@ Since(1, Parts({"pedigree"}, {"Pedigree"}))
  @@ Since(1, Sets({"external_references"}, {"ExternalReference"}))
  @@ Since(3, Sets({"properties"}, {"Property"}))
  @@ Sets({"components"}, {"Component"})
  @@ Since(3, Parts({"evidence"}, {"ComponentEvidence"}))
  @@ Since(4, Parts({"release_notes"}, {"ReleaseNotes"}))
  @@ Since(6, Parts({"crypto_properties"}, {"CryptoProperties"}))

\* model/service.py
Service ==
  Leaves({"bom_ref", "group", "name", "version", "description", "endpoints",
        "authenticated", "x_trust_boundary"})
  @@ Parts({"provider"}, {"OrganizationalEntity"})
  @@ Sets({"data"}, {"DataClassification"})
  @@ Sets({"licenses"}, {"DisjunctiveLicense", "LicenseExpression"})
  @@ Sets({"external_references"}, {"ExternalReference"})
  @@ Since(3, Sets({"properties"}, {"Property"}))
  @@ Sets({"services"}, {"Service"})
  @@ Since(4, Parts({"release_notes"}, {"ReleaseNotes"}))

\* model/component_evidence.py
Method ==
  Leaves({"technique", "confidence", "value"})

\* model/component_evidence.py
Identity ==
  Leaves({"field", "confidence", "tools"})
  @@ Since(6, Leaves({"concluded_value"}))
  @@ Sets({"methods"}, {"Method"})

\* model/component_evidence.py
Occurrence ==
  Leaves({"bom_ref", "location"})
  @@ Since(6, Leaves({"line", "offset", "symbol", "additional_context"}))

\* model/component_evidence.py
CallStackFrame ==
  Leaves({"package", "module", "function", "parameters", "line", "column",
        "full_filename"})

\* model/component_evidence.py
CallStack ==
  Parts({"frames"}, {"CallStackFrame"})

\* model/component_evidence.py
ComponentEvidence ==
  Since(5, Sets({"identity"}, {"Identity"}))
  @@ Since(5, Sets({"occurrences"}, {"Occurrence"}))
  @@ Since(5, Parts({"callstack"}, {"CallStack"}))
  @@ Sets({"licenses"}, {"DisjunctiveLicense", "LicenseExpression"})
  @@ Leaves({"copyright"})

\* Support for 1.7 that forgets the view of the acknowledgement.
DisjunctiveLicenseNotYet ==
  Since(5, Leaves({"bom_ref"}))
  @@ Leaves({"id", "name", "url"})
  @@ Parts({"text"}, {"AttachedText"})
  @@ Since(5, Sets({"properties"}, {"Property"}))
  @@ During(6, 6, Leaves({"acknowledgement"}))

\* model/license.py
DisjunctiveLicense ==
  Since(5, Leaves({"bom_ref"}))
  @@ Leaves({"id", "name", "url"})
  @@ Parts({"text"}, {"AttachedText"})
  @@ Since(5, Sets({"properties"}, {"Property"}))
  @@ Since(6, Leaves({"acknowledgement"}))

\* model/license.py
LicenseExpression ==
  Since(5, Leaves({"bom_ref"}))
  @@ Leaves({"value"})
  @@ Since(6, Leaves({"acknowledgement"}))

\* model/tool.py
Tool ==
  Leaves({"vendor", "name", "version"})
  @@ Sets({"hashes"}, {"HashType"})
  @@ Since(4, Sets({"external_references"}, {"ExternalReference"}))

\* model/lifecycle.py
NamedLifecycle ==
  Leaves({"name", "description"})

\* model/vulnerability.py
BomTargetVersionRange ==
  Leaves({"version", "range", "status"})

\* model/vulnerability.py
BomTarget ==
  Leaves({"ref"})
  @@ Sets({"versions"}, {"BomTargetVersionRange"})

\* model/vulnerability.py
VulnerabilityAnalysis ==
  Leaves({"state", "justification", "responses", "detail"})
  @@ Since(5, Leaves({"first_issued", "last_updated"}))

\* model/vulnerability.py
VulnerabilityAdvisory ==
  Leaves({"title", "url"})

\* model/vulnerability.py
VulnerabilitySource ==
  Leaves({"name", "url"})

\* model/vulnerability.py
VulnerabilityReference ==
  Leaves({"id"})
  @@ Parts({"source"}, {"VulnerabilitySource"})

\* model/vulnerability.py.  Ratings are compared by `self.score or 0`: no score
\* and a score of 0 make no difference, any other two scores do.
VulnerabilityRating ==
  Parts({"source"}, {"VulnerabilitySource"})
  @@ Leaves({"score", "severity", "method", "vector", "justification"})
  @@ Unequal(Leaves({"score_or_0"}))

\* model/vulnerability.py
VulnerabilityCredits ==
  Sets({"organizations"}, {"OrganizationalEntity"})
  @@ Sets({"individuals"}, {"OrganizationalContact"})

\* model/vulnerability.py
Vulnerability ==
  Leaves({"bom_ref", "id", "cwes", "description", "detail", "recommendation",
        "created", "published", "updated", "tools"})
  @@ Parts({"source"}, {"VulnerabilitySource"})
  @@ Sets({"references"}, {"VulnerabilityReference"})
  @@ Sets({"ratings"}, {"VulnerabilityRating"})
  @@ Since(5, Leaves({"workaround"}))
  @@ Sets({"advisories"}, {"VulnerabilityAdvisory"})
  @@ Parts({"credits"}, {"VulnerabilityCredits"})
  @@ Parts({"analysis"}, {"VulnerabilityAnalysis"})
  @@ Sets({"affects"}, {"BomTarget"})
  @@ Sets({"properties"}, {"Property"})

\* model/contact.py
PostalAddress ==
  Leaves({"bom_ref", "country", "region", "locality", "post_office_box_number",
        "postal_code", "street_address"})

\* model/contact.py
OrganizationalContact ==
  Since(5, Leaves({"bom_ref"}))
  @@ Leaves({"name", "email", "phone"})

\* model/contact.py
OrganizationalEntity ==
  Since(5, Leaves({"bom_ref"}))
  @@ Leaves({"name", "urls"})
  @@ Unequal(Since(6, Parts({"address"}, {"PostalAddress"})))
  @@ Sets({"contacts"}, {"OrganizationalContact"})

\* model/issue.py
IssueTypeSource ==
  Leaves({"name", "url"})

\* model/issue.py
IssueType ==
  Leaves({"type", "id", "name", "description", "references"})
  @@ Parts({"source"}, {"IssueTypeSource"})

\* model/release_note.py
ReleaseNotes ==
  Leaves({"type", "title", "featured_image", "social_image", "description",
        "timestamp", "aliases", "tags"})
  @@ Sets({"resolves"}, {"IssueType"})
  @@ Sets({"notes"}, {"Note"})
  @@ Sets({"properties"}, {"Property"})

\* model/definition.py
Requirement ==
  Leaves({"bom_ref", "identifier", "title", "text", "descriptions", "open_cre",
        "parent"})
  @@ Sets({"properties"}, {"Property"})
  @@ Sets({"external_references"}, {"ExternalReference"})

\* model/definition.py
Level ==
  Leaves({"bom_ref", "identifier", "title", "description", "requirements"})

\* model/definition.py
Standard ==
  Leaves({"bom_ref", "name", "version", "description", "owner"})
  @@ Sets({"requirements"}, {"Requirement"})
  @@ Sets({"levels"}, {"Level"})
  @@ Sets({"external_references"}, {"ExternalReference"})

\* model/definition.py
Definitions ==
  Sets({"standards"}, {"Standard"})

\* model/crypto.py
AlgorithmProperties ==
  Leaves({"primitive", "parameter_set_identifier", "curve", "execution_environment",
        "implementation_platform", "mode", "padding", "crypto_functions",
        "classical_security_level", "nist_quantum_security_level"})
  @@ Since(6, Leaves({"certification_levels"}))

\* model/crypto.py
CertificateProperties ==
  Leaves({"subject_name", "issuer_name", "not_valid_before", "not_valid_after",
        "certificate_format", "certificate_extension"})
  @@ Unequal(Leaves({"signature_algorithm_ref", "subject_public_key_ref"}))

\* model/crypto.py
RelatedCryptoMaterialSecuredBy ==
  Leaves({"mechanism", "algorithm_ref"})

\* model/crypto.py
RelatedCryptoMaterialProperties ==
  Leaves({"type", "id", "state", "algorithm_ref", "creation_date", "activation_date",
        "update_date", "expiration_date", "value", "size", "format"})
  @@ Parts({"secured_by"}, {"RelatedCryptoMaterialSecuredBy"})

\* model/crypto.py
ProtocolPropertiesCipherSuite ==
  Leaves({"name", "algorithms", "identifiers"})

\* model/crypto.py
Ikev2TransformTypes ==
  Leaves({"encr", "prf", "integ", "ke", "esn", "auth"})

\* model/crypto.py
ProtocolProperties ==
  Leaves({"type", "version", "crypto_refs"})
  @@ Sets({"cipher_suites"}, {"ProtocolPropertiesCipherSuite"})
  @@ Parts({"ikev2_transform_types"}, {"Ikev2TransformTypes"})

\* model/crypto.py
CryptoProperties ==
  Leaves({"asset_type", "oid"})
  @@ Parts({"algorithm_properties"}, {"AlgorithmProperties"})
  @@ Parts({"certificate_properties"}, {"CertificateProperties"})
  @@ Parts({"related_crypto_material_properties"},
        {"RelatedCryptoMaterialProperties"})
  @@ Parts({"protocol_properties"}, {"ProtocolProperties"})

\* model/__init__.py
DataClassification ==
  Leaves({"flow", "classification"})

\* model/__init__.py
AttachedText ==
  Leaves({"content_type", "encoding", "content"})

\* model/__init__.py
HashType ==
  Leaves({"alg", "content"})

\* Support for 1.6 that forgets the view of the hashes.
ExternalReferenceGap ==
  Leaves({"url", "comment", "type"})
  @@ [f \in {"hashes"} |-> [views |-> (3..5) \cup {7}, many |-> TRUE, of |-> {"HashType"},
                            compared |-> TRUE]]
  @@ Since(7, Sets({"properties"}, {"Property"}))

\* model/__init__.py
ExternalReference ==
  Leaves({"url", "comment", "type"})
  @@ Since(3, Sets({"hashes"}, {"HashType"}))
  @@ Since(7, Sets({"properties"}, {"Property"}))

\* An equality that forgets a field the documents show.
PropertyByName ==
  Leaves({"name"}) @@ Unequal(Leaves({"value"}))

\* model/__init__.py
Property ==
  Leaves({"name", "value"})

\* model/__init__.py
NoteText ==
  Leaves({"content", "content_type", "encoding"})

\* model/__init__.py
Note ==
  Parts({"text"}, {"NoteText"})
  @@ Leaves({"locale"})

\* model/__init__.py
IdentifiableAction ==
  Leaves({"timestamp", "name", "email"})

\* packageurl-python's PackageURL, compared by ComparablePackageURL, which
\* leaves out the name.
PackageURL ==
  Leaves({"type", "namespace", "version", "qualifiers", "subpath"})
  @@ Unequal(Leaves({"name"}))

\* The tables by the name of the class.
Tables ==
  [DistributionConstraints |-> DistributionConstraints, BomMetaData |-> BomMetaData,
   Bom |-> Bom, Commit |-> Commit, Diff |-> Diff, Patch |-> Patch,
   Pedigree |-> Pedigree, Swid |-> Swid, Component |-> Component,
   Service |-> Service, Method |-> Method, Identity |-> Identity,
   Occurrence |-> Occurrence, CallStackFrame |-> CallStackFrame,
   CallStack |-> CallStack, ComponentEvidence |-> ComponentEvidence,
   DisjunctiveLicense |-> DisjunctiveLicense,
   LicenseExpression |-> LicenseExpression, Tool |-> Tool,
   NamedLifecycle |-> NamedLifecycle,
   BomTargetVersionRange |-> BomTargetVersionRange, BomTarget |-> BomTarget,
   VulnerabilityAnalysis |-> VulnerabilityAnalysis,
   VulnerabilityAdvisory |-> VulnerabilityAdvisory,
   VulnerabilitySource |-> VulnerabilitySource,
   VulnerabilityReference |-> VulnerabilityReference,
   VulnerabilityRating |-> VulnerabilityRating,
   VulnerabilityCredits |-> VulnerabilityCredits, Vulnerability |-> Vulnerability,
   PostalAddress |-> PostalAddress, OrganizationalContact |-> OrganizationalContact,
   OrganizationalEntity |-> OrganizationalEntity,
   IssueTypeSource |-> IssueTypeSource, IssueType |-> IssueType,
   ReleaseNotes |-> ReleaseNotes, Requirement |-> Requirement, Level |-> Level,
   Standard |-> Standard, Definitions |-> Definitions,
   AlgorithmProperties |-> AlgorithmProperties,
   CertificateProperties |-> CertificateProperties,
   RelatedCryptoMaterialSecuredBy |-> RelatedCryptoMaterialSecuredBy,
   RelatedCryptoMaterialProperties |-> RelatedCryptoMaterialProperties,
   ProtocolPropertiesCipherSuite |-> ProtocolPropertiesCipherSuite,
   Ikev2TransformTypes |-> Ikev2TransformTypes,
   ProtocolProperties |-> ProtocolProperties, CryptoProperties |-> CryptoProperties,
   DataClassification |-> DataClassification, AttachedText |-> AttachedText,
   HashType |-> HashType, ExternalReference |-> ExternalReference,
   Property |-> Property, NoteText |-> NoteText, Note |-> Note,
   IdentifiableAction |-> IdentifiableAction, PackageURL |-> PackageURL]
================================================================================
