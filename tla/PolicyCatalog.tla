---------------------------- MODULE PolicyCatalog ----------------------------
(***************************************************************************)
(* The catalog of policy types: what each accepts, and which upstream it   *)
(* can be scoped to.                                                       *)
(*                                                                         *)
(* A configuration is the record of the keys that were given, a check name *)
(* of a Scorecard rule the pair of its normal form and its spelling.       *)
(***************************************************************************)
EXTENDS Naturals

CONSTANT None

Ecosystems == {"npm", "oci"}

defineDenyPolicyV1(ecosystem, capability) ==
    [actions |-> {"deny"}, schemas |-> {1}, ecosystems |-> {ecosystem},
     capabilities |-> {capability}]

NamespacePolicy(action) ==
    [actions |-> {action}, schemas |-> {1}, ecosystems |-> Ecosystems, capabilities |-> {}]

cvssThresholdPolicyDefinition == defineDenyPolicyV1("npm", "vulnerability_lookup")
minimumAgePolicyDefinition == defineDenyPolicyV1("npm", "publish_time")
maximumAgePolicyDefinition == defineDenyPolicyV1("npm", "publish_time")
blockMutableTagPolicyDefinition == defineDenyPolicyV1("oci", "manifest_digest_lookup")
scorecardPolicyDefinition == defineDenyPolicyV1("npm", "scorecard_lookup")
licensePolicyDefinition ==
    [actions |-> {"allow", "deny"}, schemas |-> {1}, ecosystems |-> {"npm"},
     capabilities |-> {"licenses"}]
licenseAllowlistPolicyDefinition ==
    [licensePolicyDefinition EXCEPT !.actions = {"deny"}, !.schemas = {1, 2}]
allowlistPolicyDefinition == NamespacePolicy("allow")
namespaceAllowlistPolicyDefinition == NamespacePolicy("deny")
blocklistPolicyDefinition == NamespacePolicy("deny")

policyDefinitionsByType ==
    [cvss_threshold |-> cvssThresholdPolicyDefinition,
     minimum_age |-> minimumAgePolicyDefinition,
     maximum_age |-> maximumAgePolicyDefinition,
     block_mutable_tag |-> blockMutableTagPolicyDefinition,
     scorecard |-> scorecardPolicyDefinition,
     license |-> licensePolicyDefinition,
     license_allowlist |-> licenseAllowlistPolicyDefinition,
     allowlist |-> allowlistPolicyDefinition,
     namespace_allowlist |-> namespaceAllowlistPolicyDefinition,
     blocklist |-> blocklistPolicyDefinition]

PolicyTypes == DOMAIN policyDefinitionsByType

CurrentSchemaVersion(type) ==
    CHOOSE v \in policyDefinitionsByType[type].schemas :
        \A w \in policyDefinitionsByType[type].schemas : w <= v

\* Zero asks for the current schema.
NormalizeSchemaVersion(type, version) ==
    IF version # 0 THEN version ELSE CurrentSchemaVersion(type)

-----------------------------------------------------------------------------
(* Configurations and targets.                                             *)

Has(c, key) == key \in DOMAIN c

NonEmpty(c, key) == Has(c, key) /\ c[key] # {}

validateScorecardScore(value) == value \in 0..10

\* What to do without data: absent is deny.
validateMissingBehavior(c, key) == Has(c, key) => c[key] \in {"deny", "skip"}

MinimumAgePolicyConfig(c) == Has(c, "min_age_days")

MaximumAgePolicyConfig(c) == Has(c, "max_age_days")

CVSSThresholdPolicyConfig(c) ==
    /\ Has(c, "max_cvss") \/ Has(c, "minimum_severity")
    /\ Has(c, "max_cvss") => c["max_cvss"] \in 0..10
    /\ Has(c, "minimum_severity") =>
            c["minimum_severity"] \in {"critical", "high", "medium", "low", "none"}

LicensePolicyConfig(c) == NonEmpty(c, "licenses")

LicenseAllowlistPolicyConfigV2(c) ==
    /\ NonEmpty(c, "licenses")
    /\ validateMissingBehavior(c, "unlicensed_behavior")
    /\ validateMissingBehavior(c, "unavailable_metadata_behavior")

BlockMutableTagPolicyConfig(c) == NonEmpty(c, "tags")

NamespaceListPolicyConfig(c) == NonEmpty(c, "namespaces")

NormalizeScorecardCheckName(name) == name[1]

\* Two spellings of one check are a conflict.
ScorecardPolicyConfig(c) ==
    LET checks == IF Has(c, "checks") THEN c["checks"] ELSE <<>>
        normal(n) == NormalizeScorecardCheckName(n)
    IN
    /\ Has(c, "min_score") \/ checks # <<>>
    /\ Has(c, "min_score") => validateScorecardScore(c["min_score"])
    /\ validateMissingBehavior(c, "unavailable_scorecard_behavior")
    /\ \A n \in DOMAIN checks : normal(n) # "" /\ validateScorecardScore(checks[n])
    /\ \A m, n \in DOMAIN checks : normal(m) = normal(n) => m = n

ConfigKeys(type, schema) ==
    {"dry_run"} \cup
    CASE type = "cvss_threshold" -> {"max_cvss", "minimum_severity"}
      [] type = "minimum_age" -> {"min_age_days", "exclude_packages"}
      [] type = "maximum_age" -> {"max_age_days", "exclude_packages"}
      [] type = "block_mutable_tag" -> {"tags"}
      [] type = "scorecard" -> {"min_score", "checks", "unavailable_scorecard_behavior"}
      [] type = "license" -> {"licenses"}
      [] type = "license_allowlist" ->
            IF schema = 1 THEN {"licenses"}
            ELSE {"licenses", "unlicensed_behavior", "unavailable_metadata_behavior"}
      [] OTHER -> {"namespaces"}

\* Keys the schema does not know are refused, then the type's own checks.
DecodeConfigJSON(type, schema, c) ==
    /\ DOMAIN c \subseteq ConfigKeys(type, schema)
    /\ CASE type = "cvss_threshold" -> CVSSThresholdPolicyConfig(c)
         [] type = "minimum_age" -> MinimumAgePolicyConfig(c)
         [] type = "maximum_age" -> MaximumAgePolicyConfig(c)
         [] type = "block_mutable_tag" -> BlockMutableTagPolicyConfig(c)
         [] type = "scorecard" -> ScorecardPolicyConfig(c)
         [] type = "license" -> LicensePolicyConfig(c)
         [] type = "license_allowlist" -> LicenseAllowlistPolicyConfigV2(c)
         [] OTHER -> NamespaceListPolicyConfig(c)

PolicyTargetValid(t) ==
    t # None =>
        /\ t.onUnknown \in {None, "warn", "deny", "skip"}
        /\ t.scopes \subseteq {"direct", "transitive", "unknown"}
        /\ t.types \subseteq {"prod", "dev", "peer", "optional"}

\* on_unknown is warn unless given.
NormalizeTarget(t) ==
    IF t # None /\ t.onUnknown = None THEN [t EXCEPT !.onUnknown = "warn"] ELSE t

\* A definition is accepted for what its type supports.
ValidatePolicy(d) ==
    LET schema == NormalizeSchemaVersion(d.type, d.schema) IN
    /\ d.type \in PolicyTypes
    /\ d.action \in policyDefinitionsByType[d.type].actions
    /\ schema \in policyDefinitionsByType[d.type].schemas
    /\ DecodeConfigJSON(d.type, schema, d.config)
    /\ PolicyTargetValid(d.target)

\* Also for a document as a whole: no two policies of one name.
ValidatePolicies(ds) ==
    /\ \A i \in DOMAIN ds : ValidatePolicy(ds[i])
    /\ \A i, j \in DOMAIN ds : ds[i].name = ds[j].name => i = j

-----------------------------------------------------------------------------
(* Capabilities of upstreams.                                              *)

AllowedUpstreamCapabilities(ecosystem) ==
    CASE ecosystem = "npm" -> {"publish_time", "licenses", "vulnerability_lookup",
                               "scorecard_lookup"}
      [] ecosystem = "oci" -> {"manifest_digest_lookup"}

\* None asks for the default profile.  The result is the profile, or None
\* when a capability is foreign to the ecosystem.
NormalizeUpstreamCapabilities(ecosystem, capabilities) ==
    CASE capabilities = None -> AllowedUpstreamCapabilities(ecosystem)
      [] capabilities # None /\ capabilities \subseteq AllowedUpstreamCapabilities(ecosystem)
            -> capabilities
      [] OTHER -> None

\* A profile stored before Scorecard existed counts as the full one.
EffectiveUpstreamCapabilities(u) ==
    IF /\ u.ecosystem = "npm"
       /\ u.capabilities = {"publish_time", "licenses", "vulnerability_lookup"}
    THEN AllowedUpstreamCapabilities("npm")
    ELSE u.capabilities

ValidateUpstreamCompatibility(type, u) ==
    /\ u.ecosystem \in policyDefinitionsByType[type].ecosystems
    /\ policyDefinitionsByType[type].capabilities \subseteq EffectiveUpstreamCapabilities(u)
=============================================================================
