-------------------------- MODULE PolicyConditions --------------------------
(***************************************************************************)
(* The policy types of core/policy/condition and the target selector of    *)
(* the evaluator: what one policy says of one request.  A request carries  *)
(* the artifact, its enrichment metadata (None when there is none) and its *)
(* npm dependency context (None when it was not resolved).  Scores and     *)
(* ages are integers; Scorecard checks are numbered in name order.         *)
(***************************************************************************)
EXTENDS Integers, FiniteSets

CONSTANT None   \* nil pointer, empty string

\* (true, reason) is "match", (false, "") is "none" (an error is "error").
Verdict(matched) == IF matched THEN "match" ELSE "none"

-----------------------------------------------------------------------------
(* Age, vulnerabilities.                                                   *)

IsExcludedPackage(req, c) == req.artifact.name \in c.excluded

\* The publication age in days, None if it is unknown.
Age(req) == IF req.metadata = None THEN None ELSE req.metadata.age

MinimumAge(req, c) ==
    ~IsExcludedPackage(req, c) /\ Age(req) # None /\ Age(req) < c.days

MaximumAge(req, c) ==
    ~IsExcludedPackage(req, c) /\ Age(req) # None /\ Age(req) > c.days

\* None is a severity no one can rank.
SeverityRank(severity) ==
    CASE severity = "none" -> 0
      [] severity = "low" -> 1
      [] severity = "medium" -> 2
      [] severity = "high" -> 3
      [] severity = "critical" -> 4
      [] OTHER -> -1

\* Mutant: the top of the scale falls out of the table.
SeverityFromCVSSBelowTen(score) ==
    CASE score >= 9 /\ score < 10 -> "critical"
      [] score >= 7 /\ score < 9 -> "high"
      [] score >= 4 /\ score < 7 -> "medium"
      [] score > 0 /\ score < 4 -> "low"
      [] OTHER -> None

SeverityFromCVSS(score) ==
    CASE score >= 9 -> "critical"
      [] score >= 7 /\ score < 9 -> "high"
      [] score >= 4 /\ score < 7 -> "medium"
      [] score > 0 /\ score < 4 -> "low"
      [] OTHER -> None

SeverityAtOrAbove(actual, threshold) ==
    /\ SeverityRank(actual) # -1 /\ SeverityRank(threshold) # -1
    /\ SeverityRank(actual) >= SeverityRank(threshold)

\* The declared severity, or the one inferred from the vulnerability's score.
ActualSeverity(v) ==
    IF SeverityRank(v.severity) # -1 THEN v.severity ELSE SeverityFromCVSS(v.cvss)

CVSSThreshold(req, c) ==
    /\ req.metadata # None
    /\ \/ /\ c.maxCVSS # None /\ req.metadata.maxCVSS # None
          /\ req.metadata.maxCVSS >= c.maxCVSS
       \/ /\ c.minimumSeverity # None
          /\ \E v \in req.metadata.vulnerabilities :
                SeverityAtOrAbove(ActualSeverity(v), c.minimumSeverity)

-----------------------------------------------------------------------------
(* Licenses, namespaces, tags.                                             *)

License(req, c) == req.metadata # None /\ req.metadata.licenses \cap c.licenses # {}

IsUnversionedNPMMetadataRequest(req) ==
    req.artifact.ecosystem = "npm" /\ req.artifact.version = None

\* Schema 1 has "deny" for both behaviours.
LicenseAllowlist(req, c) ==
    \/ req.metadata = None /\ c.unavailable # "skip"
    \/ /\ req.metadata # None
       /\ IF req.metadata.licenses = {}
          THEN c.unlicensed # "skip"
          ELSE ~(req.metadata.licenses \subseteq c.licenses)

Allowlist(req, c) == req.artifact.namespace \in c.namespaces
NamespaceAllowlist(req, c) == req.artifact.namespace \notin c.namespaces
Blocklist(req, c) == req.artifact.namespace \in c.namespaces

BlockMutableTag(req, c) ==
    /\ req.metadata # None /\ req.metadata.isMutableTag
    /\ req.artifact.version \in c.tags

-----------------------------------------------------------------------------
(* OpenSSF Scorecard.                                                      *)

Unavailable(c) == c.unavailable # "skip"

\* The first check, in name order, that is missing, negative or too low.
BadChecks(card, c) ==
    {n \in DOMAIN c.checks : n \notin DOMAIN card.checks \/ card.checks[n] < c.checks[n]}

\* A check without a usable score ends the evaluation: the checks after it
\* are not looked at.
Checks(card, c) ==
    \E n \in BadChecks(card, c) :
        /\ \A k \in BadChecks(card, c) : n <= k
        /\ IF n \notin DOMAIN card.checks \/ card.checks[n] < 0
           THEN Unavailable(c) ELSE TRUE

Scorecard(req, c) ==
    IF req.metadata = None \/ req.metadata.scorecard = None
    THEN Unavailable(c)
    ELSE LET card == req.metadata.scorecard IN
         CASE c.minScore # None /\ card.score = None -> Unavailable(c)
           [] c.minScore # None /\ card.score # None /\ card.score < c.minScore -> TRUE
           [] OTHER -> Checks(card, c)

-----------------------------------------------------------------------------
(* Dispatch: conditionForType and the config check of every condition.     *)

Matches(req, p) ==
    CASE p.type = "minimum_age" -> MinimumAge(req, p.config)
      [] p.type = "maximum_age" -> MaximumAge(req, p.config)
      [] p.type = "cvss_threshold" -> CVSSThreshold(req, p.config)
      [] p.type = "license" -> License(req, p.config)
      [] p.type = "license_allowlist" -> LicenseAllowlist(req, p.config)
      [] p.type = "allowlist" -> Allowlist(req, p.config)
      [] p.type = "namespace_allowlist" -> NamespaceAllowlist(req, p.config)
      [] p.type = "blocklist" -> Blocklist(req, p.config)
      [] p.type = "block_mutable_tag" -> BlockMutableTag(req, p.config)
      [] p.type = "scorecard" -> Scorecard(req, p.config)
      [] OTHER -> FALSE

KnownTypes == {"minimum_age", "maximum_age", "cvss_threshold", "license",
               "license_allowlist", "allowlist", "namespace_allowlist",
               "blocklist", "block_mutable_tag", "scorecard"}

\* license_allowlist looks at the request before it looks at its config.
Condition(req, p) ==
    CASE p.type \notin KnownTypes -> "error"
      [] p.type = "license_allowlist" /\ IsUnversionedNPMMetadataRequest(req) -> "none"
      [] OTHER -> IF p.valid THEN Verdict(Matches(req, p)) ELSE "error"

-----------------------------------------------------------------------------
(* Order and dependency targets.                                           *)

\* Ascending priority, then name; ValidatePolicies makes names unique.
Before(p, q) ==
    p.priority < q.priority \/ (p.priority = q.priority /\ p.name < q.name)

Scope(req) == IF req.context = None THEN "unknown" ELSE req.context.scope

ScopeMatches(req, t) == t.scopes = {} \/ Scope(req) \in t.scopes
DependencyTypesMatch(req, t) == t.types = {} \/ t.types \cap req.context.types # {}

TargetEvaluationMode(req, t) ==
    CASE t = None -> "apply"
      [] t # None /\ Scope(req) = "unknown" ->
            (CASE t.onUnknown = "deny" -> "apply"
               [] t.onUnknown = "skip" -> "skip"
               [] OTHER -> "warn")
      [] OTHER -> IF ScopeMatches(req, t) /\ DependencyTypesMatch(req, t)
                  THEN "apply" ELSE "skip"
=============================================================================
