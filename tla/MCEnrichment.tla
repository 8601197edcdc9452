---------------------------- MODULE MCEnrichment ----------------------------
(* An npm version with a license, an age and a scored repository, and an   *)
(* image tag; a vulnerability whose database severity and scores differ.   *)
EXTENDS Enrichment, TLC

NPMArtifact == [ecosystem |-> "npm", name |-> "p", namespace |-> "n", version |-> "1", tag |-> FALSE]
ImageTag == [ecosystem |-> "oci", name |-> "i", namespace |-> "n", version |-> "latest", tag |-> TRUE]

MCArtifacts == {NPMArtifact, ImageTag}

MCRegistry ==
    [a \in MCArtifacts |->
        IF a = ImageTag THEN None
        ELSE [listed |-> TRUE, age |-> 5, licenses |-> {"gpl"}, versionRepo |-> "other", repo |-> "github"]]

MCProject == [score |-> 3, checks |-> (1 :> 2)]

MCVulns == {[database |-> "moderate", scores |-> {5, 9}]}

Rule(type, config) == [type |-> type, config |-> config, valid |-> TRUE]

MCSkipRules ==
    {Rule("minimum_age", [excluded |-> {}, days |-> 3]),
     Rule("cvss_threshold", [maxCVSS |-> 9, minimumSeverity |-> None]),
     Rule("cvss_threshold", [maxCVSS |-> None, minimumSeverity |-> "medium"]),
     Rule("license", [licenses |-> {"gpl"}]),
     Rule("block_mutable_tag", [tags |-> {"latest"}])}

MCStrictRules ==
    {Rule("license_allowlist", [licenses |-> {"mit", "gpl"}, unlicensed |-> "deny",
                                unavailable |-> "deny"]),
     Rule("scorecard", [minScore |-> 2, checks |-> <<>>, unavailable |-> "deny"]),
     Rule("scorecard", [minScore |-> None, checks |-> (1 :> 1), unavailable |-> "deny"])}
=============================================================================
