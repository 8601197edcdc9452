--------------------------- MODULE MCPolicyEngine ---------------------------
(* A small instance of PolicyEngine for TLC. *)
EXTENDS PolicyEngine

Rule(name, priority, type, config) ==
    [name |-> name, priority |-> priority, type |-> type, config |-> config,
     action |-> "deny", enabled |-> TRUE, dryRun |-> FALSE, valid |-> TRUE,
     target |-> None]

DirectProd(onUnknown) ==
    [scopes |-> {"direct"}, types |-> {"prod"}, onUnknown |-> onUnknown]

Candidates == {
    Rule(1, 2, "cvss_threshold", [maxCVSS |-> None, minimumSeverity |-> "high"]),
    [Rule(2, 1, "cvss_threshold", [maxCVSS |-> 7, minimumSeverity |-> None])
        EXCEPT !.dryRun = TRUE],
    [Rule(3, 1, "maximum_age", [days |-> 2, excluded |-> {}])
        EXCEPT !.target = DirectProd("warn")],
    [Rule(4, 2, "minimum_age", [days |-> 2, excluded |-> {"b"}])
        EXCEPT !.target = DirectProd("deny")],
    [Rule(5, 0, "allowlist", [namespaces |-> {"ns"}]) EXCEPT !.action = "allow"],
    [Rule(6, 0, "blocklist", [namespaces |-> {"ns"}])
        EXCEPT !.target = DirectProd("skip")],
    [Rule(7, 3, "namespace_allowlist", [namespaces |-> {"ns"}]) EXCEPT !.enabled = FALSE],
    [Rule(8, 1, "license", [licenses |-> {}]) EXCEPT !.valid = FALSE, !.dryRun = TRUE],
    Rule(9, 2, "license_allowlist",
         [licenses |-> {"mit"}, unlicensed |-> "deny", unavailable |-> "skip"]),
    Rule(10, 1, "block_mutable_tag", [tags |-> {"latest"}]),
    Rule(11, 0, "scorecard", [minScore |-> 2, checks |-> [n \in {1, 2} |-> 2],
                              unavailable |-> "skip"]),
    Rule(12, 2, "license", [licenses |-> {"gpl"}])}

Triples == {ps \in SUBSET Candidates : Cardinality(ps) <= 3}

Meta(age, max, vulns, licenses, tag, card) ==
    [age |-> age, maxCVSS |-> max, vulnerabilities |-> vulns, licenses |-> licenses,
     isMutableTag |-> tag, scorecard |-> card]
Req(ecosystem, version, meta, context) ==
    [artifact |-> [ecosystem |-> ecosystem, namespace |-> "ns", name |-> "a",
                   version |-> version],
     metadata |-> meta, context |-> context]

Card(checks) == [score |-> 3, checks |-> checks]
Direct == [scope |-> "direct", types |-> {"prod"}]
Vuln(severity, cvss) == {[severity |-> severity, cvss |-> cvss]}

\* No metadata; an OCI tag; npm releases with scores at the table's borders.
SomeRequests ==
    {Req("npm", "v", None, None), Req("npm", None, None, None),
     Req("oci", "latest", Meta(None, None, {}, {}, TRUE, None), None),
     Req("npm", "v", Meta(1, None, {}, {"gpl"}, FALSE, Card([n \in {2} |-> 1])), Direct),
     Req("npm", "v", Meta(3, None, {}, {"mit"}, FALSE, Card([n \in {1, 2} |-> 1])),
         [scope |-> "transitive", types |-> {"prod"}])}
    \cup {Req("npm", "v", Meta(3, max, Vuln(None, cvss), {"mit"}, FALSE, None), Direct) :
             max \in {None, 7}, cvss \in {0, 6, 7, 9, 10}}
=============================================================================
