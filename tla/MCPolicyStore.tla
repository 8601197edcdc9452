---------------------------- MODULE MCPolicyStore ----------------------------
(* Two administrators, two policy names, an npm upstream whose profile can *)
(* shrink or turn to OCI.                                                  *)
EXTENDS PolicyStore, TLC

CONSTANTS u1, u2

Def(name, type, upstream, enabled, target, config) ==
    [name |-> name, type |-> type, upstream |-> upstream, action |-> "deny",
     schema |-> 0, enabled |-> enabled, target |-> target, config |-> config]

RuntimeOnly == [scopes |-> {}, types |-> {"prod"}, onUnknown |-> None]

Licensed == Def("n1", "license", u1, TRUE, RuntimeOnly, [licenses |-> {"gpl"}])
Disabled == Def("n1", "blocklist", None, FALSE, None, [namespaces |-> {"x"}])
Tagged == Def("n2", "block_mutable_tag", u1, TRUE, None, [tags |-> {"latest"}])
\* Refused: the threshold is not a score.
Unscored == Def("n2", "scorecard", None, TRUE, None, [min_score |-> 11])

MCDefinitions == {Licensed, Disabled, Tagged, Unscored}

Explicit(d) == [d EXCEPT !.schema = 1]

MCImports == {<<Explicit(Disabled), Explicit(Def("n2", "license", u1, TRUE, None, Licensed.config))>>}

Request(ecosystem, url, capabilities, auth) ==
    [ecosystem |-> ecosystem, url |-> url, capabilities |-> capabilities, auth |-> auth]

NpmFull == Request("npm", "a", None, None)
NpmBare == Request("npm", "a", {"publish_time"}, None)
OciAuth == Request("oci", "a", None, "token")

MCRequests == {NpmFull, NpmBare, OciAuth}
Symmetry == Permutations(Admins) \cup Permutations(PolicyIDs)
=============================================================================
