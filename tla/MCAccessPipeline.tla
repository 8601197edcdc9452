------------------------- MODULE MCAccessPipeline -------------------------
(* Small instances of AccessPipeline for TLC. *)
EXTENDS AccessPipeline, TLC

P(type, target, valid) ==
    [type |-> type, upstream |-> AnyUpstream, target |-> target, valid |-> valid]

BlockTags == P("block_mutable_tag", NoTarget, TRUE)
Cvss == P("cvss", NoTarget, TRUE)
DenyAll == P("denylist", NoTarget, TRUE)
DenyDirect == P("denylist", [scopes |-> {"direct"}, onUnknown |-> "warn"], TRUE)
Broken == P("denylist", NoTarget, FALSE)

\* Two requests and a change to a broken configuration, or from one.
RacePolicySets == {{}, {DenyAll, Broken}}
StalePolicySets == {{}, {DenyAll}}
\* One request at a time under faults: rules on tags and contexts, rules on
\* metadata, a broken configuration.
MixedPolicySets == {{BlockTags, DenyDirect}, {Cvss}, {DenyAll, Broken}}
Symmetry == Permutations(Req)
===========================================================================
