--------------------------- MODULE MCProxyHandlers ---------------------------
(* A small instance of ProxyHandlers for TLC. *)
EXTENDS ProxyHandlers, TLC

CONSTANTS t1, t2, u1, u2, u3, v1, v2, pkg, Pkg

MCOwner == u1 :> t1 @@ u2 :> t1 @@ u3 :> t2

\* t1 has an npm and an OCI upstream, the latter of which may become the more
\* recent npm one; t2 has an npm upstream.
MCRegistered == t1 :> {[id |-> u1, eco |-> "npm", at |-> 0],
                       [id |-> u2, eco |-> "oci", at |-> 0]}
                @@ t2 :> {[id |-> u3, eco |-> "npm", at |-> 0]}

\* By path or host, and pinned to an upstream with a header that disagrees with
\* the path or host.
MCRoutes == {[header |-> None, place |-> t1, pin |-> None],
             [header |-> t1, place |-> t2, pin |-> u3]}

\* One package in two spellings.
MCToLower == pkg :> pkg @@ Pkg :> pkg

\* No policy, the whole package but one version denied.
MCDenials == {{}, {[name |-> pkg, ref |-> x] : x \in {v1, Tag, None}}}
=============================================================================
