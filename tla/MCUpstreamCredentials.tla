------------------------ MODULE MCUpstreamCredentials ------------------------
(* Two workers, a proxy and another that is not authorized; an upstream    *)
(* that changes its host, the kind of its credentials, or loses them.      *)
EXTENDS UpstreamCredentials, TLC

CONSTANTS x1, x2

MCKeyOf == x1 :> [kind |-> "p256", id |-> 1] @@ x2 :> [kind |-> "rsa", id |-> 2]

MCConfigs ==
    {[host |-> "h1", type |-> "basic", user |-> "u1", secret |-> "s1"],
     [host |-> "h2", type |-> "bearer_token", user |-> "", secret |-> "s2"],
     [host |-> "h1", type |-> "none", user |-> "", secret |-> ""]}

Symmetry ==
    Permutations(Workers) \cup Permutations(StoreKeys) \cup Permutations(Repositories)
=============================================================================
