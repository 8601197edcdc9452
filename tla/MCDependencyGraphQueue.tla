----------------------- MODULE MCDependencyGraphQueue -----------------------
(* Small instances of DependencyGraphQueue for TLC. *)
EXTENDS DependencyGraphQueue, TLC

CONSTANTS j1, j2, w1, w2, t1, t2

TwoTenants == j1 :> t1 @@ j2 :> t2
OneScoped == w1 :> t1 @@ w2 :> AllTenants
OneTenant == [j \in Job |-> t1]
Unscoped == [w \in Worker |-> AllTenants]
=============================================================================
