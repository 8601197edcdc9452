--------------------------- MODULE PolicyVerdict ---------------------------
(***************************************************************************)
(* What an evaluation promises: one step from a policy set and a request   *)
(* to the verdict of the rules.                                            *)
(***************************************************************************)
CONSTANTS PolicySets, Requests,
          Pending,           \* no decision yet
          VerdictOn(_, _)    \* the rules, see PolicyRules

VARIABLES policies, request, decision

vars == <<policies, request, decision>>

Init == policies \in PolicySets /\ request \in Requests /\ decision = Pending

Decide ==
    /\ decision = Pending
    /\ decision' = VerdictOn(request, policies)
    /\ UNCHANGED <<policies, request>>

Spec == Init /\ [][Decide]_vars
=============================================================================
