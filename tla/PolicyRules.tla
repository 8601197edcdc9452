---------------------------- MODULE PolicyRules ----------------------------
(***************************************************************************)
(* The rules of docs/policy-engine.md ("Evaluation semantics") without a   *)
(* loop: what a set of policies says of a request.                         *)
(***************************************************************************)
EXTENDS PolicyConditions

\* What policy p contributes: nothing, a warning, an enforced match, an error.
Says(req, p) ==
    LET mode == TargetEvaluationMode(req, p.target)
        result == Condition(req, p)
    IN CASE ~p.enabled \/ mode = "skip" \/ result = "none" -> "nothing"
         [] p.enabled /\ mode # "skip" /\ result = "error" -> "error"
         [] OTHER -> IF p.dryRun \/ mode = "warn" THEN "warning" ELSE "match"

Recorded(req, ps) == {p \in ps : Says(req, p) # "nothing"}

\* Errors fail closed, even those of a dry-run policy.
Denies(req, p) ==
    \/ Says(req, p) = "error"
    \/ Says(req, p) = "match" /\ p.action = "deny"
Deniers(req, ps) == {p \in ps : Denies(req, p)}

First(ps) == CHOOSE p \in ps : \A q \in ps \ {p} : Before(p, q)

\* Any denier denies and the first one supplies the reason; no denier allows;
\* everything that matched is kept for the audit.
VerdictOn(req, ps) ==
    [outcome |-> IF Deniers(req, ps) # {} THEN "deny" ELSE "allow",
     reason |-> IF Deniers(req, ps) # {} THEN First(Deniers(req, ps))
                ELSE IF Recorded(req, ps) # {} THEN First(Recorded(req, ps))
                ELSE None,
     recorded |-> Recorded(req, ps)]
=============================================================================
