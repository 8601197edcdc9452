---------------------------- MODULE PolicyEngine ----------------------------
(***************************************************************************)
(* Evaluator.Evaluate: the enabled policies in priority order, one step    *)
(* per policy, and the decision built from what the loop has gathered.  A  *)
(* reason or message is represented by the policy it comes from.           *)
(***************************************************************************)
EXTENDS PolicyRules, Sequences

CONSTANTS PolicySets, AccessRequests, Pending

ASSUME EngineAssumption ==
    /\ \A ps \in PolicySets : IsFiniteSet(ps)
    /\ \A ps \in PolicySets : \A p \in ps :
          /\ p.priority \in Int /\ p.name \in Int
          /\ p.enabled \in BOOLEAN /\ p.dryRun \in BOOLEAN
          /\ p.action \in {"allow", "deny"}
    /\ \A ps \in PolicySets : \A p, q \in ps : p # q => p.name # q.name
    /\ \A ps \in PolicySets : None \notin ps

\* Scores and thresholds are numbers where there are any.
ASSUME ScoreAssumption ==
    /\ None \notin Int /\ None \notin {"none", "low", "medium", "high", "critical"}
    /\ \A r \in AccessRequests : r.metadata # None =>
          /\ {"age", "licenses", "isMutableTag", "scorecard"} \subseteq DOMAIN r.metadata
          /\ r.metadata.maxCVSS \in Int \cup {None}
          /\ \A v \in r.metadata.vulnerabilities : v.cvss \in Int
    /\ \A ps \in PolicySets : \A p \in ps :
          p.type = "cvss_threshold" => p.config.maxCVSS \in Int \cup {None}

VARIABLES
    policies,         \* the effective policies of the request's upstream
    request,
    todo,             \* enabled policies the loop has not reached
    reasons, warnings, firstDenyReason, hasDeny,   \* evaluationState
    decision

evalVars == <<policies, request, todo, reasons, warnings, firstDenyReason, hasDeny, decision>>

EvalInit ==
    /\ policies \in PolicySets
    /\ request \in AccessRequests
    /\ todo = {p \in policies : p.enabled}
    /\ reasons = <<>>
    /\ warnings = <<>>
    /\ firstDenyReason = None
    /\ hasDeny = FALSE
    /\ decision = Pending

-----------------------------------------------------------------------------
(* evaluatePolicy.                                                         *)

Reason(p, category, action) == [policy |-> p, category |-> category, action |-> action]

\* The loop reaches p, whose target selects it as `mode`.
Reach(p, mode) ==
    /\ p \in todo /\ \A q \in todo \ {p} : Before(p, q)
    /\ TargetEvaluationMode(request, p.target) = mode
    /\ todo' = todo \ {p}
    /\ UNCHANGED <<policies, request, decision>>

\* The user-facing reason is that of the first deny.
Deny(p) ==
    /\ hasDeny' = TRUE
    /\ firstDenyReason' = IF hasDeny THEN firstDenyReason ELSE p

SkipsTarget(p) ==
    /\ Reach(p, "skip")
    /\ UNCHANGED <<reasons, warnings, firstDenyReason, hasDeny>>

\* An unknown type or a condition error: deny, whatever mode and action are.
ConditionFails(p, mode) ==
    /\ mode # "skip" /\ Reach(p, mode)
    /\ Condition(request, p) = "error"
    /\ reasons' = Append(reasons, Reason(p, "evaluation_error", "deny"))
    /\ Deny(p)
    /\ UNCHANGED warnings

DoesNotMatch(p, mode) ==
    /\ mode # "skip" /\ Reach(p, mode)
    /\ Condition(request, p) = "none"
    /\ UNCHANGED <<reasons, warnings, firstDenyReason, hasDeny>>

\* dry_run, or an unknown dependency context under on_unknown: warn.
Warns(p, mode) ==
    /\ mode # "skip" /\ Reach(p, mode)
    /\ Condition(request, p) = "match" /\ (p.dryRun \/ mode = "warn")
    /\ reasons' = Append(reasons, Reason(p, "policy_warning", p.action))
    /\ warnings' = Append(warnings, p)
    /\ UNCHANGED <<firstDenyReason, hasDeny>>

\* Mutant: the last deny supplies the reason.
EnforcesLast(p) ==
    /\ Reach(p, "apply")
    /\ Condition(request, p) = "match" /\ ~p.dryRun
    /\ reasons' = Append(reasons, Reason(p, "policy_match", p.action))
    /\ IF p.action = "deny" THEN hasDeny' = TRUE /\ firstDenyReason' = p
                            ELSE UNCHANGED <<firstDenyReason, hasDeny>>
    /\ UNCHANGED warnings

Enforces(p) ==
    /\ Reach(p, "apply")
    /\ Condition(request, p) = "match" /\ ~p.dryRun
    /\ reasons' = Append(reasons, Reason(p, "policy_match", p.action))
    /\ IF p.action = "deny" THEN Deny(p) ELSE UNCHANGED <<firstDenyReason, hasDeny>>
    /\ UNCHANGED warnings

-----------------------------------------------------------------------------
(* decision.                                                               *)

\* The first reason with action deny, the warnings among them included.
FirstDenyPolicyID(rs) ==
    LET denials == {i \in DOMAIN rs : rs[i].action = "deny"}
    IN IF denials = {} THEN None
       ELSE rs[CHOOSE i \in denials : \A j \in denials : i <= j].policy

FirstRecorded(rs) == IF rs = <<>> THEN None ELSE rs[1].policy

Decide ==
    /\ todo = {} /\ decision = Pending
    /\ decision' = [outcome |-> IF hasDeny THEN "deny" ELSE "allow",
                    reason |-> IF hasDeny THEN firstDenyReason ELSE FirstRecorded(reasons),
                    policyID |-> IF hasDeny THEN FirstDenyPolicyID(reasons)
                                 ELSE FirstRecorded(reasons),
                    reasons |-> reasons, warnings |-> warnings]
    /\ UNCHANGED <<policies, request, todo, reasons, warnings, firstDenyReason, hasDeny>>

Modes == {"apply", "warn", "skip"}

EvaluatePolicy(p) ==
    \/ SkipsTarget(p)
    \/ Enforces(p)
    \/ \E mode \in Modes : ConditionFails(p, mode) \/ DoesNotMatch(p, mode) \/ Warns(p, mode)

EvalNext == (\E p \in todo : EvaluatePolicy(p)) \/ Decide

EvalSpec == EvalInit /\ [][EvalNext]_evalVars

-----------------------------------------------------------------------------
(* Properties.                                                             *)

Categories == {"policy_match", "policy_warning", "evaluation_error"}
ReasonSet == [policy : policies, category : Categories, action : {"allow", "deny"}]

\* Every variable keeps its type.
EvalTypeOK ==
    /\ policies \in PolicySets
    /\ request \in AccessRequests
    /\ todo \subseteq policies
    /\ reasons \in Seq(ReasonSet)
    /\ warnings \in Seq(policies)
    /\ firstDenyReason \in policies \cup {None}
    /\ hasDeny \in BOOLEAN

\* The promise of PolicyVerdict, read off the decision of the loop.
Range(s) == {s[i] : i \in DOMAIN s}
Promised == IF decision = Pending THEN Pending
            ELSE [outcome |-> decision.outcome, reason |-> decision.reason,
                  recorded |-> {r.policy : r \in Range(decision.reasons)}]
Abstract == INSTANCE PolicyVerdict WITH Requests <- AccessRequests, decision <- Promised

\* The loop implements the rules of policy-engine.md: deny wins over allow
\* whatever the priorities are, the first enforced deny supplies the reason,
\* warnings change nothing, errors fail closed, every match is recorded.
VerdictRefined == Abstract!Spec

\* Request s is request r with vulnerabilities that score at least as high.
Worse(s, r) ==
    /\ s.artifact = r.artifact /\ s.context = r.context
    /\ s.metadata # None /\ r.metadata # None
    /\ s.metadata = [r.metadata EXCEPT !.vulnerabilities = s.metadata.vulnerabilities,
                                       !.maxCVSS = s.metadata.maxCVSS]
    /\ r.metadata.maxCVSS # None =>
          s.metadata.maxCVSS # None /\ s.metadata.maxCVSS >= r.metadata.maxCVSS
    /\ \A v \in r.metadata.vulnerabilities : \E w \in s.metadata.vulnerabilities :
          w.severity = v.severity /\ w.cvss >= v.cvss

\* A more vulnerable release of a denied artifact is denied too, whichever
\* of score, declared severity and inferred severity the rule looked at.
WorseIsDeniedToo ==
    decision # Pending /\ decision.outcome = "deny" =>
        \A s \in AccessRequests : Worse(s, request) =>
            VerdictOn(s, policies).outcome = "deny"
=============================================================================
