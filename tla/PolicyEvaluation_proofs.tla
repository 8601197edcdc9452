---------------------- MODULE PolicyEvaluation_proofs ----------------------
(*****************************************************************************)
(* The evaluator and the metadata it judges: two specifications that share   *)
(* the conditions of PolicyConditions.                                       *)
(*                                                                           *)
(* PolicyEngine: the loop implements the rules, for every policy set with    *)
(* unique names and every request.  Enrichment: what an outage of a source   *)
(* may do to metadata, for any artifacts, vulnerabilities, rules and number  *)
(* of requests and outages; the invariant names, for every stage of a        *)
(* request and for every cache entry, the metadata that are possible there.  *)
(*****************************************************************************)
EXTENDS PolicyEngine, Enrichment, TLAPS

-----------------------------------------------------------------------------
(* The evaluator.                                                          *)

\* The enabled policies the loop has passed.
Done == {p \in policies : p.enabled /\ p \notin todo}

\* p comes before every other member of ps.
Leads(p, ps) == p \in ps /\ \A q \in ps \ {p} : Before(p, q)

\* The loop runs in order, ...
OrderInv ==
    /\ \A p \in todo : p.enabled
    /\ \A p \in Done, q \in todo : Before(p, q)
\* ... its flag and its first reason are those of the denials so far, ...
DenyInv ==
    /\ hasDeny <=> Deniers(request, Done) # {}
    /\ hasDeny => Leads(firstDenyReason, Deniers(request, Done))
\* ... and so are the reasons.
RecordInv ==
    /\ {r.policy : r \in Range(reasons)} = Recorded(request, Done)
    /\ reasons # <<>> => Leads(reasons[1].policy, Recorded(request, Done))

EInv == EvalTypeOK /\ OrderInv /\ DenyInv /\ RecordInv

-----------------------------------------------------------------------------
(* Facts about the rules.                                                  *)

\* Before is a strict order on the policies of a set.
LEMMA BeforeAsymmetric ==
    ASSUME NEW ps \in PolicySets, NEW p \in ps, NEW q \in ps, Before(p, q)
    PROVE  ~Before(q, p)
BY EngineAssumption, SMT DEF Before

LEMMA BeforeTransitive ==
    ASSUME NEW ps \in PolicySets, NEW p \in ps, NEW q \in ps, NEW r \in ps,
           Before(p, q), Before(q, r)
    PROVE  Before(p, r)
BY EngineAssumption, SMT DEF Before

\* The leader of a set of policies is its First.
LEMMA LeaderIsFirst ==
    ASSUME NEW ps \in PolicySets, NEW S, S \subseteq ps, NEW p, Leads(p, S)
    PROVE  First(S) = p
<1> DEFINE c == First(S)
<1>1. c \in S /\ \A q \in S \ {c} : Before(c, q)
  BY Zenon DEF First, Leads
<1>2. SUFFICES ASSUME c # p PROVE FALSE
  OBVIOUS
<1>3. Before(c, p) /\ Before(p, c)
  BY <1>1, <1>2 DEF Leads
<1>4. QED
  BY <1>1, <1>3, BeforeAsymmetric DEF Leads

\* Disabled policies say nothing.
LEMMA OnlyEnabledSpeak ==
    ASSUME NEW rq, NEW p, ~p.enabled
    PROVE  Says(rq, p) = "nothing"
BY DEF Says

-----------------------------------------------------------------------------
(* One turn of the loop.                                                   *)

\* Reaching p moves it from todo to Done and keeps the order.
LEMMA ReachMoves ==
    ASSUME EInv, NEW p, NEW mode, Reach(p, mode)
    PROVE  /\ p \in policies /\ p.enabled /\ p \notin Done
           /\ \A d \in Done : Before(d, p)
           /\ Done' = Done \cup {p}
           /\ OrderInv'
<1>1. p \in todo /\ todo \subseteq policies /\ p.enabled
  BY DEF EInv, EvalTypeOK, OrderInv, Reach
<1>2. Done' = Done \cup {p}
  BY <1>1 DEF Done, Reach
<1>3. \A d \in Done : Before(d, p)
  BY <1>1 DEF EInv, OrderInv
<1>4. OrderInv'
  BY <1>1, <1>2 DEF EInv, OrderInv, Reach
<1>5. QED
  BY <1>1, <1>2, <1>3, <1>4 DEF Done

\* A policy that says nothing leaves the denials and the records alone.
LEMMA SilenceKeeps ==
    ASSUME EInv, NEW p, NEW mode, Reach(p, mode), Says(request, p) = "nothing",
           UNCHANGED <<reasons, warnings, firstDenyReason, hasDeny>>
    PROVE  EInv'
<1>1. Done' = Done \cup {p} /\ OrderInv'
  BY ReachMoves
<1>2. EvalTypeOK'
  BY DEF EInv, EvalTypeOK, Reach, ReasonSet
<1>3. Deniers(request, Done)' = Deniers(request, Done)
  BY <1>1 DEF Deniers, Denies, Reach
<1>4. Recorded(request, Done)' = Recorded(request, Done)
  BY <1>1 DEF Recorded, Reach
<1>5. DenyInv'
  BY <1>3 DEF EInv, DenyInv, Leads
<1>6. RecordInv'
  BY <1>4 DEF EInv, RecordInv, Leads, Range
<1>7. QED
  BY <1>1, <1>2, <1>5, <1>6 DEF EInv

\* Appending p's reason keeps the records in step with Done.
LEMMA RecordKeeps ==
    ASSUME EInv, NEW p, NEW mode, Reach(p, mode), Says(request, p) # "nothing",
           NEW r \in ReasonSet, r.policy = p, reasons' = Append(reasons, r)
    PROVE  RecordInv' /\ reasons' \in Seq(ReasonSet)'
<1>1. /\ p \in policies /\ p \notin Done /\ \A d \in Done : Before(d, p)
      /\ Done' = Done \cup {p} /\ request' = request /\ policies' = policies
  BY ReachMoves DEF Reach
<1>2. Recorded(request, Done)' = Recorded(request, Done) \cup {p}
  BY <1>1 DEF Recorded
<1>3. reasons \in Seq(ReasonSet)
  BY DEF EInv, EvalTypeOK
<1>4. /\ Len(reasons') = Len(reasons) + 1 /\ Len(reasons) \in Nat
      /\ DOMAIN reasons = 1..Len(reasons) /\ DOMAIN reasons' = 1..Len(reasons')
      /\ \A i \in DOMAIN reasons : reasons'[i] = reasons[i]
      /\ reasons'[Len(reasons) + 1] = r
  BY <1>3
<1>5. Range(reasons)' = Range(reasons) \cup {r}
  BY <1>4 DEF Range
<1>6. {q.policy : q \in Range(reasons)}' = Recorded(request, Done)'
  BY <1>2, <1>5 DEF EInv, RecordInv
<1>7. Leads(reasons[1].policy, Recorded(request, Done))'
  <2>1. CASE reasons = <<>>
    <3>1. Recorded(request, Done) = {}
      BY <2>1 DEF EInv, RecordInv, Range
    <3>2. reasons'[1].policy = p
      BY <1>4, <2>1
    <3>3. QED
      BY <1>2, <3>1, <3>2 DEF Leads
  <2>2. CASE reasons # <<>>
    <3>1. Leads(reasons[1].policy, Recorded(request, Done))
      BY <2>2 DEF EInv, RecordInv
    <3>2. reasons'[1] = reasons[1]
      BY <1>3, <1>4, <2>2
    <3>3. \A d \in Recorded(request, Done) : d \in Done
      BY DEF Recorded
    <3>4. QED
      BY <1>1, <1>2, <3>1, <3>2, <3>3 DEF Leads
  <2>3. QED
    BY <2>1, <2>2
<1>8. reasons' \in Seq(ReasonSet)'
  BY <1>1, <1>3 DEF ReasonSet
<1>9. QED
  BY <1>6, <1>7, <1>8 DEF RecordInv

\* A policy that does not deny leaves the denials alone.
LEMMA NoDenialKeeps ==
    ASSUME EInv, NEW p, NEW mode, Reach(p, mode), ~Denies(request, p),
           UNCHANGED <<firstDenyReason, hasDeny>>
    PROVE  DenyInv'
<1>1. Deniers(request, Done)' = Deniers(request, Done)
  BY ReachMoves DEF Deniers, Reach
<1>2. QED
  BY <1>1 DEF EInv, DenyInv, Leads

\* A policy that denies is the first denier, or an earlier one stays first.
LEMMA DenialKeeps ==
    ASSUME EInv, NEW p, NEW mode, Reach(p, mode), Denies(request, p), Deny(p)
    PROVE  DenyInv'
<1>1. /\ p \notin Done /\ \A d \in Done : Before(d, p)
      /\ Done' = Done \cup {p} /\ request' = request
  BY ReachMoves DEF Reach
<1>2. Deniers(request, Done)' = Deniers(request, Done) \cup {p}
  BY <1>1 DEF Deniers
<1>3. CASE hasDeny
  <2>1. Leads(firstDenyReason, Deniers(request, Done)) /\ firstDenyReason' = firstDenyReason
    BY <1>3 DEF EInv, DenyInv, Deny
  <2>2. firstDenyReason \in Done
    BY <2>1 DEF Leads, Deniers
  <2>3. QED
    BY <1>1, <1>2, <2>1, <2>2 DEF Leads, DenyInv, Deny
<1>4. CASE ~hasDeny
  BY <1>2, <1>4 DEF EInv, DenyInv, Deny, Leads
<1>5. QED
  BY <1>3, <1>4

-----------------------------------------------------------------------------
(* The invariant.                                                          *)

LEMMA InitHolds == EvalInit => EInv
<1> SUFFICES ASSUME EvalInit PROVE EInv
  OBVIOUS
<1>1. EvalTypeOK
  <2>1. reasons \in Seq(ReasonSet) /\ warnings \in Seq(policies)
    BY DEF EvalInit
  <2>2. todo \subseteq policies
    BY DEF EvalInit
  <2>3. QED
    BY <2>1, <2>2 DEF EvalInit, EvalTypeOK
<1>2. Done = {}
  BY DEF EvalInit, Done
<1>3. Range(reasons) = {}
  BY DEF EvalInit, Range
<1>4. OrderInv
  BY <1>2 DEF EvalInit, OrderInv
<1>5. DenyInv
  BY <1>2 DEF EvalInit, DenyInv, Deniers
<1>6. RecordInv
  BY <1>2, <1>3 DEF EvalInit, RecordInv, Recorded
<1>7. QED
  BY <1>1, <1>4, <1>5, <1>6 DEF EInv

LEMMA SkipKeeps == ASSUME EInv, NEW p, SkipsTarget(p) PROVE EInv'
<1>1. Says(request, p) = "nothing"
  BY DEF Says, SkipsTarget, Reach
<1>2. QED
  BY <1>1, SilenceKeeps DEF SkipsTarget

LEMMA NoMatchKeeps == ASSUME EInv, NEW p, NEW mode, DoesNotMatch(p, mode) PROVE EInv'
<1>1. Says(request, p) = "nothing"
  BY DEF Says, DoesNotMatch, Reach
<1>2. QED
  BY <1>1, SilenceKeeps DEF DoesNotMatch

LEMMA FailureKeeps == ASSUME EInv, NEW p, NEW mode, ConditionFails(p, mode) PROVE EInv'
<1> DEFINE r == Reason(p, "evaluation_error", "deny")
<1>1. p \in policies /\ p.enabled /\ OrderInv' /\ Reach(p, mode)
  BY ReachMoves DEF ConditionFails
<1>2. Says(request, p) = "error"
  BY <1>1 DEF Says, ConditionFails, Reach
<1>3. r \in ReasonSet /\ r.policy = p
  BY <1>1 DEF Reason, ReasonSet, Categories
<1>4. RecordInv' /\ reasons' \in Seq(ReasonSet)'
  BY <1>1, <1>2, <1>3, RecordKeeps DEF ConditionFails
<1>5. DenyInv'
  BY <1>1, <1>2, DenialKeeps DEF Denies, ConditionFails
<1>6. EvalTypeOK'
  BY <1>1, <1>4 DEF EInv, EvalTypeOK, ConditionFails, Reach, Deny
<1>7. QED
  BY <1>1, <1>4, <1>5, <1>6 DEF EInv

LEMMA WarningKeeps == ASSUME EInv, NEW p, NEW mode, Warns(p, mode) PROVE EInv'
<1> DEFINE r == Reason(p, "policy_warning", p.action)
<1>1. p \in policies /\ p.enabled /\ OrderInv' /\ Reach(p, mode)
  BY ReachMoves DEF Warns
<1>2. Says(request, p) = "warning"
  BY <1>1 DEF Says, Warns, Reach
<1>3. r \in ReasonSet /\ r.policy = p
  BY <1>1, EngineAssumption DEF EInv, EvalTypeOK, Reason, ReasonSet, Categories
<1>4. RecordInv' /\ reasons' \in Seq(ReasonSet)'
  BY <1>1, <1>2, <1>3, RecordKeeps DEF Warns
<1>5. DenyInv'
  BY <1>1, <1>2, NoDenialKeeps DEF Denies, Warns
<1>6. EvalTypeOK'
  BY <1>1, <1>4 DEF EInv, EvalTypeOK, Warns, Reach
<1>7. QED
  BY <1>1, <1>4, <1>5, <1>6 DEF EInv

LEMMA EnforcementKeeps == ASSUME EInv, NEW p, Enforces(p) PROVE EInv'
<1> DEFINE r == Reason(p, "policy_match", p.action)
<1>1. p \in policies /\ p.enabled /\ OrderInv' /\ Reach(p, "apply")
  BY ReachMoves DEF Enforces
<1>2. Says(request, p) = "match"
  BY <1>1 DEF Says, Enforces, Reach
<1>3. r \in ReasonSet /\ r.policy = p
  BY <1>1, EngineAssumption DEF EInv, EvalTypeOK, Reason, ReasonSet, Categories
<1>4. RecordInv' /\ reasons' \in Seq(ReasonSet)'
  BY <1>1, <1>2, <1>3, RecordKeeps DEF Enforces
<1>5. DenyInv'
  BY <1>1, <1>2, DenialKeeps, NoDenialKeeps DEF Denies, Enforces
<1>6. EvalTypeOK'
  BY <1>1, <1>4 DEF EInv, EvalTypeOK, Enforces, Reach, Deny
<1>7. QED
  BY <1>1, <1>4, <1>5, <1>6 DEF EInv

LEMMA NextHolds == ASSUME EInv, [EvalNext]_evalVars PROVE EInv'
<1>1. ASSUME NEW p \in todo, EvaluatePolicy(p) PROVE EInv'
  BY <1>1, SkipKeeps, NoMatchKeeps, FailureKeeps, WarningKeeps, EnforcementKeeps
  DEF EvaluatePolicy
<1>2. CASE Decide
  BY <1>2 DEF EInv, EvalTypeOK, ReasonSet, OrderInv, DenyInv, RecordInv, Done, Range, Decide
<1>3. CASE UNCHANGED evalVars
  BY <1>3 DEF EInv, EvalTypeOK, ReasonSet, OrderInv, DenyInv, RecordInv, Done, Range, evalVars
<1>4. QED
  BY <1>1, <1>2, <1>3 DEF EvalNext

\* The loop's bookkeeping is exact after every turn: the flag, the first
\* reason and the recorded reasons are those of the policies passed so far.
THEOREM LoopInvariance == EvalSpec => []EInv
BY InitHolds, NextHolds, PTL DEF EvalSpec

\* Every variable of the evaluator keeps its type.
THEOREM EngineTypeCorrect == EvalSpec => []EvalTypeOK
<1>1. EInv => EvalTypeOK
  BY DEF EInv
<1>2. QED
  BY <1>1, LoopInvariance, PTL

-----------------------------------------------------------------------------
(* The refinement.                                                         *)

\* The decision of the finished loop is the verdict of the rules.
LEMMA DecideImplements ==
    ASSUME EInv, Decide PROVE [Abstract!Decide]_(Abstract!vars)
<1>1. Done = {p \in policies : p.enabled}
  BY DEF Done, Decide
<1>2. Deniers(request, Done) = Deniers(request, policies)
  BY <1>1, OnlyEnabledSpeak DEF Deniers, Denies
<1>3. Recorded(request, Done) = Recorded(request, policies)
  BY <1>1, OnlyEnabledSpeak DEF Recorded
<1>4. policies \in PolicySets
  BY DEF EInv, EvalTypeOK
<1>5. /\ Deniers(request, policies) \subseteq policies
      /\ Recorded(request, policies) \subseteq policies
  BY DEF Deniers, Recorded
<1>6. hasDeny => firstDenyReason = First(Deniers(request, policies))
  BY <1>2, <1>4, <1>5, LeaderIsFirst DEF EInv, DenyInv
<1>7. hasDeny <=> Deniers(request, policies) # {}
  BY <1>2 DEF EInv, DenyInv
<1>8. /\ reasons # <<>> => FirstRecorded(reasons) = First(Recorded(request, policies))
      /\ reasons = <<>> => FirstRecorded(reasons) = None
  BY <1>3, <1>4, <1>5, LeaderIsFirst DEF EInv, RecordInv, FirstRecorded
<1>9. reasons = <<>> <=> Recorded(request, policies) = {}
  <2>1. reasons = <<>> => Range(reasons) = {}
    BY DEF Range
  <2>2. reasons # <<>> => reasons[1] \in Range(reasons)
    BY DEF EInv, EvalTypeOK, Range
  <2>3. QED
    BY <1>3, <2>1, <2>2 DEF EInv, RecordInv
<1>10. decision' # Pending => Promised' = VerdictOn(request, policies)
  <2>1. ASSUME decision' # Pending
        PROVE  Promised' = [outcome |-> IF hasDeny THEN "deny" ELSE "allow",
                            reason |-> IF hasDeny THEN firstDenyReason
                                       ELSE FirstRecorded(reasons),
                            recorded |-> {q.policy : q \in Range(reasons)}]
    BY <2>1 DEF Promised, Decide, Range
  <2>2. {q.policy : q \in Range(reasons)} = Recorded(request, policies)
    BY <1>3 DEF EInv, RecordInv
  <2>3. QED
    BY <1>6, <1>7, <1>8, <1>9, <2>1, <2>2 DEF VerdictOn
<1>11. Promised = Pending /\ UNCHANGED <<policies, request>>
  BY DEF Promised, Decide
<1>12. CASE decision' = Pending
  BY <1>11, <1>12 DEF Promised, Abstract!vars
<1>13. CASE decision' # Pending
  BY <1>10, <1>11, <1>13 DEF Abstract!Decide
<1>14. QED
  BY <1>12, <1>13

LEMMA StepImplements ==
    ASSUME EInv, [EvalNext]_evalVars PROVE [Abstract!Decide]_(Abstract!vars)
<1>1. ASSUME NEW p \in todo, EvaluatePolicy(p) PROVE UNCHANGED Abstract!vars
  BY <1>1 DEF EvaluatePolicy, SkipsTarget, Enforces, ConditionFails, DoesNotMatch,
              Warns, Reach, Promised, Abstract!vars
<1>2. CASE Decide
  BY <1>2, DecideImplements
<1>3. CASE UNCHANGED evalVars
  BY <1>3 DEF evalVars, Promised, Abstract!vars
<1>4. QED
  BY <1>1, <1>2, <1>3 DEF EvalNext

\* Evaluator.Evaluate implements the rules: whatever the policies and the
\* request are, the outcome, the user-facing reason and the recorded matches
\* are those of PolicyRules, and they are decided in one step.
THEOREM EngineImplementsRules == EvalSpec => VerdictRefined
<1>1. EvalInit => Abstract!Init
  BY DEF EvalInit, Abstract!Init, Promised
<1>2. QED
  BY <1>1, LoopInvariance, StepImplements, PTL
  DEF EvalSpec, VerdictRefined, Abstract!Spec

-----------------------------------------------------------------------------
(* Worse metadata, no better verdict.                                      *)

\* The severity inferred from a score does not sink as the score rises.
LEMMA InferredRank ==
    ASSUME NEW c \in Int, NEW d \in Int, c <= d, SeverityRank(SeverityFromCVSS(c)) # -1
    PROVE  /\ SeverityRank(SeverityFromCVSS(d)) # -1
           /\ SeverityRank(SeverityFromCVSS(c)) \in Int /\ SeverityRank(SeverityFromCVSS(d)) \in Int
           /\ SeverityRank(SeverityFromCVSS(c)) <= SeverityRank(SeverityFromCVSS(d))
<1>1. \A x \in Int :
        /\ x >= 9 => SeverityFromCVSS(x) = "critical"
        /\ x >= 7 /\ x < 9 => SeverityFromCVSS(x) = "high"
        /\ x >= 4 /\ x < 7 => SeverityFromCVSS(x) = "medium"
        /\ x > 0 /\ x < 4 => SeverityFromCVSS(x) = "low"
        /\ x <= 0 => SeverityFromCVSS(x) = None
  BY DEF SeverityFromCVSS
<1>2. /\ SeverityRank("critical") = 4 /\ SeverityRank("high") = 3 /\ SeverityRank("medium") = 2
      /\ SeverityRank("low") = 1
  BY DEF SeverityRank
<1>3. CASE c <= 0
  <2>1. SeverityFromCVSS(c) = None BY <1>1, <1>3
  <2>2. SeverityRank(None) = -1 BY ScoreAssumption DEF SeverityRank
  <2> QED BY <2>1, <2>2
<1>4. CASE c > 0
  <2> DEFINE R(x) == IF x >= 9 THEN 4 ELSE IF x >= 7 THEN 3 ELSE IF x >= 4 THEN 2 ELSE 1
  <2>1. \A x \in Int : x > 0 => SeverityRank(SeverityFromCVSS(x)) = R(x) BY <1>1, <1>2
  <2>2. d > 0 BY <1>4
  <2> QED BY <1>4, <2>1, <2>2
<1> QED BY <1>3, <1>4

\* A vulnerability that scores higher meets every threshold the other met.
LEMMA HigherMeetsToo ==
    ASSUME NEW v, NEW w, NEW t, v.cvss \in Int, w.cvss \in Int, w.severity = v.severity,
           w.cvss >= v.cvss, SeverityAtOrAbove(ActualSeverity(v), t)
    PROVE  SeverityAtOrAbove(ActualSeverity(w), t)
<1>1. \A x : SeverityRank(x) \in Int BY DEF SeverityRank
<1>2. CASE SeverityRank(v.severity) # -1
  <2>1. ActualSeverity(v) = ActualSeverity(w) BY <1>2 DEF ActualSeverity
  <2> QED BY <2>1
<1>3. CASE SeverityRank(v.severity) = -1
  <2>1. /\ ActualSeverity(v) = SeverityFromCVSS(v.cvss)
        /\ ActualSeverity(w) = SeverityFromCVSS(w.cvss)
    BY <1>3 DEF ActualSeverity
  <2>2. /\ SeverityRank(SeverityFromCVSS(v.cvss)) # -1 /\ SeverityRank(t) # -1
        /\ SeverityRank(SeverityFromCVSS(v.cvss)) >= SeverityRank(t)
    BY <2>1 DEF SeverityAtOrAbove
  <2>3. /\ SeverityRank(SeverityFromCVSS(w.cvss)) # -1
        /\ SeverityRank(SeverityFromCVSS(v.cvss)) <= SeverityRank(SeverityFromCVSS(w.cvss))
    BY <2>2, InferredRank
  <2>4. SeverityRank(SeverityFromCVSS(w.cvss)) >= SeverityRank(t) BY <1>1, <2>2, <2>3
  <2> QED BY <2>1, <2>2, <2>3, <2>4 DEF SeverityAtOrAbove
<1> QED BY <1>2, <1>3

\* What the conditions look at besides vulnerabilities is the same.
LEMMA WorseFields ==
    ASSUME NEW r \in AccessRequests, NEW s \in AccessRequests, Worse(s, r)
    PROVE  /\ s.artifact = r.artifact /\ s.context = r.context
           /\ s.metadata # None /\ r.metadata # None
           /\ s.metadata.age = r.metadata.age /\ s.metadata.licenses = r.metadata.licenses
           /\ s.metadata.isMutableTag = r.metadata.isMutableTag
           /\ s.metadata.scorecard = r.metadata.scorecard
<1> DEFINE m == r.metadata
           n == s.metadata
<1>1. /\ s.artifact = r.artifact /\ s.context = r.context /\ n # None /\ m # None
      /\ n = [m EXCEPT !.vulnerabilities = n.vulnerabilities, !.maxCVSS = n.maxCVSS]
  BY DEF Worse
<1>2. {"age", "licenses", "isMutableTag", "scorecard"} \subseteq DOMAIN m
  BY <1>1, ScoreAssumption
<1> HIDE DEF m, n
<1>3. PICK x, y : n = [m EXCEPT !.vulnerabilities = x, !.maxCVSS = y] BY <1>1
<1>4. /\ n.age = m.age /\ n.licenses = m.licenses /\ n.isMutableTag = m.isMutableTag
      /\ n.scorecard = m.scorecard
  BY <1>2, <1>3
<1> QED BY <1>1, <1>4 DEF m, n

LEMMA WorseMatchesToo ==
    ASSUME NEW ps \in PolicySets, NEW p \in ps, NEW r \in AccessRequests, NEW s \in AccessRequests,
           Worse(s, r), Matches(r, p)
    PROVE  Matches(s, p)
<1>1. /\ s.artifact = r.artifact /\ s.context = r.context
      /\ s.metadata # None /\ r.metadata # None
      /\ s.metadata.age = r.metadata.age /\ s.metadata.licenses = r.metadata.licenses
      /\ s.metadata.isMutableTag = r.metadata.isMutableTag
      /\ s.metadata.scorecard = r.metadata.scorecard
  BY WorseFields
<1>2. CASE p.type = "cvss_threshold"
  <2> DEFINE c == p.config
  <2>1. c.maxCVSS \in Int \cup {None} BY <1>2, ScoreAssumption
  <2>2. \A q : Matches(q, p) = CVSSThreshold(q, c) BY <1>2 DEF Matches
  <2>3. /\ s.metadata.maxCVSS \in Int \cup {None} /\ r.metadata.maxCVSS \in Int \cup {None}
        /\ \A v \in r.metadata.vulnerabilities : v.cvss \in Int
        /\ \A v \in s.metadata.vulnerabilities : v.cvss \in Int
    BY <1>1, ScoreAssumption
  <2>4. /\ r.metadata.maxCVSS # None =>
             s.metadata.maxCVSS # None /\ s.metadata.maxCVSS >= r.metadata.maxCVSS
        /\ \A v \in r.metadata.vulnerabilities : \E w \in s.metadata.vulnerabilities :
             w.severity = v.severity /\ w.cvss >= v.cvss
    BY DEF Worse
  <2>5. CVSSThreshold(r, c) BY <2>2
  <2>6. CASE c.maxCVSS # None /\ r.metadata.maxCVSS # None /\ r.metadata.maxCVSS >= c.maxCVSS
    <3>1. s.metadata.maxCVSS # None /\ s.metadata.maxCVSS >= c.maxCVSS BY <2>1, <2>3, <2>4, <2>6
    <3> QED BY <1>1, <2>2, <2>6, <3>1 DEF CVSSThreshold
  <2>7. CASE /\ c.minimumSeverity # None
             /\ \E v \in r.metadata.vulnerabilities :
                   SeverityAtOrAbove(ActualSeverity(v), c.minimumSeverity)
    <3>1. PICK v \in r.metadata.vulnerabilities :
            SeverityAtOrAbove(ActualSeverity(v), c.minimumSeverity)
      BY <2>7
    <3>2. PICK w \in s.metadata.vulnerabilities : w.severity = v.severity /\ w.cvss >= v.cvss
      BY <2>4
    <3>3. SeverityAtOrAbove(ActualSeverity(w), c.minimumSeverity)
      BY <2>3, <3>1, <3>2, HigherMeetsToo
    <3>4. CVSSThreshold(s, c) BY <1>1, <2>7, <3>3 DEF CVSSThreshold
    <3> QED BY <2>2, <3>4
  <2> QED BY <2>5, <2>6, <2>7 DEF CVSSThreshold
<1>3. CASE p.type # "cvss_threshold"
  <2>1. /\ MinimumAge(s, p.config) = MinimumAge(r, p.config)
        /\ MaximumAge(s, p.config) = MaximumAge(r, p.config)
    BY <1>1 DEF MinimumAge, MaximumAge, IsExcludedPackage, Age
  <2>2. /\ License(s, p.config) = License(r, p.config)
        /\ LicenseAllowlist(s, p.config) = LicenseAllowlist(r, p.config)
        /\ Allowlist(s, p.config) = Allowlist(r, p.config)
        /\ NamespaceAllowlist(s, p.config) = NamespaceAllowlist(r, p.config)
        /\ Blocklist(s, p.config) = Blocklist(r, p.config)
        /\ BlockMutableTag(s, p.config) = BlockMutableTag(r, p.config)
    BY <1>1 DEF License, LicenseAllowlist, Allowlist, NamespaceAllowlist, Blocklist, BlockMutableTag
  <2>3. Scorecard(s, p.config) = Scorecard(r, p.config) BY <1>1 DEF Scorecard
  <2> QED BY <1>3, <2>1, <2>2, <2>3 DEF Matches
<1> QED BY <1>2, <1>3

LEMMA WorseDeniedByPolicy ==
    ASSUME NEW ps \in PolicySets, NEW p \in ps, NEW r \in AccessRequests, NEW s \in AccessRequests,
           Worse(s, r), Denies(r, p)
    PROVE  Denies(s, p)
<1>1. s.artifact = r.artifact /\ s.context = r.context BY WorseFields
<1>2. TargetEvaluationMode(s, p.target) = TargetEvaluationMode(r, p.target)
  BY <1>1 DEF TargetEvaluationMode, Scope, ScopeMatches, DependencyTypesMatch
<1>3. IsUnversionedNPMMetadataRequest(s) = IsUnversionedNPMMetadataRequest(r)
  BY <1>1 DEF IsUnversionedNPMMetadataRequest
<1>4. (Condition(s, p) = "error") = (Condition(r, p) = "error")
  BY <1>3 DEF Condition, Verdict
<1>5. Condition(r, p) = "match" => Condition(s, p) = "match"
  BY <1>3, WorseMatchesToo DEF Condition, Verdict
<1>6. Condition(r, p) \in {"error", "match", "none"} BY DEF Condition, Verdict
<1> QED BY <1>2, <1>4, <1>5, <1>6 DEF Denies, Says

\* A decision to deny has a denier.
DeniedInv ==
    decision # Pending /\ decision.outcome = "deny" => Deniers(request, policies) # {}

LEMMA DeniedStep == EInv /\ DeniedInv /\ [EvalNext]_evalVars => DeniedInv'
<1> SUFFICES ASSUME EInv, DeniedInv, [EvalNext]_evalVars PROVE DeniedInv' OBVIOUS
<1>1. ASSUME NEW p \in todo, EvaluatePolicy(p) PROVE UNCHANGED <<policies, request, decision>>
  BY <1>1 DEF EvaluatePolicy, SkipsTarget, Enforces, ConditionFails, DoesNotMatch, Warns, Reach
<1>2. CASE Decide
  <2>1. decision'.outcome = "deny" => hasDeny BY <1>2 DEF Decide
  <2>2. hasDeny => Deniers(request, policies) # {} BY DEF EInv, DenyInv, Deniers, Done
  <2>3. Deniers(request, policies)' = Deniers(request, policies) BY <1>2 DEF Decide, Deniers
  <2> QED BY <2>1, <2>2, <2>3 DEF DeniedInv
<1>3. CASE UNCHANGED <<policies, request, decision>> BY <1>3 DEF DeniedInv, Deniers
<1> QED BY <1>1, <1>2, <1>3 DEF EvalNext, evalVars

\* Evaluate on a more vulnerable release: whatever the policies are, what
\* they deny they deny of every request with vulnerabilities that score at
\* least as high.
THEOREM WorseReleasesAreDenied == EvalSpec => []WorseIsDeniedToo
<1>1. EvalInit => DeniedInv BY DEF EvalInit, DeniedInv
<1>2. EInv /\ DeniedInv => WorseIsDeniedToo
  <2> SUFFICES ASSUME EInv, DeniedInv, decision # Pending, decision.outcome = "deny",
                      NEW s \in AccessRequests, Worse(s, request)
               PROVE  VerdictOn(s, policies).outcome = "deny"
    BY DEF WorseIsDeniedToo
  <2>1. PICK p \in policies : Denies(request, p) BY DEF DeniedInv, Deniers
  <2>2. policies \in PolicySets /\ request \in AccessRequests BY DEF EInv, EvalTypeOK
  <2>3. Denies(s, p) BY <2>1, <2>2, WorseDeniedByPolicy
  <2>4. Deniers(s, policies) # {} BY <2>3 DEF Deniers
  <2> QED BY <2>4 DEF VerdictOn
<1> QED BY <1>1, <1>2, LoopInvariance, DeniedStep, PTL DEF EvalSpec

-----------------------------------------------------------------------------
(* Enrichment.                                                             *)

\* The registry's part of e with the vulnerabilities of o.
Rec(e, o) ==
    [age |-> e.age, maxCVSS |-> o.maxCVSS, vulnerabilities |-> o.vulnerabilities,
     licenses |-> e.licenses, repo |-> e.repo, scorecard |-> e.scorecard,
     isMutableTag |-> e.isMutableTag]

\* The registry's part when the sources in F did not answer.
Part(a, F) ==
    IF "npm" \in F THEN EmptyMetadata
    ELSE IF NPMAnswer(a).repo = None THEN NPMAnswer(a)
    ELSE [NPMAnswer(a) EXCEPT !.scorecard = IF "scorecard" \in F THEN ScorecardUnavailable
                                            ELSE Lookup]

\* Metadata m of artifact a: complete but for the sources in F, as of some
\* time when OSV knew no more than K.
Final(a, m, F, K) == \E V \in SUBSET K : m = Rec(Part(a, F), OSVAnswer(a, V))

\* One request.
GoodRequest(q, K) ==
    /\ DOMAIN q = DOMAIN NoRequest
    /\ q.pc \in PCs /\ q.generation \in 0..MaxGeneration /\ q.failed \subseteq Sources
    /\ q.pc # "idle" => q.artifact \in Artifacts
    /\ q.pc \in {"get", "osv"} => q.failed = {}
    /\ q.pc = "osv" => q.meta = EmptyMetadata
    /\ q.pc \in {"npm", "scorecard"} => "npm" \notin q.failed /\ "scorecard" \notin q.failed
    /\ q.pc = "npm" => \E V \in SUBSET K : q.meta = Rec(EmptyMetadata, OSVAnswer(q.artifact, V))
    /\ q.pc = "scorecard" =>
         /\ NPMAnswer(q.artifact).repo # None
         /\ \E V \in SUBSET K : q.meta = Rec(NPMAnswer(q.artifact), OSVAnswer(q.artifact, V))
    /\ q.pc \in {"store", "set", "evaluate"} => Final(q.artifact, q.meta, q.failed, K)

\* One cache entry.
GoodEntry(a, e, K) ==
    e # None =>
        /\ e.failed \subseteq Sources
        /\ Final(a, e.meta, e.failed, K)

\* The inductive invariant.
EnrichmentInv ==
    /\ TypeOK
    /\ \A r \in Requests : GoodRequest(req[r], known)
    /\ \A g \in 0..MaxGeneration, a \in Artifacts : GoodEntry(a, cache[g][a], known)

-----------------------------------------------------------------------------
(* The answers of the sources and their merge.                             *)

LEMMA OSVFields ==
    ASSUME NEW a, NEW V
    PROVE  /\ OSVAnswer(a, V) = Rec(EmptyMetadata, OSVAnswer(a, V))
           /\ OSVAnswer(a, V).age = None /\ OSVAnswer(a, V).licenses = {}
           /\ OSVAnswer(a, V).repo = None /\ OSVAnswer(a, V).scorecard = None
           /\ OSVAnswer(a, V).isMutableTag = FALSE
BY DEF OSVAnswer, toArtifactMetadata, EmptyMetadata, Rec

LEMMA NPMFields ==
    ASSUME NEW a
    PROVE  NPMAnswer(a) = Rec(NPMAnswer(a), EmptyMetadata) /\ NPMAnswer(a).isMutableTag = FALSE
BY DEF NPMAnswer, enrichPackageVersion, EmptyMetadata, Rec

\* Without vulnerabilities OSV says nothing.
LEMMA OSVOfNothing ==
    ASSUME NEW a PROVE OSVAnswer(a, {}) = EmptyMetadata
<1>1. {resolveSeverity(v) : v \in {}} = {} OBVIOUS
<1>2. {v.cvss : v \in {}} \ {0} = {} OBVIOUS
<1> QED BY <1>1, <1>2 DEF OSVAnswer, toArtifactMetadata, EmptyMetadata

LEMMA MergeOSV ==
    ASSUME NEW a, NEW V
    PROVE  mergeMetadata(EmptyMetadata, OSVAnswer(a, V)) = Rec(EmptyMetadata, OSVAnswer(a, V))
<1> DEFINE o == OSVAnswer(a, V)
<1>1. /\ o = Rec(EmptyMetadata, o) /\ o.age = None /\ o.licenses = {} /\ o.repo = None
      /\ o.scorecard = None /\ o.isMutableTag = FALSE
  BY OSVFields
<1> HIDE DEF o
<1>2. mergeMetadata(EmptyMetadata, o) = Rec(EmptyMetadata, o)
  BY <1>1 DEF mergeMetadata, EmptyMetadata, Rec
<1> QED BY <1>2 DEF o

LEMMA MergeRegistry ==
    ASSUME NEW n, NEW o, n = Rec(n, EmptyMetadata), n.isMutableTag = FALSE
    PROVE  mergeMetadata(Rec(EmptyMetadata, o), n) = Rec(n, o)
<1>1. n.maxCVSS = None /\ n.vulnerabilities = {}
  BY DEF Rec, EmptyMetadata
<1> DEFINE m == Rec(EmptyMetadata, o)
<1>2. /\ m.age = None /\ m.maxCVSS = o.maxCVSS /\ m.vulnerabilities = o.vulnerabilities
      /\ m.licenses = {} /\ m.repo = None /\ m.scorecard = None /\ m.isMutableTag = FALSE
  BY DEF Rec, EmptyMetadata
<1> HIDE DEF m
<1>3. mergeMetadata(m, n) = Rec(n, o) BY <1>1, <1>2 DEF mergeMetadata, Rec
<1> QED BY <1>3 DEF m

LEMMA PartFields ==
    ASSUME NEW a, NEW F
    PROVE  Part(a, F) = Rec(Part(a, F), EmptyMetadata) /\ Part(a, F).isMutableTag = FALSE
<1>1. NPMAnswer(a) = Rec(NPMAnswer(a), EmptyMetadata) /\ NPMAnswer(a).isMutableTag = FALSE
  BY NPMFields
<1>2. EmptyMetadata = Rec(EmptyMetadata, EmptyMetadata) /\ EmptyMetadata.isMutableTag = FALSE
  BY DEF EmptyMetadata, Rec
<1>3. ASSUME NEW s
      PROVE  /\ [NPMAnswer(a) EXCEPT !.scorecard = s]
                   = Rec([NPMAnswer(a) EXCEPT !.scorecard = s], EmptyMetadata)
             /\ [NPMAnswer(a) EXCEPT !.scorecard = s].isMutableTag = FALSE
  <2>1. PICK x, v, w, l, p, c, t :
          /\ NPMAnswer(a) = [age |-> x, maxCVSS |-> v, vulnerabilities |-> w, licenses |-> l,
                             repo |-> p, scorecard |-> c, isMutableTag |-> t]
          /\ v = EmptyMetadata.maxCVSS /\ w = EmptyMetadata.vulnerabilities
    BY <1>1 DEF Rec
  <2>2. [NPMAnswer(a) EXCEPT !.scorecard = s]
          = [age |-> x, maxCVSS |-> v, vulnerabilities |-> w, licenses |-> l,
             repo |-> p, scorecard |-> s, isMutableTag |-> t]
    BY <2>1
  <2>3. t = FALSE BY <1>1, <2>1
  <2> QED BY <2>1, <2>2, <2>3 DEF Rec
<1> QED BY <1>1, <1>2, <1>3 DEF Part

\* All sources together, but for those that are out.
LEMMA GatheredParts ==
    ASSUME NEW a, NEW V, NEW F PROVE Gathered(a, V, F) = Rec(Part(a, F), OSVAnswer(a, V))
<1> DEFINE n == Part(a, F)
<1>1. Gathered(a, V, F) = mergeMetadata(OSVAnswer(a, V), n) BY DEF Gathered, Part
<1> HIDE DEF n
<1>2. n = Rec(n, EmptyMetadata) /\ n.isMutableTag = FALSE BY PartFields DEF n
<1>3. OSVAnswer(a, V) = Rec(EmptyMetadata, OSVAnswer(a, V)) BY OSVFields
<1>4. mergeMetadata(Rec(EmptyMetadata, OSVAnswer(a, V)), n) = Rec(n, OSVAnswer(a, V))
  BY <1>2, MergeRegistry
<1> QED BY <1>1, <1>3, <1>4 DEF n

LEMMA FinalStays ==
    ASSUME NEW a, NEW m, NEW F, NEW K, NEW L, K \subseteq L, Final(a, m, F, K)
    PROVE  Final(a, m, F, L)
BY DEF Final

LEMMA GoodRequestStays ==
    ASSUME NEW q, NEW K, NEW L, K \subseteq L, GoodRequest(q, K)
    PROVE  GoodRequest(q, L)
<1>1. SUBSET K \subseteq SUBSET L OBVIOUS
<1>2. \A a, m, F : Final(a, m, F, K) => Final(a, m, F, L) BY FinalStays
<1> QED BY <1>1, <1>2 DEF GoodRequest

-----------------------------------------------------------------------------
(* One lemma per group of actions.                                         *)

\* A request moves on.
LEMMA RequestMoves ==
    ASSUME EnrichmentInv, NEW r \in Requests, NEW q, GoodRequest(q, known),
           req' = [req EXCEPT ![r] = q],
           UNCHANGED <<known, generation, cache>>, outages' \in 0..MaxOutages
    PROVE  EnrichmentInv'
<1>1. TypeOK /\ DOMAIN req = Requests BY DEF EnrichmentInv, TypeOK
<1>2. DOMAIN req' = Requests /\ \A s \in Requests : req'[s] = IF s = r THEN q ELSE req[s] BY <1>1
<1>3. \A s \in Requests : GoodRequest(req'[s], known) BY <1>2 DEF EnrichmentInv
<1>4. \A s \in Requests :
        /\ DOMAIN req'[s] = DOMAIN NoRequest
        /\ req'[s].pc \in PCs /\ req'[s].generation \in 0..MaxGeneration
        /\ req'[s].pc # "idle" => req'[s].artifact \in Artifacts
        /\ req'[s].failed \subseteq Sources
  BY <1>3 DEF GoodRequest
<1>5. TypeOK' BY <1>1, <1>2, <1>4 DEF TypeOK
<1> QED BY <1>3, <1>5 DEF EnrichmentInv

LEMMA RequestFacts ==
    ASSUME EnrichmentInv, NEW r \in Requests
    PROVE  /\ GoodRequest(req[r], known) /\ DOMAIN req = Requests
           /\ DOMAIN req[r] = {"pc", "artifact", "generation", "meta", "failed"}
           /\ known \subseteq Vulns /\ generation \in 0..MaxGeneration /\ outages \in 0..MaxOutages
<1>1. DOMAIN NoRequest = {"pc", "artifact", "generation", "meta", "failed"} BY DEF NoRequest
<1> QED BY <1>1 DEF EnrichmentInv, TypeOK

LEMMA FailsType ==
    ASSUME outages \in 0..MaxOutages, Fails PROVE outages' \in 0..MaxOutages
BY EnrichmentAssumption DEF Fails

LEMMA NoRequestIsGood == \A K : GoodRequest(NoRequest, K)
<1>1. NoRequest.pc = "idle" /\ NoRequest.generation = 0 /\ NoRequest.failed = {}
  BY DEF NoRequest
<1> QED BY <1>1, EnrichmentAssumption DEF GoodRequest, PCs

LEMMA BeginKeeps ==
    ASSUME EnrichmentInv, NEW r \in Requests, NEW a \in Artifacts, currentCacheGeneration(r, a)
    PROVE  EnrichmentInv'
<1> DEFINE q == [NoRequest EXCEPT !.pc = "get", !.artifact = a, !.generation = generation]
<1>1. req' = [req EXCEPT ![r] = q] BY DEF currentCacheGeneration
<1>2. generation \in 0..MaxGeneration /\ outages' \in 0..MaxOutages
  BY RequestFacts DEF currentCacheGeneration
<1>3. /\ q.pc = "get" /\ q.artifact = a /\ q.generation = generation /\ q.failed = {}
      /\ DOMAIN q = DOMAIN NoRequest
  BY DEF NoRequest
<1> HIDE DEF q
<1>4. GoodRequest(q, known) BY <1>2, <1>3 DEF GoodRequest, PCs
<1> QED BY <1>1, <1>2, <1>4, RequestMoves DEF currentCacheGeneration

\* A request that was begun goes to another stage, with metadata and failed
\* sources that are possible there.
LEMMA StageMoves ==
    ASSUME EnrichmentInv, NEW r \in Requests, req[r].pc # "idle", NEW q,
           req' = [req EXCEPT ![r] = q],
           DOMAIN q = DOMAIN req[r], q.artifact = req[r].artifact,
           q.pc \in PCs \ {"idle", "get"}, q.generation \in 0..MaxGeneration,
           q.failed \subseteq Sources,
           q.pc = "osv" => q.meta = EmptyMetadata /\ q.failed = {},
           q.pc \in {"npm", "scorecard"} => "npm" \notin q.failed /\ "scorecard" \notin q.failed,
           q.pc = "npm" =>
               \E V \in SUBSET known : q.meta = Rec(EmptyMetadata, OSVAnswer(q.artifact, V)),
           q.pc = "scorecard" =>
               /\ NPMAnswer(q.artifact).repo # None
               /\ \E V \in SUBSET known : q.meta = Rec(NPMAnswer(q.artifact), OSVAnswer(q.artifact, V)),
           q.pc \in {"store", "set", "evaluate"} => Final(q.artifact, q.meta, q.failed, known),
           UNCHANGED <<known, generation, cache>>, outages' \in 0..MaxOutages
    PROVE  EnrichmentInv'
<1>1. GoodRequest(q, known) BY RequestFacts DEF GoodRequest
<1> QED BY <1>1, RequestMoves

LEMMA LookupKeeps ==
    ASSUME EnrichmentInv, NEW r \in Requests, lookupCachedMetadata(r)
    PROVE  EnrichmentInv'
<1> DEFINE a == req[r].artifact
           entry == cache[req[r].generation][a]
           hit == [req[r] EXCEPT !.pc = "evaluate", !.meta = entry.meta, !.failed = entry.failed]
           miss == [req[r] EXCEPT !.pc = "osv", !.meta = EmptyMetadata]
<1>1. /\ GoodRequest(req[r], known) /\ DOMAIN req = Requests
      /\ DOMAIN req[r] = {"pc", "artifact", "generation", "meta", "failed"}
      /\ outages \in 0..MaxOutages
  BY RequestFacts
<1>2. /\ req[r].pc = "get" /\ req' = [req EXCEPT ![r] = IF entry # None THEN hit ELSE miss]
      /\ UNCHANGED <<known, generation, cache, outages>>
  BY DEF lookupCachedMetadata
<1>3. a \in Artifacts /\ req[r].generation \in 0..MaxGeneration /\ req[r].failed = {}
  BY <1>1, <1>2 DEF GoodRequest
<1>4. entry # None => entry.failed \subseteq Sources /\ Final(a, entry.meta, entry.failed, known)
  BY <1>3 DEF EnrichmentInv, GoodEntry
<1>5. CASE entry # None
  <2>1. /\ hit.pc = "evaluate" /\ hit.meta = entry.meta /\ hit.failed = entry.failed
        /\ hit.artifact = a /\ hit.generation = req[r].generation /\ DOMAIN hit = DOMAIN req[r]
    BY <1>1
  <2>2. req' = [req EXCEPT ![r] = hit] BY <1>2, <1>5
  <2>3. outages' \in 0..MaxOutages /\ hit.pc \in PCs \ {"idle", "get"} BY <1>1, <1>2, <2>1 DEF PCs
  <2> HIDE DEF hit, entry
  <2> QED BY <1>2, <1>3, <1>4, <1>5, <2>1, <2>2, <2>3, StageMoves
<1>6. CASE entry = None
  <2>1. /\ miss.pc = "osv" /\ miss.meta = EmptyMetadata /\ miss.failed = {}
        /\ miss.artifact = a /\ miss.generation = req[r].generation /\ DOMAIN miss = DOMAIN req[r]
    BY <1>1, <1>3
  <2>2. req' = [req EXCEPT ![r] = miss] BY <1>2, <1>6
  <2>3. outages' \in 0..MaxOutages /\ miss.pc \in PCs \ {"idle", "get"}
    BY <1>1, <1>2, <2>1 DEF PCs, Sources
  <2> HIDE DEF miss, entry
  <2> QED BY <1>2, <1>3, <2>1, <2>2, <2>3, StageMoves
<1> QED BY <1>5, <1>6

LEMMA CacheLookupFailsKeeps ==
    ASSUME EnrichmentInv, NEW r \in Requests, CacheLookupFails(r)
    PROVE  EnrichmentInv'
<1> DEFINE miss == [req[r] EXCEPT !.pc = "osv", !.meta = EmptyMetadata]
<1>1. /\ GoodRequest(req[r], known) /\ DOMAIN req = Requests
      /\ DOMAIN req[r] = {"pc", "artifact", "generation", "meta", "failed"}
      /\ outages \in 0..MaxOutages
  BY RequestFacts
<1>2. /\ req[r].pc = "get" /\ UNCHANGED <<known, generation, cache>> /\ Fails
      /\ req' = [req EXCEPT ![r].pc = "osv", ![r].meta = EmptyMetadata]
  BY DEF CacheLookupFails
<1>3. req' = [req EXCEPT ![r] = miss] BY <1>1, <1>2
<1>4. req[r].artifact \in Artifacts /\ req[r].generation \in 0..MaxGeneration /\ req[r].failed = {}
  BY <1>1, <1>2 DEF GoodRequest
<1>5. /\ miss.pc = "osv" /\ miss.meta = EmptyMetadata /\ miss.failed = {}
      /\ miss.artifact = req[r].artifact /\ miss.generation = req[r].generation
      /\ DOMAIN miss = DOMAIN req[r]
  BY <1>1, <1>4
<1>6. outages' \in 0..MaxOutages /\ miss.pc \in PCs \ {"idle", "get"}
  BY <1>1, <1>2, <1>5, FailsType DEF PCs, Sources
<1> HIDE DEF miss
<1> QED BY <1>2, <1>3, <1>4, <1>5, <1>6, StageMoves

\* A request that ends, with or without an answer.
LEMMA EndKeeps ==
    ASSUME EnrichmentInv, NEW r \in Requests, AuditFails(r) \/ Evaluate(r)
    PROVE  EnrichmentInv'
<1>1. outages \in 0..MaxOutages BY RequestFacts
<1>2. req' = [req EXCEPT ![r] = NoRequest] /\ UNCHANGED <<known, generation, cache>>
      /\ outages' \in 0..MaxOutages
  BY <1>1, FailsType DEF AuditFails, Evaluate
<1> QED BY <1>2, NoRequestIsGood, RequestMoves

LEMMA QueryOSVKeeps ==
    ASSUME EnrichmentInv, NEW r \in Requests, QueryOSV(r)
    PROVE  EnrichmentInv'
<1> DEFINE a == req[r].artifact
           m == mergeMetadata(req[r].meta, OSVAnswer(a, known))
           q == [req[r] EXCEPT !.pc = "npm", !.meta = m]
<1>1. /\ GoodRequest(req[r], known) /\ DOMAIN req = Requests
      /\ DOMAIN req[r] = {"pc", "artifact", "generation", "meta", "failed"}
      /\ outages \in 0..MaxOutages
  BY RequestFacts
<1>2. /\ req[r].pc = "osv" /\ UNCHANGED <<known, generation, cache, outages>>
      /\ req' = [req EXCEPT ![r].pc = "npm", ![r].meta = mergeMetadata(@, OSVAnswer(a, known))]
  BY DEF QueryOSV
<1>3. a \in Artifacts /\ req[r].generation \in 0..MaxGeneration /\ req[r].failed = {}
      /\ req[r].meta = EmptyMetadata
  BY <1>1, <1>2 DEF GoodRequest
<1>4. m = Rec(EmptyMetadata, OSVAnswer(a, known)) BY <1>3, MergeOSV
<1> HIDE DEF m
<1>5. req' = [req EXCEPT ![r] = q]
  <2>1. req' = [req EXCEPT ![r].pc = "npm", ![r].meta = m] BY <1>1, <1>2 DEF m
  <2> QED BY <1>1, <2>1
<1>6. /\ q.pc = "npm" /\ q.meta = m /\ q.failed = {} /\ q.artifact = a
      /\ q.generation = req[r].generation /\ DOMAIN q = DOMAIN req[r]
  BY <1>1, <1>3
<1>7. outages' \in 0..MaxOutages /\ q.pc \in PCs \ {"idle", "get"}
  BY <1>1, <1>2, <1>6 DEF PCs, Sources
<1>8. \E V \in SUBSET known : q.meta = Rec(EmptyMetadata, OSVAnswer(q.artifact, V))
  BY <1>4, <1>6
<1> HIDE DEF q, a
<1> QED BY <1>2, <1>3, <1>5, <1>6, <1>7, <1>8, StageMoves DEF a

LEMMA FetchKeeps ==
    ASSUME EnrichmentInv, NEW r \in Requests, fetchPackageMetadata(r)
    PROVE  EnrichmentInv'
<1> DEFINE a == req[r].artifact
           n == NPMAnswer(a)
           p == IF n.repo # None THEN "scorecard" ELSE "store"
           m == mergeMetadata(req[r].meta, n)
           q == [req[r] EXCEPT !.pc = p, !.meta = m]
<1>1. /\ GoodRequest(req[r], known) /\ DOMAIN req = Requests
      /\ DOMAIN req[r] = {"pc", "artifact", "generation", "meta", "failed"}
      /\ outages \in 0..MaxOutages
  BY RequestFacts
<1>2. /\ req[r].pc = "npm" /\ UNCHANGED <<known, generation, cache, outages>>
      /\ req' = [req EXCEPT ![r].pc = p, ![r].meta = mergeMetadata(@, n)]
  BY DEF fetchPackageMetadata
<1>3. /\ a \in Artifacts /\ req[r].generation \in 0..MaxGeneration /\ req[r].failed \subseteq Sources
      /\ "npm" \notin req[r].failed /\ "scorecard" \notin req[r].failed
      /\ \E V \in SUBSET known : req[r].meta = Rec(EmptyMetadata, OSVAnswer(a, V))
  BY <1>1, <1>2 DEF GoodRequest
<1>4. PICK V \in SUBSET known : req[r].meta = Rec(EmptyMetadata, OSVAnswer(a, V)) BY <1>3
<1>5. m = Rec(n, OSVAnswer(a, V)) BY <1>4, NPMFields, MergeRegistry
<1> HIDE DEF m
<1>6. req' = [req EXCEPT ![r] = q]
  <2>1. req' = [req EXCEPT ![r].pc = p, ![r].meta = m] BY <1>1, <1>2 DEF m
  <2> HIDE DEF p
  <2> QED BY <1>1, <2>1
<1>7. /\ q.pc = p /\ q.meta = m /\ q.failed = req[r].failed /\ q.artifact = a
      /\ q.generation = req[r].generation /\ DOMAIN q = DOMAIN req[r]
  BY <1>1
<1>8. outages' \in 0..MaxOutages /\ q.pc \in PCs \ {"idle", "get"}
  BY <1>1, <1>2, <1>7 DEF PCs, Sources
<1>9. p = "store" => Final(a, m, req[r].failed, known)
  <2>1. p = "store" => n = Part(a, req[r].failed) BY <1>3 DEF Part
  <2> QED BY <1>5, <2>1 DEF Final
<1>10. p = "scorecard" => n.repo # None OBVIOUS
<1>11. p \in {"scorecard", "store"} OBVIOUS
<1> HIDE DEF p
<1>12. q.pc = "scorecard" =>
         /\ NPMAnswer(q.artifact).repo # None
         /\ \E W \in SUBSET known : q.meta = Rec(NPMAnswer(q.artifact), OSVAnswer(q.artifact, W))
  BY <1>5, <1>7, <1>10
<1>13. q.pc \in {"store", "set", "evaluate"} => Final(q.artifact, q.meta, q.failed, known)
  BY <1>7, <1>9, <1>11
<1> HIDE DEF q, a, n
<1> QED BY <1>2, <1>3, <1>6, <1>7, <1>8, <1>11, <1>12, <1>13, StageMoves DEF a

\* The Scorecard lookup, with an answer or without.
LEMMA ScorecardKeeps ==
    ASSUME EnrichmentInv, NEW r \in Requests, req[r].pc = "scorecard",
           NEW q,
           \/ /\ q.failed = req[r].failed
              /\ q.meta = [req[r].meta EXCEPT !.scorecard = Lookup]
           \/ /\ q.failed = req[r].failed \cup {"scorecard"}
              /\ q.meta = [req[r].meta EXCEPT !.scorecard = ScorecardUnavailable],
           q.pc = "store",
           q.artifact = req[r].artifact, q.generation = req[r].generation, DOMAIN q = DOMAIN req[r],
           req' = [req EXCEPT ![r] = q],
           UNCHANGED <<known, generation, cache>>, outages' \in 0..MaxOutages
    PROVE  EnrichmentInv'
<1> DEFINE a == req[r].artifact
           n == NPMAnswer(a)
           f == q.failed
<1>a. PICK s :
        /\ q.meta = [req[r].meta EXCEPT !.scorecard = s]
        /\ \/ f = req[r].failed /\ s = Lookup
           \/ f = req[r].failed \cup {"scorecard"} /\ s = ScorecardUnavailable
  OBVIOUS
<1>1. GoodRequest(req[r], known) BY RequestFacts
<1>2. /\ req[r].generation \in 0..MaxGeneration
      /\ "npm" \notin req[r].failed /\ "scorecard" \notin req[r].failed /\ n.repo # None
      /\ \E V \in SUBSET known : req[r].meta = Rec(n, OSVAnswer(a, V))
  BY <1>1 DEF GoodRequest
<1>3. PICK V \in SUBSET known : req[r].meta = Rec(n, OSVAnswer(a, V)) BY <1>2
<1>4. Part(a, f) = [n EXCEPT !.scorecard = s] BY <1>a, <1>2 DEF Part
<1>5. n = Rec(n, EmptyMetadata) BY NPMFields
<1> HIDE DEF n
<1>6. q.meta = Rec(Part(a, f), OSVAnswer(a, V))
  <2> DEFINE e == [n EXCEPT !.scorecard = s]
             o == OSVAnswer(a, V)
  <2>1. /\ e.age = n.age /\ e.licenses = n.licenses /\ e.repo = n.repo
        /\ e.scorecard = s /\ e.isMutableTag = n.isMutableTag
    <3>1. DOMAIN n = {"age", "maxCVSS", "vulnerabilities", "licenses", "repo", "scorecard",
                      "isMutableTag"}
      BY <1>5 DEF Rec
    <3> QED BY <3>1
  <2>2. q.meta = [Rec(n, o) EXCEPT !.scorecard = s] BY <1>a, <1>3
  <2> HIDE DEF e, o
  <2>3. q.meta = Rec(e, o) BY <2>1, <2>2 DEF Rec
  <2> QED BY <1>4, <2>3 DEF e, o
<1>7. Final(q.artifact, q.meta, q.failed, known) BY <1>6 DEF Final
<1>8. q.pc \in PCs \ {"idle", "get"} BY DEF PCs
<1>9. q.failed \subseteq Sources BY <1>1 DEF GoodRequest, Sources
<1> QED BY <1>2, <1>7, <1>8, <1>9, StageMoves

LEMMA enrichSourceRepositoryKeeps ==
    ASSUME EnrichmentInv, NEW r \in Requests, enrichSourceRepository(r)
    PROVE  EnrichmentInv'
<1> DEFINE m == [req[r].meta EXCEPT !.scorecard = Lookup]
           q == [req[r] EXCEPT !.pc = "store", !.meta = m]
<1>1. /\ GoodRequest(req[r], known) /\ DOMAIN req = Requests
      /\ DOMAIN req[r] = {"pc", "artifact", "generation", "meta", "failed"}
      /\ outages \in 0..MaxOutages
  BY RequestFacts
<1>2. /\ req[r].pc = "scorecard" /\ UNCHANGED <<known, generation, cache, outages>>
      /\ req' = [req EXCEPT ![r].pc = "store", ![r].meta.scorecard = Lookup]
  BY DEF enrichSourceRepository
<1>3. req' = [req EXCEPT ![r] = q] BY <1>1, <1>2
<1> HIDE DEF m
<1>4. /\ q.pc = "store" /\ q.meta = m /\ q.failed = req[r].failed
      /\ q.artifact = req[r].artifact /\ q.generation = req[r].generation /\ DOMAIN q = DOMAIN req[r]
  BY <1>1
<1>5. outages' \in 0..MaxOutages /\ req[r].failed \in SUBSET Sources BY <1>1, <1>2 DEF GoodRequest
<1> HIDE DEF q
<1>6. q.meta = [req[r].meta EXCEPT !.scorecard = Lookup] BY <1>4 DEF m
<1> QED BY <1>2, <1>3, <1>4, <1>5, <1>6, ScorecardKeeps

LEMMA SourceFailsKeeps ==
    ASSUME EnrichmentInv, NEW r \in Requests, SourceFails(r)
    PROVE  EnrichmentInv'
<1> DEFINE s == req[r].pc
           p == CASE s = "osv" -> "npm" [] OTHER -> "store"
           c == IF s = "scorecard" THEN ScorecardUnavailable ELSE req[r].meta.scorecard
           m == [req[r].meta EXCEPT !.scorecard = c]
           q == [req[r] EXCEPT !.pc = p, !.failed = req[r].failed \cup {s}, !.meta = m]
<1>1. /\ GoodRequest(req[r], known) /\ DOMAIN req = Requests
      /\ DOMAIN req[r] = {"pc", "artifact", "generation", "meta", "failed"}
      /\ outages \in 0..MaxOutages
  BY RequestFacts
<1>2. /\ s \in Sources /\ Fails /\ UNCHANGED <<known, generation, cache>>
      /\ req' = [req EXCEPT ![r].pc = p, ![r].failed = @ \cup {s},
                            ![r].meta.scorecard = IF s = "scorecard" THEN ScorecardUnavailable
                                                  ELSE @]
  BY DEF SourceFails
<1>3. req' = [req EXCEPT ![r] = q]
  <2>1. req' = [req EXCEPT ![r].pc = p, ![r].failed = req[r].failed \cup {s}, ![r].meta.scorecard = c]
    BY <1>1, <1>2
  <2> HIDE DEF p, c
  <2> QED BY <1>1, <2>1
<1>4. outages' \in 0..MaxOutages BY <1>1, <1>2, FailsType
<1>5. /\ req[r].generation \in 0..MaxGeneration /\ req[r].artifact \in Artifacts
      /\ req[r].failed \cup {s} \in SUBSET Sources
  BY <1>1, <1>2 DEF GoodRequest, Sources
<1> HIDE DEF m, p
<1>6. /\ q.pc = p /\ q.meta = m /\ q.failed = req[r].failed \cup {s} /\ q.artifact = req[r].artifact
      /\ q.generation = req[r].generation /\ DOMAIN q = DOMAIN req[r]
  BY <1>1
<1>7. q.pc \in PCs \ {"idle", "get"} BY <1>6 DEF p, PCs, Sources
<1> HIDE DEF q
<1>8. CASE s = "osv"
  <2>1. req[r].meta = EmptyMetadata /\ req[r].failed = {} BY <1>1, <1>8 DEF GoodRequest
  <2>2. EmptyMetadata = Rec(EmptyMetadata, OSVAnswer(req[r].artifact, {}))
    <3> DEFINE o == OSVAnswer(req[r].artifact, {})
    <3>1. o = EmptyMetadata BY OSVOfNothing
    <3>2. o = Rec(EmptyMetadata, o) BY OSVFields
    <3> HIDE DEF o
    <3>3. EmptyMetadata = Rec(EmptyMetadata, o) BY <3>1, <3>2
    <3> QED BY <3>3 DEF o
  <2>3. m = EmptyMetadata
    <3>1. m = [EmptyMetadata EXCEPT !.scorecard = EmptyMetadata.scorecard] BY <1>8, <2>1 DEF m
    <3> HIDE DEF EmptyMetadata
    <3> QED BY <2>2, <3>1 DEF Rec
  <2>4. q.pc = "npm" BY <1>6, <1>8 DEF p
  <2>5. q.failed = {"osv"} BY <1>6, <1>8, <2>1
  <2>6. \E V \in SUBSET known : q.meta = Rec(EmptyMetadata, OSVAnswer(q.artifact, V))
    BY <1>6, <2>2, <2>3
  <2> QED BY <1>2, <1>3, <1>4, <1>5, <1>6, <1>7, <1>8, <2>4, <2>5, <2>6, StageMoves
<1>9. CASE s = "npm"
  <2>1. PICK V \in SUBSET known : req[r].meta = Rec(EmptyMetadata, OSVAnswer(req[r].artifact, V))
    BY <1>1, <1>9 DEF GoodRequest
  <2>2. m = req[r].meta
    <3>1. m = [req[r].meta EXCEPT !.scorecard = req[r].meta.scorecard] BY <1>9 DEF m
    <3> QED BY <2>1, <3>1 DEF Rec
  <2>3. Part(req[r].artifact, q.failed) = EmptyMetadata BY <1>6, <1>9 DEF Part
  <2>4. Final(q.artifact, q.meta, q.failed, known) BY <1>6, <2>1, <2>2, <2>3 DEF Final
  <2>5. q.pc = "store" BY <1>6, <1>9 DEF p
  <2> QED BY <1>2, <1>3, <1>4, <1>5, <1>6, <1>7, <1>9, <2>4, <2>5, StageMoves
<1>10. CASE s = "scorecard"
  <2>1. q.pc = "store" BY <1>6, <1>10 DEF p
  <2>2. q.meta = [req[r].meta EXCEPT !.scorecard = ScorecardUnavailable] BY <1>6, <1>10 DEF m
  <2>3. q.failed = req[r].failed \cup {"scorecard"} BY <1>6, <1>10
  <2> QED BY <1>2, <1>3, <1>4, <1>5, <1>6, <1>10, <2>1, <2>2, <2>3, ScorecardKeeps
<1> QED BY <1>2, <1>8, <1>9, <1>10 DEF Sources

\* The metadata are complete; where the request stores them does not matter.
LEMMA StoreKeeps ==
    ASSUME EnrichmentInv, NEW r \in Requests, ReadGenerationForSet(r) \/ StoreFails(r)
    PROVE  EnrichmentInv'
<1>1. /\ GoodRequest(req[r], known) /\ DOMAIN req = Requests
      /\ DOMAIN req[r] = {"pc", "artifact", "generation", "meta", "failed"}
      /\ outages \in 0..MaxOutages /\ generation \in 0..MaxGeneration
  BY RequestFacts
<1>2. req[r].pc \in {"store", "set"} /\ UNCHANGED <<known, generation, cache>>
      /\ outages' \in 0..MaxOutages
  BY <1>1, FailsType DEF ReadGenerationForSet, StoreFails
<1>3. Final(req[r].artifact, req[r].meta, req[r].failed, known)
      /\ req[r].failed \subseteq Sources /\ req[r].generation \in 0..MaxGeneration
  BY <1>1, <1>2 DEF GoodRequest
<1>4. CASE ReadGenerationForSet(r)
  <2> DEFINE q == [req[r] EXCEPT !.pc = "set", !.generation = generation]
  <2>1. req' = [req EXCEPT ![r].pc = "set", ![r].generation = generation]
    BY <1>4 DEF ReadGenerationForSet
  <2>2. req' = [req EXCEPT ![r] = q] BY <1>1, <2>1
  <2>3. /\ q.pc = "set" /\ q.meta = req[r].meta /\ q.failed = req[r].failed
        /\ q.generation = generation /\ q.artifact = req[r].artifact /\ DOMAIN q = DOMAIN req[r]
    BY <1>1
  <2>4. q.pc \in PCs \ {"idle", "get"} BY <2>3 DEF PCs
  <2> HIDE DEF q
  <2> QED BY <1>1, <1>2, <1>3, <2>2, <2>3, <2>4, StageMoves
<1>5. CASE StoreFails(r)
  <2> DEFINE q == [req[r] EXCEPT !.pc = "evaluate"]
  <2>1. req' = [req EXCEPT ![r].pc = "evaluate"] BY <1>5 DEF StoreFails
  <2>2. req' = [req EXCEPT ![r] = q] BY <1>1, <2>1
  <2>3. /\ q.pc = "evaluate" /\ q.meta = req[r].meta /\ q.failed = req[r].failed
        /\ q.generation = req[r].generation /\ q.artifact = req[r].artifact
        /\ DOMAIN q = DOMAIN req[r]
    BY <1>1
  <2>4. q.pc \in PCs \ {"idle", "get"} BY <2>3 DEF PCs
  <2> HIDE DEF q
  <2> QED BY <1>2, <1>3, <2>2, <2>3, <2>4, StageMoves
<1> QED BY <1>4, <1>5

\* Entries come and go; an entry is what a request put there.
LEMMA CacheMoves ==
    ASSUME EnrichmentInv, NEW g \in 0..MaxGeneration, NEW a \in Artifacts, NEW e,
           GoodEntry(a, e, known), cache' = [cache EXCEPT ![g][a] = e],
           UNCHANGED <<known, generation, outages>>, req' = req
    PROVE  EnrichmentInv'
<1>1. TypeOK /\ DOMAIN cache = 0..MaxGeneration
      /\ \A h \in 0..MaxGeneration : DOMAIN cache[h] = Artifacts
  BY DEF EnrichmentInv, TypeOK
<1>2. DOMAIN cache' = 0..MaxGeneration
      /\ \A h \in 0..MaxGeneration : DOMAIN cache'[h] = Artifacts
  BY <1>1
<1>3. \A h \in 0..MaxGeneration, b \in Artifacts :
        cache'[h][b] = IF h = g /\ b = a THEN e ELSE cache[h][b]
  BY <1>1
<1>4. \A h \in 0..MaxGeneration, b \in Artifacts : GoodEntry(b, cache'[h][b], known)
  BY <1>3 DEF EnrichmentInv
<1>5. \A h \in 0..MaxGeneration, b \in Artifacts :
        cache'[h][b] # None => cache'[h][b].failed \subseteq Sources
  BY <1>4 DEF GoodEntry
<1>6. TypeOK' BY <1>1, <1>2, <1>5 DEF TypeOK
<1> QED BY <1>4, <1>6 DEF EnrichmentInv

LEMMA storeCachedMetadataKeeps ==
    ASSUME EnrichmentInv, NEW r \in Requests, storeCachedMetadata(r)
    PROVE  EnrichmentInv'
<1> DEFINE g == req[r].generation
           a == req[r].artifact
           e == [meta |-> req[r].meta, failed |-> req[r].failed]
           q == [req[r] EXCEPT !.pc = "evaluate"]
<1>1. /\ GoodRequest(req[r], known) /\ DOMAIN req = Requests
      /\ DOMAIN req[r] = {"pc", "artifact", "generation", "meta", "failed"}
  BY RequestFacts
<1>2. /\ req[r].pc = "set" /\ UNCHANGED <<known, generation, outages>>
      /\ cache' = [cache EXCEPT ![g][a] = e] /\ req' = [req EXCEPT ![r].pc = "evaluate"]
  BY DEF storeCachedMetadata
<1>3. /\ g \in 0..MaxGeneration /\ a \in Artifacts /\ req[r].failed \subseteq Sources
      /\ Final(a, req[r].meta, req[r].failed, known)
  BY <1>1, <1>2 DEF GoodRequest
<1>4. e.meta = req[r].meta /\ e.failed = req[r].failed OBVIOUS
<1>5. req' = [req EXCEPT ![r] = q] BY <1>1, <1>2
<1>6. /\ q.pc = "evaluate" /\ q.meta = req[r].meta /\ q.failed = req[r].failed
      /\ q.generation = g /\ q.artifact = a /\ DOMAIN q = DOMAIN req[r]
  BY <1>1
<1> HIDE DEF e, q, g, a
<1>7. GoodEntry(a, e, known) BY <1>3, <1>4 DEF GoodEntry
<1>8. GoodRequest(q, known) BY <1>1, <1>3, <1>6 DEF GoodRequest, PCs
<1>9. TypeOK /\ DOMAIN cache = 0..MaxGeneration
      /\ \A h \in 0..MaxGeneration : DOMAIN cache[h] = Artifacts
  BY DEF EnrichmentInv, TypeOK
<1>10. /\ DOMAIN cache' = 0..MaxGeneration
       /\ \A h \in 0..MaxGeneration : DOMAIN cache'[h] = Artifacts
       /\ \A h \in 0..MaxGeneration, b \in Artifacts :
            cache'[h][b] = IF h = g /\ b = a THEN e ELSE cache[h][b]
  BY <1>2, <1>3, <1>9
<1>11. \A h \in 0..MaxGeneration, b \in Artifacts : GoodEntry(b, cache'[h][b], known)
  BY <1>7, <1>10 DEF EnrichmentInv
<1>12. \A h \in 0..MaxGeneration, b \in Artifacts :
        cache'[h][b] # None => cache'[h][b].failed \subseteq Sources
  BY <1>11 DEF GoodEntry
<1>13. DOMAIN req' = Requests /\ \A s \in Requests : req'[s] = IF s = r THEN q ELSE req[s]
  BY <1>1, <1>5
<1>14. \A s \in Requests : GoodRequest(req'[s], known) BY <1>8, <1>13 DEF EnrichmentInv
<1>15. \A s \in Requests :
        /\ DOMAIN req'[s] = DOMAIN NoRequest
        /\ req'[s].pc \in PCs /\ req'[s].generation \in 0..MaxGeneration
        /\ req'[s].pc # "idle" => req'[s].artifact \in Artifacts
        /\ req'[s].failed \subseteq Sources
  BY <1>14 DEF GoodRequest
<1>16. TypeOK' BY <1>2, <1>9, <1>10, <1>12, <1>13, <1>15 DEF TypeOK
<1> QED BY <1>2, <1>11, <1>14, <1>16 DEF EnrichmentInv

LEMMA EnvironmentKeeps ==
    ASSUME EnrichmentInv,
           \/ \E v \in Vulns : Disclose(v)
           \/ ClearTenantMetadata
           \/ \E g \in 0..MaxGeneration, a \in Artifacts : Expire(g, a)
           \/ UNCHANGED vars
    PROVE  EnrichmentInv'
<1>1. CASE \E g \in 0..MaxGeneration, a \in Artifacts : Expire(g, a)
  <2>1. \A a : GoodEntry(a, None, known) BY DEF GoodEntry
  <2> QED BY <1>1, <2>1, CacheMoves DEF Expire
<1>2. CASE (\E v \in Vulns : Disclose(v)) \/ ClearTenantMetadata \/ UNCHANGED vars
  <2>1. /\ cache' = cache /\ req' = req /\ outages' = outages
        /\ known \subseteq known' /\ known' \subseteq Vulns /\ generation' \in 0..MaxGeneration
    BY <1>2, EnrichmentAssumption DEF Disclose, ClearTenantMetadata, vars, EnrichmentInv, TypeOK
  <2>2. TypeOK' BY <2>1 DEF EnrichmentInv, TypeOK
  <2>3. \A r \in Requests : GoodRequest(req[r], known') BY <2>1, GoodRequestStays DEF EnrichmentInv
  <2>4. \A g \in 0..MaxGeneration, a \in Artifacts : GoodEntry(a, cache[g][a], known')
    BY <2>1, FinalStays DEF EnrichmentInv, GoodEntry
  <2> QED BY <2>1, <2>2, <2>3, <2>4 DEF EnrichmentInv
<1> QED BY <1>1, <1>2

LEMMA InitIsGood == Init => EnrichmentInv
<1> SUFFICES ASSUME Init PROVE EnrichmentInv OBVIOUS
<1>1. /\ known = {} /\ generation = 0 /\ outages = 0 /\ req = [r \in Requests |-> NoRequest]
      /\ cache = [g \in 0..MaxGeneration |-> [a \in Artifacts |-> None]]
  BY DEF Init
<1>2. \A r \in Requests : GoodRequest(req[r], known) BY <1>1, NoRequestIsGood
<1>3. \A g \in 0..MaxGeneration, a \in Artifacts : cache[g][a] = None BY <1>1
<1>4. \A r \in Requests :
        /\ DOMAIN req[r] = DOMAIN NoRequest
        /\ req[r].pc \in PCs /\ req[r].generation \in 0..MaxGeneration
        /\ req[r].pc # "idle" => req[r].artifact \in Artifacts
        /\ req[r].failed \subseteq Sources
  BY <1>2 DEF GoodRequest
<1>5. TypeOK BY <1>1, <1>3, <1>4, EnrichmentAssumption DEF TypeOK
<1> QED BY <1>2, <1>3, <1>5 DEF EnrichmentInv, GoodEntry

LEMMA NextKeeps == EnrichmentInv /\ [Next]_vars => EnrichmentInv'
<1> SUFFICES ASSUME EnrichmentInv, [Next]_vars PROVE EnrichmentInv' OBVIOUS
<1>1. CASE \E r \in Requests, a \in Artifacts : currentCacheGeneration(r, a) BY <1>1, BeginKeeps
<1>2. ASSUME NEW r \in Requests, Progress(r) PROVE EnrichmentInv'
  BY <1>2, LookupKeeps, QueryOSVKeeps, FetchKeeps, enrichSourceRepositoryKeeps, StoreKeeps,
     storeCachedMetadataKeeps, EndKeeps
  DEF Progress
<1>3. ASSUME NEW r \in Requests, Failure(r) PROVE EnrichmentInv'
  BY <1>3, CacheLookupFailsKeeps, EndKeeps, SourceFailsKeeps, StoreKeeps DEF Failure
<1> QED BY <1>1, <1>2, <1>3, EnvironmentKeeps DEF Next

-----------------------------------------------------------------------------
(* Less metadata, fewer denials.                                           *)

LEMMA MaxScoreExists ==
    ASSUME NEW S \in SUBSET (0..10), S # {}
    PROVE  MaxScore(S) \in S /\ \A t \in S : t <= MaxScore(S)
<1>1. \E s \in S : \A t \in S : t <= s
  <2> SUFFICES ASSUME ~ \E s \in S : \A t \in S : t <= s PROVE FALSE OBVIOUS
  <2>1. 10 \notin S OBVIOUS
  <2>2. 9 \notin S BY <2>1
  <2>3. 8 \notin S BY <2>1, <2>2
  <2>4. 7 \notin S BY <2>1, <2>2, <2>3
  <2>5. 6 \notin S BY <2>1, <2>2, <2>3, <2>4
  <2>6. 5 \notin S BY <2>1, <2>2, <2>3, <2>4, <2>5
  <2>7. S \subseteq 0..4 BY <2>1, <2>2, <2>3, <2>4, <2>5, <2>6
  <2>8. 4 \notin S BY <2>7
  <2>9. 3 \notin S BY <2>7, <2>8
  <2>10. S \subseteq 0..2 BY <2>7, <2>8, <2>9
  <2>11. 2 \notin S BY <2>10
  <2>12. 1 \notin S BY <2>10, <2>11
  <2>13. 0 \notin S BY <2>10, <2>11, <2>12
  <2>14. PICK t : t \in S OBVIOUS
  <2>15. t \in 0..2 BY <2>10, <2>14
  <2>16. t # 2 /\ t # 1 /\ t # 0 BY <2>11, <2>12, <2>13, <2>14
  <2> QED BY <2>15, <2>16
<1> QED BY <1>1 DEF MaxScore

LEMMA ResolvedScore ==
    ASSUME NEW v \in Vulns
    PROVE  resolveSeverity(v).cvss \in 0..10
<1>1. v.scores \in SUBSET (0..10) BY EnrichmentAssumption
<1>2. extractSeverity(v.scores).cvss \in 0..10
  <2>1. CASE v.scores = {} BY <2>1 DEF extractSeverity
  <2>2. CASE v.scores # {}
    <3>1. MaxScore(v.scores) \in 0..10 BY <1>1, <2>2, MaxScoreExists
    <3> QED BY <2>2, <3>1 DEF extractSeverity
  <2> QED BY <2>1, <2>2
<1>3. resolveSeverity(v).cvss = extractSeverity(v.scores).cvss
  BY DEF resolveSeverity, extractSeverity
<1> QED BY <1>2, <1>3

\* When OSV learns more, nothing it said before is taken back.
LEMMA OSVGrows ==
    ASSUME NEW a, NEW V, NEW W \in SUBSET Vulns, V \subseteq W
    PROVE  /\ OSVAnswer(a, V).vulnerabilities \subseteq OSVAnswer(a, W).vulnerabilities
           /\ OSVAnswer(a, V).maxCVSS # None =>
                /\ OSVAnswer(a, V).maxCVSS \in Int /\ OSVAnswer(a, W).maxCVSS \in Int
                /\ OSVAnswer(a, W).maxCVSS # None
                /\ OSVAnswer(a, V).maxCVSS <= OSVAnswer(a, W).maxCVSS
<1> DEFINE R(X) == {resolveSeverity(v) : v \in X}
           S(X) == {x.cvss : x \in R(X)} \ {0}
<1>1. CASE a.ecosystem = "oci" BY <1>1 DEF OSVAnswer, EmptyMetadata
<1>2. CASE a.ecosystem # "oci"
  <2>1. ASSUME NEW X
        PROVE  /\ OSVAnswer(a, X).vulnerabilities = R(X)
               /\ OSVAnswer(a, X).maxCVSS = IF S(X) = {} THEN None ELSE MaxScore(S(X))
    BY <1>2 DEF OSVAnswer, toArtifactMetadata, EmptyMetadata
  <2>2. R(V) \subseteq R(W) OBVIOUS
  <2>3. S(V) \subseteq S(W) BY <2>2
  <2>4. S(W) \in SUBSET (0..10)
    <3>1. \A x \in R(W) : x.cvss \in 0..10 BY ResolvedScore
    <3> QED BY <3>1
  <2> HIDE DEF R, S
  <2>5. CASE S(V) = {} BY <2>1, <2>2, <2>5
  <2>6. CASE S(V) # {}
    <3>1. MaxScore(S(V)) \in S(V) BY <2>3, <2>4, <2>6, MaxScoreExists
    <3>2. S(W) # {} BY <2>3, <2>6
    <3>3. MaxScore(S(W)) \in S(W) /\ \A t \in S(W) : t <= MaxScore(S(W))
      BY <2>4, <3>2, MaxScoreExists
    <3>4. MaxScore(S(V)) <= MaxScore(S(W)) /\ MaxScore(S(V)) \in Int /\ MaxScore(S(W)) \in Int
      BY <2>3, <2>4, <3>1, <3>3
    <3>5. MaxScore(S(W)) # None BY <3>4, EnrichmentAssumption
    <3> QED BY <2>1, <2>2, <2>6, <3>2, <3>4, <3>5
  <2> QED BY <2>5, <2>6
<1> QED BY <1>1, <1>2

\* m says no more than full does.
Below(m, full) ==
    /\ m.age \in {None, full.age}
    /\ m.licenses \subseteq full.licenses
    /\ m.vulnerabilities \subseteq full.vulnerabilities
    /\ m.maxCVSS # None =>
         m.maxCVSS \in Int /\ full.maxCVSS \in Int /\ full.maxCVSS # None /\ m.maxCVSS <= full.maxCVSS
    /\ m.isMutableTag = full.isMutableTag

\* A rule that skips what it has no data for denies no more with less.
LEMMA SkipRulesAreMonotone ==
    ASSUME NEW a, NEW m, NEW full, full # None, Below(m, full), NEW p \in SkipRules,
           Matches(Judged(a, m), p)
    PROVE  Matches(Judged(a, full), p)
<1> DEFINE x == Judged(a, m)
           y == Judged(a, full)
<1>1. x.artifact = a /\ x.metadata = m /\ y.artifact = a /\ y.metadata = full BY DEF Judged
<1>2. /\ p.type \in {"minimum_age", "maximum_age", "cvss_threshold", "license", "block_mutable_tag"}
      /\ p.type = "cvss_threshold" => p.config.maxCVSS \in Int \cup {None}
  BY EnrichmentAssumption
<1>3. \A q : /\ p.type = "minimum_age" => Matches(q, p) = MinimumAge(q, p.config)
             /\ p.type = "maximum_age" => Matches(q, p) = MaximumAge(q, p.config)
             /\ p.type = "cvss_threshold" => Matches(q, p) = CVSSThreshold(q, p.config)
             /\ p.type = "license" => Matches(q, p) = License(q, p.config)
             /\ p.type = "block_mutable_tag" => Matches(q, p) = BlockMutableTag(q, p.config)
  BY DEF Matches
<1> HIDE DEF x, y
<1>4. Matches(x, p) BY DEF x
<1>5. CASE p.type = "minimum_age"
  BY <1>1, <1>3, <1>4, <1>5 DEF MinimumAge, Age, IsExcludedPackage, Below, y
<1>6. CASE p.type = "maximum_age"
  BY <1>1, <1>3, <1>4, <1>6 DEF MaximumAge, Age, IsExcludedPackage, Below, y
<1>7. CASE p.type = "cvss_threshold"
  <2> DEFINE c == p.config
  <2>1. c.maxCVSS \in Int \cup {None} BY <1>2, <1>7
  <2>2. CVSSThreshold(x, c) BY <1>3, <1>4, <1>7
  <2>3. \/ /\ c.maxCVSS # None /\ m.maxCVSS # None
           /\ m.maxCVSS >= c.maxCVSS
        \/ /\ c.minimumSeverity # None
           /\ \E v \in m.vulnerabilities : SeverityAtOrAbove(ActualSeverity(v), c.minimumSeverity)
    BY <1>1, <2>2 DEF CVSSThreshold
  <2>4. \/ /\ c.maxCVSS # None /\ full.maxCVSS # None
           /\ full.maxCVSS >= c.maxCVSS
        \/ /\ c.minimumSeverity # None
           /\ \E v \in full.vulnerabilities : SeverityAtOrAbove(ActualSeverity(v), c.minimumSeverity)
    BY <2>1, <2>3 DEF Below
  <2>5. CVSSThreshold(y, c) BY <1>1, <2>4 DEF CVSSThreshold
  <2> QED BY <1>3, <1>7, <2>5 DEF y
<1>8. CASE p.type = "license" BY <1>1, <1>3, <1>4, <1>8 DEF License, Below, y
<1>9. CASE p.type = "block_mutable_tag"
  BY <1>1, <1>3, <1>4, <1>9 DEF BlockMutableTag, Below, y
<1> QED BY <1>2, <1>5, <1>6, <1>7, <1>8, <1>9

-----------------------------------------------------------------------------
(* The theorems.                                                           *)

\* What a request has when it is judged.
LEMMA EvaluatedIsFinal ==
    ASSUME EnrichmentInv, NEW r \in Requests, req[r].pc = "evaluate"
    PROVE  /\ req[r].artifact \in Artifacts /\ req[r].failed \subseteq Sources
           /\ \E V \in SUBSET known :
                req[r].meta = Rec(Part(req[r].artifact, req[r].failed), OSVAnswer(req[r].artifact, V))
BY DEF EnrichmentInv, GoodRequest, Final

\* The marking of a tag changes nothing else.
LEMMA TagMarked ==
    ASSUME NEW a \in Artifacts, NEW V \in SUBSET Vulns, NEW F \in SUBSET Sources
    PROVE  LET m == Gathered(a, V, F)
               s == applyMutableTagMetadata(a, m)
           IN /\ s # None
              /\ s.age = Part(a, F).age /\ s.licenses = Part(a, F).licenses
              /\ s.scorecard = Part(a, F).scorecard
              /\ s.vulnerabilities = OSVAnswer(a, V).vulnerabilities
              /\ s.maxCVSS = OSVAnswer(a, V).maxCVSS
              /\ a.tag => s.isMutableTag = TRUE
              /\ ~a.tag => s.isMutableTag = FALSE
<1> DEFINE m == Gathered(a, V, F)
           s == applyMutableTagMetadata(a, m)
           e == Part(a, F)
           o == OSVAnswer(a, V)
<1>1. m = Rec(e, o) BY GatheredParts
<1>2. m # None /\ s # None BY NoneAssumption
<1>3. e.isMutableTag = FALSE BY PartFields
<1> HIDE DEF e, o, m
<1>4. /\ m.age = e.age /\ m.licenses = e.licenses /\ m.scorecard = e.scorecard
      /\ m.vulnerabilities = o.vulnerabilities /\ m.maxCVSS = o.maxCVSS
      /\ m.isMutableTag = e.isMutableTag
  BY <1>1 DEF Rec
<1>5. CASE a.tag
  <2>1. s = [m EXCEPT !.isMutableTag = TRUE] BY <1>2, <1>5 DEF applyMutableTagMetadata
  <2>2. DOMAIN m = {"age", "maxCVSS", "vulnerabilities", "licenses", "repo", "scorecard", "isMutableTag"}
    BY <1>1 DEF Rec
  <2> HIDE DEF s
  <2>3. /\ s.age = m.age /\ s.licenses = m.licenses /\ s.scorecard = m.scorecard
        /\ s.vulnerabilities = m.vulnerabilities /\ s.maxCVSS = m.maxCVSS
        /\ s.isMutableTag = TRUE
    BY <2>1, <2>2
  <2> QED BY <1>2, <1>4, <1>5, <2>3 DEF s, m, e, o
<1>6. CASE ~a.tag
  <2>1. s = m BY <1>6 DEF applyMutableTagMetadata
  <2> QED BY <1>2, <1>3, <1>4, <1>6, <2>1 DEF m, e, o
<1> QED BY <1>5, <1>6

\* The registry's answer with fewer sources says no more than with all.
LEMMA PartGrows ==
    ASSUME NEW a, NEW F
    PROVE  Part(a, F).age \in {None, Part(a, {}).age} /\ Part(a, F).licenses \subseteq Part(a, {}).licenses
<1>1. NPMAnswer(a) = Rec(NPMAnswer(a), EmptyMetadata) BY NPMFields
<1>2. ASSUME NEW s
      PROVE  /\ [NPMAnswer(a) EXCEPT !.scorecard = s].age = NPMAnswer(a).age
             /\ [NPMAnswer(a) EXCEPT !.scorecard = s].licenses = NPMAnswer(a).licenses
  OBVIOUS
<1>3. EmptyMetadata.age = None /\ EmptyMetadata.licenses = {} BY DEF EmptyMetadata
<1>4. Part(a, {}).age = NPMAnswer(a).age /\ Part(a, {}).licenses = NPMAnswer(a).licenses
  BY <1>2 DEF Part
<1>5. CASE "npm" \in F BY <1>3, <1>5 DEF Part
<1>6. CASE "npm" \notin F
  <2>1. Part(a, F).age = NPMAnswer(a).age /\ Part(a, F).licenses = NPMAnswer(a).licenses
    BY <1>2, <1>6 DEF Part
  <2> QED BY <1>4, <2>1
<1> QED BY <1>5, <1>6

\* The registry's part, field by field, is what registry and Scorecard say.
LEMMA AnswersAreParts ==
    ASSUME NEW a, NEW V PROVE Rec(Part(a, {}), OSVAnswer(a, V)) = Answers(a, V)
<1> DEFINE n == NPMAnswer(a)
           p == Part(a, {})
<1>1. p = IF n.repo = None THEN n ELSE [n EXCEPT !.scorecard = Lookup]
  BY DEF Part
<1>2. CASE ~Published(a)
  <2>1. n = EmptyMetadata BY <1>2 DEF NPMAnswer, Published
  <2>2. p = EmptyMetadata BY <1>1, <2>1 DEF EmptyMetadata
  <2> HIDE DEF p
  <2>3. Rec(p, OSVAnswer(a, V)) = Answers(a, V)
    BY <1>2, <2>2 DEF Answers, Listed, Rec, EmptyMetadata
  <2> QED BY <2>3 DEF p
<1>3. CASE Published(a) /\ ~Listed(a)
  <2>1. n = [EmptyMetadata EXCEPT !.age = Registry[a].age]
    BY <1>3 DEF NPMAnswer, Published, Listed, enrichPackageVersion
  <2>2. n = [age |-> Registry[a].age, maxCVSS |-> None, vulnerabilities |-> {},
             licenses |-> {}, repo |-> None, scorecard |-> None, isMutableTag |-> FALSE]
    BY <2>1 DEF EmptyMetadata
  <2> HIDE DEF n
  <2>3. p = n BY <1>1, <2>2
  <2> HIDE DEF p
  <2>4. Rec(p, OSVAnswer(a, V)) = Answers(a, V)
    BY <1>3, <2>2, <2>3 DEF Answers, Rec
  <2> QED BY <2>4 DEF p
<1>4. CASE Published(a) /\ Listed(a)
  <2> DEFINE g == Registry[a]
             s == resolveSourceRepository(g)
  <2>1. n = enrichPackageVersion(g) /\ g.listed BY <1>4 DEF NPMAnswer, Published, Listed
  <2>2. n = [age |-> g.age, maxCVSS |-> None, vulnerabilities |-> {}, licenses |-> g.licenses,
             repo |-> s, scorecard |-> IF s = None THEN ScorecardUnavailable ELSE None,
             isMutableTag |-> FALSE]
    BY <2>1 DEF enrichPackageVersion, EmptyMetadata
  <2> HIDE DEF n, s
  <2>3. p = [age |-> g.age, maxCVSS |-> None, vulnerabilities |-> {}, licenses |-> g.licenses,
             repo |-> s, scorecard |-> IF s = None THEN ScorecardUnavailable ELSE Lookup,
             isMutableTag |-> FALSE]
    <3>1. CASE s = None BY <1>1, <2>2, <3>1
    <3>2. CASE s # None BY <1>1, <2>2, <3>2
    <3> QED BY <3>1, <3>2
  <2> HIDE DEF p
  <2>4. Rec(p, OSVAnswer(a, V)) = Answers(a, V)
    BY <1>4, <2>3 DEF Answers, Rec, s
  <2> QED BY <2>4 DEF p
<1> QED BY <1>2, <1>3, <1>4 DEF Listed

LEMMA NoDenialFromLess == EnrichmentInv => OutageNeverDenies
<1> SUFFICES ASSUME EnrichmentInv, NEW r \in Requests, req[r].pc = "evaluate",
                    NEW p \in SkipRules, Matches(Judged(req[r].artifact, Seen(r)), p)
             PROVE  Matches(Judged(req[r].artifact,
                        applyMutableTagMetadata(req[r].artifact, FullMetadata(req[r].artifact))), p)
  BY DEF OutageNeverDenies
<1> DEFINE a == req[r].artifact
           F == req[r].failed
<1>1. PICK V \in SUBSET known : req[r].meta = Rec(Part(a, F), OSVAnswer(a, V))
  BY EvaluatedIsFinal
<1>2. a \in Artifacts /\ F \in SUBSET Sources /\ V \in SUBSET Vulns /\ known \in SUBSET Vulns
  BY EvaluatedIsFinal, <1>1 DEF EnrichmentInv, TypeOK
<1>3. Seen(r) = applyMutableTagMetadata(a, Gathered(a, V, F))
  BY <1>1, GatheredParts DEF Seen
<1>4. FullMetadata(a) = Gathered(a, known, {})
  BY GatheredParts, AnswersAreParts DEF FullMetadata
<1> DEFINE s == applyMutableTagMetadata(a, Gathered(a, V, F))
           full == applyMutableTagMetadata(a, Gathered(a, known, {}))
<1>5. /\ s.age = Part(a, F).age /\ s.licenses = Part(a, F).licenses
      /\ s.vulnerabilities = OSVAnswer(a, V).vulnerabilities
      /\ s.maxCVSS = OSVAnswer(a, V).maxCVSS
      /\ a.tag => s.isMutableTag = TRUE
      /\ ~a.tag => s.isMutableTag = FALSE
  BY <1>2, TagMarked
<1>6. /\ full # None
      /\ full.age = Part(a, {}).age /\ full.licenses = Part(a, {}).licenses
      /\ full.vulnerabilities = OSVAnswer(a, known).vulnerabilities
      /\ full.maxCVSS = OSVAnswer(a, known).maxCVSS
      /\ a.tag => full.isMutableTag = TRUE
      /\ ~a.tag => full.isMutableTag = FALSE
  <2>1. {} \in SUBSET Sources OBVIOUS
  <2> HIDE DEF a
  <2> QED BY <1>2, <2>1, TagMarked
<1> HIDE DEF s, full, a, F
<1>7. Part(a, F).age \in {None, Part(a, {}).age} /\ Part(a, F).licenses \subseteq Part(a, {}).licenses
  BY PartGrows
<1>8. /\ OSVAnswer(a, V).vulnerabilities \subseteq OSVAnswer(a, known).vulnerabilities
      /\ OSVAnswer(a, V).maxCVSS # None =>
           /\ OSVAnswer(a, V).maxCVSS \in Int /\ OSVAnswer(a, known).maxCVSS \in Int
           /\ OSVAnswer(a, known).maxCVSS # None
           /\ OSVAnswer(a, V).maxCVSS <= OSVAnswer(a, known).maxCVSS
  BY <1>1, <1>2, OSVGrows
<1>9. s.isMutableTag = full.isMutableTag BY <1>5, <1>6
<1>10. Below(s, full) BY <1>5, <1>6, <1>7, <1>8, <1>9 DEF Below
<1>11. Matches(Judged(a, s), p) BY <1>3 DEF s, a
<1>12. Matches(Judged(a, full), p) BY <1>6, <1>10, <1>11, SkipRulesAreMonotone
<1> QED BY <1>4, <1>12 DEF full, a

LEMMA NoPassFromLess == EnrichmentInv => OutageFailsClosed
<1> SUFFICES ASSUME EnrichmentInv, NEW r \in Requests, req[r].pc = "evaluate",
                    "npm" \in req[r].failed, NEW p \in StrictRules
             PROVE  Matches(Judged(req[r].artifact, Seen(r)), p)
  BY DEF OutageFailsClosed
<1> DEFINE a == req[r].artifact
           F == req[r].failed
<1>1. PICK V \in SUBSET known : req[r].meta = Rec(Part(a, F), OSVAnswer(a, V))
  BY EvaluatedIsFinal
<1>2. a \in Artifacts /\ F \in SUBSET Sources /\ V \in SUBSET Vulns
  BY EvaluatedIsFinal, <1>1 DEF EnrichmentInv, TypeOK
<1>3. Seen(r) = applyMutableTagMetadata(a, Gathered(a, V, F))
  BY <1>1, GatheredParts DEF Seen
<1>4. /\ Seen(r) # None /\ Seen(r).licenses = Part(a, F).licenses
      /\ Seen(r).scorecard = Part(a, F).scorecard
  <2> DEFINE s == applyMutableTagMetadata(a, Gathered(a, V, F))
  <2>1. s # None /\ s.licenses = Part(a, F).licenses /\ s.scorecard = Part(a, F).scorecard
    <3> HIDE DEF a, F
    <3> QED BY <1>2, TagMarked
  <2> QED BY <1>3, <2>1
<1>5. Part(a, F).licenses = {} /\ Part(a, F).scorecard = None BY DEF Part, EmptyMetadata
<1> DEFINE x == Judged(a, Seen(r))
<1>6. x.metadata # None /\ x.metadata.licenses = {} /\ x.metadata.scorecard = None
  BY <1>4, <1>5 DEF Judged
<1> HIDE DEF x, a, F
<1>7. /\ p.type \in {"license_allowlist", "scorecard"} /\ p.config.unavailable # "skip"
      /\ p.type = "license_allowlist" => p.config.unlicensed # "skip"
  BY EnrichmentAssumption
<1>8. CASE p.type = "license_allowlist"
  <2>1. Matches(x, p) = LicenseAllowlist(x, p.config) BY <1>8 DEF Matches
  <2>2. LicenseAllowlist(x, p.config) BY <1>6, <1>7, <1>8 DEF LicenseAllowlist
  <2> QED BY <2>1, <2>2 DEF x, a
<1>9. CASE p.type = "scorecard"
  <2>1. Matches(x, p) = Scorecard(x, p.config) BY <1>9 DEF Matches
  <2>2. Scorecard(x, p.config) BY <1>6, <1>7 DEF Scorecard, Unavailable
  <2> QED BY <2>1, <2>2 DEF x, a
<1> QED BY <1>7, <1>8, <1>9

\* No score OSV has of V is above the highest it reports.
LEMMA HighestIsHighest ==
    ASSUME NEW a, a.ecosystem # "oci", NEW V \in SUBSET Vulns, NEW v \in V,
           NEW score \in v.scores \ {0}
    PROVE  OSVAnswer(a, V).maxCVSS # None /\ score <= OSVAnswer(a, V).maxCVSS
<1> DEFINE R == {resolveSeverity(w) : w \in V}
           S == {x.cvss : x \in R} \ {0}
<1>1. OSVAnswer(a, V).maxCVSS = IF S = {} THEN None ELSE MaxScore(S)
  BY DEF OSVAnswer, toArtifactMetadata, EmptyMetadata
<1>2. S \in SUBSET (0..10)
  <2>1. \A x \in R : x.cvss \in 0..10 BY ResolvedScore
  <2> QED BY <2>1
<1>3. v.scores \in SUBSET (0..10) /\ v.scores # {} BY EnrichmentAssumption
<1>4. MaxScore(v.scores) \in 0..10 /\ score <= MaxScore(v.scores) /\ score \in 1..10
  BY <1>3, MaxScoreExists
<1>5. resolveSeverity(v).cvss = MaxScore(v.scores)
  BY <1>3 DEF resolveSeverity, extractSeverity
<1>6. MaxScore(v.scores) \in S
  <2>1. resolveSeverity(v) \in R OBVIOUS
  <2> HIDE DEF R
  <2> QED BY <1>4, <1>5, <2>1
<1> HIDE DEF S
<1>7. MaxScore(S) \in 0..10 /\ MaxScore(v.scores) <= MaxScore(S)
  BY <1>2, <1>6, MaxScoreExists
<1>8. MaxScore(S) # None BY <1>7, EnrichmentAssumption
<1> QED BY <1>1, <1>4, <1>6, <1>7, <1>8

LEMMA NothingIsLost == EnrichmentInv => AnswersKept
<1> SUFFICES ASSUME EnrichmentInv, NEW r \in Requests, req[r].pc = "evaluate", req[r].failed = {}
             PROVE  \E V \in SUBSET known :
                /\ req[r].meta = Answers(req[r].artifact, V)
                /\ req[r].artifact.ecosystem # "oci" =>
                     \A v \in V : \A score \in v.scores \ {0} :
                         req[r].meta.maxCVSS # None /\ score <= req[r].meta.maxCVSS
  BY DEF AnswersKept
<1> DEFINE a == req[r].artifact
<1>1. PICK V \in SUBSET known : req[r].meta = Rec(Part(a, {}), OSVAnswer(a, V))
  BY EvaluatedIsFinal
<1>2. V \in SUBSET Vulns BY <1>1 DEF EnrichmentInv, TypeOK
<1> HIDE DEF a
<1>3. req[r].meta = Answers(a, V) BY <1>1, AnswersAreParts
<1>4. req[r].meta.maxCVSS = OSVAnswer(a, V).maxCVSS BY <1>3 DEF Answers
<1>5. a.ecosystem # "oci" =>
        \A v \in V : \A score \in v.scores \ {0} :
            req[r].meta.maxCVSS # None /\ score <= req[r].meta.maxCVSS
  BY <1>2, <1>4, HighestIsHighest
<1> QED BY <1>1, <1>3, <1>5 DEF a

\* EnrichWithCorrelation and the composite enricher: at every stage of a
\* request, and in every cache entry, the metadata are what the sources that
\* answered say, with the vulnerabilities OSV knew at some time.
THEOREM EnrichmentInvariance == Spec => []EnrichmentInv
<1> QED BY InitIsGood, NextKeeps, PTL DEF Spec

\* Requests and cache entries keep their shape through outages and resets.
THEOREM EnrichmentTypeCorrect == Spec => []TypeOK
<1>1. EnrichmentInv => TypeOK BY DEF EnrichmentInv
<1> QED BY <1>1, EnrichmentInvariance, PTL

\* mergeMetadata: when every source answered, the metadata a request is
\* judged by, from the sources or from Valkey, hold every field as the source
\* that speaks of it has it, and the highest score is the highest.
THEOREM AnswersAreKept == Spec => []AnswersKept
<1> QED BY NothingIsLost, EnrichmentInvariance, PTL

\* CompositeEnricher.Enrich leaves a failed source out; the rules that deny
\* without data then deny, for as long as the partial entry is cached.
THEOREM OutagesFailClosed == Spec => []OutageFailsClosed
<1> QED BY NoPassFromLess, EnrichmentInvariance, PTL

\* CompositeEnricher.Enrich: what a failed source leaves out never makes a
\* rule deny that skips missing data.
THEOREM OutagesNeverDeny == Spec => []OutageNeverDenies
<1> QED BY NoDenialFromLess, EnrichmentInvariance, PTL
=============================================================================
