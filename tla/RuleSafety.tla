------------------------------ MODULE RuleSafety ------------------------------
(***************************************************************************)
(* How much a rule is trusted: the safety classes of                       *)
(* app/v2_rule_safety_classifier.py, the heuristics of                     *)
(* app/v2_safety_heuristics.py, the risk of app/api/rule_risk_assessment.py*)
(* over app/v2_sql_llm_validator.py, the quality tiers of                  *)
(* app/v2_pattern_quality_tiers.py with the modes of app/v2_safety_mode.py,*)
(* and the precision filter of app/api/rule_filtering.py.                  *)
(*                                                                         *)
(* Texts are those of SqlSafety.  In `likes`, "short" has less than three  *)
(* characters, "stop" is a stop word of the classifier, "safe" holds an    *)
(* entry of the white list, "word" is another plain word of less than ten  *)
(* characters and "phrase" everything else.                                *)
(***************************************************************************)
EXTENDS SqlSafety, FiniteSets

CONSTANT Nothing   \* no answer, no value

-----------------------------------------------------------------------------
(* RuleSafetyClassifier *)

\* "WHERE 1 = 1" with other blanks and "OR TRUE" are not looked for.
ConstantCondition(s) == s.where = "true"

\* _check_dangerous_pattern
BugDangerous(s) ==
    \/ s.likes \cap {"short", "stop"} # {}
    \/ ConstantCondition(s)

Dangerous(s) ==
    \/ s.likes \cap {"short", "stop"} # {}
    \/ s.n = 1 /\ ~Conjunction(s) /\ s.likes = {"word"}
    \/ ConstantCondition(s)

AllSafe(s) == s.likes = {"safe"}

\* _check_deterministic_safety
BugDeterministicallySafe(s) ==
    /\ s.ors <= 7
    /\ (Conjunction(s) /\ AllSafe(s)) \/ ~ConstantCondition(s)

DeterministicallySafe(s) ==
    /\ s.ors <= 7
    /\ ~Conjunction(s) => s.ors < 3
    /\ s.n = 1 /\ ~Conjunction(s) => AllSafe(s)
    /\ (Conjunction(s) /\ AllSafe(s)) \/ ~ConstantCondition(s)

\* An evaluation that would decide: reading its ham hits raises, the column has
\* another name.
Strong(evaluation) == evaluation.precision >= 95 /\ evaluation.hits >= 10

\* classify_rule_safety; `risk` is what the LLM said of the rule, or Nothing.
SafetyClass(s, risk, evaluations) ==
    IF Dangerous(s) THEN "DANGEROUS"
    ELSE IF ~DeterministicallySafe(s) THEN "REQUIRES_REVIEW"
    ELSE IF \E e \in evaluations : Strong(e) THEN "error"
    ELSE IF risk # Nothing
         THEN IF risk = "low" THEN "AUTO_SAFE" ELSE "REQUIRES_REVIEW"
    ELSE IF AllSafe(s) /\ (Conjunction(s) \/ s.n = 1) THEN "AUTO_SAFE"
    ELSE "REQUIRES_REVIEW"

-----------------------------------------------------------------------------
(* SafetyHeuristics *)

\* Of the stop words these heuristics know only a part: `known` says whether all
\* the stop words of the text are in it.
Downgraded(s, known, riskPercent, confidence, generic) ==
    \/ riskPercent # Nothing /\ riskPercent > 75
    \/ confidence = "LOW"
    \/ generic
    \/ ConstantCondition(s)
    \/ s.n = 1 /\ s.conj = "no"
    \/ s.ors > 5 /\ ~Conjunction(s)
    \/ "short" \in s.likes
    \/ "stop" \in s.likes /\ known

\* filter_insight_only_patterns: of patterns with the text of a rule each.
Actionable(patterns) ==
    {p \in patterns : ~Downgraded(p.sql, p.known, p.risk, p.confidence, p.generic)}

-----------------------------------------------------------------------------
(* Risk of a rule in the API *)

\* detect_aggressive_patterns warns of digits in the pattern and of a bound on
\* the length, once each.
AggressiveWarnings(digits, length) ==
    Cardinality({k \in {1, 2} : IF k = 1 THEN digits ELSE length # Nothing /\ length < 20})

\* create_sql_validator and validate_rule_quality: no engine, no answer; a call
\* that fails is an answer of unknown risk.
ValidatorAnswers(engine) ==
    IF ~engine THEN {Nothing} ELSE {"low", "medium", "high", "unknown"}

\* The warnings that assess_rule_risk adds itself, once a validator is there.
TextWarnings(s, known) ==
    Cardinality({k \in 1..3 : CASE k = 1 -> "short" \in s.likes
                                [] k = 2 -> "stop" \in s.likes /\ known
                                [] k = 3 -> s.ors > 5 /\ ~Conjunction(s)})

\* assess_rule_risk: the class decides, but for a rule to review the LLM's level
\* stands, "low" too; without one the warnings count.
RiskLevel(s, risk, evaluations, warnings) ==
    LET class == SafetyClass(s, risk, evaluations) IN
    CASE class = "AUTO_SAFE" -> "low"
      [] class = "DANGEROUS" -> "high"
      [] class = "REQUIRES_REVIEW" ->
             IF risk \in {Nothing, "unknown"}
             THEN IF warnings >= 2 THEN "high" ELSE "medium"
             ELSE risk
      [] class = "error" -> "error"

-----------------------------------------------------------------------------
(* Quality tiers: spam and ham matched, of `total` ham in the data *)

Tiers == <<"feature_only", "review_only", "safe_auto">>

\* precision >= p percent, and the ham hit rate at most r percent.
Precise(spam, ham, p) == 100 * spam >= p * (spam + ham)
HamRateWithin(ham, total, r) == total = 0 \/ 100 * ham <= r * total

\* classify_pattern_tier
BugTier(spam, ham, total) ==
    IF Precise(spam, ham, 98) /\ spam >= 50 /\ HamRateWithin(ham, total, 1) THEN 3
    ELSE IF Precise(spam, ham, 90) /\ ~Precise(spam, ham, 98) /\ spam >= 20 THEN 2
    ELSE 1

Tier(spam, ham, total) ==
    IF Precise(spam, ham, 98) /\ spam >= 50 /\ HamRateWithin(ham, total, 1) THEN 3
    ELSE IF \/ Precise(spam, ham, 90) /\ ~Precise(spam, ham, 98) /\ spam >= 20
            \/ Precise(spam, ham, 95) /\ HamRateWithin(ham, total, 5)
         THEN 2
    ELSE IF ~Precise(spam, ham, 90) \/ ~HamRateWithin(ham, total, 5) THEN 1
    ELSE 2

\* get_promotion_profile_patterns
ProfilePatterns(patterns, total, profile) ==
    {p \in patterns :
        LET tier == Tier(p.spam, p.ham, total) IN
        \/ tier = 3
        \/ tier = 2 /\ profile = "balanced" /\ Precise(p.spam, p.ham, 95)
        \/ tier = 2 /\ profile = "aggressive"}

\* get_safety_mode_for_profile and can_auto_ban
SafetyMode(profile) ==
    CASE profile = "conservative" -> "conservative"
      [] profile \in {"balanced", "aggressive"} -> "balanced"
      [] OTHER -> "off"

CanAutoBan(tier, mode) == mode = "conservative" /\ Tiers[tier] = "safe_auto"

\* filter_rules_by_precision: a bound given wins over the profile's; without
\* either nothing is left out, with one the rules never evaluated are.
FilteredRules(rules, bound, profile, boundOf) ==
    LET least == IF bound # Nothing THEN bound
                 ELSE IF profile \in DOMAIN boundOf THEN boundOf[profile]
                 ELSE 95
    IN IF bound = Nothing /\ profile = Nothing THEN rules
       ELSE {r \in rules : r.precision # Nothing /\ r.precision >= least}

-----------------------------------------------------------------------------
(* What the checks promise one another *)

\* A text that is true of every message: a condition that always holds, in any of
\* the forms that a check knows, or no condition at all.
AlwaysTrue(s) ==
    \/ s.where \in {"true", "spaced", "or"}
    \/ s.where \in {"none", "joined"} /\ s.likes = {}

\* The class AUTO_SAFE, which the classifier gives, and the heuristics, which run
\* on the same rule in other places, agree on its text: nothing that may run
\* unattended is downgraded, except for being one single condition.  And a text
\* with AUTO_SAFE that is true of every message is refused when it is validated,
\* with the SQL parser or without, save in one form: no WHERE, and something after
\* the table (another table, an alias), of a rule that the LLM called low in risk.
\* validate_sql_rule means to refuse that form too ("empty WHERE, etc.").
ClassesAgree(s, risk, evaluations) ==
    SafetyClass(s, risk, evaluations) = "AUTO_SAFE" =>
        /\ Downgraded(s, TRUE, Nothing, Nothing, FALSE) => s.n = 1 /\ ~Conjunction(s)
        /\ AlwaysTrue(s) => \/ \A mode \in Modes : ~Valid(s, mode)
                            \/ s.where = "joined" /\ risk = "low"

\* With the ham that a pattern matches unchanged and at most 5 % of all ham, more
\* spam never puts it in a lower tier: no bound of one tier leaves a gap that the
\* next one does not close.
MoreSpamNoLower(spam, ham, total) ==
    spam + ham > 0 /\ HamRateWithin(ham, total, 5)
        => Tier(spam, ham, total) <= Tier(spam + 1, ham, total)
=============================================================================
