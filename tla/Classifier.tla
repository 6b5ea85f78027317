------------------------------ MODULE Classifier ------------------------------
(***************************************************************************)
(* What POST /v1/classify says of a text: the patterns of                  *)
(* app/commercial_patterns.py, the model of app/ml_model.py and their      *)
(* combination in app/pipeline.py.  The cache in front of it and its place *)
(* in a request are RequestPath's.                                         *)
(*                                                                         *)
(* Of a text counts which patterns it matches and how often (`found`), its *)
(* length in characters (`length`) and in words (`words`), whether one of  *)
(* the commercial key words is in it (`keyword`) and its emoji (`emoji`).  *)
(* Scores are whole numbers, One for 1.0, such that the means of up to     *)
(* four pattern scores are exact.  Where a float may fall on either side   *)
(* of a bound, both outcomes are possible.                                 *)
(***************************************************************************)
EXTENDS Integers, FiniteSets, Functions

CONSTANT NoModel   \* the model could not be loaded

One == 60000
Thousandths(k) == 60 * k

\* The patterns by the way they score: base, step per match and cap.
Weighted ==
    [buy_sell |-> <<700, 100, 950>>, job_offer |-> <<700, 100, 950>>,
     promotion |-> <<700, 100, 950>>,
     phishing_urgent |-> <<750, 100, 950>>, phishing_verification |-> <<750, 100, 950>>,
     phishing_account_issue |-> <<750, 100, 950>>,
     phishing_payment_request |-> <<750, 100, 950>>,
     service_offer |-> <<500, 100, 850>>, contact_info |-> <<500, 100, 850>>,
     price_mention |-> <<500, 100, 850>>, group_invite |-> <<500, 100, 850>>,
     phishing_credentials |-> <<650, 100, 900>>,
     phishing_suspicious_link |-> <<650, 100, 900>>,
     multiple_urls |-> <<500, 150, 900>>, messenger_link |-> <<500, 150, 900>>,
     phone |-> <<600, 0, 600>>,
     excessive_caps |-> <<550, 0, 550>>, repeated_symbols |-> <<550, 0, 550>>,
     short_commercial |-> <<500, 0, 500>>]

TextRecords ==
    [found: [DOMAIN Weighted -> Nat], length: Nat, words: Nat, keyword: BOOLEAN, emoji: Nat]

Least(x, y) == IF x <= y THEN x ELSE y

PatternScore(p, matches) ==
    Thousandths(Least(Weighted[p][1] + matches * Weighted[p][2], Weighted[p][3]))

\* Four emoji on one line make a match, and all of the text count.
EmojiScore(t) == Thousandths(Least(400 + 30 * t.emoji, 850))

\* The patterns on the length of a text ask for a key word, and skip a long text.
LengthMatches(t) ==
    IF ~t.keyword \/ t.length > 200 THEN 0
    ELSE Cardinality({k \in {1, 2} : IF k = 1 THEN t.length <= 15 ELSE t.words < 5})

-----------------------------------------------------------------------------
(* CommercialPatterns.check *)

Matched(t) == {p \in DOMAIN Weighted : t.found[p] > 0}

MatchCount(t) ==
    Cardinality(Matched(t)) + LengthMatches(t) + IF t.emoji >= 4 THEN 1 ELSE 0

ScoreSum(t) ==
    SumFunction([p \in Matched(t) |-> PatternScore(p, t.found[p])])
        + LengthMatches(t) * Thousandths(500)
        + IF t.emoji >= 4 THEN EmojiScore(t) ELSE 0

\* The mean of the scores, not their maximum.
RuleScore(t) ==
    IF MatchCount(t) = 0 THEN 0
    ELSE Least(ScoreSum(t) \div MatchCount(t), Thousandths(950))

-----------------------------------------------------------------------------
(* The pipeline.  `ml` is the probability that the model gives the text, 0 when *)
(* a prediction fails, or NoModel. *)

\* What a comparison score >= bound may come to.  Most decimal fractions are no
\* floats, so at equality rounding decides.
AtLeast(score, bound) ==
    IF score > bound THEN {TRUE} ELSE IF score = bound THEN {TRUE, FALSE} ELSE {FALSE}

\* Confident rules leave the model out.
Skips(rule, rulesOnly) ==
    IF rulesOnly \/ rule <= Thousandths(200) THEN {TRUE}
    ELSE AtLeast(rule, Thousandths(800))

\* 0.8 of the rules' score and 0.2 of 0.7 of the model's.
Mix(rule, ml) == (80 * rule + 20 * ((70 * ml) \div 100)) \div 100

SpamScore(rule, ml, skip) ==
    IF skip THEN rule
    ELSE Least(IF ml = NoModel THEN rule ELSE Mix(rule, ml), Thousandths(990))

Toxicity(ml, skip) == IF skip \/ ml = NoModel THEN 0 ELSE Least(ml, Thousandths(950))

\* ClassificationPipeline.apply_config keeps a threshold between 0 and 1.
Clamped(threshold) == IF threshold < 0 THEN 0 ELSE Least(threshold, One)

\* A score of exactly 0.4 comes of 0.8 * 0.5 or of 0.5 * 0.8, both exact.
IsSpam(score, threshold) == score >= Clamped(threshold)

\* ClassificationPipeline.classify past the cache: the results it may give.
Results(t, ml, threshold, rulesOnly) ==
    LET rule == RuleScore(t) IN
    UNION {LET score == SpamScore(rule, ml, skip) IN
           {[spam |-> IsSpam(score, threshold), scam |-> scam, score |-> score,
             toxic |-> Toxicity(ml, skip) >= Thousandths(500)] :
                scam \in AtLeast(score, Thousandths(700))} :
           skip \in Skips(rule, rulesOnly)}

-----------------------------------------------------------------------------
\* "Slightly increase ML weight to catch patterns rules might miss", says a comment
\* beside the weights: a text in which the patterns find nothing, and of which the
\* model is certain, may get the label "spam" under a threshold.  This is refuted:
\* without a pattern the score of the rules is 0, which counts as confident and
\* leaves the model out.
ModelCatchesMisses(t, threshold) ==
    MatchCount(t) = 0 => \E r \in Results(t, One, threshold, FALSE) : r.spam
=============================================================================
