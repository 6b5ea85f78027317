----------------------------- MODULE MCClassifier -----------------------------
\* The classification of one text after another, for TLC.
EXTENDS Classifier, TLC

VARIABLE text

\* Two patterns of any weights, few or many matches, short and long.
MCPatterns == {"buy_sell", "job_offer", "phishing_urgent", "service_offer",
               "phishing_credentials", "multiple_urls", "phone", "excessive_caps",
               "short_commercial"}
MCTexts ==
    {[found |-> [q \in DOMAIN Weighted |-> IF q = p1 THEN n1 ELSE IF q = p2 THEN n2 ELSE 0],
      length |-> l, words |-> IF l > 15 THEN 5 ELSE 3, keyword |-> l <= 15, emoji |-> e] :
        p1 \in MCPatterns, p2 \in MCPatterns, n1 \in {0, 1, 4}, n2 \in {0, 1, 4},
        l \in {12, 80}, e \in {0, 4, 20}}

Init == text \in MCTexts
Next == text' \in MCTexts
Spec == Init /\ [][Next]_text

\* ModelCatchesMisses of Classifier under the default threshold, 0.35.
ModelCatches == ModelCatchesMisses(text, Thousandths(350))
===============================================================================
