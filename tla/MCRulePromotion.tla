--------------------------- MODULE MCRulePromotion ---------------------------
\* Instances of RulePromotion for TLC.
EXTENDS RulePromotion, TLC

CONSTANTS p1, p2, m1, n1, n2

Kinds(S) == [t \in S |-> IF t \in {p1, p2} THEN "promote"
                         ELSE IF t = m1 THEN "monitor" ELSE "mine"]
MCKindOf == Kinds(PromotionTasks)

\* One evaluation for each way the thresholds of the balanced profile go: at
\* every limit at once, imprecise, too few hits, and broad enough to be refused
\* but not to be deprecated.
edge      == [precision |-> 900, previous |-> 1000, coverage |-> 100, hits |-> 50, ham |-> 10]
imprecise == [precision |-> 700, previous |-> 990, coverage |-> 20, hits |-> 60, ham |-> 18]
scarce    == [precision |-> 990, previous |-> 0, coverage |-> 1, hits |-> 3, ham |-> 0]
broad     == [precision |-> 950, previous |-> 900, coverage |-> 150, hits |-> 60, ham |-> 3]

AllKinds == {edge, imprecise, scarce, broad}
GoodOrBad == {edge, imprecise}
=============================================================================
