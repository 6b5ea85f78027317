SPECIFICATION PromotionFairSpec
CONSTANTS
    p1 = p1  p2 = p2  m1 = m1  n1 = n1  n2 = n2
    Rules = {1, 2}
    PromotionTasks = {p1, n1}
    KindOf <- MCKindOf
    Evals <- GoodOrBad
    Profile <- balanced
    NoHolder = NoHolder
    NoEval = NoEval
PROPERTY DegradedRuleLeaves
