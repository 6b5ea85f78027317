SPECIFICATION ShadowSpec
CONSTANTS
    r1 = r1  r2 = r2  r3 = r3
    Rules = {r1, r2, r3}
    SqlOf <- MCSqlOf
    Mode = "regex"
    Qualities = {30, 90}
    MaxRules = 2
    Workers = 3
    Nothing = Nothing
CHECK_DEADLOCK FALSE
INVARIANT EvaluationRecorded
