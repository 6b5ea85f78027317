------------------------------- MODULE MCShadow -------------------------------
\* A pass over the rules in SHADOW by itself: three rules of which one names its
\* table and two another one, room for two of them.
EXTENDS ShadowEvaluation, TLC

CONSTANTS r1, r2, r3

PlainSql == [head |-> "select", has |-> {}, tables |-> <<"messages">>, columns |-> {"id"},
             refs |-> {"text", "lower"}, where |-> "conds", likes |-> {"safe"}, n |-> 1,
             ors |-> 0, conj |-> "no"]
MCSqlOf == [r \in Rules |->
               IF r = r1 THEN PlainSql ELSE [PlainSql EXCEPT !.tables = <<"users">>]]

===============================================================================
