--------------------------- MODULE MCPatternMining ---------------------------
\* Instances of PatternMining for TLC.
EXTENDS PatternMining, TLC

\* Message 3 is older than message 2: ids and timestamps disagree.
MCStamp == <<10, 30, 20, 40>>
MCFeatureOf == <<"shop", "loan", "shop", "shop">>

TaskSymmetry == Permutations(MiningTasks)
=============================================================================
