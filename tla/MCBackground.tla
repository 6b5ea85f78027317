---------------------------- MODULE MCBackground -----------------------------
\* Instances for TLC of what runs in the background: mining over checkpoints
\* (PatternMining), or the lock while everything around it fails (DistributedLock).
EXTENDS MCPatternMining, MCDistributedLock

VARIABLE part

\* The part that does not run stays in its initial state.
MCInit == part \in {"mining", "faults"} /\ MiningInit /\ Init

MCNext ==
    \/ part = "mining" /\ MiningNext /\ UNCHANGED <<vars, part>>
    \/ part = "faults" /\ Next /\ UNCHANGED <<miningVars, part>>

MCSpec == MCInit /\ [][MCNext]_<<vars, miningVars, part>>
=============================================================================
