-------------------------------- MODULE MCReads -------------------------------
\* The instance of Reads for TLC: the embedding cache while the clock stands still
\* and everything fails, the cache of LLM results and the lists of the API; and,
\* as one part more, the embedding cache over three TTLs.
EXTENDS Reads, TLC

CONSTANTS p, q, c1, c2, a, b, v1, v2, r1, r2, r3

\* Two calls, in processes of their own or in one; a list may name a text twice.
MCApart == (c1 :> p) @@ (c2 :> q)
MCTogether == (c1 :> p) @@ (c2 :> p)
MCRequests == {<<a>>, <<b>>, <<a, b, a>>}
MCOneText == {<<a>>}

\* Two of three rules have the same text.
MCSqlOf == (r1 :> a) @@ (r2 :> a) @@ (r3 :> b)

Slow == INSTANCE EmbeddingCache WITH
    ProcOf <- MCTogether, Requests <- MCOneText,
    Faults <- {"redis", "sqlite"}, MaxTime <- 6

\* At first the rules differ in created_at, r1 is older than r2, none is deprecated
\* and all but r2 are precise.
MCRules ==
    /\ \A r \in Api!There(None) : ~Api!Tied(r)
    /\ Api!There("deprecated") = {}
    /\ {r1, r2} \subseteq Api!There(None) => rule[r1].stamp < rule[r2].stamp
    /\ rule[r1].precise /\ rule[r3].precise

\* q has no part in "slow".
MCInit ==
    \/ ReadsInit /\ (part = "api" => MCRules)
    \/ /\ part = "slow" /\ Init /\ ~client[q] /\ NoRules
       /\ Results!ResultInit /\ online = [r \in Procs |-> FALSE]

MCNext ==
    \/ ReadsNext
    \/ part = "slow" /\ Slow!Next /\ UNCHANGED <<resultVars, apiVars, part>>

MCSpec == MCInit /\ [][MCNext]_allVars
===============================================================================
