----------------------------- MODULE MCIngestion -----------------------------
\* Storing by itself: two messages, of which one has an external id.
EXTENDS Ingestion, TLC

CONSTANTS a, bare

MCExt == (a :> "a") @@ (bare :> NoId)
MCBatches == {<<a, bare>>}
===============================================================================
