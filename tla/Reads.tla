--------------------------------- MODULE Reads ---------------------------------
(***************************************************************************)
(* Everything that is read while it changes, side by side: the cache of    *)
(* embeddings (EmbeddingCache), the cache of LLM results (ResultCache) and *)
(* the lists of rules that the API answers with (PatasApi).                *)
(*                                                                         *)
(* The parts share no state.  `part` says which one moves, the others stay *)
(* in one initial state: nothing is claimed of how their steps interleave. *)
(***************************************************************************)
EXTENDS EmbeddingCache

CONSTANTS
    Payloads, Versions, Default, ResultTTL, ResultTime,                    \* ResultCache
    Rules, SqlOf, Limit, SummaryLimit, ExportLimit, MaxStamp, MaxChanges   \* PatasApi

VARIABLES
    part,
    now, model, online, inRedis, inSqlite, asking, served,   \* ResultCache
    rule, changes, request                                   \* PatasApi

Results == INSTANCE ResultCache WITH TTL <- ResultTTL, MaxTime <- ResultTime
Api == INSTANCE PatasApi WITH All <- None

ASSUME ReadsAssumption == Results!ResultAssumption /\ Api!ApiAssumption

resultVars == <<now, model, online, inRedis, inSqlite, asking, served>>
apiVars == <<rule, changes, request>>
allVars == <<vars, resultVars, apiVars, part>>

\* Without a table of rules there is nothing to list.
NoRules ==
    /\ rule = [r \in Rules |-> [status |-> "none", stamp |-> 0, precise |-> TRUE]]
    /\ changes = 0 /\ request = Api!Idle

\* The parts that do not run have one initial state.
ReadsInit ==
    /\ part \in {"embeddings", "results", "api"}
    /\ Init /\ (part # "embeddings" => client = [p \in Procs |-> FALSE])
    /\ Results!ResultInit /\ (part # "results" => online = [p \in Procs |-> FALSE])
    /\ IF part = "api" THEN Api!ApiInit ELSE NoRules

ReadsNext ==
    \/ part = "embeddings" /\ Next /\ UNCHANGED <<resultVars, apiVars, part>>
    \/ part = "results" /\ Results!ResultNext /\ UNCHANGED <<vars, apiVars, part>>
    \/ part = "api" /\ Api!ApiNext /\ UNCHANGED <<vars, resultVars, part>>

ReadsSpec == ReadsInit /\ [][ReadsNext]_allVars

-----------------------------------------------------------------------------
\* The types of both caches, of the rules and of what their readers hold: no step of
\* a call, another process or another client leaves the values the code can hold.
ReadsTypeOK == TypeOK /\ Results!ResultTypeOK /\ Api!ApiTypeOK

\* ResultOfOwnVersion and ResultFresh of ResultCache: a result belongs to the model
\* version it is served for, and is not older than one TTL.
ResultOfOwnVersion == Results!ResultOfOwnVersion
ResultFresh == Results!ResultFresh

\* ReadsMissNothing of PatasApi: walks and analyses show the rules that stay.
ReadsMissNothing == Api!ReadsMissNothing
================================================================================
