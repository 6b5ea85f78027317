-------------------------------- MODULE Analysis --------------------------------
(***************************************************************************)
(* Everything that happens to messages and rules outside of the services,  *)
(* side by side: storing messages (Ingestion), the two-stage pipeline, the *)
(* evaluation in SHADOW and the discovery of rules are machines of their   *)
(* own; judging rules and ranking patterns are checked for every case of a *)
(* set.                                                                    *)
(*                                                                         *)
(* The parts share no state.  `part` says which one moves, the others stay *)
(* in one initial state: nothing is claimed of how their steps interleave. *)
(***************************************************************************)
EXTENDS Ingestion

CONSTANTS
    Nothing,                                                 \* no row, answer, value
    Sqls, Counts,                                            \* the cases
    Tasks, Checkpoints, Finds,                               \* TwoStage
    Rules, SqlOf, Mode, Qualities, MaxRules, Workers,        \* ShadowEvaluation
    Urls, Keywords, Signatures, Proposals, Standalone, Clusters, Concepts, Total,
    MinUrl, MinKeyword, UrlLimit, KeywordLimit, WordLimit,   \* RuleDiscovery
    SpamThreshold, MaxDiscoveries

VARIABLES
    part, case,
    checkpoint, task, did,                      \* TwoStage
    shadow, latest, pass, queue, results,       \* ShadowEvaluation
    known, rules, mining, made, discoveries     \* RuleDiscovery

R == INSTANCE RuleSafety
Stages == INSTANCE TwoStage WITH Absent <- Nothing
Shadow == INSTANCE ShadowEvaluation
Discovery == INSTANCE RuleDiscovery WITH rows <- rules

\* What the cases are.
CasesAssumption ==
    /\ \A q \in Sqls : q.sql \in R!SqlRecords
    /\ Nothing # "LOW"
    /\ Counts \subseteq [spam: Nat, ham: Nat, total: Nat]

ASSUME AnalysisAssumption ==
    /\ Stages!StageAssumption /\ Shadow!ShadowAssumption /\ Discovery!DiscoveryAssumption
    /\ CasesAssumption

stageVars == <<checkpoint, task, did>>
shadowVars == <<shadow, latest, pass, queue, results>>
discoveryVars == <<known, rules, mining, made, discoveries>>
allVars == <<vars, stageVars, shadowVars, discoveryVars, part, case>>

\* The parts that do not run have one initial state.
AnalysisInit ==
    /\ part \in {"ingestion", "sql", "tiers", "stages", "shadow", "discovery"}
    /\ case \in (CASE part = "sql" -> Sqls [] part = "tiers" -> Counts [] OTHER -> {Nothing})
    /\ part # "ingestion" => upsert = TRUE
    /\ part # "stages" => checkpoint = [k \in Checkpoints |-> Nothing]
    /\ part # "shadow" => shadow = <<>> /\ latest = [r \in Rules |-> Nothing]
    /\ Init /\ Stages!StageInit /\ Shadow!ShadowInit /\ Discovery!DiscoveryInit

AnalysisNext ==
    \/ /\ part = "ingestion" /\ Next
       /\ UNCHANGED <<part, case, stageVars, shadowVars, discoveryVars>>
    \/ /\ part = "stages" /\ Stages!StageNext
       /\ UNCHANGED <<part, case, vars, shadowVars, discoveryVars>>
    \/ /\ part = "shadow" /\ Shadow!ShadowNext
       /\ UNCHANGED <<part, case, vars, stageVars, discoveryVars>>
    \/ /\ part = "discovery" /\ Discovery!DiscoveryNext
       /\ UNCHANGED <<part, case, vars, stageVars, shadowVars>>

\* The fairness of Ingestion.
AnalysisSpec ==
    /\ AnalysisInit /\ [][AnalysisNext]_allVars
    /\ \A c \in Calls : WF_vars(part = "ingestion" /\ (Fetch(c) \/ Store(c))
                                /\ UNCHANGED <<part, case, stageVars, shadowVars, discoveryVars>>)

-----------------------------------------------------------------------------
\* The types of all the machines: no step of storing, of either pipeline, of a pass
\* in SHADOW or of discovery leaves the values its code can hold.
AnalysisTypeOK ==
    CASE part = "ingestion" -> TypeOK
      [] part = "stages" -> Stages!StageTypeOK
      [] part = "shadow" -> Shadow!ShadowTypeOK
      [] part = "discovery" -> Discovery!DiscoveryTypeOK
      [] OTHER -> TRUE

\* ClassesAgree of RuleSafety: the classifier of rules and the heuristics agree on a
\* text that is AUTO_SAFE, and the validation refuses it if it is true of every
\* message, but for one form.
AutoSafeAgrees == part = "sql" => R!ClassesAgree(case.sql, case.risk, case.evals)

\* MoreSpamNoLower of RuleSafety: more spam with the same ham never lowers the tier
\* of a pattern.
TierMonotone ==
    part = "tiers" /\ case.ham <= case.total =>
        R!MoreSpamNoLower(case.spam, case.ham, case.total)

\* CompletedMeansBoth of TwoStage: a checkpoint is COMPLETED only after all
\* the work of its pipeline.
CompletedMeansBoth == Stages!CompletedMeansBoth

\* SelectionCovers of ShadowEvaluation: a pass has results for what it chose.
SelectionCovers == Shadow!SelectionCovers

\* DangerousIsDisarmed, ReportedIsStored and InsightHasNoRule of RuleDiscovery: what
\* is dangerous cannot run, what is counted is stored, and an insight stays one.
DangerousIsDisarmed == Discovery!DangerousIsDisarmed
ReportedIsStored == Discovery!ReportedIsStored
InsightHasNoRule == Discovery!InsightHasNoRule
=================================================================================
