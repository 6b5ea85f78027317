---------------------------- MODULE RulePromotion ----------------------------
(***************************************************************************)
(* The life of SQL rules: app/v2_rule_lifecycle.py and app/v2_promotion.py *)
(* run by concurrent calls, with the tail of a mining run that moves       *)
(* candidates to shadow (app/v2_pattern_mining.py).                        *)
(*                                                                         *)
(* A task is a call with a database session of its own.  Its session keeps *)
(* the attributes of a rule as it first loaded them (identity map, with    *)
(* expire_on_commit=False), so a check of rule.status in the loop looks at *)
(* the status the rule had when the task listed it: the checks of          *)
(* RuleLifecycleService pass for every rule of the list, and the UPDATE    *)
(* that follows is unconditional.  Steps lie between awaits on the         *)
(* database.  Rule ids grow with created_at.                               *)
(***************************************************************************)
EXTENDS Integers, FiniteSets

CONSTANTS
    Rules,      \* rule ids
    PromotionTasks,      \* concurrent calls
    KindOf,     \* [PromotionTasks -> {"promote", "monitor", "mine"}]
    Evals,      \* the evaluations that may be recorded
    Profile,    \* the aggressiveness profile in force
    NoHolder, NoEval

\* Ratios are in thousandths.  A precision that is None is NoPrecision; None
\* and 0 are one value for the fields the code tests for truth.
NoPrecision == -1

Ratios == 0..1000

Evaluations == [precision: {NoPrecision} \cup Ratios, previous: Ratios, coverage: Ratios,
                hits: Nat, ham: Nat]

Profiles == [min_precision: Ratios, max_coverage: Ratios,
             min_sample_size: Nat, max_ham_hits: Nat]

conservative == [min_precision |-> 950, max_coverage |-> 50,
                 min_sample_size |-> 100, max_ham_hits |-> 5]
balanced == [min_precision |-> 900, max_coverage |-> 100,
             min_sample_size |-> 50, max_ham_hits |-> 10]
aggressive == [min_precision |-> 850, max_coverage |-> 200,
               min_sample_size |-> 30, max_ham_hits |-> 20]

ASSUME PromotionAssumption ==
    /\ Rules \subseteq Nat
    /\ KindOf \in [PromotionTasks -> {"promote", "monitor", "mine"}]
    /\ Evals \subseteq Evaluations
    /\ NoEval \notin Evaluations
    /\ NoHolder \notin PromotionTasks
    /\ Profile \in Profiles

VARIABLES
    status,   \* the rules table: rule -> status, "none" before it is created
    evals,    \* rule -> its latest evaluation
    lock,     \* lock key -> the task that holds it
    at,       \* where a task is
    todo,     \* the rules a task's loop has yet to visit
    read      \* the evaluation a task has in hand

promotionVars == <<status, evals, lock, at, todo, read>>

Statuses == {"none", "candidate", "shadow", "active", "deprecated"}
LockKeys == {"rule_promotion:shadow", "rule_promotion:monitor"}

PromotionTypeOK ==
    /\ status \in [Rules -> Statuses]
    /\ evals \in [Rules -> Evals \cup {NoEval}]
    /\ lock \in [LockKeys -> PromotionTasks \cup {NoHolder}]
    /\ at \in [PromotionTasks -> {"idle", "plock", "promote", "pdecide",
                         "mstart", "mlock", "monitor", "mdecide", "mine"}]
    /\ todo \in [PromotionTasks -> SUBSET Rules]
    /\ read \in [PromotionTasks -> Evals \cup {NoEval}]

PromotionInit ==
    /\ status = [r \in Rules |-> "none"]
    /\ evals = [r \in Rules |-> NoEval]
    /\ lock = [k \in LockKeys |-> NoHolder]
    /\ at = [t \in PromotionTasks |-> "idle"]
    /\ todo = [t \in PromotionTasks |-> {}]
    /\ read = [t \in PromotionTasks |-> NoEval]

-----------------------------------------------------------------------------
(* The thresholds *)

\* _meets_promotion_thresholds
BugMeetsIgnoresPrecision(e) ==
    e.precision # NoPrecision /\ e.hits >= Profile.min_sample_size
MeetsPromotionThresholds(e) ==
    /\ e.precision # NoPrecision
    /\ e.precision >= Profile.min_precision
    /\ e.coverage <= Profile.max_coverage
    /\ e.hits >= Profile.min_sample_size
    /\ Profile.max_ham_hits # 0 => e.ham <= Profile.max_ham_hits

\* (previous - precision) / previous > 0.10
Drifted(e) == e.previous > 0 /\ 10 * (e.previous - e.precision) > e.previous

\* _shows_degradation
ShowsDegradation(e) ==
    /\ e.precision # NoPrecision
    /\ \/ e.precision < Profile.min_precision
       \/ Drifted(e)
       \/ Profile.max_ham_hits # 0 /\ e.ham > Profile.max_ham_hits
       \/ e.coverage > 2 * Profile.max_coverage

-----------------------------------------------------------------------------
(* The rest of the system *)

\* RuleLifecycleService.create_candidate_rule
CreateCandidate(r) ==
    /\ status[r] = "none"
    /\ \A q \in Rules : q < r => status[q] # "none"
    /\ status' = [status EXCEPT ![r] = "candidate"]
    /\ UNCHANGED <<evals, lock, at, todo, read>>

\* RuleEvaluationRepository.create, by whoever evaluates rules: a newer evaluation
\* of a shadow or active rule.  (ShadowEvaluation models evaluate_rule itself.)
RecordEvaluation(r, e) ==
    /\ status[r] \in {"shadow", "active"}
    /\ e # evals[r]
    /\ evals' = [evals EXCEPT ![r] = e]
    /\ UNCHANGED <<status, lock, at, todo, read>>

-----------------------------------------------------------------------------
(* promote_shadow_rules, then monitor_active_rules: POST /rules/promote and *)
(* `promote-rules`                                                          *)

WithStatus(s) == {r \in Rules : status[r] = s}

\* get_by_status orders by created_at, newest first.
IsNext(t, r) == r \in todo[t] /\ \A q \in todo[t] : q <= r

\* The lock that acquire() hands out when it is free.
Acquire(t, key, there) ==
    /\ lock[key] = NoHolder
    /\ lock' = [lock EXCEPT ![key] = t]
    /\ at' = [at EXCEPT ![t] = there]

StartPromote(t) ==
    /\ at[t] = "idle" /\ KindOf[t] = "promote"
    /\ \/ Acquire(t, "rule_promotion:shadow", "plock")
       \/ /\ lock["rule_promotion:shadow"] # NoHolder   \* already in progress
          /\ at' = [at EXCEPT ![t] = "mstart"]
          /\ UNCHANGED lock
    /\ UNCHANGED <<status, evals, todo, read>>

\* The async with block ends; then the shadow rules are listed.
ListShadow(t) ==
    /\ at[t] = "plock"
    /\ lock' = [lock EXCEPT !["rule_promotion:shadow"] = NoHolder]
    /\ todo' = [todo EXCEPT ![t] = WithStatus("shadow")]
    /\ at' = [at EXCEPT ![t] = "promote"]
    /\ UNCHANGED <<status, evals, read>>

\* get_latest_for_rule; a rule without evaluation is passed over.
ReadForPromotion(t, r) ==
    /\ at[t] = "promote" /\ IsNext(t, r)
    /\ \/ /\ evals[r] # NoEval
          /\ read' = [read EXCEPT ![t] = evals[r]]
          /\ at' = [at EXCEPT ![t] = "pdecide"]
          /\ UNCHANGED todo
       \/ /\ evals[r] = NoEval
          /\ todo' = [todo EXCEPT ![t] = @ \ {r}]
          /\ UNCHANGED <<at, read>>
    /\ UNCHANGED <<status, evals, lock>>

\* What the format string of the log message that follows a decision does: its
\* conditional is taken for a format specifier, which raises, and the call ends.
RaiseFromLogging(t) ==
    /\ at' = [at EXCEPT ![t] = "idle"]
    /\ todo' = [todo EXCEPT ![t] = {}]
    /\ read' = [read EXCEPT ![t] = NoEval]

\* promote_to_active: the check sees the listed status, the UPDATE commits.
PromotedStatus == "active"

Promote(t, r) ==
    /\ at[t] = "pdecide" /\ IsNext(t, r)
    /\ MeetsPromotionThresholds(read[t])
    /\ status' = [status EXCEPT ![r] = PromotedStatus]
    /\ RaiseFromLogging(t)
    /\ UNCHANGED <<evals, lock>>

Reject(t, r) ==
    /\ at[t] = "pdecide" /\ IsNext(t, r)
    /\ ~MeetsPromotionThresholds(read[t])
    /\ RaiseFromLogging(t)
    /\ UNCHANGED <<status, evals, lock>>

PromotionDone(t) ==
    /\ at[t] = "promote" /\ todo[t] = {}
    /\ at' = [at EXCEPT ![t] = "mstart"]
    /\ UNCHANGED <<status, evals, lock, todo, read>>

\* `promote-rules --monitor-only`
StartMonitor(t) ==
    /\ at[t] = "idle" /\ KindOf[t] = "monitor"
    /\ at' = [at EXCEPT ![t] = "mstart"]
    /\ UNCHANGED <<status, evals, lock, todo, read>>

LockMonitor(t) ==
    /\ at[t] = "mstart"
    /\ \/ Acquire(t, "rule_promotion:monitor", "mlock")
       \/ /\ lock["rule_promotion:monitor"] # NoHolder
          /\ at' = [at EXCEPT ![t] = "idle"]
          /\ UNCHANGED lock
    /\ UNCHANGED <<status, evals, todo, read>>

ListActive(t) ==
    /\ at[t] = "mlock"
    /\ lock' = [lock EXCEPT !["rule_promotion:monitor"] = NoHolder]
    /\ todo' = [todo EXCEPT ![t] = WithStatus("active")]
    /\ at' = [at EXCEPT ![t] = "monitor"]
    /\ UNCHANGED <<status, evals, read>>

\* The loop goes on after a rule it keeps.
BugStopsAtFirstKept(t, r) == {}
AfterKeeping(t, r) == todo[t] \ {r}

ReadForMonitoring(t, r) ==
    /\ at[t] = "monitor" /\ IsNext(t, r)
    /\ \/ /\ evals[r] # NoEval /\ ShowsDegradation(evals[r])
          /\ read' = [read EXCEPT ![t] = evals[r]]
          /\ at' = [at EXCEPT ![t] = "mdecide"]
          /\ UNCHANGED todo
       \/ /\ evals[r] = NoEval \/ ~ShowsDegradation(evals[r])
          /\ todo' = [todo EXCEPT ![t] = AfterKeeping(t, r)]
          /\ UNCHANGED <<at, read>>
    /\ UNCHANGED <<status, evals, lock>>

\* deprecate_rule: from any status.
BugUnknownStatus == "retired"
DeprecatedStatus == "deprecated"

Deprecate(t, r) ==
    /\ at[t] = "mdecide" /\ IsNext(t, r)
    /\ status' = [status EXCEPT ![r] = DeprecatedStatus]
    /\ todo' = [todo EXCEPT ![t] = @ \ {r}]
    /\ read' = [read EXCEPT ![t] = NoEval]
    /\ at' = [at EXCEPT ![t] = "monitor"]
    /\ UNCHANGED <<evals, lock>>

LoopDone(t) ==
    /\ at[t] \in {"monitor", "mine"} /\ todo[t] = {}
    /\ at' = [at EXCEPT ![t] = "idle"]
    /\ UNCHANGED <<status, evals, lock, todo, read>>

-----------------------------------------------------------------------------
(* The automatic evaluation at the end of mine_patterns *)

\* The rules an automatic evaluation starts from.
BugListsActiveToo == WithStatus("candidate") \cup WithStatus("active")
CandidateRules == WithStatus("candidate")

\* candidate_rules[-rules_created:] of a list that is newest first: the oldest.
ListCandidates(t) ==
    /\ at[t] = "idle" /\ KindOf[t] = "mine"
    /\ \E S \in SUBSET CandidateRules :
          /\ S # {}
          /\ \A r \in S, q \in CandidateRules \ S : r < q
          /\ todo' = [todo EXCEPT ![t] = S]
    /\ at' = [at EXCEPT ![t] = "mine"]
    /\ UNCHANGED <<status, evals, lock, read>>

\* move_to_shadow: the check sees the listed status.
BugSkipsShadow == "active"
EvaluatedStatus == "shadow"

MoveToShadow(t, r) ==
    /\ at[t] = "mine" /\ IsNext(t, r)
    /\ status' = [status EXCEPT ![r] = EvaluatedStatus]
    /\ todo' = [todo EXCEPT ![t] = @ \ {r}]
    /\ UNCHANGED <<evals, lock, at, read>>

-----------------------------------------------------------------------------
VisitRule(t, r) ==
    \/ ReadForPromotion(t, r) \/ Promote(t, r) \/ Reject(t, r)
    \/ ReadForMonitoring(t, r) \/ Deprecate(t, r)
    \/ MoveToShadow(t, r)

\* A task gets on with the call it is in.
Continue(t) ==
    \/ \E r \in Rules : VisitRule(t, r)
    \/ ListShadow(t) \/ PromotionDone(t)
    \/ LockMonitor(t) \/ ListActive(t) \/ LoopDone(t)

Start(t) == StartPromote(t) \/ StartMonitor(t) \/ ListCandidates(t)

PromotionNext ==
    \/ \E r \in Rules : CreateCandidate(r)
    \/ \E r \in Rules, e \in Evals : RecordEvaluation(r, e)
    \/ \E t \in PromotionTasks : Start(t) \/ Continue(t)

PromotionSpec == PromotionInit /\ [][PromotionNext]_promotionVars

\* Every call that started goes on, and calls are made again and again.
PromotionFairSpec == PromotionSpec /\ \A t \in PromotionTasks : WF_promotionVars(Continue(t)) /\ WF_promotionVars(Start(t))

-----------------------------------------------------------------------------
\* candidate -> shadow -> active -> deprecated, and nothing back: the state
\* machine of v2_rule_lifecycle.py.
LegalTransitions ==
    [][\A r \in Rules :
         status'[r] # status[r] =>
            <<status[r], status'[r]>> \in
                {<<"none", "candidate">>, <<"candidate", "shadow">>,
                 <<"shadow", "active">>}
                \cup {"candidate", "shadow", "active"} \X {"deprecated"}]_promotionVars

\* However calls overlap, a rule in production was evaluated.
ActiveWasEvaluated == \A r \in WithStatus("active") : evals[r] # NoEval

\* A promotion never rests on an evaluation for which the monitor deprecates:
\* the two sets of thresholds agree.
NoPromotionOfDegraded ==
    [][\A t \in PromotionTasks, r \in Rules :
         Promote(t, r) => ~ShowsDegradation(read[t])]_promotionVars

Degraded(r) ==
    status[r] = "active" /\ evals[r] # NoEval /\ ShowsDegradation(evals[r])

\* A rule in production whose latest evaluation shows degradation is deprecated,
\* or evaluated better: what POST /rules/promote and promote-rules are for.
DegradedRuleLeaves == \A r \in Rules : []<>~Degraded(r)
=============================================================================
