------------------------- MODULE RulePromotionProofs -------------------------
(***************************************************************************)
(* What RulePromotion guarantees for any rules, any mix of overlapping     *)
(* calls, any evaluations and any profile.                                 *)
(***************************************************************************)
EXTENDS RulePromotion, TLAPS

USE DEF PromotedStatus, DeprecatedStatus, EvaluatedStatus, CandidateRules, AfterKeeping

-----------------------------------------------------------------------------
(* Type correctness *)

LEMMA PromotionInitType == PromotionAssumption /\ PromotionInit => PromotionTypeOK
BY DEF PromotionInit, PromotionTypeOK, PromotionAssumption, Statuses

LEMMA PromotionStepType ==
    ASSUME PromotionAssumption, PromotionTypeOK, [PromotionNext]_promotionVars
    PROVE  PromotionTypeOK'
<1> USE DEF PromotionAssumption, PromotionTypeOK, Statuses
<1>1. ASSUME NEW r \in Rules, CreateCandidate(r) PROVE PromotionTypeOK'
    BY <1>1 DEF CreateCandidate
<1>2. ASSUME NEW r \in Rules, NEW e \in Evals, RecordEvaluation(r, e) PROVE PromotionTypeOK'
    BY <1>2 DEF RecordEvaluation
<1>3. ASSUME NEW t \in PromotionTasks, StartPromote(t) PROVE PromotionTypeOK'
    BY <1>3 DEF StartPromote, Acquire
<1>4. ASSUME NEW t \in PromotionTasks, StartMonitor(t) PROVE PromotionTypeOK'
    BY <1>4 DEF StartMonitor
<1>5. ASSUME NEW t \in PromotionTasks, ListCandidates(t) PROVE PromotionTypeOK'
    BY <1>5 DEF ListCandidates, WithStatus
<1>6. ASSUME NEW t \in PromotionTasks, ListShadow(t) \/ ListActive(t) PROVE PromotionTypeOK'
    BY <1>6 DEF ListShadow, ListActive, WithStatus
<1>7. ASSUME NEW t \in PromotionTasks, PromotionDone(t) \/ LoopDone(t) PROVE PromotionTypeOK'
    BY <1>7 DEF PromotionDone, LoopDone
<1>8. ASSUME NEW t \in PromotionTasks, LockMonitor(t) PROVE PromotionTypeOK'
    BY <1>8 DEF LockMonitor, Acquire
<1>9. ASSUME NEW t \in PromotionTasks, NEW r \in Rules, ReadForPromotion(t, r) PROVE PromotionTypeOK'
    BY <1>9 DEF ReadForPromotion
<1>10. ASSUME NEW t \in PromotionTasks, NEW r \in Rules, Promote(t, r) \/ Reject(t, r)
       PROVE  PromotionTypeOK'
    BY <1>10 DEF Promote, Reject, RaiseFromLogging
<1>11. ASSUME NEW t \in PromotionTasks, NEW r \in Rules, ReadForMonitoring(t, r) PROVE PromotionTypeOK'
    BY <1>11 DEF ReadForMonitoring
<1>12. ASSUME NEW t \in PromotionTasks, NEW r \in Rules, Deprecate(t, r) PROVE PromotionTypeOK'
    BY <1>12 DEF Deprecate
<1>13. ASSUME NEW t \in PromotionTasks, NEW r \in Rules, MoveToShadow(t, r) PROVE PromotionTypeOK'
    BY <1>13 DEF MoveToShadow
<1>14. CASE UNCHANGED promotionVars
    BY <1>14 DEF promotionVars
<1> QED
    BY <1>1, <1>2, <1>3, <1>4, <1>5, <1>6, <1>7, <1>8, <1>9, <1>10, <1>11,
       <1>12, <1>13, <1>14 DEF PromotionNext, Start, Continue, VisitRule

\* Every variable keeps its type under any overlap of calls.
THEOREM PromotionTypeCorrect == PromotionAssumption /\ PromotionSpec => []PromotionTypeOK
<1> SUFFICES ASSUME PromotionAssumption PROVE PromotionSpec => []PromotionTypeOK
    OBVIOUS
<1>1. PromotionInit => PromotionTypeOK
    BY PromotionInitType
<1>2. PromotionTypeOK /\ [PromotionNext]_promotionVars => PromotionTypeOK'
    BY PromotionStepType
<1> QED
    BY <1>1, <1>2, PTL DEF PromotionSpec

-----------------------------------------------------------------------------
(* A rule in production was evaluated *)

\* The rule a promotion is about to decide has an evaluation already: evaluations
\* are replaced but never taken away.
DecidedWasEvaluated ==
    \A t \in PromotionTasks, r \in Rules :
        at[t] = "pdecide" /\ IsNext(t, r) => evals[r] # NoEval

EvaluatedInv == ActiveWasEvaluated /\ DecidedWasEvaluated

LEMMA EvaluationsStay ==
    ASSUME PromotionAssumption, PromotionTypeOK, [PromotionNext]_promotionVars, NEW r \in Rules,
           evals[r] # NoEval
    PROVE  evals'[r] # NoEval
<1>1. ASSUME NEW q \in Rules, NEW e \in Evals, RecordEvaluation(q, e)
      PROVE  evals'[r] # NoEval
    BY <1>1 DEF RecordEvaluation, PromotionAssumption, PromotionTypeOK
<1>2. ASSUME UNCHANGED evals PROVE evals'[r] # NoEval
    BY <1>2
<1> QED
    BY <1>1, <1>2
    DEF PromotionNext, Start, Continue, VisitRule, promotionVars, CreateCandidate, StartPromote,
        StartMonitor, ListCandidates, ListShadow, ListActive, PromotionDone,
        LoopDone, LockMonitor, ReadForPromotion, Promote, Reject,
        ReadForMonitoring, Deprecate, MoveToShadow

\* A rule becomes active by a promotion only, and the promotion decided on it.
LEMMA ActivatedByPromotion ==
    ASSUME PromotionTypeOK, [PromotionNext]_promotionVars, NEW r \in Rules,
           status[r] # "active", status'[r] = "active"
    PROVE  \E t \in PromotionTasks : at[t] = "pdecide" /\ IsNext(t, r)
<1>1. ASSUME NEW t \in PromotionTasks, NEW q \in Rules, Promote(t, q)
      PROVE  at[t] = "pdecide" /\ IsNext(t, r)
    BY <1>1 DEF Promote, PromotionTypeOK
<1>2. ASSUME NEW q \in Rules, CreateCandidate(q) PROVE FALSE
    BY <1>2 DEF CreateCandidate, PromotionTypeOK
<1>3. ASSUME NEW t \in PromotionTasks, NEW q \in Rules, Deprecate(t, q) \/ MoveToShadow(t, q)
      PROVE  FALSE
    BY <1>3 DEF Deprecate, MoveToShadow, PromotionTypeOK
<1>4. ASSUME UNCHANGED status PROVE FALSE
    BY <1>4
<1> QED
    BY <1>1, <1>2, <1>3, <1>4
    DEF PromotionNext, Start, Continue, VisitRule, promotionVars, RecordEvaluation, StartPromote,
        StartMonitor, ListCandidates, ListShadow, ListActive, PromotionDone,
        LoopDone, LockMonitor, ReadForPromotion, Reject, ReadForMonitoring

\* A task comes to a decision by reading an evaluation, and nothing changes its
\* list until it has decided.
LEMMA DecisionAfterRead ==
    ASSUME PromotionAssumption, PromotionTypeOK, [PromotionNext]_promotionVars, NEW t \in PromotionTasks, NEW r \in Rules,
           at'[t] = "pdecide", IsNext(t, r)'
    PROVE  \/ evals[r] # NoEval
           \/ at[t] = "pdecide" /\ IsNext(t, r)
<1> USE DEF PromotionTypeOK
<1>1. ASSUME NEW u \in PromotionTasks, NEW q \in Rules, ReadForPromotion(u, q)
      PROVE  \/ evals[r] # NoEval
             \/ at[t] = "pdecide" /\ IsNext(t, r)
    <2>1. CASE u # t
        BY <1>1, <2>1 DEF ReadForPromotion, IsNext
    <2>2. CASE u = t
        <3>1. evals[q] # NoEval /\ todo' = todo /\ IsNext(t, q)
            BY <1>1, <2>2 DEF ReadForPromotion
        <3>2. r \in todo[t] /\ q \in todo[t] /\ r <= q /\ q <= r
            BY <3>1 DEF IsNext
        <3>3. r = q
            BY <3>2 DEF PromotionAssumption
        <3> QED
            BY <3>1, <3>3
    <2> QED
        BY <2>1, <2>2
<1>2. ASSUME UNCHANGED <<at, todo>> PROVE at[t] = "pdecide" /\ IsNext(t, r)
    BY <1>2 DEF IsNext
<1>3. ASSUME NEW u \in PromotionTasks, StartPromote(u) \/ StartMonitor(u) \/ ListCandidates(u)
      PROVE  at[t] = "pdecide" /\ IsNext(t, r)
    BY <1>3 DEF StartPromote, StartMonitor, ListCandidates, Acquire, IsNext
<1>4. ASSUME NEW u \in PromotionTasks, \/ ListShadow(u) \/ PromotionDone(u) \/ LockMonitor(u)
                              \/ ListActive(u) \/ LoopDone(u)
      PROVE  at[t] = "pdecide" /\ IsNext(t, r)
    BY <1>4 DEF ListShadow, PromotionDone, LockMonitor, ListActive, LoopDone,
                Acquire, IsNext
<1>5. ASSUME NEW u \in PromotionTasks, NEW q \in Rules, Promote(u, q) \/ Reject(u, q)
      PROVE  at[t] = "pdecide" /\ IsNext(t, r)
    BY <1>5 DEF Promote, Reject, RaiseFromLogging, IsNext
<1>6. ASSUME NEW u \in PromotionTasks, NEW q \in Rules,
             ReadForMonitoring(u, q) \/ Deprecate(u, q) \/ MoveToShadow(u, q)
      PROVE  at[t] = "pdecide" /\ IsNext(t, r)
    BY <1>6 DEF ReadForMonitoring, Deprecate, MoveToShadow, IsNext
<1> QED
    BY <1>1, <1>2, <1>3, <1>4, <1>5, <1>6
    DEF PromotionNext, Start, Continue, VisitRule, promotionVars, CreateCandidate, RecordEvaluation

LEMMA StepEvaluated ==
    ASSUME PromotionAssumption, PromotionTypeOK, EvaluatedInv, [PromotionNext]_promotionVars
    PROVE  EvaluatedInv'
<1>1. ActiveWasEvaluated'
    <2> SUFFICES ASSUME NEW r \in Rules, status'[r] = "active"
                 PROVE  evals'[r] # NoEval
        BY DEF ActiveWasEvaluated, WithStatus
    <2>1. evals[r] # NoEval
        BY ActivatedByPromotion
        DEF EvaluatedInv, ActiveWasEvaluated, WithStatus, DecidedWasEvaluated
    <2> QED
        BY <2>1, EvaluationsStay
<1>2. DecidedWasEvaluated'
    <2> SUFFICES ASSUME NEW t \in PromotionTasks, NEW r \in Rules,
                        at'[t] = "pdecide", IsNext(t, r)'
                 PROVE  evals'[r] # NoEval
        BY DEF DecidedWasEvaluated
    <2>1. evals[r] # NoEval
        BY DecisionAfterRead DEF EvaluatedInv, DecidedWasEvaluated
    <2> QED
        BY <2>1, EvaluationsStay
<1> QED
    BY <1>1, <1>2 DEF EvaluatedInv

\* No overlap of promotions, monitors and mining runs puts a rule into production
\* that was never evaluated.
THEOREM NoUnevaluatedActive == PromotionAssumption /\ PromotionSpec => []ActiveWasEvaluated
<1> SUFFICES ASSUME PromotionAssumption PROVE PromotionSpec => []ActiveWasEvaluated
    OBVIOUS
<1>1. PromotionInit => PromotionTypeOK /\ EvaluatedInv
    BY PromotionInitType
    DEF PromotionInit, EvaluatedInv, ActiveWasEvaluated, WithStatus, DecidedWasEvaluated
<1>2. PromotionTypeOK /\ EvaluatedInv /\ [PromotionNext]_promotionVars => (PromotionTypeOK /\ EvaluatedInv)'
    BY PromotionStepType, StepEvaluated
<1>3. EvaluatedInv => ActiveWasEvaluated
    BY DEF EvaluatedInv
<1> QED
    BY <1>1, <1>2, <1>3, PTL DEF PromotionSpec

-----------------------------------------------------------------------------
(* The thresholds agree *)

\* A ratio is a number of thousandths between 0 and 1.
LEMMA RatioBounds == \A n \in Ratios : n \in Nat /\ n <= 1000
BY DEF Ratios

\* With a minimum precision of 0.9, an evaluation that meets the promotion
\* thresholds cannot have drifted by more than 10 %: precision is at most 1.
LEMMA ThresholdsAgree ==
    ASSUME PromotionAssumption, Profile.min_precision >= 900,
           NEW e \in Evaluations, MeetsPromotionThresholds(e)
    PROVE  ~ShowsDegradation(e)
<1>1. /\ e.precision \in Nat
      /\ e.previous \in Nat /\ e.previous <= 1000
      /\ e.coverage \in Nat /\ e.hits \in Nat /\ e.ham \in Nat
    <2>1. /\ e.precision \in Ratios /\ e.previous \in Ratios /\ e.coverage \in Ratios
          /\ e.hits \in Nat /\ e.ham \in Nat
        BY DEF Evaluations, MeetsPromotionThresholds
    <2> QED
        BY <2>1, RatioBounds
<1>2. /\ Profile.min_precision \in Nat /\ Profile.max_coverage \in Nat
      /\ Profile.min_sample_size \in Nat /\ Profile.max_ham_hits \in Nat
    <2>1. Profile.min_precision \in Ratios /\ Profile.max_coverage \in Ratios
        BY DEF PromotionAssumption, Profiles
    <2> QED
        BY <2>1, RatioBounds DEF PromotionAssumption, Profiles
<1>3. e.precision >= 900 /\ e.coverage <= Profile.max_coverage
    <2>1. /\ e.precision >= Profile.min_precision
          /\ e.coverage <= Profile.max_coverage
        BY DEF MeetsPromotionThresholds
    <2>2. ASSUME NEW p \in Int, NEW m \in Int, p >= m, m >= 900 PROVE p >= 900
        BY <2>2
    <2> QED
        BY <1>1, <1>2, <2>1, <2>2
<1>4. ~Drifted(e)
    <2>1. ASSUME NEW p \in Nat, NEW q \in Nat, p >= 900, q <= 1000
          PROVE  ~(10 * (q - p) > q)
        BY <2>1
    <2> QED
        BY <1>1, <1>3, <2>1 DEF Drifted
<1>5. ~(e.coverage > 2 * Profile.max_coverage)
    <2>1. ASSUME NEW c \in Nat, NEW m \in Nat, c <= m PROVE ~(c > 2 * m)
        BY <2>1
    <2> QED
        BY <1>1, <1>2, <1>3, <2>1
<1>6. ~(e.precision < Profile.min_precision)
    BY <1>1, <1>2 DEF MeetsPromotionThresholds
<1>7. ~(Profile.max_ham_hits # 0 /\ e.ham > Profile.max_ham_hits)
    BY <1>1, <1>2 DEF MeetsPromotionThresholds
<1> QED
    BY <1>4, <1>5, <1>6, <1>7 DEF ShowsDegradation

\* With the conservative or the balanced profile -- any with a minimum precision of
\* 0.9 -- a promotion never rests on an evaluation for which the next monitor
\* deprecates the rule.
THEOREM PromotionsAgreeWithMonitor ==
    PromotionAssumption /\ Profile.min_precision >= 900 /\ PromotionSpec => NoPromotionOfDegraded
<1> SUFFICES ASSUME PromotionAssumption, Profile.min_precision >= 900
             PROVE  PromotionSpec => NoPromotionOfDegraded
    OBVIOUS
<1> DEFINE ReadInv == \A t \in PromotionTasks : at[t] = "pdecide" => read[t] # NoEval
<1>1. PromotionInit => PromotionTypeOK /\ ReadInv
    BY PromotionInitType DEF PromotionInit
<1>2. PromotionTypeOK /\ ReadInv /\ [PromotionNext]_promotionVars => (PromotionTypeOK /\ ReadInv)'
    <2> SUFFICES ASSUME PromotionTypeOK, ReadInv, [PromotionNext]_promotionVars PROVE ReadInv'
        BY PromotionStepType
    <2> USE DEF PromotionTypeOK
    <2>1. ASSUME UNCHANGED <<at, read>> PROVE ReadInv'
        BY <2>1
    <2>2. ASSUME NEW t \in PromotionTasks, Start(t) PROVE ReadInv'
        BY <2>2 DEF Start, StartPromote, StartMonitor, ListCandidates, Acquire
    <2>3. ASSUME NEW t \in PromotionTasks, \/ ListShadow(t) \/ PromotionDone(t) \/ LockMonitor(t)
                                  \/ ListActive(t) \/ LoopDone(t)
          PROVE  ReadInv'
        BY <2>3 DEF ListShadow, PromotionDone, LockMonitor, ListActive, LoopDone, Acquire
    <2>4. ASSUME NEW t \in PromotionTasks, NEW r \in Rules, VisitRule(t, r) PROVE ReadInv'
        BY <2>4 DEF VisitRule, ReadForPromotion, Promote, Reject, RaiseFromLogging,
                    ReadForMonitoring, Deprecate, MoveToShadow
    <2> QED
        BY <2>1, <2>2, <2>3, <2>4
        DEF PromotionNext, Continue, promotionVars, CreateCandidate, RecordEvaluation
<1>3. PromotionTypeOK /\ ReadInv /\ [PromotionNext]_promotionVars
        => [\A t \in PromotionTasks, r \in Rules :
              Promote(t, r) => ~ShowsDegradation(read[t])]_promotionVars
    <2> SUFFICES ASSUME PromotionTypeOK, ReadInv, NEW t \in PromotionTasks, NEW r \in Rules, Promote(t, r)
                 PROVE  ~ShowsDegradation(read[t])
        OBVIOUS
    <2>1. read[t] \in Evaluations
        BY DEF Promote, PromotionTypeOK, PromotionAssumption
    <2>2. MeetsPromotionThresholds(read[t])
        BY DEF Promote
    <2> QED
        BY <2>1, <2>2, ThresholdsAgree
<1> QED
    BY <1>1, <1>2, <1>3, PTL DEF PromotionSpec, NoPromotionOfDegraded
=============================================================================
