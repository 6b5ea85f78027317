---------------------------- MODULE AnalysisProofs ----------------------------
(***************************************************************************)
(* What the machines of Analysis guarantee for every value of their        *)
(* constants, in the order of the sections: TwoStage for any number of     *)
(* calls and rows, whichever pipeline makes and resumes them and wherever  *)
(* they stop; RuleDiscovery for any findings and limits; the cases of      *)
(* RuleSafety for every text and count; and ShadowEvaluation for any       *)
(* rules, bound and number of workers.  The last section composes them to  *)
(* the theorems of AnalysisSpec.                                           *)
(***************************************************************************)
EXTENDS Analysis, IngestionProofs, FiniteSetTheorems, SequenceTheorems

-----------------------------------------------------------------------------
(* TwoStage: the inductive invariant *)

\* The events d say that the two-stage pipeline made the row c.
TwoStaged(d, c) == <<c, "staged">> \in d

\* What happened to a row that is COMPLETED.
AllRan(d, c) ==
    IF TwoStaged(d, c)
    THEN <<c, "one">> \in d /\ (<<c, "two">> \in d \/ <<c, "quiet">> \in d)
    ELSE <<c, "plain">> \in d

\* What a row, or a copy of it that a session has loaded, says about the past.
\* Only the plain pipeline saves signals, and only in the rows that it made.
Honest(d, c, r) ==
    /\ TwoStaged(d, c) => ~r.saved /\ r.stage # "other"
    /\ ~TwoStaged(d, c) => r.stage \in {"other", "completed"}
    /\ r.stage = "stage2" => <<c, "one">> \in d

RowGood(d, c, r) == Honest(d, c, r) /\ (r.status = "completed" => AllRan(d, c))

\* What a call has behind it, from the place where it is.
CallGood(d, k) ==
    /\ k.row \in Checkpoints
    /\ Honest(d, k.row, k.seen)
    /\ k.pc \in {"one", "save", "filter", "two", "complete"} => TwoStaged(d, k.row)
    /\ k.pc \in {"save", "filter", "two", "complete"} => <<k.row, "one">> \in d
    /\ k.pc = "complete" => <<k.row, "two">> \in d
    /\ k.pc = "mining" => ~TwoStaged(d, k.row)

\* Nothing is recorded of a row that does not exist, and no call has it.
StageInv ==
    /\ Stages!StageTypeOK
    /\ \A c \in Checkpoints :
          IF checkpoint[c] = Nothing THEN ~TwoStaged(did, c) ELSE RowGood(did, c, checkpoint[c])
    /\ \A t \in Tasks : task[t].pc # "idle" =>
          CallGood(did, task[t]) /\ checkpoint[task[t].row] # Nothing

-----------------------------------------------------------------------------
(* TwoStage: steps of one call *)

Events == {"staged", "one", "two", "quiet", "plain"}

Records ==
    [pc: {"idle", "begin", "list", "one", "save", "filter", "two", "complete", "stats",
          "unbound", "mining", "resume", "gather"},
     row: Checkpoints \cup {Nothing}, seen: Stages!Rows, resumed: BOOLEAN,
     meta: Nat, one: Nat, two: Nat]

\* Events are added and no row changes its pipeline.
Grows(d, e) ==
    /\ d \subseteq e /\ e \subseteq Checkpoints \X Events
    /\ \A c \in Checkpoints : TwoStaged(e, c) <=> TwoStaged(d, c)

\* What was true of rows and calls stays true when events are added.
LEMMA PastStays ==
    ASSUME NEW d, NEW e, Grows(d, e)
    PROVE  /\ \A c \in Checkpoints, r \in Stages!Rows : RowGood(d, c, r) => RowGood(e, c, r)
           /\ \A k \in Records : CallGood(d, k) => CallGood(e, k)
<1>1. \A c \in Checkpoints : \A r : Honest(d, c, r) => Honest(e, c, r)
    BY DEF Grows, Honest
<1>2. \A c \in Checkpoints : AllRan(d, c) => AllRan(e, c)
    BY DEF Grows, AllRan
<1>3. \A k : CallGood(d, k) => CallGood(e, k)
    BY <1>1 DEF CallGood, Grows
<1> QED
    BY <1>1, <1>2, <1>3 DEF RowGood

LEMMA Types ==
    /\ Stages!StageAssumption => /\ Stages!Idle \in Records
                                 /\ Stages!NewRow \in Stages!Rows /\ Stages!PlainRow \in Stages!Rows
    /\ Stages!StageTypeOK <=> /\ checkpoint \in [Checkpoints -> Stages!Rows \cup {Nothing}]
                       /\ task \in [Tasks -> Records]
                       /\ did \subseteq Checkpoints \X Events
BY DEF Stages!Idle, Records, Stages!NewRow, Stages!PlainRow, Stages!Rows, Stages!Stages,
       Stages!StageTypeOK, Events

\* A step without an update.
LEMMA GoKeeps ==
    ASSUME Stages!StageAssumption, StageInv,
           NEW t \in Tasks, NEW from, NEW new \in Records, Stages!Go(t, from, new),
           Grows(did, did'),
           new.pc # "idle" => CallGood(did', new) /\ checkpoint[new.row] # Nothing
    PROVE  StageInv'
<1>1. checkpoint' = checkpoint /\ task' = [task EXCEPT ![t] = new]
    BY DEF Stages!Go
<1>2. Stages!StageTypeOK'
    BY <1>1, Types DEF StageInv, Stages!StageTypeOK, Records, Grows, Events
<1>3. \A c \in Checkpoints :
          IF checkpoint'[c] = Nothing THEN ~TwoStaged(did', c)
                                     ELSE RowGood(did', c, checkpoint'[c])
    BY <1>1, PastStays, Types DEF StageInv, Grows
<1>4. \A u \in Tasks : task'[u].pc # "idle" =>
          CallGood(did', task'[u]) /\ checkpoint'[task'[u].row] # Nothing
    BY <1>1, PastStays, Types DEF StageInv
<1> QED
    BY <1>2, <1>3, <1>4 DEF StageInv

\* A step that updates the row.  What the session writes has to be honest of the
\* row and what it skips is; COMPLETED is written when everything ran.
LEMMA UpdateKeeps ==
    ASSUME Stages!StageAssumption, StageInv,
           NEW t \in Tasks, NEW from, NEW new \in Records, NEW row \in Stages!Rows,
           task[t].pc # "idle", Stages!GoAndUpdate(t, from, new, row), Grows(did, did'),
           Honest(did', task[t].row, row),
           row.status = "completed" =>
              row.status = task[t].seen.status \/ AllRan(did', task[t].row),
           new.pc # "idle" =>
              new.row = task[t].row /\ CallGood(did', [new EXCEPT !.seen = task[t].seen])
    PROVE  StageInv'
<1> DEFINE c == task[t].row
           r == Stages!Updated(t, row)
<1>1. /\ c \in Checkpoints /\ checkpoint[c] \in Stages!Rows /\ checkpoint[c] # Nothing
      /\ task[t] \in Records /\ task[t].seen \in Stages!Rows
      /\ RowGood(did', c, checkpoint[c])
    BY PastStays, Types DEF StageInv, CallGood, Records
<1>2. r \in Stages!Rows
    BY <1>1 DEF Stages!Updated, Stages!Row, Stages!Rows
<1>3. Honest(did', c, r)
    BY <1>1 DEF Stages!Updated, Stages!Row, Stages!Rows, RowGood, Honest
<1>4. RowGood(did', c, r)
    BY <1>1, <1>3 DEF Stages!Updated, Stages!Row, Stages!Rows, RowGood
<1>5. checkpoint' = [checkpoint EXCEPT ![c] = r]
    BY DEF Stages!GoAndUpdate
<1> DEFINE k == IF new.pc = "idle" THEN Stages!Idle ELSE [new EXCEPT !.seen = r]
<1>6. task' = [task EXCEPT ![t] = k] /\ k \in Records
    BY <1>2, Types DEF Stages!GoAndUpdate, Records
<1>7. k.pc # "idle" => k.row = c /\ CallGood(did', k)
    BY <1>3, <1>1, <1>2 DEF CallGood, Stages!Idle, Records, Honest
<1> HIDE DEF c, r, k
<1>8. Stages!StageTypeOK'
    <2>1. checkpoint' \in [Checkpoints -> Stages!Rows \cup {Nothing}]
        BY <1>2, <1>5, Types DEF StageInv
    <2>2. task' \in [Tasks -> Records]
        BY <1>6, Types DEF StageInv
    <2> QED
        BY <2>1, <2>2 DEF Stages!StageTypeOK, Records, Grows, Events
<1>9. \A x \in Checkpoints :
          IF checkpoint'[x] = Nothing THEN ~TwoStaged(did', x)
                                     ELSE RowGood(did', x, checkpoint'[x])
    BY <1>1, <1>2, <1>4, <1>5, PastStays, Types DEF StageInv, Grows, Stages!StageAssumption
<1>10. ASSUME NEW u \in Tasks, task'[u].pc # "idle"
       PROVE  CallGood(did', task'[u]) /\ checkpoint'[task'[u].row] # Nothing
    <2>1. CASE u = t
        BY <2>1, <1>1, <1>2, <1>5, <1>6, <1>7, <1>10, Types DEF StageInv, Stages!StageAssumption
    <2>2. CASE u # t
        <3>1. task'[u] = task[u] /\ task[u] \in Records
            BY <2>2, <1>6, Types DEF StageInv
        <3>2. CallGood(did, task[u]) /\ checkpoint[task[u].row] # Nothing
            BY <3>1, <1>10 DEF StageInv
        <3> QED
            BY <3>1, <3>2, <1>1, <1>2, <1>5, PastStays, Types
               DEF StageInv, Stages!StageAssumption, CallGood
    <2> QED
        BY <2>1, <2>2
<1> QED
    BY <1>8, <1>9, <1>10 DEF StageInv

\* A new row: no call has it yet, and no event names it.
LEMMA BeginKeeps ==
    ASSUME Stages!StageAssumption, StageInv,
           NEW t \in Tasks, NEW c \in Checkpoints,
           Stages!Start(t, c) \/ Stages!StartPlain(t, c)
    PROVE  StageInv'
<1> DEFINE staged == Stages!Start(t, c)
           row == IF staged THEN Stages!NewRow ELSE Stages!PlainRow
           k == [Stages!Idle EXCEPT !.pc = IF staged THEN "list" ELSE "mining",
                             !.row = c, !.seen = row]
<1>1. /\ checkpoint[c] = Nothing
      /\ checkpoint' = [checkpoint EXCEPT ![c] = row]
      /\ task' = [task EXCEPT ![t] = k]
      /\ did' = IF staged THEN did \cup {<<c, "staged">>} ELSE did
    <2>1. CASE Stages!Start(t, c)
        BY <2>1 DEF Stages!Start, Stages!Begin
    <2>2. CASE ~Stages!Start(t, c)
        BY <2>2 DEF Stages!StartPlain, Stages!Begin
    <2> QED
        BY <2>1, <2>2
<1>2. k \in Records /\ row \in Stages!Rows /\ k.row = c /\ k.seen = row
    BY Types DEF Stages!Idle, Records
<1>3. RowGood(did', c, row) /\ CallGood(did', k)
    <2>1. ~TwoStaged(did, c)
        BY <1>1 DEF StageInv
    <2>2. TwoStaged(did', c) <=> staged
        BY <1>1, <2>1 DEF TwoStaged
    <2>3. row.status = "running" /\ ~row.saved /\ row.stage = IF staged THEN "stage1" ELSE "other"
        BY DEF Stages!NewRow, Stages!PlainRow
    <2>4. Honest(did', c, row)
        BY <2>2, <2>3 DEF Honest
    <2> QED
        BY <2>2, <2>3, <2>4, <1>2 DEF RowGood, CallGood, Stages!Idle
<1>4. \A x \in Checkpoints \ {c} : \A y : <<x, y>> \in did' <=> <<x, y>> \in did
    BY <1>1
<1>5. /\ \A x \in Checkpoints \ {c} : \A r : RowGood(did, x, r) <=> RowGood(did', x, r)
      /\ \A q : q.row # c => (CallGood(did, q) <=> CallGood(did', q))
    BY <1>4 DEF RowGood, Honest, AllRan, TwoStaged, CallGood
<1> HIDE DEF row, k
<1>6. Stages!StageTypeOK'
    <2>1. /\ checkpoint' \in [Checkpoints -> Stages!Rows \cup {Nothing}]
          /\ task' \in [Tasks -> Records]
        BY <1>1, <1>2, Types DEF StageInv
    <2>2. did' \subseteq Checkpoints \X Events
        BY <1>1, Types DEF StageInv, Events
    <2> QED
        BY <2>1, <2>2 DEF Stages!StageTypeOK, Records, Events
<1>7. \A x \in Checkpoints :
          IF checkpoint'[x] = Nothing THEN ~TwoStaged(did', x)
                                     ELSE RowGood(did', x, checkpoint'[x])
    <2>1. ASSUME NEW x \in Checkpoints \ {c}
          PROVE  checkpoint'[x] = checkpoint[x] /\ (TwoStaged(did', x) <=> TwoStaged(did, x))
        BY <1>1, <1>4, Types DEF StageInv, TwoStaged
    <2>2. checkpoint'[c] = row /\ row # Nothing
        BY <1>1, <1>2, Types DEF StageInv, Stages!StageAssumption
    <2> QED
        BY <2>1, <2>2, <1>3, <1>5 DEF StageInv
<1>8. ASSUME NEW u \in Tasks, task'[u].pc # "idle"
      PROVE  CallGood(did', task'[u]) /\ checkpoint'[task'[u].row] # Nothing
    <2>1. CASE u = t
        BY <2>1, <1>1, <1>2, <1>3, Types DEF StageInv, Stages!StageAssumption
    <2>2. CASE u # t
        <3>1. task'[u] = task[u] /\ CallGood(did, task[u]) /\ checkpoint[task[u].row] # Nothing
            BY <2>2, <1>1, <1>8, Types DEF StageInv
        <3> QED
            BY <3>1, <1>1, <1>5, Types DEF StageInv, CallGood
    <2> QED
        BY <2>1, <2>2
<1> QED
    BY <1>6, <1>7, <1>8 DEF StageInv

-----------------------------------------------------------------------------
(* Every step *)

LEMMA StepKeeps ==
    ASSUME Stages!StageAssumption, StageInv, Stages!StageNext
    PROVE  StageInv'
<1> PICK t \in Tasks :
        \/ \E c \in Checkpoints :
              \/ Stages!Start(t, c) \/ Stages!StartPlain(t, c)
              \/ Stages!BeginResume(t, c) \/ Stages!ResumeCommand(t, c)
        \/ Stages!SetRunning(t) \/ Stages!List(t) \/ Stages!Insufficient(t)
        \/ Stages!StageOne(t) \/ Stages!SaveStageOne(t)
        \/ Stages!NothingSuspicious(t) \/ Stages!Suspicious(t) \/ Stages!StageTwo(t)
        \/ Stages!Complete(t) \/ Stages!Return(t) \/ Stages!Fail(t) \/ Stages!Crash(t)
        \/ Stages!SaveSignals(t) \/ Stages!Mine(t)
        \/ Stages!PlainRunning(t) \/ Stages!PlainResumed(t) \/ Stages!PlainStops(t)
    BY DEF Stages!StageNext
<1> DEFINE k == task[t]
           seen == task[t].seen
<1>1. /\ k \in Records /\ seen \in Stages!Rows
      /\ did \subseteq Checkpoints \X Events
      /\ \A c \in Checkpoints : checkpoint[c] # Nothing =>
            checkpoint[c] \in Stages!Rows /\ RowGood(did, c, checkpoint[c])
    BY Types DEF StageInv, Records
<1>2. k.pc # "idle" => CallGood(did, k) /\ checkpoint[k.row] # Nothing
    BY DEF StageInv
<1>3. Stages!Idle \in Records /\ Stages!Idle.pc = "idle"
    BY Types DEF Stages!Idle
<1>4. did' = did => Grows(did, did')
    BY <1>1 DEF Grows
<1>5. ASSUME NEW event \in Events \ {"staged"}, k.pc # "idle", Stages!Happened(t, event)
      PROVE  Grows(did, did') /\ <<k.row, event>> \in did' /\ CallGood(did', k)
    <2>1. Grows(did, did') /\ <<k.row, event>> \in did'
        BY <1>1, <1>2, <1>5 DEF Stages!Happened, Grows, TwoStaged, CallGood
    <2> QED
        BY <2>1, <1>1, <1>2, <1>5, PastStays
<1>6. ASSUME NEW c \in Checkpoints, Stages!Start(t, c) \/ Stages!StartPlain(t, c)
      PROVE  StageInv'
    BY <1>6, BeginKeeps
<1>7. ASSUME NEW c \in Checkpoints, Stages!BeginResume(t, c) \/ Stages!ResumeCommand(t, c)
      PROVE  StageInv'
    <2>1. checkpoint[c] # Nothing /\ checkpoint[c] \in Stages!Rows /\ Honest(did, c, checkpoint[c])
        BY <1>1, <1>7 DEF Stages!BeginResume, Stages!ResumeCommand, RowGood
    <2>2. CASE Stages!BeginResume(t, c)
        <3> DEFINE new == [Stages!Idle EXCEPT !.pc = "begin", !.row = c, !.seen = checkpoint[c],
                                       !.resumed = TRUE]
        <3>1. Stages!Go(t, "idle", new) /\ did' = did
            BY <2>2 DEF Stages!BeginResume
        <3>2. new \in Records /\ CallGood(did', new) /\ new.row = c
            BY <2>1, <3>1, Types DEF Stages!Idle, Records, CallGood
        <3> HIDE DEF new
        <3> QED
            BY <3>1, <3>2, <2>1, <1>4, GoKeeps
    <2>3. CASE Stages!ResumeCommand(t, c)
        <3> DEFINE new == [Stages!Idle EXCEPT !.pc = "resume", !.row = c, !.seen = checkpoint[c]]
        <3>1. Stages!Go(t, "idle", new) /\ did' = did
            BY <2>3 DEF Stages!ResumeCommand
        <3>2. new \in Records /\ CallGood(did', new) /\ new.row = c
            BY <2>1, <3>1, Types DEF Stages!Idle, Records, CallGood
        <3> HIDE DEF new
        <3> QED
            BY <3>1, <3>2, <2>1, <1>4, GoKeeps
    <2> QED
        BY <2>2, <2>3, <1>7
<1>8. ASSUME NEW s \in {"running", "failed", "completed"}
      PROVE  /\ [seen EXCEPT !.status = s] \in Stages!Rows
             /\ \A d : Honest(d, k.row, seen) <=> Honest(d, k.row, [seen EXCEPT !.status = s])
    BY <1>1 DEF Stages!Rows, Honest
\* Steps that only go on or end.
<1>9. CASE Stages!List(t)
    <2> DEFINE new == [k EXCEPT !.pc = Stages!Entry(seen.stage), !.meta = seen.meta]
    <2>1. Stages!Go(t, "list", new) /\ did' = did /\ k.pc = "list"
        BY <1>9 DEF Stages!List, Stages!Go
    <2>2. new \in Records /\ new.row = k.row /\ new.seen = seen
        BY <1>1 DEF Records, Stages!Rows, Stages!Stages, Stages!Entry
    <2>3. CallGood(did', new)
        BY <1>1, <1>2, <2>1, <2>2
        DEF CallGood, Honest, Stages!Entry, Records, Stages!Rows, Stages!Stages
    <2> HIDE DEF new
    <2> QED
        BY <2>1, <2>2, <2>3, <1>2, <1>4, GoKeeps
<1>10. CASE Stages!StageOne(t)
    <2> PICK n \in Finds : Stages!Go(t, "one", [k EXCEPT !.pc = "save", !.one = n])
        BY <1>10 DEF Stages!StageOne
    <2> DEFINE new == [k EXCEPT !.pc = "save", !.one = n]
    <2>1. Stages!Go(t, "one", new) /\ Stages!Happened(t, "one") /\ k.pc = "one"
        BY <1>10 DEF Stages!StageOne, Stages!Go
    <2>2. new \in Records /\ new.row = k.row /\ new.seen = seen /\ new.pc = "save"
        BY <1>1 DEF Records, Stages!StageAssumption
    <2>3. Grows(did, did') /\ <<k.row, "one">> \in did' /\ CallGood(did', k)
        BY <2>1, <1>5 DEF Events
    <2>4. CallGood(did', new)
        BY <2>1, <2>2, <2>3 DEF CallGood
    <2> HIDE DEF new
    <2> QED
        BY <2>1, <2>2, <2>3, <2>4, <1>2, GoKeeps
<1>11. CASE Stages!Suspicious(t)
    <2> DEFINE new == [k EXCEPT !.pc = "two"]
    <2>1. Stages!Go(t, "filter", new) /\ did' = did /\ k.pc = "filter"
        BY <1>11 DEF Stages!Suspicious, Stages!Go
    <2>2. new \in Records /\ new.row = k.row /\ new.seen = seen /\ new.pc = "two"
        BY <1>1 DEF Records
    <2>3. CallGood(did', new)
        BY <2>1, <2>2, <1>2 DEF CallGood
    <2> HIDE DEF new
    <2> QED
        BY <2>1, <2>2, <2>3, <1>2, <1>4, GoKeeps
<1>12. CASE Stages!StageTwo(t)
    <2> PICK n \in Finds : Stages!Go(t, "two", [k EXCEPT !.pc = "complete", !.two = n])
        BY <1>12 DEF Stages!StageTwo
    <2> DEFINE new == [k EXCEPT !.pc = "complete", !.two = n]
    <2>1. Stages!Go(t, "two", new) /\ Stages!Happened(t, "two") /\ k.pc = "two"
        BY <1>12 DEF Stages!StageTwo, Stages!Go
    <2>2. new \in Records /\ new.row = k.row /\ new.seen = seen /\ new.pc = "complete"
        BY <1>1 DEF Records, Stages!StageAssumption
    <2>3. Grows(did, did') /\ <<k.row, "two">> \in did' /\ CallGood(did', k)
        BY <2>1, <1>5 DEF Events
    <2>4. CallGood(did', new)
        BY <2>1, <2>2, <2>3 DEF CallGood
    <2> HIDE DEF new
    <2> QED
        BY <2>1, <2>2, <2>3, <2>4, <1>2, GoKeeps
<1>13. CASE Stages!Return(t) \/ Stages!Crash(t)
            \/ (Stages!PlainStops(t) /\ Stages!Go(t, "gather", Stages!Idle))
    BY <1>13, <1>3, <1>4, GoKeeps DEF Stages!Return, Stages!Crash, Stages!PlainStops
\* Steps that write a status and nothing else.
<1>14. CASE Stages!Insufficient(t) \/ Stages!Fail(t)
            \/ (Stages!PlainStops(t)
                /\ Stages!GoAndUpdate(t, "gather", Stages!Idle, [seen EXCEPT !.status = "failed"]))
    <2> DEFINE row == [seen EXCEPT !.status = "failed"]
    <2>1. PICK from : Stages!GoAndUpdate(t, from, Stages!Idle, row) /\ did' = did /\ k.pc # "idle"
        BY <1>14 DEF Stages!Insufficient, Stages!Fail, Stages!PlainStops, Stages!GoAndUpdate
    <2>2. row \in Stages!Rows /\ Honest(did', k.row, row) /\ row.status = "failed"
        BY <2>1, <1>1, <1>2, <1>8 DEF CallGood, Stages!Rows
    <2> HIDE DEF row
    <2> QED
        BY <2>1, <2>2, <1>3, <1>4, UpdateKeeps
<1>15. ASSUME NEW from, NEW pc \in {"list", "gather"},
              Stages!GoAndUpdate(t, from, [k EXCEPT !.pc = pc], [seen EXCEPT !.status = "running"]),
              k.pc # "idle", did' = did
       PROVE  StageInv'
    <2> DEFINE row == [seen EXCEPT !.status = "running"]
               new == [k EXCEPT !.pc = pc]
    <2>1. row \in Stages!Rows /\ Honest(did', k.row, row) /\ row.status = "running"
        BY <1>15, <1>1, <1>2, <1>8 DEF CallGood, Stages!Rows
    <2>2. new \in Records /\ new.row = k.row /\ [new EXCEPT !.seen = seen] = new
        BY <1>1 DEF Records
    <2>3. CallGood(did', new)
        BY <1>15, <1>1, <1>2, <2>2 DEF CallGood, Records
    <2>4. Stages!GoAndUpdate(t, from, new, row)
        BY <1>15
    <2> HIDE DEF row, new
    <2> QED
        BY <2>1, <2>2, <2>3, <2>4, <1>15, <1>4, UpdateKeeps
<1>16. CASE Stages!SetRunning(t)
    BY <1>16, <1>15 DEF Stages!SetRunning, Stages!GoAndUpdate
<1>17. CASE Stages!PlainRunning(t)
    BY <1>17, <1>15 DEF Stages!PlainRunning, Stages!GoAndUpdate
\* Steps that write a stage, signals or the end of the run.
<1>18. CASE Stages!SaveStageOne(t)
    <2> DEFINE new == [k EXCEPT !.pc = "filter"]
               row == [seen EXCEPT !.stage = "stage2", !.meta = k.one]
    <2>1. Stages!GoAndUpdate(t, "save", new, row) /\ did' = did /\ k.pc = "save"
        BY <1>18 DEF Stages!SaveStageOne, Stages!GoAndUpdate
    <2>2. /\ new \in Records /\ new.row = k.row /\ new.seen = seen /\ new.pc = "filter"
          /\ [new EXCEPT !.seen = seen] = new
        BY <1>1 DEF Records
    <2>3. CallGood(did', new)
        BY <2>1, <2>2, <1>2 DEF CallGood
    <2>4. /\ row \in Stages!Rows /\ row.stage = "stage2"
          /\ row.status = seen.status /\ row.saved = seen.saved
        BY <1>1 DEF Stages!Rows, Stages!Stages, Records
    <2>5. Honest(did', k.row, row)
        BY <2>1, <2>4, <1>2 DEF CallGood, Honest
    <2> HIDE DEF new, row
    <2> QED
        BY <2>1, <2>2, <2>3, <2>4, <2>5, <1>4, UpdateKeeps
\* The three ways to COMPLETED.
<1>19. ASSUME NEW new \in Records, NEW from, NEW meta \in Nat, k.pc # "idle",
              Stages!GoAndUpdate(t, from, new, [seen EXCEPT !.status = "completed",
                                                     !.stage = "completed", !.meta = meta]),
              new = Stages!Idle \/ new = [k EXCEPT !.pc = "stats"],
              Grows(did, did'), CallGood(did', k), AllRan(did', k.row)
       PROVE  StageInv'
    <2> DEFINE row == [seen EXCEPT !.status = "completed", !.stage = "completed", !.meta = meta]
    <2>1. row \in Stages!Rows /\ row.saved = seen.saved /\ row.stage = "completed"
        BY <1>1 DEF Stages!Rows, Stages!Stages
    <2>2. Honest(did', k.row, row)
        BY <2>1, <1>19 DEF CallGood, Honest
    <2>3. new.pc # "idle" => /\ new.row = k.row /\ new.pc = "stats" /\ new.seen = seen
                             /\ [new EXCEPT !.seen = seen] = new
        BY <1>19, <1>1, <1>3 DEF Records
    <2>4. new.pc # "idle" => CallGood(did', new)
        BY <2>3, <1>19 DEF CallGood
    <2>5. Stages!GoAndUpdate(t, from, new, row)
        BY <1>19
    <2> HIDE DEF row
    <2> QED
        BY <2>1, <2>2, <2>3, <2>4, <2>5, <1>19, UpdateKeeps
<1>20. CASE Stages!NothingSuspicious(t)
    <2> DEFINE new == [k EXCEPT !.pc = "stats"]
    <2>1. /\ Stages!GoAndUpdate(t, "filter", new, [seen EXCEPT !.status = "completed",
                                                        !.stage = "completed"])
          /\ Stages!Happened(t, "quiet") /\ k.pc = "filter"
        BY <1>20 DEF Stages!NothingSuspicious, Stages!GoAndUpdate
    <2>2. [seen EXCEPT !.status = "completed", !.stage = "completed", !.meta = seen.meta]
          = [seen EXCEPT !.status = "completed", !.stage = "completed"]
        BY <1>1 DEF Stages!Rows
    <2>3. new \in Records /\ seen.meta \in Nat
        BY <1>1 DEF Records, Stages!Rows
    <2>4. Grows(did, did') /\ <<k.row, "quiet">> \in did' /\ CallGood(did', k)
        BY <2>1, <1>5 DEF Events
    <2>5. AllRan(did', k.row)
        BY <2>1, <2>4 DEF CallGood, AllRan
    <2> QED
        BY <2>1, <2>2, <2>3, <2>4, <2>5, <1>19
<1>21. CASE Stages!Complete(t)
    <2> DEFINE new == [k EXCEPT !.pc = IF k.resumed THEN "stats" ELSE "idle"]
               row == [seen EXCEPT !.status = "completed", !.stage = "completed",
                                   !.meta = Stages!FirstStage(t)]
    <2>1. Stages!GoAndUpdate(t, "complete", new, row) /\ did' = did /\ k.pc = "complete"
        BY <1>21 DEF Stages!Complete, Stages!GoAndUpdate
    <2> DEFINE end == IF k.resumed THEN [k EXCEPT !.pc = "stats"] ELSE Stages!Idle
    <2>2. /\ end \in Records /\ Stages!FirstStage(t) \in Nat
          /\ end = Stages!Idle \/ end = [k EXCEPT !.pc = "stats"]
        BY <1>1, <1>3 DEF Records, Stages!FirstStage
    <2>3. Stages!GoAndUpdate(t, "complete", end, row)
        BY <2>1, <1>1, <1>3 DEF Stages!GoAndUpdate, Records
    <2>4. CallGood(did', k) /\ AllRan(did', k.row)
        BY <2>1, <1>2 DEF CallGood, AllRan
    <2> HIDE DEF end
    <2> QED
        BY <2>1, <2>2, <2>3, <2>4, <1>4, <1>19
<1>22. CASE Stages!Mine(t) \/ Stages!PlainResumed(t)
    <2>1. /\ Stages!GoAndUpdate(t, k.pc, Stages!Idle, [seen EXCEPT !.status = "completed",
                                                     !.stage = "completed", !.meta = 0])
          /\ Stages!Happened(t, "plain") /\ k.pc \in {"mining", "gather"}
          /\ k.pc = "gather" => seen.saved
        BY <1>22 DEF Stages!Mine, Stages!PlainResumed, Stages!PlainCompletes, Stages!Resumable
    <2>2. Grows(did, did') /\ <<k.row, "plain">> \in did' /\ CallGood(did', k)
        BY <2>1, <1>5 DEF Events
    <2>3. ~TwoStaged(did', k.row)
        BY <2>1, <2>2 DEF CallGood, Honest
    <2>4. AllRan(did', k.row)
        BY <2>2, <2>3 DEF AllRan
    <2> QED
        BY <2>1, <2>2, <2>4, <1>3, <1>19
<1>23. CASE Stages!SaveSignals(t)
    <2> DEFINE row == [seen EXCEPT !.saved = TRUE]
    <2>1. Stages!GoAndUpdate(t, "mining", k, row) /\ did' = did /\ k.pc = "mining"
        BY <1>23 DEF Stages!SaveSignals, Stages!GoAndUpdate
    <2>2. row \in Stages!Rows /\ row.status = seen.status /\ row.stage = seen.stage
        BY <1>1 DEF Stages!Rows
    <2>3. Honest(did', k.row, row)
        BY <2>1, <2>2, <1>2 DEF CallGood, Honest
    <2>4. [k EXCEPT !.seen = seen] = k
        BY <1>1 DEF Records
    <2> HIDE DEF row
    <2> QED
        BY <2>1, <2>2, <2>3, <2>4, <1>1, <1>2, <1>4, UpdateKeeps
<1> QED
    BY <1>6, <1>7, <1>9, <1>10, <1>11, <1>12, <1>13, <1>14, <1>16, <1>17, <1>18, <1>20,
       <1>21, <1>22, <1>23
    DEF Stages!PlainStops

LEMMA StageInvStarts ==
    ASSUME Stages!StageAssumption
    PROVE  Stages!StageInit => StageInv
BY Types DEF Stages!StageInit, StageInv, Stages!StageTypeOK, TwoStaged, Stages!Idle

LEMMA StageInvStays ==
    ASSUME Stages!StageAssumption
    PROVE  StageInv /\ [Stages!StageNext]_(Stages!stageVars) => StageInv'
<1>1. ASSUME StageInv, UNCHANGED Stages!stageVars PROVE StageInv'
    BY <1>1 DEF Stages!stageVars, StageInv, Stages!StageTypeOK
<1> QED
    BY <1>1, StepKeeps

-----------------------------------------------------------------------------
(* RuleDiscovery: the invariant *)

Tally == [patterns: Nat, rules: Nat]

Places == {"idle", "url", "url rule", "keyword", "keyword rule", "signature",
           "llm", "llm rule", "cluster", "cluster rule", "done"}

\* What the two filters let pass.
Trusted(p) == p.risk <= 75 /\ ~Discovery!Low(p.level) /\ p.tier # "INSIGHT_ONLY"

RuleGood(r) ==
    /\ r.sql \in Discovery!SqlRecords /\ r.original \in Discovery!SqlRecords
    /\ r.classified => r.sql = Discovery!Disarmed(r.original)
    /\ r.source # Nothing => Trusted(r.source)

\* A run has all its fields.
Formed(m) ==
    m = [pc |-> m.pc, engine |-> m.engine, checked |-> m.checked, semantic |-> m.semantic,
         todo |-> m.todo, later |-> m.later, item |-> m.item, sum |-> m.sum,
         extra |-> m.extra, llm |-> m.llm, cut |-> m.cut]

\* What a run has in hand is a text, or a text with the proposal that it comes from.
ItemGood(m) ==
    /\ m.pc \in {"url rule", "keyword rule", "cluster rule"} => m.item \subseteq Discovery!SqlRecords
    /\ m.pc = "llm rule" =>
          \A i \in m.item : i.sql \in Discovery!SqlRecords /\ (i.source # Nothing => Trusted(i.source))

\* What a run counted, in all and in the stage of the LLM, is what it stored; after
\* a stage that raised, what that stage stored stands for what it counted.
Accounted(m, stored) ==
    IF m.cut = TRUE
    THEN stored = Discovery!Plus(m.sum, m.llm.patterns, m.llm.rules)
    ELSE stored = Discovery!Plus(m.sum, m.extra.patterns, m.extra.rules)

CountGood(m, stored) ==
    /\ m.sum \in Tally /\ m.extra \in Tally /\ m.llm \in Tally /\ m.cut \in BOOLEAN
    /\ m.pc \notin {"llm", "llm rule"} => m.extra = Discovery!None
    /\ m.pc \notin {"cluster", "cluster rule", "done"} => m.cut = FALSE /\ m.llm = m.extra
    /\ m.pc # "idle" => Accounted(m, stored)

RunGood(m, stored) ==
    /\ Formed(m) /\ m.pc \in Places /\ m.later \subseteq Discovery!SqlRecords
    /\ ItemGood(m) /\ CountGood(m, stored) /\ stored \in Tally

DiscoveryInv ==
    /\ known \subseteq {u.name : u \in Urls} \cup {k.name : k \in Keywords}
    /\ \A r \in rules : RuleGood(r)
    /\ RunGood(mining, made)
    /\ discoveries \in 0..MaxDiscoveries

-----------------------------------------------------------------------------
(* RuleDiscovery: the texts and the filters *)

\* The instance counts as this module does.
LEMMA SameCardinality ==
    \A S : Discovery!Cardinality(S) = Cardinality(S)
BY DEF Discovery!Cardinality, Cardinality

LEMMA DisarmedTyped ==
    ASSUME NEW s \in Discovery!SqlRecords
    PROVE  /\ Discovery!Disarmed(s) \in Discovery!SqlRecords
           /\ Discovery!Dangerous(s) => Discovery!Disarmed(s).head = "comment"
BY DEF Discovery!Disarmed, Discovery!SqlRecords

LEMMA PlainTyped ==
    /\ Discovery!Plain \in Discovery!SqlRecords
    /\ \A L \in SUBSET Discovery!Likes, h \in SUBSET {"keyword"}, n \in Nat \ {0} :
          Discovery!WithLikes(L, h, n) \in Discovery!SqlRecords
<1>1. Discovery!Plain \in Discovery!SqlRecords
    <2>1. <<"messages">> \in Seq(Discovery!AllowedTables \cup {"users"})
        BY DEF Discovery!AllowedTables
    <2> QED
        BY <2>1 DEF Discovery!Plain, Discovery!SqlRecords, Discovery!AllowedColumns
<1>2. ASSUME NEW L \in SUBSET Discovery!Likes, NEW h \in SUBSET {"keyword"}, NEW n \in Nat \ {0}
      PROVE  Discovery!WithLikes(L, h, n) \in Discovery!SqlRecords
    <2>1. n \in Nat /\ n - 1 \in Nat
        OBVIOUS
    <2> QED
        BY <1>1, <2>1 DEF Discovery!WithLikes, Discovery!SqlRecords
<1> QED
    BY <1>1, <1>2

\* One rule text for each choice of words.
LEMMA KeywordTextTyped ==
    ASSUME Discovery!DiscoveryAssumption, NEW k \in Keywords, NEW s \in Discovery!KeywordTexts(k)
    PROVE  s \in Discovery!SqlRecords
<1>1. PICK W \in Discovery!WordsTaken(k) : s = Discovery!WithContext(k, Discovery!OfWords(k, W))
    BY DEF Discovery!KeywordTexts
<1>2. k.words \in Seq([kind: Discovery!Likes, statement: BOOLEAN]) /\ k.context \in Nat
    BY DEF Discovery!DiscoveryAssumption
<1>3. W \subseteq DOMAIN k.words
    BY <1>1 DEF Discovery!WordsTaken, Discovery!FirstFew
<1>4. IsFiniteSet(W) /\ Cardinality(W) \in Nat /\ (W # {} => Cardinality(W) > 0)
    <2>1. Len(k.words) \in Nat /\ DOMAIN k.words = 1..Len(k.words)
        BY <1>2
    <2>2. IsFiniteSet(1..Len(k.words))
        BY <2>1, FS_Interval
    <2>3. IsFiniteSet(W)
        BY <2>1, <2>2, <1>3, FS_Subset
    <2> QED
        BY <2>3, FS_CardinalityType, FS_EmptySet
<1>5. Discovery!OfWords(k, W) \in Discovery!SqlRecords
    <2>1. CASE W = {}
        BY <2>1, PlainTyped DEF Discovery!OfWords
    <2>2. CASE W # {}
        <3>1. Discovery!KindsOf(k, W) \in SUBSET Discovery!Likes
            <4>1. ASSUME NEW w \in W PROVE k.words[w].kind \in Discovery!Likes
                <5>1. w \in 1..Len(k.words)
                    BY <1>2, <1>3, <4>1
                <5>2. k.words[w] \in [kind: Discovery!Likes, statement: BOOLEAN]
                    BY <1>2, <5>1, ElementOfSeq
                <5> QED
                    BY <5>2
            <4> QED
                BY <4>1 DEF Discovery!KindsOf
        <3>2. Discovery!FoundIn(k, W) \in SUBSET {"keyword"}
            BY DEF Discovery!FoundIn
        <3>3. Cardinality(W) \in Nat \ {0}
            BY <2>2, <1>4
        <3>4. Discovery!WithLikes(Discovery!KindsOf(k, W), Discovery!FoundIn(k, W), Cardinality(W)) \in Discovery!SqlRecords
            BY <3>1, <3>2, <3>3, PlainTyped
        <3>5. Discovery!OfWords(k, W) = Discovery!WithLikes(Discovery!KindsOf(k, W), Discovery!FoundIn(k, W), Cardinality(W))
            BY <2>2, SameCardinality DEF Discovery!OfWords
        <3> QED
            BY <3>4, <3>5
    <2> QED
        BY <2>1, <2>2
<1>6. Discovery!ContextLikes \subseteq Discovery!Likes
    BY DEF Discovery!ContextLikes, Discovery!Likes
<1> DEFINE t == Discovery!OfWords(k, W)
<1> HIDE DEF t
<1>7. ASSUME t \in Discovery!SqlRecords PROVE Discovery!WithContext(k, t) \in Discovery!SqlRecords
    <2> DEFINE more == t.likes \cup Discovery!ContextLikes
               n == t.n + k.context + 1
               o == t.ors + k.context
    <2>1. more \in SUBSET Discovery!Likes /\ n \in Nat /\ o \in Nat
        BY <1>2, <1>6, <1>7 DEF Discovery!SqlRecords
    <2>2. \/ Discovery!WithContext(k, t) = t
          \/ Discovery!WithContext(k, t) = [t EXCEPT !.likes = more, !.n = n, !.ors = o, !.conj = "yes"]
        BY DEF Discovery!WithContext
    <2> HIDE DEF more, n, o
    <2> QED
        BY <1>7, <2>1, <2>2 DEF Discovery!SqlRecords
<1> QED
    BY <1>1, <1>5, <1>7 DEF t

LEMMA ConceptTextTyped ==
    ASSUME NEW c \in Seq(Discovery!Likes), c # <<>>
    PROVE  Discovery!ConceptText(c) \in Discovery!SqlRecords
<1> DEFINE n == IF Len(c) > 5 THEN 5 ELSE Len(c)
           taken == SubSeq(c, 1, n)
<1>1. Len(c) \in Nat /\ Len(c) # 0
    BY EmptySeq
<1>2. n \in 1..Len(c)
    BY <1>1
<1>3. taken \in Seq(Discovery!Likes) /\ Len(taken) = n
    BY <1>2
<1>4. Discovery!Range(taken) \in SUBSET Discovery!Likes
    BY <1>3 DEF Discovery!Range
<1>5. Len(taken) \in Nat \ {0} /\ {} \in SUBSET {"keyword"}
    BY <1>2, <1>3
<1> QED
    BY <1>4, <1>5, PlainTyped DEF Discovery!ConceptText

LEMMA SemanticTextTyped ==
    ASSUME Discovery!DiscoveryAssumption, NEW s \in Discovery!SemanticTexts
    PROVE  s \in Discovery!SqlRecords
<1>1. CASE s \in {r.sql : r \in Standalone}
    BY <1>1 DEF Discovery!DiscoveryAssumption
<1>2. CASE s \in {Discovery!ConceptText(c) : c \in Concepts \ {<<>>}}
    BY <1>2, ConceptTextTyped DEF Discovery!DiscoveryAssumption
<1> QED
    BY <1>1, <1>2 DEF Discovery!SemanticTexts

LEMMA CleanedTyped ==
    ASSUME Discovery!DiscoveryAssumption, NEW r \in Standalone, NEW n
    PROVE  Discovery!Cleaned(r, n) \in Discovery!SqlRecords
<1>1. r.sql \in Discovery!SqlRecords
    BY DEF Discovery!DiscoveryAssumption
<1> QED
    BY <1>1 DEF Discovery!Cleaned, Discovery!SqlRecords

\* Whatever passes both filters was fit for it as the LLM proposed it.
LEMMA ActionableIsTrusted ==
    ASSUME Discovery!DiscoveryAssumption, NEW p \in Proposals,
           ~Discovery!InsightOnly(Discovery!Aligned(Discovery!Checked(p))), Discovery!Aligned(Discovery!Checked(p)).sql # Nothing
    PROVE  Discovery!Aligned(Discovery!Checked(p)).sql \in Discovery!SqlRecords /\ Trusted(p)
<1>1. /\ p.tier \in {"SAFE_AUTO", "REVIEW_ONLY", "DANGEROUS", "INSIGHT_ONLY"} /\ p.risk \in Nat
      /\ p.sql \in Discovery!SqlRecords \cup {Nothing}
      /\ p = [tier |-> p.tier, risk |-> p.risk, level |-> p.level, other |-> p.other,
              generic |-> p.generic, sql |-> p.sql]
    BY DEF Discovery!DiscoveryAssumption
<1> DEFINE q == Discovery!Checked(p)
<1>2. \/ q = p /\ ~Discovery!Low(p.level) /\ ~ (p.tier = "DANGEROUS" /\ p.risk > 75)
      \/ q.sql = Nothing /\ q = [p EXCEPT !.tier = "INSIGHT_ONLY", !.sql = Nothing]
    BY <1>1 DEF Discovery!Checked
<1>3. Discovery!Aligned(q).sql = q.sql /\ Discovery!Aligned(q).risk = q.risk
      /\ (q.tier = "INSIGHT_ONLY" => Discovery!Aligned(q).tier = "INSIGHT_ONLY")
    BY <1>1, <1>2 DEF Discovery!Aligned
<1>4. q = p /\ ~Discovery!Low(p.level)
    BY <1>2, <1>3
<1> HIDE DEF q
<1>5. p.tier # "INSIGHT_ONLY" /\ p.risk <= 75
    BY <1>1, <1>3, <1>4 DEF Discovery!InsightOnly, q
<1> QED
    BY <1>1, <1>3, <1>4, <1>5 DEF Trusted, q
-----------------------------------------------------------------------------
(* RuleDiscovery: the steps *)

\* The names of the patterns that a step may add.
Names == {u.name : u \in Urls} \cup {k.name : k \in Keywords}

LEMMA PlusTyped ==
    ASSUME NEW t \in Tally, NEW p \in Nat, NEW r \in Nat
    PROVE  /\ Discovery!Plus(t, p, r) \in Tally
           /\ Discovery!Plus(t, p, r).patterns = t.patterns + p /\ Discovery!Plus(t, p, r).rules = t.rules + r
BY DEF Tally, Discovery!Plus

LEMMA NoneTyped == Discovery!None \in Tally /\ Discovery!None.patterns = 0 /\ Discovery!None.rules = 0
BY DEF Discovery!None, Tally

\* A run that counts what it stores stays accounted for.
LEMMA CountedBoth ==
    ASSUME NEW m, NEW n, NEW stored, NEW p \in Nat, NEW r \in Nat,
           CountGood(m, stored), stored \in Tally, m.pc # "idle", n.cut = m.cut,
           \/ n.sum = Discovery!Plus(m.sum, p, r) /\ n.extra = m.extra /\ n.llm = m.llm
           \/ m.cut = FALSE /\ n.sum = m.sum /\ n.extra = Discovery!Plus(m.extra, p, r)
    PROVE  Accounted(n, Discovery!Plus(stored, p, r))
<1>1. /\ m.sum \in Tally /\ m.extra \in Tally /\ m.llm \in Tally /\ m.cut \in BOOLEAN
      /\ Accounted(m, stored)
    BY DEF CountGood
<1> QED
    BY <1>1 DEF Accounted, Discovery!Plus, Tally

\* What follows the stage of the LLM.
LEMMA AfterLlmGood ==
    ASSUME NEW m, NEW n, NEW stored \in Tally, Formed(m), n \in Discovery!AfterLlm(m),
           m.sum \in Tally, m.extra = Discovery!None, m.llm \in Tally, m.cut \in BOOLEAN,
           Accounted(m, stored)
    PROVE  RunGood(n, stored)
<1>1. \/ \E clusters : n = [m EXCEPT !.pc = "cluster", !.todo = clusters, !.later = {}, !.item = {}]
      \/ n = [m EXCEPT !.pc = "done", !.todo = {}, !.later = {}, !.item = {}]
    BY DEF Discovery!AfterLlm
<1>2. /\ Formed(n) /\ n.pc \in {"cluster", "done"} /\ n.later = {} /\ n.item = {}
      /\ n.sum = m.sum /\ n.extra = m.extra /\ n.llm = m.llm /\ n.cut = m.cut
    BY <1>1 DEF Formed
<1>3. ItemGood(n)
    BY <1>2 DEF ItemGood
<1>4. Accounted(n, stored)
    BY <1>2 DEF Accounted
<1>5. CountGood(n, stored)
    BY <1>2, <1>4, NoneTyped DEF CountGood
<1> QED
    BY <1>2, <1>3, <1>5 DEF RunGood, Places

\* A step that stores nothing keeps the rows and the tally.
LEMMA StartDiscoveryKeeps ==
    ASSUME Discovery!DiscoveryAssumption, DiscoveryInv, NEW engine, NEW checked, NEW semantic,
           Discovery!StartDiscovery(engine, checked, semantic)
    PROVE  DiscoveryInv'
<1>1. PICK urls : mining' = [Discovery!NoMining EXCEPT !.pc = "url", !.engine = engine,
                        !.checked = checked, !.semantic = semantic, !.todo = urls]
    BY DEF Discovery!StartDiscovery, Discovery!Set
<1>2. mining' = [pc |-> "url", engine |-> engine, checked |-> checked, semantic |-> semantic,
                 todo |-> urls, later |-> {}, item |-> {}, sum |-> Discovery!None, extra |-> Discovery!None,
                 llm |-> Discovery!None, cut |-> FALSE]
    BY <1>1 DEF Discovery!NoMining
<1>3. made' = Discovery!None /\ UNCHANGED <<known, rules>> /\ discoveries' = discoveries + 1
      /\ discoveries < MaxDiscoveries /\ discoveries \in Nat /\ MaxDiscoveries \in Nat
    BY DEF Discovery!StartDiscovery, DiscoveryInv, Discovery!DiscoveryAssumption
<1>4. Accounted(mining', made')
    BY <1>2, <1>3, NoneTyped DEF Accounted, Discovery!Plus, Discovery!None
<1>5. CountGood(mining', made')
    BY <1>2, <1>4, NoneTyped DEF CountGood
<1>6. RunGood(mining', made')
    BY <1>2, <1>3, <1>5, NoneTyped DEF RunGood, Formed, Places, ItemGood
<1>7. discoveries' \in 0..MaxDiscoveries
    BY <1>3
<1> QED
    BY <1>3, <1>6, <1>7 DEF DiscoveryInv

\* The places after the stage of the LLM, and those of it.
Late == {"cluster", "cluster rule", "done"}
OfLlm == {"llm", "llm rule"}

\* A step that creates no pattern and no rule, and changes only the place, the list
\* of the stage, the rules to come and the item.
LEMMA QuietStep ==
    ASSUME DiscoveryInv, known' = known, rules' = rules, made' = made,
           discoveries' = discoveries,
           NEW pc \in Places \ {"idle"}, NEW todo, NEW later \in SUBSET Discovery!SqlRecords, NEW item,
           mining' = [mining EXCEPT !.pc = pc, !.todo = todo, !.later = later, !.item = item],
           ItemGood(mining'), mining.pc # "idle",
           pc \in OfLlm \/ mining.pc \notin OfLlm, pc \in Late \/ mining.pc \notin Late
    PROVE  DiscoveryInv'
<1>1. RunGood(mining, made)
    BY DEF DiscoveryInv
<1>2. Formed(mining') /\ mining'.pc = pc /\ mining'.later = later /\ mining'.sum = mining.sum
      /\ mining'.extra = mining.extra /\ mining'.llm = mining.llm /\ mining'.cut = mining.cut
    BY <1>1 DEF RunGood, Formed
<1>3. Accounted(mining', made')
    BY <1>1, <1>2 DEF RunGood, CountGood, Accounted
<1>4. CountGood(mining', made')
    BY <1>1, <1>2, <1>3 DEF RunGood, CountGood, OfLlm, Late
<1>5. RunGood(mining', made')
    BY <1>1, <1>2, <1>4 DEF RunGood
<1> QED
    BY <1>5 DEF DiscoveryInv

\* A step that creates p patterns and r rules and counts them: outside the stage of
\* the LLM in the sum of the run, within it apart.
LEMMA StoringStep ==
    ASSUME DiscoveryInv, discoveries' = discoveries,
           NEW p \in Nat, NEW r \in Nat, made' = Discovery!Plus(made, p, r),
           NEW pc \in Places \ ({"idle"} \cup OfLlm), NEW todo, NEW item,
           mining' = [mining EXCEPT !.pc = pc, !.todo = todo, !.item = item,
                                    !.sum = Discovery!Plus(mining.sum, p, r)],
           mining.pc \notin {"idle"} \cup OfLlm, pc \in Late \/ mining.pc \notin Late,
           ItemGood(mining'), known' \subseteq Names, \A x \in rules' : RuleGood(x)
    PROVE  DiscoveryInv'
<1>1. RunGood(mining, made)
    BY DEF DiscoveryInv
<1>2. /\ mining.sum \in Tally /\ mining.extra \in Tally /\ made \in Tally
      /\ CountGood(mining, made)
    BY <1>1 DEF RunGood, CountGood
<1>3. made' \in Tally /\ Discovery!Plus(mining.sum, p, r) \in Tally
    BY <1>2, PlusTyped
<1>4. /\ Formed(mining') /\ mining'.pc = pc /\ mining'.later = mining.later
      /\ mining'.cut = mining.cut /\ mining'.extra = mining.extra /\ mining'.llm = mining.llm
      /\ mining'.sum = Discovery!Plus(mining.sum, p, r)
    BY <1>1 DEF RunGood, Formed
<1>5. Accounted(mining', made')
    BY <1>2, <1>4, CountedBoth
<1>6. CountGood(mining', made')
    BY <1>2, <1>3, <1>4, <1>5 DEF CountGood, Late, OfLlm
<1>7. RunGood(mining', made')
    BY <1>1, <1>3, <1>4, <1>6 DEF RunGood
<1> QED
    BY <1>7 DEF DiscoveryInv, Names

LEMMA LlmStoringStep ==
    ASSUME DiscoveryInv, discoveries' = discoveries,
           NEW p \in Nat, NEW r \in Nat, made' = Discovery!Plus(made, p, r),
           NEW pc \in OfLlm, NEW todo, NEW item,
           mining' = [mining EXCEPT !.pc = pc, !.todo = todo, !.item = item,
                                    !.extra = Discovery!Plus(mining.extra, p, r),
                                    !.llm = Discovery!Plus(mining.llm, p, r)],
           mining.pc \in OfLlm,
           ItemGood(mining'), known' \subseteq Names, \A x \in rules' : RuleGood(x)
    PROVE  DiscoveryInv'
<1>1. RunGood(mining, made)
    BY DEF DiscoveryInv
<1>2. /\ mining.sum \in Tally /\ mining.extra \in Tally /\ made \in Tally
      /\ CountGood(mining, made)
    BY <1>1 DEF RunGood, CountGood
<1>3. made' \in Tally /\ Discovery!Plus(mining.extra, p, r) \in Tally
      /\ mining.llm = mining.extra /\ mining.cut = FALSE /\ mining.pc # "idle"
    BY <1>2, PlusTyped DEF CountGood, OfLlm
<1>4. /\ Formed(mining') /\ mining'.pc = pc /\ mining'.later = mining.later
      /\ mining'.cut = mining.cut /\ mining'.sum = mining.sum
      /\ mining'.extra = Discovery!Plus(mining.extra, p, r)
      /\ mining'.llm = Discovery!Plus(mining.llm, p, r)
    BY <1>1 DEF RunGood, Formed
<1>5. Accounted(mining', made')
    BY <1>2, <1>3, <1>4, CountedBoth
<1>6. CountGood(mining', made')
    BY <1>2, <1>3, <1>4, <1>5 DEF CountGood, OfLlm
<1>7. RunGood(mining', made')
    BY <1>1, <1>3, <1>4, <1>6 DEF RunGood, OfLlm, Places
<1> QED
    BY <1>7 DEF DiscoveryInv, Names

\* What a run in progress has; the lemmas below rest on it.
LEMMA RunKnown ==
    ASSUME DiscoveryInv
    PROVE  /\ Formed(mining) /\ mining.later \in SUBSET Discovery!SqlRecords /\ ItemGood(mining)
           /\ mining.sum \in Tally /\ mining.extra \in Tally /\ mining.llm \in Tally
           /\ mining.cut \in BOOLEAN
           /\ mining.pc \notin {"llm", "llm rule"} => mining.extra = Discovery!None
           /\ mining.pc \notin {"cluster", "cluster rule", "done"} =>
                 mining.cut = FALSE /\ mining.llm = mining.extra
           /\ made \in Tally /\ (mining.pc # "idle" => Accounted(mining, made))
           /\ known \subseteq Names /\ \A r \in rules : RuleGood(r)
BY DEF DiscoveryInv, RunGood, CountGood, Names

LEMMA ZeroOne == 0 \in Nat /\ 1 \in Nat
OBVIOUS

LEMMA UrlPatternKeeps ==
    ASSUME Discovery!DiscoveryAssumption, DiscoveryInv, NEW u \in Urls, Discovery!UrlPattern(u)
    PROVE  DiscoveryInv'
<1>1. mining.pc = "url" /\ rules' = rules /\ discoveries' = discoveries /\ Formed(mining)
    BY RunKnown DEF Discovery!UrlPattern, Discovery!At
<1>2. u.sql \in Discovery!SqlRecords
    BY DEF Discovery!DiscoveryAssumption
<1>3. CASE known \cap u.within # {}
    <2>0. known' = known /\ made' = made
        BY <1>3 DEF Discovery!UrlPattern
    <2>1. mining' = [mining EXCEPT !.todo = mining.todo \ {u}]
        BY <1>3 DEF Discovery!UrlPattern, Discovery!Skipped, Discovery!Set
    <2>2. mining' = [mining EXCEPT !.pc = "url", !.todo = mining.todo \ {u},
                                   !.later = mining.later, !.item = mining.item]
        BY <1>1, <2>1 DEF Formed
    <2>3. mining'.pc = "url"
        BY <1>1, <2>1 DEF Formed
    <2>4. ItemGood(mining')
        BY <2>3 DEF ItemGood
    <2> DEFINE rest == mining.todo \ {u}
    <2> HIDE DEF rest
    <2>5. mining' = [mining EXCEPT !.pc = "url", !.todo = rest,
                                   !.later = mining.later, !.item = mining.item]
        BY <2>2 DEF rest
    <2>6. "url" \in Places \ {"idle"} /\ mining.pc # "idle" /\ mining.later \in SUBSET Discovery!SqlRecords
        BY <1>1, RunKnown DEF Places
    <2>7. mining.pc \notin OfLlm /\ mining.pc \notin Late
        BY <1>1 DEF OfLlm, Late
    <2> QED
        BY <1>1, <2>0, <2>4, <2>5, <2>6, <2>7, QuietStep
<1>4. CASE ~(known \cap u.within # {})
    <2> DEFINE rest == mining.todo \ {u}
               item == {u.sql}
    <2>1. /\ known' = known \cup {u.name} /\ made' = Discovery!Plus(made, 1, 0)
          /\ mining' = [mining EXCEPT !.pc = "url rule", !.todo = rest, !.item = item,
                                      !.sum = Discovery!Plus(mining.sum, 1, 0)]
        BY <1>4 DEF Discovery!UrlPattern, Discovery!Stored, Discovery!Set
    <2>2. mining'.pc = "url rule" /\ mining'.item = {u.sql}
        BY <1>1, <2>1 DEF Formed
    <2>3. ItemGood(mining')
        BY <1>2, <2>2 DEF ItemGood
    <2>4. known' \subseteq Names /\ \A x \in rules' : RuleGood(x)
        BY <1>1, <2>1, RunKnown DEF Names
    <2> HIDE DEF rest, item
    <2>5. "url rule" \in Places \ ({"idle"} \cup OfLlm)
        BY DEF Places, OfLlm
    <2>6. mining.pc \notin {"idle"} \cup OfLlm /\ mining.pc \notin Late
        BY <1>1 DEF Late, OfLlm
    <2> QED
        BY <1>1, <2>1, <2>3, <2>4, <2>5, <2>6, ZeroOne, StoringStep
<1> QED
    BY <1>3, <1>4

LEMMA KeywordPatternKeeps ==
    ASSUME Discovery!DiscoveryAssumption, DiscoveryInv, NEW k \in Keywords, Discovery!KeywordPattern(k)
    PROVE  DiscoveryInv'
<1>1. mining.pc = "keyword" /\ rules' = rules /\ discoveries' = discoveries /\ Formed(mining)
    BY RunKnown DEF Discovery!KeywordPattern, Discovery!At
<1> DEFINE rest == mining.todo \ {k}
<1>3. CASE k.name \in known
    <2>0. known' = known /\ made' = made
        BY <1>3 DEF Discovery!KeywordPattern
    <2>1. mining' = [mining EXCEPT !.todo = rest]
        BY <1>3 DEF Discovery!KeywordPattern, Discovery!Skipped, Discovery!Set
    <2> HIDE DEF rest
    <2>2. mining' = [mining EXCEPT !.pc = "keyword", !.todo = rest,
                                   !.later = mining.later, !.item = mining.item]
          /\ mining'.pc = "keyword"
        BY <1>1, <2>1 DEF Formed
    <2>3. ItemGood(mining')
        BY <2>2 DEF ItemGood
    <2> QED
        BY <1>1, <2>0, <2>2, <2>3, RunKnown, QuietStep DEF Places, OfLlm, Late
<1>4. CASE k.name \notin known
    <2>1. PICK sql \in Discovery!KeywordTexts(k) :
             mining' = [mining EXCEPT !.pc = "keyword rule", !.todo = rest, !.item = {sql},
                                      !.sum = Discovery!Plus(mining.sum, 1, 0)]
        BY <1>4 DEF Discovery!KeywordPattern, Discovery!Set
    <2>2. known' = known \cup {k.name} /\ made' = Discovery!Plus(made, 1, 0)
        BY <1>4 DEF Discovery!KeywordPattern, Discovery!Stored
    <2> DEFINE item == {sql}
    <2>3. mining'.pc = "keyword rule" /\ mining'.item = {sql}
        BY <1>1, <2>1 DEF Formed
    <2>4. sql \in Discovery!SqlRecords
        BY KeywordTextTyped
    <2>5. ItemGood(mining')
        BY <2>3, <2>4 DEF ItemGood
    <2>6. known' \subseteq Names /\ \A x \in rules' : RuleGood(x)
        BY <1>1, <2>2, RunKnown DEF Names
    <2>7. mining' = [mining EXCEPT !.pc = "keyword rule", !.todo = rest, !.item = item,
                                   !.sum = Discovery!Plus(mining.sum, 1, 0)]
        BY <2>1
    <2> HIDE DEF rest, item
    <2> QED
        BY <1>1, <2>2, <2>5, <2>6, <2>7, ZeroOne, StoringStep DEF Places, Late, OfLlm
<1> QED
    BY <1>3, <1>4

LEMMA CountedRuleKeeps ==
    ASSUME Discovery!DiscoveryAssumption, DiscoveryInv, NEW from, NEW to,
           \/ from = "url rule" /\ to = "url"
           \/ from = "keyword rule" /\ to = "keyword",
           Discovery!CountedRule(from, to)
    PROVE  DiscoveryInv'
<1>1. mining.pc = from /\ known' = known /\ discoveries' = discoveries /\ Formed(mining)
    BY RunKnown DEF Discovery!CountedRule, Discovery!At
<1>2. PICK sql \in mining.item :
         rules' = rules \cup {[sql |-> Discovery!Disarmed(sql), original |-> sql, classified |-> TRUE,
                               source |-> Nothing]}
    BY DEF Discovery!CountedRule, Discovery!NewRule
<1>3. sql \in Discovery!SqlRecords
    BY <1>1, RunKnown DEF ItemGood
<1>4. RuleGood([sql |-> Discovery!Disarmed(sql), original |-> sql, classified |-> TRUE,
                source |-> Nothing])
    BY <1>3, DisarmedTyped DEF RuleGood
<1>5. \A x \in rules' : RuleGood(x)
    BY <1>2, <1>4, RunKnown
<1>6. mining' = [mining EXCEPT !.pc = to, !.item = {}, !.sum = Discovery!Plus(mining.sum, 0, 1)]
    BY DEF Discovery!CountedRule, Discovery!Set
<1>7. mining' = [mining EXCEPT !.pc = to, !.todo = mining.todo, !.item = {},
                               !.sum = Discovery!Plus(mining.sum, 0, 1)]
      /\ mining'.pc = to
    BY <1>1, <1>6 DEF Formed
<1>8. ItemGood(mining')
    BY <1>7 DEF ItemGood
<1>9. to \in Places \ ({"idle"} \cup OfLlm) /\ from \notin {"idle"} \cup OfLlm /\ from \notin Late
    BY DEF Places, Late, OfLlm
<1>10. made' = Discovery!Plus(made, 0, 1)
    BY DEF Discovery!CountedRule, Discovery!Stored
<1> QED
    BY <1>1, <1>5, <1>7, <1>8, <1>9, <1>10, RunKnown, ZeroOne, StoringStep

LEMMA UrlsDoneKeeps ==
    ASSUME Discovery!DiscoveryAssumption, DiscoveryInv, Discovery!UrlsDone
    PROVE  DiscoveryInv'
<1>1. PICK keywords : mining' = [mining EXCEPT !.pc = "keyword", !.todo = keywords]
    BY DEF Discovery!UrlsDone, Discovery!Set
<1>2. mining.pc = "url" /\ known' = known /\ rules' = rules /\ made' = made
      /\ discoveries' = discoveries /\ Formed(mining)
    BY RunKnown DEF Discovery!UrlsDone, Discovery!At
<1>3. mining' = [mining EXCEPT !.pc = "keyword", !.todo = keywords,
                               !.later = mining.later, !.item = mining.item]
      /\ mining'.pc = "keyword"
    BY <1>1, <1>2 DEF Formed
<1>4. ItemGood(mining')
    BY <1>3 DEF ItemGood
<1> QED
    BY <1>2, <1>3, <1>4, RunKnown, QuietStep DEF Places, OfLlm, Late

LEMMA KeywordsDoneKeeps ==
    ASSUME Discovery!DiscoveryAssumption, DiscoveryInv, Discovery!KeywordsDone
    PROVE  DiscoveryInv'
<1>1. mining' = [mining EXCEPT !.pc = "signature", !.todo = Signatures]
    BY DEF Discovery!KeywordsDone, Discovery!Set
<1>2. mining.pc = "keyword" /\ known' = known /\ rules' = rules /\ made' = made
      /\ discoveries' = discoveries /\ Formed(mining)
    BY RunKnown DEF Discovery!KeywordsDone, Discovery!At
<1>3. mining' = [mining EXCEPT !.pc = "signature", !.todo = Signatures,
                               !.later = mining.later, !.item = mining.item]
      /\ mining'.pc = "signature"
    BY <1>1, <1>2 DEF Formed
<1>4. ItemGood(mining')
    BY <1>3 DEF ItemGood
<1> QED
    BY <1>2, <1>3, <1>4, RunKnown, QuietStep DEF Places, OfLlm, Late

LEMMA SignaturePatternKeeps ==
    ASSUME Discovery!DiscoveryAssumption, DiscoveryInv, NEW g, Discovery!SignaturePattern(g)
    PROVE  DiscoveryInv'
<1> DEFINE n == IF g.size >= 5 THEN 1 ELSE 0
           rest == mining.todo \ {g}
<1>1. mining.pc = "signature" /\ known' = known /\ rules' = rules /\ discoveries' = discoveries /\ Formed(mining)
    BY RunKnown DEF Discovery!SignaturePattern, Discovery!At
<1>2. mining' = [mining EXCEPT !.todo = rest, !.sum = Discovery!Plus(mining.sum, n, 0)]
    BY DEF Discovery!SignaturePattern, Discovery!Set
<1>3. n \in Nat
    OBVIOUS
<1>6. made' = Discovery!Plus(made, n, 0)
    BY DEF Discovery!SignaturePattern, Discovery!Stored
<1> HIDE DEF n, rest
<1>4. mining' = [mining EXCEPT !.pc = "signature", !.todo = rest, !.item = mining.item,
                               !.sum = Discovery!Plus(mining.sum, n, 0)]
      /\ mining'.pc = "signature"
    BY <1>1, <1>2 DEF Formed
<1>5. ItemGood(mining')
    BY <1>4 DEF ItemGood
<1> QED
    BY <1>1, <1>3, <1>4, <1>5, <1>6, RunKnown, ZeroOne, StoringStep DEF Places, Late, OfLlm
LEMMA SignaturesDoneKeeps ==
    ASSUME Discovery!DiscoveryAssumption, DiscoveryInv, Discovery!SignaturesDone
    PROVE  DiscoveryInv'
<1>1. mining.pc = "signature" /\ known' = known /\ rules' = rules /\ made' = made
      /\ discoveries' = discoveries /\ Formed(mining)
    BY RunKnown DEF Discovery!SignaturesDone, Discovery!At
<1>2. PICK reply \in Discovery!Replies(mining.engine) :
         IF reply = Nothing THEN mining' \in Discovery!AfterLlm(mining)
         ELSE mining' = [mining EXCEPT !.pc = "llm", !.todo = reply.patterns,
                      !.later = {Discovery!Cleaned(r, Cardinality(reply.patterns)) : r \in reply.rules}]
    BY SameCardinality DEF Discovery!SignaturesDone, Discovery!Set
<1>3. CASE reply = Nothing
    <2>1. mining' \in Discovery!AfterLlm(mining)
        BY <1>2, <1>3
    <2>2. RunGood(mining', made')
        BY <1>1, <2>1, RunKnown, AfterLlmGood
    <2> QED
        BY <1>1, <2>2 DEF DiscoveryInv
<1>4. CASE reply # Nothing
    <2> DEFINE later == {Discovery!Cleaned(r, Cardinality(reply.patterns)) : r \in reply.rules}
    <2>1. reply \in Discovery!Answers
        BY <1>4 DEF Discovery!Replies, Discovery!OpenAIReplies, Discovery!LocalReplies
    <2>2. later \in SUBSET Discovery!SqlRecords
        BY <2>1, CleanedTyped DEF Discovery!Answers
    <2> DEFINE todo == reply.patterns
    <2>3. mining' = [mining EXCEPT !.pc = "llm", !.todo = todo, !.later = later]
        BY <1>2, <1>4
    <2> HIDE DEF later, todo
    <2>4. mining' = [mining EXCEPT !.pc = "llm", !.todo = todo, !.later = later,
                                   !.item = mining.item]
          /\ mining'.pc = "llm"
        BY <1>1, <2>3 DEF Formed
    <2>5. ItemGood(mining')
        BY <2>4 DEF ItemGood
    <2>6. "llm" \in Places \ {"idle"} /\ "llm" \in OfLlm /\ mining.pc # "idle"
          /\ mining.pc \notin Late
        BY <1>1 DEF Places, OfLlm, Late
    <2> QED
        BY <1>1, <2>2, <2>4, <2>5, <2>6, QuietStep
<1> QED
    BY <1>3, <1>4

LEMMA LlmPatternKeeps ==
    ASSUME Discovery!DiscoveryAssumption, DiscoveryInv, NEW p \in Proposals, Discovery!LlmPattern(p)
    PROVE  DiscoveryInv'
<1> DEFINE q == Discovery!Aligned(Discovery!Checked(p))
           rest == mining.todo \ {p}
           next == [mining EXCEPT !.todo = rest, !.extra = Discovery!Plus(mining.extra, 1, 0),
                                  !.llm = Discovery!Plus(mining.llm, 1, 0)]
<1>1. mining.pc = "llm" /\ known' = known /\ rules' = rules /\ discoveries' = discoveries
      /\ Formed(mining)
    BY RunKnown DEF Discovery!LlmPattern, Discovery!At
<1>2. made' = Discovery!Plus(made, 1, 0)
    BY DEF Discovery!LlmPattern, Discovery!Stored
<1>3. mining' = IF Discovery!InsightOnly(q) \/ q.sql = Nothing THEN next
                ELSE [next EXCEPT !.pc = "llm rule", !.item = {[sql |-> q.sql, source |-> p]}]
    BY DEF Discovery!LlmPattern, Discovery!Set
<1>4. known' \subseteq Names /\ \A x \in rules' : RuleGood(x)
    BY <1>1, RunKnown
<1>5. mining.pc \in OfLlm /\ "llm" \in OfLlm /\ "llm rule" \in OfLlm
    BY <1>1 DEF OfLlm
<1>6. CASE Discovery!InsightOnly(q) \/ q.sql = Nothing
    <2>1. mining' = next
        BY <1>3, <1>6
    <2> HIDE DEF rest
    <2>2. mining' = [mining EXCEPT !.pc = "llm", !.todo = rest, !.item = mining.item,
                                   !.extra = Discovery!Plus(mining.extra, 1, 0),
                                   !.llm = Discovery!Plus(mining.llm, 1, 0)]
          /\ mining'.pc = "llm"
        BY <1>1, <2>1 DEF Formed
    <2>3. ItemGood(mining')
        BY <2>2 DEF ItemGood
    <2> HIDE DEF next
    <2> QED
        BY <1>1, <1>2, <1>4, <1>5, <2>2, <2>3, ZeroOne, LlmStoringStep
<1>7. CASE ~(Discovery!InsightOnly(q) \/ q.sql = Nothing)
    <2> DEFINE item == {[sql |-> q.sql, source |-> p]}
    <2>1. mining' = [next EXCEPT !.pc = "llm rule", !.item = item]
        BY <1>3, <1>7
    <2>2. q.sql \in Discovery!SqlRecords /\ Trusted(p)
        BY <1>7, ActionableIsTrusted
    <2>3. \A i \in item : i.sql \in Discovery!SqlRecords /\ (i.source # Nothing => Trusted(i.source))
        BY <2>2
    <2> HIDE DEF item, rest, q
    <2>4. mining' = [mining EXCEPT !.pc = "llm rule", !.todo = rest, !.item = item,
                                   !.extra = Discovery!Plus(mining.extra, 1, 0),
                                   !.llm = Discovery!Plus(mining.llm, 1, 0)]
          /\ mining'.pc = "llm rule" /\ mining'.item = item
        BY <1>1, <2>1 DEF Formed
    <2>5. ItemGood(mining')
        BY <2>3, <2>4 DEF ItemGood
    <2> HIDE DEF next
    <2> QED
        BY <1>1, <1>2, <1>4, <1>5, <2>4, <2>5, ZeroOne, LlmStoringStep
<1> QED
    BY <1>6, <1>7

LEMMA LlmStandaloneKeeps ==
    ASSUME Discovery!DiscoveryAssumption, DiscoveryInv, NEW sql \in mining.later, Discovery!LlmStandalone(sql)
    PROVE  DiscoveryInv'
<1> DEFINE later == mining.later \ {sql}
           item == {[sql |-> sql, source |-> Nothing]}
<1>1. mining.pc = "llm" /\ known' = known /\ rules' = rules /\ made' = made
      /\ discoveries' = discoveries /\ Formed(mining)
    BY RunKnown DEF Discovery!LlmStandalone, Discovery!At
<1>2. mining' = [mining EXCEPT !.pc = "llm rule", !.later = later, !.item = item]
    BY DEF Discovery!LlmStandalone, Discovery!Set
<1>3. later \in SUBSET Discovery!SqlRecords /\ sql \in Discovery!SqlRecords
    BY RunKnown
<1>4. \A i \in item : i.sql \in Discovery!SqlRecords /\ (i.source # Nothing => Trusted(i.source))
    BY <1>3
<1> HIDE DEF later, item
<1>5. mining' = [mining EXCEPT !.pc = "llm rule", !.todo = mining.todo, !.later = later,
                               !.item = item]
      /\ mining'.pc = "llm rule" /\ mining'.item = item
    BY <1>1, <1>2 DEF Formed
<1>6. ItemGood(mining')
    BY <1>4, <1>5 DEF ItemGood
<1>7. "llm rule" \in Places \ {"idle"} /\ "llm rule" \in OfLlm /\ mining.pc # "idle"
      /\ mining.pc \notin Late
    BY <1>1 DEF Places, OfLlm, Late
<1> QED
    BY <1>1, <1>3, <1>5, <1>6, <1>7, QuietStep

LEMMA LlmRuleRefusedKeeps ==
    ASSUME Discovery!DiscoveryAssumption, DiscoveryInv, Discovery!LlmRuleRefused
    PROVE  DiscoveryInv'
<1>1. mining.pc = "llm rule" /\ known' = known /\ rules' = rules /\ made' = made
      /\ discoveries' = discoveries /\ Formed(mining) /\ mining.later \in SUBSET Discovery!SqlRecords
    BY RunKnown DEF Discovery!LlmRuleRefused, Discovery!At
<1>2. mining' = [mining EXCEPT !.pc = "llm", !.item = {}]
    BY DEF Discovery!LlmRuleRefused, Discovery!Set
<1>3. mining' = [mining EXCEPT !.pc = "llm", !.todo = mining.todo, !.later = mining.later,
                               !.item = {}]
      /\ mining'.pc = "llm"
    BY <1>1, <1>2 DEF Formed
<1>4. ItemGood(mining')
    BY <1>3 DEF ItemGood
<1>5. "llm" \in Places \ {"idle"} /\ "llm" \in OfLlm /\ mining.pc # "idle"
      /\ mining.pc \notin Late
    BY <1>1 DEF Places, OfLlm, Late
<1> QED
    BY <1>1, <1>3, <1>4, <1>5, QuietStep

\* The rule that the stage of the LLM has in hand.
LEMMA LlmItemGood ==
    ASSUME DiscoveryInv, mining.pc = "llm rule", NEW i \in mining.item
    PROVE  i.sql \in Discovery!SqlRecords /\ (i.source # Nothing => Trusted(i.source))
BY RunKnown DEF ItemGood

LEMMA LlmRuleStoredKeeps ==
    ASSUME Discovery!DiscoveryAssumption, DiscoveryInv, Discovery!LlmRuleStored
    PROVE  DiscoveryInv'
<1>1. mining.pc = "llm rule" /\ known' = known /\ discoveries' = discoveries /\ Formed(mining)
    BY RunKnown DEF Discovery!LlmRuleStored, Discovery!At
<1>2. PICK i \in mining.item :
         rules' = rules \cup {[sql |-> Discovery!Disarmed(i.sql), original |-> i.sql, classified |-> TRUE,
                               source |-> i.source]}
    BY DEF Discovery!LlmRuleStored, Discovery!NewRule
<1>3. i.sql \in Discovery!SqlRecords /\ (i.source # Nothing => Trusted(i.source))
    BY <1>1, LlmItemGood
<1>4. RuleGood([sql |-> Discovery!Disarmed(i.sql), original |-> i.sql, classified |-> TRUE,
                source |-> i.source])
    BY <1>3, DisarmedTyped DEF RuleGood
<1>5. \A x \in rules' : RuleGood(x)
    BY <1>2, <1>4, RunKnown
<1>6. mining' = [mining EXCEPT !.pc = "llm", !.item = {}, !.extra = Discovery!Plus(mining.extra, 0, 1),
                               !.llm = Discovery!Plus(mining.llm, 0, 1)]
    BY DEF Discovery!LlmRuleStored, Discovery!Set
<1>7. made' = Discovery!Plus(made, 0, 1)
    BY DEF Discovery!LlmRuleStored, Discovery!Stored
<1>8. mining' = [mining EXCEPT !.pc = "llm", !.todo = mining.todo, !.item = {},
                               !.extra = Discovery!Plus(mining.extra, 0, 1),
                               !.llm = Discovery!Plus(mining.llm, 0, 1)]
      /\ mining'.pc = "llm"
    BY <1>1, <1>6 DEF Formed
<1>9. ItemGood(mining')
    BY <1>8 DEF ItemGood
<1>10. mining.pc \in OfLlm /\ "llm" \in OfLlm /\ known' \subseteq Names
    BY <1>1, RunKnown DEF OfLlm
<1> QED
    BY <1>1, <1>5, <1>7, <1>8, <1>9, <1>10, ZeroOne, LlmStoringStep

\* A stage that raised: what it counted is dropped, what it stored, the r rules of
\* its last step among it, is not.
LEMMA DroppedGood ==
    ASSUME DiscoveryInv, mining.pc \in OfLlm, NEW r \in Nat, NEW m,
           m = [Discovery!Dropped EXCEPT !.llm = Discovery!Plus(mining.llm, 0, r)],
           NEW n \in Discovery!AfterLlm(m)
    PROVE  RunGood(n, Discovery!Plus(made, 0, r))
<1>1. Discovery!Dropped = [mining EXCEPT !.extra = Discovery!None, !.cut = TRUE] /\ Formed(mining)
    BY RunKnown DEF Discovery!Dropped
<1>2. m = [mining EXCEPT !.extra = Discovery!None, !.cut = TRUE,
                         !.llm = Discovery!Plus(mining.llm, 0, r)]
    BY <1>1 DEF Formed
<1>3. /\ Formed(m) /\ m.sum = mining.sum /\ m.extra = Discovery!None /\ m.cut = TRUE
      /\ m.llm = Discovery!Plus(mining.llm, 0, r)
    BY <1>1, <1>2 DEF Formed
<1>4. mining.cut = FALSE /\ mining.llm = mining.extra /\ Accounted(mining, made)
    BY RunKnown DEF OfLlm
<1>5. mining.sum \in Tally /\ mining.extra \in Tally /\ made \in Tally
    BY RunKnown
<1>6. m.llm \in Tally /\ Discovery!Plus(made, 0, r) \in Tally
    <2>1. mining.llm \in Tally /\ 0 \in Nat
        BY <1>4, <1>5
    <2>2. Discovery!Plus(mining.llm, 0, r) \in Tally /\ Discovery!Plus(made, 0, r) \in Tally
        BY <1>5, <2>1, PlusTyped
    <2> QED
        BY <1>3, <2>2
<1>7. made = Discovery!Plus(mining.sum, mining.extra.patterns, mining.extra.rules)
    BY <1>4 DEF Accounted
<1>8. Accounted(m, Discovery!Plus(made, 0, r))
    BY <1>3, <1>4, <1>5, <1>7 DEF Accounted, Discovery!Plus, Tally
<1> QED
    BY <1>3, <1>5, <1>6, <1>8, AfterLlmGood

LEMMA LlmRuleUncheckedKeeps ==
    ASSUME Discovery!DiscoveryAssumption, DiscoveryInv, Discovery!LlmRuleUnchecked
    PROVE  DiscoveryInv'
<1>1. mining.pc = "llm rule" /\ known' = known /\ discoveries' = discoveries
      /\ made' = Discovery!Plus(made, 0, 1)
      /\ mining' \in Discovery!AfterLlm([Discovery!Dropped EXCEPT
                                           !.llm = Discovery!Plus(Discovery!Dropped.llm, 0, 1)])
    BY DEF Discovery!LlmRuleUnchecked, Discovery!At, Discovery!Stored
<1>2. PICK i \in mining.item :
         rules' = rules \cup {[sql |-> i.sql, original |-> i.sql, classified |-> FALSE,
                               source |-> i.source]}
    BY DEF Discovery!LlmRuleUnchecked, Discovery!NewRule
<1>3. i.sql \in Discovery!SqlRecords /\ (i.source # Nothing => Trusted(i.source))
    BY <1>1, LlmItemGood
<1>4. RuleGood([sql |-> i.sql, original |-> i.sql, classified |-> FALSE,
                source |-> i.source])
    BY <1>3 DEF RuleGood
<1>5. \A x \in rules' : RuleGood(x)
    BY <1>2, <1>4, RunKnown
<1>6. Discovery!Dropped.llm = mining.llm
    BY RunKnown DEF Discovery!Dropped, Formed
<1>7. RunGood(mining', made')
    BY <1>1, <1>6, ZeroOne, DroppedGood DEF OfLlm
<1> QED
    BY <1>1, <1>5, <1>7 DEF DiscoveryInv

LEMMA LlmRaisesKeeps ==
    ASSUME Discovery!DiscoveryAssumption, DiscoveryInv, Discovery!LlmRaises
    PROVE  DiscoveryInv'
<1>1. mining.pc \in OfLlm /\ known' = known /\ rules' = rules /\ made' = made
      /\ discoveries' = discoveries /\ mining' \in Discovery!AfterLlm(Discovery!Dropped)
    BY DEF Discovery!LlmRaises, OfLlm
<1>2. made \in Tally /\ mining.llm \in Tally /\ Formed(mining)
    BY RunKnown
<1>3. Discovery!Plus(made, 0, 0) = made /\ Discovery!Plus(mining.llm, 0, 0) = mining.llm
    BY <1>2 DEF Discovery!Plus, Tally
<1>4. Discovery!Dropped = [Discovery!Dropped EXCEPT !.llm = mining.llm]
    BY <1>2 DEF Discovery!Dropped, Formed
<1>5. RunGood(mining', made')
    BY <1>1, <1>3, <1>4, ZeroOne, DroppedGood
<1> QED
    BY <1>1, <1>5 DEF DiscoveryInv

LEMMA LlmDoneKeeps ==
    ASSUME Discovery!DiscoveryAssumption, DiscoveryInv, Discovery!LlmDone
    PROVE  DiscoveryInv'
<1> DEFINE total == Discovery!Plus(mining.sum, mining.extra.patterns, mining.extra.rules)
           m == [mining EXCEPT !.extra = Discovery!None, !.sum = total]
<1>1. mining.pc = "llm" /\ known' = known /\ rules' = rules /\ made' = made
      /\ discoveries' = discoveries /\ mining' \in Discovery!AfterLlm(m)
    BY DEF Discovery!LlmDone, Discovery!At
<1>2. mining.sum \in Tally /\ mining.extra \in Tally /\ mining.llm \in Tally
      /\ made \in Tally /\ Formed(mining) /\ mining.cut = FALSE /\ Accounted(mining, made)
    BY <1>1, RunKnown
<1>3. total = made
    BY <1>2 DEF Accounted
<1> HIDE DEF total
<1>4. m = [mining EXCEPT !.extra = Discovery!None, !.sum = total]
    OBVIOUS
<1> HIDE DEF m
<1>5. Formed(m) /\ m.sum = total /\ m.extra = Discovery!None /\ m.llm = mining.llm /\ m.cut = FALSE
    <2>1. Formed(mining)
        BY <1>2
    <2>2. Formed(m) /\ m.sum = total /\ m.extra = Discovery!None /\ m.llm = mining.llm
          /\ m.cut = mining.cut
        BY <1>4, <2>1 DEF Formed
    <2> QED
        BY <1>2, <2>2
<1>6. Accounted(m, made)
    BY <1>2, <1>3, <1>5, NoneTyped DEF Accounted, Discovery!Plus, Tally
<1>7. RunGood(mining', made)
    BY <1>1, <1>2, <1>3, <1>5, <1>6, AfterLlmGood
<1> QED
    BY <1>1, <1>7 DEF DiscoveryInv
LEMMA ClusterPatternKeeps ==
    ASSUME Discovery!DiscoveryAssumption, DiscoveryInv, NEW c, Discovery!ClusterPattern(c)
    PROVE  DiscoveryInv'
<1> DEFINE rest == mining.todo \ {c}
           skip == [mining EXCEPT !.todo = rest]
           pattern == [skip EXCEPT !.sum = Discovery!Plus(mining.sum, 1, 0)]
<1>1. mining.pc = "cluster" /\ known' = known /\ rules' = rules /\ discoveries' = discoveries
      /\ Formed(mining) /\ mining.later \in SUBSET Discovery!SqlRecords
    BY RunKnown DEF Discovery!ClusterPattern, Discovery!At
<1>2. \/ mining' = skip /\ made' = made
      \/ mining' = pattern /\ made' = Discovery!Plus(made, 1, 0)
      \/ /\ made' = Discovery!Plus(made, 1, 0)
         /\ \E s \in Discovery!SemanticTexts :
               mining' = [pattern EXCEPT !.pc = "cluster rule", !.item = {s}]
    <2>1. skip.sum = mining.sum
        BY <1>1 DEF Formed
    <2> QED
        BY <2>1 DEF Discovery!ClusterPattern, Discovery!Set, Discovery!Stored
<1>3. mining.pc \in Late /\ mining.pc \notin OfLlm /\ mining.pc \notin {"idle"} \cup OfLlm
      /\ "cluster" \in Late /\ "cluster rule" \in Late /\ mining.pc # "idle"
      /\ "cluster" \in Places \ ({"idle"} \cup OfLlm)
      /\ "cluster rule" \in Places \ ({"idle"} \cup OfLlm)
      /\ "cluster" \in Places \ {"idle"}
    BY <1>1 DEF Late, OfLlm, Places
<1>4. known' \subseteq Names /\ \A x \in rules' : RuleGood(x)
    BY <1>1, RunKnown
<1> HIDE DEF rest
<1>5. CASE mining' = skip /\ made' = made
    <2>1. mining' = [mining EXCEPT !.pc = "cluster", !.todo = rest, !.later = mining.later,
                                   !.item = mining.item]
          /\ mining'.pc = "cluster"
        BY <1>1, <1>5 DEF Formed
    <2>2. ItemGood(mining') /\ made' = made
        BY <1>5, <2>1 DEF ItemGood
    <2> HIDE DEF skip, pattern
    <2> QED
        BY <1>1, <1>3, <2>1, <2>2, QuietStep
<1>6. CASE mining' = pattern /\ made' = Discovery!Plus(made, 1, 0)
    <2>1. mining' = [mining EXCEPT !.pc = "cluster", !.todo = rest, !.item = mining.item,
                                   !.sum = Discovery!Plus(mining.sum, 1, 0)]
          /\ mining'.pc = "cluster"
        BY <1>1, <1>6 DEF Formed
    <2>2. ItemGood(mining') /\ made' = Discovery!Plus(made, 1, 0)
        BY <1>6, <2>1 DEF ItemGood
    <2> HIDE DEF skip, pattern
    <2> QED
        BY <1>1, <1>3, <1>4, <2>1, <2>2, ZeroOne, StoringStep
<1>7. ASSUME made' = Discovery!Plus(made, 1, 0), NEW s \in Discovery!SemanticTexts,
             mining' = [pattern EXCEPT !.pc = "cluster rule", !.item = {s}]
      PROVE  DiscoveryInv'
    <2> DEFINE item == {s}
    <2>1. mining' = [pattern EXCEPT !.pc = "cluster rule", !.item = item] /\ item \subseteq Discovery!SqlRecords
        BY <1>7, SemanticTextTyped
    <2> HIDE DEF item
    <2>2. mining' = [mining EXCEPT !.pc = "cluster rule", !.todo = rest, !.item = item,
                                   !.sum = Discovery!Plus(mining.sum, 1, 0)]
          /\ mining'.pc = "cluster rule" /\ mining'.item = item
        BY <1>1, <2>1 DEF Formed
    <2>3. ItemGood(mining') /\ made' = Discovery!Plus(made, 1, 0)
        BY <1>7, <2>1, <2>2 DEF ItemGood
    <2> HIDE DEF skip, pattern
    <2> QED
        BY <1>1, <1>3, <1>4, <2>2, <2>3, ZeroOne, StoringStep
<1> QED
    BY <1>2, <1>5, <1>6, <1>7

LEMMA ClusterRuleKeeps ==
    ASSUME Discovery!DiscoveryAssumption, DiscoveryInv, Discovery!ClusterRule
    PROVE  DiscoveryInv'
<1>1. mining.pc = "cluster rule" /\ known' = known /\ discoveries' = discoveries
      /\ Formed(mining) /\ mining.later \in SUBSET Discovery!SqlRecords
    BY RunKnown DEF Discovery!ClusterRule, Discovery!At
<1>2. PICK s \in mining.item :
         \/ /\ rules' = rules \cup {[sql |-> s, original |-> s, classified |-> FALSE,
                                     source |-> Nothing]}
            /\ made' = Discovery!Plus(made, 0, 1)
            /\ mining' = [mining EXCEPT !.pc = "cluster", !.item = {},
                                        !.sum = Discovery!Plus(mining.sum, 0, 1)]
         \/ /\ rules' = rules /\ made' = made
            /\ mining' = [mining EXCEPT !.pc = "cluster", !.item = {}]
    BY DEF Discovery!ClusterRule, Discovery!NewRule, Discovery!Stored, Discovery!Set
<1>3. s \in Discovery!SqlRecords
    BY <1>1, RunKnown DEF ItemGood
<1>4. mining.pc \in Late /\ mining.pc \notin OfLlm /\ mining.pc \notin {"idle"} \cup OfLlm
      /\ "cluster" \in Late /\ mining.pc # "idle"
      /\ "cluster" \in Places \ ({"idle"} \cup OfLlm) /\ "cluster" \in Places \ {"idle"}
    BY <1>1 DEF Late, OfLlm, Places
<1>5. ASSUME rules' = rules, made' = made, mining' = [mining EXCEPT !.pc = "cluster", !.item = {}]
      PROVE  DiscoveryInv'
    <2>1. mining' = [mining EXCEPT !.pc = "cluster", !.todo = mining.todo,
                                   !.later = mining.later, !.item = {}]
          /\ mining'.pc = "cluster"
        BY <1>1, <1>5 DEF Formed
    <2>2. ItemGood(mining') /\ rules' = rules /\ made' = made
        BY <1>5, <2>1 DEF ItemGood
    <2> QED
        BY <1>1, <1>4, <2>1, <2>2, QuietStep
<1>6. ASSUME rules' = rules \cup {[sql |-> s, original |-> s, classified |-> FALSE,
                                   source |-> Nothing]},
             made' = Discovery!Plus(made, 0, 1),
             mining' = [mining EXCEPT !.pc = "cluster", !.item = {},
                                      !.sum = Discovery!Plus(mining.sum, 0, 1)]
      PROVE  DiscoveryInv'
    <2>1. RuleGood([sql |-> s, original |-> s, classified |-> FALSE, source |-> Nothing])
        BY <1>3 DEF RuleGood
    <2>2. \A x \in rules' : RuleGood(x)
        BY <1>6, <2>1, RunKnown
    <2>3. mining' = [mining EXCEPT !.pc = "cluster", !.todo = mining.todo, !.item = {},
                                   !.sum = Discovery!Plus(mining.sum, 0, 1)]
          /\ mining'.pc = "cluster"
        BY <1>1, <1>6 DEF Formed
    <2>4. ItemGood(mining') /\ made' = Discovery!Plus(made, 0, 1)
        BY <1>6, <2>3 DEF ItemGood
    <2>5. known' \subseteq Names
        BY <1>1, RunKnown
    <2> QED
        BY <1>1, <1>4, <2>2, <2>3, <2>4, <2>5, ZeroOne, StoringStep
<1> QED
    BY <1>2, <1>5, <1>6

LEMMA ClustersDoneKeeps ==
    ASSUME Discovery!DiscoveryAssumption, DiscoveryInv, Discovery!ClustersDone
    PROVE  DiscoveryInv'
<1>1. mining.pc = "cluster" /\ known' = known /\ rules' = rules /\ made' = made
      /\ discoveries' = discoveries /\ Formed(mining) /\ mining.later \in SUBSET Discovery!SqlRecords
    BY RunKnown DEF Discovery!ClustersDone, Discovery!At
<1>2. mining' = [mining EXCEPT !.pc = "done"]
    BY DEF Discovery!ClustersDone, Discovery!Set
<1>3. mining' = [mining EXCEPT !.pc = "done", !.todo = mining.todo, !.later = mining.later,
                               !.item = mining.item]
      /\ mining'.pc = "done"
    BY <1>1, <1>2 DEF Formed
<1>4. ItemGood(mining')
    BY <1>3 DEF ItemGood
<1>5. mining.pc \notin OfLlm /\ "done" \in Late /\ mining.pc # "idle"
      /\ "done" \in Places \ {"idle"}
    BY <1>1 DEF Late, OfLlm, Places
<1> QED
    BY <1>1, <1>3, <1>4, <1>5, QuietStep

LEMMA DiscoveryFailsKeeps ==
    ASSUME Discovery!DiscoveryAssumption, DiscoveryInv, Discovery!DiscoveryFails
    PROVE  DiscoveryInv'
<1>1. mining' = Discovery!NoMining /\ known' = known /\ rules' = rules /\ made' = made
      /\ discoveries' = discoveries /\ made \in Tally
    BY RunKnown DEF Discovery!DiscoveryFails, Discovery!Set
<1>2. RunGood(Discovery!NoMining, made)
    BY <1>1, NoneTyped DEF Discovery!NoMining, RunGood, Formed, Places, ItemGood, CountGood, Accounted
<1> QED
    BY <1>1, <1>2 DEF DiscoveryInv

-----------------------------------------------------------------------------
(* RuleDiscovery: what follows *)

LEMMA DiscoveryInvInit ==
    ASSUME Discovery!DiscoveryAssumption, Discovery!DiscoveryInit
    PROVE  DiscoveryInv
<1>1. made \in Tally /\ MaxDiscoveries \in Nat
    BY NoneTyped DEF Discovery!DiscoveryInit, Discovery!DiscoveryAssumption
<1>2. RunGood(Discovery!NoMining, made)
    BY <1>1, NoneTyped DEF Discovery!NoMining, RunGood, Formed, Places, ItemGood, CountGood, Accounted
<1> QED
    BY <1>1, <1>2 DEF Discovery!DiscoveryInit, DiscoveryInv

LEMMA DiscoveryInvStep ==
    ASSUME Discovery!DiscoveryAssumption, DiscoveryInv, [Discovery!DiscoveryNext]_(Discovery!discoveryVars)
    PROVE  DiscoveryInv'
<1>1. CASE \E engine, checked, semantic : Discovery!StartDiscovery(engine, checked, semantic)
    BY <1>1, StartDiscoveryKeeps
<1>2. CASE \E u \in Urls : Discovery!UrlPattern(u)
    BY <1>2, UrlPatternKeeps
<1>3. CASE Discovery!CountedRule("url rule", "url") \/ Discovery!CountedRule("keyword rule", "keyword")
    BY <1>3, CountedRuleKeeps
<1>4. CASE \E k \in Keywords : Discovery!KeywordPattern(k)
    BY <1>4, KeywordPatternKeeps
<1>5. CASE \E g \in Signatures : Discovery!SignaturePattern(g)
    BY <1>5, SignaturePatternKeeps
<1>6. CASE \E p \in Proposals : Discovery!LlmPattern(p)
    BY <1>6, LlmPatternKeeps
<1>7. CASE \E sql \in mining.later : Discovery!LlmStandalone(sql)
    BY <1>7, LlmStandaloneKeeps
<1>8. CASE \E c \in Clusters : Discovery!ClusterPattern(c)
    BY <1>8, ClusterPatternKeeps
<1>9. CASE Discovery!UrlsDone \/ Discovery!KeywordsDone \/ Discovery!SignaturesDone \/ Discovery!ClustersDone
    BY <1>9, UrlsDoneKeeps, KeywordsDoneKeeps, SignaturesDoneKeeps, ClustersDoneKeeps
<1>10. CASE Discovery!LlmRuleRefused \/ Discovery!LlmRuleStored \/ Discovery!LlmRuleUnchecked \/ Discovery!LlmRaises \/ Discovery!LlmDone
    BY <1>10, LlmRuleRefusedKeeps, LlmRuleStoredKeeps, LlmRuleUncheckedKeeps, LlmRaisesKeeps,
       LlmDoneKeeps
<1>11. CASE Discovery!ClusterRule \/ Discovery!DiscoveryFails
    BY <1>11, ClusterRuleKeeps, DiscoveryFailsKeeps
<1>12. CASE UNCHANGED Discovery!discoveryVars
    BY <1>12 DEF DiscoveryInv, Discovery!discoveryVars
<1> QED
    BY <1>1, <1>2, <1>3, <1>4, <1>5, <1>6, <1>7, <1>8, <1>9, <1>10, <1>11, <1>12
    DEF Discovery!DiscoveryNext

\* A comment is no statement that a check lets pass.
LEMMA CommentIsRefused ==
    ASSUME NEW s, s.head = "comment", NEW mode
    PROVE  /\ ~Discovery!Valid(s, mode) /\ ~Discovery!CoverageAllowed(s, mode, 0, 0, FALSE)
           /\ ~Discovery!SampleAllowed(s, mode, FALSE) /\ ~Discovery!PerformanceAllowed(s, mode, 0, 0, TRUE)
BY DEF Discovery!Valid, Discovery!CoverageAllowed, Discovery!SampleAllowed, Discovery!PerformanceAllowed

LEMMA InvDisarms == DiscoveryInv => Discovery!DangerousIsDisarmed
<1> SUFFICES ASSUME DiscoveryInv, NEW r \in rules, r.classified, Discovery!Dangerous(r.original),
                    NEW mode \in Discovery!Modes
             PROVE  /\ ~Discovery!Valid(r.sql, mode) /\ ~Discovery!CoverageAllowed(r.sql, mode, 0, 0, FALSE)
                    /\ ~Discovery!SampleAllowed(r.sql, mode, FALSE)
                    /\ ~Discovery!PerformanceAllowed(r.sql, mode, 0, 0, TRUE)
    BY DEF Discovery!DangerousIsDisarmed
<1>1. r.original \in Discovery!SqlRecords /\ r.sql = Discovery!Disarmed(r.original)
    BY RunKnown DEF RuleGood
<1>2. r.sql.head = "comment"
    BY <1>1, DisarmedTyped
<1> QED
    BY <1>2, CommentIsRefused

LEMMA InvReports == DiscoveryInv => Discovery!ReportedIsStored
<1> SUFFICES ASSUME DiscoveryInv, mining.pc = "done"
             PROVE  made = IF mining.cut
                           THEN Discovery!Plus(mining.sum, mining.llm.patterns, mining.llm.rules)
                           ELSE mining.sum
    BY DEF Discovery!ReportedIsStored, Discovery!At
<1>1. mining.sum \in Tally /\ mining.extra = Discovery!None /\ mining.cut \in BOOLEAN
      /\ Accounted(mining, made)
    BY RunKnown
<1>2. CASE mining.cut = TRUE
    BY <1>1, <1>2 DEF Accounted
<1>3. CASE mining.cut = FALSE
    <2>1. made = mining.sum
        BY <1>1, <1>3, NoneTyped DEF Accounted, Discovery!Plus, Tally
    <2> QED
        BY <1>3, <2>1
<1> QED
    BY <1>1, <1>2, <1>3

LEMMA InvInsight == DiscoveryInv => Discovery!InsightHasNoRule
BY RunKnown DEF Discovery!InsightHasNoRule, RuleGood, Trusted

LEMMA InvDiscoveryTyped == DiscoveryInv => Discovery!DiscoveryTypeOK
<1> SUFFICES ASSUME DiscoveryInv PROVE Discovery!DiscoveryTypeOK
    OBVIOUS
<1>1. \A r \in rules : r.sql \in Discovery!SqlRecords /\ r.original \in Discovery!SqlRecords
    BY RunKnown DEF RuleGood
<1>2. \A count \in {mining.sum, mining.extra, mining.llm, made} : count.patterns \in Nat /\ count.rules \in Nat
    BY RunKnown DEF Tally
<1>3. mining.pc \in Places /\ discoveries \in 0..MaxDiscoveries
    BY DEF DiscoveryInv, RunGood
<1>4. known \subseteq {u.name : u \in Urls} \cup {k.name : k \in Keywords}
    BY DEF DiscoveryInv
<1> QED
    BY <1>1, <1>2, <1>3, <1>4 DEF Discovery!DiscoveryTypeOK, Places
-----------------------------------------------------------------------------
(* The cases *)

\* The case of a part is one of its set.
CaseInv ==
    /\ part = "sql" => case \in Sqls
    /\ part = "tiers" => case \in Counts

LEMMA CasesStart == AnalysisInit => CaseInv
BY DEF AnalysisInit, CaseInv

\* What is not dangerous, safe without an evaluation and yet downgraded is one
\* condition alone.
LEMMA ClassesDoAgree ==
    ASSUME Nothing # "LOW", NEW s \in R!SqlRecords, NEW risk, NEW evals
    PROVE  R!ClassesAgree(s, risk, evals)
<1> SUFFICES ASSUME R!SafetyClass(s, risk, evals) = "AUTO_SAFE"
             PROVE  /\ R!Downgraded(s, TRUE, Nothing, Nothing, FALSE) =>
                          s.n = 1 /\ ~R!Conjunction(s)
                    /\ R!AlwaysTrue(s) => \/ \A mode \in R!Modes : ~R!Valid(s, mode)
                                          \/ s.where = "joined" /\ risk = "low"
    BY DEF R!ClassesAgree
<1>1. ~R!Dangerous(s) /\ R!DeterministicallySafe(s)
    BY DEF R!SafetyClass
<1>2. ~R!ConstantCondition(s) /\ "short" \notin s.likes /\ "stop" \notin s.likes
    BY <1>1 DEF R!Dangerous
<1>3. s.ors \in Nat /\ ~(s.ors > 5 /\ ~R!Conjunction(s))
    BY <1>1 DEF R!SqlRecords, R!DeterministicallySafe
<1>4. s.conj = "no" => ~R!Conjunction(s)
    BY DEF R!Conjunction
<1>5. R!Downgraded(s, TRUE, Nothing, Nothing, FALSE) => s.n = 1 /\ ~R!Conjunction(s)
    BY <1>2, <1>3, <1>4 DEF R!Downgraded
<1>6. CASE s.where = "joined"
    <2>1. R!AllSafe(s) => ~R!AlwaysTrue(s)
        BY <1>6 DEF R!AllSafe, R!AlwaysTrue
    <2>2. R!AllSafe(s) \/ risk = "low"
        BY <1>1 DEF R!SafetyClass
    <2> QED
        BY <1>5, <1>6, <2>1, <2>2
<1>7. CASE s.where # "joined"
    <2>1. R!AlwaysTrue(s) => \A mode \in R!Modes : ~R!Valid(s, mode)
        BY <1>7 DEF R!AlwaysTrue, R!Valid, R!MatchesEverything
    <2> QED
        BY <1>5, <2>1
<1> QED
    BY <1>6, <1>7

LEMMA TiersAreMonotone ==
    ASSUME NEW spam \in Nat, NEW ham \in Nat, NEW total \in Nat
    PROVE  R!MoreSpamNoLower(spam, ham, total)
BY DEF R!MoreSpamNoLower, R!Tier, R!Precise, R!HamRateWithin

-----------------------------------------------------------------------------
(* ShadowEvaluation: the rules that a pass chooses *)

\* What the instance takes from other modules is what they say.
LEMMA ShadowSame ==
    ASSUME NEW s, NEW S
    PROVE  /\ Shadow!Range(s) = Range(s) /\ Shadow!Cardinality(S) = Cardinality(S)
           /\ Shadow!Only(s, S) = Only(s, S)
           /\ Shadow!IsInjective(s) <=> IsInjective(s)
           /\ Shadow!IsFiniteSet(S) <=> IsFiniteSet(S)
<1>1. Shadow!Range(s) = Range(s)
    BY DEF Shadow!Range, Range
<1>2. Shadow!Cardinality(S) = Cardinality(S)
    BY DEF Shadow!Cardinality, Cardinality
<1>3. Shadow!Only(s, S) = Only(s, S)
    BY DEF Shadow!Only, Only
<1>4. Shadow!IsInjective(s) <=> IsInjective(s)
    BY DEF Shadow!IsInjective, IsInjective
<1>5. Shadow!IsFiniteSet(S) <=> IsFiniteSet(S)
    BY DEF Shadow!IsFiniteSet, IsFiniteSet
<1> QED
    BY <1>1, <1>2, <1>3, <1>4, <1>5

\* The rule with number j of s comes before the one with number i.
Better(s, j, i) ==
    Shadow!Quality(s[j]) > Shadow!Quality(s[i]) \/ (Shadow!Quality(s[j]) = Shadow!Quality(s[i]) /\ j < i)

BetterThan(s, i) == {j \in DOMAIN s : Better(s, j, i)}

LEMMA QualityType ==
    ASSUME Shadow!ShadowAssumption, latest \in [Rules -> Qualities \cup {Nothing}], NEW r \in Rules
    PROVE  Shadow!Quality(r) \in Nat
BY DEF Shadow!ShadowAssumption, Shadow!Quality

\* The places that the sort gives are those of a list, one for each rule.
LEMMA PlacesAreTaken ==
    ASSUME Shadow!ShadowAssumption, latest \in [Rules -> Qualities \cup {Nothing}],
           NEW s \in Seq(Rules)
    PROVE  /\ \A i \in 1..Len(s) : Shadow!Before(s, i) \in 0..(Len(s) - 1)
           /\ \A i, j \in 1..Len(s) : Better(s, j, i) => Shadow!Before(s, j) < Shadow!Before(s, i)
           /\ \A i, j \in 1..Len(s) : Shadow!Before(s, i) = Shadow!Before(s, j) => i = j
           /\ \A k \in 0..(Len(s) - 1) : \E i \in 1..Len(s) : Shadow!Before(s, i) = k
<1> DEFINE n == Len(s)
<1>1. n \in Nat /\ DOMAIN s = 1..n /\ \A i \in 1..n : s[i] \in Rules
    OBVIOUS
<1>2. \A i \in 1..n : Shadow!Quality(s[i]) \in Nat
    BY <1>1, QualityType
<1>3. IsFiniteSet(1..n) /\ Cardinality(1..n) = n
    BY <1>1, FS_Interval
<1>4. \A i \in 1..n : Shadow!Before(s, i) = Cardinality(BetterThan(s, i))
    BY ShadowSame DEF Shadow!Before, BetterThan, Better
<1> HIDE DEF n
<1>5. ASSUME NEW i \in 1..n PROVE IsFiniteSet(BetterThan(s, i)) /\ Cardinality(BetterThan(s, i)) \in 0..(n - 1)
    <2>1. BetterThan(s, i) \subseteq (1..n) \ {i}
        BY <1>1, <1>2 DEF BetterThan, Better
    <2>2. IsFiniteSet((1..n) \ {i}) /\ Cardinality((1..n) \ {i}) = n - 1
        BY <1>3, FS_RemoveElement
    <2>3. /\ IsFiniteSet(BetterThan(s, i)) /\ Cardinality(BetterThan(s, i)) \in Nat
          /\ Cardinality(BetterThan(s, i)) <= n - 1
        BY <2>1, <2>2, FS_Subset, FS_CardinalityType
    <2> QED
        BY <1>1, <2>3
<1>6. ASSUME NEW i \in 1..n, NEW j \in 1..n, Better(s, j, i) PROVE Shadow!Before(s, j) < Shadow!Before(s, i)
    <2>1. j \in BetterThan(s, i) /\ j \notin BetterThan(s, j)
        BY <1>1, <1>2, <1>6 DEF BetterThan, Better
    <2>2. ASSUME NEW k \in 1..n, Better(s, k, j) PROVE Better(s, k, i)
        BY <1>2, <1>6, <2>2 DEF Better
    <2>3. BetterThan(s, j) \subseteq BetterThan(s, i)
        BY <1>1, <2>2 DEF BetterThan
    <2>4. Cardinality(BetterThan(s, j)) < Cardinality(BetterThan(s, i))
        <3>1. /\ Cardinality(BetterThan(s, j)) <= Cardinality(BetterThan(s, i))
              /\ Cardinality(BetterThan(s, j)) = Cardinality(BetterThan(s, i))
                    => BetterThan(s, j) = BetterThan(s, i)
            BY <1>5, <2>3, FS_Subset
        <3>2. Cardinality(BetterThan(s, j)) # Cardinality(BetterThan(s, i))
            BY <2>1, <3>1
        <3>3. Cardinality(BetterThan(s, j)) \in Nat /\ Cardinality(BetterThan(s, i)) \in Nat
            BY <1>5
        <3> QED
            BY <3>1, <3>2, <3>3
    <2> QED
        BY <1>4, <2>4
<1>7. \A i \in 1..n : Shadow!Before(s, i) \in 0..(n - 1)
    BY <1>4, <1>5
<1>8. ASSUME NEW i \in 1..n, NEW j \in 1..n, Shadow!Before(s, i) = Shadow!Before(s, j), i # j PROVE FALSE
    <2>1. Better(s, i, j) \/ Better(s, j, i)
        BY <1>2, <1>8 DEF Better
    <2>2. Shadow!Before(s, i) \in Int /\ Shadow!Before(s, j) \in Int
        BY <1>1, <1>7
    <2>3. Shadow!Before(s, i) < Shadow!Before(s, j) \/ Shadow!Before(s, j) < Shadow!Before(s, i)
        BY <1>6, <2>1
    <2> QED
        BY <1>8, <2>2, <2>3
<1>9. ASSUME NEW k \in 0..(n - 1) PROVE \E i \in 1..n : Shadow!Before(s, i) = k
    <2> DEFINE B == [i \in 1..n |-> Shadow!Before(s, i)]
    <2>1. B \in Injection(1..n, 0..(n - 1))
        BY <1>7, <1>8 DEF Injection, IsInjective
    <2>2. IsFiniteSet(0..(n - 1)) /\ Cardinality(0..(n - 1)) = n
        BY <1>1, FS_Interval
    <2>3. B \in Surjection(1..n, 0..(n - 1))
        BY <1>3, <2>1, <2>2, FS_Injection
    <2> QED
        BY <2>3 DEF Surjection
<1> QED
    BY <1>6, <1>7, <1>8, <1>9 DEF n

\* What a pass chose is what it had to.
Selected(listed, chosen) ==
    IF Shadow!Limited(listed)
    THEN /\ Cardinality(Shadow!Range(chosen)) = MaxRules
         /\ \A r \in Shadow!Range(chosen), x \in Shadow!Range(listed) \ Shadow!Range(chosen) : Shadow!Quality(r) >= Shadow!Quality(x)
    ELSE Shadow!Range(chosen) = Shadow!Range(listed)

LEMMA ChosenIsSelected ==
    ASSUME Shadow!ShadowAssumption, latest \in [Rules -> Qualities \cup {Nothing}],
           NEW s \in Seq(Rules), IsInjective(s)
    PROVE  Shadow!Chosen(s) \in Seq(Rules) /\ Selected(s, Shadow!Chosen(s))
<1>1. CASE ~Shadow!Limited(s)
    BY <1>1 DEF Shadow!Chosen, Selected
<1>2. CASE Shadow!Limited(s)
    <2> DEFINE n == Len(s)
               c == Shadow!Chosen(s)
               at(k) == CHOOSE i \in DOMAIN s : Shadow!Before(s, i) = k - 1
    <2>1. n \in Nat /\ DOMAIN s = 1..n /\ MaxRules \in Nat /\ MaxRules < n
          /\ \A i \in 1..n : s[i] \in Rules
        BY <1>2 DEF Shadow!Limited, Shadow!ShadowAssumption
    <2>2. c = [k \in 1..MaxRules |-> s[at(k)]]
        BY <1>2 DEF Shadow!Chosen
    <2>3. \A k \in 1..MaxRules : at(k) \in 1..n /\ Shadow!Before(s, at(k)) = k - 1
        <3> SUFFICES ASSUME NEW k \in 1..MaxRules PROVE at(k) \in 1..n /\ Shadow!Before(s, at(k)) = k - 1
            OBVIOUS
        <3>1. k - 1 \in 0..(n - 1)
            BY <2>1
        <3>2. \E i \in 1..n : Shadow!Before(s, i) = k - 1
            BY <3>1, PlacesAreTaken
        <3> QED
            BY <2>1, <3>2
    <2> HIDE DEF n, c, at
    <2>4. c \in Seq(Rules) /\ DOMAIN c = 1..MaxRules /\ \A k \in 1..MaxRules : c[k] = s[at(k)]
        BY <2>1, <2>2, <2>3
    <2>5. \A i, j \in 1..n : Shadow!Before(s, i) = Shadow!Before(s, j) => i = j
        BY PlacesAreTaken DEF n
    <2>6. \A i, j \in 1..n : s[i] = s[j] => i = j
        BY <2>1 DEF IsInjective
    <2>7. Cardinality(Shadow!Range(c)) = MaxRules
        <3>1. \A k, l \in 1..MaxRules : c[k] = c[l] => k = l
            <4> SUFFICES ASSUME NEW k \in 1..MaxRules, NEW l \in 1..MaxRules, c[k] = c[l]
                         PROVE  k = l
                OBVIOUS
            <4>1. at(k) = at(l)
                BY <2>3, <2>4, <2>6
            <4>2. k - 1 = l - 1
                BY <2>3, <4>1
            <4> QED
                BY <4>2
        <3>2. c \in Bijection(1..MaxRules, Shadow!Range(c))
            BY <2>4, <3>1 DEF Bijection, Injection, Surjection, IsInjective, Shadow!Range
        <3>3. IsFiniteSet(1..MaxRules) /\ Cardinality(1..MaxRules) = MaxRules
            BY <2>1, FS_Interval
        <3>4. ExistsBijection(1..MaxRules, Shadow!Range(c))
            BY <3>2 DEF ExistsBijection
        <3> QED
            BY <3>3, <3>4, FS_Bijection
    <2>8. ASSUME NEW r \in Shadow!Range(c), NEW x \in Shadow!Range(s), x \notin Shadow!Range(c)
          PROVE  Shadow!Quality(r) >= Shadow!Quality(x)
        <3>1. PICK k \in 1..MaxRules : r = s[at(k)]
            BY <2>4 DEF Shadow!Range
        <3>2. PICK j \in 1..n : x = s[j]
            BY <2>1 DEF Shadow!Range
        <3>3. Shadow!Quality(r) \in Nat /\ Shadow!Quality(x) \in Nat
            BY <2>1, <2>3, <3>1, <3>2, QualityType
        <3>4. ASSUME Shadow!Quality(x) > Shadow!Quality(r) PROVE FALSE
            <4>1. Better(s, j, at(k))
                BY <3>1, <3>2, <3>4 DEF Better
            <4>2. Shadow!Before(s, j) < Shadow!Before(s, at(k)) /\ Shadow!Before(s, j) \in 0..(n - 1)
                BY <2>3, <4>1, PlacesAreTaken DEF n
            <4> DEFINE l == Shadow!Before(s, j) + 1
            <4>3. l \in 1..MaxRules /\ l - 1 = Shadow!Before(s, j)
                BY <2>1, <2>3, <4>2
            <4>4. at(l) = j
                BY <2>3, <2>5, <4>3
            <4>5. x = c[l]
                BY <2>4, <3>2, <4>3, <4>4
            <4> HIDE DEF l
            <4> QED
                BY <2>4, <2>8, <4>3, <4>5 DEF Shadow!Range
        <3> QED
            BY <3>3, <3>4
    <2>9. Selected(s, c)
        BY <1>2, <2>7, <2>8 DEF Selected
    <2> QED
        BY <2>4, <2>9 DEF c
<1> QED
    BY <1>1, <1>2

\* The parts of the workers make up the whole.
LEMMA ChunksCover ==
    ASSUME Shadow!ShadowAssumption, NEW s \in Seq(Rules)
    PROVE  /\ \A w \in 1..Workers : Shadow!Chunk(s, w) \in Seq(Rules)
           /\ UNION {Shadow!Range(Shadow!Chunk(s, w)) : w \in 1..Workers} = Shadow!Range(s)
<1>1. Workers \in Nat \ {0} /\ Len(s) \in Nat /\ DOMAIN s = 1..Len(s)
      /\ \A i \in 1..Len(s) : s[i] \in Rules
    BY DEF Shadow!ShadowAssumption
<1>2. CASE ~(Workers > 1 /\ Len(s) > 1)
    <2>1. \A w \in 1..Workers : Shadow!Chunk(s, w) = IF w = 1 THEN s ELSE <<>>
        BY <1>2 DEF Shadow!Chunk
    <2>2. 1 \in 1..Workers /\ Shadow!Range(<<>>) = {} /\ <<>> \in Seq(Rules)
        BY <1>1 DEF Shadow!Range
    <2>3. \A w \in 1..Workers : Shadow!Chunk(s, w) \in Seq(Rules) /\ Shadow!Range(Shadow!Chunk(s, w)) \subseteq Shadow!Range(s)
        BY <2>1, <2>2
    <2>4. Shadow!Chunk(s, 1) = s
        BY <2>1, <2>2
    <2> QED
        BY <2>2, <2>3, <2>4
<1>3. CASE Workers > 1 /\ Len(s) > 1
    <2> DEFINE n == Len(s)
               size(w) == (n - w) \div Workers + 1
    <2>1. \A w \in 1..Workers : Shadow!Chunk(s, w) = [k \in 1..size(w) |-> s[(k - 1) * Workers + w]]
        BY <1>3 DEF Shadow!Chunk
    <2>2. ASSUME NEW w \in 1..Workers
          PROVE  size(w) \in Nat /\ (size(w) - 1) * Workers <= n - w
                 /\ n - w < size(w) * Workers
        <3> DEFINE q == (n - w) \div Workers
        <3>1. q \in Int /\ Workers * q <= n - w /\ n - w < Workers * (q + 1)
            BY <1>1
        <3> HIDE DEF q
        <3>2. q >= -1
            <4>1. ASSUME q + 1 <= -1 PROVE FALSE
                <5>1. Workers * (q + 1) <= -Workers
                    BY <1>1, <3>1, <4>1
                <5> QED
                    BY <1>1, <3>1, <5>1
            <4> QED
                BY <3>1, <4>1
        <3>3. size(w) = q + 1
            BY DEF q
        <3> HIDE DEF size
        <3> QED
            BY <1>1, <3>1, <3>2, <3>3
    <2>3. ASSUME NEW w \in 1..Workers, NEW k \in 1..size(w)
          PROVE  (k - 1) * Workers + w \in 1..n
        <3>1. size(w) \in Nat /\ (size(w) - 1) * Workers <= n - w
            BY <2>2
        <3> HIDE DEF size
        <3>2. k - 1 \in Nat /\ k - 1 <= size(w) - 1
            BY <3>1
        <3>3. (k - 1) * Workers \in Nat /\ (k - 1) * Workers <= (size(w) - 1) * Workers
            BY <1>1, <3>1, <3>2
        <3> QED
            BY <1>1, <3>1, <3>3
    <2>4. ASSUME NEW i \in 1..n
          PROVE  \E w \in 1..Workers : \E k \in 1..size(w) : i = (k - 1) * Workers + w
        <3> DEFINE q == (i - 1) \div Workers
                   w == i - Workers * q
                   k == q + 1
        <3>1. q \in Nat /\ Workers * q <= i - 1 /\ i - 1 < Workers * (q + 1)
            BY <1>1
        <3> HIDE DEF q
        <3>2. w \in 1..Workers
            BY <1>1, <3>1
        <3>3. i = (k - 1) * Workers + w
            BY <1>1, <3>1
        <3>4. size(w) \in Nat /\ n - w < size(w) * Workers
            BY <2>2, <3>2
        <3> HIDE DEF w, size
        <3>5. ASSUME size(w) < k PROVE FALSE
            <4>1. size(w) <= q
                BY <3>1, <3>4, <3>5
            <4>2. size(w) * Workers <= q * Workers
                BY <1>1, <3>1, <3>4, <4>1
            <4>3. q * Workers <= n - w
                BY <1>1, <3>1, <3>2, <3>3
            <4> QED
                BY <1>1, <3>1, <3>2, <3>4, <4>2, <4>3
        <3>6. k \in 1..size(w)
            BY <3>1, <3>4, <3>5
        <3> HIDE DEF k
        <3> QED
            BY <3>2, <3>3, <3>6
    <2> HIDE DEF size, n
    <2>5. \A w \in 1..Workers : size(w) \in Nat
        BY <2>2
    <2>6. \A w \in 1..Workers : \A k \in 1..size(w) : s[(k - 1) * Workers + w] \in Rules
        BY <1>1, <2>3 DEF n
    <2>7. \A w \in 1..Workers : Shadow!Chunk(s, w) \in Seq(Rules)
        BY <2>1, <2>5, <2>6
    <2>8. \A w \in 1..Workers : Shadow!Range(Shadow!Chunk(s, w)) = {s[(k - 1) * Workers + w] : k \in 1..size(w)}
        <3> SUFFICES ASSUME NEW w \in 1..Workers
                     PROVE  Shadow!Range(Shadow!Chunk(s, w)) = {s[(k - 1) * Workers + w] : k \in 1..size(w)}
            OBVIOUS
        <3> DEFINE c == Shadow!Chunk(s, w)
        <3>1. DOMAIN c = 1..size(w) /\ \A k \in 1..size(w) : c[k] = s[(k - 1) * Workers + w]
            BY <2>1
        <3> HIDE DEF c
        <3>2. Shadow!Range(c) = {c[k] : k \in 1..size(w)}
            BY <3>1 DEF Shadow!Range
        <3>3. {c[k] : k \in 1..size(w)} = {s[(k - 1) * Workers + w] : k \in 1..size(w)}
            BY <3>1
        <3> QED
            BY <3>2, <3>3 DEF c
    <2>9. Shadow!Range(s) = {s[i] : i \in 1..n}
        BY <1>1 DEF Shadow!Range, n
    <2>10. ASSUME NEW w \in 1..Workers PROVE Shadow!Range(Shadow!Chunk(s, w)) \subseteq Shadow!Range(s)
        BY <2>3, <2>8, <2>9
    <2>11. ASSUME NEW x \in Shadow!Range(s) PROVE \E w \in 1..Workers : x \in Shadow!Range(Shadow!Chunk(s, w))
        <3>1. PICK i \in 1..n : x = s[i]
            BY <2>9
        <3>2. PICK w \in 1..Workers : \E k \in 1..size(w) : i = (k - 1) * Workers + w
            BY <2>4
        <3> QED
            BY <2>8, <3>1, <3>2
    <2> QED
        BY <2>7, <2>10, <2>11
<1> QED
    BY <1>2, <1>3

\* What Shadow's machine keeps: besides the types, what a pass listed and chose, and
\* that each rule chosen has a result or is still in some worker's queue.
Waiting(q) == UNION {Shadow!Range(q[w]) : w \in 1..Workers}

PassGood(p, q, res) ==
    /\ p.pc = "choose" => Shadow!IsInjective(p.listed)
    /\ p.pc \in {"list", "mine", "choose"} => res = <<>>
    /\ p.pc \in {"work", "done"} => Selected(p.listed, p.chosen)
    /\ p.pc = "work" => Shadow!Range(p.chosen) = DOMAIN res \cup Waiting(q)
    /\ p.pc = "done" => Shadow!Range(p.chosen) = DOMAIN res

ShadowInv == Shadow!ShadowTypeOK /\ PassGood(pass, queue, results)


LEMMA EmptyRange == Shadow!Range(<<>>) = {} /\ DOMAIN (<<>>) = {} /\ <<>> \in Seq(Rules)
BY DEF Shadow!Range

LEMMA EnterKeepsOrder ==
    ASSUME NEW s \in Seq(Rules), Shadow!IsInjective(s), NEW r \in Rules, r \notin Shadow!Range(s)
    PROVE  <<r>> \o s \in Seq(Rules) /\ Shadow!IsInjective(<<r>> \o s)
<1> DEFINE t == <<r>> \o s
<1>1. /\ t \in Seq(Rules) /\ Len(s) \in Nat /\ DOMAIN s = 1..Len(s)
      /\ DOMAIN t = 1..(Len(s) + 1) /\ t[1] = r
      /\ \A i \in 1..(Len(s) + 1) : i # 1 => t[i] = s[i - 1] /\ i - 1 \in 1..Len(s)
    OBVIOUS
<1> HIDE DEF t
<1>2. \A i \in 1..Len(s) : s[i] # r
    BY <1>1 DEF Shadow!Range
<1>3. ASSUME NEW i \in 1..(Len(s) + 1), NEW j \in 1..(Len(s) + 1), t[i] = t[j]
      PROVE  i = j
    <2>1. CASE i = 1 \/ j = 1
        BY <1>1, <1>2, <1>3, <2>1
    <2>2. CASE i # 1 /\ j # 1
        <3>1. s[i - 1] = s[j - 1]
            BY <1>1, <1>3, <2>2
        <3>2. i - 1 = j - 1
            BY <1>1, <2>2, <3>1 DEF Shadow!IsInjective
        <3> QED
            BY <1>1, <3>2
    <2> QED
        BY <2>1, <2>2
<1>4. Shadow!IsInjective(t)
    BY <1>1, <1>3 DEF Shadow!IsInjective
<1> QED
    BY <1>1, <1>4 DEF t

LEMMA OnlyKeepsOrder ==
    ASSUME NEW s \in Seq(Rules), Shadow!IsInjective(s), NEW S
    PROVE  Only(s, S) \in Seq(Rules) /\ Shadow!IsInjective(Only(s, S))
<1>1. Only(s, S) \in Seq(Rules) /\ IsInjective(Only(s, S))
    BY ShadowSame, OnlyFacts
<1> QED
    BY <1>1, ShadowSame

LEMMA HeadAndTail ==
    ASSUME NEW s \in Seq(Rules), s # <<>>
    PROVE  /\ Head(s) \in Rules /\ Tail(s) \in Seq(Rules)
           /\ Shadow!Range(s) = {Head(s)} \cup Shadow!Range(Tail(s))
<1> DEFINE t == Tail(s)
<1>1. /\ Len(s) \in Nat /\ Len(s) > 0 /\ DOMAIN s = 1..Len(s) /\ Head(s) = s[1]
      /\ 1 \in 1..Len(s) /\ s[1] \in Rules
    OBVIOUS
<1>2. /\ t \in Seq(Rules) /\ DOMAIN t = 1..(Len(s) - 1)
      /\ \A n \in 1..(Len(s) - 1) : t[n] = s[n + 1] /\ n + 1 \in 1..Len(s)
    OBVIOUS
<1> HIDE DEF t
<1>3. \A n \in 1..Len(s) : n # 1 => n - 1 \in 1..(Len(s) - 1) /\ t[n - 1] = s[n]
    BY <1>1, <1>2
<1>4. Shadow!Range(s) = {Head(s)} \cup Shadow!Range(t)
    <2>1. ASSUME NEW x \in Shadow!Range(s) PROVE x \in {Head(s)} \cup Shadow!Range(t)
        <3>1. PICK n \in 1..Len(s) : x = s[n]
            BY <1>1, <2>1 DEF Shadow!Range
        <3>2. CASE n = 1
            BY <1>1, <3>1, <3>2
        <3>3. CASE n # 1
            BY <1>2, <1>3, <3>1, <3>3 DEF Shadow!Range
        <3> QED
            BY <3>2, <3>3
    <2>2. ASSUME NEW x \in Shadow!Range(t) PROVE x \in Shadow!Range(s)
        BY <1>1, <1>2, <2>2 DEF Shadow!Range
    <2>3. Head(s) \in Shadow!Range(s)
        BY <1>1 DEF Shadow!Range
    <2> QED
        BY <2>1, <2>2, <2>3
<1> QED
    BY <1>1, <1>2, <1>4 DEF t

LEMMA ShadowInvStarts ==
    ASSUME Shadow!ShadowAssumption, Shadow!ShadowInit
    PROVE  ShadowInv
<1>1. shadow \in Seq(Rules) /\ Shadow!IsInjective(shadow)
    <2>1. PICK n \in 0..Cardinality(Rules) : shadow \in [1..n -> Rules] /\ Shadow!IsInjective(shadow)
        BY ShadowSame DEF Shadow!ShadowInit
    <2>2. Cardinality(Rules) \in Nat
        BY ShadowSame, FS_CardinalityType DEF Shadow!ShadowAssumption
    <2>3. n \in Nat
        BY <2>1, <2>2
    <2> QED
        BY <2>1, <2>3
<1>2. /\ pass.pc = "idle" /\ pass.harness = FALSE /\ pass.listed = <<>> /\ pass.chosen = <<>>
      /\ pass = [pc |-> "idle", harness |-> FALSE, listed |-> <<>>, chosen |-> <<>>]
    BY DEF Shadow!ShadowInit, Shadow!NoPass
<1>3. queue \in [1..Workers -> Seq(Rules)]
    BY EmptyRange DEF Shadow!ShadowInit, Shadow!NoQueues
<1>4. DOMAIN results \subseteq Rules
    BY EmptyRange DEF Shadow!ShadowInit
<1>5. latest \in [Rules -> Qualities \cup {Nothing}]
    BY DEF Shadow!ShadowInit
<1>6. PassGood(pass, queue, results)
    BY <1>2 DEF PassGood
<1> QED
    BY <1>1, <1>2, <1>3, <1>4, <1>5, <1>6, EmptyRange DEF ShadowInv, Shadow!ShadowTypeOK

\* What pass can be.
Passes == [pc: {"idle", "mine", "list", "choose", "work", "done", "failed"},
           harness: BOOLEAN, listed: Seq(Rules), chosen: Seq(Rules)]

\* A step that leaves shadow alone: the new pass, queues and results are enough.
LEMMA PassSteps ==
    ASSUME ShadowInv, shadow' = shadow, latest' = latest,
           pass' \in Passes, queue' \in [1..Workers -> Seq(Rules)],
           DOMAIN results' \subseteq Rules, PassGood(pass', queue', results')
    PROVE  ShadowInv'
<1>1. Shadow!ShadowTypeOK'
    <2>1. /\ shadow \in Seq(Rules) /\ Shadow!IsInjective(shadow)
          /\ latest \in [Rules -> Qualities \cup {Nothing}]
        BY DEF ShadowInv, Shadow!ShadowTypeOK
    <2>2. Shadow!IsInjective(shadow)'
        BY <2>1
    <2> QED
        BY <2>1, <2>2 DEF Shadow!ShadowTypeOK, Passes
<1>2. PassGood(pass, queue, results)'
    BY DEF PassGood, Selected, Shadow!Limited, Shadow!Quality
<1> QED
    BY <1>1, <1>2 DEF ShadowInv

\* A step that changes shadow, and of the pass at most the flag of the harness.
LEMMA ShadowSteps ==
    ASSUME ShadowInv, shadow' \in Seq(Rules), Shadow!IsInjective(shadow'),
           latest' = latest, queue' = queue, results' = results,
           pass' \in Passes, pass'.pc = pass.pc, pass'.listed = pass.listed,
           pass'.chosen = pass.chosen
    PROVE  ShadowInv'
<1>1. Shadow!ShadowTypeOK'
    BY DEF ShadowInv, Shadow!ShadowTypeOK, Passes
<1>2. PassGood(pass, queue, results)'
    BY DEF ShadowInv, PassGood, Selected, Shadow!Limited, Shadow!Quality
<1> QED
    BY <1>1, <1>2 DEF ShadowInv

\* What the steps need of the state they start from.
LEMMA ShadowInvGives ==
    ASSUME ShadowInv
    PROVE  /\ shadow \in Seq(Rules) /\ Shadow!IsInjective(shadow)
           /\ latest \in [Rules -> Qualities \cup {Nothing}]
           /\ pass \in Passes /\ pass.listed \in Seq(Rules) /\ pass.chosen \in Seq(Rules)
           /\ queue \in [1..Workers -> Seq(Rules)]
           /\ DOMAIN results \subseteq Rules
           /\ PassGood(pass, queue, results)
BY DEF ShadowInv, Shadow!ShadowTypeOK, Passes

\* The text keeps the first name of a queue that is not empty.
LEMMA QueueMoves ==
    ASSUME NEW q \in [1..Workers -> Seq(Rules)], NEW w \in 1..Workers, q[w] # <<>>
    PROVE  /\ [q EXCEPT ![w] = Tail(@)] \in [1..Workers -> Seq(Rules)]
           /\ Head(q[w]) \in Rules
           /\ Waiting(q) = {Head(q[w])} \cup Waiting([q EXCEPT ![w] = Tail(@)])
<1> DEFINE q2 == [q EXCEPT ![w] = Tail(@)]
<1>1. /\ Head(q[w]) \in Rules /\ Tail(q[w]) \in Seq(Rules)
      /\ Shadow!Range(q[w]) = {Head(q[w])} \cup Shadow!Range(Tail(q[w]))
    BY HeadAndTail
<1>2. /\ q2 \in [1..Workers -> Seq(Rules)] /\ q2[w] = Tail(q[w])
      /\ \A v \in 1..Workers : v # w => q2[v] = q[v]
    BY <1>1
<1> HIDE DEF q2
<1>3. Waiting(q) = {Head(q[w])} \cup Waiting(q2)
    <2>1. ASSUME NEW x \in Waiting(q) PROVE x \in {Head(q[w])} \cup Waiting(q2)
        <3>1. PICK v \in 1..Workers : x \in Shadow!Range(q[v])
            BY <2>1 DEF Waiting
        <3>2. CASE v = w
            <4>1. x \in {Head(q[w])} \/ x \in Shadow!Range(q2[w])
                BY <1>1, <1>2, <3>1, <3>2
            <4> QED
                BY <4>1 DEF Waiting
        <3>3. CASE v # w
            <4>1. x \in Shadow!Range(q2[v])
                BY <1>2, <3>1, <3>3
            <4> QED
                BY <4>1 DEF Waiting
        <3> QED
            BY <3>2, <3>3
    <2>2. ASSUME NEW x \in Waiting(q2) PROVE x \in Waiting(q)
        <3>1. PICK v \in 1..Workers : x \in Shadow!Range(q2[v])
            BY <2>2 DEF Waiting
        <3>2. x \in Shadow!Range(q[v])
            <4>1. CASE v = w
                BY <1>1, <1>2, <3>1, <4>1
            <4>2. CASE v # w
                BY <1>2, <3>1, <4>2
            <4> QED
                BY <4>1, <4>2
        <3> QED
            BY <3>2 DEF Waiting
    <2>3. Head(q[w]) \in Waiting(q)
        BY <1>1 DEF Waiting
    <2> QED
        BY <2>1, <2>2, <2>3
<1> QED
    BY <1>1, <1>2, <1>3 DEF q2

LEMMA NoQueuesWait == Shadow!NoQueues \in [1..Workers -> Seq(Rules)] /\ Waiting(Shadow!NoQueues) = {}
BY EmptyRange DEF Shadow!NoQueues, Waiting

\* A pass of one rule.
LEMMA NamedIsSelected ==
    ASSUME Shadow!ShadowAssumption, NEW r \in Rules
    PROVE  /\ <<r>> \in Seq(Rules) /\ Shadow!Range(<<r>>) = {r} /\ Selected(<<r>>, <<r>>)
<1>1. <<r>> \in Seq(Rules) /\ Len(<<r>>) = 1
    OBVIOUS
<1>2. Shadow!Range(<<r>>) = {r}
    BY DEF Shadow!Range
<1>3. ~Shadow!Limited(<<r>>)
    BY <1>1 DEF Shadow!Limited, Shadow!ShadowAssumption
<1> QED
    BY <1>1, <1>2, <1>3 DEF Selected

LEMMA StepOther ==
    ASSUME Shadow!ShadowAssumption, ShadowInv, NEW r \in Rules, Shadow!Enter(r) \/ Shadow!Leave(r)
    PROVE  ShadowInv'
<1>1. shadow \in Seq(Rules) /\ Shadow!IsInjective(shadow) /\ pass \in Passes
    BY ShadowInvGives
<1>2. shadow' \in Seq(Rules) /\ Shadow!IsInjective(shadow')
    <2>1. CASE Shadow!Enter(r)
        BY <1>1, <2>1, EnterKeepsOrder DEF Shadow!Enter
    <2>2. CASE Shadow!Leave(r)
        <3>1. shadow' = Only(shadow, Rules \ {r})
            BY <2>2, ShadowSame DEF Shadow!Leave
        <3> QED
            BY <1>1, <3>1, OnlyKeepsOrder
    <2> QED
        BY <2>1, <2>2
<1>3. latest' = latest /\ queue' = queue /\ results' = results /\ pass' = pass
    BY DEF Shadow!Enter, Shadow!Leave
<1> QED
    BY <1>1, <1>2, <1>3, ShadowSteps

LEMMA StepPromotes ==
    ASSUME Shadow!ShadowAssumption, ShadowInv, Shadow!HarnessPromotes
    PROVE  ShadowInv'
<1>1. shadow \in Seq(Rules) /\ Shadow!IsInjective(shadow) /\ pass \in Passes
    BY ShadowInvGives
<1>2. PICK promoted \in SUBSET Shadow!Range(shadow) : shadow' = Only(shadow, Rules \ promoted)
    BY ShadowSame DEF Shadow!HarnessPromotes
<1>3. shadow' \in Seq(Rules) /\ Shadow!IsInjective(shadow')
    BY <1>1, <1>2, OnlyKeepsOrder
<1>4. latest' = latest /\ queue' = queue /\ results' = results
    BY DEF Shadow!HarnessPromotes
<1>5. pass' \in Passes /\ pass'.pc = pass.pc /\ pass'.listed = pass.listed
      /\ pass'.chosen = pass.chosen
    BY <1>1 DEF Shadow!HarnessPromotes, Passes
<1> QED
    BY <1>3, <1>4, <1>5, ShadowSteps

\* A pass begins, or one rule is evaluated by itself.
LEMMA StepBegins ==
    ASSUME Shadow!ShadowAssumption, ShadowInv,
           Shadow!StartPass \/ Shadow!StartHarness \/ \E r \in Rules : Shadow!EvaluateNamed(r)
    PROVE  ShadowInv'
<1>1. CASE Shadow!StartPass \/ Shadow!StartHarness
    <2>1. shadow' = shadow /\ latest' = latest /\ queue' = Shadow!NoQueues /\ results' = <<>>
        BY <1>1 DEF Shadow!StartPass, Shadow!StartHarness
    <2>2. pass' \in Passes /\ pass'.pc \in {"list", "mine"}
        BY <1>1, EmptyRange DEF Shadow!StartPass, Shadow!StartHarness, Shadow!NoPass, Passes
    <2>3. PassGood(pass', queue', results')
        BY <2>1, <2>2 DEF PassGood
    <2> QED
        BY <2>1, <2>2, <2>3, NoQueuesWait, EmptyRange, PassSteps
<1>2. ASSUME NEW r \in Rules, Shadow!EvaluateNamed(r) PROVE ShadowInv'
    <2>1. shadow' = shadow /\ latest' = latest /\ queue' = Shadow!NoQueues /\ DOMAIN results' = {r}
        BY <1>2 DEF Shadow!EvaluateNamed
    <2>2. pass' \in Passes /\ pass'.pc = "done" /\ pass'.listed = <<r>> /\ pass'.chosen = <<r>>
        BY <1>2, NamedIsSelected DEF Shadow!EvaluateNamed, Shadow!NoPass, Passes
    <2>3. PassGood(pass', queue', results')
        BY <2>1, <2>2, NamedIsSelected DEF PassGood
    <2> QED
        BY <2>1, <2>2, <2>3, NoQueuesWait, PassSteps
<1> QED
    BY <1>1, <1>2

LEMMA StepListed ==
    ASSUME Shadow!ShadowAssumption, ShadowInv, Shadow!HarnessMines \/ Shadow!ListShadow
    PROVE  ShadowInv'
<1>1. /\ shadow \in Seq(Rules) /\ Shadow!IsInjective(shadow) /\ pass \in Passes
      /\ queue \in [1..Workers -> Seq(Rules)] /\ DOMAIN results \subseteq Rules
      /\ PassGood(pass, queue, results)
    BY ShadowInvGives
<1>2. shadow' = shadow /\ latest' = latest /\ queue' = queue /\ results' = results
    BY DEF Shadow!HarnessMines, Shadow!ListShadow
<1>3. CASE Shadow!HarnessMines
    <2>1. pass' \in Passes /\ pass'.pc \in {"list", "failed"} /\ pass.pc = "mine"
        BY <1>1, <1>3 DEF Shadow!HarnessMines, Passes
    <2>2. PassGood(pass', queue', results')
        BY <1>1, <1>2, <2>1 DEF PassGood
    <2> QED
        BY <1>1, <1>2, <2>1, <2>2, PassSteps
<1>4. CASE Shadow!ListShadow
    <2>1. pass' \in Passes /\ pass'.pc = "choose" /\ pass'.listed = shadow /\ pass.pc = "list"
        BY <1>1, <1>4 DEF Shadow!ListShadow, Passes
    <2>2. PassGood(pass', queue', results')
        BY <1>1, <1>2, <2>1 DEF PassGood
    <2> QED
        BY <1>1, <1>2, <2>1, <2>2, PassSteps
<1> QED
    BY <1>3, <1>4

LEMMA StepChooses ==
    ASSUME Shadow!ShadowAssumption, ShadowInv, Shadow!Choose
    PROVE  ShadowInv'
<1> DEFINE c == Shadow!Chosen(pass.listed)
<1>1. /\ pass \in Passes /\ pass.listed \in Seq(Rules) /\ pass.pc = "choose"
      /\ latest \in [Rules -> Qualities \cup {Nothing}]
      /\ DOMAIN results \subseteq Rules /\ PassGood(pass, queue, results)
    BY ShadowInvGives DEF Shadow!Choose
<1>2. IsInjective(pass.listed) /\ results = <<>>
    BY <1>1, ShadowSame DEF PassGood
<1>3. c \in Seq(Rules) /\ Selected(pass.listed, c)
    BY <1>1, <1>2, ChosenIsSelected
<1>4. /\ \A w \in 1..Workers : Shadow!Chunk(c, w) \in Seq(Rules)
      /\ UNION {Shadow!Range(Shadow!Chunk(c, w)) : w \in 1..Workers} = Shadow!Range(c)
    BY <1>3, ChunksCover
<1>5. /\ shadow' = shadow /\ latest' = latest /\ results' = results
      /\ queue' = [w \in 1..Workers |-> Shadow!Chunk(c, w)]
      /\ pass' = [pass EXCEPT !.pc = IF c = <<>> THEN "done" ELSE "work", !.chosen = c]
    BY DEF Shadow!Choose
<1> HIDE DEF c
<1>6. queue' \in [1..Workers -> Seq(Rules)] /\ \A w \in 1..Workers : queue'[w] = Shadow!Chunk(c, w)
    BY <1>4, <1>5
<1>7. Waiting(queue') = Shadow!Range(c)
    BY <1>4, <1>6 DEF Waiting
<1>8. /\ pass' \in Passes /\ pass'.listed = pass.listed /\ pass'.chosen = c
      /\ pass'.pc \in {"done", "work"} /\ (pass'.pc = "done" => c = <<>>)
    BY <1>1, <1>3, <1>5 DEF Passes
<1>9. DOMAIN results' = {}
    BY <1>2, <1>5
<1>10. PassGood(pass', queue', results')
    BY <1>3, <1>7, <1>8, <1>9, EmptyRange DEF PassGood
<1> QED
    BY <1>1, <1>5, <1>6, <1>8, <1>10, PassSteps

LEMMA StepWorks ==
    ASSUME Shadow!ShadowAssumption, ShadowInv, NEW w \in 1..Workers, Shadow!EvaluateNext(w)
    PROVE  ShadowInv'
<1> DEFINE r == Head(queue[w])
<1>1. /\ pass \in Passes /\ queue \in [1..Workers -> Seq(Rules)] /\ pass.pc = "work"
      /\ queue[w] # <<>> /\ DOMAIN results \subseteq Rules /\ PassGood(pass, queue, results)
    BY ShadowInvGives DEF Shadow!EvaluateNext
<1>2. /\ shadow' = shadow /\ latest' = latest /\ pass' = pass
      /\ queue' = [queue EXCEPT ![w] = Tail(@)] /\ DOMAIN results' = DOMAIN results \cup {r}
    BY DEF Shadow!EvaluateNext
<1>3. /\ queue' \in [1..Workers -> Seq(Rules)] /\ r \in Rules
      /\ Waiting(queue) = {r} \cup Waiting(queue')
    BY <1>1, <1>2, QueueMoves
<1> HIDE DEF r
<1>4. PassGood(pass', queue', results')
    BY <1>1, <1>2, <1>3 DEF PassGood
<1> QED
    BY <1>1, <1>2, <1>3, <1>4, PassSteps

LEMMA StepEnds ==
    ASSUME Shadow!ShadowAssumption, ShadowInv, Shadow!SessionBusy \/ Shadow!FinishPass
    PROVE  ShadowInv'
<1>1. /\ pass \in Passes /\ queue \in [1..Workers -> Seq(Rules)] /\ pass.pc = "work"
      /\ DOMAIN results \subseteq Rules /\ PassGood(pass, queue, results)
    BY ShadowInvGives DEF Shadow!SessionBusy, Shadow!FinishPass
<1>2. shadow' = shadow /\ latest' = latest /\ queue' = queue /\ results' = results
    BY DEF Shadow!SessionBusy, Shadow!FinishPass
<1>3. CASE Shadow!SessionBusy
    <2>1. pass' \in Passes /\ pass'.pc = "failed"
        BY <1>1, <1>3 DEF Shadow!SessionBusy, Passes
    <2>2. PassGood(pass', queue', results')
        BY <2>1 DEF PassGood
    <2> QED
        BY <1>1, <1>2, <2>1, <2>2, PassSteps
<1>4. CASE Shadow!FinishPass
    <2>1. pass' \in Passes /\ pass'.pc = "done" /\ pass'.listed = pass.listed
          /\ pass'.chosen = pass.chosen
        BY <1>1, <1>4 DEF Shadow!FinishPass, Passes
    <2>2. \A w \in 1..Workers : Shadow!Range(queue[w]) = {}
        BY <1>4, EmptyRange DEF Shadow!FinishPass
    <2>3. Waiting(queue) = {}
        BY <2>2 DEF Waiting
    <2>4. PassGood(pass', queue', results')
        BY <1>1, <1>2, <2>1, <2>3 DEF PassGood
    <2> QED
        BY <1>1, <1>2, <2>1, <2>4, PassSteps
<1> QED
    BY <1>3, <1>4

LEMMA ShadowInvStays ==
    ASSUME Shadow!ShadowAssumption, ShadowInv, [Shadow!ShadowNext]_(Shadow!shadowVars)
    PROVE  ShadowInv'
<1>1. CASE Shadow!ShadowNext
    BY <1>1, StepOther, StepPromotes, StepBegins, StepListed, StepChooses, StepWorks,
       StepEnds DEF Shadow!ShadowNext
<1>2. CASE UNCHANGED Shadow!shadowVars
    <2>1. /\ pass \in Passes /\ queue \in [1..Workers -> Seq(Rules)]
          /\ DOMAIN results \subseteq Rules /\ PassGood(pass, queue, results)
        BY ShadowInvGives
    <2>2. /\ shadow' = shadow /\ latest' = latest /\ pass' = pass /\ queue' = queue
          /\ results' = results
        BY <1>2 DEF Shadow!shadowVars
    <2> QED
        BY <2>1, <2>2, PassSteps
<1> QED
    BY <1>1, <1>2

LEMMA InvCovers ==
    ASSUME ShadowInv
    PROVE  Shadow!SelectionCovers
BY ShadowSame DEF ShadowInv, PassGood, Selected, Shadow!SelectionCovers

-----------------------------------------------------------------------------
(* The machines within Analysis *)

\* One part moves and the others stay, so every behaviour is one of each machine.
LEMMA PartsMove ==
    [AnalysisNext]_allVars =>
        /\ [Next]_vars /\ [Stages!StageNext]_(Stages!stageVars)
        /\ [Shadow!ShadowNext]_(Shadow!shadowVars)
        /\ [Discovery!DiscoveryNext]_(Discovery!discoveryVars)
        /\ part' = part /\ case' = case
BY DEF AnalysisNext, allVars, stageVars, shadowVars, discoveryVars,
       Stages!stageVars, Shadow!shadowVars, Discovery!discoveryVars

LEMMA PartsStart ==
    AnalysisInit => Init /\ Stages!StageInit /\ Shadow!ShadowInit /\ Discovery!DiscoveryInit
BY DEF AnalysisInit

\* Each machine keeps its inductive invariant, and a case stays what it is.
PartsInv == IngestionInv /\ StageInv /\ ShadowInv /\ DiscoveryInv /\ CaseInv

LEMMA PartsKeep == AnalysisSpec => []PartsInv
<1>1. Stages!StageAssumption /\ Shadow!ShadowAssumption /\ Discovery!DiscoveryAssumption
    BY AnalysisAssumption
<1>2. AnalysisInit => PartsInv
    BY <1>1, PartsStart, InitInv, StageInvStarts, ShadowInvStarts, DiscoveryInvInit, CasesStart
       DEF PartsInv
<1>3. ASSUME PartsInv, [AnalysisNext]_allVars
      PROVE  PartsInv'
    <2>1. CaseInv'
        BY <1>3, PartsMove DEF PartsInv, CaseInv
    <2>2. IngestionInv' /\ StageInv'
        BY <1>1, <1>3, PartsMove, NextKeepsInv, StageInvStays DEF PartsInv
    <2>3. ShadowInv' /\ DiscoveryInv'
        BY <1>1, <1>3, PartsMove, ShadowInvStays, DiscoveryInvStep DEF PartsInv
    <2> QED
        BY <2>1, <2>2, <2>3 DEF PartsInv
<1> QED
    BY <1>2, <1>3, PTL DEF AnalysisSpec

-----------------------------------------------------------------------------
(* Theorems *)

\* The rows, the calls of both pipelines and the history keep their types.
THEOREM StageTypeCorrect ==
    ASSUME Stages!StageAssumption
    PROVE  Stages!StageSpec => []Stages!StageTypeOK
<1>1. Stages!StageInit => StageInv
    BY StageInvStarts
<1>2. StageInv /\ [Stages!StageNext]_(Stages!stageVars) => StageInv'
    BY StageInvStays
<1>3. StageInv => Stages!StageTypeOK
    BY DEF StageInv
<1> QED
    BY <1>1, <1>2, <1>3, PTL DEF Stages!StageSpec

\* v2_two_stage_pipeline.py: whoever starts, resumes, overtakes or kills a run, a row
\* is COMPLETED only after both stages, or the first with nothing suspicious in it;
\* and a row of the plain pipeline only after its mining.
THEOREM CompletedHasAllStages == AnalysisSpec => []CompletedMeansBoth
<1>1. PartsInv => CompletedMeansBoth
    BY DEF PartsInv, StageInv, RowGood, AllRan, TwoStaged, Stages!CompletedMeansBoth, CompletedMeansBoth
<1> QED
    BY <1>1, PartsKeep, PTL

\* The names, the rules with their texts, the run and its counts keep their types.
THEOREM DiscoveryTypeCorrect ==
    ASSUME Discovery!DiscoveryAssumption
    PROVE  Discovery!DiscoverySpec => []Discovery!DiscoveryTypeOK
<1>1. Discovery!DiscoveryInit => DiscoveryInv
    BY DiscoveryInvInit
<1>2. DiscoveryInv /\ [Discovery!DiscoveryNext]_(Discovery!discoveryVars) => DiscoveryInv'
    BY DiscoveryInvStep
<1> QED
    BY <1>1, <1>2, InvDiscoveryTyped, PTL DEF Discovery!DiscoverySpec

\* v2_pattern_mining.py and v2_rule_safety_classifier.py: a rule whose text was dangerous
\* when it was classified has a text that no check in front of an execution lets
\* pass, with the SQL parser and without, for whatever the counting and the LLM find.
THEOREM DangerousRulesCannotRun == AnalysisSpec => []DangerousIsDisarmed
<1>1. PartsInv => DangerousIsDisarmed
    BY InvDisarms DEF PartsInv, DangerousIsDisarmed
<1> QED
    BY <1>1, PartsKeep, PTL

\* v2_pattern_mining.py: what a run that ends well reports is what it stored; when the
\* stage of the LLM raised on the way, it is short by exactly the patterns and rules
\* that this stage had stored by then.
THEOREM ReportsAreStored == AnalysisSpec => []ReportedIsStored
<1>1. PartsInv => ReportedIsStored
    BY InvReports DEF PartsInv, ReportedIsStored
<1> QED
    BY <1>1, PartsKeep, PTL

\* v2_llm_postprocessor.py and v2_pattern_mining.py: no order of the two filters lets
\* a proposal through that is too risky, unsure or no more than an insight.
THEOREM InsightsGetNoRule == AnalysisSpec => []InsightHasNoRule
<1>1. PartsInv => InsightHasNoRule
    BY InvInsight DEF PartsInv, InsightHasNoRule
<1> QED
    BY <1>1, PartsKeep, PTL

\* The rules in SHADOW, the pass, the queues of its workers and its results keep
\* their types.
THEOREM ShadowTypeCorrect ==
    ASSUME Shadow!ShadowAssumption
    PROVE  Shadow!ShadowSpec => []Shadow!ShadowTypeOK
<1>1. Shadow!ShadowInit => ShadowInv
    BY ShadowInvStarts
<1>2. ShadowInv /\ [Shadow!ShadowNext]_(Shadow!shadowVars) => ShadowInv'
    BY ShadowInvStays
<1>3. ShadowInv => Shadow!ShadowTypeOK
    BY DEF ShadowInv
<1> QED
    BY <1>1, <1>2, <1>3, PTL DEF Shadow!ShadowSpec

\* v2_shadow_evaluation.py: with any number of workers and any bound, a pass that
\* returns has results for the rules it chose and for no other, and a bounded choice
\* leaves no rule out that is better than one it took.
THEOREM PassesCoverTheirChoice == AnalysisSpec => []SelectionCovers
<1>1. PartsInv => SelectionCovers
    BY InvCovers DEF PartsInv, SelectionCovers
<1> QED
    BY <1>1, PartsKeep, PTL

\* v2_rule_safety_classifier.py against v2_safety_heuristics.py and v2_sql_safety.py:
\* nothing AUTO_SAFE is downgraded, unless it is one condition alone; and what is
\* AUTO_SAFE and true of every message is not valid, unless it has no WHERE, something
\* after the table and the LLM's word that its risk is low.  That for every text, risk
\* and evaluations.
THEOREM SafeClassesAgree == AnalysisSpec => []AutoSafeAgrees
<1>1. PartsInv => AutoSafeAgrees
    <2> SUFFICES ASSUME PartsInv, part = "sql"
                 PROVE  R!ClassesAgree(case.sql, case.risk, case.evals)
        BY DEF AutoSafeAgrees
    <2>1. case \in Sqls
        BY DEF PartsInv, CaseInv
    <2>2. case.sql \in R!SqlRecords /\ Nothing # "LOW"
        BY <2>1, AnalysisAssumption DEF CasesAssumption
    <2> QED
        BY <2>2, ClassesDoAgree
<1> QED
    BY <1>1, PartsKeep, PTL

\* v2_pattern_quality_tiers.py: with at most 5 % of the ham, one more spam message
\* among those that a pattern matches never costs it its tier, whatever the counts.
THEOREM TiersNeverDrop == AnalysisSpec => []TierMonotone
<1>1. PartsInv => TierMonotone
    <2> SUFFICES ASSUME PartsInv, part = "tiers"
                 PROVE  R!MoreSpamNoLower(case.spam, case.ham, case.total)
        BY DEF TierMonotone
    <2>1. case \in Counts
        BY DEF PartsInv, CaseInv
    <2>2. case.spam \in Nat /\ case.ham \in Nat /\ case.total \in Nat
        BY <2>1, AnalysisAssumption DEF CasesAssumption
    <2> QED
        BY <2>2, TiersAreMonotone
<1> QED
    BY <1>1, PartsKeep, PTL

\* What storing, the pipelines, a pass in SHADOW and discovery hold stays in the types
\* of their code.
THEOREM AnalysisTypeCorrect == AnalysisSpec => []AnalysisTypeOK
<1>1. PartsInv => AnalysisTypeOK
    <2> SUFFICES ASSUME PartsInv PROVE AnalysisTypeOK
        OBVIOUS
    <2>1. TypeOK /\ Stages!StageTypeOK /\ Shadow!ShadowTypeOK /\ Discovery!DiscoveryTypeOK
        BY InvDiscoveryTyped DEF PartsInv, IngestionInv, StageInv, ShadowInv
    <2> QED
        BY <2>1 DEF AnalysisTypeOK
<1> QED
    BY <1>1, PartsKeep, PTL
=============================================================================
