---------------------------- MODULE KycCaseProofs ----------------------------
(***************************************************************************)
(* Theorems about KycCase, for any number of callers, reviewers, attempts, *)
(* runs and submissions: where verdicts come from, what an automatic       *)
(* approval rests on, and what becomes of a verdict.                       *)
(***************************************************************************)
EXTENDS KycCase, TLAPS

\* An activity record is well formed when it is fresh or newly queued.
LEMMA FreshActivity == Idle \in ActivityRecord /\ Queued \in ActivityRecord
  BY KycCaseAssumption
  DEF Idle, Queued, ActivityRecord, Stages, OpenStages, Results

\* Whatever becomes of a failed attempt, the record stays well formed and the
\* attempts counted never exceed the retry policy's maximum.
LEMMA FailedAttemptType ==
  ASSUME TypeOK, NEW a \in Activities
  PROVE  AfterFailedAttempt(a) \in ActivityRecord
  <1>1. act[a].tries \in 0..MaxAttempts
    BY DEF TypeOK, ActivityRecord
  <1>2. MaxAttempts \in Nat \ {0}
    BY KycCaseAssumption
  <1>3. CASE a \in LongActivities
    BY <1>3, FreshActivity DEF AfterFailedAttempt
  <1>4. CASE a \notin LongActivities /\ act[a].tries + 1 < MaxAttempts
    <2>1. AfterFailedAttempt(a) = [st |-> "queued", tries |-> act[a].tries + 1, out |-> "none"]
      BY <1>4 DEF AfterFailedAttempt, Queued, Idle
    <2>2. act[a].tries + 1 \in 0..MaxAttempts
      BY <1>1, <1>2, <1>4
    <2>3. QED
      BY <2>1, <2>2 DEF ActivityRecord, Stages, Results
  <1>5. CASE a \notin LongActivities /\ ~(act[a].tries + 1 < MaxAttempts)
    <2>1. AfterFailedAttempt(a) = [st |-> "failed", tries |-> MaxAttempts, out |-> "none"]
      BY <1>5 DEF AfterFailedAttempt, Idle
    <2>2. MaxAttempts \in 0..MaxAttempts
      BY <1>2
    <2>3. QED
      BY <2>1, <2>2 DEF ActivityRecord, Stages, Results
  <1>6. QED
    BY <1>3, <1>4, <1>5

\* Every result an activity may report is one of Results.
LEMMA ResultTypes ==
  ASSUME NEW a \in Activities
  PROVE  ResultsOf(a) \subseteq Results
  BY DEF ResultsOf, RiskResults, Results

\* Starting a run leaves the run's variables well typed.
LEMMA LaunchRunType ==
  ASSUME TypeOK, NEW inherited \in Seq(Decisions), LaunchRun(inherited)
  PROVE  /\ wf' \in Run
         /\ act' \in [Activities -> ActivityRecord]
         /\ signals' \in Seq(Decisions)
         /\ taken' \in 0..Len(signals')
         /\ runs' \in 0..MaxRuns
  <1>1. wf' \in Run
    BY DEF LaunchRun, Run, Steps, Verdicts
  <1>2. act' \in [Activities -> ActivityRecord]
    BY FreshActivity DEF LaunchRun
  <1>3. signals' \in Seq(Decisions) /\ taken' \in 0..Len(signals')
    BY DEF LaunchRun
  <1>4. runs' \in 0..MaxRuns
    BY KycCaseAssumption DEF LaunchRun, TypeOK
  <1>5. QED
    BY <1>1, <1>2, <1>3, <1>4

\* A workflow step that only moves on and queues activities keeps their types.
LEMMA GotoType ==
  ASSUME TypeOK, NEW step \in Steps, NEW scheduled, Goto(step, scheduled)
  PROVE  /\ wf' \in Run
         /\ act' \in [Activities -> ActivityRecord]
  <1>1. wf' \in Run
    BY DEF Goto, TypeOK, Run
  <1>2. act' \in [Activities -> ActivityRecord]
    BY FreshActivity DEF Goto, TypeOK, ActivityRecord
  <1>3. QED
    BY <1>1, <1>2

\* The initial state is well typed.
LEMMA InitType == Init => TypeOK
  <1> SUFFICES ASSUME Init PROVE TypeOK
    OBVIOUS
  <1>1. case \in CaseRow
    BY DEF Init, CaseRow, Statuses
  <1>2. call \in [Calls -> CallStages] /\ wf \in Run
    BY DEF Init, CallStages, Run, ClosedSteps
  <1>3. desk \in [Reviewers -> DeskRecord]
    <2>1. [at |-> "idle", decision |-> "escalated", posts |-> 0] \in DeskRecord
      BY KycCaseAssumption DEF DeskRecord, Decisions
    <2>2. QED
      BY <2>1 DEF Init
  <1>4. act \in [Activities -> ActivityRecord]
    BY FreshActivity DEF Init
  <1>5. signals \in Seq(Decisions) /\ taken \in 0..Len(signals) /\ runs \in 0..MaxRuns
    BY KycCaseAssumption DEF Init
  <1>6. recorded = {} /\ trail = {} /\ late = {} /\ posted = {} /\ cleared \in BOOLEAN
    BY DEF Init
  <1>7. QED
    BY <1>1, <1>2, <1>3, <1>4, <1>5, <1>6 DEF TypeOK

\* The POST /cases handler.
LEMMA CallType ==
  ASSUME TypeOK, NEW c \in Calls,
         InsertCase(c) \/ StartWorkflow(c) \/ RecordCreated(c) \/ CallFails(c)
  PROVE  TypeOK'
  <1>1. CASE InsertCase(c)
    <2>1. case' \in CaseRow
      BY <1>1, KycCaseAssumption DEF InsertCase, TypeOK, CaseRow, Statuses
    <2>2. call' \in [Calls -> CallStages]
      BY <1>1 DEF InsertCase, TypeOK, CallStages
    <2>3. QED
      BY <1>1, <2>1, <2>2 DEF InsertCase, TypeOK, runVars
  <1>2. CASE StartWorkflow(c)
    <2>1. call' \in [Calls -> CallStages]
      BY <1>2 DEF StartWorkflow, TypeOK, CallStages
    <2>2. CASE UNCHANGED runVars
      BY <1>2, <2>1, <2>2 DEF StartWorkflow, TypeOK, runVars, dbVars
    <2>3. CASE LaunchRun(<<>>)
      <3>1. <<>> \in Seq(Decisions)
        OBVIOUS
      <3>2. QED
        BY <1>2, <2>1, <2>3, <3>1, LaunchRunType DEF StartWorkflow, TypeOK, dbVars
    <2>4. QED
      BY <1>2, <2>2, <2>3 DEF StartWorkflow
  <1>3. CASE RecordCreated(c)
    <2>1. call' \in [Calls -> CallStages]
      BY <1>3 DEF RecordCreated, TypeOK, CallStages
    <2>2. trail' \subseteq Events
      BY <1>3 DEF RecordCreated, TypeOK, Events
    <2>3. QED
      BY <1>3, <2>1, <2>2 DEF RecordCreated, TypeOK, runVars
  <1>4. CASE CallFails(c)
    <2>1. call' \in [Calls -> CallStages]
      BY <1>4 DEF CallFails, TypeOK, CallStages
    <2>2. QED
      BY <1>4, <2>1 DEF CallFails, TypeOK, runVars, dbVars
  <1>5. QED
    BY <1>1, <1>2, <1>3, <1>4

\* The POST .../decision handler.
LEMMA DeskType ==
  ASSUME TypeOK, NEW r \in Reviewers,
         \/ \E d \in Decisions : CheckStatus(r, d)
         \/ RecordDecision(r) \/ AuditDecision(r) \/ SignalWorkflow(r)
         \/ DecisionFails(r)
  PROVE  TypeOK'
  <1>0. desk[r] \in DeskRecord /\ desk[r].decision \in Decisions
    BY DEF TypeOK, DeskRecord
  <1>1. ASSUME NEW d \in Decisions, CheckStatus(r, d)
        PROVE  TypeOK'
    <2>1. [at |-> "checked", decision |-> d, posts |-> desk[r].posts + 1] \in DeskRecord
      BY <1>0, <1>1, KycCaseAssumption DEF CheckStatus, DeskRecord
    <2>2. desk' \in [Reviewers -> DeskRecord]
      BY <1>1, <2>1 DEF CheckStatus, TypeOK
    <2>3. QED
      BY <1>1, <2>2 DEF CheckStatus, TypeOK, runVars, dbVars
  <1>2. CASE RecordDecision(r)
    <2>1. desk' \in [Reviewers -> DeskRecord]
      BY <1>0, <1>2 DEF RecordDecision, TypeOK, DeskRecord
    <2>2. [by |-> r, decision |-> desk[r].decision] \in [by : Reviewers, decision : Decisions]
      BY <1>0
    <2>3. QED
      BY <1>2, <2>1, <2>2 DEF RecordDecision, TypeOK, runVars
  <1>3. CASE AuditDecision(r)
    <2>1. <<"review_decision_recorded", desk[r].decision>> \in Events
      BY <1>0 DEF Events
    <2>2. desk' \in [Reviewers -> DeskRecord]
      BY <1>0, <1>3 DEF AuditDecision, TypeOK, DeskRecord
    <2>3. QED
      BY <1>3, <2>1, <2>2 DEF AuditDecision, TypeOK, runVars
  <1>4. CASE SignalWorkflow(r)
    <2>1. signals' \in Seq(Decisions) /\ taken' \in 0..Len(signals')
      <3>1. signals \in Seq(Decisions) /\ taken \in 0..Len(signals) /\ taken' = taken
        BY <1>4 DEF SignalWorkflow, TypeOK
      <3>2. CASE signals' = signals
        BY <3>1, <3>2
      <3>3. CASE signals' = Append(signals, desk[r].decision)
        BY <1>0, <3>1, <3>3
      <3>4. QED
        BY <1>4, <3>2, <3>3 DEF SignalWorkflow
    <2>2. desk' \in [Reviewers -> DeskRecord]
      <3>1. \A at \in {"accepted", "errored", "refused"} :
              [desk[r] EXCEPT !.at = at] \in DeskRecord
        BY <1>0 DEF DeskRecord
      <3>2. QED
        BY <1>4, <3>1 DEF SignalWorkflow, TypeOK
    <2>3. QED
      BY <1>4, <2>1, <2>2 DEF SignalWorkflow, TypeOK, dbVars
  <1>5. CASE DecisionFails(r)
    <2>1. desk' \in [Reviewers -> DeskRecord]
      BY <1>0, <1>5 DEF DecisionFails, TypeOK, DeskRecord
    <2>2. QED
      BY <1>5, <2>1 DEF DecisionFails, TypeOK, runVars, dbVars
  <1>6. QED
    BY <1>1, <1>2, <1>3, <1>4, <1>5

\* The attempts of one activity, a verdict it writes being a justified one.
LEMMA WorkerType ==
  ASSUME TypeOK, RunJustified, NEW a \in Activities,
         Worker(a) \/ AttemptFails(a) \/ AttemptAbandoned(a) \/ ScheduleToClose(a)
  PROVE  TypeOK'
  <1>0. act \in [Activities -> ActivityRecord] /\ act[a] \in ActivityRecord
    BY DEF TypeOK
  <1>1. CASE Begin(a)
    <2>1. [act[a] EXCEPT !.st = "begun"] \in ActivityRecord
      BY <1>0 DEF ActivityRecord, Stages
    <2>2. act' \in [Activities -> ActivityRecord]
      BY <1>0, <1>1, <2>1 DEF Begin
    <2>3. <<a, "started">> \in Events
      BY DEF Events
    <2>4. QED
      BY <1>1, <2>2, <2>3 DEF Begin, TypeOK
  <1>2. CASE Commit(a)
    <2>1. PICK out \in ResultsOf(a) :
            act' = [act EXCEPT ![a].st = "committed", ![a].out = out]
      BY <1>2 DEF Commit
    <2>2. [act[a] EXCEPT !.st = "committed", !.out = out] \in ActivityRecord
      BY <1>0, ResultTypes DEF ActivityRecord, Stages
    <2>3. act' \in [Activities -> ActivityRecord]
      BY <1>0, <2>1, <2>2
    <2>4. a \in {"finalize", "deliver"} => wf.decision \in Verdicts
      BY <1>2 DEF Commit, RunJustified, Justified
    <2>5. case' \in CaseRow
      BY <1>2, <2>4 DEF Commit, RowAfter, TypeOK, CaseRow, Statuses
    <2>6. posted' \subseteq Verdicts
      BY <1>2, <2>4 DEF Commit, TypeOK
    <2>7. QED
      BY <1>2, <2>3, <2>5, <2>6 DEF Commit, TypeOK
  <1>3. CASE Report(a)
    <2>1. [act[a] EXCEPT !.st = "done"] \in ActivityRecord
      BY <1>0 DEF ActivityRecord, Stages
    <2>2. act' \in [Activities -> ActivityRecord]
      BY <1>0, <1>3, <2>1 DEF Report
    <2>3. QED
      BY <1>3, <2>2 DEF Report, TypeOK, dbVars
  <1>4. CASE AttemptFails(a)
    <2>1. act' \in [Activities -> ActivityRecord]
      BY <1>0, <1>4, FailedAttemptType DEF AttemptFails
    <2>2. QED
      BY <1>4, <2>1 DEF AttemptFails, TypeOK, dbVars
  <1>5. CASE AttemptAbandoned(a)
    <2>1. act' \in [Activities -> ActivityRecord]
      BY <1>0, <1>5, FailedAttemptType DEF AttemptAbandoned
    <2>2. <<a, wf.decision, runs, act[a].tries>> \in Write
      BY <1>0, <1>5 DEF AttemptAbandoned, TypeOK, Run, ActivityRecord, Write
    <2>3. late' \subseteq Write
      BY <1>5, <2>2 DEF AttemptAbandoned, TypeOK
    <2>4. QED
      BY <1>5, <2>1, <2>3 DEF AttemptAbandoned, TypeOK, dbVars
  <1>6. CASE ScheduleToClose(a)
    <2>1. [Idle EXCEPT !.st = "failed"] \in ActivityRecord
      BY KycCaseAssumption DEF Idle, ActivityRecord, Stages, Results
    <2>2. act' \in [Activities -> ActivityRecord]
      BY <1>0, <1>6, <2>1 DEF ScheduleToClose
    <2>3. QED
      BY <1>6, <2>2 DEF ScheduleToClose, TypeOK, dbVars
  <1>7. QED
    BY <1>1, <1>2, <1>3, <1>4, <1>5, <1>6 DEF Worker

\* A write that commits after its attempt was given up.
LEMMA LateType ==
  ASSUME TypeOK, LateJustified, NEW w \in late, LateCommit(w)
  PROVE  TypeOK'
  <1>1. w \in Write
    BY DEF TypeOK
  <1>2. w[1] # "park" => w[2] \in Verdicts
    BY DEF LateJustified, Justified
  <1>3. case' \in CaseRow
    BY <1>1, <1>2 DEF LateCommit, RowAfter, TypeOK, CaseRow, Statuses
  <1>4. late' \subseteq Write /\ posted' \subseteq Verdicts
    BY <1>2 DEF LateCommit, TypeOK
  <1>5. QED
    BY <1>3, <1>4 DEF LateCommit, TypeOK, runVars

\* The workflow's own steps, and the operator's reset of a failed one.
LEMMA WorkflowType ==
  ASSUME TypeOK, Workflow \/ Redrive
  PROVE  TypeOK'
  <1>1. CASE DocumentsFetched
    <2>1. \E step \in Steps, scheduled \in SUBSET Activities : Goto(step, scheduled)
      BY <1>1 DEF DocumentsFetched, Steps, Activities
    <2>2. QED
      BY <1>1, <2>1, GotoType DEF DocumentsFetched, TypeOK, dbVars
  <1>2. CASE DocumentExtracted
    <2>1. \E step \in Steps, scheduled \in SUBSET Activities : Goto(step, scheduled)
      BY <1>2 DEF DocumentExtracted, Steps, Activities
    <2>2. QED
      BY <1>2, <2>1, GotoType DEF DocumentExtracted, TypeOK, dbVars
  <1>3. CASE EvidenceGathered
    <2>1. "risk" \in Steps
      BY DEF Steps
    <2>2. QED
      BY <1>3, <2>1, GotoType DEF EvidenceGathered, TypeOK, dbVars
  <1>4. CASE RiskScored
    <2>1. "park" \in Steps
      BY DEF Steps
    <2>2. wf' \in Run /\ act' \in [Activities -> ActivityRecord] /\ cleared' \in BOOLEAN
      <3>1. CASE Goto("park", {"park"}) /\ UNCHANGED cleared
        BY <3>1, <2>1, GotoType DEF TypeOK
      <3>2. CASE /\ wf' = [at |-> "finalize", auto |-> TRUE, decision |-> "approved"]
                 /\ act' = [act EXCEPT !["finalize"] = Queued]
                 /\ cleared' = TRUE
        <4>1. wf' \in Run
          BY <3>2 DEF Run, Steps, Verdicts
        <4>2. act' \in [Activities -> ActivityRecord]
          BY <3>2, FreshActivity DEF TypeOK
        <4>3. QED
          BY <3>2, <4>1, <4>2
      <3>3. QED
        BY <1>4, <3>1, <3>2 DEF RiskScored
    <2>3. QED
      BY <1>4, <2>2 DEF RiskScored, TypeOK, dbVars
  <1>5. CASE Parked
    <2>1. "await" \in Steps
      BY DEF Steps
    <2>2. QED
      BY <1>5, <2>1, GotoType DEF Parked, TypeOK, dbVars
  <1>6. CASE TakeDecision
    <2>1. signals \in Seq(Decisions) /\ taken' \in 1..Len(signals)
      BY <1>6 DEF TakeDecision, TypeOK, OldestSignal
    <2>2. signals[taken'] \in Decisions
      BY <2>1
    <2>3. wf' \in Run
      BY <1>6, <2>2 DEF TakeDecision, TypeOK, Run, Steps, Decisions
    <2>4. act' \in [Activities -> ActivityRecord]
      BY <1>6, FreshActivity DEF TakeDecision, TypeOK
    <2>5. QED
      BY <1>6, <2>1, <2>3, <2>4 DEF TakeDecision, TypeOK, dbVars
  <1>7. CASE Finalized
    <2>1. "deliver" \in Steps
      BY DEF Steps
    <2>2. QED
      BY <1>7, <2>1, GotoType DEF Finalized, TypeOK, dbVars
  <1>8. CASE Completed
    BY <1>8 DEF Completed, TypeOK, Run, ClosedSteps, dbVars
  <1>9. CASE WorkflowFails
    BY <1>9 DEF WorkflowFails, TypeOK, Run, ClosedSteps, dbVars
  <1>10. CASE Redrive
    <2>1. signals \in Seq(Decisions) /\ LaunchRun(signals)
      BY <1>10 DEF Redrive, TypeOK
    <2>2. QED
      BY <1>10, <2>1, LaunchRunType DEF Redrive, TypeOK, dbVars
  <1>11. QED
    BY <1>1, <1>2, <1>3, <1>4, <1>5, <1>6, <1>7, <1>8, <1>9, <1>10 DEF Workflow

------------------------------------------------------------------------------
(* Where every verdict comes from                                          *)

\* What justifies a verdict is never taken back: review_decisions and the
\* audit trail are append-only, and a clearance that happened has happened.
LEMMA Growth ==
  ASSUME Next
  PROVE  /\ recorded \subseteq recorded'
         /\ trail \subseteq trail'
         /\ cleared => cleared'
  <1>1. ASSUME NEW c \in Calls,
               InsertCase(c) \/ StartWorkflow(c) \/ RecordCreated(c) \/ CallFails(c)
        PROVE  recorded \subseteq recorded' /\ trail \subseteq trail' /\ UNCHANGED cleared
    BY <1>1 DEF InsertCase, StartWorkflow, RecordCreated, CallFails, dbVars
  <1>2. ASSUME NEW r \in Reviewers, NEW d \in Decisions,
               \/ CheckStatus(r, d) \/ RecordDecision(r) \/ AuditDecision(r)
               \/ SignalWorkflow(r) \/ DecisionFails(r)
        PROVE  recorded \subseteq recorded' /\ trail \subseteq trail' /\ UNCHANGED cleared
    BY <1>2 DEF CheckStatus, RecordDecision, AuditDecision, SignalWorkflow,
           DecisionFails, dbVars
  <1>3. ASSUME NEW a \in Activities,
               \/ Worker(a) \/ AttemptFails(a) \/ AttemptAbandoned(a)
               \/ ScheduleToClose(a)
        PROVE  recorded \subseteq recorded' /\ trail \subseteq trail' /\ UNCHANGED cleared
    BY <1>3 DEF Worker, Begin, Commit, Report, AttemptFails, AttemptAbandoned,
           ScheduleToClose, dbVars
  <1>4. ASSUME NEW w \in late, LateCommit(w)
        PROVE  UNCHANGED <<recorded, trail, cleared>>
    BY <1>4 DEF LateCommit
  <1>5. CASE Workflow \/ Redrive
    BY <1>5 DEF Workflow, DocumentsFetched, DocumentExtracted, EvidenceGathered,
           RiskScored, Parked, TakeDecision, Finalized, Completed, WorkflowFails,
           Redrive, dbVars
  <1>6. QED
    BY <1>1, <1>2, <1>3, <1>4, <1>5 DEF Next, Decisions

\* A step disturbs a part of Provenance only by changing that part's variables.
LEMMA Undisturbed ==
  ASSUME Provenance,
         recorded \subseteq recorded', trail \subseteq trail', cleared => cleared'
  PROVE  /\ UNCHANGED desk => DeskRecorded'
         /\ UNCHANGED signals => SignalsAuthored'
         /\ /\ UNCHANGED wf.decision
            /\ act'["finalize"].st # "idle" => act["finalize"].st # "idle"
            /\ act'["deliver"].st # "idle" =>
                 act["deliver"].st # "idle" \/ act["finalize"].st # "idle"
            => RunJustified'
         /\ late' \subseteq late => LateJustified'
         /\ UNCHANGED case.decision => RowJustified'
  <1>1. UNCHANGED desk => DeskRecorded'
    BY DEF Provenance, DeskRecorded
  <1>2. UNCHANGED signals => SignalsAuthored'
    BY DEF Provenance, SignalsAuthored, Authored
  <1>3. /\ UNCHANGED wf.decision
        /\ act'["finalize"].st # "idle" => act["finalize"].st # "idle"
        /\ act'["deliver"].st # "idle" =>
             act["deliver"].st # "idle" \/ act["finalize"].st # "idle"
        => RunJustified'
    BY DEF Provenance, RunJustified, Justified, Authored
  <1>4. late' \subseteq late => LateJustified'
    BY DEF Provenance, LateJustified, Justified, Authored
  <1>5. UNCHANGED case.decision => RowJustified'
    BY DEF Provenance, RowJustified, Justified, Authored
  <1>6. QED
    BY <1>1, <1>2, <1>3, <1>4, <1>5

\* The decision handler: it records, then audits, then signals.
LEMMA DeskProvenance ==
  ASSUME TypeOK, Provenance, Next, NEW r \in Reviewers,
         \/ \E d \in Decisions : CheckStatus(r, d)
         \/ RecordDecision(r) \/ AuditDecision(r) \/ SignalWorkflow(r)
         \/ DecisionFails(r)
  PROVE  Provenance'
  <1>1. /\ desk \in [Reviewers -> DeskRecord]
        /\ signals \in Seq(Decisions)
    BY DEF TypeOK
  <1>2. UNCHANGED <<wf, act, late, case>>
    BY DEF CheckStatus, RecordDecision, AuditDecision, SignalWorkflow,
           DecisionFails, dbVars, runVars
  <1>3. DeskRecorded'
    <2>1. CASE RecordDecision(r)
      BY <1>1, <2>1 DEF Provenance, DeskRecorded, DeskRecord, RecordDecision
    <2>2. CASE AuditDecision(r)
      BY <1>1, <2>2 DEF Provenance, DeskRecorded, DeskRecord, AuditDecision
    <2>3. CASE (\E d \in Decisions : CheckStatus(r, d)) \/ SignalWorkflow(r) \/ DecisionFails(r)
      <3>1. /\ \A q \in Reviewers : \/ desk'[q].at \notin {"recorded", "audited"}
                                    \/ desk'[q] = desk[q]
            /\ UNCHANGED <<recorded, trail>>
        BY <1>1, <2>3 DEF DeskRecord, CheckStatus, SignalWorkflow, DecisionFails, dbVars
      <3>2. QED
        BY <3>1 DEF Provenance, DeskRecorded
    <2>4. QED
      BY <2>1, <2>2, <2>3
  <1>4. SignalsAuthored'
    <2>1. CASE UNCHANGED signals
      BY <2>1, Growth, Undisturbed
    <2>2. CASE ~UNCHANGED signals
      <3>1. SignalWorkflow(r)
        BY <2>2 DEF CheckStatus, RecordDecision, AuditDecision, DecisionFails,
               dbVars, runVars
      <3>2. /\ desk[r].at = "audited"
            /\ signals' = Append(signals, desk[r].decision)
            /\ UNCHANGED <<recorded, trail>>
        BY <2>2, <3>1 DEF SignalWorkflow, SignalledAfter, dbVars
      <3>3. Authored(desk[r].decision)
        BY <3>2 DEF Provenance, DeskRecorded, Authored
      <3>4. /\ Len(signals') = Len(signals) + 1
            /\ signals'[Len(signals')] = desk[r].decision
            /\ \A i \in 1..Len(signals) : signals'[i] = signals[i]
        BY <1>1, <3>2 DEF DeskRecord, TypeOK
      <3>5. \A i \in 1..Len(signals') : i = Len(signals') \/ i \in 1..Len(signals)
        BY <1>1, <3>4
      <3>6. QED
        BY <3>2, <3>3, <3>4, <3>5 DEF Provenance, SignalsAuthored, Authored
    <2>3. QED
      BY <2>1, <2>2
  <1>5. RunJustified' /\ LateJustified' /\ RowJustified'
    BY <1>2, Growth, Undisturbed
  <1>6. QED
    BY <1>3, <1>4, <1>5 DEF Provenance

\* The intake handler holds no verdict; what it starts holds none either.
LEMMA CallProvenance ==
  ASSUME TypeOK, Provenance, Next, NEW c \in Calls,
         InsertCase(c) \/ StartWorkflow(c) \/ RecordCreated(c) \/ CallFails(c)
  PROVE  Provenance'
  <1>1. UNCHANGED <<desk, late>>
    BY DEF InsertCase, StartWorkflow, RecordCreated, CallFails, dbVars, runVars
  <1>2. DeskRecorded' /\ LateJustified'
    BY <1>1, Growth, Undisturbed
  <1>3. RowJustified'
    <2>1. CASE case'.decision = "none"
      BY <2>1 DEF RowJustified
    <2>2. CASE UNCHANGED case
      BY <2>2, Growth, Undisturbed
    <2>3. QED
      BY <2>1, <2>2 DEF InsertCase, StartWorkflow, RecordCreated, CallFails, dbVars
  <1>4. SignalsAuthored' /\ RunJustified'
    <2>1. CASE UNCHANGED runVars
      BY <2>1, Growth, Undisturbed DEF runVars
    <2>2. CASE LaunchRun(<<>>)
      <3>1. SignalsAuthored'
        BY <2>2 DEF LaunchRun, SignalsAuthored
      <3>2. RunJustified'
        BY <2>2 DEF LaunchRun, RunJustified, Idle, Activities
      <3>3. QED
        BY <3>1, <3>2
    <2>3. QED
      BY <2>1, <2>2 DEF InsertCase, StartWorkflow, RecordCreated, CallFails
  <1>5. QED
    BY <1>2, <1>3, <1>4 DEF Provenance

\* Attempts: what they write is the verdict of the run that scheduled them.
LEMMA WorkerProvenance ==
  ASSUME TypeOK, Provenance, Next, NEW a \in Activities,
         Worker(a) \/ AttemptFails(a) \/ AttemptAbandoned(a) \/ ScheduleToClose(a)
  PROVE  Provenance'
  <1>1. /\ UNCHANGED <<desk, signals, wf>>
        /\ act[a].st # "idle"
        /\ \A b \in Activities : b # a => act'[b] = act[b]
    BY DEF Worker, Begin, Commit, Report, AttemptFails, AttemptAbandoned,
           ScheduleToClose, OpenStages, dbVars, TypeOK
  <1>2. DeskRecorded' /\ SignalsAuthored' /\ RunJustified'
    BY <1>1, Growth, Undisturbed DEF Activities
  <1>3. LateJustified'
    <2>1. CASE late' \subseteq late
      BY <2>1, Growth, Undisturbed
    <2>2. CASE AttemptAbandoned(a)
      <3>1. a # "park" => Justified(wf.decision)
        BY <2>2 DEF AttemptAbandoned, Telling, Provenance, RunJustified
      <3>2. /\ late' = late \union {<<a, wf.decision, runs, act[a].tries>>}
            /\ UNCHANGED <<recorded, trail, cleared>>
        BY <2>2 DEF AttemptAbandoned, dbVars
      <3>3. QED
        BY <3>1, <3>2 DEF Provenance, LateJustified, Justified, Authored
    <2>3. QED
      BY <2>1, <2>2 DEF Worker, Begin, Commit, Report, AttemptFails, ScheduleToClose
  <1>4. RowJustified'
    <2>1. CASE UNCHANGED case.decision
      BY <2>1, Growth, Undisturbed
    <2>2. CASE ~UNCHANGED case.decision
      <3>1. Commit(a) /\ a = "finalize"
        BY <2>2 DEF Worker, Begin, Commit, Report, AttemptFails,
               AttemptAbandoned, ScheduleToClose, dbVars, RowAfter, TypeOK, CaseRow
      <3>2. Justified(wf.decision) /\ UNCHANGED <<recorded, trail, cleared>>
        BY <3>1 DEF Commit, Provenance, RunJustified
      <3>3. case'.decision = wf.decision
        BY <3>1 DEF Commit, RowAfter, TypeOK, CaseRow
      <3>4. QED
        BY <3>2, <3>3 DEF RowJustified, Justified, Authored
    <2>3. QED
      BY <2>1, <2>2
  <1>5. QED
    BY <1>2, <1>3, <1>4 DEF Provenance

\* An abandoned write may commit late, but it was justified when it was made.
LEMMA LateProvenance ==
  ASSUME TypeOK, Provenance, Next, NEW w \in late, LateCommit(w)
  PROVE  Provenance'
  <1>1. UNCHANGED <<desk, signals, wf, act, recorded, trail, cleared>> /\ late' \subseteq late
    BY DEF LateCommit, runVars
  <1>2. DeskRecorded' /\ SignalsAuthored' /\ RunJustified' /\ LateJustified'
    BY <1>1, Undisturbed
  <1>3. RowJustified'
    <2>1. case'.decision = IF w[1] = "finalize" THEN w[2] ELSE case.decision
      BY DEF LateCommit, RowAfter, TypeOK, CaseRow, Write
    <2>2. w[1] = "finalize" => Justified(w[2])
      BY DEF Provenance, LateJustified
    <2>3. QED
      BY <1>1, <2>1, <2>2 DEF Provenance, RowJustified, Justified, Authored
  <1>4. QED
    BY <1>2, <1>3 DEF Provenance

\* The workflow takes a verdict from a delivered signal or from a clearance.
LEMMA WorkflowProvenance ==
  ASSUME TypeOK, Provenance, Next, Workflow \/ Redrive
  PROVE  Provenance'
  <1>1. UNCHANGED <<case, recorded, trail, desk, late, signals>>
    BY DEF Workflow, DocumentsFetched, DocumentExtracted, EvidenceGathered,
           RiskScored, Parked, TakeDecision, Finalized, Completed, WorkflowFails,
           Redrive, LaunchRun, dbVars
  <1>2. DeskRecorded' /\ SignalsAuthored' /\ LateJustified' /\ RowJustified'
    BY <1>1, Growth, Undisturbed
  <1>3. RunJustified'
    <2>1. CASE DocumentsFetched \/ DocumentExtracted \/ EvidenceGathered \/ Parked
      BY <2>1, Growth, Undisturbed
      DEF DocumentsFetched, DocumentExtracted, EvidenceGathered, Parked, Goto,
          TypeOK, Run, Activities
    <2>2. CASE RiskScored
      <3>1. CASE Goto("park", {"park"}) /\ UNCHANGED cleared
        BY <3>1, Growth, Undisturbed DEF Goto, TypeOK, Run, Activities
      <3>2. CASE wf'.decision = "approved" /\ cleared'
        BY <3>2 DEF RunJustified, Justified, Verdicts
      <3>3. QED
        BY <2>2, <3>1, <3>2 DEF RiskScored
    <2>3. CASE TakeDecision
      <3>1. taken' \in 1..Len(signals)
        BY <2>3 DEF TakeDecision, TypeOK, OldestSignal
      <3>2. signals[taken'] \in Decisions /\ Authored(signals[taken'])
        BY <3>1 DEF Provenance, SignalsAuthored, TypeOK
      <3>3. CASE signals[taken'] = "escalated"
        BY <2>3, <3>3, Growth, Undisturbed DEF TakeDecision
      <3>4. CASE signals[taken'] # "escalated"
        <4>1. wf'.decision = signals[taken']
          BY <2>3, <3>4 DEF TakeDecision, TypeOK, Run
        <4>2. Justified(wf'.decision)
          BY <3>2, <3>4, <4>1 DEF Justified, Decisions
        <4>3. QED
          BY <1>1, <4>2, Growth DEF RunJustified, Justified, Authored
      <3>5. QED
        BY <3>3, <3>4
    <2>4. CASE Finalized
      BY <2>4, Growth, Undisturbed
      DEF Finalized, Succeeded, Goto, TypeOK, Run, Activities
    <2>5. CASE Completed \/ WorkflowFails
      BY <2>5, Growth, Undisturbed DEF Completed, WorkflowFails, TypeOK, Run
    <2>6. CASE Redrive
      BY <2>6 DEF Redrive, LaunchRun, RunJustified, Idle, Activities
    <2>7. QED
      BY <2>1, <2>2, <2>3, <2>4, <2>5, <2>6 DEF Workflow
  <1>4. QED
    BY <1>2, <1>3 DEF Provenance

\* No verdict exists before the first request.
LEMMA InitProvenance == Init => Provenance
  BY DEF Init, Provenance, DeskRecorded, SignalsAuthored, RunJustified,
         LateJustified, RowJustified, Idle, Activities

\* Types and provenance support each other: a row written by finalize_case has
\* a legal status only because the run's verdict is a justified one.
LEMMA ProvenanceStep == TypeOK /\ Provenance /\ [Next]_vars => (TypeOK /\ Provenance)'
  <1> SUFFICES ASSUME TypeOK, Provenance, [Next]_vars
               PROVE  TypeOK' /\ Provenance'
    OBVIOUS
  <1>1. ASSUME Next, NEW c \in Calls,
               InsertCase(c) \/ StartWorkflow(c) \/ RecordCreated(c) \/ CallFails(c)
        PROVE  TypeOK' /\ Provenance'
    BY <1>1, CallType, CallProvenance
  <1>2. ASSUME Next, NEW r \in Reviewers,
               \/ \E d \in Decisions : CheckStatus(r, d)
               \/ RecordDecision(r) \/ AuditDecision(r) \/ SignalWorkflow(r)
               \/ DecisionFails(r)
        PROVE  TypeOK' /\ Provenance'
    BY <1>2, DeskType, DeskProvenance
  <1>3. ASSUME Next, NEW a \in Activities,
               \/ Worker(a) \/ AttemptFails(a) \/ AttemptAbandoned(a)
               \/ ScheduleToClose(a)
        PROVE  TypeOK' /\ Provenance'
    BY <1>3, WorkerType, WorkerProvenance DEF Provenance
  <1>4. ASSUME Next, NEW w \in late, LateCommit(w)
        PROVE  TypeOK' /\ Provenance'
    BY <1>4, LateType, LateProvenance DEF Provenance
  <1>5. CASE Next /\ (Workflow \/ Redrive)
    BY <1>5, WorkflowType, WorkflowProvenance
  <1>6. CASE UNCHANGED vars
    <2>1. TypeOK'
      BY <1>6 DEF TypeOK, vars
    <2>2. Provenance'
      BY <1>6 DEF vars, Provenance, DeskRecorded, SignalsAuthored, RunJustified,
             LateJustified, RowJustified, Justified, Authored
    <2>3. QED
      BY <2>1, <2>2
  <1>7. QED
    BY <1>1, <1>2, <1>3, <1>4, <1>5, <1>6 DEF Next

\* Every reachable state is well typed: attempts never exceed the retry policy,
\* no signal is popped twice, the row never holds a status outside the schema.
THEOREM TypeCorrect == Spec => []TypeOK
  <1>1. Init => TypeOK /\ Provenance
    BY InitType, InitProvenance
  <1>2. QED
    BY <1>1, ProvenanceStep, PTL DEF Spec

\* Whatever is retried, duplicated, abandoned or reset, every verdict on its way
\* to the row is one that a reviewer recorded and the trail shows, or a
\* clearance.
THEOREM VerdictsHaveProvenance == Spec => []Provenance
  <1>1. Init => TypeOK /\ Provenance
    BY InitType, InitProvenance
  <1>2. QED
    BY <1>1, ProvenanceStep, PTL DEF Spec

\* In particular the decision a case ends up with, and a rejection is always a
\* reviewer's.
THEOREM DecisionsAreAuthored == Spec => []DecisionAuthored
  <1>1. Provenance => DecisionAuthored
    BY DEF Provenance, RowJustified, Justified, DecisionAuthored
  <1>2. QED
    BY <1>1, VerdictsHaveProvenance, PTL

------------------------------------------------------------------------------
(* No case is approved without a human unless the evidence of its run clears it *)

\* An activity under way stays within what AttemptFails may leave of it.
LEMMA AttemptMoves ==
  ASSUME TypeOK, NEW a \in Activities,
         Worker(a) \/ AttemptFails(a) \/ AttemptAbandoned(a) \/ ScheduleToClose(a)
  PROVE  /\ UNCHANGED <<wf, recorded, call, desk, signals, taken, runs, cleared>>
         /\ act[a].st \in OpenStages /\ act'[a].st \in Stages \ {"idle"}
         /\ \A b \in Activities : b # a => act'[b] = act[b]
         /\ act'[a].st \in {"committed", "done"} => Commit(a) \/ Report(a)
         /\ Report(a) => act[a].st = "committed"
  <1>1. act \in [Activities -> ActivityRecord] /\ act[a] \in ActivityRecord
    BY DEF TypeOK
  <1>2. CASE Begin(a)
    <2>1. act'[a].st = "begun"
      BY <1>1, <1>2 DEF Begin, ActivityRecord
    <2>2. QED
      BY <1>1, <1>2, <2>1 DEF Begin, Report, OpenStages, Stages
  <1>3. CASE Commit(a)
    <2>1. act'[a].st = "committed" /\ act[a].st = "begun"
      BY <1>1, <1>3 DEF Commit, ActivityRecord
    <2>2. QED
      BY <1>1, <1>3, <2>1 DEF Commit, Report, OpenStages, Stages
  <1>4. CASE Report(a)
    <2>1. act'[a].st = "done"
      BY <1>1, <1>4 DEF Report, ActivityRecord
    <2>2. QED
      BY <1>1, <1>4, <2>1 DEF Report, OpenStages, Stages, dbVars
  <1>5. AfterFailedAttempt(a).st \in {"queued", "failed"}
    BY DEF AfterFailedAttempt, Queued, Idle
  <1>6. CASE AttemptFails(a) \/ AttemptAbandoned(a)
    <2>1. act'[a] = AfterFailedAttempt(a)
      BY <1>1, <1>6 DEF AttemptFails, AttemptAbandoned
    <2>2. act'[a].st \in {"queued", "failed"}
      BY <1>5, <2>1
    <2>3. /\ UNCHANGED <<wf, recorded, call, desk, signals, taken, runs, cleared>>
          /\ act[a].st \in OpenStages /\ ~Report(a)
          /\ \A b \in Activities : b # a => act'[b] = act[b]
      <3>1. ~Report(a)
        <4>1. Report(a) => act'[a].st = "done"
          BY <1>1 DEF Report, ActivityRecord
        <4>2. QED
          BY <2>2, <4>1
      <3>2. QED
        BY <1>1, <1>6, <3>1 DEF AttemptFails, AttemptAbandoned, OpenStages, dbVars
    <2>4. QED
      BY <2>2, <2>3 DEF Stages
  <1>7. CASE ScheduleToClose(a)
    <2>1. act'[a].st = "failed"
      BY <1>1, <1>7 DEF ScheduleToClose, Idle
    <2>2. ~Report(a)
      <3>1. Report(a) => act'[a].st = "done"
        BY <1>1 DEF Report, ActivityRecord
      <3>2. QED
        BY <2>1, <3>1
    <2>3. QED
      BY <1>1, <1>7, <2>1, <2>2 DEF ScheduleToClose, Stages, dbVars
  <1>8. QED
    BY <1>2, <1>3, <1>4, <1>6, <1>7 DEF Worker

Evidence == RowExists /\ Reached /\ Scored /\ AutoApprovalEvidenced

\* A case that does not exist yet has no evidence.
LEMMA InitEvidence == Init => Evidence
  BY DEF Init, Evidence, RowExists, Reached, Scored, AutoApprovalEvidenced, Idle,
         Activities

\* A run starts with no evidence and no verdict.
LEMMA LaunchEvidence ==
  ASSUME TypeOK, LaunchRun(signals) \/ LaunchRun(<<>>)
  PROVE  Reached' /\ Scored' /\ AutoApprovalEvidenced'
  BY DEF LaunchRun, Reached, Scored, AutoApprovalEvidenced, Idle, Queued,
         Activities, Closed

\* The API handlers touch the documents only when there is no case yet, hence
\* no run.
LEMMA CallEvidence ==
  ASSUME TypeOK, Evidence, NEW c \in Calls,
         InsertCase(c) \/ StartWorkflow(c) \/ RecordCreated(c) \/ CallFails(c)
  PROVE  Evidence'
  <1>0. call \in [Calls -> CallStages]
    BY DEF TypeOK
  <1>1. CASE InsertCase(c)
    <2>1. RowExists'
      BY <1>0, <1>1 DEF InsertCase, Evidence, RowExists, runVars
    <2>2. CASE UNCHANGED case
      BY <1>1, <2>1, <2>2 DEF InsertCase, runVars, Evidence, Reached, Scored,
         AutoApprovalEvidenced, Succeeded, Closed, FaceScorePassed, HitsPassed
    <2>3. CASE case.status = "absent"
      BY <1>1, <2>1, <2>3 DEF InsertCase, runVars, Evidence, RowExists, Reached,
         Scored, AutoApprovalEvidenced, Succeeded, Closed, FaceScorePassed,
         HitsPassed
    <2>4. QED
      BY <1>1, <2>2, <2>3 DEF InsertCase
  <1>2. CASE StartWorkflow(c)
    <2>1. RowExists'
      BY <1>0, <1>2 DEF StartWorkflow, Evidence, RowExists, runVars, dbVars
    <2>2. CASE UNCHANGED runVars
      BY <1>2, <2>1, <2>2 DEF StartWorkflow, dbVars, runVars, Evidence, Reached,
         Scored, AutoApprovalEvidenced, Succeeded, Closed, FaceScorePassed,
         HitsPassed
    <2>3. CASE LaunchRun(<<>>)
      BY <2>1, <2>3, LaunchEvidence DEF Evidence
    <2>4. QED
      BY <1>2, <2>2, <2>3 DEF StartWorkflow
  <1>3. CASE RecordCreated(c) \/ CallFails(c)
    <2>1. UNCHANGED <<case, wf, act>>
      BY <1>3 DEF RecordCreated, CallFails, dbVars, runVars
    <2>2. RowExists'
      BY <1>0, <1>3, <2>1 DEF RecordCreated, CallFails, Evidence, RowExists
    <2>3. QED
      BY <2>1, <2>2 DEF Evidence, Reached, Scored, AutoApprovalEvidenced,
         Succeeded, Closed, FaceScorePassed, HitsPassed
  <1>4. QED
    BY <1>1, <1>2, <1>3

\* Attempts: a finished activity never changes again, and the risk activity's
\* verdict follows from evidence that is finished.
LEMMA WorkerEvidence ==
  ASSUME TypeOK, Provenance, Evidence, NEW a \in Activities,
         Worker(a) \/ AttemptFails(a) \/ AttemptAbandoned(a) \/ ScheduleToClose(a)
  PROVE  Evidence'
  <1>1. /\ UNCHANGED <<wf, call>>
        /\ act[a].st \in OpenStages
        /\ act \in [Activities -> ActivityRecord]
        /\ \A b \in Activities : b # a => act'[b] = act[b]
    BY DEF Worker, Begin, Commit, Report, AttemptFails, AttemptAbandoned,
           ScheduleToClose, OpenStages, dbVars, TypeOK
  <1>2. UNCHANGED case.docs /\ (case.status # "absent" => case'.status # "absent")
    <2>1. CASE UNCHANGED case
      BY <2>1
    <2>2. CASE Commit(a)
      <3>1. a = "finalize" => wf.decision \in Verdicts
        BY <2>2 DEF Commit, Provenance, RunJustified, Justified
      <3>2. QED
        BY <2>2, <3>1 DEF Commit, RowAfter, TypeOK, CaseRow, Verdicts
    <2>3. QED
      BY <2>1, <2>2 DEF Worker, Begin, Report, AttemptFails, AttemptAbandoned,
         ScheduleToClose, dbVars
  <1>3. RowExists'
    BY <1>1, <1>2 DEF Evidence, RowExists
  <1>4. \A b \in Activities : Closed(b) => act'[b] = act[b]
    BY <1>1 DEF Closed, OpenStages
  <1>5. \A b \in Activities : Closed(b) => Closed(b)'
    BY <1>4 DEF Closed
  <1>6. Reached' /\ AutoApprovalEvidenced'
    BY <1>1, <1>2, <1>4 DEF Evidence, Reached, AutoApprovalEvidenced, Succeeded,
       Closed, Activities
  <1>7. Scored'
    <2>1. act'["screen"].st \in {"committed", "done"} =>
            act'["screen"].out \in {"clear", "hit"}
      <3>1. CASE a # "screen"
        BY <1>1, <3>1 DEF Evidence, Scored, Activities
      <3>2. CASE a = "screen" /\ Commit(a)
        BY <1>1, <3>2 DEF Commit, ResultsOf, ActivityRecord
      <3>3. CASE a = "screen" /\ Report(a)
        BY <1>1, <3>3 DEF Report, Evidence, Scored, ActivityRecord
      <3>4. QED
        BY <3>1, <3>2, <3>3, AttemptMoves
    <2>2. wf'.at \in {"fetch", "extract", "evidence"} => act'["risk"].st = "idle"
      BY <1>1 DEF Evidence, Scored, OpenStages, Activities
    <2>3. act'["risk"].st # "idle" => Closed("face")' /\ Closed("screen")'
      BY <1>1, <1>5 DEF Evidence, Scored, OpenStages, Activities
    <2>4. act'["risk"].st \in {"committed", "done"} /\ act'["risk"].out = "clear" =>
            FaceScorePassed' /\ ~HitsPassed'
      <3>1. CASE act["risk"].st = "idle"
        BY <1>1, <3>1 DEF OpenStages, Activities
      <3>2. CASE act["risk"].st # "idle"
        <4>1. /\ act'["face"] = act["face"]
              /\ act'["screen"] = act["screen"]
          BY <1>4, <3>2 DEF Evidence, Scored, Activities
        <4>2. (FaceScorePassed' <=> FaceScorePassed) /\ (HitsPassed' <=> HitsPassed)
          BY <4>1 DEF FaceScorePassed, HitsPassed, Succeeded
        <4>3. CASE a # "risk"
          BY <1>1, <4>2, <4>3 DEF Evidence, Scored, Activities
        <4>4. CASE a = "risk" /\ Commit(a)
          BY <1>1, <4>2, <4>4 DEF Commit, ResultsOf, RiskResults, ActivityRecord
        <4>5. CASE a = "risk" /\ Report(a)
          BY <1>1, <4>2, <4>5 DEF Report, Evidence, Scored, ActivityRecord
        <4>6. QED
          BY <4>3, <4>4, <4>5, AttemptMoves
      <3>3. QED
        BY <3>1, <3>2
    <2>5. act'["risk"].st \in {"committed", "done"} =>
            act'["risk"].out \in {"clear", "review"}
      <3>1. CASE a # "risk"
        BY <1>1, <3>1 DEF Evidence, Scored, Activities
      <3>2. CASE a = "risk" /\ Commit(a)
        BY <1>1, <3>2 DEF Commit, ResultsOf, RiskResults, ActivityRecord
      <3>3. CASE a = "risk" /\ Report(a)
        BY <1>1, <3>3 DEF Report, Evidence, Scored, ActivityRecord
      <3>4. QED
        BY <3>1, <3>2, <3>3, AttemptMoves
    <2>6. QED
      BY <2>1, <2>2, <2>3, <2>4, <2>5 DEF Scored
  <1>8. QED
    BY <1>3, <1>6, <1>7 DEF Evidence

\* Deciding a case, and a late write, leave documents, run and activities alone.
LEMMA RowEvidence ==
  ASSUME TypeOK, Evidence, UNCHANGED <<wf, act, call>>, UNCHANGED case.docs,
         case.status # "absent" => case'.status # "absent"
  PROVE  Evidence'
  BY DEF Evidence, RowExists, Reached, Scored, AutoApprovalEvidenced, Succeeded,
         Closed, FaceScorePassed, HitsPassed

\* A late write of an abandoned attempt does not disturb the evidence of the run.
LEMMA LateEvidence ==
  ASSUME TypeOK, Provenance, Evidence, NEW w \in late, LateCommit(w)
  PROVE  Evidence'
  <1>1. w[1] # "park" => w[2] \in Verdicts
    BY DEF Provenance, LateJustified, Justified
  <1>2. UNCHANGED case.docs /\ (case.status # "absent" => case'.status # "absent")
    BY <1>1 DEF LateCommit, RowAfter, TypeOK, CaseRow, Verdicts
  <1>3. QED
    BY <1>2, RowEvidence DEF LateCommit, runVars

\* The workflow moves on only when the evidence of its position is there.
LEMMA WorkflowEvidence ==
  ASSUME TypeOK, Evidence, Workflow \/ Redrive
  PROVE  Evidence'
  <1>0. UNCHANGED <<case, call>> /\ act \in [Activities -> ActivityRecord] /\ wf \in Run
    BY DEF Workflow, DocumentsFetched, DocumentExtracted, EvidenceGathered,
           RiskScored, Parked, TakeDecision, Finalized, Completed, WorkflowFails,
           Redrive, dbVars, TypeOK
  <1>1. wf.at # "none"
    BY DEF Workflow, DocumentsFetched, DocumentExtracted, EvidenceGathered,
           RiskScored, Parked, TakeDecision, Finalized, Completed, WorkflowFails,
           Redrive
  <1>2. RowExists'
    BY <1>0, <1>1 DEF Evidence, RowExists
  <1>3. CASE DocumentsFetched
    BY <1>0, <1>2, <1>3 DEF DocumentsFetched, Goto, Evidence, Reached, Scored,
       AutoApprovalEvidenced, Succeeded, Closed, FaceScorePassed, HitsPassed,
       Activities, Run
  <1>4. CASE DocumentExtracted
    <2>1. wf.at = "extract" /\ ~wf.auto /\ act["risk"].st = "idle"
      BY <1>4 DEF DocumentExtracted, Evidence, Reached, Scored
    <2>2. CASE Goto("park", {"park"})
      BY <1>0, <1>2, <2>1, <2>2 DEF Goto, Evidence, Reached, Scored, Run,
         AutoApprovalEvidenced, Activities, Closed, FaceScorePassed, HitsPassed
    <2>3. CASE ~Goto("park", {"park"})
      <3>1. /\ Succeeded("extract") /\ act["extract"].out = "valid"
            /\ case.docs = DocTypes
            /\ Goto("evidence", {"face", "screen"})
        <4>1. /\ Succeeded("extract") /\ act["extract"].out = "valid"
              /\ "selfie" \in case.docs
              /\ Goto("evidence", {"face", "screen"})
          BY <1>4, <2>3 DEF DocumentExtracted
        <4>2. "id_document" \in case.docs
          BY <2>1 DEF Evidence, Reached
        <4>3. case.docs \subseteq DocTypes
          BY DEF TypeOK, CaseRow
        <4>4. case.docs = DocTypes
          BY <4>1, <4>2, <4>3 DEF DocTypes
        <4>5. QED
          BY <4>1, <4>4
      <3>2. QED
        <4>1. /\ wf'.at = "evidence" /\ ~wf'.auto
              /\ act'["extract"] = act["extract"]
              /\ act'["risk"].st = "idle"
              /\ act'["screen"].st = "queued"
          BY <1>0, <2>1, <3>1 DEF Goto, Run, Queued, Idle, Activities
        <4>2. Reached' /\ AutoApprovalEvidenced'
          BY <1>0, <3>1, <4>1 DEF Reached, AutoApprovalEvidenced, Succeeded
        <4>3. Scored'
          BY <4>1 DEF Scored
        <4>4. QED
          BY <1>2, <4>2, <4>3 DEF Evidence
    <2>4. QED
      BY <2>2, <2>3
  <1>5. CASE EvidenceGathered
    <2>1. /\ wf.at = "evidence" /\ Closed("face") /\ Closed("screen") /\ ~wf.auto
          /\ Goto("risk", {"risk"})
      BY <1>5 DEF EvidenceGathered, Evidence, Reached
    <2>2. /\ wf'.at = "risk" /\ ~wf'.auto
          /\ act'["extract"] = act["extract"]
          /\ act'["face"] = act["face"]
          /\ act'["screen"] = act["screen"]
          /\ act'["risk"].st = "queued"
      BY <1>0, <2>1 DEF Goto, Run, Activities, Queued, Idle
    <2>3. Reached' /\ AutoApprovalEvidenced'
      BY <1>0, <2>1, <2>2 DEF Evidence, Reached, AutoApprovalEvidenced, Succeeded
    <2>4. Scored'
      BY <2>1, <2>2 DEF Evidence, Scored, Closed
    <2>5. QED
      BY <1>2, <2>3, <2>4 DEF Evidence
  <1>6. CASE RiskScored
    <2>1. CASE Goto("park", {"park"})
      BY <1>0, <1>2, <1>6, <2>1 DEF RiskScored, Goto, Evidence, Reached, Scored, Run,
         AutoApprovalEvidenced, Activities, Closed, FaceScorePassed, HitsPassed,
         Succeeded
    <2>2. CASE ~Goto("park", {"park"})
      <3>1. /\ ~HardFailure /\ act["risk"].out # "review" /\ Succeeded("risk")
            /\ wf.at = "risk"
            /\ wf' = [at |-> "finalize", auto |-> TRUE, decision |-> "approved"]
            /\ act' = [act EXCEPT !["finalize"] = Queued]
        BY <1>6, <2>2 DEF RiskScored
      <3>2. act["risk"].out = "clear"
        BY <3>1 DEF Evidence, Scored, Succeeded
      <3>3. QED
        BY <1>0, <1>2, <3>1, <3>2 DEF Evidence, Reached, Scored, HardFailure,
           AutoApprovalEvidenced, Activities, Closed, FaceScorePassed,
           HitsPassed, Succeeded
    <2>3. QED
      BY <2>1, <2>2
  <1>7. CASE Parked \/ Finalized
    BY <1>0, <1>2, <1>7 DEF Parked, Finalized, Goto, Evidence, Reached, Scored, Run,
       AutoApprovalEvidenced, Activities, Closed, FaceScorePassed, HitsPassed,
       Succeeded
  <1>8. CASE TakeDecision
    <2>1. /\ wf.at = "await" /\ ~wf.auto /\ wf'.auto = wf.auto
          /\ wf'.at \in {"await", "finalize"}
          /\ \A b \in Activities : b # "finalize" => act'[b] = act[b]
      BY <1>0, <1>8 DEF TakeDecision, Evidence, Reached, Run
    <2>2. QED
      BY <1>0, <1>2, <2>1 DEF Evidence, Reached, Scored, AutoApprovalEvidenced,
         Activities, Closed, FaceScorePassed, HitsPassed, Succeeded
  <1>9. CASE Completed \/ WorkflowFails
    <2>1. /\ wf'.auto = wf.auto /\ UNCHANGED act
          /\ wf'.at \in {"completed", "failed"}
      BY <1>0, <1>9 DEF Completed, WorkflowFails, Run
    <2>2. QED
      BY <1>0, <1>2, <2>1 DEF Evidence, Reached, Scored, AutoApprovalEvidenced,
         Closed, FaceScorePassed, HitsPassed, Succeeded
  <1>10. CASE Redrive
    BY <1>2, <1>10, LaunchEvidence DEF Redrive, Evidence
  <1>11. QED
    BY <1>3, <1>4, <1>5, <1>6, <1>7, <1>8, <1>9, <1>10 DEF Workflow

\* Every step keeps the evidence in step with the workflow.
LEMMA EvidenceStep ==
  TypeOK /\ Provenance /\ Evidence /\ [Next]_vars => Evidence'
  <1> SUFFICES ASSUME TypeOK, Provenance, Evidence, [Next]_vars PROVE Evidence'
    OBVIOUS
  <1>1. ASSUME NEW c \in Calls,
               InsertCase(c) \/ StartWorkflow(c) \/ RecordCreated(c) \/ CallFails(c)
        PROVE  Evidence'
    BY <1>1, CallEvidence
  <1>2. ASSUME NEW r \in Reviewers, NEW d \in Decisions,
               \/ CheckStatus(r, d) \/ RecordDecision(r) \/ AuditDecision(r)
               \/ SignalWorkflow(r) \/ DecisionFails(r)
        PROVE  Evidence'
    <2>1. UNCHANGED <<case, wf, act, call>>
      BY <1>2 DEF CheckStatus, RecordDecision, AuditDecision, SignalWorkflow,
             DecisionFails, dbVars, runVars
    <2>2. QED
      BY <2>1, RowEvidence
  <1>3. ASSUME NEW a \in Activities,
               \/ Worker(a) \/ AttemptFails(a) \/ AttemptAbandoned(a)
               \/ ScheduleToClose(a)
        PROVE  Evidence'
    BY <1>3, WorkerEvidence
  <1>4. ASSUME NEW w \in late, LateCommit(w)
        PROVE  Evidence'
    BY <1>4, LateEvidence
  <1>5. CASE Workflow \/ Redrive
    BY <1>5, WorkflowEvidence
  <1>6. CASE UNCHANGED vars
    BY <1>6, RowEvidence DEF vars
  <1>7. QED
    BY <1>1, <1>2, <1>3, <1>4, <1>5, <1>6 DEF Next, Decisions

\* A case is approved automatically only by a run in which both documents were
\* present, the extraction was valid, the face was compared, the screen found
\* nothing and the policy asked for no review: a failed activity never passes
\* for a clean one, whatever was retried, abandoned or reset.
THEOREM AutoApprovalsAreEvidenced == Spec => []AutoApprovalEvidenced
  <1>1. Init => Evidence
    BY InitEvidence
  <1>2. Evidence => AutoApprovalEvidenced
    BY DEF Evidence
  <1>3. QED
    BY <1>1, <1>2, EvidenceStep, TypeCorrect, VerdictsHaveProvenance, PTL DEF Spec

------------------------------------------------------------------------------
(* What becomes of a verdict *)

BeforeVerdict == {"none", "fetch", "extract", "evidence", "risk", "park", "await"}
AfterVerdict == {"finalize", "deliver", "completed", "failed"}

\* A run holds no verdict until it has one to finalize; what it has popped of the
\* signals before that are escalations.
VerdictInv ==
  /\ wf.at \in BeforeVerdict => wf.decision = "none"
  /\ wf.auto => wf.decision = "approved"
  /\ wf.decision = "none" => \A i \in 1 .. taken : signals[i] = "escalated"
  /\ FirstVerdictWins

\* Where a run is tells which of the writing activities may be under way.
Placed ==
  /\ act["park"].st \in OpenStages => wf.at = "park"
  /\ act["deliver"].st \in OpenStages => wf.at = "deliver"
  /\ act["finalize"].st \in OpenStages => wf.at = "finalize"
  /\ act["finalize"].st # "idle" => wf.at \in AfterVerdict
  /\ act["deliver"].st # "idle" => act["finalize"].st = "done"
  /\ wf.at \in {"deliver", "completed"} => act["finalize"].st = "done"

\* With no transaction outliving its attempt, what finalize_case wrote stays.
Stored ==
  /\ late = {}
  /\ act["finalize"].st \in {"committed", "done"} =>
       case.status = wf.decision /\ case.decision = wf.decision

\* The only run a case has announces its own verdict.
Announced ==
  /\ runs = 0 => wf.at = "none"
  /\ posted # {} => act["finalize"].st = "done" /\ posted \subseteq {wf.decision}

\* The row keeps step with the only run.
RowFollows ==
  /\ case.decision = IF case.status \in Verdicts THEN case.status ELSE "none"
  /\ wf.at \in {"none", "fetch", "extract", "evidence", "risk"} =>
       case.status \in {"absent", "pending"}
  /\ wf.at = "park" =>
       /\ case.status \in {"pending", "needs_review"}
       /\ act["park"].st \in {"committed", "done"} => case.status = "needs_review"
  /\ wf.at = "await" => case.status = "needs_review"
  /\ wf.at = "finalize" =>
       case.status \in {IF wf.auto THEN "pending" ELSE "needs_review", wf.decision}
  /\ \A r \in Reviewers : desk[r].at = "checked" => case.status \notin {"absent", "pending"}


------------------------------------------------------------------------------
(* The first verdict delivered *)

\* A run that starts has no verdict and has popped no signal.
LEMMA LaunchVerdict ==
  ASSUME NEW inherited \in Seq(Decisions), LaunchRun(inherited)
  PROVE  VerdictInv'
  <1>1. wf' = [at |-> "fetch", auto |-> FALSE, decision |-> "none"] /\ taken' = 0
    BY DEF LaunchRun
  <1>2. QED
    BY <1>1 DEF VerdictInv, FirstVerdictWins

\* Signals are only ever appended, behind those the run has popped.
LEMMA SameRunVerdict ==
  ASSUME TypeOK, VerdictInv, UNCHANGED <<wf, taken>>,
         \A i \in 1 .. Len(signals) : signals'[i] = signals[i]
  PROVE  VerdictInv'
  <1>1. taken \in Nat /\ Len(signals) \in Nat /\ taken <= Len(signals)
    BY DEF TypeOK
  <1>2. \A i \in 1 .. taken : signals'[i] = signals[i]
    BY <1>1
  <1>3. /\ taken > 0 => signals'[taken] = signals[taken]
        /\ \A i \in 1 .. (taken - 1) : i \in 1 .. taken
    BY <1>1, <1>2
  <1>4. QED
    BY <1>1, <1>2, <1>3 DEF VerdictInv, FirstVerdictWins

\* A step of the run that neither pops a signal nor settles the verdict.
LEMMA SameDecision ==
  ASSUME TypeOK, VerdictInv, UNCHANGED <<signals, taken>>,
         wf'.decision = wf.decision, wf'.auto = wf.auto,
         wf'.at \in BeforeVerdict => wf.at \in BeforeVerdict
  PROVE  VerdictInv'
  BY DEF VerdictInv, FirstVerdictWins

\* A decision popped is the verdict, unless it is an escalation.
LEMMA TakeVerdict ==
  ASSUME TypeOK, VerdictInv, TakeDecision
  PROVE  VerdictInv'
  <1>1. /\ taken \in Nat /\ Len(signals) \in Nat /\ taken < Len(signals)
        /\ wf \in Run /\ wf.at = "await" /\ taken' = taken + 1
        /\ UNCHANGED signals
    BY DEF TypeOK, TakeDecision, OldestSignal
  <1>2. wf.decision = "none" /\ \A i \in 1 .. taken : signals[i] = "escalated"
    BY <1>1 DEF VerdictInv, BeforeVerdict
  <1>3. signals[taken + 1] \in Decisions
    BY <1>1 DEF TypeOK
  <1>4. CASE signals[taken + 1] = "escalated"
    <2>1. wf' = wf
      BY <1>4 DEF TakeDecision, OldestSignal
    <2>2. \A i \in 1 .. taken' : signals'[i] = "escalated"
      BY <1>1, <1>2, <1>4
    <2>3. QED
      BY <1>2, <2>1, <2>2 DEF VerdictInv, FirstVerdictWins
  <1>5. CASE signals[taken + 1] # "escalated"
    <2>1. wf' = [wf EXCEPT !.at = "finalize", !.decision = signals[taken + 1]]
      BY <1>5 DEF TakeDecision, OldestSignal
    <2>2. wf'.at = "finalize" /\ wf'.decision = signals[taken + 1] /\ ~wf'.auto
      BY <1>1, <1>2, <2>1 DEF Run, VerdictInv
    <2>3. wf'.decision # "none"
      BY <1>3, <2>2 DEF Decisions, Verdicts
    <2>4. taken' - 1 = taken /\ taken' > 0
      BY <1>1
    <2>5. QED
      BY <1>1, <1>2, <2>2, <2>3, <2>4 DEF VerdictInv, FirstVerdictWins, BeforeVerdict
  <1>6. QED
    BY <1>4, <1>5

\* The workflow's own steps and a re-drive keep the verdict the first one.
LEMMA WorkflowVerdict ==
  ASSUME TypeOK, VerdictInv, Workflow \/ Redrive
  PROVE  VerdictInv'
  <1>1. wf \in Run
    BY DEF TypeOK
  <1>2. CASE DocumentsFetched \/ DocumentExtracted \/ EvidenceGathered \/ Parked
    <2>1. /\ UNCHANGED <<signals, taken>>
          /\ wf.at \in BeforeVerdict
          /\ \E step \in Steps : wf' = [wf EXCEPT !.at = step]
      BY <1>2 DEF DocumentsFetched, DocumentExtracted, EvidenceGathered, Parked, Goto,
         BeforeVerdict, Steps
    <2>2. wf'.decision = wf.decision /\ wf'.auto = wf.auto
      BY <1>1, <2>1 DEF Run
    <2>3. QED
      BY <2>1, <2>2, SameDecision
  <1>3. CASE RiskScored
    <2>1. UNCHANGED <<signals, taken>> /\ wf.at = "risk"
      BY <1>3 DEF RiskScored
    <2>2. CASE Goto("park", {"park"})
      <3>1. wf'.decision = wf.decision /\ wf'.auto = wf.auto
        BY <1>1, <2>2 DEF Goto, Run
      <3>2. QED
        BY <2>1, <3>1, SameDecision DEF BeforeVerdict
    <2>3. CASE wf' = [at |-> "finalize", auto |-> TRUE, decision |-> "approved"]
      BY <2>3 DEF VerdictInv, FirstVerdictWins, BeforeVerdict
    <2>4. QED
      BY <1>3, <2>2, <2>3 DEF RiskScored
  <1>4. CASE Finalized \/ Completed \/ WorkflowFails
    <2>1. /\ UNCHANGED <<signals, taken>>
          /\ \E step \in {"deliver", "completed", "failed"} : wf' = [wf EXCEPT !.at = step]
      BY <1>4 DEF Finalized, Completed, WorkflowFails, Goto
    <2>2. /\ wf'.decision = wf.decision /\ wf'.auto = wf.auto
          /\ wf'.at \in {"deliver", "completed", "failed"}
      BY <1>1, <2>1 DEF Run
    <2>3. QED
      BY <2>1, <2>2, SameDecision DEF BeforeVerdict
  <1>5. CASE Redrive
    <2>1. signals \in Seq(Decisions) /\ LaunchRun(signals)
      BY <1>5 DEF Redrive, TypeOK
    <2>2. QED
      BY <2>1, LaunchVerdict
  <1>6. QED
    BY <1>2, <1>3, <1>4, <1>5, TakeVerdict DEF Workflow

\* The workflow moves on its own or is signalled or is started anew; nothing else
\* touches what it has popped and decided.
LEMMA RunTouched ==
  ASSUME [Next]_vars
  PROVE  \/ UNCHANGED <<wf, signals, taken>>
         \/ \E r \in Reviewers : SignalWorkflow(r)
         \/ \E c \in Calls : StartWorkflow(c) /\ LaunchRun(<<>>)
         \/ Workflow \/ Redrive
  <1>1. ASSUME NEW c \in Calls,
               InsertCase(c) \/ StartWorkflow(c) \/ RecordCreated(c) \/ CallFails(c)
        PROVE  UNCHANGED <<wf, signals, taken>> \/ (StartWorkflow(c) /\ LaunchRun(<<>>))
    BY <1>1 DEF InsertCase, StartWorkflow, RecordCreated, CallFails, runVars
  <1>2. ASSUME NEW r \in Reviewers, NEW d \in Decisions,
               CheckStatus(r, d) \/ RecordDecision(r) \/ AuditDecision(r) \/ DecisionFails(r)
        PROVE  UNCHANGED <<wf, signals, taken>>
    BY <1>2 DEF CheckStatus, RecordDecision, AuditDecision, DecisionFails, runVars
  <1>3. ASSUME NEW a \in Activities,
               \/ Worker(a) \/ AttemptFails(a) \/ AttemptAbandoned(a) \/ ScheduleToClose(a)
        PROVE  UNCHANGED <<wf, signals, taken>>
    BY <1>3 DEF Worker, Begin, Commit, Report, AttemptFails, AttemptAbandoned,
       ScheduleToClose
  <1>4. ASSUME NEW w \in late, LateCommit(w)
        PROVE  UNCHANGED <<wf, signals, taken>>
    BY <1>4 DEF LateCommit, runVars
  <1>5. CASE UNCHANGED vars
    BY <1>5 DEF vars
  <1>6. QED
    BY <1>1, <1>2, <1>3, <1>4, <1>5 DEF Next, Decisions

\* Every step keeps the verdict the first one.
LEMMA VerdictStep == TypeOK /\ VerdictInv /\ [Next]_vars => VerdictInv'
  <1> SUFFICES ASSUME TypeOK, VerdictInv, [Next]_vars
               PROVE  VerdictInv'
    OBVIOUS
  <1>1. CASE UNCHANGED <<wf, signals, taken>>
    BY <1>1, SameRunVerdict
  <1>2. ASSUME NEW r \in Reviewers, SignalWorkflow(r)
        PROVE  VerdictInv'
    <2>1. UNCHANGED <<wf, taken>> /\ signals \in Seq(Decisions)
          /\ desk[r].decision \in Decisions
      BY <1>2 DEF SignalWorkflow, TypeOK, DeskRecord
    <2>2. \/ UNCHANGED signals
          \/ signals' = Append(signals, desk[r].decision)
      BY <1>2 DEF SignalWorkflow
    <2>3. \A i \in 1 .. Len(signals) : signals'[i] = signals[i]
      BY <2>1, <2>2
    <2>4. QED
      BY <2>1, <2>3, SameRunVerdict
  <1>3. ASSUME LaunchRun(<<>>)
        PROVE  VerdictInv'
    <2>1. <<>> \in Seq(Decisions)
      OBVIOUS
    <2>2. QED
      BY <1>3, <2>1, LaunchVerdict
  <1>4. QED
    BY <1>1, <1>2, <1>3, WorkflowVerdict, RunTouched

\* A run that has not begun has no verdict.
LEMMA InitVerdict == Init => VerdictInv
  BY DEF Init, VerdictInv, FirstVerdictWins

\* The verdict a run applies is the first one delivered to it that is not an
\* escalation, whatever else is signalled and however often the run is restarted
\* (kyc_case.py:310-320).
THEOREM FirstVerdictIsApplied == Spec => []FirstVerdictWins
  <1>1. VerdictInv => FirstVerdictWins
    BY DEF VerdictInv
  <1>2. QED
    BY <1>1, InitVerdict, VerdictStep, TypeCorrect, PTL DEF Spec


------------------------------------------------------------------------------
(* Which writing activities may be under way *)

\* An attempt moves only an activity that the workflow is waiting for.
LEMMA WorkerPlaced ==
  ASSUME TypeOK, Placed, NEW a \in Activities,
         Worker(a) \/ AttemptFails(a) \/ AttemptAbandoned(a) \/ ScheduleToClose(a)
  PROVE  Placed'
  <1>1. /\ UNCHANGED wf /\ act[a].st \in OpenStages
        /\ \A b \in Activities : b # a => act'[b] = act[b]
    BY AttemptMoves
  <1>2. /\ a = "finalize" => wf.at \in AfterVerdict /\ act["deliver"].st = "idle"
                             /\ wf.at \notin {"deliver", "completed"}
        /\ a = "deliver" => wf.at = "deliver" /\ act["finalize"].st = "done"
        /\ a = "park" => wf.at = "park"
    BY <1>1 DEF Placed, OpenStages
  <1>3. {"park", "finalize", "deliver"} \subseteq Activities
    BY DEF Activities
  <1>4. CASE a \notin {"park", "finalize", "deliver"}
    BY <1>1, <1>3, <1>4 DEF Placed
  <1>5. CASE a = "park"
    BY <1>1, <1>2, <1>3, <1>5 DEF Placed
  <1>6. CASE a = "finalize"
    BY <1>1, <1>2, <1>3, <1>6 DEF Placed, OpenStages
  <1>7. CASE a = "deliver"
    BY <1>1, <1>2, <1>3, <1>7 DEF Placed
  <1>8. QED
    BY <1>4, <1>5, <1>6, <1>7

\* A run begins with no writing activity under way.
LEMMA LaunchPlaced ==
  ASSUME NEW inherited, LaunchRun(inherited)
  PROVE  Placed'
  BY DEF LaunchRun, Placed, Idle, Queued, Activities, OpenStages

\* The workflow leaves a writing activity only when it has closed.
LEMMA WorkflowPlaced ==
  ASSUME TypeOK, Placed, Workflow \/ Redrive
  PROVE  Placed'
  <1>0. /\ wf \in Run /\ act \in [Activities -> ActivityRecord]
        /\ {"park", "finalize", "deliver"} \subseteq Activities
        /\ Queued.st = "queued"
    BY DEF TypeOK, Activities, Queued, Idle
  <1>1. CASE DocumentsFetched \/ DocumentExtracted \/ EvidenceGathered \/ RiskScored
    <2>1. /\ wf.at \in {"fetch", "extract", "evidence", "risk"}
          /\ act["finalize"].st = "idle" /\ act["deliver"].st = "idle"
          /\ act["park"].st \notin OpenStages
      <3>1. wf.at \in {"fetch", "extract", "evidence", "risk"}
        BY <1>1 DEF DocumentsFetched, DocumentExtracted, EvidenceGathered, RiskScored
      <3>2. act["finalize"].st = "idle"
        BY <3>1 DEF Placed, AfterVerdict
      <3>3. QED
        BY <3>1, <3>2 DEF Placed
    <2>2. CASE Goto("park", {"park"})
      <3>1. /\ wf'.at = "park" /\ act'["finalize"] = act["finalize"]
            /\ act'["deliver"] = act["deliver"]
        BY <1>0, <2>2 DEF Goto, Run
      <3>2. QED
        BY <2>1, <3>1 DEF Placed, OpenStages
    <2>3. CASE \/ Goto("extract", {"extract"}) \/ Goto("evidence", {"face", "screen"})
               \/ Goto("risk", {"risk"})
      <3>1. /\ wf'.at \in {"extract", "evidence", "risk"} /\ act'["park"] = act["park"]
            /\ act'["finalize"] = act["finalize"] /\ act'["deliver"] = act["deliver"]
        BY <1>0, <2>3 DEF Goto, Run
      <3>2. QED
        BY <2>1, <3>1 DEF Placed, OpenStages
    <2>4. CASE /\ wf' = [at |-> "finalize", auto |-> TRUE, decision |-> "approved"]
               /\ act' = [act EXCEPT !["finalize"] = Queued]
      <3>1. /\ wf'.at = "finalize" /\ act'["park"] = act["park"]
            /\ act'["deliver"] = act["deliver"]
        BY <1>0, <2>4
      <3>2. QED
        BY <2>1, <3>1 DEF Placed, OpenStages, AfterVerdict
    <2>5. QED
      BY <1>1, <2>2, <2>3, <2>4 DEF DocumentsFetched, DocumentExtracted, EvidenceGathered,
         RiskScored
  <1>2. CASE Parked
    <2>1. /\ wf'.at = "await" /\ wf.at = "park" /\ act["park"].st = "done"
          /\ \A b \in Activities : act'[b] = act[b]
      BY <1>0, <1>2 DEF Parked, Goto, Run, Succeeded
    <2>2. act'["park"].st \notin OpenStages
      BY <1>0, <2>1 DEF OpenStages
    <2>3. QED
      BY <1>0, <2>1, <2>2 DEF Placed, AfterVerdict
  <1>3. CASE TakeDecision
    <2>1. CASE UNCHANGED <<wf, act>>
      BY <2>1 DEF Placed
    <2>2. CASE ~UNCHANGED <<wf, act>>
      <3>1. /\ wf.at = "await" /\ wf'.at = "finalize"
            /\ act' = [act EXCEPT !["finalize"] = Queued]
        BY <1>0, <1>3, <2>2 DEF TakeDecision, Run
      <3>2. act'["park"] = act["park"] /\ act'["deliver"] = act["deliver"]
        BY <1>0, <3>1
      <3>3. act["finalize"].st = "idle" /\ act["deliver"].st = "idle"
            /\ act["park"].st \notin OpenStages
        BY <3>1 DEF Placed, AfterVerdict
      <3>4. QED
        BY <3>1, <3>2, <3>3 DEF Placed, OpenStages, AfterVerdict
    <2>3. QED
      BY <2>1, <2>2
  <1>4. CASE Finalized
    <2>1. /\ wf.at = "finalize" /\ act["finalize"].st = "done" /\ wf'.at = "deliver"
          /\ act'["finalize"] = act["finalize"] /\ act'["park"] = act["park"]
      BY <1>0, <1>4 DEF Finalized, Goto, Run, Succeeded
    <2>2. QED
      BY <2>1 DEF Placed, AfterVerdict, OpenStages
  <1>5. CASE Completed
    <2>1. /\ wf.at = "deliver" /\ act["deliver"].st = "done" /\ wf'.at = "completed"
          /\ UNCHANGED act
      BY <1>0, <1>5 DEF Completed, Run, Succeeded
    <2>2. QED
      BY <2>1 DEF Placed, AfterVerdict, OpenStages
  <1>6. CASE WorkflowFails
    <2>1. /\ wf.at \in {"risk", "park", "finalize", "deliver"} /\ act[wf.at].st = "failed"
          /\ wf'.at = "failed" /\ UNCHANGED act
      BY <1>0, <1>6 DEF WorkflowFails, Run
    <2>2. \A b \in {"park", "finalize", "deliver"} : act[b].st \notin OpenStages
      BY <2>1 DEF Placed, OpenStages
    <2>3. QED
      BY <2>1, <2>2 DEF Placed, AfterVerdict
  <1>7. QED
    BY <1>1, <1>2, <1>3, <1>4, <1>5, <1>6, LaunchPlaced DEF Workflow, Redrive

\* Every step keeps the writing activities where the workflow is.
LEMMA PlacedStep == TypeOK /\ Placed /\ [Next]_vars => Placed'
  <1> SUFFICES ASSUME TypeOK, Placed, [Next]_vars
               PROVE  Placed'
    OBVIOUS
  <1>1. CASE UNCHANGED <<wf, act>>
    BY <1>1 DEF Placed
  <1>2. ASSUME NEW c \in Calls,
               InsertCase(c) \/ StartWorkflow(c) \/ RecordCreated(c) \/ CallFails(c)
        PROVE  UNCHANGED <<wf, act>> \/ LaunchRun(<<>>)
    BY <1>2 DEF InsertCase, StartWorkflow, RecordCreated, CallFails, runVars
  <1>3. ASSUME NEW r \in Reviewers, NEW d \in Decisions,
               \/ CheckStatus(r, d) \/ RecordDecision(r) \/ AuditDecision(r)
               \/ SignalWorkflow(r) \/ DecisionFails(r)
        PROVE  UNCHANGED <<wf, act>>
    BY <1>3 DEF CheckStatus, RecordDecision, AuditDecision, SignalWorkflow, DecisionFails,
       runVars
  <1>4. ASSUME NEW w \in late, LateCommit(w)
        PROVE  UNCHANGED <<wf, act>>
    BY <1>4 DEF LateCommit, runVars
  <1>5. CASE UNCHANGED vars
    BY <1>1, <1>5 DEF vars
  <1>6. QED
    BY <1>1, <1>2, <1>3, <1>4, <1>5, LaunchPlaced, WorkerPlaced, WorkflowPlaced
       DEF Next, Decisions

\* Nothing is under way before the first request.
LEMMA InitPlaced == Init => Placed
  BY DEF Init, Placed, Idle, Activities, OpenStages


------------------------------------------------------------------------------
(* The row holds the verdict before it is announced *)

\* A step of the run leaves an activity alone or queues it, and settles a verdict
\* only as it queues finalize_case.
LEMMA RunMoves ==
  ASSUME TypeOK, Workflow
  PROVE  /\ UNCHANGED <<dbVars, call, desk, signals, late, posted, runs>>
         /\ wf.at \in Steps /\ (cleared => cleared')
         /\ \A b \in Activities : act'[b] = act[b] \/ act'[b] = Queued
         /\ act'["finalize"] = Queued \/ wf'.decision = wf.decision
  <1>0. /\ wf \in Run /\ act \in [Activities -> ActivityRecord] /\ cleared \in BOOLEAN
        /\ "finalize" \in Activities
    BY DEF TypeOK, Activities
  <1>1. CASE \/ DocumentsFetched \/ DocumentExtracted \/ EvidenceGathered \/ Parked
             \/ Finalized
    <2>1. /\ UNCHANGED <<dbVars, call, desk, signals, late, posted, runs, cleared>>
          /\ wf.at \in Steps
          /\ \E step \in Steps, scheduled \in SUBSET Activities : Goto(step, scheduled)
      BY <1>1 DEF DocumentsFetched, DocumentExtracted, EvidenceGathered, Parked, Finalized,
         Steps, Activities
    <2>2. PICK step \in Steps, scheduled \in SUBSET Activities : Goto(step, scheduled)
      BY <2>1
    <2>3. wf'.decision = wf.decision
      BY <1>0, <2>2 DEF Goto, Run
    <2>4. \A b \in Activities : act'[b] = act[b] \/ act'[b] = Queued
      BY <2>2 DEF Goto
    <2>5. QED
      BY <2>1, <2>3, <2>4
  <1>2. CASE RiskScored
    <2>1. /\ UNCHANGED <<dbVars, call, desk, signals, late, posted, runs>>
          /\ wf.at \in Steps /\ (cleared => cleared')
      BY <1>2 DEF RiskScored, Steps
    <2>2. CASE Goto("park", {"park"})
      <3>1. wf'.decision = wf.decision
        BY <1>0, <2>2 DEF Goto, Run
      <3>2. QED
        BY <2>1, <2>2, <3>1 DEF Goto
    <2>3. CASE act' = [act EXCEPT !["finalize"] = Queued]
      BY <1>0, <2>1, <2>3
    <2>4. QED
      BY <1>2, <2>2, <2>3 DEF RiskScored
  <1>3. CASE TakeDecision
    <2>1. /\ UNCHANGED <<dbVars, call, desk, signals, late, posted, runs, cleared>>
          /\ wf.at \in Steps
      BY <1>3 DEF TakeDecision, Steps
    <2>2. UNCHANGED <<wf, act>> \/ act' = [act EXCEPT !["finalize"] = Queued]
      BY <1>3 DEF TakeDecision
    <2>3. QED
      BY <1>0, <2>1, <2>2
  <1>4. CASE Completed \/ WorkflowFails
    <2>1. /\ UNCHANGED <<dbVars, call, desk, act, signals, late, posted, runs, cleared>>
          /\ wf.at \in Steps
      BY <1>4 DEF Completed, WorkflowFails, Steps
    <2>2. wf'.decision = wf.decision
      BY <1>0, <1>4 DEF Completed, WorkflowFails, Run
    <2>3. QED
      BY <2>1, <2>2
  <1>5. QED
    BY <1>1, <1>2, <1>3, <1>4 DEF Workflow

\* A new run claims nothing about the row.
LEMMA LaunchStored ==
  ASSUME Stored, NEW inherited, LaunchRun(inherited), UNCHANGED late
  PROVE  Stored'
  <1>1. act'["finalize"].st = "idle"
    BY DEF LaunchRun, Idle, Activities
  <1>2. QED
    BY <1>1 DEF Stored

\* A commit of finalize_case stores the verdict of its run.
LEMMA WorkerStored ==
  ASSUME TypeOK, Placed, Stored, ~LateWrites, NEW a \in Activities,
         Worker(a) \/ AttemptFails(a) \/ AttemptAbandoned(a) \/ ScheduleToClose(a)
  PROVE  Stored'
  <1>0. /\ act \in [Activities -> ActivityRecord] /\ case \in CaseRow
        /\ {"park", "finalize"} \subseteq Activities
    BY DEF TypeOK, Activities
  <1>1. /\ UNCHANGED wf /\ act[a].st \in OpenStages
        /\ \A b \in Activities : b # a => act'[b] = act[b]
        /\ act'[a].st \in {"committed", "done"} => Commit(a) \/ Report(a)
        /\ Report(a) => act[a].st = "committed"
    BY AttemptMoves
  <1>2. late' = {}
    BY DEF Stored, Worker, Begin, Commit, Report, AttemptFails, AttemptAbandoned,
       ScheduleToClose
  <1>3. CASE ~Commit(a)
    <2>1. UNCHANGED case
      BY <1>3 DEF Worker, Begin, Report, AttemptFails, AttemptAbandoned, ScheduleToClose,
         dbVars
    <2>2. act'["finalize"].st \in {"committed", "done"} =>
            act["finalize"].st \in {"committed", "done"}
      BY <1>0, <1>1, <1>3
    <2>3. QED
      BY <1>1, <1>2, <2>1, <2>2 DEF Stored
  <1>4. CASE Commit(a) /\ a = "finalize"
    <2>1. case' = [case EXCEPT !.status = wf.decision, !.decision = wf.decision]
      BY <1>4 DEF Commit, RowAfter
    <2>2. case'.status = wf.decision /\ case'.decision = wf.decision
      BY <1>0, <2>1 DEF CaseRow
    <2>3. QED
      BY <1>1, <1>2, <2>2 DEF Stored
  <1>5. CASE Commit(a) /\ a = "park"
    <2>1. act'["finalize"].st = "idle"
      BY <1>0, <1>1, <1>5 DEF Placed, AfterVerdict
    <2>2. QED
      BY <1>2, <2>1 DEF Stored
  <1>6. CASE Commit(a) /\ a \notin {"park", "finalize"}
    <2>1. UNCHANGED case
      BY <1>6 DEF Commit, RowAfter
    <2>2. act'["finalize"] = act["finalize"]
      BY <1>0, <1>1, <1>6
    <2>3. QED
      BY <1>1, <1>2, <2>1, <2>2 DEF Stored
  <1>7. QED
    BY <1>3, <1>4, <1>5, <1>6

\* Every step keeps the row at the decision the run has finalized.
LEMMA StoredStep ==
  TypeOK /\ Evidence /\ Placed /\ Stored /\ ~LateWrites /\ [Next]_vars => Stored'
  <1> SUFFICES ASSUME TypeOK, Evidence, Placed, Stored, ~LateWrites, [Next]_vars
               PROVE  Stored'
    OBVIOUS
  <1>1. CASE UNCHANGED <<case, wf, act, late>>
    BY <1>1 DEF Stored
  <1>2. ASSUME NEW c \in Calls, InsertCase(c)
        PROVE  Stored'
    <2>1. CASE case.status = "absent"
      <3>1. wf.at = "none"
        BY <2>1 DEF Evidence, RowExists
      <3>2. act["finalize"].st = "idle"
        BY <3>1 DEF Placed, AfterVerdict
      <3>3. QED
        BY <1>2, <3>2 DEF InsertCase, Stored, runVars
    <2>2. CASE UNCHANGED case
      BY <1>1, <1>2, <2>2 DEF InsertCase, runVars
    <2>3. QED
      BY <1>2, <2>1, <2>2 DEF InsertCase
  <1>3. ASSUME NEW c \in Calls, StartWorkflow(c) \/ RecordCreated(c) \/ CallFails(c)
        PROVE  Stored'
    <2>1. UNCHANGED <<case, wf, act, late>> \/ (LaunchRun(<<>>) /\ UNCHANGED late)
      BY <1>3 DEF StartWorkflow, RecordCreated, CallFails, runVars, dbVars
    <2>2. QED
      BY <1>1, <2>1, LaunchStored
  <1>4. ASSUME NEW r \in Reviewers, NEW d \in Decisions,
               \/ CheckStatus(r, d) \/ RecordDecision(r) \/ AuditDecision(r)
               \/ SignalWorkflow(r) \/ DecisionFails(r)
        PROVE  UNCHANGED <<case, wf, act, late>>
    BY <1>4 DEF CheckStatus, RecordDecision, AuditDecision, SignalWorkflow, DecisionFails,
       runVars, dbVars
  <1>5. ASSUME NEW w \in late
        PROVE  FALSE
    BY <1>5 DEF Stored
  <1>6. CASE Workflow
    <2>1. Queued.st = "queued" /\ "finalize" \in Activities
      BY DEF Queued, Idle, Activities
    <2>2. /\ UNCHANGED <<case, late>>
          /\ act'["finalize"] = Queued \/ (/\ act'["finalize"] = act["finalize"]
                                           /\ wf'.decision = wf.decision)
      BY <1>6, <2>1, RunMoves DEF dbVars
    <2>3. QED
      BY <2>1, <2>2 DEF Stored
  <1>7. CASE Redrive
    <2>1. LaunchRun(signals) /\ UNCHANGED late
      BY <1>7 DEF Redrive
    <2>2. QED
      BY <2>1, LaunchStored
  <1>8. CASE UNCHANGED vars
    BY <1>1, <1>8 DEF vars
  <1>9. QED
    BY <1>1, <1>2, <1>3, <1>4, <1>5, <1>6, <1>7, <1>8, WorkerStored DEF Next, Decisions

\* Nothing is finalized before the first request.
LEMMA InitStored == Init => Stored
  BY DEF Init, Stored, Idle, Activities

\* The evidence is in step with the workflow in every reachable state.
LEMMA EvidenceHolds == Spec => []Evidence
  BY InitEvidence, EvidenceStep, TypeCorrect, VerdictsHaveProvenance, PTL DEF Spec

\* So are the writing activities.
LEMMA PlacedHolds == Spec => []Placed
  BY InitPlaced, PlacedStep, TypeCorrect, PTL DEF Spec

\* And the row, if no work outlives its attempt.
LEMMA StoredHolds ==
  ASSUME ~LateWrites
  PROVE  Spec => []Stored
  <1>1. TypeOK /\ Evidence /\ Placed /\ Stored /\ [Next]_vars => Stored'
    BY StoredStep
  <1>2. QED
    BY <1>1, InitStored, TypeCorrect, EvidenceHolds, PlacedHolds, PTL DEF Spec

\* If no work transaction outlives its attempt, then from the moment the workflow
\* has moved past finalize_case the row holds the very decision the run delivers
\* and returns, through every retry, replay and reset (kyc_case.py:276-308;
\* activities.py:452-468).
THEOREM ReportedDecisionsAreStored ==
  ASSUME ~LateWrites
  PROVE  Spec => []ReportedDecisionIsStored
  <1>1. Placed /\ Stored => ReportedDecisionIsStored
    BY DEF Placed, Stored, ReportedDecisionIsStored
  <1>2. QED
    BY <1>1, PlacedHolds, StoredHolds, PTL


------------------------------------------------------------------------------
(* The only run of a case *)

\* Only the run's own position tells it has begun.
LEMMA OnlyLaunch ==
  ASSUME TypeOK, Placed, Announced, MaxRuns = 1, NEW inherited, LaunchRun(inherited)
  PROVE  /\ wf.at = "none" /\ posted = {} /\ runs' = 1
         /\ wf' = [at |-> "fetch", auto |-> FALSE, decision |-> "none"]
  <1>1. runs \in 0..MaxRuns /\ runs < MaxRuns
    BY DEF TypeOK, LaunchRun
  <1>2. runs = 0 /\ wf.at = "none"
    BY <1>1 DEF Announced
  <1>3. act["finalize"].st = "idle"
    BY <1>2 DEF Placed, AfterVerdict
  <1>4. QED
    BY <1>2, <1>3 DEF Announced, LaunchRun

\* Webhooks are posted only by the delivery the workflow has got to.
LEMMA WorkerAnnounced ==
  ASSUME TypeOK, Placed, Announced, NEW a \in Activities,
         Worker(a) \/ AttemptFails(a) \/ AttemptAbandoned(a) \/ ScheduleToClose(a)
  PROVE  Announced'
  <1>0. {"deliver", "finalize"} \subseteq Activities
    BY DEF Activities
  <1>1. /\ UNCHANGED <<wf, runs>> /\ act[a].st \in OpenStages
        /\ \A b \in Activities : b # a => act'[b] = act[b]
    BY AttemptMoves
  <1>2. CASE Commit(a) /\ a = "deliver"
    <2>1. posted' = posted \union {wf.decision}
      BY <1>2 DEF Commit
    <2>2. act'["finalize"].st = "done"
      BY <1>0, <1>1, <1>2 DEF Placed, OpenStages
    <2>3. QED
      BY <1>1, <2>1, <2>2 DEF Announced
  <1>3. CASE ~(Commit(a) /\ a = "deliver")
    <2>1. UNCHANGED posted
      BY <1>3 DEF Worker, Begin, Commit, Report, AttemptFails, AttemptAbandoned,
         ScheduleToClose
    <2>2. act["finalize"].st = "done" => act'["finalize"] = act["finalize"]
      BY <1>0, <1>1 DEF OpenStages
    <2>3. QED
      BY <1>1, <2>1, <2>2 DEF Announced
  <1>4. QED
    BY <1>2, <1>3

\* What has been announced was finalized, and a finalized run only closes.
LEMMA WorkflowAnnounced ==
  ASSUME TypeOK, Placed, Announced, Workflow
  PROVE  Announced'
  <1>0. "finalize" \in Activities /\ act \in [Activities -> ActivityRecord]
    BY DEF TypeOK, Activities
  <1>1. UNCHANGED <<posted, runs>> /\ wf.at \in Steps
    BY RunMoves
  <1>2. runs # 0
    BY <1>1 DEF Announced, Steps
  <1>3. ASSUME act["finalize"].st = "done"
        PROVE  act'["finalize"] = act["finalize"] /\ wf'.decision = wf.decision
    <2>1. wf.at \in AfterVerdict
      BY <1>3 DEF Placed
    <2>2. Finalized \/ Completed \/ WorkflowFails
      BY <2>1 DEF Workflow, DocumentsFetched, DocumentExtracted, EvidenceGathered,
         RiskScored, Parked, TakeDecision, AfterVerdict
    <2>3. act'["finalize"] = act["finalize"]
      BY <1>0, <2>2 DEF Finalized, Completed, WorkflowFails, Goto
    <2>4. wf'.decision = wf.decision
      BY <1>3, <2>3, RunMoves DEF Queued, Idle
    <2>5. QED
      BY <2>3, <2>4
  <1>4. QED
    BY <1>1, <1>2, <1>3 DEF Announced

\* Every step keeps what was announced at what this run has finalized.
LEMMA AnnouncedStep ==
  TypeOK /\ Placed /\ Announced /\ late = {} /\ MaxRuns = 1 /\ [Next]_vars => Announced'
  <1> SUFFICES ASSUME TypeOK, Placed, Announced, late = {}, MaxRuns = 1, [Next]_vars
               PROVE  Announced'
    OBVIOUS
  <1>1. CASE UNCHANGED <<wf, act, posted, runs>>
    BY <1>1 DEF Announced
  <1>2. ASSUME NEW inherited, LaunchRun(inherited), UNCHANGED posted
        PROVE  Announced'
    BY <1>2, OnlyLaunch DEF Announced
  <1>3. ASSUME NEW c \in Calls,
               InsertCase(c) \/ StartWorkflow(c) \/ RecordCreated(c) \/ CallFails(c)
        PROVE  \/ UNCHANGED <<wf, act, posted, runs>>
               \/ LaunchRun(<<>>) /\ UNCHANGED posted
    BY <1>3 DEF InsertCase, StartWorkflow, RecordCreated, CallFails, runVars
  <1>4. ASSUME NEW r \in Reviewers, NEW d \in Decisions,
               \/ CheckStatus(r, d) \/ RecordDecision(r) \/ AuditDecision(r)
               \/ SignalWorkflow(r) \/ DecisionFails(r)
        PROVE  UNCHANGED <<wf, act, posted, runs>>
    BY <1>4 DEF CheckStatus, RecordDecision, AuditDecision, SignalWorkflow, DecisionFails,
       runVars
  <1>5. ~ \E w \in late : LateCommit(w)
    OBVIOUS
  <1>6. CASE Redrive
    BY <1>2, <1>6 DEF Redrive
  <1>7. CASE UNCHANGED vars
    BY <1>1, <1>7 DEF vars
  <1>8. QED
    BY <1>1, <1>2, <1>3, <1>4, <1>5, <1>6, <1>7, WorkerAnnounced, WorkflowAnnounced
       DEF Next, Decisions

\* In the only run of a case nothing else is ever announced.
LEMMA AnnouncedHolds ==
  ASSUME MaxRuns = 1, ~LateWrites
  PROVE  Spec => []Announced
  <1>1. Init => Announced
    BY DEF Init, Announced
  <1>2. TypeOK /\ Placed /\ Announced /\ Stored /\ [Next]_vars => Announced'
    BY AnnouncedStep DEF Stored
  <1>3. QED
    BY <1>1, <1>2, TypeCorrect, PlacedHolds, StoredHolds, PTL DEF Spec

\* In the only run of a case whose work transactions all end with their attempts,
\* no webhook ever announces a decision the row does not hold
\* (kyc_case.py:276-298; activities.py:452-468).
THEOREM WebhooksAreTruthful ==
  ASSUME MaxRuns = 1, ~LateWrites
  PROVE  Spec => []WebhooksTellTheDecision
  <1>1. Announced /\ Stored => WebhooksTellTheDecision
    BY DEF Announced, Stored, WebhooksTellTheDecision
  <1>2. QED
    BY <1>1, AnnouncedHolds, StoredHolds, PTL


------------------------------------------------------------------------------
(* The row keeps step with the only run *)

\* The row and its decisions and announcements change in six ways.
LEMMA RowTouched ==
  ASSUME [Next]_vars, late = {}
  PROVE  \/ UNCHANGED <<case, recorded, posted>>
         \/ \E c \in Calls : InsertCase(c) /\ case.status = "absent"
         \/ Commit("park") \/ Commit("finalize") \/ Commit("deliver")
         \/ \E r \in Reviewers : RecordDecision(r)
  <1>1. ASSUME NEW c \in Calls, StartWorkflow(c) \/ RecordCreated(c) \/ CallFails(c)
        PROVE  UNCHANGED <<case, recorded, posted>>
    BY <1>1 DEF StartWorkflow, RecordCreated, CallFails, dbVars
  <1>2. ASSUME NEW c \in Calls, InsertCase(c), case.status # "absent"
        PROVE  UNCHANGED <<case, recorded, posted>>
    BY <1>2 DEF InsertCase
  <1>3. ASSUME NEW r \in Reviewers, NEW d \in Decisions,
               \/ CheckStatus(r, d) \/ AuditDecision(r) \/ SignalWorkflow(r)
               \/ DecisionFails(r)
        PROVE  UNCHANGED <<case, recorded, posted>>
    BY <1>3 DEF CheckStatus, AuditDecision, SignalWorkflow, DecisionFails, dbVars
  <1>4. ASSUME NEW a \in Activities,
               \/ Begin(a) \/ Report(a) \/ AttemptFails(a) \/ AttemptAbandoned(a)
               \/ ScheduleToClose(a) \/ (Commit(a) /\ a \notin {"park", "finalize", "deliver"})
        PROVE  UNCHANGED <<case, recorded, posted>>
    BY <1>4 DEF Begin, Report, Commit, AttemptFails, AttemptAbandoned, ScheduleToClose,
       RowAfter, dbVars
  <1>5. CASE Workflow \/ Redrive \/ UNCHANGED vars
    BY <1>5 DEF Workflow, DocumentsFetched, DocumentExtracted, EvidenceGathered, RiskScored,
       Parked, TakeDecision, Finalized, Completed, WorkflowFails, Redrive, dbVars, vars
  <1>6. QED
    BY <1>1, <1>2, <1>3, <1>4, <1>5 DEF Next, Worker, Decisions

\* The review handler decides only on a case that waits for review.
LEMMA DeskFollows ==
  ASSUME TypeOK, RowFollows, NEW r \in Reviewers, NEW d \in Decisions,
         \/ CheckStatus(r, d) \/ RecordDecision(r) \/ AuditDecision(r)
         \/ SignalWorkflow(r) \/ DecisionFails(r)
  PROVE  RowFollows'
  <1>1. UNCHANGED <<case, wf, act>> /\ desk \in [Reviewers -> DeskRecord]
    BY DEF CheckStatus, RecordDecision, AuditDecision, SignalWorkflow, DecisionFails, runVars,
       dbVars, TypeOK
  <1>2. /\ \A q \in Reviewers : q # r => desk'[q] = desk[q]
        /\ desk'[r].at = "checked" => case.status = "needs_review"
    <2>1. CASE CheckStatus(r, d)
      BY <1>1, <2>1 DEF CheckStatus, AwaitingReview
    <2>2. CASE RecordDecision(r) \/ AuditDecision(r) \/ SignalWorkflow(r) \/ DecisionFails(r)
      <3>1. \E at \in {"recorded", "audited", "accepted", "refused", "errored"} :
              desk' = [desk EXCEPT ![r].at = at]
        BY <2>2 DEF RecordDecision, AuditDecision, SignalWorkflow, DecisionFails
      <3>2. QED
        BY <1>1, <3>1 DEF DeskRecord
    <2>3. QED
      BY <2>1, <2>2
  <1>3. QED
    BY <1>1, <1>2 DEF RowFollows

\* A POST /cases brings the row into being and touches it no more.
LEMMA CallFollows ==
  ASSUME TypeOK, Evidence, Placed, Announced, RowFollows, MaxRuns = 1, NEW c \in Calls,
         InsertCase(c) \/ StartWorkflow(c) \/ RecordCreated(c) \/ CallFails(c)
  PROVE  RowFollows'
  <1>1. CASE UNCHANGED <<case, wf, act, desk>>
    BY <1>1 DEF RowFollows
  <1>2. CASE InsertCase(c) /\ case.status = "absent"
    <2>1. wf.at = "none" /\ UNCHANGED <<wf, act, desk>>
      BY <1>2 DEF Evidence, RowExists, InsertCase, runVars
    <2>2. case'.status = "pending" /\ case'.decision = "none"
      BY <1>2 DEF InsertCase
    <2>3. \A r \in Reviewers : desk[r].at # "checked"
      BY <1>2 DEF RowFollows
    <2>4. QED
      BY <2>1, <2>2, <2>3 DEF RowFollows, Verdicts
  <1>3. CASE LaunchRun(<<>>) /\ UNCHANGED <<case, desk>>
    <2>1. wf.at = "none" /\ wf'.at = "fetch"
      BY <1>3, OnlyLaunch
    <2>2. QED
      BY <1>3, <2>1 DEF RowFollows
  <1>4. QED
    BY <1>1, <1>2, <1>3 DEF InsertCase, StartWorkflow, RecordCreated, CallFails, runVars,
       dbVars

\* An attempt changes the row as the workflow's position allows.
LEMMA WorkerFollows ==
  ASSUME TypeOK, Provenance, Placed, RowFollows, NEW a \in Activities,
         Worker(a) \/ AttemptFails(a) \/ AttemptAbandoned(a) \/ ScheduleToClose(a)
  PROVE  RowFollows'
  <1>0. case \in CaseRow /\ "park" \in Activities
    BY DEF TypeOK, Activities
  <1>1. /\ UNCHANGED <<wf, desk>> /\ act[a].st \in OpenStages
        /\ \A b \in Activities : b # a => act'[b] = act[b]
        /\ act'[a].st \in {"committed", "done"} => Commit(a) \/ Report(a)
        /\ Report(a) => act[a].st = "committed"
    BY AttemptMoves
  <1>2. CASE Commit(a) /\ a = "park"
    <2>1. wf.at = "park"
      BY <1>1, <1>2 DEF Placed
    <2>2. case'.status = "needs_review" /\ case'.decision = case.decision
      BY <1>0, <1>2 DEF Commit, RowAfter, CaseRow
    <2>3. QED
      BY <1>1, <2>1, <2>2 DEF RowFollows, Verdicts
  <1>3. CASE Commit(a) /\ a = "finalize"
    <2>1. wf.at = "finalize" /\ wf.decision \in Verdicts
      BY <1>1, <1>3 DEF Placed, OpenStages, Provenance, RunJustified, Justified
    <2>2. case'.status = wf.decision /\ case'.decision = wf.decision
      BY <1>0, <1>3 DEF Commit, RowAfter, CaseRow
    <2>3. QED
      BY <1>1, <2>1, <2>2 DEF RowFollows, Verdicts
  <1>4. CASE ~(Commit(a) /\ a \in {"park", "finalize"})
    <2>1. UNCHANGED case
      BY <1>4 DEF Worker, Begin, Report, Commit, AttemptFails, AttemptAbandoned,
         ScheduleToClose, RowAfter, dbVars
    <2>2. act'["park"].st \in {"committed", "done"} => act["park"].st \in {"committed", "done"}
      BY <1>0, <1>1, <1>4
    <2>3. QED
      BY <1>1, <2>1, <2>2 DEF RowFollows
  <1>5. QED
    BY <1>2, <1>3, <1>4

\* The workflow moves on when the row is where it should be.
LEMMA WorkflowFollows ==
  ASSUME TypeOK, Evidence, RowFollows, Workflow
  PROVE  RowFollows'
  <1>0. /\ wf \in Run /\ act \in [Activities -> ActivityRecord]
        /\ "park" \in Activities /\ Queued.st = "queued"
    BY DEF TypeOK, Activities, Queued, Idle
  <1>1. UNCHANGED <<case, desk>> /\ wf.at \in Steps
    BY RunMoves DEF dbVars
  <1>2. case.status # "absent" /\ (wf.auto => wf.at \in AfterVerdict)
    BY <1>1 DEF Evidence, RowExists, Reached, Steps, AfterVerdict
  <1>3. CASE DocumentsFetched \/ DocumentExtracted \/ EvidenceGathered \/ RiskScored
    <2>1. wf.at \in {"fetch", "extract", "evidence", "risk"}
      BY <1>3 DEF DocumentsFetched, DocumentExtracted, EvidenceGathered, RiskScored
    <2>2. case.status = "pending"
      BY <1>2, <2>1 DEF RowFollows
    <2>3. CASE Goto("park", {"park"})
      <3>1. wf'.at = "park" /\ act'["park"].st = "queued"
        BY <1>0, <2>3 DEF Goto, Run
      <3>2. QED
        BY <1>1, <2>2, <3>1 DEF RowFollows
    <2>4. CASE \/ Goto("extract", {"extract"}) \/ Goto("evidence", {"face", "screen"})
               \/ Goto("risk", {"risk"})
      <3>1. wf'.at \in {"extract", "evidence", "risk"}
        BY <1>0, <2>4 DEF Goto, Run
      <3>2. QED
        BY <1>1, <2>2, <3>1 DEF RowFollows
    <2>5. CASE wf' = [at |-> "finalize", auto |-> TRUE, decision |-> "approved"]
      BY <1>1, <2>2, <2>5 DEF RowFollows
    <2>6. QED
      BY <1>3, <2>3, <2>4, <2>5 DEF DocumentsFetched, DocumentExtracted, EvidenceGathered,
         RiskScored
  <1>4. CASE Parked
    <2>1. /\ wf.at = "park" /\ act["park"].st = "done" /\ wf'.at = "await"
      BY <1>0, <1>4 DEF Parked, Goto, Run, Succeeded
    <2>2. QED
      BY <1>1, <2>1 DEF RowFollows
  <1>5. CASE TakeDecision
    <2>1. wf.at = "await" /\ ~wf.auto /\ case.status = "needs_review"
      BY <1>2, <1>5 DEF TakeDecision, AfterVerdict, RowFollows
    <2>2. /\ wf'.auto = wf.auto /\ wf'.at \in {"await", "finalize"}
      BY <1>0, <1>5, <2>1 DEF TakeDecision, Run
    <2>3. QED
      BY <1>1, <2>1, <2>2 DEF RowFollows
  <1>6. CASE Finalized \/ Completed \/ WorkflowFails
    <2>1. wf'.at \in {"deliver", "completed", "failed"}
      BY <1>0, <1>6 DEF Finalized, Completed, WorkflowFails, Goto, Run
    <2>2. QED
      BY <1>1, <2>1 DEF RowFollows
  <1>7. QED
    BY <1>3, <1>4, <1>5, <1>6 DEF Workflow

\* Every step keeps the row in step with the only run.
LEMMA FollowsStep ==
  /\ TypeOK /\ Provenance /\ Evidence /\ Placed /\ Stored /\ Announced /\ RowFollows
  /\ MaxRuns = 1 /\ [Next]_vars
  => RowFollows'
  <1> SUFFICES ASSUME TypeOK, Provenance, Evidence, Placed, Stored, Announced, RowFollows,
                      MaxRuns = 1, [Next]_vars
               PROVE  RowFollows'
    OBVIOUS
  <1>1. ASSUME NEW w \in late
        PROVE  FALSE
    BY <1>1 DEF Stored
  <1>2. CASE Redrive
    <2>1. wf.at = "failed" /\ LaunchRun(signals)
      BY <1>2 DEF Redrive
    <2>2. QED
      BY <2>1, OnlyLaunch
  <1>3. CASE UNCHANGED vars
    BY <1>3 DEF vars, RowFollows
  <1>4. QED
    BY <1>1, <1>2, <1>3, DeskFollows, CallFollows, WorkerFollows, WorkflowFollows
       DEF Next, Decisions

\* There is no row and no run.
LEMMA InitFollows == Init => RowFollows
  BY DEF Init, RowFollows, Verdicts


------------------------------------------------------------------------------
(* One run implements CaseLifecycle *)

Opinions == {v.decision : v \in recorded}

LifecycleInv ==
  TypeOK /\ Provenance /\ Evidence /\ VerdictInv /\ Placed /\ Stored /\ Announced /\ RowFollows

\* A reviewer's verdict about to be written is among the opinions recorded.
LEMMA VerdictRecorded ==
  ASSUME TypeOK, Provenance, VerdictInv, wf.decision # "none", ~wf.auto
  PROVE  wf.decision \in Opinions
  <1>1. taken \in 1 .. Len(signals) /\ signals[taken] = wf.decision
    BY DEF TypeOK, VerdictInv, FirstVerdictWins
  <1>2. Authored(wf.decision)
    BY <1>1 DEF Provenance, SignalsAuthored
  <1>3. QED
    BY <1>2 DEF Authored, Opinions

\* finalize_case clears a pending case, decides a parked one, or writes again
\* what the row already holds.
LEMMA FinalizeRefines ==
  ASSUME LifecycleInv, Commit("finalize")
  PROVE  [Lifecycle!Next]_(Lifecycle!vars)
  <1>0. case \in CaseRow /\ act["finalize"].st = "begun" /\ UNCHANGED <<Opinions, posted>>
    BY DEF LifecycleInv, TypeOK, Commit, Opinions
  <1>1. wf.at = "finalize" /\ wf.decision \in Verdicts
    BY <1>0 DEF LifecycleInv, Placed, OpenStages, Provenance, RunJustified, Justified
  <1>2. case'.status = wf.decision /\ case'.decision = wf.decision
    BY <1>0 DEF Commit, RowAfter, CaseRow
  <1>3. CASE case.status = wf.decision
    <2>1. case.decision = wf.decision
      BY <1>1, <1>3 DEF LifecycleInv, RowFollows
    <2>2. QED
      BY <1>0, <1>2, <1>3, <2>1 DEF Lifecycle!vars, Opinions
  <1>4. CASE case.status # wf.decision /\ wf.auto
    <2>1. case.status = "pending" /\ wf.decision = "approved"
      BY <1>1, <1>4 DEF LifecycleInv, RowFollows, VerdictInv
    <2>2. Lifecycle!Clear
      BY <1>0, <1>2, <2>1 DEF Lifecycle!Clear, Opinions
    <2>3. QED
      BY <2>2 DEF Lifecycle!Next
  <1>5. CASE case.status # wf.decision /\ ~wf.auto
    <2>1. case.status = "needs_review"
      BY <1>1, <1>5 DEF LifecycleInv, RowFollows
    <2>2. wf.decision \in Opinions
      BY <1>1, <1>5, VerdictRecorded DEF LifecycleInv, Verdicts
    <2>3. Lifecycle!Decide(wf.decision)
      BY <1>0, <1>2, <2>1, <2>2 DEF Lifecycle!Decide, Opinions
    <2>4. wf.decision \in Lifecycle!Verdicts
      BY <1>1 DEF Verdicts, Lifecycle!Verdicts
    <2>5. QED
      BY <2>3, <2>4 DEF Lifecycle!Next
  <1>6. QED
    BY <1>3, <1>4, <1>5

\* The update to needs_review parks a pending case, or finds it parked.
LEMMA ParkRefines ==
  ASSUME LifecycleInv, Commit("park")
  PROVE  [Lifecycle!Next]_(Lifecycle!vars)
  <1>0. case \in CaseRow /\ act["park"].st = "begun" /\ UNCHANGED <<Opinions, posted>>
    BY DEF LifecycleInv, TypeOK, Commit, Opinions
  <1>1. case.status \in {"pending", "needs_review"}
    BY <1>0 DEF LifecycleInv, Placed, OpenStages, RowFollows
  <1>2. case'.status = "needs_review" /\ case'.decision = case.decision
    BY <1>0 DEF Commit, RowAfter, CaseRow
  <1>3. CASE case.status = "pending"
    <2>1. Lifecycle!SendToReview
      BY <1>0, <1>2, <1>3 DEF Lifecycle!SendToReview, Opinions
    <2>2. QED
      BY <2>1 DEF Lifecycle!Next
  <1>4. CASE case.status = "needs_review"
    BY <1>0, <1>2, <1>4 DEF Lifecycle!vars, Opinions
  <1>5. QED
    BY <1>1, <1>3, <1>4

\* A webhook is told what finalize_case has stored.
LEMMA DeliverRefines ==
  ASSUME LifecycleInv, Commit("deliver")
  PROVE  [Lifecycle!Next]_(Lifecycle!vars)
  <1>1. /\ act["deliver"].st = "begun" /\ Opinions' = Opinions
        /\ UNCHANGED case /\ posted' = posted \union {wf.decision}
    BY DEF Commit, RowAfter, Opinions
  <1>2. act["finalize"].st = "done"
    BY <1>1 DEF LifecycleInv, Placed
  <1>3. wf.decision \in Verdicts /\ case.decision = wf.decision
    BY <1>1, <1>2 DEF LifecycleInv, Stored, Provenance, RunJustified, Justified
  <1>4. Lifecycle!Announce
    BY <1>1, <1>3 DEF Lifecycle!Announce, Lifecycle!Verdicts, Verdicts, Opinions
  <1>5. QED
    BY <1>4 DEF Lifecycle!Next

\* A decision is recorded on a case that has left pending for good.
LEMMA RecordRefines ==
  ASSUME LifecycleInv, NEW r \in Reviewers, RecordDecision(r)
  PROVE  [Lifecycle!Next]_(Lifecycle!vars)
  <1>1. PICK d \in Decisions, row \in [by : Reviewers, decision : Decisions] :
          d = desk[r].decision /\ row = [by |-> r, decision |-> d]
    BY DEF LifecycleInv, TypeOK, DeskRecord
  <1>2. /\ case.status \notin {"absent", "pending"} /\ UNCHANGED <<case, posted>>
        /\ recorded' = recorded \union {row}
    BY <1>1 DEF LifecycleInv, RowFollows, RecordDecision
  <1>3. row.decision = d
    BY <1>1
  <1>4. Opinions' = Opinions \union {d}
    BY <1>2, <1>3 DEF Opinions
  <1>5. Lifecycle!Opine(d)
    BY <1>2, <1>4 DEF Lifecycle!Opine, Opinions
  <1>6. \E e \in Lifecycle!Verdicts \union {"escalated"} : Lifecycle!Opine(e)
    <2>1. d \in Lifecycle!Verdicts \union {"escalated"}
      BY <1>1 DEF Decisions, Verdicts, Lifecycle!Verdicts
    <2>2. QED
      BY <1>5, <2>1
  <1>7. QED
    BY <1>6 DEF Lifecycle!Next

\* Every step of the system is a step of CaseLifecycle or leaves its variables alone.
LEMMA StepRefines ==
  ASSUME LifecycleInv, [Next]_vars
  PROVE  [Lifecycle!Next]_(Lifecycle!vars)
  <1>1. ASSUME NEW c \in Calls, InsertCase(c), case.status = "absent"
        PROVE  [Lifecycle!Next]_(Lifecycle!vars)
    <2>1. /\ case.decision = "none" /\ case'.status = "pending" /\ case'.decision = "none"
          /\ UNCHANGED <<recorded, posted>>
      BY <1>1 DEF LifecycleInv, RowFollows, Verdicts, InsertCase
    <2>2. Lifecycle!Submit
      BY <1>1, <2>1 DEF Lifecycle!Submit
    <2>3. QED
      BY <2>2 DEF Lifecycle!Next
  <1>2. CASE UNCHANGED <<case, recorded, posted>>
    BY <1>2 DEF Lifecycle!vars
  <1>3. late = {}
    BY DEF LifecycleInv, Stored
  <1>4. QED
    BY <1>1, <1>2, <1>3, RowTouched, FinalizeRefines, ParkRefines,
       DeliverRefines, RecordRefines

\* Under the hypotheses of the previous theorem the workflow, its activities and the
\* API handlers implement CaseLifecycle: every step that touches the row or the
\* review decisions is a step of it, and every retry a stutter (main.py:502-528;
\* activities.py:361-375 and 452-468).
THEOREM OneRunImplementsLifecycle ==
  ASSUME MaxRuns = 1, ~LateWrites
  PROVE  Spec => ImplementsLifecycle
  <1>1. Init => Lifecycle!Init
    BY DEF Init, Lifecycle!Init
  <1>2. TypeOK /\ Provenance /\ Evidence /\ Placed /\ Stored /\ Announced /\ RowFollows
        /\ [Next]_vars => RowFollows'
    BY FollowsStep
  <1>3. LifecycleInv /\ [Next]_vars => [Lifecycle!Next]_(Lifecycle!vars)
    BY StepRefines
  <1>4. Spec => []VerdictInv
    BY InitVerdict, VerdictStep, TypeCorrect, PTL DEF Spec
  <1>5. Spec => []RowFollows
    BY <1>2, InitFollows, TypeCorrect, VerdictsHaveProvenance, EvidenceHolds, PlacedHolds,
       StoredHolds, AnnouncedHolds, PTL DEF Spec
  <1>6. Spec => []LifecycleInv
    BY <1>4, <1>5, TypeCorrect, VerdictsHaveProvenance, EvidenceHolds, PlacedHolds,
       StoredHolds, AnnouncedHolds, PTL DEF LifecycleInv
  <1>7. QED
    BY <1>1, <1>3, <1>6, PTL DEF Spec, ImplementsLifecycle, Lifecycle!Spec


------------------------------------------------------------------------------
(* However many runs, every step is one of CaseRegister                    *)

Audited == {d \in Decisions : <<"review_decision_recorded", d>> \in trail}

\* A row a transaction is about to change is there, a decision about to be recorded
\* is on a case that was sent to review, and a finalized case has a decision.
Ready ==
  /\ case.status = "absent" => case.decision = "none" /\ late = {}
  /\ \A r \in Reviewers : desk[r].at = "checked" => case.status \notin {"absent", "pending"}
  /\ act["finalize"].st \in {"committed", "done"} => case.decision # "none"
  /\ \A w \in late : w[1] = "deliver" => case.decision # "none"

RegisterInv == TypeOK /\ Provenance /\ Evidence /\ Placed /\ Ready

\* What justifies a verdict here supports it there.
LEMMA JustifiedIsSupported ==
  ASSUME NEW d, Justified(d)
  PROVE  d \in Register!Verdicts /\ Register!Supported(d)
  BY DEF Justified, Authored, Verdicts, Decisions, Register!Verdicts, Register!Supported

\* The row an activity or an abandoned transaction leaves.
LEMMA RowWritten ==
  ASSUME TypeOK, NEW a, NEW d, case' = RowAfter(a, d)
  PROVE  /\ case'.docs = case.docs
         /\ a = "park" => case'.status = "needs_review" /\ case'.decision = case.decision
         /\ a = "finalize" => case'.status = d /\ case'.decision = d
         /\ a \notin {"park", "finalize"} => UNCHANGED case
  <1>1. case \in CaseRow
    BY DEF TypeOK
  <1>2. QED
    BY <1>1 DEF RowAfter, CaseRow

\* An abandoned attempt has a row to write, and what it writes or announces is
\* a justified verdict.
LEMMA LateWriteReady ==
  ASSUME RegisterInv, NEW w \in late
  PROVE  /\ case.status # "absent"
         /\ w[1] \in {"park", "finalize", "deliver"}
         /\ w[1] # "park" => Justified(w[2])
         /\ w[1] = "deliver" => case.decision # "none"
  BY DEF RegisterInv, Ready, TypeOK, Write, Telling, Provenance, LateJustified

\* An attempt under way has a row to write, and a verdict it writes or announces
\* is justified.
LEMMA AttemptReady ==
  ASSUME RegisterInv, NEW a \in {"park", "finalize", "deliver"}, act[a].st \in OpenStages
  PROVE  /\ case.status # "absent"
         /\ a # "park" => Justified(wf.decision)
         /\ a = "deliver" => case.decision # "none"
  <1>1. wf.at = a
    BY DEF RegisterInv, Placed
  <1>2. case.status # "absent"
    BY <1>1 DEF RegisterInv, Evidence, RowExists
  <1>3. a # "park" => Justified(wf.decision)
    BY DEF RegisterInv, Provenance, RunJustified, OpenStages
  <1>4. a = "deliver" => case.decision # "none"
    BY DEF RegisterInv, Placed, Ready, OpenStages
  <1>5. QED
    BY <1>2, <1>3, <1>4

\* Who is about to record a decision has seen the case in review.
LEMMA DeskReady ==
  ASSUME RegisterInv, NEW r \in Reviewers, NEW d \in Decisions,
         \/ CheckStatus(r, d) \/ RecordDecision(r) \/ AuditDecision(r)
         \/ SignalWorkflow(r) \/ DecisionFails(r)
  PROVE  Ready'
  <1>1. UNCHANGED <<case, act, late>> /\ desk \in [Reviewers -> DeskRecord]
    BY DEF CheckStatus, RecordDecision, AuditDecision, SignalWorkflow, DecisionFails, runVars,
       dbVars, RegisterInv, TypeOK
  <1>2. /\ \A q \in Reviewers : q # r => desk'[q] = desk[q]
        /\ desk'[r].at = "checked" => case.status = "needs_review"
    <2>1. CASE CheckStatus(r, d)
      BY <1>1, <2>1 DEF CheckStatus, AwaitingReview
    <2>2. CASE RecordDecision(r) \/ AuditDecision(r) \/ SignalWorkflow(r) \/ DecisionFails(r)
      <3>1. \E at \in {"recorded", "audited", "accepted", "refused", "errored"} :
              desk' = [desk EXCEPT ![r].at = at]
        BY <2>2 DEF RecordDecision, AuditDecision, SignalWorkflow, DecisionFails
      <3>2. QED
        BY <1>1, <3>1 DEF DeskRecord
    <2>3. QED
      BY <2>1, <2>2
  <1>3. QED
    BY <1>1, <1>2 DEF RegisterInv, Ready

\* A run that starts has finalized nothing.
LEMMA LaunchReady ==
  ASSUME Ready, NEW inherited, LaunchRun(inherited), UNCHANGED <<case, desk, late>>
  PROVE  Ready'
  <1>1. act'["finalize"].st = "idle"
    BY DEF LaunchRun, Idle, Activities
  <1>2. QED
    BY <1>1 DEF Ready


\* finalize_case leaves a decision behind, and no other attempt takes it away.
LEMMA WorkerReady ==
  ASSUME RegisterInv, NEW a \in Activities,
         Worker(a) \/ AttemptFails(a) \/ AttemptAbandoned(a) \/ ScheduleToClose(a)
  PROVE  Ready'
  <1>0. TypeOK /\ "finalize" \in Activities
    BY DEF RegisterInv, Activities
  <1>1. /\ UNCHANGED desk /\ act[a].st \in OpenStages
        /\ \A b \in Activities : b # a => act'[b] = act[b]
        /\ act'[a].st \in {"committed", "done"} => Commit(a) \/ Report(a)
        /\ Report(a) => act[a].st = "committed"
    BY <1>0, AttemptMoves
  <1>2. CASE Commit(a)
    <2>1. case' = RowAfter(a, wf.decision) /\ UNCHANGED late
      BY <1>2 DEF Commit
    <2>2. CASE a = "finalize"
      <3>1. case'.status = wf.decision /\ case'.decision = wf.decision
        BY <1>0, <2>1, <2>2, RowWritten
      <3>2. wf.decision \in Verdicts
        BY <1>1, <2>2, AttemptReady DEF Justified
      <3>3. QED
        BY <1>1, <3>1, <3>2 DEF Ready, Verdicts
    <2>3. CASE a = "park"
      <3>1. /\ case'.status = "needs_review" /\ case'.decision = case.decision
            /\ act'["finalize"] = act["finalize"]
        BY <1>0, <1>1, <2>1, <2>3, RowWritten
      <3>2. QED
        BY <1>1, <2>1, <3>1 DEF RegisterInv, Ready
    <2>4. CASE a \notin {"park", "finalize"}
      <3>1. UNCHANGED case /\ act'["finalize"] = act["finalize"]
        BY <1>0, <1>1, <2>1, <2>4, RowWritten
      <3>2. QED
        BY <1>1, <2>1, <3>1 DEF RegisterInv, Ready
    <2>5. QED
      BY <2>2, <2>3, <2>4
  <1>3. CASE ~Commit(a)
    <2>1. UNCHANGED case
      BY <1>3 DEF Worker, Begin, Report, AttemptFails, AttemptAbandoned, ScheduleToClose,
         dbVars
    <2>2. act'["finalize"].st \in {"committed", "done"} =>
            act["finalize"].st \in {"committed", "done"}
      BY <1>0, <1>1, <1>3
    <2>3. UNCHANGED late \/ AttemptAbandoned(a)
      BY <1>3 DEF Worker, Begin, Report, AttemptFails, ScheduleToClose
    <2>4. ASSUME AttemptAbandoned(a)
          PROVE  /\ case.status # "absent"
                 /\ \A w \in late' : w[1] = "deliver" => case.decision # "none"
      <3>1. /\ a \in {"park", "finalize", "deliver"}
            /\ late' = late \union {<<a, wf.decision, runs, act[a].tries>>}
        BY <2>4 DEF AttemptAbandoned, Telling
      <3>2. case.status # "absent" /\ (a = "deliver" => case.decision # "none")
        BY <1>1, <3>1, AttemptReady
      <3>3. QED
        BY <3>1, <3>2 DEF RegisterInv, Ready
    <2>5. QED
      BY <1>1, <2>1, <2>2, <2>3, <2>4 DEF RegisterInv, Ready
  <1>4. QED
    BY <1>2, <1>3

\* Every step leaves rows in place for what is about to be written.
LEMMA ReadyStep == RegisterInv /\ [Next]_vars => Ready'
  <1> SUFFICES ASSUME RegisterInv, [Next]_vars
               PROVE  Ready'
    OBVIOUS
  <1>0. TypeOK /\ Ready
    BY DEF RegisterInv
  <1>1. CASE UNCHANGED <<case, desk, act, late>>
    BY <1>0, <1>1 DEF Ready
  <1>2. ASSUME NEW c \in Calls, InsertCase(c), case.status = "absent"
        PROVE  Ready'
    <2>1. act["finalize"].st = "idle"
      BY <1>2 DEF RegisterInv, Evidence, RowExists, Placed, AfterVerdict
    <2>2. case'.status = "pending" /\ UNCHANGED <<desk, act, late>>
      BY <1>2 DEF InsertCase, runVars
    <2>3. late = {} /\ \A r \in Reviewers : desk[r].at # "checked"
      BY <1>0, <1>2 DEF Ready
    <2>4. QED
      BY <2>1, <2>2, <2>3 DEF Ready
  <1>3. ASSUME NEW c \in Calls,
               \/ InsertCase(c) /\ case.status # "absent"
               \/ StartWorkflow(c) \/ RecordCreated(c) \/ CallFails(c)
        PROVE  Ready'
    <2>1. \/ UNCHANGED <<case, desk, act, late>>
          \/ LaunchRun(<<>>) /\ UNCHANGED <<case, desk, late>>
      BY <1>3 DEF InsertCase, StartWorkflow, RecordCreated, CallFails, runVars, dbVars
    <2>2. QED
      BY <1>0, <1>1, <2>1, LaunchReady
  <1>4. ASSUME NEW w \in late, LateCommit(w)
        PROVE  Ready'
    <2>1. /\ case' = RowAfter(w[1], w[2]) /\ UNCHANGED <<desk, act>> /\ late' \subseteq late
          /\ case.status # "absent" /\ w[1] \in {"park", "finalize", "deliver"}
      BY <1>4, LateWriteReady DEF LateCommit, runVars
    <2>2. CASE w[1] = "finalize"
      <3>1. /\ case'.status = w[2] /\ case'.decision = w[2] /\ w[2] \in Verdicts
        BY <1>0, <2>1, <2>2, RowWritten, LateWriteReady DEF Justified
      <3>2. QED
        BY <2>1, <3>1 DEF Ready, Verdicts
    <2>3. CASE w[1] = "park"
      <3>1. case'.status = "needs_review" /\ case'.decision = case.decision
        BY <1>0, <2>1, <2>3, RowWritten
      <3>2. QED
        BY <1>0, <2>1, <3>1 DEF Ready
    <2>4. CASE w[1] = "deliver"
      <3>1. UNCHANGED case
        BY <1>0, <2>1, <2>4, RowWritten
      <3>2. QED
        BY <1>0, <2>1, <3>1 DEF Ready
    <2>5. QED
      BY <2>1, <2>2, <2>3, <2>4
  <1>5. CASE Workflow
    <2>1. Queued.st = "queued" /\ "finalize" \in Activities
      BY DEF Queued, Idle, Activities
    <2>2. /\ UNCHANGED <<case, desk, late>>
          /\ act'["finalize"] = Queued \/ act'["finalize"] = act["finalize"]
      BY <1>0, <1>5, <2>1, RunMoves DEF dbVars
    <2>3. QED
      BY <1>0, <2>1, <2>2 DEF Ready
  <1>6. CASE Redrive
    <2>1. LaunchRun(signals) /\ UNCHANGED <<case, desk, late>>
      BY <1>6 DEF Redrive, dbVars
    <2>2. QED
      BY <1>0, <2>1, LaunchReady
  <1>7. CASE UNCHANGED vars
    BY <1>1, <1>7 DEF vars
  <1>8. QED
    BY <1>2, <1>3, <1>4, <1>5, <1>6, <1>7, DeskReady, WorkerReady DEF Next, Decisions

\* POST /cases submits a case once.
LEMMA CallRegisters ==
  ASSUME RegisterInv, NEW c \in Calls,
         InsertCase(c) \/ StartWorkflow(c) \/ RecordCreated(c) \/ CallFails(c)
  PROVE  [Register!Next]_(Register!vars)
  <1>1. UNCHANGED <<recorded, cleared, posted>>
    BY DEF InsertCase, StartWorkflow, RecordCreated, CallFails, dbVars
  <1>2. Audited' = Audited
    <2>1. trail' \in {trail, trail \union {<<"intake", "case_created">>}}
      BY DEF InsertCase, StartWorkflow, RecordCreated, CallFails, dbVars
    <2>2. QED
      BY <2>1 DEF Audited
  <1>3. CASE UNCHANGED case
    BY <1>1, <1>2, <1>3 DEF Register!vars, Audited
  <1>4. CASE ~UNCHANGED case
    <2>1. PICK docs \in DocumentSets :
            case' = [status |-> "pending", decision |-> "none", docs |-> docs]
      BY <1>4 DEF InsertCase, StartWorkflow, RecordCreated, CallFails, dbVars
    <2>2. case.status = "absent" /\ case.decision = "none"
      BY <1>4 DEF InsertCase, StartWorkflow, RecordCreated, CallFails, dbVars, RegisterInv,
         Ready
    <2>3. docs \in SUBSET DocTypes
      BY KycCaseAssumption
    <2>4. Register!Submit
      BY <1>1, <1>2, <2>1, <2>2, <2>3 DEF Register!Submit, Audited
    <2>5. QED
      BY <2>4 DEF Register!Next
  <1>5. QED
    BY <1>3, <1>4


\* A decision is recorded on a case sent to review, then shown in the trail.
LEMMA DeskRegisters ==
  ASSUME RegisterInv, NEW r \in Reviewers, NEW d \in Decisions,
         \/ CheckStatus(r, d) \/ RecordDecision(r) \/ AuditDecision(r)
         \/ SignalWorkflow(r) \/ DecisionFails(r)
  PROVE  [Register!Next]_(Register!vars)
  <1>1. UNCHANGED <<case, cleared, posted>>
    BY DEF CheckStatus, RecordDecision, AuditDecision, SignalWorkflow, DecisionFails, dbVars
  <1>2. PICK e \in Decisions, row \in [by : Reviewers, decision : Decisions] :
          e = desk[r].decision /\ row = [by |-> r, decision |-> e]
    BY DEF RegisterInv, TypeOK, DeskRecord
  <1>3. e \in Register!Verdicts \union {"escalated"} /\ row.decision = e
    BY <1>2 DEF Decisions, Verdicts, Register!Verdicts
  <1>4. CASE RecordDecision(r)
    <2>1. /\ recorded' = recorded \union {row} /\ UNCHANGED trail
          /\ case.status \notin {"absent", "pending"}
      BY <1>2, <1>4 DEF RecordDecision, RegisterInv, Ready
    <2>2. Opinions' = Opinions \union {e}
      BY <1>3, <2>1 DEF Opinions
    <2>3. Register!Opine(e)
      BY <1>1, <2>1, <2>2 DEF Register!Opine, Opinions
    <2>4. QED
      BY <1>3, <2>3 DEF Register!Next
  <1>5. CASE AuditDecision(r)
    <2>1. /\ trail' = trail \union {<<"review_decision_recorded", e>>} /\ UNCHANGED recorded
          /\ row \in recorded
      BY <1>2, <1>5 DEF AuditDecision, RegisterInv, Provenance, DeskRecorded
    <2>2. Audited' = Audited \union {e}
      BY <1>2, <2>1 DEF Audited
    <2>3. e \in Opinions
      BY <1>3, <2>1 DEF Opinions
    <2>4. Register!Audit(e)
      BY <1>1, <2>1, <2>2, <2>3 DEF Register!Audit, Audited, Opinions
    <2>5. QED
      BY <1>3, <2>4 DEF Register!Next
  <1>6. CASE CheckStatus(r, d) \/ SignalWorkflow(r) \/ DecisionFails(r)
    <2>1. UNCHANGED <<recorded, trail>>
      BY <1>6 DEF CheckStatus, SignalWorkflow, DecisionFails, dbVars
    <2>2. QED
      BY <1>1, <2>1 DEF Register!vars
  <1>7. QED
    BY <1>4, <1>5, <1>6

\* What a transaction writes to the row, in time or late.
LEMMA WriteRegisters ==
  ASSUME RegisterInv, NEW a \in {"park", "finalize"}, NEW d, case' = RowAfter(a, d),
         case.status # "absent", a = "finalize" => Justified(d),
         UNCHANGED <<recorded, trail, posted, cleared>>
  PROVE  [Register!Next]_(Register!vars)
  <1>0. TypeOK
    BY DEF RegisterInv
  <1>1. CASE a = "park"
    <2>1. /\ case'.status = "needs_review" /\ case'.decision = case.decision
          /\ case'.docs = case.docs
      BY <1>0, <1>1, RowWritten
    <2>2. Register!SendToReview
      BY <2>1 DEF Register!SendToReview
    <2>3. QED
      BY <2>2 DEF Register!Next
  <1>2. CASE a = "finalize"
    <2>1. case'.status = d /\ case'.decision = d /\ case'.docs = case.docs
      BY <1>0, <1>2, RowWritten
    <2>2. d \in Register!Verdicts /\ Register!Supported(d)
      BY <1>2, JustifiedIsSupported
    <2>3. Register!Decide(d)
      BY <2>1, <2>2 DEF Register!Decide
    <2>4. QED
      BY <2>2, <2>3 DEF Register!Next
  <1>3. QED
    BY <1>1, <1>2

\* What an attempt tells the webhooks, in time or late.
LEMMA AnnounceRegisters ==
  ASSUME NEW d, Justified(d), case.decision # "none", posted' = posted \union {d},
         UNCHANGED <<case, recorded, trail, cleared>>
  PROVE  [Register!Next]_(Register!vars)
  <1>1. d \in Register!Verdicts /\ Register!Announce(d)
    BY JustifiedIsSupported DEF Register!Announce
  <1>2. QED
    BY <1>1 DEF Register!Next

\* Attempts write the row and tell the webhooks; `.started` rows audit no decision.
LEMMA WorkerRegisters ==
  ASSUME RegisterInv, NEW a \in Activities,
         Worker(a) \/ AttemptFails(a) \/ AttemptAbandoned(a) \/ ScheduleToClose(a)
  PROVE  [Register!Next]_(Register!vars)
  <1>0. TypeOK
    BY DEF RegisterInv
  <1>1. UNCHANGED <<recorded, cleared>>
    BY <1>0, AttemptMoves
  <1>2. CASE Commit(a) /\ a \in {"park", "finalize"}
    <2>1. act[a].st \in OpenStages /\ case' = RowAfter(a, wf.decision)
          /\ UNCHANGED <<trail, posted>>
      BY <1>2 DEF Commit, OpenStages
    <2>2. QED
      BY <1>1, <1>2, <2>1, AttemptReady, WriteRegisters
  <1>3. CASE Commit(a) /\ a = "deliver"
    <2>1. /\ act[a].st \in OpenStages /\ UNCHANGED <<case, trail>>
          /\ posted' = posted \union {wf.decision}
      BY <1>0, <1>3, RowWritten DEF Commit, OpenStages, RowAfter
    <2>2. QED
      BY <1>1, <1>3, <2>1, AttemptReady, AnnounceRegisters
  <1>4. CASE Commit(a) /\ a \notin {"park", "finalize", "deliver"}
    <2>1. UNCHANGED <<case, trail, posted>>
      BY <1>4 DEF Commit, RowAfter
    <2>2. QED
      BY <1>1, <2>1 DEF Register!vars
  <1>5. CASE ~Commit(a)
    <2>1. UNCHANGED <<case, posted>>
      BY <1>5 DEF Worker, Begin, Report, AttemptFails, AttemptAbandoned, ScheduleToClose,
         dbVars
    <2>2. trail' \in {trail, trail \union {<<a, "started">>}}
      BY <1>5 DEF Worker, Begin, Report, AttemptFails, AttemptAbandoned, ScheduleToClose,
         dbVars
    <2>3. Audited' = Audited
      BY <2>2 DEF Audited, Decisions, Verdicts
    <2>4. QED
      BY <1>1, <2>1, <2>3 DEF Register!vars, Audited
  <1>6. QED
    BY <1>2, <1>3, <1>4, <1>5

\* The workflow clears complete cases only and leaves the rest to its activities.
LEMMA WorkflowRegisters ==
  ASSUME RegisterInv, Workflow
  PROVE  [Register!Next]_(Register!vars)
  <1>1. UNCHANGED <<case, recorded, trail, posted>>
    BY RunMoves DEF RegisterInv, dbVars
  <1>2. CASE UNCHANGED cleared
    BY <1>1, <1>2 DEF Register!vars
  <1>3. CASE ~UNCHANGED cleared
    <2>1. wf.at = "risk" /\ cleared' = TRUE
      BY <1>3 DEF Workflow, DocumentsFetched, DocumentExtracted, EvidenceGathered, RiskScored,
         Parked, TakeDecision, Finalized, Completed, WorkflowFails
    <2>2. case.docs = DocTypes
      BY <2>1 DEF RegisterInv, Evidence, Reached
    <2>3. Register!Clear
      BY <1>1, <2>1, <2>2 DEF Register!Clear
    <2>4. QED
      BY <2>3 DEF Register!Next
  <1>4. QED
    BY <1>2, <1>3

\* Every step of the system is a step of CaseRegister or leaves its variables alone.
LEMMA StepRegisters ==
  ASSUME RegisterInv, [Next]_vars
  PROVE  [Register!Next]_(Register!vars)
  <1>1. ASSUME NEW w \in late, LateCommit(w)
        PROVE  [Register!Next]_(Register!vars)
    <2>1. case' = RowAfter(w[1], w[2]) /\ UNCHANGED <<recorded, trail, cleared>>
      BY <1>1 DEF LateCommit
    <2>2. CASE w[1] # "deliver"
      <3>1. UNCHANGED posted
        BY <1>1, <2>2 DEF LateCommit
      <3>2. QED
        BY <2>1, <2>2, <3>1, LateWriteReady, WriteRegisters
    <2>3. CASE w[1] = "deliver"
      <3>1. UNCHANGED case /\ posted' = posted \union {w[2]}
        BY <1>1, <2>3 DEF LateCommit, RowAfter
      <3>2. QED
        BY <2>1, <2>3, <3>1, LateWriteReady, AnnounceRegisters
    <2>4. QED
      BY <2>2, <2>3
  <1>2. CASE Redrive \/ UNCHANGED vars
    <2>1. UNCHANGED <<case, recorded, trail, posted, cleared>>
      BY <1>2 DEF Redrive, vars, dbVars
    <2>2. QED
      BY <2>1 DEF Register!vars
  <1>3. QED
    BY <1>1, <1>2, CallRegisters, DeskRegisters, WorkerRegisters, WorkflowRegisters
       DEF Next, Decisions

\* For any number of requests, reviewers, runs, resets and transactions that commit
\* late, every step is one CaseRegister allows: the case is never withdrawn and its
\* documents never change, only decisions on a case sent to review are recorded, and
\* no verdict reaches the row or a webhook that a reviewer did not record and audit
\* or a clearance cover (main.py:502-579; kyc_case.py:209-308; activities.py:361-468).
THEOREM CaseImplementsRegister == Spec => ImplementsRegister
  <1>1. Init => Register!Init
    BY DEF Init, Register!Init
  <1>2. Init => Ready
    BY DEF Init, Ready, Idle, Activities
  <1>3. RegisterInv /\ [Next]_vars => [Register!Next]_(Register!vars)
    BY StepRegisters
  <1>4. Spec => []Ready
    BY <1>2, ReadyStep, TypeCorrect, VerdictsHaveProvenance, EvidenceHolds, PlacedHolds, PTL
       DEF Spec, RegisterInv
  <1>5. Spec => []RegisterInv
    BY <1>4, TypeCorrect, VerdictsHaveProvenance, EvidenceHolds, PlacedHolds, PTL
       DEF RegisterInv
  <1>6. QED
    BY <1>1, <1>3, <1>5, PTL DEF Spec, ImplementsRegister, Register!Spec


------------------------------------------------------------------------------
(* What becomes of an acknowledged decision, and of an open case           *)

\* Who has been told of a run, whose decision was acknowledged, and where it is.
Tracked ==
  /\ runs = 0 => wf.at = "none"
  /\ wf.at = "none" => \A c \in Calls : call[c] \notin {"started", "answered"}
  /\ \A r \in Reviewers : desk[r].at = "accepted" => runs # 0
  /\ (\A c \in Calls : Unstarted(c)) => runs = 0
  /\ NeverReplaced => \A r \in Reviewers :
       desk[r].at = "accepted" => \E i \in 1 .. Len(signals) : signals[i] = desk[r].decision

\* Only a run's own launch leads away from none, and nothing leads back.
LEMMA WorkflowLeavesNone ==
  ASSUME TypeOK, Workflow
  PROVE  wf.at # "none" /\ wf'.at # "none"
  <1>0. wf \in Run
    BY DEF TypeOK
  <1>1. CASE \/ DocumentsFetched \/ DocumentExtracted \/ EvidenceGathered \/ Parked
             \/ Finalized \/ Completed \/ WorkflowFails
    BY <1>0, <1>1 DEF DocumentsFetched, DocumentExtracted, EvidenceGathered, Parked, Finalized,
       Completed, WorkflowFails, Goto, Run
  <1>2. CASE RiskScored
    <2>1. wf.at = "risk" /\ wf'.at \in {"park", "finalize"}
      BY <1>0, <1>2 DEF RiskScored, Goto, Run
    <2>2. QED
      BY <2>1
  <1>3. CASE TakeDecision
    <2>1. /\ wf.at = "await"
          /\ \/ UNCHANGED wf
             \/ wf' = [wf EXCEPT !.at = "finalize", !.decision = signals[OldestSignal]]
      BY <1>3 DEF TakeDecision
    <2>2. wf'.at \in {"await", "finalize"}
      BY <1>0, <2>1 DEF Run
    <2>3. QED
      BY <2>1, <2>2
  <1>4. QED
    BY <1>1, <1>2, <1>3 DEF Workflow

\* A step that leaves the runs, the calls and the acknowledgements alone.
LEMMA NothingTracked ==
  ASSUME Tracked, UNCHANGED <<call, signals, runs>>,
         wf'.at = wf.at \/ (wf.at # "none" /\ wf'.at # "none"),
         \A r \in Reviewers : desk'[r].at = "accepted" => desk'[r] = desk[r]
  PROVE  Tracked'
  BY DEF Tracked, NeverReplaced, Unstarted

\* POST /cases starts a run, tells of it, and replaces none when it is the only call.
LEMMA CallTracked ==
  ASSUME TypeOK, Tracked, NEW c \in Calls,
         InsertCase(c) \/ StartWorkflow(c) \/ RecordCreated(c) \/ CallFails(c)
  PROVE  Tracked'
  <1>0. call \in [Calls -> CallStages] /\ runs \in Nat
    BY KycCaseAssumption DEF TypeOK
  <1>1. UNCHANGED desk /\ \A b \in Calls : b # c => call'[b] = call[b]
    BY <1>0 DEF InsertCase, StartWorkflow, RecordCreated, CallFails
  <1>2. CASE InsertCase(c) \/ RecordCreated(c) \/ CallFails(c)
    <2>1. UNCHANGED <<wf, signals, runs>>
      BY <1>2 DEF InsertCase, RecordCreated, CallFails, runVars
    <2>2. \/ call[c] = "idle" /\ call'[c] \in {"created", "replayed"}
          \/ call[c] = "started" /\ call'[c] = "answered"
          \/ call[c] # "idle" /\ call'[c] = "failed"
      BY <1>0, <1>2 DEF InsertCase, RecordCreated, CallFails
    <2>3. \A b \in Calls : Unstarted(b)' => Unstarted(b)
      BY <1>1, <2>2 DEF Unstarted
    <2>4. NeverReplaced' => NeverReplaced
      BY <2>1, <2>3 DEF NeverReplaced
    <2>5. wf'.at = "none" => \A b \in Calls : call'[b] \notin {"started", "answered"}
      BY <1>1, <2>1, <2>2 DEF Tracked
    <2>6. QED
      BY <1>1, <2>1, <2>3, <2>4, <2>5 DEF Tracked
  <1>3. CASE StartWorkflow(c)
    <2>1. call[c] \in {"created", "replayed"} /\ call'[c] \in {"started", "answered"}
      BY <1>0, <1>3 DEF StartWorkflow
    <2>2. CASE Running /\ UNCHANGED runVars
      <3>1. wf.at # "none" /\ UNCHANGED <<wf, signals, runs>>
        BY <2>2 DEF runVars, Running, ClosedSteps
      <3>2. \A b \in Calls : Unstarted(b)' => Unstarted(b)
        BY <1>1, <2>1 DEF Unstarted
      <3>3. NeverReplaced' => NeverReplaced
        BY <3>1, <3>2 DEF NeverReplaced
      <3>4. QED
        BY <1>1, <3>1, <3>2, <3>3 DEF Tracked
    <2>3. CASE LaunchRun(<<>>)
      <3>1. wf'.at = "fetch" /\ runs' = runs + 1
        BY <2>3 DEF LaunchRun
      <3>2. ASSUME NeverReplaced'
            PROVE  runs = 0
        <4>1. CASE runs' <= 1
          BY <1>0, <3>1, <4>1
        <4>2. CASE \E e \in Calls : \A b \in Calls \ {e} : Unstarted(b)'
          <5>1. \A b \in Calls \ {c} : Unstarted(b)'
            BY <2>1, <4>2 DEF Unstarted
          <5>2. \A b \in Calls : Unstarted(b)
            BY <1>1, <2>1, <5>1 DEF Unstarted
          <5>3. QED
            BY <5>2 DEF Tracked
        <4>3. QED
          BY <3>2, <4>1, <4>2 DEF NeverReplaced
      <3>3. NeverReplaced' => \A r \in Reviewers : desk'[r].at # "accepted"
        BY <1>1, <3>2 DEF Tracked
      <3>4. runs' # 0
        BY <1>0, <3>1
      <3>5. ~Unstarted(c)'
        BY <2>1 DEF Unstarted
      <3>6. QED
        BY <3>1, <3>3, <3>4, <3>5 DEF Tracked
    <2>4. QED
      BY <1>3, <2>2, <2>3 DEF StartWorkflow
  <1>4. QED
    BY <1>2, <1>3

\* A decision is acknowledged as it joins the signals of the run.
LEMMA DeskTracked ==
  ASSUME TypeOK, Tracked, NEW r \in Reviewers, NEW d \in Decisions,
         \/ CheckStatus(r, d) \/ RecordDecision(r) \/ AuditDecision(r)
         \/ SignalWorkflow(r) \/ DecisionFails(r)
  PROVE  Tracked'
  <1>0. desk \in [Reviewers -> DeskRecord] /\ signals \in Seq(Decisions)
    BY DEF TypeOK
  <1>1. UNCHANGED <<call, wf, runs>>
    BY DEF CheckStatus, RecordDecision, AuditDecision, SignalWorkflow, DecisionFails, runVars
  <1>2. \A q \in Reviewers : q # r => desk'[q] = desk[q]
    BY <1>0 DEF CheckStatus, RecordDecision, AuditDecision, SignalWorkflow, DecisionFails
  <1>3. CASE SignalWorkflow(r) /\ Running
    <2>1. /\ signals' = Append(signals, desk[r].decision)
          /\ \E end \in {"accepted", "errored"} : desk' = [desk EXCEPT ![r].at = end]
      BY <1>3 DEF SignalWorkflow
    <2>2. desk[r] \in DeskRecord /\ desk[r].decision \in Decisions
      BY <1>0 DEF DeskRecord
    <2>3. desk'[r].decision = desk[r].decision
      BY <1>0, <2>1, <2>2 DEF DeskRecord
    <2>4. /\ Len(signals') = Len(signals) + 1 /\ Len(signals) \in Nat
          /\ signals'[Len(signals) + 1] = desk[r].decision
          /\ \A i \in 1 .. Len(signals) : signals'[i] = signals[i]
      BY <1>0, <2>1, <2>2
    <2>5. runs # 0
      BY <1>3 DEF Tracked, Running, ClosedSteps
    <2>6. ASSUME NeverReplaced', NEW q \in Reviewers, desk'[q].at = "accepted"
          PROVE  \E i \in 1 .. Len(signals') : signals'[i] = desk'[q].decision
      <3>1. CASE q = r
        BY <2>3, <2>4, <3>1
      <3>2. CASE q # r
        <4>1. NeverReplaced
          BY <1>1, <2>6 DEF NeverReplaced, Unstarted
        <4>2. PICK i \in 1 .. Len(signals) : signals[i] = desk[q].decision
          BY <1>2, <2>6, <3>2, <4>1 DEF Tracked
        <4>3. i \in 1 .. Len(signals')
          BY <2>4
        <4>4. QED
          BY <1>2, <2>4, <3>2, <4>2, <4>3
      <3>3. QED
        BY <3>1, <3>2
    <2>7. QED
      BY <1>1, <2>5, <2>6 DEF Tracked, Unstarted
  <1>4. CASE ~(SignalWorkflow(r) /\ Running)
    <2>1. UNCHANGED signals /\ desk'[r].at # "accepted"
      BY <1>0, <1>4 DEF CheckStatus, RecordDecision, AuditDecision, SignalWorkflow,
         DecisionFails, runVars, DeskRecord
    <2>2. QED
      BY <1>1, <1>2, <2>1, NothingTracked
  <1>5. QED
    BY <1>3, <1>4

\* Every step keeps track of runs and acknowledgements.
LEMMA TrackedStep == TypeOK /\ Tracked /\ [Next]_vars => Tracked'
  <1> SUFFICES ASSUME TypeOK, Tracked, [Next]_vars
               PROVE  Tracked'
    OBVIOUS
  <1>1. CASE UNCHANGED <<call, desk, wf, signals, runs>>
    BY <1>1, NothingTracked
  <1>2. ASSUME NEW a \in Activities,
               Worker(a) \/ AttemptFails(a) \/ AttemptAbandoned(a) \/ ScheduleToClose(a)
        PROVE  UNCHANGED <<call, desk, wf, signals, runs>>
    BY <1>2, AttemptMoves
  <1>3. ASSUME NEW w \in late, LateCommit(w)
        PROVE  UNCHANGED <<call, desk, wf, signals, runs>>
    BY <1>3 DEF LateCommit, runVars
  <1>4. CASE Workflow
    BY <1>4, RunMoves, WorkflowLeavesNone, NothingTracked
  <1>5. CASE Redrive
    <2>1. /\ wf.at = "failed" /\ wf'.at = "fetch" /\ runs' = runs + 1 /\ signals' = signals
          /\ UNCHANGED <<call, desk>> /\ runs \in Nat
      BY <1>5, KycCaseAssumption DEF Redrive, LaunchRun, TypeOK
    <2>2. runs # 0 /\ runs' # 0
      BY <2>1 DEF Tracked
    <2>3. NeverReplaced' => NeverReplaced
      BY <2>1 DEF NeverReplaced, Unstarted
    <2>4. QED
      BY <2>1, <2>2, <2>3 DEF Tracked, Unstarted
  <1>6. CASE UNCHANGED vars
    BY <1>1, <1>6 DEF vars
  <1>7. QED
    BY <1>1, <1>2, <1>3, <1>4, <1>5, <1>6, CallTracked, DeskTracked DEF Next, Decisions

\* Runs and acknowledgements are in step in every reachable state.
LEMMA TrackedHolds == Spec => []Tracked
  <1>1. Init => Tracked
    BY DEF Init, Tracked
  <1>2. QED
    BY <1>1, TrackedStep, TypeCorrect, PTL DEF Spec

\* The first run parks the case, and opens it to reviewers, before anything else
\* writes the row; what clears it never parks it.
LEMMA UnparkedStep ==
  TypeOK /\ Provenance /\ VerdictInv /\ Unparked /\ [Next]_vars => Unparked'
  <1> SUFFICES ASSUME TypeOK, Provenance, VerdictInv, Unparked, [Next]_vars
               PROVE  Unparked'
    OBVIOUS
  <1> DEFINE Early == /\ runs <= 1
                      /\ \/ wf.at \in {"none", "fetch", "extract", "evidence", "risk"}
                         \/ wf.auto
  <1>0. runs \in Nat /\ "park" \in Activities
    BY KycCaseAssumption DEF TypeOK, Activities
  <1>1. CASE UNCHANGED <<case, desk, wf, act, late, runs>>
    BY <1>1 DEF Unparked
  <1>2. ASSUME NEW c \in Calls, InsertCase(c)
        PROVE  Unparked'
    <2>1. UNCHANGED <<desk, wf, act, late, runs>>
          /\ (case' = case \/ case'.status = "pending")
      BY <1>2 DEF InsertCase, runVars
    <2>2. QED
      BY <2>1 DEF Unparked
  <1>3. ASSUME NEW inherited, LaunchRun(inherited), UNCHANGED <<case, desk, late>>
        PROVE  Unparked'
    <2>1. runs' = runs + 1 /\ act'["park"].st = "idle"
      BY <1>0, <1>3 DEF LaunchRun, Idle
    <2>2. Early' => runs = 0 /\ wf.at = "none"
      BY <1>0, <2>1 DEF Unparked
    <2>3. QED
      BY <1>0, <1>3, <2>1, <2>2 DEF Unparked
  <1>4. ASSUME NEW c \in Calls, StartWorkflow(c) \/ RecordCreated(c) \/ CallFails(c)
        PROVE  \/ UNCHANGED <<case, desk, wf, act, late, runs>>
               \/ LaunchRun(<<>>) /\ UNCHANGED <<case, desk, late>>
    BY <1>4 DEF StartWorkflow, RecordCreated, CallFails, runVars, dbVars
  <1>5. ASSUME NEW r \in Reviewers, NEW d \in Decisions,
               \/ CheckStatus(r, d) \/ RecordDecision(r) \/ AuditDecision(r)
               \/ SignalWorkflow(r) \/ DecisionFails(r)
        PROVE  Unparked'
    <2>1. UNCHANGED <<case, wf, act, late, runs>>
      BY <1>5 DEF CheckStatus, RecordDecision, AuditDecision, SignalWorkflow, DecisionFails,
         runVars, dbVars
    <2>2. case.status = "needs_review" \/ desk[r].at # "idle"
      BY <1>5 DEF CheckStatus, AwaitingReview, RecordDecision, AuditDecision, SignalWorkflow,
         SignalledAfter, DecisionFails, InFlight
    <2>3. ~Early
      BY <2>2 DEF Unparked
    <2>4. QED
      BY <1>0, <2>1, <2>3 DEF Unparked
  <1>6. ASSUME NEW a \in Activities,
               Worker(a) \/ AttemptFails(a) \/ AttemptAbandoned(a) \/ ScheduleToClose(a)
        PROVE  Unparked'
    <2>1. /\ UNCHANGED <<wf, desk, runs>> /\ act[a].st \in OpenStages
          /\ \A b \in Activities : b # a => act'[b] = act[b]
      BY <1>6, AttemptMoves
    <2>2. Early => a # "park" /\ act'["park"] = act["park"]
      BY <1>0, <2>1 DEF Unparked, OpenStages
    <2>3. \/ UNCHANGED case
          \/ case' = RowAfter(a, wf.decision) /\ act[a].st = "begun"
      BY <1>6 DEF Worker, Begin, Commit, Report, AttemptFails, AttemptAbandoned,
         ScheduleToClose, dbVars
    <2>4. a # "park" => case'.status = case.status \/ case'.status \in Verdicts
      BY <2>3, RowWritten DEF Provenance, RunJustified, Justified
    <2>5. \A w \in late' : w \in late \/ w[1] = a
      BY <1>6 DEF Worker, Begin, Commit, Report, AttemptFails, AttemptAbandoned,
         ScheduleToClose
    <2>6. QED
      BY <2>1, <2>2, <2>4, <2>5 DEF Unparked, Verdicts
  <1>7. ASSUME NEW w \in late, LateCommit(w)
        PROVE  Unparked'
    <2>1. UNCHANGED <<desk, wf, act, runs>> /\ late' \subseteq late
          /\ case' = RowAfter(w[1], w[2])
      BY <1>7 DEF LateCommit, runVars
    <2>2. w[1] # "park" => w[2] \in Verdicts
      BY DEF Provenance, LateJustified, Justified
    <2>3. w[1] # "park" => case'.status = case.status \/ case'.status \in Verdicts
      BY <2>1, <2>2, RowWritten
    <2>4. QED
      BY <2>1, <2>3 DEF Unparked, Verdicts
  <1>8. CASE Workflow
    <2>1. /\ UNCHANGED <<case, desk, late, runs>>
          /\ wf.at # "none" /\ wf'.at # "none" /\ wf \in Run
          /\ act \in [Activities -> ActivityRecord]
      BY <1>8, RunMoves, WorkflowLeavesNone DEF TypeOK, dbVars
    <2>2. CASE Goto("park", {"park"})
      <3>1. wf'.at = "park" /\ wf'.auto = wf.auto
        BY <2>1, <2>2 DEF Goto, Run
      <3>2. CASE DocumentsFetched \/ DocumentExtracted \/ RiskScored
        <4>1. ~wf.auto
          BY <3>2 DEF DocumentsFetched, DocumentExtracted, RiskScored, VerdictInv,
             BeforeVerdict
        <4>2. QED
          BY <2>1, <3>1, <4>1 DEF Unparked
      <3>3. QED
        BY <1>8, <2>1, <2>2, <3>1, <3>2 DEF Workflow, EvidenceGathered, Parked,
           TakeDecision, Finalized, Completed, WorkflowFails, Goto, Run
    <2>3. CASE ~Goto("park", {"park"})
      <3>1. act'["park"] = act["park"]
        BY <1>0, <1>8, <2>1, <2>3 DEF Workflow, DocumentsFetched, DocumentExtracted,
           EvidenceGathered, RiskScored, Parked, TakeDecision, Finalized, Completed,
           WorkflowFails, Goto
      <3>2. Early' => Early
        <4>1. CASE DocumentsFetched \/ DocumentExtracted \/ EvidenceGathered \/ RiskScored
          BY <2>1, <4>1 DEF DocumentsFetched, DocumentExtracted, EvidenceGathered, RiskScored
        <4>2. CASE \/ Parked \/ TakeDecision \/ Finalized \/ Completed \/ WorkflowFails
          <5>1. \/ UNCHANGED wf
                \/ /\ wf'.at \in {"await", "finalize", "deliver", "completed", "failed"}
                   /\ wf'.auto = wf.auto
            BY <2>1, <4>2 DEF Parked, TakeDecision, Finalized, Completed, WorkflowFails,
               Goto, Run
          <5>2. QED
            BY <2>1, <5>1
        <4>3. QED
          BY <1>8, <4>1, <4>2 DEF Workflow
      <3>3. QED
        BY <2>1, <3>1, <3>2 DEF Unparked
    <2>4. QED
      BY <2>2, <2>3
  <1>9. CASE Redrive
    BY <1>3, <1>9 DEF Redrive, dbVars
  <1>10. CASE UNCHANGED vars
    BY <1>1, <1>10 DEF vars
  <1>11. QED
    BY <1>1, <1>2, <1>3, <1>4, <1>5, <1>6, <1>7, <1>8, <1>9, <1>10 DEF Next, Decisions

\* Nobody can have decided a case whose only run has not parked it.
LEMMA UnparkedHolds == Spec => []Unparked
  <1>1. Init => Unparked
    BY DEF Init, Unparked, Idle, Activities
  <1>2. Spec => []VerdictInv
    BY InitVerdict, VerdictStep, TypeCorrect, PTL DEF Spec
  <1>3. QED
    BY <1>1, <1>2, UnparkedStep, TypeCorrect, VerdictsHaveProvenance, PTL DEF Spec

\* A verdict acknowledged with 200 is not lost: as long as no second POST /cases has
\* started a run afresh, that very verdict is the one applied, still waits among the
\* signals or lost to an earlier verdict of the run, whatever is retried, reset or
\* signalled besides.  Only a reset run that clears the case by itself leaves it
\* unread (main.py:544-579; kyc_case.py:84-91, 221-231 and 310-320).
THEOREM AcknowledgedVerdictsAreHeld == Spec => []AcknowledgedIsHeld
  <1>1. TypeOK /\ VerdictInv /\ Tracked /\ Unparked => AcknowledgedIsHeld
    <2> SUFFICES ASSUME TypeOK, VerdictInv, Tracked, Unparked, NeverReplaced,
                        NEW r \in Reviewers,
                        desk[r].at = "accepted", desk[r].decision \in Verdicts
                 PROVE  \E i \in 1 .. Len(signals) :
                          signals[i] = desk[r].decision /\ HeldAt(i)
      BY DEF AcknowledgedIsHeld
    <2>1. PICK i \in 1 .. Len(signals) : signals[i] = desk[r].decision
      BY DEF Tracked
    <2>2. taken \in Nat /\ Len(signals) \in Nat /\ runs \in Nat
      BY KycCaseAssumption DEF TypeOK
    <2>3. signals[i] # "escalated"
      BY <2>1 DEF Verdicts
    <2>4. CASE wf.decision = "none"
      <3>1. i \notin 1 .. taken
        BY <2>3, <2>4 DEF VerdictInv
      <3>2. QED
        BY <2>1, <2>2, <2>4, <3>1 DEF HeldAt
    <2>5. CASE wf.decision # "none" /\ wf.auto
      <3>1. runs > 1
        BY <2>2, <2>5 DEF Unparked
      <3>2. QED
        BY <2>1, <2>5, <3>1 DEF HeldAt
    <2>6. CASE wf.decision # "none" /\ ~wf.auto
      <3>1. signals[taken] = wf.decision /\ i \notin 1 .. (taken - 1)
        BY <2>3, <2>6 DEF VerdictInv, FirstVerdictWins
      <3>2. QED
        BY <2>1, <2>2, <2>6, <3>1 DEF HeldAt
    <2>7. QED
      BY <2>4, <2>5, <2>6
  <1>2. Spec => []VerdictInv
    BY InitVerdict, VerdictStep, TypeCorrect, PTL DEF Spec
  <1>3. QED
    BY <1>1, <1>2, TrackedHolds, UnparkedHolds, TypeCorrect, PTL

\* If no work transaction outlives its attempt, an open case without a live workflow is
\* one whose run failed, or one no run was started for and whose client was not told
\* otherwise: no completed run leaves a case pending or in review
\* (main.py:209-244; kyc_case.py:221-308).
THEOREM OpenCasesAreWorked ==
  ASSUME ~LateWrites
  PROVE  Spec => []OpenCaseIsWorked
  <1>1. TypeOK /\ Tracked /\ ReportedDecisionIsStored => OpenCaseIsWorked
    BY DEF TypeOK, Run, Tracked, ReportedDecisionIsStored, OpenCaseIsWorked, Running,
       ClosedSteps, Verdicts
  <1>2. QED
    BY <1>1, ReportedDecisionsAreStored, TrackedHolds, TypeCorrect, PTL
==============================================================================
