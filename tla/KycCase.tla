------------------------------- MODULE KycCase -------------------------------
(***************************************************************************)
(* One KYC case, end to end: the intake handlers that create it and take   *)
(* review decisions, the kyc_case workflow, the activities a worker runs   *)
(* for it under Temporal's at-least-once rules, and the rows they write.   *)
(* Cases share no state but the audit chain (module AuditChain) and the    *)
(* tenant's webhooks (module WebhookDelivery), so one case is modelled.    *)
(*                                                                         *)
(* An attempt of an activity is queued, begun (its `.started` audit row is *)
(* written), committed (its work transaction is durable) and done          *)
(* (Temporal has its completion).  A dead worker, an exception or a        *)
(* timeout ends an attempt at any of these points.                         *)
(***************************************************************************)
EXTENDS Naturals, Sequences, FiniteSets

CONSTANTS
  Calls,          \* POST /cases requests carrying the case's Idempotency-Key
  Reviewers,      \* reviewers who may decide
  DocumentSets,   \* the sets of document rows a new case may have
  MaxAttempts,    \* maximum_attempts of _SHORT_RETRY_POLICY (3 in the code)
  MaxRuns,        \* bound: workflow executions under the case's workflow id
  MaxSubmits,     \* bound: decisions one reviewer posts
  LateWrites,     \* may a timed-out attempt still commit afterwards?
  Redrives        \* does an operator reset failed workflows (the runbook)?

DocTypes == {"id_document", "selfie"}

ASSUME KycCaseAssumption ==
  /\ DocumentSets \subseteq SUBSET DocTypes
  /\ MaxAttempts \in Nat \ {0}
  /\ MaxRuns \in Nat \ {0}
  /\ MaxSubmits \in Nat
  /\ LateWrites \in BOOLEAN
  /\ Redrives \in BOOLEAN

VARIABLES
  case,      \* the cases row and its documents rows
  recorded,  \* review_decisions rows
  trail,     \* audit events of this case that the properties mention
  call,      \* progress of each POST /cases handler
  desk,      \* progress of each reviewer's POST .../decision handler
  wf,        \* the workflow's current run: where it is and what it holds
  act,       \* the activities of the current run, as Temporal tracks them
  signals,   \* decision signals delivered to the current run, in order
  taken,     \* how many of them _await_review_decision has popped
  late,      \* abandoned attempts whose write or posts may still happen
  posted,    \* decisions announced to the tenant's webhooks
  runs,      \* workflow executions so far
  cleared    \* history: some run took the automatic approval

dbVars == <<case, recorded, trail>>
runVars == <<wf, act, signals, taken, runs>>
vars == <<case, recorded, trail, call, desk, wf, act, signals, taken, late,
          posted, runs, cleared>>

------------------------------------------------------------------------------
Verdicts == {"approved", "rejected"}
Decisions == Verdicts \union {"escalated"}
Statuses == {"absent", "pending", "needs_review"} \union Verdicts

Activities ==
  {"fetch", "extract", "face", "screen", "risk", "park", "finalize", "deliver"}

\* Retried without an attempt limit until schedule_to_close elapses.
LongActivities == {"extract", "face"}

Stages == {"idle", "queued", "begun", "committed", "done", "failed"}
OpenStages == {"queued", "begun", "committed"}
Results == {"none", "ok", "valid", "review", "score", "no_face", "clear", "hit"}

Steps == {"fetch", "extract", "evidence", "risk", "park", "await", "finalize",
          "deliver"}
ClosedSteps == {"none", "completed", "failed"}

Events ==
  {<<"intake", "case_created">>}
    \union ({"review_decision_recorded"} \X Decisions)
    \union (Activities \X {"started"})

CaseRow == [status : Statuses, decision : Verdicts \union {"none"},
            docs : SUBSET DocTypes]
CallStages == {"idle", "created", "replayed", "started", "answered", "failed"}
DeskRecord == [at : {"idle", "checked", "recorded", "audited", "accepted",
                     "refused", "errored"},
               decision : Decisions, posts : 0..MaxSubmits]
Run == [at : Steps \union ClosedSteps, auto : BOOLEAN,
        decision : Verdicts \union {"none"}]
ActivityRecord == [st : Stages, tries : 0..MaxAttempts, out : Results]

\* The activities that write the row or tell the webhooks, and an abandoned
\* attempt of one: what it writes, and the run and the attempt it belongs to.
Telling == {"park", "finalize", "deliver"}
Write == Telling \X (Verdicts \union {"none"}) \X (0..MaxRuns) \X (0..MaxAttempts)

TypeOK ==
  /\ case \in CaseRow
  /\ recorded \subseteq [by : Reviewers, decision : Decisions]
  /\ trail \subseteq Events
  /\ call \in [Calls -> CallStages]
  /\ desk \in [Reviewers -> DeskRecord]
  /\ wf \in Run
  /\ act \in [Activities -> ActivityRecord]
  /\ signals \in Seq(Decisions)
  /\ taken \in 0..Len(signals)
  /\ late \subseteq Write
  /\ posted \subseteq Verdicts
  /\ runs \in 0..MaxRuns
  /\ cleared \in BOOLEAN

------------------------------------------------------------------------------
Idle == [st |-> "idle", tries |-> 0, out |-> "none"]
Queued == [Idle EXCEPT !.st = "queued"]

Init ==
  /\ case = [status |-> "absent", decision |-> "none", docs |-> {}]
  /\ recorded = {}
  /\ trail = {}
  /\ call = [c \in Calls |-> "idle"]
  /\ desk = [r \in Reviewers |->
               [at |-> "idle", decision |-> "escalated", posts |-> 0]]
  /\ wf = [at |-> "none", auto |-> FALSE, decision |-> "none"]
  /\ act = [a \in Activities |-> Idle]
  /\ signals = <<>>
  /\ taken = 0
  /\ late = {}
  /\ posted = {}
  /\ runs = 0
  /\ cleared = FALSE

Running == wf.at \notin ClosedSteps

\* A new execution under the id kyc-case-{case_id}, its first activity queued.
LaunchRun(inherited) ==
  /\ runs < MaxRuns
  /\ runs' = runs + 1
  /\ wf' = [at |-> "fetch", auto |-> FALSE, decision |-> "none"]
  /\ act' = [a \in Activities |-> IF a = "fetch" THEN Queued ELSE Idle]
  /\ signals' = inherited
  /\ taken' = 0

------------------------------------------------------------------------------
(* POST /cases                                                             *)

\* INSERT ... ON CONFLICT DO NOTHING and the documents rows, one transaction.
InsertCase(c) ==
  /\ call[c] = "idle"
  /\ \/ /\ case.status = "absent"
        /\ \E docs \in DocumentSets :
             case' = [status |-> "pending", decision |-> "none", docs |-> docs]
        /\ call' = [call EXCEPT ![c] = "created"]
     \/ /\ case.status # "absent"
        /\ call' = [call EXCEPT ![c] = "replayed"]
        /\ UNCHANGED case
  /\ UNCHANGED <<recorded, trail, desk, runVars, late, posted, cleared>>

\* Bug: start_workflow's errors are swallowed, all of them and not only "already
\* started".
StartWorkflowQuietly(c) ==
  /\ call[c] \in {"created", "replayed"}
  /\ call' = [call EXCEPT ![c] = IF @ = "created" THEN "started" ELSE "answered"]
  /\ IF Running THEN UNCHANGED runVars ELSE LaunchRun(<<>>) \/ UNCHANGED runVars
  /\ UNCHANGED <<dbVars, desk, late, posted, cleared>>

\* start_workflow with a deterministic id and Temporal's default reuse policy:
\* already running is swallowed, already closed starts a fresh execution.
StartWorkflow(c) ==
  /\ call[c] \in {"created", "replayed"}
  /\ call' = [call EXCEPT ![c] = IF @ = "created" THEN "started" ELSE "answered"]
  /\ IF Running THEN UNCHANGED runVars ELSE LaunchRun(<<>>)
  /\ UNCHANGED <<dbVars, desk, late, posted, cleared>>

RecordCreated(c) ==
  /\ call[c] = "started"
  /\ call' = [call EXCEPT ![c] = "answered"]
  /\ trail' = trail \union {<<"intake", "case_created">>}
  /\ UNCHANGED <<case, recorded, desk, runVars, late, posted, cleared>>

\* Temporal or Postgres unreachable, or the API process gone: a 500, and what
\* has been committed so far stays.
CallFails(c) ==
  /\ call[c] \in {"created", "replayed", "started"}
  /\ call' = [call EXCEPT ![c] = "failed"]
  /\ UNCHANGED <<dbVars, desk, runVars, late, posted, cleared>>

------------------------------------------------------------------------------
(* POST /review/cases/{id}/decision                                        *)

InFlight == {"checked", "recorded", "audited"}

AnyStatusButAbsent == case.status # "absent"
AwaitingReview == case.status = "needs_review"

CheckStatus(r, d) ==
  /\ desk[r].at \notin InFlight
  /\ desk[r].posts < MaxSubmits
  /\ AwaitingReview
  /\ desk' = [desk EXCEPT ![r] = [at |-> "checked", decision |-> d,
                                  posts |-> @.posts + 1]]
  /\ UNCHANGED <<dbVars, call, runVars, late, posted, cleared>>

RecordDecision(r) ==
  /\ desk[r].at = "checked"
  /\ desk' = [desk EXCEPT ![r].at = "recorded"]
  /\ recorded' = recorded \union {[by |-> r, decision |-> desk[r].decision]}
  /\ UNCHANGED <<case, trail, call, runVars, late, posted, cleared>>

AuditDecision(r) ==
  /\ desk[r].at = "recorded"
  /\ desk' = [desk EXCEPT ![r].at = "audited"]
  /\ trail' = trail \union {<<"review_decision_recorded", desk[r].decision>>}
  /\ UNCHANGED <<case, recorded, call, runVars, late, posted, cleared>>

SignalledBeforeAudit == {"recorded", "audited"}
SignalledAfter == {"audited"}

\* A closed workflow answers NOT_FOUND: 409, "recorded but not applied".  The
\* answer to a delivered signal may be lost, and the handler then answers 500.
SignalWorkflow(r) ==
  /\ desk[r].at \in SignalledAfter
  /\ \/ /\ Running
        /\ signals' = Append(signals, desk[r].decision)
        /\ \E end \in {"accepted", "errored"} :
             desk' = [desk EXCEPT ![r].at = end]
     \/ /\ ~Running
        /\ desk' = [desk EXCEPT ![r].at = "refused"]
        /\ UNCHANGED signals
  /\ UNCHANGED <<dbVars, call, wf, act, taken, runs, late, posted, cleared>>

DecisionFails(r) ==
  /\ desk[r].at \in InFlight
  /\ desk' = [desk EXCEPT ![r].at = "errored"]
  /\ UNCHANGED <<dbVars, call, runVars, late, posted, cleared>>

------------------------------------------------------------------------------
(* Activities: attempts, commits and completions                           *)

Succeeded(a) == act[a].st = "done"
Closed(a) == act[a].st \in {"done", "failed"}

\* What risk_score_activity is passed: a failed face match is no score, but a
\* failed screen is a hit count of 0.
FaceScorePassed == Succeeded("face") /\ act["face"].out = "score"
HitsPassed == Succeeded("screen") /\ act["screen"].out = "hit"

\* evaluate_policy: the hard stops, then whatever the tenant's policy says.
RiskResults ==
  IF HitsPassed \/ ~FaceScorePassed THEN {"review"} ELSE {"clear", "review"}

ResultsOf(a) ==
  CASE a = "extract" -> {"valid", "review"}
    [] a = "face" -> {"score", "no_face"}
    [] a = "screen" -> {"clear", "hit"}
    [] a = "risk" -> RiskResults
    [] OTHER -> {"ok"}

\* The row update of update_case_status_activity and finalize_case_activity.
RowAfter(a, d) ==
  CASE a = "park" -> [case EXCEPT !.status = "needs_review"]
    [] a = "finalize" -> [case EXCEPT !.status = d, !.decision = d]
    [] OTHER -> case

Begin(a) ==
  /\ act[a].st = "queued"
  /\ act' = [act EXCEPT ![a].st = "begun"]
  /\ trail' = trail \union {<<a, "started">>}
  /\ UNCHANGED <<case, recorded, call, desk, wf, signals, taken, late, posted,
                 runs, cleared>>

Commit(a) ==
  /\ act[a].st = "begun"
  /\ \E out \in ResultsOf(a) :
       act' = [act EXCEPT ![a].st = "committed", ![a].out = out]
  /\ case' = RowAfter(a, wf.decision)
  /\ posted' = IF a = "deliver" THEN posted \union {wf.decision} ELSE posted
  /\ UNCHANGED <<recorded, trail, call, desk, wf, signals, taken, late, runs,
                 cleared>>

Report(a) ==
  /\ act[a].st = "committed"
  /\ act' = [act EXCEPT ![a].st = "done"]
  /\ UNCHANGED <<dbVars, call, desk, wf, signals, taken, late, posted, runs,
                 cleared>>

OneAttemptTooMany(a) ==
  IF act[a].tries < MaxAttempts
  THEN [Queued EXCEPT !.tries = act[a].tries + 1]
  ELSE [Idle EXCEPT !.st = "failed", !.tries = MaxAttempts + 1]

AfterFailedAttempt(a) ==
  IF a \in LongActivities
  THEN Queued
  ELSE IF act[a].tries + 1 < MaxAttempts
       THEN [Queued EXCEPT !.tries = act[a].tries + 1]
       ELSE [Idle EXCEPT !.st = "failed", !.tries = MaxAttempts]

AttemptFails(a) ==
  /\ act[a].st \in OpenStages
  /\ act' = [act EXCEPT ![a] = AfterFailedAttempt(a)]
  /\ UNCHANGED <<dbVars, call, desk, wf, signals, taken, late, posted, runs,
                 cleared>>

\* start_to_close elapses while the worker is still inside the work: Temporal
\* retries, and the old attempt may yet commit its transaction or post on.
AttemptAbandoned(a) ==
  /\ LateWrites
  /\ a \in Telling
  /\ act[a].st = "begun"
  /\ act' = [act EXCEPT ![a] = AfterFailedAttempt(a)]
  /\ late' = late \union {<<a, wf.decision, runs, act[a].tries>>}
  /\ UNCHANGED <<dbVars, call, desk, wf, signals, taken, posted, runs, cleared>>

LateCommit(w) ==
  /\ w \in late
  /\ late' = late \ {w}
  /\ case' = RowAfter(w[1], w[2])
  /\ posted' = IF w[1] = "deliver" THEN posted \union {w[2]} ELSE posted
  /\ UNCHANGED <<recorded, trail, call, desk, runVars, cleared>>

NoScheduleToClose(a) == a \notin Activities /\ UNCHANGED vars

ScheduleToClose(a) ==
  /\ a \in LongActivities
  /\ act[a].st \in OpenStages
  /\ act' = [act EXCEPT ![a] = [Idle EXCEPT !.st = "failed"]]
  /\ UNCHANGED <<dbVars, call, desk, wf, signals, taken, late, posted, runs,
                 cleared>>

------------------------------------------------------------------------------
(* KycCaseWorkflow.run                                                     *)

Goto(step, scheduled) ==
  /\ wf' = [wf EXCEPT !.at = step]
  /\ act' = [a \in Activities |-> IF a \in scheduled THEN Queued ELSE act[a]]

DocumentsFetched ==
  /\ wf.at = "fetch"
  /\ Closed("fetch")
  /\ IF Succeeded("fetch") /\ "id_document" \in case.docs
     THEN Goto("extract", {"extract"})
     ELSE Goto("park", {"park"})
  /\ UNCHANGED <<dbVars, call, desk, signals, taken, late, posted, runs, cleared>>

DocumentExtracted ==
  /\ wf.at = "extract"
  /\ Closed("extract")
  /\ IF /\ Succeeded("extract")
        /\ act["extract"].out = "valid"
        /\ "selfie" \in case.docs
     THEN Goto("evidence", {"face", "screen"})
     ELSE Goto("park", {"park"})
  /\ UNCHANGED <<dbVars, call, desk, signals, taken, late, posted, runs, cleared>>

EvidenceGathered ==
  /\ wf.at = "evidence"
  /\ Closed("face")
  /\ Closed("screen")
  /\ Goto("risk", {"risk"})
  /\ UNCHANGED <<dbVars, call, desk, signals, taken, late, posted, runs, cleared>>

FaceFailureOnly == ~Succeeded("face")

\* hard_failure_reason: an evidence activity that never produced a result.
HardFailure == ~Succeeded("face") \/ ~Succeeded("screen")

RiskScored ==
  /\ wf.at = "risk"
  /\ Succeeded("risk")
  /\ \/ /\ HardFailure \/ act["risk"].out = "review"
        /\ Goto("park", {"park"})
        /\ UNCHANGED cleared
     \/ /\ ~(HardFailure \/ act["risk"].out = "review")
        /\ wf' = [at |-> "finalize", auto |-> TRUE, decision |-> "approved"]
        /\ act' = [act EXCEPT !["finalize"] = Queued]
        /\ cleared' = TRUE
  /\ UNCHANGED <<dbVars, call, desk, signals, taken, late, posted, runs>>

\* The single slot _await_review_decision used to reset on entry.
ParkedSlotReset ==
  /\ wf.at = "park"
  /\ Succeeded("park")
  /\ Goto("await", {})
  /\ taken' = Len(signals)
  /\ UNCHANGED <<dbVars, call, desk, signals, late, posted, runs, cleared>>

Parked ==
  /\ wf.at = "park"
  /\ Succeeded("park")
  /\ Goto("await", {})
  /\ UNCHANGED <<dbVars, call, desk, signals, taken, late, posted, runs, cleared>>

NewestSignal == Len(signals)
OldestSignal == taken + 1

\* _await_review_decision: pop the oldest signal; an escalation keeps waiting.
TakeDecision ==
  /\ wf.at = "await"
  /\ taken < Len(signals)
  /\ taken' = OldestSignal
  /\ IF signals[OldestSignal] = "escalated"
     THEN UNCHANGED <<wf, act>>
     ELSE /\ wf' = [wf EXCEPT !.at = "finalize", !.decision = signals[OldestSignal]]
          /\ act' = [act EXCEPT !["finalize"] = Queued]
  /\ UNCHANGED <<dbVars, call, desk, signals, late, posted, runs, cleared>>

FinalizedUnchecked ==
  /\ wf.at = "finalize"
  /\ Closed("finalize")
  /\ Goto("deliver", {"deliver"})
  /\ UNCHANGED <<dbVars, call, desk, signals, taken, late, posted, runs, cleared>>

Finalized ==
  /\ wf.at = "finalize"
  /\ Succeeded("finalize")
  /\ Goto("deliver", {"deliver"})
  /\ UNCHANGED <<dbVars, call, desk, signals, taken, late, posted, runs, cleared>>

Completed ==
  /\ wf.at = "deliver"
  /\ Succeeded("deliver")
  /\ wf' = [wf EXCEPT !.at = "completed"]
  /\ UNCHANGED <<dbVars, call, desk, act, signals, taken, late, posted, runs,
                 cleared>>

\* risk_score, update_case_status, finalize and deliver are awaited without a
\* try: an ActivityError there fails the whole execution.
WorkflowFails ==
  /\ wf.at \in {"risk", "park", "finalize", "deliver"}
  /\ act[wf.at].st = "failed"
  /\ wf' = [wf EXCEPT !.at = "failed"]
  /\ UNCHANGED <<dbVars, call, desk, act, signals, taken, late, posted, runs,
                 cleared>>

\* The runbook's `temporal workflow reset --type FirstWorkflowTask`: a new run
\* from the beginning, to which Temporal reapplies the old run's signals.
Redrive ==
  /\ Redrives
  /\ wf.at = "failed"
  /\ LaunchRun(signals)
  /\ UNCHANGED <<dbVars, call, desk, late, posted, cleared>>

------------------------------------------------------------------------------
Workflow ==
  \/ DocumentsFetched \/ DocumentExtracted \/ EvidenceGathered \/ RiskScored
  \/ Parked \/ TakeDecision \/ Finalized \/ Completed \/ WorkflowFails

Worker(a) == Begin(a) \/ Commit(a) \/ Report(a)

Next ==
  \/ \E c \in Calls :
       InsertCase(c) \/ StartWorkflow(c) \/ RecordCreated(c) \/ CallFails(c)
  \/ \E r \in Reviewers :
       \/ \E d \in Decisions : CheckStatus(r, d)
       \/ RecordDecision(r) \/ AuditDecision(r) \/ SignalWorkflow(r)
       \/ DecisionFails(r)
  \/ \E a \in Activities :
       \/ Worker(a)
       \/ AttemptFails(a) \/ AttemptAbandoned(a) \/ ScheduleToClose(a)
  \/ \E w \in late : LateCommit(w)
  \/ Workflow
  \/ Redrive

Spec == Init /\ [][Next]_vars

\* A worker polls the queue and Temporal's timers fire; nobody is obliged to
\* call the API, to decide a case or to reset a workflow.
Fairness ==
  /\ WF_vars(Workflow)
  /\ \A a \in Activities : WF_vars(Worker(a))
  /\ \A a \in LongActivities : WF_vars(ScheduleToClose(a))

FairSpec == Spec /\ Fairness

------------------------------------------------------------------------------
(* Properties                                                              *)

\* A case is approved without a human only on evidence gathered in that very
\* run: both documents, a valid extraction, a detected and compared face, a
\* screen that ran and found nothing, and a policy that asks for no review.
\* A screen or face match that failed never counts as a clean one.
AutoApprovalEvidenced ==
  wf.auto =>
    /\ case.docs = DocTypes
    /\ Succeeded("extract") /\ act["extract"].out = "valid"
    /\ Succeeded("face") /\ act["face"].out = "score"
    /\ Succeeded("screen") /\ act["screen"].out = "clear"
    /\ Succeeded("risk") /\ act["risk"].out = "clear"

\* Whatever is retried, duplicated or reset, the decision on the row is one a
\* reviewer recorded and the audit trail already shows, or an approval that
\* some run cleared automatically.  No case is ever rejected automatically.
Authored(d) ==
  /\ \E v \in recorded : v.decision = d
  /\ <<"review_decision_recorded", d>> \in trail

DecisionAuthored ==
  /\ case.decision = "rejected" => Authored("rejected")
  /\ case.decision = "approved" => cleared \/ Authored("approved")

\* Of the decisions delivered to a run, the first that is not an escalation is
\* the one applied, however early or late it came; nothing is skipped.
FirstVerdictWins ==
  wf.decision # "none" /\ ~wf.auto =>
    /\ taken > 0
    /\ signals[taken] = wf.decision
    /\ \A i \in 1 .. (taken - 1) : signals[i] = "escalated"

\* Within one run no webhook ever announces a decision the case does not have.
WebhooksTellTheDecision == posted \subseteq {case.decision}

\* Once the workflow has moved past finalize_case, the row holds the very
\* decision the workflow delivers and returns.
ReportedDecisionIsStored ==
  wf.at \in {"deliver", "completed"} =>
    case.status = wf.decision /\ case.decision = wf.decision

\* The case seen through its row, its review decisions and its announcements.
Lifecycle == INSTANCE CaseLifecycle WITH
  status <- case.status,
  decision <- case.decision,
  opinions <- {v.decision : v \in recorded},
  announced <- posted

\* One run of the workflow moves the row only as CaseLifecycle allows, and no
\* webhook ever announces a decision the case does not have
\* (activities.py:361-375 and 452-546).
ImplementsLifecycle == Lifecycle!Spec

\* The same case with its documents, its trail and its announcements.
Register == INSTANCE CaseRegister WITH
  status <- case.status,
  decision <- case.decision,
  docs <- case.docs,
  opinions <- {v.decision : v \in recorded},
  audited <- {d \in Decisions : <<"review_decision_recorded", d>> \in trail},
  announced <- posted

\* However many runs a case has, and whatever commits late, it changes only as
\* CaseRegister allows: no verdict reaches the row or a webhook without its
\* support, and no webhook hears of one before the case is decided
\* (finalize_case before deliver_webhooks, kyc_case.py:276-305).
ImplementsRegister == Register!Spec

\* A second POST /cases that gets to start_workflow can start a run that does not
\* know the signals of the one before; a reset passes them on.  So either there
\* was one run, or one request has got that far and the other runs are resets.
Unstarted(c) == call[c] \in {"idle", "created", "replayed"}

NeverReplaced ==
  runs <= 1 \/ \E c \in Calls : \A b \in Calls \ {c} : Unstarted(b)

\* What has become of the verdict at place i of the signals: it still waits to
\* be popped, or it is the one applied (i = taken) or came after it, or a later
\* run cleared the case by itself and asked nobody.
HeldAt(i) ==
  IF wf.decision = "none" THEN i > taken
  ELSE IF wf.auto THEN runs > 1
  ELSE i >= taken /\ signals[taken] = wf.decision

\* A verdict acknowledged with 200 (main.py:544-579) is not lost on the way to
\* the row, also when the run fails and is reset: that very verdict is the one
\* applied, or still waits among the signals, or lost to an earlier verdict of
\* the run.  The one exception is a reset run whose evidence, gathered anew,
\* clears the case: it approves without popping a signal (kyc_case.py:221-231),
\* and an acknowledged rejection stays in the queue for good.
AcknowledgedIsHeld ==
  NeverReplaced => \A r \in Reviewers :
    desk[r].at = "accepted" /\ desk[r].decision \in Verdicts =>
      \E i \in 1 .. Len(signals) : signals[i] = desk[r].decision /\ HeldAt(i)

\* A case is left open without a workflow in two ways only: none was started
\* and no client was told that one was (main.py:209-216), or it failed, which
\* an operator sees and resets (kyc_case.py:276-308).
OpenCaseIsWorked ==
  case.status \in {"pending", "needs_review"} /\ ~Running =>
    \/ wf.at = "none" /\ \A c \in Calls : call[c] \notin {"started", "answered"}
    \/ wf.at = "failed"

\* A started run never hangs: whatever fails, it gets to waiting for a reviewer
\* or it closes, because every activity has an attempt or a time limit.
RunSettles == Running ~> wf.at \in {"await"} \union ClosedSteps

\* A verdict delivered to a run is never lost on the way, even when it arrives
\* before the workflow waits for it: the run closes.
VerdictClosesRun ==
  (Running /\ \E i \in 1 .. Len(signals) : signals[i] \in Verdicts) ~> ~Running

------------------------------------------------------------------------------
(* Inductive invariants, for KycCaseProofs                                 *)

\* A verdict that may be written, delivered or announced.
Justified(d) == d \in Verdicts /\ (Authored(d) \/ (d = "approved" /\ cleared))

\* A decision handler signals only what it has recorded and audited.
DeskRecorded ==
  \A r \in Reviewers :
    /\ desk[r].at \in {"recorded", "audited"} =>
         [by |-> r, decision |-> desk[r].decision] \in recorded
    /\ desk[r].at = "audited" =>
         <<"review_decision_recorded", desk[r].decision>> \in trail

SignalsAuthored == \A i \in 1 .. Len(signals) : Authored(signals[i])

\* Before the finalize activity is scheduled the run has a justified verdict.
RunJustified ==
  act["finalize"].st # "idle" \/ act["deliver"].st # "idle" =>
    Justified(wf.decision)

LateJustified == \A w \in late : w[1] # "park" => Justified(w[2])

RowJustified == case.decision # "none" => Justified(case.decision)

\* Every verdict held anywhere on its way from a reviewer's request to the row,
\* in a handler, a signal, a run or an abandoned write, is justified.
Provenance ==
  /\ DeskRecorded
  /\ SignalsAuthored
  /\ RunJustified
  /\ LateJustified
  /\ RowJustified

\* A call that has got past the insert, and any run, has a row to work on.
RowExists ==
  /\ \A c \in Calls : call[c] \in {"created", "replayed"} => case.status # "absent"
  /\ wf.at # "none" => case.status # "absent"

\* What the position of a run says of the documents and of the extraction.
Reached ==
  /\ wf.at = "extract" => "id_document" \in case.docs
  /\ wf.at \in {"evidence", "risk"} =>
       /\ case.docs = DocTypes
       /\ Succeeded("extract") /\ act["extract"].out = "valid"
  /\ wf.auto => wf.at \in {"finalize", "deliver", "completed", "failed"}

\* The risk activity runs on evidence that no longer changes, and scores it
\* clear only if a face score and no hit were passed.
Scored ==
  /\ act["screen"].st \in {"committed", "done"} =>
       act["screen"].out \in {"clear", "hit"}
  /\ act["risk"].st \in {"committed", "done"} =>
       act["risk"].out \in {"clear", "review"}
  /\ wf.at \in {"fetch", "extract", "evidence"} => act["risk"].st = "idle"
  /\ act["risk"].st # "idle" => Closed("face") /\ Closed("screen")
  /\ act["risk"].st \in {"committed", "done"} /\ act["risk"].out = "clear" =>
       FaceScorePassed /\ ~HitsPassed

\* Until the first run parks, or if it clears the case, the case was never under
\* review and nobody has decided it.
Unparked ==
  /\ runs = 0 => wf.at = "none"
  /\ runs <= 1 /\ (wf.at \in {"none", "fetch", "extract", "evidence", "risk"} \/ wf.auto) =>
       /\ act["park"].st = "idle"
       /\ case.status # "needs_review"
       /\ \A w \in late : w[1] # "park"
       /\ \A r \in Reviewers : desk[r].at = "idle"

------------------------------------------------------------------------------
(* What the documentation says and the code does not keep                  *)

\* Restarting for the same case is "a no-op" (services/intake/temporal.py): a
\* replayed POST /cases never puts a decided case back under review.
DecidedNotReopened ==
  [][case.decision # "none" => case'.status # "needs_review"]_case
==============================================================================
