# Sentrilog in TLA+

Sentrilog takes KYC cases over an HTTP API, runs each through a Temporal
workflow (document extraction, face match, sanctions screen, risk score), sends
what is not clean to a reviewer, stores the decision, tells the tenant's
webhooks and keeps a hash-chained audit trail. This directory holds TLA+ models
of it, the TLC configurations that check them and TLAPS proofs of what matters
most. Paths in this file are relative to the repository.

## 1. The system

| Component | State it keeps | Operations | Talks to | What makes it correct |
|---|---|---|---|---|
| `kyc_case` workflow (`services/pipeline/workflows/kyc_case.py`) | position, signals received and popped, verdict | `run`, the `review_decision` signal | schedules activities; Temporal replays it | no approval without evidence; the first verdict wins, however early it came; it never hangs |
| Activities (`activities.py`) | rows of `cases`, `extractions`, `face_matches`, `sanctions_hits`, `webhook_deliveries` | eight activities, each inside `audited()` | Postgres, S3, Qdrant, the VLM, webhooks | running one again, or late, does no harm |
| Intake and review API (`services/intake/main.py`) | `cases`, `documents`, `review_decisions`, admin tables | create, list, claim, decide, keys, reviewers, webhooks, policy | starts and signals workflows | idempotent creation; a decision is recorded before it is applied |
| Audit chain (`audit.py` in both services, `common/audit_hash.py`) | `audit_log`, one chain per tenant | `record`, `audited`, `verify_chain` | Postgres: advisory lock and sequence | never forks, tells the truth, shows changes |
| Webhook delivery (`deliver_webhooks_activity`) | `webhooks`, `webhook_deliveries` | post, back off, record | endpoints; Temporal's timeout and retry | the log tells the answers; no redelivery |
| Risk policies (`common/policy.py`, `risk_scoring.py`) | `risk_policies`, the version pinned on a case | `PUT /policy`, pin, evaluate | intake and pipeline | versions are immutable and owned; hard stops hold |
| Screening (`services/screening/`) | Qdrant collections, the alias, `list_snapshots` | ingest, activate, screen | Qdrant, Postgres | only whole lists are read; a record names the list it was made with |
| Extraction (`pipeline/ocr.py`, `pipeline/extraction/`) | a row of `extractions` per attempt that stores | box rows, filler repair, MRZ parse and repair, VLM fallback | OCR, Gemini, Postgres | an accepted zone tells the truth; a readable page needs no model; everyone speaks of one document |
| Keys, reviewers, roles (`intake/auth.py`, `main.py:598-757`) | `api_keys`, `reviewers` | look up, check the role, create, revoke | every handler | who is revoked stays out |
| Rate limiter (`intake/ratelimit.py`) | a window per key and process | `check` | the API's handlers | bounded admission, honest Retry-After |
| Live events and console cache (`/events/stream`, `use-case-events.ts`, `use-api.ts`) | one LISTEN per stream, the console's query cache | notify, reconnect, fetch, optimistic update, roll back | Postgres NOTIFY, intake API | the console converges to the rows |
| Pools and tenant isolation (`db.py`, row-level security) | connections, `app.tenant_id` per transaction | `tenant_connection` | Postgres | no leak, no pool deadlock |
| Workers and queues (`worker.py`, `task_queues.py`) | none | poll per tier | Temporal | every queue has a poller |
| Storage, scanning, evaluation, console pages, scripts, observability | single rows or none | single statements, batch jobs, rendering | | see section 7 |

The hard behaviour lies between these parts: Temporal runs activities at least
once and abandons attempts that may still commit; two reviewers race with each
other and with a workflow that is not yet waiting for them; two services append
to one chain; operators move the screening alias under running screens and reset
workflows; a console changes its list ahead of the server while events tell it to
fetch; every step may be the last before a crash.

## 2. Modules

| Module | Models | Checked by |
|---|---|---|
| `CaseLifecycle` | the abstract specification: what may happen to a case row in one run | refinement in `kyc_safety` |
| `CaseRegister` | the abstract specification of a case over all its runs: rows may move back, but nothing is decided or announced without support | refinement in `kyc_runs` |
| `KycCase` | one case end to end: POST /cases, the decision handler, the workflow, Temporal's attempts, the rows | `kyc_*` |
| `KycCaseProofs` | theorems about `KycCase`; one run implements `CaseLifecycle`, any number implements `CaseRegister` | TLAPS |
| `AuditLog` | the abstract specification of the trail: one log per tenant that grows at its end by true statements | refinement in `audit_chain` |
| `AuditChain` | `record()` and `audited()` statement by statement, both services' pools, the verifier, changes by hand | `audit_chain` |
| `AuditChainProofs` | theorems about chains, the trail and changes by hand; the table implements `AuditLog` | TLAPS |
| `WebhookDelivery` | `deliver_webhooks_activity` under Temporal's attempts and clocks | `webhook_*` |
| `WebhookDeliveryProofs` | theorems about `WebhookDelivery` | TLAPS |
| `RiskScoring` | the policy document and `evaluate_policy`, as operators | through `PolicyVersions` |
| `PolicyVersions` | concurrent PUTs, pins and scoring, over `RiskScoring` | `policy_versions` |
| `PolicyVersionsProofs` | theorems about `PolicyVersions` and `RiskScoring` | TLAPS |
| `ScreeningSnapshots` | ingests, the alias, screens | `screening_snapshots` |
| `ScreeningSnapshotsProofs` | theorems about `ScreeningSnapshots` | TLAPS |
| `MrzReading` | `ocr.py`'s rows of boxes and `mrz.py`, as operators on characters | through `DocumentExtraction` |
| `DocumentExtraction` | a printed page, what OCR makes of it, `extract_document` under Temporal's attempts, and who reads which row | `document_extraction` |
| `DocumentExtractionProofs` | theorems about `DocumentExtraction` | TLAPS |
| `ReviewConsole` | the review queue, its event stream and one reviewer's cached list | `review_console` |
| `ReviewConsoleProofs` | theorems about `ReviewConsole` | TLAPS |
| `RequestGate` | look-up, role check, rate limit and the handlers that make and revoke tokens | `request_gate` |
| `RequestGateProofs` | theorems about `RequestGate` | TLAPS |
| `MC*` | instances for TLC | |

Operators a comment marks with `Bug:` are the definitions above or below them
broken the way a slip in the code would break them. No specification uses them.
They exist to show that each property notices such a slip.

### KycCase

`case` is the `cases` row with its documents, `recorded` the `review_decisions`
rows, `trail` the audit events that properties mention, `call` and `desk` the
program counters of the two handlers, `wf` the workflow's position and verdict,
`act` Temporal's record of each activity (state, tries, result), `signals` and
`taken` the decision signals delivered and popped, `late` the abandoned attempts whose
write or posts may still happen, each with its run and its number, `posted` what
webhooks were told, `runs` the executions so far and
`cleared` a history variable. An attempt goes queued, begun (its `.started` row
is written), committed (its transaction is durable), done (Temporal has its
completion), and may end at each of these points. Each `await` of
`kyc_case.py` is an action (`DocumentsFetched` ... `Completed`); each `await` of
a handler that can be interleaved is one too (`InsertCase`, `StartWorkflow`,
`RecordCreated`; `CheckStatus`, `RecordDecision`, `AuditDecision`,
`SignalWorkflow`). A signal may be delivered and the answer to it lost: the reviewer then
sees an error (`errored`) for a decision that will be applied. Results are the outcomes the control flow tells apart. Cases
share only the audit chain and the webhooks, which have modules of their own, so
one case is modelled.

Two abstract specifications say what that amounts to. `CaseLifecycle` is one run: a
decided case stays decided, and webhooks are told that decision. `CaseRegister` is what is left of it when requests are
replayed, workflows reset and transactions commit late: the row may move back to
review and a verdict may replace another, but each verdict on the row or in a
webhook is one a reviewer recorded and the trail shows, or a clearance.

### AuditChain

Each writer goes through `Connect` (pool, BEGIN, tenant), `Lock`, `ReadHead`,
`Insert` (takes an id from the sequence, invisible), `Commit`. An activity
attempt does so for `.started`, then its body commits `BodyOf` transactions one by one,
each on a connection of its own (`Work`, `WorkDone`: `deliver_webhooks_activity` has
one per endpoint, `risk_score_activity` two), and the attempt records the outcome as
it recorded `.started`. The body may raise anywhere (`WorkRaises`), which rolls back
the transaction at hand, unless it was the answer to its COMMIT that got lost, and
leaves those before it durable: `.failed` says that the body raised, not that it did
nothing. `Abort` (a `record()` that fails, a cancelled attempt) and `Crash` may end a
writer anywhere; ids are not given back.
A hash is the tuple it digests, so SHA-256 is assumed to be injective. `Edit`,
`Delete` and `Swap` are changes by the table's owner that `verify_audit_chain.py`
must report. Two it cannot report are not among them: deleting the newest rows, and
editing the newest row with its hash recomputed (there is no external anchor).
What the properties promise they promise tenant by tenant: `tampered` holds the
tenants whose rows somebody changed, and a change in one chain excuses nothing in
another. `Entries` is a chain as `verify_audit_chain.py` reads it, in the order of
ids, which is the `log` of `AuditLog`.

### WebhookDelivery

`attempt[n]` is the coroutine of Temporal's n-th attempt with its local
variables and the seconds it has spent; `abandoned` are attempts Temporal gave up
on, which run on until cancelled, since the activity sends no heartbeats. A post
is answered at once or at its timeout. (httpx limits each phase of a request
rather than the whole; a post that takes longer only makes the timeout of
`webhook_repost` likelier.)

### RiskScoring and PolicyVersions

Scores and weights are integers out of `Unit`, products out of its square; the
code's floats differ in their last bits, which can matter exactly at a threshold
and is beyond the model. A PUT computes its version in the statement's snapshot
and commits later, where the primary key decides; a case's pin is the same kind of
snapshot. `LoadPolicy` filters by tenant because row-level security does: the
query itself does not.

### ScreeningSnapshots

A collection is its list version (one embedding model, no reranker, as shipped). An
ingest is `EnsureCollection`, `UpsertChunk`s, `CheckCount`, `RecordSnapshot`,
`ActivateIngest` or `LeaveInactive`; it may die and be run again, and two may
load one list at once. A screen reads through the alias in `SearchByVector`,
`SearchByPhoneticCodes` and `ResolveAlias`, then stores. Which entries a name is
near to is given by constants. With `Careless = FALSE` an operator activates what
`--list` shows; `--activate` itself takes any name, a hazard the project lists.
The collection from before snapshots, whose points carry no version, is left out.

### MrzReading and DocumentExtraction

`MrzReading` works on sequences of characters because its subject is which
character stands where: `Rows` and `AssembleMrzLines` turn boxes into two lines,
`FitFiller` puts lost filler back into the longest run, `ParseTd3` checks digits
and dates, `ParseTd3Tolerant` tries the look-alike readings of a position and
accepts one winner per field. The folds of the community modules replace
recursion.

`DocumentExtraction` starts from an `identity`, printed by `BuildTd3` (the
evaluation's `build_td3`, an independent definition of the format). `misread`
holds up to `MaxDamage` characters OCR takes for another: one that looks like it
(`LookAlikes`, from `eval/extraction.py`) or, for a digit, another digit (`Slips`).
Filler lost from a line and a line cut in two boxes are chosen at `Upload`; OCR gives
the same boxes whenever it reads the same photograph. The presigned PUT can be used
again for 900 s, and a replayed `POST /cases` hands out a fresh one: `Overwrite` puts
another page (`shown`) under the key, before, between or after the attempts, each of
which fetches what lies there by then (`seen` is the number of the upload it read).

`attempt` and `held` are the coroutines of Temporal's attempts and the result each
holds, `rows` the table of extractions, `output` what the workflow got, `facts` what the
policy judged. An attempt that has timed out runs on and may insert later. `PolicyRows`
are the row `_load_document_facts` picks, the newest valid one; `ReviewerRows` the one
the reviewer's page picks, by the greatest id, and ids are random: any row.
`EvidenceAgrees` says what comes of that. The rows of one photograph whose zone was read
agree. Those of two need not: if an attempt that was given up had read one and the
workflow has its answer from the other, the reviewer may be shown the first, and
the policy judges it if its row came last. What a model of last resort answers may
differ from call to call, and then rows need not agree either.

### ReviewConsole

`queue` is the queue in the database, `cache` what is shown, `fetch` the query's
request (sent, then answered with the rows it read), `mutation` each claim or
decision from its optimistic change to its settling, `stream` and `events` the
SSE connection and the frames on their way. `Commit` is a change with its NOTIFY,
which reaches the streams that listen at that moment. (A new risk score, which the
list shows too, is stored without one, `activities.py:431-436`; it is left out.) The
server's LISTENing connection may be lost while the HTTP stream stays up
(`LoseListener`): keep-alives go on, nothing listens again, and such a `deaf` stream
lasts until something else ends it. `Invalidated` and
`JoinsLate` are TanStack Query's rules: an invalidation gives up a fetch in flight
and starts over, except the first load, which it joins. `missed` remembers why
a change that has happened may never be read: committed with nothing
listening, lost with a connection, joined a first load that had read already, or its
fetch failed three times. The next read of the queue clears it. A 401 ends the
session and with it the console.

### RequestGate

A request is looked up (`Resolve`, awaited), let in or refused (`Admit`,
`Refuse`: the role check and `check()` are one synchronous step) and handled
(`Handle`). Between these others run, so a handler may act for a token revoked
meanwhile. `credential` is the two tables, `windows` the limiter's dictionary,
`admitted` a history of times. A tick is a fraction of a second, since the
limiter's clock is finer than Retry-After. A request turned away with 401 or 403
leaves no trace and is not a step.

## 3. Runs

| Run | Instance | Shows |
|---|---|---|
| `kyc_safety` | 1 request, 2 reviewers with 1 decision each, 2 attempts, 1 run | the row moves, and webhooks are told, as `CaseLifecycle` allows; approvals are evidenced; first verdict wins; the result is the stored decision |
| `kyc_live` | 1 reviewer with 2 decisions, any documents, 1 attempt | a run settles; a verdict signalled closes it; an open case without a workflow was never acknowledged or has a failed run |
| `kyc_runs` | 2 requests, 2 runs, resets, late writes | every step is one of `CaseRegister`, so authorship and evidence survive replays, resets and writes of abandoned attempts; the very verdict acknowledged with 200 is applied, still waits, or lost to an earlier one of its run, also over a reset, unless the reset run clears the case by itself |
| `kyc_replay` | 2 requests, 2 runs | *violated*: a replay never reopens a decided case |
| `audit_chain` | 4 writers, a body of 2 transactions, 2 chains, 2 services, pools of 1, one change by hand | chains verify; changes are reported; the trail tells the outcome; a change in one chain spoils nothing in the other; the table implements `AuditLog`, so rows appear in order; nobody waits for ever |
| `webhook_delivery` | 2 endpoints, 2 attempts of 2 tries, 1 lost worker | the delivery log is true, and complete when the activity says so; delivery ends |
| `webhook_repost` | the code's 3 attempts, 3 tries, 10 s, 30 s | *violated*: an endpoint that acknowledged is not sent the decision again |
| `policy_versions` | 3 PUTs, 2 tenants, 2 cases, 2 policies, 8 kinds of evidence, 2 days | versions stay their tenant's; pins hold; worse evidence is not cleared |
| `screening_snapshots` | 2 lists of 2 chunks, 3 ingests, 2 screens, both methods, limits of 1 | only whole, recorded lists are read; hits name their list; nothing listed is missed |
| `document_extraction` | 2 holders, up to 2 damages to a page, 2 attempts of 2 calls of the VLM, 1 replaced photograph | an accepted zone has true dates and at worst a blind number; a readable page needs no model; workflow, policy and reviewer speak of one document for each photograph, and of two only where attempts read two |
| `review_console` | 1 case, 2 mutations, 2 changes by others, 2 faults | an unconfirmed claim is temporary; the console converges |
| `request_gate` | 2 tenants, 3 keys, 1 reviewer, 2 requests, limit 2, window of 2 s | what a window's boundary lets through; Retry-After is enough; a tenant that has revoked its last key has none ever after |

Why the bounds are enough. Two of a kind exhibit every pairwise race (two
reviewers, two requests, two writers of one chain, two PUTs, two ingests of one
list), and a third in another tenant, service or list shows that they do not
disturb each other. Two attempts tell a retry from a first and a last attempt.
Pools of one connection and limits of one result are the tightest the code could
be given. `MaxRuns`, `MaxSubmits`, `MaxLosses` and `LastDay` bound counters that only
repeat what the first two values did. In `kyc_safety` reviewers are
interchangeable and in `request_gate` requests, hence their symmetries; runs of
liveness use none. Deadlock is checked in `request_gate`; elsewhere a case is
closed, a list ingested or a delivery done, and then the system rightly stops.

- `document_extraction`: the two holders bring what the algorithms are sensitive to:
  characters that are alike modulo 10, digits read as Z, filler in the number, a
  birth in the current year, a name that leaves four characters of filler.
  Every position under a check digit may be misread, `SlipBy` = {1, 5} holds the
  distance that weights 7, 3, 1 do not see and one that they do, and `Lost` removes
  two characters. Two damages are enough for one to hide the other. Pages with
  no misread character, or with the ones in `RetriedWith`, are read by two
  attempts and may be replaced once, by the other holder's, the others are read by
  one (`AttemptsAllowed`, `Overwrite`): damage and retries meet only through the
  result an attempt holds. Two uploads and two attempts are what it takes for the
  attempt the workflow waits for and an abandoned one to have read different pages.
- `review_console`: two mutations are the least whose rollbacks cross; two changes
  by others let one be seen and one be missed; two faults let a stream whose listener
  is lost be cut, or a request fail again. Cases are independent in the cache but for the list a rollback
  restores, so one suffices: with it `previous` already holds the other mutation's
  row.
- `request_gate`: two keys and a reviewer of one tenant and a key of another;
  two requests race, so that one made with a key, or by the reviewer, can be under way
  when the last key goes. The limit of 2 in 4 ticks and `MaxClock` = 9 give two full
  windows and a third begun, with two ticks to a second so that a cut second
  shows. `OneThingAtATime` separates the two questions, since they do not meet:
  who may pass is explored at one instant, counting over time for one token.

Within one run of a workflow `CaseLifecycle` is implemented; across several it is
not, which `kyc_replay` shows, and `CaseRegister` is. `AcknowledgedIsHeld` excepts runs
that a second request has replaced (`NeverReplaced`): such a run starts without the
signals of the one before. It states a second exception, which the runs reach: a
rejection is acknowledged, the run fails in park or finalize, and the reset run gathers
clean evidence and approves (`kyc_case.py:221-231`) without popping a signal. In
`kyc_runs` it speaks of resets of a run that one of the
two requests started while the other has not got to `start_workflow`.
`OpenCaseIsWorked` holds only without late writes, which may put a decided row back
under review; `kyc_live` has it for one run, section 6 for any number.

## 4. Fairness

- `KycCase!Fairness`: a worker polls the case's queue and runs what it can, the
  workflow makes its steps, Temporal's `schedule_to_close` fires for the two
  activities that are retried without limit. Nobody has to call, to decide, to
  upload or to reset.
- `AuditChain`: statements that can run do run (Postgres grants the lock to a
  waiter, the pool hands out what is free). Nobody has to crash or raise.
- `WebhookDelivery`: a coroutine runs on, a post ends by its timeout, Temporal's
  timers fire and it starts the attempts its policy allows.
- `ReviewConsole`: requests sent are answered or fail, frames on a connection that is
  not cut arrive, a mutation answered settles, and a console whose stream is down
  connects again (`use-case-events.ts:92-97` tries for ever). Nobody has to claim, to
  decide or to change a case, and nothing ends a stream whose listener is lost.

Every one is weak fairness of steps the scheduler owes; no strong fairness is
needed. `PolicyVersions`, `ScreeningSnapshots`, `DocumentExtraction` and
`RequestGate` check safety only.

## 5. Disagreements with the documentation

| Run | The repository says | The code does |
|---|---|---|
| `kyc_replay` | starting again is a no-op (`services/intake/temporal.py:44-46`) | only while the first execution is open; afterwards a second one starts |
| `webhook_repost` | no redelivery to endpoints that succeeded (`activities.py:140-143`) | 33 s of tries do not fit the 30 s timeout; the retry posts to all |

Others have no run of their own. The models have the behaviour, and the properties
are worded so that they hold with it:

- Every `needs_review` case has a live workflow (`docs/RULES.md:29`). An activity
  awaited without a handler fails the execution and leaves the row
  (`kyc_case.py:276`).
- A re-drive does not double-decide (`docs/runbooks/postgres-unavailable.md:99-101`).
  The evidence is gathered again and may decide the other way.
- A decision that cannot be applied is answered 409, "recorded but not applied"
  (`main.py:560-570`), from which a reviewer takes 200 for the opposite. A run reset
  later may clear the case without asking: the exception in `AcknowledgedIsHeld`.
- A clear screen says which list it ran against (`activities.py:319-321`). The alias
  is resolved after the queries went through it.
- A re-read document number is caught by its check digit (`ocr.py:5-8`). Characters
  of one value modulo 10 are not told apart: `BlindPairs` in `DocumentExtraction`.
- No wrong date is accepted (`docs/RULES.md:48`). A digit five off and a 2 or 7
  taken for the other cancel out in both sums (`FiveApart`): 830227 read as 330Z27
  is accepted as 27 July 1933.
- The stream survives an interruption (`use-case-events.ts:30-33`). A change
  between a drop and the next LISTEN is never fetched, because reconnecting
  invalidates nothing, and when the server's own LISTEN is lost nobody reconnects:
  the exception `unheard` of `Converges`.

## 6. Proofs

| Module | Theorem | Says, for every value of the constants |
|---|---|---|
| `KycCaseProofs` | `TypeCorrect` | `TypeOK` |
| | `VerdictsHaveProvenance` | `Provenance`, an inductive invariant |
| | `DecisionsAreAuthored` | `DecisionAuthored` |
| | `AutoApprovalsAreEvidenced` | `AutoApprovalEvidenced` |
| | `FirstVerdictIsApplied` | `FirstVerdictWins` |
| | `ReportedDecisionsAreStored` | `ReportedDecisionIsStored`, if `~LateWrites` |
| | `WebhooksAreTruthful` | `WebhooksTellTheDecision`, if `MaxRuns = 1` and `~LateWrites` |
| | `OneRunImplementsLifecycle` | `ImplementsLifecycle`, the refinement, if `MaxRuns = 1` and `~LateWrites` |
| | `CaseImplementsRegister` | `ImplementsRegister`, the refinement over all runs, without a condition |
| | `AcknowledgedVerdictsAreHeld` | `AcknowledgedIsHeld` |
| | `OpenCasesAreWorked` | `OpenCaseIsWorked`, if `~LateWrites` |
| `AuditChainProofs` | `TypeCorrect` | `TypeOK` |
| | `ChainsVerify` | `ChainIntact` |
| | `ChainsOnlyGrow` | `AppendsAtTheEnd`, an action property |
| | `OutcomesAreTrue` | `TrailTellsOutcome` |
| | `TamperingIsEvident` | `TamperEvident` |
| | `TableImplementsLog` | `ImplementsLog`, the refinement |
| `WebhookDeliveryProofs` | `DeliveryInvariant` | `DeliveryInv`, an inductive invariant |
| | `RowsAreTrue` | `RowsTellAnswers` |
| | `TypeCorrect` | `TypeOK`, with the bound on an attempt's time |
| `PolicyVersionsProofs` | `PolicyInvariant` | `PolicyInv`, an inductive invariant |
| | `TypeCorrect` | `TypeOK` |
| | `VersionsAreOwned` | `VersionsOwned` |
| | `PinsAreCurrent` | `PinIsCurrent` |
| | `AttemptsUsePinnedPolicy` | `ScoredUnderPinned` |
| | `WorseEvidenceIsReviewed` | `WorseIsNotCleared` |
| `ScreeningSnapshotsProofs` | `SnapshotInvariant`, `ScreenInvariant` | `SnapshotInv`, and `ScreenInv` if `~Careless`: inductive invariants |
| | `TypeCorrect` | `TypeOK` |
| | `SnapshotsAreReady` | `SnapshotReady` |
| | `HitsNameLists` | `HitsNameTheirList` |
| | `ScreensAreComplete` | `ScreensMissNothing` |
| `DocumentExtractionProofs` | `ExtractionInvariant` | `Typed` and `ExtractionInv`, an inductive invariant |
| | `TypeCorrect` | `TypeOK` |
| | `EvidenceIsOneDocument` | `EvidenceAgrees` |
| | `FitFillerFits` | a line of any length becomes one of 44, and one of 44 is kept |
| | `NumberIsKept` | an accepted document has the number that was read, and it passed its check digit |
| | `MisreadNumberIsCaught` | of an accepted number one misread character is worth the same modulo 10 as the printed one |
| | `CompositeAddsNothing` | lines that differ in the number and share its check digit are valid together |
| | `RepairIsUnambiguous` | a repaired field passes and changes fewer characters than any other reading that passes |
| | `AcceptedDatesExist` | the dates of an accepted document are days, of the centuries the code allows |
| `ReviewConsoleProofs` | `TypeCorrect` | `TypeOK`, with the bound on events |
| | `PlaceholdersAreTemporary` | `PlaceholderIsTemporary` |
| `RequestGateProofs` | `TypeCorrect` | `TypeOK` |
| | `Burst` | `BurstBounded` |
| | `LastKeyFinal` | `LastKeyRevokedIsFinal`, an action property |
| | `RetryAfterSuffices` | `RetryAfterIsEnough` |

*Assumptions.* Only the named `ASSUME`s of each module: bounds are natural numbers,
maps go from writers to tenants and services, a policy document passes the
validators, a list is a nonempty sequence of chunks. Webhooks and listed entries
are finite sets, there is at least one webhook and at least one case on the
queue, and characters are misread on the page. Nothing else needs to be finite.

*Conditions.* Four theorems about `KycCase` state a condition and are false without
it. A transaction that outlives its attempt (`LateWrites`) may write a status over
the stored decision, which also reopens a case whose run is over. A second run (`MaxRuns > 1`), started by a replay or a reset,
tells the webhooks its own verdict and moves a decided row: `kyc_replay` shows it.

*Not among the runs' properties.* `DecisionAuthored`, `WebhooksTellTheDecision` and
`AppendsAtTheEnd` are proved and not given to TLC a second time: `ImplementsRegister`,
`ImplementsLifecycle` and `ImplementsLog`, which the runs check, say of each step what
these say of the states or rows it leads to. `Provenance` is the invariant the
proofs of the first two refinements rest on.

*Decisions.* `DecisionAuthored` speaks of the row alone and is not inductive: the
row is written from a run's verdict, which came from a signal, which came from a
handler. `Provenance` says of every place a verdict rests on that way (handler,
signal, run, abandoned write, row) that a reviewer recorded and audited it or a run
cleared it. Facts only grow (`Growth`), so a step that does not touch a place
does not disturb it (`Undisturbed`); one lemma per group of actions does the rest.
`TypeOK` needs `Provenance` for the status that finalize_case writes, so both are
proved together in `ProvenanceStep`.

*Automatic approval.* `AutoApprovalEvidenced` needs to know what a run's position
implies (`Reached`) and that the risk activity ran on closed evidence and was
clear only with a face score and no hit (`Scored`).

*First verdict.* `VerdictInv` adds what a run has popped before it holds a verdict:
escalations only. A signal that arrives is appended behind what was popped, so no
later one overtakes the first.

*Outcome and refinement.* `Placed` ties the run's position to the activities that
can be under way (park, finalize and deliver never overlap), `Stored` says that
from finalize_case's commit on the row holds the verdict, `Announced` that what
was posted is that verdict, and `RowFollows` which status the row has at each
position. With them each action maps to a step of `CaseLifecycle` or to a
stutter (`FinalizeRefines`, `ParkRefines`, `DeliverRefines`, `RecordRefines`, `StepRefines`).

*All runs.* `CaseImplementsRegister` needs no condition because `CaseRegister` asks of a
write only what outlives a run: `RegisterInv` collects the support of every verdict
(`Provenance`), the evidence of clearances, the order of park, finalize and deliver
(`Placed`), and that decisions under way are on a case that has been to review and a
verdict is delivered after one was stored (`Ready`). `CallRegisters`,
`DeskRegisters`, `WriteRegisters`, `WorkerRegisters` and `WorkflowRegisters` map the
steps, late commits included.

*Acknowledgements.* `Tracked` ties the signals to the answers reviewers got, and the
runs to the requests that started them: an accepted verdict is among the signals,
which a reset passes on and only a run started afresh does not have; a request that
starts one when no other has got to `start_workflow` starts the first. `VerdictInv` says
that what was popped before a run's verdict are escalations, so that the place of the
accepted one is behind what was popped, or the run has that verdict or an earlier one.
There remains a run that decided by itself: if it is the first, `Unparked` says that the
case was never under review and no reviewer was answered. `OpenCasesAreWorked`
adds that a completed run left its verdict on the row.

*Chains.* `IInv` says that one writer at a time is between lock and commit,
`IdsInOrder` that ids in the table are below the sequence and that the one a writer
holds is above all rows of its chain, and `Chains` that the head a writer holds is
still the last row and that chains nobody changed verify. Adding a row above all
others that links to the last one keeps its chain (`AppendKeepsChain`), a change by
hand moves its own (`ChainMoves`, `OthersKeep`), and steps that change no row keep the
rest (`QuietChains`). `ChainsOnlyGrow` needs the order of ids alone, which survives a
deleted or moved row.

*Trail.* `Trail` says, of each tenant whose rows nobody changed, that each writer has
at most one row of an event (`RowsOnce`), that what it is about to record is not on
record yet (`Pending`), and that the outcome it records is that of its body: all of
its transactions durable, or raised. `Bodies` says that a transaction under way is
one the body has left, and `BodyMoves` that a step of a writer counts at most its own.

*The log.* That each step appends to a sequence needs a count where the table has
ids: `Ranks` says that the positions of a chain's rows are 1 to their number, one row
at each, whatever ids roll-backs left out. A commit puts its row above all others
(`IdsInOrder`), so it takes the next position and moves none (`RanksAppend`,
`EntriesAppend`); `Trail` gives what its writer may say (`MaySayNext`,
`WorkIsAnnounced`), and a change by hand is the abstract `Distrust`.

*Changes by hand.* `Scarred` says of a changed chain that some row in it does not
match its hash, or names a predecessor that is not there and can no longer
appear before it. Appending, the only thing writers do, never heals such a row.

*Webhooks.* `DeliveryInv` follows one attempt through its loop: it has a row for
exactly the webhooks it is done with, and of the one at hand at most an answer no
row tells of yet. Attempts only add to rows and answers of their own number, so
the abandoned ones disturb nobody (`OthersStay`). `Paced` bounds the time spent by
the tries behind and ahead, with products as named facts (`ProductMonotone`).

*Policies.* `PolicyInv` says that a tenant's versions are 1 to their number, so that
MAX(version) + 1 is free, and that a PUT in flight has computed at most that. Of two
that computed the same number the primary key takes one. Rows are never
changed, so what `Judged` says of an attempt when it scores stays true.
`WorseEvidenceIsReviewed` is a fact of the evaluator: each of its conditions is
monotone in the evidence (`CombinedMonotone`, `ExpiryMonotone`), except that a policy
which does not look at expired documents may still look at those about to
expire; the property says so.

*Screening.* `SnapshotInv`: points of a collection are entries of its list, a
recorded collection is whole and a re-ingest only writes points that are there, the
alias points at a recorded one. `ScreenInv` then says of a screen at each stage
that it has a candidate exactly if the list its method read has a match, though
each method may have read another list.

*Extraction.* What two lines of characters parse to is left opaque but for one fact:
it is one document at the most, because a repair is accepted only if exactly one
parse passes (`RepairUnique`, `ParseUnique`). So if the zone of a photograph can be
read at all, every attempt that fetches it reads the same, and otherwise none reads
it (`ReadingResults`). What lies under the key changes, so `HeldIsRead` speaks of
attempts that have `seen` the same upload and ties results to the boxes only while
their upload is the present one (`PutStep`). `ExtractionInv` carries this to the rows,
the workflow's result and the policy's facts: the row the policy reads is of the
photograph the workflow's answer is from, or stored behind that answer's row by an
attempt that had read another one (`ScoreStep`). A result that needs no review has a document: the
model's first usable answer exists (`LeastNatural`), and so does the newest valid row
once the workflow has a clean result (`LastPlace`).

*Check digits.* `Sums` and `Candidates` are recursive functions over the places of a
line. That each exists, and what follows place by place, is shown by the least
place at which it fails (`LeastNatural`), which is induction without the library's
induction theorems. Where two lines agree their sums keep their distance
(`SumsKeepApart`), and 7, 3 and 1 have no factor in common with 10, so one
substitution moves the check digit unless the values agree modulo 10
(`OneSubstitution`). A repair never touches the nine characters of the number
(`RepairedLine`), hence `NumberIsKept` and `MisreadNumberIsCaught`; where the number's
check digit agrees, so do the sums at its end modulo 10, and with the same tail
those of the composite (`SameTail`), hence `CompositeAddsNothing`.

*Console.* `PlaceholderIsTemporary` is its own induction over well-typed states: what
puts a `you` on the list leaves a mutation or a fetch outstanding, and each ends by
handing over to the other or to a list read from the database. `TypeOK` needs
two strengthenings: the events on their way are at most the changes by others and
the mutations answered (`EventsCounted`), and a remembered list is one that was shown.

*Rate limit.* `BurstBounded` speaks of the history of admissions alone. `LimiterInv`
ties it to the limiter's window (`Spaced`): times are in order, the window's start
lies between the oldest request it counts and the newest, and whatever is
`Limit` or more requests older than the ones it counts is a window older than its
start. Of `2 * Limit` times the first is then a window before the last. An
admission that is counted or opens a window keeps this (`AdmittedSpaced`), and
so do forgetting the oldest time (`Pushed`) and a restart. `RetryAfterSuffices`
rests on the arithmetic of rounding up (`SecondsCover`) at the moment of the
refusal (`RefusalTold`), and nobody changes what a client was told.

*Last key.* A token is made or revoked only through `Create` and `Revoke`, which need a
request of the same tenant past the look-up for an operation that takes a key. Such
a request was made with one (`AsksAsItMay`, an invariant of its own, for the tenant's
reviewers may be at work), and getting past the look-up took a good row. A tenant
without a key has neither, so no step brings one about: by cases over `Next`.

*Model-checked only.* Liveness under fairness, which is outside the prover's reach:
`RunSettles`, `VerdictClosesRun`, `RecordsFinish`, `DeliveryEnds`, `Converges`. Of
document extraction `AcceptedDatesAreTrue`, `NumberMisreadIsCaught` and
`ReadablePagesNeedNoModel`: they speak of a printed page rather than of two lines, so they
also depend on how boxes are sorted and joined (`Rows`, `RowText`: sorts and folds of
the community modules, which are induction over data), and they are true for the
printed identities of the instance, for filler lost where the longest run takes it
back and for bounded damage. The theorems above are their part that holds for all
lines. The two violations are runs.

## 7. Not modelled

- What face match and the reviewer's page fetch from under the key (`activities.py:259`,
  `main.py:428`), each at a time of its own: of a replaced photograph they may see
  what extraction did not.
- Name matching, OCR, the VLM and face embeddings are functions of data or services;
  the models take their results as given. The face match row is written as the
  extraction row is.
- The console's other queries (detail, dashboard, admin lists): fetched and
  invalidated like the queue, but nothing changes them ahead of the server.
- Storage, scanning, evaluation statistics, console pages, observability, settings,
  load tests, deployment: I/O, batch statistics or rendering without shared
  state. The tiers of task queues divide capacity; a queue without a poller is a
  deployment's choice.

## 8. Open

1. **Composition**: `KycCase` with the delivery of `WebhookDelivery`: what endpoints hear
   when two runs of one case both deliver.
2. **Rate limiter**: an upper bound on admissions of one key across several processes,
   each with windows of its own.
3. **Layout**: that rows of boxes give the printed lines for every page whose rows are
   apart, which would carry the theorems about lines over to pages.
4. **Name matching**: the phonetic codes and the blend of scores, as functions, so
   that `ScreensMissNothing` need not take nearness from constants.
