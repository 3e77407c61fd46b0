--------------------------- MODULE WebhookDelivery ---------------------------
(***************************************************************************)
(* deliver_webhooks for one decided case: Temporal's attempts of the       *)
(* activity, each posting to every endpoint the tenant had enabled when it *)
(* began, one after the other and up to Tries times, while administrators  *)
(* register and disable endpoints.                                         *)
(*                                                                         *)
(* Time is the seconds an attempt has spent waiting on endpoints and       *)
(* backing off.  Temporal gives up on an attempt that exceeds StartToClose *)
(* or whose worker is gone; the coroutine it gave up on may be cancelled   *)
(* or run on, since the activity sends no heartbeats.                      *)
(***************************************************************************)
EXTENDS Naturals, FiniteSets

CONSTANTS
  Hooks,         \* the tenant's webhooks, registered or to come
  MaxAttempts,   \* maximum_attempts of _SHORT_RETRY_POLICY (3 in the code)
  Tries,         \* _WEBHOOK_MAX_ATTEMPTS (3)
  PostTimeout,   \* seconds the client waits for an endpoint (10)
  Backoff,       \* _WEBHOOK_RETRY_BACKOFF_SECONDS (1)
  StartToClose,  \* _WEBHOOK_TIMEOUT in seconds (30)
  MaxLosses      \* bound: attempts lost to a dead worker or a database error

ASSUME WebhookAssumption ==
  /\ Hooks # {} /\ IsFiniteSet(Hooks)
  /\ MaxAttempts \in Nat \ {0} /\ Tries \in Nat \ {0}
  /\ PostTimeout \in Nat /\ Backoff \in Nat /\ StartToClose \in Nat
  /\ MaxLosses \in Nat

VARIABLES
  hook,       \* the webhooks rows
  attempt,    \* the activity's attempts, each a coroutine of some worker
  current,    \* attempts Temporal has started
  abandoned,  \* attempts Temporal has given up on
  result,     \* what the workflow's execute_activity returned
  acks,       \* 2xx answers a worker received
  rows,       \* webhook_deliveries rows
  losses

vars == <<hook, attempt, current, abandoned, result, acks, rows, losses>>

------------------------------------------------------------------------------
AttemptIds == 1..MaxAttempts
Stages == {"idle", "loading", "next", "posting", "resting", "settled",
           "returned", "gone"}
Running == {"loading", "next", "posting", "resting", "settled"}
Longest == Cardinality(Hooks) * Tries * (PostTimeout + Tries * Backoff)

Attempt == [at : Stages, webhooks : SUBSET Hooks, todo : SUBSET Hooks,
            hook : Hooks, attempts : 0..Tries, success : BOOLEAN,
            elapsed : 0..Longest]
Answer == [hook : Hooks, attempt : AttemptIds, try : 1..Tries]
Delivery == [hook : Hooks, attempt : AttemptIds,
             status : {"delivered", "failed"}, count : 1..Tries]

TypeOK ==
  /\ hook \in [Hooks -> {"unregistered", "enabled", "disabled"}]
  /\ attempt \in [AttemptIds -> Attempt]
  /\ current \in 0..MaxAttempts
  /\ abandoned \subseteq AttemptIds
  /\ result \in {"running", "completed", "failed"}
  /\ acks \subseteq Answer
  /\ rows \subseteq Delivery
  /\ losses \in 0..MaxLosses

Unstarted ==
  [at |-> "idle", webhooks |-> {}, todo |-> {}, hook |-> CHOOSE h \in Hooks : TRUE,
   attempts |-> 0, success |-> FALSE, elapsed |-> 0]

Init ==
  /\ hook \in [Hooks -> {"unregistered", "enabled"}]
  /\ attempt = [n \in AttemptIds |-> Unstarted]
  /\ current = 0
  /\ abandoned = {}
  /\ result = "running"
  /\ acks = {}
  /\ rows = {}
  /\ losses = 0

------------------------------------------------------------------------------
(* Administrators *)

CreateWebhook(h) ==
  /\ hook[h] = "unregistered"
  /\ hook' = [hook EXCEPT ![h] = "enabled"]
  /\ UNCHANGED <<attempt, current, abandoned, result, acks, rows, losses>>

DisableWebhook(h) ==
  /\ hook[h] = "enabled"
  /\ hook' = [hook EXCEPT ![h] = "disabled"]
  /\ UNCHANGED <<attempt, current, abandoned, result, acks, rows, losses>>

------------------------------------------------------------------------------
(* Temporal *)

StartAttempt ==
  /\ result = "running"
  /\ current < MaxAttempts
  /\ current = 0 \/ current \in abandoned
  /\ current' = current + 1
  /\ attempt' = [attempt EXCEPT ![current + 1].at = "loading"]
  /\ UNCHANGED <<hook, abandoned, result, acks, rows, losses>>

\* A post in flight may last until its timeout.
MayExceed(n) ==
  attempt[n].elapsed
    + (IF attempt[n].at = "posting" THEN PostTimeout ELSE 0) > StartToClose

\* Bug: no start_to_close_timeout, so a dead worker is never noticed.
AbandonsOnlySlow(n) == attempt[n].at # "gone" /\ MayExceed(n)

Abandons(n) == attempt[n].at = "gone" \/ MayExceed(n)

Abandon ==
  /\ result = "running"
  /\ current > 0 /\ current \notin abandoned
  /\ Abandons(current)
  /\ abandoned' = abandoned \union {current}
  /\ result' = IF current = MaxAttempts THEN "failed" ELSE "running"
  /\ UNCHANGED <<hook, attempt, current, acks, rows, losses>>

------------------------------------------------------------------------------
(* deliver_webhooks_activity *)

\* SELECT ... WHERE disabled_at IS NULL, the only look at the webhooks table.
Load(n) ==
  /\ attempt[n].at = "loading"
  /\ LET found == {h \in Hooks : hook[h] = "enabled"}
     IN attempt' = [attempt EXCEPT ![n].at = "next", ![n].webhooks = found,
                                   ![n].todo = found]
  /\ UNCHANGED <<hook, current, abandoned, result, acks, rows, losses>>

\* Bug: `success` is not reset for the next webhook.
PostUnreset(n) ==
  /\ attempt[n].at = "next"
  /\ \E h \in attempt[n].todo :
       attempt' = [attempt EXCEPT ![n].at = "posting", ![n].hook = h,
                                  ![n].attempts = 1]
  /\ UNCHANGED <<hook, current, abandoned, result, acks, rows, losses>>

\* The query states no order.
Post(n) ==
  /\ attempt[n].at = "next"
  /\ \E h \in attempt[n].todo :
       attempt' = [attempt EXCEPT ![n].at = "posting", ![n].hook = h,
                                  ![n].attempts = 1, ![n].success = FALSE]
  /\ UNCHANGED <<hook, current, abandoned, result, acks, rows, losses>>

\* A 2xx answer, at once or at the last moment.
Acknowledge(n) ==
  /\ attempt[n].at = "posting"
  /\ \E took \in {0, PostTimeout} :
       attempt' = [attempt EXCEPT ![n].at = "settled", ![n].success = TRUE,
                                  ![n].elapsed = @ + took]
  /\ acks' = acks \union {[hook |-> attempt[n].hook, attempt |-> n,
                           try |-> attempt[n].attempts]}
  /\ UNCHANGED <<hook, current, abandoned, result, rows, losses>>

\* Bug: range(1, _WEBHOOK_MAX_ATTEMPTS + 2).
RejectOneTooMany(n) ==
  /\ attempt[n].at = "posting"
  /\ \E took \in {0, PostTimeout} :
       attempt' = [attempt EXCEPT
         ![n].at = IF attempt[n].attempts <= Tries THEN "resting" ELSE "settled",
         ![n].elapsed = @ + took]
  /\ UNCHANGED <<hook, current, abandoned, result, acks, rows, losses>>

\* httpx.HTTPError: a refusal or an error status at once, or the timeout.
Reject(n) ==
  /\ attempt[n].at = "posting"
  /\ \E took \in {0, PostTimeout} :
       attempt' = [attempt EXCEPT
         ![n].at = IF attempt[n].attempts < Tries THEN "resting" ELSE "settled",
         ![n].elapsed = @ + took]
  /\ UNCHANGED <<hook, current, abandoned, result, acks, rows, losses>>

Repost(n) ==
  /\ attempt[n].at = "resting"
  /\ attempt' = [attempt EXCEPT ![n].at = "posting", ![n].attempts = @ + 1,
                                 ![n].elapsed = @ + Backoff * attempt[n].attempts]
  /\ UNCHANGED <<hook, current, abandoned, result, acks, rows, losses>>

\* INSERT INTO webhook_deliveries, in a transaction of its own.
Store(n) ==
  /\ attempt[n].at = "settled"
  /\ rows' = rows \union
       {[hook |-> attempt[n].hook, attempt |-> n,
         status |-> IF attempt[n].success THEN "delivered" ELSE "failed",
         count |-> attempt[n].attempts]}
  /\ attempt' = [attempt EXCEPT ![n].at = "next", ![n].todo = @ \ {attempt[n].hook}]
  /\ UNCHANGED <<hook, current, abandoned, result, acks, losses>>

\* The coroutine ends and its local variables with it.
End(n, how) ==
  attempt' = [attempt EXCEPT
    ![n] = [Unstarted EXCEPT !.at = how, !.webhooks = attempt[n].webhooks]]

\* Temporal takes the completion of the attempt it is waiting for, if in time.
Return(n) ==
  /\ attempt[n].at = "next" /\ attempt[n].todo = {}
  /\ IF n \in abandoned \/ MayExceed(n)
     THEN End(n, "gone") /\ UNCHANGED result
     ELSE End(n, "returned") /\ result' = "completed"
  /\ UNCHANGED <<hook, current, abandoned, acks, rows, losses>>

\* The worker dies, or a transaction of the activity raises.
Lose(n) ==
  /\ attempt[n].at \in Running
  /\ losses < MaxLosses
  /\ losses' = losses + 1
  /\ End(n, "gone")
  /\ UNCHANGED <<hook, current, abandoned, result, acks, rows>>

\* The SDK cancels a coroutine whose attempt was abandoned, sooner or later.
Cancel(n) ==
  /\ n \in abandoned
  /\ attempt[n].at \in Running
  /\ End(n, "gone")
  /\ UNCHANGED <<hook, current, abandoned, result, acks, rows, losses>>

------------------------------------------------------------------------------
Activity(n) ==
  \/ Load(n) \/ Post(n) \/ Acknowledge(n) \/ Reject(n) \/ Repost(n)
  \/ Store(n) \/ Return(n)

Next ==
  \/ \E h \in Hooks : CreateWebhook(h) \/ DisableWebhook(h)
  \/ StartAttempt \/ Abandon
  \/ \E n \in AttemptIds : Activity(n) \/ Lose(n) \/ Cancel(n)

\* Coroutines run on, posts end by their timeout and Temporal's timers fire.
Spec ==
  /\ Init /\ [][Next]_vars
  /\ WF_vars(StartAttempt) /\ WF_vars(Abandon)
  /\ \A n \in AttemptIds : WF_vars(Activity(n))

------------------------------------------------------------------------------
(* Properties *)

\* A delivery row tells what the endpoint answered: `delivered` on the try
\* that was acknowledged, `failed` after the last try of none, and one row
\* per webhook and attempt (activities.py:505-539).
RowsTellAnswers ==
  /\ \A r \in rows :
       IF r.status = "delivered"
       THEN [hook |-> r.hook, attempt |-> r.attempt, try |-> r.count] \in acks
       ELSE /\ r.count = Tries
            /\ \A a \in acks : ~(a.hook = r.hook /\ a.attempt = r.attempt)
  /\ \A r, q \in rows : r.hook = q.hook /\ r.attempt = q.attempt => r = q
  /\ result = "completed" =>
       attempt[current].webhooks \subseteq {r.hook : r \in {q \in rows : q.attempt = current}}

\* The workflow gets an answer, whatever endpoints and workers do.
DeliveryEnds == <>(result # "running")

\* An endpoint that has acknowledged a decision is not sent it again: "not
\* relying on Temporal's own activity-level retry for this, since retrying the
\* whole activity would re-deliver to webhooks that already succeeded"
\* (activities.py:140-143).
AckedOnce == \A a, b \in acks : a.hook = b.hook => a = b
==============================================================================
