------------------------ MODULE WebhookDeliveryProofs -------------------------
(***************************************************************************)
(* Proofs about WebhookDelivery for every number of endpoints, attempts    *)
(* and tries, and every timeout.                                           *)
(***************************************************************************)
EXTENDS WebhookDelivery, Integers, FiniteSetTheorems, TLAPS

\* An attempt without the bound on its time.
AttemptRows == [at : Stages, webhooks : SUBSET Hooks, todo : SUBSET Hooks,
                hook : Hooks, attempts : 0..Tries, success : BOOLEAN, elapsed : Nat]

Typed ==
  /\ hook \in [Hooks -> {"unregistered", "enabled", "disabled"}]
  /\ attempt \in [AttemptIds -> AttemptRows]
  /\ current \in 0..MaxAttempts
  /\ abandoned \subseteq AttemptIds
  /\ result \in {"running", "completed", "failed"}
  /\ acks \subseteq Answer
  /\ rows \subseteq Delivery
  /\ losses \in 0..MaxLosses

\* Temporal runs one attempt after the other, each given up on before the next.
OneByOne ==
  /\ \A n \in AttemptIds :
       /\ n > current => attempt[n].at = "idle"
       /\ n < current => n \in abandoned
  /\ result = "completed" =>
       current \in AttemptIds /\ attempt[current].at = "returned"

Delivering == {"next", "posting", "resting", "settled"}

HasRow(n, h) == \E r \in rows : r.attempt = n /\ r.hook = h
HasAck(n, h) == \E a \in acks : a.attempt = n /\ a.hook = h

\* An attempt that has not begun has no answer and no row.
Fresh(n) ==
  attempt[n].at \in {"idle", "loading"} =>
    \A h \in Hooks : ~HasRow(n, h) /\ ~HasAck(n, h)

\* What is still to be posted has neither; what is not has its row.
Remaining(n) ==
  attempt[n].at \in Delivering =>
    /\ attempt[n].todo \subseteq attempt[n].webhooks
    /\ \A h \in attempt[n].webhooks \ attempt[n].todo : HasRow(n, h)
    /\ \A h \in attempt[n].todo :
         /\ ~HasRow(n, h)
         /\ HasAck(n, h) => /\ attempt[n].at = "settled" /\ attempt[n].success
                            /\ h = attempt[n].hook

\* The webhook at hand, and how its last try ended.
AtHand(n) ==
  /\ attempt[n].at \in {"posting", "resting", "settled"} =>
       attempt[n].hook \in attempt[n].todo /\ attempt[n].attempts \in 1..Tries
  /\ attempt[n].at \in {"posting", "resting"} => ~attempt[n].success
  /\ attempt[n].at = "resting" => attempt[n].attempts < Tries
  /\ attempt[n].at = "settled" =>
       IF attempt[n].success
       THEN [hook |-> attempt[n].hook, attempt |-> n, try |-> attempt[n].attempts] \in acks
       ELSE attempt[n].attempts = Tries

Returned(n) ==
  attempt[n].at = "returned" => \A h \in attempt[n].webhooks : HasRow(n, h)

AttemptInv(n) == Fresh(n) /\ Remaining(n) /\ AtHand(n) /\ Returned(n)

RowTrue(r) ==
  IF r.status = "delivered"
  THEN [hook |-> r.hook, attempt |-> r.attempt, try |-> r.count] \in acks
  ELSE r.count = Tries /\ ~HasAck(r.attempt, r.hook)

RowsTrue ==
  /\ \A r \in rows : RowTrue(r)
  /\ \A r, q \in rows : r.hook = q.hook /\ r.attempt = q.attempt => r = q

DeliveryInv == Typed /\ OneByOne /\ (\A n \in AttemptIds : AttemptInv(n)) /\ RowsTrue

------------------------------------------------------------------------------
(* One attempt moves, the others stay *)

\* A step of one attempt, with its answers and rows, leaves the others as they were.
LEMMA OthersStay ==
  ASSUME DeliveryInv, NEW n \in AttemptIds,
         \A m \in AttemptIds : m # n => attempt'[m] = attempt[m],
         acks \subseteq acks', \A a \in acks' \ acks : a.attempt = n,
         rows \subseteq rows', \A r \in rows' \ rows : r.attempt = n
  PROVE  \A m \in AttemptIds : m # n => AttemptInv(m)'
  <1> SUFFICES ASSUME NEW m \in AttemptIds, m # n
               PROVE  AttemptInv(m)'
    OBVIOUS
  <1>1. attempt'[m] = attempt[m] /\ AttemptInv(m)
    BY DEF DeliveryInv
  <1>2. \A h : HasRow(m, h)' <=> HasRow(m, h)
    BY DEF HasRow
  <1>3. \A h : HasAck(m, h)' <=> HasAck(m, h)
    BY DEF HasAck
  <1>4. Fresh(m)' /\ Remaining(m)' /\ Returned(m)'
    BY <1>1, <1>2, <1>3 DEF AttemptInv, Fresh, Remaining, Returned
  <1>5. AtHand(m)'
    BY <1>1 DEF AttemptInv, AtHand
  <1>6. QED
    BY <1>4, <1>5 DEF AttemptInv

\* The steps that neither write a row nor receive an answer.
LEMMA QuietMove ==
  ASSUME DeliveryInv, NEW n \in AttemptIds, UNCHANGED <<acks, rows>>,
         Typed', OneByOne',
         \A m \in AttemptIds : m # n => attempt'[m] = attempt[m],
         AttemptInv(n)'
  PROVE  DeliveryInv'
  <1>1. \A m \in AttemptIds : AttemptInv(m)'
    BY OthersStay
  <1>2. RowsTrue'
    BY DEF DeliveryInv, RowsTrue, RowTrue, HasAck
  <1>3. QED
    BY <1>1, <1>2 DEF DeliveryInv

\* Temporal's view of the attempts survives any move of a begun one that does
\* not complete the activity.
LEMMA OneByOneKept ==
  ASSUME DeliveryInv, NEW n \in AttemptIds, UNCHANGED <<current, abandoned, result>>,
         attempt[n].at \notin {"idle", "returned"},
         \A m \in AttemptIds : m # n => attempt'[m] = attempt[m]
  PROVE  OneByOne'
  <1>1. current \in Nat /\ n \in Nat /\ OneByOne /\ AttemptIds \subseteq Nat
    BY WebhookAssumption DEF DeliveryInv, Typed, AttemptIds
  <1>2. ~(n > current)
    BY <1>1 DEF OneByOne
  <1>3. ASSUME result = "completed"
        PROVE  current # n
    BY <1>3, <1>1 DEF OneByOne
  <1>4. QED
    BY <1>1, <1>2, <1>3 DEF OneByOne

\* An attempt not yet started is an attempt.
LEMMA UnstartedType == Unstarted \in AttemptRows
  <1>1. (CHOOSE h \in Hooks : TRUE) \in Hooks
    BY WebhookAssumption
  <1> DEFINE any == CHOOSE h \in Hooks : TRUE
  <1> HIDE DEF any
  <1>2. any \in Hooks
    BY <1>1 DEF any
  <1>3. Unstarted = [at |-> "idle", webhooks |-> {}, todo |-> {}, hook |-> any,
                     attempts |-> 0, success |-> FALSE, elapsed |-> 0]
    BY DEF Unstarted, any
  <1>4. 0 \in 0..Tries
    BY WebhookAssumption
  <1>5. QED
    BY <1>2, <1>3, <1>4 DEF AttemptRows, Stages

\* Nothing is posted and no row is written.
LEMMA InitDelivery == Init => DeliveryInv
  <1> SUFFICES ASSUME Init
               PROVE  DeliveryInv
    OBVIOUS
  <1>1. Unstarted \in AttemptRows
    BY UnstartedType
  <1>2. Typed
    BY <1>1, WebhookAssumption DEF Init, Typed
  <1>3. \A n \in AttemptIds : attempt[n].at = "idle"
    BY DEF Init, Unstarted
  <1>4. OneByOne
    BY <1>3, WebhookAssumption DEF Init, OneByOne, AttemptIds
  <1>5. \A n \in AttemptIds : AttemptInv(n)
    BY <1>3 DEF Init, AttemptInv, Fresh, Remaining, AtHand, Returned, Delivering, HasRow,
       HasAck
  <1>6. RowsTrue
    BY DEF Init, RowsTrue
  <1>7. QED
    BY <1>2, <1>4, <1>5, <1>6 DEF DeliveryInv

\* Webhooks may come and go during a delivery.
LEMMA AdministratorStep ==
  ASSUME DeliveryInv, NEW h \in Hooks, CreateWebhook(h) \/ DisableWebhook(h)
  PROVE  DeliveryInv'
  <1>1. UNCHANGED <<attempt, current, abandoned, result, acks, rows, losses>>
    BY DEF CreateWebhook, DisableWebhook
  <1>2. hook' \in [Hooks -> {"unregistered", "enabled", "disabled"}]
    BY DEF DeliveryInv, Typed, CreateWebhook, DisableWebhook
  <1>3. Typed' /\ OneByOne'
    BY <1>1, <1>2 DEF DeliveryInv, Typed, OneByOne
  <1>4. \A n \in AttemptIds : AttemptInv(n)'
    BY <1>1 DEF DeliveryInv, AttemptInv, Fresh, Remaining, AtHand, Returned, HasRow, HasAck
  <1>5. RowsTrue'
    BY <1>1 DEF DeliveryInv, RowsTrue, RowTrue, HasAck
  <1>6. QED
    BY <1>3, <1>4, <1>5 DEF DeliveryInv

\* An attempt starts with nothing done.
LEMMA StartAttemptStep ==
  ASSUME DeliveryInv, StartAttempt
  PROVE  DeliveryInv'
  <1>0. /\ current \in Nat /\ MaxAttempts \in Nat /\ current + 1 \in AttemptIds
        /\ attempt \in [AttemptIds -> AttemptRows]
    BY WebhookAssumption DEF DeliveryInv, Typed, AttemptIds, StartAttempt
  <1>1. PICK n \in AttemptIds : n = current + 1
    BY <1>0
  <1>2. /\ current' = n /\ attempt' = [attempt EXCEPT ![n].at = "loading"]
        /\ UNCHANGED <<hook, abandoned, result, acks, rows, losses>>
        /\ result = "running" /\ (current = 0 \/ current \in abandoned)
    BY <1>1 DEF StartAttempt
  <1>3. Typed'
    <2>1. attempt' \in [AttemptIds -> AttemptRows]
      BY <1>0, <1>2 DEF AttemptRows, Stages
    <2>2. QED
      BY <1>0, <1>1, <1>2, <2>1 DEF DeliveryInv, Typed, AttemptIds
  <1>4. /\ \A m \in AttemptIds : m # n => attempt'[m] = attempt[m]
        /\ attempt'[n].at = "loading"
    BY <1>0, <1>2 DEF AttemptRows
  <1>5. attempt[n].at = "idle"
    BY <1>0, <1>1 DEF DeliveryInv, OneByOne
  <1>6. OneByOne'
    <2>1. ASSUME NEW m \in AttemptIds
          PROVE  (m > n => attempt'[m].at = "idle") /\ (m < n => m \in abandoned)
      <3>1. m \in Nat
        BY DEF AttemptIds
      <3>2. m < n => m < current \/ (m = current /\ current # 0)
        BY <1>0, <1>1, <3>1 DEF AttemptIds
      <3>3. QED
        BY <1>0, <1>1, <1>2, <1>4, <3>1, <3>2 DEF DeliveryInv, OneByOne
    <2>2. QED
      BY <1>2, <2>1 DEF OneByOne
  <1>7. AttemptInv(n)'
    <2>1. \A h \in Hooks : ~HasRow(n, h) /\ ~HasAck(n, h)
      BY <1>1, <1>5 DEF DeliveryInv, AttemptInv, Fresh
    <2>2. \A h : HasRow(n, h)' = HasRow(n, h) /\ HasAck(n, h)' = HasAck(n, h)
      BY <1>2 DEF HasRow, HasAck
    <2>3. Fresh(n)'
      BY <2>1, <2>2 DEF Fresh
    <2>4. Remaining(n)' /\ AtHand(n)' /\ Returned(n)'
      BY <1>4 DEF Remaining, AtHand, Returned, Delivering
    <2>5. QED
      BY <2>3, <2>4 DEF AttemptInv
  <1>8. QED
    BY <1>1, <1>2, <1>3, <1>4, <1>6, <1>7, QuietMove

\* The stages that steps lead to.
LEMMA StageNames ==
  {"loading", "next", "posting", "resting", "settled", "returned", "gone"} \subseteq Stages
  BY DEF Stages

\* Temporal's giving up on an attempt changes nothing of what it does.
LEMMA AbandonStep ==
  ASSUME DeliveryInv, Abandon
  PROVE  DeliveryInv'
  <1>1. /\ UNCHANGED <<hook, attempt, current, acks, rows, losses>>
        /\ result = "running" /\ result' \in {"running", "failed"}
        /\ abandoned' = abandoned \union {current} /\ current > 0
    BY DEF Abandon
  <1>2. current \in AttemptIds
    BY <1>1, WebhookAssumption DEF DeliveryInv, Typed, AttemptIds
  <1>3. Typed'
    BY <1>1, <1>2 DEF DeliveryInv, Typed
  <1>4. OneByOne'
    BY <1>1 DEF DeliveryInv, OneByOne
  <1>5. \A n \in AttemptIds : AttemptInv(n)'
    BY <1>1 DEF DeliveryInv, AttemptInv, Fresh, Remaining, AtHand, Returned, HasRow, HasAck
  <1>6. RowsTrue'
    BY <1>1 DEF DeliveryInv, RowsTrue, RowTrue, HasAck
  <1>7. QED
    BY <1>3, <1>4, <1>5, <1>6 DEF DeliveryInv

\* An attempt fixes its webhooks once, before it posts.
LEMMA LoadStep ==
  ASSUME DeliveryInv, NEW n \in AttemptIds, Load(n)
  PROVE  DeliveryInv'
  <1> DEFINE found == {h \in Hooks : hook[h] = "enabled"}
  <1>0. attempt \in [AttemptIds -> AttemptRows] /\ found \in SUBSET Hooks
    BY DEF DeliveryInv, Typed
  <1>1. /\ attempt[n].at = "loading"
        /\ attempt' = [attempt EXCEPT ![n].at = "next", ![n].webhooks = found,
                                      ![n].todo = found]
        /\ UNCHANGED <<hook, current, abandoned, result, acks, rows, losses>>
    BY DEF Load
  <1> HIDE DEF found
  <1>2. Typed'
    <2>1. PICK row \in AttemptRows : row = attempt[n]
      BY <1>0
    <2>2. [row EXCEPT !.at = "next", !.webhooks = found, !.todo = found] \in AttemptRows
      BY <1>0, StageNames DEF AttemptRows
    <2>3. attempt' \in [AttemptIds -> AttemptRows]
      BY <1>0, <1>1, <2>1, <2>2
    <2>4. QED
      BY <1>1, <2>3 DEF DeliveryInv, Typed
  <1>3. /\ \A m \in AttemptIds : m # n => attempt'[m] = attempt[m]
        /\ attempt'[n].at = "next" /\ attempt'[n].todo = found
        /\ attempt'[n].webhooks = found
    BY <1>0, <1>1 DEF AttemptRows
  <1>4. AttemptInv(n)'
    <2>1. \A h : HasRow(n, h)' = HasRow(n, h) /\ HasAck(n, h)' = HasAck(n, h)
      BY <1>1 DEF HasRow, HasAck
    <2>2. \A h \in Hooks : ~HasRow(n, h) /\ ~HasAck(n, h)
      BY <1>1 DEF DeliveryInv, AttemptInv, Fresh
    <2>3. Remaining(n)'
      BY <1>0, <1>3, <2>1, <2>2 DEF Remaining
    <2>4. Fresh(n)' /\ AtHand(n)' /\ Returned(n)'
      BY <1>3 DEF Fresh, AtHand, Returned
    <2>5. QED
      BY <2>3, <2>4 DEF AttemptInv
  <1>5. QED
    BY <1>1, <1>2, <1>3, <1>4, OneByOneKept, QuietMove

\* The steps between two writes: the next webhook, a rejected try, the next try.
LEMMA TryStep ==
  ASSUME DeliveryInv, NEW n \in AttemptIds, Post(n) \/ Reject(n) \/ Repost(n)
  PROVE  DeliveryInv'
  <1>0. attempt \in [AttemptIds -> AttemptRows] /\ AttemptInv(n) /\ Tries \in Nat \ {0}
        /\ PostTimeout \in Nat /\ Backoff \in Nat
    BY WebhookAssumption DEF DeliveryInv, Typed
  <1>1. /\ UNCHANGED <<hook, current, abandoned, result, acks, rows, losses>>
        /\ attempt[n].at \in {"next", "posting", "resting"}
    BY DEF Post, Reject, Repost
  <1>2. /\ attempt' \in [AttemptIds -> AttemptRows]
        /\ \A m \in AttemptIds : m # n => attempt'[m] = attempt[m]
        /\ attempt'[n].at \in {"posting", "resting", "settled"}
        /\ attempt'[n].webhooks = attempt[n].webhooks
        /\ attempt'[n].todo = attempt[n].todo
        /\ attempt'[n].hook \in attempt[n].todo
        /\ attempt'[n].attempts \in 1..Tries /\ ~attempt'[n].success
        /\ attempt'[n].at = "resting" => attempt'[n].attempts < Tries
        /\ attempt'[n].at = "settled" => attempt'[n].attempts = Tries
    <2>1. CASE Post(n)
      <3>1. PICK h \in attempt[n].todo :
              attempt' = [attempt EXCEPT ![n].at = "posting", ![n].hook = h,
                                         ![n].attempts = 1, ![n].success = FALSE]
        BY <2>1 DEF Post
      <3>2. h \in Hooks /\ 1 \in 0..Tries /\ 1 \in 1..Tries
        BY <1>0 DEF AttemptRows
      <3>3. [attempt[n] EXCEPT !.at = "posting", !.hook = h, !.attempts = 1,
                               !.success = FALSE] \in AttemptRows
        BY <1>0, <3>2, StageNames DEF AttemptRows
      <3>4. attempt' \in [AttemptIds -> AttemptRows]
        BY <1>0, <3>1, <3>3
      <3>5. QED
        BY <1>0, <3>1, <3>2, <3>4 DEF AttemptRows
    <2>2. CASE Reject(n)
      <3>1. PICK took \in {0, PostTimeout} :
              attempt' = [attempt EXCEPT
                ![n].at = IF attempt[n].attempts < Tries THEN "resting" ELSE "settled",
                ![n].elapsed = @ + took]
        BY <2>2 DEF Reject
      <3>2. attempt[n].elapsed + took \in Nat /\ took \in Nat
        BY <1>0 DEF AttemptRows
      <3>3. /\ attempt[n].hook \in attempt[n].todo /\ attempt[n].attempts \in 1..Tries
            /\ ~attempt[n].success
        BY <1>0, <2>2 DEF AttemptInv, AtHand, Reject
      <3>6. PICK row \in AttemptRows : row = attempt[n]
        BY <1>0
      <3>7. [row EXCEPT !.at = IF row.attempts < Tries THEN "resting" ELSE "settled",
                        !.elapsed = @ + took] \in AttemptRows
        BY <3>2, <3>6, StageNames DEF AttemptRows
      <3>4. attempt' \in [AttemptIds -> AttemptRows]
        BY <1>0, <3>1, <3>6, <3>7
      <3>5. QED
        BY <1>0, <3>1, <3>3, <3>4 DEF AttemptRows
    <2>3. CASE Repost(n)
      <3>1. attempt' = [attempt EXCEPT ![n].at = "posting", ![n].attempts = @ + 1,
                                  ![n].elapsed = @ + Backoff * attempt[n].attempts]
        BY <2>3 DEF Repost
      <3>2. /\ attempt[n].hook \in attempt[n].todo /\ attempt[n].attempts \in 1..Tries
            /\ ~attempt[n].success /\ attempt[n].attempts < Tries
        BY <1>0, <2>3 DEF AttemptInv, AtHand, Repost
      <3>3. attempt[n].attempts + 1 \in 1..Tries
        BY <1>0, <3>2
      <3>4. attempt[n].elapsed + Backoff * attempt[n].attempts \in Nat
        <4>1. Backoff * attempt[n].attempts \in Nat /\ attempt[n].elapsed \in Nat
          BY <1>0, <3>2 DEF AttemptRows
        <4>2. QED
          BY <4>1
      <3> DEFINE wait == attempt[n].elapsed + Backoff * attempt[n].attempts
                 next == attempt[n].attempts + 1
      <3>5. attempt' = [attempt EXCEPT ![n].at = "posting", ![n].attempts = next,
                                       ![n].elapsed = wait]
        BY <1>0, <3>1
      <3>6. wait \in Nat /\ next \in 1..Tries /\ next \in 0..Tries
        BY <3>3, <3>4
      <3> HIDE DEF wait, next
      <3>7. attempt' \in [AttemptIds -> AttemptRows]
        <4>1. [attempt[n] EXCEPT !.at = "posting", !.attempts = next, !.elapsed = wait]
                \in AttemptRows
          BY <1>0, <3>6, StageNames DEF AttemptRows
        <4>2. QED
          BY <1>0, <3>5, <4>1
      <3>8. QED
        BY <1>0, <3>2, <3>5, <3>6, <3>7 DEF AttemptRows
    <2>4. QED
      BY <2>1, <2>2, <2>3
  <1>3. Typed'
    BY <1>1, <1>2 DEF DeliveryInv, Typed
  <1>4. AttemptInv(n)'
    <2>1. \A h : HasRow(n, h)' = HasRow(n, h) /\ HasAck(n, h)' = HasAck(n, h)
      BY <1>1 DEF HasRow, HasAck
    <2>2. Remaining(n)'
      BY <1>0, <1>1, <1>2, <2>1 DEF AttemptInv, Remaining, Delivering
    <2>3. AtHand(n)'
      BY <1>2 DEF AtHand
    <2>4. Fresh(n)' /\ Returned(n)'
      BY <1>2 DEF Fresh, Returned
    <2>5. QED
      BY <2>2, <2>3, <2>4 DEF AttemptInv
  <1>5. QED
    BY <1>1, <1>2, <1>3, <1>4, OneByOneKept, QuietMove

\* A webhook that answers well is settled with one success.
LEMMA AcknowledgeStep ==
  ASSUME DeliveryInv, NEW n \in AttemptIds, Acknowledge(n)
  PROVE  DeliveryInv'
  <1> DEFINE ack == [hook |-> attempt[n].hook, attempt |-> n, try |-> attempt[n].attempts]
  <1>0. /\ attempt \in [AttemptIds -> AttemptRows] /\ AttemptInv(n)
        /\ attempt[n].at = "posting"
        /\ attempt[n].hook \in attempt[n].todo /\ attempt[n].attempts \in 1..Tries
    BY DEF DeliveryInv, Typed, AttemptInv, AtHand, Acknowledge
  <1>1. PICK took \in {0, PostTimeout} :
          attempt' = [attempt EXCEPT ![n].at = "settled", ![n].success = TRUE,
                                     ![n].elapsed = @ + took]
    BY DEF Acknowledge
  <1>2. /\ acks' = acks \union {ack}
        /\ UNCHANGED <<hook, current, abandoned, result, rows, losses>>
    BY DEF Acknowledge
  <1>3. ack \in Answer
    BY <1>0 DEF Answer, AttemptRows
  <1>4. attempt' \in [AttemptIds -> AttemptRows]
    <2> DEFINE wait == attempt[n].elapsed + took
    <2>1. wait \in Nat
      BY <1>0, WebhookAssumption DEF AttemptRows
    <2>2. attempt' = [attempt EXCEPT ![n].at = "settled", ![n].success = TRUE,
                                     ![n].elapsed = wait]
      BY <1>0, <1>1
    <2> HIDE DEF wait
    <2>3. [attempt[n] EXCEPT !.at = "settled", !.success = TRUE, !.elapsed = wait]
            \in AttemptRows
      BY <1>0, <2>1, StageNames DEF AttemptRows
    <2>4. QED
      BY <1>0, <2>2, <2>3
  <1>5. /\ \A m \in AttemptIds : m # n => attempt'[m] = attempt[m]
        /\ attempt'[n].at = "settled" /\ attempt'[n].success
        /\ attempt'[n].webhooks = attempt[n].webhooks
        /\ attempt'[n].todo = attempt[n].todo /\ attempt'[n].hook = attempt[n].hook
        /\ attempt'[n].attempts = attempt[n].attempts
    BY <1>0, <1>1 DEF AttemptRows
  <1>6. Typed' /\ OneByOne'
    BY <1>0, <1>2, <1>3, <1>4, <1>5, OneByOneKept DEF DeliveryInv, Typed
  <1>7. /\ \A m, h : HasRow(m, h)' <=> HasRow(m, h)
        /\ \A m, h : HasAck(m, h)' <=> (HasAck(m, h) \/ (m = n /\ h = attempt[n].hook))
    <2>1. \A m, h : HasRow(m, h)' <=> HasRow(m, h)
      BY <1>2 DEF HasRow
    <2>2. ack.attempt = n /\ ack.hook = attempt[n].hook
      OBVIOUS
    <2> HIDE DEF ack
    <2>3. \A m, h : HasAck(m, h)' <=> (HasAck(m, h) \/ (m = n /\ h = attempt[n].hook))
      BY <1>2, <2>2 DEF HasAck
    <2>4. QED
      BY <2>1, <2>3
  <1>8. AttemptInv(n)'
    <2>1. Remaining(n)'
      BY <1>0, <1>5, <1>7 DEF AttemptInv, Remaining, Delivering
    <2>2. AtHand(n)'
      BY <1>0, <1>2, <1>5 DEF AtHand
    <2>3. Fresh(n)' /\ Returned(n)'
      BY <1>5 DEF Fresh, Returned
    <2>4. QED
      BY <2>1, <2>2, <2>3 DEF AttemptInv
  <1>9. \A m \in AttemptIds : AttemptInv(m)'
    BY <1>2, <1>5, <1>8, OthersStay
  <1>10. RowsTrue'
    <2>1. ASSUME NEW r \in rows
          PROVE  RowTrue(r)'
      <3>1. ~(r.attempt = n /\ r.hook = attempt[n].hook)
        BY <1>0 DEF AttemptInv, Remaining, Delivering, HasRow
      <3>2. RowTrue(r)
        BY DEF DeliveryInv, RowsTrue
      <3>3. QED
        BY <1>2, <1>7, <3>1, <3>2 DEF RowTrue
    <2>2. QED
      BY <1>2, <2>1 DEF DeliveryInv, RowsTrue
  <1>11. QED
    BY <1>6, <1>9, <1>10 DEF DeliveryInv

\* The row of a webhook is written once its last try has ended.
LEMMA StoreStep ==
  ASSUME DeliveryInv, NEW n \in AttemptIds, Store(n)
  PROVE  DeliveryInv'
  <1> DEFINE row == [hook |-> attempt[n].hook, attempt |-> n,
                     status |-> IF attempt[n].success THEN "delivered" ELSE "failed",
                     count |-> attempt[n].attempts]
  <1>0. /\ attempt \in [AttemptIds -> AttemptRows] /\ AttemptInv(n)
        /\ attempt[n].at = "settled"
        /\ attempt[n].hook \in attempt[n].todo /\ attempt[n].attempts \in 1..Tries
    BY DEF DeliveryInv, Typed, AttemptInv, AtHand, Store
  <1>1. /\ rows' = rows \union {row}
        /\ attempt' = [attempt EXCEPT ![n].at = "next",
                                      ![n].todo = @ \ {attempt[n].hook}]
        /\ UNCHANGED <<hook, current, abandoned, result, acks, losses>>
    BY DEF Store
  <1>2. row \in Delivery
    BY <1>0 DEF Delivery, AttemptRows
  <1>3. attempt' \in [AttemptIds -> AttemptRows]
    BY <1>0, <1>1, StageNames DEF AttemptRows
  <1>4. /\ \A m \in AttemptIds : m # n => attempt'[m] = attempt[m]
        /\ attempt'[n].at = "next"
        /\ attempt'[n].webhooks = attempt[n].webhooks
        /\ attempt'[n].todo = attempt[n].todo \ {attempt[n].hook}
    BY <1>0, <1>1 DEF AttemptRows
  <1>5. Typed' /\ OneByOne'
    BY <1>0, <1>1, <1>2, <1>3, <1>4, OneByOneKept DEF DeliveryInv, Typed
  <1>6. /\ \A m, h : HasRow(m, h)' <=> (HasRow(m, h) \/ (m = n /\ h = attempt[n].hook))
        /\ \A m, h : HasAck(m, h)' <=> HasAck(m, h)
        /\ \A r \in rows' \ rows : r.attempt = n
    <2>1. \A m, h : HasAck(m, h)' <=> HasAck(m, h)
      BY <1>1 DEF HasAck
    <2>2. row.attempt = n /\ row.hook = attempt[n].hook
      OBVIOUS
    <2> HIDE DEF row
    <2>3. \A m, h : HasRow(m, h)' <=> (HasRow(m, h) \/ (m = n /\ h = attempt[n].hook))
      BY <1>1, <2>2 DEF HasRow
    <2>4. \A r \in rows' \ rows : r.attempt = n
      BY <1>1, <2>2
    <2>5. QED
      BY <2>1, <2>3, <2>4
  <1>7. AttemptInv(n)'
    <2>1. Remaining(n)'
      BY <1>0, <1>4, <1>6 DEF AttemptInv, Remaining, Delivering
    <2>2. Fresh(n)' /\ AtHand(n)' /\ Returned(n)'
      BY <1>4 DEF Fresh, AtHand, Returned
    <2>3. QED
      BY <2>1, <2>2 DEF AttemptInv
  <1>8. \A m \in AttemptIds : AttemptInv(m)'
    BY <1>1, <1>4, <1>6, <1>7, OthersStay
  <1>9. ~HasRow(n, attempt[n].hook)
    BY <1>0 DEF AttemptInv, Remaining, Delivering, AttemptRows
  <1>10. RowTrue(row)
    <2>1. CASE attempt[n].success
      BY <1>0, <2>1 DEF AttemptInv, AtHand, RowTrue
    <2>2. CASE ~attempt[n].success
      BY <1>0, <2>2 DEF AttemptInv, AtHand, Remaining, Delivering, RowTrue
    <2>3. QED
      BY <2>1, <2>2
  <1>11. RowsTrue'
    <2>1. \A r : RowTrue(r)' = RowTrue(r)
      BY <1>1, <1>6 DEF RowTrue
    <2>2. \A r \in rows' : RowTrue(r)'
      BY <1>1, <1>10, <2>1 DEF DeliveryInv, RowsTrue
    <2>3. \A r \in rows : ~(r.hook = row.hook /\ r.attempt = row.attempt)
      BY <1>9 DEF HasRow
    <2>4. \A r, q \in rows' : r.hook = q.hook /\ r.attempt = q.attempt => r = q
      BY <1>1, <2>3 DEF DeliveryInv, RowsTrue
    <2>5. QED
      BY <2>2, <2>4 DEF RowsTrue
  <1>12. QED
    BY <1>5, <1>8, <1>11 DEF DeliveryInv

\* An attempt that ends keeps its webhooks.
LEMMA EndRow ==
  ASSUME Typed, NEW n \in AttemptIds, NEW how \in {"gone", "returned"}, End(n, how)
  PROVE  /\ attempt' \in [AttemptIds -> AttemptRows]
         /\ \A m \in AttemptIds : m # n => attempt'[m] = attempt[m]
         /\ attempt'[n].at = how /\ attempt'[n].webhooks = attempt[n].webhooks
  <1> DEFINE row == [Unstarted EXCEPT !.at = how, !.webhooks = attempt[n].webhooks]
  <1>1. attempt[n].webhooks \in SUBSET Hooks
    BY DEF Typed, AttemptRows
  <1>2. row \in AttemptRows
    BY <1>1, UnstartedType, StageNames DEF AttemptRows
  <1>3. row.at = how /\ row.webhooks = attempt[n].webhooks
    BY UnstartedType DEF AttemptRows
  <1>4. attempt' = [attempt EXCEPT ![n] = row]
    BY DEF End
  <1> HIDE DEF row
  <1>5. QED
    BY <1>2, <1>3, <1>4 DEF Typed

\* An attempt that returns has a row for each of its webhooks; a lost one need not.
LEMMA EndInv ==
  ASSUME DeliveryInv, NEW n \in AttemptIds, NEW how \in {"gone", "returned"}, End(n, how),
         UNCHANGED <<acks, rows>>,
         how = "returned" => \A h \in attempt[n].webhooks : HasRow(n, h)
  PROVE  AttemptInv(n)'
  <1>1. attempt'[n].at = how /\ attempt'[n].webhooks = attempt[n].webhooks
    BY EndRow DEF DeliveryInv
  <1>2. \A h : HasRow(n, h)' = HasRow(n, h)
    BY DEF HasRow
  <1>3. QED
    BY <1>1, <1>2 DEF AttemptInv, Fresh, Remaining, AtHand, Returned, Delivering

\* A worker lost, or an attempt cancelled, leaves only true rows.
LEMMA LostStep ==
  ASSUME DeliveryInv, NEW n \in AttemptIds, Lose(n) \/ Cancel(n)
  PROVE  DeliveryInv'
  <1>1. /\ End(n, "gone") /\ attempt[n].at \notin {"idle", "returned"}
        /\ UNCHANGED <<hook, current, abandoned, result, acks, rows>>
    BY DEF Lose, Cancel, Running
  <1>2. losses' \in 0..MaxLosses
    BY WebhookAssumption DEF Lose, Cancel, DeliveryInv, Typed
  <1>3. Typed' /\ \A m \in AttemptIds : m # n => attempt'[m] = attempt[m]
    BY <1>1, <1>2, EndRow DEF DeliveryInv, Typed
  <1>4. AttemptInv(n)'
    BY <1>1, EndInv
  <1>5. QED
    BY <1>1, <1>3, <1>4, OneByOneKept, QuietMove

\* Only the attempt Temporal waits for completes the activity, with a row for
\* each webhook it found.
LEMMA ReturnStep ==
  ASSUME DeliveryInv, NEW n \in AttemptIds, Return(n)
  PROVE  DeliveryInv'
  <1>1. /\ attempt[n].at = "next" /\ attempt[n].todo = {}
        /\ UNCHANGED <<hook, current, abandoned, acks, rows, losses>>
    BY DEF Return
  <1>2. \A h \in attempt[n].webhooks : HasRow(n, h)
    BY <1>1 DEF DeliveryInv, AttemptInv, Remaining, Delivering
  <1>3. CASE End(n, "gone") /\ UNCHANGED result
    <2>1. Typed' /\ \A m \in AttemptIds : m # n => attempt'[m] = attempt[m]
      BY <1>1, <1>3, EndRow DEF DeliveryInv, Typed
    <2>2. AttemptInv(n)'
      BY <1>1, <1>3, EndInv
    <2>3. QED
      BY <1>1, <1>3, <2>1, <2>2, OneByOneKept, QuietMove
  <1>4. CASE /\ n \notin abandoned /\ End(n, "returned") /\ result' = "completed"
    <2>1. Typed' /\ \A m \in AttemptIds : m # n => attempt'[m] = attempt[m]
      BY <1>1, <1>4, EndRow DEF DeliveryInv, Typed
    <2>2. AttemptInv(n)'
      BY <1>1, <1>2, <1>4, EndInv
    <2>3. n = current
      <3>1. n \in Nat /\ current \in Nat
        BY WebhookAssumption DEF DeliveryInv, Typed, AttemptIds
      <3>2. ~(n > current) /\ ~(n < current)
        BY <1>1, <1>4 DEF DeliveryInv, OneByOne
      <3>3. QED
        BY <3>1, <3>2
    <2>4. attempt'[n].at = "returned"
      BY <1>4, EndRow DEF DeliveryInv
    <2>5. OneByOne'
      <3>1. current' = current /\ abandoned' = abandoned /\ ~(n > current)
        BY <1>1, <2>3 DEF DeliveryInv, Typed
      <3>2. QED
        BY <2>1, <2>3, <2>4, <3>1 DEF DeliveryInv, OneByOne
    <2>6. QED
      BY <1>1, <2>1, <2>2, <2>5, QuietMove
  <1>5. QED
    BY <1>3, <1>4 DEF Return

\* Every step keeps the rows true to the answers.
LEMMA DeliveryNext == DeliveryInv /\ [Next]_vars => DeliveryInv'
  <1>1. ASSUME DeliveryInv, UNCHANGED vars
        PROVE  DeliveryInv'
    <2>1. \A n \in AttemptIds : AttemptInv(n)'
      BY <1>1 DEF vars, DeliveryInv, AttemptInv, Fresh, Remaining, AtHand, Returned,
         HasRow, HasAck
    <2>2. Typed' /\ OneByOne' /\ RowsTrue'
      BY <1>1 DEF vars, DeliveryInv, Typed, OneByOne, RowsTrue, RowTrue, HasAck
    <2>3. QED
      BY <2>1, <2>2 DEF DeliveryInv
  <1>2. QED
    BY <1>1, AdministratorStep, StartAttemptStep, AbandonStep, LoadStep, TryStep,
       AcknowledgeStep, StoreStep, ReturnStep, LostStep DEF Next, Activity

\* An attempt's rows and answers are those of the webhooks it is done with, and of
\* the one at hand at most an answer that no row tells of yet.
THEOREM DeliveryInvariant == Spec => []DeliveryInv
  BY InitDelivery, DeliveryNext, PTL DEF Spec

\* A delivery row tells what its endpoint answered, and a completed activity has
\* left one for each webhook, through every retry, loss and zombie attempt
\* (activities.py:505-539).
THEOREM RowsAreTrue == Spec => []RowsTellAnswers
  <1>1. DeliveryInv => RowsTellAnswers
    <2> SUFFICES ASSUME DeliveryInv
                 PROVE  RowsTellAnswers
      OBVIOUS
    <2>1. ASSUME NEW r \in rows
          PROVE  IF r.status = "delivered"
                 THEN [hook |-> r.hook, attempt |-> r.attempt, try |-> r.count] \in acks
                 ELSE /\ r.count = Tries
                      /\ \A a \in acks : ~(a.hook = r.hook /\ a.attempt = r.attempt)
      BY DEF DeliveryInv, RowsTrue, RowTrue, HasAck
    <2>2. \A r, q \in rows : r.hook = q.hook /\ r.attempt = q.attempt => r = q
      BY DEF DeliveryInv, RowsTrue
    <2>3. ASSUME result = "completed"
          PROVE  attempt[current].webhooks
                   \subseteq {r.hook : r \in {q \in rows : q.attempt = current}}
      <3>1. current \in AttemptIds /\ attempt[current].at = "returned"
        BY <2>3 DEF DeliveryInv, OneByOne
      <3>2. \A h \in attempt[current].webhooks : HasRow(current, h)
        BY <3>1 DEF DeliveryInv, AttemptInv, Returned
      <3>3. QED
        BY <3>2 DEF HasRow
    <2>4. QED
      BY <2>1, <2>2, <2>3 DEF RowsTellAnswers
  <1>2. QED
    BY <1>1, DeliveryInvariant, PTL

------------------------------------------------------------------------------
(* How long an attempt can take *)

PerTry == PostTimeout + Tries * Backoff
PerHook == Tries * PerTry
Left(n) == Cardinality(attempt[n].todo)

\* Seconds the webhook at hand has used of its PerHook.
Used(n) ==
  CASE attempt[n].at = "posting" -> (attempt[n].attempts - 1) * PerTry
    [] attempt[n].at = "resting" -> (attempt[n].attempts - 1) * PerTry + PostTimeout
    [] attempt[n].at = "settled" -> attempt[n].attempts * PerTry
    [] OTHER -> 0

Paced ==
  \A n \in AttemptIds :
    /\ attempt[n].at \notin Delivering => attempt[n].elapsed = 0
    /\ attempt[n].at \in Delivering =>
         attempt[n].elapsed + Left(n) * PerHook <= Cardinality(Hooks) * PerHook + Used(n)

\* More tries or webhooks take no less time.
LEMMA ProductMonotone ==
  ASSUME NEW w \in Nat, NEW x \in Nat, NEW y \in Nat, x <= y
  PROVE  x * w <= y * w
  <1>1. PICK d \in Nat : y = x + d
    BY y - x \in Nat, y = x + (y - x)
  <1>2. d * w \in Nat /\ x * w \in Nat /\ y * w = x * w + d * w
    BY <1>1
  <1>3. QED
    BY <1>2

\* The bounds on time are numbers.
LEMMA TimesType ==
  /\ PerTry \in Nat /\ PerHook \in Nat /\ PostTimeout \in Nat /\ Backoff \in Nat
  /\ Tries \in Nat /\ PostTimeout <= PerTry /\ Cardinality(Hooks) \in Nat
  /\ Cardinality(Hooks) * PerHook \in Nat
  /\ \A k \in Nat : k * PerTry \in Nat /\ k * PerHook \in Nat
  <1>1. /\ PostTimeout \in Nat /\ Backoff \in Nat /\ Tries \in Nat
        /\ Tries * Backoff \in Nat /\ Cardinality(Hooks) \in Nat
    BY WebhookAssumption, FS_CardinalityType
  <1>2. PerTry \in Nat /\ PostTimeout <= PerTry
    BY <1>1 DEF PerTry
  <1>3. PerHook \in Nat
    BY <1>1, <1>2 DEF PerHook
  <1>4. QED
    BY <1>1, <1>2, <1>3

\* An attempt has finitely many webhooks left.
LEMMA TodoType ==
  ASSUME Typed, NEW n \in AttemptIds
  PROVE  /\ IsFiniteSet(attempt[n].todo) /\ Left(n) \in Nat
         /\ Left(n) <= Cardinality(Hooks) /\ Left(n) * PerHook \in Nat
  <1>1. attempt[n].todo \in SUBSET Hooks
    BY DEF Typed, AttemptRows
  <1>2. QED
    BY <1>1, FS_Subset, FS_CardinalityType, WebhookAssumption, TimesType DEF Left

PacedAt(n) ==
  /\ attempt[n].at \notin Delivering => attempt[n].elapsed = 0
  /\ attempt[n].at \in Delivering =>
       attempt[n].elapsed + Left(n) * PerHook <= Cardinality(Hooks) * PerHook + Used(n)

\* A step of one attempt leaves the time the others have spent.
LEMMA PacedOthers ==
  ASSUME Paced, NEW n \in AttemptIds, PacedAt(n)',
         \A m \in AttemptIds : m # n => attempt'[m] = attempt[m]
  PROVE  Paced'
  <1>1. ASSUME NEW m \in AttemptIds
        PROVE  PacedAt(m)'
    <2>1. CASE m # n
      <3>1. attempt'[m] = attempt[m] /\ PacedAt(m)
        BY <2>1 DEF Paced, PacedAt
      <3>2. Left(m)' = Left(m) /\ Used(m)' = Used(m)
        BY <3>1 DEF Left, Used
      <3>3. QED
        BY <3>1, <3>2 DEF PacedAt
    <2>2. QED
      BY <2>1
  <1>2. QED
    BY <1>1 DEF Paced, PacedAt

\* A try, its answer and the pause after it stay within the time of one try.
LEMMA TryPaced ==
  ASSUME Typed, Paced, NEW n \in AttemptIds, AtHand(n), Post(n) \/ Reject(n) \/ Repost(n)
                                                        \/ Acknowledge(n)
  PROVE  Paced'
  <1>0. attempt \in [AttemptIds -> AttemptRows] /\ attempt[n].elapsed \in Nat
    BY DEF Typed, AttemptRows
  <1>1. /\ attempt[n].at \in Delivering
        /\ attempt[n].elapsed + Left(n) * PerHook <= Cardinality(Hooks) * PerHook + Used(n)
    BY DEF Post, Reject, Repost, Acknowledge, Delivering, Paced
  <1> DEFINE budget == Cardinality(Hooks) * PerHook
             left == Left(n) * PerHook
  <1>2. budget \in Nat /\ left \in Nat
    BY TimesType, TodoType
  <1> HIDE DEF budget, left
  <1>3. attempt[n].elapsed + left <= budget + Used(n)
    BY <1>1 DEF budget, left
  <1>4. ASSUME attempt'[n].todo = attempt[n].todo, attempt'[n].at \in Delivering,
               attempt'[n].elapsed + left <= budget + Used(n)',
               \A m \in AttemptIds : m # n => attempt'[m] = attempt[m]
        PROVE  Paced'
    <2>1. PacedAt(n)'
      BY <1>4 DEF PacedAt, Left, left, budget
    <2>2. QED
      BY <1>4, <2>1, PacedOthers
  <1>5. CASE Post(n)
    <2>1. PICK h \in attempt[n].todo :
            attempt' = [attempt EXCEPT ![n].at = "posting", ![n].hook = h,
                                       ![n].attempts = 1, ![n].success = FALSE]
      BY <1>5 DEF Post
    <2>2. /\ attempt'[n].todo = attempt[n].todo /\ attempt'[n].at = "posting"
          /\ attempt'[n].elapsed = attempt[n].elapsed /\ attempt'[n].attempts = 1
          /\ \A m \in AttemptIds : m # n => attempt'[m] = attempt[m]
      BY <1>0, <2>1 DEF AttemptRows
    <2>3. Used(n) = 0
      BY <1>5 DEF Post, Used
    <2>4. Used(n)' = 0
      BY <2>2, TimesType DEF Used
    <2>5. QED
      BY <1>3, <1>4, <2>2, <2>3, <2>4 DEF Delivering
  <1> DEFINE k == attempt[n].attempts - 1
             used == k * PerTry
  <1>6. ASSUME attempt[n].at \in {"posting", "resting"}
        PROVE  /\ k \in Nat /\ used \in Nat /\ attempt[n].attempts = k + 1
               /\ attempt[n].attempts * PerTry = used + PerTry
               /\ attempt[n].attempts <= Tries
    <2>1. attempt[n].attempts \in 1..Tries
      BY <1>6 DEF AtHand
    <2>2. k \in Nat /\ attempt[n].attempts = k + 1 /\ attempt[n].attempts <= Tries
      BY <2>1, TimesType
    <2>3. (k + 1) * PerTry = k * PerTry + PerTry
      BY <2>2, TimesType
    <2>4. QED
      BY <2>2, <2>3, TimesType
  <1>7. CASE Reject(n) \/ Acknowledge(n)
    <2>1. PICK took \in {0, PostTimeout} :
            /\ \A m \in AttemptIds : m # n => attempt'[m] = attempt[m]
            /\ attempt'[n].todo = attempt[n].todo
            /\ attempt'[n].at \in {"resting", "settled"}
            /\ attempt'[n].elapsed = attempt[n].elapsed + took
            /\ attempt'[n].attempts = attempt[n].attempts
      BY <1>0, <1>7 DEF Reject, Acknowledge, AttemptRows
    <2>2. attempt[n].at = "posting" /\ Used(n) = used
      BY <1>7 DEF Reject, Acknowledge, Used
    <2>3. used \in Nat /\ attempt[n].attempts * PerTry = used + PerTry
      BY <1>6, <2>2
    <2>4. /\ took <= PostTimeout /\ took \in Nat /\ PostTimeout \in Nat
          /\ PostTimeout <= PerTry /\ PerTry \in Nat
      BY TimesType
    <2>5. CASE attempt'[n].at = "resting"
      <3>1. Used(n)' = used + PostTimeout
        BY <2>1, <2>5 DEF Used
      <3> HIDE DEF used, k
      <3>2. attempt'[n].elapsed + left <= budget + Used(n)'
        BY <1>0, <1>2, <1>3, <2>1, <2>2, <2>3, <2>4, <3>1
      <3>3. QED
        BY <1>4, <2>1, <2>5, <3>2 DEF Delivering
    <2>6. CASE attempt'[n].at = "settled"
      <3>1. Used(n)' = used + PerTry
        BY <2>1, <2>3, <2>6 DEF Used
      <3> HIDE DEF used, k
      <3>2. attempt'[n].elapsed + left <= budget + Used(n)'
        BY <1>0, <1>2, <1>3, <2>1, <2>2, <2>3, <2>4, <3>1
      <3>3. QED
        BY <1>4, <2>1, <2>6, <3>2 DEF Delivering
    <2>7. QED
      BY <2>1, <2>5, <2>6
  <1>8. CASE Repost(n)
    <2> DEFINE pause == Backoff * attempt[n].attempts
    <2>1. /\ \A m \in AttemptIds : m # n => attempt'[m] = attempt[m]
          /\ attempt'[n].todo = attempt[n].todo /\ attempt'[n].at = "posting"
          /\ attempt'[n].elapsed = attempt[n].elapsed + pause
          /\ attempt'[n].attempts = attempt[n].attempts + 1
      BY <1>0, <1>8 DEF Repost, AttemptRows
    <2>2. /\ attempt[n].at = "resting" /\ Used(n) = used + PostTimeout
          /\ used \in Nat /\ attempt[n].attempts * PerTry = used + PerTry
          /\ attempt[n].attempts <= Tries /\ attempt[n].attempts \in Nat
      BY <1>6, <1>8 DEF Repost, Used
    <2>3. Used(n)' = used + PerTry
      BY <2>1, <2>2 DEF Used
    <2>4. pause <= Tries * Backoff /\ pause \in Nat /\ Tries * Backoff \in Nat
      <3>1. attempt[n].attempts * Backoff <= Tries * Backoff
        BY <2>2, TimesType, ProductMonotone
      <3>2. pause = attempt[n].attempts * Backoff /\ pause \in Nat
        BY <2>2, TimesType
      <3>3. QED
        BY <3>1, <3>2, TimesType
    <2>5. PerTry = PostTimeout + Tries * Backoff /\ PostTimeout \in Nat
      BY TimesType DEF PerTry
    <2>6. attempt'[n].elapsed + left <= budget + Used(n)'
      <3> HIDE DEF pause, used
      <3>1. QED
        BY <1>0, <1>2, <1>3, <2>1, <2>2, <2>3, <2>4, <2>5
    <2>7. QED
      BY <1>4, <2>1, <2>6 DEF Delivering
  <1>9. QED
    BY <1>5, <1>7, <1>8


\* A stored row takes its webhook off the list, and with it the time it may use.
LEMMA StorePaced ==
  ASSUME Typed, Paced, NEW n \in AttemptIds, AtHand(n), Store(n)
  PROVE  Paced'
  <1>0. attempt \in [AttemptIds -> AttemptRows] /\ attempt[n].elapsed \in Nat
        /\ attempt[n].attempts \in Nat
    BY WebhookAssumption DEF Typed, AttemptRows
  <1>1. /\ attempt[n].at = "settled" /\ attempt[n].hook \in attempt[n].todo
        /\ attempt[n].attempts <= Tries
        /\ attempt[n].elapsed + Left(n) * PerHook <= Cardinality(Hooks) * PerHook + Used(n)
    BY WebhookAssumption DEF Store, AtHand, Delivering, Paced
  <1>2. /\ \A m \in AttemptIds : m # n => attempt'[m] = attempt[m]
        /\ attempt'[n].at = "next" /\ attempt'[n].elapsed = attempt[n].elapsed
        /\ attempt'[n].todo = attempt[n].todo \ {attempt[n].hook}
    BY <1>0 DEF Store, AttemptRows
  <1>3. Left(n)' = Left(n) - 1 /\ Left(n) \in Nat /\ Left(n)' \in Nat
    <2>1. IsFiniteSet(attempt[n].todo)
      BY TodoType
    <2>2. /\ IsFiniteSet(attempt[n].todo \ {attempt[n].hook})
          /\ Cardinality(attempt[n].todo \ {attempt[n].hook}) = Cardinality(attempt[n].todo) - 1
      BY <1>1, <2>1, FS_RemoveElement
    <2>3. QED
      BY <1>2, <2>1, <2>2, FS_CardinalityType DEF Left
  <1> DEFINE budget == Cardinality(Hooks) * PerHook
             before == Left(n) * PerHook
             after == Left(n)' * PerHook
  <1>4. budget \in Nat /\ before \in Nat /\ after \in Nat /\ PerHook \in Nat
    BY <1>3, TimesType
  <1>5. before = after + PerHook
    <2>1. PICK l \in Nat : l = Left(n)'
      BY <1>3
    <2>2. Left(n) = l + 1
      BY <1>3, <2>1
    <2>3. (l + 1) * PerHook = l * PerHook + PerHook
      BY <1>4
    <2>4. QED
      BY <2>1, <2>2, <2>3
  <1>6. Used(n) <= PerHook /\ Used(n) \in Nat
    <2>1. Used(n) = attempt[n].attempts * PerTry
      BY <1>1 DEF Used
    <2>2. attempt[n].attempts * PerTry <= Tries * PerTry
      BY <1>0, <1>1, TimesType, ProductMonotone
    <2>3. QED
      BY <1>0, <2>1, <2>2, TimesType DEF PerHook
  <1>7. attempt[n].elapsed + before <= budget + Used(n)
    BY <1>1
  <1> HIDE DEF budget, before, after
  <1>8. attempt[n].elapsed + after <= budget
    BY <1>0, <1>4, <1>5, <1>6, <1>7
  <1>9. PacedAt(n)'
    <2>1. Used(n)' = 0
      BY <1>2 DEF Used
    <2>2. QED
      BY <1>2, <1>4, <1>8, <2>1 DEF PacedAt, budget, after, Delivering
  <1>10. QED
    BY <1>2, <1>9, PacedOthers

\* Loading takes no time.
LEMMA LoadPaced ==
  ASSUME Typed, Paced, NEW n \in AttemptIds, Load(n)
  PROVE  Paced'
  <1> DEFINE found == {h \in Hooks : hook[h] = "enabled"}
  <1>0. attempt \in [AttemptIds -> AttemptRows]
    BY DEF Typed
  <1>1. /\ \A m \in AttemptIds : m # n => attempt'[m] = attempt[m]
        /\ attempt'[n].at = "next" /\ attempt'[n].elapsed = attempt[n].elapsed
        /\ attempt'[n].todo = found
    BY <1>0 DEF Load, AttemptRows
  <1>2. attempt[n].elapsed = 0
    BY DEF Load, Paced, Delivering
  <1>3. found \subseteq Hooks
    OBVIOUS
  <1> HIDE DEF found
  <1>4. Cardinality(found) \in Nat /\ Cardinality(found) <= Cardinality(Hooks)
    BY <1>3, FS_Subset, FS_CardinalityType, WebhookAssumption
  <1>5. Left(n)' = Cardinality(found)
    BY <1>1 DEF Left
  <1>6. Cardinality(found) * PerHook <= Cardinality(Hooks) * PerHook
    BY <1>4, TimesType, ProductMonotone
  <1>7. Used(n)' = 0
    BY <1>1 DEF Used
  <1>8. PacedAt(n)'
    <2> DEFINE l == Cardinality(found) * PerHook
               b == Cardinality(Hooks) * PerHook
    <2>1. l \in Nat /\ b \in Nat /\ l <= b
      BY <1>4, <1>6, TimesType
    <2>2. (Left(n)' * PerHook) = l
      BY <1>5
    <2> HIDE DEF l, b
    <2>3. 0 + l <= b + 0
      BY <2>1
    <2>4. QED
      BY <1>1, <1>2, <1>7, <2>2, <2>3 DEF PacedAt, Delivering, b
  <1>9. QED
    BY <1>1, <1>8, PacedOthers

\* A coroutine that ends or has only begun has spent no time.
LEMMA IdlePaced ==
  ASSUME Paced, NEW n \in AttemptIds,
         \A m \in AttemptIds : m # n => attempt'[m] = attempt[m],
         attempt'[n].at \notin Delivering, attempt'[n].elapsed = 0
  PROVE  Paced'
  <1>1. PacedAt(n)'
    BY DEF PacedAt
  <1>2. QED
    BY <1>1, PacedOthers

\* Nor does ending.
LEMMA EndPaced ==
  ASSUME Typed, Paced, NEW n \in AttemptIds, NEW how \in {"gone", "returned"}, End(n, how)
  PROVE  Paced'
  <1>1. Unstarted \in AttemptRows /\ Unstarted.elapsed = 0
    BY UnstartedType DEF Unstarted
  <1>2. /\ \A m \in AttemptIds : m # n => attempt'[m] = attempt[m]
        /\ attempt'[n] = [Unstarted EXCEPT !.at = how, !.webhooks = attempt[n].webhooks]
    BY DEF Typed, End
  <1>3. attempt'[n].at = how /\ attempt'[n].elapsed = 0
    BY <1>1, <1>2 DEF AttemptRows
  <1>4. QED
    BY <1>2, <1>3, IdlePaced DEF Delivering

\* An attempt starts with no time spent.
LEMMA StartPaced ==
  ASSUME DeliveryInv, Paced, StartAttempt
  PROVE  Paced'
  <1>1. current + 1 \in AttemptIds /\ current + 1 > current
    BY WebhookAssumption DEF DeliveryInv, Typed, AttemptIds, StartAttempt
  <1>2. PICK n \in AttemptIds : n = current + 1
    BY <1>1
  <1>3. attempt \in [AttemptIds -> AttemptRows] /\ attempt[n].at = "idle"
    BY <1>1, <1>2 DEF DeliveryInv, Typed, OneByOne
  <1>4. /\ \A m \in AttemptIds : m # n => attempt'[m] = attempt[m]
        /\ attempt'[n].at = "loading" /\ attempt'[n].elapsed = attempt[n].elapsed
    BY <1>2, <1>3 DEF StartAttempt, AttemptRows
  <1>5. attempt[n].elapsed = 0
    BY <1>3 DEF Paced, Delivering
  <1>6. QED
    BY <1>4, <1>5, IdlePaced DEF Delivering

\* Every step keeps each attempt within its time.
LEMMA PacedNext == DeliveryInv /\ Paced /\ [Next]_vars => Paced'
  <1> SUFFICES ASSUME DeliveryInv, Paced, [Next]_vars
               PROVE  Paced'
    OBVIOUS
  <1>0. Typed /\ \A n \in AttemptIds : AtHand(n)
    BY DEF DeliveryInv, AttemptInv
  <1>1. ASSUME UNCHANGED attempt
        PROVE  Paced'
    BY <1>1 DEF Paced, Left, Used
  <1>2. ASSUME NEW n \in AttemptIds, Activity(n)
        PROVE  Paced'
    BY <1>0, <1>2, LoadPaced, TryPaced, StorePaced, EndPaced DEF Activity, Return
  <1>3. ASSUME NEW n \in AttemptIds, Lose(n) \/ Cancel(n)
        PROVE  Paced'
    BY <1>0, <1>3, EndPaced DEF Lose, Cancel
  <1>4. ASSUME NEW h \in Hooks, CreateWebhook(h) \/ DisableWebhook(h)
        PROVE  Paced'
    BY <1>1, <1>4 DEF CreateWebhook, DisableWebhook
  <1>5. ASSUME Abandon
        PROVE  Paced'
    BY <1>1, <1>5 DEF Abandon
  <1>6. QED
    BY <1>1, <1>2, <1>3, <1>4, <1>5, StartPaced DEF Next, vars

\* No time is spent yet.
LEMMA InitPaced == Init => Paced
  BY DEF Init, Paced, Unstarted, Delivering

\* An attempt never takes longer than posting to every endpoint of the tenant the
\* full number of times, each post and each pause at its longest.
LEMMA PacedBound ==
  ASSUME DeliveryInv, Paced, NEW n \in AttemptIds
  PROVE  attempt[n].elapsed \in 0..Longest
  <1> DEFINE budget == Cardinality(Hooks) * PerHook
             left == Left(n) * PerHook
  <1>0. /\ attempt[n].elapsed \in Nat /\ budget \in Nat /\ left \in Nat /\ PerHook \in Nat
        /\ AtHand(n) /\ Typed
    BY TimesType, TodoType DEF DeliveryInv, AttemptInv, Typed, AttemptRows
  <1>1. Longest = budget
    <2>1. Cardinality(Hooks) \in Nat /\ Tries \in Nat /\ PerTry \in Nat
      BY TimesType
    <2>2. Longest = (Cardinality(Hooks) * Tries) * PerTry
      BY DEF Longest, PerTry
    <2>3. (Cardinality(Hooks) * Tries) * PerTry = Cardinality(Hooks) * (Tries * PerTry)
      BY <2>1
    <2>4. QED
      BY <2>2, <2>3 DEF PerHook
  <1>2. CASE attempt[n].at \notin Delivering
    BY <1>0, <1>1, <1>2 DEF Paced
  <1>3. CASE attempt[n].at = "next"
    <2>1. attempt[n].elapsed + left <= budget + 0
      BY <1>3 DEF Paced, Used, Delivering
    <2> HIDE DEF left, budget
    <2>2. QED
      BY <1>0, <1>1, <2>1
  <1>4. CASE attempt[n].at \in {"posting", "resting", "settled"}
    <2>1. attempt[n].hook \in attempt[n].todo /\ attempt[n].attempts \in 1..Tries
      BY <1>0, <1>4 DEF AtHand
    <2>2. 1 <= Left(n) /\ Left(n) \in Nat
      <3>1. Cardinality(attempt[n].todo) # 0
        BY <1>0, <2>1, TodoType, FS_EmptySet
      <3>2. QED
        BY <1>0, <3>1, TodoType DEF Left
    <2>3. PerHook <= left
      <3>1. 1 * PerHook <= Left(n) * PerHook
        BY <1>0, <2>2, ProductMonotone
      <3>2. QED
        BY <1>0, <3>1
    <2>4. Used(n) \in Nat /\ Used(n) <= PerHook
      <3> DEFINE k == attempt[n].attempts - 1
      <3>1. /\ k \in Nat /\ attempt[n].attempts = k + 1 /\ attempt[n].attempts \in Nat
            /\ attempt[n].attempts <= Tries
        BY <2>1, TimesType
      <3>2. /\ k * PerTry \in Nat /\ attempt[n].attempts * PerTry = k * PerTry + PerTry
            /\ attempt[n].attempts * PerTry \in Nat
        <4> HIDE DEF k
        <4>1. (k + 1) * PerTry = k * PerTry + PerTry
          BY <3>1, TimesType
        <4>2. QED
          BY <3>1, <4>1, TimesType
      <3>3. attempt[n].attempts * PerTry <= Tries * PerTry
        BY <3>1, TimesType, ProductMonotone
      <3>4. /\ attempt[n].at = "posting" => Used(n) = k * PerTry
            /\ attempt[n].at = "resting" => Used(n) = k * PerTry + PostTimeout
            /\ attempt[n].at = "settled" => Used(n) = attempt[n].attempts * PerTry
        BY DEF Used
      <3> DEFINE spent == k * PerTry
                 full == attempt[n].attempts * PerTry
                 whole == Tries * PerTry
      <3>5. /\ spent \in Nat /\ full = spent + PerTry /\ full <= whole /\ whole \in Nat
            /\ PerHook = whole /\ PostTimeout \in Nat /\ PerTry \in Nat
            /\ PostTimeout <= PerTry
        BY <3>2, <3>3, TimesType DEF PerHook
      <3>6. /\ attempt[n].at = "posting" => Used(n) = spent
            /\ attempt[n].at = "resting" => Used(n) = spent + PostTimeout
            /\ attempt[n].at = "settled" => Used(n) = full
        BY <3>4
      <3> HIDE DEF spent, full, whole
      <3>7. QED
        BY <1>4, <3>5, <3>6
    <2>5. attempt[n].elapsed + left <= budget + Used(n)
      BY <1>4 DEF Paced, Delivering
    <2> HIDE DEF left, budget
    <2>6. QED
      BY <1>0, <1>1, <2>3, <2>4, <2>5
  <1>5. QED
    BY <1>2, <1>3, <1>4 DEF Delivering

\* Every variable keeps its type, and with it an attempt's time its bound: each
\* webhook at most Tries posts of PostTimeout and a pause after each
\* (activities.py:505-539).
THEOREM TypeCorrect == Spec => []TypeOK
  <1>1. DeliveryInv /\ Paced => TypeOK
    <2> SUFFICES ASSUME DeliveryInv, Paced
                 PROVE  TypeOK
      OBVIOUS
    <2>1. ASSUME NEW n \in AttemptIds
          PROVE  attempt[n] \in Attempt
      <3>1. attempt[n] \in AttemptRows /\ attempt[n].elapsed \in 0..Longest
        BY PacedBound DEF DeliveryInv, Typed
      <3> HIDE DEF Longest, Stages
      <3>2. QED
        BY <3>1 DEF Attempt, AttemptRows
    <2>2. attempt \in [AttemptIds -> Attempt]
      BY <2>1 DEF DeliveryInv, Typed
    <2>3. QED
      BY <2>2 DEF DeliveryInv, Typed, TypeOK
  <1>2. Init => DeliveryInv /\ Paced
    BY InitDelivery, InitPaced
  <1>3. DeliveryInv /\ Paced /\ [Next]_vars => DeliveryInv' /\ Paced'
    BY DeliveryNext, PacedNext
  <1>4. QED
    BY <1>1, <1>2, <1>3, PTL DEF Spec
==============================================================================
