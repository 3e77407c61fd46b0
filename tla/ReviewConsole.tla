----------------------------- MODULE ReviewConsole -----------------------------
(***************************************************************************)
(* One reviewer's console over the review queue: the cached list of cases, *)
(* the fetches that fill it, the claims and decisions that change it ahead *)
(* of the server, and the event stream that tells it to fetch again.       *)
(*                                                                         *)
(* The queue is `cases WHERE status = 'needs_review'': a row of it is a    *)
(* case that is absent, unclaimed, or claimed by me or by another          *)
(* reviewer.  Whatever changes that sends its NOTIFY in the same           *)
(* transaction; a new risk score of a queued case, which the list shows    *)
(* too and nothing announces, is left out.  An event names no news, it     *)
(* only invalidates.                                                       *)
(***************************************************************************)
EXTENDS Integers

CONSTANTS
  Cases,
  MaxMutations, \* bound on the claims and decisions this console makes
  MaxChanges,   \* bound on what others do to the queue
  MaxFaults     \* bound on lost connections and failed requests

ASSUME ConsoleAssumption ==
  Cases # {} /\ {MaxMutations, MaxChanges, MaxFaults} \subseteq Nat

VARIABLES
  queue,     \* the queue in the database
  stream,    \* GET /events/stream: down, open (the server LISTENs), or deaf (it no
             \* longer does, which neither side can tell)
  events,    \* frames on their way to the console
  session,   \* active, revoked (the token), or ended (back at /connect)
  loaded,    \* has the query ever been answered?
  cache,     \* what the console shows
  fetch,     \* the query's request: idle, sent, or answered with `rows'
  mutation,  \* each mutation: unused, sent, answered or settled
  missed,    \* why no read may be coming that shows a change gone by, if so
  changes, faults

vars == <<queue, stream, events, session, loaded, cache, fetch, mutation, missed,
          changes, faults>>

Mutations == 1..MaxMutations
Row == {"absent", "unclaimed", "me", "other"}
Kinds == {"claim", "approve", "escalate"}

Empty == [k \in Cases |-> "absent"]
NoList == [k \in Cases |-> "unknown"]
Idle == [at |-> "idle", rows |-> Empty]
Sent == [Idle EXCEPT !.at = "sent"]

Unused == [at |-> "unused", kind |-> "claim", case |-> CHOOSE k \in Cases : TRUE,
           ok |-> FALSE, previous |-> NoList]

Init ==
  /\ queue \in [Cases -> {"absent", "unclaimed"}]
  /\ stream = "down" /\ events = 0
  /\ session = "active"
  /\ loaded = FALSE /\ cache = Empty
  /\ fetch = Sent
  /\ mutation = [m \in Mutations |-> Unused]
  /\ missed = "nothing" /\ changes = 0 /\ faults = 0

-------------------------------------------------------------------------------
(* The database *)

\* Bug: the handler notifies and so does the helper it calls.
CommitNotifyingTwice(k, row) ==
  /\ queue' = [queue EXCEPT ![k] = row]
  /\ IF stream = "open" THEN events' = events + 2 /\ UNCHANGED missed
     ELSE missed' = "unheard" /\ UNCHANGED events

\* A transaction changes a row and notifies; the notification reaches the
\* streams that LISTEN when it commits, and no other.
Commit(k, row) ==
  /\ queue' = [queue EXCEPT ![k] = row]
  /\ IF stream = "open" THEN events' = events + 1 /\ UNCHANGED missed
     ELSE missed' = "unheard" /\ UNCHANGED events

\* A workflow parks or finalizes a case, or another reviewer claims it.
OthersChange ==
  /\ changes < MaxChanges /\ session # "ended" /\ changes' = changes + 1
  /\ \E k \in Cases : \E row \in Row \ {"me", queue[k]} : Commit(k, row)
  /\ UNCHANGED <<stream, session, loaded, cache, fetch, mutation, faults>>

\* An administrator revokes the reviewer's token.
Revoke ==
  /\ session = "active" /\ session' = "revoked"
  /\ UNCHANGED <<queue, stream, events, loaded, cache, fetch, mutation, missed, changes, faults>>

\* A request that meets a 401 ends the session, and with it the console: what is
\* still on its way is not followed any further.
Ends(request) ==
  /\ request /\ session = "revoked"
  /\ session' = "ended"
  /\ stream' = "down" /\ events' = 0 /\ fetch' = Idle
  /\ UNCHANGED <<queue, loaded, cache, mutation, missed, changes, faults>>

-------------------------------------------------------------------------------
(* The event stream *)

\* With no stream, the console sends the request (1 to 30 seconds after the drop),
\* the token is checked and a dedicated connection LISTENs.  A 401 is one more
\* reason to try again, and nothing more.
Listen ==
  /\ stream = "down" /\ session = "active"
  /\ stream' = "open"
  /\ UNCHANGED <<queue, events, session, loaded, cache, fetch, mutation, missed, changes, faults>>

\* The server's dedicated connection to the database is lost, and with it the
\* notifications that have not reached the server. The stream stays up: keep-alives
\* go on, nothing LISTENs again, and the console has nothing to notice.
LoseListener ==
  /\ stream = "open" /\ session # "ended" /\ faults < MaxFaults
  /\ faults' = faults + 1
  /\ stream' = "deaf" /\ events' \in 0..events
  /\ missed' = IF events' < events THEN "unheard" ELSE missed
  /\ UNCHANGED <<queue, session, loaded, cache, fetch, mutation, changes>>

\* The console's connection is lost, and with it the frames on their way.
Cut ==
  /\ stream # "down" /\ session # "ended" /\ faults < MaxFaults
  /\ faults' = faults + 1
  /\ stream' = "down" /\ events' = 0
  /\ missed' = IF events > 0 THEN "unheard" ELSE missed
  /\ UNCHANGED <<queue, session, loaded, cache, fetch, mutation, changes>>

\* Bug: { cancelRefetch: false }, so that a fetch in flight is always joined.
InvalidatedJoining == IF fetch.at = "idle" THEN Sent ELSE fetch

\* invalidateQueries: fetch again, giving up a fetch in flight, unless that is
\* the first load, which is joined.
Invalidated == IF fetch.at = "idle" \/ loaded THEN Sent ELSE fetch

\* The join loses the event if the database has been read already.
JoinsLate == ~loaded /\ fetch.at = "answered"

\* handleFrame
Deliver ==
  /\ events > 0 /\ events' = events - 1
  /\ fetch' = Invalidated
  /\ missed' = IF JoinsLate THEN "joined" ELSE missed
  /\ UNCHANGED <<queue, stream, session, loaded, cache, mutation, changes, faults>>

-------------------------------------------------------------------------------
(* The query *)

\* GET /review/cases reads the queue.
Serve ==
  /\ fetch.at = "sent" /\ session = "active"
  /\ fetch' = [fetch EXCEPT !.at = "answered", !.rows = queue]
  /\ missed' = "nothing"
  /\ UNCHANGED <<queue, stream, events, session, loaded, cache, mutation, changes, faults>>

Respond ==
  /\ fetch.at = "answered"
  /\ loaded' = TRUE /\ cache' = fetch.rows /\ fetch' = Idle
  /\ UNCHANGED <<queue, stream, events, session, mutation, missed, changes, faults>>

\* A request is lost, refused by the rate limiter or answered with a 5xx: it is
\* tried again, or has failed three times and the cache stays as it is.
FetchFails ==
  /\ fetch.at # "idle" /\ faults < MaxFaults
  /\ faults' = faults + 1
  /\ \/ fetch' = Sent /\ UNCHANGED missed
     \/ fetch' = Idle /\ missed' = "unread"
  /\ UNCHANGED <<queue, stream, events, session, loaded, cache, mutation, changes>>

-------------------------------------------------------------------------------
(* Claims and decisions *)

\* What onMutate shows before the server has answered.
Optimistic(kind, k) ==
  CASE kind = "claim" /\ cache[k] # "absent" -> [cache EXCEPT ![k] = "you"]
    [] kind = "approve" -> [cache EXCEPT ![k] = "absent"]
    [] OTHER -> cache

\* onMutate gives up the fetch in flight, remembers the list and changes it.
Mutate(m, kind, k) ==
  /\ mutation[m].at = "unused" /\ \A n \in 1..(m - 1) : mutation[n].at # "unused"
  /\ session # "ended"
  /\ mutation' = [mutation EXCEPT ![m] = [at |-> "sent", kind |-> kind, case |-> k, ok |-> FALSE,
                                          previous |-> IF loaded THEN cache ELSE NoList]]
  /\ fetch' = Idle
  /\ cache' = Optimistic(kind, k)
  /\ UNCHANGED <<queue, stream, events, session, loaded, missed, changes, faults>>

\* The claim's UPDATE, or the decision's check and INSERT; a case that is not
\* awaiting review is a 404 or a 409.  A decision moves the row only when the
\* workflow gets to it, which is one of OthersChange.
ServeMutation(m) ==
  LET k == mutation[m].case
  IN  /\ mutation[m].at = "sent" /\ session = "active"
      /\ mutation' = [mutation EXCEPT ![m].at = "answered", ![m].ok = (queue[k] # "absent")]
      /\ IF mutation[m].kind = "claim" /\ queue[k] # "absent"
         THEN Commit(k, "me") ELSE UNCHANGED <<queue, events, missed>>
      /\ UNCHANGED <<stream, session, loaded, cache, fetch, changes, faults>>

\* The request is lost before the server sees it, or its answer after.
MutationFails(m) ==
  /\ mutation[m].at \in {"sent", "answered"} /\ session # "ended" /\ faults < MaxFaults
  /\ faults' = faults + 1
  /\ mutation' = [mutation EXCEPT ![m].at = "answered", ![m].ok = FALSE]
  /\ UNCHANGED <<queue, stream, events, session, loaded, cache, fetch, missed, changes>>

\* Bug: only a mutation that succeeded invalidates (onSuccess for onSettled).
SettleOnSuccess(m) ==
  /\ mutation[m].at = "answered" /\ session # "ended"
  /\ mutation' = [mutation EXCEPT ![m] = [Unused EXCEPT !.at = "settled"]]
  /\ cache' = IF ~mutation[m].ok /\ mutation[m].previous # NoList THEN mutation[m].previous ELSE cache
  /\ IF mutation[m].ok
     THEN fetch' = Invalidated /\ missed' = IF JoinsLate THEN "joined" ELSE missed
     ELSE UNCHANGED <<fetch, missed>>
  /\ UNCHANGED <<queue, stream, events, session, loaded, changes, faults>>

\* onError puts the remembered list back; onSettled invalidates either way.
Settle(m) ==
  /\ mutation[m].at = "answered" /\ session # "ended"
  /\ mutation' = [mutation EXCEPT ![m] = [Unused EXCEPT !.at = "settled"]]
  /\ cache' = IF ~mutation[m].ok /\ mutation[m].previous # NoList THEN mutation[m].previous ELSE cache
  /\ fetch' = Invalidated /\ missed' = IF JoinsLate THEN "joined" ELSE missed
  /\ UNCHANGED <<queue, stream, events, session, loaded, changes, faults>>

-------------------------------------------------------------------------------

Asking == fetch.at = "sent" \/ \E m \in Mutations : mutation[m].at = "sent"

Next ==
  \/ OthersChange \/ Revoke \/ Ends(Asking)
  \/ Listen \/ LoseListener \/ Cut \/ Deliver
  \/ Serve \/ Respond \/ FetchFails
  \/ \E m \in Mutations :
       \/ \E kind \in Kinds, k \in Cases : Mutate(m, kind, k)
       \/ ServeMutation(m) \/ MutationFails(m) \/ Settle(m)

\* A request is answered sooner or later, frames arrive on a connection that is not
\* cut, and a console without a stream connects again (1 to 30 seconds later). A
\* deaf stream need never end: nothing in the code ends it.
Fairness ==
  /\ WF_vars(Listen) /\ WF_vars(Deliver)
  /\ WF_vars(Serve) /\ WF_vars(Respond) /\ WF_vars(Ends(Asking))
  /\ \A m \in Mutations : WF_vars(ServeMutation(m)) /\ WF_vars(Settle(m))

Spec == Init /\ [][Next]_vars /\ Fairness

-------------------------------------------------------------------------------
(* Properties *)

TypeOK ==
  /\ queue \in [Cases -> Row]
  /\ stream \in {"down", "open", "deaf"}
  /\ events \in 0..(MaxChanges + MaxMutations)
  /\ session \in {"active", "revoked", "ended"}
  /\ loaded \in BOOLEAN /\ missed \in {"nothing", "unheard", "joined", "unread"}
  /\ cache \in [Cases -> Row \cup {"you"}]
  /\ fetch \in [at : {"idle", "sent", "answered"}, rows : [Cases -> Row]]
  /\ mutation \in [Mutations -> [at : {"unused", "sent", "answered", "settled"}, kind : Kinds,
                                 case : Cases, ok : BOOLEAN,
                                 previous : [Cases -> Row \cup {"you", "unknown"}]]]
  /\ changes \in 0..MaxChanges /\ faults \in 0..MaxFaults

\* The console shows the queue as it is.
UpToDate == loaded /\ cache = queue

\* The `you' of a claim nobody has confirmed does not stay: either its mutation
\* or a fetch that will replace it is under way, even when the rollbacks of two
\* mutations cross and the later one puts back a list that holds the other's `you';
\* unless `missed' names a change or a failed fetch since the last read of the
\* queue. (use-api.ts:42-57, 66-79.)
PlaceholderIsTemporary ==
  (\E k \in Cases : cache[k] = "you") /\ session # "ended" /\ missed = "nothing" =>
    \/ fetch.at # "idle"
    \/ \E m \in Mutations : mutation[m].at \in {"sent", "answered"}

\* When nothing changes any more the console shows the queue as it is, however
\* events, answers, cancelled fetches, optimistic changes and rollbacks have
\* crossed, unless a change was missed: committed while nothing LISTENed (no stream,
\* or one whose database connection is gone), lost with a connection, met by a
\* first load that had read already, or to be read by a fetch that failed three
\* times. (main.py:443-480 and 1009-1042,
\* use-case-events.ts:47-60, use-api.ts:27-80.)
Converges == <>[](UpToDate \/ missed # "nothing" \/ session = "ended")
==============================================================================
