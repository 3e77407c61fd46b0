------------------------------ MODULE AuditChain ------------------------------
(***************************************************************************)
(* The hash-chained audit_log and everyone who appends to it at once: the  *)
(* intake handlers, which record one event each, and the attempts of the   *)
(* workers' activities, which record `.started`, do their work and record  *)
(* `.completed` or `.failed`.  Both services append to one chain per       *)
(* tenant, each through a pool of connections of its own.                  *)
(*                                                                         *)
(* record() is a READ COMMITTED transaction of four statements under an    *)
(* advisory lock; a statement sees what was committed when it began.  The  *)
(* row's id comes from a sequence, which no rollback gives back.           *)
(***************************************************************************)
EXTENDS Naturals, FiniteSets

CONSTANTS
  Writers,      \* concurrent callers of record()
  Attempts,     \* those of them that are attempts of an activity
  Tenants, Services,
  BodyOf,       \* how many transactions the body of an attempt commits
  TenantOf,     \* the tenant each writer records for
  ServiceOf,    \* the service each writer runs in
  PoolSize,     \* connections of a service's pool (10 in the code)
  Tampering     \* may the table's owner change one row by hand?

ASSUME AuditAssumption ==
  /\ Attempts \subseteq Writers
  /\ BodyOf \in [Attempts -> Nat]
  /\ TenantOf \in [Writers -> Tenants]
  /\ ServiceOf \in [Writers -> Services]
  /\ PoolSize \in Nat \ {0}
  /\ Tampering \in BOOLEAN

VARIABLES
  rows,      \* committed audit_log rows
  nextId,    \* the id sequence
  writer,    \* where each writer is, what it records and under which id
  head,      \* the hash each writer has read
  worked,    \* how many transactions of each attempt's body are durable
  raised,    \* the attempts whose body has raised
  tampered   \* tenants one of whose rows was changed by hand

vars == <<rows, nextId, writer, head, worked, raised, tampered>>

------------------------------------------------------------------------------
(* Rows.  A hash is the tuple it digests: distinct inputs, distinct hashes. *)
(* An absent field is digested as the empty string, so that an absent and  *)
(* an empty one hash alike; no field of this model can be either.          *)

NoHash == <<>>
ComputeRowHash(tenant, by, event, prev) == <<tenant, by, event, prev>>

Row(w, id, event, prev) ==
  [id |-> id, tenant |-> TenantOf[w], by |-> w, event |-> event,
   prev |-> prev, hash |-> ComputeRowHash(TenantOf[w], w, event, prev)]

Chain(t) == {r \in rows : r.tenant = t}
Before(r) == {q \in Chain(r.tenant) : q.id < r.id}

\* q is the row of S with the largest id.
IsLast(q, S) == q \in S /\ \A p \in S : p.id <= q.id

\* The row_hash of the last row of S, if it has one.
IsHead(h, S) ==
  \/ S = {} /\ h = NoHash
  \/ \E q \in S : IsLast(q, S) /\ h = q.hash

------------------------------------------------------------------------------
(* verify_audit_chain.py *)

LinkHolds(r) == IsHead(r.prev, Before(r))
\* Bug: a verifier that walks the links and recomputes nothing.
HashHoldsUnchecked(r) == TRUE

HashHolds(r) == r.hash = ComputeRowHash(r.tenant, r.by, r.event, r.prev)
Verifies(t) == \A r \in Chain(t) : LinkHolds(r) /\ HashHolds(r)

------------------------------------------------------------------------------
(* Writers *)

Outcomes == {"recorded", "started", "completed", "failed"}
Stages == {"ready", "connected", "locked", "read", "inserted", "work",
           "working", "done", "dead"}
Locking == {"locked", "read", "inserted"}
Connected == Locking \union {"connected", "working"}

\* Bug: intake handlers wrap their one record() in audited() as well.
StartOfAll(w) == "started"

Start(w) == IF w \in Attempts THEN "started" ELSE "recorded"

Init ==
  /\ rows = {}
  /\ nextId = 1
  /\ writer = [w \in Writers |-> [at |-> "ready", event |-> Start(w),
                                  id |-> 0]]
  /\ head = [w \in Writers |-> NoHash]
  /\ worked = [w \in Attempts |-> 0]
  /\ raised = {}
  /\ tampered = {}

\* Bug: an activity records its outcome while it still holds its connection.
PoolFreeNested(s) ==
  Cardinality({v \in Writers : ServiceOf[v] = s
                 /\ \/ writer[v].at \in Connected
                    \/ /\ writer[v].at = "ready"
                       /\ writer[v].event \in {"completed", "failed"}})
    < PoolSize

PoolFree(s) ==
  Cardinality({v \in Writers : ServiceOf[v] = s /\ writer[v].at \in Connected})
    < PoolSize

\* Bug: no advisory lock, the race the comment in record() describes.
LockFreeUnlocked(t) == TRUE

\* Bug: pg_advisory_unlock after the INSERT, not at the end of the transaction.
LockFreeEarly(t) ==
  \A v \in Writers : TenantOf[v] = t => writer[v].at \notin {"locked", "read"}

LockFree(t) ==
  \A v \in Writers : TenantOf[v] = t => writer[v].at \notin Locking

Goto(w, from, to) ==
  /\ writer[w].at = from
  /\ writer' = [writer EXCEPT ![w].at = to]

\* pool.acquire(), BEGIN and the tenant's set_config.
Connect(w) ==
  /\ Goto(w, "ready", "connected")
  /\ PoolFree(ServiceOf[w])
  /\ UNCHANGED <<rows, nextId, head, worked, raised, tampered>>

\* pg_advisory_xact_lock.
Lock(w) ==
  /\ Goto(w, "connected", "locked")
  /\ LockFree(TenantOf[w])
  /\ UNCHANGED <<rows, nextId, head, worked, raised, tampered>>

\* SELECT row_hash ... ORDER BY id DESC LIMIT 1.
ReadHead(w) ==
  /\ Goto(w, "locked", "read")
  /\ \E h \in {NoHash} \union {r.hash : r \in Chain(TenantOf[w])} :
       /\ IsHead(h, Chain(TenantOf[w]))
       /\ head' = [head EXCEPT ![w] = h]
  /\ UNCHANGED <<rows, nextId, worked, raised, tampered>>

\* INSERT takes the next id; the row stays invisible until the commit.
Insert(w) ==
  /\ writer[w].at = "read"
  /\ writer' = [writer EXCEPT ![w].at = "inserted", ![w].id = nextId]
  /\ nextId' = nextId + 1
  /\ UNCHANGED <<rows, head, worked, raised, tampered>>

AfterRecord(w) == IF writer[w].event = "started" THEN "work" ELSE "done"

\* COMMIT: the row is visible, then the lock and the connection are free.
Commit(w) ==
  /\ Goto(w, "inserted", AfterRecord(w))
  /\ rows' = rows \union
       {Row(w, writer[w].id, writer[w].event, head[w])}
  /\ UNCHANGED <<nextId, head, worked, raised, tampered>>

\* The body of audited(): a transaction of its own, on a pooled connection, for
\* everything it reads or writes (one per endpoint in deliver_webhooks_activity).
Work(w) ==
  /\ writer[w].at = "work" /\ worked[w] < BodyOf[w]
  /\ PoolFree(ServiceOf[w])
  /\ Goto(w, "work", "working")
  /\ UNCHANGED <<rows, nextId, head, worked, raised, tampered>>

WorkDone(w) ==
  /\ Goto(w, "working", "work")
  /\ worked' = [worked EXCEPT ![w] = @ + 1]
  /\ UNCHANGED <<rows, nextId, head, raised, tampered>>

Exit(w, outcome) ==
  writer' = [writer EXCEPT ![w].at = "ready", ![w].event = outcome]

\* The body returns.
WorkEnds(w) ==
  /\ writer[w].at = "work" /\ worked[w] = BodyOf[w]
  /\ Exit(w, "completed")
  /\ UNCHANGED <<rows, nextId, head, worked, raised, tampered>>

\* The body raises, outside its transactions or inside one; that one is rolled
\* back, unless it was the answer to its COMMIT that was lost.
RaisedAfter(w) ==
  /\ raised' = raised \union {w}
  /\ \/ writer[w].at \in {"work", "working"} /\ UNCHANGED worked
     \/ writer[w].at = "working" /\ worked' = [worked EXCEPT ![w] = @ + 1]
  /\ UNCHANGED <<rows, nextId, head, tampered>>

\* Bug: `finally` for `except`, a raised body is recorded as completed.
WorkRaisesQuietly(w) == RaisedAfter(w) /\ Exit(w, "completed")

WorkRaises(w) == RaisedAfter(w) /\ Exit(w, "failed")

\* record() itself raises and its transaction rolls back, or the attempt is
\* cancelled, which audited() does not catch: the caller ends without an outcome.
Abort(w) ==
  /\ writer[w].at \in Connected \union {"work"}
  /\ writer' = [writer EXCEPT ![w].at = "dead"]
  /\ UNCHANGED <<rows, nextId, head, worked, raised, tampered>>

\* A service's process dies and takes its callers with it.
Crash(s) ==
  /\ \E w \in Writers : ServiceOf[w] = s /\ writer[w].at \notin {"done", "dead"}
  /\ writer' = [w \in Writers |->
       IF ServiceOf[w] = s /\ writer[w].at # "done"
       THEN [writer[w] EXCEPT !.at = "dead"] ELSE writer[w]]
  /\ UNCHANGED <<rows, nextId, head, worked, raised, tampered>>

------------------------------------------------------------------------------
(* What the verifier is for: the owner of the table changes one row.       *)

Tamper(t) ==
  /\ Tampering /\ tampered = {}
  /\ tampered' = {t}
  /\ UNCHANGED <<nextId, writer, head, worked, raised>>

\* UPDATE of a column that is hashed.
Edit(r) ==
  /\ Tamper(r.tenant)
  /\ rows' = (rows \ {r}) \union {[r EXCEPT !.event = "edited"]}

\* DELETE of a row that others follow; nothing follows the last one.
Delete(r) ==
  /\ Tamper(r.tenant)
  /\ \E q \in Chain(r.tenant) : q.id > r.id
  /\ rows' = rows \ {r}

\* Two rows trade places.
Swap(r, q) ==
  /\ q \in Before(r)
  /\ Tamper(r.tenant)
  /\ rows' = (rows \ {r, q})
               \union {[r EXCEPT !.id = q.id], [q EXCEPT !.id = r.id]}

------------------------------------------------------------------------------
Progress(w) ==
  \/ Connect(w) \/ Lock(w) \/ ReadHead(w) \/ Insert(w) \/ Commit(w)
  \/ Work(w) \/ WorkDone(w) \/ WorkEnds(w)

Next ==
  \/ \E w \in Writers : Progress(w) \/ WorkRaises(w) \/ Abort(w)
  \/ \E s \in Services : Crash(s)
  \/ \E r \in rows : Edit(r) \/ Delete(r) \/ \E q \in rows : Swap(r, q)

\* The event loop and the database run what can run; nobody has to crash,
\* raise or tamper.
Spec ==
  Init /\ [][Next]_vars /\ \A w \in Writers : WF_vars(Progress(w))

------------------------------------------------------------------------------
(* Properties *)

TypeOK ==
  /\ \A r \in rows :
       /\ r.id \in Nat /\ r.tenant \in Tenants /\ r.by \in Writers
       /\ r.event \in Outcomes \union {"edited"}
  /\ nextId \in Nat \ {0}
  /\ writer \in [Writers -> [at : Stages, event : Outcomes, id : Nat]]
  /\ Attempts = {w \in Writers : writer[w].event # "recorded"}
  /\ head = [w \in Writers |-> head[w]]
  /\ worked \in [Attempts -> Nat]
  /\ \A w \in Attempts : worked[w] <= BodyOf[w]
  /\ raised \subseteq Attempts
  /\ tampered \subseteq Tenants

(* What ChainIntact rests on: one writer of a chain at a time, and what it *)
(* has read and reserved is not outdated.                                  *)
LockExclusive ==
  \A v, w \in Writers :
    /\ TenantOf[v] = TenantOf[w]
    /\ writer[v].at \in Locking /\ writer[w].at \in Locking
    => v = w

IdsReserved == \A r \in rows : r.id \in Nat /\ r.id < nextId

HeadIsFresh ==
  \A w \in Writers :
    TenantOf[w] \notin tampered /\ writer[w].at \in {"read", "inserted"} =>
      IsHead(head[w], Chain(TenantOf[w]))

IdIsFresh ==
  \A w \in Writers : writer[w].at = "inserted" =>
    /\ writer[w].id < nextId
    /\ \A r \in Chain(TenantOf[w]) : r.id < writer[w].id

\* Any interleaving of writers of both services, with rollbacks and crashes
\* between any two statements, leaves chains the verifier accepts: no fork,
\* no gap, and no alarm about any chain but the one that was changed by hand
\* (record() and its advisory lock, pipeline/audit.py:33-75).
ChainIntact == \A t \in Tenants \ tampered : Verifies(t)

ChainInv ==
  LockExclusive /\ IdsReserved /\ IdIsFresh /\ HeadIsFresh /\ ChainIntact

\* One row edited, deleted from the middle or moved is reported, whatever is
\* appended before and afterwards (verify_chain, lines 33-73).
TamperEvident == \A t \in tampered : ~Verifies(t)

\* The trail tells the outcome of an attempt: nothing of its body is durable
\* before its `.started` row, `.completed` stands for a body that has returned
\* with all of its transactions durable, `.failed` for one that has raised
\* (which may leave those before durable, and the last one when the answer to
\* its COMMIT was lost); each follows the one `.started` row, never both, and an
\* attempt that ended normally has its outcome on record.  A change by hand
\* takes this from its own tenant only (audited(), lines 91-128).
Recorded(w, e) == {r \in rows : r.by = w /\ r.event = e}
TrailTellsOutcome ==
  \A w \in Attempts : TenantOf[w] \notin tampered =>
    /\ worked[w] > 0 \/ w \in raised => Recorded(w, "started") # {}
    /\ Recorded(w, "completed") # {} => worked[w] = BodyOf[w] /\ w \notin raised
    /\ Recorded(w, "failed") # {} => w \in raised
    /\ \A r \in Recorded(w, "completed") \union Recorded(w, "failed") :
         \E q \in Recorded(w, "started") : q.id < r.id
    /\ Cardinality(Recorded(w, "completed") \union Recorded(w, "failed")) <= 1
    /\ writer[w].at = "done" =>
         Recorded(w, IF w \in raised THEN "failed" ELSE "completed") # {}

\* A chain only grows, and only at its end: a reader who has seen a row has
\* seen every row of that tenant with a smaller id (002_multi_tenancy.sql:104-106
\* and the lock around nextval and commit).
AppendsAtTheEnd ==
  [][\A t \in Tenants \ tampered' :
       /\ Chain(t) \subseteq Chain(t)'
       /\ \A r \in Chain(t)' \ Chain(t) : \A q \in Chain(t) : q.id < r.id]_vars

(* The rows of a tenant in the order of their ids, which is how the        *)
(* verifier and the console read them.                                     *)
Position(r) == Cardinality({q \in Chain(r.tenant) : q.id <= r.id})
RowAt(t, n) == CHOOSE r \in Chain(t) : Position(r) = n
Entry(r) == [by |-> r.by, event |-> r.event]
Entries(t) ==
  IF t \in tampered THEN <<>>
  ELSE [n \in 1..Cardinality(Chain(t)) |-> Entry(RowAt(t, n))]

Log == INSTANCE AuditLog
         WITH log <- [t \in Tenants |-> Entries(t)], distrusted <- tampered

\* To whoever reads it in the order of ids the table is a log that grows by
\* one true statement at a time: nothing is inserted before a row somebody
\* has read, nothing is said twice, no outcome is told that the body did not
\* have, and a change by hand spoils only the log it was made in (record()
\* and audited(), pipeline/audit.py:17-128; ORDER BY id,
\* verify_audit_chain.py:81-88).
ImplementsLog == Log!Spec

\* Every caller of record() ends: neither the lock nor a pool smaller than
\* the number of its callers makes them wait on one another for ever.
RecordsFinish == \A w \in Writers : <>(writer[w].at \in {"done", "dead"})

==============================================================================
