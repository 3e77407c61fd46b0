--------------------------- MODULE AuditChainProofs ---------------------------
(***************************************************************************)
(* The audit chain never forks, tells the truth and shows changes, for any *)
(* writers, tenants, services and pool sizes, and to its readers the table *)
(* is a log that only grows.  The argument goes tenant by tenant: the lock *)
(* admits one writer of a chain, so the head it read is still the head     *)
(* when it commits and the id it reserved is above every id of the chain;  *)
(* a change by hand ends what is promised of the one chain it is made in.  *)
(***************************************************************************)
EXTENDS AuditChain, SequenceTheorems, FiniteSetTheorems, TLAPS

WriterType == writer \in [Writers -> [at : Stages, event : Outcomes, id : Nat]]
CounterType ==
  /\ head = [w \in Writers |-> head[w]]
  /\ nextId \in Nat

IInv == WriterType /\ CounterType /\ LockExclusive

\* Before any record() nobody holds a lock.
LEMMA InitInv == Init => IInv
<1> SUFFICES ASSUME Init  PROVE IInv
  OBVIOUS
<1>1. WriterType /\ CounterType
  BY DEF Init, WriterType, CounterType, Start, Stages, Outcomes
<1>2. \A w \in Writers : writer[w].at = "ready"
  BY DEF Init
<1>3. LockExclusive
  BY <1>2 DEF LockExclusive, Locking
<1> QED BY <1>1, <1>3 DEF IInv

\* A step that moves no writer into the locked part leaves the lock with its holder.
LEMMA QuietStep ==
  ASSUME IInv, UNCHANGED <<nextId, head>>, WriterType',
         \A w \in Writers : writer'[w].at \in Locking => writer[w].at \in Locking
  PROVE  IInv'
BY DEF IInv, CounterType, LockExclusive

\* Every statement, crash and change by hand leaves one writer of a chain at a time.
LEMMA StepInv == IInv /\ [Next]_vars => IInv'
<1> SUFFICES ASSUME IInv, [Next]_vars  PROVE IInv'
  OBVIOUS
<1> USE DEF IInv
<1>1. ASSUME NEW w \in Writers, Connect(w)  PROVE IInv'
  <2>1. WriterType'
    BY <1>1 DEF Connect, Goto, WriterType, Stages
  <2> QED BY <1>1, <2>1, QuietStep DEF Connect, Goto, WriterType, Locking
<1>2. ASSUME NEW w \in Writers, Lock(w)  PROVE IInv'
  <2>1. WriterType' /\ CounterType'
    BY <1>2 DEF Lock, Goto, WriterType, CounterType, Stages
  <2>2. LockExclusive'
    BY <1>2 DEF Lock, Goto, LockFree, LockExclusive, WriterType, Locking
  <2> QED BY <2>1, <2>2
<1>3. ASSUME NEW w \in Writers, ReadHead(w)  PROVE IInv'
  <2>1. WriterType' /\ CounterType'
    BY <1>3 DEF ReadHead, Goto, WriterType, CounterType, Stages
  <2>2. LockExclusive'
    BY <1>3 DEF ReadHead, Goto, LockExclusive, WriterType, Locking
  <2> QED BY <2>1, <2>2
<1>4. ASSUME NEW w \in Writers, Insert(w)  PROVE IInv'
  <2>1. nextId \in Nat /\ nextId' \in Nat
    BY <1>4 DEF Insert, CounterType
  <2>2. WriterType'
    BY <1>4, <2>1 DEF Insert, WriterType, Stages
  <2>3. head' = [v \in Writers |-> head'[v]]
    BY <1>4 DEF Insert, CounterType
  <2>4. LockExclusive'
    BY <1>4 DEF Insert, LockExclusive, WriterType, Locking
  <2> QED BY <2>1, <2>2, <2>3, <2>4 DEF CounterType
<1>5. ASSUME NEW w \in Writers, Commit(w)  PROVE IInv'
  <2>1. WriterType' /\ CounterType'
    BY <1>5 DEF Commit, Goto, AfterRecord, WriterType, CounterType, Stages
  <2>2. LockExclusive'
    BY <1>5 DEF Commit, Goto, AfterRecord, LockExclusive, WriterType, Locking
  <2> QED BY <2>1, <2>2
<1>6. ASSUME NEW w \in Writers, Work(w) \/ WorkDone(w) \/ WorkEnds(w) \/ WorkRaises(w) \/ Abort(w)  PROVE IInv'
  <2>1. WriterType'
    BY <1>6 DEF Work, WorkDone, WorkEnds, WorkRaises, Abort, Exit, Goto, WriterType, Stages, Outcomes
  <2>2. \A v \in Writers : writer'[v].at \in Locking => writer[v].at \in Locking
    BY <1>6 DEF Work, WorkDone, WorkEnds, WorkRaises, Abort, Exit, Goto, WriterType, Locking
  <2> QED BY <1>6, <2>1, <2>2, QuietStep DEF Work, WorkDone, WorkEnds, WorkRaises, RaisedAfter, Abort
<1>7. ASSUME NEW s \in Services, Crash(s)  PROVE IInv'
  <2>1. WriterType'
    BY <1>7 DEF Crash, WriterType, Stages
  <2>2. \A v \in Writers : writer'[v].at \in Locking => writer[v].at \in Locking
    BY <1>7 DEF Crash, WriterType, Locking
  <2> QED BY <1>7, <2>1, <2>2, QuietStep DEF Crash
<1>8. ASSUME NEW t, Tamper(t)  PROVE IInv'
  BY <1>8 DEF Tamper, WriterType, CounterType, LockExclusive
<1>9. CASE UNCHANGED vars
  BY <1>9, QuietStep DEF vars, WriterType
<1> QED
  BY <1>1, <1>2, <1>3, <1>4, <1>5, <1>6, <1>7, <1>8, <1>9
     DEF Next, Progress, Edit, Delete, Swap

------------------------------------------------------------------------------
(* Rows, whether somebody has changed one by hand or not *)

IsRow(r) ==
  /\ r \in [id : Nat, tenant : Tenants, by : Writers, event : Outcomes \union {"edited"},
            prev : {r.prev}, hash : {r.hash}]
  /\ r.tenant = TenantOf[r.by]

\* Only the attempts of an activity have work, and record its beginning and outcome.
Roles ==
  \A w \in Writers :
    IF w \in Attempts THEN writer[w].event # "recorded"
                      ELSE writer[w].event = "recorded" /\ writer[w].at \notin {"work", "working"}

\* A body commits its transactions one at a time, and no more than it has.
Bodies ==
  /\ worked \in [Attempts -> Nat] /\ raised \subseteq Attempts
  /\ \A w \in Attempts :
       /\ worked[w] <= BodyOf[w]
       /\ writer[w].at = "working" => worked[w] < BodyOf[w]

Typed ==
  /\ WriterType /\ CounterType /\ nextId # 0
  /\ IsFiniteSet(rows) /\ \A r \in rows : IsRow(r)
  /\ Roles
  /\ Bodies /\ tampered \subseteq Tenants

\* A reserved id is above those of its chain even after a row was deleted or moved.
IdsInOrder == IdsReserved /\ IdIsFresh

\* While nobody has changed a chain by hand it verifies, and a head read is the head.
Chains == HeadIsFresh /\ ChainIntact

------------------------------------------------------------------------------
(* What is on record of the writers of a tenant whose log nobody has changed *)

Recording == Locking \union {"ready", "connected"}
Logged(w, e) == \E r \in rows : r.by = w /\ r.event = e

\* Every row is the only one of its writer and event.
RowsOnce(t) ==
  /\ \A r \in Chain(t) : r.event \in Outcomes
  /\ \A r, q \in Chain(t) : r.by = q.by /\ r.event = q.event => r = q

\* What a writer is about to record is not on record; what it has recorded is.
Pending(t) ==
  \A w \in Writers : TenantOf[w] = t =>
    /\ writer[w].at \in Recording => ~Logged(w, writer[w].event)
    /\ writer[w].at \in {"work", "working"} =>
         writer[w].event = "started" /\ Logged(w, "started")
    /\ writer[w].at = "done" => writer[w].event # "started" /\ Logged(w, writer[w].event)

\* The outcome an attempt records, or has recorded, is that of its body.
Outcome(t) ==
  \A w \in Attempts : TenantOf[w] = t =>
    /\ writer[w].event = "started" =>
         /\ w \notin raised /\ ~Logged(w, "completed") /\ ~Logged(w, "failed")
         /\ worked[w] > 0 => Logged(w, "started")
    /\ writer[w].event = "completed" =>
         /\ worked[w] = BodyOf[w] /\ w \notin raised
         /\ Logged(w, "started") /\ ~Logged(w, "failed")
    /\ writer[w].event = "failed" =>
         w \in raised /\ Logged(w, "started") /\ ~Logged(w, "completed")

StartedFirst(t) ==
  \A r, q \in Chain(t) :
    r.by = q.by /\ q.event = "started" /\ r.event \in {"completed", "failed"} => q.id < r.id

\* Ids of a chain differ, and a row that is not the last has a next one.
Numbered(t) ==
  /\ \A r, q \in Chain(t) : r.id = q.id => r = q
  /\ \A r, p \in Chain(t) : r.id < p.id =>
       \E q \in Chain(t) :
         r.id < q.id /\ \A o \in Chain(t) : r.id < o.id => q.id <= o.id

TrailOf(t) ==
  RowsOnce(t) /\ Pending(t) /\ Outcome(t) /\ StartedFirst(t) /\ Numbered(t)

Trail == \A t \in Tenants \ tampered : TrailOf(t)

------------------------------------------------------------------------------
(* What a change by hand leaves behind *)

\* A row that does not match its hash, or whose predecessor is gone for good.
Scar(r) ==
  \/ ~HashHolds(r)
  \/ r.prev # NoHash /\ \A p \in Before(r) : p.hash # r.prev

Scarred == \A t \in tampered : \E r \in Chain(t) : Scar(r)

------------------------------------------------------------------------------
(* Types *)

\* The row record() inserts, field by field.
LEMMA RowType ==
  ASSUME NEW w \in Writers, NEW id \in Nat, NEW event \in Outcomes, NEW prev
  PROVE  LET r == Row(w, id, event, prev)
         IN  /\ IsRow(r) /\ r.id = id /\ r.tenant = TenantOf[w] /\ r.by = w
             /\ r.event = event /\ r.prev = prev /\ HashHolds(r)
  <1> DEFINE hash == ComputeRowHash(TenantOf[w], w, event, prev)
             r == Row(w, id, event, prev)
  <1> HIDE DEF hash
  <1>1. r = [id |-> id, tenant |-> TenantOf[w], by |-> w, event |-> event, prev |-> prev,
             hash |-> hash]
    BY DEF Row, hash
  <1>2. TenantOf[w] \in Tenants
    BY AuditAssumption
  <1>3. /\ r.id = id /\ r.tenant = TenantOf[w] /\ r.by = w /\ r.event = event
        /\ r.prev = prev /\ r.hash = hash
    BY <1>1
  <1>4. HashHolds(r)
    BY <1>3 DEF HashHolds, hash
  <1> HIDE DEF r
  <1>5. IsRow(r)
    BY <1>1, <1>2, <1>3 DEF IsRow
  <1>6. QED
    BY <1>3, <1>4, <1>5 DEF r

\* An UPDATE of one column leaves a row with the others as they were.
LEMMA EditedRow ==
  ASSUME NEW r, IsRow(r)
  PROVE  LET e == [r EXCEPT !.event = "edited"]
         IN  /\ IsRow(e) /\ e.id = r.id /\ e.tenant = r.tenant /\ e.by = r.by
             /\ e.event = "edited" /\ e.prev = r.prev /\ e.hash = r.hash
  BY DEF IsRow

\* A row given another id keeps everything else.
LEMMA MovedRow ==
  ASSUME NEW r, IsRow(r), NEW id \in Nat
  PROVE  LET m == [r EXCEPT !.id = id]
         IN  /\ IsRow(m) /\ m.id = id /\ m.tenant = r.tenant /\ m.by = r.by
             /\ m.event = r.event /\ m.prev = r.prev /\ m.hash = r.hash
  BY DEF IsRow

\* A commit makes exactly the writer's own row visible.
LEMMA CommittedRow ==
  ASSUME WriterType, NEW w \in Writers, Commit(w)
  PROVE  \E r : /\ rows' = rows \union {r} /\ IsRow(r)
                /\ r.id = writer[w].id /\ r.tenant = TenantOf[w] /\ r.by = w
                /\ r.event = writer[w].event /\ r.prev = head[w] /\ HashHolds(r)
  <1>1. writer[w].id \in Nat /\ writer[w].event \in Outcomes
    BY DEF WriterType
  <1>2. rows' = rows \union {Row(w, writer[w].id, writer[w].event, head[w])}
    BY DEF Commit
  <1>3. QED
    BY <1>1, <1>2, RowType

\* Where a step of a writer leaves it, and nobody else.
LEMMA WriterMoves ==
  ASSUME WriterType, NEW w \in Writers, Progress(w) \/ WorkRaises(w) \/ Abort(w)
  PROVE  /\ \A v \in Writers : v # w => writer'[v] = writer[v]
         /\ \/ /\ writer[w].at = "work" /\ writer'[w].at = "working"
               /\ writer'[w].event = writer[w].event
            \/ /\ WorkDone(w) /\ writer[w].at = "working" /\ writer'[w].at = "work"
               /\ writer'[w].event = writer[w].event
            \/ /\ writer[w].at \in Recording
               /\ writer'[w].at \in Locking \union {"connected"}
               /\ writer'[w].event = writer[w].event
            \/ writer'[w].at = "dead" /\ writer'[w].event = writer[w].event
            \/ /\ Commit(w) /\ writer[w].at = "inserted"
               /\ writer'[w].at = AfterRecord(w)
               /\ writer'[w].event = writer[w].event
            \/ /\ WorkEnds(w) /\ writer[w].at = "work"
               /\ writer'[w].at = "ready" /\ writer'[w].event = "completed"
            \/ /\ WorkRaises(w) /\ writer[w].at \in {"work", "working"}
               /\ writer'[w].at = "ready" /\ writer'[w].event = "failed"
         /\ Commit(w) \/ UNCHANGED rows
         /\ WorkDone(w) \/ WorkRaises(w) \/ UNCHANGED <<worked, raised>>
         /\ UNCHANGED tampered
  <1>1. CASE Connect(w) \/ Lock(w) \/ ReadHead(w) \/ Insert(w)
    BY <1>1 DEF Connect, Lock, ReadHead, Insert, Goto, WriterType, Recording, Locking
  <1>2. CASE Commit(w)
    BY <1>2 DEF Commit, Goto, WriterType
  <1>3. CASE Work(w) \/ WorkDone(w)
    BY <1>3 DEF Work, WorkDone, Goto, WriterType
  <1>4. CASE WorkEnds(w) \/ WorkRaises(w)
    BY <1>4 DEF WorkEnds, WorkRaises, RaisedAfter, Exit, WriterType
  <1>5. CASE Abort(w)
    BY <1>5 DEF Abort, WriterType
  <1>6. QED
    BY <1>1, <1>2, <1>3, <1>4, <1>5 DEF Progress

\* A step of a writer adds at most one transaction, its own, to the durable ones.
LEMMA BodyMoves ==
  ASSUME WriterType, Roles, Bodies, NEW w \in Writers,
         Progress(w) \/ WorkRaises(w) \/ Abort(w)
  PROVE  /\ Bodies'
         /\ \A v \in Attempts : v # w =>
              worked'[v] = worked[v] /\ (v \in raised' <=> v \in raised)
         /\ WorkDone(w) => UNCHANGED raised /\ w \in Attempts
  <1>0. Attempts \subseteq Writers /\ BodyOf \in [Attempts -> Nat]
    BY AuditAssumption
  <1>1. CASE WorkDone(w) \/ WorkRaises(w)
    <2>1. /\ w \in Attempts /\ writer'[w].at \in {"work", "ready"}
          /\ \A v \in Writers : v # w => writer'[v] = writer[v]
      <3>1. writer[w].at \in {"work", "working"}
        BY <1>1 DEF WorkDone, WorkRaises, RaisedAfter, Goto
      <3>2. writer'[w].at \in {"work", "ready"}
        BY <1>1 DEF WorkDone, WorkRaises, Goto, Exit, WriterType
      <3>3. \A v \in Writers : v # w => writer'[v] = writer[v]
        BY <1>1 DEF WorkDone, WorkRaises, Goto, Exit, WriterType
      <3>4. QED
        BY <3>1, <3>2, <3>3 DEF Roles
    <2>2. /\ \/ worked' = worked
             \/ writer[w].at = "working" /\ worked' = [worked EXCEPT ![w] = @ + 1]
          /\ \/ UNCHANGED raised
             \/ WorkRaises(w) /\ raised' = raised \union {w}
      BY <1>1 DEF WorkDone, WorkRaises, RaisedAfter, Goto
    <2>3. WorkDone(w) => UNCHANGED raised
      BY DEF WorkDone
    <2>4. Bodies'
      BY <1>0, <2>1, <2>2 DEF Bodies
    <2>5. QED
      BY <2>1, <2>2, <2>3, <2>4 DEF Bodies
  <1>2. CASE UNCHANGED <<worked, raised>> /\ ~WorkDone(w)
    <2>1. \A v \in Attempts :
            writer'[v].at = "working" => writer[v].at = "working" \/ Work(v)
      BY <1>0, <1>2 DEF Progress, Connect, Lock, ReadHead, Insert, Commit, AfterRecord, Work,
         WorkEnds, WorkRaises, Abort, Exit, Goto, WriterType
    <2>2. \A v \in Attempts : Work(v) => worked[v] < BodyOf[v]
      BY DEF Work
    <2>3. QED
      BY <1>2, <2>1, <2>2 DEF Bodies
  <1>3. QED
    BY <1>1, <1>2, WriterMoves

\* A crash ends the unfinished writers of a service and nothing else.
LEMMA CrashMoves ==
  ASSUME WriterType, NEW s \in Services, Crash(s)
  PROVE  /\ UNCHANGED <<rows, nextId, head, worked, raised, tampered>>
         /\ \A w \in Writers : \/ writer'[w] = writer[w]
                               \/ /\ writer'[w].at = "dead" /\ writer[w].at # "done"
                                  /\ writer'[w].event = writer[w].event
                                  /\ writer'[w].id = writer[w].id
  BY DEF Crash, WriterType

\* The empty log is well typed.
LEMMA InitTyped == Init => Typed
  <1> SUFFICES ASSUME Init
               PROVE  Typed
    OBVIOUS
  <1>1. WriterType /\ CounterType
    BY InitInv DEF IInv
  <1>2. Roles
    BY DEF Init, Roles, Start
  <1>3. Bodies
    BY AuditAssumption DEF Init, Bodies
  <1>4. QED
    BY <1>1, <1>2, <1>3, FS_EmptySet DEF Init, Typed

\* A change by hand leaves rows of the right shape, marks the tenant it was made in, and
\* leaves the rows of every other tenant alone.
LEMMA TamperTyped ==
  ASSUME Typed, NEW r \in rows, Edit(r) \/ Delete(r) \/ (\E q \in rows : Swap(r, q))
  PROVE  /\ IsFiniteSet(rows') /\ \A p \in rows' : IsRow(p)
         /\ tampered = {} /\ tampered' = {r.tenant} /\ r.tenant \in Tenants
         /\ \A t : t # r.tenant => Chain(t)' = Chain(t)
         /\ UNCHANGED <<nextId, writer, head, worked, raised>>
  <1>1. /\ \A p \in rows : IsRow(p) /\ p.id \in Nat /\ p.tenant \in Tenants
        /\ IsFiniteSet(rows)
    BY DEF Typed, IsRow
  <1>2. /\ UNCHANGED <<nextId, writer, head, worked, raised>>
        /\ tampered = {} /\ tampered' = {r.tenant}
    BY DEF Edit, Delete, Swap, Tamper
  <1>3. CASE Edit(r)
    <2> DEFINE e == [r EXCEPT !.event = "edited"]
    <2>1. rows' = (rows \ {r}) \union {e} /\ IsRow(e) /\ e.tenant = r.tenant
      BY <1>1, <1>3, EditedRow DEF Edit
    <2> HIDE DEF e
    <2>2. IsFiniteSet(rows')
      BY <1>1, <2>1, FS_RemoveElement, FS_AddElement
    <2>3. QED
      BY <1>1, <1>2, <2>1, <2>2 DEF Chain
  <1>4. CASE Delete(r)
    BY <1>1, <1>2, <1>4, FS_RemoveElement DEF Delete, Chain
  <1>5. ASSUME NEW q \in rows, Swap(r, q)
        PROVE  /\ IsFiniteSet(rows') /\ \A p \in rows' : IsRow(p)
               /\ \A t : t # r.tenant => Chain(t)' = Chain(t)
    <2> DEFINE m == [r EXCEPT !.id = q.id]
               n == [q EXCEPT !.id = r.id]
    <2>1. q.tenant = r.tenant
      BY <1>5 DEF Swap, Before, Chain
    <2>2. /\ rows' = (rows \ {r, q}) \union {m, n} /\ IsRow(m) /\ IsRow(n)
          /\ m.tenant = r.tenant /\ n.tenant = r.tenant
      BY <1>1, <1>5, <2>1, MovedRow DEF Swap
    <2> HIDE DEF m, n
    <2>3. rows' = (((rows \ {r}) \ {q}) \union {m}) \union {n}
      BY <2>2
    <2>4. IsFiniteSet(rows')
      BY <1>1, <2>3, FS_RemoveElement, FS_AddElement
    <2>5. QED
      BY <1>1, <2>1, <2>2, <2>4 DEF Chain
  <1>6. QED
    BY <1>1, <1>2, <1>3, <1>4, <1>5

\* Every step keeps the shape of the rows and the bounds of the counters.
LEMMA TypedStep == IInv /\ IInv' /\ Typed /\ [Next]_vars => Typed'
  <1> SUFFICES ASSUME IInv, IInv', Typed, [Next]_vars
               PROVE  Typed'
    OBVIOUS
  <1>0. WriterType /\ WriterType' /\ CounterType' /\ Roles
    BY DEF IInv, Typed
  <1>1. ASSUME NEW w \in Writers, Progress(w) \/ WorkRaises(w) \/ Abort(w)
        PROVE  Typed'
    <2>1. Roles'
      BY <1>0, <1>1, WriterMoves DEF Roles, AfterRecord, Recording, Locking
    <2>2. Bodies'
      BY <1>0, <1>1, BodyMoves DEF Typed
    <2>3. IsFiniteSet(rows') /\ \A r \in rows' : IsRow(r)
      <3>1. CASE Commit(w)
        BY <1>0, <3>1, CommittedRow, FS_AddElement DEF Typed
      <3>2. QED
        BY <1>0, <1>1, <3>1, WriterMoves DEF Typed
    <2>4. nextId' # 0 /\ UNCHANGED tampered
      <3>1. nextId \in Nat \ {0}
        BY DEF Typed, CounterType
      <3>2. nextId' = nextId \/ nextId' = nextId + 1
        BY <1>1 DEF Progress, Connect, Lock, ReadHead, Insert, Commit, Work, WorkDone,
           WorkEnds, WorkRaises, RaisedAfter, Abort
      <3>3. QED
        BY <1>0, <1>1, <3>1, <3>2, WriterMoves
    <2>5. QED
      BY <1>0, <2>1, <2>2, <2>3, <2>4 DEF Typed
  <1>2. ASSUME NEW s \in Services, Crash(s)
        PROVE  Typed'
    <2>1. Roles'
      BY <1>0, <1>2, CrashMoves DEF Roles
    <2>2. Bodies'
      BY <1>2, CrashMoves, AuditAssumption DEF Bodies, Typed
    <2>3. QED
      BY <1>0, <1>2, <2>1, <2>2, CrashMoves DEF Typed
  <1>3. ASSUME NEW r \in rows, Edit(r) \/ Delete(r) \/ (\E q \in rows : Swap(r, q))
        PROVE  Typed'
    BY <1>0, <1>3, TamperTyped DEF Typed, Roles, Bodies
  <1>4. CASE UNCHANGED vars
    BY <1>0, <1>4 DEF vars, Typed, Roles, Bodies
  <1>5. QED
    BY <1>1, <1>2, <1>3, <1>4 DEF Next

\* The chain invariant and the types hold together.
LEMMA InvHolds == Spec => [](IInv /\ Typed)
  BY InitInv, StepInv, InitTyped, TypedStep, PTL DEF Spec

\* Every variable keeps its type: ids are numbers, rows name the writer and tenant
\* they are of, and only attempts have work (pipeline/audit.py:33-128).
THEOREM TypeCorrect == Spec => []TypeOK
  <1>1. IInv /\ Typed => TypeOK
    BY AuditAssumption DEF IInv, Typed, Roles, Bodies, WriterType, CounterType, IsRow, TypeOK
  <1>2. QED
    BY <1>1, InvHolds, PTL


------------------------------------------------------------------------------
(* Order *)

\* An edit replaces one row by one with another event and the old hash.
LEMMA EditedRows ==
  ASSUME Typed, NEW r \in rows, Edit(r)
  PROVE  \E e : /\ rows' = (rows \ {r}) \union {e}
                /\ e.id = r.id /\ e.tenant = r.tenant /\ e.by = r.by
                /\ e.event = "edited" /\ e.prev = r.prev /\ e.hash = r.hash
  <1> DEFINE e == [r EXCEPT !.event = "edited"]
  <1>1. /\ e.id = r.id /\ e.tenant = r.tenant /\ e.by = r.by
        /\ e.event = "edited" /\ e.prev = r.prev /\ e.hash = r.hash
    BY EditedRow DEF Typed
  <1>2. rows' = (rows \ {r}) \union {e}
    BY DEF Edit
  <1>3. QED
    BY <1>1, <1>2

\* A swap exchanges the ids of two rows of one tenant.
LEMMA SwappedRows ==
  ASSUME Typed, NEW r \in rows, NEW q \in rows, Swap(r, q)
  PROVE  \E m, n : /\ rows' = (rows \ {r, q}) \union {m, n}
                   /\ m.id = q.id /\ m.tenant = r.tenant /\ m.prev = r.prev
                   /\ n.id = r.id /\ n.tenant = r.tenant
                   /\ q.tenant = r.tenant /\ q.id < r.id
  <1> DEFINE m == [r EXCEPT !.id = q.id]
             n == [q EXCEPT !.id = r.id]
  <1>1. /\ IsRow(r) /\ IsRow(q) /\ r.id \in Nat /\ q.id \in Nat
        /\ q.tenant = r.tenant /\ q.id < r.id
    BY DEF Typed, IsRow, Swap, Before, Chain
  <1>2. m.id = q.id /\ m.tenant = r.tenant /\ m.prev = r.prev
    BY <1>1, MovedRow
  <1>3. n.id = r.id /\ n.tenant = q.tenant
    BY <1>1, MovedRow
  <1>4. rows' = (rows \ {r, q}) \union {m, n}
    BY DEF Swap
  <1> HIDE DEF m, n
  <1>5. QED
    BY <1>1, <1>2, <1>3, <1>4

\* Nothing done by hand makes an id that was not there.
LEMMA TamperIds ==
  ASSUME Typed, NEW r \in rows, Edit(r) \/ Delete(r) \/ (\E q \in rows : Swap(r, q))
  PROVE  \A p \in rows' : \E q \in rows : q.id = p.id /\ q.tenant = p.tenant
  <1>1. CASE Edit(r)
    BY <1>1, EditedRows
  <1>2. CASE Delete(r)
    BY <1>2 DEF Delete
  <1>3. ASSUME NEW q \in rows, Swap(r, q)
        PROVE  \A p \in rows' : \E o \in rows : o.id = p.id /\ o.tenant = p.tenant
    <2>1. PICK m, n : /\ rows' = (rows \ {r, q}) \union {m, n}
                      /\ m.id = q.id /\ m.tenant = r.tenant
                      /\ n.id = r.id /\ n.tenant = r.tenant /\ q.tenant = r.tenant
      BY <1>3, SwappedRows
    <2>2. QED
      BY <2>1
  <1>4. QED
    BY <1>1, <1>2, <1>3

\* Every step keeps reserved ids below the next one and above the rows of their chain.
LEMMA IdsStep == IInv /\ Typed /\ IdsInOrder /\ [Next]_vars => IdsInOrder'
  <1> SUFFICES ASSUME IInv, Typed, IdsInOrder, [Next]_vars
               PROVE  IdsInOrder'
    OBVIOUS
  <1>0. WriterType /\ LockExclusive /\ nextId \in Nat /\ \A r \in rows : r.id \in Nat
    BY DEF IInv, CounterType, IdsInOrder, IdsReserved
  <1>1. ASSUME UNCHANGED <<rows, nextId>>,
               \A v \in Writers : writer'[v].at = "inserted" =>
                 writer[v].at = "inserted" /\ writer'[v].id = writer[v].id
        PROVE  IdsInOrder'
    BY <1>1 DEF IdsInOrder, IdsReserved, IdIsFresh, Chain
  <1>2. ASSUME NEW w \in Writers, Commit(w)
        PROVE  IdsInOrder'
    <2>1. PICK r : /\ rows' = rows \union {r}
                   /\ r.id = writer[w].id /\ r.tenant = TenantOf[w]
      BY <1>0, <1>2, CommittedRow
    <2>2. /\ writer[w].at = "inserted" /\ writer[w].id \in Nat /\ writer[w].id < nextId
          /\ nextId' = nextId
      BY <1>0, <1>2 DEF Commit, Goto, WriterType, IdsInOrder, IdIsFresh
    <2>3. \A v \in Writers : writer'[v].at = "inserted" =>
            v # w /\ writer'[v] = writer[v] /\ TenantOf[v] # TenantOf[w]
      <3>1. writer'[w].at # "inserted"
        BY <1>0, <1>2 DEF Commit, Goto, AfterRecord, WriterType
      <3>2. \A v \in Writers : v # w => writer'[v] = writer[v]
        BY <1>0, <1>2 DEF Commit, Goto, WriterType
      <3>3. QED
        BY <1>0, <2>2, <3>1, <3>2 DEF LockExclusive, Locking
    <2>4. \A v \in Writers : TenantOf[v] # TenantOf[w] =>
            Chain(TenantOf[v])' = Chain(TenantOf[v])
      BY <2>1 DEF Chain
    <2>5. IdsReserved'
      BY <1>0, <2>1, <2>2 DEF IdsInOrder, IdsReserved
    <2>6. IdIsFresh'
      BY <2>2, <2>3, <2>4 DEF IdsInOrder, IdIsFresh
    <2>7. QED
      BY <2>5, <2>6 DEF IdsInOrder
  <1>3. ASSUME NEW w \in Writers, Insert(w)
        PROVE  IdsInOrder'
    <2>1. /\ UNCHANGED rows /\ nextId' = nextId + 1
          /\ \A v \in Writers : v # w => writer'[v] = writer[v]
          /\ writer'[w].id = nextId
      BY <1>0, <1>3 DEF Insert, WriterType
    <2>2. QED
      BY <1>0, <2>1 DEF IdsInOrder, IdsReserved, IdIsFresh, Chain, WriterType
  <1>4. ASSUME NEW w \in Writers,
               \/ Connect(w) \/ Lock(w) \/ ReadHead(w) \/ Work(w) \/ WorkDone(w)
               \/ WorkEnds(w) \/ WorkRaises(w) \/ Abort(w)
        PROVE  IdsInOrder'
    BY <1>0, <1>1, <1>4 DEF Connect, Lock, ReadHead, Work, WorkDone, WorkEnds, WorkRaises,
       RaisedAfter, Abort, Goto, Exit, WriterType
  <1>5. ASSUME NEW s \in Services, Crash(s)
        PROVE  IdsInOrder'
    BY <1>0, <1>1, <1>5, CrashMoves
  <1>6. ASSUME NEW r \in rows, Edit(r) \/ Delete(r) \/ (\E q \in rows : Swap(r, q))
        PROVE  IdsInOrder'
    <2>1. UNCHANGED <<nextId, writer>>
      BY <1>6, TamperTyped
    <2>2. \A p \in rows' : \E q \in rows : q.id = p.id /\ q.tenant = p.tenant
      BY <1>6, TamperIds
    <2>3. QED
      BY <2>1, <2>2 DEF IdsInOrder, IdsReserved, IdIsFresh, Chain
  <1>7. CASE UNCHANGED vars
    BY <1>1, <1>7 DEF vars
  <1>8. QED
    BY <1>2, <1>3, <1>4, <1>5, <1>6, <1>7 DEF Next, Progress

\* Reserved ids are fresh in every reachable state.
LEMMA IdsHold == Spec => []IdsInOrder
  <1>1. Init => IdsInOrder
    BY DEF Init, IdsInOrder, IdsReserved, IdIsFresh
  <1>2. QED
    BY <1>1, IdsStep, InvHolds, PTL DEF Spec

------------------------------------------------------------------------------
(* Chains *)

\* What a step of a writer adds to the chain of one tenant: nothing, or one row behind all.
LEMMA ChainMoves ==
  ASSUME IInv, Typed, IdsInOrder, NEW w \in Writers, Commit(w)
  PROVE  \E r : /\ rows' = rows \union {r} /\ r \notin rows /\ IsRow(r)
                /\ r.id = writer[w].id /\ r.tenant = TenantOf[w] /\ r.by = w
                /\ r.event = writer[w].event /\ r.prev = head[w] /\ HashHolds(r)
                /\ Chain(TenantOf[w])' = Chain(TenantOf[w]) \union {r}
                /\ r \notin Chain(TenantOf[w])
                /\ \A q \in Chain(TenantOf[w]) : q.id < r.id /\ q.id \in Nat
                /\ \A t : t # TenantOf[w] => Chain(t)' = Chain(t)
  <1>1. WriterType
    BY DEF IInv
  <1>2. PICK r : /\ rows' = rows \union {r} /\ IsRow(r)
                 /\ r.id = writer[w].id /\ r.tenant = TenantOf[w] /\ r.by = w
                 /\ r.event = writer[w].event /\ r.prev = head[w] /\ HashHolds(r)
    BY <1>1, CommittedRow
  <1>3. writer[w].at = "inserted" /\ r.id \in Nat
    BY <1>1, <1>2 DEF Commit, Goto, WriterType
  <1>4. \A q \in Chain(TenantOf[w]) : q.id < r.id /\ q.id \in Nat
    BY <1>2, <1>3 DEF IdsInOrder, IdIsFresh, IdsReserved, Chain
  <1>5. r \notin Chain(TenantOf[w])
    BY <1>3, <1>4
  <1>6. QED
    BY <1>2, <1>4, <1>5 DEF Chain

\* A writer that has read or reserved something keeps it while another one commits.
LEMMA OthersKeep ==
  ASSUME IInv, NEW w \in Writers, Commit(w),
         NEW v \in Writers, writer'[v].at \in Locking
  PROVE  writer'[v] = writer[v] /\ TenantOf[v] # TenantOf[w]
  <1>1. /\ writer[w].at = "inserted" /\ writer'[w].at = AfterRecord(w)
        /\ \A u \in Writers : u # w => writer'[u] = writer[u]
    BY DEF Commit, Goto, IInv, WriterType
  <1>2. v # w
    BY <1>1 DEF AfterRecord, Locking
  <1>3. QED
    BY <1>1, <1>2 DEF IInv, LockExclusive, Locking

\* An appended row is the last of its chain and links to what was its head.
LEMMA AppendKeepsChain ==
  ASSUME NEW t, Verifies(t), NEW new,
         Chain(t)' = Chain(t) \union {new}, new.tenant = t, new.id \in Nat,
         \A q \in Chain(t) : q.id < new.id /\ q.id \in Nat,
         IsHead(new.prev, Chain(t)), HashHolds(new)
  PROVE  Verifies(t)'
<1>1. ASSUME NEW r \in Chain(t)  PROVE Before(r)' = Before(r)
  <2>1. r.tenant = t /\ ~(new.id < r.id)
    BY DEF Chain
  <2> QED BY <2>1 DEF Before
<1>2. Before(new)' = Chain(t)
  <2>1. ~(new.id < new.id)
    OBVIOUS
  <2> QED BY <2>1 DEF Before
<1> SUFFICES ASSUME NEW r \in Chain(t)'
             PROVE  LinkHolds(r)' /\ HashHolds(r)'
  BY DEF Verifies
<1>3. CASE r \in Chain(t)
  <2>1. LinkHolds(r) /\ HashHolds(r)
    BY <1>3 DEF Verifies
  <2> QED BY <2>1, <1>1, <1>3 DEF LinkHolds, HashHolds, IsHead, IsLast
<1>4. CASE r = new
  BY <1>4, <1>2 DEF LinkHolds, HashHolds, IsHead, IsLast
<1> QED BY <1>3, <1>4

\* A chain that no step touches verifies as before.
LEMMA ChainKept ==
  ASSUME NEW t, Chain(t)' = Chain(t), Verifies(t)
  PROVE  Verifies(t)'
<1>1. ASSUME NEW r \in Chain(t)  PROVE Before(r)' = Before(r)
  <2>1. r.tenant = t
    BY DEF Chain
  <2> QED BY <2>1 DEF Before
<1> QED BY <1>1 DEF Verifies, LinkHolds, HashHolds, IsHead, IsLast

\* A step that changes no row and no head leaves what was read as fresh as it was.
LEMMA QuietChains ==
  ASSUME Chains, UNCHANGED <<rows, head, tampered>>,
         \A w \in Writers : writer'[w].at \in {"read", "inserted"} =>
           writer[w].at \in {"read", "inserted"}
  PROVE  Chains'
<1>1. \A t : Chain(t)' = Chain(t)
  BY DEF Chain
<1>2. HeadIsFresh'
  BY <1>1 DEF Chains, HeadIsFresh, IsHead, IsLast
<1>3. ChainIntact'
  BY <1>1, ChainKept DEF Chains, ChainIntact
<1> QED BY <1>2, <1>3 DEF Chains

\* Every step keeps the chains nobody has changed by hand.
LEMMA ChainsStep == IInv /\ Typed /\ IdsInOrder /\ Chains /\ [Next]_vars => Chains'
<1> SUFFICES ASSUME IInv, Typed, IdsInOrder, Chains, [Next]_vars  PROVE Chains'
  OBVIOUS
<1>0. WriterType /\ CounterType
  BY DEF IInv
<1>1. ASSUME NEW w \in Writers,
             \/ Connect(w) \/ Lock(w) \/ Insert(w) \/ Work(w) \/ WorkDone(w)
             \/ WorkEnds(w) \/ WorkRaises(w) \/ Abort(w)
      PROVE  Chains'
  <2>1. UNCHANGED <<rows, head, tampered>>
    BY <1>1 DEF Connect, Lock, Insert, Work, WorkDone, WorkEnds, WorkRaises, RaisedAfter, Abort
  <2>2. \A v \in Writers : writer'[v].at \in {"read", "inserted"} =>
          writer[v].at \in {"read", "inserted"}
    BY <1>0, <1>1 DEF Connect, Lock, Insert, Work, WorkDone, WorkEnds, WorkRaises, Abort,
       Goto, Exit, WriterType
  <2> QED BY <2>1, <2>2, QuietChains
<1>2. ASSUME NEW w \in Writers, ReadHead(w)  PROVE Chains'
  <2>1. PICK h : /\ IsHead(h, Chain(TenantOf[w]))
                 /\ head' = [head EXCEPT ![w] = h]
    BY <1>2 DEF ReadHead
  <2>2. /\ \A t : Chain(t)' = Chain(t)
        /\ UNCHANGED tampered
    BY <1>2 DEF ReadHead, Chain
  <2>3. /\ head'[w] = h
        /\ \A v \in Writers : v # w => head'[v] = head[v] /\ writer'[v] = writer[v]
    BY <1>0, <1>2, <2>1 DEF ReadHead, Goto, WriterType, CounterType
  <2>4. ASSUME NEW v \in Writers, TenantOf[v] \notin tampered,
               writer'[v].at \in {"read", "inserted"}
        PROVE  IsHead(head'[v], Chain(TenantOf[v]))
    <3>1. CASE v = w
      BY <2>1, <2>3, <3>1
    <3>2. CASE v # w
      BY <2>3, <2>4, <3>2 DEF Chains, HeadIsFresh
    <3> QED BY <3>1, <3>2
  <2>5. HeadIsFresh'
    BY <2>2, <2>4 DEF HeadIsFresh, IsHead, IsLast
  <2>6. ChainIntact'
    BY <2>2, ChainKept DEF Chains, ChainIntact
  <2> QED BY <2>5, <2>6 DEF Chains
<1>3. ASSUME NEW w \in Writers, Commit(w)  PROVE Chains'
  <2>1. PICK new : /\ new.id = writer[w].id /\ new.tenant = TenantOf[w]
                   /\ new.prev = head[w] /\ HashHolds(new)
                   /\ Chain(TenantOf[w])' = Chain(TenantOf[w]) \union {new}
                   /\ \A q \in Chain(TenantOf[w]) : q.id < new.id /\ q.id \in Nat
                   /\ \A t : t # TenantOf[w] => Chain(t)' = Chain(t)
    BY <1>3, ChainMoves
  <2>2. /\ writer[w].at = "inserted" /\ new.id \in Nat /\ UNCHANGED <<head, tampered>>
    BY <1>0, <1>3, <2>1 DEF Commit, Goto, WriterType
  <2>3. HeadIsFresh'
    <3> SUFFICES ASSUME NEW v \in Writers, TenantOf[v] \notin tampered,
                        writer'[v].at \in {"read", "inserted"}
                 PROVE  IsHead(head[v], Chain(TenantOf[v])')
      BY <2>2 DEF HeadIsFresh, IsHead, IsLast
    <3>1. writer'[v] = writer[v] /\ TenantOf[v] # TenantOf[w]
      BY <1>3, OthersKeep DEF Locking
    <3> QED BY <2>1, <3>1 DEF Chains, HeadIsFresh
  <2>4. ASSUME NEW t \in Tenants, t \notin tampered  PROVE Verifies(t)'
    <3>1. Verifies(t)
      BY <2>4 DEF Chains, ChainIntact
    <3>2. CASE t = TenantOf[w]
      <4>1. IsHead(new.prev, Chain(t))
        BY <2>1, <2>2, <2>4, <3>2 DEF Chains, HeadIsFresh
      <4> QED BY <2>1, <2>2, <3>1, <3>2, <4>1, AppendKeepsChain
    <3>3. CASE t # TenantOf[w]
      BY <2>1, <3>1, <3>3, ChainKept
    <3> QED BY <3>2, <3>3
  <2> QED BY <2>2, <2>3, <2>4 DEF Chains, ChainIntact
<1>4. ASSUME NEW s \in Services, Crash(s)  PROVE Chains'
  BY <1>0, <1>4, CrashMoves, QuietChains
<1>5. ASSUME NEW r \in rows, Edit(r) \/ Delete(r) \/ (\E q \in rows : Swap(r, q))
      PROVE  Chains'
  <2>1. /\ tampered = {} /\ tampered' = {r.tenant} /\ UNCHANGED <<writer, head>>
        /\ \A t : t # r.tenant => Chain(t)' = Chain(t)
    BY <1>5, TamperTyped
  <2>2. HeadIsFresh'
    BY <2>1 DEF Chains, HeadIsFresh, IsHead, IsLast
  <2>3. ChainIntact'
    BY <2>1, ChainKept DEF Chains, ChainIntact
  <2> QED BY <2>2, <2>3 DEF Chains
<1>6. CASE UNCHANGED vars
  BY <1>6, QuietChains DEF vars
<1> QED BY <1>1, <1>2, <1>3, <1>4, <1>5, <1>6 DEF Next, Progress

\* Chains nobody has changed verify in every reachable state.
LEMMA ChainsHold == Spec => []Chains
<1>1. Init => Chains
  BY DEF Init, Chains, HeadIsFresh, ChainIntact, Verifies, Chain
<1> QED BY <1>1, ChainsStep, InvHolds, IdsHold, PTL DEF Spec

\* Whatever interleaving, rollback or crash: the verifier accepts every chain nobody edited
\* by hand, also while another one was (record(), pipeline/audit.py:33-75).
THEOREM ChainsVerify == Spec => []ChainIntact
<1>1. Chains => ChainIntact
  BY DEF Chains
<1> QED BY <1>1, ChainsHold, PTL

\* A commit adds one row, with the largest id of its chain, and nothing but a change by
\* hand in a chain takes a row of it away.
LEMMA StepAppends ==
  ASSUME IInv, Typed, IdsInOrder, [Next]_vars, NEW t \in Tenants \ tampered'
  PROVE  /\ Chain(t) \subseteq Chain(t)'
         /\ \A r \in Chain(t)' \ Chain(t) : \A q \in Chain(t) : q.id < r.id
  <1>0. WriterType
    BY DEF IInv
  <1>1. ASSUME NEW w \in Writers, Commit(w)
        PROVE  \/ Chain(t)' = Chain(t)
               \/ \E r : /\ Chain(t)' = Chain(t) \union {r}
                         /\ \A q \in Chain(t) : q.id < r.id
    BY <1>1, ChainMoves
  <1>2. ASSUME NEW w \in Writers, Progress(w) \/ WorkRaises(w) \/ Abort(w), ~Commit(w)
        PROVE  Chain(t)' = Chain(t)
    BY <1>0, <1>2, WriterMoves DEF Chain
  <1>3. ASSUME NEW s \in Services, Crash(s)
        PROVE  Chain(t)' = Chain(t)
    BY <1>3 DEF Crash, Chain
  <1>4. ASSUME NEW r \in rows, Edit(r) \/ Delete(r) \/ (\E q \in rows : Swap(r, q))
        PROVE  Chain(t)' = Chain(t)
    BY <1>4, TamperTyped
  <1>5. CASE UNCHANGED vars
    BY <1>5 DEF vars, Chain
  <1>6. QED
    BY <1>1, <1>2, <1>3, <1>4, <1>5 DEF Next, Progress

\* Nothing but the owner of the table changes or removes a row, and a row appears only
\* behind all rows of its tenant: the lock is held from before the id is taken until the
\* row is visible (pipeline/audit.py:43-71).
THEOREM ChainsOnlyGrow == Spec => AppendsAtTheEnd
  <1>1. IInv /\ Typed /\ IdsInOrder /\ [Next]_vars =>
          [\A t \in Tenants \ tampered' :
             /\ Chain(t) \subseteq Chain(t)'
             /\ \A r \in Chain(t)' \ Chain(t) : \A q \in Chain(t) : q.id < r.id]_vars
    BY StepAppends
  <1>2. QED
    BY <1>1, InvHolds, IdsHold, PTL DEF Spec, AppendsAtTheEnd


------------------------------------------------------------------------------
(* What the trail says of an attempt *)

\* All rows of a writer are in the chain of its tenant.
LEMMA LoggedInChain ==
  ASSUME Typed, NEW w \in Writers, NEW e
  PROVE  Logged(w, e) <=> \E r \in Chain(TenantOf[w]) : r.by = w /\ r.event = e
  BY DEF Logged, Chain, Typed, IsRow

\* A step that writes no row of a tenant and ends no body of its attempts leaves its trail
\* as true as it was.
LEMMA QuietTrail ==
  ASSUME Typed, Typed', NEW t, TrailOf(t), Chain(t)' = Chain(t),
         \A w \in Writers : TenantOf[w] = t =>
           /\ w \in Attempts =>
                /\ w \in raised' <=> w \in raised
                /\ worked'[w] = worked[w] \/ writer[w].at = "working"
           /\ \/ writer'[w] = writer[w]
              \/ /\ writer'[w].event = writer[w].event
                 /\ \/ writer'[w].at = "dead"
                    \/ writer[w].at \in Recording /\ writer'[w].at \in Recording
                    \/ /\ writer[w].at \in {"work", "working"}
                       /\ writer'[w].at \in {"work", "working"}
  PROVE  TrailOf(t)'
  <1>1. ASSUME NEW w \in Writers, TenantOf[w] = t, NEW e
        PROVE  Logged(w, e)' <=> Logged(w, e)
    <2>1. Logged(w, e)' <=> \E r \in Chain(TenantOf[w])' : r.by = w /\ r.event = e
      BY DEF Logged, Chain, Typed, IsRow
    <2>2. QED
      BY <1>1, <2>1, LoggedInChain
  <1>2. RowsOnce(t)' /\ StartedFirst(t)' /\ Numbered(t)'
    BY DEF TrailOf, RowsOnce, StartedFirst, Numbered
  <1>3. Pending(t)'
    <2> SUFFICES ASSUME NEW w \in Writers, TenantOf[w] = t
                 PROVE  /\ writer'[w].at \in Recording => ~Logged(w, writer[w].event)'
                        /\ writer'[w].at \in {"work", "working"} =>
                             writer'[w].event = "started" /\ Logged(w, "started")'
                        /\ writer'[w].at = "done" =>
                             writer'[w].event # "started" /\ Logged(w, writer[w].event)'
      BY DEF Pending
    <2>1. /\ writer[w].at \in Recording => ~Logged(w, writer[w].event)
          /\ writer[w].at \in {"work", "working"} =>
               writer[w].event = "started" /\ Logged(w, "started")
          /\ writer[w].at = "done" => writer[w].event # "started" /\ Logged(w, writer[w].event)
      BY DEF TrailOf, Pending
    <2>2. writer'[w].event = writer[w].event
      OBVIOUS
    <2>3. \/ writer'[w].at = writer[w].at
          \/ writer'[w].at = "dead"
          \/ writer[w].at \in Recording /\ writer'[w].at \in Recording
          \/ writer[w].at \in {"work", "working"} /\ writer'[w].at \in {"work", "working"}
      OBVIOUS
    <2>4. \A e : Logged(w, e)' <=> Logged(w, e)
      BY <1>1
    <2>5. Logged(w, writer[w].event)' <=> Logged(w, writer[w].event)
      BY <2>2, <2>4 DEF Logged
    <2>6. QED
      BY <2>1, <2>2, <2>3, <2>4, <2>5 DEF Recording, Locking
  <1>4. Outcome(t)'
    <2>1. \A w \in Writers : TenantOf[w] = t => writer'[w].event = writer[w].event
      OBVIOUS
    <2>2. Attempts \subseteq Writers
      BY AuditAssumption
    <2>3. \A w \in Attempts : TenantOf[w] = t /\ writer[w].at = "working" =>
            writer[w].event = "started" /\ Logged(w, "started")
      BY <2>2 DEF TrailOf, Pending
    <2>4. QED
      BY <1>1, <2>1, <2>2, <2>3 DEF TrailOf, Outcome
  <1>5. QED
    BY <1>2, <1>3, <1>4 DEF TrailOf

\* The body of audited() ends one way or the other, and asks for that to be recorded.
LEMMA OutcomeTrail ==
  ASSUME Typed, NEW w \in Writers, TrailOf(TenantOf[w]), WorkEnds(w) \/ WorkRaises(w)
  PROVE  TrailOf(TenantOf[w])'
  <1> DEFINE t == TenantOf[w]
  <1>1. /\ \A v \in Writers : v # w => writer'[v] = writer[v]
        /\ writer[w].at \in {"work", "working"} /\ writer'[w].at = "ready"
        /\ UNCHANGED rows
        /\ \/ /\ writer'[w].event = "completed" /\ worked[w] = BodyOf[w]
              /\ UNCHANGED <<worked, raised>>
           \/ writer'[w].event = "failed" /\ w \in raised'
    BY DEF WorkEnds, WorkRaises, RaisedAfter, Exit, Typed, WriterType
  <1>2. /\ w \in Attempts /\ writer[w].event = "started" /\ Logged(w, "started")
        /\ w \notin raised /\ ~Logged(w, "completed") /\ ~Logged(w, "failed")
    BY <1>1 DEF Typed, Roles, TrailOf, Pending, Outcome
  <1>3. \A v \in Writers : \A e : Logged(v, e)' <=> Logged(v, e)
    BY <1>1 DEF Logged
  <1>4. RowsOnce(t)' /\ StartedFirst(t)' /\ Numbered(t)'
    BY <1>1 DEF TrailOf, RowsOnce, StartedFirst, Numbered, Chain
  <1>5. Pending(t)'
    BY <1>1, <1>2, <1>3 DEF TrailOf, Pending
  <1>6. Outcome(t)'
    <2>1. Attempts \subseteq Writers
      BY AuditAssumption
    <2>2. \A v \in Attempts : v # w =>
            worked'[v] = worked[v] /\ (v \in raised' <=> v \in raised)
      BY BodyMoves DEF Progress, Typed
    <2>3. QED
      BY <1>1, <1>2, <1>3, <2>1, <2>2 DEF TrailOf, Outcome
  <1>7. QED
    BY <1>4, <1>5, <1>6 DEF TrailOf

\* A row is the first of its writer and event, and comes after that of its beginning.
LEMMA CommitTrail ==
  ASSUME IInv, Typed, IdsInOrder, NEW w \in Writers, TrailOf(TenantOf[w]), Commit(w)
  PROVE  TrailOf(TenantOf[w])'
  <1> DEFINE t == TenantOf[w]
  <1>1. PICK new : /\ rows' = rows \union {new} /\ new.by = w
                   /\ new.id = writer[w].id /\ new.tenant = t
                   /\ new.event = writer[w].event
                   /\ Chain(t)' = Chain(t) \union {new}
                   /\ \A q \in Chain(t) : q.id < new.id /\ q.id \in Nat
    BY ChainMoves
  <1>2. /\ writer[w].at = "inserted" /\ writer'[w].at = AfterRecord(w)
        /\ writer'[w].event = writer[w].event
        /\ \A v \in Writers : v # w => writer'[v] = writer[v]
        /\ UNCHANGED <<worked, raised>> /\ new.id \in Nat /\ new.event \in Outcomes
    BY <1>1 DEF Commit, Goto, Typed, WriterType
  <1>3. ~Logged(w, new.event)
    BY <1>1, <1>2 DEF TrailOf, Pending, Recording, Locking
  <1>4. \A v \in Writers : \A e : Logged(v, e)' <=> Logged(v, e) \/ (v = w /\ e = new.event)
    BY <1>1 DEF Logged
  <1>5. \A r \in Chain(t) : r \in rows
    BY DEF Chain
  <1> HIDE DEF t
  <1>6. RowsOnce(t)'
    <2>1. \A q \in Chain(t) : ~(q.by = new.by /\ q.event = new.event)
      BY <1>1, <1>3, <1>5 DEF Logged
    <2>2. QED
      BY <1>1, <1>2, <2>1 DEF TrailOf, RowsOnce, t
  <1>7. Pending(t)'
    BY <1>1, <1>2, <1>4 DEF TrailOf, Pending, AfterRecord, Recording, Locking, t
  <1>8. Outcome(t)'
    <2>1. Attempts \subseteq Writers
      BY AuditAssumption
    <2>2. \A v \in Writers : writer'[v].event = writer[v].event
      BY <1>2
    <2>3. QED
      BY <1>1, <1>2, <1>4, <2>1, <2>2 DEF TrailOf, Outcome, t
  <1>9. StartedFirst(t)'
    <2>1. new.event = "started" => w \in Attempts
      BY <1>1 DEF Typed, Roles
    <2>2. ASSUME NEW r \in Chain(t), r.by = w, r.event \in {"completed", "failed"},
                 new.event = "started"
          PROVE  FALSE
      <3>1. Logged(w, "completed") \/ Logged(w, "failed")
        BY <1>5, <2>2 DEF Logged
      <3>2. w \in Attempts /\ writer[w].event = "started"
        BY <1>1, <2>1, <2>2
      <3>3. QED
        BY <3>1, <3>2 DEF TrailOf, Outcome
    <2>3. QED
      BY <1>1, <2>2 DEF TrailOf, StartedFirst, t
  <1>10. Numbered(t)'
    <2>1. \A r, q \in Chain(t)' : r.id = q.id => r = q
      BY <1>1, <1>2 DEF TrailOf, Numbered, t
    <2>2. ASSUME NEW r \in Chain(t)', NEW p \in Chain(t)', r.id < p.id
          PROVE  \E q \in Chain(t)' :
                   r.id < q.id /\ \A o \in Chain(t)' : r.id < o.id => q.id <= o.id
      <3>1. r \in Chain(t)
        BY <1>1, <1>2, <2>2
      <3>2. CASE \E o \in Chain(t) : r.id < o.id
        <4>1. PICK q \in Chain(t) :
                r.id < q.id /\ \A o \in Chain(t) : r.id < o.id => q.id <= o.id
          BY <3>1, <3>2 DEF TrailOf, Numbered, t
        <4>2. q.id <= new.id
          BY <1>1, <1>2, <4>1
        <4>3. QED
          BY <1>1, <4>1, <4>2
      <3>3. CASE ~\E o \in Chain(t) : r.id < o.id
        <4>1. p = new /\ \A o \in Chain(t)' : r.id < o.id => o = new
          BY <1>1, <2>2, <3>3
        <4>2. new.id <= new.id
          BY <1>2
        <4>3. QED
          BY <2>2, <4>1, <4>2
      <3>4. QED
        BY <3>2, <3>3
    <2>3. QED
      BY <2>1, <2>2 DEF Numbered
  <1>11. QED
    BY <1>6, <1>7, <1>8, <1>9, <1>10 DEF TrailOf, t

\* Every step keeps every trail true that nobody has changed by hand.
LEMMA TrailStep ==
  IInv /\ Typed /\ Typed' /\ IdsInOrder /\ Trail /\ [Next]_vars => Trail'
  <1> SUFFICES ASSUME IInv, Typed, Typed', IdsInOrder, Trail, [Next]_vars,
                      NEW t \in Tenants, t \notin tampered'
               PROVE  TrailOf(t)'
    BY DEF Trail
  <1>0. WriterType
    BY DEF Typed
  <1>1. ASSUME NEW r \in rows, Edit(r) \/ Delete(r) \/ (\E q \in rows : Swap(r, q))
        PROVE  TrailOf(t)'
    <2>1. /\ tampered = {} /\ Chain(t)' = Chain(t) /\ UNCHANGED <<writer, worked, raised>>
      BY <1>1, TamperTyped
    <2>2. QED
      BY <2>1, QuietTrail DEF Trail
  <1>2. ASSUME NEW w \in Writers, Progress(w) \/ WorkRaises(w) \/ Abort(w)
        PROVE  TrailOf(t)'
    <2>1. TrailOf(t) /\ \A v \in Writers : v # w => writer'[v] = writer[v]
      BY <1>0, <1>2, WriterMoves DEF Trail
    <2>2. CASE t # TenantOf[w]
      <3>1. Chain(t)' = Chain(t)
        <4>1. CASE Commit(w)
          BY <2>2, <4>1, ChainMoves
        <4>2. CASE ~Commit(w)
          BY <1>0, <1>2, <4>2, WriterMoves DEF Chain
        <4>3. QED
          BY <4>1, <4>2
      <3>2. \A v \in Attempts : v # w =>
              worked'[v] = worked[v] /\ (v \in raised' <=> v \in raised)
        BY <1>2, BodyMoves DEF Typed
      <3>3. QED
        BY <2>1, <2>2, <3>1, <3>2, QuietTrail
    <2>3. CASE t = TenantOf[w] /\ Commit(w)
      BY <2>1, <2>3, CommitTrail
    <2>4. CASE t = TenantOf[w] /\ (WorkEnds(w) \/ WorkRaises(w))
      BY <2>1, <2>4, OutcomeTrail
    <2>5. CASE ~Commit(w) /\ ~WorkEnds(w) /\ ~WorkRaises(w)
      <3>1. /\ UNCHANGED rows
            /\ UNCHANGED <<worked, raised>> \/ (WorkDone(w) /\ writer[w].at = "working")
            /\ writer'[w].event = writer[w].event
            /\ \/ /\ writer[w].at \in {"work", "working"}
                  /\ writer'[w].at \in {"work", "working"}
               \/ writer'[w].at = "dead"
               \/ writer[w].at \in Recording /\ writer'[w].at \in Recording
        <4>1. WorkDone(w) => writer[w].at = "working"
          BY DEF WorkDone, Goto
        <4>2. QED
          BY <1>0, <1>2, <2>5, <4>1, WriterMoves DEF Recording
      <3>2. Chain(t)' = Chain(t)
        BY <3>1 DEF Chain
      <3>3. /\ \A v \in Attempts : v # w =>
                 worked'[v] = worked[v] /\ (v \in raised' <=> v \in raised)
            /\ WorkDone(w) => UNCHANGED raised
        BY <1>2, BodyMoves DEF Typed
      <3>4. QED
        BY <2>1, <3>1, <3>2, <3>3, QuietTrail
    <2>6. QED
      BY <2>2, <2>3, <2>4, <2>5
  <1>3. ASSUME NEW s \in Services, Crash(s)
        PROVE  TrailOf(t)'
    <2>1. /\ UNCHANGED <<rows, worked, raised, tampered>>
          /\ \A w \in Writers : \/ writer'[w] = writer[w]
                                \/ /\ writer'[w].at = "dead"
                                   /\ writer'[w].event = writer[w].event
      BY <1>0, <1>3, CrashMoves
    <2>2. Chain(t)' = Chain(t) /\ TrailOf(t)
      BY <2>1 DEF Chain, Trail
    <2>3. QED
      BY <2>1, <2>2, QuietTrail
  <1>4. CASE UNCHANGED vars
    <2>1. Chain(t)' = Chain(t) /\ TrailOf(t) /\ UNCHANGED <<writer, worked, raised>>
      BY <1>4 DEF vars, Chain, Trail
    <2>2. QED
      BY <2>1, QuietTrail
  <1>5. QED
    BY <1>1, <1>2, <1>3, <1>4 DEF Next

\* The trail is true in every reachable state.
LEMMA TrailHolds == Spec => []Trail
  <1>1. Init => Trail
    BY AuditAssumption DEF Init, Trail, TrailOf, RowsOnce, Pending, Outcome, StartedFirst,
       Numbered, Logged, Chain, Start
  <1>2. QED
    BY <1>1, TrailStep, InvHolds, IdsHold, PTL DEF Spec

\* The trail of an attempt tells what became of its body: nothing of it is durable before
\* `.started`, `.completed` stands for all of it, `.failed` for one that has raised, with
\* whatever it had committed by then; each behind the one `.started`, never both, and an
\* attempt that ended normally has its outcome on record (pipeline/audit.py:91-128).
THEOREM OutcomesAreTrue == Spec => []TrailTellsOutcome
  <1>1. Typed /\ Trail => TrailTellsOutcome
    <2> SUFFICES ASSUME Typed, Trail, NEW w \in Attempts, TenantOf[w] \notin tampered
                 PROVE  /\ worked[w] > 0 \/ w \in raised => Recorded(w, "started") # {}
                        /\ Recorded(w, "completed") # {} =>
                             worked[w] = BodyOf[w] /\ w \notin raised
                        /\ Recorded(w, "failed") # {} => w \in raised
                        /\ \A r \in Recorded(w, "completed") \union Recorded(w, "failed") :
                             \E q \in Recorded(w, "started") : q.id < r.id
                        /\ Cardinality(Recorded(w, "completed") \union Recorded(w, "failed"))
                             <= 1
                        /\ writer[w].at = "done" =>
                             Recorded(w, IF w \in raised THEN "failed" ELSE "completed") # {}
      BY DEF TrailTellsOutcome
    <2>1. /\ w \in Writers /\ writer[w].event \in {"started", "completed", "failed"}
          /\ TrailOf(TenantOf[w])
      BY AuditAssumption DEF Typed, WriterType, Outcomes, Roles, Trail
    <2>2. \A e : Recorded(w, e) # {} <=> Logged(w, e)
      BY DEF Recorded, Logged
    <2>3. /\ Logged(w, "completed") =>
               writer[w].event = "completed" /\ worked[w] = BodyOf[w] /\ w \notin raised
          /\ Logged(w, "failed") => writer[w].event = "failed" /\ w \in raised
          /\ worked[w] > 0 \/ w \in raised => Logged(w, "started")
      BY <2>1 DEF TrailOf, Outcome
    <2>4. ASSUME NEW r \in Recorded(w, "completed") \union Recorded(w, "failed")
          PROVE  \E q \in Recorded(w, "started") : q.id < r.id
      <3>1. r \in rows /\ r.by = w /\ r.event \in {"completed", "failed"}
        BY <2>4 DEF Recorded
      <3>2. Logged(w, "started")
        BY <2>1, <2>3, <3>1 DEF TrailOf, Outcome, Logged
      <3>3. PICK q \in rows : q.by = w /\ q.event = "started"
        BY <3>2 DEF Logged
      <3>4. r \in Chain(TenantOf[w]) /\ q \in Chain(TenantOf[w])
        BY <3>1, <3>3 DEF Typed, IsRow, Chain
      <3>5. QED
        BY <2>1, <3>1, <3>3, <3>4 DEF TrailOf, StartedFirst, Recorded
    <2>5. Cardinality(Recorded(w, "completed") \union Recorded(w, "failed")) <= 1
      <3> DEFINE S == Recorded(w, "completed") \union Recorded(w, "failed")
      <3>1. ASSUME NEW p \in S, NEW q \in S
            PROVE  p = q
        <4>1. /\ p \in rows /\ q \in rows /\ p.by = w /\ q.by = w
              /\ p.event \in {"completed", "failed"} /\ q.event \in {"completed", "failed"}
          BY DEF Recorded
        <4>2. Logged(w, p.event) /\ Logged(w, q.event)
          BY <4>1 DEF Logged
        <4>3. p.event = q.event
          BY <2>3, <4>1, <4>2
        <4>4. p \in Chain(TenantOf[w]) /\ q \in Chain(TenantOf[w])
          BY <4>1 DEF Typed, IsRow, Chain
        <4>5. QED
          BY <2>1, <4>1, <4>3, <4>4 DEF TrailOf, RowsOnce
      <3> HIDE DEF S
      <3>2. CASE S = {}
        BY <3>2, FS_EmptySet DEF S
      <3>3. CASE S # {}
        <4>1. PICK p : S = {p}
          BY <3>1, <3>3
        <4>2. Cardinality({p}) = 1
          BY FS_Singleton
        <4>3. QED
          BY <4>1, <4>2 DEF S
      <3>4. QED
        BY <3>2, <3>3
    <2>6. ASSUME writer[w].at = "done"
          PROVE  Logged(w, IF w \in raised THEN "failed" ELSE "completed")
      BY <2>1, <2>6 DEF TrailOf, Pending, Outcome
    <2>7. QED
      BY <2>2, <2>3, <2>4, <2>5, <2>6
  <1>2. QED
    BY <1>1, InvHolds, TrailHolds, PTL

------------------------------------------------------------------------------
(* A change by hand is reported *)

\* Different rows have different hashes, and none is the hash of no row.
LEMMA HashesDiffer ==
  ASSUME NEW t, RowsOnce(t), NEW p \in Chain(t), NEW q \in Chain(t),
         HashHolds(p), HashHolds(q)
  PROVE  p.hash # NoHash /\ (p.hash = q.hash => p = q)
  BY DEF HashHolds, ComputeRowHash, NoHash, RowsOnce, Chain

\* Until somebody changes the log by hand, every row verifies.
LEMMA AllVerify ==
  ASSUME Chains, Typed, tampered = {}, NEW r \in rows
  PROVE  HashHolds(r) /\ LinkHolds(r) /\ r.id \in Nat
  BY DEF Chains, ChainIntact, Verifies, Chain, Typed, IsRow

\* The scar is in the changed row, in the one that followed a deleted row, or in the later
\* of two that traded places: its predecessor's hash is no longer behind it.
LEMMA TamperScars ==
  ASSUME Chains, Typed, Trail, NEW r \in rows,
         Edit(r) \/ Delete(r) \/ (\E q \in rows : Swap(r, q))
  PROVE  Scarred'
  <1>1. tampered = {} /\ tampered' = {r.tenant}
    BY DEF Edit, Delete, Swap, Tamper
  <1> DEFINE t == r.tenant
  <1>2. /\ RowsOnce(t) /\ Numbered(t) /\ r \in Chain(t)
        /\ \A p \in rows : HashHolds(p) /\ LinkHolds(p) /\ p.id \in Nat
    BY <1>1, AllVerify DEF Trail, TrailOf, Typed, IsRow, Chain
  <1> SUFFICES \E s \in Chain(r.tenant)' : Scar(s)'
    BY <1>1 DEF Scarred
  <1>3. CASE Edit(r)
    <2>1. PICK e : /\ rows' = (rows \ {r}) \union {e}
                   /\ e.tenant = r.tenant /\ e.event = "edited" /\ e.hash = r.hash
      BY <1>3, EditedRows
    <2>2. r.event \in Outcomes /\ r.hash = <<r.tenant, r.by, r.event, r.prev>>
      BY <1>2 DEF RowsOnce, HashHolds, ComputeRowHash
    <2>3. r.hash # <<e.tenant, e.by, "edited", e.prev>>
      BY <2>2 DEF Outcomes
    <2>4. ~HashHolds(e)
      BY <2>1, <2>3 DEF HashHolds, ComputeRowHash
    <2>5. e \in Chain(r.tenant)' /\ Scar(e)'
      BY <2>1, <2>4 DEF Chain, Scar, HashHolds
    <2>6. QED
      BY <2>5
  <1>4. CASE Delete(r)
    <2>1. PICK q \in Chain(r.tenant) :
            r.id < q.id /\ \A o \in Chain(r.tenant) : r.id < o.id => q.id <= o.id
      BY <1>2, <1>4 DEF Delete, Chain, Numbered
    <2>2. /\ rows' = rows \ {r} /\ q \in rows /\ q.tenant = r.tenant /\ q # r
          /\ r \in Before(q)
      BY <1>2, <1>4, <2>1 DEF Delete, Chain, Before
    <2>3. PICK l \in Before(q) : IsLast(l, Before(q)) /\ q.prev = l.hash
      BY <1>2, <2>2 DEF LinkHolds, IsHead, IsLast
    <2>4. l = r
      <3>1. /\ l \in rows /\ l.tenant = r.tenant /\ l.id < q.id /\ r.id <= l.id
            /\ l.id \in Nat /\ q.id \in Nat /\ r.id \in Nat
        BY <1>2, <2>2, <2>3 DEF Before, Chain, IsLast
      <3>2. ~(r.id < l.id)
        BY <2>1, <3>1 DEF Chain
      <3>3. l.id = r.id
        BY <3>1, <3>2
      <3>4. QED
        BY <1>2, <3>1, <3>3 DEF Numbered, Chain
    <2>5. q.prev # NoHash /\ \A p \in Chain(t) \ {r} : p.hash # q.prev
      <3>1. \A p \in Chain(t) : p \in rows
        BY DEF Chain
      <3>2. QED
        BY <1>2, <2>3, <2>4, <3>1, HashesDiffer
    <2>6. Before(q)' \subseteq Chain(t) \ {r}
      BY <2>2 DEF Before, Chain
    <2>7. q \in Chain(r.tenant)' /\ Scar(q)'
      BY <2>2, <2>5, <2>6 DEF Chain, Scar
    <2>8. QED
      BY <2>7
  <1>5. ASSUME NEW q \in rows, Swap(r, q)
        PROVE  \E s \in Chain(r.tenant)' : Scar(s)'
    <2>1. PICK m, n : /\ rows' = (rows \ {r, q}) \union {m, n}
                      /\ m.id = q.id /\ m.tenant = r.tenant /\ m.prev = r.prev
                      /\ n.id = r.id /\ q.tenant = r.tenant /\ q.id < r.id
      BY <1>5, SwappedRows
    <2>2. q \in Before(r)
      BY <2>1 DEF Before, Chain
    <2>3. PICK l \in Before(r) : IsLast(l, Before(r)) /\ r.prev = l.hash
      BY <1>2, <2>2 DEF LinkHolds, IsHead, IsLast
    <2>4. l \in rows /\ l \in Chain(t) /\ q.id <= l.id
      BY <2>2, <2>3 DEF Before, Chain, IsLast
    <2>5. r.prev # NoHash /\ \A p \in Chain(t) : p.hash = r.prev => p = l
      <3>1. \A p \in Chain(t) : p \in rows
        BY DEF Chain
      <3>2. QED
        BY <1>2, <2>3, <2>4, <3>1, HashesDiffer
    <2>6. ASSUME NEW p \in Before(m)'
          PROVE  p \in Chain(t) /\ p.id < q.id
      <3>1. p \in rows' /\ p.tenant = t /\ p.id < q.id
        BY <2>1 DEF Before, Chain
      <3>2. p # m /\ p # n
        BY <1>2, <2>1, <3>1
      <3>3. QED
        BY <2>1, <3>1, <3>2 DEF Chain
    <2>7. \A p \in Before(m)' : p.hash # m.prev
      BY <1>2, <2>1, <2>4, <2>5, <2>6
    <2>8. m \in Chain(r.tenant)' /\ Scar(m)'
      BY <2>1, <2>5, <2>7 DEF Chain, Scar
    <2>9. QED
      BY <2>8
  <1>6. QED
    BY <1>3, <1>4, <1>5

\* Rows are only appended behind a scar, which leaves what is before it as it is.
LEMMA ScarredStep ==
  IInv /\ Typed /\ IdsInOrder /\ Chains /\ Trail /\ Scarred /\ [Next]_vars => Scarred'
  <1> SUFFICES ASSUME IInv, Typed, IdsInOrder, Chains, Trail, Scarred, [Next]_vars
               PROVE  Scarred'
    OBVIOUS
  <1>0. WriterType
    BY DEF IInv
  <1>1. ASSUME UNCHANGED <<rows, tampered>>
        PROVE  Scarred'
    BY <1>1 DEF Scarred, Scar, HashHolds, Before, Chain
  <1>2. ASSUME NEW w \in Writers, Commit(w)
        PROVE  Scarred'
    <2>1. PICK new : /\ rows' = rows \union {new}
                     /\ new.id = writer[w].id /\ new.tenant = TenantOf[w]
      BY <1>0, <1>2, CommittedRow
    <2>2. /\ \A q \in rows : q.tenant = new.tenant => q.id < new.id
          /\ \A q \in rows : q.id \in Nat
          /\ new.id \in Nat
      BY <1>0, <1>2, <2>1 DEF Commit, Goto, WriterType, IdsInOrder, IdIsFresh, IdsReserved,
         Chain
    <2>3. ASSUME NEW r \in rows
          PROVE  Before(r)' = Before(r)
      <3>1. new.tenant = r.tenant => ~(new.id < r.id)
        BY <2>2
      <3>2. QED
        BY <2>1, <3>1 DEF Before, Chain
    <2>4. \A r \in rows : Scar(r) => Scar(r)'
      BY <2>3 DEF Scar, HashHolds
    <2>5. UNCHANGED tampered
      BY <1>2 DEF Commit
    <2>6. QED
      BY <2>1, <2>4, <2>5 DEF Scarred, Chain
  <1>3. ASSUME NEW w \in Writers, Progress(w) \/ WorkRaises(w) \/ Abort(w), ~Commit(w)
        PROVE  UNCHANGED <<rows, tampered>>
    BY <1>0, <1>3, WriterMoves
  <1>4. ASSUME NEW s \in Services, Crash(s)
        PROVE  UNCHANGED <<rows, tampered>>
    BY <1>4 DEF Crash
  <1>5. CASE UNCHANGED vars
    BY <1>1, <1>5 DEF vars
  <1>6. QED
    BY <1>1, <1>2, <1>3, <1>4, <1>5, TamperScars DEF Next, Progress

\* A row edited, deleted from among the others or moved is reported by the verifier, then
\* and after whatever is appended (verify_audit_chain.py:33-73).
THEOREM TamperingIsEvident == Spec => []TamperEvident
  <1>1. Init => Scarred
    BY DEF Init, Scarred
  <1>2. Scarred => TamperEvident
    <2> SUFFICES ASSUME Scarred, NEW t \in tampered, Verifies(t)
                 PROVE  FALSE
      BY DEF TamperEvident
    <2>1. PICK r \in Chain(t) : Scar(r)
      BY DEF Scarred
    <2>2. HashHolds(r) /\ IsHead(r.prev, Before(r))
      BY DEF Verifies, LinkHolds
    <2>3. r.prev # NoHash /\ \A p \in Before(r) : p.hash # r.prev
      BY <2>1, <2>2 DEF Scar
    <2>4. QED
      BY <2>2, <2>3 DEF IsHead, IsLast
  <1>3. QED
    BY <1>1, <1>2, ScarredStep, InvHolds, IdsHold, ChainsHold, TrailHolds, PTL DEF Spec

------------------------------------------------------------------------------
(* The log its readers see *)

\* The rows of a chain are numbered from the first to the last without a gap.
Ranked(t) ==
  /\ \A q \in Chain(t) : Position(q) \in 1..Cardinality(Chain(t))
  /\ \A n \in 1..Cardinality(Chain(t)) :
       \E r \in Chain(t) : \A q \in Chain(t) : Position(q) = n <=> q = r

Ranks == \A t \in Tenants \ tampered : Ranked(t)

\* The row at a position is the only one there.
LEMMA RowAtIs ==
  ASSUME NEW t, Ranked(t), NEW r \in Chain(t)
  PROVE  RowAt(t, Position(r)) = r
  <1>1. PICK p \in Chain(t) : \A q \in Chain(t) : Position(q) = Position(r) <=> q = p
    BY DEF Ranked
  <1>2. QED
    BY <1>1 DEF RowAt

\* There is a row at every position.
LEMMA RowAtExists ==
  ASSUME NEW t, Ranked(t), NEW n \in 1..Cardinality(Chain(t))
  PROVE  RowAt(t, n) \in Chain(t) /\ Position(RowAt(t, n)) = n
  <1>1. PICK p \in Chain(t) : \A q \in Chain(t) : Position(q) = n <=> q = p
    BY DEF Ranked
  <1>2. QED
    BY <1>1 DEF RowAt

\* A chain that no step touches keeps its rows where they are.
LEMMA RanksKept ==
  ASSUME NEW t, Chain(t)' = Chain(t), Ranked(t)
  PROVE  /\ Ranked(t)'
         /\ \A n \in 1..Cardinality(Chain(t)) : RowAt(t, n)' = RowAt(t, n)
  <1>1. ASSUME NEW r \in Chain(t)
        PROVE  Position(r)' = Position(r)
    <2>1. r.tenant = t
      BY DEF Chain
    <2>2. QED
      BY <2>1 DEF Position
  <1>2. Ranked(t)'
    BY <1>1 DEF Ranked
  <1>3. ASSUME NEW n \in 1..Cardinality(Chain(t))
        PROVE  RowAt(t, n)' = RowAt(t, n)
    <2>1. PICK p \in Chain(t) : \A q \in Chain(t) : Position(q) = n <=> q = p
      BY DEF Ranked
    <2>2. RowAt(t, n) = p
      BY <2>1 DEF RowAt
    <2>3. \A q \in Chain(t)' : Position(q)' = n <=> q = p
      BY <1>1, <2>1
    <2>4. RowAt(t, n)' = p
      BY <2>1, <2>3 DEF RowAt
    <2>5. QED
      BY <2>2, <2>4
  <1>4. QED
    BY <1>2, <1>3

\* A row behind all others takes the next position and moves none of them.
LEMMA RanksAppend ==
  ASSUME NEW t, Ranked(t), IsFiniteSet(Chain(t)), NEW new,
         Chain(t)' = Chain(t) \union {new}, new \notin Chain(t), new.tenant = t,
         new.id \in Nat, \A q \in Chain(t) : q.id < new.id /\ q.id \in Nat
  PROVE  /\ Ranked(t)'
         /\ Cardinality(Chain(t)) \in Nat
         /\ Cardinality(Chain(t))' = Cardinality(Chain(t)) + 1
         /\ \A n \in 1..Cardinality(Chain(t)) : RowAt(t, n)' = RowAt(t, n)
         /\ \A n : n = Cardinality(Chain(t)) + 1 => RowAt(t, n)' = new
  <1> DEFINE size == Cardinality(Chain(t))
  <1>1. size \in Nat /\ Cardinality(Chain(t))' = size + 1
    BY FS_CardinalityType, FS_AddElement
  <1>2. ASSUME NEW r \in Chain(t)
        PROVE  Position(r)' = Position(r)
    <2>1. r.tenant = t /\ ~(new.id <= r.id) /\ r.id \in Nat
      BY DEF Chain
    <2>2. {q \in Chain(t)' : q.id <= r.id} = {q \in Chain(t) : q.id <= r.id}
      BY <2>1
    <2>3. QED
      BY <2>1, <2>2 DEF Position
  <1>3. Position(new)' = size + 1
    <2>1. {q \in Chain(t)' : q.id <= new.id} = Chain(t)'
      <3>1. \A q \in Chain(t)' : q.id <= new.id
        OBVIOUS
      <3>2. QED
        BY <3>1
    <2>2. QED
      BY <1>1, <2>1 DEF Position
  <1> HIDE DEF size
  <1>4. \A q \in Chain(t) : Position(q) \in 1..size
    BY DEF Ranked, size
  <1>5. ASSUME NEW n \in 1..size
        PROVE  \E r \in Chain(t) :
                 /\ \A q \in Chain(t)' : Position(q)' = n <=> q = r
                 /\ RowAt(t, n) = r /\ RowAt(t, n)' = r
    <2>1. PICK r \in Chain(t) : \A q \in Chain(t) : Position(q) = n <=> q = r
      BY DEF Ranked, size
    <2>2. RowAt(t, n) = r
      BY <2>1 DEF RowAt
    <2>3. Position(new)' # n
      BY <1>1, <1>3
    <2>4. \A q \in Chain(t)' : Position(q)' = n <=> q = r
      BY <1>2, <2>1, <2>3
    <2>5. RowAt(t, n)' = r
      BY <2>1, <2>4 DEF RowAt
    <2>6. QED
      BY <2>2, <2>4, <2>5
  <1>6. \A q \in Chain(t)' : Position(q)' = size + 1 <=> q = new
    BY <1>1, <1>2, <1>3, <1>4
  <1>7. ASSUME NEW n, n = size + 1
        PROVE  RowAt(t, n)' = new
    <2>1. \A q \in Chain(t)' : Position(q)' = n <=> q = new
      BY <1>6, <1>7
    <2>2. new \in Chain(t)'
      OBVIOUS
    <2>3. QED
      BY <2>1, <2>2 DEF RowAt
  <1>8. Ranked(t)'
    <2>1. \A q \in Chain(t)' : Position(q)' \in 1..(size + 1)
      BY <1>1, <1>2, <1>3, <1>4
    <2>2. ASSUME NEW n \in 1..(size + 1)
          PROVE  \E r \in Chain(t)' : \A q \in Chain(t)' : Position(q)' = n <=> q = r
      <3>1. CASE n = size + 1
        BY <1>6, <3>1
      <3>2. CASE n # size + 1
        <4>1. n \in 1..size
          BY <1>1, <3>2
        <4>2. QED
          BY <1>5, <4>1
      <3>3. QED
        BY <3>1, <3>2
    <2>3. QED
      BY <1>1, <2>1, <2>2 DEF Ranked
  <1>9. QED
    BY <1>1, <1>5, <1>7, <1>8 DEF size

Lines == [by : Writers, event : Outcomes \union {"edited"}]

\* The log of a tenant nobody has touched: one entry for each row, in the order of the rows.
LEMMA EntriesAre ==
  ASSUME Typed, NEW t \in Tenants \ tampered, Ranked(t)
  PROVE  /\ Entries(t) \in Seq(Lines)
         /\ Cardinality(Chain(t)) \in Nat /\ Len(Entries(t)) = Cardinality(Chain(t))
         /\ \A n \in 1..Cardinality(Chain(t)) : Entries(t)[n] = Entry(RowAt(t, n))
  <1>1. Cardinality(Chain(t)) \in Nat
    <2>1. Chain(t) \in SUBSET rows
      BY DEF Chain
    <2>2. QED
      BY <2>1, FS_Subset, FS_CardinalityType DEF Typed
  <1>2. Entries(t) = [n \in 1..Cardinality(Chain(t)) |-> Entry(RowAt(t, n))]
    BY DEF Entries
  <1>3. ASSUME NEW n \in 1..Cardinality(Chain(t))
        PROVE  Entry(RowAt(t, n)) \in Lines
    <2>1. RowAt(t, n) \in Chain(t)
      BY RowAtExists
    <2>2. QED
      BY <2>1 DEF Typed, IsRow, Chain, Entry, Lines
  <1>4. Entries(t) \in [1..Cardinality(Chain(t)) -> Lines]
    BY <1>2, <1>3
  <1>5. QED
    BY <1>1, <1>2, <1>4, SeqDef, LenProperties

\* Entries of a chain that no step touches stay as they are.
LEMMA EntriesKept ==
  ASSUME NEW t \in Tenants, Chain(t)' = Chain(t), t \in tampered' <=> t \in tampered,
         t \notin tampered => Ranked(t)
  PROVE  Entries(t)' = Entries(t)
  <1>1. CASE t \in tampered
    BY <1>1 DEF Entries
  <1>2. CASE t \notin tampered
    <2>1. \A n \in 1..Cardinality(Chain(t)) : RowAt(t, n)' = RowAt(t, n)
      BY <1>2, RanksKept
    <2>2. Cardinality(Chain(t))' = Cardinality(Chain(t))
      OBVIOUS
    <2>3. QED
      BY <1>2, <2>1, <2>2 DEF Entries, Entry
  <1>3. QED
    BY <1>1, <1>2

\* What Append leaves in place and what it adds.
LEMMA Appended ==
  ASSUME NEW S, NEW seq \in Seq(S), NEW e \in S
  PROVE  Append(seq, e) =
           [n \in 1..(Len(seq) + 1) |-> IF n <= Len(seq) THEN seq[n] ELSE e]
  <1>1. /\ Append(seq, e) \in Seq(S) /\ Len(Append(seq, e)) = Len(seq) + 1
        /\ \A i \in 1..Len(seq) : Append(seq, e)[i] = seq[i]
        /\ Append(seq, e)[Len(seq) + 1] = e
    BY AppendProperties
  <1>2. /\ Append(seq, e) \in [1..(Len(seq) + 1) -> S]
        /\ Len(seq) \in Nat
    BY <1>1, LenProperties
  <1>3. \A n \in 1..(Len(seq) + 1) :
          Append(seq, e)[n] = IF n <= Len(seq) THEN seq[n] ELSE e
    BY <1>1, <1>2
  <1>4. QED
    BY <1>2, <1>3

\* A new row is the next entry.
LEMMA EntriesAppend ==
  ASSUME Typed, Typed', NEW t \in Tenants \ tampered, t \notin tampered', Ranked(t),
         IsFiniteSet(Chain(t)), NEW new,
         Chain(t)' = Chain(t) \union {new}, new \notin Chain(t), new.tenant = t,
         new.id \in Nat, \A q \in Chain(t) : q.id < new.id /\ q.id \in Nat
  PROVE  Entries(t)' = Append(Entries(t), Entry(new))
  <1> DEFINE size == Cardinality(Chain(t))
  <1>1. /\ Entries(t) \in Seq(Lines) /\ size \in Nat /\ Len(Entries(t)) = size
        /\ \A n \in 1..size : Entries(t)[n] = Entry(RowAt(t, n))
    BY EntriesAre
  <1>2. /\ Cardinality(Chain(t))' = size + 1
        /\ \A n \in 1..size : RowAt(t, n)' = RowAt(t, n)
        /\ \A n : n = size + 1 => RowAt(t, n)' = new
    BY RanksAppend
  <1>3. Entries(t)' = [n \in 1..Cardinality(Chain(t))' |-> Entry(RowAt(t, n)')]
    BY DEF Entries, Entry
  <1>4. Entry(new) \in Lines
    <2>1. new \in rows'
      BY DEF Chain
    <2>2. QED
      BY <2>1 DEF Typed, IsRow, Entry, Lines
  <1> HIDE DEF size
  <1>5. Append(Entries(t), Entry(new)) =
          [n \in 1..(Len(Entries(t)) + 1) |->
             IF n <= Len(Entries(t)) THEN Entries(t)[n] ELSE Entry(new)]
    BY <1>1, <1>4, Appended
  <1>6. ASSUME NEW n \in 1..(size + 1)
        PROVE  Entry(RowAt(t, n)') = IF n <= size THEN Entries(t)[n] ELSE Entry(new)
    <2>1. CASE n = size + 1
      BY <1>1, <1>2, <2>1
    <2>2. CASE n # size + 1
      <3>1. n \in 1..size /\ n <= size
        BY <1>1, <2>2
      <3>2. QED
        BY <1>1, <1>2, <3>1
    <2>3. QED
      BY <2>1, <2>2
  <1>7. Entries(t)' = [n \in 1..(size + 1) |->
                         IF n <= size THEN Entries(t)[n] ELSE Entry(new)]
    BY <1>2, <1>3, <1>6
  <1>8. QED
    BY <1>1, <1>5, <1>7

\* The log of a tenant says what is on record of its writers, and nothing else.
LEMMA SaidIsLogged ==
  ASSUME Typed, Ranks, NEW w \in Writers, TenantOf[w] \notin tampered, NEW e
  PROVE  Log!Said(w, e) <=> Logged(w, e)
  <1> DEFINE t == TenantOf[w]
             log == [u \in Tenants |-> Entries(u)]
  <1>1. t \in Tenants /\ log[t] = Entries(t)
    BY AuditAssumption
  <1>2. Ranked(t)
    BY <1>1 DEF Ranks
  <1>3. /\ Cardinality(Chain(t)) \in Nat /\ Len(Entries(t)) = Cardinality(Chain(t))
        /\ \A n \in 1..Cardinality(Chain(t)) : Entries(t)[n] = Entry(RowAt(t, n))
    BY <1>1, <1>2, EntriesAre
  <1>4. Log!Said(w, e) <=>
          \E n \in 1..Cardinality(Chain(t)) : Entry(RowAt(t, n)) = [by |-> w, event |-> e]
    BY <1>1, <1>3 DEF Log!Said
  <1> HIDE DEF t, log
  <1>5. ASSUME NEW n \in 1..Cardinality(Chain(t)),
               Entry(RowAt(t, n)) = [by |-> w, event |-> e]
        PROVE  Logged(w, e)
    <2>1. RowAt(t, n) \in Chain(t)
      BY <1>2, RowAtExists
    <2>2. QED
      BY <1>5, <2>1 DEF Logged, Chain, Entry
  <1>6. ASSUME Logged(w, e)
        PROVE  \E n \in 1..Cardinality(Chain(t)) :
                 Entry(RowAt(t, n)) = [by |-> w, event |-> e]
    <2>1. PICK r \in Chain(t) : r.by = w /\ r.event = e
      BY <1>6, LoggedInChain DEF t
    <2>2. /\ Position(r) \in 1..Cardinality(Chain(t))
          /\ RowAt(t, Position(r)) = r
      BY <1>2, RowAtIs DEF Ranked
    <2>3. QED
      BY <2>1, <2>2 DEF Entry
  <1>7. QED
    BY <1>4, <1>5, <1>6

\* A commit is the next entry in the log of its tenant, and of no other.
LEMMA CommitEntry ==
  ASSUME IInv, Typed, Typed', IdsInOrder, Ranks, NEW w \in Writers, Commit(w)
  PROVE  /\ Ranks'
         /\ \A t \in Tenants : t # TenantOf[w] => Entries(t)' = Entries(t)
         /\ IF TenantOf[w] \in tampered
            THEN Entries(TenantOf[w])' = Entries(TenantOf[w])
            ELSE Entries(TenantOf[w])' =
                   Append(Entries(TenantOf[w]), [by |-> w, event |-> writer[w].event])
  <1> DEFINE t == TenantOf[w]
  <1>1. PICK new : /\ new.by = w /\ new.event = writer[w].event /\ new.id = writer[w].id
                   /\ new.tenant = t /\ new \notin Chain(t)
                   /\ Chain(t)' = Chain(t) \union {new}
                   /\ \A q \in Chain(t) : q.id < new.id /\ q.id \in Nat
                   /\ \A u : u # t => Chain(u)' = Chain(u)
    BY ChainMoves
  <1>2. /\ UNCHANGED tampered /\ new.id \in Nat /\ t \in Tenants
        /\ Entry(new) = [by |-> w, event |-> writer[w].event]
    BY <1>1, AuditAssumption DEF Commit, IInv, WriterType, Entry
  <1>3. IsFiniteSet(Chain(t))
    <2>1. Chain(t) \in SUBSET rows
      BY DEF Chain
    <2>2. QED
      BY <2>1, FS_Subset DEF Typed
  <1> HIDE DEF t
  <1>4. ASSUME NEW u \in Tenants, u # t
        PROVE  Entries(u)' = Entries(u) /\ (u \notin tampered => Ranked(u)')
    <2>1. Chain(u)' = Chain(u) /\ (u \notin tampered => Ranked(u))
      BY <1>1, <1>4 DEF Ranks
    <2>2. QED
      BY <1>2, <2>1, EntriesKept, RanksKept
  <1>5. CASE t \in tampered
    <2>1. Entries(t)' = Entries(t)
      BY <1>2, <1>5 DEF Entries
    <2>2. QED
      BY <1>2, <1>4, <1>5, <2>1 DEF Ranks, t
  <1>6. CASE t \notin tampered
    <2>1. Ranked(t) /\ t \in Tenants \ tampered /\ t \notin tampered'
      BY <1>2, <1>6 DEF Ranks
    <2>2. Ranked(t)'
      BY <1>1, <1>2, <1>3, <2>1, RanksAppend
    <2>3. Entries(t)' = Append(Entries(t), Entry(new))
      BY <1>1, <1>2, <1>3, <2>1, EntriesAppend
    <2>4. QED
      BY <1>2, <1>4, <1>6, <2>2, <2>3 DEF Ranks, t
  <1>7. QED
    BY <1>5, <1>6

\* A step that changes no row changes nothing for a reader.
LEMMA QuietEntries ==
  ASSUME Ranks, UNCHANGED <<rows, tampered>>
  PROVE  Ranks' /\ \A t \in Tenants : Entries(t)' = Entries(t)
  <1>1. \A t : Chain(t)' = Chain(t)
    BY DEF Chain
  <1>2. QED
    BY <1>1, EntriesKept, RanksKept DEF Ranks

\* A change by hand spoils the log it was made in and no other.
LEMMA TamperEntries ==
  ASSUME Typed, Ranks, NEW r \in rows, Edit(r) \/ Delete(r) \/ (\E q \in rows : Swap(r, q))
  PROVE  /\ Ranks' /\ Entries(r.tenant)' = <<>>
         /\ \A t \in Tenants : t # r.tenant => Entries(t)' = Entries(t)
  <1>1. /\ tampered = {} /\ tampered' = {r.tenant}
        /\ \A t : t # r.tenant => Chain(t)' = Chain(t)
    BY TamperTyped
  <1>2. Entries(r.tenant)' = <<>>
    BY <1>1 DEF Entries
  <1>3. ASSUME NEW t \in Tenants, t # r.tenant
        PROVE  Entries(t)' = Entries(t) /\ Ranked(t)'
    <2>1. Chain(t)' = Chain(t) /\ Ranked(t) /\ t \notin tampered /\ t \notin tampered'
      BY <1>1, <1>3 DEF Ranks
    <2>2. QED
      BY <2>1, EntriesKept, RanksKept
  <1>4. QED
    BY <1>1, <1>2, <1>3 DEF Ranks

\* Every step keeps the numbering of the rows.
LEMMA RanksStep == IInv /\ Typed /\ Typed' /\ IdsInOrder /\ Ranks /\ [Next]_vars => Ranks'
  <1> SUFFICES ASSUME IInv, Typed, Typed', IdsInOrder, Ranks, [Next]_vars
               PROVE  Ranks'
    OBVIOUS
  <1>0. WriterType
    BY DEF Typed
  <1>1. ASSUME NEW w \in Writers, Progress(w) \/ WorkRaises(w) \/ Abort(w)
        PROVE  Ranks'
    BY <1>0, <1>1, WriterMoves, CommitEntry, QuietEntries
  <1>2. ASSUME NEW s \in Services, Crash(s)
        PROVE  Ranks'
    BY <1>2, QuietEntries DEF Crash
  <1>3. ASSUME NEW r \in rows, Edit(r) \/ Delete(r) \/ (\E q \in rows : Swap(r, q))
        PROVE  Ranks'
    BY <1>3, TamperEntries
  <1>4. CASE UNCHANGED vars
    BY <1>4, QuietEntries DEF vars
  <1>5. QED
    BY <1>1, <1>2, <1>3, <1>4 DEF Next

\* An empty log, in every tenant.
LEMMA InitRanks ==
  ASSUME Init
  PROVE  Ranks /\ \A t \in Tenants : Entries(t) = <<>>
  <1>1. \A t : Chain(t) = {}
    BY DEF Init, Chain
  <1>2. Cardinality({}) = 0
    BY FS_EmptySet
  <1>3. \A t \in Tenants : Cardinality(Chain(t)) = 0 /\ 1..Cardinality(Chain(t)) = {}
    BY <1>1, <1>2
  <1>4. Ranks
    BY <1>1, <1>3 DEF Ranks, Ranked
  <1>5. ASSUME NEW t \in Tenants
        PROVE  Entries(t) = <<>>
    <2>1. Entries(t) = [n \in 1..Cardinality(Chain(t)) |-> Entry(RowAt(t, n))]
      BY DEF Init, Entries
    <2>2. Entries(t) = [n \in {} |-> Entry(RowAt(t, n))]
      BY <1>3, <2>1
    <2>3. QED
      BY <2>2
  <1>6. QED
    BY <1>4, <1>5

\* The rows are numbered without a gap in every reachable state.
LEMMA RanksHold == Spec => []Ranks
  BY InitRanks, RanksStep, InvHolds, IdsHold, PTL DEF Spec

LogOf == [t \in Tenants |-> Entries(t)]

\* What a writer is about to record is what it may say next.
LEMMA MaySayNext ==
  ASSUME Typed, Trail, Ranks, NEW w \in Writers, TenantOf[w] \notin tampered,
         writer[w].at \in Recording
  PROVE  Log!May(w, writer[w].event)
  <1>1. /\ TrailOf(TenantOf[w]) /\ writer[w].event \in Outcomes
        /\ \A e : Log!Said(w, e) <=> Logged(w, e)
    BY AuditAssumption, SaidIsLogged DEF Trail, Typed, WriterType
  <1>2. ~Logged(w, writer[w].event)
    BY <1>1 DEF TrailOf, Pending
  <1>3. CASE w \notin Attempts
    <2>1. writer[w].event = "recorded"
      BY <1>3 DEF Typed, Roles
    <2>2. QED
      BY <1>1, <1>2, <1>3, <2>1 DEF Log!May
  <1>4. CASE w \in Attempts
    <2>1. writer[w].event \in {"started", "completed", "failed"}
      BY <1>1, <1>4 DEF Typed, Roles, Outcomes
    <2>2. CASE writer[w].event = "started"
      BY <1>1, <1>2, <1>4, <2>2 DEF Log!May
    <2>3. CASE writer[w].event = "completed"
      <3>1. /\ worked[w] = BodyOf[w] /\ w \notin raised
            /\ Logged(w, "started") /\ ~Logged(w, "failed")
        BY <1>1, <1>4, <2>3 DEF TrailOf, Outcome
      <3>2. QED
        BY <1>1, <1>2, <1>4, <2>3, <3>1 DEF Log!May
    <2>4. CASE writer[w].event = "failed"
      <3>1. w \in raised /\ Logged(w, "started") /\ ~Logged(w, "completed")
        BY <1>1, <1>4, <2>4 DEF TrailOf, Outcome
      <3>2. QED
        BY <1>1, <1>2, <1>4, <2>4, <3>1 DEF Log!May
    <2>5. QED
      BY <2>1, <2>2, <2>3, <2>4
  <1>5. QED
    BY <1>3, <1>4

\* A commit is a statement its writer may make, at the end of the log of its tenant; in a
\* log that was changed by hand it is nothing a reader could rely on.
LEMMA CommitSays ==
  ASSUME IInv, Typed, Typed', IdsInOrder, Trail, Ranks, NEW w \in Writers, Commit(w)
  PROVE  Log!Next \/ UNCHANGED Log!vars
  <1> DEFINE t == TenantOf[w]
             line == [by |-> w, event |-> writer[w].event]
  <1>1. /\ UNCHANGED <<worked, raised, tampered>> /\ writer[w].at \in Recording
        /\ t \in Tenants /\ writer[w].event \in Outcomes
    BY AuditAssumption DEF Commit, Goto, Recording, Locking, IInv, WriterType
  <1>2. /\ \A u \in Tenants : u # t => Entries(u)' = Entries(u)
        /\ IF t \in tampered THEN Entries(t)' = Entries(t)
                             ELSE Entries(t)' = Append(Entries(t), line)
    BY CommitEntry
  <1>3. LogOf' = [u \in Tenants |-> Entries(u)']
    BY DEF LogOf
  <1> HIDE DEF t, line
  <1>4. CASE t \in tampered
    <2>1. \A u \in Tenants : Entries(u)' = Entries(u)
      BY <1>2, <1>4
    <2>2. LogOf' = LogOf
      BY <1>3, <2>1 DEF LogOf
    <2>3. QED
      BY <1>1, <2>2 DEF Log!vars, LogOf
  <1>5. CASE t \notin tampered
    <2>1. LogOf' = [LogOf EXCEPT ![t] = Append(@, line)]
      <3>1. LogOf[t] = Entries(t)
        BY <1>1 DEF LogOf
      <3>2. [LogOf EXCEPT ![t] = Append(@, line)] =
              [u \in Tenants |-> IF u = t THEN Append(Entries(t), line) ELSE Entries(u)]
        BY <3>1 DEF LogOf
      <3>3. \A u \in Tenants :
              Entries(u)' = IF u = t THEN Append(Entries(t), line) ELSE Entries(u)
        BY <1>2, <1>5
      <3>4. QED
        BY <1>3, <3>2, <3>3
    <2>2. Log!May(w, writer[w].event) /\ Log!Trusted(w)
      BY <1>1, <1>5, MaySayNext DEF Log!Trusted, t
    <2>3. Log!Say(w, writer[w].event)
      BY <1>1, <2>1, <2>2 DEF Log!Say, LogOf, t, line
    <2>4. QED
      BY <1>1, <2>3 DEF Log!Next, Outcomes
  <1>6. QED
    BY <1>4, <1>5

\* Work becomes durable, and a body raises, between its announcement and its outcome.
LEMMA WorkIsAnnounced ==
  ASSUME Typed, Trail, Ranks, NEW w \in Writers, WorkDone(w) \/ WorkRaises(w)
  PROVE  Log!Next
  <1>1. /\ writer[w].at \in {"work", "working"}
        /\ worked' = worked \/ worked' = [worked EXCEPT ![w] = @ + 1]
        /\ raised' = raised \/ raised' = raised \union {w}
        /\ UNCHANGED <<rows, tampered>>
    BY DEF WorkDone, WorkRaises, RaisedAfter, Goto
  <1>2. w \in Attempts
    BY <1>1 DEF Typed, Roles
  <1>3. LogOf' = LogOf
    BY <1>1, QuietEntries DEF LogOf
  <1>4. ASSUME TenantOf[w] \notin tampered
        PROVE  /\ w \notin raised
               /\ Log!Said(w, "started") /\ ~Log!Said(w, "completed") /\ ~Log!Said(w, "failed")
    <2>1. TrailOf(TenantOf[w]) /\ \A e : Log!Said(w, e) <=> Logged(w, e)
      BY <1>4, AuditAssumption, SaidIsLogged DEF Trail
    <2>2. QED
      BY <1>1, <1>2, <2>1 DEF TrailOf, Pending, Outcome
  <1>5. Log!Work(w)
    BY <1>1, <1>2, <1>3, <1>4 DEF Log!Work, Log!Trusted, LogOf
  <1>6. QED
    BY <1>5 DEF Log!Next

\* Every step is one of the log's, or nothing a reader sees.
LEMMA StepLogs ==
  IInv /\ Typed /\ Typed' /\ IdsInOrder /\ Trail /\ Ranks /\ [Next]_vars
    => [Log!Next]_(Log!vars)
  <1> SUFFICES ASSUME IInv, Typed, Typed', IdsInOrder, Trail, Ranks, [Next]_vars
               PROVE  Log!Next \/ UNCHANGED Log!vars
    OBVIOUS
  <1>0. WriterType
    BY DEF Typed
  <1>1. ASSUME UNCHANGED <<rows, worked, raised, tampered>>
        PROVE  UNCHANGED Log!vars
    <2>1. \A t \in Tenants : Entries(t)' = Entries(t)
      BY <1>1, QuietEntries
    <2>2. LogOf' = LogOf
      BY <2>1 DEF LogOf
    <2>3. QED
      BY <1>1, <2>2 DEF Log!vars, LogOf
  <1>2. ASSUME NEW w \in Writers, Progress(w) \/ WorkRaises(w) \/ Abort(w)
        PROVE  Log!Next \/ UNCHANGED Log!vars
    <2>1. CASE Commit(w)
      BY <2>1, CommitSays
    <2>2. CASE WorkDone(w) \/ WorkRaises(w)
      BY <2>2, WorkIsAnnounced
    <2>3. CASE ~Commit(w) /\ ~WorkDone(w) /\ ~WorkRaises(w)
      BY <1>0, <1>1, <1>2, <2>3, WriterMoves
    <2>4. QED
      BY <2>1, <2>2, <2>3
  <1>3. ASSUME NEW s \in Services, Crash(s)
        PROVE  UNCHANGED Log!vars
    BY <1>1, <1>3 DEF Crash
  <1>4. ASSUME NEW r \in rows, Edit(r) \/ Delete(r) \/ (\E q \in rows : Swap(r, q))
        PROVE  Log!Next
    <2> DEFINE s == r.tenant
    <2>1. /\ tampered = {} /\ tampered' = {s} /\ s \in Tenants
          /\ UNCHANGED <<worked, raised>>
      BY <1>4, TamperTyped
    <2>2. /\ Entries(s)' = <<>>
          /\ \A t \in Tenants : t # s => Entries(t)' = Entries(t)
      BY <1>4, TamperEntries
    <2> HIDE DEF s
    <2>3. LogOf' = [t \in Tenants |-> Entries(t)']
      BY DEF LogOf
    <2>4. LogOf' = [LogOf EXCEPT ![s] = <<>>]
      BY <2>2, <2>3 DEF LogOf
    <2>5. Log!Distrust(s)
      BY <2>1, <2>4 DEF Log!Distrust, LogOf
    <2>6. QED
      BY <2>1, <2>5 DEF Log!Next
  <1>5. CASE UNCHANGED vars
    BY <1>1, <1>5 DEF vars
  <1>6. QED
    BY <1>2, <1>3, <1>4, <1>5 DEF Next

\* To its readers the table is a log: whatever the callers of both services, the lock, the
\* crashes and the rollbacks do, it grows by one true statement at a time, at its end, and a
\* change by hand spoils only the log it was made in (pipeline/audit.py:17-128).
THEOREM TableImplementsLog == Spec => ImplementsLog
  <1>1. Init => Log!Init
    <2> SUFFICES ASSUME Init
                 PROVE  Log!Init
      OBVIOUS
    <2>1. \A t \in Tenants : Entries(t) = <<>>
      BY InitRanks
    <2>2. QED
      BY <2>1 DEF Log!Init, Init
  <1>2. QED
    BY <1>1, StepLogs, InvHolds, IdsHold, TrailHolds, RanksHold, PTL
       DEF Spec, ImplementsLog, Log!Spec
==============================================================================
