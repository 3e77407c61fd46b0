-------------------------- MODULE ReviewConsoleProofs --------------------------
(***************************************************************************)
(* What the console shows ahead of the server is temporary, for any cases, *)
(* mutations, changes by others and faults.                                *)
(***************************************************************************)
EXTENDS ReviewConsole, FiniteSetTheorems, TLAPS

Caches == [Cases -> Row \cup {"you"}]
Fetches == [at : {"idle", "sent", "answered"}, rows : [Cases -> Row]]
\* The list a mutation remembers is one the console has shown, or none.
Previous == Caches \cup {NoList}
MutationRows == [at : {"unused", "sent", "answered", "settled"}, kind : Kinds,
                 case : Cases, ok : BOOLEAN, previous : Previous]

\* A change notifies at most once, and a mutation is one change.
Answered == {m \in Mutations : mutation[m].at \in {"answered", "settled"}}
EventsCounted == events \in Nat /\ events <= changes + Cardinality(Answered)

\* TypeOK without its bound on events, and with what a rollback can put back.
Typed ==
  /\ queue \in [Cases -> Row]
  /\ stream \in {"down", "open", "deaf"}
  /\ session \in {"active", "revoked", "ended"}
  /\ loaded \in BOOLEAN /\ missed \in {"nothing", "unheard", "joined", "unread"}
  /\ cache \in Caches
  /\ fetch \in Fetches
  /\ mutation \in [Mutations -> MutationRows]
  /\ changes \in 0..MaxChanges /\ faults \in 0..MaxFaults

\* There are finitely many mutations, so those answered can be counted.
LEMMA AnsweredFinite ==
  /\ MaxMutations \in Nat /\ IsFiniteSet(Mutations) /\ Cardinality(Mutations) = MaxMutations
  /\ \A S \in SUBSET Mutations : /\ IsFiniteSet(S) /\ Cardinality(S) \in Nat
                                 /\ Cardinality(S) <= MaxMutations
  <1>1. MaxMutations \in Nat
    BY ConsoleAssumption DEF ConsoleAssumption
  <1>2. IsFiniteSet(Mutations) /\ Cardinality(Mutations) = MaxMutations
    BY <1>1, FS_Interval DEF Mutations
  <1>3. QED
    BY <1>1, <1>2, FS_Subset, FS_CardinalityType

\* With every step's own bound, the events are within that of TypeOK.
LEMMA CountedBound == Typed /\ EventsCounted => TypeOK
  <1> SUFFICES ASSUME Typed, EventsCounted PROVE TypeOK
    OBVIOUS
  <1>1. Cardinality(Answered) \in Nat /\ Cardinality(Answered) <= MaxMutations
    BY AnsweredFinite DEF Answered
  <1>2. changes \in Nat /\ changes <= MaxChanges /\ MaxChanges \in Nat /\ MaxMutations \in Nat
    BY ConsoleAssumption DEF Typed, ConsoleAssumption
  <1>3. events \in 0..(MaxChanges + MaxMutations)
    BY <1>1, <1>2 DEF EventsCounted
  <1>4. mutation \in [Mutations -> [at : {"unused", "sent", "answered", "settled"}, kind : Kinds,
                                    case : Cases, ok : BOOLEAN,
                                    previous : [Cases -> Row \cup {"you", "unknown"}]]]
    <2>1. Previous \subseteq [Cases -> Row \cup {"you", "unknown"}]
      BY DEF Previous, Caches, NoList
    <2>2. MutationRows \subseteq [at : {"unused", "sent", "answered", "settled"}, kind : Kinds,
                                  case : Cases, ok : BOOLEAN,
                                  previous : [Cases -> Row \cup {"you", "unknown"}]]
      BY <2>1 DEF MutationRows
    <2>3. QED
      BY <2>2 DEF Typed
  <1>5. QED
    BY <1>3, <1>4 DEF Typed, TypeOK, Caches, Fetches

\* An unused mutation is a mutation, and an idle or a fresh request a request.
LEMMA FreshRows ==
  /\ Empty \in [Cases -> Row]
  /\ Idle \in Fetches /\ Sent \in Fetches /\ Idle.at = "idle" /\ Sent.at = "sent"
  /\ Unused \in MutationRows /\ [Unused EXCEPT !.at = "settled"] \in MutationRows
  <1>1. Empty \in [Cases -> Row]
    BY DEF Empty, Row
  <1>2. Idle \in Fetches /\ Sent \in Fetches /\ Idle.at = "idle" /\ Sent.at = "sent"
    BY <1>1 DEF Idle, Sent, Fetches
  <1>3. (CHOOSE k \in Cases : TRUE) \in Cases
    BY ConsoleAssumption DEF ConsoleAssumption
  <1>4. Unused \in MutationRows
    BY <1>3 DEF Unused, MutationRows, Kinds, Previous
  <1>5. QED
    BY <1>1, <1>2, <1>4 DEF MutationRows

\* A change moves one row and sends at most one event.
LEMMA CommitMoves ==
  ASSUME Typed, NEW k \in Cases, NEW row \in Row, Commit(k, row), events \in Nat
  PROVE  /\ queue' \in [Cases -> Row] /\ events' \in Nat /\ events' <= events + 1
         /\ missed' \in {missed, "unheard"}
  BY DEF Commit, Typed

\* The first load over, or nothing in flight: an invalidation fetches again.
LEMMA InvalidatedFetches ==
  ASSUME Typed
  PROVE  Invalidated \in Fetches /\ Invalidated.at # "idle"
  BY FreshRows DEF Typed, Invalidated

\* The initial state is well typed and nothing is on its way.
LEMMA InitTyped == Init => Typed /\ EventsCounted
  <1> SUFFICES ASSUME Init PROVE Typed /\ EventsCounted
    OBVIOUS
  <1>1. Typed
    <2>1. MaxChanges \in Nat /\ MaxFaults \in Nat
      BY ConsoleAssumption DEF ConsoleAssumption
    <2>2. queue \in [Cases -> Row] /\ cache \in Caches
      BY FreshRows DEF Init, Row, Caches
    <2>3. mutation \in [Mutations -> MutationRows]
      BY FreshRows DEF Init
    <2>4. fetch \in Fetches
      BY FreshRows DEF Init
    <2>5. changes \in 0..MaxChanges /\ faults \in 0..MaxFaults
      BY <2>1 DEF Init
    <2>6. QED
      BY <2>2, <2>3, <2>4, <2>5 DEF Init, Typed
  <1>2. EventsCounted
    <2>1. Cardinality(Answered) \in Nat
      BY AnsweredFinite DEF Answered
    <2>2. QED
      BY <2>1 DEF Init, EventsCounted
  <1>3. QED
    BY <1>1, <1>2


\* A mutation that changes is the one that changes: the others stay as they are.
LEMMA MutationTyped ==
  ASSUME Typed, NEW m \in Mutations, NEW row \in MutationRows,
         mutation' = [mutation EXCEPT ![m] = row]
  PROVE  /\ mutation' \in [Mutations -> MutationRows] /\ mutation'[m] = row
         /\ \A n \in Mutations \ {m} : mutation'[n] = mutation[n]
  BY DEF Typed

\* What has been answered stays so.
LEMMA AnsweredKept ==
  ASSUME Typed, NEW m \in Mutations, NEW row \in MutationRows,
         mutation' = [mutation EXCEPT ![m] = row],
         mutation[m].at \in {"answered", "settled"} => row.at \in {"answered", "settled"}
  PROVE  Cardinality(Answered) <= Cardinality(Answered)' /\ Cardinality(Answered)' \in Nat
  <1>1. Answered \subseteq Answered'
    BY MutationTyped DEF Answered, Mutations
  <1>2. Answered' \in SUBSET Mutations
    BY DEF Answered, Mutations
  <1>3. IsFiniteSet(Answered') /\ Cardinality(Answered') \in Nat
    BY <1>2, AnsweredFinite
  <1>4. Cardinality(Answered) <= Cardinality(Answered')
    BY <1>1, <1>3, FS_Subset
  <1>5. QED
    BY <1>3, <1>4

\* A mutation that is answered is one more that has been.
LEMMA AnsweredGrows ==
  ASSUME Typed, NEW m \in Mutations, NEW row \in MutationRows,
         mutation' = [mutation EXCEPT ![m] = row],
         mutation[m].at = "sent", row.at = "answered"
  PROVE  /\ Cardinality(Answered)' = Cardinality(Answered) + 1
         /\ Cardinality(Answered) \in Nat
  <1>1. Answered' = Answered \cup {m} /\ m \notin Answered
    BY MutationTyped DEF Answered, Mutations
  <1>2. Answered \in SUBSET Mutations
    BY DEF Answered
  <1>3. IsFiniteSet(Answered) /\ Cardinality(Answered) \in Nat
    BY <1>2, AnsweredFinite
  <1>4. Cardinality(Answered') = Cardinality(Answered) + 1
    BY <1>1, <1>3, FS_AddElement
  <1>5. QED
    BY <1>3, <1>4

\* Whatever reaches the console or the database, other than a mutation.
LEMMA QueueSteps ==
  ASSUME Typed, EventsCounted, OthersChange \/ Revoke \/ Ends(Asking) \/ Listen \/ LoseListener
         \/ Cut
  PROVE  Typed' /\ EventsCounted'
  <1>1. Cardinality(Answered) \in Nat
    BY AnsweredFinite DEF Answered
  <1>2. mutation' = mutation /\ loaded' = loaded /\ cache' = cache
    BY DEF OthersChange, Revoke, Ends, Listen, LoseListener, Cut
  <1>3. Cardinality(Answered)' = Cardinality(Answered)
    BY <1>2 DEF Answered, Mutations
  <1>4. MaxChanges \in Nat /\ MaxFaults \in Nat
    BY ConsoleAssumption DEF ConsoleAssumption
  <1>5. CASE OthersChange
    <2>1. PICK k \in Cases, row \in Row : Commit(k, row)
      BY <1>5 DEF OthersChange
    <2>2. /\ queue' \in [Cases -> Row] /\ events' \in Nat /\ events' <= events + 1
          /\ missed' \in {missed, "unheard"}
      BY <2>1, CommitMoves DEF EventsCounted
    <2>3. changes' = changes + 1 /\ changes' \in 0..MaxChanges
      BY <1>4, <1>5 DEF OthersChange, Typed
    <2>4. Typed'
      BY <1>2, <1>5, <2>2, <2>3 DEF OthersChange, Typed, Caches, Fetches, MutationRows, Previous,
                                    Mutations
    <2>5. EventsCounted'
      BY <1>1, <1>3, <2>2, <2>3 DEF EventsCounted, Typed
    <2>6. QED
      BY <2>4, <2>5
  <1>6. CASE Revoke
    BY <1>3, <1>6 DEF Revoke, Typed, EventsCounted, Caches, Fetches, MutationRows, Previous,
                      Mutations
  <1>7. CASE Ends(Asking)
    <2>1. Typed'
      BY <1>7, FreshRows DEF Ends, Typed, Caches, Fetches, MutationRows, Previous, Mutations
    <2>2. changes' = changes /\ changes \in Nat /\ events' = 0
      BY <1>7 DEF Ends, Typed
    <2>3. QED
      BY <1>1, <1>3, <2>1, <2>2 DEF EventsCounted
  <1>8. CASE Listen
    BY <1>3, <1>8 DEF Listen, Typed, EventsCounted, Caches, Fetches, MutationRows, Previous,
                      Mutations
  <1>9. CASE Cut
    <2>1. faults' \in 0..MaxFaults
      BY <1>4, <1>9 DEF Cut, Typed
    <2>2. Typed'
      BY <1>9, <2>1 DEF Cut, Typed, Caches, Fetches, MutationRows, Previous, Mutations
    <2>3. changes' = changes /\ changes \in Nat /\ events' = 0
      BY <1>9 DEF Cut, Typed
    <2>4. QED
      BY <1>1, <1>3, <2>2, <2>3 DEF EventsCounted
  <1>10. CASE LoseListener
    <2>1. faults' \in 0..MaxFaults
      BY <1>4, <1>10 DEF LoseListener, Typed
    <2>2. Typed'
      BY <1>10, <2>1 DEF LoseListener, Typed, Caches, Fetches, MutationRows, Previous, Mutations
    <2>3. changes' = changes /\ changes \in Nat /\ events' \in Nat /\ events' <= events
      BY <1>10 DEF LoseListener, Typed, EventsCounted
    <2>4. QED
      BY <1>1, <1>3, <2>2, <2>3 DEF EventsCounted
  <1>11. QED
    BY <1>5, <1>6, <1>7, <1>8, <1>9, <1>10

\* An event that arrives, and the query's own steps.
LEMMA QuerySteps ==
  ASSUME Typed, EventsCounted, Deliver \/ Serve \/ Respond \/ FetchFails
  PROVE  Typed' /\ EventsCounted'
  <1>1. Cardinality(Answered) \in Nat
    BY AnsweredFinite DEF Answered
  <1>2. mutation' = mutation /\ queue' = queue /\ changes' = changes /\ stream' = stream
    BY DEF Deliver, Serve, Respond, FetchFails
  <1>3. Cardinality(Answered)' = Cardinality(Answered)
    BY <1>2 DEF Answered, Mutations
  <1>4. events' \in Nat /\ events' <= events
    BY DEF Deliver, Serve, Respond, FetchFails, EventsCounted
  <1>5. EventsCounted'
    BY <1>1, <1>2, <1>3, <1>4 DEF EventsCounted, Typed
  <1>6. fetch' \in Fetches
    <2>1. CASE Deliver
      BY <2>1, InvalidatedFetches DEF Deliver
    <2>2. CASE Serve
      BY <2>2 DEF Serve, Typed, Fetches
    <2>3. CASE Respond
      BY <2>3, FreshRows DEF Respond
    <2>4. CASE FetchFails
      BY <2>4, FreshRows DEF FetchFails
    <2>5. QED
      BY <2>1, <2>2, <2>3, <2>4
  <1>7. cache' \in Caches
    BY DEF Deliver, Serve, Respond, FetchFails, Typed, Caches, Fetches
  <1>8. faults' \in 0..MaxFaults
    BY ConsoleAssumption DEF ConsoleAssumption, Deliver, Serve, Respond, FetchFails, Typed
  <1>9. /\ session' = session /\ loaded' \in BOOLEAN
        /\ missed' \in {"nothing", "unheard", "joined", "unread"}
    BY DEF Deliver, Serve, Respond, FetchFails, Typed
  <1>10. Typed'
    BY <1>2, <1>6, <1>7, <1>8, <1>9 DEF Typed, Caches, Fetches, MutationRows, Previous, Mutations
  <1>11. QED
    BY <1>5, <1>10

\* What onMutate shows is a list with placeholders.
LEMMA OptimisticTyped ==
  ASSUME Typed, NEW kind \in Kinds, NEW k \in Cases
  PROVE  Optimistic(kind, k) \in Caches
  BY DEF Optimistic, Typed, Caches, Row

\* The steps of one mutation.
LEMMA MutationSteps ==
  ASSUME Typed, EventsCounted, NEW m \in Mutations,
         \/ \E kind \in Kinds, k \in Cases : Mutate(m, kind, k)
         \/ ServeMutation(m) \/ MutationFails(m) \/ Settle(m)
  PROVE  Typed' /\ EventsCounted'
  <1>1. Cardinality(Answered) \in Nat
    BY AnsweredFinite DEF Answered
  <1>2. mutation[m] \in MutationRows /\ changes \in Nat
    BY DEF Typed
  <1>3. CASE \E kind \in Kinds, k \in Cases : Mutate(m, kind, k)
    <2>1. PICK kind \in Kinds, k \in Cases : Mutate(m, kind, k)
      BY <1>3
    <2>2. PICK row \in MutationRows : mutation' = [mutation EXCEPT ![m] = row]
      <3> DEFINE row == [at |-> "sent", kind |-> kind, case |-> k, ok |-> FALSE,
                         previous |-> IF loaded THEN cache ELSE NoList]
      <3>1. row \in MutationRows
        BY DEF MutationRows, Previous, Typed
      <3>2. QED
        BY <2>1, <3>1 DEF Mutate
    <2>3. mutation' \in [Mutations -> MutationRows]
      BY <2>2, MutationTyped
    <2>4. Cardinality(Answered) <= Cardinality(Answered)' /\ Cardinality(Answered)' \in Nat
      BY <2>1, <2>2, AnsweredKept DEF Mutate
    <2>5. cache' \in Caches /\ fetch' \in Fetches
      BY <2>1, OptimisticTyped, FreshRows DEF Mutate
    <2>6. Typed'
      BY <2>1, <2>3, <2>5 DEF Mutate, Typed, Caches, Fetches, MutationRows, Previous, Mutations
    <2>7. events' = events /\ changes' = changes
      BY <2>1 DEF Mutate
    <2>8. QED
      BY <1>1, <1>2, <2>4, <2>6, <2>7 DEF EventsCounted
  <1>4. CASE ServeMutation(m)
    <2> DEFINE k == mutation[m].case
    <2>1. PICK row \in MutationRows : mutation' = [mutation EXCEPT ![m] = row] /\ row.at = "answered"
      <3> DEFINE row == [mutation[m] EXCEPT !.at = "answered", !.ok = (queue[k] # "absent")]
      <3>1. row \in MutationRows /\ row.at = "answered"
        BY <1>2 DEF MutationRows
      <3>2. mutation' = [mutation EXCEPT ![m] = row]
        BY <1>4 DEF ServeMutation, Typed
      <3>3. QED
        BY <3>1, <3>2
    <2>2. mutation' \in [Mutations -> MutationRows]
      BY <2>1, MutationTyped
    <2>3. Cardinality(Answered)' = Cardinality(Answered) + 1
      BY <1>4, <2>1, AnsweredGrows DEF ServeMutation
    <2>4. /\ queue' \in [Cases -> Row] /\ events' \in Nat /\ events' <= events + 1
          /\ missed' \in {missed, "unheard"}
      <3>1. CASE mutation[m].kind = "claim" /\ queue[k] # "absent"
        <4>1. k \in Cases /\ "me" \in Row /\ Commit(k, "me") /\ events \in Nat
          BY <1>2, <1>4, <3>1 DEF ServeMutation, MutationRows, Row, EventsCounted
        <4>2. QED
          BY <4>1, CommitMoves
      <3>2. CASE ~(mutation[m].kind = "claim" /\ queue[k] # "absent")
        BY <1>4, <3>2 DEF ServeMutation, Typed, EventsCounted
      <3>3. QED
        BY <3>1, <3>2
    <2>5. Typed'
      BY <1>4, <2>2, <2>4 DEF ServeMutation, Typed, Caches, Fetches, MutationRows, Previous,
                              Mutations
    <2>6. changes' = changes
      BY <1>4 DEF ServeMutation
    <2>7. QED
      BY <1>1, <1>2, <2>3, <2>4, <2>5, <2>6 DEF EventsCounted
  <1>5. CASE MutationFails(m)
    <2>1. PICK row \in MutationRows : mutation' = [mutation EXCEPT ![m] = row] /\ row.at = "answered"
      <3> DEFINE row == [mutation[m] EXCEPT !.at = "answered", !.ok = FALSE]
      <3>1. row \in MutationRows /\ row.at = "answered"
        BY <1>2 DEF MutationRows
      <3>2. mutation' = [mutation EXCEPT ![m] = row]
        BY <1>5 DEF MutationFails, Typed
      <3>3. QED
        BY <3>1, <3>2
    <2>2. mutation' \in [Mutations -> MutationRows]
      BY <2>1, MutationTyped
    <2>3. Cardinality(Answered) <= Cardinality(Answered)' /\ Cardinality(Answered)' \in Nat
      BY <2>1, AnsweredKept
    <2>4. faults' \in 0..MaxFaults
      BY <1>5, ConsoleAssumption DEF ConsoleAssumption, MutationFails, Typed
    <2>5. Typed'
      BY <1>5, <2>2, <2>4 DEF MutationFails, Typed, Caches, Fetches, MutationRows, Previous,
                              Mutations
    <2>6. events' = events /\ changes' = changes
      BY <1>5 DEF MutationFails
    <2>7. QED
      BY <1>1, <1>2, <2>3, <2>5, <2>6 DEF EventsCounted
  <1>6. CASE Settle(m)
    <2>1. PICK row \in MutationRows : mutation' = [mutation EXCEPT ![m] = row] /\ row.at = "settled"
      <3>1. Unused.at = "unused" /\ [Unused EXCEPT !.at = "settled"].at = "settled"
        BY DEF Unused
      <3>2. QED
        BY <1>6, <3>1, FreshRows DEF Settle
    <2>2. mutation' \in [Mutations -> MutationRows]
      BY <2>1, MutationTyped
    <2>3. Cardinality(Answered) <= Cardinality(Answered)' /\ Cardinality(Answered)' \in Nat
      BY <2>1, AnsweredKept
    <2>4. cache' \in Caches
      BY <1>2, <1>6 DEF Settle, Typed, MutationRows, Previous
    <2>5. fetch' \in Fetches /\ missed' \in {missed, "joined"}
      BY <1>6, InvalidatedFetches DEF Settle
    <2>6. Typed'
      BY <1>6, <2>2, <2>4, <2>5 DEF Settle, Typed, Caches, Fetches, MutationRows, Previous,
                                    Mutations
    <2>7. events' = events /\ changes' = changes
      BY <1>6 DEF Settle
    <2>8. QED
      BY <1>1, <1>2, <2>3, <2>6, <2>7 DEF EventsCounted
  <1>7. QED
    BY <1>3, <1>4, <1>5, <1>6

\* Every step keeps the console's state well typed and its events counted.
LEMMA NextTyped == Typed /\ EventsCounted /\ [Next]_vars => Typed' /\ EventsCounted'
  <1> SUFFICES ASSUME Typed, EventsCounted, [Next]_vars PROVE Typed' /\ EventsCounted'
    OBVIOUS
  <1>1. CASE UNCHANGED vars
    BY <1>1 DEF vars, Typed, EventsCounted, Answered, Caches, Fetches, MutationRows, Previous,
                Mutations
  <1>2. CASE Next
    BY <1>2, QueueSteps, QuerySteps, MutationSteps DEF Next
  <1>3. QED
    BY <1>1, <1>2

-------------------------------------------------------------------------------

\* In every reachable state the console's state is well typed; above all, no more
\* events are on their way than there were changes to the queue: a change
\* notifies once, in its own transaction, and a claim that meets a closed case
\* not at all. (main.py:443-480 and 1009-1042.)
THEOREM TypeCorrect == Spec => []TypeOK
  <1>1. Spec => [](Typed /\ EventsCounted)
    BY InitTyped, NextTyped, PTL DEF Spec
  <1>2. QED
    BY <1>1, CountedBound, PTL

\* A step of one mutation leaves it outstanding, or makes the console fetch.
LEMMA MutationOutstanding ==
  ASSUME Typed, NEW m \in Mutations,
         \/ \E kind \in Kinds, k \in Cases : Mutate(m, kind, k)
         \/ ServeMutation(m) \/ MutationFails(m) \/ Settle(m)
  PROVE  fetch'.at # "idle" \/ mutation'[m].at \in {"sent", "answered"}
  <1>1. CASE \E kind \in Kinds, k \in Cases : Mutate(m, kind, k)
    BY <1>1 DEF Mutate, Typed
  <1>2. CASE ServeMutation(m)
    BY <1>2 DEF ServeMutation, Typed, MutationRows
  <1>3. CASE MutationFails(m)
    BY <1>3 DEF MutationFails, Typed, MutationRows
  <1>4. CASE Settle(m)
    BY <1>4, InvalidatedFetches DEF Settle
  <1>5. QED
    BY <1>1, <1>2, <1>3, <1>4

\* In every reachable state a claim nobody has confirmed is still being asked
\* about, or the list that shows it is about to be read again, unless a change
\* was missed or a read has failed for good. The property is its own induction:
\* what puts a `you' on the console (an optimistic claim, a rollback) leaves a
\* mutation or a fetch outstanding, and each of those ends only by handing over
\* to the other, or to a list of the database, which has no `you' in it.
\* (use-api.ts:42-57, 66-79.)
THEOREM PlaceholdersAreTemporary == Spec => []PlaceholderIsTemporary
  <1>1. Init => PlaceholderIsTemporary
    BY FreshRows DEF Init, PlaceholderIsTemporary
  <1>2. Typed /\ EventsCounted /\ PlaceholderIsTemporary /\ [Next]_vars => PlaceholderIsTemporary'
    <2> SUFFICES ASSUME Typed, PlaceholderIsTemporary, [Next]_vars,
                        \E k \in Cases : cache'[k] = "you",
                        session' # "ended", missed' = "nothing"
                 PROVE  \/ fetch'.at # "idle"
                        \/ \E m \in Mutations : mutation'[m].at \in {"sent", "answered"}
      BY DEF PlaceholderIsTemporary, Mutations
    <2>1. CASE OthersChange \/ Revoke \/ Listen \/ LoseListener \/ Cut \/ UNCHANGED vars
      <3>1. cache' = cache /\ fetch' = fetch /\ mutation' = mutation
        BY <2>1 DEF OthersChange, Revoke, Listen, LoseListener, Cut, vars
      <3>2. missed = "nothing"
        BY <2>1 DEF OthersChange, Commit, Revoke, Listen, LoseListener, Cut, vars
      <3>3. session # "ended"
        BY <2>1 DEF OthersChange, Revoke, Listen, LoseListener, Cut, vars
      <3>4. QED
        BY <3>1, <3>2, <3>3 DEF PlaceholderIsTemporary
    <2>2. CASE Ends(Asking)
      BY <2>2 DEF Ends
    <2>3. CASE Deliver
      BY <2>3, InvalidatedFetches DEF Deliver
    <2>4. CASE Serve
      BY <2>4 DEF Serve, Typed, Fetches
    <2>5. CASE Respond
      <3>1. cache' \in [Cases -> Row]
        BY <2>5 DEF Respond, Typed, Fetches
      <3>2. QED
        BY <3>1 DEF Row
    <2>6. CASE FetchFails
      BY <2>6, FreshRows DEF FetchFails
    <2>7. CASE \E m \in Mutations :
                 \/ \E kind \in Kinds, k \in Cases : Mutate(m, kind, k)
                 \/ ServeMutation(m) \/ MutationFails(m) \/ Settle(m)
      BY <2>7, MutationOutstanding
    <2>8. QED
      BY <2>1, <2>2, <2>3, <2>4, <2>5, <2>6, <2>7 DEF Next
  <1>3. QED
    BY InitTyped, NextTyped, <1>1, <1>2, PTL DEF Spec
==============================================================================
