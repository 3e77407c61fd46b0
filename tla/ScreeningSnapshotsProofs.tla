----------------------- MODULE ScreeningSnapshotsProofs -----------------------
(***************************************************************************)
(* Proofs about ScreeningSnapshots for every set of lists, ingests and     *)
(* screens, every matching relation and every query limit.                 *)
(***************************************************************************)
EXTENDS ScreeningSnapshots, FiniteSetTheorems, TLAPS

MaybeCollection == Collections \union {None}
Candidates == [entry : Entries, list_version : Collections, by_vector : BOOLEAN]
IngestRows == [at : {"idle", "building", "checked", "recorded", "done"}, written : Nat]
ScreenRows ==
  [at : {"idle", "searched", "gathered", "resolved", "stored"},
   vector : MaybeCollection, phonetic : MaybeCollection,
   candidates : SUBSET Candidates,
   target : MaybeCollection, list_version : MaybeCollection]

Typed ==
  /\ points \in [Collections -> SUBSET Entries]
  /\ exists \subseteq Collections
  /\ recorded \subseteq [collection : Collections, entry_count : Nat]
  /\ alias \in MaybeCollection
  /\ ingest \in [Ingests -> IngestRows]
  /\ screen \in [Screens -> ScreenRows]
  /\ hits \subseteq [screen : Screens, entry : Entries, list_version : Collections]

\* A collection holds entries of its list only.
Within == \A c \in Collections : points[c] \subseteq Listed(c)

\* The chunks an ingest wrote stay written, and it wrote all of them when it
\* went past the check.
Written ==
  \A i \in Ingests :
    LET c == ListOf[i]
    IN /\ ingest[i].written \in 0..Len(Chunks[c])
       /\ \A n \in 1..ingest[i].written : Chunks[c][n] \subseteq points[c]
       /\ ingest[i].at \in {"checked", "recorded"} => points[c] = Listed(c)
       /\ ingest[i].at = "recorded" => Recorded(c)

\* A row on record is true of its collection.
RowsTrue ==
  \A r \in recorded :
    /\ points[r.collection] = Listed(r.collection)
    /\ r.entry_count = Cardinality(Listed(r.collection))

AliasRecorded == ~Careless /\ alias # None => Recorded(alias)

\* The alias is repointed, never dropped, while a screen reads through it.
AliasStays == \A s \in Screens : screen[s].at # "idle" => alias # None

SnapshotInv == Typed /\ Within /\ Written /\ RowsTrue /\ AliasRecorded /\ AliasStays

------------------------------------------------------------------------------
(* What a screen holds at each stage *)

Searched == {"searched", "gathered", "resolved", "stored"}
Gathered == {"gathered", "resolved", "stored"}

Matches(near, c) == near \intersect Listed(c) # {}

\* Each candidate comes from the list its method read.
CandidatesRead ==
  \A s \in Screens : \A k \in screen[s].candidates :
    /\ k.list_version = IF k.by_vector THEN screen[s].vector ELSE screen[s].phonetic
    /\ k.entry \in points[k.list_version]
    /\ screen[s].at \in (IF k.by_vector THEN Searched ELSE Gathered)
    /\ Recorded(k.list_version)

\* There is a candidate exactly when the list a method read has a match.
CandidatesFound ==
  \A s \in Screens :
    /\ screen[s].at \in Searched =>
         /\ screen[s].vector # None
         /\ (\E k \in screen[s].candidates : k.by_vector)
              <=> Matches(VectorNear[s], screen[s].vector)
    /\ screen[s].at \in Gathered =>
         /\ screen[s].phonetic # None
         /\ Matches(SoundsLike[s], screen[s].phonetic) => screen[s].candidates # {}
         /\ (\E k \in screen[s].candidates : ~k.by_vector)
              => Matches(SoundsLike[s], screen[s].phonetic)

\* The hits of a screen are what it decided, all of it or nothing.
HitsDecided ==
  /\ \A h \in hits :
       /\ screen[h.screen].at = "stored"
       /\ \E k \in DecideHits(h.screen) :
            k.entry = h.entry /\ k.list_version = h.list_version
  /\ \A s \in Screens : screen[s].at = "stored" =>
       \A k \in DecideHits(s) : \E h \in hits : h.screen = s

ScreenInv == CandidatesRead /\ CandidatesFound /\ HitsDecided

------------------------------------------------------------------------------
(* Lists and the collections built from them *)

\* A list is finite and is what its chunks hold together.
LEMMA ListType ==
  ASSUME NEW c \in Collections
  PROVE  /\ Chunks[c] \in Seq(SUBSET Entries) /\ Len(Chunks[c]) \in Nat
         /\ Listed(c) \subseteq Entries /\ IsFiniteSet(Listed(c))
         /\ Cardinality(Listed(c)) \in Nat
         /\ \A n \in 1..Len(Chunks[c]) : Chunks[c][n] \subseteq Listed(c)
         /\ \A e \in Listed(c) : \E n \in 1..Len(Chunks[c]) : e \in Chunks[c][n]
  <1>1. Chunks[c] \in Seq(SUBSET Entries) /\ Len(Chunks[c]) \in Nat
    BY ScreeningAssumption
  <1>2. \A n \in 1..Len(Chunks[c]) : Chunks[c][n] \subseteq Entries
    BY <1>1
  <1>3. ToSet(Chunks[c]) = {Chunks[c][n] : n \in 1..Len(Chunks[c])}
    BY <1>1 DEF ToSet
  <1>4. Listed(c) \in SUBSET Entries
    BY <1>2, <1>3 DEF Listed
  <1>5. IsFiniteSet(Listed(c))
    BY <1>4, FS_Subset, ScreeningAssumption
  <1>6. QED
    BY <1>1, <1>3, <1>4, <1>5, FS_CardinalityType DEF Listed

\* A collection that holds every chunk of its list, and nothing else, is whole.
LEMMA AllChunksIsWhole ==
  ASSUME Within, NEW c \in Collections,
         \A n \in 1..Len(Chunks[c]) : Chunks[c][n] \subseteq points[c]
  PROVE  points[c] = Listed(c)
  BY ListType DEF Within

\* An ingest loads one of the lists.
LEMMA IngestTyped == \A i \in Ingests : ListOf[i] \in Collections
  BY ScreeningAssumption

\* The stack starts with one whole, recorded collection behind the alias.
LEMMA InitSnapshot == Init => SnapshotInv
  <1> SUFFICES ASSUME Init
               PROVE  SnapshotInv
    OBVIOUS
  <1>1. Typed
    BY DEF Init, Typed, IngestRows, ScreenRows, Unscreened, MaybeCollection
  <1>2. Within
    BY DEF Init, Within
  <1>3. Written
    <2>1. ASSUME NEW i \in Ingests
          PROVE  0 \in 0..Len(Chunks[ListOf[i]])
      BY IngestTyped, ListType
    <2>2. QED
      BY <2>1 DEF Init, Written
  <1>4. RowsTrue /\ AliasRecorded /\ AliasStays
    BY DEF Init, RowsTrue, AliasRecorded, AliasStays, Unscreened
  <1>5. QED
    BY <1>1, <1>2, <1>3, <1>4 DEF SnapshotInv

\* What a step owes the invariant when it writes no points and no row.
LEMMA NothingWritten ==
  ASSUME SnapshotInv, UNCHANGED <<points, recorded>>,
         exists' \subseteq Collections, alias' \in MaybeCollection,
         ~Careless /\ alias' # None => Recorded(alias'),
         ingest' \in [Ingests -> IngestRows],
         \A i \in Ingests :
           /\ ingest'[i].written = ingest[i].written \/ ingest'[i].written = 0
           /\ ingest'[i].at \in {"checked", "recorded"} =>
                points[ListOf[i]] = Listed(ListOf[i])
           /\ ingest'[i].at = "recorded" => Recorded(ListOf[i]),
         screen' \in [Screens -> ScreenRows],
         \A s \in Screens : screen'[s].at # "idle" => alias' # None,
         hits' \subseteq [screen : Screens, entry : Entries, list_version : Collections]
  PROVE  SnapshotInv'
  <1>1. Typed' /\ Within' /\ RowsTrue'
    BY DEF SnapshotInv, Typed, Within, RowsTrue
  <1>2. AliasRecorded' /\ AliasStays'
    BY DEF AliasRecorded, AliasStays, Recorded
  <1>3. Written'
    <2>1. ASSUME NEW i \in Ingests
          PROVE  /\ ingest'[i].written \in 0..Len(Chunks[ListOf[i]])
                 /\ \A n \in 1..ingest'[i].written :
                      Chunks[ListOf[i]][n] \subseteq points[ListOf[i]]
      <3>1. CASE ingest'[i].written = ingest[i].written
        BY <3>1 DEF SnapshotInv, Written
      <3>2. CASE ingest'[i].written = 0
        BY <3>2, IngestTyped, ListType
      <3>3. QED
        BY <3>1, <3>2
    <2>2. QED
      BY <2>1 DEF Written, Recorded
  <1>4. QED
    BY <1>1, <1>2, <1>3 DEF SnapshotInv

\* The steps of an ingest that move its stage, or lose it, and nothing else.
LEMMA IngestMoves ==
  ASSUME SnapshotInv, NEW i \in Ingests,
         \/ EnsureCollection(i) \/ CheckCount(i) \/ ActivateIngest(i)
         \/ LeaveInactive(i) \/ CrashIngest(i)
  PROVE  SnapshotInv'
  <1>0. ingest \in [Ingests -> IngestRows] /\ ListOf[i] \in Collections
    BY IngestTyped DEF SnapshotInv, Typed
  <1>1. UNCHANGED <<points, recorded, screen, hits>> /\ exists' \subseteq Collections
    BY <1>0 DEF EnsureCollection, CheckCount, ActivateIngest, LeaveInactive, CrashIngest,
       IngestGoto, PointAlias, SnapshotInv, Typed
  <1>2. alias' \in MaybeCollection /\ (~Careless /\ alias' # None => Recorded(alias'))
    <2>1. CASE ActivateIngest(i)
      BY <1>0, <2>1 DEF ActivateIngest, IngestGoto, PointAlias, SnapshotInv, Written,
         MaybeCollection
    <2>2. CASE UNCHANGED alias
      BY <2>2 DEF SnapshotInv, Typed, AliasRecorded
    <2>3. QED
      BY <2>1, <2>2 DEF EnsureCollection, CheckCount, LeaveInactive, CrashIngest
  <1>3. /\ ingest' \in [Ingests -> IngestRows]
        /\ \A j \in Ingests : j # i => ingest'[j] = ingest[j]
        /\ ingest'[i].written = ingest[i].written \/ ingest'[i].written = 0
        /\ ingest'[i].at \in {"idle", "building", "checked", "done"}
        /\ ingest'[i].at = "checked" => CheckCount(i)
    BY <1>0 DEF EnsureCollection, CheckCount, ActivateIngest, LeaveInactive, CrashIngest,
       IngestGoto, IngestRows
  <1>4. ASSUME CheckCount(i)
        PROVE  points[ListOf[i]] = Listed(ListOf[i])
    <2>1. \A n \in 1..Len(Chunks[ListOf[i]]) :
            Chunks[ListOf[i]][n] \subseteq points[ListOf[i]]
      BY <1>4 DEF CheckCount, SnapshotInv, Written
    <2>2. QED
      BY <1>0, <2>1, AllChunksIsWhole DEF SnapshotInv
  <1>5. \A j \in Ingests :
          /\ ingest'[j].written = ingest[j].written \/ ingest'[j].written = 0
          /\ ingest'[j].at \in {"checked", "recorded"} =>
               points[ListOf[j]] = Listed(ListOf[j])
          /\ ingest'[j].at = "recorded" => Recorded(ListOf[j])
    BY <1>3, <1>4 DEF SnapshotInv, Written
  <1>6. \A s \in Screens : screen'[s].at # "idle" => alias' # None
    BY <1>0, <1>1, ScreeningAssumption DEF EnsureCollection, CheckCount, ActivateIngest,
       LeaveInactive, CrashIngest, PointAlias, SnapshotInv, AliasStays
  <1>7. QED
    BY <1>1, <1>2, <1>3, <1>5, <1>6, NothingWritten DEF SnapshotInv, Typed

\* A chunk adds entries of its own list to a collection.
LEMMA UpsertChunkStep ==
  ASSUME SnapshotInv, NEW i \in Ingests, UpsertChunk(i)
  PROVE  SnapshotInv'
  <1> DEFINE c == ListOf[i]
             n == ingest[i].written
  <1>1. /\ ingest \in [Ingests -> IngestRows] /\ points \in [Collections -> SUBSET Entries]
        /\ c \in Collections /\ n \in Nat
    BY IngestTyped DEF SnapshotInv, Typed, IngestRows
  <1>2. /\ n < Len(Chunks[c]) /\ ingest[i].at = "building"
        /\ ingest' = [ingest EXCEPT ![i].written = n + 1]
        /\ points' = [points EXCEPT ![c] = @ \union Chunks[c][n + 1]]
        /\ UNCHANGED <<exists, recorded, alias, screen, hits>>
    BY DEF UpsertChunk
  <1>3. Len(Chunks[c]) \in Nat /\ n + 1 \in 1..Len(Chunks[c])
        /\ Chunks[c][n + 1] \subseteq Listed(c) /\ Listed(c) \subseteq Entries
    <2>1. /\ Len(Chunks[c]) \in Nat /\ Listed(c) \subseteq Entries
          /\ \A m \in 1..Len(Chunks[c]) : Chunks[c][m] \subseteq Listed(c)
      BY <1>1, ListType
    <2>2. n + 1 \in 1..Len(Chunks[c])
      BY <1>1, <1>2, <2>1
    <2>3. QED
      BY <2>1, <2>2
  <1>4. /\ \A d \in Collections : points[d] \subseteq points'[d]
        /\ \A d \in Collections : points[d] = Listed(d) => points'[d] = Listed(d)
        /\ Chunks[c][n + 1] \subseteq points'[c]
    BY <1>1, <1>2, <1>3
  <1>5. Typed'
    <2>1. ingest' \in [Ingests -> IngestRows]
      BY <1>1, <1>2 DEF IngestRows
    <2>2. points' \in [Collections -> SUBSET Entries]
      BY <1>1, <1>2, <1>3
    <2>3. QED
      BY <1>2, <2>1, <2>2 DEF SnapshotInv, Typed
  <1>6. Within'
    BY <1>1, <1>2, <1>3 DEF SnapshotInv, Within
  <1>7. Written'
    <2>1. ASSUME NEW j \in Ingests
          PROVE  /\ ingest'[j].written \in 0..Len(Chunks[ListOf[j]])
                 /\ \A m \in 1..ingest'[j].written :
                      Chunks[ListOf[j]][m] \subseteq points'[ListOf[j]]
                 /\ ingest'[j].at = ingest[j].at
      <3>1. /\ ListOf[j] \in Collections /\ ingest[j].written \in 0..Len(Chunks[ListOf[j]])
            /\ \A m \in 1..ingest[j].written :
                 Chunks[ListOf[j]][m] \subseteq points'[ListOf[j]]
        BY <1>4, IngestTyped DEF SnapshotInv, Written
      <3>2. CASE j = i
        <4>1. ingest'[i].written = n + 1 /\ ingest'[i].at = ingest[i].at
          BY <1>1, <1>2 DEF IngestRows
        <4>2. \A m \in 1..(n + 1) : m \in 1..n \/ m = n + 1
          BY <1>1
        <4>3. QED
          BY <1>3, <1>4, <3>1, <3>2, <4>1, <4>2
      <3>3. CASE j # i
        BY <1>1, <1>2, <3>1, <3>3
      <3>4. QED
        BY <3>2, <3>3
    <2>2. ASSUME NEW j \in Ingests
          PROVE  /\ ingest[j].at \in {"checked", "recorded"} =>
                      points'[ListOf[j]] = Listed(ListOf[j])
                 /\ ingest[j].at = "recorded" => Recorded(ListOf[j])
      BY <1>4, IngestTyped DEF SnapshotInv, Written
    <2>3. \A j \in Ingests : Recorded(ListOf[j]) => Recorded(ListOf[j])'
      BY <1>2 DEF Recorded
    <2>4. QED
      BY <2>1, <2>2, <2>3 DEF Written
  <1>8. RowsTrue'
    <2>1. \A r \in recorded : r.collection \in Collections
      BY DEF SnapshotInv, Typed
    <2>2. QED
      BY <1>2, <1>4, <2>1 DEF SnapshotInv, RowsTrue
  <1>9. AliasRecorded' /\ AliasStays'
    BY <1>2 DEF SnapshotInv, AliasRecorded, AliasStays, Recorded
  <1>10. QED
    BY <1>5, <1>6, <1>7, <1>8, <1>9 DEF SnapshotInv

\* The first row of a collection counts a whole one; a later ingest of the same
\* list leaves that row alone.
LEMMA RecordSnapshotStep ==
  ASSUME SnapshotInv, NEW i \in Ingests, RecordSnapshot(i)
  PROVE  SnapshotInv'
  <1> DEFINE c == ListOf[i]
             row == [collection |-> c, entry_count |-> Cardinality(points[c])]
  <1>1. /\ ingest \in [Ingests -> IngestRows] /\ c \in Collections
        /\ points[c] = Listed(c)
        /\ Cardinality(Listed(c)) \in Nat
    BY IngestTyped, ListType DEF SnapshotInv, Typed, Written, RecordSnapshot, IngestGoto
  <1>2. /\ ingest' = [ingest EXCEPT ![i].at = "recorded"]
        /\ UNCHANGED <<points, exists, alias, screen, hits>>
        /\ recorded' = IF Recorded(c) THEN recorded ELSE recorded \union {row}
    BY DEF RecordSnapshot, IngestGoto
  <1>3. /\ ingest' \in [Ingests -> IngestRows]
        /\ \A j \in Ingests : ingest'[j].written = ingest[j].written
        /\ \A j \in Ingests : j # i => ingest'[j].at = ingest[j].at
    BY <1>1, <1>2 DEF IngestRows
  <1>4. /\ \A d : Recorded(d) => Recorded(d)'
        /\ Recorded(c)'
    <2>1. recorded \subseteq recorded' /\ (Recorded(c) \/ row \in recorded')
      BY <1>2
    <2>2. row.collection = c
      OBVIOUS
    <2>3. QED
      BY <2>1, <2>2 DEF Recorded
  <1>5. Typed'
    BY <1>1, <1>2, <1>3 DEF SnapshotInv, Typed
  <1>6. Within' /\ AliasRecorded' /\ AliasStays'
    BY <1>2, <1>4 DEF SnapshotInv, Within, AliasRecorded, AliasStays
  <1>7. Written'
    <2>1. ASSUME NEW j \in Ingests
          PROVE  /\ ingest'[j].written \in 0..Len(Chunks[ListOf[j]])
                 /\ \A m \in 1..ingest'[j].written :
                      Chunks[ListOf[j]][m] \subseteq points[ListOf[j]]
      BY <1>3 DEF SnapshotInv, Written
    <2>2. ASSUME NEW j \in Ingests
          PROVE  /\ ingest'[j].at \in {"checked", "recorded"} =>
                      points[ListOf[j]] = Listed(ListOf[j])
                 /\ ingest'[j].at = "recorded" => Recorded(ListOf[j])'
      <3>1. CASE j = i
        BY <1>1, <1>4, <3>1
      <3>2. CASE j # i
        BY <1>3, <1>4, <3>2 DEF SnapshotInv, Written
      <3>3. QED
        BY <3>1, <3>2
    <2>3. QED
      BY <1>2, <2>1, <2>2 DEF Written
  <1>8. RowsTrue'
    BY <1>1, <1>2 DEF SnapshotInv, RowsTrue
  <1>9. QED
    BY <1>5, <1>6, <1>7, <1>8 DEF SnapshotInv

\* What the alias may point at is whole: the operator names a listed collection.
LEMMA ActivateStep ==
  ASSUME SnapshotInv, NEW c \in Collections, Activate(c)
  PROVE  SnapshotInv'
  <1>1. c # None /\ alias' = c /\ (Careless \/ Recorded(c))
        /\ UNCHANGED <<points, exists, recorded, ingest, screen, hits>>
    BY ScreeningAssumption DEF Activate, PointAlias
  <1>2. QED
    BY <1>1, NothingWritten DEF SnapshotInv, Typed, Written, MaybeCollection

\* What a query with a limit returns: matches, and one of them if there is any.
LEMMA ResultsFound ==
  ASSUME NEW matching, IsFiniteSet(matching), NEW limit \in Nat \ {0},
         NEW found \in Results(matching, limit)
  PROVE  found \subseteq matching /\ (found = {} <=> matching = {})
  <1>1. found \subseteq matching
        /\ Cardinality(found) = Min({limit, Cardinality(matching)})
    BY DEF Results
  <1>2. Cardinality(matching) \in Nat /\ IsFiniteSet(found) /\ Cardinality(found) \in Nat
    BY <1>1, FS_CardinalityType, FS_Subset
  <1>3. ASSUME matching # {}
        PROVE  found # {}
    <2>1. Cardinality(matching) # 0
      BY <1>3, FS_EmptySet
    <2>2. \E m \in {limit, Cardinality(matching)} :
            \A n \in {limit, Cardinality(matching)} : m <= n
      BY <1>2
    <2>3. Min({limit, Cardinality(matching)}) \in {limit, Cardinality(matching)}
      BY <2>2 DEF Min
    <2>4. Cardinality(found) # 0
      BY <1>1, <2>1, <2>3
    <2>5. QED
      BY <1>2, <2>4, FS_EmptySet
  <1>4. QED
    BY <1>1, <1>3

\* A query looks among finitely many points.
LEMMA CollectionFinite ==
  ASSUME Typed, NEW near, NEW c \in Collections
  PROVE  IsFiniteSet(near \intersect points[c])
  <1>1. near \intersect points[c] \in SUBSET Entries
    BY DEF Typed
  <1>2. QED
    BY <1>1, FS_Subset, ScreeningAssumption

\* What each method of a screen reads is what the list behind the alias has.
LEMMA SearchFinds ==
  ASSUME SnapshotInv, alias \in Collections, NEW near, NEW limit \in Nat \ {0},
         NEW found \in Results(near \intersect points[alias], limit)
  PROVE  /\ found \subseteq Entries /\ found \subseteq points[alias]
         /\ points[alias] = Listed(alias) =>
              (found # {} <=> Matches(near, alias))
  <1>1. IsFiniteSet(near \intersect points[alias])
    BY CollectionFinite DEF SnapshotInv
  <1>2. found \subseteq near \intersect points[alias]
        /\ (found = {} <=> near \intersect points[alias] = {})
    BY <1>1, ResultsFound
  <1>3. QED
    BY <1>2 DEF Matches, SnapshotInv, Typed

\* A candidate is an entry, the list it came from and how it was found.
LEMMA CandidateType ==
  \A e \in Entries, c \in Collections, b \in BOOLEAN : Candidate(e, c, b) \in Candidates
  BY DEF Candidate, Candidates

\* The vector query puts what it found in the collection behind the alias on the screen.
LEMMA SearchByVectorRow ==
  ASSUME SnapshotInv, NEW s \in Screens, SearchByVector(s)
  PROVE  \E found \in Results(VectorNear[s] \intersect points[alias], VectorLimit) :
           /\ alias \in Collections
           /\ screen' \in [Screens -> ScreenRows]
           /\ \A t \in Screens : t # s => screen'[t] = screen[t]
           /\ screen'[s].at = "searched" /\ screen'[s].vector = alias
           /\ screen'[s].candidates = {Candidate(e, alias, TRUE) : e \in found}
  <1>0. screen \in [Screens -> ScreenRows] /\ alias \in Collections
    BY DEF SnapshotInv, Typed, SearchByVector, MaybeCollection
  <1>1. PICK found \in Results(VectorNear[s] \intersect points[alias], VectorLimit) :
          screen' = [screen EXCEPT
            ![s].at = "searched", ![s].vector = alias,
            ![s].candidates = {Candidate(e, alias, TRUE) : e \in found}]
    BY DEF SearchByVector
  <1> DEFINE new == {Candidate(e, alias, TRUE) : e \in found}
  <1>2. new \in SUBSET Candidates
    <2>1. found \subseteq Entries
      BY <1>0, SearchFinds, ScreeningAssumption
    <2>2. QED
      BY <1>0, <2>1, CandidateType
  <1>3. screen' = [screen EXCEPT ![s].at = "searched", ![s].vector = alias,
                                 ![s].candidates = new]
    BY <1>1
  <1> HIDE DEF new
  <1>4. screen' \in [Screens -> ScreenRows]
    <2>1. [screen[s] EXCEPT !.at = "searched", !.vector = alias, !.candidates = new]
            \in ScreenRows
      <3>1. screen[s] \in ScreenRows /\ alias \in MaybeCollection
        BY <1>0 DEF MaybeCollection
      <3>2. QED
        BY <1>2, <3>1 DEF ScreenRows
    <2>2. QED
      BY <1>0, <1>3, <2>1
  <1>5. /\ \A t \in Screens : t # s => screen'[t] = screen[t]
        /\ screen'[s].at = "searched" /\ screen'[s].vector = alias
        /\ screen'[s].candidates = new
    BY <1>0, <1>3 DEF ScreenRows
  <1>6. QED
    BY <1>0, <1>4, <1>5 DEF new

\* The phonetic query adds what the vector query had not found.
LEMMA SearchByPhoneticCodesRow ==
  ASSUME SnapshotInv, NEW s \in Screens, SearchByPhoneticCodes(s)
  PROVE  \E found \in Results(SoundsLike[s] \intersect points[alias], PhoneticLimit) :
           /\ alias \in Collections
           /\ screen' \in [Screens -> ScreenRows]
           /\ \A t \in Screens : t # s => screen'[t] = screen[t]
           /\ screen'[s].at = "gathered" /\ screen'[s].phonetic = alias
           /\ screen'[s].vector = screen[s].vector
           /\ screen'[s].candidates = screen[s].candidates \union
                {Candidate(e, alias, FALSE) :
                   e \in found \ {k.entry : k \in screen[s].candidates}}
  <1>0. screen \in [Screens -> ScreenRows] /\ alias \in Collections
    BY DEF SnapshotInv, Typed, AliasStays, SearchByPhoneticCodes, MaybeCollection
  <1> DEFINE known == {k.entry : k \in screen[s].candidates}
  <1>1. PICK found \in Results(SoundsLike[s] \intersect points[alias], PhoneticLimit) :
          screen' = [screen EXCEPT
            ![s].at = "gathered", ![s].phonetic = alias,
            ![s].candidates = @ \union {Candidate(e, alias, FALSE) : e \in found \ known}]
    BY DEF SearchByPhoneticCodes
  <1> DEFINE new == {Candidate(e, alias, FALSE) : e \in found \ known}
             all == screen[s].candidates \union new
  <1>2. all \in SUBSET Candidates
    <2>1. new \in SUBSET Candidates
      <3>1. found \subseteq Entries
        BY <1>0, SearchFinds, ScreeningAssumption
      <3>2. QED
        BY <1>0, <3>1, CandidateType
    <2>2. screen[s].candidates \in SUBSET Candidates
      BY <1>0 DEF ScreenRows
    <2>3. QED
      BY <2>1, <2>2
  <1>3. screen' = [screen EXCEPT ![s].at = "gathered", ![s].phonetic = alias,
                                 ![s].candidates = all]
    BY <1>0, <1>1
  <1>4. all = screen[s].candidates \union
                {Candidate(e, alias, FALSE) :
                   e \in found \ {k.entry : k \in screen[s].candidates}}
    OBVIOUS
  <1> HIDE DEF all
  <1>5. screen' \in [Screens -> ScreenRows]
    <2>1. [screen[s] EXCEPT !.at = "gathered", !.phonetic = alias, !.candidates = all]
            \in ScreenRows
      <3>1. screen[s] \in ScreenRows /\ alias \in MaybeCollection
        BY <1>0 DEF MaybeCollection
      <3>2. QED
        BY <1>2, <3>1 DEF ScreenRows
    <2>2. QED
      BY <1>0, <1>3, <2>1
  <1>6. /\ \A t \in Screens : t # s => screen'[t] = screen[t]
        /\ screen'[s].at = "gathered" /\ screen'[s].phonetic = alias
        /\ screen'[s].vector = screen[s].vector /\ screen'[s].candidates = all
    BY <1>0, <1>3 DEF ScreenRows
  <1>7. QED
    BY <1>0, <1>4, <1>5, <1>6

\* Storing adds a hit for each candidate that was decided to be one.
LEMMA StoreHitsRow ==
  ASSUME SnapshotInv, NEW s \in Screens, StoreHits(s)
  PROVE  /\ screen' \in [Screens -> ScreenRows]
         /\ \A t \in Screens : t # s => screen'[t] = screen[t]
         /\ screen'[s].at = "stored" /\ screen'[s].candidates = screen[s].candidates
         /\ screen'[s].vector = screen[s].vector
         /\ screen'[s].phonetic = screen[s].phonetic
         /\ hits' = hits \union {[screen |-> s, entry |-> k.entry,
                                  list_version |-> k.list_version] : k \in DecideHits(s)}
         /\ hits' \subseteq [screen : Screens, entry : Entries, list_version : Collections]
  <1>0. /\ screen \in [Screens -> ScreenRows]
        /\ hits \subseteq [screen : Screens, entry : Entries, list_version : Collections]
    BY DEF SnapshotInv, Typed
  <1>1. ActiveListVersion(s) \in MaybeCollection
    BY <1>0 DEF ActiveListVersion, MaybeCollection, ScreenRows
  <1>2. screen' = [screen EXCEPT ![s].at = "stored",
                                 ![s].list_version = ActiveListVersion(s)]
    BY DEF StoreHits
  <1>3. screen' \in [Screens -> ScreenRows]
    <2>1. PICK row \in ScreenRows : row = screen[s]
      BY <1>0
    <2>2. [row EXCEPT !.at = "stored", !.list_version = ActiveListVersion(s)] \in ScreenRows
      BY <1>1 DEF ScreenRows
    <2>3. QED
      BY <1>0, <1>2, <2>1, <2>2
  <1>4. DecideHits(s) \subseteq Candidates
    BY <1>0 DEF DecideHits, ScreenRows
  <1>5. hits' = hits \union {[screen |-> s, entry |-> k.entry,
                              list_version |-> k.list_version] : k \in DecideHits(s)}
    BY DEF StoreHits, VersionOfHit
  <1>6. hits' \subseteq [screen : Screens, entry : Entries, list_version : Collections]
    BY <1>0, <1>4, <1>5 DEF Candidates
  <1>7. /\ \A t \in Screens : t # s => screen'[t] = screen[t]
        /\ screen'[s].at = "stored" /\ screen'[s].candidates = screen[s].candidates
        /\ screen'[s].vector = screen[s].vector
        /\ screen'[s].phonetic = screen[s].phonetic
    BY <1>0, <1>2 DEF ScreenRows
  <1>8. QED
    BY <1>3, <1>5, <1>6, <1>7

\* Resolving the alias changes no candidate, and a screen that fails keeps none.
LEMMA OtherScreenRow ==
  ASSUME SnapshotInv, NEW s \in Screens, ResolveAlias(s) \/ FailScreen(s)
  PROVE  /\ screen' \in [Screens -> ScreenRows]
         /\ \A t \in Screens : t # s => screen'[t] = screen[t]
         /\ hits' = hits
         /\ \/ /\ screen[s].at = "gathered" /\ screen'[s].at = "resolved"
               /\ screen'[s].candidates = screen[s].candidates
               /\ screen'[s].vector = screen[s].vector
               /\ screen'[s].phonetic = screen[s].phonetic
            \/ /\ screen[s].at # "stored"
               /\ screen'[s].at = "idle" /\ screen'[s].candidates = {}
  BY DEF SnapshotInv, Typed, ResolveAlias, FailScreen, ScreenRows, Unscreened,
     MaybeCollection

\* No step of a screen touches the snapshots.
LEMMA ScreenStep ==
  ASSUME SnapshotInv, NEW s \in Screens,
         \/ SearchByVector(s) \/ SearchByPhoneticCodes(s) \/ ResolveAlias(s)
         \/ StoreHits(s) \/ FailScreen(s)
  PROVE  SnapshotInv'
  <1>1. UNCHANGED <<points, exists, recorded, alias, ingest>>
    BY DEF SearchByVector, SearchByPhoneticCodes, ResolveAlias, StoreHits, FailScreen
  <1>2. /\ screen' \in [Screens -> ScreenRows]
        /\ \A t \in Screens : t # s => screen'[t] = screen[t]
    BY SearchByVectorRow, SearchByPhoneticCodesRow, StoreHitsRow, OtherScreenRow
  <1>3. hits' \subseteq [screen : Screens, entry : Entries, list_version : Collections]
    <2>1. CASE StoreHits(s)
      BY <2>1, StoreHitsRow
    <2>2. CASE hits' = hits
      BY <2>2 DEF SnapshotInv, Typed
    <2>3. QED
      BY <2>1, <2>2 DEF SearchByVector, SearchByPhoneticCodes, ResolveAlias, FailScreen
  <1>4. alias # None
    BY DEF SnapshotInv, AliasStays, SearchByVector, SearchByPhoneticCodes, ResolveAlias,
       StoreHits, FailScreen
  <1>5. QED
    BY <1>1, <1>2, <1>3, <1>4, NothingWritten
       DEF SnapshotInv, Typed, Written, AliasRecorded

\* Every step keeps the snapshots whole and recorded.
LEMMA SnapshotNext == SnapshotInv /\ [Next]_vars => SnapshotInv'
  <1>1. ASSUME SnapshotInv, UNCHANGED vars
        PROVE  SnapshotInv'
    BY <1>1 DEF vars, SnapshotInv, Typed, Within, Written, RowsTrue, AliasRecorded,
       AliasStays, Recorded
  <1>2. QED
    BY <1>1, IngestMoves, UpsertChunkStep, RecordSnapshotStep, ActivateStep, ScreenStep
       DEF Next

\* Collections only grow within their list, a recorded one is whole and stays so,
\* and the alias is only ever pointed at a recorded one.
THEOREM SnapshotInvariant == Spec => []SnapshotInv
  BY InitSnapshot, SnapshotNext, PTL DEF Spec

\* Collections, rows, stages and hits are of the shape the stores give them.
THEOREM TypeCorrect == Spec => []TypeOK
  <1>1. SnapshotInv => TypeOK
    BY DEF SnapshotInv, Typed, TypeOK, Written, IngestRows, ScreenRows, Candidates,
       MaybeCollection
  <1>2. QED
    BY <1>1, SnapshotInvariant, PTL

\* Whatever ingests run, die and overlap, screens read a whole list with one true
\* row on record (snapshots.py:4-8, 124-130).
THEOREM SnapshotsAreReady == Spec => []SnapshotReady
  <1>1. SnapshotInv => SnapshotReady
    <2> SUFFICES ASSUME SnapshotInv, ~Careless, alias # None
                 PROVE  /\ points[alias] = Listed(alias)
                        /\ {r \in recorded : r.collection = alias}
                             = {[collection |-> alias,
                                 entry_count |-> Cardinality(Listed(alias))]}
      BY DEF SnapshotReady
    <2>1. PICK r \in recorded : r.collection = alias
      BY DEF SnapshotInv, AliasRecorded, Recorded
    <2>2. points[alias] = Listed(alias)
      BY <2>1 DEF SnapshotInv, RowsTrue
    <2>3. \A q \in recorded : q.collection = alias =>
            q = [collection |-> alias, entry_count |-> Cardinality(Listed(alias))]
      BY DEF SnapshotInv, Typed, RowsTrue
    <2>4. QED
      BY <2>1, <2>2, <2>3
  <1>2. QED
    BY <1>1, SnapshotInvariant, PTL

------------------------------------------------------------------------------
(* What screens find *)

\* No step takes an entry out of a collection or a row off the record.
LEMMA NothingWithdrawn ==
  ASSUME SnapshotInv, [Next]_vars
  PROVE  /\ \A c \in Collections : points[c] \subseteq points'[c]
         /\ \A c : Recorded(c) => Recorded(c)'
  <1>1. ASSUME NEW i \in Ingests, UpsertChunk(i)
        PROVE  /\ \A c \in Collections : points[c] \subseteq points'[c]
               /\ recorded' = recorded
    BY <1>1 DEF UpsertChunk, SnapshotInv, Typed
  <1>2. ASSUME NEW i \in Ingests, RecordSnapshot(i)
        PROVE  points' = points /\ recorded \subseteq recorded'
    BY <1>2 DEF RecordSnapshot
  <1>3. recorded \subseteq recorded' => \A c : Recorded(c) => Recorded(c)'
    BY DEF Recorded
  <1>4. CASE UNCHANGED <<points, recorded>>
    BY <1>3, <1>4
  <1>5. QED
    BY <1>1, <1>2, <1>3, <1>4 DEF Next, vars, EnsureCollection, CheckCount, ActivateIngest,
       LeaveInactive, CrashIngest, Activate, SearchByVector, SearchByPhoneticCodes,
       ResolveAlias, StoreHits, FailScreen

\* No screen has read anything.
LEMMA InitScreen == Init => ScreenInv
  BY DEF Init, ScreenInv, CandidatesRead, CandidatesFound, HitsDecided, Unscreened,
     Searched, Gathered

\* Steps of others leave a screen and its hits as they were.
LEMMA OthersKeepScreens ==
  ASSUME SnapshotInv, ScreenInv, [Next]_vars, UNCHANGED <<screen, hits>>
  PROVE  ScreenInv'
  <1>1. \A s \in Screens : \A k \in screen[s].candidates : k.list_version \in Collections
    BY DEF SnapshotInv, Typed, ScreenRows, Candidates
  <1>2. CandidatesRead'
    BY <1>1, NothingWithdrawn DEF ScreenInv, CandidatesRead
  <1>3. CandidatesFound'
    BY DEF ScreenInv, CandidatesFound
  <1>4. HitsDecided'
    BY DEF ScreenInv, HitsDecided, DecideHits
  <1>5. QED
    BY <1>2, <1>3, <1>4 DEF ScreenInv

\* HitsDecided is about stored screens, so only the step that stores one matters.
LEMMA HitsOfOthersStay ==
  ASSUME SnapshotInv, ScreenInv, NEW s \in Screens, hits' = hits,
         screen[s].at # "stored", screen'[s].at # "stored",
         \A t \in Screens : t # s => screen'[t] = screen[t]
  PROVE  HitsDecided'
  <1>1. \A h \in hits : h.screen \in Screens /\ h.screen # s
    BY DEF SnapshotInv, Typed, ScreenInv, HitsDecided
  <1>2. \A t \in Screens : t # s => DecideHits(t)' = DecideHits(t)
    BY DEF DecideHits
  <1>3. QED
    BY <1>1, <1>2 DEF ScreenInv, HitsDecided

\* The candidates and the finds of the other screens are theirs alone.
ReadBy(s) ==
  \A k \in screen[s].candidates :
    /\ k.list_version = IF k.by_vector THEN screen[s].vector ELSE screen[s].phonetic
    /\ k.entry \in points[k.list_version]
    /\ screen[s].at \in (IF k.by_vector THEN Searched ELSE Gathered)
    /\ Recorded(k.list_version)

FoundBy(s) ==
  /\ screen[s].at \in Searched =>
       /\ screen[s].vector # None
       /\ (\E k \in screen[s].candidates : k.by_vector)
            <=> Matches(VectorNear[s], screen[s].vector)
  /\ screen[s].at \in Gathered =>
       /\ screen[s].phonetic # None
       /\ Matches(SoundsLike[s], screen[s].phonetic) => screen[s].candidates # {}
       /\ (\E k \in screen[s].candidates : ~k.by_vector)
            => Matches(SoundsLike[s], screen[s].phonetic)

\* A step of one screen leaves what the others have read.
LEMMA OneScreenMoves ==
  ASSUME ScreenInv, NEW s \in Screens, UNCHANGED <<points, recorded>>,
         \A t \in Screens : t # s => screen'[t] = screen[t],
         ReadBy(s)', FoundBy(s)'
  PROVE  CandidatesRead' /\ CandidatesFound'
  <1>1. ASSUME NEW t \in Screens
        PROVE  ReadBy(t)' /\ FoundBy(t)'
    <2>1. CASE t = s
      BY <2>1
    <2>2. CASE t # s
      BY <2>2 DEF ScreenInv, CandidatesRead, CandidatesFound, ReadBy, FoundBy, Recorded
    <2>3. QED
      BY <2>1, <2>2
  <1>2. CandidatesRead'
    BY <1>1 DEF CandidatesRead, ReadBy
  <1>3. CandidatesFound'
    BY <1>1 DEF CandidatesFound, FoundBy
  <1>4. QED
    BY <1>2, <1>3

\* The invariant, for one screen.
LEMMA ScreenReads ==
  ASSUME SnapshotInv, ScreenInv, NEW s \in Screens
  PROVE  ReadBy(s) /\ FoundBy(s)
  BY DEF ScreenInv, CandidatesRead, CandidatesFound, ReadBy, FoundBy

\* The alias a careful operator and the ingests leave is whole and on record.
LEMMA AliasWhole ==
  ASSUME SnapshotInv, ~Careless, alias # None
  PROVE  Recorded(alias) /\ points[alias] = Listed(alias)
  BY DEF SnapshotInv, AliasRecorded, RowsTrue, Recorded

\* The vector query reads a whole recorded list.
LEMMA SearchByVectorReads ==
  ASSUME SnapshotInv, ~Careless, ScreenInv, NEW s \in Screens, SearchByVector(s)
  PROVE  ScreenInv'
  <1>1. PICK found \in Results(VectorNear[s] \intersect points[alias], VectorLimit) :
           /\ alias \in Collections
           /\ screen' \in [Screens -> ScreenRows]
           /\ \A t \in Screens : t # s => screen'[t] = screen[t]
           /\ screen'[s].at = "searched" /\ screen'[s].vector = alias
           /\ screen'[s].candidates = {Candidate(e, alias, TRUE) : e \in found}
    BY SearchByVectorRow
  <1>2. UNCHANGED <<points, recorded, hits>> /\ screen[s].at # "stored"
    BY DEF SearchByVector
  <1>3. Recorded(alias) /\ points[alias] = Listed(alias) /\ alias # None
    BY <1>1, AliasWhole, ScreeningAssumption
  <1>4. found \subseteq points[alias] /\ (found # {} <=> Matches(VectorNear[s], alias))
    BY <1>1, <1>3, SearchFinds, ScreeningAssumption
  <1>5. \A k \in screen'[s].candidates :
          k.by_vector /\ k.list_version = alias /\ k.entry \in found
    BY <1>1 DEF Candidate
  <1>6. screen'[s].candidates = {} <=> found = {}
    BY <1>1
  <1>7. \A c : Recorded(c) => Recorded(c)'
    BY <1>2 DEF Recorded
  <1>8. ReadBy(s)'
    <2>1. \A k \in screen'[s].candidates : Recorded(k.list_version)'
      BY <1>3, <1>5, <1>7
    <2>2. QED
      BY <1>1, <1>2, <1>4, <1>5, <2>1 DEF ReadBy, Searched
  <1>9. FoundBy(s)'
    BY <1>1, <1>3, <1>4, <1>5, <1>6 DEF FoundBy, Gathered
  <1>10. QED
    BY <1>1, <1>2, <1>8, <1>9, OneScreenMoves, HitsOfOthersStay DEF ScreenInv

\* So does the phonetic query, though perhaps another one.
LEMMA SearchByPhoneticCodesReads ==
  ASSUME SnapshotInv, ~Careless, ScreenInv, NEW s \in Screens, SearchByPhoneticCodes(s)
  PROVE  ScreenInv'
  <1> DEFINE known == {k.entry : k \in screen[s].candidates}
  <1>1. PICK found \in Results(SoundsLike[s] \intersect points[alias], PhoneticLimit) :
           /\ alias \in Collections
           /\ screen' \in [Screens -> ScreenRows]
           /\ \A t \in Screens : t # s => screen'[t] = screen[t]
           /\ screen'[s].at = "gathered" /\ screen'[s].phonetic = alias
           /\ screen'[s].vector = screen[s].vector
           /\ screen'[s].candidates = screen[s].candidates \union
                {Candidate(e, alias, FALSE) : e \in found \ known}
    BY SearchByPhoneticCodesRow
  <1>2. UNCHANGED <<points, recorded, hits>> /\ screen[s].at = "searched"
    BY DEF SearchByPhoneticCodes
  <1>3. Recorded(alias) /\ points[alias] = Listed(alias) /\ alias # None
    BY <1>1, AliasWhole, ScreeningAssumption
  <1>4. found \subseteq points[alias] /\ (found # {} <=> Matches(SoundsLike[s], alias))
    BY <1>1, <1>3, SearchFinds, ScreeningAssumption
  <1>5. ReadBy(s) /\ FoundBy(s)
    BY ScreenReads
  <1>6. \A k \in screen[s].candidates : k.by_vector
    <2>1. \A k \in screen[s].candidates :
            "searched" \in (IF k.by_vector THEN Searched ELSE Gathered)
      BY <1>2, <1>5 DEF ReadBy
    <2>2. "searched" \notin Gathered
      BY DEF Gathered
    <2>3. \A k \in screen[s].candidates : k.by_vector \in BOOLEAN
      BY DEF SnapshotInv, Typed, ScreenRows, Candidates
    <2>4. QED
      BY <2>1, <2>2, <2>3
  <1> DEFINE new == {Candidate(e, alias, FALSE) : e \in found \ known}
  <1>7. \A k \in new : ~k.by_vector /\ k.list_version = alias /\ k.entry \in found
    BY DEF Candidate
  <1>8. \A c : Recorded(c) => Recorded(c)'
    BY <1>2 DEF Recorded
  <1>9. screen'[s].candidates = screen[s].candidates \union new
    BY <1>1
  <1>10. found # {} => screen[s].candidates # {} \/ new # {}
    OBVIOUS
  <1> HIDE DEF new
  <1>11. ReadBy(s)'
    <2>1. ASSUME NEW k \in screen[s].candidates
          PROVE  /\ k.by_vector /\ k.list_version = screen'[s].vector
                 /\ k.entry \in points'[k.list_version]
                 /\ Recorded(k.list_version)'
      BY <1>1, <1>2, <1>5, <1>6, <1>8 DEF ReadBy
    <2>2. ASSUME NEW k \in new
          PROVE  /\ ~k.by_vector /\ k.list_version = screen'[s].phonetic
                 /\ k.entry \in points'[k.list_version]
                 /\ Recorded(k.list_version)'
      BY <1>1, <1>2, <1>3, <1>4, <1>7, <1>8
    <2>3. screen'[s].at \in Searched /\ screen'[s].at \in Gathered
      BY <1>1 DEF Searched, Gathered
    <2>4. QED
      BY <1>9, <2>1, <2>2, <2>3 DEF ReadBy
  <1>12. FoundBy(s)'
    <2>1. screen[s].vector # None
          /\ ((\E k \in screen[s].candidates : k.by_vector)
                <=> Matches(VectorNear[s], screen[s].vector))
      BY <1>2, <1>5 DEF FoundBy, Searched
    <2>2. (\E k \in screen'[s].candidates : k.by_vector)
            <=> (\E k \in screen[s].candidates : k.by_vector)
      BY <1>7, <1>9
    <2>3. Matches(SoundsLike[s], alias) => screen'[s].candidates # {}
      BY <1>4, <1>9, <1>10
    <2>4. (\E k \in screen'[s].candidates : ~k.by_vector) => Matches(SoundsLike[s], alias)
      BY <1>4, <1>6, <1>7, <1>9
    <2>5. QED
      BY <1>1, <1>3, <2>1, <2>2, <2>3, <2>4 DEF FoundBy
  <1>13. QED
    BY <1>1, <1>2, <1>11, <1>12, OneScreenMoves, HitsOfOthersStay DEF ScreenInv

\* Resolving and failing read no list.
LEMMA OtherScreenReads ==
  ASSUME SnapshotInv, ScreenInv, NEW s \in Screens, ResolveAlias(s) \/ FailScreen(s)
  PROVE  ScreenInv'
  <1>1. UNCHANGED <<points, recorded, hits>>
    BY DEF ResolveAlias, FailScreen
  <1>2. /\ ReadBy(s) /\ FoundBy(s)
        /\ \A c : Recorded(c) => Recorded(c)'
    BY <1>1, ScreenReads DEF Recorded
  <1>3. ReadBy(s)' /\ FoundBy(s)' /\ screen[s].at # "stored" /\ screen'[s].at # "stored"
    <2>1. CASE /\ screen[s].at = "gathered" /\ screen'[s].at = "resolved"
               /\ screen'[s].candidates = screen[s].candidates
               /\ screen'[s].vector = screen[s].vector
               /\ screen'[s].phonetic = screen[s].phonetic
      BY <1>1, <1>2, <2>1 DEF ReadBy, FoundBy, Searched, Gathered
    <2>2. CASE /\ screen[s].at # "stored"
               /\ screen'[s].at = "idle" /\ screen'[s].candidates = {}
      BY <2>2 DEF ReadBy, FoundBy, Searched, Gathered
    <2>3. QED
      BY <2>1, <2>2, OtherScreenRow
  <1>4. QED
    BY <1>1, <1>3, OtherScreenRow, OneScreenMoves, HitsOfOthersStay DEF ScreenInv

\* The transaction stores every hit the screen decided.
LEMMA StoreHitsReads ==
  ASSUME SnapshotInv, ScreenInv, NEW s \in Screens, StoreHits(s)
  PROVE  ScreenInv'
  <1>1. /\ \A t \in Screens : t # s => screen'[t] = screen[t]
        /\ screen'[s].at = "stored" /\ screen'[s].candidates = screen[s].candidates
        /\ screen'[s].vector = screen[s].vector
        /\ screen'[s].phonetic = screen[s].phonetic
        /\ hits' = hits \union {[screen |-> s, entry |-> k.entry,
                                 list_version |-> k.list_version] : k \in DecideHits(s)}
    BY StoreHitsRow
  <1>2. UNCHANGED <<points, recorded>> /\ screen[s].at = "resolved"
    BY DEF StoreHits
  <1>3. /\ ReadBy(s) /\ FoundBy(s)
        /\ \A c : Recorded(c) => Recorded(c)'
    BY <1>2, ScreenReads DEF Recorded
  <1>4. ReadBy(s)' /\ FoundBy(s)'
    BY <1>1, <1>2, <1>3 DEF ReadBy, FoundBy, Searched, Gathered
  <1>5. \A t \in Screens : DecideHits(t)' = DecideHits(t)
    BY <1>1 DEF DecideHits
  <1>6. \A h \in hits : h.screen \in Screens /\ h.screen # s
    BY <1>2 DEF SnapshotInv, Typed, ScreenInv, HitsDecided
  <1>7. ASSUME NEW h \in hits'
        PROVE  /\ screen'[h.screen].at = "stored"
               /\ \E k \in DecideHits(h.screen)' :
                    k.entry = h.entry /\ k.list_version = h.list_version
    <2>1. CASE h \in hits
      BY <1>1, <1>5, <1>6, <2>1 DEF ScreenInv, HitsDecided
    <2>2. CASE h \notin hits
      <3>1. PICK k \in DecideHits(s) :
              h = [screen |-> s, entry |-> k.entry, list_version |-> k.list_version]
        BY <1>1, <2>2
      <3>2. h.screen = s /\ h.entry = k.entry /\ h.list_version = k.list_version
        BY <3>1
      <3>3. QED
        BY <1>1, <1>5, <3>2
    <2>3. QED
      BY <2>1, <2>2
  <1>8. ASSUME NEW t \in Screens, screen'[t].at = "stored", NEW k \in DecideHits(t)'
        PROVE  \E h \in hits' : h.screen = t
    <2>1. CASE t = s
      <3>1. k \in DecideHits(s)
        BY <1>5, <2>1
      <3>2. [screen |-> s, entry |-> k.entry, list_version |-> k.list_version] \in hits'
        BY <1>1, <3>1
      <3>3. QED
        BY <2>1, <3>2
    <2>2. CASE t # s
      BY <1>1, <1>5, <1>8, <2>2 DEF ScreenInv, HitsDecided
    <2>3. QED
      BY <2>1, <2>2
  <1>9. HitsDecided'
    BY <1>7, <1>8 DEF HitsDecided
  <1>10. QED
    BY <1>1, <1>2, <1>4, <1>9, OneScreenMoves DEF ScreenInv

\* Every step keeps what screens hold true of the lists they read.
LEMMA ScreenNext ==
  ASSUME SnapshotInv, ~Careless, ScreenInv, [Next]_vars
  PROVE  ScreenInv'
  <1>1. CASE UNCHANGED <<screen, hits>>
    BY <1>1, OthersKeepScreens
  <1>2. ASSUME NEW s \in Screens,
               \/ SearchByVector(s) \/ SearchByPhoneticCodes(s) \/ ResolveAlias(s)
               \/ StoreHits(s) \/ FailScreen(s)
        PROVE  ScreenInv'
    BY <1>2, SearchByVectorReads, SearchByPhoneticCodesReads, OtherScreenReads,
       StoreHitsReads
  <1>3. QED
    BY <1>1, <1>2 DEF Next, vars, EnsureCollection, UpsertChunk, CheckCount,
       RecordSnapshot, ActivateIngest, LeaveInactive, CrashIngest, Activate

\* What a screen holds is what the lists it read make of its name.
THEOREM ScreenInvariant == Spec => [](~Careless => ScreenInv)
  <1>1. Init => (~Careless => ScreenInv)
    BY InitScreen
  <1>2. SnapshotInv /\ (~Careless => ScreenInv) /\ [Next]_vars => (~Careless => ScreenInv)'
    BY ScreenNext
  <1>3. QED
    BY <1>1, <1>2, SnapshotInvariant, PTL DEF Spec

\* A stored hit names a recorded list that its screen read and that holds the
\* entry, wherever the alias went meanwhile (activities.py:340-352).
THEOREM HitsNameLists == Spec => []HitsNameTheirList
  <1>1. SnapshotInv /\ (~Careless => ScreenInv) => HitsNameTheirList
    <2> SUFFICES ASSUME SnapshotInv, ScreenInv, NEW h \in hits
                 PROVE  /\ h.list_version \in {screen[h.screen].vector,
                                               screen[h.screen].phonetic}
                        /\ h.entry \in points[h.list_version]
                        /\ Recorded(h.list_version)
      BY DEF HitsNameTheirList
    <2>1. h.screen \in Screens
      BY DEF SnapshotInv, Typed
    <2>2. PICK k \in DecideHits(h.screen) :
            k.entry = h.entry /\ k.list_version = h.list_version
      BY DEF ScreenInv, HitsDecided
    <2>3. k \in screen[h.screen].candidates
      BY <2>2 DEF DecideHits
    <2>4. QED
      BY <2>1, <2>2, <2>3 DEF ScreenInv, CandidatesRead
  <1>2. QED
    BY <1>1, SnapshotInvariant, ScreenInvariant, PTL

\* A stored screen has a hit exactly when a method in use matches the whole list
\* it read, for any limits of the queries (screen.py:72-163).
THEOREM ScreensAreComplete == Spec => []ScreensMissNothing
  <1>1. SnapshotInv /\ (~Careless => ScreenInv) => ScreensMissNothing
    <2> SUFFICES ASSUME SnapshotInv, ScreenInv, NEW s \in Screens,
                        screen[s].at = "stored"
                 PROVE  (\E h \in hits : h.screen = s)
                          <=> \/ Matches(VectorNear[s], screen[s].vector)
                              \/ UsePhonetic /\ Matches(SoundsLike[s], screen[s].phonetic)
      BY DEF ScreensMissNothing, Matches
    <2>1. (\E h \in hits : h.screen = s) <=> DecideHits(s) # {}
      BY DEF ScreenInv, HitsDecided
    <2>2. /\ (\E k \in screen[s].candidates : k.by_vector)
                <=> Matches(VectorNear[s], screen[s].vector)
          /\ Matches(SoundsLike[s], screen[s].phonetic) => screen[s].candidates # {}
          /\ (\E k \in screen[s].candidates : ~k.by_vector)
                => Matches(SoundsLike[s], screen[s].phonetic)
      BY ScreenReads DEF FoundBy, Searched, Gathered
    <2>3. DecideHits(s) # {} <=> \E k \in screen[s].candidates : k.by_vector \/ UsePhonetic
      BY DEF DecideHits
    <2>4. QED
      BY <2>1, <2>2, <2>3
  <1>2. QED
    BY <1>1, SnapshotInvariant, ScreenInvariant, PTL
==============================================================================
