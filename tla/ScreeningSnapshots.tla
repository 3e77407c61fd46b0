------------------------- MODULE ScreeningSnapshots --------------------------
(***************************************************************************)
(* Versioned sanctions lists: ingests that build a Qdrant collection each  *)
(* (or the same one twice), check it, record it and repoint the screening  *)
(* alias; an operator who rolls the alias back; and attempts of            *)
(* sanctions_screen, which read through the alias three times without a    *)
(* snapshot of it: the vector query, the phonetic query, and the           *)
(* list_version they store.                                                *)
(*                                                                         *)
(* One embedding model and no reranker, as shipped: a collection is its    *)
(* list_version.  An entry stands for its key (list_source, entity_id,     *)
(* normalised name), so two lists may share it.                            *)
(***************************************************************************)
EXTENDS Naturals, Sequences, FiniteSets, FiniteSetsExt, SequencesExt

CONSTANTS
  Collections,   \* collections, one per list_version
  Entries,       \* keys of list entries
  Chunks,        \* the list behind a collection: a sequence of chunks
  Ingests, ListOf,     \* runs of the ingest command and the list each loads
  Screens,             \* attempts of sanctions_screen
  VectorNear,          \* entries above the vector threshold, per screen
  SoundsLike,          \* entries that share a phonetic code, per screen
  VectorLimit,         \* vector_candidates (20 in the code)
  PhoneticLimit,       \* limit of search_by_phonetic_codes (10)
  UsePhonetic,         \* phonetic_enabled (FALSE as shipped)
  Careless,            \* may --activate name a collection that is not on --list?
  None

Listed(c) == UNION ToSet(Chunks[c])

ASSUME ScreeningAssumption ==
  /\ None \notin Collections /\ IsFiniteSet(Entries)
  /\ \A c \in Collections : Chunks[c] \in Seq(SUBSET Entries) /\ Chunks[c] # <<>>
  /\ ListOf \in [Ingests -> Collections]
  /\ VectorNear \in [Screens -> SUBSET Entries]
  /\ SoundsLike \in [Screens -> SUBSET Entries]
  /\ VectorLimit \in Nat \ {0} /\ PhoneticLimit \in Nat \ {0}
  /\ UsePhonetic \in BOOLEAN /\ Careless \in BOOLEAN

VARIABLES
  points,     \* the entries in each collection
  exists,     \* collections that exist
  recorded,   \* list_snapshots rows: collection and entry_count
  alias,      \* what sanctions_current points at
  ingest,     \* each ingest: stage and chunks written
  screen,     \* each screen: stage, the collections it read, its candidates
  hits        \* sanctions_hits rows

vars == <<points, exists, recorded, alias, ingest, screen, hits>>

Unscreened == [at |-> "idle", vector |-> None, phonetic |-> None,
               candidates |-> {}, target |-> None, list_version |-> None]

Init ==
  /\ points = [c \in Collections |-> {}]
  /\ exists = {}
  /\ recorded = {}
  /\ alias = None
  /\ ingest = [i \in Ingests |-> [at |-> "idle", written |-> 0]]
  /\ screen = [s \in Screens |-> Unscreened]
  /\ hits = {}

------------------------------------------------------------------------------
(* ingest_entries, build_collection and main of ingest.py *)

Recorded(c) == \E r \in recorded : r.collection = c

IngestGoto(i, from, to) ==
  /\ ingest[i].at = from
  /\ ingest' = [ingest EXCEPT ![i].at = to]

\* Bug: recreate_collection, which drops what screens may be reading.
EnsureCollectionAfresh(i) ==
  /\ IngestGoto(i, "idle", "building")
  /\ exists' = exists \union {ListOf[i]}
  /\ points' = [points EXCEPT ![ListOf[i]] = {}]
  /\ UNCHANGED <<recorded, alias, screen, hits>>

\* An existing collection, finished or not, is built upon.
EnsureCollection(i) ==
  /\ IngestGoto(i, "idle", "building")
  /\ exists' = exists \union {ListOf[i]}
  /\ UNCHANGED <<points, recorded, alias, screen, hits>>

\* Points have deterministic ids: an upsert adds an entry or replaces it.
UpsertChunk(i) ==
  LET c == ListOf[i]  n == ingest[i].written
  IN /\ ingest[i].at = "building" /\ n < Len(Chunks[c])
     /\ ingest' = [ingest EXCEPT ![i].written = n + 1]
     /\ points' = [points EXCEPT ![c] = @ \union Chunks[c][n + 1]]
     /\ UNCHANGED <<exists, recorded, alias, screen, hits>>

\* count_points against the deduplicated entries; a mismatch raises.
CheckCount(i) ==
  LET c == ListOf[i]
  IN /\ ingest[i].written = Len(Chunks[c])
     /\ Cardinality(points[c]) = Cardinality(Listed(c))
     /\ IngestGoto(i, "building", "checked")
     /\ UNCHANGED <<points, exists, recorded, alias, screen, hits>>

\* INSERT ... ON CONFLICT (collection_name) DO NOTHING.
RecordSnapshot(i) ==
  LET c == ListOf[i]
  IN /\ IngestGoto(i, "checked", "recorded")
     /\ recorded' = IF Recorded(c) THEN recorded
                    ELSE recorded \union {[collection |-> c,
                                           entry_count |-> Cardinality(points[c])]}
     /\ UNCHANGED <<points, exists, alias, screen, hits>>

\* Delete and create in one request; whatever the alias was, it is c now.
PointAlias(c) == alias' = c

ActivateIngest(i) ==
  /\ IngestGoto(i, "recorded", "done")
  /\ PointAlias(ListOf[i])
  /\ UNCHANGED <<points, exists, recorded, screen, hits>>

\* --no-activate
LeaveInactive(i) ==
  /\ IngestGoto(i, "recorded", "done")
  /\ UNCHANGED <<points, exists, recorded, alias, screen, hits>>

\* The command dies between two steps, and may be run again.
CrashIngest(i) ==
  /\ ingest[i].at \in {"building", "checked", "recorded"}
  /\ ingest' = [ingest EXCEPT ![i] = [at |-> "idle", written |-> 0]]
  /\ UNCHANGED <<points, exists, recorded, alias, screen, hits>>

\* --activate COLLECTION takes any name; Qdrant refuses one it does not have.
Activate(c) ==
  /\ c \in exists /\ c # alias
  /\ Careless \/ Recorded(c)
  /\ PointAlias(c)
  /\ UNCHANGED <<points, exists, recorded, ingest, screen, hits>>

------------------------------------------------------------------------------
(* screen_name *)

\* What a query with a limit may return of what matches.
Results(matching, limit) ==
  {found \in SUBSET matching : Cardinality(found) = Min({limit, Cardinality(matching)})}

Candidate(e, c, by_vector) == [entry |-> e, list_version |-> c, by_vector |-> by_vector]

SearchByVector(s) ==
  /\ screen[s].at = "idle" /\ alias # None
  /\ \E found \in Results(VectorNear[s] \intersect points[alias], VectorLimit) :
       screen' = [screen EXCEPT
         ![s].at = "searched", ![s].vector = alias,
         ![s].candidates = {Candidate(e, alias, TRUE) : e \in found}]
  /\ UNCHANGED <<points, exists, recorded, alias, ingest, hits>>

\* An entry the vector query surfaced already keeps its payload.
SearchByPhoneticCodes(s) ==
  /\ screen[s].at = "searched"
  /\ \E found \in Results(SoundsLike[s] \intersect points[alias], PhoneticLimit) :
       LET known == {k.entry : k \in screen[s].candidates}
       IN screen' = [screen EXCEPT
            ![s].at = "gathered", ![s].phonetic = alias,
            ![s].candidates = @ \union {Candidate(e, alias, FALSE) : e \in found \ known}]
  /\ UNCHANGED <<points, exists, recorded, alias, ingest, hits>>

\* Bug: a candidate only the phonetic query found is never a hit.
DecideHitsByVector(s) == {k \in screen[s].candidates : k.by_vector}

DecideHits(s) == {k \in screen[s].candidates : k.by_vector \/ UsePhonetic}

------------------------------------------------------------------------------
(* sanctions_screen_activity, after screen_name *)

\* Bug: resolve_alias returns the alias and not its collection.
ResolveAliasItself(s) ==
  /\ screen[s].at = "gathered"
  /\ screen' = [screen EXCEPT ![s].at = "resolved", ![s].target = "sanctions_current"]
  /\ UNCHANGED <<points, exists, recorded, alias, ingest, hits>>

ResolveAlias(s) ==
  /\ screen[s].at = "gathered"
  /\ screen' = [screen EXCEPT ![s].at = "resolved", ![s].target = alias]
  /\ UNCHANGED <<points, exists, recorded, alias, ingest, hits>>

\* active_list_version, given what resolve_alias returned.
ActiveListVersion(s) == IF Recorded(screen[s].target) THEN screen[s].target ELSE None

\* Bug: `list_version or hit.list_version`.
VersionOfHitNow(s, k) ==
  IF ActiveListVersion(s) # None THEN ActiveListVersion(s) ELSE k.list_version

\* hit.list_version or list_version; every point carries one.
VersionOfHit(s, k) == k.list_version

\* The hits of one transaction, and the list_version of the audit payload.
StoreHits(s) ==
  /\ screen[s].at = "resolved"
  /\ hits' = hits \union {[screen |-> s, entry |-> k.entry,
                           list_version |-> VersionOfHit(s, k)] : k \in DecideHits(s)}
  /\ screen' = [screen EXCEPT ![s].at = "stored", ![s].list_version = ActiveListVersion(s)]
  /\ UNCHANGED <<points, exists, recorded, alias, ingest>>

\* A query or the transaction raises: nothing is stored, the retry begins anew.
FailScreen(s) ==
  /\ screen[s].at \in {"searched", "gathered", "resolved"}
  /\ screen' = [screen EXCEPT ![s] = Unscreened]
  /\ UNCHANGED <<points, exists, recorded, alias, ingest, hits>>

------------------------------------------------------------------------------
Next ==
  \/ \E i \in Ingests :
       \/ EnsureCollection(i) \/ UpsertChunk(i) \/ CheckCount(i)
       \/ RecordSnapshot(i) \/ ActivateIngest(i) \/ LeaveInactive(i)
       \/ CrashIngest(i)
  \/ \E c \in Collections : Activate(c)
  \/ \E s \in Screens :
       \/ SearchByVector(s) \/ SearchByPhoneticCodes(s) \/ ResolveAlias(s)
       \/ StoreHits(s) \/ FailScreen(s)

Spec == Init /\ [][Next]_vars

------------------------------------------------------------------------------
(* Properties *)

TypeOK ==
  /\ points \in [Collections -> SUBSET Entries]
  /\ exists \subseteq Collections
  /\ recorded \subseteq [collection : Collections, entry_count : Nat]
  /\ alias \in Collections \union {None}
  /\ \A i \in Ingests :
       /\ ingest[i].at \in {"idle", "building", "checked", "recorded", "done"}
       /\ ingest[i].written \in 0..Len(Chunks[ListOf[i]])
  /\ \A s \in Screens :
       /\ screen[s].at \in {"idle", "searched", "gathered", "resolved", "stored"}
       /\ {screen[s].vector, screen[s].phonetic, screen[s].target,
           screen[s].list_version} \subseteq Collections \union {None}
       /\ screen[s].candidates \subseteq
            [entry : Entries, list_version : Collections, by_vector : BOOLEAN]
  /\ hits \subseteq [screen : Screens, entry : Entries, list_version : Collections]

\* What screens read through the alias is always a whole list with one row on
\* record and the right count, whatever ingests run, die or overlap and
\* wherever the alias is rolled back to (snapshots.py:4-8, 124-130; an operator
\* activates what --list shows).
SnapshotReady ==
  ~Careless /\ alias # None =>
    /\ points[alias] = Listed(alias)
    /\ {r \in recorded : r.collection = alias}
         = {[collection |-> alias, entry_count |-> Cardinality(Listed(alias))]}

\* A stored hit names a list that its screen read, that holds the entry, and
\* that is on record, though the alias may have moved since
\* (activities.py:340-352, qdrant_store.py:71-73).
HitsNameTheirList ==
  ~Careless => \A h \in hits :
    /\ h.list_version \in {screen[h.screen].vector, screen[h.screen].phonetic}
    /\ h.entry \in points[h.list_version]
    /\ Recorded(h.list_version)

\* A screen that was stored has a hit if and only if one of its methods matches
\* the whole list that method read: no half-built list, query limit or move of
\* the alias clears a listed name (screen.py:72-163).
ScreensMissNothing ==
  ~Careless => \A s \in Screens : screen[s].at = "stored" =>
    ( (\E h \in hits : h.screen = s)
      <=> \/ VectorNear[s] \intersect Listed(screen[s].vector) # {}
          \/ UsePhonetic /\ SoundsLike[s] \intersect Listed(screen[s].phonetic) # {} )
==============================================================================
