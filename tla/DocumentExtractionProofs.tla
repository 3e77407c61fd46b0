----------------------- MODULE DocumentExtractionProofs -----------------------
(***************************************************************************)
(* Workflow, policy and reviewer speak of one document as far as they      *)
(* speak of one photograph, whatever its characters and whatever is        *)
(* retried, timed out, stored late and put in its place.  And what a line of the zone is worth: the number that is         *)
(* accepted is the one that was read, one misread character of it is       *)
(* caught, and a repair is the only one of its size.                       *)
(***************************************************************************)
EXTENDS DocumentExtraction, FiniteSetTheorems, SequenceTheorems, WellFoundedInduction, TLAPS

-------------------------------------------------------------------------------
(* What reading an image may come to *)

\* A character has finitely many readings.
LEMMA ReadingsFinite == \A i, c : IsFiniteSet(Readings(i, c))
  <1> TAKE i, c
  <1>1. \A x : IsFiniteSet({x})
    BY FS_Singleton
  <1>2. IsFiniteSet({"2", "7"})
    <2>1. IsFiniteSet({"2"} \cup {"7"})
      BY <1>1, FS_AddElement
    <2>2. {"2"} \cup {"7"} = {"2", "7"}
      OBVIOUS
    <2>3. QED
      BY <2>1, <2>2
  <1>3. ASSUME c \in Letter PROVE IsFiniteSet(DigitReadings[c])
    BY <1>1, <1>2, <1>3 DEF DigitReadings
  <1>4. QED
    BY <1>1, <1>3 DEF Readings

\* A repair gives one parse at the most.
LEMMA RepairUnique ==
  ASSUME NEW line1, NEW line2, NEW r \in Repair(line1, line2), NEW s \in Repair(line1, line2)
  PROVE  r = s
  <1> DEFINE number == ResolveField(line2, NumberField)
             birth == ResolveField(line2, BirthField)
             expiry == ResolveField(line2, ExpiryField)
             letters == [i \in DOMAIN line2 |->
                           IF i \in LineTwoAlpha THEN LetterReadings[line2[i]] ELSE line2[i]]
             resolved == Put(Put(Put(letters, NumberField, number), BirthField, birth),
                             ExpiryField, expiry)
             passing == {p \in {ParseTd3(line1, [resolved EXCEPT ![44] = c]) :
                                  c \in Readings(44, line2[44])} : p.valid}
  <1>1. Repair(line1, line2) = IF Unresolved \notin {number, birth, expiry} /\ Cardinality(passing) = 1
                               THEN passing ELSE {}
    BY DEF Repair
  <1> HIDE DEF number, birth, expiry, letters, resolved
  <1>2. IsFiniteSet(passing)
    <2> DEFINE S == Readings(44, line2[44])
               parse == [c \in S |-> ParseTd3(line1, [resolved EXCEPT ![44] = c])]
               T == {ParseTd3(line1, [resolved EXCEPT ![44] = c]) : c \in S}
    <2>1. IsFiniteSet(S)
      BY ReadingsFinite
    <2>2. parse \in Surjection(S, T)
      BY DEF Surjection
    <2>3. IsFiniteSet(T)
      BY <2>1, <2>2, FS_Surjection
    <2>4. passing \in SUBSET T
      OBVIOUS
    <2> HIDE DEF T, passing
    <2>5. QED
      BY <2>3, <2>4, FS_Subset
  <1> HIDE DEF passing
  <1>3. Cardinality(passing) = 1 /\ r \in passing /\ s \in passing
    BY <1>1
  <1>4. \E x : passing = {x}
    BY <1>2, <1>3, FS_Singleton
  <1>5. QED
    BY <1>3, <1>4

\* Two lines give one document at the most.
LEMMA ParseUnique ==
  ASSUME NEW l1, NEW l2, NEW d \in ParseTd3Tolerant(l1, l2), NEW e \in ParseTd3Tolerant(l1, l2)
  PROVE  d = e
  <1> DEFINE fitted == FitFiller(l1)
             line1 == [i \in DOMAIN fitted |-> IF i > 2 THEN LetterReadings[fitted[i]] ELSE fitted[i]]
             line2 == FitFiller(l2)
             exact == ParseTd3(line1, line2)
             readings == IF exact.valid THEN {exact} ELSE Repair(line1, line2)
  <1>1. ParseTd3Tolerant(l1, l2) = {r.document : r \in readings}
    BY DEF ParseTd3Tolerant
  <1>2. \A r, s \in readings : r = s
    BY RepairUnique
  <1> HIDE DEF readings
  <1>3. QED
    BY <1>1, <1>2

\* A document that is accepted is the one document of its lines.
LEMMA MrzUnique ==
  ASSUME NEW l1, NEW l2, NEW r \in ExtractFromMrz(l1, l2), NEW s \in ExtractFromMrz(l1, l2)
  PROVE  /\ r = s /\ r.method = "mrz" /\ r.needsReview \in BOOLEAN /\ ~r.needsReview
         /\ r.document # {} /\ \A d, e \in r.document : d = e
  <1>1. PICK d \in ParseTd3Tolerant(l1, l2) : r = Result({d}, 99, "mrz", FALSE)
    BY DEF ExtractFromMrz
  <1>2. PICK e \in ParseTd3Tolerant(l1, l2) : s = Result({e}, 99, "mrz", FALSE)
    BY DEF ExtractFromMrz
  <1>3. d = e
    BY ParseUnique
  <1>4. QED
    BY <1>1, <1>2, <1>3 DEF Result

\* A nonempty set of naturals has a least element.
LEMMA LeastNatural ==
  ASSUME NEW S, S \subseteq Nat, S # {}
  PROVE  Min(S) \in S /\ \A k \in S : Min(S) <= k
  <1>1. \E n \in S : \A k \in S : ~(<<k, n>> \in OpToRel(<, Nat))
    BY NatLessThanWellFounded, WFMin
  <1>2. PICK n \in S : \A k \in S : ~(<<k, n>> \in OpToRel(<, Nat))
    BY <1>1
  <1>3. \A k \in S : ~(k < n)
    BY <1>2 DEF OpToRel
  <1>4. \A k \in S : n <= k
    BY <1>3
  <1>5. QED
    BY <1>4 DEF Min

\* The best answer of the model is a document if it is worth anything at all.
LEMMA VlmResult ==
  ASSUME NEW answers \in [1..MaxRetries -> VlmAnswers], NEW r, r = ExtractWithVlm(answers)
  PROVE  /\ r.method = "vlm" /\ r.needsReview \in BOOLEAN /\ r.document \in VlmAnswers
         /\ ~r.needsReview => r.document # {}
  <1> DEFINE usable == {k \in DOMAIN answers : answers[k] # {}}
  <1>1. CASE usable = {}
    <2>1. r = Result({}, 0, "vlm", TRUE)
      BY <1>1 DEF ExtractWithVlm
    <2>2. QED
      BY <2>1 DEF Result, VlmAnswers
  <1>2. CASE usable # {}
    <2>1. r = Result(answers[Min(usable)], Max({50, 100 - 15 * (Min(usable) - 1)}), "vlm", FALSE)
      BY <1>2 DEF ExtractWithVlm
    <2>2. usable \subseteq Nat /\ usable \subseteq 1..MaxRetries
      OBVIOUS
    <2>3. Min(usable) \in usable
      BY <1>2, <2>2, LeastNatural
    <2>4. answers[Min(usable)] # {} /\ answers[Min(usable)] \in VlmAnswers
      BY <2>3
    <2> HIDE DEF usable
    <2>5. QED
      BY <2>1, <2>4 DEF Result
  <1>3. QED
    BY <1>1, <1>2

\* What can be read from a document is one document or none, and a result that
\* needs no review has one.  A zone that can be read gives the same result every
\* time.
LEMMA ReadingResults ==
  ASSUME NEW r \in ExtractIdDocument
  PROVE  /\ r.method \in {"mrz", "vlm"} /\ r.needsReview \in BOOLEAN
         /\ \A d, e \in r.document : d = e
         /\ ~r.needsReview => r.document # {}
         /\ r.method = "mrz" => ~r.needsReview /\ \A s \in ExtractIdDocument : s = r
  <1> DEFINE lines == AssembleMrzLines(boxes)
             mrz == IF lines = <<>> THEN {} ELSE ExtractFromMrz(lines[1], lines[2])
             vlm == {ExtractWithVlm(answers) : answers \in [1..MaxRetries -> VlmAnswers]}
  <1>1. ExtractIdDocument = IF mrz # {} THEN mrz ELSE vlm
    BY DEF ExtractIdDocument
  <1> HIDE DEF lines
  <1>2. CASE mrz # {}
    <2>1. \A s, t \in mrz : /\ s = t /\ s.method = "mrz" /\ s.needsReview \in BOOLEAN /\ ~s.needsReview
                            /\ s.document # {} /\ \A d, e \in s.document : d = e
      <3> SUFFICES ASSUME NEW s \in mrz, NEW t \in mrz
                   PROVE  /\ s = t /\ s.method = "mrz" /\ s.needsReview \in BOOLEAN /\ ~s.needsReview
                          /\ s.document # {} /\ \A d, e \in s.document : d = e
        OBVIOUS
      <3>1. s \in ExtractFromMrz(lines[1], lines[2]) /\ t \in ExtractFromMrz(lines[1], lines[2])
        OBVIOUS
      <3> HIDE DEF mrz
      <3>2. QED
        BY <3>1, MrzUnique
    <2> HIDE DEF mrz
    <2>2. QED
      BY <1>1, <1>2, <2>1
  <1>3. CASE mrz = {}
    <2>1. PICK answers \in [1..MaxRetries -> VlmAnswers] : r = ExtractWithVlm(answers)
      <3> HIDE DEF mrz
      <3> QED
        BY <1>1, <1>3
    <2>2. /\ r.method = "vlm" /\ r.needsReview \in BOOLEAN /\ r.document \in VlmAnswers
          /\ ~r.needsReview => r.document # {}
      BY <2>1, VlmResult
    <2>3. \A d, e \in r.document : d = e
      BY <2>2 DEF VlmAnswers
    <2>4. QED
      BY <2>2, <2>3
  <1>4. QED
    BY <1>2, <1>3

-------------------------------------------------------------------------------
(* The inductive invariant *)

States == {"none", "running", "late", "failed", "dead", "done"}
Outcomes == {"waiting", "extracted", "gave up", "scored"}
RowType == [id : Attempts, by : Attempts,
            document : {r.document : r \in UNION {held[a] : a \in Attempts}},
            method : {"mrz", "vlm"}, valid : BOOLEAN]

\* What every result is like, whatever it was read from.
Sound(r) ==
  /\ r.method \in {"mrz", "vlm"} /\ r.needsReview \in BOOLEAN
  /\ \A d, e \in r.document : d = e
  /\ ~r.needsReview => r.document # {}

\* One result an attempt; what was read from the object now under the key is one
\* of its readings, and a zone was read alike by all that have read one object.
HeldIsRead ==
  /\ uploads \in Nat /\ seen \in [Attempts -> Nat]
  /\ held = [a \in Attempts |-> held[a]]
  /\ \A a \in Attempts :
       /\ seen[a] <= uploads
       /\ seen[a] = 0 => held[a] = {}
       /\ seen[a] = uploads => held[a] \subseteq ExtractIdDocument
       /\ \A r \in held[a] : Sound(r) /\ \A s \in held[a] : r = s
  /\ \A a, b \in Attempts : seen[a] = seen[b] =>
       \A r \in held[a], s \in held[b] : r.method = "mrz" => s = r

\* A row tells what the attempt that stored it holds, and an attempt stores one.
RowsTellHeld ==
  /\ rows \in Seq(RowType)
  /\ \A k \in DOMAIN rows : \E r \in held[rows[k].by] :
       rows[k].document = r.document /\ rows[k].valid = ~r.needsReview
  /\ \A j, k \in DOMAIN rows : rows[j].by = rows[k].by => j = k

\* The workflow knows the result of the attempt it has waited for, which has
\* stored its row; it waits for no other.
OutputIsStored ==
  /\ outcome \in Outcomes
  /\ \A a \in Attempts : attempt[a] = "running" => a = current
  /\ outcome \in {"waiting", "gave up"} => output = {}
  /\ outcome \in {"extracted", "scored"} =>
       \E k \in DOMAIN rows : rows[k].by = current /\ output = held[current]

\* The policy judged one document: the zone's, if the workflow got that, or one
\* that came late from another photograph.
FactsAreJudged ==
  /\ \A d, e \in facts : d = e
  /\ outcome = "scored" =>
       /\ facts # {}
       /\ \A r \in output : r.method = "mrz" =>
            \/ facts = r.document
            \/ \E k \in DOMAIN rows : LateFromAnother(k) /\ facts = rows[k].document

ExtractionInv == HeldIsRead /\ RowsTellHeld /\ OutputIsStored /\ FactsAreJudged

\* The rest of TypeOK: the page and the attempts.
Typed ==
  /\ identity \in Identities /\ shown \in Identities
  /\ IsFiniteSet(misread) /\ Cardinality(misread) <= MaxDamage
  /\ \A m \in misread : <<m.line, m.at>> \in MisreadAt /\ m.as \in MrzChar
  /\ attempt \in [Attempts -> States]
  /\ current \in 0..MaxAttempts

\* A set whose elements are all one has at most one.
LEMMA OneAtMost ==
  ASSUME NEW S, \A x, y \in S : x = y
  PROVE  IsFiniteSet(S) /\ Cardinality(S) <= 1
  <1>1. CASE S = {}
    BY <1>1, FS_EmptySet
  <1>2. CASE S # {}
    <2>1. PICK x : S = {x}
      BY <1>2
    <2>2. IsFiniteSet(S) /\ Cardinality(S) = 1
      BY <2>1, FS_Singleton
    <2>3. QED
      BY <2>2
  <1>3. QED
    BY <1>1, <1>2

\* The rows in the order of their places.
LEMMA RowsAre ==
  ASSUME RowsTellHeld
  PROVE  /\ Len(rows) \in Nat /\ DOMAIN rows = 1..Len(rows)
         /\ \A k \in DOMAIN rows : rows[k] \in RowType /\ rows[k].by \in Attempts
  <1>1. rows \in Seq(RowType)
    BY DEF RowsTellHeld
  <1>2. /\ Len(rows) \in Nat /\ DOMAIN rows = 1..Len(rows)
        /\ \A k \in DOMAIN rows : rows[k] \in RowType
    BY <1>1
  <1>3. QED
    BY <1>2 DEF RowType

\* What the invariants say is what the properties ask for.
LEMMA ImpliesTypeOK == Typed /\ ExtractionInv => TypeOK
  <1> SUFFICES ASSUME Typed, ExtractionInv PROVE TypeOK
    OBVIOUS
  <1> USE DEF ExtractionInv
  <1>1. MaxAttempts \in Nat
    BY ExtractionAssumption DEF ExtractionAssumption
  <1>2. \A a \in Attempts : Cardinality(held[a]) <= 1 /\ seen[a] \in 0..uploads
    <2>1. \A a \in Attempts : \A r, s \in held[a] : r = s
      BY DEF HeldIsRead
    <2>2. \A a \in Attempts : Cardinality(held[a]) <= 1
      BY <2>1, OneAtMost
    <2>3. \A a \in Attempts : seen[a] \in 0..uploads
      BY DEF HeldIsRead
    <2>4. QED
      BY <2>2, <2>3
  <1>3. /\ Len(rows) \in Nat /\ DOMAIN rows = 1..Len(rows)
        /\ \A k \in DOMAIN rows : rows[k].by \in Attempts
    BY RowsAre
  <1>4. Len(rows) <= MaxAttempts
    <2> DEFINE f == [k \in 1..Len(rows) |-> rows[k].by]
    <2>1. f \in Injection(1..Len(rows), Attempts)
      BY <1>3 DEF Injection, IsInjective, RowsTellHeld
    <2>2. IsFiniteSet(Attempts) /\ Cardinality(Attempts) = MaxAttempts
      BY <1>1, FS_Interval DEF Attempts
    <2>3. Cardinality(1..Len(rows)) = Len(rows)
      BY <1>3, FS_Interval
    <2>4. Cardinality(1..Len(rows)) <= Cardinality(Attempts)
      BY <2>1, <2>2, FS_Injection
    <2>5. QED
      BY <2>2, <2>3, <2>4
  <1>5. \A r, s \in output : r = s
    <2>1. \A k \in DOMAIN rows : \A r, s \in held[rows[k].by] : r = s
      BY <1>3 DEF HeldIsRead
    <2>2. QED
      BY <2>1 DEF OutputIsStored, Outcomes
  <1>6. Cardinality(output) <= 1 /\ Cardinality(facts) <= 1
    BY <1>5, OneAtMost DEF FactsAreJudged
  <1>7. QED
    BY <1>2, <1>4, <1>6 DEF TypeOK, Typed, OutputIsStored, Outcomes, States

\* Whatever came of the photograph whose zone the workflow's answer is from is
\* what was read from that zone.
LEMMA HeldAgree ==
  ASSUME ExtractionInv, NEW r \in output, r.method = "mrz",
         NEW k \in DOMAIN rows, SameUpload(k)
  PROVE  rows[k].document = r.document
  <1> USE DEF ExtractionInv
  <1>1. PICK j \in DOMAIN rows : rows[j].by = current /\ output = held[current]
    BY DEF OutputIsStored, Outcomes
  <1>2. current \in Attempts /\ rows[k].by \in Attempts
    BY <1>1, RowsAre
  <1>3. PICK s \in held[rows[k].by] : rows[k].document = s.document
    BY DEF RowsTellHeld
  <1>4. r \in held[current] /\ seen[current] = seen[rows[k].by]
    BY <1>1 DEF SameUpload
  <1>5. s = r
    BY <1>2, <1>3, <1>4 DEF HeldIsRead
  <1>6. QED
    BY <1>3, <1>5

LEMMA ImpliesAgreement == ExtractionInv => EvidenceAgrees
  <1> SUFFICES ASSUME ExtractionInv PROVE EvidenceAgrees
    OBVIOUS
  <1>1. \A r \in output : r.method = "mrz" =>
          \A k \in DOMAIN rows : SameUpload(k) => rows[k].document = r.document
    BY HeldAgree
  <1>2. QED
    BY <1>1 DEF EvidenceAgrees, ExtractionInv, FactsAreJudged

-------------------------------------------------------------------------------
(* Its preservation *)

\* What is read depends on the object under the key only.
LEMMA SameReading ==
  ASSUME UNCHANGED object
  PROVE  ExtractIdDocument' = ExtractIdDocument
  BY DEF ExtractIdDocument, VlmAnswers, object

\* Whatever leaves the object, the results and the rows alone keeps what the rows
\* tell of them.
LEMMA RowsKept ==
  ASSUME HeldIsRead, RowsTellHeld, UNCHANGED <<object, held, seen, rows>>
  PROVE  HeldIsRead' /\ RowsTellHeld'
  <1>1. ExtractIdDocument' = ExtractIdDocument
    BY SameReading
  <1>2. HeldIsRead'
    BY <1>1 DEF HeldIsRead, Attempts, Sound, object
  <1>3. RowsTellHeld'
    BY DEF RowsTellHeld, RowType, Attempts
  <1>4. QED
    BY <1>2, <1>3

\* A step that touches nothing fetched, held or stored, and no workflow, keeps what
\* is known of them.
LEMMA QuietStep ==
  ASSUME ExtractionInv, UNCHANGED <<object, held, seen, rows, outcome, output, facts>>,
         \/ UNCHANGED current
         \/ outcome = "waiting",
         \A a \in Attempts : attempt'[a] = "running" => a = current'
  PROVE  ExtractionInv'
  <1>1. HeldIsRead' /\ RowsTellHeld'
    BY RowsKept DEF ExtractionInv
  <1>2. OutputIsStored'
    BY DEF ExtractionInv, OutputIsStored, Outcomes, Attempts
  <1>3. FactsAreJudged'
    BY DEF ExtractionInv, FactsAreJudged, LateFromAnother, SameUpload
  <1>4. QED
    BY <1>1, <1>2, <1>3 DEF ExtractionInv

LEMMA InitExtraction == Init => Typed /\ ExtractionInv
  <1> SUFFICES ASSUME Init PROVE Typed /\ ExtractionInv
    OBVIOUS
  <1>1. MaxDamage \in Nat /\ MaxAttempts \in Nat
    BY ExtractionAssumption DEF ExtractionAssumption
  <1>2. Typed
    BY <1>1, FS_EmptySet DEF Init, Typed, States
  <1>3. HeldIsRead
    BY DEF Init, HeldIsRead
  <1>4. RowsTellHeld
    BY DEF Init, RowsTellHeld
  <1>5. OutputIsStored /\ FactsAreJudged
    BY DEF Init, OutputIsStored, Outcomes, FactsAreJudged
  <1>6. QED
    BY <1>2, <1>3, <1>4, <1>5 DEF ExtractionInv

\* Nothing was read yet from an object that is put under the key.
LEMMA PutStep ==
  ASSUME ExtractionInv, Upload \/ Overwrite
  PROVE  ExtractionInv'
  <1> USE DEF ExtractionInv
  <1>1. /\ uploads' = uploads + 1
        /\ UNCHANGED <<attempt, held, seen, current, rows, outcome, output, facts>>
    BY DEF Upload, Overwrite
  <1>2. uploads' \in Nat /\ \A a \in Attempts : seen[a] < uploads' /\ seen[a] # uploads'
    BY <1>1 DEF HeldIsRead
  <1>3. HeldIsRead'
    BY <1>1, <1>2 DEF HeldIsRead, Attempts, Sound
  <1>4. RowsTellHeld'
    BY <1>1 DEF RowsTellHeld, RowType, Attempts
  <1>5. OutputIsStored'
    BY <1>1 DEF OutputIsStored, Attempts, Outcomes
  <1>6. FactsAreJudged'
    BY <1>1 DEF FactsAreJudged, LateFromAnother, SameUpload
  <1>7. QED
    BY <1>3, <1>4, <1>5, <1>6

\* An attempt that holds nothing has stored nothing, so that what is read now
\* contradicts no row, and is what everybody reads from the object.
LEMMA ReadStep ==
  ASSUME ExtractionInv, NEW a \in Attempts, Read(a)
  PROVE  ExtractionInv'
  <1> USE DEF ExtractionInv
  <1>1. ExtractIdDocument' = ExtractIdDocument
    BY SameReading DEF Read
  <1>2. PICK r \in ExtractIdDocument : held' = [held EXCEPT ![a] = {r}]
    BY DEF Read
  <1>3. /\ seen' = [seen EXCEPT ![a] = uploads] /\ held[a] = {}
        /\ uploads > 0 /\ UNCHANGED <<object, attempt, current, rows, outcome, output, facts>>
    BY DEF Read
  <1>4. Sound(r) /\ (r.method = "mrz" => \A s \in ExtractIdDocument : s = r)
    BY ReadingResults DEF Sound
  <1>5. \A s \in ExtractIdDocument : s.method = "mrz" => s = r
    BY ReadingResults
  <1>6. /\ uploads' = uploads /\ uploads \in Nat /\ seen' \in [Attempts -> Nat]
        /\ held' = [b \in Attempts |-> held'[b]]
        /\ held'[a] = {r} /\ seen'[a] = uploads
        /\ \A b \in Attempts : b # a => held'[b] = held[b] /\ seen'[b] = seen[b]
    BY <1>2, <1>3 DEF HeldIsRead, object
  <1>7. HeldIsRead'
    <2>1. \A b \in Attempts :
            /\ seen'[b] <= uploads
            /\ seen'[b] = 0 => held'[b] = {}
            /\ seen'[b] = uploads => held'[b] \subseteq ExtractIdDocument
            /\ \A s \in held'[b] : Sound(s) /\ \A t \in held'[b] : s = t
      BY <1>3, <1>4, <1>6 DEF HeldIsRead
    <2>2. ASSUME NEW b \in Attempts, NEW c \in Attempts, seen'[b] = seen'[c],
                 NEW s \in held'[b], NEW t \in held'[c], s.method = "mrz"
          PROVE  t = s
      <3>1. CASE b # a /\ c # a
        BY <1>6, <2>2, <3>1 DEF HeldIsRead
      <3>2. CASE b = a \/ c = a
        <4>1. s \in ExtractIdDocument /\ t \in ExtractIdDocument
          BY <1>6, <2>1, <2>2, <3>2
        <4>2. QED
          BY <2>2, <4>1, ReadingResults
      <3>3. QED
        BY <3>1, <3>2
    <2>3. QED
      BY <1>1, <1>6, <2>1, <2>2 DEF HeldIsRead, Attempts, Sound
  <1>8. \A k \in DOMAIN rows : rows[k].by # a /\ rows[k].by \in Attempts
    BY <1>3, RowsAre DEF RowsTellHeld
  <1>9. \A k \in DOMAIN rows : /\ held'[rows[k].by] = held[rows[k].by]
                               /\ seen'[rows[k].by] = seen[rows[k].by]
    BY <1>6, <1>8
  <1>10. RowsTellHeld'
    <2>1. \A b \in Attempts : held[b] \subseteq held'[b]
      BY <1>3, <1>6
    <2>2. \A row \in RowType : row \in RowType'
      BY <2>1 DEF RowType, Attempts
    <2>3. rows \in Seq(RowType')
      <3>1. rows \in Seq(RowType) /\ \A k \in 1..Len(rows) : rows[k] \in RowType'
        BY <2>2, RowsAre DEF RowsTellHeld
      <3> HIDE DEF ExtractionInv
      <3>2. QED
        BY <3>1, SeqMonotonic
    <2>4. QED
      BY <1>3, <1>9, <2>3 DEF RowsTellHeld
  <1>11. OutputIsStored'
    BY <1>3, <1>9 DEF OutputIsStored, Outcomes, Attempts
  <1>12. FactsAreJudged'
    <2>1. outcome = "scored" => \E j \in DOMAIN rows : rows[j].by = current
      BY DEF OutputIsStored
    <2>2. outcome = "scored" => seen'[current] = seen[current]
      BY <1>9, <2>1
    <2>3. QED
      BY <1>3, <1>9, <2>2 DEF FactsAreJudged, LateFromAnother, SameUpload
  <1>13. QED
    BY <1>7, <1>10, <1>11, <1>12

\* The new row is the attempt's first and tells what it holds.
LEMMA InsertStep ==
  ASSUME ExtractionInv, NEW a \in Attempts, Insert(a)
  PROVE  ExtractionInv'
  <1> USE DEF ExtractionInv
  <1>1. ExtractIdDocument' = ExtractIdDocument
    BY SameReading DEF Insert
  <1>2. PICK r \in held[a], id \in Attempts :
          rows' = Append(rows, [id |-> id, by |-> a, document |-> r.document,
                                method |-> r.method, valid |-> ~r.needsReview])
    BY DEF Insert
  <1> DEFINE row == [id |-> id, by |-> a, document |-> r.document,
                     method |-> r.method, valid |-> ~r.needsReview]
  <1>3. row \in RowType
    <2>1. r.method \in {"mrz", "vlm"} /\ r.needsReview \in BOOLEAN
      BY DEF HeldIsRead, Sound
    <2>2. QED
      BY <2>1 DEF RowType
  <1>4. row.by = a /\ row.document = r.document /\ row.valid = ~r.needsReview
    OBVIOUS
  <1> HIDE DEF row
  <1>5. /\ rows \in Seq(RowType) /\ rows' \in Seq(RowType) /\ DOMAIN rows' = 1..(Len(rows) + 1)
        /\ DOMAIN rows = 1..Len(rows) /\ Len(rows) \in Nat
        /\ \A k \in DOMAIN rows : rows'[k] = rows[k]
        /\ rows'[Len(rows) + 1] = row
    <2>1. rows' = Append(rows, row)
      BY <1>2 DEF row
    <2>2. rows \in Seq(RowType)
      BY DEF RowsTellHeld
    <2> HIDE DEF ExtractionInv
    <2>3. QED
      BY <1>3, <2>1, <2>2
  <1>6. /\ UNCHANGED <<object, attempt, held, seen, current, outcome, output, facts>>
        /\ \A k \in DOMAIN rows : rows[k].by # a
    BY DEF Insert
  <1>7. RowType' = RowType
    BY <1>6 DEF RowType, Attempts
  <1>8. RowsTellHeld'
    <2>1. \A k \in DOMAIN rows' : \E s \in held'[rows'[k].by] :
            rows'[k].document = s.document /\ rows'[k].valid = ~s.needsReview
      BY <1>4, <1>5, <1>6 DEF RowsTellHeld
    <2>2. \A j, k \in DOMAIN rows' : rows'[j].by = rows'[k].by => j = k
      BY <1>4, <1>5, <1>6 DEF RowsTellHeld
    <2>3. QED
      BY <1>5, <1>7, <2>1, <2>2 DEF RowsTellHeld
  <1>9. HeldIsRead'
    BY <1>1, <1>6 DEF HeldIsRead, Attempts, Sound, object
  <1>10. \A k \in DOMAIN rows : k \in DOMAIN rows' /\ rows'[k] = rows[k]
    BY <1>5
  <1>11. OutputIsStored'
    BY <1>6, <1>10 DEF OutputIsStored, Outcomes, Attempts
  <1>12. FactsAreJudged'
    <2>1. \A k \in DOMAIN rows : LateFromAnother(k) => LateFromAnother(k)'
      BY <1>6, <1>10 DEF LateFromAnother, SameUpload
    <2>2. QED
      BY <1>6, <1>10, <2>1 DEF FactsAreJudged
  <1>13. QED
    BY <1>8, <1>9, <1>11, <1>12

\* The result that Temporal takes is that of the attempt it waits for, whose row
\* is there.
LEMMA CompleteStep ==
  ASSUME ExtractionInv, Typed, NEW a \in Attempts, Complete(a)
  PROVE  ExtractionInv'
  <1> USE DEF ExtractionInv
  <1>1. UNCHANGED <<object, held, seen, current, rows, facts>>
    BY DEF Complete
  <1>2. HeldIsRead' /\ RowsTellHeld'
    BY <1>1, RowsKept
  <1>3. \A b \in Attempts : attempt'[b] = "running" => attempt[b] = "running"
    BY DEF Complete, Typed
  <1>4. CASE attempt[a] = "running"
    <2>1. outcome' = "extracted" /\ output' = held[a] /\ a = current
      BY <1>4 DEF Complete, OutputIsStored
    <2>2. PICK k \in DOMAIN rows : rows[k].by = a
      BY DEF Complete
    <2>3. OutputIsStored'
      BY <1>1, <1>3, <2>1, <2>2 DEF OutputIsStored, Outcomes, Attempts
    <2>4. FactsAreJudged'
      BY <1>1, <2>1 DEF FactsAreJudged
    <2>5. QED
      BY <1>2, <2>3, <2>4
  <1>5. CASE attempt[a] # "running"
    <2>1. UNCHANGED <<outcome, output>>
      BY <1>5 DEF Complete
    <2>2. OutputIsStored'
      BY <1>1, <1>3, <2>1 DEF OutputIsStored, Outcomes, Attempts
    <2>3. FactsAreJudged'
      BY <1>1, <2>1 DEF FactsAreJudged, LateFromAnother, SameUpload
    <2>4. QED
      BY <1>2, <2>2, <2>3
  <1>6. QED
    BY <1>4, <1>5

\* A workflow that gives up knows no result.
LEMMA GiveUpStep ==
  ASSUME ExtractionInv, GiveUp
  PROVE  ExtractionInv'
  <1>1. /\ UNCHANGED <<object, attempt, held, seen, current, rows, facts, output>>
        /\ output = {} /\ outcome' = "gave up"
    BY DEF GiveUp, OutputIsStored, ExtractionInv
  <1>2. HeldIsRead' /\ RowsTellHeld'
    BY <1>1, RowsKept DEF ExtractionInv
  <1>3. QED
    BY <1>1, <1>2 DEF ExtractionInv, OutputIsStored, FactsAreJudged, Outcomes, Attempts

\* A nonempty set of places in a sequence has a last one.
LEMMA LastPlace ==
  ASSUME NEW n \in Nat, NEW S, S \subseteq 1..n, S # {}
  PROVE  \E k \in S : \A j \in S : j <= k
  <1> DEFINE T == {n - k : k \in S}
  <1>1. T \subseteq Nat /\ T # {}
    <2>1. \A k \in S : n - k \in Nat
      OBVIOUS
    <2>2. PICK k \in S : TRUE
      OBVIOUS
    <2>3. n - k \in T
      BY <2>2
    <2>4. QED
      BY <2>1, <2>3
  <1>2. Min(T) \in T /\ \A t \in T : Min(T) <= t
    BY <1>1, LeastNatural
  <1>3. PICK k \in S : Min(T) = n - k
    BY <1>2
  <1>4. \A j \in S : n - k <= n - j
    BY <1>2, <1>3
  <1>5. QED
    BY <1>4

\* The one row the policy reads, the last valid one, of which there is one if a row
\* is valid.
LEMMA PolicyReads ==
  ASSUME rows \in Seq(RowType)
  PROVE  /\ \A p, q \in PolicyRows : p = q
         /\ \A p \in PolicyRows : \E k \in DOMAIN rows :
              /\ rows[k].valid /\ p = rows[k]
              /\ \A j \in DOMAIN rows : rows[j].valid => j <= k
         /\ (\E k \in DOMAIN rows : rows[k].valid) => PolicyRows # {}
  <1> DEFINE valid == {k \in DOMAIN rows : rows[k].valid}
             newest == {k \in valid : \A j \in valid : j <= k}
  <1>1. Len(rows) \in Nat /\ valid \subseteq 1..Len(rows)
    OBVIOUS
  <1>2. PolicyRows = {rows[k] : k \in newest}
    BY DEF PolicyRows
  <1>3. \A j, k \in newest : j = k
    BY <1>1
  <1>4. valid # {} => newest # {}
    <2> HIDE DEF valid
    <2> QED
      BY <1>1, LastPlace
  <1>5. \A k \in newest : /\ k \in DOMAIN rows /\ rows[k].valid
                          /\ \A j \in DOMAIN rows : rows[j].valid => j <= k
    OBVIOUS
  <1>6. (\E k \in DOMAIN rows : rows[k].valid) => newest # {}
    BY <1>4
  <1> HIDE DEF newest, valid
  <1>7. QED
    BY <1>2, <1>3, <1>5, <1>6

\* A case is judged once its workflow has a result that needs no review, the row
\* of which is valid: the policy finds that row or a valid one behind it, and the
\* document in it.
LEMMA ScoreStep ==
  ASSUME ExtractionInv, Score
  PROVE  ExtractionInv'
  <1> USE DEF ExtractionInv
  <1>1. ExtractIdDocument' = ExtractIdDocument
    BY SameReading DEF Score
  <1>2. /\ UNCHANGED <<object, attempt, held, seen, current, rows, output>>
        /\ outcome' = "scored" /\ outcome = "extracted"
    BY DEF Score
  <1>3. HeldIsRead' /\ RowsTellHeld'
    BY <1>2, RowsKept
  <1>4. OutputIsStored'
    BY <1>2 DEF OutputIsStored, Outcomes, Attempts
  <1>5. \A k \in DOMAIN rows :
          /\ \A d, e \in rows[k].document : d = e
          /\ rows[k].valid => rows[k].document # {}
    <2>1. \A k \in DOMAIN rows : \E r \in held[rows[k].by] : Sound(r) /\
            rows[k].document = r.document /\ rows[k].valid = ~r.needsReview
      BY RowsAre DEF RowsTellHeld, HeldIsRead
    <2>2. QED
      BY <2>1 DEF Sound
  <1>6. PICK j \in DOMAIN rows : rows[j].by = current /\ output = held[current]
    BY <1>2 DEF OutputIsStored
  <1>7. rows[j].valid
    <2>1. PICK r \in held[current] : rows[j].valid = ~r.needsReview
      BY <1>6 DEF RowsTellHeld
    <2>2. QED
      BY <1>6, <2>1 DEF Score
  <1>8. PICK p \in PolicyRows : TRUE
    BY <1>7, PolicyReads DEF RowsTellHeld
  <1>9. PolicyRows = {p}
    BY <1>8, PolicyReads DEF RowsTellHeld
  <1>10. PICK k \in DOMAIN rows : rows[k].valid /\ p = rows[k] /\ j <= k
    BY <1>7, <1>8, PolicyReads DEF RowsTellHeld
  <1>11. facts' = rows[k].document
    BY <1>9, <1>10 DEF Score
  <1>12. facts' # {} /\ \A d, e \in facts' : d = e
    BY <1>5, <1>10, <1>11
  <1>13. ASSUME NEW r \in output, r.method = "mrz"
         PROVE  facts' = r.document \/ LateFromAnother(k)'
    <2>1. CASE SameUpload(k)
      BY <1>11, <1>13, <2>1, HeldAgree
    <2>2. CASE ~SameUpload(k)
      <3>1. j < k
        <4>1. j \in Nat /\ k \in Nat
          BY RowsAre
        <4>2. j # k
          BY <1>6, <2>2 DEF SameUpload
        <4>3. QED
          BY <1>10, <4>1, <4>2
      <3>2. QED
        BY <1>2, <1>6, <2>2, <3>1 DEF LateFromAnother, SameUpload
    <2>3. QED
      BY <2>1, <2>2
  <1>14. FactsAreJudged'
    BY <1>2, <1>11, <1>12, <1>13 DEF FactsAreJudged
  <1>15. QED
    BY <1>3, <1>4, <1>14

\* Every step keeps the one document of a photograph.
LEMMA ExtractionNext == ExtractionInv /\ Typed /\ [Next]_vars => ExtractionInv'
  <1> SUFFICES ASSUME ExtractionInv, Typed, [Next]_vars PROVE ExtractionInv'
    OBVIOUS
  <1>0. \A a \in Attempts : attempt[a] = "running" => a = current
    BY DEF ExtractionInv, OutputIsStored
  <1>1. CASE Misread \/ UNCHANGED vars
    BY <1>0, <1>1, QuietStep DEF Misread, vars, Attempts
  <1>2. CASE Schedule
    <2>1. \A a \in Attempts : attempt[a] # "running"
      BY <1>0, <1>2 DEF Schedule, CurrentIsOver, Attempts
    <2>2. \A a \in Attempts : attempt'[a] = "running" => a = current'
      BY <1>2, <2>1 DEF Schedule, Typed
    <2>3. QED
      BY <1>2, <2>2, QuietStep DEF Schedule
  <1>3. ASSUME NEW a \in Attempts, TimeOut(a) \/ WorkerDies(a) \/ AttemptFails(a)
        PROVE  ExtractionInv'
    <2>1. \A b \in Attempts : attempt'[b] = "running" => attempt[b] = "running"
      BY <1>3 DEF TimeOut, WorkerDies, AttemptFails, Typed
    <2>2. QED
      BY <1>0, <1>3, <2>1, QuietStep DEF TimeOut, WorkerDies, AttemptFails
  <1>4. QED
    BY <1>1, <1>2, <1>3, PutStep, GiveUpStep, ScoreStep, ReadStep, InsertStep, CompleteStep
       DEF Next

-------------------------------------------------------------------------------
(* The page and the attempts *)

\* What a character is read as is a character of the zone.
LEMMA MisreadAsMrz == \A c : LookAlikes(c) \cup Slips(c) \subseteq MrzChar
  <1> TAKE c
  <1>1. \A k \in 1..10 : Digits[k] \in MrzChar
    BY DEF MrzChar, Digit, Digits, ToSet
  <1>2. \A k \in 1..26 : Letters[k] \in MrzChar
    BY DEF MrzChar, Letter, Letters, ToSet
  <1>3. Slips(c) \subseteq MrzChar
    BY <1>1 DEF Slips
  <1>4. {"0", "1", "5", "8"} \subseteq MrzChar
    BY <1>1 DEF Digits
  <1>5. {"B", "D", "G", "I", "K", "L"} \subseteq MrzChar
    BY <1>2 DEF Letters
  <1>6. {"O", "Q", "S", "T", "U", "Z"} \subseteq MrzChar
    BY <1>2 DEF Letters
  <1>7. LookAlikes(c) \subseteq {"0", "1", "5", "8"} \cup {"B", "D", "G", "I", "K", "L"}
                                  \cup {"O", "Q", "S", "T", "U", "Z"}
    BY DEF LookAlikes
  <1>8. QED
    BY <1>3, <1>4, <1>5, <1>6, <1>7

\* A page takes no more damage than the bound, one character at a time.
LEMMA MisreadTyped ==
  ASSUME Typed, Misread
  PROVE  /\ IsFiniteSet(misread') /\ Cardinality(misread') <= MaxDamage
         /\ \A m \in misread' : <<m.line, m.at>> \in MisreadAt /\ m.as \in MrzChar
  <1>1. MaxDamage \in Nat /\ MisreadAt \subseteq (1..2) \X (1..LineLength)
    BY ExtractionAssumption DEF ExtractionAssumption
  <1>2. PICK p \in MisreadAt :
          \E as \in LookAlikes(BuildTd3(identity)[p[1]][p[2]])
                      \cup Slips(BuildTd3(identity)[p[1]][p[2]]) :
            misread' = misread \cup {[line |-> p[1], at |-> p[2], as |-> as]}
    BY DEF Misread
  <1>3. PICK as \in MrzChar : misread' = misread \cup {[line |-> p[1], at |-> p[2], as |-> as]}
    BY <1>2, MisreadAsMrz
  <1> DEFINE m == [line |-> p[1], at |-> p[2], as |-> as]
  <1>4. <<m.line, m.at>> \in MisreadAt /\ m.as \in MrzChar
    <2>1. m.line = p[1] /\ m.at = p[2] /\ m.as = as
      OBVIOUS
    <2>2. p = <<p[1], p[2]>>
      BY <1>1
    <2>3. QED
      BY <2>1, <2>2
  <1>5. Cardinality(misread) \in Nat /\ Cardinality(misread) < MaxDamage
    BY FS_CardinalityType DEF Typed, Misread
  <1> HIDE DEF m
  <1>6. IsFiniteSet(misread \cup {m}) /\ Cardinality(misread \cup {m}) <= Cardinality(misread) + 1
    BY <1>5, FS_AddElement DEF Typed
  <1>7. misread' = misread \cup {m}
    BY <1>3 DEF m
  <1>8. IsFiniteSet(misread') /\ Cardinality(misread') <= MaxDamage
    <2>1. Cardinality(misread \cup {m}) \in Nat
      BY <1>6, FS_CardinalityType
    <2>2. QED
      BY <1>1, <1>5, <1>6, <1>7, <2>1
  <1>9. \A n \in misread' : <<n.line, n.at>> \in MisreadAt /\ n.as \in MrzChar
    BY <1>4, <1>7 DEF Typed
  <1>10. QED
    BY <1>8, <1>9

\* Every step keeps the page and the attempts well typed.
LEMMA TypedNext == Typed /\ [Next]_vars => Typed'
  <1> SUFFICES ASSUME Typed, [Next]_vars PROVE Typed'
    OBVIOUS
  <1>1. MaxAttempts \in Nat /\ 1 <= MaxAttempts
    BY ExtractionAssumption DEF ExtractionAssumption
  <1>2. CASE Misread
    BY <1>2, MisreadTyped DEF Misread, Typed, Attempts, object
  <1>3. CASE Upload \/ Overwrite \/ GiveUp \/ Score \/ UNCHANGED vars
    <2>1. shown' \in Identities
      BY <1>3, ExtractionAssumption
         DEF Upload, Overwrite, GiveUp, Score, vars, object, Typed, ExtractionAssumption
    <2>2. UNCHANGED <<identity, misread, attempt, current>>
      BY <1>3 DEF Upload, Overwrite, GiveUp, Score, vars
    <2>3. QED
      BY <2>1, <2>2 DEF Typed, Attempts
  <1>4. CASE Schedule
    <2>1. current \in Nat /\ current < MaxAttempts
      <3>1. current \in Nat /\ current < AttemptsAllowed
        BY <1>1, <1>4 DEF Schedule, Typed
      <3>2. AttemptsAllowed \in Nat /\ AttemptsAllowed <= MaxAttempts
        BY <1>1 DEF AttemptsAllowed
      <3>3. QED
        BY <1>1, <3>1, <3>2
    <2>2. current + 1 \in Attempts /\ current' \in 0..MaxAttempts
      BY <1>1, <1>4, <2>1 DEF Schedule, Attempts
    <2>3. attempt' \in [Attempts -> States]
      BY <1>4, <2>2 DEF Schedule, Typed, States
    <2>4. QED
      BY <1>4, <2>2, <2>3 DEF Schedule, Typed, Attempts, object
  <1>5. ASSUME NEW a \in Attempts,
               \/ TimeOut(a) \/ WorkerDies(a) \/ AttemptFails(a)
               \/ Read(a) \/ Insert(a) \/ Complete(a)
        PROVE  Typed'
    <2>1. UNCHANGED <<identity, misread, shown, current>>
      BY <1>5 DEF TimeOut, WorkerDies, AttemptFails, Read, Insert, Complete, object
    <2>2. attempt' \in [Attempts -> States]
      BY <1>5 DEF TimeOut, WorkerDies, AttemptFails, Read, Insert, Complete, Typed, States
    <2>3. QED
      BY <2>1, <2>2 DEF Typed, Attempts
  <1>6. QED
    BY <1>2, <1>3, <1>4, <1>5 DEF Next

-------------------------------------------------------------------------------
(* Check digits *)

\* A running total exists, whatever is summed: no length is the first to lack one.
LEMMA RunningTotal ==
  ASSUME NEW w, NEW n \in Nat
  PROVE  \E f : f = [k \in 0..n |-> IF k = 0 THEN 0 ELSE f[k - 1] + w[k]]
  <1> DEFINE Has(m) == \E f : f = [k \in 0..m |-> IF k = 0 THEN 0 ELSE f[k - 1] + w[k]]
             lacking == {m \in Nat : ~Has(m)}
  <1>1. ASSUME lacking # {} PROVE FALSE
    <2> DEFINE m == Min(lacking)
    <2>1. m \in lacking /\ \A k \in lacking : m <= k
      <3> HIDE DEF Has
      <3> QED BY <1>1, LeastNatural
    <2> HIDE DEF m
    <2>2. CASE m = 0
      <3>1. [k \in 0..0 |-> 0] = [k \in 0..0 |-> IF k = 0 THEN 0 ELSE [j \in 0..0 |-> 0][k - 1] + w[k]]
        OBVIOUS
      <3>2. QED BY <2>1, <2>2, <3>1
    <2>3. CASE m # 0
      <3>1. m - 1 \in Nat /\ Has(m - 1)
        <4>1. m - 1 \in Nat /\ m - 1 \notin lacking
          <5> HIDE DEF Has
          <5> QED BY <2>1, <2>3
        <4> HIDE DEF Has
        <4>2. QED BY <4>1
      <3>2. PICK g : g = [k \in 0..(m - 1) |-> IF k = 0 THEN 0 ELSE g[k - 1] + w[k]]
        BY <3>1
      <3> DEFINE f == [k \in 0..m |-> IF k = m THEN g[m - 1] + w[m] ELSE g[k]]
      <3>3. \A k \in 0..m : f[k] = IF k = 0 THEN 0 ELSE f[k - 1] + w[k]
        BY <2>1, <2>3, <3>2
      <3>4. f = [k \in 0..m |-> IF k = 0 THEN 0 ELSE f[k - 1] + w[k]]
        BY <3>3
      <3>5. QED BY <2>1, <3>4
    <2>4. QED BY <2>2, <2>3
  <1>2. QED BY <1>1

\* Sums is a running total.
LEMMA SumsAre ==
  ASSUME NEW s \in Seq(MrzChar)
  PROVE  /\ Sums(s)[0] = 0
         /\ \A n \in 1..Len(s) : Sums(s)[n] = Sums(s)[n - 1] + CharValue[s[n]] * Weight[((n - 1) % 3) + 1]
  <1> DEFINE w == [n \in 1..Len(s) |-> CharValue[s[n]] * Weight[((n - 1) % 3) + 1]]
  <1>1. PICK f : f = [n \in 0..Len(s) |-> IF n = 0 THEN 0 ELSE f[n - 1] + w[n]]
    <2>1. Len(s) \in Nat
      OBVIOUS
    <2> HIDE DEF w
    <2>2. QED BY <2>1, RunningTotal
  <1>2. f = [n \in 0..Len(s) |-> IF n = 0 THEN 0
                ELSE f[n - 1] + CharValue[s[n]] * Weight[((n - 1) % 3) + 1]]
    <2>1. Len(s) \in Nat
      OBVIOUS
    <2>2. \A n \in 1..Len(s) : w[n] = CharValue[s[n]] * Weight[((n - 1) % 3) + 1]
      OBVIOUS
    <2>3. \A n \in 0..Len(s) : n # 0 => n \in 1..Len(s)
      BY <2>1
    <2> HIDE DEF w
    <2>4. QED BY <1>1, <2>2, <2>3
  <1>3. Sums(s) = [n \in 0..Len(s) |-> IF n = 0 THEN 0
                     ELSE Sums(s)[n - 1] + CharValue[s[n]] * Weight[((n - 1) % 3) + 1]]
    BY <1>2 DEF Sums
  <1>4. Len(s) \in Nat
    OBVIOUS
  <1> DEFINE F == Sums(s)
  <1>5. F = [n \in 0..Len(s) |-> IF n = 0 THEN 0
                     ELSE F[n - 1] + CharValue[s[n]] * Weight[((n - 1) % 3) + 1]]
    BY <1>3
  <1> HIDE DEF F
  <1>6. F[0] = 0 /\ \A n \in 1..Len(s) : F[n] = F[n - 1] + CharValue[s[n]] * Weight[((n - 1) % 3) + 1]
    <2>1. 0 \in 0..Len(s) /\ \A n \in 1..Len(s) : n \in 0..Len(s) /\ n # 0
      BY <1>4
    <2>2. QED BY <1>5, <2>1
  <1>7. QED BY <1>6 DEF F

\* The alphabet is the digits and then the letters.
LEMMA AlphabetIs ==
  /\ Len(Digits) = 10 /\ Len(Letters) = 26 /\ DOMAIN Alphabet = 1..36
  /\ \A i \in 1..36 : Alphabet[i] = IF i <= 10 THEN Digits[i] ELSE Letters[i - 10]
  <1> DEFINE T == Digit \cup Letter
  <1>1. Digits \in Seq(T) /\ Len(Digits) = 10 /\ Letters \in Seq(T) /\ Len(Letters) = 26
    <2>1. Digits \in [1..10 -> T] /\ Letters \in [1..26 -> T]
      <3>1. DOMAIN Digits = 1..10 /\ DOMAIN Letters = 1..26
        BY DEF Digits, Letters
      <3>2. Digits = [k \in 1..10 |-> Digits[k]] /\ Letters = [k \in 1..26 |-> Letters[k]]
        BY DEF Digits, Letters
      <3>3. (\A k \in 1..10 : Digits[k] \in T) /\ (\A k \in 1..26 : Letters[k] \in T)
        BY <3>1 DEF Digit, Letter, ToSet
      <3>4. QED
        BY <3>2, <3>3
    <2>2. Len(Digits) = 10 /\ Len(Letters) = 26
      BY DEF Digits, Letters
    <2>3. QED
      BY <2>1, <2>2, SeqDef
  <1>2. DOMAIN Alphabet = 1..36 /\ \A i \in 1..36 :
          Alphabet[i] = IF i <= 10 THEN Digits[i] ELSE Letters[i - 10]
    <2> HIDE DEF T
    <2>1. /\ Digits \o Letters \in Seq(T) /\ Len(Digits \o Letters) = Len(Digits) + Len(Letters)
          /\ \A i \in 1..Len(Digits) + Len(Letters) : (Digits \o Letters)[i] =
               IF i <= Len(Digits) THEN Digits[i] ELSE Letters[i - Len(Digits)]
      <3>1. Digits \in Seq(T) /\ Letters \in Seq(T)
        BY <1>1
      <3>2. QED
        BY <3>1, ConcatProperties
    <2>2. /\ Alphabet \in Seq(T) /\ Len(Alphabet) = 36
          /\ \A i \in 1..36 : Alphabet[i] = IF i <= 10 THEN Digits[i] ELSE Letters[i - 10]
      <3>1. Len(Digits) + Len(Letters) = 36 /\ Len(Digits) = 10
        BY <1>1
      <3>2. QED
        BY <2>1, <3>1 DEF Alphabet
    <2>3. QED
      BY <2>2
  <1>3. QED
    BY <1>1, <1>2

\* A character is worth 0 to 35.
LEMMA CharValues == \A c \in MrzChar : CharValue[c] \in 0..35
  <1> TAKE c \in MrzChar
  <1>1. CASE c = "<"
    BY <1>1 DEF CharValue
  <1>2. CASE c # "<"
    <2>1. Len(Digits) = 10 /\ Len(Letters) = 26
      BY AlphabetIs
    <2>2. DOMAIN Alphabet = 1..36 /\ \A i \in 1..36 :
            Alphabet[i] = IF i <= 10 THEN Digits[i] ELSE Letters[i - 10]
      BY AlphabetIs
    <2>3. \E k \in DOMAIN Alphabet : Alphabet[k] = c
      <3>1. CASE c \in Digit
        <4>1. PICK k \in 1..10 : Digits[k] = c
          BY <3>1, <2>1 DEF Digit, ToSet
        <4>2. QED
          BY <4>1, <2>2
      <3>2. CASE c \in Letter
        <4>1. PICK k \in 1..26 : Letters[k] = c
          BY <3>2, <2>1 DEF Letter, ToSet
        <4>2. k + 10 \in 1..36 /\ ~(k + 10 <= 10) /\ (k + 10) - 10 = k
          OBVIOUS
        <4>3. QED
          BY <4>1, <4>2, <2>2
      <3>3. QED
        BY <3>1, <3>2, <1>2 DEF MrzChar
    <2>4. (CHOOSE k \in DOMAIN Alphabet : Alphabet[k] = c) \in 1..36
      BY <2>2, <2>3
    <2>5. CharValue[c] = (CHOOSE k \in DOMAIN Alphabet : Alphabet[k] = c) - 1
      BY <1>2 DEF CharValue
    <2>6. QED
      BY <2>4, <2>5
  <1>3. QED
    BY <1>1, <1>2

\* So is a character of a line.
LEMMA ValueAt ==
  ASSUME NEW s \in Seq(MrzChar), NEW n \in 1..Len(s)
  PROVE  CharValue[s[n]] \in 0..35 /\ CharValue[s[n]] \in Nat
  <1>1. s[n] \in MrzChar
    BY ElementOfSeq
  <1>2. CharValue[s[n]] \in 0..35
    BY <1>1, CharValues
  <1>3. \A x \in 0..35 : x \in Nat
    OBVIOUS
  <1>4. QED
    BY <1>2, <1>3, Zenon

\* Every weight is 7, 3 or 1.
LEMMA Weights == \A n \in Nat \ {0} : Weight[((n - 1) % 3) + 1] \in {7, 3, 1}
  <1> TAKE n \in Nat \ {0}
  <1>1. ((n - 1) % 3) + 1 \in 1..3
    OBVIOUS
  <1>2. QED
    BY <1>1 DEF Weight

\* Sums are natural numbers, and a check digit is a digit.
LEMMA SumsAreNat ==
  ASSUME NEW s \in Seq(MrzChar)
  PROVE  (\A n \in 0..Len(s) : Sums(s)[n] \in Nat) /\ CheckDigit(s) \in 0..9
  <1> DEFINE odd == {n \in 0..Len(s) : Sums(s)[n] \notin Nat}
  <1>1. Len(s) \in Nat /\ odd \subseteq Nat
    OBVIOUS
  <1>2. ASSUME odd # {} PROVE FALSE
    <2> DEFINE m == Min(odd)
    <2>1. m \in odd /\ \A k \in odd : m <= k
      <3> HIDE DEF odd
      <3> QED BY <1>1, <1>2, LeastNatural
    <2> HIDE DEF m
    <2>2. m # 0
      BY <2>1, SumsAre
    <2>3. m \in 1..Len(s) /\ m - 1 \in 0..Len(s)
      BY <2>1, <2>2
    <2>4. Sums(s)[m - 1] \in Nat
      BY <2>1, <2>3
    <2>5. CharValue[s[m]] \in Nat
      BY <2>3, ValueAt
    <2>6. Weight[((m - 1) % 3) + 1] \in {7, 3, 1}
      BY <2>3, Weights
    <2>7. Sums(s)[m] = Sums(s)[m - 1] + CharValue[s[m]] * Weight[((m - 1) % 3) + 1]
      BY <2>3, SumsAre
    <2> DEFINE x == Sums(s)[m - 1]
               v == CharValue[s[m]]
               wt == Weight[((m - 1) % 3) + 1]
    <2>8. x + v * wt \in Nat
      <3>1. x \in Nat /\ v \in Nat /\ wt \in {7, 3, 1}
        BY <2>4, <2>5, <2>6
      <3> HIDE DEF x, v, wt
      <3>2. QED
        BY <3>1
    <2>9. QED
      BY <2>1, <2>7, <2>8
  <1>3. \A n \in 0..Len(s) : Sums(s)[n] \in Nat
    BY <1>2
  <1>4. Sums(s)[Len(s)] \in Nat
    BY <1>1, <1>3
  <1>5. QED
    BY <1>3, <1>4 DEF CheckDigit

\* Where two strings agree from the place after p on, their sums stay as far apart
\* as they are at p.
LEMMA SumsKeepApart ==
  ASSUME NEW s \in Seq(MrzChar), NEW t \in Seq(MrzChar), NEW p \in Nat, NEW q \in Nat,
         p <= q, q <= Len(s), q <= Len(t), \A k \in (p + 1)..q : s[k] = t[k]
  PROVE  \A n \in p..q : Sums(s)[n] - Sums(t)[n] = Sums(s)[p] - Sums(t)[p]
  <1> DEFINE apart == Sums(s)[p] - Sums(t)[p]
             wrong == {n \in p..q : Sums(s)[n] - Sums(t)[n] # apart}
  <1>1. wrong \subseteq Nat
    OBVIOUS
  <1>2. ASSUME wrong # {} PROVE FALSE
    <2> DEFINE m == Min(wrong)
    <2>1. m \in wrong /\ \A k \in wrong : m <= k
      <3> HIDE DEF wrong
      <3>1. QED
        BY <1>1, <1>2, LeastNatural
    <2> HIDE DEF m
    <2>2. m \in p..q /\ m # p
      BY <2>1
    <2>3. m \in 1..Len(s) /\ m \in 1..Len(t) /\ m \in (p + 1)..q /\ m - 1 \in p..q
      BY <2>2
    <2> DEFINE x == Sums(s)[m - 1]
               y == Sums(t)[m - 1]
               u == CharValue[s[m]]
               wt == Weight[((m - 1) % 3) + 1]
    <2>4. x - y = apart
      BY <2>1, <2>3
    <2>5. Sums(s)[m] = x + u * wt /\ Sums(t)[m] = y + u * wt
      BY <2>3, SumsAre
    <2>6. x \in Nat /\ y \in Nat
      BY <2>3, SumsAreNat
    <2>7. u \in Nat
      BY <2>3, ValueAt
    <2>8. wt \in {7, 3, 1}
      BY <2>3, Weights
    <2>9. (x + u * wt) - (y + u * wt) = x - y
      <3> HIDE DEF x, y, u, wt
      <3>1. QED
        BY <2>6, <2>7, <2>8
    <2>10. QED
      BY <2>1, <2>4, <2>5, <2>9
  <1>3. QED
    BY <1>2

\* Weights have no factor in common with 10: a check digit tells two strings that
\* differ in one place apart exactly when the two characters differ modulo 10.
LEMMA OneSubstitution ==
  ASSUME NEW s \in Seq(MrzChar), NEW t \in Seq(MrzChar), Len(s) = Len(t),
         NEW i \in 1..Len(s), \A k \in 1..Len(s) : k # i => s[k] = t[k]
  PROVE  CheckDigit(s) = CheckDigit(t) <=> CharValue[s[i]] % 10 = CharValue[t[i]] % 10
  <1> DEFINE n == Len(s)
             x == Sums(s)[n]
             y == Sums(t)[n]
             xi == Sums(s)[i]
             yi == Sums(t)[i]
             before == Sums(s)[i - 1]
             u == CharValue[s[i]]
             v == CharValue[t[i]]
             wt == Weight[((i - 1) % 3) + 1]
  <1>1. n \in Nat /\ i \in Nat /\ i - 1 \in Nat /\ i <= n /\ 0 <= i - 1
    OBVIOUS
  <1>2. Sums(s)[i - 1] - Sums(t)[i - 1] = 0
    <2>1. \A k \in (0 + 1)..(i - 1) : s[k] = t[k]
      OBVIOUS
    <2>2. \A k \in 0..(i - 1) : Sums(s)[k] - Sums(t)[k] = Sums(s)[0] - Sums(t)[0]
      BY <1>1, <2>1, SumsKeepApart
    <2>3. Sums(s)[0] = 0 /\ Sums(t)[0] = 0
      BY SumsAre
    <2>4. i - 1 \in 0..(i - 1)
      BY <1>1
    <2>5. QED
      BY <2>2, <2>3, <2>4
  <1>3. x - y = xi - yi
    <2>1. \A k \in (i + 1)..n : s[k] = t[k]
      BY <1>1
    <2>2. n <= Len(s) /\ n <= Len(t)
      BY <1>1
    <2>3. \A k \in i..n : Sums(s)[k] - Sums(t)[k] = Sums(s)[i] - Sums(t)[i]
      <3> HIDE DEF n
      <3>1. QED
        BY <1>1, <2>1, <2>2, SumsKeepApart
    <2>4. QED
      BY <1>1, <2>3
  <1>4. x \in Nat /\ y \in Nat /\ xi \in Nat /\ yi \in Nat /\ before \in Nat /\ Sums(t)[i - 1] \in Nat
    BY <1>1, SumsAreNat
  <1>5. xi = before + u * wt /\ yi = before + v * wt
    <2>1. Sums(t)[i - 1] = before
      BY <1>2, <1>4
    <2>2. QED
      BY <2>1, SumsAre
  <1>6. u \in 0..35 /\ v \in 0..35
    BY ValueAt
  <1>7. wt \in {7, 3, 1}
    BY Weights
  <1>8. CheckDigit(s) = x % 10 /\ CheckDigit(t) = y % 10
    BY DEF CheckDigit
  <1>9. x % 10 = y % 10 <=> u % 10 = v % 10
    <2> HIDE DEF n, x, y, xi, yi, before, u, v, wt
    <2>1. CASE wt = 1
      BY <2>1, <1>3, <1>4, <1>5, <1>6
    <2>2. CASE wt = 3
      BY <2>2, <1>3, <1>4, <1>5, <1>6
    <2>3. CASE wt = 7
      BY <2>3, <1>3, <1>4, <1>5, <1>6
    <2>4. QED
      BY <2>1, <2>2, <2>3, <1>7
  <1>10. QED
    BY <1>8, <1>9

-------------------------------------------------------------------------------
(* The lines *)

\* A line with filler in it has a longest run of filler, of which max() takes the
\* first: LongestRun is one of the line's runs.
LEMMA LongestRunIsOne ==
  ASSUME NEW line, NEW n \in Nat, DOMAIN line = 1..n, Len(line) = n,
         NEW i \in 1..n, line[i] = "<"
  PROVE  LongestRun(line) \in FillerRuns(line) /\ LongestRun(line)[2] \in 1..n
  <1> DEFINE starts == {k \in 1..n : line[k] = "<" /\ (k = 1 \/ line[k - 1] # "<")}
             RunEnd(k) == Max({j \in k..n : \A m \in k..j : line[m] = "<"})
  <1>1. FillerRuns(line) = {<<k, RunEnd(k)>> : k \in starts}
    BY DEF FillerRuns
  <1>2. starts # {}
    <2> DEFINE filler == {k \in 1..n : line[k] = "<"}
    <2>1. filler \subseteq Nat /\ filler # {}
      OBVIOUS
    <2>2. PICK f \in filler : \A k \in filler : f <= k
      <3> HIDE DEF filler
      <3>1. QED
        BY <2>1, LeastNatural
    <2>3. f # 1 => f - 1 \in 1..n /\ f - 1 \notin filler
      BY <2>2
    <2>4. f \in starts
      BY <2>2, <2>3
    <2>5. QED
      BY <2>4
  <1>3. \A k \in starts : RunEnd(k) \in k..n
    <2> SUFFICES ASSUME NEW k \in starts PROVE RunEnd(k) \in k..n
      OBVIOUS
    <2> DEFINE ends == {j \in k..n : \A m \in k..j : line[m] = "<"}
    <2>1. k \in ends /\ ends \subseteq 1..n /\ ends \subseteq k..n
      OBVIOUS
    <2>2. PICK e \in ends : \A j \in ends : j <= e
      <3> HIDE DEF ends, starts
      <3>1. QED
        BY <2>1, LastPlace
    <2>3. Max(ends) \in ends
      <3>1. \E x \in ends : \A y \in ends : x >= y
        BY <2>1, <2>2
      <3> HIDE DEF ends
      <3>2. QED
        BY <3>1 DEF Max
    <2>4. QED
      BY <2>1, <2>3
  <1> HIDE DEF RunEnd
  <1>4. \E k \in starts : \A j \in starts :
          \/ RunEnd(j) - j < RunEnd(k) - k
          \/ RunEnd(j) - j = RunEnd(k) - k /\ k <= j
    <2> DEFINE lengths == {(RunEnd(k) - k) + 1 : k \in starts}
    <2>1. lengths \subseteq 1..n /\ lengths # {}
      BY <1>2, <1>3
    <2>2. PICK longest \in lengths : \A x \in lengths : x <= longest
      <3> HIDE DEF lengths
      <3>1. QED
        BY <2>1, LastPlace
    <2> DEFINE first == {k \in starts : (RunEnd(k) - k) + 1 = longest}
    <2>3. first \subseteq Nat /\ first # {}
      BY <2>2
    <2>4. PICK k \in first : \A j \in first : k <= j
      <3> HIDE DEF first
      <3>1. QED
        BY <2>3, LeastNatural
    <2>5. \A j \in starts : (RunEnd(j) - j) + 1 <= longest
      BY <2>2
    <2>6. \A j \in starts : RunEnd(j) \in Nat /\ j \in Nat
      BY <1>3
    <2>7. ASSUME NEW j \in starts
          PROVE  \/ RunEnd(j) - j < RunEnd(k) - k
                 \/ RunEnd(j) - j = RunEnd(k) - k /\ k <= j
      <3>1. (RunEnd(j) - j) + 1 <= (RunEnd(k) - k) + 1 /\ RunEnd(j) \in Nat /\ j \in Nat
              /\ RunEnd(k) \in Nat /\ k \in Nat
        BY <2>4, <2>5, <2>6
      <3>2. RunEnd(j) - j = RunEnd(k) - k => k <= j
        BY <2>4
      <3> HIDE DEF starts, first, lengths
      <3>3. QED
        BY <3>1, <3>2
    <2>8. QED
      BY <2>4, <2>7
  <1>5. \E r \in FillerRuns(line) : \A q \in FillerRuns(line) :
          \/ q[2] - q[1] < r[2] - r[1]
          \/ q[2] - q[1] = r[2] - r[1] /\ r[1] <= q[1]
    <2>1. PICK k \in starts : \A j \in starts :
            \/ RunEnd(j) - j < RunEnd(k) - k
            \/ RunEnd(j) - j = RunEnd(k) - k /\ k <= j
      BY <1>4
    <2> DEFINE r == <<k, RunEnd(k)>>
    <2>2. ASSUME NEW q \in FillerRuns(line)
          PROVE  \/ q[2] - q[1] < r[2] - r[1]
                 \/ q[2] - q[1] = r[2] - r[1] /\ r[1] <= q[1]
      <3>1. PICK j \in starts : q = <<j, RunEnd(j)>>
        BY <1>1
      <3>2. q[1] = j /\ q[2] = RunEnd(j) /\ r[1] = k /\ r[2] = RunEnd(k)
        BY <3>1
      <3> HIDE DEF starts, r
      <3>3. QED
        BY <2>1, <3>2
    <2>3. r \in FillerRuns(line)
      BY <1>1
    <2> HIDE DEF r
    <2>4. QED
      BY <2>2, <2>3
  <1>6. LongestRun(line) \in FillerRuns(line)
    BY <1>5 DEF LongestRun
  <1>7. \A r \in FillerRuns(line) : r[2] \in 1..n
    BY <1>1, <1>3
  <1>8. QED
    BY <1>6, <1>7

\* What is cut from a line of the zone is of the zone.
LEMMA Cut ==
  ASSUME NEW s \in Seq(MrzChar), NEW m \in Nat \ {0}, NEW n \in Nat, n <= Len(s), m <= n + 1
  PROVE  /\ SubSeq(s, m, n) \in Seq(MrzChar) /\ Len(SubSeq(s, m, n)) = n - m + 1
         /\ \A i \in 1..(n - m + 1) : SubSeq(s, m, n)[i] = s[m + i - 1]
  <1>1. m \in Int /\ n \in Int /\ \A i \in m..n : s[i] \in MrzChar
    <2>1. \A i \in m..n : i \in 1..Len(s)
      OBVIOUS
    <2>2. QED
      BY <2>1, ElementOfSeq
  <1>2. /\ SubSeq(s, m, n) \in Seq(MrzChar)
        /\ Len(SubSeq(s, m, n)) = IF m <= n THEN n - m + 1 ELSE 0
        /\ \A i \in 1..(n - m + 1) : SubSeq(s, m, n)[i] = s[m + i - 1]
    BY <1>1, SubSeqProperties
  <1>3. QED
    BY <1>2

\* Filler(n) is n characters of the zone.
LEMMA FillerIs ==
  ASSUME NEW n \in Nat
  PROVE  Filler(n) \in Seq(MrzChar) /\ Len(Filler(n)) = n
  <1>1. Filler(n) \in [1..n -> MrzChar]
    BY DEF Filler, MrzChar
  <1>2. Filler(n) \in Seq(MrzChar)
    BY <1>1, SeqDef
  <1>3. QED
    BY <1>1, <1>2

\* However long the line that was read, fit_filler (mrz.py) gives one of 44
\* characters of the zone, and a line that has 44 is kept as it is: the fixed
\* positions of the fields are then always there to be cut.
THEOREM FitFillerFits ==
  ASSUME NEW line \in Seq(MrzChar)
  PROVE  /\ FitFiller(line) \in Seq(MrzChar) /\ Len(FitFiller(line)) = 44
         /\ Len(line) = 44 => FitFiller(line) = line
  <1>1. Len(line) \in Nat /\ DOMAIN line = 1..Len(line)
    OBVIOUS
  <1>2. CASE Len(line) >= 44
    <2>1. FitFiller(line) = SubSeq(line, 1, 44)
      BY <1>2 DEF FitFiller, LineLength
    <2>2. SubSeq(line, 1, 44) \in Seq(MrzChar) /\ Len(SubSeq(line, 1, 44)) = 44
      <3>1. 44 \in Nat /\ 1 \in Nat \ {0} /\ 44 <= Len(line) /\ 1 <= 44 + 1 /\ 44 - 1 + 1 = 44
        BY <1>1, <1>2
      <3> DEFINE n == 44
      <3>2. n \in Nat /\ n <= Len(line) /\ 1 <= n + 1 /\ 1 \in Nat \ {0}
        BY <3>1
      <3>4. SubSeq(line, 1, n) \in Seq(MrzChar) /\ Len(SubSeq(line, 1, n)) = n - 1 + 1
        <4> HIDE DEF n
        <4>1. QED
          BY <3>2, Cut, Zenon
      <3>3. QED
        BY <3>1, <3>4
    <2>3. Len(line) = 44 => SubSeq(line, 1, 44) = line
      BY SubSeqFull
    <2>4. QED
      BY <2>1, <2>2, <2>3
  <1>3. CASE Len(line) < 44
    <2> DEFINE missing == Filler(44 - Len(line))
    <2>1. missing \in Seq(MrzChar) /\ Len(missing) = 44 - Len(line)
      <3>1. 44 - Len(line) \in Nat
        BY <1>1, <1>3
      <3>2. QED
        BY <3>1, FillerIs
    <2>2. CASE ToSet(line) \cap {"<"} = {}
      <3>1. FitFiller(line) = line \o missing
        BY <1>1, <1>3, <2>2 DEF FitFiller, LineLength
      <3> HIDE DEF missing
      <3>2. line \o missing \in Seq(MrzChar) /\ Len(line \o missing) = Len(line) + Len(missing)
        BY <2>1, ConcatProperties
      <3>3. Len(line) + (44 - Len(line)) = 44 /\ Len(line) # 44
        <4>1. \A x \in Nat : x < 44 => x + (44 - x) = 44 /\ x # 44
          OBVIOUS
        <4>2. QED
          BY <1>1, <1>3, <4>1, Zenon
      <3>4. QED
        BY <2>1, <3>1, <3>2, <3>3, Zenon
    <2>3. CASE ToSet(line) \cap {"<"} # {}
      <3>1. PICK i \in 1..Len(line) : line[i] = "<"
        BY <1>1, <2>3 DEF ToSet
      <3> DEFINE at == LongestRun(line)[2]
                 before == SubSeq(line, 1, at)
                 after == SubSeq(line, at + 1, Len(line))
      <3>2. at \in 1..Len(line)
        BY <1>1, <3>1, LongestRunIsOne
      <3>3. FitFiller(line) = (before \o missing) \o after
        <4>1. ~(Len(line) >= LineLength) /\ LineLength = 44
          BY <1>1, <1>3 DEF LineLength
        <4>2. QED
          BY <2>3, <4>1, Zenon DEF FitFiller
      <3>4. before \in Seq(MrzChar) /\ Len(before) = at - 1 + 1
        <4> HIDE DEF at
        <4>1. at \in Nat /\ at <= Len(line) /\ 1 <= at + 1
          BY <1>1, <3>2
        <4>2. QED
          BY <4>1, Cut
      <3>5. after \in Seq(MrzChar) /\ Len(after) = Len(line) - (at + 1) + 1
        <4> HIDE DEF at
        <4>1. at + 1 \in Nat \ {0} /\ at + 1 <= Len(line) + 1
          BY <1>1, <3>2
        <4>2. QED
          BY <1>1, <4>1, Cut
      <3> HIDE DEF before, after, at, missing
      <3>6. before \o missing \in Seq(MrzChar) /\ Len(before \o missing) = Len(before) + Len(missing)
        BY <2>1, <3>4, ConcatProperties
      <3>7. /\ (before \o missing) \o after \in Seq(MrzChar)
            /\ Len((before \o missing) \o after) = Len(before \o missing) + Len(after)
        BY <3>5, <3>6, ConcatProperties
      <3>8. /\ Len(line) # 44
            /\ ((at - 1 + 1) + (44 - Len(line))) + (Len(line) - (at + 1) + 1) = 44
        <4>1. \A x \in Nat : x < 44 =>
                x # 44 /\ \A k \in 1..x : ((k - 1 + 1) + (44 - x)) + (x - (k + 1) + 1) = 44
          OBVIOUS
        <4>2. QED
          BY <1>1, <1>3, <3>2, <4>1, Zenon
      <3>9. Len(FitFiller(line)) = 44
        BY <2>1, <3>3, <3>4, <3>5, <3>6, <3>7, <3>8, Zenon
      <3>10. QED
        BY <3>3, <3>7, <3>8, <3>9, Zenon
    <2>4. QED
      BY <2>2, <2>3
  <1>4. QED
    BY <1>1, <1>2, <1>3

-------------------------------------------------------------------------------
(* The readings of a field *)

\* A set of strings grown place by place exists, for every length.
LEMMA GrowingSet ==
  ASSUME NEW R, NEW n \in Nat
  PROVE  \E f : f = [k \in 0..n |-> IF k = 0 THEN {<<>>}
                                    ELSE Followed(f[k - 1], R[k])]
  <1> DEFINE Has(m) == \E f : f = [k \in 0..m |-> IF k = 0 THEN {<<>>}
                                                  ELSE Followed(f[k - 1], R[k])]
             lacking == {m \in Nat : ~Has(m)}
  <1>1. ASSUME lacking # {} PROVE FALSE
    <2> DEFINE m == Min(lacking)
    <2>1. m \in lacking /\ \A k \in lacking : m <= k
      <3> HIDE DEF Has
      <3>1. QED
        BY <1>1, LeastNatural
    <2> HIDE DEF m
    <2>2. CASE m = 0
      <3> DEFINE f == [k \in 0..0 |-> {<<>>}]
      <3>1. f = [k \in 0..0 |-> IF k = 0 THEN {<<>>} ELSE Followed(f[k - 1], R[k])]
        OBVIOUS
      <3>2. QED
        BY <2>1, <2>2, <3>1
    <2>3. CASE m # 0
      <3>1. m - 1 \in Nat /\ Has(m - 1)
        <4>1. m - 1 \in Nat /\ m - 1 \notin lacking
          <5> HIDE DEF Has
          <5>1. QED
            BY <2>1, <2>3
        <4> HIDE DEF Has
        <4>2. QED
          BY <4>1
      <3>2. PICK g : g = [k \in 0..(m - 1) |-> IF k = 0 THEN {<<>>}
                                               ELSE Followed(g[k - 1], R[k])]
        BY <3>1
      <3> DEFINE top == Followed(g[m - 1], R[m])
                 f == [k \in 0..m |-> IF k = m THEN top ELSE g[k]]
      <3>3. \A k \in 0..m : f[k] = IF k = 0 THEN {<<>>}
                                   ELSE Followed(f[k - 1], R[k])
        <4> TAKE k \in 0..m
        <4>1. m \in Nat
          BY <2>1
        <4>2. CASE k = 0
          BY <2>3, <3>2, <4>1, <4>2
        <4>3. CASE k # 0 /\ k # m
          <5>1. k \in 0..(m - 1) /\ k - 1 \in 0..m /\ k - 1 # m
            BY <4>1, <4>3
          <5>2. f[k] = g[k] /\ f[k - 1] = g[k - 1]
            BY <5>1, <4>3
          <5>3. g[k] = Followed(g[k - 1], R[k])
            BY <3>2, <4>3, <5>1
          <5>4. QED
            BY <4>3, <5>2, <5>3
        <4>4. CASE k = m
          <5>1. f[m] = top /\ f[m - 1] = g[m - 1]
            BY <4>1, <2>3
          <5>2. QED
            BY <2>3, <4>4, <5>1
        <4>5. QED
          BY <4>2, <4>3, <4>4
      <3>4. f = [k \in 0..m |-> IF k = 0 THEN {<<>>}
                                ELSE Followed(f[k - 1], R[k])]
        BY <3>3
      <3>5. QED
        BY <2>1, <3>4
    <2>4. QED
      BY <2>2, <2>3
  <1>2. QED
    BY <1>1

\* Candidates grows one place at a time from the empty string.
LEMMA CandidatesAre ==
  ASSUME NEW line2, NEW field, Len(field) \in Nat
  PROVE  \E f : /\ f[0] = {<<>>}
                /\ \A n \in 1..Len(field) :
                     f[n] = Followed(f[n - 1], Readings(field[n], line2[field[n]]))
                /\ Candidates(line2, field) = f[Len(field)]
  <1> DEFINE R == [n \in 1..Len(field) |-> Readings(field[n], line2[field[n]])]
             Is(f) == f = [n \in 0..Len(field) |-> IF n = 0 THEN {<<>>}
                             ELSE Followed(f[n - 1], Readings(field[n], line2[field[n]]))]
             F == CHOOSE f : Is(f)
  <1>1. PICK g : g = [n \in 0..Len(field) |-> IF n = 0 THEN {<<>>}
                        ELSE Followed(g[n - 1], R[n])]
    <2>1. Len(field) \in Nat
      OBVIOUS
    <2> HIDE DEF R
    <2>2. QED
      BY <2>1, GrowingSet
  <1>2. Is(g)
    <2>1. \A n \in 1..Len(field) : R[n] = Readings(field[n], line2[field[n]])
      OBVIOUS
    <2>2. \A n \in 0..Len(field) : n # 0 => n \in 1..Len(field)
      OBVIOUS
    <2> HIDE DEF R
    <2>3. \A n \in 0..Len(field) :
            g[n] = IF n = 0 THEN {<<>>}
                   ELSE Followed(g[n - 1], Readings(field[n], line2[field[n]]))
      BY <1>1, <2>1, <2>2
    <2>4. g = [n \in 0..Len(field) |-> g[n]]
      BY <1>1
    <2>5. QED
      BY <2>3, <2>4
  <1>3. Is(F)
    <2> HIDE DEF Is
    <2>1. QED
      BY <1>2
  <1>4. Candidates(line2, field) = F[Len(field)]
    BY DEF Candidates
  <1> HIDE DEF F
  <1>5. /\ F[0] = {<<>>}
        /\ \A n \in 1..Len(field) :
             F[n] = Followed(F[n - 1], Readings(field[n], line2[field[n]]))
    <2>1. 0 \in 0..Len(field) /\ \A n \in 1..Len(field) : n \in 0..Len(field) /\ n # 0
      OBVIOUS
    <2>2. QED
      BY <1>3, <2>1
  <1>6. QED
    BY <1>4, <1>5

\* Followed, member by member, and finite where its arguments are.
LEMMA FollowedIs ==
  ASSUME NEW S, NEW C
  PROVE  \A t : t \in Followed(S, C) <=> \E s \in S, c \in C : t = Append(s, c)
  BY DEF Followed

LEMMA FollowedFinite ==
  ASSUME NEW S, NEW C, IsFiniteSet(S), IsFiniteSet(C)
  PROVE  IsFiniteSet(Followed(S, C))
  <1> DEFINE P == S \X C
             F == Followed(S, C)
             join == [p \in P |-> Append(p[1], p[2])]
  <1>1. IsFiniteSet(P)
    BY FS_Product
  <1>2. \A p \in P : join[p] \in F
    <2> TAKE p \in P
    <2>1. p[1] \in S /\ p[2] \in C /\ join[p] = Append(p[1], p[2])
      OBVIOUS
    <2>2. QED
      BY <2>1, FollowedIs
  <1>3. \A t \in F : \E p \in P : join[p] = t
    <2> TAKE t \in F
    <2>1. PICK s \in S, c \in C : t = Append(s, c)
      BY FollowedIs
    <2>2. <<s, c>> \in P /\ join[<<s, c>>] = t
      BY <2>1
    <2>3. QED
      BY <2>2
  <1>4. join = [p \in P |-> join[p]]
    OBVIOUS
  <1> HIDE DEF P, F, join
  <1>5. join \in Surjection(P, F)
    BY <1>2, <1>3, <1>4 DEF Surjection
  <1>6. IsFiniteSet(F)
    BY <1>1, <1>5, FS_Surjection
  <1>7. QED
    BY <1>6 DEF F

\* A candidate takes one reading of every character, and there are finitely many.
LEMMA CandidateReads ==
  ASSUME NEW line2, NEW field, Len(field) \in Nat
  PROVE  /\ IsFiniteSet(Candidates(line2, field))
         /\ \A s \in Candidates(line2, field) :
              /\ DOMAIN s = 1..Len(field)
              /\ \A k \in 1..Len(field) : s[k] \in Readings(field[k], line2[field[k]])
  <1> DEFINE Of(k) == Readings(field[k], line2[field[k]])
             Chars == UNION {Of(k) : k \in 1..Len(field)}
  <1>1. PICK f : /\ f[0] = {<<>>}
                 /\ \A n \in 1..Len(field) : f[n] = Followed(f[n - 1], Of(n))
                 /\ Candidates(line2, field) = f[Len(field)]
    <2>1. QED
      BY CandidatesAre DEF Of
  <1> DEFINE Good(n) == /\ IsFiniteSet(f[n])
                        /\ \A s \in f[n] : /\ s \in Seq(Chars) /\ Len(s) = n
                                           /\ \A k \in 1..n : s[k] \in Of(k)
             bad == {n \in 0..Len(field) : ~Good(n)}
  <1>2. \A n \in 1..Len(field) : Of(n) \subseteq Chars /\ IsFiniteSet(Of(n))
    BY ReadingsFinite
  <1> HIDE DEF Of, Chars
  <1>3. Good(0)
    <2>1. f[0] = {<<>>} /\ IsFiniteSet({<<>>})
      BY <1>1, FS_Singleton
    <2>2. <<>> \in Seq(Chars) /\ Len(<<>>) = 0
      BY EmptySeq
    <2>3. QED
      BY <2>1, <2>2
  <1>4. ASSUME NEW m \in 1..Len(field), Good(m - 1) PROVE Good(m)
    <2>1. f[m] = Followed(f[m - 1], Of(m))
      BY <1>1
    <2>2. IsFiniteSet(f[m])
      BY <1>2, <1>4, <2>1, FollowedFinite
    <2>3. ASSUME NEW t \in f[m]
          PROVE  t \in Seq(Chars) /\ Len(t) = m /\ \A k \in 1..m : t[k] \in Of(k)
      <3>1. PICK s \in f[m - 1], c \in Of(m) : t = Append(s, c)
        BY <2>1, FollowedIs
      <3>2. s \in Seq(Chars) /\ Len(s) = m - 1 /\ \A k \in 1..(m - 1) : s[k] \in Of(k)
        BY <1>4
      <3>3. c \in Chars
        BY <1>2
      <3>4. /\ Append(s, c) \in Seq(Chars) /\ Len(Append(s, c)) = Len(s) + 1
            /\ \A i \in 1..Len(s) : Append(s, c)[i] = s[i]
            /\ Append(s, c)[Len(s) + 1] = c
        BY <3>2, <3>3, AppendProperties
      <3>5. QED
        BY <3>1, <3>2, <3>4
    <2>4. QED
      BY <2>2, <2>3
  <1> HIDE DEF Good
  <1>5. ASSUME bad # {} PROVE FALSE
    <2>1. bad \subseteq Nat
      OBVIOUS
    <2>2. PICK m \in bad : \A k \in bad : m <= k
      <3> HIDE DEF bad
      <3>1. QED
        BY <1>5, <2>1, LeastNatural
    <2>3. m # 0
      BY <1>3, <2>2
    <2>4. m \in 1..Len(field) /\ m - 1 \in 0..Len(field) /\ m - 1 \notin bad
      BY <2>2, <2>3
    <2>5. QED
      BY <1>4, <2>2, <2>4
  <1>6. Good(Len(field))
    BY <1>5
  <1>7. \A s \in Seq(Chars) : DOMAIN s = 1..Len(s)
    OBVIOUS
  <1>8. QED
    BY <1>1, <1>6, <1>7 DEF Good, Of

-------------------------------------------------------------------------------
(* The document number *)

\* What is accepted of a field is as it was read or what its characters may stand
\* for.
LEMMA ResolvedIs ==
  ASSUME NEW line2, NEW field, Len(field) \in Nat, DOMAIN field = 1..Len(field),
         ResolveField(line2, field) # Unresolved
  PROVE  /\ DOMAIN ResolveField(line2, field) = 1..Len(field)
         /\ \A k \in 1..Len(field) :
              ResolveField(line2, field)[k] \in {line2[field[k]]} \cup Readings(field[k], line2[field[k]])
  <1> DEFINE original == [k \in DOMAIN field |-> line2[field[k]]]
             Changes(s) == Cardinality({k \in DOMAIN s : s[k] # original[k]})
             passing == {s \in Candidates(line2, field) : PassesAsNumber(s)}
             winners == {s \in passing : \A t \in passing : Changes(s) <= Changes(t)}
             r == ResolveField(line2, field)
  <1>1. r = IF Passes(Front(original), Last(original)) THEN original
            ELSE IF Cardinality(winners) = 1 THEN CHOOSE s \in winners : TRUE
            ELSE Unresolved
    BY DEF ResolveField
  <1>2. CASE r = original
    BY <1>2
  <1>3. CASE r # original
    <2>1. winners # {}
      <3> HIDE DEF winners, original
      <3>1. Cardinality(winners) = 1
        BY <1>1, <1>3
      <3>2. QED
        BY <3>1, FS_EmptySet
    <2>2. r \in winners
      <3> HIDE DEF winners, original
      <3>1. QED
        BY <1>1, <1>3, <2>1
    <2>3. r \in Candidates(line2, field)
      BY <2>2
    <2> HIDE DEF r
    <2>4. DOMAIN r = 1..Len(field) /\ \A k \in 1..Len(field) : r[k] \in Readings(field[k], line2[field[k]])
      BY <2>3, CandidateReads
    <2>5. QED
      BY <2>4 DEF r
  <1>4. QED
    BY <1>2, <1>3

\* Put replaces the field's places and no other.
LEMMA PutIs ==
  ASSUME NEW line, NEW field, NEW value
  PROVE  /\ DOMAIN Put(line, field, value) = DOMAIN line
         /\ \A i \in DOMAIN line : (\A k \in DOMAIN field : field[k] # i) =>
              Put(line, field, value)[i] = line[i]
         /\ \A i \in DOMAIN line, k \in DOMAIN field :
              (\A j \in DOMAIN field : field[j] = i <=> j = k) => Put(line, field, value)[i] = value[k]
  <1>1. ASSUME NEW i \in DOMAIN line, \A k \in DOMAIN field : field[k] # i
        PROVE  Put(line, field, value)[i] = line[i]
    BY <1>1 DEF Put
  <1>2. ASSUME NEW i \in DOMAIN line, NEW k \in DOMAIN field,
               \A j \in DOMAIN field : field[j] = i <=> j = k
        PROVE  Put(line, field, value)[i] = value[k]
    <2>1. (CHOOSE j \in DOMAIN field : field[j] = i) = k
      BY <1>2
    <2>2. QED
      BY <1>2, <2>1 DEF Put
  <1>3. DOMAIN Put(line, field, value) = DOMAIN line
    BY DEF Put
  <1>4. QED
    BY <1>1, <1>2, <1>3

\* A repair parses a line whose document number is as it was read.
LEMMA RepairedLine ==
  ASSUME NEW line1, NEW line2 \in Seq(MrzChar), Len(line2) = 44, NEW r \in Repair(line1, line2)
  PROVE  \E line : /\ r = ParseTd3(line1, line) /\ r.valid
                   /\ \A k \in 1..9 : line[k] = line2[k]
                   /\ line[10] \in {line2[10]} \cup Readings(10, line2[10])
  <1> DEFINE number == ResolveField(line2, NumberField)
             birth == ResolveField(line2, BirthField)
             expiry == ResolveField(line2, ExpiryField)
             letters == [i \in DOMAIN line2 |->
                           IF i \in LineTwoAlpha THEN LetterReadings[line2[i]] ELSE line2[i]]
             one == Put(letters, NumberField, number)
             two == Put(one, BirthField, birth)
             resolved == Put(two, ExpiryField, expiry)
             passing == {p \in {ParseTd3(line1, [resolved EXCEPT ![44] = c]) :
                                  c \in Readings(44, line2[44])} : p.valid}
  <1>1. /\ Repair(line1, line2) = passing
        /\ number # Unresolved
    <2>1. Repair(line1, line2) = IF Unresolved \notin {number, birth, expiry} /\ Cardinality(passing) = 1
                                 THEN passing ELSE {}
      BY DEF Repair
    <2> HIDE DEF passing
    <2>2. QED
      BY <2>1
  <1>2. PICK c \in Readings(44, line2[44]) : r = ParseTd3(line1, [resolved EXCEPT ![44] = c]) /\ r.valid
    BY <1>1
  <1> DEFINE line == [resolved EXCEPT ![44] = c]
  <1>3. DOMAIN line2 = 1..44
    OBVIOUS
  <1>4. DOMAIN letters = 1..44 /\ DOMAIN one = 1..44 /\ DOMAIN two = 1..44 /\ DOMAIN resolved = 1..44
    <2>1. DOMAIN letters = 1..44
      BY <1>3
    <2> HIDE DEF letters, number, birth, expiry
    <2>2. DOMAIN one = 1..44
      BY <2>1, PutIs
    <2> HIDE DEF one
    <2>3. DOMAIN two = 1..44
      BY <2>2, PutIs
    <2> HIDE DEF two
    <2>4. DOMAIN resolved = 1..44
      BY <2>3, PutIs
    <2>5. QED
      BY <2>1, <2>2, <2>3, <2>4 DEF one, two
  <1>5. \A k \in 1..10 : line[k] = number[k]
    <2> TAKE k \in 1..10
    <2>1. /\ DOMAIN NumberField = 1..10 /\ \A j \in 1..10 : NumberField[j] = j
      BY DEF NumberField
    <2>2. /\ DOMAIN BirthField = 1..7 /\ \A j \in 1..7 : BirthField[j] = j + 13
          /\ DOMAIN ExpiryField = 1..7 /\ \A j \in 1..7 : ExpiryField[j] = j + 21
      BY DEF BirthField, ExpiryField
    <2>3. \A j \in 1..7 : j + 13 # k /\ j + 21 # k
      OBVIOUS
    <2>4. k \in 1..44 /\ k # 44
      OBVIOUS
    <2> HIDE DEF number, birth, expiry, letters
    <2>5. one[k] = number[k]
      <3>1. k \in DOMAIN NumberField /\ \A j \in DOMAIN NumberField : NumberField[j] = k <=> j = k
        BY <2>1
      <3>2. k \in DOMAIN letters
        BY <1>4, <2>4
      <3>3. QED
        BY <3>1, <3>2, PutIs
    <2> HIDE DEF one
    <2>6. two[k] = one[k]
      <3>1. k \in DOMAIN one /\ \A j \in DOMAIN BirthField : BirthField[j] # k
        <4>1. k \in DOMAIN one
          BY <1>4, <2>4, Zenon
        <4>2. ASSUME NEW j \in DOMAIN BirthField PROVE BirthField[j] # k
          <5>1. j \in 1..7 /\ BirthField[j] = j + 13
            BY <2>2
          <5>2. QED
            BY <2>3, <5>1
        <4>3. QED
          BY <4>1, <4>2, Zenon
      <3>2. QED
        BY <3>1, PutIs
    <2> HIDE DEF two
    <2>7. resolved[k] = two[k]
      <3>1. k \in DOMAIN two /\ \A j \in DOMAIN ExpiryField : ExpiryField[j] # k
        <4>1. k \in DOMAIN two
          BY <1>4, <2>4, Zenon
        <4>2. ASSUME NEW j \in DOMAIN ExpiryField PROVE ExpiryField[j] # k
          <5>1. j \in 1..7 /\ ExpiryField[j] = j + 21
            BY <2>2
          <5>2. QED
            BY <2>3, <5>1
        <4>3. QED
          BY <4>1, <4>2, Zenon
      <3>2. QED
        BY <3>1, PutIs
    <2> HIDE DEF resolved
    <2>8. line[k] = resolved[k]
      BY <1>4, <2>4
    <2>9. QED
      BY <2>5, <2>6, <2>7, <2>8
  <1>6. \A k \in 1..10 : number[k] \in {line2[k]} \cup Readings(k, line2[k])
    <2>1. /\ Len(NumberField) = 10 /\ DOMAIN NumberField = 1..10
          /\ \A j \in 1..10 : NumberField[j] = j
      BY DEF NumberField
    <2>2. \A k \in 1..Len(NumberField) :
            number[k] \in {line2[NumberField[k]]} \cup Readings(NumberField[k], line2[NumberField[k]])
      <3>1. Len(NumberField) \in Nat /\ DOMAIN NumberField = 1..Len(NumberField)
        BY <2>1
      <3>2. ResolveField(line2, NumberField) # Unresolved
        BY <1>1
      <3>3. QED
        BY <3>1, <3>2, ResolvedIs
    <2> HIDE DEF number
    <2>3. QED
      BY <2>1, <2>2
  <1>7. \A k \in 1..9 : Readings(k, line2[k]) = {line2[k]}
    BY DEF Readings, LineTwoNumeric, LineTwoAlpha
  <1> HIDE DEF number, line
  <1>8. \A k \in 1..9 : line[k] = line2[k]
    BY <1>5, <1>6, <1>7
  <1>9. line[10] \in {line2[10]} \cup Readings(10, line2[10])
    BY <1>5, <1>6
  <1>10. r = ParseTd3(line1, line) /\ r.valid
    BY <1>2 DEF line
  <1>11. QED
    BY <1>8, <1>9, <1>10

\* What a parse takes for the number, and that a valid one passed its digit.
LEMMA ParsedNumber ==
  ASSUME NEW line1, NEW line2, NEW r, r = ParseTd3(line1, line2)
  PROVE  /\ r.document.number = TrimRight(SubSeq(line2, 1, 9))
         /\ r.valid => Passes(SubSeq(line2, 1, 9), line2[10])
  BY DEF ParseTd3

\* What is cut depends on the characters that are cut.
LEMMA SameCut ==
  ASSUME NEW s, NEW t, NEW m \in Nat, NEW n \in Nat, m <= n, \A k \in m..n : s[k] = t[k]
  PROVE  SubSeq(s, m, n) = SubSeq(t, m, n)
  <1> DEFINE S == {t[k] : k \in m..n}
             a == SubSeq(s, m, n)
             b == SubSeq(t, m, n)
  <1>1. Len(a) = n - m + 1 /\ a \in Seq(S) /\ \A i \in 1..(n - m + 1) : a[i] = s[m + i - 1]
    <2>1. \A i \in m..n : s[i] \in S
      OBVIOUS
    <2> HIDE DEF S
    <2>2. QED
      BY <2>1, SubSeqProperties
  <1>2. Len(b) = n - m + 1 /\ b \in Seq(S) /\ \A i \in 1..(n - m + 1) : b[i] = t[m + i - 1]
    <2>1. \A i \in m..n : t[i] \in S
      OBVIOUS
    <2> HIDE DEF S
    <2>2. QED
      BY <2>1, SubSeqProperties
  <1>3. \A i \in 1..(n - m + 1) : m + i - 1 \in m..n
    OBVIOUS
  <1> HIDE DEF S, a, b
  <1>4. \A i \in 1..(n - m + 1) : a[i] = b[i]
    BY <1>1, <1>2, <1>3
  <1>5. Len(a) = Len(b) /\ \A i \in 1..Len(a) : a[i] = b[i]
    BY <1>1, <1>2, <1>4
  <1>6. a = b
    BY <1>1, <1>2, <1>5, SeqEqual
  <1>7. QED
    BY <1>6 DEF a, b

\* The document number is never guessed at (mrz.py, _DIGIT_POSITIONS leaves
\* positions 0 to 8 out): whatever else of the line is repaired, an accepted
\* document carries the nine characters as they were read, and they passed the
\* check digit as read or under one of the digits its character may stand for.
THEOREM NumberIsKept ==
  ASSUME NEW l1, NEW l2 \in Seq(MrzChar), NEW d \in ParseTd3Tolerant(l1, l2)
  PROVE  LET line2 == FitFiller(l2)
         IN  /\ d.number = TrimRight(SubSeq(line2, 1, 9))
             /\ \E c \in {line2[10]} \cup Readings(10, line2[10]) : Passes(SubSeq(line2, 1, 9), c)
  <1> DEFINE fitted == FitFiller(l1)
             line1 == [i \in DOMAIN fitted |-> IF i > 2 THEN LetterReadings[fitted[i]] ELSE fitted[i]]
             line2 == FitFiller(l2)
             exact == ParseTd3(line1, line2)
             readings == IF exact.valid THEN {exact} ELSE Repair(line1, line2)
  <1>1. ParseTd3Tolerant(l1, l2) = {r.document : r \in readings}
    BY DEF ParseTd3Tolerant
  <1>2. line2 \in Seq(MrzChar) /\ Len(line2) = 44
    BY FitFillerFits
  <1>3. PICK r \in readings : d = r.document
    <2> HIDE DEF readings
    <2>1. QED
      BY <1>1
  <1> HIDE DEF line1, line2
  <1>4. \E line : /\ r = ParseTd3(line1, line) /\ r.valid
                  /\ \A k \in 1..9 : line[k] = line2[k]
                  /\ line[10] \in {line2[10]} \cup Readings(10, line2[10])
    <2>1. CASE exact.valid
      <3>1. r = exact
        BY <2>1
      <3>2. r = ParseTd3(line1, line2) /\ r.valid
        BY <2>1, <3>1
      <3>3. QED
        BY <3>2
    <2>2. CASE ~exact.valid
      <3>1. r \in Repair(line1, line2)
        BY <2>2
      <3> HIDE DEF exact, readings
      <3>2. QED
        BY <1>2, <3>1, RepairedLine
    <2>3. QED
      BY <2>1, <2>2
  <1> HIDE DEF exact, readings
  <1>5. PICK line : /\ r = ParseTd3(line1, line) /\ r.valid
                    /\ \A k \in 1..9 : line[k] = line2[k]
                    /\ line[10] \in {line2[10]} \cup Readings(10, line2[10])
    BY <1>4
  <1>6. SubSeq(line, 1, 9) = SubSeq(line2, 1, 9)
    BY <1>5, SameCut
  <1>7. d.number = TrimRight(SubSeq(line, 1, 9)) /\ Passes(SubSeq(line, 1, 9), line[10])
    BY <1>3, <1>5, ParsedNumber
  <1>8. /\ d.number = TrimRight(SubSeq(line2, 1, 9))
        /\ \E c \in {line2[10]} \cup Readings(10, line2[10]) : Passes(SubSeq(line2, 1, 9), c)
    BY <1>5, <1>6, <1>7
  <1>9. QED
    BY <1>8 DEF line2

\* No digit is a letter.
LEMMA DigitIsNoLetter == Digit \cap Letter = {}
  <1>1. Digit = {"0", "1", "2", "3", "4", "5", "6", "7", "8", "9"}
    BY DEF Digit, Digits, ToSet
  <1>2. Letter \cap {"0", "1", "2", "3", "4", "5", "6", "7", "8", "9"} = {}
    BY DEF Letter, Letters, ToSet
  <1>3. QED
    BY <1>1, <1>2

\* A digit is read as itself where a digit is due.
LEMMA DigitReadsItself ==
  ASSUME NEW c \in Digit
  PROVE  Readings(10, c) = {c}
  BY DigitIsNoLetter DEF Readings, LineTwoNumeric

\* The first n characters of a line.
LEMMA FirstCut ==
  ASSUME NEW line \in Seq(MrzChar), NEW n \in Nat, n <= Len(line)
  PROVE  /\ SubSeq(line, 1, n) \in Seq(MrzChar) /\ Len(SubSeq(line, 1, n)) = n
         /\ \A k \in 1..n : SubSeq(line, 1, n)[k] = line[k]
  <1> DEFINE p == SubSeq(line, 1, n)
  <1>1. 1 \in Nat \ {0} /\ 1 <= n + 1 /\ n - 1 + 1 = n /\ \A k \in 1..n : 1 + k - 1 = k
    OBVIOUS
  <1>2. /\ p \in Seq(MrzChar) /\ Len(p) = n - 1 + 1
        /\ \A k \in 1..(n - 1 + 1) : p[k] = line[1 + k - 1]
    BY <1>1, Cut
  <1> HIDE DEF p
  <1>3. p \in Seq(MrzChar) /\ Len(p) = n /\ \A k \in 1..n : p[k] = line[k]
    BY <1>1, <1>2
  <1>4. QED
    BY <1>3 DEF p

\* The document number and its check digit.
LEMMA NumberCut ==
  ASSUME NEW line \in Seq(MrzChar), Len(line) = 44
  PROVE  /\ SubSeq(line, 1, 9) \in Seq(MrzChar) /\ Len(SubSeq(line, 1, 9)) = 9
         /\ \A k \in 1..9 : SubSeq(line, 1, 9)[k] = line[k]
         /\ SubSeq(line, 1, 10) \in Seq(MrzChar) /\ Len(SubSeq(line, 1, 10)) = 10
         /\ \A k \in 1..10 : SubSeq(line, 1, 10)[k] = line[k]
  <1>1. 9 \in Nat /\ 10 \in Nat /\ 9 <= Len(line) /\ 10 <= Len(line)
    OBVIOUS
  <1>2. QED
    BY <1>1, FirstCut

\* The reason ocr.py trusts a line that passes: a document number in which one
\* character was misread is accepted only if the two characters are worth the same
\* modulo 10, for every line, position, misreading and first line, where the check
\* digit itself was printed and read as one digit (mrz.py, _check_digit with its
\* weights 7, 3, 1, and parse_td3_tolerant, repairs included).
THEOREM MisreadNumberIsCaught ==
  ASSUME NEW printed \in Seq(MrzChar), Len(printed) = 44, printed[10] \in Digit,
         Passes(SubSeq(printed, 1, 9), printed[10]),
         NEW l1, NEW l2 \in Seq(MrzChar), NEW i \in 1..9,
         \A k \in 1..10 : k # i => FitFiller(l2)[k] = printed[k],
         ParseTd3Tolerant(l1, l2) # {}
  PROVE  CharValue[FitFiller(l2)[i]] % 10 = CharValue[printed[i]] % 10
  <1> DEFINE line2 == FitFiller(l2)
             s == SubSeq(line2, 1, 9)
             t == SubSeq(printed, 1, 9)
  <1>1. line2 \in Seq(MrzChar) /\ Len(line2) = 44
    BY FitFillerFits
  <1>2. PICK d \in ParseTd3Tolerant(l1, l2) : TRUE
    OBVIOUS
  <1>3. PICK c \in {line2[10]} \cup Readings(10, line2[10]) : Passes(s, c)
    BY <1>2, NumberIsKept
  <1>4. line2[10] = printed[10]
    OBVIOUS
  <1>5. Passes(s, printed[10])
    <2>1. Readings(10, printed[10]) = {printed[10]}
      BY DigitReadsItself
    <2> HIDE DEF s, line2
    <2>2. QED
      BY <1>3, <1>4, <2>1
  <1>6. CheckDigit(s) = CheckDigit(t)
    BY <1>5 DEF Passes
  <1>7. /\ s \in Seq(MrzChar) /\ Len(s) = 9 /\ \A k \in 1..9 : s[k] = line2[k]
        /\ t \in Seq(MrzChar) /\ Len(t) = 9 /\ \A k \in 1..9 : t[k] = printed[k]
    <2> HIDE DEF line2
    <2>1. QED
      BY <1>1, NumberCut
  <1>8. \A k \in 1..9 : k # i => s[k] = t[k]
    BY <1>7
  <1>9. CharValue[s[i]] % 10 = CharValue[t[i]] % 10
    <2> HIDE DEF s, t
    <2>1. i \in 1..Len(s) /\ Len(s) = Len(t) /\ \A k \in 1..Len(s) : k # i => s[k] = t[k]
      BY <1>7, <1>8
    <2>2. QED
      BY <1>6, <1>7, <2>1, OneSubstitution
  <1> HIDE DEF s, t
  <1>10. QED
    BY <1>7, <1>9

\* Where sums differ by a multiple of 10 they still do when both grow alike.
LEMMA SameDistance ==
  ASSUME NEW x \in Nat, NEW y \in Nat, NEW p \in Nat, NEW q \in Nat,
         x - y = p - q, p % 10 = q % 10
  PROVE  x % 10 = y % 10
  OBVIOUS

\* Two sums over the same nine characters are one.
LEMMA SumsStart ==
  ASSUME NEW s \in Seq(MrzChar), NEW p \in Seq(MrzChar), Len(p) <= Len(s),
         \A k \in 1..Len(p) : s[k] = p[k]
  PROVE  Sums(s)[Len(p)] = Sums(p)[Len(p)]
  <1> DEFINE n == Len(p)
  <1>1. 0 \in Nat /\ n \in Nat /\ 0 <= n /\ n <= Len(s) /\ n \in 0..n /\ n \in 0..Len(s)
    OBVIOUS
  <1>2. \A k \in (0 + 1)..n : s[k] = p[k]
    OBVIOUS
  <1> HIDE DEF n
  <1>3. n <= Len(p)
    BY DEF n
  <1>4. \A k \in 0..n : Sums(s)[k] - Sums(p)[k] = Sums(s)[0] - Sums(p)[0]
    BY <1>1, <1>2, <1>3, SumsKeepApart
  <1>5. Sums(s)[0] = 0 /\ Sums(p)[0] = 0
    BY SumsAre
  <1>6. Sums(s)[n] - Sums(p)[n] = 0
    BY <1>1, <1>4, <1>5
  <1>7. Sums(s)[n] \in Nat
    BY <1>1, SumsAreNat
  <1>8. Sums(p)[n] \in Nat
    BY <1>1, SumsAreNat DEF n
  <1>9. Sums(s)[n] = Sums(p)[n]
    BY <1>6, <1>7, <1>8
  <1>10. QED
    BY <1>9 DEF n

\* What follows a prefix is weighted alike after another prefix that is as long
\* and has the same check digit.
LEMMA SameTail ==
  ASSUME NEW s \in Seq(MrzChar), NEW t \in Seq(MrzChar), Len(s) = Len(t),
         NEW p \in Seq(MrzChar), NEW q \in Seq(MrzChar), Len(p) = Len(q), Len(p) <= Len(s),
         \A k \in 1..Len(p) : s[k] = p[k] /\ t[k] = q[k],
         \A k \in (Len(p) + 1)..Len(s) : s[k] = t[k],
         CheckDigit(p) = CheckDigit(q)
  PROVE  CheckDigit(s) = CheckDigit(t)
  <1> DEFINE m == Len(p)
             n == Len(s)
  <1>1. m \in Nat /\ n \in Nat /\ m <= n
    OBVIOUS
  <1>2. Sums(s)[m] = Sums(p)[m]
    BY SumsStart
  <1>3. Sums(t)[m] = Sums(q)[m]
    <2>1. Len(q) <= Len(t) /\ \A k \in 1..Len(q) : t[k] = q[k]
      OBVIOUS
    <2>2. Sums(t)[Len(q)] = Sums(q)[Len(q)]
      BY <2>1, SumsStart
    <2>3. QED
      BY <2>2
  <1>4. Sums(s)[n] - Sums(t)[n] = Sums(s)[m] - Sums(t)[m]
    <2>1. /\ n <= Len(s) /\ n <= Len(t) /\ m <= n /\ n \in m..n /\ m \in Nat /\ n \in Nat
          /\ \A k \in (m + 1)..n : s[k] = t[k]
      BY <1>1
    <2> HIDE DEF m, n
    <2>2. \A k \in m..n : Sums(s)[k] - Sums(t)[k] = Sums(s)[m] - Sums(t)[m]
      BY <2>1, SumsKeepApart, ZenonT(30)
    <2>3. QED
      BY <2>1, <2>2
  <1>5. /\ CheckDigit(p) = Sums(p)[m] % 10 /\ CheckDigit(q) = Sums(q)[m] % 10
        /\ CheckDigit(s) = Sums(s)[n] % 10 /\ CheckDigit(t) = Sums(t)[n] % 10
    BY DEF CheckDigit
  <1>6. Sums(s)[n] \in Nat /\ Sums(t)[n] \in Nat /\ Sums(p)[m] \in Nat /\ Sums(q)[m] \in Nat
    <2>1. /\ \A k \in 0..Len(s) : Sums(s)[k] \in Nat
          /\ \A k \in 0..Len(t) : Sums(t)[k] \in Nat
          /\ \A k \in 0..Len(p) : Sums(p)[k] \in Nat
          /\ \A k \in 0..Len(q) : Sums(q)[k] \in Nat
      BY SumsAreNat
    <2>2. n \in 0..Len(s) /\ n \in 0..Len(t) /\ m \in 0..Len(p) /\ m \in 0..Len(q)
      OBVIOUS
    <2>3. QED
      BY <2>1, <2>2
  <1>7. Sums(p)[m] % 10 = Sums(q)[m] % 10
    BY <1>5
  <1> HIDE DEF m, n
  <1>8. Sums(s)[n] - Sums(t)[n] = Sums(p)[m] - Sums(q)[m]
    BY <1>2, <1>3, <1>4
  <1> DEFINE sn == Sums(s)[n]
             tn == Sums(t)[n]
             pm == Sums(p)[m]
             qm == Sums(q)[m]
  <1>9. sn % 10 = tn % 10
    <2> HIDE DEF sn, tn, pm, qm
    <2>1. sn \in Nat /\ tn \in Nat /\ pm \in Nat /\ qm \in Nat /\ sn - tn = pm - qm /\ pm % 10 = qm % 10
      BY <1>6, <1>7, <1>8 DEF sn, tn, pm, qm
    <2>2. QED
      BY <2>1, SameDistance
  <1>10. QED
    BY <1>5, <1>9

\* The composite starts with the number and goes on with what lies after it.
RestOf(line) == SubSeq(line, 14, 20) \o (SubSeq(line, 22, 28) \o SubSeq(line, 29, 43))

LEMMA CompositeIs ==
  ASSUME NEW line \in Seq(MrzChar), Len(line) = 44
  PROVE  /\ RestOf(line) \in Seq(MrzChar)
         /\ CompositeOf(line) = SubSeq(line, 1, 10) \o RestOf(line)
  <1> DEFINE b == SubSeq(line, 14, 20)
             c == SubSeq(line, 22, 28)
             e == SubSeq(line, 29, 43)
  <1>1. b \in Seq(MrzChar) /\ c \in Seq(MrzChar) /\ e \in Seq(MrzChar)
    <2>1. /\ 14 \in 1..44 /\ 20 \in 1..44 /\ 14 <= 20
          /\ 22 \in 1..44 /\ 28 \in 1..44 /\ 22 <= 28
          /\ 29 \in 1..44 /\ 43 \in 1..44 /\ 29 <= 43
      OBVIOUS
    <2>2. ASSUME NEW m \in 1..44, NEW n \in 1..44, m <= n PROVE SubSeq(line, m, n) \in Seq(MrzChar)
      <3>1. m \in Nat \ {0} /\ n \in Nat /\ n <= Len(line) /\ m <= n + 1
        BY <2>2
      <3>2. QED
        BY <3>1, Cut, Zenon
    <2>3. b \in Seq(MrzChar)
      BY <2>1, <2>2
    <2>4. c \in Seq(MrzChar)
      BY <2>1, <2>2
    <2>5. e \in Seq(MrzChar)
      BY <2>1, <2>2
    <2>6. QED
      BY <2>3, <2>4, <2>5
  <1> HIDE DEF b, c, e
  <1>2. c \o e \in Seq(MrzChar)
    BY <1>1, ConcatProperties, Zenon
  <1>3. b \o (c \o e) \in Seq(MrzChar)
    BY <1>1, <1>2, ConcatProperties, Zenon
  <1>4. QED
    BY <1>3 DEF CompositeOf, RestOf, b, c, e

\* Two heads of ten characters: the same tenth one, and the same check digit
\* over the nine before it.
EqualHeads(a, b, p, q) ==
  /\ a \in Seq(MrzChar) /\ Len(a) = 10
  /\ b \in Seq(MrzChar) /\ Len(b) = 10
  /\ p \in Seq(MrzChar) /\ Len(p) = 9
  /\ q \in Seq(MrzChar) /\ Len(q) = 9
  /\ a[10] = b[10]
  /\ \A k \in 1..9 : a[k] = p[k] /\ b[k] = q[k]
  /\ CheckDigit(p) = CheckDigit(q)

\* What follows two such heads has nothing to tell them apart by.
LEMMA SameHeads ==
  ASSUME NEW a, NEW b, NEW p, NEW q, EqualHeads(a, b, p, q), NEW rest \in Seq(MrzChar)
  PROVE  CheckDigit(a \o rest) = CheckDigit(b \o rest)
  <1> DEFINE s == a \o rest
             t == b \o rest
             n == Len(rest)
  <1>a. a \in Seq(MrzChar) /\ b \in Seq(MrzChar)
    BY DEF EqualHeads
  <1>0. /\ a \in Seq(MrzChar) /\ b \in Seq(MrzChar) /\ Len(a) = 10 /\ Len(b) = 10
        /\ p \in Seq(MrzChar) /\ q \in Seq(MrzChar) /\ Len(p) = 9 /\ Len(q) = 9
        /\ a[10] = b[10] /\ \A k \in 1..9 : a[k] = p[k] /\ b[k] = q[k]
        /\ CheckDigit(p) = CheckDigit(q)
    BY DEF EqualHeads
  <1>1. n \in Nat
    OBVIOUS
  <1>2. /\ s \in Seq(MrzChar) /\ Len(s) = Len(a) + n
        /\ \A k \in 1..(Len(a) + n) : s[k] = IF k <= Len(a) THEN a[k] ELSE rest[k - Len(a)]
    BY <1>a, ConcatProperties, Zenon
  <1>3. /\ t \in Seq(MrzChar) /\ Len(t) = Len(b) + n
        /\ \A k \in 1..(Len(b) + n) : t[k] = IF k <= Len(b) THEN b[k] ELSE rest[k - Len(b)]
    BY <1>a, ConcatProperties, Zenon
  <1> HIDE DEF s, t, n
  <1>4. Len(s) = 10 + n /\ Len(t) = 10 + n /\ Len(p) <= Len(s) /\ Len(p) = Len(q) /\ Len(s) = Len(t)
    BY <1>0, <1>1, <1>2, <1>3
  <1>5. /\ \A k \in 1..10 : s[k] = a[k] /\ t[k] = b[k]
        /\ \A k \in 11..(10 + n) : s[k] = t[k]
    <2>1. Len(a) = 10 /\ Len(b) = 10
      BY <1>0
    <2>2. \A k \in 1..10 : k \in 1..(10 + n) /\ k <= 10
      BY <1>1
    <2>3. \A k \in 11..(10 + n) : k \in 1..(10 + n) /\ ~(k <= 10)
      BY <1>1
    <2>4. \A k \in 1..10 : s[k] = a[k] /\ t[k] = b[k]
      BY <1>2, <1>3, <2>1, <2>2, Zenon
    <2>5. \A k \in 11..(10 + n) : s[k] = rest[k - 10] /\ t[k] = rest[k - 10]
      BY <1>2, <1>3, <2>1, <2>3, Zenon
    <2>6. QED
      BY <2>4, <2>5, Zenon
  <1>6. \A k \in 1..Len(p) : s[k] = p[k] /\ t[k] = q[k]
    <2>1. \A k \in 1..Len(p) : k \in 1..10 /\ k \in 1..9
      BY <1>0
    <2>2. QED
      BY <1>0, <1>5, <2>1
  <1>7. \A k \in (Len(p) + 1)..Len(s) : s[k] = t[k]
    <2>1. \A k \in (Len(p) + 1)..Len(s) : k = 10 \/ k \in 11..(10 + n)
      BY <1>0, <1>1, <1>4
    <2>2. s[10] = t[10]
      BY <1>0, <1>5
    <2>3. QED
      BY <1>5, <2>1, <2>2
  <1>8. CheckDigit(s) = CheckDigit(t)
    BY <1>0, <1>2, <1>3, <1>4, <1>6, <1>7, SameTail
  <1>9. QED
    BY <1>8 DEF s, t

\* Composites over such lines have one check digit.
LEMMA CompositesAgree ==
  ASSUME NEW line \in Seq(MrzChar), NEW other \in Seq(MrzChar), Len(line) = 44, Len(other) = 44,
         \A k \in 10..44 : line[k] = other[k],
         CheckDigit(SubSeq(line, 1, 9)) = CheckDigit(SubSeq(other, 1, 9))
  PROVE  CheckDigit(CompositeOf(line)) = CheckDigit(CompositeOf(other))
  <1> DEFINE p == SubSeq(line, 1, 9)
             q == SubSeq(other, 1, 9)
             a == SubSeq(line, 1, 10)
             b == SubSeq(other, 1, 10)
             rest == RestOf(line)
             s == a \o rest
             t == b \o rest
  <1>1. rest \in Seq(MrzChar) /\ CompositeOf(line) = s /\ CompositeOf(other) = t
    <2>1. SubSeq(line, 14, 20) = SubSeq(other, 14, 20)
      <3>1. 14 \in Nat /\ 20 \in Nat /\ 14 <= 20 /\ \A k \in 14..20 : line[k] = other[k]
        OBVIOUS
      <3>2. QED
        BY <3>1, SameCut
    <2>2. SubSeq(line, 22, 28) = SubSeq(other, 22, 28)
      <3>1. 22 \in Nat /\ 28 \in Nat /\ 22 <= 28 /\ \A k \in 22..28 : line[k] = other[k]
        OBVIOUS
      <3>2. QED
        BY <3>1, SameCut
    <2>3. SubSeq(line, 29, 43) = SubSeq(other, 29, 43)
      <3>1. 29 \in Nat /\ 43 \in Nat /\ 29 <= 43 /\ \A k \in 29..43 : line[k] = other[k]
        OBVIOUS
      <3>2. QED
        BY <3>1, SameCut
    <2>4. RestOf(line) = RestOf(other)
      BY <2>1, <2>2, <2>3, Zenon DEF RestOf
    <2>5. rest \in Seq(MrzChar) /\ CompositeOf(line) = s
      BY CompositeIs
    <2>6. CompositeOf(other) = b \o RestOf(other)
      BY CompositeIs
    <2>7. QED
      BY <2>4, <2>5, <2>6
  <1>2. /\ a \in Seq(MrzChar) /\ Len(a) = 10 /\ \A k \in 1..10 : a[k] = line[k]
        /\ b \in Seq(MrzChar) /\ Len(b) = 10 /\ \A k \in 1..10 : b[k] = other[k]
    BY NumberCut
  <1>3. /\ p \in Seq(MrzChar) /\ Len(p) = 9 /\ \A k \in 1..9 : p[k] = line[k]
        /\ q \in Seq(MrzChar) /\ Len(q) = 9 /\ \A k \in 1..9 : q[k] = other[k]
    BY NumberCut
  <1>4. CheckDigit(p) = CheckDigit(q)
    OBVIOUS
  <1>5. a[10] = b[10]
    <2>1. line[10] = other[10] /\ 10 \in 1..10
      OBVIOUS
    <2> HIDE DEF a, b
    <2>2. QED
      BY <1>2, <2>1
  <1> HIDE DEF rest, a, b, p, q
  <1>6. \A k \in 1..9 : a[k] = p[k] /\ b[k] = q[k]
    <2>1. \A k \in 1..9 : k \in 1..10
      OBVIOUS
    <2>2. QED
      BY <1>2, <1>3, <2>1
  <1>7. CheckDigit(s) = CheckDigit(t)
    <2>1. EqualHeads(a, b, p, q)
      BY <1>2, <1>3, <1>4, <1>5, <1>6 DEF EqualHeads
    <2>2. CheckDigit(a \o rest) = CheckDigit(b \o rest)
      BY <1>1, <2>1, SameHeads, Zenon
    <2>3. QED
      BY <2>2
  <1>8. QED
    BY <1>1, <1>7

\* Why the number is not searched for (the comment over _DIGIT_POSITIONS in mrz.py):
\* a number with the right check digit passes the composite digit with it, since
\* both weigh it alike.  Two lines that differ in the number alone and share its
\* check digit are both accepted or both refused, whatever the rest of them says.
THEOREM CompositeAddsNothing ==
  ASSUME NEW line \in Seq(MrzChar), NEW other \in Seq(MrzChar), Len(line) = 44, Len(other) = 44,
         \A k \in 10..44 : line[k] = other[k],
         CheckDigit(SubSeq(line, 1, 9)) = CheckDigit(SubSeq(other, 1, 9)), NEW line1
  PROVE  ParseTd3(line1, line).valid = ParseTd3(line1, other).valid
  <1>1. /\ SubSeq(line, 14, 19) = SubSeq(other, 14, 19) /\ SubSeq(line, 22, 27) = SubSeq(other, 22, 27)
        /\ SubSeq(line, 29, 42) = SubSeq(other, 29, 42)
    <2>1. /\ \A k \in 14..19 : line[k] = other[k]
          /\ \A k \in 22..27 : line[k] = other[k]
          /\ \A k \in 29..42 : line[k] = other[k]
      OBVIOUS
    <2>2. /\ 14 \in Nat /\ 19 \in Nat /\ 14 <= 19 /\ 22 \in Nat /\ 27 \in Nat /\ 22 <= 27
          /\ 29 \in Nat /\ 42 \in Nat /\ 29 <= 42
      OBVIOUS
    <2>3. SubSeq(line, 14, 19) = SubSeq(other, 14, 19)
      BY <2>1, <2>2, SameCut
    <2>4. SubSeq(line, 22, 27) = SubSeq(other, 22, 27)
      BY <2>1, <2>2, SameCut
    <2>5. SubSeq(line, 29, 42) = SubSeq(other, 29, 42)
      BY <2>1, <2>2, SameCut
    <2>6. QED
      BY <2>3, <2>4, <2>5
  <1>2. CheckDigit(CompositeOf(line)) = CheckDigit(CompositeOf(other))
    BY CompositesAgree
  <1>3. /\ line[10] = other[10] /\ line[20] = other[20] /\ line[28] = other[28]
        /\ line[43] = other[43] /\ line[44] = other[44]
    OBVIOUS
  <1>4. /\ Passes(SubSeq(line, 1, 9), line[10]) = Passes(SubSeq(other, 1, 9), other[10])
        /\ Passes(CompositeOf(line), line[44]) = Passes(CompositeOf(other), other[44])
    BY <1>2, <1>3, Zenon DEF Passes
  <1>5. QED
    BY <1>1, <1>3, <1>4, ZenonT(30) DEF ParseTd3

-------------------------------------------------------------------------------
(* What is accepted *)

\* A repair is the only one of its size (mrz.py, _resolve_field): a field that passes
\* as read is kept, and a repaired one is a reading of its characters that passes and
\* changes strictly fewer of them than every other reading that passes.
THEOREM RepairIsUnambiguous ==
  ASSUME NEW line2, NEW field, Len(field) \in Nat, DOMAIN field = 1..Len(field),
         ResolveField(line2, field) # Unresolved
  PROVE  LET original == [k \in DOMAIN field |-> line2[field[k]]]
             Changes(s) == Cardinality({k \in DOMAIN s : s[k] # original[k]})
             taken == ResolveField(line2, field)
         IN  IF Passes(Front(original), Last(original)) THEN taken = original
             ELSE /\ taken \in Candidates(line2, field) /\ PassesAsNumber(taken)
                  /\ \A s \in Candidates(line2, field) :
                       PassesAsNumber(s) /\ s # taken => Changes(taken) < Changes(s)
  <1> DEFINE original == [k \in DOMAIN field |-> line2[field[k]]]
             Changes(s) == Cardinality({k \in DOMAIN s : s[k] # original[k]})
             cand == Candidates(line2, field)
             passing == {s \in cand : PassesAsNumber(s)}
             winners == {s \in passing : \A t \in passing : Changes(s) <= Changes(t)}
             taken == ResolveField(line2, field)
             asRead == Passes(Front(original), Last(original))
  <1>1. taken = IF asRead THEN original
                ELSE IF Cardinality(winners) = 1 THEN CHOOSE s \in winners : TRUE
                ELSE Unresolved
    BY DEF ResolveField
  <1>2. IsFiniteSet(cand) /\ \A s \in cand : DOMAIN s = 1..Len(field)
    BY CandidateReads
  <1>3. \A s \in cand : Changes(s) \in Nat
    <2> SUFFICES ASSUME NEW s \in cand PROVE Changes(s) \in Nat
      OBVIOUS
    <2> DEFINE D == {k \in DOMAIN s : s[k] # original[k]}
    <2>1. IsFiniteSet(1..Len(field))
      <3>1. 1 \in Int /\ Len(field) \in Int
        OBVIOUS
      <3>2. QED
        BY <3>1, FS_Interval, Zenon
    <2>2. IsFiniteSet(D)
      <3>1. D \subseteq DOMAIN s /\ DOMAIN s = 1..Len(field)
        BY <1>2, Zenon
      <3> HIDE DEF D
      <3>2. D \in SUBSET (1..Len(field))
        BY <3>1
      <3>3. QED
        BY <2>1, <3>2, FS_Subset, Zenon
    <2> HIDE DEF D
    <2>3. Cardinality(D) \in Nat
      BY <2>2, FS_CardinalityType
    <2>4. QED
      BY <2>3 DEF D
  <1>4. ASSUME ~asRead
        PROVE  /\ taken \in cand /\ PassesAsNumber(taken)
               /\ \A s \in cand : PassesAsNumber(s) /\ s # taken => Changes(taken) < Changes(s)
    <2>1. winners \in SUBSET cand
      OBVIOUS
    <2>2. Cardinality(winners) = 1 /\ taken = CHOOSE s \in winners : TRUE
      <3> HIDE DEF asRead, winners, original
      <3>1. QED
        BY <1>1, <1>4
    <2>3. \E x : winners = {x}
      <3> HIDE DEF winners, cand
      <3>1. IsFiniteSet(winners)
        BY <1>2, <2>1, FS_Subset
      <3>2. QED
        BY <2>2, <3>1, FS_Singleton
    <2>4. winners = {taken}
      <3> HIDE DEF winners, taken
      <3>1. QED
        BY <2>2, <2>3
    <2> HIDE DEF taken, Changes, cand, asRead
    <2>5. taken \in passing /\ \A t \in passing : Changes(taken) <= Changes(t)
      BY <2>4
    <2>6. ASSUME NEW s \in cand, PassesAsNumber(s), s # taken
          PROVE  Changes(taken) < Changes(s)
      <3>1. s \in passing /\ s \notin winners
        <4>1. s \in passing
          BY <2>6
        <4> HIDE DEF winners
        <4>2. QED
          BY <2>4, <2>6, <4>1
      <3>2. PICK t \in passing : ~(Changes(s) <= Changes(t))
        BY <3>1
      <3>3. Changes(taken) <= Changes(t)
        BY <2>5, <3>2
      <3>4. taken \in cand /\ t \in cand
        BY <2>5
      <3>5. Changes(taken) \in Nat /\ Changes(s) \in Nat /\ Changes(t) \in Nat
        BY <1>3, <3>4
      <3>6. QED
        BY <3>2, <3>3, <3>5
    <2>7. QED
      BY <2>5, <2>6
  <1>5. asRead => taken = original
    BY <1>1
  <1> HIDE DEF asRead, taken, cand
  <1>6. QED
    BY <1>4, <1>5 DEF asRead, taken, cand

\* A digit is worth itself.
LEMMA DigitValues == \A c \in Digit : CharValue[c] \in 0..9
  <1> TAKE c \in Digit
  <1>1. PICK j \in 1..10 : Digits[j] = c
    BY DEF Digit, Digits, ToSet
  <1>2. c \in MrzChar /\ c # "<"
    <2>1. Digit = {"0", "1", "2", "3", "4", "5", "6", "7", "8", "9"}
      BY DEF Digit, Digits, ToSet
    <2>2. QED
      BY <2>1 DEF MrzChar
  <1>3. DOMAIN Alphabet = 1..36 /\ \A i \in 1..36 :
          Alphabet[i] = IF i <= 10 THEN Digits[i] ELSE Letters[i - 10]
    BY AlphabetIs
  <1>4. \A k \in DOMAIN Alphabet : Alphabet[k] = c => k \in 1..10
    <2> SUFFICES ASSUME NEW k \in 1..36, Alphabet[k] = c PROVE k <= 10
      BY <1>3
    <2>1. CASE k > 10
      <3>1. k - 10 \in 1..26 /\ Letters[k - 10] = c
        BY <1>3, <2>1
      <3>2. DOMAIN Letters = 1..26
        BY DEF Letters
      <3>3. c \in Letter
        BY <3>1, <3>2 DEF Letter, ToSet
      <3>4. QED
        BY <3>3, DigitIsNoLetter
    <2>2. QED
      BY <2>1
  <1>5. j \in DOMAIN Alphabet /\ Alphabet[j] = c
    BY <1>1, <1>3
  <1>6. (CHOOSE k \in DOMAIN Alphabet : Alphabet[k] = c) \in 1..10
    BY <1>4, <1>5
  <1>7. CharValue[c] = (CHOOSE k \in DOMAIN Alphabet : Alphabet[k] = c) - 1
    BY <1>2 DEF CharValue
  <1>8. QED
    BY <1>6, <1>7

\* A day of the calendar: one that lies ahead (an expiry) is of this century, and
\* one that does not (a birth) is not of a year after the current one.
RealDate(date, future) ==
  /\ IsDate(date[1], date[2], date[3])
  /\ date[1] \in 1900..2099
  /\ IF future THEN date[1] >= 2000 ELSE date[1] <= 2000 + CurrentYY

\* A six-digit date that is read is such a day.
LEMMA DatesExist ==
  ASSUME NEW line, NEW m \in Nat, NEW n \in Nat, n = m + 5, NEW future \in BOOLEAN,
         NEW date, date = ParseYymmdd(SubSeq(line, m, n), future), date # NoDate
  PROVE  RealDate(date, future)
  <1> DEFINE raw == SubSeq(line, m, n)
             Two(k) == 10 * CharValue[raw[k]] + CharValue[raw[k + 1]]
             year == Two(1) + (IF ~future /\ Two(1) > CurrentYY THEN 1900 ELSE 2000)
  <1>1. ToSet(raw) \subseteq Digit /\ IsDate(year, Two(3), Two(5)) /\ date = <<year, Two(3), Two(5)>>
    BY DEF ParseYymmdd
  <1>2. raw[1] \in Digit /\ raw[2] \in Digit
    <2> DEFINE S == {line[i] : i \in m..n}
    <2>1. \A i \in m..n : line[i] \in S
      OBVIOUS
    <2> HIDE DEF S
    <2>2. raw \in Seq(S) /\ Len(raw) = 6
      BY <2>1, SubSeqProperties
    <2> HIDE DEF raw
    <2>3. raw[1] \in ToSet(raw) /\ raw[2] \in ToSet(raw)
      <3>1. 1 \in DOMAIN raw /\ 2 \in DOMAIN raw
        BY <2>2
      <3>2. QED
        BY <3>1, Zenon DEF ToSet
    <2>4. QED
      BY <1>1, <2>3
  <1>3. \A c \in Digit : CharValue[c] \in 0..9
    BY DigitValues
  <1>4. Two(1) \in 0..99
    <2>1. CharValue[raw[1]] \in 0..9 /\ CharValue[raw[2]] \in 0..9
      BY <1>2, <1>3
    <2>2. \A x, y \in 0..9 : 10 * x + y \in 0..99
      OBVIOUS
    <2> HIDE DEF raw
    <2>3. QED
      BY <2>1, <2>2
  <1>5. date[1] = year /\ date[2] = Two(3) /\ date[3] = Two(5)
    BY <1>1
  <1>6. CurrentYY \in 0..99
    BY CurrentYYAssumption
  <1> HIDE DEF Two
  <1>7. /\ year \in 1900..2099
        /\ IF future THEN year >= 2000 ELSE year <= 2000 + CurrentYY
    BY <1>4, <1>6
  <1> HIDE DEF year
  <1>8. QED
    BY <1>1, <1>5, <1>7 DEF RealDate

\* Whatever a repair changes, it parses the line it has made.
LEMMA AcceptedIsParsed ==
  ASSUME NEW l1, NEW l2, NEW d \in ParseTd3Tolerant(l1, l2)
  PROVE  \E line1, line2 : ParseTd3(line1, line2).valid /\ d = ParseTd3(line1, line2).document
  <1> DEFINE fitted == FitFiller(l1)
             line1 == [i \in DOMAIN fitted |-> IF i > 2 THEN LetterReadings[fitted[i]] ELSE fitted[i]]
             line2 == FitFiller(l2)
             exact == ParseTd3(line1, line2)
             readings == IF exact.valid THEN {exact} ELSE Repair(line1, line2)
  <1>1. ParseTd3Tolerant(l1, l2) = {r.document : r \in readings}
    BY DEF ParseTd3Tolerant
  <1>2. PICK r \in readings : d = r.document
    <2> HIDE DEF readings
    <2>1. QED
      BY <1>1
  <1> HIDE DEF line1, line2
  <1>3. \E line : r = ParseTd3(line1, line) /\ r.valid
    <2>1. CASE exact.valid
      BY <2>1
    <2>2. CASE ~exact.valid
      <3> DEFINE number == ResolveField(line2, NumberField)
                 birth == ResolveField(line2, BirthField)
                 expiry == ResolveField(line2, ExpiryField)
                 letters == [i \in DOMAIN line2 |->
                               IF i \in LineTwoAlpha THEN LetterReadings[line2[i]] ELSE line2[i]]
                 resolved == Put(Put(Put(letters, NumberField, number), BirthField, birth),
                                 ExpiryField, expiry)
                 passing == {p \in {ParseTd3(line1, [resolved EXCEPT ![44] = c]) :
                                      c \in Readings(44, line2[44])} : p.valid}
      <3>1. Repair(line1, line2) = IF Unresolved \notin {number, birth, expiry} /\ Cardinality(passing) = 1
                                   THEN passing ELSE {}
        BY DEF Repair
      <3>2. r \in Repair(line1, line2)
        BY <2>2
      <3>3. r \in passing
        <4> HIDE DEF passing
        <4>1. QED
          BY <3>1, <3>2
      <3> HIDE DEF resolved
      <3>4. QED
        BY <3>3
    <2>3. QED
      BY <2>1, <2>2
  <1> HIDE DEF exact, readings
  <1>4. QED
    BY <1>2, <1>3

\* An accepted document has dates that exist (mrz.py, _parse_yymmdd and its callers):
\* days of the calendar, a birth in 1900 to the current year and an expiry in this
\* century, whatever was read and whatever was repaired.
THEOREM AcceptedDatesExist ==
  ASSUME NEW l1, NEW l2, NEW d \in ParseTd3Tolerant(l1, l2)
  PROVE  /\ IsDate(d.birth[1], d.birth[2], d.birth[3])
         /\ d.birth[1] \in 1900..(2000 + CurrentYY)
         /\ IsDate(d.expiry[1], d.expiry[2], d.expiry[3])
         /\ d.expiry[1] \in 2000..2099
  <1>1. PICK line1, line2 : ParseTd3(line1, line2).valid /\ d = ParseTd3(line1, line2).document
    BY AcceptedIsParsed
  <1>2. /\ d.birth = ParseYymmdd(SubSeq(line2, 14, 19), FALSE) /\ d.birth # NoDate
        /\ d.expiry = ParseYymmdd(SubSeq(line2, 22, 27), TRUE) /\ d.expiry # NoDate
    BY <1>1 DEF ParseTd3
  <1>3. /\ IsDate(d.birth[1], d.birth[2], d.birth[3])
        /\ d.birth[1] \in 1900..2099 /\ d.birth[1] <= 2000 + CurrentYY
    <2> DEFINE date == d.birth
               first == 14
               last == 19
               future == FALSE
    <2>1. first \in Nat /\ last \in Nat /\ last = first + 5 /\ future \in BOOLEAN
      OBVIOUS
    <2>2. date = ParseYymmdd(SubSeq(line2, first, last), future) /\ date # NoDate
      BY <1>2, Zenon
    <2> HIDE DEF date, first, last, future
    <2>3. RealDate(date, future)
      BY <2>1, <2>2, DatesExist, Zenon
    <2>4. QED
      BY <2>3 DEF RealDate, date, future
  <1>4. /\ IsDate(d.expiry[1], d.expiry[2], d.expiry[3])
        /\ d.expiry[1] \in 1900..2099 /\ d.expiry[1] >= 2000
    <2> DEFINE date == d.expiry
               first == 22
               last == 27
               future == TRUE
    <2>1. first \in Nat /\ last \in Nat /\ last = first + 5 /\ future \in BOOLEAN
      OBVIOUS
    <2>2. date = ParseYymmdd(SubSeq(line2, first, last), future) /\ date # NoDate
      BY <1>2, Zenon
    <2> HIDE DEF date, first, last, future
    <2>3. RealDate(date, future)
      BY <2>1, <2>2, DatesExist, Zenon
    <2>4. QED
      BY <2>3 DEF RealDate, date, future
  <1>5. QED
    BY <1>3, <1>4, CurrentYYAssumption

-------------------------------------------------------------------------------

\* In every reachable state what attempts hold, the rows they stored, what the
\* workflow knows and what the policy judged fit together; this is the
\* inductive invariant of the theorems below. (activities.py:198-254.)
THEOREM ExtractionInvariant == Spec => [](Typed /\ ExtractionInv)
  BY InitExtraction, ExtractionNext, TypedNext, PTL DEF Spec

\* The state is well typed; above all, an attempt stores at most one row and the
\* policy judges at most one document. (activities.py:397-411.)
THEOREM TypeCorrect == Spec => []TypeOK
  BY ExtractionInvariant, ImpliesTypeOK, PTL

\* For all photographs and whatever attempts read from them: a case is judged on a
\* document, and if the workflow's answer was read from a zone, every row that came
\* of the same photograph has that document, however many attempts stored a row, in
\* whatever order and however late; the policy judged it too, unless an attempt that
\* had been given up read another photograph and stored its row behind the answer's.
\* (activities.py:199-253, 397-411, main.py:378-382.)
THEOREM EvidenceIsOneDocument == Spec => []EvidenceAgrees
  BY ExtractionInvariant, ImpliesAgreement, PTL
==============================================================================
