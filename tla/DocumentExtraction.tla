-------------------------- MODULE DocumentExtraction --------------------------
(***************************************************************************)
(* One case's extraction: a data page is photographed and uploaded, every  *)
(* attempt of extract_document_activity fetches what lies under the key by *)
(* then and reads it (the machine-readable zone first, the model of last   *)
(* resort after it), stores a row and reports to the workflow; the risk    *)
(* policy and the reviewer's page each pick a row of their own.  The       *)
(* presigned PUT can be used again, so that another photograph may lie     *)
(* under the key when the next attempt comes.                              *)
(*                                                                         *)
(* What OCR may do to a page: misread a character for one that looks like  *)
(* it, misread a digit for another digit, lose filler out of a run, and    *)
(* return one line as two boxes.                                           *)
(***************************************************************************)
EXTENDS MrzReading

CONSTANTS
  Identities,   \* synthetic_id.SyntheticIdentity: the holders of the pages
  MisreadAt,    \* the <<line, position>> pairs that may be misread
  SlipBy,       \* how far a digit may be from the digit it is misread for
  MaxDamage,    \* bound on the damage OCR does to one page
  Lost,         \* how much filler may be lost on a line
  VlmMistake,   \* a document the model may claim to see instead of the page's
  OtherPhotos,  \* pages, [of, misread], that may be put in place of the first
  MaxUploads,   \* bound on the PUTs under the key
  MaxRetries,   \* settings.extraction_max_retries
  MaxAttempts,  \* bound on the attempts Temporal makes
  RetriedWith   \* the misreads of pages that may take more than one attempt

ASSUME ExtractionAssumption ==
  /\ MisreadAt \subseteq (1..2) \X (1..LineLength)
  /\ MaxDamage \in Nat /\ Lost \subseteq Nat /\ SlipBy \subseteq 1..9
  /\ \A p \in OtherPhotos : p.of \in Identities
  /\ MaxUploads \in Nat /\ MaxRetries \in Nat \ {0} /\ MaxAttempts \in Nat \ {0}

VARIABLES
  identity,  \* who the first page is about
  misread,   \* the characters OCR gets wrong on it: [line, at, as]
  uploads,   \* how often an object was put under the key
  shown,     \* who the page now under the key is about
  boxes,     \* what OCR returns for it
  attempt,   \* the attempts' states
  held,      \* the result each attempt has in hand: {} or {result}
  seen,      \* the number of the upload each attempt has read, or 0
  current,   \* the attempt Temporal waits for; 0 before the first
  rows,      \* the extractions rows of the case, in the order of created_at
  outcome,   \* what the workflow knows: waiting, extracted, gave up, scored
  output,    \* the result it got: {} or {result}
  facts      \* the document whose facts the policy judged: {} or {document}

object == <<uploads, shown, boxes>>
vars == <<identity, misread, object, attempt, held, seen, current, rows, outcome,
          output, facts>>

Attempts == 1..MaxAttempts

-------------------------------------------------------------------------------
(* The page *)

TwoDigits(n) == <<Digits[((n \div 10) % 10) + 1], Digits[(n % 10) + 1]>>
Yymmdd(date) == TwoDigits(date[1]) \o TwoDigits(date[2]) \o TwoDigits(date[3])
CheckChar(s) == Digits[CheckDigit(s) + 1]
LJust(s, n) == SubSeq(s \o Filler(n), 1, n)

\* The two lines an issuer prints; the personal number is left unused.
BuildTd3(i) ==
  LET line1 == LJust(<<"P", "<">> \o i.nationality \o i.surname
                       \o <<"<", "<">> \o i.given, LineLength)
      number == LJust(i.number, 9)
      birth == Yymmdd(i.birth)
      expiry == Yymmdd(i.expiry)
      most == number \o <<CheckChar(number)>> \o i.nationality
                \o birth \o <<CheckChar(birth)>> \o <<i.sex>>
                \o expiry \o <<CheckChar(expiry)>> \o Filler(15)
  IN  <<line1, most \o <<CheckChar(CompositeOf(most))>> >>

\* What the page really says.
Truth(i) == [surname |-> i.surname, given |-> i.given, number |-> i.number,
             nationality |-> TrimRight(i.nationality),
             birth |-> i.birth, expiry |-> i.expiry]

WrongButAccepted(document) == document # Truth(identity)

\* The characters c may be taken for: the harness's pairs, and the letters
\* mrz.py knows to stand for digits.
LookAlikes(c) ==
  CASE c = "0" -> {"O", "Q", "D", "U"} [] c = "1" -> {"I", "L"}
    [] c = "2" -> {"Z"} [] c = "5" -> {"S"} [] c = "6" -> {"G"}
    [] c = "7" -> {"Z", "T"} [] c = "8" -> {"B"} [] c = "<" -> {"K"}
    [] c = "O" -> {"0"} [] c = "I" -> {"1"} [] c = "S" -> {"5"} [] c = "B" -> {"8"}
    [] OTHER -> {}

Slips(c) ==
  IF c \in Digit
  THEN {Digits[d + 1] : d \in {d \in 0..9 : \E n \in SlipBy : d - CharValue[c] \in {n, -n}}}
  ELSE {}

Printed(m) == BuildTd3(identity)[m.line][m.at]

\* Line l of i's page as OCR reads its characters.
ReadLine(i, wrong, l) ==
  LET line == BuildTd3(i)[l]
  IN  [k \in DOMAIN line |->
         IF \E m \in wrong : m.line = l /\ m.at = k
         THEN (CHOOSE m \in wrong : m.line = l /\ m.at = k).as ELSE line[k]]

\* The line without n of the characters of its longest run of filler.
Compress(line, n) ==
  LET run == LongestRun(line)
  IN  SubSeq(line, 1, run[2] - n) \o SubSeq(line, run[2] + 1, Len(line))

\* One line of text at the given height: one box, or two when OCR splits it
\* after the last filler but one.
LineBoxes(top, line, split) ==
  LET at == LongestRun(line)[2] - 1
      Box(t, x, text) == [top |-> t, height |-> 20, left |-> x, text |-> text]
  IN  IF split
      THEN {Box(top, 100, SubSeq(line, 1, at)), Box(top + 3, 600, SubSeq(line, at + 1, Len(line)))}
      ELSE {Box(top, 100, line)}

Header == [top |-> 30, height |-> 20, left |-> 40, text |-> [k \in 1..MinPlausibleLength |-> "X"]]

\* What OCR returns for a photograph of i's page.
Photo(i, wrong, lost, split) ==
  {Header} \cup
  UNION {LineBoxes(630 + 70 * l, Compress(ReadLine(i, wrong, l), lost[l]), l \in split) :
           l \in 1..2}

-------------------------------------------------------------------------------
(* Reading *)

\* An ExtractionResult; `document' holds one document or none.
Result(document, confidence, method, needsReview) ==
  [document |-> document, confidence |-> confidence, method |-> method,
   needsReview |-> needsReview]

\* IDDocument refuses an empty name or number.
ExtractFromMrz(line1, line2) ==
  {Result({d}, 99, "mrz", FALSE) :
     d \in {d \in ParseTd3Tolerant(line1, line2) :
              d.surname \o d.given # <<>> /\ d.number # <<>>}}

\* What one call of the model yields: no document, when the reply does not fit
\* the schema or says that none is visible, or a document, right or wrong.
VlmAnswers == {{}, {Truth(shown)}, {VlmMistake}}

\* The first answer with a document counts, and the later it comes the less it
\* is trusted.
ExtractWithVlm(answers) ==
  LET usable == {k \in DOMAIN answers : answers[k] # {}}
  IN  IF usable = {} THEN Result({}, 0, "vlm", TRUE)
      ELSE Result(answers[Min(usable)], Max({50, 100 - 15 * (Min(usable) - 1)}), "vlm", FALSE)

\* The results an attempt may come to: the zone's if it can be read.
ExtractIdDocument ==
  LET lines == AssembleMrzLines(boxes)
      mrz == IF lines = <<>> THEN {} ELSE ExtractFromMrz(lines[1], lines[2])
  IN  IF mrz # {} THEN mrz
      ELSE {ExtractWithVlm(answers) : answers \in [1..MaxRetries -> VlmAnswers]}

-------------------------------------------------------------------------------
(* Actions *)

Init ==
  /\ identity \in Identities
  /\ misread = {}
  /\ uploads = 0 /\ shown = identity /\ boxes = {}
  /\ attempt = [a \in Attempts |-> "none"]
  /\ held = [a \in Attempts |-> {}]
  /\ seen = [a \in Attempts |-> 0]
  /\ current = 0 /\ rows = <<>>
  /\ outcome = "waiting" /\ output = {} /\ facts = {}

\* A character of the photograph will be misread.
Misread ==
  /\ uploads = 0 /\ current = 0 /\ Cardinality(misread) < MaxDamage
  /\ \E p \in MisreadAt :
       LET c == BuildTd3(identity)[p[1]][p[2]]
       IN  /\ \A m \in misread : <<m.line, m.at>> # p
           /\ \E as \in LookAlikes(c) \cup Slips(c) :
                misread' = misread \cup {[line |-> p[1], at |-> p[2], as |-> as]}
  /\ UNCHANGED <<identity, object, attempt, held, seen, current, rows, outcome, output, facts>>

\* The client PUTs the photograph; OCR gives the same boxes for it every time.
Upload ==
  /\ uploads = 0 /\ uploads' = 1
  /\ \E lost \in [1..2 -> Lost], split \in SUBSET (1..2) :
       /\ Cardinality(misread) + Cardinality({l \in 1..2 : lost[l] > 0})
            + Cardinality(split) <= MaxDamage
       /\ boxes' = Photo(identity, misread, lost, split)
  /\ UNCHANGED <<identity, misread, shown, attempt, held, seen, current, rows, outcome,
                 output, facts>>

\* A bound of the model: only pages that take more than one attempt are replaced.
\* The presigned URL, or the fresh one of a replayed POST /cases, is used again.
Overwrite ==
  /\ uploads \in 1..(MaxUploads - 1) /\ misread \subseteq RetriedWith
  /\ uploads' = uploads + 1
  /\ \E p \in OtherPhotos :
       /\ shown' = p.of
       /\ boxes' = Photo(p.of, p.misread, [l \in 1..2 |-> 0], {})
  /\ UNCHANGED <<identity, misread, attempt, held, seen, current, rows, outcome, output,
                 facts>>

\* A bound of the model: pages other than these are read by one attempt only.
AttemptsAllowed == IF misread \subseteq RetriedWith THEN MaxAttempts ELSE 1

CurrentIsOver == current > 0 => attempt[current] # "running"

\* Temporal schedules the first attempt, or the next one once the current one
\* has failed or is given up for lost.
Schedule ==
  /\ outcome = "waiting" /\ current < AttemptsAllowed
  /\ CurrentIsOver
  /\ current' = current + 1
  /\ attempt' = [attempt EXCEPT ![current + 1] = "running"]
  /\ UNCHANGED <<identity, misread, object, held, seen, rows, outcome, output, facts>>

Running(a) == attempt[a] \in {"running", "late"}

\* start_to_close_timeout: Temporal waits no longer, and until the worker's own
\* clock cancels the attempt it goes on.
TimeOut(a) ==
  /\ attempt[a] = "running"
  /\ attempt' = [attempt EXCEPT ![a] = "late"]
  /\ UNCHANGED <<identity, misread, object, held, seen, current, rows, outcome, output, facts>>

\* The worker stops with the attempt in hand, or cancels it.
WorkerDies(a) ==
  /\ Running(a)
  /\ attempt' = [attempt EXCEPT ![a] = "dead"]
  /\ UNCHANGED <<identity, misread, object, held, seen, current, rows, outcome, output, facts>>

\* No object under the key yet, or the model's service raises.
AttemptFails(a) ==
  /\ Running(a) /\ held[a] = {}
  /\ \/ uploads = 0
     \/ uploads > 0 /\ \E r \in ExtractIdDocument : r.method = "vlm"
  /\ attempt' = [attempt EXCEPT ![a] = "failed"]
  /\ UNCHANGED <<identity, misread, object, held, seen, current, rows, outcome, output, facts>>

\* The image under the key is fetched and read; nothing is stored yet.
Read(a) ==
  /\ Running(a) /\ held[a] = {} /\ uploads > 0
  /\ \E r \in ExtractIdDocument : held' = [held EXCEPT ![a] = {r}]
  /\ seen' = [seen EXCEPT ![a] = uploads]
  /\ UNCHANGED <<identity, misread, object, attempt, current, rows, outcome, output, facts>>

\* Bug: `valid' stores needs_review itself.
InsertNegated(a) ==
  /\ Running(a) /\ held[a] # {}
  /\ \A k \in DOMAIN rows : rows[k].by # a
  /\ \E r \in held[a], id \in Attempts \ {rows[k].id : k \in DOMAIN rows} :
       rows' = Append(rows, [id |-> id, by |-> a, document |-> r.document,
                             method |-> r.method, valid |-> r.needsReview])
  /\ UNCHANGED <<identity, misread, object, attempt, held, seen, current, outcome, output, facts>>

\* INSERT INTO extractions; the row's id is a random UUID.
Insert(a) ==
  /\ Running(a) /\ held[a] # {}
  /\ \A k \in DOMAIN rows : rows[k].by # a
  /\ \E r \in held[a], id \in Attempts \ {rows[k].id : k \in DOMAIN rows} :
       rows' = Append(rows, [id |-> id, by |-> a, document |-> r.document,
                             method |-> r.method, valid |-> ~r.needsReview])
  /\ UNCHANGED <<identity, misread, object, attempt, held, seen, current, outcome, output, facts>>

\* The attempt completes.  Temporal takes the answer of the attempt it waits
\* for and drops a late one.
Complete(a) ==
  /\ Running(a) /\ \E k \in DOMAIN rows : rows[k].by = a
  /\ attempt' = [attempt EXCEPT ![a] = "done"]
  /\ IF attempt[a] = "running"
     THEN outcome' = "extracted" /\ output' = held[a]
     ELSE UNCHANGED <<outcome, output>>
  /\ UNCHANGED <<identity, misread, object, held, seen, current, rows, facts>>

\* schedule_to_close_timeout: the workflow parks the case without a result.
GiveUp ==
  /\ outcome = "waiting" /\ current = AttemptsAllowed
  /\ CurrentIsOver
  /\ outcome' = "gave up"
  /\ UNCHANGED <<identity, misread, object, attempt, held, seen, current, rows, output, facts>>

\* Bug: no LIMIT 1.
EveryValidRow == {r \in ToSet(rows) : r.valid}

\* The row _load_document_facts reads: the newest valid one.
PolicyRows ==
  LET valid == {k \in DOMAIN rows : rows[k].valid}
  IN  {rows[k] : k \in {k \in valid : \A j \in valid : j <= k}}

\* The row the reviewer's page shows: the one with the greatest id.
ReviewerRows == {r \in ToSet(rows) : \A q \in ToSet(rows) : q.id <= r.id}

\* risk_score_activity judges the case, unless extraction itself sent it to a
\* reviewer.
Score ==
  /\ outcome = "extracted" /\ \A r \in output : ~r.needsReview
  /\ outcome' = "scored"
  /\ facts' = UNION {r.document : r \in PolicyRows}
  /\ UNCHANGED <<identity, misread, object, attempt, held, seen, current, rows, output>>

Next ==
  \/ Misread \/ Upload \/ Overwrite \/ Schedule \/ GiveUp \/ Score
  \/ \E a \in Attempts :
       \/ TimeOut(a) \/ WorkerDies(a) \/ AttemptFails(a)
       \/ Read(a) \/ Insert(a) \/ Complete(a)

Spec == Init /\ [][Next]_vars

-------------------------------------------------------------------------------
(* Properties *)

TypeOK ==
  /\ identity \in Identities
  /\ Cardinality(misread) <= MaxDamage
  /\ \A m \in misread : <<m.line, m.at>> \in MisreadAt /\ m.as \in MrzChar
  /\ attempt \in [Attempts -> {"none", "running", "late", "failed", "dead", "done"}]
  /\ shown \in Identities
  /\ \A a \in Attempts : Cardinality(held[a]) <= 1 /\ seen[a] \in 0..uploads
  /\ current \in 0..MaxAttempts
  /\ Len(rows) <= MaxAttempts
  /\ outcome \in {"waiting", "extracted", "gave up", "scored"}
  /\ Cardinality(output) <= 1 /\ Cardinality(facts) <= 1

\* What was read from the first page, and the documents read from its zone.
ReadFirst == UNION {held[a] : a \in {a \in Attempts : seen[a] = 1}}
FromMrz == UNION {r.document : r \in {r \in ReadFirst : r.method = "mrz"}}

MisreadIn(field) == {m \in misread : m.line = 2 /\ m.at \in ToSet(field)}
IsSlip(m) == m.as \in Digit /\ Printed(m) \in Digit

SlipsIn(field) == {m \in MisreadIn(field) : IsSlip(m)}

\* How one slip gets past the repair: weights are odd, so a digit five off and a
\* 2 or 7 that was read as Z and is taken for the other cancel out, in the
\* field's sum and in the composite's alike.
FiveApart(field) ==
  /\ \E m \in SlipsIn(field) : CharValue[m.as] - CharValue[Printed(m)] \in {5, -5}
  /\ \E m \in MisreadIn(field) : m.as = "Z"

\* Whatever OCR takes for something that looks like it, and even if one digit of
\* a date is taken for another digit, the dates of an accepted zone are the
\* holder's, however much filler is lost and wherever a line is cut in two;
\* FiveApart is the one way to a wrong date. (mrz.py:152-156 and 208-229, the
\* repair, and the century of _parse_yymmdd.)
AcceptedDatesAreTrue ==
  \A d \in FromMrz :
    /\ Cardinality(SlipsIn(BirthField)) <= 1 /\ d.birth # identity.birth => FiveApart(BirthField)
    /\ Cardinality(SlipsIn(ExpiryField)) <= 1 /\ d.expiry # identity.expiry => FiveApart(ExpiryField)

\* Characters of one value modulo 10: no check digit tells them apart.
BlindPairs == {{"0", "U"}, {"1", "L"}, {"6", "G"}, {"<", "K"}}

\* The document number is never repaired: a zone with one character of it
\* misread, its check digit read right, is accepted only if that character
\* belongs to a blind pair, and then with the wrong number. (mrz.py:146-150,
\* and ocr.py:5-8, which says that any misread is caught.)
NumberMisreadIsCaught ==
  LET wrong == MisreadIn(NumberField)
  IN  Cardinality(wrong) = 1 =>
        \A d \in FromMrz, m \in wrong :
          m.at <= 9 => {Printed(m), m.as} \in BlindPairs /\ d.number # identity.number

\* However much filler is lost, the run at the end stays the longest one, so
\* that FitFiller widens it and no other.
TailStaysLongest ==
  \A l \in 1..2 :
    LET line == BuildTd3(identity)[l]
        Length(r) == r[2] - r[1] + 1
        run == LongestRun(line)
    IN  \A q \in FillerRuns(line) \ {run} : Length(q) < Length(run) - Max(Lost)

\* A page whose characters are read right is read from the zone and gives
\* exactly what is printed, whatever filler is lost and however its lines are
\* cut into boxes: it never costs a call of the model. (mrz.py:171-182,
\* ocr.py:47-98, extract.py:80-83.)
ReadablePagesNeedNoModel ==
  misread = {} /\ TailStaysLongest =>
    \A r \in ReadFirst : r.method = "mrz" /\ \A d \in r.document : ~WrongButAccepted(d)

\* The attempt that stored rows[k] has read the photograph the workflow's answer
\* is from.
SameUpload(k) == seen[rows[k].by] = seen[current]

\* rows[k] was stored behind the row of the workflow's answer, by an attempt that
\* had been given up and had read another photograph.
LateFromAnother(k) ==
  ~SameUpload(k) /\ \E j \in DOMAIN rows : j < k /\ rows[j].by = current

\* One photograph, one document: if the answer the workflow got was read from the
\* zone, every row that came of the same photograph has that document, whatever
\* was retried, timed out and stored late, so that the reviewer, who is shown one
\* of the rows, sees another document only if the photograph was replaced between
\* two attempts; and the policy judges another one only if such a row came late.
\* A judged case has facts. (activities.py:199-253, 397-411, main.py:378-382.)
EvidenceAgrees ==
  /\ outcome = "scored" => facts # {}
  /\ \A r \in output :
       r.method = "mrz" =>
         /\ \A k \in DOMAIN rows :
              rows[k] \in ReviewerRows /\ SameUpload(k) => rows[k].document = r.document
         /\ outcome = "scored" =>
              \/ facts = r.document
              \/ \E k \in DOMAIN rows : LateFromAnother(k) /\ facts = rows[k].document
==============================================================================
