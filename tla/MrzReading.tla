------------------------------ MODULE MrzReading ------------------------------
(***************************************************************************)
(* The machine-readable zone of a passport, read the way                   *)
(* pipeline/extraction/mrz.py and pipeline/ocr.py read it: text boxes      *)
(* become two lines of 44 characters, the lines become fields, and a field *)
(* that fails its check digit is repaired where only one repair fits.      *)
(*                                                                         *)
(* A character is a one-letter string and a line a sequence of characters, *)
(* since every property of this code is about single characters.  Python's *)
(* position i is i + 1 here.                                               *)
(***************************************************************************)
EXTENDS Integers, Sequences, SequencesExt, FiniteSetsExt

CONSTANTS
  CurrentYY,    \* dt.date.today().year % 100
  StateCodes    \* TD3_STATE_CODES, as sequences of three characters

ASSUME CurrentYYAssumption == CurrentYY \in 0..99

LineLength == 44
MinPlausibleLength == 30

Digits == <<"0", "1", "2", "3", "4", "5", "6", "7", "8", "9">>
Letters == <<"A", "B", "C", "D", "E", "F", "G", "H", "I", "J", "K", "L", "M",
             "N", "O", "P", "Q", "R", "S", "T", "U", "V", "W", "X", "Y", "Z">>
Alphabet == Digits \o Letters
Digit == ToSet(Digits)
Letter == ToSet(Letters)
MrzChar == Digit \cup Letter \cup {"<"}

Filler(n) == [k \in 1..n |-> "<"]

-------------------------------------------------------------------------------
(* Check digits and dates *)

CharValue == [c \in MrzChar |->
                IF c = "<" THEN 0
                ELSE (CHOOSE k \in DOMAIN Alphabet : Alphabet[k] = c) - 1]

Weight == <<7, 3, 1>>

\* The weighted sum of the first n characters of s, for every n.
Sums(s) ==
  LET total[n \in 0..Len(s)] ==
        IF n = 0 THEN 0
        ELSE total[n - 1] + CharValue[s[n]] * Weight[((n - 1) % 3) + 1]
  IN  total

CheckDigit(s) == Sums(s)[Len(s)] % 10

Passes(s, check) == CheckDigit(s) = CharValue[check]

NoDate == <<>>

IsLeap(y) == (y % 4 = 0 /\ y % 100 # 0) \/ y % 400 = 0

DaysIn(y, m) ==
  CASE m \in {4, 6, 9, 11} -> 30
    [] m = 2 -> (IF IsLeap(y) THEN 29 ELSE 28)
    [] OTHER -> 31

\* dt.date accepts it.
IsDate(y, m, d) == m \in 1..12 /\ d \in 1..DaysIn(y, m)

\* A two-digit year of birth after the current one is of the last century.
ParseYymmdd(raw, future) ==
  IF ~(ToSet(raw) \subseteq Digit) THEN NoDate
  ELSE LET Two(k) == 10 * CharValue[raw[k]] + CharValue[raw[k + 1]]
           year == Two(1) + (IF ~future /\ Two(1) > CurrentYY THEN 1900 ELSE 2000)
       IN  IF IsDate(year, Two(3), Two(5)) THEN <<year, Two(3), Two(5)>> ELSE NoDate

-------------------------------------------------------------------------------
(* The two lines *)

\* s.strip("<"), and s.rstrip("<")
TrimRight(s) ==
  LET kept == {k \in DOMAIN s : s[k] # "<"}
  IN  IF kept = {} THEN <<>> ELSE SubSeq(s, 1, Max(kept))
Trim(s) ==
  LET kept == {k \in DOMAIN s : s[k] # "<"}
  IN  IF kept = {} THEN <<>> ELSE SubSeq(s, Min(kept), Max(kept))

\* s.split("<<", 1): what comes before the first "<<" and what comes after it.
Gaps(s) == {k \in 1..(Len(s) - 1) : s[k] = "<" /\ s[k + 1] = "<"}
BeforeGap(s) == IF Gaps(s) = {} THEN s ELSE SubSeq(s, 1, Min(Gaps(s)) - 1)
AfterGap(s) == IF Gaps(s) = {} THEN <<>> ELSE SubSeq(s, Min(Gaps(s)) + 2, Len(s))

Surname(nameField) == Trim(BeforeGap(nameField))
GivenNames(nameField) == Trim(BeforeGap(AfterGap(nameField)))

\* The only defence of a line without check digits: its shape, "<<" in the
\* name and an issuing state that exists.
LineOneOk(line) ==
  /\ line[1] = "P"
  /\ ToSet(line) \cap Digit = {}
  /\ Gaps(SubSeq(line, 6, 44)) # {}
  /\ SubSeq(line, 3, 5) \in StateCodes

\* The characters the composite check digit covers.
CompositeOf(line) ==
  SubSeq(line, 1, 10) \o
    (SubSeq(line, 14, 20) \o (SubSeq(line, 22, 28) \o SubSeq(line, 29, 43)))

ParseTd3(line1, line2) ==
  LET birth == ParseYymmdd(SubSeq(line2, 14, 19), FALSE)
      expiry == ParseYymmdd(SubSeq(line2, 22, 27), TRUE)
      nameField == SubSeq(line1, 6, 44)
  IN  [valid |->
         /\ Passes(SubSeq(line2, 1, 9), line2[10])
         /\ Passes(SubSeq(line2, 14, 19), line2[20])
         /\ Passes(SubSeq(line2, 22, 27), line2[28])
         /\ line2[43] = "<" \/ Passes(SubSeq(line2, 29, 42), line2[43])
         /\ Passes(CompositeOf(line2), line2[44])
         /\ birth # NoDate /\ expiry # NoDate
         /\ LineOneOk(line1),
       document |->
         [surname |-> Surname(nameField), given |-> GivenNames(nameField),
          number |-> TrimRight(SubSeq(line2, 1, 9)),
          nationality |-> TrimRight(SubSeq(line2, 11, 13)),
          birth |-> birth, expiry |-> expiry]]

-------------------------------------------------------------------------------
(* Tolerant reading *)

\* Maximal runs of filler, as <<first, last>>.
FillerRuns(line) ==
  LET starts == {k \in DOMAIN line : line[k] = "<" /\ (k = 1 \/ line[k - 1] # "<")}
      RunEnd(k) == Max({j \in k..Len(line) : \A i \in k..j : line[i] = "<"})
  IN  {<<k, RunEnd(k)>> : k \in starts}

\* max() keeps the first of the longest runs.
LongestRun(line) ==
  CHOOSE r \in FillerRuns(line) : \A q \in FillerRuns(line) :
    \/ q[2] - q[1] < r[2] - r[1]
    \/ q[2] - q[1] = r[2] - r[1] /\ r[1] <= q[1]

\* Bug: a short line is padded at its end.
FitFillerAtTheEnd(line) == SubSeq(line \o Filler(LineLength), 1, LineLength)

FitFiller(line) ==
  IF Len(line) >= LineLength THEN SubSeq(line, 1, LineLength)
  ELSE LET missing == Filler(LineLength - Len(line))
       IN  IF ToSet(line) \cap {"<"} = {} THEN line \o missing
           ELSE LET run == LongestRun(line)
                IN  SubSeq(line, 1, run[2]) \o missing
                      \o SubSeq(line, run[2] + 1, Len(line))

DigitReadings ==
  [c \in Letter |->
     CASE c \in {"O", "Q", "D", "U"} -> {"0"}
       [] c \in {"I", "L"} -> {"1"}
       [] c = "T" -> {"7"}
       [] c = "Z" -> {"2", "7"}
       [] c = "S" -> {"5"}
       [] c = "B" -> {"8"}
       [] c = "G" -> {"6"}
       [] OTHER -> {c}]

LetterReadings ==
  [c \in MrzChar |->
     CASE c = "0" -> "O" [] c = "1" -> "I" [] c \in {"2", "7"} -> "Z"
       [] c = "5" -> "S" [] c = "6" -> "G" [] c = "8" -> "B"
       [] OTHER -> c]

LineTwoNumeric == {10} \cup 14..20 \cup 22..28 \cup {44}
LineTwoAlpha == 11..13

\* Bug: the document number is searched too.
ReadingsEverywhere(i, c) ==
  IF i \in LineTwoAlpha THEN {LetterReadings[c]}
  ELSE IF c \in Letter /\ (i \in LineTwoNumeric \/ i <= 9) THEN DigitReadings[c] \cup {c}
  ELSE {c}

\* What the character c read at position i of line 2 may stand for.  The
\* document number (1..9) is in neither set: it is kept as read.
Readings(i, c) ==
  IF i \in LineTwoNumeric THEN (IF c \in Letter THEN DigitReadings[c] ELSE {c})
  ELSE IF i \in LineTwoAlpha THEN {LetterReadings[c]}
  ELSE {c}

NumberField == <<1, 2, 3, 4, 5, 6, 7, 8, 9, 10>>
BirthField == <<14, 15, 16, 17, 18, 19, 20>>
ExpiryField == <<22, 23, 24, 25, 26, 27, 28>>

Unresolved == <<>>

PassesAsNumber(s) == Last(s) \in Digit /\ Passes(Front(s), Last(s))

\* Every string of S, followed by every character of C.
Followed(S, C) == UNION {{Append(s, c) : c \in C} : s \in S}

\* Every combination of what the characters of the field may stand for.
Candidates(line2, field) ==
  LET read[n \in 0..Len(field)] ==
        IF n = 0 THEN {<<>>}
        ELSE Followed(read[n - 1], Readings(field[n], line2[field[n]]))
  IN  read[Len(field)]

\* Bug: of two readings that tie, one is taken.
ResolveFieldAnyhow(line2, field) ==
  LET original == [k \in DOMAIN field |-> line2[field[k]]]
      candidates == Candidates(line2, field)
      passing == {s \in candidates : PassesAsNumber(s)}
  IN  IF Passes(Front(original), Last(original)) THEN original
      ELSE IF passing = {} THEN Unresolved ELSE CHOOSE s \in passing : TRUE

\* The field as read if it passes; else the reading that passes with the
\* fewest substitutions, if there is exactly one.  _MAX_READINGS is out of
\* reach: a field has at most seven positions with two readings each.
ResolveField(line2, field) ==
  LET original == [k \in DOMAIN field |-> line2[field[k]]]
      candidates == Candidates(line2, field)
      Changes(s) == Cardinality({k \in DOMAIN s : s[k] # original[k]})
      passing == {s \in candidates : PassesAsNumber(s)}
      winners == {s \in passing : \A t \in passing : Changes(s) <= Changes(t)}
  IN  IF Passes(Front(original), Last(original)) THEN original
      ELSE IF Cardinality(winners) = 1 THEN CHOOSE s \in winners : TRUE
      ELSE Unresolved

Put(line, field, value) ==
  [i \in DOMAIN line |->
     IF \E k \in DOMAIN field : field[k] = i
     THEN value[CHOOSE k \in DOMAIN field : field[k] = i] ELSE line[i]]

\* Every field resolved on its own; the composite digit has then to pass over
\* the result, under exactly one reading of it.
Repair(line1, line2) ==
  LET number == ResolveField(line2, NumberField)
      birth == ResolveField(line2, BirthField)
      expiry == ResolveField(line2, ExpiryField)
      letters == [i \in DOMAIN line2 |->
                    IF i \in LineTwoAlpha THEN LetterReadings[line2[i]] ELSE line2[i]]
      resolved == Put(Put(Put(letters, NumberField, number), BirthField, birth),
                      ExpiryField, expiry)
      passing == {r \in {ParseTd3(line1, [resolved EXCEPT ![44] = c]) :
                           c \in Readings(44, line2[44])} : r.valid}
  IN  IF Unresolved \notin {number, birth, expiry} /\ Cardinality(passing) = 1
      THEN passing ELSE {}

\* The documents a reading of the two lines gives: one, or none.
ParseTd3Tolerant(lineRead1, lineRead2) ==
  LET fitted == FitFiller(lineRead1)
      line1 == [i \in DOMAIN fitted |->
                  IF i > 2 THEN LetterReadings[fitted[i]] ELSE fitted[i]]
      line2 == FitFiller(lineRead2)
      exact == ParseTd3(line1, line2)
  IN  {r.document : r \in IF exact.valid THEN {exact} ELSE Repair(line1, line2)}

-------------------------------------------------------------------------------
(* From the text boxes of an image to two lines *)

\* A box is [top, height, left, text]; Centre is twice its vertical centre.
Centre(box) == 2 * box.top + box.height

\* Two boxes are on one row when their centres are closer than half the
\* taller one.
SameRow(a, b) ==
  LET apart == Centre(a) - Centre(b)
      taller == Max({a.height, b.height})
  IN  -taller < apart /\ apart < taller

Rows(boxes) ==
  FoldLeft(LAMBDA rows, box :
             IF rows # <<>> /\ SameRow(Last(Last(rows)), box)
             THEN Append(Front(rows), Append(Last(rows), box))
             ELSE Append(rows, <<box>>),
           <<>>, SetToSortSeq(boxes, LAMBDA a, b : Centre(a) < Centre(b)))

RowTop(row) == Min({box.top : box \in ToSet(row)})

RowText(row) ==
  FoldLeft(LAMBDA text, box : text \o box.text, <<>>,
           SetToSortSeq(ToSet(row), LAMBDA a, b : a.left < b.left))

\* The bottom two rows long enough to be of the zone, or nothing.
AssembleMrzLines(boxes) ==
  LET long == {row \in ToSet(Rows(boxes)) : Len(RowText(row)) >= MinPlausibleLength}
      byTop == SetToSortSeq(long, LAMBDA a, b : RowTop(a) < RowTop(b))
  IN  IF Len(byTop) < 2 THEN <<>>
      ELSE <<FitFiller(RowText(byTop[Len(byTop) - 1])), FitFiller(RowText(Last(byTop)))>>
==============================================================================
