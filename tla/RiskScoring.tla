----------------------------- MODULE RiskScoring -----------------------------
(***************************************************************************)
(* The risk policy document and its evaluator, as operators.  Scores and   *)
(* weights are integers out of Unit (the code's 1.0), products out of      *)
(* Unit * Unit, days are days; the code's floats differ from these only in *)
(* the last bits.  An absent optional field or input is None.              *)
(***************************************************************************)
EXTENDS Integers

CONSTANTS
  Unit,            \* the integer that stands for 1.0
  Nationalities,   \* nationality codes documents carry
  None             \* an absent value

ASSUME UnitAssumption == Unit \in Nat \ {0}

(* AutoClear, DocumentRules and RiskPolicy, with their validators *)
IsPolicy(p) ==
  /\ p.min_combined \in 1..Unit
  /\ p.face_match_weight \in 0..Unit
  /\ p.extraction_weight \in 0..Unit
  /\ p.face_match_weight + p.extraction_weight = Unit
  /\ p.review_expired \in BOOLEAN
  /\ p.expiring_within_days \in {None} \union 1..3650
  /\ p.min_face_match \in {None} \union 0..Unit
  /\ p.review_nationalities \subseteq Nationalities

\* 0.85, 0.6 and 0.4; Unit is a multiple of 20 in every instance.
BuiltInPolicy ==
  [min_combined |-> (Unit * 17) \div 20,
   face_match_weight |-> (Unit * 3) \div 5,
   extraction_weight |-> Unit - (Unit * 3) \div 5,
   review_expired |-> FALSE, expiring_within_days |-> None,
   min_face_match |-> None, review_nationalities |-> {}]

\* RiskInputs.  The face score is a cosine similarity, None without a face.
IsInputs(i) ==
  /\ i.sanctions_hit_count \in Nat
  /\ i.face_match_score \in {None} \union (-Unit)..Unit
  /\ i.extraction_confidence \in 0..Unit
  /\ i.expiry_date \in {None} \union Int
  /\ i.nationality \in {None} \union Nationalities

------------------------------------------------------------------------------
(* evaluate_policy *)

HardStop(i) == i.sanctions_hit_count > 0 \/ i.face_match_score = None

\* Bug: the similarity is taken for a distance.
CombinedOfDistance(p, i) ==
  p.face_match_weight * (Unit - i.face_match_score)
    + p.extraction_weight * i.extraction_confidence

Combined(p, i) ==
  p.face_match_weight * i.face_match_score
    + p.extraction_weight * i.extraction_confidence

\* Out of Unit * Unit.
RiskScore(p, i) ==
  IF HardStop(i) THEN Unit * Unit ELSE Unit * Unit - Combined(p, i)

ExpiryNeedsReview(p, i, today) ==
  /\ i.expiry_date # None
  /\ LET days_left == i.expiry_date - today
     IN IF days_left < 0 THEN p.review_expired
        ELSE /\ p.expiring_within_days # None
             /\ days_left <= p.expiring_within_days

NeedsReview(p, i, today) ==
  \/ HardStop(i)
  \/ Combined(p, i) < p.min_combined * Unit
  \/ p.min_face_match # None /\ i.face_match_score < p.min_face_match
  \/ ExpiryNeedsReview(p, i, today)
  \/ i.nationality \in p.review_nationalities
==============================================================================
