--------------------------- MODULE MCPolicyVersions ---------------------------
(***************************************************************************)
(* Two administrators and two cases of one tenant, and an administrator of *)
(* another whose version 1 must never be mistaken for theirs.              *)
(***************************************************************************)
EXTENDS PolicyVersions

CONSTANTS a1, a2, b1, t1, t2

MCTenantOf == [r \in Admins \union Clients |-> IF r = b1 THEN t2 ELSE t1]

Lenient ==
  [min_combined |-> 1, face_match_weight |-> 10, extraction_weight |-> 10,
   review_expired |-> TRUE, expiring_within_days |-> 1,
   min_face_match |-> 8, review_nationalities |-> {"PRK"}]
Strict ==
  [BuiltInPolicy EXCEPT !.min_combined = 19, !.expiring_within_days = 3]
MCDocuments == {Lenient, Strict}

Clean ==
  [sanctions_hit_count |-> 0, face_match_score |-> 19, extraction_confidence |-> 18,
   expiry_date |-> None, nationality |-> "FRA"]
MCCases ==
  {Clean,
   [Clean EXCEPT !.sanctions_hit_count = 1],
   [Clean EXCEPT !.face_match_score = None],
   [Clean EXCEPT !.face_match_score = -4],
   [Clean EXCEPT !.face_match_score = -4, !.extraction_confidence = 2],
   [Clean EXCEPT !.expiry_date = 0],
   [Clean EXCEPT !.expiry_date = 2],
   [Clean EXCEPT !.nationality = "PRK"]}
==============================================================================
