------------------------------ MODULE MCKycCase ------------------------------
(***************************************************************************)
(* Instances of KycCase for TLC.                                           *)
(***************************************************************************)
EXTENDS KycCase, TLC

\* POST /cases always inserts both documents rows.
MCComplete == {DocTypes}

\* Rows seeded by scripts may lack one.
MCAnyDocuments == {{}, {"id_document"}, DocTypes}

\* Reviewers are interchangeable.
MCSymmetry == Permutations(Reviewers)
==============================================================================
