----------------------------- MODULE CaseRegister -----------------------------
(***************************************************************************)
(* What remains true of one KYC case however often it is run: after        *)
(* replayed requests, resets of failed workflows and transactions that     *)
(* commit after their attempt was given up.  CaseLifecycle is what a       *)
(* single run keeps; here a row may move back to review and a verdict may  *)
(* replace another, but the case is never withdrawn, its documents never   *)
(* change, and what is decided or announced always has its support, which  *)
(* only grows.                                                             *)
(***************************************************************************)

CONSTANT DocTypes   \* the documents a complete case has

VARIABLES
  status,     \* cases.status, "absent" before the row exists
  decision,   \* cases.decision, "none" for NULL
  docs,       \* the documents rows
  opinions,   \* the decisions recorded in review_decisions
  audited,    \* those of them the audit trail shows
  cleared,    \* may the case be approved without a reviewer?
  announced   \* what the webhooks have been told

vars == <<status, decision, docs, opinions, audited, cleared, announced>>

Verdicts == {"approved", "rejected"}

Init ==
  /\ status = "absent"
  /\ decision = "none"
  /\ docs = {}
  /\ opinions = {}
  /\ audited = {}
  /\ cleared = FALSE
  /\ announced = {}

\* A verdict a reviewer recorded and the trail shows, or a cleared approval.
Supported(d) == d \in audited \/ (d = "approved" /\ cleared)

Submit ==
  /\ status = "absent"
  /\ status' = "pending"
  /\ docs' \in SUBSET DocTypes
  /\ UNCHANGED <<decision, opinions, audited, cleared, announced>>

\* From any status: a second run parks a decided case again.
SendToReview ==
  /\ status # "absent"
  /\ status' = "needs_review"
  /\ UNCHANGED <<decision, docs, opinions, audited, cleared, announced>>

\* Nobody judges a case that was never sent to review.
Opine(d) ==
  /\ status \notin {"absent", "pending"}
  /\ opinions' = opinions \union {d}
  /\ UNCHANGED <<status, decision, docs, audited, cleared, announced>>

Audit(d) ==
  /\ d \in opinions
  /\ audited' = audited \union {d}
  /\ UNCHANGED <<status, decision, docs, opinions, cleared, announced>>

Clear ==
  /\ docs = DocTypes
  /\ cleared' = TRUE
  /\ UNCHANGED <<status, decision, docs, opinions, audited, announced>>

Decide(d) ==
  /\ status # "absent"
  /\ Supported(d)
  /\ status' = d
  /\ decision' = d
  /\ UNCHANGED <<docs, opinions, audited, cleared, announced>>

\* Webhooks hear of supported verdicts, and not before the case has one.
Announce(d) ==
  /\ decision # "none"
  /\ Supported(d)
  /\ announced' = announced \union {d}
  /\ UNCHANGED <<status, decision, docs, opinions, audited, cleared>>

Next ==
  \/ Submit
  \/ SendToReview
  \/ Clear
  \/ \E d \in Verdicts \union {"escalated"} : Opine(d) \/ Audit(d)
  \/ \E d \in Verdicts : Decide(d) \/ Announce(d)

Spec == Init /\ [][Next]_vars
==============================================================================
