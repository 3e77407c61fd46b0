---------------------------- MODULE CaseLifecycle ----------------------------
(***************************************************************************)
(* What a tenant may rely on about one KYC case, whatever Temporal, the    *)
(* workers and the reviewers do underneath: a case is submitted once, is   *)
(* either cleared automatically or sent to a human, and a human's verdict  *)
(* can only be a decision some reviewer has recorded.  Nobody rejects a    *)
(* case automatically, nothing moves a decided case, and a webhook tells   *)
(* the decision the case has.                                              *)
(***************************************************************************)

VARIABLES
  status,     \* cases.status, "absent" before the row exists
  decision,   \* cases.decision, "none" for NULL
  opinions,   \* the verdicts recorded in review_decisions
  announced   \* the decisions the tenant's webhooks were told

vars == <<status, decision, opinions, announced>>

Verdicts == {"approved", "rejected"}

Init ==
  /\ status = "absent"
  /\ decision = "none"
  /\ opinions = {}
  /\ announced = {}

Submit ==
  /\ status = "absent"
  /\ status' = "pending"
  /\ UNCHANGED <<decision, opinions, announced>>

SendToReview ==
  /\ status = "pending"
  /\ status' = "needs_review"
  /\ UNCHANGED <<decision, opinions, announced>>

\* The status check and the insert of a decision are two statements, so an
\* opinion may still arrive just after another one has been applied.
Opine(d) ==
  /\ status \notin {"absent", "pending"}
  /\ opinions' = opinions \union {d}
  /\ UNCHANGED <<status, decision, announced>>

Clear ==
  /\ status = "pending"
  /\ status' = "approved"
  /\ decision' = "approved"
  /\ UNCHANGED <<opinions, announced>>

Decide(d) ==
  /\ status = "needs_review"
  /\ d \in opinions
  /\ status' = d
  /\ decision' = d
  /\ UNCHANGED <<opinions, announced>>

\* Only the decision the case has, and so never two different ones.
Announce ==
  /\ decision \in Verdicts
  /\ announced' = announced \union {decision}
  /\ UNCHANGED <<status, decision, opinions>>

Next ==
  \/ Submit
  \/ SendToReview
  \/ Clear
  \/ Announce
  \/ \E d \in Verdicts \union {"escalated"} : Opine(d)
  \/ \E d \in Verdicts : Decide(d)

Spec == Init /\ [][Next]_vars
==============================================================================
