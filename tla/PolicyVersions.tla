--------------------------- MODULE PolicyVersions ----------------------------
(***************************************************************************)
(* Versioned risk policies of several tenants: concurrent PUT /policy,     *)
(* cases pinned to a version by the INSERT that creates them, and the      *)
(* risk_score activity, which judges a case under its pinned version each  *)
(* time an attempt of it runs.                                             *)
(*                                                                         *)
(* A statement sees what was committed when it began, so the handlers      *)
(* compute the version in one step and commit in another.                  *)
(***************************************************************************)
EXTENDS RiskScoring, FiniteSets

CONSTANTS
  Tenants,
  Admins,      \* PUT /policy requests
  Clients,     \* POST /cases requests, one case each
  TenantOf,    \* the tenant of each request
  Documents,   \* policy documents an admin may put
  Cases,       \* the evidence a case may turn out to have
  LastDay      \* bound: days counted from 0

ASSUME PolicyAssumption ==
  /\ TenantOf \in [Admins \union Clients -> Tenants]
  /\ \A d \in Documents : IsPolicy(d)
  /\ \A i \in Cases : IsInputs(i)
  /\ LastDay \in Nat

VARIABLES
  policies,   \* committed risk_policies rows
  put,        \* progress of each PUT
  case,       \* each case: pinned version, and the last assessment stored
  today

vars == <<policies, put, case, today>>

------------------------------------------------------------------------------
Versions(t) == {r.version : r \in {q \in policies : q.tenant = t}}

\* COALESCE(MAX(version), 0).
CurrentPolicyVersion(t) ==
  IF Versions(t) = {} THEN 0
  ELSE CHOOSE v \in Versions(t) : \A u \in Versions(t) : u <= v

NotScored == [inputs |-> None, day |-> 0, document |-> None, needs_review |-> TRUE,
              risk_score |-> 0]

Init ==
  /\ policies = {}
  /\ put = [a \in Admins |-> [at |-> "idle", version |-> 0, document |-> None]]
  /\ case = [c \in Clients |->
       [at |-> "idle", policy_version |-> 0, known |-> 0, score |-> NotScored]]
  /\ today = 0

------------------------------------------------------------------------------
(* put_risk_policy *)

\* INSERT ... SELECT COALESCE(MAX(version), 0) + 1, up to the index check.
PutPolicy(a) ==
  /\ put[a].at = "idle"
  /\ \E d \in Documents :
       put' = [put EXCEPT ![a] =
         [at |-> "inserting", version |-> CurrentPolicyVersion(TenantOf[a]) + 1,
          document |-> d]]
  /\ UNCHANGED <<policies, case, today>>

PolicyRow(a) ==
  [tenant |-> TenantOf[a], version |-> put[a].version, document |-> put[a].document]

Respond(a, status) == put' = [put EXCEPT ![a].at = status]

\* Bug: no primary key, two writers may own one version.
CommitPolicyUnkeyed(a) ==
  /\ put[a].at = "inserting"
  /\ policies' = policies \union {PolicyRow(a)}
  /\ Respond(a, "created")
  /\ UNCHANGED <<case, today>>

\* PRIMARY KEY (tenant_id, version): the second of two equal versions is a
\* UniqueViolationError, which the handler answers with 409.
CommitPolicy(a) ==
  /\ put[a].at = "inserting"
  /\ IF put[a].version \in Versions(TenantOf[a])
     THEN Respond(a, "conflict") /\ UNCHANGED policies
     ELSE Respond(a, "created") /\ policies' = policies \union {PolicyRow(a)}
  /\ UNCHANGED <<case, today>>

------------------------------------------------------------------------------
(* create_case: _CURRENT_POLICY_VERSION inside the INSERT *)

\* Bug: the version is read from a cache filled when the service started.
InsertCaseCached(c) ==
  /\ case[c].at = "requested"
  /\ case' = [case EXCEPT ![c].at = "inserting", ![c].policy_version = 0]
  /\ UNCHANGED <<policies, put, today>>

\* Bug: the INSERT leaves the column NULL.
InsertCaseUnpinned(c) ==
  /\ case[c].at = "requested"
  /\ case' = [case EXCEPT ![c].at = "inserting", ![c].policy_version = None]
  /\ UNCHANGED <<policies, put, today>>

\* `known` is what GET /policy would have answered when the client asked.
RequestCase(c) ==
  /\ case[c].at = "idle"
  /\ case' = [case EXCEPT ![c].at = "requested",
                          ![c].known = CurrentPolicyVersion(TenantOf[c])]
  /\ UNCHANGED <<policies, put, today>>

InsertCase(c) ==
  /\ case[c].at = "requested"
  /\ case' = [case EXCEPT ![c].at = "inserting",
                ![c].policy_version = CurrentPolicyVersion(TenantOf[c])]
  /\ UNCHANGED <<policies, put, today>>

CommitCase(c) ==
  /\ case[c].at = "inserting"
  /\ case' = [case EXCEPT ![c].at = "created"]
  /\ UNCHANGED <<policies, put, today>>

------------------------------------------------------------------------------
(* risk_score_activity *)

\* Bug: connected as the table's owner, so no tenant_isolation policy applies.
LoadPolicyAnyTenant(c) ==
  IF case[c].policy_version = 0 THEN {BuiltInPolicy}
  ELSE {r.document : r \in {q \in policies : q.version = case[c].policy_version}}

\* The documents _load_policy may return; none is its non-retryable error.
LoadPolicy(c) ==
  IF case[c].policy_version = 0 THEN {BuiltInPolicy}
  ELSE {r.document : r \in {q \in policies : /\ q.version = case[c].policy_version
                                             /\ q.tenant = TenantOf[c]}}

\* An attempt; a retry reads the same evidence, possibly on a later day.
RiskScoreCase(c) ==
  /\ case[c].at \in {"created", "scored"}
  /\ \E p \in LoadPolicy(c), i \in Cases :
       /\ case[c].at = "scored" => i = case[c].score.inputs
       /\ case' = [case EXCEPT ![c].at = "scored", ![c].score =
            [inputs |-> i, day |-> today, document |-> p,
             needs_review |-> NeedsReview(p, i, today),
             risk_score |-> RiskScore(p, i)]]
  /\ UNCHANGED <<policies, put, today>>

NextDay ==
  /\ today < LastDay
  /\ today' = today + 1
  /\ UNCHANGED <<policies, put, case>>

Next ==
  \/ \E a \in Admins : PutPolicy(a) \/ CommitPolicy(a)
  \/ \E c \in Clients :
       RequestCase(c) \/ InsertCase(c) \/ CommitCase(c) \/ RiskScoreCase(c)
  \/ NextDay

Spec == Init /\ [][Next]_vars

------------------------------------------------------------------------------
(* Properties *)

TypeOK ==
  /\ \A r \in policies :
       r.tenant \in Tenants /\ r.version \in Nat \ {0} /\ r.document \in Documents
  /\ \A a \in Admins :
       /\ put[a].at \in {"idle", "inserting", "created", "conflict"}
       /\ put[a].version \in Nat /\ put[a].document \in Documents \union {None}
  /\ \A c \in Clients :
       /\ case[c].at \in {"idle", "requested", "inserting", "created", "scored"}
       /\ case[c].policy_version \in Nat /\ case[c].known \in Nat
  /\ today \in 0..LastDay

\* An acknowledged PUT owns its version for good: its row is there, no other
\* row has its version, and the versions of a tenant are 1, 2, 3, ...
\* (main.py:912-937, 008_risk_policies.sql).
VersionsOwned ==
  /\ \A a \in Admins : put[a].at = "created" =>
       {r \in policies : r.tenant = TenantOf[a] /\ r.version = put[a].version}
         = {PolicyRow(a)}
  /\ \A t \in Tenants : Versions(t) = 1..Cardinality({r \in policies : r.tenant = t})

\* A case created after a policy was committed is judged under that version or
\* a later one (main.py:128-133).
PinIsCurrent ==
  \A c \in Clients : case[c].at \notin {"idle", "requested"} =>
    case[c].policy_version >= case[c].known

\* Every attempt to score a case uses the document its own tenant had made the
\* pinned version, whatever is put meanwhile (activities.py:378-394).
ScoredUnderPinned ==
  \A c \in Clients : case[c].at = "scored" =>
    IF case[c].policy_version = 0
    THEN case[c].score.document = BuiltInPolicy
    ELSE [tenant |-> TenantOf[c], version |-> case[c].policy_version,
          document |-> case[c].score.document] \in policies

\* i is no better evidence than j in any respect: no face is the worst score,
\* an unknown expiry date fires no rule.
NoBetter(i, j) ==
  LET x == i.face_match_score  y == j.face_match_score
      e == i.expiry_date  f == j.expiry_date
  IN /\ i.sanctions_hit_count >= j.sanctions_hit_count
     /\ x = None \/ (y # None /\ x <= y)
     /\ i.extraction_confidence <= j.extraction_confidence
     /\ f = None \/ (e # None /\ e <= f)
     /\ i.nationality = j.nationality

\* Two cases of a tenant judged alike: evidence that is no better is never
\* cleared where better evidence was sent to a human.  A policy that does not
\* look at expired documents is exempt in that one respect, since it may still
\* look at those about to expire (risk_scoring.py:68-74).
WorseIsNotCleared ==
  \A c, d \in Clients :
    LET s == case[c].score  q == case[d].score
    IN /\ case[c].at = "scored" /\ case[d].at = "scored"
       /\ s.document = q.document /\ s.day = q.day
       /\ NoBetter(s.inputs, q.inputs)
       /\ s.document.review_expired \/ s.inputs.expiry_date = q.inputs.expiry_date
       /\ q.needs_review
       => s.needs_review
==============================================================================
