------------------------ MODULE PolicyVersionsProofs -------------------------
(***************************************************************************)
(* Proofs about PolicyVersions for every set of tenants, requests, policy  *)
(* documents and evidence.                                                 *)
(***************************************************************************)
EXTENDS PolicyVersions, FiniteSetTheorems, TLAPS

RowsOf(t) == {r \in policies : r.tenant = t}
Count(t) == Cardinality(RowsOf(t))

Rows == [tenant : Tenants, version : Nat \ {0}, document : Documents]
Puts == [at : {"idle", "inserting", "created", "conflict"}, version : Nat,
         document : Documents \union {None}]
Scores == [inputs : Cases \union {None}, day : Nat,
           document : Documents \union {None, BuiltInPolicy},
           needs_review : BOOLEAN, risk_score : Int]
CaseRows == [at : {"idle", "requested", "inserting", "created", "scored"},
             policy_version : Nat, known : Nat, score : Scores]

Typed ==
  /\ policies \subseteq Rows
  /\ IsFiniteSet(policies)
  /\ put \in [Admins -> Puts]
  /\ case \in [Clients -> CaseRows]
  /\ today \in 0..LastDay

\* The versions of a tenant are numbered by its rows, so that the next one is
\* free exactly when it is one more than the rows there are.
Numbered == \A t \in Tenants : Versions(t) = 1..Count(t)

\* What a PUT computed is at most one past the rows committed since.
NextFree ==
  \A a \in Admins : put[a].at = "inserting" =>
    /\ put[a].version \in 1..(Count(TenantOf[a]) + 1)
    /\ put[a].document \in Documents

OneRowEach ==
  \A q, r \in policies : q.tenant = r.tenant /\ q.version = r.version => q = r

Owned == \A a \in Admins : put[a].at = "created" => PolicyRow(a) \in policies

Pinned ==
  \A c \in Clients :
    /\ case[c].at # "idle" => case[c].known <= Count(TenantOf[c])
    /\ case[c].at \notin {"idle", "requested"} =>
         case[c].known <= case[c].policy_version

PolicyInv == Typed /\ Numbered /\ NextFree /\ OneRowEach /\ Owned /\ Pinned

------------------------------------------------------------------------------
(* The numbering of versions *)

\* A tenant has finitely many versions.
LEMMA CountType ==
  ASSUME Typed, NEW t \in Tenants
  PROVE  IsFiniteSet(RowsOf(t)) /\ Count(t) \in Nat
  <1>1. RowsOf(t) \in SUBSET policies
    BY DEF RowsOf
  <1>2. IsFiniteSet(RowsOf(t))
    BY <1>1, FS_Subset DEF Typed
  <1>3. QED
    BY <1>2, FS_CardinalityType DEF Count

\* COALESCE(MAX(version), 0) counts the tenant's rows.
LEMMA CurrentIsCount ==
  ASSUME Typed, Numbered, NEW t \in Tenants
  PROVE  CurrentPolicyVersion(t) = Count(t)
  <1>1. Versions(t) = 1..Count(t) /\ Count(t) \in Nat
    BY CountType DEF Numbered
  <1>2. CASE Count(t) = 0
    BY <1>1, <1>2 DEF CurrentPolicyVersion
  <1>3. CASE Count(t) # 0
    <2>1. Count(t) \in Versions(t) /\ \A u \in Versions(t) : u <= Count(t)
      BY <1>1, <1>3
    <2>2. \A v \in Versions(t) :
            (\A u \in Versions(t) : u <= v) => v = Count(t)
      BY <1>1, <2>1
    <2>3. QED
      BY <2>1, <2>2 DEF CurrentPolicyVersion
  <1>4. QED
    BY <1>2, <1>3

\* Who does not touch risk_policies does not change anyone's versions.
LEMMA CountIsFunctionOfRows ==
  ASSUME policies' = policies, NEW t
  PROVE  Count(t)' = Count(t) /\ Versions(t)' = Versions(t)
  BY DEF Count, RowsOf, Versions

\* A row's version is one of its tenant's.
LEMMA VersionOfRow ==
  ASSUME NEW r \in policies
  PROVE  r.version \in Versions(r.tenant)
  BY DEF Versions

\* The row an unhindered PUT commits is the tenant's next one.
LEMMA CommittedRow ==
  ASSUME PolicyInv, NEW a \in Admins, put[a].at = "inserting",
         put[a].version \notin Versions(TenantOf[a]),
         policies' = policies \union {PolicyRow(a)}
  PROVE  /\ policies' \subseteq Rows /\ IsFiniteSet(policies')
         /\ put[a].version = Count(TenantOf[a]) + 1
         /\ \A t \in Tenants :
              Count(t)' = IF t = TenantOf[a] THEN Count(t) + 1 ELSE Count(t)
         /\ \A t \in Tenants :
              Versions(t)' = IF t = TenantOf[a] THEN Versions(t) \union {put[a].version}
                             ELSE Versions(t)
  <1> DEFINE own == TenantOf[a]
             row == PolicyRow(a)
  <1>1. own \in Tenants /\ put[a].version \in 1..(Count(own) + 1) /\ row \in Rows
        /\ row.tenant = own /\ row.version = put[a].version
    <2>1. own \in Tenants
      BY PolicyAssumption
    <2>2. Count(own) \in Nat
      BY <2>1, CountType DEF PolicyInv
    <2>3. put[a].version \in 1..(Count(own) + 1) /\ put[a].document \in Documents
      BY DEF PolicyInv, NextFree
    <2>4. QED
      BY <2>1, <2>2, <2>3 DEF Rows, PolicyRow
  <1>2. Count(own) \in Nat /\ Versions(own) = 1..Count(own)
    BY <1>1, CountType DEF PolicyInv, Numbered
  <1>3. put[a].version = Count(own) + 1
    BY <1>1, <1>2
  <1>4. policies' \subseteq Rows /\ IsFiniteSet(policies')
    BY <1>1, FS_AddElement DEF PolicyInv, Typed
  <1>5. ASSUME NEW t \in Tenants
        PROVE  /\ Count(t)' = IF t = own THEN Count(t) + 1 ELSE Count(t)
               /\ Versions(t)' = IF t = own THEN Versions(t) \union {put[a].version}
                                 ELSE Versions(t)
    <2>1. CASE t = own
      <3>1. RowsOf(t)' = RowsOf(t) \union {row}
        BY <1>1, <2>1 DEF RowsOf
      <3>2. row \notin RowsOf(t)
        BY <1>1, <2>1, VersionOfRow DEF RowsOf
      <3>3. Count(t)' = Count(t) + 1
        <4>1. IsFiniteSet(RowsOf(t))
          BY CountType DEF PolicyInv
        <4>2. QED
          BY <3>1, <3>2, <4>1, FS_AddElement DEF Count
      <3>4. Versions(t)' = Versions(t) \union {put[a].version}
        BY <1>1, <2>1 DEF Versions
      <3>5. QED
        BY <2>1, <3>3, <3>4
    <2>2. CASE t # own
      <3>1. RowsOf(t)' = RowsOf(t)
        BY <1>1, <2>2 DEF RowsOf
      <3>2. Versions(t)' = Versions(t)
        BY <1>1, <2>2 DEF Versions
      <3>3. QED
        BY <2>2, <3>1, <3>2 DEF Count
    <2>3. QED
      BY <2>1, <2>2
  <1>6. QED
    BY <1>3, <1>4, <1>5

------------------------------------------------------------------------------
(* The invariant and each step *)

\* There are no versions, and nobody knows of any.
LEMMA InitPolicy == Init => PolicyInv
  <1> SUFFICES ASSUME Init
               PROVE  PolicyInv
    OBVIOUS
  <1>1. Typed
    BY FS_EmptySet, PolicyAssumption DEF Init, Typed, Puts, CaseRows, Scores, NotScored
  <1>2. Numbered
    <2>1. ASSUME NEW t \in Tenants
          PROVE  Versions(t) = 1..Count(t)
      <3>1. Versions(t) = {} /\ RowsOf(t) = {}
        BY DEF Init, Versions, RowsOf
      <3>2. QED
        BY <3>1, FS_EmptySet DEF Count
    <2>2. QED
      BY <2>1 DEF Numbered
  <1>3. NextFree /\ OneRowEach /\ Owned /\ Pinned
    BY DEF Init, NextFree, OneRowEach, Owned, Pinned
  <1>4. QED
    BY <1>1, <1>2, <1>3 DEF PolicyInv

\* Administrators and clients belong to tenants.
LEMMA TenantTyped ==
  /\ \A a \in Admins : TenantOf[a] \in Tenants
  /\ \A c \in Clients : TenantOf[c] \in Tenants
  BY PolicyAssumption

\* A PUT that computes the next version keeps the numbering.
LEMMA PutPolicyStep ==
  ASSUME PolicyInv, NEW a \in Admins, PutPolicy(a)
  PROVE  PolicyInv'
  <1>0. PICK d \in Documents :
          put' = [put EXCEPT ![a] =
            [at |-> "inserting", version |-> CurrentPolicyVersion(TenantOf[a]) + 1,
             document |-> d]]
    BY DEF PutPolicy
  <1>1. CurrentPolicyVersion(TenantOf[a]) = Count(TenantOf[a])
        /\ Count(TenantOf[a]) \in Nat
    BY CurrentIsCount, CountType, TenantTyped DEF PolicyInv
  <1>2. UNCHANGED <<policies, case, today>>
    BY DEF PutPolicy
  <1>3. put' \in [Admins -> Puts]
    BY <1>0, <1>1 DEF PolicyInv, Typed, Puts
  <1>4. \A t : Count(t)' = Count(t) /\ Versions(t)' = Versions(t)
    BY <1>2, CountIsFunctionOfRows
  <1>5. NextFree'
    BY <1>0, <1>1, <1>4 DEF PolicyInv, Typed, NextFree
  <1>6. Owned'
    BY <1>0, <1>2 DEF PolicyInv, Typed, Owned, PolicyRow
  <1>7. Typed' /\ Numbered' /\ OneRowEach' /\ Pinned'
    BY <1>2, <1>3, <1>4 DEF PolicyInv, Typed, Numbered, OneRowEach, Pinned
  <1>8. QED
    BY <1>5, <1>6, <1>7 DEF PolicyInv

\* A PUT that commits, or loses to another, keeps the numbering.
LEMMA CommitPolicyStep ==
  ASSUME PolicyInv, NEW a \in Admins, CommitPolicy(a)
  PROVE  PolicyInv'
  <1>0. put \in [Admins -> Puts]
    BY DEF PolicyInv, Typed
  <1>1. put[a].at = "inserting" /\ UNCHANGED <<case, today>>
    BY DEF CommitPolicy
  <1>2. CASE put[a].version \in Versions(TenantOf[a])
    <2>1. put' = [put EXCEPT ![a].at = "conflict"] /\ policies' = policies
      BY <1>2 DEF CommitPolicy, Respond
    <2>2. \A t : Count(t)' = Count(t) /\ Versions(t)' = Versions(t)
      BY <2>1, CountIsFunctionOfRows
    <2>3. Typed'
      BY <1>0, <1>1, <2>1 DEF PolicyInv, Typed, Puts
    <2>4. NextFree' /\ Owned'
      BY <1>0, <2>1, <2>2 DEF PolicyInv, NextFree, Owned, PolicyRow, Puts
    <2>5. Numbered' /\ OneRowEach' /\ Pinned'
      BY <1>1, <2>1, <2>2 DEF PolicyInv, Numbered, OneRowEach, Pinned
    <2>6. QED
      BY <2>3, <2>4, <2>5 DEF PolicyInv
  <1>3. CASE put[a].version \notin Versions(TenantOf[a])
    <2>1. put' = [put EXCEPT ![a].at = "created"]
          /\ policies' = policies \union {PolicyRow(a)}
      BY <1>3 DEF CommitPolicy, Respond
    <2>2. /\ policies' \subseteq Rows /\ IsFiniteSet(policies')
          /\ put[a].version = Count(TenantOf[a]) + 1
          /\ \A t \in Tenants :
               Count(t)' = IF t = TenantOf[a] THEN Count(t) + 1 ELSE Count(t)
          /\ \A t \in Tenants :
               Versions(t)' = IF t = TenantOf[a]
                              THEN Versions(t) \union {put[a].version}
                              ELSE Versions(t)
      BY <1>1, <1>3, <2>1, CommittedRow
    <2>3. \A t \in Tenants : Count(t) \in Nat
      BY CountType DEF PolicyInv
    <2>4. Typed'
      BY <1>0, <1>1, <2>1, <2>2 DEF PolicyInv, Typed, Puts
    <2>5. Numbered'
      <3>1. ASSUME NEW t \in Tenants
            PROVE  Versions(t)' = 1..Count(t)'
        <4>1. Versions(t) = 1..Count(t) /\ Count(t) \in Nat
          BY <2>3 DEF PolicyInv, Numbered
        <4>2. CASE t = TenantOf[a]
          <5>1. Count(t)' = Count(t) + 1
                /\ Versions(t)' = Versions(t) \union {Count(t) + 1}
            BY <2>2, <4>2
          <5>2. QED
            BY <4>1, <5>1
        <4>3. CASE t # TenantOf[a]
          BY <2>2, <4>1, <4>3
        <4>4. QED
          BY <4>2, <4>3
      <3>2. QED
        BY <3>1 DEF Numbered
    <2>6. NextFree'
      <3>1. ASSUME NEW b \in Admins, put'[b].at = "inserting"
            PROVE  /\ put'[b].version \in 1..(Count(TenantOf[b])' + 1)
                   /\ put'[b].document \in Documents
        <4>1. b # a /\ put'[b] = put[b]
          BY <1>0, <2>1, <3>1
        <4>2. put[b].version \in 1..(Count(TenantOf[b]) + 1)
              /\ put[b].document \in Documents
          BY <3>1, <4>1 DEF PolicyInv, NextFree
        <4>3. TenantOf[b] \in Tenants
          BY TenantTyped
        <4>4. QED
          BY <2>2, <2>3, <4>1, <4>2, <4>3
      <3>2. QED
        BY <3>1 DEF NextFree
    <2>7. OneRowEach'
      <3>1. \A r \in policies : ~(r.tenant = TenantOf[a] /\ r.version = put[a].version)
        BY <1>3, VersionOfRow
      <3>2. QED
        BY <2>1, <3>1 DEF PolicyInv, OneRowEach, PolicyRow
    <2>8. Owned'
      BY <1>0, <2>1 DEF PolicyInv, Owned, PolicyRow, Puts
    <2>9. Pinned'
      <3>1. ASSUME NEW c \in Clients, case[c].at # "idle"
            PROVE  case[c].known <= Count(TenantOf[c])'
        <4>1. TenantOf[c] \in Tenants /\ case[c].known \in Nat
          BY TenantTyped DEF PolicyInv, Typed, CaseRows
        <4>2. case[c].known <= Count(TenantOf[c])
          BY <3>1 DEF PolicyInv, Pinned
        <4>3. QED
          BY <2>2, <2>3, <4>1, <4>2
      <3>2. QED
        BY <1>1, <3>1 DEF PolicyInv, Pinned
    <2>10. QED
      BY <2>4, <2>5, <2>6, <2>7, <2>8, <2>9 DEF PolicyInv
  <1>4. QED
    BY <1>2, <1>3

\* The version an INSERT pins is the newest, so no older than the one its
\* client knew of.
LEMMA CreateCaseStep ==
  ASSUME PolicyInv, NEW c \in Clients,
         RequestCase(c) \/ InsertCase(c) \/ CommitCase(c)
  PROVE  PolicyInv'
  <1>0. case \in [Clients -> CaseRows] /\ UNCHANGED <<policies, put, today>>
    BY DEF PolicyInv, Typed, RequestCase, InsertCase, CommitCase
  <1>1. CurrentPolicyVersion(TenantOf[c]) = Count(TenantOf[c])
        /\ Count(TenantOf[c]) \in Nat
    BY CurrentIsCount, CountType, TenantTyped DEF PolicyInv
  <1>2. \A t : Count(t)' = Count(t) /\ Versions(t)' = Versions(t)
    BY <1>0, CountIsFunctionOfRows
  <1>3. case' \in [Clients -> CaseRows] /\ Pinned'
    <2>1. CASE RequestCase(c)
      <3>1. case' = [case EXCEPT ![c].at = "requested",
                                 ![c].known = Count(TenantOf[c])]
        BY <1>1, <2>1 DEF RequestCase
      <3>2. case' \in [Clients -> CaseRows]
        BY <1>0, <1>1, <3>1 DEF CaseRows
      <3>3. Pinned'
        BY <1>0, <1>1, <1>2, <3>1 DEF CaseRows, PolicyInv, Pinned
      <3>4. QED
        BY <3>2, <3>3
    <2>2. CASE InsertCase(c)
      BY <1>0, <1>1, <1>2, <2>2 DEF InsertCase, CaseRows, PolicyInv, Pinned
    <2>3. CASE CommitCase(c)
      BY <1>0, <1>1, <1>2, <2>3 DEF CommitCase, CaseRows, PolicyInv, Pinned
    <2>4. QED
      BY <2>1, <2>2, <2>3
  <1>4. Typed' /\ Numbered' /\ NextFree' /\ OneRowEach' /\ Owned'
    BY <1>0, <1>2, <1>3 DEF PolicyInv, Typed, Numbered, NextFree, OneRowEach, Owned,
       PolicyRow
  <1>5. QED
    BY <1>3, <1>4 DEF PolicyInv

\* What an attempt loads is the built-in policy or the tenant's own row of the pin.
LEMMA LoadedPolicy ==
  ASSUME Typed, NEW c \in Clients, NEW p \in LoadPolicy(c)
  PROVE  /\ p \in Documents \union {BuiltInPolicy}
         /\ IF case[c].policy_version = 0 THEN p = BuiltInPolicy
            ELSE [tenant |-> TenantOf[c], version |-> case[c].policy_version,
                  document |-> p] \in policies
  <1>1. CASE case[c].policy_version = 0
    BY <1>1 DEF LoadPolicy
  <1>2. CASE case[c].policy_version # 0
    <2>1. PICK r \in policies : /\ r.version = case[c].policy_version
                                /\ r.tenant = TenantOf[c] /\ p = r.document
      BY <1>2 DEF LoadPolicy
    <2>2. r = [tenant |-> r.tenant, version |-> r.version, document |-> r.document]
          /\ r.document \in Documents
      BY <2>1 DEF Typed, Rows
    <2>3. QED
      BY <1>2, <2>1, <2>2
  <1>3. QED
    BY <1>1, <1>2

\* A policy's weights and scores are numbers.
LEMMA RiskScoreType ==
  ASSUME NEW p \in Documents \union {BuiltInPolicy}, NEW i \in Cases
  PROVE  /\ p.face_match_weight \in Nat /\ p.extraction_weight \in Nat
         /\ RiskScore(p, i) \in Int /\ NeedsReview(p, i, today) \in BOOLEAN
  <1>1. p.face_match_weight \in Nat /\ p.extraction_weight \in Nat
    <2>1. CASE p \in Documents
      <3>1. IsPolicy(p)
        BY <2>1, PolicyAssumption
      <3>2. QED
        BY <3>1 DEF IsPolicy
    <2>2. CASE p = BuiltInPolicy
      BY <2>2, UnitAssumption DEF BuiltInPolicy
    <2>3. QED
      BY <2>1, <2>2
  <1>2. IsInputs(i) /\ Unit \in Nat /\ Unit * Unit \in Int
    BY PolicyAssumption, UnitAssumption
  <1>3. CASE HardStop(i)
    BY <1>1, <1>2, <1>3 DEF RiskScore, NeedsReview
  <1>4. CASE ~HardStop(i)
    <2>1. i.face_match_score \in Int /\ i.extraction_confidence \in Int
      BY <1>2, <1>4 DEF HardStop, IsInputs
    <2>2. Combined(p, i) \in Int
      BY <1>1, <2>1 DEF Combined
    <2>3. QED
      BY <1>1, <1>2, <1>4, <2>2 DEF RiskScore, NeedsReview
  <1>5. QED
    BY <1>3, <1>4

\* Scoring a case touches no version.
LEMMA RiskScoreCaseStep ==
  ASSUME PolicyInv, NEW c \in Clients, RiskScoreCase(c)
  PROVE  PolicyInv'
  <1>0. case \in [Clients -> CaseRows] /\ UNCHANGED <<policies, put, today>>
    BY DEF PolicyInv, Typed, RiskScoreCase
  <1>1. PICK p \in LoadPolicy(c), i \in Cases :
          case' = [case EXCEPT ![c].at = "scored", ![c].score =
            [inputs |-> i, day |-> today, document |-> p,
             needs_review |-> NeedsReview(p, i, today),
             risk_score |-> RiskScore(p, i)]]
    BY DEF RiskScoreCase
  <1>2. \A t : Count(t)' = Count(t) /\ Versions(t)' = Versions(t)
    BY <1>0, CountIsFunctionOfRows
  <1>3. case' \in [Clients -> CaseRows]
    <2>1. p \in Documents \union {BuiltInPolicy}
      BY LoadedPolicy DEF PolicyInv
    <2>2. RiskScore(p, i) \in Int /\ NeedsReview(p, i, today) \in BOOLEAN
      BY <2>1, RiskScoreType
    <2>3. today \in Nat
      BY PolicyAssumption DEF PolicyInv, Typed
    <2>4. [inputs |-> i, day |-> today, document |-> p,
           needs_review |-> NeedsReview(p, i, today),
           risk_score |-> RiskScore(p, i)] \in Scores
      BY <2>1, <2>2, <2>3 DEF Scores
    <2>5. QED
      BY <1>0, <1>1, <2>4 DEF CaseRows
  <1>4. case[c].at \notin {"idle", "requested"}
    BY DEF RiskScoreCase
  <1>5. Pinned'
    BY <1>0, <1>1, <1>2, <1>4 DEF PolicyInv, Pinned, CaseRows
  <1>6. Typed' /\ Numbered' /\ NextFree' /\ OneRowEach' /\ Owned'
    BY <1>0, <1>2, <1>3 DEF PolicyInv, Typed, Numbered, NextFree, OneRowEach, Owned,
       PolicyRow
  <1>7. QED
    BY <1>5, <1>6 DEF PolicyInv

\* The calendar touches no version.
LEMMA QuietStep ==
  ASSUME PolicyInv, NextDay \/ UNCHANGED vars
  PROVE  PolicyInv'
  <1>1. UNCHANGED <<policies, put, case>>
    BY DEF NextDay, vars
  <1>2. today' \in 0..LastDay
    BY PolicyAssumption DEF PolicyInv, Typed, NextDay, vars
  <1>3. \A t : Count(t)' = Count(t) /\ Versions(t)' = Versions(t)
    BY <1>1, CountIsFunctionOfRows
  <1>4. QED
    BY <1>1, <1>2, <1>3 DEF PolicyInv, Typed, Numbered, NextFree, OneRowEach, Owned,
       Pinned, PolicyRow

\* The rows of a tenant are numbered 1, 2, 3, ... whatever the interleaving of
\* the PUTs, each acknowledged PUT has its row, and a pin never lies behind what
\* its client knew.
THEOREM PolicyInvariant == Spec => []PolicyInv
  <1>1. Init => PolicyInv
    BY InitPolicy
  <1>2. PolicyInv /\ [Next]_vars => PolicyInv'
    BY PutPolicyStep, CommitPolicyStep, CreateCaseStep, RiskScoreCaseStep, QuietStep
       DEF Next
  <1>3. QED
    BY <1>1, <1>2, PTL DEF Spec

\* Every row, request, case and day is of the shape the tables give it.
THEOREM TypeCorrect == Spec => []TypeOK
  <1>1. PolicyInv => TypeOK
    BY DEF PolicyInv, Typed, TypeOK, Rows, Puts, CaseRows
  <1>2. QED
    BY <1>1, PolicyInvariant, PTL

\* An acknowledged PUT is the only owner of its version and a tenant's versions
\* have no gap, for any number of concurrent PUTs (main.py:912-937).
THEOREM VersionsAreOwned == Spec => []VersionsOwned
  <1>1. PolicyInv => VersionsOwned
    <2> SUFFICES ASSUME PolicyInv
                 PROVE  VersionsOwned
      OBVIOUS
    <2>1. ASSUME NEW a \in Admins, put[a].at = "created"
          PROVE  {r \in policies : r.tenant = TenantOf[a] /\ r.version = put[a].version}
                   = {PolicyRow(a)}
      <3>1. PolicyRow(a) \in policies /\ PolicyRow(a).tenant = TenantOf[a]
            /\ PolicyRow(a).version = put[a].version
        BY <2>1 DEF PolicyInv, Owned, PolicyRow
      <3>2. \A r \in policies : r.tenant = TenantOf[a] /\ r.version = put[a].version
              => r = PolicyRow(a)
        BY <3>1 DEF PolicyInv, OneRowEach
      <3>3. QED
        BY <3>1, <3>2
    <2>2. \A t \in Tenants :
            Versions(t) = 1..Cardinality({r \in policies : r.tenant = t})
      BY DEF PolicyInv, Numbered, Count, RowsOf
    <2>3. QED
      BY <2>1, <2>2 DEF VersionsOwned
  <1>2. QED
    BY <1>1, PolicyInvariant, PTL

\* A case whose client had seen a policy version is never judged under an older
\* one (main.py:128-133).
THEOREM PinsAreCurrent == Spec => []PinIsCurrent
  <1>1. PolicyInv => PinIsCurrent
    BY DEF PolicyInv, Typed, CaseRows, Pinned, PinIsCurrent
  <1>2. QED
    BY <1>1, PolicyInvariant, PTL

------------------------------------------------------------------------------
(* What an attempt to score a case stores *)

Judged ==
  \A c \in Clients : case[c].at = "scored" =>
    LET s == case[c].score
    IN /\ s.inputs \in Cases /\ s.day \in Nat
       /\ s.document \in Documents \union {BuiltInPolicy}
       /\ s.needs_review = NeedsReview(s.document, s.inputs, s.day)

\* Nothing is judged yet.
LEMMA InitJudged == Init => Judged /\ ScoredUnderPinned
  BY DEF Init, Judged, ScoredUnderPinned

\* Every judgement stands for a document of the pinned version, and stays.
LEMMA JudgedStep ==
  ASSUME PolicyInv, Judged, ScoredUnderPinned, [Next]_vars
  PROVE  Judged' /\ ScoredUnderPinned'
  <1>0. case \in [Clients -> CaseRows]
    BY DEF PolicyInv, Typed
  <1>1. ASSUME NEW a \in Admins, PutPolicy(a) \/ CommitPolicy(a)
        PROVE  case' = case /\ policies \subseteq policies'
    BY <1>1 DEF PutPolicy, CommitPolicy
  <1>2. ASSUME NextDay \/ UNCHANGED vars
        PROVE  case' = case /\ policies \subseteq policies'
    BY <1>2 DEF NextDay, vars
  <1>3. CASE case' = case /\ policies \subseteq policies'
    <2>1. Judged'
      BY <1>3 DEF Judged
    <2>2. ScoredUnderPinned'
      BY <1>3 DEF ScoredUnderPinned
    <2>3. QED
      BY <2>1, <2>2
  <1>4. ASSUME NEW c \in Clients, RequestCase(c) \/ InsertCase(c) \/ CommitCase(c)
        PROVE  Judged' /\ ScoredUnderPinned'
    <2>1. /\ policies' = policies /\ case'[c].at # "scored"
          /\ \A d \in Clients : d # c => case'[d] = case[d]
      BY <1>0, <1>4 DEF RequestCase, InsertCase, CommitCase, CaseRows
    <2>2. Judged'
      BY <2>1 DEF Judged
    <2>3. ScoredUnderPinned'
      BY <2>1 DEF ScoredUnderPinned
    <2>4. QED
      BY <2>2, <2>3
  <1>5. ASSUME NEW c \in Clients, RiskScoreCase(c)
        PROVE  Judged' /\ ScoredUnderPinned'
    <2>1. PICK p \in LoadPolicy(c), i \in Cases :
            case' = [case EXCEPT ![c].at = "scored", ![c].score =
              [inputs |-> i, day |-> today, document |-> p,
               needs_review |-> NeedsReview(p, i, today),
               risk_score |-> RiskScore(p, i)]]
      BY <1>5 DEF RiskScoreCase
    <2>2. /\ policies' = policies
          /\ \A d \in Clients : d # c => case'[d] = case[d]
          /\ case'[c].policy_version = case[c].policy_version
          /\ case'[c].score.inputs = i /\ case'[c].score.day = today
          /\ case'[c].score.document = p
          /\ case'[c].score.needs_review = NeedsReview(p, i, today)
      BY <1>0, <1>5, <2>1 DEF RiskScoreCase, CaseRows
    <2>3. /\ p \in Documents \union {BuiltInPolicy}
          /\ IF case[c].policy_version = 0 THEN p = BuiltInPolicy
             ELSE [tenant |-> TenantOf[c], version |-> case[c].policy_version,
                   document |-> p] \in policies
      BY LoadedPolicy DEF PolicyInv
    <2>4. today \in Nat
      BY PolicyAssumption DEF PolicyInv, Typed
    <2>5. Judged'
      BY <2>2, <2>3, <2>4 DEF Judged
    <2>6. ScoredUnderPinned'
      BY <2>2, <2>3 DEF ScoredUnderPinned
    <2>7. QED
      BY <2>5, <2>6
  <1>6. QED
    BY <1>1, <1>2, <1>3, <1>4, <1>5 DEF Next

\* Every attempt scores a case under the document its tenant had made the pinned
\* version, whatever other tenants and later PUTs do (activities.py:378-394).
THEOREM AttemptsUsePinnedPolicy == Spec => [](Judged /\ ScoredUnderPinned)
  <1>1. PolicyInv /\ Judged /\ ScoredUnderPinned /\ [Next]_vars
          => (Judged /\ ScoredUnderPinned)'
    BY JudgedStep
  <1>2. QED
    BY <1>1, InitJudged, PolicyInvariant, PTL DEF Spec

------------------------------------------------------------------------------
(* Worse evidence is never judged more leniently *)

\* A weight keeps the order of scores.
LEMMA ProductMonotone ==
  ASSUME NEW w \in Nat, NEW x \in Int, NEW y \in Int, x <= y
  PROVE  w * x <= w * y
  <1>1. PICK d \in Nat : y = x + d
    BY y - x \in Nat, y = x + (y - x)
  <1>2. w * d \in Nat /\ w * y = w * x + w * d
    BY <1>1
  <1>3. w * x \in Int /\ w * y \in Int
    OBVIOUS
  <1>4. QED
    BY <1>1, <1>2, <1>3

\* The weights are not negative, so the combined score grows with both parts.
LEMMA CombinedMonotone ==
  ASSUME NEW p \in Documents \union {BuiltInPolicy}, NEW i \in Cases, NEW j \in Cases,
         NoBetter(i, j), ~HardStop(i)
  PROVE  /\ ~HardStop(j) /\ i.face_match_score <= j.face_match_score
         /\ Combined(p, i) <= Combined(p, j)
  <1>1. IsInputs(i) /\ IsInputs(j)
    BY PolicyAssumption
  <1>2. ~HardStop(j) /\ i.face_match_score <= j.face_match_score
    BY <1>1 DEF NoBetter, HardStop, IsInputs
  <1>3. /\ i.face_match_score \in Int /\ j.face_match_score \in Int
        /\ i.extraction_confidence \in Int /\ j.extraction_confidence \in Int
        /\ i.extraction_confidence <= j.extraction_confidence
    BY <1>1, <1>2, UnitAssumption DEF NoBetter, HardStop, IsInputs
  <1>4. p.face_match_weight \in Nat /\ p.extraction_weight \in Nat
    BY RiskScoreType
  <1>5. /\ p.face_match_weight * i.face_match_score
             <= p.face_match_weight * j.face_match_score
        /\ p.extraction_weight * i.extraction_confidence
             <= p.extraction_weight * j.extraction_confidence
    BY <1>2, <1>3, <1>4, ProductMonotone
  <1>6. /\ p.face_match_weight * i.face_match_score \in Int
        /\ p.face_match_weight * j.face_match_score \in Int
        /\ p.extraction_weight * i.extraction_confidence \in Int
        /\ p.extraction_weight * j.extraction_confidence \in Int
    BY <1>3, <1>4
  <1>7. Combined(p, i) <= Combined(p, j)
    BY <1>5, <1>6 DEF Combined
  <1>8. QED
    BY <1>2, <1>7

\* The thresholds of a policy are numbers or absent.
LEMMA PolicyShape ==
  ASSUME NEW p \in Documents \union {BuiltInPolicy}
  PROVE  /\ p.min_combined \in Nat /\ p.review_expired \in BOOLEAN
         /\ p.min_face_match = None \/ p.min_face_match \in Int
         /\ p.expiring_within_days = None \/ p.expiring_within_days \in Int
  <1>1. CASE p \in Documents
    <2>1. IsPolicy(p) /\ Unit \in Nat
      BY <1>1, PolicyAssumption, UnitAssumption
    <2>2. p.min_combined \in Nat /\ p.review_expired \in BOOLEAN
      BY <2>1 DEF IsPolicy
    <2>3. p.min_face_match = None \/ p.min_face_match \in Int
      BY <2>1 DEF IsPolicy
    <2>4. p.expiring_within_days = None \/ p.expiring_within_days \in Int
      <3>1. PICK within : within = p.expiring_within_days
        OBVIOUS
      <3>2. within \in {None} \union (1..3650)
        BY <2>1, <3>1, SMTT(20) DEF IsPolicy
      <3>3. within = None \/ within \in 1..3650
        BY <3>2, SMTT(20)
      <3>4. within \in 1..3650 => within \in Int
        BY SMTT(20)
      <3>5. QED
        BY <3>1, <3>3, <3>4
    <2>5. QED
      BY <2>2, <2>3, <2>4
  <1>2. CASE p = BuiltInPolicy
    BY <1>2, UnitAssumption DEF BuiltInPolicy
  <1>3. QED
    BY <1>1, <1>2

\* A document that expires sooner, under a policy that reviews expired ones, is
\* reviewed whenever one that expires later is.
LEMMA ExpiryMonotone ==
  ASSUME NEW p \in Documents \union {BuiltInPolicy}, NEW i \in Cases, NEW j \in Cases,
         NEW day \in Nat, NoBetter(i, j),
         p.review_expired \/ i.expiry_date = j.expiry_date,
         ExpiryNeedsReview(p, j, day)
  PROVE  ExpiryNeedsReview(p, i, day)
  <1>1. CASE i.expiry_date = j.expiry_date
    BY <1>1 DEF ExpiryNeedsReview
  <1>2. CASE i.expiry_date # j.expiry_date
    <2>1. p.review_expired /\ j.expiry_date # None
      BY <1>2 DEF ExpiryNeedsReview
    <2>2. /\ i.expiry_date # None /\ i.expiry_date \in Int /\ j.expiry_date \in Int
          /\ i.expiry_date <= j.expiry_date
      BY <2>1, PolicyAssumption DEF IsInputs, NoBetter
    <2>3. CASE i.expiry_date - day < 0
      BY <2>1, <2>2, <2>3 DEF ExpiryNeedsReview
    <2>4. CASE ~(i.expiry_date - day < 0)
      <3>1. /\ ~(j.expiry_date - day < 0)
            /\ i.expiry_date - day <= j.expiry_date - day
        BY <2>2, <2>4
      <3>2. p.expiring_within_days # None
            /\ j.expiry_date - day <= p.expiring_within_days
        BY <3>1 DEF ExpiryNeedsReview
      <3>3. i.expiry_date - day <= p.expiring_within_days
        BY <2>2, <3>1, <3>2, PolicyShape
      <3>4. QED
        BY <2>2, <2>4, <3>2, <3>3 DEF ExpiryNeedsReview
    <2>5. QED
      BY <2>3, <2>4
  <1>3. QED
    BY <1>1, <1>2

\* What sends a case to review sends one with no better evidence there.
LEMMA NeedsReviewMonotone ==
  ASSUME NEW p \in Documents \union {BuiltInPolicy}, NEW i \in Cases, NEW j \in Cases,
         NEW day \in Nat, NoBetter(i, j),
         p.review_expired \/ i.expiry_date = j.expiry_date,
         NeedsReview(p, j, day)
  PROVE  NeedsReview(p, i, day)
  <1>1. CASE HardStop(i)
    BY <1>1 DEF NeedsReview
  <1>2. CASE ~HardStop(i)
    <2>1. /\ ~HardStop(j) /\ i.face_match_score <= j.face_match_score
          /\ Combined(p, i) <= Combined(p, j)
      BY <1>2, CombinedMonotone
    <2>2. /\ i.face_match_score \in Int /\ j.face_match_score \in Int
          /\ i.extraction_confidence \in Int /\ j.extraction_confidence \in Int
      BY <1>2, <2>1, PolicyAssumption, UnitAssumption DEF HardStop, IsInputs
    <2>3. Combined(p, i) \in Int /\ Combined(p, j) \in Int
      BY <2>2, RiskScoreType DEF Combined
    <2>4. p.min_combined * Unit \in Int
      BY PolicyShape, UnitAssumption
    <2>5. CASE Combined(p, j) < p.min_combined * Unit
      BY <2>1, <2>3, <2>4, <2>5 DEF NeedsReview
    <2>6. CASE p.min_face_match # None /\ j.face_match_score < p.min_face_match
      <3>1. i.face_match_score < p.min_face_match
        BY <2>1, <2>2, <2>6, PolicyShape
      <3>2. QED
        BY <2>6, <3>1 DEF NeedsReview
    <2>7. CASE ExpiryNeedsReview(p, j, day)
      BY <2>7, ExpiryMonotone DEF NeedsReview
    <2>8. CASE j.nationality \in p.review_nationalities
      BY <2>8 DEF NeedsReview, NoBetter
    <2>9. QED
      BY <2>1, <2>5, <2>6, <2>7, <2>8 DEF NeedsReview
  <1>3. QED
    BY <1>1, <1>2

\* Of two cases of a tenant judged under one document on one day, the one with no
\* better evidence is not cleared where the other was sent to a human, for every
\* document the validators accept (risk_scoring.py:44-90).
THEOREM WorseEvidenceIsReviewed == Spec => []WorseIsNotCleared
  <1>1. Judged => WorseIsNotCleared
    <2> SUFFICES ASSUME Judged, NEW c \in Clients, NEW d \in Clients,
                        case[c].at = "scored", case[d].at = "scored",
                        case[c].score.document = case[d].score.document,
                        case[c].score.day = case[d].score.day,
                        NoBetter(case[c].score.inputs, case[d].score.inputs),
                        \/ case[c].score.document.review_expired
                        \/ case[c].score.inputs.expiry_date
                             = case[d].score.inputs.expiry_date,
                        case[d].score.needs_review
                 PROVE  case[c].score.needs_review
      BY DEF WorseIsNotCleared
    <2>1. \A x \in {c, d} :
            /\ case[x].score.inputs \in Cases /\ case[x].score.day \in Nat
            /\ case[x].score.document \in Documents \union {BuiltInPolicy}
            /\ case[x].score.needs_review
                 = NeedsReview(case[x].score.document, case[x].score.inputs,
                               case[x].score.day)
      BY DEF Judged
    <2>2. NeedsReview(case[c].score.document, case[c].score.inputs, case[c].score.day)
      BY <2>1, NeedsReviewMonotone
    <2>3. QED
      BY <2>1, <2>2
  <1>2. QED
    BY <1>1, AttemptsUsePinnedPolicy, PTL
==============================================================================
