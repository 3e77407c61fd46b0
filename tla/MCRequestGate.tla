---------------------------- MODULE MCRequestGate ----------------------------
(***************************************************************************)
(* Instances of RequestGate for TLC: one tenant with two keys, one of them *)
(* made later, and a reviewer, and another tenant with a key of its own.   *)
(***************************************************************************)
EXTENDS RequestGate, TLC

CONSTANTS a1, a2, anna, b1, tenantA, tenantB

MCKeys == {a1, a2, b1}
MCReviewers == {anna}
MCBootstrapped == {a1, b1}
MCTenantOf == a1 :> tenantA @@ a2 :> tenantA @@ anna :> tenantA @@ b1 :> tenantB

\* Two things are looked at in one run: who may pass, all at one instant, and how
\* one token's requests are counted as time goes by.
OneThingAtATime ==
  clock > 0 => /\ \A t \in Tokens \ {a1} : windows[t] = NoWindow
               /\ \A t \in Tokens : credential[t] = IF t \in Bootstrapped THEN [Absent EXCEPT !.status = "live"]
                                                     ELSE Absent

Symmetry == Permutations(Requests)
==============================================================================
