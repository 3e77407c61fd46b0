---------------------------- MODULE MCAuditChain ----------------------------
(***************************************************************************)
(* An activity attempt and two intake handlers of one tenant, and an       *)
(* intake handler of another: every pair that shares a chain, a pool, both *)
(* or neither, and chains of up to four rows.  The attempt's body commits  *)
(* two transactions, so that it can raise between them.                    *)
(***************************************************************************)
EXTENDS AuditChain

CONSTANTS a, i1, i2, i3, t1, t2

MCTenantOf == [w \in Writers |-> IF w = i3 THEN t2 ELSE t1]
MCBodyOf == [w \in Attempts |-> 2]
MCServiceOf == [w \in Writers |-> IF w = a THEN "pipeline" ELSE "intake"]
==============================================================================
