------------------------------- MODULE AuditLog -------------------------------
(***************************************************************************)
(* What the audit log is kept for, without locks, ids, hashes or pools: of *)
(* every tenant one sequence of entries that only grows, at its end, by    *)
(* what a writer may say next.  A handler says its one thing once.  An     *)
(* attempt of an activity says that it started, then works step by step,   *)
(* and says at most one outcome: that all of its work is done, or that it  *)
(* has raised, whatever it had done by then.  Nothing is promised of the   *)
(* log of a tenant that somebody has changed by hand.                      *)
(***************************************************************************)
EXTENDS Naturals, Sequences

CONSTANTS Tenants, Writers, Attempts, TenantOf, BodyOf

VARIABLES
  log,         \* per tenant, who said what, in order
  worked,      \* how many steps of each attempt's work are durable
  raised,      \* the attempts that have raised
  distrusted   \* the tenants whose log was changed by hand

vars == <<log, worked, raised, distrusted>>

Init ==
  /\ log = [t \in Tenants |-> <<>>]
  /\ worked = [w \in Attempts |-> 0]
  /\ raised = {}
  /\ distrusted = {}

Trusted(w) == TenantOf[w] \notin distrusted
Said(w, e) ==
  \E n \in 1..Len(log[TenantOf[w]]) :
    log[TenantOf[w]][n] = [by |-> w, event |-> e]

\* What w may say next.
May(w, e) ==
  /\ \/ w \notin Attempts /\ e = "recorded"
     \/ w \in Attempts /\ e = "started"
     \/ /\ w \in Attempts /\ Said(w, "started")
        /\ \/ /\ e = "completed" /\ worked[w] = BodyOf[w] /\ w \notin raised
              /\ ~Said(w, "failed")
           \/ e = "failed" /\ w \in raised /\ ~Said(w, "completed")
  /\ ~Said(w, e)

Say(w, e) ==
  /\ UNCHANGED <<worked, raised, distrusted>>
  /\ Trusted(w) /\ May(w, e)
  /\ log' = [log EXCEPT ![TenantOf[w]] = Append(@, [by |-> w, event |-> e])]

\* A step of work becomes durable, or w raises, or both, after w was announced
\* and before its outcome is told; who has raised works no more.
Work(w) ==
  /\ UNCHANGED <<log, distrusted>>
  /\ w \in Attempts
  /\ Trusted(w) =>
       /\ w \notin raised
       /\ Said(w, "started") /\ ~Said(w, "completed") /\ ~Said(w, "failed")
  /\ worked' = worked \/ worked' = [worked EXCEPT ![w] = @ + 1]
  /\ raised' = raised \/ raised' = raised \union {w}

\* Somebody changes the log of t by hand.
Distrust(t) ==
  /\ UNCHANGED <<worked, raised>>
  /\ distrusted' = distrusted \union {t}
  /\ log' = [log EXCEPT ![t] = <<>>]

Next ==
  \/ \E w \in Writers :
       \/ Work(w)
       \/ \E e \in {"recorded", "started", "completed", "failed"} : Say(w, e)
  \/ \E t \in Tenants : Distrust(t)

Spec == Init /\ [][Next]_vars
==============================================================================
