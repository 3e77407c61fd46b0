------------------------------ MODULE RequestGate ------------------------------
(***************************************************************************)
(* What a request to the intake API passes before its handler acts: the    *)
(* token is looked up (API key or reviewer token), its role is checked, and *)
(* the fixed-window limiter counts it.  The look-up is awaited, so others   *)
(* run between it, the checks on its answer and the handler's transaction;  *)
(* the checks and the count are one synchronous step.  The operations that  *)
(* change who may pass are modelled with their effect: keys and reviewers   *)
(* are created and revoked through the gate.                                *)
(*                                                                         *)
(* The clock ticks TicksPerSecond times a second: the limiter measures a    *)
(* finer time than the whole seconds of Retry-After.                        *)
(***************************************************************************)
EXTENDS Integers, Sequences

CONSTANTS
  Keys, Reviewers,  \* api_keys rows; reviewers rows, one per tenant and e-mail
  Bootstrapped,     \* the keys made by scripts/seed_dev_tenant.py
  TenantOf,
  Roles, DecisionMakers,
  Requests,         \* requests that may be under way together
  Limit, Window,    \* rate_limit_requests; rate_limit_window_seconds, in ticks
  TicksPerSecond,
  MaxClock          \* bound on time

Tokens == Keys \cup Reviewers

ASSUME GateAssumption ==
  /\ Keys \cap Reviewers = {} /\ DecisionMakers \subseteq Roles
  /\ Bootstrapped \subseteq Keys
  /\ Limit \in Nat \ {0} /\ Window \in Nat \ {0} /\ TicksPerSecond \in Nat \ {0}
  /\ MaxClock \in Nat


\* What each operation asks of its caller: an API key (require_api_key), a
\* reviewer's token to look, and a decision maker's to claim or decide.
ByKey == {"use", "create_key", "create_reviewer", "revoke"}
Operations == ByKey \cup {"look", "decide"}

VARIABLES
  credential,  \* api_keys and reviewers: status of each token and a reviewer's role
  clock,       \* time.monotonic()
  windows,     \* _rate_limiter._windows, of this process
  request,     \* each request, from its arrival to its answer
  admitted     \* times at which this process let each token's requests in

vars == <<credential, clock, windows, request, admitted>>

-------------------------------------------------------------------------------
(* InMemoryRateLimiter *)

NoWindow == [start |-> 0, count |-> 0]

Expired(w, now) == w.count = 0 \/ now - w.start >= Window

\* Bug: the count starts again, the window does not.
CountedInOldWindow(w, now) ==
  IF Expired(w, now) THEN [w EXCEPT !.count = 1] ELSE [w EXCEPT !.count = w.count + 1]

\* The window after a request it lets in.
Counted(w, now) ==
  IF Expired(w, now) THEN [start |-> now, count |-> 1]
  ELSE [w EXCEPT !.count = w.count + 1]

\* Bug: <= for <.
AllowsOneMore(w, now) == Expired(w, now) \/ w.count <= Limit

Allows(w, now) == Expired(w, now) \/ w.count < Limit

\* Bug: the seconds left, cut off.
RetryAfterTruncated(w, now) == (Window - (now - w.start)) \div TicksPerSecond

\* int(window_seconds - elapsed) + 1
RetryAfter(w, now) == (Window - (now - w.start)) \div TicksPerSecond + 1

-------------------------------------------------------------------------------
(* The requests *)

Idle == [at |-> "idle"]

Absent == [status |-> "absent", role |-> "none"]

Init ==
  /\ credential = [t \in Tokens |-> IF t \in Bootstrapped THEN [status |-> "live", role |-> "none"]
                                    ELSE Absent]
  /\ clock = 0
  /\ windows = [t \in Tokens |-> NoWindow]
  /\ request = [r \in Requests |-> Idle]
  /\ admitted = [t \in Tokens |-> <<>>]

Tick ==
  /\ clock < MaxClock /\ clock' = clock + 1
  /\ UNCHANGED <<credential, windows, request, admitted>>

\* The row of a token, in the table the operation asks for: resolve_api_key or
\* resolve_reviewer_token.
RowFor(op, t) == IF t \in Keys <=> op \in ByKey THEN credential[t] ELSE Absent

\* Bug: only a missing row is turned away.
EntitledIfKnown(op, row) ==
  row.status # "absent" /\ (op = "decide" => row.role \in DecisionMakers)

\* Not a 401, nor a 403.
Entitled(op, row) ==
  row.status = "live" /\ (op = "decide" => row.role \in DecisionMakers)

\* A request's token is looked up.  Whatever the answer says is decided by what
\* was read now, though checked when it is back; who is turned away leaves no
\* trace, and is not counted.
Resolve(r) ==
  /\ request[r].at = "idle"
  /\ \E t \in Tokens, op \in Operations :
       /\ Entitled(op, RowFor(op, t))
       /\ request' = [request EXCEPT ![r] = [at |-> "resolved", token |-> t, op |-> op]]
  /\ UNCHANGED <<credential, clock, windows, admitted>>

\* As much of the past as BurstBounded looks at.
LastOnes(times) ==
  IF Len(times) > 2 * Limit THEN Tail(times) ELSE times

Admit(r) ==
  LET q == request[r]
      w == windows[q.token]
  IN  /\ q.at = "resolved" /\ Allows(w, clock)
      /\ windows' = [windows EXCEPT ![q.token] = Counted(w, clock)]
      /\ admitted' = [admitted EXCEPT ![q.token] = LastOnes(Append(@, clock))]
      /\ request' = [request EXCEPT ![r].at = "admitted"]
      /\ UNCHANGED <<credential, clock>>

\* 429 with Retry-After: the client waits.
Refuse(r) ==
  LET q == request[r]
      w == windows[q.token]
  IN  /\ q.at = "resolved" /\ ~Allows(w, clock)
      /\ request' = [request EXCEPT ![r] = [at |-> "refused", token |-> q.token, start |-> w.start,
                       until |-> clock + RetryAfter(w, clock) * TicksPerSecond]]
      /\ UNCHANGED <<credential, clock, windows, admitted>>

\* A refused client tries something again, when told or earlier.
ComeBack(r) ==
  /\ request[r].at = "refused"
  /\ request' = [request EXCEPT ![r] = Idle]
  /\ UNCHANGED <<credential, clock, windows, admitted>>

\* Row-level security: a handler sees the rows of its caller's tenant.
Sees(token, x) == TenantOf[x] = TenantOf[token]

Create(token, x, role) ==
  /\ credential[x].status = "absent" /\ Sees(token, x)
  /\ credential' = [credential EXCEPT ![x] = [status |-> "live", role |-> role]]

Revoke(token, x) ==
  /\ credential[x].status # "absent" /\ Sees(token, x)
  /\ credential' = [credential EXCEPT ![x].status = "revoked"]

\* A handler's transaction, on what the look-up said.
Handle(r) ==
  LET q == request[r]
  IN  /\ q.at = "admitted"
      /\ request' = [request EXCEPT ![r] = Idle]
      /\ \/ q.op \in {"use", "look", "decide"} /\ UNCHANGED credential
         \/ q.op = "create_key" /\ \E x \in Keys : Create(q.token, x, "none")
         \/ /\ q.op = "create_reviewer"
            /\ \E x \in Reviewers, role \in Roles : Create(q.token, x, role)
         \/ q.op = "revoke" /\ \E x \in Tokens : Revoke(q.token, x)
      /\ UNCHANGED <<clock, windows, admitted>>

\* The e-mail is taken (409), or there is no such row in this tenant (404).
HandleInVain(r) ==
  /\ request[r].at = "admitted"
  /\ \/ request[r].op = "revoke"
     \/ /\ request[r].op = "create_reviewer"
        /\ \E x \in Reviewers : credential[x].status # "absent" /\ Sees(request[r].token, x)
  /\ request' = [request EXCEPT ![r] = Idle]
  /\ UNCHANGED <<credential, clock, windows, admitted>>

\* The process stops and starts again: windows and requests are gone.
Restart ==
  /\ request' = [r \in Requests |-> Idle]
  /\ windows' = [t \in Tokens |-> NoWindow]
  /\ admitted' = [t \in Tokens |-> <<>>]
  /\ UNCHANGED <<credential, clock>>

Next ==
  \/ Tick \/ Restart
  \/ \E r \in Requests : \/ Resolve(r) \/ Admit(r)
                         \/ Refuse(r) \/ ComeBack(r) \/ Handle(r) \/ HandleInVain(r)

Spec == Init /\ [][Next]_vars
-------------------------------------------------------------------------------
(* Properties *)

Credentials == [status : {"absent", "live", "revoked"}, role : Roles \cup {"none"}]

TypeOK ==
  /\ credential \in [Tokens -> Credentials]
  /\ clock \in 0..MaxClock
  /\ windows \in [Tokens -> [start : 0..clock, count : 0..Limit]]
  /\ request \in [Requests ->
       {Idle}
       \cup [at : {"resolved", "admitted"}, token : Tokens, op : Operations]
       \cup [at : {"refused"}, token : Tokens, start : 0..MaxClock, until : Nat]]
  /\ admitted \in [Tokens -> Seq(0..clock)]

\* A fixed window is not a sliding one: the last requests of one window and the
\* first Limit of the next can follow each other closely. At worst they are one
\* short of 2 * Limit: from the first to the last of any 2 * Limit requests of a
\* token that one process lets in, at least a window passes, since the first
\* request of a window is what starts it. (ratelimit.py:38-49; main.py:113-125.)
BurstBounded ==
  \A t \in Tokens : \A i \in 1..(Len(admitted[t]) - 2 * Limit + 1) :
    admitted[t][i + 2 * Limit - 1] - admitted[t][i] >= Window

\* A client that waits as long as Retry-After says, and no request of the token
\* was faster, is let in: the window that refused it is over, though the seconds
\* left were cut to whole ones.  It waits at most a second too long.
\* (ratelimit.py:48; main.py:119-125.)
RetryAfterIsEnough ==
  \A r \in Requests : request[r].at = "refused" =>
    LET q == request[r]
    IN  /\ clock >= q.until => windows[q.token].start # q.start \/ Allows(windows[q.token], clock)
        /\ q.until - TicksPerSecond <= q.start + Window

\* No API key of the tenant is good, and no request made with one is past the
\* look-up. Its reviewers may be at work.
Keyless(tenant) ==
  LET Mine == {k \in Keys : TenantOf[k] = tenant}
  IN  /\ \A k \in Mine : credential[k].status # "live"
      /\ \A r \in Requests :
           request[r].at \in {"resolved", "admitted"} => request[r].token \notin Mine

\* A tenant that has revoked its last key has no way back, from inside (main.py:
\* 651-654 accepts that) or through another tenant: once what it had sent with its
\* keys is over, nothing its reviewers or anyone else do makes a key of it good
\* again or gets a request with one past the look-up, and its reviewers stay who
\* they are, with the tokens they have. (main.py:598-757; auth.py:30-75.)
LastKeyRevokedIsFinal ==
  [][\A k \in Keys : Keyless(TenantOf[k]) =>
       /\ Keyless(TenantOf[k])'
       /\ \A x \in Tokens : TenantOf[x] = TenantOf[k] => credential'[x] = credential[x]]_vars
==============================================================================
