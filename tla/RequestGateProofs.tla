--------------------------- MODULE RequestGateProofs ---------------------------
(***************************************************************************)
(* What the limiter lets through, what it tells those it does not, and what *)
(* a tenant's last revocation ends, for every limit, window, clock, set of  *)
(* tokens and number of requests.                                           *)
(***************************************************************************)
EXTENDS RequestGate, SequenceTheorems, TLAPS

\* What the limiter knows of a token (a window's start and count) and the times
\* of the requests it has let in: the window starts with the oldest request it
\* counts, and what came Limit requests before that is a window older.
Spaced(start, count, times, now) ==
  /\ Len(times) <= 2 * Limit
  /\ count <= Len(times)
  /\ count = 0 => Len(times) = 0
  /\ \A i, j \in 1..Len(times) : i <= j => times[i] <= times[j]
  /\ \A i \in 1..Len(times) : times[i] <= now
  /\ count > 0 => /\ times[Len(times) - count + 1] <= start
                  /\ start <= times[Len(times)]
  /\ \A i \in 1..Len(times) :
       i + Limit + count <= Len(times) + 1 => times[i] + Window <= start

Windows == [start : Nat, count : 0..Limit]

LimiterInv ==
  /\ clock \in Nat
  /\ windows \in [Tokens -> Windows]
  /\ admitted \in [Tokens -> Seq(Nat)]
  /\ DOMAIN credential = Tokens /\ DOMAIN request = Requests
  /\ \A r \in Requests : request[r].at \in {"resolved", "admitted"} => request[r].token \in Tokens
  /\ \A t \in Tokens : Spaced(windows[t].start, windows[t].count, admitted[t], clock)

\* Adding a time keeps the order of the others, and drops at most the oldest.
LEMMA Pushed ==
  ASSUME NEW times \in Seq(Nat), NEW now \in Nat, Len(times) <= 2 * Limit
  PROVE  /\ LastOnes(Append(times, now)) \in Seq(Nat)
         /\ \E d \in {0, 1} :
              /\ d = 1 => Len(times) = 2 * Limit
              /\ Len(times) + 1 - d <= 2 * Limit
              /\ Len(times) + 1 - d > 0
              /\ Len(LastOnes(Append(times, now))) = Len(times) + 1 - d
              /\ \A i \in 1..(Len(times) - d) : LastOnes(Append(times, now))[i] = times[i + d]
              /\ LastOnes(Append(times, now))[Len(times) + 1 - d] = now
<1> DEFINE more == Append(times, now)
<1> USE GateAssumption DEF GateAssumption
<1>1. more \in Seq(Nat) /\ Len(more) = Len(times) + 1 /\ more # <<>>
  OBVIOUS
<1>2. /\ \A i \in 1..Len(times) : more[i] = times[i]
      /\ more[Len(times) + 1] = now
  OBVIOUS
<1>3. CASE Len(more) > 2 * Limit
  <2>1. LastOnes(more) = Tail(more)
    BY <1>3 DEF LastOnes
  <2>2. Tail(more) \in Seq(Nat) /\ Len(Tail(more)) = Len(times)
    BY <1>1
  <2>3. \A i \in 1..Len(times) : Tail(more)[i] = more[i + 1]
    BY <1>1
  <2>4. Len(times) = 2 * Limit /\ Len(times) \in 1..Len(times)
    BY <1>1, <1>3
  <2>5. \A i \in 1..(Len(times) - 1) : LastOnes(more)[i] = times[i + 1]
    BY <1>2, <2>1, <2>3, <2>4
  <2>6. LastOnes(more)[Len(times)] = now
    BY <1>2, <2>1, <2>3, <2>4
  <2> QED
    BY <2>1, <2>2, <2>4, <2>5, <2>6
<1>4. CASE ~(Len(more) > 2 * Limit)
  <2>1. LastOnes(more) = more
    BY <1>4 DEF LastOnes
  <2> QED
    BY <1>1, <1>2, <1>4, <2>1
<1> QED
  BY <1>3, <1>4

\* A request that is let in leaves the past as spaced as it was, whether it is
\* counted in the window or opens the next one.
LEMMA AdmittedSpaced ==
  ASSUME NEW start \in Nat, NEW count \in 0..Limit, NEW times \in Seq(Nat), NEW now \in Nat,
         Spaced(start, count, times, now)
  PROVE  /\ LastOnes(Append(times, now)) \in Seq(Nat)
         /\ count = 0 \/ now - start >= Window => Spaced(now, 1, LastOnes(Append(times, now)), now)
         /\ count > 0 /\ count < Limit => Spaced(start, count + 1, LastOnes(Append(times, now)), now)
<1> DEFINE new == LastOnes(Append(times, now))
           n == Len(times)
<1> USE GateAssumption DEF GateAssumption
<1>0. /\ n \in Nat /\ n <= 2 * Limit /\ count <= n
      /\ count = 0 => n = 0
      /\ count > 0 => times[n - count + 1] <= start /\ start <= times[n]
  BY DEF Spaced
<1>1. new \in Seq(Nat)
  BY <1>0, Pushed
<1>2. PICK d \in {0, 1} :
        /\ d = 1 => n = 2 * Limit
        /\ n + 1 - d <= 2 * Limit /\ n + 1 - d > 0
        /\ Len(new) = n + 1 - d
        /\ \A i \in 1..(n - d) : new[i] = times[i + d]
        /\ new[n + 1 - d] = now
  BY <1>0, Pushed
<1>3. /\ \A i \in 1..n : times[i] \in Nat /\ times[i] <= now
      /\ \A i, j \in 1..n : i <= j => times[i] <= times[j]
      /\ \A i \in 1..n : i + Limit + count <= n + 1 => times[i] + Window <= start
  BY DEF Spaced
<1> HIDE DEF new, n
<1>4. \A i \in 1..Len(new) : (i \in 1..(n - d) /\ i + d \in 1..n) \/ i = n + 1 - d
  BY <1>0, <1>2
<1>5. ASSUME NEW i \in 1..Len(new)
      PROVE  new[i] \in Nat /\ new[i] <= now
  <2>1. CASE i = n + 1 - d
    BY <1>2, <2>1
  <2>2. CASE i \in 1..(n - d) /\ i + d \in 1..n
    BY <1>2, <1>3, <2>2
  <2> QED
    BY <1>4, <2>1, <2>2
<1>6. ASSUME NEW i \in 1..Len(new), NEW j \in 1..Len(new), i <= j
      PROVE  new[i] <= new[j]
  <2>1. CASE j = n + 1 - d
    BY <1>2, <1>5, <2>1
  <2>2. CASE j # n + 1 - d
    <3>1. j \in 1..(n - d) /\ i \in 1..(n - d) /\ i + d \in 1..n /\ j + d \in 1..n /\ i + d <= j + d
      BY <1>0, <1>2, <1>4, <1>6, <2>2
    <3>2. new[i] = times[i + d] /\ new[j] = times[j + d]
      BY <1>2, <3>1
    <3> QED
      BY <1>3, <3>1, <3>2
  <2> QED
    BY <2>1, <2>2
<1>7. ASSUME count = 0 \/ now - start >= Window
      PROVE  Spaced(now, 1, new, now)
  <2>1. ASSUME NEW i \in 1..Len(new), i + Limit + 1 <= Len(new) + 1
        PROVE  new[i] + Window <= now
    <3>1. i \in 1..(n - d) /\ i + d \in 1..n /\ i + d + Limit <= n + 1
      BY <1>0, <1>2, <2>1
    <3>2. count > 0 /\ now - start >= Window
      BY <1>0, <1>7, <3>1
    <3>3. i + d <= n - count + 1 /\ n - count + 1 \in 1..n
      BY <1>0, <3>1, <3>2
    <3>4. times[i + d] <= times[n - count + 1] /\ times[i + d] \in Nat
      BY <1>3, <3>1, <3>3
    <3>5. times[n - count + 1] \in Nat
      BY <1>3, <3>3
    <3>6. new[i] = times[i + d]
      BY <1>2, <3>1
    <3>7. times[n - count + 1] <= start
      BY <1>0, <3>2
    <3>8. times[i + d] + Window <= now
      <4> DEFINE x == times[i + d]
                 y == times[n - count + 1]
      <4>1. x \in Nat /\ y \in Nat /\ x <= y /\ y <= start /\ now - start >= Window
        BY <3>2, <3>4, <3>5, <3>7
      <4>2. Window \in Nat
        OBVIOUS
      <4> HIDE DEF x, y
      <4>3. x + Window <= now
        BY <4>1, <4>2
      <4> QED
        BY <4>3 DEF x
    <3> QED
      BY <3>6, <3>8
  <2>2. Len(new) - 1 + 1 = n + 1 - d /\ Len(new) = n + 1 - d /\ Len(new) <= 2 * Limit /\ 1 <= Len(new)
    BY <1>0, <1>2
  <2>3. new[Len(new) - 1 + 1] <= now /\ now <= new[Len(new)]
    BY <1>2, <2>2
  <2> QED
    BY <1>5, <1>6, <2>1, <2>2, <2>3 DEF Spaced
<1>8. ASSUME count > 0, count < Limit
      PROVE  Spaced(start, count + 1, new, now)
  <2>1. n - count + 1 \in 1..n
    BY <1>0, <1>8
  <2>2. new[Len(new) - (count + 1) + 1] <= start
    <3>1. Len(new) - (count + 1) + 1 = n - count + 1 - d
      BY <1>0, <1>2
    <3>2. n - count + 1 - d \in 1..(n - d) /\ (n - count + 1 - d) + d = n - count + 1
      BY <1>0, <1>2, <1>8, <2>1
    <3>3. new[n - count + 1 - d] = times[n - count + 1]
      BY <1>2, <3>2
    <3> QED
      BY <1>0, <1>8, <3>1, <3>3
  <2>3. start <= new[Len(new)]
    <3>1. n \in 1..n
      BY <1>0, <1>8
    <3>2. times[n] <= now /\ times[n] \in Nat /\ start <= times[n]
      BY <1>0, <1>3, <1>8, <3>1
    <3> QED
      BY <1>2, <3>2
  <2>4. ASSUME NEW i \in 1..Len(new), i + Limit + (count + 1) <= Len(new) + 1
        PROVE  new[i] + Window <= start
    <3>1. i + d + Limit + count <= n + 1 /\ i + d \in 1..n /\ i \in 1..(n - d)
      BY <1>0, <1>2, <1>8, <2>4
    <3>2. times[i + d] + Window <= start
      BY <1>3, <3>1
    <3> QED
      BY <1>2, <3>1, <3>2
  <2>5. Len(new) <= 2 * Limit /\ count + 1 <= Len(new) /\ count + 1 > 0
    BY <1>0, <1>2, <1>8
  <2> QED
    BY <1>5, <1>6, <2>2, <2>3, <2>4, <2>5 DEF Spaced
<1> QED
  BY <1>1, <1>7, <1>8 DEF new

\* A process begins with no window and no request.
LEMMA InitLimiter == Init => LimiterInv
<1> SUFFICES ASSUME Init PROVE LimiterInv
  OBVIOUS
<1> USE GateAssumption DEF GateAssumption
<1>1. /\ clock \in Nat /\ windows \in [Tokens -> Windows] /\ admitted \in [Tokens -> Seq(Nat)]
  BY DEF Init, NoWindow, Windows
<1>2. /\ DOMAIN credential = Tokens /\ DOMAIN request = Requests
      /\ \A r \in Requests : request[r].at \in {"resolved", "admitted"} => request[r].token \in Tokens
  BY DEF Init, Idle
<1>3. ASSUME NEW t \in Tokens PROVE Spaced(windows[t].start, windows[t].count, admitted[t], clock)
  BY DEF Init, NoWindow, Spaced
<1> QED
  BY <1>1, <1>2, <1>3 DEF LimiterInv

\* Every step keeps each token's past spaced.
LEMMA NextLimiter == LimiterInv /\ [Next]_vars => LimiterInv'
<1> SUFFICES ASSUME LimiterInv, [Next]_vars PROVE LimiterInv'
  OBVIOUS
<1> USE GateAssumption DEF GateAssumption
<1>1. CASE UNCHANGED vars
  BY <1>1 DEF LimiterInv, vars
<1>2. CASE Tick
  <2>1. clock' \in Nat /\ clock <= clock' /\ UNCHANGED <<credential, windows, admitted, request>>
    BY <1>2 DEF Tick, LimiterInv
  <2>2. ASSUME NEW t \in Tokens
        PROVE  Spaced(windows[t].start, windows[t].count, admitted[t], clock')
    <3>1. \A i \in 1..Len(admitted[t]) : admitted[t][i] \in Nat /\ clock \in Nat
      BY DEF LimiterInv
    <3> QED
      BY <2>1, <3>1 DEF LimiterInv, Spaced
  <2> QED
    BY <2>1, <2>2 DEF LimiterInv
<1>3. CASE Restart
  <2>1. /\ clock' = clock /\ request' = [r \in Requests |-> Idle] /\ credential' = credential
        /\ windows' = [t \in Tokens |-> NoWindow] /\ admitted' = [t \in Tokens |-> <<>>]
    BY <1>3 DEF Restart
  <2>2. windows' \in [Tokens -> Windows] /\ admitted' \in [Tokens -> Seq(Nat)]
    BY <2>1 DEF NoWindow, Windows
  <2>3. ASSUME NEW t \in Tokens
        PROVE  Spaced(windows'[t].start, windows'[t].count, admitted'[t], clock')
    BY <2>1 DEF NoWindow, Spaced
  <2>4. \A r \in Requests : request'[r].at \notin {"resolved", "admitted"}
    BY <2>1 DEF Idle
  <2> QED
    BY <2>1, <2>2, <2>3, <2>4 DEF LimiterInv
<1>4. ASSUME NEW r \in Requests, Admit(r)
      PROVE  LimiterInv'
  <2> DEFINE t == request[r].token
             w == windows[t]
  <2>1. /\ t \in Tokens /\ UNCHANGED <<credential, clock>> /\ Allows(w, clock)
        /\ windows' = [windows EXCEPT ![t] = Counted(w, clock)]
        /\ admitted' = [admitted EXCEPT ![t] = LastOnes(Append(@, clock))]
        /\ request' = [request EXCEPT ![r].at = "admitted"]
    BY <1>4 DEF Admit, LimiterInv
  <2>2. w \in Windows /\ w.start \in Nat /\ w.count \in 0..Limit
    BY <2>1 DEF LimiterInv, Windows
  <2>3. admitted[t] \in Seq(Nat) /\ clock \in Nat /\ Spaced(w.start, w.count, admitted[t], clock)
    BY <2>1 DEF LimiterInv
  <2>4. /\ LastOnes(Append(admitted[t], clock)) \in Seq(Nat)
        /\ w.count = 0 \/ clock - w.start >= Window =>
             Spaced(clock, 1, LastOnes(Append(admitted[t], clock)), clock)
        /\ w.count > 0 /\ w.count < Limit =>
             Spaced(w.start, w.count + 1, LastOnes(Append(admitted[t], clock)), clock)
    BY <2>2, <2>3, AdmittedSpaced
  <2>5. /\ Counted(w, clock) \in Windows
        /\ Spaced(Counted(w, clock).start, Counted(w, clock).count,
                  LastOnes(Append(admitted[t], clock)), clock)
    <3>1. CASE Expired(w, clock)
      <4>1. Counted(w, clock) = [start |-> clock, count |-> 1]
        BY <3>1 DEF Counted
      <4>2. w.count = 0 \/ clock - w.start >= Window
        BY <3>1 DEF Expired
      <4> QED
        BY <2>3, <2>4, <4>1, <4>2 DEF Windows
    <3>2. CASE ~Expired(w, clock)
      <4>1. Counted(w, clock) = [w EXCEPT !.count = w.count + 1]
        BY <3>2 DEF Counted
      <4>2. w.count > 0 /\ w.count < Limit
        BY <2>1, <2>2, <3>2 DEF Allows, Expired
      <4>3. Counted(w, clock).start = w.start /\ Counted(w, clock).count = w.count + 1
        BY <2>2, <4>1 DEF Windows
      <4>4. Counted(w, clock) \in Windows
        BY <2>2, <4>1, <4>2 DEF Windows
      <4> QED
        BY <2>4, <4>2, <4>3, <4>4
    <3> QED
      BY <3>1, <3>2
  <2>6. windows' \in [Tokens -> Windows] /\ admitted' \in [Tokens -> Seq(Nat)]
    BY <2>1, <2>4, <2>5 DEF LimiterInv
  <2>7. ASSUME NEW x \in Tokens
        PROVE  Spaced(windows'[x].start, windows'[x].count, admitted'[x], clock')
    <3>1. CASE x = t
      BY <2>1, <2>5, <3>1 DEF LimiterInv
    <3>2. CASE x # t
      BY <2>1, <3>2 DEF LimiterInv
    <3> QED
      BY <3>1, <3>2
  <2>8. /\ DOMAIN request' = Requests
        /\ \A q \in Requests : request'[q].at \in {"resolved", "admitted"} => request'[q].token \in Tokens
    <3>1. request'[r].token = t
      BY <2>1 DEF LimiterInv
    <3> QED
      BY <2>1, <3>1 DEF LimiterInv
  <2> QED
    BY <2>1, <2>3, <2>6, <2>7, <2>8 DEF LimiterInv
<1>5. ASSUME NEW r \in Requests,
             Resolve(r) \/ Refuse(r) \/ ComeBack(r) \/ Handle(r) \/ HandleInVain(r)
      PROVE  LimiterInv'
  <2>1. UNCHANGED <<clock, windows, admitted>>
    BY <1>5 DEF Resolve, Refuse, ComeBack, Handle, HandleInVain
  <2>2. DOMAIN credential' = Tokens
    <3>1. CASE credential' = credential
      BY <3>1 DEF LimiterInv
    <3>2. CASE Handle(r)
      BY <3>2 DEF Handle, Create, Revoke, LimiterInv
    <3> QED
      BY <1>5, <3>1, <3>2 DEF Resolve, Refuse, ComeBack, HandleInVain
  <2>3. /\ DOMAIN request' = Requests
        /\ \A q \in Requests \ {r} : request'[q] = request[q]
        /\ request'[r].at \in {"resolved", "admitted"} => request'[r].token \in Tokens
    <3>1. DOMAIN request = Requests
      BY DEF LimiterInv
    <3>2. CASE Resolve(r)
      BY <3>1, <3>2 DEF Resolve
    <3>3. CASE Refuse(r)
      BY <3>1, <3>3 DEF Refuse
    <3>4. CASE ComeBack(r) \/ Handle(r) \/ HandleInVain(r)
      BY <3>1, <3>4 DEF ComeBack, Handle, HandleInVain, Idle
    <3> QED
      BY <1>5, <3>2, <3>3, <3>4
  <2> QED
    BY <2>1, <2>2, <2>3 DEF LimiterInv
<1> QED
  BY <1>1, <1>2, <1>3, <1>4, <1>5 DEF Next

\* At most 2 * Limit - 1 requests of a token get in within less than a window,
\* for every limit and window. (ratelimit.py:38-49.)
THEOREM Burst == Spec => []BurstBounded
<1>1. LimiterInv => BurstBounded
  <2> SUFFICES ASSUME LimiterInv, NEW t \in Tokens,
                      NEW i \in 1..(Len(admitted[t]) - 2 * Limit + 1)
               PROVE  admitted[t][i + 2 * Limit - 1] - admitted[t][i] >= Window
    BY DEF BurstBounded
  <2> DEFINE times == admitted[t]
             start == windows[t].start
             count == windows[t].count
  <2>1. /\ times \in Seq(Nat) /\ start \in Nat /\ count \in 0..Limit
        /\ Spaced(start, count, times, clock)
    BY DEF LimiterInv, Windows
  <2>2. Limit \in Nat \ {0} /\ Window \in Nat
    BY GateAssumption DEF GateAssumption
  <2> HIDE DEF times, start, count
  <2>3. Len(times) <= 2 * Limit /\ Len(times) \in Nat /\ i \in 1..(Len(times) - 2 * Limit + 1)
    BY <2>1 DEF Spaced, times
  <2>4. Len(times) = 2 * Limit /\ i = 1
    BY <2>2, <2>3
  <2>5. 1 \in 1..Len(times) /\ 1 + Limit + count <= Len(times) + 1 /\ Len(times) \in 1..Len(times)
    BY <2>1, <2>2, <2>4
  <2>6. times[1] + Window <= start /\ times[1] \in Nat /\ times[Len(times)] \in Nat
    BY <2>1, <2>5 DEF Spaced
  <2>7. count > 0 /\ start <= times[Len(times)]
    BY <2>1, <2>2, <2>4 DEF Spaced
  <2>8. times[i] = times[1] /\ times[i + 2 * Limit - 1] = times[Len(times)]
    BY <2>2, <2>4
  <2>9. times[Len(times)] - times[1] >= Window
    BY <2>1, <2>2, <2>6, <2>7
  <2> QED
    BY <2>8, <2>9 DEF times
<1> QED
  BY <1>1, InitLimiter, NextLimiter, PTL DEF Spec

\* A request that is past the look-up asks with an API key for what takes one, and
\* with a reviewer's token for what takes that.
AsksAsItMay ==
  \A r \in Requests :
    request[r].at \in {"resolved", "admitted"} =>
      request[r].token \in Tokens /\ (request[r].token \in Keys <=> request[r].op \in ByKey)

\* The look-up makes it so and nothing changes a request's token or its operation.
LEMMA AskingInvariant == Spec => []AsksAsItMay
<1>1. Init => AsksAsItMay
  BY DEF Init, AsksAsItMay, Idle
<1>2. LimiterInv /\ AsksAsItMay /\ [Next]_vars => AsksAsItMay'
  <2> SUFFICES ASSUME LimiterInv, AsksAsItMay, [Next]_vars PROVE AsksAsItMay'
    OBVIOUS
  <2>1. DOMAIN request = Requests
    BY DEF LimiterInv
  <2>2. CASE UNCHANGED vars \/ Tick
    BY <2>2 DEF vars, Tick, AsksAsItMay
  <2>3. CASE Restart
    BY <2>3 DEF Restart, Idle, AsksAsItMay
  <2>4. ASSUME NEW r \in Requests, Resolve(r)
        PROVE  AsksAsItMay'
    <3>1. PICK y \in Tokens, op \in Operations :
            /\ Entitled(op, RowFor(op, y))
            /\ request' = [request EXCEPT ![r] = [at |-> "resolved", token |-> y, op |-> op]]
      BY <2>4 DEF Resolve
    <3>2. y \in Keys <=> op \in ByKey
      BY <3>1 DEF Entitled, RowFor, Absent
    <3> QED
      BY <2>1, <3>1, <3>2 DEF AsksAsItMay
  <2>5. ASSUME NEW r \in Requests, Admit(r)
        PROVE  AsksAsItMay'
    BY <2>1, <2>5 DEF Admit, AsksAsItMay
  <2>6. ASSUME NEW r \in Requests, Refuse(r)
        PROVE  AsksAsItMay'
    BY <2>1, <2>6 DEF Refuse, AsksAsItMay
  <2>7. ASSUME NEW r \in Requests, ComeBack(r) \/ Handle(r) \/ HandleInVain(r)
        PROVE  AsksAsItMay'
    BY <2>1, <2>7 DEF ComeBack, Handle, HandleInVain, Idle, AsksAsItMay
  <2> QED
    BY <2>2, <2>3, <2>4, <2>5, <2>6, <2>7 DEF Next
<1> QED
  BY <1>1, <1>2, InitLimiter, NextLimiter, PTL DEF Spec

\* A tenant whose last key is revoked has none ever after, whatever its reviewers
\* and other tenants do. Only a request made with a key changes a token, and only
\* one of its own tenant. (main.py:598-757; auth.py:30-75.)
THEOREM LastKeyFinal == Spec => LastKeyRevokedIsFinal
<1>1. ASSUME LimiterInv, AsksAsItMay, [Next]_vars, NEW k \in Keys, Keyless(TenantOf[k])
      PROVE  /\ Keyless(TenantOf[k])'
             /\ \A x \in Tokens : TenantOf[x] = TenantOf[k] => credential'[x] = credential[x]
  <2> DEFINE Ours == {x \in Tokens : TenantOf[x] = TenantOf[k]}
             Past(q) == /\ q.at \in {"resolved", "admitted"}
                        /\ q.token \in Keys /\ TenantOf[q.token] = TenantOf[k]
             Kept == \A x \in Ours : credential'[x] = credential[x]
             NonePast == \A r \in Requests : ~Past(request'[r])
  <2>1. DOMAIN credential = Tokens /\ DOMAIN request = Requests
    BY <1>1 DEF LimiterInv
  <2>2. /\ \A x \in Keys : TenantOf[x] = TenantOf[k] => credential[x].status # "live"
        /\ \A r \in Requests : ~Past(request[r])
    BY <1>1 DEF Keyless
  <2>3. SUFFICES Kept /\ NonePast
    <3>1. Keys \subseteq Tokens
      BY DEF Tokens
    <3> QED
      BY <2>2, <3>1 DEF Keyless
  <2>4. CASE UNCHANGED vars \/ Tick
    BY <2>2, <2>4 DEF vars, Tick
  <2>5. CASE Restart
    BY <2>2, <2>5 DEF Restart, Idle
  <2>6. ASSUME NEW r \in Requests, Resolve(r)
        PROVE  Kept /\ NonePast
    <3>1. PICK y \in Tokens, op \in Operations :
            /\ Entitled(op, RowFor(op, y))
            /\ request' = [request EXCEPT ![r] = [at |-> "resolved", token |-> y, op |-> op]]
      BY <2>6 DEF Resolve
    <3>2. credential[y].status = "live"
      BY <3>1 DEF Entitled, RowFor, Absent
    <3>3. ~(y \in Keys /\ TenantOf[y] = TenantOf[k]) /\ credential' = credential
      BY <2>2, <2>6, <3>2 DEF Resolve
    <3> QED
      BY <2>1, <2>2, <3>1, <3>3
  <2>7. ASSUME NEW r \in Requests, Admit(r)
        PROVE  Kept /\ NonePast
    <3>1. /\ request[r].at = "resolved" /\ credential' = credential
          /\ request' = [request EXCEPT ![r].at = "admitted"]
      BY <2>7 DEF Admit
    <3>2. request'[r].token = request[r].token
      BY <2>1, <3>1
    <3> QED
      BY <2>1, <2>2, <3>1, <3>2
  <2>8. ASSUME NEW r \in Requests, Refuse(r) \/ ComeBack(r) \/ HandleInVain(r)
        PROVE  Kept /\ NonePast
    <3>1. credential' = credential
      BY <2>8 DEF Refuse, ComeBack, HandleInVain
    <3>2. CASE Refuse(r)
      BY <2>1, <2>2, <3>1, <3>2 DEF Refuse
    <3>3. CASE ComeBack(r) \/ HandleInVain(r)
      BY <2>1, <2>2, <3>1, <3>3 DEF ComeBack, HandleInVain, Idle
    <3> QED
      BY <2>8, <3>2, <3>3
  <2>9. ASSUME NEW r \in Requests, Handle(r)
        PROVE  Kept /\ NonePast
    <3>1. request[r].at = "admitted" /\ request' = [request EXCEPT ![r] = Idle]
      BY <2>9 DEF Handle
    <3>2. request[r].op \in ByKey => TenantOf[request[r].token] # TenantOf[k]
      BY <1>1, <2>2, <3>1 DEF AsksAsItMay
    <3>3. \/ credential' = credential
          \/ /\ request[r].op \in ByKey
             /\ \/ \E x \in Tokens : \E role : Create(request[r].token, x, role)
                \/ \E x \in Tokens : Revoke(request[r].token, x)
      BY <2>9 DEF Handle, Tokens, ByKey
    <3>4. Kept
      BY <2>1, <3>2, <3>3 DEF Create, Revoke, Sees
    <3> QED
      BY <2>1, <2>2, <3>1, <3>4 DEF Idle
  <2> QED
    BY <1>1, <2>4, <2>5, <2>6, <2>7, <2>8, <2>9 DEF Next
<1>2. LimiterInv /\ AsksAsItMay /\ [Next]_vars =>
        [\A k \in Keys : Keyless(TenantOf[k]) =>
           /\ Keyless(TenantOf[k])'
           /\ \A x \in Tokens : TenantOf[x] = TenantOf[k] => credential'[x] = credential[x]]_vars
  BY <1>1
<1> QED
  BY <1>2, AskingInvariant, InitLimiter, NextLimiter, PTL DEF Spec, LastKeyRevokedIsFinal

\* The request record of each place a request can be in.
Places ==
  {Idle}
  \cup [at : {"resolved", "admitted"}, token : Tokens, op : Operations]
  \cup [at : {"refused"}, token : Tokens, start : 0..MaxClock, until : Nat]

\* A past cut to its bound is a sequence of the same times.
LEMMA LastOnesKeep ==
  ASSUME NEW S, NEW times \in Seq(S), NEW x \in S
  PROVE  LastOnes(Append(times, x)) \in Seq(S)
<1>1. Append(times, x) \in Seq(S) /\ Append(times, x) # <<>>
  BY AppendProperties
<1>2. Tail(Append(times, x)) \in Seq(S)
  BY <1>1, HeadTailProperties
<1> QED
  BY <1>1, <1>2 DEF LastOnes

\* A request let in keeps the types: a window never counts more than the limit.
LEMMA AdmitTyped ==
  ASSUME TypeOK, NEW r \in Requests, Admit(r)
  PROVE  TypeOK'
<1> DEFINE q == request[r]
           w == windows[q.token]
<1> USE GateAssumption DEF GateAssumption
<1>1. /\ q.at = "resolved" /\ Allows(w, clock)
      /\ windows' = [windows EXCEPT ![q.token] = Counted(w, clock)]
      /\ admitted' = [admitted EXCEPT ![q.token] = LastOnes(Append(@, clock))]
      /\ request' = [request EXCEPT ![r].at = "admitted"]
      /\ UNCHANGED <<credential, clock>>
  BY DEF Admit
<1>2. q \in [at : {"resolved", "admitted"}, token : Tokens, op : Operations]
  BY <1>1 DEF TypeOK, Idle
<1>3. w \in [start : 0..clock, count : 0..Limit] /\ clock \in Nat
  BY <1>2 DEF TypeOK
<1>4. Counted(w, clock) \in [start : 0..clock, count : 0..Limit]
  BY <1>1, <1>3 DEF Counted, Allows, Expired
<1>5. windows' \in [Tokens -> [start : 0..clock', count : 0..Limit]]
  BY <1>1, <1>2, <1>4 DEF TypeOK
<1>6. LastOnes(Append(admitted[q.token], clock)) \in Seq(0..clock)
  <2>1. admitted[q.token] \in Seq(0..clock) /\ clock \in 0..clock
    BY <1>2, <1>3 DEF TypeOK
  <2> QED
    BY <2>1, LastOnesKeep
<1>7. admitted' \in [Tokens -> Seq(0..clock')]
  BY <1>1, <1>2, <1>6 DEF TypeOK
<1>8. [q EXCEPT !.at = "admitted"] \in Places
  BY <1>2 DEF Places
<1>9. request' \in [Requests -> Places]
  BY <1>1, <1>8 DEF TypeOK, Places
<1> QED
  BY <1>1, <1>5, <1>7, <1>9 DEF TypeOK, Places

\* A refusal tells a time to come back at: the end of the window that refused, or
\* up to a second later. (ratelimit.py:48.)
LEMMA SecondsCover ==
  ASSUME NEW left \in Nat, NEW ticks \in Nat \ {0}
  PROVE  /\ left \div ticks \in Nat
         /\ (left \div ticks) * ticks <= left
         /\ left < (left \div ticks + 1) * ticks
<1>1. left \div ticks \in Nat
  OBVIOUS
<1>2. left = ticks * (left \div ticks) + (left % ticks) /\ left % ticks \in 0..(ticks - 1)
  OBVIOUS
<1> DEFINE k == left \div ticks
<1>3. (k + 1) * ticks = ticks * k + ticks /\ k * ticks = ticks * k
  BY <1>1
<1> QED
  BY <1>1, <1>2, <1>3


\* What a waiting client was told stays right: the window that refused it ends
\* between a second before the time it was given and just before it.
Told(q) ==
  /\ q.token \in Tokens /\ q.start \in Nat /\ q.until \in Nat
  /\ q.start + Window < q.until
  /\ q.until - TicksPerSecond <= q.start + Window

\* A 429 leaves a record of the window that refused and a time that is after its end.
LEMMA RefusalTold ==
  ASSUME TypeOK, NEW r \in Requests, Refuse(r)
  PROVE  \E told : /\ request' = [request EXCEPT ![r] = told]
                   /\ told \in Places /\ told.at = "refused" /\ Told(told)
<1> DEFINE q == request[r]
           w == windows[q.token]
           left == Window - (clock - w.start)
           told == [at |-> "refused", token |-> q.token, start |-> w.start,
                    until |-> clock + RetryAfter(w, clock) * TicksPerSecond]
<1> USE GateAssumption DEF GateAssumption
<1>1. /\ q.at = "resolved" /\ ~Allows(w, clock)
      /\ request' = [request EXCEPT ![r] = told]
  BY DEF Refuse
<1>2. q.token \in Tokens
  BY <1>1 DEF TypeOK, Idle
<1>3. w.start \in 0..clock /\ clock \in 0..MaxClock
  BY <1>2 DEF TypeOK
<1>4. left \in Nat /\ RetryAfter(w, clock) = left \div TicksPerSecond + 1
  BY <1>1, <1>3 DEF Allows, Expired, RetryAfter
<1> DEFINE wait == RetryAfter(w, clock) * TicksPerSecond
<1>5. wait \in Nat /\ left < wait /\ wait - TicksPerSecond <= left
  <2> HIDE DEF left
  <2>1. PICK k \in Nat : k = left \div TicksPerSecond /\ k * TicksPerSecond <= left
                         /\ left < (k + 1) * TicksPerSecond
    BY <1>4, SecondsCover
  <2>2. (k + 1) * TicksPerSecond = k * TicksPerSecond + TicksPerSecond
    BY <2>1
  <2>3. wait = (k + 1) * TicksPerSecond
    BY <1>4, <2>1
  <2>4. k * TicksPerSecond \in Nat
    BY <2>1
  <2> HIDE DEF wait
  <2> QED
    BY <1>4, <2>1, <2>2, <2>3, <2>4
<1>6. told.start = w.start /\ told.until = clock + wait /\ told.at = "refused" /\ told.token = q.token
  OBVIOUS
<1>7. Told(told)
  <2> HIDE DEF wait, told
  <2> QED
    BY <1>2, <1>3, <1>5, <1>6 DEF Told
<1>8. told \in Places
  <2>1. w.start \in 0..MaxClock
    BY <1>3
  <2>2. clock + wait \in Nat
    <3> HIDE DEF wait
    <3> QED
      BY <1>3, <1>5
  <2> QED
    BY <1>2, <2>1, <2>2 DEF Places
<1> HIDE DEF told
<1> QED
  BY <1>1, <1>6, <1>7, <1>8

\* A handler leaves rows of the right shape.
LEMMA HandleTyped ==
  ASSUME TypeOK, NEW r \in Requests, Handle(r)
  PROVE  TypeOK'
<1>1. request' = [request EXCEPT ![r] = Idle] /\ UNCHANGED <<clock, windows, admitted>>
  BY DEF Handle
<1>2. \/ credential' = credential
      \/ \E x \in Tokens : \E role \in Roles \cup {"none"} : Create(request[r].token, x, role)
      \/ \E x \in Tokens : Revoke(request[r].token, x)
  BY DEF Handle, Tokens
<1>3. credential' \in [Tokens -> Credentials]
  <2>1. ASSUME NEW x \in Tokens, NEW role \in Roles \cup {"none"},
               Create(request[r].token, x, role)
        PROVE  credential' \in [Tokens -> Credentials]
    <3>1. [status |-> "live", role |-> role] \in Credentials
      BY DEF Credentials
    <3> QED
      BY <2>1, <3>1 DEF Create, TypeOK
  <2>2. ASSUME NEW x \in Tokens, Revoke(request[r].token, x)
        PROVE  credential' \in [Tokens -> Credentials]
    <3>1. credential[x] \in Credentials
      BY DEF TypeOK
    <3>2. [credential[x] EXCEPT !.status = "revoked"] \in Credentials
      BY <3>1 DEF Credentials
    <3> QED
      BY <2>2, <3>2 DEF Revoke, TypeOK
  <2> QED
    BY <1>2, <2>1, <2>2 DEF TypeOK
<1>4. request' \in [Requests -> Places]
  BY <1>1 DEF TypeOK, Places
<1> QED
  BY <1>1, <1>3, <1>4 DEF TypeOK, Places

\* Every step keeps the types.
LEMMA NextTyped == TypeOK /\ [Next]_vars => TypeOK'
<1> SUFFICES ASSUME TypeOK, [Next]_vars PROVE TypeOK'
  OBVIOUS
<1> USE GateAssumption DEF GateAssumption
<1>1. request \in [Requests -> Places] /\ clock \in Nat
  BY DEF TypeOK, Places
<1>2. CASE Tick
  <2>1. /\ clock' \in 0..MaxClock /\ clock' = clock + 1
        /\ UNCHANGED <<credential, windows, request, admitted>>
    BY <1>2 DEF Tick, TypeOK
  <2>2. 0..clock \subseteq 0..clock'
    BY <1>1, <2>1
  <2>3. /\ [start : 0..clock, count : 0..Limit] \subseteq [start : 0..clock', count : 0..Limit]
        /\ Seq(0..clock) \subseteq Seq(0..clock')
    BY <2>2, SeqMonotonic
  <2>4. windows' \in [Tokens -> [start : 0..clock', count : 0..Limit]]
    BY <2>1, <2>3 DEF TypeOK
  <2>5. admitted' \in [Tokens -> Seq(0..clock')]
    BY <2>1, <2>3 DEF TypeOK
  <2> QED
    BY <2>1, <2>4, <2>5 DEF TypeOK
<1>3. CASE Restart
  <2>1. /\ UNCHANGED <<credential, clock>> /\ request' = [r \in Requests |-> Idle]
        /\ windows' = [t \in Tokens |-> NoWindow] /\ admitted' = [t \in Tokens |-> <<>>]
    BY <1>3 DEF Restart
  <2>2. NoWindow \in [start : 0..clock', count : 0..Limit]
    BY <1>1, <2>1 DEF NoWindow
  <2> QED
    BY <2>1, <2>2 DEF TypeOK
<1>4. ASSUME NEW r \in Requests, Resolve(r) \/ ComeBack(r) \/ HandleInVain(r) \/ Refuse(r)
      PROVE  TypeOK'
  <2>1. UNCHANGED <<credential, clock, windows, admitted>>
    BY <1>4 DEF Resolve, ComeBack, HandleInVain, Refuse
  <2>2. CASE Resolve(r)
    <3>1. PICK t \in Tokens, op \in Operations :
            request' = [request EXCEPT ![r] = [at |-> "resolved", token |-> t, op |-> op]]
      BY <2>2 DEF Resolve
    <3>2. [at |-> "resolved", token |-> t, op |-> op] \in Places
      BY DEF Places
    <3> QED
      BY <1>1, <2>1, <3>1, <3>2 DEF TypeOK, Places
  <2>3. CASE ComeBack(r) \/ HandleInVain(r)
    <3>1. request' = [request EXCEPT ![r] = Idle]
      BY <2>3 DEF ComeBack, HandleInVain
    <3>2. Idle \in Places
      BY DEF Places
    <3> QED
      BY <1>1, <2>1, <3>1, <3>2 DEF TypeOK, Places
  <2>4. CASE Refuse(r)
    <3>1. PICK told : /\ request' = [request EXCEPT ![r] = told]
                      /\ told \in Places
      BY <2>4, RefusalTold DEF TypeOK
    <3> QED
      BY <1>1, <2>1, <3>1 DEF TypeOK, Places
  <2> QED
    BY <1>4, <2>2, <2>3, <2>4
<1>5. CASE UNCHANGED vars
  BY <1>5 DEF vars, TypeOK
<1> QED
  BY <1>2, <1>3, <1>4, <1>5, AdmitTyped, HandleTyped DEF Next

\* The type invariant of the gate.
THEOREM TypeCorrect == Spec => []TypeOK
<1>1. Init => TypeOK
  <2> SUFFICES ASSUME Init PROVE TypeOK
    OBVIOUS
  <2> USE GateAssumption DEF GateAssumption
  <2>1. clock \in 0..MaxClock /\ clock = 0
    BY DEF Init
  <2>2. credential \in [Tokens -> Credentials]
    BY DEF Init, Credentials, Absent
  <2>3. windows \in [Tokens -> [start : 0..clock, count : 0..Limit]]
    BY <2>1 DEF Init, NoWindow
  <2>4. request \in [Requests -> {Idle}]
    BY DEF Init
  <2>5. admitted \in [Tokens -> Seq(0..clock)]
    BY DEF Init
  <2> QED
    BY <2>1, <2>2, <2>3, <2>4, <2>5 DEF TypeOK
<1> QED
  BY <1>1, NextTyped, PTL DEF Spec

\* What a refused client was told holds of every refused client.
Waits == \A r \in Requests : request[r].at = "refused" => Told(request[r])

\* No step changes what a refused client was told.
LEMMA NextWaits == TypeOK /\ Waits /\ [Next]_vars => Waits'
<1> SUFFICES ASSUME TypeOK, Waits, [Next]_vars PROVE Waits'
  OBVIOUS
<1>1. request \in [Requests -> Places]
  BY DEF TypeOK, Places
<1>2. CASE Tick \/ UNCHANGED vars
  BY <1>2 DEF Tick, vars, Waits
<1>3. CASE Restart
  BY <1>3 DEF Restart, Idle, Waits
<1>4. ASSUME NEW r \in Requests, Refuse(r)
      PROVE  Waits'
  <2>1. PICK told : request' = [request EXCEPT ![r] = told] /\ Told(told)
    BY <1>4, RefusalTold
  <2> QED
    BY <1>1, <2>1 DEF Waits
<1>5. ASSUME NEW r \in Requests, Admit(r)
      PROVE  Waits'
  <2>1. request' = [request EXCEPT ![r].at = "admitted"]
    BY <1>5 DEF Admit
  <2>2. request'[r].at # "refused"
    <3>1. request[r] \in [at : {"resolved", "admitted"}, token : Tokens, op : Operations]
      BY <1>1, <1>5 DEF Admit, Places, Idle
    <3> QED
      BY <1>1, <2>1, <3>1
  <2> QED
    BY <1>1, <2>1, <2>2 DEF Waits
<1>6. ASSUME NEW r \in Requests, Resolve(r) \/ ComeBack(r) \/ Handle(r) \/ HandleInVain(r)
      PROVE  Waits'
  <2>1. PICK q : request' = [request EXCEPT ![r] = q] /\ q.at # "refused"
    BY <1>6 DEF Resolve, ComeBack, Handle, HandleInVain, Idle
  <2> QED
    BY <1>1, <2>1 DEF Waits
<1> QED
  BY <1>2, <1>3, <1>4, <1>5, <1>6 DEF Next

\* A client that waits as long as its 429 said finds the window over, or another
\* one opened by someone faster, and has waited at most a second too long: for
\* every limit, window and clock. (ratelimit.py:48; main.py:119-125.)
THEOREM RetryAfterSuffices == Spec => []RetryAfterIsEnough
<1>1. Init => Waits
  BY DEF Init, Idle, Waits
<1>2. TypeOK /\ Waits => RetryAfterIsEnough
  <2> SUFFICES ASSUME TypeOK, Waits, NEW r \in Requests, request[r].at = "refused"
               PROVE  LET q == request[r]
                      IN  /\ clock >= q.until =>
                               windows[q.token].start # q.start \/ Allows(windows[q.token], clock)
                          /\ q.until - TicksPerSecond <= q.start + Window
    BY DEF RetryAfterIsEnough
  <2>1. PICK q : q = request[r] /\ Told(q)
    BY DEF Waits
  <2>2. clock \in Nat /\ Window \in Nat
    BY GateAssumption DEF GateAssumption, TypeOK
  <2>3. ASSUME clock >= q.until, windows[q.token].start = q.start
        PROVE  Allows(windows[q.token], clock)
    <3>1. clock - q.start >= Window
      BY <2>1, <2>2, <2>3 DEF Told
    <3> QED
      BY <2>3, <3>1 DEF Allows, Expired
  <2> QED
    BY <2>1, <2>3 DEF Told
<1> QED
  BY <1>1, <1>2, NextWaits, TypeCorrect, PTL DEF Spec
==============================================================================
