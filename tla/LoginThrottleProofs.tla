------------------------- MODULE LoginThrottleProofs -------------------------
(***************************************************************************)
(* Theorems about LoginThrottle, for any number of emails, concurrent      *)
(* logins, Redis failures and restarts, and any limit.                     *)
(***************************************************************************)
EXTENDS LoginThrottle, FiniteSetTheorems, TLAPS

\* Every counter, location and argument stays in its type.
THEOREM TypeCorrect == Spec => []TypeOK
<1>1. Init => TypeOK
  BY ThrottleConstants DEF Init, TypeOK, Locations
<1>2. TypeOK /\ [Next]_vars => TypeOK'
  <2> SUFFICES ASSUME TypeOK, [Next]_vars PROVE TypeOK'
    OBVIOUS
  <2> USE ThrottleConstants DEF TypeOK, Locations, Goto
  <2>1. ASSUME NEW r \in Requests, Start(r) PROVE TypeOK'
    BY <2>1 DEF Start, redis
  <2>2. ASSUME NEW r \in Requests, EnsureConnection(r) PROVE TypeOK'
    BY <2>2 DEF EnsureConnection, Command, redis
  <2>3. ASSUME NEW r \in Requests, Get(r) PROVE TypeOK'
    BY <2>3 DEF Get, redis
  <2>4. ASSUME NEW r \in Requests, Verify(r) PROVE TypeOK'
    BY <2>4 DEF Verify, redis
  <2>5. ASSUME NEW r \in Requests, IncrEmail(r) PROVE TypeOK'
    BY <2>5 DEF IncrEmail, Increment
  <2>6. ASSUME NEW r \in Requests, IncrIp(r) PROVE TypeOK'
    BY <2>6 DEF IncrIp, redis
  <2>7. ASSUME NEW r \in Requests, ExpireEmail(r) PROVE TypeOK'
    BY <2>7 DEF ExpireEmail, Arm
  <2>8. ASSUME NEW r \in Requests, ExpireIp(r) PROVE TypeOK'
    BY <2>8 DEF ExpireIp, redis
  <2>9. ASSUME NEW r \in Requests, Del(r) PROVE TypeOK'
    BY <2>9 DEF Del, Delete
  <2>10. ASSUME NEW r \in Requests, Return(r) PROVE TypeOK'
    BY <2>10 DEF Return, redis
  <2>11. ASSUME NEW r \in Requests, ConnectFails(r) PROVE TypeOK'
    BY <2>11 DEF ConnectFails, Skipped, redis
  <2>12. ASSUME NEW r \in Requests, CommandFails(r) PROVE TypeOK'
    BY <2>12 DEF CommandFails, Commands, Caught, redis
  <2>13. ASSUME NEW r \in Requests, ReplyLost(r) PROVE TypeOK'
    BY <2>13 DEF ReplyLost, Caught, Increment, Arm, Delete
  <2>14. ASSUME NEW e \in Emails, Expire(e) PROVE TypeOK'
    BY <2>14 DEF Expire, Delete
  <2>15. CASE ConnectionError
    <3>1. connected' \in BOOLEAN
      BY <2>15, Zenon DEF ConnectionError
    <3>2. faults' = faults + 1
      BY <2>15, Zenon DEF ConnectionError
    <3>3. faults' \in Nat
      BY <3>2
    <3>4. UNCHANGED <<attempts, armed, pc, email, crashes>>
      BY <2>15, Zenon DEF ConnectionError, redis
    <3> QED
      BY <3>1, <3>3, <3>4, Zenon
  <2>16. CASE Crash
    BY <2>16 DEF Crash, redis
  <2>17. CASE UNCHANGED vars
    BY <2>17 DEF vars
  <2> QED
    BY <2>1, <2>2, <2>3, <2>4, <2>5, <2>6, <2>7, <2>8, <2>9, <2>10, <2>11, <2>12,
       <2>13, <2>14, <2>15, <2>16, <2>17 DEF Next, Continue
<1> QED
  BY <1>1, <1>2, PTL DEF Spec

-----------------------------------------------------------------------------
(* The overshoot of the limit.  A step does one of four things to an       *)
(* email: it lets a login end or clears the counter; a failure lets one    *)
(* more login past the lock check; a lock check finds the counter below    *)
(* the limit; or a pending login becomes a counted failure.                *)

Eases(e) == /\ attempts'[e] <= attempts[e]
            /\ Pending(e)' \subseteq Pending(e)
            /\ faults' >= faults

Bypasses(e) == /\ attempts'[e] <= attempts[e]
               /\ \E r \in Requests : Pending(e)' \subseteq Pending(e) \cup {r}
               /\ faults' = faults + 1

Passes(e) == /\ attempts'[e] = attempts[e]
             /\ attempts[e] <= MaxAttempts - 1
             /\ Pending(e)' \subseteq Requests
             /\ faults' = faults

Counts(e) == /\ attempts'[e] = attempts[e] + 1
             /\ \E r \in Pending(e) : Pending(e)' \subseteq Pending(e) \ {r}
             /\ faults' >= faults

\* A subset of a finite set is finite and no larger.
LEMMA SmallerSet ==
  ASSUME NEW S, IsFiniteSet(S), NEW T, T \subseteq S
  PROVE  /\ IsFiniteSet(T)
         /\ Cardinality(T) \in Nat /\ Cardinality(S) \in Nat
         /\ Cardinality(T) <= Cardinality(S)
BY FS_Subset, FS_CardinalityType

\* Every step is one of the four.
LEMMA StepKinds ==
  ASSUME TypeOK, TypeOK', [Next]_vars, NEW e \in Emails
  PROVE  Eases(e) \/ Bypasses(e) \/ Passes(e) \/ Counts(e)
<1> USE ThrottleConstants DEF TypeOK, Locations, Goto, Pending
<1>1. ASSUME NEW r \in Requests, Start(r) PROVE Eases(e)
  BY <1>1 DEF Start, redis, Eases
<1>2. ASSUME NEW r \in Requests, EnsureConnection(r) PROVE Eases(e)
  BY <1>2 DEF EnsureConnection, Command, redis, Eases
<1>3. ASSUME NEW r \in Requests, Get(r) PROVE Eases(e) \/ Passes(e)
  <2>1. CASE email[r] = e /\ attempts[e] < MaxAttempts
    BY <1>3, <2>1 DEF Get, redis, Passes
  <2>2. CASE ~(email[r] = e /\ attempts[e] < MaxAttempts)
    BY <1>3, <2>2 DEF Get, redis, Eases
  <2> QED
    BY <2>1, <2>2
<1>4. ASSUME NEW r \in Requests, Verify(r) PROVE Eases(e)
  BY <1>4 DEF Verify, redis, Eases
<1>5. ASSUME NEW r \in Requests, IncrEmail(r) PROVE Eases(e) \/ Counts(e)
  <2>1. CASE email[r] = e
    BY <1>5, <2>1 DEF IncrEmail, Increment, Counts
  <2>2. CASE email[r] # e
    BY <1>5, <2>2 DEF IncrEmail, Increment, Eases
  <2> QED
    BY <2>1, <2>2
<1>6. ASSUME NEW r \in Requests, IncrIp(r) PROVE Eases(e)
  BY <1>6 DEF IncrIp, redis, Eases
<1>7. ASSUME NEW r \in Requests, ExpireEmail(r) PROVE Eases(e)
  BY <1>7 DEF ExpireEmail, Arm, Eases
<1>8. ASSUME NEW r \in Requests, ExpireIp(r) PROVE Eases(e)
  BY <1>8 DEF ExpireIp, redis, Eases
<1>9. ASSUME NEW r \in Requests, Del(r) PROVE Eases(e)
  BY <1>9 DEF Del, Delete, Eases
<1>10. ASSUME NEW r \in Requests, Return(r) PROVE Eases(e)
  BY <1>10 DEF Return, redis, Eases
<1>11. ASSUME NEW r \in Requests, ConnectFails(r) PROVE Bypasses(e)
  BY <1>11 DEF ConnectFails, Skipped, redis, Bypasses
<1>12. ASSUME NEW r \in Requests, CommandFails(r) PROVE Bypasses(e)
  BY <1>12 DEF CommandFails, Commands, Caught, redis, Bypasses
<1>13. ASSUME NEW r \in Requests, ReplyLost(r) PROVE Eases(e) \/ Counts(e)
  <2>1. CASE pc[r] = "incrEmail" /\ email[r] = e
    BY <1>13, <2>1 DEF ReplyLost, Caught, Increment, Counts
  <2>2. CASE ~(pc[r] = "incrEmail" /\ email[r] = e)
    BY <1>13, <2>2 DEF ReplyLost, Caught, Increment, Arm, Delete, Eases
  <2> QED
    BY <2>1, <2>2
<1>14. ASSUME NEW d \in Emails, Expire(d) PROVE Eases(e)
  BY <1>14 DEF Expire, Delete, Eases
<1>15. CASE ConnectionError
  BY <1>15 DEF ConnectionError, redis, Eases
<1>16. CASE Crash
  BY <1>16 DEF Crash, redis, Eases
<1>17. CASE UNCHANGED vars
  BY <1>17 DEF vars, Eases
<1> QED
  BY <1>1, <1>2, <1>3, <1>4, <1>5, <1>6, <1>7, <1>8, <1>9, <1>10, <1>11, <1>12,
     <1>13, <1>14, <1>15, <1>16, <1>17 DEF Next, Continue

\* Concurrent logins overshoot the limit by no more than their number and the
\* lock checks that a failure of Redis let through.
THEOREM OvershootBounded == Spec => []AttemptsBounded
<1>1. Init => AttemptsBounded
  <2> SUFFICES ASSUME Init, NEW e \in Emails
               PROVE  attempts[e] + Cardinality(Pending(e))
                        <= (MaxAttempts - 1) + Cardinality(Requests) + faults
    BY DEF AttemptsBounded
  <2>1. Pending(e) = {} /\ attempts[e] = 0 /\ faults = 0
    BY DEF Init, Pending
  <2> QED
    BY <2>1, FS_EmptySet, FS_CardinalityType, ThrottleConstants
<1>2. TypeOK /\ TypeOK' /\ AttemptsBounded /\ [Next]_vars => AttemptsBounded'
  <2> SUFFICES ASSUME TypeOK, TypeOK', AttemptsBounded, [Next]_vars,
                      NEW e \in Emails
               PROVE  attempts'[e] + Cardinality(Pending(e)')
                        <= (MaxAttempts - 1) + Cardinality(Requests) + faults'
    BY DEF AttemptsBounded
  <2> DEFINE n == Cardinality(Requests)
             p == Cardinality(Pending(e))
             q == Cardinality(Pending(e)')
  <2>1. Pending(e) \subseteq Requests /\ Pending(e)' \subseteq Requests
    BY DEF Pending
  <2>2. /\ IsFiniteSet(Pending(e)) /\ IsFiniteSet(Pending(e)')
        /\ n \in Nat /\ p \in Nat /\ q \in Nat
        /\ q <= n
    BY <2>1, SmallerSet, ThrottleConstants
  <2>3. attempts[e] + p <= (MaxAttempts - 1) + n + faults
    BY DEF AttemptsBounded
  <2>4. /\ attempts[e] \in Nat /\ attempts'[e] \in Nat
        /\ faults \in Nat /\ faults' \in Nat /\ MaxAttempts \in Nat
    BY ThrottleConstants DEF TypeOK
  <2>5. CASE Eases(e)
    <3>1. q <= p
      BY <2>2, <2>5, SmallerSet DEF Eases
    <3> HIDE DEF n, p, q
    <3> QED
      BY <2>2, <2>3, <2>4, <2>5, <3>1 DEF Eases, n, q
  <2>6. CASE Bypasses(e)
    <3>1. PICK r \in Requests : Pending(e)' \subseteq Pending(e) \cup {r}
      BY <2>6 DEF Bypasses
    <3>2. IsFiniteSet(Pending(e) \cup {r}) /\ Cardinality(Pending(e) \cup {r}) <= p + 1
      BY <2>2, FS_AddElement
    <3>3. q <= p + 1
      BY <2>2, <3>1, <3>2, SmallerSet
    <3> HIDE DEF n, p, q
    <3> QED
      BY <2>2, <2>3, <2>4, <2>6, <3>3 DEF Bypasses, n, q
  <2>7. CASE Passes(e)
    <3> HIDE DEF n, p, q
    <3> QED
      BY <2>2, <2>4, <2>7 DEF Passes, n, q
  <2>8. CASE Counts(e)
    <3>1. PICK r \in Pending(e) : Pending(e)' \subseteq Pending(e) \ {r}
      BY <2>8 DEF Counts
    <3>2. /\ IsFiniteSet(Pending(e) \ {r})
          /\ Cardinality(Pending(e) \ {r}) = p - 1
      BY <2>2, <3>1, FS_RemoveElement
    <3>3. q <= p - 1
      BY <2>2, <3>1, <3>2, SmallerSet
    <3> HIDE DEF n, p, q
    <3> QED
      BY <2>2, <2>3, <2>4, <2>8, <3>3 DEF Counts, n, q
  <2> QED
    BY <2>5, <2>6, <2>7, <2>8, StepKinds
<1> QED
  BY <1>1, <1>2, TypeCorrect, PTL DEF Spec

-----------------------------------------------------------------------------

\* While Redis works and the process lives, every counter has a time to live or a
\* login that is about to set it.
THEOREM CountersWillExpire == Spec => []EveryCounterWillExpire
<1>1. Init => EveryCounterWillExpire
  BY DEF Init, EveryCounterWillExpire
<1>2. TypeOK /\ TypeOK' /\ EveryCounterWillExpire /\ [Next]_vars
        => EveryCounterWillExpire'
  <2> SUFFICES ASSUME TypeOK, TypeOK', EveryCounterWillExpire, [Next]_vars,
                      NEW e \in Emails,
                      faults' = 0, crashes' = 0, attempts'[e] > 0, e \notin armed'
               PROVE  \E q \in Requests :
                        pc'[q] \in {"incrIp", "expireEmail"} /\ email'[q] = e
    BY DEF EveryCounterWillExpire
  <2> DEFINE Known == attempts[e] > 0 /\ e \notin armed =>
                        \E q \in Requests :
                           pc[q] \in {"incrIp", "expireEmail"} /\ email[q] = e
             Goal == \E q \in Requests :
                        pc'[q] \in {"incrIp", "expireEmail"} /\ email'[q] = e
  <2> USE DEF TypeOK, Locations, Goto
  <2>0. faults = 0 /\ crashes = 0 => Known
    BY DEF EveryCounterWillExpire
  <2>1. ASSUME NEW r \in Requests, Start(r) PROVE Goal
    BY <2>0, <2>1 DEF Start, redis
  <2>2. ASSUME NEW r \in Requests, EnsureConnection(r) PROVE Goal
    BY <2>0, <2>2 DEF EnsureConnection, Command, redis
  <2>3. ASSUME NEW r \in Requests, Get(r) PROVE Goal
    BY <2>0, <2>3 DEF Get, redis
  <2>4. ASSUME NEW r \in Requests, Verify(r) PROVE Goal
    BY <2>0, <2>4 DEF Verify, redis
  <2>5. ASSUME NEW r \in Requests, IncrEmail(r) PROVE Goal
    <3>1. CASE email[r] = e
      BY <2>5, <3>1 DEF IncrEmail
    <3>2. CASE email[r] # e
      BY <2>0, <2>5, <3>2 DEF IncrEmail, Increment
    <3> QED
      BY <3>1, <3>2
  <2>6. ASSUME NEW r \in Requests, IncrIp(r) PROVE Goal
    BY <2>0, <2>6 DEF IncrIp, redis
  <2>7. ASSUME NEW r \in Requests, ExpireEmail(r) PROVE Goal
    BY <2>0, <2>7 DEF ExpireEmail, Arm
  <2>8. ASSUME NEW r \in Requests, ExpireIp(r) PROVE Goal
    BY <2>0, <2>8 DEF ExpireIp, redis
  <2>9. ASSUME NEW r \in Requests, Del(r) PROVE Goal
    BY <2>0, <2>9 DEF Del, Delete
  <2>10. ASSUME NEW r \in Requests, Return(r) PROVE Goal
    BY <2>0, <2>10 DEF Return, redis
  <2>11. ASSUME NEW r \in Requests,
                ConnectFails(r) \/ CommandFails(r) \/ ReplyLost(r) PROVE FALSE
    BY <2>11 DEF ConnectFails, CommandFails, ReplyLost
  <2>12. ASSUME NEW d \in Emails, Expire(d) PROVE Goal
    BY <2>0, <2>12 DEF Expire, Delete
  <2>13. ASSUME ConnectionError \/ Crash PROVE FALSE
    BY <2>13 DEF ConnectionError, Crash
  <2>14. CASE UNCHANGED vars
    BY <2>0, <2>14 DEF vars
  <2> QED
    BY <2>1, <2>2, <2>3, <2>4, <2>5, <2>6, <2>7, <2>8, <2>9, <2>10, <2>11, <2>12,
       <2>13, <2>14 DEF Next, Continue
<1> QED
  BY <1>1, <1>2, TypeCorrect, PTL DEF Spec

===============================================================================
