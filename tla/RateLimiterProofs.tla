-------------------------- MODULE RateLimiterProofs --------------------------
(***************************************************************************)
(* Theorems about RateLimiter, for any keys, limits, concurrent calls,     *)
(* Redis failures and restarts.                                            *)
(***************************************************************************)
EXTENDS RateLimiter, FiniteSetTheorems, TLAPS

\* What Answer does to each variable it writes.
LEMMA AnswerType ==
  ASSUME TypeOK, NEW r \in Requests, pc[r] # "idle", NEW a \in Answers, Answer(r, a)
  PROVE  /\ pc' \in [Requests -> Locations]
         /\ call' \in [Requests -> Call]
         /\ \A q \in Requests : pc'[q] # "idle" => call'[q].key \in Keys
         /\ granted' \in [Keys -> Nat]
BY DEF Answer, Goto, TypeOK, Call, NewCall, Key, Locations

\* Every variable stays in its type.
THEOREM TypeCorrect == Spec => []TypeOK
<1>1. Init => TypeOK
  BY RateConstants DEF Init, TypeOK, Locations, Call, NoCall, NewCall, Answers, Key
<1>2. TypeOK /\ [Next]_vars => TypeOK'
  <2> SUFFICES ASSUME TypeOK, [Next]_vars PROVE TypeOK'
    OBVIOUS
  <2>0. /\ \A k \in Keys : Incremented(k) \in Nat
        /\ NoCall \in Call
    BY RateConstants DEF TypeOK, Incremented, Call, NoCall, NewCall, Answers
  <2>1. ASSUME NEW r \in Requests, Start(r) PROVE TypeOK'
    BY <2>1 DEF Start, Goto, redis, TypeOK, Locations, Call, NewCall, Answers, Key
  <2>2. ASSUME NEW r \in Requests, Incr(r) PROVE TypeOK'
    BY <2>0, <2>2 DEF Incr, Increment, Goto, TypeOK, Locations, Call, NewCall,
                      Answers, Key
  <2>3. ASSUME NEW r \in Requests, ExpireAfter(r) PROVE TypeOK'
    BY <2>3 DEF ExpireAfter, Arm, Goto, TypeOK, Locations, Key
  <2>4. ASSUME NEW r \in Requests, Decide(r) PROVE TypeOK'
    <3>1. CASE Over(r)
      BY <2>4, <3>1 DEF Decide, Goto, redis, TypeOK, Locations, Key
    <3>2. CASE ~Over(r)
      BY <2>4, <3>2, AnswerType DEF Decide, redis, TypeOK, Answers, Key
    <3> QED
      BY <3>1, <3>2
  <2>5. ASSUME NEW r \in Requests, Detect(r) PROVE TypeOK'
    <3>1. CASE Answer(r, "refused")
      BY <2>5, <3>1, AnswerType DEF Detect, redis, TypeOK, Answers, Key
    <3>2. CASE ~Answer(r, "refused")
      BY <2>5, <3>2 DEF Detect, Goto, redis, TypeOK, Locations, Key
    <3> QED
      BY <3>1, <3>2
  <2>6. ASSUME NEW r \in Requests, BlockIpAddress(r) PROVE TypeOK'
    BY <2>6, AnswerType DEF BlockIpAddress, SetBlock, TypeOK, Answers, Key
  <2>7. ASSUME NEW r \in Requests, ApplyEnhancedMonitoring(r) PROVE TypeOK'
    BY <2>7, AnswerType DEF ApplyEnhancedMonitoring, redis, TypeOK, Answers, Key
  <2>8. ASSUME NEW r \in Requests, Return(r) PROVE TypeOK'
    BY <2>0, <2>8 DEF Return, Goto, redis, TypeOK, Locations, Key
  <2>9. ASSUME NEW r \in Requests, CommandFails(r) PROVE TypeOK'
    BY <2>9, AnswerType DEF CommandFails, redis, TypeOK, Answers, Key
  <2>10. ASSUME NEW r \in Requests, ReplyLost(r) PROVE TypeOK'
    <3>1. /\ count' \in [Keys -> Nat]
          /\ armed' \subseteq Keys /\ blocked' \subseteq Keys
      BY <2>0, <2>10 DEF ReplyLost, Increment, Arm, SetBlock, TypeOK, Key
    <3>2. pc[r] # "idle"
      BY <2>10 DEF ReplyLost
    <3> QED
      BY <2>10, <3>1, <3>2, AnswerType DEF ReplyLost, TypeOK, Answers, Key
  <2>11. ASSUME NEW k \in Keys, WindowEnds(k) PROVE TypeOK'
    BY <2>11 DEF WindowEnds, TypeOK, Call, NewCall, Key
  <2>12. ASSUME NEW k \in Keys, BlockEnds(k) PROVE TypeOK'
    BY <2>12 DEF BlockEnds, TypeOK, Key
  <2>13. CASE Crash
    BY <2>0, <2>13 DEF Crash, redis, TypeOK, Locations, Key
  <2>14. CASE UNCHANGED vars
    BY <2>14 DEF vars, TypeOK, Key
  <2> QED
    BY <2>1, <2>2, <2>3, <2>4, <2>5, <2>6, <2>7, <2>8, <2>9, <2>10, <2>11, <2>12,
       <2>13, <2>14 DEF Next, Continue
<1> QED
  BY <1>1, <1>2, PTL DEF Spec

-----------------------------------------------------------------------------
(* What a step does to the grants of a key.                                *)

Counted(k) == IF count[k] < Limit[k] THEN count[k] ELSE Limit[k]

\* Nothing new is granted or promised, nothing counted is forgotten.
Idles(k) == /\ granted'[k] = granted[k] /\ count'[k] >= count[k]
            /\ Promised(k)' \subseteq Promised(k)
            /\ faults' >= faults

\* The window ends and nothing is left of it.
Ends(k) == /\ granted'[k] = 0 /\ Promised(k)' = {} /\ faults' = faults

\* A call gets one of the first Limit[k] counts.
Promises(k) == /\ granted'[k] = granted[k]
               /\ count'[k] = count[k] + 1 /\ count[k] < Limit[k]
               /\ \E r \in Requests : Promised(k)' \subseteq Promised(k) \cup {r}
               /\ faults' = faults

\* A promised call is allowed.
Grants(k) == /\ granted'[k] = granted[k] + 1 /\ count'[k] = count[k]
             /\ \E r \in Promised(k) : Promised(k)' \subseteq Promised(k) \ {r}
             /\ faults' = faults

\* A failed command lets a call through.
LetsThrough(k) == /\ granted'[k] <= granted[k] + 1 /\ count'[k] >= count[k]
                  /\ Promised(k)' \subseteq Promised(k)
                  /\ faults' = faults + 1

\* Every step is one of the five.
LEMMA StepKinds ==
  ASSUME TypeOK, TypeOK', [Next]_vars, NEW k \in Keys
  PROVE  Idles(k) \/ Ends(k) \/ Promises(k) \/ Grants(k) \/ LetsThrough(k)
<1> USE RateConstants DEF TypeOK, Goto, Promised, Key
<1>0. \A j \in Keys : Limit[j] \in Nat /\ MaxCount \in Nat /\ Limit[j] < MaxCount
  OBVIOUS
<1>1. ASSUME NEW r \in Requests, Start(r) PROVE Idles(k)
  BY <1>1 DEF Start, redis, NewCall, Idles
<1>2. ASSUME NEW r \in Requests, Incr(r) PROVE Idles(k) \/ Promises(k)
  <2>1. CASE Key(r) = k /\ count[k] < Limit[k]
    <3>1. count'[k] = count[k] + 1
      BY <1>0, <1>2, <2>1 DEF Incr, Increment, Incremented
    <3>2. Promised(k)' \subseteq Promised(k) \cup {r}
      BY <1>2 DEF Incr
    <3> QED
      BY <1>2, <2>1, <3>1, <3>2 DEF Incr, Promises
  <2>2. CASE Key(r) = k /\ ~(count[k] < Limit[k])
    <3>1. Incremented(k) >= count[k] /\ Incremented(k) > Limit[k]
      BY <1>0, <2>2 DEF Incremented
    <3>2. count'[k] >= count[k]
      BY <1>2, <2>2, <3>1 DEF Incr, Increment
    <3>3. ~(call'[r].count <= Limit[k])
      BY <1>0, <1>2, <2>2, <3>1 DEF Incr, NewCall, Incremented
    <3>4. Promised(k)' \subseteq Promised(k)
      BY <1>2, <3>3 DEF Incr, NewCall
    <3>5. granted'[k] = granted[k] /\ faults' >= faults
      BY <1>2 DEF Incr
    <3> QED
      BY <3>2, <3>4, <3>5, Zenon DEF Idles
  <2>3. CASE Key(r) # k
    BY <1>2, <2>3 DEF Incr, Increment, NewCall, Idles
  <2> QED
    BY <2>1, <2>2, <2>3
<1>3. ASSUME NEW r \in Requests, ExpireAfter(r) PROVE Idles(k)
  BY <1>3 DEF ExpireAfter, Arm, Idles
<1>4. ASSUME NEW r \in Requests, Decide(r) PROVE Idles(k) \/ Grants(k)
  <2>1. CASE Over(r)
    BY <1>4, <2>1 DEF Decide, redis, Idles
  <2>2. CASE ~Over(r) /\ Key(r) = k /\ call[r].current
    BY <1>4, <2>2 DEF Decide, Answer, Over, redis, Call, Grants
  <2>3. CASE ~Over(r) /\ ~(Key(r) = k /\ call[r].current)
    BY <1>4, <2>3 DEF Decide, Answer, redis, NewCall, Idles
  <2> QED
    BY <2>1, <2>2, <2>3
<1>5. ASSUME NEW r \in Requests, Detect(r) PROVE Idles(k)
  BY <1>5 DEF Detect, Answer, redis, NewCall, Idles
<1>6. ASSUME NEW r \in Requests, BlockIpAddress(r) PROVE Idles(k)
  BY <1>6 DEF BlockIpAddress, SetBlock, Answer, NewCall, Idles
<1>7. ASSUME NEW r \in Requests, ApplyEnhancedMonitoring(r) PROVE Idles(k)
  BY <1>7 DEF ApplyEnhancedMonitoring, Answer, redis, NewCall, Idles
<1>8. ASSUME NEW r \in Requests, Return(r) PROVE Idles(k)
  BY <1>8 DEF Return, redis, Idles
<1>9. ASSUME NEW r \in Requests, CommandFails(r) PROVE LetsThrough(k)
  BY <1>9 DEF CommandFails, Answer, redis, NewCall, LetsThrough
<1>10. ASSUME NEW r \in Requests, ReplyLost(r) PROVE LetsThrough(k)
  <2>1. pc[r] \in {"incr", "expire", "block"}
    BY <1>10 DEF ReplyLost
  <2>2. count'[k] >= count[k]
    BY <1>0, <1>10 DEF ReplyLost, Increment, Incremented, Arm, SetBlock
  <2>3. granted'[k] <= granted[k] + 1 /\ Promised(k)' \subseteq Promised(k)
    BY <1>10, <2>1 DEF ReplyLost, Answer, NewCall
  <2> QED
    BY <1>10, <2>2, <2>3 DEF ReplyLost, LetsThrough
<1>11. ASSUME NEW j \in Keys, WindowEnds(j) PROVE Idles(k) \/ Ends(k)
  <2>1. CASE j = k
    BY <1>11, <2>1 DEF WindowEnds, NewCall, Ends
  <2>2. CASE j # k
    BY <1>11, <2>2 DEF WindowEnds, NewCall, Idles
  <2> QED
    BY <2>1, <2>2
<1>12. ASSUME NEW j \in Keys, BlockEnds(j) PROVE Idles(k)
  BY <1>12 DEF BlockEnds, Idles
<1>13. CASE Crash
  BY <1>13 DEF Crash, redis, Idles
<1>14. CASE UNCHANGED vars
  BY <1>14 DEF vars, Idles
<1> QED
  BY <1>1, <1>2, <1>3, <1>4, <1>5, <1>6, <1>7, <1>8, <1>9, <1>10, <1>11, <1>12,
     <1>13, <1>14 DEF Next, Continue

\* What is granted and promised in a window has been counted in it.
THEOREM GrantsAreCounted == Spec => []GrantsCounted
<1>1. Init => GrantsCounted
  <2> SUFFICES ASSUME Init, NEW k \in Keys
               PROVE  granted[k] + Cardinality(Promised(k)) <= Counted(k) + faults
    BY DEF GrantsCounted, Counted
  <2>1. Promised(k) = {} /\ granted[k] = 0 /\ count[k] = 0 /\ faults = 0
    BY DEF Init, Promised
  <2> QED
    BY <2>1, FS_EmptySet, RateConstants DEF Counted
<1>2. TypeOK /\ TypeOK' /\ GrantsCounted /\ [Next]_vars => GrantsCounted'
  <2> SUFFICES ASSUME TypeOK, TypeOK', GrantsCounted, [Next]_vars, NEW k \in Keys
               PROVE  granted'[k] + Cardinality(Promised(k)') <= Counted(k)' + faults'
    BY DEF GrantsCounted, Counted
  <2> DEFINE p == Cardinality(Promised(k))
             q == Cardinality(Promised(k)')
             c == Counted(k)
             d == Counted(k)'
  <2>1. IsFiniteSet(Promised(k)) /\ IsFiniteSet(Promised(k)')
    BY FS_Subset, RateConstants DEF Promised
  <2>2. p \in Nat /\ q \in Nat
    BY <2>1, FS_CardinalityType
  <2>3. /\ granted[k] \in Nat /\ granted'[k] \in Nat
        /\ count[k] \in Nat /\ count'[k] \in Nat
        /\ faults \in Nat /\ faults' \in Nat /\ Limit[k] \in Nat
        /\ c \in Nat /\ d \in Nat
    BY RateConstants DEF TypeOK, Counted
  <2>4. granted[k] + p <= c + faults
    BY DEF GrantsCounted, Counted
  <2>5. count'[k] >= count[k] => d >= c
    BY <2>3 DEF Counted
  <2>6. CASE Idles(k)
    <3>1. q <= p
      BY <2>1, <2>6, FS_Subset DEF Idles
    <3> HIDE DEF p, q, c, d
    <3> QED
      BY <2>2, <2>3, <2>4, <2>5, <2>6, <3>1 DEF Idles, q, d
  <2>7. CASE Ends(k)
    <3>1. q = 0
      BY <2>7, FS_EmptySet DEF Ends
    <3> HIDE DEF p, q, c, d
    <3> QED
      BY <2>2, <2>3, <2>7, <3>1 DEF Ends, q, d
  <2>8. CASE Promises(k)
    <3>1. PICK r \in Requests : Promised(k)' \subseteq Promised(k) \cup {r}
      BY <2>8 DEF Promises
    <3>2. /\ IsFiniteSet(Promised(k) \cup {r})
          /\ Cardinality(Promised(k) \cup {r}) <= p + 1
      <4>1. /\ IsFiniteSet(Promised(k) \cup {r})
            /\ \/ Cardinality(Promised(k) \cup {r}) = p
               \/ Cardinality(Promised(k) \cup {r}) = p + 1
        BY <2>1, FS_AddElement
      <4> HIDE DEF p
      <4> QED
        BY <2>2, <4>1
    <3>3. q <= p + 1
      <4>1. q <= Cardinality(Promised(k) \cup {r})
        BY <3>1, <3>2, FS_Subset
      <4>2. Cardinality(Promised(k) \cup {r}) \in Nat
        BY <3>2, FS_CardinalityType
      <4> HIDE DEF q
      <4> QED
        BY <2>2, <3>2, <4>1, <4>2 DEF q
    <3>4. d = c + 1
      BY <2>3, <2>8 DEF Promises, Counted
    <3> HIDE DEF p, q, c, d
    <3> QED
      BY <2>2, <2>3, <2>4, <2>8, <3>3, <3>4 DEF Promises, q, d
  <2>9. CASE Grants(k)
    <3>1. PICK r \in Promised(k) : Promised(k)' \subseteq Promised(k) \ {r}
      BY <2>9 DEF Grants
    <3>2. IsFiniteSet(Promised(k) \ {r}) /\ Cardinality(Promised(k) \ {r}) = p - 1
      BY <2>1, <3>1, FS_RemoveElement
    <3>3. q <= p - 1
      BY <2>2, <3>1, <3>2, FS_Subset
    <3>4. d = c
      BY <2>9 DEF Grants, Counted
    <3> HIDE DEF p, q, c, d
    <3> QED
      BY <2>2, <2>3, <2>4, <2>9, <3>3, <3>4 DEF Grants, q, d
  <2>10. CASE LetsThrough(k)
    <3>1. q <= p
      BY <2>1, <2>10, FS_Subset DEF LetsThrough
    <3> HIDE DEF p, q, c, d
    <3> QED
      BY <2>2, <2>3, <2>4, <2>5, <2>10, <3>1 DEF LetsThrough, q, d
  <2> QED
    BY <2>6, <2>7, <2>8, <2>9, <2>10, StepKinds
<1> QED
  BY <1>1, <1>2, TypeCorrect, PTL DEF Spec

\* In one window a key is granted at most its limit, and one more call for each
\* failed command.
THEOREM GrantsStayBounded == Spec => []GrantsBounded
<1>1. TypeOK /\ GrantsCounted => GrantsBounded
  <2> SUFFICES ASSUME TypeOK, GrantsCounted, NEW k \in Keys
               PROVE  granted[k] <= Limit[k] + faults
    BY DEF GrantsBounded
  <2> DEFINE p == Cardinality(Promised(k))
  <2>1. p \in Nat
    BY FS_Subset, FS_CardinalityType, RateConstants DEF Promised
  <2>2. granted[k] + p <= Counted(k) + faults
    BY DEF GrantsCounted, Counted
  <2>3. /\ granted[k] \in Nat /\ faults \in Nat /\ count[k] \in Nat
        /\ Limit[k] \in Nat
    BY RateConstants DEF TypeOK
  <2>4. Counted(k) \in Nat /\ Counted(k) <= Limit[k]
    BY <2>3 DEF Counted
  <2> HIDE DEF p
  <2> QED
    BY <2>1, <2>2, <2>3, <2>4
<1> QED
  BY <1>1, TypeCorrect, GrantsAreCounted, PTL

-----------------------------------------------------------------------------

\* While Redis works and the process lives, every window has a time to live or a
\* call that is about to set it.
THEOREM WindowsWillEnd == Spec => []EveryWindowWillEnd
<1>1. Init => EveryWindowWillEnd
  BY DEF Init, EveryWindowWillEnd
<1>2. TypeOK /\ TypeOK' /\ EveryWindowWillEnd /\ [Next]_vars => EveryWindowWillEnd'
  <2> SUFFICES ASSUME TypeOK, TypeOK', EveryWindowWillEnd, [Next]_vars, NEW k \in Keys,
                      faults' = 0, crashes' = 0, count'[k] > 0, k \notin armed'
               PROVE  \E q \in Requests : pc'[q] = "expire" /\ call'[q].key = k
    BY DEF EveryWindowWillEnd, Key
  <2> DEFINE Goal == \E q \in Requests : pc'[q] = "expire" /\ call'[q].key = k
  <2>0. faults = 0 /\ crashes = 0 /\ count[k] > 0 /\ k \notin armed =>
          \E q \in Requests : pc[q] = "expire" /\ call[q].key = k
    BY DEF EveryWindowWillEnd, Key
  <2> USE DEF TypeOK, Locations, Goto, Key
  <2>1. ASSUME NEW r \in Requests, Start(r) PROVE Goal
    BY <2>0, <2>1 DEF Start, redis
  <2>2. ASSUME NEW r \in Requests, Incr(r) PROVE Goal
    <3>1. CASE Key(r) = k /\ count[k] = 0
      BY <2>2, <3>1 DEF Incr, NewCall
    <3>2. CASE ~(Key(r) = k /\ count[k] = 0)
      <4>1. count[k] > 0
        BY <2>2, <3>2 DEF Incr, Increment
      <4> QED
        BY <2>0, <2>2, <4>1 DEF Incr, Increment
    <3> QED
      BY <3>1, <3>2
  <2>3. ASSUME NEW r \in Requests, ExpireAfter(r) PROVE Goal
    BY <2>0, <2>3 DEF ExpireAfter, Arm
  <2>4. ASSUME NEW r \in Requests, Decide(r) PROVE Goal
    BY <2>0, <2>4 DEF Decide, Answer, redis
  <2>5. ASSUME NEW r \in Requests, Detect(r) PROVE Goal
    BY <2>0, <2>5 DEF Detect, Answer, redis
  <2>6. ASSUME NEW r \in Requests, BlockIpAddress(r) PROVE Goal
    BY <2>0, <2>6 DEF BlockIpAddress, SetBlock, Answer
  <2>7. ASSUME NEW r \in Requests, ApplyEnhancedMonitoring(r) PROVE Goal
    BY <2>0, <2>7 DEF ApplyEnhancedMonitoring, Answer, redis
  <2>8. ASSUME NEW r \in Requests, Return(r) PROVE Goal
    BY <2>0, <2>8 DEF Return, redis
  <2>9. ASSUME NEW r \in Requests, CommandFails(r) \/ ReplyLost(r) PROVE FALSE
    BY <2>9 DEF CommandFails, ReplyLost
  <2>10. ASSUME NEW j \in Keys, WindowEnds(j) PROVE Goal
    BY <2>0, <2>10 DEF WindowEnds, NewCall
  <2>11. ASSUME NEW j \in Keys, BlockEnds(j) PROVE Goal
    BY <2>0, <2>11 DEF BlockEnds
  <2>12. CASE Crash
    BY <2>12 DEF Crash
  <2>13. CASE UNCHANGED vars
    BY <2>0, <2>13 DEF vars
  <2> QED
    BY <2>1, <2>2, <2>3, <2>4, <2>5, <2>6, <2>7, <2>8, <2>9, <2>10, <2>11, <2>12,
       <2>13 DEF Next, Continue
<1> QED
  BY <1>1, <1>2, TypeCorrect, PTL DEF Spec

===============================================================================
