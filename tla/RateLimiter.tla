----------------------------- MODULE RateLimiter -----------------------------
(***************************************************************************)
(* RateLimiterService of packages/core/src/security/layers/s6-rate-        *)
(* limiting: fixed windows counted in Redis, and the temporary block of an *)
(* address whose excess looks anomalous.                                   *)
(*                                                                         *)
(* A request is one call of checkRateLimit.  Its program counter names the *)
(* Redis command it waits for; calls interleave between commands.  A key   *)
(* stands for prefix:tenant:user:address.  AnomalyDetectionService is the  *)
(* judgement between "detect" and the two SETEX: its score depends on the  *)
(* path, the agent and the hour, and can reach the thresholds only when    *)
(* the count is more than one and a half times the limit.                  *)
(***************************************************************************)
EXTENDS Naturals, FiniteSets

CONSTANTS
    Keys,
    Requests,     \* concurrent calls of checkRateLimit
    Limit,        \* [Keys -> Nat \ {0}], maxRequests of the calls for a key
    MaxCount,     \* bound: a window counts up to MaxCount and no further
    MaxFaults,    \* bound on Redis commands that fail
    MaxCrashes,   \* bound on restarts of the server process
    NoKey

ASSUME RateConstants ==
    /\ IsFiniteSet(Requests)
    /\ Limit \in [Keys -> Nat \ {0}]
    /\ MaxCount \in Nat /\ \A k \in Keys : Limit[k] < MaxCount
    /\ MaxFaults \in Nat /\ MaxCrashes \in Nat
    /\ NoKey \notin Keys

VARIABLES
    count,    \* [Keys -> Nat], the counter of the window; 0: no such key
    armed,    \* keys with a time to live
    blocked,  \* keys whose address has a security:blocked_ip entry
    pc,       \* [Requests -> Locations]
    call,     \* [Requests -> Call]
    granted,  \* [Keys -> Nat], history: calls allowed in the present window
    faults, crashes

redis == <<count, armed, blocked>>
vars  == <<count, armed, blocked, pc, call, granted, faults, crashes>>

Locations == {"idle", "incr", "expire", "decide", "detect", "block", "monitor", "done"}
Answers   == {"none", "allowed", "refused"}

\* "current": the window the call was counted in has not ended.
Call == [key: Keys \cup {NoKey}, count: Nat, current: BOOLEAN, answer: Answers]
NewCall(k, n, current, answer) ==
    [key |-> k, count |-> n, current |-> current, answer |-> answer]
NoCall == NewCall(NoKey, 0, FALSE, "none")

Key(r)  == call[r].key
\* Mutant: one call more than the limit.
OverMutantOneMore(r) == call[r].count > Limit[Key(r)] + 1

Over(r) == call[r].count > Limit[Key(r)]

Init ==
    /\ count = [k \in Keys |-> 0]
    /\ armed = {} /\ blocked = {}
    /\ pc = [r \in Requests |-> "idle"]
    /\ call = [r \in Requests |-> NoCall]
    /\ granted = [k \in Keys |-> 0]
    /\ faults = 0 /\ crashes = 0

Goto(r, l) == pc' = [pc EXCEPT ![r] = l]

Answer(r, a) ==
    /\ Goto(r, "done")
    /\ call' = [call EXCEPT ![r] = NewCall(Key(r), @.count, @.current, a)]
    /\ granted' = IF a = "allowed" /\ call[r].current
                  THEN [granted EXCEPT ![Key(r)] = @ + 1] ELSE granted

Start(r) == \E k \in Keys :
    /\ pc[r] = "idle"
    /\ call' = [call EXCEPT ![r] = NewCall(k, 0, TRUE, "none")]
    /\ Goto(r, "incr")
    /\ UNCHANGED <<redis, granted, faults, crashes>>

-----------------------------------------------------------------------------
(* The count, and the time to live of a window that has just begun.        *)

\* Mutant: the calls left are counted down.
IncrementedMutantCountsDown(k) == count[k] - 1

\* INCR creates the key without a time to live, and keeps the one it has.
Incremented(k) == IF count[k] < MaxCount THEN count[k] + 1 ELSE count[k]

Increment(k) == /\ count' = [count EXCEPT ![k] = Incremented(k)]
                /\ UNCHANGED <<armed, blocked>>

\* Mutants: SETEX starts the window again from zero; the time to live is set on
\* another key.
ArmMutantRestarts(k) == /\ armed' = armed \cup {k}
                        /\ count' = [count EXCEPT ![k] = 0]
                        /\ UNCHANGED blocked

ArmMutantOtherKey(k) == UNCHANGED redis

Arm(k) == /\ armed' = IF count[k] > 0 THEN armed \cup {k} ELSE armed
          /\ UNCHANGED <<count, blocked>>

\* Mutant: the second call of a window, not the first, sets its time to live.
IncrMutantSecondArms(r) ==
    /\ pc[r] = "incr"
    /\ Increment(Key(r))
    /\ call' = [call EXCEPT ![r] = NewCall(Key(r), Incremented(Key(r)), TRUE, "none")]
    /\ Goto(r, IF count[Key(r)] = 1 THEN "expire" ELSE "decide")
    /\ UNCHANGED <<granted, faults, crashes>>

Incr(r) ==
    /\ pc[r] = "incr"
    /\ Increment(Key(r))
    /\ call' = [call EXCEPT ![r] = NewCall(Key(r), Incremented(Key(r)), TRUE, "none")]
    /\ Goto(r, IF count[Key(r)] = 0 THEN "expire" ELSE "decide")
    /\ UNCHANGED <<granted, faults, crashes>>

ExpireAfter(r) ==
    /\ pc[r] = "expire"
    /\ Arm(Key(r))
    /\ Goto(r, "decide")
    /\ UNCHANGED <<call, granted, faults, crashes>>

Decide(r) ==
    /\ pc[r] = "decide"
    /\ IF Over(r) THEN Goto(r, "detect") /\ UNCHANGED <<call, granted>>
                  ELSE Answer(r, "allowed")
    /\ UNCHANGED <<redis, faults, crashes>>

-----------------------------------------------------------------------------
(* A request over the limit: the anomaly score and what it leads to.       *)

Detect(r) ==
    /\ pc[r] = "detect"
    /\ \/ Answer(r, "refused")
       \/ /\ 2 * call[r].count > 3 * Limit[Key(r)]
          /\ \E l \in {"block", "monitor"} : Goto(r, l)
          /\ UNCHANGED <<call, granted>>
    /\ UNCHANGED <<redis, faults, crashes>>

SetBlock(k) == blocked' = blocked \cup {k} /\ UNCHANGED <<count, armed>>

BlockIpAddress(r) ==
    /\ pc[r] = "block"
    /\ SetBlock(Key(r))
    /\ Answer(r, "refused")
    /\ UNCHANGED <<faults, crashes>>

ApplyEnhancedMonitoring(r) ==
    /\ pc[r] = "monitor"
    /\ Answer(r, "refused")
    /\ UNCHANGED <<redis, faults, crashes>>

Return(r) ==
    /\ pc[r] = "done"
    /\ Goto(r, "idle")
    /\ call' = [call EXCEPT ![r] = NoCall]
    /\ UNCHANGED <<redis, granted, faults, crashes>>

-----------------------------------------------------------------------------
(* Redis, failures and restarts.                                           *)

\* The window ends.
WindowEnds(k) ==
    /\ k \in armed
    /\ count' = [count EXCEPT ![k] = 0]
    /\ armed' = armed \ {k}
    /\ granted' = [granted EXCEPT ![k] = 0]
    /\ call' = [r \in Requests |->
         IF Key(r) = k /\ pc[r] # "incr"
         THEN NewCall(k, call[r].count, FALSE, call[r].answer) ELSE call[r]]
    /\ UNCHANGED <<blocked, pc, faults, crashes>>

BlockEnds(k) ==
    /\ k \in blocked
    /\ blocked' = blocked \ {k}
    /\ UNCHANGED <<count, armed, pc, call, granted, faults, crashes>>

\* The catch block of checkRateLimit: the request is allowed, whatever failed.
CommandFails(r) ==
    /\ pc[r] \in {"incr", "expire", "block", "monitor"}
    /\ faults < MaxFaults
    /\ faults' = faults + 1
    /\ Answer(r, "allowed")
    /\ UNCHANGED <<redis, crashes>>

\* The command took effect but its reply is lost.
ReplyLost(r) ==
    /\ faults < MaxFaults
    /\ faults' = faults + 1
    /\ \/ pc[r] = "incr" /\ Increment(Key(r))
       \/ pc[r] = "expire" /\ Arm(Key(r))
       \/ pc[r] = "block" /\ SetBlock(Key(r))
    /\ Answer(r, "allowed")
    /\ UNCHANGED crashes

Crash ==
    /\ crashes < MaxCrashes
    /\ crashes' = crashes + 1
    /\ pc' = [r \in Requests |-> "idle"]
    /\ call' = [r \in Requests |-> NoCall]
    /\ UNCHANGED <<redis, granted, faults>>

Continue(r) == \/ Incr(r) \/ ExpireAfter(r) \/ Decide(r) \/ Detect(r)
               \/ BlockIpAddress(r) \/ ApplyEnhancedMonitoring(r) \/ Return(r)

Next == \/ \E r \in Requests :
             Start(r) \/ Continue(r) \/ CommandFails(r) \/ ReplyLost(r)
        \/ \E k \in Keys : WindowEnds(k) \/ BlockEnds(k)
        \/ Crash

Spec == Init /\ [][Next]_vars

\* Redis answers or rejects every command, and expires keys in real time.
FairSpec == /\ Spec
            /\ \A r \in Requests : WF_vars(Continue(r))
            /\ \A k \in Keys : WF_vars(WindowEnds(k)) /\ WF_vars(BlockEnds(k))

-----------------------------------------------------------------------------
(* Properties.                                                             *)

\* Counters, calls and answers stay in their types: a call in progress has a key,
\* and no counter becomes negative.
TypeOK ==
    /\ count \in [Keys -> Nat]
    /\ armed \subseteq Keys /\ blocked \subseteq Keys
    /\ pc \in [Requests -> Locations]
    /\ call \in [Requests -> Call]
    /\ \A r \in Requests : pc[r] # "idle" => Key(r) \in Keys
    /\ granted \in [Keys -> Nat]
    /\ faults \in Nat /\ crashes \in Nat

\* Calls that were counted within the limit of the present window and have not
\* been answered.
Promised(k) == {r \in Requests : /\ pc[r] \in {"expire", "decide"} /\ Key(r) = k
                                 /\ call[r].current /\ call[r].count <= Limit[k]}

\* In one window a key is allowed its limit, plus one call for every Redis command
\* that failed and let a call through, however the counting, the answers, the end
\* of the window and restarts interleave.
GrantsBounded == \A k \in Keys : granted[k] <= Limit[k] + faults

\* The invariant behind it: what is granted and promised has been counted.
GrantsCounted == \A k \in Keys :
    granted[k] + Cardinality(Promised(k))
        <= (IF count[k] < Limit[k] THEN count[k] ELSE Limit[k]) + faults

\* Unless Redis fails or the process dies in between, a window without a time to
\* live has a call that is about to set it.
EveryWindowWillEnd ==
    faults = 0 /\ crashes = 0 =>
        \A k \in Keys : count[k] > 0 /\ k \notin armed =>
            \E r \in Requests : pc[r] = "expire" /\ Key(r) = k

\* A key over its limit is admitted again, unless Redis failed or the process died:
\* the first call of the window arms it, however many are refused before that.
LimitEndsUndisturbed ==
    \A k \in Keys : count[k] > Limit[k] ~>
        count[k] <= Limit[k] \/ faults > 0 \/ crashes > 0

===============================================================================
