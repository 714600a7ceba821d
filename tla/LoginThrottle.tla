---------------------------- MODULE LoginThrottle ----------------------------
(***************************************************************************)
(* The login throttle of packages/core/src/auth: BruteForceProtection-     *)
(* Service, and the part of AuthService.login that calls it.               *)
(*                                                                         *)
(* A request is one call of login.  Its program counter names the await it *)
(* is suspended at: several logins for one email interleave between the    *)
(* lock check, the password check and the four Redis commands that record  *)
(* a failure.  The counter lives in Redis and survives the server process. *)
(* The per-address counter is incremented and armed too, but no code reads *)
(* it: only the two awaits it costs are modelled.                          *)
(***************************************************************************)
EXTENDS Naturals, FiniteSets

CONSTANTS
    Emails,       \* values of loginDto.email
    Requests,     \* concurrent logins
    MaxAttempts,  \* the literal 5: failures that lock an account
    MaxFaults,    \* bound on failed Redis commands, connects and connections
    MaxCrashes,   \* bound on restarts of the server process
    NoEmail

ASSUME ThrottleConstants ==
    /\ IsFiniteSet(Requests)
    /\ MaxAttempts \in Nat \ {0}
    /\ MaxFaults \in Nat /\ MaxCrashes \in Nat
    /\ NoEmail \notin Emails

VARIABLES
    attempts,   \* [Emails -> Nat], the counter under emailKey; 0: no such key
    armed,      \* emails whose key has a time to live
    connected,  \* isConnected
    pc,         \* [Requests -> Locations]
    email,      \* [Requests -> Emails], the argument of the call
    faults, crashes

redis == <<attempts, armed>>
vars  == <<attempts, armed, connected, pc, email, faults, crashes>>

Locations == {"idle", "checkConn", "get", "verify", "recordConn", "incrEmail",
              "incrIp", "expireEmail", "expireIp", "resetConn", "del", "done"}

Init ==
    /\ attempts = [e \in Emails |-> 0]
    /\ armed = {}
    /\ connected \in BOOLEAN
    /\ pc = [r \in Requests |-> "idle"]
    /\ email = [r \in Requests |-> NoEmail]
    /\ faults = 0 /\ crashes = 0

Goto(r, l) == pc' = [pc EXCEPT ![r] = l]

Start(r) == \E e \in Emails :
    /\ pc[r] = "idle"
    /\ email' = [email EXCEPT ![r] = e]
    /\ Goto(r, "checkConn")
    /\ UNCHANGED <<redis, connected, faults, crashes>>

-----------------------------------------------------------------------------
(* ensureConnection, and what each caller does when it answers false.      *)

Command == [checkConn |-> "get", recordConn |-> "incrEmail", resetConn |-> "del"]
Skipped == [checkConn |-> "verify", recordConn |-> "done", resetConn |-> "done"]

EnsureConnection(r) ==
    /\ pc[r] \in DOMAIN Command
    /\ connected' = TRUE
    /\ Goto(r, Command[pc[r]])
    /\ UNCHANGED <<redis, email, faults, crashes>>

ConnectFails(r) ==
    /\ pc[r] \in DOMAIN Skipped
    /\ ~connected
    /\ faults < MaxFaults
    /\ faults' = faults + 1
    /\ Goto(r, Skipped[pc[r]])
    /\ UNCHANGED <<redis, connected, email, crashes>>

\* The client's "error" event.
ConnectionError ==
    /\ connected
    /\ faults < MaxFaults
    /\ faults' = faults + 1
    /\ connected' = FALSE
    /\ UNCHANGED <<redis, pc, email, crashes>>

-----------------------------------------------------------------------------
(* login: the lock check, the password, the record of a failure.           *)

\* Mutant: the counter is compared with > instead of >=.
GetMutantOffByOne(r) ==
    /\ pc[r] = "get"
    /\ Goto(r, IF attempts[email[r]] > MaxAttempts THEN "done" ELSE "verify")
    /\ UNCHANGED <<redis, connected, email, faults, crashes>>

\* isAccountLocked: a locked account is refused.
Get(r) ==
    /\ pc[r] = "get"
    /\ Goto(r, IF attempts[email[r]] >= MaxAttempts THEN "done" ELSE "verify")
    /\ UNCHANGED <<redis, connected, email, faults, crashes>>

\* findByEmail and verifySecureHash: wrong credentials, right ones, or an
\* inactive account (or an exception), which ends the call.
Verify(r) ==
    /\ pc[r] = "verify"
    /\ \E l \in {"recordConn", "resetConn", "done"} : Goto(r, l)
    /\ UNCHANGED <<redis, connected, email, faults, crashes>>

\* Mutant: the attempts left are counted down.
IncrementMutantCountsDown(e) ==
    attempts' = [attempts EXCEPT ![e] = @ - 1] /\ UNCHANGED armed

\* INCR creates the key without a time to live, and keeps the one it has.
Increment(e) == attempts' = [attempts EXCEPT ![e] = @ + 1] /\ UNCHANGED armed

\* Mutant: the time to live is set on another key.
ArmMutantOtherKey(e) == UNCHANGED redis

\* EXPIRE does nothing to a key that does not exist.
Arm(e) == /\ armed' = IF attempts[e] > 0 THEN armed \cup {e} ELSE armed
          /\ UNCHANGED attempts

Delete(e) == attempts' = [attempts EXCEPT ![e] = 0] /\ armed' = armed \ {e}

IncrEmail(r) ==
    /\ pc[r] = "incrEmail"
    /\ Increment(email[r])
    /\ Goto(r, "incrIp")
    /\ UNCHANGED <<connected, email, faults, crashes>>

\* Mutant: only the key of the address gets a time to live.
IncrIpMutantSkipsEmail(r) ==
    /\ pc[r] = "incrIp"
    /\ Goto(r, "expireIp")
    /\ UNCHANGED <<redis, connected, email, faults, crashes>>

IncrIp(r) ==
    /\ pc[r] = "incrIp"
    /\ Goto(r, "expireEmail")
    /\ UNCHANGED <<redis, connected, email, faults, crashes>>

ExpireEmail(r) ==
    /\ pc[r] = "expireEmail"
    /\ Arm(email[r])
    /\ Goto(r, "expireIp")
    /\ UNCHANGED <<connected, email, faults, crashes>>

ExpireIp(r) ==
    /\ pc[r] = "expireIp"
    /\ Goto(r, "done")
    /\ UNCHANGED <<redis, connected, email, faults, crashes>>

\* resetFailedAttempts.
Del(r) ==
    /\ pc[r] = "del"
    /\ Delete(email[r])
    /\ Goto(r, "done")
    /\ UNCHANGED <<connected, email, faults, crashes>>

Return(r) ==
    /\ pc[r] = "done"
    /\ Goto(r, "idle")
    /\ email' = [email EXCEPT ![r] = NoEmail]
    /\ UNCHANGED <<redis, connected, faults, crashes>>

-----------------------------------------------------------------------------
(* Redis, failures and restarts.                                           *)

\* The key's time to live runs out.
Expire(e) ==
    /\ e \in armed
    /\ Delete(e)
    /\ UNCHANGED <<connected, pc, email, faults, crashes>>

Commands == {"get", "incrEmail", "incrIp", "expireEmail", "expireIp", "del"}

\* Where the catch block of each method leads: an unreadable lock is no lock, a
\* failure that cannot be recorded, or a reset that cannot be made, is skipped.
Caught(l) == IF l = "get" THEN "verify" ELSE "done"

\* A command is rejected without effect.
CommandFails(r) ==
    /\ pc[r] \in Commands
    /\ faults < MaxFaults
    /\ faults' = faults + 1
    /\ Goto(r, Caught(pc[r]))
    /\ UNCHANGED <<redis, connected, email, crashes>>

\* A command takes effect, but its reply is lost and the promise is rejected.
ReplyLost(r) ==
    /\ faults < MaxFaults
    /\ faults' = faults + 1
    /\ \/ pc[r] = "incrEmail" /\ Increment(email[r])
       \/ pc[r] = "expireEmail" /\ Arm(email[r])
       \/ pc[r] = "del" /\ Delete(email[r])
    /\ Goto(r, Caught(pc[r]))
    /\ UNCHANGED <<connected, email, crashes>>

\* The process dies; onModuleInit connects again, or does not.
Crash ==
    /\ crashes < MaxCrashes
    /\ crashes' = crashes + 1
    /\ pc' = [r \in Requests |-> "idle"]
    /\ email' = [r \in Requests |-> NoEmail]
    /\ connected' \in BOOLEAN
    /\ UNCHANGED <<redis, faults>>

Continue(r) == \/ EnsureConnection(r) \/ Get(r) \/ Verify(r) \/ IncrEmail(r)
               \/ IncrIp(r) \/ ExpireEmail(r) \/ ExpireIp(r) \/ Del(r) \/ Return(r)

Next == \/ \E r \in Requests : \/ Start(r) \/ Continue(r) \/ ConnectFails(r)
                               \/ CommandFails(r) \/ ReplyLost(r)
        \/ \E e \in Emails : Expire(e)
        \/ ConnectionError
        \/ Crash

Spec == Init /\ [][Next]_vars

\* Redis answers or rejects every command, and expires keys in real time.
FairSpec == /\ Spec
            /\ \A r \in Requests : WF_vars(Continue(r))
            /\ \A e \in Emails : WF_vars(Expire(e))

-----------------------------------------------------------------------------
(* Properties.                                                             *)

\* Counters, program counters and emails stay in their types: a login in progress
\* has an email, and no counter becomes negative.
TypeOK ==
    /\ attempts \in [Emails -> Nat]
    /\ armed \subseteq Emails
    /\ connected \in BOOLEAN
    /\ pc \in [Requests -> Locations]
    /\ email \in [Requests -> Emails \cup {NoEmail}]
    /\ \A r \in Requests : pc[r] # "idle" => email[r] \in Emails
    /\ faults \in Nat /\ crashes \in Nat

\* Logins for e that have passed the lock check and may still count a failure.
Pending(e) == {r \in Requests :
    pc[r] \in {"verify", "recordConn", "incrEmail"} /\ email[r] = e}

\* The lock check and the increment are not atomic, so concurrent logins overshoot
\* the limit; but the wrong passwords counted in one lock period, with those still
\* being tried, never exceed the limit by more than the logins that can run at
\* once, plus the lock checks that a failure of Redis let through.  With one
\* request at a time the limit is exact.
AttemptsBounded ==
    \A e \in Emails : attempts[e] + Cardinality(Pending(e))
                        <= (MaxAttempts - 1) + Cardinality(Requests) + faults

\* Unless Redis fails or the process dies in between, a counter without a time to
\* live has a login on its way to arm it: no account is locked for ever.
EveryCounterWillExpire ==
    faults = 0 /\ crashes = 0 =>
        \A e \in Emails : attempts[e] > 0 /\ e \notin armed =>
            \E r \in Requests : pc[r] \in {"incrIp", "expireEmail"} /\ email[r] = e

\* A locked account is unlocked again, unless Redis failed or the process died:
\* its time to live was set by a failure that was counted before, or is about to
\* be set, and logins refused in the meantime do not extend it.
LockEndsUndisturbed ==
    \A e \in Emails : attempts[e] >= MaxAttempts ~>
        attempts[e] < MaxAttempts \/ faults > 0 \/ crashes > 0

\* A locked account is unlocked again: login calls the lock temporary.
LockIsTemporary ==
    \A e \in Emails : attempts[e] >= MaxAttempts ~> attempts[e] < MaxAttempts

===============================================================================
