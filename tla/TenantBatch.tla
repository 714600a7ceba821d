---------------------------- MODULE TenantBatch -----------------------------
(***************************************************************************)
(* TenantBatchService.createTenantsBatch, and scripts/create-tenants-batch *)
(* which does the same over HTTP: entries are created chunk by chunk, all  *)
(* of a chunk at once, and the results are counted when the whole chunk    *)
(* has settled.  createTenant itself is TenantProvisioning; here it makes  *)
(* the row or is refused, and a refused call may have made it.  Nothing in *)
(* the repository raises the RATE_LIMIT error that is retried: it is what  *)
(* the code expects of createTenant.                                       *)
(***************************************************************************)
EXTENDS Naturals, FiniteSets

CONSTANTS
    Total,       \* tenantsData.length
    BatchSize,   \* fifty unless the caller says otherwise
    MaxRetries   \* three

VARIABLES
    chunk,     \* batchIndex + 1
    phase,     \* "settling", "delay" between chunks, "done"
    slot,      \* [Entries -> where its createTenantWithRetry is]
    attempt,   \* [Entries -> Nat]
    rows,      \* entries whose tenant exists
    results    \* the report

vars == <<chunk, phase, slot, attempt, rows, results>>

Entries  == 1 .. Total
Batch(k) == {i \in Entries : (k - 1) * BatchSize < i /\ i <= k * BatchSize}
Slots    == {"waiting", "creating", "backoff", "fulfilled", "rejected"}

\* batch.map: every entry of chunk k is under way at once.
Started(s, k) == [i \in Entries |-> IF i \in Batch(k) THEN "creating" ELSE s[i]]

Init ==
    /\ chunk = 1 /\ phase = "settling"
    /\ slot = Started([i \in Entries |-> "waiting"], 1)
    /\ attempt = [i \in Entries |-> 1]
    /\ \E R \in SUBSET Entries : rows = R          \* some ids are taken
    /\ results = [successful |-> 0, failed |-> 0]

Created(i) ==
    /\ slot[i] = "creating" /\ i \notin rows
    /\ slot' = [slot EXCEPT ![i] = "fulfilled"]
    /\ rows' = rows \cup {i}
    /\ UNCHANGED <<chunk, phase, attempt, results>>

\* Any other error is thrown on; the row may be there all the same.
Refused(i) ==
    /\ slot[i] = "creating"
    /\ slot' = [slot EXCEPT ![i] = "rejected"]
    /\ rows' \in {rows, rows \cup {i}}
    /\ UNCHANGED <<chunk, phase, attempt, results>>

\* Mutant: the loop runs out of attempts and nothing is thrown.
ExhaustedMutantReturns == "fulfilled"

\* After the last attempt the error is thrown.
Exhausted == "rejected"

RateLimited(i) ==
    /\ slot[i] = "creating"
    /\ slot' = [slot EXCEPT ![i] = IF attempt[i] < MaxRetries THEN "backoff" ELSE Exhausted]
    /\ UNCHANGED <<chunk, phase, attempt, rows, results>>

Retry(i) ==
    /\ slot[i] = "backoff"
    /\ slot' = [slot EXCEPT ![i] = "creating"]
    /\ attempt' = [attempt EXCEPT ![i] = @ + 1]
    /\ UNCHANGED <<chunk, phase, rows, results>>

Settled == {i \in Entries : slot[i] \in {"fulfilled", "rejected"}}

\* Promise.allSettled
ChunkSettled == Batch(chunk) \subseteq Settled

Count ==
    /\ phase = "settling" /\ ChunkSettled
    /\ LET now(s) == Cardinality({i \in Batch(chunk) : slot[i] = s})
       IN  results' = [successful |-> results.successful + now("fulfilled"),
                       failed     |-> results.failed + now("rejected")]
    /\ phase' = IF chunk * BatchSize < Total THEN "delay" ELSE "done"
    /\ UNCHANGED <<chunk, slot, attempt, rows>>

NextChunk ==
    /\ phase = "delay" /\ phase' = "settling"
    /\ chunk' = chunk + 1
    /\ slot' = Started(slot, chunk + 1)
    /\ UNCHANGED <<attempt, rows, results>>

Next ==
    \/ \E i \in Entries : Created(i) \/ Refused(i) \/ RateLimited(i) \/ Retry(i)
    \/ Count
    \/ NextChunk

Spec == Init /\ [][Next]_vars

-----------------------------------------------------------------------------
(* Properties.                                                             *)

\* Every variable holds a value of its kind.
TypeOK ==
    /\ chunk \in Nat /\ phase \in {"settling", "delay", "done"}
    /\ slot \in [Entries -> Slots] /\ attempt \in [Entries -> 1 .. MaxRetries]
    /\ rows \subseteq Entries /\ results \in [successful : Nat, failed : Nat]

\* The report of a finished batch accounts for every entry, and no more are
\* counted successful than have a tenant, however the retries of
\* createTenantWithRetry ended.
ReportIsTrue ==
    phase = "done" =>
        /\ results.successful + results.failed = Total
        /\ results.successful <= Cardinality(rows)
        /\ \A i \in Entries : slot[i] = "fulfilled" => i \in rows
=============================================================================
