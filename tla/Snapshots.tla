------------------------------ MODULE Snapshots ------------------------------
(***************************************************************************)
(* Snapshots and rollback of packages/core/src/security/recovery: Data-    *)
(* SnapshotService and RollbackService over the files of snapshots/.       *)
(*                                                                         *)
(* A snapshot is known by the call that made it.  Every call is suspended  *)
(* at its file operations: a file is torn while it is being written, a     *)
(* listing reads the directory first and the files after, one at a time,   *)
(* and takes a directory it cannot reach for an empty one, and clean-ups   *)
(* of several calls delete from lists that may be stale.  The data is      *)
(* opaque; it can be decrypted by the instance whose salt it was encrypted *)
(* with.                                                                   *)
(***************************************************************************)
EXTENDS Naturals, FiniteSets, Sequences

CONSTANTS
    Calls,
    Tenants,
    Actions,      \* values of context.operation
    MaxSnapshots, \* maxSnapshotsPerTenant
    MaxRestarts, MaxFaults, MaxHorizon,   \* bounds on restarts, file errors and days
    NoTenant, NoAction, NoSnapshot

VARIABLES
    file,     \* [Calls -> {"absent", "torn", "whole"}], the file of each snapshot
    home,     \* [Calls -> Nat], the life of the service that encrypted it
    job,     \* [Calls -> Call]
    clock,    \* time stamps given out
    horizon,  \* snapshots stamped before it are past their retention
    life, faults,
    saved, removed,  \* history: snapshots completely written, and deleted on request
    partial          \* history: calls whose listing a file error cut short

vars == <<file, home, job, clock, horizon, life, faults, saved, removed, partial>>

Call == [op: {"none", "create", "restore", "delete", "rollback", "autoRollback"},
         pc: {"idle", "encrypt", "write", "writing", "readdir", "readFiles",
              "cleanup", "read", "decrypt", "unlink", "done"},
         tenant: Tenants \cup {NoTenant}, action: Actions \cup {NoAction}, stamp: Nat,
         names: SUBSET Calls, found: SUBSET Calls, todo: Seq(Calls), target: Calls \cup {NoSnapshot},
         res: {"none", "ok", "error"}]
Idle == [op |-> "none", pc |-> "idle", tenant |-> NoTenant, action |-> NoAction,
         stamp |-> 0, names |-> {}, found |-> {}, todo |-> <<>>, target |-> NoSnapshot, res |-> "none"]

Init ==
    /\ file = [c \in Calls |-> "absent"] /\ home = [c \in Calls |-> 0]
    /\ job = [c \in Calls |-> Idle]
    /\ clock = 1 /\ horizon = 0 /\ life = 0 /\ faults = 0
    /\ saved = {} /\ removed = {} /\ partial = {}

Newer(S, s) == {n \in S : job[n].stamp > job[s].stamp}

\* Mutant: sorted the oldest first.
NewestFirstMutantAscending(S) ==
    [i \in 1 .. Cardinality(S) |->
        CHOOSE s \in S : Cardinality(Newer(S, s)) = Cardinality(S) - i]

\* getSnapshotsForTenant sorts by time stamp, the newest first: the i-th has i - 1 newer.
NewestFirst(S) ==
    [i \in 1 .. Cardinality(S) |-> CHOOSE s \in S : Cardinality(Newer(S, s)) = i - 1]

Expired(s)     == job[s].stamp < horizon
SnapshotsOf(t) == {s \in Calls : job[s].op = "create" /\ job[s].tenant = t}

-----------------------------------------------------------------------------
(* The operations, up to their first await.                                *)

Begin(c, r) == job[c].pc = "idle" /\ job' = [job EXCEPT ![c] = r]

Create(c) == \E t \in Tenants, a \in Actions :
    /\ Begin(c, [Idle EXCEPT !.op = "create", !.pc = "encrypt", !.tenant = t,
                             !.action = a, !.stamp = clock])
    /\ clock' = clock + 1
    /\ UNCHANGED <<file, home, horizon, life, faults, saved, removed, partial>>

\* restoreSnapshot and deleteSnapshot: by id, whoever asks.
ById(c) == \E s \in Calls \ {c}, o \in {"restore", "delete"} :
    /\ job[s].op = "create"
    /\ Begin(c, [Idle EXCEPT !.op = o, !.pc = "read", !.target = s])
    /\ UNCHANGED <<file, home, clock, horizon, life, faults, saved, removed, partial>>

\* rollbackToPreviousState, and autoRollbackOnError of a CRITICAL error.
Rollback(c) == \E t \in Tenants :
    /\ \/ \E a \in Actions : Begin(c, [Idle EXCEPT !.op = "rollback", !.pc = "readdir",
                                                   !.tenant = t, !.action = a])
       \/ Begin(c, [Idle EXCEPT !.op = "autoRollback", !.pc = "readdir", !.tenant = t])
    /\ UNCHANGED <<file, home, clock, horizon, life, faults, saved, removed, partial>>

-----------------------------------------------------------------------------
(* Files.                                                                  *)

At(c, l)     == job[c].pc = l
Goto(c, l)   == job' = [job EXCEPT ![c].pc = l]
\* autoRollbackOnError swallows what went wrong.
Finish(c, a) == job' = [job EXCEPT ![c].pc = "done", ![c].names = {}, ![c].found = {},
                    ![c].todo = <<>>,
                    ![c].res = IF job[c].op = "autoRollback" THEN "ok" ELSE a]

Encrypted(c) ==
    /\ At(c, "encrypt") /\ Goto(c, "write")
    /\ home' = [home EXCEPT ![c] = life]
    /\ UNCHANGED <<file, clock, horizon, life, faults, saved, removed, partial>>

\* writeFile is not atomic.
WriteBegins(c) ==
    /\ At(c, "write") /\ Goto(c, "writing")
    /\ file' = [file EXCEPT ![c] = "torn"]
    /\ UNCHANGED <<home, clock, horizon, life, faults, saved, removed, partial>>

WriteEnds(c) ==
    /\ At(c, "writing") /\ Goto(c, "readdir")
    /\ file' = [file EXCEPT ![c] = "whole"] /\ saved' = saved \cup {c}
    /\ UNCHANGED <<home, clock, horizon, life, faults, removed, partial>>

\* access and readdir of getSnapshotsForTenant.
Readdir(c) ==
    /\ At(c, "readdir")
    /\ job' = [job EXCEPT ![c].pc = "readFiles",
                            ![c].names = {s \in SnapshotsOf(job[c].tenant) : file[s] # "absent"}]
    /\ UNCHANGED <<file, home, clock, horizon, life, faults, saved, removed, partial>>

\* access throws: the tenant is taken for one without snapshots.
AccessFault(c) ==
    /\ At(c, "readdir") /\ Goto(c, "readFiles")
    /\ faults < MaxFaults /\ faults' = faults + 1 /\ partial' = partial \cup {c}
    /\ UNCHANGED <<file, home, clock, horizon, life, saved, removed>>

\* The next file is read; one that is gone or torn by then is left out.
ReadFile(c) == \E s \in job[c].names :
    /\ At(c, "readFiles")
    /\ job' = [job EXCEPT ![c].names = @ \ {s},
                            ![c].found = IF file[s] = "whole" THEN @ \cup {s} ELSE @]
    /\ UNCHANGED <<file, home, clock, horizon, life, faults, saved, removed, partial>>

\* The next file cannot be read: a warning, and the listing goes on without it.
ReadFileFault(c) == \E s \in job[c].names :
    /\ At(c, "readFiles") /\ job' = [job EXCEPT ![c].names = @ \ {s}]
    /\ faults < MaxFaults /\ faults' = faults + 1 /\ partial' = partial \cup {c}
    /\ UNCHANGED <<file, home, clock, horizon, life, saved, removed>>

\* Mutant: keep the limit plus one.
DoomedMutantOneFewer(S) ==
    NewestFirst({s \in S : Expired(s)})
    \o SubSeq(NewestFirst(S), MaxSnapshots + 2, Cardinality(S))

\* cleanupOldSnapshots: what is expired, and what is beyond the limit; a snapshot
\* that is both is on the list twice.
Doomed(S) ==
    NewestFirst({s \in S : Expired(s)})
    \o SubSeq(NewestFirst(S), MaxSnapshots + 1, Cardinality(S))

\* The listing is complete and goes to the method that asked for it.
Listed(c) ==
    LET r    == job[c]
        list == NewestFirst(r.found)
        same == NewestFirst({s \in r.found : job[s].action = r.action})
    IN  /\ At(c, "readFiles") /\ r.names = {}
        /\ \/ /\ r.op = "create"
              /\ job' = [job EXCEPT ![c].pc = "cleanup", ![c].todo = Doomed(r.found),
                                      ![c].found = {}]
           \/ /\ r.op = "autoRollback" /\ r.action = NoAction
              /\ IF list = <<>> THEN Finish(c, "ok")
                 ELSE job' = [job EXCEPT ![c].pc = "readdir", ![c].found = {},
                                           ![c].action = job[Head(list)].action]
           \/ /\ r.op \in {"rollback", "autoRollback"} /\ r.action # NoAction
              /\ IF same = <<>> THEN Finish(c, "error")
                 ELSE job' = [job EXCEPT ![c].pc = "read", ![c].found = {},
                                           ![c].target = Head(same)]
        /\ UNCHANGED <<file, home, clock, horizon, life, faults, saved, removed, partial>>

\* One turn of the clean-up: deleteSnapshot throws when the file is gone already,
\* and createSnapshot rejects although its snapshot is stored.  Reading the file and
\* unlinking it are one step: gone at either, the outcome is the same.
Cleanup(c) ==
    LET s == Head(job[c].todo)
    IN  /\ At(c, "cleanup")
        /\ IF job[c].todo = <<>>
           THEN Finish(c, "ok") /\ UNCHANGED file
           ELSE IF file[s] # "whole"
           THEN Finish(c, "error") /\ UNCHANGED file
           ELSE /\ file' = [file EXCEPT ![s] = "absent"]
                /\ job' = [job EXCEPT ![c].todo = Tail(@)]
        /\ UNCHANGED <<home, clock, horizon, life, faults, saved, removed, partial>>

\* readSnapshot: a file that is missing or torn is not found.
Read(c) ==
    /\ At(c, "read")
    /\ IF file[job[c].target] # "whole" THEN Finish(c, "error")
       ELSE Goto(c, IF job[c].op = "delete" THEN "unlink" ELSE "decrypt")
    /\ UNCHANGED <<file, home, clock, horizon, life, faults, saved, removed, partial>>

Unlink(c) ==
    LET s == job[c].target
    IN  /\ At(c, "unlink")
        /\ IF file[s] = "absent" THEN Finish(c, "error") /\ UNCHANGED <<file, removed>>
           ELSE /\ Finish(c, "ok") /\ removed' = removed \cup {s}
                /\ file' = [file EXCEPT ![s] = "absent"]
        /\ UNCHANGED <<home, clock, horizon, life, faults, saved, partial>>

\* decryptData and verifyChecksum: the salt of an earlier life is gone.
Decrypt(c) ==
    /\ At(c, "decrypt")
    /\ Finish(c, IF home[job[c].target] = life THEN "ok" ELSE "error")
    /\ UNCHANGED <<file, home, clock, horizon, life, faults, saved, removed, partial>>

\* Any other operation throws, readdir and the reads of readSnapshot among them, and
\* the call with it: a write may leave a torn file behind.
FileFault(c) ==
    /\ job[c].pc \notin {"idle", "readFiles", "done"} /\ faults < MaxFaults
    /\ At(c, "cleanup") => job[c].todo # <<>>
    /\ faults' = faults + 1
    /\ Finish(c, "error")
    /\ UNCHANGED <<file, home, clock, horizon, life, saved, removed, partial>>

TimePasses ==
    /\ horizon < MaxHorizon /\ horizon < clock
    /\ horizon' = horizon + 1
    /\ UNCHANGED <<file, home, job, clock, life, faults, saved, removed, partial>>

Restart ==
    /\ life < MaxRestarts /\ life' = life + 1
    /\ job' = [c \in Calls |-> IF job[c].pc \in {"idle", "done"} THEN job[c]
                   ELSE [job[c] EXCEPT !.pc = "done", !.names = {}, !.found = {}, !.todo = <<>>,
                                        !.res = "error"]]
    /\ UNCHANGED <<file, home, clock, horizon, faults, saved, removed, partial>>

Step(c) ==
    \/ Encrypted(c) \/ WriteBegins(c) \/ WriteEnds(c)
    \/ Readdir(c) \/ AccessFault(c) \/ ReadFile(c) \/ ReadFileFault(c) \/ Listed(c)
    \/ Cleanup(c) \/ Read(c) \/ Unlink(c) \/ Decrypt(c) \/ FileFault(c)

Next ==
    \/ \E c \in Calls : Create(c) \/ ById(c) \/ Rollback(c) \/ Step(c)
    \/ TimePasses
    \/ Restart

Spec == Init /\ [][Next]_vars

-----------------------------------------------------------------------------
(* Properties.                                                             *)

\* Every variable holds a value of its kind.
TypeOK ==
    /\ file \in [Calls -> {"absent", "torn", "whole"}]
    /\ home \in [Calls -> Nat] /\ job \in [Calls -> Call]
    /\ {clock, horizon, life, faults} \subseteq Nat
    /\ saved \subseteq Calls /\ removed \subseteq Calls /\ partial \subseteq Calls

\* Clean-ups that overlap, work from stale lists or die half way never cost a
\* tenant one of its newest snapshots: of those written and not removed on
\* request, one that is in time and has fewer than the limit after it is there.
NewestAreKept == \A t \in Tenants : \A s \in SnapshotsOf(t) \cap (saved \ removed) :
    LET newer == {n \in SnapshotsOf(t) \cap saved : job[n].stamp > job[s].stamp}
    IN  ~Expired(s) /\ Cardinality(newer) < MaxSnapshots => file[s] = "whole"

\* The limit holds up to one snapshot for each creation that is still cleaning up, that
\* failed, or whose listing a file error cut short: the last returns as if it had
\* cleaned up.  Every other one that returned had deleted all it found beyond the limit.
StoreIsBounded == \A t \in Tenants :
    LET kept  == {s \in SnapshotsOf(t) : file[s] = "whole"}
        debts == {c \in SnapshotsOf(t) \cap saved : job[c].res # "ok" \/ c \in partial}
    IN  Cardinality(kept) <= MaxSnapshots + Cardinality(debts)
=============================================================================
