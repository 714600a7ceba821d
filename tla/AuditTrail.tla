----------------------------- MODULE AuditTrail -----------------------------
(***************************************************************************)
(* The audit log of s4-audit-logging: AuditService.log, which no caller    *)
(* awaits, the fallback file of the day it turns to when the database does *)
(* not take an entry, and AuditArchiverService, which compresses old       *)
(* files, splits large ones and purges what is past its retention, while   *)
(* entries go on being appended.  A file is the set of entries in it; an   *)
(* absent file is the empty set.  One run of the archiver is in progress   *)
(* at a time: the hourly runs of one service overlap only when a run takes *)
(* an hour.                                                                *)
(***************************************************************************)
EXTENDS Naturals, FiniteSets

CONSTANTS
    Calls,        \* calls of log; an entry is known by its call
    MaxDays,      \* bound on the days that pass
    MaxFaults, MaxCrashes,   \* bounds on file errors and on restarts
    MaxLines,     \* a log with more entries is above AUDIT_MAX_FILE_SIZE_MB
    ChunkLines,   \* entries of a chunk (10000 in the code)
    ArchiveAge, RetentionAge   \* 7 days and AUDIT_RETENTION_DAYS

VARIABLES
    entry,      \* [Calls -> where the call of log is, or where it left the entry]
    logs,       \* [Names -> SUBSET Calls], the directory audit-logs
    archives,   \* [Names -> Archive], the directory audit-archive
    mtime,      \* [Names -> Nat], the day each log was last written
    run,        \* the run of the archiver
    today, faults, crashes,
    filed, purged, overtaken   \* history: appended to a file, past retention, and
                               \* overwritten after a later split or appended under one

vars == <<entry, logs, archives, mtime, run, today, faults, crashes, filed, purged, overtaken>>

Names   == (1 .. MaxDays) \X (0 .. Cardinality(Calls))   \* the day's file and its chunks
Archive == [state: {"absent", "torn", "whole"}, content: SUBSET Calls, at: Nat]
Nowhere == [state |-> "absent", content |-> {}, at |-> 0]
Run     == [pc: {"idle", "archive", "gzip", "unlink", "split", "write", "unlinkSplit", "purge"},
            todo: SUBSET Names, file: Names, rest: SUBSET Calls, read: SUBSET Calls, chunk: Nat]
Idle    == [pc |-> "idle", todo |-> {}, file |-> <<1, 0>>, rest |-> {}, read |-> {}, chunk |-> 0]

Init ==
    /\ entry = [c \in Calls |-> "none"]
    /\ logs = [n \in Names |-> {}] /\ archives = [n \in Names |-> Nowhere]
    /\ mtime = [n \in Names |-> 0]
    /\ run = Idle
    /\ today = 1 /\ faults = 0 /\ crashes = 0
    /\ filed = {} /\ purged = {} /\ overtaken = {}

files == <<logs, archives, mtime, filed, purged, overtaken>>

-----------------------------------------------------------------------------
(* AuditService.log.                                                       *)

Log(c) ==
    /\ entry[c] = "none" /\ entry' = [entry EXCEPT ![c] = "check"]
    /\ UNCHANGED <<files, run, today, faults, crashes>>

\* The table is there, or it is missing and the entry goes to the console.
TableCheck(c) ==
    /\ entry[c] = "check"
    /\ \E w \in {"insert", "console"} : entry' = [entry EXCEPT ![c] = w]
    /\ UNCHANGED <<files, run, today, faults, crashes>>

Insert(c) ==
    /\ entry[c] = "insert" /\ entry' = [entry EXCEPT ![c] = "db"]
    /\ UNCHANGED <<files, run, today, faults, crashes>>

\* A query throws (an insert may have taken effect): logToFallback, in one turn of
\* the event loop; its own error is only logged.
Fallback(c) ==
    LET n == <<today, 0>>
    IN  /\ entry[c] \in {"check", "insert"}
        /\ \/ /\ entry' = [entry EXCEPT ![c] = "file"]
              /\ logs' = [logs EXCEPT ![n] = @ \cup {c}]
              /\ mtime' = [mtime EXCEPT ![n] = today]
              /\ filed' = filed \cup {c}
              /\ UNCHANGED <<archives, purged, overtaken, faults>>
           \/ /\ faults < MaxFaults /\ faults' = faults + 1
              /\ entry' = [entry EXCEPT ![c] = "dropped"]
              /\ UNCHANGED files
        /\ UNCHANGED <<run, today, crashes>>

-----------------------------------------------------------------------------
(* AuditArchiverService.performArchiving.                                  *)

Present == {n \in Names : logs[n] # {}}

\* The interval or the five-minute timer; archiveOldLogs reads the directory.
Begin ==
    /\ run.pc = "idle"
    /\ run' = [Idle EXCEPT !.pc = "archive", !.todo = Present]
    /\ UNCHANGED <<entry, files, today, faults, crashes>>

Old(n)     == today - mtime[n] > ArchiveAge
Expired(n) == today - archives[n].at > RetentionAge
Torn       == [state |-> "torn", content |-> {}, at |-> today]
Whole(S)   == [state |-> "whole", content |-> S, at |-> today]

\* createWriteStream empties an archive of that name, should there be one: of the same
\* log, when a run stopped before it could unlink it, or of an earlier chunk.
StatLog(n) ==
    /\ run.pc = "archive" /\ n \in run.todo
    /\ run' = [run EXCEPT !.todo = @ \ {n}, !.file = n,
                          !.pc = IF Old(n) THEN "gzip" ELSE "archive"]
    /\ IF Old(n)
       THEN /\ archives' = [archives EXCEPT ![n] = Torn]
            /\ overtaken' = overtaken \cup (archives[n].content \ logs[n])
       ELSE UNCHANGED <<archives, overtaken>>
    /\ UNCHANGED <<entry, logs, mtime, today, faults, crashes, filed, purged>>

Gzip ==
    /\ run.pc = "gzip" /\ run' = [run EXCEPT !.pc = "unlink"]
    /\ archives' = [archives EXCEPT ![run.file] = Whole(logs[run.file])]
    /\ UNCHANGED <<entry, logs, mtime, today, faults, crashes, filed, purged, overtaken>>

Unlink ==
    /\ run.pc = "unlink" /\ run' = [run EXCEPT !.pc = "archive"]
    /\ logs' = [logs EXCEPT ![run.file] = {}]
    /\ UNCHANGED <<entry, archives, mtime, today, faults, crashes, filed, purged, overtaken>>

\* archiveOldLogs is done; splitLargeFiles reads the directory.
BeginSplit ==
    /\ run.pc = "archive" /\ run.todo = {}
    /\ run' = [Idle EXCEPT !.pc = "split", !.todo = Present]
    /\ UNCHANGED <<entry, files, today, faults, crashes>>

Large(n) == Cardinality(logs[n]) > MaxLines

\* stat, and readFile of a large file; a chunk is never large itself.
StatLarge(n) ==
    /\ run.pc = "split" /\ n \in run.todo
    /\ run' = [run EXCEPT !.todo = @ \ {n}, !.file = n, !.chunk = 0,
                          !.rest = IF Large(n) THEN logs[n] ELSE {},
                          !.read = IF Large(n) THEN logs[n] ELSE {},
                          !.pc = IF Large(n) THEN "write" ELSE "split"]
    /\ UNCHANGED <<entry, files, today, faults, crashes>>

\* The lines of the next chunk, in any order the file may hold them.
Lines(S) == {L \in SUBSET S : Cardinality(L) = IF Cardinality(S) < ChunkLines
                                               THEN Cardinality(S) ELSE ChunkLines}

WriteChunk == \E L \in Lines(run.rest) :
    LET k == <<run.file[1], run.chunk + 1>>
        r == IF Cardinality(run.rest) <= ChunkLines THEN {} ELSE run.rest \ L
    IN  /\ run.pc = "write"
        /\ logs' = [logs EXCEPT ![k] = L]
        /\ mtime' = [mtime EXCEPT ![k] = today]
        /\ overtaken' = overtaken \cup (logs[k] \ run.read)
        /\ run' = [run EXCEPT !.chunk = @ + 1, !.rest = r,
                              !.pc = IF r = {} THEN "unlinkSplit" ELSE "write"]
        /\ UNCHANGED <<entry, archives, today, faults, crashes, filed, purged>>

UnlinkSplit ==
    /\ run.pc = "unlinkSplit" /\ run' = [run EXCEPT !.pc = "split", !.read = {}]
    /\ overtaken' = overtaken \cup (logs[run.file] \ run.read)
    /\ logs' = [logs EXCEPT ![run.file] = {}]
    /\ UNCHANGED <<entry, archives, mtime, today, faults, crashes, filed, purged>>

\* splitLargeFiles is done; purgeExpiredLogs reads the archive's directory.
BeginPurge ==
    /\ run.pc = "split" /\ run.todo = {}
    /\ run' = [Idle EXCEPT !.pc = "purge", !.todo = {n \in Names : archives[n].state # "absent"}]
    /\ UNCHANGED <<entry, files, today, faults, crashes>>

Purge(n) ==
    /\ run.pc = "purge" /\ n \in run.todo
    /\ run' = [run EXCEPT !.todo = @ \ {n}]
    /\ IF Expired(n)
       THEN /\ archives' = [archives EXCEPT ![n] = Nowhere]
            /\ purged' = purged \cup archives[n].content
       ELSE UNCHANGED <<archives, purged>>
    /\ UNCHANGED <<entry, logs, mtime, today, faults, crashes, filed, overtaken>>

End ==
    /\ run.pc = "purge" /\ run.todo = {}
    /\ run' = Idle
    /\ UNCHANGED <<entry, files, today, faults, crashes>>

\* Mutant: the original is deleted although its compression failed.
FileErrorMutantUnlinks ==
    /\ run.pc # "idle" /\ faults < MaxFaults /\ faults' = faults + 1
    /\ run' = Idle
    /\ logs' = IF run.pc = "gzip" THEN [logs EXCEPT ![run.file] = {}] ELSE logs
    /\ UNCHANGED <<entry, archives, mtime, filed, purged, overtaken, today, crashes>>

\* A file operation throws: the run stops where it is.
FileError ==
    /\ run.pc # "idle" /\ faults < MaxFaults /\ faults' = faults + 1
    /\ run' = Idle
    /\ UNCHANGED <<entry, files, today, crashes>>

TimePasses ==
    /\ today < MaxDays /\ today' = today + 1
    /\ UNCHANGED <<entry, files, run, faults, crashes>>

\* The process stops and starts again; entries on their way are lost.
Crash ==
    /\ crashes < MaxCrashes /\ crashes' = crashes + 1
    /\ run' = Idle
    /\ entry' = [c \in Calls |-> IF entry[c] \in {"check", "insert"} THEN "dropped"
                                                                     ELSE entry[c]]
    /\ UNCHANGED <<files, today, faults>>

Archiver ==
    \/ Begin \/ Gzip \/ Unlink \/ BeginSplit \/ WriteChunk \/ UnlinkSplit
    \/ BeginPurge \/ End \/ FileError
    \/ \E n \in Names : StatLog(n) \/ StatLarge(n) \/ Purge(n)

Next ==
    \/ \E c \in Calls : Log(c) \/ TableCheck(c) \/ Insert(c) \/ Fallback(c)
    \/ Archiver
    \/ TimePasses
    \/ Crash

Spec == Init /\ [][Next]_vars

-----------------------------------------------------------------------------
(* Properties.                                                             *)

\* Every variable holds a value of its kind.
TypeOK ==
    /\ entry \in [Calls -> {"none", "check", "insert", "db", "file", "console", "dropped"}]
    /\ logs \in [Names -> SUBSET Calls] /\ archives \in [Names -> Archive]
    /\ mtime \in [Names -> Nat] /\ run \in Run
    /\ {today, faults, crashes} \subseteq Nat
    /\ UNION {filed, purged, overtaken} \subseteq Calls

\* An entry that reached a file is in a log or in a complete archive until its
\* retention is over, whatever a run of the archiver was doing when an operation
\* failed or the process stopped.  The entries two defects lose are set apart:
\* those appended to a file while it is split, and those in a chunk, or in its
\* archive, that a second split of the same day's file comes to overwrite.
FiledEntriesSurvive ==
    \A c \in filed \ (purged \cup overtaken) :
        \E n \in Names : c \in logs[n] \/ (archives[n].state = "whole" /\ c \in archives[n].content)
=============================================================================
