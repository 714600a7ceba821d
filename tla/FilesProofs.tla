---------------------------- MODULE FilesProofs ------------------------------
(***************************************************************************)
(* Theorems about AuditTrail and Snapshots, the parts of Services that     *)
(* keep files.  Both invariants say of every operation that is suspended   *)
(* what it still relies on: the archiver, what it has read and written;    *)
(* a clean-up, that all on its list may be deleted whenever it comes to it.*)
(* The type correctness of Services, which rests on all parts, is last.    *)
(***************************************************************************)
EXTENDS AccountsProofs

-----------------------------------------------------------------------------
(* AuditTrail: the files of the log and their archives.                    *)

LEMMA AuditCardinality == \A X : L!Cardinality(X) = Cardinality(X)
  BY DEF L!Cardinality, Cardinality

\* A name is of a day's file or of one of its chunks.
LEMMA NameFacts ==
    /\ Cardinality(Calls) \in Nat
    /\ \A n \in L!Names : /\ n[1] \in 1 .. MaxDays /\ n[2] \in 0 .. Cardinality(Calls)
                          /\ n = <<n[1], n[2]>>
    /\ \A d \in 1 .. MaxDays, k \in 0 .. Cardinality(Calls) :
          <<d, k>> \in L!Names /\ <<d, k>>[1] = d /\ <<d, k>>[2] = k
<1>1. Cardinality(Calls) \in Nat  BY CallsAssumption, FS_CardinalityType
<1>2. L!Names = (1 .. MaxDays) \X (0 .. Cardinality(Calls))
  BY AuditCardinality DEF L!Names
<1> QED  BY <1>1, <1>2

LEMMA LogsAreFinite ==
    ASSUME NEW X \in SUBSET Calls
    PROVE  IsFiniteSet(X) /\ Cardinality(X) \in Nat /\ Cardinality(X) <= Cardinality(Calls)
  BY CallsAssumption, FS_Subset, FS_CardinalityType

AuditTypes == L!TypeOK /\ today \in 1 .. MaxDays

\* A day's file was last written on its day; a chunk is never large.
FilesFit == \A n \in L!Names :
    /\ n[2] = 0 /\ logs[n] # {} => mtime[n] = n[1] /\ n[1] <= today
    /\ n[2] # 0 => Cardinality(logs[n]) <= ChunkLines

\* An archive that is not whole counts for nothing.
ArchivesFit == \A n \in L!Names : archives[n].state # "whole" => archives[n].content = {}

\* What the archiver relies on between two of its operations: the files it listed are
\* still there, and nothing is appended to one it archives; a file it splits still
\* holds what was read of it, and what was taken from that is in a chunk.
RunFits ==
    /\ run.pc \in {"archive", "gzip", "unlink"} => \A n \in run.todo : logs[n] # {}
    /\ run.pc \in {"gzip", "unlink"} =>
          run.file \notin run.todo /\ (run.file[2] # 0 \/ run.file[1] < today)
    /\ run.pc = "gzip" => archives[run.file].content = {}
    /\ run.pc = "unlink" => /\ archives[run.file].state = "whole"
                            /\ logs[run.file] \subseteq archives[run.file].content
    /\ run.pc \in {"write", "unlinkSplit"} =>
          /\ run.file[2] = 0 /\ run.read \subseteq logs[run.file]
          /\ run.chunk + Cardinality(run.rest) <= Cardinality(Calls)
          /\ \A c \in run.read \ run.rest :
                \E k \in 1 .. run.chunk : c \in logs[<<run.file[1], k>>]
    /\ run.pc = "write" => run.rest # {}
    /\ run.pc = "unlinkSplit" => run.rest = {}

AuditInv == AuditTypes /\ FilesFit /\ ArchivesFit /\ RunFits /\ L!FiledEntriesSurvive

LEMMA RunTypes ==
    ASSUME AuditInv
    PROVE  /\ run \in L!Run /\ run.file \in L!Names /\ run.chunk \in Nat
           /\ run.rest \in SUBSET Calls /\ run.read \in SUBSET Calls
           /\ logs \in [L!Names -> SUBSET Calls] /\ archives \in [L!Names -> L!Archive]
           /\ mtime \in [L!Names -> Nat] /\ today \in 1 .. MaxDays /\ MaxDays \in Nat
           /\ \A n \in L!Names : /\ logs[n] \in SUBSET Calls /\ mtime[n] \in Nat
                                 /\ archives[n].content \in SUBSET Calls
           /\ filed \in SUBSET Calls /\ purged \in SUBSET Calls /\ overtaken \in SUBSET Calls
           /\ today \in Nat /\ faults \in Nat /\ crashes \in Nat
<1>1. L!TypeOK /\ today \in 1 .. MaxDays  BY DEF AuditInv, AuditTypes
<1>2. /\ run \in L!Run /\ logs \in [L!Names -> SUBSET Calls]
      /\ archives \in [L!Names -> L!Archive] /\ mtime \in [L!Names -> Nat]
      /\ today \in Nat /\ faults \in Nat /\ crashes \in Nat
      /\ filed \in SUBSET Calls /\ purged \in SUBSET Calls /\ overtaken \in SUBSET Calls
  BY <1>1 DEF L!TypeOK
<1>3. \A n \in L!Names : archives[n].content \in SUBSET Calls
  BY <1>2 DEF L!Archive
<1> QED  BY <1>1, <1>2, <1>3, AuditAssumption DEF L!Run

LEMMA AuditTypesNow ==
    ASSUME AuditInv,
           entry' \in [Calls -> {"none", "check", "insert", "db", "file", "console", "dropped"}],
           logs' \in [L!Names -> SUBSET Calls], archives' \in [L!Names -> L!Archive],
           mtime' \in [L!Names -> Nat], run' \in L!Run, today' \in 1 .. MaxDays,
           faults' \in Nat, crashes' \in Nat,
           filed' \in SUBSET Calls, purged' \in SUBSET Calls, overtaken' \in SUBSET Calls
    PROVE  AuditTypes'
<1>1. today' \in Nat  BY AuditAssumption
<1> QED  BY <1>1 DEF AuditTypes, L!TypeOK

\* A step that leaves the files alone and ends between two operations.
LEMMA BetweenFiles ==
    ASSUME AuditInv, UNCHANGED <<logs, archives, mtime, filed, purged, overtaken, today>>,
           entry' \in [Calls -> {"none", "check", "insert", "db", "file", "console", "dropped"}],
           run' \in L!Run, faults' \in Nat, crashes' \in Nat,
           \/ run' = run
           \/ run'.pc \in {"idle", "split", "purge"}
           \/ run'.pc = "archive" /\ \A n \in run'.todo : logs[n] # {}
    PROVE  AuditInv'
<1>1. AuditTypes'  BY RunTypes, AuditTypesNow
<1>2. FilesFit' /\ ArchivesFit' /\ (L!FiledEntriesSurvive)'
  BY DEF AuditInv, FilesFit, ArchivesFit, L!FiledEntriesSurvive
<1>3. RunFits'  BY DEF AuditInv, RunFits
<1> QED  BY <1>1, <1>2, <1>3 DEF AuditInv

LEMMA LogStep ==
    ASSUME AuditInv, NEW c \in Calls, L!Log(c) \/ L!TableCheck(c) \/ L!Insert(c)
    PROVE  AuditInv'
<1>1. /\ UNCHANGED <<logs, archives, mtime, filed, purged, overtaken, today, run, faults, crashes>>
      /\ entry' \in [Calls -> {"none", "check", "insert", "db", "file", "console", "dropped"}]
  BY DEF L!Log, L!TableCheck, L!Insert, L!files, AuditInv, AuditTypes, L!TypeOK
<1> QED  BY <1>1, RunTypes, BetweenFiles

LEMMA IdleRun == L!Idle \in L!Run /\ L!Idle.pc = "idle"
<1>1. <<1, 0>> \in L!Names  BY NameFacts, AuditAssumption
<1> QED  BY <1>1 DEF L!Idle, L!Run

\* The run goes on to its next phase, or stops where it is.
LEMMA PhaseStep ==
    ASSUME AuditInv,
           L!Begin \/ L!BeginSplit \/ L!BeginPurge \/ L!End \/ L!FileError \/ L!Crash
    PROVE  AuditInv'
<1>1. /\ UNCHANGED <<logs, archives, mtime, filed, purged, overtaken, today>>
      /\ faults' \in Nat /\ crashes' \in Nat
  BY RunTypes DEF L!Begin, L!BeginSplit, L!BeginPurge, L!End, L!FileError, L!Crash, L!files
<1>2. entry' \in [Calls -> {"none", "check", "insert", "db", "file", "console", "dropped"}]
  BY DEF L!Begin, L!BeginSplit, L!BeginPurge, L!End, L!FileError, L!Crash, L!files,
         AuditInv, AuditTypes, L!TypeOK
<1> DEFINE r(l, X) == [L!Idle EXCEPT !.pc = l, !.todo = X]
<1>3. ASSUME NEW X \in SUBSET L!Names, NEW l \in {"archive", "split", "purge"}
      PROVE  r(l, X) \in L!Run /\ r(l, X).pc = l /\ r(l, X).todo = X
  BY <1>3, IdleRun DEF L!Run
<1>4. L!Present \in SUBSET L!Names /\ \A n \in L!Present : logs[n] # {}
  BY DEF L!Present
<1>5. L!Begin => run' = r("archive", L!Present)  BY Zenon DEF L!Begin
<1>6. L!BeginSplit => run' = r("split", L!Present)  BY Zenon DEF L!BeginSplit
<1>7. L!BeginPurge => run' = r("purge", {n \in L!Names : archives[n].state # "absent"})
  BY Zenon DEF L!BeginPurge
<1> HIDE DEF r
<1>8. L!End \/ L!FileError \/ L!Crash => run' \in L!Run /\ run'.pc = "idle"
  BY IdleRun DEF L!End, L!FileError, L!Crash
<1>9. {n \in L!Names : archives[n].state # "absent"} \in SUBSET L!Names  OBVIOUS
<1>10. /\ run' \in L!Run
       /\ \/ run'.pc \in {"idle", "split", "purge"}
          \/ run'.pc = "archive" /\ \A n \in run'.todo : logs[n] # {}
  BY <1>3, <1>4, <1>5, <1>6, <1>7, <1>8, <1>9
<1> QED  BY <1>1, <1>2, <1>10, BetweenFiles

LEMMA DayStep == ASSUME AuditInv, L!TimePasses PROVE AuditInv'
<1>1. /\ UNCHANGED <<logs, archives, mtime, filed, purged, overtaken, run, entry, faults, crashes>>
      /\ today' = today + 1 /\ today < MaxDays /\ today \in Nat /\ MaxDays \in Nat
  BY RunTypes DEF L!TimePasses, L!files
<1>2. entry \in [Calls -> {"none", "check", "insert", "db", "file", "console", "dropped"}]
  BY DEF AuditInv, AuditTypes, L!TypeOK
<1>3. AuditTypes'  BY <1>1, <1>2, RunTypes, AuditTypesNow
<1>4. ArchivesFit' /\ (L!FiledEntriesSurvive)'
  BY <1>1 DEF AuditInv, ArchivesFit, L!FiledEntriesSurvive
<1>5. FilesFit'
  <2> SUFFICES ASSUME NEW n \in L!Names
               PROVE  /\ n[2] = 0 /\ logs[n] # {} => mtime[n] = n[1] /\ n[1] <= today + 1
                      /\ n[2] # 0 => Cardinality(logs[n]) <= ChunkLines
    BY <1>1 DEF FilesFit
  <2>1. n[1] \in Nat  BY NameFacts
  <2> QED  BY <1>1, <2>1 DEF AuditInv, FilesFit
<1>6. RunFits'
  <2>1. run.file[1] \in Nat  BY RunTypes, NameFacts
  <2>2. run.file[1] < today => run.file[1] < today'  BY <1>1, <2>1
  <2> QED  BY <1>1, <2>2 DEF AuditInv, RunFits
<1> QED  BY <1>3, <1>4, <1>5, <1>6 DEF AuditInv

\* An entry is appended to the file of the day, which no run is archiving.
LEMMA FallbackStep == ASSUME AuditInv, NEW c \in Calls, L!Fallback(c) PROVE AuditInv'
<1>1. CASE faults < MaxFaults /\ faults' = faults + 1
           /\ entry' = [entry EXCEPT ![c] = "dropped"]
           /\ UNCHANGED <<logs, archives, mtime, filed, purged, overtaken, run, today, crashes>>
  <2>1. entry' \in [Calls -> {"none", "check", "insert", "db", "file", "console", "dropped"}]
    BY <1>1 DEF AuditInv, AuditTypes, L!TypeOK
  <2> QED  BY <1>1, <2>1, RunTypes, BetweenFiles
<1>2. CASE /\ entry' = [entry EXCEPT ![c] = "file"]
           /\ logs' = [logs EXCEPT ![<<today, 0>>] = @ \cup {c}]
           /\ mtime' = [mtime EXCEPT ![<<today, 0>>] = today]
           /\ filed' = filed \cup {c}
           /\ UNCHANGED <<archives, purged, overtaken, faults, run, today, crashes>>
  <2> DEFINE n == <<today, 0>>
  <2>1. n \in L!Names /\ n[1] = today /\ n[2] = 0  BY RunTypes, NameFacts
  <2>2. entry' \in [Calls -> {"none", "check", "insert", "db", "file", "console", "dropped"}]
    BY <1>2 DEF AuditInv, AuditTypes, L!TypeOK
  <2>3. \A k \in L!Names : logs[k] \subseteq logs'[k] /\ (k # n => logs'[k] = logs[k] /\ mtime'[k] = mtime[k])
    BY <1>2, <2>1, RunTypes
  <2>4. logs' \in [L!Names -> SUBSET Calls] /\ c \in logs'[n] /\ mtime'[n] = today
    BY <1>2, <2>1, RunTypes
  <2>5. mtime' \in [L!Names -> Nat]  BY <1>2, RunTypes
  <2> HIDE DEF n
  <2>6. AuditTypes'  BY <1>2, <2>2, <2>4, <2>5, RunTypes, AuditTypesNow
  <2>7. FilesFit'
    <3> SUFFICES ASSUME NEW k \in L!Names
                 PROVE  /\ k[2] = 0 /\ logs'[k] # {} => mtime'[k] = k[1] /\ k[1] <= today'
                        /\ k[2] # 0 => Cardinality(logs'[k]) <= ChunkLines
      BY DEF FilesFit
    <3>1. CASE k = n  BY <1>2, <2>1, <2>4, <3>1, RunTypes
    <3>2. CASE k # n  BY <1>2, <2>3, <3>2 DEF AuditInv, FilesFit
    <3> QED  BY <3>1, <3>2
  <2>8. ArchivesFit'  BY <1>2 DEF AuditInv, ArchivesFit
  <2>9. RunFits'
    <3>1. run.pc \in {"gzip", "unlink"} => logs'[run.file] = logs[run.file]
      BY <2>1, <2>3, RunTypes DEF AuditInv, RunFits
    <3>2. run.pc \in {"write", "unlinkSplit"} =>
            \A k \in 1 .. run.chunk : logs[<<run.file[1], k>>] \subseteq logs'[<<run.file[1], k>>]
      <4> SUFFICES ASSUME run.pc \in {"write", "unlinkSplit"}, NEW k \in 1 .. run.chunk
                   PROVE  <<run.file[1], k>> \in L!Names
        BY <2>3
      <4>1. run.chunk + Cardinality(run.rest) <= Cardinality(Calls)  BY DEF AuditInv, RunFits
      <4>2. k \in 0 .. Cardinality(Calls)  BY <4>1, RunTypes, LogsAreFinite, NameFacts
      <4> QED  BY <4>2, RunTypes, NameFacts
    <3>3. logs[run.file] \subseteq logs'[run.file]  BY <2>3, RunTypes
    <3> QED  BY <1>2, <3>1, <3>2, <3>3 DEF AuditInv, RunFits
  <2>10. (L!FiledEntriesSurvive)'
    BY <1>2, <2>1, <2>3, <2>4 DEF AuditInv, L!FiledEntriesSurvive
  <2> QED  BY <2>6, <2>7, <2>8, <2>9, <2>10 DEF AuditInv
<1> QED  BY <1>1, <1>2 DEF L!Fallback, L!files

\* The archive of a file that was listed is opened, and emptied if there was one.
LEMMA StatLogStep ==
    ASSUME AuditInv, NEW n \in L!Names, L!StatLog(n) PROVE AuditInv'
<1>1. /\ UNCHANGED <<entry, logs, mtime, today, faults, crashes, filed, purged>>
      /\ run.pc = "archive" /\ n \in run.todo
      /\ run' = [run EXCEPT !.todo = @ \ {n}, !.file = n,
                            !.pc = IF L!Old(n) THEN "gzip" ELSE "archive"]
  BY DEF L!StatLog
<1>2. /\ run' \in L!Run /\ run'.file = n /\ run'.todo = run.todo \ {n}
      /\ run'.pc = IF L!Old(n) THEN "gzip" ELSE "archive"
  BY <1>1, RunTypes DEF L!Run
<1>3. entry' \in [Calls -> {"none", "check", "insert", "db", "file", "console", "dropped"}]
  BY <1>1 DEF AuditInv, AuditTypes, L!TypeOK
<1>4. \A k \in run.todo : logs[k] # {}
  BY <1>1 DEF AuditInv, RunFits
<1>5. CASE ~L!Old(n)
  <2>1. UNCHANGED <<archives, overtaken>>  BY <1>5 DEF L!StatLog
  <2> QED  BY <1>1, <1>2, <1>3, <1>4, <1>5, <2>1, BetweenFiles, RunTypes
<1>6. CASE L!Old(n)
  <2>1. /\ archives' = [archives EXCEPT ![n] = L!Torn]
        /\ overtaken' = overtaken \cup (archives[n].content \ logs[n])
    BY <1>6 DEF L!StatLog
  <2>2. L!Torn \in L!Archive /\ L!Torn.content = {} /\ L!Torn.state = "torn"
    BY RunTypes DEF L!Torn, L!Archive
  <2>3. /\ archives' \in [L!Names -> L!Archive] /\ archives'[n].content = {}
        /\ \A k \in L!Names : k # n => archives'[k] = archives[k]
    BY <2>1, <2>2, RunTypes
  <2>4. overtaken' \in SUBSET Calls  BY <2>1, RunTypes
  <2>5. AuditTypes'
    BY <1>1, <1>2, <1>3, <2>3, <2>4, RunTypes, AuditTypesNow
  <2>6. FilesFit' /\ ArchivesFit'
    BY <1>1, <2>3 DEF AuditInv, FilesFit, ArchivesFit
  <2>7. n[2] # 0 \/ n[1] < today
    <3>1. n[2] = 0 => mtime[n] = n[1]  BY <1>1, <1>4 DEF AuditInv, FilesFit
    <3>2. today - mtime[n] > ArchiveAge  BY <1>6 DEF L!Old
    <3> QED  BY <3>1, <3>2, RunTypes, NameFacts, AuditAssumption
  <2>8. RunFits'
    BY <1>1, <1>2, <1>4, <1>6, <2>3, <2>7 DEF RunFits
  <2>9. (L!FiledEntriesSurvive)'
    <3> SUFFICES ASSUME NEW c \in filed \ (purged \cup overtaken')
                 PROVE  \E k \in L!Names :
                           c \in logs[k] \/ (archives'[k].state = "whole" /\ c \in archives'[k].content)
      BY <1>1 DEF L!FiledEntriesSurvive
    <3>1. PICK k \in L!Names :
             c \in logs[k] \/ (archives[k].state = "whole" /\ c \in archives[k].content)
      BY <2>1 DEF AuditInv, L!FiledEntriesSurvive
    <3> QED  BY <2>1, <2>3, <3>1
  <2> QED  BY <2>5, <2>6, <2>8, <2>9 DEF AuditInv
<1> QED  BY <1>5, <1>6

\* The whole archive holds what the log holds, which is then unlinked.
LEMMA ArchiveStep == ASSUME AuditInv, L!Gzip \/ L!Unlink PROVE AuditInv'
<1> DEFINE n == run.file
<1>1. /\ UNCHANGED <<entry, mtime, today, faults, crashes, filed, purged, overtaken>>
      /\ n \in L!Names
  BY RunTypes DEF L!Gzip, L!Unlink
<1>2. entry' \in [Calls -> {"none", "check", "insert", "db", "file", "console", "dropped"}]
  BY <1>1 DEF AuditInv, AuditTypes, L!TypeOK
<1>3. CASE L!Gzip
  <2>1. /\ run.pc = "gzip" /\ run' = [run EXCEPT !.pc = "unlink"] /\ logs' = logs
        /\ archives' = [archives EXCEPT ![n] = L!Whole(logs[n])]
    BY <1>3 DEF L!Gzip
  <2>2. run' \in L!Run /\ run'.pc = "unlink" /\ run'.file = n /\ run'.todo = run.todo
    BY <2>1, RunTypes DEF L!Run
  <2>3. L!Whole(logs[n]) \in L!Archive /\ L!Whole(logs[n]).state = "whole"
        /\ L!Whole(logs[n]).content = logs[n]
    BY RunTypes DEF L!Whole, L!Archive
  <2>4. /\ archives' \in [L!Names -> L!Archive] /\ archives'[n] = L!Whole(logs[n])
        /\ \A k \in L!Names : k # n => archives'[k] = archives[k]
    BY <2>1, <2>3, RunTypes
  <2>5. AuditTypes'
    BY <1>1, <1>2, <2>1, <2>2, <2>4, RunTypes, AuditTypesNow
  <2>6. FilesFit' /\ ArchivesFit'
    BY <1>1, <2>1, <2>3, <2>4 DEF AuditInv, FilesFit, ArchivesFit
  <2>7. RunFits'
    BY <1>1, <2>1, <2>2, <2>3, <2>4 DEF AuditInv, RunFits
  <2>8. archives[n].content = {}  BY <2>1 DEF AuditInv, RunFits
  <2>9. (L!FiledEntriesSurvive)'
    BY <1>1, <2>1, <2>3, <2>4, <2>8 DEF AuditInv, L!FiledEntriesSurvive
  <2> QED  BY <2>5, <2>6, <2>7, <2>9 DEF AuditInv
<1>4. CASE L!Unlink
  <2>1. /\ run.pc = "unlink" /\ run' = [run EXCEPT !.pc = "archive"]
        /\ archives' = archives /\ logs' = [logs EXCEPT ![n] = {}]
    BY <1>4 DEF L!Unlink
  <2>2. run' \in L!Run /\ run'.pc = "archive" /\ run'.todo = run.todo /\ n \notin run.todo
        /\ run.todo \subseteq L!Names /\ \A k \in run.todo : logs[k] # {}
    BY <2>1, RunTypes DEF L!Run, AuditInv, RunFits
  <2>3. /\ logs' \in [L!Names -> SUBSET Calls] /\ logs'[n] = {}
        /\ \A k \in L!Names : k # n => logs'[k] = logs[k]
    BY <1>1, <2>1, RunTypes
  <2>4. AuditTypes'
    BY <1>1, <1>2, <2>1, <2>2, <2>3, RunTypes, AuditTypesNow
  <2>5. Cardinality({}) <= ChunkLines  BY FS_EmptySet, AuditAssumption
  <2>6. FilesFit' /\ ArchivesFit'
    BY <1>1, <2>1, <2>3, <2>5 DEF AuditInv, FilesFit, ArchivesFit
  <2>7. RunFits'  BY <1>1, <2>2, <2>3 DEF RunFits
  <2>8. logs[n] \subseteq archives[n].content /\ archives[n].state = "whole"
    BY <2>1 DEF AuditInv, RunFits
  <2>9. (L!FiledEntriesSurvive)'
    BY <1>1, <2>1, <2>3, <2>8 DEF AuditInv, L!FiledEntriesSurvive
  <2> QED  BY <2>4, <2>6, <2>7, <2>9 DEF AuditInv
<1> QED  BY <1>3, <1>4

\* What is deleted from the archive is past its retention.
LEMMA PurgeStep == ASSUME AuditInv, NEW n \in L!Names, L!Purge(n) PROVE AuditInv'
<1>1. /\ UNCHANGED <<entry, logs, mtime, today, faults, crashes, filed, overtaken>>
      /\ run' \in L!Run /\ run'.pc = "purge"
  BY RunTypes DEF L!Purge, L!Run
<1>2. entry' \in [Calls -> {"none", "check", "insert", "db", "file", "console", "dropped"}]
  BY <1>1 DEF AuditInv, AuditTypes, L!TypeOK
<1>3. CASE UNCHANGED <<archives, purged>>
  BY <1>1, <1>2, <1>3, BetweenFiles, RunTypes
<1>4. CASE /\ archives' = [archives EXCEPT ![n] = L!Nowhere]
           /\ purged' = purged \cup archives[n].content
  <2>1. L!Nowhere \in L!Archive /\ L!Nowhere.content = {}
    BY DEF L!Nowhere, L!Archive
  <2>2. /\ archives' \in [L!Names -> L!Archive] /\ archives'[n] = L!Nowhere
        /\ \A k \in L!Names : k # n => archives'[k] = archives[k]
    BY <1>4, <2>1, RunTypes
  <2>3. purged' \in SUBSET Calls  BY <1>4, RunTypes
  <2>4. AuditTypes'
    BY <1>1, <1>2, <2>2, <2>3, RunTypes, AuditTypesNow
  <2>5. FilesFit' /\ ArchivesFit'
    BY <1>1, <2>1, <2>2 DEF AuditInv, FilesFit, ArchivesFit
  <2>6. RunFits'  BY <1>1 DEF RunFits
  <2>7. (L!FiledEntriesSurvive)'
    BY <1>1, <1>4, <2>2 DEF AuditInv, L!FiledEntriesSurvive
  <2> QED  BY <2>4, <2>5, <2>6, <2>7 DEF AuditInv
<1> QED  BY <1>3, <1>4 DEF L!Purge

\* A large file is a day's file, and all of it is read.
LEMMA StatLargeStep == ASSUME AuditInv, NEW n \in L!Names, L!StatLarge(n) PROVE AuditInv'
<1>1. /\ UNCHANGED <<entry, logs, archives, mtime, filed, purged, overtaken, today, faults, crashes>>
      /\ run' = [run EXCEPT !.todo = @ \ {n}, !.file = n, !.chunk = 0,
                            !.rest = IF L!Large(n) THEN logs[n] ELSE {},
                            !.read = IF L!Large(n) THEN logs[n] ELSE {},
                            !.pc = IF L!Large(n) THEN "write" ELSE "split"]
  BY DEF L!StatLarge, L!files
<1>2. logs[n] \in SUBSET Calls  BY RunTypes
<1>3. run' \in L!Run  BY <1>1, <1>2, RunTypes DEF L!Run
<1>4. entry' \in [Calls -> {"none", "check", "insert", "db", "file", "console", "dropped"}]
  BY <1>1 DEF AuditInv, AuditTypes, L!TypeOK
<1>5. CASE ~L!Large(n)
  <2>1. run'.pc = "split"  BY <1>1, <1>5, RunTypes DEF L!Run
  <2> QED  BY <1>1, <1>3, <1>4, <2>1, BetweenFiles, RunTypes
<1>6. CASE L!Large(n)
  <2>1. /\ run'.pc = "write" /\ run'.file = n /\ run'.chunk = 0
        /\ run'.rest = logs[n] /\ run'.read = logs[n]
    BY <1>1, <1>6, RunTypes DEF L!Run
  <2>2. Cardinality(logs[n]) > MaxLines  BY <1>6, AuditCardinality DEF L!Large
  <2>3. n[2] = 0
    <3>1. n[2] # 0 => Cardinality(logs[n]) <= ChunkLines  BY DEF AuditInv, FilesFit
    <3> QED  BY <1>2, <2>2, <3>1, LogsAreFinite, AuditAssumption
  <2>4. logs[n] # {}  BY <2>2, FS_EmptySet, AuditAssumption
  <2>5. 0 + Cardinality(logs[n]) <= Cardinality(Calls)
    BY <1>2, LogsAreFinite
  <2>6. RunFits'
    BY <1>1, <2>1, <2>3, <2>4, <2>5 DEF RunFits
  <2>7. AuditTypes'
    BY <1>1, <1>3, <1>4, RunTypes, AuditTypesNow
  <2>8. FilesFit' /\ ArchivesFit' /\ (L!FiledEntriesSurvive)'
    BY <1>1 DEF AuditInv, FilesFit, ArchivesFit, L!FiledEntriesSurvive
  <2> QED  BY <2>6, <2>7, <2>8 DEF AuditInv
<1> QED  BY <1>5, <1>6

\* The next lines go to the next chunk, which is not the file they come from; what
\* another split had left in that chunk is lost if it is not among what was read.
LEMMA WriteChunkStep == ASSUME AuditInv, L!WriteChunk PROVE AuditInv'
<1> DEFINE d == run.file[1]
           k == <<d, run.chunk + 1>>
<1>1. PICK X \in L!Lines(run.rest) :
        LET r == IF L!Cardinality(run.rest) <= ChunkLines THEN {} ELSE run.rest \ X
        IN  /\ run.pc = "write"
            /\ logs' = [logs EXCEPT ![k] = X]
            /\ mtime' = [mtime EXCEPT ![k] = today]
            /\ overtaken' = overtaken \cup (logs[k] \ run.read)
            /\ run' = [run EXCEPT !.chunk = @ + 1, !.rest = r,
                                  !.pc = IF r = {} THEN "unlinkSplit" ELSE "write"]
            /\ UNCHANGED <<entry, archives, today, faults, crashes, filed, purged>>
  BY DEF L!WriteChunk
<1> DEFINE r == IF Cardinality(run.rest) <= ChunkLines THEN {} ELSE run.rest \ X
<1>2. /\ run.pc = "write" /\ logs' = [logs EXCEPT ![k] = X]
      /\ mtime' = [mtime EXCEPT ![k] = today]
      /\ overtaken' = overtaken \cup (logs[k] \ run.read)
      /\ run' = [run EXCEPT !.chunk = @ + 1, !.rest = r,
                            !.pc = IF r = {} THEN "unlinkSplit" ELSE "write"]
      /\ UNCHANGED <<entry, archives, today, faults, crashes, filed, purged>>
  BY <1>1, AuditCardinality
<1>3. /\ run.rest \in SUBSET Calls /\ run.rest # {} /\ run.file[2] = 0
      /\ run.read \subseteq logs[run.file] /\ run.chunk \in Nat
      /\ run.chunk + Cardinality(run.rest) <= Cardinality(Calls)
      /\ \A c \in run.read \ run.rest :
            \E j \in 1 .. run.chunk : c \in logs[<<d, j>>]
  BY <1>2, RunTypes DEF AuditInv, RunFits
<1>4. /\ X \in SUBSET run.rest /\ X \in SUBSET Calls
      /\ Cardinality(X) = IF Cardinality(run.rest) < ChunkLines
                          THEN Cardinality(run.rest) ELSE ChunkLines
  BY <1>3, AuditCardinality DEF L!Lines
<1>5. /\ IsFiniteSet(run.rest) /\ Cardinality(run.rest) \in Nat \ {0}
      /\ Cardinality(X) \in Nat /\ Cardinality(X) <= ChunkLines /\ Cardinality(X) >= 1
  BY <1>3, <1>4, LogsAreFinite, FS_EmptySet, AuditAssumption
\* The last chunk takes all the lines that are left.
<1>6. Cardinality(run.rest) <= ChunkLines => X = run.rest
  BY <1>4, <1>5, FS_Subset, AuditAssumption
<1>7. r \in SUBSET Calls /\ run.rest \ r \subseteq X
  BY <1>3, <1>6
<1>8. Cardinality(r) + 1 <= Cardinality(run.rest)
  <2>1. CASE Cardinality(run.rest) <= ChunkLines  BY <1>5, <2>1, FS_EmptySet
  <2>2. CASE ~(Cardinality(run.rest) <= ChunkLines)
    <3>1. Cardinality(run.rest \ X) = Cardinality(run.rest) - Cardinality(run.rest \cap X)
      BY <1>5, FS_Difference
    <3>2. run.rest \cap X = X  BY <1>4
    <3>3. r = run.rest \ X  BY <2>2
    <3> HIDE DEF r
    <3> QED  BY <1>5, <3>1, <3>2, <3>3
  <2> QED  BY <2>1, <2>2
<1>9. /\ k \in L!Names /\ k[1] = d /\ k[2] = run.chunk + 1 /\ k[2] # 0 /\ k # run.file
      /\ \A j \in 1 .. run.chunk : <<d, j>> \in L!Names /\ <<d, j>> # k
  <2>1. d \in 1 .. MaxDays  BY RunTypes, NameFacts
  <2>2. \A j \in 1 .. run.chunk + 1 : j \in 0 .. Cardinality(Calls)
    BY <1>3, <1>5, NameFacts
  <2> QED  BY <1>3, <2>1, <2>2, NameFacts
<1> HIDE DEF r
<1>10. /\ run' \in L!Run /\ run'.file = run.file /\ run'.read = run.read
       /\ run'.chunk = run.chunk + 1 /\ run'.rest = r
       /\ run'.pc = IF r = {} THEN "unlinkSplit" ELSE "write"
  <2> DEFINE l == IF r = {} THEN "unlinkSplit" ELSE "write"
             n == run.chunk + 1
  <2>1. run' = [run EXCEPT !.chunk = n, !.rest = r, !.pc = l]  BY <1>2
  <2>2. l \in {"unlinkSplit", "write"} /\ n \in Nat  BY <1>3
  <2> HIDE DEF l, n
  <2>3. /\ run' \in L!Run /\ run'.file = run.file /\ run'.read = run.read
        /\ run'.chunk = n /\ run'.rest = r /\ run'.pc = l
    BY <1>7, <2>1, <2>2, RunTypes DEF L!Run
  <2> QED  BY <2>3 DEF l, n
<1>11. /\ logs' \in [L!Names -> SUBSET Calls] /\ logs'[k] = X
       /\ \A n \in L!Names : n # k => logs'[n] = logs[n] /\ mtime'[n] = mtime[n]
       /\ mtime' \in [L!Names -> Nat]
  BY <1>2, <1>4, <1>9, RunTypes
<1>12. /\ entry' \in [Calls -> {"none", "check", "insert", "db", "file", "console", "dropped"}]
       /\ overtaken' \in SUBSET Calls
  <2>1. logs[k] \in SUBSET Calls  BY <1>9, RunTypes
  <2>2. overtaken' \in SUBSET Calls  BY <1>2, <2>1, RunTypes
  <2> QED  BY <1>2, <2>2 DEF AuditInv, AuditTypes, L!TypeOK
<1> HIDE DEF d, k
<1>13. AuditTypes'
  BY <1>2, <1>10, <1>11, <1>12, RunTypes, AuditTypesNow
<1>14. FilesFit'
  <2> SUFFICES ASSUME NEW n \in L!Names
               PROVE  /\ n[2] = 0 /\ logs'[n] # {} => mtime'[n] = n[1] /\ n[1] <= today'
                      /\ n[2] # 0 => Cardinality(logs'[n]) <= ChunkLines
    BY DEF FilesFit
  <2>1. CASE n = k  BY <1>5, <1>9, <1>11, <2>1
  <2>2. CASE n # k  BY <1>2, <1>11, <2>2 DEF AuditInv, FilesFit
  <2> QED  BY <2>1, <2>2
<1>15. ArchivesFit'  BY <1>2 DEF AuditInv, ArchivesFit
<1>16. logs'[run.file] = logs[run.file]  BY <1>9, <1>11, RunTypes
<1>17. \A c \in run.read \ r : \E j \in 1 .. run.chunk + 1 : c \in logs'[<<d, j>>]
  <2> SUFFICES ASSUME NEW c \in run.read \ r
               PROVE  \E j \in 1 .. run.chunk + 1 : c \in logs'[<<d, j>>]
    OBVIOUS
  <2>1. CASE c \in run.rest
    <3>1. c \in logs'[<<d, run.chunk + 1>>]  BY <1>7, <1>11, <2>1 DEF k
    <3>2. run.chunk + 1 \in 1 .. run.chunk + 1  BY <1>3
    <3> QED  BY <3>1, <3>2
  <2>2. CASE c \notin run.rest
    <3>1. PICK j \in 1 .. run.chunk : c \in logs[<<d, j>>]  BY <1>3, <2>2 DEF d
    <3>2. c \in logs'[<<d, j>>]  BY <1>9, <1>11, <3>1
    <3>3. j \in 1 .. run.chunk + 1  BY <1>3
    <3> QED  BY <3>2, <3>3
  <2> QED  BY <2>1, <2>2
<1>18. run'.chunk + Cardinality(run'.rest) <= Cardinality(Calls)
  <2>1. Cardinality(r) \in Nat  BY <1>7, LogsAreFinite
  <2> QED  BY <1>3, <1>5, <1>8, <1>10, <2>1, NameFacts
<1>19. RunFits'
  BY <1>3, <1>10, <1>16, <1>17, <1>18 DEF RunFits, d
<1>20. (L!FiledEntriesSurvive)'
  <2> SUFFICES ASSUME NEW c \in filed \ (purged \cup overtaken')
               PROVE  \E n \in L!Names :
                         c \in logs'[n] \/ (archives[n].state = "whole" /\ c \in archives[n].content)
    BY <1>2 DEF L!FiledEntriesSurvive
  <2>1. PICK n \in L!Names :
           c \in logs[n] \/ (archives[n].state = "whole" /\ c \in archives[n].content)
    BY <1>2 DEF AuditInv, L!FiledEntriesSurvive
  <2>2. CASE n = k /\ c \in logs[n]
    <3>1. c \in logs'[run.file]  BY <1>2, <1>3, <1>16, <2>2
    <3> QED  BY <3>1, RunTypes
  <2> QED  BY <1>11, <2>1, <2>2
<1> QED  BY <1>13, <1>14, <1>15, <1>19, <1>20 DEF AuditInv

\* The file that was split goes; all that was read of it is in its chunks.
LEMMA UnlinkSplitStep == ASSUME AuditInv, L!UnlinkSplit PROVE AuditInv'
<1> DEFINE n == run.file
<1>1. /\ run.pc = "unlinkSplit" /\ run' = [run EXCEPT !.pc = "split", !.read = {}]
      /\ overtaken' = overtaken \cup (logs[n] \ run.read)
      /\ logs' = [logs EXCEPT ![n] = {}]
      /\ UNCHANGED <<entry, archives, mtime, today, faults, crashes, filed, purged>>
  BY DEF L!UnlinkSplit
<1>2. run' \in L!Run /\ run'.pc = "split"  BY <1>1, RunTypes DEF L!Run
<1>3. /\ n \in L!Names /\ logs' \in [L!Names -> SUBSET Calls] /\ logs'[n] = {}
      /\ \A j \in L!Names : j # n => logs'[j] = logs[j]
  BY <1>1, RunTypes
<1>4. /\ entry' \in [Calls -> {"none", "check", "insert", "db", "file", "console", "dropped"}]
      /\ overtaken' \in SUBSET Calls
  BY <1>1, RunTypes DEF AuditInv, AuditTypes, L!TypeOK
<1>5. AuditTypes'
  BY <1>1, <1>2, <1>3, <1>4, RunTypes, AuditTypesNow
<1>6. Cardinality({}) <= ChunkLines  BY FS_EmptySet, AuditAssumption
<1>7. FilesFit' /\ ArchivesFit'
  BY <1>1, <1>3, <1>6 DEF AuditInv, FilesFit, ArchivesFit
<1>8. RunFits'  BY <1>2 DEF RunFits
<1>9. /\ n[2] = 0 /\ run.rest = {} /\ run.chunk + Cardinality({}) <= Cardinality(Calls)
      /\ \A c \in run.read : \E j \in 1 .. run.chunk : c \in logs[<<n[1], j>>]
  BY <1>1 DEF AuditInv, RunFits
<1>10. \A j \in 1 .. run.chunk : <<n[1], j>> \in L!Names /\ <<n[1], j>> # n
  <2>1. \A j \in 1 .. run.chunk : j \in 0 .. Cardinality(Calls)
    BY <1>9, FS_EmptySet, RunTypes, NameFacts
  <2> QED  BY <1>3, <1>9, <2>1, NameFacts
<1>11. (L!FiledEntriesSurvive)'
  <2> SUFFICES ASSUME NEW c \in filed \ (purged \cup overtaken')
               PROVE  \E j \in L!Names :
                         c \in logs'[j] \/ (archives[j].state = "whole" /\ c \in archives[j].content)
    BY <1>1 DEF L!FiledEntriesSurvive
  <2>1. PICK j \in L!Names :
           c \in logs[j] \/ (archives[j].state = "whole" /\ c \in archives[j].content)
    BY <1>1 DEF AuditInv, L!FiledEntriesSurvive
  <2>2. CASE j = n /\ c \in logs[j]
    <3>1. c \in run.read  BY <1>1, <2>2
    <3>2. PICK i \in 1 .. run.chunk : c \in logs[<<n[1], i>>]  BY <1>9, <3>1
    <3> QED  BY <1>3, <1>10, <3>2
  <2> QED  BY <1>3, <2>1, <2>2
<1> QED  BY <1>5, <1>7, <1>8, <1>11 DEF AuditInv

LEMMA AuditStep == ASSUME AuditInv, [L!Next]_(L!vars) PROVE AuditInv'
<1>1. CASE \E c \in Calls : L!Log(c) \/ L!TableCheck(c) \/ L!Insert(c)
  BY <1>1, LogStep
<1>2. CASE \E c \in Calls : L!Fallback(c)  BY <1>2, FallbackStep
<1>3. CASE L!Begin \/ L!BeginSplit \/ L!BeginPurge \/ L!End \/ L!FileError \/ L!Crash
  BY <1>3, PhaseStep
<1>4. CASE L!Gzip \/ L!Unlink \/ L!WriteChunk \/ L!UnlinkSplit \/ L!TimePasses
  BY <1>4, ArchiveStep, WriteChunkStep, UnlinkSplitStep, DayStep
<1>5. CASE \E n \in L!Names : L!StatLog(n) \/ L!StatLarge(n) \/ L!Purge(n)
  BY <1>5, StatLogStep, StatLargeStep, PurgeStep
<1>6. CASE UNCHANGED L!vars
  BY <1>6 DEF L!vars, AuditInv, AuditTypes, L!TypeOK, FilesFit, ArchivesFit, RunFits,
              L!FiledEntriesSurvive
<1> QED  BY <1>1, <1>2, <1>3, <1>4, <1>5, <1>6 DEF L!Next, L!Archiver

LEMMA AuditInvariant == L!Spec => []AuditInv
<1>1. ASSUME L!Init PROVE AuditInv
  <2>1. \A n \in L!Names : logs[n] = {} /\ archives[n] = L!Nowhere  BY <1>1 DEF L!Init
  <2>2. L!Nowhere \in L!Archive /\ L!Nowhere.content = {}  BY DEF L!Nowhere, L!Archive
  <2>3. L!TypeOK
    BY <1>1, <2>2, IdleRun DEF L!Init, L!TypeOK
  <2>4. today \in 1 .. MaxDays  BY <1>1, AuditAssumption DEF L!Init
  <2>5. Cardinality({}) <= ChunkLines  BY FS_EmptySet, AuditAssumption
  <2>6. FilesFit /\ ArchivesFit  BY <2>1, <2>2, <2>5 DEF FilesFit, ArchivesFit
  <2>7. RunFits  BY <1>1, IdleRun DEF L!Init, RunFits
  <2>8. L!FiledEntriesSurvive  BY <1>1 DEF L!Init, L!FiledEntriesSurvive
  <2> QED  BY <2>3, <2>4, <2>6, <2>7, <2>8 DEF AuditInv, AuditTypes
<1>2. AuditInv /\ [L!Next]_(L!vars) => AuditInv'  BY AuditStep
<1> QED  BY <1>1, <1>2, PTL DEF L!Spec

\* Every variable of the log keeps its type: the archiver never writes a chunk that has
\* no name, however many entries come.
THEOREM AuditTypeCorrect == L!Spec => []L!TypeOK
<1>1. AuditInv => L!TypeOK  BY DEF AuditInv, AuditTypes
<1> QED  BY <1>1, AuditInvariant, PTL

\* Stopped or failing at any operation, with entries appended at any time, the archiver
\* loses none but those the two defects of a split account for.
THEOREM AuditEntries == L!Spec => []L!FiledEntriesSurvive
<1>1. AuditInv => L!FiledEntriesSurvive  BY DEF AuditInv
<1> QED  BY <1>1, AuditInvariant, PTL

\* The log of the services loses no filed entry that way.
THEOREM EntriesSurvive == Spec => []FiledEntriesSurvive
<1>1. L!FiledEntriesSurvive \/ ~(part = "audit") => FiledEntriesSurvive
  BY DEF FiledEntriesSurvive
<1> QED  BY <1>1, AuditEntries, AuditPart, PTL

-----------------------------------------------------------------------------
(* Snapshots: the newest of a tenant are kept, and not too many of them.   *)

LEMMA SnapshotCardinality == \A X : S!Cardinality(X) = Cardinality(X)
  BY DEF S!Cardinality, Cardinality

\* The snapshots of a tenant that were saved.
Seen(t) == S!SnapshotsOf(t) \cap saved

\* What a call is at while it is suspended at an operation.
JobFits ==
    /\ \A c \in Calls :
        /\ job[c].op = "create" =>
              job[c].tenant \in Registered /\ job[c].stamp < clock /\ job[c].pc # "idle"
        /\ job[c].pc \in {"encrypt", "write", "writing", "cleanup"} => job[c].op = "create"
        /\ job[c].pc \in {"read", "decrypt", "unlink"} =>
              job[c].op # "create" /\ job[c].target \in Calls
        /\ job[c].pc # "done" => job[c].res = "none"
        /\ job[c].names \subseteq S!SnapshotsOf(job[c].tenant)
        /\ job[c].found \subseteq Seen(job[c].tenant)
    /\ \A c, d \in Calls :
          /\ job[c].op = "create" /\ job[d].op = "create" /\ job[c].stamp = job[d].stamp
          => c = d

\* What is in a file was saved by a creation, which has gone on to clean up.
SavedFit == \A c \in Calls :
    /\ c \in saved => /\ job[c].op = "create"
                      /\ job[c].pc \in {"readdir", "readFiles", "cleanup", "done"}
    /\ file[c] = "whole" => c \in saved

\* A snapshot that a clean-up may delete: past its retention, or with as many newer
\* ones saved as a tenant may have.
Due(s) ==
    \/ S!Expired(s)
    \/ Cardinality({n \in S!SnapshotsOf(job[s].tenant) \cap saved :
                       job[n].stamp > job[s].stamp}) >= MaxSnapshots

\* Clean-ups hold only what may be deleted, and that will stay so however stale the
\* list: whatever else is saved is there unless it was removed on request.
CleanUpsFit ==
    /\ \A c \in Calls : job[c].pc = "cleanup" =>
          \A i \in 1 .. Len(job[c].todo) :
             job[job[c].todo[i]].op = "create" /\ Due(job[c].todo[i])
    /\ \A s \in saved \ removed : file[s] # "whole" => Due(s)

InList(l) == {l[i] : i \in 1 .. Len(l)}
Kept(t)   == {s \in S!SnapshotsOf(t) : file[s] = "whole"}

\* A creation answers for a set of snapshots: it has yet to look, a file error cut its
\* listing short, it has read each or is yet to read it, has all but the limit on its
\* list, is done with it, or failed.
AnswersFor(c, X) ==
    \/ job[c].pc = "readdir"
    \/ job[c].pc \in {"readFiles", "cleanup", "done"} /\ c \in partial
    \/ job[c].pc = "readFiles" /\ X \subseteq job[c].names \cup job[c].found
    \/ job[c].pc = "cleanup" /\ Cardinality(X \ InList(job[c].todo)) <= MaxSnapshots
    \/ job[c].pc = "done" /\ (job[c].res = "ok" => Cardinality(X) <= MaxSnapshots)

\* Of the snapshots of any set that are there one, the last to look, answers for all.
Answered == \A t \in Registered : \A X \in SUBSET Kept(t) :
    X # {} => \E c \in X : AnswersFor(c, X)

SnapshotsInv == S!TypeOK /\ JobFits /\ SavedFit /\ CleanUpsFit /\ Answered

\* Snapshots of different stamps, so that they have an order.
Ordered(X) ==
    /\ X \in SUBSET Calls
    /\ \A x \in X : job[x].stamp \in Nat
    /\ \A x, y \in X : job[x].stamp = job[y].stamp => x = y

Rank(X, x) == S!Cardinality(S!Newer(X, x))

LEMMA FiniteSnapshots ==
    ASSUME NEW X \in SUBSET Calls
    PROVE  IsFiniteSet(X) /\ Cardinality(X) \in Nat
  BY CallsAssumption, FS_Subset, FS_CardinalityType

LEMMA SmallerSets ==
    ASSUME NEW X \in SUBSET Calls, NEW Y \in SUBSET X
    PROVE  Cardinality(Y) \in Nat /\ Cardinality(X) \in Nat
           /\ Cardinality(Y) <= Cardinality(X)
  BY FiniteSnapshots, FS_Subset

\* The number of newer ones tells the snapshots of a set apart, and is below its size.
LEMMA RanksDiffer ==
    ASSUME NEW X, Ordered(X)
    PROVE  /\ \A x \in X : Rank(X, x) \in 0 .. Cardinality(X) - 1
           /\ \A x, y \in X : Rank(X, x) = Rank(X, y) => x = y
<1>1. X \in SUBSET Calls  BY DEF Ordered
<1>2. ASSUME NEW x \in X PROVE Rank(X, x) \in 0 .. Cardinality(X) - 1
  <2> DEFINE W == S!Newer(X, x)
  <2>1. W \subseteq X \ {x}  BY DEF S!Newer, Ordered
  <2>2. IsFiniteSet(X) /\ Cardinality(X) \in Nat  BY <1>1, FiniteSnapshots
  <2>3. IsFiniteSet(X \ {x}) /\ Cardinality(X \ {x}) = Cardinality(X) - 1
    BY <2>2, FS_RemoveElement
  <2>4. IsFiniteSet(W) /\ Cardinality(W) <= Cardinality(X \ {x})  BY <2>1, <2>3, FS_Subset
  <2>5. Cardinality(W) \in Nat  BY <2>4, FS_CardinalityType
  <2> HIDE DEF W
  <2>6. Rank(X, x) = Cardinality(W)  BY SnapshotCardinality DEF Rank, W
  <2> QED  BY <2>2, <2>3, <2>4, <2>5, <2>6
<1>3. ASSUME NEW x \in X, NEW y \in X, job[x].stamp > job[y].stamp
      PROVE  Rank(X, x) < Rank(X, y)
  <2> DEFINE W == S!Newer(X, x)
  <2> DEFINE V == S!Newer(X, y)
  <2>1. W \cup {x} \subseteq V /\ x \notin W /\ V \subseteq X
    BY <1>3, SMT DEF S!Newer, Ordered
  <2>2. W \in SUBSET Calls /\ V \in SUBSET Calls  BY <1>1, <2>1
  <2>3. IsFiniteSet(W) /\ IsFiniteSet(V) /\ Cardinality(W) \in Nat /\ Cardinality(V) \in Nat
    BY <2>2, FiniteSnapshots
  <2>4. Cardinality(W \cup {x}) = Cardinality(W) + 1  BY <2>1, <2>3, FS_AddElement
  <2>5. Cardinality(W \cup {x}) <= Cardinality(V)  BY <2>1, <2>3, FS_Subset
  <2> HIDE DEF W, V
  <2>6. Rank(X, x) = Cardinality(W) /\ Rank(X, y) = Cardinality(V)
    BY SnapshotCardinality DEF Rank, W, V
  <2> QED  BY <2>3, <2>4, <2>5, <2>6
<1>4. ASSUME NEW x \in X, NEW y \in X, Rank(X, x) = Rank(X, y) PROVE x = y
  <2>1. job[x].stamp \in Nat /\ job[y].stamp \in Nat
        /\ (job[x].stamp = job[y].stamp => x = y)  BY DEF Ordered
  <2>2. Rank(X, x) \in Nat /\ Rank(X, y) \in Nat  BY <1>2
  <2>3. ~(job[x].stamp > job[y].stamp)  BY <1>3, <1>4, <2>2
  <2>4. ~(job[y].stamp > job[x].stamp)  BY <1>3, <1>4, <2>2
  <2> QED  BY <2>1, <2>3, <2>4
<1> QED  BY <1>2, <1>4

\* Every number below its size is that of one.
LEMMA RanksReach ==
    ASSUME NEW X, Ordered(X), NEW i \in 1 .. Cardinality(X)
    PROVE  \E x \in X : Rank(X, x) = i - 1
<1> DEFINE n == Cardinality(X)
<1> DEFINE f == [x \in X |-> Rank(X, x) + 1]
<1>1. IsFiniteSet(X) /\ n \in Nat  BY FiniteSnapshots DEF Ordered
<1>2. IsFiniteSet(1 .. n) /\ Cardinality(1 .. n) = n
  <2>1. IsFiniteSet(1 .. n) /\ Cardinality(1 .. n) = IF 1 > n THEN 0 ELSE n - 1 + 1
    BY <1>1, FS_Interval
  <2> QED  BY <1>1, <2>1
<1>3. f \in Injection(X, 1 .. n)
  <2> HIDE DEF n
  <2>1. \A x \in X : Rank(X, x) \in 0 .. n - 1  BY RanksDiffer DEF n
  <2>2. \A x \in X : Rank(X, x) + 1 \in 1 .. n  BY <1>1, <2>1
  <2>3. f \in [X -> 1 .. n]  BY <2>2
  <2>4. ASSUME NEW x \in X, NEW y \in X, f[x] = f[y] PROVE x = y
    <3>1. Rank(X, x) + 1 = Rank(X, y) + 1  BY <2>4
    <3>2. Rank(X, x) = Rank(X, y)  BY <3>1, <2>1
    <3> QED  BY <3>2, RanksDiffer
  <2> QED  BY <2>3, <2>4 DEF Injection, IsInjective
<1> HIDE DEF f
<1>4. f \in Surjection(X, 1 .. n)  BY <1>1, <1>2, <1>3, FS_Injection
<1>5. PICK x \in X : f[x] = i  BY <1>4 DEF Surjection
<1>6. Rank(X, x) \in Int  BY RanksDiffer, <1>1
<1>7. f[x] = Rank(X, x) + 1  BY DEF f
<1> QED  BY <1>5, <1>6, <1>7

\* getSnapshotsForTenant: a sequence of all the snapshots, the i-th with i - 1 newer.
LEMMA NewestFirstFacts ==
    ASSUME NEW X, Ordered(X)
    PROVE  /\ S!NewestFirst(X) \in Seq(X) /\ S!NewestFirst(X) \in Seq(Calls)
           /\ Len(S!NewestFirst(X)) = Cardinality(X)
           /\ \A i \in 1 .. Cardinality(X) :
                 S!NewestFirst(X)[i] \in X /\ Rank(X, S!NewestFirst(X)[i]) = i - 1
<1> DEFINE n == Cardinality(X)
<1> DEFINE l == S!NewestFirst(X)
<1>1. IsFiniteSet(X) /\ n \in Nat /\ X \subseteq Calls  BY FiniteSnapshots DEF Ordered
<1>2. l = [i \in 1 .. n |-> CHOOSE x \in X : Rank(X, x) = i - 1]
  BY SnapshotCardinality DEF S!NewestFirst, Rank
<1> HIDE DEF l
<1>3. \A i \in 1 .. n : l[i] \in X /\ Rank(X, l[i]) = i - 1
  <2> SUFFICES ASSUME NEW i \in 1 .. n PROVE l[i] \in X /\ Rank(X, l[i]) = i - 1
    OBVIOUS
  <2>1. l[i] = CHOOSE x \in X : Rank(X, x) = i - 1  BY <1>2
  <2>2. \E x \in X : Rank(X, x) = i - 1  BY RanksReach
  <2> QED  BY <2>1, <2>2
<1> HIDE DEF n
<1>4. l \in [1 .. n -> X] /\ l \in [1 .. n -> Calls]
  <2>1. l = [i \in 1 .. n |-> l[i]]  BY <1>2
  <2> QED  BY <1>1, <1>3, <2>1
<1>5. l \in Seq(X) /\ l \in Seq(Calls)  BY <1>1, <1>4, SeqDef
<1>6. Len(l) = n  BY <1>1, <1>2, <1>5, LenProperties
<1> QED  BY <1>3, <1>5, <1>6 DEF l, n

\* cleanupOldSnapshots: each on the list is expired or has the limit of newer ones
\* beside it, and of all but the limit each is on the list.
LEMMA DoomedFacts ==
    ASSUME NEW X, Ordered(X)
    PROVE  /\ S!Doomed(X) \in Seq(Calls)
           /\ \A i \in 1 .. Len(S!Doomed(X)) :
                 /\ S!Doomed(X)[i] \in X
                 /\ S!Expired(S!Doomed(X)[i]) \/ Rank(X, S!Doomed(X)[i]) >= MaxSnapshots
           /\ Cardinality(X \ InList(S!Doomed(X))) <= MaxSnapshots
<1> DEFINE n == Cardinality(X)
<1> DEFINE old == {s \in X : S!Expired(s)}
<1> DEFINE l1 == S!NewestFirst(old)
<1> DEFINE l == S!NewestFirst(X)
<1> DEFINE l2 == SubSeq(l, MaxSnapshots + 1, n)
<1>1. IsFiniteSet(X) /\ n \in Nat /\ X \subseteq Calls /\ MaxSnapshots \in Nat
  BY FiniteSnapshots, SnapshotsAssumption DEF Ordered
<1>2. Ordered(old)  BY DEF Ordered
<1>3. S!Doomed(X) = l1 \o l2  BY SnapshotCardinality DEF S!Doomed
<1>4. l1 \in Seq(Calls) /\ l1 \in Seq(X) /\ \A i \in 1 .. Len(l1) : l1[i] \in old
  <2> HIDE DEF old
  <2>1. /\ l1 \in Seq(Calls) /\ l1 \in Seq(old) /\ Len(l1) = Cardinality(old)
        /\ \A i \in 1 .. Cardinality(old) : l1[i] \in old
    BY <1>2, NewestFirstFacts
  <2>2. old \subseteq X  BY DEF old
  <2>3. l1 \in Seq(X)  BY <2>1, <2>2, SeqMonotonic
  <2> QED  BY <2>1, <2>3
<1>5. /\ l \in Seq(X) /\ Len(l) = n
      /\ \A i \in 1 .. n : l[i] \in X /\ Rank(X, l[i]) = i - 1
  BY NewestFirstFacts
<1> HIDE DEF l, n, l1, old
<1>6. /\ l2 \in Seq(X) /\ l2 \in Seq(Calls)
      /\ Len(l2) = IF MaxSnapshots + 1 <= n THEN n - (MaxSnapshots + 1) + 1 ELSE 0
      /\ \A i \in 1 .. n - (MaxSnapshots + 1) + 1 : l2[i] = l[MaxSnapshots + 1 + i - 1]
  <2>1. \A i \in MaxSnapshots + 1 .. n : l[i] \in X /\ l[i] \in Calls  BY <1>1, <1>5
  <2>2. /\ l2 \in Seq(X)
        /\ Len(l2) = IF MaxSnapshots + 1 <= n THEN n - (MaxSnapshots + 1) + 1 ELSE 0
        /\ \A i \in 1 .. n - (MaxSnapshots + 1) + 1 : l2[i] = l[MaxSnapshots + 1 + i - 1]
    BY <1>1, <2>1, SubSeqProperties
  <2> QED  BY <1>1, <2>2, SeqMonotonic
<1> HIDE DEF l2
<1>7. /\ l1 \o l2 \in Seq(Calls) /\ Len(l1 \o l2) = Len(l1) + Len(l2)
      /\ \A i \in 1 .. Len(l1) + Len(l2) :
            (l1 \o l2)[i] = IF i <= Len(l1) THEN l1[i] ELSE l2[i - Len(l1)]
      /\ Len(l1) \in Nat /\ Len(l2) \in Nat
  BY <1>4, <1>6, ConcatProperties, LenProperties
<1>8. ASSUME NEW i \in 1 .. Len(l2)
      PROVE  l2[i] \in X /\ Rank(X, l2[i]) >= MaxSnapshots
  <2> DEFINE k == MaxSnapshots + i
  <2>1. i \in 1 .. n - (MaxSnapshots + 1) + 1  BY <1>1, <1>6
  <2>2. l2[i] = l[k] /\ k \in 1 .. n /\ k - 1 >= MaxSnapshots  BY <1>1, <1>6, <2>1
  <2> HIDE DEF k
  <2>3. l[k] \in X /\ Rank(X, l[k]) = k - 1  BY <1>5, <2>2
  <2> QED  BY <2>2, <2>3
<1>9. ASSUME NEW i \in 1 .. Len(l1 \o l2)
      PROVE  /\ (l1 \o l2)[i] \in X
             /\ S!Expired((l1 \o l2)[i]) \/ Rank(X, (l1 \o l2)[i]) >= MaxSnapshots
  <2>1. CASE i <= Len(l1)
    <3>1. i \in 1 .. Len(l1) /\ (l1 \o l2)[i] = l1[i]  BY <1>7, <2>1
    <3>2. l1[i] \in old  BY <1>4, <3>1
    <3> QED  BY <3>1, <3>2 DEF old
  <2>2. CASE ~(i <= Len(l1))
    <3>1. i - Len(l1) \in 1 .. Len(l2) /\ (l1 \o l2)[i] = l2[i - Len(l1)]  BY <1>7, <2>2
    <3> QED  BY <1>8, <3>1
  <2> QED  BY <2>1, <2>2
<1>10. Cardinality(X \ InList(l1 \o l2)) <= MaxSnapshots
  <2> DEFINE Y == X \ InList(l1 \o l2)
  <2>1. ASSUME NEW x \in Y PROVE Rank(X, x) \in 0 .. MaxSnapshots - 1
    <3>1. x \in X /\ Rank(X, x) \in 0 .. n - 1  BY RanksDiffer DEF n
    <3>2. SUFFICES ASSUME Rank(X, x) >= MaxSnapshots PROVE FALSE  BY <1>1, <3>1
    <3> DEFINE k == Rank(X, x) - MaxSnapshots + 1
    <3>3. k \in 1 .. n - (MaxSnapshots + 1) + 1 /\ k \in 1 .. Len(l2)
      BY <1>1, <1>6, <3>1, <3>2
    <3> DEFINE m == Rank(X, x) + 1
    <3>4. l2[k] = l[m] /\ m \in 1 .. n /\ m - 1 = Rank(X, x)
      <4>1. m \in 1 .. n /\ m - 1 = Rank(X, x) /\ MaxSnapshots + 1 + k - 1 = m
        BY <1>1, <3>1
      <4>2. l2[k] = l[MaxSnapshots + 1 + k - 1]  BY <1>6, <3>3
      <4> QED  BY <4>1, <4>2
    <3> HIDE DEF m
    <3>5. Rank(X, l[m]) = m - 1 /\ l[m] \in X  BY <1>5, <3>4
    <3>6. l[m] = x  BY <3>1, <3>4, <3>5, RanksDiffer
    <3> HIDE DEF k
    <3> DEFINE j == Len(l1) + k
    <3>7. j \in 1 .. Len(l1) + Len(l2) /\ ~(j <= Len(l1)) /\ j - Len(l1) = k
      BY <1>7, <3>3
    <3> HIDE DEF j
    <3>8. (l1 \o l2)[j] = l2[k]  BY <1>7, <3>7
    <3>9. j \in 1 .. Len(l1 \o l2) /\ (l1 \o l2)[j] = x  BY <1>7, <3>4, <3>6, <3>7, <3>8
    <3> QED  BY <3>9 DEF InList
  <2> DEFINE f == [x \in Y |-> Rank(X, x)]
  <2>2. f \in Injection(Y, 0 .. MaxSnapshots - 1)
    <3>1. f \in [Y -> 0 .. MaxSnapshots - 1]  BY <2>1
    <3>2. \A x, y \in Y : f[x] = f[y] => x = y  BY RanksDiffer
    <3> QED  BY <3>1, <3>2 DEF Injection, IsInjective
  <2>3. IsFiniteSet(0 .. MaxSnapshots - 1) /\ Cardinality(0 .. MaxSnapshots - 1) = MaxSnapshots
    <3>1. /\ IsFiniteSet(0 .. MaxSnapshots - 1)
          /\ Cardinality(0 .. MaxSnapshots - 1) =
                IF 0 > MaxSnapshots - 1 THEN 0 ELSE MaxSnapshots - 1 - 0 + 1
      BY <1>1, FS_Interval
    <3> QED  BY <1>1, <3>1
  <2> HIDE DEF f, Y
  <2>4. Cardinality(Y) <= MaxSnapshots  BY <2>2, <2>3, FS_Injection
  <2> QED  BY <2>4 DEF Y
<1> QED  BY <1>3, <1>7, <1>9, <1>10

\* What a creation is of and when it was made never change.
Persist == \A s \in Calls : job[s].op = "create" =>
    job'[s].op = "create" /\ job'[s].tenant = job[s].tenant /\ job'[s].stamp = job[s].stamp

LEMMA SnapshotTypes ==
    ASSUME SnapshotsInv
    PROVE  /\ file \in [Calls -> {"absent", "torn", "whole"}] /\ home \in [Calls -> Nat]
           /\ job \in [Calls -> S!Call] /\ \A c \in Calls : job[c] \in S!Call
           /\ \A c \in Calls : /\ job[c].stamp \in Nat /\ job[c].names \subseteq Calls
                               /\ job[c].found \subseteq Calls
                               /\ job[c].todo \in Seq(Calls)
                               /\ job[c].action \in Actions \cup {NoAction}
           /\ clock \in Nat /\ horizon \in Nat /\ life \in Nat /\ faults \in Nat
           /\ saved \subseteq Calls /\ removed \subseteq Calls /\ partial \subseteq Calls
<1>1. /\ file \in [Calls -> {"absent", "torn", "whole"}] /\ home \in [Calls -> Nat]
      /\ job \in [Calls -> S!Call]
      /\ clock \in Nat /\ horizon \in Nat /\ life \in Nat /\ faults \in Nat
      /\ saved \subseteq Calls /\ removed \subseteq Calls /\ partial \subseteq Calls
  BY DEF SnapshotsInv, S!TypeOK
<1> QED  BY <1>1 DEF S!Call

\* A snapshot that may be deleted may be deleted from then on.
LEMMA DueStays ==
    ASSUME SnapshotsInv, (S!TypeOK)', Persist, saved \subseteq saved', horizon <= horizon',
           NEW s \in Calls, job[s].op = "create", Due(s)
    PROVE  Due(s)'
<1>1. job[s].stamp \in Nat /\ job'[s].stamp = job[s].stamp /\ job'[s].tenant = job[s].tenant
  BY SnapshotTypes DEF Persist
<1>2. horizon \in Nat /\ horizon' \in Nat /\ saved \subseteq Calls /\ saved' \subseteq Calls
  BY SnapshotTypes DEF S!TypeOK
<1>3. CASE S!Expired(s)  BY <1>1, <1>2, <1>3 DEF Due, S!Expired
<1>4. CASE ~S!Expired(s)
  <2> DEFINE X == {n \in S!SnapshotsOf(job[s].tenant) \cap saved : job[n].stamp > job[s].stamp}
  <2> DEFINE Y == {n \in (S!SnapshotsOf(job[s].tenant))' \cap saved' :
                      job'[n].stamp > job'[s].stamp}
  <2>1. X \subseteq Y  BY <1>1 DEF Persist, S!SnapshotsOf
  <2>2. Y \in SUBSET Calls  BY DEF S!SnapshotsOf
  <2>3. Cardinality(X) >= MaxSnapshots  BY <1>4 DEF Due
  <2>4. /\ Cardinality(X) \in Nat /\ Cardinality(Y) \in Nat
        /\ Cardinality(X) <= Cardinality(Y)
    BY <2>1, <2>2, SmallerSets
  <2> HIDE DEF X
  <2>5. Cardinality(Y) >= MaxSnapshots  BY <2>3, <2>4, SnapshotsAssumption
  <2> QED  BY <2>5 DEF Due
<1> QED  BY <1>3, <1>4

\* What a step has to show.
LEMMA SnapshotsStep ==
    ASSUME SnapshotsInv, (S!TypeOK)', JobFits', SavedFit', Persist,
           saved \subseteq saved', horizon <= horizon',
           \A c \in Calls : job'[c].pc = "cleanup" => \A i \in 1 .. Len(job'[c].todo) :
              /\ job[job'[c].todo[i]].op = "create" /\ job'[c].todo[i] \in Calls
              /\ Due(job'[c].todo[i]),
           \A s \in saved' \ removed' : file'[s] # "whole" =>
              \/ s \in saved \ removed /\ file[s] # "whole"
              \/ job[s].op = "create" /\ Due(s),
           \A s \in Calls : file'[s] = "whole" => file[s] = "whole" \/ job'[s].pc = "readdir",
           \A c \in Calls : \A X \in SUBSET Calls :
              /\ job[c].op = "create" /\ X \subseteq Kept(job[c].tenant)' /\ AnswersFor(c, X)
              => AnswersFor(c, X)'
    PROVE  SnapshotsInv'
<1>1. CleanUpsFit'
  <2>1. ASSUME NEW c \in Calls, job'[c].pc = "cleanup", NEW i \in 1 .. Len(job'[c].todo)
        PROVE  job'[job'[c].todo[i]].op = "create" /\ (Due(job[c].todo[i]))'
    <3>1. PICK s \in Calls : s = job'[c].todo[i]  BY <2>1
    <3>2. job[s].op = "create" /\ Due(s)  BY <2>1, <3>1
    <3>3. job'[s].op = "create" /\ Due(s)'  BY <3>2, DueStays DEF Persist
    <3> QED  BY <3>1, <3>3, Zenon
  <2>2. ASSUME NEW s \in saved' \ removed', file'[s] # "whole" PROVE Due(s)'
    <3>1. \/ s \in saved \ removed /\ file[s] # "whole"
          \/ job[s].op = "create" /\ Due(s)  BY <2>2
    <3>2. s \in Calls  BY DEF S!TypeOK
    <3>3. job[s].op = "create" /\ Due(s)
      BY <3>1, <3>2 DEF SnapshotsInv, SavedFit, CleanUpsFit
    <3> QED  BY <3>2, <3>3, DueStays
  <2> QED  BY <2>1, <2>2 DEF CleanUpsFit
<1>2. Answered'
  <2>1. SUFFICES ASSUME NEW t \in Registered, NEW X \in SUBSET (Kept(t))', X # {}
                 PROVE  \E c \in X : AnswersFor(c, X)'
    BY DEF Answered
  <2>2. X \in SUBSET Calls  BY DEF Kept, S!SnapshotsOf
  <2>3. CASE \E c \in X : job'[c].pc = "readdir"  BY <2>3 DEF AnswersFor
  <2>4. CASE ~\E c \in X : job'[c].pc = "readdir"
    <3>1. ASSUME NEW s \in X PROVE s \in Kept(t)
      <4>1. s \in Calls /\ file'[s] = "whole" /\ job'[s].tenant = t
        BY DEF Kept, S!SnapshotsOf
      <4>2. file[s] = "whole"  BY <2>4, <4>1
      <4>3. job[s].op = "create"  BY <4>1, <4>2 DEF SnapshotsInv, SavedFit
      <4>4. job[s].tenant = t  BY <4>1, <4>3 DEF Persist
      <4> QED  BY <4>1, <4>2, <4>3, <4>4 DEF Kept, S!SnapshotsOf
    <3>2. PICK c \in X : AnswersFor(c, X)  BY <2>1, <3>1 DEF SnapshotsInv, Answered
    <3>3. c \in Calls /\ job[c].op = "create" /\ job[c].tenant = t
      BY <3>1 DEF Kept, S!SnapshotsOf
    <3>4. X \subseteq Kept(job[c].tenant)'
      <4>1. job'[c].tenant = t /\ t = job[c].tenant  BY <3>3 DEF Persist
      <4> QED  BY <2>1, <3>3, Zenon DEF Kept, S!SnapshotsOf
    <3> QED  BY <2>2, <3>2, <3>3, <3>4
  <2> QED  BY <2>3, <2>4
<1> QED  BY <1>1, <1>2 DEF SnapshotsInv

\* A step of one call that stays what it is.
Moves(c) ==
    /\ \A d \in Calls \ {c} : job'[d] = job[d]
    /\ job'[c].op = job[c].op /\ job'[c].tenant = job[c].tenant
    /\ job'[c].stamp = job[c].stamp /\ clock' = clock
    /\ job'[c].pc # "done" => job'[c].res = "none"
    /\ job'[c].names \subseteq job[c].names \cup S!SnapshotsOf(job[c].tenant)
    /\ job'[c].found \subseteq job[c].found \cup Seen(job[c].tenant)

LEMMA MovesFit ==
    ASSUME SnapshotsInv, NEW c \in Calls, Moves(c), saved \subseteq saved',
           job'[c].op = "create" => job'[c].pc # "idle",
           job'[c].pc \in {"encrypt", "write", "writing", "cleanup"} => job'[c].op = "create",
           job'[c].pc \in {"read", "decrypt", "unlink"} =>
              job'[c].op # "create" /\ job'[c].target \in Calls
    PROVE  Persist /\ JobFits'
<1>1. Persist  BY DEF Moves, Persist
<1>2. \A d \in Calls : job'[d].op = job[d].op /\ job'[d].tenant = job[d].tenant
                       /\ job'[d].stamp = job[d].stamp
  BY DEF Moves
<1>3. \A t : (S!SnapshotsOf(t))' = S!SnapshotsOf(t)  BY <1>2 DEF S!SnapshotsOf
<1>4. \A d \in Calls :
        /\ job'[d].op = "create" =>
              job'[d].tenant \in Registered /\ job'[d].stamp < clock' /\ job'[d].pc # "idle"
        /\ job'[d].pc \in {"encrypt", "write", "writing", "cleanup"} => job'[d].op = "create"
        /\ job'[d].pc \in {"read", "decrypt", "unlink"} =>
              job'[d].op # "create" /\ job'[d].target \in Calls
        /\ job'[d].pc # "done" => job'[d].res = "none"
        /\ job'[d].names \subseteq (S!SnapshotsOf(job[d].tenant))'
        /\ job'[d].found \subseteq (Seen(job[d].tenant))'
  <2>1. SUFFICES ASSUME NEW d \in Calls
        PROVE
        /\ job'[d].op = "create" =>
              job'[d].tenant \in Registered /\ job'[d].stamp < clock' /\ job'[d].pc # "idle"
        /\ job'[d].pc \in {"encrypt", "write", "writing", "cleanup"} => job'[d].op = "create"
        /\ job'[d].pc \in {"read", "decrypt", "unlink"} =>
              job'[d].op # "create" /\ job'[d].target \in Calls
        /\ job'[d].pc # "done" => job'[d].res = "none"
        /\ job'[d].names \subseteq (S!SnapshotsOf(job[d].tenant))'
        /\ job'[d].found \subseteq (Seen(job[d].tenant))'
    OBVIOUS
  <2>2. job'[d].names \subseteq S!SnapshotsOf(job[d].tenant)
    BY DEF SnapshotsInv, JobFits, Moves
  <2>3. (S!SnapshotsOf(job[d].tenant))' = S!SnapshotsOf(job[d].tenant)
    BY <1>2 DEF S!SnapshotsOf
  <2>4. job'[d].found \subseteq Seen(job[d].tenant)
    BY DEF SnapshotsInv, JobFits, Moves
  <2>5. job'[d].found \subseteq (Seen(job[d].tenant))'
    BY <2>3, <2>4 DEF Seen
  <2> QED  BY <1>2, <2>2, <2>3, <2>5 DEF SnapshotsInv, JobFits, Moves
<1>5. ASSUME NEW d \in Calls, NEW e \in Calls,
             job'[d].op = "create", job'[e].op = "create", job'[d].stamp = job'[e].stamp
      PROVE  d = e
  BY <1>2, <1>5 DEF SnapshotsInv, JobFits
<1>6. JobFits'  BY <1>4, <1>5 DEF JobFits
<1> QED  BY <1>1, <1>6

\* Most steps change no file.
LEMMA QuietJobStep ==
    ASSUME SnapshotsInv, (S!TypeOK)', JobFits', NEW c \in Calls, Persist,
           \A d \in Calls \ {c} : job'[d] = job[d],
           UNCHANGED <<file, saved, removed>>, horizon' = horizon, partial \subseteq partial',
           job'[c].pc = "cleanup" => \A i \in 1 .. Len(job'[c].todo) :
              /\ job[job'[c].todo[i]].op = "create" /\ job'[c].todo[i] \in Calls
              /\ Due(job'[c].todo[i]),
           job[c].op = "create" =>
              /\ job[c].pc \in {"readdir", "readFiles", "cleanup", "done"} =>
                    job'[c].pc \in {"readdir", "readFiles", "cleanup", "done"}
              /\ \A X \in SUBSET Kept(job[c].tenant) :
                    AnswersFor(c, X) => AnswersFor(c, X)'
    PROVE  SnapshotsInv'
<1>1. SavedFit'
  <2>1. SUFFICES ASSUME NEW d \in Calls, d \in saved
                 PROVE  /\ job'[d].op = "create"
                        /\ job'[d].pc \in {"readdir", "readFiles", "cleanup", "done"}
    BY DEF SavedFit, SnapshotsInv
  <2>2. job[d].op = "create" /\ job[d].pc \in {"readdir", "readFiles", "cleanup", "done"}
    BY <2>1 DEF SnapshotsInv, SavedFit
  <2> QED  BY <2>2 DEF Persist
<1>2. saved \subseteq saved' /\ horizon <= horizon'  BY SnapshotTypes
<1>3. ASSUME NEW d \in Calls, job'[d].pc = "cleanup", NEW i \in 1 .. Len(job'[d].todo)
      PROVE  /\ job[job'[d].todo[i]].op = "create" /\ job'[d].todo[i] \in Calls
             /\ Due(job'[d].todo[i])
  <2>1. CASE d = c  BY <1>3, <2>1
  <2>2. CASE d # c
    <3>1. job'[d] = job[d]  BY <2>2
    <3>2. job[d].todo[i] \in Calls  BY <1>3, <3>1, SnapshotTypes, ElementOfSeq
    <3>3. job[job[d].todo[i]].op = "create" /\ Due(job[d].todo[i])
      BY <1>3, <3>1 DEF SnapshotsInv, CleanUpsFit
    <3> QED  BY <3>1, <3>2, <3>3
  <2> QED  BY <2>1, <2>2
<1>4. ASSUME NEW d \in Calls, NEW X \in SUBSET Calls,
             job[d].op = "create", X \subseteq Kept(job[d].tenant)', AnswersFor(d, X)
      PROVE  AnswersFor(d, X)'
  <2>1. CASE d # c
    <3>1. job'[d] = job[d]  BY <2>1
    <3> QED  BY <1>4, <3>1 DEF AnswersFor
  <2>2. CASE d = c
    <3>1. ASSUME NEW s \in X PROVE s \in Kept(job[d].tenant)
      <4>1. s \in Calls /\ file[s] = "whole" /\ job'[s].tenant = job'[d].tenant
        BY <1>4 DEF Kept, S!SnapshotsOf
      <4>2. job[s].op = "create"  BY <4>1 DEF SnapshotsInv, SavedFit
      <4>3. job[s].tenant = job[d].tenant  BY <1>4, <4>1, <4>2 DEF Persist
      <4> QED  BY <4>1, <4>2, <4>3 DEF Kept, S!SnapshotsOf
    <3> QED  BY <1>4, <2>2, <3>1
  <2> QED  BY <2>1, <2>2
<1> QED
  BY <1>1, <1>2, <1>3, <1>4, SnapshotsStep DEF SnapshotsInv, CleanUpsFit

\* A call that begins was none before.
LEMMA BeginFits ==
    ASSUME SnapshotsInv, NEW c \in Calls, job[c].pc = "idle", NEW r \in S!Call,
           job' = [job EXCEPT ![c] = r], UNCHANGED <<file, home, horizon, life, faults, saved, removed, partial>>,
           clock' \in Nat, clock' >= clock, r.res = "none", r.names = {}, r.found = {},
           \/ r.pc = "readdir" /\ r.op # "create"
           \/ r.pc = "read" /\ r.op # "create" /\ r.target \in Calls
           \/ /\ r.pc = "encrypt" /\ r.op = "create" /\ r.tenant \in Registered
              /\ r.stamp = clock /\ clock' = clock + 1
    PROVE  SnapshotsInv'
<1>1. job[c].op # "create" /\ c \notin saved /\ file[c] # "whole"
  BY DEF SnapshotsInv, JobFits, SavedFit
<1>2. /\ job' \in [Calls -> S!Call] /\ job'[c] = r
      /\ \A d \in Calls \ {c} : job'[d] = job[d]
  BY SnapshotTypes
<1>3. (S!TypeOK)'  BY <1>2, SnapshotTypes DEF S!TypeOK, SnapshotsInv
<1>4. Persist  BY <1>1, <1>2 DEF Persist
<1>5. JobFits'
  <2>1. ASSUME NEW d \in Calls
        PROVE
        /\ job'[d].op = "create" =>
              job'[d].tenant \in Registered /\ job'[d].stamp < clock' /\ job'[d].pc # "idle"
        /\ job'[d].pc \in {"encrypt", "write", "writing", "cleanup"} => job'[d].op = "create"
        /\ job'[d].pc \in {"read", "decrypt", "unlink"} =>
              job'[d].op # "create" /\ job'[d].target \in Calls
        /\ job'[d].pc # "done" => job'[d].res = "none"
        /\ job'[d].names \subseteq (S!SnapshotsOf(job[d].tenant))'
        /\ job'[d].found \subseteq (Seen(job[d].tenant))'
    <3>1. CASE d = c  BY <1>2, <3>1, SnapshotTypes
    <3>2. CASE d # c
      <4>1. job'[d] = job[d]  BY <1>2, <3>2
      <4>2. job[d].names \subseteq S!SnapshotsOf(job[d].tenant)
        BY DEF SnapshotsInv, JobFits
      <4>3. S!SnapshotsOf(job[d].tenant) \subseteq (S!SnapshotsOf(job[d].tenant))'
        BY <1>4, <4>1 DEF Persist, S!SnapshotsOf
      <4>4. job[d].stamp \in Nat /\ clock \in Nat  BY SnapshotTypes
      <4>5. job'[d].op = "create" =>
              job'[d].tenant \in Registered /\ job'[d].stamp < clock' /\ job'[d].pc # "idle"
        BY <4>1, <4>4 DEF SnapshotsInv, JobFits
      <4>6. job'[d].found \subseteq (Seen(job[d].tenant))'
        BY <4>1, <4>3 DEF SnapshotsInv, JobFits, Seen
      <4> QED  BY <4>1, <4>2, <4>3, <4>5, <4>6 DEF SnapshotsInv, JobFits
    <3> QED  BY <3>1, <3>2
  <2>2. ASSUME NEW d \in Calls, NEW e \in Calls, job'[d].op = "create", job'[e].op = "create",
               job'[d].stamp = job'[e].stamp
        PROVE  d = e
    <3>1. \A x \in Calls : job[x].op = "create" => job[x].stamp < clock /\ job[x].stamp \in Nat
      BY SnapshotTypes DEF SnapshotsInv, JobFits
    <3>2. CASE d # c /\ e # c  BY <1>2, <2>2, <3>2 DEF SnapshotsInv, JobFits
    <3>3. CASE d = c /\ e # c  BY <1>2, <2>2, <3>1, <3>3, SnapshotTypes
    <3>4. CASE d # c /\ e = c  BY <1>2, <2>2, <3>1, <3>4, SnapshotTypes
    <3> QED  BY <3>2, <3>3, <3>4
  <2> QED  BY <2>1, <2>2 DEF JobFits
<1> QED  BY <1>1, <1>2, <1>3, <1>4, <1>5, QuietJobStep

LEMMA IdleJob == S!Idle \in S!Call /\ S!Idle.op = "none" /\ S!Idle.pc = "idle"
                 /\ S!Idle.res = "none" /\ S!Idle.names = {} /\ S!Idle.found = {}
  BY DEF S!Idle, S!Call

LEMMA CreateStep ==
    ASSUME SnapshotsInv, NEW c \in Calls, S!Create(c)
    PROVE  SnapshotsInv'
<1>1. PICK t \in Registered, a \in Actions :
         /\ job[c].pc = "idle"
         /\ job' = [job EXCEPT ![c] =
              [S!Idle EXCEPT !.op = "create", !.pc = "encrypt", !.tenant = t,
                             !.action = a, !.stamp = clock]]
  BY DEF S!Create, S!Begin
<1> DEFINE r == [S!Idle EXCEPT !.op = "create", !.pc = "encrypt", !.tenant = t,
                             !.action = a, !.stamp = clock]
<1>2. r \in S!Call /\ r.op = "create" /\ r.pc = "encrypt" /\ r.tenant = t /\ r.stamp = clock
      /\ r.res = "none" /\ r.names = {} /\ r.found = {}
  BY IdleJob, SnapshotTypes DEF S!Call
<1>3. job' = [job EXCEPT ![c] = r]  BY <1>1
<1> HIDE DEF r
<1>4. /\ UNCHANGED <<file, home, horizon, life, faults, saved, removed, partial>>
      /\ clock' = clock + 1 /\ clock' \in Nat /\ clock' >= clock
  BY SnapshotTypes DEF S!Create
<1> QED  BY <1>1, <1>2, <1>3, <1>4, BeginFits

LEMMA ByIdStep ==
    ASSUME SnapshotsInv, NEW c \in Calls, S!ById(c)
    PROVE  SnapshotsInv'
<1>1. PICK s \in Calls, o \in {"restore", "delete"} :
         /\ job[c].pc = "idle"
         /\ job' = [job EXCEPT ![c] = [S!Idle EXCEPT !.op = o, !.pc = "read", !.target = s]]
  BY DEF S!ById, S!Begin
<1> DEFINE r == [S!Idle EXCEPT !.op = o, !.pc = "read", !.target = s]
<1>2. r \in S!Call /\ r.op = o /\ r.pc = "read" /\ r.target = s /\ r.res = "none" /\ r.names = {} /\ r.found = {}
  BY IdleJob DEF S!Call
<1>3. job' = [job EXCEPT ![c] = r]  BY <1>1
<1> HIDE DEF r
<1>4. /\ UNCHANGED <<file, home, horizon, life, faults, saved, removed, partial>>
      /\ clock' \in Nat /\ clock' >= clock
  BY SnapshotTypes DEF S!ById
<1> QED  BY <1>1, <1>2, <1>3, <1>4, BeginFits

LEMMA RollbackStep ==
    ASSUME SnapshotsInv, NEW c \in Calls, S!Rollback(c)
    PROVE  SnapshotsInv'
<1>1. PICK t \in Registered :
         \/ \E a \in Actions :
               S!Begin(c, [S!Idle EXCEPT !.op = "rollback", !.pc = "readdir",
                                         !.tenant = t, !.action = a])
         \/ S!Begin(c, [S!Idle EXCEPT !.op = "autoRollback", !.pc = "readdir", !.tenant = t])
  BY DEF S!Rollback
<1>2. /\ UNCHANGED <<file, home, horizon, life, faults, saved, removed, partial>>
      /\ clock' \in Nat /\ clock' >= clock
  <2>1. UNCHANGED <<file, home, clock, horizon, life, faults, saved, removed, partial>>
    BY Zenon DEF S!Rollback
  <2> QED  BY <2>1, SnapshotTypes
<1>3. ASSUME NEW a \in Actions,
             S!Begin(c, [S!Idle EXCEPT !.op = "rollback", !.pc = "readdir",
                                         !.tenant = t, !.action = a])
      PROVE  SnapshotsInv'
  <2> DEFINE r == [S!Idle EXCEPT !.op = "rollback", !.pc = "readdir",
                                         !.tenant = t, !.action = a]
  <2>1. r \in S!Call /\ r.op = "rollback" /\ r.pc = "readdir" /\ r.res = "none" /\ r.names = {} /\ r.found = {}
    BY IdleJob DEF S!Call
  <2>2. job[c].pc = "idle" /\ job' = [job EXCEPT ![c] = r]  BY <1>3 DEF S!Begin
  <2> HIDE DEF r
  <2> QED  BY <1>2, <2>1, <2>2, BeginFits
<1>4. ASSUME S!Begin(c, [S!Idle EXCEPT !.op = "autoRollback", !.pc = "readdir", !.tenant = t])
      PROVE  SnapshotsInv'
  <2> DEFINE r == [S!Idle EXCEPT !.op = "autoRollback", !.pc = "readdir", !.tenant = t]
  <2>1. r \in S!Call /\ r.op = "autoRollback" /\ r.pc = "readdir" /\ r.res = "none" /\ r.names = {} /\ r.found = {}
    BY IdleJob DEF S!Call
  <2>2. job[c].pc = "idle" /\ job' = [job EXCEPT ![c] = r]  BY <1>4 DEF S!Begin
  <2> HIDE DEF r
  <2> QED  BY <1>2, <2>1, <2>2, BeginFits
<1> QED  BY <1>1, <1>3, <1>4

JobPlaces == {"idle", "encrypt", "write", "writing", "readdir", "readFiles",
           "cleanup", "read", "decrypt", "unlink", "done"}

\* The next record of a call: what it is of stays, and its result is not due yet.
SameCreation(r, q) ==
    /\ q.op = r.op /\ q.tenant = r.tenant /\ q.stamp = r.stamp
    /\ q.pc # "done" => q.res = r.res
    /\ q.names \subseteq r.names \cup S!SnapshotsOf(r.tenant)
    /\ q.found \subseteq r.found \cup Seen(r.tenant)

LEMMA NextRecord ==
    ASSUME SnapshotsInv, NEW c \in Calls, NEW r \in S!Call, job' = [job EXCEPT ![c] = r],
           SameCreation(job[c], r), r.pc # "done" => job[c].pc # "done", clock' = clock
    PROVE  job' \in [Calls -> S!Call] /\ job'[c] = r /\ Moves(c)
<1>1. /\ job' \in [Calls -> S!Call] /\ job'[c] = r
      /\ \A d \in Calls \ {c} : job'[d] = job[d]
  <2>1. job \in [Calls -> S!Call]  BY SnapshotTypes
  <2> QED  BY <2>1
<1>2. job[c].pc # "done" => job[c].res = "none"  BY DEF SnapshotsInv, JobFits
<1> QED  BY <1>1, <1>2 DEF Moves, SameCreation

LEMMA PlaceFacts ==
    ASSUME SnapshotsInv, NEW c \in Calls, NEW l \in JobPlaces
    PROVE  /\ [job[c] EXCEPT !.pc = l] \in S!Call /\ [job[c] EXCEPT !.pc = l].pc = l
           /\ SameCreation(job[c], [job[c] EXCEPT !.pc = l])
<1> DEFINE q == [job[c] EXCEPT !.pc = l]
<1>1. job[c] \in S!Call  BY SnapshotTypes
<1>2. q \in S!Call /\ q.pc = l  BY <1>1 DEF S!Call, JobPlaces
<1>3. /\ q.op = job[c].op /\ q.tenant = job[c].tenant /\ q.stamp = job[c].stamp
      /\ q.res = job[c].res /\ q.names = job[c].names /\ q.found = job[c].found
  BY <1>1 DEF S!Call
<1> HIDE DEF q
<1>4. SameCreation(job[c], q)  BY <1>3 DEF SameCreation
<1> QED  BY <1>2, <1>4 DEF q

LEMMA FinishFacts ==
    ASSUME SnapshotsInv, NEW c \in Calls, NEW a \in {"ok", "error"}, S!Finish(c, a), clock' = clock
    PROVE  /\ job' \in [Calls -> S!Call] /\ Moves(c) /\ job'[c].pc = "done"
           /\ job'[c].res = IF job[c].op = "autoRollback" THEN "ok" ELSE a
<1> DEFINE z == IF job[c].op = "autoRollback" THEN "ok" ELSE a
<1> DEFINE void == <<>>
<1> DEFINE r1 == [job[c] EXCEPT !.pc = "done"]
<1> DEFINE r2 == [r1 EXCEPT !.names = {}]
<1> DEFINE r3 == [r2 EXCEPT !.found = {}]
<1> DEFINE r4 == [r3 EXCEPT !.todo = void]
<1> DEFINE r == [r4 EXCEPT !.res = z]
<1>1. z \in {"ok", "error"}  OBVIOUS
<1>2. job' = [job EXCEPT ![c].pc = "done", ![c].names = {}, ![c].found = {},
                         ![c].todo = <<>>, ![c].res = z]
  BY DEF S!Finish
<1> HIDE DEF z
<1>3. job' = [job EXCEPT ![c] = r]  BY <1>2, SnapshotTypes
<1>4. r1 \in S!Call /\ r1.pc = "done" /\ SameCreation(job[c], r1)
  <2>1. "done" \in JobPlaces  BY DEF JobPlaces
  <2> QED  BY <2>1, PlaceFacts, Zenon
<1> HIDE DEF r1
<1>5. r2 \in S!Call /\ r2.pc = "done" /\ SameCreation(r1, r2)
  BY <1>4 DEF S!Call, SameCreation
<1> HIDE DEF r2
<1>6. r3 \in S!Call /\ r3.pc = "done" /\ SameCreation(r2, r3)
  BY <1>5 DEF S!Call, SameCreation
<1> HIDE DEF r3
<1>7. r4 \in S!Call /\ r4.pc = "done" /\ SameCreation(r3, r4)
  <2>1. void \in Seq(Calls)  OBVIOUS
  <2> HIDE DEF void
  <2> QED  BY <1>6, <2>1 DEF S!Call, SameCreation
<1> HIDE DEF r4
<1>8. r \in S!Call /\ r.pc = "done" /\ r.res = z /\ SameCreation(r4, r)
  BY <1>1, <1>7 DEF S!Call, SameCreation
<1> HIDE DEF r
<1>9. SameCreation(job[c], r)  BY <1>4, <1>5, <1>6, <1>7, <1>8 DEF SameCreation
<1> QED  BY <1>3, <1>8, <1>9, NextRecord DEF z

LEMMA GotoFacts ==
    ASSUME SnapshotsInv, NEW c \in Calls, NEW l \in JobPlaces, S!Goto(c, l), clock' = clock,
           job[c].pc # "done"
    PROVE  /\ job' \in [Calls -> S!Call] /\ Moves(c) /\ job'[c].pc = l
           /\ job'[c].target = job[c].target
<1> DEFINE r == [job[c] EXCEPT !.pc = l]
<1>1. job' = [job EXCEPT ![c] = r]  BY SnapshotTypes DEF S!Goto
<1>2. /\ r \in S!Call /\ r.pc = l /\ r.target = job[c].target
      /\ SameCreation(job[c], r)
  BY SnapshotTypes DEF S!Call, JobPlaces, SameCreation
<1> HIDE DEF r
<1> QED  BY <1>1, <1>2, NextRecord

\* A step of one call that changes no file and starts no clean-up.
LEMMA QuietMove ==
    ASSUME SnapshotsInv, NEW c \in Calls, job' \in [Calls -> S!Call], Moves(c),
           home' \in [Calls -> Nat], life' \in Nat, faults' \in Nat,
           UNCHANGED <<file, horizon, saved, removed>>,
           partial \subseteq partial', partial' \subseteq Calls,
           job[c].pc # "idle", job'[c].pc # "idle",
           job'[c].pc \in {"encrypt", "write", "writing"} => job'[c].op = "create",
           job'[c].pc \in {"read", "decrypt", "unlink"} =>
              job'[c].op # "create" /\ job'[c].target \in Calls,
           job'[c].pc # "cleanup",
           job[c].op = "create" =>
              /\ job[c].pc \in {"readdir", "readFiles", "cleanup", "done"} =>
                    job'[c].pc \in {"readdir", "readFiles", "cleanup", "done"}
              /\ \A X \in SUBSET Kept(job[c].tenant) :
                    AnswersFor(c, X) => AnswersFor(c, X)'
    PROVE  SnapshotsInv'
<1>1. (S!TypeOK)'  BY SnapshotTypes DEF S!TypeOK, Moves
<1>2. Persist /\ JobFits'  BY MovesFit
<1> QED  BY <1>1, <1>2, QuietJobStep DEF Moves

\* A call that ends with an error answers for nothing it was to delete.
LEMMA FailedMove ==
    ASSUME SnapshotsInv, NEW c \in Calls, NEW a \in {"ok", "error"}, S!Finish(c, a),
           clock' = clock, home' \in [Calls -> Nat], life' \in Nat, faults' \in Nat,
           UNCHANGED <<file, horizon, saved, removed>>, job[c].pc # "idle",
           partial \subseteq partial', partial' \subseteq Calls,
           a = "error" \/ job[c].op # "create"
    PROVE  SnapshotsInv'
<1>1. /\ job' \in [Calls -> S!Call] /\ Moves(c) /\ job'[c].pc = "done"
      /\ job'[c].res = IF job[c].op = "autoRollback" THEN "ok" ELSE a
  BY FinishFacts
<1>2. job[c].op = "create" => job'[c].res # "ok"  BY <1>1
<1>3. job[c].op = "create" => \A X : AnswersFor(c, X)'  BY <1>1, <1>2 DEF AnswersFor
<1> QED  BY <1>1, <1>3, QuietMove

LEMMA EncryptedStep ==
    ASSUME SnapshotsInv, NEW c \in Calls, S!Encrypted(c)
    PROVE  SnapshotsInv'
<1>1. /\ S!Goto(c, "write") /\ job[c].pc = "encrypt" /\ home' = [home EXCEPT ![c] = life]
      /\ UNCHANGED <<file, clock, horizon, life, faults, saved, removed, partial>>
  BY Zenon DEF S!Encrypted, S!At
<1>2. job' \in [Calls -> S!Call] /\ Moves(c) /\ job'[c].pc = "write"
  BY <1>1, GotoFacts DEF JobPlaces
<1>3. home' \in [Calls -> Nat]  BY <1>1, SnapshotTypes
<1>4. job[c].op = "create"  BY <1>1 DEF SnapshotsInv, JobFits
<1>5. \A X : ~AnswersFor(c, X)  BY <1>1 DEF AnswersFor
<1> QED  BY <1>1, <1>2, <1>3, <1>4, <1>5, SnapshotTypes, QuietMove DEF Moves

LEMMA ReaddirStep ==
    ASSUME SnapshotsInv, NEW c \in Calls, S!Readdir(c)
    PROVE  SnapshotsInv'
<1> DEFINE seen == {s \in S!SnapshotsOf(job[c].tenant) : file[s] # "absent"}
<1>1. /\ job[c].pc = "readdir"
      /\ job' = [job EXCEPT ![c].pc = "readFiles", ![c].names = seen]
      /\ UNCHANGED <<file, home, clock, horizon, life, faults, saved, removed, partial>>
  BY Zenon DEF S!Readdir, S!At
<1> DEFINE r1 == [job[c] EXCEPT !.pc = "readFiles"]
<1> DEFINE r == [r1 EXCEPT !.names = seen]
<1>2. seen \in SUBSET Calls /\ seen \subseteq S!SnapshotsOf(job[c].tenant)  BY DEF S!SnapshotsOf
<1>3. \A X \in SUBSET Kept(job[c].tenant) : X \subseteq seen  BY DEF Kept
<1> HIDE DEF seen
<1>4. job' = [job EXCEPT ![c] = r]  BY <1>1, SnapshotTypes
<1>5. /\ r \in S!Call /\ r.pc = "readFiles" /\ r.names = seen
      /\ SameCreation(job[c], r)
  <2>1. r1 \in S!Call /\ r1.pc = "readFiles" /\ SameCreation(job[c], r1)
    <3>1. "readFiles" \in JobPlaces  BY DEF JobPlaces
    <3> QED  BY <3>1, PlaceFacts, Zenon
  <2> HIDE DEF r1
  <2>2. /\ r \in S!Call /\ r.pc = "readFiles" /\ r.names = seen /\ r.op = r1.op
        /\ r.tenant = r1.tenant /\ r.stamp = r1.stamp /\ r.res = r1.res /\ r.found = r1.found
    BY <1>2, <2>1 DEF S!Call
  <2> HIDE DEF r
  <2> QED  BY <1>2, <2>1, <2>2 DEF SameCreation
<1> HIDE DEF r
<1>6. /\ job' \in [Calls -> S!Call] /\ Moves(c) /\ job'[c].pc = "readFiles"
      /\ job'[c].names = seen
  BY <1>1, <1>4, <1>5, NextRecord
<1>7. \A X \in SUBSET Kept(job[c].tenant) : AnswersFor(c, X)'  BY <1>3, <1>6 DEF AnswersFor
<1> QED  BY <1>1, <1>2, <1>6, <1>7, SnapshotTypes, QuietMove

LEMMA AccessFaultStep ==
    ASSUME SnapshotsInv, NEW c \in Calls, S!AccessFault(c)
    PROVE  SnapshotsInv'
<1>1. /\ job[c].pc = "readdir" /\ S!Goto(c, "readFiles")
      /\ faults' = faults + 1 /\ partial' = partial \cup {c}
      /\ UNCHANGED <<file, home, clock, horizon, life, saved, removed>>
  BY DEF S!AccessFault, S!At
<1>2. /\ job' \in [Calls -> S!Call] /\ Moves(c) /\ job'[c].pc = "readFiles"
  BY <1>1, GotoFacts DEF JobPlaces
<1>3. \A X : AnswersFor(c, X)'  BY <1>1, <1>2 DEF AnswersFor
<1>4. /\ faults' \in Nat /\ partial \subseteq partial' /\ partial' \subseteq Calls
      /\ home' \in [Calls -> Nat] /\ life' \in Nat
  BY <1>1, SnapshotTypes
<1> QED  BY <1>1, <1>2, <1>3, <1>4, QuietMove

\* The next file of the list is done with: it was read, or it was left out.
LEMMA ReadTurn ==
    ASSUME SnapshotsInv, NEW c \in Calls, job[c].pc = "readFiles",
           NEW s \in job[c].names, NEW F \in SUBSET Calls,
           F \subseteq job[c].found \cup {s}, job[c].found \subseteq F,
           s \in F => file[s] = "whole" \/ s \in job[c].found,
           job' = [job EXCEPT ![c].names = @ \ {s}, ![c].found = F],
           UNCHANGED <<file, home, clock, horizon, life, saved, removed>>,
           faults' \in Nat, partial \subseteq partial', partial' \subseteq Calls,
           c \in partial' \/ s \in F \/ file[s] # "whole"
    PROVE  SnapshotsInv'
<1> DEFINE rest == job[c].names \ {s}
<1> DEFINE r1 == [job[c] EXCEPT !.names = rest]
<1> DEFINE r == [r1 EXCEPT !.found = F]
<1>1. /\ rest \in SUBSET Calls /\ rest \subseteq S!SnapshotsOf(job[c].tenant)
      /\ s \in Calls /\ s \in S!SnapshotsOf(job[c].tenant)
  BY SnapshotTypes DEF SnapshotsInv, JobFits
<1>2. F \subseteq job[c].found \cup Seen(job[c].tenant)
  BY <1>1 DEF SnapshotsInv, SavedFit, Seen
<1>3. \A X \in SUBSET Kept(job[c].tenant) :
         /\ X \subseteq job[c].names \cup job[c].found
         => X \subseteq rest \cup F \/ c \in partial'
  BY DEF Kept
<1>4. job' = [job EXCEPT ![c].names = rest, ![c].found = F]  BY SnapshotTypes
<1> HIDE DEF rest
<1>5. job' = [job EXCEPT ![c] = r]  BY <1>4, SnapshotTypes
<1>6. /\ r1 \in S!Call /\ r1.pc = "readFiles" /\ r1.names = rest
      /\ r1.found = job[c].found /\ SameCreation(job[c], r1)
  BY <1>1, SnapshotTypes DEF S!Call, SameCreation
<1> HIDE DEF r1
<1>7. /\ r \in S!Call /\ r.pc = "readFiles" /\ r.names = rest /\ r.found = F
      /\ r.op = r1.op /\ r.tenant = r1.tenant /\ r.stamp = r1.stamp /\ r.res = r1.res
  BY <1>6 DEF S!Call
<1> HIDE DEF r
<1>8. SameCreation(job[c], r)  BY <1>2, <1>6, <1>7 DEF SameCreation
<1>9. /\ job' \in [Calls -> S!Call] /\ Moves(c) /\ job'[c].pc = "readFiles"
      /\ job'[c].names = rest /\ job'[c].found = F
  BY <1>5, <1>7, <1>8, NextRecord
<1>10. \A X \in SUBSET Kept(job[c].tenant) : AnswersFor(c, X) => AnswersFor(c, X)'
  BY <1>3, <1>9 DEF AnswersFor
<1> QED  BY <1>1, <1>9, <1>10, SnapshotTypes, QuietMove

LEMMA ReadFileStep ==
    ASSUME SnapshotsInv, NEW c \in Calls, S!ReadFile(c) \/ S!ReadFileFault(c)
    PROVE  SnapshotsInv'
<1>1. CASE S!ReadFile(c)
  <2>1. PICK s \in job[c].names :
          /\ job[c].pc = "readFiles"
          /\ job' = [job EXCEPT ![c].names = @ \ {s},
                            ![c].found = IF file[s] = "whole" THEN @ \cup {s} ELSE @]
          /\ UNCHANGED <<file, home, clock, horizon, life, faults, saved, removed, partial>>
    BY <1>1, Zenon DEF S!ReadFile, S!At
  <2> DEFINE F == IF file[s] = "whole" THEN job[c].found \cup {s} ELSE job[c].found
  <2>2. /\ F \in SUBSET Calls /\ F \subseteq job[c].found \cup {s} /\ job[c].found \subseteq F
        /\ s \in F => file[s] = "whole" \/ s \in job[c].found
        /\ s \in F \/ file[s] # "whole"
    BY SnapshotTypes
  <2>3. job' = [job EXCEPT ![c].names = @ \ {s}, ![c].found = F]  BY <2>1, SnapshotTypes
  <2> HIDE DEF F
  <2> QED  BY <2>1, <2>2, <2>3, SnapshotTypes, ReadTurn
<1>2. CASE S!ReadFileFault(c)
  <2>1. PICK s \in job[c].names :
          /\ job[c].pc = "readFiles" /\ job' = [job EXCEPT ![c].names = @ \ {s}]
          /\ faults' = faults + 1 /\ partial' = partial \cup {c}
          /\ UNCHANGED <<file, home, clock, horizon, life, saved, removed>>
    BY <1>2, Zenon DEF S!ReadFileFault, S!At
  <2>2. job' = [job EXCEPT ![c].names = @ \ {s}, ![c].found = job[c].found]
    BY <2>1, SnapshotTypes
  <2>3. faults' \in Nat /\ partial \subseteq partial' /\ partial' \subseteq Calls /\ c \in partial'
    BY <2>1, SnapshotTypes
  <2> DEFINE F == job[c].found
  <2>4. F \in SUBSET Calls /\ job' = [job EXCEPT ![c].names = @ \ {s}, ![c].found = F]
        /\ F \subseteq job[c].found \cup {s} /\ job[c].found \subseteq F
        /\ (s \in F => file[s] = "whole" \/ s \in job[c].found)
    BY <2>2, SnapshotTypes
  <2> HIDE DEF F
  <2> QED  BY <2>1, <2>3, <2>4, ReadTurn
<1> QED  BY <1>1, <1>2

LEMMA ReadOneStep ==
    ASSUME SnapshotsInv, NEW c \in Calls, S!Read(c)
    PROVE  SnapshotsInv'
<1>1. /\ job[c].pc = "read"
      /\ UNCHANGED <<file, home, clock, horizon, life, faults, saved, removed, partial>>
      /\ \/ S!Finish(c, "error")
         \/ \E l \in {"unlink", "decrypt"} : S!Goto(c, l)
  BY DEF S!Read, S!At
<1>2. job[c].op # "create" /\ job[c].target \in Calls  BY <1>1 DEF SnapshotsInv, JobFits
<1>3. CASE S!Finish(c, "error")  BY <1>1, <1>2, <1>3, SnapshotTypes, FailedMove
<1>4. ASSUME NEW l \in {"unlink", "decrypt"}, S!Goto(c, l) PROVE SnapshotsInv'
  <2>1. /\ job' \in [Calls -> S!Call] /\ Moves(c) /\ job'[c].pc = l
        /\ job'[c].target = job[c].target
    BY <1>1, <1>4, GotoFacts DEF JobPlaces
  <2>2. job'[c].op # "create"  BY <1>2, <2>1 DEF Moves
  <2> QED  BY <1>1, <1>2, <1>4, <2>1, <2>2, SnapshotTypes, QuietMove
<1> QED  BY <1>1, <1>3, <1>4

LEMMA DecryptStep ==
    ASSUME SnapshotsInv, NEW c \in Calls, S!Decrypt(c)
    PROVE  SnapshotsInv'
<1>1. /\ job[c].pc = "decrypt"
      /\ UNCHANGED <<file, home, clock, horizon, life, faults, saved, removed, partial>>
      /\ \E a \in {"ok", "error"} : S!Finish(c, a)
  BY DEF S!Decrypt, S!At
<1>2. job[c].op # "create"  BY <1>1 DEF SnapshotsInv, JobFits
<1> QED  BY <1>1, <1>2, SnapshotTypes, FailedMove

LEMMA FileFaultStep ==
    ASSUME SnapshotsInv, NEW c \in Calls, S!FileFault(c)
    PROVE  SnapshotsInv'
<1>1. /\ job[c].pc # "idle" /\ S!Finish(c, "error") /\ faults' = faults + 1
      /\ UNCHANGED <<file, home, clock, horizon, life, saved, removed, partial>>
  BY DEF S!FileFault, S!At
<1> QED  BY <1>1, SnapshotTypes, FailedMove

\* The snapshots that were read can be put in order.
LEMMA FoundFacts ==
    ASSUME SnapshotsInv, NEW c \in Calls, NEW X \in SUBSET job[c].found
    PROVE  /\ Ordered(X) /\ X \subseteq Calls
           /\ \A s \in X : job[s].op = "create" /\ job[s].tenant = job[c].tenant /\ s \in saved
<1>1. \A s \in X : /\ s \in Calls /\ job[s].op = "create" /\ job[s].tenant = job[c].tenant
                  /\ s \in saved
  BY DEF SnapshotsInv, JobFits, Seen, S!SnapshotsOf
<1>2. Ordered(X)  BY <1>1, SnapshotTypes DEF Ordered, SnapshotsInv, JobFits
<1> QED  BY <1>1, <1>2

\* What a creation puts on its list may be deleted, and it is all but the limit.
LEMMA ListFacts ==
    ASSUME SnapshotsInv, NEW c \in Calls
    PROVE  LET found == job[c].found
               list  == S!Doomed(found)
           IN  /\ list \in Seq(Calls)
               /\ \A i \in 1 .. Len(list) :
                     job[list[i]].op = "create" /\ list[i] \in Calls /\ Due(list[i])
               /\ \A X \in SUBSET Kept(job[c].tenant) :
                     X \subseteq job[c].found => Cardinality(X \ InList(list)) <= MaxSnapshots
<1> DEFINE found == job[c].found
<1> DEFINE list == S!Doomed(found)
<1>1. /\ Ordered(found) /\ found \subseteq Calls
      /\ \A s \in found : job[s].op = "create" /\ job[s].tenant = job[c].tenant /\ s \in saved
  BY FoundFacts
<1>2. \A X \in SUBSET Kept(job[c].tenant) : X \subseteq job[c].found => X \subseteq found
  OBVIOUS
<1> HIDE DEF found
<1>3. /\ list \in Seq(Calls)
      /\ \A i \in 1 .. Len(list) :
            /\ list[i] \in found
            /\ S!Expired(list[i]) \/ Rank(found, list[i]) >= MaxSnapshots
      /\ Cardinality(found \ InList(list)) <= MaxSnapshots
  BY <1>1, DoomedFacts
<1> HIDE DEF list
<1>4. ASSUME NEW e \in found, Rank(found, e) >= MaxSnapshots PROVE Due(e)
  <2> DEFINE X == S!Newer(found, e)
  <2> DEFINE Y == {n \in S!SnapshotsOf(job[e].tenant) \cap saved : job[n].stamp > job[e].stamp}
  <2>1. X \subseteq Y /\ Y \in SUBSET Calls  BY <1>1 DEF S!Newer, S!SnapshotsOf
  <2> HIDE DEF X
  <2>2. Rank(found, e) = Cardinality(X)  BY SnapshotCardinality DEF Rank, X
  <2> HIDE DEF Y
  <2>3. Cardinality(Y) >= MaxSnapshots
    BY <1>4, <2>1, <2>2, SmallerSets, SnapshotsAssumption
  <2> QED  BY <2>3 DEF Due, Y
<1>5. ASSUME NEW i \in 1 .. Len(list)
      PROVE  job[list[i]].op = "create" /\ list[i] \in Calls /\ Due(list[i])
  <2>1. PICK e \in found : e = list[i]  BY <1>3
  <2>2. S!Expired(e) \/ Rank(found, e) >= MaxSnapshots  BY <1>3, <2>1
  <2>3. Due(e)  BY <1>4, <2>2 DEF Due
  <2> QED  BY <1>1, <2>1, <2>3
<1>6. ASSUME NEW X \in SUBSET Kept(job[c].tenant), X \subseteq job[c].found
      PROVE  Cardinality(X \ InList(list)) <= MaxSnapshots
  <2>1. X \ InList(list) \subseteq found \ InList(list) /\ found \ InList(list) \in SUBSET Calls
    BY <1>1, <1>2, <1>6
  <2> QED  BY <1>3, <2>1, SmallerSets, SnapshotsAssumption
<1> QED  BY <1>3, <1>5, <1>6 DEF list, found

LEMMA CreateReads ==
    ASSUME SnapshotsInv, NEW c \in Calls, job[c].pc = "readFiles", job[c].op = "create",
           job[c].names = {},
           job' = [job EXCEPT ![c].pc = "cleanup", ![c].todo = S!Doomed(job[c].found),
                              ![c].found = {}],
           UNCHANGED <<file, home, clock, horizon, life, faults, saved, removed, partial>>
    PROVE  SnapshotsInv'
<1> DEFINE list == S!Doomed(job[c].found)
<1>1. /\ list \in Seq(Calls)
      /\ \A i \in 1 .. Len(list) :
            job[list[i]].op = "create" /\ list[i] \in Calls /\ Due(list[i])
      /\ \A X \in SUBSET Kept(job[c].tenant) :
            X \subseteq job[c].found => Cardinality(X \ InList(list)) <= MaxSnapshots
  BY ListFacts
<1>2. job' = [job EXCEPT ![c].pc = "cleanup", ![c].todo = list, ![c].found = {}]  OBVIOUS
<1> HIDE DEF list
<1> DEFINE r1 == [job[c] EXCEPT !.pc = "cleanup"]
<1> DEFINE r2 == [r1 EXCEPT !.todo = list]
<1> DEFINE r == [r2 EXCEPT !.found = {}]
<1>3. job' = [job EXCEPT ![c] = r]  BY <1>2, SnapshotTypes
<1>4. r1 \in S!Call /\ r1.pc = "cleanup" /\ SameCreation(job[c], r1)
  BY SnapshotTypes DEF S!Call, SameCreation
<1> HIDE DEF r1
<1>5. r2 \in S!Call /\ r2.pc = "cleanup" /\ r2.todo = list /\ SameCreation(r1, r2)
  BY <1>1, <1>4 DEF S!Call, SameCreation
<1> HIDE DEF r2
<1>6. r \in S!Call /\ r.pc = "cleanup" /\ r.todo = list /\ SameCreation(r2, r)
  BY <1>5 DEF S!Call, SameCreation
<1> HIDE DEF r
<1>7. SameCreation(job[c], r)  BY <1>4, <1>5, <1>6 DEF SameCreation
<1>8. /\ job' \in [Calls -> S!Call] /\ Moves(c) /\ job'[c].pc = "cleanup"
      /\ job'[c].todo = list /\ job'[c].op = "create"
  BY <1>3, <1>6, <1>7, NextRecord DEF Moves
<1>9. (S!TypeOK)'  BY <1>8, SnapshotTypes DEF S!TypeOK
<1>10. Persist /\ JobFits'  BY <1>8, MovesFit
<1>11. \A X \in SUBSET Kept(job[c].tenant) : AnswersFor(c, X) => AnswersFor(c, X)'
  BY <1>1, <1>8 DEF AnswersFor
<1>12. \A i \in 1 .. Len(job'[c].todo) :
         /\ job[job'[c].todo[i]].op = "create" /\ job'[c].todo[i] \in Calls
         /\ Due(job'[c].todo[i])
  BY <1>1, <1>8
<1> QED  BY <1>8, <1>9, <1>10, <1>11, <1>12, QuietJobStep DEF Moves

LEMMA RollbackReads ==
    ASSUME SnapshotsInv, NEW c \in Calls, job[c].pc = "readFiles", job[c].op # "create",
           UNCHANGED <<file, home, clock, horizon, life, faults, saved, removed, partial>>,
           NEW found \in SUBSET job[c].found,
           \/ \E a \in {"ok", "error"} : S!Finish(c, a)
           \/ /\ S!NewestFirst(found) # <<>>
              /\ job' = [job EXCEPT ![c].pc = "readdir", ![c].found = {},
                                    ![c].action = job[Head(S!NewestFirst(found))].action]
           \/ /\ S!NewestFirst(found) # <<>>
              /\ job' = [job EXCEPT ![c].pc = "read", ![c].found = {},
                                    ![c].target = Head(S!NewestFirst(found))]
    PROVE  SnapshotsInv'
<1>1. CASE \E a \in {"ok", "error"} : S!Finish(c, a)
  BY <1>1, SnapshotTypes, FailedMove
<1>2. Ordered(found)  BY FoundFacts
<1>3. S!NewestFirst(found) # <<>> =>
         /\ Head(S!NewestFirst(found)) \in Calls
         /\ job[Head(S!NewestFirst(found))].action \in Actions \cup {NoAction}
  BY <1>2, NewestFirstFacts, HeadTailProperties, SnapshotTypes
<1>4. CASE /\ S!NewestFirst(found) # <<>>
           /\ job' = [job EXCEPT ![c].pc = "readdir", ![c].found = {},
                                    ![c].action = job[Head(S!NewestFirst(found))].action]
  <2> DEFINE a == job[Head(S!NewestFirst(found))].action
  <2> DEFINE r1 == [job[c] EXCEPT !.pc = "readdir"]
  <2> DEFINE r2 == [r1 EXCEPT !.found = {}]
  <2> DEFINE r == [r2 EXCEPT !.action = a]
  <2>1. a \in Actions \cup {NoAction}  BY <1>3, <1>4
  <2>2. job' = [job EXCEPT ![c].pc = "readdir", ![c].found = {}, ![c].action = a]  BY <1>4
  <2> HIDE DEF a
  <2>3. job' = [job EXCEPT ![c] = r]  BY <2>2, SnapshotTypes
  <2>4. r1 \in S!Call /\ r1.pc = "readdir" /\ SameCreation(job[c], r1)
    <3>1. "readdir" \in JobPlaces  BY DEF JobPlaces
    <3> QED  BY <3>1, PlaceFacts, Zenon
  <2> HIDE DEF r1
  <2>5. r2 \in S!Call /\ r2.pc = "readdir" /\ SameCreation(r1, r2)
    BY <2>4 DEF S!Call, SameCreation
  <2> HIDE DEF r2
  <2>6. r \in S!Call /\ r.pc = "readdir" /\ SameCreation(r2, r)
    BY <2>1, <2>5 DEF S!Call, SameCreation
  <2> HIDE DEF r
  <2>7. SameCreation(job[c], r)  BY <2>4, <2>5, <2>6 DEF SameCreation
  <2>8. job' \in [Calls -> S!Call] /\ Moves(c) /\ job'[c].pc = "readdir"
    BY <2>3, <2>6, <2>7, NextRecord
  <2> QED  BY <2>8, SnapshotTypes, QuietMove
<1>5. CASE /\ S!NewestFirst(found) # <<>>
           /\ job' = [job EXCEPT ![c].pc = "read", ![c].found = {},
                                    ![c].target = Head(S!NewestFirst(found))]
  <2> DEFINE s == Head(S!NewestFirst(found))
  <2> DEFINE r1 == [job[c] EXCEPT !.pc = "read"]
  <2> DEFINE r2 == [r1 EXCEPT !.found = {}]
  <2> DEFINE r == [r2 EXCEPT !.target = s]
  <2>1. s \in Calls  BY <1>3, <1>5
  <2>2. job' = [job EXCEPT ![c].pc = "read", ![c].found = {}, ![c].target = s]  BY <1>5
  <2> HIDE DEF s
  <2>3. job' = [job EXCEPT ![c] = r]  BY <2>2, SnapshotTypes
  <2>4. r1 \in S!Call /\ r1.pc = "read" /\ SameCreation(job[c], r1)
    <3>1. "read" \in JobPlaces  BY DEF JobPlaces
    <3> QED  BY <3>1, PlaceFacts, Zenon
  <2> HIDE DEF r1
  <2>5. r2 \in S!Call /\ r2.pc = "read" /\ SameCreation(r1, r2)
    BY <2>4 DEF S!Call, SameCreation
  <2> HIDE DEF r2
  <2>6. r \in S!Call /\ r.pc = "read" /\ r.target = s /\ SameCreation(r2, r)
    BY <2>1, <2>5 DEF S!Call, SameCreation
  <2> HIDE DEF r
  <2>7. SameCreation(job[c], r)  BY <2>4, <2>5, <2>6 DEF SameCreation
  <2>8. /\ job' \in [Calls -> S!Call] /\ Moves(c) /\ job'[c].pc = "read"
        /\ job'[c].op # "create" /\ job'[c].target \in Calls
    BY <2>1, <2>3, <2>6, <2>7, NextRecord DEF Moves
  <2> QED  BY <2>8, SnapshotTypes, QuietMove
<1> QED  BY <1>1, <1>4, <1>5

LEMMA ListedStep ==
    ASSUME SnapshotsInv, NEW c \in Calls, S!Listed(c)
    PROVE  SnapshotsInv'
<1> DEFINE found == job[c].found
<1> DEFINE alike == {s \in found : job[s].action = job[c].action}
<1>1. /\ job[c].pc = "readFiles" /\ job[c].names = {}
      /\ UNCHANGED <<file, home, clock, horizon, life, faults, saved, removed, partial>>
      /\ \/ /\ job[c].op = "create"
            /\ job' = [job EXCEPT ![c].pc = "cleanup", ![c].todo = S!Doomed(found),
                                  ![c].found = {}]
         \/ /\ job[c].op # "create"
            /\ IF S!NewestFirst(found) = <<>> THEN S!Finish(c, "ok")
               ELSE job' = [job EXCEPT ![c].pc = "readdir", ![c].found = {},
                                    ![c].action = job[Head(S!NewestFirst(found))].action]
         \/ /\ job[c].op # "create"
            /\ IF S!NewestFirst(alike) = <<>> THEN S!Finish(c, "error")
               ELSE job' = [job EXCEPT ![c].pc = "read", ![c].found = {},
                                    ![c].target = Head(S!NewestFirst(alike))]
  BY DEF S!Listed, S!At
<1>2. CASE /\ job[c].op = "create"
           /\ job' = [job EXCEPT ![c].pc = "cleanup", ![c].todo = S!Doomed(found),
                                  ![c].found = {}]
  BY <1>1, <1>2, CreateReads
<1>3. found \in SUBSET job[c].found /\ alike \in SUBSET job[c].found
  OBVIOUS
<1> HIDE DEF found, alike
<1>4. CASE /\ job[c].op # "create"
           /\ IF S!NewestFirst(found) = <<>> THEN S!Finish(c, "ok")
               ELSE job' = [job EXCEPT ![c].pc = "readdir", ![c].found = {},
                                    ![c].action = job[Head(S!NewestFirst(found))].action]
  <2>1. CASE S!NewestFirst(found) = <<>>
    BY <1>1, <1>4, <2>1, SnapshotTypes, FailedMove
  <2>2. CASE S!NewestFirst(found) # <<>>
    BY <1>1, <1>3, <1>4, <2>2, RollbackReads
  <2> QED  BY <2>1, <2>2
<1>5. CASE /\ job[c].op # "create"
           /\ IF S!NewestFirst(alike) = <<>> THEN S!Finish(c, "error")
               ELSE job' = [job EXCEPT ![c].pc = "read", ![c].found = {},
                                    ![c].target = Head(S!NewestFirst(alike))]
  <2>1. CASE S!NewestFirst(alike) = <<>>
    BY <1>1, <1>5, <2>1, SnapshotTypes, FailedMove
  <2>2. CASE S!NewestFirst(alike) # <<>>
    BY <1>1, <1>3, <1>5, <2>2, RollbackReads
  <2> QED  BY <2>1, <2>2
<1> QED  BY <1>1, <1>2, <1>4, <1>5 DEF found

\* One turn of the clean-up deletes a snapshot that may be deleted.
LEMMA DeleteTurn ==
    ASSUME SnapshotsInv, NEW c \in Calls, job[c].pc = "cleanup", job[c].todo # <<>>,
           file' = [file EXCEPT ![Head(job[c].todo)] = "absent"],
           job' = [job EXCEPT ![c].todo = Tail(@)],
           UNCHANGED <<home, clock, horizon, life, faults, saved, removed, partial>>
    PROVE  SnapshotsInv'
<1> DEFINE list == job[c].todo
<1> DEFINE r == [job[c] EXCEPT !.todo = Tail(list)]
<1>1. /\ list \in Seq(Calls) /\ list # <<>> /\ Head(list) \in Calls /\ Tail(list) \in Seq(Calls)
      /\ Len(list) \in Nat /\ Len(list) # 0 /\ Len(Tail(list)) = Len(list) - 1
      /\ \A i \in 1 .. Len(Tail(list)) : Tail(list)[i] = list[i + 1]
      /\ Head(list) = list[1]
  BY SnapshotTypes, HeadTailProperties, LenProperties
<1>2. job' = [job EXCEPT ![c] = r]  BY SnapshotTypes
<1>3. /\ r \in S!Call /\ r.pc = "cleanup" /\ r.todo = Tail(list) /\ SameCreation(job[c], r)
  <2>1. Tail(list) \in Seq(Calls) /\ job[c].pc = "cleanup"  BY <1>1
  <2> DEFINE rest == Tail(list)
  <2> HIDE DEF rest, list
  <2> QED  BY <2>1, SnapshotTypes DEF S!Call, SameCreation, rest
<1> HIDE DEF r
<1>4. /\ job' \in [Calls -> S!Call] /\ Moves(c) /\ job'[c].pc = "cleanup"
      /\ job'[c].todo = Tail(list)
  BY <1>2, <1>3, NextRecord
<1>5. \A i \in 1 .. Len(list) :
         job[list[i]].op = "create" /\ list[i] \in Calls /\ Due(list[i])
  BY <1>1, ElementOfSeq DEF SnapshotsInv, CleanUpsFit
<1>6. job[c].op = "create"  BY DEF SnapshotsInv, JobFits
<1> DEFINE s == Head(list)
<1>7. job[s].op = "create" /\ s \in Calls /\ Due(s)
  <2>1. 1 \in 1 .. Len(list) /\ s = list[1]  BY <1>1
  <2> QED  BY <1>5, <2>1
<1>8. /\ file' \in [Calls -> {"absent", "torn", "whole"}]
      /\ file'[s] = "absent" /\ \A d \in Calls \ {s} : file'[d] = file[d]
  BY <1>7, SnapshotTypes
<1> HIDE DEF list
<1>9. \A i \in 1 .. Len(Tail(list)) :
         /\ job[Tail(list)[i]].op = "create" /\ Tail(list)[i] \in Calls /\ Due(Tail(list)[i])
  <2>1. SUFFICES ASSUME NEW i \in 1 .. Len(Tail(list))
        PROVE /\ job[Tail(list)[i]].op = "create" /\ Tail(list)[i] \in Calls
              /\ Due(Tail(list)[i])
    OBVIOUS
  <2>2. i + 1 \in 1 .. Len(list) /\ Tail(list)[i] = list[i + 1]  BY <1>1
  <2>3. PICK j \in 1 .. Len(list) : Tail(list)[i] = list[j]  BY <2>2
  <2> QED  BY <1>5, <2>3
<1>10. \A X : s \notin X => X \ InList(Tail(list)) = X \ InList(list)
  <2>1. \A i \in 1 .. Len(Tail(list)) : i + 1 \in 1 .. Len(list)  BY <1>1
  <2>2. InList(Tail(list)) \subseteq InList(list)
    <3>1. ASSUME NEW i \in 1 .. Len(Tail(list)) PROVE Tail(list)[i] \in InList(list)
      <4>1. Tail(list)[i] = list[i + 1] /\ i + 1 \in 1 .. Len(list)  BY <1>1, <2>1
      <4> QED  BY <4>1 DEF InList
    <3> QED  BY <3>1 DEF InList
  <2>3. ASSUME NEW i \in 1 .. Len(list), list[i] # s PROVE list[i] \in InList(Tail(list))
    <3> DEFINE k == i - 1
    <3>1. k \in 1 .. Len(Tail(list)) /\ k + 1 = i  BY <1>1, <2>3
    <3> HIDE DEF k
    <3>2. Tail(list)[k] = list[k + 1]  BY <1>1, <3>1
    <3> QED  BY <3>1, <3>2 DEF InList
  <2>4. InList(list) \subseteq InList(Tail(list)) \cup {s}  BY <2>3 DEF InList
  <2> QED  BY <2>2, <2>4
<1>11. (S!TypeOK)'  BY <1>4, <1>8, SnapshotTypes DEF S!TypeOK
<1>12. Persist /\ JobFits'  BY <1>4, <1>6, MovesFit DEF Moves
<1>13. \A d \in Calls : job'[d].pc = job[d].pc /\ job'[d].op = job[d].op
  BY <1>4 DEF Moves
<1>14. \A d \in Calls : file'[d] = "whole" => file[d] = "whole" /\ d # s
  BY <1>8
<1>15. SavedFit'
  BY <1>13, <1>14 DEF SnapshotsInv, SavedFit
<1>16. ASSUME NEW d \in Calls, job'[d].pc = "cleanup", NEW i \in 1 .. Len(job'[d].todo)
       PROVE  /\ job[job'[d].todo[i]].op = "create" /\ job'[d].todo[i] \in Calls
              /\ Due(job'[d].todo[i])
  <2>1. CASE d = c  BY <1>4, <1>9, <1>16, <2>1
  <2>2. CASE d # c
    <3>1. job'[d] = job[d]  BY <1>4, <2>2 DEF Moves
    <3>2. job[d].todo[i] \in Calls  BY <1>16, <3>1, SnapshotTypes, ElementOfSeq
    <3>3. job[job[d].todo[i]].op = "create" /\ Due(job[d].todo[i])
      BY <1>16, <3>1 DEF SnapshotsInv, CleanUpsFit
    <3> QED  BY <3>1, <3>2, <3>3
  <2> QED  BY <2>1, <2>2
<1>17. \A d \in saved' \ removed' : file'[d] # "whole" =>
          \/ d \in saved \ removed /\ file[d] # "whole"
          \/ job[d].op = "create" /\ Due(d)
  <2>1. SUFFICES ASSUME NEW d \in saved \ removed, file'[d] # "whole", file[d] = "whole"
                 PROVE  job[d].op = "create" /\ Due(d)
    OBVIOUS
  <2>2. d = s  BY <1>8, <2>1, SnapshotTypes
  <2> QED  BY <1>7, <2>2
<1>18. ASSUME NEW d \in Calls, NEW X \in SUBSET Calls,
              X \subseteq Kept(job[d].tenant)', AnswersFor(d, X)
       PROVE  AnswersFor(d, X)'
  <2>1. CASE d # c
    <3>1. job'[d] = job[d]  BY <1>4, <2>1 DEF Moves
    <3> QED  BY <1>18, <3>1 DEF AnswersFor
  <2>2. CASE d = c
    <3>1. s \notin X  BY <1>8, <1>18 DEF Kept
    <3>2. X \ InList(Tail(list)) = X \ InList(list)  BY <1>10, <3>1
    <3>3. c \in partial \/ Cardinality(X \ InList(list)) <= MaxSnapshots
      BY <1>18, <2>2 DEF AnswersFor, list
    <3> QED  BY <1>4, <2>2, <3>2, <3>3 DEF AnswersFor
  <2> QED  BY <2>1, <2>2
<1>19. saved \subseteq saved' /\ horizon <= horizon'  BY SnapshotTypes
<1> QED  BY <1>11, <1>12, <1>14, <1>15, <1>16, <1>17, <1>18, <1>19, SnapshotsStep

LEMMA CleanupStep ==
    ASSUME SnapshotsInv, NEW c \in Calls, S!Cleanup(c)
    PROVE  SnapshotsInv'
<1>1. /\ job[c].pc = "cleanup"
      /\ UNCHANGED <<home, clock, horizon, life, faults, saved, removed, partial>>
      /\ \/ job[c].todo = <<>> /\ S!Finish(c, "ok") /\ UNCHANGED file
         \/ S!Finish(c, "error") /\ UNCHANGED file
         \/ /\ job[c].todo # <<>>
            /\ file' = [file EXCEPT ![Head(job[c].todo)] = "absent"]
            /\ job' = [job EXCEPT ![c].todo = Tail(@)]
  BY DEF S!Cleanup, S!At
<1>2. job[c].op = "create"  BY <1>1 DEF SnapshotsInv, JobFits
<1>3. CASE job[c].todo = <<>> /\ S!Finish(c, "ok") /\ UNCHANGED file
  <2>1. /\ job' \in [Calls -> S!Call] /\ Moves(c) /\ job'[c].pc = "done"
    BY <1>1, <1>3, FinishFacts
  <2>2. InList(job[c].todo) = {}  BY <1>3 DEF InList
  <2>3. \A X : X \ InList(job[c].todo) = X  BY <2>2
  <2>4. ASSUME NEW X, AnswersFor(c, X) PROVE AnswersFor(c, X)'
    <3>1. c \in partial \/ Cardinality(X \ InList(job[c].todo)) <= MaxSnapshots
      BY <1>1, <2>4 DEF AnswersFor
    <3>2. c \in partial \/ Cardinality(X) <= MaxSnapshots  BY <2>3, <3>1
    <3>3. partial' = partial  BY <1>1
    <3> QED  BY <2>1, <3>2, <3>3 DEF AnswersFor
  <2> QED  BY <1>1, <1>3, <2>1, <2>4, SnapshotTypes, QuietMove
<1>4. CASE S!Finish(c, "error") /\ UNCHANGED file
  BY <1>1, <1>4, SnapshotTypes, FailedMove
<1>5. CASE /\ job[c].todo # <<>>
           /\ file' = [file EXCEPT ![Head(job[c].todo)] = "absent"]
           /\ job' = [job EXCEPT ![c].todo = Tail(@)]
  BY <1>1, <1>5, DeleteTurn
<1> QED  BY <1>1, <1>3, <1>4, <1>5

\* A step of one call that changes one file, and has no list to clean up.
LEMMA FileMove ==
    ASSUME SnapshotsInv, NEW c \in Calls, job' \in [Calls -> S!Call], Moves(c),
           NEW s \in Calls, NEW v \in {"absent", "torn", "whole"},
           file' = [file EXCEPT ![s] = v], UNCHANGED <<home, clock, horizon, life, faults, partial>>,
           saved \subseteq saved', saved' \subseteq Calls, removed' \subseteq Calls,
           job[c].pc \in {"write", "writing", "unlink"},
           job'[c].pc \in {"writing", "readdir", "done"},
           job'[c].pc = "writing" => job[c].op = "create",
           job[c].op = "create" => job'[c].pc # "done",
           \/ v = "torn" /\ s \notin saved /\ UNCHANGED <<saved, removed>>
           \/ /\ v = "whole" /\ s = c /\ job'[c].pc = "readdir" /\ job[c].op = "create"
              /\ saved' = saved \cup {c} /\ UNCHANGED removed
           \/ v = "absent" /\ removed' = removed \cup {s} /\ UNCHANGED saved
    PROVE  SnapshotsInv'
<1>1. (S!TypeOK)'
  <2>1. file' \in [Calls -> {"absent", "torn", "whole"}]  BY SnapshotTypes
  <2> QED  BY <2>1, SnapshotTypes DEF S!TypeOK
<1>2. Persist /\ JobFits'
  <2>1. job'[c].pc \notin {"encrypt", "write", "cleanup", "read", "decrypt", "unlink", "readFiles", "idle"}
    OBVIOUS
  <2>2. job'[c].op = job[c].op  BY DEF Moves
  <2> QED  BY <2>1, <2>2, MovesFit
<1>3. /\ file'[s] = v /\ \A d \in Calls \ {s} : file'[d] = file[d]
      /\ \A d \in Calls \ {c} : job'[d] = job[d]
      /\ job'[c].op = job[c].op
  BY SnapshotTypes DEF Moves
<1>4. c \notin saved  BY DEF SnapshotsInv, SavedFit
<1>5. SavedFit'
  <2>1. SUFFICES ASSUME NEW d \in Calls
        PROVE  /\ d \in saved' => /\ job'[d].op = "create"
                                  /\ job'[d].pc \in {"readdir", "readFiles", "cleanup", "done"}
               /\ file'[d] = "whole" => d \in saved'
    BY DEF SavedFit
  <2>2. /\ d \in saved => /\ job[d].op = "create"
                          /\ job[d].pc \in {"readdir", "readFiles", "cleanup", "done"}
        /\ file[d] = "whole" => d \in saved
    BY DEF SnapshotsInv, SavedFit
  <2>3. CASE d # c  BY <1>3, <2>2, <2>3
  <2>4. CASE d = c  BY <1>3, <1>4, <2>2, <2>4
  <2> QED  BY <2>3, <2>4
<1>6. ASSUME NEW d \in Calls, job'[d].pc = "cleanup", NEW i \in 1 .. Len(job'[d].todo)
      PROVE  /\ job[job'[d].todo[i]].op = "create" /\ job'[d].todo[i] \in Calls
             /\ Due(job'[d].todo[i])
  <2>1. job'[d] = job[d]  BY <1>3, <1>6
  <2>2. job[d].todo[i] \in Calls  BY <1>6, <2>1, SnapshotTypes, ElementOfSeq
  <2>3. job[job[d].todo[i]].op = "create" /\ Due(job[d].todo[i])
    BY <1>6, <2>1 DEF SnapshotsInv, CleanUpsFit
  <2> QED  BY <2>1, <2>2, <2>3
<1>7. \A d \in saved' \ removed' : file'[d] # "whole" =>
         d \in saved \ removed /\ file[d] # "whole"
  <2>1. SUFFICES ASSUME NEW d \in saved' \ removed', file'[d] # "whole"
                 PROVE  d \in saved \ removed /\ file[d] # "whole"
    OBVIOUS
  <2>2. CASE d = s  BY <1>3, <2>1, <2>2
  <2>3. CASE d # s  BY <1>3, <2>1, <2>3
  <2> QED  BY <2>2, <2>3
<1>8. \A d \in Calls : file'[d] = "whole" => file[d] = "whole" \/ job'[d].pc = "readdir"
  BY <1>3
<1>9. ASSUME NEW d \in Calls, NEW X \in SUBSET Calls, job[d].op = "create", AnswersFor(d, X)
      PROVE  AnswersFor(d, X)'
  <2>1. d # c  BY <1>9 DEF AnswersFor
  <2>2. job'[d] = job[d]  BY <1>3, <2>1
  <2> QED  BY <1>9, <2>2 DEF AnswersFor
<1>10. saved \subseteq saved' /\ horizon <= horizon'  BY SnapshotTypes
<1> QED  BY <1>1, <1>2, <1>5, <1>6, <1>7, <1>8, <1>9, <1>10, SnapshotsStep

LEMMA WriteStep ==
    ASSUME SnapshotsInv, NEW c \in Calls, S!WriteBegins(c) \/ S!WriteEnds(c)
    PROVE  SnapshotsInv'
<1>1. CASE S!WriteBegins(c)
  <2>1. /\ job[c].pc = "write" /\ S!Goto(c, "writing") /\ file' = [file EXCEPT ![c] = "torn"]
        /\ UNCHANGED <<home, clock, horizon, life, faults, saved, removed, partial>>
    BY <1>1, Zenon DEF S!WriteBegins, S!At
  <2>2. job' \in [Calls -> S!Call] /\ Moves(c) /\ job'[c].pc = "writing"
    BY <2>1, GotoFacts DEF JobPlaces
  <2>3. job[c].op = "create" /\ c \notin saved
    BY <2>1 DEF SnapshotsInv, JobFits, SavedFit
  <2> QED  BY <2>1, <2>2, <2>3, SnapshotTypes, FileMove
<1>2. CASE S!WriteEnds(c)
  <2>1. /\ job[c].pc = "writing" /\ S!Goto(c, "readdir") /\ file' = [file EXCEPT ![c] = "whole"]
        /\ saved' = saved \cup {c}
        /\ UNCHANGED <<home, clock, horizon, life, faults, removed, partial>>
    BY <1>2, Zenon DEF S!WriteEnds, S!At
  <2>2. job' \in [Calls -> S!Call] /\ Moves(c) /\ job'[c].pc = "readdir"
    BY <2>1, GotoFacts DEF JobPlaces
  <2>3. job[c].op = "create"  BY <2>1 DEF SnapshotsInv, JobFits
  <2> QED  BY <2>1, <2>2, <2>3, SnapshotTypes, FileMove
<1> QED  BY <1>1, <1>2

LEMMA UnlinkStep ==
    ASSUME SnapshotsInv, NEW c \in Calls, S!Unlink(c)
    PROVE  SnapshotsInv'
<1>1. /\ job[c].pc = "unlink" /\ UNCHANGED <<home, clock, horizon, life, faults, saved, partial>>
      /\ \/ S!Finish(c, "error") /\ UNCHANGED <<file, removed>>
         \/ /\ S!Finish(c, "ok") /\ removed' = removed \cup {job[c].target}
            /\ file' = [file EXCEPT ![job[c].target] = "absent"]
  BY DEF S!Unlink, S!At
<1>2. job[c].op # "create" /\ job[c].target \in Calls  BY <1>1 DEF SnapshotsInv, JobFits
<1>3. CASE S!Finish(c, "error") /\ UNCHANGED <<file, removed>>
  BY <1>1, <1>2, <1>3, SnapshotTypes, FailedMove
<1>4. CASE /\ S!Finish(c, "ok") /\ removed' = removed \cup {job[c].target}
           /\ file' = [file EXCEPT ![job[c].target] = "absent"]
  <2>1. /\ job' \in [Calls -> S!Call] /\ Moves(c) /\ job'[c].pc = "done"
    BY <1>1, <1>4, FinishFacts
  <2>2. PICK s \in Calls : s = job[c].target  BY <1>2
  <2>3. removed' = removed \cup {s} /\ file' = [file EXCEPT ![s] = "absent"]  BY <1>4, <2>2
  <2>4. saved \subseteq saved' /\ saved' \subseteq Calls /\ removed' \subseteq Calls
    BY <1>1, <2>3, SnapshotTypes
  <2>5. job[c].pc \in {"write", "writing", "unlink"}
        /\ job'[c].pc \in {"writing", "readdir", "done"} /\ job'[c].pc # "writing"
    BY <1>1, <2>1
  <2>6. "absent" \in {"absent", "torn", "whole"}  OBVIOUS
  <2> QED  BY <1>1, <1>2, <2>1, <2>3, <2>4, <2>5, <2>6, FileMove
<1> QED  BY <1>1, <1>3, <1>4

LEMMA TimeStep ==
    ASSUME SnapshotsInv, S!TimePasses
    PROVE  SnapshotsInv'
<1>1. /\ UNCHANGED <<file, home, job, clock, life, faults, saved, removed, partial>>
      /\ horizon' = horizon + 1 /\ horizon' \in Nat /\ horizon <= horizon'
  BY SnapshotTypes DEF S!TimePasses
<1>2. (S!TypeOK)' /\ JobFits' /\ SavedFit' /\ Persist
  BY <1>1, SnapshotTypes
     DEF S!TypeOK, SnapshotsInv, JobFits, Seen, SavedFit, Persist, S!SnapshotsOf
<1>3. ASSUME NEW d \in Calls, job'[d].pc = "cleanup", NEW i \in 1 .. Len(job'[d].todo)
      PROVE  /\ job[job'[d].todo[i]].op = "create" /\ job'[d].todo[i] \in Calls
             /\ Due(job'[d].todo[i])
  <2>1. job'[d] = job[d]  BY <1>1
  <2>2. job[d].todo[i] \in Calls  BY <1>3, <2>1, SnapshotTypes, ElementOfSeq
  <2>3. job[job[d].todo[i]].op = "create" /\ Due(job[d].todo[i])
    BY <1>3, <2>1 DEF SnapshotsInv, CleanUpsFit
  <2> QED  BY <2>1, <2>2, <2>3
<1>4. \A d \in Calls, X \in SUBSET Calls : AnswersFor(d, X) => AnswersFor(d, X)'
  BY <1>1 DEF AnswersFor
<1> QED  BY <1>1, <1>2, <1>3, <1>4, SnapshotsStep

\* The calls under way end with an error, the others are as they were.
LEMMA RestartStep ==
    ASSUME SnapshotsInv, S!Restart
    PROVE  SnapshotsInv'
<1>1. /\ UNCHANGED <<file, home, clock, horizon, faults, saved, removed, partial>>
      /\ life' \in Nat /\ horizon <= horizon'
      /\ job' = [c \in Calls |-> IF job[c].pc \in {"idle", "done"} THEN job[c]
                   ELSE [job[c] EXCEPT !.pc = "done", !.names = {}, !.found = {}, !.todo = <<>>,
                                        !.res = "error"]]
  <2>1. /\ UNCHANGED <<file, home, clock, horizon, faults, saved, removed, partial>>
        /\ life' = life + 1
        /\ job' = [c \in Calls |-> IF job[c].pc \in {"idle", "done"} THEN job[c]
                   ELSE [job[c] EXCEPT !.pc = "done", !.names = {}, !.found = {}, !.todo = <<>>,
                                        !.res = "error"]]
    BY Zenon DEF S!Restart
  <2>2. horizon' = horizon /\ horizon \in Nat /\ life \in Nat  BY <2>1, SnapshotTypes
  <2>3. life' = life + 1  BY <2>1, Zenon
  <2>4. life' \in Nat /\ horizon <= horizon'  BY <2>2, <2>3
  <2> QED  BY <2>1, <2>4, Zenon
<1>2. ASSUME NEW c \in Calls
      PROVE  /\ job'[c] \in S!Call /\ SameCreation(job[c], job'[c])
             /\ \/ job'[c] = job[c] /\ job[c].pc \in {"idle", "done"}
                \/ job'[c].pc = "done" /\ job'[c].res = "error" /\ job[c].pc # "idle"
  <2>1. CASE job[c].pc \in {"idle", "done"}
    BY <1>1, <2>1, SnapshotTypes DEF SameCreation
  <2>2. CASE job[c].pc \notin {"idle", "done"}
    <3> DEFINE void == <<>>
    <3> DEFINE r1 == [job[c] EXCEPT !.pc = "done"]
    <3> DEFINE r2 == [r1 EXCEPT !.names = {}]
    <3> DEFINE r3 == [r2 EXCEPT !.found = {}]
    <3> DEFINE r4 == [r3 EXCEPT !.todo = void]
    <3> DEFINE r == [r4 EXCEPT !.res = "error"]
    <3>1. job'[c] = r  BY <1>1, <2>2
    <3>2. r1 \in S!Call /\ r1.pc = "done" /\ SameCreation(job[c], r1)
      <4>1. "done" \in JobPlaces  BY DEF JobPlaces
      <4> QED  BY <4>1, PlaceFacts, Zenon
    <3> HIDE DEF r1
    <3>3. r2 \in S!Call /\ r2.pc = "done" /\ SameCreation(r1, r2)
      BY <3>2 DEF S!Call, SameCreation
    <3> HIDE DEF r2
    <3>4. r3 \in S!Call /\ r3.pc = "done" /\ SameCreation(r2, r3)
      BY <3>3 DEF S!Call, SameCreation
    <3> HIDE DEF r3
    <3>5. void \in Seq(Calls)  OBVIOUS
    <3> HIDE DEF void
    <3>6. r4 \in S!Call /\ r4.pc = "done" /\ SameCreation(r3, r4)
      BY <3>4, <3>5 DEF S!Call, SameCreation
    <3> HIDE DEF r4
    <3>7. r \in S!Call /\ r.pc = "done" /\ r.res = "error" /\ SameCreation(r4, r)
      BY <3>6 DEF S!Call, SameCreation
    <3> HIDE DEF r
    <3> QED  BY <2>2, <3>1, <3>2, <3>3, <3>4, <3>6, <3>7 DEF SameCreation
  <2> QED  BY <2>1, <2>2
<1>3. (S!TypeOK)'
  <2>1. job' \in [Calls -> S!Call]  BY <1>1, <1>2
  <2> QED  BY <1>1, <2>1, SnapshotTypes DEF S!TypeOK
<1>4. Persist  BY <1>2 DEF Persist, SameCreation
<1>5. JobFits'
  <2>1. \A c \in Calls :
        /\ job'[c].op = "create" =>
              job'[c].tenant \in Registered /\ job'[c].stamp < clock' /\ job'[c].pc # "idle"
        /\ job'[c].pc \in {"idle", "done"}
        /\ job'[c].pc # "done" => job'[c].res = "none"
    <3>1. SUFFICES ASSUME NEW c \in Calls
          PROVE
          /\ job'[c].op = "create" =>
                job'[c].tenant \in Registered /\ job'[c].stamp < clock' /\ job'[c].pc # "idle"
          /\ job'[c].pc \in {"idle", "done"}
          /\ job'[c].pc # "done" => job'[c].res = "none"
      OBVIOUS
    <3>2. clock' = clock  BY <1>1
    <3>3. job'[c].op = job[c].op /\ job'[c].tenant = job[c].tenant /\ job'[c].stamp = job[c].stamp
      BY <1>2 DEF SameCreation
    <3>4. \/ job'[c] = job[c] /\ job[c].pc \in {"idle", "done"}
          \/ job'[c].pc = "done" /\ job'[c].res = "error" /\ job[c].pc # "idle"
      BY <1>2
    <3>5. /\ job[c].op = "create" =>
                job[c].tenant \in Registered /\ job[c].stamp < clock /\ job[c].pc # "idle"
          /\ job[c].pc # "done" => job[c].res = "none"
      BY DEF SnapshotsInv, JobFits
    <3> QED  BY <3>2, <3>3, <3>4, <3>5
  <2>2. \A c, d \in Calls :
          /\ job'[c].op = "create" /\ job'[d].op = "create" /\ job'[c].stamp = job'[d].stamp
          => c = d
    BY <1>2 DEF SnapshotsInv, JobFits, SameCreation
  <2>3. ASSUME NEW c \in Calls
        PROVE  /\ job'[c].names \subseteq (S!SnapshotsOf(job[c].tenant))'
               /\ job'[c].found \subseteq (Seen(job[c].tenant))'
    <3>1. /\ job'[c].tenant = job[c].tenant
          /\ job'[c].names \subseteq S!SnapshotsOf(job[c].tenant)
          /\ job'[c].found \subseteq Seen(job[c].tenant)
      BY <1>2 DEF SnapshotsInv, JobFits, SameCreation
    <3>2. S!SnapshotsOf(job[c].tenant) \subseteq (S!SnapshotsOf(job[c].tenant))'
      BY <1>4, <3>1 DEF Persist, S!SnapshotsOf
    <3> QED  BY <1>1, <3>1, <3>2 DEF Seen
  <2> QED  BY <2>1, <2>2, <2>3 DEF JobFits
<1>6. SavedFit'
  <2>1. SUFFICES ASSUME NEW c \in Calls, c \in saved
                 PROVE  /\ job'[c].op = "create"
                        /\ job'[c].pc \in {"readdir", "readFiles", "cleanup", "done"}
    BY <1>1 DEF SavedFit, SnapshotsInv
  <2>2. job[c].op = "create" /\ job[c].pc \in {"readdir", "readFiles", "cleanup", "done"}
    BY <2>1 DEF SavedFit, SnapshotsInv
  <2> QED  BY <1>2, <2>2 DEF SameCreation
<1>7. \A c \in Calls : job'[c].pc # "cleanup"  BY <1>2
<1>8. \A c \in Calls : \A X \in SUBSET Calls :
         job[c].op = "create" /\ AnswersFor(c, X) => AnswersFor(c, X)'
  BY <1>1, <1>2 DEF AnswersFor
<1> QED  BY <1>1, <1>3, <1>4, <1>5, <1>6, <1>7, <1>8, SnapshotsStep

LEMMA SnapshotsNextStep ==
    ASSUME SnapshotsInv, [S!Next]_(S!vars)
    PROVE  SnapshotsInv'
<1>1. CASE UNCHANGED S!vars
  <2>1. UNCHANGED <<file, home, job, clock, horizon, life, faults, saved, removed, partial>>
    BY <1>1 DEF S!vars
  <2>2. (S!TypeOK)'  BY <2>1 DEF SnapshotsInv, S!TypeOK
  <2>3. JobFits' /\ SavedFit'  BY <2>1 DEF SnapshotsInv, JobFits, Seen, SavedFit, S!SnapshotsOf
  <2>4. CleanUpsFit'
    BY <2>1 DEF SnapshotsInv, CleanUpsFit, Due, S!Expired, S!SnapshotsOf
  <2>5. Answered'
    <3>1. \A t : Kept(t)' = Kept(t)  BY <2>1 DEF Kept, S!SnapshotsOf
    <3>2. \A c, X : AnswersFor(c, X)' <=> AnswersFor(c, X)  BY <2>1 DEF AnswersFor
    <3> QED  BY <3>1, <3>2 DEF SnapshotsInv, Answered
  <2> QED  BY <2>2, <2>3, <2>4, <2>5 DEF SnapshotsInv
<1>2. ASSUME NEW c \in Calls,
             S!Create(c) \/ S!ById(c) \/ S!Rollback(c) \/ S!Step(c)
      PROVE  SnapshotsInv'
  BY <1>2, CreateStep, ByIdStep, RollbackStep, EncryptedStep, WriteStep, ReaddirStep,
     AccessFaultStep, ReadFileStep, ListedStep, CleanupStep, ReadOneStep, UnlinkStep, DecryptStep, FileFaultStep
     DEF S!Step
<1> QED  BY <1>1, <1>2, TimeStep, RestartStep DEF S!Next

LEMMA SnapshotsInitially == S!Init => SnapshotsInv
<1>1. SUFFICES ASSUME S!Init PROVE SnapshotsInv  OBVIOUS
<1>2. /\ \A c \in Calls : job[c] = S!Idle /\ file[c] = "absent"
      /\ job = [c \in Calls |-> S!Idle] /\ saved = {} /\ removed = {} /\ partial = {}
  BY <1>1 DEF S!Init
<1>3. S!TypeOK  BY <1>1, <1>2, IdleJob DEF S!Init, S!TypeOK
<1>4. JobFits /\ SavedFit /\ CleanUpsFit  BY <1>2, IdleJob DEF JobFits, Seen, SavedFit, CleanUpsFit
<1>5. Answered  BY <1>2 DEF Answered, Kept, S!SnapshotsOf
<1> QED  BY <1>3, <1>4, <1>5 DEF SnapshotsInv

\* Overlapping clean-ups leave the newest alone: only what may be deleted ever is.
LEMMA InvKeepsNewest == SnapshotsInv => S!NewestAreKept
<1>1. SUFFICES ASSUME SnapshotsInv, NEW t \in Registered,
                      NEW s \in S!SnapshotsOf(t) \cap (saved \ removed),
                      ~S!Expired(s), file[s] # "whole",
                      S!Cardinality({n \in S!SnapshotsOf(t) \cap saved :
                                        job[n].stamp > job[s].stamp}) < MaxSnapshots
               PROVE  FALSE
  BY DEF S!NewestAreKept
<1> DEFINE X == {n \in S!SnapshotsOf(t) \cap saved : job[n].stamp > job[s].stamp}
<1>2. job[s].tenant = t  BY DEF S!SnapshotsOf
<1>3. Due(s)  BY <1>1 DEF SnapshotsInv, CleanUpsFit
<1>4. Cardinality(X) >= MaxSnapshots  BY <1>1, <1>2, <1>3 DEF Due
<1>5. X \in SUBSET Calls  BY DEF S!SnapshotsOf
<1> HIDE DEF X
<1>6. Cardinality(X) < MaxSnapshots  BY <1>1, SnapshotCardinality DEF X
<1> QED  BY <1>4, <1>5, <1>6, FiniteSnapshots, SnapshotsAssumption

\* Of the snapshots whose creations returned, one answers for all: they are in the limit.
LEMMA InvBounds == SnapshotsInv => S!StoreIsBounded
<1>1. SUFFICES ASSUME SnapshotsInv, NEW t \in Registered
               PROVE  Cardinality(Kept(t)) <= MaxSnapshots
                         + Cardinality({c \in S!SnapshotsOf(t) \cap saved :
                                           job[c].res # "ok" \/ c \in partial})
  BY SnapshotCardinality DEF S!StoreIsBounded, Kept
<1> DEFINE kept == Kept(t)
<1> DEFINE debts == {c \in S!SnapshotsOf(t) \cap saved : job[c].res # "ok" \/ c \in partial}
<1> DEFINE paid == kept \ debts
<1>2. kept \in SUBSET Calls /\ debts \in SUBSET Calls /\ paid \in SUBSET kept
  BY DEF Kept, S!SnapshotsOf
<1>3. ASSUME NEW c \in paid
      PROVE  c \in Calls /\ job[c].res = "ok" /\ job[c].pc = "done" /\ c \notin partial
  <2>1. c \in S!SnapshotsOf(t) /\ c \in Calls /\ file[c] = "whole"
    BY DEF Kept, S!SnapshotsOf
  <2>2. c \in saved  BY <1>1, <2>1 DEF SnapshotsInv, SavedFit
  <2>3. job[c].res = "ok" /\ c \notin partial  BY <2>1, <2>2
  <2>4. job[c].pc # "done" => job[c].res = "none"  BY <1>1, <2>1 DEF SnapshotsInv, JobFits
  <2> QED  BY <2>1, <2>3, <2>4
<1> HIDE DEF kept, debts
<1>4. /\ IsFiniteSet(kept) /\ IsFiniteSet(debts) /\ IsFiniteSet(paid)
      /\ Cardinality(kept) \in Nat /\ Cardinality(debts) \in Nat /\ Cardinality(paid) \in Nat
  BY <1>2, FiniteSnapshots
<1>5. Cardinality(kept) <= Cardinality(paid) + Cardinality(debts)
  <2>1. kept \subseteq paid \cup debts  OBVIOUS
  <2>2. /\ IsFiniteSet(paid \cup debts)
        /\ Cardinality(paid \cup debts) =
              Cardinality(paid) + Cardinality(debts) - Cardinality(paid \cap debts)
    BY <1>4, FS_Union
  <2>3. Cardinality(kept) <= Cardinality(paid \cup debts)  BY <2>1, <2>2, FS_Subset
  <2>4. Cardinality(paid \cap debts) \in Nat
    BY <1>4, FS_Intersection, FS_CardinalityType
  <2> QED  BY <1>4, <2>2, <2>3, <2>4
<1>6. Cardinality(paid) <= MaxSnapshots
  <2>1. CASE paid = {}  BY <2>1, FS_EmptySet, SnapshotsAssumption
  <2>2. CASE paid # {}
    <3>1. PICK c \in paid : AnswersFor(c, paid)
      <4>1. paid \in SUBSET Kept(t)  BY <1>2 DEF kept
      <4>2. \A X \in SUBSET Kept(t) : X # {} => \E c \in X : AnswersFor(c, X)
        BY <1>1 DEF SnapshotsInv, Answered
      <4> HIDE DEF paid
      <4> QED  BY <2>2, <4>1, <4>2
    <3>2. job[c].res = "ok" /\ job[c].pc = "done" /\ c \notin partial  BY <1>3
    <3> QED  BY <3>1, <3>2 DEF AnswersFor
  <2> QED  BY <2>1, <2>2
<1> QED  BY <1>4, <1>5, <1>6, SnapshotsAssumption DEF kept, debts

\* Every call of the snapshot service, and every file, is what it may be.
THEOREM SnapshotsTypeCorrect == S!Spec => []S!TypeOK
<1>1. SnapshotsInv => S!TypeOK  BY DEF SnapshotsInv
<1> QED  BY <1>1, SnapshotsInitially, SnapshotsNextStep, PTL DEF S!Spec

\* DataSnapshotService: a clean-up, however stale its list, deletes only what was past
\* its retention or had the limit of newer snapshots saved after it.
THEOREM SnapshotsKept == S!Spec => []S!NewestAreKept
  BY InvKeepsNewest, SnapshotsInitially, SnapshotsNextStep, PTL DEF S!Spec

\* DataSnapshotService: a tenant has no more snapshots than the limit and one for each
\* creation that is under way, that failed, or whose listing a file error cut short.
THEOREM SnapshotsBounded == S!Spec => []S!StoreIsBounded
  BY InvBounds, SnapshotsInitially, SnapshotsNextStep, PTL DEF S!Spec

\* The same of Services: the newest snapshots of a tenant are there.
THEOREM NewestKept == Spec => []NewestAreKept
<1>1. S!NewestAreKept \/ ~(part = "snapshots") => NewestAreKept  BY DEF NewestAreKept
<1> QED  BY <1>1, SnapshotsKept, SnapshotsPart, PTL

\* The same of Services: the snapshots of a tenant are bounded by the limit and what the
\* creations under way, failed or cut short by a file error left.
THEOREM StoreBounded == Spec => []StoreIsBounded
<1>1. S!StoreIsBounded \/ ~(part = "snapshots") => StoreIsBounded  BY DEF StoreIsBounded
<1> QED  BY <1>1, SnapshotsBounded, SnapshotsPart, PTL

-----------------------------------------------------------------------------
(* Services.                                                               *)

\* Whichever service a behaviour is of, its variables hold values of their kinds.
THEOREM ServicesTypeCorrect == Spec => []TypeOK
<1>1. /\ A!TypeOK \/ ~(part = "accounts")
      /\ S!TypeOK \/ ~(part = "snapshots")
      /\ K!TypeOK \/ ~(part = "rotation")
      /\ L!TypeOK \/ ~(part = "audit")
      /\ B!TypeOK \/ ~(part = "batch")
      /\ R!TypeOK \/ ~(part = "requests")
      /\ T!TypeOK \/ ~(part = "threats")
      /\ N!TypeOK \/ ~(part = "alerts")
      /\ P!TypeOK \/ ~(part = "startup")
      /\ D!TypeOK \/ ~(part = "dialog")
      => TypeOK
  BY DEF TypeOK
<1>2. Spec => [](A!TypeOK \/ ~(part = "accounts"))  BY AccountsTypeCorrect, AccountsPart, PTL
<1>3. Spec => [](S!TypeOK \/ ~(part = "snapshots"))  BY SnapshotsTypeCorrect, SnapshotsPart, PTL
<1>4. Spec => [](K!TypeOK \/ ~(part = "rotation"))  BY RotationTypeCorrect, RotationPart, PTL
<1>5. Spec => [](L!TypeOK \/ ~(part = "audit"))  BY AuditTypeCorrect, AuditPart, PTL
<1>6. Spec => [](B!TypeOK \/ ~(part = "batch"))  BY BatchTypeCorrect, BatchPart, PTL
<1>7. Spec => [](R!TypeOK \/ ~(part = "requests"))  BY RequestsTypeCorrect, RequestsPart, PTL
<1>8. Spec => [](T!TypeOK \/ ~(part = "threats"))  BY ThreatsTypeCorrect, ThreatsPart, PTL
<1>9. Spec => [](N!TypeOK \/ ~(part = "alerts"))  BY AlertsTypeCorrect, AlertsPart, PTL
<1>10. Spec => [](P!TypeOK \/ ~(part = "startup"))  BY StartupTypeCorrect, StartupPart, PTL
<1>11. Spec => [](D!TypeOK \/ ~(part = "dialog"))  BY DialogTypeCorrect, DialogPart, PTL
<1> QED
  BY <1>1, <1>2, <1>3, <1>4, <1>5, <1>6, <1>7, <1>8, <1>9, <1>10, <1>11, PTL
=============================================================================
