------------------------------ MODULE Services -------------------------------
(***************************************************************************)
(* The services that share no state with one another except the database   *)
(* they are abstracted from: a behaviour is a behaviour of one of them,    *)
(* chosen at the start, and the variables of the others stay Unused.       *)
(***************************************************************************)
EXTENDS Naturals, FiniteSets

CONSTANTS
    Calls, MaxFaults,
    Emails, Passwords, Stores, Operations, Imported, NoStore, NoPassword, NoCall,
    Actions, MaxSnapshots, MaxRestarts, MaxHorizon, NoTenant, NoAction, NoSnapshot,
    TenantKeys, SystemKeys, AutoRotation,
    MaxDays, MaxCrashes, MaxLines, ChunkLines, ArchiveAge, RetentionAge,
    Total, BatchSize, MaxRetries,
    Requests, Tenants, Registered, Users, Products, Nobody,
    Ips, NoIp, Alerts,
    Domains, Short, NoDomain, MaxLaunches, MaxChecks,
    Unused

\* Every program has some email and some password, and imported rows have emails.
ASSUME AccountsAssumption ==
    /\ Emails # {} /\ Passwords # {} /\ Imported \subseteq Emails
    /\ MaxFaults \in Nat
\* There are finitely many calls.
ASSUME CallsAssumption == IsFiniteSet(Calls)
\* The two lists of keys have a length.
ASSUME RotationAssumption == TenantKeys \in Nat /\ SystemKeys \in Nat
\* A request names some product and some email; tenants in use are tenants.
ASSUME RequestsAssumption ==
    Products # {} /\ Imported # {} /\ Registered \subseteq Tenants
\* A batch is never empty and an entry is tried at least once (the defaults of
\* createTenantsBatch and createTenantWithRetry).
ASSUME BatchAssumption ==
    Total \in Nat /\ BatchSize \in Nat \ {0} /\ MaxRetries \in Nat \ {0}
\* There is a day, and a chunk is not empty and not above the size that is split.
ASSUME AuditAssumption ==
    /\ MaxDays \in Nat \ {0} /\ ArchiveAge \in Nat
    /\ MaxLines \in Nat /\ ChunkLines \in 1 .. MaxLines
\* A tenant may have a number of snapshots.
ASSUME SnapshotsAssumption == MaxSnapshots \in Nat
\* There is a domain to ask for.
ASSUME DialogAssumption == Domains # {} /\ MaxChecks \in Nat

VARIABLES
    part,     \* the service this behaviour is of
    faults,   \* errors of the database, of a file or of Redis so far
    users, sessions, stores, call, copy, ended, late,
    file, home, job, clock, horizon, life, saved, removed, partial,
    schedule, intervals, firsts, rotation, nextId, destroyed,
    entry, logs, archives, mtime, run, today, crashes, filed, purged, overtaken,
    chunk, phase, slot, attempt, rows, results,
    products, customers, members, req,
    response, connected, blocked, recorded, blocks, excused,
    enabled, phones, alert, sending, failures,
    env, boot, born,
    step, shown, props, domain, result, isLoading, isTaken, checks, launches, reserved,
    raced

A == INSTANCE Accounts
S == INSTANCE Snapshots WITH Tenants <- Registered
K == INSTANCE KeyRotation
L == INSTANCE AuditTrail
B == INSTANCE TenantBatch
R == INSTANCE TenantRequests WITH Emails <- Imported
T == INSTANCE ThreatResponse
N == INSTANCE AlertNotifier
P == INSTANCE Startup
D == INSTANCE OnboardingModal

accountsVars  == <<users, sessions, stores, call, copy, ended, late>>
snapshotsVars == <<file, home, job, clock, horizon, life, saved, removed, partial>>
rotationVars  == <<schedule, intervals, firsts, rotation, nextId, destroyed>>
auditVars     == <<entry, logs, archives, mtime, run, today, crashes, filed, purged,
                 overtaken>>
batchVars     == <<chunk, phase, slot, attempt, rows, results>>
requestsVars  == <<products, customers, members, req>>
threatsVars   == <<response, connected, blocked, recorded, blocks, excused>>
alertsVars    == <<enabled, phones, alert, sending, failures>>
startupVars   == <<env, boot, born>>
dialogVars    == <<step, shown, props, domain, result, isLoading, isTaken, checks, launches,
                 reserved, raced>>

vars == <<part, faults, accountsVars, snapshotsVars, rotationVars, auditVars, batchVars,
          requestsVars, threatsVars, alertsVars, startupVars, dialogVars>>

-----------------------------------------------------------------------------
NoAccounts ==
    /\ users = Unused /\ sessions = Unused /\ stores = Unused /\ call = Unused
    /\ copy = Unused /\ ended = Unused /\ late = Unused
NoSnapshots ==
    /\ file = Unused /\ home = Unused /\ job = Unused /\ clock = Unused
    /\ horizon = Unused /\ life = Unused /\ saved = Unused /\ removed = Unused
    /\ partial = Unused
NoRotation ==
    /\ schedule = Unused /\ intervals = Unused /\ firsts = Unused /\ rotation = Unused
    /\ nextId = Unused /\ destroyed = Unused
NoAudit ==
    /\ entry = Unused /\ logs = Unused /\ archives = Unused /\ mtime = Unused
    /\ run = Unused /\ today = Unused /\ crashes = Unused /\ filed = Unused
    /\ purged = Unused /\ overtaken = Unused
NoBatch ==
    /\ chunk = Unused /\ phase = Unused /\ slot = Unused /\ attempt = Unused
    /\ rows = Unused /\ results = Unused
NoRequests ==
    /\ products = Unused /\ customers = Unused /\ members = Unused /\ req = Unused
NoThreats ==
    /\ response = Unused /\ connected = Unused /\ blocked = Unused /\ recorded = Unused
    /\ blocks = Unused /\ excused = Unused
NoAlerts ==
    /\ enabled = Unused /\ phones = Unused /\ alert = Unused /\ sending = Unused
    /\ failures = Unused
NoStartup ==
    /\ env = Unused /\ boot = Unused /\ born = Unused
NoDialog ==
    /\ step = Unused /\ shown = Unused /\ props = Unused /\ domain = Unused
    /\ result = Unused /\ isLoading = Unused /\ isTaken = Unused /\ checks = Unused
    /\ launches = Unused /\ reserved = Unused /\ raced = Unused

AccountsInit ==
    /\ part = "accounts" /\ A!Init
    /\ NoSnapshots /\ NoRotation /\ NoAudit /\ NoBatch /\ NoRequests /\ NoThreats
    /\ NoAlerts /\ NoStartup /\ NoDialog

SnapshotsInit ==
    /\ part = "snapshots" /\ S!Init
    /\ NoAccounts /\ NoRotation /\ NoAudit /\ NoBatch /\ NoRequests /\ NoThreats
    /\ NoAlerts /\ NoStartup /\ NoDialog

RotationInit ==
    /\ part = "rotation" /\ K!Init /\ faults = 0
    /\ NoAccounts /\ NoSnapshots /\ NoAudit /\ NoBatch /\ NoRequests /\ NoThreats
    /\ NoAlerts /\ NoStartup /\ NoDialog

AuditInit ==
    /\ part = "audit" /\ L!Init
    /\ NoAccounts /\ NoSnapshots /\ NoRotation /\ NoBatch /\ NoRequests /\ NoThreats
    /\ NoAlerts /\ NoStartup /\ NoDialog

BatchInit ==
    /\ part = "batch" /\ B!Init /\ faults = 0
    /\ NoAccounts /\ NoSnapshots /\ NoRotation /\ NoAudit /\ NoRequests /\ NoThreats
    /\ NoAlerts /\ NoStartup /\ NoDialog

RequestsInit ==
    /\ part = "requests" /\ R!Init /\ faults = 0
    /\ NoAccounts /\ NoSnapshots /\ NoRotation /\ NoAudit /\ NoBatch /\ NoThreats
    /\ NoAlerts /\ NoStartup /\ NoDialog

ThreatsInit ==
    /\ part = "threats" /\ T!Init
    /\ NoAccounts /\ NoSnapshots /\ NoRotation /\ NoAudit /\ NoBatch /\ NoRequests
    /\ NoAlerts /\ NoStartup /\ NoDialog

AlertsInit ==
    /\ part = "alerts" /\ N!Init /\ faults = 0
    /\ NoAccounts /\ NoSnapshots /\ NoRotation /\ NoAudit /\ NoBatch /\ NoRequests
    /\ NoThreats /\ NoStartup /\ NoDialog

StartupInit ==
    /\ part = "startup" /\ P!Init /\ faults = 0
    /\ NoAccounts /\ NoSnapshots /\ NoRotation /\ NoAudit /\ NoBatch /\ NoRequests
    /\ NoThreats /\ NoAlerts /\ NoDialog

DialogInit ==
    /\ part = "dialog" /\ D!Init /\ faults = 0
    /\ NoAccounts /\ NoSnapshots /\ NoRotation /\ NoAudit /\ NoBatch /\ NoRequests
    /\ NoThreats /\ NoAlerts /\ NoStartup

Init ==
    \/ AccountsInit \/ SnapshotsInit \/ RotationInit \/ AuditInit \/ BatchInit
    \/ RequestsInit \/ ThreatsInit \/ AlertsInit \/ StartupInit \/ DialogInit

-----------------------------------------------------------------------------
AccountsNext ==
    /\ part = "accounts" /\ A!Next
    /\ UNCHANGED <<part, snapshotsVars, rotationVars, auditVars, batchVars, requestsVars,
                   threatsVars, alertsVars, startupVars, dialogVars>>

SnapshotsNext ==
    /\ part = "snapshots" /\ S!Next
    /\ UNCHANGED <<part, accountsVars, rotationVars, auditVars, batchVars, requestsVars,
                   threatsVars, alertsVars, startupVars, dialogVars>>

RotationNext ==
    /\ part = "rotation" /\ K!Next
    /\ UNCHANGED <<part, faults, accountsVars, snapshotsVars, auditVars, batchVars,
                   requestsVars, threatsVars, alertsVars, startupVars, dialogVars>>

AuditNext ==
    /\ part = "audit" /\ L!Next
    /\ UNCHANGED <<part, accountsVars, snapshotsVars, rotationVars, batchVars,
                   requestsVars, threatsVars, alertsVars, startupVars, dialogVars>>

BatchNext ==
    /\ part = "batch" /\ B!Next
    /\ UNCHANGED <<part, faults, accountsVars, snapshotsVars, rotationVars, auditVars,
                   requestsVars, threatsVars, alertsVars, startupVars, dialogVars>>

RequestsNext ==
    /\ part = "requests" /\ R!Next
    /\ UNCHANGED <<part, faults, accountsVars, snapshotsVars, rotationVars, auditVars,
                   batchVars, threatsVars, alertsVars, startupVars, dialogVars>>

ThreatsNext ==
    /\ part = "threats" /\ T!Next
    /\ UNCHANGED <<part, accountsVars, snapshotsVars, rotationVars, auditVars, batchVars,
                   requestsVars, alertsVars, startupVars, dialogVars>>

AlertsNext ==
    /\ part = "alerts" /\ N!Next
    /\ UNCHANGED <<part, faults, accountsVars, snapshotsVars, rotationVars, auditVars,
                   batchVars, requestsVars, threatsVars, startupVars, dialogVars>>

StartupNext ==
    /\ part = "startup" /\ P!Next
    /\ UNCHANGED <<part, faults, accountsVars, snapshotsVars, rotationVars, auditVars,
                   batchVars, requestsVars, threatsVars, alertsVars, dialogVars>>

DialogNext ==
    /\ part = "dialog" /\ D!Next
    /\ UNCHANGED <<part, faults, accountsVars, snapshotsVars, rotationVars, auditVars,
                   batchVars, requestsVars, threatsVars, alertsVars, startupVars>>

Next ==
    \/ AccountsNext \/ SnapshotsNext \/ RotationNext \/ AuditNext \/ BatchNext
    \/ RequestsNext \/ ThreatsNext \/ AlertsNext \/ StartupNext \/ DialogNext

Spec == Init /\ [][Next]_vars

-----------------------------------------------------------------------------
(* The properties, each of the service that states it.                     *)

\* Every variable of the service at work holds a value of its kind.
TypeOK ==
    /\ part = "accounts" => A!TypeOK
    /\ part = "snapshots" => S!TypeOK
    /\ part = "rotation" => K!TypeOK
    /\ part = "audit" => L!TypeOK
    /\ part = "batch" => B!TypeOK
    /\ part = "requests" => R!TypeOK
    /\ part = "threats" => T!TypeOK
    /\ part = "alerts" => N!TypeOK
    /\ part = "startup" => P!TypeOK
    /\ part = "dialog" => D!TypeOK

\* Two registrations (or a registration and an onboarding) of one email are never
\* both told they made the account: the two look-ups race, the index decides.
OneAccountPerEmail == part = "accounts" => A!OneAccountPerEmail

\* A changed password is undone only by a link of onboarding that wrote back a copy of
\* the row read before the change, and a linked store only by such a change of
\* password; nothing else loses what UserService.save wrote.
ChangeSurvives == part = "accounts" => A!ChangeSurvives

\* The refresh token of an ended session opens no other one, and after a change of
\* password no session stands that was opened with another password, but for calls
\* that were past their check when the sessions were ended.
SessionsEndTogether == part = "accounts" => A!SessionsEndTogether

\* Clean-ups that overlap, work from stale lists or die half way never cost a
\* tenant one of its newest snapshots: of those written and not removed on
\* request, one that is in time and has fewer than the limit after it is there.
NewestAreKept == part = "snapshots" => S!NewestAreKept

\* The limit holds up to one snapshot for each creation that is still cleaning up, that
\* failed, or whose listing a file error cut short, which returns as if it had cleaned up.
StoreIsBounded == part = "snapshots" => S!StoreIsBounded

\* A live interval is the one the map holds for its type, so that the next
\* emergency or a shutdown can stop it, even when emergencies overlap and end
\* one after the other (scheduleRotation, stopAllScheduledRotations).
IntervalsAreKnown == part = "rotation" => K!IntervalsAreKnown

\* Rotation is switched off only by a shutdown or while an emergency is at work:
\* failing keys or overlapping emergencies do not leave it off.
RotationStaysOn == part = "rotation" => K!RotationStaysOn

\* An entry that reached a file is in a log or in a complete archive until its
\* retention is over, whatever a run of the archiver was doing when an operation
\* failed or the process stopped.  The entries two defects lose are set apart:
\* those appended to a file while it is split, and those in a chunk, or in its
\* archive, that a second split of the same day's file comes to overwrite.
FiledEntriesSurvive == part = "audit" => L!FiledEntriesSurvive

\* The report of a finished batch accounts for every entry, and no more are
\* counted successful than have a tenant, however the retries of
\* createTenantWithRetry ended.
ReportIsTrue == part = "batch" => B!ReportIsTrue

\* Whatever a request says in its header, host, path, query and body, and
\* although the guard lets every route of ProductController through and the
\* handlers trust the header alone: the rows it reads or writes for a user who
\* belongs to a tenant are that tenant's (TenantContextInterceptor).
RowsStayWithTheTenant == part = "requests" => R!RowsStayWithTheTenant

\* A response to a critical or high threat from a known address is recorded only
\* after the address was blocked, unless Redis failed that very call.
RecordedAfterBlocking == part = "threats" => T!RecordedAfterBlocking

\* Whatever the channels do, and in whatever order, an alert that returned without a
\* recorded failure reached every enabled channel its severity calls for.
NoFailureIsSilent == part = "alerts" => N!NoFailureIsSilent

\* A server that was started in production listens only with two keys of full length
\* and a database, and goes on with them whatever is updated while it runs.
ProductionHasItsSecrets == part = "startup" => P!ProductionHasItsSecrets

\* As long as no button of a step already left was pressed, the dialog never has two
\* quick-starts under way, closed and opened again as often as the user likes, and
\* its last step stands for a store the server has, under the domain of the form.
DialogIsHonest == part = "dialog" => D!DialogIsHonest
===============================================================================
