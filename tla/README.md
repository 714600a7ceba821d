# A TLA+ verification of the newAI multi-tenant platform

The repository is a NestJS back end (`packages/core`) for a platform of online
stores: every store is a *tenant* with a PostgreSQL schema of its own, behind
layers of authentication, rate limiting, audit and encryption. `packages/web` is
its front end. This directory holds TLA+ modules translated from the TypeScript
of `packages/core` and of the onboarding dialog of `packages/web`, TLC configurations that check them on small instances, and
theorems about them that TLAPS checks for every value of the constants.

Paths below are relative to `src/packages/core/src` unless they start with `src/`.

Run a check with `tlc -config MCTenantShared.cfg MCTenantProvisioning`, a proof
with `tlapm TenantProvisioningProofs.tla`. `PROJECT.json` lists the runs, the
source lines of every definition, the mutant that breaks each property, the
hazards and the findings.

## 1. Inventory

How the parts interact. A request enters NestJS, which builds the object graph
of its handler, and its handler runs between awaits on one event loop; requests
interleave only at awaits, and all they share is PostgreSQL (through Prisma),
Redis, the files under `logs/` and `snapshots/`, and the fields of singleton
providers. Most services depend, directly or through `AuditService` and
`PrismaService`, on the request-scoped `TenantContextService`, which makes them
request-scoped too: their in-memory fields then live for one call
(`BruteForceProtectionService` is the exception and a singleton). The tests, and
scripts that build a service by hand, use one instance for many calls. Little is
retried, nothing is persisted about work in progress, and a restart forgets every
field in memory. Audit calls are wrappers that nobody awaits and that swallow
errors.

| Component | State | Hard behaviour | Correct when | Module |
|---|---|---|---|---|
| Tenant services: `tenants/tenant.service.ts` | the `tenants` table, `activeTenants` | several database calls per operation, each a place to interleave, throw or be killed | an open tenant has its schema; a suspension sticks; memory follows the database | `TenantProvisioning`, `TenantDirectory` |
| Tenant schemas: `tenants/database/*` | schemas and tables, `initializedSchemas` | check-then-act on the schema; a cached answer | what is reported initialised is complete | `TenantProvisioning` |
| Ids and schema names: `getSchemaName`, `onboarding/dtos/quick-start.dto.ts` | none | collisions; two conversions that disagree | distinct stores have distinct schemas | `SchemaNames` |
| Login throttle: `auth/services/brute-force-protection.service.ts` | Redis counters with a time to live, `isConnected` | check, password check and increment are separate awaits; `INCR` and `EXPIRE` are separate commands; errors let the login through | failures per lock period are bounded; a lock ends | `LoginThrottle` |
| Rate limiter: `security/layers/s6-rate-limiting/*` | Redis counter and block per key | the same two commands; answers out of order with the end of the window; fail-open | a window grants its limit; a refusal ends | `RateLimiter` |
| Accounts and sessions: `auth/*` | `users` and `sessions` tables | whole rows read, awaited and saved; refresh racing invalidation | one account per email; what is saved is not undone unnoticed; sessions end together | `Accounts` |
| Onboarding: `onboarding/*` | users and tenants tables | the store before its owner; look-ups that race | as above | `Accounts` |
| Onboarding dialog: `src/packages/web/src/components/OnboardingModal.tsx` | step, form, result, requests under way | answers, animations and presses in any order | one launch at a time; success means a store | `OnboardingModal` |
| Batches: `tenants/tenant-batch.service.ts`, `src/scripts/create-tenants-batch.js` | the chunk in progress | creations at once, retries | counts equal what was created | `TenantBatch` |
| Encryption: `security/layers/s7-encryption/encryption.service.ts` | key cache, random salts, timers | two calls that miss the cache; timers of older keys; rotation | an instance decrypts what it encrypted; no key stays for good | `KeyCustody` |
| Key rotation: `key-rotation.service.ts` | schedules, intervals, timers | emergencies, timers, shutdown at once | no interval is lost track of; rotation is not left off | `KeyRotation` |
| Snapshots, rollback: `security/recovery/*` | snapshot files | clean-ups at once over stale lists, torn files, restarts | retention keeps what it should and no more | `Snapshots` |
| Tenant context, guards, products: `security/layers/s2-tenant-isolation/*`, `products/*` | the context and user of a request, product and customer rows | five sources of a tenant id, three checks with exemptions of their own | rows stay with the user's tenant | `TenantRequests` |
| Audit log and archiver: `security/layers/s4-audit-logging/*` | log files, archives | appends under compression, split and purge; crashes | no filed entry is lost while it is due | `AuditTrail` |
| Automated response: `security/response/automated-response.service.ts` | blocked addresses in Redis | failing commands inside a list of actions | what is recorded was done | `ThreatResponse` |
| Alert notifier: `security/response/alert-notifier.service.ts` | channels of an alert | channels at once, first failure wins | no failure is silent | `AlertNotifier` |
| Start and environment: `main.ts`, `security/layers/s1-environment-verification/*` | the environment | checks in stages over values that change | a production server has its secrets | `Startup` |

`PROJECT.json` "components" repeats this list with what is modelled of each, and
"hazards" lists what is hard to test, each at its line, with the properties that
watch it.

## 2. Modules

The theorems about a module stand in a `...Proofs` module of their own, those about
the parts of `Services` in three: `ServicesProofs` and, over it, `AccountsProofs` and
`FilesProofs`. The modules named `MC...` give the constants values
for TLC.

| Module | Models | Checked by | Proofs |
|---|---|---|---|
| `TenantDirectory` | the promise of the tenant services: the life cycle of a tenant seen from outside | refined by `TenantProvisioning` | `TenantProvisioningProofs` |
| `TenantProvisioning` | `TenantService`, `SchemaInitializerService`, `TenantConnectionService` over PostgreSQL | `MCTenantProvisioning` | `TenantProvisioningProofs` |
| `LoginThrottle` | `BruteForceProtectionService` and `login` over Redis | `MCLoginThrottle` | `LoginThrottleProofs` |
| `RateLimiter` | `checkRateLimit` over Redis | `MCRateLimiter` | `RateLimiterProofs` |
| `SchemaNames` | `getSchemaName`, the onboarding slug | `MCSchemaNames` | `SchemaNamesProofs` |
| `KeyCustody` | `EncryptionService`: salts, derived keys, timers, ciphertexts | `MCKeyCustody` | `KeyCustodyProofs` |
| `Accounts` | `AuthService`, `UserService`, `SessionService`, `TwoFactorService`, `OnboardingService` over the users and sessions tables | `MCServices`, `MCAccounts` | `AccountsProofs` |
| `Snapshots` | `DataSnapshotService`, `RollbackService` over the snapshot files | `MCServices` | `FilesProofs` |
| `KeyRotation` | `KeyRotationService` | `MCServices` | `ServicesProofs` |
| `AuditTrail` | `AuditService.log` and `AuditArchiverService` over the log files | `MCServices` | `FilesProofs` |
| `TenantBatch` | `TenantBatchService` and the batch script | `MCServices` | `ServicesProofs` |
| `TenantRequests` | context, guards, interceptor, product and business controllers | `MCServices` | `ServicesProofs` |
| `ThreatResponse` | `AutomatedResponseService` with `blockIpAddress` | `MCServices` | `ServicesProofs` |
| `AlertNotifier` | `AlertNotifierService` | `MCServices` | `ServicesProofs` |
| `Startup` | `bootstrap`, `ApexConfigService`, `EnvValidatorService` | `MCServices` | `ServicesProofs` |
| `OnboardingModal` | the store-creation dialog | `MCServices`, `MCOnboardingModal` | `AccountsProofs` |
| `Services` | one of the ten services above at a time | `MCServices` | the same three |

`Services` puts the small services into one exploration: a behaviour is chosen at
the start to be of one of them (`part`), and the variables of the others stay
`Unused`. The ten services it holds share no variable, so this adds states up and
multiplies nothing.

### TenantDirectory

State: the status of every tenant id and the set of ids whose schema exists.
Steps: `Provision` (a schema appears), `Reserve` (a `PROVISIONING` row), `Open`
(the row becomes or is inserted `ACTIVE`, only with a schema), `Suspend`,
`Reactivate`. Nothing else may happen to a tenant: a suspended one cannot be
opened by a creation, an open one does not lose its schema.

### TenantProvisioning

A request is one call; `pc` names the await it is at, so an action is the code
between two awaits, and the call record holds its arguments and locals.

| State | Code |
|---|---|
| `rows` | the `tenants` table (id, unique `domain`, `status`, `schemaName`) |
| `schemas`, `tables` | PostgreSQL schemas and their base tables |
| `initialized`, `active` | `initializedSchemas` and `activeTenants`, per object graph |
| `pc`, `call` | the await of each call; its arguments, locals and result |

| Action | Code |
|---|---|
| `StartCreateTenant`, `StartCreateTenantWithStore`, `StartLoadActiveTenants`, `StartStatusChange`, `StartDropTenantSchema` | the five entries, up to their first await, with validation and early returns |
| `FindDomain`, `InsertProvisioning`, `UpdateActive` | `createTenantWithStore`: look for the domain, reserve the row, open it |
| `CacheCheck`, `SchemaExists`, `CreateSchema`, `CreateTable`, `MarkInitialized` | `initializeTenantSchema`, shared by all creations and the load |
| `InsertRow`, `Remember` | `createTenant` inserts the row; `activeTenants.set` of a creation or load |
| `FindActive`, `LoadNext` | `loadActiveTenants`: one query, then one tenant after another, errors skipped |
| `UpdateStatus`, `SetStatus` | `suspendTenant` and `activateTenant`: the row, then the object in memory |
| `DropExists`, `DropSchema`, `Forget` | `dropTenantSchema` |
| `DatabaseFault`, `LostReply` | a database call throws, without or with its effect; the `catch` of each method decides what follows (`Fail`) |
| `Crash`, `Return` | the process is killed and started again; the caller gets its answer |

Data that no property tells apart is abstracted: ids, domains and schema names
are model values, and the two functions from them to schema names are constants.
A `CREATE INDEX` is folded into the `CREATE TABLE` before it (its failure is the
table's `LostReply`); PostgreSQL's rare unique violation in simultaneous `CREATE
SCHEMA IF NOT EXISTS` counts as a `DatabaseFault`. Audit calls are synchronous
wrappers that swallow errors and change nothing kept here.

### LoginThrottle

`attempts` is the value of the Redis key of an email, `armed` says which keys have
a time to live, `connected` is `isConnected`. A login goes through
`EnsureConnection`, `Get` (refused when the count has reached the limit), `Verify`
(the password check) and then either `IncrEmail`, `IncrIp`, `ExpireEmail`,
`ExpireIp`, or `Del` after a right password. `CommandFails` and `ReplyLost` go
through the `catch` blocks, which let the login continue. The key of the address
is counted but never read, so it has steps and no state.

### RateLimiter

`count`, `armed` and `blocked` are the Redis keys of a limiter key; `Incr` counts
and remembers the answer, `ExpireAfter` arms the window if the answer was 1,
`Decide` compares, and a refused call goes through `Detect`, `BlockIpAddress` or
`ApplyEnhancedMonitoring`. `granted` is a history variable: what the present
window allowed. `CommandFails` and `ReplyLost` end in the `catch` that allows the
call. `count` saturates at `MaxCount`, which in the run lies past every
threshold of the code.

### SchemaNames

Ids are sequences over five classes of characters (small letter, capital, dash,
underscore, anything else); `GetSchemaName` is the chain of replacements and the
cut. Collapsing underscores keeps the positions that do not follow an underscore at
one (`Kept`) and numbers them by counting (`Place`, `At`), which says what the
replacement does without recursion, so that it can be reasoned about for every length.
The state only enumerates two ids by appending characters.

### KeyCustody

`hkdf` ignores its `info` argument, so a key is determined by the master key and
the salt, and the model's keys are salts. `salts`, `keys` and `timers` are
`saltCache`, `hkdfCache` and the pending `setTimeout`s of each instance; `fresh`
numbers the random salts; a ciphertext remembers the instance and the process it
was made in. A call takes `Lookup` (cache hit or not), `Derived` (salt, key, cache
entry, timer) and `UseEncrypt`, `UseDecrypt` or `UseRotate`; `Rotate` goes through
the contexts one await at a time. `Expire` is an old timer that may delete a newer
key, `Restart` forgets everything but the ciphertexts.

### Accounts

A call is one HTTP request and `pc` the database call it waits for. `Find`,
`FindAgain`, `Insert` are `findByEmail` and `UserService.create` with its unique
column; `Read` and `Save` are the read of a row and the write of all its columns;
`CreateSession`, `FindSession`, `InvalidateOne`, `InvalidateAll` are
`SessionService`; `CreateTenant` is the step of onboarding that
`TenantProvisioning` has in full. A stored password is plain (`hashed` is false)
after `register` and `quickStart` and a hash after `changePassword`.
`StoredSecretFits` is FALSE: the ciphertext of a 2FA secret has at least 256
characters and its column 255. Roles are left out, since no handler here looks at
one. A logout may present the refresh token of any session, as the code does not
compare its user with that of the access token.

Three history variables say what a call could not know. `copy` tells whether the row a
call read to save it later was saved by another call meanwhile (`stale`), and then
written back all the same (`written`). `ended` holds the sessions there were when
those of their user were ended, and `late` the calls that were then past their check
and before their session.

### Snapshots

`file` is absent, torn (a write under way or cut off by a restart) or whole. A listing
reads the directory (`Readdir`), then one file after another (`ReadFile`), and goes to
the method that asked for it (`Listed`). Two errors do not end the call: a directory
that cannot be reached is taken for an empty one (`AccessFault`), and a file that
cannot be read is left out (`ReadFileFault`). `partial` remembers the calls whose
listing was cut short so. Any other error does end it (`FileFault`). `Cleanup` takes the next
id of the list `Doomed` made of it: the expired, then everything beyond the limit,
duplicates included, as the code does. What was stamped before `horizon` is expired. A
restored snapshot is decrypted by the instance that made it or fails.

### KeyRotation

`schedule` is the map from type to interval, `intervals` the intervals alive,
`firsts` the timers of first rotations, `rotation` the runs in progress with the
number of keys they have left. `Emergency` clears the schedule, `End` sets it up
again. Both may happen after `ModuleDestroy`, because the code looks at no flag: what
is proved of the schedule holds up to the shutdown.

### AuditTrail

Log files and archives are sets of entries. An entry goes to the table or, when
the database does not take it, to the file of the day (`Fallback`). The archiver's
`StatLog`, `Gzip`, `Unlink`, `StatLarge`, `Lines`, `WriteChunk`, `UnlinkSplit` and
`Purge` are its awaits, with `FileError` and `Crash` at each. `overtaken` holds the
entries that splitting a large file loses (section 3), so that the property is about
all others: what is appended while the file is split, a chunk written over the chunk
of an earlier split, and an archive written over that of an earlier chunk of the same
name. `WriteChunk` is one step, although writing a file first truncates it: the file
being split holds its entries until `UnlinkSplit`, so an incomplete chunk loses nothing
that is not lost already.

### TenantBatch, TenantRequests, ThreatResponse, AlertNotifier, Startup

`TenantBatch`: a slot per entry of the chunk, its attempts and its result; `Count`
runs when all slots have settled. `TenantRequests`: `Arrive` builds the context from
header, host or path, `Authorise` the user, `Intercept` is the interceptor's chain
of refusals, and the handlers use the header alone. The handlers of `auth` are one
route that needs no token, though some have a JWT guard: they touch no row of a tenant.
`ThreatResponse`:
`ExecuteResponseAction` goes through the list of a level, `EnsureConnection`,
`SetBlock`, `SetFails` are the block, `Executed` the record. `AlertNotifier`: the
channels of an alert deliver or fail in any order; `Reject` is the first failure.
`Startup`: the checks in their order over an environment of absent, empty, short
and long values; `ValidateDynamicUpdate` writes it while the server runs.

### OnboardingModal

`step` is the state of the component and `shown` the step on the page, with the
props of its last rendering: `AnimatePresence mode="wait"` keeps a step that was
left, buttons included, until `ExitComplete`. `checks` and `launches` are the
requests under way, answered in any order by `CheckAnswer` and `Answered`. `raced`
records that a button of a step already left was pressed.

## 3. Runs

| Run | Instance | Shows | States |
|---|---|---|---|
| `MCTenantShared` | 1 tenant id, 2 domains, 2 calls at once in one object graph, 1 fault, 1 restart | type, `IInv`, refinement of `TenantDirectory`, `SuspensionSticks`; and with no fault or restart so far, `QuiescentTenantsAreWhole` and `ProvisioningCompletes` | 453,678 |
| `MCTenantScoped` | 2 ids after 1 domain, 2 calls with own graphs, 1 fault, 1 restart | `OpenRowsHaveSchema`, `AtMostOneCreator` | 655,992 |
| `MCTenantSerial` | 2 ids, 2 domains, all operations one at a time, 1 restart | `CachedSchemasExist`, `MemoryFollowsDatabase`, `KnownTenantsAreOpen`, drops included | 262,240 |
| `MCLoginThrottle` | 3 logins, limit 2, 2 faults, 1 restart | type, `AttemptsBounded`, `EveryCounterWillExpire`, `LockEndsUndisturbed` | 107,915 |
| `MCRateLimiter` | 3 requests, limit 2, counts to 4, 1 fault, 1 restart | type, `GrantsBounded`, `GrantsCounted`, `EveryWindowWillEnd`, `LimitEndsUndisturbed` | 459,820 |
| `MCSchemaNames` | all pairs of ids of up to 4 characters, cut at 3 | `SlugsNeverCollide`, `NamesAreCanonical` | 609,961 |
| `MCKeyCustody` | the system and 1 tenant, 2 contexts, 3 calls, 1 instance, 1 restart | `IInv`, `SameInstanceDecrypts`, `CachedKeysExpire` | 446,485 |
| `MCServices` | ten services, see below | type and fourteen properties | 2,229,074 |
| `MCTenantPartialSchema` | 1 call at a time, 1 fault | violates `OkMeansProvisioned` | |
| `MCLoginLockCrash` | 2 logins, 1 restart | violates `LockIsTemporary` | |
| `MCRegisterLogin` | 2 calls of `register` and `login` | violates `LoginAfterRegister` | |
| `MCModalSuccess` | 2 domains | violates `SuccessHasAResult` | |

What `MCServices` shows, with 1 fault in all:

| Part | Instance | Property |
|---|---|---|
| `Accounts` | 3 requests of 9 operations, 2 emails of which 1 has an imported account, 2 passwords, 1 store | `OneAccountPerEmail`, `ChangeSurvives`, `SessionsEndTogether` |
| `Snapshots` | 3 calls, limit 1, 1 restart, snapshots that expire | `NewestAreKept`, `StoreIsBounded` |
| `KeyRotation` | 3 runs, 1 key of a tenant and 1 of the system | `IntervalsAreKnown`, `RotationStaysOn` |
| `AuditTrail` | 3 entries, 4 days, 1 crash, files split at 1 line | `FiledEntriesSurvive` |
| `TenantBatch` | 3 entries in chunks of 2, 3 attempts | `ReportIsTrue` |
| `TenantRequests` | 2 tenants of which 1 is registered, 1 user, 1 request, every route, header, host, path, query and body | `RowsStayWithTheTenant` |
| `ThreatResponse` | 3 threats of any level, 1 address or none | `RecordedAfterBlocking` |
| `AlertNotifier` | 1 alert over 4 channels, enabled or not | `NoFailureIsSilent` |
| `Startup` | every environment, every update | `ProductionHasItsSecrets` |
| `OnboardingModal` | 2 domains, 2 launches, 2 checks, opened and closed at will | `DialogIsHonest` |

### What the violations show

- **Partial schema.** An error between `CREATE SCHEMA` and the last `CREATE TABLE`
  leaves a schema without tables; a retry finds the schema
  (`tenant-connection.service.ts:66`), skips the tables and reports success.
- **Login lock.** `EXPIRE` is a command after `INCR`. It follows every failure, and
  `INCR` keeps a time to live, so one failure after another leaves the key armed. But
  when the process stops while every failure of the period is between the two commands
  (as many at once as the limit: five in the code, two in the run), the key has no time
  to live, and every later login is refused before it could set one.
- **Register and login.** `register` stores the password where login expects a hash
  (`auth.service.ts:52`): nobody who registers can log in, although the acceptance
  script does just that.
- **Success without a store.** `nextStep` counts from whatever the step is, and a
  step that animates out keeps its Continue button
  (`OnboardingModal.tsx:29`): a few fast presses show "Your store is ready!".

Disagreements met while modelling that are not runs are in `PROJECT.json`
"findings" too: `createTenantWithStore` records a schema name that it does not
create; `suspendTenant` and `activateTenant` at once leave memory and database
apart (which is why `MemoryFollowsDatabase` is checked one call at a time); the rate
window has the login lock's defect; the audit script converts a dash differently;
two-factor authentication cannot be switched on; `GET tenants/health` can never be
answered; deleting a product through the business routes deletes nothing; a
response without an address is recorded as executed; an alert is recorded as sent
before it is; a split loses entries that arrive during it, and one file split twice
overwrites its chunks and their archives; an expired snapshot
beyond the limit is deleted twice, which makes a creation fail that was saved;
rotating a key yields the same key; the web pages use two names for the token;
timers of first rotations outlive the schedule; the link of `quickStart` writes back a
row read before it created the tenant, so that it and a change of password undo each
other; a creation whose listing met a file error returns as if it had cleaned up. And a
refused `createTenant` leaves its schema (`tenant.service.ts:27`).

### Bounds and why they are enough

`MaxInFlight`, `MaxFaults`, `MaxCrashes` and `MaxRestarts` bound calls at once,
failing database, file or Redis commands (a `connect()` that throws counts) and
restarts. Two calls exhibit every race of the tenant services: each property
relates one tenant or one key to at most two calls, and calls share only rows,
schemas and maps. Two calls in a row at the same caller give retries, so longer
histories are reached through `Return`. One fault and one restart reach every
`catch` and every partly done operation, also followed by a retry. Limits of 5
attempts and hundreds of requests become 2: one value below, at and above it are
enough for the comparisons, and three logins overshoot it. `MaxCount` of 4 passes
the anomaly threshold of 1.5 times the limit. The slice of 50 becomes 3, with ids
shorter, equal and longer.

In `MCServices` calls are used once, so three of them are one to set a state up and
two to race on it: a registration and two changes of its row, two creations that
clean up at once over an older snapshot, an emergency beside another and a manual
rotation. A limit of 1 snapshot is exceeded by the second. `MaxDays` of 4 lets a
file grow old enough to be archived and then purged; `MaxLines` and `ChunkLines` of
1 split a file of two entries. Three entries in chunks of two give a full and a
partial chunk. The domains in `Short` are those the dialog does not look up.
In `MCKeyCustody` two contexts and three calls let two of them miss the cache
together while a third rotates. Where there are theorems, they remove the bounds for
what they state.

One more parameter of the tenant services: whether the object graph is shared. Both
values are checked, `MCTenantShared` and `MCTenantScoped`.

### Fairness

`FairSpec` has weak fairness of `Continue(r)`: the event loop resumes a call
whose promise has settled, and a database or Redis command settles; and for the
Redis modules of `Expire`, `WindowEnds` and `BlockEnds`: Redis deletes an armed
key. No call is ever forced to start, fail or crash, and none of the liveness
properties rests on a user returning. `ProvisioningCompletes`,
`LockEndsUndisturbed` and `LimitEndsUndisturbed` have "or a fault or restart has
happened" as their way out: without it they are false, as `MCLoginLockCrash` shows
for the second.

Deadlock is checked in the runs of the tenant services, the throttle and the
limiter, whose callers return. The others stop by design: ids stop growing, each
call of a service is used once, and a server that refused to start is down.

## 4. Proofs

| Theorem | States | Module |
|---|---|---|
| `TypeCorrect` | `[]TypeOK` | `TenantProvisioningProofs` |
| `Invariance` | `[]IInv` | |
| `SchemasOfOpenRows` | `[]OpenRowsHaveSchema` | |
| `KnownTenants` | `[]KnownTenantsAreOpen` | |
| `SuspensionIsSticky` | `SuspensionSticks` | |
| `Refinement` | `ImplementsDirectory` | |
| `OneCreator` | `[]AtMostOneCreator` | |
| `QuietTenantsAreWhole` | `[]QuiescentTenantsAreWhole` | |
| `NoRowIsAbandoned` | `[]ReservedRowsAreOwned`, the safety half of `ProvisioningCompletes` | |
| `CachedSchemas`, `CachedSchemasAlone` | `[]CachedSchemasExist` | |
| `RowsInvariance` | `[]RowInv` | |
| `MemoryAgrees` | `[]MemoryFollowsDatabase` | |
| `TypeCorrect` | `[]TypeOK` | `LoginThrottleProofs` |
| `OvershootBounded` | `[]AttemptsBounded` | |
| `CountersWillExpire` | `[]EveryCounterWillExpire` | |
| `TypeCorrect` | `[]TypeOK` | `RateLimiterProofs` |
| `GrantsAreCounted`, `GrantsStayBounded` | `[]GrantsCounted`, `[]GrantsBounded` | |
| `WindowsWillEnd` | `[]EveryWindowWillEnd` | |
| `CustodyTypeCorrect` | `[]TypeOK` | `KeyCustodyProofs` |
| `KeysComeFromSalts` | `[]IInv` | |
| `InstanceDecryptsItsOwn` | `[]SameInstanceDecrypts` | |
| `KeysExpire` | `[]CachedKeysExpire` | |
| `NoIntervalIsForgotten` | `[]IntervalsAreKnown` | `ServicesProofs` |
| `RotationIsOn` | `[]RotationStaysOn` | |
| `RowsAreConfined` | `[]RowsStayWithTheTenant` | |
| `RecordedOnlyAfterBlocking` | `[]RecordedAfterBlocking` | |
| `ReportCountsEveryEntry` | `[]ReportIsTrue` | |
| `FailuresAreRecorded` | `[]NoFailureIsSilent` | |
| `ProductionSecrets` | `[]ProductionHasItsSecrets` | |
| `OneAccount` | `[]OneAccountPerEmail` | `AccountsProofs` |
| `ChangesSurvive` | `[]ChangeSurvives` | |
| `SessionsEnd` | `[]SessionsEndTogether` | |
| `HonestDialog` | `[]DialogIsHonest` | |
| `EntriesSurvive` | `[]FiledEntriesSurvive` | `FilesProofs` |
| `NewestKept` | `[]NewestAreKept` | |
| `StoreBounded` | `[]StoreIsBounded` | |
| `ServicesTypeCorrect` | `[]TypeOK` of `Services` | |
| `SlugsAreDistinct` | `[]SlugsNeverCollide` | `SchemaNamesProofs` |
| `NamesAreTheirOwn` | `[]NamesAreCanonical` | |

They hold for any finite set of calls and any bounds, from the assumptions on the
constants that each module names and TLC evaluates in every run. Most say that a bound
is a number or that a set is not empty. `BatchAssumption` says that a batch and the
number of attempts are not 0, as the defaults of the script and the service are;
`AuditAssumption` that a chunk has lines and no more of them than make a file large;
`SchemaNamesConstants` that the form admits no id longer than the cut (both are 50 in
the code).

**Tenants.** There are two inductive invariants. `RowInv` needs nothing of
`Operations`: `Shape` (where each method can be and with which arguments),
`KnownTenantsAreOpen`, `RowsKnown` (what each call relies on of a row at each await: the
row it will remember or change is open, and so are those it has still to load; the row
it reserved is still `PROVISIONING`) and `OneOwner` (the unique columns let one call own
a reserved row). `KnownTenants` and `SuspensionIsSticky` follow from it, the second by
looking at the writes of a step to the rows (`RowWriteKinds`), whose call they are
(`CallRowWrites`) and that it leaves its await with it (`WritersMove`); `TypeCorrect` and
`OneCreator` do not need even that. The others assume that no call is `dropTenantSchema`, which looks at
no row and may remove the schema of an open tenant. `OpenRowsHaveSchema` is not
inductive: a creation that is about to write `ACTIVE` must already have its schema, and
may have it from the cache or from a call in progress. `IInv` adds to `RowInv` that
`initializedSchemas` is never ahead of the database (`CacheInDatabase`) and that from
the first table on a call has its schema (`SchemasKnown`). `Refinement` maps each write
of a state of `IInv` to a step of `TenantDirectory`. `OneCreator` adds to `Shape` that
the row of a creation that has inserted is in the table under its id and domain,
and that no two creations claim one row.
`QuietTenantsAreWhole` adds that a schema that lacks a table has a call at work on
its tables that has all the earlier ones behind it, as long as nothing failed.
`NoRowIsAbandoned` states the safety half of `ProvisioningCompletes`: without a fault,
a restart or a drop, every `PROVISIONING` row belongs to a call of
`createTenantWithStore` whose update is still ahead (`OwnerStep`: each step of a call
keeps the row it owns or opens it), so that only scheduling is between it and `ACTIVE`.

`MemoryAgrees` and `CachedSchemasAlone` are about calls one at a time (`MaxInFlight =
1`) on one object graph over a database that does not fail, with drops and restarts:
the conditions of `MCTenantSerial`, for any numbers of tenants, callers and restarts.
Each condition is needed: a suspension beside an activation, an update whose reply is
lost or the memory of another object graph leaves an entry that differs from its row,
and the same three leave the name of a dropped schema in the cache. The invariant
`Solo` says that at most one call is in flight, that every entry is the status of its row
unless that call is between writing the one and writing the other (`InStep`), and what
the call knows of its row (`Certain`).

**Login throttle.** `AttemptsBounded` counts the failures and the calls still able
to add one; `Get` admits a call only below the limit, so the sum grows only within
`MaxAttempts - 1` plus the callers. Faults that skip the check raise `faults`.
`CountersWillExpire` follows each counter to the call that created it.

**Rate limiter.** `GrantsCounted` says that what is granted, with the calls counted
within the limit and not yet answered, is at most the counter, cut at the limit,
plus faults; `GrantsBounded` follows from it.

**Key custody.** `IInv` says that a cached key, a key a call holds and the key of a
ciphertext made by an instance that still lives come from the salt that instance
has for the tenant. It is inductive because a salt is drawn once per life of the
instance, and rotation draws none.

**Services.** `part` never changes, so that a behaviour of `Services` is a behaviour
of one part or never of it (`PartStep`, and a lemma such as `AccountsPart` for each).
A theorem about a part (`AccountsOne`) is proved of that part's own specification and
then carried to `Services` (`OneAccount`).

**Key rotation.** `IntervalsAreKnown` is inductive with `TypeOK`: an interval that
is set replaces one that was cleared. `RotationStaysOn` needs in addition that
intervals are numbered from 1: an emergency excuses the empty schedule until its
`End`, which fills it whether or not its keys rotated.

**Requests.** `RowsStayWithTheTenant` is strengthened by what the interceptor
established of a request that waits for its query: if its user belongs to a tenant and
it has a header, the header names that tenant (without a header the handlers refuse).

**Alerts, start, threats.** As long as no failure of an alert is recorded, each channel
that is due is sending or has delivered, and a call returns only when all have
delivered. From the check of the environment on, a server started in production has
the two long keys it was started with, because no later stage and no update writes
them. A response whose list of actions has passed the block has set it, had no address
or is excused by the failure it met (`BlockedOnTheWay`).

**Batches.** `BatchInv` divides the batch into what earlier chunks reported and the
slots of the present one: the two are disjoint, and together they are the entries up
to `Reached`. The counts of the report are cardinalities of disjoint sets, which
`DisjointUnion` adds up.

**Accounts.** Each kind of step is first
shown to be a `CallStep`: what one call does to the rows is nothing, an insert under an
email without a row, or a save of onboarding or of a changed password (`RowStep`); what
it does to the sessions is to make its own, once, or to end some (`SessionsStep`). The
invariant is then shown once for `CallStep`. It says which handlers can be at which
await, that a row about to be saved was there when it was read and carries the change
of its handler (`CallsFit`), that a session belongs to a call that is over and a logout
ends one that was made (`SessionsFit`), and that an email has one maker (`OneMade`).

`ChangesSurvive` rests on `CopiesFit`: a copy that no save has overtaken agrees with the
row in all but the change of its call, so a link that writes it leaves the password and
a change of password leaves the store. The theorem does not say that an update cannot
be lost. It says how one can: `quickStart` and `changePassword` undo each other, each by
writing an overtaken copy (`Overwritten`, a finding). Everything else keeps what was
saved (`ChangesKept`), `enable2FA` among it, but only because its save is always
refused (`StoredSecretFits`).

`SessionsEnd` has two parts. What a refresh found valid and was not ended since is not
in `ended`, so only a late refresh makes a session from an ended one (`EndedFit`). And
whoever passed the check of the password and is not late has the password of the row
(`PasswordsFit`): a change of password ends all others after its save, unless it fails
or stops in between (`Interrupted`), and a written back row brings the old password
with it. That the late ones do keep a session is a limit of the code, which ends the
sessions there are and not those about to be made.

**Audit.** `AuditInv` says of the suspended archiver what it relies on (`RunFits`): the
files it listed are still there and nothing is appended to them, because only the file
of the day is; an archive it is about to trust is whole and holds the log it is about
to delete; what it read of a file it splits is in a chunk or in `rest`. A day's file is
dated by its day, which is why a file old enough to be archived is not written to
(`FilesFit`). The proof of `StatLog` first failed: a file that is split, archived and
split again on the same day has an archive under the name of the new chunk, whose
entries are lost when the new archive is written over it. TLC with four entries and
five days shows the same, and `overtaken` now holds them.

**Snapshots.** A clean-up works through a list that is stale by the time it deletes.
What makes this harmless is that a snapshot which is due (expired, or beyond the limit
by the number of newer ones) stays due for good (`DueStays`): time passes, and newer
snapshots are only deleted when they are due themselves (`CleanUpsFit`). That a list
made by the code holds only due ones is a lemma about sorting by rank (`RanksDiffer`,
`RanksReach`, `DoomedFacts`). The bound on the store needs the opposite: of every set
of kept snapshots larger than the limit, one belongs to a creation that has not cleaned
up yet, still has one of the set to read or on its list, or whose listing was cut short
(`Answered`); it is stated for every subset, since that is what the last creation to
list the directory answers for.

**Dialog.** Unless a button of a step already left was pressed (`raced`, the case of
`MCModalSuccess`), a quick-start under way is the only one, the dialog waits for it in
its third step with the domain that was sent, and at the last step nothing is under
way (`Waiting`, `Arrived`). `PageFits` says when what the page shows is what the dialog
holds.

**Names.** An id is a sequence of any length, and what a recursive collapse does to all
of them would need induction over data. Counting avoids it: a position of `Kept` has a
place between 1 and the size of the set, a later one a later place (`PlaceFacts`), and
every such place is taken (`AtFacts`), so the n-th character kept and the next one are
two positions between which only underscores were dropped (`CollapseFacts`). Nothing is
dropped where no two underscores meet (`CollapseNothing`), hence a slug, and a name, is
its own name.

Only model-checked: liveness (`ProvisioningCompletes`, `LockEndsUndisturbed`,
`LimitEndsUndisturbed`), which is out of the prover's reach. What safety
contributes to each is proved: `NoRowIsAbandoned`, `CountersWillExpire`, `WindowsWillEnd`.

### What the properties leave out

- `MemoryFollowsDatabase` and `CachedSchemasExist` are checked and proved for calls one
  at a time, since a suspension beside an activation, or a drop beside a creation, does
  break them. `KnownTenantsAreOpen` runs so too, and is proved for all interleavings.
- `AttemptsBounded` and `GrantsBounded` count Redis faults in their bound: how long a
  throttle stays off while its connection is gone is not bounded by anything.
- `SameInstanceDecrypts` is about one life of an instance. After a restart its salts
  are gone, and so is what it encrypted.
- `FiledEntriesSurvive` sets apart the entries that a split loses (`overtaken`), and
  `StoreIsBounded` allows one snapshot for each creation that failed or was misled.
- `SessionsEndTogether` sets the `late` calls apart and `ChangeSurvives` the two pairs
  of writers that do undo each other.

## 5. Not modelled

- `SecurityMonitoringService` and `anomaly-analyzer`: the queries return empty lists
  and the health checks constants, so nothing is ever detected.
  `MonitoringGateway` and `PerformanceMonitorService` are providers of no module.
- `security/ai-supervisor`, `security/protocol/asmp`: not imported by `AppModule`;
  agents that simulate an external model, text judged by heuristics.
- `executeInTenantContext`, `PrismaService.withTenant`, `connectWithRetry`: no caller
  in the repository, so what would run inside them is unknown. `loadActiveTenants`,
  `suspendTenant`, `activateTenant`, `dropTenantSchema`, `createTenantWithStore` and
  `checkRateLimit` have none either and are modelled for what they promise.
- `common/caching`: a map with a timer per entry that no provider uses;
  `KeyCustody` has the same timers.
- Input validation, `sanitizeEventData`, CSP headers, DTOs: functions of one value.
- The ciphers, the hashes, JWT signatures and their expiry, messages and logs.
- `tenants/context/*`: copies of the modelled tenant context.
- The remaining pages and scripts: they fetch and show, and keep no shared state.

What would come next: `OnboardingModal` over `Accounts`, so that the dialog's success
is followed to the row.
