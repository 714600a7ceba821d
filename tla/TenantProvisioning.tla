-------------------------- MODULE TenantProvisioning --------------------------
(***************************************************************************)
(* The tenant life cycle of packages/core/src/tenants: TenantService,      *)
(* SchemaInitializerService and TenantConnectionService over the shared    *)
(* PostgreSQL database.                                                    *)
(*                                                                         *)
(* A request is one call of a TenantService (or TenantConnectionService)   *)
(* method.  Its program counter names the await it is suspended at, so     *)
(* every action is the code between two awaits, and requests interleave    *)
(* only there.  A database call may throw (MaxFaults of them), and the     *)
(* server process may be killed and restarted (MaxCrashes times).          *)
(*                                                                         *)
(* The in-memory collections belong to a service instance.  NestJS makes   *)
(* a provider request-scoped when it depends on a request-scoped one, as   *)
(* these do through AuditService and PrismaService, so each call then sees *)
(* empty collections; the tests build one shared instance.  RequestScoped  *)
(* and InstanceOf choose between the two; the theorems hold under both.    *)
(***************************************************************************)
EXTENDS Naturals, FiniteSets

CONSTANTS
    Tenants,         \* tenant ids (Tenant.id)
    Domains,         \* values of the unique Tenant.domain column
    Schemas,         \* PostgreSQL schema names
    SchemaName,      \* [Tenants -> Schemas], TenantConnectionService.getSchemaName
    StoreSchemaName, \* [Domains -> Schemas], the `tenant_${dto.subdomain}` literal
    Requests,        \* concurrent callers
    Instances,       \* TenantService object graphs
    InstanceOf,      \* [Requests -> Instances]
    RequestScoped,   \* is a fresh object graph built for every call?
    Operations,      \* which methods are called
    MaxInFlight,     \* bound on concurrent calls
    MaxFaults,       \* bound on database calls that throw
    MaxCrashes,      \* bound on process restarts
    NoDomain, NoSchema, NoTenant    \* "not set"

BaseTables == {"users", "products", "settings"}

AllOperations == {"createTenant", "createTenantWithStore", "loadActiveTenants",
                  "suspendTenant", "activateTenant", "dropTenantSchema"}

ASSUME ConstantsOK ==
    /\ SchemaName \in [Tenants -> Schemas]
    /\ StoreSchemaName \in [Domains -> Schemas]
    /\ InstanceOf \in [Requests -> Instances]
    /\ RequestScoped \in BOOLEAN
    /\ RequestScoped => \A r, q \in Requests : InstanceOf[r] = InstanceOf[q] => r = q
    /\ Operations \subseteq AllOperations
    /\ MaxInFlight \in Nat /\ MaxFaults \in Nat /\ MaxCrashes \in Nat
    /\ NoDomain \notin Domains /\ NoSchema \notin Schemas
    /\ NoTenant \notin Tenants

VARIABLES
    rows,        \* the tenants table: [Tenants -> Row], EmptyRow when absent
    schemas,     \* schemas that exist in the database
    tables,      \* [Schemas -> SUBSET BaseTables]
    initialized, \* [Instances -> SUBSET Schemas], initializedSchemas
    active,      \* [Instances -> [Tenants -> Statuses]], activeTenants
    pc,          \* [Requests -> Locations], the await a request is at
    call,        \* [Requests -> Call], its arguments, locals and result
    faults, crashes

database == <<rows, schemas, tables>>
memory   == <<initialized, active>>
bounds   == <<faults, crashes>>
vars     == <<rows, schemas, tables, initialized, active, pc, call, faults, crashes>>

-----------------------------------------------------------------------------
(* Rows, map entries and calls.                                            *)

Statuses == {"NONE", "PROVISIONING", "ACTIVE", "SUSPENDED"}
Row      == [status: Statuses, domain: Domains \cup {NoDomain},
             schemaName: Schemas \cup {NoSchema}]
EmptyRow == [status |-> "NONE", domain |-> NoDomain, schemaName |-> NoSchema]

\* The status "NONE" in activeTenants stands for "no entry".  An entry is a
\* mutable object: suspendTenant and activateTenant write through a reference
\* they read before an await, and "linked" says whether that object is still the
\* one in the map.
Call == [op: AllOperations \cup {"none"}, tenant: Tenants \cup {NoTenant},
         domain: Domains \cup {NoDomain}, todo: SUBSET Tenants,
         linked: BOOLEAN, res: {"none", "ok", "error", "conflict"}]
NewCall(op, t, d, linked, res) ==
    [op |-> op, tenant |-> t, domain |-> d, todo |-> {}, linked |-> linked, res |-> res]
NoCall == NewCall("none", NoTenant, NoDomain, FALSE, "none")

Locations == BaseTables \cup
    {"idle", "findDomain", "insertProvisioning", "cacheCheck", "schemaExists",
     "createSchema", "markInitialized", "insertRow", "updateActive", "remember",
     "findActive", "loadNext", "updateStatus", "setStatus",
     "dropExists", "dropSchema", "forget", "done"}

Inst(r)   == InstanceOf[r]
Ten(r)    == call[r].tenant
SchemaOf(r) == SchemaName[Ten(r)]
HasRow(t) == rows[t].status # "NONE"
Open(t)   == rows[t].status \in {"ACTIVE", "SUSPENDED"}
InFlight  == {r \in Requests : pc[r] # "idle"}
Quiescent == InFlight = {}

\* Mutants: the table without its unique domain; upsert instead of create.
UniqueForMutantIdOnly(t, d) == ~HasRow(t)
UniqueForMutantUpsert(t, d) == TRUE

\* prisma.tenant.create rejects a second row with the same id or domain.
UniqueFor(t, d) == ~HasRow(t) /\ \A u \in Tenants : rows[u].domain # d

\* validateIsolationIntegrity: the schema and its three tables are there.
ValidateIsolationIntegrity(t) ==
    SchemaName[t] \in schemas /\ tables[SchemaName[t]] = BaseTables

Init ==
    /\ rows = [t \in Tenants |-> EmptyRow]
    /\ schemas = {}
    /\ tables = [s \in Schemas |-> {}]
    /\ initialized = [i \in Instances |-> {}]
    /\ active = [i \in Instances |-> [t \in Tenants |-> "NONE"]]
    /\ pc = [r \in Requests |-> "idle"]
    /\ call = [r \in Requests |-> NoCall]
    /\ faults = 0 /\ crashes = 0

-----------------------------------------------------------------------------
(* A call begins: the object graph is resolved and the handler is entered. *)

Goto(r, l) == pc' = [pc EXCEPT ![r] = l]

Finish(r, result) ==
    /\ pc' = [pc EXCEPT ![r] = "done"]
    /\ call' = [call EXCEPT ![r].res = result]

\* The collections a new call finds: its own empty ones, or the shared ones.
Fresh(r) ==
    /\ initialized' = IF RequestScoped THEN [initialized EXCEPT ![Inst(r)] = {}]
                                       ELSE initialized
    /\ active' = IF RequestScoped
                 THEN [active EXCEPT ![Inst(r)] = [t \in Tenants |-> "NONE"]]
                 ELSE active

Begin(r, c, l) ==
    /\ pc[r] = "idle"
    /\ c.op \in Operations
    /\ Cardinality(InFlight) < MaxInFlight
    /\ call' = [call EXCEPT ![r] = c]
    /\ Goto(r, l)
    /\ Fresh(r)
    /\ UNCHANGED <<database, bounds>>

\* validateTenantData throws before anything is awaited, or the call goes on.
StartCreateTenant(r) == \E t \in Tenants, d \in Domains :
    \/ Begin(r, NewCall("createTenant", t, d, FALSE, "none"), "cacheCheck")
    \/ Begin(r, NewCall("createTenant", t, d, FALSE, "error"), "done")

\* The id is `t-${Date.now()}`: any id, one in use included.
StartCreateTenantWithStore(r) == \E t \in Tenants, d \in Domains :
    Begin(r, NewCall("createTenantWithStore", t, d, FALSE, "none"), "findDomain")

StartLoadActiveTenants(r) ==
    Begin(r, NewCall("loadActiveTenants", NoTenant, NoDomain, FALSE, "none"), "findActive")

StartDropTenantSchema(r) == \E t \in Tenants :
    Begin(r, NewCall("dropTenantSchema", t, NoDomain, FALSE, "none"), "dropExists")

\* suspendTenant and activateTenant look the tenant up in activeTenants before
\* their first await, and return false at once when it is not there.
StartStatusChange(r) == \E op \in {"suspendTenant", "activateTenant"}, t \in Tenants :
    IF ~RequestScoped /\ active[Inst(r)][t] # "NONE"
    THEN Begin(r, NewCall(op, t, NoDomain, TRUE, "none"), "updateStatus")
    ELSE Begin(r, NewCall(op, t, NoDomain, FALSE, "error"), "done")

-----------------------------------------------------------------------------
(* The effect of each database write, and what its caller does when a      *)
(* database call throws.                                                   *)

InsertAs(r, status, schema) ==
    /\ rows' = [rows EXCEPT ![Ten(r)] =
         [status |-> status, domain |-> call[r].domain, schemaName |-> schema]]
    /\ UNCHANGED <<schemas, tables>>

SetRow(r, status) ==
    /\ rows' = [rows EXCEPT ![Ten(r)].status = status]
    /\ UNCHANGED <<schemas, tables>>

AddSchema(r) ==
    /\ schemas' = schemas \cup {SchemaOf(r)}
    /\ UNCHANGED <<rows, tables>>

AddTable(r) ==
    /\ tables' = [tables EXCEPT ![SchemaOf(r)] = @ \cup {pc[r]}]
    /\ UNCHANGED <<rows, schemas>>

RemoveSchema(r) ==
    /\ schemas' = schemas \ {SchemaOf(r)}
    /\ tables' = [tables EXCEPT ![SchemaOf(r)] = {}]
    /\ UNCHANGED rows

\* Mutant: createSchema's error is logged and swallowed.
FailMutantSwallowsCreate(r) ==
    IF pc[r] = "createSchema" THEN Goto(r, "markInitialized") /\ UNCHANGED call
    ELSE IF call[r].op # "loadActiveTenants" THEN Finish(r, "error")
    ELSE IF pc[r] = "findActive" THEN Finish(r, "ok")
    ELSE Goto(r, "loadNext") /\ UNCHANGED call

\* createTenant and createTenantWithStore rethrow, suspendTenant and
\* activateTenant return false.  loadActiveTenants swallows the error: the loop
\* goes on with the next tenant, and a failed query ends the call normally.
Fail(r) ==
    IF call[r].op # "loadActiveTenants" THEN Finish(r, "error")
    ELSE IF pc[r] = "findActive" THEN Finish(r, "ok")
    ELSE Goto(r, "loadNext") /\ UNCHANGED call

-----------------------------------------------------------------------------
(* createTenantWithStore before the schema is initialised.                 *)

FindDomain(r) ==
    /\ pc[r] = "findDomain"
    /\ IF \E u \in Tenants : rows[u].domain = call[r].domain
       THEN Finish(r, "conflict")
       ELSE Goto(r, "insertProvisioning") /\ UNCHANGED call
    /\ UNCHANGED <<database, memory, bounds>>

\* Mutants: the row is activated without the schema; it gets a status the rest
\* of the code does not know.
InsertProvisioningMutantSkipsInit(r) ==
    /\ pc[r] = "insertProvisioning"
    /\ UniqueFor(Ten(r), call[r].domain)
    /\ InsertAs(r, "PROVISIONING", StoreSchemaName[call[r].domain])
    /\ Goto(r, "updateActive")
    /\ UNCHANGED <<memory, call, bounds>>

InsertProvisioningMutantStatus(r) ==
    /\ pc[r] = "insertProvisioning"
    /\ UniqueFor(Ten(r), call[r].domain)
    /\ InsertAs(r, "PENDING", StoreSchemaName[call[r].domain])
    /\ Goto(r, "cacheCheck")
    /\ UNCHANGED <<memory, call, bounds>>

InsertProvisioning(r) ==
    /\ pc[r] = "insertProvisioning"
    /\ IF UniqueFor(Ten(r), call[r].domain)
       THEN /\ InsertAs(r, "PROVISIONING", StoreSchemaName[call[r].domain])
            /\ Goto(r, "cacheCheck")
            /\ UNCHANGED call
       ELSE Fail(r) /\ UNCHANGED database
    /\ UNCHANGED <<memory, bounds>>

-----------------------------------------------------------------------------
(* initializeTenantSchema, called by createTenant, createTenantWithStore   *)
(* and loadActiveTenants.                                                  *)

\* Mutant: createTenantWithStore forgets the final update.
AfterInitMutantNoUpdate == [createTenant |-> "insertRow",
    createTenantWithStore |-> "remember", loadActiveTenants |-> "remember"]

AfterInit == [createTenant |-> "insertRow", createTenantWithStore |-> "updateActive",
              loadActiveTenants |-> "remember"]

CacheCheck(r) ==
    /\ pc[r] = "cacheCheck"
    /\ Goto(r, IF SchemaOf(r) \in initialized[Inst(r)]
               THEN AfterInit[call[r].op] ELSE "schemaExists")
    /\ UNCHANGED <<database, memory, call, bounds>>

SchemaExists(r) ==
    /\ pc[r] = "schemaExists"
    /\ Goto(r, IF SchemaOf(r) \in schemas THEN "markInitialized" ELSE "createSchema")
    /\ UNCHANGED <<database, memory, call, bounds>>

CreateSchema(r) ==
    /\ pc[r] = "createSchema"
    /\ AddSchema(r)
    /\ Goto(r, "users")
    /\ UNCHANGED <<memory, call, bounds>>

\* Mutant: the settings table is forgotten.
NextTableMutantNoSettings == [users |-> "products", products |-> "markInitialized",
                              settings |-> "markInitialized"]

NextTable == [users |-> "products", products |-> "settings",
              settings |-> "markInitialized"]

\* CREATE TABLE IF NOT EXISTS fails when the schema has been dropped meanwhile.
CreateTable(r) ==
    /\ pc[r] \in BaseTables
    /\ IF SchemaOf(r) \in schemas
       THEN AddTable(r) /\ Goto(r, NextTable[pc[r]]) /\ UNCHANGED call
       ELSE Fail(r) /\ UNCHANGED database
    /\ UNCHANGED <<memory, bounds>>

MarkInitialized(r) ==
    /\ pc[r] = "markInitialized"
    /\ initialized' = [initialized EXCEPT ![Inst(r)] = @ \cup {SchemaOf(r)}]
    /\ Goto(r, AfterInit[call[r].op])
    /\ UNCHANGED <<database, active, call, bounds>>

-----------------------------------------------------------------------------
(* The row is written and the tenant enters activeTenants.                 *)

InsertRow(r) ==
    /\ pc[r] = "insertRow"
    /\ IF UniqueFor(Ten(r), call[r].domain)
       THEN /\ InsertAs(r, "ACTIVE", SchemaOf(r))
            /\ Goto(r, "remember")
            /\ UNCHANGED call
       ELSE Fail(r) /\ UNCHANGED database
    /\ UNCHANGED <<memory, bounds>>

UpdateActive(r) ==
    /\ pc[r] = "updateActive"
    /\ SetRow(r, "ACTIVE")
    /\ Goto(r, "remember")
    /\ UNCHANGED <<memory, call, bounds>>

\* The object stored is the one the database returned (status ACTIVE in every
\* caller), whatever has happened to the row since.  A reference another call
\* holds to the object it replaces is no longer linked to the map.
Remember(r) ==
    LET loading == call[r].op = "loadActiveTenants"
        unlinked(q) == Inst(q) = Inst(r) /\ Ten(q) = Ten(r)
    IN  /\ pc[r] = "remember"
        /\ active' = [active EXCEPT ![Inst(r)][Ten(r)] = "ACTIVE"]
        /\ call' = [q \in Requests |->
             [call[q] EXCEPT !.linked = @ /\ ~unlinked(q),
                             !.res = IF q = r /\ ~loading THEN "ok" ELSE @]]
        /\ Goto(r, IF loading THEN "loadNext" ELSE "done")
        /\ UNCHANGED <<database, initialized, bounds>>

-----------------------------------------------------------------------------
(* loadActiveTenants: one query, then the initialisation of each tenant.   *)

\* Mutant: the query has no status filter.
FindActiveMutantAll(r) ==
    /\ pc[r] = "findActive"
    /\ call' = [call EXCEPT ![r].todo = {t \in Tenants : HasRow(t)}]
    /\ Goto(r, "loadNext")
    /\ UNCHANGED <<database, memory, bounds>>

FindActive(r) ==
    /\ pc[r] = "findActive"
    /\ call' = [call EXCEPT ![r].todo = {t \in Tenants : rows[t].status = "ACTIVE"}]
    /\ Goto(r, "loadNext")
    /\ UNCHANGED <<database, memory, bounds>>

LoadNext(r) ==
    /\ pc[r] = "loadNext"
    /\ \/ /\ call[r].todo = {}
          /\ Finish(r, "ok")
       \/ \E t \in call[r].todo :
             /\ call' = [call EXCEPT ![r].todo = @ \ {t}, ![r].tenant = t]
             /\ Goto(r, "cacheCheck")
    /\ UNCHANGED <<database, memory, bounds>>

-----------------------------------------------------------------------------
(* suspendTenant and activateTenant: the row first, then the object.       *)

NewStatus(op) == IF op = "suspendTenant" THEN "SUSPENDED" ELSE "ACTIVE"

UpdateStatus(r) ==
    /\ pc[r] = "updateStatus"
    /\ SetRow(r, NewStatus(call[r].op))
    /\ Goto(r, "setStatus")
    /\ UNCHANGED <<memory, call, bounds>>

\* Mutant: the object in memory is not updated.
SetStatusMutantKeeps(r) ==
    /\ pc[r] = "setStatus"
    /\ Finish(r, "ok")
    /\ UNCHANGED <<database, memory, bounds>>

\* tenant.status = ... writes the object read at the start, which nobody sees
\* any more if the map entry has been replaced since.
SetStatus(r) ==
    /\ pc[r] = "setStatus"
    /\ active' = IF call[r].linked
                 THEN [active EXCEPT ![Inst(r)][Ten(r)] = NewStatus(call[r].op)]
                 ELSE active
    /\ Finish(r, "ok")
    /\ UNCHANGED <<database, initialized, bounds>>

-----------------------------------------------------------------------------
(* dropTenantSchema.                                                       *)

DropExists(r) ==
    /\ pc[r] = "dropExists"
    /\ IF SchemaOf(r) \in schemas
       THEN Goto(r, "dropSchema") /\ UNCHANGED call
       ELSE Finish(r, "error")
    /\ UNCHANGED <<database, memory, bounds>>

DropSchema(r) ==
    /\ pc[r] = "dropSchema"
    /\ RemoveSchema(r)
    /\ Goto(r, "forget")
    /\ UNCHANGED <<memory, call, bounds>>

\* Mutant: the schema stays in initializedSchemas.
ForgetMutantKeeps(r) ==
    /\ pc[r] = "forget"
    /\ Finish(r, "ok")
    /\ UNCHANGED <<database, memory, bounds>>

Forget(r) ==
    /\ pc[r] = "forget"
    /\ initialized' = [initialized EXCEPT ![Inst(r)] = @ \ {SchemaOf(r)}]
    /\ Finish(r, "ok")
    /\ UNCHANGED <<database, active, bounds>>

-----------------------------------------------------------------------------
(* Failures, and the end of a call.                                        *)

\* A database call throws and has had no effect.  schemaExists swallows the
\* error and answers false; every other call abandons the operation.
DatabaseFault(r) ==
    /\ faults < MaxFaults
    /\ faults' = faults + 1
    /\ \/ pc[r] = "schemaExists" /\ Goto(r, "createSchema") /\ UNCHANGED call
       \/ /\ pc[r] \in BaseTables \cup
               {"findDomain", "insertProvisioning", "createSchema", "insertRow",
                "updateActive", "findActive", "updateStatus", "dropExists", "dropSchema"}
          /\ Fail(r)
    /\ UNCHANGED <<database, memory, crashes>>

\* A database write commits but its reply is lost, and the caller sees a throw.
LostReply(r) ==
    /\ faults < MaxFaults
    /\ faults' = faults + 1
    /\ \/ /\ pc[r] = "insertProvisioning" /\ UniqueFor(Ten(r), call[r].domain)
          /\ InsertAs(r, "PROVISIONING", StoreSchemaName[call[r].domain])
       \/ pc[r] = "createSchema" /\ AddSchema(r)
       \/ pc[r] \in BaseTables /\ SchemaOf(r) \in schemas /\ AddTable(r)
       \/ /\ pc[r] = "insertRow" /\ UniqueFor(Ten(r), call[r].domain)
          /\ InsertAs(r, "ACTIVE", SchemaOf(r))
       \/ pc[r] = "updateActive" /\ SetRow(r, "ACTIVE")
       \/ pc[r] = "updateStatus" /\ SetRow(r, NewStatus(call[r].op))
       \/ pc[r] = "dropSchema" /\ RemoveSchema(r)
    /\ Fail(r)
    /\ UNCHANGED <<memory, crashes>>

Return(r) ==
    /\ pc[r] = "done"
    /\ Goto(r, "idle")
    /\ call' = [call EXCEPT ![r] = NoCall]
    /\ UNCHANGED <<database, memory, bounds>>

\* The process dies: calls in flight are lost, and so is everything in memory.
Crash ==
    /\ crashes < MaxCrashes
    /\ crashes' = crashes + 1
    /\ pc' = [r \in Requests |-> "idle"]
    /\ call' = [r \in Requests |-> NoCall]
    /\ initialized' = [i \in Instances |-> {}]
    /\ active' = [i \in Instances |-> [t \in Tenants |-> "NONE"]]
    /\ UNCHANGED <<database, faults>>

Start(r) ==
    \/ StartCreateTenant(r) \/ StartCreateTenantWithStore(r)
    \/ StartLoadActiveTenants(r) \/ StartStatusChange(r) \/ StartDropTenantSchema(r)

Continue(r) ==
    \/ FindDomain(r) \/ InsertProvisioning(r)
    \/ CacheCheck(r) \/ SchemaExists(r) \/ CreateSchema(r) \/ CreateTable(r)
    \/ MarkInitialized(r) \/ InsertRow(r) \/ UpdateActive(r) \/ Remember(r)
    \/ FindActive(r) \/ LoadNext(r) \/ UpdateStatus(r) \/ SetStatus(r)
    \/ DropExists(r) \/ DropSchema(r) \/ Forget(r) \/ Return(r)

Next == \/ \E r \in Requests :
             Start(r) \/ Continue(r) \/ DatabaseFault(r) \/ LostReply(r)
        \/ Crash

Spec == Init /\ [][Next]_vars

\* The event loop resumes every call whose awaited promise has settled.
FairSpec == Spec /\ \A r \in Requests : WF_vars(Continue(r))

-----------------------------------------------------------------------------
(* Properties.                                                             *)

\* Every variable stays in its type: rows, maps and calls have the shape the
\* services give them.
TypeOK ==
    /\ rows \in [Tenants -> Row]
    /\ schemas \subseteq Schemas
    /\ tables \in [Schemas -> SUBSET BaseTables]
    /\ initialized \in [Instances -> SUBSET Schemas]
    /\ active \in [Instances -> [Tenants -> Statuses]]
    /\ pc \in [Requests -> Locations]
    /\ call \in [Requests -> Call]
    /\ faults \in Nat /\ crashes \in Nat

\* A tenant the database lists as ACTIVE or SUSPENDED has its schema, whichever
\* calls raced, threw or were lost in a restart: createTenant and
\* createTenantWithStore only write those statuses after initializeNewTenant,
\* and the memory of initializedSchemas they may rely on is never ahead of the
\* database.  (Only dropTenantSchema, which does not look at the row, breaks it.)
OpenRowsHaveSchema ==
    \A t \in Tenants : Open(t) => SchemaName[t] \in schemas

\* A schema in initializedSchemas exists, except between DROP SCHEMA and the
\* delete that follows it in the same dropTenantSchema call.
CachedSchemasExist ==
    \A i \in Instances : \A s \in initialized[i] :
        \/ s \in schemas
        \/ \E r \in Requests : pc[r] = "forget" /\ Inst(r) = i /\ SchemaOf(r) = s

\* Every tenant in activeTenants has an ACTIVE or SUSPENDED row, so suspendTenant
\* and activateTenant never touch a tenant that is still PROVISIONING.
KnownTenantsAreOpen ==
    \A i \in Instances, t \in Tenants :
        active[i][t] # "NONE" => Open(t)

\* A suspended tenant becomes active again only when an activateTenant for it
\* takes its update, not because a creation or a load that was still in flight
\* writes its old status.
SuspensionSticks ==
    [][\A t \in Tenants :
         rows[t].status = "SUSPENDED" /\ rows'[t].status # "SUSPENDED" =>
             \E r \in Requests : /\ call[r].op = "activateTenant" /\ Ten(r) = t
                                 /\ pc[r] = "updateStatus" /\ pc'[r] # pc[r]]_vars

\* Of the calls that try to create one tenant id or to take one domain, at most
\* one reports success.
AtMostOneCreator ==
    \A r, q \in Requests :
        /\ r # q
        /\ call[r].res = "ok" /\ call[q].res = "ok"
        /\ call[r].op \in {"createTenant", "createTenantWithStore"}
        /\ call[q].op \in {"createTenant", "createTenantWithStore"}
        => Ten(r) # Ten(q) /\ call[r].domain # call[q].domain

\* When no call is in flight every open tenant passes
\* validateIsolationIntegrity, unless a database call has thrown or the process
\* was restarted: although a concurrent initialisation may report success before
\* the tables are there, the initialisation it relies on still creates them.
QuiescentTenantsAreWhole ==
    Quiescent /\ faults = 0 /\ crashes = 0 =>
        \A t \in Tenants : Open(t) => ValidateIsolationIntegrity(t)

\* When no call is in flight the status in activeTenants is the one in the
\* database: the two writes of suspendTenant and activateTenant ("1. update the
\* database", "2. update the memory") agree.
MemoryFollowsDatabase ==
    Quiescent => \A i \in Instances, t \in Tenants :
        active[i][t] # "NONE" => active[i][t] = rows[t].status

\* createTenantWithStore leaves no tenant PROVISIONING for ever, unless a database
\* call throws or the process is restarted.
ProvisioningCompletes ==
    \A t \in Tenants :
        rows[t].status = "PROVISIONING" ~>
            rows[t].status = "ACTIVE" \/ faults > 0 \/ crashes > 0

\* A creation that reports success leaves a complete schema: doc/PLAN.txt asks
\* for schemas "with initialisation of the base tables".
OkMeansProvisioned ==
    \A r \in Requests :
        /\ call[r].op \in {"createTenant", "createTenantWithStore"}
        /\ call[r].res = "ok"
        => ValidateIsolationIntegrity(Ten(r))

\* The services implement TenantDirectory: every database write is one of its
\* steps, everything else stutters.
Directory == INSTANCE TenantDirectory WITH
    status <- [t \in Tenants |-> rows[t].status],
    provisioned <- {t \in Tenants : SchemaName[t] \in schemas}

ImplementsDirectory == Directory!Spec

-----------------------------------------------------------------------------
(* The inductive invariants.  RowInv needs nothing of Operations and is     *)
(* behind KnownTenantsAreOpen and SuspensionSticks; IInv needs Operations   *)
(* without dropTenantSchema and is behind OpenRowsHaveSchema and            *)
(* ImplementsDirectory.                                                    *)

Initializing  == BaseTables \cup {"cacheCheck", "schemaExists", "createSchema",
                                  "markInitialized"}
SchemaPresent == BaseTables \cup {"markInitialized", "insertRow", "updateActive",
                                  "remember"}

\* Where each method can be, and the arguments it has there.
CallShape(c, l) ==
    /\ c.op = "none" => l = "idle"
    /\ c.op = "createTenant" =>
         /\ l \in Initializing \cup {"insertRow", "remember", "done"}
         /\ c.tenant \in Tenants /\ c.domain \in Domains
    /\ c.op = "createTenantWithStore" =>
         /\ l \in Initializing \cup {"findDomain", "insertProvisioning",
                                    "updateActive", "remember", "done"}
         /\ c.tenant \in Tenants /\ c.domain \in Domains
    /\ c.op = "loadActiveTenants" =>
         /\ l \in Initializing \cup {"findActive", "loadNext", "remember", "done"}
         /\ l \in Initializing \cup {"remember"} => c.tenant \in Tenants
    /\ c.op \in {"suspendTenant", "activateTenant"} =>
         /\ l \in {"updateStatus", "setStatus", "done"}
         /\ c.tenant \in Tenants
    /\ c.op = "dropTenantSchema" =>
         /\ l \in {"dropExists", "dropSchema", "forget", "done"}
         /\ c.tenant \in Tenants

Shape == TypeOK /\ \A r \in Requests : CallShape(call[r], pc[r])

\* createTenantWithStore between its insert and its update owns the row.
Owns(c, l) == /\ c.op = "createTenantWithStore"
              /\ l \in Initializing \cup {"updateActive"}

\* What a call has established of a row, and still relies on, at each await.
RowKnown(c, l) ==
    /\ l \in {"remember", "updateStatus", "setStatus"} => Open(c.tenant)
    /\ c.op = "loadActiveTenants" =>
         /\ \A t \in c.todo : Open(t)
         /\ l \in Initializing => Open(c.tenant)
    /\ Owns(c, l) => rows[c.tenant].status = "PROVISIONING"

RowsKnown == \A r \in Requests : RowKnown(call[r], pc[r])
OneOwner  == \A r, q \in Requests :
    Owns(call[r], pc[r]) /\ Owns(call[q], pc[q]) /\ Ten(r) = Ten(q) => r = q

RowInv == Shape /\ KnownTenantsAreOpen /\ RowsKnown /\ OneOwner

\* And of its schema, when nothing is dropped.
SchemaKnown(c, l) ==
    /\ c.op # "dropTenantSchema"
    /\ l \in SchemaPresent => SchemaName[c.tenant] \in schemas

CacheInDatabase == \A i \in Instances : initialized[i] \subseteq schemas
SchemasKnown    == \A r \in Requests : SchemaKnown(call[r], pc[r])

IInv == RowInv /\ CacheInDatabase /\ OpenRowsHaveSchema /\ SchemasKnown

===============================================================================
