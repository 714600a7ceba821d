------------------------ MODULE TenantProvisioningProofs ------------------------
(***************************************************************************)
(* Machine-checked proofs about TenantProvisioning, for every set of       *)
(* tenants, domains and callers and every bound.                           *)
(***************************************************************************)
EXTENDS TenantProvisioning, FiniteSetTheorems, TLAPS

-----------------------------------------------------------------------------
(* Shape: types, and where each method can be with which arguments.        *)

DatabaseTyped == /\ rows \in [Tenants -> Row]
                 /\ schemas \subseteq Schemas
                 /\ tables \in [Schemas -> SUBSET BaseTables]
MemoryTyped   == /\ initialized \in [Instances -> SUBSET Schemas]
                 /\ active \in [Instances -> [Tenants -> Statuses]]
BoundsTyped   == faults \in Nat /\ crashes \in Nat
DataTyped     == DatabaseTyped /\ MemoryTyped /\ BoundsTyped

\* The initial state has the shape the invariant asks for.
LEMMA ShapeInit == Init => Shape
BY ConstantsOK DEF Init, Shape, TypeOK, CallShape, Row, EmptyRow, Call, NoCall, NewCall,
   Statuses, Locations, AllOperations

\* A step that gives one request a new call and location of matching shape, and
\* leaves the rest of the state typed, preserves Shape.
LEMMA ShapeStep ==
    ASSUME Shape, NEW r \in Requests, NEW c \in Call, NEW l \in Locations,
           CallShape(c, l), DataTyped',
           call' = [call EXCEPT ![r] = c], pc' = [pc EXCEPT ![r] = l]
    PROVE  Shape'
<1>1. TypeOK'
  BY DEF Shape, TypeOK, DataTyped, DatabaseTyped, MemoryTyped, BoundsTyped
<1>2. ASSUME NEW q \in Requests
      PROVE  CallShape(call[q]', pc[q]')
  BY <1>2 DEF Shape, TypeOK
<1> QED BY <1>1, <1>2 DEF Shape

\* The two ways a running call moves on: to another await, or to its end.
LEMMA ShapeGoto ==
    ASSUME Shape, NEW r \in Requests, NEW l \in Locations, CallShape(call[r], l),
           DataTyped', Goto(r, l), UNCHANGED call
    PROVE  Shape'
<1>1. call[r] \in Call /\ call' = [call EXCEPT ![r] = call[r]]
  BY DEF Shape, TypeOK
<1> QED BY <1>1, ShapeStep DEF Goto

\* A call that ends, from any await, keeps its method and arguments.
LEMMA ShapeFinish ==
    ASSUME Shape, NEW r \in Requests, pc[r] # "idle", DataTyped',
           NEW result \in {"ok", "error", "conflict"}, Finish(r, result)
    PROVE  Shape'
<1> DEFINE c == [call[r] EXCEPT !.res = result]
<1>1. c \in Call
  BY DEF Shape, TypeOK, Call
<1>2. /\ c.op = call[r].op /\ c.tenant = call[r].tenant /\ c.domain = call[r].domain
      /\ CallShape(call[r], pc[r]) /\ "done" \in Locations
  BY DEF Shape, TypeOK, Call, Locations
<1>3. CallShape(c, "done")
  BY <1>2 DEF NewCall, CallShape, Initializing, BaseTables
<1>4. call' = [call EXCEPT ![r] = c] /\ pc' = [pc EXCEPT ![r] = "done"]
  BY DEF Finish, Shape, TypeOK
<1> QED BY <1>1, <1>2, <1>3, <1>4, ShapeStep

\* A failing database call ends its method or continues its loop.
LEMMA ShapeFail ==
    ASSUME Shape, NEW r \in Requests, pc[r] # "idle", DataTyped', Fail(r)
    PROVE  Shape'
<1>1. CASE Fail(r) /\ ~(call[r].op = "loadActiveTenants" /\ pc[r] # "findActive")
  BY <1>1, ShapeFinish DEF Fail
<1>2. CASE call[r].op = "loadActiveTenants" /\ pc[r] # "findActive"
  <2>1. CallShape(call[r], "loadNext") /\ "loadNext" \in Locations
    BY <1>2 DEF CallShape, Locations, Initializing, BaseTables
  <2> QED BY <1>2, <2>1, ShapeGoto DEF Fail
<1> QED BY <1>1, <1>2

\* A new call has the operation, arguments and location of its method.
LEMMA ShapeStart ==
    ASSUME Shape, NEW r \in Requests, Start(r)
    PROVE  Shape'
<1>1. ASSUME NEW c \in Call, NEW l \in Locations, CallShape(c, l), Begin(r, c, l)
      PROVE  Shape'
  <2>1. DataTyped'
    BY <1>1 DEF Begin, Fresh, Shape, TypeOK, DataTyped, DatabaseTyped, MemoryTyped,
       BoundsTyped, database, bounds, Statuses, Inst
  <2> QED BY <1>1, <2>1, ShapeStep DEF Begin, Goto
<1>0. \A op \in AllOperations, t \in Tenants \cup {NoTenant}, d \in Domains \cup {NoDomain},
         linked \in BOOLEAN, res \in {"none", "error"} :
             NewCall(op, t, d, linked, res) \in Call
  BY DEF Call, NewCall
<1>2. CASE StartCreateTenant(r)
  <2>1. PICK t \in Tenants, d \in Domains, l \in {"cacheCheck", "done"},
             res \in {"none", "error"} :
          Begin(r, NewCall("createTenant", t, d, FALSE, res), l)
    BY <1>2 DEF StartCreateTenant
  <2>2. NewCall("createTenant", t, d, FALSE, res) \in Call /\ l \in Locations
    BY <1>0, <2>1 DEF AllOperations, Locations
  <2>3. CallShape(NewCall("createTenant", t, d, FALSE, res), l)
    BY <2>1 DEF NewCall, CallShape, Initializing, BaseTables
  <2> QED BY <1>1, <2>1, <2>2, <2>3
<1>3. CASE StartCreateTenantWithStore(r)
  <2>1. PICK t \in Tenants, d \in Domains :
          Begin(r, NewCall("createTenantWithStore", t, d, FALSE, "none"), "findDomain")
    BY <1>3 DEF StartCreateTenantWithStore
  <2>2. NewCall("createTenantWithStore", t, d, FALSE, "none") \in Call /\ "findDomain" \in Locations
    BY <1>0, <2>1 DEF AllOperations, Locations
  <2>3. CallShape(NewCall("createTenantWithStore", t, d, FALSE, "none"), "findDomain")
    BY <2>1 DEF NewCall, CallShape, Initializing, BaseTables
  <2> QED BY <1>1, <2>1, <2>2, <2>3
<1>4. CASE StartLoadActiveTenants(r)
  <2>1. Begin(r, NewCall("loadActiveTenants", NoTenant, NoDomain, FALSE, "none"), "findActive")
    BY <1>4 DEF StartLoadActiveTenants
  <2>2. NewCall("loadActiveTenants", NoTenant, NoDomain, FALSE, "none") \in Call /\ "findActive" \in Locations
    BY <1>0, <2>1 DEF AllOperations, Locations
  <2>3. CallShape(NewCall("loadActiveTenants", NoTenant, NoDomain, FALSE, "none"), "findActive")
    BY <2>1 DEF NewCall, CallShape, Initializing, BaseTables
  <2> QED BY <1>1, <2>1, <2>2, <2>3
<1>5. CASE StartStatusChange(r)
  <2>1. PICK op \in {"suspendTenant", "activateTenant"}, t \in Tenants,
             linked \in BOOLEAN, res \in {"none", "error"}, l \in {"updateStatus", "done"} :
          Begin(r, NewCall(op, t, NoDomain, linked, res), l)
    BY <1>5 DEF StartStatusChange
  <2>2. NewCall(op, t, NoDomain, linked, res) \in Call /\ l \in Locations
    BY <1>0, <2>1 DEF AllOperations, Locations
  <2>3. CallShape(NewCall(op, t, NoDomain, linked, res), l)
    BY <2>1 DEF NewCall, CallShape, Initializing, BaseTables
  <2> QED BY <1>1, <2>1, <2>2, <2>3
<1>6. CASE StartDropTenantSchema(r)
  <2>1. PICK t \in Tenants :
          Begin(r, NewCall("dropTenantSchema", t, NoDomain, FALSE, "none"), "dropExists")
    BY <1>6 DEF StartDropTenantSchema
  <2>2. NewCall("dropTenantSchema", t, NoDomain, FALSE, "none") \in Call /\ "dropExists" \in Locations
    BY <1>0, <2>1 DEF AllOperations, Locations
  <2>3. CallShape(NewCall("dropTenantSchema", t, NoDomain, FALSE, "none"), "dropExists")
    BY <2>1 DEF NewCall, CallShape, Initializing, BaseTables
  <2> QED BY <1>1, <2>1, <2>2, <2>3
<1> QED BY <1>2, <1>3, <1>4, <1>5, <1>6 DEF Start

\* The effect of a database write keeps the tables of the database typed.
LEMMA WritesTyped ==
    ASSUME Shape, NEW r \in Requests, Ten(r) \in Tenants,
           \/ \E status \in Statuses, schema \in Schemas : InsertAs(r, status, schema)
           \/ \E status \in Statuses : SetRow(r, status)
           \/ AddSchema(r)
           \/ pc[r] \in BaseTables /\ AddTable(r)
           \/ RemoveSchema(r)
    PROVE  DatabaseTyped'
<1> USE ConstantsOK DEF Shape, TypeOK, DatabaseTyped, SchemaOf, Ten
<1>1. CASE \E status \in Statuses, schema \in Schemas : InsertAs(r, status, schema)
  BY <1>1 DEF InsertAs, Call, Row
<1>2. CASE \E status \in Statuses : SetRow(r, status)
  <2>1. PICK status \in Statuses : SetRow(r, status)
    BY <1>2
  <2>2. \A row \in Row : [row EXCEPT !.status = status] \in Row
    BY <2>1 DEF Row
  <2> QED BY <2>1, <2>2 DEF SetRow
<1>3. CASE AddSchema(r)
  BY <1>3 DEF AddSchema
<1>4. CASE pc[r] \in BaseTables /\ AddTable(r)
  BY <1>4 DEF AddTable
<1>5. CASE RemoveSchema(r)
  BY <1>5 DEF RemoveSchema
<1> QED BY <1>1, <1>2, <1>3, <1>4, <1>5

\* Which method a call is in, by the await it is at.
LEMMA OperationAt ==
    ASSUME Shape, NEW r \in Requests
    PROVE  /\ pc[r] \in {"findDomain", "insertProvisioning", "updateActive"} =>
                 /\ call[r].op = "createTenantWithStore"
                 /\ Ten(r) \in Tenants /\ call[r].domain \in Domains
           /\ pc[r] = "insertRow" =>
                 /\ call[r].op = "createTenant"
                 /\ Ten(r) \in Tenants /\ call[r].domain \in Domains
           /\ pc[r] \in Initializing \cup {"remember"} =>
                 /\ call[r].op \in {"createTenant", "createTenantWithStore",
                                   "loadActiveTenants"}
                 /\ Ten(r) \in Tenants
                 /\ call[r].op # "loadActiveTenants" => call[r].domain \in Domains
           /\ pc[r] \in {"findActive", "loadNext"} => call[r].op = "loadActiveTenants"
           /\ pc[r] \in {"updateStatus", "setStatus"} =>
                 call[r].op \in {"suspendTenant", "activateTenant"} /\ Ten(r) \in Tenants
           /\ pc[r] \in {"dropExists", "dropSchema", "forget"} =>
                 call[r].op = "dropTenantSchema" /\ Ten(r) \in Tenants
<1>1. call[r].op \in AllOperations \cup {"none"} /\ CallShape(call[r], pc[r])
  BY DEF Shape, TypeOK, Call
<1> QED BY <1>1 DEF CallShape, AllOperations, Initializing, BaseTables, Ten

\* The code between two awaits of a running call.
LEMMA ShapeContinue ==
    ASSUME Shape, NEW r \in Requests, Continue(r)
    PROVE  Shape'
<1> USE DEF database, memory, bounds, DataTyped, Ten
<1>0. DatabaseTyped /\ MemoryTyped /\ BoundsTyped
  BY DEF Shape, TypeOK, DatabaseTyped, MemoryTyped, BoundsTyped
<1>a. /\ UNCHANGED database => DatabaseTyped'
      /\ UNCHANGED memory => MemoryTyped'
      /\ UNCHANGED bounds => BoundsTyped'
  BY <1>0 DEF DatabaseTyped, MemoryTyped, BoundsTyped
<1>b. Locations = Initializing \cup
        {"idle", "findDomain", "insertProvisioning", "insertRow", "updateActive",
         "remember", "findActive", "loadNext", "updateStatus", "setStatus",
         "dropExists", "dropSchema", "forget", "done"}
  BY DEF Locations, Initializing
<1>1. CASE FindDomain(r)
  <2>1. CallShape(call[r], "insertProvisioning")
    BY <1>1, OperationAt DEF FindDomain, CallShape
  <2> QED BY <1>1, <1>a, <1>b, <2>1, ShapeGoto, ShapeFinish DEF FindDomain
<1>2. CASE InsertProvisioning(r)
  <2>1. CallShape(call[r], "cacheCheck") /\ StoreSchemaName[call[r].domain] \in Schemas
    BY <1>2, OperationAt, ConstantsOK DEF InsertProvisioning, CallShape, Initializing
  <2>2. DataTyped'
    BY <1>2, <1>a, <2>1, WritesTyped, OperationAt DEF InsertProvisioning, Statuses
  <2> QED
    BY <1>2, <1>b, <2>1, <2>2, ShapeGoto, ShapeFail DEF InsertProvisioning, Initializing
<1>3. CASE CacheCheck(r)
  <2>1. /\ CallShape(call[r], "schemaExists")
        /\ CallShape(call[r], AfterInit[call[r].op]) /\ AfterInit[call[r].op] \in Locations
    BY <1>3, <1>b, OperationAt DEF CacheCheck, CallShape, Initializing, AfterInit
  <2> QED BY <1>3, <1>a, <1>b, <2>1, ShapeGoto DEF CacheCheck, Initializing
<1>4. CASE SchemaExists(r)
  <2>1. CallShape(call[r], "markInitialized") /\ CallShape(call[r], "createSchema")
    BY <1>4, OperationAt DEF SchemaExists, CallShape, Initializing
  <2> QED BY <1>4, <1>a, <1>b, <2>1, ShapeGoto DEF SchemaExists, Initializing
<1>5. CASE CreateSchema(r)
  <2>1. CallShape(call[r], "users")
    BY <1>5, OperationAt DEF CreateSchema, CallShape, Initializing, BaseTables
  <2>2. DataTyped'
    BY <1>5, <1>a, WritesTyped, OperationAt DEF CreateSchema, Initializing
  <2> QED
    BY <1>5, <1>b, <2>1, <2>2, ShapeGoto DEF CreateSchema, Initializing, BaseTables
<1>6. CASE CreateTable(r)
  <2>1. CallShape(call[r], NextTable[pc[r]]) /\ NextTable[pc[r]] \in Initializing
    BY <1>6, OperationAt DEF CreateTable, CallShape, Initializing, BaseTables, NextTable
  <2>2. DataTyped'
    BY <1>6, <1>a, WritesTyped, OperationAt DEF CreateTable, Initializing
  <2>3. pc[r] # "idle"
    BY <1>6 DEF CreateTable, BaseTables
  <2> QED BY <1>6, <1>b, <2>1, <2>2, <2>3, ShapeGoto, ShapeFail DEF CreateTable
<1>7. CASE MarkInitialized(r)
  <2>1. /\ CallShape(call[r], AfterInit[call[r].op]) /\ AfterInit[call[r].op] \in Locations
        /\ SchemaOf(r) \in Schemas
    BY <1>7, <1>b, OperationAt, ConstantsOK
       DEF MarkInitialized, CallShape, Initializing, AfterInit, SchemaOf
  <2>2. DataTyped'
    BY <1>7, <1>0, <1>a, <2>1 DEF MarkInitialized, MemoryTyped, Inst
  <2> QED BY <1>7, <2>1, <2>2, ShapeGoto DEF MarkInitialized
<1>8. CASE InsertRow(r)
  <2>1. CallShape(call[r], "remember") /\ SchemaOf(r) \in Schemas
    BY <1>8, OperationAt, ConstantsOK DEF InsertRow, CallShape, Initializing, SchemaOf
  <2>2. DataTyped'
    BY <1>8, <1>a, <2>1, WritesTyped, OperationAt DEF InsertRow, Statuses
  <2> QED BY <1>8, <1>b, <2>1, <2>2, ShapeGoto, ShapeFail DEF InsertRow
<1>9. CASE UpdateActive(r)
  <2>1. CallShape(call[r], "remember")
    BY <1>9, OperationAt DEF UpdateActive, CallShape
  <2>2. DataTyped'
    BY <1>9, <1>a, WritesTyped, OperationAt DEF UpdateActive, Statuses
  <2> QED BY <1>9, <1>b, <2>1, <2>2, ShapeGoto DEF UpdateActive
<1>10. CASE Remember(r)
  <2>1. call[r].op \in {"createTenant", "createTenantWithStore", "loadActiveTenants"}
        /\ Ten(r) \in Tenants
    BY <1>10, OperationAt DEF Remember, Initializing
  <2>2. ASSUME NEW q \in Requests
        PROVE  /\ call'[q] \in Call /\ pc'[q] \in Locations
               /\ CallShape(call'[q], pc'[q])
    <3>1. /\ call'[q] \in Call
          /\ call'[q].op = call[q].op /\ call'[q].tenant = call[q].tenant
          /\ call'[q].domain = call[q].domain
      <4> DEFINE linked == call[q].linked /\ ~(Inst(q) = Inst(r) /\ Ten(q) = Ten(r))
                 res    == IF q = r /\ call[r].op # "loadActiveTenants" THEN "ok"
                                                                       ELSE call[q].res
      <4>1. call'[q] = [call[q] EXCEPT !.linked = linked, !.res = res]
        BY <1>10 DEF Remember
      <4>2. linked \in BOOLEAN /\ call[q] \in Call
        BY DEF Shape, TypeOK, Call
      <4>3. res \in {"none", "ok", "error", "conflict"}
        BY <4>2 DEF Call
      <4> HIDE DEF linked, res
      <4> QED BY <4>1, <4>2, <4>3 DEF Call
    <3>2. pc'[q] = IF q # r THEN pc[q]
                   ELSE IF call[r].op = "loadActiveTenants" THEN "loadNext" ELSE "done"
      BY <1>10 DEF Remember, Goto, Shape, TypeOK
    <3>3. CallShape(call[q], pc'[q]) /\ pc'[q] \in Locations
      BY <1>b, <2>1, <3>2 DEF Shape, TypeOK, CallShape, Initializing, BaseTables
    <3> QED BY <3>1, <3>3 DEF CallShape
  <2>3. DataTyped'
    BY <1>10, <1>0, <1>a, <2>1 DEF Remember, MemoryTyped, Inst, Statuses
  <2>4. call' \in [Requests -> Call] /\ pc' \in [Requests -> Locations]
    <3>1. DOMAIN call' = Requests /\ DOMAIN pc' = Requests
      BY <1>10 DEF Remember, Goto, Shape, TypeOK
    <3>2. call' = [q \in Requests |-> call'[q]] /\ pc' = [q \in Requests |-> pc'[q]]
      BY <1>10 DEF Remember, Goto, Shape, TypeOK
    <3> QED BY <2>2, <3>2
  <2> QED
    BY <2>2, <2>3, <2>4 DEF Shape, TypeOK, DatabaseTyped, MemoryTyped, BoundsTyped
<1>11. CASE FindActive(r)
  <2> DEFINE c == [call[r] EXCEPT !.todo = {t \in Tenants : rows[t].status = "ACTIVE"}]
  <2>1. c \in Call /\ c.op = call[r].op /\ c.tenant = call[r].tenant
    BY DEF Shape, TypeOK, Call
  <2>2. CallShape(c, "loadNext")
    BY <1>11, <2>1, OperationAt DEF FindActive, CallShape, Initializing, BaseTables
  <2> QED BY <1>11, <1>a, <1>b, <2>1, <2>2, ShapeStep DEF FindActive, Goto
<1>12. CASE LoadNext(r)
  <2>1. CASE call[r].todo = {} /\ Finish(r, "ok")
    BY <1>12, <1>a, <2>1, ShapeFinish DEF LoadNext
  <2>2. ASSUME NEW t \in call[r].todo,
               call' = [call EXCEPT ![r].todo = @ \ {t}, ![r].tenant = t],
               Goto(r, "cacheCheck")
        PROVE  Shape'
    <3> DEFINE c == [call[r] EXCEPT !.todo = @ \ {t}, !.tenant = t]
    <3>1. t \in Tenants /\ c \in Call /\ c.op = call[r].op /\ c.tenant = t
      BY DEF Shape, TypeOK, Call
    <3>2. CallShape(c, "cacheCheck")
      BY <1>12, <3>1, OperationAt DEF LoadNext, CallShape, Initializing
    <3>3. call' = [call EXCEPT ![r] = c]
      BY <2>2 DEF Shape, TypeOK, Call
    <3>4. "cacheCheck" \in Locations
      BY <1>b DEF Initializing
    <3> QED BY <1>12, <1>a, <2>2, <3>1, <3>2, <3>3, <3>4, ShapeStep DEF LoadNext, Goto
  <2> QED BY <1>12, <2>1, <2>2 DEF LoadNext
<1>13. CASE UpdateStatus(r)
  <2>1. CallShape(call[r], "setStatus")
    BY <1>13, OperationAt DEF UpdateStatus, CallShape
  <2>2. DataTyped'
    BY <1>13, <1>a, WritesTyped, OperationAt DEF UpdateStatus, Statuses, NewStatus
  <2> QED BY <1>13, <1>b, <2>1, <2>2, ShapeGoto DEF UpdateStatus
<1>14. CASE SetStatus(r)
  <2>1. DataTyped'
    BY <1>14, <1>0, <1>a, OperationAt DEF SetStatus, MemoryTyped, NewStatus, Statuses, Inst
  <2> QED BY <1>14, <2>1, ShapeFinish DEF SetStatus
<1>15. CASE DropExists(r)
  <2>1. CallShape(call[r], "dropSchema")
    BY <1>15, OperationAt DEF DropExists, CallShape
  <2> QED BY <1>15, <1>a, <1>b, <2>1, ShapeGoto, ShapeFinish DEF DropExists
<1>16. CASE DropSchema(r)
  <2>1. CallShape(call[r], "forget")
    BY <1>16, OperationAt DEF DropSchema, CallShape
  <2>2. DataTyped'
    BY <1>16, <1>a, WritesTyped, OperationAt DEF DropSchema
  <2> QED BY <1>16, <1>b, <2>1, <2>2, ShapeGoto DEF DropSchema
<1>17. CASE Forget(r)
  <2>1. DataTyped'
    BY <1>17, <1>0, <1>a DEF Forget, MemoryTyped
  <2> QED BY <1>17, <2>1, ShapeFinish DEF Forget
<1>18. CASE Return(r)
  <2>1. NoCall \in Call /\ CallShape(NoCall, "idle")
    BY DEF NoCall, NewCall, Call, CallShape, AllOperations
  <2> QED BY <1>18, <1>a, <1>b, <2>1, ShapeStep DEF Return, Goto
<1> QED
  BY <1>1, <1>2, <1>3, <1>4, <1>5, <1>6, <1>7, <1>8, <1>9, <1>10, <1>11, <1>12, <1>13,
     <1>14, <1>15, <1>16, <1>17, <1>18 DEF Continue

\* Failing and lost database calls.
LEMMA ShapeFault ==
    ASSUME Shape, NEW r \in Requests, DatabaseFault(r) \/ LostReply(r)
    PROVE  Shape'
<1> USE DEF database, memory, bounds, DataTyped, Ten
<1>0. DatabaseTyped /\ MemoryTyped /\ BoundsTyped
  BY DEF Shape, TypeOK, DatabaseTyped, MemoryTyped, BoundsTyped
<1>1. MemoryTyped' /\ BoundsTyped'
  BY <1>0 DEF DatabaseFault, LostReply, MemoryTyped, BoundsTyped
<1>2. CASE DatabaseFault(r)
  <2>1. DatabaseTyped'
    BY <1>2, <1>0 DEF DatabaseFault, DatabaseTyped
  <2>2. CASE pc[r] = "schemaExists" /\ Goto(r, "createSchema") /\ UNCHANGED call
    <3>1. CallShape(call[r], "createSchema") /\ "createSchema" \in Locations
      BY <2>2, OperationAt DEF CallShape, Initializing, Locations
    <3> QED BY <1>1, <2>1, <2>2, <3>1, ShapeGoto
  <2>3. CASE pc[r] # "idle" /\ Fail(r)
    BY <1>1, <2>1, <2>3, ShapeFail
  <2> QED BY <1>2, <2>2, <2>3 DEF DatabaseFault, BaseTables
<1>3. CASE LostReply(r)
  <2>1. pc[r] # "idle" /\ Fail(r)
    BY <1>3 DEF LostReply, BaseTables
  <2>2. DatabaseTyped'
    <3>1. Ten(r) \in Tenants
      BY <1>3, OperationAt DEF LostReply, Initializing
    <3>2. /\ pc[r] = "insertProvisioning" => StoreSchemaName[call[r].domain] \in Schemas
          /\ SchemaOf(r) \in Schemas
      BY <3>1, OperationAt, ConstantsOK DEF SchemaOf
    <3>3. {"PROVISIONING", "ACTIVE", "SUSPENDED"} \subseteq Statuses
      BY DEF Statuses
    <3> QED BY <1>3, <3>1, <3>2, <3>3, WritesTyped DEF LostReply, NewStatus
  <2> QED BY <1>1, <2>1, <2>2, ShapeFail
<1> QED BY <1>2, <1>3

\* A restart forgets the calls and the memory.
LEMMA ShapeCrash ==
    ASSUME Shape, Crash
    PROVE  Shape'
<1>1. NoCall \in Call /\ CallShape(NoCall, "idle") /\ "idle" \in Locations
  BY DEF NoCall, NewCall, Call, CallShape, AllOperations, Locations
<1> QED BY <1>1 DEF Shape, TypeOK, Crash, database, Statuses

\* Every step preserves Shape, whatever Operations holds.
LEMMA ShapeNext == Shape /\ [Next]_vars => Shape'
<1> SUFFICES ASSUME Shape, [Next]_vars PROVE Shape'
  OBVIOUS
<1>1. CASE UNCHANGED vars
  BY <1>1 DEF Shape, TypeOK, vars
<1>2. CASE Next
  BY <1>2, ShapeStart, ShapeContinue, ShapeFault, ShapeCrash DEF Next
<1> QED BY <1>1, <1>2

\* Type correctness of every run of the tenant services, dropTenantSchema
\* included, and with it the place and the arguments of every call.
THEOREM ShapeAlways == Spec => []Shape
BY ShapeInit, ShapeNext, PTL DEF Spec

\* Every variable of the tenant services stays in its type.
THEOREM TypeCorrect == Spec => []TypeOK
<1>1. Shape => TypeOK
  BY DEF Shape
<1> QED BY <1>1, ShapeAlways, PTL

-----------------------------------------------------------------------------
(* What the calls know of the rows, dropTenantSchema called or not.         *)

\* The writes of a call r to the tenants table, each at the await it belongs to.
RowWrites(r) ==
    \/ UNCHANGED rows
    \/ /\ pc[r] = "insertProvisioning" /\ UniqueFor(Ten(r), call[r].domain)
       /\ InsertAs(r, "PROVISIONING", StoreSchemaName[call[r].domain])
    \/ /\ pc[r] = "insertRow" /\ UniqueFor(Ten(r), call[r].domain)
       /\ InsertAs(r, "ACTIVE", SchemaOf(r))
    \/ pc[r] = "updateActive" /\ SetRow(r, "ACTIVE")
    \/ pc[r] = "updateStatus" /\ SetRow(r, NewStatus(call[r].op))

\* No write takes a row away that another call relies on.
RowsLast(r) ==
    /\ \A t \in Tenants : Open(t) => Open(t)'
    /\ \A q \in Requests \ {r} : Owns(call[q], pc[q]) => rows'[Ten(q)].status = "PROVISIONING"

\* What one write of r does to the rows.
LEMMA RowWriteKinds ==
    ASSUME RowInv, NEW r \in Requests, RowWrites(r), rows' # rows
    PROVE  /\ Ten(r) \in Tenants
           /\ \A t \in Tenants \ {Ten(r)} : rows'[t] = rows[t]
           /\ \/ /\ ~HasRow(Ten(r)) /\ rows'[Ten(r)].status = "PROVISIONING"
                 /\ pc[r] = "insertProvisioning"
              \/ /\ ~HasRow(Ten(r)) /\ rows'[Ten(r)].status = "ACTIVE"
                 /\ pc[r] = "insertRow"
              \/ /\ rows[Ten(r)].status = "PROVISIONING" /\ rows'[Ten(r)].status = "ACTIVE"
                 /\ pc[r] = "updateActive" /\ Owns(call[r], pc[r])
              \/ /\ Open(Ten(r)) /\ pc[r] = "updateStatus"
                 /\ \/ rows'[Ten(r)].status = "SUSPENDED"
                    \/ call[r].op = "activateTenant" /\ rows'[Ten(r)].status = "ACTIVE"
<1>1. Shape /\ RowKnown(call[r], pc[r]) /\ rows \in [Tenants -> Row]
  BY DEF RowInv, RowsKnown, Shape, TypeOK
<1>2. CASE /\ pc[r] = "insertProvisioning" /\ UniqueFor(Ten(r), call[r].domain)
           /\ InsertAs(r, "PROVISIONING", StoreSchemaName[call[r].domain])
  BY <1>1, <1>2, OperationAt DEF UniqueFor, InsertAs
<1>3. CASE /\ pc[r] = "insertRow" /\ UniqueFor(Ten(r), call[r].domain)
           /\ InsertAs(r, "ACTIVE", SchemaOf(r))
  BY <1>1, <1>3, OperationAt DEF UniqueFor, InsertAs
<1>4. CASE pc[r] = "updateActive" /\ SetRow(r, "ACTIVE")
  <2>1. /\ Ten(r) \in Tenants /\ rows[Ten(r)].status = "PROVISIONING"
        /\ Owns(call[r], pc[r])
    BY <1>1, <1>4, OperationAt DEF RowKnown, Owns, Ten
  <2> QED BY <1>1, <1>4, <2>1 DEF SetRow, Row
<1>5. CASE pc[r] = "updateStatus" /\ SetRow(r, NewStatus(call[r].op))
  <2>1. Ten(r) \in Tenants /\ Open(Ten(r))
    BY <1>1, <1>5, OperationAt DEF RowKnown, Ten
  <2>2. \/ NewStatus(call[r].op) = "SUSPENDED"
        \/ call[r].op = "activateTenant" /\ NewStatus(call[r].op) = "ACTIVE"
    BY <1>1, <1>5, OperationAt DEF NewStatus
  <2> QED BY <1>1, <1>5, <2>1, <2>2 DEF SetRow, Row
<1> QED  BY <1>2, <1>3, <1>4, <1>5 DEF RowWrites

\* Each of them has the effects RowsLast asks for.
LEMMA RowsDoLast ==
    ASSUME RowInv, NEW r \in Requests, RowWrites(r)
    PROVE  RowsLast(r)
<1>1. \A q \in Requests : Owns(call[q], pc[q]) =>
          Ten(q) \in Tenants /\ rows[Ten(q)].status = "PROVISIONING"
  BY OperationAt DEF RowInv, RowsKnown, RowKnown, Owns, Ten
<1>2. CASE rows' = rows
  BY <1>1, <1>2 DEF RowsLast, Open
<1>3. CASE rows' # rows
  <2>1. \A t \in Tenants : Open(t) => Open(t)'
    BY <1>3, RowWriteKinds DEF Open, HasRow
  <2>2. \A q \in Requests \ {r} : Owns(call[q], pc[q]) => Ten(q) # Ten(r)
    BY <1>1, <1>3, RowWriteKinds DEF HasRow, Open, RowInv, OneOwner
  <2> QED  BY <1>1, <1>3, <2>1, <2>2, RowWriteKinds DEF RowsLast
<1> QED  BY <1>2, <1>3

\* The step of r leaves the other calls alone.
OthersStay(r) == \A q \in Requests \ {r} :
    /\ pc'[q] = pc[q]
    /\ call'[q].op = call[q].op /\ call'[q].tenant = call[q].tenant
    /\ call'[q].todo = call[q].todo

\* A step of one call preserves RowInv when the call that steps knows what its new
\* await requires, and owns a row alone.
LEMMA RowStep ==
    ASSUME RowInv, Shape', NEW r \in Requests, RowsLast(r), OthersStay(r),
           KnownTenantsAreOpen', RowKnown(call[r], pc[r])',
           Owns(call[r], pc[r])' => \A q \in Requests \ {r} :
               Owns(call[q], pc[q]) => Ten(q) # Ten(r)'
    PROVE  RowInv'
<1>1. ASSUME NEW q \in Requests \ {r}
      PROVE  RowKnown(call[q], pc[q])' /\ (Owns(call[q], pc[q])' => Owns(call[q], pc[q]))
  <2>1. RowKnown(call[q], pc[q]) /\ call[q] \in Call
    BY DEF RowInv, RowsKnown, Shape, TypeOK
  <2>2. /\ pc[q] \in {"remember", "updateStatus", "setStatus"} => Open(Ten(q))'
        /\ call[q].op = "loadActiveTenants" =>
             /\ \A t \in call[q].todo : Open(t)'
             /\ pc[q] \in Initializing => Open(Ten(q))'
        /\ Owns(call[q], pc[q]) => rows'[Ten(q)].status = "PROVISIONING"
    BY <1>1, <2>1, OperationAt DEF RowInv, RowKnown, RowsLast, OthersStay, Ten, Call
  <2> QED BY <1>1, <2>1, <2>2 DEF OthersStay, RowKnown, Owns, Open, Ten
<1>2. RowsKnown'
  BY <1>1 DEF RowsKnown
<1>3. OneOwner'
  BY <1>1 DEF OneOwner, RowInv, OthersStay, Ten
<1> QED BY <1>2, <1>3 DEF RowInv

\* A map that does not change has only tenants that stay open.
LEMMA KnownKeeps ==
    ASSUME RowInv, NEW r \in Requests, RowsLast(r), UNCHANGED active
    PROVE  KnownTenantsAreOpen'
BY DEF RowInv, KnownTenantsAreOpen, RowsLast

\* The ways a running call moves on, as in ShapeGoto, ShapeFinish and ShapeFail.
LEMMA RowGoto ==
    ASSUME RowInv, Shape', NEW r \in Requests, RowsLast(r), KnownTenantsAreOpen',
           NEW l \in Locations, Goto(r, l), UNCHANGED call,
           RowKnown(call[r], l)', Owns(call[r], l) => Owns(call[r], pc[r])
    PROVE  RowInv'
<1>1. OthersStay(r) /\ pc'[r] = l
  BY DEF OthersStay, Goto, RowInv, Shape, TypeOK
<1>2. Owns(call[r], pc[r])' =>
        \A q \in Requests \ {r} : Owns(call[q], pc[q]) => Ten(q) # Ten(r)'
  BY <1>1 DEF RowInv, OneOwner, Ten, Owns
<1> QED BY <1>1, <1>2, RowStep

\* A call that ends has nothing left to know but the rest of its list.
LEMMA RowFinish ==
    ASSUME RowInv, Shape', NEW r \in Requests, RowsLast(r),
           KnownTenantsAreOpen', NEW result, Finish(r, result)
    PROVE  RowInv'
<1>1. /\ OthersStay(r) /\ pc'[r] = "done"
      /\ call'[r].op = call[r].op /\ call'[r].todo = call[r].todo
  BY DEF OthersStay, Finish, RowInv, Shape, TypeOK, Call
<1>2. RowKnown(call[r], pc[r])'
  <2>1. call[r] \in Call /\ RowKnown(call[r], pc[r])
    BY DEF RowInv, RowsKnown, Shape, TypeOK
  <2> QED
    BY <1>1, <2>1 DEF RowKnown, Owns, Initializing, BaseTables, RowsLast, Call
<1>3. ~Owns(call[r], pc[r])'
  BY <1>1 DEF Owns, Initializing, BaseTables
<1> QED BY <1>1, <1>2, <1>3, RowStep

\* A failed call ends, or goes on with the next tenant of its load.
LEMMA RowFail ==
    ASSUME RowInv, Shape', NEW r \in Requests, RowsLast(r), UNCHANGED active, Fail(r)
    PROVE  RowInv'
<1>1. KnownTenantsAreOpen'
  BY KnownKeeps
<1>2. CASE Finish(r, "ok") \/ Finish(r, "error")
  BY <1>1, <1>2, RowFinish
<1>3. CASE call[r].op = "loadActiveTenants" /\ Goto(r, "loadNext") /\ UNCHANGED call
  <2>1. call[r] \in Call /\ RowKnown(call[r], pc[r])
    BY DEF RowInv, RowsKnown, Shape, TypeOK
  <2>2. RowKnown(call[r], "loadNext")'
    BY <1>3, <2>1 DEF RowKnown, Owns, Initializing, BaseTables, RowsLast, Call
  <2> QED
    BY <1>1, <1>3, <2>2, RowGoto DEF Owns, Initializing, BaseTables, Locations
<1> QED BY <1>2, <1>3 DEF Fail

\* A new call knows nothing, or finds its tenant open in memory.
LEMMA RowStart ==
    ASSUME RowInv, Shape', NEW r \in Requests, Start(r)
    PROVE  RowInv'
<1>1. ASSUME NEW op, NEW t, NEW d, NEW linked, NEW res,
             NEW l \in {"cacheCheck", "findDomain", "findActive", "updateStatus",
                        "dropExists", "done"},
             Begin(r, NewCall(op, t, d, linked, res), l),
             l = "cacheCheck" => op = "createTenant",
             l = "updateStatus" => Open(t)
      PROVE  RowInv'
  <2> DEFINE c == NewCall(op, t, d, linked, res)
  <2>1. /\ OthersStay(r) /\ pc'[r] = l /\ call'[r] = c /\ UNCHANGED rows
        /\ c.op = op /\ c.tenant = t /\ c.todo = {}
    BY <1>1 DEF Begin, Goto, OthersStay, RowInv, Shape, TypeOK, NewCall, database
  <2>2. RowsLast(r)
    BY <2>1, RowsDoLast DEF RowWrites
  <2>3. KnownTenantsAreOpen'
    BY <1>1, <2>1 DEF Begin, Fresh, RowInv, KnownTenantsAreOpen, Inst, Open, Shape, TypeOK
  <2>4. ~Owns(c, l)
    BY <1>1, <2>1 DEF Owns, Initializing, BaseTables
  <2>5. RowKnown(c, l)'
    BY <1>1, <2>1, <2>4 DEF RowKnown, Initializing, BaseTables, Open
  <2> QED BY <2>1, <2>2, <2>3, <2>4, <2>5, RowStep
<1>2. CASE StartCreateTenant(r)
  BY <1>1, <1>2 DEF StartCreateTenant
<1>3. CASE StartCreateTenantWithStore(r)
  BY <1>1, <1>3 DEF StartCreateTenantWithStore
<1>4. CASE StartLoadActiveTenants(r)
  BY <1>1, <1>4 DEF StartLoadActiveTenants
<1>5. CASE StartStatusChange(r)
  <2>1. PICK op \in {"suspendTenant", "activateTenant"}, t \in Tenants,
             linked \in BOOLEAN, res \in {"none", "error"}, l \in {"updateStatus", "done"} :
          /\ Begin(r, NewCall(op, t, NoDomain, linked, res), l)
          /\ l = "updateStatus" => active[Inst(r)][t] # "NONE"
    BY <1>5 DEF StartStatusChange
  <2>2. l = "updateStatus" => Open(t)
    BY <2>1, ConstantsOK DEF RowInv, KnownTenantsAreOpen, Inst
  <2> QED BY <1>1, <2>1, <2>2
<1>6. CASE StartDropTenantSchema(r)
  BY <1>1, <1>6 DEF StartDropTenantSchema
<1> QED BY <1>2, <1>3, <1>4, <1>5, <1>6 DEF Start

\* Each await passed establishes what the next one requires of the row.
LEMMA RowContinue ==
    ASSUME RowInv, Shape', NEW r \in Requests, Continue(r)
    PROVE  RowInv'
<1> USE DEF database, memory
<1> DEFINE c == call[r]
<1>1. /\ Shape /\ c \in Call /\ RowKnown(c, pc[r]) /\ c.todo \subseteq Tenants
      /\ pc \in [Requests -> Locations]
  BY DEF RowInv, RowsKnown, Shape, TypeOK, Call
<1>2. ASSUME RowWrites(r) PROVE RowsLast(r)
  BY <1>2, RowsDoLast
<1>3. ASSUME RowWrites(r), UNCHANGED active PROVE RowsLast(r) /\ KnownTenantsAreOpen'
  BY <1>2, <1>3, KnownKeeps
<1>4. Locations = Initializing \cup
        {"idle", "findDomain", "insertProvisioning", "insertRow", "updateActive",
         "remember", "findActive", "loadNext", "updateStatus", "setStatus",
         "dropExists", "dropSchema", "forget", "done"}
  BY DEF Locations, Initializing
<1>5. ASSUME RowWrites(r), UNCHANGED <<call, active>>, NEW l \in Locations, Goto(r, l),
             RowKnown(c, l)', Owns(c, l) => Owns(c, pc[r])
      PROVE  RowInv'
  BY <1>3, <1>5, RowGoto
<1>6. ASSUME UNCHANGED <<rows, active>>, NEW res, Finish(r, res)
      PROVE  RowInv'
  BY <1>3, <1>6, RowFinish DEF RowWrites
<1>7. ASSUME UNCHANGED <<rows, active>>, Fail(r)
      PROVE  RowInv'
  BY <1>3, <1>7, RowFail DEF RowWrites
\* Awaits within an initialisation, after it, and of a drop.
<1>8. ASSUME UNCHANGED <<rows, active, call>>, NEW l, Goto(r, l), pc[r] \in Initializing,
             \/ l \in Initializing
             \/ l = AfterInit[c.op]
      PROVE  RowInv'
  <2>1. c.op \in {"createTenant", "createTenantWithStore", "loadActiveTenants"}
    BY <1>1, <1>8, OperationAt
  <2>2. l \in Initializing \cup {"insertRow", "updateActive", "remember"}
    BY <1>8, <2>1 DEF AfterInit
  <2>3. Owns(c, l) => Owns(c, pc[r])
    BY <1>8, <2>1 DEF Owns
  <2>4. RowKnown(c, l)'
    BY <1>1, <1>8, <2>1, <2>3 DEF RowKnown, AfterInit, Open, Initializing, BaseTables
  <2> QED BY <1>4, <1>5, <1>8, <2>2, <2>3, <2>4 DEF RowWrites
<1>9. CASE FindDomain(r)
  <2>1. CASE Finish(r, "conflict")
    BY <1>6, <1>9, <2>1 DEF FindDomain
  <2>2. CASE Goto(r, "insertProvisioning") /\ UNCHANGED call
    <3>1. c.op = "createTenantWithStore"
      BY <1>1, <1>9, OperationAt DEF FindDomain
    <3>2. RowKnown(c, "insertProvisioning")' /\ ~Owns(c, "insertProvisioning")
      BY <2>2, <3>1 DEF RowKnown, Owns, Initializing, BaseTables
    <3> QED BY <1>4, <1>5, <1>9, <2>2, <3>2 DEF FindDomain, RowWrites
  <2> QED BY <1>9, <2>1, <2>2 DEF FindDomain
<1>10. CASE InsertProvisioning(r)
  <2>1. c.op = "createTenantWithStore" /\ Ten(r) \in Tenants /\ pc[r] = "insertProvisioning"
    BY <1>1, <1>10, OperationAt DEF InsertProvisioning
  <2>2. CASE ~UniqueFor(Ten(r), c.domain)
    BY <1>7, <1>10, <2>2 DEF InsertProvisioning
  <2>3. CASE UniqueFor(Ten(r), c.domain)
    <3>1. /\ RowWrites(r) /\ Goto(r, "cacheCheck") /\ UNCHANGED <<call, active>>
          /\ rows'[Ten(r)].status = "PROVISIONING"
      BY <1>1, <1>10, <2>1, <2>3
         DEF InsertProvisioning, RowWrites, InsertAs, Shape, TypeOK
    <3>2. RowKnown(c, "cacheCheck")'
      BY <2>1, <3>1 DEF RowKnown, Ten
    <3>3. OthersStay(r) /\ pc'[r] = "cacheCheck"
      BY <1>1, <3>1 DEF OthersStay, Goto
    <3>4. ASSUME NEW q \in Requests \ {r}, Owns(call[q], pc[q])
          PROVE  Ten(q) # Ten(r)'
      BY <2>3, <3>1, <3>4 DEF RowInv, RowsKnown, RowKnown, UniqueFor, HasRow, Ten
    <3> QED BY <1>3, <3>1, <3>2, <3>3, <3>4, RowStep
  <2> QED BY <2>2, <2>3
<1>11. CASE CacheCheck(r) \/ SchemaExists(r) \/ CreateSchema(r) \/ MarkInitialized(r)
  <2>1. /\ UNCHANGED <<rows, active, call>> /\ pc[r] \in Initializing
        /\ \E l \in Initializing \cup {AfterInit[c.op]} : Goto(r, l)
    BY <1>11 DEF CacheCheck, SchemaExists, CreateSchema, MarkInitialized, AddSchema,
       Initializing, BaseTables
  <2> QED BY <1>8, <2>1
<1>12. CASE CreateTable(r)
  <2>1. UNCHANGED <<rows, active>> /\ pc[r] \in BaseTables /\ pc[r] \in Initializing
    BY <1>12 DEF CreateTable, AddTable, Initializing
  <2>2. CASE Fail(r)
    BY <1>7, <2>1, <2>2
  <2>3. CASE Goto(r, NextTable[pc[r]]) /\ UNCHANGED call
    <3>1. NextTable[pc[r]] \in Initializing
      BY <2>1 DEF NextTable, Initializing, BaseTables
    <3> QED BY <1>8, <2>1, <2>3, <3>1
  <2> QED BY <1>12, <2>2, <2>3 DEF CreateTable
<1>13. CASE InsertRow(r)
  <2>1. c.op = "createTenant" /\ Ten(r) \in Tenants /\ pc[r] = "insertRow"
    BY <1>1, <1>13, OperationAt DEF InsertRow
  <2>2. CASE ~UniqueFor(Ten(r), c.domain)
    BY <1>7, <1>13, <2>2 DEF InsertRow
  <2>3. CASE UniqueFor(Ten(r), c.domain)
    <3>1. RowWrites(r) /\ Goto(r, "remember") /\ UNCHANGED <<call, active>> /\ Open(Ten(r))'
      BY <1>1, <1>13, <2>1, <2>3
         DEF InsertRow, RowWrites, InsertAs, Shape, TypeOK, Open, Ten
    <3>2. RowKnown(c, "remember")' /\ ~Owns(c, "remember")
      BY <2>1, <3>1 DEF RowKnown, Owns, Initializing, BaseTables, Ten
    <3> QED BY <1>4, <1>5, <3>1, <3>2
  <2> QED BY <2>2, <2>3
<1>14. CASE UpdateActive(r)
  <2>1. c.op = "createTenantWithStore" /\ Ten(r) \in Tenants /\ pc[r] = "updateActive"
    BY <1>1, <1>14, OperationAt DEF UpdateActive
  <2>2. RowWrites(r) /\ Goto(r, "remember") /\ UNCHANGED <<call, active>> /\ SetRow(r, "ACTIVE")
    BY <1>14 DEF UpdateActive, RowWrites
  <2>3. Open(Ten(r))'
    BY <1>1, <2>1, <2>2 DEF SetRow, Shape, TypeOK, Row, Open, Ten
  <2>4. RowKnown(c, "remember")' /\ ~Owns(c, "remember")
    BY <2>1, <2>2, <2>3 DEF RowKnown, Owns, Initializing, BaseTables, Ten
  <2> QED BY <1>4, <1>5, <2>2, <2>4
<1>15. CASE Remember(r)
  <2> DEFINE linked(q) == call[q].linked /\ ~(Inst(q) = Inst(r) /\ Ten(q) = Ten(r))
             res(q)    == IF q = r /\ c.op # "loadActiveTenants" THEN "ok"
                                                                ELSE call[q].res
  <2>1. \A q \in Requests :
          call'[q] = [call[q] EXCEPT !.linked = linked(q), !.res = res(q)]
    BY <1>15 DEF Remember
  <2> HIDE DEF linked, res
  <2>2. \A q \in Requests : /\ call'[q].op = call[q].op
                            /\ call'[q].tenant = call[q].tenant
                            /\ call'[q].todo = call[q].todo
    <3>1. \A q \in Requests : call[q] \in Call
      BY <1>1 DEF Shape, TypeOK
    <3> QED BY <2>1, <3>1 DEF Call
  <2>3. /\ UNCHANGED rows /\ pc[r] = "remember"
        /\ active' = [active EXCEPT ![Inst(r)][Ten(r)] = "ACTIVE"]
    BY <1>15 DEF Remember
  <2>4. pc'[r] \in {"loadNext", "done"} /\ \A q \in Requests \ {r} : pc'[q] = pc[q]
    BY <1>1, <1>15 DEF Remember, Goto
  <2>5. OthersStay(r)
    BY <2>2, <2>4 DEF OthersStay
  <2>6. Open(Ten(r)) /\ Ten(r) \in Tenants
    BY <1>1, <2>3, OperationAt DEF RowKnown, Ten
  <2>7. KnownTenantsAreOpen'
    BY <1>1, <2>3, <2>6 DEF RowInv, KnownTenantsAreOpen, Open, Shape, TypeOK
  <2>8. ~Owns(call[r], pc[r])'
    BY <2>4 DEF Owns, Initializing, BaseTables
  <2>9. RowKnown(call[r], pc[r])'
    BY <1>1, <2>2, <2>3, <2>4, <2>8 DEF RowKnown, Initializing, BaseTables, Open
  <2> QED BY <1>2, <2>3, <2>5, <2>7, <2>8, <2>9, RowStep DEF RowWrites
<1>16. CASE FindActive(r)
  <2>1. /\ UNCHANGED <<rows, active>> /\ OthersStay(r) /\ pc'[r] = "loadNext"
        /\ call'[r].todo = {t \in Tenants : rows[t].status = "ACTIVE"}
    BY <1>1, <1>16 DEF FindActive, OthersStay, Goto, Shape, TypeOK, Call
  <2>2. ~Owns(call[r], pc[r])' /\ RowKnown(call[r], pc[r])'
    BY <2>1 DEF Owns, RowKnown, Initializing, BaseTables, Open
  <2> QED BY <1>3, <2>1, <2>2, RowStep DEF RowWrites
<1>17. CASE LoadNext(r)
  <2>1. UNCHANGED <<rows, active>> /\ c.op = "loadActiveTenants"
    BY <1>1, <1>17, OperationAt DEF LoadNext
  <2>2. CASE Finish(r, "ok")
    BY <1>6, <2>1, <2>2
  <2>3. ASSUME NEW t \in c.todo,
               call' = [call EXCEPT ![r].todo = @ \ {t}, ![r].tenant = t],
               Goto(r, "cacheCheck")
        PROVE  RowInv'
    <3>1. /\ OthersStay(r) /\ pc'[r] = "cacheCheck"
          /\ call'[r].op = c.op /\ call'[r].tenant = t /\ call'[r].todo = c.todo \ {t}
      BY <1>1, <2>3 DEF OthersStay, Goto, Shape, TypeOK, Call
    <3>2. ~Owns(call[r], pc[r])' /\ RowKnown(call[r], pc[r])'
      BY <1>1, <2>1, <2>3, <3>1 DEF Owns, RowKnown, Initializing, BaseTables, Open
    <3> QED BY <1>3, <2>1, <3>1, <3>2, RowStep DEF RowWrites
  <2> QED BY <1>17, <2>2, <2>3 DEF LoadNext
<1>18. CASE UpdateStatus(r)
  <2>1. /\ RowWrites(r) /\ Goto(r, "setStatus") /\ UNCHANGED <<call, active>>
        /\ pc[r] = "updateStatus"
    BY <1>18 DEF UpdateStatus, RowWrites
  <2>2. /\ c.op \in {"suspendTenant", "activateTenant"} /\ Ten(r) \in Tenants
        /\ Open(Ten(r))'
    BY <1>1, <1>2, <2>1, OperationAt DEF RowKnown, RowsLast, Ten
  <2>3. RowKnown(c, "setStatus")' /\ ~Owns(c, "setStatus")
    BY <2>1, <2>2 DEF RowKnown, Owns, Initializing, BaseTables, Ten
  <2> QED BY <1>4, <1>5, <2>1, <2>3
<1>19. CASE SetStatus(r)
  <2>1. UNCHANGED rows /\ pc[r] = "setStatus" /\ Finish(r, "ok")
    BY <1>19 DEF SetStatus
  <2>2. Open(Ten(r))
    BY <1>1, <2>1 DEF RowKnown, Ten
  <2>3. KnownTenantsAreOpen'
    BY <1>1, <1>19, <2>1, <2>2 DEF SetStatus, RowInv, KnownTenantsAreOpen, Open, Shape, TypeOK
  <2> QED BY <1>2, <2>1, <2>3, RowFinish DEF RowWrites
<1>20. CASE DropExists(r) \/ DropSchema(r) \/ Forget(r)
  <2>1. /\ UNCHANGED <<rows, active>> /\ c.op = "dropTenantSchema"
    BY <1>1, <1>20, OperationAt DEF DropExists, DropSchema, Forget, RemoveSchema
  <2>2. CASE Finish(r, "ok") \/ Finish(r, "error")
    BY <1>6, <2>1, <2>2
  <2>3. ASSUME NEW l \in {"dropSchema", "forget"}, Goto(r, l), UNCHANGED call
        PROVE  RowInv'
    <3>1. RowKnown(c, l)' /\ ~Owns(c, l)
      BY <2>1, <2>3 DEF RowKnown, Owns
    <3> QED BY <1>4, <1>5, <2>1, <2>3, <3>1 DEF RowWrites
  <2> QED BY <1>20, <2>2, <2>3 DEF DropExists, DropSchema, Forget
<1>21. CASE Return(r)
  <2>1. /\ UNCHANGED <<rows, active>>
        /\ OthersStay(r) /\ pc'[r] = "idle" /\ call'[r].op = "none"
    BY <1>1, <1>21 DEF Return, OthersStay, Goto, Shape, TypeOK, NoCall, NewCall
  <2>2. ~Owns(call[r], pc[r])' /\ RowKnown(call[r], pc[r])'
    BY <2>1 DEF Owns, RowKnown, Initializing, BaseTables
  <2> QED BY <1>3, <2>1, <2>2, RowStep DEF RowWrites
<1> QED
  BY <1>9, <1>10, <1>11, <1>12, <1>13, <1>14, <1>15, <1>16, <1>17, <1>18, <1>19, <1>20, <1>21
  DEF Continue

\* Failing and lost database calls preserve RowInv.
LEMMA RowFault ==
    ASSUME RowInv, Shape', NEW r \in Requests, DatabaseFault(r) \/ LostReply(r)
    PROVE  RowInv'
<1>1. RowWrites(r) /\ UNCHANGED active
  BY DEF DatabaseFault, LostReply, RowWrites, database, memory, AddSchema, AddTable,
     RemoveSchema
<1>2. RowsLast(r)
  BY <1>1, RowsDoLast
<1>3. CASE Fail(r)
  BY <1>1, <1>2, <1>3, RowFail
<1>4. CASE pc[r] = "schemaExists" /\ Goto(r, "createSchema") /\ UNCHANGED <<call, database>>
  <2>1. RowKnown(call[r], pc[r])
    BY DEF RowInv, RowsKnown
  <2>2. /\ RowKnown(call[r], "createSchema")'
        /\ Owns(call[r], pc[r]) = Owns(call[r], "createSchema")
    BY <1>4, <2>1 DEF RowKnown, Owns, Initializing, BaseTables, Open, database
  <2>3. "createSchema" \in Locations
    BY DEF Locations
  <2> QED BY <1>1, <1>2, <1>4, <2>2, <2>3, KnownKeeps, RowGoto
<1> QED BY <1>3, <1>4 DEF DatabaseFault, LostReply

\* The invariant of the rows holds in every run, whichever methods are called.
THEOREM RowsInvariance == Spec => []RowInv
<1>1. ASSUME Init PROVE RowInv
  <2>1. \A r \in Requests : ~Owns(call[r], pc[r]) /\ RowKnown(call[r], pc[r])
    BY <1>1 DEF Init, NoCall, NewCall, Owns, RowKnown, Initializing, BaseTables
  <2>2. KnownTenantsAreOpen
    BY <1>1 DEF Init, KnownTenantsAreOpen, Open, EmptyRow
  <2> QED BY <1>1, <2>1, <2>2, ShapeInit DEF RowInv, RowsKnown, OneOwner
<1>2. ASSUME RowInv, [Next]_vars PROVE RowInv'
  <2>1. Shape'
    BY <1>2, ShapeNext DEF RowInv
  <2>2. CASE UNCHANGED vars
    BY <1>2, <2>1, <2>2 DEF vars, RowInv, KnownTenantsAreOpen, RowsKnown, RowKnown, OneOwner,
       Owns, Open, Ten
  <2>3. CASE Crash
    <3>1. \A r \in Requests : ~Owns(call[r], pc[r])' /\ RowKnown(call[r], pc[r])'
      BY <2>3 DEF Crash, NoCall, NewCall, Owns, RowKnown, Initializing, BaseTables
    <3>2. KnownTenantsAreOpen'
      BY <2>3 DEF Crash, KnownTenantsAreOpen
    <3> QED BY <2>1, <3>1, <3>2 DEF RowInv, RowsKnown, OneOwner
  <2> QED BY <1>2, <2>1, <2>2, <2>3, RowStart, RowContinue, RowFault DEF Next
<1> QED BY <1>1, <1>2, PTL DEF Spec

\* Only tenants with an open row are ever in activeTenants, dropTenantSchema or not.
THEOREM KnownTenants == Spec => []KnownTenantsAreOpen
<1>1. RowInv => KnownTenantsAreOpen
  BY DEF RowInv
<1> QED BY <1>1, RowsInvariance, PTL

\* A call writes the rows as its await demands.
LEMMA CallRowWrites ==
    ASSUME NEW r \in Requests, Continue(r) \/ DatabaseFault(r) \/ LostReply(r)
    PROVE  RowWrites(r)
  BY DEF Continue, FindDomain, InsertProvisioning, CacheCheck, SchemaExists,
     CreateSchema, CreateTable, MarkInitialized, InsertRow, UpdateActive, Remember,
     FindActive, LoadNext, UpdateStatus, SetStatus, DropExists, DropSchema, Forget, Return,
     DatabaseFault, LostReply, RowWrites, database, AddSchema, AddTable, RemoveSchema

\* Every step writes the tenants table the way one call may, or not at all.
LEMMA StepRowWrites ==
    ASSUME [Next]_vars
    PROVE  UNCHANGED rows \/ \E r \in Requests : RowWrites(r)
<1>1. CASE UNCHANGED vars
  BY <1>1 DEF vars
<1>2. CASE Crash
  BY <1>2 DEF Crash, database
<1>3. ASSUME NEW r \in Requests, Start(r)
      PROVE  UNCHANGED rows
  BY <1>3 DEF Start, StartCreateTenant, StartCreateTenantWithStore, StartLoadActiveTenants,
     StartStatusChange, StartDropTenantSchema, Begin, database
<1> QED BY <1>1, <1>2, <1>3, CallRowWrites DEF Next

\* The call that writes a row is no longer at that write after it.
LEMMA WritersMove ==
    ASSUME RowInv, [Next]_vars, rows' # rows
    PROVE  \E r \in Requests : RowWrites(r) /\ pc'[r] # pc[r]
<1>1. PICK r \in Requests : Continue(r) \/ DatabaseFault(r) \/ LostReply(r)
  <2>1. ~UNCHANGED vars /\ ~Crash  BY DEF vars, Crash, database
  <2>2. \A r \in Requests : ~Start(r)
    BY DEF Start, StartCreateTenant, StartCreateTenantWithStore, StartLoadActiveTenants,
       StartStatusChange, StartDropTenantSchema, Begin, database
  <2> QED  BY <2>1, <2>2 DEF Next
<1>2. pc \in [Requests -> Locations]  BY DEF RowInv, RowsKnown, Shape, TypeOK
<1>3. InsertProvisioning(r) \/ InsertRow(r) \/ UpdateActive(r) \/ UpdateStatus(r) \/ LostReply(r)
  BY <1>1 DEF Continue, FindDomain, CacheCheck, SchemaExists,
     CreateSchema, CreateTable, MarkInitialized, Remember,
     FindActive, LoadNext, SetStatus, DropExists, DropSchema, Forget, Return,
     DatabaseFault, database, AddSchema, AddTable, RemoveSchema
<1>4. pc'[r] # pc[r]
  BY <1>2, <1>3 DEF InsertProvisioning, InsertRow, UpdateActive, UpdateStatus, LostReply,
     Fail, Finish, Goto, AddSchema, AddTable, database, BaseTables
<1> QED BY <1>1, <1>4, CallRowWrites

\* A suspended tenant is reactivated only by the update of an activateTenant, whatever
\* else is called.
THEOREM SuspensionIsSticky == Spec => SuspensionSticks
<1>1. ASSUME RowInv, [Next]_vars, NEW t \in Tenants,
             rows[t].status = "SUSPENDED", rows'[t].status # "SUSPENDED"
      PROVE  \E r \in Requests : /\ call[r].op = "activateTenant" /\ Ten(r) = t
                                 /\ pc[r] = "updateStatus" /\ pc'[r] # pc[r]
  <2>1. PICK r \in Requests : RowWrites(r) /\ pc'[r] # pc[r]
    BY <1>1, WritersMove
  <2> QED BY <1>1, <2>1, RowWriteKinds DEF HasRow
<1>2. RowInv /\ [Next]_vars =>
        [\A t \in Tenants :
           rows[t].status = "SUSPENDED" /\ rows'[t].status # "SUSPENDED" =>
             \E r \in Requests : /\ call[r].op = "activateTenant" /\ Ten(r) = t
                                 /\ pc[r] = "updateStatus" /\ pc'[r] # pc[r]]_vars
  BY <1>1
<1> QED BY <1>2, RowsInvariance, PTL DEF Spec, SuspensionSticks

-----------------------------------------------------------------------------
(* What the calls know of the schemas, when no call drops one.             *)

\* The invariant without its part about the rows.
SchemaInv == CacheInDatabase /\ OpenRowsHaveSchema /\ SchemasKnown

\* A step that takes no schema away keeps it, if the call that steps finds its schema
\* where its new await requires it, what it adds to its cache exists and the row it
\* opens has its schema.
LEMMA SchemaStep ==
    ASSUME RowInv, SchemaInv, NEW r \in Requests, OthersStay(r), SchemaKnown(call[r], pc[r])',
           schemas \subseteq schemas',
           \A i \in Instances : initialized'[i] \subseteq initialized[i] \cup schemas,
           \A t \in Tenants : Open(t)' => Open(t) \/ SchemaName[t] \in schemas
    PROVE  SchemaInv'
<1>1. CacheInDatabase'
  BY DEF SchemaInv, CacheInDatabase
<1>2. OpenRowsHaveSchema'
  BY DEF SchemaInv, OpenRowsHaveSchema
<1>3. ASSUME NEW q \in Requests PROVE SchemaKnown(call[q], pc[q])'
  <2>1. SchemaKnown(call[q], pc[q])
    BY DEF SchemaInv, SchemasKnown
  <2> QED BY <1>3, <2>1 DEF SchemaKnown, OthersStay
<1> QED BY <1>1, <1>2, <1>3 DEF SchemaInv, SchemasKnown

\* A row is opened only when its schema is there.
LEMMA OpenedHaveSchema ==
    ASSUME RowInv, SchemaInv, NEW r \in Requests, RowWrites(r)
    PROVE  \A t \in Tenants : Open(t)' => Open(t) \/ SchemaName[t] \in schemas
<1>1. CASE rows' = rows
  BY <1>1 DEF Open
<1>2. CASE rows' # rows
  <2>1. pc[r] \in {"insertRow", "updateActive"} => SchemaName[Ten(r)] \in schemas
    BY DEF SchemaInv, SchemasKnown, SchemaKnown, SchemaPresent, Ten
  <2> QED BY <1>2, <2>1, RowWriteKinds DEF Open
<1> QED BY <1>1, <1>2

\* A step that writes no row and no schema, and adds nothing to a cache.
LEMMA SchemaQuiet ==
    ASSUME RowInv, SchemaInv, NEW r \in Requests, OthersStay(r), SchemaKnown(call[r], pc[r])',
           UNCHANGED <<rows, schemas, initialized>>
    PROVE  SchemaInv'
<1>1. \A i \in Instances : initialized'[i] \subseteq initialized[i] \cup schemas
  OBVIOUS
<1>2. \A t \in Tenants : Open(t)' => Open(t) \/ SchemaName[t] \in schemas
  BY DEF Open
<1> QED BY <1>1, <1>2, SchemaStep

\* A call that ends, fails or goes on with its load needs no schema.
LEMMA SchemaLeft ==
    ASSUME RowInv, SchemaInv, NEW r \in Requests, Fail(r) \/ \E res : Finish(r, res)
    PROVE  OthersStay(r) /\ SchemaKnown(call[r], pc[r])'
<1>1. /\ call \in [Requests -> Call] /\ pc \in [Requests -> Locations]
      /\ SchemaKnown(call[r], pc[r])
  BY DEF RowInv, Shape, TypeOK, SchemaInv, SchemasKnown
<1>2. CASE \E res : Finish(r, res)
  BY <1>1, <1>2
     DEF Finish, OthersStay, SchemaKnown, SchemaPresent, BaseTables, Call
<1>3. CASE Goto(r, "loadNext") /\ UNCHANGED call
  BY <1>1, <1>3 DEF Goto, OthersStay, SchemaKnown, SchemaPresent, BaseTables
<1> QED BY <1>2, <1>3 DEF Fail

\* A call begins with a cache that exists, or an empty one.
LEMMA SchemaStart ==
    ASSUME RowInv, SchemaInv, NEW r \in Requests, Start(r), "dropTenantSchema" \notin Operations
    PROVE  SchemaInv'
<1>1. PICK c, l : /\ Begin(r, c, l)
                  /\ l \in {"cacheCheck", "findDomain", "findActive", "updateStatus",
                            "dropExists", "done"}
  BY DEF Start, StartCreateTenant, StartCreateTenantWithStore, StartLoadActiveTenants,
     StartStatusChange, StartDropTenantSchema
<1>2. OthersStay(r) /\ pc'[r] = l /\ call'[r] = c /\ UNCHANGED <<rows, schemas>>
  BY <1>1 DEF Begin, Goto, OthersStay, RowInv, Shape, TypeOK, database
<1>3. c.op # "dropTenantSchema"
  BY <1>1 DEF Begin
<1>4. SchemaKnown(call[r], pc[r])'
  BY <1>1, <1>2, <1>3 DEF SchemaKnown, SchemaPresent, BaseTables
<1>5. \A i \in Instances : initialized'[i] \subseteq initialized[i] \cup schemas
  BY <1>1 DEF Begin, Fresh, RowInv, Shape, TypeOK
<1>6. \A t \in Tenants : Open(t)' => Open(t) \/ SchemaName[t] \in schemas
  BY <1>2 DEF Open
<1> QED BY <1>2, <1>4, <1>5, <1>6, SchemaStep

\* From the first table on the schema is there: it was created, found, or in the cache.
LEMMA SchemaContinue ==
    ASSUME RowInv, SchemaInv, NEW r \in Requests, Continue(r)
    PROVE  SchemaInv'
<1> USE DEF database, memory
<1>1. /\ Shape /\ call \in [Requests -> Call] /\ pc \in [Requests -> Locations]
      /\ initialized \in [Instances -> SUBSET Schemas]
      /\ SchemaKnown(call[r], pc[r])
  BY DEF RowInv, Shape, TypeOK, SchemaInv, SchemasKnown
<1>2. ASSUME NEW l, Goto(r, l), UNCHANGED call,
             l \in SchemaPresent => SchemaOf(r) \in schemas'
      PROVE  OthersStay(r) /\ SchemaKnown(call[r], pc[r])'
  BY <1>1, <1>2 DEF Goto, OthersStay, SchemaKnown, SchemaOf, Ten
<1>3. ASSUME UNCHANGED <<rows, schemas, initialized>>, Fail(r) \/ \E res : Finish(r, res)
      PROVE  SchemaInv'
  BY <1>3, SchemaLeft, SchemaQuiet
<1>4. CASE FindDomain(r)
  <2>1. CASE Goto(r, "insertProvisioning") /\ UNCHANGED call
    BY <1>2, <1>4, <2>1, SchemaQuiet DEF FindDomain, SchemaPresent, BaseTables
  <2> QED BY <1>3, <1>4, <2>1 DEF FindDomain
<1>5. CASE InsertProvisioning(r) \/ InsertRow(r) \/ UpdateActive(r) \/ UpdateStatus(r)
  <2>1. RowWrites(r) /\ UNCHANGED <<schemas, initialized>>
    BY <1>5 DEF InsertProvisioning, InsertRow, UpdateActive, UpdateStatus, RowWrites,
       InsertAs, SetRow
  <2>2. CASE Fail(r)
    BY <2>1, <2>2, SchemaLeft, OpenedHaveSchema, SchemaStep
  <2>3. ASSUME NEW l, Goto(r, l), UNCHANGED call,
               \/ l \in {"cacheCheck", "setStatus"}
               \/ l = "remember" /\ pc[r] \in {"insertRow", "updateActive"}
        PROVE  SchemaInv'
    <3>1. l \in SchemaPresent => SchemaOf(r) \in schemas'
      BY <1>1, <2>1, <2>3 DEF SchemaKnown, SchemaPresent, BaseTables, SchemaOf, Ten
    <3> QED BY <1>2, <2>1, <2>3, <3>1, OpenedHaveSchema, SchemaStep
  <2> QED
    BY <1>5, <2>2, <2>3 DEF InsertProvisioning, InsertRow, UpdateActive, UpdateStatus
<1>6. CASE CacheCheck(r) \/ SchemaExists(r)
  <2>1. PICK l : /\ Goto(r, l) /\ UNCHANGED <<rows, schemas, initialized, call>>
                 /\ \/ l \in {"schemaExists", "createSchema"}
                    \/ SchemaOf(r) \in initialized[Inst(r)] \/ SchemaOf(r) \in schemas
    BY <1>6 DEF CacheCheck, SchemaExists
  <2>2. l \in SchemaPresent => SchemaOf(r) \in schemas'
    BY <2>1, ConstantsOK DEF SchemaInv, CacheInDatabase, Inst, SchemaPresent, BaseTables
  <2> QED BY <1>2, <2>1, <2>2, SchemaQuiet
<1>7. CASE CreateSchema(r)
  <2>1. /\ Goto(r, "users") /\ UNCHANGED <<rows, initialized, call>>
        /\ schemas' = schemas \cup {SchemaOf(r)}
    BY <1>7 DEF CreateSchema, AddSchema
  <2>2. OthersStay(r) /\ SchemaKnown(call[r], pc[r])'
    BY <1>2, <2>1
  <2> QED BY <2>1, <2>2, SchemaStep DEF Open
<1>8. CASE CreateTable(r) \/ MarkInitialized(r)
  <2>1. SchemaOf(r) \in schemas
    BY <1>1, <1>8 DEF CreateTable, MarkInitialized, SchemaKnown, SchemaPresent, SchemaOf, Ten
  <2>2. /\ UNCHANGED <<rows, schemas, call>> /\ \E l : Goto(r, l)
        /\ \A i \in Instances : initialized'[i] \subseteq initialized[i] \cup schemas
    BY <1>1, <1>8, <2>1 DEF CreateTable, MarkInitialized, AddTable
  <2>3. OthersStay(r) /\ SchemaKnown(call[r], pc[r])'
    BY <1>2, <2>1, <2>2
  <2> QED BY <2>2, <2>3, SchemaStep DEF Open
<1>9. CASE Remember(r)
  <2>1. \A q \in Requests : call'[q].op = call[q].op /\ call'[q].tenant = call[q].tenant
                            /\ call'[q].todo = call[q].todo
    BY <1>1, <1>9 DEF Remember, Call
  <2>2. /\ UNCHANGED <<rows, schemas, initialized>> /\ pc[r] = "remember"
        /\ pc' = [pc EXCEPT ![r] = IF call[r].op = "loadActiveTenants" THEN "loadNext"
                                                                       ELSE "done"]
    BY <1>9 DEF Remember, Goto
  <2>3. OthersStay(r) /\ SchemaKnown(call[r], pc[r])'
    BY <1>1, <2>1, <2>2 DEF OthersStay, SchemaKnown, SchemaPresent, BaseTables
  <2> QED BY <2>2, <2>3, SchemaQuiet
<1>10. CASE FindActive(r) \/ LoadNext(r) \/ Return(r)
  <2>1. UNCHANGED <<rows, schemas, initialized>>
    BY <1>10 DEF FindActive, LoadNext, Return
  <2>2. CASE Finish(r, "ok")
    BY <1>3, <2>1, <2>2
  <2>3. CASE ~Finish(r, "ok")
    <3>1. /\ \E l \in {"loadNext", "cacheCheck", "idle"} : Goto(r, l)
          /\ \A q \in Requests \ {r} : call'[q] = call[q]
          /\ call'[r].op \in {call[r].op, "none"}
      <4>1. CASE FindActive(r)
        BY <1>1, <4>1 DEF FindActive, Call
      <4>2. CASE LoadNext(r)
        <5>1. PICK t \in call[r].todo :
                /\ call' = [call EXCEPT ![r].todo = @ \ {t}, ![r].tenant = t]
                /\ Goto(r, "cacheCheck")
          BY <2>3, <4>2 DEF LoadNext
        <5>2. call'[r].op = call[r].op
          BY <1>1, <5>1 DEF Call
        <5> QED BY <1>1, <5>1, <5>2
      <4>3. CASE Return(r)
        BY <1>1, <4>3 DEF Return, NoCall, NewCall
      <4> QED BY <1>10, <4>1, <4>2, <4>3
    <3>2. OthersStay(r) /\ SchemaKnown(call[r], pc[r])'
      BY <1>1, <3>1 DEF OthersStay, Goto, SchemaKnown, SchemaPresent, BaseTables
    <3> QED BY <2>1, <3>2, SchemaQuiet
  <2> QED BY <2>2, <2>3
<1>11. CASE SetStatus(r)
  BY <1>3, <1>11 DEF SetStatus
<1>12. CASE DropExists(r) \/ DropSchema(r) \/ Forget(r)
  BY <1>1, <1>12, OperationAt DEF DropExists, DropSchema, Forget, SchemaKnown
<1> QED
  BY <1>4, <1>5, <1>6, <1>7, <1>8, <1>9, <1>10, <1>11, <1>12 DEF Continue

\* Failing and lost database calls keep what is known of the schemas.
LEMMA SchemaFault ==
    ASSUME RowInv, SchemaInv, NEW r \in Requests, DatabaseFault(r) \/ LostReply(r)
    PROVE  SchemaInv'
<1>1. Shape /\ SchemaKnown(call[r], pc[r]) /\ pc[r] # "dropSchema"
  BY OperationAt DEF RowInv, SchemaInv, SchemasKnown, SchemaKnown
<1>2. /\ RowWrites(r) /\ UNCHANGED initialized /\ schemas \subseteq schemas'
  BY <1>1 DEF DatabaseFault, LostReply, RowWrites, database, memory, AddSchema, AddTable,
     InsertAs, SetRow
<1>3. CASE Fail(r)
  BY <1>2, <1>3, SchemaLeft, OpenedHaveSchema, SchemaStep
<1>4. CASE Goto(r, "createSchema") /\ UNCHANGED call
  <2>1. OthersStay(r) /\ SchemaKnown(call[r], pc[r])'
    BY <1>1, <1>4
       DEF RowInv, Shape, TypeOK, Goto, OthersStay, SchemaKnown, SchemaPresent, BaseTables
  <2> QED BY <1>2, <2>1, OpenedHaveSchema, SchemaStep
<1> QED BY <1>3, <1>4 DEF DatabaseFault, LostReply

\* The inductive invariant of the schemas holds in every run in which nothing is
\* dropped, whatever the numbers of tenants, callers, faults and restarts.
THEOREM Invariance ==
    ASSUME "dropTenantSchema" \notin Operations
    PROVE  Spec => []IInv
<1>1. ASSUME Init PROVE SchemaInv
  BY <1>1 DEF Init, SchemaInv, CacheInDatabase, OpenRowsHaveSchema, Open, EmptyRow,
     SchemasKnown, SchemaKnown, SchemaPresent, BaseTables, NoCall, NewCall
<1>2. ASSUME RowInv, SchemaInv, [Next]_vars PROVE SchemaInv'
  <2>1. CASE UNCHANGED vars
    BY <1>2, <2>1 DEF vars, SchemaInv, CacheInDatabase, OpenRowsHaveSchema, Open,
       SchemasKnown, SchemaKnown
  <2>2. CASE Crash
    BY <1>2, <2>2 DEF Crash, database, SchemaInv, CacheInDatabase, OpenRowsHaveSchema, Open,
       SchemasKnown, SchemaKnown, SchemaPresent, BaseTables, NoCall, NewCall
  <2> QED BY <1>2, <2>1, <2>2, SchemaStart, SchemaContinue, SchemaFault DEF Next
<1>3. RowInv /\ SchemaInv <=> IInv
  BY DEF SchemaInv, IInv
<1> QED BY <1>1, <1>2, <1>3, RowsInvariance, PTL DEF Spec

\* A tenant listed as ACTIVE or SUSPENDED always has its schema.
THEOREM SchemasOfOpenRows ==
    ASSUME "dropTenantSchema" \notin Operations
    PROVE  Spec => []OpenRowsHaveSchema
<1>1. IInv => OpenRowsHaveSchema
  BY DEF IInv
<1> QED BY <1>1, Invariance, PTL

\* When nothing is dropped, what initializedSchemas names exists in the database,
\* whatever was lost in faults and restarts.
THEOREM CachedSchemas ==
    ASSUME "dropTenantSchema" \notin Operations
    PROVE  Spec => []CachedSchemasExist
<1>1. IInv => CachedSchemasExist
  BY DEF IInv, CacheInDatabase, CachedSchemasExist
<1> QED BY <1>1, Invariance, PTL

\* No step takes a schema away.
LEMMA SchemasGrow ==
    ASSUME IInv, [Next]_vars
    PROVE  schemas \subseteq schemas'
<1>1. ASSUME NEW r \in Requests PROVE pc[r] # "dropSchema"
  BY OperationAt DEF IInv, RowInv, SchemasKnown, SchemaKnown
<1>2. CASE UNCHANGED vars
  BY <1>2 DEF vars
<1>3. CASE Crash
  BY <1>3 DEF Crash, database
<1>4. ASSUME NEW r \in Requests, Start(r) PROVE UNCHANGED schemas
  BY <1>4 DEF Start, StartCreateTenant, StartCreateTenantWithStore, StartLoadActiveTenants,
     StartStatusChange, StartDropTenantSchema, Begin, database
<1>5. ASSUME NEW r \in Requests, Continue(r) \/ DatabaseFault(r) \/ LostReply(r)
      PROVE  schemas \subseteq schemas'
  BY <1>1, <1>5 DEF Continue, FindDomain, InsertProvisioning, CacheCheck, SchemaExists,
     CreateSchema, CreateTable, MarkInitialized, InsertRow, UpdateActive, Remember,
     FindActive, LoadNext, UpdateStatus, SetStatus, DropExists, DropSchema, Forget, Return,
     DatabaseFault, LostReply, database, AddSchema, AddTable, InsertAs, SetRow
<1> QED BY <1>2, <1>3, <1>4, <1>5 DEF Next

\* The services implement TenantDirectory.
THEOREM Refinement ==
    ASSUME "dropTenantSchema" \notin Operations
    PROVE  Spec => ImplementsDirectory
<1> DEFINE status      == [t \in Tenants |-> rows[t].status]
           provisioned == {t \in Tenants : SchemaName[t] \in schemas}
<1>1. Init => Directory!Init
  BY DEF Init, Directory!Init, EmptyRow
<1>2. ASSUME IInv, [Next]_vars
      PROVE  [Directory!Next]_<<status, provisioned>>
  <2>1. CASE rows' = rows
    <3>1. schemas \subseteq schemas'
      BY <1>2, SchemasGrow
    <3>2. provisioned' = provisioned \cup provisioned' /\ provisioned' \in SUBSET Tenants
      BY <3>1
    <3> QED BY <2>1, <3>2 DEF Directory!Next, Directory!Provision
  <2>2. ASSUME NEW r \in Requests, RowWrites(r), rows' # rows
        PROVE  [Directory!Next]_<<status, provisioned>>
    <3>0. RowInv /\ SchemaInv
      BY <1>2 DEF IInv, SchemaInv
    <3>1. PICK t \in Tenants : t = Ten(r)
      BY <2>2, <3>0, RowWriteKinds
    <3>2. /\ UNCHANGED provisioned
          /\ status' = [status EXCEPT ![t] = rows'[t].status]
      BY <2>2, <3>0, <3>1, RowWriteKinds DEF RowWrites, InsertAs, SetRow
    <3>3. \/ status[t] = "NONE" /\ rows'[t].status = "PROVISIONING"
          \/ /\ status[t] \in {"NONE", "PROVISIONING"} /\ t \in provisioned
             /\ rows'[t].status = "ACTIVE"
          \/ status[t] \in {"ACTIVE", "SUSPENDED"} /\ rows'[t].status \in {"ACTIVE", "SUSPENDED"}
      <4>1. pc[r] \in {"insertRow", "updateActive"} => t \in provisioned
        BY <3>0, <3>1 DEF SchemaInv, SchemasKnown, SchemaKnown, SchemaPresent, Ten
      <4> QED BY <2>2, <3>0, <3>1, <4>1, RowWriteKinds DEF HasRow, Open
    <3>4. CASE rows'[t].status = status[t]
      BY <3>2, <3>4
    <3>5. CASE rows'[t].status # status[t]
      <4> USE DEF Directory!Become
      <4>1. CASE status[t] = "NONE" /\ rows'[t].status = "PROVISIONING"
        <5>1. Directory!Reserve(t)
          BY <3>2, <4>1 DEF Directory!Reserve
        <5> QED BY <3>2, <5>1 DEF Directory!Next
      <4>2. CASE /\ status[t] \in {"NONE", "PROVISIONING"} /\ t \in provisioned
                 /\ rows'[t].status = "ACTIVE"
        <5>1. Directory!Open(t)
          BY <3>2, <4>2 DEF Directory!Open
        <5> QED BY <3>2, <5>1 DEF Directory!Next
      <4>3. CASE status[t] = "ACTIVE" /\ rows'[t].status = "SUSPENDED"
        <5>1. Directory!Suspend(t)
          BY <3>2, <4>3 DEF Directory!Suspend
        <5> QED BY <3>2, <5>1 DEF Directory!Next
      <4>4. CASE status[t] = "SUSPENDED" /\ rows'[t].status = "ACTIVE"
        <5>1. Directory!Reactivate(t)
          BY <3>2, <4>4 DEF Directory!Reactivate
        <5> QED BY <3>2, <5>1 DEF Directory!Next
      <4> QED BY <3>3, <3>5, <4>1, <4>2, <4>3, <4>4
    <3> QED BY <3>4, <3>5
  <2> QED BY <1>2, <2>1, <2>2, StepRowWrites
<1>3. QED BY <1>1, <1>2, Invariance, PTL DEF Spec, ImplementsDirectory, Directory!Spec

-----------------------------------------------------------------------------
(* At most one creation of a tenant or a domain succeeds.  This needs no   *)
(* more than Shape, so dropTenantSchema may be called too.                 *)

Creators == {"createTenant", "createTenantWithStore"}

\* A creation that has inserted its row, up to the end of a successful one.
Claims(c, l) ==
    /\ c.op \in Creators
    /\ \/ c.res = "ok"
       \/ l = "remember"
       \/ c.op = "createTenantWithStore" /\ l \in Initializing \cup {"updateActive"}

\* The row of a claim is there with its domain, no other call claims it, and the
\* column is unique.
ClaimsHold ==
    /\ \A r \in Requests : Claims(call[r], pc[r]) =>
          HasRow(Ten(r)) /\ rows[Ten(r)].domain = call[r].domain
    /\ \A r, q \in Requests : Claims(call[r], pc[r]) /\ Claims(call[q], pc[q])
          /\ Ten(r) = Ten(q) => r = q
    /\ \A t, u \in Tenants : rows[t].domain = rows[u].domain
          /\ rows[t].domain \in Domains => t = u

\* A claim names a tenant and a domain.
LEMMA ClaimShape ==
    ASSUME Shape, NEW r \in Requests, call[r].op \in Creators
    PROVE  Ten(r) \in Tenants /\ call[r].domain \in Domains
  BY DEF Shape, CallShape, Creators, Ten

\* What most steps do: rows stay, and whoever claims afterwards claimed before.
RowsStay == \A t \in Tenants : /\ rows'[t].domain = rows[t].domain
                               /\ HasRow(t) => rows'[t].status # "NONE"
ClaimStays(q) == Claims(call'[q], pc'[q]) =>
    /\ Claims(call[q], pc[q])
    /\ call'[q].tenant = call[q].tenant /\ call'[q].domain = call[q].domain

\* A step that keeps the rows and makes no new claim.
LEMMA ClaimsKept ==
    ASSUME Shape, ClaimsHold, RowsStay, \A q \in Requests : ClaimStays(q)
    PROVE  ClaimsHold'
<1>1. ASSUME NEW r \in Requests, Claims(call'[r], pc'[r])
      PROVE  /\ Claims(call[r], pc[r]) /\ Ten(r) \in Tenants
             /\ call'[r].tenant = Ten(r) /\ call'[r].domain = call[r].domain
  <2>1. call[r].op \in Creators  BY <1>1 DEF ClaimStays, Claims
  <2> QED  BY <1>1, <2>1, ClaimShape DEF ClaimStays, Ten
<1>2. ASSUME NEW r \in Requests, Claims(call'[r], pc'[r])
      PROVE  rows'[call'[r].tenant].status # "NONE"
             /\ rows'[call'[r].tenant].domain = call'[r].domain
  BY <1>1, <1>2 DEF ClaimsHold, RowsStay
<1>3. ASSUME NEW r \in Requests, NEW q \in Requests, Claims(call'[r], pc'[r]),
             Claims(call'[q], pc'[q]), call'[r].tenant = call'[q].tenant
      PROVE  r = q
  BY <1>1, <1>3 DEF ClaimsHold
<1>4. ASSUME NEW t \in Tenants, NEW u \in Tenants, rows'[t].domain = rows'[u].domain,
             rows'[t].domain \in Domains
      PROVE  t = u
  BY <1>4 DEF ClaimsHold, RowsStay
<1> QED  BY <1>2, <1>3, <1>4 DEF ClaimsHold, HasRow, Ten

\* An insert that the unique columns let through makes one new claim at most.
LEMMA ClaimsInsert ==
    ASSUME Shape, ClaimsHold, NEW r \in Requests, NEW status \in Statuses \ {"NONE"}, NEW schema,
           call[r].op \in Creators, UniqueFor(Ten(r), call[r].domain),
           InsertAs(r, status, schema),
           call'[r].tenant = Ten(r), call'[r].domain = call[r].domain,
           \A q \in Requests \ {r} : call'[q] = call[q] /\ pc'[q] = pc[q]
    PROVE  ClaimsHold'
<1>1. /\ Ten(r) \in Tenants /\ call[r].domain \in Domains /\ rows \in [Tenants -> Row]
      /\ ~HasRow(Ten(r)) /\ \A u \in Tenants : rows[u].domain # call[r].domain
  BY ClaimShape DEF UniqueFor, Shape, TypeOK
<1>2. /\ rows'[Ten(r)].status # "NONE" /\ rows'[Ten(r)].domain = call[r].domain
      /\ \A t \in Tenants \ {Ten(r)} : rows'[t] = rows[t]
  BY <1>1 DEF InsertAs
<1>3. ASSUME NEW q \in Requests \ {r}, Claims(call[q], pc[q])
      PROVE  Ten(q) \in Tenants \ {Ten(r)}
  BY <1>1, <1>3, ClaimShape DEF ClaimsHold, Claims
<1>4. ASSUME NEW q \in Requests, Claims(call'[q], pc'[q])
      PROVE  rows'[call'[q].tenant].status # "NONE"
             /\ rows'[call'[q].tenant].domain = call'[q].domain
  <2>1. CASE q = r  BY <1>2, <2>1
  <2>2. CASE q # r  BY <1>2, <1>3, <1>4, <2>2 DEF ClaimsHold, HasRow, Ten
  <2> QED  BY <2>1, <2>2
<1>5. ASSUME NEW p \in Requests, NEW q \in Requests, Claims(call'[p], pc'[p]),
             Claims(call'[q], pc'[q]), call'[p].tenant = call'[q].tenant
      PROVE  p = q
  <2>1. CASE p # r /\ q # r  BY <1>5, <2>1 DEF ClaimsHold, Ten
  <2>2. CASE p = r /\ q # r  BY <1>3, <1>5, <2>2 DEF Ten
  <2>3. CASE p # r /\ q = r  BY <1>3, <1>5, <2>3 DEF Ten
  <2> QED  BY <2>1, <2>2, <2>3
<1>6. ASSUME NEW t \in Tenants, NEW u \in Tenants, rows'[t].domain = rows'[u].domain,
             rows'[t].domain \in Domains
      PROVE  t = u
  BY <1>1, <1>2, <1>6 DEF ClaimsHold
<1> QED  BY <1>4, <1>5, <1>6 DEF ClaimsHold, HasRow, Ten

\* A call that moves from one await to another, or ends.
LEMMA ClaimGoto ==
    ASSUME Shape, NEW r \in Requests, NEW l, Goto(r, l), UNCHANGED call,
           Claims(call[r], l) => Claims(call[r], pc[r])
    PROVE  \A q \in Requests : ClaimStays(q)
  BY DEF Goto, ClaimStays, Shape, TypeOK

\* A call that ends claims what it claimed, or nothing.
LEMMA ClaimFinish ==
    ASSUME Shape, NEW r \in Requests, NEW result, Finish(r, result),
           result = "ok" => call[r].op \notin Creators
    PROVE  \A q \in Requests : ClaimStays(q)
  BY DEF Finish, ClaimStays, Claims, Shape, TypeOK, Call, Initializing, BaseTables

\* So does one that fails.
LEMMA ClaimFail ==
    ASSUME Shape, NEW r \in Requests, Fail(r)
    PROVE  \A q \in Requests : ClaimStays(q)
<1>1. CASE call[r].op # "loadActiveTenants"
  BY <1>1, ClaimFinish DEF Fail
<1>2. CASE call[r].op = "loadActiveTenants" /\ pc[r] = "findActive"
  BY <1>2, ClaimFinish DEF Fail, Creators
<1>3. CASE call[r].op = "loadActiveTenants" /\ pc[r] # "findActive"
  BY <1>3, ClaimGoto DEF Fail, Claims, Creators
<1> QED  BY <1>1, <1>2, <1>3

\* A call that begins claims nothing.
LEMMA ClaimsStart ==
    ASSUME Shape, ClaimsHold, NEW r \in Requests, Start(r)
    PROVE  ClaimsHold'
<1>1. ASSUME NEW op, NEW t, NEW d, NEW linked \in BOOLEAN, NEW res \in {"none", "error"},
             NEW l, Begin(r, NewCall(op, t, d, linked, res), l),
             l \in {"cacheCheck", "done", "findDomain"}
               \/ op \notin Creators,
             op = "createTenantWithStore" => l = "findDomain"
      PROVE  RowsStay /\ \A q \in Requests : ClaimStays(q)
  BY <1>1 DEF Begin, NewCall, Goto, database, RowsStay, ClaimStays, Claims, Creators,
     Initializing, BaseTables, Shape, TypeOK, HasRow
<1>2. CASE StartCreateTenant(r)
  <2>1. PICK t \in Tenants, d \in Domains, res \in {"none", "error"},
             l \in {"cacheCheck", "done"}, linked \in BOOLEAN :
          Begin(r, NewCall("createTenant", t, d, linked, res), l)
    BY <1>2 DEF StartCreateTenant
  <2> QED  BY <1>1, <2>1, ClaimsKept
<1>3. CASE StartCreateTenantWithStore(r)
  BY <1>1, <1>3, ClaimsKept DEF StartCreateTenantWithStore
<1>4. CASE StartLoadActiveTenants(r)
  <2>1. PICK linked \in BOOLEAN, res \in {"none", "error"} :
          Begin(r, NewCall("loadActiveTenants", NoTenant, NoDomain, linked, res), "findActive")
    BY <1>4 DEF StartLoadActiveTenants
  <2> QED  BY <1>1, <2>1, ClaimsKept DEF Creators
<1>5. CASE StartStatusChange(r)
  <2>1. PICK op \in {"suspendTenant", "activateTenant"}, t \in Tenants,
             linked \in BOOLEAN, res \in {"none", "error"}, l \in Locations :
          Begin(r, NewCall(op, t, NoDomain, linked, res), l)
    BY <1>5 DEF StartStatusChange, Locations
  <2> QED  BY <1>1, <2>1, ClaimsKept DEF Creators
<1>6. CASE StartDropTenantSchema(r)
  <2>1. PICK t \in Tenants, linked \in BOOLEAN, res \in {"none", "error"} :
          Begin(r, NewCall("dropTenantSchema", t, NoDomain, linked, res), "dropExists")
    BY <1>6 DEF StartDropTenantSchema
  <2> QED  BY <1>1, <2>1, ClaimsKept DEF Creators
<1> QED  BY <1>2, <1>3, <1>4, <1>5, <1>6 DEF Start

\* A claim is made by the insert, of an id and a domain no row has.
LEMMA ClaimsContinue ==
    ASSUME Shape, ClaimsHold, NEW r \in Requests, Continue(r)
    PROVE  ClaimsHold'
<1> USE DEF database
<1>t. /\ rows \in [Tenants -> Row] /\ pc \in [Requests -> Locations]
      /\ call \in [Requests -> Call]
  BY DEF Shape, TypeOK
<1>0. ASSUME UNCHANGED rows PROVE RowsStay
  BY <1>0 DEF RowsStay, HasRow
<1>1. ASSUME NEW status \in Statuses \ {"NONE"}, SetRow(r, status) PROVE RowsStay
  BY <1>t, <1>1 DEF SetRow, RowsStay, Row, HasRow
<1>2. CASE InsertProvisioning(r)
  <2>1. CASE UniqueFor(Ten(r), call[r].domain)
    BY <1>t, <1>2, <2>1, OperationAt, ClaimsInsert
       DEF InsertProvisioning, Goto, Creators, Statuses, Ten
  <2>2. CASE ~UniqueFor(Ten(r), call[r].domain)
    BY <1>0, <1>2, <2>2, ClaimFail, ClaimsKept DEF InsertProvisioning
  <2> QED  BY <2>1, <2>2
<1>3. CASE InsertRow(r)
  <2>1. CASE UniqueFor(Ten(r), call[r].domain)
    BY <1>t, <1>3, <2>1, OperationAt, ClaimsInsert
       DEF InsertRow, Goto, Creators, Statuses, Ten
  <2>2. CASE ~UniqueFor(Ten(r), call[r].domain)
    BY <1>0, <1>3, <2>2, ClaimFail, ClaimsKept DEF InsertRow
  <2> QED  BY <2>1, <2>2
<1>4. CASE FindDomain(r)
  <2>1. \A q \in Requests : ClaimStays(q)
    BY <1>4, OperationAt, ClaimGoto, ClaimFinish DEF FindDomain, Claims, Initializing, BaseTables
  <2> QED  BY <1>0, <1>4, <2>1, ClaimsKept DEF FindDomain
<1>5. CASE CacheCheck(r) \/ MarkInitialized(r)
  <2>1. PICK l : Goto(r, l) /\ l \in {"schemaExists", AfterInit[call[r].op]}
    BY <1>5 DEF CacheCheck, MarkInitialized
  <2>2. pc[r] \in Initializing /\ UNCHANGED <<call, rows>>
    BY <1>5 DEF CacheCheck, MarkInitialized, Initializing
  <2>3. Claims(call[r], l) => Claims(call[r], pc[r])
    BY <2>1, <2>2, OperationAt DEF Claims, Creators, AfterInit, Initializing, BaseTables
  <2> QED  BY <1>0, <2>1, <2>2, <2>3, ClaimGoto, ClaimsKept
<1>6. CASE SchemaExists(r) \/ CreateSchema(r)
  <2>1. PICK l \in Initializing : Goto(r, l)
    BY <1>6 DEF SchemaExists, CreateSchema, Initializing, BaseTables
  <2>2. pc[r] \in Initializing /\ UNCHANGED <<call, rows>>
    BY <1>6 DEF SchemaExists, CreateSchema, AddSchema, Initializing
  <2>3. Claims(call[r], l) => Claims(call[r], pc[r])
    BY <2>1, <2>2 DEF Claims, Initializing, BaseTables
  <2> QED  BY <1>0, <2>1, <2>2, <2>3, ClaimGoto, ClaimsKept
<1>7. CASE CreateTable(r)
  <2>1. pc[r] \in Initializing /\ UNCHANGED rows
    BY <1>7 DEF CreateTable, AddTable, Initializing
  <2>2. CASE Fail(r)  BY <1>0, <2>1, <2>2, ClaimFail, ClaimsKept
  <2>3. CASE Goto(r, NextTable[pc[r]]) /\ UNCHANGED call
    <3>1. NextTable[pc[r]] \in Initializing
      BY <1>7 DEF CreateTable, NextTable, Initializing, BaseTables
    <3>2. Claims(call[r], NextTable[pc[r]]) => Claims(call[r], pc[r])
      BY <2>1, <3>1 DEF Claims, Initializing, BaseTables
    <3> QED  BY <1>0, <2>1, <2>3, <3>2, ClaimGoto, ClaimsKept
  <2> QED  BY <1>7, <2>2, <2>3 DEF CreateTable
<1>8. CASE UpdateActive(r)
  <2>1. RowsStay  BY <1>1, <1>8 DEF UpdateActive, Statuses
  <2>2. Claims(call[r], pc[r])  BY <1>8, OperationAt DEF UpdateActive, Claims, Creators
  <2> QED  BY <1>8, <2>1, <2>2, ClaimGoto, ClaimsKept DEF UpdateActive
<1>9. CASE Remember(r)
  <2>1. ASSUME NEW q \in Requests PROVE ClaimStays(q)
    <3>1. /\ call'[q].op = call[q].op /\ call'[q].tenant = call[q].tenant
          /\ call'[q].domain = call[q].domain
      BY <1>t, <1>9 DEF Remember, Call
    <3>2. CASE q # r
      BY <1>t, <1>9, <3>1, <3>2 DEF Remember, Goto, Call, ClaimStays, Claims
    <3>3. CASE q = r
      BY <1>9, <3>1, <3>3 DEF Remember, ClaimStays, Claims
    <3> QED  BY <3>2, <3>3
  <2> QED  BY <1>0, <1>9, <2>1, ClaimsKept DEF Remember
<1>10. CASE FindActive(r) \/ LoadNext(r)
  <2>1. call[r].op = "loadActiveTenants"  BY <1>10, OperationAt DEF FindActive, LoadNext
  <2>2. call'[r].op = call[r].op /\ \A q \in Requests \ {r} : call'[q] = call[q] /\ pc'[q] = pc[q]
    BY <1>t, <1>10 DEF FindActive, LoadNext, Finish, Goto, Call
  <2>3. ASSUME NEW q \in Requests PROVE ClaimStays(q)
    BY <2>1, <2>2 DEF ClaimStays, Claims, Creators
  <2> QED  BY <1>0, <1>10, <2>3, ClaimsKept DEF FindActive, LoadNext
<1>11. CASE UpdateStatus(r)
  <2>1. RowsStay  BY <1>1, <1>11 DEF UpdateStatus, NewStatus, Statuses
  <2>2. call[r].op \notin Creators
    BY <1>11, OperationAt DEF UpdateStatus, Creators
  <2> QED  BY <1>11, <2>1, <2>2, ClaimGoto, ClaimsKept DEF UpdateStatus, Claims
<1>12. CASE SetStatus(r) \/ DropExists(r) \/ DropSchema(r) \/ Forget(r)
  <2>1. call[r].op \notin Creators
    BY <1>12, OperationAt DEF SetStatus, DropExists, DropSchema, Forget, Creators
  <2>2. \A q \in Requests : ClaimStays(q)
    BY <1>12, <2>1, ClaimGoto, ClaimFinish DEF SetStatus, DropExists, DropSchema, Forget, Claims
  <2> QED
    BY <1>0, <1>12, <2>2, ClaimsKept DEF SetStatus, DropExists, DropSchema, Forget, RemoveSchema
<1>13. CASE Return(r)
  <2>1. ASSUME NEW q \in Requests PROVE ClaimStays(q)
    BY <1>t, <1>13 DEF Return, Goto, NoCall, NewCall, ClaimStays, Claims, Creators
  <2> QED  BY <1>0, <1>13, <2>1, ClaimsKept DEF Return
<1> QED
  BY <1>2, <1>3, <1>4, <1>5, <1>6, <1>7, <1>8, <1>9, <1>10, <1>11, <1>12, <1>13 DEF Continue

\* An insert whose reply is lost leaves a row that nobody claims.
LEMMA ClaimsFault ==
    ASSUME Shape, ClaimsHold, NEW r \in Requests, DatabaseFault(r) \/ LostReply(r)
    PROVE  ClaimsHold'
<1>0. ASSUME UNCHANGED rows PROVE RowsStay
  BY <1>0 DEF RowsStay, HasRow
<1>a. ASSUME NEW status \in Statuses \ {"NONE"}, SetRow(r, status) PROVE RowsStay
  BY <1>a DEF SetRow, RowsStay, Row, HasRow, Shape, TypeOK
<1>1. CASE DatabaseFault(r)
  <2>1. \A q \in Requests : ClaimStays(q)
    BY <1>1, ClaimFail, ClaimGoto DEF DatabaseFault, Claims, Initializing
  <2> QED  BY <1>0, <1>1, <2>1, ClaimsKept DEF DatabaseFault, database
<1>2. CASE LostReply(r)
  <2>1. Fail(r) /\ \A q \in Requests : ClaimStays(q)  BY <1>2, ClaimFail DEF LostReply
  <2>2. ASSUME UniqueFor(Ten(r), call[r].domain), NEW status \in {"PROVISIONING", "ACTIVE"},
               NEW schema, InsertAs(r, status, schema), call[r].op \in Creators
        PROVE  ClaimsHold'
    <3>1. /\ call'[r].tenant = Ten(r) /\ call'[r].domain = call[r].domain
          /\ \A q \in Requests \ {r} : call'[q] = call[q] /\ pc'[q] = pc[q]
      BY <2>1, <2>2 DEF Fail, Finish, Creators, Ten, Shape, TypeOK, Call
    <3> QED  BY <2>2, <3>1, ClaimsInsert DEF Statuses
  <2>3. CASE UNCHANGED rows  BY <1>0, <2>1, <2>3, ClaimsKept
  <2>4. CASE pc[r] = "updateActive" /\ SetRow(r, "ACTIVE")
    BY <1>a, <2>1, <2>4, ClaimsKept DEF Statuses
  <2>5. CASE pc[r] = "updateStatus" /\ SetRow(r, NewStatus(call[r].op))
    BY <1>a, <2>1, <2>5, ClaimsKept DEF Statuses, NewStatus
  <2> QED
    BY <1>2, <2>2, <2>3, <2>4, <2>5, OperationAt
       DEF LostReply, AddSchema, AddTable, RemoveSchema, Creators
<1> QED  BY <1>1, <1>2

\* Of the calls that create one tenant id or take one domain at most one succeeds,
\* for any numbers of calls, faults and restarts, whatever else is called meanwhile.
THEOREM OneCreator == Spec => []AtMostOneCreator
<1>1. Init => ClaimsHold
  BY ConstantsOK DEF Init, ClaimsHold, Claims, Creators, NoCall, NewCall, EmptyRow
<1>2. ASSUME Shape, ClaimsHold, [Next]_vars PROVE ClaimsHold'
  <2>1. CASE Crash
    <3>1. \A q \in Requests : ClaimStays(q)
      BY <2>1 DEF Crash, NoCall, NewCall, ClaimStays, Claims, Creators
    <3> QED  BY <1>2, <2>1, <3>1, ClaimsKept DEF Crash, database, RowsStay, HasRow
  <2>2. CASE UNCHANGED vars
    BY <1>2, <2>2 DEF vars, ClaimsHold, HasRow, Ten
  <2> QED  BY <1>2, <2>1, <2>2, ClaimsStart, ClaimsContinue, ClaimsFault DEF Next
<1>3. ASSUME Shape, ClaimsHold PROVE AtMostOneCreator
  <2> SUFFICES ASSUME NEW r \in Requests, NEW q \in Requests, r # q,
                      call[r].res = "ok", call[q].res = "ok",
                      call[r].op \in Creators, call[q].op \in Creators
               PROVE  Ten(r) # Ten(q) /\ call[r].domain # call[q].domain
    BY DEF AtMostOneCreator, Creators
  <2>1. Claims(call[r], pc[r]) /\ Claims(call[q], pc[q])  BY DEF Claims
  <2>2. Ten(r) # Ten(q)  BY <1>3, <2>1 DEF ClaimsHold
  <2>3. Ten(r) \in Tenants /\ Ten(q) \in Tenants /\ call[r].domain \in Domains
    BY <1>3, ClaimShape
  <2> QED  BY <1>3, <2>1, <2>2, <2>3 DEF ClaimsHold
<1> QED  BY <1>1, <1>2, <1>3, ShapeAlways, PTL DEF Spec

-----------------------------------------------------------------------------
(* Without a fault or a restart, a schema that lacks a table has a call    *)
(* that is about to create it.                                             *)

\* The tables that are there when a call is about to create the table l.
Before == [users |-> {}, products |-> {"users"}, settings |-> {"users", "products"}]

Builds(r, s) == pc[r] \in BaseTables /\ SchemaOf(r) = s /\ Before[pc[r]] \subseteq tables[s]

TablesComing == faults = 0 /\ crashes = 0 =>
    \A s \in schemas : tables[s] = BaseTables \/ \E r \in Requests : Builds(r, s)

\* A step that adds no schema, removes no table and moves no builder.
LEMMA ComingKept ==
    ASSUME Shape, TablesComing, schemas' = schemas, UNCHANGED <<tables, faults, crashes>>,
           \A r \in Requests : pc[r] \in BaseTables => pc'[r] = pc[r] /\ call'[r].tenant = Ten(r)
    PROVE  TablesComing'
  BY DEF TablesComing, Builds, SchemaOf, Ten

\* Every step without a fault leaves the tables that lack to a call at work on them.
LEMMA ComingStep ==
    ASSUME IInv, TablesComing, [Next]_vars, "dropTenantSchema" \notin Operations
    PROVE  TablesComing'
<1> USE DEF database, memory, bounds
<1>t. /\ Shape /\ pc \in [Requests -> Locations] /\ call \in [Requests -> Call]
      /\ tables \in [Schemas -> SUBSET BaseTables] /\ schemas \subseteq Schemas
      /\ faults \in Nat /\ crashes \in Nat
  BY DEF IInv, RowInv, Shape, TypeOK
<1>1. CASE UNCHANGED vars
  BY <1>t, <1>1, ComingKept DEF vars, Ten
<1>2. CASE Crash
  BY <1>t, <1>2 DEF Crash, TablesComing
<1>3. ASSUME NEW r \in Requests, DatabaseFault(r) \/ LostReply(r) PROVE TablesComing'
  <2>1. faults' = faults + 1  BY <1>3 DEF DatabaseFault, LostReply
  <2> QED  BY <1>t, <2>1 DEF TablesComing
<1>4. ASSUME NEW r \in Requests, pc[r] \notin BaseTables, UNCHANGED <<schemas, tables, bounds>>,
             \A q \in Requests \ {r} : pc'[q] = pc[q] /\ call'[q].tenant = call[q].tenant
      PROVE  TablesComing'
  BY <1>t, <1>4, ComingKept DEF Ten
<1>5. ASSUME NEW r \in Requests, Start(r) PROVE TablesComing'
  <2>1. PICK c, l : Begin(r, c, l)
    BY <1>5 DEF Start, StartCreateTenant, StartCreateTenantWithStore, StartLoadActiveTenants,
       StartStatusChange, StartDropTenantSchema
  <2> QED  BY <1>t, <1>4, <2>1 DEF Begin, Goto, BaseTables
<1>6. ASSUME NEW r \in Requests, CreateSchema(r) PROVE TablesComing'
  <2>1. SchemaOf(r) \in Schemas
    BY <1>t, <1>6, OperationAt, ConstantsOK DEF CreateSchema, Initializing, SchemaOf, Ten
  <2>2. /\ schemas' = schemas \cup {SchemaOf(r)} /\ UNCHANGED <<tables, call, bounds>>
        /\ pc' = [pc EXCEPT ![r] = "users"] /\ pc[r] = "createSchema"
    BY <1>6 DEF CreateSchema, AddSchema, Goto
  <2>3. pc'[r] \in BaseTables /\ Before[pc'[r]] = {}
    BY <1>t, <2>2 DEF Before, BaseTables
  <2>4. ASSUME NEW s \in schemas, s # SchemaOf(r), NEW q \in Requests, Builds(q, s)
        PROVE  Builds(q, s)'
    BY <1>t, <2>2, <2>4 DEF Builds, SchemaOf, Ten, BaseTables
  <2>5. Builds(r, SchemaOf(r))'
    BY <1>t, <2>2, <2>3 DEF Builds, SchemaOf, Ten
  <2>6. (SchemaOf(r))' = SchemaOf(r)  BY <2>2 DEF SchemaOf, Ten
  <2> QED  BY <2>2, <2>4, <2>5, <2>6 DEF TablesComing
<1>7. ASSUME NEW r \in Requests, CreateTable(r) PROVE TablesComing'
  <2>1. SchemaOf(r) \in schemas
    BY <1>t, <1>7, OperationAt DEF IInv, SchemasKnown, SchemaKnown, CreateTable, SchemaPresent,
       SchemaOf, Ten
  <2>2. /\ UNCHANGED <<schemas, call, bounds>> /\ pc' = [pc EXCEPT ![r] = NextTable[pc[r]]]
        /\ tables' = [tables EXCEPT ![SchemaOf(r)] = @ \cup {pc[r]}] /\ pc[r] \in BaseTables
    BY <1>7, <2>1 DEF CreateTable, AddTable, Goto
  <2>3. ASSUME NEW s \in schemas, NEW q \in Requests \ {r}, Builds(q, s)
        PROVE  Builds(q, s)'
    BY <1>t, <2>1, <2>2, <2>3 DEF Builds, SchemaOf, Ten
  <2>4. ASSUME NEW s \in schemas, tables[s] = BaseTables PROVE tables'[s] = BaseTables
    BY <1>t, <2>1, <2>2, <2>4
  <2>5. ASSUME NEW s \in schemas, Builds(r, s) PROVE tables'[s] = BaseTables \/ Builds(r, s)'
    <3>1. s = SchemaOf(r) /\ tables'[s] = tables[s] \cup {pc[r]} /\ Before[pc[r]] \subseteq tables[s]
      BY <1>t, <2>1, <2>2, <2>5 DEF Builds
    <3>2. CASE pc[r] = "settings"
      BY <1>t, <3>1, <3>2 DEF Before, BaseTables
    <3>3. CASE pc[r] # "settings"
      BY <1>t, <2>2, <3>1, <3>3 DEF Before, BaseTables, NextTable, Builds, SchemaOf, Ten
    <3> QED  BY <3>2, <3>3
  <2> QED  BY <2>2, <2>3, <2>4, <2>5 DEF TablesComing
<1>8. ASSUME NEW r \in Requests, Remember(r) PROVE TablesComing'
  <2>1. \A q \in Requests : call'[q].tenant = call[q].tenant
    BY <1>t, <1>8 DEF Remember, Call
  <2> QED  BY <1>t, <1>4, <1>8, <2>1 DEF Remember, Goto, BaseTables
<1>9. ASSUME NEW r \in Requests, DropExists(r) \/ DropSchema(r) \/ Forget(r) PROVE FALSE
  BY <1>t, <1>9, OperationAt DEF IInv, SchemasKnown, SchemaKnown, DropExists, DropSchema, Forget
<1>10. ASSUME NEW r \in Requests, FindDomain(r) \/ InsertProvisioning(r) \/ InsertRow(r)
                 \/ UpdateActive(r) \/ UpdateStatus(r)
       PROVE  TablesComing'
  <2>1. pc[r] \notin BaseTables /\ UNCHANGED <<schemas, tables, bounds>>
    BY <1>10 DEF FindDomain, InsertProvisioning, InsertRow, UpdateActive, UpdateStatus,
       InsertAs, SetRow, BaseTables
  <2>2. \A q \in Requests \ {r} : pc'[q] = pc[q] /\ call'[q].tenant = call[q].tenant
    BY <1>t, <1>10 DEF FindDomain, InsertProvisioning, InsertRow, UpdateActive, UpdateStatus,
       Goto, Finish, Fail
  <2> QED  BY <1>4, <2>1, <2>2
<1>11. ASSUME NEW r \in Requests, CacheCheck(r) \/ SchemaExists(r) \/ MarkInitialized(r)
                 \/ FindActive(r) \/ LoadNext(r) \/ SetStatus(r) \/ Return(r)
       PROVE  TablesComing'
  <2>1. pc[r] \notin BaseTables /\ UNCHANGED <<schemas, tables, bounds>>
    BY <1>11 DEF CacheCheck, SchemaExists, MarkInitialized, FindActive, LoadNext, SetStatus,
       Return, BaseTables
  <2>2. \A q \in Requests \ {r} : pc'[q] = pc[q] /\ call'[q].tenant = call[q].tenant
    BY <1>t, <1>11 DEF CacheCheck, SchemaExists, MarkInitialized, FindActive, LoadNext,
       SetStatus, Return, Goto, Finish
  <2> QED  BY <1>4, <2>1, <2>2
<1> QED
  BY <1>1, <1>2, <1>3, <1>5, <1>6, <1>7, <1>8, <1>9, <1>10, <1>11 DEF Next, Continue

\* Without a fault or a restart, every open tenant is complete once no call is in
\* flight, though one call may report success while another creates its tables.
THEOREM QuietTenantsAreWhole ==
    ASSUME "dropTenantSchema" \notin Operations
    PROVE  Spec => []QuiescentTenantsAreWhole
<1>1. Init => TablesComing  BY DEF Init, TablesComing
<1>2. IInv /\ TablesComing /\ [Next]_vars => TablesComing'  BY ComingStep
<1>3. ASSUME IInv, TablesComing PROVE QuiescentTenantsAreWhole
  <2> SUFFICES ASSUME Quiescent, faults = 0, crashes = 0, NEW t \in Tenants, Open(t)
               PROVE  ValidateIsolationIntegrity(t)
    BY DEF QuiescentTenantsAreWhole
  <2>1. SchemaName[t] \in schemas  BY <1>3 DEF IInv, OpenRowsHaveSchema
  <2>2. \A r \in Requests : pc[r] \notin BaseTables  BY DEF Quiescent, InFlight, BaseTables
  <2> QED  BY <1>3, <2>1, <2>2 DEF TablesComing, Builds, ValidateIsolationIntegrity
<1> QED  BY <1>1, <1>2, <1>3, Invariance, PTL DEF Spec

-----------------------------------------------------------------------------
(* The safety half of ProvisioningCompletes: without a fault or a restart   *)
(* no reserved row is left without the call that will open it.             *)

\* While nothing has failed, a PROVISIONING row belongs to a call of
\* createTenantWithStore that has its update still ahead.
ReservedRowsAreOwned == faults = 0 /\ crashes = 0 =>
    \A t \in Tenants : rows[t].status = "PROVISIONING" =>
        \E r \in Requests : Owns(call[r], pc[r]) /\ Ten(r) = t

\* A step of r that keeps what r owns, or opens it, and owns what it reserves.
LEMMA OwnerStep ==
    ASSUME IInv, ReservedRowsAreOwned, NEW r \in Requests, RowWrites(r), OthersStay(r),
           UNCHANGED <<faults, crashes>>,
           \/ rows' = rows /\ ~Owns(call[r], pc[r])
           \/ Owns(call[r], pc[r])' /\ Ten(r)' = Ten(r)
           \/ /\ rows' # rows
              /\ rows'[Ten(r)].status # "PROVISIONING"
    PROVE  ReservedRowsAreOwned'
<1> SUFFICES ASSUME faults = 0, crashes = 0, NEW t \in Tenants,
                    rows'[t].status = "PROVISIONING"
             PROVE  \E q \in Requests : Owns(call[q], pc[q])' /\ Ten(q)' = t
  BY DEF ReservedRowsAreOwned
<1>1. RowInv
  BY DEF IInv
<1>2. ASSUME NEW q \in Requests \ {r}, Owns(call[q], pc[q])
      PROVE  Owns(call[q], pc[q])' /\ Ten(q)' = Ten(q)
  BY <1>2 DEF Owns, OthersStay, Ten
<1>3. CASE rows[t].status = "PROVISIONING"
  <2>1. PICK q \in Requests : Owns(call[q], pc[q]) /\ Ten(q) = t
    BY <1>3 DEF ReservedRowsAreOwned
  <2>2. CASE q # r
    BY <1>2, <2>1, <2>2
  <2>3. CASE q = r
    BY <2>1, <2>3
  <2> QED BY <2>2, <2>3
<1>4. CASE rows[t].status # "PROVISIONING"
  <2>1. rows' # rows /\ t = Ten(r)
    BY <1>1, <1>4, RowWriteKinds
  <2> QED BY <2>1
<1> QED BY <1>3, <1>4

\* Every step keeps reserved rows owned, when no call drops a schema.
LEMMA OwnedNext ==
    ASSUME IInv, ReservedRowsAreOwned, [Next]_vars
    PROVE  ReservedRowsAreOwned'
<1> USE DEF database, memory, bounds
<1>t. /\ Shape /\ RowInv /\ pc \in [Requests -> Locations] /\ call \in [Requests -> Call]
      /\ rows \in [Tenants -> Row] /\ faults \in Nat /\ crashes \in Nat
  BY DEF IInv, RowInv, Shape, TypeOK
<1>1. CASE UNCHANGED vars
  BY <1>1 DEF vars, ReservedRowsAreOwned, Owns, Ten
<1>2. CASE Crash
  BY <1>t, <1>2 DEF Crash, ReservedRowsAreOwned
<1>3. ASSUME NEW r \in Requests, DatabaseFault(r) \/ LostReply(r) PROVE ReservedRowsAreOwned'
  <2>1. faults' = faults + 1
    BY <1>3 DEF DatabaseFault, LostReply
  <2> QED BY <1>t, <2>1 DEF ReservedRowsAreOwned
\* A call that owns nothing, and writes no row.
<1>4. ASSUME NEW r \in Requests, ~Owns(call[r], pc[r]), UNCHANGED <<rows, faults, crashes>>,
             \A q \in Requests \ {r} : /\ pc'[q] = pc[q] /\ call'[q].op = call[q].op
                                       /\ call'[q].tenant = call[q].tenant
                                       /\ call'[q].todo = call[q].todo
      PROVE  ReservedRowsAreOwned'
  BY <1>4, OwnerStep DEF RowWrites, OthersStay
\* A call that goes on with what it owns.
<1>5. ASSUME NEW r \in Requests, RowWrites(r), UNCHANGED <<call, faults, crashes>>,
             NEW l, Goto(r, l),
             \/ rows' = rows /\ ~Owns(call[r], pc[r])
             \/ Owns(call[r], l)
             \/ rows' # rows /\ rows'[Ten(r)].status # "PROVISIONING"
      PROVE  ReservedRowsAreOwned'
  <2>1. OthersStay(r) /\ pc'[r] = l
    BY <1>t, <1>5 DEF OthersStay, Goto
  <2> QED BY <1>5, <2>1, OwnerStep DEF Owns, Ten
<1>6. ASSUME NEW r \in Requests, Start(r) PROVE ReservedRowsAreOwned'
  <2>1. PICK c, l : Begin(r, c, l)
    BY <1>6 DEF Start, StartCreateTenant, StartCreateTenantWithStore, StartLoadActiveTenants,
       StartStatusChange, StartDropTenantSchema
  <2>2. pc[r] = "idle" /\ UNCHANGED <<rows, faults, crashes>>
        /\ \A q \in Requests \ {r} : pc'[q] = pc[q] /\ call'[q] = call[q]
    BY <1>t, <2>1 DEF Begin, Goto
  <2> QED BY <1>4, <2>2 DEF Owns, Initializing, BaseTables
<1>7. ASSUME NEW r \in Requests, CacheCheck(r) \/ SchemaExists(r) \/ CreateSchema(r)
                \/ CreateTable(r) \/ MarkInitialized(r)
      PROVE  ReservedRowsAreOwned'
  <2>1. pc[r] \in BaseTables => SchemaOf(r) \in schemas
    BY DEF IInv, SchemasKnown, SchemaKnown, SchemaPresent, SchemaOf, Ten
  <2>2. /\ UNCHANGED <<rows, faults, crashes, call>> /\ pc[r] \in Initializing
        /\ \E l \in Initializing \cup {AfterInit[call[r].op]} : Goto(r, l)
    BY <1>7, <2>1 DEF CacheCheck, SchemaExists, CreateSchema, CreateTable, MarkInitialized,
       AddSchema, AddTable, NextTable, Initializing, BaseTables
  <2>3. \A l \in Initializing \cup {AfterInit[call[r].op]} :
           Owns(call[r], pc[r]) => Owns(call[r], l)
    BY <2>2 DEF Owns, AfterInit
  <2> QED BY <1>5, <2>2, <2>3 DEF RowWrites
<1>8. ASSUME NEW r \in Requests, InsertProvisioning(r) PROVE ReservedRowsAreOwned'
  <2>1. call[r].op = "createTenantWithStore" /\ pc[r] = "insertProvisioning"
    BY <1>t, <1>8, OperationAt DEF InsertProvisioning
  <2>2. CASE UniqueFor(Ten(r), call[r].domain)
    <3>1. /\ RowWrites(r) /\ UNCHANGED <<call, faults, crashes>> /\ Goto(r, "cacheCheck")
      BY <1>8, <2>1, <2>2 DEF InsertProvisioning, RowWrites
    <3> QED BY <1>5, <2>1, <3>1 DEF Owns, Initializing
  <2>3. CASE Finish(r, "error") /\ UNCHANGED <<rows, faults, crashes>>
    BY <1>t, <1>4, <2>1, <2>3 DEF Finish, Owns, Initializing, BaseTables
  <2> QED BY <1>8, <2>1, <2>2, <2>3 DEF InsertProvisioning, Fail
<1>9. ASSUME NEW r \in Requests, InsertRow(r) PROVE ReservedRowsAreOwned'
  <2>1. call[r].op = "createTenant" /\ pc[r] = "insertRow" /\ Ten(r) \in Tenants
    BY <1>t, <1>9, OperationAt DEF InsertRow
  <2>2. CASE UniqueFor(Ten(r), call[r].domain)
    <3>1. /\ RowWrites(r) /\ UNCHANGED <<call, faults, crashes>> /\ Goto(r, "remember")
          /\ rows'[Ten(r)].status = "ACTIVE"
      BY <1>t, <1>9, <2>1, <2>2 DEF InsertRow, RowWrites, InsertAs
    <3> QED BY <1>5, <2>1, <3>1 DEF Owns
  <2>3. CASE Finish(r, "error") /\ UNCHANGED <<rows, faults, crashes>>
    BY <1>t, <1>4, <2>1, <2>3 DEF Finish, Owns
  <2> QED BY <1>9, <2>1, <2>2, <2>3 DEF InsertRow, Fail
<1>10. ASSUME NEW r \in Requests, UpdateActive(r) PROVE ReservedRowsAreOwned'
  <2>1. /\ RowWrites(r) /\ UNCHANGED <<call, faults, crashes>> /\ Goto(r, "remember")
        /\ pc[r] = "updateActive" /\ Ten(r) \in Tenants /\ SetRow(r, "ACTIVE")
    BY <1>t, <1>10, OperationAt DEF UpdateActive, RowWrites
  <2>2. rows[Ten(r)].status = "PROVISIONING" /\ rows'[Ten(r)].status = "ACTIVE"
    <3>1. RowKnown(call[r], pc[r]) /\ Owns(call[r], pc[r])
      BY <1>t, <2>1, OperationAt DEF RowInv, RowsKnown, Owns
    <3> QED BY <1>t, <2>1, <3>1 DEF RowKnown, SetRow, Row, Ten
  <2> QED BY <1>5, <2>1, <2>2
<1>11. ASSUME NEW r \in Requests, UpdateStatus(r) PROVE ReservedRowsAreOwned'
  <2>1. /\ RowWrites(r) /\ UNCHANGED <<call, faults, crashes>> /\ Goto(r, "setStatus")
        /\ pc[r] = "updateStatus" /\ Ten(r) \in Tenants
        /\ SetRow(r, NewStatus(call[r].op))
    BY <1>t, <1>11, OperationAt DEF UpdateStatus, RowWrites
  <2>2. ~Owns(call[r], pc[r]) /\ rows'[Ten(r)].status # "PROVISIONING"
    BY <1>t, <2>1 DEF Owns, Initializing, BaseTables, SetRow, Row, NewStatus
  <2> QED BY <1>5, <2>1, <2>2
<1>12. ASSUME NEW r \in Requests, Remember(r) PROVE ReservedRowsAreOwned'
  <2>1. \A q \in Requests : /\ call'[q].op = call[q].op
                            /\ call'[q].tenant = call[q].tenant
                            /\ call'[q].todo = call[q].todo
    BY <1>t, <1>12 DEF Remember, Call
  <2>2. /\ UNCHANGED <<rows, faults, crashes>> /\ pc[r] = "remember"
        /\ \A q \in Requests \ {r} : pc'[q] = pc[q]
    BY <1>t, <1>12 DEF Remember, Goto
  <2> QED BY <1>4, <2>1, <2>2 DEF Owns, Initializing, BaseTables
<1>13. ASSUME NEW r \in Requests, FindDomain(r) \/ FindActive(r) \/ LoadNext(r) \/ SetStatus(r)
                 \/ DropExists(r) \/ Forget(r) \/ Return(r)
       PROVE  ReservedRowsAreOwned'
  <2>1. /\ pc[r] \in {"findDomain", "findActive", "loadNext", "setStatus", "dropExists",
                      "forget", "done"}
        /\ UNCHANGED <<rows, faults, crashes>>
    BY <1>13 DEF FindDomain, FindActive, LoadNext, SetStatus, DropExists, Forget, Return
  <2>2. \A q \in Requests \ {r} : pc'[q] = pc[q] /\ call'[q] = call[q]
    BY <1>t, <1>13 DEF FindDomain, FindActive, LoadNext, SetStatus, DropExists, Forget, Return,
       Finish, Goto
  <2> QED BY <1>4, <2>1, <2>2 DEF Owns, Initializing, BaseTables
<1>14. ASSUME NEW r \in Requests, DropSchema(r) PROVE FALSE
  BY <1>t, <1>14, OperationAt DEF IInv, SchemasKnown, SchemaKnown, DropSchema
<1> QED
  BY <1>1, <1>2, <1>3, <1>6, <1>7, <1>8, <1>9, <1>10, <1>11, <1>12, <1>13, <1>14
  DEF Next, Continue

\* Without a fault, a restart or a drop, no row is left PROVISIONING by a call that has
\* ended: only the scheduling of its call is between it and ACTIVE.
THEOREM NoRowIsAbandoned ==
    ASSUME "dropTenantSchema" \notin Operations
    PROVE  Spec => []ReservedRowsAreOwned
<1>1. Init => ReservedRowsAreOwned
  BY DEF Init, ReservedRowsAreOwned, EmptyRow
<1> QED BY <1>1, OwnedNext, Invariance, PTL DEF Spec

-----------------------------------------------------------------------------
(* One call at a time, on one object graph and a database that does not    *)
(* fail: memory and database agree, dropTenantSchema included.             *)

\* The call in flight, if any, is the only one.
Alone == \A r, q \in Requests : pc[r] # "idle" /\ pc[q] # "idle" => r = q

\* A tenant in memory has the status of its row, unless a call is between writing the
\* one and writing the other; only the object graph in use remembers any.
InStep == \A i \in Instances, t \in Tenants : active[i][t] # "NONE" =>
    /\ active[i][t] \in {"ACTIVE", "SUSPENDED"} /\ HasRow(t)
    /\ \E r \in Requests : Inst(r) = i
    /\ \/ active[i][t] = rows[t].status
       \/ \E r \in Requests : pc[r] = "setStatus" /\ Ten(r) = t

\* What a call that is alone knows of the rows at each await.
Certain(c, l) ==
    /\ l = "remember" => rows[c.tenant].status = "ACTIVE"
    /\ l \in {"updateStatus", "setStatus"} => c.linked /\ HasRow(c.tenant)
    /\ l = "setStatus" => rows[c.tenant].status = NewStatus(c.op)
    /\ Owns(c, l) => rows[c.tenant].status = "PROVISIONING"
    /\ c.op = "loadActiveTenants" /\ l \in Initializing \cup {"loadNext", "remember"} =>
         /\ \A t \in c.todo : rows[t].status = "ACTIVE"
         /\ l \in Initializing => rows[c.tenant].status = "ACTIVE"

Solo == Alone /\ InStep /\ \A r \in Requests : Certain(call[r], pc[r])

\* Between calls, and before a status is written, every entry is the status of its row.
LEMMA InStepNow ==
    ASSUME InStep, \A q \in Requests : pc[q] # "setStatus"
    PROVE  \A i \in Instances, t \in Tenants : active[i][t] # "NONE" =>
              /\ active[i][t] = rows[t].status /\ active[i][t] \in {"ACTIVE", "SUSPENDED"}
              /\ \E r \in Requests : Inst(r) = i
  BY DEF InStep

\* The converse, after a step.
LEMMA InStepLater ==
    ASSUME \A i \in Instances, t \in Tenants : active'[i][t] # "NONE" =>
              /\ active'[i][t] = rows'[t].status /\ active'[i][t] \in {"ACTIVE", "SUSPENDED"}
              /\ \E r \in Requests : Inst(r) = i
    PROVE  InStep'
  BY DEF InStep, HasRow, Inst

\* The step of a call while the others are idle.
LEMMA SoloMove ==
    ASSUME NEW r \in Requests, \A q \in Requests \ {r} : pc'[q] = "idle",
           (Certain(call[r], pc[r]))', InStep'
    PROVE  Solo'
<1>1. Alone'  BY DEF Alone
<1>2. ASSUME NEW q \in Requests \ {r} PROVE (Certain(call[q], pc[q]))'
  BY <1>2 DEF Certain, Owns, Initializing, BaseTables
<1> QED  BY <1>1, <1>2 DEF Solo

\* A step that writes neither a row nor an entry.
LEMMA SoloQuiet ==
    ASSUME Solo, NEW r \in Requests, UNCHANGED <<rows, active>>,
           \A q \in Requests : pc[q] # "setStatus",
           \A q \in Requests \ {r} : pc'[q] = "idle",
           (Certain(call[r], pc[r]))'
    PROVE  Solo'
<1>1. InStep'  BY InStepNow, InStepLater DEF Solo
<1> QED  BY <1>1, SoloMove

\* A step that writes the row of the call, which no entry is of yet.
LEMMA SoloWrites ==
    ASSUME Solo, rows \in [Tenants -> Row], NEW r \in Requests, UNCHANGED active,
           Ten(r) \in Tenants, rows[Ten(r)].status \notin {"ACTIVE", "SUSPENDED"},
           NEW row, rows' = [rows EXCEPT ![Ten(r)] = row],
           \A q \in Requests : pc[q] # "setStatus",
           \A q \in Requests \ {r} : pc'[q] = "idle",
           (Certain(call[r], pc[r]))'
    PROVE  Solo'
<1>1. InStep  BY DEF Solo
<1>2. \A t \in Tenants : t # Ten(r) => rows'[t] = rows[t]  OBVIOUS
<1>3. \A i \in Instances : active[i][Ten(r)] = "NONE"  BY <1>1, InStepNow
<1>4. InStep'  BY <1>1, <1>2, <1>3, InStepNow, InStepLater
<1> QED  BY <1>4, SoloMove

\* A call that begins while one at a time may be in flight finds none.
LEMMA NoneInFlight ==
    ASSUME Alone, MaxInFlight = 1, NEW r \in Requests, NEW c, NEW l, Begin(r, c, l)
    PROVE  \A q \in Requests : pc[q] = "idle"
<1>1. IsFiniteSet(InFlight)
  <2>1. CASE InFlight = {}
    BY <2>1, FS_EmptySet
  <2>2. ASSUME NEW q \in InFlight PROVE IsFiniteSet(InFlight)
    <3>1. InFlight = {q}  BY <2>2 DEF InFlight, Alone
    <3> QED  BY <3>1, FS_Singleton
  <2> QED  BY <2>1, <2>2
<1>2. Cardinality(InFlight) \in Nat /\ Cardinality(InFlight) < 1
  BY <1>1, FS_CardinalityType DEF Begin
<1>3. InFlight = {}  BY <1>1, <1>2, FS_EmptySet
<1> QED  BY <1>3 DEF InFlight

\* A call begins when the others are over.
LEMMA SoloStart ==
    ASSUME Shape, Solo, MaxInFlight = 1, NEW r \in Requests, Start(r)
    PROVE  Solo'
<1>t. /\ pc \in [Requests -> Locations] /\ call \in [Requests -> Call]
      /\ active \in [Instances -> [Tenants -> Statuses]]
  BY DEF Shape, TypeOK
<1>1. PICK c, l : /\ Begin(r, c, l) /\ c.todo = {}
                  /\ \/ l = "cacheCheck" /\ c.op = "createTenant"
                     \/ l = "done"
                     \/ l = "findDomain" /\ c.op = "createTenantWithStore"
                     \/ l = "findActive" /\ c.op = "loadActiveTenants"
                     \/ l = "dropExists" /\ c.op = "dropTenantSchema"
                     \/ /\ l = "updateStatus" /\ c.op \in {"suspendTenant", "activateTenant"}
                        /\ c.linked /\ c.tenant \in Tenants
                        /\ ~RequestScoped /\ active[Inst(r)][c.tenant] # "NONE"
  <2>1. CASE StartCreateTenant(r)
    BY <2>1 DEF StartCreateTenant, NewCall
  <2>2. CASE StartCreateTenantWithStore(r)
    BY <2>2 DEF StartCreateTenantWithStore, NewCall
  <2>3. CASE StartLoadActiveTenants(r)
    BY <2>3 DEF StartLoadActiveTenants, NewCall
  <2>4. CASE StartStatusChange(r)
    <3>1. PICK op \in {"suspendTenant", "activateTenant"}, t \in Tenants :
             IF ~RequestScoped /\ active[Inst(r)][t] # "NONE"
             THEN Begin(r, NewCall(op, t, NoDomain, TRUE, "none"), "updateStatus")
             ELSE Begin(r, NewCall(op, t, NoDomain, FALSE, "error"), "done")
      BY <2>4 DEF StartStatusChange
    <3> QED  BY <3>1 DEF NewCall
  <2>5. CASE StartDropTenantSchema(r)
    BY <2>5 DEF StartDropTenantSchema, NewCall
  <2> QED  BY <2>1, <2>2, <2>3, <2>4, <2>5 DEF Start
<1>2. \A q \in Requests : pc[q] = "idle"
  BY <1>1, NoneInFlight DEF Solo
<1>3. /\ UNCHANGED rows /\ pc' = [pc EXCEPT ![r] = l] /\ call' = [call EXCEPT ![r] = c]
      /\ active' = IF RequestScoped THEN [active EXCEPT ![Inst(r)] = [t \in Tenants |-> "NONE"]]
                                    ELSE active
  BY <1>1 DEF Begin, Goto, Fresh, database
<1>4. \A q \in Requests \ {r} : pc'[q] = "idle"  BY <1>t, <1>2, <1>3
<1>5. pc'[r] = l /\ call'[r] = c  BY <1>t, <1>3
<1>6. InStep  BY DEF Solo
<1>7. \A i \in Instances, t \in Tenants :
         active'[i][t] # "NONE" => active'[i][t] = active[i][t]
  BY <1>t, <1>3, ConstantsOK DEF Inst
<1>8. InStep'  BY <1>2, <1>3, <1>6, <1>7, InStepNow, InStepLater
<1>9. (Certain(call[r], pc[r]))'
  <2>1. l = "updateStatus" => rows[c.tenant].status # "NONE"
    <3>1. Inst(r) \in Instances  BY ConstantsOK DEF Inst
    <3> QED  BY <1>1, <1>2, <1>6, <3>1, InStepNow
  <2> QED  BY <1>1, <1>3, <1>5, <2>1 DEF Certain, Owns, Initializing, BaseTables, HasRow
<1> QED  BY <1>4, <1>8, <1>9, SoloMove

\* Each await of the only call keeps the row and the entry in step.
LEMMA SoloContinue ==
    ASSUME Shape, Solo, \A q, p \in Requests : Inst(q) = Inst(p),
           NEW r \in Requests, Continue(r)
    PROVE  Solo'
<1> USE DEF database, memory, bounds
<1>t. /\ pc \in [Requests -> Locations] /\ call \in [Requests -> Call]
      /\ active \in [Instances -> [Tenants -> Statuses]] /\ rows \in [Tenants -> Row]
  BY DEF Shape, TypeOK
<1>0. pc[r] # "idle"
  BY DEF Continue, FindDomain, InsertProvisioning, CacheCheck, SchemaExists, CreateSchema,
     CreateTable, MarkInitialized, InsertRow, UpdateActive, Remember, FindActive, LoadNext,
     UpdateStatus, SetStatus, DropExists, DropSchema, Forget, Return, BaseTables
<1>a. \A q \in Requests \ {r} : pc[q] = "idle"  BY <1>0 DEF Solo, Alone
<1>b. pc[r] # "setStatus" => \A q \in Requests : pc[q] # "setStatus"  BY <1>a
<1>c. Certain(call[r], pc[r])  BY DEF Solo
<1>d. ASSUME NEW l, pc' = [pc EXCEPT ![r] = l]
      PROVE  pc'[r] = l /\ \A q \in Requests \ {r} : pc'[q] = "idle"
  BY <1>t, <1>a, <1>d
\* Moves that write nothing a status rests on, and keep the call.
<1>e. ASSUME NEW l, pc' = [pc EXCEPT ![r] = l], UNCHANGED <<rows, active>>,
             call'[r].op = call[r].op, call'[r].tenant = call[r].tenant,
             call'[r].todo = call[r].todo, pc[r] # "setStatus",
             \/ l \in {"done", "idle", "findDomain", "insertProvisioning", "insertRow",
                       "dropSchema", "forget"}
             \/ l = "loadNext" /\ call[r].op = "loadActiveTenants" /\ pc[r] \in Initializing
             \/ pc[r] \in Initializing /\ l \in Initializing
             \/ /\ pc[r] \in Initializing /\ call[r].op = "createTenantWithStore"
                /\ l = "updateActive"
             \/ pc[r] \in Initializing /\ call[r].op = "loadActiveTenants" /\ l = "remember"
      PROVE  Solo'
  <2>1. pc'[r] = l /\ \A q \in Requests \ {r} : pc'[q] = "idle"  BY <1>d, <1>e
  <2>2. (Certain(call[r], pc[r]))'
    BY <1>c, <1>e, <2>1 DEF Certain, Owns, Initializing, BaseTables, HasRow
  <2> QED  BY <1>b, <1>e, <2>1, <2>2, SoloQuiet
<1>f. ASSUME NEW x \in {"ok", "error", "conflict"}, Finish(r, x)
      PROVE  /\ pc' = [pc EXCEPT ![r] = "done"] /\ call'[r].op = call[r].op
             /\ call'[r].tenant = call[r].tenant /\ call'[r].todo = call[r].todo
  BY <1>t, <1>f DEF Finish, Call
<1>g. ASSUME UNCHANGED <<rows, active>>, Fail(r), pc[r] # "setStatus",
             pc[r] \in Initializing \cup {"insertProvisioning", "insertRow"}
      PROVE  Solo'
  <2>1. CASE call[r].op # "loadActiveTenants"
    BY <1>e, <1>f, <1>g, <2>1 DEF Fail
  <2>2. CASE call[r].op = "loadActiveTenants"
    <3>1. pc[r] \in Initializing  BY <1>g, <2>2, OperationAt
    <3>2. pc' = [pc EXCEPT ![r] = "loadNext"] /\ UNCHANGED call
      <4>1. pc[r] # "findActive"  BY <3>1 DEF Initializing, BaseTables
      <4> QED  BY <1>g, <2>2, <4>1 DEF Fail, Goto
    <3> QED  BY <1>e, <1>g, <2>2, <3>1, <3>2
  <2> QED  BY <2>1, <2>2
<1>1. CASE FindDomain(r)
  <2>1. pc[r] # "setStatus" /\ UNCHANGED <<rows, active>>  BY <1>1 DEF FindDomain
  <2>2. CASE Finish(r, "conflict")
    BY <1>e, <1>f, <2>1, <2>2
  <2>3. CASE Goto(r, "insertProvisioning") /\ UNCHANGED call
    BY <1>e, <2>1, <2>3 DEF Goto
  <2> QED  BY <1>1, <2>2, <2>3 DEF FindDomain
<1>2. CASE InsertProvisioning(r)
  <2>1. /\ pc[r] = "insertProvisioning" /\ UNCHANGED active
        /\ call[r].op = "createTenantWithStore" /\ Ten(r) \in Tenants
    BY <1>2, OperationAt DEF InsertProvisioning
  <2>2. CASE UniqueFor(Ten(r), call[r].domain)
    <3> DEFINE row == [status |-> "PROVISIONING", domain |-> call[r].domain,
                       schemaName |-> StoreSchemaName[call[r].domain]]
    <3>1. /\ rows' = [rows EXCEPT ![Ten(r)] = row] /\ UNCHANGED call
          /\ pc' = [pc EXCEPT ![r] = "cacheCheck"]
      BY <1>2, <2>2 DEF InsertProvisioning, InsertAs, Goto
    <3>2. rows[Ten(r)].status = "NONE"  BY <2>2 DEF UniqueFor, HasRow
    <3>3. pc'[r] = "cacheCheck" /\ \A q \in Requests \ {r} : pc'[q] = "idle"  BY <1>d, <3>1
    <3>4. rows'[Ten(r)].status = "PROVISIONING"  BY <1>t, <2>1, <3>1
    <3>5. (Certain(call[r], pc[r]))'
      BY <2>1, <3>1, <3>3, <3>4 DEF Certain, Owns, Initializing, BaseTables, Ten
    <3> HIDE DEF row
    <3> QED  BY <1>b, <1>t, <2>1, <3>1, <3>2, <3>3, <3>5, SoloWrites
  <2>3. CASE Fail(r) /\ UNCHANGED rows
    BY <1>g, <2>1, <2>3
  <2> QED  BY <1>2, <2>2, <2>3 DEF InsertProvisioning
<1>3. CASE CacheCheck(r) \/ MarkInitialized(r)
  <2>1. /\ pc[r] \in Initializing /\ UNCHANGED <<rows, active, call>>
        /\ \/ pc' = [pc EXCEPT ![r] = AfterInit[call[r].op]]
           \/ pc' = [pc EXCEPT ![r] = "schemaExists"]
    BY <1>3 DEF CacheCheck, MarkInitialized, Initializing, Goto
  <2>2. call[r].op \in {"createTenant", "createTenantWithStore", "loadActiveTenants"}
    BY <2>1, OperationAt
  <2>3. /\ call[r].op = "createTenant" => AfterInit[call[r].op] = "insertRow"
        /\ call[r].op = "createTenantWithStore" => AfterInit[call[r].op] = "updateActive"
        /\ call[r].op = "loadActiveTenants" => AfterInit[call[r].op] = "remember"
        /\ "schemaExists" \in Initializing /\ pc[r] # "setStatus"
    BY <2>1, <2>2 DEF AfterInit, Initializing, BaseTables
  <2>4. CASE pc' = [pc EXCEPT ![r] = "schemaExists"]
    BY <1>e, <2>1, <2>3, <2>4
  <2>5. CASE pc' = [pc EXCEPT ![r] = AfterInit[call[r].op]]
    BY <1>e, <2>1, <2>2, <2>3, <2>5
  <2> QED  BY <2>1, <2>4, <2>5
<1>4. CASE SchemaExists(r) \/ CreateSchema(r)
  <2>1. /\ pc[r] \in Initializing /\ pc[r] # "setStatus" /\ UNCHANGED <<rows, active, call>>
        /\ \E l \in Initializing : pc' = [pc EXCEPT ![r] = l]
    BY <1>4 DEF SchemaExists, CreateSchema, AddSchema, Initializing, Goto, BaseTables
  <2> QED  BY <1>e, <2>1
<1>5. CASE CreateTable(r)
  <2>1. pc[r] \in Initializing /\ pc[r] # "setStatus" /\ UNCHANGED <<rows, active>>
    BY <1>5 DEF CreateTable, AddTable, Initializing, BaseTables
  <2>2. CASE Fail(r)
    BY <1>g, <2>1, <2>2
  <2>3. CASE Goto(r, NextTable[pc[r]]) /\ UNCHANGED call
    <3>1. NextTable[pc[r]] \in Initializing
      BY <1>5 DEF CreateTable, NextTable, Initializing, BaseTables
    <3> QED  BY <1>e, <2>1, <2>3, <3>1 DEF Goto
  <2> QED  BY <1>5, <2>2, <2>3 DEF CreateTable
<1>6. CASE InsertRow(r)
  <2>1. /\ pc[r] = "insertRow" /\ UNCHANGED active
        /\ call[r].op = "createTenant" /\ Ten(r) \in Tenants
    BY <1>6, OperationAt DEF InsertRow
  <2>2. CASE UniqueFor(Ten(r), call[r].domain)
    <3> DEFINE row == [status |-> "ACTIVE", domain |-> call[r].domain,
                       schemaName |-> SchemaOf(r)]
    <3>1. /\ rows' = [rows EXCEPT ![Ten(r)] = row] /\ UNCHANGED call
          /\ pc' = [pc EXCEPT ![r] = "remember"]
      BY <1>6, <2>2 DEF InsertRow, InsertAs, Goto
    <3>2. rows[Ten(r)].status = "NONE"  BY <2>2 DEF UniqueFor, HasRow
    <3>3. pc'[r] = "remember" /\ \A q \in Requests \ {r} : pc'[q] = "idle"  BY <1>d, <3>1
    <3>4. rows'[Ten(r)].status = "ACTIVE"  BY <1>t, <2>1, <3>1
    <3>5. (Certain(call[r], pc[r]))'
      BY <2>1, <3>1, <3>3, <3>4 DEF Certain, Owns, Initializing, BaseTables, Ten
    <3> HIDE DEF row
    <3> QED  BY <1>b, <1>t, <2>1, <3>1, <3>2, <3>3, <3>5, SoloWrites
  <2>3. CASE Fail(r) /\ UNCHANGED rows
    BY <1>g, <2>1, <2>3
  <2> QED  BY <1>6, <2>2, <2>3 DEF InsertRow
<1>7. CASE UpdateActive(r)
  <2>1. /\ pc[r] = "updateActive" /\ UNCHANGED <<active, call>>
        /\ call[r].op = "createTenantWithStore" /\ Ten(r) \in Tenants
        /\ rows' = [rows EXCEPT ![Ten(r)].status = "ACTIVE"]
        /\ pc' = [pc EXCEPT ![r] = "remember"]
    BY <1>7, OperationAt DEF UpdateActive, SetRow, Goto
  <2>2. rows[Ten(r)].status = "PROVISIONING"  BY <1>c, <2>1 DEF Certain, Owns, Ten
  <2> DEFINE row == [rows[Ten(r)] EXCEPT !.status = "ACTIVE"]
  <2>3. rows' = [rows EXCEPT ![Ten(r)] = row]  BY <1>t, <2>1
  <2>4. rows'[Ten(r)].status = "ACTIVE"  BY <1>t, <2>1 DEF Row
  <2>5. pc'[r] = "remember" /\ \A q \in Requests \ {r} : pc'[q] = "idle"  BY <1>d, <2>1
  <2>6. (Certain(call[r], pc[r]))'
    BY <2>1, <2>4, <2>5 DEF Certain, Owns, Initializing, BaseTables, Ten
  <2> HIDE DEF row
  <2> QED  BY <1>b, <1>t, <2>1, <2>2, <2>3, <2>5, <2>6, SoloWrites
<1>8. CASE Remember(r)
  <2>1. /\ pc[r] = "remember" /\ UNCHANGED rows /\ Ten(r) \in Tenants
        /\ active' = [active EXCEPT ![Inst(r)][Ten(r)] = "ACTIVE"]
        /\ pc' = [pc EXCEPT ![r] = IF call[r].op = "loadActiveTenants" THEN "loadNext"
                                                                       ELSE "done"]
    BY <1>8, OperationAt DEF Remember, Goto
  <2>2. call'[r].op = call[r].op /\ call'[r].tenant = Ten(r) /\ call'[r].todo = call[r].todo
    BY <1>t, <1>8 DEF Remember, Call, Ten
  <2>3. rows[Ten(r)].status = "ACTIVE"  BY <1>c, <2>1 DEF Certain, Ten
  <2>4. \A i \in Instances, t \in Tenants :
           active'[i][t] = IF i = Inst(r) /\ t = Ten(r) THEN "ACTIVE" ELSE active[i][t]
    BY <1>t, <2>1, ConstantsOK DEF Inst
  <2>5. InStep  BY DEF Solo
  <2>6. InStep'  BY <1>b, <2>1, <2>3, <2>4, <2>5, InStepNow, InStepLater
  <2>7. \A q \in Requests \ {r} : pc'[q] = "idle"  BY <1>d, <2>1
  <2>8. /\ call[r].op = "loadActiveTenants" => pc'[r] = "loadNext"
        /\ call[r].op # "loadActiveTenants" => pc'[r] = "done"
    BY <1>t, <2>1
  <2>9. (Certain(call[r], pc[r]))'
    BY <1>c, <2>1, <2>2, <2>8 DEF Certain, Owns, Initializing, BaseTables
  <2> QED  BY <2>6, <2>7, <2>9, SoloMove
<1>9. CASE FindActive(r)
  <2>1. /\ pc[r] = "findActive" /\ UNCHANGED <<rows, active>>
        /\ call' = [call EXCEPT ![r].todo = {t \in Tenants : rows[t].status = "ACTIVE"}]
        /\ pc' = [pc EXCEPT ![r] = "loadNext"]
    BY <1>9 DEF FindActive, Goto
  <2>2. \A t \in call'[r].todo : rows[t].status = "ACTIVE"
    <3>1. call'[r].todo = {t \in Tenants : rows[t].status = "ACTIVE"}
      BY <1>t, <2>1 DEF Call
    <3> QED  BY <3>1
  <2>3. pc'[r] = "loadNext" /\ \A q \in Requests \ {r} : pc'[q] = "idle"  BY <1>d, <2>1
  <2>4. (Certain(call[r], pc[r]))'
    BY <2>1, <2>2, <2>3 DEF Certain, Owns, Initializing, BaseTables
  <2> QED  BY <1>b, <2>1, <2>3, <2>4, SoloQuiet
<1>10. CASE LoadNext(r)
  <2>1. /\ pc[r] = "loadNext" /\ UNCHANGED <<rows, active>>
        /\ call[r].op = "loadActiveTenants"
    BY <1>10, OperationAt DEF LoadNext
  <2>2. CASE Finish(r, "ok")
    BY <1>e, <1>f, <2>1, <2>2
  <2>3. ASSUME NEW t \in call[r].todo, Goto(r, "cacheCheck"),
               call' = [call EXCEPT ![r].todo = @ \ {t}, ![r].tenant = t]
        PROVE  Solo'
    <3>1. /\ call'[r].todo = call[r].todo \ {t} /\ call'[r].tenant = t
          /\ call'[r].op = call[r].op
      BY <1>t, <2>3 DEF Call
    <3>2. \A u \in call[r].todo : rows[u].status = "ACTIVE"  BY <1>c, <2>1 DEF Certain
    <3>3. pc'[r] = "cacheCheck" /\ \A q \in Requests \ {r} : pc'[q] = "idle"
      BY <1>d, <2>3 DEF Goto
    <3>4. (Certain(call[r], pc[r]))'
      BY <2>1, <3>1, <3>2, <3>3 DEF Certain, Owns, Initializing, BaseTables
    <3> QED  BY <1>b, <2>1, <3>3, <3>4, SoloQuiet
  <2> QED  BY <1>10, <2>2, <2>3 DEF LoadNext
<1>11. CASE UpdateStatus(r)
  <2>1. /\ pc[r] = "updateStatus" /\ UNCHANGED <<active, call>> /\ Ten(r) \in Tenants
        /\ rows' = [rows EXCEPT ![Ten(r)].status = NewStatus(call[r].op)]
        /\ pc' = [pc EXCEPT ![r] = "setStatus"]
    BY <1>11, OperationAt DEF UpdateStatus, SetRow, Goto
  <2>2. /\ rows'[Ten(r)].status = NewStatus(call[r].op)
        /\ \A t \in Tenants : t # Ten(r) => rows'[t] = rows[t]
    BY <1>t, <2>1 DEF Row
  <2>3. pc'[r] = "setStatus" /\ \A q \in Requests \ {r} : pc'[q] = "idle"  BY <1>d, <2>1
  <2>4. NewStatus(call[r].op) \in {"ACTIVE", "SUSPENDED"}  BY DEF NewStatus
  <2>5. (Certain(call[r], pc[r]))'
    BY <1>c, <2>1, <2>2, <2>3, <2>4 DEF Certain, Owns, Initializing, BaseTables, HasRow, Ten
  <2>6. InStep'
    BY <2>1, <2>2, <2>3, <2>4 DEF Solo, InStep, HasRow, Inst, Ten
  <2> QED  BY <2>3, <2>5, <2>6, SoloMove
<1>12. CASE SetStatus(r)
  <2>1. /\ pc[r] = "setStatus" /\ UNCHANGED rows /\ Finish(r, "ok") /\ Ten(r) \in Tenants
        /\ call[r].linked => active' = [active EXCEPT ![Inst(r)][Ten(r)] = NewStatus(call[r].op)]
    BY <1>12, OperationAt DEF SetStatus
  <2>2. call[r].linked /\ rows[Ten(r)].status = NewStatus(call[r].op)
    BY <1>c, <2>1 DEF Certain, Ten
  <2>3. \A i \in Instances, t \in Tenants :
           active'[i][t] = IF i = Inst(r) /\ t = Ten(r) THEN NewStatus(call[r].op)
                                                        ELSE active[i][t]
    BY <1>t, <2>1, <2>2, ConstantsOK DEF Inst
  <2>4. NewStatus(call[r].op) \in {"ACTIVE", "SUSPENDED"}  BY DEF NewStatus
  <2>5. ASSUME NEW i \in Instances, NEW t \in Tenants, active'[i][t] # "NONE"
        PROVE  /\ active'[i][t] = rows'[t].status /\ active'[i][t] \in {"ACTIVE", "SUSPENDED"}
               /\ \E q \in Requests : Inst(q) = i
    <3>1. CASE i = Inst(r) /\ t = Ten(r)
      BY <2>1, <2>2, <2>3, <2>4, <3>1
    <3>2. CASE ~(i = Inst(r) /\ t = Ten(r))
      <4>1. /\ active'[i][t] = active[i][t] /\ active[i][t] \in {"ACTIVE", "SUSPENDED"}
            /\ \E q \in Requests : Inst(q) = i
            /\ \/ active[i][t] = rows[t].status
               \/ \E q \in Requests : pc[q] = "setStatus" /\ Ten(q) = t
        BY <2>3, <2>5, <3>2 DEF Solo, InStep
      <4>2. i = Inst(r) /\ t # Ten(r)  BY <3>2, <4>1
      <4>3. \A q \in Requests : pc[q] = "setStatus" => q = r  BY <1>a
      <4> QED  BY <2>1, <4>1, <4>2, <4>3
    <3> QED  BY <3>1, <3>2
  <2>6. InStep'  BY <2>5, InStepLater
  <2>7. pc'[r] = "done" /\ \A q \in Requests \ {r} : pc'[q] = "idle"  BY <1>d, <2>1 DEF Finish
  <2>8. (Certain(call[r], pc[r]))'
    BY <2>7 DEF Certain, Owns, Initializing, BaseTables
  <2> QED  BY <2>6, <2>7, <2>8, SoloMove
<1>13. CASE DropExists(r) \/ DropSchema(r) \/ Forget(r)
  <2>1. /\ pc[r] # "setStatus" /\ UNCHANGED <<rows, active>>
        /\ \/ Finish(r, "ok") \/ Finish(r, "error")
           \/ UNCHANGED call /\ \E l \in {"dropSchema", "forget"} : pc' = [pc EXCEPT ![r] = l]
    BY <1>13 DEF DropExists, DropSchema, RemoveSchema, Forget, Goto
  <2>2. CASE Finish(r, "ok") \/ Finish(r, "error")
    BY <1>e, <1>f, <2>1, <2>2
  <2> QED  BY <1>e, <2>1, <2>2
<1>14. CASE Return(r)
  <2>1. /\ pc[r] # "setStatus" /\ UNCHANGED <<rows, active>>
        /\ pc' = [pc EXCEPT ![r] = "idle"]
    BY <1>14 DEF Return, Goto
  <2>2. pc'[r] = "idle" /\ \A q \in Requests \ {r} : pc'[q] = "idle"  BY <1>d, <2>1
  <2>3. (Certain(call[r], pc[r]))'
    BY <2>2 DEF Certain, Owns, Initializing, BaseTables
  <2> QED  BY <1>b, <2>1, <2>2, <2>3, SoloQuiet
<1> QED
  BY <1>1, <1>2, <1>3, <1>4, <1>5, <1>6, <1>7, <1>8, <1>9, <1>10, <1>11, <1>12, <1>13, <1>14
  DEF Continue

\* With no faults to come, no database call fails.
LEMMA NoFault ==
    ASSUME Shape, MaxFaults = 0, NEW r \in Requests, DatabaseFault(r) \/ LostReply(r)
    PROVE  FALSE
<1>1. faults \in Nat /\ faults < MaxFaults
  BY DEF Shape, TypeOK, DatabaseFault, LostReply
<1> QED  BY <1>1

\* Calls one at a time, on one object graph, over a database that does not fail.
LEMMA SoloAlways ==
    ASSUME MaxInFlight = 1, MaxFaults = 0, \A q, p \in Requests : Inst(q) = Inst(p)
    PROVE  Spec => []Solo
<1>1. Init => Solo
  BY DEF Init, Solo, Alone, InStep, Certain, Owns, NoCall, NewCall, Initializing, BaseTables
<1>2. ASSUME Shape, Solo, [Next]_vars PROVE Solo'
  <2>1. CASE UNCHANGED vars
    BY <1>2, <2>1 DEF vars, Solo, Alone, InStep, Certain, Owns, HasRow, Inst, Ten
  <2>2. CASE Crash
    BY <2>2 DEF Crash, Solo, Alone, InStep, Certain, Owns, NoCall, NewCall, Initializing,
       BaseTables
  <2>3. ASSUME NEW r \in Requests, DatabaseFault(r) \/ LostReply(r) PROVE FALSE
    BY <1>2, <2>3, NoFault
  <2> QED  BY <1>2, <2>1, <2>2, <2>3, SoloStart, SoloContinue DEF Next
<1> QED  BY <1>1, <1>2, ShapeAlways, PTL DEF Spec

\* While one call at a time uses one object graph, and no database call fails,
\* activeTenants has the status of the row of every tenant it names whenever no call
\* is in progress; restarts and dropTenantSchema included.
THEOREM MemoryAgrees ==
    ASSUME MaxInFlight = 1, MaxFaults = 0, \A q, p \in Requests : Inst(q) = Inst(p)
    PROVE  Spec => []MemoryFollowsDatabase
<1>1. ASSUME Solo PROVE MemoryFollowsDatabase
  BY <1>1, InStepNow DEF Solo, MemoryFollowsDatabase, Quiescent, InFlight
<1> QED  BY <1>1, SoloAlways, PTL

\* A call that is about to cache a schema has it; only the object graph in use caches.
CachedNext ==
    /\ \A r \in Requests : pc[r] = "markInitialized" => SchemaOf(r) \in schemas
    /\ \A i \in Instances : initialized[i] # {} => \E r \in Requests : Inst(r) = i

\* A step that leaves the cache and the schemas alone, from no deletion under way.
LEMMA CachedQuiet ==
    ASSUME CachedSchemasExist, UNCHANGED initialized, schemas \subseteq schemas',
           \A q \in Requests : pc[q] # "forget"
    PROVE  CachedSchemasExist'
  BY DEF CachedSchemasExist

\* A call begins with the cache of its object graph, or with an empty one.
LEMMA CachedStart ==
    ASSUME Shape, Solo, CachedSchemasExist, CachedNext, MaxInFlight = 1,
           NEW r \in Requests, Start(r)
    PROVE  CachedSchemasExist' /\ CachedNext'
<1>1. PICK c, l : /\ Begin(r, c, l)
                  /\ l \in {"cacheCheck", "findDomain", "findActive", "updateStatus",
                            "dropExists", "done"}
  BY DEF Start, StartCreateTenant, StartCreateTenantWithStore, StartLoadActiveTenants,
     StartStatusChange, StartDropTenantSchema
<1>2. \A q \in Requests : pc[q] = "idle"
  BY <1>1, NoneInFlight DEF Solo
<1>3. /\ \A i \in Instances : initialized'[i] \subseteq initialized[i]
      /\ UNCHANGED schemas /\ pc' = [pc EXCEPT ![r] = l]
  BY <1>1 DEF Begin, Fresh, Goto, database, Shape, TypeOK
<1>4. CachedSchemasExist'
  BY <1>2, <1>3 DEF CachedSchemasExist
<1>5. CachedNext'
  <2>1. \A q \in Requests : pc'[q] # "markInitialized"
    BY <1>1, <1>2, <1>3 DEF Shape, TypeOK
  <2>2. \A i \in Instances : initialized'[i] # {} => initialized[i] # {}
    BY <1>3
  <2> QED BY <2>1, <2>2 DEF CachedNext, Inst
<1> QED  BY <1>4, <1>5

\* Each await of the only call keeps its cache within the database, up to the delete
\* that follows a DROP SCHEMA.
LEMMA CachedContinue ==
    ASSUME Shape, Solo, CachedSchemasExist, CachedNext,
           \A q, p \in Requests : Inst(q) = Inst(p), NEW r \in Requests, Continue(r)
    PROVE  CachedSchemasExist' /\ CachedNext'
<1> USE DEF database, memory
<1>t. /\ pc \in [Requests -> Locations] /\ call \in [Requests -> Call]
      /\ initialized \in [Instances -> SUBSET Schemas]
  BY DEF Shape, TypeOK
<1>0. pc[r] # "idle"
  BY DEF Continue, FindDomain, InsertProvisioning, CacheCheck, SchemaExists, CreateSchema,
     CreateTable, MarkInitialized, InsertRow, UpdateActive, Remember, FindActive, LoadNext,
     UpdateStatus, SetStatus, DropExists, DropSchema, Forget, Return, BaseTables
<1>a. \A q \in Requests \ {r} : pc[q] = "idle"  BY <1>0 DEF Solo, Alone
<1>b. ASSUME pc[r] # "forget", UNCHANGED initialized, schemas \subseteq schemas'
      PROVE  CachedSchemasExist'
  BY <1>a, <1>b, CachedQuiet
<1>c. ASSUME NEW l, pc' = [pc EXCEPT ![r] = l],
             l = "markInitialized" => call'[r].tenant = Ten(r) /\ SchemaOf(r) \in schemas',
             \A i \in Instances : i # Inst(r) => initialized'[i] \subseteq initialized[i]
      PROVE  CachedNext'
  <2>1. \A q \in Requests : pc'[q] = "markInitialized" => SchemaOf(q)' \in schemas'
    BY <1>t, <1>a, <1>c DEF SchemaOf, Ten
  <2>2. \A i \in Instances : initialized'[i] # {} => \E q \in Requests : Inst(q) = i
    BY <1>c DEF CachedNext
  <2> QED  BY <2>1, <2>2 DEF CachedNext, Inst
<1>1. CASE SchemaExists(r)
  <2>1. /\ pc[r] = "schemaExists" /\ UNCHANGED <<schemas, initialized, call>>
        /\ pc' = [pc EXCEPT ![r] =
              IF SchemaOf(r) \in schemas THEN "markInitialized" ELSE "createSchema"]
    BY <1>1 DEF SchemaExists, Goto
  <2> QED  BY <1>b, <1>c, <2>1 DEF Ten
<1>2. CASE CreateSchema(r)
  <2>1. /\ pc[r] = "createSchema" /\ UNCHANGED initialized /\ schemas \subseteq schemas'
        /\ pc' = [pc EXCEPT ![r] = "users"]
    BY <1>2 DEF CreateSchema, AddSchema, Goto
  <2> QED  BY <1>b, <1>c, <2>1
<1>3. CASE CreateTable(r)
  <2>1. pc[r] # "forget" /\ UNCHANGED <<schemas, initialized>>
    BY <1>3 DEF CreateTable, AddTable, BaseTables
  <2>2. CASE SchemaOf(r) \in schemas
    <3>1. pc' = [pc EXCEPT ![r] = NextTable[pc[r]]] /\ UNCHANGED call
      BY <1>3, <2>2 DEF CreateTable, Goto
    <3> QED  BY <1>b, <1>c, <2>1, <2>2, <3>1 DEF Ten
  <2>3. CASE Fail(r)
    BY <1>b, <1>c, <2>1, <2>3 DEF Fail, Finish, Goto
  <2> QED  BY <1>3, <2>2, <2>3 DEF CreateTable
<1>4. CASE MarkInitialized(r)
  <2>1. /\ pc[r] = "markInitialized" /\ UNCHANGED <<schemas, call>>
        /\ initialized' = [initialized EXCEPT ![Inst(r)] = @ \cup {SchemaOf(r)}]
        /\ pc' = [pc EXCEPT ![r] = AfterInit[call[r].op]]
    BY <1>4 DEF MarkInitialized, Goto
  <2>2. call[r].op \in {"createTenant", "createTenantWithStore", "loadActiveTenants"}
    BY <2>1, OperationAt DEF Initializing
  <2>3. SchemaOf(r) \in schemas  BY <2>1 DEF CachedNext
  <2>4. \A i \in Instances : initialized'[i] \subseteq initialized[i] \cup {SchemaOf(r)}
    BY <1>t, <2>1
  <2>5. CachedSchemasExist'
    BY <1>a, <2>1, <2>3, <2>4 DEF CachedSchemasExist
  <2>6. AfterInit[call[r].op] # "markInitialized"  BY <2>2 DEF AfterInit
  <2> QED  BY <1>t, <1>c, <2>1, <2>5, <2>6
<1>5. CASE DropSchema(r)
  <2>1. /\ pc[r] = "dropSchema" /\ UNCHANGED <<initialized, call>>
        /\ schemas' = schemas \ {SchemaOf(r)} /\ pc' = [pc EXCEPT ![r] = "forget"]
    BY <1>5 DEF DropSchema, RemoveSchema, Goto
  <2>2. ASSUME NEW i \in Instances, NEW s \in initialized'[i], s \notin schemas'
        PROVE  pc'[r] = "forget" /\ Inst(r) = i /\ SchemaOf(r)' = s
    <3>1. \A q \in Requests : pc[q] # "forget"  BY <1>a, <2>1
    <3>2. s = SchemaOf(r)  BY <2>1, <2>2, <3>1 DEF CachedSchemasExist
    <3>3. Inst(r) = i  BY <2>1, <2>2 DEF CachedNext
    <3> QED  BY <1>t, <2>1, <3>2, <3>3 DEF SchemaOf, Ten
  <2>3. CachedSchemasExist'
    BY <2>2 DEF CachedSchemasExist, Inst
  <2> QED  BY <1>c, <2>1, <2>3
<1>6. CASE Forget(r)
  <2>1. /\ pc[r] = "forget" /\ UNCHANGED schemas /\ Finish(r, "ok")
        /\ initialized' = [initialized EXCEPT ![Inst(r)] = @ \ {SchemaOf(r)}]
    BY <1>6 DEF Forget
  <2>2. ASSUME NEW i \in Instances, NEW s \in initialized'[i] PROVE s \in schemas'
    <3>1. s \in initialized[i] /\ (i = Inst(r) => s # SchemaOf(r))  BY <1>t, <2>1, <2>2
    <3> QED  BY <1>a, <2>1, <3>1 DEF CachedSchemasExist
  <2>3. CachedSchemasExist'  BY <2>2 DEF CachedSchemasExist
  <2> QED  BY <1>t, <1>c, <2>1, <2>3 DEF Finish
<1>7. CASE FindDomain(r) \/ InsertProvisioning(r) \/ CacheCheck(r) \/ InsertRow(r)
           \/ UpdateActive(r) \/ Remember(r) \/ FindActive(r) \/ LoadNext(r) \/ UpdateStatus(r)
           \/ SetStatus(r) \/ DropExists(r) \/ Return(r)
  <2>1. pc[r] # "forget" /\ UNCHANGED <<schemas, initialized>>
    BY <1>7 DEF FindDomain, InsertProvisioning, CacheCheck, InsertRow, UpdateActive, Remember,
       FindActive, LoadNext, UpdateStatus, SetStatus, DropExists, Return, InsertAs, SetRow
  <2>2. \E l : pc' = [pc EXCEPT ![r] = l] /\ l # "markInitialized"
    <3>1. pc[r] = "cacheCheck" => AfterInit[call[r].op] # "markInitialized"
      BY OperationAt DEF Initializing, AfterInit
    <3> QED
      BY <1>7, <3>1 DEF FindDomain, InsertProvisioning, CacheCheck, InsertRow, UpdateActive,
         Remember, FindActive, LoadNext, UpdateStatus, SetStatus, DropExists, Return, Fail,
         Finish, Goto
  <2> QED  BY <1>b, <1>c, <2>1, <2>2
<1> QED  BY <1>1, <1>2, <1>3, <1>4, <1>5, <1>6, <1>7 DEF Continue

\* Under the same conditions a schema in initializedSchemas exists, except between DROP
\* SCHEMA and the delete that follows it; creations, loads, drops and restarts included.
THEOREM CachedSchemasAlone ==
    ASSUME MaxInFlight = 1, MaxFaults = 0, \A q, p \in Requests : Inst(q) = Inst(p)
    PROVE  Spec => []CachedSchemasExist
<1>1. Init => CachedSchemasExist /\ CachedNext
  BY DEF Init, CachedSchemasExist, CachedNext
<1>2. ASSUME Shape, Solo, CachedSchemasExist, CachedNext, [Next]_vars
      PROVE  CachedSchemasExist' /\ CachedNext'
  <2>1. CASE UNCHANGED vars
    BY <1>2, <2>1 DEF vars, CachedSchemasExist, CachedNext, SchemaOf, Ten, Inst
  <2>2. CASE Crash
    BY <2>2 DEF Crash, CachedSchemasExist, CachedNext
  <2>3. ASSUME NEW r \in Requests, DatabaseFault(r) \/ LostReply(r) PROVE FALSE
    BY <1>2, <2>3, NoFault
  <2> QED  BY <1>2, <2>1, <2>2, <2>3, CachedStart, CachedContinue DEF Next
<1> QED  BY <1>1, <1>2, ShapeAlways, SoloAlways, PTL DEF Spec

=============================================================================
