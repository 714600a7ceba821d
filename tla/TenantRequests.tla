--------------------------- MODULE TenantRequests ---------------------------
(***************************************************************************)
(* The way of an HTTP request through packages/core: TenantContextService  *)
(* built from it, TenantScopedGuard, JwtAuthGuard, RolesGuard, the         *)
(* TenantContextInterceptor, and the product and business controllers over *)
(* ProductService; every other controller is a route without rows here.    *)
(* A request is suspended at the user's lookup (JwtStrategy) and at the    *)
(* query of its handler; meanwhile onboarding may give its user a store.   *)
(***************************************************************************)
EXTENDS Naturals, FiniteSets

CONSTANTS
    Requests,
    Tenants,      \* ids a request may name
    Registered,   \* those with a row in tenants
    Users,        \* users that hold an access token
    Products,     \* product ids
    Emails,       \* emails a customer may be created with
    NoTenant, Nobody

VARIABLES
    products,    \* [Products -> Tenants \cup {NoTenant}], NoTenant: no row
    customers,   \* [Emails -> Tenants \cup {NoTenant}]
    members,     \* table users: [Users -> [tenant, admin]]
    req          \* [Requests -> Request]

vars == <<products, customers, members, req>>

Named == Tenants \cup {NoTenant}
ProductController  == {"createProduct", "getProducts", "deleteProduct"}
BusinessController == {"createProductB", "getProductsB", "deleteProductB",
                       "createCustomer", "getCustomers"}
Routes == ProductController \cup BusinessController
             \cup {"auth", "profile", "onboarding", "tenants", "health"}
Statuses == {0, 200, 400, 401, 403, 409, 500}    \* 0: not answered yet
Request == [pc: {"idle", "user", "query", "over"}, route: Routes,
            header: Named,      \* X-Tenant-ID
            site: Named,        \* of the subdomain, the host or the path
            param: Named,       \* tenantId or storeId in the path, query or body
            product: Products, email: Emails,
            who: Users \cup {Nobody}, tenant: Named, admin: BOOLEAN,
            touched: SUBSET Tenants,    \* whose rows it was given or changed
            status: Statuses]

Idle == [pc |-> "idle", route |-> "auth", header |-> NoTenant, site |-> NoTenant,
         param |-> NoTenant, product |-> CHOOSE p \in Products : TRUE,
         email |-> CHOOSE e \in Emails : TRUE, who |-> Nobody, tenant |-> NoTenant,
         admin |-> FALSE, touched |-> {}, status |-> 0]

Init ==
    /\ products \in [Products -> Registered \cup {NoTenant}]
    /\ customers = [e \in Emails |-> NoTenant]
    /\ members \in [Users -> [tenant: Registered \cup {NoTenant}, admin: {FALSE}]]
    /\ req = [r \in Requests |-> Idle]

-----------------------------------------------------------------------------
(* What the guards ask of a request.                                       *)

\* initializeFromRequest; without a tenant it is a system operation.
TenantId(q)        == IF q.header # NoTenant THEN q.header ELSE q.site
IsSystemContext(q) == TenantId(q) = NoTenant

\* extractTenantIdFromRequest
Requested(q) ==
    IF q.param # NoTenant THEN q.param
    ELSE IF q.header # NoTenant THEN q.header
    ELSE IF q.route \in {"auth", "profile"} THEN TenantId(q) ELSE NoTenant

\* Mutant: the requested tenant is not compared with the context's.
ValidateTenantAccessMutantTrue(q) == Requested(q) \in Tenants

ValidateTenantAccess(q) == IsSystemContext(q) \/ TenantId(q) = Requested(q)

\* systemRoutes of the guard, exemptRoutes of the interceptor (which asks for
\* names that no method of TenantController has), and the guarded handlers.
SystemRoutes == ProductController \cup {"auth", "onboarding", "tenants"}
ExemptRoutes == {"auth", "onboarding"}
JwtRoutes    == ProductController \cup BusinessController \cup {"profile"}

TenantScopedGuard(q) == q.route \in SystemRoutes \/ ~IsSystemContext(q)

RolesGuard(q) == q.route = "deleteProductB" => q.admin

Intercept(q) ==
    \/ IsSystemContext(q)
    \/ Requested(q) = NoTenant
    \/ /\ q.who = Nobody => q.route \in ExemptRoutes
       /\ q.who # Nobody /\ q.tenant # NoTenant => q.tenant = Requested(q)
       /\ ValidateTenantAccess(q)

Over(q, s) == [q EXCEPT !.pc = "over", !.status = s]

-----------------------------------------------------------------------------
(* A request and its handler.                                              *)

Arrive(r) ==
    /\ req[r].pc = "idle"
    /\ \E w \in Routes, h \in Named, s \in Named, p \in Named, u \in Users \cup {Nobody},
          x \in Products, e \in Emails :
        LET q == [Idle EXCEPT !.pc = "user", !.route = w, !.header = h, !.site = s,
                              !.param = p, !.who = u, !.product = x, !.email = e]
        IN  req' = [req EXCEPT ![r] = IF TenantScopedGuard(q) THEN q ELSE Over(q, 403)]
    /\ UNCHANGED <<products, customers, members>>

\* JwtStrategy.validate reads the user; RolesGuard and the interceptor follow.
Authorise(r) ==
    LET jwt == req[r].route \in JwtRoutes
        u   == IF jwt THEN req[r].who ELSE Nobody
        q   == IF u = Nobody THEN [req[r] EXCEPT !.who = Nobody]
               ELSE [req[r] EXCEPT !.tenant = members[u].tenant, !.admin = members[u].admin]
    IN  /\ req[r].pc = "user"
        /\ req' = [req EXCEPT ![r] =
               IF jwt /\ u = Nobody THEN Over(q, 401)
               ELSE IF RolesGuard(q) /\ Intercept(q) THEN [q EXCEPT !.pc = "query"]
                                                     ELSE Over(q, 403)]
        /\ UNCHANGED <<products, customers, members>>

\* The routes whose handler queries the rows of a tenant.
RowRoutes == (ProductController \cup BusinessController) \ {"deleteProductB"}

Served(r)     == req' = [req EXCEPT ![r] = Over([@ EXCEPT !.touched = {req[r].header}], 200)]
Refused(r, S) == /\ \E s \in S : req' = [req EXCEPT ![r] = Over(@, s)]
                 /\ UNCHANGED <<products, customers, members>>

\* The handler asks for the header itself.
NoHeader(r) ==
    /\ req[r].pc = "query" /\ req[r].header = NoTenant
    /\ req[r].route \in RowRoutes
    /\ Refused(r, {403})

HasHeader(r, S) == req[r].pc = "query" /\ req[r].header # NoTenant /\ req[r].route \in S

CreateProduct(r) ==
    LET q == req[r] IN
    /\ HasHeader(r, {"createProduct", "createProductB"})
    /\ products[q.product] = NoTenant /\ q.header \in Registered
    /\ products' = [products EXCEPT ![q.product] = q.header]
    /\ Served(r)
    /\ UNCHANGED <<customers, members>>

GetRows(r) ==
    /\ HasHeader(r, {"getProducts", "getProductsB", "getCustomers"})
    /\ Served(r)
    /\ UNCHANGED <<products, customers, members>>

\* deleteMany where id and tenantId; it succeeds when there is no such row.
DeleteProduct(r) ==
    LET q == req[r] IN
    /\ HasHeader(r, {"deleteProduct"})
    /\ products' = [products EXCEPT ![q.product] = IF @ = q.header THEN NoTenant ELSE @]
    /\ Served(r)
    /\ UNCHANGED <<customers, members>>

\* No foreign key: the tenant need not exist.
CreateCustomer(r) ==
    LET q == req[r] IN
    /\ HasHeader(r, {"createCustomer"}) /\ customers[q.email] = NoTenant
    /\ customers' = [customers EXCEPT ![q.email] = q.header]
    /\ Served(r)
    /\ UNCHANGED <<products, members>>

\* A database error.  A taken id or email and an unknown tenant are 409 and 400 to
\* PrismaExceptionFilter, anything else and everything to AllExceptionsFilter 500.
QueryFails(r) ==
    LET q      == req[r]
        create == q.route \in {"createProduct", "createProductB"}
        taken  == IF create THEN products[q.product] # NoTenant
                  ELSE q.route = "createCustomer" /\ customers[q.email] # NoTenant
        orphan == create /\ q.header \notin Registered
    IN  /\ HasHeader(r, RowRoutes)
        /\ Refused(r, {500} \cup (IF taken THEN {409} ELSE {}) \cup (IF orphan THEN {400} ELSE {}))

\* The handlers that reach no tenant's rows: BusinessController.deleteProduct, which
\* deletes nothing, getHealth, which wants a header the interceptor lets nobody send,
\* and those of the other modules, with an answer of their own.
Elsewhere(r) ==
    /\ req[r].pc = "query" /\ req[r].route \in Routes \ RowRoutes
    /\ Refused(r, CASE req[r].route = "deleteProductB" -> {200}
                     [] req[r].route = "health" -> IF req[r].header = NoTenant THEN {400} ELSE {200}
                     [] OTHER -> {200, 400, 401, 500})

\* The answer is sent, and the next request takes its place.
Respond(r) ==
    /\ req[r].pc = "over" /\ req' = [req EXCEPT ![r] = Idle]
    /\ UNCHANGED <<products, customers, members>>

\* OnboardingService.quickStart gives an existing user a new store.
GetsStore(u) == \E t \in Registered :
    /\ members' = [members EXCEPT ![u] = [tenant |-> t, admin |-> TRUE]]
    /\ UNCHANGED <<products, customers, req>>

Next ==
    \/ \E r \in Requests : \/ Arrive(r) \/ Authorise(r) \/ NoHeader(r) \/ CreateProduct(r)
                           \/ GetRows(r) \/ DeleteProduct(r) \/ CreateCustomer(r)
                           \/ QueryFails(r) \/ Elsewhere(r) \/ Respond(r)
    \/ \E u \in Users : GetsStore(u)

Spec == Init /\ [][Next]_vars

-----------------------------------------------------------------------------
(* Properties.                                                             *)

\* Every variable holds a value of its kind.
TypeOK ==
    /\ products \in [Products -> Named] /\ customers \in [Emails -> Named]
    /\ members \in [Users -> [tenant: Named, admin: BOOLEAN]]
    /\ req \in [Requests -> Request]

\* Whatever a request says in its header, host, path, query and body, and
\* although the guard lets every route of ProductController through and the
\* handlers trust the header alone: the rows it reads or writes for a user who
\* belongs to a tenant are that tenant's (TenantContextInterceptor).
RowsStayWithTheTenant ==
    \A r \in Requests : req[r].tenant # NoTenant => req[r].touched \subseteq {req[r].tenant}
=============================================================================
