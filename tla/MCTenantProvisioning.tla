------------------------- MODULE MCTenantProvisioning -------------------------
(***************************************************************************)
(* Small instances of TenantProvisioning: up to two tenant ids, domains and *)
(* callers, sharing one object graph or with one graph each.  No symmetry, *)
(* since liveness is checked.                                              *)
(***************************************************************************)
EXTENDS TenantProvisioning

CONSTANTS t1, t2, d1, d2, r1, r2, i1, i2,
          s1, s2, \* the schemas getSchemaName gives for t1 and t2
          w1, w2  \* the schemas createTenantWithStore records for d1 and d2

MCSchemaName == [t \in Tenants |-> IF t = t1 THEN s1 ELSE s2]
MCStoreSchemaName == [d \in Domains |-> IF d = d1 THEN w1 ELSE w2]
SharedInstance == [r \in Requests |-> i1]
OwnInstance == [r \in Requests |-> IF r = r1 THEN i1 ELSE i2]

CreateLoadAndStatus == AllOperations \ {"dropTenantSchema"}
Creations == {"createTenant", "createTenantWithStore"}
CreateAndStatus == {"createTenant", "suspendTenant", "activateTenant"}
===============================================================================
