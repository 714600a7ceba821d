---------------------------- MODULE TenantDirectory ----------------------------
(***************************************************************************)
(* What the tenant services promise, without calls, memory or failures:    *)
(* a directory of tenants in which a tenant is opened once, only when its  *)
(* schema is there, and then only moves between ACTIVE and SUSPENDED.      *)
(* TenantProvisioning implements it as long as no schema is dropped.       *)
(***************************************************************************)
CONSTANT Tenants
VARIABLES status,     \* [Tenants -> STRING], the status column
          provisioned \* the tenants whose schema exists

Init == /\ status = [t \in Tenants |-> "NONE"]
        /\ provisioned = {}

Become(t, from, to) ==
    /\ status[t] \in from
    /\ status' = [status EXCEPT ![t] = to]
    /\ UNCHANGED provisioned

\* One schema may serve several tenant ids: getSchemaName is not injective.
Provision == \E S \in SUBSET Tenants :
    /\ provisioned' = provisioned \cup S
    /\ UNCHANGED status

Reserve(t)    == Become(t, {"NONE"}, "PROVISIONING")
Open(t)       == t \in provisioned /\ Become(t, {"NONE", "PROVISIONING"}, "ACTIVE")
Suspend(t)    == Become(t, {"ACTIVE"}, "SUSPENDED")
Reactivate(t) == Become(t, {"SUSPENDED"}, "ACTIVE")

Next == \/ Provision
        \/ \E t \in Tenants : Reserve(t) \/ Open(t) \/ Suspend(t) \/ Reactivate(t)

Spec == Init /\ [][Next]_<<status, provisioned>>
===============================================================================
