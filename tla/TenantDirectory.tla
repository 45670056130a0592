---------------------------- MODULE TenantDirectory ----------------------------
(***************************************************************************)
(* The tenant rows of the control plane, which provisioning writes and the *)
(* connection resolver and the migration fan-out read.                     *)
(***************************************************************************)

CONSTANTS
    Tenants,        \* tenant rows; a tenant outside the set has none
    NoDatabase      \* a null db_name

VARIABLE dbName     \* the db_name of each tenant: its own database, or null

\* The database provisioning names after the tenant's slug, one per tenant.
TenantDbName(t) == t
=============================================================================
