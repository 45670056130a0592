-------------------------- MODULE MCTenantDatabases ----------------------------
(***************************************************************************)
(* Provisioning, migrations and the connection resolver on the same tenant *)
(* rows.  A behaviour looks at the resolver while tenants are being        *)
(* provisioned, or at provisioners and fan-outs of several releases among  *)
(* each other: the two meet in db_name only, which is written once.        *)
(***************************************************************************)
EXTENDS TenantPools, TenantMigrations, TLC

CONSTANTS t1, t2, c1, c2, c3, p1, p2, f1, x

First == [controlPlane |-> <<"c">>, tenant |-> <<"a">>]
Second == [controlPlane |-> <<"c">>, tenant |-> <<"a", "b">>]
Edited == [controlPlane |-> <<"c">>, tenant |-> <<"x", "b">>]

MCReleases == {First, Second, Edited}

\* Both are asked for the same tenant.
MCTenantOf == [p \in {p1, p2} |-> t1]

VARIABLE focus      \* which of the two parts moves; never changes

vars == <<poolVars, migrationVars, focus>>

Init ==
    /\ PoolsInit /\ MigrationsInit
    /\ focus \in {"resolver", "migrations"}
    /\ focus = "resolver" => \A j \in Jobs : job[j].release = Installed /\ job[j].mode = "apply"
    /\ focus = "migrations" => \A c \in Callers : call[c].tenant \in Strangers

ResolverNext ==
    /\ focus = "resolver"
    /\ \/ PoolsNext /\ UNCHANGED migrationVars
       \/ JobStep(CHOOSE j \in Provisioners : TRUE) /\ UNCHANGED poolVars
    /\ UNCHANGED focus

RunsNext == focus = "migrations" /\ MigrationsNext /\ UNCHANGED <<poolVars, focus>>

Next == ResolverNext \/ RunsNext

Spec == Init /\ [][Next]_vars

FairSpec == Spec /\ MigrationsFairness

TypeOK == PoolsTypeOK /\ MigrationsTypeOK
=============================================================================
