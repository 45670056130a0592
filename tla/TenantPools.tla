------------------------------ MODULE TenantPools ------------------------------
(***************************************************************************)
(* The tenant connection resolver (packages/db/src/resolver.ts) and its    *)
(* shutdown (apps/api/src/tenancy/tenant-db.module.ts): one connection     *)
(* pool per tenant, opened on first use, at most MaxPools of them cached,  *)
(* the least recently used one closed beyond that.                         *)
(*                                                                         *)
(* JavaScript runs alone between two awaits, so a step goes from one await *)
(* to the next: a call looks at the cache and joins or starts an opening;  *)
(* an opening waits for the control plane's answer, then for the end of    *)
(* the pool it evicts.  An opening is named after the call that started    *)
(* it, a pool after its place in the order they were opened.               *)
(***************************************************************************)
EXTENDS Integers, Sequences, FiniteSets, SequencesExt, TenantDirectory

CONSTANTS
    Callers,        \* calls of getTenantDb
    Strangers,      \* tenant ids without a row
    MaxPools,       \* pools kept open
    Nobody          \* no opening

ASSUME MaxPoolsAssumption == MaxPools \in Nat \ {0}
ASSUME CallersAssumption == IsFiniteSet(Callers) /\ Nobody \notin Callers

\* Pools are numbered from 1.
NoPool == 0

VARIABLES
    pools,          \* the cached pool of each tenant, or NoPool
    recency,        \* tenants with a cached pool, least recently used first
    inflight,       \* the opening other calls for the tenant join, or Nobody
    opening,        \* the openings: what each awaits
    pool,           \* every pool opened so far: its database and its state
    call,           \* what each caller asked for, waits for and was answered
    shutdown,       \* how far close() and the shutdown of the api are
    controlPlane    \* whether the control-plane client is open

poolVars == <<pools, recency, inflight, opening, pool, call, shutdown, controlPlane>>

Ids == Tenants \union Strangers

Openings == [pc : {"none", "lookup", "evicting"}, victim : Nat]

NoOpening == [pc |-> "none", victim |-> NoPool]

Calls ==
    [tenant : Ids, pc : {"new", "waiting", "served", "refused"},
     on : Callers \union {Nobody}, answer : Nat]

Cached == {t \in Tenants : pools[t] # NoPool}

Open == {p \in DOMAIN pool : pool[p].state # "ended"}

PoolsInit ==
    /\ pools = [t \in Tenants |-> NoPool]
    /\ recency = <<>>
    /\ inflight = [t \in Ids |-> Nobody]
    /\ opening = [c \in Callers |-> NoOpening]
    /\ pool = <<>>
    /\ call \in {[c \in Callers |->
                    [tenant |-> id[c], pc |-> "new", on |-> Nobody, answer |-> NoPool]] :
                    id \in [Callers -> Ids]}
    /\ shutdown = "running"
    /\ controlPlane = "open"

\* A tenant with a cached pool has one place in the order.
Without(t) ==
    IF t \in Cached THEN RemoveAt(recency, CHOOSE i \in DOMAIN recency : recency[i] = t)
    ELSE recency

\* The opening of o ends; every call that awaits it gets its answer.
Settled(o, pc, answer) ==
    /\ opening' = [opening EXCEPT ![o] = NoOpening]
    /\ inflight' = [inflight EXCEPT ![call[o].tenant] = Nobody]
    /\ call' = [c \in Callers |->
                    IF call[c].pc = "waiting" /\ call[c].on = o
                    THEN [call[c] EXCEPT !.pc = pc, !.answer = answer]
                    ELSE call[c]]
-----------------------------------------------------------------------------
(* getTenantDb                                                             *)

RefuseClosed(c) ==
    /\ call[c].pc = "new" /\ shutdown # "running"
    /\ call' = [call EXCEPT ![c].pc = "refused"]
    /\ UNCHANGED <<pools, recency, inflight, opening, pool, shutdown, controlPlane>>

Hit(c) ==
    LET t == call[c].tenant IN
    /\ call[c].pc = "new" /\ shutdown = "running"
    /\ t \in Cached
    /\ call' = [call EXCEPT ![c].pc = "served", ![c].answer = pools[t]]
    /\ recency' = Append(Without(t), t)
    /\ UNCHANGED <<pools, inflight, opening, pool, shutdown, controlPlane>>

JoinsNothing(c) == FALSE                                             \* mutant

Joins(c) == inflight[call[c].tenant] # Nobody

Join(c) ==
    LET t == call[c].tenant IN
    /\ call[c].pc = "new" /\ shutdown = "running"
    /\ t \notin Cached /\ Joins(c)
    /\ call' = [call EXCEPT ![c].pc = "waiting", ![c].on = inflight[t]]
    /\ UNCHANGED <<pools, recency, inflight, opening, pool, shutdown, controlPlane>>

StartOpening(c) ==
    LET t == call[c].tenant IN
    /\ call[c].pc = "new" /\ shutdown = "running"
    /\ t \notin Cached /\ ~Joins(c)
    /\ call' = [call EXCEPT ![c].pc = "waiting", ![c].on = c]
    /\ inflight' = [inflight EXCEPT ![t] = c]
    /\ opening' = [opening EXCEPT ![c].pc = "lookup"]
    /\ UNCHANGED <<pools, recency, pool, shutdown, controlPlane>>
-----------------------------------------------------------------------------
(* open and evictOverflow                                                  *)

\* The tenant has no row, no database yet, or the query itself fails.
OpenFails(o) ==
    /\ opening[o].pc = "lookup"
    /\ Settled(o, "refused", NoPool)
    /\ UNCHANGED <<pools, recency, pool, shutdown, controlPlane>>

Connected(t) == Append(pool, [of |-> dbName[t], state |-> "live"])

OpenPool(o) ==
    LET t == call[o].tenant
        used == Append(Without(t), t)
    IN  /\ opening[o].pc = "lookup"
        /\ t \in Tenants /\ dbName[t] # NoDatabase
        /\ Len(used) <= MaxPools
        /\ pool' = Connected(t)
        /\ pools' = [pools EXCEPT ![t] = Len(pool) + 1]
        /\ recency' = used
        /\ Settled(o, "served", Len(pool) + 1)
        /\ UNCHANGED <<shutdown, controlPlane>>

\* Beyond the limit the new pool is cached and the oldest removed in one step;
\* the opening, and every call that joined it, then awaits the end of the
\* latter.  No other opening leaves the cache above the limit, so the loop of
\* evictOverflow runs once.
OpenPoolOverLimit(o) ==
    LET t == call[o].tenant
        used == Append(Without(t), t)
        lru == Head(used)
    IN  /\ opening[o].pc = "lookup"
        /\ t \in Tenants /\ dbName[t] # NoDatabase
        /\ Len(used) > MaxPools
        /\ pool' = [Connected(t) EXCEPT ![pools[lru]].state = "ending"]
        /\ pools' = [pools EXCEPT ![t] = Len(pool) + 1, ![lru] = NoPool]
        /\ recency' = Tail(used)
        /\ opening' = [opening EXCEPT ![o] = [pc |-> "evicting", victim |-> pools[lru]]]
        /\ call' = [call EXCEPT ![o].answer = Len(pool) + 1]
        /\ UNCHANGED <<inflight, shutdown, controlPlane>>

EvictionEnds(o) ==
    /\ opening[o].pc = "evicting"
    /\ pool' = [pool EXCEPT ![opening[o].victim].state = "ended"]
    /\ Settled(o, "served", call[o].answer)
    /\ UNCHANGED <<pools, recency, shutdown, controlPlane>>
-----------------------------------------------------------------------------
(* The shutdown of the api: resolver.close(), then the control plane's.    *)

Close ==
    /\ shutdown = "running"
    /\ shutdown' = "settling"
    /\ UNCHANGED <<pools, recency, inflight, opening, pool, call, controlPlane>>

OpeningsSettled == \A t \in Ids : inflight[t] = Nobody

CloseAwaits == OpeningsSettled

CloseClearsPools ==
    /\ shutdown = "settling"
    /\ CloseAwaits
    /\ shutdown' = "ending"
    /\ pool' = [p \in DOMAIN pool |->
                    IF \E t \in Cached : pools[t] = p
                    THEN [pool[p] EXCEPT !.state = "ending"] ELSE pool[p]]
    /\ pools' = [t \in Tenants |-> NoPool]
    /\ recency' = <<>>
    /\ UNCHANGED <<inflight, opening, call, controlPlane>>

CloseEndsPools ==
    /\ shutdown = "ending"
    /\ shutdown' = "closed"
    /\ pool' = [p \in DOMAIN pool |->
                    IF pool[p].state = "ending" THEN [pool[p] EXCEPT !.state = "ended"]
                    ELSE pool[p]]
    /\ UNCHANGED <<pools, recency, inflight, opening, call, controlPlane>>

CloseControlPlane ==
    /\ shutdown = "closed" /\ controlPlane = "open"
    /\ controlPlane' = "closed"
    /\ UNCHANGED <<pools, recency, inflight, opening, pool, call, shutdown>>
-----------------------------------------------------------------------------
CallerStep(c) == RefuseClosed(c) \/ Hit(c) \/ Join(c) \/ StartOpening(c)

OpeningStep(o) ==
    OpenFails(o) \/ OpenPool(o) \/ OpenPoolOverLimit(o) \/ EvictionEnds(o)

ShutdownStep == Close \/ CloseClearsPools \/ CloseEndsPools \/ CloseControlPlane

PoolsNext ==
    \/ \E c \in Callers : CallerStep(c) \/ OpeningStep(c)
    \/ ShutdownStep
-----------------------------------------------------------------------------
PoolsTypeOK ==
    /\ pools \in [Tenants -> Nat]
    /\ recency \in Seq(Tenants)
    /\ inflight \in [Ids -> Callers \union {Nobody}]
    /\ opening \in [Callers -> Openings]
    /\ pool \in Seq([of : Tenants, state : {"live", "ending", "ended"}])
    /\ call \in [Callers -> Calls]
    /\ shutdown \in {"running", "settling", "ending", "closed"}
    /\ controlPlane \in {"open", "closed"}

\* Every connection pool that is open is in the cache of its tenant, or is
\* being ended by someone who waits for it, and no more are open than the limit
\* and the evictions in progress: no sequence of concurrent openings, evictions
\* and shutdown leaves connections to a tenant's database that nobody can end
\* (resolver.ts getTenantDb, evictOverflow).
NoPoolLeaks ==
    /\ \A p \in Open :
        \/ \E t \in Tenants : pools[t] = p /\ pool[p].of = dbName[t]
        \/ \E o \in Callers : opening[o].pc = "evicting" /\ opening[o].victim = p
        \/ shutdown = "ending"
    /\ Cardinality(Open) <=
         MaxPools + Cardinality({o \in Callers : opening[o].pc = "evicting"})

=============================================================================
