------------------------------- MODULE Sessions -------------------------------
(***************************************************************************)
(* Realm-bound sessions (apps/api/src/auth/session-service.ts over         *)
(* session-store.ts): issue, verify, rotate, revoke one, revoke all of a   *)
(* user.  The store is a map from token hash to record; a hash is the      *)
(* number of the issuance, which is fresh.  Each operation is cut at its   *)
(* awaits, so two operations interleave between reading a record and       *)
(* acting on what was read.                                                *)
(***************************************************************************)
EXTENDS Naturals, Sequences, FiniteSets

CONSTANTS
    Callers,        \* operations under way at one time
    Principals,     \* [realm, userId, tenantId], tenantId = NoTenant for platform
    NoTenant,
    TtlMs, IdleTimeoutMs,   \* functions of the realm: the session policies
    MaxSessions,    \* bound on issuances
    MaxLogins,      \* bound on those that no rotation makes
    LastInstant     \* bound on the clock

ASSUME PoliciesAssumption ==
    \A p \in Principals : TtlMs[p.realm] \in Nat /\ IdleTimeoutMs[p.realm] \in Nat
ASSUME SessionBoundsAssumption == MaxSessions \in Nat

Hashes == 1..MaxSessions

NoHash == 0

\* No record under a hash.
Null == [present |-> FALSE]

VARIABLES
    clock,
    records,        \* the store
    heirOf,         \* for each issued hash, the one it was rotated from or NoHash
    call            \* what each operation was asked, has read and answered

sessionVars == <<clock, records, heirOf, call>>

Live == {h \in Hashes : records[h].present}

Gone == 1..Len(heirOf) \ Live

Idle == [op |-> "none", pc |-> "idle", hash |-> NoHash, realm |-> "none",
         tenant |-> NoTenant, read |-> Null, dead |-> FALSE]

SessionsInit ==
    /\ clock = 0
    /\ records = [h \in Hashes |-> Null]
    /\ heirOf = <<>>
    /\ call = [c \in Callers |-> Idle]

Tick ==
    /\ clock < LastInstant
    /\ clock' = clock + 1
    /\ UNCHANGED <<records, heirOf, call>>
-----------------------------------------------------------------------------
(* The store                                                               *)

Record(principal) ==
    [present |-> TRUE, principal |-> principal, expiresAtMs |-> clock + TtlMs[principal.realm],
     idleTimeoutMs |-> IdleTimeoutMs[principal.realm], lastSeenAtMs |-> clock]

Put(principal, from) ==
    /\ Len(heirOf) < MaxSessions
    /\ heirOf' = Append(heirOf, from)
    /\ records' = [records EXCEPT ![Len(heirOf) + 1] = Record(principal)]

\* A touch that writes back the record it was given.
BlindTouch(hash, read) ==                                            \* mutant
    records' = [records EXCEPT ![hash] = [read EXCEPT !.lastSeenAtMs = clock]]

\* touch: conditional on the record being there.
Touch(hash, read) ==
    records' = [records EXCEPT ![hash] = IF @.present THEN [@ EXCEPT !.lastSeenAtMs = clock] ELSE @]

Delete(hash) == records' = [records EXCEPT ![hash] = Null]

DeleteAllForUser(principal) ==
    records' = [h \in Hashes |->
        IF records[h].present /\ records[h].principal = principal THEN Null ELSE records[h]]
-----------------------------------------------------------------------------
(* The operations                                                          *)

Advance(c, pc) == call' = [call EXCEPT ![c].pc = pc]

\* The client has its answer; the gateway's own answer is still to come.
Answer(c, pc) ==
    IF call[c].op = "request" THEN Advance(c, pc) ELSE call' = [call EXCEPT ![c] = Idle]

\* The hashes that a client could hold, or one that was never issued.
Presented == 0..Len(heirOf)

\* get.
Get(hash) == IF hash = NoHash THEN Null ELSE records[hash]

Begin(c, op, pc, hash, realm, tenant, read) ==
    /\ call[c].pc = "idle"
    /\ call' = [call EXCEPT ![c] = [op |-> op, pc |-> pc, hash |-> hash, realm |-> realm,
                                    tenant |-> tenant, read |-> read,
                                    dead |-> op = "request" /\ hash \in Gone]]

\* rotate and revoke read the record before their first await.
BeginRotateOrRevoke(c) ==
    /\ \E op \in {"rotate", "revoke"}, h \in Presented \ {NoHash}, p \in Principals :
          Begin(c, op, "got", h, p.realm, p.tenantId, Get(h))
    /\ UNCHANGED <<clock, records, heirOf>>

\* issue: called by a login that checked the principal.  Only a platform
\* principal is above tenancy.
Issue(principal) ==
    /\ (principal.realm = "platform") <=> (principal.tenantId = NoTenant)
    /\ Cardinality({h \in DOMAIN heirOf : heirOf[h] = NoHash}) < MaxLogins
    /\ Put(principal, NoHash)
    /\ UNCHANGED <<clock, call>>

MatchesAnyTenant(k) ==                                               \* mutant
    k.read.present /\ k.read.principal.realm = k.realm

Matches(k) ==
    /\ k.read.present
    /\ k.read.principal.realm = k.realm
    /\ k.read.principal.tenantId \in {NoTenant, k.tenant}

Expired(k) ==
    \/ clock >= k.read.expiresAtMs
    \/ clock - k.read.lastSeenAtMs > k.read.idleTimeoutMs

Verifying(c) == call[c].pc = "got" /\ call[c].op # "revoke"

\* unknown_token, realm_mismatch, tenant_mismatch.
VerifyRefuses(c) ==
    /\ Verifying(c) /\ ~Matches(call[c])
    /\ Answer(c, "refused")
    /\ UNCHANGED <<clock, records, heirOf>>

\* expired, idle_timeout.
VerifyExpires(c) ==
    /\ Verifying(c) /\ Matches(call[c]) /\ Expired(call[c])
    /\ Delete(call[c].hash)
    /\ Answer(c, "refused")
    /\ UNCHANGED <<clock, heirOf>>

VerifyTouches(c) ==
    /\ Verifying(c) /\ Matches(call[c]) /\ ~Expired(call[c])
    /\ Touch(call[c].hash, call[c].read)
    /\ IF records[call[c].hash].present THEN Advance(c, "verified") ELSE Answer(c, "refused")
    /\ UNCHANGED <<clock, heirOf>>

DeletedIt(hash) == TRUE                                              \* mutant

\* delete answers whether this call removed the record.
IsOurs(hash) == records[hash].present

RotateDeletes(c) ==
    /\ call[c].op = "rotate" /\ call[c].pc = "verified"
    /\ Delete(call[c].hash)
    /\ IF IsOurs(call[c].hash) THEN Advance(c, "replace") ELSE Answer(c, "refused")
    /\ UNCHANGED <<clock, heirOf>>

RotateIssues(c) ==
    /\ call[c].pc = "replace"
    /\ Put(call[c].read.principal, call[c].hash)
    /\ Answer(c, "done")
    /\ UNCHANGED clock

Revoke(c) ==
    /\ call[c].op = "revoke" /\ call[c].pc = "got"
    /\ IF call[c].read.present /\ call[c].read.principal.realm = call[c].realm
       THEN Delete(call[c].hash)
       ELSE UNCHANGED records
    /\ Answer(c, "done")
    /\ UNCHANGED <<clock, heirOf>>

RevokeByHash(hash) ==
    /\ records[hash].present
    /\ Delete(hash)
    /\ UNCHANGED <<clock, heirOf, call>>

RevokeAllForUser(principal) ==
    /\ \E h \in Live : records[h].principal = principal
    /\ DeleteAllForUser(principal)
    /\ UNCHANGED <<clock, heirOf, call>>

SessionsStep(c) ==
    \/ BeginRotateOrRevoke(c)
    \/ VerifyRefuses(c) \/ VerifyExpires(c) \/ VerifyTouches(c)
    \/ RotateDeletes(c) \/ RotateIssues(c) \/ Revoke(c)

SessionsNext ==
    \/ Tick
    \/ \E p \in Principals : Issue(p) \/ RevokeAllForUser(p)
    \/ \E h \in Live : RevokeByHash(h)
    \/ \E c \in Callers : SessionsStep(c)
-----------------------------------------------------------------------------
\* session-store.ts: "revocation must win every race".  A record that was
\* deleted, by whatever operation, is never in the store again, whatever the
\* operations that had read it before do.
DeletedStaysDeleted == [][Gone \subseteq Gone']_sessionVars

\* session-store.ts: delete answers true once per record, "which is what lets
\* rotation refuse": however many rotations of one session overlap, and
\* whatever revokes it meanwhile, it has at most one heir, and none while it
\* lives.
OneHeir ==
    \A g, h \in 1..Len(heirOf) :
        heirOf[g] # NoHash =>
            /\ heirOf[g] \notin Live
            /\ heirOf[g] = heirOf[h] => g = h

=============================================================================
