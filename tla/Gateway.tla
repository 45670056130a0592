------------------------------- MODULE Gateway -------------------------------
(***************************************************************************)
(* The request gateway (apps/api/src/gateway/stages.ts, gateway.guard.ts)  *)
(* over Sessions and the machine keys of auth/machine-auth.ts.  A request  *)
(* goes through its stages in a fixed order and waits in each for an       *)
(* answer: the tenant of its host, the principal of its credential, the    *)
(* apps of the tenant, the rate limit.  Meanwhile sessions end and keys    *)
(* are revoked.                                                            *)
(***************************************************************************)
EXTENDS Sessions

CONSTANTS
    Requesters,     \* callers that may make requests
    Routes,         \* handlers: [realms, allowAnonymous, requiredApp, skipGateway]
    None,           \* no such metadata on the handler, no credential
    Hosts, TenantOfHost,    \* the tenant directory: NoTenant for an unknown host
    Installed,              \* the apps of the tenants: pairs
    Keys, KeyTenant,        \* the machine keys and their tenants
    SkewMs                  \* accepted clock skew of a signed credential

\* What is not there is no realm.
ASSUME RoutesAssumption == \A route \in Routes : route.realms # None => None \notin route.realms

VARIABLES
    request,        \* what each caller asks of which route
    revokedKeys

vars == <<clock, records, heirOf, call, request, revokedKeys>>

outside == <<clock, records, heirOf, revokedKeys>>

NoCredential == [kind |-> "absent", key |-> None, signedAt |-> 0, valid |-> FALSE]

NoRequest ==
    [route |-> None, credential |-> NoCredential, revoked |-> FALSE, realm |-> None,
     dead |-> FALSE]

Init ==
    /\ SessionsInit
    /\ request = [c \in Callers |-> NoRequest]
    /\ revokedKeys = {}

Goto(c, pc) ==
    /\ Advance(c, pc)
    /\ UNCHANGED <<outside, request>>

\* parseRealmTaggedBearer: absent, garbled, or a realm and what it tags.
SessionCredentials == [kind : {"session"}, key : {None}, signedAt : {0}, valid : {TRUE}]

KeyCredentials == [kind : {"key"}, key : Keys, signedAt : 0..(clock + SkewMs + 1), valid : BOOLEAN]

OtherCredentials == [kind : {"absent", "garbled"}, key : {None}, signedAt : {0}, valid : {FALSE}]

\* GatewayGuard.canActivate.
Arrive(c) ==
    /\ c \in Requesters
    /\ \E route \in Routes, host \in Hosts,
          credential \in SessionCredentials \cup KeyCredentials \cup OtherCredentials :
        /\ \E hash \in Presented, p \in Principals :
              /\ credential.kind # "session" => hash = NoHash /\ p = CHOOSE q \in Principals : TRUE
              /\ Begin(c, "request", IF route.skipGateway THEN "served" ELSE "tenant", hash,
                       p.realm, TenantOfHost[host], Null)
        /\ request' = [request EXCEPT ![c] =
              [NoRequest EXCEPT !.route = route, !.credential = credential,
                                !.dead = credential.key \in revokedKeys]]
        /\ UNCHANGED outside

\* tenant_not_found.
ResolveTenant(c) ==
    /\ call[c].pc = "tenant"
    /\ Goto(c, IF call[c].tenant = NoTenant THEN "refused" ELSE "auth")

\* The realm gate: default-deny, and the realms of a route win over its
\* admission of anonymous callers.
Admitted(c, realm) ==
    LET route == request[c].route IN
    IF route.realms # None THEN realm \in route.realms ELSE route.allowAnonymous

Gate(c, realm) ==
    /\ Advance(c, IF Admitted(c, realm) THEN "entitlement" ELSE "refused")
    /\ request' = [request EXCEPT ![c].realm = realm]
    /\ UNCHANGED outside

AuthenticateNobody(c) ==
    /\ call[c].pc = "auth"
    /\ \/ request[c].credential.kind = "absent" /\ Gate(c, None)
       \/ request[c].credential.kind = "garbled" /\ Goto(c, "refused")

\* verifySession and verifyMachineCredential first read the record.
AuthenticateSession(c) ==
    /\ call[c].pc = "auth" /\ request[c].credential.kind = "session"
    /\ call' = [call EXCEPT ![c].pc = "got", ![c].read = Get(call[c].hash)]
    /\ UNCHANGED <<outside, request>>

AuthenticateKey(c) ==
    /\ call[c].pc = "auth" /\ request[c].credential.kind = "key"
    /\ Advance(c, "gotKey")
    /\ request' = [request EXCEPT ![c].revoked = request[c].credential.key \in revokedKeys]
    /\ UNCHANGED outside

SessionVerified(c) ==
    /\ call[c].op = "request" /\ call[c].pc = "verified"
    /\ Gate(c, call[c].realm)

KeyAccepted(c) ==
    LET credential == request[c].credential IN
    /\ ~request[c].revoked
    /\ clock <= credential.signedAt + SkewMs /\ credential.signedAt <= clock + SkewMs
    /\ credential.valid
    /\ KeyTenant[credential.key] = call[c].tenant

VerifyKey(c) ==
    /\ call[c].pc = "gotKey"
    /\ IF KeyAccepted(c) THEN Gate(c, "machine") ELSE Goto(c, "refused")

Entitle(c) ==
    /\ call[c].pc = "entitlement"
    /\ LET app == request[c].route.requiredApp
       IN  Goto(c, IF app = None \/ <<call[c].tenant, app>> \in Installed THEN "limit"
                   ELSE "refused")

\* The only rate limiter there is lets everything pass.
Limit(c) == call[c].pc = "limit" /\ Goto(c, "served")

Respond(c) ==
    /\ call[c].op = "request" /\ call[c].pc \in {"served", "refused"}
    /\ call' = [call EXCEPT ![c] = Idle]
    /\ request' = [request EXCEPT ![c] = NoRequest]
    /\ UNCHANGED outside

RevokeKey(k) ==
    /\ k \notin revokedKeys
    /\ revokedKeys' = revokedKeys \cup {k}
    /\ UNCHANGED <<clock, records, heirOf, call, request>>

GatewayStep(c) ==
    \/ Arrive(c) \/ ResolveTenant(c)
    \/ AuthenticateNobody(c) \/ AuthenticateSession(c) \/ AuthenticateKey(c)
    \/ SessionVerified(c) \/ VerifyKey(c)
    \/ Entitle(c) \/ Limit(c) \/ Respond(c)

Next ==
    \/ SessionsNext /\ UNCHANGED <<request, revokedKeys>>
    \/ \E c \in Callers : GatewayStep(c)
    \/ \E k \in Keys : RevokeKey(k)

Spec == Init /\ [][Next]_vars
-----------------------------------------------------------------------------
\* What the four stages promise a handler together: whoever it serves has a
\* realm the route admits, verified with a credential that was still good when
\* the request came, of the tenant whose host was asked, or above tenancy.
ServedInScope ==
    \A c \in Callers :
        LET k == call[c]  r == request[c] IN
        (k.op = "request" /\ k.pc = "served" /\ ~r.route.skipGateway) =>
            /\ r.realm = None => r.route.realms = None /\ r.route.allowAnonymous
            /\ r.route.realms # None => r.realm \in r.route.realms
            /\ r.credential.kind = "session" =>
                  /\ ~k.dead
                  /\ k.read.principal.tenantId \in {NoTenant, k.tenant}
                  /\ k.read.principal.realm = r.realm
            /\ r.credential.kind = "key" =>
                  /\ ~r.dead
                  /\ KeyTenant[r.credential.key] = k.tenant

=============================================================================
