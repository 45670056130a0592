------------------------------- MODULE MCAccess -------------------------------
(***************************************************************************)
(* Everything that decides who may act: sessions and the gateway           *)
(* (Gateway), and the second factor (TwoFactor), which no login flow       *)
(* demands yet.  Sessions, codes and recovery codes share no state, so     *)
(* that each behaviour moves one of them and leaves the others.            *)
(***************************************************************************)
EXTENDS Gateway, TwoFactor, TLC

CONSTANTS a, b, hotels, key1, c1, c2

AgencyUser == [realm |-> "agency", userId |-> "u", tenantId |-> a]
Staff == [realm |-> "platform", userId |-> "u", tenantId |-> NoTenant]

MCPrincipals == {AgencyUser, Staff}

MCTtl == [agency |-> 5, platform |-> 1]
MCIdleTimeout == [agency |-> 0, platform |-> 1]

Route(realms, allowAnonymous, requiredApp, skipGateway) ==
    [realms |-> realms, allowAnonymous |-> allowAnonymous, requiredApp |-> requiredApp,
     skipGateway |-> skipGateway]

MCRoutes ==
    {Route({"agency"}, FALSE, hotels, FALSE), Route({"platform", "machine"}, TRUE, None, FALSE),
     Route(None, TRUE, None, FALSE),
     Route(None, FALSE, None, TRUE)}

MCTenantOfHost == [hostA |-> a, hostB |-> b, nowhere |-> NoTenant]

MCInstalled == {<<a, hotels>>}

MCKeyTenant == [k \in {key1} |-> a]

VARIABLE moves

accessVars == <<vars, totpVars, recoveryVars, moves>>

\* The user's, and another user's.
MCSecret == <<0, 255, 129, 7, 64>>

MCSecrets == {MCSecret, <<255, 254, 1, 128, 33>>}

\* Five bytes, a quarter of the twenty of the code, are eight symbols as well.
MCRecoverySecrets == <<<<1, 2, 3, 4, 5>>, <<250, 0, 17, 99, 200>>>>

\* The digits of steps 1 and 2 are the same.
MCTruncated == [step \in 0..4 |-> IF step = 2 THEN 1 ELSE step]

AccessInit ==
    /\ Init /\ TwoFactorInit
    /\ secret.bytes = MCSecret
    /\ moves \in {"gateway", "codes", "recovery"}

AccessNext ==
    /\ UNCHANGED moves
    /\ \/ moves = "gateway" /\ Next /\ UNCHANGED <<totpVars, recoveryVars>>
       \/ moves = "codes" /\ TotpNext /\ UNCHANGED <<vars, recoveryVars>>
       \/ moves = "recovery" /\ RecoveryNext /\ UNCHANGED <<vars, totpVars>>

AccessSpec == AccessInit /\ [][AccessNext]_accessVars

\* What may be used once is used once: a session token has one heir, a code
\* opens once and burns every code before it, a recovery code opens once, and
\* none of this keeps out who shows a code that was not used.
SingleUse == OneHeir /\ StepsRise /\ HonestCodesPass /\ RecoveryCodesBurn
===============================================================================
