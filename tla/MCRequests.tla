------------------------------ MODULE MCRequests ------------------------------
(***************************************************************************)
(* What a request to the api may do (MCAccess), and the vouchers that      *)
(* requests and deliveries are served (MCDocuments).  Each behaviour moves *)
(* one of them.                                                            *)
(***************************************************************************)
EXTENDS MCAccess, MCDocuments

RequestsInit ==
    /\ Init /\ TwoFactorInit /\ DocumentsInit
    /\ secret.bytes = MCSecret
    /\ moves \in {"gateway", "codes", "recovery", "documents"}

RequestsNext ==
    \/ moves # "documents" /\ AccessNext /\ UNCHANGED documentVars
    \/ moves = "documents" /\ DocumentsNext /\ UNCHANGED accessVars

RequestsSpec == RequestsInit /\ [][RequestsNext]_<<accessVars, documentVars>>
===============================================================================
