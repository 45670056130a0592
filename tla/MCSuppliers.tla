------------------------------ MODULE MCSuppliers ------------------------------
(***************************************************************************)
(* What stands between the platform and its suppliers: the searches that   *)
(* race them (MCHotelSearch), and the breaker and retries under every      *)
(* single call (SupplierTransport), which a search sees as a lane that     *)
(* answers, fails or hangs.  Each behaviour moves one of them.             *)
(***************************************************************************)
EXTENDS SupplierTransport, MCHotelSearch

VARIABLE moves

supplierVars == <<vars, searchVars, moves>>

\* What the part that does not move starts from is all one.
SuppliersInit ==
    /\ Init /\ SearchInit
    /\ moves \in {"calls", "searches"}
    /\ moves = "searches" => mode = "live"
    /\ moves = "calls" =>
          \A q \in Searches :
             /\ search[q].body = CHOOSE body \in Bodies : TRUE
             /\ search[q].nationality = CHOOSE nationality \in Nationalities : TRUE

SuppliersNext ==
    /\ UNCHANGED moves
    /\ \/ moves = "calls" /\ Next /\ UNCHANGED searchVars
       \/ moves = "searches" /\ SearchNext /\ UNCHANGED vars

\* A search owes nothing before it is requested, and none is while calls move.
SuppliersSpec == SuppliersInit /\ [][SuppliersNext]_supplierVars /\ SearchFairness
=============================================================================
