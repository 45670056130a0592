-------------------------------- MODULE MCSales --------------------------------
(***************************************************************************)
(* Offers as the api deals in them: the algorithms that price, sign,       *)
(* recheck and tell of them (MCAlgorithms), and the requests and checks    *)
(* that race for them (OfferBooking).  Each behaviour moves one of them.   *)
(***************************************************************************)
EXTENDS OfferBooking, MCAlgorithms

VARIABLE moves

salesVars == <<vars, asked, moves>>

\* Nothing is asked of the algorithms while offers move.
NothingAsked == [kind |-> "nothing"]

SalesInit ==
    /\ moves \in {"algorithms", "offers"}
    /\ Init
    /\ IF moves = "algorithms" THEN AlgorithmsInit ELSE asked = NothingAsked

SalesNext ==
    /\ UNCHANGED moves
    /\ \/ moves = "algorithms" /\ Later /\ UNCHANGED vars
       \/ moves = "offers" /\ Next /\ UNCHANGED asked

SalesSpec == SalesInit /\ [][SalesNext]_salesVars
===============================================================================
