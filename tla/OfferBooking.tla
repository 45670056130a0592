----------------------------- MODULE OfferBooking -----------------------------
(***************************************************************************)
(* The life of offers between search and booking (apps/api: offers and     *)
(* hotel-booking): search issues an offer, check revalidates it with the   *)
(* supplier - stamping it, replacing it by a successor or withdrawing it - *)
(* and bookHotel claims it, creates the booking under the caller's         *)
(* clientReference and calls the supplier.  Checks and book requests of    *)
(* several clients run at once against one tenant database.                *)
(*                                                                         *)
(* A handler is cut at its awaits: one step per statement or supplier hop. *)
(* What happens to a booking after the supplier call is BookingLifecycle.  *)
(***************************************************************************)
EXTENDS Integers, TLC

CONSTANTS
    Offers,         \* offer ids
    References,     \* clientReference values
    Agencies,       \* sub-tenants, the direct channel as one of them
    Requests,       \* bookHotel calls
    Checks,         \* processes that serve checkOffer calls
    None,           \* SQL null, and no offer, reference or agency
    TTL,            \* life of an offer
    Window,         \* how long a check keeps an offer bookable
    MaxTime         \* bound: the clock stops here

ASSUME NoneAssumption ==
    None \notin Int \union Offers \union Agencies \union References
ASSUME TimeAssumption == TTL \in Nat \ {0} /\ Window \in Nat /\ MaxTime \in Nat

VARIABLES
    now,
    offers,     \* offer rows
    bookings,   \* booking and booking_item rows, by clientReference
    req,        \* the book requests
    chk         \* the checks

vars == <<now, offers, bookings, req, chk>>

\* The row keeps only the instant of its invalidation; invalidatedBy also says
\* who did it.  root is the searched offer a chain of successors began with.
OfferRows ==
    [invalidatedBy : {"absent", "nobody", "claim", "supersede", "withdrawal"},
     root      : Offers \union {None},
     agency    : Agencies \union {None},
     expiresAt : Nat,
     checkedAt : Nat \union {None}]

NoOfferRow ==
    [invalidatedBy |-> "absent", root |-> None, agency |-> None,
     expiresAt |-> 0, checkedAt |-> None]

BookingRows == [agency : Agencies \union {None}, offer : Offers \union {None}]

NoBooking == [agency |-> None, offer |-> None]

Underway == {"looked", "gated", "claimed", "created"}
Answers == {"booked", "replayed", "in_use", "conflict", "invalidated", "refused", "crashed"}

RequestStates ==
    [pc        : {"idle"} \union Underway \union Answers,
     reference : References \union {None},
     agency    : Agencies \union {None},
     offer     : Offers \union {None}]

NoRequest == [pc |-> "idle", reference |-> None, agency |-> None, offer |-> None]

\* at: when the successor of a moved offer was built.
CheckStates ==
    [pc    : {"idle", "asking", "same", "moved", "gone", "unchanged"},
     offer : Offers \union {None},
     at    : Nat]

IdleCheck == [pc |-> "idle", offer |-> None, at |-> 0]

Exists(o) == offers[o].invalidatedBy # "absent"
Live(o) == offers[o].invalidatedBy = "nobody"
Expired(o) == now >= offers[o].expiresAt

\* The conditional invalidation: it flips a live row only.
Invalidate(o, by) ==
    offers' = [offers EXCEPT ![o].invalidatedBy = IF @ = "nobody" THEN by ELSE @]

Tick ==
    /\ now < MaxTime
    /\ now' = now + 1
    /\ UNCHANGED <<offers, bookings, req, chk>>

\* OffersService.issueOffer: a priced search result becomes an unchecked offer.
IssueOffer(o) ==
    /\ ~Exists(o)
    /\ \E agency \in Agencies :
          offers' = [offers EXCEPT ![o] =
             [invalidatedBy |-> "nobody", root |-> o, agency |-> agency,
              expiresAt |-> now + TTL, checkedAt |-> None]]
    /\ UNCHANGED <<now, bookings, req, chk>>
-----------------------------------------------------------------------------
(* checkOffer                                                              *)

\* verifyOfferToken, on the token of a client of the offer's agency; a check
\* of any other offer changes nothing.
CheckVerify(c) ==
    /\ chk[c].pc = "idle"
    /\ \E o \in Offers :
          /\ Live(o) /\ ~Expired(o)
          /\ chk' = [chk EXCEPT ![c] = [pc |-> "asking", offer |-> o, at |-> 0]]
    /\ UNCHANGED <<now, offers, bookings, req>>

\* The supplier's answer: the rate is as stored, it (or the supplier's own
\* token) moved, or it is gone.  For a moved one a successor is built.
CheckAnswer(c) ==
    /\ chk[c].pc = "asking"
    /\ \E pc \in {"same", "moved", "gone"} :
          chk' = [chk EXCEPT ![c].pc = pc, ![c].at = IF pc = "moved" THEN now ELSE 0]
    /\ UNCHANGED <<now, offers, bookings, req>>

\* markChecked: WHERE invalidated_at IS NULL, with no look at the row count.
CheckMark(c) ==
    /\ chk[c].pc = "same"
    /\ LET o == chk[c].offer
       IN  offers' = IF Live(o) THEN [offers EXCEPT ![o].checkedAt = now] ELSE offers
    /\ chk' = [chk EXCEPT ![c].pc = "unchanged"]
    /\ UNCHANGED <<now, bookings, req>>

Successor(o, at) ==
    [invalidatedBy |-> "nobody", root |-> offers[o].root, agency |-> offers[o].agency,
     expiresAt |-> at + TTL, checkedAt |-> at]

CheckSupersedeAlways(c) ==                                           \* mutant
    /\ chk[c].pc = "moved"
    /\ LET o == chk[c].offer
       IN  \E s \in Offers :
              /\ ~Exists(s)
              /\ offers' = [offers EXCEPT
                    ![o].invalidatedBy = IF @ = "nobody" THEN "supersede" ELSE @,
                    ![s] = Successor(o, chk[c].at)]
    /\ chk' = [chk EXCEPT ![c] = IdleCheck]
    /\ UNCHANGED <<now, bookings, req>>

\* supersedeOffer: one transaction claims the row and inserts its successor,
\* born checked; a check that lost the row to another inserts nothing.
CheckSupersede(c) ==
    /\ chk[c].pc = "moved"
    /\ LET o == chk[c].offer
       IN  \/ /\ Live(o)
              /\ \E s \in Offers :
                    /\ ~Exists(s)
                    /\ offers' = [offers EXCEPT
                          ![o].invalidatedBy = "supersede", ![s] = Successor(o, chk[c].at)]
           \/ ~Live(o) /\ UNCHANGED offers
    /\ chk' = [chk EXCEPT ![c] = IdleCheck]
    /\ UNCHANGED <<now, bookings, req>>

\* sold_out, or a rate the supplier no longer knows.
CheckWithdraw(c) ==
    /\ chk[c].pc = "gone"
    /\ Invalidate(chk[c].offer, "withdrawal")
    /\ chk' = [chk EXCEPT ![c] = IdleCheck]
    /\ UNCHANGED <<now, bookings, req>>

\* The answer is out, the call failed or the process died: the next call.
CheckEnd(c) ==
    /\ chk[c].pc # "idle"
    /\ chk' = [chk EXCEPT ![c] = IdleCheck]
    /\ UNCHANGED <<now, offers, bookings, req>>
-----------------------------------------------------------------------------
(* bookHotel                                                               *)

Answer(r, pc) == req' = [req EXCEPT ![r].pc = pc]

\* The order of the two refusals matters: another agency's reference is never
\* compared with its offer.
ReplayAnswer(agency, offer, booking) ==
    CASE booking.agency # agency -> "in_use"
      [] booking.agency = agency /\ booking.offer # offer -> "conflict"
      [] OTHER -> "replayed"

\* findByClientReference comes first: a replay is answered whatever became of
\* the offer, and whatever the signature of the token.
LookUp(r) ==
    /\ req[r].pc = "idle"
    /\ \E reference \in References, agency \in Agencies, o \in Offers :
          /\ Exists(o)
          /\ req' = [req EXCEPT ![r] =
                [pc        |-> IF bookings[reference] = NoBooking THEN "looked"
                               ELSE ReplayAnswer(agency, o, bookings[reference]),
                 reference |-> reference,
                 agency    |-> agency,
                 offer     |-> o]]
    /\ UNCHANGED <<now, offers, bookings, chk>>

\* What requireBookableOffer asks of the row as it is now: priced for the
\* caller, neither withdrawn nor expired, vouched for within the window.
PricedFor(r) == offers[req[r].offer].agency = req[r].agency

Bookable(o) ==
    /\ Live(o) /\ ~Expired(o)
    /\ offers[o].checkedAt # None
    /\ now - offers[o].checkedAt <= Window

GateAfterClaim(r) ==                                                 \* mutant
    /\ req[r].pc = "looked"
    /\ PricedFor(r) /\ Bookable(req[r].offer)
    /\ Invalidate(req[r].offer, "claim")
    /\ Answer(r, "claimed") \/ Answer(r, "refused")
    /\ UNCHANGED <<now, bookings, chk>>

\* requireBookableOffer, requirePolicy and assertGuestsMatchOccupancy.  The
\* signature of the token or the guests may be refused at any time.
Gate(r) ==
    /\ req[r].pc = "looked"
    /\ \/ PricedFor(r) /\ ~Live(req[r].offer) /\ Answer(r, "invalidated")
       \/ PricedFor(r) /\ Bookable(req[r].offer) /\ Answer(r, "gated")
       \/ Answer(r, "refused")
    /\ UNCHANGED <<now, offers, bookings, chk>>

ClaimUnguarded(r) ==                                                 \* mutant
    /\ req[r].pc = "gated"
    /\ Invalidate(req[r].offer, "claim")
    /\ Answer(r, "claimed")
    /\ UNCHANGED <<now, bookings, chk>>

\* claimOfferForBooking looks at invalidated_at only.
Claim(r) ==
    /\ req[r].pc = "gated"
    /\ Invalidate(req[r].offer, "claim")
    /\ Answer(r, IF Live(req[r].offer) THEN "claimed" ELSE "invalidated")
    /\ UNCHANGED <<now, bookings, chk>>

\* createHotelBooking: the unique clientReference lets one booking through; the
\* loser is answered like a replay, its offer spent.
Create(r) ==
    /\ req[r].pc = "claimed"
    /\ LET reference == req[r].reference
       IN  \/ /\ bookings[reference] = NoBooking
              /\ bookings' = [bookings EXCEPT ![reference] =
                                 [agency |-> req[r].agency, offer |-> req[r].offer]]
              /\ Answer(r, "created")
           \/ /\ bookings[reference] # NoBooking
              /\ Answer(r, ReplayAnswer(req[r].agency, req[r].offer, bookings[reference]))
              /\ UNCHANGED bookings
    /\ UNCHANGED <<now, offers, chk>>

\* The item is reserved and the supplier called.
CallSupplier(r) ==
    /\ req[r].pc = "created"
    /\ Answer(r, "booked")
    /\ UNCHANGED <<now, offers, bookings, chk>>

Crash(r) ==
    /\ req[r].pc \in Underway
    /\ Answer(r, "crashed")
    /\ UNCHANGED <<now, offers, bookings, chk>>
-----------------------------------------------------------------------------
Init ==
    /\ now = 0
    /\ offers = [o \in Offers |-> NoOfferRow]
    /\ bookings = [reference \in References |-> NoBooking]
    /\ req = [r \in Requests |-> NoRequest]
    /\ chk = [c \in Checks |-> IdleCheck]

CheckStep(c) ==
    \/ CheckVerify(c) \/ CheckAnswer(c) \/ CheckMark(c) \/ CheckSupersede(c)
    \/ CheckWithdraw(c) \/ CheckEnd(c)

BookStep(r) == LookUp(r) \/ Gate(r) \/ Claim(r) \/ Create(r) \/ CallSupplier(r) \/ Crash(r)

Next ==
    \/ Tick
    \/ \E o \in Offers : IssueOffer(o)
    \/ \E c \in Checks : CheckStep(c)
    \/ \E r \in Requests : BookStep(r)

Spec == Init /\ [][Next]_vars
-----------------------------------------------------------------------------
(* Properties.                                                             *)

\* The type invariant.  Rows keep the lineage of an offer that exists.
TypeOK ==
    /\ now \in 0 .. MaxTime
    /\ offers \in [Offers -> OfferRows]
    /\ \A o \in Offers : Exists(o) => offers[o].root # None /\ offers[o].agency # None
    /\ bookings \in [References -> BookingRows]
    /\ req \in [Requests -> RequestStates]
    /\ \A r \in Requests : req[r].pc # "idle" =>
          /\ req[r].reference # None /\ req[r].agency # None
          /\ req[r].offer # None /\ Exists(req[r].offer)
    /\ chk \in [Checks -> CheckStates]
    /\ \A c \in Checks : chk[c].pc # "idle" => chk[c].offer # None /\ Exists(chk[c].offer)

\* An offer that may be booked, or was.
InPlay(o) == Live(o) \/ offers[o].invalidatedBy = "claim"

\* "For one offer there is never more than one bookable successor"
\* (offer-store.ts:99-100), nor one beside a booking: of all the offers that
\* came from one search result at most one is live or claimed, however many
\* checks and book requests race.
OneBookableSuccessor ==
    \A o, p \in Offers :
       InPlay(o) /\ InPlay(p) /\ offers[o].root = offers[p].root => o = p

\* "One offer, one supplier book attempt, ever" (booking.service.ts:156-157),
\* and one per clientReference: two calls that both reach the supplier share
\* neither the search result nor the reference.
OneBookAttempt ==
    \A r, s \in Requests :
       r # s /\ req[r].pc = "booked" /\ req[s].pc = "booked" =>
          /\ req[r].reference # req[s].reference
          /\ offers[req[r].offer].root # offers[req[s].offer].root

\* A caller answered with a booking, new or replayed, is answered with its own:
\* made by its agency, under its reference, from the offer of its token
\* (assertReplayEquivalence), whoever won the race for the reference.
AnswersOwnBooking ==
    \A r \in Requests : req[r].pc \in {"created", "booked", "replayed"} =>
       bookings[req[r].reference] = [agency |-> req[r].agency, offer |-> req[r].offer]

\* A claim, which is never undone, is not lost silently: the offer has its
\* booking, or a request that is about to make it, or one that was told of a
\* conflict over its reference, or died.
ClaimsAccountedFor ==
    \A o \in Offers : offers[o].invalidatedBy = "claim" =>
       \/ \E reference \in References : bookings[reference].offer = o
       \/ \E r \in Requests :
             req[r].offer = o /\ req[r].pc \in {"claimed", "in_use", "conflict", "crashed"}

-----------------------------------------------------------------------------
\* For model checking: nothing tells offers, references, agencies, requests or
\* checks apart.
Symmetry ==
    Permutations(Offers) \union Permutations(References) \union Permutations(Agencies)
       \union Permutations(Requests) \union Permutations(Checks)
=============================================================================
